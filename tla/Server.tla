-------------------------------- MODULE Server --------------------------------
(***************************************************************************)
(* The lists of githive mcp serve (cmd/githive/mcp.go) beside everything   *)
(* that Commands has: a client reads a list page by page, each page one    *)
(* call that reads the list again, while commands, syncs and other calls   *)
(* post and acknowledge in between.                                        *)
(*                                                                         *)
(* Every list tool pages the same way over items sorted by ID.  Three of   *)
(* them are here: all notifications, the unread ones of the caller, whose  *)
(* items also go away, and the log, which spans refs.  Posts of peers that *)
(* a sync brings in are posts of another process here, with IDs in any     *)
(* order.                                                                  *)
(***************************************************************************)
EXTENDS Commands

Notify == INSTANCE Notify

CONSTANTS
    DefaultPageSize,  \* defaultPageSize
    MaxPageSize       \* maxPageSize

ASSUME ServerAssumption ==
    /\ DefaultPageSize \in Nat \ {0} /\ MaxPageSize \in Nat \ {0}
    /\ \A m \in Menus : /\ m.lists \subseteq {"notify", "notify unread", "log"}
                        /\ m.limits \subseteq Int

VARIABLE
    paging    \* paging[p]: what p's client has of the list it is reading: the
              \* cursor for the next page, the items it was shown, in order,
              \* and, as history, the items there at every page it read

serverVars == <<vars, paging>>

Unread(p) ==
    Notify!Unread(FoldFrom(Notify!Apply, NewState, Range(chain["stream"])), Me(p))

NoPaging == [list |-> "none", cursor |-> 0, shown |-> <<>>, always |-> {}]

ServerInit == Init /\ paging = [p \in Proc |-> NoPaging]

-----------------------------------------------------------------------------
(* Lists. *)

Of(commits, kind) == {c.id : c \in {c \in Range(commits) : c.kind = kind}}

\* What a list tool finds, for the caller: notifyapp.List, with and without
\* UnreadOnly, and logapp.List.
Items(p, list) ==
    CASE list = "notify"        -> Of(chain["stream"], "notify.post")
      [] list = "notify unread" -> Unread(p)
      [] list = "log"           -> UNION {{c.id : c \in Range(chain[r])} : r \in Ref}

\* paginate and paginatedResult, where cursor 0 is no cursor and asks for the
\* first page, and a next cursor of 0 says that this was the last.
FaultyPageOf(ids, cursor, limit) ==
    LET size  == IF limit <= 0 THEN DefaultPageSize ELSE Min({limit, MaxPageSize})
        start == CHOOSE n \in 1 .. Len(ids) + 1 :
                    IF cursor \in Range(ids) THEN n > 1 /\ ids[n - 1] = cursor
                    ELSE n = IF cursor = 0 THEN 1 ELSE Len(ids) + 1
        page  == SubSeq(ids, start, Min({Len(ids), start + size - 1}))
    IN  [page |-> page,
         next |-> IF start + size <= Len(ids) THEN Last(page) ELSE 0]
PageOf(ids, cursor, limit) ==
    LET size  == IF limit <= 0 THEN DefaultPageSize ELSE Min({limit, MaxPageSize})
        start == Min({n \in DOMAIN ids : ids[n] > cursor} \cup {Len(ids) + 1})
        end   == Min({Len(ids), start + size - 1})
    IN  [page |-> SubSeq(ids, start, end),
         next |-> IF end < Len(ids) THEN ids[end] ELSE 0]

\* A call of a list tool: the first page of a list, or the one after the cursor.
Page(p, list, limit) ==
    LET now    == Items(p, list)
        seen   == paging[p]
        result == PageOf(Ordered(now), seen.cursor, limit) IN
    /\ p \in menu.readers
    /\ \/ seen.list = "none"
       \/ seen.list = list /\ seen.cursor # 0
    /\ paging' = [paging EXCEPT ![p] =
         [list   |-> list,
          cursor |-> result.next,
          shown  |-> seen.shown \o result.page,
          always |-> IF seen.list = "none" THEN now ELSE seen.always \cap now]]
    /\ UNCHANGED vars

-----------------------------------------------------------------------------
(* The notification tools that write. *)

\* IDs from whatever clock, none of them twice.
FreshIds == 1 .. menu.ids \ UsedIds

\* notify_post
NotifyPost(p) ==
    /\ job[p] = Idle
    /\ \E i \in FreshIds, e \in menu.people :
         Write(p, "stream", i, "notify.post",
               [targets |-> {<<"user", e>>}, source |-> "none"])
    /\ UNCHANGED <<menu, config, job, keyFile, setups, failures, notice, paging>>

\* notify_ack: the IDs that are given, or those in one reading of the unread
\* list; with nothing unread there is nothing to do.
NotifyAck(p) ==
    /\ job[p] = Idle /\ "notify.ack" \in menu.kinds
    /\ \E ids \in {Unread(p)} \cup {{i} : i \in Range(paging[p].shown)} :
         /\ ids # {}
         /\ job' = [job EXCEPT ![p] = [at |-> "ack", todo |-> Ordered(ids)]]
    /\ UNCHANGED <<menu, chain, config, keyFile, setups, failures, notice, paging>>

\* notifyapp.Service.Ack: an Append for each.
AckNext(p) ==
    LET todo == job[p].todo IN
    /\ job[p].at = "ack"
    /\ \E i \in FreshIds :
         Write(p, "stream", i, "notify.ack", [ack_of |-> Head(todo)])
    /\ job' = [job EXCEPT ![p] =
                 IF Len(todo) = 1 THEN Idle ELSE [@ EXCEPT !.todo = Tail(todo)]]
    /\ UNCHANGED <<menu, config, keyFile, setups, failures, notice, paging>>

ServerNext ==
    \/ Next /\ UNCHANGED paging
    \/ \E p \in Proc :
         \/ \E list \in menu.lists, limit \in menu.limits : Page(p, list, limit)
         \/ NotifyPost(p) \/ NotifyAck(p) \/ AckNext(p)

ServerSpec == ServerInit /\ [][ServerNext]_serverVars

-----------------------------------------------------------------------------
(* Properties. *)

Ascending(s) == \A m, n \in DOMAIN s : m < n => s[m] < s[n]

\* A client that follows next_cursor is shown no item twice, and when there is no
\* next cursor it has seen every item that was in the list all along, whatever
\* was posted, merged in or acknowledged between two pages (paginate).
PagesAreComplete ==
    \A p \in Proc :
        LET seen == paging[p] IN
        /\ Ascending(seen.shown)
        /\ {i \in seen.always : seen.cursor = 0 \/ i <= seen.cursor}
              \subseteq Range(seen.shown)

=============================================================================
