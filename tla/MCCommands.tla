------------------------------ MODULE MCCommands ------------------------------
(***************************************************************************)
(* Instances of Server and Commands: per behavior one feature, on chains   *)
(* that already have what its commands need.                               *)
(***************************************************************************)
EXTENDS Server

Two == [p \in {1, 2} |-> [email |-> p, key |-> p]]
Bots == [ann |-> 4, bob |-> 5]

\* A commit of the person with email e, in a chain to start from.
Past(i, e, kind, data) ==
    [id |-> i, kind |-> kind, actor |-> e, data |-> data, key |-> e]

ATask ==
    <<Past(1, 1, "task.create", [title |-> 0, owner |-> 2]),
      Past(2, 1, "task.status", [to |-> "doing", note |-> FALSE]),
      Past(3, 1, "task.status", [to |-> "review", note |-> FALSE])>>

AnIssue ==
    <<Past(1, 1, "issue.create", [title |-> 0, assignees |-> {2}]),
      Past(2, 2, "issue.comment", [body |-> 0])>>

\* ann and bob, a team of both, ann an administrator
People ==
    <<Past(1, 1, "users.user_set", [username |-> "ann",
              fields |-> [emails |-> {1}, roles |-> {"admin"}]]),
      Past(2, 1, "users.key_add", [username |-> "ann", pub |-> 1]),
      Past(3, 1, "users.user_set", [username |-> "bob",
              fields |-> [emails |-> {2}]])>>

Team ==
    Append(People, Past(4, 1, "users.group_set",
                        [name |-> "team", members |-> <<"ann", "bob">>]))

\* one feature each: what it starts from, and its bounds
Tasks == [kinds |-> {"task.reassign", "task.status"}, start |-> [task |-> ATask],
          ids |-> 6, skew |-> FALSE, fails |-> 1, on |-> {"auto"},
          people |-> {2, 3}, mentions |-> {}, groups |-> {}, keys |-> {},
          steps |-> FALSE, readers |-> {}, lists |-> {},
          limits |-> {}]

Skewed == [Tasks EXCEPT !.skew = TRUE, !.people = {3}, !.fails = 0]

Quiet == [Tasks EXCEPT !.on = {"mentions"}, !.ids = 5, !.fails = 0]

Issues == [Tasks EXCEPT !.kinds = {"issue.assign", "issue.comment"},
                        !.start = [issue |-> AnIssue], !.ids = 4, !.fails = 0]

Chats == [Tasks EXCEPT
            !.kinds = {"chat.post", "users.user_set", "users.group_set",
                       "users.group_remove"},
            !.start = [registry |-> Team], !.on = {"mentions"}, !.ids = 7,
            !.mentions = {<<"bob", "team">>, <<"team", "nobody">>},
            !.groups = {<<"bob">>}, !.people = {1, 2}, !.fails = 0]

Note == <<Past(4, 1, "task.create", [title |-> 0])>>

Keys == [Tasks EXCEPT
           !.kinds = {"task.note", "users.user_set", "users.key_add",
                      "users.key_revoke", "configure"},
           !.start = [task |-> Note, registry |-> People], !.ids = 7,
           !.fails = 0, !.people = {2}, !.keys = {2}]

Revoked == [Keys EXCEPT !.kinds = {"task.note", "users.key_add",
                                   "users.key_revoke"},
                         !.ids = 8, !.skew = TRUE]

Agents == [Keys EXCEPT
             !.kinds = {"agent", "users.user_set", "users.key_add"},
             !.start = [task |-> Note, registry |-> SubSeq(People, 1, 2)],
             !.ids = 6, !.skew = TRUE, !.steps = TRUE, !.fails = 1]

TwoAgents == [Agents EXCEPT !.skew = FALSE, !.steps = FALSE, !.ids = 7]

AgentWorks == [Agents EXCEPT
                 !.kinds = @ \cup {"task.note"}, !.skew = FALSE,
                 !.steps = FALSE]

APost(i) ==
    Past(i, 2, "notify.post", [targets |-> {<<"user", 1>>}, source |-> "none"])

Inbox == [Tasks EXCEPT
            !.kinds = {"notify.post", "notify.ack"}, !.ids = 5, !.fails = 0,
            !.start = [stream |-> <<APost(2), APost(3), APost(4)>>], !.on = {},
            !.people = {1}, !.readers = {1},
            !.lists = {"notify", "notify unread"}, !.limits = {0, 9}]

Timeline == [Inbox EXCEPT
               !.kinds = {"notify.post", "task.note"}, !.skew = TRUE,
               !.start = [task |-> <<Past(2, 1, "task.create", [title |-> 0])>>,
                          stream |-> <<APost(4)>>],
               !.lists = {"log"}]

AllMenus == {Tasks, Skewed, Quiet, Issues, Chats, Keys, Revoked, Agents,
             TwoAgents, AgentWorks, Inbox, Timeline}

=============================================================================
