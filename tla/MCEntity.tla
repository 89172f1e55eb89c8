------------------------------- MODULE MCEntity ------------------------------
(***************************************************************************)
(* Instances of Entity: per feature the kinds whose reducers meet, with    *)
(* checkpoints on short chains and without them on longer ones.            *)
(***************************************************************************)
EXTENDS Entity

OneClockBehind == {2}

AllMenus ==
    [kinds : {{"issue.create", "issue.status", "checkpoint"},
              {"issue.create", "issue.comment", "issue.edit", "checkpoint"},
              {"issue.create", "issue.label", "checkpoint", "legacy"},
              {"issue.create", "issue.assign", "issue.link", "checkpoint"},
              {"task.create", "task.status", "task.note", "checkpoint"},
              {"task.create", "task.edit", "task.reassign", "task.link",
               "checkpoint"},
              {"chat.create", "chat.post", "chat.edit_meta", "checkpoint"},
              {"notify.post", "notify.ack", "checkpoint"},
              {"users.user_set", "users.key_add", "users.key_revoke",
               "checkpoint"},
              {"users.group_set", "users.group_remove", "users.policy_set",
               "checkpoint"}},
     ids : {3}]
    \cup
    [kinds : {{"issue.create", "issue.status"},
              {"issue.create", "issue.comment"},
              {"issue.create", "issue.label", "checkpoint"},
              {"notify.post", "notify.ack", "checkpoint"},
              {"chat.create", "chat.post", "checkpoint"},
              {"users.user_set", "users.key_add", "users.key_revoke"}},
     ids : {4}]

=============================================================================
