------------------------ MODULE MCDrizzleScreenshots ------------------------
(* Small instances of DrizzleScreenshots. *)
EXTENDS DrizzleScreenshots

CONSTANTS c1, c2, c3, k1, k2

Create(k) == [kind |-> "create", clientId |-> k, screenshot |-> TRUE]
Bare(k) == [kind |-> "create", clientId |-> k, screenshot |-> FALSE]
Delete(c) == [kind |-> "delete", id |-> c]
DeleteAll == [kind |-> "deleteAll"]

\* A creation, deletions of either kind, and resends of its clientId to its own
\* store and to another one, without a delete hook, that may also delete the
\* project.
Mixed ==
  [c \in Call |->
     CASE c = c1 -> {Create(k1)}
       [] c = c2 -> {Create(k1), Bare(k2), DeleteAll}
       [] OTHER  -> {Delete(c1), DeleteAll, Create(k1)}]
=============================================================================
