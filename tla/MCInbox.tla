------------------------------ MODULE MCInbox ------------------------------
(* Small instances of Inbox. *)
EXTENDS Inbox

CONSTANTS f1, f2, b1, b2, b3, p1, p2

Times == [f \in Feedback |-> IF f = f1 THEN 1 ELSE 2]
Owners == [f \in Feedback |-> p1]
\* b2 is the other project; b3 a search the server answers more broadly than
\* the local predicate.
Projects == [b \in Base |-> IF b = b2 THEN p2 ELSE p1]
Matches == [b \in Base |-> IF b = b2 THEN {} ELSE {f1, f2}]
LocalMatches == [b \in Base |-> IF b = b1 THEN {f1, f2} ELSE {}]
Opening == <<b1, "open">>
Bound(p, e, r, l, m, x, c, w) ==
  [pageSize |-> p, edits |-> e, replies |-> r, loads |-> l, mores |-> m, failures |-> x, clicks |-> c, switches |-> w]
Bounds == {Bound(1, 2, 0, 2, 0, 1, 0, 0), Bound(2, 2, 0, 1, 0, 2, 1, 0), Bound(1, 1, 0, 2, 0, 1, 1, 1),
           Bound(1, 2, 1, 2, 0, 0, 0, 0), Bound(1, 1, 1, 2, 0, 0, 1, 1), Bound(2, 1, 1, 1, 0, 1, 2, 0),
           Bound(1, 1, 1, 1, 1, 1, 1, 0), Bound(1, 2, 0, 1, 1, 1, 0, 0), Bound(1, 0, 2, 1, 0, 1, 1, 0),
           Bound(1, 0, 1, 2, 2, 0, 1, 0)}
\* A reply beside a change that stays listed, and beside pages only.
ReplyBounds == {Bound(1, 1, 1, 2, 0, 0, 0, 1)}
PageBounds == {Bound(1, 0, 1, 2, 2, 0, 0, 0)}
\* One edit and two loads.
EditBounds == {Bound(1, 1, 0, 2, 0, 0, 0, 0)}
=============================================================================
