------------------------------ MODULE MCPanel ------------------------------
(* Small instances of Panel. *)
EXTENDS Panel

CONSTANTS f1, f2

Times == [f \in Feedback |-> IF f = f1 THEN 1 ELSE IF f = f2 THEN 2 ELSE 3]
Tabs == [all |-> {"open", "closed"}, open |-> {"open"}]
Bound(s, l, m, w, r, x, c, q) ==
  [pageSize |-> s, loads |-> l, mores |-> m, writes |-> w, posts |-> r, failures |-> x, pins |-> c, switches |-> q]
Bounds == {Bound(2, 1, 0, 2, 0, 0, 0, 0), Bound(2, 2, 0, 1, 0, 1, 0, 0), Bound(1, 2, 1, 1, 0, 1, 0, 0), Bound(2, 2, 0, 0, 2, 1, 0, 0),
           Bound(2, 1, 0, 1, 1, 0, 0, 0), Bound(1, 1, 1, 1, 0, 0, 0, 1), Bound(2, 2, 0, 1, 0, 0, 1, 0)}
\* One bulk action of which a request fails.
BulkBounds == {Bound(2, 2, 0, 1, 0, 2, 0, 0)}
\* Two further pages asked for while the list reloads, and nothing written or lost.
PagesBounds == {Bound(1, 2, 2, 0, 0, 0, 0, 0)}
=============================================================================
