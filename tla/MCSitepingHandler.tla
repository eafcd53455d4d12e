-------------------------- MODULE MCSitepingHandler --------------------------
(* Small instances of SitepingHandler. *)
EXTENDS SitepingHandler

CONSTANTS r1, r2, r3, k1, k2, p1, p2, i1, i2, i3

CreateAsks ==
  [kind : {"create"}, clientId : {k1}, project : {p1, p2}]
    \cup [kind : {"delete"}, id : {r1}, project : {p1}]

\* Requests of both projects on the feedbacks and comments of two others.
WriteAsks ==
  [kind : {"create"}, clientId : {k1}, project : {p1}]
    \cup [kind : {"update"}, id : {r1}, project : {p1, p2}, status : {"resolved"}]
    \cup [kind : {"delete"}, id : {r1}, project : {p1, p2}]
    \cup [kind : {"deleteAll"}, project : {p1}]
    \cup [kind : {"createComment"}, clientId : {k1}, id : {r1}, project : {p1}]
    \cup [kind : {"deleteComment"}, comment : {r2}, id : {r1}, project : {p1}]

\* A race to create over two kinds of store, and every write of one process.
TwoSettings ==
  {[instances |-> {i1, i2, i3}, asks |-> CreateAsks], [instances |-> {i1}, asks |-> WriteAsks]}
=============================================================================
