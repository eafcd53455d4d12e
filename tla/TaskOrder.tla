------------------------------ MODULE TaskOrder ------------------------------
(***************************************************************************)
(* What the issue tracker's task queue promises: a task starts once every  *)
(* task that goes before it has ended.  Work on a feedback goes after the  *)
(* earlier work on that feedback; a project task goes after everything     *)
(* queued on the project before it, and before everything queued on it     *)
(* afterwards but a creation.                                              *)
(***************************************************************************)
EXTENDS FiniteSets

CONSTANTS Task, Project, Feedback, None

Work ==
  [kind : {"feedback", "creation"}, project : Project, feedback : Feedback]
    \cup [kind : {"project"}, project : Project, feedback : {None}]

VARIABLES
  work,     \* what each task is queued on
  earlier,  \* the tasks queued before it
  phase     \* "new", "queued", "running" or "ended"

vars == <<work, earlier, phase>>

\* A task on v, queued after one on u, waits for it.
Blocks(u, v) ==
  \/ u.kind # "project" /\ v.kind # "project" /\ u.feedback = v.feedback
  \/ v.kind = "project" /\ u.project = v.project
  \/ u.kind = "project" /\ v.kind = "feedback" /\ u.project = v.project

Init ==
  /\ work = [t \in Task |-> None]
  /\ earlier = [t \in Task |-> {}]
  /\ phase = [t \in Task |-> "new"]

Queue(t, w) ==
  /\ phase[t] = "new"
  /\ phase' = [phase EXCEPT ![t] = "queued"]
  /\ work' = [work EXCEPT ![t] = w]
  /\ earlier' = [earlier EXCEPT ![t] = {u \in Task : phase[u] # "new"}]

\* Every task that t waits for has ended.
Free(t) == phase[t] = "queued" /\ \A u \in earlier[t] : Blocks(work[u], work[t]) => phase[u] = "ended"

Start(t) ==
  /\ Free(t)
  /\ phase' = [phase EXCEPT ![t] = "running"]
  /\ UNCHANGED <<work, earlier>>

End(t) ==
  /\ phase[t] = "running"
  /\ phase' = [phase EXCEPT ![t] = "ended"]
  /\ UNCHANGED <<work, earlier>>

Next == \E t \in Task : (\E w \in Work : Queue(t, w)) \/ Start(t) \/ End(t)

Spec == Init /\ [][Next]_vars
=============================================================================
