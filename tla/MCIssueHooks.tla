---------------------------- MODULE MCIssueHooks ----------------------------
(* Small instances of IssueHooks. *)
EXTENDS IssueHooks, TLC

CONSTANTS r1, r2, r3, r4, p1, p2, f1, f2, f3

\* One project.
OneProject == [f \in Feedback |-> p1]

\* Changes and deletions of one stored feedback.
OneFeedback ==
  [kind : {"update"}, feedback : {f1}, status : Status] \cup [kind : {"delete"}, feedback : {f1}]

\* A creation and the changes that follow it, beside deletions of a stored
\* feedback and of the project.
Deletions ==
  [kind : {"create"}, feedback : {f2}] \cup [kind : {"update"}, feedback : {f1}, status : Status]
    \cup [kind : {"delete"}, feedback : {f1, f2}] \cup [kind : {"deleteAll"}, project : {p1}]

Symmetry == Permutations(Request)
=============================================================================
