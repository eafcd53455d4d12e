----------------------------- MODULE IssueHooks -----------------------------
(***************************************************************************)
(* The requests of packages/server whose hooks keep one tracker issue per  *)
(* feedback (createIssueTrackerHooks of packages/integration-issues), in   *)
(* one server process: the store's records, the tracker's issues, and the  *)
(* queue that orders the hooks' tracker work, taken at what it promises    *)
(* (TaskOrder, which TaskQueue is shown to implement).                     *)
(*                                                                         *)
(* The tracker is external: a request of it may fail, before or after it   *)
(* took effect, or, given up on, take effect later.  Every issue kept its  *)
(* label, belongs to this deployment, and is within reach of the listing.  *)
(***************************************************************************)
EXTENDS Naturals, Sequences, FiniteSets, SequencesExt

CONSTANTS
  Request,         \* the HTTP requests of a behaviour; a request's hook is its task
  Project,
  Feedback,
  ProjectOf,       \* the project of each feedback
  Existing,        \* the feedbacks stored when the process starts
  Status,          \* feedback statuses
  Asks,            \* what requests ask for
  Fails,           \* store operations and tracker requests may fail
  Late,            \* a tracker request given up on may take effect later
  SearchLags,      \* the tracker's search may answer with an older state of an issue
  AnswersInOrder,  \* the store answers writes in the order it made them
  Crashes,         \* the process may crash and restart
  None

Ask ==
  [kind : {"create"}, feedback : Feedback \ Existing]
    \cup [kind : {"update"}, feedback : Feedback, status : Status]
    \cup [kind : {"delete"}, feedback : Feedback]
    \cup [kind : {"deleteAll"}, project : Project]

State == {"open", "completed", "not planned"}
Issue == [state : State, comments : Nat]

ASSUME IssueHooksAssumption ==
  /\ ProjectOf \in [Feedback -> Project]
  /\ Existing \subseteq Feedback
  /\ "open" \in Status /\ Status \subseteq {"open", "in_progress", "resolved", "wont_fix"}
  /\ Asks \subseteq Ask /\ None \notin Asks
  /\ IsFiniteSet(Feedback)
  /\ {Fails, Late, SearchLags, AnswersInOrder, Crashes} \subseteq BOOLEAN
  /\ None \notin Feedback /\ None \notin Status /\ None \notin Issue

VARIABLES
  ask,         \* what each request asks for
  pc,          \* the await each request is in
  answer,      \* its response
  record,      \* the status of each stored feedback
  unanswered,  \* the writes whose answer has not reached the process, in their order
  issue,       \* the tracker's issue of each feedback
  index,       \* the state the tracker's search knows of each issue
  late,        \* tracker requests given up on that may still take effect
  step,        \* the tracker request each running task makes next
  todo,        \* the issues a deletion found and has not handled yet
  missed,      \* history: feedbacks a request on which failed somewhere
  misled,      \* history: feedbacks whose issue the search showed as it no longer
               \* was, or a request given up on reached late
  work, earlier, phase  \* the task queue

queue == <<work, earlier, phase>>
tracker == <<issue, index, late>>
vars == <<ask, pc, answer, record, unanswered, tracker, step, todo, missed, misled, queue>>

Order == INSTANCE TaskOrder WITH Task <- Request

Closed == {"resolved", "wont_fix"}

\* toGitHubState: the state of an issue that reflects a status.
StateOf(status) ==
  IF status = "resolved" THEN "completed" ELSE IF status = "wont_fix" THEN "not planned" ELSE "open"

Found == [feedback : Feedback, isOpen : BOOLEAN]
Effects == Status \cup {"wont_fix", "create", "comment"}

TypeOK ==
  /\ ask \in [Request -> Asks \cup {None}]
  /\ pc \in [Request -> {"new", "verifying", "writing", "announcing", "waiting", "done"}]
  /\ answer \in [Request -> {"none", "200", "404", "500", "502", "lost"}]
  /\ record \in [Feedback -> Status \cup {None}]
  /\ unanswered \in Seq(Request)
  /\ issue \in [Feedback -> Issue \cup {None}]
  /\ index \in [Feedback -> State \cup {None}]
  /\ late \subseteq Feedback \X Effects
  /\ step \in [Request -> {"none", "create", "look up", "sync", "close", "read", "comment"}]
  /\ todo \in [Request -> Seq(Found)]
  /\ missed \subseteq Feedback
  /\ misled \subseteq Feedback \X {"stale", "late"}
  /\ work \in [Request -> Order!Work \cup {None}]
  /\ earlier \in [Request -> SUBSET Request]
  /\ phase \in [Request -> {"new", "queued", "running", "ended"}]

Init ==
  /\ ask = [r \in Request |-> None]
  /\ pc = [r \in Request |-> "new"]
  /\ answer = [r \in Request |-> "none"]
  /\ record = [f \in Feedback |-> IF f \in Existing THEN "open" ELSE None]
  /\ unanswered = <<>>
  /\ issue \in [Feedback -> {None, [state |-> "open", comments |-> 0]}]
  /\ \A f \in Feedback \ Existing : issue[f] = None
  /\ index = [f \in Feedback |-> IF issue[f] = None THEN None ELSE "open"]
  /\ late = {}
  /\ step = [r \in Request |-> "none"]
  /\ todo = [r \in Request |-> <<>>]
  /\ missed = {}
  /\ misled = {}
  /\ Order!Init

(***************************************************************************)
(* What a request is about.                                                *)
(***************************************************************************)
Kind(r) == IF ask[r] = None THEN "none" ELSE ask[r].kind
Deletes(r) == Kind(r) \in {"delete", "deleteAll"}

Subjects(r) ==
  IF Kind(r) = "deleteAll" THEN {f \in Feedback : ProjectOf[f] = ask[r].project} ELSE {ask[r].feedback}

WorkOf(r) ==
  IF Kind(r) = "deleteAll"
  THEN [kind |-> "project", project |-> ask[r].project, feedback |-> None]
  ELSE [kind |-> IF Kind(r) = "create" THEN "creation" ELSE "feedback",
        project |-> ProjectOf[ask[r].feedback], feedback |-> ask[r].feedback]

Goto(r, label) == pc' = [pc EXCEPT ![r] = label] /\ UNCHANGED answer

Respond(r, code) ==
  /\ pc' = [pc EXCEPT ![r] = "done"]
  /\ answer' = [answer EXCEPT ![r] = code]

\* The hook is called: its task joins the queue, and the request waits for it.
CallHook(r) == Order!Queue(r, WorkOf(r)) /\ Goto(r, "waiting")

(***************************************************************************)
(* The requests.  A feedback is created by one request.                    *)
(***************************************************************************)
Receive(r, a) ==
  /\ pc[r] = "new"
  /\ a.kind = "create" => \A q \in Request : ask[q] # a
  /\ ask' = [ask EXCEPT ![r] = a]
  /\ Goto(r, IF a.kind = "create" THEN "writing" ELSE "verifying")
  /\ UNCHANGED <<record, unanswered, tracker, step, todo, missed, misled, queue>>

\* verifyProjectOwnership, then a deletion calls its hook before it writes.
Verify(r) ==
  /\ pc[r] = "verifying"
  /\ IF Kind(r) # "deleteAll" /\ record[ask[r].feedback] = None
     THEN Respond(r, "404") /\ UNCHANGED queue
     ELSE IF Deletes(r) THEN CallHook(r) ELSE Goto(r, "writing") /\ UNCHANGED queue
  /\ UNCHANGED <<ask, record, unanswered, tracker, step, todo, missed, misled>>

Written(r) ==
  [f \in Feedback |->
     IF f \notin Subjects(r) THEN record[f]
     ELSE IF Deletes(r) THEN None ELSE IF Kind(r) = "create" THEN "open" ELSE ask[r].status]

\* An update or a deletion needs its record.
Writes(r) == Kind(r) \in {"update", "delete"} => record[ask[r].feedback] # None

\* The store writes; a creation and an update wait for its answer.
Write(r) ==
  /\ pc[r] = "writing"
  /\ IF ~Writes(r)
     THEN Respond(r, "404") /\ UNCHANGED <<record, unanswered>>
     ELSE /\ record' = Written(r)
          /\ IF Deletes(r)
             THEN Respond(r, "200") /\ UNCHANGED unanswered
             ELSE Goto(r, "announcing") /\ unanswered' = Append(unanswered, r)
  /\ UNCHANGED <<ask, tracker, step, todo, missed, misled, queue>>

\* The store fails; the write may have been made.
WriteFails(r) ==
  /\ Fails /\ pc[r] = "writing"
  /\ record' = record \/ (Writes(r) /\ record' = Written(r))
  /\ missed' = missed \cup Subjects(r)
  /\ Respond(r, "500")
  /\ UNCHANGED <<ask, unanswered, tracker, step, todo, misled, queue>>

\* The store's answer arrives: onCreated or onUpdated is called.
Announce(r) ==
  /\ pc[r] = "announcing"
  /\ \E n \in 1..Len(unanswered) :
       /\ unanswered[n] = r
       /\ AnswersInOrder => n = 1
       /\ unanswered' = RemoveAt(unanswered, n)
  /\ CallHook(r)
  /\ UNCHANGED <<ask, record, tracker, step, todo, missed, misled>>

(***************************************************************************)
(* The tasks: each tracker request is a step.                              *)
(***************************************************************************)
StartTask(r) ==
  /\ Order!Start(r)
  /\ step' = [step EXCEPT ![r] = IF Kind(r) = "create" THEN "create" ELSE "look up"]
  /\ UNCHANGED <<ask, pc, answer, record, unanswered, tracker, todo, missed, misled>>

Then(r, next) ==
  /\ step' = [step EXCEPT ![r] = next]
  /\ UNCHANGED <<pc, answer, todo, missed, queue>>

EndTask(r) ==
  /\ Order!End(r)
  /\ step' = [step EXCEPT ![r] = "none"]
  /\ todo' = [todo EXCEPT ![r] = <<>>]

\* The hook resolves: a deletion goes on to its write.
Resolve(r) ==
  /\ EndTask(r)
  /\ IF Deletes(r) THEN Goto(r, "writing") ELSE Respond(r, "200")
  /\ UNCHANGED missed

\* Fault: a failed hook does not abort the deletion.
RejectAndGoOn(r) ==
  /\ EndTask(r)
  /\ missed' = missed \cup Subjects(r)
  /\ IF Deletes(r) THEN Goto(r, "writing") ELSE Respond(r, "200")

\* The hook rejects: a deletion is aborted, another request is answered anyway.
Reject(r) ==
  /\ EndTask(r)
  /\ missed' = missed \cup Subjects(r)
  /\ Respond(r, IF Deletes(r) THEN "502" ELSE "200")

\* What a tracker request does to a feedback's issue.
After(i, effect) ==
  IF effect = "create" THEN [state |-> "open", comments |-> 0]
  ELSE IF effect = "comment" THEN [i EXCEPT !.comments = @ + 1]
  ELSE [i EXCEPT !.state = StateOf(effect)]

Effect(f, effect) ==
  /\ issue' = [issue EXCEPT ![f] = After(@, effect)]
  /\ UNCHANGED index

\* A tracker request fails, or times out: it had its effect, has it later, or never.
RequestFails(r, f, effect) ==
  /\ Fails
  /\ \/ Effect(f, effect) /\ UNCHANGED late
     \/ UNCHANGED tracker
     \/ Late /\ late' = late \cup {<<f, effect>>} /\ UNCHANGED <<issue, index>>
  /\ Reject(r)

Subject(r) == ask[r].feedback

CreateIssue(r) ==
  /\ step[r] = "create"
  /\ \/ Effect(Subject(r), "create") /\ UNCHANGED late /\ Resolve(r)
     \/ RequestFails(r, Subject(r), "create")
  /\ UNCHANGED <<ask, record, unanswered, misled>>

\* issueOf: the issue as the search knows it, or as it is where the search has
\* not got it, fails, or does not lag; a project's issues are listed as they are.
Lookups(r, f) ==
  IF issue[f] = None THEN {}
  ELSE {[feedback |-> f, isOpen |-> state = "open"] :
          state \in {issue[f].state} \cup (IF SearchLags /\ Kind(r) # "deleteAll" /\ index[f] # None THEN {index[f]} ELSE {})}

\* Fault: an open status is not synced, whatever the issue's state.
NeedsSyncWhenClosed(found, status) == status \in Closed

\* An open status on an open issue changes nothing.
NeedsSync(found, status) == status \in Closed \/ ~found.isOpen

\* The lists of issues a deletion may find.
Listings(r) ==
  LET listed == {f \in Subjects(r) : issue[f] # None}
  IN  UNION {SetToSeqs({choice[f] : f \in listed}) :
               choice \in {c \in [listed -> Found] : \A f \in listed : c[f] \in Lookups(r, f)}}

\* The first issue of a list is closed if it was open; an empty list is handled.
Handle(r, list) ==
  IF list = <<>> THEN Resolve(r)
  ELSE /\ todo' = [todo EXCEPT ![r] = list]
       /\ step' = [step EXCEPT ![r] = IF Head(list).isOpen THEN "close" ELSE "read"]
       /\ UNCHANGED <<pc, answer, missed, queue>>

\* What the search got wrong.
Stale(found) == {<<f.feedback, "stale">> : f \in {g \in found : g.isOpen # (issue[g.feedback].state = "open")}}

LookUp(r) ==
  /\ step[r] = "look up"
  /\ \/ /\ Kind(r) = "update"
        /\ \E found \in Lookups(r, Subject(r)) :
             /\ IF NeedsSync(found, ask[r].status) THEN Then(r, "sync") ELSE Resolve(r)
             /\ misled' = misled \cup Stale({found})
     \/ /\ Kind(r) = "update" /\ issue[Subject(r)] = None
        /\ Resolve(r)
        /\ UNCHANGED misled
     \/ /\ Deletes(r)
        /\ \E list \in Listings(r) :
             Handle(r, list) /\ misled' = misled \cup Stale(ToSet(list))
     \/ Fails /\ Reject(r) /\ UNCHANGED misled
  /\ UNCHANGED <<ask, record, unanswered, tracker>>

Sync(r) ==
  /\ step[r] = "sync"
  /\ \/ Effect(Subject(r), ask[r].status) /\ UNCHANGED late /\ Resolve(r)
     \/ RequestFails(r, Subject(r), ask[r].status)
  /\ UNCHANGED <<ask, record, unanswered, misled>>

\* closeDeleted: close the issue if it was open, read its comments, comment
\* unless the deletion comment is among them; then the next issue's turn.
Close(r) ==
  /\ step[r] = "close"
  /\ LET f == Head(todo[r]).feedback
     IN  \/ Effect(f, "wont_fix") /\ UNCHANGED late /\ Then(r, "read")
         \/ RequestFails(r, f, "wont_fix")
  /\ UNCHANGED <<ask, record, unanswered, misled>>

Handled(r) == Handle(r, Tail(todo[r]))

\* Fault: the comments are not looked at.
HasDeletionCommentNever(f) == FALSE

HasDeletionComment(f) == issue[f].comments > 0

ReadComments(r) ==
  /\ step[r] = "read"
  /\ \/ HasDeletionComment(Head(todo[r]).feedback) /\ Handled(r)
     \/ ~HasDeletionComment(Head(todo[r]).feedback) /\ Then(r, "comment")
     \/ Fails /\ Reject(r)
  /\ UNCHANGED <<ask, record, unanswered, tracker, misled>>

Comment(r) ==
  /\ step[r] = "comment"
  /\ LET f == Head(todo[r]).feedback
     IN  \/ Effect(f, "comment") /\ UNCHANGED late /\ Handled(r)
         \/ RequestFails(r, f, "comment")
  /\ UNCHANGED <<ask, record, unanswered, misled>>

(***************************************************************************)
(* The environment.                                                        *)
(***************************************************************************)
Land(f, effect) ==
  /\ <<f, effect>> \in late
  /\ Effect(f, effect)
  /\ late' = late \ {<<f, effect>>}
  /\ misled' = misled \cup {<<f, "late">>}
  /\ UNCHANGED <<ask, pc, answer, record, unanswered, step, todo, missed, queue>>

\* The search catches up with an issue.
Index(f) ==
  /\ SearchLags /\ issue[f] # None
  /\ index' = [index EXCEPT ![f] = issue[f].state]
  /\ UNCHANGED <<ask, pc, answer, record, unanswered, issue, late, step, todo, missed, misled, queue>>

\* The process goes, with its requests and its queue.
Crash ==
  /\ Crashes
  /\ LET lost == {r \in Request : pc[r] \notin {"new", "done"}}
     IN  /\ lost # {}
         /\ pc' = [r \in Request |-> IF r \in lost THEN "done" ELSE pc[r]]
         /\ answer' = [r \in Request |-> IF r \in lost THEN "lost" ELSE answer[r]]
         /\ missed' = missed \cup UNION {Subjects(r) : r \in lost}
         /\ phase' = [r \in Request |-> IF phase[r] = "new" THEN "new" ELSE "ended"]
         /\ step' = [r \in Request |-> "none"]
         /\ todo' = [r \in Request |-> <<>>]
         /\ unanswered' = <<>>
  /\ UNCHANGED <<ask, record, tracker, misled, work, earlier>>

Step(r) ==
  \/ Verify(r)
  \/ Write(r)
  \/ WriteFails(r)
  \/ Announce(r)
  \/ StartTask(r)
  \/ CreateIssue(r)
  \/ LookUp(r)
  \/ Sync(r)
  \/ Close(r)
  \/ ReadComments(r)
  \/ Comment(r)

Next ==
  \/ \E r \in Request, a \in Asks : Receive(r, a)
  \/ \E r \in Request : Step(r)
  \/ \E f \in Feedback, effect \in Effects : Land(f, effect)
  \/ \E f \in Feedback : Index(f)
  \/ Crash

Spec == Init /\ [][Next]_vars

-----------------------------------------------------------------------------
(***************************************************************************)
(* Properties.                                                             *)
(***************************************************************************)
Settled(f) == \A r \in Request : (ask[r] # None /\ f \in Subjects(r)) => pc[r] = "done"

\* However often a deletion fails, is lost in a crash and is asked again, and
\* whatever runs beside it, an issue gets one deletion comment ("The comment is
\* left once, even across retries", issue-trackers.mdx), as long as no request
\* given up on reaches the tracker late.
CommentedOnce ==
  \A f \in Feedback : issue[f] # None /\ <<f, "late">> \notin misled => issue[f].comments <= 1

\* A record goes only once its issue was told: no failure, retry or concurrent
\* request makes a deletion remove a feedback whose issue, opened by work
\* queued before the deletion and not itself late, has no deletion comment yet.
ToldBeforeGone ==
  [][\A r \in Request, f \in Feedback :
       (Deletes(r) /\ pc[r] = "writing" /\ pc'[r] # "writing" /\ record[f] # None /\ record'[f] = None) =>
         \/ issue[f] = None
         \/ issue[f].comments > 0
         \/ <<f, "late">> \in misled
         \/ \E c \in Request : Kind(c) = "create" /\ Subject(c) = f /\ c \notin earlier[r]]_vars

\* Nothing failed for f, and the tracker showed and did what it was asked.
Untroubled(f) == f \notin missed /\ \A why \in {"stale", "late"} : <<f, why>> \notin misled

\* Once the requests on a feedback are done, its issue shows its status, unless
\* something failed or the tracker misled: status changes reach the tracker in
\* the order of the store's writes.
IssuesInSync ==
  \A f \in Feedback :
    (record[f] # None /\ issue[f] # None /\ Settled(f) /\ Untroubled(f)) => issue[f].state = StateOf(record[f])

=============================================================================
