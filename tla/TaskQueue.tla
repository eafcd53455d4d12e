------------------------------ MODULE TaskQueue ------------------------------
(***************************************************************************)
(* createTaskQueue of packages/integration-issues: the chains of promises  *)
(* that order the hooks' tracker work in one process.  A task's `settled`  *)
(* promise is named by the task; the sets of feedbackTasksByProject are    *)
(* named by the task that created them, so a set that left the map is not  *)
(* taken for the one that replaced it.                                     *)
(***************************************************************************)
EXTENDS FiniteSets

CONSTANTS
  Task,      \* the calls of the queue
  Project,
  Feedback,
  NoTask

ASSUME TaskQueueAssumption == NoTask \notin Task /\ NoTask \notin Feedback

VARIABLES
  work,                    \* what each task is queued on
  earlier,                 \* history: the tasks queued before it
  state,                   \* how far its promises are
  after,                   \* the promises it waits for
  feedbackTails,           \* the last task of each feedback
  projectTails,            \* the last task of each project
  feedbackTasksByProject,  \* the set of each project's feedback tasks
  members,                 \* the contents of the sets
  tasks                    \* the set each task's cleanup removes it from

maps == <<feedbackTails, projectTails, feedbackTasksByProject, members>>
taskVars == <<work, earlier, state, after, maps, tasks>>

Work ==
  [kind : {"feedback", "creation"}, project : Project, feedback : Feedback]
    \cup [kind : {"project"}, project : Project, feedback : {NoTask}]

TaskTypeOK ==
  /\ work \in [Task -> Work \cup {NoTask}]
  /\ earlier \in [Task -> SUBSET Task]
  /\ state \in [Task -> {"new", "queued", "running", "done", "settled", "cleared"}]
  /\ after \in [Task -> SUBSET Task]
  /\ feedbackTails \in [Feedback -> Task \cup {NoTask}]
  /\ projectTails \in [Project -> Task \cup {NoTask}]
  /\ feedbackTasksByProject \in [Project -> Task \cup {NoTask}]
  /\ members \in [Task -> SUBSET Task]
  /\ tasks \in [Task -> Task \cup {NoTask}]

TaskInit ==
  /\ work = [t \in Task |-> NoTask]
  /\ earlier = [t \in Task |-> {}]
  /\ state = [t \in Task |-> "new"]
  /\ after = [t \in Task |-> {}]
  /\ feedbackTails = [f \in Feedback |-> NoTask]
  /\ projectTails = [p \in Project |-> NoTask]
  /\ feedbackTasksByProject = [p \in Project |-> NoTask]
  /\ members = [t \in Task |-> {}]
  /\ tasks = [t \in Task |-> NoTask]

Queued(t, w) ==
  /\ state[t] = "new"
  /\ state' = [state EXCEPT ![t] = "queued"]
  /\ work' = [work EXCEPT ![t] = w]
  /\ earlier' = [earlier EXCEPT ![t] = {u \in Task : state[u] # "new"}]

\* `chain`: wait for the promises there are.
Chain(t, promises) == after' = [after EXCEPT ![t] = promises \ {NoTask}]

\* The task joins the project's set, or the one it creates.
Join(t, p) ==
  LET set == IF feedbackTasksByProject[p] = NoTask THEN t ELSE feedbackTasksByProject[p]
  IN  /\ feedbackTasksByProject' = [feedbackTasksByProject EXCEPT ![p] = set]
      /\ members' = [members EXCEPT ![set] = @ \cup {t}]
      /\ tasks' = [tasks EXCEPT ![t] = set]

\* Fault: the tail is set before the chain reads it.
QueueOnFeedbackTailFirst(t, w, project) ==
  /\ Queued(t, w)
  /\ Chain(t, {project, t})
  /\ feedbackTails' = [feedbackTails EXCEPT ![w.feedback] = t]
  /\ Join(t, w.project)
  /\ UNCHANGED projectTails

QueueOnFeedback(t, w, project) ==
  /\ Queued(t, w)
  /\ Chain(t, {project, feedbackTails[w.feedback]})
  /\ feedbackTails' = [feedbackTails EXCEPT ![w.feedback] = t]
  /\ Join(t, w.project)
  /\ UNCHANGED projectTails

ForFeedback(t, p, f) ==
  QueueOnFeedback(t, [kind |-> "feedback", project |-> p, feedback |-> f], projectTails[p])

ForCreation(t, p, f) ==
  QueueOnFeedback(t, [kind |-> "creation", project |-> p, feedback |-> f], NoTask)

\* The feedback tasks of a project: none when it has no set.
Pending(p) == IF feedbackTasksByProject[p] = NoTask THEN {} ELSE members[feedbackTasksByProject[p]]

\* Fault: a project task does not wait for the project's feedback tasks.
ForProjectAfterTail(t, p) ==
  /\ Queued(t, [kind |-> "project", project |-> p, feedback |-> NoTask])
  /\ Chain(t, {projectTails[p]})
  /\ projectTails' = [projectTails EXCEPT ![p] = t]
  /\ UNCHANGED <<feedbackTails, feedbackTasksByProject, members, tasks>>

ForProject(t, p) ==
  /\ Queued(t, [kind |-> "project", project |-> p, feedback |-> NoTask])
  /\ Chain(t, {projectTails[p]} \cup Pending(p))
  /\ projectTails' = [projectTails EXCEPT ![p] = t]
  /\ UNCHANGED <<feedbackTails, feedbackTasksByProject, members, tasks>>

\* Promise.allSettled(after) has settled: the task runs.
Start(t) ==
  /\ state[t] = "queued"
  /\ \A u \in after[t] : state[u] \in {"settled", "cleared"}
  /\ state' = [state EXCEPT ![t] = "running"]
  /\ UNCHANGED <<work, earlier, after, maps, tasks>>

\* The task's own promise settles, fulfilled or rejected, then `settled` does.
Finish(t) ==
  /\ state[t] = "running"
  /\ state' = [state EXCEPT ![t] = "done"]
  /\ UNCHANGED <<work, earlier, after, maps, tasks>>

Settle(t) ==
  /\ state[t] = "done"
  /\ state' = [state EXCEPT ![t] = "settled"]
  /\ UNCHANGED <<work, earlier, after, maps, tasks>>

\* Fault: the set leaves the map with its first task.
ClearDropsSet(t) ==
  LET w == work[t]
      Leave(tails, key) == [tails EXCEPT ![key] = IF @ = t THEN NoTask ELSE @]
  IN  /\ state[t] = "settled"
      /\ state' = [state EXCEPT ![t] = "cleared"]
      /\ IF w.kind = "project"
         THEN /\ projectTails' = Leave(projectTails, w.project)
              /\ UNCHANGED <<feedbackTails, feedbackTasksByProject, members>>
         ELSE /\ feedbackTails' = Leave(feedbackTails, w.feedback)
              /\ members' = [members EXCEPT ![tasks[t]] = @ \ {t}]
              /\ feedbackTasksByProject' = [feedbackTasksByProject EXCEPT ![w.project] = NoTask]
              /\ UNCHANGED projectTails
      /\ UNCHANGED <<work, earlier, after, tasks>>

\* The callbacks on `settled`: the tail goes unless another task took its
\* place; the task leaves its set, and the set leaves the map once empty.
Clear(t) ==
  LET w == work[t]
      Leave(tails, key) == [tails EXCEPT ![key] = IF @ = t THEN NoTask ELSE @]
  IN  /\ state[t] = "settled"
      /\ state' = [state EXCEPT ![t] = "cleared"]
      /\ IF w.kind = "project"
         THEN /\ projectTails' = Leave(projectTails, w.project)
              /\ UNCHANGED <<feedbackTails, feedbackTasksByProject, members>>
         ELSE /\ feedbackTails' = Leave(feedbackTails, w.feedback)
              /\ members' = [members EXCEPT ![tasks[t]] = @ \ {t}]
              /\ feedbackTasksByProject' =
                   IF members[tasks[t]] \subseteq {t}
                   THEN [feedbackTasksByProject EXCEPT ![w.project] = NoTask]
                   ELSE feedbackTasksByProject
              /\ UNCHANGED projectTails
      /\ UNCHANGED <<work, earlier, after, tasks>>

Call(t) ==
  \/ \E p \in Project, f \in Feedback : ForFeedback(t, p, f) \/ ForCreation(t, p, f)
  \/ \E p \in Project : ForProject(t, p)

Run(t) == Start(t) \/ Finish(t) \/ Settle(t) \/ Clear(t)

TaskNext == \E t \in Task : Call(t) \/ Run(t)

TaskSpec == TaskInit /\ [][TaskNext]_taskVars

\* Tracker requests are bounded by a timeout, so every task settles; the rest
\* is the runtime's microtask queue.
FairSpec == TaskSpec /\ \A t \in Task : WF_taskVars(Run(t))

-----------------------------------------------------------------------------
(***************************************************************************)
(* Properties.                                                             *)
(***************************************************************************)
\* The chains of promises implement the order the queue promises.
Phase(t) == IF state[t] \in {"settled", "cleared"} THEN "ended"
            ELSE IF state[t] = "done" THEN "running" ELSE state[t]

Order == INSTANCE TaskOrder WITH phase <- [t \in Task |-> Phase(t)], None <- NoTask

OrderedTasks == Order!Spec

\* An idle queue holds nothing, whatever it has run: no tail, no set.
IdleHoldsNothing ==
  (\A t \in Task : state[t] \in {"new", "cleared"}) =>
    /\ \A f \in Feedback : feedbackTails[f] = NoTask
    /\ \A p \in Project : projectTails[p] = NoTask /\ feedbackTasksByProject[p] = NoTask

\* A cleanup never empties or removes a set that replaced its own: until a task
\* is cleared its project's set is the one it joined.
SetStaysProjects ==
  \A t \in Task :
    (tasks[t] # NoTask /\ state[t] # "cleared") => /\ feedbackTasksByProject[work[t].project] = tasks[t]
                                                 /\ t \in members[tasks[t]]

\* No chain of tasks waits on itself, or on a task that was forgotten: every
\* task queued runs and is cleaned up.
EveryTaskEnds == \A t \in Task : state[t] = "queued" ~> state[t] = "cleared"
=============================================================================
