--------------------------- MODULE SitepingHandler ---------------------------
(***************************************************************************)
(* The request handler of packages/server: several handler instances       *)
(* (processes) answer requests over one shared store.  Each operation is   *)
(* the chain of awaits of its source; whatever runs between two awaits is  *)
(* one step.  The store's own operations are atomic (AtomicStore is what   *)
(* makes that true of the snapshot engine; a database's constraints make   *)
(* it true of the others) and may fail, a write perhaps after it was       *)
(* applied.                                                                *)
(*                                                                         *)
(* Records carry what the operations compare: their key, their project,    *)
(* their thread.  The id of a record is the request that inserted it.      *)
(***************************************************************************)
EXTENDS Naturals, Sequences, FiniteSets

CONSTANTS
  Request,          \* the HTTP requests ever received; also the ids of records
  Instance,         \* handler instances over the store
  ClientId,         \* idempotency keys
  Project,          \* project names
  Status,           \* feedback statuses
  Settings,         \* the instances that run and what requests ask for
  HasIfAbsent,      \* the instances whose store has createFeedbackIfAbsent
  HasOwnership,     \* the store has verifyProjectOwnership
  StoreFails,       \* store operations may throw
  Crashes,          \* instances may crash
  None

Ask ==
  [kind : {"create"}, clientId : ClientId, project : Project]
    \cup [kind : {"update"}, id : Request, project : Project, status : Status]
    \cup [kind : {"delete"}, id : Request, project : Project]
    \cup [kind : {"deleteAll"}, project : Project]
    \cup [kind : {"createComment"}, clientId : ClientId, id : Request, project : Project]
    \cup [kind : {"deleteComment"}, comment : Request, id : Request, project : Project]

ASSUME HandlerAssumption ==
  /\ Settings \subseteq [instances : SUBSET Instance, asks : SUBSET Ask]
  /\ "open" \in Status
  /\ HasIfAbsent \subseteq Instance
  /\ {HasOwnership, StoreFails, Crashes} \subseteq BOOLEAN
  /\ None \notin Request \cup Instance \cup Project \cup Ask

VARIABLES
  setting,    \* which of the settings this is
  ask,        \* what each request asks for
  at,         \* the instance that handles it
  pc,         \* the await it is in
  inflight,   \* per instance and clientId, the request that owns the create in flight
  joined,     \* the owner whose create a request awaits
  work,       \* where an owner's createOrReplay is
  outcome,    \* what an owner's createOrReplay settled with
  feedbacks,  \* the store's feedbacks
  comments,   \* the store's comments
  events,     \* the notifications sent, in order
  answer      \* the response of each request

vars == <<setting, ask, at, pc, inflight, joined, work, outcome, feedbacks, comments, events, answer>>
store == <<feedbacks, comments>>
creation == <<inflight, joined, work, outcome>>

Feedback == [id : Request, clientId : ClientId, project : Project, status : Status]
Comment == [id : Request, clientId : ClientId, feedback : Request]

Answer ==
  [code : {"none", "200", "201", "403", "404", "409", "422", "500", "502", "lost"},
   id : Request \cup {None}]

Outcome ==
  [state : {"none", "running", "resolved", "duplicate", "tooLong", "failed"},
   id : Request \cup {None}, project : Project \cup {None}, inserted : BOOLEAN]

Event ==
  [event : {"feedback.created", "feedback.status_changed", "feedback.deleted", "comment.created"},
   id : Request \cup {None}]

TypeOK ==
  /\ setting \in Settings
  /\ ask \in [Request -> setting.asks \cup {None}]
  /\ at \in [Request -> Instance \cup {None}]
  /\ pc \in [Request -> {"new", "received", "awaiting", "lookup", "verifying", "hook",
                         "writing", "written", "done"}]
  /\ inflight \in [Instance -> [ClientId -> Request \cup {None}]]
  /\ joined \in [Request -> Request \cup {None}]
  /\ work \in [Request -> {"none", "find", "insert"}]
  /\ outcome \in [Request -> Outcome]
  /\ feedbacks \subseteq Feedback
  /\ comments \subseteq Comment
  /\ events \in Seq(Event)
  /\ answer \in [Request -> Answer]

NoOutcome == [state |-> "none", id |-> None, project |-> None, inserted |-> FALSE]

Init ==
  /\ setting \in Settings
  /\ ask = [r \in Request |-> None]
  /\ at = [r \in Request |-> None]
  /\ pc = [r \in Request |-> "new"]
  /\ inflight = [i \in Instance |-> [k \in ClientId |-> None]]
  /\ joined = [r \in Request |-> None]
  /\ work = [r \in Request |-> "none"]
  /\ outcome = [r \in Request |-> NoOutcome]
  /\ feedbacks = {}
  /\ comments = {}
  /\ events = <<>>
  /\ answer = [r \in Request |-> [code |-> "none", id |-> None]]

(***************************************************************************)
(* Ends of a request.                                                      *)
(***************************************************************************)
Goto(r, label) ==
  /\ pc' = [pc EXCEPT ![r] = label]
  /\ UNCHANGED answer

Respond(r, code, id) ==
  /\ pc' = [pc EXCEPT ![r] = "done"]
  /\ answer' = [answer EXCEPT ![r] = [code |-> code, id |-> id]]

Notify(event, id) == events' = Append(events, [event |-> event, id |-> id])

(***************************************************************************)
(* POST: create a feedback.                                                *)
(***************************************************************************)
Stored(k) == {f \in feedbacks : f.clientId = k}

\* A request takes ownership of the create of its clientId, or joins the one in
\* flight in its instance: the lookup and the registration are one turn.
JoinOrStart(r) ==
  LET i == at[r]
      k == ask[r].clientId
      owner == inflight[i][k]
  IN  /\ \/ /\ owner = None
            /\ inflight' = [inflight EXCEPT ![i][k] = r]
            /\ joined' = [joined EXCEPT ![r] = r]
            /\ work' = [work EXCEPT ![r] = IF at[r] \in HasIfAbsent THEN "insert" ELSE "find"]
            /\ outcome' = [outcome EXCEPT ![r].state = "running"]
         \/ /\ owner # None
            /\ joined' = [joined EXCEPT ![r] = owner]
            /\ UNCHANGED <<inflight, work, outcome>>
      /\ Goto(r, "awaiting")

\* createOrReplay settles.
Settle(r, state, id, project, inserted) ==
  /\ work' = [work EXCEPT ![r] = "none"]
  /\ outcome' = [outcome EXCEPT ![r] = [state |-> state, id |-> id, project |-> project,
                                        inserted |-> inserted]]

\* findByClientId, ahead of an insert the store would refuse.
Find(r) ==
  /\ work[r] = "find"
  /\ \/ \E f \in Stored(ask[r].clientId) : Settle(r, "resolved", f.id, f.project, FALSE)
     \/ /\ Stored(ask[r].clientId) = {}
        /\ work' = [work EXCEPT ![r] = "insert"]
        /\ UNCHANGED outcome
     \/ StoreFails /\ Settle(r, "failed", None, None, FALSE)
  /\ UNCHANGED <<setting, ask, at, pc, inflight, joined, feedbacks, comments, events, answer>>

NewFeedback(r) ==
  [id |-> r, clientId |-> ask[r].clientId, project |-> ask[r].project, status |-> "open"]

\* Fault: the store has no unique constraint on the clientId.
InsertUnchecked(r) ==
  /\ work[r] = "insert"
  /\ feedbacks' = feedbacks \cup {NewFeedback(r)}
  /\ Settle(r, "resolved", r, ask[r].project, TRUE)
  /\ UNCHANGED <<setting, ask, at, pc, inflight, joined, comments, events, answer>>

\* createFeedbackIfAbsent, or createFeedback with its StoreDuplicateError.
Insert(r) ==
  /\ work[r] = "insert"
  /\ \/ /\ Stored(ask[r].clientId) = {}
        /\ feedbacks' = feedbacks \cup {NewFeedback(r)}
        /\ Settle(r, "resolved", r, ask[r].project, TRUE)
     \/ /\ UNCHANGED feedbacks
        /\ \E f \in Stored(ask[r].clientId) :
             IF at[r] \in HasIfAbsent
             THEN Settle(r, "resolved", f.id, f.project, FALSE)
             ELSE Settle(r, "duplicate", None, None, FALSE)
  /\ UNCHANGED <<setting, ask, at, pc, inflight, joined, comments, events, answer>>

InsertFails(r) ==
  /\ StoreFails
  /\ work[r] = "insert"
  /\ \/ UNCHANGED feedbacks /\ \E e \in {"failed", "tooLong"} : Settle(r, e, None, None, FALSE)
     \/ /\ Stored(ask[r].clientId) = {}
        /\ feedbacks' = feedbacks \cup {NewFeedback(r)}
        /\ Settle(r, "failed", None, None, FALSE)
  /\ UNCHANGED <<setting, ask, at, pc, inflight, joined, comments, events, answer>>

\* Fault: a request that joined counts as the owner.
IsAnyone(r) == TRUE

IsOwner(r) == joined[r] = r

\* The finally block: the owner leaves the map.
Release(r) ==
  inflight' = IF IsOwner(r)
              THEN [inflight EXCEPT ![at[r]][ask[r].clientId] = None]
              ELSE inflight

\* Side effects of an insert, then the answer; a record of another project is
\* refused.  Presenting the record may throw.
AnswerCreate(r, id, project, inserted) ==
  /\ IF IsOwner(r) /\ inserted /\ project = ask[r].project
     THEN Notify("feedback.created", id)
     ELSE UNCHANGED events
  /\ \/ project # ask[r].project /\ Respond(r, "409", None)
     \/ project = ask[r].project /\ Respond(r, "201", id)
     \/ project = ask[r].project /\ StoreFails /\ Respond(r, "500", None)

\* Fault: a value too long for the store leaves the request without an answer.
ResumeUnlessTooLong(r) ==
  LET o == outcome[joined[r]]
  IN  /\ pc[r] = "awaiting"
      /\ o.state \in {"resolved", "failed"}
      /\ Release(r)
      /\ \/ o.state = "resolved" /\ AnswerCreate(r, o.id, o.project, o.inserted)
         \/ o.state = "failed" /\ Respond(r, "500", None) /\ UNCHANGED events
  /\ UNCHANGED <<setting, ask, at, joined, work, outcome, store>>

Resume(r) ==
  LET o == outcome[joined[r]]
  IN  /\ pc[r] = "awaiting"
      /\ o.state \notin {"none", "running"}
      /\ \/ /\ o.state = "resolved"
            /\ Release(r)
            /\ AnswerCreate(r, o.id, o.project, o.inserted)
         \/ /\ o.state = "duplicate"
            /\ Goto(r, "lookup")
            /\ UNCHANGED <<inflight, events>>
         \/ /\ o.state \in {"tooLong", "failed"}
            /\ Release(r)
            /\ Respond(r, IF o.state = "tooLong" THEN "422" ELSE "500", None)
            /\ UNCHANGED events
  /\ UNCHANGED <<setting, ask, at, joined, work, outcome, store>>

\* The duplicate's record, looked up in the catch block.
Lookup(r) ==
  /\ pc[r] = "lookup"
  /\ Release(r)
  /\ \/ \E f \in Stored(ask[r].clientId) : AnswerCreate(r, f.id, f.project, FALSE)
     \/ /\ Stored(ask[r].clientId) = {} \/ StoreFails
        /\ Respond(r, "500", None)
        /\ UNCHANGED events
  /\ UNCHANGED <<setting, ask, at, joined, work, outcome, store>>

(***************************************************************************)
(* PATCH, DELETE and comments.                                             *)
(***************************************************************************)
\* Fault: the cross-project guard is left out.
Unverified(r) == FALSE

Verified(r) == ask[r].kind \in {"update", "delete", "createComment", "deleteComment"} /\ HasOwnership

\* Where an authorized request goes once the cross-project guard is passed.
AfterGuard(r) == IF ask[r].kind \in {"delete", "deleteAll"} THEN "hook" ELSE "writing"

Authorize(r) ==
  /\ pc[r] = "received"
  /\ \/ Respond(r, "403", None) /\ UNCHANGED creation
     \/ StoreFails /\ Respond(r, "500", None) /\ UNCHANGED creation
     \/ ask[r].kind = "create" /\ JoinOrStart(r)
     \/ /\ ask[r].kind # "create"
        /\ Goto(r, IF Verified(r) THEN "verifying" ELSE AfterGuard(r))
        /\ UNCHANGED creation
  /\ UNCHANGED <<setting, ask, at, store, events>>

\* verifyProjectOwnership
Verify(r) ==
  /\ pc[r] = "verifying"
  /\ \/ /\ \E f \in feedbacks : f.id = ask[r].id /\ f.project = ask[r].project
        /\ Goto(r, AfterGuard(r))
     \/ /\ ~\E f \in feedbacks : f.id = ask[r].id /\ f.project = ask[r].project
        /\ Respond(r, "404", None)
     \/ StoreFails /\ Respond(r, "500", None)
  /\ UNCHANGED <<setting, ask, at, creation, store, events>>

\* onDeleting, which may abort the deletion.
OnDeleting(r) ==
  /\ pc[r] = "hook"
  /\ Goto(r, "writing") \/ Respond(r, "502", None)
  /\ UNCHANGED <<setting, ask, at, creation, store, events>>

\* What the store's operation makes of the feedbacks and the comments.
Target(r) == {f \in feedbacks : f.id = ask[r].id}
Doomed(r) == {f \in feedbacks : IF ask[r].kind = "deleteAll" THEN f.project = ask[r].project
                                                            ELSE f.id = ask[r].id}
ThreadComment(r) == {m \in comments : m.id = ask[r].comment /\ m.feedback = ask[r].id}
SameKey(r) == {m \in comments : m.clientId = ask[r].clientId}

Apply(r) ==
  CASE ask[r].kind = "update" ->
         /\ feedbacks' = (feedbacks \ Target(r)) \cup {[f EXCEPT !.status = ask[r].status] : f \in Target(r)}
         /\ UNCHANGED comments
    [] ask[r].kind \in {"delete", "deleteAll"} ->
         /\ feedbacks' = feedbacks \ Doomed(r)
         /\ comments' = {m \in comments : \A f \in Doomed(r) : m.feedback # f.id}
    [] ask[r].kind = "createComment" ->
         /\ comments' = comments \cup {[id |-> r, clientId |-> ask[r].clientId, feedback |-> ask[r].id]}
         /\ UNCHANGED feedbacks
    [] ask[r].kind = "deleteComment" ->
         /\ comments' = comments \ ThreadComment(r)
         /\ UNCHANGED feedbacks

\* StoreNotFoundError
Missing(r) ==
  CASE ask[r].kind \in {"update", "delete"} -> Target(r) = {}
    [] ask[r].kind = "deleteAll"            -> FALSE
    [] ask[r].kind = "createComment"        -> Target(r) = {} /\ SameKey(r) = {}
    [] ask[r].kind = "deleteComment"        -> ThreadComment(r) = {}

Replayed(r) == ask[r].kind = "createComment" /\ SameKey(r) # {}

Write(r) ==
  /\ pc[r] = "writing"
  /\ \/ /\ ~Missing(r) /\ ~Replayed(r)
        /\ Apply(r)
        /\ Goto(r, "written")
     \/ /\ Missing(r)
        /\ Respond(r, "404", None)
        /\ UNCHANGED store
     \/ /\ Replayed(r)
        /\ \E m \in SameKey(r) :
             IF m.feedback = ask[r].id THEN Respond(r, "201", m.id) ELSE Respond(r, "409", None)
        /\ UNCHANGED store
  /\ UNCHANGED <<setting, ask, at, creation, events>>

\* The store throws: a full thread or a value too long (comments only) writes
\* nothing, an unexpected failure may come before or after the write.
WriteFails(r) ==
  /\ StoreFails
  /\ pc[r] = "writing"
  /\ \/ /\ ask[r].kind = "createComment"
        /\ \E code \in {"409", "422"} : Respond(r, code, None)
        /\ UNCHANGED store
     \/ /\ Respond(r, "500", None)
        /\ UNCHANGED store \/ (~Missing(r) /\ ~Replayed(r) /\ Apply(r))
  /\ UNCHANGED <<setting, ask, at, creation, events>>

\* The write has succeeded: subscribers are notified, then the client.
Announce(r) ==
  /\ pc[r] = "written"
  /\ CASE ask[r].kind = "update"        -> Notify("feedback.status_changed", ask[r].id)
       [] ask[r].kind = "delete"        -> Notify("feedback.deleted", ask[r].id)
       [] ask[r].kind = "deleteAll"     -> Notify("feedback.deleted", None)
       [] ask[r].kind = "createComment" -> Notify("comment.created", r)
       [] ask[r].kind = "deleteComment" -> UNCHANGED events
  /\ \/ Respond(r, IF ask[r].kind = "createComment" THEN "201" ELSE "200", r)
     \/ StoreFails /\ Respond(r, "500", None)
  /\ UNCHANGED <<setting, ask, at, creation, store>>

(***************************************************************************)
(* The outside world.                                                      *)
(***************************************************************************)
Receive(r, i, a) ==
  /\ pc[r] = "new"
  /\ ask' = [ask EXCEPT ![r] = a]
  /\ at' = [at EXCEPT ![r] = i]
  /\ Goto(r, "received")
  /\ UNCHANGED <<setting, creation, store, events>>

\* A process dies: its requests are never answered, its map is gone.
Crash(i) ==
  LET dead == {r \in Request : at[r] = i /\ pc[r] # "done"}
  IN  /\ Crashes /\ dead # {}
      /\ pc' = [r \in Request |-> IF r \in dead THEN "done" ELSE pc[r]]
      /\ answer' = [r \in Request |-> IF r \in dead THEN [code |-> "lost", id |-> None] ELSE answer[r]]
      /\ work' = [r \in Request |-> IF at[r] = i THEN "none" ELSE work[r]]
      /\ inflight' = [inflight EXCEPT ![i] = [k \in ClientId |-> None]]
      /\ UNCHANGED <<setting, ask, at, joined, outcome, store, events>>

Serve(r) ==
  \/ Authorize(r)
  \/ Find(r)
  \/ Insert(r)
  \/ InsertFails(r)
  \/ Resume(r)
  \/ Lookup(r)
  \/ Verify(r)
  \/ OnDeleting(r)
  \/ Write(r)
  \/ WriteFails(r)
  \/ Announce(r)

Next ==
  \/ \E r \in Request, i \in setting.instances, a \in setting.asks : Receive(r, i, a)
  \/ \E r \in Request : Serve(r)
  \/ \E i \in Instance : Crash(i)

Spec == Init /\ [][Next]_vars

-----------------------------------------------------------------------------
(***************************************************************************)
(* Properties.                                                             *)
(***************************************************************************)
Announcements(event, id) == {n \in 1..Len(events) : events[n].event = event /\ events[n].id = id}

\* The side effects of a creation run once per insert, in whatever instance and
\* however often the request is replayed, joined or raced; and the request that
\* inserted is not answered 201 without them.
CreatedOnce ==
  \A r \in Request :
    /\ Cardinality(Announcements("feedback.created", r)) <= 1
    /\ answer[r] = [code |-> "201", id |-> r] /\ ask[r].kind = "create"
         => Announcements("feedback.created", r) # {}

Deleting == \E r \in Request : ask[r] # None /\ ask[r].kind \in {"delete", "deleteAll"}

Accepted(r) == answer[r].code = "201" /\ ask[r].kind = "create"

\* A request is only ever accepted with a record of its own project, and unless
\* something is deleted all requests accepted under one clientId get the same.
ReplaysAgree ==
  \A r \in Request : Accepted(r) =>
    /\ ask[answer[r].id].project = ask[r].project
    /\ \A s \in Request : (Accepted(s) /\ ask[s].clientId = ask[r].clientId /\ ~Deleting)
                             => answer[s].id = answer[r].id

\* A request scoped to a project changes and deletes nothing of another one.
WritesStayInProject ==
  [][/\ \A f \in feedbacks \ feedbacks' :
          \E r \in Request : /\ pc[r] = "writing" /\ pc'[r] # "writing"
                             /\ ask[r].project = f.project
     /\ \A m \in comments' \ comments :
          \E f \in feedbacks : f.id = m.feedback /\ f.project = ask[m.id].project]_vars

\* No request is left waiting: it has a step to take, or the create it awaits
\* has one.  A request takes finitely many steps, so it is answered as long as
\* store operations and host callbacks settle.
NobodyStranded ==
  \A r \in Request : pc[r] \notin {"new", "done"} =>
    ENABLED Serve(r) \/ (joined[r] # None /\ ENABLED Serve(joined[r]))
=============================================================================
