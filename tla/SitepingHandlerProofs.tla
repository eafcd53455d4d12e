------------------------ MODULE SitepingHandlerProofs ------------------------
(***************************************************************************)
(* What holds of SitepingHandler for any requests, instances and stores.   *)
(***************************************************************************)
EXTENDS SitepingHandler, FiniteSetTheorems, TLAPS

CreateAsk == [kind : {"create"}, clientId : ClientId, project : Project]
Place == {"new", "received", "awaiting", "lookup", "verifying", "hook", "writing", "written", "done"}
Codes == {"none", "200", "201", "403", "404", "409", "422", "500", "502", "lost"}
Guarded == {"verifying", "hook", "writing", "written"}

\* A request asks and is handled from when it is received, and answered once done.
Asked ==
  \A r \in Request : /\ pc[r] = "new" => ask[r] = None /\ at[r] = None
                     /\ pc[r] # "new" => ask[r] \in Ask /\ at[r] \in Instance
                     /\ answer[r].code # "none" => pc[r] = "done"

\* Only a creation joins one, awaits one or runs one; only the others write.
Placed ==
  \A r \in Request :
    /\ pc[r] \in {"awaiting", "lookup"} \/ work[r] # "none" => joined[r] # None
    /\ joined[r] # None => pc[r] \notin {"new", "received"} /\ ask[r] \in CreateAsk
    /\ pc[r] \in Guarded => ask[r].kind # "create"

TypeInv == TypeOK /\ Asked /\ Placed
-----------------------------------------------------------------------------
\* What a request in progress may become.
Moved(r) ==
  \/ pc'[r] = pc[r] /\ answer'[r] = answer[r]
  \/ /\ pc[r] \notin {"new", "done"} /\ pc'[r] \notin {"new", "received"}
     /\ pc'[r] \in {"awaiting", "lookup"} => joined[r] # None
     /\ pc'[r] \in Guarded => ask[r].kind # "create"
     /\ pc'[r] = "done" \/ answer'[r] = answer[r]

\* A step that receives nothing and starts no creation keeps the types.
LEMMA MoveKeepsType ==
  ASSUME TypeInv, UNCHANGED <<setting, ask, at, joined>>,
         pc' \in [Request -> Place], answer' \in [Request -> Answer], \A r \in Request : Moved(r),
         work' \in [Request -> {"none", "find", "insert"}], \A r \in Request : work'[r] # "none" => work[r] # "none",
         outcome' \in [Request -> Outcome], inflight' \in [Instance -> [ClientId -> Request \cup {None}]],
         feedbacks' \in SUBSET Feedback, comments' \in SUBSET Comment, events' \in Seq(Event)
  PROVE  TypeInv'
<1>1. TypeOK'
  BY DEF TypeInv, TypeOK, Place
<1>2. Asked'
  BY DEF TypeInv, Asked, Moved
<1>3. Placed'
  BY DEF TypeInv, Placed, Moved, Guarded
<1>4. QED BY <1>1, <1>2, <1>3 DEF TypeInv

\* A request that goes on, or is answered, has moved.
LEMMA EndsMove ==
  ASSUME TypeInv, NEW r \in Request, pc[r] \notin {"new", "done"}
  PROVE  /\ \A label \in Place \ {"new", "received"} :
              Goto(r, label) /\ (label \in {"awaiting", "lookup"} => joined[r] # None)
                             /\ (label \in Guarded => ask[r].kind # "create")
                => /\ pc' \in [Request -> Place] /\ answer' \in [Request -> Answer]
                   /\ \A s \in Request : Moved(s)
         /\ \A code \in Codes, id \in Request \cup {None} :
              Respond(r, code, id)
                => /\ pc' \in [Request -> Place] /\ answer' \in [Request -> Answer]
                   /\ \A s \in Request : Moved(s)
<1>0. pc \in [Request -> Place] /\ answer \in [Request -> Answer]
  BY DEF TypeInv, TypeOK, Place
<1>1. ASSUME NEW label \in Place \ {"new", "received"}, Goto(r, label),
             label \in {"awaiting", "lookup"} => joined[r] # None, label \in Guarded => ask[r].kind # "create"
      PROVE  /\ pc' \in [Request -> Place] /\ answer' \in [Request -> Answer]
             /\ \A s \in Request : Moved(s)
  BY <1>0, <1>1 DEF Goto, Moved
<1>2. ASSUME NEW code \in Codes, NEW id \in Request \cup {None}, Respond(r, code, id)
      PROVE  /\ pc' \in [Request -> Place] /\ answer' \in [Request -> Answer]
             /\ \A s \in Request : Moved(s)
  <2>1. [code |-> code, id |-> id] \in Answer
    BY DEF Answer, Codes
  <2>2. QED BY <1>0, <1>2, <2>1 DEF Respond, Moved, Guarded, Place
<1>3. QED BY <1>1, <1>2

\* What a write makes of the store is made of feedbacks and comments.
LEMMA ApplyType ==
  ASSUME TypeInv, NEW r \in Request, pc[r] = "writing", Apply(r)
  PROVE  feedbacks' \in SUBSET Feedback /\ comments' \in SUBSET Comment
<1>0. ask[r] \in Ask /\ ask[r].kind # "create" /\ feedbacks \subseteq Feedback /\ comments \subseteq Comment
  BY DEF TypeInv, TypeOK, Asked, Placed, Guarded
<1>1. CASE ask[r].kind = "update"
  <2>1. ask[r].status \in Status
    BY <1>0, <1>1 DEF Ask
  <2>2. /\ feedbacks' = (feedbacks \ Target(r)) \cup {[f EXCEPT !.status = ask[r].status] : f \in Target(r)}
        /\ comments' = comments
    BY <1>1 DEF Apply
  <2>3. Target(r) \subseteq feedbacks
    BY DEF Target
  <2>4. \A f \in Feedback : [f EXCEPT !.status = ask[r].status] \in Feedback
    BY <2>1 DEF Feedback
  <2>5. QED BY <1>0, <2>2, <2>3, <2>4
<1>2. CASE ask[r].kind \in {"delete", "deleteAll"}
  BY <1>0, <1>2 DEF Apply, Doomed
<1>3. CASE ask[r].kind = "createComment"
  <2>1. [id |-> r, clientId |-> ask[r].clientId, feedback |-> ask[r].id] \in Comment
    BY <1>0, <1>3 DEF Ask, Comment
  <2>2. QED BY <1>0, <1>3, <2>1 DEF Apply
<1>4. CASE ask[r].kind = "deleteComment"
  BY <1>0, <1>4 DEF Apply
<1>5. QED BY <1>0, <1>1, <1>2, <1>3, <1>4 DEF Ask

\* A notification is one more event.
LEMMA NotifyType ==
  ASSUME events \in Seq(Event), NEW event \in {"feedback.created", "feedback.status_changed", "feedback.deleted", "comment.created"},
         NEW id \in Request \cup {None}, Notify(event, id)
  PROVE  events' \in Seq(Event)
<1>1. [event |-> event, id |-> id] \in Event
  BY DEF Event
<1>2. QED BY <1>1 DEF Notify

\* The answer to a creation is well typed.
LEMMA AnswerCreateType ==
  ASSUME TypeInv, NEW r \in Request, pc[r] \in {"awaiting", "lookup"}, NEW id \in Request \cup {None}, NEW project, NEW inserted,
         AnswerCreate(r, id, project, inserted)
  PROVE  /\ pc' \in [Request -> Place] /\ answer' \in [Request -> Answer] /\ \A s \in Request : Moved(s)
         /\ events' \in Seq(Event)
<1>1. events \in Seq(Event)
  BY DEF TypeInv, TypeOK
<1>2. events' \in Seq(Event)
  BY <1>1, NotifyType DEF AnswerCreate
<1>3. Respond(r, "409", None) \/ Respond(r, "201", id) \/ Respond(r, "500", None)
  BY DEF AnswerCreate
<1>4. QED BY <1>2, <1>3, EndsMove DEF Codes

\* The map of creations in flight keeps its shape.
LEMMA ReleaseType ==
  ASSUME TypeInv, NEW r \in Request, pc[r] \in {"awaiting", "lookup"}, Release(r)
  PROVE  /\ inflight' \in [Instance -> [ClientId -> Request \cup {None}]]
         /\ \A i \in Instance, k \in ClientId : inflight'[i][k] \in {inflight[i][k], None}
<1>1. at[r] \in Instance /\ ask[r].clientId \in ClientId
  BY DEF TypeInv, Asked, Placed, CreateAsk
<1>2. inflight \in [Instance -> [ClientId -> Request \cup {None}]]
  BY DEF TypeInv, TypeOK
<1>3. QED BY <1>1, <1>2 DEF Release

\* The types hold at first.
LEMMA TypeInit == Init => TypeInv
  BY HandlerAssumption DEF Init, TypeInv, TypeOK, Asked, Placed, Guarded, Outcome, NoOutcome, Answer

\* No step breaks the types.
LEMMA TypeStep == TypeInv /\ [Next]_vars => TypeInv'
<1> SUFFICES ASSUME TypeInv, [Next]_vars PROVE TypeInv'
  OBVIOUS
<1>0. /\ setting \in Settings /\ setting.instances \subseteq Instance /\ setting.asks \subseteq Ask
      /\ pc \in [Request -> Place] /\ answer \in [Request -> Answer]
      /\ work \in [Request -> {"none", "find", "insert"}] /\ outcome \in [Request -> Outcome]
      /\ inflight \in [Instance -> [ClientId -> Request \cup {None}]] /\ joined \in [Request -> Request \cup {None}]
      /\ feedbacks \in SUBSET Feedback /\ comments \in SUBSET Comment /\ events \in Seq(Event)
  BY HandlerAssumption DEF TypeInv, TypeOK, Place
<1>s. UNCHANGED store => feedbacks' \in SUBSET Feedback /\ comments' \in SUBSET Comment
  BY <1>0 DEF store
<1>c. UNCHANGED creation
        => /\ joined' = joined /\ work' \in [Request -> {"none", "find", "insert"}]
           /\ \A s \in Request : work'[s] # "none" => work[s] # "none"
           /\ outcome' \in [Request -> Outcome] /\ inflight' \in [Instance -> [ClientId -> Request \cup {None}]]
  BY <1>0 DEF creation
<1>m. pc' = pc /\ answer' = answer => /\ pc' \in [Request -> Place] /\ answer' \in [Request -> Answer]
                                      /\ \A s \in Request : Moved(s)
  BY <1>0 DEF Moved
<1>t. ASSUME NEW r \in Request, work[r] # "none", NEW state \in {"resolved", "duplicate", "tooLong", "failed"},
             NEW id \in Request \cup {None}, NEW project \in Project \cup {None}, NEW inserted \in BOOLEAN,
             Settle(r, state, id, project, inserted)
      PROVE  /\ work' \in [Request -> {"none", "find", "insert"}]
             /\ \A s \in Request : work'[s] # "none" => work[s] # "none"
             /\ outcome' \in [Request -> Outcome]
  <2>1. [state |-> state, id |-> id, project |-> project, inserted |-> inserted] \in Outcome
    BY DEF Outcome
  <2>2. QED BY <1>0, <1>t, <2>1 DEF Settle
<1>f. \A f \in feedbacks : f.id \in Request /\ f.project \in Project
  BY <1>0 DEF Feedback
<1>1. ASSUME NEW r \in Request, NEW i \in setting.instances, NEW a \in setting.asks, Receive(r, i, a) PROVE TypeInv'
  <2>1. /\ pc[r] = "new" /\ ask' = [ask EXCEPT ![r] = a] /\ at' = [at EXCEPT ![r] = i]
        /\ pc' = [pc EXCEPT ![r] = "received"] /\ answer' = answer /\ UNCHANGED <<setting, creation, store, events>>
    BY <1>1 DEF Receive, Goto
  <2>2. a \in Ask /\ i \in Instance /\ joined[r] = None
    BY <1>0, <2>1 DEF TypeInv, Placed
  <2>3. TypeOK'
    BY <2>1, <2>2 DEF TypeInv, TypeOK, creation, store
  <2>4. Asked'
    BY <2>1, <2>2 DEF TypeInv, TypeOK, Asked
  <2>5. Placed'
    BY <2>1, <2>2 DEF TypeInv, TypeOK, Placed, Guarded, creation
  <2>6. QED BY <2>3, <2>4, <2>5 DEF TypeInv
<1>2. ASSUME NEW r \in Request, Authorize(r) PROVE TypeInv'
  <2>1. pc[r] = "received" /\ UNCHANGED <<setting, ask, at, store, events>> /\ ask[r] \in Ask /\ at[r] \in Instance
    BY <1>2 DEF Authorize, TypeInv, Asked
  <2>2. CASE UNCHANGED creation /\ (Respond(r, "403", None) \/ Respond(r, "500", None))
    <3>1. /\ pc' \in [Request -> Place] /\ answer' \in [Request -> Answer]
          /\ \A s \in Request : Moved(s)
      BY <2>1, <2>2, EndsMove DEF Codes
    <3>2. QED BY <1>0, <1>s, <1>c, <2>1, <2>2, <3>1, MoveKeepsType
  <2>3. CASE ask[r].kind = "create" /\ JoinOrStart(r)
    <3>1. ask[r] \in CreateAsk
      BY <2>1, <2>3 DEF Ask, CreateAsk
    <3>2. pc' = [pc EXCEPT ![r] = "awaiting"] /\ answer' = answer
      BY <2>3 DEF JoinOrStart, Goto
    <3>3. \E o \in Request : joined' = [joined EXCEPT ![r] = o]
      <4>1. inflight[at[r]][ask[r].clientId] \in Request \cup {None}
        BY <1>0, <2>1, <3>1 DEF CreateAsk
      <4>2. QED BY <2>3, <4>1 DEF JoinOrStart
    <3>4. /\ work' \in [Request -> {"none", "find", "insert"}] /\ \A s \in Request \ {r} : work'[s] = work[s]
          /\ outcome' \in [Request -> Outcome] /\ inflight' \in [Instance -> [ClientId -> Request \cup {None}]]
      <4>1. CASE UNCHANGED <<inflight, work, outcome>>
        BY <1>0, <4>1
      <4>2. CASE /\ inflight' = [inflight EXCEPT ![at[r]][ask[r].clientId] = r]
                 /\ work' = [work EXCEPT ![r] = IF at[r] \in HasIfAbsent THEN "insert" ELSE "find"]
                 /\ outcome' = [outcome EXCEPT ![r].state = "running"]
        BY <1>0, <4>2 DEF Outcome
      <4>3. QED BY <2>3, <4>1, <4>2 DEF JoinOrStart
    <3>5. TypeOK'
      <4>1. joined' \in [Request -> Request \cup {None}] /\ pc' \in [Request -> Place] /\ answer' \in [Request -> Answer]
        BY <1>0, <3>2, <3>3 DEF Place
      <4>2. setting' \in Settings /\ ask' \in [Request -> setting'.asks \cup {None}] /\ at' \in [Request -> Instance \cup {None}]
        BY <2>1 DEF TypeInv, TypeOK
      <4>3. QED BY <1>0, <1>s, <2>1, <3>4, <4>1, <4>2 DEF TypeOK, Place
    <3>6. Asked'
      BY <1>0, <2>1, <3>2 DEF TypeInv, Asked
    <3>7. Placed'
      BY <1>0, <2>1, <3>1, <3>2, <3>3, <3>4, HandlerAssumption DEF TypeInv, Placed, Guarded
    <3>8. QED BY <3>5, <3>6, <3>7 DEF TypeInv
  <2>4. CASE ask[r].kind # "create" /\ UNCHANGED creation /\ Goto(r, IF Verified(r) THEN "verifying" ELSE AfterGuard(r))
    <3>1. (IF Verified(r) THEN "verifying" ELSE AfterGuard(r)) \in {"verifying", "hook", "writing"}
      BY DEF AfterGuard
    <3>2. /\ pc' \in [Request -> Place] /\ answer' \in [Request -> Answer]
          /\ \A s \in Request : Moved(s)
      BY <2>1, <2>4, <3>1, EndsMove DEF Place
    <3>3. QED BY <1>0, <1>s, <1>c, <2>1, <2>4, <3>2, MoveKeepsType
  <2>5. QED BY <1>2, <2>2, <2>3, <2>4 DEF Authorize
<1>3. ASSUME NEW r \in Request, Find(r) PROVE TypeInv'
  <2>1. /\ work[r] = "find" /\ UNCHANGED <<setting, ask, at, pc, inflight, joined, feedbacks, comments, events, answer>>
        /\ \A f \in Stored(ask[r].clientId) : f.id \in Request /\ f.project \in Project
    BY <1>3, <1>f DEF Find, Stored
  <2>2. CASE \E f \in Stored(ask[r].clientId) : Settle(r, "resolved", f.id, f.project, FALSE)
    BY <1>0, <1>m, <1>t, <2>1, <2>2, MoveKeepsType
  <2>3. CASE Settle(r, "failed", None, None, FALSE)
    BY <1>0, <1>m, <1>t, <2>1, <2>3, MoveKeepsType
  <2>4. CASE work' = [work EXCEPT ![r] = "insert"] /\ UNCHANGED outcome
    BY <1>0, <1>m, <2>1, <2>4, MoveKeepsType
  <2>5. QED BY <1>3, <2>2, <2>3, <2>4 DEF Find
<1>n. ASSUME NEW r \in Request, work[r] # "none"
      PROVE  ask[r] \in CreateAsk /\ NewFeedback(r) \in Feedback /\ ask[r].project \in Project
  <2>1. ask[r] \in CreateAsk
    BY <1>n DEF TypeInv, Placed
  <2>2. QED BY <2>1, HandlerAssumption DEF CreateAsk, NewFeedback, Feedback
<1>4. ASSUME NEW r \in Request, Insert(r) PROVE TypeInv'
  <2>1. /\ work[r] = "insert" /\ UNCHANGED <<setting, ask, at, pc, inflight, joined, comments, events, answer>>
        /\ \A f \in Stored(ask[r].clientId) : f.id \in Request /\ f.project \in Project
    BY <1>4, <1>f DEF Insert, Stored
  <2>2. feedbacks' \in SUBSET Feedback
    <3>1. feedbacks' = feedbacks \/ feedbacks' = feedbacks \cup {NewFeedback(r)}
      BY <1>4 DEF Insert
    <3>2. NewFeedback(r) \in Feedback
      BY <1>n, <2>1
    <3>3. QED BY <1>0, <3>1, <3>2
  <2>3. CASE Settle(r, "resolved", r, ask[r].project, TRUE)
    BY <1>0, <1>m, <1>n, <1>t, <2>1, <2>2, <2>3, MoveKeepsType
  <2>4. CASE \E f \in Stored(ask[r].clientId) : Settle(r, "resolved", f.id, f.project, FALSE)
    BY <1>0, <1>m, <1>t, <2>1, <2>2, <2>4, MoveKeepsType
  <2>5. CASE Settle(r, "duplicate", None, None, FALSE)
    BY <1>0, <1>m, <1>t, <2>1, <2>2, <2>5, MoveKeepsType
  <2>6. QED BY <1>4, <2>3, <2>4, <2>5 DEF Insert
<1>5. ASSUME NEW r \in Request, InsertFails(r) PROVE TypeInv'
  <2>1. /\ work[r] = "insert" /\ UNCHANGED <<setting, ask, at, pc, inflight, joined, comments, events, answer>>
        /\ \E e \in {"failed", "tooLong"} : Settle(r, e, None, None, FALSE)
    BY <1>5 DEF InsertFails
  <2>2. feedbacks' \in SUBSET Feedback
    <3>1. feedbacks' = feedbacks \/ feedbacks' = feedbacks \cup {NewFeedback(r)}
      BY <1>5 DEF InsertFails
    <3>2. NewFeedback(r) \in Feedback
      BY <1>n, <2>1
    <3>3. QED BY <1>0, <3>1, <3>2
  <2>3. QED BY <1>0, <1>m, <1>t, <2>1, <2>2, MoveKeepsType
<1>6. ASSUME NEW r \in Request, Resume(r) PROVE TypeInv'
  <2> DEFINE o == outcome[joined[r]]
  <2>1. pc[r] = "awaiting" /\ UNCHANGED <<setting, ask, at, joined, work, outcome, store>> /\ joined[r] # None
    BY <1>6 DEF Resume, TypeInv, Placed
  <2>2. joined[r] \in Request /\ o \in Outcome
    BY <1>0, <2>1
  <2>3. CASE Release(r) /\ AnswerCreate(r, o.id, o.project, o.inserted)
    <3>1. o.id \in Request \cup {None}
      BY <2>2 DEF Outcome
    <3> HIDE DEF o
    <3>2. QED BY <1>0, <1>s, <2>1, <2>3, <3>1, ReleaseType, AnswerCreateType, MoveKeepsType
  <2>4. CASE Goto(r, "lookup") /\ UNCHANGED <<inflight, events>>
    <3>1. /\ pc' \in [Request -> Place] /\ answer' \in [Request -> Answer] /\ \A s \in Request : Moved(s)
      BY <2>1, <2>4, EndsMove DEF Place, Guarded
    <3>2. QED BY <1>0, <1>s, <2>1, <2>4, <3>1, MoveKeepsType
  <2>5. CASE Release(r) /\ Respond(r, IF o.state = "tooLong" THEN "422" ELSE "500", None) /\ UNCHANGED events
    <3>1. (IF o.state = "tooLong" THEN "422" ELSE "500") \in Codes
      BY DEF Codes
    <3> HIDE DEF o
    <3>2. /\ pc' \in [Request -> Place] /\ answer' \in [Request -> Answer] /\ \A s \in Request : Moved(s)
      BY <2>1, <2>5, <3>1, EndsMove
    <3>3. QED BY <1>0, <1>s, <2>1, <2>5, <3>2, ReleaseType, MoveKeepsType
  <2>6. QED BY <1>6, <2>3, <2>4, <2>5 DEF Resume
<1>7. ASSUME NEW r \in Request, Lookup(r) PROVE TypeInv'
  <2>1. pc[r] = "lookup" /\ Release(r) /\ UNCHANGED <<setting, ask, at, joined, work, outcome, store>>
    BY <1>7 DEF Lookup
  <2>2. CASE \E f \in Stored(ask[r].clientId) : AnswerCreate(r, f.id, f.project, FALSE)
    <3> PICK f \in Stored(ask[r].clientId) : AnswerCreate(r, f.id, f.project, FALSE)
      BY <2>2
    <3>1. f.id \in Request \cup {None}
      BY <1>f DEF Stored
    <3>2. QED BY <1>0, <1>s, <2>1, <3>1, ReleaseType, AnswerCreateType, MoveKeepsType
  <2>3. CASE Respond(r, "500", None) /\ UNCHANGED events
    <3>1. /\ pc' \in [Request -> Place] /\ answer' \in [Request -> Answer] /\ \A s \in Request : Moved(s)
      BY <2>1, <2>3, EndsMove DEF Codes
    <3>2. QED BY <1>0, <1>s, <2>1, <2>3, <3>1, ReleaseType, MoveKeepsType
  <2>4. QED BY <1>7, <2>2, <2>3 DEF Lookup
<1>8. ASSUME NEW r \in Request, Verify(r) PROVE TypeInv'
  <2>1. pc[r] = "verifying" /\ ask[r].kind # "create" /\ UNCHANGED <<setting, ask, at, creation, store, events>>
    BY <1>8 DEF Verify, TypeInv, Placed, Guarded
  <2>2. Goto(r, AfterGuard(r)) \/ Respond(r, "404", None) \/ Respond(r, "500", None)
    BY <1>8 DEF Verify
  <2>3. AfterGuard(r) \in {"hook", "writing"}
    BY DEF AfterGuard
  <2>4. /\ pc' \in [Request -> Place] /\ answer' \in [Request -> Answer] /\ \A s \in Request : Moved(s)
    BY <2>1, <2>2, <2>3, EndsMove DEF Place, Codes
  <2>5. QED BY <1>0, <1>s, <1>c, <2>1, <2>4, MoveKeepsType
<1>9. ASSUME NEW r \in Request, OnDeleting(r) PROVE TypeInv'
  <2>1. pc[r] = "hook" /\ ask[r].kind # "create" /\ UNCHANGED <<setting, ask, at, creation, store, events>>
    BY <1>9 DEF OnDeleting, TypeInv, Placed, Guarded
  <2>2. Goto(r, "writing") \/ Respond(r, "502", None)
    BY <1>9 DEF OnDeleting
  <2>3. /\ pc' \in [Request -> Place] /\ answer' \in [Request -> Answer] /\ \A s \in Request : Moved(s)
    BY <2>1, <2>2, EndsMove DEF Place, Codes
  <2>4. QED BY <1>0, <1>s, <1>c, <2>1, <2>3, MoveKeepsType
<1>10. ASSUME NEW r \in Request, Write(r) PROVE TypeInv'
  <2>1. pc[r] = "writing" /\ ask[r].kind # "create" /\ UNCHANGED <<setting, ask, at, creation, events>>
    BY <1>10 DEF Write, TypeInv, Placed, Guarded
  <2>2. CASE Apply(r) /\ Goto(r, "written")
    <3>1. /\ pc' \in [Request -> Place] /\ answer' \in [Request -> Answer] /\ \A s \in Request : Moved(s)
      BY <2>1, <2>2, EndsMove DEF Place
    <3>2. QED BY <1>0, <1>c, <2>1, <2>2, <3>1, ApplyType, MoveKeepsType
  <2>3. CASE UNCHANGED store /\ \E code \in {"404", "201", "409"}, id \in Request \cup {None} : Respond(r, code, id)
    <3>1. /\ pc' \in [Request -> Place] /\ answer' \in [Request -> Answer] /\ \A s \in Request : Moved(s)
      BY <2>1, <2>3, EndsMove DEF Codes
    <3>2. QED BY <1>0, <1>s, <1>c, <2>1, <2>3, <3>1, MoveKeepsType
  <2>4. \A m \in SameKey(r) : m.id \in Request
    BY <1>0 DEF SameKey, Comment
  <2>5. QED BY <1>10, <2>2, <2>3, <2>4 DEF Write
<1>11. ASSUME NEW r \in Request, WriteFails(r) PROVE TypeInv'
  <2>1. pc[r] = "writing" /\ UNCHANGED <<setting, ask, at, creation, events>>
    BY <1>11 DEF WriteFails
  <2>2. \E code \in {"409", "422", "500"} : Respond(r, code, None)
    BY <1>11 DEF WriteFails
  <2>3. UNCHANGED store \/ Apply(r)
    BY <1>11 DEF WriteFails
  <2>4. /\ pc' \in [Request -> Place] /\ answer' \in [Request -> Answer] /\ \A s \in Request : Moved(s)
    BY <2>1, <2>2, EndsMove DEF Codes
  <2>5. QED BY <1>0, <1>s, <1>c, <2>1, <2>3, <2>4, ApplyType, MoveKeepsType
<1>12. ASSUME NEW r \in Request, Announce(r) PROVE TypeInv'
  <2>1. pc[r] = "written" /\ ask[r] \in Ask /\ ask[r].kind # "create" /\ UNCHANGED <<setting, ask, at, creation, store>>
    BY <1>12 DEF Announce, TypeInv, Asked, Placed, Guarded
  <2>2. \E code \in {"201", "200", "500"}, id \in Request \cup {None} : Respond(r, code, id)
    BY <1>12 DEF Announce
  <2>3. /\ pc' \in [Request -> Place] /\ answer' \in [Request -> Answer] /\ \A s \in Request : Moved(s)
    BY <2>1, <2>2, EndsMove DEF Codes
  <2>4. events' \in Seq(Event)
    <3>1. CASE ask[r].kind = "update"
      <4>1. ask[r].id \in Request
        BY <2>1, <3>1 DEF Ask
      <4>2. QED BY <1>0, <1>12, <3>1, <4>1, NotifyType DEF Announce
    <3>2. CASE ask[r].kind = "delete"
      <4>1. ask[r].id \in Request
        BY <2>1, <3>2 DEF Ask
      <4>2. QED BY <1>0, <1>12, <3>2, <4>1, NotifyType DEF Announce
    <3>3. CASE ask[r].kind \in {"deleteAll", "createComment", "deleteComment"}
      BY <1>0, <1>12, <3>3, NotifyType DEF Announce
    <3>4. QED BY <2>1, <3>1, <3>2, <3>3 DEF Ask
  <2>5. QED BY <1>0, <1>s, <1>c, <2>1, <2>3, <2>4, MoveKeepsType
<1>13. ASSUME NEW i \in Instance, Crash(i) PROVE TypeInv'
  <2> DEFINE dead == {r \in Request : at[r] = i /\ pc[r] # "done"}
             lost == [code |-> "lost", id |-> None]
  <2>1. lost \in Answer
    BY DEF Answer
  <2>2. /\ pc' = [r \in Request |-> IF r \in dead THEN "done" ELSE pc[r]]
        /\ answer' = [r \in Request |-> IF r \in dead THEN lost ELSE answer[r]]
        /\ work' = [r \in Request |-> IF at[r] = i THEN "none" ELSE work[r]]
        /\ inflight' = [inflight EXCEPT ![i] = [k \in ClientId |-> None]]
        /\ UNCHANGED <<setting, ask, at, joined, outcome, store, events>>
    BY <1>13 DEF Crash
  <2> HIDE DEF lost
  <2>3. \A r \in dead : pc[r] # "new"
    BY HandlerAssumption DEF TypeInv, Asked
  <2>4. QED
    <3>1. /\ pc' \in [Request -> Place] /\ answer' \in [Request -> Answer] /\ \A s \in Request : Moved(s)
      BY <1>0, <2>1, <2>2, <2>3 DEF Moved, Place, Guarded
    <3>2. /\ work' \in [Request -> {"none", "find", "insert"}] /\ \A s \in Request : work'[s] # "none" => work[s] # "none"
          /\ inflight' \in [Instance -> [ClientId -> Request \cup {None}]]
      BY <1>0, <2>2
    <3>3. QED BY <1>0, <1>s, <2>2, <3>1, <3>2, MoveKeepsType
<1>14. ASSUME UNCHANGED vars PROVE TypeInv'
  BY <1>0, <1>14, <1>s, <1>c, <1>m, MoveKeepsType DEF vars, store, creation
<1>15. QED
  BY <1>1, <1>2, <1>3, <1>4, <1>5, <1>6, <1>7, <1>8, <1>9, <1>10, <1>11, <1>12, <1>13, <1>14 DEF Next, Serve

\* The state of every instance, request and record is of the shape declared.
THEOREM TypeCorrect == Spec => []TypeOK
<1>1. TypeInv => TypeOK
  BY DEF TypeInv
<1>2. QED BY TypeInit, TypeStep, <1>1, PTL DEF Spec

-----------------------------------------------------------------------------
(***************************************************************************)
(* Creations.                                                              *)
(***************************************************************************)
\* Whoever joins a creation joins its owner, under the same clientId.
JoinedInv ==
  \A r \in Request : joined[r] # None => joined[joined[r]] = joined[r] /\ ask[joined[r]].clientId = ask[r].clientId

\* A creation in flight is its owner's.
InflightInv ==
  \A i \in Instance, k \in ClientId :
    inflight[i][k] # None => joined[inflight[i][k]] = inflight[i][k] /\ ask[inflight[i][k]].clientId = k

RunningInv == \A o \in Request : work[o] # "none" => joined[o] = o /\ outcome[o].state = "running"

\* A record, named by the creation that inserted it, that answers a request for a project.
Answers(id, project, r) ==
  /\ id \in Request /\ joined[id] = id
  /\ ask[id].clientId = ask[r].clientId /\ ask[id].project = project
  /\ ~Deleting => \E f \in feedbacks : f.id = id

\* A creation resolves with a record of its clientId, its own if it inserted one.
Resolved(o) ==
  /\ joined[o] = o
  /\ Answers(outcome[o].id, outcome[o].project, o)
  /\ outcome[o].inserted <=> outcome[o].id = o

OutcomeInv == \A o \in Request : outcome[o].state = "resolved" => Resolved(o)

AnswerInv == \A r \in Request : Accepted(r) => Answers(answer[r].id, ask[r].project, r)

\* A record is what the owner of a creation asked for, and its creation is over.
FeedbackInv ==
  \A f \in feedbacks :
    /\ joined[f.id] = f.id /\ f.clientId = ask[f.id].clientId /\ f.project = ask[f.id].project
    /\ work[f.id] = "none" /\ outcome[f.id].state \in {"resolved", "failed"}
    /\ outcome[f.id].state = "resolved" => outcome[f.id].id = f.id

UniqueInv == \A f, g \in feedbacks : f.clientId = g.clientId => f = g

CreateInv ==
  JoinedInv /\ InflightInv /\ RunningInv /\ OutcomeInv /\ AnswerInv /\ FeedbackInv /\ UniqueInv

\* The store keeps what its records are, and all of them unless something is deleted.
StoreKept ==
  /\ \A f \in feedbacks' : \E g \in feedbacks : f.id = g.id /\ f.clientId = g.clientId /\ f.project = g.project
  /\ \A f, g \in feedbacks' : f.clientId = g.clientId => f = g
  /\ ~Deleting => \A g \in feedbacks : \E f \in feedbacks' : f.id = g.id

\* A request is accepted with a record that answers it, if it was not before.
AcceptedWell ==
  \A s \in Request : Accepted(s)' => answer'[s] = answer[s] \/ Answers(answer'[s].id, ask[s].project, s)

\* A step that settles and starts no creation keeps the invariant.
LEMMA CreateFrame ==
  ASSUME TypeInv, CreateInv, UNCHANGED <<ask, joined, outcome>>,
         \A s \in Request : work'[s] # "none" => work'[s] = work[s],
         \A i \in Instance, k \in ClientId : inflight'[i][k] \in {inflight[i][k], None},
         StoreKept, AcceptedWell, work' \in [Request -> {"none", "find", "insert"}]
  PROVE  CreateInv'
<1>1. Deleting' = Deleting
  BY DEF Deleting
<1>2. \A id, project, s : Answers(id, project, s) => Answers(id, project, s)'
  BY <1>1 DEF Answers, StoreKept
<1>3. JoinedInv' /\ InflightInv' /\ RunningInv'
  BY DEF CreateInv, JoinedInv, InflightInv, RunningInv
<1>4. OutcomeInv'
  BY <1>2 DEF CreateInv, OutcomeInv, Resolved
<1>5. AnswerInv'
  <2> SUFFICES ASSUME NEW s \in Request, Accepted(s)' PROVE Answers(answer'[s].id, ask[s].project, s)
    BY <1>2 DEF AnswerInv
  <2>1. CASE answer'[s] = answer[s]
    <3>1. Accepted(s)
      BY <2>1 DEF Accepted
    <3>2. QED BY <2>1, <3>1 DEF CreateInv, AnswerInv
  <2>2. QED BY <2>1 DEF AcceptedWell
<1>6. FeedbackInv'
  <2>1. \A f \in feedbacks : f.id \in Request
    BY DEF TypeInv, TypeOK, Feedback
  <2>2. QED BY <2>1 DEF CreateInv, FeedbackInv, StoreKept
<1>7. UniqueInv'
  BY DEF UniqueInv, StoreKept
<1>8. QED BY <1>3, <1>4, <1>5, <1>6, <1>7 DEF CreateInv

\* A write keeps what the records are.
LEMMA ApplyKept ==
  ASSUME TypeInv, CreateInv, NEW r \in Request, pc[r] = "writing", Apply(r)
  PROVE  StoreKept
<1>0. ask[r] \in Ask /\ ask[r] # None /\ ask[r].kind # "create" /\ feedbacks \subseteq Feedback
  BY HandlerAssumption DEF TypeInv, TypeOK, Asked, Placed, Guarded
<1>1. \A f, g \in feedbacks : f.clientId = g.clientId => f = g
  BY DEF CreateInv, UniqueInv
<1>2. CASE ask[r].kind = "update"
  <2> DEFINE new(f) == [f EXCEPT !.status = ask[r].status]
  <2>1. \A f \in feedbacks : new(f).id = f.id /\ new(f).clientId = f.clientId /\ new(f).project = f.project
    BY <1>0 DEF Feedback
  <2>2. feedbacks' = (feedbacks \ Target(r)) \cup {new(f) : f \in Target(r)} /\ Target(r) \subseteq feedbacks
    BY <1>2 DEF Apply, Target
  <2> HIDE DEF new
  <2>3. \A f \in feedbacks' : \E g \in feedbacks :
          f.id = g.id /\ f.clientId = g.clientId /\ f.project = g.project /\ f = IF g \in Target(r) THEN new(g) ELSE g
    BY <2>1, <2>2
  <2>4. \A g \in feedbacks : \E f \in feedbacks' : f.id = g.id
    BY <2>1, <2>2
  <2>5. \A f, g \in feedbacks' : f.clientId = g.clientId => f = g
    BY <1>1, <2>3
  <2>6. QED BY <2>3, <2>4, <2>5 DEF StoreKept
<1>3. CASE ask[r].kind \in {"delete", "deleteAll"}
  <2>1. Deleting
    BY <1>0, <1>3 DEF Deleting
  <2>2. feedbacks' \subseteq feedbacks
    BY <1>3 DEF Apply
  <2>3. QED BY <1>1, <2>1, <2>2 DEF StoreKept
<1>4. CASE ask[r].kind \in {"createComment", "deleteComment"}
  <2>1. feedbacks' = feedbacks
    BY <1>4 DEF Apply
  <2>2. QED BY <1>1, <2>1 DEF StoreKept
<1>5. QED BY <1>0, <1>2, <1>3, <1>4 DEF Ask

\* A creation that settles keeps the invariant.
LEMMA SettleKeeps ==
  ASSUME TypeInv, CreateInv, NEW r \in Request, work[r] # "none", NEW state, NEW id, NEW project, NEW inserted \in BOOLEAN,
         Settle(r, state, id, project, inserted), UNCHANGED <<ask, joined, inflight, answer>>,
         \/ feedbacks' = feedbacks
         \/ /\ Stored(ask[r].clientId) = {} /\ feedbacks' = feedbacks \cup {NewFeedback(r)}
            /\ state = "failed" \/ (state = "resolved" /\ id = r),
         state = "resolved" => Answers(id, project, r)' /\ (inserted <=> id = r)
  PROVE  CreateInv'
<1>0. /\ work \in [Request -> {"none", "find", "insert"}] /\ outcome \in [Request -> Outcome]
      /\ \A f \in feedbacks : f.id \in Request
  BY DEF TypeInv, TypeOK, Feedback
<1>1. /\ work'[r] = "none" /\ outcome'[r].state = state /\ outcome'[r].id = id
      /\ outcome'[r].project = project /\ outcome'[r].inserted = inserted
      /\ \A s \in Request \ {r} : work'[s] = work[s] /\ outcome'[s] = outcome[s]
  BY <1>0 DEF Settle
<1>2. joined[r] = r /\ \A f \in feedbacks : f.id # r
  BY DEF CreateInv, RunningInv, FeedbackInv
<1>3. Deleting' = Deleting /\ feedbacks \subseteq feedbacks'
  BY DEF Deleting
<1>4. \A i, p, s : Answers(i, p, s) => Answers(i, p, s)'
  BY <1>3 DEF Answers
<1>5. JoinedInv' /\ InflightInv'
  BY DEF CreateInv, JoinedInv, InflightInv
<1>6. RunningInv'
  BY <1>1 DEF CreateInv, RunningInv
<1>7. OutcomeInv'
  <2>1. state = "resolved" => Resolved(r)'
    <3>1. (outcome[r].inserted)' <=> inserted
      BY <1>1
    <3>2. Answers(id, project, r)' => Answers(outcome[r].id, outcome[r].project, r)'
      BY <1>1
    <3>3. QED BY <1>1, <1>2, <3>1, <3>2 DEF Resolved
  <2>2. ASSUME NEW s \in Request \ {r}, outcome[s].state = "resolved" PROVE Resolved(s)'
    <3>1. outcome'[s] = outcome[s] /\ Resolved(s)
      BY <1>1, <2>2 DEF CreateInv, OutcomeInv
    <3>2. Answers(outcome[s].id, outcome[s].project, s)'
      BY <1>4, <3>1 DEF Resolved
    <3>3. QED BY <3>1, <3>2 DEF Resolved
  <2>3. QED BY <1>1, <2>1, <2>2 DEF OutcomeInv
<1>8. AnswerInv'
  BY <1>4 DEF CreateInv, AnswerInv, Accepted
<1>9. FeedbackInv'
  <2> SUFFICES ASSUME NEW f \in feedbacks'
               PROVE  /\ joined[f.id] = f.id /\ f.clientId = ask[f.id].clientId /\ f.project = ask[f.id].project
                      /\ work'[f.id] = "none" /\ outcome'[f.id].state \in {"resolved", "failed"}
                      /\ outcome'[f.id].state = "resolved" => outcome'[f.id].id = f.id
    BY DEF FeedbackInv
  <2>1. CASE f \in feedbacks
    BY <1>0, <1>1, <1>2, <2>1 DEF CreateInv, FeedbackInv
  <2>2. CASE f \notin feedbacks
    BY <1>1, <1>2, <2>2 DEF NewFeedback
  <2>3. QED BY <2>1, <2>2
<1>10. UniqueInv'
  BY DEF CreateInv, UniqueInv, Stored, NewFeedback
<1>11. QED BY <1>5, <1>6, <1>7, <1>8, <1>9, <1>10 DEF CreateInv

\* The answer to a creation, given a record that answers it, is well given.
LEMMA AnswerCreateWell ==
  ASSUME TypeInv, NEW r \in Request, NEW id, NEW project, NEW inserted, AnswerCreate(r, id, project, inserted),
         Answers(id, project, r), ask' = ask
  PROVE  AcceptedWell
<1>1. answer \in [Request -> Answer]
  BY DEF TypeInv, TypeOK
<1>2. \/ answer' = [answer EXCEPT ![r] = [code |-> "409", id |-> None]]
      \/ project = ask[r].project /\ answer' = [answer EXCEPT ![r] = [code |-> "201", id |-> id]]
      \/ answer' = [answer EXCEPT ![r] = [code |-> "500", id |-> None]]
  BY DEF AnswerCreate, Respond
<1>3. QED BY <1>1, <1>2 DEF AcceptedWell, Accepted

\* Before the first request no creation is under way.
LEMMA CreateInit == Init => CreateInv
  BY HandlerAssumption DEF Init, NoOutcome, CreateInv, JoinedInv, InflightInv, RunningInv, OutcomeInv, AnswerInv,
     FeedbackInv, UniqueInv, Accepted

\* What a request finds under its clientId answers it.
LEMMA StoredAnswers ==
  ASSUME TypeInv, CreateInv, NEW r \in Request, NEW f \in Stored(ask[r].clientId)
  PROVE  f.id \in Request /\ Answers(f.id, f.project, r)
<1>1. f \in feedbacks /\ f.clientId = ask[r].clientId /\ f.id \in Request
  BY DEF Stored, TypeInv, TypeOK, Feedback
<1>2. QED BY <1>1 DEF CreateInv, FeedbackInv, Answers

\* What settled answers everybody who joined.
LEMMA JoinedAnswers ==
  ASSUME TypeInv, CreateInv, NEW r \in Request, joined[r] # None, outcome[joined[r]].state = "resolved"
  PROVE  Answers(outcome[joined[r]].id, outcome[joined[r]].project, r)
<1>1. joined[r] \in Request /\ Answers(outcome[joined[r]].id, outcome[joined[r]].project, joined[r])
  BY DEF TypeInv, TypeOK, CreateInv, OutcomeInv, Resolved
<1>2. ask[joined[r]].clientId = ask[r].clientId
  BY DEF CreateInv, JoinedInv
<1>3. QED BY <1>1, <1>2 DEF Answers

\* No step breaks what holds of creations.
LEMMA CreateStep == TypeInv /\ CreateInv /\ [Next]_vars => CreateInv'
<1> SUFFICES ASSUME TypeInv, CreateInv, [Next]_vars PROVE CreateInv'
  OBVIOUS
<1>0. /\ work \in [Request -> {"none", "find", "insert"}] /\ outcome \in [Request -> Outcome]
      /\ joined \in [Request -> Request \cup {None}] /\ answer \in [Request -> Answer]
      /\ inflight \in [Instance -> [ClientId -> Request \cup {None}]]
      /\ \A f \in feedbacks : f.id \in Request
  BY DEF TypeInv, TypeOK, Feedback
<1>k. feedbacks' = feedbacks => StoreKept
  BY DEF CreateInv, UniqueInv, StoreKept
<1>w. answer' = answer => AcceptedWell
  BY DEF AcceptedWell
<1>c. UNCHANGED creation
        => /\ UNCHANGED <<joined, outcome>> /\ work' \in [Request -> {"none", "find", "insert"}]
           /\ \A s \in Request : work'[s] # "none" => work'[s] = work[s]
           /\ \A i \in Instance, k \in ClientId : inflight'[i][k] \in {inflight[i][k], None}
  BY <1>0 DEF creation
<1>r. ASSUME NEW r \in Request, NEW code \in Codes, NEW id, Respond(r, code, id), ask' = ask,
             code # "201" \/ ask[r].kind # "create"
      PROVE  AcceptedWell
  BY <1>0, <1>r DEF Respond, AcceptedWell, Accepted
<1>1. ASSUME NEW r \in Request, NEW i \in setting.instances, NEW a \in setting.asks, Receive(r, i, a) PROVE CreateInv'
  <2>1. /\ pc[r] = "new" /\ ask' = [ask EXCEPT ![r] = a]
        /\ UNCHANGED <<inflight, joined, work, outcome, feedbacks, answer>>
    BY <1>1 DEF Receive, Goto, creation, store
  <2>2. joined[r] = None /\ ask[r] = None /\ answer[r].code = "none" /\ \A s \in Request \ {r} : ask'[s] = ask[s]
    BY <2>1, <1>0 DEF TypeInv, TypeOK, Asked, Placed
  <2>3. ~Deleting' => ~Deleting
    BY <2>2 DEF Deleting
  <2>4. \A x \in Request : joined[x] # None => x # r /\ ask'[x] = ask[x]
    BY <2>2
  <2>5. \A id, p, s : s \in Request \ {r} /\ Answers(id, p, s) => Answers(id, p, s)'
    BY <2>1, <2>2, <2>3, <2>4, HandlerAssumption DEF Answers
  <2>6. JoinedInv'
    BY <1>0, <2>1, <2>4, HandlerAssumption DEF CreateInv, JoinedInv
  <2>7. InflightInv' /\ RunningInv'
    BY <1>0, <2>1, <2>4, HandlerAssumption DEF CreateInv, InflightInv, RunningInv
  <2>8. OutcomeInv'
    <3> SUFFICES ASSUME NEW o \in Request, outcome[o].state = "resolved" PROVE Resolved(o)'
      BY <2>1 DEF OutcomeInv
    <3>1. Resolved(o) /\ o \in Request \ {r}
      BY <2>4, HandlerAssumption DEF CreateInv, OutcomeInv, Resolved
    <3>2. Answers(outcome[o].id, outcome[o].project, o)'
      BY <2>1, <2>5, <3>1 DEF Resolved
    <3>3. QED BY <2>1, <3>1, <3>2 DEF Resolved
  <2>9. AnswerInv'
    <3> SUFFICES ASSUME NEW s \in Request, Accepted(s)' PROVE Answers(answer[s].id, ask[s].project, s)'
      BY DEF AnswerInv
    <3>1. s # r /\ Accepted(s) /\ ask'[s] = ask[s]
      BY <2>1, <2>2 DEF Accepted
    <3>2. Answers(answer[s].id, ask[s].project, s)
      BY <3>1 DEF CreateInv, AnswerInv
    <3>3. QED BY <2>1, <2>5, <3>1, <3>2
  <2>10. FeedbackInv' /\ UniqueInv'
    BY <1>0, <2>1, <2>4, HandlerAssumption DEF CreateInv, FeedbackInv, UniqueInv
  <2>11. QED BY <2>6, <2>7, <2>8, <2>9, <2>10 DEF CreateInv
<1>2. ASSUME NEW r \in Request, Authorize(r) PROVE CreateInv'
  <2>1. pc[r] = "received" /\ UNCHANGED <<ask, feedbacks>> /\ joined[r] = None
    BY <1>2 DEF Authorize, store, TypeInv, Placed
  <2>2. CASE UNCHANGED creation
    <3>1. answer' = answer \/ \E code \in {"403", "500"} : Respond(r, code, None)
      BY <1>2, <2>1, <2>2 DEF Authorize, JoinOrStart, Goto
    <3>2. QED BY <1>c, <1>k, <1>r, <1>w, <2>1, <2>2, <3>1, CreateFrame DEF Codes
  <2>3. CASE ask[r].kind = "create" /\ JoinOrStart(r)
    <3> DEFINE k == ask[r].clientId
               owner == inflight[at[r]][k]
    <3>1. at[r] \in Instance /\ k \in ClientId /\ owner \in Request \cup {None} /\ answer' = answer
      <4>1. ask[r] \in Ask /\ at[r] \in Instance
        BY <2>1 DEF TypeInv, Asked
      <4>2. k \in ClientId
        BY <2>3, <4>1 DEF Ask
      <4>3. QED BY <1>0, <2>3, <4>1, <4>2 DEF JoinOrStart, Goto
    <3>2. \A x \in Request : joined[x] # None => x # r
      BY <2>1
    <3>3. PICK o \in Request :
            /\ joined' = [joined EXCEPT ![r] = o]
            /\ o = r \/ (joined[o] = o /\ ask[o].clientId = k)
            /\ \/ UNCHANGED <<inflight, work, outcome>>
               \/ /\ o = r /\ inflight' = [inflight EXCEPT ![at[r]][k] = r]
                  /\ work' = [work EXCEPT ![r] = IF at[r] \in HasIfAbsent THEN "insert" ELSE "find"]
                  /\ outcome' = [outcome EXCEPT ![r].state = "running"]
      <4>1. CASE owner = None
        BY <2>3, <4>1 DEF JoinOrStart
      <4>2. CASE owner # None
        BY <2>3, <3>1, <4>2 DEF JoinOrStart, CreateInv, InflightInv
      <4>3. QED BY <4>1, <4>2
    <3> HIDE DEF k, owner
    <3>4. /\ joined'[r] = o /\ \A x \in Request \ {r} : joined'[x] = joined[x]
          /\ \A x \in Request \ {r} : work'[x] = work[x] /\ outcome'[x] = outcome[x]
          /\ outcome'[r] = outcome[r] \/ outcome'[r].state = "running"
          /\ work'[r] = work[r] \/ (o = r /\ outcome'[r].state = "running")
      BY <1>0, <3>3 DEF Outcome
    <3>5. Deleting' = Deleting
      BY <2>1 DEF Deleting
    <3>6. \A id, p, s : Answers(id, p, s) => Answers(id, p, s)'
      BY <2>1, <3>2, <3>4, <3>5, HandlerAssumption DEF Answers
    <3>7. JoinedInv'
      BY <1>0, <2>1, <3>2, <3>3, <3>4, HandlerAssumption DEF CreateInv, JoinedInv, k
    <3>8. InflightInv'
      <4> SUFFICES ASSUME NEW i \in Instance, NEW l \in ClientId, inflight'[i][l] # None
                   PROVE  joined'[inflight'[i][l]] = inflight'[i][l] /\ ask[inflight'[i][l]].clientId = l
        BY <2>1 DEF InflightInv
      <4>1. CASE inflight'[i][l] = inflight[i][l]
        BY <1>0, <3>2, <3>4, <4>1 DEF CreateInv, InflightInv
      <4>2. CASE inflight'[i][l] # inflight[i][l]
        <5>1. o = r /\ inflight'[i][l] = r /\ l = k
          BY <1>0, <3>1, <3>3, <4>2
        <5>2. QED BY <3>4, <5>1 DEF k
      <4>3. QED BY <4>1, <4>2
    <3>9. RunningInv'
      <4> SUFFICES ASSUME NEW s \in Request, work'[s] # "none" PROVE joined'[s] = s /\ outcome'[s].state = "running"
        BY DEF RunningInv
      <4>1. work[r] = "none"
        BY <2>1 DEF TypeInv, Placed
      <4>2. QED BY <3>4, <4>1 DEF CreateInv, RunningInv
    <3>10. OutcomeInv'
      <4> SUFFICES ASSUME NEW s \in Request, outcome'[s].state = "resolved" PROVE Resolved(s)'
        BY DEF OutcomeInv
      <4>1. s # r /\ outcome'[s] = outcome[s] /\ Resolved(s)
        BY <2>1, <3>4, HandlerAssumption DEF CreateInv, OutcomeInv, Resolved
      <4>2. Answers(outcome[s].id, outcome[s].project, s)'
        BY <3>6, <4>1 DEF Resolved
      <4>3. QED BY <3>4, <4>1, <4>2 DEF Resolved
    <3>11. AnswerInv'
      BY <2>1, <3>1, <3>6 DEF CreateInv, AnswerInv, Accepted
    <3>12. FeedbackInv' /\ UniqueInv'
      BY <1>0, <2>1, <3>2, <3>4, HandlerAssumption DEF CreateInv, FeedbackInv, UniqueInv
    <3>13. QED BY <3>7, <3>8, <3>9, <3>10, <3>11, <3>12 DEF CreateInv
  <2>4. QED BY <1>2, <2>2, <2>3 DEF Authorize
<1>3. ASSUME NEW r \in Request, Find(r) PROVE CreateInv'
  <2>1. work[r] = "find" /\ UNCHANGED <<ask, inflight, joined, feedbacks, answer>>
    BY <1>3 DEF Find
  <2>a. \A id, p, s : Answers(id, p, s)' <=> Answers(id, p, s)
    BY <2>1 DEF Answers, Deleting
  <2>2. ASSUME NEW f \in Stored(ask[r].clientId), Settle(r, "resolved", f.id, f.project, FALSE) PROVE CreateInv'
    <3>1. Answers(f.id, f.project, r)'
      BY <2>a, <2>2, StoredAnswers
    <3>2. f.id # r
      BY <2>1 DEF Stored, CreateInv, FeedbackInv
    <3>3. QED BY <2>1, <2>2, <3>1, <3>2, SettleKeeps
  <2>3. CASE Settle(r, "failed", None, None, FALSE)
    BY <2>1, <2>3, SettleKeeps
  <2>4. CASE work' = [work EXCEPT ![r] = "insert"] /\ UNCHANGED outcome
    <3>1. \A s \in Request : work'[s] # "none" => work[s] # "none"
      BY <1>0, <2>1, <2>4
    <3>2. JoinedInv' /\ InflightInv' /\ RunningInv' /\ AnswerInv' /\ UniqueInv'
      BY <2>1, <2>4, <2>a, <3>1 DEF CreateInv, JoinedInv, InflightInv, RunningInv, AnswerInv, Accepted, UniqueInv
    <3>3. OutcomeInv'
      BY <2>1, <2>4, <2>a DEF CreateInv, OutcomeInv, Resolved
    <3>4. FeedbackInv'
      BY <1>0, <2>1, <2>4 DEF CreateInv, FeedbackInv
    <3>5. QED BY <3>2, <3>3, <3>4 DEF CreateInv
  <2>5. QED BY <1>3, <2>2, <2>3, <2>4 DEF Find
<1>4. ASSUME NEW r \in Request, Insert(r) PROVE CreateInv'
  <2>1. work[r] = "insert" /\ UNCHANGED <<ask, inflight, joined, answer>>
    BY <1>4 DEF Insert
  <2>2. CASE /\ Stored(ask[r].clientId) = {} /\ feedbacks' = feedbacks \cup {NewFeedback(r)}
             /\ Settle(r, "resolved", r, ask[r].project, TRUE)
    <3>1. joined[r] = r /\ NewFeedback(r).id = r
      BY <2>1 DEF CreateInv, RunningInv, NewFeedback
    <3>2. Answers(r, ask[r].project, r)'
      BY <2>1, <2>2, <3>1 DEF Answers
    <3>3. QED BY <2>1, <2>2, <3>2, SettleKeeps
  <2>3. ASSUME feedbacks' = feedbacks, NEW f \in Stored(ask[r].clientId), Settle(r, "resolved", f.id, f.project, FALSE)
        PROVE  CreateInv'
    <3>1. Answers(f.id, f.project, r)' <=> Answers(f.id, f.project, r)
      BY <2>1, <2>3 DEF Answers, Deleting
    <3>2. f.id # r
      BY <2>1 DEF Stored, CreateInv, FeedbackInv
    <3>3. QED BY <2>1, <2>3, <3>1, <3>2, SettleKeeps, StoredAnswers
  <2>4. CASE feedbacks' = feedbacks /\ Settle(r, "duplicate", None, None, FALSE)
    BY <2>1, <2>4, SettleKeeps
  <2>5. QED BY <1>4, <2>2, <2>3, <2>4 DEF Insert
<1>5. ASSUME NEW r \in Request, InsertFails(r) PROVE CreateInv'
  <2>1. work[r] = "insert" /\ UNCHANGED <<ask, inflight, joined, answer>>
    BY <1>5 DEF InsertFails
  <2>2. CASE feedbacks' = feedbacks /\ \E e \in {"failed", "tooLong"} : Settle(r, e, None, None, FALSE)
    BY <2>1, <2>2, SettleKeeps
  <2>3. CASE /\ Stored(ask[r].clientId) = {} /\ feedbacks' = feedbacks \cup {NewFeedback(r)}
             /\ Settle(r, "failed", None, None, FALSE)
    BY <2>1, <2>3, SettleKeeps
  <2>4. QED BY <1>5, <2>2, <2>3 DEF InsertFails
<1>6. ASSUME NEW r \in Request, Resume(r) PROVE CreateInv'
  <2> DEFINE o == outcome[joined[r]]
  <2>1. pc[r] = "awaiting" /\ UNCHANGED <<ask, joined, work, outcome, feedbacks>> /\ joined[r] # None
    BY <1>6 DEF Resume, store, TypeInv, Placed
  <2>2. \A i \in Instance, k \in ClientId : inflight'[i][k] \in {inflight[i][k], None}
    BY <1>6, <2>1, ReleaseType DEF Resume
  <2>3. AcceptedWell
    <3>1. CASE o.state = "resolved" /\ AnswerCreate(r, o.id, o.project, o.inserted)
      BY <2>1, <3>1, JoinedAnswers, AnswerCreateWell
    <3>2. CASE answer' = answer
      BY <1>w, <3>2
    <3>3. CASE \E code \in {"422", "500"} : Respond(r, code, None)
      BY <1>r, <2>1, <3>3 DEF Codes
    <3>4. QED BY <1>6, <3>1, <3>2, <3>3 DEF Resume, Goto
  <2>4. QED BY <1>0, <1>k, <2>1, <2>2, <2>3, CreateFrame
<1>7. ASSUME NEW r \in Request, Lookup(r) PROVE CreateInv'
  <2>1. pc[r] = "lookup" /\ Release(r) /\ UNCHANGED <<ask, joined, work, outcome, feedbacks>>
    BY <1>7 DEF Lookup, store
  <2>2. \A i \in Instance, k \in ClientId : inflight'[i][k] \in {inflight[i][k], None}
    BY <2>1, ReleaseType
  <2>3. AcceptedWell
    <3>1. ASSUME NEW f \in Stored(ask[r].clientId), AnswerCreate(r, f.id, f.project, FALSE) PROVE AcceptedWell
      BY <2>1, <3>1, StoredAnswers, AnswerCreateWell
    <3>2. CASE Respond(r, "500", None)
      BY <1>r, <2>1, <3>2 DEF Codes
    <3>3. QED BY <1>7, <3>1, <3>2 DEF Lookup
  <2>4. QED BY <1>0, <1>k, <2>1, <2>2, <2>3, CreateFrame
<1>8. ASSUME NEW r \in Request, Verify(r) PROVE CreateInv'
  <2>1. UNCHANGED <<ask, feedbacks>> /\ UNCHANGED creation
    BY <1>8 DEF Verify, store
  <2>2. answer' = answer \/ \E code \in {"404", "500"} : Respond(r, code, None)
    BY <1>8 DEF Verify, Goto
  <2>3. QED BY <1>c, <1>k, <1>r, <1>w, <2>1, <2>2, CreateFrame DEF Codes
<1>9. ASSUME NEW r \in Request, OnDeleting(r) PROVE CreateInv'
  <2>1. UNCHANGED <<ask, feedbacks>> /\ UNCHANGED creation
    BY <1>9 DEF OnDeleting, store
  <2>2. answer' = answer \/ Respond(r, "502", None)
    BY <1>9 DEF OnDeleting, Goto
  <2>3. QED BY <1>c, <1>k, <1>r, <1>w, <2>1, <2>2, CreateFrame DEF Codes
<1>10. ASSUME NEW r \in Request, Write(r) PROVE CreateInv'
  <2>1. pc[r] = "writing" /\ ask[r].kind # "create" /\ UNCHANGED ask /\ UNCHANGED creation
    BY <1>10 DEF Write, TypeInv, Placed, Guarded
  <2>2. StoreKept
    BY <1>10, <1>k, <2>1, ApplyKept DEF Write, store
  <2>3. answer' = answer \/ \E code \in {"404", "201", "409"}, id \in Request \cup {None} : Respond(r, code, id)
    <3>1. \A m \in SameKey(r) : m.id \in Request
      BY DEF SameKey, TypeInv, TypeOK, Comment
    <3>2. QED BY <1>10, <3>1 DEF Write, Goto
  <2>4. QED BY <1>c, <1>r, <1>w, <2>1, <2>2, <2>3, CreateFrame DEF Codes
<1>11. ASSUME NEW r \in Request, WriteFails(r) PROVE CreateInv'
  <2>1. pc[r] = "writing" /\ UNCHANGED ask /\ UNCHANGED creation
    BY <1>11 DEF WriteFails
  <2>2. StoreKept
    BY <1>11, <1>k, <2>1, ApplyKept DEF WriteFails, store
  <2>3. \E code \in {"409", "422", "500"} : Respond(r, code, None)
    BY <1>11 DEF WriteFails
  <2>4. QED BY <1>c, <1>r, <2>1, <2>2, <2>3, CreateFrame DEF Codes
<1>12. ASSUME NEW r \in Request, Announce(r) PROVE CreateInv'
  <2>1. ask[r].kind # "create" /\ UNCHANGED <<ask, feedbacks>> /\ UNCHANGED creation
    BY <1>12 DEF Announce, store, TypeInv, Placed, Guarded
  <2>2. \E code \in {"201", "200", "500"}, id \in Request \cup {None} : Respond(r, code, id)
    BY <1>12 DEF Announce
  <2>3. QED BY <1>c, <1>k, <1>r, <2>1, <2>2, CreateFrame DEF Codes
<1>13. ASSUME NEW i \in Instance, Crash(i) PROVE CreateInv'
  <2>1. /\ work' = [s \in Request |-> IF at[s] = i THEN "none" ELSE work[s]]
        /\ inflight' = [inflight EXCEPT ![i] = [k \in ClientId |-> None]]
        /\ UNCHANGED <<ask, joined, outcome, feedbacks>>
    BY <1>13 DEF Crash, store
  <2>2. AcceptedWell
    BY <1>13 DEF Crash, AcceptedWell, Accepted
  <2>3. /\ work' \in [Request -> {"none", "find", "insert"}]
        /\ \A s \in Request : work'[s] # "none" => work'[s] = work[s]
        /\ \A j \in Instance, k \in ClientId : inflight'[j][k] \in {inflight[j][k], None}
    BY <1>0, <2>1
  <2>4. QED BY <1>k, <2>1, <2>2, <2>3, CreateFrame
<1>14. ASSUME UNCHANGED vars PROVE CreateInv'
  BY <1>c, <1>k, <1>w, <1>14, CreateFrame DEF vars, creation
<1>15. QED
  BY <1>1, <1>2, <1>3, <1>4, <1>5, <1>6, <1>7, <1>8, <1>9, <1>10, <1>11, <1>12, <1>13, <1>14 DEF Next, Serve

\* Whatever is raced, replayed, joined, crashed or failed, a request is accepted
\* with a record of its own project, and unless something is deleted all the
\* requests accepted under a clientId get the same one.
THEOREM ReplaysAnswered == Spec => []ReplaysAgree
<1>1. ASSUME CreateInv PROVE ReplaysAgree
  <2> SUFFICES ASSUME NEW r \in Request, Accepted(r)
               PROVE  /\ ask[answer[r].id].project = ask[r].project
                      /\ \A s \in Request : (Accepted(s) /\ ask[s].clientId = ask[r].clientId /\ ~Deleting)
                                               => answer[s].id = answer[r].id
    BY DEF ReplaysAgree
  <2>1. Answers(answer[r].id, ask[r].project, r)
    BY <1>1 DEF CreateInv, AnswerInv
  <2>2. ASSUME NEW s \in Request, Accepted(s), ask[s].clientId = ask[r].clientId, ~Deleting
        PROVE  answer[s].id = answer[r].id
    <3>1. Answers(answer[s].id, ask[s].project, s)
      BY <1>1, <2>2 DEF CreateInv, AnswerInv
    <3>2. PICK f \in feedbacks, g \in feedbacks : f.id = answer[r].id /\ g.id = answer[s].id
      BY <2>1, <2>2, <3>1 DEF Answers
    <3>3. f.clientId = ask[r].clientId /\ g.clientId = ask[s].clientId
      BY <1>1, <2>1, <3>1, <3>2 DEF CreateInv, FeedbackInv, Answers
    <3>4. QED BY <1>1, <2>2, <3>2, <3>3 DEF CreateInv, UniqueInv
  <2>3. QED BY <2>1, <2>2 DEF Answers
<1>2. QED BY TypeInit, TypeStep, CreateInit, CreateStep, <1>1, PTL DEF Spec

-----------------------------------------------------------------------------
(***************************************************************************)
(* Notifications of creations.                                             *)
(***************************************************************************)
Told(r) == Announcements("feedback.created", r)

\* A creation is announced once, as its request ends; and if the record it
\* inserted is the answer it gets, it was announced.
EventInv ==
  \A r \in Request :
    /\ Told(r) # {} => pc[r] = "done"
    /\ \A m, n \in Told(r) : m = n
    /\ answer[r] = [code |-> "201", id |-> r] /\ ask[r].kind = "create" => Told(r) # {}
    /\ pc[r] = "lookup" => outcome[joined[r]].state = "duplicate"

\* A notification is one announcement more, of one record.
LEMMA NotifyTold ==
  ASSUME events \in Seq(Event), NEW event, NEW id, Notify(event, id), NEW r
  PROVE  Told(r)' = IF event = "feedback.created" /\ id = r THEN Told(r) \cup {Len(events) + 1} ELSE Told(r)
<1> DEFINE new == [event |-> event, id |-> id]
<1>1. new.event = event /\ new.id = id
  OBVIOUS
<1>2. events' = Append(events, new)
  BY DEF Notify
<1> HIDE DEF new
<1>3. /\ Len(events) \in Nat /\ Len(events') = Len(events) + 1 /\ events'[Len(events) + 1] = new
      /\ \A n \in 1..Len(events) : events'[n] = events[n]
  BY <1>2
<1>4. 1..Len(events') = 1..Len(events) \cup {Len(events) + 1}
  BY <1>3
<1>5. \A n : n \in Told(r)' <=> n \in 1..Len(events') /\ events'[n].event = "feedback.created" /\ events'[n].id = r
  BY DEF Told, Announcements
<1>6. \A n : n \in Told(r) <=> n \in 1..Len(events) /\ events[n].event = "feedback.created" /\ events[n].id = r
  BY DEF Told, Announcements
<1>7. CASE event = "feedback.created" /\ id = r
  BY <1>1, <1>3, <1>4, <1>5, <1>6, <1>7
<1>8. CASE ~(event = "feedback.created" /\ id = r)
  BY <1>1, <1>3, <1>4, <1>5, <1>6, <1>8
<1>9. QED BY <1>7, <1>8

\* A step that announces no creation, and accepts none with the record it inserted.
LEMMA EventFrame ==
  ASSUME TypeInv, EventInv, \A r \in Request : Told(r)' = Told(r), \A r \in Request : pc[r] = "done" => pc'[r] = "done",
         \A r \in Request : answer'[r] = [code |-> "201", id |-> r] /\ ask'[r].kind = "create"
                              => answer'[r] = answer[r] /\ ask'[r] = ask[r],
         \A r \in Request : pc'[r] = "lookup" => \/ outcome'[joined'[r]].state = "duplicate"
                                                 \/ /\ pc[r] = "lookup" /\ joined'[r] = joined[r]
                                                    /\ outcome'[joined[r]] = outcome[joined[r]]
  PROVE  EventInv'
<1>1. ASSUME NEW r \in Request
      PROVE  /\ Told(r)' # {} => pc'[r] = "done"
             /\ \A m, n \in Told(r)' : m = n
             /\ answer'[r] = [code |-> "201", id |-> r] /\ ask'[r].kind = "create" => Told(r)' # {}
             /\ pc'[r] = "lookup" => outcome'[joined'[r]].state = "duplicate"
  BY DEF EventInv
<1>2. QED BY <1>1, Zenon DEF EventInv

\* Before the first request nothing is announced.
LEMMA EventInit == Init => EventInv
<1> SUFFICES ASSUME Init PROVE EventInv
  OBVIOUS
<1>1. events = <<>> /\ \A r \in Request : pc[r] = "new" /\ answer[r].code = "none"
  BY DEF Init
<1>2. \A r : Told(r) = {}
  BY <1>1 DEF Told, Announcements
<1>3. \A r \in Request : answer[r] # [code |-> "201", id |-> r]
  BY <1>1
<1>4. QED BY <1>1, <1>2, <1>3 DEF EventInv

\* The announcements follow the creations.
LEMMA EventStep == TypeInv /\ CreateInv /\ EventInv /\ [Next]_vars => EventInv'
<1> SUFFICES ASSUME TypeInv, CreateInv, EventInv, [Next]_vars PROVE EventInv'
  OBVIOUS
<1>0. /\ pc \in [Request -> Place] /\ answer \in [Request -> Answer] /\ outcome \in [Request -> Outcome]
      /\ joined \in [Request -> Request \cup {None}] /\ events \in Seq(Event)
  BY DEF TypeInv, TypeOK, Place
<1>e. events' = events => \A r \in Request : Told(r)' = Told(r)
  BY DEF Told, Announcements
\* A request that is in progress goes on, or is answered by a code that is not its record.
<1>g. ASSUME NEW r \in Request, NEW label \in Place \ {"lookup"}, Goto(r, label), pc[r] # "done",
             UNCHANGED <<ask, joined, outcome>>, \A s \in Request : Told(s)' = Told(s)
      PROVE  EventInv'
  <2>1. \A s \in Request : pc'[s] = pc[s] \/ (s = r /\ pc'[s] = label)
    BY <1>0, <1>g DEF Goto
  <2>2. QED BY <1>g, <2>1, EventFrame DEF Goto
<1>r. ASSUME NEW r \in Request, NEW code, NEW id, Respond(r, code, id),
             code # "201" \/ id # r \/ ask[r].kind # "create",
             UNCHANGED <<ask, joined, outcome>>, \A s \in Request : Told(s)' = Told(s)
      PROVE  EventInv'
  <2>1. \A s \in Request : \/ pc'[s] = pc[s] /\ answer'[s] = answer[s]
                           \/ s = r /\ pc'[s] = "done" /\ answer'[s] = [code |-> code, id |-> id]
    BY <1>0, <1>r DEF Respond
  <2>2. [code |-> code, id |-> id] = [code |-> "201", id |-> r] => code = "201" /\ id = r
    OBVIOUS
  <2>3. QED BY <1>r, <2>1, <2>2, EventFrame
\* The lookups under way hold what they were sent on with.
<1>s. ASSUME NEW r \in Request, work[r] # "none", NEW state, NEW id, NEW project, NEW inserted,
             Settle(r, state, id, project, inserted), UNCHANGED <<ask, pc, joined, answer, events>>
      PROVE  EventInv'
  <2>1. \A s \in Request \ {r} : outcome'[s] = outcome[s]
    BY <1>0, <1>s DEF Settle
  <2>2. outcome[r].state = "running"
    BY <1>s DEF CreateInv, RunningInv
  <2>3. ASSUME NEW s \in Request, pc'[s] = "lookup" PROVE outcome'[joined'[s]].state = "duplicate"
    <3>1. joined[s] \in Request /\ outcome[joined[s]].state = "duplicate"
      BY <1>0, <1>s, <2>3 DEF EventInv, TypeInv, Placed
    <3>2. QED BY <1>s, <2>1, <2>2, <3>1
  <2>4. QED BY <1>e, <1>s, <2>3, EventFrame
\* A creation is answered.
<1>a. ASSUME NEW r \in Request, pc[r] \in {"awaiting", "lookup"}, NEW id, NEW project, NEW inserted \in BOOLEAN,
             AnswerCreate(r, id, project, inserted), UNCHANGED <<ask, joined, outcome>>,
             IsOwner(r) /\ inserted => id = r,
             id = r /\ project = ask[r].project => IsOwner(r) /\ inserted
      PROVE  EventInv'
  <2>1. Told(r) = {}
    BY <1>a DEF EventInv
  <2>2. CASE IsOwner(r) /\ inserted /\ project = ask[r].project
    <3>1. Notify("feedback.created", r)
      BY <1>a, <2>2 DEF AnswerCreate
    <3>2. \A s \in Request \ {r} : Told(s)' = Told(s)
      BY <1>0, <3>1, NotifyTold
    <3>3. Told(r)' = {Len(events) + 1}
      BY <1>0, <2>1, <3>1, NotifyTold
    <3>4. PICK code : Respond(r, code, None) \/ Respond(r, code, id)
      BY <1>a DEF AnswerCreate
    <3>5. pc'[r] = "done" /\ \A s \in Request \ {r} : pc'[s] = pc[s] /\ answer'[s] = answer[s]
      BY <1>0, <3>4 DEF Respond
    <3>6. ASSUME NEW s \in Request
          PROVE  /\ Told(s)' # {} => pc'[s] = "done"
                 /\ \A m, n \in Told(s)' : m = n
                 /\ answer'[s] = [code |-> "201", id |-> s] /\ ask'[s].kind = "create" => Told(s)' # {}
                 /\ pc'[s] = "lookup" => outcome'[joined'[s]].state = "duplicate"
      <4>1. CASE s = r
        BY <3>3, <3>5, <4>1
      <4>2. CASE s # r
        BY <1>a, <3>2, <3>5, <4>2 DEF EventInv
      <4>3. QED BY <4>1, <4>2
    <3>7. QED BY <3>6, Zenon DEF EventInv
  <2>3. CASE ~(IsOwner(r) /\ inserted /\ project = ask[r].project)
    <3>1. events' = events
      BY <1>a, <2>3 DEF AnswerCreate
    <3>2. Respond(r, "409", None) \/ Respond(r, "500", None) \/ (project = ask[r].project /\ Respond(r, "201", id))
      BY <1>a DEF AnswerCreate
    <3>3. QED BY <1>a, <1>e, <1>r, <2>3, <3>1, <3>2
  <2>4. QED BY <2>2, <2>3
<1>1. ASSUME NEW r \in Request, NEW i \in setting.instances, NEW a \in setting.asks, Receive(r, i, a) PROVE EventInv'
  <2>1. /\ pc[r] = "new" /\ ask' = [ask EXCEPT ![r] = a] /\ pc' = [pc EXCEPT ![r] = "received"]
        /\ UNCHANGED <<joined, outcome, events, answer>>
    BY <1>1 DEF Receive, Goto, creation
  <2>2. answer[r].code = "none" /\ \A s \in Request \ {r} : ask'[s] = ask[s]
    BY <1>0, <2>1 DEF TypeInv, TypeOK, Asked
  <2>3. \A s \in Request \ {r} : pc'[s] = pc[s]
    BY <1>0, <2>1
  <2>4. answer[r] # [code |-> "201", id |-> r]
    BY <2>2
  <2>5. pc'[r] = "received"
    BY <1>0, <2>1
  <2>6. QED BY <1>e, <2>1, <2>2, <2>3, <2>4, <2>5, EventFrame
<1>2. ASSUME NEW r \in Request, Authorize(r) PROVE EventInv'
  <2>1. pc[r] = "received" /\ UNCHANGED <<ask, events>> /\ joined[r] = None
    BY <1>2 DEF Authorize, TypeInv, Placed
  <2>2. CASE UNCHANGED creation /\ (Respond(r, "403", None) \/ Respond(r, "500", None))
    BY <1>e, <1>r, <2>1, <2>2 DEF creation
  <2>3. CASE JoinOrStart(r)
    <3>1. pc' = [pc EXCEPT ![r] = "awaiting"] /\ answer' = answer
      BY <2>3 DEF JoinOrStart, Goto
    <3>2. \A s \in Request \ {r} : joined'[s] = joined[s] /\ outcome'[s] = outcome[s]
      BY <1>0, <2>3 DEF JoinOrStart
    <3>3. ASSUME NEW s \in Request, pc'[s] = "lookup" PROVE outcome'[joined'[s]].state = "duplicate"
      <4>1. s # r /\ pc[s] = "lookup"
        BY <1>0, <3>1, <3>3
      <4>2. joined[s] \in Request /\ joined[joined[s]] = joined[s] /\ outcome[joined[s]].state = "duplicate"
        BY <1>0, <4>1 DEF EventInv, TypeInv, Placed, CreateInv, JoinedInv
      <4>3. joined[s] # r
        BY <2>1, <4>2, HandlerAssumption
      <4>4. QED BY <3>2, <4>1, <4>2, <4>3
    <3>4. \A s \in Request : pc[s] = "done" => pc'[s] = "done"
      BY <1>0, <2>1, <3>1
    <3>5. QED BY <1>e, <2>1, <3>1, <3>3, <3>4, EventFrame
  <2>4. CASE UNCHANGED creation /\ Goto(r, IF Verified(r) THEN "verifying" ELSE AfterGuard(r))
    <3>1. (IF Verified(r) THEN "verifying" ELSE AfterGuard(r)) \in Place \ {"lookup"}
      BY DEF AfterGuard, Place
    <3>2. QED BY <1>e, <1>g, <2>1, <2>4, <3>1 DEF creation
  <2>5. QED BY <1>2, <2>2, <2>3, <2>4 DEF Authorize
<1>3. ASSUME NEW r \in Request, Find(r) PROVE EventInv'
  <2>1. work[r] = "find" /\ UNCHANGED <<ask, pc, joined, answer, events>>
    BY <1>3 DEF Find
  <2>2. CASE UNCHANGED outcome
    BY <1>e, <2>1, <2>2, EventFrame
  <2>3. CASE \E state, id, project, inserted : Settle(r, state, id, project, inserted)
    BY <1>s, <2>1, <2>3
  <2>4. QED BY <1>3, <2>2, <2>3 DEF Find
<1>4. ASSUME NEW r \in Request, Insert(r) \/ InsertFails(r) PROVE EventInv'
  <2>1. work[r] = "insert" /\ UNCHANGED <<ask, pc, joined, answer, events>>
    BY <1>4 DEF Insert, InsertFails
  <2>2. \E state, id, project, inserted : Settle(r, state, id, project, inserted)
    BY <1>4 DEF Insert, InsertFails
  <2>3. QED BY <1>s, <2>1, <2>2
<1>6. ASSUME NEW r \in Request, Resume(r) PROVE EventInv'
  <2> DEFINE o == outcome[joined[r]]
  <2>1. pc[r] = "awaiting" /\ UNCHANGED <<ask, joined, outcome>> /\ joined[r] \in Request
    BY <1>0, <1>6 DEF Resume, TypeInv, Placed
  <2>2. CASE o.state = "resolved" /\ AnswerCreate(r, o.id, o.project, o.inserted)
    <3>1. /\ Answers(o.id, o.project, joined[r]) /\ (o.inserted <=> o.id = joined[r])
          /\ o.inserted \in BOOLEAN
      BY <1>0, <2>1, <2>2 DEF CreateInv, OutcomeInv, Resolved, Outcome
    <3>2. IsOwner(r) /\ o.inserted => o.id = r
      BY <3>1 DEF IsOwner
    <3>3. o.id = r => IsOwner(r) /\ o.inserted
      <4>1. o.id = r => joined[r] = r
        BY <3>1 DEF Answers
      <4>2. QED BY <3>1, <4>1 DEF IsOwner
    <3> HIDE DEF o
    <3>4. QED BY <1>a, <2>1, <2>2, <3>1, <3>2, <3>3
  <2>3. CASE o.state = "duplicate" /\ Goto(r, "lookup") /\ UNCHANGED events
    <3>1. pc'[r] = "lookup" /\ answer' = answer /\ \A s \in Request \ {r} : pc'[s] = pc[s]
      BY <1>0, <2>3 DEF Goto
    <3>2. QED BY <1>e, <2>1, <2>3, <3>1, EventFrame
  <2>4. CASE \E code \in {"422", "500"} : Respond(r, code, None) /\ UNCHANGED events
    BY <1>e, <1>r, <2>1, <2>4
  <2>5. QED BY <1>6, <2>2, <2>3, <2>4 DEF Resume
<1>7. ASSUME NEW r \in Request, Lookup(r) PROVE EventInv'
  <2>1. pc[r] = "lookup" /\ UNCHANGED <<ask, joined, outcome>>
    BY <1>7 DEF Lookup
  <2>2. ASSUME NEW f \in Stored(ask[r].clientId), AnswerCreate(r, f.id, f.project, FALSE) PROVE EventInv'
    <3>1. f.id # r
      <4>1. outcome[joined[r]].state = "duplicate"
        BY <2>1 DEF EventInv
      <4>2. joined[f.id] = f.id /\ outcome[f.id].state \in {"resolved", "failed"}
        BY DEF Stored, CreateInv, FeedbackInv
      <4>3. QED BY <4>1, <4>2
    <3>2. QED BY <1>a, <2>1, <2>2, <3>1
  <2>3. CASE Respond(r, "500", None) /\ UNCHANGED events
    BY <1>e, <1>r, <2>1, <2>3
  <2>4. QED BY <1>7, <2>2, <2>3 DEF Lookup
<1>8. ASSUME NEW r \in Request, Verify(r) PROVE EventInv'
  <2>1. pc[r] = "verifying" /\ UNCHANGED <<ask, joined, outcome, events>> /\ AfterGuard(r) \in Place \ {"lookup"}
    BY <1>8 DEF Verify, creation, AfterGuard, Place
  <2>2. Goto(r, AfterGuard(r)) \/ Respond(r, "404", None) \/ Respond(r, "500", None)
    BY <1>8 DEF Verify
  <2>3. QED BY <1>e, <1>g, <1>r, <2>1, <2>2
<1>9. ASSUME NEW r \in Request, OnDeleting(r) PROVE EventInv'
  <2>1. pc[r] = "hook" /\ UNCHANGED <<ask, joined, outcome, events>>
    BY <1>9 DEF OnDeleting, creation
  <2>2. Goto(r, "writing") \/ Respond(r, "502", None)
    BY <1>9 DEF OnDeleting
  <2>3. QED BY <1>e, <1>g, <1>r, <2>1, <2>2 DEF Place
<1>10. ASSUME NEW r \in Request, Write(r) \/ WriteFails(r) PROVE EventInv'
  <2>1. pc[r] = "writing" /\ ask[r].kind # "create" /\ UNCHANGED <<ask, joined, outcome, events>>
    BY <1>10 DEF Write, WriteFails, creation, TypeInv, Placed, Guarded
  <2>2. Goto(r, "written") \/ \E code, id : Respond(r, code, id)
    BY <1>10 DEF Write, WriteFails
  <2>3. QED BY <1>e, <1>g, <1>r, <2>1, <2>2 DEF Place
<1>12. ASSUME NEW r \in Request, Announce(r) PROVE EventInv'
  <2>1. pc[r] = "written" /\ ask[r] \in Ask /\ ask[r].kind # "create" /\ UNCHANGED <<ask, joined, outcome>>
    BY <1>12 DEF Announce, creation, TypeInv, Asked, Placed, Guarded
  <2>2. \E code, id : Respond(r, code, id)
    BY <1>12 DEF Announce
  <2>3. \/ events' = events
        \/ \E event \in {"feedback.status_changed", "feedback.deleted", "comment.created"} : \E id : Notify(event, id)
    BY <1>12, <2>1 DEF Announce, Ask
  <2>4. \A s \in Request : Told(s)' = Told(s)
    BY <1>0, <1>e, <2>3, NotifyTold
  <2>5. QED BY <1>r, <2>1, <2>2, <2>4
<1>13. ASSUME NEW i \in Instance, Crash(i) PROVE EventInv'
  <2> DEFINE lost == [code |-> "lost", id |-> None]
  <2>1. /\ \A s \in Request : \/ pc'[s] = pc[s] /\ answer'[s] = answer[s]
                              \/ pc'[s] = "done" /\ answer'[s] = lost
        /\ UNCHANGED <<ask, joined, outcome, events>>
    BY <1>13 DEF Crash
  <2>2. \A s : lost # [code |-> "201", id |-> s]
    OBVIOUS
  <2> HIDE DEF lost
  <2>3. QED BY <1>e, <2>1, <2>2, EventFrame
<1>14. ASSUME UNCHANGED vars PROVE EventInv'
  BY <1>e, <1>14, EventFrame DEF vars
<1>15. QED
  BY <1>1, <1>2, <1>3, <1>4, <1>6, <1>7, <1>8, <1>9, <1>10, <1>12, <1>13, <1>14 DEF Next, Serve

\* The side effects of a creation run at most once, in whatever instance and
\* however often it is replayed, joined or raced, and before the request that
\* inserted the record is answered with it.
THEOREM AnnouncedOnce == Spec => []CreatedOnce
<1>1. ASSUME EventInv PROVE CreatedOnce
  <2> SUFFICES ASSUME NEW r \in Request
               PROVE  /\ Cardinality(Told(r)) <= 1
                      /\ answer[r] = [code |-> "201", id |-> r] /\ ask[r].kind = "create" => Told(r) # {}
    BY DEF CreatedOnce, Told
  <2>1. CASE Told(r) = {}
    BY <1>1, <2>1, FS_EmptySet DEF EventInv
  <2>2. CASE Told(r) # {}
    <3>1. PICK n : n \in Told(r)
      BY <2>2
    <3>2. \A m \in Told(r) : m = n
      BY <1>1, <3>1 DEF EventInv
    <3>3. Told(r) = {n}
      BY <3>1, <3>2
    <3>4. Cardinality({n}) = 1
      BY FS_Singleton
    <3>5. QED BY <2>2, <3>3, <3>4
  <2>3. QED BY <2>1, <2>2
<1>2. QED BY TypeInit, TypeStep, CreateInit, CreateStep, EventInit, EventStep, <1>1, PTL DEF Spec

-----------------------------------------------------------------------------
(***************************************************************************)
(* Creations awaited.                                                      *)
(***************************************************************************)
\* The creation of o has settled, or has its next call of the store to make.
Going(o) == outcome[o].state \notin {"none", "running"} \/ (outcome[o].state = "running" /\ work[o] # "none")

\* The creation a request joined is one of its own instance, and is going on as long as the request awaits it; and the map
\* of an instance holds creations whose owner is still to leave it.
AwaitedInv ==
  /\ \A r \in Request : joined[r] # None => at[joined[r]] = at[r]
  /\ \A r \in Request : pc[r] = "awaiting" => Going(joined[r])
  /\ \A i \in Instance, k \in ClientId :
       inflight[i][k] # None => at[inflight[i][k]] = i /\ pc[inflight[i][k]] \in {"awaiting", "lookup"}

\* What a step that starts no creation keeps.
LEMMA AwaitedFrame ==
  ASSUME TypeInv, CreateInv, AwaitedInv, joined' = joined, \A s \in Request : joined[s] # None => at'[s] = at[s],
         \A s \in Request : pc'[s] = "awaiting" => pc[s] = "awaiting" /\ (Going(joined[s]) => Going(joined[s])'),
         \A i \in Instance, k \in ClientId : inflight'[i][k] # None =>
           inflight'[i][k] = inflight[i][k] /\ pc'[inflight[i][k]] \in {"awaiting", "lookup"}
  PROVE  AwaitedInv'
<1>0. joined \in [Request -> Request \cup {None}] /\ inflight \in [Instance -> [ClientId -> Request \cup {None}]]
  BY DEF TypeInv, TypeOK
<1>1. ASSUME NEW r \in Request, joined'[r] # None PROVE at'[joined'[r]] = at'[r]
  <2>1. joined[r] \in Request /\ joined[joined[r]] = joined[r] /\ joined[r] # None
    BY <1>0, <1>1 DEF CreateInv, JoinedInv
  <2>2. QED BY <2>1 DEF AwaitedInv
<1>2. ASSUME NEW r \in Request, pc'[r] = "awaiting" PROVE Going(joined[r])'
  BY <1>2 DEF AwaitedInv
<1>3. ASSUME NEW i \in Instance, NEW k \in ClientId, inflight'[i][k] # None
      PROVE  at'[inflight'[i][k]] = i /\ pc'[inflight'[i][k]] \in {"awaiting", "lookup"}
  <2>1. /\ inflight'[i][k] = inflight[i][k] /\ inflight[i][k] \in Request /\ inflight[i][k] # None
        /\ pc'[inflight[i][k]] \in {"awaiting", "lookup"}
    BY <1>0, <1>3
  <2>2. joined[inflight[i][k]] # None
    BY <2>1 DEF CreateInv, InflightInv
  <2>3. QED BY <2>1, <2>2 DEF AwaitedInv
<1>4. QED BY <1>1, <1>2, <1>3, Zenon DEF AwaitedInv

\* Before the first request nobody awaits anything.
LEMMA AwaitedInit == Init => AwaitedInv
  BY DEF Init, AwaitedInv

\* Whatever settles, joins, fails or crashes, nobody awaits a creation that is not going on.
LEMMA AwaitedStep == TypeInv /\ CreateInv /\ EventInv /\ AwaitedInv /\ [Next]_vars => AwaitedInv'
<1> SUFFICES ASSUME TypeInv, CreateInv, EventInv, AwaitedInv, [Next]_vars PROVE AwaitedInv'
  OBVIOUS
<1>0. /\ pc \in [Request -> Place] /\ outcome \in [Request -> Outcome] /\ work \in [Request -> {"none", "find", "insert"}]
      /\ joined \in [Request -> Request \cup {None}] /\ inflight \in [Instance -> [ClientId -> Request \cup {None}]]
      /\ at \in [Request -> Instance \cup {None}] /\ answer \in [Request -> Answer]
  BY DEF TypeInv, TypeOK, Place
\* A request that awaits no creation goes on to something else.
<1>g. ASSUME NEW r \in Request, pc[r] \notin {"awaiting", "lookup"}, UNCHANGED creation, \A s \in Request \ {r} : pc'[s] = pc[s],
             pc'[r] # "awaiting", \A s \in Request : joined[s] # None => at'[s] = at[s]
      PROVE  AwaitedInv'
  <2>1. UNCHANGED <<inflight, joined, work, outcome>>
    BY <1>g DEF creation
  <2>2. ASSUME NEW i \in Instance, NEW k \in ClientId, inflight[i][k] # None PROVE pc'[inflight[i][k]] \in {"awaiting", "lookup"}
    <3>1. inflight[i][k] \in Request /\ pc[inflight[i][k]] \in {"awaiting", "lookup"}
      BY <1>0, <2>2 DEF AwaitedInv
    <3>2. QED BY <1>g, <3>1
  <2>3. \A s \in Request : pc'[s] = "awaiting" => pc[s] = "awaiting" /\ (Going(joined[s]) => Going(joined[s])')
    BY <1>g, <2>1 DEF Going
  <2>4. QED BY <1>g, <2>1, <2>2, <2>3, AwaitedFrame
<1>m. ASSUME NEW r \in Request, \/ \E label \in Place : Goto(r, label) /\ label # "awaiting"
             \/ \E code, id : Respond(r, code, id)
      PROVE  pc'[r] # "awaiting" /\ \A s \in Request \ {r} : pc'[s] = pc[s]
  BY <1>0, <1>m DEF Goto, Respond
\* A creation makes its next call, or settles.
<1>s. ASSUME NEW r \in Request, UNCHANGED <<at, pc, inflight, joined>>,
             \/ UNCHANGED outcome /\ work' = [work EXCEPT ![r] = "insert"]
             \/ \E state \in {"resolved", "duplicate", "tooLong", "failed"} : \E id, project, inserted : Settle(r, state, id, project, inserted)
      PROVE  AwaitedInv'
  <2>1. \A o \in Request : Going(o) => Going(o)'
    <3>1. CASE UNCHANGED outcome /\ work' = [work EXCEPT ![r] = "insert"]
      BY <1>0, <3>1 DEF Going
    <3>2. ASSUME NEW state \in {"resolved", "duplicate", "tooLong", "failed"}, NEW id, NEW project, NEW inserted,
                 Settle(r, state, id, project, inserted)
          PROVE  \A o \in Request : Going(o) => Going(o)'
      <4>1. outcome'[r].state = state /\ \A o \in Request \ {r} : outcome'[o] = outcome[o] /\ work'[o] = work[o]
        BY <1>0, <3>2 DEF Settle
      <4>2. QED BY <4>1 DEF Going
    <3>3. QED BY <1>s, <3>1, <3>2
  <2>2. \A s \in Request : pc[s] = "awaiting" => joined[s] \in Request
    BY <1>0 DEF TypeInv, Placed
  <2>3. \A i \in Instance, k \in ClientId : inflight[i][k] # None => pc[inflight[i][k]] \in {"awaiting", "lookup"}
    BY DEF AwaitedInv
  <2>4. QED BY <1>s, <2>1, <2>2, <2>3, AwaitedFrame
\* A request leaves the creation it awaited, and the map if it is the owner.
<1>a. ASSUME NEW r \in Request, pc[r] \in {"awaiting", "lookup"}, Release(r), \E code, id : Respond(r, code, id),
             UNCHANGED <<at, joined, work, outcome>>
      PROVE  AwaitedInv'
  <2>1. pc'[r] = "done" /\ \A s \in Request \ {r} : pc'[s] = pc[s]
    BY <1>0, <1>a DEF Respond
  <2>2. ASSUME NEW i \in Instance, NEW k \in ClientId, inflight'[i][k] # None
        PROVE  inflight'[i][k] = inflight[i][k] /\ pc'[inflight[i][k]] \in {"awaiting", "lookup"}
    <3>1. inflight'[i][k] = inflight[i][k]
      BY <1>a, <2>2, ReleaseType
    <3>2. /\ inflight[i][k] \in Request /\ joined[inflight[i][k]] = inflight[i][k] /\ ask[inflight[i][k]].clientId = k
          /\ at[inflight[i][k]] = i /\ pc[inflight[i][k]] \in {"awaiting", "lookup"}
      BY <1>0, <2>2, <3>1 DEF AwaitedInv, CreateInv, InflightInv
    <3>3. inflight[i][k] # r
      BY <1>0, <1>a, <2>2, <3>2 DEF Release, IsOwner
    <3>4. QED BY <2>1, <3>1, <3>2, <3>3
  <2>3. \A s \in Request : pc'[s] = "awaiting" => pc[s] = "awaiting" /\ (Going(joined[s]) => Going(joined[s])')
    BY <1>a, <2>1 DEF Going
  <2>4. QED BY <1>a, <2>2, <2>3, AwaitedFrame
<1>1. ASSUME NEW r \in Request, NEW i \in setting.instances, NEW b \in setting.asks, Receive(r, i, b) PROVE AwaitedInv'
  <2>1. pc[r] = "new" /\ Goto(r, "received") /\ at' = [at EXCEPT ![r] = i] /\ UNCHANGED creation
    BY <1>1 DEF Receive
  <2>2. joined[r] = None
    BY <2>1 DEF TypeInv, Placed
  <2>3. \A s \in Request : joined[s] # None => at'[s] = at[s]
    BY <1>0, <2>1, <2>2
  <2>4. pc'[r] = "received" /\ \A s \in Request \ {r} : pc'[s] = pc[s]
    BY <1>0, <2>1 DEF Goto
  <2>5. QED BY <1>g, <2>1, <2>3, <2>4
<1>2. ASSUME NEW r \in Request, Authorize(r) PROVE AwaitedInv'
  <2>1. pc[r] = "received" /\ at' = at /\ joined[r] = None /\ at[r] \in Instance
    BY <1>2 DEF Authorize, TypeInv, Asked, Placed
  <2>2. CASE ask[r].kind = "create" /\ JoinOrStart(r)
    <3>1. pc'[r] = "awaiting" /\ \A s \in Request \ {r} : pc'[s] = pc[s]
      BY <1>0, <2>2 DEF JoinOrStart, Goto
    <3>2. \A s \in Request : joined[s] # r
      BY <2>1, HandlerAssumption DEF CreateInv, JoinedInv
    <3>3. ask[r].clientId \in ClientId
      BY <2>1, <2>2 DEF TypeInv, Asked, Ask
    <3> DEFINE k == ask[r].clientId
               owner == inflight[at[r]][k]
    <3>4. CASE owner = None
      <4>1. /\ inflight' = [inflight EXCEPT ![at[r]][k] = r] /\ joined' = [joined EXCEPT ![r] = r]
            /\ work' = [work EXCEPT ![r] = IF at[r] \in HasIfAbsent THEN "insert" ELSE "find"]
            /\ outcome' = [outcome EXCEPT ![r].state = "running"]
        BY <2>2, <3>4 DEF JoinOrStart
      <4>2. joined'[r] = r /\ Going(r)' /\ \A s \in Request \ {r} : joined'[s] = joined[s] /\ (Going(s) => Going(s)')
        BY <1>0, <4>1 DEF Going, Outcome
      <4>3. \A s \in Request : joined'[s] # None => at[joined'[s]] = at[s]
        BY <4>2 DEF AwaitedInv
      <4>4. ASSUME NEW s \in Request, pc'[s] = "awaiting" PROVE Going(joined[s])'
        <5>1. CASE s = r
          BY <4>2, <5>1 DEF Going
        <5>2. CASE s # r
          <6>1. pc[s] = "awaiting" /\ joined[s] \in Request \ {r} /\ joined'[s] = joined[s]
            BY <1>0, <3>1, <3>2, <4>2, <4>4, <5>2 DEF TypeInv, Placed
          <6>2. PICK o \in Request \ {r} : o = joined[s] /\ o = joined'[s] /\ Going(o)
            BY <6>1 DEF AwaitedInv
          <6>3. Going(o)'
            BY <4>2, <6>2
          <6>4. QED BY <6>2, <6>3 DEF Going
        <5>3. QED BY <5>1, <5>2
      <4>5. ASSUME NEW i \in Instance, NEW c \in ClientId, inflight'[i][c] # None
            PROVE  at[inflight'[i][c]] = i /\ pc'[inflight'[i][c]] \in {"awaiting", "lookup"}
        <5>1. CASE i = at[r] /\ c = k
          BY <1>0, <2>1, <3>1, <3>3, <4>1, <5>1
        <5>2. CASE ~(i = at[r] /\ c = k)
          <6>1. inflight'[i][c] = inflight[i][c]
            BY <1>0, <4>1, <5>2
          <6>2. inflight[i][c] \in Request /\ at[inflight[i][c]] = i /\ pc[inflight[i][c]] \in {"awaiting", "lookup"}
            BY <1>0, <4>5, <6>1 DEF AwaitedInv
          <6>3. QED BY <2>1, <3>1, <6>1, <6>2
        <5>3. QED BY <5>1, <5>2
      <4>6. \A s \in Request : joined'[s] # None => at'[joined'[s]] = at'[s]
        BY <2>1, <4>3
      <4>7. ASSUME NEW i \in Instance, NEW c \in ClientId, inflight'[i][c] # None
            PROVE  at'[inflight'[i][c]] = i /\ pc'[inflight'[i][c]] \in {"awaiting", "lookup"}
        BY <2>1, <4>5, <4>7
      <4>8. QED BY <4>4, <4>6, <4>7, Zenon DEF AwaitedInv
    <3>5. CASE owner # None
      <4>1. joined' = [joined EXCEPT ![r] = owner] /\ UNCHANGED <<inflight, work, outcome>>
        BY <2>2, <3>5 DEF JoinOrStart
      <4>2. /\ owner \in Request /\ joined[owner] = owner /\ at[owner] = at[r] /\ pc[owner] \in {"awaiting", "lookup"}
        BY <1>0, <2>1, <3>3, <3>5 DEF AwaitedInv, CreateInv, InflightInv
      <4>3. Going(owner)
        <5>1. CASE pc[owner] = "awaiting"
          <6>1. Going(joined[owner])
            BY <4>2, <5>1 DEF AwaitedInv
          <6>2. QED BY <4>2, <6>1
        <5>2. CASE pc[owner] = "lookup"
          <6>1. outcome[owner].state = "duplicate"
            BY <4>2, <5>2 DEF EventInv
          <6>2. QED BY <6>1 DEF Going
        <5>3. QED BY <4>2, <5>1, <5>2
      <4>4. joined'[r] = owner /\ \A s \in Request \ {r} : joined'[s] = joined[s]
        BY <1>0, <4>1
      <4>5. \A s \in Request : joined'[s] # None => at[joined'[s]] = at[s]
        BY <4>2, <4>4 DEF AwaitedInv
      <4>6. ASSUME NEW s \in Request, pc'[s] = "awaiting" PROVE Going(joined[s])'
        <5>1. PICK o : o = joined'[s] /\ Going(o)
          <6>1. CASE s = r
            BY <4>3, <4>4, <6>1
          <6>2. CASE s # r
            BY <3>1, <4>4, <4>6, <6>2 DEF AwaitedInv
          <6>3. QED BY <6>1, <6>2
        <5>2. QED BY <4>1, <5>1 DEF Going
      <4>7. ASSUME NEW i \in Instance, NEW c \in ClientId, inflight[i][c] # None
            PROVE  at[inflight[i][c]] = i /\ pc'[inflight[i][c]] \in {"awaiting", "lookup"}
        <5>1. inflight[i][c] \in Request /\ at[inflight[i][c]] = i /\ pc[inflight[i][c]] \in {"awaiting", "lookup"}
          BY <1>0, <4>7 DEF AwaitedInv
        <5>2. QED BY <2>1, <3>1, <5>1
      <4>8. \A s \in Request : joined'[s] # None => at'[joined'[s]] = at'[s]
        BY <2>1, <4>5
      <4>9. ASSUME NEW i \in Instance, NEW c \in ClientId, inflight'[i][c] # None
            PROVE  at'[inflight'[i][c]] = i /\ pc'[inflight'[i][c]] \in {"awaiting", "lookup"}
        BY <2>1, <4>1, <4>7, <4>9
      <4>10. QED BY <4>6, <4>8, <4>9, Zenon DEF AwaitedInv
    <3>6. QED BY <3>4, <3>5
  <2>3. CASE /\ UNCHANGED creation
             /\ \/ Respond(r, "403", None) \/ Respond(r, "500", None)
                \/ Goto(r, IF Verified(r) THEN "verifying" ELSE AfterGuard(r))
    <3>1. (IF Verified(r) THEN "verifying" ELSE AfterGuard(r)) \in Place \ {"awaiting"}
      BY DEF AfterGuard, Place
    <3>2. pc'[r] # "awaiting" /\ \A s \in Request \ {r} : pc'[s] = pc[s]
      BY <1>m, <2>3, <3>1
    <3>3. QED BY <1>g, <2>1, <2>3, <3>2
  <2>4. QED BY <1>2, <2>2, <2>3 DEF Authorize
<1>3. ASSUME NEW r \in Request, Find(r) PROVE AwaitedInv'
  BY <1>3, <1>s DEF Find
<1>4. ASSUME NEW r \in Request, Insert(r) \/ InsertFails(r) PROVE AwaitedInv'
  BY <1>4, <1>s DEF Insert, InsertFails
<1>6. ASSUME NEW r \in Request, Resume(r) PROVE AwaitedInv'
  <2>1. pc[r] = "awaiting" /\ UNCHANGED <<at, joined, work, outcome>>
    BY <1>6 DEF Resume
  <2>2. CASE Release(r) /\ \E code, id : Respond(r, code, id)
    BY <1>a, <2>1, <2>2
  <2>3. CASE outcome[joined[r]].state = "duplicate" /\ Goto(r, "lookup") /\ UNCHANGED inflight
    <3>1. pc'[r] = "lookup" /\ \A s \in Request \ {r} : pc'[s] = pc[s]
      BY <1>0, <2>3 DEF Goto
    <3>2. \A i \in Instance, k \in ClientId : inflight[i][k] # None => inflight[i][k] \in Request /\ pc[inflight[i][k]] \in {"awaiting", "lookup"}
      BY <1>0 DEF AwaitedInv
    <3>3. \A i \in Instance, k \in ClientId : inflight[i][k] # None => pc'[inflight[i][k]] \in {"awaiting", "lookup"}
      BY <3>1, <3>2
    <3>4. \A s \in Request : pc'[s] = "awaiting" => pc[s] = "awaiting" /\ (Going(joined[s]) => Going(joined[s])')
      BY <2>1, <3>1 DEF Going
    <3>5. QED BY <2>1, <2>3, <3>3, <3>4, AwaitedFrame
  <2>4. QED BY <1>6, <2>2, <2>3 DEF Resume, AnswerCreate
<1>7. ASSUME NEW r \in Request, Lookup(r) PROVE AwaitedInv'
  <2>1. pc[r] = "lookup" /\ UNCHANGED <<at, joined, work, outcome>> /\ Release(r) /\ \E code, id : Respond(r, code, id)
    BY <1>7 DEF Lookup, AnswerCreate
  <2>2. QED BY <1>a, <2>1
<1>8. ASSUME NEW r \in Request, Verify(r) \/ OnDeleting(r) \/ Write(r) \/ WriteFails(r) \/ Announce(r) PROVE AwaitedInv'
  <2>1. pc[r] \in {"verifying", "hook", "writing", "written"} /\ at' = at /\ UNCHANGED creation
    BY <1>8 DEF Verify, OnDeleting, Write, WriteFails, Announce
  <2>2. AfterGuard(r) \in {"hook", "writing"}
    BY DEF AfterGuard
  <2>3. (\E label \in {"hook", "writing", "written"} : Goto(r, label)) \/ (\E code, id : Respond(r, code, id))
    BY <1>8, <2>2 DEF Verify, OnDeleting, Write, WriteFails, Announce
  <2>4. pc'[r] # "awaiting" /\ \A s \in Request \ {r} : pc'[s] = pc[s]
    BY <1>m, <2>3 DEF Place
  <2>5. QED BY <1>g, <2>1, <2>4
<1>9. ASSUME NEW i \in Instance, Crash(i) PROVE AwaitedInv'
  <2>1. /\ \A s \in Request : at[s] = i => pc'[s] = "done"
        /\ \A s \in Request : at[s] # i => pc'[s] = pc[s] /\ work'[s] = work[s]
        /\ inflight' = [inflight EXCEPT ![i] = [k \in ClientId |-> None]] /\ UNCHANGED <<at, joined, outcome>>
    BY <1>9 DEF Crash
  <2>2. ASSUME NEW s \in Request, pc'[s] = "awaiting" PROVE pc[s] = "awaiting" /\ (Going(joined[s]) => Going(joined[s])')
    <3>1. at[s] # i /\ pc[s] = "awaiting"
      BY <2>1, <2>2
    <3>2. joined[s] \in Request /\ at[joined[s]] # i
      BY <1>0, <3>1 DEF TypeInv, Placed, AwaitedInv
    <3>3. QED BY <2>1, <3>1, <3>2 DEF Going
  <2>3. ASSUME NEW j \in Instance, NEW k \in ClientId, inflight'[j][k] # None
        PROVE  inflight'[j][k] = inflight[j][k] /\ pc'[inflight[j][k]] \in {"awaiting", "lookup"}
    <3>1. j # i /\ inflight'[j][k] = inflight[j][k]
      BY <1>0, <2>1, <2>3
    <3>2. inflight[j][k] \in Request /\ at[inflight[j][k]] = j /\ pc[inflight[j][k]] \in {"awaiting", "lookup"}
      BY <1>0, <2>3, <3>1 DEF AwaitedInv
    <3>3. QED BY <2>1, <3>1, <3>2
  <2>4. QED BY <2>1, <2>2, <2>3, AwaitedFrame
<1>10. ASSUME UNCHANGED vars PROVE AwaitedInv'
  <2>1. UNCHANGED <<at, pc, inflight, joined, work, outcome>>
    BY <1>10 DEF vars
  <2>2. QED BY <2>1 DEF AwaitedInv, Going
<1>11. QED
  BY <1>1, <1>2, <1>3, <1>4, <1>6, <1>7, <1>8, <1>9, <1>10 DEF Next, Serve

\* A request never awaits a creation that is not going on: the one it joined is of its own process, and has settled or has
\* its next call of the store to make; and no creation stays in a process's map once its owner is through, answered, failed
\* or dead (server/operations/create-feedback.ts, whose joiners share the owner's promise).
THEOREM AwaitedGoesOn == Spec => []AwaitedInv
  BY TypeInit, TypeStep, CreateInit, CreateStep, EventInit, EventStep, AwaitedInit, AwaitedStep, PTL DEF Spec

-----------------------------------------------------------------------------
(***************************************************************************)
(* Projects.                                                               *)
(***************************************************************************)
\* What a request addresses by id was created, in the project it names.
Scoped(r) ==
  ask[r].kind \in {"update", "delete", "createComment", "deleteComment"}
    => joined[ask[r].id] # None /\ ask[ask[r].id].project = ask[r].project

\* The cross-project guard is passed before a request gets to write.
GuardInv == \A r \in Request : pc[r] \in {"hook", "writing"} => Scoped(r)

\* A creation never becomes another one's, so what was scoped remains so.
LEMMA GuardFrame ==
  ASSUME TypeInv, GuardInv, \A s \in Request : pc[s] # "new" => ask'[s] = ask[s],
         \A s \in Request : joined[s] # None => joined'[s] = joined[s],
         \A s \in Request : pc'[s] \in {"hook", "writing"} => pc[s] \notin {"new", "done"} /\ (pc[s] \in {"hook", "writing"} \/ Scoped(s))
  PROVE  GuardInv'
<1> SUFFICES ASSUME NEW r \in Request, pc'[r] \in {"hook", "writing"} PROVE Scoped(r)'
  BY DEF GuardInv
<1>1. Scoped(r) /\ ask'[r] = ask[r] /\ ask[r] \in Ask
  BY DEF GuardInv, TypeInv, Asked
<1>2. CASE ask[r].kind \in {"update", "delete", "createComment", "deleteComment"}
  <2>1. ask[r].id \in Request
    BY <1>1, <1>2 DEF Ask
  <2>2. joined[ask[r].id] # None /\ ask[ask[r].id].project = ask[r].project
    BY <1>1, <1>2 DEF Scoped
  <2>3. pc[ask[r].id] # "new"
    BY <2>1, <2>2 DEF TypeInv, Placed
  <2>4. joined'[ask[r].id] # None /\ ask'[ask[r].id].project = ask[r].project
    BY <2>1, <2>2, <2>3
  <2>5. QED BY <1>1, <2>4 DEF Scoped
<1>3. CASE ask[r].kind \notin {"update", "delete", "createComment", "deleteComment"}
  BY <1>1, <1>3 DEF Scoped
<1>4. QED BY <1>2, <1>3

\* Where the store can tell, a request gets to write only past the guard.
LEMMA GuardStep ==
  ASSUME HasOwnership, TypeInv, CreateInv, GuardInv, [Next]_vars
  PROVE  GuardInv'
<1>0. /\ pc \in [Request -> Place] /\ joined \in [Request -> Request \cup {None}]
  BY DEF TypeInv, TypeOK, Place
\* A request is answered, or goes where nothing is written.
<1>g. ASSUME NEW r \in Request, pc[r] \notin {"new", "done"},
             UNCHANGED ask, \A s \in Request : joined[s] # None => joined'[s] = joined[s],
             \/ \E code, id : Respond(r, code, id)
             \/ \E label : Goto(r, label) /\ (label \in {"hook", "writing"} => Scoped(r))
      PROVE  GuardInv'
  <2>1. \A s \in Request : pc'[s] = pc[s] \/ (s = r /\ (pc'[s] \in {"hook", "writing"} => Scoped(r)))
    BY <1>0, <1>g DEF Goto, Respond
  <2>2. QED BY <1>g, <2>1, GuardFrame
<1>1. ASSUME NEW r \in Request, NEW i \in setting.instances, NEW a \in setting.asks, Receive(r, i, a) PROVE GuardInv'
  <2>1. pc[r] = "new" /\ ask' = [ask EXCEPT ![r] = a] /\ pc' = [pc EXCEPT ![r] = "received"] /\ UNCHANGED joined
    BY <1>1 DEF Receive, Goto, creation
  <2>2. \A s \in Request : pc'[s] = pc[s] \/ pc'[s] = "received"
    BY <1>0, <2>1
  <2>3. \A s \in Request : pc[s] # "new" => ask'[s] = ask[s]
    BY <2>1 DEF TypeInv, TypeOK
  <2>4. QED BY <2>1, <2>2, <2>3, GuardFrame
<1>2. ASSUME NEW r \in Request, Authorize(r) PROVE GuardInv'
  <2>1. pc[r] = "received" /\ UNCHANGED ask /\ joined[r] = None /\ ask[r] \in Ask
    BY <1>2 DEF Authorize, TypeInv, Asked, Placed
  <2>2. CASE UNCHANGED creation /\ (Respond(r, "403", None) \/ Respond(r, "500", None))
    BY <1>g, <2>1, <2>2 DEF creation
  <2>3. CASE JoinOrStart(r)
    <3>1. Goto(r, "awaiting") /\ \A s \in Request : joined[s] # None => joined'[s] = joined[s]
      BY <1>0, <2>1, <2>3 DEF JoinOrStart
    <3>2. QED BY <1>g, <2>1, <3>1
  <2>4. CASE ask[r].kind # "create" /\ UNCHANGED creation /\ Goto(r, IF Verified(r) THEN "verifying" ELSE AfterGuard(r))
    <3>1. ~Verified(r) => Scoped(r)
      BY DEF Verified, Scoped
    <3>2. QED BY <1>g, <2>1, <2>4, <3>1 DEF creation
  <2>5. QED BY <1>2, <2>2, <2>3, <2>4 DEF Authorize
<1>3. ASSUME NEW r \in Request, Find(r) \/ Insert(r) \/ InsertFails(r) PROVE GuardInv'
  <2>1. UNCHANGED <<ask, pc, joined>>
    BY <1>3 DEF Find, Insert, InsertFails
  <2>2. QED BY <2>1, GuardFrame
<1>4. ASSUME NEW r \in Request, Resume(r) \/ Lookup(r) PROVE GuardInv'
  <2>1. pc[r] \in {"awaiting", "lookup"} /\ UNCHANGED <<ask, joined>>
    BY <1>4 DEF Resume, Lookup
  <2>2. Goto(r, "lookup") \/ \E code, id : Respond(r, code, id)
    BY <1>4 DEF Resume, Lookup, AnswerCreate
  <2>3. QED BY <1>g, <2>1, <2>2
<1>5. ASSUME NEW r \in Request, Verify(r) PROVE GuardInv'
  <2>1. pc[r] = "verifying" /\ UNCHANGED <<ask, joined>>
    BY <1>5 DEF Verify, creation
  <2>2. CASE \E f \in feedbacks : f.id = ask[r].id /\ f.project = ask[r].project
    <3>1. PICK f \in feedbacks : f.id = ask[r].id /\ f.project = ask[r].project
      BY <2>2
    <3>2. f.id \in Request /\ joined[f.id] = f.id /\ f.project = ask[f.id].project
      BY DEF TypeInv, TypeOK, Feedback, CreateInv, FeedbackInv
    <3>3. Scoped(r)
      BY <3>1, <3>2, HandlerAssumption DEF Scoped
    <3>4. QED BY <1>5, <1>g, <2>1, <3>3 DEF Verify
  <2>3. CASE ~\E f \in feedbacks : f.id = ask[r].id /\ f.project = ask[r].project
    BY <1>5, <1>g, <2>1, <2>3 DEF Verify
  <2>4. QED BY <2>2, <2>3
<1>6. ASSUME NEW r \in Request, OnDeleting(r) PROVE GuardInv'
  <2>1. pc[r] = "hook" /\ UNCHANGED <<ask, joined>> /\ Scoped(r)
    BY <1>6 DEF OnDeleting, creation, GuardInv
  <2>2. Goto(r, "writing") \/ Respond(r, "502", None)
    BY <1>6 DEF OnDeleting
  <2>3. QED BY <1>g, <2>1, <2>2
<1>7. ASSUME NEW r \in Request, Write(r) \/ WriteFails(r) \/ Announce(r) PROVE GuardInv'
  <2>1. pc[r] \in {"writing", "written"} /\ UNCHANGED <<ask, joined>>
    BY <1>7 DEF Write, WriteFails, Announce, creation
  <2>2. Goto(r, "written") \/ \E code, id : Respond(r, code, id)
    BY <1>7 DEF Write, WriteFails, Announce
  <2>3. QED BY <1>g, <2>1, <2>2
<1>8. ASSUME NEW i \in Instance, Crash(i) PROVE GuardInv'
  <2>1. UNCHANGED <<ask, joined>> /\ \A s \in Request : pc'[s] = pc[s] \/ pc'[s] = "done"
    BY <1>8 DEF Crash
  <2>2. QED BY <2>1, GuardFrame
<1>9. ASSUME UNCHANGED vars PROVE GuardInv'
  BY <1>9, GuardFrame DEF vars
<1>10. QED BY <1>1, <1>2, <1>3, <1>4, <1>5, <1>6, <1>7, <1>8, <1>9 DEF Next, Serve

\* One write of a scoped request changes, deletes and comments within its project.
LEMMA ApplyScoped ==
  ASSUME TypeInv, CreateInv, NEW r \in Request, ask[r] \in Ask, ask[r].kind # "create", Scoped(r),
         Apply(r), ~Missing(r), ~Replayed(r), UNCHANGED ask
  PROVE  /\ \A f \in feedbacks \ feedbacks' : ask[r].project = f.project
         /\ \A m \in comments' \ comments :
              \E f \in feedbacks : f.id = m.feedback /\ f.project = ask[m.id].project
<1>1. \A f \in feedbacks : f.project = ask[f.id].project
  BY DEF CreateInv, FeedbackInv
<1>2. CASE ask[r].kind = "update"
  <2>1. comments' = comments /\ \A f \in feedbacks \ feedbacks' : f \in Target(r)
    BY <1>2 DEF Apply
  <2>2. \A f \in Target(r) : f \in feedbacks /\ f.id = ask[r].id
    BY DEF Target
  <2>3. ask[ask[r].id].project = ask[r].project
    BY <1>2 DEF Scoped
  <2>4. QED BY <1>1, <2>1, <2>2, <2>3
<1>3. CASE ask[r].kind \in {"delete", "deleteAll"}
  <2>1. comments' \subseteq comments /\ \A f \in feedbacks \ feedbacks' : f \in Doomed(r)
    BY <1>3 DEF Apply
  <2>2. \A f \in Doomed(r) : f.project = ask[r].project
    BY <1>1, <1>3 DEF Doomed, Scoped
  <2>3. QED BY <2>1, <2>2
<1>4. CASE ask[r].kind = "createComment"
  <2> DEFINE new == [id |-> r, clientId |-> ask[r].clientId, feedback |-> ask[r].id]
  <2>1. feedbacks' = feedbacks /\ comments' = comments \cup {new}
    BY <1>4 DEF Apply
  <2>2. new.id = r /\ new.feedback = ask[r].id
    OBVIOUS
  <2>3. PICK f \in feedbacks : f.id = ask[r].id
    BY <1>4 DEF Missing, Replayed, Target
  <2>4. f.project = ask[r].project
    BY <1>1, <1>4, <2>3 DEF Scoped
  <2> HIDE DEF new
  <2>5. QED BY <2>1, <2>2, <2>3, <2>4
<1>5. CASE ask[r].kind = "deleteComment"
  BY <1>5 DEF Apply
<1>6. QED BY <1>2, <1>3, <1>4, <1>5 DEF Ask

\* Where the store can verify ownership, no request, whatever it races with or
\* fails at, changes or deletes a feedback of another project or comments on one.
THEOREM ProjectScope ==
  ASSUME HasOwnership
  PROVE  Spec => WritesStayInProject
<1> DEFINE Step ==
      /\ \A f \in feedbacks \ feedbacks' :
           \E r \in Request : /\ pc[r] = "writing" /\ pc'[r] # "writing"
                              /\ ask[r].project = f.project
      /\ \A m \in comments' \ comments :
           \E f \in feedbacks : f.id = m.feedback /\ f.project = ask[m.id].project
<1>1. TypeInv /\ CreateInv /\ GuardInv /\ [Next]_vars => [Step]_vars
  <2> SUFFICES ASSUME TypeInv, CreateInv, GuardInv, Next PROVE Step
    OBVIOUS
  <2>1. UNCHANGED store => Step
    BY DEF store
  <2>2. ASSUME NEW r \in Request, Write(r) \/ WriteFails(r) PROVE Step
    <3>1. /\ pc[r] = "writing" /\ pc'[r] # "writing" /\ UNCHANGED ask /\ Scoped(r)
          /\ ask[r] \in Ask /\ ask[r].kind # "create"
      BY <2>2 DEF Write, WriteFails, Goto, Respond, GuardInv, TypeInv, TypeOK, Asked, Placed, Guarded
    <3>2. UNCHANGED store \/ (Apply(r) /\ ~Missing(r) /\ ~Replayed(r))
      BY <2>2 DEF Write, WriteFails
    <3>3. CASE Apply(r) /\ ~Missing(r) /\ ~Replayed(r)
      BY <3>1, <3>3, ApplyScoped
    <3>4. QED BY <2>1, <3>2, <3>3
  <2>3. ASSUME NEW r \in Request, Insert(r) \/ InsertFails(r) PROVE Step
    BY <2>3 DEF Insert, InsertFails
  <2>4. ASSUME NEW r \in Request,
               Authorize(r) \/ Find(r) \/ Resume(r) \/ Lookup(r) \/ Verify(r) \/ OnDeleting(r) \/ Announce(r)
        PROVE  Step
    <3>1. UNCHANGED store
      BY <2>4 DEF Authorize, Find, Resume, Lookup, Verify, OnDeleting, Announce, store
    <3>2. QED BY <2>1, <3>1
  <2>5. ASSUME NEW r \in Request, NEW i, NEW a, Receive(r, i, a) PROVE Step
    BY <2>1, <2>5 DEF Receive
  <2>6. ASSUME NEW i \in Instance, Crash(i) PROVE Step
    BY <2>1, <2>6 DEF Crash
  <2> HIDE DEF Step
  <2>7. QED BY <2>2, <2>3, <2>4, <2>5, <2>6 DEF Next, Serve
<1>2. Init => GuardInv
  BY DEF Init, GuardInv
<1>3. TypeInv /\ CreateInv /\ GuardInv /\ [Next]_vars => GuardInv'
  BY GuardStep
<1>4. QED BY TypeInit, TypeStep, CreateInit, CreateStep, <1>1, <1>2, <1>3, PTL DEF Spec, WritesStayInProject
=============================================================================
