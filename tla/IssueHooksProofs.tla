-------------------------- MODULE IssueHooksProofs --------------------------
(***************************************************************************)
(* What holds of IssueHooks for any requests, feedbacks and projects,      *)
(* whatever fails, comes late or crashes.                                  *)
(***************************************************************************)
EXTENDS IssueHooks, FiniteSetTheorems, TLAPS

(***************************************************************************)
(* The inductive invariant.                                                *)
(***************************************************************************)
\* How far a request is tells how far its task is, and what the task does next.
Stage(r) ==
  /\ pc[r] = "new" <=> ask[r] = None
  /\ pc[r] = "waiting" <=> phase[r] \in {"queued", "running"}
  /\ pc[r] \in {"new", "verifying", "announcing"} => phase[r] = "new"
  /\ pc[r] = "writing" => phase[r] = IF Deletes(r) THEN "ended" ELSE "new"
  /\ pc[r] = "announcing" => Kind(r) \in {"create", "update"}
  /\ phase[r] = "running" <=> step[r] # "none"
  /\ step[r] = "create" => Kind(r) = "create"
  /\ step[r] = "look up" => Kind(r) # "create"
  /\ step[r] = "sync" => Kind(r) = "update"
  /\ step[r] \in {"close", "read", "comment"} <=> todo[r] # <<>>
  /\ todo[r] # <<>> => Deletes(r)

StagesAgree == \A r \in Request : Stage(r)

\* A task that runs, and a deletion that writes after its task.
Started(r) == phase[r] = "running" \/ (Deletes(r) /\ pc[r] = "writing")

\* The queue orders all tasks, and one that runs has none left to wait for.
InOrder ==
  \A u, v \in Request :
    /\ phase[v] # "new" => work[v] = WorkOf(v)
    /\ u \in earlier[v] => phase[u] # "new"
    /\ phase[u] # "new" /\ phase[v] # "new" => u = v \/ u \in earlier[v] \/ v \in earlier[u]
    /\ Started(v) /\ u \in earlier[v] /\ Order!Blocks(work[u], work[v]) => phase[u] = "ended"

\* The writes without an answer are those of the requests that announce.
Announcements ==
  /\ \A m, n \in 1..Len(unanswered) : unanswered[m] = unanswered[n] => m = n
  /\ \A n \in 1..Len(unanswered) : pc[unanswered[n]] = "announcing"
  /\ \A r \in Request : pc[r] = "announcing" => \E n \in 1..Len(unanswered) : unanswered[n] = r

\* What a tracker request changes is there to be changed.
IssuesKnown ==
  /\ \A f \in Feedback, e \in Effects : <<f, e>> \in late => e = "create" \/ issue[f] # None
  /\ \A r \in Request : step[r] = "sync" => issue[Subject(r)] # None
  /\ \A r \in Request : \A n \in 1..Len(todo[r]) :
       todo[r][n].feedback \in Subjects(r) /\ issue[todo[r][n].feedback] # None

\* A deletion about to comment found no comment, and nothing else comments.
NoneYet ==
  \A r \in Request : step[r] = "comment" =>
    LET f == Head(todo[r]).feedback IN issue[f].comments = 0 \/ <<f, "late">> \in misled

\* Deletion r is through with the issue of f: there is none, it has its comment, a
\* request given up on reached it, or it is opened by work r does not wait for.
Told(r, f) ==
  \/ issue[f] = None
  \/ issue[f].comments > 0
  \/ <<f, "late">> \in misled
  \/ \E c \in Request : Kind(c) = "create" /\ Subject(c) = f /\ c \notin earlier[r]

\* A deletion has told every issue that is not on its list any more.
AllTold ==
  \A r \in Request : Deletes(r) =>
    /\ todo[r] # <<>> => \A f \in Subjects(r) : Told(r, f) \/ \E n \in 1..Len(todo[r]) : todo[r][n].feedback = f
    /\ pc[r] = "writing" => \A f \in Subjects(r) : Told(r, f)

\* Request r wrote a status of f, and its task has not ended.
Pending(r, f) == Kind(r) \in {"create", "update"} /\ Subject(r) = f /\ pc[r] \in {"announcing", "waiting"}

\* The status a creation or an update writes.
StatusOf(r) == IF Kind(r) = "create" THEN "open" ELSE ask[r].status

\* The write of v came before that of u.
Before(v, u) ==
  \/ v \in earlier[u]
  \/ phase[v] # "new" /\ phase[u] = "new"
  \/ \E m, n \in 1..Len(unanswered) : m < n /\ unanswered[m] = v /\ unanswered[n] = u

\* A deletion of f is on its way.
Deleting(f) == \E d \in Request : Deletes(d) /\ f \in Subjects(d) /\ pc[d] \in {"waiting", "writing"}

\* The last write of f on its way to the tracker is the one the store has.
LastPending(f) ==
  \E u \in Request :
    /\ Pending(u, f) /\ StatusOf(u) = record[f]
    /\ \A v \in Request : Pending(v, f) => v = u \/ Before(v, u)

\* The issue of f shows the status the store has, and no write is on its way.
Shown(f) ==
  /\ \A v \in Request : ~Pending(v, f)
  /\ issue[f] = None \/ issue[f].state = StateOf(record[f])

\* What is not troubled is being deleted, on its way, or shown.
OnItsWay == \A f \in Feedback : Untroubled(f) /\ record[f] # None => Deleting(f) \/ LastPending(f) \/ Shown(f)

(***************************************************************************)
(* What requests ask for.                                                  *)
(***************************************************************************)
\* What there is to know of an ask.
LEMMA AskFacts ==
  ASSUME NEW a \in Asks
  PROVE  /\ a # None
         /\ a.kind \in {"create", "update", "delete", "deleteAll"}
         /\ a.kind = "create" => a.feedback \in Feedback \ Existing
         /\ a.kind \in {"create", "update", "delete"} => a.feedback \in Feedback
         /\ a.kind = "update" => a.status \in Status
         /\ a.kind = "deleteAll" => a.project \in Project
<1>1. a \in Ask /\ a # None
  BY IssueHooksAssumption
<1>2. QED BY <1>1 DEF Ask

\* What there is to know of a request.
LEMMA RequestFacts ==
  ASSUME TypeOK, NEW r \in Request
  PROVE  /\ Kind(r) \in {"none", "create", "update", "delete", "deleteAll"}
         /\ Kind(r) = "none" <=> ask[r] = None
         /\ Kind(r) = "create" => Subject(r) \in Feedback \ Existing
         /\ Kind(r) \in {"create", "update", "delete"} => Subject(r) \in Feedback /\ Subjects(r) = {Subject(r)}
         /\ Kind(r) = "update" => ask[r].status \in Status
         /\ Kind(r) = "deleteAll" => Subjects(r) = {f \in Feedback : ProjectOf[f] = ask[r].project}
         /\ Kind(r) # "none" => Subjects(r) \subseteq Feedback /\ WorkOf(r) \in Order!Work
         /\ Deletes(r) <=> Kind(r) \in {"delete", "deleteAll"}
<1>1. ask[r] = None \/ ask[r] \in Asks
  BY DEF TypeOK
<1>2. CASE ask[r] = None
  BY <1>2 DEF Kind, Deletes
<1>3. CASE ask[r] \in Asks
  <2> DEFINE a == ask[r]
  <2>1. /\ a # None
        /\ a.kind \in {"create", "update", "delete", "deleteAll"}
        /\ a.kind = "create" => a.feedback \in Feedback \ Existing
        /\ a.kind \in {"create", "update", "delete"} => a.feedback \in Feedback
        /\ a.kind = "update" => a.status \in Status
        /\ a.kind = "deleteAll" => a.project \in Project
    BY <1>3, AskFacts
  <2>2. Kind(r) = a.kind
    BY <2>1 DEF Kind
  <2>3. /\ Kind(r) = "deleteAll" => Subjects(r) = {f \in Feedback : ProjectOf[f] = a.project}
        /\ Kind(r) # "deleteAll" => Subjects(r) = {a.feedback}
    BY DEF Subjects
  <2>4. Subject(r) = a.feedback
    BY DEF Subject
  <2>5. WorkOf(r) \in Order!Work
    <3>1. CASE Kind(r) = "deleteAll"
      BY <2>1, <2>2, <3>1 DEF WorkOf, Order!Work
    <3>2. CASE Kind(r) # "deleteAll"
      <4>1. ProjectOf[a.feedback] \in Project
        BY <2>1, <2>2, <3>2, IssueHooksAssumption
      <4>2. QED BY <2>1, <2>2, <3>2, <4>1 DEF WorkOf, Order!Work
    <3>3. QED BY <3>1, <3>2
  <2>6. QED BY <2>1, <2>2, <2>3, <2>4, <2>5 DEF Deletes
<1>4. QED BY <1>1, <1>2, <1>3

\* What a request is about stays the same.
LEMMA AskKept ==
  ASSUME NEW r \in Request, ask'[r] = ask[r]
  PROVE  /\ Kind(r)' = Kind(r) /\ (Deletes(r)' <=> Deletes(r)) /\ Subjects(r)' = Subjects(r)
         /\ Subject(r)' = Subject(r) /\ WorkOf(r)' = WorkOf(r) /\ StatusOf(r)' = StatusOf(r)
BY DEF Kind, Deletes, Subjects, Subject, WorkOf, StatusOf

\* Work on a feedback goes before a deletion of it that was queued later, and
\* before any creation or change of it that was.
LEMMA BlocksOn ==
  ASSUME TypeOK, NEW u \in Request, NEW v \in Request, NEW f \in Feedback,
         Kind(u) \in {"create", "update", "delete", "deleteAll"}, f \in Subjects(u),
         Kind(v) \in {"create", "update", "delete", "deleteAll"}, f \in Subjects(v),
         Deletes(v) \/ ~Deletes(u)
  PROVE  Order!Blocks(WorkOf(u), WorkOf(v))
<1>1. /\ Kind(u) # "deleteAll" => WorkOf(u).kind # "project" /\ WorkOf(u).feedback = f /\ WorkOf(u).project = ProjectOf[f]
      /\ Kind(v) # "deleteAll" => WorkOf(v).kind # "project" /\ WorkOf(v).feedback = f /\ WorkOf(v).project = ProjectOf[f]
  BY DEF WorkOf, Subjects
<1>2. /\ Kind(u) = "deleteAll" => WorkOf(u).kind = "project" /\ WorkOf(u).project = ProjectOf[f]
      /\ Kind(v) = "deleteAll" => WorkOf(v).kind = "project" /\ WorkOf(v).project = ProjectOf[f]
  BY DEF WorkOf, Subjects
<1>3. Kind(v) = "delete" => WorkOf(v).kind = "feedback"
  BY DEF WorkOf
<1>4. QED BY <1>1, <1>2, <1>3 DEF Order!Blocks, Deletes


(***************************************************************************)
(* What a step does to the requests and their tasks.                       *)
(***************************************************************************)
\* What IssuesInSync and the other properties rest on, up to the tracker.
BaseInv == TypeOK /\ StagesAgree /\ InOrder /\ Announcements /\ IssuesKnown

\* A tracker request, or the lookup, of task r.
TaskStep(r) == CreateIssue(r) \/ LookUp(r) \/ Sync(r) \/ Close(r) \/ ReadComments(r) \/ Comment(r)

\* Task r goes on with its next tracker request.
GoesOn(r) ==
  /\ UNCHANGED <<pc, answer, missed, queue>>
  /\ \E next \in {"sync", "close", "read", "comment"}, list \in Seq(Found) :
       /\ step' = [step EXCEPT ![r] = next]
       /\ todo' = [todo EXCEPT ![r] = list]
       /\ IF next = "sync" THEN Kind(r) = "update" /\ issue[Subject(r)] # None /\ list = <<>> ELSE Deletes(r) /\ list # <<>>
       /\ \A n \in 1..Len(list) : list[n].feedback \in Subjects(r) /\ issue[list[n].feedback] # None

\* Task r ends.
Ends(r) == Resolve(r) \/ Reject(r)

\* The lists of issues a deletion may find: each issue of its subjects is there.
LEMMA ListingFacts ==
  ASSUME TypeOK, NEW r \in Request, Deletes(r), NEW list \in Listings(r)
  PROVE  /\ list \in Seq(Found)
         /\ \A n \in 1..Len(list) : list[n].feedback \in Subjects(r) /\ issue[list[n].feedback] # None
         /\ \A f \in Subjects(r) : issue[f] # None => \E n \in 1..Len(list) : list[n].feedback = f
<1> DEFINE listed == {f \in Subjects(r) : issue[f] # None}
           choices == {c \in [listed -> Found] : \A f \in listed : c[f] \in Lookups(r, f)}
<1>1. Subjects(r) \subseteq Feedback
  BY RequestFacts
<1>2. PICK c \in choices : list \in SetToSeqs({c[f] : f \in listed})
  BY DEF Listings
<1> DEFINE S == {c[f] : f \in listed}
<1>3. ASSUME NEW f \in listed PROVE c[f] \in Found /\ c[f].feedback = f
  <2>1. c[f] \in Found /\ c[f] \in Lookups(r, f)
    BY <1>2
  <2>2. QED BY <2>1 DEF Lookups
<1>4. listed \subseteq Feedback
  BY <1>1
<1> HIDE DEF listed
<1>5. IsFiniteSet(S)
  <2> DEFINE g == [f \in listed |-> c[f]]
  <2>1. g \in Surjection(listed, S)
    BY DEF Surjection
  <2>2. IsFiniteSet(listed)
    BY <1>4, IssueHooksAssumption, FS_Subset
  <2> HIDE DEF g, S
  <2>3. QED BY <2>1, <2>2, FS_Surjection
<1> DEFINE N == Cardinality(S)
<1>6. list \in [1..N -> S] /\ \A i, j \in 1..N : i # j => list[i] # list[j]
  BY <1>2 DEF SetToSeqs
<1>7. N \in Nat
  BY <1>5, FS_CardinalityType
<1> HIDE DEF N
<1>8. list \in Surjection(1..N, S)
  <2>1. list \in Injection(1..N, S)
    BY <1>6 DEF Injection, IsInjective
  <2>2. Cardinality(1..N) = N
    BY <1>7, FS_Interval
  <2>3. QED BY <1>5, <2>1, <2>2, FS_Injection DEF N
<1>9. S \subseteq Found
  BY <1>3
<1>10. list \in Seq(Found) /\ Len(list) = N
  BY <1>6, <1>7, <1>9
<1>11. ASSUME NEW n \in 1..Len(list) PROVE list[n].feedback \in Subjects(r) /\ issue[list[n].feedback] # None
  <2>1. list[n] \in S
    BY <1>6, <1>10
  <2>2. PICK f \in listed : list[n] = c[f]
    BY <2>1
  <2>3. QED BY <1>3, <2>2 DEF listed
<1>12. ASSUME NEW f \in Subjects(r), issue[f] # None PROVE \E n \in 1..Len(list) : list[n].feedback = f
  <2>1. f \in listed
    BY <1>12 DEF listed
  <2>2. c[f] \in S
    BY <2>1
  <2>3. PICK n \in 1..N : list[n] = c[f]
    BY <1>8, <2>2 DEF Surjection
  <2>4. QED BY <1>3, <1>10, <2>1, <2>3
<1>13. QED BY <1>10, <1>11, <1>12

\* The rest of a list of issues.
LEMMA RestFacts ==
  ASSUME NEW q \in Seq(Found), q # <<>>
  PROVE  /\ Head(q) \in Found /\ Head(q) = q[1] /\ 1 \in 1..Len(q)
         /\ Tail(q) \in Seq(Found)
         /\ \A n \in 1..Len(Tail(q)) : n + 1 \in 1..Len(q) /\ Tail(q)[n] = q[n + 1]
         /\ \A n \in 1..Len(q) : n = 1 \/ (n - 1 \in 1..Len(Tail(q)) /\ Tail(q)[n - 1] = q[n])
<1> DEFINE u == Tail(q)
<1>1. Len(q) \in Nat /\ Len(q) > 0
  OBVIOUS
<1>2. u \in Seq(Found) /\ Len(u) = Len(q) - 1 /\ Head(q) = q[1] /\ \A n \in 1..Len(u) : u[n] = q[n + 1]
  BY <1>1
<1> HIDE DEF u
<1>3. \A n \in 1..Len(u) : n + 1 \in 1..Len(q)
  BY <1>1, <1>2
<1>4. ASSUME NEW n \in 1..Len(q), n # 1 PROVE n - 1 \in 1..Len(u) /\ u[n - 1] = q[n]
  <2>1. n - 1 \in 1..Len(u) /\ (n - 1) + 1 = n
    BY <1>1, <1>2, <1>4
  <2>2. QED BY <1>2, <2>1
<1>5. 1 \in 1..Len(q) /\ q[1] \in Found
  BY <1>1
<1>6. QED BY <1>2, <1>3, <1>4, <1>5 DEF u

\* A list is handled: what is left of it comes next, or the task ends.
LEMMA HandleMoves ==
  ASSUME TypeOK, NEW r \in Request, Deletes(r), NEW list \in Seq(Found), Handle(r, list),
         \A n \in 1..Len(list) : list[n].feedback \in Subjects(r) /\ issue[list[n].feedback] # None
  PROVE  GoesOn(r) \/ Resolve(r)
<1>1. CASE list = <<>>
  BY <1>1 DEF Handle
<1>2. CASE list # <<>>
  <2> DEFINE next == IF Head(list).isOpen THEN "close" ELSE "read"
  <2>1. /\ step' = [step EXCEPT ![r] = next] /\ todo' = [todo EXCEPT ![r] = list]
        /\ UNCHANGED <<pc, answer, missed, queue>>
    BY <1>2 DEF Handle
  <2>2. next \in {"sync", "close", "read", "comment"} /\ next # "sync"
    OBVIOUS
  <2> HIDE DEF next
  <2>3. QED BY <1>2, <2>1, <2>2 DEF GoesOn
<1>3. QED BY <1>1, <1>2

\* A step of a task goes on, or ends it.
LEMMA TaskMoves ==
  ASSUME TypeOK, StagesAgree, IssuesKnown, NEW r \in Request, TaskStep(r)
  PROVE  /\ UNCHANGED <<ask, record, unanswered>>
         /\ phase[r] = "running"
         /\ GoesOn(r) \/ Ends(r)
<1>s. phase[r] = "running" <=> step[r] # "none"
  BY DEF StagesAgree, Stage
<1>t. step[r] \in {"close", "read", "comment"} => todo[r] # <<>> /\ Deletes(r)
  BY DEF StagesAgree, Stage
<1>u. todo[r] \in Seq(Found)
  BY DEF TypeOK
<1>v. \A n \in 1..Len(todo[r]) : todo[r][n].feedback \in Subjects(r) /\ issue[todo[r][n].feedback] # None
  BY DEF IssuesKnown
<1>w. todo = [todo EXCEPT ![r] = todo[r]]
  BY DEF TypeOK
<1>h. ASSUME todo[r] # <<>>, Deletes(r), Handled(r) PROVE GoesOn(r) \/ Ends(r)
  <2>1. /\ Tail(todo[r]) \in Seq(Found)
        /\ \A n \in 1..Len(Tail(todo[r])) : n + 1 \in 1..Len(todo[r]) /\ Tail(todo[r])[n] = todo[r][n + 1]
    BY <1>u, <1>h, RestFacts
  <2>2. \A n \in 1..Len(Tail(todo[r])) :
          Tail(todo[r])[n].feedback \in Subjects(r) /\ issue[Tail(todo[r])[n].feedback] # None
    BY <1>v, <2>1
  <2>3. QED BY <1>h, <2>1, <2>2, HandleMoves DEF Handled, Ends
<1>n. ASSUME NEW next \in {"read", "comment"}, Then(r, next), todo[r] # <<>>, Deletes(r) PROVE GoesOn(r)
  <2>1. UNCHANGED <<pc, answer, missed, queue>> /\ step' = [step EXCEPT ![r] = next] /\ todo' = [todo EXCEPT ![r] = todo[r]]
    BY <1>n, <1>w DEF Then
  <2>2. next \in {"sync", "close", "read", "comment"} /\ next # "sync"
    OBVIOUS
  <2>3. QED BY <1>n, <1>u, <1>v, <2>1, <2>2 DEF GoesOn
<1>1. CASE CreateIssue(r)
  BY <1>1, <1>s DEF CreateIssue, RequestFails, Ends
<1>2. CASE LookUp(r)
  <2>1. step[r] = "look up" /\ UNCHANGED <<ask, record, unanswered>>
    BY <1>2 DEF LookUp
  <2>2. CASE Kind(r) = "update" /\ issue[Subject(r)] # None /\ Then(r, "sync")
    <3>1. todo[r] = <<>>
      BY <2>1 DEF StagesAgree, Stage
    <3>2. UNCHANGED <<pc, answer, missed, queue>> /\ step' = [step EXCEPT ![r] = "sync"] /\ todo' = [todo EXCEPT ![r] = <<>>]
      BY <2>2, <1>w, <3>1 DEF Then
    <3>3. PICK list \in Seq(Found) : list = <<>> /\ \A n \in 1..Len(list) : FALSE
      <4>1. <<>> \in Seq(Found) /\ \A n \in 1..Len(<<>>) : FALSE
        OBVIOUS
      <4>2. QED BY <4>1
    <3>4. GoesOn(r)
      <4>1. todo' = [todo EXCEPT ![r] = list]
        BY <3>2, <3>3
      <4>2. QED BY <2>2, <3>2, <3>3, <4>1 DEF GoesOn
    <3>5. QED BY <1>s, <2>1, <3>4
  <2>3. CASE Resolve(r) \/ Reject(r)
    BY <1>s, <2>1, <2>3 DEF Ends
  <2>4. CASE Deletes(r) /\ \E list \in Listings(r) : Handle(r, list)
    BY <1>s, <2>1, <2>4, ListingFacts, HandleMoves DEF Ends
  <2>5. \A found \in Lookups(r, Subject(r)) : issue[Subject(r)] # None
    BY DEF Lookups
  <2>6. QED BY <1>2, <2>2, <2>3, <2>4, <2>5 DEF LookUp
<1>3. CASE Sync(r)
  BY <1>3, <1>s DEF Sync, RequestFails, Ends
<1>4. CASE Close(r)
  <2>1. step[r] = "close" /\ UNCHANGED <<ask, record, unanswered>> /\ (Then(r, "read") \/ Reject(r))
    BY <1>4 DEF Close, RequestFails
  <2>2. QED BY <1>s, <1>t, <1>n, <2>1 DEF Ends
<1>5. CASE ReadComments(r)
  <2>1. step[r] = "read" /\ UNCHANGED <<ask, record, unanswered>> /\ (Handled(r) \/ Then(r, "comment") \/ Reject(r))
    BY <1>5 DEF ReadComments
  <2>2. QED BY <1>s, <1>t, <1>n, <1>h, <2>1 DEF Ends
<1>6. CASE Comment(r)
  <2>1. step[r] = "comment" /\ UNCHANGED <<ask, record, unanswered>> /\ (Handled(r) \/ Reject(r))
    BY <1>6 DEF Comment, RequestFails
  <2>2. QED BY <1>s, <1>t, <1>h, <2>1 DEF Ends
<1>7. QED BY <1>1, <1>2, <1>3, <1>4, <1>5, <1>6 DEF TaskStep


\* What task r makes the tracker do next.
Touches(r, f, e) ==
  \/ step[r] = "create" /\ f = Subject(r) /\ e = "create"
  \/ step[r] = "sync" /\ f = Subject(r) /\ e = ask[r].status
  \/ step[r] = "close" /\ f = Head(todo[r]).feedback /\ e = "wont_fix"
  \/ step[r] = "comment" /\ f = Head(todo[r]).feedback /\ e = "comment"

\* It is about an issue of the request, which is there unless it is created.
LEMMA TouchesFacts ==
  ASSUME TypeOK, StagesAgree, IssuesKnown, NEW r \in Request, NEW f, NEW e, Touches(r, f, e)
  PROVE  /\ f \in Feedback /\ f \in Subjects(r) /\ e \in Effects
         /\ e = "create" \/ issue[f] # None
         /\ e = "create" <=> step[r] = "create"
         /\ e = "comment" <=> step[r] = "comment"
         /\ e = "create" => Kind(r) = "create"
         /\ e = "comment" => Deletes(r)
<1>1. /\ step[r] = "create" => Kind(r) = "create"
      /\ step[r] = "sync" => Kind(r) = "update"
      /\ step[r] \in {"close", "read", "comment"} => todo[r] # <<>> /\ Deletes(r)
  BY DEF StagesAgree, Stage
<1>2. Status \subseteq {"open", "in_progress", "resolved", "wont_fix"}
  BY IssueHooksAssumption
<1>3. CASE step[r] = "create" /\ f = Subject(r) /\ e = "create"
  BY <1>1, <1>3, RequestFacts DEF Effects
<1>4. CASE step[r] = "sync" /\ f = Subject(r) /\ e = ask[r].status
  <2>1. issue[f] # None
    BY <1>4 DEF IssuesKnown
  <2>2. e \in Status /\ f \in Feedback /\ Subjects(r) = {f}
    BY <1>1, <1>4, RequestFacts
  <2>3. e # "create" /\ e # "comment" /\ step[r] # "create" /\ step[r] # "comment"
    BY <1>2, <1>4, <2>2
  <2>4. QED BY <2>1, <2>2, <2>3 DEF Effects
<1>5. CASE f = Head(todo[r]).feedback /\ step[r] \in {"close", "comment"}
  <2>1. todo[r] \in Seq(Found) /\ todo[r] # <<>> /\ Deletes(r)
    BY <1>1, <1>5 DEF TypeOK
  <2>2. Head(todo[r]) = todo[r][1] /\ 1 \in 1..Len(todo[r])
    BY <2>1, RestFacts
  <2>3. f \in Subjects(r) /\ issue[f] # None
    BY <1>5, <2>2 DEF IssuesKnown
  <2>4. f \in Feedback
    BY <2>1, <2>3, RequestFacts
  <2>5. \/ step[r] = "close" /\ e = "wont_fix"
        \/ step[r] = "comment" /\ e = "comment"
    BY <1>5 DEF Touches
  <2>6. QED BY <2>1, <2>3, <2>4, <2>5 DEF Effects
<1>6. QED BY <1>3, <1>4, <1>5 DEF Touches

\* What a step of a task does to the tracker, and how it can be misled.
LEMMA TaskEffects ==
  ASSUME TypeOK, StagesAgree, IssuesKnown, NEW r \in Request, TaskStep(r)
  PROVE  /\ \/ UNCHANGED tracker
            \/ \E f, e : /\ Touches(r, f, e)
                         /\ \/ Effect(f, e) /\ UNCHANGED late
                            \/ UNCHANGED <<issue, index>> /\ late' = late \cup {<<f, e>>} /\ Reject(r)
         /\ misled \subseteq misled' /\ misled' \subseteq misled \cup Feedback \X {"stale"}
<1>1. CASE CreateIssue(r)
  BY <1>1 DEF CreateIssue, RequestFails, Touches
<1>2. CASE LookUp(r)
  <2>1. UNCHANGED tracker
    BY <1>2 DEF LookUp
  <2>2. CASE UNCHANGED misled
    BY <2>1, <2>2
  <2>3. ASSUME NEW found \in Lookups(r, Subject(r)), Kind(r) = "update", misled' = misled \cup Stale({found}) PROVE misled' \subseteq misled \cup Feedback \X {"stale"}
    <3>1. found.feedback = Subject(r) /\ Subject(r) \in Feedback
      BY <2>3, RequestFacts DEF Lookups
    <3>2. QED BY <2>3, <3>1 DEF Stale
  <2>4. ASSUME NEW list \in Listings(r), Deletes(r), misled' = misled \cup Stale(ToSet(list)) PROVE misled' \subseteq misled \cup Feedback \X {"stale"}
    <3>1. list \in Seq(Found)
      BY <2>4, ListingFacts
    <3>2. ToSet(list) \subseteq Found
      BY <3>1 DEF ToSet
    <3>3. QED BY <2>4, <3>2 DEF Stale, Found
  <2>5. CASE \E found \in Lookups(r, Subject(r)) : Kind(r) = "update" /\ misled' = misled \cup Stale({found})
    BY <2>1, <2>3, <2>5
  <2>6. CASE \E list \in Listings(r) : Deletes(r) /\ misled' = misled \cup Stale(ToSet(list))
    BY <2>1, <2>4, <2>6
  <2>7. QED BY <1>2, <2>2, <2>5, <2>6 DEF LookUp
<1>3. CASE Sync(r)
  BY <1>3 DEF Sync, RequestFails, Touches
<1>4. CASE Close(r)
  BY <1>4 DEF Close, RequestFails, Touches
<1>5. CASE ReadComments(r)
  BY <1>5 DEF ReadComments
<1>6. CASE Comment(r)
  BY <1>6 DEF Comment, RequestFails, Touches
<1>7. QED BY <1>1, <1>2, <1>3, <1>4, <1>5, <1>6 DEF TaskStep

\* What a tracker request does to an issue.
LEMMA EffectFacts ==
  ASSUME TypeOK, NEW f \in Feedback, NEW e \in Effects, e = "create" \/ issue[f] # None, Effect(f, e)
  PROVE  /\ issue' \in [Feedback -> Issue \cup {None}] /\ index' = index
         /\ issue'[f] # None
         /\ \A g \in Feedback : g # f => issue'[g] = issue[g]
         /\ e \in Status => issue'[f].state = StateOf(e)
         /\ e = "create" => issue'[f].state = "open" /\ issue'[f].comments = 0
         /\ e = "comment" => issue'[f].comments = issue[f].comments + 1
         /\ e \notin {"create", "comment"} => issue'[f].comments = issue[f].comments
         /\ issue[f] # None => issue[f].comments \in Nat
<1>1. issue \in [Feedback -> Issue \cup {None}]
  BY DEF TypeOK
<1>2. issue' = [issue EXCEPT ![f] = After(issue[f], e)] /\ index' = index
  BY DEF Effect
<1>3. issue'[f] = After(issue[f], e) /\ \A g \in Feedback : g # f => issue'[g] = issue[g]
  BY <1>1, <1>2
<1>4. None \notin Issue /\ Status \subseteq {"open", "in_progress", "resolved", "wont_fix"}
  BY IssueHooksAssumption
<1>5. StateOf(e) \in State /\ "open" \in State
  BY DEF StateOf, State
<1>6. CASE e = "create"
  <2>1. issue'[f] = [state |-> "open", comments |-> 0]
    BY <1>3, <1>6 DEF After
  <2>2. issue'[f] \in Issue
    BY <1>5, <2>1 DEF Issue
  <2>3. e \notin Status
    BY <1>4, <1>6
  <2>4. issue[f] # None => issue[f].comments \in Nat
    BY <1>1 DEF Issue
  <2>5. QED BY <1>1, <1>2, <1>3, <1>4, <1>6, <2>1, <2>2, <2>3, <2>4
<1>7. CASE e # "create"
  <2>1. issue[f] \in Issue
    BY <1>1, <1>7
  <2>2. CASE e = "comment"
    <3>1. issue'[f] = [issue[f] EXCEPT !.comments = @ + 1]
      BY <1>3, <2>2 DEF After
    <3>2. issue'[f] \in Issue /\ issue'[f].comments = issue[f].comments + 1
      BY <2>1, <3>1 DEF Issue
    <3>3. e \notin Status
      BY <1>4, <2>2
    <3>4. QED BY <1>1, <1>2, <1>3, <1>4, <2>1, <2>2, <3>2, <3>3 DEF Issue
  <2>3. CASE e # "comment"
    <3>1. issue'[f] = [issue[f] EXCEPT !.state = StateOf(e)]
      BY <1>3, <1>7, <2>3 DEF After
    <3>2. issue'[f] \in Issue /\ issue'[f].comments = issue[f].comments /\ issue'[f].state = StateOf(e)
      BY <1>5, <2>1, <3>1 DEF Issue
    <3>3. QED BY <1>1, <1>2, <1>3, <1>4, <1>7, <2>1, <2>3, <3>2 DEF Issue
  <2>4. QED BY <2>2, <2>3
<1>8. QED BY <1>6, <1>7


(***************************************************************************)
(* Types, stages and the order of the queue are kept.                      *)
(***************************************************************************)
\* The entries of a concatenation.
LEMMA Concatenated ==
  ASSUME NEW a \in Seq(Request), NEW b \in Seq(Request)
  PROVE  /\ a \o b \in Seq(Request) /\ Len(a \o b) = Len(a) + Len(b)
         /\ \A m \in 1..Len(a) : (a \o b)[m] = a[m]
         /\ \A m \in 1..Len(b) : (a \o b)[Len(a) + m] = b[m]
OBVIOUS

\* An answer that arrives leaves the others in their order.
LEMMA RemoveAtFacts ==
  ASSUME NEW q \in Seq(Request), NEW n \in 1..Len(q)
  PROVE  /\ RemoveAt(q, n) \in Seq(Request) /\ Len(RemoveAt(q, n)) = Len(q) - 1
         /\ \A m \in 1..Len(RemoveAt(q, n)) :
              /\ m < n => RemoveAt(q, n)[m] = q[m]
              /\ m >= n => RemoveAt(q, n)[m] = q[m + 1]
<1> DEFINE a == SubSeq(q, 1, n - 1)
           b == SubSeq(q, n + 1, Len(q))
           p == a \o b
<1>1. Len(q) \in Nat /\ n \in Nat /\ n >= 1 /\ n <= Len(q)
  OBVIOUS
<1>2. a \in Seq(Request) /\ Len(a) = n - 1 /\ \A m \in 1..(n - 1) : a[m] = q[m]
  BY <1>1
<1>3. b \in Seq(Request) /\ Len(b) = Len(q) - n /\ \A m \in 1..(Len(q) - n) : b[m] = q[m + n]
  BY <1>1
<1>4. RemoveAt(q, n) = p
  BY DEF RemoveAt
<1> HIDE DEF a, b
<1>5. p \in Seq(Request) /\ Len(p) = Len(q) - 1
      /\ (\A m \in 1..Len(a) : p[m] = a[m]) /\ (\A m \in 1..Len(b) : p[Len(a) + m] = b[m])
  <2>1. /\ p \in Seq(Request) /\ Len(p) = Len(a) + Len(b)
        /\ \A m \in 1..Len(a) : p[m] = a[m]
        /\ \A m \in 1..Len(b) : p[Len(a) + m] = b[m]
    BY <1>2, <1>3, Concatenated
  <2> HIDE DEF p
  <2>2. QED BY <1>1, <1>2, <1>3, <2>1
<1> HIDE DEF p
<1>6. ASSUME NEW m \in 1..Len(p) PROVE (m < n => p[m] = q[m]) /\ (m >= n => p[m] = q[m + 1])
  <2>1. CASE m < n
    BY <1>1, <1>2, <1>5, <2>1
  <2>2. CASE m >= n
    <3>1. m - (n - 1) \in 1..Len(b) /\ Len(a) + (m - (n - 1)) = m /\ (m - (n - 1)) + n = m + 1
      BY <1>1, <1>2, <1>3, <1>5, <2>2
    <3>2. p[m] = b[m - (n - 1)] /\ b[m - (n - 1)] = q[m + 1]
      BY <1>3, <1>5, <3>1
    <3>3. QED BY <1>1, <2>2, <3>2
  <2>3. QED BY <1>1, <2>1, <2>2
<1>7. QED BY <1>4, <1>5, <1>6

\* Every variable keeps its type.
LEMMA TypeStep == BaseInv /\ [Next]_vars => TypeOK'
<1> SUFFICES ASSUME BaseInv, [Next]_vars PROVE TypeOK'
  OBVIOUS
<1>t. TypeOK /\ StagesAgree /\ IssuesKnown
  BY DEF BaseInv
<1>r. \A r \in Request : ask[r] # None => Subjects(r) \subseteq Feedback
  BY <1>t, RequestFacts
<1>n. \A r \in Request : pc[r] # "new" => ask[r] # None
  BY <1>t DEF StagesAgree, Stage
\* The hook is called.
<1>c. ASSUME NEW r \in Request, CallHook(r), ask[r] # None
      PROVE  /\ work' \in [Request -> Order!Work \cup {None}]
             /\ earlier' \in [Request -> SUBSET Request]
             /\ phase' \in [Request -> {"new", "queued", "running", "ended"}]
             /\ pc' \in [Request -> {"new", "verifying", "writing", "announcing", "waiting", "done"}]
             /\ answer' = answer
  <2>1. WorkOf(r) \in Order!Work
    BY <1>t, <1>c, RequestFacts
  <2>2. QED BY <1>t, <1>c, <2>1 DEF CallHook, Goto, Order!Queue, TypeOK
<1>1. ASSUME NEW r \in Request, NEW a \in Asks, Receive(r, a) PROVE TypeOK'
  BY <1>t, <1>1 DEF Receive, Goto, tracker, queue, TypeOK
<1>2. ASSUME NEW r \in Request, Verify(r) PROVE TypeOK'
  <2>1. ask[r] # None
    BY <1>n, <1>2 DEF Verify
  <2>2. /\ work' \in [Request -> Order!Work \cup {None}]
        /\ earlier' \in [Request -> SUBSET Request]
        /\ phase' \in [Request -> {"new", "queued", "running", "ended"}]
        /\ pc' \in [Request -> {"new", "verifying", "writing", "announcing", "waiting", "done"}]
        /\ answer' \in [Request -> {"none", "200", "404", "500", "502", "lost"}]
    <3>1. CASE CallHook(r)
      BY <1>t, <1>c, <2>1, <3>1 DEF TypeOK
    <3>2. CASE UNCHANGED queue /\ (Respond(r, "404") \/ Goto(r, "writing"))
      <4>1. UNCHANGED <<work, earlier, phase>>
        BY <3>2 DEF queue
      <4>2. /\ pc' \in [Request -> {"new", "verifying", "writing", "announcing", "waiting", "done"}]
            /\ answer' \in [Request -> {"none", "200", "404", "500", "502", "lost"}]
        <5>1. CASE Respond(r, "404")
          BY <1>t, <5>1 DEF Respond, TypeOK
        <5>2. CASE Goto(r, "writing")
          BY <1>t, <5>2 DEF Goto, TypeOK
        <5>3. QED BY <3>2, <5>1, <5>2
      <4>3. QED BY <1>t, <4>1, <4>2 DEF TypeOK
    <3>3. QED BY <1>2, <3>1, <3>2 DEF Verify
  <2>3. QED BY <1>t, <1>2, <2>2 DEF Verify, tracker, TypeOK
<1>w. ASSUME NEW r \in Request, pc[r] = "writing", Writes(r) PROVE Written(r) \in [Feedback -> Status \cup {None}]
  <2>1. Kind(r) \in {"create", "update", "delete", "deleteAll"}
    BY <1>t, <1>n, <1>w, RequestFacts
  <2>2. Deletes(r) \/ Kind(r) = "create" \/ ask[r].status \in Status
    BY <1>t, <2>1, RequestFacts
  <2>3. "open" \in Status
    BY IssueHooksAssumption
  <2>4. QED BY <1>t, <2>2, <2>3 DEF Written, TypeOK
<1>3. ASSUME NEW r \in Request, Write(r) PROVE TypeOK'
  <2>1. pc[r] = "writing"
    BY <1>3 DEF Write
  <2>2. record' \in [Feedback -> Status \cup {None}]
    BY <1>t, <1>w, <1>3, <2>1 DEF Write, TypeOK
  <2>3. unanswered' \in Seq(Request)
    <3>1. unanswered \in Seq(Request)
      BY <1>t DEF TypeOK
    <3>2. unanswered' = unanswered \/ unanswered' = Append(unanswered, r)
      BY <1>3 DEF Write
    <3>3. QED BY <3>1, <3>2
  <2>4. /\ pc' \in [Request -> {"new", "verifying", "writing", "announcing", "waiting", "done"}]
        /\ answer' \in [Request -> {"none", "200", "404", "500", "502", "lost"}]
    BY <1>t, <1>3 DEF Write, Respond, Goto, TypeOK
  <2>5. UNCHANGED <<ask, issue, index, late, step, todo, missed, misled, work, earlier, phase>>
    BY <1>3 DEF Write, tracker, queue
  <2>6. QED BY <1>t, <2>2, <2>3, <2>4, <2>5 DEF TypeOK
<1>4. ASSUME NEW r \in Request, WriteFails(r) PROVE TypeOK'
  <2>1. record' \in [Feedback -> Status \cup {None}]
    BY <1>t, <1>w, <1>4 DEF WriteFails, TypeOK
  <2>2. missed' \subseteq Feedback
    BY <1>t, <1>r, <1>n, <1>4 DEF WriteFails, TypeOK
  <2>3. /\ pc' \in [Request -> {"new", "verifying", "writing", "announcing", "waiting", "done"}]
        /\ answer' \in [Request -> {"none", "200", "404", "500", "502", "lost"}]
        /\ UNCHANGED <<ask, unanswered, issue, index, late, step, todo, misled, work, earlier, phase>>
    BY <1>t, <1>4 DEF WriteFails, Respond, tracker, queue, TypeOK
  <2>4. QED BY <1>t, <2>1, <2>2, <2>3 DEF TypeOK
<1>5. ASSUME NEW r \in Request, Announce(r) PROVE TypeOK'
  <2>1. ask[r] # None
    BY <1>n, <1>5 DEF Announce
  <2>2. PICK n \in 1..Len(unanswered) : unanswered' = RemoveAt(unanswered, n)
    BY <1>5 DEF Announce
  <2>3. unanswered' \in Seq(Request)
    BY <1>t, <2>2, RemoveAtFacts DEF TypeOK
  <2>4. CallHook(r) /\ UNCHANGED <<ask, record, issue, index, late, step, todo, missed, misled>>
    BY <1>5 DEF Announce, tracker
  <2>5. QED BY <1>t, <1>c, <2>1, <2>3, <2>4 DEF TypeOK
<1>6. ASSUME NEW r \in Request, StartTask(r) PROVE TypeOK'
  BY <1>t, <1>6 DEF StartTask, Order!Start, tracker, TypeOK
<1>7. ASSUME NEW r \in Request, TaskStep(r) PROVE TypeOK'
  <2>1. /\ UNCHANGED <<ask, record, unanswered>> /\ phase[r] = "running" /\ (GoesOn(r) \/ Ends(r))
    BY <1>t, <1>7, TaskMoves
  <2>2. Subjects(r) \subseteq Feedback
    <3>1. pc[r] = "waiting"
      BY <1>t, <2>1 DEF StagesAgree, Stage
    <3>2. QED BY <1>n, <1>r, <3>1
  <2>3. /\ pc' \in [Request -> {"new", "verifying", "writing", "announcing", "waiting", "done"}]
        /\ answer' \in [Request -> {"none", "200", "404", "500", "502", "lost"}]
        /\ step' \in [Request -> {"none", "create", "look up", "sync", "close", "read", "comment"}]
        /\ todo' \in [Request -> Seq(Found)]
        /\ missed' \subseteq Feedback
        /\ work' = work /\ earlier' = earlier
        /\ phase' \in [Request -> {"new", "queued", "running", "ended"}]
    <3>1. CASE GoesOn(r)
      <4>1. UNCHANGED <<pc, answer, missed, work, earlier, phase>>
        BY <3>1 DEF GoesOn, queue
      <4>2. PICK next \in {"sync", "close", "read", "comment"}, list \in Seq(Found) :
              step' = [step EXCEPT ![r] = next] /\ todo' = [todo EXCEPT ![r] = list]
        BY <3>1 DEF GoesOn
      <4>3. step' \in [Request -> {"none", "create", "look up", "sync", "close", "read", "comment"}]
        BY <1>t, <4>2 DEF TypeOK
      <4>4. todo' \in [Request -> Seq(Found)]
        BY <1>t, <4>2 DEF TypeOK
      <4>5. QED BY <1>t, <4>1, <4>3, <4>4 DEF TypeOK
    <3>2. CASE Ends(r)
      <4>1. <<>> \in Seq(Found)
        OBVIOUS
      <4>2. EndTask(r)
        BY <3>2 DEF Ends, Resolve, Reject
      <4>3. /\ step' \in [Request -> {"none", "create", "look up", "sync", "close", "read", "comment"}]
            /\ work' = work /\ earlier' = earlier
            /\ phase' \in [Request -> {"new", "queued", "running", "ended"}]
        BY <1>t, <4>2 DEF EndTask, Order!End, TypeOK
      <4>4. todo' \in [Request -> Seq(Found)]
        BY <1>t, <4>1, <4>2 DEF EndTask, TypeOK
      <4>5. missed' \subseteq Feedback
        BY <1>t, <2>2, <3>2 DEF Ends, Resolve, Reject, TypeOK
      <4>6. /\ pc' \in [Request -> {"new", "verifying", "writing", "announcing", "waiting", "done"}]
            /\ answer' \in [Request -> {"none", "200", "404", "500", "502", "lost"}]
        BY <1>t, <3>2 DEF Ends, Resolve, Reject, Goto, Respond, TypeOK
      <4>7. QED BY <4>3, <4>4, <4>5, <4>6
    <3>3. QED BY <2>1, <3>1, <3>2
  <2>4. issue' \in [Feedback -> Issue \cup {None}] /\ index' = index /\ late' \subseteq Feedback \X Effects
    <3>1. CASE UNCHANGED tracker
      BY <1>t, <3>1 DEF tracker, TypeOK
    <3>2. CASE ~UNCHANGED tracker
      <4>1. PICK f, e : /\ Touches(r, f, e)
                        /\ \/ Effect(f, e) /\ UNCHANGED late
                           \/ UNCHANGED <<issue, index>> /\ late' = late \cup {<<f, e>>}
        BY <1>t, <1>7, <3>2, TaskEffects
      <4>2. f \in Feedback /\ e \in Effects /\ (e = "create" \/ issue[f] # None)
        BY <1>t, <4>1, TouchesFacts
      <4>3. late' \subseteq Feedback \X Effects
        <5>1. late \subseteq Feedback \X Effects
          BY <1>t DEF TypeOK
        <5>2. <<f, e>> \in Feedback \X Effects
          BY <4>2
        <5>3. QED BY <4>1, <5>1, <5>2
      <4>4. CASE Effect(f, e)
        BY <1>t, <4>2, <4>3, <4>4, EffectFacts
      <4>5. CASE UNCHANGED <<issue, index>>
        BY <1>t, <4>3, <4>5 DEF TypeOK
      <4>6. QED BY <4>1, <4>4, <4>5
    <3>3. QED BY <3>1, <3>2
  <2>5. misled' \subseteq Feedback \X {"stale", "late"}
    BY <1>t, <1>7, TaskEffects DEF TypeOK
  <2>6. QED BY <1>t, <2>1, <2>3, <2>4, <2>5 DEF TypeOK
<1>8. ASSUME NEW f \in Feedback, NEW e \in Effects, Land(f, e) PROVE TypeOK'
  <2>1. e = "create" \/ issue[f] # None
    BY <1>t, <1>8 DEF Land, IssuesKnown
  <2>2. issue' \in [Feedback -> Issue \cup {None}] /\ index' = index
    BY <1>t, <1>8, <2>1, EffectFacts DEF Land
  <2>3. late' \subseteq Feedback \X Effects /\ misled' \subseteq Feedback \X {"stale", "late"}
    <3>1. late \subseteq Feedback \X Effects /\ misled \subseteq Feedback \X {"stale", "late"}
      BY <1>t DEF TypeOK
    <3>2. late' \subseteq late /\ misled' = misled \cup {<<f, "late">>}
      BY <1>8 DEF Land
    <3>3. <<f, "late">> \in Feedback \X {"stale", "late"}
      OBVIOUS
    <3>4. QED BY <3>1, <3>2, <3>3
  <2>4. UNCHANGED <<ask, pc, answer, record, unanswered, step, todo, missed, work, earlier, phase>>
    BY <1>8 DEF Land, queue
  <2>5. QED BY <1>t, <2>2, <2>3, <2>4 DEF TypeOK
<1>9. ASSUME NEW f \in Feedback, Index(f) PROVE TypeOK'
  <2>1. issue[f].state \in State
    <3>1. issue[f] \in Issue
      BY <1>t, <1>9 DEF Index, TypeOK
    <3>2. QED BY <3>1 DEF Issue
  <2>2. QED BY <1>t, <1>9, <2>1 DEF Index, queue, TypeOK
<1>10. CASE Crash
  <2>1. missed' \subseteq Feedback
    <3>1. missed' = missed \cup UNION {Subjects(r) : r \in {q \in Request : pc[q] \notin {"new", "done"}}}
      BY <1>10 DEF Crash
    <3>2. \A r \in {q \in Request : pc[q] \notin {"new", "done"}} : Subjects(r) \subseteq Feedback
      BY <1>r, <1>n
    <3>3. missed \subseteq Feedback
      BY <1>t DEF TypeOK
    <3>4. QED BY <3>1, <3>2, <3>3
  <2>2. <<>> \in Seq(Found) /\ <<>> \in Seq(Request)
    OBVIOUS
  <2>3. QED BY <1>t, <1>10, <2>1, <2>2 DEF Crash, tracker, TypeOK
<1>11. CASE UNCHANGED vars
  BY <1>t, <1>11 DEF vars, tracker, queue, TypeOK
<1>12. QED BY <1>1, <1>2, <1>3, <1>4, <1>5, <1>6, <1>7, <1>8, <1>9, <1>10, <1>11 DEF Next, Step, TaskStep


\* A request nothing happens to keeps its stage.
LEMMA StageKept ==
  ASSUME NEW q \in Request, Stage(q), ask'[q] = ask[q], pc'[q] = pc[q], phase'[q] = phase[q],
         step'[q] = step[q], todo'[q] = todo[q]
  PROVE  Stage(q)'
BY AskKept DEF Stage

\* A request's step is its own: nothing happens to another request.
LEMMA OthersKept ==
  ASSUME BaseInv, NEW r \in Request, NEW q \in Request, q # r, (\E a \in Asks : Receive(r, a)) \/ Step(r)
  PROVE  /\ ask'[q] = ask[q] /\ pc'[q] = pc[q] /\ step'[q] = step[q] /\ todo'[q] = todo[q]
         /\ work'[q] = work[q] /\ earlier'[q] = earlier[q] /\ phase'[q] = phase[q]
<1>t. TypeOK /\ StagesAgree /\ IssuesKnown
  BY DEF BaseInv
<1>c. ASSUME CallHook(r) PROVE /\ pc'[q] = pc[q] /\ work'[q] = work[q] /\ earlier'[q] = earlier[q] /\ phase'[q] = phase[q]
  BY <1>t, <1>c DEF CallHook, Goto, Order!Queue, TypeOK
<1>g. ASSUME NEW l, Goto(r, l) \/ Respond(r, l) PROVE pc'[q] = pc[q]
  BY <1>t, <1>g DEF Goto, Respond, TypeOK
<1>1. CASE \E a \in Asks : Receive(r, a)
  <2>1. ask'[q] = ask[q]
    BY <1>t, <1>1 DEF Receive, TypeOK
  <2>2. QED BY <1>g, <1>1, <2>1 DEF Receive, queue
<1>2. CASE Verify(r)
  BY <1>c, <1>g, <1>2 DEF Verify, queue
<1>3. CASE Write(r)
  BY <1>g, <1>3 DEF Write, queue
<1>4. CASE WriteFails(r)
  BY <1>g, <1>4 DEF WriteFails, queue
<1>5. CASE Announce(r)
  BY <1>c, <1>5 DEF Announce
<1>6. CASE StartTask(r)
  BY <1>t, <1>6 DEF StartTask, Order!Start, TypeOK
<1>7. CASE TaskStep(r)
  <2>1. UNCHANGED ask /\ (GoesOn(r) \/ Ends(r))
    BY <1>t, <1>7, TaskMoves
  <2>2. CASE GoesOn(r)
    <3>1. UNCHANGED <<pc, work, earlier, phase>>
      BY <2>2 DEF GoesOn, queue
    <3>2. PICK next \in {"sync", "close", "read", "comment"}, list \in Seq(Found) :
            step' = [step EXCEPT ![r] = next] /\ todo' = [todo EXCEPT ![r] = list]
      BY <2>2 DEF GoesOn
    <3>3. step'[q] = step[q] /\ todo'[q] = todo[q]
      BY <1>t, <3>2 DEF TypeOK
    <3>4. QED BY <2>1, <3>1, <3>3
  <2>3. CASE Ends(r)
    <3>1. EndTask(r)
      BY <2>3 DEF Ends, Resolve, Reject
    <3>2. /\ step'[q] = step[q] /\ todo'[q] = todo[q]
          /\ work'[q] = work[q] /\ earlier'[q] = earlier[q] /\ phase'[q] = phase[q]
      BY <1>t, <3>1 DEF EndTask, Order!End, TypeOK
    <3>3. pc'[q] = pc[q]
      BY <1>g, <2>3 DEF Ends, Resolve, Reject
    <3>4. QED BY <2>1, <3>2, <3>3
  <2>4. QED BY <2>1, <2>2, <2>3
<1>8. QED BY <1>1, <1>2, <1>3, <1>4, <1>5, <1>6, <1>7 DEF Step, TaskStep

\* What happens when the tracker acts late, its search catches up, or nothing does.
Elsewhere == (\E f \in Feedback, e \in Effects : Land(f, e)) \/ (\E f \in Feedback : Index(f)) \/ UNCHANGED vars

\* The requests do not notice.
LEMMA ElsewhereFacts ==
  ASSUME Elsewhere
  PROVE  UNCHANGED <<ask, pc, answer, record, unanswered, step, todo, missed, work, earlier, phase>>
BY DEF Elsewhere, Land, Index, vars, queue, tracker

\* What a step is.
LEMMA Steps ==
  ASSUME [Next]_vars
  PROVE  (\E r \in Request : (\E a \in Asks : Receive(r, a)) \/ Step(r)) \/ Crash \/ Elsewhere
BY DEF Next, Elsewhere

\* Crash keeps what it does not end.
LEMMA CrashFacts ==
  ASSUME TypeOK, Crash, NEW q \in Request
  PROVE  /\ ask'[q] = ask[q] /\ work'[q] = work[q] /\ earlier'[q] = earlier[q]
         /\ pc'[q] = IF pc[q] = "new" THEN "new" ELSE "done"
         /\ phase'[q] = IF phase[q] = "new" THEN "new" ELSE "ended"
         /\ step'[q] = "none" /\ todo'[q] = <<>> /\ unanswered' = <<>>
         /\ UNCHANGED <<record, issue, index, late, misled>>
         /\ missed \subseteq missed' /\ (pc[q] \notin {"new", "done"} => Subjects(q) \subseteq missed')
<1> DEFINE lost == {r \in Request : pc[r] \notin {"new", "done"}}
<1>1. /\ pc' = [r \in Request |-> IF r \in lost THEN "done" ELSE pc[r]]
      /\ missed' = missed \cup UNION {Subjects(r) : r \in lost}
      /\ phase' = [r \in Request |-> IF phase[r] = "new" THEN "new" ELSE "ended"]
      /\ step' = [r \in Request |-> "none"] /\ todo' = [r \in Request |-> <<>>] /\ unanswered' = <<>>
      /\ UNCHANGED <<ask, record, tracker, misled, work, earlier>>
  BY DEF Crash
<1>2. pc'[q] = IF pc[q] = "new" THEN "new" ELSE "done"
  BY <1>1
<1>3. missed \subseteq missed' /\ (pc[q] \notin {"new", "done"} => Subjects(q) \subseteq missed')
  BY <1>1
<1>4. QED BY <1>1, <1>2, <1>3 DEF tracker

\* Every request keeps to its stages.
LEMMA StagesStep == BaseInv /\ [Next]_vars => StagesAgree'
<1> SUFFICES ASSUME BaseInv, [Next]_vars PROVE StagesAgree'
  OBVIOUS
<1>t. TypeOK /\ StagesAgree /\ InOrder /\ IssuesKnown
  BY DEF BaseInv
<1>1. ASSUME NEW r \in Request, (\E a \in Asks : Receive(r, a)) \/ Step(r), Stage(r)' PROVE StagesAgree'
  <2>1. \A q \in Request : q # r => Stage(q)'
    BY <1>t, <1>1, OthersKept, StageKept DEF StagesAgree
  <2>2. QED BY <1>1, <2>1 DEF StagesAgree
<1>s. \A r \in Request : Stage(r)
  BY <1>t DEF StagesAgree
<1>k. ASSUME NEW r \in Request, ask'[r] = ask[r]
      PROVE  Kind(r)' = Kind(r) /\ (Deletes(r)' <=> Deletes(r))
  BY <1>k, AskKept
<1>d. \A r \in Request : /\ Deletes(r) <=> Kind(r) \in {"delete", "deleteAll"}
                         /\ Kind(r) \in {"none", "create", "update", "delete", "deleteAll"}
                         /\ Kind(r) = "none" <=> ask[r] = None
  BY <1>t, RequestFacts
\* The hook is called.
<1>c. ASSUME NEW r \in Request, CallHook(r), UNCHANGED <<ask, step, todo>>, pc[r] \in {"verifying", "announcing"} PROVE Stage(r)'
  <2>1. pc'[r] = "waiting" /\ phase'[r] = "queued"
    BY <1>t, <1>c DEF CallHook, Goto, Order!Queue, TypeOK
  <2>2. Stage(r) /\ Kind(r)' = Kind(r) /\ (Deletes(r)' <=> Deletes(r))
    BY <1>s, <1>k, <1>c
  <2>3. QED BY <1>c, <2>1, <2>2 DEF Stage
<1>2. ASSUME NEW r \in Request, NEW a \in Asks, Receive(r, a) PROVE Stage(r)'
  <2>1. /\ ask'[r] = a /\ pc[r] = "new" /\ pc'[r] = IF a.kind = "create" THEN "writing" ELSE "verifying"
        /\ UNCHANGED <<step, todo, phase>>
    BY <1>t, <1>2 DEF Receive, Goto, TypeOK, queue
  <2>2. a # None
    BY AskFacts
  <2>3. Kind(r)' = a.kind /\ (Deletes(r)' <=> a.kind \in {"delete", "deleteAll"})
    BY <2>1, <2>2 DEF Kind, Deletes
  <2>4. phase[r] = "new" /\ step[r] = "none" /\ todo[r] = <<>>
    BY <1>s, <1>t, <2>1 DEF Stage, TypeOK
  <2>5. QED BY <2>1, <2>2, <2>3, <2>4 DEF Stage
<1>3. ASSUME NEW r \in Request, Verify(r) PROVE Stage(r)'
  <2>1. pc[r] = "verifying" /\ UNCHANGED <<ask, step, todo>> /\ Stage(r)
    BY <1>s, <1>3 DEF Verify
  <2>2. CASE CallHook(r)
    BY <1>c, <2>1, <2>2
  <2>3. CASE UNCHANGED queue /\ (Respond(r, "404") \/ (~Deletes(r) /\ Goto(r, "writing")))
    <3>p. DOMAIN pc = Request
      BY <1>t DEF TypeOK
    <3>1. phase'[r] = phase[r] /\ pc'[r] \in {"done", "writing"} /\ (pc'[r] = "writing" => ~Deletes(r))
      BY <2>3, <3>p DEF queue, Respond, Goto
    <3>2. Kind(r)' = Kind(r) /\ (Deletes(r)' <=> Deletes(r))
      BY <1>k, <2>1
    <3>3. QED BY <2>1, <3>1, <3>2 DEF Stage
  <2>4. QED BY <1>3, <2>2, <2>3 DEF Verify
<1>4. ASSUME NEW r \in Request, Write(r) \/ WriteFails(r) PROVE Stage(r)'
  <2>1. pc[r] = "writing" /\ UNCHANGED <<ask, step, todo, phase>> /\ Stage(r)
    BY <1>s, <1>4 DEF Write, WriteFails, queue
  <2>2. pc'[r] \in {"done", "announcing"} /\ (pc'[r] = "announcing" => ~Deletes(r))
    BY <1>t, <1>4 DEF Write, WriteFails, Respond, Goto, TypeOK
  <2>3. Kind(r)' = Kind(r) /\ (Deletes(r)' <=> Deletes(r))
    BY <1>k, <2>1
  <2>4. QED BY <1>d, <2>1, <2>2, <2>3 DEF Stage
<1>5. ASSUME NEW r \in Request, Announce(r) PROVE Stage(r)'
  BY <1>c, <1>5 DEF Announce
<1>6. ASSUME NEW r \in Request, StartTask(r) PROVE Stage(r)'
  <2>1. /\ phase[r] = "queued" /\ phase'[r] = "running" /\ UNCHANGED <<ask, pc, todo>>
        /\ step'[r] = IF Kind(r) = "create" THEN "create" ELSE "look up"
    BY <1>t, <1>6 DEF StartTask, Order!Start, Order!Free, TypeOK
  <2>2. Stage(r) /\ Kind(r)' = Kind(r) /\ (Deletes(r)' <=> Deletes(r))
    BY <1>s, <1>k, <2>1
  <2>3. step[r] = "none"
    BY <1>t, <2>1, <2>2 DEF Stage, TypeOK
  <2>4. QED BY <2>1, <2>2, <2>3 DEF Stage
<1>7. ASSUME NEW r \in Request, TaskStep(r) PROVE Stage(r)'
  <2>1. UNCHANGED ask /\ phase[r] = "running" /\ (GoesOn(r) \/ Ends(r))
    BY <1>t, <1>7, TaskMoves
  <2>2. Stage(r) /\ Kind(r)' = Kind(r) /\ (Deletes(r)' <=> Deletes(r))
    BY <1>s, <1>k, <2>1
  <2>3. CASE GoesOn(r)
    <3>1. UNCHANGED <<pc, work, earlier, phase>>
      BY <2>3 DEF GoesOn, queue
    <3>2. PICK next \in {"sync", "close", "read", "comment"}, list \in Seq(Found) :
            /\ step' = [step EXCEPT ![r] = next] /\ todo' = [todo EXCEPT ![r] = list]
            /\ IF next = "sync" THEN Kind(r) = "update" /\ list = <<>> ELSE Deletes(r) /\ list # <<>>
      BY <2>3 DEF GoesOn
    <3>3. step'[r] = next /\ todo'[r] = list
      BY <1>t, <3>2 DEF TypeOK
    <3>4. pc[r] = "waiting" /\ ask[r] # None
      BY <2>1, <2>2 DEF Stage
    <3>5. QED BY <2>1, <2>2, <3>1, <3>2, <3>3, <3>4 DEF Stage
  <2>4. CASE Ends(r)
    <3>1. EndTask(r)
      BY <2>4 DEF Ends, Resolve, Reject
    <3>2. step'[r] = "none" /\ todo'[r] = <<>> /\ phase'[r] = "ended"
      BY <1>t, <3>1 DEF EndTask, Order!End, TypeOK
    <3>3. pc'[r] \in {"done", "writing"} /\ (pc'[r] = "writing" => Deletes(r))
      BY <1>t, <2>4 DEF Ends, Resolve, Reject, Respond, Goto, TypeOK
    <3>4. pc[r] = "waiting" /\ ask[r] # None
      BY <2>1, <2>2 DEF Stage
    <3>5. QED BY <2>1, <2>2, <3>2, <3>3, <3>4 DEF Stage
  <2>5. QED BY <2>1, <2>3, <2>4
<1>8. CASE Crash
  <2>1. ASSUME NEW r \in Request PROVE Stage(r)'
    <3>1. /\ ask'[r] = ask[r] /\ pc'[r] = (IF pc[r] = "new" THEN "new" ELSE "done")
          /\ phase'[r] = (IF phase[r] = "new" THEN "new" ELSE "ended") /\ step'[r] = "none" /\ todo'[r] = <<>>
      BY <1>t, <1>8, CrashFacts
    <3>2. Stage(r) /\ Kind(r)' = Kind(r) /\ (Deletes(r)' <=> Deletes(r))
      BY <1>s, <1>k, <3>1
    <3>3. QED BY <3>1, <3>2 DEF Stage
  <2>2. QED BY <2>1 DEF StagesAgree
<1>9. CASE Elsewhere
  BY <1>s, <1>9, ElsewhereFacts, StageKept DEF StagesAgree
<1>10. QED BY <1>1, <1>2, <1>3, <1>4, <1>5, <1>6, <1>7, <1>8, <1>9, Steps DEF Step, TaskStep


\* A hook that is called queues its task after all that are queued.
LEMMA CallHookFacts ==
  ASSUME TypeOK, NEW r \in Request, CallHook(r)
  PROVE  /\ phase[r] = "new" /\ phase'[r] = "queued" /\ pc'[r] = "waiting"
         /\ work'[r] = WorkOf(r) /\ earlier'[r] = {u \in Request : phase[u] # "new"}
BY DEF CallHook, Goto, Order!Queue, TypeOK

\* The order is kept by all that neither queues nor starts a task.
LEMMA OrderKept ==
  ASSUME InOrder, UNCHANGED <<work, earlier>>,
         \A q \in Request : ask'[q] = ask[q] \/ phase'[q] = "new",
         \A q \in Request : phase'[q] = phase[q] \/ (phase[q] # "new" /\ phase'[q] = "ended"),
         \A q \in Request : Started(q)' => Started(q)
  PROVE  InOrder'
<1> SUFFICES ASSUME NEW u \in Request, NEW v \in Request
             PROVE  /\ phase'[v] # "new" => work'[v] = WorkOf(v)'
                    /\ u \in earlier'[v] => phase'[u] # "new"
                    /\ phase'[u] # "new" /\ phase'[v] # "new" => u = v \/ u \in earlier'[v] \/ v \in earlier'[u]
                    /\ Started(v)' /\ u \in earlier'[v] /\ Order!Blocks(work'[u], work'[v]) => phase'[u] = "ended"
  BY DEF InOrder, Order!Blocks
<1>1. phase'[v] # "new" => WorkOf(v)' = WorkOf(v)
  BY AskKept
<1>2. /\ phase[v] # "new" => work[v] = WorkOf(v)
      /\ u \in earlier[v] => phase[u] # "new"
      /\ phase[u] # "new" /\ phase[v] # "new" => u = v \/ u \in earlier[v] \/ v \in earlier[u]
      /\ Started(v) /\ u \in earlier[v] /\ Order!Blocks(work[u], work[v]) => phase[u] = "ended"
  BY DEF InOrder
<1>3. phase'[u] # "new" <=> phase[u] # "new"
  OBVIOUS
<1>4. phase'[v] # "new" <=> phase[v] # "new"
  OBVIOUS
<1>5. phase[u] = "ended" => phase'[u] = "ended"
  OBVIOUS
<1>6. Started(v)' => Started(v)
  OBVIOUS
<1>7. work' = work /\ earlier' = earlier
  OBVIOUS
<1>8. QED BY <1>1, <1>2, <1>3, <1>4, <1>5, <1>6, <1>7

\* The queue orders all tasks, and starts one when its turn has come.
LEMMA OrderStep == BaseInv /\ [Next]_vars => InOrder'
<1> SUFFICES ASSUME BaseInv, [Next]_vars PROVE InOrder'
  OBVIOUS
<1>t. TypeOK /\ StagesAgree /\ InOrder /\ IssuesKnown /\ TypeOK' /\ StagesAgree'
  BY TypeStep, StagesStep DEF BaseInv
<1>s. \A q \in Request : Stage(q) /\ Stage(q)'
  BY <1>t DEF StagesAgree
\* A hook that is called joins the queue.
<1>c. ASSUME NEW r \in Request, CallHook(r), UNCHANGED ask, Step(r) PROVE InOrder'
  <2>1. /\ phase[r] = "new" /\ phase'[r] = "queued" /\ pc'[r] = "waiting"
        /\ work'[r] = WorkOf(r) /\ earlier'[r] = {u \in Request : phase[u] # "new"}
    BY <1>t, <1>c, CallHookFacts
  <2>2. \A q \in Request : q # r => /\ pc'[q] = pc[q] /\ work'[q] = work[q]
                                   /\ earlier'[q] = earlier[q] /\ phase'[q] = phase[q]
    BY <1>c, OthersKept
  <2>3. \A q \in Request : /\ WorkOf(q)' = WorkOf(q) /\ (Deletes(q)' <=> Deletes(q))
    BY <1>c, AskKept
  <2>4. ~Started(r)'
    BY <2>1 DEF Started
  <2>5. \A q \in Request : q # r => (Started(q)' <=> Started(q))
    BY <2>2, <2>3 DEF Started
  <2>6. ASSUME NEW u \in Request, NEW v \in Request
        PROVE  /\ phase'[v] # "new" => work'[v] = WorkOf(v)'
               /\ u \in earlier'[v] => phase'[u] # "new"
               /\ phase'[u] # "new" /\ phase'[v] # "new" => u = v \/ u \in earlier'[v] \/ v \in earlier'[u]
               /\ Started(v)' /\ u \in earlier'[v] /\ Order!Blocks(work'[u], work'[v]) => phase'[u] = "ended"
    <3>1. /\ phase[v] # "new" => work[v] = WorkOf(v)
          /\ u \in earlier[v] => phase[u] # "new"
          /\ phase[u] # "new" /\ phase[v] # "new" => u = v \/ u \in earlier[v] \/ v \in earlier[u]
          /\ Started(v) /\ u \in earlier[v] /\ Order!Blocks(work[u], work[v]) => phase[u] = "ended"
      BY <1>t DEF InOrder
    <3>2. phase'[v] # "new" => work'[v] = WorkOf(v)'
      BY <2>1, <2>2, <2>3, <3>1
    <3>3. u \in earlier'[v] => phase'[u] # "new"
      BY <2>1, <2>2, <3>1
    <3>4. phase'[u] # "new" /\ phase'[v] # "new" => u = v \/ u \in earlier'[v] \/ v \in earlier'[u]
      BY <2>1, <2>2, <3>1
    <3>5. ASSUME Started(v)', u \in earlier'[v], Order!Blocks(work'[u], work'[v]) PROVE phase'[u] = "ended"
      <4>1. v # r
        BY <2>4, <3>5
      <4>2. Started(v) /\ u \in earlier[v] /\ u # r
        BY <2>1, <2>2, <2>5, <3>1, <3>5, <4>1
      <4>3. work'[u] = work[u] /\ work'[v] = work[v] /\ phase'[u] = phase[u]
        BY <2>2, <4>1, <4>2
      <4>4. Order!Blocks(work[u], work[v])
        BY <3>5, <4>3
      <4>5. QED BY <3>1, <4>2, <4>3, <4>4
    <3>6. QED BY <3>2, <3>3, <3>4, <3>5
  <2>7. QED BY <2>6 DEF InOrder, Order!Blocks
<1>1. ASSUME NEW r \in Request, NEW a \in Asks, Receive(r, a) PROVE InOrder'
  <2>1. UNCHANGED <<work, earlier, phase>>
    BY <1>1 DEF Receive, queue
  <2>2. \A q \in Request : q # r => ask'[q] = ask[q] /\ pc'[q] = pc[q]
    BY <1>1, OthersKept
  <2>3. pc[r] = "new" /\ phase[r] = "new"
    BY <1>s, <1>1 DEF Receive, Stage
  <2>4. ~Started(r)'
    BY <1>s, <2>1, <2>3 DEF Started, Stage
  <2>5. ASSUME NEW q \in Request, Started(q)' PROVE Started(q)
    <3>1. ask'[q] = ask[q] /\ pc'[q] = pc[q]
      BY <2>2, <2>4, <2>5
    <3>2. Deletes(q)' <=> Deletes(q)
      BY <3>1, AskKept
    <3>3. QED BY <2>1, <2>5, <3>1, <3>2 DEF Started
  <2>6. QED BY <1>t, <2>1, <2>2, <2>3, <2>5, OrderKept
\* A request that goes on without its task.
<1>g. ASSUME NEW r \in Request, Step(r), UNCHANGED <<ask, work, earlier, phase>>, ~Started(r)' PROVE InOrder'
  <2>1. \A q \in Request : q # r => pc'[q] = pc[q]
    BY <1>g, OthersKept
  <2>2. ASSUME NEW q \in Request, Started(q)' PROVE Started(q)
    <3>1. pc'[q] = pc[q] /\ (Deletes(q)' <=> Deletes(q))
      BY <1>g, <2>1, <2>2, AskKept
    <3>2. QED BY <1>g, <2>2, <3>1 DEF Started
  <2>3. QED BY <1>t, <1>g, <2>2, OrderKept
<1>2. ASSUME NEW r \in Request, Verify(r) PROVE InOrder'
  <2>1. CASE CallHook(r)
    BY <1>c, <1>2, <2>1 DEF Step, Verify
  <2>2. CASE UNCHANGED queue /\ (Respond(r, "404") \/ (~Deletes(r) /\ Goto(r, "writing")))
    <3>1. UNCHANGED <<ask, work, earlier, phase>> /\ pc[r] = "verifying"
      BY <1>2, <2>2 DEF Verify, queue
    <3>p. DOMAIN pc = Request
      BY <1>t DEF TypeOK
    <3>2. pc'[r] = "done" \/ ~Deletes(r)
      BY <2>2, <3>p DEF Respond
    <3>3. phase[r] = "new" /\ (Deletes(r)' <=> Deletes(r))
      BY <1>s, <3>1, AskKept DEF Stage
    <3>4. ~Started(r)'
      BY <3>1, <3>2, <3>3 DEF Started
    <3>5. QED BY <1>g, <1>2, <3>1, <3>4 DEF Step
  <2>3. QED BY <1>2, <2>1, <2>2 DEF Verify
<1>3. ASSUME NEW r \in Request, Write(r) \/ WriteFails(r) PROVE InOrder'
  <2>1. UNCHANGED <<ask, work, earlier, phase>>
    BY <1>3 DEF Write, WriteFails, queue
  <2>p. DOMAIN pc = Request
    BY <1>t DEF TypeOK
  <2>2. pc'[r] \in {"done", "announcing"}
    BY <1>3, <2>p DEF Write, WriteFails, Respond, Goto
  <2>3. phase'[r] # "running"
    BY <1>s, <2>2 DEF Stage
  <2>4. ~Started(r)'
    BY <2>2, <2>3 DEF Started
  <2>5. QED BY <1>g, <1>3, <2>1, <2>4 DEF Step
<1>4. ASSUME NEW r \in Request, Announce(r) PROVE InOrder'
  BY <1>c, <1>4 DEF Announce, Step
<1>5. ASSUME NEW r \in Request, StartTask(r) PROVE InOrder'
  <2>1. /\ UNCHANGED <<ask, pc, work, earlier>> /\ phase[r] = "queued" /\ phase'[r] = "running"
        /\ \A u \in earlier[r] : Order!Blocks(work[u], work[r]) => phase[u] = "ended"
        /\ \A q \in Request : q # r => phase'[q] = phase[q]
    <3>1. /\ UNCHANGED <<ask, pc, work, earlier>> /\ phase[r] = "queued" /\ phase' = [phase EXCEPT ![r] = "running"]
          /\ \A u \in earlier[r] : Order!Blocks(work[u], work[r]) => phase[u] = "ended"
      BY <1>5 DEF StartTask, Order!Start, Order!Free
    <3>2. phase \in [Request -> {"new", "queued", "running", "ended"}]
      BY <1>t DEF TypeOK
    <3>3. phase'[r] = "running" /\ \A q \in Request : q # r => phase'[q] = phase[q]
      BY <3>1, <3>2
    <3>4. QED BY <3>1, <3>3
  <2>2. \A q \in Request : /\ WorkOf(q)' = WorkOf(q) /\ (Deletes(q)' <=> Deletes(q))
    BY <2>1, AskKept
  <2>3. \A q \in Request : q # r => (Started(q)' <=> Started(q))
    BY <2>1, <2>2 DEF Started
  <2>4. ASSUME NEW u \in Request, NEW v \in Request
        PROVE  /\ phase'[v] # "new" => work'[v] = WorkOf(v)'
               /\ u \in earlier'[v] => phase'[u] # "new"
               /\ phase'[u] # "new" /\ phase'[v] # "new" => u = v \/ u \in earlier'[v] \/ v \in earlier'[u]
               /\ Started(v)' /\ u \in earlier'[v] /\ Order!Blocks(work'[u], work'[v]) => phase'[u] = "ended"
    <3>1. /\ phase[v] # "new" => work[v] = WorkOf(v)
          /\ u \in earlier[v] => phase[u] # "new"
          /\ phase[u] # "new" /\ phase[v] # "new" => u = v \/ u \in earlier[v] \/ v \in earlier[u]
          /\ Started(v) /\ u \in earlier[v] /\ Order!Blocks(work[u], work[v]) => phase[u] = "ended"
      BY <1>t DEF InOrder
    <3>2. /\ phase'[v] # "new" => work'[v] = WorkOf(v)'
          /\ u \in earlier'[v] => phase'[u] # "new"
          /\ phase'[u] # "new" /\ phase'[v] # "new" => u = v \/ u \in earlier'[v] \/ v \in earlier'[u]
      BY <2>1, <2>2, <3>1
    <3>3. ASSUME Started(v)', u \in earlier[v], Order!Blocks(work[u], work[v]) PROVE phase[u] = "ended"
      <4>1. CASE v = r
        BY <2>1, <3>3, <4>1
      <4>2. CASE v # r
        BY <2>3, <3>1, <3>3, <4>2
      <4>3. QED BY <4>1, <4>2
    <3>4. phase[u] = "ended" => phase'[u] = "ended"
      BY <2>1
    <3>5. work' = work /\ earlier' = earlier
      BY <2>1
    <3>6. QED BY <3>2, <3>3, <3>4, <3>5
  <2>5. QED BY <2>4 DEF InOrder, Order!Blocks
<1>6. ASSUME NEW r \in Request, TaskStep(r) PROVE InOrder'
  <2>1. UNCHANGED ask /\ phase[r] = "running" /\ (GoesOn(r) \/ Ends(r)) /\ Started(r)
    BY <1>t, <1>6, TaskMoves DEF Started
  <2>2. UNCHANGED <<work, earlier>> /\ (phase'[r] = "running" \/ phase'[r] = "ended")
    <3>1. CASE GoesOn(r)
      BY <2>1, <3>1 DEF GoesOn, queue
    <3>2. CASE Ends(r)
      <4>1. UNCHANGED <<work, earlier>> /\ phase' = [phase EXCEPT ![r] = "ended"]
        BY <3>2 DEF Ends, Resolve, Reject, EndTask, Order!End
      <4>2. phase \in [Request -> {"new", "queued", "running", "ended"}]
        BY <1>t DEF TypeOK
      <4>3. QED BY <4>1, <4>2
    <3>3. QED BY <2>1, <3>1, <3>2
  <2>3. \A q \in Request : q # r => pc'[q] = pc[q] /\ phase'[q] = phase[q]
    BY <1>6, OthersKept DEF Step, TaskStep
  <2>4. ASSUME NEW q \in Request, Started(q)' PROVE Started(q)
    <3>1. CASE q = r
      BY <2>1, <3>1
    <3>2. CASE q # r
      <4>1. pc'[q] = pc[q] /\ phase'[q] = phase[q] /\ (Deletes(q)' <=> Deletes(q))
        BY <2>1, <2>3, <3>2, AskKept
      <4>2. QED BY <2>4, <4>1 DEF Started
    <3>3. QED BY <3>1, <3>2
  <2>5. QED BY <1>t, <2>1, <2>2, <2>3, <2>4, OrderKept
<1>7. CASE Crash
  <2>1. \A q \in Request : /\ ask'[q] = ask[q]
                           /\ pc'[q] = (IF pc[q] = "new" THEN "new" ELSE "done")
                           /\ phase'[q] = (IF phase[q] = "new" THEN "new" ELSE "ended")
    BY <1>t, <1>7, CrashFacts
  <2>2. UNCHANGED <<work, earlier>>
    BY <1>7 DEF Crash
  <2>3. \A q \in Request : ~Started(q)'
    BY <2>1 DEF Started
  <2>4. QED BY <1>t, <2>1, <2>2, <2>3, OrderKept
<1>8. CASE Elsewhere
  <2>1. UNCHANGED <<ask, pc, work, earlier, phase>>
    BY <1>8, ElsewhereFacts
  <2>2. \A q \in Request : Started(q)' <=> Started(q)
    BY <2>1, AskKept DEF Started
  <2>3. QED BY <1>t, <2>1, <2>2, OrderKept
<1>9. QED BY <1>1, <1>2, <1>3, <1>4, <1>5, <1>6, <1>7, <1>8, Steps DEF Step, TaskStep


\* The writes that wait for their answers are those of the requests that announce.
LEMMA AnnouncementsStep == BaseInv /\ [Next]_vars => Announcements'
<1> SUFFICES ASSUME BaseInv, [Next]_vars PROVE Announcements'
  OBVIOUS
<1>t. TypeOK /\ StagesAgree /\ Announcements /\ IssuesKnown
  BY DEF BaseInv
<1>q. unanswered \in Seq(Request) /\ Len(unanswered) \in Nat
  <2>1. unanswered \in Seq(Request)
    BY <1>t DEF TypeOK
  <2>2. QED BY <2>1
<1>a. /\ \A m, n \in 1..Len(unanswered) : unanswered[m] = unanswered[n] => m = n
      /\ \A n \in 1..Len(unanswered) : pc[unanswered[n]] = "announcing"
      /\ \A r \in Request : pc[r] = "announcing" => \E n \in 1..Len(unanswered) : unanswered[n] = r
  BY <1>t DEF Announcements
<1>k. ASSUME unanswered' = unanswered, \A r \in Request : pc'[r] = "announcing" <=> pc[r] = "announcing"
      PROVE  Announcements'
  <2>1. \A n \in 1..Len(unanswered) : unanswered[n] \in Request
    BY <1>q
  <2>2. QED BY <1>a, <1>k, <2>1 DEF Announcements
<1>1. ASSUME NEW r \in Request, NEW a \in Asks, Receive(r, a) PROVE Announcements'
  BY <1>t, <1>k, <1>1 DEF Receive, Goto, TypeOK
<1>2. ASSUME NEW r \in Request, Verify(r) PROVE Announcements'
  <2>1. pc[r] = "verifying" /\ unanswered' = unanswered
    BY <1>2 DEF Verify
  <2>2. pc'[r] # "announcing" /\ \A q \in Request : q # r => pc'[q] = pc[q]
    BY <1>t, <1>2 DEF Verify, CallHook, Goto, Respond, TypeOK
  <2>3. QED BY <1>k, <2>1, <2>2
<1>3. ASSUME NEW r \in Request, Write(r) PROVE Announcements'
  <2>1. pc[r] = "writing"
    BY <1>3 DEF Write
  <2>2. CASE unanswered' = unanswered /\ \E c \in {"200", "404"} : Respond(r, c)
    <3>1. pc'[r] # "announcing" /\ \A q \in Request : q # r => pc'[q] = pc[q]
      BY <1>t, <2>2 DEF Respond, TypeOK
    <3>2. QED BY <1>k, <2>1, <2>2, <3>1
  <2>3. CASE unanswered' = Append(unanswered, r) /\ Goto(r, "announcing")
    <3>1. pc'[r] = "announcing" /\ \A q \in Request : q # r => pc'[q] = pc[q]
      BY <1>t, <2>3 DEF Goto, TypeOK
    <3>2. /\ Len(unanswered') = Len(unanswered) + 1
          /\ unanswered'[Len(unanswered) + 1] = r
          /\ \A n \in 1..Len(unanswered) : unanswered'[n] = unanswered[n] /\ unanswered[n] \in Request
      BY <1>q, <2>3
    <3>3. \A n \in 1..Len(unanswered) : unanswered[n] # r
      BY <1>a, <2>1
    <3>4. \A n \in 1..Len(unanswered') : n \in 1..Len(unanswered) \/ n = Len(unanswered) + 1
      BY <1>q, <3>2
    <3>5. \A m, n \in 1..Len(unanswered') : unanswered'[m] = unanswered'[n] => m = n
      BY <1>a, <3>2, <3>3, <3>4
    <3>6. \A n \in 1..Len(unanswered') : pc'[unanswered'[n]] = "announcing"
      BY <1>a, <3>1, <3>2, <3>3, <3>4
    <3>7. ASSUME NEW q \in Request, pc'[q] = "announcing" PROVE \E n \in 1..Len(unanswered') : unanswered'[n] = q
      <4>1. Len(unanswered) + 1 \in 1..Len(unanswered') /\ 1..Len(unanswered) \subseteq 1..Len(unanswered')
        BY <1>q, <3>2
      <4>2. CASE q = r
        BY <3>2, <4>1, <4>2
      <4>3. CASE q # r
        <5>1. PICK n \in 1..Len(unanswered) : unanswered[n] = q
          BY <1>a, <3>1, <3>7, <4>3
        <5>2. QED BY <3>2, <4>1, <5>1
      <4>4. QED BY <4>2, <4>3
    <3>8. QED BY <3>5, <3>6, <3>7 DEF Announcements
  <2>4. QED BY <1>3, <2>2, <2>3 DEF Write
<1>4. ASSUME NEW r \in Request, WriteFails(r) PROVE Announcements'
  <2>1. pc[r] = "writing" /\ unanswered' = unanswered /\ Respond(r, "500")
    BY <1>4 DEF WriteFails
  <2>2. pc'[r] # "announcing" /\ \A q \in Request : q # r => pc'[q] = pc[q]
    BY <1>t, <2>1 DEF Respond, TypeOK
  <2>3. QED BY <1>k, <2>1, <2>2
<1>5. ASSUME NEW r \in Request, Announce(r) PROVE Announcements'
  <2>1. PICK n \in 1..Len(unanswered) : unanswered[n] = r /\ unanswered' = RemoveAt(unanswered, n)
    BY <1>5 DEF Announce
  <2>2. pc'[r] = "waiting" /\ \A q \in Request : q # r => pc'[q] = pc[q]
    <3>1. CallHook(r)
      BY <1>5 DEF Announce
    <3>2. QED BY <1>t, <3>1 DEF CallHook, Goto, TypeOK
  <2> DEFINE p == unanswered'
  <2>3. /\ p \in Seq(Request) /\ Len(p) = Len(unanswered) - 1
        /\ \A m \in 1..Len(p) : /\ m < n => p[m] = unanswered[m]
                                /\ m >= n => p[m] = unanswered[m + 1]
    BY <1>q, <2>1, RemoveAtFacts
  <2> HIDE DEF p
  <2>4. ASSUME NEW m \in 1..Len(p)
        PROVE  \/ m < n /\ m \in 1..Len(unanswered) /\ p[m] = unanswered[m]
               \/ m >= n /\ m + 1 \in 1..Len(unanswered) /\ p[m] = unanswered[m + 1]
    BY <1>q, <2>3
  <2>5. ASSUME NEW k \in 1..Len(p), NEW m \in 1..Len(p), p[k] = p[m] PROVE k = m
    <3>1. CASE k < n /\ m < n
      BY <1>a, <2>4, <2>5, <3>1
    <3>2. CASE k >= n /\ m >= n
      <4>1. unanswered[k + 1] = unanswered[m + 1] /\ k + 1 \in 1..Len(unanswered) /\ m + 1 \in 1..Len(unanswered)
        BY <2>4, <2>5, <3>2
      <4>2. k + 1 = m + 1
        BY <1>a, <4>1
      <4>3. QED BY <4>2
    <3>3. CASE k < n /\ m >= n
      <4>1. unanswered[k] = unanswered[m + 1] /\ k \in 1..Len(unanswered) /\ m + 1 \in 1..Len(unanswered)
        BY <2>4, <2>5, <3>3
      <4>2. k = m + 1
        BY <1>a, <4>1
      <4>3. QED BY <3>3, <4>2
    <3>4. CASE k >= n /\ m < n
      <4>1. unanswered[k + 1] = unanswered[m] /\ k + 1 \in 1..Len(unanswered) /\ m \in 1..Len(unanswered)
        BY <2>4, <2>5, <3>4
      <4>2. k + 1 = m
        BY <1>a, <4>1
      <4>3. QED BY <3>4, <4>2
    <3>5. QED BY <3>1, <3>2, <3>3, <3>4
  <2>6. ASSUME NEW m \in 1..Len(p) PROVE pc'[p[m]] = "announcing"
    <3>1. PICK k \in 1..Len(unanswered) : k # n /\ p[m] = unanswered[k]
      <4>1. CASE m < n
        BY <2>4, <4>1
      <4>2. CASE m >= n
        <5>1. m + 1 # n
          BY <4>2
        <5>2. QED BY <2>4, <4>2, <5>1
      <4>3. QED BY <4>1, <4>2
    <3>2. unanswered[k] # r /\ unanswered[k] \in Request /\ pc[unanswered[k]] = "announcing"
      BY <1>a, <1>q, <2>1, <3>1
    <3>3. QED BY <2>2, <3>1, <3>2
  <2>7. ASSUME NEW q \in Request, pc'[q] = "announcing" PROVE \E m \in 1..Len(p) : p[m] = q
    <3>1. q # r /\ pc[q] = "announcing"
      BY <2>2, <2>7
    <3>2. PICK k \in 1..Len(unanswered) : unanswered[k] = q
      BY <1>a, <3>1
    <3>3. k # n
      BY <2>1, <3>1, <3>2
    <3>4. CASE k < n
      <4>1. k \in 1..Len(p)
        BY <1>q, <2>3, <3>4
      <4>2. QED BY <2>3, <3>2, <3>4, <4>1
    <3>5. CASE k > n
      <4>1. k - 1 \in 1..Len(p) /\ k - 1 >= n /\ (k - 1) + 1 = k
        BY <1>q, <2>3, <3>5
      <4>2. p[k - 1] = unanswered[(k - 1) + 1]
        BY <2>3, <4>1
      <4>3. QED BY <3>2, <4>1, <4>2
    <3>6. QED BY <3>3, <3>4, <3>5
  <2>8. QED BY <2>5, <2>6, <2>7 DEF Announcements, p
<1>6. ASSUME NEW r \in Request, StartTask(r) PROVE Announcements'
  BY <1>k, <1>6 DEF StartTask
<1>7. ASSUME NEW r \in Request, TaskStep(r) PROVE Announcements'
  <2>1. unanswered' = unanswered /\ phase[r] = "running" /\ (GoesOn(r) \/ Ends(r))
    BY <1>t, <1>7, TaskMoves
  <2>2. pc[r] = "waiting"
    BY <1>t, <2>1 DEF StagesAgree, Stage
  <2>3. pc'[r] # "announcing" /\ \A q \in Request : q # r => pc'[q] = pc[q]
    <3>1. CASE GoesOn(r)
      BY <2>2, <3>1 DEF GoesOn
    <3>2. CASE Ends(r)
      BY <1>t, <3>2 DEF Ends, Resolve, Reject, Respond, Goto, TypeOK
    <3>3. QED BY <2>1, <3>1, <3>2
  <2>4. QED BY <1>k, <2>1, <2>2, <2>3
<1>8. CASE Crash
  <2>1. \A q \in Request : pc'[q] # "announcing" /\ unanswered' = <<>>
    BY <1>t, <1>8, CrashFacts
  <2>2. Len(unanswered') = 0
    BY <1>8 DEF Crash
  <2>3. QED BY <2>1, <2>2 DEF Announcements
<1>9. CASE Elsewhere
  BY <1>k, <1>9, ElsewhereFacts
<1>10. QED BY <1>1, <1>2, <1>3, <1>4, <1>5, <1>6, <1>7, <1>8, <1>9, Steps DEF Step, TaskStep

\* An issue changes when a task touches it, or a request given up on reaches it.
LEMMA IssueMoves ==
  ASSUME BaseInv, [Next]_vars
  PROVE  \/ issue' = issue
         \/ \E r \in Request : TaskStep(r) /\ \E f, e : Touches(r, f, e) /\ Effect(f, e)
         \/ \E f \in Feedback, e \in Effects : Land(f, e)
<1>t. TypeOK /\ StagesAgree /\ IssuesKnown
  BY DEF BaseInv
<1>1. ASSUME NEW r \in Request, TaskStep(r) PROVE issue' = issue \/ \E f, e : Touches(r, f, e) /\ Effect(f, e)
  BY <1>t, <1>1, TaskEffects DEF tracker
<1>2. ASSUME NEW r \in Request, (\E a \in Asks : Receive(r, a)) \/ Verify(r) \/ Write(r) \/ WriteFails(r) \/ Announce(r) \/ StartTask(r)
      PROVE  issue' = issue
  BY <1>2 DEF Receive, Verify, Write, WriteFails, Announce, StartTask, tracker
<1>3. CASE Crash \/ (\E f \in Feedback : Index(f)) \/ UNCHANGED vars
  BY <1>3 DEF Crash, Index, vars, tracker
<1>4. QED BY <1>1, <1>2, <1>3, Steps DEF Step, TaskStep, Elsewhere

\* An issue stays, and so do its comments but where a deletion comments, another
\* creation makes a new one, or a request given up on reaches it.
LEMMA IssuesStay ==
  ASSUME BaseInv, [Next]_vars, NEW f \in Feedback, issue[f] # None
  PROVE  /\ issue'[f] # None
         /\ \/ issue'[f].comments = issue[f].comments
            \/ \E r \in Request : Touches(r, f, "comment") /\ TaskStep(r) /\ issue'[f].comments = issue[f].comments + 1
            \/ issue'[f].comments = 0 /\ \E r \in Request : Touches(r, f, "create") /\ TaskStep(r)
            \/ <<f, "late">> \in misled'
<1>t. TypeOK /\ StagesAgree /\ IssuesKnown
  BY DEF BaseInv
<1>1. CASE issue' = issue
  BY <1>1
<1>2. ASSUME NEW r \in Request, TaskStep(r), NEW g, NEW e, Touches(r, g, e), Effect(g, e) 
      PROVE  /\ issue'[f] # None
             /\ \/ issue'[f].comments = issue[f].comments
                \/ Touches(r, f, "comment") /\ TaskStep(r) /\ issue'[f].comments = issue[f].comments + 1
                \/ issue'[f].comments = 0 /\ \E q \in Request : Touches(q, f, "create") /\ TaskStep(q)
  <2>1. g \in Feedback /\ e \in Effects /\ (e = "create" \/ issue[g] # None)
    BY <1>t, <1>2, TouchesFacts
  <2>2. /\ issue'[g] # None
        /\ \A h \in Feedback : h # g => issue'[h] = issue[h]
        /\ e = "comment" => issue'[g].comments = issue[g].comments + 1
        /\ e = "create" => issue'[g].comments = 0
        /\ e \notin {"create", "comment"} => issue'[g].comments = issue[g].comments
    BY <1>t, <1>2, <2>1, EffectFacts
  <2>3. QED BY <1>2, <2>2
<1>3. ASSUME NEW g \in Feedback, NEW e \in Effects, Land(g, e) PROVE issue'[f] # None /\ (issue'[f].comments = issue[f].comments \/ <<f, "late">> \in misled')
  <2>1. e = "create" \/ issue[g] # None
    BY <1>t, <1>3 DEF IssuesKnown, Land
  <2>2. issue'[g] # None /\ \A h \in Feedback : h # g => issue'[h] = issue[h]
    BY <1>t, <1>3, <2>1, EffectFacts DEF Land
  <2>3. <<g, "late">> \in misled'
    BY <1>3 DEF Land
  <2>4. QED BY <2>2, <2>3
<1>4. QED BY <1>1, <1>2, <1>3, IssueMoves


\* What a step does to a task: nothing, it goes on, or it has no list (any more).
LEMMA TasksMove ==
  ASSUME BaseInv, [Next]_vars, NEW q \in Request
  PROVE  \/ ask'[q] = ask[q] /\ step'[q] = step[q] /\ todo'[q] = todo[q]
         \/ TaskStep(q) /\ GoesOn(q) /\ ask'[q] = ask[q]
         \/ step'[q] \notin {"sync", "close", "read", "comment"} /\ todo'[q] = <<>>
<1>t. TypeOK /\ StagesAgree /\ IssuesKnown /\ StagesAgree'
  BY StagesStep DEF BaseInv
<1>s. Stage(q) /\ Stage(q)'
  BY <1>t DEF StagesAgree
<1>1. CASE \E a \in Asks : Receive(q, a)
  <2>1. pc[q] = "new" /\ step' = step /\ todo' = todo
    BY <1>1 DEF Receive
  <2>2. step[q] = "none" /\ todo[q] = <<>>
    BY <1>s, <1>t, <2>1 DEF Stage, TypeOK
  <2>3. QED BY <2>1, <2>2
<1>2. CASE Verify(q) \/ Write(q) \/ WriteFails(q) \/ Announce(q)
  BY <1>2 DEF Verify, Write, WriteFails, Announce
<1>3. CASE StartTask(q)
  <2>1. phase[q] = "queued" /\ todo' = todo /\ step'[q] \in {"create", "look up"}
    BY <1>t, <1>3 DEF StartTask, Order!Start, Order!Free, TypeOK
  <2>2. todo[q] = <<>>
    BY <1>s, <2>1 DEF Stage
  <2>3. QED BY <2>1, <2>2
<1>4. CASE TaskStep(q)
  <2>1. UNCHANGED ask /\ (GoesOn(q) \/ Ends(q))
    BY <1>t, <1>4, TaskMoves
  <2>2. CASE Ends(q)
    <3>1. EndTask(q)
      BY <2>2 DEF Ends, Resolve, Reject
    <3>2. step'[q] = "none" /\ todo'[q] = <<>>
      BY <1>t, <3>1 DEF EndTask, TypeOK
    <3>3. QED BY <3>2
  <2>3. QED BY <1>4, <2>1, <2>2
<1>5. ASSUME NEW r \in Request, q # r, (\E a \in Asks : Receive(r, a)) \/ Step(r) PROVE ask'[q] = ask[q] /\ step'[q] = step[q] /\ todo'[q] = todo[q]
  BY <1>5, OthersKept
<1>6. CASE Crash
  BY <1>t, <1>6, CrashFacts
<1>7. CASE Elsewhere
  BY <1>7, ElsewhereFacts
<1>8. QED BY <1>1, <1>2, <1>3, <1>4, <1>5, <1>6, <1>7, Steps DEF Step, TaskStep

\* A request given up on waits for its time only when its task gave up.
LEMMA LateMoves ==
  ASSUME BaseInv, [Next]_vars, NEW g \in Feedback, NEW d \in Effects, <<g, d>> \in late'
  PROVE  <<g, d>> \in late \/ \E r \in Request : TaskStep(r) /\ Touches(r, g, d)
<1>t. TypeOK /\ StagesAgree /\ IssuesKnown
  BY DEF BaseInv
<1>1. ASSUME NEW r \in Request, TaskStep(r) PROVE late' = late \/ \E f, e : Touches(r, f, e) /\ late' = late \cup {<<f, e>>}
  BY <1>t, <1>1, TaskEffects DEF tracker
<1>2. ASSUME NEW r \in Request, TaskStep(r), NEW f, NEW e, Touches(r, f, e), late' = late \cup {<<f, e>>}
      PROVE  <<g, d>> \in late \/ Touches(r, g, d)
  BY <1>2
<1>3. ASSUME NEW r \in Request, (\E a \in Asks : Receive(r, a)) \/ Verify(r) \/ Write(r) \/ WriteFails(r) \/ Announce(r) \/ StartTask(r)
      PROVE  late' = late
  BY <1>3 DEF Receive, Verify, Write, WriteFails, Announce, StartTask, tracker
<1>4. CASE Crash \/ (\E f \in Feedback : Index(f)) \/ UNCHANGED vars
  BY <1>4 DEF Crash, Index, vars, tracker
<1>5. ASSUME NEW f \in Feedback, NEW e \in Effects, Land(f, e) PROVE late' \subseteq late
  BY <1>5 DEF Land
<1>6. QED BY <1>1, <1>2, <1>3, <1>4, <1>5, Steps DEF Step, TaskStep, Elsewhere

\* What a tracker request changes stays there to be changed.
LEMMA KnownStep == BaseInv /\ [Next]_vars => IssuesKnown'
<1> SUFFICES ASSUME BaseInv, [Next]_vars PROVE IssuesKnown'
  OBVIOUS
<1>t. TypeOK /\ StagesAgree /\ IssuesKnown /\ TypeOK' /\ StagesAgree'
  BY TypeStep, StagesStep DEF BaseInv
<1>k. /\ \A f \in Feedback, e \in Effects : <<f, e>> \in late => e = "create" \/ issue[f] # None
      /\ \A r \in Request : step[r] = "sync" => issue[Subject(r)] # None
      /\ \A r \in Request : \A n \in 1..Len(todo[r]) :
           todo[r][n].feedback \in Subjects(r) /\ issue[todo[r][n].feedback] # None
  BY <1>t DEF IssuesKnown
<1>i. \A f \in Feedback : issue[f] # None => issue'[f] # None
  BY IssuesStay
<1>1. ASSUME NEW f \in Feedback, NEW e \in Effects, <<f, e>> \in late' PROVE e = "create" \/ issue'[f] # None
  <2>1. CASE <<f, e>> \in late
    BY <1>k, <1>i, <2>1
  <2>2. CASE <<f, e>> \notin late
    <3>1. PICK r \in Request : TaskStep(r) /\ Touches(r, f, e)
      BY <1>1, <2>2, LateMoves
    <3>2. QED BY <1>t, <1>i, <3>1, TouchesFacts
  <2>3. QED BY <2>1, <2>2
<1>s. ASSUME NEW r \in Request, Kind(r) # "none" PROVE Subjects(r) \subseteq Feedback /\ (Kind(r) = "update" => Subject(r) \in Feedback)
  BY <1>t, <1>s, RequestFacts
<1>2. ASSUME NEW r \in Request, step'[r] = "sync" PROVE issue'[Subject(r)'] # None
  <2>1. CASE ask'[r] = ask[r] /\ step'[r] = step[r]
    <3>1. Kind(r) = "update" /\ Subject(r)' = Subject(r)
      BY <1>t, <1>2, <2>1, AskKept DEF StagesAgree, Stage
    <3>2. QED BY <1>k, <1>i, <1>s, <1>2, <2>1, <3>1
  <2>2. CASE GoesOn(r) /\ ask'[r] = ask[r]
    <3>1. Kind(r) = "update" /\ issue[Subject(r)] # None
      <4>1. PICK next \in {"sync", "close", "read", "comment"}, list \in Seq(Found) :
              /\ step' = [step EXCEPT ![r] = next]
              /\ IF next = "sync" THEN Kind(r) = "update" /\ issue[Subject(r)] # None /\ list = <<>> ELSE Deletes(r) /\ list # <<>>
        BY <2>2 DEF GoesOn
      <4>2. next = "sync"
        BY <1>t, <1>2, <4>1 DEF TypeOK
      <4>3. QED BY <4>1, <4>2
    <3>2. QED BY <1>i, <1>s, <2>2, <3>1, AskKept
  <2>3. QED BY <1>2, <2>1, <2>2, TasksMove
<1>3. ASSUME NEW r \in Request, NEW n \in 1..Len(todo'[r])
      PROVE  todo'[r][n].feedback \in Subjects(r)' /\ issue'[todo'[r][n].feedback] # None
  <2>1. todo'[r] # <<>>
    <3>1. CASE todo'[r] = <<>>
      <4>1. 1..Len(<<>>) = {}
        OBVIOUS
      <4>2. QED BY <1>3, <3>1, <4>1
    <3>2. QED BY <3>1
  <2>2. \/ ask'[r] = ask[r] /\ todo'[r] = todo[r]
        \/ GoesOn(r) /\ ask'[r] = ask[r]
    BY <2>1, TasksMove
  <2>3. Kind(r)' # "none"
    BY <1>t, <2>1 DEF StagesAgree, Stage, Deletes
  <2>4. Subjects(r)' = Subjects(r) /\ Kind(r)' = Kind(r)
    BY <2>2, AskKept
  <2>5. Subjects(r) \subseteq Feedback
    BY <1>s, <2>3, <2>4
  <2>6. todo'[r][n].feedback \in Subjects(r) /\ issue[todo'[r][n].feedback] # None
    <3>1. CASE todo'[r] = todo[r]
      BY <1>k, <1>3, <3>1
    <3>2. CASE GoesOn(r)
      <4>1. PICK next, list \in Seq(Found) :
              /\ todo' = [todo EXCEPT ![r] = list]
              /\ \A m \in 1..Len(list) : list[m].feedback \in Subjects(r) /\ issue[list[m].feedback] # None
        BY <3>2 DEF GoesOn
      <4>p. DOMAIN todo = Request
        BY <1>t DEF TypeOK
      <4>2. todo'[r] = list
        BY <4>1, <4>p
      <4>3. QED BY <1>3, <4>1, <4>2
    <3>3. QED BY <2>2, <3>1, <3>2
  <2>7. QED BY <1>i, <2>4, <2>5, <2>6
<1>4. QED BY <1>1, <1>2, <1>3 DEF IssuesKnown

\* At the start nothing was asked.
LEMMA BaseInit == Init => BaseInv
<1> SUFFICES ASSUME Init PROVE BaseInv
  OBVIOUS
<1>1. Existing \subseteq Feedback /\ "open" \in Status /\ None \notin Feedback
  BY IssueHooksAssumption
<1>2. /\ ask = [r \in Request |-> None] /\ pc = [r \in Request |-> "new"] /\ answer = [r \in Request |-> "none"]
      /\ record = [f \in Feedback |-> IF f \in Existing THEN "open" ELSE None]
      /\ unanswered = <<>> /\ late = {} /\ missed = {} /\ misled = {}
      /\ issue \in [Feedback -> {None, [state |-> "open", comments |-> 0]}]
      /\ index = [f \in Feedback |-> IF issue[f] = None THEN None ELSE "open"]
      /\ step = [r \in Request |-> "none"] /\ todo = [r \in Request |-> <<>>]
      /\ work = [r \in Request |-> None] /\ earlier = [r \in Request |-> {}] /\ phase = [r \in Request |-> "new"]
  BY DEF Init, Order!Init
<1>3. [state |-> "open", comments |-> 0] \in Issue /\ "open" \in State
  BY DEF Issue, State
<1>4. TypeOK
  <2>1. <<>> \in Seq(Request) /\ <<>> \in Seq(Found)
    OBVIOUS
  <2>2. issue \in [Feedback -> Issue \cup {None}]
    BY <1>2, <1>3
  <2>3. index \in [Feedback -> State \cup {None}]
    BY <1>2, <1>3
  <2>4. record \in [Feedback -> Status \cup {None}]
    BY <1>1, <1>2
  <2>5. QED BY <1>2, <2>1, <2>2, <2>3, <2>4 DEF TypeOK
<1>5. StagesAgree
  BY <1>2 DEF StagesAgree, Stage, Kind, Deletes
<1>6. InOrder
  BY <1>2 DEF InOrder, Started
<1>7. Announcements
  BY <1>2 DEF Announcements
<1>8. IssuesKnown
  BY <1>2 DEF IssuesKnown
<1>9. QED BY <1>4, <1>5, <1>6, <1>7, <1>8 DEF BaseInv

\* All of it is kept.
LEMMA BaseStep == BaseInv /\ [Next]_vars => BaseInv'
BY TypeStep, StagesStep, OrderStep, AnnouncementsStep, KnownStep DEF BaseInv

\* Every reachable state satisfies it.
LEMMA BaseAlways == Spec => []BaseInv
BY BaseInit, BaseStep, PTL DEF Spec

\* The types of the hooks: every variable stays in its set.
THEOREM TypeCorrect == Spec => []TypeOK
<1>1. BaseInv => TypeOK
  BY DEF BaseInv
<1>2. QED BY <1>1, BaseAlways, PTL


(***************************************************************************)
(* One deletion comment.                                                   *)
(***************************************************************************)
\* No two deletions of a feedback run at once, and no two of its other tasks.
LEMMA OneRuns ==
  ASSUME BaseInv, NEW q \in Request, NEW r \in Request, NEW f \in Feedback,
         phase[q] = "running", phase[r] = "running", f \in Subjects(q), f \in Subjects(r), Deletes(q) <=> Deletes(r)
  PROVE  q = r
<1>t. TypeOK /\ StagesAgree /\ InOrder
  BY DEF BaseInv
<1>1. /\ Kind(q) \in {"create", "update", "delete", "deleteAll"}
      /\ Kind(r) \in {"create", "update", "delete", "deleteAll"}
  <2>1. ask[q] # None /\ ask[r] # None
    BY <1>t DEF StagesAgree, Stage
  <2>2. QED BY <1>t, <2>1, RequestFacts
<1>2. Order!Blocks(WorkOf(q), WorkOf(r)) /\ Order!Blocks(WorkOf(r), WorkOf(q))
  BY <1>t, <1>1, BlocksOn
<1>3. work[q] = WorkOf(q) /\ work[r] = WorkOf(r) /\ (q = r \/ q \in earlier[r] \/ r \in earlier[q])
  BY <1>t DEF InOrder
<1>4. Order!Blocks(work[q], work[r]) /\ Order!Blocks(work[r], work[q])
  BY <1>2, <1>3
<1>5. /\ q \in earlier[r] /\ Order!Blocks(work[q], work[r]) => phase[q] = "ended"
      /\ r \in earlier[q] /\ Order!Blocks(work[r], work[q]) => phase[r] = "ended"
  BY <1>t DEF InOrder, Started
<1>6. QED BY <1>3, <1>4, <1>5

\* A deletion is about to comment once it found no comment.
LEMMA AboutToComment ==
  ASSUME BaseInv, NEW r \in Request, TaskStep(r), step'[r] = "comment"
  PROVE  /\ step[r] = "read" /\ issue' = issue /\ todo'[r] = todo[r]
         /\ issue[Head(todo[r]).feedback].comments = 0
<1>t. TypeOK /\ StagesAgree /\ IssuesKnown
  BY DEF BaseInv
<1>y. step \in [Request -> {"none", "create", "look up", "sync", "close", "read", "comment"}]
  BY <1>t DEF TypeOK
<1>e. ~EndTask(r)
  BY <1>y DEF EndTask
<1>h. ASSUME NEW list, Handle(r, list) PROVE FALSE
  BY <1>e, <1>h, <1>y DEF Handle, Resolve
<1>n. ASSUME NEW next, Then(r, next) PROVE next = "comment"
  BY <1>n, <1>y DEF Then
<1>1. ReadComments(r) /\ ~HasDeletionComment(Head(todo[r]).feedback) /\ Then(r, "comment")
  BY <1>e, <1>h, <1>n DEF TaskStep, CreateIssue, LookUp, Sync, Close, ReadComments, Comment, RequestFails,
     Resolve, Reject, Handled
<1>2. step[r] = "read" /\ issue' = issue /\ todo'[r] = todo[r]
  BY <1>1 DEF ReadComments, Then, tracker
<1>3. issue[Head(todo[r]).feedback].comments \in Nat
  <2>1. todo[r] # <<>> /\ todo[r] \in Seq(Found)
    BY <1>t, <1>2 DEF StagesAgree, Stage, TypeOK
  <2>2. Head(todo[r]) = todo[r][1] /\ 1 \in 1..Len(todo[r]) /\ Head(todo[r]) \in Found
    BY <2>1, RestFacts
  <2>3. Head(todo[r]).feedback \in Feedback /\ issue[Head(todo[r]).feedback] # None
    BY <1>t, <2>2 DEF IssuesKnown, Found
  <2>4. issue[Head(todo[r]).feedback] \in Issue
    BY <1>t, <2>3 DEF TypeOK
  <2>5. QED BY <2>4 DEF Issue
<1>4. QED BY <1>1, <1>2, <1>3 DEF HasDeletionComment

\* What misled the tracker's user is not forgotten, nor are failures.
LEMMA TroubleStays ==
  ASSUME BaseInv, [Next]_vars
  PROVE  misled \subseteq misled' /\ missed \subseteq missed'
<1>t. TypeOK /\ StagesAgree /\ IssuesKnown
  BY DEF BaseInv
<1>1. ASSUME NEW r \in Request, (\E a \in Asks : Receive(r, a)) \/ Verify(r) \/ Write(r) \/ WriteFails(r) \/ Announce(r) \/ StartTask(r)
      PROVE  misled' = misled /\ missed \subseteq missed'
  BY <1>1 DEF Receive, Verify, Write, WriteFails, Announce, StartTask
<1>2. ASSUME NEW r \in Request, TaskStep(r) PROVE misled \subseteq misled' /\ missed \subseteq missed'
  <2>1. misled \subseteq misled'
    BY <1>t, <1>2, TaskEffects
  <2>2. GoesOn(r) \/ Ends(r)
    BY <1>t, <1>2, TaskMoves
  <2>3. missed \subseteq missed'
    BY <2>2 DEF GoesOn, Ends, Resolve, Reject
  <2>4. QED BY <2>1, <2>3
<1>3. CASE Crash
  BY <1>3 DEF Crash
<1>4. CASE Elsewhere
  BY <1>4 DEF Elsewhere, Land, Index, vars, queue
<1>5. QED BY <1>1, <1>2, <1>3, <1>4, Steps DEF Step, TaskStep

\* An issue that appears has no comments, unless it is late.
LEMMA NewIssue ==
  ASSUME BaseInv, [Next]_vars, NEW f \in Feedback, issue[f] = None, issue'[f] # None
  PROVE  \/ issue'[f].comments = 0 /\ \E r \in Request : TaskStep(r) /\ Touches(r, f, "create")
         \/ <<f, "late">> \in misled'
<1>t. TypeOK /\ StagesAgree /\ IssuesKnown
  BY DEF BaseInv
<1>1. ASSUME NEW r \in Request, TaskStep(r), NEW g, NEW e, Touches(r, g, e), Effect(g, e)
      PROVE  issue'[f].comments = 0 /\ Touches(r, f, "create")
  <2>1. g \in Feedback /\ e \in Effects /\ (e = "create" \/ issue[g] # None)
    BY <1>t, <1>1, TouchesFacts
  <2>2. /\ \A h \in Feedback : h # g => issue'[h] = issue[h]
        /\ e = "create" => issue'[g].comments = 0
    BY <1>t, <1>1, <2>1, EffectFacts
  <2>3. QED BY <1>1, <2>1, <2>2
<1>2. ASSUME NEW g \in Feedback, NEW e \in Effects, Land(g, e) PROVE <<f, "late">> \in misled'
  <2>1. e = "create" \/ issue[g] # None
    BY <1>t, <1>2 DEF IssuesKnown, Land
  <2>2. \A h \in Feedback : h # g => issue'[h] = issue[h]
    BY <1>t, <1>2, <2>1, EffectFacts DEF Land
  <2>3. QED BY <1>2, <2>2 DEF Land
<1>3. QED BY <1>1, <1>2, IssueMoves

\* A deletion about to comment found no comment, and nothing else comments.
LEMMA NoneYetStep == BaseInv /\ NoneYet /\ [Next]_vars => NoneYet'
<1> SUFFICES ASSUME BaseInv, NoneYet, [Next]_vars, NEW r \in Request, step'[r] = "comment"
             PROVE  \/ issue'[Head(todo'[r]).feedback].comments = 0
                    \/ <<Head(todo'[r]).feedback, "late">> \in misled'
  BY DEF NoneYet
<1>t. TypeOK /\ StagesAgree /\ IssuesKnown
  BY DEF BaseInv
<1>1. CASE TaskStep(r)
  BY <1>1, AboutToComment
<1>2. CASE ~TaskStep(r)
  <2>1. step[r] = "comment" /\ todo'[r] = todo[r]
    BY <1>2, TasksMove
  <2> DEFINE f == Head(todo[r]).feedback
  <2>2. issue[f].comments = 0 \/ <<f, "late">> \in misled
    BY <2>1 DEF NoneYet
  <2>3. Touches(r, f, "comment")
    BY <2>1 DEF Touches
  <2>4. f \in Feedback /\ f \in Subjects(r) /\ issue[f] # None /\ Deletes(r) /\ phase[r] = "running"
    <3>1. /\ f \in Feedback /\ f \in Subjects(r) /\ issue[f] # None /\ Deletes(r)
      BY <1>t, <2>3, TouchesFacts
    <3>2. phase[r] = "running"
      BY <1>t, <2>1 DEF StagesAgree, Stage
    <3>3. QED BY <3>1, <3>2
  <2> HIDE DEF f
  <2>5. ASSUME NEW q \in Request, Touches(q, f, "comment"), TaskStep(q) PROVE FALSE
    <3>1. f \in Subjects(q) /\ Deletes(q)
      BY <1>t, <2>5, TouchesFacts
    <3>2. phase[q] = "running"
      BY <1>t, <2>5, TaskMoves
    <3>3. q = r
      BY <2>4, <3>1, <3>2, OneRuns
    <3>4. QED BY <1>2, <2>5, <3>3
  <2>6. issue'[f].comments = issue[f].comments \/ issue'[f].comments = 0 \/ <<f, "late">> \in misled'
    BY <2>4, <2>5, IssuesStay
  <2>7. issue'[f].comments = 0 \/ <<f, "late">> \in misled'
    BY <2>2, <2>6, TroubleStays
  <2>8. QED BY <2>1, <2>7 DEF f
<1>3. QED BY <1>1, <1>2

\* A comment more is the first one.
LEMMA OnceStep == BaseInv /\ NoneYet /\ CommentedOnce /\ [Next]_vars => CommentedOnce'
<1> SUFFICES ASSUME BaseInv, NoneYet, CommentedOnce, [Next]_vars,
                    NEW f \in Feedback, issue'[f] # None, <<f, "late">> \notin misled'
             PROVE  issue'[f].comments <= 1
  BY DEF CommentedOnce
<1>1. CASE issue[f] = None
  BY <1>1, NewIssue
<1>2. CASE issue[f] # None
  <2>1. <<f, "late">> \notin misled
    BY TroubleStays
  <2>2. issue[f].comments <= 1
    BY <1>2, <2>1 DEF CommentedOnce
  <2>3. ASSUME NEW r \in Request, Touches(r, f, "comment") PROVE issue[f].comments = 0
    <3>1. TypeOK /\ StagesAgree /\ IssuesKnown
      BY DEF BaseInv
    <3>2. step[r] = "comment" /\ f = Head(todo[r]).feedback
      <4>1. step[r] = "comment"
        BY <2>3, <3>1, TouchesFacts
      <4>2. QED BY <2>3, <4>1 DEF Touches
    <3>3. QED BY <2>1, <3>2 DEF NoneYet
  <2>4. QED BY <1>2, <2>2, <2>3, IssuesStay
<1>3. QED BY <1>1, <1>2

\* However often a deletion fails, is lost in a crash and is asked again, and
\* whatever runs beside it, the issue of a feedback gets one deletion comment,
\* as long as no request given up on reaches the tracker late.
THEOREM CommentsOnce == Spec => []CommentedOnce
<1> DEFINE Inv == BaseInv /\ NoneYet /\ CommentedOnce
<1>1. Init => Inv
  <2> SUFFICES ASSUME Init PROVE Inv
    OBVIOUS
  <2>1. BaseInv
    BY BaseInit
  <2>2. NoneYet
    BY DEF Init, NoneYet
  <2>3. ASSUME NEW f \in Feedback, issue[f] # None PROVE issue[f].comments <= 1
    <3>1. issue[f] = [state |-> "open", comments |-> 0]
      BY <2>3 DEF Init
    <3>2. QED BY <3>1
  <2>4. QED BY <2>1, <2>2, <2>3 DEF CommentedOnce
<1>2. Inv /\ [Next]_vars => Inv'
  BY BaseStep, NoneYetStep, OnceStep
<1>3. Inv => CommentedOnce
  OBVIOUS
<1>4. QED BY <1>1, <1>2, <1>3, PTL DEF Spec


(***************************************************************************)
(* A record goes only once its issue was told.                             *)
(***************************************************************************)
\* What a request that has been asked is about stays the same.
LEMMA AskedKept ==
  ASSUME BaseInv, [Next]_vars, NEW q \in Request, ask[q] # None
  PROVE  ask'[q] = ask[q]
<1>t. TypeOK /\ StagesAgree /\ IssuesKnown
  BY DEF BaseInv
<1>1. pc[q] # "new"
  BY <1>t DEF StagesAgree, Stage
<1>2. ASSUME NEW a \in Asks, Receive(q, a) PROVE FALSE
  BY <1>1, <1>2 DEF Receive
<1>3. CASE Step(q)
  <2>1. TaskStep(q) => UNCHANGED ask
    BY <1>t, TaskMoves
  <2>2. QED BY <1>3, <2>1 DEF Step, TaskStep, Verify, Write, WriteFails, Announce, StartTask
<1>4. ASSUME NEW r \in Request, q # r, (\E a \in Asks : Receive(r, a)) \/ Step(r) PROVE ask'[q] = ask[q]
  BY <1>4, OthersKept
<1>5. CASE Crash
  BY <1>5 DEF Crash
<1>6. CASE Elsewhere
  BY <1>6, ElsewhereFacts
<1>7. QED BY <1>2, <1>3, <1>4, <1>5, <1>6, Steps

\* A task that has been queued keeps its place.
LEMMA PlaceKept ==
  ASSUME BaseInv, [Next]_vars, NEW q \in Request, phase[q] # "new"
  PROVE  earlier'[q] = earlier[q] /\ work'[q] = work[q] /\ phase'[q] # "new"
<1>t. TypeOK /\ StagesAgree /\ IssuesKnown
  BY DEF BaseInv
<1>1. CASE \E a \in Asks : Receive(q, a)
  BY <1>1 DEF Receive, queue
<1>c. ~CallHook(q)
  BY DEF CallHook, Order!Queue
<1>2. CASE Verify(q) \/ Write(q) \/ WriteFails(q) \/ Announce(q)
  BY <1>c, <1>2 DEF Verify, Write, WriteFails, Announce, queue
<1>p. phase \in [Request -> {"new", "queued", "running", "ended"}]
  BY <1>t DEF TypeOK
<1>3. CASE StartTask(q)
  BY <1>p, <1>3 DEF StartTask, Order!Start
<1>4. CASE TaskStep(q)
  <2>1. GoesOn(q) \/ Ends(q)
    BY <1>t, <1>4, TaskMoves
  <2>2. CASE GoesOn(q)
    BY <2>2 DEF GoesOn, queue
  <2>3. CASE Ends(q)
    BY <1>p, <2>3 DEF Ends, Resolve, Reject, EndTask, Order!End
  <2>4. QED BY <2>1, <2>2, <2>3
<1>5. ASSUME NEW r \in Request, q # r, (\E a \in Asks : Receive(r, a)) \/ Step(r)
      PROVE  earlier'[q] = earlier[q] /\ work'[q] = work[q] /\ phase'[q] = phase[q]
  BY <1>5, OthersKept
<1>6. CASE Crash
  BY <1>t, <1>6, CrashFacts
<1>7. CASE Elsewhere
  BY <1>7, ElsewhereFacts
<1>8. QED BY <1>1, <1>2, <1>3, <1>4, <1>5, <1>6, <1>7, Steps DEF Step, TaskStep

\* A creation that runs is not among the work a deletion waited for.
LEMMA CreatesBeside ==
  ASSUME BaseInv, NEW r \in Request, Deletes(r), Started(r), NEW c \in Request, TaskStep(c),
         NEW f \in Feedback, f \in Subjects(r), Touches(c, f, "create")
  PROVE  Kind(c) = "create" /\ Subject(c) = f /\ c \notin earlier[r] /\ c # r
<1>t. TypeOK /\ StagesAgree /\ InOrder /\ IssuesKnown
  BY DEF BaseInv
<1>1. f \in Subjects(c) /\ Kind(c) = "create"
  BY <1>t, TouchesFacts
<1>2. Subject(c) = f /\ c # r
  BY <1>t, <1>1, RequestFacts
<1>3. phase[c] = "running"
  BY <1>t, TaskMoves
<1>4. Kind(r) \in {"create", "update", "delete", "deleteAll"} /\ Kind(c) \in {"create", "update", "delete", "deleteAll"}
  BY <1>t, <1>1, RequestFacts
<1>5. Order!Blocks(WorkOf(c), WorkOf(r))
  BY <1>t, <1>1, <1>4, BlocksOn
<1>6. phase[r] # "new" /\ phase[c] # "new"
  BY <1>t, <1>3 DEF StagesAgree, Stage, Started
<1>7. work[c] = WorkOf(c) /\ work[r] = WorkOf(r)
  BY <1>t, <1>6 DEF InOrder
<1>8. Order!Blocks(work[c], work[r])
  BY <1>5, <1>7
<1>9. c \in earlier[r] => phase[c] = "ended"
  BY <1>t, <1>8 DEF InOrder
<1>10. QED BY <1>1, <1>2, <1>3, <1>9

\* What a deletion is through with stays so.
LEMMA ToldKept ==
  ASSUME BaseInv, [Next]_vars, NEW r \in Request, Deletes(r), Started(r), NEW f \in Feedback, f \in Subjects(r), Told(r, f)
  PROVE  Told(r, f)'
<1>t. TypeOK /\ StagesAgree /\ InOrder /\ IssuesKnown
  BY DEF BaseInv
<1>1. earlier'[r] = earlier[r]
  <2>1. phase[r] # "new"
    BY <1>t DEF StagesAgree, Stage, Started
  <2>2. QED BY <2>1, PlaceKept
<1>2. ASSUME NEW c \in Request, Kind(c) = "create", Subject(c) = f, c \notin earlier[r] PROVE Told(r, f)'
  <2>1. ask[c] # None
    BY <1>t, <1>2, RequestFacts
  <2>2. Kind(c)' = "create" /\ Subject(c)' = f
    BY <1>2, <2>1, AskedKept, AskKept
  <2>3. QED BY <1>1, <1>2, <2>2 DEF Told
<1>3. ASSUME NEW c \in Request, TaskStep(c), Touches(c, f, "create") PROVE Told(r, f)'
  <2>1. Kind(c) = "create" /\ Subject(c) = f /\ c \notin earlier[r]
    BY <1>3, CreatesBeside
  <2>2. QED BY <1>2, <2>1
<1>4. CASE <<f, "late">> \in misled'
  BY <1>4 DEF Told
<1>5. CASE issue[f] = None
  <2>1. CASE issue'[f] = None
    BY <2>1 DEF Told
  <2>2. CASE issue'[f] # None
    BY <1>3, <1>4, <1>5, <2>2, NewIssue
  <2>3. QED BY <2>1, <2>2
<1>6. CASE issue[f] # None /\ issue[f].comments > 0
  <2>1. issue[f].comments \in Nat
    <3>1. issue[f] \in Issue
      BY <1>t, <1>6 DEF TypeOK
    <3>2. QED BY <3>1 DEF Issue
  <2>2. issue'[f].comments > 0 => Told(r, f)'
    BY DEF Told
  <2>3. QED BY <1>3, <1>4, <1>6, <2>1, <2>2, IssuesStay
<1>7. CASE <<f, "late">> \in misled
  BY <1>4, <1>7, TroubleStays
<1>8. QED BY <1>2, <1>5, <1>6, <1>7 DEF Told

\* An issue leaves a deletion's list once it was told.
LEMMA ToldOrListed ==
  ASSUME BaseInv, AllTold, [Next]_vars, NEW r \in Request, Deletes(r), TaskStep(r), ~Reject(r),
         NEW f \in Feedback, f \in Subjects(r)
  PROVE  Told(r, f)' \/ \E n \in 1..Len(todo'[r]) : todo'[r][n].feedback = f
<1>t. TypeOK /\ StagesAgree /\ InOrder /\ IssuesKnown
  BY DEF BaseInv
<1>y. todo \in [Request -> Seq(Found)] /\ <<>> \in Seq(Found)
  <2>1. <<>> \in Seq(Found)
    OBVIOUS
  <2>2. QED BY <1>t, <2>1 DEF TypeOK
<1>h. ASSUME NEW list, Handle(r, list) PROVE todo'[r] = list
  BY <1>y, <1>h DEF Handle, Resolve, EndTask
<1>n. ASSUME NEW next, Then(r, next) PROVE todo'[r] = todo[r]
  BY <1>n DEF Then
<1>r. phase[r] = "running" /\ Started(r)
  BY <1>t, TaskMoves DEF Started
<1>s. /\ step[r] \in {"close", "read", "comment"} => todo[r] # <<>> /\ todo[r] \in Seq(Found)
      /\ step[r] \notin {"create", "sync"}
  BY <1>t DEF StagesAgree, Stage, TypeOK, Deletes
\* Before, f was told or is on the list.
<1>b. todo[r] # <<>> => Told(r, f)' \/ \E n \in 1..Len(todo[r]) : todo[r][n].feedback = f
  BY <1>r, ToldKept DEF AllTold
\* The first of the list is through.
<1>f. ASSUME todo[r] # <<>>, todo[r] \in Seq(Found), Handled(r), f = Head(todo[r]).feedback => Told(r, f)'
      PROVE  Told(r, f)' \/ \E n \in 1..Len(todo'[r]) : todo'[r][n].feedback = f
  <2>1. todo'[r] = Tail(todo[r])
    BY <1>h, <1>f DEF Handled
  <2>2. ASSUME NEW n \in 1..Len(todo[r]), todo[r][n].feedback = f, ~Told(r, f)' PROVE \E m \in 1..Len(todo'[r]) : todo'[r][m].feedback = f
    <3>1. n # 1
      BY <1>f, <2>2, RestFacts
    <3>2. n - 1 \in 1..Len(Tail(todo[r])) /\ Tail(todo[r])[n - 1] = todo[r][n]
      BY <1>f, <3>1, RestFacts
    <3>3. QED BY <2>1, <2>2, <3>2
  <2>3. QED BY <1>b, <1>f, <2>2
<1>1. CASE LookUp(r)
  <2>1. Kind(r) # "update"
    BY DEF Deletes
  <2>2. PICK list \in Listings(r) : Handle(r, list)
    BY <1>1, <2>1 DEF LookUp
  <2>3. todo'[r] = list /\ issue' = issue
    BY <1>h, <1>1, <2>2 DEF LookUp, tracker
  <2>4. CASE issue[f] = None
    BY <2>3, <2>4 DEF Told
  <2>5. CASE issue[f] # None
    BY <1>t, <2>3, <2>5, ListingFacts
  <2>6. QED BY <2>4, <2>5
<1>2. CASE Close(r)
  <2>1. step[r] = "close" /\ Then(r, "read")
    BY <1>2 DEF Close, RequestFails
  <2>2. QED BY <1>s, <1>b, <1>n, <2>1
<1>3. CASE ReadComments(r)
  <2>1. step[r] = "read" /\ issue' = issue
    BY <1>3 DEF ReadComments, tracker
  <2>2. CASE Then(r, "comment")
    BY <1>s, <1>b, <1>n, <2>1, <2>2
  <2>3. CASE HasDeletionComment(Head(todo[r]).feedback) /\ Handled(r)
    <3>1. f = Head(todo[r]).feedback => Told(r, f)'
      BY <2>1, <2>3 DEF Told, HasDeletionComment
    <3>2. QED BY <1>s, <1>f, <2>1, <2>3, <3>1
  <2>4. QED BY <1>3, <2>2, <2>3 DEF ReadComments
<1>4. CASE Comment(r)
  <2>1. step[r] = "comment" /\ Effect(Head(todo[r]).feedback, "comment") /\ Handled(r)
    BY <1>4 DEF Comment, RequestFails
  <2>2. ASSUME f = Head(todo[r]).feedback PROVE Told(r, f)'
    <3>1. Touches(r, f, "comment")
      BY <2>1, <2>2 DEF Touches
    <3>2. "comment" \in Effects /\ issue[f] # None
      BY <1>t, <3>1, TouchesFacts
    <3>3. issue'[f].comments = issue[f].comments + 1 /\ issue[f].comments \in Nat
      BY <1>t, <2>1, <2>2, <3>2, EffectFacts
    <3>4. issue'[f].comments > 0
      BY <3>3
    <3>5. QED BY <3>4 DEF Told
  <2>3. QED BY <1>s, <1>f, <2>1, <2>2
<1>5. QED BY <1>s, <1>1, <1>2, <1>3, <1>4 DEF TaskStep, CreateIssue, Sync

\* A deletion comes to write by the end of its task only.
LEMMA EntersWriting ==
  ASSUME BaseInv, [Next]_vars, NEW r \in Request, Deletes(r)', pc'[r] = "writing", ~TaskStep(r)
  PROVE  pc[r] = "writing"
<1>t. TypeOK /\ StagesAgree /\ IssuesKnown
  BY DEF BaseInv
<1>y. pc \in [Request -> {"new", "verifying", "writing", "announcing", "waiting", "done"}]
  BY <1>t DEF TypeOK
<1>g. ASSUME NEW l, Goto(r, l) \/ (pc' = [pc EXCEPT ![r] = l]) PROVE pc'[r] = l
  BY <1>g, <1>y DEF Goto
<1>1. ASSUME NEW a \in Asks, Receive(r, a) PROVE FALSE
  <2>1. ask'[r] = a /\ (a.kind = "create" \/ pc'[r] = "verifying")
    BY <1>t, <1>g, <1>1 DEF Receive, TypeOK
  <2>2. a.kind \notin {"delete", "deleteAll"}
    BY <2>1
  <2>3. QED BY <2>1, <2>2 DEF Deletes, Kind
<1>2. CASE Verify(r)
  <2>1. ask' = ask /\ Deletes(r)
    BY <1>2, AskKept DEF Verify
  <2>2. QED BY <1>g, <1>2, <2>1 DEF Verify, CallHook, Respond
<1>3. CASE Write(r) \/ WriteFails(r)
  BY <1>3 DEF Write, WriteFails
<1>4. CASE Announce(r)
  BY <1>g, <1>4 DEF Announce, CallHook
<1>5. CASE StartTask(r)
  BY <1>5 DEF StartTask
<1>6. ASSUME NEW q \in Request, q # r, (\E a \in Asks : Receive(q, a)) \/ Step(q) PROVE pc'[r] = pc[r]
  BY <1>6, OthersKept
<1>7. CASE Crash
  BY <1>t, <1>7, CrashFacts
<1>8. CASE Elsewhere
  BY <1>8, ElsewhereFacts
<1>9. QED BY <1>1, <1>2, <1>3, <1>4, <1>5, <1>6, <1>7, <1>8, Steps DEF Step, TaskStep

\* A deletion has told every issue that is not on its list any more.
LEMMA AllToldStep == BaseInv /\ AllTold /\ [Next]_vars => AllTold'
<1> SUFFICES ASSUME BaseInv, AllTold, [Next]_vars, NEW r \in Request, Deletes(r)'
             PROVE  /\ todo'[r] # <<>> => \A f \in Subjects(r)' : Told(r, f)' \/ \E n \in 1..Len(todo'[r]) : todo'[r][n].feedback = f
                    /\ pc'[r] = "writing" => \A f \in Subjects(r)' : Told(r, f)'
  BY DEF AllTold
<1>t. TypeOK /\ StagesAgree /\ IssuesKnown /\ StagesAgree'
  BY StagesStep DEF BaseInv
<1>s. Stage(r) /\ Stage(r)'
  BY <1>t DEF StagesAgree
\* A request that is asked now has no list and does not write.
<1>1. CASE ask[r] = None
  <2>1. pc[r] = "new" /\ todo[r] = <<>>
    BY <1>s, <1>1, <1>t DEF Stage, TypeOK
  <2>2. ~TaskStep(r)
    <3>1. phase[r] # "running"
      BY <1>s, <2>1 DEF Stage
    <3>2. QED BY <1>t, <3>1, TaskMoves
  <2>3. todo'[r] = <<>>
    BY <2>1, <2>2, TasksMove
  <2>4. pc'[r] # "writing"
    BY <2>1, <2>2, EntersWriting
  <2>5. QED BY <2>3, <2>4
<1>2. CASE ask[r] # None
  <2>1. Deletes(r) /\ Subjects(r)' = Subjects(r)
    BY <1>2, AskedKept, AskKept
  <2>2. Subjects(r) \subseteq Feedback
    BY <1>t, <2>1, RequestFacts
  <2>3. CASE TaskStep(r) /\ ~Reject(r)
    <3>1. \A f \in Subjects(r) : Told(r, f)' \/ \E n \in 1..Len(todo'[r]) : todo'[r][n].feedback = f
      BY <2>1, <2>2, <2>3, ToldOrListed
    <3>2. pc'[r] = "writing" => todo'[r] = <<>>
      BY <1>s DEF Stage
    <3>3. Len(<<>>) = 0
      OBVIOUS
    <3>4. QED BY <2>1, <3>1, <3>2, <3>3
  <2>4. CASE TaskStep(r) /\ Reject(r)
    <3>1. todo'[r] = <<>> /\ pc'[r] = "done"
      BY <1>t, <2>4 DEF Reject, EndTask, Respond, TypeOK
    <3>2. QED BY <3>1
  <2>5. CASE ~TaskStep(r)
    <3>1. todo'[r] = <<>> \/ todo'[r] = todo[r]
      BY <2>5, TasksMove
    <3>2. todo[r] # <<>> => Started(r)
      BY <1>s DEF Stage, Started
    <3>3. pc'[r] = "writing" => pc[r] = "writing" /\ Started(r)
      BY <2>1, <2>5, EntersWriting DEF Started
    <3>4. ASSUME NEW f \in Subjects(r), todo'[r] # <<>> PROVE Told(r, f)' \/ \E n \in 1..Len(todo'[r]) : todo'[r][n].feedback = f
      BY <2>1, <2>2, <3>1, <3>2, <3>4, ToldKept DEF AllTold
    <3>5. ASSUME NEW f \in Subjects(r), pc'[r] = "writing" PROVE Told(r, f)'
      BY <2>1, <2>2, <3>3, <3>5, ToldKept DEF AllTold
    <3>6. QED BY <2>1, <3>4, <3>5
  <2>6. QED BY <2>3, <2>4, <2>5
<1>3. QED BY <1>1, <1>2

\* A record that goes, goes with the write of a deletion of it.
LEMMA Gone ==
  ASSUME BaseInv, [Next]_vars, NEW r \in Request, NEW f \in Feedback, Deletes(r),
         pc[r] = "writing", pc'[r] # "writing", record[f] # None, record'[f] = None
  PROVE  f \in Subjects(r)
<1>t. TypeOK /\ StagesAgree /\ IssuesKnown
  BY DEF BaseInv
<1>1. ASSUME NEW q \in Request, q # r, (\E a \in Asks : Receive(q, a)) \/ Step(q) PROVE FALSE
  BY <1>1, OthersKept
<1>2. CASE (\E a \in Asks : Receive(r, a)) \/ Step(r)
  <2>1. ~TaskStep(r)
    <3>1. phase[r] # "running"
      BY <1>t DEF StagesAgree, Stage
    <3>2. QED BY <1>t, <3>1, TaskMoves
  <2>2. record' = record \/ record' = Written(r)
    BY <1>2, <2>1 DEF Step, TaskStep, Receive, Verify, Write, WriteFails, Announce, StartTask
  <2>3. record' = Written(r)
    BY <2>2
  <2>4. record'[f] = (IF f \notin Subjects(r) THEN record[f]
                      ELSE IF Deletes(r) THEN None ELSE IF Kind(r) = "create" THEN "open" ELSE ask[r].status)
    BY <2>3 DEF Written
  <2>5. QED BY <2>4
<1>3. CASE Crash
  BY <1>3 DEF Crash
<1>4. CASE Elsewhere
  BY <1>4, ElsewhereFacts
<1>5. QED BY <1>1, <1>2, <1>3, <1>4, Steps

\* A record goes only once its issue was told, whatever fails or is retried:
\* its issue, unless it is opened by work the deletion does not wait for or was
\* reached late, is there with its deletion comment, or there is none.
THEOREM ToldFirst == Spec => ToldBeforeGone
<1> DEFINE Inv == BaseInv /\ AllTold
<1>1. Init => Inv
  <2>1. Init => AllTold
    BY DEF Init, AllTold, Deletes, Kind
  <2>2. QED BY <2>1, BaseInit
<1>2. Inv /\ [Next]_vars => Inv'
  BY BaseStep, AllToldStep
<1>3. Inv /\ [Next]_vars =>
        [\A r \in Request, f \in Feedback :
           (Deletes(r) /\ pc[r] = "writing" /\ pc'[r] # "writing" /\ record[f] # None /\ record'[f] = None) =>
             \/ issue[f] = None
             \/ issue[f].comments > 0
             \/ <<f, "late">> \in misled
             \/ \E c \in Request : Kind(c) = "create" /\ Subject(c) = f /\ c \notin earlier[r]]_vars
  <2> SUFFICES ASSUME Inv, [Next]_vars, NEW r \in Request, NEW f \in Feedback,
                      Deletes(r), pc[r] = "writing", pc'[r] # "writing", record[f] # None, record'[f] = None
               PROVE  Told(r, f)
    BY DEF Told
  <2>1. f \in Subjects(r)
    BY Gone
  <2>2. QED BY <2>1 DEF AllTold
<1>4. QED BY <1>1, <1>2, <1>3, PTL DEF Spec, ToldBeforeGone


(***************************************************************************)
(* The tracker shows the last status the store wrote.                      *)
(***************************************************************************)
\* What is on its way stays so where its order does, and what is shown stays
\* shown where the issue does.
LEMMA InFlightKept ==
  ASSUME NEW f \in Feedback, record'[f] = record[f],
         \A q \in Request : Pending(q, f)' <=> Pending(q, f),
         \A q \in Request : Pending(q, f) => StatusOf(q)' = StatusOf(q),
         \A u, v \in Request : Pending(u, f) /\ Pending(v, f) /\ Before(v, u) => Before(v, u)',
         Deleting(f) => Deleting(f)',
         Shown(f) => issue'[f] = issue[f] \/ Deleting(f)',
         Deleting(f) \/ LastPending(f) \/ Shown(f)
  PROVE  Deleting(f)' \/ LastPending(f)' \/ Shown(f)'
<1>1. CASE LastPending(f)
  <2>1. PICK u \in Request : /\ Pending(u, f) /\ StatusOf(u) = record[f]
                             /\ \A v \in Request : Pending(v, f) => v = u \/ Before(v, u)
    BY <1>1 DEF LastPending
  <2>2. /\ Pending(u, f)' /\ StatusOf(u)' = record'[f]
        /\ \A v \in Request : Pending(v, f)' => v = u \/ Before(v, u)'
    BY <2>1
  <2>3. QED BY <2>2 DEF LastPending
<1>2. CASE Shown(f) /\ issue'[f] = issue[f]
  <2>1. /\ \A v \in Request : ~Pending(v, f)'
        /\ issue'[f] = None \/ issue'[f].state = StateOf(record'[f])
    BY <1>2 DEF Shown
  <2>2. QED BY <2>1 DEF Shown
<1>3. QED BY <1>1, <1>2

\* The writes whose answers wait keep their places.
AnswersKept ==
  \A n \in 1..Len(unanswered) : n \in 1..Len(unanswered') /\ unanswered'[n] = unanswered[n]

\* The order of two writes depends on their requests and the answers that wait.
LEMMA BeforeKept ==
  ASSUME NEW u \in Request, NEW v \in Request, AnswersKept, earlier'[u] = earlier[u],
         phase'[v] = "new" <=> phase[v] = "new", phase'[u] = "new" <=> phase[u] = "new"
  PROVE  Before(v, u) => Before(v, u)'
BY DEF Before, AnswersKept

\* Request r is deleting f.
IsDeleting(r, f) == Deletes(r) /\ f \in Subjects(r) /\ pc[r] \in {"waiting", "writing"}

\* A request's step does not move the writes and deletions of the others.
LEMMA OthersInFlight ==
  ASSUME BaseInv, NEW r \in Request, (\E a \in Asks : Receive(r, a)) \/ Step(r), NEW q \in Request, q # r, NEW f \in Feedback
  PROVE  /\ Pending(q, f)' <=> Pending(q, f)
         /\ StatusOf(q)' = StatusOf(q)
         /\ IsDeleting(q, f)' <=> IsDeleting(q, f)
<1>1. ask'[q] = ask[q] /\ pc'[q] = pc[q]
  BY OthersKept
<1>2. /\ Kind(q)' = Kind(q) /\ (Deletes(q)' <=> Deletes(q)) /\ Subjects(q)' = Subjects(q)
      /\ Subject(q)' = Subject(q) /\ StatusOf(q)' = StatusOf(q)
  BY <1>1, AskKept
<1>3. QED BY <1>1, <1>2 DEF Pending, IsDeleting

\* A step of a request that is not announcing or syncing a status of f.
LEMMA QuietStep ==
  ASSUME BaseInv, NEW r \in Request, (\E a \in Asks : Receive(r, a)) \/ Step(r), NEW f \in Feedback,
         Deleting(f) \/ LastPending(f) \/ Shown(f),
         ~Pending(r, f), ~Pending(r, f)', AnswersKept, record'[f] = record[f],
         issue'[f] = issue[f] \/ Deleting(f)',
         IsDeleting(r, f) => Deleting(f)'
  PROVE  Deleting(f)' \/ LastPending(f)' \/ Shown(f)'
<1>1. \A q \in Request : q # r => /\ Pending(q, f)' <=> Pending(q, f)
                                 /\ StatusOf(q)' = StatusOf(q)
                                 /\ IsDeleting(q, f)' <=> IsDeleting(q, f)
  BY OthersInFlight
<1>2. \A q \in Request : q # r => earlier'[q] = earlier[q] /\ phase'[q] = phase[q]
  BY OthersKept
<1>3. ASSUME NEW u \in Request, NEW v \in Request, Pending(u, f), Pending(v, f), Before(v, u) PROVE Before(v, u)'
  BY <1>2, <1>3, BeforeKept
<1>4. Deleting(f) => Deleting(f)'
  <2>1. Deleting(f) <=> \E d \in Request : IsDeleting(d, f)
    BY DEF Deleting, IsDeleting
  <2>2. Deleting(f)' <=> \E d \in Request : IsDeleting(d, f)'
    BY DEF Deleting, IsDeleting
  <2>3. QED BY <1>1, <2>1, <2>2
<1>5. ASSUME NEW q \in Request PROVE Pending(q, f)' <=> Pending(q, f)
  <2>1. CASE q = r
    BY <2>1 DEF Pending
  <2>2. CASE q # r
    BY <2>2, OthersInFlight
  <2>3. QED BY <2>1, <2>2
<1>6. ASSUME NEW q \in Request, Pending(q, f) PROVE StatusOf(q)' = StatusOf(q)
  <2>1. CASE q = r
    BY <1>6, <2>1 DEF Pending
  <2>2. CASE q # r
    BY <2>2, OthersInFlight
  <2>3. QED BY <2>1, <2>2
<1>7. \A u, v \in Request : Pending(u, f) /\ Pending(v, f) /\ Before(v, u) => Before(v, u)'
  BY <1>3
<1>8. QED BY <1>4, <1>5, <1>6, <1>7, InFlightKept

\* A write is the last on its way.
LEMMA WriteIsLast ==
  ASSUME BaseInv, NEW r \in Request, Write(r), Kind(r) \in {"create", "update"}, Writes(r),
         NEW f \in Feedback, f = Subject(r)
  PROVE  LastPending(f)'
<1>t. TypeOK /\ StagesAgree /\ Announcements
  BY DEF BaseInv
<1>1. /\ pc[r] = "writing" /\ record' = Written(r) /\ Goto(r, "announcing") /\ unanswered' = Append(unanswered, r)
      /\ UNCHANGED <<ask, phase, earlier>>
  BY DEF Write, Deletes, queue
<1>2. /\ pc'[r] = "announcing" /\ \A q \in Request : q # r => pc'[q] = pc[q]
  BY <1>t, <1>1 DEF Goto, TypeOK
<1>3. Subjects(r) = {f} /\ ~Deletes(r)
  BY <1>t, RequestFacts
<1>4. record'[f] = IF Kind(r) = "create" THEN "open" ELSE ask[r].status
  BY <1>1, <1>3 DEF Written
<1>5. \A q \in Request : Kind(q)' = Kind(q) /\ Subject(q)' = Subject(q) /\ StatusOf(q)' = StatusOf(q)
  BY <1>1, AskKept
<1>6. Pending(r, f)' /\ StatusOf(r)' = record'[f]
  <2>1. StatusOf(r) = record'[f]
    BY <1>4 DEF StatusOf
  <2>2. QED BY <1>2, <1>5, <2>1 DEF Pending
<1>7. phase'[r] = "new"
  BY <1>t, <1>1, <1>3 DEF StagesAgree, Stage
<1>8. ASSUME NEW v \in Request, Pending(v, f)', v # r PROVE Before(v, r)'
  <2>1. pc[v] \in {"announcing", "waiting"}
    BY <1>2, <1>8 DEF Pending
  <2>2. CASE pc[v] = "waiting"
    <3>1. phase'[v] # "new"
      BY <1>t, <1>1, <2>2 DEF StagesAgree, Stage
    <3>2. QED BY <1>7, <3>1 DEF Before
  <2>3. CASE pc[v] = "announcing"
    <3>1. PICK m \in 1..Len(unanswered) : unanswered[m] = v
      BY <1>t, <2>3 DEF Announcements
    <3>2. unanswered \in Seq(Request)
      BY <1>t DEF TypeOK
    <3>3. /\ Len(unanswered') = Len(unanswered) + 1 /\ unanswered'[Len(unanswered) + 1] = r
          /\ unanswered'[m] = v
      BY <1>1, <3>1, <3>2
    <3>4. m \in 1..Len(unanswered') /\ Len(unanswered) + 1 \in 1..Len(unanswered') /\ m < Len(unanswered) + 1
      BY <3>2, <3>3
    <3>5. QED BY <3>3, <3>4 DEF Before
  <2>4. QED BY <2>1, <2>2, <2>3
<1>9. QED BY <1>6, <1>8 DEF LastPending

\* Answers that come in their order queue the hooks in that of the writes.
LEMMA AnnounceKeeps ==
  ASSUME AnswersInOrder, BaseInv, NEW r \in Request, Announce(r), NEW u \in Request, NEW v \in Request, Before(v, u)
  PROVE  Before(v, u)'
<1>t. TypeOK /\ StagesAgree /\ Announcements
  BY DEF BaseInv
<1>q. unanswered \in Seq(Request)
  BY <1>t DEF TypeOK
<1>1. PICK n \in 1..Len(unanswered) : unanswered[n] = r /\ n = 1 /\ unanswered' = RemoveAt(unanswered, n)
  BY DEF Announce
<1>2. /\ Len(unanswered') = Len(unanswered) - 1
      /\ \A m \in 1..Len(unanswered') : unanswered'[m] = unanswered[m + 1]
  <2>1. /\ Len(unanswered') = Len(unanswered) - 1
        /\ \A m \in 1..Len(unanswered') : m >= n => unanswered'[m] = unanswered[m + 1]
    BY <1>q, <1>1, RemoveAtFacts
  <2>2. \A m \in 1..Len(unanswered') : m >= n
    BY <1>1
  <2>3. QED BY <2>1, <2>2
<1>3. CallHook(r) /\ Step(r)
  BY DEF Announce, Step
<1>4. phase[r] = "new" /\ phase'[r] = "queued" /\ earlier'[r] = {q \in Request : phase[q] # "new"}
  BY <1>t, <1>3, CallHookFacts
<1>5. \A q \in Request : q # r => phase'[q] = phase[q] /\ earlier'[q] = earlier[q]
  BY <1>3, OthersKept
<1>6. CASE v \in earlier[u]
  <2>1. phase[v] # "new"
    BY <1>6 DEF BaseInv, InOrder
  <2>2. v \in earlier'[u]
    BY <1>4, <1>5, <1>6, <2>1
  <2>3. QED BY <2>2 DEF Before
<1>7. CASE phase[v] # "new" /\ phase[u] = "new"
  <2>1. CASE u = r
    BY <1>4, <1>7, <2>1 DEF Before
  <2>2. CASE u # r
    BY <1>4, <1>5, <1>7, <2>2 DEF Before
  <2>3. QED BY <2>1, <2>2
<1>8. ASSUME NEW m \in 1..Len(unanswered), NEW k \in 1..Len(unanswered), m < k, unanswered[m] = v, unanswered[k] = u
      PROVE  Before(v, u)'
  <2>1. u # r
    BY <1>t, <1>1, <1>8 DEF Announcements
  <2>2. pc[u] = "announcing"
    BY <1>t, <1>8 DEF Announcements
  <2>3. phase'[u] = "new"
    BY <1>t, <1>5, <2>1, <2>2 DEF StagesAgree, Stage
  <2>4. CASE m = 1
    <3>1. v = r
      BY <1>1, <1>8, <2>4
    <3>2. QED BY <1>4, <2>3, <3>1 DEF Before
  <2>5. CASE m # 1
    <3>1. m - 1 \in 1..Len(unanswered') /\ k - 1 \in 1..Len(unanswered') /\ m - 1 < k - 1
      BY <1>q, <1>2, <1>8, <2>5
    <3>2. unanswered'[m - 1] = v /\ unanswered'[k - 1] = u
      <4>1. (m - 1) + 1 = m /\ (k - 1) + 1 = k
        BY <1>q
      <4>2. QED BY <1>2, <1>8, <3>1, <4>1
    <3>3. QED BY <3>1, <3>2 DEF Before
  <2>6. QED BY <2>4, <2>5
<1>9. QED BY <1>6, <1>7, <1>8 DEF Before

\* A status change that ends well leaves its issue in the state of its status.
LEMMA EndsShown ==
  ASSUME BaseInv, NEW r \in Request, TaskStep(r), Ends(r), Kind(r) \in {"create", "update"},
         NEW f \in Feedback, f = Subject(r), f \notin missed', <<f, "stale">> \notin misled'
  PROVE  issue'[f] = None \/ issue'[f].state = StateOf(StatusOf(r))
<1>t. TypeOK /\ StagesAgree /\ IssuesKnown
  BY DEF BaseInv
<1>d. ~Deletes(r) /\ Subjects(r) = {f}
  BY <1>t, RequestFacts
<1>r. ~Reject(r)
  BY <1>d DEF Reject
<1>e. EndTask(r)
  BY DEF Ends, Resolve, Reject
<1>n. ~Then(r, "sync")
  <2>1. step \in [Request -> {"none", "create", "look up", "sync", "close", "read", "comment"}]
    BY <1>t DEF TypeOK
  <2>2. QED BY <1>e, <2>1 DEF EndTask, Then
<1>s. /\ step[r] \notin {"close", "read", "comment"}
      /\ step[r] = "create" => Kind(r) = "create"
      /\ step[r] = "sync" => Kind(r) = "update"
      /\ step[r] = "look up" => Kind(r) # "create"
  BY <1>t, <1>d DEF StagesAgree, Stage
<1>1. CASE CreateIssue(r)
  <2>1. step[r] = "create" /\ Effect(f, "create")
    BY <1>1, <1>r DEF CreateIssue, RequestFails
  <2>2. issue'[f].state = "open"
    <3>1. "create" \in Effects
      BY DEF Effects
    <3>2. QED BY <1>t, <2>1, <3>1, EffectFacts
  <2>3. QED BY <1>s, <2>1, <2>2 DEF StatusOf, StateOf
<1>2. CASE LookUp(r)
  <2>1. step[r] = "look up" /\ issue' = issue /\ Kind(r) = "update"
    BY <1>2, <1>s DEF LookUp, tracker
  <2>2. CASE issue[f] = None
    BY <2>1, <2>2
  <2>3. ASSUME NEW found \in Lookups(r, f), ~NeedsSync(found, ask[r].status), misled' = misled \cup Stale({found})
        PROVE  issue'[f].state = StateOf(StatusOf(r))
    <3>1. ask[r].status \notin Closed /\ found.isOpen
      BY <2>3 DEF NeedsSync
    <3>2. found.feedback = f
      BY DEF Lookups
    <3>3. issue[f].state = "open"
      BY <2>3, <3>1, <3>2 DEF Stale
    <3>4. StateOf(StatusOf(r)) = "open"
      BY <2>1, <3>1 DEF StatusOf, StateOf, Closed
    <3>5. QED BY <2>1, <3>3, <3>4
  <2>4. QED BY <1>2, <1>d, <1>r, <1>n, <2>2, <2>3 DEF LookUp
<1>3. CASE Sync(r)
  <2>1. step[r] = "sync" /\ Effect(f, ask[r].status)
    BY <1>3, <1>r DEF Sync, RequestFails
  <2>2. Kind(r) = "update" /\ issue[f] # None
    BY <1>t, <1>s, <2>1 DEF IssuesKnown
  <2>3. ask[r].status \in Status
    BY <1>t, <2>2, RequestFacts
  <2>4. issue'[f].state = StateOf(ask[r].status)
    BY <1>t, <2>1, <2>2, <2>3, EffectFacts DEF Effects
  <2>5. QED BY <2>2, <2>4 DEF StatusOf
<1>4. QED BY <1>s, <1>1, <1>2, <1>3 DEF TaskStep, Close, ReadComments, Comment

\* When the last write on its way has its task run, no other is on its way.
LEMMA LastAlone ==
  ASSUME BaseInv, NEW u \in Request, NEW v \in Request, NEW f \in Feedback, Pending(u, f), Pending(v, f),
         Before(v, u), phase[u] = "running"
  PROVE  FALSE
<1>t. TypeOK /\ StagesAgree /\ InOrder /\ Announcements
  BY DEF BaseInv
<1>1. v \in earlier[u]
  <2>1. pc[u] # "announcing"
    BY <1>t DEF StagesAgree, Stage
  <2>2. \A n \in 1..Len(unanswered) : unanswered[n] # u
    BY <1>t, <2>1 DEF Announcements
  <2>3. QED BY <2>2 DEF Before
<1>2. Kind(u) \in {"create", "update"} /\ Kind(v) \in {"create", "update"} /\ f \in Subjects(u) /\ f \in Subjects(v)
  BY <1>t, RequestFacts DEF Pending
<1>3. Order!Blocks(WorkOf(v), WorkOf(u))
  BY <1>t, <1>2, BlocksOn DEF Deletes
<1>4. phase[v] # "new" /\ work[v] = WorkOf(v) /\ work[u] = WorkOf(u)
  BY <1>t, <1>1 DEF InOrder
<1>5. phase[v] = "ended"
  <2>1. Order!Blocks(work[v], work[u])
    BY <1>3, <1>4
  <2>2. QED BY <1>t, <1>1, <2>1 DEF InOrder, Started
<1>6. pc[v] \in {"announcing", "waiting"}
  BY DEF Pending
<1>7. QED BY <1>t, <1>5, <1>6 DEF StagesAgree, Stage


\* A step that moves no request leaves what is on its way.
LEMMA SameFlight ==
  ASSUME NEW f \in Feedback, UNCHANGED <<ask, pc, unanswered, earlier, record>>,
         \A q \in Request : phase'[q] = "new" <=> phase[q] = "new",
         Shown(f) => issue'[f] = issue[f] \/ Deleting(f)',
         Deleting(f) \/ LastPending(f) \/ Shown(f)
  PROVE  Deleting(f)' \/ LastPending(f)' \/ Shown(f)'
<1>1. ASSUME NEW q \in Request
      PROVE  /\ Kind(q)' = Kind(q) /\ (Deletes(q)' <=> Deletes(q)) /\ Subjects(q)' = Subjects(q)
             /\ Subject(q)' = Subject(q) /\ StatusOf(q)' = StatusOf(q)
  BY AskKept
<1>2. AnswersKept
  BY DEF AnswersKept
<1>3. ASSUME NEW u \in Request, NEW v \in Request, Before(v, u) PROVE Before(v, u)'
  BY <1>2, <1>3, BeforeKept
<1>4. Deleting(f) => Deleting(f)'
  <2>1. Deleting(f) <=> \E d \in Request : IsDeleting(d, f)
    BY DEF Deleting, IsDeleting
  <2>2. Deleting(f)' <=> \E d \in Request : IsDeleting(d, f)'
    BY DEF Deleting, IsDeleting
  <2>3. ASSUME NEW d \in Request PROVE IsDeleting(d, f)' <=> IsDeleting(d, f)
    BY <1>1 DEF IsDeleting
  <2>4. QED BY <2>1, <2>2, <2>3
<1>5. ASSUME NEW q \in Request PROVE Pending(q, f)' <=> Pending(q, f)
  BY <1>1 DEF Pending
<1>6. ASSUME NEW q \in Request, Pending(q, f) PROVE StatusOf(q)' = StatusOf(q)
  BY <1>1
<1>7. \A u, v \in Request : Pending(u, f) /\ Pending(v, f) /\ Before(v, u) => Before(v, u)'
  BY <1>3
<1>8. record'[f] = record[f]
  OBVIOUS
<1>9. QED BY <1>4, <1>5, <1>6, <1>7, <1>8, InFlightKept

\* A task that goes on: an issue it changes has its write, or its deletion, on its way.
LEMMA GoesOnKeeps ==
  ASSUME BaseInv, NEW r \in Request, TaskStep(r), GoesOn(r), NEW f \in Feedback,
         Deleting(f) \/ LastPending(f) \/ Shown(f)
  PROVE  Deleting(f)' \/ LastPending(f)' \/ Shown(f)'
<1>t. TypeOK /\ StagesAgree /\ IssuesKnown
  BY DEF BaseInv
<1>1. /\ UNCHANGED <<ask, record, unanswered, pc, earlier, phase>> /\ phase[r] = "running"
  BY <1>t, TaskMoves DEF GoesOn, queue
<1>2. pc[r] = "waiting" /\ ask[r] # None
  BY <1>t, <1>1 DEF StagesAgree, Stage
<1>3. ASSUME Shown(f), issue'[f] # issue[f] PROVE Deleting(f)'
  <2>1. PICK g, e : Touches(r, g, e) /\ Effect(g, e)
    BY <1>t, <1>3, TaskEffects DEF tracker
  <2>2. g \in Feedback /\ g \in Subjects(r) /\ e \in Effects /\ (e = "create" \/ issue[g] # None)
    BY <1>t, <2>1, TouchesFacts
  <2>3. g = f
    BY <1>t, <1>3, <2>1, <2>2, EffectFacts
  <2>4. Kind(r) \in {"create", "update"} => Pending(r, f)
    BY <1>t, <1>2, <2>2, <2>3, RequestFacts DEF Pending
  <2>5. Deletes(r)
    BY <1>t, <1>2, <1>3, <2>4, RequestFacts DEF Shown
  <2>6. Deletes(r)' /\ Subjects(r)' = Subjects(r) /\ pc'[r] = "waiting"
    BY <1>1, <1>2, <2>5, AskKept
  <2>7. QED BY <2>2, <2>3, <2>6 DEF Deleting
<1>4. QED BY <1>1, <1>3, SameFlight

\* A task that ends well: the last write on its way is shown.
LEMMA EndsKeeps ==
  ASSUME BaseInv, NEW r \in Request, TaskStep(r), Ends(r), NEW f \in Feedback,
         f \notin missed', <<f, "stale">> \notin misled',
         Deleting(f) \/ LastPending(f) \/ Shown(f)
  PROVE  Deleting(f)' \/ LastPending(f)' \/ Shown(f)'
<1>t. TypeOK /\ StagesAgree /\ IssuesKnown
  BY DEF BaseInv
<1>s. Step(r)
  BY DEF Step, TaskStep
<1>1. /\ UNCHANGED <<ask, record, unanswered>> /\ phase[r] = "running"
  BY <1>t, TaskMoves
<1>2. pc[r] = "waiting" /\ ask[r] # None
  BY <1>t, <1>1 DEF StagesAgree, Stage
<1>3. AnswersKept
  BY <1>1 DEF AnswersKept
<1>4. pc'[r] = (IF Deletes(r) /\ ~Reject(r) THEN "writing" ELSE "done")
  BY <1>t DEF Ends, Resolve, Reject, Goto, Respond, TypeOK
<1>5. CASE f \notin Subjects(r)
  <2>1. ~Pending(r, f) /\ ~Pending(r, f)' /\ ~IsDeleting(r, f)
    <3>1. ~Pending(r, f)
      BY <1>t, <1>5, RequestFacts DEF Pending
    <3>2. pc'[r] # "waiting" /\ pc'[r] # "announcing"
      BY <1>4
    <3>3. QED BY <1>5, <3>1, <3>2 DEF Pending, IsDeleting
  <2>2. issue'[f] = issue[f]
    <3>1. issue' = issue \/ \E g, e : Touches(r, g, e) /\ Effect(g, e)
      BY <1>t, TaskEffects DEF tracker
    <3>2. ASSUME NEW g, NEW e, Touches(r, g, e), Effect(g, e) PROVE issue'[f] = issue[f]
      <4>1. g \in Feedback /\ g \in Subjects(r) /\ e \in Effects /\ (e = "create" \/ issue[g] # None)
        BY <1>t, <3>2, TouchesFacts
      <4>2. QED BY <1>t, <1>5, <3>2, <4>1, EffectFacts
    <3>3. QED BY <3>1, <3>2
  <2>3. QED BY <1>1, <1>3, <1>s, <2>1, <2>2, QuietStep
<1>6. CASE f \in Subjects(r) /\ Deletes(r)
  <2>1. ~Reject(r)
    BY <1>6 DEF Reject
  <2>2. pc'[r] = "writing" /\ Deletes(r)' /\ Subjects(r)' = Subjects(r)
    BY <1>1, <1>4, <1>6, <2>1, AskKept
  <2>3. QED BY <1>6, <2>2 DEF Deleting
<1>7. CASE f \in Subjects(r) /\ ~Deletes(r)
  <2>1. Kind(r) \in {"create", "update"} /\ Subject(r) = f /\ Subjects(r) = {f}
    BY <1>t, <1>2, <1>7, RequestFacts
  <2>2. Pending(r, f) /\ pc'[r] = "done"
    BY <1>2, <1>4, <1>7, <2>1 DEF Pending
  <2>3. ASSUME NEW q \in Request, q # r
        PROVE  /\ Pending(q, f)' <=> Pending(q, f)
               /\ StatusOf(q)' = StatusOf(q)
               /\ IsDeleting(q, f)' <=> IsDeleting(q, f)
               /\ earlier'[q] = earlier[q] /\ phase'[q] = phase[q]
    BY <1>s, <2>3, OthersInFlight, OthersKept
  <2>4. ~Pending(r, f)'
    BY <2>2 DEF Pending
  <2>5. CASE Deleting(f)
    <3>1. PICK d \in Request : IsDeleting(d, f)
      BY <2>5 DEF Deleting, IsDeleting
    <3>2. d # r
      BY <1>7, <3>1 DEF IsDeleting
    <3>3. IsDeleting(d, f)'
      BY <2>3, <3>1, <3>2
    <3>4. QED BY <3>3 DEF Deleting, IsDeleting
  <2>6. CASE LastPending(f)
    <3>1. PICK u \in Request : /\ Pending(u, f) /\ StatusOf(u) = record[f]
                               /\ \A v \in Request : Pending(v, f) => v = u \/ Before(v, u)
      BY <2>6 DEF LastPending
    <3>2. CASE u = r
      <4>1. ASSUME NEW v \in Request, v # r, Pending(v, f) PROVE FALSE
        BY <1>1, <2>2, <3>1, <3>2, <4>1, LastAlone
      <4>2. ASSUME NEW v \in Request, Pending(v, f)' PROVE FALSE
        <5>1. v # r
          BY <2>2, <4>2 DEF Pending
        <5>2. QED BY <2>3, <4>1, <4>2, <5>1
      <4>3. issue'[f] = None \/ issue'[f].state = StateOf(StatusOf(r))
        BY <2>1, EndsShown
      <4>4. issue'[f] = None \/ issue'[f].state = StateOf(record'[f])
        BY <1>1, <3>1, <3>2, <4>3
      <4>5. QED BY <4>2, <4>4 DEF Shown
    <3>3. CASE u # r
      <4>1. Pending(u, f)' /\ StatusOf(u)' = record'[f]
        BY <1>1, <2>3, <3>1, <3>3
      <4>2. ASSUME NEW v \in Request, Pending(v, f)' PROVE v = u \/ Before(v, u)'
        <5>1. v # r
          BY <2>2, <4>2 DEF Pending
        <5>2. Pending(v, f)
          BY <2>3, <4>2, <5>1
        <5>3. /\ earlier'[u] = earlier[u] /\ phase'[u] = phase[u] /\ phase'[v] = phase[v]
          BY <2>3, <3>3, <5>1
        <5>4. QED BY <1>3, <3>1, <5>2, <5>3, BeforeKept
      <4>3. QED BY <4>1, <4>2 DEF LastPending
    <3>4. QED BY <3>2, <3>3
  <2>7. CASE Shown(f)
    BY <2>2, <2>7 DEF Shown
  <2>8. QED BY <2>5, <2>6, <2>7
<1>8. QED BY <1>5, <1>6, <1>7


\* Every step keeps what is untroubled being deleted, on its way, or shown.
LEMMA OnItsWayStep ==
  ASSUME AnswersInOrder, BaseInv, OnItsWay, [Next]_vars
  PROVE  OnItsWay'
<1> SUFFICES ASSUME NEW f \in Feedback, Untroubled(f)', record'[f] # None
             PROVE  Deleting(f)' \/ LastPending(f)' \/ Shown(f)'
  BY DEF OnItsWay
<1>t. TypeOK /\ StagesAgree /\ IssuesKnown
  BY DEF BaseInv
<1>u. /\ f \notin missed' /\ <<f, "stale">> \notin misled' /\ <<f, "late">> \notin misled'
      /\ f \notin missed /\ Untroubled(f)
  BY TroubleStays DEF Untroubled
<1>i. record[f] # None => Deleting(f) \/ LastPending(f) \/ Shown(f)
  BY <1>u DEF OnItsWay
<1>s. \A r \in Request : Stage(r)
  BY <1>t DEF StagesAgree
<1>a. unanswered' = unanswered => AnswersKept
  BY DEF AnswersKept
<1>y. pc \in [Request -> {"new", "verifying", "writing", "announcing", "waiting", "done"}]
  BY <1>t DEF TypeOK
<1>g. ASSUME NEW r \in Request, NEW l, pc' = [pc EXCEPT ![r] = l] PROVE pc'[r] = l
  BY <1>g, <1>y
\* A request that has no part in f.
<1>q. ASSUME NEW r \in Request, (\E a \in Asks : Receive(r, a)) \/ Step(r), AnswersKept, record'[f] = record[f],
             issue' = issue, ~Pending(r, f), ~Pending(r, f)', ~IsDeleting(r, f)
      PROVE  Deleting(f)' \/ LastPending(f)' \/ Shown(f)'
  BY <1>i, <1>q, QuietStep
<1>1. ASSUME NEW r \in Request, NEW a \in Asks, Receive(r, a) PROVE Deleting(f)' \/ LastPending(f)' \/ Shown(f)'
  <2>1. pc[r] = "new" /\ pc'[r] \in {"writing", "verifying"} /\ UNCHANGED <<record, unanswered, issue>>
    BY <1>g, <1>1 DEF Receive, Goto, tracker
  <2>2. ~Pending(r, f) /\ ~Pending(r, f)' /\ ~IsDeleting(r, f)
    BY <2>1 DEF Pending, IsDeleting
  <2>3. QED BY <1>a, <1>q, <1>1, <2>1, <2>2
<1>2. ASSUME NEW r \in Request, Verify(r) PROVE Deleting(f)' \/ LastPending(f)' \/ Shown(f)'
  <2>1. pc[r] = "verifying" /\ UNCHANGED <<ask, record, unanswered, issue>>
    BY <1>2 DEF Verify, tracker
  <2>2. Deletes(r) \/ pc'[r] \in {"done", "writing"}
    BY <1>g, <1>2 DEF Verify, Respond, Goto
  <2>3. Kind(r)' = Kind(r)
    BY <2>1, AskKept
  <2>4. ~Pending(r, f) /\ ~Pending(r, f)' /\ ~IsDeleting(r, f)
    BY <2>1, <2>2, <2>3 DEF Pending, IsDeleting, Deletes
  <2>5. QED BY <1>a, <1>q, <1>2, <2>1, <2>4 DEF Step
<1>3. ASSUME NEW r \in Request, Write(r) PROVE Deleting(f)' \/ LastPending(f)' \/ Shown(f)'
  <2>1. pc[r] = "writing" /\ UNCHANGED <<ask, issue>>
    BY <1>3 DEF Write, tracker
  <2>2. ask[r] # None /\ Kind(r) \in {"create", "update", "delete", "deleteAll"}
    <3>1. ask[r] # None
      BY <1>s, <2>1 DEF Stage
    <3>2. QED BY <1>t, <3>1, RequestFacts
  <2>3. CASE ~Writes(r)
    <3>1. UNCHANGED <<record, unanswered>> /\ pc'[r] = "done"
      BY <1>g, <1>3, <2>3 DEF Write, Respond
    <3>2. Kind(r) \in {"update", "delete"} /\ record[Subject(r)] = None
      BY <2>3 DEF Writes, Subject
    <3>3. Subjects(r) = {Subject(r)}
      BY <1>t, <3>2, RequestFacts
    <3>4. f \notin Subjects(r)
      BY <3>1, <3>2, <3>3
    <3>5. ~Pending(r, f) /\ ~Pending(r, f)' /\ ~IsDeleting(r, f)
      BY <2>1, <3>1, <3>4 DEF Pending, IsDeleting
    <3>6. QED BY <1>a, <1>q, <1>3, <2>1, <3>1, <3>5 DEF Step
  <2>4. CASE Writes(r) /\ Deletes(r)
    <3>1. record' = Written(r) /\ unanswered' = unanswered /\ pc'[r] = "done"
      BY <1>g, <1>3, <2>4 DEF Write, Respond
    <3>2. f \notin Subjects(r) /\ record'[f] = record[f]
      BY <2>4, <3>1 DEF Written
    <3>3. ~Pending(r, f) /\ ~Pending(r, f)' /\ ~IsDeleting(r, f)
      BY <2>1, <3>1, <3>2 DEF Pending, IsDeleting
    <3>4. QED BY <1>a, <1>q, <1>3, <2>1, <3>1, <3>2, <3>3 DEF Step
  <2>5. CASE Writes(r) /\ ~Deletes(r)
    <3>1. record' = Written(r) /\ unanswered' = Append(unanswered, r)
      BY <1>3, <2>5 DEF Write
    <3>2. Kind(r) \in {"create", "update"}
      BY <1>t, <2>2, <2>5, RequestFacts
    <3>3. CASE f = Subject(r)
      BY <1>3, <2>5, <3>2, <3>3, WriteIsLast
    <3>4. CASE f # Subject(r)
      <4>1. Subjects(r) = {Subject(r)}
        BY <1>t, <3>2, RequestFacts
      <4>2. record'[f] = record[f]
        BY <3>1, <3>4, <4>1 DEF Written
      <4>3. AnswersKept
        <5>1. unanswered \in Seq(Request)
          BY <1>t DEF TypeOK
        <5>2. /\ Len(unanswered') = Len(unanswered) + 1 /\ Len(unanswered) \in Nat
              /\ \A n \in 1..Len(unanswered) : unanswered'[n] = unanswered[n]
          BY <3>1, <5>1
        <5>3. \A n \in 1..Len(unanswered) : n \in 1..Len(unanswered')
          BY <5>2
        <5>4. QED BY <5>2, <5>3 DEF AnswersKept
      <4>4. Subject(r)' = Subject(r)
        BY <2>1, AskKept
      <4>5. ~Pending(r, f) /\ ~Pending(r, f)' /\ ~IsDeleting(r, f)
        BY <2>5, <3>4, <4>4 DEF Pending, IsDeleting
      <4>6. QED BY <1>q, <1>3, <2>1, <4>2, <4>3, <4>5 DEF Step
    <3>5. QED BY <3>3, <3>4
  <2>6. QED BY <2>3, <2>4, <2>5
<1>4. ASSUME NEW r \in Request, WriteFails(r) PROVE Deleting(f)' \/ LastPending(f)' \/ Shown(f)'
  <2>1. pc[r] = "writing" /\ UNCHANGED <<unanswered, issue>> /\ pc'[r] = "done" /\ f \notin Subjects(r)
    BY <1>g, <1>u, <1>4 DEF WriteFails, Respond, tracker
  <2>2. record'[f] = record[f]
    <3>1. record' = record \/ record' = Written(r)
      BY <1>4 DEF WriteFails
    <3>2. record' = Written(r) => record'[f] = record[f]
      BY <2>1 DEF Written
    <3>3. QED BY <3>1, <3>2
  <2>3. ~Pending(r, f) /\ ~Pending(r, f)' /\ ~IsDeleting(r, f)
    BY <2>1 DEF Pending, IsDeleting
  <2>4. QED BY <1>a, <1>q, <1>4, <2>1, <2>2, <2>3 DEF Step
<1>5. ASSUME NEW r \in Request, Announce(r) PROVE Deleting(f)' \/ LastPending(f)' \/ Shown(f)'
  <2>1. pc[r] = "announcing" /\ pc'[r] = "waiting" /\ UNCHANGED <<ask, record, issue>> /\ Step(r)
    BY <1>t, <1>5, CallHookFacts DEF Announce, tracker, Step
  <2>2. Kind(r) \in {"create", "update"} /\ ~Deletes(r)
    BY <1>s, <2>1 DEF Stage, Deletes
  <2>3. /\ Kind(r)' = Kind(r) /\ Subject(r)' = Subject(r) /\ StatusOf(r)' = StatusOf(r) /\ (Deletes(r)' <=> Deletes(r))
    BY <2>1, AskKept
  <2>4. ASSUME NEW q \in Request, q # r
        PROVE  /\ Pending(q, f)' <=> Pending(q, f)
               /\ StatusOf(q)' = StatusOf(q)
               /\ IsDeleting(q, f)' <=> IsDeleting(q, f)
    BY <2>1, <2>4, OthersInFlight
  <2>5. ASSUME NEW q \in Request PROVE (Pending(q, f)' <=> Pending(q, f)) /\ StatusOf(q)' = StatusOf(q)
    <3>1. CASE q = r
      <4>1. Pending(r, f)' <=> Pending(r, f)
        BY <2>1, <2>3 DEF Pending
      <4>2. QED BY <2>3, <3>1, <4>1
    <3>2. CASE q # r
      BY <2>4, <3>2
    <3>3. QED BY <3>1, <3>2
  <2>6. \A q \in Request : Pending(q, f)' <=> Pending(q, f)
    BY <2>5
  <2>7. \A q \in Request : Pending(q, f) => StatusOf(q)' = StatusOf(q)
    BY <2>5
  <2>8. \A u, v \in Request : Pending(u, f) /\ Pending(v, f) /\ Before(v, u) => Before(v, u)'
    BY <1>5, AnnounceKeeps
  <2>9. ASSUME Deleting(f) PROVE Deleting(f)'
    <3>1. PICK d \in Request : IsDeleting(d, f)
      BY <2>9 DEF Deleting, IsDeleting
    <3>2. d # r
      BY <2>2, <3>1 DEF IsDeleting
    <3>3. IsDeleting(d, f)'
      BY <2>4, <3>1, <3>2
    <3>4. QED BY <3>3 DEF Deleting, IsDeleting
  <2>10. QED BY <1>i, <2>1, <2>6, <2>7, <2>8, <2>9, InFlightKept
<1>6. ASSUME NEW r \in Request, StartTask(r) PROVE Deleting(f)' \/ LastPending(f)' \/ Shown(f)'
  <2>1. UNCHANGED <<ask, pc, unanswered, earlier, record, issue>>
    BY <1>6 DEF StartTask, Order!Start, tracker
  <2>2. phase[r] = "queued" /\ phase' = [phase EXCEPT ![r] = "running"]
    BY <1>6 DEF StartTask, Order!Start, Order!Free
  <2>3. phase \in [Request -> {"new", "queued", "running", "ended"}]
    BY <1>t DEF TypeOK
  <2>4. \A q \in Request : phase'[q] = "new" <=> phase[q] = "new"
    BY <2>2, <2>3
  <2>5. QED BY <1>i, <2>1, <2>4, SameFlight
<1>7. ASSUME NEW r \in Request, TaskStep(r) PROVE Deleting(f)' \/ LastPending(f)' \/ Shown(f)'
  <2>1. record' = record /\ (GoesOn(r) \/ Ends(r))
    BY <1>t, <1>7, TaskMoves
  <2>2. QED BY <1>i, <1>u, <1>7, <2>1, GoesOnKeeps, EndsKeeps
<1>8. CASE Crash
  <2>1. record' = record /\ issue' = issue
    BY <1>8 DEF Crash, tracker
  <2>2. ASSUME NEW q \in Request, f \in Subjects(q) PROVE pc[q] \in {"new", "done"} /\ pc'[q] \in {"new", "done"}
    BY <1>t, <1>u, <1>8, <2>2, CrashFacts
  <2>3. ask' = ask
    BY <1>8 DEF Crash
  <2>4. ~Deleting(f)
    BY <2>2 DEF Deleting
  <2>5. ASSUME NEW q \in Request PROVE ~Pending(q, f) /\ ~Pending(q, f)'
    <3>1. Kind(q) \in {"create", "update"} => Subjects(q) = {Subject(q)}
      BY <1>t, RequestFacts
    <3>2. Kind(q)' = Kind(q) /\ Subject(q)' = Subject(q)
      BY <2>3, AskKept
    <3>3. CASE Kind(q) \in {"create", "update"} /\ Subject(q) = f
      BY <2>2, <3>1, <3>2, <3>3 DEF Pending
    <3>4. CASE ~(Kind(q) \in {"create", "update"} /\ Subject(q) = f)
      BY <3>2, <3>4 DEF Pending
    <3>5. QED BY <3>3, <3>4
  <2>6. Shown(f)
    BY <1>i, <2>1, <2>4, <2>5 DEF LastPending
  <2>7. QED BY <2>1, <2>5, <2>6 DEF Shown
<1>9. CASE Elsewhere
  <2>1. UNCHANGED <<ask, pc, record, unanswered, earlier, phase>>
    BY <1>9, ElsewhereFacts
  <2>2. issue'[f] = issue[f]
    <3>1. ASSUME NEW g \in Feedback, NEW e \in Effects, Land(g, e) PROVE issue'[f] = issue[f]
      <4>1. e = "create" \/ issue[g] # None
        BY <1>t, <3>1 DEF IssuesKnown, Land
      <4>2. g # f
        BY <1>u, <3>1 DEF Land
      <4>3. QED BY <1>t, <3>1, <4>1, <4>2, EffectFacts DEF Land
    <3>2. CASE (\E g \in Feedback : Index(g)) \/ UNCHANGED vars
      BY <3>2 DEF Index, vars, tracker
    <3>3. QED BY <1>9, <3>1, <3>2 DEF Elsewhere
  <2>3. QED BY <1>i, <2>1, <2>2, SameFlight
<1>10. QED BY <1>1, <1>2, <1>3, <1>4, <1>5, <1>6, <1>7, <1>8, <1>9, Steps DEF Step, TaskStep

\* Where the store answers writes in the order it made them, an issue shows the
\* status of its record once the requests on it are done, unless something failed
\* for it, the search showed it as it was not, or a request given up on reached it.
THEOREM SyncedInOrder == ASSUME AnswersInOrder PROVE Spec => []IssuesInSync
<1> DEFINE Inv == BaseInv /\ OnItsWay
<1>1. Init => Inv
  <2> SUFFICES ASSUME Init PROVE Inv
    OBVIOUS
  <2>1. ASSUME NEW f \in Feedback, record[f] # None PROVE Shown(f)
    <3>1. f \in Existing /\ record[f] = "open"
      BY <2>1 DEF Init
    <3>2. issue[f] = None \/ issue[f].state = "open"
      <4>1. issue[f] = None \/ issue[f] = [state |-> "open", comments |-> 0]
        BY DEF Init
      <4>2. QED BY <4>1
    <3>3. \A v \in Request : ~Pending(v, f)
      BY DEF Init, Pending
    <3>4. QED BY <3>1, <3>2, <3>3 DEF Shown, StateOf
  <2>2. QED BY <2>1, BaseInit DEF OnItsWay
<1>2. Inv /\ [Next]_vars => Inv'
  BY BaseStep, OnItsWayStep
<1>3. Inv => IssuesInSync
  <2> SUFFICES ASSUME Inv, NEW f \in Feedback, record[f] # None, issue[f] # None, Settled(f), Untroubled(f)
               PROVE  issue[f].state = StateOf(record[f])
    BY DEF IssuesInSync
  <2>t. TypeOK
    BY DEF BaseInv
  <2>1. ASSUME NEW q \in Request, Kind(q) # "none", f \in Subjects(q) PROVE pc[q] = "done"
    <3>1. ask[q] # None
      BY <2>1 DEF Kind
    <3>2. QED BY <2>1, <3>1 DEF Settled
  <2>2. ~Deleting(f)
    BY <2>1 DEF Deleting, Deletes
  <2>3. ASSUME NEW q \in Request, Pending(q, f) PROVE FALSE
    <3>1. Kind(q) \in {"create", "update"} /\ f \in Subjects(q)
      BY <2>t, <2>3, RequestFacts DEF Pending
    <3>2. QED BY <2>1, <2>3, <3>1 DEF Pending
  <2>4. Shown(f)
    BY <2>2, <2>3 DEF OnItsWay, LastPending
  <2>5. QED BY <2>4 DEF Shown
<1>4. QED BY <1>1, <1>2, <1>3, PTL DEF Spec
=============================================================================
