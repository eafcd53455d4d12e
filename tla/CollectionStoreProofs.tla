------------------------ MODULE CollectionStoreProofs ------------------------
(***************************************************************************)
(* Proofs about FeedbackData and CollectionStore, for every number of      *)
(* calls, stores, keys, projects and requests.                             *)
(***************************************************************************)
EXTENDS CollectionStore, FiniteSetTheorems, TLAPS

(***************************************************************************)
(* What the mutations of FeedbackData make of a snapshot: they keep it a   *)
(* snapshot, and they keep its keys unique and its threads bounded.        *)
(***************************************************************************)

\* The creation of a feedback gives a snapshot and an answer.
LEMMA CreateType ==
  ASSUME NEW S \in SUBSET Feedback, NEW c \in Call, NEW r \in CreateRequest
  PROVE  /\ CreateFeedback(S, c, r).next \in SUBSET Feedback
         /\ CreateFeedback(S, c, r).write \in BOOLEAN
         /\ CreateFeedback(S, c, r).reply \in Reply
<1> USE DEF Persists, Returns, Reply, Outcome
<1>1. NewFeedback(c, r) \in Feedback
  BY DataAssumption DEF NewFeedback, Feedback, CreateRequest
<1>2. CASE {f \in S : f.clientId = r.clientId} = {}
  BY <1>1, <1>2 DEF CreateFeedback
<1>3. CASE {f \in S : f.clientId = r.clientId} # {}
  <2>1. (CHOOSE f \in {g \in S : g.clientId = r.clientId} : TRUE).id \in Call
    BY <1>3 DEF Feedback
  <2>2. QED
    BY <1>3, <2>1 DEF CreateFeedback
<1>4. QED
  BY <1>2, <1>3

\* So does every change of a feedback's status, and every deletion.
LEMMA ChangeType ==
  ASSUME NEW S \in SUBSET Feedback,
         NEW r \in UpdateRequest \cup DeleteRequest \cup DeleteAllRequest \cup DeleteCommentRequest,
         NEW m,
         \/ r \in UpdateRequest /\ m = UpdateFeedback(S, r)
         \/ r \in DeleteRequest /\ m = DeleteFeedback(S, r)
         \/ r \in DeleteAllRequest /\ m = DeleteAllFeedbacks(S, r)
         \/ r \in DeleteCommentRequest /\ m = DeleteComment(S, r)
  PROVE  /\ m.next \in SUBSET Feedback
         /\ m.write \in BOOLEAN
         /\ m.reply \in Reply
<1> USE DEF Persists, Returns, Reply, Outcome, Replace, Feedback
<1>1. CASE r \in UpdateRequest /\ m = UpdateFeedback(S, r)
  BY <1>1 DEF UpdateFeedback, UpdateRequest
<1>2. CASE r \in DeleteRequest /\ m = DeleteFeedback(S, r)
  BY <1>2 DEF DeleteFeedback, DeleteRequest
<1>3. CASE r \in DeleteAllRequest /\ m = DeleteAllFeedbacks(S, r)
  BY <1>3 DEF DeleteAllFeedbacks, DeleteAllRequest
<1>4. CASE r \in DeleteCommentRequest /\ m = DeleteComment(S, r)
  BY <1>4 DEF DeleteComment, DeleteCommentRequest
<1>5. QED
  BY <1>1, <1>2, <1>3, <1>4

\* And the posting of a comment.
LEMMA CommentType ==
  ASSUME NEW S \in SUBSET Feedback, NEW c \in Call, NEW r \in CommentRequest
  PROVE  /\ AddComment(S, c, r).next \in SUBSET Feedback
         /\ AddComment(S, c, r).write \in BOOLEAN
         /\ AddComment(S, c, r).reply \in Reply
<1> USE DEF Persists, Returns, Reply, Outcome
<1> DEFINE existing == {m \in Threads(S) : m.clientId = r.clientId}
           posted == Replace(S, r.id,
                             LAMBDA f : [f EXCEPT !.comments = @ \cup {NewComment(c, r)}])
<1>1. NewComment(c, r) \in Comment
  BY DEF NewComment, Comment, CommentRequest
<1>2. posted \in SUBSET Feedback
  BY <1>1 DEF Replace, Feedback
<1>3. existing # {} => (CHOOSE m \in existing : TRUE).id \in Call
  BY DEF Threads, Feedback, Comment
<1>4. r.id \in Call
  BY DEF CommentRequest
<1>5. QED
  BY <1>2, <1>3, <1>4, Zenon DEF AddComment

\* Whatever is asked, a mutation gives a snapshot and an answer.
LEMMA MutationType ==
  ASSUME NEW S \in SUBSET Feedback, NEW c \in Call, NEW r \in Request
  PROVE  /\ Mutation(S, c, r).next \in SUBSET Feedback
         /\ Mutation(S, c, r).write \in BOOLEAN
         /\ Mutation(S, c, r).reply \in Reply
<1>1. CASE r \in CreateRequest
  <2>1. Mutation(S, c, r) = CreateFeedback(S, c, r)
    BY <1>1 DEF Mutation, CreateRequest, CreateKind
  <2>2. QED BY <1>1, <2>1, CreateType
<1>2. CASE r \in UpdateRequest
  <2>1. Mutation(S, c, r) = UpdateFeedback(S, r)
    BY <1>2 DEF Mutation, UpdateRequest, CreateKind
  <2>2. QED BY <1>2, <2>1, ChangeType
<1>3. CASE r \in DeleteRequest
  <2>1. Mutation(S, c, r) = DeleteFeedback(S, r)
    BY <1>3 DEF Mutation, DeleteRequest, CreateKind
  <2>2. QED BY <1>3, <2>1, ChangeType
<1>4. CASE r \in DeleteAllRequest
  <2>1. Mutation(S, c, r) = DeleteAllFeedbacks(S, r)
    BY <1>4 DEF Mutation, DeleteAllRequest, CreateKind
  <2>2. QED BY <1>4, <2>1, ChangeType
<1>5. CASE r \in CommentRequest
  <2>1. Mutation(S, c, r) = AddComment(S, c, r)
    BY <1>5 DEF Mutation, CommentRequest, CreateKind
  <2>2. QED BY <1>5, <2>1, CommentType
<1>6. CASE r \in DeleteCommentRequest
  <2>1. Mutation(S, c, r) = DeleteComment(S, r)
    BY <1>6 DEF Mutation, DeleteCommentRequest, CreateKind
  <2>2. QED BY <1>6, <2>1, ChangeType
<1>7. QED
  BY <1>1, <1>2, <1>3, <1>4, <1>5, <1>6 DEF Request

\* A snapshot in which every key and every cap is respected.  The threads are
\* finite, which the cap's count needs.
Sound(S) ==
  /\ UniqueFeedbacks(S)
  /\ UniqueComments(S)
  /\ BoundedThreads(S)
  /\ \A f \in S : IsFiniteSet(f.comments)

\* A snapshot whose records come from those of a sound one, with the same keys
\* and no more comments, is sound.
LEMMA DerivedSound ==
  ASSUME NEW S \in SUBSET Feedback, Sound(S), NEW R \in SUBSET Feedback,
         \A g \in R : \E f \in S : /\ g.id = f.id
                                   /\ g.clientId = f.clientId
                                   /\ g.comments \subseteq f.comments,
         \A g, h \in R : g.id = h.id => g = h
  PROVE  Sound(R)
<1>1. UniqueFeedbacks(R)
  <2>1. ASSUME NEW g \in R, NEW h \in R, g.clientId = h.clientId
        PROVE  g.id = h.id
    BY <2>1 DEF Sound, UniqueFeedbacks
  <2>2. QED BY <2>1 DEF UniqueFeedbacks
<1>2. UniqueComments(R)
  <2>1. ASSUME NEW g \in R, NEW h \in R, NEW m \in g.comments, NEW n \in h.comments,
               m.clientId = n.clientId
        PROVE  g = h /\ m = n
    <3>1. PICK f \in S : g.id = f.id /\ g.comments \subseteq f.comments
      OBVIOUS
    <3>2. PICK e \in S : h.id = e.id /\ h.comments \subseteq e.comments
      OBVIOUS
    <3>3. f = e /\ m = n
      BY <2>1, <3>1, <3>2 DEF Sound, UniqueComments
    <3>4. g = h
      BY <1>1, <3>1, <3>2, <3>3 DEF UniqueFeedbacks
    <3>5. QED BY <3>3, <3>4
  <2>2. QED BY <2>1 DEF UniqueComments
<1>3. ASSUME NEW g \in R
      PROVE  IsFiniteSet(g.comments) /\ Cardinality(ClientPart(g.comments)) <= MaxClientComments
  <2>1. PICK f \in S : g.comments \subseteq f.comments
    OBVIOUS
  <2>2. IsFiniteSet(f.comments) /\ Cardinality(ClientPart(f.comments)) <= MaxClientComments
    BY DEF Sound, BoundedThreads
  <2>3. IsFiniteSet(ClientPart(f.comments))
    BY <2>2, FS_Subset DEF ClientPart
  <2>4. ClientPart(g.comments) \subseteq ClientPart(f.comments)
    BY <2>1 DEF ClientPart
  <2>5. /\ Cardinality(ClientPart(g.comments)) <= Cardinality(ClientPart(f.comments))
        /\ Cardinality(ClientPart(g.comments)) \in Nat
        /\ Cardinality(ClientPart(f.comments)) \in Nat
    BY <2>3, <2>4, FS_Subset, FS_CardinalityType
  <2>6. QED
    BY <2>1, <2>2, <2>5, FS_Subset, DataAssumption
<1>4. QED
  BY <1>1, <1>2, <1>3 DEF Sound, BoundedThreads

\* A snapshot with a record of a fresh id and a fresh key is sound.
LEMMA CreateSound ==
  ASSUME NEW S \in SUBSET Feedback, Sound(S), NEW c \in Call \ Ids(S), NEW r \in CreateRequest
  PROVE  /\ Sound(CreateFeedback(S, c, r).next)
         /\ Ids(CreateFeedback(S, c, r).next) \subseteq Ids(S) \cup {c}
<1> DEFINE n == NewFeedback(c, r)
<1>1. CASE {f \in S : f.clientId = r.clientId} # {}
  BY <1>1 DEF CreateFeedback, Returns
<1>2. CASE {f \in S : f.clientId = r.clientId} = {}
  <2>1. CreateFeedback(S, c, r).next = S \cup {n}
    BY <1>2 DEF CreateFeedback, Persists
  <2>2. n.id = c /\ n.clientId = r.clientId /\ n.comments = {}
    BY DEF NewFeedback
  <2>3. UniqueFeedbacks(S \cup {n})
    BY <1>2, <2>2 DEF Sound, UniqueFeedbacks, Ids
  <2>4. UniqueComments(S \cup {n})
    BY <2>2 DEF Sound, UniqueComments
  <2>5. IsFiniteSet(n.comments) /\ Cardinality(ClientPart(n.comments)) <= MaxClientComments
    <3>1. ClientPart({}) = {}
      BY DEF ClientPart
    <3>2. QED BY <2>2, <3>1, FS_EmptySet, DataAssumption
  <2>6. Sound(S \cup {n})
    BY <2>3, <2>4, <2>5 DEF Sound, BoundedThreads
  <2>7. Ids(S \cup {n}) \subseteq Ids(S) \cup {c}
    BY <2>2 DEF Ids
  <2>8. QED BY <2>1, <2>6, <2>7
<1>3. QED
  BY <1>1, <1>2

\* No other change of feedbacks or removal of comments breaks a snapshot.
LEMMA ChangeSound ==
  ASSUME NEW S \in SUBSET Feedback, Sound(S),
         NEW r \in UpdateRequest \cup DeleteRequest \cup DeleteAllRequest \cup DeleteCommentRequest,
         NEW m,
         \/ r \in UpdateRequest /\ m = UpdateFeedback(S, r)
         \/ r \in DeleteRequest /\ m = DeleteFeedback(S, r)
         \/ r \in DeleteAllRequest /\ m = DeleteAllFeedbacks(S, r)
         \/ r \in DeleteCommentRequest /\ m = DeleteComment(S, r)
  PROVE  Sound(m.next) /\ Ids(m.next) \subseteq Ids(S)
<1>1. m.next \in SUBSET Feedback
  BY ChangeType
<1>2. /\ \A g \in m.next : \E f \in S : /\ g.id = f.id
                                    /\ g.clientId = f.clientId
                                    /\ g.comments \subseteq f.comments
      /\ \A g, h \in m.next : g.id = h.id => g = h
  <2> USE DEF Persists, Returns, Replace, Feedback, Sound, UniqueFeedbacks
  <2>1. CASE r \in UpdateRequest /\ m = UpdateFeedback(S, r)
    BY <2>1 DEF UpdateFeedback
  <2>2. CASE r \in DeleteRequest /\ m = DeleteFeedback(S, r)
    BY <2>2 DEF DeleteFeedback
  <2>3. CASE r \in DeleteAllRequest /\ m = DeleteAllFeedbacks(S, r)
    BY <2>3 DEF DeleteAllFeedbacks
  <2>4. CASE r \in DeleteCommentRequest /\ m = DeleteComment(S, r)
    <3> DEFINE Cut(f) == [f EXCEPT !.comments = {n \in @ : n.id # r.comment}]
    <3>1. \A f \in S : /\ Cut(f).id = f.id
                       /\ Cut(f).clientId = f.clientId
                       /\ Cut(f).comments \subseteq f.comments
      OBVIOUS
    <3>2. m.next = S \/ m.next = {f \in S : f.id # r.id} \cup {Cut(f) : f \in {g \in S : g.id = r.id}}
      BY <2>4 DEF DeleteComment
    <3> HIDE DEF Cut
    <3>3. \A g \in m.next : \E f \in S : /\ g.id = f.id
                                         /\ g.clientId = f.clientId
                                         /\ g.comments \subseteq f.comments
      BY <3>1, <3>2
    <3>4. ASSUME NEW g \in m.next, NEW h \in m.next, g.id = h.id
          PROVE  g = h
      BY <3>1, <3>2, <3>4
    <3>5. QED BY <3>3, <3>4
  <2>5. QED BY <2>1, <2>2, <2>3, <2>4
<1>3. Sound(m.next)
  BY <1>1, <1>2, DerivedSound
<1>4. QED
  BY <1>2, <1>3 DEF Ids

\* So does the same creation without its screenshot.
LEMMA WithoutScreenshotSound ==
  ASSUME NEW S \in SUBSET Feedback, Sound(S), NEW c \in Call
  PROVE  /\ WithoutScreenshot(S, c) \in SUBSET Feedback
         /\ Sound(WithoutScreenshot(S, c))
         /\ Ids(WithoutScreenshot(S, c)) = Ids(S)
<1> DEFINE R == WithoutScreenshot(S, c)
<1> USE DEF WithoutScreenshot, Replace
<1>1. R \in SUBSET Feedback
  BY DEF Feedback
<1>2. \A g \in R : \E f \in S : /\ g.id = f.id
                                /\ g.clientId = f.clientId
                                /\ g.comments \subseteq f.comments
  BY DEF Feedback
<1>3. \A g, h \in R : g.id = h.id => g = h
  BY DEF Feedback, Sound, UniqueFeedbacks
<1>4. Ids(R) = Ids(S)
  <2>1. \A f \in S : [f EXCEPT !.screenshot = FALSE].id = f.id
    BY DEF Feedback
  <2>2. \A f \in S : \E g \in R : g.id = f.id
    BY <2>1
  <2> HIDE DEF R
  <2>3. QED BY <1>2, <2>2 DEF Ids
<1>5. Sound(R)
  <2> HIDE DEF R
  <2>1. QED BY <1>1, <1>2, <1>3, DerivedSound
<1>6. QED
  BY <1>1, <1>4, <1>5

\* A comment enters a thread only under a new key and below the cap.
LEMMA CommentSound ==
  ASSUME NEW S \in SUBSET Feedback, Sound(S), NEW c \in Call, NEW r \in CommentRequest
  PROVE  /\ Sound(AddComment(S, c, r).next)
         /\ Ids(AddComment(S, c, r).next) \subseteq Ids(S)
<1> DEFINE n == NewComment(c, r)
           Post(f) == [f EXCEPT !.comments = @ \cup {n}]
           R == {f \in S : f.id # r.id} \cup {Post(f) : f \in {g \in S : g.id = r.id}}
           existing == {m \in Threads(S) : m.clientId = r.clientId}
           full(f) == Cardinality(ClientPart(f.comments)) >= MaxClientComments
           open == /\ existing = {}
                   /\ r.id \in Ids(S)
                   /\ ~(r.role = "client" /\ \E f \in S : f.id = r.id /\ full(f))
<1>1. CASE ~open
  <2>1. AddComment(S, c, r).next = S
    BY <1>1 DEF AddComment, Returns
  <2>2. QED BY <2>1
<1>2. CASE open
  <2>1. AddComment(S, c, r).next = R
    BY <1>2 DEF AddComment, Persists, Replace
  <2>2. \A f \in S : /\ Post(f).id = f.id
                     /\ Post(f).clientId = f.clientId
                     /\ Post(f).comments = f.comments \cup {n}
    BY DEF Feedback
  <2>3. n.clientId = r.clientId /\ n.role = r.role
    BY DEF NewComment
  <2> HIDE DEF Post, n
  <2>4. \A g \in R : \E f \in S : /\ g.id = f.id
                                  /\ g.clientId = f.clientId
                                  /\ \/ g = f /\ g.id # r.id
                                     \/ g = Post(f) /\ g.id = r.id
    BY <2>2
  <2>5. UniqueFeedbacks(R)
    BY <2>4 DEF Sound, UniqueFeedbacks
  <2>6. ASSUME NEW f \in S, NEW m \in f.comments
        PROVE  m.clientId # r.clientId
    BY <1>2 DEF Threads
  <2>7. UniqueComments(R)
    <3>1. ASSUME NEW g \in R, NEW h \in R, NEW x \in g.comments, NEW y \in h.comments,
                 x.clientId = y.clientId
          PROVE  g.id = h.id /\ x = y
      <4>1. PICK f \in S : g.id = f.id /\ (x \in f.comments \/ (x = n /\ g.id = r.id))
        BY <2>2, <2>4
      <4>2. PICK e \in S : h.id = e.id /\ (y \in e.comments \/ (y = n /\ h.id = r.id))
        BY <2>2, <2>4
      <4>3. CASE x \in f.comments /\ y \in e.comments
        BY <3>1, <4>1, <4>2, <4>3 DEF Sound, UniqueComments
      <4>4. CASE x = n /\ g.id = r.id
        BY <2>3, <2>6, <3>1, <4>2, <4>4
      <4>5. CASE y = n /\ h.id = r.id
        BY <2>3, <2>6, <3>1, <4>1, <4>5
      <4>6. QED BY <4>1, <4>2, <4>3, <4>4, <4>5
    <3>2. QED BY <2>5, <3>1 DEF UniqueComments, UniqueFeedbacks
  <2>8. ASSUME NEW g \in R
        PROVE  /\ IsFiniteSet(g.comments)
               /\ Cardinality(ClientPart(g.comments)) <= MaxClientComments
    <3>1. PICK f \in S : \/ g = f /\ g.id # r.id
                         \/ g = Post(f) /\ g.id = r.id /\ g.id = f.id
      BY <2>4
    <3>2. IsFiniteSet(f.comments) /\ Cardinality(ClientPart(f.comments)) <= MaxClientComments
      BY DEF Sound, BoundedThreads
    <3>3. CASE g = f
      BY <3>2, <3>3
    <3>4. CASE g = Post(f) /\ g.id = r.id /\ g.id = f.id
      <4>1. g.comments = f.comments \cup {n}
        BY <2>2, <3>4
      <4>2. IsFiniteSet(g.comments)
        BY <3>2, <4>1, FS_AddElement
      <4>3. CASE r.role # "client"
        <5>1. ClientPart(g.comments) = ClientPart(f.comments)
          BY <2>3, <4>1, <4>3 DEF ClientPart
        <5>2. QED BY <3>2, <4>2, <5>1
      <4>4. CASE r.role = "client"
        <5>1. ClientPart(g.comments) = ClientPart(f.comments) \cup {n}
          BY <2>3, <4>1, <4>4 DEF ClientPart
        <5>2. IsFiniteSet(ClientPart(f.comments))
          BY <3>2, FS_Subset DEF ClientPart
        <5>3. /\ Cardinality(ClientPart(f.comments)) \in Nat
              /\ Cardinality(ClientPart(f.comments) \cup {n}) <= Cardinality(ClientPart(f.comments)) + 1
              /\ Cardinality(ClientPart(f.comments) \cup {n}) \in Nat
          <6> DEFINE P == ClientPart(f.comments)
          <6>1. Cardinality(P) \in Nat
            BY <5>2, FS_CardinalityType
          <6>2. Cardinality(P \cup {n}) = IF n \in P THEN Cardinality(P) ELSE Cardinality(P) + 1
            BY <5>2, FS_AddElement
          <6>3. \/ Cardinality(P \cup {n}) = Cardinality(P)
                \/ Cardinality(P \cup {n}) = Cardinality(P) + 1
            BY <6>2
          <6>4. QED BY <6>1, <6>3
        <5>4. ~(Cardinality(ClientPart(f.comments)) >= MaxClientComments)
          BY <1>2, <3>4, <4>4
        <5>5. QED BY <4>2, <5>1, <5>3, <5>4, DataAssumption
      <4>5. QED BY <4>3, <4>4
    <3>5. QED BY <3>1, <3>3, <3>4
  <2>9. Sound(R)
    BY <2>5, <2>7, <2>8 DEF Sound, BoundedThreads
  <2>10. Ids(R) \subseteq Ids(S)
    BY <2>4 DEF Ids
  <2>11. QED
    <3> HIDE DEF R
    <3>1. QED BY <2>1, <2>9, <2>10
<1>3. QED
  BY <1>1, <1>2

\* No mutation breaks a sound snapshot, and only a creation adds an id: its own.
LEMMA MutationSound ==
  ASSUME NEW S \in SUBSET Feedback, Sound(S), NEW c \in Call \ Ids(S), NEW r \in Request
  PROVE  /\ Sound(Mutation(S, c, r).next)
         /\ Ids(Mutation(S, c, r).next) \subseteq Ids(S) \cup {c}
<1>1. CASE r \in CreateRequest
  <2>1. Mutation(S, c, r) = CreateFeedback(S, c, r)
    BY <1>1 DEF Mutation, CreateRequest, CreateKind
  <2>2. QED BY <1>1, <2>1, CreateSound
<1>2. CASE r \in UpdateRequest
  <2>1. Mutation(S, c, r) = UpdateFeedback(S, r)
    BY <1>2 DEF Mutation, UpdateRequest, CreateKind
  <2>2. QED BY <1>2, <2>1, ChangeSound
<1>3. CASE r \in DeleteRequest
  <2>1. Mutation(S, c, r) = DeleteFeedback(S, r)
    BY <1>3 DEF Mutation, DeleteRequest, CreateKind
  <2>2. QED BY <1>3, <2>1, ChangeSound
<1>4. CASE r \in DeleteAllRequest
  <2>1. Mutation(S, c, r) = DeleteAllFeedbacks(S, r)
    BY <1>4 DEF Mutation, DeleteAllRequest, CreateKind
  <2>2. QED BY <1>4, <2>1, ChangeSound
<1>5. CASE r \in CommentRequest
  <2>1. Mutation(S, c, r) = AddComment(S, c, r)
    BY <1>5 DEF Mutation, CommentRequest, CreateKind
  <2>2. QED BY <1>5, <2>1, CommentSound
<1>6. CASE r \in DeleteCommentRequest
  <2>1. Mutation(S, c, r) = DeleteComment(S, r)
    BY <1>6 DEF Mutation, DeleteCommentRequest, CreateKind
  <2>2. QED BY <1>6, <2>1, ChangeSound
<1>7. QED
  BY <1>1, <1>2, <1>3, <1>4, <1>5, <1>6 DEF Request

\* A mutation that persists nothing leaves the snapshot as it is.
LEMMA NoWriteNoChange ==
  ASSUME NEW S \in SUBSET Feedback, NEW c \in Call, NEW r \in Request,
         ~Mutation(S, c, r).write
  PROVE  Mutation(S, c, r).next = S
BY DEF Mutation, CreateFeedback, UpdateFeedback, DeleteFeedback, DeleteAllFeedbacks, AddComment,
       DeleteComment, Persists, Returns, Request, CreateRequest, UpdateRequest, DeleteRequest,
       DeleteAllRequest, CommentRequest, DeleteCommentRequest, CreateKind

\* A creation that persists adds its own record.
LEMMA CreateWrites ==
  ASSUME NEW S \in SUBSET Feedback, NEW c \in Call, NEW r \in Request,
         CarriesScreenshot(r), Mutation(S, c, r).write
  PROVE  /\ c \in Ids(Mutation(S, c, r).next)
         /\ Mutation(S, c, r).reply = [outcome |-> "created", id |-> c]
<1>1. r.kind \in CreateKind
  BY DEF CarriesScreenshot
<1>2. Mutation(S, c, r) = CreateFeedback(S, c, r)
  BY <1>1 DEF Mutation, CreateKind
<1>3. Mutation(S, c, r) = Persists(S \cup {NewFeedback(c, r)}, "created", c)
  BY <1>2 DEF CreateFeedback, Returns
<1>4. NewFeedback(c, r).id = c
  BY DEF NewFeedback
<1>5. QED
  BY <1>3, <1>4 DEF Persists, Ids

(***************************************************************************)
(* The inductive invariant.  The properties are about the storage alone;   *)
(* they are preserved because the calls waiting are distinct and have not  *)
(* touched it, and because the snapshot a cycle holds is still the         *)
(* storage, or the storage before the write whose failure it is retrying.  *)
(***************************************************************************)

\* A call that waits is made, unanswered, and has left nothing in the storage.
Untouched(c) ==
  /\ op[c] # NoRequest
  /\ reply[c] = Pending
  /\ c \notin Ids(storage)
  /\ \A t \in Store : running[t] # c

QueueInv ==
  /\ \A s \in Store : \A i \in 1..Len(queue[s]) : Untouched(queue[s][i])
  /\ \A s, t \in Store : \A i \in 1..Len(queue[s]), j \in 1..Len(queue[t]) :
       queue[s][i] = queue[t][j] => s = t /\ i = j

FreshInv ==
  \A c \in Call : op[c] = NoRequest =>
    /\ reply[c] = Pending
    /\ c \notin Ids(storage)
    /\ \A t \in Store : running[t] # c

CycleInv ==
  \A s \in Store :
    /\ stage[s] = "idle" <=> running[s] = None
    /\ running[s] # None => /\ AsyncBackend
                            /\ op[running[s]] # NoRequest
                            /\ reply[running[s]] = Pending
    /\ stage[s] = "loading" => running[s] \notin Ids(storage)
    /\ stage[s] = "persisting" => /\ snapshot[s] = storage
                                  /\ running[s] \notin Ids(storage)
                                  /\ Computed(s).write
    /\ stage[s] = "retrying" => /\ Sound(snapshot[s])
                                /\ running[s] \notin Ids(snapshot[s])
                                /\ CarriesScreenshot(op[running[s]])
                                /\ Computed(s).write
                                /\ storage \in {snapshot[s], Computed(s).next}

IInv == TypeOK /\ Sound(storage) /\ QueueInv /\ FreshInv /\ CycleInv

LEMMA InitIInv == Init => IInv
<1> SUFFICES ASSUME Init PROVE IInv
  OBVIOUS
<1> USE DEF Init
<1>1. TypeOK
  BY DEF TypeOK, Reply, Outcome, Pending, Stage
<1>2. Sound(storage)
  BY DEF Sound, UniqueFeedbacks, UniqueComments, BoundedThreads
<1>3. QueueInv
  BY DEF QueueInv
<1>4. FreshInv /\ CycleInv
  BY StoreAssumption, DataAssumption DEF FreshInv, CycleInv, Ids
<1>5. QED
  BY <1>1, <1>2, <1>3, <1>4 DEF IInv

(***************************************************************************)
(* One lemma per action.                                                   *)
(***************************************************************************)

\* A new call joins a queue, untouched and distinct from the others.
LEMMA SubmitIInv ==
  ASSUME IInv, NEW c \in Call, NEW s \in Store, NEW r \in Requests, Submit(c, s, r)
  PROVE  IInv'
<1> USE DEF IInv, Submit
<1>1. TypeOK'
  BY DEF TypeOK
<1>2. Sound(storage)'
  OBVIOUS
<1>3. r # NoRequest
  BY StoreAssumption
<1>4. Untouched(c)' /\ \A d \in Call : Untouched(d) => Untouched(d)'
  BY <1>3 DEF TypeOK, FreshInv, Untouched
<1>5. \A t \in Store : \A i \in 1..Len(queue[t]) : queue[t][i] # c
  BY DEF QueueInv, Untouched
<1>6. \A t \in Store : \A i \in 1..Len(queue'[t]) :
        \/ i \in 1..Len(queue[t]) /\ queue'[t][i] = queue[t][i]
        \/ t = s /\ i = Len(queue[s]) + 1 /\ queue'[t][i] = c
  BY DEF TypeOK
<1>7. QueueInv'
  <2>1. ASSUME NEW t \in Store, NEW i \in 1..Len(queue'[t])
        PROVE  Untouched(queue[t][i])'
    <3>1. CASE i \in 1..Len(queue[t]) /\ queue'[t][i] = queue[t][i]
      <4>1. queue[t][i] \in Call /\ Untouched(queue[t][i])
        BY <3>1 DEF QueueInv, TypeOK
      <4>2. QED BY <1>4, <3>1, <4>1 DEF Untouched
    <3>2. CASE queue'[t][i] = c
      BY <1>4, <3>2 DEF Untouched
    <3>3. QED BY <1>6, <3>1, <3>2
  <2>2. \A t, u \in Store : \A i \in 1..Len(queue'[t]), j \in 1..Len(queue'[u]) :
          queue'[t][i] = queue'[u][j] => t = u /\ i = j
    BY <1>5, <1>6 DEF QueueInv
  <2>3. QED BY <2>1, <2>2 DEF QueueInv
<1>8. FreshInv'
  BY DEF FreshInv, TypeOK
<1>9. CycleInv'
  BY <1>3 DEF CycleInv, Computed, TypeOK, FreshInv
<1>10. QED
  BY <1>1, <1>2, <1>7, <1>8, <1>9

\* Taking the head of a queue keeps the rest of it.
LEMMA DequeueInv ==
  ASSUME IInv, NEW s \in Store, queue[s] # <<>>, queue' = [queue EXCEPT ![s] = Tail(@)]
  PROVE  /\ Head(queue[s]) \in Call
         /\ Untouched(Head(queue[s]))
         /\ queue' \in [Store -> Seq(Call)]
         /\ \A t \in Store : \A i \in 1..Len(queue'[t]) :
              /\ queue'[t][i] \in Call
              /\ Untouched(queue'[t][i])
              /\ queue'[t][i] # Head(queue[s])
         /\ \A t, u \in Store : \A i \in 1..Len(queue'[t]), j \in 1..Len(queue'[u]) :
              queue'[t][i] = queue'[u][j] => t = u /\ i = j
<1> USE DEF IInv, TypeOK
<1>1. Len(queue[s]) \in Nat /\ Len(queue[s]) > 0 /\ Head(queue[s]) = queue[s][1]
  OBVIOUS
<1>2. \A t \in Store : \A i \in 1..Len(queue'[t]) :
        \/ t # s /\ i \in 1..Len(queue[t]) /\ queue'[t][i] = queue[t][i]
        \/ t = s /\ i + 1 \in 1..Len(queue[t]) /\ queue'[t][i] = queue[t][i + 1]
  BY <1>1
<1>3. queue' \in [Store -> Seq(Call)]
  BY <1>1
<1>4. Untouched(Head(queue[s])) /\ Head(queue[s]) \in Call
  BY <1>1 DEF QueueInv
<1>5. \A t \in Store : \A i \in 1..Len(queue'[t]) : queue'[t][i] \in Call /\ Untouched(queue'[t][i])
  BY <1>2, <1>3 DEF QueueInv
<1>6. \A t \in Store : \A i \in 1..Len(queue'[t]) : queue'[t][i] # Head(queue[s])
  <2>1. SUFFICES ASSUME NEW t \in Store, NEW i \in 1..Len(queue'[t]), queue'[t][i] = queue[s][1]
                 PROVE  FALSE
    BY <1>1
  <2>2. CASE t # s
    BY <1>1, <1>2, <2>1, <2>2 DEF QueueInv
  <2>3. CASE t = s
    <3>1. i + 1 \in 1..Len(queue[s]) /\ queue[s][i + 1] = queue[s][1]
      BY <1>2, <2>1, <2>3
    <3>2. i + 1 = 1
      BY <1>1, <3>1 DEF QueueInv
    <3>3. QED BY <1>3, <3>2
  <2>4. QED BY <2>2, <2>3
<1>7. ASSUME NEW t \in Store, NEW u \in Store, NEW i \in 1..Len(queue'[t]), NEW j \in 1..Len(queue'[u]),
             queue'[t][i] = queue'[u][j]
      PROVE  t = u /\ i = j
  <2>1. PICK k \in 1..Len(queue[t]) : queue'[t][i] = queue[t][k] /\ k = IF t = s THEN i + 1 ELSE i
    BY <1>2
  <2>2. PICK l \in 1..Len(queue[u]) : queue'[u][j] = queue[u][l] /\ l = IF u = s THEN j + 1 ELSE j
    BY <1>2
  <2>3. t = u /\ k = l
    BY <1>7, <2>1, <2>2 DEF QueueInv
  <2>4. i \in Nat /\ j \in Nat
    BY <1>3
  <2>5. QED BY <2>1, <2>2, <2>3, <2>4
<1>8. QED
  BY <1>3, <1>4, <1>5, <1>6, <1>7

\* An uninterrupted cycle goes from one sound snapshot to the next.
LEMMA CycleIInv ==
  ASSUME IInv, NEW s \in Store, Cycle(s)
  PROVE  IInv'
<1> DEFINE c == Head(queue[s])
           m == Mutation(storage, c, op[c])
<1>1. /\ ~AsyncBackend /\ queue[s] # <<>>
      /\ queue' = [queue EXCEPT ![s] = Tail(@)]
      /\ UNCHANGED <<op, running, stage, snapshot>>
  BY DEF Cycle, Uninterrupted, Ready
<1>2. /\ c \in Call /\ Untouched(c)
      /\ queue' \in [Store -> Seq(Call)]
      /\ \A t \in Store : \A i \in 1..Len(queue'[t]) :
           queue'[t][i] \in Call /\ Untouched(queue'[t][i]) /\ queue'[t][i] # c
      /\ \A t, u \in Store : \A i \in 1..Len(queue'[t]), j \in 1..Len(queue'[u]) :
           queue'[t][i] = queue'[u][j] => t = u /\ i = j
  BY <1>1, DequeueInv
<1>3. storage \in SUBSET Feedback /\ Sound(storage) /\ op[c] \in Request /\ c \notin Ids(storage)
  BY <1>2, StoreAssumption DEF IInv, TypeOK, Untouched
<1>4. /\ m.next \in SUBSET Feedback /\ m.reply \in Reply
      /\ Sound(m.next) /\ Ids(m.next) \subseteq Ids(storage) \cup {c}
  BY <1>2, <1>3, MutationType, MutationSound
<1>5. /\ WithoutScreenshot(m.next, c) \in SUBSET Feedback
      /\ Sound(WithoutScreenshot(m.next, c))
      /\ Ids(WithoutScreenshot(m.next, c)) = Ids(m.next)
  BY <1>2, <1>4, WithoutScreenshotSound
<1>6. /\ storage' \in {storage, m.next, WithoutScreenshot(m.next, c)}
      /\ \E a \in Reply : reply' = [reply EXCEPT ![c] = a]
  <2>1. Failed \in Reply
    BY DEF Failed, Reply, Outcome
  <2>2. QED BY <1>4, <2>1 DEF Cycle
<1>7. storage' \in SUBSET Feedback /\ Sound(storage)' /\ Ids(storage') \subseteq Ids(storage) \cup {c}
  BY <1>3, <1>4, <1>5, <1>6 DEF Sound, UniqueFeedbacks, UniqueComments, BoundedThreads
<1>8. \A t \in Store : running[t] = None /\ stage[t] = "idle"
  BY <1>1 DEF IInv, CycleInv, TypeOK
<1> HIDE DEF c, m
<1>9. TypeOK'
  BY <1>1, <1>2, <1>6, <1>7 DEF TypeOK, IInv
<1>10. QueueInv'
  <2>1. ASSUME NEW t \in Store, NEW i \in 1..Len(queue'[t])
        PROVE  Untouched(queue[t][i])'
    <3>1. \A d \in Call : Untouched(d) /\ d # c => Untouched(d)'
      BY <1>1, <1>2, <1>6, <1>7 DEF Untouched, IInv, TypeOK
    <3>2. queue'[t][i] \in Call /\ Untouched(queue'[t][i]) /\ queue'[t][i] # c
      BY <1>2
    <3>3. QED BY <3>1, <3>2 DEF Untouched
  <2>2. QED BY <1>2, <2>1 DEF QueueInv
<1>11. FreshInv'
  BY <1>1, <1>2, <1>6, <1>7 DEF FreshInv, IInv, Untouched, TypeOK
<1>12. CycleInv'
  BY <1>1, <1>8, DataAssumption DEF CycleInv, Computed
<1>13. QED
  BY <1>7, <1>9, <1>10, <1>11, <1>12 DEF IInv

\* The head of a queue starts its cycle.
LEMMA StartIInv ==
  ASSUME IInv, NEW s \in Store, Start(s)
  PROVE  IInv'
<1> DEFINE c == Head(queue[s])
<1>1. /\ AsyncBackend /\ queue[s] # <<>> /\ running[s] = None
      /\ queue' = [queue EXCEPT ![s] = Tail(@)]
      /\ running' = [running EXCEPT ![s] = c]
      /\ stage' = [stage EXCEPT ![s] = "loading"]
      /\ UNCHANGED <<op, snapshot, storage, reply>>
  BY StoreAssumption DEF Start, Uninterrupted, Ready
<1>2. /\ c \in Call /\ Untouched(c)
      /\ queue' \in [Store -> Seq(Call)]
      /\ \A t \in Store : \A i \in 1..Len(queue'[t]) :
           queue'[t][i] \in Call /\ Untouched(queue'[t][i]) /\ queue'[t][i] # c
      /\ \A t, u \in Store : \A i \in 1..Len(queue'[t]), j \in 1..Len(queue'[u]) :
           queue'[t][i] = queue'[u][j] => t = u /\ i = j
  BY <1>1, DequeueInv
<1>3. \A t \in Store : t = s
  BY <1>1, StoreAssumption
<1> HIDE DEF c
<1>4. TypeOK'
  BY <1>1, <1>2 DEF TypeOK, IInv, Stage
<1>5. Sound(storage)'
  BY <1>1 DEF IInv
<1>6. QueueInv'
  <2>1. ASSUME NEW t \in Store, NEW i \in 1..Len(queue'[t])
        PROVE  Untouched(queue[t][i])'
    <3>1. \A d \in Call : Untouched(d) /\ d # c => Untouched(d)'
      BY <1>1, <1>2, <1>3 DEF Untouched, IInv, TypeOK
    <3>2. queue'[t][i] \in Call /\ Untouched(queue'[t][i]) /\ queue'[t][i] # c
      BY <1>2
    <3>3. QED BY <3>1, <3>2 DEF Untouched
  <2>2. QED BY <1>2, <2>1 DEF QueueInv
<1>7. FreshInv'
  BY <1>1, <1>2, <1>3 DEF FreshInv, IInv, Untouched, TypeOK
<1>8. CycleInv'
  <2>1. /\ stage'[s] = "loading" /\ running'[s] = c /\ c # None
        /\ op'[c] # NoRequest /\ reply'[c] = Pending /\ c \notin Ids(storage')
    BY <1>1, <1>2, DataAssumption DEF Untouched, IInv, TypeOK
  <2>2. QED BY <1>1, <1>3, <2>1 DEF CycleInv
<1>9. QED
  BY <1>4, <1>5, <1>6, <1>7, <1>8 DEF IInv

\* A cycle ends with an answer; all it may add to the storage is its own id.
LEMMA SettleIInv ==
  ASSUME IInv, NEW s \in Store, running[s] # None, NEW a \in Reply, Settle(s, a),
         UNCHANGED <<op, queue>>,
         storage' \in SUBSET Feedback, Sound(storage)',
         Ids(storage') \subseteq Ids(storage) \cup {running[s]}
  PROVE  IInv'
<1> USE DEF IInv
<1>1. /\ running[s] \in Call /\ AsyncBackend /\ op[running[s]] # NoRequest
  BY DEF TypeOK, CycleInv
<1>2. \A t \in Store : t = s
  BY <1>1, StoreAssumption
<1>3. /\ running' = [running EXCEPT ![s] = None]
      /\ stage' = [stage EXCEPT ![s] = "idle"]
      /\ snapshot' = [snapshot EXCEPT ![s] = {}]
      /\ reply' = [reply EXCEPT ![running[s]] = a]
  BY DEF Settle
<1>4. TypeOK'
  BY <1>3 DEF TypeOK, Stage
<1>5. \A d \in Call : Untouched(d) => Untouched(d)'
  BY <1>1, <1>2, <1>3, DataAssumption DEF Untouched, TypeOK
<1>6. QueueInv'
  <2>1. ASSUME NEW t \in Store, NEW i \in 1..Len(queue'[t])
        PROVE  Untouched(queue[t][i])'
    <3>1. queue[t][i] \in Call /\ Untouched(queue[t][i]) /\ queue'[t][i] = queue[t][i]
      BY DEF QueueInv, TypeOK
    <3>2. QED BY <1>5, <3>1 DEF Untouched
  <2>2. QED BY <2>1 DEF QueueInv
<1>7. FreshInv'
  BY <1>1, <1>2, <1>3, DataAssumption DEF FreshInv, TypeOK
<1>8. CycleInv'
  BY <1>2, <1>3 DEF CycleInv, TypeOK
<1>9. QED
  BY <1>4, <1>6, <1>7, <1>8

\* What a cycle computes from a snapshot is sound and adds at most its own id.
LEMMA ComputedSound ==
  ASSUME IInv, NEW s \in Store, stage[s] \in {"persisting", "retrying"}
  PROVE  LET c == running[s]
             n == Computed(s).next
         IN  /\ c \in Call /\ op[c] \in Request
             /\ n \in SUBSET Feedback /\ Sound(n) /\ Ids(n) \subseteq Ids(storage) \cup {c}
             /\ Computed(s).reply \in Reply
             /\ WithoutScreenshot(n, c) \in SUBSET Feedback
             /\ Sound(WithoutScreenshot(n, c))
             /\ Ids(WithoutScreenshot(n, c)) = Ids(n)
<1>1. running[s] \in Call /\ op[running[s]] \in Request
  BY StoreAssumption DEF IInv, TypeOK, CycleInv
<1>2. snapshot[s] \in SUBSET Feedback /\ Sound(snapshot[s]) /\ running[s] \notin Ids(snapshot[s])
  BY DEF IInv, TypeOK, CycleInv
<1>3. /\ Computed(s).next \in SUBSET Feedback /\ Sound(Computed(s).next)
      /\ Computed(s).reply \in Reply
      /\ Ids(Computed(s).next) \subseteq Ids(snapshot[s]) \cup {running[s]}
  BY <1>1, <1>2, MutationType, MutationSound DEF Computed
<1>4. Ids(Computed(s).next) \subseteq Ids(storage) \cup {running[s]}
  BY <1>3 DEF IInv, CycleInv
<1>5. QED
  BY <1>1, <1>3, <1>4, WithoutScreenshotSound

\* The load ends the cycle at once, or leaves a snapshot that is the storage.
LEMMA LoadIInv ==
  ASSUME IInv, NEW s \in Store, Load(s)
  PROVE  IInv'
<1> DEFINE c == running[s]
           m == Mutation(storage, c, op[c])
<1>1. /\ stage[s] = "loading" /\ c \in Call /\ c # None /\ AsyncBackend
      /\ op[c] \in Request /\ c \notin Ids(storage)
      /\ storage \in SUBSET Feedback /\ Sound(storage)
  BY StoreAssumption, DataAssumption DEF Load, IInv, TypeOK, CycleInv
<1>2. m.reply \in Reply
  BY <1>1, MutationType
<1>3. CASE ~m.write
  <2>1. Settle(s, m.reply) /\ UNCHANGED <<op, queue, storage>>
    BY <1>3 DEF Load
  <2>2. QED
    BY <1>1, <1>2, <2>1, SettleIInv DEF Sound, UniqueFeedbacks, UniqueComments, BoundedThreads
<1>4. CASE m.write
  <2>1. /\ snapshot' = [snapshot EXCEPT ![s] = storage]
        /\ stage' = [stage EXCEPT ![s] = "persisting"]
        /\ UNCHANGED <<op, queue, running, storage, reply>>
    BY <1>4 DEF Load
  <2>2. \A t \in Store : t = s
    BY <1>1, StoreAssumption
  <2>3. TypeOK'
    BY <1>1, <2>1 DEF IInv, TypeOK, Stage
  <2>4. Sound(storage)' /\ FreshInv'
    BY <1>1, <2>1 DEF IInv, FreshInv
  <2>5. QueueInv'
    BY <2>1 DEF IInv, QueueInv, Untouched
  <2>6. CycleInv'
    <3>1. snapshot'[s] = storage /\ stage'[s] = "persisting"
      BY <2>1 DEF IInv, TypeOK
    <3>2. Computed(s)' = m
      BY <2>1, <3>1 DEF Computed
    <3>3. QED
      BY <1>1, <1>4, <2>1, <2>2, <3>1, <3>2 DEF IInv, CycleInv
  <2>7. QED BY <2>3, <2>4, <2>5, <2>6 DEF IInv
<1>5. QED
  BY <1>3, <1>4

\* The failing load ends the cycle.
LEMMA LoadFailsIInv ==
  ASSUME IInv, NEW s \in Store, LoadFails(s)
  PROVE  IInv'
<1>1. running[s] # None /\ storage \in SUBSET Feedback /\ Sound(storage)
  BY DEF LoadFails, IInv, TypeOK, CycleInv
<1>2. Failed \in Reply
  BY DEF Failed, Reply, Outcome
<1>3. QED
  BY <1>1, <1>2, SettleIInv DEF LoadFails, Sound, UniqueFeedbacks, UniqueComments, BoundedThreads

\* A persist, first or second, that succeeds ends the cycle.
LEMMA PersistIInv ==
  ASSUME IInv, NEW s \in Store, Persist(s) \/ Retry(s)
  PROVE  IInv'
<1>1. running[s] # None /\ stage[s] \in {"persisting", "retrying"}
  BY DEF Persist, Retry, IInv, CycleInv
<1>2. /\ storage' \in {Computed(s).next, WithoutScreenshot(Computed(s).next, running[s])}
      /\ Settle(s, Computed(s).reply) /\ UNCHANGED <<op, queue>>
  BY DEF Persist, Retry
<1>3. /\ storage' \in SUBSET Feedback /\ Sound(storage')
      /\ Ids(storage') \subseteq Ids(storage) \cup {running[s]}
      /\ Computed(s).reply \in Reply
  BY <1>1, <1>2, ComputedSound
<1>4. Sound(storage)'
  BY <1>3 DEF Sound, UniqueFeedbacks, UniqueComments, BoundedThreads
<1>5. QED
  BY <1>1, <1>2, <1>3, <1>4, SettleIInv

\* A first persist that fails ends the cycle or leads to the second one.
LEMMA PersistFailsIInv ==
  ASSUME IInv, NEW s \in Store, PersistFails(s)
  PROVE  IInv'
<1> DEFINE c == running[s]
<1>1. /\ stage[s] = "persisting" /\ c # None
      /\ storage' \in {storage, Computed(s).next} /\ UNCHANGED <<op, queue>>
  BY DEF PersistFails, IInv, CycleInv
<1>2. /\ c \in Call /\ storage' \in SUBSET Feedback /\ Sound(storage')
      /\ Ids(storage') \subseteq Ids(storage) \cup {c}
  BY <1>1, ComputedSound DEF IInv, TypeOK
<1>3. Sound(storage)'
  BY <1>2 DEF Sound, UniqueFeedbacks, UniqueComments, BoundedThreads
<1>4. CASE Settle(s, Failed)
  <2>1. Failed \in Reply
    BY DEF Failed, Reply, Outcome
  <2>2. QED BY <1>1, <1>2, <1>3, <1>4, <2>1, SettleIInv
<1>5. CASE /\ CarriesScreenshot(op[c])
           /\ stage' = [stage EXCEPT ![s] = "retrying"]
           /\ UNCHANGED <<running, snapshot, reply>>
  <2>1. AsyncBackend /\ op[c] # NoRequest /\ \A t \in Store : t = s
    BY <1>1, StoreAssumption DEF IInv, CycleInv
  <2>2. TypeOK'
    BY <1>1, <1>2, <1>5 DEF IInv, TypeOK, Stage
  <2>3. QueueInv'
    <3>1. \A d \in Call : Untouched(d) => Untouched(d)'
      BY <1>1, <1>2, <1>5 DEF Untouched
    <3>2. ASSUME NEW t \in Store, NEW i \in 1..Len(queue'[t])
          PROVE  Untouched(queue[t][i])'
      <4>1. queue[t][i] \in Call /\ Untouched(queue[t][i]) /\ queue'[t][i] = queue[t][i]
        BY <1>1 DEF IInv, QueueInv, TypeOK
      <4>2. QED BY <3>1, <4>1 DEF Untouched
    <3>3. QED BY <1>1, <3>2 DEF IInv, QueueInv
  <2>4. FreshInv'
    BY <1>1, <1>2, <1>5, <2>1 DEF IInv, FreshInv
  <2>5. CycleInv'
    <3>1. /\ Sound(snapshot[s]) /\ c \notin Ids(snapshot[s]) /\ Computed(s).write
          /\ snapshot[s] = storage /\ AsyncBackend /\ reply[c] = Pending
      BY <1>1 DEF IInv, CycleInv
    <3>2. Computed(s)' = Computed(s) /\ stage'[s] = "retrying"
      BY <1>1, <1>5 DEF Computed, IInv, TypeOK
    <3>3. Sound(snapshot[s])'
      BY <1>5, <3>1 DEF Sound, UniqueFeedbacks, UniqueComments, BoundedThreads
    <3>4. QED
      BY <1>1, <1>5, <2>1, <3>1, <3>2, <3>3 DEF CycleInv
  <2>6. QED BY <1>3, <2>2, <2>3, <2>4, <2>5 DEF IInv
<1>6. QED
  BY <1>4, <1>5 DEF PersistFails

\* A second persist that fails ends the cycle.
LEMMA RetryFailsIInv ==
  ASSUME IInv, NEW s \in Store, RetryFails(s)
  PROVE  IInv'
<1>1. running[s] # None /\ stage[s] = "retrying"
  BY DEF RetryFails, IInv, CycleInv
<1>2. /\ storage' \in {storage, WithoutScreenshot(Computed(s).next, running[s])}
      /\ Settle(s, Failed) /\ UNCHANGED <<op, queue>>
  BY DEF RetryFails
<1>3. /\ storage' \in SUBSET Feedback /\ Sound(storage')
      /\ Ids(storage') \subseteq Ids(storage) \cup {running[s]}
  BY <1>1, <1>2, ComputedSound DEF IInv, TypeOK
<1>4. Sound(storage)'
  BY <1>3 DEF Sound, UniqueFeedbacks, UniqueComments, BoundedThreads
<1>5. Failed \in Reply
  BY DEF Failed, Reply, Outcome
<1>6. QED
  BY <1>1, <1>2, <1>3, <1>4, <1>5, SettleIInv

\* clear empties the storage between two cycles.
LEMMA ClearIInv ==
  ASSUME IInv, Clear
  PROVE  IInv'
<1>1. /\ ~AsyncBackend /\ storage' = {}
      /\ UNCHANGED <<op, queue, running, stage, snapshot, reply>>
  BY DEF Clear
<1>2. TypeOK' /\ Sound(storage)'
  BY <1>1 DEF IInv, TypeOK, Sound, UniqueFeedbacks, UniqueComments, BoundedThreads
<1>3. QueueInv' /\ FreshInv'
  BY <1>1 DEF IInv, QueueInv, FreshInv, Untouched, Ids
<1>4. CycleInv'
  BY <1>1, DataAssumption DEF IInv, CycleInv
<1>5. QED
  BY <1>2, <1>3, <1>4 DEF IInv

LEMMA NextIInv == IInv /\ [Next]_vars => IInv'
<1> SUFFICES ASSUME IInv, [Next]_vars PROVE IInv'
  OBVIOUS
<1>1. CASE \E c \in Call, s \in Store, r \in Requests : Submit(c, s, r)
  BY <1>1, SubmitIInv
<1>2. CASE \E s \in Store : Step(s)
  BY <1>2, CycleIInv, StartIInv, LoadIInv, LoadFailsIInv, PersistIInv, PersistFailsIInv,
     RetryFailsIInv DEF Step
<1>3. CASE Clear
  BY <1>3, ClearIInv
<1>4. CASE UNCHANGED vars
  BY <1>4 DEF vars, IInv, TypeOK, Sound, UniqueFeedbacks, UniqueComments, BoundedThreads,
              QueueInv, Untouched, FreshInv, CycleInv, Computed
<1>5. QED
  BY <1>1, <1>2, <1>3, <1>4 DEF Next

\* The invariant holds of every reachable state.
THEOREM Invariance == Spec => []IInv
  BY InitIInv, NextIInv, PTL DEF Spec

\* The state always has the shape declared for it.
THEOREM TypeCorrect == Spec => []TypeOK
  BY Invariance, PTL DEF IInv

\* No clientId ever names two stored feedbacks (createFeedbackIfAbsent).
THEOREM FeedbackKeys == Spec => []OneFeedbackPerClientId
<1>1. IInv => OneFeedbackPerClientId
  BY DEF IInv, Sound, OneFeedbackPerClientId
<1>2. QED BY Invariance, <1>1, PTL

\* No clientId ever names two stored comments (addCommentIfAbsent).
THEOREM CommentKeys == Spec => []OneCommentPerClientId
<1>1. IInv => OneCommentPerClientId
  BY DEF IInv, Sound, OneCommentPerClientId
<1>2. QED BY Invariance, <1>1, PTL

\* No thread outgrows the cap on client comments (addCommentIfAbsent).
THEOREM ThreadCap == Spec => []ThreadsBounded
<1>1. IInv => ThreadsBounded
  BY DEF IInv, Sound, ThreadsBounded
<1>2. QED BY Invariance, <1>1, PTL

\* The storage is sound in all three respects.
THEOREM Soundness == Spec => []StorageSound
<1>1. IInv => StorageSound
  BY DEF IInv, Sound, StorageSound, OneFeedbackPerClientId, OneCommentPerClientId, ThreadsBounded
<1>2. QED BY Invariance, <1>1, PTL

\* Nothing deleted or cleared comes back: whatever id a step adds to the storage
\* is that of a call still unanswered.
THEOREM NoComeback == Spec => NothingComesBack
<1>1. ASSUME IInv, Next, NEW f \in Ids(storage') \ Ids(storage)
      PROVE  reply[f] = Pending
  <2>1. CASE \E c \in Call, s \in Store, r \in Requests : Submit(c, s, r)
    BY <1>1, <2>1 DEF Submit
  <2>2. CASE Clear
    BY <1>1, <2>2 DEF Clear, Ids
  <2>3. ASSUME NEW s \in Store, Cycle(s)
        PROVE  reply[f] = Pending
    <3> DEFINE c == Head(queue[s])
               m == Mutation(storage, c, op[c])
    <3>1. c \in Call /\ Untouched(c)
      BY <1>1, <2>3, DequeueInv DEF Cycle, Ready
    <3>2. storage \in SUBSET Feedback /\ Sound(storage) /\ op[c] \in Request /\ c \notin Ids(storage)
      BY <1>1, <3>1, StoreAssumption DEF IInv, TypeOK, Untouched
    <3>3. m.next \in SUBSET Feedback /\ Sound(m.next) /\ Ids(m.next) \subseteq Ids(storage) \cup {c}
      BY <3>1, <3>2, MutationType, MutationSound
    <3>4. Ids(WithoutScreenshot(m.next, c)) = Ids(m.next)
      BY <3>1, <3>3, WithoutScreenshotSound
    <3>5. storage' \in {storage, m.next, WithoutScreenshot(m.next, c)}
      BY <2>3 DEF Cycle
    <3>6. f = c
      BY <1>1, <3>3, <3>4, <3>5
    <3>7. QED BY <3>1, <3>6 DEF Untouched
  <2>4. ASSUME NEW s \in Store, stage[s] \in {"persisting", "retrying"},
               storage' \in {storage, Computed(s).next,
                             WithoutScreenshot(Computed(s).next, running[s])}
        PROVE  reply[f] = Pending
    <3>1. f = running[s]
      BY <1>1, <2>4, ComputedSound
    <3>2. running[s] # None
      BY <1>1, <2>4 DEF IInv, CycleInv
    <3>3. QED BY <1>1, <3>1, <3>2 DEF IInv, CycleInv
  <2>5. ASSUME NEW s \in Store, Start(s) \/ Load(s) \/ LoadFails(s)
        PROVE  reply[f] = Pending
    BY <1>1, <2>5 DEF Start, Load, LoadFails
  <2>6. QED
    BY <1>1, <2>1, <2>2, <2>3, <2>4, <2>5 DEF Next, Step, Persist, PersistFails, Retry, RetryFails
<1>2. IInv /\ [Next]_vars => [\A f \in Ids(storage') \ Ids(storage) : reply[f] = Pending]_vars
  BY <1>1
<1>3. QED
  BY Invariance, <1>2, PTL DEF Spec, NothingComesBack

(***************************************************************************)
(* The cycles implement AtomicStore.                                       *)
(***************************************************************************)

\* Without a second persist pending, nothing is in effect and unanswered.
LEMMA NotInEffect ==
  ASSUME IInv, NEW s \in Store, AsyncBackend, stage[s] # "retrying" \/ running[s] \notin Ids(storage)
  PROVE  InEffect = {}
BY StoreAssumption DEF InEffect

\* The promise is stated with the same data.
LEMMA SameData ==
  /\ Atomic!Pending = Pending /\ Atomic!Failed = Failed
  /\ \A S, c, r : Atomic!Mutation(S, c, r) = Mutation(S, c, r)
  /\ \A r : Atomic!CarriesScreenshot(r) = CarriesScreenshot(r)
  /\ \A S, c : Atomic!WithoutScreenshot(S, c) = WithoutScreenshot(S, c)
<1>1. Atomic!Pending = Pending /\ Atomic!Failed = Failed
  BY DEF Pending, Failed, Atomic!Pending, Atomic!Failed
<1>2. \A S, c, r : Atomic!Mutation(S, c, r) = Mutation(S, c, r)
  BY DEF CreateKind, Atomic!CreateKind, NewFeedback, Atomic!NewFeedback, NewComment,
         Atomic!NewComment, Persists, Atomic!Persists, Returns, Atomic!Returns, Ids,
         Atomic!Ids, Threads, Atomic!Threads, ClientPart, Atomic!ClientPart, Replace,
         Atomic!Replace, CreateFeedback, Atomic!CreateFeedback, UpdateFeedback,
         Atomic!UpdateFeedback, DeleteFeedback, Atomic!DeleteFeedback, DeleteAllFeedbacks,
         Atomic!DeleteAllFeedbacks, AddComment, Atomic!AddComment, DeleteComment,
         Atomic!DeleteComment, Mutation, Atomic!Mutation
<1>3. \A r : Atomic!CarriesScreenshot(r) = CarriesScreenshot(r)
  BY DEF CarriesScreenshot, CreateKind, Atomic!CarriesScreenshot, Atomic!CreateKind
<1>4. \A S, c : Atomic!WithoutScreenshot(S, c) = WithoutScreenshot(S, c)
  BY DEF WithoutScreenshot, Replace, Atomic!WithoutScreenshot, Atomic!Replace
<1>5. QED
  BY <1>1, <1>2, <1>3, <1>4

\* The initial states are the initial states of the promise.
LEMMA InitAtomic == Init => Atomic!Init
BY SameData, DataAssumption DEF Init, Atomic!Init, InEffect

\* Every step is a step of the promise, or invisible to it.
LEMMA StepAtomic == IInv /\ IInv' /\ [Next]_vars => [Atomic!Next]_(Atomic!vars)
<1> SUFFICES ASSUME IInv, IInv', [Next]_vars
             PROVE  [Atomic!Next]_(Atomic!vars)
  OBVIOUS
<1> USE SameData DEF Atomic!Next, Atomic!vars
<1>1. ASSUME NEW c \in Call, NEW s \in Store, NEW r \in Requests, Submit(c, s, r)
      PROVE  Atomic!Submit(c, r)
  BY <1>1 DEF Submit, Atomic!Submit, InEffect
<1>2. ASSUME Clear
      PROVE  Atomic!Clear
  <2>1. InEffect = {} /\ InEffect' = {}
    BY <1>2 DEF Clear, InEffect, IInv, CycleInv
  <2>2. QED BY <1>2, <2>1 DEF Clear, Atomic!Clear
<1>3. ASSUME NEW s \in Store, Cycle(s)
      PROVE  \E c \in Call : Atomic!Take(c) \/ Atomic!Fail(c)
  <2> DEFINE c == Head(queue[s])
  <2>1. c \in Call /\ Untouched(c)
    BY <1>3, DequeueInv DEF Cycle, Ready
  <2>2. InEffect = {} /\ InEffect' = {}
    BY <1>3 DEF Cycle, Uninterrupted, InEffect, IInv, CycleInv
  <2>3. QED
    BY <1>3, <2>1, <2>2 DEF Cycle, Atomic!Take, Atomic!Fail, Atomic!Open, Untouched
<1>4. ASSUME NEW s \in Store, Start(s)
      PROVE  UNCHANGED Atomic!vars
  <2>1. InEffect = {} /\ InEffect' = {}
    BY <1>4, StoreAssumption, DataAssumption DEF Start, Uninterrupted, Ready, InEffect, IInv, CycleInv, TypeOK
  <2>2. QED BY <1>4, <2>1 DEF Start
<1>5. ASSUME NEW s \in Store, running[s] # None
      PROVE  /\ running[s] \in Call /\ AsyncBackend /\ \A t \in Store : t = s
             /\ op[running[s]] \in Request /\ Atomic!Open(running[s])
  BY <1>5, StoreAssumption DEF IInv, TypeOK, CycleInv, Atomic!Open
<1>6. ASSUME NEW s \in Store, stage[s] = "loading" \/ stage[s] = "persisting"
      PROVE  InEffect = {} /\ running[s] # None
  BY <1>5, <1>6 DEF InEffect, IInv, CycleInv
<1>7. ASSUME NEW s \in Store, running[s] # None, NEW a, Settle(s, a)
      PROVE  InEffect' = {} /\ reply' = [reply EXCEPT ![running[s]] = a]
  BY <1>5, <1>7 DEF Settle, InEffect, IInv, TypeOK
<1>8. ASSUME NEW s \in Store, Load(s)
      PROVE  Atomic!Take(running[s]) \/ UNCHANGED Atomic!vars
  <2> DEFINE m == Mutation(storage, running[s], op[running[s]])
  <2>1. /\ running[s] # None /\ running[s] \in Call /\ InEffect = {} /\ op[running[s]] \in Request
        /\ Atomic!Open(running[s]) /\ storage \in SUBSET Feedback
        /\ \A t \in Store : t = s
    BY <1>5, <1>6, <1>8 DEF Load, IInv, TypeOK
  <2>2. CASE ~m.write
    <3>1. m.next = storage
      BY <2>1, <2>2, NoWriteNoChange
    <3>2. QED
      BY <1>7, <1>8, <2>1, <2>2, <3>1 DEF Load, Atomic!Take
  <2>3. CASE m.write
    <3>1. InEffect' = {}
      BY <1>8, <2>1, <2>3 DEF Load, InEffect, IInv, TypeOK
    <3>2. QED BY <1>8, <2>1, <2>3, <3>1 DEF Load
  <2>4. QED BY <2>2, <2>3
<1>9. ASSUME NEW s \in Store, LoadFails(s)
      PROVE  Atomic!Fail(running[s])
  <2>1. running[s] # None /\ InEffect = {}
    BY <1>6, <1>9 DEF LoadFails
  <2>2. QED
    BY <1>5, <1>7, <1>9, <2>1 DEF LoadFails, Atomic!Fail
<1>10. ASSUME NEW s \in Store, Persist(s)
       PROVE  Atomic!Take(running[s])
  <2>1. running[s] # None /\ InEffect = {}
    BY <1>6, <1>10 DEF Persist
  <2>2. Computed(s) = Mutation(storage, running[s], op[running[s]])
    BY <1>10 DEF Persist, Computed, IInv, CycleInv
  <2>3. QED
    BY <1>5, <1>7, <1>10, <2>1, <2>2 DEF Persist, Atomic!Take
<1>11. ASSUME NEW s \in Store, PersistFails(s)
       PROVE  \/ Atomic!Fail(running[s])
              \/ Atomic!TakeUnanswered(running[s])
              \/ UNCHANGED Atomic!vars
  <2> DEFINE c == running[s]
             m == Mutation(storage, c, op[c])
  <2>1. /\ c # None /\ c \in Call /\ InEffect = {} /\ AsyncBackend /\ Atomic!Open(c)
        /\ \A t \in Store : t = s
    BY <1>5, <1>6, <1>11 DEF PersistFails
  <2>2. Computed(s) = m /\ m.write /\ c \notin Ids(storage) /\ stage[s] = "persisting"
    BY <1>11 DEF PersistFails, Computed, IInv, CycleInv
  <2>3. storage' \in {storage, m.next} /\ UNCHANGED <<op, queue>>
    BY <1>11, <2>2 DEF PersistFails
  <2>4. CASE Settle(s, Failed)
    BY <1>7, <2>1, <2>3, <2>4 DEF Atomic!Fail
  <2>5. CASE /\ CarriesScreenshot(op[c])
             /\ stage' = [stage EXCEPT ![s] = "retrying"]
             /\ UNCHANGED <<running, snapshot, reply>>
    <3>1. InEffect' = IF c \in Ids(storage') THEN {c} ELSE {}
      BY <2>1, <2>5 DEF InEffect, IInv, TypeOK
    <3>2. storage \in SUBSET Feedback /\ op[c] \in Request
      BY <1>5, <2>1 DEF IInv, TypeOK
    <3>3. c \in Ids(m.next)
      BY <2>1, <2>2, <2>5, <3>2, CreateWrites
    <3>4. CASE storage' = storage
      BY <2>1, <2>2, <2>3, <2>5, <3>1, <3>4
    <3>5. CASE storage' = m.next
      BY <2>1, <2>2, <2>3, <2>5, <3>1, <3>3, <3>5 DEF Atomic!TakeUnanswered
    <3>6. QED BY <2>3, <3>4, <3>5
  <2>6. QED BY <1>11, <2>4, <2>5 DEF PersistFails
<1>12. ASSUME NEW s \in Store, Retry(s) \/ RetryFails(s)
       PROVE  Atomic!Take(running[s]) \/ Atomic!Answer(running[s]) \/ Atomic!Fail(running[s])
  <2> DEFINE c == running[s]
  <2>1. c # None /\ stage[s] = "retrying"
    BY <1>12 DEF Retry, RetryFails, IInv, CycleInv
  <2>2. /\ c \in Call /\ AsyncBackend /\ Atomic!Open(c) /\ op[c] \in Request
        /\ \A t \in Store : t = s
    BY <1>5, <2>1
  <2>3. /\ snapshot[s] \in SUBSET Feedback /\ c \notin Ids(snapshot[s])
        /\ CarriesScreenshot(op[c]) /\ Computed(s).write
        /\ storage \in {snapshot[s], Computed(s).next}
    BY <2>1 DEF IInv, TypeOK, CycleInv
  <2>4. Computed(s).reply = [outcome |-> "created", id |-> c] /\ c \in Ids(Computed(s).next)
    BY <2>2, <2>3, CreateWrites DEF Computed
  <2>5. /\ \/ /\ storage' = WithoutScreenshot(Computed(s).next, c)
              /\ Settle(s, Computed(s).reply)
           \/ /\ storage' \in {storage, WithoutScreenshot(Computed(s).next, c)}
              /\ Settle(s, Failed)
        /\ UNCHANGED <<op, queue>>
    BY <1>12 DEF Retry, RetryFails
  <2>6. CASE storage = snapshot[s]
    <3>1. InEffect = {}
      BY <2>2, <2>3, <2>6 DEF InEffect
    <3>2. Computed(s) = Mutation(storage, c, op[c])
      BY <2>6 DEF Computed
    <3>3. QED
      BY <1>7, <2>1, <2>2, <2>3, <2>5, <3>1, <3>2 DEF Atomic!Take, Atomic!Fail
  <2>7. CASE storage = Computed(s).next
    <3>1. InEffect = {c}
      BY <2>1, <2>2, <2>4, <2>7 DEF InEffect
    <3>2. QED
      BY <1>7, <2>1, <2>2, <2>4, <2>5, <2>7, <3>1 DEF Atomic!Answer
  <2>8. QED BY <2>3, <2>6, <2>7
<1>13. CASE UNCHANGED vars
  BY <1>13 DEF vars, InEffect
<1>14. ASSUME NEW s \in Store, Step(s)
       PROVE  Atomic!Next \/ UNCHANGED Atomic!vars
  <2>1. CASE Cycle(s) \/ Start(s)
    BY <1>3, <1>4, <2>1
  <2>2. ASSUME ~(Cycle(s) \/ Start(s))
        PROVE  running[s] \in Call
    BY <1>5, <1>14, <2>2 DEF Step, Load, LoadFails, Persist, PersistFails, Retry, RetryFails, IInv, CycleInv
  <2>3. QED
    BY <1>8, <1>9, <1>10, <1>11, <1>12, <1>14, <2>1, <2>2 DEF Step
<1>15. QED
  BY <1>1, <1>2, <1>13, <1>14 DEF Next

\* The queued cycles of createCollectionStore implement mutations that take
\* effect at one instant (AtomicStore).
THEOREM Atomicity == Spec => AtomicMutations
<1>1. Atomic!Init /\ [][Atomic!Next]_(Atomic!vars) => Atomic!Spec
  BY DEF Atomic!Spec
<1>2. QED
  BY InitAtomic, StepAtomic, Invariance, <1>1, PTL DEF Spec, AtomicMutations
=============================================================================
