---------------------------- MODULE FeedbackData ----------------------------
(***************************************************************************)
(* The records a snapshot store keeps and what each mutation of the store  *)
(* contract does to a snapshot (packages/core/src/store-helpers.ts).       *)
(*                                                                         *)
(* A snapshot is the set of its feedback records: the array's order is the *)
(* insertion order, which no mutation reads.  backend.generateId() is      *)
(* modelled by the call that asks for the id: a call generates one at most *)
(* and no two calls share theirs.  Timestamps, texts and annotations are   *)
(* left out.                                                               *)
(***************************************************************************)
EXTENDS Naturals, FiniteSets

CONSTANTS
  Call,               \* the calls made on the store; also the ids they generate
  ClientId,           \* idempotency keys, of feedbacks and of comments
  Project,            \* project names
  Status,             \* feedback statuses
  Role,               \* author roles of comments
  MaxClientComments,  \* MAX_COMMENTS_PER_FEEDBACK
  None                \* no id

ASSUME DataAssumption ==
  /\ "client" \in Role
  /\ "open" \in Status
  /\ MaxClientComments \in Nat \ {0}
  /\ None \notin Call

Comment == [id : Call, clientId : ClientId, role : Role]

Feedback == [id : Call, clientId : ClientId, project : Project, status : Status,
             screenshot : BOOLEAN, comments : SUBSET Comment]

(***************************************************************************)
(* What a caller can ask.  createFeedback is createFeedbackIfAbsent with   *)
(* an error in place of the existing record; addComment is                 *)
(* addCommentIfAbsent without the created flag.                            *)
(***************************************************************************)
CreateKind == {"createFeedback", "createFeedbackIfAbsent"}

CreateRequest ==
  [kind : CreateKind, clientId : ClientId, project : Project, screenshot : BOOLEAN]
UpdateRequest == [kind : {"updateFeedback"}, id : Call, status : Status]
DeleteRequest == [kind : {"deleteFeedback"}, id : Call]
DeleteAllRequest == [kind : {"deleteAllFeedbacks"}, project : Project]
CommentRequest ==
  [kind : {"addCommentIfAbsent"}, id : Call, clientId : ClientId, role : Role]
DeleteCommentRequest == [kind : {"deleteComment"}, id : Call, comment : Call]

Request ==
  CreateRequest \cup UpdateRequest \cup DeleteRequest \cup DeleteAllRequest
    \cup CommentRequest \cup DeleteCommentRequest

Outcome == {"pending", "created", "existing", "done", "duplicate", "notFound",
            "limit", "failed"}

Reply == [outcome : Outcome, id : Call \cup {None}]

Pending == [outcome |-> "pending", id |-> None]
Failed  == [outcome |-> "failed", id |-> None]

(***************************************************************************)
(* Views of a snapshot.                                                    *)
(***************************************************************************)
Ids(S) == {f.id : f \in S}

Threads(S) == UNION {f.comments : f \in S}

ClientPart(thread) == {m \in thread : m.role = "client"}

(***************************************************************************)
(* What a mutation answers, and the snapshot it hands to persist; write is *)
(* FALSE on the early returns, which persist nothing.                      *)
(***************************************************************************)
Persists(S, outcome, id) ==
  [write |-> TRUE, next |-> S, reply |-> [outcome |-> outcome, id |-> id]]

Returns(S, outcome, id) ==
  [write |-> FALSE, next |-> S, reply |-> [outcome |-> outcome, id |-> id]]

NewFeedback(c, r) ==
  [id |-> c, clientId |-> r.clientId, project |-> r.project, status |-> "open",
   screenshot |-> r.screenshot, comments |-> {}]

NewComment(c, r) == [id |-> c, clientId |-> r.clientId, role |-> r.role]

Replace(S, id, Change(_)) ==
  {f \in S : f.id # id} \cup {Change(f) : f \in {g \in S : g.id = id}}

CreateFeedback(S, c, r) ==
  LET existing == {f \in S : f.clientId = r.clientId}
  IN  IF existing = {}
      THEN Persists(S \cup {NewFeedback(c, r)}, "created", c)
      ELSE Returns(S, IF r.kind = "createFeedback" THEN "duplicate" ELSE "existing",
                   (CHOOSE f \in existing : TRUE).id)

UpdateFeedback(S, r) ==
  IF r.id \in Ids(S)
  THEN Persists(Replace(S, r.id, LAMBDA f : [f EXCEPT !.status = r.status]), "done", r.id)
  ELSE Returns(S, "notFound", r.id)

DeleteFeedback(S, r) ==
  IF r.id \in Ids(S)
  THEN Persists({f \in S : f.id # r.id}, "done", r.id)
  ELSE Returns(S, "notFound", r.id)

DeleteAllFeedbacks(S, r) ==
  Persists({f \in S : f.project # r.project}, "done", None)

\* Fault: the cap lets one comment too many through.
AddCommentOverCap(S, c, r) ==
  IF \E f \in S : f.id = r.id /\ Cardinality(ClientPart(f.comments)) > MaxClientComments
  THEN Returns(S, "limit", r.id)
  ELSE Persists(Replace(S, r.id,
                        LAMBDA f : [f EXCEPT !.comments = @ \cup {NewComment(c, r)}]),
                "created", c)

AddComment(S, c, r) ==
  LET existing == {m \in Threads(S) : m.clientId = r.clientId}
      full(f)  == Cardinality(ClientPart(f.comments)) >= MaxClientComments
  IN  CASE existing # {} ->
             Returns(S, "existing", (CHOOSE m \in existing : TRUE).id)
        [] existing = {} /\ r.id \notin Ids(S) ->
             Returns(S, "notFound", r.id)
        [] existing = {} /\ r.role = "client" /\ \E f \in S : f.id = r.id /\ full(f) ->
             Returns(S, "limit", r.id)
        [] OTHER ->
             Persists(Replace(S, r.id,
                              LAMBDA f : [f EXCEPT !.comments = @ \cup {NewComment(c, r)}]),
                      "created", c)

DeleteComment(S, r) ==
  IF \E f \in S : f.id = r.id /\ \E m \in f.comments : m.id = r.comment
  THEN Persists(Replace(S, r.id,
                        LAMBDA f : [f EXCEPT !.comments = {m \in @ : m.id # r.comment}]),
                "done", r.comment)
  ELSE Returns(S, "notFound", r.comment)

Mutation(S, c, r) ==
  CASE r.kind \in CreateKind            -> CreateFeedback(S, c, r)
    [] r.kind = "updateFeedback"        -> UpdateFeedback(S, r)
    [] r.kind = "deleteFeedback"        -> DeleteFeedback(S, r)
    [] r.kind = "deleteAllFeedbacks"    -> DeleteAllFeedbacks(S, r)
    [] r.kind = "addCommentIfAbsent"    -> AddComment(S, c, r)
    [] r.kind = "deleteComment"         -> DeleteComment(S, r)

(***************************************************************************)
(* A creation that carries a screenshot is worth a second persist, of the  *)
(* same record without it.                                                 *)
(***************************************************************************)
CarriesScreenshot(r) == r.kind \in CreateKind /\ r.screenshot

WithoutScreenshot(S, c) ==
  Replace(S, c, LAMBDA f : [f EXCEPT !.screenshot = FALSE])

(***************************************************************************)
(* What every snapshot of a well-behaved store satisfies.                  *)
(***************************************************************************)
UniqueFeedbacks(S) ==
  \A f, g \in S : f.id = g.id \/ f.clientId = g.clientId => f = g

UniqueComments(S) ==
  \A f, g \in S : \A m \in f.comments, n \in g.comments :
    m.clientId = n.clientId => f = g /\ m = n

BoundedThreads(S) ==
  \A f \in S : Cardinality(ClientPart(f.comments)) <= MaxClientComments
=============================================================================
