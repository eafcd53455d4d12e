----------------------------- MODULE PrismaStore -----------------------------
(***************************************************************************)
(* PrismaStore (packages/adapter-prisma/src/index.ts): feedbacks, their    *)
(* threads and their screenshots.  It inserts the row first and attaches   *)
(* the url once uploaded, and deletes objects without looking for other    *)
(* rows that refer to them: the order of the statements and the requests   *)
(* is all that keeps rows and objects together.                            *)
(*                                                                         *)
(* One statement is one step of the database, one project's rows are       *)
(* modelled, and a row, a comment and an object are named by the call that *)
(* creates them.                                                           *)
(***************************************************************************)
EXTENDS ObjectStorage, Naturals

CONSTANTS
  ClientId,
  Plans,   \* what the calls may ask for: one of these functions from Call to sets of requests
  Cleans,  \* the calls whose storage implements delete
  Cap,     \* MAX_COMMENTS_PER_FEEDBACK
  None

Role == {"client", "team"}
Request ==
  [kind : {"create"}, clientId : ClientId, screenshot : BOOLEAN]
    \cup [kind : {"delete"}, id : Call]
    \cup [kind : {"deleteAll"}]
    \cup [kind : {"comment"}, id : Call, clientId : ClientId, role : Role]
    \cup [kind : {"deleteComment"}, id : Call, comment : Call]

ASSUME PrismaAssumption ==
  /\ IsFiniteSet(Call)
  /\ Plans \subseteq [Call -> SUBSET Request]
  /\ Cleans \subseteq Call
  /\ Cap \in Nat
  /\ None \notin Request

VARIABLES
  rows,      \* the feedbacks, and whether a url of a stored object is attached
  comments,  \* the comments of their threads
  plan,      \* what each call may ask for
  op,        \* what it asked for, None before
  pc,        \* the await it is in
  pending,   \* the urls it is to discard
  reply,     \* its answer
  torn,      \* history: the rows whose attach was reported as failed after it took effect
  crowded    \* history: the threads two posts were counted for before either was inserted

callVars == <<plan, op, pc, pending, reply>>
vars == <<rows, comments, callVars, torn, crowded, storageVars>>

Row == [id : Call, clientId : ClientId, url : BOOLEAN]
Comment == [id : Call, feedback : Call, clientId : ClientId, role : Role]
Answer == {"created", "duplicate", "existing", "full", "deleted", "missing", "error", "lost"}
Place == {"new", "insert", "upload", "reclaim", "attach", "delete", "read", "sweep", "remove",
          "find", "count", "post", "reread", "uncomment", "done"}

TypeOK ==
  /\ StorageTypeOK
  /\ rows \subseteq Row /\ comments \subseteq Comment
  /\ plan \in Plans
  /\ op \in [Call -> Request \cup {None}]
  /\ pc \in [Call -> Place]
  /\ pending \in [Call -> SUBSET Call]
  /\ reply \in [Call -> Answer \cup {None}]
  /\ torn \subseteq Call /\ crowded \subseteq Call

Init ==
  /\ StorageInit({})
  /\ rows = {} /\ comments = {}
  /\ plan \in Plans
  /\ op = [c \in Call |-> None]
  /\ pc = [c \in Call |-> "new"]
  /\ pending = [c \in Call |-> {}]
  /\ reply = [c \in Call |-> None]
  /\ torn = {} /\ crowded = {}

Urls(some) == {row.id : row \in {r \in some : r.url}}
Referenced == Urls(rows)
Under(k) == {row \in rows : row.clientId = k}
Kept(some) == {m \in comments : \E row \in some : row.id = m.feedback}

Go(c, place) == pc' = [pc EXCEPT ![c] = place] /\ UNCHANGED <<plan, op, pending, reply>>
Tell(c, answer) ==
  /\ pc' = [pc EXCEPT ![c] = "done"]
  /\ reply' = [reply EXCEPT ![c] = answer]
  /\ UNCHANGED <<plan, op, pending>>

\* discardScreenshots: without a delete hook nothing is cleaned up.
Discard(c, urls, answer) ==
  IF c \in Cleans /\ urls # {}
  THEN /\ pc' = [pc EXCEPT ![c] = "remove"]
       /\ pending' = [pending EXCEPT ![c] = urls]
       /\ reply' = [reply EXCEPT ![c] = answer]
       /\ UNCHANGED <<plan, op, storageVars>>
  ELSE Tell(c, answer) /\ Forsake(urls)

\* Rows go with their threads, by the schema's cascade.
Keep(some) == rows' = some /\ comments' = Kept(some)

First == [create |-> "insert", delete |-> "delete", comment |-> "find", deleteComment |-> "uncomment"]

Ask(c, r) ==
  /\ pc[c] = "new"
  /\ op' = [op EXCEPT ![c] = r]
  /\ pc' = [pc EXCEPT ![c] = IF r.kind # "deleteAll" THEN First[r.kind] ELSE IF c \in Cleans THEN "read" ELSE "sweep"]
  /\ UNCHANGED <<rows, comments, plan, pending, reply, torn, crowded, storageVars>>

(***************************************************************************)
(* createFeedback.                                                         *)
(***************************************************************************)
NewRow(c) == [id |-> c, clientId |-> op[c].clientId, url |-> FALSE]

\* Refused under a clientId that is taken; it may fail before or after it took effect.
InsertFeedback(c) ==
  /\ pc[c] = "insert"
  /\ \/ Under(op[c].clientId) = {} /\ rows' = rows \cup {NewRow(c)}
        /\ IF op[c].screenshot THEN Go(c, "upload") ELSE Tell(c, "created")
     \/ Under(op[c].clientId) = {} /\ rows' = rows \cup {NewRow(c)} /\ Tell(c, "error")
     \/ Under(op[c].clientId) # {} /\ UNCHANGED rows /\ Tell(c, "duplicate")
     \/ UNCHANGED rows /\ Tell(c, "error")
  /\ UNCHANGED <<comments, torn, crowded, storageVars>>

\* A feedback whose upload fails goes without its screenshot.
UploadScreenshot(c) ==
  /\ pc[c] = "upload"
  /\ \/ Put(c) /\ Go(c, "attach")
     \/ PutUncertain(c) /\ Go(c, "reclaim")
     \/ UNCHANGED storageVars /\ Tell(c, "created")
  /\ UNCHANGED <<rows, comments, torn, crowded>>

ReclaimUpload(c) ==
  /\ pc[c] = "reclaim"
  /\ Reclaim(c) /\ Tell(c, "created")
  /\ UNCHANGED <<rows, comments, torn, crowded>>

Attached(c) == {[row EXCEPT !.url = @ \/ row.id = c] : row \in rows}
IsStored(c) == \E row \in rows : row.id = c

\* Fault: the object of a row deleted meanwhile is left behind.
AttachOrForget(c) ==
  /\ pc[c] = "attach"
  /\ rows' = Attached(c) /\ Tell(c, "created")
  /\ UNCHANGED <<comments, torn, crowded, storageVars>>

\* A row that is gone, or an update that fails, leaves the object to discard.
AttachScreenshot(c) ==
  /\ pc[c] = "attach"
  /\ \/ IsStored(c) /\ rows' = Attached(c) /\ Tell(c, "created") /\ UNCHANGED <<torn, storageVars>>
     \/ UNCHANGED <<rows, torn>> /\ Discard(c, {c}, "created")
     \/ /\ IsStored(c) /\ rows' = Attached(c) /\ Discard(c, {c}, "created")
        /\ torn' = IF c \in Cleans THEN torn \cup {c} ELSE torn
  /\ UNCHANGED <<comments, crowded>>

(***************************************************************************)
(* deleteFeedback and deleteAllFeedbacks.  A statement reported as failed  *)
(* may have taken effect; nobody learns the urls it removed.               *)
(***************************************************************************)
DeleteFeedback(c) ==
  /\ pc[c] = "delete"
  /\ LET found == {row \in rows : row.id = op[c].id}
     IN  \/ Keep(rows \ found) /\ Discard(c, Urls(found), IF found = {} THEN "missing" ELSE "deleted")
         \/ Keep(rows \ found) /\ Forsake(Urls(found)) /\ Tell(c, "error")
         \/ Keep(rows) /\ UNCHANGED storageVars /\ Tell(c, "error")
  /\ UNCHANGED <<torn, crowded>>

StoredScreenshotUrls(c) ==
  /\ pc[c] = "read"
  /\ \/ /\ pending' = [pending EXCEPT ![c] = Referenced]
        /\ pc' = [pc EXCEPT ![c] = "sweep"]
        /\ UNCHANGED <<plan, op, reply>>
     \/ Tell(c, "error")
  /\ UNCHANGED <<rows, comments, torn, crowded, storageVars>>

\* Fault: the objects go whether or not their rows did.
DeleteAllAnyway(c) ==
  /\ pc[c] = "sweep"
  /\ \E some \in {{}, rows} : Keep(some)
  /\ Forsake(Referenced \ pending[c])
  /\ pc' = [pc EXCEPT ![c] = IF pending[c] = {} THEN "done" ELSE "remove"]
  /\ reply' = [reply EXCEPT ![c] = "deleted"]
  /\ UNCHANGED <<plan, op, pending, torn, crowded>>

\* The objects attached since the urls were read are nobody's.
DeleteAllFeedbacks(c) ==
  /\ pc[c] = "sweep"
  /\ \/ /\ Keep({}) /\ Forsake(Referenced \ pending[c])
        /\ pc' = [pc EXCEPT ![c] = IF pending[c] = {} THEN "done" ELSE "remove"]
        /\ reply' = [reply EXCEPT ![c] = "deleted"]
        /\ UNCHANGED <<plan, op, pending>>
     \/ /\ \E some \in {{}, rows} : Keep(some) /\ Forsake(IF some = {} THEN Referenced ELSE {})
        /\ pc' = [pc EXCEPT ![c] = "done"]
        /\ pending' = [pending EXCEPT ![c] = {}]
        /\ reply' = [reply EXCEPT ![c] = "error"]
        /\ UNCHANGED <<plan, op>>
  /\ UNCHANGED <<torn, crowded>>

\* settleWithConcurrencyLimit: in any order, each on its own.
DiscardScreenshot(c) ==
  /\ pc[c] = "remove"
  /\ \E url \in pending[c] :
       /\ Remove(url) \/ RemoveFails(url)
       /\ pending' = [pending EXCEPT ![c] = @ \ {url}]
       /\ pc' = [pc EXCEPT ![c] = IF pending[c] = {url} THEN "done" ELSE "remove"]
  /\ UNCHANGED <<rows, comments, plan, op, reply, torn, crowded>>

(***************************************************************************)
(* insertComment and removeComment.                                        *)
(***************************************************************************)
CommentsUnder(k) == {m \in comments : m.clientId = k}
ClientComments(f) == {m \in comments : m.feedback = f /\ m.role = "client"}

\* A replay is answered before the cap is looked at.
FindComment(c) ==
  /\ pc[c] = "find"
  /\ \/ CommentsUnder(op[c].clientId) # {} /\ Tell(c, "existing")
     \/ CommentsUnder(op[c].clientId) = {} /\ Go(c, IF op[c].role = "client" THEN "count" ELSE "post")
     \/ Tell(c, "error")
  /\ UNCHANGED <<rows, comments, torn, crowded, storageVars>>

Rivals(c) == {d \in Call \ {c} : pc[d] = "post" /\ op[d].id = op[c].id /\ op[d].role = "client"}

\* Fault: one more than the cap.
CountUpTo(c) ==
  /\ pc[c] = "count"
  /\ IF Cardinality(ClientComments(op[c].id)) > Cap THEN Tell(c, "full") ELSE Go(c, "post")
  /\ crowded' = IF Rivals(c) # {} THEN crowded \cup {op[c].id} ELSE crowded
  /\ UNCHANGED <<rows, comments, torn, storageVars>>

CountComments(c) ==
  /\ pc[c] = "count"
  /\ \/ Cardinality(ClientComments(op[c].id)) >= Cap /\ Tell(c, "full") /\ UNCHANGED crowded
     \/ /\ Cardinality(ClientComments(op[c].id)) < Cap /\ Go(c, "post")
        /\ crowded' = IF Rivals(c) # {} THEN crowded \cup {op[c].id} ELSE crowded
     \/ Tell(c, "error") /\ UNCHANGED crowded
  /\ UNCHANGED <<rows, comments, torn, storageVars>>

\* The insert finds its feedback gone, or its clientId taken by a concurrent replay.
InsertComment(c) ==
  /\ pc[c] = "post"
  /\ \/ /\ IsStored(op[c].id) /\ CommentsUnder(op[c].clientId) = {}
        /\ comments' = comments \cup {[id |-> c, feedback |-> op[c].id, clientId |-> op[c].clientId, role |-> op[c].role]}
        /\ \E answer \in {"created", "error"} : Tell(c, answer)
     \/ ~IsStored(op[c].id) /\ UNCHANGED comments /\ Tell(c, "missing")
     \/ CommentsUnder(op[c].clientId) # {} /\ UNCHANGED comments /\ Go(c, "reread")
     \/ UNCHANGED comments /\ Tell(c, "error")
  /\ UNCHANGED <<rows, torn, crowded, storageVars>>

RereadComment(c) ==
  /\ pc[c] = "reread"
  /\ \/ CommentsUnder(op[c].clientId) # {} /\ Tell(c, "existing")
     \/ Tell(c, "error")
  /\ UNCHANGED <<rows, comments, torn, crowded, storageVars>>

RemoveComment(c) ==
  /\ pc[c] = "uncomment"
  /\ LET found == {m \in comments : m.id = op[c].comment /\ m.feedback = op[c].id}
     IN  \/ comments' = comments \ found /\ Tell(c, IF found = {} THEN "missing" ELSE "deleted")
         \/ comments' \in {comments, comments \ found} /\ Tell(c, "error")
  /\ UNCHANGED <<rows, torn, crowded, storageVars>>

-----------------------------------------------------------------------------
\* The process dies: what the call held is nobody's.
Crash(c) ==
  /\ pc[c] \notin {"new", "done"}
  /\ underway' = underway \cup (IF pc[c] = "upload" THEN {c} ELSE {})
  /\ forsaken' = forsaken \cup pending[c] \cup (IF pc[c] \in {"upload", "reclaim", "attach"} THEN {c} ELSE {})
  /\ pending' = [pending EXCEPT ![c] = {}]
  /\ pc' = [pc EXCEPT ![c] = "done"]
  /\ reply' = [reply EXCEPT ![c] = "lost"]
  /\ UNCHANGED <<rows, comments, plan, op, torn, crowded, objects, handed>>

\* What happens to an object after the call that put it gave it up.
Outside(key) == (Land(key) \/ RemoveHanded(key)) /\ UNCHANGED <<rows, comments, callVars, torn, crowded>>

Next ==
  \/ \E c \in Call : \E r \in plan[c] : Ask(c, r)
  \/ \E c \in Call : InsertFeedback(c) \/ UploadScreenshot(c) \/ ReclaimUpload(c) \/ AttachScreenshot(c)
  \/ \E c \in Call : DeleteFeedback(c) \/ StoredScreenshotUrls(c) \/ DeleteAllFeedbacks(c) \/ DiscardScreenshot(c)
  \/ \E c \in Call : FindComment(c) \/ CountComments(c) \/ InsertComment(c) \/ RereadComment(c) \/ RemoveComment(c)
  \/ \E c \in Call : Crash(c) \/ Outside(c)

Spec == Init /\ [][Next]_vars
-----------------------------------------------------------------------------
(***************************************************************************)
(* Properties.                                                             *)
(***************************************************************************)

\* No reader is shown a broken screenshot, whatever is deleted, fails or dies
\* (deleteAllFeedbacks: "the reverse would leave rows pointing at deleted
\* screenshots"), but where attaching the url failed after it took effect: its
\* object is discarded all the same.
NoDangling == Referenced \subseteq objects \cup torn

\* The objects some call or job is still going to deal with.
Held == {key \in Call : key \in handed \/ pc[key] \in {"attach", "reclaim"} \/ \E c \in Call : key \in pending[c]}

\* No orphan without a trace: an object no row refers to is being cleaned up,
\* or a step that failed, or a deletion of the project it was attached during,
\* left it.
NothingOrphaned == objects \subseteq Referenced \cup Held \cup forsaken

\* A thread holds no more client comments than the cap, unless two posts were
\* counted before either was inserted: failed posts, replays, deletions and
\* posts one after the other never exceed it.
CapHeld == \A f \in Call \ crowded : Cardinality(ClientComments(f)) <= Cap
=============================================================================
