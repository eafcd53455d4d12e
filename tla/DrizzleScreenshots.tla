-------------------------- MODULE DrizzleScreenshots --------------------------
(***************************************************************************)
(* The Drizzle store's feedbacks and the screenshots they refer to         *)
(* (packages/adapter-drizzle/src/shared/store.ts, over pg/gateway.ts or    *)
(* sqlite/gateway.ts): rows and objects live in two systems that no        *)
(* transaction spans, so the order of the steps of a call, and what it     *)
(* does when one fails, decide what a reader may find.                     *)
(*                                                                         *)
(* One statement is one step of the database.  The rows are those of one   *)
(* project, and the id a row is inserted under, like the key of its        *)
(* screenshot, is named by the creating call.                              *)
(***************************************************************************)
EXTENDS ObjectStorage, Naturals

CONSTANTS
  ClientId,
  Asks,        \* Asks[c]: the requests call c may be
  Cleans,      \* the calls whose storage implements delete
  ChunkSize,   \* PROJECT_DELETE_CHUNK_SIZE
  Protected,   \* the rows a policy or a trigger keeps from every delete
  LateCommits, \* the calls whose insert may commit after it is reported as failed
  None

Request ==
  [kind : {"create"}, clientId : ClientId, screenshot : BOOLEAN]
    \cup [kind : {"delete"}, id : Call]
    \cup [kind : {"deleteAll"}]

ASSUME StoreAssumption ==
  /\ IsFiniteSet(Call)
  /\ Asks \in [Call -> SUBSET Request]
  /\ Cleans \subseteq Call
  /\ Protected \subseteq Call
  /\ ChunkSize \in Nat \ {0}
  /\ LateCommits \subseteq Call
  /\ None \notin Request
  /\ None \notin {"created", "existing", "deleted", "missing", "vanished", "kept", "error", "lost"}

VARIABLES
  rows,      \* the feedbacks of the project, with the clientId and whether a url is stored
  inserting, \* the rows of inserts given up on that may still commit
  op,        \* what each call is, None before it is made
  pc,        \* where it is
  shot,      \* whether it uploaded a screenshot and holds its url
  pending,   \* the urls it is to discard
  picked,    \* the ids its chunk statement has selected
  left,      \* remainingAfterEmptyChunk
  reply      \* what it answers, or will once the urls are discarded

callVars == <<op, pc, shot, pending, picked, left, reply>>
vars == <<rows, inserting, callVars, storageVars>>

Row == [id : Call, clientId : ClientId, url : BOOLEAN]
Answer == {"created", "existing", "deleted", "missing", "vanished", "kept", "error", "lost"}
Place == {"new", "lookup", "upload", "reclaim", "insert", "winner", "delete", "sweep",
          "chunk", "locked", "count", "check", "remove", "done"}

\* Number.POSITIVE_INFINITY: more rows than there can be.
Infinity == Cardinality(Call) + 1

TypeOK ==
  /\ StorageTypeOK
  /\ rows \subseteq Row /\ IsFiniteSet(rows)
  /\ inserting \subseteq Row
  /\ op \in [Call -> Request \cup {None}]
  /\ pc \in [Call -> Place]
  /\ shot \in [Call -> BOOLEAN]
  /\ pending \in [Call -> SUBSET Call]
  /\ picked \in [Call -> SUBSET Call]
  /\ left \in [Call -> Nat]
  /\ reply \in [Call -> Answer \cup {None}]

Init ==
  /\ StorageInit({})
  /\ rows = {}
  /\ inserting = {}
  /\ op = [c \in Call |-> None]
  /\ pc = [c \in Call |-> "new"]
  /\ shot = [c \in Call |-> FALSE]
  /\ pending = [c \in Call |-> {}]
  /\ picked = [c \in Call |-> {}]
  /\ left = [c \in Call |-> Infinity]
  /\ reply = [c \in Call |-> None]

Ids == {row.id : row \in rows}
Urls(some) == {row.id : row \in {r \in some : r.url}}
Referenced == Urls(rows)
Under(k) == {row \in rows : row.clientId = k}
Removable == {row \in rows : row.id \notin Protected}

Go(c, place) == pc' = [pc EXCEPT ![c] = place]

\* A deletion of the project goes on with the next chunk until it has an answer.
After(answer) == IF answer = None THEN "chunk" ELSE "done"

Tell(c, answer) ==
  /\ Go(c, "done")
  /\ reply' = [reply EXCEPT ![c] = answer]
  /\ UNCHANGED <<op, shot, pending, picked, left>>

\* discardScreenshots, up to its first await: without a delete hook nothing is
\* cleaned up.
Discard(c, urls, answer) ==
  /\ reply' = [reply EXCEPT ![c] = answer]
  /\ \/ /\ c \in Cleans /\ urls # {}
        /\ pending' = [pending EXCEPT ![c] = urls]
        /\ Go(c, "check")
        /\ UNCHANGED storageVars
     \/ /\ c \notin Cleans \/ urls = {}
        /\ Go(c, After(answer))
        /\ Forsake(urls)
        /\ UNCHANGED pending

Uploaded(c) == IF shot[c] THEN {c} ELSE {}

-----------------------------------------------------------------------------
Ask(c, r) ==
  /\ pc[c] = "new"
  /\ op' = [op EXCEPT ![c] = r]
  /\ Go(c, CASE r.kind = "create" -> "lookup"
             [] r.kind = "delete" -> "delete"
             [] r.kind = "deleteAll" -> IF c \in Cleans THEN "chunk" ELSE "sweep")
  /\ UNCHANGED <<rows, inserting, shot, pending, picked, left, reply, storageVars>>

(***************************************************************************)
(* createFeedbackIfAbsent.                                                 *)
(***************************************************************************)
Lookup(c) ==
  /\ pc[c] = "lookup"
  /\ \/ \* a replay, or the lookup fails
        \E answer \in {"existing", "error"} :
           /\ answer = "existing" => Under(op[c].clientId) # {}
           /\ Tell(c, answer)
     \/ /\ Under(op[c].clientId) = {}
        /\ Go(c, IF op[c].screenshot THEN "upload" ELSE "insert")
        /\ UNCHANGED <<op, shot, pending, picked, left, reply>>
  /\ UNCHANGED <<rows, inserting, storageVars>>

\* persistScreenshot: a feedback whose upload fails goes without its screenshot.
Upload(c) ==
  /\ pc[c] = "upload"
  /\ \/ /\ Put(c)
        /\ shot' = [shot EXCEPT ![c] = TRUE]
        /\ Go(c, "insert")
     \/ /\ PutUncertain(c)
        /\ Go(c, "reclaim")
        /\ UNCHANGED shot
     \/ \* refused by the storage, or by its own checks of the image
        /\ Go(c, "insert")
        /\ UNCHANGED <<shot, storageVars>>
  /\ UNCHANGED <<rows, inserting, op, pending, picked, left, reply>>

ReclaimUpload(c) ==
  /\ pc[c] = "reclaim"
  /\ Reclaim(c)
  /\ Go(c, "insert")
  /\ UNCHANGED <<rows, inserting, op, shot, pending, picked, left, reply>>

NewRow(c) == [id |-> c, clientId |-> op[c].clientId, url |-> shot[c]]

\* insertFeedback: ON CONFLICT DO NOTHING on the clientId.
Insert(c) ==
  /\ pc[c] = "insert"
  /\ \/ /\ Under(op[c].clientId) = {}
        /\ rows' = rows \cup {NewRow(c)}
        /\ Tell(c, "created")
     \/ /\ Under(op[c].clientId) # {}
        /\ Go(c, "winner")
        /\ UNCHANGED <<rows, op, shot, pending, picked, left, reply>>
  /\ UNCHANGED <<inserting, storageVars>>

\* The insert is reported as failed: it may not have run, have committed, or
\* still be running.
InsertFails(c) ==
  /\ pc[c] = "insert"
  /\ \/ UNCHANGED <<rows, inserting>>
     \/ /\ Under(op[c].clientId) = {}
        /\ rows' = rows \cup {NewRow(c)}
        /\ UNCHANGED inserting
     \/ /\ c \in LateCommits
        /\ inserting' = inserting \cup {NewRow(c)}
        /\ UNCHANGED rows
  /\ Discard(c, Uploaded(c), "error")
  /\ UNCHANGED <<op, shot, picked, left>>

\* An insert given up on commits, or finds its clientId taken.
CommitLate ==
  \E row \in inserting :
    /\ rows' = rows \cup (IF Under(row.clientId) = {} THEN {row} ELSE {})
    /\ inserting' = inserting \ {row}
    /\ UNCHANGED <<callVars, storageVars>>

\* Fault: the upload is discarded only after a lookup that succeeded.
WinnerOrThrow(c) ==
  /\ pc[c] = "winner"
  /\ \/ /\ Under(op[c].clientId) # {}
        /\ Discard(c, Uploaded(c), "existing")
        /\ UNCHANGED <<op, shot, picked, left>>
     \/ /\ UNCHANGED storageVars
        /\ Tell(c, "error")
  /\ UNCHANGED <<rows, inserting>>

\* The insert lost a race: its own upload is an orphan, however the lookup of
\* the winner ends.
Winner(c) ==
  /\ pc[c] = "winner"
  /\ \E answer \in {"existing", "vanished", "error"} :
       /\ answer = "existing" => Under(op[c].clientId) # {}
       /\ answer = "vanished" => Under(op[c].clientId) = {}
       /\ Discard(c, Uploaded(c), answer)
  /\ UNCHANGED <<rows, inserting, op, shot, picked, left>>

(***************************************************************************)
(* deleteFeedback and deleteAllFeedbacks.  A delete reported as failed may *)
(* have committed; nobody learns the urls it removed.                      *)
(***************************************************************************)
DeleteById(c) ==
  /\ pc[c] = "delete"
  /\ LET found == {row \in Removable : row.id = op[c].id}
     IN  \/ /\ rows' = rows \ found
            /\ Discard(c, Urls(found), IF found = {} THEN "missing" ELSE "deleted")
            /\ UNCHANGED <<op, shot, picked, left>>
         \/ /\ UNCHANGED <<rows, storageVars>>
            /\ Tell(c, "error")
         \/ /\ rows' = rows \ found
            /\ Forsake(Urls(found))
            /\ Tell(c, "error")
  /\ UNCHANGED inserting

\* Without a delete hook, one statement for the project.
Sweep(c) ==
  /\ pc[c] = "sweep"
  /\ \/ /\ rows' = rows \ Removable
        /\ Forsake(Urls(Removable))
        /\ \E answer \in {"deleted", "error"} : Tell(c, answer)
     \/ /\ UNCHANGED <<rows, storageVars>>
        /\ Tell(c, "error")
  /\ UNCHANGED inserting

\* deleteProjectChunk selects its rows, then waits for their locks.
PickChunk(c) ==
  /\ pc[c] = "chunk"
  /\ \E ids \in SUBSET Ids :
       /\ Cardinality(ids) <= ChunkSize
       /\ Cardinality(ids) = ChunkSize \/ ids = Ids
       /\ picked' = [picked EXCEPT ![c] = ids]
  /\ Go(c, "locked")
  /\ UNCHANGED <<rows, inserting, op, shot, pending, left, reply, storageVars>>

\* Then it deletes those that are left.
DeleteChunk(c) ==
  /\ pc[c] = "locked"
  /\ LET chunk == {row \in Removable : row.id \in picked[c]}
     IN  \/ /\ chunk # {}
            /\ rows' = rows \ chunk
            /\ left' = [left EXCEPT ![c] = Infinity]
            /\ Discard(c, Urls(chunk), None)
            /\ UNCHANGED <<op, shot>>
         \/ /\ chunk = {}
            /\ Go(c, "count")
            /\ UNCHANGED <<rows, op, shot, pending, left, reply, storageVars>>
         \/ /\ UNCHANGED <<rows, storageVars>>
            /\ UNCHANGED left
            /\ Go(c, "done")
            /\ reply' = [reply EXCEPT ![c] = "error"]
            /\ UNCHANGED <<op, shot, pending>>
         \/ /\ rows' = rows \ chunk
            /\ Forsake(Urls(chunk))
            /\ UNCHANGED left
            /\ Go(c, "done")
            /\ reply' = [reply EXCEPT ![c] = "error"]
            /\ UNCHANGED <<op, shot, pending>>
  /\ picked' = [picked EXCEPT ![c] = {}]
  /\ UNCHANGED inserting

\* Fault: chunks follow one another until the project is empty.
CountUntilEmpty(c) ==
  /\ pc[c] = "count"
  /\ \/ /\ rows = {}
        /\ Tell(c, "deleted")
     \/ /\ rows # {}
        /\ Go(c, "chunk")
        /\ UNCHANGED <<op, shot, pending, picked, left, reply>>
  /\ UNCHANGED <<rows, inserting, storageVars>>

\* An empty chunk: only an empty project ends the delete, unless two of them
\* in a row leave no fewer rows.
CountLeft(c) ==
  /\ pc[c] = "count"
  /\ \/ /\ rows = {}
        /\ Tell(c, "deleted")
     \/ /\ rows # {}
        /\ Cardinality(rows) >= left[c]
        /\ Tell(c, "kept")
     \/ /\ rows # {}
        /\ Cardinality(rows) < left[c]
        /\ left' = [left EXCEPT ![c] = Cardinality(rows)]
        /\ Go(c, "chunk")
        /\ UNCHANGED <<op, shot, pending, picked, reply>>
     \/ Tell(c, "error")
  /\ UNCHANGED <<rows, inserting, storageVars>>

(***************************************************************************)
(* discardScreenshots: the urls no row refers to are deleted, each on its  *)
(* own.                                                                    *)
(***************************************************************************)

\* Fault: the urls are deleted without looking at the rows.
CheckNothing(c) ==
  /\ pc[c] = "check"
  /\ Go(c, "remove")
  /\ UNCHANGED <<rows, inserting, op, shot, pending, picked, left, reply, storageVars>>

CheckReferences(c) ==
  /\ pc[c] = "check"
  /\ \/ LET unreferenced == pending[c] \ Referenced
        IN  /\ pending' = [pending EXCEPT ![c] = unreferenced]
            /\ Go(c, IF unreferenced = {} THEN After(reply[c]) ELSE "remove")
            /\ UNCHANGED storageVars
     \/ \* the lookup fails: everything is kept
        /\ Forsake(pending[c])
        /\ pending' = [pending EXCEPT ![c] = {}]
        /\ Go(c, After(reply[c]))
  /\ UNCHANGED <<rows, inserting, op, shot, picked, left, reply>>

DeleteObject(c) ==
  /\ pc[c] = "remove"
  /\ \E url \in pending[c] :
       /\ Remove(url) \/ RemoveFails(url)
       /\ pending' = [pending EXCEPT ![c] = @ \ {url}]
       /\ Go(c, IF pending[c] = {url} THEN After(reply[c]) ELSE "remove")
  /\ UNCHANGED <<rows, inserting, op, shot, picked, left, reply>>

\* The process dies: what the call held is nobody's.
Crash(c) ==
  /\ pc[c] \notin {"new", "done"}
  /\ IF pc[c] = "upload" THEN underway' = underway \cup {c} ELSE UNCHANGED underway
  /\ forsaken' = forsaken \cup pending[c]
                   \cup (IF pc[c] \in {"upload", "reclaim"} THEN {c} ELSE {})
                   \cup (IF pc[c] \in {"insert", "winner"} THEN Uploaded(c) ELSE {})
  /\ pending' = [pending EXCEPT ![c] = {}]
  /\ picked' = [picked EXCEPT ![c] = {}]
  /\ Go(c, "done")
  /\ reply' = [reply EXCEPT ![c] = "lost"]
  /\ UNCHANGED <<rows, inserting, op, shot, left, objects, handed>>

Step(c) ==
  \/ Lookup(c)
  \/ Upload(c)
  \/ ReclaimUpload(c)
  \/ Insert(c)
  \/ InsertFails(c)
  \/ Winner(c)
  \/ DeleteById(c)
  \/ Sweep(c)
  \/ PickChunk(c)
  \/ DeleteChunk(c)
  \/ CountLeft(c)
  \/ CheckReferences(c)
  \/ DeleteObject(c)

\* What happens to an object after the call that put it gave it up.
Outside(key) ==
  /\ Land(key) \/ RemoveHanded(key)
  /\ UNCHANGED <<rows, inserting, callVars>>

Next ==
  \/ \E c \in Call : \E r \in Asks[c] : Ask(c, r)
  \/ \E c \in Call : Step(c)
  \/ \E c \in Call : Crash(c)
  \/ CommitLate
  \/ \E key \in Call : Outside(key)

Spec == Init /\ [][Next]_vars

\* Database and storage answer in the end, if only with an error.
FairSpec == Spec /\ \A c \in Call : WF_vars(Step(c))
-----------------------------------------------------------------------------
(***************************************************************************)
(* Properties.                                                             *)
(***************************************************************************)

\* No reader is shown a broken screenshot: the object of a url that a row
\* stores exists, whatever creates race, whatever is deleted, fails, times out
\* or dies (deleteAllFeedbacks: "rows pointing at deleted screenshots are
\* not" acceptable).
NoDangling == Referenced \subseteq objects

\* The objects some call or job is still going to deal with.
Held ==
  {key \in Call : \/ key \in handed
                  \/ \E c \in Call : key \in pending[c]
                  \/ pc[key] = "reclaim"
                  \/ pc[key] \in {"insert", "winner"} /\ shot[key]}

\* No orphan without a trace: an object no row refers to is being cleaned up,
\* or a step that failed, and was logged or answered as an error, left it.
NothingOrphaned == objects \subseteq Referenced \cup Held \cup forsaken

\* Every call is answered: deleteAllFeedbacks ends although chunks come back
\* empty, rows are added and deleted meanwhile, or the database keeps some.
Answered == \A c \in Call : pc[c] # "new" ~> pc[c] = "done"
=============================================================================
