-------------------------- MODULE PrismaStoreProofs --------------------------
(***************************************************************************)
(* What holds of PrismaStore for any number of calls, rows and comments.   *)
(***************************************************************************)
EXTENDS PrismaStore, FiniteSetTheorems, TLAPS

CreateRequest == [kind : {"create"}, clientId : ClientId, screenshot : BOOLEAN]
CommentRequest == [kind : {"comment"}, id : Call, clientId : ClientId, role : Role]
Posting == {"find", "count", "post", "reread"}

\* A call is only where its kind is.
Placed ==
  \A c \in Call : /\ pc[c] = "insert" => op[c] \in CreateRequest
                  /\ pc[c] \in Posting => op[c] \in CommentRequest

TypeInv == TypeOK /\ Placed

\* Before its attach is answered a call has no url anywhere.
Early == {"new", "insert", "upload", "reclaim", "attach"}

\* A call has urls to discard only after it read them, or while it discards them.
PendingPlaced == \A c \in Call : pc[c] \notin {"sweep", "remove"} => pending[c] = {}

\* An uncertain put is somebody's until it has landed or is known not to.
UnderwayHeld == \A k \in underway : pc[k] = "reclaim" \/ k \in handed \/ k \in forsaken

\* The urls a call read but has not deleted the rows of do not count: the call
\* lets them go when its statement fails.
Accounted ==
  \A k \in objects :
    \/ k \in Referenced \cup handed \cup forsaken
    \/ pc[k] \in {"attach", "reclaim"}
    \/ \E d \in Call : pc[d] = "remove" /\ k \in pending[d]

OrphanInv == PendingPlaced /\ UnderwayHeld /\ Accounted

\* A row is there once its call inserted it, and its url once its attach is answered.
UrlsAttached ==
  \A row \in rows : /\ pc[row.id] \notin {"new", "insert"}
                    /\ row.url => pc[row.id] \notin Early

\* What is to be removed belongs to a call past its attach,
PastAttach == /\ \A k \in handed : pc[k] \notin Early
              /\ \A d \in Call : \A k \in pending[d] : pc[k] \notin Early

\* and to no row, but where the attach was reported as failed.
Removable ==
  \A row \in rows : row.url =>
    /\ row.id \notin handed
    /\ row.id \in objects \cup torn
    /\ \A d \in Call : pc[d] = "remove" /\ row.id \in pending[d] => row.id \in torn

Uploaded == \A c \in Call : pc[c] = "attach" => c \in objects

DanglingInv == UrlsAttached /\ PastAttach /\ Removable /\ Uploaded
-----------------------------------------------------------------------------
\* A call that goes on to discard urls stays well typed.
LEMMA DiscardKeepsType ==
  ASSUME TypeOK, Placed, NEW c \in Call, NEW urls \in SUBSET Call, NEW answer \in Answer, Discard(c, urls, answer),
         rows' \in SUBSET Row, comments' \in SUBSET Comment, torn' \in SUBSET Call, crowded' \in SUBSET Call
  PROVE  TypeOK' /\ Placed'
<1>1. StorageTypeOK'
  BY DEF Discard, TypeOK, StorageTypeOK, storageVars, Forsake
<1>2. /\ pending' \in [Call -> SUBSET Call] /\ reply' \in [Call -> Answer \cup {None}] /\ UNCHANGED <<plan, op>>
      /\ pc' = [pc EXCEPT ![c] = "remove"] \/ pc' = [pc EXCEPT ![c] = "done"]
  BY DEF Discard, Tell, TypeOK
<1>3. QED BY <1>1, <1>2 DEF TypeOK, Placed, Place, Posting

\* What a call may do that only answers: the shape of everything but the storage and the rows is kept.
LEMMA TellKeepsType ==
  ASSUME TypeOK, Placed, NEW c \in Call, NEW answer \in Answer, Tell(c, answer), StorageTypeOK',
         rows' \in SUBSET Row, comments' \in SUBSET Comment, torn' \in SUBSET Call, crowded' \in SUBSET Call
  PROVE  TypeOK' /\ Placed'
<1>1. /\ pc' = [pc EXCEPT ![c] = "done"] /\ reply' \in [Call -> Answer \cup {None}]
      /\ UNCHANGED <<plan, op, pending>>
  BY DEF Tell, TypeOK
<1>2. QED BY <1>1 DEF TypeOK, Placed, Place, Posting

\* The same for a call that goes on.
LEMMA GoKeepsType ==
  ASSUME TypeOK, Placed, NEW c \in Call, NEW place \in Place \ {"insert"}, Go(c, place), StorageTypeOK',
         place \in Posting => op[c] \in CommentRequest,
         rows' \in SUBSET Row, comments' \in SUBSET Comment, torn' \in SUBSET Call, crowded' \in SUBSET Call
  PROVE  TypeOK' /\ Placed'
<1>1. pc' = [pc EXCEPT ![c] = place] /\ UNCHANGED <<plan, op, pending, reply>>
  BY DEF Go
<1>2. QED BY <1>1 DEF TypeOK, Placed

\* What is made of the rows is made of calls, comments and rows.
LEMMA UrlsType ==
  ASSUME TypeOK
  PROVE  /\ Referenced \in SUBSET Call
         /\ \A some \in SUBSET rows : Urls(some) \in SUBSET Call /\ Kept(some) \in SUBSET Comment
         /\ \A c \in Call : Attached(c) \in SUBSET Row
<1>1. \A some \in SUBSET rows : Urls(some) \in SUBSET Call /\ Kept(some) \in SUBSET Comment
  <2> SUFFICES ASSUME NEW some \in SUBSET rows PROVE Urls(some) \in SUBSET Call /\ Kept(some) \in SUBSET Comment
    OBVIOUS
  <2>1. \A row \in some : row.id \in Call
    BY DEF TypeOK, Row
  <2>2. Urls(some) \in SUBSET Call
    BY <2>1 DEF Urls
  <2>3. Kept(some) \in SUBSET Comment
    BY DEF TypeOK, Kept
  <2>4. QED BY <2>2, <2>3
<1>2. Referenced \in SUBSET Call
  BY <1>1 DEF Referenced
<1>3. ASSUME NEW c \in Call PROVE Attached(c) \in SUBSET Row
  <2>1. ASSUME NEW row \in rows PROVE [row EXCEPT !.url = @ \/ row.id = c] \in Row
    <3>1. row \in Row
      BY DEF TypeOK
    <3>2. (row.url \/ row.id = c) \in BOOLEAN
      BY Zenon
    <3> DEFINE url == row.url \/ row.id = c
    <3>3. [row EXCEPT !.url = url] \in Row
      <4> HIDE DEF url
      <4>1. url \in BOOLEAN
        BY <3>2 DEF url
      <4>2. QED BY <3>1, <4>1 DEF Row
    <3>4. QED BY <3>3
  <2>2. QED BY <2>1 DEF Attached
<1>4. QED BY <1>1, <1>2, <1>3

\* The shape holds at first.
LEMMA TypeInit == Init => TypeInv
  BY PrismaAssumption DEF Init, StorageInit, TypeInv, Placed, Posting, TypeOK, StorageTypeOK, Place

\* No step breaks the shape.
LEMMA TypeStep == TypeInv /\ [Next]_vars => TypeInv'
<1> SUFFICES ASSUME TypeInv, [Next]_vars PROVE TypeOK' /\ Placed'
  BY DEF TypeInv
<1>0. TypeOK /\ Placed
  BY DEF TypeInv
<1> USE DEF Answer
<1>a. /\ rows \in SUBSET Row /\ comments \in SUBSET Comment /\ torn \in SUBSET Call /\ crowded \in SUBSET Call
      /\ StorageTypeOK
  BY <1>0 DEF TypeOK
<1>b. ASSUME UNCHANGED storageVars PROVE StorageTypeOK'
  BY <1>a, <1>b DEF StorageTypeOK, storageVars
<1>c. ASSUME NEW keys \in SUBSET Call, Forsake(keys) PROVE StorageTypeOK'
  BY <1>a, <1>c DEF StorageTypeOK, Forsake
<1>1. ASSUME NEW c \in Call, NEW r \in plan[c], Ask(c, r) PROVE TypeOK' /\ Placed'
  <2>1. r \in Request
    BY <1>0, PrismaAssumption DEF TypeOK
  <2> DEFINE place == IF r.kind # "deleteAll" THEN First[r.kind] ELSE IF c \in Cleans THEN "read" ELSE "sweep"
  <2>2. /\ place \in Place /\ (place = "insert" => r \in CreateRequest)
        /\ place \in Posting => r \in CommentRequest
    BY <2>1 DEF Request, CreateRequest, CommentRequest, Posting, Place, First
  <2>3. pc' = [pc EXCEPT ![c] = place] /\ op' = [op EXCEPT ![c] = r]
    BY <1>1 DEF Ask
  <2> HIDE DEF place
  <2>4. TypeOK'
    BY <1>0, <1>1, <2>1, <2>2, <2>3 DEF Ask, TypeOK, StorageTypeOK, storageVars
  <2>5. Placed'
    BY <1>0, <2>2, <2>3 DEF Placed, TypeOK
  <2>6. QED BY <2>4, <2>5
<1>2. ASSUME NEW c \in Call, InsertFeedback(c) PROVE TypeOK' /\ Placed'
  <2>1. NewRow(c) \in Row
    BY <1>0, <1>2 DEF InsertFeedback, Placed, CreateRequest, NewRow, Row
  <2>2. /\ rows' \in SUBSET Row /\ comments' \in SUBSET Comment /\ torn' \in SUBSET Call /\ crowded' \in SUBSET Call
        /\ StorageTypeOK'
    BY <1>2, <1>a, <1>b, <2>1 DEF InsertFeedback
  <2>3. Go(c, "upload") \/ \E answer \in {"created", "error", "duplicate"} : Tell(c, answer)
    BY <1>2 DEF InsertFeedback
  <2>4. QED BY <1>0, <2>2, <2>3, GoKeepsType, TellKeepsType DEF Place, Posting
<1>3. ASSUME NEW c \in Call, UploadScreenshot(c) PROVE TypeOK' /\ Placed'
  <2>1. /\ rows' \in SUBSET Row /\ comments' \in SUBSET Comment /\ torn' \in SUBSET Call /\ crowded' \in SUBSET Call
        /\ StorageTypeOK'
    BY <1>3, <1>a DEF UploadScreenshot, Put, PutUncertain, StorageTypeOK, storageVars
  <2>2. (\E place \in {"attach", "reclaim"} : Go(c, place)) \/ Tell(c, "created")
    BY <1>3 DEF UploadScreenshot
  <2>3. QED BY <1>0, <2>1, <2>2, GoKeepsType, TellKeepsType DEF Place, Posting
<1>4. ASSUME NEW c \in Call, ReclaimUpload(c) PROVE TypeOK' /\ Placed'
  <2>1. /\ rows' \in SUBSET Row /\ comments' \in SUBSET Comment /\ torn' \in SUBSET Call /\ crowded' \in SUBSET Call
        /\ StorageTypeOK' /\ Tell(c, "created")
    BY <1>4, <1>a DEF ReclaimUpload, Reclaim, StorageTypeOK
  <2>2. QED BY <1>0, <2>1, TellKeepsType
<1>5. ASSUME NEW c \in Call, AttachScreenshot(c) PROVE TypeOK' /\ Placed'
  <2>1. /\ rows' \in SUBSET Row /\ comments' \in SUBSET Comment /\ torn' \in SUBSET Call /\ crowded' \in SUBSET Call
    BY <1>0, <1>5, <1>a, UrlsType DEF AttachScreenshot
  <2>2. Discard(c, {c}, "created") \/ (Tell(c, "created") /\ UNCHANGED storageVars)
    BY <1>5 DEF AttachScreenshot
  <2>3. QED BY <1>0, <1>b, <2>1, <2>2, DiscardKeepsType, TellKeepsType
<1>6. ASSUME NEW c \in Call, DeleteFeedback(c) PROVE TypeOK' /\ Placed'
  <2> DEFINE found == {row \in rows : row.id = op[c].id}
  <2>1. /\ found \in SUBSET rows /\ Urls(found) \in SUBSET Call
        /\ Kept(rows \ found) \in SUBSET Comment /\ Kept(rows) \in SUBSET Comment
    BY <1>0, UrlsType
  <2>2. /\ \/ Keep(rows \ found) /\ Discard(c, Urls(found), IF found = {} THEN "missing" ELSE "deleted")
           \/ Keep(rows \ found) /\ Forsake(Urls(found)) /\ Tell(c, "error")
           \/ Keep(rows) /\ UNCHANGED storageVars /\ Tell(c, "error")
        /\ UNCHANGED <<torn, crowded>>
    BY <1>6 DEF DeleteFeedback, found
  <2> HIDE DEF found
  <2>3. rows' \in SUBSET Row /\ comments' \in SUBSET Comment
    BY <1>a, <2>1, <2>2 DEF Keep
  <2>4. QED BY <1>0, <1>a, <1>b, <1>c, <2>1, <2>2, <2>3, DiscardKeepsType, TellKeepsType
<1>7. ASSUME NEW c \in Call, StoredScreenshotUrls(c) PROVE TypeOK' /\ Placed'
  <2>1. CASE Tell(c, "error")
    BY <1>0, <1>7, <1>a, <1>b, <2>1, TellKeepsType DEF StoredScreenshotUrls
  <2>2. CASE pending' = [pending EXCEPT ![c] = Referenced] /\ pc' = [pc EXCEPT ![c] = "sweep"]
             /\ UNCHANGED <<plan, op, reply>>
    BY <1>0, <1>7, <1>a, <1>b, <2>2, UrlsType DEF StoredScreenshotUrls, TypeOK, Placed, Place, Posting
  <2>3. QED BY <1>7, <2>1, <2>2 DEF StoredScreenshotUrls
<1>8. ASSUME NEW c \in Call, DeleteAllFeedbacks(c) PROVE TypeOK' /\ Placed'
  <2>1. /\ \E some \in {{}, rows} : Keep(some)
        /\ \E keys \in SUBSET Call : Forsake(keys)
        /\ pc' = [pc EXCEPT ![c] = "done"] \/ pc' = [pc EXCEPT ![c] = "remove"]
        /\ pending' = pending \/ pending' = [pending EXCEPT ![c] = {}]
        /\ \E answer \in Answer : reply' = [reply EXCEPT ![c] = answer]
        /\ UNCHANGED <<plan, op, torn, crowded>>
    <3>1. Referenced \in SUBSET Call /\ Referenced \ pending[c] \in SUBSET Call /\ {} \in SUBSET Call
      BY <1>0, UrlsType
    <3>2. QED BY <1>8, <3>1 DEF DeleteAllFeedbacks
  <2>2. rows' \in SUBSET Row /\ comments' \in SUBSET Comment /\ StorageTypeOK'
    BY <1>0, <1>a, <1>c, <2>1, UrlsType DEF Keep
  <2>3. QED BY <1>0, <2>1, <2>2 DEF TypeOK, Placed, Place, Posting
<1>9. ASSUME NEW c \in Call, DiscardScreenshot(c) PROVE TypeOK' /\ Placed'
  <2> PICK url \in pending[c] : /\ Remove(url) \/ RemoveFails(url)
                                /\ pending' = [pending EXCEPT ![c] = @ \ {url}]
                                /\ pc' = [pc EXCEPT ![c] = IF pending[c] = {url} THEN "done" ELSE "remove"]
    BY <1>9 DEF DiscardScreenshot
  <2>1. url \in Call
    BY <1>0 DEF TypeOK
  <2>2. StorageTypeOK'
    BY <1>a, <2>1 DEF Remove, RemoveFails, StorageTypeOK
  <2>3. QED BY <1>0, <1>9, <2>2 DEF DiscardScreenshot, TypeOK, Placed, Place, Posting
<1>10. ASSUME NEW c \in Call, FindComment(c) PROVE TypeOK' /\ Placed'
  <2>1. op[c] \in CommentRequest
    BY <1>0, <1>10 DEF FindComment, Placed, Posting
  <2>2. (\E place \in {"count", "post"} : Go(c, place)) \/ \E answer \in {"existing", "error"} : Tell(c, answer)
    BY <1>10 DEF FindComment
  <2>3. UNCHANGED <<rows, comments, torn, crowded, storageVars>>
    BY <1>10 DEF FindComment
  <2>4. QED BY <1>0, <1>a, <1>b, <2>1, <2>2, <2>3, GoKeepsType, TellKeepsType DEF Place
<1>11. ASSUME NEW c \in Call, CountComments(c) PROVE TypeOK' /\ Placed'
  <2>1. op[c] \in CommentRequest /\ op[c].id \in Call
    BY <1>0, <1>11 DEF CountComments, Placed, Posting, CommentRequest
  <2>2. Go(c, "post") \/ \E answer \in {"full", "error"} : Tell(c, answer)
    BY <1>11 DEF CountComments
  <2>3. UNCHANGED <<rows, comments, torn, storageVars>> /\ crowded' \in SUBSET Call
    BY <1>11, <1>a, <2>1 DEF CountComments
  <2>4. QED BY <1>0, <1>a, <1>b, <2>1, <2>2, <2>3, GoKeepsType, TellKeepsType DEF Place
<1>12. ASSUME NEW c \in Call, InsertComment(c) PROVE TypeOK' /\ Placed'
  <2>1. op[c] \in CommentRequest
    BY <1>0, <1>12 DEF InsertComment, Placed, Posting
  <2>2. Go(c, "reread") \/ \E answer \in {"created", "missing", "error"} : Tell(c, answer)
    BY <1>12 DEF InsertComment
  <2>3. [id |-> c, feedback |-> op[c].id, clientId |-> op[c].clientId, role |-> op[c].role] \in Comment
    BY <2>1 DEF CommentRequest, Comment
  <2>4. UNCHANGED <<rows, torn, crowded, storageVars>> /\ comments' \in SUBSET Comment
    BY <1>12, <1>a, <2>3 DEF InsertComment
  <2>5. QED BY <1>0, <1>a, <1>b, <2>1, <2>2, <2>4, GoKeepsType, TellKeepsType DEF Place
<1>13. ASSUME NEW c \in Call, RereadComment(c) PROVE TypeOK' /\ Placed'
  <2>1. \E answer \in {"existing", "error"} : Tell(c, answer)
    BY <1>13 DEF RereadComment
  <2>2. QED BY <1>0, <1>13, <1>a, <1>b, <2>1, TellKeepsType DEF RereadComment
<1>14. ASSUME NEW c \in Call, RemoveComment(c) PROVE TypeOK' /\ Placed'
  <2>1. \E answer \in {"missing", "deleted", "error"} : Tell(c, answer)
    BY <1>14 DEF RemoveComment
  <2>2. UNCHANGED <<rows, torn, crowded, storageVars>> /\ comments' \in SUBSET Comment
    BY <1>14, <1>a DEF RemoveComment
  <2>3. QED BY <1>0, <1>a, <1>b, <2>1, <2>2, TellKeepsType
<1>15. ASSUME NEW c \in Call, Crash(c) PROVE TypeOK' /\ Placed'
  BY <1>0, <1>15 DEF Crash, TypeOK, StorageTypeOK, Place, Placed, Posting
<1>16. ASSUME NEW c \in Call, Outside(c) PROVE TypeOK' /\ Placed'
  BY <1>0, <1>16 DEF Outside, Land, RemoveHanded, callVars, TypeOK, StorageTypeOK, Placed
<1>17. ASSUME UNCHANGED vars PROVE TypeOK' /\ Placed'
  BY <1>0, <1>17 DEF vars, callVars, storageVars, TypeOK, StorageTypeOK, Placed
<1>18. QED
  BY <1>1, <1>2, <1>3, <1>4, <1>5, <1>6, <1>7, <1>8, <1>9, <1>10, <1>11, <1>12, <1>13, <1>14, <1>15, <1>16, <1>17
  DEF Next

\* The state always has the shape declared for it.
THEOREM TypeCorrect == Spec => []TypeOK
<1>1. TypeInv => TypeOK
  BY DEF TypeInv
<1>2. QED BY TypeInit, TypeStep, <1>1, PTL DEF Spec
-----------------------------------------------------------------------------
\* What is referenced grows with the rows, and falls by what is deleted.
LEMMA ReferencedRows ==
  /\ rows \subseteq rows' => Referenced \subseteq Referenced'
  /\ \A some \in SUBSET rows : rows' = rows \ some => Referenced \subseteq Referenced' \cup Urls(some)
<1>1. Referenced = {row.id : row \in {r \in rows : r.url}} /\ Referenced' = {row.id : row \in {r \in rows' : r.url}}
  BY DEF Referenced, Urls
<1>2. \A some : Urls(some) = {row.id : row \in {r \in some : r.url}}
  BY DEF Urls
<1>3. QED BY <1>1, <1>2

\* Attaching keeps the rows, their urls, and adds the call's own.
LEMMA AttachedRows ==
  ASSUME TypeOK, NEW c \in Call, rows' = Attached(c)
  PROVE  /\ \A row \in rows' : \E old \in rows : row.id = old.id /\ (row.url <=> old.url \/ old.id = c)
         /\ Referenced \subseteq Referenced'
         /\ IsStored(c) => c \in Referenced'
<1>1. ASSUME NEW old \in rows
      PROVE  LET row == [old EXCEPT !.url = @ \/ old.id = c]
             IN  row.id = old.id /\ (row.url <=> old.url \/ old.id = c)
  <2>1. old \in [id : Call, clientId : ClientId, url : BOOLEAN]
    BY DEF TypeOK, Row
  <2> DEFINE url == old.url \/ old.id = c
             row == [old EXCEPT !.url = url]
  <2> HIDE DEF url
  <2>2. row.id = old.id /\ row.url = url
    BY <2>1
  <2> USE DEF url
  <2>3. row.url <=> old.url \/ old.id = c
    BY <2>2, Zenon
  <2>4. row.id = old.id
    BY <2>2
  <2>5. QED BY <2>3, <2>4, Zenon
<1>2. \A row \in rows' : \E old \in rows : row.id = old.id /\ (row.url <=> old.url \/ old.id = c)
  BY <1>1, Zenon DEF Attached
<1>3. ASSUME NEW old \in rows PROVE \E row \in rows' : row.id = old.id /\ (row.url <=> old.url \/ old.id = c)
  <2> DEFINE row == [old EXCEPT !.url = @ \/ old.id = c]
  <2>1. row \in rows'
    BY Zenon DEF Attached
  <2>2. row.id = old.id /\ (row.url <=> old.url \/ old.id = c)
    BY <1>1, Zenon
  <2> HIDE DEF row
  <2>3. QED BY <2>1, <2>2, Zenon
<1>4. \A k : k \in Referenced <=> \E old \in rows : old.url /\ old.id = k
  BY DEF Referenced, Urls
<1>5. \A k : k \in Referenced' <=> \E row \in rows' : row.url /\ row.id = k
  BY DEF Referenced, Urls
<1>6. ASSUME NEW old \in rows, old.url \/ old.id = c PROVE old.id \in Referenced'
  <2>1. PICK row \in rows' : row.id = old.id /\ (row.url <=> old.url \/ old.id = c)
    BY <1>3, Zenon
  <2>2. row.url
    BY <1>6, <2>1, Zenon
  <2>3. QED BY <1>5, <2>1, <2>2, Zenon
<1>7. Referenced \subseteq Referenced'
  <2>1. ASSUME NEW k \in Referenced PROVE k \in Referenced'
    <3>1. PICK old \in rows : old.url /\ old.id = k
      BY <1>4
    <3>2. QED BY <1>6, <3>1, Zenon
  <2>2. QED BY <2>1
<1>8. IsStored(c) => c \in Referenced'
  BY <1>6, Zenon DEF IsStored
<1>9. QED BY <1>2, <1>7, <1>8, Zenon

\* A call that moves on, and holds no url to discard, leaves nobody unaccounted for.
LEMMA OrphanMove ==
  ASSUME TypeOK, OrphanInv, NEW c \in Call, NEW place \in Place, pc' = [pc EXCEPT ![c] = place],
         pc[c] \notin {"sweep", "remove", "reclaim"}, pending' = pending,
         UNCHANGED <<objects, underway, handed>>, forsaken \subseteq forsaken',
         Referenced \subseteq Referenced' \cup forsaken', pc[c] = "attach" => c \in Referenced' \cup forsaken'
  PROVE  OrphanInv'
<1>1. PendingPlaced'
  BY DEF OrphanInv, PendingPlaced, TypeOK
<1>2. UnderwayHeld'
  BY DEF OrphanInv, UnderwayHeld, TypeOK, StorageTypeOK
<1>3. Accounted'
  <2> SUFFICES ASSUME NEW k \in objects
               PROVE  \/ k \in Referenced' \cup handed' \cup forsaken'
                      \/ pc'[k] \in {"attach", "reclaim"}
                      \/ \E d \in Call : pc'[d] = "remove" /\ k \in pending'[d]
    BY DEF Accounted
  <2>1. k \in Call
    BY DEF TypeOK, StorageTypeOK
  <2>2. CASE k \in Referenced \cup handed \cup forsaken
    BY <2>2
  <2>3. CASE pc[k] \in {"attach", "reclaim"}
    BY <2>1, <2>3 DEF TypeOK
  <2>4. ASSUME NEW d \in Call, pc[d] = "remove", k \in pending[d]
        PROVE  pc'[d] = "remove" /\ k \in pending'[d]
    BY <2>4 DEF TypeOK
  <2>5. QED BY <2>2, <2>3, <2>4 DEF OrphanInv, Accounted
<1>4. QED BY <1>1, <1>2, <1>3 DEF OrphanInv

\* What is no longer referenced is discarded, or let go.
LEMMA OrphanDiscard ==
  ASSUME TypeOK, OrphanInv, NEW c \in Call, NEW urls \in SUBSET Call, NEW answer \in Answer, Discard(c, urls, answer),
         pc[c] \in {"attach", "delete"}, Referenced \subseteq Referenced' \cup urls, pc[c] = "attach" => c \in urls
  PROVE  OrphanInv'
<1>1. CASE c \in Cleans /\ urls # {}
  <2>1. /\ pc' = [pc EXCEPT ![c] = "remove"] /\ pending' = [pending EXCEPT ![c] = urls]
        /\ UNCHANGED <<objects, underway, handed, forsaken>>
    BY <1>1 DEF Discard, storageVars
  <2>2. pc'[c] = "remove" /\ pending'[c] = urls
        /\ \A d \in Call \ {c} : pc'[d] = pc[d] /\ pending'[d] = pending[d]
    BY <2>1 DEF TypeOK
  <2>3. PendingPlaced' /\ UnderwayHeld'
    BY <2>1, <2>2 DEF OrphanInv, PendingPlaced, UnderwayHeld, TypeOK, StorageTypeOK
  <2>4. Accounted'
    <3>1. \A k \in Referenced : k \in Referenced' \/ k \in pending'[c]
      BY <2>2
    <3>2. objects' = objects /\ handed' = handed /\ forsaken' = forsaken /\ objects \subseteq Call
      BY <2>1 DEF TypeOK, StorageTypeOK
    <3>3. QED BY <2>2, <3>1, <3>2 DEF OrphanInv, Accounted
  <2>5. QED BY <2>3, <2>4 DEF OrphanInv
<1>2. CASE ~(c \in Cleans /\ urls # {})
  <2>1. pc' = [pc EXCEPT ![c] = "done"] /\ pending' = pending /\ UNCHANGED <<objects, underway, handed>>
        /\ forsaken' = forsaken \cup urls
    BY <1>2 DEF Discard, Tell, Forsake
  <2>2. QED BY <2>1, OrphanMove DEF Place
<1>3. QED BY <1>1, <1>2

\* At first there is nothing to account for.
LEMMA OrphanInit == Init => OrphanInv
  BY DEF Init, StorageInit, OrphanInv, PendingPlaced, UnderwayHeld, Accounted

\* No step leaves an object, or a put under way, unaccounted for.
LEMMA OrphanStep == TypeInv /\ OrphanInv /\ [Next]_vars => OrphanInv'
<1> SUFFICES ASSUME TypeInv, OrphanInv, [Next]_vars PROVE OrphanInv'
  OBVIOUS
<1>0. TypeOK /\ Placed
  BY DEF TypeInv
<1> USE <1>0
<1>t. ASSUME NEW c \in Call, NEW answer \in Answer, Tell(c, answer), UNCHANGED storageVars,
             pc[c] \notin {"sweep", "remove", "reclaim"}, Referenced \subseteq Referenced',
             pc[c] = "attach" => c \in Referenced'
      PROVE  OrphanInv'
  BY <1>t, OrphanMove DEF Tell, storageVars, Place
<1>g. ASSUME NEW c \in Call, NEW place \in Place, Go(c, place), UNCHANGED storageVars,
             pc[c] \notin {"sweep", "remove", "reclaim", "attach"}, Referenced \subseteq Referenced'
      PROVE  OrphanInv'
  BY <1>g, OrphanMove DEF Go, storageVars
<1>s. UNCHANGED rows => Referenced' = Referenced
  BY DEF Referenced, Urls
<1> USE DEF Answer
<1>1. ASSUME NEW c \in Call, NEW r \in plan[c], Ask(c, r) PROVE OrphanInv'
  <2>1. r \in Request
    BY PrismaAssumption DEF TypeOK
  <2> DEFINE place == IF r.kind # "deleteAll" THEN First[r.kind] ELSE IF c \in Cleans THEN "read" ELSE "sweep"
  <2>2. place \in Place
    BY <2>1 DEF Request, Place, First
  <2>3. pc[c] = "new" /\ pc' = [pc EXCEPT ![c] = place] /\ UNCHANGED <<rows, pending, storageVars>>
    BY <1>1 DEF Ask
  <2> HIDE DEF place
  <2>4. QED BY <2>2, <2>3, <1>s, OrphanMove DEF storageVars
<1>2. ASSUME NEW c \in Call, InsertFeedback(c) PROVE OrphanInv'
  <2>1. Referenced \subseteq Referenced' /\ pc[c] = "insert" /\ UNCHANGED storageVars
    BY <1>2, ReferencedRows DEF InsertFeedback
  <2>2. Go(c, "upload") \/ \E answer \in {"created", "error", "duplicate"} : Tell(c, answer)
    BY <1>2 DEF InsertFeedback
  <2>3. QED BY <2>1, <2>2, <1>t, <1>g DEF Place
<1>3. ASSUME NEW c \in Call, UploadScreenshot(c) PROVE OrphanInv'
  <2>1. pc[c] = "upload" /\ Referenced' = Referenced
    BY <1>3, <1>s DEF UploadScreenshot
  <2>2. CASE UNCHANGED storageVars /\ Tell(c, "created")
    BY <2>1, <2>2, <1>t
  <2>3. CASE Put(c) /\ Go(c, "attach")
    <3>1. /\ objects' = objects \cup {c} /\ pc' = [pc EXCEPT ![c] = "attach"]
          /\ UNCHANGED <<underway, handed, forsaken, pending>>
      BY <2>3 DEF Put, Go
    <3>2. QED BY <2>1, <3>1 DEF OrphanInv, PendingPlaced, UnderwayHeld, Accounted, TypeOK, StorageTypeOK
  <2>4. CASE PutUncertain(c) /\ Go(c, "reclaim")
    <3>1. /\ underway' = underway \cup {c} /\ pc' = [pc EXCEPT ![c] = "reclaim"]
          /\ UNCHANGED <<objects, handed, forsaken, pending>>
      BY <2>4 DEF PutUncertain, Go
    <3>2. QED BY <2>1, <3>1 DEF OrphanInv, PendingPlaced, UnderwayHeld, Accounted, TypeOK, StorageTypeOK
  <2>5. QED BY <1>3, <2>2, <2>3, <2>4 DEF UploadScreenshot
<1>4. ASSUME NEW c \in Call, ReclaimUpload(c) PROVE OrphanInv'
  <2>1. /\ pc[c] = "reclaim" /\ Referenced' = Referenced /\ pc' = [pc EXCEPT ![c] = "done"]
        /\ pending' = pending
    BY <1>4, <1>s DEF ReclaimUpload, Tell
  <2>2. /\ objects' \subseteq objects /\ underway' = underway /\ handed \subseteq handed' /\ forsaken \subseteq forsaken'
        /\ c \in handed' \cup forsaken'
    BY <1>4 DEF ReclaimUpload, Reclaim
  <2>3. QED BY <2>1, <2>2 DEF OrphanInv, PendingPlaced, UnderwayHeld, Accounted, TypeOK, StorageTypeOK
<1>5. ASSUME NEW c \in Call, AttachScreenshot(c) PROVE OrphanInv'
  <2>1. pc[c] = "attach"
    BY <1>5 DEF AttachScreenshot
  <2>2. CASE IsStored(c) /\ rows' = Attached(c) /\ Tell(c, "created") /\ UNCHANGED storageVars
    BY <2>1, <2>2, <1>t, AttachedRows
  <2>3. CASE rows' = Attached(c) /\ Discard(c, {c}, "created")
    BY <2>1, <2>3, AttachedRows, OrphanDiscard
  <2>4. CASE UNCHANGED rows /\ Discard(c, {c}, "created")
    BY <2>1, <2>4, <1>s, OrphanDiscard
  <2>5. QED BY <1>5, <2>2, <2>3, <2>4 DEF AttachScreenshot
<1>6. ASSUME NEW c \in Call, DeleteFeedback(c) PROVE OrphanInv'
  <2> DEFINE found == {row \in rows : row.id = op[c].id}
  <2>1. found \in SUBSET rows /\ Urls(found) \in SUBSET Call
    BY UrlsType
  <2>2. /\ pc[c] = "delete"
        /\ \/ Keep(rows \ found) /\ Discard(c, Urls(found), IF found = {} THEN "missing" ELSE "deleted")
           \/ Keep(rows \ found) /\ Forsake(Urls(found)) /\ Tell(c, "error")
           \/ Keep(rows) /\ UNCHANGED storageVars /\ Tell(c, "error")
    BY <1>6 DEF DeleteFeedback, found
  <2> HIDE DEF found
  <2>3. CASE Keep(rows \ found) /\ Discard(c, Urls(found), IF found = {} THEN "missing" ELSE "deleted")
    <3>1. Referenced \subseteq Referenced' \cup Urls(found)
      BY <2>1, <2>3, ReferencedRows DEF Keep
    <3>2. QED BY <2>1, <2>2, <2>3, <3>1, OrphanDiscard
  <2>4. CASE Keep(rows \ found) /\ Forsake(Urls(found)) /\ Tell(c, "error")
    <3>1. Referenced \subseteq Referenced' \cup Urls(found)
      BY <2>1, <2>4, ReferencedRows DEF Keep
    <3>2. QED BY <2>2, <2>4, <3>1, OrphanMove DEF Forsake, Tell, Place
  <2>5. CASE Keep(rows) /\ UNCHANGED storageVars /\ Tell(c, "error")
    BY <2>2, <2>5, <1>t, <1>s DEF Keep
  <2>6. QED BY <2>2, <2>3, <2>4, <2>5
<1>7. ASSUME NEW c \in Call, StoredScreenshotUrls(c) PROVE OrphanInv'
  <2>1. pc[c] = "read" /\ Referenced' = Referenced /\ UNCHANGED storageVars
    BY <1>7, <1>s DEF StoredScreenshotUrls
  <2>2. CASE Tell(c, "error")
    BY <2>1, <2>2, <1>t
  <2>3. CASE pending' = [pending EXCEPT ![c] = Referenced] /\ pc' = [pc EXCEPT ![c] = "sweep"]
    <3>1. pc'[c] = "sweep" /\ \A d \in Call \ {c} : pc'[d] = pc[d] /\ pending'[d] = pending[d]
      BY <2>3 DEF TypeOK
    <3>2. QED BY <2>1, <3>1 DEF OrphanInv, PendingPlaced, UnderwayHeld, Accounted, TypeOK, StorageTypeOK, storageVars
  <2>4. QED BY <1>7, <2>2, <2>3 DEF StoredScreenshotUrls
<1>8. ASSUME NEW c \in Call, DeleteAllFeedbacks(c) PROVE OrphanInv'
  <2>1. pc[c] = "sweep" /\ UNCHANGED <<objects, underway, handed>> /\ forsaken \subseteq forsaken'
    BY <1>8 DEF DeleteAllFeedbacks, Forsake
  <2>2. \A d \in Call \ {c} : pc'[d] = pc[d] /\ pending'[d] = pending[d]
    BY <1>8 DEF DeleteAllFeedbacks, TypeOK
  <2>3. pc'[c] \in {"done", "remove"} /\ (pc'[c] = "done" => pending'[c] = {})
    BY <1>8 DEF DeleteAllFeedbacks, TypeOK
  <2>4. \A k \in Referenced : k \in Referenced' \cup forsaken' \/ (pc'[c] = "remove" /\ k \in pending'[c])
    <3>1. CASE Forsake(Referenced \ pending[c]) /\ UNCHANGED pending
               /\ pc' = [pc EXCEPT ![c] = IF pending[c] = {} THEN "done" ELSE "remove"]
      BY <3>1 DEF Forsake, TypeOK
    <3>2. CASE \E some \in {{}, rows} : Keep(some) /\ Forsake(IF some = {} THEN Referenced ELSE {})
      <4> PICK some \in {{}, rows} : Keep(some) /\ Forsake(IF some = {} THEN Referenced ELSE {})
        BY <3>2
      <4>1. CASE some = {}
        BY <4>1 DEF Forsake
      <4>2. CASE some = rows
        BY <4>2, <1>s DEF Keep
      <4>3. QED BY <4>1, <4>2
    <3>3. QED BY <1>8, <3>1, <3>2 DEF DeleteAllFeedbacks
  <2>5. PendingPlaced' /\ UnderwayHeld'
    BY <2>1, <2>2, <2>3 DEF OrphanInv, PendingPlaced, UnderwayHeld, TypeOK, StorageTypeOK
  <2>6. Accounted'
    BY <2>1, <2>2, <2>4 DEF OrphanInv, Accounted, TypeOK, StorageTypeOK
  <2>7. QED BY <2>5, <2>6 DEF OrphanInv
<1>9. ASSUME NEW c \in Call, DiscardScreenshot(c) PROVE OrphanInv'
  <2> PICK url \in pending[c] : /\ Remove(url) \/ RemoveFails(url)
                                /\ pending' = [pending EXCEPT ![c] = @ \ {url}]
                                /\ pc' = [pc EXCEPT ![c] = IF pending[c] = {url} THEN "done" ELSE "remove"]
    BY <1>9 DEF DiscardScreenshot
  <2>1. pc[c] = "remove" /\ Referenced' = Referenced
    BY <1>9, <1>s DEF DiscardScreenshot
  <2>2. /\ url \notin objects' \/ url \in forsaken'
        /\ underway' = underway /\ handed' = handed /\ forsaken \subseteq forsaken'
    BY DEF Remove, RemoveFails
  <2>3. objects' \subseteq objects
    BY DEF Remove, RemoveFails
  <2>4. /\ \A d \in Call \ {c} : pc'[d] = pc[d] /\ pending'[d] = pending[d]
        /\ pending'[c] = pending[c] \ {url}
        /\ pc'[c] = IF pending[c] = {url} THEN "done" ELSE "remove"
    BY DEF TypeOK
  <2>5. PendingPlaced' /\ UnderwayHeld'
    BY <2>1, <2>2, <2>4 DEF OrphanInv, PendingPlaced, UnderwayHeld, TypeOK, StorageTypeOK
  <2>6. Accounted'
    BY <2>1, <2>2, <2>3, <2>4 DEF OrphanInv, Accounted, TypeOK, StorageTypeOK
  <2>7. QED BY <2>5, <2>6 DEF OrphanInv
<1>10. ASSUME NEW c \in Call, FindComment(c) PROVE OrphanInv'
  <2>1. (\E place \in {"count", "post"} : Go(c, place)) \/ \E answer \in {"existing", "error"} : Tell(c, answer)
    BY <1>10 DEF FindComment
  <2>2. pc[c] = "find" /\ UNCHANGED <<rows, storageVars>>
    BY <1>10 DEF FindComment
  <2>3. QED BY <2>1, <2>2, <1>t, <1>g, <1>s DEF Place
<1>11. ASSUME NEW c \in Call, CountComments(c) PROVE OrphanInv'
  <2>1. Go(c, "post") \/ \E answer \in {"full", "error"} : Tell(c, answer)
    BY <1>11 DEF CountComments
  <2>2. pc[c] = "count" /\ UNCHANGED <<rows, storageVars>>
    BY <1>11 DEF CountComments
  <2>3. QED BY <2>1, <2>2, <1>t, <1>g, <1>s DEF Place
<1>12. ASSUME NEW c \in Call, InsertComment(c) PROVE OrphanInv'
  <2>1. Go(c, "reread") \/ \E answer \in {"created", "missing", "error"} : Tell(c, answer)
    BY <1>12 DEF InsertComment
  <2>2. pc[c] = "post" /\ UNCHANGED <<rows, storageVars>>
    BY <1>12 DEF InsertComment
  <2>3. QED BY <2>1, <2>2, <1>t, <1>g, <1>s DEF Place
<1>13. ASSUME NEW c \in Call, RereadComment(c) PROVE OrphanInv'
  <2>1. /\ \E answer \in {"existing", "error"} : Tell(c, answer)
        /\ pc[c] = "reread" /\ UNCHANGED <<rows, storageVars>>
    BY <1>13 DEF RereadComment
  <2>2. QED BY <2>1, <1>t, <1>s
<1>14. ASSUME NEW c \in Call, RemoveComment(c) PROVE OrphanInv'
  <2>1. /\ \E answer \in {"missing", "deleted", "error"} : Tell(c, answer)
        /\ pc[c] = "uncomment" /\ UNCHANGED <<rows, storageVars>>
    BY <1>14 DEF RemoveComment
  <2>2. QED BY <2>1, <1>t, <1>s
<1>15. ASSUME NEW c \in Call, Crash(c) PROVE OrphanInv'
  <2>1. Referenced' = Referenced /\ UNCHANGED <<objects, handed>>
    BY <1>15, <1>s DEF Crash
  <2>2. /\ \A d \in Call \ {c} : pc'[d] = pc[d] /\ pending'[d] = pending[d]
        /\ pc'[c] = "done" /\ pending'[c] = {}
    BY <1>15 DEF Crash, TypeOK
  <2>3. /\ underway' = underway \cup (IF pc[c] = "upload" THEN {c} ELSE {})
        /\ forsaken' = forsaken \cup pending[c] \cup (IF pc[c] \in {"upload", "reclaim", "attach"} THEN {c} ELSE {})
    BY <1>15 DEF Crash
  <2>4. PendingPlaced'
    BY <2>2 DEF OrphanInv, PendingPlaced
  <2>5. UnderwayHeld'
    BY <2>1, <2>2, <2>3 DEF OrphanInv, UnderwayHeld, TypeOK, StorageTypeOK
  <2>6. Accounted'
    BY <2>1, <2>2, <2>3 DEF OrphanInv, Accounted, TypeOK, StorageTypeOK
  <2>7. QED BY <2>4, <2>5, <2>6 DEF OrphanInv
<1>16. ASSUME NEW c \in Call, Outside(c) PROVE OrphanInv'
  <2>1. Referenced' = Referenced /\ UNCHANGED <<pc, pending>>
    BY <1>16, <1>s DEF Outside, callVars
  <2>2. CASE Land(c)
    <3>1. /\ c \in underway /\ objects' \subseteq objects \cup {c} /\ underway' \subseteq underway
          /\ UNCHANGED <<handed, forsaken>>
      BY <2>2 DEF Land
    <3>2. QED BY <2>1, <3>1 DEF OrphanInv, PendingPlaced, UnderwayHeld, Accounted
  <2>3. CASE RemoveHanded(c)
    BY <2>1, <2>3 DEF RemoveHanded, OrphanInv, PendingPlaced, UnderwayHeld, Accounted
  <2>4. QED BY <1>16, <2>2, <2>3 DEF Outside
<1>17. ASSUME UNCHANGED vars PROVE OrphanInv'
  BY <1>17, <1>s DEF vars, callVars, storageVars, OrphanInv, PendingPlaced, UnderwayHeld, Accounted
<1>18. QED
  BY <1>1, <1>2, <1>3, <1>4, <1>5, <1>6, <1>7, <1>8, <1>9, <1>10, <1>11, <1>12, <1>13, <1>14, <1>15, <1>16, <1>17
  DEF Next

\* An object no row refers to is in somebody's hands, or was let go by a step
\* that failed: of every deployment, whatever fails, dies or is answered late.
THEOREM NoOrphans == Spec => []NothingOrphaned
<1>1. TypeOK /\ OrphanInv => NothingOrphaned
  BY DEF TypeOK, StorageTypeOK, OrphanInv, Accounted, NothingOrphaned, Held
<1>2. TypeInv => TypeOK
  BY DEF TypeInv
<1>3. QED BY TypeInit, TypeStep, OrphanInit, OrphanStep, <1>1, <1>2, PTL DEF Spec
-----------------------------------------------------------------------------
\* A call that moves on, and only forgets urls to discard, breaks no row.
LEMMA DanglingMove ==
  ASSUME TypeOK, DanglingInv, NEW c \in Call, NEW place \in Place \ {"remove"}, pc' = [pc EXCEPT ![c] = place],
         place \in Early => pc[c] \in Early, place \in {"new", "insert"} => pc[c] \in {"new", "insert"},
         place = "attach" => c \in objects',
         \A row \in rows' : row \in rows \/ (row.id = c /\ ~row.url /\ place \notin {"new", "insert"}),
         \A d \in Call : pending'[d] \subseteq pending[d],
         objects \subseteq objects', torn \subseteq torn', handed' = handed
  PROVE  DanglingInv'
<1>1. pc'[c] = place /\ \A d \in Call \ {c} : pc'[d] = pc[d]
  BY DEF TypeOK
<1>2. /\ \A row \in rows : row.id \in Call
      /\ handed \subseteq Call /\ \A d \in Call : pending[d] \subseteq Call
  BY DEF TypeOK, StorageTypeOK, Row
<1>3. ASSUME NEW row \in rows', row \in rows
      PROVE  /\ pc'[row.id] \notin {"new", "insert"}
             /\ row.url => pc'[row.id] \notin Early
             /\ row.url => /\ row.id \notin handed'
                           /\ row.id \in objects' \cup torn'
                           /\ \A d \in Call : pc'[d] = "remove" /\ row.id \in pending'[d] => row.id \in torn'
  BY <1>1, <1>2, <1>3 DEF DanglingInv, UrlsAttached, Removable
<1>4. UrlsAttached' /\ Removable'
  BY <1>1, <1>3, Zenon DEF UrlsAttached, Removable
<1>5. PastAttach'
  BY <1>1, <1>2 DEF DanglingInv, PastAttach
<1>6. Uploaded'
  BY <1>1 DEF DanglingInv, Uploaded
<1>7. QED BY <1>4, <1>5, <1>6 DEF DanglingInv

\* A call may discard the urls of calls past their attach that no row keeps, but for the torn.
LEMMA DanglingDiscard ==
  ASSUME TypeOK, DanglingInv, NEW c \in Call, NEW urls \in SUBSET Call,
         pc' = [pc EXCEPT ![c] = "remove"], pending' = [pending EXCEPT ![c] = urls],
         \A k \in urls : k = c \/ pc[k] \notin Early,
         UNCHANGED <<objects, handed>>, torn \subseteq torn',
         \A row \in rows' : \E old \in rows :
           row.id = old.id /\ (row.url => old.url \/ (row.id = c /\ pc[c] = "attach" /\ c \in torn')),
         \A row \in rows' : row.url /\ row.id \in urls => row.id \in torn'
  PROVE  DanglingInv'
<1>1. /\ pc'[c] = "remove" /\ pending'[c] = urls
      /\ \A d \in Call \ {c} : pc'[d] = pc[d] /\ pending'[d] = pending[d]
  BY DEF TypeOK
<1>2. /\ \A row \in rows : row.id \in Call
      /\ handed \subseteq Call /\ \A d \in Call : pending[d] \subseteq Call
  BY DEF TypeOK, StorageTypeOK, Row
<1>3. ASSUME NEW row \in rows'
      PROVE  /\ pc'[row.id] \notin {"new", "insert"}
             /\ row.url => pc'[row.id] \notin Early
             /\ row.url => /\ row.id \notin handed'
                           /\ row.id \in objects' \cup torn'
                           /\ \A d \in Call : pc'[d] = "remove" /\ row.id \in pending'[d] => row.id \in torn'
  <2> PICK old \in rows : /\ row.id = old.id
                          /\ row.url => old.url \/ (row.id = c /\ pc[c] = "attach" /\ c \in torn')
    OBVIOUS
  <2>1. pc'[row.id] \notin {"new", "insert"}
    BY <1>1, <1>2 DEF DanglingInv, UrlsAttached
  <2>2. CASE row.url /\ old.url
    <3>1. row.id \notin handed /\ row.id \in objects \cup torn /\ pc[row.id] \notin Early
      BY <2>2 DEF DanglingInv, UrlsAttached, Removable
    <3>2. \A d \in Call : pc[d] = "remove" /\ row.id \in pending[d] => row.id \in torn
      BY <2>2 DEF DanglingInv, Removable
    <3>3. QED BY <1>1, <1>2, <2>1, <2>2, <3>1, <3>2 DEF Early
  <2>3. CASE row.id = c /\ pc[c] = "attach" /\ c \in torn'
    <3>1. c \notin handed
      BY <2>3 DEF DanglingInv, PastAttach, Early
    <3>2. QED BY <1>1, <2>1, <2>3, <3>1 DEF Early
  <2>4. QED BY <2>1, <2>2, <2>3
<1>4. UrlsAttached' /\ Removable'
  BY <1>3, Zenon DEF UrlsAttached, Removable
<1>5. PastAttach'
  BY <1>1, <1>2 DEF DanglingInv, PastAttach, Early
<1>6. Uploaded'
  BY <1>1 DEF DanglingInv, Uploaded
<1>7. QED BY <1>4, <1>5, <1>6 DEF DanglingInv

\* At first no row refers to anything.
LEMMA DanglingInit == Init => DanglingInv
  BY DEF Init, StorageInit, DanglingInv, UrlsAttached, PastAttach, Removable, Uploaded

\* No step breaks the url of a row.
LEMMA DanglingStep == TypeInv /\ DanglingInv /\ [Next]_vars => DanglingInv'
<1> SUFFICES ASSUME TypeInv, DanglingInv, [Next]_vars PROVE DanglingInv'
  OBVIOUS
<1>0. TypeOK
  BY DEF TypeInv
<1> USE <1>0
<1>t. ASSUME NEW c \in Call, NEW answer \in Answer, Tell(c, answer), rows' \subseteq rows,
             UNCHANGED <<objects, handed, torn>>
      PROVE  DanglingInv'
  BY <1>t, DanglingMove DEF Tell, Place, Early
<1>g. ASSUME NEW c \in Call, NEW place \in {"upload", "reclaim", "count", "post", "reread"}, Go(c, place),
             place \in Early => pc[c] \in Early, rows' \subseteq rows, UNCHANGED <<objects, handed, torn>>
      PROVE  DanglingInv'
  BY <1>g, DanglingMove DEF Go, Place
<1>u. \A some : \A k : k \in Urls(some) <=> \E row \in some : row.url /\ row.id = k
  BY DEF Urls
<1> USE DEF Answer
<1>1. ASSUME NEW c \in Call, NEW r \in plan[c], Ask(c, r) PROVE DanglingInv'
  <2>1. r \in Request
    BY PrismaAssumption DEF TypeOK
  <2> DEFINE place == IF r.kind # "deleteAll" THEN First[r.kind] ELSE IF c \in Cleans THEN "read" ELSE "sweep"
  <2>2. place \in Place \ {"remove", "attach"}
    BY <2>1 DEF Request, Place, First
  <2>3. /\ pc[c] = "new" /\ pc' = [pc EXCEPT ![c] = place]
        /\ UNCHANGED <<rows, pending, torn, objects, handed>>
    BY <1>1 DEF Ask, storageVars
  <2> HIDE DEF place
  <2>4. QED BY <2>2, <2>3, DanglingMove DEF Early
<1>2. ASSUME NEW c \in Call, InsertFeedback(c) PROVE DanglingInv'
  <2>1. pc[c] = "insert" /\ UNCHANGED <<objects, handed, torn>>
    BY <1>2 DEF InsertFeedback, storageVars
  <2>2. PICK place \in {"upload", "done"} : pc' = [pc EXCEPT ![c] = place] /\ UNCHANGED pending
    BY <1>2 DEF InsertFeedback, Go, Tell
  <2>3. \A row \in rows' : row \in rows \/ (row.id = c /\ ~row.url)
    BY <1>2 DEF InsertFeedback, NewRow
  <2>4. QED BY <2>1, <2>2, <2>3, DanglingMove DEF Place, Early
<1>3. ASSUME NEW c \in Call, UploadScreenshot(c) PROVE DanglingInv'
  <2>1. /\ pc[c] = "upload" /\ UNCHANGED <<rows, torn, handed>> /\ objects \subseteq objects'
        /\ \E place \in {"attach", "reclaim", "done"} :
             /\ pc' = [pc EXCEPT ![c] = place] /\ UNCHANGED pending
             /\ place = "attach" => c \in objects'
    BY <1>3 DEF UploadScreenshot, Put, PutUncertain, storageVars, Go, Tell
  <2>2. QED BY <2>1, DanglingMove DEF Place, Early
<1>4. ASSUME NEW c \in Call, ReclaimUpload(c) PROVE DanglingInv'
  <2>1. /\ pc[c] = "reclaim" /\ UNCHANGED <<rows, torn, pending>> /\ pc' = [pc EXCEPT ![c] = "done"]
        /\ objects \ {c} \subseteq objects' /\ handed' \subseteq handed \cup {c}
    BY <1>4 DEF ReclaimUpload, Reclaim, Tell
  <2>2. pc'[c] = "done" /\ \A d \in Call \ {c} : pc'[d] = pc[d]
    BY <2>1 DEF TypeOK
  <2>3. \A row \in rows : row.id \in Call /\ (row.url => row.id # c)
    BY <2>1 DEF DanglingInv, UrlsAttached, Early, TypeOK, Row
  <2>4. UrlsAttached' /\ PastAttach' /\ Uploaded'
    BY <2>1, <2>2, <2>3 DEF DanglingInv, UrlsAttached, PastAttach, Uploaded, Early, TypeOK, StorageTypeOK
  <2>5. Removable'
    BY <2>1, <2>2, <2>3 DEF DanglingInv, Removable
  <2>6. QED BY <2>4, <2>5 DEF DanglingInv
<1>5. ASSUME NEW c \in Call, AttachScreenshot(c) PROVE DanglingInv'
  <2>1. pc[c] = "attach" /\ c \in objects /\ c \notin handed /\ \A d \in Call : c \notin pending[d]
    BY <1>5 DEF AttachScreenshot, DanglingInv, Uploaded, PastAttach, Early
  <2>2. \A row \in rows : row.id = c => ~row.url
    BY <2>1 DEF DanglingInv, UrlsAttached, Early
  <2>3. CASE rows' = Attached(c) /\ pc' = [pc EXCEPT ![c] = "done"] /\ UNCHANGED <<pending, objects, handed, torn>>
    <3>1. pc'[c] = "done" /\ \A d \in Call \ {c} : pc'[d] = pc[d]
      BY <2>3 DEF TypeOK
    <3>2. ASSUME NEW row \in rows'
          PROVE  /\ pc'[row.id] \notin {"new", "insert"}
                 /\ row.url => pc'[row.id] \notin Early
                 /\ row.url => /\ row.id \notin handed'
                               /\ row.id \in objects' \cup torn'
                               /\ \A d \in Call : pc'[d] = "remove" /\ row.id \in pending'[d] => row.id \in torn'
      <4>1. PICK old \in rows : row.id = old.id /\ (row.url => old.url \/ old.id = c)
        BY <2>3, AttachedRows
      <4>2. CASE row.id = c
        BY <2>1, <2>3, <3>1, <4>2 DEF Early
      <4>3. CASE row.id # c
        BY <2>3, <3>1, <4>1, <4>3 DEF DanglingInv, UrlsAttached, Removable, TypeOK, Row
      <4>4. QED BY <4>2, <4>3
    <3>3. UrlsAttached' /\ Removable'
      BY <3>2, Zenon DEF UrlsAttached, Removable
    <3>4. PastAttach' /\ Uploaded'
      BY <2>3, <3>1 DEF DanglingInv, PastAttach, Uploaded, Early, TypeOK, StorageTypeOK
    <3>5. QED BY <3>3, <3>4 DEF DanglingInv
  <2>4. CASE UNCHANGED <<rows, torn>> /\ Discard(c, {c}, "created")
    <3>1. CASE c \in Cleans
      <4>1. /\ pc' = [pc EXCEPT ![c] = "remove"] /\ pending' = [pending EXCEPT ![c] = {c}]
            /\ UNCHANGED <<objects, handed>>
        BY <2>4, <3>1 DEF Discard, storageVars
      <4>2. /\ rows' = rows /\ torn \subseteq torn'
            /\ \A row \in rows' : row.url /\ row.id \in {c} => row.id \in torn'
        BY <2>2, <2>4
      <4>3. \A row \in rows' : \E old \in rows :
              row.id = old.id /\ (row.url => old.url \/ (row.id = c /\ pc[c] = "attach" /\ c \in torn'))
        BY <4>2, Zenon
      <4>4. {c} \in SUBSET Call /\ \A k \in {c} : k = c \/ pc[k] \notin Early
        OBVIOUS
      <4>5. QED BY <4>1, <4>2, <4>3, <4>4, DanglingDiscard
    <3>2. CASE c \notin Cleans
      BY <2>4, <3>2, <1>t DEF Discard, Forsake
    <3>3. QED BY <3>1, <3>2
  <2>5. CASE rows' = Attached(c) /\ Discard(c, {c}, "created") /\ torn' = IF c \in Cleans THEN torn \cup {c} ELSE torn
    <3>1. CASE c \in Cleans
      <4>1. /\ pc' = [pc EXCEPT ![c] = "remove"] /\ pending' = [pending EXCEPT ![c] = {c}]
            /\ UNCHANGED <<objects, handed>> /\ torn' = torn \cup {c}
        BY <2>5, <3>1 DEF Discard, storageVars
      <4>2. \A row \in rows' : \E old \in rows :
              row.id = old.id /\ (row.url => old.url \/ (row.id = c /\ pc[c] = "attach" /\ c \in torn'))
        BY <2>1, <2>5, <4>1, AttachedRows
      <4>3. /\ torn \subseteq torn' /\ \A row \in rows' : row.url /\ row.id \in {c} => row.id \in torn'
        BY <4>1
      <4>4. {c} \in SUBSET Call /\ \A k \in {c} : k = c \/ pc[k] \notin Early
        OBVIOUS
      <4>5. QED BY <4>1, <4>2, <4>3, <4>4, DanglingDiscard
    <3>2. CASE c \notin Cleans
      BY <2>3, <2>5, <3>2 DEF Discard, Forsake, Tell
    <3>3. QED BY <3>1, <3>2
  <2>6. QED BY <1>5, <2>3, <2>4, <2>5 DEF AttachScreenshot, Tell, storageVars
<1>6. ASSUME NEW c \in Call, DeleteFeedback(c) PROVE DanglingInv'
  <2> DEFINE found == {row \in rows : row.id = op[c].id}
  <2>1. Urls(found) \in SUBSET Call /\ \A row \in rows \ found : row.id \notin Urls(found)
    BY UrlsType, <1>u
  <2>2. \A k \in Urls(found) : pc[k] \notin Early
    BY <1>u DEF DanglingInv, UrlsAttached
  <2>3. /\ UNCHANGED torn
        /\ \/ Keep(rows \ found) /\ Discard(c, Urls(found), IF found = {} THEN "missing" ELSE "deleted")
           \/ Keep(rows \ found) /\ Forsake(Urls(found)) /\ Tell(c, "error")
           \/ Keep(rows) /\ UNCHANGED storageVars /\ Tell(c, "error")
    BY <1>6 DEF DeleteFeedback, found
  <2> HIDE DEF found
  <2>4. CASE Keep(rows \ found) /\ Discard(c, Urls(found), IF found = {} THEN "missing" ELSE "deleted")
    <3>1. CASE c \in Cleans /\ Urls(found) # {}
      <4>1. /\ pc' = [pc EXCEPT ![c] = "remove"] /\ pending' = [pending EXCEPT ![c] = Urls(found)]
            /\ UNCHANGED <<objects, handed>> /\ rows' = rows \ found
        BY <2>4, <3>1 DEF Discard, storageVars, Keep
      <4>2. QED BY <2>1, <2>2, <2>3, <4>1, DanglingDiscard
    <3>2. CASE ~(c \in Cleans /\ Urls(found) # {})
      <4>1. Tell(c, IF found = {} THEN "missing" ELSE "deleted") /\ UNCHANGED <<objects, handed>> /\ rows' \subseteq rows
        BY <2>4, <3>2 DEF Discard, Forsake, Keep
      <4>2. QED BY <2>3, <4>1, <1>t
    <3>3. QED BY <3>1, <3>2
  <2>5. CASE rows' \subseteq rows /\ UNCHANGED <<objects, handed>> /\ Tell(c, "error")
    BY <2>3, <2>5, <1>t
  <2>6. QED BY <2>3, <2>4, <2>5 DEF Keep, Forsake, storageVars
<1>7. ASSUME NEW c \in Call, StoredScreenshotUrls(c) PROVE DanglingInv'
  <2>1. pc[c] = "read" /\ UNCHANGED <<rows, torn, objects, handed>>
    BY <1>7 DEF StoredScreenshotUrls, storageVars
  <2>2. CASE Tell(c, "error")
    BY <2>1, <2>2, <1>t
  <2>3. CASE pending' = [pending EXCEPT ![c] = Referenced] /\ pc' = [pc EXCEPT ![c] = "sweep"]
    <3>1. /\ pc'[c] = "sweep" /\ pending'[c] = Referenced
          /\ \A d \in Call \ {c} : pc'[d] = pc[d] /\ pending'[d] = pending[d]
      BY <2>3 DEF TypeOK
    <3>2. \A k \in Referenced : k \in Call /\ pc[k] \notin Early
      BY <1>u, UrlsType DEF Referenced, DanglingInv, UrlsAttached
    <3>3. /\ \A row \in rows : row.id \in Call
          /\ handed \subseteq Call /\ \A d \in Call : pending[d] \subseteq Call
      BY DEF TypeOK, StorageTypeOK, Row
    <3>4. UrlsAttached' /\ PastAttach' /\ Uploaded'
      BY <2>1, <3>1, <3>2, <3>3 DEF DanglingInv, UrlsAttached, PastAttach, Uploaded, Early
    <3>5. Removable'
      BY <2>1, <3>1 DEF DanglingInv, Removable
    <3>6. QED BY <3>4, <3>5 DEF DanglingInv
  <2>4. QED BY <1>7, <2>2, <2>3 DEF StoredScreenshotUrls
<1>8. ASSUME NEW c \in Call, DeleteAllFeedbacks(c) PROVE DanglingInv'
  <2>1. pc[c] = "sweep" /\ UNCHANGED <<torn, objects, handed>>
    BY <1>8 DEF DeleteAllFeedbacks, Forsake
  <2>2. CASE Keep({}) /\ UNCHANGED pending /\ pc' = [pc EXCEPT ![c] = IF pending[c] = {} THEN "done" ELSE "remove"]
    <3>1. pc'[c] \in {"done", "remove"} /\ \A d \in Call \ {c} : pc'[d] = pc[d]
      BY <2>2 DEF TypeOK
    <3>2. rows' = {}
      BY <2>2 DEF Keep
    <3>3. UrlsAttached' /\ Removable'
      BY <3>2 DEF UrlsAttached, Removable
    <3>4. PastAttach' /\ Uploaded'
      BY <2>1, <2>2, <3>1 DEF DanglingInv, PastAttach, Uploaded, Early, TypeOK, StorageTypeOK
    <3>5. QED BY <3>3, <3>4 DEF DanglingInv
  <2>3. CASE rows' \subseteq rows /\ pc' = [pc EXCEPT ![c] = "done"] /\ pending' = [pending EXCEPT ![c] = {}]
    <3>1. \A d \in Call : pending'[d] \subseteq pending[d]
      BY <2>3 DEF TypeOK
    <3>2. QED BY <2>1, <2>3, <3>1, DanglingMove DEF Place, Early
  <2>4. QED BY <1>8, <2>2, <2>3 DEF DeleteAllFeedbacks, Keep
<1>9. ASSUME NEW c \in Call, DiscardScreenshot(c) PROVE DanglingInv'
  <2> PICK url \in pending[c] : /\ Remove(url) \/ RemoveFails(url)
                                /\ pending' = [pending EXCEPT ![c] = @ \ {url}]
                                /\ pc' = [pc EXCEPT ![c] = IF pending[c] = {url} THEN "done" ELSE "remove"]
    BY <1>9 DEF DiscardScreenshot
  <2>1. /\ pc[c] = "remove" /\ UNCHANGED <<rows, torn, handed>> /\ url \in Call
        /\ objects \ {url} \subseteq objects'
    BY <1>9 DEF DiscardScreenshot, Remove, RemoveFails, TypeOK
  <2>2. /\ pc'[c] \in {"done", "remove"} /\ \A d \in Call \ {c} : pc'[d] = pc[d]
        /\ \A d \in Call : pending'[d] \subseteq pending[d]
    BY DEF TypeOK
  <2>3. pc[url] \notin Early /\ \A row \in rows : row.url /\ row.id = url => url \in torn
    BY <2>1 DEF DanglingInv, PastAttach, Removable
  <2>4. UrlsAttached' /\ PastAttach' /\ Uploaded'
    BY <2>1, <2>2, <2>3 DEF DanglingInv, UrlsAttached, PastAttach, Uploaded, Early, TypeOK, StorageTypeOK, Row
  <2>5. Removable'
    BY <2>1, <2>2, <2>3 DEF DanglingInv, Removable
  <2>6. QED BY <2>4, <2>5 DEF DanglingInv
<1>10. ASSUME NEW c \in Call, FindComment(c) PROVE DanglingInv'
  BY <1>10, <1>t, <1>g DEF FindComment, storageVars, Early
<1>11. ASSUME NEW c \in Call, CountComments(c) PROVE DanglingInv'
  BY <1>11, <1>t, <1>g DEF CountComments, storageVars, Early
<1>12. ASSUME NEW c \in Call, InsertComment(c) PROVE DanglingInv'
  BY <1>12, <1>t, <1>g DEF InsertComment, storageVars, Early
<1>13. ASSUME NEW c \in Call, RereadComment(c) PROVE DanglingInv'
  BY <1>13, <1>t DEF RereadComment, storageVars
<1>14. ASSUME NEW c \in Call, RemoveComment(c) PROVE DanglingInv'
  BY <1>14, <1>t DEF RemoveComment, storageVars
<1>15. ASSUME NEW c \in Call, Crash(c) PROVE DanglingInv'
  <2>1. /\ UNCHANGED <<rows, torn, objects, handed>> /\ pc' = [pc EXCEPT ![c] = "done"]
        /\ \A d \in Call : pending'[d] \subseteq pending[d]
    BY <1>15 DEF Crash, TypeOK
  <2>2. QED BY <2>1, DanglingMove DEF Place, Early
<1>16. ASSUME NEW c \in Call, Outside(c) PROVE DanglingInv'
  <2>1. UNCHANGED <<rows, pc, pending, torn>>
    BY <1>16 DEF Outside, callVars
  <2>2. CASE Land(c)
    BY <2>1, <2>2 DEF Land, DanglingInv, UrlsAttached, PastAttach, Removable, Uploaded
  <2>3. CASE RemoveHanded(c)
    BY <2>1, <2>3 DEF RemoveHanded, DanglingInv, UrlsAttached, PastAttach, Removable, Uploaded, Early
  <2>4. QED BY <1>16, <2>2, <2>3 DEF Outside
<1>17. ASSUME UNCHANGED vars PROVE DanglingInv'
  BY <1>17 DEF vars, callVars, storageVars, DanglingInv, UrlsAttached, PastAttach, Removable, Uploaded
<1>18. QED
  BY <1>1, <1>2, <1>3, <1>4, <1>5, <1>6, <1>7, <1>8, <1>9, <1>10, <1>11, <1>12, <1>13, <1>14, <1>15, <1>16, <1>17
  DEF Next

\* A row shows the url of an object that exists, but where its attach was
\* reported as failed after it took effect.
THEOREM NoDanglingUrls == Spec => []NoDangling
<1>1. DanglingInv => NoDangling
  BY DEF DanglingInv, Removable, NoDangling, Referenced, Urls
<1>2. QED BY TypeInit, TypeStep, DanglingInit, DanglingStep, <1>1, PTL DEF Spec
-----------------------------------------------------------------------------
\* The call c was counted in the thread f and is about to insert.
Posts(c, f) == pc[c] = "post" /\ op[c].id = f /\ op[c].role = "client"

\* A thread nobody was crowded in has one post at most under way, and room for it.
CapInv ==
  /\ IsFiniteSet(comments)
  /\ \A f \in Call \ crowded :
       /\ Cardinality(ClientComments(f)) <= Cap
       /\ \A c \in Call : Posts(c, f) => /\ Cardinality(ClientComments(f)) < Cap
                                         /\ \A d \in Call : Posts(d, f) => d = c

\* A thread has a number of client comments, which falls with the comments.
LEMMA ThreadCount ==
  ASSUME IsFiniteSet(comments), NEW f, NEW some, some \subseteq comments
  PROVE  LET left == {m \in some : m.feedback = f /\ m.role = "client"}
         IN  /\ IsFiniteSet(left) /\ Cardinality(left) \in Nat
             /\ Cardinality(left) <= Cardinality(ClientComments(f)) /\ Cardinality(ClientComments(f)) \in Nat
<1> DEFINE left == {m \in some : m.feedback = f /\ m.role = "client"}
<1>1. left \subseteq ClientComments(f) /\ ClientComments(f) \subseteq comments
  BY DEF ClientComments
<1>2. IsFiniteSet(ClientComments(f))
  BY <1>1, FS_Subset
<1>3. IsFiniteSet(left) /\ Cardinality(left) <= Cardinality(ClientComments(f))
  BY <1>1, <1>2, FS_Subset
<1>4. QED BY <1>2, <1>3, FS_CardinalityType

\* A step that adds no comment and counts no post keeps the cap.
LEMMA CapMove ==
  ASSUME TypeOK, CapInv, comments' \subseteq comments, crowded \subseteq crowded',
         \A c, f \in Call : Posts(c, f)' => Posts(c, f)
  PROVE  CapInv'
<1>1. IsFiniteSet(comments')
  BY FS_Subset DEF CapInv
<1>2. ASSUME NEW f \in Call \ crowded'
      PROVE  Cardinality(ClientComments(f)') <= Cardinality(ClientComments(f))
             /\ Cardinality(ClientComments(f)') \in Nat /\ Cardinality(ClientComments(f)) \in Nat
  BY ThreadCount DEF ClientComments, CapInv
<1>3. ASSUME NEW f \in Call \ crowded'
      PROVE  /\ Cardinality(ClientComments(f)') <= Cap
             /\ \A c \in Call : Posts(c, f)' => /\ Cardinality(ClientComments(f)') < Cap
                                                /\ \A d \in Call : Posts(d, f)' => d = c
  <2>1. f \in Call \ crowded
    OBVIOUS
  <2>2. QED BY <1>2, <2>1, PrismaAssumption DEF CapInv
<1>4. QED BY <1>1, <1>3, Zenon DEF CapInv

\* At first threads are empty.
LEMMA CapInit == Init => CapInv
<1> SUFFICES ASSUME Init PROVE CapInv
  OBVIOUS
<1>1. comments = {} /\ \A c \in Call : pc[c] = "new"
  BY DEF Init
<1>2. \A f : ClientComments(f) = {}
  BY <1>1 DEF ClientComments
<1>3. QED BY <1>1, <1>2, FS_EmptySet, PrismaAssumption DEF CapInv, Posts

\* No step fills a thread past the cap, but where two posts are counted together.
LEMMA CapStep == TypeInv /\ CapInv /\ [Next]_vars => CapInv'
<1> SUFFICES ASSUME TypeInv, CapInv, [Next]_vars PROVE CapInv'
  OBVIOUS
<1>0. TypeOK
  BY DEF TypeInv
<1> USE <1>0
\* The calls but c stay where they are, and c is not about to insert.
<1>m. ASSUME NEW c \in Call, NEW place \in Place \ {"post"}, pc' = [pc EXCEPT ![c] = place],
             \A d \in Call \ {c} : op'[d] = op[d], comments' \subseteq comments, crowded \subseteq crowded'
      PROVE  CapInv'
  <2>1. \A d, f \in Call : Posts(d, f)' => Posts(d, f)
    BY <1>m DEF Posts, TypeOK
  <2>2. QED BY <1>m, <2>1, CapMove
<1>k. ASSUME NEW some, Keep(some) PROVE comments' \subseteq comments
  BY <1>k DEF Keep, Kept
<1>1. ASSUME NEW c \in Call, NEW r \in plan[c], Ask(c, r) PROVE CapInv'
  <2>1. r \in Request
    BY PrismaAssumption DEF TypeOK
  <2> DEFINE place == IF r.kind # "deleteAll" THEN First[r.kind] ELSE IF c \in Cleans THEN "read" ELSE "sweep"
  <2>2. place \in Place \ {"post"}
    BY <2>1 DEF Request, Place, First
  <2>3. pc' = [pc EXCEPT ![c] = place] /\ op' = [op EXCEPT ![c] = r] /\ UNCHANGED <<comments, crowded>>
    BY <1>1 DEF Ask
  <2> HIDE DEF place
  <2>4. QED BY <2>2, <2>3, <1>m DEF TypeOK
<1>2. ASSUME NEW c \in Call, InsertFeedback(c) PROVE CapInv'
  BY <1>2, <1>m DEF InsertFeedback, Go, Tell, Place
<1>3. ASSUME NEW c \in Call, UploadScreenshot(c) PROVE CapInv'
  BY <1>3, <1>m DEF UploadScreenshot, Go, Tell, Place
<1>4. ASSUME NEW c \in Call, ReclaimUpload(c) PROVE CapInv'
  BY <1>4, <1>m DEF ReclaimUpload, Tell, Place
<1>5. ASSUME NEW c \in Call, AttachScreenshot(c) PROVE CapInv'
  BY <1>5, <1>m DEF AttachScreenshot, Discard, Tell, Place
<1>6. ASSUME NEW c \in Call, DeleteFeedback(c) PROVE CapInv'
  <2>1. comments' \subseteq comments /\ UNCHANGED <<op, crowded>>
    BY <1>6, <1>k DEF DeleteFeedback, Discard, Tell
  <2>2. \E place \in {"remove", "done"} : pc' = [pc EXCEPT ![c] = place]
    BY <1>6 DEF DeleteFeedback, Discard, Tell
  <2>3. QED BY <2>1, <2>2, <1>m DEF Place
<1>7. ASSUME NEW c \in Call, StoredScreenshotUrls(c) PROVE CapInv'
  BY <1>7, <1>m DEF StoredScreenshotUrls, Tell, Place
<1>8. ASSUME NEW c \in Call, DeleteAllFeedbacks(c) PROVE CapInv'
  <2>1. comments' \subseteq comments /\ UNCHANGED <<op, crowded>>
    BY <1>8, <1>k DEF DeleteAllFeedbacks
  <2>2. \E place \in {"remove", "done"} : pc' = [pc EXCEPT ![c] = place]
    BY <1>8 DEF DeleteAllFeedbacks
  <2>3. QED BY <2>1, <2>2, <1>m DEF Place
<1>9. ASSUME NEW c \in Call, DiscardScreenshot(c) PROVE CapInv'
  <2>1. \E place \in {"remove", "done"} : pc' = [pc EXCEPT ![c] = place]
    BY <1>9 DEF DiscardScreenshot
  <2>2. UNCHANGED <<comments, op, crowded>>
    BY <1>9 DEF DiscardScreenshot
  <2>3. QED BY <2>1, <2>2, <1>m DEF Place
<1>10. ASSUME NEW c \in Call, FindComment(c) PROVE CapInv'
  <2>1. UNCHANGED <<comments, op, crowded>>
    BY <1>10 DEF FindComment, Go, Tell
  <2>2. CASE \E place \in {"count", "done"} : pc' = [pc EXCEPT ![c] = place]
    BY <2>1, <2>2, <1>m DEF Place
  <2>3. CASE op[c].role # "client" /\ pc' = [pc EXCEPT ![c] = "post"]
    <3>1. \A d, f \in Call : Posts(d, f)' => Posts(d, f)
      BY <2>1, <2>3 DEF Posts, TypeOK
    <3>2. QED BY <2>1, <3>1, CapMove
  <2>4. QED BY <1>10, <2>2, <2>3 DEF FindComment, Go, Tell
<1>11. ASSUME NEW c \in Call, CountComments(c) PROVE CapInv'
  <2>1. UNCHANGED <<comments, op>> /\ crowded \subseteq crowded'
    BY <1>11 DEF CountComments, Go, Tell
  <2>2. CASE Tell(c, "full") \/ Tell(c, "error")
    BY <2>1, <2>2, <1>m DEF Tell, Place
  <2>3. CASE /\ Cardinality(ClientComments(op[c].id)) < Cap /\ Go(c, "post")
             /\ crowded' = IF Rivals(c) # {} THEN crowded \cup {op[c].id} ELSE crowded
    <3>1. pc' = [pc EXCEPT ![c] = "post"]
      BY <2>3 DEF Go
    <3>2. \A d, f \in Call : Posts(d, f)' => Posts(d, f) \/ (d = c /\ f = op[c].id)
      BY <2>1, <3>1 DEF Posts, TypeOK
    <3>3. op[c].id \in Call \ crowded' => \A d \in Call \ {c} : ~Posts(d, op[c].id)
      BY <2>3 DEF Rivals, Posts
    <3>4. \A f : ClientComments(f)' = ClientComments(f)
      BY <2>1 DEF ClientComments
    <3>5. ASSUME NEW f \in Call \ crowded'
          PROVE  /\ Cardinality(ClientComments(f)) <= Cap
                 /\ \A d \in Call : Posts(d, f)' => /\ Cardinality(ClientComments(f)) < Cap
                                                    /\ \A e \in Call : Posts(e, f)' => e = d
      <4>1. f \in Call \ crowded
        BY <2>1
      <4>2. CASE f = op[c].id
        BY <2>3, <3>2, <3>3, <4>1, <4>2 DEF CapInv
      <4>3. CASE f # op[c].id
        BY <3>2, <4>1, <4>3 DEF CapInv
      <4>4. QED BY <4>2, <4>3
    <3>6. QED BY <2>1, <3>4, <3>5 DEF CapInv
  <2>4. QED BY <1>11, <2>2, <2>3 DEF CountComments
<1>12. ASSUME NEW c \in Call, InsertComment(c) PROVE CapInv'
  <2>1. pc[c] = "post" /\ UNCHANGED <<op, crowded>>
    BY <1>12 DEF InsertComment, Go, Tell
  <2> DEFINE new == [id |-> c, feedback |-> op[c].id, clientId |-> op[c].clientId, role |-> op[c].role]
  <2>2. \E place \in {"reread", "done"} : pc' = [pc EXCEPT ![c] = place]
    BY <1>12 DEF InsertComment, Go, Tell
  <2>3. CASE UNCHANGED comments
    BY <2>1, <2>2, <2>3, <1>m DEF Place
  <2>4. CASE comments' = comments \cup {new}
    <3>1. \A d, f \in Call : Posts(d, f)' => Posts(d, f) /\ d # c
      BY <2>1, <2>2 DEF Posts, TypeOK
    <3>2. IsFiniteSet(comments')
      BY <2>4, FS_AddElement DEF CapInv
    <3>3. new.feedback = op[c].id /\ new.role = op[c].role
      OBVIOUS
    <3> HIDE DEF new
    <3>4. ASSUME NEW f \in Call \ crowded'
          PROVE  /\ Cardinality(ClientComments(f)') <= Cap
                 /\ \A d \in Call : Posts(d, f)' => /\ Cardinality(ClientComments(f)') < Cap
                                                    /\ \A e \in Call : Posts(e, f)' => e = d
      <4>1. f \in Call \ crowded
        BY <2>1
      <4>2. CASE Posts(c, f)
        <5>1. ClientComments(f)' = ClientComments(f) \cup {new}
          BY <2>4, <3>3, <4>2 DEF ClientComments, Posts
        <5>2. IsFiniteSet(ClientComments(f)) /\ Cardinality(ClientComments(f)) \in Nat
          <6>1. ClientComments(f) \subseteq comments /\ IsFiniteSet(comments)
            BY DEF CapInv, ClientComments
          <6>2. IsFiniteSet(ClientComments(f))
            BY <6>1, FS_Subset
          <6>3. QED BY <6>2, FS_CardinalityType
        <5>3. Cardinality(ClientComments(f)) < Cap /\ \A d \in Call : Posts(d, f) => d = c
          BY <4>1, <4>2 DEF CapInv
        <5>4. Cardinality(ClientComments(f)') <= Cardinality(ClientComments(f)) + 1
          <6> DEFINE some == ClientComments(f)
          <6>1. Cardinality(some \cup {new}) = IF new \in some THEN Cardinality(some) ELSE Cardinality(some) + 1
            BY <5>2, FS_AddElement, Zenon
          <6> HIDE DEF some
          <6>2. Cardinality(some \cup {new}) <= Cardinality(some) + 1
            BY <5>2, <6>1 DEF some
          <6>3. QED BY <5>1, <6>2 DEF some
        <5>5. Cardinality(ClientComments(f)') \in Nat
          BY <5>1, <5>2, FS_AddElement, FS_CardinalityType
        <5>6. QED BY <3>1, <5>2, <5>3, <5>4, <5>5, PrismaAssumption
      <4>3. CASE ~Posts(c, f)
        <5>1. ClientComments(f)' = ClientComments(f)
          BY <2>1, <2>4, <3>3, <4>3 DEF ClientComments, Posts
        <5>2. QED BY <3>1, <4>1, <5>1 DEF CapInv
      <4>4. QED BY <4>2, <4>3
    <3>5. QED BY <3>2, <3>4, Zenon DEF CapInv
  <2>5. QED BY <1>12, <2>3, <2>4 DEF InsertComment, new
<1>13. ASSUME NEW c \in Call, RereadComment(c) PROVE CapInv'
  BY <1>13, <1>m DEF RereadComment, Tell, Place
<1>14. ASSUME NEW c \in Call, RemoveComment(c) PROVE CapInv'
  <2>1. comments' \subseteq comments /\ UNCHANGED <<op, crowded>> /\ pc' = [pc EXCEPT ![c] = "done"]
    BY <1>14 DEF RemoveComment, Tell
  <2>2. QED BY <2>1, <1>m DEF Place
<1>15. ASSUME NEW c \in Call, Crash(c) PROVE CapInv'
  BY <1>15, <1>m DEF Crash, Place
<1>16. ASSUME NEW c \in Call, Outside(c) PROVE CapInv'
  BY <1>16, CapMove DEF Outside, callVars, Posts
<1>17. ASSUME UNCHANGED vars PROVE CapInv'
  BY <1>17, CapMove DEF vars, callVars, Posts
<1>18. QED
  BY <1>1, <1>2, <1>3, <1>4, <1>5, <1>6, <1>7, <1>8, <1>9, <1>10, <1>11, <1>12, <1>13, <1>14, <1>15, <1>16, <1>17
  DEF Next

\* A thread never holds more client comments than the cap, whatever the posts,
\* replays, deletions and failures, unless two posts were counted together.
THEOREM CapNeverExceeded == Spec => []CapHeld
<1>1. CapInv => CapHeld
  BY DEF CapInv, CapHeld
<1>2. QED BY TypeInit, TypeStep, CapInit, CapStep, <1>1, PTL DEF Spec
=============================================================================
