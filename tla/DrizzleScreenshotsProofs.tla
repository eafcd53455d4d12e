----------------------- MODULE DrizzleScreenshotsProofs -----------------------
(***************************************************************************)
(* What holds of DrizzleScreenshots for any number of calls and rows.      *)
(***************************************************************************)
EXTENDS DrizzleScreenshots, FiniteSetTheorems, TLAPS

CreateRequest == [kind : {"create"}, clientId : ClientId, screenshot : BOOLEAN]
Creating == {"lookup", "upload", "reclaim", "insert", "winner"}

\* Only a creation is where creations are.
Placed == \A c \in Call : pc[c] \in Creating => op[c] \in CreateRequest

TypeInv == TypeOK /\ Placed

Early == {"new", "lookup", "upload", "reclaim"}

\* An uncertain put is somebody's until it has landed or is known not to.
UnderwayHeld ==
  \A k \in underway : pc[k] = "reclaim" \/ k \in handed \/ k \in forsaken

\* Only the uploads that succeeded have a url, and only from then on.
UrlsUploaded ==
  /\ \A c \in Call : pc[c] \in Early => ~shot[c]
  /\ \A k \in handed : pc[k] \notin Early /\ ~shot[k]
  /\ \A row \in rows \cup inserting :
       /\ pc[row.id] \notin Early \cup {"insert"}
       /\ row.url => shot[row.id]

\* What is to be discarded belongs to a call past its insert, and to none that
\* may still commit.
PendingPast ==
  \A d \in Call : \A u \in pending[d] :
    /\ pc[u] \notin Early \cup {"insert"}
    /\ \A row \in inserting : row.id # u

\* An id is inserted once.
OneInsert ==
  \A row \in inserting :
    /\ row.id \notin Cleans
    /\ \A other \in rows \cup inserting : other.id = row.id => other = row
    /\ row \notin rows

\* The url a row has, or is about to have, keeps its object.
Kept ==
  /\ \A row \in rows \cup inserting :
       row.url => /\ row.id \in objects
                  /\ \A d \in Call : pc[d] = "remove" => row.id \notin pending[d]
  /\ \A c \in Call : pc[c] = "insert" /\ shot[c] => c \in objects

\* A call has urls to discard only while it discards them.
PendingPlaced == \A c \in Call : pc[c] \notin {"check", "remove"} => pending[c] = {}

OrphanInv == PendingPlaced /\ UnderwayHeld /\ NothingOrphaned
DanglingInv == UrlsUploaded /\ PendingPast /\ OneInsert /\ Kept
-----------------------------------------------------------------------------
LEMMA InfinityType == Infinity \in Nat
  BY StoreAssumption, FS_CardinalityType DEF Infinity

LEMMA RowsFinite ==
  ASSUME TypeOK
  PROVE  /\ Cardinality(rows) \in Nat
         /\ \A some : IsFiniteSet(rows \ some)
         /\ \A row : IsFiniteSet(rows \cup {row})
<1>1. IsFiniteSet(rows)
  BY DEF TypeOK
<1>2. \A row : IsFiniteSet(rows \cup {row})
  BY <1>1, FS_AddElement
<1>3. ASSUME NEW some PROVE IsFiniteSet(rows \ some)
  <2>1. rows \ some \subseteq rows
    OBVIOUS
  <2>2. QED BY <1>1, <2>1, FS_Subset
<1>4. QED
  BY <1>1, <1>2, <1>3, FS_CardinalityType

LEMMA UrlsType ==
  ASSUME TypeOK
  PROVE  /\ \A some \in SUBSET rows : Urls(some) \in SUBSET Call
         /\ \A c \in Call : Uploaded(c) \in SUBSET Call
         /\ Ids \in SUBSET Call
         /\ Removable \in SUBSET rows
  BY DEF TypeOK, Row, Urls, Ids, Removable, Uploaded

\* A call that goes on to discard urls stays well typed.
LEMMA DiscardKeepsType ==
  ASSUME TypeOK, Placed, NEW c \in Call, NEW urls \in SUBSET Call,
         NEW answer \in Answer \cup {None}, Discard(c, urls, answer),
         rows' \in SUBSET Row, IsFiniteSet(rows'), inserting' \in SUBSET Row,
         picked' \in [Call -> SUBSET Call], left' \in [Call -> Nat],
         UNCHANGED <<op, shot>>
  PROVE  TypeOK' /\ Placed'
<1>1. StorageTypeOK'
  BY DEF Discard, TypeOK, StorageTypeOK, storageVars, Forsake
<1>2. /\ pending' \in [Call -> SUBSET Call]
      /\ reply' \in [Call -> Answer \cup {None}]
      /\ \E place \in {"check", "chunk", "done"} : pc' = [pc EXCEPT ![c] = place]
  BY DEF Discard, Go, After, TypeOK
<1>3. QED BY <1>1, <1>2 DEF TypeOK, Placed, Place, Creating

LEMMA TypeInit == Init => TypeInv
  BY StoreAssumption, InfinityType, FS_EmptySet
  DEF Init, StorageInit, TypeInv, Placed, Creating, TypeOK, StorageTypeOK, Place

LEMMA TypeStep == TypeInv /\ [Next]_vars => TypeInv'
<1> SUFFICES ASSUME TypeInv, [Next]_vars PROVE TypeOK' /\ Placed'
  BY DEF TypeInv
<1>0. TypeOK /\ Placed
  BY DEF TypeInv
<1>1. ASSUME NEW c \in Call, NEW r \in Asks[c], Ask(c, r) PROVE TypeOK' /\ Placed'
  <2>1. r \in Request
    BY StoreAssumption
  <2> DEFINE place == CASE r.kind = "create" -> "lookup"
                        [] r.kind = "delete" -> "delete"
                        [] r.kind = "deleteAll" -> IF c \in Cleans THEN "chunk" ELSE "sweep"
  <2>2. place \in Place /\ (place \in Creating => r \in CreateRequest)
    BY <2>1 DEF Request, CreateRequest, Creating, Place
  <2>3. pc' = [pc EXCEPT ![c] = place] /\ op' = [op EXCEPT ![c] = r]
    BY <1>1 DEF Ask, Go
  <2> HIDE DEF place
  <2>4. TypeOK'
    BY <1>0, <1>1, <2>1, <2>2, <2>3 DEF Ask, TypeOK, StorageTypeOK, storageVars
  <2>5. Placed'
    BY <1>0, <2>2, <2>3 DEF Placed, TypeOK
  <2>6. QED BY <2>4, <2>5
<1>2. ASSUME NEW c \in Call, Lookup(c) PROVE TypeOK' /\ Placed'
  BY <1>0, <1>2 DEF Lookup, Tell, Go, Answer, TypeOK, StorageTypeOK, storageVars, Place, Placed, Creating
<1>3. ASSUME NEW c \in Call, Upload(c) PROVE TypeOK' /\ Placed'
  BY <1>0, <1>3 DEF Upload, Put, PutUncertain, Go, TypeOK, StorageTypeOK, storageVars, Place, Placed, Creating
<1>4. ASSUME NEW c \in Call, ReclaimUpload(c) PROVE TypeOK' /\ Placed'
  BY <1>0, <1>4 DEF ReclaimUpload, Reclaim, Go, TypeOK, StorageTypeOK, Place, Placed, Creating
<1>5. ASSUME NEW c \in Call, Insert(c) PROVE TypeOK' /\ Placed'
  <2>1. NewRow(c) \in Row
    BY <1>0, <1>5 DEF Insert, NewRow, Row, Placed, Creating, CreateRequest, TypeOK
  <2>2. rows' \subseteq Row /\ IsFiniteSet(rows')
    BY <1>0, <1>5, <2>1, RowsFinite DEF Insert, TypeOK
  <2>3. QED
    BY <1>0, <1>5, <2>2 DEF Insert, Tell, Go, Answer, TypeOK, StorageTypeOK, storageVars, Place, Placed, Creating
<1>6. ASSUME NEW c \in Call, InsertFails(c) PROVE TypeOK' /\ Placed'
  <2>1. NewRow(c) \in Row
    BY <1>0, <1>6 DEF InsertFails, NewRow, Row, Placed, Creating, CreateRequest, TypeOK
  <2>2. rows' \subseteq Row /\ IsFiniteSet(rows') /\ inserting' \subseteq Row
    BY <1>0, <1>6, <2>1, RowsFinite DEF InsertFails, TypeOK
  <2>3. Discard(c, Uploaded(c), "error") /\ UNCHANGED <<op, shot, picked, left>>
    BY <1>6 DEF InsertFails
  <2>4. /\ picked' \in [Call -> SUBSET Call] /\ left' \in [Call -> Nat]
        /\ Uploaded(c) \in SUBSET Call
    BY <1>0, <2>3, UrlsType DEF TypeOK
  <2>5. QED BY <1>0, <2>2, <2>3, <2>4, DiscardKeepsType DEF Answer
<1>7. ASSUME CommitLate PROVE TypeOK' /\ Placed'
  <2> PICK row \in inserting : rows' = rows \cup (IF Under(row.clientId) = {} THEN {row} ELSE {})
    BY <1>7 DEF CommitLate
  <2>1. rows' \subseteq Row /\ IsFiniteSet(rows')
    BY <1>0, RowsFinite DEF TypeOK
  <2>2. QED
    BY <1>0, <1>7, <2>1 DEF CommitLate, callVars, storageVars, TypeOK, StorageTypeOK, Placed
<1>8. ASSUME NEW c \in Call, Winner(c) PROVE TypeOK' /\ Placed'
  <2> PICK answer \in {"existing", "vanished", "error"} : Discard(c, Uploaded(c), answer)
    BY <1>8 DEF Winner
  <2>1. UNCHANGED <<rows, inserting, op, shot, picked, left>>
    BY <1>8 DEF Winner
  <2>2. /\ picked' \in [Call -> SUBSET Call] /\ left' \in [Call -> Nat]
        /\ rows' \in SUBSET Row /\ IsFiniteSet(rows') /\ inserting' \in SUBSET Row
        /\ Uploaded(c) \in SUBSET Call
    BY <1>0, <2>1, UrlsType DEF TypeOK
  <2>3. answer \in Answer \cup {None}
    BY DEF Answer
  <2>4. QED BY <1>0, <2>1, <2>2, <2>3, DiscardKeepsType
<1>9. ASSUME NEW c \in Call, DeleteById(c) PROVE TypeOK' /\ Placed'
  <2> DEFINE found == {row \in Removable : row.id = op[c].id}
  <2>1. found \in SUBSET rows /\ Urls(found) \in SUBSET Call
    BY <1>0, UrlsType
  <2>2. IsFiniteSet(rows \ found) /\ IsFiniteSet(rows)
    BY <1>0, RowsFinite DEF TypeOK
  <2> HIDE DEF found
  <2>3. \/ rows' = rows \ found /\ UNCHANGED <<op, shot, picked, left>>
           /\ Discard(c, Urls(found), IF found = {} THEN "missing" ELSE "deleted")
        \/ /\ rows' = rows /\ UNCHANGED storageVars /\ Tell(c, "error")
        \/ /\ rows' = rows \ found /\ Forsake(Urls(found)) /\ Tell(c, "error")
    BY <1>9 DEF DeleteById, found
  <2>4. UNCHANGED inserting
    BY <1>9 DEF DeleteById
  <2>5. CASE /\ rows' = rows \ found /\ UNCHANGED <<op, shot, picked, left>>
             /\ Discard(c, Urls(found), IF found = {} THEN "missing" ELSE "deleted")
    BY <1>0, <2>1, <2>2, <2>4, <2>5, DiscardKeepsType DEF Answer, TypeOK
  <2>6. CASE /\ rows' \in {rows, rows \ found} /\ Tell(c, "error")
             /\ UNCHANGED storageVars \/ Forsake(Urls(found))
    BY <1>0, <2>1, <2>2, <2>4, <2>6
    DEF Tell, Go, Forsake, Answer, TypeOK, StorageTypeOK, storageVars, Place, Placed, Creating
  <2>7. QED BY <2>3, <2>5, <2>6
<1>10. ASSUME NEW c \in Call, Sweep(c) PROVE TypeOK' /\ Placed'
  <2>1. IsFiniteSet(rows \ Removable) /\ IsFiniteSet(rows) /\ Urls(Removable) \in SUBSET Call
    BY <1>0, RowsFinite, UrlsType DEF TypeOK
  <2>2. StorageTypeOK' /\ rows' \in SUBSET Row /\ IsFiniteSet(rows')
    BY <1>0, <1>10, <2>1 DEF Sweep, Forsake, TypeOK, StorageTypeOK, storageVars
  <2>3. \E answer \in {"deleted", "error"} : Tell(c, answer)
    BY <1>10 DEF Sweep
  <2>4. UNCHANGED inserting
    BY <1>10 DEF Sweep
  <2>5. QED
    BY <1>0, <2>2, <2>3, <2>4 DEF Tell, Go, Answer, TypeOK, Place, Placed, Creating
<1>11. ASSUME NEW c \in Call, PickChunk(c) PROVE TypeOK' /\ Placed'
  BY <1>0, <1>11, UrlsType DEF PickChunk, Go, TypeOK, StorageTypeOK, storageVars, Place, Placed, Creating
<1>12. ASSUME NEW c \in Call, DeleteChunk(c) PROVE TypeOK' /\ Placed'
  <2> DEFINE chunk == {row \in Removable : row.id \in picked[c]}
  <2>1. chunk \in SUBSET rows /\ Urls(chunk) \in SUBSET Call
    BY <1>0, UrlsType
  <2>2. IsFiniteSet(rows \ chunk) /\ IsFiniteSet(rows)
    BY <1>0, RowsFinite DEF TypeOK
  <2>3. picked' \in [Call -> SUBSET Call] /\ UNCHANGED inserting
    BY <1>0, <1>12 DEF DeleteChunk, TypeOK
  <2>4. \/ /\ rows' = rows \ chunk /\ left' = [left EXCEPT ![c] = Infinity]
           /\ Discard(c, Urls(chunk), None) /\ UNCHANGED <<op, shot>>
        \/ /\ Go(c, "count") /\ UNCHANGED <<rows, op, shot, pending, left, reply, storageVars>>
        \/ /\ rows' \in {rows, rows \ chunk} /\ (UNCHANGED storageVars \/ Forsake(Urls(chunk)))
           /\ UNCHANGED <<left, op, shot, pending>>
           /\ Go(c, "done") /\ reply' = [reply EXCEPT ![c] = "error"]
    BY <1>12 DEF DeleteChunk
  <2> HIDE DEF chunk
  <2>5. CASE /\ rows' = rows \ chunk /\ left' = [left EXCEPT ![c] = Infinity]
             /\ Discard(c, Urls(chunk), None) /\ UNCHANGED <<op, shot>>
    <3>1. left' \in [Call -> Nat]
      BY <1>0, <2>5, InfinityType DEF TypeOK
    <3>2. QED BY <1>0, <2>1, <2>2, <2>3, <2>5, <3>1, DiscardKeepsType DEF TypeOK
  <2>6. CASE Go(c, "count") /\ UNCHANGED <<rows, op, shot, pending, left, reply, storageVars>>
    BY <1>0, <2>3, <2>6 DEF Go, TypeOK, StorageTypeOK, storageVars, Place, Placed, Creating
  <2>7. CASE /\ rows' \in {rows, rows \ chunk} /\ (UNCHANGED storageVars \/ Forsake(Urls(chunk)))
             /\ UNCHANGED <<left, op, shot, pending>>
             /\ Go(c, "done") /\ reply' = [reply EXCEPT ![c] = "error"]
    <3>1. StorageTypeOK'
      BY <1>0, <2>1, <2>7 DEF Forsake, TypeOK, StorageTypeOK, storageVars
    <3>2. rows' \in SUBSET Row /\ IsFiniteSet(rows')
      BY <1>0, <2>1, <2>2, <2>7 DEF TypeOK
    <3>3. /\ pc' \in [Call -> Place] /\ reply' \in [Call -> Answer \cup {None}]
          /\ op' \in [Call -> Request \cup {None}] /\ shot' \in [Call -> BOOLEAN]
          /\ pending' \in [Call -> SUBSET Call] /\ left' \in [Call -> Nat]
      BY <1>0, <2>7 DEF Go, Answer, TypeOK, Place
    <3>4. Placed'
      BY <1>0, <2>7 DEF Go, TypeOK, Placed, Creating
    <3>5. inserting' \in SUBSET Row
      BY <1>0, <2>3 DEF TypeOK
    <3>6. QED BY <2>3, <3>1, <3>2, <3>3, <3>4, <3>5 DEF TypeOK
  <2>8. QED BY <2>4, <2>5, <2>6, <2>7
<1>13. ASSUME NEW c \in Call, CountLeft(c) PROVE TypeOK' /\ Placed'
  BY <1>0, <1>13, RowsFinite
  DEF CountLeft, Tell, Go, Answer, TypeOK, StorageTypeOK, storageVars, Place, Placed, Creating
<1>14. ASSUME NEW c \in Call, CheckReferences(c) PROVE TypeOK' /\ Placed'
  BY <1>0, <1>14
  DEF CheckReferences, Go, After, Forsake, TypeOK, StorageTypeOK, storageVars, Place, Placed, Creating
<1>15. ASSUME NEW c \in Call, DeleteObject(c) PROVE TypeOK' /\ Placed'
  BY <1>0, <1>15
  DEF DeleteObject, Remove, RemoveFails, Go, After, TypeOK, StorageTypeOK, Place, Placed, Creating
<1>16. ASSUME NEW c \in Call, Crash(c) PROVE TypeOK' /\ Placed'
  BY <1>0, <1>16, UrlsType
  DEF Crash, Go, Answer, TypeOK, StorageTypeOK, Place, Placed, Creating
<1>17. ASSUME NEW key \in Call, Outside(key) PROVE TypeOK' /\ Placed'
  BY <1>0, <1>17
  DEF Outside, Land, RemoveHanded, callVars, TypeOK, StorageTypeOK, Placed
<1>18. ASSUME UNCHANGED vars PROVE TypeOK' /\ Placed'
  BY <1>0, <1>18 DEF vars, callVars, storageVars, TypeOK, StorageTypeOK, Placed
<1>19. QED
  BY <1>1, <1>2, <1>3, <1>4, <1>5, <1>6, <1>7, <1>8, <1>9, <1>10, <1>11, <1>12, <1>13, <1>14,
     <1>15, <1>16, <1>17, <1>18 DEF Next, Step

\* The types of the store and of the object storage.
THEOREM TypeCorrect == Spec => []TypeOK
<1>1. TypeInv => TypeOK
  BY DEF TypeInv
<1>2. QED BY TypeInit, TypeStep, <1>1, PTL DEF Spec
-----------------------------------------------------------------------------
LEMMA OrphanInit == Init => OrphanInv
  BY DEF Init, StorageInit, OrphanInv, PendingPlaced, UnderwayHeld, NothingOrphaned

\* Urls handed over to be discarded are held, or forsaken, afterwards; those
\* held before still are, but for the upload of the call itself.
LEMMA DiscardHolds ==
  ASSUME TypeOK, NEW c \in Call, NEW urls \in SUBSET Call, NEW answer,
         Discard(c, urls, answer), pending[c] = {},
         UNCHANGED shot, pc[c] \in {"insert", "winner"} => Uploaded(c) \subseteq urls,
         pc[c] # "reclaim"
  PROVE  /\ UNCHANGED <<objects, underway, handed>>
         /\ forsaken \subseteq forsaken'
         /\ urls \subseteq Held' \cup forsaken'
         /\ Held \subseteq Held' \cup forsaken'
         /\ UnderwayHeld => UnderwayHeld'
<1>1. /\ UNCHANGED <<objects, underway, handed>>
      /\ forsaken \subseteq forsaken'
      /\ \A d \in Call : d # c => pc'[d] = pc[d] /\ pending'[d] = pending[d]
      /\ urls \subseteq pending'[c] \cup forsaken'
  BY DEF Discard, Go, Forsake, storageVars, TypeOK
<1>2. urls \subseteq Held' \cup forsaken'
  BY <1>1 DEF Held
<1>3. ASSUME NEW key \in Held PROVE key \in Held' \cup forsaken'
  BY <1>1, <1>2 DEF Held, Uploaded, TypeOK
<1>4. QED BY <1>1, <1>2, <1>3 DEF UnderwayHeld, TypeOK, StorageTypeOK

\* A step that only moves a call, between places where it holds nothing, and
\* adds rows, leaves no orphan.
LEMMA QuietStep ==
  ASSUME TypeOK, OrphanInv, NEW c \in Call,
         UNCHANGED <<shot, pending, storageVars>>,
         \A d \in Call : d # c => pc'[d] = pc[d],
         pc[c] \notin {"check", "remove", "reclaim"},
         pc'[c] \notin {"check", "remove"},
         pc[c] \in {"insert", "winner"} /\ shot[c] => pc'[c] \in {"insert", "winner"} \/ c \in Referenced',
         Referenced \subseteq Referenced'
  PROVE  OrphanInv'
<1>1. PendingPlaced'
  BY DEF OrphanInv, PendingPlaced
<1>2. UnderwayHeld'
  BY DEF OrphanInv, UnderwayHeld, storageVars, TypeOK, StorageTypeOK
<1>3. ASSUME NEW key \in Held PROVE key \in Held' \cup Referenced'
  BY <1>3 DEF Held, storageVars
<1>4. NothingOrphaned'
  BY <1>3 DEF OrphanInv, NothingOrphaned, storageVars
<1>5. QED BY <1>1, <1>2, <1>4 DEF OrphanInv

\* A step that moves rows out and discards or forsakes their urls.
LEMMA DiscardStep ==
  ASSUME TypeOK, OrphanInv, NEW c \in Call, NEW urls \in SUBSET Call, NEW answer,
         Discard(c, urls, answer), pc[c] \notin {"check", "remove", "reclaim"},
         UNCHANGED shot, pc[c] \in {"insert", "winner"} => Uploaded(c) \subseteq urls,
         Referenced \subseteq Referenced' \cup urls
  PROVE  OrphanInv'
<1>1. pending[c] = {}
  BY DEF OrphanInv, PendingPlaced
<1>2. PendingPlaced'
  BY DEF OrphanInv, PendingPlaced, Discard, Go, After, TypeOK
<1>3. QED
  BY <1>1, <1>2, DiscardHolds DEF OrphanInv, NothingOrphaned

LEMMA OrphanStep == TypeInv /\ OrphanInv /\ [Next]_vars => OrphanInv'
<1> SUFFICES ASSUME TypeInv, OrphanInv, [Next]_vars PROVE OrphanInv'
  OBVIOUS
<1>0. TypeOK
  BY DEF TypeInv
<1>1. ASSUME NEW c \in Call, NEW r \in Asks[c], Ask(c, r) PROVE OrphanInv'
  <2>1. /\ UNCHANGED <<rows, shot, pending, storageVars>>
        /\ pc[c] = "new"
        /\ \E place \in {"lookup", "delete", "chunk", "sweep"} : pc' = [pc EXCEPT ![c] = place]
    <3>1. r \in Request
      BY StoreAssumption
    <3>2. QED BY <1>1, <3>1 DEF Ask, Go, Request, storageVars
  <2>2. QED BY <1>0, <2>1, QuietStep DEF TypeOK, Referenced, storageVars
<1>2. ASSUME NEW c \in Call, Lookup(c) PROVE OrphanInv'
  <2>1. /\ UNCHANGED <<rows, shot, pending, storageVars>>
        /\ pc[c] = "lookup"
        /\ \E place \in {"done", "upload", "insert"} : pc' = [pc EXCEPT ![c] = place]
    BY <1>2 DEF Lookup, Tell, Go, storageVars
  <2>2. QED BY <1>0, <2>1, QuietStep DEF TypeOK, Referenced, storageVars
<1>3. ASSUME NEW c \in Call, Upload(c) PROVE OrphanInv'
  <2> USE <1>0, <1>3 DEF Upload, Go, storageVars, TypeOK, StorageTypeOK
  <2>1. PendingPlaced'
    BY DEF OrphanInv, PendingPlaced
  <2>2. UnderwayHeld'
    BY DEF OrphanInv, UnderwayHeld, Put, PutUncertain
  <2>3. Held \subseteq Held' /\ objects' \subseteq objects \cup Held' /\ forsaken' = forsaken
    BY DEF Held, Put, PutUncertain
  <2>4. NothingOrphaned'
    BY <2>3 DEF OrphanInv, NothingOrphaned, Referenced
  <2>5. QED BY <2>1, <2>2, <2>4 DEF OrphanInv
<1>4. ASSUME NEW c \in Call, ReclaimUpload(c) PROVE OrphanInv'
  <2> USE <1>0, <1>4 DEF ReclaimUpload, Reclaim, Go, storageVars, TypeOK, StorageTypeOK
  <2>1. PendingPlaced'
    BY DEF OrphanInv, PendingPlaced
  <2>2. UnderwayHeld'
    BY DEF OrphanInv, UnderwayHeld
  <2>3. Held \subseteq Held' \cup forsaken' /\ objects' \subseteq objects /\ forsaken \subseteq forsaken'
    BY DEF Held
  <2>4. NothingOrphaned'
    BY <2>3 DEF OrphanInv, NothingOrphaned, Referenced
  <2>5. QED BY <2>1, <2>2, <2>4 DEF OrphanInv
<1>5. ASSUME NEW c \in Call, Insert(c) PROVE OrphanInv'
  <2>1. /\ UNCHANGED <<shot, pending, storageVars>>
        /\ pc[c] = "insert"
        /\ \E place \in {"done", "winner"} : pc' = [pc EXCEPT ![c] = place]
    BY <1>5 DEF Insert, Tell, Go, storageVars
  <2>2. Referenced \subseteq Referenced'
    BY <1>5 DEF Insert, Referenced, Urls
  <2>3. pc'[c] = "winner" \/ (shot[c] => c \in Referenced')
    <3>1. CASE NewRow(c) \in rows'
      <4>1. NewRow(c).id = c /\ NewRow(c).url = shot[c]
        BY DEF NewRow
      <4>2. QED BY <3>1, <4>1 DEF Referenced, Urls
    <3>2. CASE Go(c, "winner")
      BY <1>0, <3>2 DEF Go, TypeOK
    <3>3. QED BY <1>5, <3>1, <3>2 DEF Insert
  <2>4. QED BY <1>0, <2>1, <2>2, <2>3, QuietStep DEF TypeOK, storageVars
<1>6. ASSUME NEW c \in Call, InsertFails(c) PROVE OrphanInv'
  <2>1. Referenced \subseteq Referenced'
    BY <1>6 DEF InsertFails, Referenced, Urls
  <2>2. Discard(c, Uploaded(c), "error") /\ pc[c] = "insert" /\ UNCHANGED shot
    BY <1>6 DEF InsertFails
  <2>3. QED BY <1>0, <2>1, <2>2, UrlsType, DiscardStep
<1>7. ASSUME CommitLate PROVE OrphanInv'
  <2>1. Referenced \subseteq Referenced' /\ UNCHANGED <<callVars, storageVars>>
    BY <1>7 DEF CommitLate, Referenced, Urls
  <2>2. QED
    BY <2>1 DEF callVars, storageVars, OrphanInv, PendingPlaced, UnderwayHeld, NothingOrphaned, Held
<1>8. ASSUME NEW c \in Call, Winner(c) PROVE OrphanInv'
  <2>1. /\ \E answer : Discard(c, Uploaded(c), answer)
        /\ pc[c] = "winner" /\ UNCHANGED <<rows, shot>>
    BY <1>8 DEF Winner
  <2>2. QED BY <1>0, <2>1, UrlsType, DiscardStep DEF Referenced
\* Rows that go and leave their urls to nobody.
<1>9. ASSUME NEW c \in Call, NEW some \in SUBSET rows,
             rows' \in {rows, rows \ some},
             IF rows' = rows THEN UNCHANGED storageVars \/ Forsake(Urls(some)) ELSE Forsake(Urls(some)),
             UNCHANGED <<shot, pending>>,
             pc[c] \in {"delete", "sweep", "locked"}, pc' = [pc EXCEPT ![c] = "done"]
      PROVE  OrphanInv'
  <2>1. UNCHANGED <<objects, underway, handed>> /\ forsaken \subseteq forsaken'
    BY <1>9 DEF Forsake, storageVars
  <2>2. Referenced \subseteq Referenced' \cup forsaken'
    BY <1>9 DEF Referenced, Urls, Forsake
  <2>3. Held \subseteq Held'
    BY <1>0, <1>9, <2>1 DEF Held, TypeOK
  <2>4. PendingPlaced' /\ UnderwayHeld'
    BY <1>0, <1>9, <2>1 DEF OrphanInv, PendingPlaced, UnderwayHeld, TypeOK, StorageTypeOK
  <2>5. QED BY <2>1, <2>2, <2>3, <2>4 DEF OrphanInv, NothingOrphaned
<1>10. ASSUME NEW c \in Call, DeleteById(c) PROVE OrphanInv'
  <2> DEFINE found == {row \in Removable : row.id = op[c].id}
  <2>1. found \in SUBSET rows /\ Urls(found) \in SUBSET Call
    BY <1>0, UrlsType
  <2>2. pc[c] = "delete"
    BY <1>10 DEF DeleteById
  <2> HIDE DEF found
  <2>3. \/ /\ rows' = rows \ found /\ UNCHANGED shot
           /\ \E answer : Discard(c, Urls(found), answer)
        \/ /\ rows' = rows /\ UNCHANGED storageVars /\ Tell(c, "error")
        \/ /\ rows' = rows \ found /\ Forsake(Urls(found)) /\ Tell(c, "error")
    BY <1>10 DEF DeleteById, found
  <2>4. Referenced \subseteq Urls(rows \ found) \cup Urls(found)
    BY DEF Referenced, Urls
  <2>5. CASE rows' = rows \ found /\ UNCHANGED shot /\ \E answer : Discard(c, Urls(found), answer)
    <3>1. Referenced \subseteq Referenced' \cup Urls(found)
      BY <2>4, <2>5 DEF Referenced
    <3>2. QED BY <1>0, <2>1, <2>2, <2>5, <3>1, DiscardStep
  <2>6. CASE rows' = rows /\ UNCHANGED storageVars /\ Tell(c, "error")
    BY <1>9, <2>1, <2>2, <2>6 DEF Tell, Go
  <2>7. CASE rows' = rows \ found /\ Forsake(Urls(found)) /\ Tell(c, "error")
    BY <1>9, <2>1, <2>2, <2>7 DEF Tell, Go
  <2>8. QED BY <2>3, <2>5, <2>6, <2>7
<1>11. ASSUME NEW c \in Call, Sweep(c) PROVE OrphanInv'
  <2>1. Removable \in SUBSET rows
    BY <1>0, UrlsType
  <2>2. pc[c] = "sweep" /\ UNCHANGED <<shot, pending>> /\ pc' = [pc EXCEPT ![c] = "done"]
    BY <1>11 DEF Sweep, Tell, Go
  <2>3. \/ rows' = rows \ Removable /\ Forsake(Urls(Removable))
        \/ rows' = rows /\ UNCHANGED storageVars
    BY <1>11 DEF Sweep
  <2>4. QED BY <1>9, <2>1, <2>2, <2>3
<1>12. ASSUME NEW c \in Call, PickChunk(c) PROVE OrphanInv'
  <2>1. /\ UNCHANGED <<rows, shot, pending, storageVars>>
        /\ pc[c] = "chunk" /\ pc' = [pc EXCEPT ![c] = "locked"]
    BY <1>12 DEF PickChunk, Go, storageVars
  <2>2. QED BY <1>0, <2>1, QuietStep DEF TypeOK, Referenced, storageVars
<1>13. ASSUME NEW c \in Call, DeleteChunk(c) PROVE OrphanInv'
  <2> DEFINE chunk == {row \in Removable : row.id \in picked[c]}
  <2>1. chunk \in SUBSET rows /\ Urls(chunk) \in SUBSET Call
    BY <1>0, UrlsType
  <2>2. pc[c] = "locked" /\ UNCHANGED shot
    BY <1>13 DEF DeleteChunk
  <2>3. \/ rows' = rows \ chunk /\ Discard(c, Urls(chunk), None)
        \/ Go(c, "count") /\ UNCHANGED <<rows, pending, storageVars>>
        \/ rows' = rows /\ UNCHANGED <<storageVars, pending>> /\ Go(c, "done")
        \/ rows' = rows \ chunk /\ Forsake(Urls(chunk)) /\ UNCHANGED pending /\ Go(c, "done")
    BY <1>13 DEF DeleteChunk
  <2> HIDE DEF chunk
  <2>4. Referenced \subseteq Urls(rows \ chunk) \cup Urls(chunk)
    BY DEF Referenced, Urls
  <2>5. CASE rows' = rows \ chunk /\ Discard(c, Urls(chunk), None)
    <3>1. Referenced \subseteq Referenced' \cup Urls(chunk)
      BY <2>4, <2>5 DEF Referenced
    <3>2. QED BY <1>0, <2>1, <2>2, <2>5, <3>1, DiscardStep
  <2>6. CASE Go(c, "count") /\ UNCHANGED <<rows, pending, storageVars>>
    BY <1>0, <2>2, <2>6, QuietStep DEF Go, TypeOK, Referenced, storageVars
  <2>7. CASE rows' = rows /\ UNCHANGED <<storageVars, pending>> /\ Go(c, "done")
    BY <1>9, <2>1, <2>2, <2>7 DEF Go
  <2>8. CASE rows' = rows \ chunk /\ Forsake(Urls(chunk)) /\ UNCHANGED pending /\ Go(c, "done")
    BY <1>9, <2>1, <2>2, <2>8 DEF Go
  <2>9. QED BY <2>3, <2>5, <2>6, <2>7, <2>8
<1>14. ASSUME NEW c \in Call, CountLeft(c) PROVE OrphanInv'
  <2>1. /\ UNCHANGED <<rows, shot, pending, storageVars>>
        /\ pc[c] = "count"
        /\ \E place \in {"done", "chunk"} : pc' = [pc EXCEPT ![c] = place]
    BY <1>14 DEF CountLeft, Tell, Go, storageVars
  <2>2. QED BY <1>0, <2>1, QuietStep DEF TypeOK, Referenced, storageVars
<1>15. ASSUME NEW c \in Call, CheckReferences(c) PROVE OrphanInv'
  <2> USE <1>0, <1>15 DEF CheckReferences, Go, storageVars, TypeOK, StorageTypeOK
  <2>1. PendingPlaced'
    BY DEF OrphanInv, PendingPlaced, After
  <2>2. UNCHANGED <<rows, shot, objects, underway, handed>> /\ forsaken \subseteq forsaken'
    BY DEF Forsake
  <2>3. UnderwayHeld'
    BY <2>2 DEF OrphanInv, UnderwayHeld, After
  <2>4. pending[c] \subseteq pending'[c] \cup Referenced \cup forsaken'
    BY DEF Forsake
  <2>5. Held \subseteq Held' \cup Referenced \cup forsaken'
    BY <2>2, <2>4 DEF Held
  <2>6. NothingOrphaned'
    BY <2>2, <2>5 DEF OrphanInv, NothingOrphaned, Referenced
  <2>7. QED BY <2>1, <2>3, <2>6 DEF OrphanInv
<1>16. ASSUME NEW c \in Call, DeleteObject(c) PROVE OrphanInv'
  <2> PICK url \in pending[c] : /\ Remove(url) \/ RemoveFails(url)
                                /\ pending' = [pending EXCEPT ![c] = @ \ {url}]
                                /\ Go(c, IF pending[c] = {url} THEN After(reply[c]) ELSE "remove")
    BY <1>16 DEF DeleteObject
  <2> USE <1>0 DEF Go, TypeOK, StorageTypeOK
  <2>1. pc[c] = "remove" /\ UNCHANGED <<rows, shot>>
    BY <1>16 DEF DeleteObject
  <2>2. /\ UNCHANGED <<underway, handed>> /\ forsaken \subseteq forsaken'
        /\ objects' \subseteq objects
        /\ url \notin objects' \/ url \in forsaken'
    BY DEF Remove, RemoveFails
  <2>3. PendingPlaced'
    BY <2>1 DEF OrphanInv, PendingPlaced, After
  <2>4. UnderwayHeld'
    BY <2>1, <2>2 DEF OrphanInv, UnderwayHeld, After
  <2>5. Held \subseteq Held' \cup {url}
    BY <2>1, <2>2 DEF Held
  <2>6. NothingOrphaned'
    BY <2>1, <2>2, <2>5 DEF OrphanInv, NothingOrphaned, Referenced
  <2>7. QED BY <2>3, <2>4, <2>6 DEF OrphanInv
<1>17. ASSUME NEW c \in Call, Crash(c) PROVE OrphanInv'
  <2> USE <1>0, <1>17 DEF Crash, Go, TypeOK, StorageTypeOK
  <2>1. PendingPlaced'
    BY DEF OrphanInv, PendingPlaced
  <2>2. UNCHANGED <<rows, shot, objects, handed>> /\ forsaken \subseteq forsaken'
    OBVIOUS
  <2>3. UnderwayHeld'
    BY <2>2 DEF OrphanInv, UnderwayHeld
  <2>4. Held \subseteq Held' \cup forsaken'
    BY <2>2 DEF Held, Uploaded
  <2>5. NothingOrphaned'
    BY <2>2, <2>4 DEF OrphanInv, NothingOrphaned, Referenced
  <2>6. QED BY <2>1, <2>3, <2>5 DEF OrphanInv
<1>18. ASSUME NEW key \in Call, Outside(key) PROVE OrphanInv'
  <2> USE <1>0, <1>18 DEF Outside, callVars, TypeOK, StorageTypeOK
  <2>1. PendingPlaced'
    BY DEF OrphanInv, PendingPlaced
  <2>2. UNCHANGED <<rows, shot, pc, pending, forsaken>>
    BY DEF Land, RemoveHanded
  <2>3. CASE Land(key)
    <3>1. UnderwayHeld'
      BY <2>2, <2>3 DEF OrphanInv, UnderwayHeld, Land
    <3>2. Held' = Held /\ objects' \subseteq objects \cup {key} /\ key \in Held \cup forsaken
      BY <2>2, <2>3 DEF Held, Land, OrphanInv, UnderwayHeld
    <3>3. QED BY <2>1, <2>2, <3>1, <3>2 DEF OrphanInv, NothingOrphaned, Referenced
  <2>4. CASE RemoveHanded(key)
    <3>1. UnderwayHeld'
      BY <2>2, <2>4 DEF OrphanInv, UnderwayHeld, RemoveHanded
    <3>2. Held \subseteq Held' \cup {key} /\ objects' = objects \ {key}
      BY <2>2, <2>4 DEF Held, RemoveHanded
    <3>3. QED BY <2>1, <2>2, <3>1, <3>2 DEF OrphanInv, NothingOrphaned, Referenced
  <2>5. QED BY <2>3, <2>4
<1>19. ASSUME UNCHANGED vars PROVE OrphanInv'
  BY <1>19
  DEF vars, callVars, storageVars, OrphanInv, PendingPlaced, UnderwayHeld, NothingOrphaned,
      Held, Referenced
<1>20. QED
  BY <1>1, <1>2, <1>3, <1>4, <1>5, <1>6, <1>7, <1>8, <1>10, <1>11, <1>12, <1>13, <1>14, <1>15,
     <1>16, <1>17, <1>18, <1>19 DEF Next, Step

\* Whatever races, fails or dies, an object no row refers to is still being
\* dealt with, or a failure that was logged or answered left it.
THEOREM NoOrphans == Spec => []NothingOrphaned
<1>1. Init => TypeInv /\ OrphanInv
  BY TypeInit, OrphanInit
<1>2. TypeInv /\ OrphanInv /\ [Next]_vars => (TypeInv /\ OrphanInv)'
  BY TypeStep, OrphanStep
<1>3. OrphanInv => NothingOrphaned
  BY DEF OrphanInv
<1>4. QED BY <1>1, <1>2, <1>3, PTL DEF Spec
-----------------------------------------------------------------------------
LEMMA DanglingInit == Init => DanglingInv
  BY DEF Init, StorageInit, DanglingInv, UrlsUploaded, PendingPast, OneInsert, Kept, Early

\* A step that removes rows and no object, and hands over urls of calls past
\* their insert, keeps the object of every url.
LEMMA NothingRemoved ==
  ASSUME TypeOK, DanglingInv,
         rows' \subseteq rows, UNCHANGED <<inserting, shot>>,
         objects \subseteq objects', handed' \subseteq handed,
         \A d \in Call : pc'[d] \in Early => pc[d] \in Early,
         \A d \in Call : pc'[d] = "insert" => pc[d] \in Early \cup {"insert"},
         \A d \in Call : pc'[d] = "remove" => pc[d] = "remove" /\ pending'[d] \subseteq pending[d],
         \A d \in Call : \A u \in pending'[d] :
           u \in pending[d] \/ /\ pc'[u] \notin Early \cup {"insert"}
                               /\ \A row \in inserting : row.id # u
  PROVE  DanglingInv'
<1> USE DEF DanglingInv
<1>1. \A row \in rows \cup inserting : row.id \in Call
  BY DEF TypeOK, Row
<1>2. \A k \in handed : k \in Call
  BY DEF TypeOK, StorageTypeOK
<1>3. UrlsUploaded'
  BY <1>1, <1>2 DEF UrlsUploaded
<1>4. PendingPast'
  BY DEF PendingPast, TypeOK
<1>5. OneInsert'
  BY DEF OneInsert
<1>6. Kept'
  BY DEF Kept, UrlsUploaded
<1>7. QED BY <1>3, <1>4, <1>5, <1>6

\* The same of a step that moves one call.
LEMMA MoveKeeps ==
  ASSUME TypeOK, DanglingInv, NEW c \in Call, NEW place, pc' = [pc EXCEPT ![c] = place],
         rows' \subseteq rows, UNCHANGED <<inserting, shot>>,
         objects \subseteq objects', handed' \subseteq handed,
         pending' = pending \/ pending' = [pending EXCEPT ![c] = {}],
         place \in Early => pc[c] \in Early,
         place = "insert" => pc[c] \in Early,
         place # "remove"
  PROVE  DanglingInv'
<1>1. \A d \in Call : pending'[d] \subseteq pending[d]
  BY DEF TypeOK
<1>2. \A d \in Call : pc'[d] = IF d = c THEN place ELSE pc[d]
  BY DEF TypeOK
<1>3. QED BY <1>1, <1>2, NothingRemoved

LEMMA DiscardKeeps ==
  ASSUME TypeOK, DanglingInv, NEW c \in Call, NEW urls \in SUBSET Call, NEW answer,
         Discard(c, urls, answer), pc[c] \notin Early,
         rows' \subseteq rows, UNCHANGED <<inserting, shot>>,
         c \in Cleans => \A u \in urls : u # c => pc[u] \notin Early \cup {"insert"},
         c \in Cleans => \A u \in urls : \A row \in inserting : row.id # u
  PROVE  DanglingInv'
<1>1. /\ UNCHANGED <<objects, handed>>
      /\ \E place \in {"check", "chunk", "done"} : pc' = [pc EXCEPT ![c] = place]
      /\ pending' = pending \/ (c \in Cleans /\ pending' = [pending EXCEPT ![c] = urls])
  BY DEF Discard, Go, After, Forsake, storageVars
<1>2. \A d \in Call : d # c => pc'[d] = pc[d] /\ pending'[d] = pending[d]
  BY <1>1 DEF TypeOK
<1>3. pc'[c] \in {"check", "chunk", "done"}
  BY <1>1 DEF TypeOK
<1>4. pending'[c] = pending[c] \/ (c \in Cleans /\ pending'[c] = urls)
  BY <1>1 DEF TypeOK
<1>5. ASSUME NEW d \in Call, NEW u \in pending'[d]
      PROVE  u \in pending[d] \/ /\ pc'[u] \notin Early \cup {"insert"}
                                 /\ \A row \in inserting : row.id # u
  BY <1>2, <1>3, <1>4 DEF Early, TypeOK
<1>6. QED BY <1>1, <1>2, <1>3, <1>5, NothingRemoved DEF Early

\* The urls of rows are nobody's to insert.
LEMMA RowUrls ==
  ASSUME TypeOK, DanglingInv, NEW some \in SUBSET rows, NEW u \in Urls(some)
  PROVE  pc[u] \notin Early \cup {"insert"} /\ \A row \in inserting : row.id # u
  BY DEF DanglingInv, UrlsUploaded, OneInsert, Urls

\* A row that is inserted, or may still be, has its object.
LEMMA InsertKeeps ==
  ASSUME TypeOK, DanglingInv, NEW c \in Call, NEW place \in {"done", "check"},
         LateCommits \cap Cleans = {},
         pc[c] = "insert", pc' = [pc EXCEPT ![c] = place],
         \/ rows' \subseteq rows \cup {NewRow(c)} /\ inserting' = inserting
         \/ rows' = rows /\ inserting' = inserting \cup {NewRow(c)} /\ c \in LateCommits,
         UNCHANGED <<shot, objects, handed>>,
         pending' = pending \/ (c \in Cleans /\ pending' = [pending EXCEPT ![c] = Uploaded(c)])
  PROVE  DanglingInv'
<1> USE DEF DanglingInv
<1>1. NewRow(c).id = c /\ NewRow(c).url = shot[c]
  BY DEF NewRow
<1>2. /\ \A d \in Call : d # c => pc'[d] = pc[d] /\ pending'[d] = pending[d]
      /\ pc'[c] = place
      /\ \A u \in pending'[c] : u \in pending[c] \/ (c \in Cleans /\ u = c)
  BY DEF TypeOK, Uploaded
<1>3. \A row \in rows \cup inserting : row.id \in Call /\ row.id # c
  BY DEF TypeOK, Row, UrlsUploaded
<1>4. \A k \in handed : k \in Call
  BY DEF TypeOK, StorageTypeOK
<1>5. \A d \in Call : \A u \in pending[d] : u \in Call /\ u # c
  BY DEF TypeOK, PendingPast
<1>6. \A row \in rows' \cup inserting' : row \in rows \cup inserting \/ row = NewRow(c)
  OBVIOUS
<1>7. NewRow(c) \in inserting' => c \notin Cleans /\ rows' = rows
  BY <1>1, <1>3
<1>8. UrlsUploaded'
  BY <1>1, <1>2, <1>3, <1>4, <1>6 DEF UrlsUploaded, Early
<1>9. PendingPast'
  <2>1. ASSUME NEW d \in Call, NEW u \in pending'[d]
        PROVE  pc'[u] \notin Early \cup {"insert"} /\ \A row \in inserting' : row.id # u
    <3>1. CASE u \in pending[d]
      <4>1. pc'[u] = pc[u]
        BY <1>2, <1>5, <3>1
      <4>2. \A row \in inserting' : row.id # u
        BY <1>1, <1>5, <1>6, <3>1 DEF PendingPast
      <4>3. QED BY <3>1, <4>1, <4>2 DEF PendingPast
    <3>2. CASE d = c /\ c \in Cleans /\ u = c
      <4>1. inserting' = inserting
        BY <3>2
      <4>2. QED BY <1>2, <1>3, <3>2, <4>1 DEF Early
    <3>3. QED BY <1>2, <2>1, <3>1, <3>2
  <2>2. QED BY <2>1 DEF PendingPast
<1>10. OneInsert'
  BY <1>1, <1>3, <1>6, <1>7 DEF OneInsert
<1>11. Kept'
  <2>1. ASSUME NEW row \in rows' \cup inserting', row.url
        PROVE  row.id \in objects /\ \A d \in Call : pc'[d] = "remove" => row.id \notin pending'[d]
    <3>1. CASE row \in rows \cup inserting
      BY <1>2, <2>1, <3>1 DEF Kept
    <3>2. CASE row = NewRow(c)
      BY <1>1, <1>2, <1>5, <2>1, <3>2 DEF Kept
    <3>3. QED BY <1>6, <3>1, <3>2
  <2>2. \A d \in Call : pc'[d] = "insert" /\ shot'[d] => d \in objects'
    BY <1>2 DEF Kept
  <2>3. QED BY <2>1, <2>2 DEF Kept
<1>12. QED BY <1>8, <1>9, <1>10, <1>11

LEMMA DanglingStep ==
  ASSUME LateCommits \cap Cleans = {}
  PROVE  TypeInv /\ DanglingInv /\ [Next]_vars => DanglingInv'
<1> SUFFICES ASSUME TypeInv, DanglingInv, [Next]_vars PROVE DanglingInv'
  OBVIOUS
<1>0. TypeOK
  BY DEF TypeInv
<1>1. ASSUME NEW c \in Call, NEW r \in Asks[c], Ask(c, r) PROVE DanglingInv'
  <2>1. /\ UNCHANGED <<rows, inserting, shot, pending, storageVars>>
        /\ pc[c] = "new"
        /\ \E place \in {"lookup", "delete", "chunk", "sweep"} : pc' = [pc EXCEPT ![c] = place]
    <3>1. r \in Request
      BY StoreAssumption
    <3>2. QED BY <1>1, <3>1 DEF Ask, Go, Request, storageVars
  <2>2. QED BY <1>0, <2>1, MoveKeeps DEF Early, storageVars
<1>2. ASSUME NEW c \in Call, Lookup(c) PROVE DanglingInv'
  <2>1. /\ UNCHANGED <<rows, inserting, shot, pending, storageVars>>
        /\ pc[c] = "lookup"
        /\ \E place \in {"done", "upload", "insert"} : pc' = [pc EXCEPT ![c] = place]
    BY <1>2 DEF Lookup, Tell, Go, storageVars
  <2>2. QED BY <1>0, <2>1, MoveKeeps DEF Early, storageVars
<1>3. ASSUME NEW c \in Call, Upload(c) PROVE DanglingInv'
  <2>1. CASE Put(c) /\ shot' = [shot EXCEPT ![c] = TRUE] /\ Go(c, "insert")
    <3> USE <1>0, <1>3, <2>1 DEF Upload, Put, Go, DanglingInv, TypeOK, StorageTypeOK
    <3>1. /\ pc[c] = "upload" /\ UNCHANGED <<rows, inserting, pending, handed>>
          /\ \A d \in Call : d # c => pc'[d] = pc[d] /\ shot'[d] = shot[d]
          /\ pc'[c] = "insert" /\ shot'[c]
          /\ objects' = objects \cup {c}
      OBVIOUS
    <3>2. \A row \in rows \cup inserting : row.id \in Call /\ row.id # c
      BY <3>1 DEF Row, UrlsUploaded, Early
    <3>3. UrlsUploaded'
      BY <3>1, <3>2 DEF UrlsUploaded, Early
    <3>4. PendingPast'
      BY <3>1 DEF PendingPast, Early
    <3>5. OneInsert'
      BY <3>1 DEF OneInsert
    <3>6. Kept'
      BY <3>1, <3>2 DEF Kept
    <3>7. QED BY <3>3, <3>4, <3>5, <3>6
  <2>2. CASE PutUncertain(c) /\ Go(c, "reclaim") /\ UNCHANGED shot
    BY <1>0, <1>3, <2>2, MoveKeeps DEF Upload, PutUncertain, Go, Early
  <2>3. CASE Go(c, "insert") /\ UNCHANGED <<shot, storageVars>>
    BY <1>0, <1>3, <2>3, MoveKeeps DEF Upload, Go, Early, storageVars
  <2>4. QED BY <1>3, <2>1, <2>2, <2>3 DEF Upload
<1>4. ASSUME NEW c \in Call, ReclaimUpload(c) PROVE DanglingInv'
  <2> USE <1>0, <1>4 DEF ReclaimUpload, Reclaim, Go, DanglingInv, TypeOK, StorageTypeOK
  <2>1. /\ pc[c] = "reclaim" /\ UNCHANGED <<rows, inserting, pending, shot>>
        /\ \A d \in Call : d # c => pc'[d] = pc[d]
        /\ pc'[c] = "insert" /\ ~shot[c]
        /\ objects \ {c} \subseteq objects'
        /\ handed' \subseteq handed \cup {c}
    BY DEF UrlsUploaded, Early
  <2>2. \A row \in rows \cup inserting : row.id \in Call /\ row.id # c
    BY <2>1 DEF Row, UrlsUploaded, Early
  <2>3. UrlsUploaded'
    BY <2>1, <2>2 DEF UrlsUploaded, Early
  <2>4. PendingPast'
    BY <2>1 DEF PendingPast, Early
  <2>5. OneInsert'
    BY <2>1 DEF OneInsert
  <2>6. Kept'
    BY <2>1, <2>2 DEF Kept
  <2>7. QED BY <2>3, <2>4, <2>5, <2>6
<1>5. ASSUME NEW c \in Call, Insert(c) PROVE DanglingInv'
  <2>1. pc[c] = "insert" /\ UNCHANGED <<inserting, shot, pending, storageVars>>
    BY <1>5 DEF Insert, Tell
  <2>2. CASE rows' = rows \cup {NewRow(c)} /\ Tell(c, "created")
    BY <1>0, <2>1, <2>2, InsertKeeps DEF Tell, Go, storageVars
  <2>3. CASE Go(c, "winner") /\ UNCHANGED rows
    BY <1>0, <2>1, <2>3, MoveKeeps DEF Go, Early, storageVars
  <2>4. QED BY <1>5, <2>2, <2>3 DEF Insert
<1>6. ASSUME NEW c \in Call, InsertFails(c) PROVE DanglingInv'
  <2>1. /\ pc[c] = "insert" /\ UNCHANGED <<shot, objects, handed>>
        /\ \E place \in {"done", "check"} : pc' = [pc EXCEPT ![c] = place]
        /\ pending' = pending \/ (c \in Cleans /\ pending' = [pending EXCEPT ![c] = Uploaded(c)])
    BY <1>6, StoreAssumption DEF InsertFails, Discard, Go, After, Forsake, storageVars
  <2>2. \/ rows' \subseteq rows \cup {NewRow(c)} /\ inserting' = inserting
        \/ rows' = rows /\ inserting' = inserting \cup {NewRow(c)} /\ c \in LateCommits
    BY <1>6 DEF InsertFails
  <2>3. QED BY <1>0, <2>1, <2>2, InsertKeeps
<1>7. ASSUME CommitLate PROVE DanglingInv'
  <2> PICK row \in inserting :
        /\ rows' = rows \cup (IF Under(row.clientId) = {} THEN {row} ELSE {})
        /\ inserting' = inserting \ {row}
        /\ UNCHANGED <<callVars, storageVars>>
    BY <1>7 DEF CommitLate
  <2> USE <1>0 DEF DanglingInv, callVars, storageVars
  <2>1. rows' \cup inserting' \subseteq rows \cup inserting
    OBVIOUS
  <2>2. UrlsUploaded'
    BY <2>1 DEF UrlsUploaded
  <2>3. PendingPast'
    BY DEF PendingPast
  <2>4. OneInsert'
    BY DEF OneInsert
  <2>5. Kept'
    BY <2>1 DEF Kept
  <2>6. QED BY <2>2, <2>3, <2>4, <2>5
<1>8. ASSUME NEW c \in Call, Winner(c) PROVE DanglingInv'
  <2>1. /\ \E answer : Discard(c, Uploaded(c), answer)
        /\ pc[c] = "winner" /\ UNCHANGED <<rows, inserting, shot>>
    BY <1>8 DEF Winner
  <2>2. \A row \in inserting : c \in Cleans => row.id # c
    BY DEF DanglingInv, OneInsert
  <2>3. \A u \in Uploaded(c) : u = c
    BY DEF Uploaded
  <2>4. QED BY <1>0, <2>1, <2>2, <2>3, UrlsType, DiscardKeeps DEF Early
<1>9. ASSUME NEW c \in Call, DeleteById(c) PROVE DanglingInv'
  <2> DEFINE found == {row \in Removable : row.id = op[c].id}
  <2>1. found \in SUBSET rows /\ Urls(found) \in SUBSET Call
    BY <1>0, UrlsType
  <2>2. pc[c] = "delete" /\ UNCHANGED <<inserting, shot>>
    BY <1>9 DEF DeleteById, Tell
  <2> HIDE DEF found
  <2>3. \/ rows' = rows \ found /\ \E answer : Discard(c, Urls(found), answer)
        \/ /\ rows' \subseteq rows /\ UNCHANGED <<objects, handed, pending>>
           /\ pc' = [pc EXCEPT ![c] = "done"]
    BY <1>9 DEF DeleteById, found, Tell, Go, Forsake, storageVars
  <2>4. CASE rows' = rows \ found /\ \E answer : Discard(c, Urls(found), answer)
    BY <1>0, <2>1, <2>2, <2>4, RowUrls, DiscardKeeps DEF Early
  <2>5. CASE /\ rows' \subseteq rows /\ UNCHANGED <<objects, handed, pending>>
             /\ pc' = [pc EXCEPT ![c] = "done"]
    BY <1>0, <2>2, <2>5, MoveKeeps DEF Early
  <2>6. QED BY <2>3, <2>4, <2>5
<1>10. ASSUME NEW c \in Call, Sweep(c) PROVE DanglingInv'
  <2>1. /\ rows' \subseteq rows /\ UNCHANGED <<inserting, shot, objects, handed, pending>>
        /\ pc' = [pc EXCEPT ![c] = "done"]
    BY <1>10 DEF Sweep, Tell, Go, Forsake, storageVars
  <2>2. QED BY <1>0, <2>1, MoveKeeps DEF Early
<1>11. ASSUME NEW c \in Call, PickChunk(c) PROVE DanglingInv'
  BY <1>0, <1>11, MoveKeeps DEF PickChunk, Go, Early, storageVars
<1>12. ASSUME NEW c \in Call, DeleteChunk(c) PROVE DanglingInv'
  <2> DEFINE chunk == {row \in Removable : row.id \in picked[c]}
  <2>1. chunk \in SUBSET rows /\ Urls(chunk) \in SUBSET Call
    BY <1>0, UrlsType
  <2>2. pc[c] = "locked" /\ UNCHANGED <<inserting, shot>>
    BY <1>12 DEF DeleteChunk
  <2> HIDE DEF chunk
  <2>3. \/ rows' = rows \ chunk /\ Discard(c, Urls(chunk), None)
        \/ /\ rows' \subseteq rows /\ UNCHANGED <<objects, handed, pending>>
           /\ \E place \in {"done", "count"} : pc' = [pc EXCEPT ![c] = place]
    BY <1>12 DEF DeleteChunk, chunk, Go, Forsake, storageVars
  <2>4. CASE rows' = rows \ chunk /\ Discard(c, Urls(chunk), None)
    BY <1>0, <2>1, <2>2, <2>4, RowUrls, DiscardKeeps DEF Early
  <2>5. CASE /\ rows' \subseteq rows /\ UNCHANGED <<objects, handed, pending>>
             /\ \E place \in {"done", "count"} : pc' = [pc EXCEPT ![c] = place]
    BY <1>0, <2>2, <2>5, MoveKeeps DEF Early
  <2>6. QED BY <2>3, <2>4, <2>5
<1>13. ASSUME NEW c \in Call, CountLeft(c) PROVE DanglingInv'
  <2>1. /\ UNCHANGED <<rows, inserting, shot, pending, storageVars>>
        /\ \E place \in {"done", "chunk"} : pc' = [pc EXCEPT ![c] = place]
    BY <1>13 DEF CountLeft, Tell, Go, storageVars
  <2>2. QED BY <1>0, <2>1, MoveKeeps DEF Early, storageVars
<1>14. ASSUME NEW c \in Call, CheckReferences(c) PROVE DanglingInv'
  <2> USE <1>0 DEF DanglingInv, TypeOK
  <2>1. UNCHANGED <<rows, inserting, shot, objects, handed>>
    BY <1>14 DEF CheckReferences, Forsake, storageVars
  <2>2. /\ \E place \in {"chunk", "done", "remove"} : pc' = [pc EXCEPT ![c] = place]
        /\ \E urls \in SUBSET (pending[c] \ Referenced) : pending' = [pending EXCEPT ![c] = urls]
    BY <1>14 DEF CheckReferences, Go, After
  <2>3. /\ \A d \in Call : d # c => pc'[d] = pc[d] /\ pending'[d] = pending[d]
        /\ pc'[c] \in {"chunk", "done", "remove"}
        /\ pending'[c] \subseteq pending[c] \ Referenced
    BY <2>2
  <2>4. \A row \in rows \cup inserting : row.id \in Call
    BY DEF Row
  <2>5. UrlsUploaded'
    BY <2>1, <2>3, <2>4 DEF UrlsUploaded, Early, StorageTypeOK
  <2>6. PendingPast'
    BY <2>1, <2>3 DEF PendingPast, Early
  <2>7. OneInsert'
    BY <2>1 DEF OneInsert
  <2>8. ASSUME NEW row \in rows \cup inserting, row.url PROVE row.id \notin pending'[c]
    BY <2>3, <2>8 DEF Referenced, Urls, PendingPast
  <2>9. Kept'
    BY <2>1, <2>3, <2>8 DEF Kept
  <2>10. QED BY <2>5, <2>6, <2>7, <2>9
<1>15. ASSUME NEW c \in Call, DeleteObject(c) PROVE DanglingInv'
  <2> USE <1>0 DEF DanglingInv, TypeOK
  <2>1. /\ pc[c] = "remove" /\ UNCHANGED <<rows, inserting, shot, handed>>
        /\ \E url \in pending[c] : /\ objects \ {url} \subseteq objects'
                                   /\ pending' = [pending EXCEPT ![c] = @ \ {url}]
        /\ \E place \in {"chunk", "done", "remove"} : pc' = [pc EXCEPT ![c] = place]
    BY <1>15 DEF DeleteObject, Remove, RemoveFails, Go, After
  <2> PICK url \in pending[c] : /\ objects \ {url} \subseteq objects'
                                /\ pending' = [pending EXCEPT ![c] = @ \ {url}]
    BY <2>1
  <2>2. /\ \A d \in Call : pending'[d] \subseteq pending[d]
        /\ \A d \in Call : d # c => pc'[d] = pc[d]
        /\ pc'[c] \in {"chunk", "done", "remove"}
    BY <2>1
  <2>3. url \in Call /\ pc[url] # "insert"
    BY DEF PendingPast
  <2>4. \A row \in rows \cup inserting : row.id \in Call /\ (row.url => row.id # url)
    BY <2>1 DEF Row, Kept
  <2>5. UrlsUploaded'
    BY <2>1, <2>2, <2>4 DEF UrlsUploaded, Early, StorageTypeOK
  <2>6. PendingPast'
    BY <2>1, <2>2 DEF PendingPast, Early
  <2>7. OneInsert'
    BY <2>1 DEF OneInsert
  <2>8. Kept'
    BY <2>1, <2>2, <2>3, <2>4 DEF Kept
  <2>9. QED BY <2>5, <2>6, <2>7, <2>8
<1>16. ASSUME NEW c \in Call, Crash(c) PROVE DanglingInv'
  <2>1. /\ UNCHANGED <<rows, inserting, shot, objects, handed>>
        /\ pc' = [pc EXCEPT ![c] = "done"] /\ pending' = [pending EXCEPT ![c] = {}]
    BY <1>16 DEF Crash, Go
  <2>2. QED BY <1>0, <2>1, MoveKeeps DEF Early
<1>17. ASSUME NEW key \in Call, Outside(key) PROVE DanglingInv'
  <2>1. UNCHANGED <<rows, inserting, shot, pc, pending>>
    BY <1>17 DEF Outside, callVars
  <2>2. CASE Land(key)
    BY <1>0, <2>1, <2>2, NothingRemoved DEF Land
  <2>3. CASE RemoveHanded(key)
    <3>1. ~shot[key] /\ handed' \subseteq handed /\ objects' = objects \ {key}
      BY <2>3 DEF RemoveHanded, DanglingInv, UrlsUploaded
    <3>2. Kept'
      BY <2>1, <3>1 DEF DanglingInv, Kept, UrlsUploaded
    <3>3. QED
      BY <2>1, <3>1, <3>2 DEF DanglingInv, UrlsUploaded, PendingPast, OneInsert
  <2>4. QED BY <1>17, <2>2, <2>3 DEF Outside
<1>18. ASSUME UNCHANGED vars PROVE DanglingInv'
  BY <1>18
  DEF vars, callVars, storageVars, DanglingInv, UrlsUploaded, PendingPast, OneInsert, Kept
<1>19. QED
  BY <1>1, <1>2, <1>3, <1>4, <1>5, <1>6, <1>7, <1>8, <1>9, <1>10, <1>11, <1>12, <1>13, <1>14,
     <1>15, <1>16, <1>17, <1>18 DEF Next, Step

\* No row ever points to an object that is not there, as long as an insert that
\* was reported as failed commits, if at all, before the references are checked.
THEOREM NoDanglingUrls ==
  ASSUME LateCommits \cap Cleans = {}
  PROVE  Spec => []NoDangling
<1>1. Init => TypeInv /\ DanglingInv
  BY TypeInit, DanglingInit
<1>2. TypeInv /\ DanglingInv /\ [Next]_vars => (TypeInv /\ DanglingInv)'
  BY TypeStep, DanglingStep
<1>3. DanglingInv => NoDangling
  BY DEF DanglingInv, Kept, NoDangling, Referenced, Urls
<1>4. QED BY <1>1, <1>2, <1>3, PTL DEF Spec
=============================================================================
