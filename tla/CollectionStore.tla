--------------------------- MODULE CollectionStore ---------------------------
(***************************************************************************)
(* createCollectionStore: a store built on a backend that can only load    *)
(* and persist the whole snapshot (packages/core/src/store-helpers.ts).    *)
(* Every mutation is a load -> modify -> persist cycle; each store runs    *)
(* its mutations one at a time through a promise queue.                    *)
(*                                                                         *)
(* Several stores may stand over one storage.  On a synchronous backend    *)
(* (memory, localStorage) a cycle is one uninterrupted step of the realm's *)
(* event loop; on an asynchronous one (a KV, a file) it is spread over     *)
(* turns and the queue of one store is all that separates two cycles.      *)
(***************************************************************************)
EXTENDS FeedbackData, Sequences

CONSTANTS
  Store,          \* the store instances over the one storage
  Requests,       \* the requests callers make
  NoRequest,      \* a call that is not made yet
  AsyncBackend    \* TRUE: load and persist of the backend return promises

\* The scope the engine's documentation gives its guarantee: one store per
\* storage, unless a cycle cannot be interrupted.
ASSUME StoreAssumption ==
  /\ Requests \subseteq Request
  /\ NoRequest \notin Request
  /\ None \notin Store
  /\ AsyncBackend \in BOOLEAN
  /\ AsyncBackend => \A s, t \in Store : s = t

VARIABLES
  op,        \* the request of each call
  queue,     \* calls waiting behind each store's tail promise
  running,   \* the call whose cycle a store is in
  stage,     \* where that cycle is
  snapshot,  \* what the backend's load gave that cycle
  storage,   \* the snapshot the backend holds
  reply      \* what each call was answered

vars == <<op, queue, running, stage, snapshot, storage, reply>>

Stage == {"idle", "loading", "persisting", "retrying"}

TypeOK ==
  /\ op \in [Call -> Requests \cup {NoRequest}]
  /\ queue \in [Store -> Seq(Call)]
  /\ running \in [Store -> Call \cup {None}]
  /\ stage \in [Store -> Stage]
  /\ snapshot \in [Store -> SUBSET Feedback]
  /\ storage \in SUBSET Feedback
  /\ reply \in [Call -> Reply]

Init ==
  /\ op = [c \in Call |-> NoRequest]
  /\ queue = [s \in Store |-> <<>>]
  /\ running = [s \in Store |-> None]
  /\ stage = [s \in Store |-> "idle"]
  /\ snapshot = [s \in Store |-> {}]
  /\ storage = {}
  /\ reply = [c \in Call |-> Pending]

\* Fault: every snapshot is awaited, the sync ones too.
AwaitAlways == FALSE

\* The sync snapshot goes to the mutation without an await.
Uninterrupted == ~AsyncBackend

\* The tail promise of a store has settled and a mutation waits on it.
Ready(s) == running[s] = None /\ queue[s] # <<>>

Submit(c, s, r) ==
  /\ op[c] = NoRequest
  /\ op' = [op EXCEPT ![c] = r]
  /\ queue' = [queue EXCEPT ![s] = Append(@, c)]
  /\ UNCHANGED <<running, stage, snapshot, storage, reply>>

(***************************************************************************)
(* An uninterrupted cycle.  A synchronous persist that throws has written  *)
(* nothing; the second persist of a creation runs in its catch block.      *)
(***************************************************************************)
Cycle(s) ==
  /\ Uninterrupted
  /\ Ready(s)
  /\ LET c == Head(queue[s])
         m == Mutation(storage, c, op[c])
     IN  \/ /\ storage' = m.next
            /\ reply' = [reply EXCEPT ![c] = m.reply]
         \/ /\ m.write /\ CarriesScreenshot(op[c])
            /\ storage' = WithoutScreenshot(m.next, c)
            /\ reply' = [reply EXCEPT ![c] = m.reply]
         \/ /\ UNCHANGED storage
            /\ reply' = [reply EXCEPT ![c] = Failed]
  /\ queue' = [queue EXCEPT ![s] = Tail(@)]
  /\ UNCHANGED <<op, running, stage, snapshot>>

(***************************************************************************)
(* The same cycle spread over turns.                                       *)
(***************************************************************************)
Start(s) ==
  /\ ~Uninterrupted
  /\ Ready(s)
  /\ running' = [running EXCEPT ![s] = Head(queue[s])]
  /\ queue' = [queue EXCEPT ![s] = Tail(@)]
  /\ stage' = [stage EXCEPT ![s] = "loading"]
  /\ UNCHANGED <<op, snapshot, storage, reply>>

\* Fault: the tail promise keeps the rejection of a failed mutation.
SettleOrStall(s, answer) ==
  /\ reply' = [reply EXCEPT ![running[s]] = answer]
  /\ running' = IF answer = Failed THEN running ELSE [running EXCEPT ![s] = None]
  /\ stage' = [stage EXCEPT ![s] = "idle"]
  /\ snapshot' = [snapshot EXCEPT ![s] = {}]

\* The cycle of the running call ends: the tail promise settles, and the
\* store drops the snapshot.
Settle(s, answer) ==
  /\ reply' = [reply EXCEPT ![running[s]] = answer]
  /\ running' = [running EXCEPT ![s] = None]
  /\ stage' = [stage EXCEPT ![s] = "idle"]
  /\ snapshot' = [snapshot EXCEPT ![s] = {}]

Load(s) ==
  /\ stage[s] = "loading"
  /\ LET m == Mutation(storage, running[s], op[running[s]])
     IN  \/ /\ m.write
            /\ snapshot' = [snapshot EXCEPT ![s] = storage]
            /\ stage' = [stage EXCEPT ![s] = "persisting"]
            /\ UNCHANGED <<running, reply>>
         \/ /\ ~m.write
            /\ Settle(s, m.reply)
  /\ UNCHANGED <<op, queue, storage>>

LoadFails(s) ==
  /\ stage[s] = "loading"
  /\ Settle(s, Failed)
  /\ UNCHANGED <<op, queue, storage>>

\* What the running cycle computes from the snapshot it loaded.
Computed(s) == Mutation(snapshot[s], running[s], op[running[s]])

Persist(s) ==
  /\ stage[s] = "persisting"
  /\ storage' = Computed(s).next
  /\ Settle(s, Computed(s).reply)
  /\ UNCHANGED <<op, queue>>

\* persist rejects; the write may have reached the storage all the same.
PersistFails(s) ==
  /\ stage[s] = "persisting"
  /\ storage' \in {storage, Computed(s).next}
  /\ \/ /\ CarriesScreenshot(op[running[s]])
        /\ stage' = [stage EXCEPT ![s] = "retrying"]
        /\ UNCHANGED <<running, snapshot, reply>>
     \/ /\ ~CarriesScreenshot(op[running[s]])
        /\ Settle(s, Failed)
  /\ UNCHANGED <<op, queue>>

Retry(s) ==
  /\ stage[s] = "retrying"
  /\ storage' = WithoutScreenshot(Computed(s).next, running[s])
  /\ Settle(s, Computed(s).reply)
  /\ UNCHANGED <<op, queue>>

\* Fault: the record is returned though neither persist succeeded.
RetryFailsSilently(s) ==
  /\ stage[s] = "retrying"
  /\ storage' = storage
  /\ Settle(s, Computed(s).reply)
  /\ UNCHANGED <<op, queue>>

RetryFails(s) ==
  /\ stage[s] = "retrying"
  /\ storage' \in {storage, WithoutScreenshot(Computed(s).next, running[s])}
  /\ Settle(s, Failed)
  /\ UNCHANGED <<op, queue>>

\* MemoryStore.clear and LocalStorageStore.clear write outside the queue; no
\* asynchronous store of the repository has one.
Clear ==
  /\ ~AsyncBackend
  /\ storage' = {}
  /\ UNCHANGED <<op, queue, running, stage, snapshot, reply>>

Step(s) ==
  \/ Cycle(s)
  \/ Start(s)
  \/ Load(s)
  \/ LoadFails(s)
  \/ Persist(s)
  \/ PersistFails(s)
  \/ Retry(s)
  \/ RetryFails(s)

Next ==
  \/ \E c \in Call, s \in Store, r \in Requests : Submit(c, s, r)
  \/ \E s \in Store : Step(s)
  \/ Clear

\* load and persist always settle, and the event loop runs what is ready.
Fairness == \A s \in Store : WF_vars(Step(s))

Spec == Init /\ [][Next]_vars

FairSpec == Spec /\ Fairness
-----------------------------------------------------------------------------
(***************************************************************************)
(* Properties.                                                             *)
(***************************************************************************)

\* A clientId is an idempotency key: whatever fails, is retried or is queued
\* meanwhile, the storage never holds two feedbacks under one
\* (createFeedbackIfAbsent's dedup).
OneFeedbackPerClientId == UniqueFeedbacks(storage)

\* The same for comments, across every thread of the store
\* (addCommentIfAbsent's dedup).
OneCommentPerClientId == UniqueComments(storage)

\* No thread holds more client comments than the cap, however many are posted
\* at once (the count and the write of addCommentIfAbsent are one cycle).
ThreadsBounded == BoundedThreads(storage)

\* The three together: what is looked for or counted in a snapshot still holds
\* when the write that relies on it is stored, across queues, failures, retries
\* and clear().
StorageSound == OneFeedbackPerClientId /\ OneCommentPerClientId /\ ThreadsBounded

\* A feedback enters the storage only before its creating call is answered:
\* no late persist of an older snapshot brings back what was deleted or
\* cleared in between.
NothingComesBack ==
  [][\A f \in Ids(storage') \ Ids(storage) : reply[f] = Pending]_vars

\* Every call is answered in the end: a failed mutation does not block the
\* ones queued after it, as long as load and persist settle.
Answered == \A c \in Call : op[c] # NoRequest ~> reply[c] # Pending

\* The creations whose first persist failed after it was applied.
InEffect == {running[s] : s \in {t \in Store : stage[t] = "retrying" /\ running[t] \in Ids(storage)}}

Atomic == INSTANCE AtomicStore WITH unanswered <- InEffect

\* The cycles implement mutations that take effect at one instant: no two of
\* them start from the same snapshot and overwrite each other, `created` is
\* answered once per clientId for as long as its record is kept, and an error
\* is answered only where the backend failed.
AtomicMutations == Atomic!Spec
=============================================================================
