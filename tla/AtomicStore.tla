----------------------------- MODULE AtomicStore -----------------------------
(***************************************************************************)
(* What a store promises its callers: every mutation takes effect at one   *)
(* instant between the call and the answer, against the snapshot of that   *)
(* instant, and the answer tells what it did there.  A mutation whose      *)
(* write the backend reported as failed answers with the failure; the      *)
(* write may have reached the storage nevertheless.                        *)
(***************************************************************************)
EXTENDS FeedbackData

CONSTANTS
  Requests,       \* the requests callers make
  NoRequest,      \* a call that is not made yet
  AsyncBackend    \* TRUE: load and persist of the backend return promises

VARIABLES
  op,             \* the request of each call
  storage,        \* the feedback records stored
  reply,          \* what each call was answered
  unanswered      \* creations in effect whose caller is not answered yet

vars == <<op, storage, reply, unanswered>>

Init ==
  /\ op = [c \in Call |-> NoRequest]
  /\ storage = {}
  /\ reply = [c \in Call |-> Pending]
  /\ unanswered = {}

Open(c) == op[c] # NoRequest /\ reply[c] = Pending

Submit(c, r) ==
  /\ op[c] = NoRequest
  /\ op' = [op EXCEPT ![c] = r]
  /\ UNCHANGED <<storage, reply, unanswered>>

\* The mutation takes effect and its caller learns what it did.  A creation
\* may have dropped its screenshot on the way.
Take(c) ==
  /\ Open(c) /\ c \notin unanswered
  /\ LET m == Mutation(storage, c, op[c])
     IN  /\ \/ storage' = m.next
            \/ m.write /\ CarriesScreenshot(op[c]) /\ storage' = WithoutScreenshot(m.next, c)
         /\ reply' = [reply EXCEPT ![c] = m.reply]
  /\ UNCHANGED <<op, unanswered>>

\* A creation takes effect while its backend reports a failed write.
TakeUnanswered(c) ==
  /\ Open(c) /\ c \notin unanswered
  /\ CarriesScreenshot(op[c])
  /\ LET m == Mutation(storage, c, op[c])
     IN  m.write /\ storage' = m.next
  /\ unanswered' = unanswered \cup {c}
  /\ UNCHANGED <<op, reply>>

\* The second persist of that creation, answered or failed.
Answer(c) ==
  /\ c \in unanswered
  /\ \/ storage' = WithoutScreenshot(storage, c) /\ reply' = [reply EXCEPT ![c] = [outcome |-> "created", id |-> c]]
     \/ storage' \in {storage, WithoutScreenshot(storage, c)} /\ reply' = [reply EXCEPT ![c] = Failed]
  /\ unanswered' = unanswered \ {c}
  /\ UNCHANGED op

\* The caller is told that the mutation failed: it did nothing, or, on a
\* backend whose writes cross a network, its write was applied after all.
Fail(c) ==
  /\ Open(c) /\ c \notin unanswered
  /\ LET m == Mutation(storage, c, op[c])
     IN  \/ storage' = storage
         \/ AsyncBackend /\ storage' = m.next
         \/ AsyncBackend /\ m.write /\ CarriesScreenshot(op[c]) /\ storage' = WithoutScreenshot(m.next, c)
  /\ reply' = [reply EXCEPT ![c] = Failed]
  /\ UNCHANGED <<op, unanswered>>

Clear ==
  /\ storage' = {}
  /\ UNCHANGED <<op, reply, unanswered>>

Next ==
  \/ \E c \in Call :
       \/ \E r \in Requests : Submit(c, r)
       \/ Take(c)
       \/ TakeUnanswered(c)
       \/ Answer(c)
       \/ Fail(c)
  \/ Clear

Spec == Init /\ [][Next]_vars
=============================================================================
