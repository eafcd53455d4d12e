----------------------------- MODULE RetryQueue -----------------------------
(***************************************************************************)
(* The widget's HTTP sends and their retry queue (ApiClient): pages of one *)
(* origin share a queue in localStorage.  A send that fails for good is    *)
(* queued there; a page that loads replays the queue, one POST at a time,  *)
(* under a Web Lock, and only then writes back what is left.  A page may   *)
(* close at any await.                                                     *)
(*                                                                         *)
(* A submission is one popup: all its sends carry one clientId, a resend a *)
(* newer version of the payload.  The server is external: it keeps the     *)
(* first payload it receives under a clientId.                             *)
(***************************************************************************)
EXTENDS Naturals, Sequences, FiniteSets

CONSTANTS
  Submission,     \* popups that submit; also their clientIds
  Page,           \* tabs of the origin
  Endpoint,
  Person,
  Settings,       \* the sites, pages and visitors there may be
  MaxVersions,    \* bound: sends of one popup
  MaxQueue,       \* entries kept
  HasLocks,       \* navigator.locks exists
  None

Entry == [id : Submission, version : 1..MaxVersions, shot : BOOLEAN]

\* pageOf: the page of each submission; endpointOf: the endpoint it is sent to;
\* flushEndpoint: the endpoint of the widget of each page; authorOf: the author in
\* each submission's payload; visitor: the identity a page knows when it loads;
\* screenshots: the submissions that carry one; versions: bound, sends of one
\* popup; retries: resends of one attempt; spaces: the room localStorage may have
\* when the queue is written.
Setting ==
  [pageOf : [Submission -> Page], endpointOf : [Submission -> Endpoint],
   flushEndpoint : [Page -> Endpoint], authorOf : [Submission -> Person],
   visitor : [Page -> Person \cup {None}], screenshots : SUBSET Submission,
   versions : 1..MaxVersions, retries : Nat, spaces : SUBSET Nat]

ASSUME RetryQueueAssumption ==
  /\ Settings \subseteq Setting
  /\ {MaxVersions, MaxQueue} \subseteq Nat \ {0}
  /\ HasLocks \in BOOLEAN
  /\ None \notin Page \cup Person

VARIABLES
  setting,  \* which of the settings this is
  stored,   \* the queue in localStorage
  holder,   \* the page whose flush holds the lock
  page,     \* where each page's flush is
  todo,     \* entries a flush has still to replay
  failed,   \* entries it has to keep
  kept,     \* entries of other endpoints it leaves alone
  sub,      \* where each submission is
  version,  \* the version of its payload last sent
  attempt,  \* resends of that version
  landed,   \* the version the server stored, 0 for none
  wire,     \* POSTs given up on that may still reach the server
  rejected  \* submissions whose queued entry a replay had refused for good (4xx)

flush == <<holder, page, todo, failed, kept>>
sending == <<sub, version, attempt>>
server == <<landed, wire>>
vars == <<setting, stored, flush, sending, server, rejected>>

TypeOK ==
  /\ setting \in Settings
  /\ stored \in Seq(Entry)
  /\ holder \in Page \cup {None}
  /\ page \in [Page -> {"closed", "loading", "headers", "replaying", "idle"}]
  /\ todo \in [Page -> Seq(Entry)]
  /\ failed \in [Page -> Seq(Entry)]
  /\ kept \in [Page -> Seq(Entry)]
  /\ sub \in [Submission -> {"draft", "sending", "queueing", "saved", "unsaved", "unqueueing",
                             "sent", "refused", "gone"}]
  /\ version \in [Submission -> 0..MaxVersions]
  /\ attempt \in [Submission -> 0..setting.retries]
  /\ landed \in [Submission -> 0..MaxVersions]
  /\ wire \subseteq Submission \X (1..MaxVersions)
  /\ rejected \subseteq Submission

Init ==
  /\ setting \in Settings
  /\ stored = <<>>
  /\ holder = None
  /\ page = [p \in Page |-> "closed"]
  /\ todo = [p \in Page |-> <<>>]
  /\ failed = [p \in Page |-> <<>>]
  /\ kept = [p \in Page |-> <<>>]
  /\ sub = [s \in Submission |-> "draft"]
  /\ version = [s \in Submission |-> 0]
  /\ attempt = [s \in Submission |-> 0]
  /\ landed = [s \in Submission |-> 0]
  /\ wire = {}
  /\ rejected = {}

Ids(q) == {q[n].id : n \in 1..Len(q)}

\* The entries of q that are in S, in their order.
Filter(q, S) ==
  LET part[n \in 0..Len(q)] ==
        IF n = 0 THEN <<>> ELSE IF q[n] \in S THEN Append(part[n - 1], q[n]) ELSE part[n - 1]
  IN  part[Len(q)]

\* The lock is free, or the browser has none.
Unlocked == HasLocks => holder = None

(***************************************************************************)
(* A POST, from the popup or from a replay.                                *)
(***************************************************************************)
Land(s, v) == landed' = [landed EXCEPT ![s] = IF @ = 0 THEN v ELSE @]

\* An attempt without a usable answer: refused for now, lost, or given up
\* before it reaches the server.
NoAnswer(s, v) ==
  \/ UNCHANGED server
  \/ Land(s, v) /\ UNCHANGED wire
  \/ wire' = wire \cup {<<s, v>>} /\ UNCHANGED landed

\* A POST the client gave up on reaches the server after all.
Arrive(s, v) ==
  /\ <<s, v>> \in wire
  /\ wire' = wire \ {<<s, v>>}
  /\ Land(s, v)
  /\ UNCHANGED <<setting, stored, flush, sending, rejected>>

(***************************************************************************)
(* sendFeedback                                                            *)
(***************************************************************************)
\* The popup submits, or resubmits what has not been sent.
Submit(s) ==
  /\ page[setting.pageOf[s]] # "closed"
  /\ sub[s] \in {"draft", "saved", "unsaved", "refused"}
  /\ version[s] < setting.versions
  /\ sub' = [sub EXCEPT ![s] = "sending"]
  /\ version' = [version EXCEPT ![s] = @ + 1]
  /\ attempt' = [attempt EXCEPT ![s] = 0]
  /\ UNCHANGED <<setting, stored, flush, server, rejected>>

\* One attempt of resilientFetch: 2xx, a final 4xx, or a failure that is
\* retried unless the attempts are used up or the server asks for too long a
\* wait.
Attempt(s) ==
  /\ sub[s] = "sending"
  /\ \/ /\ Land(s, version[s]) /\ UNCHANGED <<wire, attempt>>
        /\ sub' = [sub EXCEPT ![s] = "unqueueing"]
     \/ /\ sub' = [sub EXCEPT ![s] = "refused"]
        /\ UNCHANGED <<server, attempt>>
     \/ /\ NoAnswer(s, version[s])
        /\ \/ /\ attempt[s] < setting.retries
              /\ attempt' = [attempt EXCEPT ![s] = @ + 1]
              /\ UNCHANGED sub
           \/ /\ sub' = [sub EXCEPT ![s] = "queueing"]
              /\ UNCHANGED attempt
  /\ UNCHANGED <<setting, stored, flush, version, rejected>>

(***************************************************************************)
(* queueForRetry and unqueue: one turn under the lock.                     *)
(***************************************************************************)
ShotWeight == 2

Size(q) == Len(q) + ShotWeight * Cardinality({n \in 1..Len(q) : q[n].shot})

\* Fault: the newest screenshots are given up first.
StripNewest(q, n) == [m \in 1..Len(q) |-> [q[m] EXCEPT !.shot = @ /\ m <= Len(q) - n]]

\* The queue without the screenshots of its n oldest entries, and without its
\* n oldest entries.
Strip(q, n) == [m \in 1..Len(q) |-> [q[m] EXCEPT !.shot = @ /\ m > n]]
Evict(q, n) == SubSeq(q, n + 1, Len(q))

\* What is written for queue q: as little is given up as fits.
Shed(q, space) ==
  LET Strips == {n \in 0..Len(q) : Size(Strip(q, n)) <= space}
      Evicts == {n \in 0..(Len(q) - 1) : Size(Evict(Strip(q, Len(q)), n)) <= space}
      Least(S) == CHOOSE n \in S : \A m \in S : n <= m
  IN  IF Strips # {} THEN Strip(q, Least(Strips))
      ELSE IF Evicts # {} THEN Evict(Strip(q, Len(q)), Least(Evicts))
      ELSE <<>>

Others(s) == Filter(stored, {e \in Entry : e.id # s})

\* Fault: an earlier attempt is kept as it is.
EnqueuedOnce(s) ==
  IF s \in Ids(stored) THEN stored
  ELSE Append(IF Len(stored) >= MaxQueue THEN Tail(stored) ELSE stored,
              [id |-> s, version |-> version[s], shot |-> s \in setting.screenshots])

\* The queue with submission s at its end, an earlier attempt replaced, the
\* oldest entry dropped when it is full.
Enqueued(s) ==
  LET rest == Others(s)
      entry == [id |-> s, version |-> version[s], shot |-> s \in setting.screenshots]
  IN  Append(IF Len(rest) >= MaxQueue THEN Tail(rest) ELSE rest, entry)

QueueForRetry(s) ==
  /\ sub[s] = "queueing"
  /\ Unlocked
  /\ \E space \in setting.spaces :
       LET next == Shed(Enqueued(s), space)
       IN  IF next # <<>>
           THEN /\ stored' = next
                /\ rejected' = rejected \ {s}
                /\ sub' = [sub EXCEPT ![s] = "saved"]
           ELSE /\ sub' = [sub EXCEPT ![s] = "unsaved"]
                /\ UNCHANGED <<stored, rejected>>
  /\ UNCHANGED <<setting, flush, version, attempt, server>>

\* The submission has landed: its queued attempt goes, unless storage fails.
Unqueue(s) ==
  /\ sub[s] = "unqueueing"
  /\ Unlocked
  /\ stored' \in {Others(s), stored}
  /\ sub' = [sub EXCEPT ![s] = "sent"]
  /\ UNCHANGED <<setting, flush, version, attempt, server, rejected>>

(***************************************************************************)
(* flushRetryQueue                                                         *)
(***************************************************************************)
Load(p) ==
  /\ page[p] = "closed"
  /\ page' = [page EXCEPT ![p] = "loading"]
  /\ UNCHANGED <<setting, stored, holder, todo, failed, kept, sending, server, rejected>>

Elsewhere(p) == Filter(stored, {e \in Entry : setting.endpointOf[e.id] # setting.flushEndpoint[p]})
ToRetry(p) ==
  Filter(stored, {e \in Entry : /\ setting.endpointOf[e.id] = setting.flushEndpoint[p]
                                /\ setting.visitor[p] \in {None, setting.authorOf[e.id]}})
\* The lock is granted: the queue is read and split; entries of another author
\* are in neither part.
StartFlush(p) ==
  /\ page[p] = "loading"
  /\ Unlocked
  /\ IF ToRetry(p) = <<>>
     THEN /\ page' = [page EXCEPT ![p] = "idle"]
          /\ stored' \in {Elsewhere(p), stored}
          /\ UNCHANGED <<holder, todo, failed, kept>>
     ELSE /\ page' = [page EXCEPT ![p] = "headers"]
          /\ holder' = IF HasLocks THEN p ELSE None
          /\ todo' = [todo EXCEPT ![p] = ToRetry(p)]
          /\ kept' = [kept EXCEPT ![p] = Elsewhere(p)]
          /\ failed' = [failed EXCEPT ![p] = <<>>]
          /\ UNCHANGED stored
  /\ UNCHANGED <<setting, sending, server, rejected>>

Release(p) == holder' = IF holder = p THEN None ELSE holder

EndFlush(p) ==
  /\ page' = [page EXCEPT ![p] = "idle"]
  /\ Release(p)
  /\ todo' = [todo EXCEPT ![p] = <<>>]
  /\ failed' = [failed EXCEPT ![p] = <<>>]
  /\ kept' = [kept EXCEPT ![p] = <<>>]

\* Fault: the headers factory has no timeout.
HeadersUnbounded(p) ==
  /\ page[p] = "headers"
  /\ \/ page' = [page EXCEPT ![p] = "replaying"]
     \/ page' = [page EXCEPT ![p] = "hung"]
  /\ UNCHANGED <<setting, stored, holder, todo, failed, kept, sending, server, rejected>>

\* The headers factory settles; when it fails nothing is replayed or written.
Headers(p) ==
  /\ page[p] = "headers"
  /\ \/ /\ page' = [page EXCEPT ![p] = "replaying"]
        /\ UNCHANGED <<holder, todo, failed, kept>>
     \/ EndFlush(p)
  /\ UNCHANGED <<setting, stored, sending, server, rejected>>

\* The POST of one entry is answered, or times out.
Replay(p) ==
  /\ page[p] = "replaying"
  /\ todo[p] # <<>>
  /\ todo' = [todo EXCEPT ![p] = Tail(@)]
  /\ LET e == Head(todo[p])
     IN  \/ Land(e.id, e.version) /\ UNCHANGED <<wire, failed, rejected>>
         \/ rejected' = rejected \cup {e.id} /\ UNCHANGED <<server, failed>>
         \/ /\ NoAnswer(e.id, e.version)
            /\ failed' = [failed EXCEPT ![p] = Append(@, e)]
            /\ UNCHANGED rejected
  /\ UNCHANGED <<setting, stored, holder, page, kept, sending>>

\* Fault: entries of other endpoints are not written back.
RewriteFailed(p) ==
  /\ page[p] = "replaying"
  /\ todo[p] = <<>>
  /\ stored' = failed[p]
  /\ EndFlush(p)
  /\ UNCHANGED <<setting, sending, server, rejected>>

\* The queue is written back, unless storage fails.
Rewrite(p) ==
  /\ page[p] = "replaying"
  /\ todo[p] = <<>>
  /\ stored' \in {kept[p] \o failed[p], stored}
  /\ EndFlush(p)
  /\ UNCHANGED <<setting, sending, server, rejected>>

\* A tab closes: its lock is released, what it was doing is lost.
Close(p) ==
  /\ page[p] # "closed"
  /\ page' = [page EXCEPT ![p] = "closed"]
  /\ Release(p)
  /\ todo' = [todo EXCEPT ![p] = <<>>]
  /\ failed' = [failed EXCEPT ![p] = <<>>]
  /\ kept' = [kept EXCEPT ![p] = <<>>]
  /\ sub' = [s \in Submission |->
               IF setting.pageOf[s] = p /\ sub[s] \in {"sending", "queueing", "unqueueing"} THEN "gone" ELSE sub[s]]
  /\ UNCHANGED <<setting, stored, version, attempt, server, rejected>>

Send(s) == Attempt(s) \/ QueueForRetry(s) \/ Unqueue(s)
Flush(p) == StartFlush(p) \/ Headers(p) \/ Replay(p) \/ Rewrite(p)

Next ==
  \/ \E s \in Submission : Submit(s) \/ Send(s)
  \/ \E p \in Page : Load(p) \/ Flush(p) \/ Close(p)
  \/ \E s \in Submission, v \in 1..MaxVersions : Arrive(s, v)

Spec == Init /\ [][Next]_vars

-----------------------------------------------------------------------------
(***************************************************************************)
(* Properties.                                                             *)
(***************************************************************************)
\* The queue never grows past its cap and holds one entry per submission; a
\* resend replaces its queued attempt, so what will be replayed is the last
\* payload the visitor was told is saved.
QueuedIsLatest ==
  /\ Len(stored) = Cardinality(Ids(stored)) /\ Len(stored) <= MaxQueue
  /\ \A n \in 1..Len(stored) :
       sub[stored[n].id] = "saved" => stored[n].version = version[stored[n].id]

Quitting(s) == \E p \in Page : /\ page[p] # "idle" /\ page'[p] = "idle"
                               /\ setting.endpointOf[s] = setting.flushEndpoint[p]
                               /\ setting.visitor[p] \notin {None, setting.authorOf[s]}

Queueing == \E s \in Submission : sub[s] = "queueing" /\ sub'[s] = "saved"

\* A queued submission leaves the queue only once it has landed, or the server
\* refused its replay, or a flush found it is somebody else's, or newer entries
\* need its place: no flush forgets what another tab queued meanwhile.
NothingForgotten ==
  [][\A s \in Ids(stored) \ Ids(stored') :
       landed[s] # 0 \/ s \in rejected \/ Quitting(s) \/ Queueing]_vars

Shots(q) == {q[n].id : n \in {m \in 1..Len(q) : q[m].shot}}

\* What the queueing of s gives up, by the places in the queue.
ShedsInOrder(s) ==
  LET Gone(n) == stored[n].id # s /\ stored[n].id \notin Ids(stored')
      Stripped(n) == stored[n].shot /\ stored[n].id # s /\ stored[n].id \in Ids(stored') \ Shots(stored')
  IN  /\ stored'[Len(stored')].id = s
      /\ \A m, n \in 1..Len(stored) : m < n /\ stored[m].id # s =>
           /\ Gone(n) => Gone(m)
           /\ Stripped(n) => stored[m].id \notin Shots(stored')
      /\ s \in setting.screenshots \ Shots(stored') => Shots(stored') = {}
      /\ (\E n \in 1..Len(stored) : Gone(n)) /\ Len(stored') < MaxQueue => Shots(stored') = {}

\* When room is short the first screenshots of the queue go first; an entry goes
\* to make room only once no screenshot is left, or to make place in a full
\* queue, and then the first ones go; the feedback being queued is never given up.
OldestFirst == [][\A s \in Submission : (sub[s] = "queueing" /\ sub'[s] = "saved") => ShedsInOrder(s)]_vars

\* No send is left waiting: it has a step to take, or the flush that holds the
\* lock it needs has one.  Sends and flushes take finitely many steps, so the
\* visitor is told how the submission ended, as long as every fetch times out.
NobodyStranded ==
  \A s \in Submission : sub[s] \in {"sending", "queueing", "unqueueing"} =>
    ENABLED Send(s) \/ (holder # None /\ ENABLED Flush(holder))
=============================================================================
