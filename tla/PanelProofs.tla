---------------------------- MODULE PanelProofs ----------------------------
(***************************************************************************)
(* What holds of the panel for any feedbacks, queries, texts and bounds.   *)
(***************************************************************************)
EXTENDS Panel, FiniteSetTheorems, TLAPS

(***************************************************************************)
(* The server's lists: newest first, each feedback once.                   *)
(***************************************************************************)
LEMMA NewestIsSeq ==
  ASSUME NEW S, S \subseteq Feedback
  PROVE  Newest(S) \in Seq(S) /\ Len(Newest(S)) = Cardinality(S)
<1> DEFINE n == Cardinality(S)
           Newer(f) == {g \in S : Created[g] > Created[f]}
           rank == [f \in S |-> Cardinality(Newer(f))]
<1>1. IsFiniteSet(S) /\ n \in Nat
  BY PanelAssumption, FS_Subset, FS_CardinalityType
<1>2. IsFiniteSet(0..n-1) /\ Cardinality(0..n-1) = n
  <2>1. IsFiniteSet(0..n-1) /\ Cardinality(0..n-1) = IF 0 > n - 1 THEN 0 ELSE (n - 1) - 0 + 1
    BY <1>1, FS_Interval
  <2>2. QED BY <1>1, <2>1
<1>3. ASSUME NEW f \in S
      PROVE  rank[f] \in 0..n-1
  <2>1. Newer(f) \in SUBSET S /\ Newer(f) # S
    BY <1>3, PanelAssumption
  <2>2. IsFiniteSet(Newer(f)) /\ Cardinality(Newer(f)) <= n /\ Cardinality(Newer(f)) # n
    BY <1>1, <2>1, FS_Subset
  <2>3. Cardinality(Newer(f)) \in Nat
    BY <2>2, FS_CardinalityType
  <2>4. QED BY <1>1, <1>3, <2>2, <2>3
<1>4. ASSUME NEW f \in S, NEW g \in S, Created[f] < Created[g]
      PROVE  rank[f] # rank[g]
  <2>1. Newer(g) \in SUBSET Newer(f) /\ g \in Newer(f) /\ g \notin Newer(g)
    BY <1>4, PanelAssumption
  <2>2. IsFiniteSet(Newer(f))
    BY <1>1, FS_Subset
  <2>3. Cardinality(Newer(f)) # Cardinality(Newer(g))
    BY <2>1, <2>2, FS_Subset
  <2>4. QED BY <2>3
<1>5. rank \in Injection(S, 0..n-1)
  <2>1. ASSUME NEW f \in S, NEW g \in S, f # g
        PROVE  rank[f] # rank[g]
    <3>1. Created[f] \in Nat /\ Created[g] \in Nat /\ Created[f] # Created[g]
      BY <2>1, PanelAssumption
    <3>2. Created[f] < Created[g] \/ Created[g] < Created[f]
      BY <3>1
    <3>3. QED BY <1>4, <3>2
  <2>2. rank \in [S -> 0..n-1]
    BY <1>3
  <2> HIDE DEF rank
  <2>3. QED BY <2>1, <2>2 DEF Injection, IsInjective
<1>6. rank \in Surjection(S, 0..n-1)
  BY <1>2, <1>5, FS_Injection
<1>7. ASSUME NEW i \in 1..n
      PROVE  (CHOOSE f \in S : Cardinality(Newer(f)) = i - 1) \in S
  <2>1. i - 1 \in 0..n-1
    BY <1>1
  <2>2. PICK f \in S : rank[f] = i - 1
    BY <1>6, <2>1 DEF Surjection
  <2>3. QED BY <2>2
<1>8. Newest(S) = [i \in 1..n |-> CHOOSE f \in S : Cardinality(Newer(f)) = i - 1]
  BY DEF Newest
<1> HIDE DEF n, Newer, rank
<1>9. Newest(S) \in [1..n -> S]
  BY <1>7, <1>8
<1>10. QED
  <2>1. Newest(S) \in Seq(S) /\ Len(Newest(S)) = n
    BY <1>1, <1>9
  <2>2. QED BY <2>1 DEF n



(***************************************************************************)
(* The panel's types.                                                      *)
(***************************************************************************)
Fields == {"open", "query", "timer", "list", "total", "page", "scroll", "load", "begun", "more", "ops", "dialog", "selected",
           "processing", "detail", "writes", "written", "sends", "drafts", "stale"}

Draft == [text : Text \cup {None}, sent : Reply \cup {None}, sending : {"no", "asked", "stored"}, shown : SUBSET Reply]
Write == [seq : Nat, replies : SUBSET Reply]
Record == [status : {"open", "closed", "gone"}, replies : SUBSET Reply]
Outcome == {"sent", "applied", "ok", "failed"}

IsP(s) ==
  /\ DOMAIN s = Fields
  /\ {s.open, s.timer, s.dialog, s.processing, s.stale} \subseteq BOOLEAN
  /\ s.query \in Query /\ s.scroll \in Feedback \cup {None} /\ s.selected \subseteq Feedback
  /\ {s.total, s.page, s.begun, s.written, s.sends} \subseteq Nat /\ s.page > 0
  /\ s.list \in Seq(Card) /\ s.detail \in View \cup {None}
  /\ s.load \in Load \cup {None} /\ s.more \in More \cup {None} /\ s.ops \in Seq(Op)
  /\ s.writes \in [Feedback -> Write] /\ s.drafts \in [Feedback -> Draft]

\* s and t differ in the fields of C at most.
Same(s, t, C) == \A k \in Fields \ C : t[k] = s[k]

TypeInv ==
  /\ server \in [Feedback -> Record]
  /\ budget \in [Budgeted -> Nat] /\ budget.pageSize > 0
  /\ IsP(p)

(***************************************************************************)
(* The inductive invariant, of the server's feedbacks v and a panel s.     *)
(***************************************************************************)
\* How a write stands, and the writes of the detail view: one per feedback.
OpSound(op, begun) ==
  /\ op.load <= begun
  /\ op.via = "detail" => \E f \in Feedback : DOMAIN op.calls = {f}
  /\ op.to = "run" => op.via = "detail"
  /\ op.load > 0 /\ op.to # "run" => \A f \in DOMAIN op.calls : op.calls[f] \in {"ok", "failed"}
  /\ op.via = "none" => op = Done
OpsSound(ops, begun) ==
  /\ \A k \in DOMAIN ops : OpSound(ops[k], begun)
  /\ \A k, l \in DOMAIN ops :
       ops[k].via = "detail" /\ ops[l].via = "detail" /\ DOMAIN ops[k].calls = DOMAIN ops[l].calls => k = l

\* The view is locked as long as a write of a detail view runs on its feedback.
DetailRuns(ops, f) == \E k \in DOMAIN ops : ops[k].via = "detail" /\ f \in DOMAIN ops[k].calls
Locked(ops, detail) == detail # None => (detail.locked <=> DetailRuns(ops, detail.id))

\* What is drawn holds the replies the visitor was told of.
ListKeeps(list, writes) == \A i \in DOMAIN list : writes[list[i].id].replies \subseteq list[i].replies
ViewKeeps(detail, drafts, writes) == detail # None => writes[detail.id].replies \subseteq drafts[detail.id].shown

\* The replies told of are stored; rows read since the `since`-th of them hold those before it.
WritesStored(v, writes, written) ==
  \A f \in Feedback : writes[f].replies \subseteq v[f].replies /\ writes[f].seq <= written
ReadSince(writes, rows, since) ==
  \A i \in DOMAIN rows : writes[rows[i].id].seq <= since => writes[rows[i].id].replies \subseteq rows[i].replies
LoadSince(load, writes, written) ==
  load # None => /\ load.since <= written /\ ReadSince(writes, load.rows, load.since)
                 /\ load.answer # None => ReadSince(writes, load.answer.rows, load.since)
MoreSince(more, writes, written) ==
  more # None => /\ more.since <= written
                 /\ more.answer # None => ReadSince(writes, more.answer.rows, more.since)

\* A clientId stands for one text, and what is being sent is the text of the draft.
DraftSound(d, replies, sends) ==
  /\ d.sending # "no" => d.sent # None /\ d.sent.body = d.text /\ d.text # None
  /\ d.sent # None => d.sent.id <= sends /\ \A r \in replies : r.id = d.sent.id => r = d.sent
  /\ \A r \in replies : r.id <= sends
  /\ d.sending = "stored" => d.sent \in replies
DraftsSound(v, drafts, sends) == \A f \in Feedback : DraftSound(drafts[f], v[f].replies, sends)

BegunSound(load, more, begun) ==
  /\ load # None => begun > 0
  /\ more # None => more.begun <= begun /\ more.page > 0

Steady(v, s) ==
  /\ IsP(s) /\ OpsSound(s.ops, s.begun) /\ ListKeeps(s.list, s.writes) /\ ViewKeeps(s.detail, s.drafts, s.writes)
  /\ WritesStored(v, s.writes, s.written) /\ LoadSince(s.load, s.writes, s.written) /\ MoreSince(s.more, s.writes, s.written)
  /\ DraftsSound(v, s.drafts, s.sends) /\ BegunSound(s.load, s.more, s.begun)
Sound(v, s) == Steady(v, s) /\ Locked(s.ops, s.detail)

(***************************************************************************)
(* How the lists agree with the server, with pages of n rows.              *)
(***************************************************************************)
\* A write the server may have applied, and the panel has not reloaded for yet.
OpDirty(op) == op.load = 0 /\ op.to # "run" /\ \E f \in DOMAIN op.calls : op.calls[f] \in {"applied", "ok"}
Dirty(ops) == \E k \in DOMAIN ops : OpDirty(ops[k])

\* Rows with the server's replies, but for those that landed since and the one stored and not yet answered.
Landing(drafts, f) == IF drafts[f].sending = "stored" THEN {drafts[f].sent} ELSE {}
Landed(writes, f, since) == IF writes[f].seq > since THEN writes[f].replies ELSE {}
Whole(v, s, row, extra) == row.replies \cup extra \cup Landing(s.drafts, row.id) = v[row.id].replies
Threads(v, s, rows, since) == \A i \in DOMAIN rows : Whole(v, s, rows[i], Landed(s.writes, rows[i].id, since))

\* Rows from..to of what the server lists under query q.
OnServer(v, q) == Newest({f \in Feedback : v[f].status \in Listed[q]})
Lesser(a, b) == IF a < b THEN a ELSE b
Cut(v, q, from, to, rows) ==
  LET all == OnServer(v, q)
      end == Lesser(to, Len(all))
  IN  /\ Len(rows) = (IF from < end THEN end - from ELSE 0)
      /\ \A i \in DOMAIN rows : rows[i].id = all[from + i] /\ rows[i].status = v[rows[i].id].status
PageAt(v, n, q, m, a) == a.total = Len(OnServer(v, q)) /\ Cut(v, q, (m - 1) * n, m * n, a.rows)

LoadFresh(v, n, s) ==
  s.load # None =>
    /\ ~s.timer => s.load.query = s.query
    /\ Threads(v, s, s.load.rows, s.load.since)
    /\ s.load.answer # None => Threads(v, s, s.load.answer.rows, s.load.since)
    /\ ~Dirty(s.ops) => /\ Cut(v, s.load.query, 0, s.load.got * n, s.load.rows)
                        /\ s.load.answer # None => PageAt(v, n, s.load.query, s.load.got + 1, s.load.answer)
ListFresh(v, n, s) ==
  /\ \A i \in DOMAIN s.list : Whole(v, s, s.list[i], {})
  /\ ~Dirty(s.ops) /\ ~s.timer =>
       s.total = Len(OnServer(v, s.query)) /\ Cut(v, s.query, 0, s.page * n, s.list)
MoreFresh(v, n, s) ==
  s.more # None /\ s.more.begun = s.begun =>
    /\ ~s.timer => s.more.query = s.query
    /\ s.more.answer # None => /\ Threads(v, s, s.more.answer.rows, s.more.since)
                               /\ ~Dirty(s.ops) => PageAt(v, n, s.more.query, s.more.page, s.more.answer)
Fresh(v, n, s) ==
  ~s.stale /\ s.begun > 0 => LoadFresh(v, n, s) /\ (s.load = None => ListFresh(v, n, s)) /\ MoreFresh(v, n, s)

IInv == TypeInv /\ Sound(server, p) /\ Fresh(server, budget.pageSize, p)

\* s and t look the same to Fresh.
SameDrafts(d, e) == \A f \in Feedback : Landing(e, f) = Landing(d, f)
Alike(s, t) ==
  /\ Same(s, t, {"open", "scroll", "dialog", "selected", "processing", "detail", "drafts", "ops", "sends"})
  /\ SameDrafts(s.drafts, t.drafts) /\ (Dirty(s.ops) <=> Dirty(t.ops))

LEMMA AlikeTwice ==
  ASSUME NEW s, NEW t, NEW u, Alike(s, t), Alike(t, u)
  PROVE  Alike(s, u)
BY DEF Alike, Same, SameDrafts

LEMMA AlikeFields ==
  ASSUME NEW s, NEW t, Alike(s, t)
  PROVE  /\ t.query = s.query /\ t.timer = s.timer /\ t.list = s.list /\ t.total = s.total /\ t.page = s.page
         /\ t.load = s.load /\ t.begun = s.begun /\ t.more = s.more /\ t.writes = s.writes /\ t.written = s.written
         /\ t.stale = s.stale /\ (Dirty(s.ops) <=> Dirty(t.ops)) /\ SameDrafts(s.drafts, t.drafts)
BY DEF Alike, Same, Fields

\* Rows of feedbacks.
Rows(rows) == \A i \in DOMAIN rows : rows[i].id \in Feedback

LEMMA ThreadsAlike ==
  ASSUME NEW v, NEW s, NEW t, SameDrafts(s.drafts, t.drafts), NEW rows, Rows(rows)
  PROVE  /\ \A since : t.writes = s.writes /\ Threads(v, s, rows, since) => Threads(v, t, rows, since)
         /\ (\A i \in DOMAIN rows : Whole(v, s, rows[i], {})) => \A i \in DOMAIN rows : Whole(v, t, rows[i], {})
<1>1. \A f \in Feedback : Landing(t.drafts, f) = Landing(s.drafts, f)
  BY DEF SameDrafts
<1>2. \A extra : \A i \in DOMAIN rows : Whole(v, s, rows[i], extra) => Whole(v, t, rows[i], extra)
  BY <1>1 DEF Whole, Rows
<1>3. QED BY <1>2 DEF Threads

LEMMA CardRows ==
  ASSUME NEW rows \in Seq(Card)
  PROVE  Rows(rows)
<1>1. ASSUME NEW i \in DOMAIN rows
      PROVE  rows[i].id \in Feedback
  <2>1. rows[i] \in Card
    BY <1>1
  <2>2. QED BY <2>1 DEF Card
<1>2. QED BY <1>1 DEF Rows

LEMMA LoadRows ==
  ASSUME NEW s, IsP(s)
  PROVE  /\ Rows(s.list)
         /\ s.load # None => Rows(s.load.rows) /\ (s.load.answer # None => Rows(s.load.answer.rows))
         /\ s.more # None => (s.more.answer # None => Rows(s.more.answer.rows))
BY CardRows DEF IsP, Load, More, Answer

LEMMA FreshAlike ==
  ASSUME NEW v, NEW n, NEW s, NEW t, Alike(s, t), IsP(s)
  PROVE  /\ LoadFresh(v, n, s) => LoadFresh(v, n, t)
         /\ ListFresh(v, n, s) => ListFresh(v, n, t)
         /\ MoreFresh(v, n, s) => MoreFresh(v, n, t)
         /\ Fresh(v, n, s) => Fresh(v, n, t)
<1>1. LoadFresh(v, n, s) => LoadFresh(v, n, t)
  BY AlikeFields, LoadRows, ThreadsAlike DEF LoadFresh
<1>2. ListFresh(v, n, s) => ListFresh(v, n, t)
  <2>1. (\A i \in DOMAIN s.list : Whole(v, s, s.list[i], {})) => \A i \in DOMAIN t.list : Whole(v, t, t.list[i], {})
    <3>1. t.list = s.list /\ SameDrafts(s.drafts, t.drafts)
      BY AlikeFields
    <3>2. (\A i \in DOMAIN s.list : Whole(v, s, s.list[i], {})) => \A i \in DOMAIN s.list : Whole(v, t, s.list[i], {})
      BY <3>1, LoadRows, ThreadsAlike
    <3>3. QED BY <3>1, <3>2
  <2>2. QED BY <2>1, AlikeFields DEF ListFresh
<1>3. MoreFresh(v, n, s) => MoreFresh(v, n, t)
  BY AlikeFields, LoadRows, ThreadsAlike DEF MoreFresh
<1>4. QED BY <1>1, <1>2, <1>3, AlikeFields DEF Fresh



(***************************************************************************)
(* Writes.                                                                 *)
(***************************************************************************)
LEMMA OpTypes ==
  ASSUME NEW op \in Op
  PROVE  /\ op.via \in {"list", "detail", "bulk", "all", "none"} /\ op.to \in {"open", "closed", "gone", "run"}
         /\ op.load \in Nat /\ DOMAIN op.calls \subseteq Feedback /\ op.calls \in [DOMAIN op.calls -> Outcome]
<1>1. PICK S \in SUBSET Feedback : op.calls \in [S -> Outcome]
  BY DEF Op, Outcome
<1>2. QED BY <1>1 DEF Op

LEMMA OpMade ==
  ASSUME NEW via \in {"list", "detail", "bulk", "all", "none"}, NEW to \in {"open", "closed", "gone", "run"},
         NEW S \in SUBSET Feedback, NEW calls \in [S -> Outcome], NEW load \in Nat
  PROVE  [via |-> via, to |-> to, calls |-> calls, load |-> load] \in Op
<1>1. calls \in UNION {[R -> Outcome] : R \in SUBSET Feedback}
  OBVIOUS
<1>2. QED BY <1>1 DEF Op, Outcome

LEMMA DoneIsOp == Done \in Op /\ DOMAIN Done.calls = {} /\ \A begun \in Nat : OpSound(Done, begun)
<1>1. <<>> \in [{} -> Outcome] /\ DOMAIN <<>> = {}
  OBVIOUS
<1>2. Done \in Op
  BY <1>1, OpMade DEF Done
<1>3. QED BY <1>1, <1>2 DEF Done, OpSound

\* A write is replaced by x.
LEMMA OpsSet ==
  ASSUME NEW ops \in Seq(Op), NEW k \in DOMAIN ops, NEW x \in Op
  PROVE  LET o == [ops EXCEPT ![k] = x] IN
         o \in Seq(Op) /\ DOMAIN o = DOMAIN ops /\ o[k] = x /\ \A j \in DOMAIN ops : j # k => o[j] = ops[j]
OBVIOUS

\* It is over, or it goes on with the same feedbacks.
Replaces(x, op) == x = Done \/ (x.via = op.via /\ DOMAIN x.calls = DOMAIN op.calls)

LEMMA OpsSoundSet ==
  ASSUME NEW begun \in Nat, NEW ops \in Seq(Op), OpsSound(ops, begun), NEW k \in DOMAIN ops,
         NEW x \in Op, OpSound(x, begun), Replaces(x, ops[k])
  PROVE  LET o == [ops EXCEPT ![k] = x] IN
         /\ OpsSound(o, begun)
         /\ x # Done => \A f : DetailRuns(o, f) <=> DetailRuns(ops, f)
         /\ (OpDirty(x) <=> OpDirty(ops[k])) => (Dirty(o) <=> Dirty(ops))
<1>o. PICK o : o = [ops EXCEPT ![k] = x]
  OBVIOUS
<1>1. DOMAIN o = DOMAIN ops /\ o[k] = x /\ \A j \in DOMAIN ops : j # k => o[j] = ops[j]
  BY <1>o, OpsSet
<1>2. Done.via = "none"
  BY DEF Done
<1>3. OpsSound(o, begun)
  BY <1>1, <1>2 DEF OpsSound, Replaces
<1>4. ASSUME x # Done
      PROVE  \A f : DetailRuns(o, f) <=> DetailRuns(ops, f)
  BY <1>1, <1>4 DEF DetailRuns, Replaces
<1>5. ASSUME OpDirty(x) <=> OpDirty(ops[k])
      PROVE  Dirty(o) <=> Dirty(ops)
  BY <1>1, <1>5 DEF Dirty
<1>6. QED BY <1>o, <1>3, <1>4, <1>5

LEMMA RunningDetail ==
  ASSUME NEW s, NEW f
  PROVE  f \in Running(s, "detail") <=> DetailRuns(s.ops, f)
BY DEF Running, DetailRuns

(***************************************************************************)
(* The panel's operators.                                                  *)
(***************************************************************************)
\* What lies beside the invariant.
LEMMA SoundBeside ==
  ASSUME NEW v, NEW s, Sound(v, s), NEW t, IsP(t),
         Same(s, t, {"open", "scroll", "dialog", "selected", "processing", "query", "timer", "total", "page", "stale"})
  PROVE  Sound(v, t)
<1>1. /\ t.ops = s.ops /\ t.begun = s.begun /\ t.list = s.list /\ t.writes = s.writes /\ t.detail = s.detail
      /\ t.drafts = s.drafts /\ t.written = s.written /\ t.load = s.load /\ t.more = s.more /\ t.sends = s.sends
  BY DEF Same, Fields
<1>2. QED BY <1>1 DEF Sound, Steady

LEMMA Beside ==
  ASSUME NEW v, NEW s, Sound(v, s), NEW t, IsP(t), Same(s, t, {"open", "scroll", "dialog", "selected", "processing"})
  PROVE  Sound(v, t) /\ Alike(s, t)
<1>1. Sound(v, t)
  <2>1. Same(s, t, {"open", "scroll", "dialog", "selected", "processing", "query", "timer", "total", "page", "stale"})
    BY DEF Same
  <2>2. QED BY <2>1, SoundBeside
<1>2. t.drafts = s.drafts /\ t.ops = s.ops
  BY DEF Same, Fields
<1>3. QED BY <1>1, <1>2 DEF Alike, Same, SameDrafts

\* A write is replaced by x, over or with the same feedbacks.
LEMMA SetOp ==
  ASSUME NEW v, NEW s, Steady(v, s), NEW k \in DOMAIN s.ops, NEW x \in Op, OpSound(x, s.begun),
         Replaces(x, s.ops[k])
  PROVE  LET t == [s EXCEPT !.ops = [s.ops EXCEPT ![k] = x]] IN
         /\ Steady(v, t) /\ Same(s, t, {"ops"}) /\ t.ops = [s.ops EXCEPT ![k] = x]
         /\ x # Done /\ Locked(s.ops, s.detail) => Sound(v, t)
         /\ (OpDirty(x) <=> OpDirty(s.ops[k])) => Alike(s, t)
<1>o. PICK o : o = [s.ops EXCEPT ![k] = x]
  OBVIOUS
<1>t. PICK t : t = [s EXCEPT !.ops = o]
  OBVIOUS
<1>1. IsP(s) /\ s.ops \in Seq(Op) /\ s.begun \in Nat /\ OpsSound(s.ops, s.begun)
  BY DEF Steady, IsP
<1>2. o \in Seq(Op) /\ DOMAIN o = DOMAIN s.ops /\ o[k] = x
  BY <1>o, <1>1, OpsSet
<1>3. /\ OpsSound(o, s.begun)
      /\ x # Done => \A f : DetailRuns(o, f) <=> DetailRuns(s.ops, f)
      /\ (OpDirty(x) <=> OpDirty(s.ops[k])) => (Dirty(o) <=> Dirty(s.ops))
  BY <1>o, <1>1, OpsSoundSet
<1>4. IsP(t) /\ Same(s, t, {"ops"}) /\ t.ops = o
  <2>1. IsP(t)
    BY <1>t, <1>1, <1>2 DEF IsP, Fields
  <2>2. QED BY <1>t, <1>1, <2>1 DEF IsP, Same, Fields
<1>5. /\ t.begun = s.begun /\ t.list = s.list /\ t.writes = s.writes /\ t.detail = s.detail
      /\ t.drafts = s.drafts /\ t.written = s.written /\ t.load = s.load /\ t.more = s.more /\ t.sends = s.sends
  BY <1>4 DEF Same, Fields
<1>6. Steady(v, t)
  BY <1>3, <1>4, <1>5 DEF Steady
<1>7. ASSUME x # Done, Locked(s.ops, s.detail)
      PROVE  Sound(v, t)
  BY <1>3, <1>4, <1>5, <1>6, <1>7 DEF Sound, Locked
<1>8. ASSUME OpDirty(x) <=> OpDirty(s.ops[k])
      PROVE  Alike(s, t)
  BY <1>3, <1>4, <1>5, <1>8 DEF Alike, Same, SameDrafts
<1>9. QED BY <1>o, <1>t, <1>4, <1>6, <1>7, <1>8

\* The feedback of a write of the detail view.
LEMMA SubjectIs ==
  ASSUME NEW begun, NEW op, OpSound(op, begun), op.via = "detail"
  PROVE  Subject(op) \in Feedback /\ DOMAIN op.calls = {Subject(op)}
<1>1. PICK f \in Feedback : DOMAIN op.calls = {f}
  BY DEF OpSound
<1>2. QED BY <1>1 DEF Subject

\* A write is over: of the detail view, its feedback is free.
LEMMA OverFacts ==
  ASSUME NEW v, NEW s, Sound(v, s), NEW k \in DOMAIN s.ops, ~OpDirty(s.ops[k])
  PROVE  LET t == Over(s, k) IN
         /\ Steady(v, t) /\ Alike(s, t) /\ Same(s, t, {"ops"})
         /\ s.ops[k].via # "detail" => Sound(v, t)
         /\ s.ops[k].via = "detail" =>
              \A f : DetailRuns(t.ops, f) <=> DetailRuns(s.ops, f) /\ f # Subject(s.ops[k])
<1>t. PICK t : t = [s EXCEPT !.ops = [s.ops EXCEPT ![k] = Done]]
  OBVIOUS
<1>1. IsP(s) /\ s.ops \in Seq(Op) /\ s.begun \in Nat /\ OpsSound(s.ops, s.begun) /\ Locked(s.ops, s.detail) /\ Steady(v, s)
  BY DEF Sound, Steady, IsP
<1>2. Over(s, k) = t
  BY <1>t, <1>1 DEF Over, IsP, Fields
<1>3. Done \in Op /\ OpSound(Done, s.begun) /\ DOMAIN Done.calls = {} /\ ~OpDirty(Done)
  BY <1>1, DoneIsOp DEF OpDirty
<1>4. Steady(v, t) /\ Alike(s, t) /\ Same(s, t, {"ops"}) /\ t.ops = [s.ops EXCEPT ![k] = Done]
  <2>x. PICK x : x = Done
    OBVIOUS
  <2>1. Replaces(x, s.ops[k])
    BY <2>x DEF Replaces
  <2>2. OpDirty(x) <=> OpDirty(s.ops[k])
    BY <2>x, <1>3 DEF OpDirty
  <2>3. x \in Op /\ OpSound(x, s.begun) /\ t = [s EXCEPT !.ops = [s.ops EXCEPT ![k] = x]]
    BY <1>t, <1>3, <2>x
  <2>4. Steady(v, t) /\ Alike(s, t) /\ Same(s, t, {"ops"}) /\ t.ops = [s.ops EXCEPT ![k] = x]
    <3>1. Steady(v, s)
      BY <1>1
    <3>2. Steady(v, t)
      BY <3>1, <2>1, <2>3, SetOp
    <3>3. Same(s, t, {"ops"}) /\ t.ops = [s.ops EXCEPT ![k] = x]
      BY <3>1, <2>1, <2>3, SetOp
    <3>4. Alike(s, t)
      BY <3>1, <2>1, <2>2, <2>3, SetOp
    <3>5. QED BY <3>2, <3>3, <3>4
  <2>5. QED BY <2>x, <2>4
<1>5. DOMAIN t.ops = DOMAIN s.ops /\ t.ops[k] = Done /\ \A j \in DOMAIN s.ops : j # k => t.ops[j] = s.ops[j]
  BY <1>1, <1>3, <1>4, OpsSet
<1>6. Done.via = "none"
  BY DEF Done
<1>7. ASSUME s.ops[k].via # "detail"
      PROVE  Sound(v, t)
  <2>1. \A f : DetailRuns(t.ops, f) <=> DetailRuns(s.ops, f)
    BY <1>5, <1>6, <1>7 DEF DetailRuns
  <2>2. t.detail = s.detail
    BY <1>4 DEF Same, Fields
  <2>3. QED BY <1>1, <1>4, <2>1, <2>2 DEF Sound, Locked
<1>8. ASSUME s.ops[k].via = "detail", NEW f
      PROVE  DetailRuns(t.ops, f) <=> DetailRuns(s.ops, f) /\ f # Subject(s.ops[k])
  <2>1. DOMAIN s.ops[k].calls = {Subject(s.ops[k])}
    BY <1>1, <1>8, SubjectIs DEF OpsSound
  <2>2. ASSUME NEW j \in DOMAIN s.ops, j # k, s.ops[j].via = "detail"
        PROVE  Subject(s.ops[k]) \notin DOMAIN s.ops[j].calls
    <3>1. DOMAIN s.ops[j].calls = {Subject(s.ops[j])}
      BY <1>1, <2>2, SubjectIs DEF OpsSound
    <3>2. DOMAIN s.ops[j].calls # DOMAIN s.ops[k].calls
      BY <1>1, <1>8, <2>2 DEF OpsSound
    <3>3. QED BY <2>1, <3>1, <3>2
  <2>3. QED BY <1>5, <1>6, <1>8, <2>1, <2>2 DEF DetailRuns
<1>9. QED BY <1>2, <1>4, <1>7, <1>8



\* Nothing is drawn.
LEMMA HideFacts ==
  ASSUME NEW v, NEW s, Steady(v, s)
  PROVE  LET t == Hide(s) IN Sound(v, t) /\ Alike(s, t) /\ Same(s, t, {"detail"}) /\ t.detail = None
<1>t. PICK t : t = Hide(s)
  OBVIOUS
<1>1. IsP(s)
  BY DEF Steady
<1>2. IsP(t) /\ Same(s, t, {"detail"}) /\ t.detail = None
  <2>1. IsP(t)
    BY <1>t, <1>1 DEF Hide, IsP, Fields
  <2>2. QED BY <1>t, <1>1, <2>1 DEF Hide, Same, IsP, Fields
<1>3. /\ t.ops = s.ops /\ t.begun = s.begun /\ t.list = s.list /\ t.writes = s.writes /\ t.sends = s.sends
      /\ t.drafts = s.drafts /\ t.written = s.written /\ t.load = s.load /\ t.more = s.more
  BY <1>2 DEF Same, Fields
<1>4. Sound(v, t)
  BY <1>2, <1>3 DEF Sound, Steady, Locked, ViewKeeps
<1>5. Alike(s, t)
  BY <1>2, <1>3 DEF Alike, Same, SameDrafts
<1>6. QED BY <1>t, <1>2, <1>4, <1>5

\* The record of a feedback in a list.
LEMMA RowOfFacts ==
  ASSUME NEW rows \in Seq(Card), NEW f \in Ids(rows)
  PROVE  f \in Feedback /\ RowOf(rows, f) \in Card /\ \E i \in DOMAIN rows : rows[i] = RowOf(rows, f) /\ rows[i].id = f
<1>1. PICK i \in DOMAIN rows : rows[i].id = f
  BY DEF Ids
<1>2. PICK j \in DOMAIN rows : RowOf(rows, f) = rows[j] /\ rows[j].id = f
  BY <1>1 DEF RowOf
<1>3. rows[j] \in Card
  OBVIOUS
<1>4. QED BY <1>2, <1>3 DEF Card

\* A feedback of the list is drawn, locked as it should be, with the replies of its record.
LEMMA ShowFacts ==
  ASSUME NEW v, NEW s, Steady(v, s), NEW f \in Ids(s.list)
  PROVE  LET t == Show(s, f) IN Sound(v, t) /\ Alike(s, t) /\ Same(s, t, {"detail", "drafts"}) /\ t.detail # None /\ t.detail.id = f
<1> DEFINE row == RowOf(s.list, f)
<1>x. PICK x : x = [id |-> f, status |-> row.status, locked |-> f \in Running(s, "detail")]
  OBVIOUS
<1>d. PICK d : d = [s.drafts EXCEPT ![f].shown = row.replies]
  OBVIOUS
<1>t. PICK t : t = Show(s, f)
  OBVIOUS
<1>1. IsP(s) /\ s.list \in Seq(Card) /\ s.drafts \in [Feedback -> Draft] /\ s.writes \in [Feedback -> Write]
  BY DEF Steady, IsP
<1>2. f \in Feedback /\ row \in Card /\ \E i \in DOMAIN s.list : s.list[i] = row /\ row.id = f
  BY <1>1, RowOfFacts
<1>3. row.status \in {"open", "closed", "gone"} /\ row.replies \subseteq Reply
  BY <1>2 DEF Card
<1>4. t = [s EXCEPT !.detail = x, !.drafts = d]
  BY <1>t, <1>x, <1>d, <1>1 DEF Show, Thread, IsP, Fields
<1> HIDE DEF row
<1>5. x \in View /\ x # None /\ x.id = f /\ (x.locked <=> DetailRuns(s.ops, f))
  <2>1. (f \in Running(s, "detail")) \in BOOLEAN
    OBVIOUS
  <2>2. x \in View /\ x.id = f /\ (x.locked <=> f \in Running(s, "detail"))
    BY <1>x, <1>2, <1>3, <2>1 DEF View
  <2>3. QED BY <2>2, RunningDetail, PanelAssumption
<1>6. /\ d \in [Feedback -> Draft] /\ SameDrafts(s.drafts, d) /\ d[f].shown = row.replies
      /\ \A g \in Feedback : d[g].text = s.drafts[g].text /\ d[g].sent = s.drafts[g].sent /\ d[g].sending = s.drafts[g].sending
  <2>1. d[f] = [s.drafts[f] EXCEPT !.shown = row.replies] /\ \A g \in Feedback : g # f => d[g] = s.drafts[g]
    BY <1>d, <1>1, <1>2
  <2>2. s.drafts[f] \in Draft
    BY <1>1, <1>2
  <2>3. /\ d[f] \in Draft /\ d[f].shown = row.replies
        /\ d[f].text = s.drafts[f].text /\ d[f].sent = s.drafts[f].sent /\ d[f].sending = s.drafts[f].sending
    BY <1>3, <2>1, <2>2 DEF Draft
  <2>4. d \in [Feedback -> Draft]
    BY <1>d, <1>1, <2>1, <2>3
  <2>5. \A g \in Feedback : d[g].text = s.drafts[g].text /\ d[g].sent = s.drafts[g].sent /\ d[g].sending = s.drafts[g].sending
    BY <2>1, <2>3
  <2>6. QED BY <2>3, <2>4, <2>5 DEF SameDrafts, Landing
<1>7. IsP(t) /\ Same(s, t, {"detail", "drafts"}) /\ t.detail = x /\ t.drafts = d
  <2>1. IsP(t)
    BY <1>1, <1>4, <1>5, <1>6 DEF IsP, Fields
  <2>2. QED BY <1>1, <1>4, <2>1 DEF Same, IsP, Fields
<1>8. /\ t.ops = s.ops /\ t.begun = s.begun /\ t.list = s.list /\ t.writes = s.writes /\ t.sends = s.sends
      /\ t.written = s.written /\ t.load = s.load /\ t.more = s.more
  BY <1>7 DEF Same, Fields
<1>9. ViewKeeps(t.detail, t.drafts, t.writes)
  <2>1. s.writes[f].replies \subseteq row.replies
    BY <1>2 DEF Steady, ListKeeps
  <2>2. QED BY <1>5, <1>6, <1>7, <1>8, <2>1 DEF ViewKeeps
<1>10. DraftsSound(v, t.drafts, t.sends)
  <2>1. DraftsSound(v, s.drafts, s.sends)
    BY DEF Steady
  <2>2. QED BY <1>6, <1>7, <1>8, <2>1 DEF DraftsSound, DraftSound
<1>11. Sound(v, t)
  <2>1. Steady(v, t)
    BY <1>7, <1>8, <1>9, <1>10 DEF Steady
  <2>2. Locked(t.ops, t.detail)
    BY <1>5, <1>7, <1>8 DEF Locked
  <2>3. QED BY <2>1, <2>2 DEF Sound
<1>12. Alike(s, t)
  <2>1. SameDrafts(s.drafts, t.drafts) /\ t.ops = s.ops
    BY <1>6, <1>7, <1>8
  <2>2. QED BY <1>7, <2>1 DEF Alike, Same
<1>13. QED BY <1>t, <1>5, <1>7, <1>11, <1>12

LEMMA AlikeSelf ==
  ASSUME NEW s
  PROVE  Alike(s, s)
BY DEF Alike, Same, SameDrafts

LEMMA FlashCardFacts ==
  ASSUME NEW v, NEW s, Sound(v, s), NEW f
  PROVE  LET t == FlashCard(s, f) IN Sound(v, t) /\ Alike(s, t) /\ Same(s, t, {"detail", "drafts"})
<1>1. CASE f \in Ids(s.list)
  BY <1>1, ShowFacts DEF FlashCard, Sound
<1>2. CASE f \notin Ids(s.list)
  BY <1>2, AlikeSelf DEF FlashCard, Same
<1>3. QED BY <1>1, <1>2

LEMMA RefreshDetailFacts ==
  ASSUME NEW v, NEW s, Sound(v, s), NEW f
  PROVE  LET t == RefreshDetail(s, f) IN Sound(v, t) /\ Alike(s, t) /\ Same(s, t, {"detail", "drafts"})
<1>0. Steady(v, s)
  BY DEF Sound
<1>1. CASE ~OnScreen(s, f)
  BY <1>1, AlikeSelf DEF RefreshDetail, Same
<1>2. CASE OnScreen(s, f) /\ f \in Ids(s.list)
  BY <1>0, <1>2, ShowFacts DEF RefreshDetail
<1>3. CASE OnScreen(s, f) /\ f \notin Ids(s.list)
  <2>1. RefreshDetail(s, f) = Hide(s)
    BY <1>3 DEF RefreshDetail
  <2>2. QED BY <1>0, <2>1, HideFacts DEF Same
<1>4. QED BY <1>1, <1>2, <1>3

\* A write of the detail view is over: its view leaves, or is free.
LEMMA HideOverFacts ==
  ASSUME NEW v, NEW s, Sound(v, s), NEW k \in DOMAIN s.ops, ~OpDirty(s.ops[k]), s.ops[k].via = "detail"
  PROVE  LET t == HideDetailOf(Over(s, k), Subject(s.ops[k])) IN Sound(v, t) /\ Alike(s, t)
<1>r. PICK r : r = Over(s, k)
  OBVIOUS
<1>f. PICK f : f = Subject(s.ops[k])
  OBVIOUS
<1>1. /\ Steady(v, r) /\ Alike(s, r) /\ Same(s, r, {"ops"})
      /\ \A g : DetailRuns(r.ops, g) <=> DetailRuns(s.ops, g) /\ g # f
  BY <1>r, <1>f, OverFacts
<1>2. CASE OnScreen(r, f)
  <2>1. HideDetailOf(r, f) = Hide(r)
    BY <1>2 DEF HideDetailOf
  <2>2. Sound(v, Hide(r)) /\ Alike(r, Hide(r))
    BY <1>1, HideFacts
  <2>3. QED BY <1>r, <1>f, <1>1, <2>1, <2>2, AlikeTwice
<1>3. CASE ~OnScreen(r, f)
  <2>1. HideDetailOf(r, f) = r
    BY <1>3 DEF HideDetailOf
  <2>2. r.detail = s.detail /\ (r.detail # None => r.detail.id # f)
    BY <1>1, <1>3 DEF Same, Fields, OnScreen
  <2>3. Locked(r.ops, r.detail)
    BY <1>1, <2>2 DEF Sound, Locked
  <2>4. QED BY <1>r, <1>f, <1>1, <2>1, <2>3 DEF Sound
<1>4. QED BY <1>2, <1>3

LEMMA UnlockOverFacts ==
  ASSUME NEW v, NEW s, Sound(v, s), NEW k \in DOMAIN s.ops, ~OpDirty(s.ops[k]), s.ops[k].via = "detail"
  PROVE  LET t == Unlock(Over(s, k), Subject(s.ops[k])) IN Sound(v, t) /\ Alike(s, t)
<1>r. PICK r : r = Over(s, k)
  OBVIOUS
<1>f. PICK f : f = Subject(s.ops[k])
  OBVIOUS
<1>1. /\ Steady(v, r) /\ Alike(s, r) /\ Same(s, r, {"ops"})
      /\ \A g : DetailRuns(r.ops, g) <=> DetailRuns(s.ops, g) /\ g # f
  BY <1>r, <1>f, OverFacts
<1>2. CASE OnScreen(r, f)
  <2>0. IsP(r) /\ r.detail \in View /\ r.detail.id = f
    BY <1>1, <1>2 DEF Steady, IsP, OnScreen
  <2>x. PICK x : x = [r.detail EXCEPT !.locked = FALSE]
    OBVIOUS
  <2>t. PICK t : t = [r EXCEPT !.detail = x]
    OBVIOUS
  <2>1. Unlock(r, f) = t
    BY <1>2, <2>x, <2>t, <2>0 DEF Unlock, IsP, Fields
  <2>2. x \in View /\ x.id = f /\ ~x.locked
    BY <2>0, <2>x DEF View
  <2>3. IsP(t) /\ Same(r, t, {"detail"}) /\ t.detail = x
    <3>1. IsP(t)
      BY <2>0, <2>t, <2>2 DEF IsP, Fields
    <3>2. QED BY <2>0, <2>t, <3>1 DEF Same, IsP, Fields
  <2>4. /\ t.ops = r.ops /\ t.begun = r.begun /\ t.list = r.list /\ t.writes = r.writes /\ t.sends = r.sends
        /\ t.drafts = r.drafts /\ t.written = r.written /\ t.load = r.load /\ t.more = r.more
    BY <2>3 DEF Same, Fields
  <2>5. ViewKeeps(t.detail, t.drafts, t.writes)
    BY <1>1, <1>2, <2>0, <2>2, <2>3, <2>4 DEF Steady, ViewKeeps, OnScreen
  <2>6. Steady(v, t)
    BY <1>1, <2>3, <2>4, <2>5 DEF Steady
  <2>7. Locked(t.ops, t.detail)
    BY <1>1, <2>2, <2>3, <2>4 DEF Locked
  <2>8. Alike(r, t)
    BY <2>3, <2>4 DEF Alike, Same, SameDrafts
  <2>9. QED BY <1>r, <1>f, <1>1, <2>1, <2>6, <2>7, <2>8, AlikeTwice DEF Sound
<1>3. CASE ~OnScreen(r, f)
  <2>1. Unlock(r, f) = r
    BY <1>3 DEF Unlock
  <2>2. r.detail = s.detail /\ (r.detail # None => r.detail.id # f)
    BY <1>1, <1>3 DEF Same, Fields, OnScreen
  <2>3. Locked(r.ops, r.detail)
    BY <1>1, <2>2 DEF Sound, Locked
  <2>4. QED BY <1>r, <1>f, <1>1, <2>1, <2>3 DEF Sound
<1>4. QED BY <1>2, <1>3



(***************************************************************************)
(* Loads.                                                                  *)
(***************************************************************************)
LEMMA OnServerIsSeq ==
  ASSUME NEW v, NEW q
  PROVE  OnServer(v, q) \in Seq(Feedback) /\ Len(OnServer(v, q)) \in Nat
<1> DEFINE S == {f \in Feedback : v[f].status \in Listed[q]}
<1>1. Newest(S) \in Seq(S)
  BY NewestIsSeq
<1>2. Newest(S) \in Seq(Feedback)
  BY <1>1
<1>3. QED BY <1>2 DEF OnServer

LEMMA NothingCut ==
  ASSUME NEW v, NEW q
  PROVE  Cut(v, q, 0, 0, <<>>)
<1>1. ~(0 < Lesser(0, Len(OnServer(v, q))))
  BY OnServerIsSeq DEF Lesser
<1>2. QED BY <1>1 DEF Cut

\* A load begins from nothing, under the query on screen.
LEMMA LoadFacts ==
  ASSUME NEW v, NEW n \in Nat, NEW s, Sound(v, s), NEW pages \in Nat
  PROVE  LET t == LoadFeedbacks(s, pages) IN
         /\ Sound(v, t) /\ Fresh(v, n, t) /\ Same(s, t, {"page", "stale", "begun", "load"})
         /\ t.begun = s.begun + 1 /\ t.load # None
<1>l. PICK l : l = [query |-> s.query, pages |-> pages, rows |-> <<>>, got |-> 0, since |-> s.written, answer |-> None]
  OBVIOUS
<1>t. PICK t : t = LoadFeedbacks(s, pages)
  OBVIOUS
<1>1. IsP(s) /\ s.query \in Query /\ s.written \in Nat /\ s.begun \in Nat /\ Steady(v, s) /\ Locked(s.ops, s.detail)
  BY DEF Sound, Steady, IsP
<1>2. l \in Load /\ l # None
  <2>1. <<>> \in Seq(Card) /\ None \in Answer \cup {None}
    OBVIOUS
  <2>2. l \in Load
    BY <1>l, <1>1, <2>1 DEF Load
  <2>3. QED BY <2>2, PanelAssumption
<1>3. /\ IsP(t) /\ Same(s, t, {"page", "stale", "begun", "load"})
      /\ t.page = 1 /\ ~t.stale /\ t.begun = s.begun + 1 /\ t.load = l
  <2>1. t = [s EXCEPT !.page = 1, !.stale = FALSE, !.begun = s.begun + 1, !.load = l]
    BY <1>t, <1>l, <1>1 DEF LoadFeedbacks, IsP, Fields
  <2>2. IsP(t)
    BY <1>1, <1>2, <2>1 DEF IsP, Fields
  <2>3. QED BY <1>1, <2>1, <2>2 DEF Same, IsP, Fields
<1>4. /\ t.ops = s.ops /\ t.list = s.list /\ t.writes = s.writes /\ t.sends = s.sends /\ t.detail = s.detail
      /\ t.drafts = s.drafts /\ t.written = s.written /\ t.more = s.more /\ t.query = s.query /\ t.timer = s.timer
  BY <1>3 DEF Same, Fields
<1>5. Sound(v, t)
  <2>1. OpsSound(t.ops, t.begun)
    <3>1. OpsSound(s.ops, s.begun)
      BY <1>1 DEF Steady
    <3>2. \A k \in DOMAIN s.ops : s.ops[k].load \in Nat
      <4>1. \A k \in DOMAIN s.ops : s.ops[k] \in Op
        BY <1>1 DEF IsP
      <4>2. QED BY <4>1, OpTypes
    <3>3. QED BY <1>1, <1>3, <1>4, <3>1, <3>2 DEF OpsSound, OpSound
  <2>2. LoadSince(t.load, t.writes, t.written)
    BY <1>l, <1>1, <1>3, <1>4 DEF LoadSince, ReadSince
  <2>3. BegunSound(t.load, t.more, t.begun)
    <3>1. BegunSound(s.load, s.more, s.begun) /\ (s.more # None => s.more.begun \in Nat)
      BY <1>1 DEF Steady, IsP, More
    <3>2. QED BY <1>1, <1>3, <1>4, <3>1 DEF BegunSound
  <2>4. QED BY <1>1, <1>3, <1>4, <2>1, <2>2, <2>3 DEF Sound, Steady
<1>6. Fresh(v, n, t)
  <2>1. LoadFresh(v, n, t)
    <3>1. t.load.got * n = 0 /\ t.load.rows = <<>> /\ t.load.answer = None /\ t.load.query = t.query
      BY <1>l, <1>3, <1>4
    <3>2. QED BY <3>1, NothingCut DEF LoadFresh, Threads
  <2>2. MoreFresh(v, n, t)
    <3>1. s.more # None => s.more.begun \in Nat /\ s.more.begun <= s.begun
      BY <1>1 DEF Steady, BegunSound, IsP, More
    <3>2. QED BY <1>1, <1>3, <1>4, <3>1 DEF MoreFresh
  <2>3. QED BY <1>2, <1>3, <2>1, <2>2 DEF Fresh
<1>7. QED BY <1>t, <1>2, <1>3, <1>5, <1>6

\* A load for a write, whose calls are all answered.
LEMMA ReloadFacts ==
  ASSUME NEW v, NEW n \in Nat, NEW s, Sound(v, s), NEW pages \in Nat, NEW k \in DOMAIN s.ops, s.ops[k].via # "none",
         s.ops[k].to # "run" => \A f \in DOMAIN s.ops[k].calls : s.ops[k].calls[f] \in {"ok", "failed"}
  PROVE  LET t == Reload(s, k, pages) IN Sound(v, t) /\ Fresh(v, n, t)
<1>r. PICK r : r = LoadFeedbacks(s, pages)
  OBVIOUS
<1>x. PICK x : x = [r.ops[k] EXCEPT !.load = r.begun]
  OBVIOUS
<1>t. PICK t : t = [r EXCEPT !.ops = [r.ops EXCEPT ![k] = x]]
  OBVIOUS
<1>1. Sound(v, r) /\ Fresh(v, n, r) /\ r.ops = s.ops /\ r.begun = s.begun + 1 /\ r.load # None
  <2>1. /\ Sound(v, r) /\ Fresh(v, n, r) /\ Same(s, r, {"page", "stale", "begun", "load"})
        /\ r.begun = s.begun + 1 /\ r.load # None
    BY <1>r, LoadFacts
  <2>2. QED BY <2>1 DEF Same, Fields
<1>2. Steady(v, r) /\ IsP(r) /\ r.ops \in Seq(Op) /\ r.begun \in Nat /\ r.begun > 0 /\ Locked(r.ops, r.detail) /\ ~r.stale
  <2>1. ~r.stale
    BY <1>r DEF LoadFeedbacks, Sound, Steady, IsP, Fields
  <2>2. s.begun \in Nat
    BY DEF Sound, Steady, IsP
  <2>3. Steady(v, r) /\ Locked(r.ops, r.detail) /\ IsP(r)
    BY <1>1 DEF Sound, Steady
  <2>4. r.ops \in Seq(Op) /\ r.begun \in Nat
    BY <2>3 DEF IsP
  <2>5. r.begun > 0
    BY <1>1, <2>2
  <2>6. QED BY <2>1, <2>3, <2>4, <2>5
<1>3. Reload(s, k, pages) = t
  BY <1>r, <1>x, <1>t, <1>1, <1>2 DEF Reload, IsP, Fields
<1>4. r.ops[k] \in Op /\ OpSound(r.ops[k], r.begun) /\ r.ops[k].via # "none"
  BY <1>1, <1>2 DEF Steady, OpsSound
<1>5. x \in Op /\ x.via = r.ops[k].via /\ x.to = r.ops[k].to /\ x.calls = r.ops[k].calls /\ x.load = r.begun
  BY <1>x, <1>2, <1>4 DEF Op
<1>6. OpSound(x, r.begun) /\ x # Done
  BY <1>1, <1>2, <1>4, <1>5 DEF OpSound, Done
<1>7. Sound(v, t) /\ Same(r, t, {"ops"}) /\ t.ops = [r.ops EXCEPT ![k] = x]
  <2>1. Replaces(x, r.ops[k])
    BY <1>5 DEF Replaces
  <2>2. k \in DOMAIN r.ops /\ Steady(v, r)
    BY <1>1, <1>2
  <2>3. Sound(v, t)
    BY <1>2, <1>5, <1>6, <1>t, <2>1, <2>2, SetOp
  <2>4. Same(r, t, {"ops"}) /\ t.ops = [r.ops EXCEPT ![k] = x]
    BY <1>5, <1>6, <1>t, <2>1, <2>2, SetOp
  <2>5. QED BY <2>3, <2>4
<1>8. Fresh(v, n, t)
  <2>1. /\ t.load = r.load /\ t.query = r.query /\ t.timer = r.timer /\ t.more = r.more /\ t.begun = r.begun
        /\ t.stale = r.stale /\ t.writes = r.writes /\ t.drafts = r.drafts
    BY <1>7 DEF Same, Fields
  <2>2. LoadFresh(v, n, t)
    <3>1. t.load.got * n = 0 /\ t.load.rows = <<>> /\ t.load.answer = None /\ t.load.query = t.query
      <4>1. IsP(s)
        BY DEF Sound, Steady
      <4>2. r.load.got = 0 /\ r.load.rows = <<>> /\ r.load.answer = None /\ r.load.query = r.query
        BY <1>r, <4>1 DEF LoadFeedbacks, IsP, Fields
      <4>3. QED BY <2>1, <4>2
    <3>2. QED BY <3>1, NothingCut DEF LoadFresh, Threads
  <2>3. MoreFresh(v, n, t)
    <3>1. IsP(s) /\ s.begun \in Nat /\ (s.more # None => s.more.begun \in Nat /\ s.more.begun <= s.begun)
      BY DEF Sound, Steady, BegunSound, IsP, More
    <3>2. r.more = s.more
      BY <1>r, <3>1 DEF LoadFeedbacks, IsP, Fields
    <3>3. QED BY <1>1, <2>1, <3>1, <3>2 DEF MoreFresh
  <2>4. QED BY <1>1, <2>1, <2>2, <2>3 DEF Fresh
<1>9. QED BY <1>3, <1>7, <1>8

\* The bulk bar is free.
LEMMA SettleBulkFacts ==
  ASSUME NEW v, NEW s, Sound(v, s), NEW failed
  PROVE  LET t == SettleBulk(s, failed) IN Sound(v, t) /\ Alike(s, t)
<1>t. PICK t : t = SettleBulk(s, failed)
  OBVIOUS
<1>1. IsP(s) /\ s.selected \subseteq Feedback /\ Ids(s.list) \subseteq Feedback
  <2>1. IsP(s)
    BY DEF Sound, Steady
  <2>2. QED BY <2>1, LoadRows DEF IsP, Ids, Rows
<1>2. PICK chosen \in SUBSET Feedback : t = [s EXCEPT !.selected = chosen, !.processing = FALSE]
  <2>1. CASE failed = {}
    BY <1>t, <1>1, <2>1 DEF SettleBulk, DeselectAll, IsP, Fields
  <2>2. CASE failed # {} /\ s.processing
    <3>1. t = [s EXCEPT !.selected = s.selected, !.processing = FALSE]
      BY <1>t, <1>1, <2>2 DEF SettleBulk, SelectMore, IsP, Fields
    <3>2. QED BY <1>1, <3>1
  <2>3. CASE failed # {} /\ ~s.processing
    <3>1. t = [s EXCEPT !.selected = s.selected \cup (failed \cap Ids(s.list)), !.processing = FALSE]
      BY <1>t, <1>1, <2>3 DEF SettleBulk, SelectMore, IsP, Fields
    <3>2. QED BY <1>1, <3>1
  <2>4. QED BY <2>1, <2>2, <2>3
<1>3. IsP(t)
  BY <1>1, <1>2 DEF IsP, Fields
<1>4. Same(s, t, {"open", "scroll", "dialog", "selected", "processing"})
  BY <1>1, <1>2, <1>3 DEF Same, IsP, Fields
<1>5. QED BY <1>t, <1>3, <1>4, Beside

\* The code after the reload of a write.
LEMMA ResumeFacts ==
  ASSUME NEW v, NEW s, Sound(v, s), NEW k \in DOMAIN s.ops, ~OpDirty(s.ops[k]), s.ops[k].via # "none"
  PROVE  LET t == Resume(s, k) IN Sound(v, t) /\ Alike(s, t)
<1> DEFINE op == s.ops[k]
<1>1. op \in Op /\ OpSound(op, s.begun) /\ Steady(v, s) /\ IsP(s) /\ s.begun \in Nat /\ Locked(s.ops, s.detail)
  BY DEF Sound, Steady, OpsSound, IsP
<1>2. CASE op.to = "run"
  <2>x. PICK x : x = [op EXCEPT !.load = 0]
    OBVIOUS
  <2>r. PICK r : r = [s EXCEPT !.ops = [s.ops EXCEPT ![k] = x]]
    OBVIOUS
  <2>1. Resume(s, k) = RefreshDetail(r, Subject(op))
    <3>1. r = [s EXCEPT !.ops[k].load = 0]
      BY <1>1, <2>x, <2>r DEF IsP, Fields
    <3>2. op.via = "detail"
      BY <1>1, <1>2 DEF OpSound
    <3>3. QED BY <1>2, <3>1, <3>2 DEF Resume
  <2>2. x \in Op /\ x.via = op.via /\ x.to = op.to /\ x.calls = op.calls /\ x.load = 0
    BY <1>1, <2>x DEF Op
  <2> HIDE DEF op
  <2>3. OpSound(x, s.begun) /\ x # Done /\ ~OpDirty(x)
    BY <1>1, <1>2, <2>2 DEF OpSound, Done, OpDirty
  <2>4. Sound(v, r) /\ Alike(s, r)
    <3>1. Replaces(x, s.ops[k])
      BY <2>2 DEF Replaces, op
    <3>2. OpDirty(x) <=> OpDirty(s.ops[k])
      BY <2>3 DEF OpDirty
    <3>3. Sound(v, r)
      BY <1>1, <2>2, <2>3, <2>r, <3>1, SetOp
    <3>4. Alike(s, r)
      BY <1>1, <2>2, <2>3, <2>r, <3>1, <3>2, SetOp
    <3>5. QED BY <3>3, <3>4
  <2>5. QED BY <2>1, <2>4, RefreshDetailFacts, AlikeTwice
<1>3. CASE op.to # "run" /\ op.via = "detail"
  <2>1. Resume(s, k) = HideDetailOf(Over(s, k), Subject(op))
    BY <1>3 DEF Resume
  <2>2. QED BY <1>3, <2>1, HideOverFacts
<1>4. CASE op.to # "run" /\ op.via = "bulk"
  <2>1. Resume(s, k) = SettleBulk(Over(s, k), Failed(op))
    BY <1>4 DEF Resume
  <2>2. Sound(v, Over(s, k)) /\ Alike(s, Over(s, k))
    BY <1>4, OverFacts
  <2>3. QED BY <2>1, <2>2, SettleBulkFacts, AlikeTwice
<1>5. CASE op.to # "run" /\ op.via \in {"list", "all"}
  <2>1. Resume(s, k) = Over(s, k)
    BY <1>5 DEF Resume
  <2>2. QED BY <1>5, <2>1, OverFacts
<1>6. op.via \in {"list", "detail", "bulk", "all", "none"}
  BY <1>1, OpTypes
<1>7. op.to = "run" => op.via = "detail"
  BY <1>1 DEF OpSound
<1>8. QED BY <1>2, <1>3, <1>4, <1>5, <1>6



(***************************************************************************)
(* The answers of a write.                                                 *)
(***************************************************************************)
\* What some calls of a write become.
LEMMA CallsFacts ==
  ASSUME NEW v, NEW s, Sound(v, s), NEW k \in DOMAIN s.ops, s.ops[k].via # "none", s.ops[k].load = 0,
         NEW calls \in [DOMAIN s.ops[k].calls -> Outcome]
  PROVE  LET t == [s EXCEPT !.ops[k].calls = calls] IN
         /\ Sound(v, t) /\ Same(s, t, {"ops"}) /\ k \in DOMAIN t.ops
         /\ t.ops[k].via = s.ops[k].via /\ t.ops[k].to = s.ops[k].to /\ t.ops[k].calls = calls /\ t.ops[k].load = 0
         /\ (OpDirty(t.ops[k]) <=> OpDirty(s.ops[k])) => Alike(s, t)
         /\ OpDirty(t.ops[k]) => Dirty(t.ops)
<1> DEFINE op == s.ops[k]
<1>x. PICK x : x = [op EXCEPT !.calls = calls]
  OBVIOUS
<1>t. PICK t : t = [s EXCEPT !.ops = [s.ops EXCEPT ![k] = x]]
  OBVIOUS
<1>1. op \in Op /\ OpSound(op, s.begun) /\ Steady(v, s) /\ IsP(s) /\ s.begun \in Nat /\ s.ops \in Seq(Op) /\ Locked(s.ops, s.detail)
  BY DEF Sound, Steady, OpsSound, IsP
<1>2. [s EXCEPT !.ops[k].calls = calls] = t
  BY <1>1, <1>x, <1>t DEF IsP, Fields
<1>3. x \in Op /\ x.via = op.via /\ x.to = op.to /\ x.calls = calls /\ x.load = 0 /\ DOMAIN x.calls = DOMAIN op.calls
  <2>1. /\ op.via \in {"list", "detail", "bulk", "all", "none"} /\ op.to \in {"open", "closed", "gone", "run"}
        /\ op.load \in Nat /\ DOMAIN op.calls \in SUBSET Feedback
    BY <1>1, OpTypes
  <2>2. x = [via |-> op.via, to |-> op.to, calls |-> calls, load |-> op.load]
    BY <1>1, <1>x DEF Op
  <2> HIDE DEF op
  <2>3. x \in Op
    BY <2>1, <2>2, OpMade DEF op
  <2>4. QED BY <2>2, <2>3 DEF op
<1> HIDE DEF op
<1>4. OpSound(x, s.begun) /\ x # Done
  BY <1>1, <1>3 DEF OpSound, Done, op
<1>5. Replaces(x, s.ops[k])
  BY <1>3 DEF Replaces, op
<1>6. Same(s, t, {"ops"}) /\ t.ops = [s.ops EXCEPT ![k] = x]
  <2>1. Steady(v, s)
    BY <1>1
  <2>2. x \in Op
    BY <1>3
  <2>3. QED BY <1>4, <1>5, <1>t, <2>1, <2>2, SetOp
<1>7. Sound(v, t)
  BY <1>1, <1>3, <1>4, <1>5, <1>t, SetOp
<1>8. ASSUME OpDirty(x) <=> OpDirty(s.ops[k])
      PROVE  Alike(s, t)
  BY <1>1, <1>3, <1>4, <1>5, <1>8, <1>t, SetOp
<1>9. k \in DOMAIN t.ops /\ t.ops[k] = x
  BY <1>1, <1>3, <1>6, OpsSet
<1>10. OpDirty(x) => Dirty(t.ops)
  BY <1>9 DEF Dirty
<1>11. (OpDirty(x) <=> OpDirty(s.ops[k])) => Alike(s, t)
  BY <1>8
<1>12. QED BY <1>2, <1>3, <1>6, <1>7, <1>9, <1>10, <1>11 DEF op

\* Every call is answered: a reload, or nothing can have changed.
LEMMA SettledFacts ==
  ASSUME NEW v, NEW n \in Nat, NEW s, Sound(v, s), NEW k \in DOMAIN s.ops, s.ops[k].via # "none", s.ops[k].to # "run",
         \A f \in DOMAIN s.ops[k].calls : s.ops[k].calls[f] \in {"ok", "failed"}
  PROVE  LET t == Settled(s, k) IN
         Sound(v, t) /\ (Fresh(v, n, t) \/ Alike(s, t)) /\ (s.ops[k].via = "all" => Fresh(v, n, t))
<1> DEFINE op == s.ops[k]
<1>1. CASE op.via = "all" \/ Failed(op) # DOMAIN op.calls
  <2>1. Settled(s, k) = Reload(s, k, 1)
    BY <1>1 DEF Settled
  <2>2. QED BY <2>1, ReloadFacts
<1>2. ASSUME op.via # "all", Failed(op) = DOMAIN op.calls
      PROVE  LET t == Settled(s, k) IN Sound(v, t) /\ Alike(s, t)
  <2>1. ~OpDirty(op)
    <3>1. \A f \in DOMAIN op.calls : op.calls[f] = "failed"
      BY <1>2 DEF Failed
    <3>2. QED BY <3>1 DEF OpDirty
  <2>2. op.via \in {"list", "detail", "bulk"}
    <3>1. op \in Op
      BY DEF Sound, Steady, IsP
    <3>2. op.via \in {"list", "detail", "bulk", "all", "none"}
      BY <3>1, OpTypes
    <3>3. QED BY <1>2, <3>2
  <2>3. CASE op.via = "bulk"
    <3>1. Settled(s, k) = Resume(s, k)
      BY <1>2, <2>3 DEF Settled
    <3>2. QED BY <2>1, <3>1, ResumeFacts
  <2>4. CASE op.via = "list"
    <3>1. Settled(s, k) = Over(s, k)
      BY <1>2, <2>4 DEF Settled
    <3>2. QED BY <2>1, <2>4, <3>1, OverFacts
  <2>5. CASE op.via = "detail"
    <3>1. Settled(s, k) = Unlock(Over(s, k), Subject(op))
      BY <1>2, <2>5 DEF Settled
    <3>2. QED BY <2>1, <2>5, <3>1, UnlockOverFacts
  <2>6. QED BY <2>2, <2>3, <2>4, <2>5
<1>3. QED BY <1>1, <1>2

\* A call that waits belongs to a write that does.
LEMMA CalledFacts ==
  ASSUME NEW v, Sound(v, p), NEW k \in DOMAIN p.ops, NEW f, NEW from \in {"sent", "applied"}, Called(k, f, from)
  PROVE  /\ p.ops[k] \in Op /\ p.ops[k].via # "none" /\ p.ops[k].load = 0 /\ p.ops[k].to # "run"
         /\ f \in DOMAIN p.ops[k].calls /\ p.ops[k].calls[f] = from
         /\ DOMAIN p.ops[k].calls \subseteq Feedback /\ p.ops[k].calls \in [DOMAIN p.ops[k].calls -> Outcome]
<1> DEFINE op == p.ops[k]
<1>1. op \in Op /\ OpSound(op, p.begun)
  BY DEF Sound, Steady, OpsSound, IsP
<1>2. op.load \in Nat /\ DOMAIN op.calls \subseteq Feedback /\ op.calls \in [DOMAIN op.calls -> Outcome]
  BY <1>1, OpTypes
<1>3. f \in DOMAIN op.calls /\ op.calls[f] = from /\ op.to # "run"
  BY DEF Called
<1>4. op.via # "none"
  BY <1>1, <1>3, DoneIsOp DEF OpSound
<1>5. ~(op.load > 0)
  BY <1>1, <1>3 DEF OpSound
<1>6. QED BY <1>1, <1>2, <1>3, <1>4, <1>5

LEMMA AnsweredFacts ==
  ASSUME NEW v, NEW n \in Nat, Sound(v, p), NEW k \in DOMAIN p.ops, NEW f, NEW from \in {"sent", "applied"}, Called(k, f, from),
         NEW outcome \in {"ok", "failed"}
  PROVE  LET t == Answered(k, f, outcome) IN
         /\ Sound(v, t)
         /\ p.ops[k].via = "all" => Fresh(v, n, t)
         /\ from = "applied" /\ outcome = "ok" => Fresh(v, n, t) \/ Alike(p, t)
         /\ from = "sent" /\ outcome = "failed" /\ p.ops[k].via # "all" => Fresh(v, n, t) \/ Alike(p, t)
<1> DEFINE op == p.ops[k]
           calls == [g \in DOMAIN op.calls |-> IF g \in Together(op, f) THEN outcome ELSE op.calls[g]]
<1>s. PICK s : s = [p EXCEPT !.ops[k].calls = calls]
  OBVIOUS
<1>1. /\ op.via # "none" /\ op.load = 0 /\ op.to # "run" /\ f \in DOMAIN op.calls /\ op.calls[f] = from
      /\ op.calls \in [DOMAIN op.calls -> Outcome]
  BY CalledFacts
<1>2. calls \in [DOMAIN op.calls -> Outcome] /\ f \in Together(op, f)
  BY <1>1 DEF Together, Outcome
<1>3. Answered(k, f, outcome) = IF \E g \in DOMAIN calls : calls[g] \notin {"ok", "failed"} THEN s ELSE Settled(s, k)
  BY <1>s DEF Answered
<1>c. PICK c : c = calls
  OBVIOUS
<1>4. /\ Sound(v, s) /\ k \in DOMAIN s.ops
      /\ s.ops[k].via = op.via /\ s.ops[k].to = op.to /\ s.ops[k].calls = c /\ s.ops[k].load = 0
      /\ (OpDirty(s.ops[k]) <=> OpDirty(op)) => Alike(p, s)
  <2> HIDE DEF calls
  <2>1. s = [p EXCEPT !.ops[k].calls = c] /\ c \in [DOMAIN p.ops[k].calls -> Outcome]
    BY <1>s, <1>c, <1>2
  <2>2. p.ops[k].via # "none" /\ p.ops[k].load = 0
    BY <1>1
  <2>3. /\ Sound(v, s) /\ k \in DOMAIN s.ops
        /\ s.ops[k].via = p.ops[k].via /\ s.ops[k].to = p.ops[k].to /\ s.ops[k].calls = c /\ s.ops[k].load = 0
    <3>1. Sound(v, s)
      BY <2>1, <2>2, CallsFacts
    <3>2. k \in DOMAIN s.ops /\ s.ops[k].calls = c /\ s.ops[k].load = 0
      BY <2>1, <2>2, CallsFacts
    <3>3. s.ops[k].via = p.ops[k].via /\ s.ops[k].to = p.ops[k].to
      BY <2>1, <2>2, CallsFacts
    <3>4. QED BY <3>1, <3>2, <3>3
  <2>4. (OpDirty(s.ops[k]) <=> OpDirty(p.ops[k])) => Alike(p, s)
    BY <2>1, <2>2, CallsFacts
  <2>5. QED BY <2>3, <2>4
<1>5. ASSUME op.via = "all"
      PROVE  \A g \in DOMAIN c : c[g] \in {"ok", "failed"}
  BY <1>c, <1>5 DEF Together
<1>6. ASSUME (from = "applied" /\ outcome = "ok") \/ (from = "sent" /\ outcome = "failed" /\ op.via # "all")
      PROVE  Alike(p, s)
  <2>1. (\E g \in DOMAIN c : c[g] \in {"applied", "ok"}) <=> \E g \in DOMAIN op.calls : op.calls[g] \in {"applied", "ok"}
    <3>1. CASE outcome = "ok"
      BY <1>1, <1>2, <1>6, <1>c, <3>1
    <3>2. CASE outcome = "failed"
      BY <1>1, <1>6, <1>c, <3>2 DEF Together
    <3>3. QED BY <3>1, <3>2
  <2>2. OpDirty(s.ops[k]) <=> OpDirty(op)
    BY <1>1, <1>4, <2>1 DEF OpDirty
  <2>3. QED BY <1>4, <2>2
<1> HIDE DEF calls
<1>7. CASE \E g \in DOMAIN c : c[g] \notin {"ok", "failed"}
  <2>1. Answered(k, f, outcome) = s
    BY <1>3, <1>7, <1>c
  <2>2. QED BY <1>4, <1>5, <1>6, <1>7, <2>1
<1>8. CASE \A g \in DOMAIN c : c[g] \in {"ok", "failed"}
  <2>1. Answered(k, f, outcome) = Settled(s, k)
    BY <1>3, <1>8, <1>c
  <2>2. LET t == Settled(s, k) IN
        Sound(v, t) /\ (Fresh(v, n, t) \/ Alike(s, t)) /\ (op.via = "all" => Fresh(v, n, t))
    BY <1>1, <1>4, <1>8, SettledFacts
  <2>3. QED BY <1>6, <2>1, <2>2, AlikeTwice
<1>9. QED BY <1>7, <1>8

(***************************************************************************)
(* The end of a load.                                                      *)
(***************************************************************************)
LEMMA EndFacts ==
  ASSUME NEW v, NEW n, NEW s, Sound(v, s), s.load # None, ~s.stale => ListFresh(v, n, s) /\ MoreFresh(v, n, s)
  PROVE  Sound(v, End(s)) /\ Fresh(v, n, End(s))
<1>r. PICK r : r = [s EXCEPT !.load = None, !.scroll = None]
  OBVIOUS
<1>1. IsP(s) /\ s.begun \in Nat /\ s.begun > 0 /\ Steady(v, s) /\ Locked(s.ops, s.detail)
  BY DEF Sound, Steady, BegunSound, IsP
<1>2. IsP(r) /\ Same(s, r, {"load", "scroll"}) /\ r.load = None
  <2>1. IsP(r)
    BY <1>1, <1>r DEF IsP, Fields
  <2>2. QED BY <1>1, <1>r, <2>1 DEF Same, IsP, Fields
<1>3. /\ r.ops = s.ops /\ r.list = s.list /\ r.writes = s.writes /\ r.sends = s.sends /\ r.detail = s.detail
      /\ r.drafts = s.drafts /\ r.written = s.written /\ r.more = s.more /\ r.query = s.query /\ r.timer = s.timer
      /\ r.total = s.total /\ r.page = s.page /\ r.stale = s.stale /\ r.begun = s.begun
  BY <1>2 DEF Same, Fields
<1>4. Sound(v, r)
  BY <1>1, <1>2, <1>3 DEF Sound, Steady, LoadSince, BegunSound
<1>5. Fresh(v, n, r)
  <2>1. ASSUME ~s.stale
        PROVE  ListFresh(v, n, r) /\ MoreFresh(v, n, r)
    <3>0. SameDrafts(s.drafts, r.drafts)
      BY <1>3 DEF SameDrafts
    <3>1. ListFresh(v, n, r)
      <4>1. (\A i \in DOMAIN s.list : Whole(v, s, s.list[i], {})) => \A i \in DOMAIN s.list : Whole(v, r, s.list[i], {})
        BY <1>1, <3>0, LoadRows, ThreadsAlike
      <4>2. QED BY <1>3, <2>1, <4>1 DEF ListFresh
    <3>2. MoreFresh(v, n, r)
      BY <1>1, <1>3, <2>1, <3>0, LoadRows, ThreadsAlike DEF MoreFresh
    <3>3. QED BY <3>1, <3>2
  <2>2. LoadFresh(v, n, r)
    BY <1>2 DEF LoadFresh
  <2>3. QED BY <1>3, <2>1, <2>2 DEF Fresh
<1>6. CASE WaitingFor(s, s.begun) = {}
  BY <1>r, <1>4, <1>5, <1>6 DEF End
<1>7. CASE WaitingFor(s, s.begun) # {}
  <2>k. PICK k : k = CHOOSE j \in WaitingFor(s, s.begun) : TRUE
    OBVIOUS
  <2>1. k \in DOMAIN s.ops /\ s.ops[k].load = s.begun
    BY <1>7, <2>k DEF WaitingFor
  <2>2. End(s) = Resume(r, k)
    BY <1>r, <1>7, <2>k DEF End
  <2>3. s.ops[k].via # "none" /\ ~OpDirty(s.ops[k])
    <3>1. OpSound(s.ops[k], s.begun)
      BY <1>1, <2>1 DEF Steady, OpsSound
    <3>2. s.ops[k].load > 0 /\ s.ops[k].load # 0
      BY <1>1, <2>1
    <3>3. QED BY <3>1, <3>2 DEF OpSound, Done, OpDirty
  <2>4. Sound(v, Resume(r, k)) /\ Alike(r, Resume(r, k))
    BY <1>3, <1>4, <2>1, <2>3, ResumeFacts
  <2>5. QED BY <1>2, <1>5, <2>2, <2>4, FreshAlike
<1>8. QED BY <1>6, <1>7



(***************************************************************************)
(* Pages and threads.                                                      *)
(***************************************************************************)
LEMMA CardIs ==
  ASSUME NEW rows \in Seq(Card), NEW i \in DOMAIN rows
  PROVE  rows[i] \in Card /\ rows[i].id \in Feedback /\ rows[i].replies \subseteq Reply
<1>1. rows[i] \in Card
  OBVIOUS
<1>2. QED BY <1>1 DEF Card

\* A page answered is what the server lists, with the threads as they are.
LEMMA PageFacts ==
  ASSUME TypeInv, NEW q, NEW m \in Nat, m > 0
  PROVE  LET a == Page(q, m) IN
         /\ a \in Answer /\ a # None /\ PageAt(server, budget.pageSize, q, m, a)
         /\ \A i \in DOMAIN a.rows : a.rows[i].replies = server[a.rows[i].id].replies
<1>n. PICK n : n = budget.pageSize
  OBVIOUS
<1>a. PICK all : all = OnServer(server, q)
  OBVIOUS
<1>f. PICK from : from = (m - 1) * n
  OBVIOUS
<1>t. PICK to : to = m * n
  OBVIOUS
<1>1. n \in Nat /\ n > 0
  BY <1>n DEF TypeInv, Budgeted
<1>2. from \in Nat /\ to \in Nat /\ to = from + n
  BY <1>1, <1>f, <1>t
<1>3. all \in Seq(Feedback) /\ Len(all) \in Nat /\ all = Listing(q)
  BY <1>a, OnServerIsSeq DEF OnServer, Listing
<1>e. PICK end : end = Lesser(to, Len(all))
  OBVIOUS
<1>4. end \in Nat /\ end <= Len(all) /\ end = IF to < Len(all) THEN to ELSE Len(all)
  BY <1>e, <1>2, <1>3 DEF Lesser
<1>i. PICK ids : ids = SubSeq(all, from + 1, end)
  OBVIOUS
<1>5. /\ Len(ids) = (IF from < end THEN end - from ELSE 0) /\ DOMAIN ids = 1..Len(ids)
      /\ \A i \in DOMAIN ids : ids[i] = all[from + i] /\ ids[i] \in Feedback
  <2>1. CASE from < end
    <3>1. ids \in Seq(Feedback)
      BY <1>2, <1>3, <1>4, <1>i, <2>1
    <3>2. Len(ids) = end - from
      BY <1>2, <1>3, <1>4, <1>i, <2>1
    <3>3. ASSUME NEW i \in DOMAIN ids
          PROVE  ids[i] = all[from + i] /\ ids[i] \in Feedback
      <4>1. i \in Nat /\ 1 <= i /\ i <= end - from /\ ids[i] \in Feedback
        BY <1>2, <1>4, <2>1, <3>1, <3>2
      <4>a. PICK a : a = from + 1
        OBVIOUS
      <4>2. a \in Nat /\ a <= end /\ i \in 1..(end - a + 1)
        BY <1>2, <1>4, <2>1, <4>1, <4>a
      <4>3. ids = SubSeq(all, a, end)
        BY <1>i, <4>a
      <4>4. ids[i] = all[i + a - 1]
        BY <1>3, <1>4, <4>2, <4>3
      <4>5. i + a - 1 = from + i
        BY <1>2, <4>1, <4>a
      <4>6. QED BY <4>1, <4>4, <4>5
    <3>4. QED BY <2>1, <3>1, <3>2, <3>3
  <2>2. CASE ~(from < end)
    <3>1. ids = <<>>
      BY <1>2, <1>3, <1>4, <1>i, <2>2
    <3>2. QED BY <2>2, <3>1
  <2>3. QED BY <2>1, <2>2
<1>r. PICK rows : rows = [i \in DOMAIN ids |-> Row(ids[i])]
  OBVIOUS
<1>x. PICK a : a = [rows |-> rows, total |-> Len(all)]
  OBVIOUS
<1>6. Page(q, m) = a
  BY <1>n, <1>f, <1>t, <1>3, <1>4, <1>i, <1>r, <1>x DEF Page
<1>7. ASSUME NEW i \in DOMAIN ids
      PROVE  /\ rows[i] \in Card /\ rows[i].id = all[from + i] /\ rows[i].status = server[rows[i].id].status
             /\ rows[i].replies = server[rows[i].id].replies
  <2>1. rows[i] = Row(ids[i]) /\ ids[i] = all[from + i] /\ ids[i] \in Feedback
    BY <1>5, <1>7, <1>r
  <2>2. server[ids[i]] \in Record
    BY <2>1 DEF TypeInv
  <2>3. QED BY <2>1, <2>2 DEF Row, Record, Card
<1>8. rows \in Seq(Card) /\ Len(rows) = Len(ids) /\ DOMAIN rows = DOMAIN ids
  <2>1. Len(ids) \in Nat
    BY <1>2, <1>4, <1>5
  <2>2. rows \in [1..Len(ids) -> Card]
    BY <1>5, <1>7, <1>r
  <2>3. QED BY <1>5, <2>1, <2>2
<1>9. a \in Answer /\ a # None /\ a.rows = rows /\ a.total = Len(all)
  BY <1>3, <1>8, <1>x, PanelAssumption DEF Answer
<1>10. Cut(server, q, from, to, rows)
  BY <1>a, <1>e, <1>5, <1>7, <1>8 DEF Cut
<1>11. QED BY <1>n, <1>a, <1>f, <1>t, <1>6, <1>7, <1>8, <1>9, <1>10 DEF PageAt

LEMMA ConcatEach ==
  ASSUME NEW a \in Seq(Card), NEW b \in Seq(Card)
  PROVE  /\ a \o b \in Seq(Card)
         /\ \A i \in DOMAIN (a \o b) : \/ \E j \in DOMAIN a : (a \o b)[i] = a[j]
                                       \/ \E j \in DOMAIN b : (a \o b)[i] = b[j]
<1>1. a \o b \in Seq(Card) /\ Len(a \o b) = Len(a) + Len(b) /\ Len(a) \in Nat /\ Len(b) \in Nat
  OBVIOUS
<1>2. ASSUME NEW i \in DOMAIN (a \o b)
      PROVE  \/ \E j \in DOMAIN a : (a \o b)[i] = a[j]
             \/ \E j \in DOMAIN b : (a \o b)[i] = b[j]
  <2>1. CASE i <= Len(a)
    <3>1. i \in DOMAIN a /\ (a \o b)[i] = a[i]
      BY <1>1, <1>2, <2>1
    <3>2. QED BY <3>1
  <2>2. CASE i > Len(a)
    <3>1. i - Len(a) \in DOMAIN b /\ (a \o b)[i] = b[i - Len(a)]
      BY <1>1, <1>2, <2>2
    <3>2. QED BY <3>1
  <2>3. QED BY <1>1, <1>2, <2>1, <2>2
<1>3. QED BY <1>1, <1>2

\* Pages that follow each other.
LEMMA CutConcat ==
  ASSUME NEW v, NEW q, NEW a \in Nat, NEW b \in Nat, a <= b, NEW rows \in Seq(Card), NEW more \in Seq(Card),
         Cut(v, q, 0, a, rows), Cut(v, q, a, b, more)
  PROVE  Cut(v, q, 0, b, rows \o more)
<1>l. PICK all : all = OnServer(v, q)
  OBVIOUS
<1>o. PICK o : o = rows \o more
  OBVIOUS
<1>1. all \in Seq(Feedback) /\ Len(all) \in Nat
  BY <1>l, OnServerIsSeq
<1>2. Lesser(a, Len(all)) \in Nat /\ Lesser(b, Len(all)) \in Nat /\ Lesser(a, Len(all)) <= Lesser(b, Len(all))
  BY <1>1 DEF Lesser
<1>3. /\ Len(rows) = Lesser(a, Len(all))
      /\ \A i \in DOMAIN rows : rows[i].id = all[i] /\ rows[i].status = v[rows[i].id].status
  <2>1. /\ Len(rows) = (IF 0 < Lesser(a, Len(all)) THEN Lesser(a, Len(all)) - 0 ELSE 0)
        /\ \A i \in DOMAIN rows : rows[i].id = all[0 + i] /\ rows[i].status = v[rows[i].id].status
    BY <1>l DEF Cut
  <2>2. \A i \in DOMAIN rows : 0 + i = i
    OBVIOUS
  <2>3. QED BY <1>2, <2>1, <2>2
<1>4. /\ Len(more) = (IF a < Lesser(b, Len(all)) THEN Lesser(b, Len(all)) - a ELSE 0)
      /\ \A i \in DOMAIN more : more[i].id = all[a + i] /\ more[i].status = v[more[i].id].status
  BY <1>l DEF Cut
<1>5. Len(rows) + Len(more) = Lesser(b, Len(all)) /\ (Len(more) # 0 => Len(rows) = a)
  <2>1. Len(rows) = (IF a < Len(all) THEN a ELSE Len(all))
    BY <1>3 DEF Lesser
  <2>2. Lesser(b, Len(all)) = (IF b < Len(all) THEN b ELSE Len(all))
    BY DEF Lesser
  <2>3. Len(more) = (IF a < Lesser(b, Len(all)) THEN Lesser(b, Len(all)) - a ELSE 0)
    BY <1>4
  <2>c. PICK c \in Nat : c = Len(all)
    BY <1>1
  <2>e. PICK e : e = Lesser(b, Len(all))
    OBVIOUS
  <2>4. e = (IF b < c THEN b ELSE c) /\ Len(rows) = (IF a < c THEN a ELSE c) /\ Len(more) = (IF a < e THEN e - a ELSE 0)
    BY <2>c, <2>e, <2>1, <2>2, <2>3
  <2>5. CASE a < c
    <3>1. Len(rows) = a /\ e \in Nat /\ a <= e
      BY <2>4, <2>5
    <3>2. QED BY <2>e, <2>4, <3>1
  <2>6. CASE ~(a < c)
    <3>1. Len(rows) = c /\ e = c /\ Len(more) = 0
      BY <2>4, <2>6
    <3>2. QED BY <2>e, <3>1
  <2>7. QED BY <2>5, <2>6
<1>6. o \in Seq(Card) /\ Len(o) = Len(rows) + Len(more)
  BY <1>o
<1>7. ASSUME NEW i \in DOMAIN o
      PROVE  o[i].id = all[i] /\ o[i].status = v[o[i].id].status
  <2>1. CASE i <= Len(rows)
    <3>1. i \in DOMAIN rows /\ o[i] = rows[i]
      BY <1>o, <1>6, <1>7, <2>1
    <3>2. QED BY <1>3, <3>1
  <2>2. CASE i > Len(rows)
    <3>1. i - Len(rows) \in DOMAIN more /\ o[i] = more[i - Len(rows)]
      BY <1>o, <1>6, <1>7, <2>2
    <3>2. a + (i - Len(rows)) = i
      <4>1. Len(more) # 0
        BY <3>1
      <4>2. Len(rows) = a /\ i \in Nat
        BY <1>5, <1>6, <1>7, <4>1
      <4>3. QED BY <4>2
    <3>3. QED BY <1>4, <3>1, <3>2
  <2>3. QED BY <1>6, <1>7, <2>1, <2>2
<1>8. Len(o) = (IF 0 < Lesser(b, Len(all)) THEN Lesser(b, Len(all)) - 0 ELSE 0)
  BY <1>2, <1>5, <1>6
<1>9. \A i \in DOMAIN o : 0 + i = i
  BY <1>6
<1>10. QED BY <1>l, <1>o, <1>7, <1>8, <1>9 DEF Cut

\* keepThreads adds the replies that landed since, and nothing else.
LEMMA KeepThreadsFacts ==
  ASSUME NEW s, IsP(s), NEW since \in Nat, NEW rows \in Seq(Card)
  PROVE  LET kept == KeepThreads(s, since, rows) IN
         /\ kept \in Seq(Card) /\ DOMAIN kept = DOMAIN rows /\ Len(kept) = Len(rows)
         /\ \A i \in DOMAIN rows : /\ kept[i].id = rows[i].id /\ kept[i].status = rows[i].status
                                   /\ kept[i].replies = rows[i].replies \cup Landed(s.writes, rows[i].id, since)
<1>k. PICK kept : kept = KeepThreads(s, since, rows)
  OBVIOUS
<1>1. ASSUME NEW i \in DOMAIN rows
      PROVE  /\ kept[i] \in Card
             /\ kept[i].id = rows[i].id /\ kept[i].status = rows[i].status
             /\ kept[i].replies = rows[i].replies \cup Landed(s.writes, rows[i].id, since)
  <2>r. PICK row : row = rows[i]
    OBVIOUS
  <2>1. row \in Card /\ row.id \in Feedback
    BY <1>1, <2>r, CardIs
  <2>2. s.writes[row.id].replies \subseteq Reply
    BY <2>1 DEF IsP, Write
  <2>3. kept[i] = KeepThread(s, since, row)
    BY <1>1, <1>k, <2>r DEF KeepThreads
  <2>4. CASE s.writes[row.id].seq > since
    <3>1. kept[i] = [row EXCEPT !.replies = row.replies \cup s.writes[row.id].replies]
      BY <2>1, <2>3, <2>4 DEF KeepThread, WithReplies, Card
    <3>2. row.replies \cup s.writes[row.id].replies \in SUBSET Reply
      BY <2>1, <2>2 DEF Card
    <3>3. kept[i] \in Card /\ kept[i].id = row.id /\ kept[i].status = row.status
          /\ kept[i].replies = row.replies \cup s.writes[row.id].replies
      BY <2>1, <3>1, <3>2 DEF Card
    <3>4. QED BY <2>4, <2>r, <3>3 DEF Landed
  <2>5. CASE ~(s.writes[row.id].seq > since)
    <3>1. kept[i] = row
      BY <2>3, <2>5 DEF KeepThread
    <3>2. QED BY <2>1, <2>5, <2>r, <3>1 DEF Landed
  <2>6. QED BY <2>4, <2>5
<1>2. DOMAIN kept = DOMAIN rows
  BY <1>k DEF KeepThreads
<1>3. kept \in Seq(Card) /\ Len(kept) = Len(rows)
  <2>1. kept \in [1..Len(rows) -> Card] /\ Len(rows) \in Nat
    BY <1>1, <1>2, <1>k DEF KeepThreads
  <2>2. QED BY <2>1
<1>4. QED BY <1>k, <1>1, <1>2, <1>3

\* The list that is drawn keeps the replies told of, and is the server's where the rows are.
LEMMA KeptFacts ==
  ASSUME NEW v, NEW s, IsP(s), NEW since \in Nat, NEW rows \in Seq(Card)
  PROVE  LET kept == KeepThreads(s, since, rows) IN
         /\ ReadSince(s.writes, rows, since) => ListKeeps(kept, s.writes)
         /\ Threads(v, s, rows, since) => \A i \in DOMAIN kept : Whole(v, s, kept[i], {})
         /\ \A q, from, to : Cut(v, q, from, to, rows) => Cut(v, q, from, to, kept)
<1>k. PICK kept : kept = KeepThreads(s, since, rows)
  OBVIOUS
<1>1. /\ DOMAIN kept = DOMAIN rows /\ Len(kept) = Len(rows)
      /\ \A i \in DOMAIN rows : /\ kept[i].id = rows[i].id /\ kept[i].status = rows[i].status
                                /\ kept[i].replies = rows[i].replies \cup Landed(s.writes, rows[i].id, since)
  <2>1. DOMAIN kept = DOMAIN rows /\ Len(kept) = Len(rows)
    BY <1>k, KeepThreadsFacts
  <2>2. ASSUME NEW i \in DOMAIN rows
        PROVE  /\ kept[i].id = rows[i].id /\ kept[i].status = rows[i].status
               /\ kept[i].replies = rows[i].replies \cup Landed(s.writes, rows[i].id, since)
    BY <1>k, <2>2, KeepThreadsFacts
  <2>3. QED BY <2>1, <2>2
<1>2. ASSUME ReadSince(s.writes, rows, since), NEW i \in DOMAIN kept
      PROVE  s.writes[kept[i].id].replies \subseteq kept[i].replies
  <2>1. rows[i].id \in Feedback
    BY <1>1, <1>2, CardIs
  <2>2. s.writes[rows[i].id].seq \in Nat
    BY <2>1 DEF IsP, Write
  <2>3. QED BY <1>1, <1>2, <2>2 DEF ReadSince, Landed
<1>3. ASSUME Threads(v, s, rows, since), NEW i \in DOMAIN kept
      PROVE  Whole(v, s, kept[i], {})
  BY <1>1, <1>3 DEF Threads, Whole
<1>4. ASSUME NEW q, NEW from, NEW to, Cut(v, q, from, to, rows)
      PROVE  Cut(v, q, from, to, kept)
  BY <1>1, <1>4 DEF Cut
<1>5. ReadSince(s.writes, rows, since) => ListKeeps(kept, s.writes)
  BY <1>2 DEF ListKeeps
<1>6. QED BY <1>k, <1>3, <1>4, <1>5



(***************************************************************************)
(* Every step keeps the invariant.                                         *)
(***************************************************************************)
Paid == budget' = budget \/ \E k \in Budgeted \ {"pageSize"} : Spend(k)

LEMMA PaidFacts ==
  ASSUME TypeInv, Paid
  PROVE  budget' \in [Budgeted -> Nat] /\ budget'.pageSize = budget.pageSize
<1>1. CASE budget' = budget
  BY <1>1 DEF TypeInv
<1>2. ASSUME NEW k \in Budgeted \ {"pageSize"}, Spend(k)
      PROVE  budget' \in [Budgeted -> Nat] /\ budget'.pageSize = budget.pageSize
  <2>1. budget[k] \in Nat /\ budget[k] > 0 /\ budget \in [Budgeted -> Nat] /\ budget' = [budget EXCEPT ![k] = budget[k] - 1]
    BY <1>2 DEF TypeInv, Spend
  <2>2. budget[k] - 1 \in Nat
    BY <2>1
  <2>3. QED BY <2>1, <2>2 DEF Budgeted
<1>3. QED BY <1>1, <1>2 DEF Paid

LEMMA PanelStep ==
  ASSUME IInv, server' = server, Paid, Sound(server, p'), Fresh(server, budget.pageSize, p')
  PROVE  IInv'
<1>1. budget' \in [Budgeted -> Nat] /\ budget'.pageSize = budget.pageSize
  BY PaidFacts DEF IInv
<1>2. IsP(p')
  BY DEF Sound, Steady
<1>3. TypeInv'
  BY <1>1, <1>2 DEF IInv, TypeInv
<1>4. QED BY <1>1, <1>3 DEF IInv

LEMMA PageSize ==
  ASSUME IInv
  PROVE  /\ budget.pageSize \in Nat /\ budget.pageSize > 0
         /\ TypeInv /\ Sound(server, p) /\ Steady(server, p) /\ IsP(p) /\ Fresh(server, budget.pageSize, p)
BY DEF IInv, TypeInv, Sound, Steady, Budgeted

\* Only the load changes.
LEMMA LoadChanged ==
  ASSUME NEW v, NEW n, NEW s, Sound(v, s), Fresh(v, n, s), s.load # None, NEW l \in Load, LoadSince(l, s.writes, s.written),
         LoadFresh(v, n, s) => LoadFresh(v, n, [s EXCEPT !.load = l])
  PROVE  LET t == [s EXCEPT !.load = l] IN Sound(v, t) /\ Fresh(v, n, t)
<1>t. PICK t : t = [s EXCEPT !.load = l]
  OBVIOUS
<1>1. IsP(s) /\ s.begun \in Nat /\ s.begun > 0 /\ Steady(v, s) /\ Locked(s.ops, s.detail)
  BY DEF Sound, Steady, BegunSound, IsP
<1>2. IsP(t) /\ Same(s, t, {"load"}) /\ t.load = l
  <2>1. IsP(t)
    BY <1>1, <1>t DEF IsP, Fields
  <2>2. QED BY <1>1, <1>t, <2>1 DEF Same, IsP, Fields
<1>3. /\ t.ops = s.ops /\ t.list = s.list /\ t.writes = s.writes /\ t.sends = s.sends /\ t.detail = s.detail
      /\ t.drafts = s.drafts /\ t.written = s.written /\ t.more = s.more /\ t.query = s.query /\ t.timer = s.timer
      /\ t.total = s.total /\ t.page = s.page /\ t.stale = s.stale /\ t.begun = s.begun
  BY <1>2 DEF Same, Fields
<1>4. Sound(v, t)
  BY <1>1, <1>2, <1>3 DEF Sound, Steady, BegunSound
<1>5. l # None
  BY PanelAssumption
<1>6. MoreFresh(v, n, s) => MoreFresh(v, n, t)
  <2>1. SameDrafts(s.drafts, t.drafts)
    BY <1>3 DEF SameDrafts
  <2>2. QED BY <1>1, <1>3, <2>1, LoadRows, ThreadsAlike DEF MoreFresh
<1>7. Fresh(v, n, t)
  BY <1>2, <1>3, <1>5, <1>6, <1>t DEF Fresh
<1>8. QED BY <1>t, <1>4, <1>7

\* Only the further page changes.
LEMMA MoreChanged ==
  ASSUME NEW v, NEW n, NEW s, Sound(v, s), Fresh(v, n, s), NEW m \in More \cup {None}, MoreSince(m, s.writes, s.written),
         m # None => m.begun <= s.begun /\ m.page > 0,
         ~s.stale /\ s.begun > 0 => MoreFresh(v, n, [s EXCEPT !.more = m])
  PROVE  LET t == [s EXCEPT !.more = m] IN Sound(v, t) /\ Fresh(v, n, t)
<1>t. PICK t : t = [s EXCEPT !.more = m]
  OBVIOUS
<1>1. IsP(s) /\ s.begun \in Nat /\ Steady(v, s) /\ Locked(s.ops, s.detail)
  BY DEF Sound, Steady, IsP
<1>2. IsP(t) /\ Same(s, t, {"more"}) /\ t.more = m
  <2>1. IsP(t)
    BY <1>1, <1>t DEF IsP, Fields
  <2>2. QED BY <1>1, <1>t, <2>1 DEF Same, IsP, Fields
<1>3. /\ t.ops = s.ops /\ t.list = s.list /\ t.writes = s.writes /\ t.sends = s.sends /\ t.detail = s.detail
      /\ t.drafts = s.drafts /\ t.written = s.written /\ t.load = s.load /\ t.query = s.query /\ t.timer = s.timer
      /\ t.total = s.total /\ t.page = s.page /\ t.stale = s.stale /\ t.begun = s.begun
  BY <1>2 DEF Same, Fields
<1>4. Sound(v, t)
  BY <1>1, <1>2, <1>3 DEF Sound, Steady, BegunSound
<1>5. SameDrafts(s.drafts, t.drafts)
  BY <1>3 DEF SameDrafts
<1>6. LoadFresh(v, n, s) => LoadFresh(v, n, t)
  BY <1>1, <1>3, <1>5, LoadRows, ThreadsAlike DEF LoadFresh
<1>7. ListFresh(v, n, s) => ListFresh(v, n, t)
  <2>1. (\A i \in DOMAIN s.list : Whole(v, s, s.list[i], {})) => \A i \in DOMAIN s.list : Whole(v, t, s.list[i], {})
    BY <1>1, <1>5, LoadRows, ThreadsAlike
  <2>2. QED BY <1>3, <2>1 DEF ListFresh
<1>8. Fresh(v, n, t)
  BY <1>3, <1>6, <1>7, <1>t DEF Fresh
<1>9. QED BY <1>t, <1>4, <1>8

\* Rows that were just read.
LEMMA ReadRows ==
  ASSUME NEW v, NEW s, Steady(v, s), NEW rows \in Seq(Card), \A i \in DOMAIN rows : rows[i].replies = v[rows[i].id].replies,
         NEW since
  PROVE  ReadSince(s.writes, rows, since) /\ Threads(v, s, rows, since)
<1>1. ASSUME NEW i \in DOMAIN rows
      PROVE  /\ s.writes[rows[i].id].replies \subseteq rows[i].replies
             /\ Landing(s.drafts, rows[i].id) \subseteq rows[i].replies
  <2>1. rows[i].id \in Feedback /\ rows[i].replies = v[rows[i].id].replies
    BY <1>1, CardIs
  <2>2. s.writes[rows[i].id].replies \subseteq v[rows[i].id].replies
    BY <2>1 DEF Steady, WritesStored
  <2>3. Landing(s.drafts, rows[i].id) \subseteq v[rows[i].id].replies
    BY <2>1 DEF Steady, DraftsSound, DraftSound, Landing
  <2>4. QED BY <2>1, <2>2, <2>3
<1>2. QED BY <1>1 DEF ReadSince, Threads, Whole, Landed

\* Rows read before are followed by others.
LEMMA ConcatRows ==
  ASSUME NEW v, NEW s, NEW since, NEW a \in Seq(Card), NEW b \in Seq(Card)
  PROVE  /\ ReadSince(s.writes, a, since) /\ ReadSince(s.writes, b, since) => ReadSince(s.writes, a \o b, since)
         /\ Threads(v, s, a, since) /\ Threads(v, s, b, since) => Threads(v, s, a \o b, since)
         /\ ListKeeps(a, s.writes) /\ ListKeeps(b, s.writes) => ListKeeps(a \o b, s.writes)
<1>o. PICK o : o = a \o b
  OBVIOUS
<1>1. \A i \in DOMAIN o : (\E j \in DOMAIN a : o[i] = a[j]) \/ (\E j \in DOMAIN b : o[i] = b[j])
  BY <1>o, ConcatEach
<1>2. ReadSince(s.writes, a, since) /\ ReadSince(s.writes, b, since) => ReadSince(s.writes, o, since)
  BY <1>1 DEF ReadSince
<1>3. Threads(v, s, a, since) /\ Threads(v, s, b, since) => Threads(v, s, o, since)
  BY <1>1 DEF Threads
<1>4. ListKeeps(a, s.writes) /\ ListKeeps(b, s.writes) => ListKeeps(o, s.writes)
  BY <1>1 DEF ListKeeps
<1>5. QED BY <1>o, <1>2, <1>3, <1>4

LEMMA LoadIs ==
  ASSUME NEW l \in Load
  PROVE  /\ l # None /\ l.query \in Query /\ l.pages \in Nat /\ l.got \in Nat /\ l.since \in Nat /\ l.rows \in Seq(Card)
         /\ l.answer \in Answer \cup {None}
         /\ l.answer # None => l.answer.rows \in Seq(Card) /\ l.answer.total \in Nat
BY PanelAssumption DEF Load, Answer

LEMMA MoreIs ==
  ASSUME NEW m \in More
  PROVE  /\ m # None /\ m.query \in Query /\ m.begun \in Nat /\ m.page \in Nat /\ m.since \in Nat
         /\ m.answer \in Answer \cup {None}
         /\ m.answer # None => m.answer.rows \in Seq(Card) /\ m.answer.total \in Nat
BY PanelAssumption DEF More, Answer



LEMMA KeptByReadPage ==
  ASSUME IInv, ReadPage
  PROVE  IInv'
<1> DEFINE l == p.load
<1>n. PICK n : n = budget.pageSize
  OBVIOUS
<1>a. PICK a : a = Page(l.query, l.got + 1)
  OBVIOUS
<1>x. PICK x : x = [l EXCEPT !.answer = a]
  OBVIOUS
<1>1. /\ l # None /\ l.answer = None /\ p' = [p EXCEPT !.load.answer = a] /\ server' = server /\ Paid
  BY <1>a DEF ReadPage, Paid
<1>2. /\ TypeInv /\ Sound(server, p) /\ Steady(server, p) /\ IsP(p) /\ Fresh(server, n, p) /\ l \in Load
  BY <1>n, <1>1, PageSize DEF IsP
<1>3. l.got \in Nat /\ l.rows \in Seq(Card) /\ l.since \in Nat
  BY <1>2, LoadIs
<1>4. /\ a \in Answer /\ a # None /\ PageAt(server, n, l.query, l.got + 1, a)
      /\ \A i \in DOMAIN a.rows : a.rows[i].replies = server[a.rows[i].id].replies
  BY <1>n, <1>a, <1>2, <1>3, PageFacts
<1>5. a.rows \in Seq(Card)
  BY <1>4 DEF Answer
<1>6. /\ x \in Load /\ x.answer = a /\ x.rows = l.rows /\ x.got = l.got /\ x.since = l.since /\ x.query = l.query
      /\ x # None
  <2>1. x \in Load
    BY <1>2, <1>4, <1>x DEF Load
  <2>2. QED BY <1>2, <1>x, <2>1, LoadIs DEF Load
<1>7. ReadSince(p.writes, a.rows, l.since) /\ Threads(server, p, a.rows, l.since)
  BY <1>2, <1>4, <1>5, ReadRows
<1>t. PICK t : t = [p EXCEPT !.load = x]
  OBVIOUS
<1>8. p' = t
  BY <1>1, <1>2, <1>x, <1>t DEF IsP, Fields
<1>9. LoadSince(x, p.writes, p.written)
  BY <1>1, <1>2, <1>6, <1>7 DEF LoadSince, Steady
<1>10. LoadFresh(server, n, p) => LoadFresh(server, n, t)
  <2>1. /\ t.load = x /\ t.timer = p.timer /\ t.query = p.query /\ t.ops = p.ops /\ t.drafts = p.drafts
        /\ t.writes = p.writes
    BY <1>2, <1>t DEF IsP, Fields
  <2>2. SameDrafts(p.drafts, t.drafts) /\ Rows(l.rows) /\ Rows(a.rows)
    BY <1>3, <1>5, <2>1, CardRows DEF SameDrafts
  <2>3. ASSUME LoadFresh(server, n, p)
        PROVE  Threads(server, t, l.rows, l.since)
    BY <1>1, <2>1, <2>2, <2>3, ThreadsAlike DEF LoadFresh
  <2>4. Threads(server, t, a.rows, l.since)
    BY <1>7, <2>1, <2>2, ThreadsAlike
  <2>5. QED BY <1>1, <1>4, <1>6, <2>1, <2>3, <2>4 DEF LoadFresh
<1> HIDE DEF l
<1>11. Sound(server, t) /\ Fresh(server, n, t)
  BY <1>1, <1>2, <1>6, <1>9, <1>10, <1>t, LoadChanged DEF l
<1>12. QED BY <1>n, <1>1, <1>8, <1>11, PanelStep

\* What a load holds once its pages so far, and the one answered, are put together.
LEMMA LoadWhole ==
  ASSUME IInv, p.load # None, p.load.answer # None
  PROVE  LET l == p.load
             rows == l.rows \o l.answer.rows
             n == budget.pageSize
         IN  /\ l \in Load /\ rows \in Seq(Card) /\ l.got \in Nat /\ l.since \in Nat /\ l.answer.total \in Nat
             /\ ReadSince(p.writes, rows, l.since)
             /\ LoadFresh(server, n, p) =>
                  /\ Threads(server, p, rows, l.since)
                  /\ ~Dirty(p.ops) => /\ l.answer.total = Len(OnServer(server, l.query))
                                      /\ Cut(server, l.query, 0, (l.got + 1) * n, rows)
<1>n. PICK n : n = budget.pageSize
  OBVIOUS
<1>l. PICK l : l = p.load
  OBVIOUS
<1>1. n \in Nat /\ n > 0 /\ IsP(p) /\ Steady(server, p)
  BY <1>n, PageSize
<1>2. l \in Load /\ l.got \in Nat /\ l.since \in Nat /\ l.rows \in Seq(Card) /\ l.answer.rows \in Seq(Card) /\ l.answer.total \in Nat
  BY <1>l, <1>1, LoadIs DEF IsP
<1>r. PICK rows : rows = l.rows \o l.answer.rows
  OBVIOUS
<1>3. rows \in Seq(Card)
  BY <1>2, <1>r, ConcatEach
<1>4. ReadSince(p.writes, rows, l.since)
  <2>1. ReadSince(p.writes, l.rows, l.since) /\ ReadSince(p.writes, l.answer.rows, l.since)
    BY <1>l, <1>1 DEF Steady, LoadSince
  <2>2. QED BY <1>2, <1>r, <2>1, ConcatRows
<1>5. ASSUME LoadFresh(server, n, p)
      PROVE  Threads(server, p, rows, l.since)
  <2>1. Threads(server, p, l.rows, l.since) /\ Threads(server, p, l.answer.rows, l.since)
    BY <1>l, <1>5 DEF LoadFresh
  <2>2. QED BY <1>2, <1>r, <2>1, ConcatRows
<1>6. ASSUME LoadFresh(server, n, p), ~Dirty(p.ops)
      PROVE  l.answer.total = Len(OnServer(server, l.query)) /\ Cut(server, l.query, 0, (l.got + 1) * n, rows)
  <2>1. Cut(server, l.query, 0, l.got * n, l.rows) /\ PageAt(server, n, l.query, l.got + 1, l.answer)
    BY <1>l, <1>6 DEF LoadFresh
  <2>2. (l.got + 1) - 1 = l.got
    BY <1>2
  <2>a. PICK a : a = l.got * n
    OBVIOUS
  <2>b. PICK b : b = (l.got + 1) * n
    OBVIOUS
  <2>3. a \in Nat /\ b \in Nat /\ a <= b
    BY <1>1, <1>2, <2>a, <2>b
  <2>4. Cut(server, l.query, 0, a, l.rows) /\ Cut(server, l.query, a, b, l.answer.rows)
        /\ l.answer.total = Len(OnServer(server, l.query))
    BY <2>1, <2>2, <2>a, <2>b DEF PageAt
  <2>5. Cut(server, l.query, 0, b, rows)
    BY <1>2, <1>r, <2>3, <2>4, CutConcat
  <2>6. QED BY <2>b, <2>4, <2>5
<1>7. QED BY <1>n, <1>l, <1>r, <1>2, <1>3, <1>4, <1>5, <1>6

LEMMA KeptByNextPage ==
  ASSUME IInv, NextPage
  PROVE  IInv'
<1>n. PICK n : n = budget.pageSize
  OBVIOUS
<1>l. PICK l : l = p.load
  OBVIOUS
<1>r. PICK rows : rows = l.rows \o l.answer.rows
  OBVIOUS
<1>x. PICK x : x = [l EXCEPT !.rows = rows, !.got = l.got + 1, !.answer = None]
  OBVIOUS
<1>t. PICK t : t = [p EXCEPT !.load = x]
  OBVIOUS
<1>1. l # None /\ l.answer # None /\ server' = server /\ Paid
  BY <1>l DEF NextPage, Paid
<1>2. /\ Sound(server, p) /\ Steady(server, p) /\ IsP(p) /\ Fresh(server, n, p)
  BY <1>n, PageSize
<1>3. /\ l \in Load /\ rows \in Seq(Card) /\ l.got \in Nat /\ ReadSince(p.writes, rows, l.since)
      /\ LoadFresh(server, n, p) =>
           /\ Threads(server, p, rows, l.since)
           /\ ~Dirty(p.ops) => Cut(server, l.query, 0, (l.got + 1) * n, rows)
  BY <1>n, <1>l, <1>r, <1>1, LoadWhole
<1>4. p' = t
  BY <1>2, <1>l, <1>r, <1>x, <1>t DEF NextPage, IsP, Fields
<1>5. /\ x \in Load /\ x.answer = None /\ x.rows = rows /\ x.got = l.got + 1 /\ x.since = l.since /\ x.query = l.query
      /\ x # None
  <2>1. x \in Load
    <3>1. l \in Load /\ rows \in Seq(Card) /\ l.got + 1 \in Nat
      BY <1>3
    <3>2. QED BY <1>x, <3>1 DEF Load
  <2>2. QED BY <1>3, <1>x, <2>1, LoadIs DEF Load
<1>6. LoadSince(x, p.writes, p.written)
  BY <1>l, <1>1, <1>2, <1>3, <1>5 DEF LoadSince, Steady
<1>7. LoadFresh(server, n, p) => LoadFresh(server, n, t)
  <2>1. /\ t.load = x /\ t.timer = p.timer /\ t.query = p.query /\ t.ops = p.ops /\ t.drafts = p.drafts
        /\ t.writes = p.writes
    BY <1>2, <1>t DEF IsP, Fields
  <2>2. SameDrafts(p.drafts, t.drafts) /\ Rows(rows)
    BY <1>3, <2>1, CardRows DEF SameDrafts
  <2>3. ASSUME LoadFresh(server, n, p)
        PROVE  Threads(server, t, rows, l.since)
    BY <1>3, <2>1, <2>2, <2>3, ThreadsAlike
  <2>4. ASSUME LoadFresh(server, n, p)
        PROVE  ~t.timer => x.query = t.query
    BY <1>l, <1>1, <1>5, <2>1, <2>4 DEF LoadFresh
  <2>5. QED BY <1>3, <1>5, <2>1, <2>3, <2>4 DEF LoadFresh
<1>8. Sound(server, t) /\ Fresh(server, n, t)
  BY <1>l, <1>1, <1>2, <1>5, <1>6, <1>7, <1>t, LoadChanged
<1>9. QED BY <1>n, <1>1, <1>4, <1>8, PanelStep

LEMMA KeptByCommitLoad ==
  ASSUME IInv, CommitLoad
  PROVE  IInv'
<1>n. PICK n : n = budget.pageSize
  OBVIOUS
<1>l. PICK l : l = p.load
  OBVIOUS
<1>r. PICK rows : rows = l.rows \o l.answer.rows
  OBVIOUS
<1>k. PICK kept : kept = KeepThreads(p, l.since, rows)
  OBVIOUS
<1>t. PICK t : t = Rendered(p, l)
  OBVIOUS
<1>u. PICK u : u = ServeScroll(t)
  OBVIOUS
<1>1. l # None /\ l.answer # None /\ server' = server /\ Paid /\ p' = End(u)
  BY <1>l, <1>t, <1>u DEF CommitLoad, Paid
<1>2. /\ Sound(server, p) /\ Steady(server, p) /\ IsP(p) /\ Fresh(server, n, p) /\ n \in Nat /\ Locked(p.ops, p.detail)
  BY <1>n, PageSize DEF Sound
<1>3. /\ l \in Load /\ rows \in Seq(Card) /\ l.got \in Nat /\ l.since \in Nat /\ l.answer.total \in Nat
      /\ ReadSince(p.writes, rows, l.since)
      /\ LoadFresh(server, n, p) =>
           /\ Threads(server, p, rows, l.since)
           /\ ~Dirty(p.ops) => l.answer.total = Len(OnServer(server, l.query)) /\ Cut(server, l.query, 0, (l.got + 1) * n, rows)
  BY <1>n, <1>l, <1>r, <1>1, LoadWhole
<1>4. kept \in Seq(Card) /\ ListKeeps(kept, p.writes)
  BY <1>2, <1>3, <1>k, KeepThreadsFacts, KeptFacts
<1>5. t = [p EXCEPT !.page = l.got + 1, !.list = kept, !.total = l.answer.total, !.selected = {}, !.processing = FALSE]
  BY <1>k, <1>r, <1>t DEF Rendered
<1>6. /\ IsP(t) /\ Same(p, t, {"page", "list", "total", "selected", "processing"})
      /\ t.page = l.got + 1 /\ t.list = kept /\ t.total = l.answer.total
  <2>0. l.got + 1 \in Nat /\ l.got + 1 > 0
    BY <1>3
  <2>1. IsP(t)
    BY <1>2, <1>3, <1>4, <1>5, <2>0 DEF IsP, Fields
  <2>2. QED BY <1>2, <1>5, <2>1 DEF Same, IsP, Fields
<1>7. /\ t.ops = p.ops /\ t.writes = p.writes /\ t.sends = p.sends /\ t.detail = p.detail /\ t.load = p.load
      /\ t.drafts = p.drafts /\ t.written = p.written /\ t.more = p.more /\ t.query = p.query /\ t.timer = p.timer
      /\ t.stale = p.stale /\ t.begun = p.begun
  BY <1>6 DEF Same, Fields
<1>8. Sound(server, t)
  BY <1>2, <1>4, <1>6, <1>7 DEF Sound, Steady
<1>9. ASSUME ~t.stale
      PROVE  ListFresh(server, n, t) /\ MoreFresh(server, n, t)
  <2>1. LoadFresh(server, n, p) /\ MoreFresh(server, n, p)
    BY <1>l, <1>1, <1>2, <1>7, <1>9 DEF Fresh, Steady, BegunSound
  <2>2. SameDrafts(p.drafts, t.drafts)
    BY <1>7 DEF SameDrafts
  <2>3. MoreFresh(server, n, t)
    BY <1>2, <1>7, <2>1, <2>2, LoadRows, ThreadsAlike DEF MoreFresh
  <2>4. \A i \in DOMAIN kept : Whole(server, t, kept[i], {})
    <3>1. \A i \in DOMAIN kept : Whole(server, p, kept[i], {})
      BY <1>2, <1>3, <1>k, <2>1, KeptFacts
    <3>2. QED BY <1>4, <2>2, <3>1, CardRows, ThreadsAlike
  <2>5. ~Dirty(t.ops) /\ ~t.timer =>
          t.total = Len(OnServer(server, t.query)) /\ Cut(server, t.query, 0, t.page * n, kept)
    <3>1. ASSUME ~Dirty(p.ops)
          PROVE  Cut(server, l.query, 0, (l.got + 1) * n, kept)
      BY <1>2, <1>3, <1>k, <2>1, <3>1, KeptFacts
    <3>2. ~p.timer => l.query = p.query
      BY <1>l, <1>1, <2>1 DEF LoadFresh
    <3>3. QED BY <1>3, <1>6, <1>7, <2>1, <3>1, <3>2
  <2>6. QED BY <1>6, <2>3, <2>4, <2>5 DEF ListFresh
<1>10. Sound(server, u) /\ Alike(t, u)
  <2>1. CASE t.scroll = None
    BY <1>8, <1>u, <2>1, AlikeSelf DEF ServeScroll
  <2>2. CASE t.scroll # None
    BY <1>8, <1>u, <2>2, FlashCardFacts DEF ServeScroll
  <2>3. QED BY <2>1, <2>2
<1>11. /\ u.load # None /\ ~u.stale => ListFresh(server, n, u) /\ MoreFresh(server, n, u)
  BY <1>6, <1>9, <1>10, FreshAlike, AlikeFields
<1>12. u.load # None
  BY <1>l, <1>1, <1>7, <1>10, AlikeFields
<1>13. Sound(server, p') /\ Fresh(server, n, p')
  BY <1>1, <1>10, <1>11, <1>12, EndFacts
<1>14. QED BY <1>n, <1>1, <1>13, PanelStep

LEMMA KeptByFailLoad ==
  ASSUME IInv, FailLoad
  PROVE  IInv'
<1>t. PICK t : t = [p EXCEPT !.stale = TRUE]
  OBVIOUS
<1>1. p.load # None /\ server' = server /\ Paid /\ p' = End(t)
  BY <1>t DEF FailLoad, Paid, Budgeted
<1>2. Sound(server, p) /\ IsP(p)
  BY PageSize
<1>3. IsP(t) /\ t.stale /\ t.load = p.load
  BY <1>2, <1>t DEF IsP, Fields
<1>4. Same(p, t, {"open", "scroll", "dialog", "selected", "processing", "query", "timer", "total", "page", "stale"})
  BY <1>2, <1>t DEF Same, IsP, Fields
<1>5. Sound(server, t)
  BY <1>2, <1>3, <1>4, SoundBeside
<1>6. QED BY <1>1, <1>3, <1>5, EndFacts, PanelStep

LEMMA KeptByDropLoad ==
  ASSUME IInv, NEW k \in DOMAIN p.ops, DropLoad(k)
  PROVE  IInv'
<1>1. server' = server /\ Paid /\ p' = Resume(p, k) /\ p.ops[k].load \in 1..p.begun - 1
  BY DEF DropLoad, Paid
<1>2. Sound(server, p) /\ IsP(p) /\ Fresh(server, budget.pageSize, p) /\ OpSound(p.ops[k], p.begun)
  BY PageSize DEF Steady, OpsSound
<1>3. p.ops[k].load \in Nat /\ p.ops[k].load > 0
  <2>1. p.begun \in Nat
    BY <1>2 DEF IsP
  <2>2. QED BY <1>1, <2>1
<1>4. p.ops[k].via # "none" /\ ~OpDirty(p.ops[k])
  BY <1>2, <1>3 DEF OpSound, OpDirty, Done
<1>5. Sound(server, p') /\ Alike(p, p')
  BY <1>1, <1>2, <1>4, ResumeFacts
<1>6. QED BY <1>1, <1>2, <1>5, FreshAlike, PanelStep



(***************************************************************************)
(* Further pages.                                                          *)
(***************************************************************************)
LEMMA KeptByLoadMoreFeedbacks ==
  ASSUME IInv, LoadMoreFeedbacks
  PROVE  IInv'
<1>m. PICK m : m = [begun |-> p.begun, page |-> p.page + 1, query |-> p.query, since |-> p.written, answer |-> None]
  OBVIOUS
<1>t. PICK t : t = [p EXCEPT !.more = m]
  OBVIOUS
<1>1. server' = server /\ Paid /\ p' = t
  BY <1>m, <1>t DEF LoadMoreFeedbacks, Paid, Budgeted
<1>2. /\ Sound(server, p) /\ IsP(p) /\ Fresh(server, budget.pageSize, p)
      /\ p.begun \in Nat /\ p.page \in Nat /\ p.query \in Query /\ p.written \in Nat
  BY PageSize DEF IsP
<1>3. m \in More
  BY <1>2, <1>m DEF More
<1>4. MoreSince(m, p.writes, p.written) /\ m.begun <= p.begun /\ m.page > 0
  BY <1>2, <1>m DEF MoreSince
<1>5. MoreFresh(server, budget.pageSize, t)
  <2>1. t.more = m /\ t.timer = p.timer /\ t.query = p.query
    BY <1>2, <1>t DEF IsP, Fields
  <2>2. QED BY <1>m, <2>1 DEF MoreFresh
<1>6. Sound(server, t) /\ Fresh(server, budget.pageSize, t)
  BY <1>2, <1>3, <1>4, <1>5, <1>t, MoreChanged
<1>7. QED BY <1>1, <1>6, PanelStep

LEMMA KeptByReadMore ==
  ASSUME IInv, ReadMore
  PROVE  IInv'
<1>n. PICK n : n = budget.pageSize
  OBVIOUS
<1>l. PICK l : l = p.more
  OBVIOUS
<1>a. PICK a : a = Page(l.query, l.page)
  OBVIOUS
<1>x. PICK x : x = [l EXCEPT !.answer = a]
  OBVIOUS
<1>t. PICK t : t = [p EXCEPT !.more = x]
  OBVIOUS
<1>1. l # None /\ l.answer = None /\ p' = [p EXCEPT !.more.answer = a] /\ server' = server /\ Paid
  BY <1>l, <1>a DEF ReadMore, Paid
<1>2. /\ TypeInv /\ Sound(server, p) /\ Steady(server, p) /\ IsP(p) /\ Fresh(server, n, p) /\ l \in More
      /\ l.begun <= p.begun /\ l.page > 0 /\ l.since <= p.written
  BY <1>n, <1>l, <1>1, PageSize DEF IsP, Steady, BegunSound, MoreSince
<1>3. /\ a \in Answer /\ a # None /\ PageAt(server, n, l.query, l.page, a)
      /\ \A i \in DOMAIN a.rows : a.rows[i].replies = server[a.rows[i].id].replies
  BY <1>n, <1>a, <1>2, MoreIs, PageFacts
<1>4. a.rows \in Seq(Card)
  BY <1>3 DEF Answer
<1>5. /\ x \in More /\ x.answer = a /\ x.begun = l.begun /\ x.page = l.page /\ x.since = l.since /\ x.query = l.query
      /\ x # None
  <2>1. x \in More
    BY <1>2, <1>3, <1>x DEF More
  <2>2. QED BY <1>2, <1>x, <2>1, MoreIs DEF More
<1>6. ReadSince(p.writes, a.rows, l.since) /\ Threads(server, p, a.rows, l.since)
  BY <1>2, <1>3, <1>4, ReadRows
<1>7. p' = t
  BY <1>1, <1>2, <1>l, <1>x, <1>t DEF IsP, Fields
<1>8. MoreSince(x, p.writes, p.written)
  BY <1>2, <1>5, <1>6 DEF MoreSince
<1>9. ASSUME ~p.stale /\ p.begun > 0
      PROVE  MoreFresh(server, n, t)
  <2>1. /\ t.more = x /\ t.timer = p.timer /\ t.query = p.query /\ t.ops = p.ops /\ t.drafts = p.drafts
        /\ t.writes = p.writes /\ t.begun = p.begun
    BY <1>2, <1>t DEF IsP, Fields
  <2>2. Threads(server, t, a.rows, l.since)
    <3>1. SameDrafts(p.drafts, t.drafts) /\ Rows(a.rows)
      BY <1>4, <2>1, CardRows DEF SameDrafts
    <3>2. QED BY <1>6, <2>1, <3>1, ThreadsAlike
  <2>3. MoreFresh(server, n, p)
    BY <1>2, <1>9 DEF Fresh
  <2>4. QED BY <1>l, <1>1, <1>3, <1>5, <2>1, <2>2, <2>3 DEF MoreFresh
<1>10. Sound(server, t) /\ Fresh(server, n, t)
  BY <1>2, <1>5, <1>8, <1>9, <1>t, MoreChanged
<1>11. QED BY <1>n, <1>1, <1>7, <1>10, PanelStep

\* No further page is asked for any more.
LEMMA MoreGone ==
  ASSUME IInv, server' = server, Paid, p' = [p EXCEPT !.more = None]
  PROVE  IInv'
<1>1. Sound(server, p) /\ IsP(p) /\ Fresh(server, budget.pageSize, p)
  BY PageSize
<1>2. MoreSince(None, p.writes, p.written)
  BY DEF MoreSince
<1>3. MoreFresh(server, budget.pageSize, p')
  <2>1. p'.more = None
    BY <1>1 DEF IsP, Fields
  <2>2. QED BY <2>1 DEF MoreFresh
<1>m. PICK m : m = None
  OBVIOUS
<1>4. Sound(server, p') /\ Fresh(server, budget.pageSize, p')
  <2>1. m \in More \cup {None} /\ MoreSince(m, p.writes, p.written) /\ m = None /\ p' = [p EXCEPT !.more = m]
    BY <1>2, <1>m
  <2>2. MoreFresh(server, budget.pageSize, [p EXCEPT !.more = m])
    BY <1>3, <2>1
  <2>3. QED BY <1>1, <2>1, <2>2, MoreChanged
<1>5. QED BY <1>4, PanelStep

LEMMA KeptByFailMore ==
  ASSUME IInv, FailMore
  PROVE  IInv'
BY MoreGone DEF FailMore, Paid, Budgeted

LEMMA KeptByAppendMore ==
  ASSUME IInv, AppendMore
  PROVE  IInv'
<1>n. PICK n : n = budget.pageSize
  OBVIOUS
<1>l. PICK l : l = p.more
  OBVIOUS
<1>k. PICK kept : kept = KeepThreads(p, l.since, l.answer.rows)
  OBVIOUS
<1>o. PICK o : o = p.list \o kept
  OBVIOUS
<1>g. PICK gap : gap = (p.stale \/ (p.load = None /\ l.page # p.page + 1))
  OBVIOUS
<1>t. PICK t : t = [p EXCEPT !.more = None, !.page = l.page, !.total = l.answer.total, !.list = o, !.stale = gap]
  OBVIOUS
<1>1. l # None /\ l.answer # None /\ server' = server /\ Paid
  BY <1>l DEF AppendMore, Paid
<1>2. CASE l.begun # p.begun
  <2>1. p' = [p EXCEPT !.more = None]
    BY <1>2, <1>l DEF AppendMore
  <2>2. QED BY <1>1, <2>1, MoreGone
<1>3. CASE l.begun = p.begun
  <2>1. p' = t
    BY <1>3, <1>l, <1>k, <1>o, <1>g, <1>t DEF AppendMore
  <2>2. /\ Sound(server, p) /\ Steady(server, p) /\ IsP(p) /\ Fresh(server, n, p) /\ n \in Nat /\ Locked(p.ops, p.detail)
        /\ l \in More /\ l.page > 0 /\ p.list \in Seq(Card) /\ p.page \in Nat
    BY <1>n, <1>l, <1>1, PageSize DEF IsP, Sound, Steady, BegunSound
  <2>3. l.answer.rows \in Seq(Card) /\ l.answer.total \in Nat /\ l.since \in Nat /\ l.page \in Nat
    BY <1>1, <2>2, MoreIs
  <2>4. ReadSince(p.writes, l.answer.rows, l.since)
    BY <1>l, <1>1, <2>2 DEF Steady, MoreSince
  <2>5. kept \in Seq(Card) /\ ListKeeps(kept, p.writes)
    BY <1>k, <2>2, <2>3, <2>4, KeepThreadsFacts, KeptFacts
  <2>6. o \in Seq(Card) /\ ListKeeps(o, p.writes)
    <3>1. ListKeeps(p.list, p.writes)
      BY <2>2 DEF Steady
    <3>2. o \in Seq(Card)
      BY <1>o, <2>2, <2>5, ConcatEach
    <3>3. ListKeeps(o, p.writes)
      BY <1>o, <2>2, <2>5, <3>1, ConcatRows
    <3>4. QED BY <3>2, <3>3
  <2>7. /\ IsP(t) /\ Same(p, t, {"more", "page", "total", "list", "stale"})
        /\ t.page = l.page /\ t.list = o /\ t.total = l.answer.total /\ t.more = None /\ t.stale = gap
    <3>1. gap \in BOOLEAN
      BY <1>g
    <3>2. IsP(t)
      BY <1>t, <2>2, <2>3, <2>6, <3>1 DEF IsP, Fields
    <3>3. Same(p, t, {"more", "page", "total", "list", "stale"})
      BY <1>t, <2>2, <3>2 DEF Same, IsP, Fields
    <3>4. t.page = l.page /\ t.list = o /\ t.total = l.answer.total /\ t.more = None /\ t.stale = gap
      BY <1>t, <2>2 DEF IsP, Fields
    <3>5. QED BY <3>2, <3>3, <3>4
  <2>8. /\ t.ops = p.ops /\ t.writes = p.writes /\ t.sends = p.sends /\ t.detail = p.detail /\ t.load = p.load
        /\ t.drafts = p.drafts /\ t.written = p.written /\ t.query = p.query /\ t.timer = p.timer /\ t.begun = p.begun
    BY <2>7 DEF Same, Fields
  <2>9. Sound(server, t)
    BY <2>2, <2>6, <2>7, <2>8 DEF Sound, Steady, MoreSince, BegunSound
  <2>10. SameDrafts(p.drafts, t.drafts)
    BY <2>8 DEF SameDrafts
  <2>11. ASSUME ~t.stale, t.begun > 0
         PROVE  LoadFresh(server, n, p) /\ MoreFresh(server, n, p) /\ (p.load = None => ListFresh(server, n, p) /\ l.page = p.page + 1)
    BY <1>g, <2>2, <2>7, <2>8, <2>11 DEF Fresh
  <2>12. LoadFresh(server, n, p) => LoadFresh(server, n, t)
    BY <2>2, <2>8, <2>10, LoadRows, ThreadsAlike DEF LoadFresh
  <2>13. ASSUME ListFresh(server, n, p), MoreFresh(server, n, p), l.page = p.page + 1
         PROVE  ListFresh(server, n, t)
    <3>1. Threads(server, p, l.answer.rows, l.since)
      BY <1>l, <1>1, <1>3, <2>13 DEF MoreFresh
    <3>2. \A i \in DOMAIN kept : Whole(server, p, kept[i], {})
      BY <1>k, <2>2, <2>3, <3>1, KeptFacts
    <3>3. \A i \in DOMAIN p.list : Whole(server, p, p.list[i], {})
      BY <2>13 DEF ListFresh
    <3>4. \A i \in DOMAIN o : Whole(server, p, o[i], {})
      <4>1. \A i \in DOMAIN o : (\E j \in DOMAIN p.list : o[i] = p.list[j]) \/ (\E j \in DOMAIN kept : o[i] = kept[j])
        BY <1>o, <2>2, <2>5, ConcatEach
      <4>2. QED BY <3>2, <3>3, <4>1
    <3>5. \A i \in DOMAIN o : Whole(server, t, o[i], {})
      BY <2>6, <2>10, <3>4, CardRows, ThreadsAlike
    <3>6. ASSUME ~Dirty(p.ops), ~p.timer
          PROVE  l.answer.total = Len(OnServer(server, p.query)) /\ Cut(server, p.query, 0, l.page * n, o)
      <4>1. Cut(server, p.query, 0, p.page * n, p.list)
        BY <2>13, <3>6 DEF ListFresh
      <4>2. l.query = p.query /\ PageAt(server, n, p.query, l.page, l.answer)
        BY <1>l, <1>1, <1>3, <2>13, <3>6 DEF MoreFresh
      <4>3. l.page - 1 = p.page
        BY <2>2, <2>13
      <4>a. PICK a : a = p.page * n
        OBVIOUS
      <4>b. PICK b : b = l.page * n
        OBVIOUS
      <4>4. a \in Nat /\ b \in Nat /\ a <= b
        <5>1. b = a + n
          BY <2>2, <2>13, <4>a, <4>b
        <5>2. a \in Nat
          BY <2>2, <4>a
        <5>3. QED BY <2>2, <5>1, <5>2
      <4>5. Cut(server, p.query, a, b, l.answer.rows) /\ l.answer.total = Len(OnServer(server, p.query))
        BY <4>2, <4>3, <4>a, <4>b DEF PageAt
      <4>6. Cut(server, p.query, a, b, kept)
        BY <1>k, <2>2, <2>3, <4>5, KeptFacts
      <4>7. Cut(server, p.query, 0, b, o)
        BY <1>o, <2>2, <2>5, <4>1, <4>4, <4>6, <4>a, CutConcat
      <4>8. QED BY <4>5, <4>7, <4>b
    <3>7. QED BY <2>7, <2>8, <3>5, <3>6 DEF ListFresh
  <2>14. MoreFresh(server, n, t)
    BY <2>7 DEF MoreFresh
  <2>15. Fresh(server, n, t)
    BY <2>8, <2>11, <2>12, <2>13, <2>14 DEF Fresh
  <2>16. QED BY <1>n, <1>1, <2>1, <2>9, <2>15, PanelStep
<1>4. QED BY <1>2, <1>3



(***************************************************************************)
(* The visitor.                                                            *)
(***************************************************************************)
LEMMA StepBeside ==
  ASSUME IInv, server' = server, Paid, IsP(p'), Same(p, p', {"open", "scroll", "dialog", "selected", "processing"})
  PROVE  IInv'
<1>1. Sound(server, p) /\ IsP(p) /\ Fresh(server, budget.pageSize, p)
  BY PageSize
<1>2. Sound(server, p') /\ Alike(p, p')
  BY <1>1, Beside
<1>3. QED BY <1>1, <1>2, FreshAlike, PanelStep

LEMMA StepAlike ==
  ASSUME IInv, server' = server, Paid, Sound(server, p'), Alike(p, p')
  PROVE  IInv'
BY PageSize, FreshAlike, PanelStep

LEMMA StepLoads ==
  ASSUME IInv, server' = server, Paid, NEW s, Sound(server, s), NEW pages \in Nat, p' = LoadFeedbacks(s, pages)
  PROVE  IInv'
<1>1. Sound(server, p') /\ Fresh(server, budget.pageSize, p')
  BY PageSize, LoadFacts
<1>2. QED BY <1>1, PanelStep

\* The panel opens, with a load.
LEMMA OpenedFacts ==
  ASSUME NEW v, NEW n \in Nat, NEW s, Sound(v, s), Fresh(v, n, s)
  PROVE  Sound(v, Opened(s)) /\ Fresh(v, n, Opened(s))
<1>1. CASE s.open
  BY <1>1 DEF Opened
<1>2. CASE ~s.open
  <2>r. PICK r : r = [s EXCEPT !.open = TRUE]
    OBVIOUS
  <2>1. IsP(s)
    BY DEF Sound, Steady
  <2>2. IsP(r) /\ Same(s, r, {"open", "scroll", "dialog", "selected", "processing"})
    <3>1. IsP(r)
      BY <2>1, <2>r DEF IsP, Fields
    <3>2. QED BY <2>1, <2>r, <3>1 DEF Same, IsP, Fields
  <2>3. Sound(v, r)
    BY <2>2, Beside
  <2>4. Opened(s) = LoadFeedbacks(r, 1)
    BY <1>2, <2>r DEF Opened
  <2>5. QED BY <2>3, <2>4, LoadFacts
<1>3. QED BY <1>1, <1>2

LEMMA ClosedFacts ==
  ASSUME NEW v, NEW s, Sound(v, s)
  PROVE  Sound(v, Closed(s)) /\ Alike(s, Closed(s))
<1>r. PICK r : r = Hide(s)
  OBVIOUS
<1>t. PICK t : t = [r EXCEPT !.open = FALSE, !.scroll = None]
  OBVIOUS
<1>1. Sound(v, r) /\ Alike(s, r) /\ IsP(r)
  <2>1. Sound(v, r) /\ Alike(s, r)
    BY <1>r, HideFacts DEF Sound
  <2>2. QED BY <2>1 DEF Sound, Steady
<1>2. IsP(t)
  BY <1>1, <1>t DEF IsP, Fields
<1>3. Same(r, t, {"open", "scroll", "dialog", "selected", "processing"})
  BY <1>1, <1>2, <1>t DEF Same, IsP, Fields
<1>4. Sound(v, t) /\ Alike(r, t)
  BY <1>1, <1>2, <1>3, Beside
<1>5. t = Closed(s)
  BY <1>r, <1>t DEF Closed
<1>6. QED BY <1>1, <1>4, <1>5, AlikeTwice

LEMMA KeptByOpening ==
  ASSUME IInv, Open \/ Refresh \/ Close \/ Back \/ PressEscape
  PROVE  IInv'
<1>1. Sound(server, p) /\ IsP(p) /\ Steady(server, p) /\ Fresh(server, budget.pageSize, p) /\ budget.pageSize \in Nat
  BY PageSize
<1>2. CASE Open
  <2>1. server' = server /\ Paid /\ p' = Opened(p)
    BY <1>2 DEF Open, Paid, Budgeted
  <2>2. QED BY <1>1, <2>1, OpenedFacts, PanelStep
<1>3. CASE Refresh
  <2>1. server' = server /\ Paid /\ p' = LoadFeedbacks(p, 1)
    BY <1>3 DEF Refresh, Paid, Budgeted
  <2>2. QED BY <1>1, <2>1, StepLoads
<1>4. CASE Close
  <2>1. server' = server /\ Paid /\ p' = Closed(p)
    BY <1>4 DEF Close, Paid
  <2>2. QED BY <1>1, <2>1, ClosedFacts, StepAlike
<1>5. CASE Back
  <2>1. server' = server /\ Paid /\ p' = Hide(p)
    BY <1>5 DEF Back, Paid
  <2>2. QED BY <1>1, <2>1, HideFacts, StepAlike
<1>6. CASE PressEscape
  <2>1. server' = server /\ Paid
    BY <1>6 DEF PressEscape, Paid
  <2>2. CASE p.dialog
    <3>1. p' = [p EXCEPT !.dialog = FALSE]
      BY <1>6, <2>2 DEF PressEscape
    <3>2. IsP(p')
      BY <1>1, <3>1 DEF IsP, Fields
    <3>3. Same(p, p', {"open", "scroll", "dialog", "selected", "processing"})
      BY <1>1, <3>1, <3>2 DEF Same, IsP, Fields
    <3>4. QED BY <2>1, <3>2, <3>3, StepBeside
  <2>3. CASE ~p.dialog /\ p.detail # None
    <3>1. p' = Hide(p)
      BY <1>6, <2>3 DEF PressEscape
    <3>2. QED BY <1>1, <2>1, <3>1, HideFacts, StepAlike
  <2>4. CASE ~p.dialog /\ p.detail = None
    <3>1. p' = Closed(p)
      BY <1>6, <2>4 DEF PressEscape
    <3>2. QED BY <1>1, <2>1, <3>1, ClosedFacts, StepAlike
  <2>5. QED BY <2>2, <2>3, <2>4
<1>7. QED BY <1>2, <1>3, <1>4, <1>5, <1>6

LEMMA KeptByQuery ==
  ASSUME IInv, NEW q \in Query, SelectQuery(q) \/ Search(q)
  PROVE  IInv'
<1>n. PICK n : n = budget.pageSize
  OBVIOUS
<1>1. Sound(server, p) /\ IsP(p) /\ Steady(server, p) /\ Fresh(server, n, p)
  BY <1>n, PageSize
<1>2. CASE SelectQuery(q)
  <2>r. PICK r : r = [p EXCEPT !.query = q]
    OBVIOUS
  <2>1. server' = server /\ Paid /\ p' = LoadFeedbacks(r, 1)
    BY <1>2, <2>r DEF SelectQuery, Paid, Budgeted
  <2>2. IsP(r)
    BY <1>1, <2>r DEF IsP, Fields
  <2>3. Same(p, r, {"open", "scroll", "dialog", "selected", "processing", "query", "timer", "total", "page", "stale"})
    BY <1>1, <2>r, <2>2 DEF Same, IsP, Fields
  <2>4. Sound(server, r)
    BY <1>1, <2>2, <2>3, SoundBeside
  <2>5. QED BY <2>1, <2>4, StepLoads
<1>3. CASE Search(q)
  <2>1. server' = server /\ Paid /\ p' = [p EXCEPT !.query = q, !.timer = TRUE]
    BY <1>3 DEF Search, Paid, Budgeted
  <2>t. PICK t : t = [p EXCEPT !.query = q, !.timer = TRUE]
    OBVIOUS
  <2>2. IsP(t) /\ t.timer
    BY <1>1, <2>t DEF IsP, Fields
  <2>3. Same(p, t, {"query", "timer"})
    BY <1>1, <2>t, <2>2 DEF Same, IsP, Fields
  <2>4. Sound(server, t)
    <3>1. Same(p, t, {"open", "scroll", "dialog", "selected", "processing", "query", "timer", "total", "page", "stale"})
      BY <2>3 DEF Same
    <3>2. QED BY <1>1, <2>2, <3>1, SoundBeside
  <2>5. /\ t.ops = p.ops /\ t.list = p.list /\ t.writes = p.writes /\ t.drafts = p.drafts /\ t.load = p.load
        /\ t.more = p.more /\ t.stale = p.stale /\ t.begun = p.begun
    BY <2>3 DEF Same, Fields
  <2>6. SameDrafts(p.drafts, t.drafts)
    BY <2>5 DEF SameDrafts
  <2>7. LoadFresh(server, n, p) => LoadFresh(server, n, t)
    BY <1>1, <2>2, <2>5, <2>6, LoadRows, ThreadsAlike DEF LoadFresh
  <2>8. MoreFresh(server, n, p) => MoreFresh(server, n, t)
    BY <1>1, <2>2, <2>5, <2>6, LoadRows, ThreadsAlike DEF MoreFresh
  <2>9. ListFresh(server, n, p) => ListFresh(server, n, t)
    <3>1. (\A i \in DOMAIN p.list : Whole(server, p, p.list[i], {})) => \A i \in DOMAIN p.list : Whole(server, t, p.list[i], {})
      BY <1>1, <2>6, LoadRows, ThreadsAlike
    <3>2. QED BY <2>2, <2>5, <3>1 DEF ListFresh
  <2>10. Fresh(server, n, t)
    BY <1>1, <2>5, <2>7, <2>8, <2>9 DEF Fresh
  <2>11. QED BY <1>n, <2>1, <2>t, <2>4, <2>10, PanelStep
<1>4. QED BY <1>2, <1>3

LEMMA KeptBySearchNow ==
  ASSUME IInv, SearchNow
  PROVE  IInv'
<1>r. PICK r : r = [p EXCEPT !.timer = FALSE]
  OBVIOUS
<1>1. Sound(server, p) /\ IsP(p)
  BY PageSize
<1>2. server' = server /\ Paid /\ p' = LoadFeedbacks(r, 1)
  BY <1>r DEF SearchNow, Paid
<1>3. IsP(r)
  BY <1>1, <1>r DEF IsP, Fields
<1>4. Same(p, r, {"open", "scroll", "dialog", "selected", "processing", "query", "timer", "total", "page", "stale"})
  BY <1>1, <1>r, <1>3 DEF Same, IsP, Fields
<1>5. Sound(server, r)
  BY <1>1, <1>3, <1>4, SoundBeside
<1>6. QED BY <1>2, <1>5, StepLoads

LEMMA KeptByClicks ==
  ASSUME IInv, NEW f \in Feedback, ClickPin(f) \/ ClickCard(f)
  PROVE  IInv'
<1>1. Sound(server, p) /\ IsP(p) /\ Steady(server, p) /\ Fresh(server, budget.pageSize, p) /\ budget.pageSize \in Nat
  BY PageSize
<1>2. CASE ClickPin(f)
  <2>o. PICK o : o = Opened(p)
    OBVIOUS
  <2>1. server' = server /\ Paid /\ p' = ScrollToFeedback(o, f)
    BY <1>2, <2>o DEF ClickPin, Paid, Budgeted
  <2>2. Sound(server, o) /\ Fresh(server, budget.pageSize, o) /\ IsP(o)
    <3>1. Sound(server, o) /\ Fresh(server, budget.pageSize, o)
      BY <1>1, <2>o, OpenedFacts
    <3>2. QED BY <3>1 DEF Sound, Steady
  <2>3. Sound(server, p') /\ Alike(o, p')
    <3>1. CASE o.load # None
      <4>1. p' = [o EXCEPT !.scroll = f]
        BY <2>1, <3>1 DEF ScrollToFeedback
      <4>2. IsP(p')
        BY <2>2, <4>1 DEF IsP, Fields
      <4>3. Same(o, p', {"open", "scroll", "dialog", "selected", "processing"})
        BY <2>2, <4>1, <4>2 DEF Same, IsP, Fields
      <4>4. QED BY <2>2, <4>2, <4>3, Beside
    <3>2. CASE o.load = None
      <4>1. p' = FlashCard(o, f)
        BY <2>1, <3>2 DEF ScrollToFeedback
      <4>2. QED BY <2>2, <4>1, FlashCardFacts
    <3>3. QED BY <3>1, <3>2
  <2>4. QED BY <2>1, <2>2, <2>3, FreshAlike, PanelStep
<1>3. CASE ClickCard(f)
  <2>1. server' = server /\ Paid /\ p' = Show(p, f) /\ f \in Ids(p.list)
    BY <1>3 DEF ClickCard, Paid
  <2>2. QED BY <1>1, <2>1, ShowFacts, StepAlike
<1>4. QED BY <1>2, <1>3

\* The selection and the dialog.
LEMMA SelectionStep ==
  ASSUME IInv, server' = server, Paid, NEW chosen \in SUBSET Feedback, p' = [p EXCEPT !.selected = chosen]
  PROVE  IInv'
<1>1. IsP(p)
  BY PageSize
<1>2. IsP(p')
  BY <1>1 DEF IsP, Fields
<1>3. Same(p, p', {"open", "scroll", "dialog", "selected", "processing"})
  BY <1>1, <1>2 DEF Same, IsP, Fields
<1>4. QED BY <1>2, <1>3, StepBeside

LEMMA DialogStep ==
  ASSUME IInv, server' = server, Paid, NEW on \in BOOLEAN, p' = [p EXCEPT !.dialog = on]
  PROVE  IInv'
<1>1. IsP(p)
  BY PageSize
<1>2. IsP(p')
  BY <1>1 DEF IsP, Fields
<1>3. Same(p, p', {"open", "scroll", "dialog", "selected", "processing"})
  BY <1>1, <1>2 DEF Same, IsP, Fields
<1>4. QED BY <1>2, <1>3, StepBeside

LEMMA KeptBySelection ==
  ASSUME IInv, SelectAll \/ ClickDeselect \/ \E f \in Feedback : Toggle(f)
  PROVE  IInv'
<1>1. IsP(p) /\ p.selected \subseteq Feedback /\ Ids(p.list) \subseteq Feedback
  BY PageSize, LoadRows DEF IsP, Ids, Rows
<1>2. p' = p \/ \E chosen \in SUBSET Feedback : p' = [p EXCEPT !.selected = chosen]
  <2>1. CASE ClickDeselect
    BY <2>1 DEF ClickDeselect, DeselectAll
  <2>2. ASSUME NEW f \in Feedback, Toggle(f)
        PROVE  \E chosen \in SUBSET Feedback : p' = [p EXCEPT !.selected = chosen]
    <3>c. PICK chosen : chosen = IF f \in p.selected THEN p.selected \ {f} ELSE p.selected \cup {f}
      OBVIOUS
    <3>1. p' = [p EXCEPT !.selected = chosen]
      BY <2>2, <3>c DEF Toggle
    <3>2. chosen \in SUBSET Feedback
      BY <1>1, <3>c
    <3>3. QED BY <3>1, <3>2
  <2>3. CASE SelectAll
    <3>1. p' = DeselectAll(p) \/ p' = SelectMore(p, Ids(p.list))
      BY <2>3 DEF SelectAll
    <3>2. CASE p' = DeselectAll(p)
      BY <3>2 DEF DeselectAll
    <3>3. CASE p' = SelectMore(p, Ids(p.list)) /\ ~p.processing
      <4>1. p' = [p EXCEPT !.selected = p.selected \cup Ids(p.list)]
        BY <3>3 DEF SelectMore
      <4>2. p.selected \cup Ids(p.list) \in SUBSET Feedback
        BY <1>1
      <4>3. QED BY <4>1, <4>2
    <3>4. CASE p' = SelectMore(p, Ids(p.list)) /\ p.processing
      BY <3>4 DEF SelectMore
    <3>5. QED BY <3>1, <3>2, <3>3, <3>4
  <2>4. QED BY <2>1, <2>2, <2>3
<1>3. server' = server /\ Paid
  BY DEF SelectAll, ClickDeselect, Toggle, Paid
<1>4. CASE p' = p
  <2>1. Sound(server, p) /\ Alike(p, p)
    BY PageSize, AlikeSelf
  <2>2. QED BY <1>3, <1>4, <2>1, StepAlike
<1>5. QED BY <1>2, <1>3, <1>4, SelectionStep



(***************************************************************************)
(* The writes.                                                             *)
(***************************************************************************)
LEMMA BeginFacts ==
  ASSUME NEW v, NEW s, Sound(v, s), NEW via \in {"list", "detail", "bulk", "all"}, NEW to \in {"open", "closed", "gone", "run"},
         to = "run" => via = "detail", NEW S \in SUBSET Feedback,
         via = "detail" => \E f \in Feedback : S = {f} /\ ~DetailRuns(s.ops, f)
  PROVE  LET t == Begin(s, via, to, S) IN
         /\ Steady(v, t) /\ Alike(s, t) /\ Same(s, t, {"ops"})
         /\ via # "detail" => Sound(v, t)
         /\ \A g : DetailRuns(t.ops, g) <=> DetailRuns(s.ops, g) \/ (via = "detail" /\ g \in S)
<1>c. PICK calls : calls = Calls(S)
  OBVIOUS
<1>x. PICK x : x = [via |-> via, to |-> to, calls |-> calls, load |-> 0]
  OBVIOUS
<1>o. PICK o : o = Append(s.ops, x)
  OBVIOUS
<1>t. PICK t : t = [s EXCEPT !.ops = o]
  OBVIOUS
<1>1. IsP(s) /\ s.ops \in Seq(Op) /\ s.begun \in Nat /\ Steady(v, s) /\ Locked(s.ops, s.detail) /\ OpsSound(s.ops, s.begun)
  BY DEF Sound, Steady, IsP
<1>2. Begin(s, via, to, S) = t
  BY <1>c, <1>x, <1>o, <1>t DEF Begin
<1>3. calls \in [S -> Outcome] /\ DOMAIN calls = S /\ \A f \in S : calls[f] = "sent"
  BY <1>c DEF Calls, Outcome
<1>4. x \in Op
  BY <1>3, <1>x, OpMade
<1>5. OpSound(x, s.begun) /\ ~OpDirty(x)
  <2>1. x.via = via /\ x.to = to /\ x.calls = calls /\ x.load = 0
    BY <1>x
  <2>2. x.via = "detail" => \E f \in Feedback : DOMAIN x.calls = {f}
    BY <1>3, <2>1
  <2>0. via # "none" /\ 0 <= s.begun
    BY <1>1
  <2>3. OpSound(x, s.begun)
    BY <2>0, <2>1, <2>2 DEF OpSound
  <2>4. ~OpDirty(x)
    BY <1>3, <2>1 DEF OpDirty
  <2>5. QED BY <2>3, <2>4
<1>n. PICK n : n = Len(s.ops) + 1
  OBVIOUS
<1>6. o \in Seq(Op) /\ DOMAIN o = DOMAIN s.ops \cup {n} /\ n \notin DOMAIN s.ops /\ o[n] = x /\ \A j \in DOMAIN s.ops : o[j] = s.ops[j]
  <2>1. o \in Seq(Op) /\ Len(o) = n /\ Len(s.ops) \in Nat
    BY <1>1, <1>4, <1>n, <1>o
  <2>2. o[n] = x /\ \A j \in DOMAIN s.ops : o[j] = s.ops[j]
    BY <1>1, <1>n, <1>o
  <2>3. DOMAIN o = 1..n /\ DOMAIN s.ops = 1..(n - 1)
    BY <1>1, <1>n, <2>1
  <2>4. QED BY <1>n, <2>1, <2>2, <2>3
<1>7. ASSUME NEW g
      PROVE  DetailRuns(o, g) <=> DetailRuns(s.ops, g) \/ (via = "detail" /\ g \in S)
  BY <1>3, <1>6, <1>x DEF DetailRuns
<1>8. OpsSound(o, s.begun)
  <2>1. \A k \in DOMAIN o : OpSound(o[k], s.begun)
    BY <1>1, <1>5, <1>6 DEF OpsSound
  <2>2. ASSUME NEW k \in DOMAIN s.ops, s.ops[k].via = "detail", via = "detail"
        PROVE  DOMAIN s.ops[k].calls # S
    BY <2>2 DEF DetailRuns
  <2>3. x.via = via /\ DOMAIN x.calls = S
    BY <1>3, <1>x
  <2>4. ASSUME NEW k \in DOMAIN o, NEW l \in DOMAIN o,
               o[k].via = "detail", o[l].via = "detail", DOMAIN o[k].calls = DOMAIN o[l].calls
        PROVE  k = l
    BY <1>1, <1>6, <2>2, <2>3, <2>4 DEF OpsSound
  <2>5. QED BY <2>1, <2>4 DEF OpsSound
<1>9. Dirty(o) <=> Dirty(s.ops)
  BY <1>5, <1>6 DEF Dirty
<1>10. IsP(t) /\ Same(s, t, {"ops"}) /\ t.ops = o
  <2>1. IsP(t)
    BY <1>1, <1>6, <1>t DEF IsP, Fields
  <2>2. QED BY <1>1, <1>t, <2>1 DEF IsP, Same, Fields
<1>11. /\ t.begun = s.begun /\ t.list = s.list /\ t.writes = s.writes /\ t.detail = s.detail
       /\ t.drafts = s.drafts /\ t.written = s.written /\ t.load = s.load /\ t.more = s.more /\ t.sends = s.sends
  BY <1>10 DEF Same, Fields
<1>12. Steady(v, t)
  BY <1>1, <1>8, <1>10, <1>11 DEF Steady
<1>13. Alike(s, t)
  BY <1>9, <1>10, <1>11 DEF Alike, Same, SameDrafts
<1>14. ASSUME via # "detail"
       PROVE  Sound(v, t)
  BY <1>1, <1>7, <1>10, <1>11, <1>12, <1>14 DEF Sound, Locked
<1>15. QED BY <1>2, <1>7, <1>10, <1>12, <1>13, <1>14

LEMMA KeptByFromCard ==
  ASSUME IInv, NEW f \in Feedback, NEW to \in {"open", "closed", "gone", "run"}, FromCard(f, to)
  PROVE  IInv'
<1>1. server' = server /\ Paid /\ p' = Begin(p, "list", to, {f}) /\ to \in CardButtons(RowOf(p.list, f))
  BY DEF FromCard, Paid, Budgeted
<1>2. to # "run"
  BY <1>1 DEF CardButtons, Opposite
<1>3. Sound(server, p') /\ Alike(p, p')
  <2>v. PICK via \in {"list", "detail", "bulk", "all"} : via = "list"
    OBVIOUS
  <2>1. {f} \in SUBSET Feedback /\ Sound(server, p) /\ p' = Begin(p, via, to, {f}) /\ via # "detail"
    BY <1>1, <2>v, PageSize
  <2>2. QED BY <1>2, <2>1, BeginFacts
<1>4. QED BY <1>1, <1>3, StepAlike

LEMMA KeptByFromDetail ==
  ASSUME IInv, NEW to \in {"open", "closed", "gone", "run"}, FromDetail(to)
  PROVE  IInv'
<1>f. PICK f : f = p.detail.id
  OBVIOUS
<1>b. PICK b : b = Begin(p, "detail", to, {f})
  OBVIOUS
<1>1. server' = server /\ Paid /\ p' = [b EXCEPT !.detail.locked = TRUE] /\ p.detail # None /\ f \notin Running(p, "detail")
  BY <1>f, <1>b DEF FromDetail, Paid, Budgeted
<1>2. Sound(server, p) /\ IsP(p) /\ p.detail \in View /\ f \in Feedback /\ ~DetailRuns(p.ops, f)
  BY <1>f, <1>1, PageSize, RunningDetail DEF IsP, View
<1>3. /\ Steady(server, b) /\ Alike(p, b) /\ Same(p, b, {"ops"})
      /\ \A g : DetailRuns(b.ops, g) <=> DetailRuns(p.ops, g) \/ g = f
  <2>v. PICK via \in {"list", "detail", "bulk", "all"} : via = "detail"
    OBVIOUS
  <2>s. PICK S : S = {f}
    OBVIOUS
  <2>1. S \in SUBSET Feedback /\ b = Begin(p, via, to, S) /\ \E h \in Feedback : S = {h} /\ ~DetailRuns(p.ops, h)
    BY <1>2, <1>b, <2>v, <2>s
  <2>2. Steady(server, b) /\ Alike(p, b) /\ Same(p, b, {"ops"})
    BY <1>2, <2>1, <2>v, BeginFacts
  <2>3. \A g : DetailRuns(b.ops, g) <=> DetailRuns(p.ops, g) \/ (via = "detail" /\ g \in S)
    BY <1>2, <2>1, <2>v, BeginFacts, ZenonT(30)
  <2>4. QED BY <2>2, <2>3, <2>s, <2>v
<1>x. PICK x : x = [p.detail EXCEPT !.locked = TRUE]
  OBVIOUS
<1>t. PICK t : t = [b EXCEPT !.detail = x]
  OBVIOUS
<1>4. x \in View /\ x.id = f /\ x.locked
  BY <1>2, <1>f, <1>x DEF View
<1>5. IsP(b) /\ b.detail = p.detail
  BY <1>3 DEF Steady, Same, Fields
<1>6. p' = t
  BY <1>1, <1>5, <1>x, <1>t DEF IsP, Fields
<1>7. IsP(t) /\ Same(b, t, {"detail"}) /\ t.detail = x
  <2>1. IsP(t)
    BY <1>4, <1>5, <1>t DEF IsP, Fields
  <2>2. QED BY <1>5, <1>t, <2>1 DEF IsP, Same, Fields
<1>8. /\ t.ops = b.ops /\ t.begun = b.begun /\ t.list = b.list /\ t.writes = b.writes /\ t.sends = b.sends
      /\ t.drafts = b.drafts /\ t.written = b.written /\ t.load = b.load /\ t.more = b.more
  BY <1>7 DEF Same, Fields
<1>9. ViewKeeps(t.detail, t.drafts, t.writes)
  <2>1. ViewKeeps(b.detail, b.drafts, b.writes)
    BY <1>3 DEF Steady
  <2>2. QED BY <1>f, <1>1, <1>4, <1>5, <1>7, <1>8, <2>1 DEF ViewKeeps
<1>10. Steady(server, t)
  BY <1>3, <1>7, <1>8, <1>9 DEF Steady
<1>11. Locked(t.ops, t.detail)
  BY <1>3, <1>4, <1>7, <1>8 DEF Locked
<1>12. Alike(b, t)
  BY <1>7, <1>8 DEF Alike, Same, SameDrafts
<1>13. Sound(server, p') /\ Alike(p, p')
  BY <1>3, <1>6, <1>10, <1>11, <1>12, AlikeTwice DEF Sound
<1>14. QED BY <1>1, <1>13, StepAlike

LEMMA KeptByFromBulk ==
  ASSUME IInv, NEW to \in {"open", "closed", "gone", "run"}, FromBulk(to)
  PROVE  IInv'
<1> DEFINE closed == {f \in p.selected : RowOf(p.list, f).status = "closed"}
<1>s. PICK S : S = IF to = "closed" THEN p.selected \ closed ELSE p.selected
  OBVIOUS
<1>1. /\ server' = server /\ Paid /\ to \in {"closed", "gone"}
      /\ p' = IF S = {} THEN [p EXCEPT !.selected = {}] ELSE [Begin(p, "bulk", to, S) EXCEPT !.processing = TRUE]
  BY <1>s DEF FromBulk, Paid, Budgeted
<1>2. Sound(server, p) /\ S \in SUBSET Feedback
  BY <1>s, PageSize DEF IsP
<1> HIDE DEF closed
<1>3. CASE S = {}
  <2>1. p' = [p EXCEPT !.selected = {}]
    BY <1>1, <1>3
  <2>c. PICK chosen \in SUBSET Feedback : chosen = {}
    OBVIOUS
  <2>2. p' = [p EXCEPT !.selected = chosen]
    BY <2>1, <2>c
  <2>3. QED BY <1>1, <2>2, SelectionStep
<1>4. CASE S # {}
  <2>b. PICK b : b = Begin(p, "bulk", to, S)
    OBVIOUS
  <2>1. Sound(server, b) /\ Alike(p, b)
    <3>v. PICK via \in {"list", "detail", "bulk", "all"} : via = "bulk"
      OBVIOUS
    <3>1. b = Begin(p, via, to, S) /\ to # "run" /\ via # "detail"
      BY <1>1, <2>b, <3>v
    <3>2. QED BY <1>2, <3>1, BeginFacts
  <2>2. IsP(b)
    BY <2>1 DEF Sound, Steady
  <2>3. p' = [b EXCEPT !.processing = TRUE]
    BY <1>1, <1>4, <2>b
  <2>4. IsP(p')
    BY <2>2, <2>3 DEF IsP, Fields
  <2>5. Same(b, p', {"open", "scroll", "dialog", "selected", "processing"})
    BY <2>2, <2>3, <2>4 DEF Same, IsP, Fields
  <2>6. Sound(server, p') /\ Alike(b, p')
    BY <2>1, <2>4, <2>5, Beside
  <2>7. QED BY <1>1, <2>1, <2>6, AlikeTwice, StepAlike
<1>5. QED BY <1>3, <1>4

LEMMA KeptByDialog ==
  ASSUME IInv, AskDeleteAll \/ AnswerDialog
  PROVE  IInv'
<1>1. CASE AskDeleteAll
  <2>1. server' = server /\ Paid /\ p' = [p EXCEPT !.dialog = TRUE]
    BY <1>1 DEF AskDeleteAll, Paid
  <2>2. QED BY <2>1, DialogStep
<1>2. CASE AnswerDialog /\ p' = [p EXCEPT !.dialog = FALSE] /\ UNCHANGED budget
  <2>1. server' = server /\ Paid /\ p' = [p EXCEPT !.dialog = FALSE]
    BY <1>2 DEF AnswerDialog, Paid
  <2>2. QED BY <2>1, DialogStep
<1>3. CASE AnswerDialog /\ Spend("writes") /\ p' = Begin([p EXCEPT !.dialog = FALSE], "all", "gone", Feedback)
  <2>r. PICK r : r = [p EXCEPT !.dialog = FALSE]
    OBVIOUS
  <2>1. server' = server /\ Paid
    BY <1>3 DEF AnswerDialog, Paid, Budgeted
  <2>2. Sound(server, p) /\ IsP(p)
    BY PageSize
  <2>3. IsP(r)
    BY <2>2, <2>r DEF IsP, Fields
  <2>4. Same(p, r, {"open", "scroll", "dialog", "selected", "processing"})
    BY <2>2, <2>3, <2>r DEF Same, IsP, Fields
  <2>5. Sound(server, r) /\ Alike(p, r)
    BY <2>2, <2>3, <2>4, Beside
  <2>6. Sound(server, p') /\ Alike(r, p')
    <3>v. PICK via \in {"list", "detail", "bulk", "all"} : via = "all"
      OBVIOUS
    <3>w. PICK to \in {"open", "closed", "gone", "run"} : to = "gone"
      OBVIOUS
    <3>1. p' = Begin(r, via, to, Feedback) /\ Feedback \in SUBSET Feedback /\ via # "detail" /\ to # "run"
      BY <1>3, <2>r, <3>v, <3>w
    <3>2. QED BY <2>5, <3>1, BeginFacts
  <2>7. QED BY <2>1, <2>5, <2>6, AlikeTwice, StepAlike
<1>4. QED BY <1>1, <1>2, <1>3 DEF AnswerDialog



(***************************************************************************)
(* The writes, answered.                                                   *)
(***************************************************************************)
\* What the invariant says of the server is about its replies.
LEMMA SoundServer ==
  ASSUME NEW v, NEW w, NEW s, Sound(v, s), \A f \in Feedback : w[f].replies = v[f].replies
  PROVE  Sound(w, s)
<1>1. WritesStored(w, s.writes, s.written)
  BY DEF Sound, Steady, WritesStored
<1>2. DraftsSound(w, s.drafts, s.sends)
  BY DEF Sound, Steady, DraftsSound
<1>3. QED BY <1>1, <1>2 DEF Sound, Steady

\* The statuses a write changes are not yet to be seen in the lists.
LEMMA FreshDirty ==
  ASSUME NEW v, NEW w, NEW n, NEW s, NEW t, IsP(s), Same(s, t, {"ops"}), Dirty(t.ops),
         \A f \in Feedback : w[f].replies = v[f].replies, Fresh(v, n, s)
  PROVE  Fresh(w, n, t)
<1>1. /\ t.list = s.list /\ t.writes = s.writes /\ t.drafts = s.drafts /\ t.load = s.load /\ t.more = s.more
      /\ t.query = s.query /\ t.timer = s.timer /\ t.stale = s.stale /\ t.begun = s.begun
  BY DEF Same, Fields
<1>2. ASSUME NEW row, row.id \in Feedback, NEW extra, Whole(v, s, row, extra)
      PROVE  Whole(w, t, row, extra)
  BY <1>1, <1>2 DEF Whole, Landing
<1>3. ASSUME NEW rows, Rows(rows), NEW since, Threads(v, s, rows, since)
      PROVE  Threads(w, t, rows, since)
  BY <1>1, <1>2, <1>3 DEF Threads, Rows
<1>4. LoadFresh(v, n, s) => LoadFresh(w, n, t)
  BY <1>1, <1>3, LoadRows DEF LoadFresh
<1>5. ListFresh(v, n, s) => ListFresh(w, n, t)
  <2>1. Rows(s.list)
    BY LoadRows
  <2>2. QED BY <1>1, <1>2, <2>1 DEF ListFresh, Rows
<1>6. MoreFresh(v, n, s) => MoreFresh(w, n, t)
  BY <1>1, <1>3, LoadRows DEF MoreFresh
<1>7. QED BY <1>1, <1>4, <1>5, <1>6 DEF Fresh

LEMMA ServerStep ==
  ASSUME IInv, server' \in [Feedback -> Record], budget' = budget, Sound(server', p'), Fresh(server', budget.pageSize, p')
  PROVE  IInv'
<1>1. IsP(p')
  BY DEF Sound, Steady
<1>2. TypeInv'
  BY <1>1 DEF IInv, TypeInv
<1>3. QED BY <1>2 DEF IInv

LEMMA KeptByApplyWrite ==
  ASSUME IInv, NEW k \in DOMAIN p.ops, NEW f, ApplyWrite(k, f)
  PROVE  IInv'
<1>o. PICK op : op = p.ops[k]
  OBVIOUS
<1>c. PICK calls : calls = [g \in DOMAIN op.calls |-> IF g \in Together(op, f) THEN "applied" ELSE op.calls[g]]
  OBVIOUS
<1>t. PICK t : t = [p EXCEPT !.ops[k].calls = calls]
  OBVIOUS
<1>0. /\ TypeInv /\ Sound(server, p) /\ IsP(p) /\ Fresh(server, budget.pageSize, p)
      /\ Called(k, f, "sent") /\ budget' = budget
      /\ server' = [g \in Feedback |-> IF g \in Together(op, f) THEN [server[g] EXCEPT !.status = op.to] ELSE server[g]]
  BY <1>o, PageSize DEF ApplyWrite
<1>1. /\ op \in Op /\ op.via # "none" /\ op.load = 0 /\ op.to # "run" /\ f \in DOMAIN op.calls
      /\ op.calls \in [DOMAIN op.calls -> Outcome]
  <2>v. PICK from \in {"sent", "applied"} : from = "sent"
    OBVIOUS
  <2>1. Called(k, f, from) /\ Sound(server, p)
    BY <1>0, <2>v
  <2>2. QED BY <1>o, <2>1, CalledFacts
<1>2. p' = t
  BY <1>0, <1>o, <1>c, <1>t DEF ApplyWrite, IsP, Fields
<1>3. calls \in [DOMAIN op.calls -> Outcome] /\ calls[f] = "applied"
  BY <1>1, <1>c DEF Together, Outcome
<1>4. Sound(server, t) /\ Same(p, t, {"ops"}) /\ Dirty(t.ops)
  <2>1. p.ops[k].via # "none" /\ p.ops[k].load = 0 /\ calls \in [DOMAIN p.ops[k].calls -> Outcome] /\ Sound(server, p)
    BY <1>0, <1>o, <1>1, <1>3
  <2>2. Sound(server, t) /\ Same(p, t, {"ops"})
    BY <1>t, <2>1, CallsFacts
  <2>3. t.ops[k].to = op.to /\ t.ops[k].calls = calls /\ t.ops[k].load = 0
    BY <1>o, <1>t, <2>1, CallsFacts
  <2>4. OpDirty(t.ops[k])
    BY <1>1, <1>3, <2>3 DEF OpDirty
  <2>5. OpDirty(t.ops[k]) => Dirty(t.ops)
    BY <1>t, <2>1, CallsFacts
  <2>6. QED BY <2>2, <2>4, <2>5
<1>5. server' \in [Feedback -> Record] /\ \A g \in Feedback : server'[g].replies = server[g].replies
  <2>1. op.to \in {"open", "closed", "gone"}
    BY <1>1, OpTypes
  <2>2. server \in [Feedback -> Record]
    BY <1>0 DEF TypeInv
  <2>3. ASSUME NEW g \in Feedback
        PROVE  [server[g] EXCEPT !.status = op.to] \in Record /\ [server[g] EXCEPT !.status = op.to].replies = server[g].replies
    BY <2>1, <2>2 DEF Record
  <2>4. QED BY <1>0, <2>2, <2>3
<1>6. Sound(server', t) /\ Fresh(server', budget.pageSize, t)
  BY <1>0, <1>4, <1>5, SoundServer, FreshDirty
<1>7. QED BY <1>0, <1>2, <1>5, <1>6, ServerStep

LEMMA KeptByAnswerWrite ==
  ASSUME IInv, NEW k \in DOMAIN p.ops, NEW f, AnswerWrite(k, f)
  PROVE  IInv'
<1>v. PICK from \in {"sent", "applied"}, outcome \in {"ok", "failed"} : from = "applied" /\ outcome = "ok"
  OBVIOUS
<1>1. /\ Called(k, f, from) /\ p' = Answered(k, f, outcome) /\ server' = server /\ Paid
      /\ budget.pageSize \in Nat /\ Sound(server, p) /\ IsP(p) /\ Fresh(server, budget.pageSize, p)
  BY <1>v, PageSize DEF AnswerWrite, Paid
<1>2. Sound(server, p') /\ (Fresh(server, budget.pageSize, p') \/ Alike(p, p'))
  BY <1>v, <1>1, AnsweredFacts
<1>3. QED BY <1>1, <1>2, FreshAlike, PanelStep

LEMMA KeptByRefuseWrite ==
  ASSUME IInv, NEW k \in DOMAIN p.ops, NEW f, RefuseWrite(k, f)
  PROVE  IInv'
<1>v. PICK from \in {"sent", "applied"}, outcome \in {"ok", "failed"} : from = "sent" /\ outcome = "failed"
  OBVIOUS
<1>1. /\ Called(k, f, from) /\ p' = Answered(k, f, outcome) /\ server' = server /\ Paid /\ p.ops[k].via # "all"
      /\ budget.pageSize \in Nat /\ Sound(server, p) /\ IsP(p) /\ Fresh(server, budget.pageSize, p)
  BY <1>v, PageSize DEF RefuseWrite, Known, Paid
<1>2. Sound(server, p') /\ (Fresh(server, budget.pageSize, p') \/ Alike(p, p'))
  BY <1>v, <1>1, AnsweredFacts
<1>3. QED BY <1>1, <1>2, FreshAlike, PanelStep

\* From here on nothing is asked of the lists, until the next load.
LEMMA StaleFacts ==
  ASSUME NEW v, NEW n, NEW s, Sound(v, s)
  PROVE  LET t == [s EXCEPT !.stale = TRUE] IN Sound(v, t) /\ Fresh(v, n, t)
<1>t. PICK t : t = [s EXCEPT !.stale = TRUE]
  OBVIOUS
<1>1. IsP(s)
  BY DEF Sound, Steady
<1>2. IsP(t) /\ t.stale = TRUE
  BY <1>1, <1>t DEF IsP, Fields
<1>3. Same(s, t, {"open", "scroll", "dialog", "selected", "processing", "query", "timer", "total", "page", "stale"})
  BY <1>1, <1>t DEF Same, IsP, Fields
<1>4. Sound(v, t)
  BY <1>2, <1>3, SoundBeside
<1>5. Fresh(v, n, t)
  BY <1>2 DEF Fresh
<1>6. QED BY <1>t, <1>4, <1>5

LEMMA KeptByFailWrite ==
  ASSUME IInv, NEW k \in DOMAIN p.ops, NEW f, FailWrite(k, f)
  PROVE  IInv'
<1>v. PICK outcome \in {"ok", "failed"} : outcome = "failed"
  OBVIOUS
<1>f. PICK from \in {"sent", "applied"} : Called(k, f, from)
  BY DEF FailWrite
<1>s. PICK s : s = Answered(k, f, outcome)
  OBVIOUS
<1>1. /\ p' = (IF p.ops[k].via = "all" THEN s ELSE [s EXCEPT !.stale = TRUE]) /\ server' = server /\ Paid
      /\ budget.pageSize \in Nat /\ Sound(server, p)
  BY <1>v, <1>s, PageSize DEF FailWrite, Paid, Budgeted
<1>2. Sound(server, s)
  BY <1>f, <1>s, <1>1, AnsweredFacts
<1>3. p.ops[k].via = "all" => Fresh(server, budget.pageSize, s)
  BY <1>f, <1>s, <1>1, AnsweredFacts
<1>4. Sound(server, p') /\ Fresh(server, budget.pageSize, p')
  BY <1>1, <1>2, <1>3, StaleFacts
<1>5. QED BY <1>1, <1>4, PanelStep

LEMMA KeptByHostAction ==
  ASSUME IInv, NEW k \in DOMAIN p.ops, HostRefresh(k) \/ EndHostAction(k)
  PROVE  IInv'
<1>1. /\ IsP(p) /\ Sound(server, p) /\ budget.pageSize \in Nat /\ p.page \in Nat
      /\ p.ops[k].to = "run" /\ p.ops[k].load = 0 /\ server' = server /\ Paid
  BY PageSize DEF HostRefresh, EndHostAction, Paid, Budgeted, IsP
<1>2. p.ops[k].via = "detail" /\ ~OpDirty(p.ops[k])
  <2>1. OpSound(p.ops[k], p.begun)
    BY <1>1 DEF Sound, Steady, OpsSound
  <2>2. QED BY <1>1, <2>1 DEF OpSound, OpDirty
<1>3. CASE HostRefresh(k)
  <2>1. p' = Reload(p, k, p.page)
    BY <1>3 DEF HostRefresh
  <2>2. Sound(server, p') /\ Fresh(server, budget.pageSize, p')
    BY <1>1, <1>2, <2>1, ReloadFacts
  <2>3. QED BY <1>1, <2>2, PanelStep
<1>4. CASE EndHostAction(k)
  <2>1. p' = Unlock(Over(p, k), Subject(p.ops[k]))
    BY <1>4 DEF EndHostAction
  <2>2. Sound(server, p') /\ Alike(p, p')
    BY <1>1, <1>2, <2>1, UnlockOverFacts
  <2>3. QED BY <1>1, <2>2, StepAlike
<1>5. QED BY <1>3, <1>4



(***************************************************************************)
(* Replies.                                                                *)
(***************************************************************************)
\* The draft of f becomes d, on a screen that stays.
LEMMA DraftFacts ==
  ASSUME NEW v \in [Feedback -> Record], NEW s, Sound(v, s), NEW f \in Feedback, NEW d \in Draft, NEW sends \in Nat,
         s.sends <= sends, DraftSound(d, v[f].replies, sends), d.shown = s.drafts[f].shown
  PROVE  LET t == [s EXCEPT !.drafts = [s.drafts EXCEPT ![f] = d], !.sends = sends] IN
         /\ Sound(v, t) /\ Same(s, t, {"drafts", "sends"}) /\ t.drafts = [s.drafts EXCEPT ![f] = d]
         /\ d.sending # "stored" /\ s.drafts[f].sending # "stored" => Alike(s, t)
<1>e. PICK e : e = [s.drafts EXCEPT ![f] = d]
  OBVIOUS
<1>t. PICK t : t = [s EXCEPT !.drafts = e, !.sends = sends]
  OBVIOUS
<1>1. IsP(s) /\ Steady(v, s) /\ Locked(s.ops, s.detail) /\ s.drafts \in [Feedback -> Draft] /\ s.sends \in Nat
  BY DEF Sound, Steady, IsP
<1>2. e \in [Feedback -> Draft] /\ e[f] = d /\ \A g \in Feedback : g # f => e[g] = s.drafts[g]
  BY <1>1, <1>e
<1>3. IsP(t) /\ Same(s, t, {"drafts", "sends"}) /\ t.drafts = e /\ t.sends = sends
  <2>1. IsP(t)
    BY <1>1, <1>2, <1>t DEF IsP, Fields
  <2>2. QED BY <1>1, <1>t, <2>1 DEF Same, IsP, Fields
<1>4. /\ t.ops = s.ops /\ t.begun = s.begun /\ t.list = s.list /\ t.writes = s.writes /\ t.detail = s.detail
      /\ t.written = s.written /\ t.load = s.load /\ t.more = s.more
  BY <1>3 DEF Same, Fields
<1>5. DraftsSound(v, e, sends)
  <2>1. ASSUME NEW g \in Feedback, g # f
        PROVE  DraftSound(s.drafts[g], v[g].replies, sends)
    <3>1. DraftSound(s.drafts[g], v[g].replies, s.sends)
      BY <1>1 DEF Steady, DraftsSound
    <3>2. s.drafts[g].sent # None => s.drafts[g].sent.id \in Nat
      BY <1>1 DEF Draft, Reply
    <3>3. v[g] \in Record
      OBVIOUS
    <3>4. \A r \in v[g].replies : r.id \in Nat
      BY <3>3 DEF Record, Reply
    <3>5. \A r \in v[g].replies : r.id <= sends
      BY <1>1, <3>1, <3>4 DEF DraftSound
    <3>6. s.drafts[g].sent # None => s.drafts[g].sent.id <= sends
      BY <1>1, <3>1, <3>2 DEF DraftSound
    <3>7. QED BY <3>1, <3>5, <3>6 DEF DraftSound
  <2>2. QED BY <1>2, <2>1 DEF DraftsSound
<1>6. ViewKeeps(t.detail, t.drafts, t.writes)
  <2>1. \A g \in Feedback : e[g].shown = s.drafts[g].shown
    BY <1>2
  <2>2. s.detail # None => s.detail.id \in Feedback
    BY <1>1 DEF IsP, View
  <2>3. QED BY <1>1, <1>3, <1>4, <2>1, <2>2 DEF Steady, ViewKeeps
<1>7. Sound(v, t)
  BY <1>1, <1>3, <1>4, <1>5, <1>6 DEF Sound, Steady
<1>8. ASSUME d.sending # "stored", s.drafts[f].sending # "stored"
      PROVE  Alike(s, t)
  <2>1. SameDrafts(s.drafts, t.drafts)
    BY <1>2, <1>3, <1>8 DEF SameDrafts, Landing
  <2>2. QED BY <1>3, <1>4, <2>1 DEF Alike, Same
<1>9. QED BY <1>e, <1>t, <1>3, <1>7, <1>8

\* The draft of f, its state and what is known of it.
LEMMA DraftIs ==
  ASSUME IInv, NEW f \in Feedback
  PROVE  /\ p.drafts[f] \in Draft /\ DraftSound(p.drafts[f], server[f].replies, p.sends) /\ p.sends \in Nat
         /\ server \in [Feedback -> Record] /\ server[f].replies \subseteq Reply /\ p.drafts \in [Feedback -> Draft]
<1>1. server \in [Feedback -> Record] /\ IsP(p) /\ DraftsSound(server, p.drafts, p.sends)
  BY PageSize DEF TypeInv, Steady
<1>2. server[f] \in Record
  BY <1>1
<1>3. QED BY <1>1, <1>2 DEF IsP, DraftsSound, Record

LEMMA KeptByType ==
  ASSUME IInv, NEW f \in Feedback, NEW text \in Text, Type(f, text)
  PROVE  IInv'
<1>d. PICK d : d = [p.drafts[f] EXCEPT !.text = text]
  OBVIOUS
<1>t. PICK t : t = [p EXCEPT !.drafts = [p.drafts EXCEPT ![f] = d], !.sends = p.sends]
  OBVIOUS
<1>1. /\ p.drafts[f].sending = "no" /\ p' = [p EXCEPT !.drafts[f].text = text] /\ server' = server /\ Paid
      /\ IsP(p) /\ Sound(server, p)
  BY PageSize DEF Type, Paid
<1>2. p' = t
  BY <1>1, <1>d, <1>t DEF IsP, Fields
<1>3. d \in Draft /\ d.sent = p.drafts[f].sent /\ d.sending = "no" /\ d.shown = p.drafts[f].shown
  BY <1>1, <1>d, DraftIs DEF Draft
<1>4. DraftSound(d, server[f].replies, p.sends)
  BY <1>3, DraftIs DEF DraftSound
<1>5. p.sends <= p.sends /\ p.sends \in Nat /\ server \in [Feedback -> Record]
  BY DraftIs
<1>6. Sound(server, t) /\ Alike(p, t)
  <2>1. d.sending # "stored" /\ p.drafts[f].sending # "stored"
    BY <1>1, <1>3
  <2>2. Sound(server, t)
    BY <1>1, <1>3, <1>4, <1>5, <1>t, DraftFacts
  <2>3. Alike(p, t)
    BY <1>1, <1>3, <1>4, <1>5, <1>t, <2>1, DraftFacts
  <2>4. QED BY <2>2, <2>3
<1>7. QED BY <1>1, <1>2, <1>6, StepAlike

LEMMA KeptBySubmit ==
  ASSUME IInv, NEW f \in Feedback, Submit(f)
  PROVE  IInv'
<1>s. PICK sent : sent = Sent(f)
  OBVIOUS
<1>d. PICK d : d = [p.drafts[f] EXCEPT !.sent = sent, !.sending = "asked"]
  OBVIOUS
<1>n. PICK n : n = p.sends + 1
  OBVIOUS
<1>t. PICK t : t = [p EXCEPT !.drafts = [p.drafts EXCEPT ![f] = d], !.sends = n]
  OBVIOUS
<1>1. /\ p.drafts[f].sending = "no" /\ p.drafts[f].text # None /\ server' = server /\ Paid
      /\ p' = [p EXCEPT !.drafts[f].sent = sent, !.drafts[f].sending = "asked", !.sends = n]
      /\ IsP(p) /\ Sound(server, p)
  BY <1>s, <1>n, PageSize DEF Submit, Paid, Budgeted
<1>2. p' = t
  <2>1. p.drafts \in [Feedback -> Draft]
    BY DraftIs
  <2>2. QED BY <1>1, <1>d, <1>t, <2>1 DEF IsP, Fields, Draft
<1>3. n \in Nat /\ p.sends <= n /\ p.sends \in Nat /\ server \in [Feedback -> Record]
  BY <1>n, DraftIs
<1>4. /\ sent \in Reply /\ sent # None /\ sent.body = p.drafts[f].text /\ sent.id <= n
      /\ \A r \in server[f].replies : r.id = sent.id => r = sent
  <2>1. CASE p.drafts[f].sent # None /\ p.drafts[f].sent.body = p.drafts[f].text
    <3>1. sent = p.drafts[f].sent
      BY <1>s, <2>1 DEF Sent
    <3>2. sent \in Reply
      BY <2>1, <3>1, DraftIs DEF Draft
    <3>3. sent.id <= p.sends /\ \A r \in server[f].replies : r.id = sent.id => r = sent
      BY <2>1, <3>1, DraftIs DEF DraftSound
    <3>4. sent.id \in Nat
      BY <3>2 DEF Reply
    <3>5. sent.id <= n
      BY <1>3, <3>3, <3>4
    <3>6. QED BY <2>1, <3>1, <3>2, <3>3, <3>5
  <2>2. CASE ~(p.drafts[f].sent # None /\ p.drafts[f].sent.body = p.drafts[f].text)
    <3>1. sent = [id |-> n, body |-> p.drafts[f].text]
      BY <1>n, <1>s, <2>2 DEF Sent
    <3>2. p.drafts[f].text \in Text
      BY <1>1, DraftIs DEF Draft
    <3>3. sent \in Reply /\ sent.id = n /\ sent.body = p.drafts[f].text
      BY <1>3, <3>1, <3>2 DEF Reply
    <3>4. \A r \in server[f].replies : r.id <= p.sends /\ r.id \in Nat
      BY DraftIs DEF DraftSound, Reply
    <3>5. \A r \in server[f].replies : r.id # n
      BY <1>n, <1>3, <3>4
    <3>6. n <= n
      BY <1>3
    <3>7. QED BY <3>3, <3>5, <3>6, PanelAssumption
  <2>3. QED BY <2>1, <2>2
<1>5. d \in Draft /\ d.sent = sent /\ d.sending = "asked" /\ d.shown = p.drafts[f].shown /\ d.text = p.drafts[f].text
  BY <1>4, <1>d, DraftIs DEF Draft
<1>6. DraftSound(d, server[f].replies, n)
  <2>1. \A r \in server[f].replies : r.id <= p.sends /\ r.id \in Nat
    BY DraftIs DEF DraftSound, Reply
  <2>2. \A r \in server[f].replies : r.id <= n
    BY <1>3, <2>1
  <2>3. QED BY <1>1, <1>4, <1>5, <2>2 DEF DraftSound
<1>7. Sound(server, t) /\ Alike(p, t)
  <2>1. d.sending # "stored" /\ p.drafts[f].sending # "stored"
    BY <1>1, <1>5
  <2>2. Sound(server, t)
    BY <1>1, <1>3, <1>5, <1>6, <1>t, DraftFacts
  <2>3. Alike(p, t)
    BY <1>1, <1>3, <1>5, <1>6, <1>t, <2>1, DraftFacts
  <2>4. QED BY <2>2, <2>3
<1>8. QED BY <1>1, <1>2, <1>7, StepAlike

LEMMA KeptByReplyFails ==
  ASSUME IInv, NEW f \in Feedback, ReplyFails(f)
  PROVE  IInv'
<1>d. PICK d : d = [p.drafts[f] EXCEPT !.sending = "no"]
  OBVIOUS
<1>t. PICK t : t = [p EXCEPT !.drafts = [p.drafts EXCEPT ![f] = d], !.sends = p.sends]
  OBVIOUS
<1>1. /\ p' = [p EXCEPT !.drafts[f].sending = "no", !.stale = TRUE] /\ server' = server /\ Paid
      /\ IsP(p) /\ Sound(server, p)
  BY PageSize DEF ReplyFails, Paid, Budgeted
<1>2. p' = [t EXCEPT !.stale = TRUE]
  BY <1>1, <1>d, <1>t DEF IsP, Fields
<1>3. d \in Draft /\ d.sent = p.drafts[f].sent /\ d.sending = "no" /\ d.shown = p.drafts[f].shown
  BY <1>d, DraftIs DEF Draft
<1>4. DraftSound(d, server[f].replies, p.sends)
  BY <1>3, DraftIs DEF DraftSound
<1>5. p.sends <= p.sends /\ p.sends \in Nat /\ server \in [Feedback -> Record]
  BY DraftIs
<1>6. Sound(server, t)
  BY <1>1, <1>3, <1>4, <1>5, <1>t, DraftFacts
<1>7. Sound(server, p') /\ Fresh(server, budget.pageSize, p')
  BY <1>2, <1>6, StaleFacts
<1>8. QED BY <1>1, <1>7, PanelStep



\* A list under the same statuses.
LEMMA ServedAlike ==
  ASSUME NEW v, NEW w, \A g \in Feedback : w[g].status = v[g].status
  PROVE  /\ \A q : OnServer(w, q) = OnServer(v, q)
         /\ \A q, from, to, rows : Rows(rows) /\ Cut(v, q, from, to, rows) => Cut(w, q, from, to, rows)
         /\ \A n, q, m, a : Rows(a.rows) /\ PageAt(v, n, q, m, a) => PageAt(w, n, q, m, a)
<1>1. ASSUME NEW q
      PROVE  OnServer(w, q) = OnServer(v, q)
  <2>1. {g \in Feedback : w[g].status \in Listed[q]} = {g \in Feedback : v[g].status \in Listed[q]}
    OBVIOUS
  <2>2. QED BY <2>1 DEF OnServer
<1>2. ASSUME NEW q, NEW from, NEW to, NEW rows, Rows(rows), Cut(v, q, from, to, rows)
      PROVE  Cut(w, q, from, to, rows)
  BY <1>1, <1>2 DEF Cut, Rows
<1>3. ASSUME NEW n, NEW q, NEW m, NEW a, Rows(a.rows), PageAt(v, n, q, m, a)
      PROVE  PageAt(w, n, q, m, a)
  BY <1>1, <1>2, <1>3 DEF PageAt
<1>4. QED BY <1>1, <1>2, <1>3

\* A reply is stored, or lands: what is on its way keeps what it knows of the threads.
LEMMA FreshReplies ==
  ASSUME NEW v, NEW w, NEW n, NEW s, NEW t, Steady(v, s), Same(s, t, {"list", "writes", "written", "drafts", "sends"}),
         \A g \in Feedback : w[g].status = v[g].status,
         \A rows : \A since \in Nat :
           since <= s.written /\ Rows(rows) /\ Threads(v, s, rows, since) => Threads(w, t, rows, since)
  PROVE  /\ LoadFresh(v, n, s) => LoadFresh(w, n, t)
         /\ MoreFresh(v, n, s) => MoreFresh(w, n, t)
<1>0. IsP(s) /\ LoadSince(s.load, s.writes, s.written) /\ MoreSince(s.more, s.writes, s.written)
  BY DEF Steady
<1>1. /\ t.load = s.load /\ t.more = s.more /\ t.query = s.query /\ t.timer = s.timer /\ t.begun = s.begun /\ t.ops = s.ops
  BY DEF Same, Fields
<1>2. ASSUME LoadFresh(v, n, s), s.load # None
      PROVE  LoadFresh(w, n, t)
  <2>l. PICK l : l = s.load
    OBVIOUS
  <2>1. Rows(l.rows) /\ (l.answer # None => Rows(l.answer.rows))
    BY <1>0, <1>2, <2>l, LoadRows
  <2>0. l.since \in Nat /\ l.since <= s.written
    BY <1>0, <1>2, <2>l, LoadIs DEF IsP, LoadSince
  <2>2. Threads(w, t, l.rows, l.since) /\ (l.answer # None => Threads(w, t, l.answer.rows, l.since))
    BY <1>2, <2>l, <2>0, <2>1 DEF LoadFresh
  <2>3. ASSUME ~Dirty(t.ops)
        PROVE  /\ Cut(w, l.query, 0, l.got * n, l.rows)
               /\ l.answer # None => PageAt(w, n, l.query, l.got + 1, l.answer)
    BY <1>1, <1>2, <2>l, <2>1, <2>3, ServedAlike DEF LoadFresh
  <2>4. ~t.timer => l.query = t.query
    BY <1>1, <1>2, <2>l DEF LoadFresh
  <2>5. QED BY <1>1, <2>l, <2>2, <2>3, <2>4 DEF LoadFresh
<1>3. s.load = None => LoadFresh(w, n, t)
  BY <1>1 DEF LoadFresh
<1>4. ASSUME MoreFresh(v, n, s), s.more # None, s.more.begun = s.begun
      PROVE  MoreFresh(w, n, t)
  <2>m. PICK m : m = s.more
    OBVIOUS
  <2>1. m.answer # None => Rows(m.answer.rows)
    BY <1>0, <1>4, <2>m, LoadRows
  <2>0. m.since \in Nat /\ m.since <= s.written
    BY <1>0, <1>4, <2>m, MoreIs DEF IsP, MoreSince
  <2>2. m.answer # None => Threads(w, t, m.answer.rows, m.since)
    BY <1>4, <2>m, <2>0, <2>1 DEF MoreFresh
  <2>3. ASSUME ~Dirty(t.ops), m.answer # None
        PROVE  PageAt(w, n, m.query, m.page, m.answer)
    BY <1>1, <1>4, <2>m, <2>1, <2>3, ServedAlike DEF MoreFresh
  <2>4. ~t.timer => m.query = t.query
    BY <1>1, <1>4, <2>m DEF MoreFresh
  <2>5. QED BY <1>1, <2>m, <2>2, <2>3, <2>4 DEF MoreFresh
<1>5. ~(s.more # None /\ s.more.begun = s.begun) => MoreFresh(w, n, t)
  BY <1>1 DEF MoreFresh
<1>6. QED BY <1>2, <1>3, <1>4, <1>5

LEMMA KeptByStoreReply ==
  ASSUME IInv, NEW f \in Feedback, StoreReply(f)
  PROVE  IInv'
<1>r. PICK sent : sent = p.drafts[f].sent
  OBVIOUS
<1>d. PICK d : d = [p.drafts[f] EXCEPT !.sending = "stored"]
  OBVIOUS
<1>t. PICK t : t = [p EXCEPT !.drafts = [p.drafts EXCEPT ![f] = d], !.sends = p.sends]
  OBVIOUS
<1>w. PICK w : w = server'
  OBVIOUS
<1>1. /\ p.drafts[f].sending = "asked" /\ p' = [p EXCEPT !.drafts[f].sending = "stored"] /\ budget' = budget
      /\ w = IF Stored(f) # {} THEN server ELSE [server EXCEPT ![f].replies = @ \cup {sent}]
      /\ IsP(p) /\ Sound(server, p) /\ Steady(server, p) /\ Fresh(server, budget.pageSize, p)
  BY <1>r, <1>w, PageSize DEF StoreReply
<1>2. p' = t
  BY <1>1, <1>d, <1>t DEF IsP, Fields
<1>3. /\ sent # None /\ sent \in Reply /\ sent.id <= p.sends
      /\ \A r \in server[f].replies : r.id = sent.id => r = sent
  BY <1>1, <1>r, DraftIs DEF DraftSound, Draft
<1>4. /\ w \in [Feedback -> Record] /\ \A g \in Feedback : w[g].status = server[g].status
      /\ w[f].replies = server[f].replies \cup {sent} /\ \A g \in Feedback : g # f => w[g].replies = server[g].replies
  <2>1. server \in [Feedback -> Record] /\ server[f] \in Record
    BY DraftIs
  <2>2. CASE Stored(f) # {}
    <3>1. sent \in server[f].replies
      BY <1>r, <1>3, <2>2 DEF Stored
    <3>2. QED BY <1>1, <2>1, <2>2, <3>1
  <2>3. CASE Stored(f) = {}
    <3>x. PICK x : x = [server[f] EXCEPT !.replies = server[f].replies \cup {sent}]
      OBVIOUS
    <3>1. w = [server EXCEPT ![f] = x]
      BY <1>1, <2>1, <2>3, <3>x
    <3>2. x \in Record /\ x.status = server[f].status /\ x.replies = server[f].replies \cup {sent}
      BY <1>3, <2>1, <3>x DEF Record
    <3>3. QED BY <2>1, <3>1, <3>2
  <2>4. QED BY <2>2, <2>3
<1>5. Sound(w, p)
  <2>1. WritesStored(w, p.writes, p.written)
    BY <1>1, <1>4 DEF Steady, WritesStored
  <2>2. DraftsSound(w, p.drafts, p.sends)
    <3>1. DraftSound(p.drafts[f], w[f].replies, p.sends)
      BY <1>r, <1>3, <1>4, DraftIs DEF DraftSound
    <3>2. \A g \in Feedback : g # f => DraftSound(p.drafts[g], w[g].replies, p.sends)
      BY <1>1, <1>4 DEF Steady, DraftsSound
    <3>3. QED BY <3>1, <3>2 DEF DraftsSound
  <2>3. QED BY <1>1, <2>1, <2>2 DEF Sound, Steady
<1>6. /\ d \in Draft /\ d.sent = sent /\ d.sending = "stored" /\ d.shown = p.drafts[f].shown /\ d.text = p.drafts[f].text
  BY <1>d, <1>r, DraftIs DEF Draft
<1>7. DraftSound(d, w[f].replies, p.sends)
  BY <1>r, <1>1, <1>3, <1>4, <1>6, DraftIs DEF DraftSound
<1>8. Sound(w, t) /\ Same(p, t, {"drafts", "sends"}) /\ t.drafts = [p.drafts EXCEPT ![f] = d]
  <2>1. p.sends <= p.sends /\ p.sends \in Nat
    BY DraftIs
  <2>2. Sound(w, t)
    BY <1>4, <1>5, <1>6, <1>7, <1>t, <2>1, DraftFacts
  <2>3. Same(p, t, {"drafts", "sends"})
    BY <1>4, <1>5, <1>6, <1>7, <1>t, <2>1, DraftFacts
  <2>4. t.drafts = [p.drafts EXCEPT ![f] = d]
    BY <1>1, <1>t DEF IsP, Fields
  <2>5. QED BY <2>2, <2>3, <2>4
<1>9. Fresh(w, budget.pageSize, t)
  <2>1. /\ Landing(t.drafts, f) = {sent} /\ Landing(p.drafts, f) = {}
        /\ \A g \in Feedback : g # f => Landing(t.drafts, g) = Landing(p.drafts, g)
    BY <1>1, <1>6, <1>8, DraftIs DEF Landing
  <2>2. ASSUME NEW row, row.id \in Feedback, NEW extra, Whole(server, p, row, extra)
        PROVE  Whole(w, t, row, extra)
    <3>1. CASE row.id = f
      BY <1>4, <2>1, <2>2, <3>1 DEF Whole
    <3>2. CASE row.id # f
      BY <1>4, <2>1, <2>2, <3>2 DEF Whole
    <3>3. QED BY <3>1, <3>2
  <2>3. /\ t.writes = p.writes /\ t.list = p.list /\ t.load = p.load /\ t.stale = p.stale /\ t.begun = p.begun /\ t.ops = p.ops
        /\ t.timer = p.timer /\ t.total = p.total /\ t.query = p.query /\ t.page = p.page
    BY <1>8 DEF Same, Fields
  <2>4. ASSUME NEW rows, NEW since, Rows(rows), Threads(server, p, rows, since)
        PROVE  Threads(w, t, rows, since)
    BY <2>2, <2>3, <2>4 DEF Threads, Rows
  <2>5. Same(p, t, {"list", "writes", "written", "drafts", "sends"})
    BY <1>8 DEF Same
  <2>6. /\ LoadFresh(server, budget.pageSize, p) => LoadFresh(w, budget.pageSize, t)
        /\ MoreFresh(server, budget.pageSize, p) => MoreFresh(w, budget.pageSize, t)
    BY <1>1, <1>4, <2>4, <2>5, FreshReplies
  <2>7. ListFresh(server, budget.pageSize, p) => ListFresh(w, budget.pageSize, t)
    <3>1. Rows(p.list)
      BY <1>1, LoadRows
    <3>2. (\A i \in DOMAIN p.list : Whole(server, p, p.list[i], {})) => \A i \in DOMAIN p.list : Whole(w, t, p.list[i], {})
      BY <2>2, <3>1 DEF Rows
    <3>3. Cut(server, p.query, 0, p.page * budget.pageSize, p.list) => Cut(w, p.query, 0, p.page * budget.pageSize, p.list)
      BY <1>4, <3>1, ServedAlike
    <3>4. OnServer(w, p.query) = OnServer(server, p.query)
      BY <1>4, ServedAlike
    <3>5. QED BY <2>3, <3>2, <3>3, <3>4 DEF ListFresh
  <2>8. QED BY <1>1, <2>3, <2>6, <2>7 DEF Fresh
<1>10. QED BY <1>w, <1>1, <1>2, <1>4, <1>8, <1>9, ServerStep



\* The lists once a reply landed on them.
LEMMA KeptByReplyLands ==
  ASSUME IInv, NEW f \in Feedback, ReplyLands(f)
  PROVE  IInv'
<1>r. PICK sent : sent = p.drafts[f].sent
  OBVIOUS
<1>d. PICK d : d = [text |-> None, sent |-> None, sending |-> "no", shown |-> p.drafts[f].shown \cup {sent}]
  OBVIOUS
<1>e. PICK e : e = [p.drafts EXCEPT ![f] = d]
  OBVIOUS
<1>n. PICK n : n = p.written + 1
  OBVIOUS
<1>x. PICK x : x = [seq |-> n, replies |-> p.writes[f].replies \cup {sent}]
  OBVIOUS
<1>y. PICK writes : writes = [p.writes EXCEPT ![f] = x]
  OBVIOUS
<1>l. PICK list : list = [i \in DOMAIN p.list |-> IF p.list[i].id = f THEN WithReplies(p.list[i], {sent}) ELSE p.list[i]]
  OBVIOUS
<1>t. PICK t : t = [p EXCEPT !.list = list, !.writes = writes, !.written = n, !.drafts = e]
  OBVIOUS
<1>0. /\ p.drafts[f].sending = "stored" /\ server' = server /\ budget' = budget
      /\ IsP(p) /\ Sound(server, p) /\ Steady(server, p) /\ Fresh(server, budget.pageSize, p)
  BY PageSize DEF ReplyLands
<1>1. /\ sent \in Reply /\ sent # None /\ sent \in server[f].replies /\ Stored(f) = {sent}
      /\ p.drafts[f] \in Draft
  <2>1. sent \in Reply /\ sent # None /\ sent \in server[f].replies /\ p.drafts[f] \in Draft
    BY <1>0, <1>r, DraftIs DEF DraftSound, Draft
  <2>2. Stored(f) = {sent}
    BY <1>r, <2>1, DraftIs DEF DraftSound, Stored
  <2>3. QED BY <2>1, <2>2
<1>2. p' = t
  BY <1>0, <1>1, <1>r, <1>d, <1>e, <1>n, <1>x, <1>y, <1>l, <1>t DEF ReplyLands, IsP, Fields
<1>3. /\ p.writes \in [Feedback -> Write] /\ p.list \in Seq(Card) /\ p.drafts \in [Feedback -> Draft]
      /\ p.written \in Nat /\ n \in Nat
  BY <1>0, <1>n DEF IsP
<1>4. d \in Draft /\ e \in [Feedback -> Draft] /\ e[f] = d /\ \A g \in Feedback : g # f => e[g] = p.drafts[g]
  <2>1. d \in Draft
    BY <1>1, <1>d DEF Draft
  <2>2. QED BY <1>3, <1>e, <2>1
<1>5. writes \in [Feedback -> Write] /\ writes[f] = x /\ \A g \in Feedback : g # f => writes[g] = p.writes[g]
  <2>1. x \in Write
    BY <1>1, <1>3, <1>x DEF Write
  <2>2. QED BY <1>3, <1>y, <2>1
<1>6. /\ list \in Seq(Card) /\ DOMAIN list = DOMAIN p.list /\ Len(list) = Len(p.list)
      /\ \A i \in DOMAIN list : /\ list[i].id = p.list[i].id /\ list[i].status = p.list[i].status
                                /\ list[i].replies = p.list[i].replies \cup (IF p.list[i].id = f THEN {sent} ELSE {})
  <2>1. ASSUME NEW i \in DOMAIN p.list
        PROVE  /\ list[i] \in Card /\ list[i].id = p.list[i].id /\ list[i].status = p.list[i].status
               /\ list[i].replies = p.list[i].replies \cup (IF p.list[i].id = f THEN {sent} ELSE {})
    <3>1. p.list[i] \in Card
      BY <1>3
    <3>2. CASE p.list[i].id = f
      <4>1. list[i] = [p.list[i] EXCEPT !.replies = p.list[i].replies \cup {sent}]
        BY <1>l, <3>2 DEF WithReplies
      <4>2. QED BY <1>1, <3>1, <3>2, <4>1 DEF Card
    <3>3. CASE p.list[i].id # f
      BY <1>l, <3>1, <3>3
    <3>4. QED BY <3>2, <3>3
  <2>2. list \in Seq(Card) /\ Len(list) = Len(p.list) /\ DOMAIN list = DOMAIN p.list
    <3>1. DOMAIN p.list = 1..Len(p.list) /\ Len(p.list) \in Nat
      BY <1>3
    <3>2. list \in [1..Len(p.list) -> Card]
      BY <1>l, <2>1, <3>1
    <3>3. QED BY <3>1, <3>2
  <2>3. QED BY <2>1, <2>2
<1>7. IsP(t) /\ Same(p, t, {"list", "writes", "written", "drafts", "sends"})
  <2>1. IsP(t)
    BY <1>0, <1>3, <1>4, <1>5, <1>6, <1>t DEF IsP, Fields
  <2>2. QED BY <1>0, <1>t, <2>1 DEF Same, IsP, Fields
<1>8. t.list = list /\ t.writes = writes /\ t.written = n /\ t.drafts = e /\ t.sends = p.sends
  BY <1>0, <1>t DEF IsP, Fields
<1>9. /\ t.ops = p.ops /\ t.begun = p.begun /\ t.detail = p.detail /\ t.load = p.load /\ t.more = p.more
      /\ t.query = p.query /\ t.timer = p.timer /\ t.total = p.total /\ t.page = p.page /\ t.stale = p.stale
  BY <1>7 DEF Same, Fields
<1>10. Sound(server, t)
  <2>1. ListKeeps(list, writes)
    <3>1. ASSUME NEW i \in DOMAIN list
          PROVE  writes[list[i].id].replies \subseteq list[i].replies
      <4>1. list[i].id \in Feedback /\ list[i].id = p.list[i].id /\ p.writes[p.list[i].id].replies \subseteq p.list[i].replies
        BY <1>0, <1>6, CardIs DEF Steady, ListKeeps
      <4>2. CASE p.list[i].id = f
        BY <1>5, <1>6, <1>x, <4>1, <4>2
      <4>3. CASE p.list[i].id # f
        BY <1>5, <1>6, <4>1, <4>3
      <4>4. QED BY <4>2, <4>3
    <3>2. QED BY <3>1 DEF ListKeeps
  <2>2. ViewKeeps(p.detail, e, writes)
    <3>1. ASSUME p.detail # None
          PROVE  writes[p.detail.id].replies \subseteq e[p.detail.id].shown
      <4>1. p.detail.id \in Feedback
        BY <1>0, <3>1 DEF IsP, View
      <4>2. p.writes[p.detail.id].replies \subseteq p.drafts[p.detail.id].shown
        BY <1>0, <3>1 DEF Steady, ViewKeeps
      <4>3. CASE p.detail.id = f
        BY <1>4, <1>5, <1>d, <1>x, <4>2, <4>3
      <4>4. CASE p.detail.id # f
        BY <1>4, <1>5, <4>1, <4>2, <4>4
      <4>5. QED BY <4>3, <4>4
    <3>2. QED BY <3>1 DEF ViewKeeps
  <2>3. WritesStored(server, writes, n)
    <3>1. ASSUME NEW g \in Feedback
          PROVE  writes[g].replies \subseteq server[g].replies /\ writes[g].seq <= n
      <4>1. p.writes[g].replies \subseteq server[g].replies /\ p.writes[g].seq <= p.written
        BY <1>0 DEF Steady, WritesStored
      <4>2. p.writes[g].seq \in Nat
        BY <1>3 DEF Write
      <4>3. p.writes[g].seq <= n /\ n <= n
        BY <1>3, <1>n, <4>1, <4>2
      <4>4. CASE g = f
        BY <1>1, <1>5, <1>x, <4>1, <4>3, <4>4
      <4>5. CASE g # f
        BY <1>5, <4>1, <4>3, <4>5
      <4>6. QED BY <4>4, <4>5
    <3>2. QED BY <3>1 DEF WritesStored
  <2>4. ASSUME NEW rows, Rows(rows), NEW since \in Nat, since <= p.written, ReadSince(p.writes, rows, since)
        PROVE  ReadSince(writes, rows, since) /\ since <= n
    <3>1. ~(n <= since) /\ since <= n
      BY <1>3, <1>n, <2>4
    <3>2. ASSUME NEW i \in DOMAIN rows, writes[rows[i].id].seq <= since
          PROVE  writes[rows[i].id].replies \subseteq rows[i].replies
      <4>1. rows[i].id \in Feedback
        BY <2>4 DEF Rows
      <4>2. rows[i].id # f
        BY <1>5, <1>x, <3>1, <3>2
      <4>3. QED BY <1>5, <2>4, <3>2, <4>1, <4>2 DEF ReadSince
    <3>3. QED BY <3>1, <3>2 DEF ReadSince
  <2>5. LoadSince(p.load, writes, n)
    <3>1. ASSUME p.load # None
          PROVE  /\ p.load.since <= n /\ ReadSince(writes, p.load.rows, p.load.since)
                 /\ p.load.answer # None => ReadSince(writes, p.load.answer.rows, p.load.since)
      <4>1. p.load.since \in Nat /\ Rows(p.load.rows) /\ (p.load.answer # None => Rows(p.load.answer.rows))
        BY <1>0, <3>1, LoadRows, LoadIs DEF IsP
      <4>2. /\ p.load.since <= p.written /\ ReadSince(p.writes, p.load.rows, p.load.since)
            /\ p.load.answer # None => ReadSince(p.writes, p.load.answer.rows, p.load.since)
        BY <1>0, <3>1 DEF Steady, LoadSince
      <4>3. QED BY <2>4, <4>1, <4>2
    <3>2. QED BY <3>1 DEF LoadSince
  <2>6. MoreSince(p.more, writes, n)
    <3>1. ASSUME p.more # None
          PROVE  /\ p.more.since <= n
                 /\ p.more.answer # None => ReadSince(writes, p.more.answer.rows, p.more.since)
      <4>1. p.more.since \in Nat /\ (p.more.answer # None => Rows(p.more.answer.rows))
        BY <1>0, <3>1, LoadRows, MoreIs DEF IsP
      <4>2. /\ p.more.since <= p.written
            /\ p.more.answer # None => ReadSince(p.writes, p.more.answer.rows, p.more.since)
        BY <1>0, <3>1 DEF Steady, MoreSince
      <4>3. p.more.since <= n
        BY <1>3, <1>n, <4>1, <4>2
      <4>4. QED BY <2>4, <4>1, <4>2, <4>3
    <3>2. QED BY <3>1 DEF MoreSince
  <2>7. DraftsSound(server, e, p.sends)
    <3>1. DraftSound(d, server[f].replies, p.sends)
      BY <1>d, DraftIs DEF DraftSound
    <3>2. \A g \in Feedback : g # f => DraftSound(p.drafts[g], server[g].replies, p.sends)
      BY <1>0 DEF Steady, DraftsSound
    <3>3. QED BY <1>4, <3>1, <3>2 DEF DraftsSound
  <2>8. Steady(server, t)
    BY <1>0, <1>7, <1>8, <1>9, <2>1, <2>2, <2>3, <2>5, <2>6, <2>7 DEF Steady
  <2>9. QED BY <1>0, <1>9, <2>8 DEF Sound
<1>11. Fresh(server, budget.pageSize, t)
  <2>1. /\ Landing(p.drafts, f) = {sent} /\ Landing(e, f) = {}
        /\ \A g \in Feedback : g # f => Landing(e, g) = Landing(p.drafts, g)
    BY <1>0, <1>4, <1>d, <1>r DEF Landing
  <2>2. ASSUME NEW row, row.id \in Feedback, row.id # f, NEW extra, Whole(server, p, row, extra)
        PROVE  Whole(server, t, row, extra)
    BY <1>8, <2>1, <2>2 DEF Whole
  <2>3. p.writes[f].replies \subseteq server[f].replies
    BY <1>0 DEF Steady, WritesStored
  <2>4. ASSUME NEW rows, NEW since, Rows(rows), Threads(server, p, rows, since), since \in Nat, since <= p.written
        PROVE  Threads(server, t, rows, since)
    <3>1. ASSUME NEW i \in DOMAIN rows
          PROVE  Whole(server, t, rows[i], Landed(writes, rows[i].id, since))
      <4>1. rows[i].id \in Feedback /\ Whole(server, p, rows[i], Landed(p.writes, rows[i].id, since))
        BY <2>4 DEF Rows, Threads
      <4>2. CASE rows[i].id # f
        <5>1. Landed(writes, rows[i].id, since) = Landed(p.writes, rows[i].id, since)
          BY <1>5, <4>1, <4>2 DEF Landed
        <5>2. QED BY <2>2, <4>1, <4>2, <5>1
      <4>3. CASE rows[i].id = f
        <5>1. n > since
          BY <1>3, <1>n, <2>4
        <5>2. Landed(writes, f, since) = p.writes[f].replies \cup {sent}
          BY <1>5, <1>x, <5>1 DEF Landed
        <5>3. Landed(p.writes, f, since) \subseteq p.writes[f].replies
          BY DEF Landed
        <5>4. rows[i].replies \cup Landed(p.writes, f, since) \cup {sent} = server[f].replies
          BY <2>1, <4>1, <4>3 DEF Whole
        <5>5. rows[i].replies \cup (p.writes[f].replies \cup {sent}) \cup {} = server[f].replies
          BY <2>3, <5>3, <5>4
        <5>6. QED BY <1>8, <2>1, <4>3, <5>2, <5>5 DEF Whole
      <4>4. QED BY <4>2, <4>3
    <3>2. QED BY <1>8, <3>1 DEF Threads
  <2>5. ListFresh(server, budget.pageSize, p) => ListFresh(server, budget.pageSize, t)
    <3>1. ASSUME \A i \in DOMAIN p.list : Whole(server, p, p.list[i], {}), NEW i \in DOMAIN list
          PROVE  Whole(server, t, list[i], {})
      <4>1. p.list[i].id \in Feedback /\ Whole(server, p, p.list[i], {}) /\ list[i].id = p.list[i].id
        BY <1>3, <1>6, <3>1, CardIs
      <4>2. CASE p.list[i].id = f
        BY <1>6, <1>8, <2>1, <4>1, <4>2 DEF Whole
      <4>3. CASE p.list[i].id # f
        BY <1>6, <1>8, <2>1, <4>1, <4>3 DEF Whole
      <4>4. QED BY <4>2, <4>3
    <3>2. Cut(server, p.query, 0, p.page * budget.pageSize, p.list) => Cut(server, p.query, 0, p.page * budget.pageSize, list)
      BY <1>6 DEF Cut
    <3>3. QED BY <1>8, <1>9, <3>1, <3>2 DEF ListFresh
  <2>6. /\ LoadFresh(server, budget.pageSize, p) => LoadFresh(server, budget.pageSize, t)
        /\ MoreFresh(server, budget.pageSize, p) => MoreFresh(server, budget.pageSize, t)
    BY <1>0, <1>7, <2>4, FreshReplies
  <2>7. QED BY <1>0, <1>9, <2>5, <2>6 DEF Fresh
<1>12. QED BY <1>0, <1>2, <1>10, <1>11, PanelStep DEF Paid



(***************************************************************************)
(* The invariant.                                                          *)
(***************************************************************************)
LEMMA InitHolds ==
  ASSUME Init
  PROVE  IInv
<1>1. budget \in [Budgeted -> Nat] /\ budget.pageSize > 0
  BY PanelAssumption DEF Init
<1>2. server \in [Feedback -> Record]
  BY DEF Init, Record
<1>q. PICK q : q = CHOOSE w \in Query : \A r \in Query : Listed[r] \subseteq Listed[w]
  OBVIOUS
<1>3. q \in Query
  BY <1>q, PanelAssumption
<1>d. PICK d : d = [text |-> None, sent |-> None, sending |-> "no", shown |-> {}]
  OBVIOUS
<1>x. PICK x : x = [seq |-> 0, replies |-> {}]
  OBVIOUS
<1>4. d \in Draft /\ x \in Write
  BY <1>d, <1>x DEF Draft, Write
<1>5. /\ p.query = q /\ p.list = <<>> /\ p.page = 1 /\ p.scroll = None /\ p.load = None /\ p.begun = 0 /\ p.more = None
      /\ p.ops = <<>> /\ p.selected = {} /\ p.detail = None /\ p.total = 0 /\ p.written = 0 /\ p.sends = 0
      /\ p.open = FALSE /\ p.timer = FALSE /\ p.dialog = FALSE /\ p.processing = FALSE /\ p.stale = FALSE
      /\ p.writes = [f \in Feedback |-> x] /\ p.drafts = [f \in Feedback |-> d] /\ DOMAIN p = Fields
  BY <1>q, <1>d, <1>x DEF Init, Fields
<1>6. <<>> \in Seq(Card) /\ <<>> \in Seq(Op) /\ DOMAIN <<>> = {}
  OBVIOUS
<1>7. IsP(p)
  <2>1. p.writes \in [Feedback -> Write] /\ p.drafts \in [Feedback -> Draft]
    BY <1>4, <1>5
  <2>2. {p.open, p.timer, p.dialog, p.processing, p.stale} \subseteq BOOLEAN
    BY <1>5
  <2>3. p.list \in Seq(Card) /\ p.ops \in Seq(Op)
    BY <1>5, <1>6
  <2>4. p.query \in Query /\ {p.total, p.page, p.begun, p.written, p.sends} \subseteq Nat /\ p.page > 0
    BY <1>3, <1>5
  <2>5. QED BY <1>5, <2>1, <2>2, <2>3, <2>4 DEF IsP
<1>8. OpsSound(p.ops, p.begun) /\ ListKeeps(p.list, p.writes)
  BY <1>5, <1>6 DEF OpsSound, ListKeeps
<1>9. ViewKeeps(p.detail, p.drafts, p.writes) /\ Locked(p.ops, p.detail)
  BY <1>5 DEF ViewKeeps, Locked
<1>10. WritesStored(server, p.writes, p.written)
  BY <1>5, <1>x DEF WritesStored
<1>11. LoadSince(p.load, p.writes, p.written) /\ MoreSince(p.more, p.writes, p.written) /\ BegunSound(p.load, p.more, p.begun)
  BY <1>5 DEF LoadSince, MoreSince, BegunSound
<1>12. DraftsSound(server, p.drafts, p.sends)
  <2>1. \A f \in Feedback : server[f].replies = {}
    BY DEF Init
  <2>2. DraftSound(d, {}, p.sends)
    BY <1>d DEF DraftSound
  <2>3. QED BY <1>5, <2>1, <2>2 DEF DraftsSound
<1>13. Sound(server, p)
  BY <1>7, <1>8, <1>9, <1>10, <1>11, <1>12 DEF Sound, Steady
<1>14. Fresh(server, budget.pageSize, p)
  BY <1>5 DEF Fresh
<1>15. QED BY <1>1, <1>2, <1>7, <1>13, <1>14 DEF IInv, TypeInv

LEMMA StepHolds ==
  ASSUME IInv, [Next]_vars
  PROVE  IInv'
<1>1. CASE UNCHANGED vars
  <2>1. server' = server /\ p' = p /\ budget' = budget
    BY <1>1 DEF vars
  <2>2. QED BY <2>1, PageSize, PanelStep DEF Paid
<1>2. CASE LoadAnswer
  BY <1>2, KeptByReadPage, KeptByNextPage, KeptByCommitLoad, KeptByDropLoad DEF LoadAnswer
<1>3. CASE WriteAnswer
  BY <1>3, KeptByHostAction, KeptByApplyWrite, KeptByAnswerWrite, KeptByRefuseWrite DEF WriteAnswer
<1>4. CASE FailLoad
  BY <1>4, KeptByFailLoad
<1>5. CASE \E k \in DOMAIN p.ops : HostRefresh(k) \/ \E f \in DOMAIN p.ops[k].calls : FailWrite(k, f)
  BY <1>5, KeptByHostAction, KeptByFailWrite
<1>6. CASE LoadMoreFeedbacks \/ ReadMore \/ AppendMore \/ FailMore
  BY <1>6, KeptByLoadMoreFeedbacks, KeptByReadMore, KeptByAppendMore, KeptByFailMore
<1>7. CASE Open \/ Close \/ Refresh \/ Back \/ PressEscape
  BY <1>7, KeptByOpening
<1>8. CASE SelectAll \/ ClickDeselect \/ \E f \in Feedback : Toggle(f)
  BY <1>8, KeptBySelection
<1>9. CASE AskDeleteAll \/ AnswerDialog
  BY <1>9, KeptByDialog
<1>10. CASE SearchNow
  BY <1>10, KeptBySearchNow
<1>11. CASE \E q \in Query : SelectQuery(q) \/ Search(q)
  BY <1>11, KeptByQuery
<1>12. CASE \E to \in {"open", "closed", "gone", "run"} : FromDetail(to) \/ FromBulk(to) \/ \E f \in Feedback : FromCard(f, to)
  BY <1>12, KeptByFromDetail, KeptByFromBulk, KeptByFromCard
<1>13. CASE \E f \in Feedback : ClickPin(f) \/ ClickCard(f)
  BY <1>13, KeptByClicks
<1>14. CASE \E f \in Feedback : Submit(f) \/ StoreReply(f) \/ ReplyLands(f) \/ ReplyFails(f)
  BY <1>14, KeptBySubmit, KeptByStoreReply, KeptByReplyLands, KeptByReplyFails
<1>15. CASE \E f \in Feedback, t \in Text : Type(f, t)
  BY <1>15, KeptByType
<1>16. QED
  BY <1>1, <1>2, <1>3, <1>4, <1>5, <1>6, <1>7, <1>8, <1>9, <1>10, <1>11, <1>12, <1>13, <1>14, <1>15 DEF Next

LEMMA AlwaysIInv == Spec => []IInv
BY InitHolds, StepHolds, PTL DEF Spec

\* Every variable keeps its type: the panel its fields, the list its cards, the writes and the drafts their states, and
\* the page size stays positive (panel.ts:109-169).
THEOREM TypeCorrect == Spec => []TypeInv
<1>1. IInv => TypeInv
  BY DEF IInv
<1>2. QED BY <1>1, AlwaysIInv, PTL

\* The buttons of the detail view are locked while, and only while, one of its operations runs on the feedback it shows,
\* whatever view left that feedback, came back to it or was drawn again by a reload (panel-detail.ts:1036-1230).
THEOREM LocksAsRunning == Spec => []LockedWhileRunning
<1>1. IInv => LockedWhileRunning
  BY PageSize, RunningDetail DEF Sound, Locked, LockedWhileRunning
<1>2. QED BY <1>1, AlwaysIInv, PTL

\* A reply the visitor was told is posted stays in the list and on the thread on screen, whatever loads and further pages
\* asked for before it come in after it (panel.ts keepThreads, postComment).
THEOREM RepliesKept == Spec => []RepliesStay
<1>1. IInv => RepliesStay
  BY PageSize DEF Steady, ListKeeps, ViewKeeps, RepliesStay, OnScreen
<1>2. QED BY <1>1, AlwaysIInv, PTL

\* With everything answered no write waits for a reload.
LEMMA QuietFacts ==
  ASSUME Quiet
  PROVE  ~Dirty(p.ops) /\ \A f \in Feedback : Landing(p.drafts, f) = {}
<1>1. ~OpDirty(Done)
  BY DoneIsOp DEF OpDirty
<1>2. \A f \in Feedback : p.drafts[f].sending = "no"
  BY DEF Quiet
<1>3. QED BY <1>1, <1>2 DEF Quiet, Dirty, Landing

\* With everything answered, the list is the beginning of what the server lists under the query on screen, in order, each
\* row with the server's status and replies, however loads, further pages, writes and replies overlapped: unless the last
\* reload failed, the answer of a write was lost after it, or a further page that does not follow was appended
\* (panel.ts loadFeedbacks, loadMoreFeedbacks).
THEOREM ListsAgree == Spec => []ListAgrees
<1>1. ASSUME IInv, Quiet, ~p.stale, p.begun > 0
      PROVE  LET all == Listing(p.query)
             IN  /\ p.total = Len(all)
                 /\ Len(p.list) = IF p.page * budget.pageSize < Len(all) THEN p.page * budget.pageSize ELSE Len(all)
                 /\ \A i \in DOMAIN p.list : p.list[i] = Row(all[i])
  <2>a. PICK all : all = OnServer(server, p.query)
    OBVIOUS
  <2>n. PICK n : n = p.page * budget.pageSize
    OBVIOUS
  <2>1. all = Listing(p.query) /\ all \in Seq(Feedback) /\ Len(all) \in Nat
    BY <2>a, OnServerIsSeq DEF OnServer, Listing
  <2>2. n \in Nat /\ n > 0
    <3>1. p.page \in Nat /\ p.page > 0 /\ budget.pageSize \in Nat /\ budget.pageSize > 0
      BY <1>1, PageSize DEF IsP
    <3>2. QED BY <2>n, <3>1
  <2>3. ListFresh(server, budget.pageSize, p)
    BY <1>1, PageSize DEF Fresh, Quiet
  <2>4. /\ p.total = Len(all) /\ Cut(server, p.query, 0, n, p.list)
        /\ \A i \in DOMAIN p.list : Whole(server, p, p.list[i], {})
    BY <1>1, <2>a, <2>n, <2>3, QuietFacts DEF ListFresh, Quiet
  <2>5. /\ Len(p.list) = (IF 0 < Lesser(n, Len(all)) THEN Lesser(n, Len(all)) - 0 ELSE 0)
        /\ \A i \in DOMAIN p.list : p.list[i].id = all[0 + i] /\ p.list[i].status = server[p.list[i].id].status
    BY <2>a, <2>4 DEF Cut
  <2>6. Len(p.list) = IF n < Len(all) THEN n ELSE Len(all)
    BY <2>1, <2>2, <2>5 DEF Lesser
  <2>7. ASSUME NEW i \in DOMAIN p.list
        PROVE  p.list[i] = Row(all[i])
    <3>c. PICK c : c = p.list[i]
      OBVIOUS
    <3>1. p.list \in Seq(Card) /\ i \in Nat /\ c \in Card /\ c.id \in Feedback
      BY <1>1, <3>c, PageSize, CardIs DEF IsP
    <3>2. c.id = all[i] /\ c.status = server[c.id].status
      BY <2>5, <3>c, <3>1
    <3>3. c.replies = server[c.id].replies
      BY <1>1, <2>4, <3>c, <3>1, QuietFacts DEF Whole
    <3>4. c = [id |-> c.id, status |-> c.status, replies |-> c.replies]
      BY <3>1 DEF Card
    <3>5. QED BY <3>c, <3>2, <3>3, <3>4 DEF Row
  <2>8. QED BY <2>n, <2>1, <2>4, <2>6, <2>7
<1>2. IInv => ListAgrees
  BY <1>1 DEF ListAgrees
<1>3. QED BY <1>2, AlwaysIInv, PTL



(***************************************************************************)
(* The texts of the composers.                                             *)
(***************************************************************************)
\* The composers of s hold the texts.
Holds(s, texts) ==
  /\ DOMAIN s = Fields /\ DOMAIN s.drafts = Feedback
  /\ \A f \in Feedback : "text" \in DOMAIN s.drafts[f] /\ s.drafts[f].text = texts[f]

LEMMA TextsOfView ==
  ASSUME NEW s, NEW texts, Holds(s, texts), NEW f
  PROVE  /\ Holds(Show(s, f), texts) /\ Holds(Hide(s), texts) /\ Holds(HideDetailOf(s, f), texts)
         /\ Holds(FlashCard(s, f), texts) /\ Holds(ScrollToFeedback(s, f), texts)
         /\ Holds(RefreshDetail(s, f), texts) /\ Holds(Unlock(s, f), texts)
<1>1. Holds(Show(s, f), texts)
  BY DEF Holds, Show, Fields
<1>2. Holds(Hide(s), texts)
  BY DEF Holds, Hide, Fields
<1>3. Holds(HideDetailOf(s, f), texts)
  BY <1>2 DEF HideDetailOf
<1>4. Holds(FlashCard(s, f), texts)
  BY <1>1 DEF FlashCard
<1>5. Holds(ScrollToFeedback(s, f), texts)
  <2>1. Holds([s EXCEPT !.scroll = f], texts)
    BY DEF Holds, Fields
  <2>2. QED BY <1>4, <2>1 DEF ScrollToFeedback
<1>6. Holds(RefreshDetail(s, f), texts)
  BY <1>1, <1>2 DEF RefreshDetail
<1>7. Holds(Unlock(s, f), texts)
  <2>1. Holds([s EXCEPT !.detail.locked = FALSE], texts)
    BY DEF Holds, Fields
  <2>2. QED BY <2>1 DEF Unlock
<1>8. QED BY <1>1, <1>2, <1>3, <1>4, <1>5, <1>6, <1>7

LEMMA TextsOfLoads ==
  ASSUME NEW s, NEW texts, Holds(s, texts)
  PROVE  /\ \A pages : Holds(LoadFeedbacks(s, pages), texts)
         /\ Holds(Opened(s), texts) /\ Holds(Closed(s), texts)
         /\ \A k, pages : Holds(Reload(s, k, pages), texts)
<1>1. ASSUME NEW r, Holds(r, texts), NEW pages
      PROVE  Holds(LoadFeedbacks(r, pages), texts)
  BY <1>1 DEF Holds, LoadFeedbacks, Fields
<1>2. Holds(Opened(s), texts)
  <2>1. Holds([s EXCEPT !.open = TRUE], texts)
    BY DEF Holds, Fields
  <2>2. QED BY <1>1, <2>1 DEF Opened
<1>3. Holds(Closed(s), texts)
  <2>1. Holds(Hide(s), texts)
    BY TextsOfView
  <2>2. QED BY <2>1 DEF Closed, Holds, Fields
<1>4. ASSUME NEW k, NEW pages
      PROVE  Holds(Reload(s, k, pages), texts)
  <2>1. Holds(LoadFeedbacks(s, pages), texts)
    BY <1>1
  <2>2. QED BY <2>1 DEF Reload, Holds, Fields
<1>5. QED BY <1>1, <1>2, <1>3, <1>4

\* A write under way.
UnderWay(op) == op.via \in {"list", "detail", "bulk", "all"} /\ (op.to = "run" => op.via = "detail")

LEMMA TextsOfResume ==
  ASSUME NEW s, NEW texts, Holds(s, texts), NEW k
  PROVE  /\ Holds(Over(s, k), texts)
         /\ UnderWay(s.ops[k]) => Holds(Resume(s, k), texts)
<1>f. PICK f : f = Subject(s.ops[k])
  OBVIOUS
<1>o. PICK o : o = Over(s, k)
  OBVIOUS
<1>l. PICK l : l = [s EXCEPT !.ops[k].load = 0]
  OBVIOUS
<1>1. Holds(o, texts)
  BY <1>o DEF Holds, Over, Fields
<1>2. Holds(l, texts)
  BY <1>l DEF Holds, Fields
<1>3. Holds(RefreshDetail(l, f), texts) /\ Holds(HideDetailOf(o, f), texts)
  BY <1>1, <1>2, TextsOfView
<1>4. ASSUME NEW failed
      PROVE  Holds(SettleBulk(o, failed), texts)
  <2>1. Holds(DeselectAll(o), texts)
    BY <1>1 DEF Holds, DeselectAll, Fields
  <2>2. Holds(SelectMore(o, failed \cap Ids(o.list)), texts)
    BY <1>1 DEF Holds, SelectMore, Fields
  <2>3. ASSUME NEW u, Holds(u, texts)
        PROVE  Holds([u EXCEPT !.processing = FALSE], texts)
    BY <2>3 DEF Holds, Fields
  <2>4. QED BY <2>1, <2>2, <2>3 DEF SettleBulk
<1>5. ASSUME UnderWay(s.ops[k])
      PROVE  Holds(Resume(s, k), texts)
  <2>1. CASE s.ops[k].to = "run"
    <3>1. Resume(s, k) = RefreshDetail(l, f)
      BY <1>f, <1>l, <1>5, <2>1 DEF Resume, UnderWay
    <3>2. QED BY <1>3, <3>1
  <2>2. CASE s.ops[k].to # "run" /\ s.ops[k].via = "detail"
    <3>1. Resume(s, k) = HideDetailOf(o, f)
      BY <1>f, <1>o, <2>2 DEF Resume
    <3>2. QED BY <1>3, <3>1
  <2>3. CASE s.ops[k].to # "run" /\ s.ops[k].via = "bulk"
    <3>1. Resume(s, k) = SettleBulk(o, Failed(s.ops[k]))
      BY <1>o, <2>3 DEF Resume
    <3>2. QED BY <1>4, <3>1
  <2>4. CASE s.ops[k].to # "run" /\ s.ops[k].via \in {"list", "all"}
    <3>1. Resume(s, k) = o
      BY <1>o, <2>4 DEF Resume
    <3>2. QED BY <1>1, <3>1
  <2>5. QED BY <1>5, <2>1, <2>2, <2>3, <2>4 DEF UnderWay
<1>6. QED BY <1>o, <1>1, <1>5

LEMMA TextsOfSettled ==
  ASSUME NEW s, NEW texts, Holds(s, texts), NEW k, UnderWay(s.ops[k])
  PROVE  Holds(Settled(s, k), texts)
<1> DEFINE op == s.ops[k]
<1>1. CASE op.via = "all" \/ Failed(op) # DOMAIN op.calls
  <2>1. Settled(s, k) = Reload(s, k, 1)
    BY <1>1 DEF Settled
  <2>2. QED BY <2>1, TextsOfLoads
<1>2. CASE op.via # "all" /\ Failed(op) = DOMAIN op.calls
  <2>1. CASE op.via = "bulk"
    <3>1. Settled(s, k) = Resume(s, k)
      BY <1>2, <2>1 DEF Settled
    <3>2. QED BY <3>1, TextsOfResume
  <2>2. CASE op.via = "list"
    <3>1. Settled(s, k) = Over(s, k)
      BY <1>2, <2>2 DEF Settled
    <3>2. QED BY <3>1, TextsOfResume
  <2>3. CASE op.via = "detail"
    <3>1. Settled(s, k) = Unlock(Over(s, k), Subject(op))
      BY <1>2, <2>3 DEF Settled
    <3>2. Holds(Over(s, k), texts)
      BY TextsOfResume
    <3>3. QED BY <3>1, <3>2, TextsOfView
  <2>4. QED BY <1>2, <2>1, <2>2, <2>3 DEF UnderWay
<1>3. QED BY <1>1, <1>2

\* A write that waits for a load, or for the answers of its calls, is under way.
LEMMA WaitingSettles ==
  ASSUME IInv, NEW k \in DOMAIN p.ops, p.ops[k].load > 0 \/ p.ops[k].to = "run" \/ DOMAIN p.ops[k].calls # {}
  PROVE  UnderWay(p.ops[k])
<1>1. p.ops[k] \in Op /\ OpSound(p.ops[k], p.begun)
  BY PageSize DEF IsP, Steady, OpsSound
<1>2. p.ops[k].via \in {"list", "detail", "bulk", "all", "none"}
  BY <1>1, OpTypes
<1>3. p.ops[k].via # "none"
  <2>1. ~(Done.load > 0) /\ Done.to # "run" /\ DOMAIN Done.calls = {}
    BY DoneIsOp DEF Done
  <2>2. QED BY <1>1, <2>1 DEF OpSound
<1>4. p.ops[k].to = "run" => p.ops[k].via = "detail"
  BY <1>1 DEF OpSound
<1>5. QED BY <1>2, <1>3, <1>4 DEF UnderWay

LEMMA TextsOfEnd ==
  ASSUME IInv, p.load # None, NEW s, NEW texts, Holds(s, texts), s.ops = p.ops, s.begun = p.begun
  PROVE  Holds(End(s), texts)
<1>r. PICK r : r = [s EXCEPT !.load = None, !.scroll = None]
  OBVIOUS
<1>1. Holds(r, texts) /\ r.ops = p.ops
  BY <1>r DEF Holds, Fields
<1>2. CASE WaitingFor(s, s.begun) = {}
  BY <1>r, <1>1, <1>2 DEF End
<1>3. CASE WaitingFor(s, s.begun) # {}
  <2>k. PICK k : k = CHOOSE j \in WaitingFor(s, s.begun) : TRUE
    OBVIOUS
  <2>1. k \in DOMAIN p.ops /\ p.ops[k].load = p.begun
    BY <1>3, <2>k DEF WaitingFor
  <2>2. p.begun > 0
    BY PageSize DEF Steady, BegunSound
  <2>3. UnderWay(r.ops[k])
    BY <1>1, <2>1, <2>2, WaitingSettles
  <2>4. End(s) = Resume(r, k)
    BY <1>r, <1>3, <2>k DEF End
  <2>5. QED BY <1>1, <2>3, <2>4, TextsOfResume
<1>4. QED BY <1>2, <1>3

\* Only typing and a reply that lands touch a text.
TextsNow == [f \in Feedback |-> p.drafts[f].text]

LEMMA TextsHeld ==
  ASSUME IInv
  PROVE  Holds(p, TextsNow) /\ p.drafts \in [Feedback -> Draft] /\ IsP(p)
BY PageSize DEF Holds, TextsNow, IsP, Draft

LEMMA TextsOfPlainSteps ==
  ASSUME IInv, \/ ReadPage \/ NextPage \/ LoadMoreFeedbacks \/ ReadMore \/ AppendMore \/ FailMore \/ AskDeleteAll
               \/ SelectAll \/ ClickDeselect \/ \E f \in Feedback : Toggle(f)
               \/ \E q \in Query : Search(q)
  PROVE  Holds(p', TextsNow)
<1>1. Holds(p, TextsNow)
  BY TextsHeld
<1>2. CASE ReadPage
  BY <1>1, <1>2 DEF ReadPage, Holds, Fields
<1>3. CASE NextPage
  BY <1>1, <1>3 DEF NextPage, Holds, Fields
<1>4. CASE LoadMoreFeedbacks
  BY <1>1, <1>4 DEF LoadMoreFeedbacks, Holds, Fields
<1>5. CASE ReadMore
  BY <1>1, <1>5 DEF ReadMore, Holds, Fields
<1>6. CASE AppendMore
  BY <1>1, <1>6 DEF AppendMore, Holds, Fields
<1>7. CASE FailMore
  BY <1>1, <1>7 DEF FailMore, Holds, Fields
<1>8. CASE AskDeleteAll
  BY <1>1, <1>8 DEF AskDeleteAll, Holds, Fields
<1>9. CASE SelectAll
  BY <1>1, <1>9 DEF SelectAll, SelectMore, DeselectAll, Holds, Fields
<1>10. CASE ClickDeselect
  BY <1>1, <1>10 DEF ClickDeselect, DeselectAll, Holds, Fields
<1>11. ASSUME NEW f \in Feedback, Toggle(f)
       PROVE  Holds(p', TextsNow)
  BY <1>1, <1>11 DEF Toggle, Holds, Fields
<1>12. ASSUME NEW q \in Query, Search(q)
       PROVE  Holds(p', TextsNow)
  BY <1>1, <1>12 DEF Search, Holds, Fields
<1>13. QED BY <1>2, <1>3, <1>4, <1>5, <1>6, <1>7, <1>8, <1>9, <1>10, <1>11, <1>12



LEMMA TextsOfLoadSteps ==
  ASSUME IInv, CommitLoad \/ FailLoad \/ \E k \in DOMAIN p.ops : DropLoad(k) \/ HostRefresh(k) \/ EndHostAction(k)
  PROVE  Holds(p', TextsNow)
<1>1. Holds(p, TextsNow) /\ IsP(p)
  BY TextsHeld
<1>2. CASE CommitLoad
  <2>r. PICK r : r = Rendered(p, p.load)
    OBVIOUS
  <2>1. Holds(r, TextsNow) /\ r.ops = p.ops /\ r.begun = p.begun
    BY <1>1, <2>r DEF Rendered, Holds, Fields
  <2>s. PICK s : s = ServeScroll(r)
    OBVIOUS
  <2>2. Holds(s, TextsNow)
    BY <2>1, <2>s, TextsOfView DEF ServeScroll
  <2>3. s.ops = p.ops /\ s.begun = p.begun
    BY <2>1, <2>s DEF ServeScroll, FlashCard, Show, Holds, Fields
  <2>4. p' = End(s) /\ p.load # None
    BY <1>2, <2>r, <2>s DEF CommitLoad
  <2>5. QED BY <2>2, <2>3, <2>4, TextsOfEnd
<1>3. CASE FailLoad
  <2>r. PICK r : r = [p EXCEPT !.stale = TRUE]
    OBVIOUS
  <2>1. Holds(r, TextsNow) /\ r.ops = p.ops /\ r.begun = p.begun
    BY <1>1, <2>r DEF Holds, Fields
  <2>2. p' = End(r) /\ p.load # None
    BY <1>3, <2>r DEF FailLoad
  <2>3. QED BY <2>1, <2>2, TextsOfEnd
<1>4. ASSUME NEW k \in DOMAIN p.ops, DropLoad(k)
      PROVE  Holds(p', TextsNow)
  <2>1. p.ops[k].load > 0 /\ p' = Resume(p, k)
    BY <1>1, <1>4 DEF DropLoad, IsP
  <2>2. UnderWay(p.ops[k])
    BY <2>1, WaitingSettles
  <2>3. QED BY <1>1, <2>1, <2>2, TextsOfResume
<1>5. ASSUME NEW k \in DOMAIN p.ops, HostRefresh(k)
      PROVE  Holds(p', TextsNow)
  BY <1>1, <1>5, TextsOfLoads DEF HostRefresh
<1>6. ASSUME NEW k \in DOMAIN p.ops, EndHostAction(k)
      PROVE  Holds(p', TextsNow)
  <2>1. Holds(Over(p, k), TextsNow)
    BY <1>1, TextsOfResume
  <2>2. p' = Unlock(Over(p, k), Subject(p.ops[k]))
    BY <1>6 DEF EndHostAction
  <2>3. QED BY <2>1, <2>2, TextsOfView
<1>7. QED BY <1>2, <1>3, <1>4, <1>5, <1>6

LEMMA TextsOfVisits ==
  ASSUME IInv, \/ Open \/ Close \/ Refresh \/ Back \/ PressEscape \/ SearchNow
               \/ \E q \in Query : SelectQuery(q)
               \/ \E f \in Feedback : ClickPin(f) \/ ClickCard(f)
  PROVE  Holds(p', TextsNow)
<1>1. Holds(p, TextsNow)
  BY TextsHeld
<1>2. CASE Open
  BY <1>1, <1>2, TextsOfLoads DEF Open
<1>3. CASE Close
  BY <1>1, <1>3, TextsOfLoads DEF Close
<1>4. CASE Refresh
  BY <1>1, <1>4, TextsOfLoads DEF Refresh
<1>5. CASE Back
  BY <1>1, <1>5, TextsOfView DEF Back
<1>6. CASE PressEscape
  <2>1. Holds([p EXCEPT !.dialog = FALSE], TextsNow)
    BY <1>1 DEF Holds, Fields
  <2>2. Holds(Hide(p), TextsNow) /\ Holds(Closed(p), TextsNow)
    BY <1>1, TextsOfView, TextsOfLoads
  <2>3. QED BY <1>6, <2>1, <2>2 DEF PressEscape
<1>7. CASE SearchNow
  <2>1. Holds([p EXCEPT !.timer = FALSE], TextsNow)
    BY <1>1 DEF Holds, Fields
  <2>2. QED BY <1>7, <2>1, TextsOfLoads DEF SearchNow
<1>8. ASSUME NEW q \in Query, SelectQuery(q)
      PROVE  Holds(p', TextsNow)
  <2>1. Holds([p EXCEPT !.query = q], TextsNow)
    BY <1>1 DEF Holds, Fields
  <2>2. QED BY <1>8, <2>1, TextsOfLoads DEF SelectQuery
<1>9. ASSUME NEW f \in Feedback, ClickPin(f)
      PROVE  Holds(p', TextsNow)
  <2>1. Holds(Opened(p), TextsNow)
    BY <1>1, TextsOfLoads
  <2>2. QED BY <1>9, <2>1, TextsOfView DEF ClickPin
<1>10. ASSUME NEW f \in Feedback, ClickCard(f)
       PROVE  Holds(p', TextsNow)
  BY <1>1, <1>10, TextsOfView DEF ClickCard
<1>11. QED BY <1>2, <1>3, <1>4, <1>5, <1>6, <1>7, <1>8, <1>9, <1>10

LEMMA TextsOfBegin ==
  ASSUME NEW s, NEW texts, Holds(s, texts), NEW via, NEW to, NEW S
  PROVE  Holds(Begin(s, via, to, S), texts)
BY DEF Begin, Holds, Fields

LEMMA TextsOfNewWrites ==
  ASSUME IInv, \/ AnswerDialog
               \/ \E to \in {"open", "closed", "gone", "run"} :
                    FromDetail(to) \/ FromBulk(to) \/ \E f \in Feedback : FromCard(f, to)
  PROVE  Holds(p', TextsNow)
<1>1. Holds(p, TextsNow)
  BY TextsHeld
<1>2. CASE AnswerDialog
  <2>r. PICK r : r = [p EXCEPT !.dialog = FALSE]
    OBVIOUS
  <2>1. Holds(r, TextsNow)
    BY <1>1, <2>r DEF Holds, Fields
  <2>2. p' = r \/ p' = Begin(r, "all", "gone", Feedback)
    BY <1>2, <2>r DEF AnswerDialog
  <2>3. QED BY <2>1, <2>2, TextsOfBegin
<1>3. ASSUME NEW to \in {"open", "closed", "gone", "run"}, FromDetail(to)
      PROVE  Holds(p', TextsNow)
  <2>b. PICK b : b = Begin(p, "detail", to, {p.detail.id})
    OBVIOUS
  <2>1. Holds(b, TextsNow)
    BY <1>1, <2>b, TextsOfBegin
  <2>2. p' = [b EXCEPT !.detail.locked = TRUE]
    BY <1>3, <2>b DEF FromDetail
  <2>3. QED BY <2>1, <2>2 DEF Holds, Fields
<1>4. ASSUME NEW to \in {"open", "closed", "gone", "run"}, FromBulk(to)
      PROVE  Holds(p', TextsNow)
  <2>1. \E S : p' = [p EXCEPT !.selected = {}] \/ p' = [Begin(p, "bulk", to, S) EXCEPT !.processing = TRUE]
    BY <1>4 DEF FromBulk
  <2>2. Holds([p EXCEPT !.selected = {}], TextsNow)
    BY <1>1 DEF Holds, Fields
  <2>3. ASSUME NEW S
        PROVE  Holds([Begin(p, "bulk", to, S) EXCEPT !.processing = TRUE], TextsNow)
    <3>b. PICK b : b = Begin(p, "bulk", to, S)
      OBVIOUS
    <3>1. Holds(b, TextsNow)
      BY <1>1, <3>b, TextsOfBegin
    <3>2. Holds([b EXCEPT !.processing = TRUE], TextsNow)
      BY <3>1 DEF Holds, Fields
    <3>3. QED BY <3>b, <3>2
  <2>4. QED BY <2>1, <2>2, <2>3
<1>5. ASSUME NEW to \in {"open", "closed", "gone", "run"}, NEW f \in Feedback, FromCard(f, to)
      PROVE  Holds(p', TextsNow)
  BY <1>1, <1>5, TextsOfBegin DEF FromCard
<1>6. QED BY <1>2, <1>3, <1>4, <1>5

LEMMA TextsOfCalls ==
  ASSUME IInv, NEW k \in DOMAIN p.ops, NEW f \in DOMAIN p.ops[k].calls,
         ApplyWrite(k, f) \/ AnswerWrite(k, f) \/ RefuseWrite(k, f) \/ FailWrite(k, f)
  PROVE  Holds(p', TextsNow)
<1>1. Holds(p, TextsNow) /\ IsP(p)
  BY TextsHeld
<1>2. ASSUME NEW calls
      PROVE  Holds([p EXCEPT !.ops[k].calls = calls], TextsNow)
  BY <1>1, <1>2 DEF Holds, Fields
<1>3. CASE ApplyWrite(k, f)
  BY <1>1, <1>3 DEF ApplyWrite, Holds, Fields
<1>4. ASSUME NEW outcome, p.ops[k].to # "run"
      PROVE  Holds(Answered(k, f, outcome), TextsNow)
  <2> DEFINE op == p.ops[k]
             calls == [g \in DOMAIN op.calls |-> IF g \in Together(op, f) THEN outcome ELSE op.calls[g]]
  <2>s. PICK s : s = [p EXCEPT !.ops[k].calls = calls]
    OBVIOUS
  <2>1. Answered(k, f, outcome) = IF \E g \in DOMAIN calls : calls[g] \notin {"ok", "failed"} THEN s ELSE Settled(s, k)
    BY <2>s DEF Answered
  <2>2. Holds(s, TextsNow)
    BY <1>2, <2>s
  <2>3. UnderWay(s.ops[k])
    <3>1. UnderWay(op)
      BY WaitingSettles
    <3>2. op \in Op /\ p.ops \in Seq(Op)
      BY <1>1 DEF IsP
    <3>c. PICK c : c = calls
      OBVIOUS
    <3> HIDE DEF calls
    <3>3. s.ops[k] = [op EXCEPT !.calls = c]
      BY <1>1, <2>s, <3>c, <3>2 DEF IsP, Fields
    <3>4. s.ops[k].via = op.via /\ s.ops[k].to = op.to
      BY <3>2, <3>3 DEF Op
    <3>5. QED BY <3>1, <3>4 DEF UnderWay
  <2>4. s.ops[k].to # "run"
    <3>2. op \in Op /\ p.ops \in Seq(Op)
      BY <1>1 DEF IsP
    <3>c. PICK c : c = calls
      OBVIOUS
    <3> HIDE DEF calls
    <3>3. s.ops[k] = [op EXCEPT !.calls = c]
      BY <1>1, <2>s, <3>c, <3>2 DEF IsP, Fields
    <3>4. QED BY <1>4, <3>2, <3>3 DEF Op
  <2> HIDE DEF calls
  <2>5. Holds(Settled(s, k), TextsNow)
    BY <2>2, <2>3, TextsOfSettled
  <2>6. QED BY <2>1, <2>2, <2>5
<1>5. CASE AnswerWrite(k, f)
  BY <1>4, <1>5 DEF AnswerWrite, Called
<1>6. CASE RefuseWrite(k, f)
  BY <1>4, <1>6 DEF RefuseWrite, Called
<1>7. CASE FailWrite(k, f)
  <2>r. PICK s : s = Answered(k, f, "failed")
    OBVIOUS
  <2>1. Holds(s, TextsNow)
    BY <1>4, <1>7, <2>r DEF FailWrite, Called
  <2>2. Holds([s EXCEPT !.stale = TRUE], TextsNow)
    BY <2>1 DEF Holds, Fields
  <2>3. p' = s \/ p' = [s EXCEPT !.stale = TRUE]
    BY <1>7, <2>r DEF FailWrite
  <2>4. QED BY <2>1, <2>2, <2>3
<1>8. QED BY <1>3, <1>5, <1>6, <1>7

\* Sending a reply, and its failure, keep the text.
LEMMA TextsOfReplies ==
  ASSUME IInv, NEW f \in Feedback, Submit(f) \/ StoreReply(f) \/ ReplyFails(f)
  PROVE  Holds(p', TextsNow)
<1>1. Holds(p, TextsNow)
  BY TextsHeld
<1>2. CASE Submit(f)
  BY <1>1, <1>2 DEF Submit, Holds, Fields
<1>3. CASE StoreReply(f)
  BY <1>1, <1>3 DEF StoreReply, Holds, Fields
<1>4. CASE ReplyFails(f)
  BY <1>1, <1>4 DEF ReplyFails, Holds, Fields
<1>5. QED BY <1>2, <1>3, <1>4

\* A text given up was stored, as the reply sent for it.
Stores == \A f \in Feedback : p.drafts[f].text # None /\ p'.drafts[f].text = None =>
            \E r \in server[f].replies : r.body = p.drafts[f].text

LEMMA KeptTextsStore ==
  ASSUME Holds(p', TextsNow)
  PROVE  Stores
BY DEF Holds, TextsNow, Stores

LEMMA TypingStores ==
  ASSUME IInv, NEW f \in Feedback, NEW text \in Text, Type(f, text)
  PROVE  Stores
<1>1. p' = [p EXCEPT !.drafts[f].text = text] /\ text # None
  BY PanelAssumption DEF Type
<1>2. p.drafts \in [Feedback -> Draft] /\ IsP(p)
  BY TextsHeld
<1>3. /\ p'.drafts[f].text = text /\ \A g \in Feedback : g # f => p'.drafts[g].text = p.drafts[g].text
  BY <1>1, <1>2 DEF IsP, Fields, Draft
<1>4. QED BY <1>1, <1>3 DEF Stores

LEMMA LandingStores ==
  ASSUME IInv, NEW f \in Feedback, ReplyLands(f)
  PROVE  Stores
<1>1. p.drafts \in [Feedback -> Draft] /\ IsP(p)
  BY TextsHeld
<1>2. p.drafts[f].sent \in server[f].replies /\ p.drafts[f].sent.body = p.drafts[f].text
  BY DraftIs DEF ReplyLands, DraftSound
<1>3. \A g \in Feedback : g # f => p'.drafts[g] = p.drafts[g]
  BY <1>1 DEF ReplyLands, IsP, Fields
<1>4. QED BY <1>2, <1>3 DEF Stores

LEMMA StepStores ==
  ASSUME IInv, Next
  PROVE  Stores
<1>1. CASE LoadAnswer \/ FailLoad
  BY <1>1, TextsOfPlainSteps, TextsOfLoadSteps, KeptTextsStore DEF LoadAnswer
<1>2. CASE WriteAnswer
  BY <1>2, TextsOfLoadSteps, TextsOfCalls, KeptTextsStore DEF WriteAnswer
<1>3. CASE \E k \in DOMAIN p.ops : HostRefresh(k) \/ \E f \in DOMAIN p.ops[k].calls : FailWrite(k, f)
  BY <1>3, TextsOfLoadSteps, TextsOfCalls, KeptTextsStore
<1>4. CASE LoadMoreFeedbacks \/ ReadMore \/ AppendMore \/ FailMore
  BY <1>4, TextsOfPlainSteps, KeptTextsStore
<1>5. CASE Open \/ Close \/ Refresh \/ Back \/ PressEscape \/ SearchNow
  BY <1>5, TextsOfVisits, KeptTextsStore
<1>6. CASE SelectAll \/ ClickDeselect \/ AskDeleteAll \/ \E f \in Feedback : Toggle(f)
  BY <1>6, TextsOfPlainSteps, KeptTextsStore
<1>7. CASE \E q \in Query : SelectQuery(q) \/ Search(q)
  BY <1>7, TextsOfVisits, TextsOfPlainSteps, KeptTextsStore
<1>8. CASE \/ AnswerDialog
           \/ \E to \in {"open", "closed", "gone", "run"} : FromDetail(to) \/ FromBulk(to) \/ \E f \in Feedback : FromCard(f, to)
  BY <1>8, TextsOfNewWrites, KeptTextsStore
<1>9. CASE \E f \in Feedback : ClickPin(f) \/ ClickCard(f)
  BY <1>9, TextsOfVisits, KeptTextsStore
<1>10. CASE \E f \in Feedback : Submit(f) \/ StoreReply(f) \/ ReplyFails(f)
  BY <1>10, TextsOfReplies, KeptTextsStore
<1>11. CASE \E f \in Feedback : ReplyLands(f)
  BY <1>11, LandingStores
<1>12. CASE \E f \in Feedback, t \in Text : Type(f, t)
  BY <1>12, TypingStores
<1>13. QED
  BY <1>1, <1>2, <1>3, <1>4, <1>5, <1>6, <1>7, <1>8, <1>9, <1>10, <1>11, <1>12 DEF Next

\* A composer gives its text up only once that very text is stored as a reply, whatever was resent under the same clientId
\* or edited in between, and however the panel was closed, reloaded or drawn again (panel-thread.ts, panel.ts postComment).
THEOREM TextKept == Spec => TextStored
<1>1. ASSUME IInv, [Next]_vars
      PROVE  [\A f \in Feedback : p.drafts[f].text # None /\ p'.drafts[f].text = None =>
                \E r \in server[f].replies : r.body = p.drafts[f].text]_vars
  <2>1. CASE Next
    BY <1>1, <2>1, StepStores DEF Stores
  <2>2. CASE UNCHANGED vars
    BY <2>2
  <2>3. QED BY <1>1, <2>1, <2>2
<1>2. QED BY <1>1, AlwaysIInv, PTL DEF Spec, TextStored

=============================================================================
