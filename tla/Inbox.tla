------------------------------- MODULE Inbox -------------------------------
(***************************************************************************)
(* The dashboard's triage inbox (packages/dashboard/src/use-inbox.ts): one *)
(* page of a list, tab counts, a drawer and an undo, kept by optimistic    *)
(* edits while lists, counts and edits are answered in any order.          *)
(*                                                                         *)
(* A JavaScript turn is one action.  A request is read or applied by the   *)
(* server in one step and answered in a later one.  The server is the      *)
(* external part: it holds the feedbacks and nobody else changes them.     *)
(* Times are left out: a record shows its status, its thread, and which    *)
(* optimistic edit made the object (its identity).                         *)
(***************************************************************************)
EXTENDS Integers, Sequences, FiniteSets, SequencesExt

CONSTANTS
  Feedback,     \* ids
  Created,      \* Created[f]: its place in time
  Status,
  Owner,        \* Owner[f]: its project
  Base,         \* queries without a status: project, type and search
  ProjectOf,    \* ProjectOf[b]: the project of query b
  ServerMatch,  \* ServerMatch[b]: the feedbacks the server lists under b
  LocalMatch,   \* LocalMatch[b]: those the stores' own predicate matches
  Filters,      \* the status tabs opened
  Start,        \* the query and the tab the inbox opens on
  Budgets,      \* page sizes with bounds, one of which a behaviour keeps: status changes and deletions,
                \* replies stored or deleted, loads of page 1, further pages, requests that fail, the drawer
                \* opened or closed, changes of the query or the tab
  None

Budgeted == {"pageSize", "edits", "replies", "loads", "mores", "failures", "clicks", "switches"}

ASSUME InboxAssumption ==
  /\ IsFiniteSet(Feedback) /\ Created \in [Feedback -> Nat]
  /\ \A f, g \in Feedback : Created[f] = Created[g] => f = g
  /\ DOMAIN ProjectOf = Base
  /\ ServerMatch \in [Base -> SUBSET Feedback]
  /\ \A b \in Base : \A f \in ServerMatch[b] : Owner[f] = ProjectOf[b]
  /\ \A b \in Base : LocalMatch[b] \subseteq ServerMatch[b]
  /\ Filters \subseteq Status \cup {"all"} /\ Start \in Base \X Filters
  /\ \A b \in Budgets : DOMAIN b = Budgeted /\ b \in [Budgeted -> Nat] /\ b.pageSize > 0

CountKeys == Status \cup {"all"}
Mutation == UNION {1..b.edits : b \in Budgets}
Reply == UNION {1..b.replies : b \in Budgets}

VARIABLES
  server,      \* what the server holds: status and thread, None once deleted
  base, filter, \* the query and the tab shown
  items,       \* the rows, as listed
  total,       \* how many rows the list has, None before the first page
  exhausted,
  listed,      \* listedRef: ids the server listed under the current base
  counts,      \* per tab, None while unknown
  opened, cache, \* openedId, and openedCache: the record behind the drawer
  undoable,    \* pendingUndo with the record behind it and the identity of its entry
  epoch,       \* project switches
  mut,         \* the mutations begun, in order
  inFlight,    \* the latest mutation in flight of each feedback
  saved,       \* the saves that landed, in the order of the map
  saveSeq,
  listGen, countsGen, countsStale,
  loads,       \* the loads of page 1, in order
  countsToken, counting, \* the request for counts that still counts
  more,        \* the further page asked for
  replies,     \* the thread requests, in order
  threadWrites, \* for each feedback the number of its last local thread write, and how many there were
  budget,      \* what is left of the bounds
  crossed,     \* history: feedbacks with a mutation that ended while a further page was on its way
  faded        \* history: feedbacks whose thread was lost for want of a copy, or written beside a save to be placed again

list == <<items, total, exhausted, listed>>
query == <<base, filter, epoch>>
drawer == <<opened, cache>>
tallies == <<counts, countsGen, countsStale, countsToken, counting>>
pages == <<loads, more, listGen>>
edits == <<mut, inFlight, saved, saveSeq>>
threads == <<replies, threadWrites, faded>>
vars == <<server, query, list, tallies, drawer, undoable, edits, pages, threads, budget, crossed>>

PageSize == budget.pageSize
SpendAll(S) == (\A k \in S : budget[k] > 0) /\ budget' = [k \in Budgeted |-> IF k \in S THEN budget[k] - 1 ELSE budget[k]]
Spend(k) == SpendAll({k})

(***************************************************************************)
(* Records and lists.                                                      *)
(***************************************************************************)
Live == {f \in Feedback : server[f] # None}
\* A record read from the server.
Read(f) == [id |-> f, status |-> server[f].status, thread |-> server[f].thread, by |-> None]

Newest(S) == SetToSortSeq(S, LAMBDA f, g : Created[f] > Created[g])
Matching(b, tab) == {f \in ServerMatch[b] \cap Live : tab = "all" \/ server[f].status = tab}
Page(b, tab, n) ==
  LET all == Newest(Matching(b, tab))
      rows == SubSeq(all, (n - 1) * PageSize + 1, IF n * PageSize < Len(all) THEN n * PageSize ELSE Len(all))
  IN  [rows |-> [i \in 1..Len(rows) |-> Read(rows[i])], total |-> Len(all)]

RowIds(rows) == {rows[n].id : n \in 1..Len(rows)}
RowOf(rows, f) == rows[CHOOSE n \in 1..Len(rows) : rows[n].id = f]
Without(rows, f) == SelectSeq(rows, LAMBDA r : r.id # f)
InsertByCreatedAtDesc(rows, r) ==
  SelectSeq(rows, LAMBDA q : Created[q.id] >= Created[r.id]) \o <<r>>
    \o SelectSeq(rows, LAMBDA q : Created[q.id] < Created[r.id])

MatchesBase(f, ids) == f \in ids \/ f \in LocalMatch[base]
BelongsInList(r, ids) == filter \in {"all", r.status} /\ MatchesBase(r.id, ids)

\* placeRecord on a list [rows, total]: replace, insert or remove one row.
PlaceRecord(l, f, r, ids) ==
  LET keep == r # None /\ BelongsInList(r, ids)
  IN  IF f \in RowIds(l.rows)
      THEN IF keep THEN [l EXCEPT !.rows = [n \in 1..Len(@) |-> IF @[n].id = f THEN r ELSE @[n]]]
           ELSE [rows |-> Without(l.rows, f),
                 total |-> IF l.total \in {None, 0} THEN l.total ELSE l.total - 1]
      ELSE IF keep THEN [rows |-> InsertByCreatedAtDesc(l.rows, r),
                         total |-> IF l.total = None THEN None ELSE l.total + 1]
      ELSE l

FitsLoadedWindow(l, r) ==
  \/ \E n \in 1..Len(l.rows) : l.rows[n].id = r.id \/ Created[l.rows[n].id] < Created[r.id]
  \/ l.total # None /\ Len(l.rows) >= l.total

Current == [rows |-> items, total |-> total]
Show(l) == items' = l.rows /\ total' = l.total

\* A failing edit inverts its deltas only in counts that are known.
AdjustCounts(c, deltas) ==
  [k \in CountKeys |-> IF c[k] = None THEN None
                       ELSE IF c[k] + deltas[k] < 0 THEN 0 ELSE c[k] + deltas[k]]
NoDeltas == [k \in CountKeys |-> 0]
Inverted(deltas) == [k \in CountKeys |-> 0 - deltas[k]]

(***************************************************************************)
(* Mutations in flight: chained per feedback.                              *)
(***************************************************************************)
Pending == {m \in 1..Len(mut) : mut[m].state = "pending"}
Begun == Len(mut)

NearestPending[m \in Mutation \cup {None}] ==
  IF m = None \/ m \in Pending THEN m ELSE NearestPending[mut[m].prior]
FirstNotFailed[m \in Mutation \cup {None}] ==
  IF m = None THEN None ELSE IF mut[m].state # "failed" THEN m ELSE FirstNotFailed[mut[m].next]
\* The records a mutation in flight holds of its feedback, and those of the
\* mutations it is chained behind.
Chain[m \in Mutation \cup {None}] == IF m = None THEN {} ELSE {m} \cup Chain[mut[m].prior]

\* heldRecord, for a feedback held somewhere.
HeldRecords(f) ==
  (IF f \in RowIds(items) THEN <<RowOf(items, f)>> ELSE <<>>)
    \o (IF cache # None /\ cache.id = f THEN <<cache>> ELSE <<>>)
    \o (IF undoable.record # None /\ undoable.record.id = f THEN <<undoable.record>> ELSE <<>>)
    \o (IF inFlight[f] # None THEN <<mut[inFlight[f]].prev>> ELSE <<>>)


\* The thread held here, empty without a copy.
Comments(f) == IF HeldRecords(f) = <<>> THEN {} ELSE Head(HeldRecords(f)).thread

\* keepThreads: a record read before the last local write of its thread takes
\* the thread held here, and none if there is no copy any more.
KeepThread(r, since) ==
  IF threadWrites.last[r.id] > since THEN [r EXCEPT !.thread = Comments(r.id)] ELSE r

\* The rows that lose their thread so.
Unheld(rows, since) == {f \in RowIds(rows) : threadWrites.last[f] > since /\ HeldRecords(f) = <<>>}

\* Fault: counts requested while an edit is in flight are trusted.
RequestTrusted ==
  [state |-> "sent", base |-> base, begun |-> Begun, racing |-> FALSE,
   left |-> CountKeys, got |-> [k \in CountKeys |-> None]]

RequestCounts == [state |-> "sent", base |-> base, begun |-> Begun, racing |-> Pending # {},
                  left |-> CountKeys, got |-> [k \in CountKeys |-> None]]
NoCounting == [state |-> "none"]
NoMore == [state |-> "none"]

\* recountIfIdle, at the end of a step that leaves `pending` in flight and the
\* request `asked` for counts.
RecountIfIdle(stale, pending, asked) ==
  IF stale /\ pending = {}
  THEN /\ countsStale' = FALSE
       /\ countsToken' = countsToken + 1
       /\ counting' = [RequestCounts EXCEPT !.racing = FALSE]
  ELSE /\ countsStale' = stale
       /\ counting' = asked
       /\ UNCHANGED countsToken

\* commitPendingUndo with a fresh entry.
CommitUndo(pending, record) ==
  undoable' = [pending |-> pending, record |-> record, entry |-> undoable.made + 1, made |-> undoable.made + 1]

-----------------------------------------------------------------------------
Init ==
  /\ server \in [Feedback -> [status : Status, thread : {{}}]]
  /\ base = Start[1] /\ filter = Start[2]
  /\ items = <<>> /\ total = None /\ exhausted = FALSE /\ listed = {}
  /\ counts = [k \in CountKeys |-> None]
  /\ cache = None /\ opened = None
  /\ undoable = [pending |-> None, record |-> None, entry |-> 0, made |-> 0]
  /\ epoch = 0
  /\ mut = <<>> /\ inFlight = [f \in Feedback |-> None]
  /\ saved = <<>> /\ saveSeq = 0
  /\ listGen = 0 /\ countsGen = 0 /\ countsStale = FALSE
  /\ loads = <<>> /\ countsToken = 0 /\ counting = NoCounting
  /\ more = NoMore /\ budget \in Budgets /\ crossed = {}
  /\ replies = <<>> /\ threadWrites = [last |-> [f \in Feedback |-> 0], count |-> 0] /\ faded = {}

(***************************************************************************)
(* load: page 1, then the counts.  The latest load wins.                   *)
(***************************************************************************)
StartLoad(b, tab) ==
  /\ loads' = Append(loads, [state |-> "sent", base |-> b, filter |-> tab, since |-> threadWrites.count,
                             savedSince |-> saveSeq, counts |-> countsToken + 1, page |-> None])
  /\ countsToken' = countsToken + 1
  /\ counting' = NoCounting

Refresh ==
  /\ Spend("loads")
  /\ StartLoad(base, filter)
  /\ UNCHANGED <<server, query, list, counts, countsGen, countsStale, drawer, undoable, edits, more,
                 listGen, threads, crossed>>

SetStatusFilter(tab) ==
  /\ tab # filter
  /\ SpendAll({"loads", "switches"})
  /\ filter' = tab
  /\ StartLoad(base, tab)
  /\ UNCHANGED <<server, base, epoch, list, counts, countsGen, countsStale, drawer, undoable, edits, more,
                 listGen, threads, crossed>>

\* setTypeFilter, setSearch once debounced, and setProject.
SetBase(b) ==
  /\ b # base
  /\ SpendAll({"loads", "switches"})
  /\ base' = b
  /\ listed' = {}
  /\ StartLoad(b, filter)
  /\ IF ProjectOf[b] # ProjectOf[base]
     THEN /\ epoch' = epoch + 1
          /\ CommitUndo(None, None)
          /\ cache' = None /\ opened' = None
     ELSE UNCHANGED <<epoch, undoable, drawer>>
  /\ UNCHANGED <<server, filter, items, total, exhausted, counts, countsGen, countsStale, edits, more,
                 listGen, threads, crossed>>

ReadPage(n) ==
  /\ loads[n].state = "sent"
  /\ \/ /\ loads' = [loads EXCEPT ![n].state = "read", ![n].page = Page(loads[n].base, loads[n].filter, 1)]
        /\ UNCHANGED budget
     \/ Spend("failures") /\ loads' = [loads EXCEPT ![n].state = "refused"]
  /\ UNCHANGED <<server, query, list, tallies, drawer, undoable, edits, more, listGen, threads, crossed>>

\* Fault: a page 1 read before a save is shown as it is.
ReplacedNot(l, ids, since) == l

\* replaceSavedSince: what was saved since the load began is placed again,
\* unless a mutation in flight is to place it or the page already holds it.
Replaced(l, ids, since) ==
  FoldLeft(LAMBDA acc, e :
             IF \/ e.seq <= since
                \/ inFlight[e.id] # None
                \/ e.record # None /\ \/ e.id \in RowIds(acc.rows) /\ RowOf(acc.rows, e.id).status = e.record.status
                                      \/ ~FitsLoadedWindow(acc, e.record)
             THEN acc ELSE PlaceRecord(acc, e.id, e.record, ids),
           l, saved)

CommitPage(n) ==
  /\ loads[n].state = "read"
  /\ loads' = [loads EXCEPT ![n] = [state |-> "done"]]
  /\ IF n # Len(loads)
     THEN UNCHANGED <<list, listGen, saved, counting, faded>>
     ELSE LET page == loads[n].page
              rows == [i \in 1..Len(page.rows) |-> KeepThread(page.rows[i], loads[n].since)]
          IN  /\ exhausted' = FALSE
              /\ listGen' = listGen + 1
              /\ listed' = listed \cup RowIds(rows)
              /\ Show(Replaced([rows |-> rows, total |-> page.total], listed', loads[n].savedSince))
              /\ saved' = SelectSeq(saved, LAMBDA e : e.seq > loads[n].savedSince)
              /\ counting' = IF loads[n].counts = countsToken THEN RequestCounts ELSE counting
              /\ faded' = faded \cup Unheld(page.rows, loads[n].since)
  /\ UNCHANGED <<server, query, counts, countsGen, countsStale, countsToken, drawer, undoable, mut, inFlight,
                 saveSeq, more, replies, threadWrites, budget, crossed>>

FailPage(n) ==
  /\ loads[n].state = "refused"
  /\ loads' = [loads EXCEPT ![n] = [state |-> "failed"]]
  /\ UNCHANGED <<server, query, list, tallies, drawer, undoable, edits, more, listGen, threads, budget, crossed>>

\* One of the limit-1 queries of loadCounts is read; a failed one stays unknown.
ReadCount(k) ==
  /\ counting.state = "sent" /\ k \in counting.left
  /\ \/ /\ counting' = [counting EXCEPT !.got[k] = Cardinality(Matching(counting.base, k)), !.left = @ \ {k}]
        /\ UNCHANGED budget
     \/ Spend("failures") /\ counting' = [counting EXCEPT !.left = @ \ {k}]
  /\ UNCHANGED <<server, query, list, counts, countsGen, countsStale, countsToken, drawer, undoable, edits,
                 pages, threads, crossed>>

\* Counts that overlapped a mutation may predate it: they are taken again.
CommitCounts ==
  /\ counting.state = "sent" /\ counting.left = {}
  /\ counts' = counting.got
  /\ countsGen' = countsGen + 1
  /\ IF counting.racing \/ counting.begun # Begun
     THEN RecountIfIdle(TRUE, Pending, NoCounting)
     ELSE counting' = NoCounting /\ UNCHANGED <<countsStale, countsToken>>
  /\ UNCHANGED <<server, query, list, drawer, undoable, edits, pages, threads, budget, crossed>>

(***************************************************************************)
(* loadMore.                                                               *)
(***************************************************************************)
LoadMore ==
  /\ Spend("mores")
  /\ more = NoMore /\ loads # <<>> /\ loads[Len(loads)].state \in {"done", "failed"}
  /\ total # None /\ Len(items) < total
  /\ more' = [state |-> "sent", token |-> Len(loads), base |-> base, filter |-> filter,
              page |-> Len(items) \div PageSize + 1, begun |-> Begun, racing |-> Pending # {},
              since |-> threadWrites.count, answer |-> None]
  /\ crossed' = crossed \cup {mut[m].id : m \in Pending}
  /\ UNCHANGED <<server, query, list, tallies, drawer, undoable, edits, loads, listGen, threads>>

ReadMore ==
  /\ more.state = "sent"
  /\ \/ /\ more' = [more EXCEPT !.state = "read", !.answer = Page(more.base, more.filter, more.page)]
        /\ UNCHANGED <<budget, crossed>>
     \/ Spend("failures") /\ more' = NoMore /\ UNCHANGED crossed
  /\ UNCHANGED <<server, query, list, tallies, drawer, undoable, edits, loads, listGen, threads>>

AppendPage ==
  /\ more.state = "read"
  /\ more' = NoMore
  /\ IF more.token # Len(loads)
     THEN UNCHANGED <<list, faded>>
     ELSE LET page == more.answer
              racing == more.racing \/ more.begun # Begun
              fresh == SelectSeq(page.rows, LAMBDA r : r.id \notin RowIds(items) /\ inFlight[r.id] = None)
          IN  /\ listed' = listed \cup RowIds(page.rows)
              /\ items' = items \o [n \in 1..Len(fresh) |-> KeepThread(fresh[n], more.since)]
              /\ exhausted' = (exhausted \/ (fresh = <<>> /\ (Len(page.rows) < PageSize \/ ~racing)))
              /\ total' = IF racing THEN total ELSE page.total
              /\ faded' = faded \cup Unheld(fresh, more.since)
  /\ UNCHANGED <<server, query, tallies, drawer, undoable, edits, loads, listGen, replies, threadWrites, budget, crossed>>

(***************************************************************************)
(* The drawer.                                                             *)
(***************************************************************************)
OpenFeedback(f) ==
  /\ f \in RowIds(items) /\ opened # f
  /\ Spend("clicks")
  /\ cache' = RowOf(items, f)
  /\ opened' = f
  /\ UNCHANGED <<server, query, list, tallies, undoable, edits, pages, threads, crossed>>

CloseFeedback ==
  /\ opened # None
  /\ Spend("clicks")
  /\ opened' = None
  /\ UNCHANGED <<server, query, list, tallies, cache, undoable, edits, pages, threads, crossed>>

(***************************************************************************)
(* Optimistic mutations.                                                   *)
(***************************************************************************)
\* beginMutation, chained behind the one in flight on the same feedback.
BeginMutation(f, kind, to, r, deltas) ==
  LET m == Begun + 1
      handle == [project |-> ProjectOf[base], id |-> f, kind |-> kind, to |-> to, state |-> "pending", wire |-> "sent", stored |-> None,
                 prev |-> r, wasListed |-> f \in RowIds(items), wasOpened |-> opened = f,
                 undo |-> <<[deltas |-> deltas, gen |-> countsGen]>>, listGen |-> listGen,
                 prior |-> inFlight[f], next |-> None, epoch |-> epoch, before |-> undoable,
                 entry |-> undoable'.entry, since |-> threadWrites.count]
  IN  /\ Spend("edits")
      /\ mut' = Append([n \in 1..Begun |-> IF n = inFlight[f] THEN [mut[n] EXCEPT !.next = m] ELSE mut[n]],
                       handle)
      /\ inFlight' = [inFlight EXCEPT ![f] = m]
      /\ crossed' = IF more = NoMore THEN crossed ELSE crossed \cup {f}

\* applyStatusChange, up to its request.
ChangeStatus(f, to, r) ==
  LET optimistic == [r EXCEPT !.status = to, !.by = Begun + 1]
      deltas == IF MatchesBase(f, listed) THEN [NoDeltas EXCEPT ![r.status] = -1, ![to] = 1] ELSE NoDeltas
  IN  /\ r # None /\ r.status # to
      /\ Show(PlaceRecord(Current, f, optimistic, listed))
      /\ cache' = IF cache # None /\ cache.id = f THEN optimistic ELSE cache
      /\ counts' = AdjustCounts(counts, deltas)
      /\ BeginMutation(f, "status", to, r, deltas)

RecordToChange(f) ==
  IF f \in RowIds(items) THEN RowOf(items, f)
  ELSE IF undoable.record # None /\ undoable.record.id = f THEN undoable.record
  ELSE IF cache # None /\ cache.id = f THEN cache
  ELSE None

\* From a row or from the drawer.
SetStatus(f, to) ==
  LET r == RecordToChange(f)
  IN  /\ f \in RowIds(items) \/ opened = f
      /\ r # None
      /\ CommitUndo([id |-> f, previous |-> r.status], [r EXCEPT !.status = to, !.by = Begun + 1])
      /\ ChangeStatus(f, to, r)
      /\ UNCHANGED <<server, query, exhausted, listed, countsGen, countsStale, countsToken, counting, opened,
                     saved, saveSeq, pages, threads>>

Undo ==
  /\ undoable.pending # None
  /\ CommitUndo(None, None)
  /\ LET u == undoable.pending
     IN  ChangeStatus(u.id, u.previous, RecordToChange(u.id))
  /\ UNCHANGED <<server, query, exhausted, listed, countsGen, countsStale, countsToken, counting, opened,
                 saved, saveSeq, pages, threads>>

\* Nothing is left to undo.
DropUndo ==
  /\ undoable.pending # None
  /\ LET r == RecordToChange(undoable.pending.id)
     IN  r = None \/ r.status = undoable.pending.previous
  /\ CommitUndo(None, undoable.record)
  /\ UNCHANGED <<server, query, list, tallies, drawer, edits, pages, threads, budget, crossed>>

DeleteFeedback(f) ==
  LET r == IF f \in RowIds(items) THEN RowOf(items, f) ELSE cache
      deltas == IF MatchesBase(f, listed) THEN [NoDeltas EXCEPT ![r.status] = -1, !["all"] = -1] ELSE NoDeltas
  IN  /\ f \in RowIds(items) \/ (opened = f /\ cache # None /\ cache.id = f)
      /\ Show(PlaceRecord(Current, f, None, listed))
      /\ counts' = AdjustCounts(counts, deltas)
      /\ IF undoable.pending # None /\ undoable.pending.id = f THEN CommitUndo(None, None) ELSE UNCHANGED undoable
      /\ BeginMutation(f, "delete", None, r, deltas)
      /\ opened' = IF opened = f THEN None ELSE opened
      /\ cache' = IF cache # None /\ cache.id = f THEN None ELSE cache
      /\ UNCHANGED <<server, query, exhausted, listed, countsGen, countsStale, countsToken, counting, saved,
                     saveSeq, pages, threads>>

\* The server applies the mutations of a feedback in the order they were sent.
Apply(m) ==
  LET f == mut[m].id
      known == server[f] # None /\ Owner[f] = mut[m].project
  IN  /\ mut[m].wire = "sent"
      /\ \A n \in 1..(m - 1) : mut[n].id = f => mut[n].wire # "sent"
      /\ \/ /\ known
            /\ server' = [server EXCEPT ![f] = IF mut[m].kind = "delete" THEN None ELSE [@ EXCEPT !.status = mut[m].to]]
            /\ mut' = [mut EXCEPT ![m].wire = "applied",
                                  ![m].stored = IF mut[m].kind = "delete" THEN None
                                                ELSE [Read(f) EXCEPT !.status = mut[m].to]]
            /\ UNCHANGED budget
         \/ /\ IF known THEN Spend("failures") ELSE UNCHANGED budget
            /\ mut' = [mut EXCEPT ![m].wire = "refused"]
            /\ UNCHANGED server
  /\ UNCHANGED <<query, list, tallies, drawer, undoable, inFlight, saved, saveSeq, pages, threads, crossed>>

\* settleMutation.
Latest(m) == FirstNotFailed[mut[m].next] = None

SettleMutation(m, ok) ==
  LET f == mut[m].id
      later == FirstNotFailed[mut[m].next]
      rebased == ~ok /\ later \in Pending
  IN  /\ mut' = [n \in 1..Begun |->
                   IF n = m THEN [mut[n] EXCEPT !.state = IF ok THEN "ok" ELSE "failed"]
                   ELSE IF rebased /\ n = later
                   THEN [mut[n] EXCEPT !.prev = mut[m].prev, !.wasListed = mut[m].wasListed,
                                       !.undo = mut[m].undo \o @]
                   ELSE mut[n]]
      /\ inFlight' = IF inFlight[f] # m THEN inFlight
                     ELSE [inFlight EXCEPT ![f] = IF ok THEN None ELSE NearestPending[mut[m].prior]]
      /\ RecountIfIdle(countsStale, Pending \ {m}, counting)
      /\ crossed' = IF ok /\ mut[m].kind = "delete" /\ mut[m].listGen # listGen THEN crossed \cup {f} ELSE crossed

\* noteSaved: a key keeps its place in the map.
NoteSaved(f, r) ==
  LET entry == [id |-> f, seq |-> saveSeq + 1, record |-> r]
  IN  /\ saveSeq' = saveSeq + 1
      /\ saved' = IF f \in RowIds(saved) THEN [n \in 1..Len(saved) |-> IF saved[n].id = f THEN entry ELSE saved[n]]
                  ELSE Append(saved, entry)

Succeed(m) ==
  LET f == mut[m].id
      r == IF mut[m].kind = "delete" THEN None ELSE KeepThread(mut[m].stored, mut[m].since)
      mine(held) == Latest(m) /\ r # None /\ held # None /\ held.id = f
  IN  /\ mut[m].state = "pending" /\ mut[m].wire = "applied"
      /\ SettleMutation(m, TRUE)
      /\ IF Latest(m) THEN NoteSaved(f, r) ELSE UNCHANGED <<saved, saveSeq>>
      /\ IF Latest(m) /\ r # None /\ FitsLoadedWindow(Current, r)
         THEN Show(PlaceRecord(Current, f, r, listed)) ELSE UNCHANGED <<items, total>>
      /\ cache' = IF mine(cache) THEN r ELSE cache
      /\ undoable' = IF mine(undoable.record) THEN [undoable EXCEPT !.record = r] ELSE undoable
      /\ UNCHANGED <<server, query, exhausted, listed, counts, countsGen, opened, pages, threads, budget>>

\* Fault: a failed edit stays undoable.
UndoKept(h) == undoable

\* A failed edit puts back the undo it replaced, while its own entry stands.
UndoAfter(h) ==
  IF h.epoch = epoch /\ undoable.entry = h.entry
  THEN [pending |-> h.before.pending, entry |-> h.before.entry, made |-> undoable.made,
        record |-> IF h.before.record # None /\ h.before.record.id = h.id THEN h.prev ELSE h.before.record]
  ELSE undoable

\* rollback: only what this edit did, and only in lists and counts that still
\* show it.
Fail(m) ==
  LET h == mut[m]
      f == h.id
      here == h.epoch = epoch
      back == here /\ Latest(m)
      reopen == back /\ h.wasOpened /\ h.kind = "delete" /\ opened = None
  IN  /\ h.state = "pending" /\ h.wire = "refused"
      /\ SettleMutation(m, FALSE)
      /\ IF back /\ h.listGen = listGen
         THEN Show(PlaceRecord(Current, f, IF h.wasListed THEN h.prev ELSE None, listed))
         ELSE UNCHANGED <<items, total>>
      /\ counts' = IF ~back THEN counts
                   ELSE FoldLeft(LAMBDA c, u : IF u.gen = countsGen THEN AdjustCounts(c, Inverted(u.deltas)) ELSE c,
                                 counts, h.undo)
      /\ cache' = IF reopen \/ (back /\ cache # None /\ cache.by = m) THEN h.prev ELSE cache
      /\ opened' = IF reopen THEN f ELSE opened
      /\ undoable' = UndoAfter(h)
      /\ UNCHANGED <<server, query, exhausted, listed, countsGen, saved, saveSeq, pages, threads, budget>>

(***************************************************************************)
(* Threads: not optimistic.                                                *)
(***************************************************************************)
AddComment(f) ==
  /\ Spend("replies")
  /\ HeldRecords(f) # <<>>
  /\ replies' = Append(replies, [id |-> f, adds |-> TRUE, comment |-> Len(replies) + 1, state |-> "sent"])
  /\ UNCHANGED <<server, query, list, tallies, drawer, undoable, edits, pages, threadWrites, faded, crossed>>

DeleteComment(f, c) ==
  /\ Spend("replies")
  /\ c \in Comments(f)
  /\ replies' = Append(replies, [id |-> f, adds |-> FALSE, comment |-> c, state |-> "sent"])
  /\ UNCHANGED <<server, query, list, tallies, drawer, undoable, edits, pages, threadWrites, faded, crossed>>

\* A deletion of a comment that is gone is refused as gone, which counts as done.
ApplyReply(n) ==
  LET r == replies[n]
      f == r.id
  IN  /\ r.state = "sent"
      /\ \/ /\ server[f] # None
            /\ server' = [server EXCEPT ![f].thread = IF r.adds THEN @ \cup {r.comment} ELSE @ \ {r.comment}]
            /\ replies' = [replies EXCEPT ![n].state = "applied"]
            /\ UNCHANGED budget
         \/ /\ IF server[f] = None THEN UNCHANGED budget ELSE Spend("failures")
            /\ replies' = [replies EXCEPT ![n].state = "failed"]
            /\ UNCHANGED server
  /\ UNCHANGED <<query, list, tallies, drawer, undoable, edits, pages, threadWrites, faded, crossed>>

\* A page 1 on its way is to place again what was saved of f.
ToBeReplaced(f) ==
  loads # <<>> /\ LET l == loads[Len(loads)]
                 IN  l.state \in {"sent", "read"} /\ \E n \in 1..Len(saved) : saved[n].id = f /\ saved[n].seq > l.savedSince

\* updateRecord: the thread is rewritten wherever the record is held, but not in saved.
UpdateRecord(n) ==
  LET r == replies[n]
      f == r.id
      changed(held) == IF held = None \/ held.id # f THEN held
                       ELSE [held EXCEPT !.thread = IF r.adds THEN @ \cup {r.comment} ELSE @ \ {r.comment}]
  IN  /\ r.state = "applied"
      /\ replies' = [replies EXCEPT ![n].state = "done"]
      /\ items' = [i \in 1..Len(items) |-> changed(items[i])]
      /\ cache' = changed(cache)
      /\ undoable' = [undoable EXCEPT !.record = changed(@)]
      /\ mut' = [m \in 1..Begun |-> IF m \in Chain[inFlight[f]] THEN [mut[m] EXCEPT !.prev = changed(@)] ELSE mut[m]]
      /\ threadWrites' = [last |-> [threadWrites.last EXCEPT ![f] = threadWrites.count + 1],
                          count |-> threadWrites.count + 1]
      /\ faded' = IF ToBeReplaced(f) THEN faded \cup {f} ELSE faded
      /\ UNCHANGED <<server, query, total, exhausted, listed, tallies, opened, inFlight, saved, saveSeq, pages, budget, crossed>>

Next ==
  \/ Refresh
  \/ \E tab \in Filters : SetStatusFilter(tab)
  \/ \E b \in Base : SetBase(b)
  \/ \E n \in 1..Len(loads) : ReadPage(n) \/ CommitPage(n) \/ FailPage(n)
  \/ \E k \in CountKeys : ReadCount(k)
  \/ CommitCounts
  \/ LoadMore \/ ReadMore \/ AppendPage
  \/ \E f \in Feedback : OpenFeedback(f) \/ DeleteFeedback(f) \/ AddComment(f)
  \/ CloseFeedback
  \/ \E f \in Feedback, to \in Status : SetStatus(f, to)
  \/ Undo \/ DropUndo
  \/ \E m \in 1..Len(mut) : Apply(m) \/ Succeed(m) \/ Fail(m)
  \/ \E f \in Feedback, c \in Reply : DeleteComment(f, c)
  \/ \E n \in 1..Len(replies) : ApplyReply(n) \/ UpdateRecord(n)

Spec == Init /\ [][Next]_vars

-----------------------------------------------------------------------------
\* Every request has been answered.
Quiet ==
  /\ Pending = {} /\ more = NoMore /\ counting = NoCounting
  /\ \A n \in 1..Len(loads) : loads[n].state \in {"done", "failed"}
  /\ \A n \in 1..Len(replies) : replies[n].state \in {"done", "failed"}

HasMore == ~exhausted /\ total # None /\ Len(items) < total

\* Three overlaps the code leaves open are kept out (README, section 6): an
\* edit that failed on top of one that was saved, a mutation in flight together
\* with a further page, and a deletion that a page 1 overtook.  Two more, `faded`,
\* are kept out of what is said of threads.
Straight(f) ==
  \A m, n \in 1..Begun : m < n /\ mut[m].id = f /\ mut[n].id = f /\ mut[m].state = "ok" => mut[n].state # "failed"
Plain == {f \in Feedback : Straight(f)} \ crossed
Settled == Quiet /\ loads # <<>> /\ loads[Len(loads)].state = "done" /\ Plain = Feedback
Failed(f) == {m \in 1..Begun : mut[m].id = f /\ mut[m].state = "failed"}

\* Whatever answers overtook each other, once everything is answered a listed
\* row is one the server lists here, with the server's status and (but for
\* `faded`) thread; and
\* where nothing of what `Plain` leaves out happened, the rows are the first of
\* the server's list, without a gap, with more offered as long as there are more.
RowsAgree ==
  /\ Quiet /\ loads # <<>> /\ loads[Len(loads)].state = "done" =>
       \A n \in 1..Len(items) : items[n].id \in Plain =>
         /\ items[n].id \in Matching(base, filter)
         /\ items[n].status = server[items[n].id].status
         /\ items[n].id \notin faded => items[n].thread = server[items[n].id].thread
  /\ Settled =>
       LET all == Newest(Matching(base, filter))
       IN  /\ [n \in 1..Len(items) |-> items[n].id] = SubSeq(all, 1, Len(items))
           /\ ~HasMore => Len(items) = Len(all)

\* The tab counts are the server's, after any mix of local adjustments,
\* rollbacks and recounts (two failures of one feedback aside: a count clamped
\* at zero between them stays wrong).
CountsAgree ==
  Settled /\ (\A f \in Feedback : Cardinality(Failed(f)) < 2) =>
    \A k \in CountKeys : counts[k] # None => counts[k] = Cardinality(Matching(base, k))


\* The undo on offer takes back a change that was saved, also after a later
\* edit took its place and failed (one failure, edits not stacked).
UndoOffered ==
  Quiet /\ undoable.pending # None /\ (\A m \in 1..Begun : mut[m].prior = None)
        /\ Cardinality(UNION {Failed(f) : f \in Feedback}) < 2 =>
    \E m \in 1..Begun : /\ mut[m].id = undoable.pending.id /\ mut[m].state = "ok"
                        /\ mut[m].prev.status = undoable.pending.previous

\* "A row with a mutation still pending is that mutation's to place": a row
\* whose deletion the server confirmed has left the list.
DeletedLeave ==
  Quiet => \A n \in 1..Len(items) : \A m \in 1..Begun :
    ~(mut[m].id = items[n].id /\ mut[m].kind = "delete" /\ mut[m].state = "ok")

\* updateRecord rewrites a thread wherever it is held, so that "a response read
\* before this write does not either" drop the reply (use-inbox.ts:949-953): once
\* everything is answered a listed row has the server's thread.
ThreadsKept ==
  Quiet /\ loads # <<>> /\ loads[Len(loads)].state = "done" =>
    \A n \in 1..Len(items) : items[n].id \in Plain => items[n].thread = server[items[n].id].thread

=============================================================================
