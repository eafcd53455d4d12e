------------------------------- MODULE Panel -------------------------------
(***************************************************************************)
(* The widget's feedback panel (packages/widget/src/panel.ts): its list,   *)
(* with the detail view (panel-detail.ts), the bulk bar (panel-bulk.ts)    *)
(* and the discussion threads (panel-thread.ts) drawn over it.             *)
(*                                                                         *)
(* A JavaScript turn is one action.  Every request is applied or read by   *)
(* the server in one step and answered in a later one, in any order, and   *)
(* an answer may be lost.  The panel object is one record, p; its methods  *)
(* are operators from p to p, composed as the code calls them within a     *)
(* turn.  A phone is modelled, where a marker opens the detail view, and   *)
(* a visitor who may do everything.                                        *)
(***************************************************************************)
EXTENDS Integers, Sequences, FiniteSets

CONSTANTS
  Feedback,   \* ids
  Created,    \* Created[f]: its place in time
  Listed,     \* Listed[q]: the statuses a list under query q holds
  Text,       \* what a visitor may write in a reply
  Budgets,    \* page sizes with bounds, one of which a behaviour keeps: reloads asked for, further pages,
              \* writes begun, replies sent, requests that fail, pins clicked, changes of the query
  None

Budgeted == {"pageSize", "loads", "mores", "writes", "posts", "failures", "pins", "switches"}
Query == DOMAIN Listed

\* What the panel keeps: replies, the list's cards, a page answered, the loads, the detail view, the writes.
Reply == [id : Nat, body : Text]
Card == [id : Feedback, status : {"open", "closed", "gone"}, replies : SUBSET Reply]
Answer == [rows : Seq(Card), total : Nat]
Load == [query : Query, pages : Nat, rows : Seq(Card), got : Nat, since : Nat, answer : Answer \cup {None}]
More == [begun : Nat, page : Nat, query : Query, since : Nat, answer : Answer \cup {None}]
View == [id : Feedback, status : {"open", "closed", "gone"}, locked : BOOLEAN]
Op == [via : {"list", "detail", "bulk", "all", "none"}, to : {"open", "closed", "gone", "run"},
       calls : UNION {[S -> {"sent", "applied", "ok", "failed"}] : S \in SUBSET Feedback}, load : Nat]

ASSUME PanelAssumption ==
  /\ IsFiniteSet(Feedback) /\ Created \in [Feedback -> Nat]
  /\ \A f, g \in Feedback : Created[f] = Created[g] => f = g
  /\ \A q \in Query : Listed[q] \subseteq {"open", "closed"}
  /\ \E q \in Query : \A r \in Query : Listed[r] \subseteq Listed[q]
  /\ \A b \in Budgets : b \in [Budgeted -> Nat] /\ b.pageSize > 0
  /\ None \notin Feedback \cup Text /\ None \notin Reply \cup Answer \cup Load \cup More \cup View

VARIABLES
  server,  \* per feedback its status, "gone" once deleted, and its replies
  p,       \* the panel
  budget   \* what is left of the bounds

vars == <<server, p, budget>>

Spend(k) == budget[k] > 0 /\ budget' = [budget EXCEPT ![k] = @ - 1]

(***************************************************************************)
(* The server's lists.                                                     *)
(***************************************************************************)
Row(f) == [id |-> f, status |-> server[f].status, replies |-> server[f].replies]
Newest(S) == [i \in 1..Cardinality(S) |-> CHOOSE f \in S : Cardinality({g \in S : Created[g] > Created[f]}) = i - 1]
Listing(q) == Newest({f \in Feedback : server[f].status \in Listed[q]})
Page(q, n) ==
  LET all == Listing(q)
      size == budget.pageSize
      ids == SubSeq(all, (n - 1) * size + 1, IF n * size < Len(all) THEN n * size ELSE Len(all))
  IN  [rows |-> [i \in DOMAIN ids |-> Row(ids[i])], total |-> Len(all)]

(***************************************************************************)
(* The panel.  Only the last load begun counts; a write that waits for an  *)
(* older one goes on when that one is answered, whatever the answer.       *)
(***************************************************************************)
Ids(rows) == {rows[i].id : i \in DOMAIN rows}
RowOf(rows, f) == rows[CHOOSE i \in DOMAIN rows : rows[i].id = f]
Running(s, via) == UNION {DOMAIN s.ops[k].calls : k \in {j \in DOMAIN s.ops : s.ops[j].via = via}}
PendingMutations == Running(p, "list")
ListOnScreen == p.open /\ p.detail = None /\ ~p.dialog

Init ==
  /\ server = [f \in Feedback |-> [status |-> "open", replies |-> {}]]
  /\ budget \in Budgets
  /\ p = [open |-> FALSE, query |-> CHOOSE q \in Query : \A r \in Query : Listed[r] \subseteq Listed[q], timer |-> FALSE,
          list |-> <<>>, total |-> 0, page |-> 1, scroll |-> None,
          load |-> None, begun |-> 0, more |-> None, ops |-> <<>>, dialog |-> FALSE,
          selected |-> {}, processing |-> FALSE, detail |-> None,
          writes |-> [f \in Feedback |-> [seq |-> 0, replies |-> {}]], written |-> 0, sends |-> 0,
          drafts |-> [f \in Feedback |-> [text |-> None, sent |-> None, sending |-> "no", shown |-> {}]],
          \* history: since the last reload began it failed, a write's answer was lost, or a further page was
          \* appended where it does not follow (README, section 6)
          stale |-> FALSE]

(***************************************************************************)
(* Loads.                                                                  *)
(***************************************************************************)
LoadFeedbacks(s, pages) ==
  [s EXCEPT !.page = 1, !.stale = FALSE, !.begun = @ + 1,
            !.load = [query |-> s.query, pages |-> pages, rows |-> <<>>, got |-> 0, since |-> s.written, answer |-> None]]

\* Fault: a reply the answer lacks is dropped.
KeepNone(s, since, row) == row

\* keepThreads: a list asked for before a reply landed takes the reply over.
WithReplies(row, replies) == [row EXCEPT !.replies = @ \cup replies]
KeepThread(s, since, row) ==
  IF s.writes[row.id].seq > since THEN WithReplies(row, s.writes[row.id].replies) ELSE row
KeepThreads(s, since, rows) == [i \in DOMAIN rows |-> KeepThread(s, since, rows[i])]

\* The replies drawn under a record, and what its buttons ask for: the status it does not show, or its deletion.
Thread(row) == row.replies
Opposite(status) == IF status = "closed" THEN "open" ELSE "closed"
CardButtons(row) == {Opposite(row.status), "gone"}
DetailButtons(status) == {Opposite(status), "gone"}

\* Fault: drawing a feedback again shows its buttons free.
ShowFree(s, f) ==
  LET row == RowOf(s.list, f)
  IN  [s EXCEPT !.detail = [id |-> f, status |-> row.status, locked |-> FALSE], !.drafts[f].shown = Thread(row)]

\* DetailView.show draws the buttons, locked while an operation runs on f, and f's thread.
Show(s, f) ==
  LET row == RowOf(s.list, f)
  IN  [s EXCEPT !.detail = [id |-> f, status |-> row.status, locked |-> f \in Running(s, "detail")],
                !.drafts[f].shown = Thread(row)]
Hide(s) == [s EXCEPT !.detail = None]
OnScreen(s, f) == s.detail # None /\ s.detail.id = f
HideDetailOf(s, f) == IF OnScreen(s, f) THEN Hide(s) ELSE s
FlashCard(s, f) == IF f \in Ids(s.list) THEN Show(s, f) ELSE s
ScrollToFeedback(s, f) == IF s.load # None THEN [s EXCEPT !.scroll = f] ELSE FlashCard(s, f)

RefreshDetail(s, f) ==
  IF ~OnScreen(s, f) THEN s ELSE IF f \in Ids(s.list) THEN Show(s, f) ELSE Hide(s)

(***************************************************************************)
(* The end of a write: the code after `await this.loadFeedbacks()`.        *)
(***************************************************************************)
Failed(op) == {f \in DOMAIN op.calls : op.calls[f] = "failed"}
Done == [via |-> "none", to |-> "gone", calls |-> <<>>, load |-> 0]
Over(s, k) == [s EXCEPT !.ops[k] = Done]
Subject(op) == CHOOSE f \in DOMAIN op.calls : TRUE

\* The view unlocks unless it moved on to another feedback.
Unlock(s, f) == IF OnScreen(s, f) THEN [s EXCEPT !.detail.locked = FALSE] ELSE s

\* The bulk bar: nothing is selected while it is processing.
SelectMore(s, S) == IF s.processing THEN s ELSE [s EXCEPT !.selected = @ \cup S]
DeselectAll(s) == [s EXCEPT !.selected = {}]

\* settleBulk after its reload, then the end of the bulk bar's handler.
SettleBulk(s, failed) ==
  [(IF failed = {} THEN DeselectAll(s) ELSE SelectMore(s, failed \cap Ids(s.list))) EXCEPT !.processing = FALSE]

Resume(s, k) ==
  LET op == s.ops[k]
  IN  CASE op.to = "run" -> RefreshDetail([s EXCEPT !.ops[k].load = 0], Subject(op))
        [] op.to # "run" /\ op.via = "detail" -> HideDetailOf(Over(s, k), Subject(op))
        [] op.via = "bulk" -> SettleBulk(Over(s, k), Failed(op))
        [] op.via \in {"list", "all"} -> Over(s, k)

Reload(s, k, pages) == [LoadFeedbacks(s, pages) EXCEPT !.ops[k].load = s.begun + 1]

\* Every call of a write is answered: reload, unless nothing can have changed.
Settled(s, k) ==
  LET op == s.ops[k]
  IN  CASE op.via = "all" \/ Failed(op) # DOMAIN op.calls -> Reload(s, k, 1)
        [] op.via = "bulk" /\ Failed(op) = DOMAIN op.calls -> Resume(s, k)
        [] op.via = "list" /\ Failed(op) = DOMAIN op.calls -> Over(s, k)
        [] op.via = "detail" /\ Failed(op) = DOMAIN op.calls -> Unlock(Over(s, k), Subject(op))

\* The end of a load, for the write that waits for it.
WaitingFor(s, n) == {k \in DOMAIN s.ops : s.ops[k].load = n}
End(s) ==
  LET ended == [s EXCEPT !.load = None, !.scroll = None]
      waiting == WaitingFor(s, s.begun)
  IN  IF waiting = {} THEN ended ELSE Resume(ended, CHOOSE k \in waiting : TRUE)

(***************************************************************************)
(* Loads, answered.                                                        *)
(***************************************************************************)
ReadPage ==
  /\ p.load # None /\ p.load.answer = None
  /\ p' = [p EXCEPT !.load.answer = Page(p.load.query, p.load.got + 1)]
  /\ UNCHANGED <<server, budget>>

MorePages(l) == l.got + 1 < l.pages /\ Len(l.rows \o l.answer.rows) < l.answer.total

NextPage ==
  LET l == p.load
  IN  /\ l # None /\ l.answer # None /\ MorePages(l)
      /\ p' = [p EXCEPT !.load = [l EXCEPT !.rows = l.rows \o l.answer.rows, !.got = l.got + 1, !.answer = None]]
      /\ UNCHANGED <<server, budget>>

\* The list is replaced and the bulk bar reset.
Rendered(s, l) ==
  [s EXCEPT !.page = l.got + 1, !.list = KeepThreads(p, l.since, l.rows \o l.answer.rows), !.total = l.answer.total,
            !.selected = {}, !.processing = FALSE]

\* The feedback of a pin clicked meanwhile.
ServeScroll(s) == IF s.scroll = None THEN s ELSE FlashCard(s, s.scroll)

CommitLoad ==
  /\ p.load # None /\ p.load.answer # None /\ ~MorePages(p.load)
  /\ p' = End(ServeScroll(Rendered(p, p.load)))
  /\ UNCHANGED <<server, budget>>

FailLoad ==
  /\ p.load # None /\ Spend("failures")
  /\ p' = End([p EXCEPT !.stale = TRUE])
  /\ UNCHANGED server

\* A newer load replaced the one a write waits for: its answer, or its failure, changes nothing else.
DropLoad(k) ==
  /\ p.ops[k].load \in 1..p.begun - 1
  /\ p' = Resume(p, k)
  /\ UNCHANGED <<server, budget>>

(***************************************************************************)
(* Further pages.                                                          *)
(***************************************************************************)
LoadMoreFeedbacks ==
  /\ ListOnScreen /\ p.total > Len(p.list) /\ Len(p.list) > 0 /\ p.more = None /\ Spend("mores")
  /\ p' = [p EXCEPT !.more = [begun |-> p.begun, page |-> p.page + 1, query |-> p.query, since |-> p.written,
                              answer |-> None]]
  /\ UNCHANGED server

ReadMore ==
  /\ p.more # None /\ p.more.answer = None
  /\ p' = [p EXCEPT !.more.answer = Page(p.more.query, p.more.page)]
  /\ UNCHANGED <<server, budget>>

\* Fault: a page asked for before the list was reloaded is appended.
AppendAnyway ==
  /\ p.more # None /\ p.more.answer # None
  /\ p' = [p EXCEPT !.more = None, !.page = p.more.page, !.total = p.more.answer.total,
                    !.list = @ \o KeepThreads(p, p.more.since, p.more.answer.rows)]
  /\ UNCHANGED <<server, budget>>

AppendMore ==
  /\ p.more # None /\ p.more.answer # None
  /\ p' = IF p.more.begun # p.begun THEN [p EXCEPT !.more = None]
          ELSE [p EXCEPT !.more = None, !.page = p.more.page, !.total = p.more.answer.total,
                         !.list = @ \o KeepThreads(p, p.more.since, p.more.answer.rows),
                         !.stale = @ \/ (p.load = None /\ p.more.page # p.page + 1)]
  /\ UNCHANGED <<server, budget>>

FailMore == p.more # None /\ Spend("failures") /\ p' = [p EXCEPT !.more = None] /\ UNCHANGED server

(***************************************************************************)
(* The visitor: the panel, its query, pins, cards.                         *)
(***************************************************************************)
Opened(s) == IF s.open THEN s ELSE LoadFeedbacks([s EXCEPT !.open = TRUE], 1)

Open == ~p.open /\ Spend("loads") /\ p' = Opened(p) /\ UNCHANGED server

Closed(s) == [Hide(s) EXCEPT !.open = FALSE, !.scroll = None]
Close == p.open /\ p' = Closed(p) /\ UNCHANGED <<server, budget>>

\* Escape leaves the top layer.
PressEscape ==
  /\ p.open
  /\ p' = IF p.dialog THEN [p EXCEPT !.dialog = FALSE] ELSE IF p.detail # None THEN Hide(p) ELSE Closed(p)
  /\ UNCHANGED <<server, budget>>

Refresh == p.open /\ Spend("loads") /\ p' = LoadFeedbacks(p, 1) /\ UNCHANGED server

\* A tab or a dropdown reloads at once, the search field once typing pauses.
SelectQuery(q) ==
  /\ ListOnScreen /\ q # p.query /\ Spend("switches")
  /\ p' = LoadFeedbacks([p EXCEPT !.query = q], 1)
  /\ UNCHANGED server
Search(q) ==
  /\ ListOnScreen /\ q # p.query /\ Spend("switches")
  /\ p' = [p EXCEPT !.query = q, !.timer = TRUE]
  /\ UNCHANGED server
SearchNow ==
  /\ p.timer
  /\ p' = LoadFeedbacks([p EXCEPT !.timer = FALSE], 1)
  /\ UNCHANGED <<server, budget>>

\* A pin opens the panel, then asks for its feedback.
ClickPin(f) == Spend("pins") /\ p' = ScrollToFeedback(Opened(p), f) /\ UNCHANGED server

ClickCard(f) ==
  /\ ListOnScreen /\ f \in Ids(p.list)
  /\ p' = Show(p, f)
  /\ UNCHANGED <<server, budget>>
ClickDeselect == ListOnScreen /\ p.selected # {} /\ p' = DeselectAll(p) /\ UNCHANGED <<server, budget>>
Back == p.detail # None /\ p' = Hide(p) /\ UNCHANGED <<server, budget>>

Toggle(f) ==
  /\ ListOnScreen /\ f \in Ids(p.list) /\ ~p.processing
  /\ p' = [p EXCEPT !.selected = IF f \in @ THEN @ \ {f} ELSE @ \cup {f}]
  /\ UNCHANGED <<server, budget>>
SelectAll ==
  /\ ListOnScreen /\ p.list # <<>>
  /\ p' = IF Cardinality(p.selected) = Cardinality(Ids(p.list)) THEN DeselectAll(p) ELSE SelectMore(p, Ids(p.list))
  /\ UNCHANGED <<server, budget>>

(***************************************************************************)
(* Writes: from a card, the detail view, the bulk bar, or to everything.   *)
(***************************************************************************)
Calls(S) == [f \in S |-> "sent"]
Begin(s, via, to, S) == [s EXCEPT !.ops = Append(@, [via |-> via, to |-> to, calls |-> Calls(S), load |-> 0])]

FromCard(f, to) ==
  /\ ListOnScreen /\ f \in Ids(p.list) /\ f \notin PendingMutations /\ to \in CardButtons(RowOf(p.list, f))
  /\ Spend("writes")
  /\ p' = Begin(p, "list", to, {f})
  /\ UNCHANGED server

\* "run" is a host action, which asks for whatever it likes while the view is locked.
FromDetail(to) ==
  /\ p.detail # None /\ p.detail.id \notin Running(p, "detail") /\ to \in DetailButtons(p.detail.status) \cup {"run"}
  /\ Spend("writes")
  /\ p' = [Begin(p, "detail", to, {p.detail.id}) EXCEPT !.detail.locked = TRUE]
  /\ UNCHANGED server

\* Resolving leaves out what is closed already: with nothing left the bar is done at once.
FromBulk(to) ==
  LET closed == {f \in p.selected : RowOf(p.list, f).status = "closed"}
      targets == IF to = "closed" THEN p.selected \ closed ELSE p.selected
  IN  /\ ListOnScreen /\ ~p.processing /\ p.selected # {} /\ to \in {"closed", "gone"}
      /\ Spend("writes")
      /\ p' = IF targets = {} THEN [p EXCEPT !.selected = {}]
              ELSE [Begin(p, "bulk", to, targets) EXCEPT !.processing = TRUE]
      /\ UNCHANGED server

\* The dialog stands above the panel, and outlives its closing.
AskDeleteAll ==
  /\ ListOnScreen /\ Running(p, "all") = {} /\ p.begun > 0 /\ ~p.dialog /\ budget.writes > 0
  /\ p' = [p EXCEPT !.dialog = TRUE]
  /\ UNCHANGED <<server, budget>>
AnswerDialog ==
  /\ p.dialog
  /\ \/ p' = [p EXCEPT !.dialog = FALSE] /\ UNCHANGED budget
     \/ Spend("writes") /\ p' = Begin([p EXCEPT !.dialog = FALSE], "all", "gone", Feedback)
  /\ UNCHANGED server

\* One request per feedback, and one for everything.
Together(op, f) == IF op.via = "all" THEN DOMAIN op.calls ELSE {f}
Called(k, f, from) == f \in DOMAIN p.ops[k].calls /\ p.ops[k].calls[f] = from /\ p.ops[k].to # "run"
Answered(k, f, outcome) ==
  LET op == p.ops[k]
      calls == [g \in DOMAIN op.calls |-> IF g \in Together(op, f) THEN outcome ELSE op.calls[g]]
      s == [p EXCEPT !.ops[k].calls = calls]
  IN  IF \E g \in DOMAIN calls : calls[g] \notin {"ok", "failed"} THEN s ELSE Settled(s, k)

Known(k, f) == p.ops[k].via = "all" \/ server[f].status # "gone"

ApplyWrite(k, f) ==
  LET op == p.ops[k]
  IN  /\ Called(k, f, "sent") /\ Known(k, f)
      /\ server' = [g \in Feedback |-> IF g \in Together(op, f) THEN [server[g] EXCEPT !.status = op.to] ELSE server[g]]
      /\ p' = [p EXCEPT !.ops[k].calls = [g \in DOMAIN @ |-> IF g \in Together(op, f) THEN "applied" ELSE @[g]]]
      /\ UNCHANGED budget

AnswerWrite(k, f) == Called(k, f, "applied") /\ p' = Answered(k, f, "ok") /\ UNCHANGED <<server, budget>>

\* Refused: the feedback is gone.
RefuseWrite(k, f) == Called(k, f, "sent") /\ ~Known(k, f) /\ p' = Answered(k, f, "failed") /\ UNCHANGED <<server, budget>>

\* The request, or only its answer, is lost.
FailWrite(k, f) ==
  /\ \E from \in {"sent", "applied"} : Called(k, f, from)
  /\ Spend("failures")
  /\ p' = LET s == Answered(k, f, "failed") IN IF p.ops[k].via = "all" THEN s ELSE [s EXCEPT !.stale = TRUE]
  /\ UNCHANGED server

\* A host action asks for a fresh view of its feedback, and ends.
HostRefresh(k) ==
  /\ p.ops[k].to = "run" /\ p.ops[k].load = 0 /\ p.open /\ Spend("loads")
  /\ p' = Reload(p, k, p.page)
  /\ UNCHANGED server
EndHostAction(k) ==
  /\ p.ops[k].to = "run" /\ p.ops[k].load = 0
  /\ p' = Unlock(Over(p, k), Subject(p.ops[k]))
  /\ UNCHANGED <<server, budget>>

(***************************************************************************)
(* Replies.  A draft outlives its view; what was sent keeps its clientId   *)
(* while the text is the same.                                             *)
(***************************************************************************)
Type(f, t) ==
  /\ OnScreen(p, f) /\ p.drafts[f].sending = "no" /\ p.drafts[f].text # t /\ budget.posts > 0
  /\ p' = [p EXCEPT !.drafts[f].text = t]
  /\ UNCHANGED <<server, budget>>

\* Fault: an edited draft goes out under the first one's clientId.
SentOnce(f) ==
  LET d == p.drafts[f]
  IN  IF d.sent # None THEN d.sent ELSE [id |-> p.sends + 1, body |-> d.text]

Sent(f) ==
  LET d == p.drafts[f]
  IN  IF d.sent # None /\ d.sent.body = d.text THEN d.sent ELSE [id |-> p.sends + 1, body |-> d.text]

Submit(f) ==
  /\ OnScreen(p, f) /\ p.drafts[f].sending = "no" /\ p.drafts[f].text # None /\ Spend("posts")
  /\ p' = [p EXCEPT !.drafts[f].sent = Sent(f), !.drafts[f].sending = "asked", !.sends = @ + 1]
  /\ UNCHANGED server

\* The server stores one reply per clientId.
Stored(f) == {r \in server[f].replies : r.id = p.drafts[f].sent.id}
StoreReply(f) ==
  /\ p.drafts[f].sending = "asked" /\ server[f].status # "gone"
  /\ server' = IF Stored(f) # {} THEN server ELSE [server EXCEPT ![f].replies = @ \cup {p.drafts[f].sent}]
  /\ p' = [p EXCEPT !.drafts[f].sending = "stored"]
  /\ UNCHANGED budget

\* postComment: onto the listed record, and onto the view on screen, whichever sent it.
ReplyLands(f) ==
  /\ p.drafts[f].sending = "stored"
  /\ p' = [p EXCEPT !.list = [i \in DOMAIN @ |-> IF @[i].id = f THEN WithReplies(@[i], Stored(f)) ELSE @[i]],
                    !.writes[f] = [seq |-> p.written + 1, replies |-> @.replies \cup Stored(f)], !.written = @ + 1,
                    !.drafts[f] = [text |-> None, sent |-> None, sending |-> "no", shown |-> @.shown \cup Stored(f)]]
  /\ UNCHANGED <<server, budget>>

\* Dismissed, refused or lost: the text stays for another try.
ReplyFails(f) ==
  /\ p.drafts[f].sending \in {"asked", "stored"}
  /\ IF server[f].status = "gone" THEN UNCHANGED budget ELSE Spend("failures")
  /\ p' = [p EXCEPT !.drafts[f].sending = "no", !.stale = TRUE]
  /\ UNCHANGED server

(***************************************************************************)
(* The specification: answers come, if only as failures.                   *)
(***************************************************************************)
LoadAnswer == ReadPage \/ NextPage \/ CommitLoad \/ \E k \in DOMAIN p.ops : DropLoad(k)
WriteAnswer ==
  \E k \in DOMAIN p.ops :
    EndHostAction(k) \/ \E f \in DOMAIN p.ops[k].calls : ApplyWrite(k, f) \/ AnswerWrite(k, f) \/ RefuseWrite(k, f)

Next ==
  \/ LoadAnswer \/ WriteAnswer \/ FailLoad
  \/ \E k \in DOMAIN p.ops : HostRefresh(k) \/ \E f \in DOMAIN p.ops[k].calls : FailWrite(k, f)
  \/ LoadMoreFeedbacks \/ ReadMore \/ AppendMore \/ FailMore
  \/ Open \/ Close \/ Refresh \/ Back \/ PressEscape \/ SelectAll \/ ClickDeselect \/ AskDeleteAll \/ AnswerDialog \/ SearchNow
  \/ \E q \in Query : SelectQuery(q) \/ Search(q)
  \/ \E to \in {"open", "closed", "gone", "run"} : FromDetail(to) \/ FromBulk(to) \/ \E f \in Feedback : FromCard(f, to)
  \/ \E f \in Feedback : ClickPin(f) \/ ClickCard(f) \/ Toggle(f) \/ Submit(f) \/ StoreReply(f) \/ ReplyLands(f) \/ ReplyFails(f)
  \/ \E f \in Feedback, t \in Text : Type(f, t)

Spec == Init /\ [][Next]_vars

(***************************************************************************)
(* Properties.                                                             *)
(***************************************************************************)
Quiet ==
  /\ p.load = None /\ \A k \in DOMAIN p.ops : p.ops[k] = Done
  /\ p.more = None /\ ~p.timer /\ \A f \in Feedback : p.drafts[f].sending = "no"

\* Once everything is answered, the list is the beginning of what the server lists under the query on screen, whatever
\* loads, further pages and writes overlapped, unless the last reload failed or a write's answer was lost after it.
ListAgrees ==
  Quiet /\ ~p.stale /\ p.begun > 0 =>
    LET all == Listing(p.query)
    IN  /\ p.total = Len(all) /\ Len(p.list) = IF p.page * budget.pageSize < Len(all) THEN p.page * budget.pageSize ELSE Len(all)
        /\ \A i \in DOMAIN p.list : p.list[i] = Row(all[i])

\* A reply the visitor was told is posted stays in the list and on the thread on screen, whatever lists asked for before
\* it come in after it, and whichever drawing of the view sent it.
RepliesStay ==
  \A f \in Feedback :
    /\ \A i \in DOMAIN p.list : p.list[i].id = f => p.writes[f].replies \subseteq p.list[i].replies
    /\ OnScreen(p, f) => p.writes[f].replies \subseteq p.drafts[f].shown

\* A composer gives its text up only once that very text is stored, whatever was resent or edited in between.
TextStored ==
  [][\A f \in Feedback : p.drafts[f].text # None /\ p'.drafts[f].text = None =>
       \E r \in server[f].replies : r.body = p.drafts[f].text]_vars

\* The buttons on screen are locked while, and only while, an operation of the detail view runs on that feedback, however
\* the view left it and came back.
LockedWhileRunning == p.detail # None => (p.detail.locked <=> p.detail.id \in Running(p, "detail"))

\* "Load more" appends the page after those listed.
NextPageAppended ==
  [][p.more # None /\ p'.more = None /\ p'.list # p.list /\ p.load = None =>
       Len(p.list) = (p.more.page - 1) * budget.pageSize]_vars

\* After a bulk action of which something failed, the failed feedbacks still listed are the ones selected.
FailedReselected ==
  [][\A k \in DOMAIN p.ops : p.ops[k].via = "bulk" /\ p.ops[k].load > 0 /\ p'.ops[k] = Done /\ Failed(p.ops[k]) # {} =>
       p'.selected = Failed(p.ops[k]) \cap Ids(p'.list)]_vars
=============================================================================
