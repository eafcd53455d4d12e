------------------------------- MODULE Widget -------------------------------
(***************************************************************************)
(* The widget around its panel (packages/widget/src/launcher.ts): handles, *)
(* page markers and navigation, the panel loaded on demand, and the        *)
(* submission of a feedback through the annotator and its popup.           *)
(*                                                                         *)
(* A JavaScript turn is one action.  The widget's objects are one record,  *)
(* w; their methods are operators from w to w.  Feedbacks are scoped by    *)
(* url; a feedback is named by the popup session (the form) that sends it, *)
(* which is also its clientId.  The panel is modelled as far as it loads   *)
(* and draws markers; the module Panel models the rest.  What a send does  *)
(* about retries is in RetryQueue: here it ends sent, queued or refused.   *)
(***************************************************************************)
EXTENDS Naturals, FiniteSets

CONSTANTS
  Url,       \* the pages' scopes
  Form,      \* popup sessions; also the feedbacks they send
  Posted,    \* feedbacks that are there already
  PostedAt,  \* the page of each
  Handle,    \* the handles launch() gives out
  Budgets,   \* bounds, one of which a behaviour keeps: navigations, refreshes, panel openings and closings,
             \* loads begun in the panel, failures, calls of destroy(); forms the visitor fills in; and whether
             \* the panel's list is another query than the markers', and the page was reached by a deep link
  None

Row == Form \cup Posted
Load == [url : Url, own : BOOLEAN, read : (SUBSET Row) \cup {None}]
Side == [url : Url, read : (SUBSET Row) \cup {None}]
Fetch == [n : Nat, url : Url, prev : Url \cup {None}, read : (SUBSET Row) \cup {None}]
Sending == [form : Form, stage : {"identity", "sending", "refreshing"}, url : Url \cup {None}]

Budgeted == {"navigations", "refreshes", "toggles", "loads", "failures", "destroys"}
ASSUME WidgetAssumption ==
  /\ PostedAt \in [Posted -> Url]
  /\ Form \cap Posted = {} /\ None \notin Url \cup Form /\ None \notin Load \cup Side \cup Fetch \cup Sending
  /\ \A b \in Budgets : /\ DOMAIN b = Budgeted \cup {"forms", "wide", "link"}
                        /\ \A k \in Budgeted : b[k] \in Nat
                        /\ b.forms \subseteq Form /\ {b.wide, b.link} \subseteq BOOLEAN

VARIABLES
  route,   \* the url of the page, as getScope() gives it
  home,    \* the url each feedback was recorded under, None before
  w,       \* the widget
  budget   \* what is left of the bounds

vars == <<route, home, w, budget>>

Visible(u) == {r \in Row : home[r] = u}
Spend(k) == ~w.destroyed /\ budget[k] > 0 /\ budget' = [budget EXCEPT ![k] = @ - 1]

Init ==
  /\ route \in Url
  /\ home = [r \in Row |-> IF r \in Posted THEN PostedAt[r] ELSE None]
  /\ budget \in Budgets
  /\ \E h \in Handle :
     w = [live |-> {h}, refs |-> 1, destroyed |-> FALSE,
          gen |-> 1, fetches |-> {[n |-> 1, url |-> route, prev |-> None, read |-> None]}, lastKey |-> route,
          panel |-> "absent", pending |-> FALSE, linked |-> FALSE, open |-> FALSE, load |-> None, side |-> None,
          pins |-> [r \in Row |-> 0],
          active |-> FALSE, instant |-> FALSE, form |-> None, pop |-> "closed", shot |-> FALSE, sub |-> None,
          \* history: what the host asked of the panel, how each form closed and what became of its feedback,
          \* the page last drawn, a refresh that failed since, an overlap the code leaves open
          asked |-> FALSE, told |-> [f \in Form |-> "none"], fate |-> [f \in Form |-> "none"],
          shown |-> None, failed |-> FALSE, crossed |-> FALSE]

(***************************************************************************)
(* Markers (markers.ts).                                                   *)
(***************************************************************************)
Render(s, rows, u) ==
  [s EXCEPT !.pins = [r \in Row |-> IF r \in rows THEN 1 ELSE 0], !.shown = u, !.failed = FALSE]
AddFeedback(s, f) == [s EXCEPT !.pins[f] = @ + 1]

(***************************************************************************)
(* The panel's loads.  A load aborts the one before it, and the query of   *)
(* the markers that ran beside it; closing the panel aborts nothing.       *)
(***************************************************************************)
LoadFeedbacks(s, u, own) ==
  [s EXCEPT !.load = [url |-> u, own |-> own, read |-> None],
            !.side = IF budget.wide THEN [url |-> u, read |-> None] ELSE None]

Opened(s) == IF s.open THEN s ELSE LoadFeedbacks([s EXCEPT !.open = TRUE], route, FALSE)

\* Drawn for the page the load began on, whatever page it is by then.
RenderPage(s, x) == Render([s EXCEPT !.crossed = @ \/ x.url # route], x.read, x.url)

\* The bus tells whoever waits for a submission how it went.
Settled(s, sent) ==
  IF s.pop # "waiting" THEN s
  ELSE IF sent THEN [s EXCEPT !.pop = "closed", !.told[s.form] = "sent", !.form = None, !.active = FALSE, !.instant = FALSE]
  ELSE [s EXCEPT !.pop = "typing"]

\* The submission that awaits the panel's refresh ends with it.
Refreshed(s) == [s EXCEPT !.load = None, !.sub = IF s.load.own THEN None ELSE @]

ServeLoad ==
  /\ w.load # None /\ w.load.read = None
  /\ w' = [w EXCEPT !.load.read = Visible(w.load.url)]
  /\ UNCHANGED <<route, home, budget>>

CommitLoad ==
  /\ w.load # None /\ w.load.read # None
  /\ w' = IF budget.wide THEN Refreshed(w) ELSE RenderPage(Refreshed(w), w.load)
  /\ UNCHANGED <<route, home, budget>>

FailLoad ==
  /\ w.load # None /\ Spend("failures")
  /\ w' = Settled([Refreshed(w) EXCEPT !.failed = TRUE], FALSE)
  /\ UNCHANGED <<route, home>>

ServeSide ==
  /\ w.side # None /\ w.side.read = None
  /\ w' = [w EXCEPT !.side.read = Visible(w.side.url)]
  /\ UNCHANGED <<route, home, budget>>

CommitSide ==
  /\ w.side # None /\ w.side.read # None
  /\ w' = RenderPage([w EXCEPT !.side = None], w.side)
  /\ UNCHANGED <<route, home, budget>>

FailSide ==
  /\ w.side # None /\ Spend("failures")
  /\ w' = [w EXCEPT !.side = None, !.failed = TRUE]
  /\ UNCHANGED <<route, home>>

\* A filter, the search or a retry reloads the open panel.
Reload == w.open /\ Spend("loads") /\ w' = LoadFeedbacks(w, route, FALSE) /\ UNCHANGED <<route, home>>

\* Anything else the panel fails to do (a reply, a status) reports on the same bus.
PanelFails ==
  /\ w.open /\ Spend("failures")
  /\ w' = Settled(w, FALSE)
  /\ UNCHANGED <<route, home>>

(***************************************************************************)
(* The panel's chunk, and opening and closing.                             *)
(***************************************************************************)
LoadPanel(s) == IF s.panel = "absent" THEN [s EXCEPT !.panel = "importing"] ELSE s

Prefetch ==
  /\ ~w.destroyed /\ w.panel = "absent"
  /\ w' = LoadPanel(w)
  /\ UNCHANGED <<route, home, budget>>

ImportPanel ==
  /\ ~w.destroyed /\ w.panel = "importing"
  /\ LET s == [w EXCEPT !.panel = "loaded", !.pending = FALSE, !.linked = FALSE, !.asked = @ \/ w.linked]
     IN  w' = IF w.pending \/ w.linked THEN Opened(s) ELSE s
  /\ UNCHANGED <<route, home, budget>>

\* The rejected import is what every later caller awaits.
ImportFails ==
  /\ w.panel = "importing" /\ Spend("failures")
  /\ w' = [w EXCEPT !.panel = "failed", !.linked = FALSE]
  /\ UNCHANGED <<route, home>>

Open ==
  /\ Spend("toggles")
  /\ LET s == [w EXCEPT !.asked = TRUE]
     IN  w' = IF w.panel = "loaded" THEN Opened(s) ELSE LoadPanel([s EXCEPT !.pending = TRUE])
  /\ UNCHANGED <<route, home>>

\* Fault: an opening that waits for the chunk goes on.
ClosedIfOpen(s) == [s EXCEPT !.open = FALSE, !.asked = FALSE]

Closed(s) ==
  IF s.panel = "loaded" THEN [s EXCEPT !.open = FALSE, !.asked = FALSE]
  ELSE [s EXCEPT !.pending = FALSE, !.asked = FALSE]

Close == Spend("toggles") /\ w' = Closed(w) /\ UNCHANGED <<route, home>>

(***************************************************************************)
(* The launcher's own fetches of markers, and navigation.                  *)
(***************************************************************************)
DoRefresh(s, u, prev) ==
  LET t == [s EXCEPT !.gen = @ + 1]
  IN  IF s.open THEN LoadFeedbacks(t, u, FALSE)
      ELSE [t EXCEPT !.fetches = @ \cup {[n |-> t.gen, url |-> u, prev |-> prev, read |-> None]}]

Refresh == Spend("refreshes") /\ w' = DoRefresh(w, route, None) /\ UNCHANGED <<route, home>>

\* A navigation to the scope last asked for fetches nothing.
Navigate(u) ==
  /\ u # route /\ Spend("navigations")
  /\ route' = u
  /\ w' = IF u = w.lastKey THEN [w EXCEPT !.crossed = @ \/ w.shown # u \/ \E x \in w.fetches : x.n = w.gen /\ x.url # u]
          ELSE DoRefresh([w EXCEPT !.lastKey = u], u, w.lastKey)
  /\ UNCHANGED home

ServeFetch(x) ==
  /\ x.read = None
  /\ w' = [w EXCEPT !.fetches = (@ \ {x}) \cup {[x EXCEPT !.read = Visible(x.url)]}]
  /\ UNCHANGED <<route, home, budget>>

\* Fault: the fetch that answers last is drawn.
LatestAnyway(x) == ~w.open

\* A refresh that began later, or the open panel, has taken over the markers.
Latest(x) == x.n = w.gen /\ (x.n = 1 \/ ~w.open)

\* A link to a feedback the first page shows opens the panel on it.
FollowLink(s) == IF s.panel = "loaded" THEN Opened([s EXCEPT !.asked = TRUE]) ELSE LoadPanel([s EXCEPT !.linked = s.panel # "failed"])

ArriveFetch(x) ==
  /\ x.read # None
  /\ LET s == [w EXCEPT !.fetches = @ \ {x}]
     IN  w' = IF ~Latest(x) THEN s
              ELSE IF x.n = 1 /\ budget.link /\ x.read # {} THEN FollowLink(Render(s, x.read, x.url))
              ELSE Render(s, x.read, x.url)
  /\ UNCHANGED <<route, home, budget>>

\* A navigation whose fetch failed is not counted as made.
FailFetch(x) ==
  /\ Spend("failures")
  /\ w' = [w EXCEPT !.fetches = @ \ {x}, !.failed = @ \/ x.n = w.gen,
                    !.lastKey = IF x.prev # None /\ @ = x.url THEN x.prev ELSE @]
  /\ UNCHANGED <<route, home>>

(***************************************************************************)
(* The annotator's session and its popup.                                  *)
(***************************************************************************)
NewForm(s, f) == [s EXCEPT !.form = f, !.pop = "typing", !.shot = FALSE]
Fresh == {f \in budget.forms : w.told[f] = "none" /\ w.form # f}

StartDrawing ==
  /\ ~w.destroyed /\ ~w.active /\ Fresh # {}
  /\ w' = [w EXCEPT !.active = TRUE]
  /\ UNCHANGED <<route, home, budget>>

FinishDrawing(f) ==
  /\ w.active /\ ~w.instant /\ w.pop = "closed" /\ f \in Fresh
  /\ w' = NewForm(w, f)
  /\ UNCHANGED <<route, home, budget>>

StartInstantAnnotation(f) ==
  /\ ~w.destroyed /\ ~w.active /\ f \in Fresh
  /\ w' = NewForm([w EXCEPT !.active = TRUE, !.instant = TRUE], f)
  /\ UNCHANGED <<route, home, budget>>

Deactivated(s) == [s EXCEPT !.active = FALSE, !.instant = FALSE]

Dismissed(s) == [s EXCEPT !.pop = "closed", !.told[s.form] = "cancelled", !.form = None]

\* The popup's Cancel: after a drawing the visitor may draw again.
Dismiss ==
  /\ w.pop = "typing"
  /\ w' = IF w.instant THEN Deactivated(Dismissed(w)) ELSE Dismissed(w)
  /\ UNCHANGED <<route, home, budget>>

\* Escape or the toolbar's Cancel, which a submission in flight refuses.
CancelSession ==
  /\ w.active /\ w.pop \in {"closed", "typing"}
  /\ w' = Deactivated(IF w.pop = "typing" THEN Dismissed(w) ELSE w)
  /\ UNCHANGED <<route, home, budget>>

\* Fault: a second submission is dropped without a word.
CompletedUnheard(s) ==
  IF s.sub # None THEN [s EXCEPT !.pop = "waiting"]
  ELSE [s EXCEPT !.pop = "waiting", !.sub = [form |-> s.form, stage |-> "identity", url |-> None]]

\* The annotation is complete: the launcher submits it, one at a time.
Completed(s) ==
  IF s.sub # None THEN [s EXCEPT !.pop = "typing"]
  ELSE [s EXCEPT !.pop = "waiting", !.sub = [form |-> s.form, stage |-> "identity", url |-> None]]

\* The first submission of a session captures the screenshot all of them send.
Submit ==
  /\ w.pop = "typing"
  /\ w' = IF w.shot THEN Completed(w) ELSE [w EXCEPT !.pop = "capturing"]
  /\ UNCHANGED <<route, home, budget>>

Capture ==
  /\ w.pop = "capturing"
  /\ w' = Completed([w EXCEPT !.shot = TRUE])
  /\ UNCHANGED <<route, home, budget>>

(***************************************************************************)
(* The launcher's submission.                                              *)
(***************************************************************************)
InStage(stage) == w.sub # None /\ w.sub.stage = stage

\* The author is known, or asked for and given; the scope is the page's now.
Identify ==
  /\ InStage("identity")
  /\ w' = [w EXCEPT !.sub.stage = "sending", !.sub.url = route]
  /\ UNCHANGED <<route, home, budget>>

DismissIdentity ==
  /\ InStage("identity")
  /\ w' = Settled([w EXCEPT !.sub = None], FALSE)
  /\ UNCHANGED <<route, home, budget>>

\* The server records the feedback, once.
Land ==
  /\ InStage("sending") /\ home[w.sub.form] = None
  /\ home' = [home EXCEPT ![w.sub.form] = w.sub.url]
  /\ UNCHANGED <<route, w, budget>>

\* x was read before f was recorded, and has still to be drawn.
Lacks(x, f) == IF x = None THEN FALSE ELSE x.read # None /\ f \notin x.read

\* The overlaps after which the pin of f may be missing, doubled or on another page.
Crosses(f) ==
  \/ \E x \in w.fetches : x.n = w.gen /\ Lacks(x, f)
  \/ ~w.open /\ home[f] = w.sub.url /\ (route # w.sub.url \/ w.pins[f] > 0)
  \/ ~w.open /\ home[f] = route /\ route # w.sub.url /\ w.pins[f] = 0
  \/ ~w.open /\ (Lacks(w.load, f) \/ Lacks(w.side, f))

Sent ==
  /\ InStage("sending") /\ home[w.sub.form] # None
  /\ LET f == w.sub.form
         t == Settled([w EXCEPT !.fate[f] = "sent", !.crossed = @ \/ Crosses(f)], TRUE)
         s == IF home[f] = w.sub.url THEN AddFeedback(t, f) ELSE t
     IN  w' = IF s.open THEN LoadFeedbacks([s EXCEPT !.sub.stage = "refreshing"], route, TRUE)
              ELSE [s EXCEPT !.sub = None]
  /\ UNCHANGED <<route, home, budget>>

\* The refresh a submission awaits was aborted by a later load.
EndRefresh ==
  /\ InStage("refreshing") /\ IF w.load = None THEN TRUE ELSE ~w.load.own
  /\ w' = [w EXCEPT !.sub = None]
  /\ UNCHANGED <<route, home, budget>>

\* Queued for the next page load, or refused.
FailSend(queued) ==
  /\ InStage("sending") /\ Spend("failures")
  /\ w' = Settled([w EXCEPT !.sub = None, !.fate[w.sub.form] = IF queued THEN "queued" ELSE @], queued)
  /\ UNCHANGED <<route, home>>

(***************************************************************************)
(* Handles: launch() on a page that has the widget gives another one.      *)
(***************************************************************************)
Launch(h) ==
  /\ h \notin w.live /\ Spend("destroys")
  /\ w' = [w EXCEPT !.live = @ \cup {h}, !.refs = @ + 1]
  /\ UNCHANGED <<route, home>>

\* Whatever is still in flight is dropped when it answers.
TornDown(s) == [s EXCEPT !.destroyed = TRUE, !.fetches = {}, !.load = None, !.side = None, !.sub = None, !.open = FALSE,
                         !.pending = FALSE, !.asked = FALSE, !.pop = "closed", !.form = None, !.active = FALSE,
                         !.pins = [r \in Row |-> 0]]

Released(s, h) ==
  LET t == [s EXCEPT !.live = @ \ {h}, !.refs = @ - 1]
  IN  IF h \notin s.live THEN s ELSE IF t.refs = 0 THEN TornDown(t) ELSE t

Destroy(h) == Spend("destroys") /\ w' = Released(w, h) /\ UNCHANGED <<route, home>>

Next ==
  \/ ServeLoad \/ CommitLoad \/ FailLoad \/ ServeSide \/ CommitSide \/ FailSide \/ Reload \/ PanelFails
  \/ Prefetch \/ ImportPanel \/ ImportFails \/ Open \/ Close \/ Refresh
  \/ \E u \in Url : Navigate(u)
  \/ \E x \in w.fetches : ServeFetch(x) \/ ArriveFetch(x) \/ FailFetch(x)
  \/ StartDrawing \/ Dismiss \/ CancelSession \/ Submit \/ Capture
  \/ \E f \in Form : FinishDrawing(f) \/ StartInstantAnnotation(f)
  \/ Identify \/ DismissIdentity \/ Land \/ Sent \/ EndRefresh
  \/ \E queued \in BOOLEAN : FailSend(queued)
  \/ \E h \in Handle : Launch(h) \/ Destroy(h)

Spec == Init /\ [][Next]_vars

-----------------------------------------------------------------------------
(***************************************************************************)
(* Properties.                                                             *)
(***************************************************************************)
Quiet == w.fetches = {} /\ w.load = None /\ w.side = None /\ w.sub = None

\* Once nothing is in flight, the pins are the page's: none of another page,
\* none twice, and one for each feedback this visitor sent from it.  Navigations
\* in a burst, refreshes, the panel opening, closing and reloading and the
\* submission may answer in any order; a refresh that failed, and the overlaps
\* of the history variable `crossed`, are left out.
PinsFollow ==
  Quiet /\ ~w.failed /\ ~w.crossed =>
    \A r \in Row : /\ w.pins[r] <= 1
                   /\ w.pins[r] = 1 => home[r] = route
                   /\ (r \in Form /\ home[r] = route) => (w.fate[r] = "sent" => w.pins[r] = 1 \/ w.destroyed)

\* The popup closes as sent only when its own feedback was sent or queued,
\* though every submission, and every failure of the panel, reports on one bus
\* without a correlation id; and a popup that waits is always the one being
\* submitted, in its own session, by a launcher that has still to report.
SentMeansOwn ==
  /\ \A f \in Form : w.told[f] = "sent" => w.fate[f] \in {"sent", "queued"}
  /\ w.pop # "closed" => w.active
  /\ w.pop = "waiting" => w.sub # None /\ w.sub.form = w.form /\ w.sub.stage # "refreshing"

\* Whenever the chunk lands, the panel is open if, and only if, the last call of
\* open() or close() was an open, or a deep link has opened it since.
OpenAsAsked == w.panel = "loaded" => w.open = w.asked

\* No pin of one page is left on another, once nothing is in flight and nothing
\* failed ("preventing annotations from one page accidentally rendering on
\* another").
PinsOfPage == Quiet /\ ~w.failed => \A r \in Row : w.pins[r] > 0 => home[r] = route
=============================================================================
