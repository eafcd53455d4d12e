---------------------------- MODULE WidgetProofs ----------------------------
(***************************************************************************)
(* What holds of the widget for any pages, forms, handles and bounds, and, *)
(* at the end, of the pins for any page and annotations.                   *)
(***************************************************************************)
EXTENDS Widget, Anchoring, FiniteSetTheorems, WellFoundedInduction, TLAPS

(***************************************************************************)
(* Widgets.                                                                *)
(***************************************************************************)
Fields == {"live", "refs", "destroyed", "gen", "fetches", "lastKey", "panel", "pending", "linked", "open", "load", "side",
           "pins", "active", "instant", "form", "pop", "shot", "sub", "asked", "told", "fate", "shown", "failed", "crossed"}

IsW(s) ==
  /\ DOMAIN s = Fields
  /\ s.fetches \subseteq Fetch /\ s.gen \in Nat /\ s.lastKey \in Url /\ s.shown \in Url \cup {None}
  /\ s.load \in Load \cup {None} /\ s.side \in Side \cup {None} /\ s.sub \in Sending \cup {None}
  /\ s.panel \in {"absent", "importing", "loaded", "failed"}
  /\ s.pop \in {"closed", "typing", "capturing", "waiting"} /\ s.form \in Form \cup {None}
  /\ s.pins \in [Row -> Nat]
  /\ s.told \in [Form -> {"none", "sent", "cancelled"}] /\ s.fate \in [Form -> {"none", "sent", "queued"}]
  /\ {s.open, s.asked, s.pending, s.linked, s.destroyed} \subseteq BOOLEAN
  /\ {s.active, s.instant, s.shot, s.failed, s.crossed} \subseteq BOOLEAN

\* s and t differ in the fields of C at most.
Same(s, t, C) == \A k \in Fields \ C : t[k] = s[k]

\* x is a request for url u that has still to be read.
Begun(x, u) == x # None /\ x.url = u /\ x.read = None

\* The query of the markers beside a load for u, where the panel lists something else.
Beside(x, u) == IF budget.wide THEN Begun(x, u) ELSE x = None

\* The form of a popup that is open.
HasForm(s) == s.pop # "closed" => s.form \in Form

TypeInv ==
  /\ route \in Url /\ home \in [Row -> Url \cup {None}] /\ budget.wide \in BOOLEAN
  /\ {"wide"} \subseteq DOMAIN budget
  /\ IsW(w) /\ HasForm(w)

(***************************************************************************)
(* What the widget's operators do.                                         *)
(***************************************************************************)
\* Drawing changes the pins, to those of the page.
LEMMA RenderFacts ==
  ASSUME NEW s, IsW(s), NEW rows, NEW u \in Url
  PROVE  LET t == Render(s, rows, u) IN
         /\ IsW(t) /\ Same(s, t, {"pins", "shown", "failed"})
         /\ t.pins = [r \in Row |-> IF r \in rows THEN 1 ELSE 0] /\ t.shown = u /\ ~t.failed
BY DEF Render, Same, IsW, Fields

\* A load, and the query of the markers beside it.
LEMMA LoadFacts ==
  ASSUME NEW s, IsW(s), NEW u \in Url, NEW own \in BOOLEAN
  PROVE  LET t == LoadFeedbacks(s, u, own) IN
         /\ IsW(t) /\ Same(s, t, {"load", "side"})
         /\ Begun(t.load, u) /\ t.load.own = own /\ Beside(t.side, u)
<1> DEFINE l == [url |-> u, own |-> own, read |-> None]
           d == IF budget.wide THEN [url |-> u, read |-> None] ELSE None
<1>1. l \in Load \cup {None} /\ d \in Side \cup {None}
  <2>1. None \in (SUBSET Row) \cup {None}
    OBVIOUS
  <2>2. l \in Load
    BY <2>1 DEF Load
  <2>3. [url |-> u, read |-> None] \in Side
    BY <2>1 DEF Side
  <2>4. QED BY <2>2, <2>3
<1>2. LoadFeedbacks(s, u, own) = [s EXCEPT !.load = l, !.side = d]
  BY DEF LoadFeedbacks
<1> HIDE DEF l, d
<1>3. LET t == LoadFeedbacks(s, u, own) IN IsW(t) /\ Same(s, t, {"load", "side"}) /\ t.load = l /\ t.side = d
  <2>1. IsW(LoadFeedbacks(s, u, own))
    BY <1>1, <1>2 DEF IsW, Fields
  <2>2. QED BY <1>2, <2>1 DEF Same, IsW, Fields
<1>4. Begun(l, u) /\ l.own = own /\ Beside(d, u)
  <2>1. l \in Load /\ [url |-> u, read |-> None] \in Side
    BY DEF l, Load, Side
  <2>2. l # None /\ [url |-> u, read |-> None] # None
    BY <2>1, WidgetAssumption
  <2>3. QED BY <2>2 DEF l, d, Begun, Beside
<1>5. QED BY <1>3, <1>4

\* A popup that waits settles.
LEMMA SettledFacts ==
  ASSUME NEW s, IsW(s), HasForm(s), NEW sent \in BOOLEAN
  PROVE  LET t == Settled(s, sent) IN
         /\ IsW(t) /\ HasForm(t) /\ Same(s, t, {"pop", "told", "form", "active", "instant"})
         /\ s.pop # "waiting" => t = s
         /\ s.pop = "waiting" /\ ~sent => t.pop = "typing" /\ Same(s, t, {"pop"})
         /\ s.pop = "waiting" /\ sent => t.pop = "closed" /\ t.told = [s.told EXCEPT ![s.form] = "sent"]
<1>1. CASE s.pop # "waiting"
  BY <1>1 DEF Settled, Same
<1>2. CASE s.pop = "waiting" /\ ~sent
  BY <1>2 DEF Settled, Same, IsW, Fields, HasForm
<1>3. CASE s.pop = "waiting" /\ sent
  <2> DEFINE told == [s.told EXCEPT ![s.form] = "sent"]
  <2>1. Settled(s, sent) = [s EXCEPT !.pop = "closed", !.told = told, !.form = None, !.active = FALSE, !.instant = FALSE]
    BY <1>3 DEF Settled, IsW, Fields
  <2>2. told \in [Form -> {"none", "sent", "cancelled"}]
    BY DEF IsW
  <2> HIDE DEF told
  <2>3. LET t == Settled(s, sent) IN
          /\ IsW(t) /\ HasForm(t) /\ Same(s, t, {"pop", "told", "form", "active", "instant"})
          /\ t.pop = "closed" /\ t.told = told
    <3>1. IsW(Settled(s, sent))
      BY <2>1, <2>2 DEF IsW, Fields
    <3>2. QED BY <2>1, <3>1 DEF Same, IsW, Fields, HasForm
  <2>4. QED BY <1>3, <2>3 DEF told
<1>4. QED BY <1>1, <1>2, <1>3

\* A pin for a feedback just sent.
LEMMA AddFacts ==
  ASSUME NEW s, IsW(s), NEW f \in Form
  PROVE  LET t == AddFeedback(s, f) IN
         /\ IsW(t) /\ Same(s, t, {"pins"})
         /\ t.pins = [s.pins EXCEPT ![f] = @ + 1]
<1> DEFINE pins == [s.pins EXCEPT ![f] = s.pins[f] + 1]
<1>1. AddFeedback(s, f) = [s EXCEPT !.pins = pins]
  BY DEF AddFeedback, IsW, Fields
<1>2. pins \in [Row -> Nat]
  BY DEF IsW, Row
<1> HIDE DEF pins
<1>3. LET t == AddFeedback(s, f) IN IsW(t) /\ Same(s, t, {"pins"}) /\ t.pins = pins
  BY <1>1, <1>2 DEF IsW, Same, Fields
<1>4. QED BY <1>3 DEF pins

\* An open panel stays as it is; any other loads.
LEMMA OpenedFacts ==
  ASSUME NEW s, IsW(s), route \in Url
  PROVE  LET t == Opened(s) IN
         /\ IsW(t) /\ Same(s, t, {"open", "load", "side"}) /\ t.open
         /\ s.open => t = s
         /\ ~s.open => /\ Begun(t.load, route) /\ ~t.load.own /\ Beside(t.side, route)
<1>r. PICK r : r = [s EXCEPT !.open = TRUE]
  OBVIOUS
<1>1. IsW(r) /\ Same(s, r, {"open"}) /\ r.open
  BY <1>r DEF IsW, Same, Fields
<1>2. CASE s.open
  BY <1>2 DEF Opened, Same, IsW
<1>3. CASE ~s.open
  <2>1. Opened(s) = LoadFeedbacks(r, route, FALSE)
    BY <1>r, <1>3 DEF Opened
  <2>2. LET t == Opened(s) IN
        /\ IsW(t) /\ Same(r, t, {"load", "side"})
        /\ Begun(t.load, route) /\ ~t.load.own /\ Beside(t.side, route)
    BY <1>1, <2>1, LoadFacts
  <2>3. Same(s, Opened(s), {"open", "load", "side"}) /\ Opened(s).open
    BY <1>1, <2>2 DEF Same, Fields
  <2>4. QED BY <1>3, <2>2, <2>3
<1>4. QED BY <1>2, <1>3

\* The chunk is imported once.
LEMMA LoadPanelFacts ==
  ASSUME NEW s, IsW(s)
  PROVE  LET t == LoadPanel(s) IN
         /\ IsW(t) /\ Same(s, t, {"panel"})
         /\ t.panel = IF s.panel = "absent" THEN "importing" ELSE s.panel
BY DEF LoadPanel, IsW, Same, Fields

\* A load that ends takes the submission that awaits it along.
LEMMA RefreshedFacts ==
  ASSUME NEW s, IsW(s), s.load # None
  PROVE  LET t == Refreshed(s) IN
         /\ IsW(t) /\ Same(s, t, {"load", "sub"})
         /\ t.load = None /\ t.sub = IF s.load.own THEN None ELSE s.sub
BY DEF Refreshed, IsW, Same, Fields

\* The page of a load is drawn.
LEMMA RenderPageFacts ==
  ASSUME NEW s, IsW(s), NEW x, x.url \in Url
  PROVE  LET t == RenderPage(s, x) IN
         /\ IsW(t) /\ Same(s, t, {"pins", "shown", "failed", "crossed"})
         /\ t.pins = [r \in Row |-> IF r \in x.read THEN 1 ELSE 0] /\ t.shown = x.url /\ ~t.failed
         /\ t.crossed <=> s.crossed \/ x.url # route
<1>r. PICK r : r = [s EXCEPT !.crossed = s.crossed \/ x.url # route]
  OBVIOUS
<1>1. IsW(r) /\ Same(s, r, {"crossed"}) /\ (r.crossed <=> s.crossed \/ x.url # route)
  <2>1. (s.crossed \/ x.url # route) \in BOOLEAN
    BY DEF IsW
  <2>2. IsW(r)
    BY <1>r, <2>1 DEF IsW, Fields
  <2>3. QED BY <1>r, <2>1, <2>2 DEF IsW, Same, Fields
<1>2. RenderPage(s, x) = Render(r, x.read, x.url)
  BY <1>r DEF RenderPage
<1>3. LET t == RenderPage(s, x) IN
      /\ IsW(t) /\ Same(r, t, {"pins", "shown", "failed"})
      /\ t.pins = [o \in Row |-> IF o \in x.read THEN 1 ELSE 0] /\ t.shown = x.url /\ ~t.failed
  BY <1>1, <1>2, RenderFacts
<1>4. Same(s, RenderPage(s, x), {"pins", "shown", "failed", "crossed"}) /\ RenderPage(s, x).crossed = r.crossed
  BY <1>1, <1>3 DEF Same, Fields
<1>5. QED BY <1>1, <1>3, <1>4

\* The markers are asked for again, by the panel when it is open.
LEMMA RefreshFacts ==
  ASSUME NEW s, IsW(s), NEW u \in Url, NEW prev \in Url \cup {None}
  PROVE  LET t == DoRefresh(s, u, prev) IN
         /\ IsW(t) /\ Same(s, t, {"gen", "load", "side", "fetches"}) /\ t.gen = s.gen + 1
         /\ s.open => /\ t.fetches = s.fetches
                      /\ Begun(t.load, u) /\ ~t.load.own /\ Beside(t.side, u)
         /\ ~s.open => /\ t.fetches = s.fetches \cup {[n |-> s.gen + 1, url |-> u, prev |-> prev, read |-> None]}
                       /\ t.load = s.load /\ t.side = s.side
<1>r. PICK r : r = [s EXCEPT !.gen = s.gen + 1]
  OBVIOUS
<1>x. PICK x : x = [n |-> s.gen + 1, url |-> u, prev |-> prev, read |-> None]
  OBVIOUS
<1>1. IsW(r) /\ Same(s, r, {"gen"}) /\ r.gen = s.gen + 1
  BY <1>r DEF IsW, Same, Fields
<1>2. CASE s.open
  <2>1. DoRefresh(s, u, prev) = LoadFeedbacks(r, u, FALSE)
    BY <1>r, <1>2 DEF DoRefresh
  <2>2. LET t == DoRefresh(s, u, prev) IN
        /\ IsW(t) /\ Same(r, t, {"load", "side"})
        /\ Begun(t.load, u) /\ ~t.load.own /\ Beside(t.side, u)
    BY <1>1, <2>1, LoadFacts
  <2>3. LET t == DoRefresh(s, u, prev) IN
        Same(s, t, {"gen", "load", "side", "fetches"}) /\ t.gen = s.gen + 1 /\ t.fetches = s.fetches
    BY <1>1, <2>2 DEF Same, Fields
  <2>4. QED BY <1>2, <2>2, <2>3
<1>3. CASE ~s.open
  <2>1. DoRefresh(s, u, prev) = [r EXCEPT !.fetches = s.fetches \cup {x}]
    BY <1>r, <1>x, <1>1, <1>3 DEF DoRefresh, Same, Fields
  <2>2. x \in Fetch
    BY <1>x DEF Fetch, IsW
  <2>3. s.fetches \cup {x} \subseteq Fetch
    BY <2>2 DEF IsW
  <2>4. LET t == DoRefresh(s, u, prev) IN
        IsW(t) /\ Same(s, t, {"gen", "load", "side", "fetches"}) /\ t.gen = s.gen + 1 /\ t.fetches = s.fetches \cup {x}
        /\ t.load = s.load /\ t.side = s.side
    BY <1>1, <2>1, <2>3 DEF IsW, Same, Fields
  <2>5. QED BY <1>x, <1>3, <2>4
<1>4. QED BY <1>2, <1>3

\* A link opens the panel, or has its chunk loaded to open it.
LEMMA LinkFacts ==
  ASSUME NEW s, IsW(s), route \in Url
  PROVE  LET t == FollowLink(s) IN
         /\ IsW(t) /\ Same(s, t, {"asked", "open", "load", "side", "linked", "panel"})
         /\ s.panel = "loaded" => /\ t.panel = s.panel /\ t.asked /\ t.open
                                  /\ s.open => t.load = s.load /\ t.side = s.side
                                  /\ ~s.open => /\ Begun(t.load, route) /\ ~t.load.own /\ Beside(t.side, route)
         /\ s.panel # "loaded" => Same(s, t, {"linked", "panel"}) /\ t.panel # "loaded"
<1>1. CASE s.panel = "loaded"
  <2>r. PICK r : r = [s EXCEPT !.asked = TRUE]
    OBVIOUS
  <2>1. IsW(r) /\ Same(s, r, {"asked"}) /\ r.asked
    BY <2>r DEF IsW, Same, Fields
  <2>2. FollowLink(s) = Opened(r)
    BY <1>1, <2>r DEF FollowLink
  <2>3. r.open = s.open /\ r.load = s.load /\ r.side = s.side /\ r.panel = s.panel
    BY <2>1 DEF Same, Fields
  <2>4. LET t == FollowLink(s) IN
         /\ IsW(t) /\ Same(r, t, {"open", "load", "side"}) /\ t.open
         /\ r.open => t = r
         /\ ~r.open => /\ Begun(t.load, route) /\ ~t.load.own /\ Beside(t.side, route)
    BY <2>1, <2>2, OpenedFacts
  <2>5. LET t == FollowLink(s) IN
         Same(s, t, {"asked", "open", "load", "side", "linked", "panel"}) /\ t.panel = s.panel /\ t.asked
    BY <2>1, <2>3, <2>4 DEF Same, Fields
  <2>6. QED BY <1>1, <2>3, <2>4, <2>5
<1>2. CASE s.panel # "loaded"
  <2>r. PICK r : r = [s EXCEPT !.linked = s.panel # "failed"]
    OBVIOUS
  <2>1. IsW(r) /\ Same(s, r, {"linked"})
    <3>1. (s.panel # "failed") \in BOOLEAN
      OBVIOUS
    <3>2. QED BY <2>r, <3>1 DEF IsW, Same, Fields
  <2>2. FollowLink(s) = LoadPanel(r)
    BY <1>2, <2>r DEF FollowLink
  <2>3. r.panel = s.panel
    BY <2>1 DEF Same, Fields
  <2>4. LET t == FollowLink(s) IN IsW(t) /\ Same(r, t, {"panel"}) /\ t.panel # "loaded"
    BY <1>2, <2>1, <2>2, <2>3, LoadPanelFacts
  <2>5. QED BY <1>2, <2>1, <2>4 DEF Same, Fields
<1>3. QED BY <1>1, <1>2

\* A popup opens with a form of its own.
LEMMA NewFormFacts ==
  ASSUME NEW s, IsW(s), NEW f \in Form
  PROVE  LET t == NewForm(s, f) IN
         IsW(t) /\ HasForm(t) /\ Same(s, t, {"form", "pop", "shot"}) /\ t.form = f /\ t.pop = "typing"
BY DEF NewForm, IsW, Same, Fields, HasForm

\* The session ends, and the popup stays as it is.
LEMMA DeactivatedFacts ==
  ASSUME NEW s, IsW(s)
  PROVE  LET t == Deactivated(s) IN IsW(t) /\ Same(s, t, {"active", "instant"})
BY DEF Deactivated, IsW, Same, Fields

\* A popup that is dismissed is told as cancelled.
LEMMA DismissedFacts ==
  ASSUME NEW s, IsW(s)
  PROVE  LET t == Dismissed(s) IN
         /\ IsW(t) /\ HasForm(t) /\ Same(s, t, {"form", "pop", "told"}) /\ t.pop = "closed"
         /\ t.told = [s.told EXCEPT ![s.form] = "cancelled"]
<1>d. PICK d : d = [s.told EXCEPT ![s.form] = "cancelled"]
  OBVIOUS
<1>1. Dismissed(s) = [s EXCEPT !.pop = "closed", !.told = d, !.form = None]
  BY <1>d DEF Dismissed, IsW, Fields
<1>2. d \in [Form -> {"none", "sent", "cancelled"}]
  BY <1>d DEF IsW
<1>3. IsW(Dismissed(s))
  BY <1>1, <1>2 DEF IsW, Fields
<1>4. QED BY <1>d, <1>1, <1>3 DEF IsW, Same, Fields, HasForm

\* A popup that is complete waits, unless a submission is in the way.
LEMMA CompletedFacts ==
  ASSUME NEW s, IsW(s), s.form \in Form
  PROVE  LET t == Completed(s) IN
         /\ IsW(t) /\ HasForm(t) /\ Same(s, t, {"pop", "sub"})
         /\ s.sub # None => t.pop = "typing" /\ t.sub = s.sub
         /\ s.sub = None => t.pop = "waiting" /\ t.sub # None /\ t.sub.form = s.form /\ t.sub.stage = "identity"
<1>1. CASE s.sub # None
  BY <1>1 DEF Completed, IsW, Same, Fields, HasForm
<1>2. CASE s.sub = None
  <2>x. PICK x : x = [form |-> s.form, stage |-> "identity", url |-> None]
    OBVIOUS
  <2>1. Completed(s) = [s EXCEPT !.pop = "waiting", !.sub = x]
    BY <1>2, <2>x DEF Completed
  <2>2. x \in Sending
    BY <2>x DEF Sending
  <2>3. x # None /\ x.form = s.form /\ x.stage = "identity"
    BY <2>2, <2>x, WidgetAssumption
  <2>4. IsW(Completed(s))
    BY <2>1, <2>2 DEF IsW, Fields
  <2>5. Completed(s).sub = x /\ Completed(s).pop = "waiting" /\ Same(s, Completed(s), {"pop", "sub"})
    BY <2>1 DEF IsW, Same, Fields
  <2>6. HasForm(Completed(s))
    BY <2>5 DEF HasForm, Same, Fields
  <2>7. QED BY <1>2, <2>3, <2>4, <2>5, <2>6
<1>3. QED BY <1>1, <1>2

\* A widget torn down: nothing is in flight, nothing is shown.
Dead(s) ==
  /\ s.fetches = {} /\ s.load = None /\ s.side = None /\ s.sub = None
  /\ ~s.open /\ ~s.asked /\ ~s.pending /\ ~s.active /\ s.pop = "closed"
  /\ \A r \in Row : s.pins[r] = 0

\* A handle that is released tears the widget down when it was the last.
LEMMA ReleasedFacts ==
  ASSUME NEW s, IsW(s), HasForm(s), NEW h
  PROVE  LET t == Released(s, h) IN
         /\ IsW(t) /\ HasForm(t)
         /\ \/ Same(s, t, {"live", "refs"})
            \/ /\ Dead(t) /\ t.destroyed
               /\ Same(s, t, {"live", "refs", "destroyed", "fetches", "load", "side", "sub", "open", "pending", "asked",
                              "pop", "form", "active", "pins"})
<1>1. CASE h \notin s.live
  BY <1>1 DEF Released, Same
<1>2. CASE h \in s.live
  <2>r. PICK r : r = [s EXCEPT !.live = s.live \ {h}, !.refs = s.refs - 1]
    OBVIOUS
  <2>1. IsW(r) /\ HasForm(r) /\ Same(s, r, {"live", "refs"})
    BY <2>r DEF IsW, HasForm, Same, Fields
  <2>2. Released(s, h) = IF r.refs = 0 THEN TornDown(r) ELSE r
    BY <1>2, <2>r DEF Released
  <2>3. CASE r.refs # 0
    BY <2>1, <2>2, <2>3
  <2>4. CASE r.refs = 0
    <3>p. PICK p : p = [q \in Row |-> 0]
      OBVIOUS
    <3>t. PICK t : t = TornDown(r)
      OBVIOUS
    <3>1. t = [r EXCEPT !.destroyed = TRUE, !.fetches = {}, !.load = None, !.side = None, !.sub = None, !.open = FALSE,
                         !.pending = FALSE, !.asked = FALSE, !.pop = "closed", !.form = None, !.active = FALSE, !.pins = p]
      BY <3>p, <3>t DEF TornDown
    <3>2. p \in [Row -> Nat] /\ \A q \in Row : p[q] = 0
      BY <3>p
    <3>3. DOMAIN t = Fields /\ t.pins = p /\ t.form = None
      BY <2>1, <3>1 DEF IsW, Fields
    <3>4. /\ t.fetches = {} /\ t.load = None /\ t.side = None /\ t.sub = None
          /\ ~t.open /\ ~t.asked /\ ~t.pending /\ ~t.active /\ t.pop = "closed" /\ t.destroyed
      BY <2>1, <3>1 DEF IsW, Fields
    <3>5. Same(r, t, {"destroyed", "fetches", "load", "side", "sub", "open", "pending", "asked",
                      "pop", "form", "active", "pins"})
      BY <2>1, <3>1 DEF IsW, Fields, Same
    <3>b. {t.open, t.asked, t.pending, t.destroyed, t.active} \subseteq BOOLEAN
      BY <2>1, <3>1 DEF IsW, Fields
    <3>i. IsW(t)
      BY <2>1, <3>2, <3>3, <3>4, <3>5, <3>b DEF IsW, Same, Fields
    <3>6. Same(s, t, {"live", "refs", "destroyed", "fetches", "load", "side", "sub", "open", "pending", "asked",
                      "pop", "form", "active", "pins"})
      BY <2>1, <3>5 DEF Fields, Same
    <3>7. Dead(t) /\ HasForm(t)
      BY <3>2, <3>3, <3>4 DEF Dead, HasForm
    <3>8. QED BY <2>2, <2>4, <3>t, <3>i, <3>4, <3>6, <3>7
  <2>5. QED BY <2>3, <2>4
<1>3. QED BY <1>1, <1>2

(***************************************************************************)
(* What each action does.                                                  *)
(***************************************************************************)
\* The rows of a page are rows.
LEMMA VisibleRows == ASSUME NEW u PROVE Visible(u) \in SUBSET Row
BY DEF Visible

\* The kind of panel, and whether the page was reached by a link, is settled once.
LEMMA BudgetKept ==
  ASSUME "wide" \in DOMAIN budget, [Next]_vars
  PROVE  budget'.wide = budget.wide /\ "wide" \in DOMAIN budget'
<1>1. ASSUME NEW k \in Budgeted, Spend(k) PROVE budget'.wide = budget.wide /\ "wide" \in DOMAIN budget'
  BY <1>1 DEF Spend, Budgeted
<1>2. "navigations" \in Budgeted /\ "refreshes" \in Budgeted /\ "toggles" \in Budgeted
      /\ "loads" \in Budgeted /\ "failures" \in Budgeted /\ "destroys" \in Budgeted
  BY DEF Budgeted
<1>3. CASE \E k \in Budgeted : Spend(k)
  BY <1>1, <1>3
<1>4. CASE UNCHANGED budget
  BY <1>4
<1>5. (\E k \in Budgeted : Spend(k)) \/ UNCHANGED budget
  <2>1. CASE FailLoad \/ FailSide \/ Reload \/ PanelFails \/ ImportFails \/ Open \/ Close \/ Refresh
    BY <1>2, <2>1 DEF FailLoad, FailSide, Reload, PanelFails, ImportFails, Open, Close, Refresh
  <2>2. CASE (\E u \in Url : Navigate(u)) \/ (\E x \in w.fetches : FailFetch(x))
    BY <1>2, <2>2 DEF Navigate, FailFetch
  <2>3. CASE (\E queued \in BOOLEAN : FailSend(queued)) \/ \E h \in Handle : Launch(h) \/ Destroy(h)
    BY <1>2, <2>3 DEF FailSend, Launch, Destroy
  <2>4. CASE ServeLoad \/ CommitLoad \/ ServeSide \/ CommitSide \/ Prefetch \/ ImportPanel
    BY <2>4 DEF ServeLoad, CommitLoad, ServeSide, CommitSide, Prefetch, ImportPanel
  <2>5. CASE \E x \in w.fetches : ServeFetch(x) \/ ArriveFetch(x)
    BY <2>5 DEF ServeFetch, ArriveFetch
  <2>6. CASE \/ StartDrawing \/ Dismiss \/ CancelSession \/ Submit \/ Capture
             \/ \E f \in Form : FinishDrawing(f) \/ StartInstantAnnotation(f)
    BY <2>6 DEF StartDrawing, Dismiss, CancelSession, Submit, Capture, FinishDrawing, StartInstantAnnotation
  <2>7. CASE Identify \/ DismissIdentity \/ Land \/ Sent \/ EndRefresh
    BY <2>7 DEF Identify, DismissIdentity, Land, Sent, EndRefresh
  <2>8. CASE UNCHANGED vars
    BY <2>8 DEF vars
  <2>9. QED BY <2>1, <2>2, <2>3, <2>4, <2>5, <2>6, <2>7, <2>8 DEF Next
<1>6. QED BY <1>3, <1>4, <1>5

\* The server answers the panel's load, and the query beside it.
LEMMA ServeLoadFacts ==
  ASSUME TypeInv, ServeLoad
  PROVE  /\ IsW(w') /\ HasForm(w') /\ Same(w, w', {"load"})
         /\ w.load # None /\ w'.load # None /\ w'.load.url = w.load.url /\ w'.load.own = w.load.own
         /\ w'.load.read = Visible(w.load.url)
<1>x. PICK x : x = [w.load EXCEPT !.read = Visible(w.load.url)]
  OBVIOUS
<1>1. w' = [w EXCEPT !.load = x] /\ w.load # None
  BY <1>x DEF ServeLoad
<1>2. w.load \in Load
  BY <1>1 DEF TypeInv, IsW
<1>3. x \in Load /\ x.url = w.load.url /\ x.own = w.load.own /\ x.read = Visible(w.load.url)
  BY <1>2, <1>x, VisibleRows DEF Load
<1>4. x # None
  BY <1>3, WidgetAssumption
<1>5. QED BY <1>1, <1>3, <1>4 DEF TypeInv, IsW, HasForm, Same, Fields

\* The server answers the query of the markers beside the panel's load.
LEMMA ServeSideFacts ==
  ASSUME TypeInv, ServeSide
  PROVE  /\ IsW(w') /\ HasForm(w') /\ Same(w, w', {"side"})
         /\ w.side # None /\ w'.side # None /\ w'.side.url = w.side.url /\ w'.side.read = Visible(w.side.url)
<1>x. PICK x : x = [w.side EXCEPT !.read = Visible(w.side.url)]
  OBVIOUS
<1>1. w' = [w EXCEPT !.side = x] /\ w.side # None
  BY <1>x DEF ServeSide
<1>2. w.side \in Side
  BY <1>1 DEF TypeInv, IsW
<1>3. x \in Side /\ x.url = w.side.url /\ x.read = Visible(w.side.url)
  BY <1>2, <1>x, VisibleRows DEF Side
<1>4. x # None
  BY <1>3, WidgetAssumption
<1>5. QED BY <1>1, <1>3, <1>4 DEF TypeInv, IsW, HasForm, Same, Fields

\* A load that commits is drawn where the panel lists what the markers do.
LEMMA CommitLoadFacts ==
  ASSUME TypeInv, CommitLoad
  PROVE  /\ IsW(w') /\ HasForm(w') /\ Same(w, w', {"load", "sub", "pins", "shown", "failed", "crossed"})
         /\ w.load # None /\ w.load.read # None /\ w'.load = None
         /\ w'.sub = IF w.load.own THEN None ELSE w.sub
         /\ budget.wide => Same(w, w', {"load", "sub"})
         /\ ~budget.wide => /\ w'.pins = [r \in Row |-> IF r \in w.load.read THEN 1 ELSE 0]
                            /\ w'.shown = w.load.url /\ ~w'.failed
                            /\ w'.crossed <=> w.crossed \/ w.load.url # route
<1>r. PICK r : r = Refreshed(w)
  OBVIOUS
<1>1. w.load # None /\ w.load.read # None /\ w' = IF budget.wide THEN r ELSE RenderPage(r, w.load)
  BY <1>r DEF CommitLoad
<1>2. w.load.url \in Url
  BY <1>1 DEF TypeInv, IsW, Load
<1>3. IsW(r) /\ Same(w, r, {"load", "sub"}) /\ r.load = None /\ r.sub = IF w.load.own THEN None ELSE w.sub
  BY <1>r, <1>1, RefreshedFacts DEF TypeInv
<1>4. CASE budget.wide
  <2>1. w' = r
    BY <1>1, <1>4
  <2>2. HasForm(r) /\ Same(w, r, {"load", "sub", "pins", "shown", "failed", "crossed"})
    BY <1>3 DEF TypeInv, HasForm, Same, Fields
  <2>3. QED BY <1>1, <1>3, <1>4, <2>1, <2>2
<1>5. CASE ~budget.wide
  <2>1. w' = RenderPage(r, w.load)
    BY <1>1, <1>5
  <2>2. /\ IsW(w') /\ Same(r, w', {"pins", "shown", "failed", "crossed"})
        /\ w'.pins = [o \in Row |-> IF o \in w.load.read THEN 1 ELSE 0] /\ w'.shown = w.load.url /\ ~w'.failed
        /\ w'.crossed <=> r.crossed \/ w.load.url # route
    BY <1>2, <1>3, <2>1, RenderPageFacts
  <2>3. Same(w, w', {"load", "sub", "pins", "shown", "failed", "crossed"}) /\ r.crossed = w.crossed
    BY <1>3, <2>2 DEF Same, Fields
  <2>4. HasForm(w')
    BY <2>3 DEF TypeInv, HasForm, Same, Fields
  <2>5. w'.load = None /\ w'.sub = r.sub
    BY <1>3, <2>2 DEF Same, Fields
  <2>6. QED BY <1>1, <1>3, <1>5, <2>2, <2>3, <2>4, <2>5
<1>6. QED BY <1>4, <1>5

\* A query of the markers that commits is drawn.
LEMMA CommitSideFacts ==
  ASSUME TypeInv, CommitSide
  PROVE  /\ IsW(w') /\ HasForm(w') /\ Same(w, w', {"side", "pins", "shown", "failed", "crossed"})
         /\ w.side # None /\ w.side.read # None /\ w'.side = None
         /\ w'.pins = [r \in Row |-> IF r \in w.side.read THEN 1 ELSE 0]
         /\ w'.shown = w.side.url /\ ~w'.failed
         /\ w'.crossed <=> w.crossed \/ w.side.url # route
<1>r. PICK r : r = [w EXCEPT !.side = None]
  OBVIOUS
<1>1. w.side # None /\ w.side.read # None /\ w' = RenderPage(r, w.side)
  BY <1>r DEF CommitSide
<1>2. w.side.url \in Url
  BY <1>1 DEF TypeInv, IsW, Side
<1>3. IsW(r) /\ Same(w, r, {"side"}) /\ r.side = None
  BY <1>r DEF TypeInv, IsW, Same, Fields
<1>4. /\ IsW(w') /\ Same(r, w', {"pins", "shown", "failed", "crossed"})
      /\ w'.pins = [o \in Row |-> IF o \in w.side.read THEN 1 ELSE 0] /\ w'.shown = w.side.url /\ ~w'.failed
      /\ w'.crossed <=> r.crossed \/ w.side.url # route
  BY <1>1, <1>2, <1>3, RenderPageFacts
<1>5. Same(w, w', {"side", "pins", "shown", "failed", "crossed"}) /\ r.crossed = w.crossed /\ w'.side = None
  BY <1>3, <1>4 DEF Same, Fields
<1>6. HasForm(w')
  BY <1>5 DEF TypeInv, HasForm, Same, Fields
<1>7. QED BY <1>1, <1>4, <1>5, <1>6

\* A load that fails tells whoever waits.
LEMMA FailLoadFacts ==
  ASSUME TypeInv, FailLoad
  PROVE  /\ IsW(w') /\ HasForm(w') /\ Same(w, w', {"load", "sub", "failed", "pop"})
         /\ w.load # None /\ w'.load = None /\ w'.failed
         /\ w'.sub = IF w.load.own THEN None ELSE w.sub
         /\ w'.pop = IF w.pop = "waiting" THEN "typing" ELSE w.pop
<1>r. PICK r : r = Refreshed(w)
  OBVIOUS
<1>s. PICK s : s = [r EXCEPT !.failed = TRUE]
  OBVIOUS
<1>1. w.load # None /\ w' = Settled(s, FALSE)
  BY <1>r, <1>s DEF FailLoad
<1>2. IsW(r) /\ Same(w, r, {"load", "sub"}) /\ r.load = None /\ r.sub = IF w.load.own THEN None ELSE w.sub
  BY <1>r, <1>1, RefreshedFacts DEF TypeInv
<1>3. IsW(s) /\ Same(r, s, {"failed"}) /\ s.failed
  BY <1>s, <1>2 DEF IsW, Same, Fields
<1>4. Same(w, s, {"load", "sub", "failed"}) /\ s.load = None /\ s.sub = r.sub /\ s.pop = w.pop /\ s.form = w.form
  BY <1>2, <1>3 DEF Same, Fields
<1>5. HasForm(s)
  BY <1>4 DEF TypeInv, HasForm
<1>6. /\ IsW(w') /\ HasForm(w')
      /\ s.pop # "waiting" => w' = s
      /\ s.pop = "waiting" => w'.pop = "typing" /\ Same(s, w', {"pop"})
  BY <1>1, <1>3, <1>5, SettledFacts
<1>7. Same(s, w', {"pop"}) /\ w'.pop = IF w.pop = "waiting" THEN "typing" ELSE w.pop
  BY <1>4, <1>6 DEF Same
<1>8. Same(w, w', {"load", "sub", "failed", "pop"}) /\ w'.load = None /\ w'.sub = r.sub /\ w'.failed = s.failed
  BY <1>4, <1>7 DEF Same, Fields
<1>9. QED BY <1>1, <1>2, <1>3, <1>6, <1>7, <1>8

\* The query of the markers fails.
LEMMA FailSideFacts ==
  ASSUME TypeInv, FailSide
  PROVE  IsW(w') /\ HasForm(w') /\ Same(w, w', {"side", "failed"}) /\ w'.side = None /\ w'.failed
BY DEF FailSide, TypeInv, IsW, HasForm, Same, Fields

\* A filter, the search or a retry loads again.
LEMMA ReloadFacts ==
  ASSUME TypeInv, Reload
  PROVE  /\ IsW(w') /\ HasForm(w') /\ Same(w, w', {"load", "side"})
         /\ Begun(w'.load, route) /\ ~w'.load.own /\ Beside(w'.side, route)
<1>1. w' = LoadFeedbacks(w, route, FALSE)
  BY DEF Reload
<1>2. /\ IsW(w') /\ Same(w, w', {"load", "side"})
      /\ Begun(w'.load, route) /\ ~w'.load.own /\ Beside(w'.side, route)
  BY <1>1, LoadFacts DEF TypeInv
<1>3. QED BY <1>2 DEF TypeInv, HasForm, Same, Fields

\* Whatever else the panel fails to do lets a popup that waits be typed in again.
LEMMA PanelFailsFacts ==
  ASSUME TypeInv, PanelFails
  PROVE  /\ IsW(w') /\ HasForm(w') /\ Same(w, w', {"pop"})
         /\ w'.pop = IF w.pop = "waiting" THEN "typing" ELSE w.pop
<1>1. w' = Settled(w, FALSE)
  BY DEF PanelFails
<1>2. /\ IsW(w') /\ HasForm(w')
      /\ w.pop # "waiting" => w' = w
      /\ w.pop = "waiting" => w'.pop = "typing" /\ Same(w, w', {"pop"})
  BY <1>1, SettledFacts DEF TypeInv
<1>3. QED BY <1>2 DEF Same

\* The chunk is asked for, and arrives: the panel opens if it was to.
LEMMA PrefetchFacts ==
  ASSUME TypeInv, Prefetch
  PROVE  IsW(w') /\ HasForm(w') /\ Same(w, w', {"panel"}) /\ w.panel # "loaded" /\ w'.panel # "loaded"
<1>1. w' = LoadPanel(w) /\ w.panel = "absent"
  BY DEF Prefetch
<1>2. IsW(w') /\ Same(w, w', {"panel"}) /\ w'.panel = "importing"
  BY <1>1, LoadPanelFacts DEF TypeInv
<1>3. QED BY <1>1, <1>2 DEF TypeInv, HasForm, Same, Fields

\* The chunk arrives, and the panel opens when an opening or the link waits for it.
LEMMA ImportPanelFacts ==
  ASSUME TypeInv, ImportPanel
  PROVE  /\ IsW(w') /\ HasForm(w') /\ Same(w, w', {"panel", "pending", "linked", "asked", "open", "load", "side"})
         /\ ~w.destroyed /\ w.panel = "importing" /\ w'.panel = "loaded"
         /\ w'.asked = (w.asked \/ w.linked)
         /\ w.pending \/ w.linked => w'.open
         /\ ~w.pending /\ ~w.linked => w'.open = w.open
         /\ \/ w'.open = w.open /\ w'.load = w.load /\ w'.side = w.side
            \/ Begun(w'.load, route) /\ ~w'.load.own /\ Beside(w'.side, route)
<1>s. PICK s : s = [w EXCEPT !.panel = "loaded", !.pending = FALSE, !.linked = FALSE, !.asked = w.asked \/ w.linked]
  OBVIOUS
<1>1. /\ w.panel = "importing" /\ ~w.destroyed
      /\ w' = IF w.pending \/ w.linked THEN Opened(s) ELSE s
  BY <1>s DEF ImportPanel
<1>2. /\ IsW(s) /\ Same(w, s, {"panel", "pending", "linked", "asked"}) /\ s.asked = (w.asked \/ w.linked)
      /\ s.panel = "loaded"
  <2>1. (w.asked \/ w.linked) \in BOOLEAN
    OBVIOUS
  <2>2. IsW(s)
    BY <1>s, <2>1 DEF TypeInv, IsW, Fields
  <2>3. QED BY <1>s, <2>1, <2>2 DEF IsW, Same, Fields
<1>3. CASE w.pending \/ w.linked
  <2>1. w' = Opened(s)
    BY <1>1, <1>3
  <2>2. /\ IsW(w') /\ Same(s, w', {"open", "load", "side"}) /\ w'.open
        /\ s.open => w' = s
        /\ ~s.open => Begun(w'.load, route) /\ ~w'.load.own /\ Beside(w'.side, route)
    BY <1>2, <2>1, OpenedFacts DEF TypeInv
  <2>3. Same(w, w', {"panel", "pending", "linked", "asked", "open", "load", "side"}) /\ w'.asked = s.asked
        /\ w'.panel = s.panel
    BY <1>2, <2>2 DEF Same, Fields
  <2>4. HasForm(w')
    BY <2>3 DEF TypeInv, HasForm, Same, Fields
  <2>5. s.open => w'.open = w.open /\ w'.load = w.load /\ w'.side = w.side
    BY <1>2, <2>2 DEF Same, Fields
  <2>6. QED BY <1>1, <1>2, <1>3, <2>2, <2>3, <2>4, <2>5
<1>4. CASE ~w.pending /\ ~w.linked
  <2>1. w' = s
    BY <1>1, <1>4
  <2>2. HasForm(w') /\ w'.open = w.open /\ w'.load = w.load /\ w'.side = w.side
    BY <1>2, <2>1 DEF TypeInv, HasForm, Same, Fields
  <2>3. Same(w, w', {"panel", "pending", "linked", "asked", "open", "load", "side"})
    BY <1>2, <2>1 DEF Same, Fields
  <2>4. QED BY <1>1, <1>2, <1>4, <2>1, <2>2, <2>3
<1>5. QED BY <1>3, <1>4

\* The chunk never arrives.
LEMMA ImportFailsFacts ==
  ASSUME TypeInv, ImportFails
  PROVE  IsW(w') /\ HasForm(w') /\ Same(w, w', {"panel", "linked"}) /\ w.panel # "loaded" /\ w'.panel # "loaded"
BY DEF ImportFails, TypeInv, IsW, HasForm, Same, Fields

\* The host opens the panel, or has its chunk loaded to open it.
LEMMA OpenFacts ==
  ASSUME TypeInv, Open
  PROVE  /\ IsW(w') /\ HasForm(w') /\ w'.asked /\ ~w.destroyed
         /\ w.panel = "loaded" => /\ Same(w, w', {"asked", "open", "load", "side"}) /\ w'.open
                                  /\ \/ w'.open = w.open /\ w'.load = w.load /\ w'.side = w.side
                                     \/ Begun(w'.load, route) /\ ~w'.load.own /\ Beside(w'.side, route)
         /\ w.panel # "loaded" => Same(w, w', {"asked", "pending", "panel"}) /\ w'.pending /\ w'.panel # "loaded"
<1>s. PICK s : s = [w EXCEPT !.asked = TRUE]
  OBVIOUS
<1>p. PICK p : p = [s EXCEPT !.pending = TRUE]
  OBVIOUS
<1>1. w' = (IF w.panel = "loaded" THEN Opened(s) ELSE LoadPanel(p)) /\ ~w.destroyed
  BY <1>s, <1>p DEF Open, Spend
<1>2. IsW(s) /\ Same(w, s, {"asked"}) /\ s.asked
  BY <1>s DEF TypeInv, IsW, Same, Fields
<1>3. IsW(p) /\ Same(s, p, {"pending"}) /\ p.pending
  BY <1>p, <1>2 DEF IsW, Same, Fields
<1>4. CASE w.panel = "loaded"
  <2>1. w' = Opened(s)
    BY <1>1, <1>4
  <2>2. /\ IsW(w') /\ Same(s, w', {"open", "load", "side"}) /\ w'.open
        /\ s.open => w' = s
        /\ ~s.open => Begun(w'.load, route) /\ ~w'.load.own /\ Beside(w'.side, route)
    BY <1>2, <2>1, OpenedFacts DEF TypeInv
  <2>3. Same(w, w', {"asked", "open", "load", "side"}) /\ w'.asked = s.asked
    BY <1>2, <2>2 DEF Same, Fields
  <2>4. HasForm(w')
    BY <2>3 DEF TypeInv, HasForm, Same, Fields
  <2>5. s.open => w'.open = w.open /\ w'.load = w.load /\ w'.side = w.side
    BY <1>2, <2>2 DEF Same, Fields
  <2>6. QED BY <1>1, <1>2, <1>4, <2>2, <2>3, <2>4, <2>5
<1>5. CASE w.panel # "loaded"
  <2>1. w' = LoadPanel(p)
    BY <1>1, <1>5
  <2>2. IsW(w') /\ Same(p, w', {"panel"}) /\ w'.panel = IF p.panel = "absent" THEN "importing" ELSE p.panel
    BY <1>3, <2>1, LoadPanelFacts
  <2>3. Same(w, w', {"asked", "pending", "panel"}) /\ w'.pending = p.pending /\ w'.asked = s.asked /\ p.panel = w.panel
    BY <1>2, <1>3, <2>2 DEF Same, Fields
  <2>4. HasForm(w')
    BY <2>3 DEF TypeInv, HasForm, Same, Fields
  <2>5. QED BY <1>1, <1>2, <1>3, <1>5, <2>2, <2>3, <2>4
<1>6. QED BY <1>4, <1>5

\* The host closes the panel, or calls off the opening that waits for the chunk.
LEMMA CloseFacts ==
  ASSUME TypeInv, Close
  PROVE  /\ IsW(w') /\ HasForm(w') /\ Same(w, w', {"open", "asked", "pending"}) /\ ~w'.asked
         /\ w.panel = "loaded" => ~w'.open
         /\ w.panel # "loaded" => ~w'.pending /\ w'.open = w.open
<1>1. w' = Closed(w)
  BY DEF Close
<1>2. CASE w.panel = "loaded"
  BY <1>1, <1>2 DEF Closed, TypeInv, IsW, HasForm, Same, Fields
<1>3. CASE w.panel # "loaded"
  BY <1>1, <1>3 DEF Closed, TypeInv, IsW, HasForm, Same, Fields
<1>4. QED BY <1>2, <1>3

\* What a refresh and a navigation ask for.
Asked(s, t, u) ==
  /\ Same(s, t, {"gen", "load", "side", "fetches", "lastKey"}) /\ t.gen = s.gen + 1
  /\ s.open => t.fetches = s.fetches /\ Begun(t.load, u) /\ ~t.load.own /\ Beside(t.side, u)
  /\ ~s.open => /\ \E x \in Fetch : t.fetches = s.fetches \cup {x} /\ x.n = s.gen + 1 /\ x.url = u /\ x.read = None
                /\ t.load = s.load /\ t.side = s.side

\* A refresh asks for the page's markers.
LEMMA AskedFacts ==
  ASSUME NEW s, IsW(s), NEW u \in Url, NEW prev \in Url \cup {None}
  PROVE  LET t == DoRefresh(s, u, prev) IN IsW(t) /\ Asked(s, t, u) /\ t.lastKey = s.lastKey
<1>t. PICK t : t = DoRefresh(s, u, prev)
  OBVIOUS
<1>x. PICK x : x = [n |-> s.gen + 1, url |-> u, prev |-> prev, read |-> None]
  OBVIOUS
<1>1. /\ IsW(t) /\ Same(s, t, {"gen", "load", "side", "fetches"}) /\ t.gen = s.gen + 1
      /\ s.open => t.fetches = s.fetches /\ Begun(t.load, u) /\ ~t.load.own /\ Beside(t.side, u)
      /\ ~s.open => t.fetches = s.fetches \cup {x} /\ t.load = s.load /\ t.side = s.side
  BY <1>t, <1>x, RefreshFacts
<1>2. x \in Fetch /\ x.n = s.gen + 1 /\ x.url = u /\ x.read = None
  BY <1>x DEF Fetch, IsW
<1>3. Same(s, t, {"gen", "load", "side", "fetches", "lastKey"}) /\ t.lastKey = s.lastKey
  BY <1>1 DEF Same, Fields
<1>4. QED BY <1>t, <1>1, <1>2, <1>3 DEF Asked

\* The host refreshes.
LEMMA RefreshFactsOfHost ==
  ASSUME TypeInv, Refresh
  PROVE  IsW(w') /\ HasForm(w') /\ Asked(w, w', route) /\ w'.lastKey = w.lastKey
<1>1. w' = DoRefresh(w, route, None)
  BY DEF Refresh
<1>2. IsW(w') /\ Asked(w, w', route) /\ w'.lastKey = w.lastKey
  BY <1>1, AskedFacts DEF TypeInv
<1>3. QED BY <1>2 DEF TypeInv, HasForm, Same, Fields, Asked

\* A navigation asks for the markers of its page, unless it is the one last asked for.
LEMMA NavigateFacts ==
  ASSUME TypeInv, NEW u \in Url, Navigate(u)
  PROVE  /\ IsW(w') /\ HasForm(w') /\ route' = u /\ u # route /\ ~w.destroyed
         /\ u = w.lastKey => /\ Same(w, w', {"crossed"})
                             /\ w'.crossed <=> w.crossed \/ w.shown # u \/ \E x \in w.fetches : x.n = w.gen /\ x.url # u
         /\ u # w.lastKey => Asked(w, w', u)
<1>0. route' = u /\ u # route /\ ~w.destroyed
  BY DEF Navigate, Spend
<1>1. CASE u = w.lastKey
  <2>c. PICK c : c = (w.crossed \/ w.shown # u \/ \E x \in w.fetches : x.n = w.gen /\ x.url # u)
    OBVIOUS
  <2>1. w' = [w EXCEPT !.crossed = c] /\ c \in BOOLEAN
    BY <1>1, <2>c DEF Navigate, TypeInv, IsW, Fields
  <2>2. IsW(w') /\ HasForm(w') /\ Same(w, w', {"crossed"}) /\ w'.crossed = c
    BY <2>1 DEF TypeInv, IsW, HasForm, Same, Fields
  <2>3. w'.crossed <=> w.crossed \/ w.shown # u \/ \E x \in w.fetches : x.n = w.gen /\ x.url # u
    BY <2>c, <2>2
  <2>4. QED BY <1>0, <1>1, <2>2, <2>3
<1>2. CASE u # w.lastKey
  <2>s. PICK s : s = [w EXCEPT !.lastKey = u]
    OBVIOUS
  <2>1. w' = DoRefresh(s, u, w.lastKey)
    BY <1>2, <2>s DEF Navigate
  <2>2. IsW(s) /\ Same(w, s, {"lastKey"}) /\ w.lastKey \in Url
    BY <2>s DEF TypeInv, IsW, Same, Fields
  <2>3. IsW(w') /\ Asked(s, w', u)
    BY <2>1, <2>2, AskedFacts
  <2>4. /\ s.gen = w.gen /\ s.open = w.open /\ s.fetches = w.fetches /\ s.load = w.load /\ s.side = w.side
    BY <2>2 DEF Same, Fields
  <2>5. Same(w, w', {"gen", "load", "side", "fetches", "lastKey"})
    BY <2>2, <2>3 DEF Same, Fields, Asked
  <2>6. Asked(w, w', u) /\ HasForm(w')
    BY <2>3, <2>4, <2>5 DEF Asked, TypeInv, HasForm, Same, Fields
  <2>7. QED BY <1>0, <1>2, <2>3, <2>6
<1>3. QED BY <1>1, <1>2

\* The server answers a fetch of markers.
LEMMA ServeFetchFacts ==
  ASSUME TypeInv, NEW x \in w.fetches, ServeFetch(x)
  PROVE  /\ IsW(w') /\ HasForm(w') /\ Same(w, w', {"fetches"})
         /\ \E y \in Fetch : /\ w'.fetches = (w.fetches \ {x}) \cup {y}
                             /\ y.n = x.n /\ y.url = x.url /\ y.read = Visible(x.url)
<1>y. PICK y : y = [x EXCEPT !.read = Visible(x.url)]
  OBVIOUS
<1>1. w' = [w EXCEPT !.fetches = (w.fetches \ {x}) \cup {y}]
  BY <1>y DEF ServeFetch, TypeInv, IsW, Fields
<1>2. x \in Fetch
  BY DEF TypeInv, IsW
<1>3. y \in Fetch /\ y.n = x.n /\ y.url = x.url /\ y.read = Visible(x.url)
  BY <1>2, <1>y, VisibleRows DEF Fetch
<1>4. IsW(w') /\ HasForm(w') /\ Same(w, w', {"fetches"}) /\ w'.fetches = (w.fetches \ {x}) \cup {y}
  BY <1>1, <1>3 DEF TypeInv, IsW, HasForm, Same, Fields
<1>5. QED BY <1>3, <1>4

\* What following a link may change.
LinkFields == {"asked", "open", "load", "side", "linked", "panel"}

\* An answer that is not the latest is dropped; the latest is drawn, and may open the panel.
LEMMA ArriveFetchFacts ==
  ASSUME TypeInv, NEW x \in w.fetches, ArriveFetch(x)
  PROVE  /\ IsW(w') /\ HasForm(w') /\ x.read # None /\ w'.fetches = w.fetches \ {x}
         /\ ~Latest(x) => Same(w, w', {"fetches"})
         /\ Latest(x) => /\ Same(w, w', {"fetches", "pins", "shown", "failed"} \cup LinkFields)
                         /\ w'.pins = [r \in Row |-> IF r \in x.read THEN 1 ELSE 0] /\ w'.shown = x.url /\ ~w'.failed
                         /\ \/ w'.open = w.open /\ w'.load = w.load /\ w'.side = w.side
                            \/ ~w.open /\ w'.open /\ Begun(w'.load, route) /\ ~w'.load.own /\ Beside(w'.side, route)
                         /\ w.panel = "loaded" => \/ Same(w, w', {"fetches", "pins", "shown", "failed"})
                                                  \/ w'.panel = w.panel /\ w'.asked /\ w'.open
                         /\ w.panel # "loaded" => /\ Same(w, w', {"fetches", "pins", "shown", "failed", "linked", "panel"})
                                                  /\ w'.panel # "loaded"
<1>s. PICK s : s = [w EXCEPT !.fetches = w.fetches \ {x}]
  OBVIOUS
<1>r. PICK r : r = Render(s, x.read, x.url)
  OBVIOUS
<1>1. /\ x.read # None
      /\ w' = IF ~Latest(x) THEN s ELSE IF x.n = 1 /\ budget.link /\ x.read # {} THEN FollowLink(r) ELSE r
  BY <1>s, <1>r DEF ArriveFetch, TypeInv, IsW, Fields
<1>2. IsW(s) /\ Same(w, s, {"fetches"}) /\ s.fetches = w.fetches \ {x}
  BY <1>s DEF TypeInv, IsW, Same, Fields
<1>3. CASE ~Latest(x)
  <2>1. w' = s
    BY <1>1, <1>3
  <2>2. HasForm(w')
    BY <1>2, <2>1 DEF TypeInv, HasForm, Same, Fields
  <2>3. QED BY <1>1, <1>2, <1>3, <2>1, <2>2
<1>4. CASE Latest(x)
  <2>1. x.url \in Url
    BY DEF TypeInv, IsW, Fetch
  <2>2. /\ IsW(r) /\ Same(s, r, {"pins", "shown", "failed"})
        /\ r.pins = [q \in Row |-> IF q \in x.read THEN 1 ELSE 0] /\ r.shown = x.url /\ ~r.failed
    BY <1>2, <1>r, <2>1, RenderFacts
  <2>3. Same(w, r, {"fetches", "pins", "shown", "failed"}) /\ r.fetches = w.fetches \ {x}
    BY <1>2, <2>2 DEF Same, Fields
  <2>4. r.panel = w.panel /\ r.form = w.form /\ r.pop = w.pop
    BY <2>3 DEF Same, Fields
  <2>5. CASE w' = r
    <3>1. Same(w, w', {"fetches", "pins", "shown", "failed"} \cup LinkFields)
      BY <2>3, <2>5 DEF Same, Fields, LinkFields
    <3>2. Same(w, w', {"fetches", "pins", "shown", "failed", "linked", "panel"})
      BY <2>3, <2>5 DEF Same, Fields
    <3>3. HasForm(w')
      BY <2>4, <2>5 DEF TypeInv, HasForm
    <3>4. w'.open = w.open /\ w'.load = w.load /\ w'.side = w.side
      BY <2>3, <2>5 DEF Same, Fields
    <3>5. QED BY <1>1, <1>4, <2>2, <2>3, <2>4, <2>5, <3>1, <3>2, <3>3, <3>4
  <2>6. CASE w' = FollowLink(r)
    <3>1. /\ IsW(w') /\ Same(r, w', {"asked", "open", "load", "side", "linked", "panel"})
          /\ r.panel = "loaded" => /\ w'.panel = r.panel /\ w'.asked /\ w'.open
                                   /\ r.open => w'.load = r.load /\ w'.side = r.side
                                   /\ ~r.open => Begun(w'.load, route) /\ ~w'.load.own /\ Beside(w'.side, route)
          /\ r.panel # "loaded" => Same(r, w', {"linked", "panel"}) /\ w'.panel # "loaded"
      BY <2>2, <2>6, LinkFacts DEF TypeInv
    <3>2. Same(w, w', {"fetches", "pins", "shown", "failed"} \cup LinkFields)
      BY <2>3, <3>1 DEF Same, Fields, LinkFields
    <3>3. w.panel # "loaded" => Same(w, w', {"fetches", "pins", "shown", "failed", "linked", "panel"})
      BY <2>3, <2>4, <3>1 DEF Same, Fields
    <3>4. w'.fetches = w.fetches \ {x} /\ w'.pins = r.pins /\ w'.shown = r.shown /\ w'.failed = r.failed
      BY <2>3, <3>1 DEF Same, Fields
    <3>5. HasForm(w')
      BY <3>2 DEF TypeInv, HasForm, Same, Fields, LinkFields
    <3>6. r.open = w.open /\ r.load = w.load /\ r.side = w.side
      BY <2>3 DEF Same, Fields
    <3>7. \/ w'.open = w.open /\ w'.load = w.load /\ w'.side = w.side
          \/ ~w.open /\ w'.open /\ Begun(w'.load, route) /\ ~w'.load.own /\ Beside(w'.side, route)
      <4>1. CASE w.panel = "loaded"
        <5>1. w.open \in BOOLEAN /\ w'.open \in BOOLEAN
          BY <3>1 DEF TypeInv, IsW
        <5>2. QED BY <2>4, <3>1, <3>6, <4>1, <5>1
      <4>2. CASE w.panel # "loaded"
        BY <3>3, <4>2 DEF Same, Fields
      <4>3. QED BY <4>1, <4>2
    <3>8. QED BY <1>1, <1>4, <2>2, <2>4, <3>1, <3>2, <3>3, <3>4, <3>5, <3>7
  <2>7. QED BY <1>1, <1>4, <2>5, <2>6
<1>5. QED BY <1>3, <1>4

\* A fetch that fails is forgotten, and with it the navigation it was for.
LEMMA FailFetchFacts ==
  ASSUME TypeInv, NEW x \in w.fetches, FailFetch(x)
  PROVE  /\ IsW(w') /\ HasForm(w') /\ Same(w, w', {"fetches", "failed", "lastKey"})
         /\ w'.fetches = w.fetches \ {x}
         /\ w'.failed <=> w.failed \/ x.n = w.gen
<1>f. PICK f : f = (w.failed \/ x.n = w.gen)
  OBVIOUS
<1>k. PICK k : k = IF x.prev # None /\ w.lastKey = x.url THEN x.prev ELSE w.lastKey
  OBVIOUS
<1>1. w' = [w EXCEPT !.fetches = w.fetches \ {x}, !.failed = f, !.lastKey = k]
  BY <1>f, <1>k DEF FailFetch, TypeInv, IsW, Fields
<1>2. f \in BOOLEAN /\ k \in Url
  BY <1>f, <1>k DEF TypeInv, IsW, Fetch
<1>3. IsW(w') /\ HasForm(w') /\ Same(w, w', {"fetches", "failed", "lastKey"}) /\ w'.fetches = w.fetches \ {x} /\ w'.failed = f
  <2>1. IsW(w')
    BY <1>1, <1>2 DEF TypeInv, IsW, Fields
  <2>2. Same(w, w', {"fetches", "failed", "lastKey"}) /\ w'.fetches = w.fetches \ {x} /\ w'.failed = f
    BY <1>1 DEF TypeInv, IsW, Same, Fields
  <2>3. QED BY <2>1, <2>2 DEF TypeInv, HasForm, Same, Fields
<1>4. w'.failed <=> w.failed \/ x.n = w.gen
  BY <1>f, <1>3
<1>5. QED BY <1>3, <1>4

(***************************************************************************)
(* The session: nothing of it is on a pin or in the panel.                 *)
(***************************************************************************)
\* A popup opens, after a drawing or at once.
LEMMA StartFacts ==
  ASSUME TypeInv, NEW f \in Form, FinishDrawing(f) \/ StartInstantAnnotation(f)
  PROVE  /\ IsW(w') /\ HasForm(w') /\ Same(w, w', {"active", "instant", "form", "pop", "shot"})
         /\ w'.active /\ w'.pop = "typing" /\ (w.active \/ ~w.destroyed)
<1>1. CASE FinishDrawing(f)
  <2>1. w' = NewForm(w, f) /\ w.active
    BY <1>1 DEF FinishDrawing
  <2>2. IsW(w') /\ HasForm(w') /\ Same(w, w', {"form", "pop", "shot"}) /\ w'.pop = "typing"
    BY <2>1, NewFormFacts DEF TypeInv
  <2>3. QED BY <2>1, <2>2 DEF Same, Fields
<1>2. CASE StartInstantAnnotation(f)
  <2>s. PICK s : s = [w EXCEPT !.active = TRUE, !.instant = TRUE]
    OBVIOUS
  <2>1. w' = NewForm(s, f) /\ ~w.destroyed
    BY <1>2, <2>s DEF StartInstantAnnotation
  <2>2. IsW(s) /\ Same(w, s, {"active", "instant"}) /\ s.active
    <3>1. IsW(s)
      BY <2>s DEF TypeInv, IsW, Fields
    <3>2. QED BY <2>s, <3>1 DEF IsW, Same, Fields
  <2>3. IsW(w') /\ HasForm(w') /\ Same(s, w', {"form", "pop", "shot"}) /\ w'.pop = "typing"
    BY <2>1, <2>2, NewFormFacts
  <2>4. QED BY <2>1, <2>2, <2>3 DEF Same, Fields
<1>3. QED BY <1>1, <1>2

\* A session begins with a drawing.
LEMMA StartDrawingFacts ==
  ASSUME TypeInv, StartDrawing
  PROVE  IsW(w') /\ HasForm(w') /\ Same(w, w', {"active"}) /\ w'.active /\ ~w.destroyed
BY DEF StartDrawing, TypeInv, IsW, HasForm, Same, Fields

\* The popup, or its session, is cancelled.
LEMMA DismissFacts ==
  ASSUME TypeInv, Dismiss \/ CancelSession
  PROVE  /\ IsW(w') /\ HasForm(w') /\ Same(w, w', {"active", "instant", "form", "pop", "told"})
         /\ w'.pop = "closed"
         /\ w'.told \in {w.told, [w.told EXCEPT ![w.form] = "cancelled"]}
         /\ ~w.active => ~w'.active
<1>d. PICK d : d = Dismissed(w)
  OBVIOUS
<1>a. PICK a : a = IF w.pop = "typing" THEN d ELSE w
  OBVIOUS
<1>1. /\ IsW(d) /\ HasForm(d) /\ Same(w, d, {"form", "pop", "told"}) /\ d.pop = "closed"
      /\ d.told = [w.told EXCEPT ![w.form] = "cancelled"]
  BY <1>d, DismissedFacts DEF TypeInv
<1>2. d.active = w.active
  BY <1>1 DEF Same, Fields
<1>3. \/ w' = d
      \/ a.pop = "closed" /\ w' = Deactivated(a)
  BY <1>d, <1>a, <1>1 DEF Dismiss, CancelSession
<1>4. /\ IsW(a) /\ HasForm(a) /\ Same(w, a, {"form", "pop", "told"})
      /\ a.told \in {w.told, [w.told EXCEPT ![w.form] = "cancelled"]}
  BY <1>1, <1>a DEF TypeInv, Same
<1>5. CASE w' = d
  <2>1. Same(w, w', {"active", "instant", "form", "pop", "told"})
    BY <1>1, <1>5 DEF Same, Fields
  <2>2. QED BY <1>1, <1>2, <1>5, <2>1
<1>6. CASE a.pop = "closed" /\ w' = Deactivated(a)
  <2>1. IsW(w') /\ Same(a, w', {"active", "instant"})
    BY <1>4, <1>6, DeactivatedFacts
  <2>2. Same(w, w', {"active", "instant", "form", "pop", "told"}) /\ w'.pop = a.pop /\ w'.told = a.told
    BY <1>4, <2>1 DEF Same, Fields
  <2>3. ~w'.active
    BY <1>4, <1>6 DEF Deactivated, IsW, Fields
  <2>4. HasForm(w')
    BY <1>6, <2>2 DEF HasForm
  <2>5. QED BY <1>4, <1>6, <2>1, <2>2, <2>3, <2>4
<1>7. QED BY <1>3, <1>5, <1>6

\* The popup submits, at once or after the capture.
Submitted(s, t) ==
  \/ t.pop = "capturing" /\ t.sub = s.sub
  \/ t.pop = "typing" /\ t.sub = s.sub /\ s.sub # None
  \/ t.pop = "waiting" /\ s.sub = None /\ t.sub # None /\ t.sub.form = s.form /\ t.sub.stage = "identity"

\* The popup submits, or captures the page first.
LEMMA SubmitFacts ==
  ASSUME TypeInv, Submit \/ Capture
  PROVE  IsW(w') /\ HasForm(w') /\ Same(w, w', {"pop", "sub", "shot"}) /\ Submitted(w, w') /\ w.pop # "closed"
<1>1. CASE Submit /\ ~w.shot
  <2>1. w' = [w EXCEPT !.pop = "capturing"] /\ w.pop = "typing"
    BY <1>1 DEF Submit
  <2>2. IsW(w') /\ HasForm(w') /\ Same(w, w', {"pop", "sub", "shot"}) /\ w'.pop = "capturing" /\ w'.sub = w.sub
    BY <2>1 DEF TypeInv, IsW, HasForm, Same, Fields
  <2>3. QED BY <2>1, <2>2 DEF Submitted
<1>2. CASE (Submit /\ w.shot) \/ Capture
  <2>s. PICK s : s = IF Capture THEN [w EXCEPT !.shot = TRUE] ELSE w
    OBVIOUS
  <2>1. w' = Completed(s) /\ w.pop \in {"typing", "capturing"}
    BY <1>2, <2>s DEF Submit, Capture
  <2>2. IsW(s) /\ Same(w, s, {"shot"})
    <3>1. CASE Capture
      BY <2>s, <3>1 DEF TypeInv, IsW, Same, Fields
    <3>2. CASE ~Capture
      BY <2>s, <3>2 DEF TypeInv, Same
    <3>3. QED BY <3>1, <3>2
  <2>3. s.form = w.form /\ s.sub = w.sub /\ w.form \in Form
    BY <2>1, <2>2 DEF TypeInv, HasForm, Same, Fields
  <2>4. /\ IsW(w') /\ HasForm(w') /\ Same(s, w', {"pop", "sub"})
        /\ s.sub # None => w'.pop = "typing" /\ w'.sub = s.sub
        /\ s.sub = None => w'.pop = "waiting" /\ w'.sub # None /\ w'.sub.form = s.form /\ w'.sub.stage = "identity"
    BY <2>1, <2>2, <2>3, CompletedFacts
  <2>5. Same(w, w', {"pop", "sub", "shot"})
    BY <2>2, <2>4 DEF Same, Fields
  <2>6. QED BY <2>1, <2>3, <2>4, <2>5 DEF Submitted
<1>3. QED BY <1>1, <1>2

\* The submission goes on, or ends before or after it was sent.
LEMMA IdentifyFacts ==
  ASSUME TypeInv, Identify
  PROVE  /\ IsW(w') /\ HasForm(w') /\ Same(w, w', {"sub"})
         /\ w.sub # None /\ w'.sub # None /\ w'.sub.form = w.sub.form /\ w'.sub.stage = "sending"
<1>x. PICK x : x = [w.sub EXCEPT !.stage = "sending", !.url = route]
  OBVIOUS
<1>1. w.sub # None /\ w.sub \in Sending
  BY DEF Identify, InStage, TypeInv, IsW
<1>2. x \in Sending /\ x.form = w.sub.form /\ x.stage = "sending"
  BY <1>x, <1>1 DEF TypeInv, Sending
<1>3. x # None
  BY <1>2, WidgetAssumption
<1>4. w' = [w EXCEPT !.sub = x]
  <2>1. w' = [w EXCEPT !.sub = [[w.sub EXCEPT !.stage = "sending"] EXCEPT !.url = route]]
    BY DEF Identify, TypeInv, IsW, Fields
  <2>2. [[w.sub EXCEPT !.stage = "sending"] EXCEPT !.url = route] = x
    BY <1>x
  <2>3. QED BY <2>1, <2>2
<1>5. QED BY <1>1, <1>2, <1>3, <1>4 DEF TypeInv, IsW, HasForm, Same, Fields

\* The visitor does not say who they are: the popup can be typed in again.
LEMMA DismissIdentityFacts ==
  ASSUME TypeInv, DismissIdentity
  PROVE  /\ IsW(w') /\ HasForm(w') /\ Same(w, w', {"sub", "pop"})
         /\ w'.sub = None /\ InStage("identity")
         /\ w'.pop = IF w.pop = "waiting" THEN "typing" ELSE w.pop
<1>s. PICK s : s = [w EXCEPT !.sub = None]
  OBVIOUS
<1>1. w' = Settled(s, FALSE) /\ InStage("identity")
  BY <1>s DEF DismissIdentity
<1>2. IsW(s) /\ HasForm(s) /\ Same(w, s, {"sub"}) /\ s.sub = None /\ s.pop = w.pop
  BY <1>s DEF TypeInv, IsW, HasForm, Same, Fields
<1>3. /\ IsW(w') /\ HasForm(w')
      /\ s.pop # "waiting" => w' = s
      /\ s.pop = "waiting" => w'.pop = "typing" /\ Same(s, w', {"pop"})
  BY <1>1, <1>2, SettledFacts
<1>4. Same(s, w', {"pop"}) /\ w'.pop = IF w.pop = "waiting" THEN "typing" ELSE w.pop
  BY <1>2, <1>3 DEF Same
<1>5. QED BY <1>1, <1>2, <1>3, <1>4 DEF Same, Fields

\* A submission ends whose refresh another load has taken over.
LEMMA EndRefreshFacts ==
  ASSUME TypeInv, EndRefresh
  PROVE  /\ IsW(w') /\ HasForm(w') /\ Same(w, w', {"sub"}) /\ w'.sub = None /\ InStage("refreshing")
         /\ w.load # None => ~w.load.own
BY DEF EndRefresh, TypeInv, IsW, HasForm, Same, Fields

\* How a submission that was sent, or that failed, is told.
ToldSent(s, t) ==
  /\ s.pop # "waiting" => t.pop = s.pop /\ t.told = s.told /\ t.active = s.active
  /\ s.pop = "waiting" => t.pop = "closed" /\ t.told = [s.told EXCEPT ![s.form] = "sent"]

SentFields == {"pop", "told", "form", "active", "instant"}

\* What was sent is told to the popup that waits.
LEMMA ToldFacts ==
  ASSUME NEW s, IsW(s), HasForm(s)
  PROVE  LET t == Settled(s, TRUE) IN
         IsW(t) /\ HasForm(t) /\ Same(s, t, SentFields) /\ ToldSent(s, t)
<1>t. PICK t : t = Settled(s, TRUE)
  OBVIOUS
<1>1. /\ IsW(t) /\ HasForm(t) /\ Same(s, t, {"pop", "told", "form", "active", "instant"})
      /\ s.pop # "waiting" => t = s
      /\ s.pop = "waiting" => t.pop = "closed" /\ t.told = [s.told EXCEPT ![s.form] = "sent"]
  BY <1>t, SettledFacts
<1>2. QED BY <1>t, <1>1 DEF ToldSent, SentFields

\* A feedback that was sent: the popup closes, its pin is added, the open panel loads again.
LEMMA SentFacts ==
  ASSUME TypeInv, Sent
  PROVE  /\ IsW(w') /\ HasForm(w') /\ Same(w, w', SentFields \cup {"fate", "crossed", "pins", "sub", "load", "side"})
         /\ InStage("sending") /\ w.sub.form \in Form /\ home[w.sub.form] # None
         /\ w'.fate = [w.fate EXCEPT ![w.sub.form] = "sent"]
         /\ w'.crossed <=> w.crossed \/ Crosses(w.sub.form)
         /\ ToldSent(w, w')
         /\ w'.pins = IF home[w.sub.form] = w.sub.url THEN [w.pins EXCEPT ![w.sub.form] = @ + 1] ELSE w.pins
         /\ w.open => /\ Begun(w'.load, route) /\ w'.load.own /\ Beside(w'.side, route)
                      /\ w'.sub # None /\ w'.sub.stage = "refreshing"
         /\ ~w.open => w'.load = w.load /\ w'.side = w.side /\ w'.sub = None
<1>f. PICK f : f = w.sub.form
  OBVIOUS
<1>e. PICK e : e = [w.fate EXCEPT ![f] = "sent"]
  OBVIOUS
<1>c. PICK c : c = (w.crossed \/ Crosses(f))
  OBVIOUS
<1>a. PICK a : a = [w EXCEPT !.fate = e, !.crossed = c]
  OBVIOUS
<1>t. PICK t : t = Settled(a, TRUE)
  OBVIOUS
<1>s. PICK s : s = IF home[f] = w.sub.url THEN AddFeedback(t, f) ELSE t
  OBVIOUS
<1>r. PICK r : r = [s EXCEPT !.sub.stage = "refreshing"]
  OBVIOUS
<1>1. /\ InStage("sending") /\ home[f] # None
      /\ w' = IF s.open THEN LoadFeedbacks(r, route, TRUE) ELSE [s EXCEPT !.sub = None]
  <2>1. a = [w EXCEPT !.fate[f] = "sent", !.crossed = w.crossed \/ Crosses(f)]
    BY <1>a, <1>e, <1>c DEF TypeInv, IsW, Fields
  <2>2. QED BY <2>1, <1>f, <1>t, <1>s, <1>r DEF Sent, TypeInv, IsW, Fields
<1>2. w.sub \in Sending /\ f \in Form
  BY <1>1, <1>f DEF InStage, TypeInv, IsW, Sending
<1>3. e \in [Form -> {"none", "sent", "queued"}] /\ c \in BOOLEAN
  BY <1>e, <1>c, <1>2 DEF TypeInv, IsW
<1>4. IsW(a) /\ HasForm(a) /\ Same(w, a, {"fate", "crossed"}) /\ a.fate = e /\ a.crossed = c
  <2>1. IsW(a)
    BY <1>a, <1>3 DEF TypeInv, IsW, Fields
  <2>2. Same(w, a, {"fate", "crossed"}) /\ a.fate = e /\ a.crossed = c
    BY <1>a DEF TypeInv, IsW, Same, Fields
  <2>3. QED BY <2>1, <2>2 DEF TypeInv, HasForm, Same, Fields
<1>5. IsW(t) /\ HasForm(t) /\ Same(a, t, SentFields) /\ ToldSent(a, t)
  BY <1>4, <1>t, ToldFacts
<1>6. /\ IsW(s) /\ Same(t, s, {"pins"})
      /\ s.pins = IF home[f] = w.sub.url THEN [t.pins EXCEPT ![f] = @ + 1] ELSE t.pins
  <2>1. CASE home[f] = w.sub.url
    BY <1>2, <1>5, <1>s, <2>1, AddFacts
  <2>2. CASE home[f] # w.sub.url
    BY <1>5, <1>s, <2>2 DEF Same
  <2>3. QED BY <2>1, <2>2
<1>7. Same(w, s, SentFields \cup {"fate", "crossed", "pins"})
  BY <1>4, <1>5, <1>6 DEF Same, Fields, SentFields
<1>8. s.pop = t.pop /\ s.told = t.told /\ s.active = t.active /\ s.form = t.form /\ s.fate = e /\ s.crossed = c /\ t.pins = w.pins
  BY <1>4, <1>5, <1>6 DEF Same, Fields, SentFields
<1>9. a.pop = w.pop /\ a.told = w.told /\ a.active = w.active /\ a.form = w.form
  BY <1>4 DEF Same, Fields
<1>10. s.open = w.open /\ s.sub = w.sub /\ s.load = w.load /\ s.side = w.side
  BY <1>7 DEF Same, Fields, SentFields
<1>11. /\ IsW(w') /\ Same(s, w', {"sub", "load", "side"})
       /\ w.open => /\ Begun(w'.load, route) /\ w'.load.own /\ Beside(w'.side, route)
                    /\ w'.sub # None /\ w'.sub.stage = "refreshing"
       /\ ~w.open => w'.load = w.load /\ w'.side = w.side /\ w'.sub = None
  <2>1. CASE ~w.open
    <3>1. w' = [s EXCEPT !.sub = None]
      BY <1>1, <1>10, <2>1
    <3>2. QED BY <1>6, <1>10, <2>1, <3>1 DEF IsW, Same, Fields
  <2>2. CASE w.open
    <3>x. PICK x : x = [s.sub EXCEPT !.stage = "refreshing"]
      OBVIOUS
    <3>1. x \in Sending /\ x.stage = "refreshing"
      BY <1>2, <1>10, <3>x DEF Sending
    <3>2. x # None
      BY <3>1, WidgetAssumption
    <3>3. r = [s EXCEPT !.sub = x]
      BY <1>r, <3>x
    <3>4. IsW(r) /\ Same(s, r, {"sub"}) /\ r.sub = x
      BY <1>6, <3>1, <3>3 DEF IsW, Same, Fields
    <3>5. w' = LoadFeedbacks(r, route, TRUE)
      BY <1>1, <1>10, <2>2
    <3>6. /\ IsW(w') /\ Same(r, w', {"load", "side"})
          /\ Begun(w'.load, route) /\ w'.load.own /\ Beside(w'.side, route)
      BY <3>4, <3>5, LoadFacts DEF TypeInv
    <3>7. Same(s, w', {"sub", "load", "side"}) /\ w'.sub = x
      BY <3>4, <3>6 DEF Same, Fields
    <3>8. QED BY <2>2, <3>1, <3>2, <3>6, <3>7
  <2>3. QED BY <2>1, <2>2
<1>12. Same(w, w', SentFields \cup {"fate", "crossed", "pins", "sub", "load", "side"})
  BY <1>7, <1>11 DEF Same, Fields, SentFields
<1>13. /\ w'.pop = s.pop /\ w'.told = s.told /\ w'.active = s.active /\ w'.form = s.form
       /\ w'.fate = s.fate /\ w'.crossed = s.crossed /\ w'.pins = s.pins
  BY <1>11 DEF Same, Fields
<1>14. HasForm(w') /\ ToldSent(w, w')
  BY <1>5, <1>8, <1>9, <1>13 DEF HasForm, ToldSent
<1>15. w'.crossed <=> w.crossed \/ Crosses(f)
  BY <1>c, <1>8, <1>13
<1>16. QED BY <1>f, <1>e, <1>1, <1>2, <1>6, <1>8, <1>11, <1>12, <1>13, <1>14, <1>15

\* A send that fails is told as sent when it was queued, as failed when it was refused.
LEMMA FailSendFacts ==
  ASSUME TypeInv, NEW queued \in BOOLEAN, FailSend(queued)
  PROVE  /\ IsW(w') /\ HasForm(w') /\ Same(w, w', SentFields \cup {"sub", "fate"})
         /\ InStage("sending") /\ w.sub.form \in Form /\ w'.sub = None
         /\ queued => w'.fate = [w.fate EXCEPT ![w.sub.form] = "queued"] /\ ToldSent(w, w')
         /\ ~queued => /\ w'.fate = w.fate /\ w'.told = w.told /\ w'.active = w.active /\ w'.form = w.form
                       /\ w'.pop = IF w.pop = "waiting" THEN "typing" ELSE w.pop
<1>e. PICK e : e = [w.fate EXCEPT ![w.sub.form] = IF queued THEN "queued" ELSE w.fate[w.sub.form]]
  OBVIOUS
<1>a. PICK a : a = [w EXCEPT !.sub = None, !.fate = e]
  OBVIOUS
<1>1. InStage("sending") /\ w' = Settled(a, queued)
  BY <1>a, <1>e DEF FailSend, TypeInv, IsW, Fields
<1>2. w.sub.form \in Form
  BY <1>1 DEF InStage, TypeInv, IsW, Sending
<1>3. e \in [Form -> {"none", "sent", "queued"}] /\ (~queued => e = w.fate)
  BY <1>e, <1>2 DEF TypeInv, IsW
<1>4. IsW(a) /\ HasForm(a) /\ Same(w, a, {"fate", "sub"}) /\ a.fate = e /\ a.sub = None
  BY <1>a, <1>3 DEF TypeInv, IsW, HasForm, Same, Fields
<1>5. a.pop = w.pop /\ a.told = w.told /\ a.active = w.active /\ a.form = w.form
  BY <1>4 DEF Same, Fields
<1>6. CASE queued
  <2>1. IsW(w') /\ HasForm(w') /\ Same(a, w', SentFields) /\ ToldSent(a, w')
    BY <1>1, <1>4, <1>6, ToldFacts
  <2>2. Same(w, w', SentFields \cup {"sub", "fate"}) /\ w'.sub = None /\ w'.fate = e
    BY <1>4, <2>1 DEF Same, Fields, SentFields
  <2>3. ToldSent(w, w')
    BY <1>5, <2>1 DEF ToldSent
  <2>4. e = [w.fate EXCEPT ![w.sub.form] = "queued"]
    BY <1>e, <1>6
  <2>5. QED BY <1>1, <1>2, <1>6, <2>1, <2>2, <2>3, <2>4
<1>7. CASE ~queued
  <2>1. /\ IsW(w') /\ HasForm(w')
        /\ a.pop # "waiting" => w' = a
        /\ a.pop = "waiting" => w'.pop = "typing" /\ Same(a, w', {"pop"})
    BY <1>1, <1>4, <1>7, SettledFacts
  <2>2. Same(a, w', {"pop"}) /\ w'.pop = IF w.pop = "waiting" THEN "typing" ELSE w.pop
    BY <1>5, <2>1 DEF Same
  <2>3. Same(w, w', SentFields \cup {"sub", "fate"})
    BY <1>4, <2>2 DEF Same, Fields, SentFields
  <2>4. w'.sub = None /\ w'.fate = e /\ w'.told = w.told /\ w'.active = w.active /\ w'.form = w.form
    BY <1>4, <1>5, <2>2 DEF Same, Fields
  <2>5. QED BY <1>1, <1>2, <1>3, <1>7, <2>1, <2>2, <2>3, <2>4
<1>8. QED BY <1>6, <1>7

\* Another handle on the same widget.
LEMMA LaunchFacts ==
  ASSUME TypeInv, NEW h, Launch(h)
  PROVE  IsW(w') /\ HasForm(w') /\ Same(w, w', {"live", "refs"})
BY DEF Launch, TypeInv, IsW, HasForm, Same, Fields


(***************************************************************************)
(* Types.                                                                  *)
(***************************************************************************)
\* A handle that is destroyed leaves the widget, or tears it down.
LEMMA DestroyFacts ==
  ASSUME TypeInv, NEW h, Destroy(h)
  PROVE  /\ IsW(w') /\ HasForm(w') /\ ~w.destroyed
         /\ \/ Same(w, w', {"live", "refs"})
            \/ /\ Dead(w') /\ w'.destroyed
               /\ Same(w, w', {"live", "refs", "destroyed", "fetches", "load", "side", "sub", "open", "pending", "asked",
                               "pop", "form", "active", "pins"})
<1>1. w' = Released(w, h) /\ ~w.destroyed
  BY DEF Destroy, Spend
<1>2. QED BY <1>1, ReleasedFacts DEF TypeInv

\* Only a navigation moves the page, only a landing records a feedback.
LEMMA Placed ==
  ASSUME TypeInv, [Next]_vars
  PROVE  \/ UNCHANGED <<route, home>>
         \/ \E u \in Url : Navigate(u)
         \/ Land
<1>1. CASE ServeLoad \/ CommitLoad \/ FailLoad \/ ServeSide \/ CommitSide \/ FailSide \/ Reload \/ PanelFails
  BY <1>1 DEF ServeLoad, CommitLoad, FailLoad, ServeSide, CommitSide, FailSide, Reload, PanelFails
<1>2. CASE Prefetch \/ ImportPanel \/ ImportFails \/ Open \/ Close \/ Refresh
  BY <1>2 DEF Prefetch, ImportPanel, ImportFails, Open, Close, Refresh
<1>3. CASE \E x \in w.fetches : ServeFetch(x) \/ ArriveFetch(x) \/ FailFetch(x)
  BY <1>3 DEF ServeFetch, ArriveFetch, FailFetch
<1>4. CASE \/ StartDrawing \/ Dismiss \/ CancelSession \/ Submit \/ Capture
           \/ \E f \in Form : FinishDrawing(f) \/ StartInstantAnnotation(f)
  BY <1>4 DEF StartDrawing, Dismiss, CancelSession, Submit, Capture, FinishDrawing, StartInstantAnnotation
<1>5. CASE \/ Identify \/ DismissIdentity \/ Sent \/ EndRefresh
           \/ (\E queued \in BOOLEAN : FailSend(queued)) \/ \E h \in Handle : Launch(h) \/ Destroy(h)
  BY <1>5 DEF Identify, DismissIdentity, Sent, EndRefresh, FailSend, Launch, Destroy
<1>6. CASE UNCHANGED vars
  BY <1>6 DEF vars
<1>7. QED BY <1>1, <1>2, <1>3, <1>4, <1>5, <1>6 DEF Next

\* The widget keeps its type.
LEMMA WidgetKept ==
  ASSUME TypeInv, [Next]_vars
  PROVE  IsW(w') /\ HasForm(w')
<1>1. CASE ServeLoad \/ CommitLoad \/ FailLoad \/ ServeSide \/ CommitSide \/ FailSide \/ Reload \/ PanelFails
  BY <1>1, ServeLoadFacts, CommitLoadFacts, FailLoadFacts, ServeSideFacts, CommitSideFacts, FailSideFacts, ReloadFacts,
     PanelFailsFacts
<1>2. CASE Prefetch \/ ImportPanel \/ ImportFails \/ Open \/ Close \/ Refresh
  BY <1>2, PrefetchFacts, ImportPanelFacts, ImportFailsFacts, OpenFacts, CloseFacts, RefreshFactsOfHost
<1>3. CASE (\E u \in Url : Navigate(u)) \/ \E x \in w.fetches : ServeFetch(x) \/ ArriveFetch(x) \/ FailFetch(x)
  BY <1>3, NavigateFacts, ServeFetchFacts, ArriveFetchFacts, FailFetchFacts
<1>4. CASE \/ StartDrawing \/ Dismiss \/ CancelSession \/ Submit \/ Capture
           \/ \E f \in Form : FinishDrawing(f) \/ StartInstantAnnotation(f)
  BY <1>4, StartFacts, StartDrawingFacts, DismissFacts, SubmitFacts
<1>5. CASE Identify \/ DismissIdentity \/ Sent \/ EndRefresh \/ \E queued \in BOOLEAN : FailSend(queued)
  BY <1>5, IdentifyFacts, DismissIdentityFacts, SentFacts, EndRefreshFacts, FailSendFacts
<1>6. CASE \E h \in Handle : Launch(h) \/ Destroy(h)
  BY <1>6, LaunchFacts, DestroyFacts
<1>7. CASE Land \/ UNCHANGED vars
  BY <1>7 DEF Land, vars, TypeInv
<1>8. QED BY <1>1, <1>2, <1>3, <1>4, <1>5, <1>6, <1>7 DEF Next

\* Types are kept.
LEMMA TypeStep == TypeInv /\ [Next]_vars => TypeInv'
<1> SUFFICES ASSUME TypeInv, [Next]_vars PROVE TypeInv'
  OBVIOUS
<1>1. IsW(w') /\ HasForm(w')
  BY WidgetKept
<1>2. budget'.wide = budget.wide /\ {"wide"} \subseteq DOMAIN budget'
  BY BudgetKept DEF TypeInv
<1>3. route' \in Url /\ home' \in [Row -> Url \cup {None}]
  <2>1. CASE UNCHANGED <<route, home>>
    BY <2>1 DEF TypeInv
  <2>2. CASE \E u \in Url : Navigate(u)
    BY <2>2 DEF Navigate, TypeInv
  <2>3. CASE Land
    <3>1. w.sub \in Sending
      BY <2>3 DEF Land, InStage, TypeInv, IsW
    <3>2. w.sub.url \in Url \cup {None}
      BY <3>1 DEF Sending
    <3>3. QED BY <2>3, <3>2 DEF Land, TypeInv
  <2>4. QED BY <2>1, <2>2, <2>3, Placed
<1>4. QED BY <1>1, <1>2, <1>3 DEF TypeInv

\* The page starts with a fetch of its markers and a panel nobody has asked for.
LEMMA Initially ==
  ASSUME Init
  PROVE  /\ TypeInv
         /\ ~w.open /\ ~w.asked /\ ~w.pending /\ w.panel = "absent" /\ ~w.destroyed
         /\ w.load = None /\ w.side = None /\ w.sub = None /\ w.pop = "closed" /\ w.gen = 1
         /\ \A f \in Form : w.told[f] = "none" /\ w.fate[f] = "none"
         /\ \E x : /\ w.fetches = {x} /\ x.n = 1 /\ x.url = route /\ x.read = None
<1>h. PICK h \in Handle :
     w = [live |-> {h}, refs |-> 1, destroyed |-> FALSE,
          gen |-> 1, fetches |-> {[n |-> 1, url |-> route, prev |-> None, read |-> None]}, lastKey |-> route,
          panel |-> "absent", pending |-> FALSE, linked |-> FALSE, open |-> FALSE, load |-> None, side |-> None,
          pins |-> [r \in Row |-> 0],
          active |-> FALSE, instant |-> FALSE, form |-> None, pop |-> "closed", shot |-> FALSE, sub |-> None,
          asked |-> FALSE, told |-> [f \in Form |-> "none"], fate |-> [f \in Form |-> "none"],
          shown |-> None, failed |-> FALSE, crossed |-> FALSE]
  BY DEF Init
<1>x. PICK x : x = [n |-> 1, url |-> route, prev |-> None, read |-> None]
  OBVIOUS
<1>1. route \in Url /\ budget \in Budgets
  BY DEF Init
<1>2. x \in Fetch /\ x.n = 1 /\ x.url = route /\ x.read = None
  BY <1>x, <1>1 DEF Fetch
<1>3. w.fetches = {x}
  BY <1>h, <1>x
<1>4. IsW(w)
  <2>1. w.fetches \subseteq Fetch
    BY <1>2, <1>3
  <2>2. DOMAIN w = Fields
    BY <1>h DEF Fields
  <2>3. w.pins \in [Row -> Nat] /\ w.told \in [Form -> {"none", "sent", "cancelled"}] /\ w.fate \in [Form -> {"none", "sent", "queued"}]
    BY <1>h
  <2>4. QED BY <1>h, <1>1, <2>1, <2>2, <2>3 DEF IsW
<1>5. home \in [Row -> Url \cup {None}]
  BY WidgetAssumption DEF Init, Row
<1>6. budget.wide \in BOOLEAN /\ {"wide"} \subseteq DOMAIN budget
  BY <1>1, WidgetAssumption
<1>7. HasForm(w)
  BY <1>h DEF HasForm
<1>8. TypeInv
  BY <1>1, <1>4, <1>5, <1>6, <1>7 DEF TypeInv
<1>9. QED BY <1>h, <1>2, <1>3, <1>8
\* The widget is what its code takes it for: every request, submission and pin of a
\* page, a form or a feedback there is, and a popup that is open has a form of its own.
THEOREM TypeCorrect == Spec => []TypeInv
<1>1. Init => TypeInv
  BY Initially
<1>2. QED BY <1>1, TypeStep, PTL DEF Spec

(***************************************************************************)
(* The panel is as it was last asked to be.                                *)
(***************************************************************************)
\* Until its chunk is there the panel is closed, and what is pending is what was asked.
OpenOK(s) ==
  /\ s.panel = "loaded" => s.open = s.asked
  /\ s.panel # "loaded" => ~s.open /\ s.pending = s.asked

\* Steps that neither open nor close.
LEMMA OpenKept ==
  ASSUME NEW s, NEW t, NEW C, OpenOK(s), Same(s, t, C), C \cap {"panel", "open", "asked", "pending"} = {}
  PROVE  OpenOK(t)
<1>1. t.panel = s.panel /\ t.open = s.open /\ t.asked = s.asked /\ t.pending = s.pending
  BY DEF Same, Fields
<1>2. QED BY <1>1 DEF OpenOK

\* A fetch that arrives may follow the link.
LEMMA OpenArrives ==
  ASSUME TypeInv, OpenOK(w), NEW x \in w.fetches, ArriveFetch(x)
  PROVE  OpenOK(w')
<1>1. CASE ~Latest(x)
  BY <1>1, ArriveFetchFacts, OpenKept
<1>2. CASE Latest(x) /\ w.panel = "loaded"
  <2>1. \/ Same(w, w', {"fetches", "pins", "shown", "failed"})
        \/ w'.panel = w.panel /\ w'.asked /\ w'.open
    BY <1>2, ArriveFetchFacts
  <2>2. CASE Same(w, w', {"fetches", "pins", "shown", "failed"})
    BY <2>2, OpenKept
  <2>3. CASE w'.panel = w.panel /\ w'.asked /\ w'.open
    <3>1. w'.asked \in BOOLEAN /\ w'.open \in BOOLEAN
      BY ArriveFetchFacts DEF IsW
    <3>2. QED BY <1>2, <2>3, <3>1 DEF OpenOK
  <2>4. QED BY <2>1, <2>2, <2>3
<1>3. CASE Latest(x) /\ w.panel # "loaded"
  <2>1. Same(w, w', {"fetches", "pins", "shown", "failed", "linked", "panel"}) /\ w'.panel # "loaded"
    BY <1>3, ArriveFetchFacts
  <2>2. w'.open = w.open /\ w'.asked = w.asked /\ w'.pending = w.pending
    BY <2>1 DEF Same, Fields
  <2>3. QED BY <1>3, <2>1, <2>2 DEF OpenOK
<1>4. QED BY <1>1, <1>2, <1>3

\* Opening, closing and the chunk's arrival or failure.
LEMMA OpenToggles ==
  ASSUME TypeInv, OpenOK(w), Prefetch \/ ImportPanel \/ ImportFails \/ Open \/ Close
  PROVE  OpenOK(w')
<1>1. CASE Prefetch \/ ImportFails
  <2>1. Same(w, w', {"panel", "linked"}) /\ w.panel # "loaded" /\ w'.panel # "loaded"
    BY <1>1, PrefetchFacts, ImportFailsFacts DEF Same
  <2>2. w'.open = w.open /\ w'.asked = w.asked /\ w'.pending = w.pending
    BY <2>1 DEF Same, Fields
  <2>3. QED BY <2>1, <2>2 DEF OpenOK
<1>2. CASE ImportPanel
  <2>1. /\ w.panel = "importing" /\ w'.panel = "loaded" /\ w'.asked = (w.asked \/ w.linked)
        /\ w.pending \/ w.linked => w'.open
        /\ ~w.pending /\ ~w.linked => w'.open = w.open
    BY <1>2, ImportPanelFacts
  <2>2. {w.asked, w.pending, w.linked, w.open} \subseteq BOOLEAN /\ {w'.asked, w'.open} \subseteq BOOLEAN
    BY <1>2, ImportPanelFacts DEF TypeInv, IsW
  <2>3. ~w.open /\ w.pending = w.asked
    BY <2>1 DEF OpenOK
  <2>4. w'.open = w'.asked
    BY <2>1, <2>2, <2>3
  <2>5. QED BY <2>1, <2>4 DEF OpenOK
<1>3. CASE Open /\ w.panel = "loaded"
  <2>1. IsW(w') /\ w'.asked /\ w'.open /\ Same(w, w', {"asked", "open", "load", "side"})
    BY <1>3, OpenFacts
  <2>2. w'.open = TRUE /\ w'.asked = TRUE /\ w'.panel = w.panel
    BY <2>1 DEF IsW, Same, Fields
  <2>3. QED BY <1>3, <2>2 DEF OpenOK
<1>4. CASE Open /\ w.panel # "loaded"
  <2>1. IsW(w') /\ w'.asked /\ w'.pending /\ w'.panel # "loaded" /\ Same(w, w', {"asked", "pending", "panel"})
    BY <1>4, OpenFacts
  <2>2. w'.pending = TRUE /\ w'.asked = TRUE /\ w'.open = w.open
    BY <2>1 DEF IsW, Same, Fields
  <2>3. QED BY <1>4, <2>1, <2>2 DEF OpenOK
<1>5. CASE Close
  <2>1. /\ IsW(w') /\ ~w'.asked /\ Same(w, w', {"open", "asked", "pending"})
        /\ w.panel = "loaded" => ~w'.open
        /\ w.panel # "loaded" => ~w'.pending /\ w'.open = w.open
    BY <1>5, CloseFacts
  <2>2. {w'.open, w'.asked, w'.pending} \subseteq BOOLEAN
    BY <2>1 DEF IsW
  <2>3. w'.panel = w.panel
    BY <2>1 DEF Same, Fields
  <2>4. QED BY <2>1, <2>2, <2>3 DEF OpenOK
<1>6. QED BY <1>1, <1>2, <1>3, <1>4, <1>5

\* The panel stays as asked.
LEMMA OpenStep == TypeInv /\ OpenOK(w) /\ [Next]_vars => OpenOK(w')
<1> SUFFICES ASSUME TypeInv, OpenOK(w), [Next]_vars PROVE OpenOK(w')
  OBVIOUS
<1>1. CASE ServeLoad \/ CommitLoad \/ FailLoad \/ ServeSide \/ CommitSide \/ FailSide \/ Reload \/ PanelFails
  <2>1. Same(w, w', {"load", "sub", "pop", "side", "pins", "shown", "failed", "crossed"})
    <3>1. \E C \in SUBSET {"load", "sub", "pop", "side", "pins", "shown", "failed", "crossed"} : Same(w, w', C)
      BY <1>1, ServeLoadFacts, CommitLoadFacts, FailLoadFacts, ServeSideFacts, CommitSideFacts, FailSideFacts, ReloadFacts,
         PanelFailsFacts
    <3>2. QED BY <3>1 DEF Same
  <2>2. QED BY <2>1, OpenKept
<1>2. CASE Prefetch \/ ImportPanel \/ ImportFails \/ Open \/ Close
  BY <1>2, OpenToggles
<1>3. CASE Refresh \/ \E u \in Url : Navigate(u)
  <2>1. Same(w, w', {"gen", "load", "side", "fetches", "lastKey"}) \/ Same(w, w', {"crossed"})
    BY <1>3, RefreshFactsOfHost, NavigateFacts DEF Asked
  <2>2. QED BY <2>1, OpenKept
<1>4. CASE \E x \in w.fetches : ArriveFetch(x)
  BY <1>4, OpenArrives
<1>5. CASE \E x \in w.fetches : ServeFetch(x) \/ FailFetch(x)
  <2>1. Same(w, w', {"fetches"}) \/ Same(w, w', {"fetches", "failed", "lastKey"})
    BY <1>5, ServeFetchFacts, FailFetchFacts
  <2>2. QED BY <2>1, OpenKept
<1>6. CASE \/ StartDrawing \/ Dismiss \/ CancelSession \/ Submit \/ Capture
           \/ \E f \in Form : FinishDrawing(f) \/ StartInstantAnnotation(f)
  <2>1. \/ Same(w, w', {"active"}) \/ Same(w, w', {"active", "instant", "form", "pop", "told"})
        \/ Same(w, w', {"pop", "sub", "shot"}) \/ Same(w, w', {"active", "instant", "form", "pop", "shot"})
    BY <1>6, StartFacts, StartDrawingFacts, DismissFacts, SubmitFacts
  <2>2. QED BY <2>1, OpenKept
<1>7. CASE Identify \/ DismissIdentity \/ Sent \/ EndRefresh \/ \E queued \in BOOLEAN : FailSend(queued)
  <2>1. \/ Same(w, w', {"sub"}) \/ Same(w, w', {"sub", "pop"})
        \/ Same(w, w', SentFields \cup {"fate", "crossed", "pins", "sub", "load", "side"})
        \/ Same(w, w', SentFields \cup {"sub", "fate"})
    BY <1>7, IdentifyFacts, DismissIdentityFacts, SentFacts, EndRefreshFacts, FailSendFacts
  <2>2. QED BY <2>1, OpenKept DEF SentFields
<1>8. CASE \E h \in Handle : Launch(h) \/ Destroy(h)
  <2>1. \/ Same(w, w', {"live", "refs"})
        \/ /\ Dead(w') /\ IsW(w')
           /\ Same(w, w', {"live", "refs", "destroyed", "fetches", "load", "side", "sub", "open", "pending", "asked",
                           "pop", "form", "active", "pins"})
    BY <1>8, LaunchFacts, DestroyFacts
  <2>2. CASE Same(w, w', {"live", "refs"})
    BY <2>2, OpenKept
  <2>3. CASE Dead(w') /\ IsW(w')
    <3>1. {w'.open, w'.asked, w'.pending} \subseteq BOOLEAN /\ ~w'.open /\ ~w'.asked /\ ~w'.pending
      BY <2>3 DEF Dead, IsW
    <3>2. QED BY <3>1 DEF OpenOK
  <2>4. QED BY <2>1, <2>2, <2>3
<1>9. CASE Land \/ UNCHANGED vars
  BY <1>9 DEF Land, vars
<1>10. QED BY <1>1, <1>2, <1>3, <1>4, <1>5, <1>6, <1>7, <1>8, <1>9 DEF Next

\* The panel is open whenever its chunk is there exactly if it was last asked to
\* be, by the host or the link: OpenAsAsked, of the launcher's pending opening.
THEOREM PanelAsAsked == Spec => []OpenAsAsked
<1>1. Init => TypeInv /\ OpenOK(w)
  BY Initially DEF OpenOK, TypeInv, IsW
<1>2. TypeInv /\ OpenOK(w) /\ [Next]_vars => (TypeInv /\ OpenOK(w))'
  BY TypeStep, OpenStep
<1>3. TypeInv /\ OpenOK(w) => OpenAsAsked
  BY DEF OpenOK, OpenAsAsked
<1>4. QED BY <1>1, <1>2, <1>3, PTL DEF Spec

(***************************************************************************)
(* A popup that closes as sent sent its own feedback.                      *)
(***************************************************************************)
ToldTrue(s) == \A f \in Form : s.told[f] = "sent" => s.fate[f] \in {"sent", "queued"}
InSession(s) == s.pop # "closed" => s.active
Waits(s) == s.pop = "waiting" => s.sub # None /\ s.sub.form = s.form /\ s.sub.stage # "refreshing"

\* A load of the submission's own is awaited by it: no popup waits for that one.
OwnLoad(s) == s.load # None /\ s.load.own => s.sub # None /\ s.sub.stage = "refreshing"

SentOK(s) == ToldTrue(s) /\ InSession(s) /\ Waits(s) /\ OwnLoad(s)

\* The loads of t are those of s, or none of a submission's.
LoadAs(s, t) ==
  \/ t.load = None \/ ~t.load.own
  \/ s.load # None /\ t.load # None /\ t.load.own = s.load.own

\* Steps that touch neither the popup, nor the submission.
LEMMA SentKept ==
  ASSUME NEW s, NEW t, NEW C, SentOK(s), Same(s, t, C),
         C \cap {"told", "fate", "pop", "active", "sub", "form"} = {}, LoadAs(s, t)
  PROVE  SentOK(t)
<1>1. t.told = s.told /\ t.fate = s.fate /\ t.pop = s.pop /\ t.active = s.active /\ t.sub = s.sub /\ t.form = s.form
  BY DEF Same, Fields
<1>2. QED BY <1>1 DEF SentOK, ToldTrue, InSession, Waits, OwnLoad, LoadAs

\* A load that is the same.
LEMMA SameLoad ==
  ASSUME NEW s, NEW t, NEW C, Same(s, t, C), "load" \notin C
  PROVE  LoadAs(s, t) /\ t.load = s.load
BY DEF Same, Fields, LoadAs

\* Steps of the panel's loads.
LEMMA SentLoads ==
  ASSUME TypeInv, SentOK(w), ServeLoad \/ CommitLoad \/ FailLoad \/ ServeSide \/ CommitSide \/ FailSide \/ Reload \/ PanelFails
  PROVE  SentOK(w')
<1>1. CASE ServeLoad
  <2>1. Same(w, w', {"load"}) /\ LoadAs(w, w')
    BY <1>1, ServeLoadFacts DEF LoadAs
  <2>2. QED BY <2>1, SentKept
<1>2. CASE CommitLoad \/ FailLoad
  <2>1. /\ Same(w, w', {"load", "sub", "pins", "shown", "failed", "crossed", "pop"})
        /\ w.load # None /\ w'.load = None /\ w'.sub = IF w.load.own THEN None ELSE w.sub
        /\ w'.pop = w.pop \/ (w.pop = "waiting" /\ w'.pop = "typing")
    <3>1. CASE CommitLoad
      BY <3>1, CommitLoadFacts DEF Same, Fields
    <3>2. CASE FailLoad
      BY <3>2, FailLoadFacts DEF Same, Fields
    <3>3. QED BY <1>2, <3>1, <3>2
  <2>2. w'.told = w.told /\ w'.fate = w.fate /\ w'.active = w.active /\ w'.form = w.form
    BY <2>1 DEF Same, Fields
  <2>3. w.load.own => w.pop # "waiting"
    BY <2>1 DEF SentOK, Waits, OwnLoad
  <2>4. QED BY <2>1, <2>2, <2>3 DEF SentOK, ToldTrue, InSession, Waits, OwnLoad
<1>3. CASE ServeSide \/ CommitSide \/ FailSide
  <2>1. Same(w, w', {"side", "pins", "shown", "failed", "crossed"})
    BY <1>3, ServeSideFacts, CommitSideFacts, FailSideFacts DEF Same
  <2>2. LoadAs(w, w')
    BY <2>1, SameLoad
  <2>3. QED BY <2>1, <2>2, SentKept
<1>4. CASE Reload
  <2>1. Same(w, w', {"load", "side"}) /\ LoadAs(w, w')
    BY <1>4, ReloadFacts DEF LoadAs
  <2>2. QED BY <2>1, SentKept
<1>5. CASE PanelFails
  <2>1. Same(w, w', {"pop"}) /\ w'.pop = IF w.pop = "waiting" THEN "typing" ELSE w.pop
    BY <1>5, PanelFailsFacts
  <2>2. /\ w'.told = w.told /\ w'.fate = w.fate /\ w'.active = w.active /\ w'.form = w.form /\ w'.sub = w.sub
        /\ w'.load = w.load
    BY <2>1 DEF Same, Fields
  <2>3. QED BY <2>1, <2>2 DEF SentOK, ToldTrue, InSession, Waits, OwnLoad
<1>6. QED BY <1>1, <1>2, <1>3, <1>4, <1>5

\* Opening, closing, navigating, and the launcher's own fetches.
LEMMA SentPanel ==
  ASSUME TypeInv, SentOK(w),
         \/ Prefetch \/ ImportPanel \/ ImportFails \/ Open \/ Close \/ Refresh
         \/ (\E u \in Url : Navigate(u)) \/ \E x \in w.fetches : ServeFetch(x) \/ ArriveFetch(x) \/ FailFetch(x)
  PROVE  SentOK(w')
<1>1. CASE Prefetch \/ ImportFails \/ Close
  <2>1. Same(w, w', {"panel", "linked", "open", "asked", "pending"})
    BY <1>1, PrefetchFacts, ImportFailsFacts, CloseFacts DEF Same
  <2>2. QED BY <2>1, SameLoad, SentKept
<1>2. CASE ImportPanel \/ Open
  <2>1. /\ Same(w, w', {"panel", "pending", "linked", "asked", "open", "load", "side"})
        /\ w'.load = w.load \/ (Begun(w'.load, route) /\ ~w'.load.own)
    <3>1. CASE ImportPanel
      BY <3>1, ImportPanelFacts
    <3>2. CASE Open /\ w.panel = "loaded"
      BY <3>2, OpenFacts DEF Same
    <3>3. CASE Open /\ w.panel # "loaded"
      <4>1. Same(w, w', {"asked", "pending", "panel"})
        BY <3>3, OpenFacts
      <4>2. QED BY <4>1, SameLoad DEF Same
    <3>4. QED BY <1>2, <3>1, <3>2, <3>3
  <2>2. LoadAs(w, w')
    BY <2>1 DEF LoadAs
  <2>3. QED BY <2>1, <2>2, SentKept
<1>3. CASE Refresh \/ \E u \in Url : Navigate(u)
  <2>1. Same(w, w', {"crossed"}) \/ \E u \in Url : Asked(w, w', u)
    BY <1>3, RefreshFactsOfHost, NavigateFacts DEF TypeInv
  <2>2. CASE Same(w, w', {"crossed"})
    BY <2>2, SameLoad, SentKept
  <2>3. CASE \E u \in Url : Asked(w, w', u)
    <3>1. Same(w, w', {"gen", "load", "side", "fetches", "lastKey"}) /\ LoadAs(w, w')
      BY <2>3 DEF Asked, LoadAs
    <3>2. QED BY <3>1, SentKept
  <2>4. QED BY <2>1, <2>2, <2>3
<1>4. CASE \E x \in w.fetches : ServeFetch(x) \/ FailFetch(x)
  <2>1. Same(w, w', {"fetches", "failed", "lastKey"})
    BY <1>4, ServeFetchFacts, FailFetchFacts DEF Same
  <2>2. QED BY <2>1, SameLoad, SentKept
<1>5. CASE \E x \in w.fetches : ArriveFetch(x)
  <2>1. PICK x \in w.fetches : ArriveFetch(x)
    BY <1>5
  <2>2. Same(w, w', {"fetches", "pins", "shown", "failed"} \cup LinkFields)
    BY <2>1, ArriveFetchFacts DEF Same
  <2>3. LoadAs(w, w')
    <3>1. CASE ~Latest(x)
      <4>1. Same(w, w', {"fetches"})
        BY <2>1, <3>1, ArriveFetchFacts
      <4>2. QED BY <4>1, SameLoad
    <3>2. CASE Latest(x)
      <4>1. w'.load = w.load \/ ~w'.load.own
        BY <2>1, <3>2, ArriveFetchFacts
      <4>2. QED BY <4>1 DEF LoadAs
    <3>3. QED BY <3>1, <3>2
  <2>4. QED BY <2>2, <2>3, SentKept DEF LinkFields
<1>6. QED BY <1>1, <1>2, <1>3, <1>4, <1>5

\* The session, up to the submission.
LEMMA SentSession ==
  ASSUME TypeInv, SentOK(w),
         \/ StartDrawing \/ Dismiss \/ CancelSession \/ Submit \/ Capture
         \/ \E f \in Form : FinishDrawing(f) \/ StartInstantAnnotation(f)
  PROVE  SentOK(w')
<1>1. CASE StartDrawing \/ \E f \in Form : FinishDrawing(f) \/ StartInstantAnnotation(f)
  <2>1. /\ Same(w, w', {"active", "instant", "form", "pop", "shot"}) /\ w'.active
        /\ w'.pop = "typing" \/ (w'.pop = w.pop /\ w'.form = w.form)
    <3>1. CASE StartDrawing
      BY <3>1, StartDrawingFacts DEF Same, Fields
    <3>2. CASE \E f \in Form : FinishDrawing(f) \/ StartInstantAnnotation(f)
      BY <3>2, StartFacts
    <3>3. QED BY <1>1, <3>1, <3>2
  <2>2. w'.told = w.told /\ w'.fate = w.fate /\ w'.sub = w.sub /\ w'.load = w.load
    BY <2>1 DEF Same, Fields
  <2>3. QED BY <2>1, <2>2 DEF SentOK, ToldTrue, InSession, Waits, OwnLoad
<1>2. CASE Dismiss \/ CancelSession
  <2>1. /\ Same(w, w', {"active", "instant", "form", "pop", "told"}) /\ w'.pop = "closed"
        /\ w'.told \in {w.told, [w.told EXCEPT ![w.form] = "cancelled"]}
    BY <1>2, DismissFacts
  <2>2. w'.fate = w.fate /\ w'.sub = w.sub /\ w'.load = w.load
    BY <2>1 DEF Same, Fields
  <2>3. \A f \in Form : w'.told[f] = "sent" => w.told[f] = "sent"
    BY <2>1 DEF TypeInv, IsW
  <2>4. QED BY <2>1, <2>2, <2>3 DEF SentOK, ToldTrue, InSession, Waits, OwnLoad
<1>3. CASE Submit \/ Capture
  <2>1. Same(w, w', {"pop", "sub", "shot"}) /\ Submitted(w, w') /\ w.pop # "closed"
    BY <1>3, SubmitFacts
  <2>2. /\ w'.told = w.told /\ w'.fate = w.fate /\ w'.active = w.active /\ w'.form = w.form /\ w'.load = w.load
    BY <2>1 DEF Same, Fields
  <2>3. QED BY <2>1, <2>2 DEF SentOK, ToldTrue, InSession, Waits, OwnLoad, Submitted
<1>4. QED BY <1>1, <1>2, <1>3

\* The submission.
LEMMA SentSubmission ==
  ASSUME TypeInv, SentOK(w), Identify \/ DismissIdentity \/ Sent \/ EndRefresh \/ \E queued \in BOOLEAN : FailSend(queued)
  PROVE  SentOK(w')
<1>1. CASE Identify
  <2>1. /\ Same(w, w', {"sub"}) /\ w'.sub # None /\ w'.sub.form = w.sub.form /\ w'.sub.stage = "sending" /\ InStage("identity")
    BY <1>1, IdentifyFacts DEF Identify
  <2>2. /\ w'.told = w.told /\ w'.fate = w.fate /\ w'.active = w.active /\ w'.form = w.form /\ w'.load = w.load
        /\ w'.pop = w.pop
    BY <2>1 DEF Same, Fields
  <2>3. QED BY <2>1, <2>2 DEF SentOK, ToldTrue, InSession, Waits, OwnLoad, InStage
<1>2. CASE DismissIdentity \/ EndRefresh
  <2>1. /\ Same(w, w', {"sub", "pop"}) /\ w'.sub = None
        /\ (w'.pop = w.pop /\ w.pop # "waiting") \/ (w.pop = "waiting" /\ w'.pop = "typing")
        /\ w.load # None => ~w.load.own
    <3>1. CASE DismissIdentity
      <4>1. InStage("identity")
        BY <3>1, DismissIdentityFacts
      <4>2. w.load # None => ~w.load.own
        BY <4>1 DEF InStage, SentOK, OwnLoad
      <4>3. QED BY <3>1, <4>2, DismissIdentityFacts
    <3>2. CASE EndRefresh
      <4>1. Same(w, w', {"sub"}) /\ w'.sub = None /\ InStage("refreshing") /\ (w.load # None => ~w.load.own)
        BY <3>2, EndRefreshFacts
      <4>2. w.pop # "waiting"
        BY <4>1 DEF InStage, SentOK, Waits
      <4>3. w'.pop = w.pop
        BY <4>1 DEF Same, Fields
      <4>4. Same(w, w', {"sub", "pop"})
        BY <4>1 DEF Same
      <4>5. QED BY <4>1, <4>2, <4>3, <4>4
    <3>3. QED BY <1>2, <3>1, <3>2
  <2>2. /\ w'.told = w.told /\ w'.fate = w.fate /\ w'.active = w.active /\ w'.form = w.form /\ w'.load = w.load
    BY <2>1 DEF Same, Fields
  <2>3. QED BY <2>1, <2>2 DEF SentOK, ToldTrue, InSession, Waits, OwnLoad
<1>3. CASE Sent
  <2>1. /\ IsW(w') /\ InStage("sending") /\ w.sub.form \in Form
        /\ w'.fate = [w.fate EXCEPT ![w.sub.form] = "sent"] /\ ToldSent(w, w')
        /\ w.open => w'.sub # None /\ w'.sub.stage = "refreshing"
        /\ ~w.open => w'.load = w.load
    BY <1>3, SentFacts
  <2>2. w.load # None => ~w.load.own
    BY <2>1 DEF InStage, SentOK, OwnLoad
  <2>3. OwnLoad(w')
    BY <2>1, <2>2 DEF OwnLoad
  <2>4. \A f \in Form : w.fate[f] \in {"sent", "queued"} \/ f = w.sub.form => w'.fate[f] \in {"sent", "queued"}
    BY <2>1 DEF TypeInv, IsW
  <2>5. ToldTrue(w')
    <3>1. CASE w.pop = "waiting"
      <4>1. w.form = w.sub.form /\ w'.told = [w.told EXCEPT ![w.form] = "sent"]
        BY <2>1, <3>1 DEF SentOK, Waits, ToldSent
      <4>2. \A f \in Form : w'.told[f] = "sent" => w.told[f] = "sent" \/ f = w.sub.form
        BY <4>1 DEF TypeInv, IsW
      <4>3. QED BY <2>4, <4>2 DEF SentOK, ToldTrue
    <3>2. CASE w.pop # "waiting"
      BY <2>1, <2>4, <3>2 DEF SentOK, ToldTrue, ToldSent
    <3>3. QED BY <3>1, <3>2
  <2>6. InSession(w') /\ Waits(w')
    BY <2>1 DEF SentOK, InSession, Waits, ToldSent
  <2>7. QED BY <2>3, <2>5, <2>6 DEF SentOK
<1>4. CASE \E queued \in BOOLEAN : FailSend(queued)
  <2>q. PICK queued \in BOOLEAN : FailSend(queued)
    BY <1>4
  <2>1. /\ Same(w, w', SentFields \cup {"sub", "fate"})
        /\ InStage("sending") /\ w.sub.form \in Form /\ w'.sub = None
        /\ queued => w'.fate = [w.fate EXCEPT ![w.sub.form] = "queued"] /\ ToldSent(w, w')
        /\ ~queued => /\ w'.fate = w.fate /\ w'.told = w.told /\ w'.active = w.active /\ w'.form = w.form
                      /\ w'.pop = IF w.pop = "waiting" THEN "typing" ELSE w.pop
    BY <2>q, FailSendFacts
  <2>2. w'.load = w.load
    BY <2>1 DEF Same, Fields, SentFields
  <2>3. OwnLoad(w')
    BY <2>1, <2>2 DEF InStage, SentOK, OwnLoad
  <2>4. CASE queued
    <3>1. \A f \in Form : w.fate[f] \in {"sent", "queued"} \/ f = w.sub.form => w'.fate[f] \in {"sent", "queued"}
      BY <2>1, <2>4 DEF TypeInv, IsW
    <3>2. ToldTrue(w')
      <4>1. CASE w.pop = "waiting"
        <5>1. w.form = w.sub.form /\ w'.told = [w.told EXCEPT ![w.form] = "sent"]
          BY <2>1, <2>4, <4>1 DEF SentOK, Waits, ToldSent
        <5>2. \A f \in Form : w'.told[f] = "sent" => w.told[f] = "sent" \/ f = w.sub.form
          BY <5>1 DEF TypeInv, IsW
        <5>3. QED BY <3>1, <5>2 DEF SentOK, ToldTrue
      <4>2. CASE w.pop # "waiting"
        BY <2>1, <2>4, <3>1, <4>2 DEF SentOK, ToldTrue, ToldSent
      <4>3. QED BY <4>1, <4>2
    <3>3. InSession(w') /\ Waits(w')
      BY <2>1, <2>4 DEF SentOK, InSession, Waits, ToldSent
    <3>4. QED BY <2>3, <3>2, <3>3 DEF SentOK
  <2>5. CASE ~queued
    BY <2>1, <2>3, <2>5 DEF SentOK, ToldTrue, InSession, Waits
  <2>6. QED BY <2>4, <2>5
<1>5. QED BY <1>1, <1>2, <1>3, <1>4

\* Every step keeps them.
LEMMA SentStep == TypeInv /\ SentOK(w) /\ [Next]_vars => SentOK(w')
<1> SUFFICES ASSUME TypeInv, SentOK(w), [Next]_vars PROVE SentOK(w')
  OBVIOUS
<1>1. CASE \E h \in Handle : Launch(h) \/ Destroy(h)
  <2>1. \/ Same(w, w', {"live", "refs"})
        \/ /\ Dead(w')
           /\ Same(w, w', {"live", "refs", "destroyed", "fetches", "load", "side", "sub", "open", "pending", "asked",
                           "pop", "form", "active", "pins"})
    BY <1>1, LaunchFacts, DestroyFacts
  <2>2. CASE Same(w, w', {"live", "refs"})
    BY <2>2, SameLoad, SentKept
  <2>3. CASE /\ Dead(w')
             /\ Same(w, w', {"live", "refs", "destroyed", "fetches", "load", "side", "sub", "open", "pending", "asked",
                             "pop", "form", "active", "pins"})
    <3>1. w'.told = w.told /\ w'.fate = w.fate
      BY <2>3 DEF Same, Fields
    <3>2. w'.pop = "closed" /\ w'.load = None
      BY <2>3 DEF Dead
    <3>3. QED BY <3>1, <3>2 DEF SentOK, ToldTrue, InSession, Waits, OwnLoad
  <2>4. QED BY <2>1, <2>2, <2>3
<1>2. CASE Land \/ UNCHANGED vars
  BY <1>2 DEF Land, vars
<1>3. QED BY <1>1, <1>2, SentLoads, SentPanel, SentSession, SentSubmission DEF Next

\* A popup closes as sent only when its own feedback was sent or queued:
\* SentMeansOwn, of the launcher's submissions and the bus all of them report on.
THEOREM ToldOfItsOwn == Spec => []SentMeansOwn
<1>1. Init => TypeInv /\ SentOK(w)
  BY Initially DEF SentOK, ToldTrue, InSession, Waits, OwnLoad
<1>2. TypeInv /\ SentOK(w) /\ [Next]_vars => (TypeInv /\ SentOK(w))'
  BY TypeStep, SentStep
<1>3. TypeInv /\ SentOK(w) => SentMeansOwn
  BY DEF SentOK, ToldTrue, InSession, Waits, SentMeansOwn
<1>4. QED BY <1>1, <1>2, <1>3, PTL DEF Spec

(***************************************************************************)
(* The pins follow the page.                                               *)
(***************************************************************************)
\* The request whose answer the open panel draws: its own load, or the query beside it.
Drawer(s, wide) == IF wide THEN s.side ELSE s.load

\* What x has read is of its page alone, and nothing sent from there is missing.
Complete(x, fate, h) ==
  x.read # None => /\ \A r \in x.read : h[r] = x.url
                   /\ \A f \in Form : fate[f] = "sent" /\ h[f] = x.url => f \in x.read

\* The pins drawn are those of page u.
Fine(s, u, h) ==
  /\ s.shown = u
  /\ \A r \in Row : /\ s.pins[r] <= 1
                    /\ s.pins[r] = 1 => h[r] = u
                    /\ (r \in Form /\ h[r] = u /\ s.fate[r] = "sent") => s.pins[r] = 1

\* No fetch is later than the last one; what was sent was recorded; a panel that lists
\* what the markers do asks once; a widget torn down is dead.
Ordered(s, h, wide) ==
  /\ \A x \in s.fetches : x.n <= s.gen
  /\ \A f \in Form : s.fate[f] = "sent" => h[f] # None
  /\ ~wide => s.side = None
  /\ s.destroyed => Dead(s)

\* Whatever may still be drawn is of the page it is drawn on.
Honest(s, u, h, wide) ==
  ~s.crossed =>
    /\ \A x \in s.fetches : x.n = s.gen => x.url = u /\ Complete(x, s.fate, h)
    /\ Drawer(s, wide) # None => Complete(Drawer(s, wide), s.fate, h)

\* The pins are the page's, or what will draw them is on its way.
Followed(s, u, h, wide) ==
  ~s.crossed /\ ~s.failed /\ ~s.destroyed =>
    \/ Fine(s, u, h)
    \/ Drawer(s, wide) # None
    \/ ~s.open /\ \E x \in s.fetches : x.n = s.gen

PinsOK(s, u, h, wide) == Ordered(s, h, wide) /\ Honest(s, u, h, wide) /\ Followed(s, u, h, wide)

\* A load just begun.
LEMMA DrawerBegun ==
  ASSUME NEW t, NEW u, Begun(t.load, u), Beside(t.side, u), budget.wide \in BOOLEAN
  PROVE  /\ Drawer(t, budget.wide) # None /\ Drawer(t, budget.wide).read = None
         /\ ~budget.wide => t.side = None
BY DEF Drawer, Begun, Beside

\* Steps that touch neither the pins nor what will draw them.
LEMMA PinsKept ==
  ASSUME NEW s, NEW t, NEW C, NEW u, NEW h, NEW wide, PinsOK(s, u, h, wide), ~s.destroyed, Same(s, t, C),
         C \cap {"fetches", "gen", "load", "side", "pins", "shown", "fate", "open", "crossed", "failed", "destroyed"} = {}
  PROVE  PinsOK(t, u, h, wide)
<1>1. /\ t.fetches = s.fetches /\ t.gen = s.gen /\ t.load = s.load /\ t.side = s.side /\ t.pins = s.pins
      /\ t.shown = s.shown /\ t.fate = s.fate /\ t.open = s.open /\ t.crossed = s.crossed /\ t.failed = s.failed
      /\ t.destroyed = s.destroyed
  BY DEF Same, Fields
<1>2. Drawer(t, wide) = Drawer(s, wide)
  BY <1>1 DEF Drawer
<1>3. QED BY <1>1, <1>2 DEF PinsOK, Ordered, Honest, Followed, Fine

\* A panel that begins to load, and closes or opens with it.
LEMMA PinsLoaded ==
  ASSUME NEW s, NEW t, NEW C, NEW u, NEW h, budget.wide \in BOOLEAN, PinsOK(s, u, h, budget.wide), ~s.destroyed,
         Same(s, t, C), C \cap {"fetches", "gen", "pins", "shown", "fate", "crossed", "failed", "destroyed"} = {},
         NEW v, Begun(t.load, v), Beside(t.side, v)
  PROVE  PinsOK(t, u, h, budget.wide)
<1>1. /\ t.fetches = s.fetches /\ t.gen = s.gen /\ t.fate = s.fate /\ t.crossed = s.crossed /\ t.destroyed = s.destroyed
  BY DEF Same, Fields
<1>2. /\ Drawer(t, budget.wide) # None /\ Drawer(t, budget.wide).read = None
      /\ ~budget.wide => t.side = None
  BY DrawerBegun
<1>3. Ordered(t, h, budget.wide)
  BY <1>1, <1>2 DEF PinsOK, Ordered
<1>4. Honest(t, u, h, budget.wide)
  BY <1>1, <1>2 DEF PinsOK, Honest, Complete
<1>5. QED BY <1>2, <1>3, <1>4 DEF PinsOK, Followed

\* Drawing a request that is complete, and of the page, settles it.
LEMMA DrawnStep ==
  ASSUME NEW t, NEW read, NEW u, NEW h, t.pins = [r \in Row |-> IF r \in read THEN 1 ELSE 0], t.shown = u,
         \A r \in read : h[r] = u, \A f \in Form : t.fate[f] = "sent" /\ h[f] = u => f \in read
  PROVE  Fine(t, u, h)
<1>1. ASSUME NEW r \in Row
      PROVE  /\ t.pins[r] <= 1 /\ (t.pins[r] = 1 => h[r] = u)
             /\ (r \in Form /\ h[r] = u /\ t.fate[r] = "sent") => t.pins[r] = 1
  <2>1. t.pins[r] = IF r \in read THEN 1 ELSE 0
    OBVIOUS
  <2>2. CASE r \in read
    BY <2>1, <2>2
  <2>3. CASE r \notin read
    BY <2>1, <2>3
  <2>4. QED BY <2>2, <2>3
<1>2. QED BY <1>1 DEF Fine

\* What was read now is complete.
LEMMA ReadNow ==
  ASSUME NEW x, x.read = Visible(x.url), NEW fate
  PROVE  Complete(x, fate, home)
BY DEF Complete, Visible, Row

\* A widget torn down does nothing more.
LEMMA DeadStops ==
  ASSUME w.destroyed, Dead(w), [Next]_vars
  PROVE  UNCHANGED vars
<1>1. ~ \E k : Spend(k)
  BY DEF Spend
<1>2. ~(FailLoad \/ FailSide \/ Reload \/ PanelFails \/ ImportFails \/ Open \/ Close \/ Refresh)
  BY <1>1 DEF FailLoad, FailSide, Reload, PanelFails, ImportFails, Open, Close, Refresh
<1>3. ~(ServeLoad \/ CommitLoad \/ ServeSide \/ CommitSide \/ Prefetch \/ ImportPanel)
  BY DEF ServeLoad, CommitLoad, ServeSide, CommitSide, Prefetch, ImportPanel, Dead
<1>4. ~((\E u \in Url : Navigate(u)) \/ \E x \in w.fetches : ServeFetch(x) \/ ArriveFetch(x) \/ FailFetch(x))
  BY <1>1 DEF Navigate, Dead
<1>5. ~(\/ StartDrawing \/ Dismiss \/ CancelSession \/ Submit \/ Capture
        \/ \E f \in Form : FinishDrawing(f) \/ StartInstantAnnotation(f))
  BY DEF StartDrawing, Dismiss, CancelSession, Submit, Capture, FinishDrawing, StartInstantAnnotation, Dead
<1>6. ~(\/ Identify \/ DismissIdentity \/ Land \/ Sent \/ EndRefresh \/ \E queued \in BOOLEAN : FailSend(queued))
  BY DEF Identify, DismissIdentity, Land, Sent, EndRefresh, FailSend, InStage, Dead
<1>7. ~(\E h \in Handle : Launch(h) \/ Destroy(h))
  BY <1>1 DEF Launch, Destroy
<1>8. QED BY <1>2, <1>3, <1>4, <1>5, <1>6, <1>7 DEF Next

\* A living widget whose pins are in order, before a step.
PinsBefore == TypeInv /\ PinsOK(w, route, home, budget.wide) /\ ~w.destroyed

\* Fields the pins depend on, where a step leaves them alone.
LEMMA DrawnFields ==
  ASSUME NEW s, NEW t, NEW C, Same(s, t, C)
  PROVE  /\ "fetches" \notin C => t.fetches = s.fetches
         /\ "gen" \notin C => t.gen = s.gen
         /\ "load" \notin C => t.load = s.load
         /\ "side" \notin C => t.side = s.side
         /\ "pins" \notin C => t.pins = s.pins
         /\ "shown" \notin C => t.shown = s.shown
         /\ "fate" \notin C => t.fate = s.fate
         /\ "open" \notin C => t.open = s.open
         /\ "crossed" \notin C => t.crossed = s.crossed
         /\ "failed" \notin C => t.failed = s.failed
         /\ "destroyed" \notin C => t.destroyed = s.destroyed
BY DEF Same, Fields

\* The server answers a request for markers.
LEMMA PinsServed ==
  ASSUME PinsBefore, ServeLoad \/ ServeSide
  PROVE  PinsOK(w', route, home, budget.wide)
<1>1. /\ Same(w, w', {"load", "side"})
      /\ (w.side = None) = (w'.side = None) /\ (w.load = None) = (w'.load = None)
      /\ w'.load = w.load \/ w'.load.read = Visible(w'.load.url)
      /\ w'.side = w.side \/ w'.side.read = Visible(w'.side.url)
  <2>1. CASE ServeLoad
    BY <2>1, ServeLoadFacts, DrawnFields DEF PinsBefore, Same, Fields
  <2>2. CASE ServeSide
    BY <2>2, ServeSideFacts, DrawnFields DEF PinsBefore, Same, Fields
  <2>3. QED BY <2>1, <2>2
<1>2. /\ w'.fetches = w.fetches /\ w'.gen = w.gen /\ w'.pins = w.pins /\ w'.shown = w.shown /\ w'.fate = w.fate
      /\ w'.open = w.open /\ w'.crossed = w.crossed /\ w'.failed = w.failed /\ w'.destroyed = w.destroyed
  BY <1>1, DrawnFields
<1>3. /\ (Drawer(w', budget.wide) = None) = (Drawer(w, budget.wide) = None)
      /\ \/ Drawer(w', budget.wide) = Drawer(w, budget.wide)
         \/ Drawer(w', budget.wide).read = Visible(Drawer(w', budget.wide).url)
  BY <1>1 DEF Drawer
<1>4. Ordered(w', home, budget.wide)
  BY <1>1, <1>2 DEF PinsBefore, PinsOK, Ordered
<1>5. Honest(w', route, home, budget.wide)
  <2>1. ASSUME ~w'.crossed, Drawer(w', budget.wide) # None PROVE Complete(Drawer(w', budget.wide), w'.fate, home)
    <3>1. CASE Drawer(w', budget.wide) = Drawer(w, budget.wide)
      BY <1>2, <2>1, <3>1 DEF PinsBefore, PinsOK, Honest
    <3>2. CASE Drawer(w', budget.wide).read = Visible(Drawer(w', budget.wide).url)
      BY <3>2, ReadNow
    <3>3. QED BY <1>3, <3>1, <3>2
  <2>2. QED BY <1>2, <2>1 DEF PinsBefore, PinsOK, Honest
<1>6. Followed(w', route, home, budget.wide)
  BY <1>2, <1>3 DEF PinsBefore, PinsOK, Followed, Fine
<1>7. QED BY <1>4, <1>5, <1>6 DEF PinsOK

\* The panel draws what its load, or the query beside it, has read.
LEMMA PinsCommitted ==
  ASSUME PinsBefore, CommitLoad \/ CommitSide
  PROVE  PinsOK(w', route, home, budget.wide)
<1>1. CASE CommitLoad /\ budget.wide
  <2>1. Same(w, w', {"load", "sub"})
    BY <1>1, CommitLoadFacts DEF PinsBefore
  <2>2. /\ w'.fetches = w.fetches /\ w'.gen = w.gen /\ w'.side = w.side /\ w'.pins = w.pins /\ w'.shown = w.shown
        /\ w'.fate = w.fate /\ w'.open = w.open /\ w'.crossed = w.crossed /\ w'.failed = w.failed
        /\ w'.destroyed = w.destroyed
    BY <2>1, DrawnFields
  <2>3. Drawer(w', budget.wide) = Drawer(w, budget.wide)
    BY <1>1, <2>2 DEF Drawer
  <2>4. QED BY <2>2, <2>3 DEF PinsBefore, PinsOK, Ordered, Honest, Followed, Fine
<1>2. CASE ~(CommitLoad /\ budget.wide)
  <2>x. PICK x : x = Drawer(w, budget.wide)
    OBVIOUS
  <2>1. /\ Same(w, w', {"load", "side", "sub", "pins", "shown", "failed", "crossed"})
        /\ x # None /\ x.read # None /\ w'.pins = [r \in Row |-> IF r \in x.read THEN 1 ELSE 0] /\ w'.shown = x.url
        /\ w'.crossed <=> w.crossed \/ x.url # route
        /\ Drawer(w', budget.wide) = None /\ (~budget.wide => w'.side = None)
    <3>1. CASE CommitLoad
      <4>1. /\ Same(w, w', {"load", "sub", "pins", "shown", "failed", "crossed"}) /\ x = w.load /\ ~budget.wide
            /\ w'.load = None
        BY <1>2, <2>x, <3>1, CommitLoadFacts DEF PinsBefore, Drawer
      <4>2. w'.side = w.side /\ w.side = None
        BY <4>1, DrawnFields DEF PinsBefore, PinsOK, Ordered
      <4>3. /\ w.load # None /\ w.load.read # None /\ w'.pins = [r \in Row |-> IF r \in w.load.read THEN 1 ELSE 0]
            /\ w'.shown = w.load.url /\ (w'.crossed <=> w.crossed \/ w.load.url # route)
        BY <3>1, <4>1, CommitLoadFacts DEF PinsBefore
      <4>4. Drawer(w', budget.wide) = None
        BY <4>1 DEF Drawer
      <4>5. QED BY <4>1, <4>2, <4>3, <4>4 DEF Same
    <3>2. CASE CommitSide
      <4>1. w.side # None
        BY <3>2, CommitSideFacts DEF PinsBefore
      <4>2. budget.wide = TRUE /\ x = w.side
        BY <2>x, <4>1 DEF PinsBefore, PinsOK, Ordered, Drawer, TypeInv
      <4>3. /\ Same(w, w', {"side", "pins", "shown", "failed", "crossed"}) /\ w'.side = None
            /\ w.side.read # None /\ w'.pins = [r \in Row |-> IF r \in w.side.read THEN 1 ELSE 0]
            /\ w'.shown = w.side.url /\ (w'.crossed <=> w.crossed \/ w.side.url # route)
        BY <3>2, CommitSideFacts DEF PinsBefore
      <4>4. Drawer(w', budget.wide) = None
        BY <4>2, <4>3 DEF Drawer
      <4>5. QED BY <4>1, <4>2, <4>3, <4>4 DEF Same
    <3>3. QED BY <3>1, <3>2
  <2>2. /\ w'.fetches = w.fetches /\ w'.gen = w.gen /\ w'.fate = w.fate /\ w'.open = w.open /\ w'.destroyed = w.destroyed
    BY <2>1, DrawnFields
  <2>3. Ordered(w', home, budget.wide)
    BY <2>1, <2>2 DEF PinsBefore, PinsOK, Ordered
  <2>4. Honest(w', route, home, budget.wide)
    BY <2>1, <2>2 DEF PinsBefore, PinsOK, Honest
  <2>5. ASSUME ~w'.crossed PROVE Fine(w', route, home)
    <3>1. ~w.crossed /\ x.url = route
      BY <2>1, <2>5
    <3>2. Complete(x, w.fate, home)
      BY <2>1, <2>x, <3>1 DEF PinsBefore, PinsOK, Honest
    <3>3. (\A r \in x.read : home[r] = route) /\ \A f \in Form : w'.fate[f] = "sent" /\ home[f] = route => f \in x.read
      BY <2>1, <2>2, <3>1, <3>2 DEF Complete
    <3>4. QED BY <2>1, <3>1, <3>3, DrawnStep
  <2>6. Followed(w', route, home, budget.wide)
    BY <2>5 DEF Followed
  <2>7. QED BY <2>3, <2>4, <2>6 DEF PinsOK
<1>3. QED BY <1>1, <1>2

\* A load that fails is remembered as a failed refresh.
LEMMA PinsFailed ==
  ASSUME PinsBefore, FailLoad \/ FailSide
  PROVE  PinsOK(w', route, home, budget.wide)
<1>1. /\ Same(w, w', {"load", "side", "sub", "failed", "pop"}) /\ w'.failed
      /\ w'.load \in {None, w.load} /\ w'.side \in {None, w.side}
  <2>1. CASE FailLoad
    <3>1. Same(w, w', {"load", "sub", "failed", "pop"}) /\ w'.failed /\ w'.load = None
      BY <2>1, FailLoadFacts DEF PinsBefore
    <3>2. QED BY <3>1, DrawnFields DEF Same
  <2>2. CASE FailSide
    <3>1. Same(w, w', {"side", "failed"}) /\ w'.failed /\ w'.side = None
      BY <2>2, FailSideFacts DEF PinsBefore
    <3>2. QED BY <3>1, DrawnFields DEF Same
  <2>3. QED BY <2>1, <2>2
<1>2. /\ w'.fetches = w.fetches /\ w'.gen = w.gen /\ w'.fate = w.fate /\ w'.crossed = w.crossed
      /\ w'.destroyed = w.destroyed
  BY <1>1, DrawnFields
<1>3. Drawer(w', budget.wide) \in {None, Drawer(w, budget.wide)}
  BY <1>1 DEF Drawer
<1>4. Ordered(w', home, budget.wide) /\ Honest(w', route, home, budget.wide)
  BY <1>1, <1>2, <1>3 DEF PinsBefore, PinsOK, Ordered, Honest
<1>5. QED BY <1>1, <1>4 DEF PinsOK, Followed

\* The panel opens, closes or loads.
LEMMA PinsPanel ==
  ASSUME PinsBefore, Reload \/ ImportPanel \/ Open \/ Close
  PROVE  PinsOK(w', route, home, budget.wide)
<1>t. budget.wide \in BOOLEAN
  BY DEF PinsBefore, TypeInv
<1>1. CASE Reload
  <2>1. Same(w, w', {"load", "side"}) /\ Begun(w'.load, route) /\ Beside(w'.side, route)
    BY <1>1, ReloadFacts DEF PinsBefore
  <2>2. QED BY <1>t, <2>1, PinsLoaded DEF PinsBefore
<1>2. CASE ImportPanel \/ Open
  <2>1. /\ Same(w, w', {"panel", "pending", "linked", "asked", "open", "load", "side"})
        /\ \/ w'.open = w.open /\ w'.load = w.load /\ w'.side = w.side
           \/ Begun(w'.load, route) /\ Beside(w'.side, route)
    <3>1. CASE ImportPanel
      BY <3>1, ImportPanelFacts DEF PinsBefore
    <3>2. CASE Open /\ w.panel = "loaded"
      <4>1. /\ Same(w, w', {"asked", "open", "load", "side"})
            /\ \/ w'.open = w.open /\ w'.load = w.load /\ w'.side = w.side
               \/ Begun(w'.load, route) /\ Beside(w'.side, route)
        BY <3>2, OpenFacts DEF PinsBefore
      <4>2. QED BY <4>1 DEF Same
    <3>3. CASE Open /\ w.panel # "loaded"
      <4>1. Same(w, w', {"asked", "pending", "panel"})
        BY <3>3, OpenFacts DEF PinsBefore
      <4>2. w'.open = w.open /\ w'.load = w.load /\ w'.side = w.side
        BY <4>1, DrawnFields
      <4>3. QED BY <4>1, <4>2 DEF Same
    <3>4. QED BY <1>2, <3>1, <3>2, <3>3
  <2>2. CASE w'.open = w.open /\ w'.load = w.load /\ w'.side = w.side
    <3>1. Same(w, w', {"panel", "pending", "linked", "asked"})
      BY <2>1, <2>2 DEF Same, Fields
    <3>2. QED BY <3>1, PinsKept DEF PinsBefore
  <2>3. CASE Begun(w'.load, route) /\ Beside(w'.side, route)
    BY <1>t, <2>1, <2>3, PinsLoaded DEF PinsBefore
  <2>4. QED BY <2>1, <2>2, <2>3
<1>3. CASE Close
  <2>1. /\ Same(w, w', {"open", "asked", "pending"})
        /\ w.panel = "loaded" => ~w'.open
        /\ w.panel # "loaded" => w'.open = w.open
    BY <1>3, CloseFacts DEF PinsBefore
  <2>2. /\ w'.fetches = w.fetches /\ w'.gen = w.gen /\ w'.load = w.load /\ w'.side = w.side /\ w'.pins = w.pins
        /\ w'.shown = w.shown /\ w'.fate = w.fate /\ w'.crossed = w.crossed /\ w'.failed = w.failed
        /\ w'.destroyed = w.destroyed
    BY <2>1, DrawnFields
  <2>3. Drawer(w', budget.wide) = Drawer(w, budget.wide)
    BY <2>2 DEF Drawer
  <2>4. w'.open => w.open
    BY <2>1
  <2>5. Ordered(w', home, budget.wide) /\ Honest(w', route, home, budget.wide)
    BY <2>2, <2>3 DEF PinsBefore, PinsOK, Ordered, Honest
  <2>6. Followed(w', route, home, budget.wide)
    BY <2>2, <2>3, <2>4 DEF PinsBefore, PinsOK, Followed, Fine
  <2>7. QED BY <2>5, <2>6 DEF PinsOK
<1>4. QED BY <1>1, <1>2, <1>3

\* The markers are asked for again, on the page or on another.
LEMMA PinsAsked ==
  ASSUME PinsBefore, NEW u \in Url, Asked(w, w', u)
  PROVE  PinsOK(w', u, home, budget.wide)
<1>1. /\ w'.pins = w.pins /\ w'.shown = w.shown /\ w'.fate = w.fate /\ w'.open = w.open /\ w'.crossed = w.crossed
      /\ w'.failed = w.failed /\ w'.destroyed = w.destroyed /\ w'.gen = w.gen + 1
  BY DrawnFields DEF Asked
<1>2. w.gen \in Nat /\ budget.wide \in BOOLEAN /\ w.fetches \subseteq Fetch
  BY DEF PinsBefore, TypeInv, IsW
<1>3. \A x \in w.fetches : x.n <= w.gen /\ x.n \in Nat
  BY <1>2 DEF PinsBefore, PinsOK, Ordered, Fetch
<1>4. CASE w.open
  <2>1. w'.fetches = w.fetches /\ Begun(w'.load, u) /\ Beside(w'.side, u)
    BY <1>4 DEF Asked
  <2>2. /\ Drawer(w', budget.wide) # None /\ Drawer(w', budget.wide).read = None
        /\ ~budget.wide => w'.side = None
    BY <1>2, <2>1, DrawerBegun
  <2>3. \A x \in w'.fetches : x.n <= w'.gen /\ x.n # w'.gen
    BY <1>1, <1>2, <1>3, <2>1
  <2>4. Ordered(w', home, budget.wide)
    BY <1>1, <2>2, <2>3 DEF PinsBefore, PinsOK, Ordered
  <2>5. Honest(w', u, home, budget.wide)
    BY <2>2, <2>3 DEF Honest, Complete
  <2>6. QED BY <2>2, <2>4, <2>5 DEF PinsOK, Followed
<1>5. CASE ~w.open
  <2>1. PICK x \in Fetch : w'.fetches = w.fetches \cup {x} /\ x.n = w.gen + 1 /\ x.url = u /\ x.read = None
    BY <1>5 DEF Asked
  <2>2. w'.load = w.load /\ w'.side = w.side
    BY <1>5 DEF Asked
  <2>3. Drawer(w', budget.wide) = Drawer(w, budget.wide)
    BY <2>2 DEF Drawer
  <2>4. \A y \in w'.fetches : y.n <= w'.gen /\ (y.n = w'.gen => y = x)
    BY <1>1, <1>2, <1>3, <2>1
  <2>5. Ordered(w', home, budget.wide)
    BY <1>1, <2>2, <2>4 DEF PinsBefore, PinsOK, Ordered
  <2>6. Complete(x, w'.fate, home)
    BY <2>1 DEF Complete
  <2>7. Honest(w', u, home, budget.wide)
    BY <1>1, <2>1, <2>3, <2>4, <2>6 DEF PinsBefore, PinsOK, Honest
  <2>8. Followed(w', u, home, budget.wide)
    BY <1>1, <1>5, <2>1 DEF Followed
  <2>9. QED BY <2>5, <2>7, <2>8 DEF PinsOK
<1>6. QED BY <1>4, <1>5

\* A navigation.  To the scope last asked for it fetches nothing: what is drawn, or
\* about to be, is of that scope already, or the overlap is remembered.
LEMMA PinsNavigated ==
  ASSUME PinsBefore, NEW u \in Url, Navigate(u)
  PROVE  PinsOK(w', u, home, budget.wide)
<1>1. CASE u # w.lastKey
  <2>1. Asked(w, w', u)
    BY <1>1, NavigateFacts DEF PinsBefore
  <2>2. QED BY <2>1, PinsAsked
<1>2. CASE u = w.lastKey
  <2>1. /\ Same(w, w', {"crossed"}) /\ u # route
        /\ w'.crossed <=> w.crossed \/ w.shown # u \/ \E x \in w.fetches : x.n = w.gen /\ x.url # u
    BY <1>2, NavigateFacts DEF PinsBefore
  <2>2. /\ w'.fetches = w.fetches /\ w'.gen = w.gen /\ w'.load = w.load /\ w'.side = w.side /\ w'.pins = w.pins
        /\ w'.shown = w.shown /\ w'.fate = w.fate /\ w'.open = w.open /\ w'.failed = w.failed /\ w'.destroyed = w.destroyed
    BY <2>1, DrawnFields
  <2>3. Drawer(w', budget.wide) = Drawer(w, budget.wide)
    BY <2>2 DEF Drawer
  <2>4. Ordered(w', home, budget.wide)
    BY <2>2 DEF PinsBefore, PinsOK, Ordered
  <2>5. Honest(w', u, home, budget.wide)
    BY <2>1, <2>2, <2>3 DEF PinsBefore, PinsOK, Honest
  <2>6. Followed(w', u, home, budget.wide)
    <3>1. ASSUME ~w'.crossed PROVE ~w.crossed /\ ~Fine(w, route, home)
      BY <2>1, <3>1 DEF Fine
    <3>2. QED BY <2>2, <2>3, <3>1 DEF PinsBefore, PinsOK, Followed
  <2>7. QED BY <2>4, <2>5, <2>6 DEF PinsOK
<1>3. QED BY <1>1, <1>2

\* The launcher's own fetches are answered.
LEMMA PinsServedFetch ==
  ASSUME PinsBefore, NEW x \in w.fetches, ServeFetch(x)
  PROVE  PinsOK(w', route, home, budget.wide)
<1>1. Same(w, w', {"fetches"})
  BY ServeFetchFacts DEF PinsBefore
<1>2. PICK y \in Fetch : /\ w'.fetches = (w.fetches \ {x}) \cup {y}
                         /\ y.n = x.n /\ y.url = x.url /\ y.read = Visible(x.url)
  BY ServeFetchFacts DEF PinsBefore
<1>3. /\ w'.gen = w.gen /\ w'.load = w.load /\ w'.side = w.side /\ w'.pins = w.pins /\ w'.crossed = w.crossed
      /\ w'.shown = w.shown /\ w'.fate = w.fate /\ w'.open = w.open /\ w'.failed = w.failed /\ w'.destroyed = w.destroyed
  BY <1>1, DrawnFields
<1>4. Drawer(w', budget.wide) = Drawer(w, budget.wide)
  BY <1>3 DEF Drawer
<1>5. Complete(y, w'.fate, home)
  BY <1>2, ReadNow
<1>6. Ordered(w', home, budget.wide)
  BY <1>2, <1>3 DEF PinsBefore, PinsOK, Ordered
<1>7. Honest(w', route, home, budget.wide)
  BY <1>2, <1>3, <1>4, <1>5 DEF PinsBefore, PinsOK, Honest
<1>8. Followed(w', route, home, budget.wide)
  <2>1. (\E z \in w.fetches : z.n = w.gen) => \E z \in w'.fetches : z.n = w'.gen
    BY <1>2, <1>3
  <2>2. QED BY <1>3, <1>4, <2>1 DEF PinsBefore, PinsOK, Followed, Fine
<1>9. QED BY <1>6, <1>7, <1>8 DEF PinsOK

\* A fetch that arrives is drawn when it is the latest; then the pins are the page's.
LEMMA PinsArrived ==
  ASSUME PinsBefore, NEW x \in w.fetches, ArriveFetch(x)
  PROVE  PinsOK(w', route, home, budget.wide)
<1>1. /\ x.read # None /\ w'.fetches = w.fetches \ {x}
      /\ ~Latest(x) => Same(w, w', {"fetches"})
      /\ Latest(x) => /\ Same(w, w', {"fetches", "pins", "shown", "failed"} \cup LinkFields)
                      /\ w'.pins = [r \in Row |-> IF r \in x.read THEN 1 ELSE 0] /\ w'.shown = x.url
                      /\ \/ w'.load = w.load /\ w'.side = w.side
                         \/ Begun(w'.load, route) /\ Beside(w'.side, route)
  BY ArriveFetchFacts DEF PinsBefore
<1>2. CASE ~Latest(x)
  <2>1. /\ w'.gen = w.gen /\ w'.load = w.load /\ w'.side = w.side /\ w'.pins = w.pins /\ w'.crossed = w.crossed
        /\ w'.shown = w.shown /\ w'.fate = w.fate /\ w'.open = w.open /\ w'.failed = w.failed /\ w'.destroyed = w.destroyed
    BY <1>1, <1>2, DrawnFields
  <2>2. Drawer(w', budget.wide) = Drawer(w, budget.wide)
    BY <2>1 DEF Drawer
  <2>3. Ordered(w', home, budget.wide) /\ Honest(w', route, home, budget.wide)
    BY <1>1, <2>1, <2>2 DEF PinsBefore, PinsOK, Ordered, Honest
  <2>4. x.n = w.gen => w.open
    BY <1>2 DEF Latest
  <2>5. Followed(w', route, home, budget.wide)
    BY <1>1, <2>1, <2>2, <2>4 DEF PinsBefore, PinsOK, Followed, Fine
  <2>6. QED BY <2>3, <2>5 DEF PinsOK
<1>3. CASE Latest(x)
  <2>1. Same(w, w', {"fetches", "pins", "shown", "failed"} \cup LinkFields) /\ x.n = w.gen
    BY <1>1, <1>3 DEF Latest
  <2>2. w'.gen = w.gen /\ w'.crossed = w.crossed /\ w'.fate = w.fate /\ w'.destroyed = w.destroyed
    BY <2>1, DrawnFields DEF LinkFields
  <2>3. /\ Drawer(w', budget.wide) = Drawer(w, budget.wide) \/ Drawer(w', budget.wide).read = None
        /\ ~budget.wide => w'.side = None
    <3>1. CASE w'.load = w.load /\ w'.side = w.side
      BY <3>1 DEF Drawer, PinsBefore, PinsOK, Ordered
    <3>2. CASE Begun(w'.load, route) /\ Beside(w'.side, route)
      BY <3>2, DrawerBegun DEF PinsBefore, TypeInv
    <3>3. QED BY <1>1, <1>3, <3>1, <3>2
  <2>4. Ordered(w', home, budget.wide)
    BY <1>1, <2>2, <2>3 DEF PinsBefore, PinsOK, Ordered
  <2>5. Honest(w', route, home, budget.wide)
    BY <1>1, <2>2, <2>3 DEF PinsBefore, PinsOK, Honest, Complete
  <2>6. ASSUME ~w'.crossed PROVE Fine(w', route, home)
    <3>1. x.url = route /\ Complete(x, w.fate, home)
      BY <2>1, <2>2, <2>6 DEF PinsBefore, PinsOK, Honest
    <3>2. (\A r \in x.read : home[r] = route) /\ \A f \in Form : w'.fate[f] = "sent" /\ home[f] = route => f \in x.read
      BY <1>1, <2>2, <3>1 DEF Complete
    <3>3. QED BY <1>1, <1>3, <3>1, <3>2, DrawnStep
  <2>7. QED BY <2>4, <2>5, <2>6 DEF PinsOK, Followed
<1>4. QED BY <1>2, <1>3

\* A fetch that fails is remembered, when it is the last one.
LEMMA PinsFailedFetch ==
  ASSUME PinsBefore, NEW x \in w.fetches, FailFetch(x)
  PROVE  PinsOK(w', route, home, budget.wide)
<1>1. /\ Same(w, w', {"fetches", "failed", "lastKey"}) /\ w'.fetches = w.fetches \ {x}
      /\ w'.failed <=> w.failed \/ x.n = w.gen
  BY FailFetchFacts DEF PinsBefore
<1>2. /\ w'.gen = w.gen /\ w'.load = w.load /\ w'.side = w.side /\ w'.pins = w.pins /\ w'.crossed = w.crossed
      /\ w'.shown = w.shown /\ w'.fate = w.fate /\ w'.open = w.open /\ w'.destroyed = w.destroyed
  BY <1>1, DrawnFields
<1>3. Drawer(w', budget.wide) = Drawer(w, budget.wide)
  BY <1>2 DEF Drawer
<1>4. Ordered(w', home, budget.wide) /\ Honest(w', route, home, budget.wide)
  BY <1>1, <1>2, <1>3 DEF PinsBefore, PinsOK, Ordered, Honest
<1>5. Followed(w', route, home, budget.wide)
  <2>1. ASSUME ~w'.failed PROVE ~w.failed /\ \A z \in w.fetches : z.n = w.gen => z \in w'.fetches
    BY <1>1, <2>1
  <2>2. QED BY <1>2, <1>3, <2>1 DEF PinsBefore, PinsOK, Followed, Fine
<1>6. QED BY <1>4, <1>5 DEF PinsOK

\* A feedback the server records is on no pin, and was not told as sent, before.
LEMMA PinsLanded ==
  ASSUME PinsBefore, Land
  PROVE  PinsOK(w', route, home', budget.wide)
<1>f. PICK f : f = w.sub.form
  OBVIOUS
<1>1. /\ w' = w /\ home[f] = None /\ f \in Form /\ home' = [home EXCEPT ![f] = w.sub.url]
  BY <1>f DEF Land, InStage, PinsBefore, TypeInv, IsW, Sending
<1>2. /\ None \notin Url /\ home \in [Row -> Url \cup {None}] /\ w.fate[f] # "sent" /\ route \in Url
  BY <1>1, WidgetAssumption DEF PinsBefore, PinsOK, Ordered, TypeInv
<1>3. \A r \in Row : home'[r] = IF r = f THEN w.sub.url ELSE home[r]
  BY <1>1, <1>2
<1>r. ASSUME NEW x, x.url \in Url, x.read \in (SUBSET Row) \cup {None}, Complete(x, w.fate, home)
      PROVE  Complete(x, w.fate, home')
  BY <1>r, <1>1, <1>2, <1>3 DEF Complete, Row
<1>4. Ordered(w, home', budget.wide)
  BY <1>2, <1>3 DEF PinsBefore, PinsOK, Ordered, Row
<1>5. \A x \in w.fetches : x.url \in Url /\ x.read \in (SUBSET Row) \cup {None}
  BY DEF PinsBefore, TypeInv, IsW, Fetch
<1>6. ASSUME Drawer(w, budget.wide) # None
      PROVE  Drawer(w, budget.wide).url \in Url /\ Drawer(w, budget.wide).read \in (SUBSET Row) \cup {None}
  BY <1>6 DEF PinsBefore, TypeInv, IsW, Load, Side, Drawer
<1>7. Honest(w, route, home', budget.wide)
  BY <1>r, <1>5, <1>6 DEF PinsBefore, PinsOK, Honest
<1>8. Fine(w, route, home) => Fine(w, route, home')
  <2> SUFFICES ASSUME Fine(w, route, home), NEW r \in Row
               PROVE  /\ w.pins[r] <= 1 /\ (w.pins[r] = 1 => home'[r] = route)
                      /\ (r \in Form /\ home'[r] = route /\ w.fate[r] = "sent") => w.pins[r] = 1
    BY DEF Fine
  <2>1. /\ w.pins[r] <= 1 /\ (w.pins[r] = 1 => home[r] = route)
        /\ (r \in Form /\ home[r] = route /\ w.fate[r] = "sent") => w.pins[r] = 1
    BY DEF Fine
  <2>2. CASE r = f
    BY <1>1, <1>2, <2>1, <2>2
  <2>3. CASE r # f
    BY <1>3, <2>1, <2>3
  <2>4. QED BY <2>2, <2>3
<1>9. Followed(w, route, home', budget.wide)
  BY <1>8 DEF PinsBefore, PinsOK, Followed
<1>10. QED BY <1>1, <1>4, <1>7, <1>9 DEF PinsOK

\* What is read already lacks the feedback that is told as sent only at an overlap.
LEMMA SentComplete ==
  ASSUME NEW x, NEW f \in Form, NEW fate, NEW told, fate \in [Form -> {"none", "sent", "queued"}],
         told = [fate EXCEPT ![f] = "sent"], NEW h, Complete(x, fate, h), x.read # None => f \in x.read
  PROVE  Complete(x, told, h)
<1>1. \A g \in Form : told[g] = IF g = f THEN "sent" ELSE fate[g]
  OBVIOUS
<1>2. QED BY <1>1 DEF Complete

\* A feedback that was sent gets its pin, or a refresh that will draw it.
LEMMA PinsSent ==
  ASSUME PinsBefore, Sent
  PROVE  PinsOK(w', route, home, budget.wide)
<1>f. PICK f : f = w.sub.form
  OBVIOUS
<1>1. /\ Same(w, w', SentFields \cup {"fate", "crossed", "pins", "sub", "load", "side"})
      /\ f \in Form /\ home[f] # None /\ w'.fate = [w.fate EXCEPT ![f] = "sent"]
      /\ w'.crossed <=> w.crossed \/ Crosses(f)
      /\ w'.pins = IF home[f] = w.sub.url THEN [w.pins EXCEPT ![f] = @ + 1] ELSE w.pins
      /\ w.open => Begun(w'.load, route) /\ Beside(w'.side, route)
      /\ ~w.open => w'.load = w.load /\ w'.side = w.side
  BY <1>f, SentFacts DEF PinsBefore
<1>2. /\ w'.fetches = w.fetches /\ w'.gen = w.gen /\ w'.shown = w.shown /\ w'.open = w.open /\ w'.failed = w.failed
      /\ w'.destroyed = w.destroyed
  BY <1>1, DrawnFields DEF SentFields
<1>3. /\ w.fate \in [Form -> {"none", "sent", "queued"}] /\ w.pins \in [Row -> Nat] /\ f \in Row /\ budget.wide \in BOOLEAN
  BY <1>1 DEF PinsBefore, TypeInv, IsW, Row
<1>4. \A g \in Form : w'.fate[g] = "sent" <=> g = f \/ w.fate[g] = "sent"
  BY <1>1, <1>3
<1>5. /\ w.open => Drawer(w', budget.wide) # None /\ Drawer(w', budget.wide).read = None
      /\ ~budget.wide => w'.side = None
  <2>1. CASE w.open
    BY <1>1, <1>3, <2>1, DrawerBegun
  <2>2. CASE ~w.open
    BY <1>1, <2>2 DEF PinsBefore, PinsOK, Ordered
  <2>3. QED BY <2>1, <2>2
<1>6. ~w.open => Drawer(w', budget.wide) = Drawer(w, budget.wide)
  BY <1>1 DEF Drawer
<1>7. Ordered(w', home, budget.wide)
  BY <1>1, <1>2, <1>4, <1>5 DEF PinsBefore, PinsOK, Ordered
<1>8. ASSUME ~w'.crossed
      PROVE  /\ ~w.crossed
             /\ \A x \in w.fetches : x.n = w.gen /\ x.read # None => f \in x.read
             /\ ~w.open /\ Drawer(w, budget.wide) # None /\ Drawer(w, budget.wide).read # None
                => f \in Drawer(w, budget.wide).read
             /\ ~w.open /\ home[f] = w.sub.url => route = w.sub.url /\ ~(w.pins[f] > 0)
             /\ ~w.open /\ home[f] = route => route = w.sub.url \/ w.pins[f] # 0
  <2>1. ~w.crossed /\ ~Crosses(f)
    BY <1>1, <1>8
  <2>2. \A x \in w.fetches : x # None
    BY WidgetAssumption DEF PinsBefore, TypeInv, IsW
  <2>3. QED BY <2>1, <2>2 DEF Crosses, Lacks, Drawer
<1>9. Honest(w', route, home, budget.wide)
  <2> SUFFICES ASSUME ~w'.crossed
               PROVE  /\ \A x \in w.fetches : x.n = w.gen => x.url = route /\ Complete(x, w'.fate, home)
                      /\ Drawer(w', budget.wide) # None => Complete(Drawer(w', budget.wide), w'.fate, home)
    BY <1>2 DEF Honest
  <2>1. ASSUME NEW x \in w.fetches, x.n = w.gen PROVE x.url = route /\ Complete(x, w'.fate, home)
    <3>1. x.url = route /\ Complete(x, w.fate, home) /\ (x.read # None => f \in x.read)
      BY <1>8, <2>1 DEF PinsBefore, PinsOK, Honest
    <3>2. QED BY <1>1, <1>3, <3>1, SentComplete
  <2>2. ASSUME Drawer(w', budget.wide) # None PROVE Complete(Drawer(w', budget.wide), w'.fate, home)
    <3>1. CASE w.open
      BY <1>5, <3>1 DEF Complete
    <3>2. CASE ~w.open
      <4>x. PICK x : x = Drawer(w, budget.wide)
        OBVIOUS
      <4>1. Drawer(w', budget.wide) = x /\ x # None
        BY <1>6, <2>2, <3>2, <4>x
      <4>2. Complete(x, w.fate, home) /\ (x.read # None => f \in x.read)
        BY <1>8, <3>2, <4>x, <4>1 DEF PinsBefore, PinsOK, Honest
      <4>3. Complete(x, w'.fate, home)
        BY <1>1, <1>3, <4>2, SentComplete
      <4>4. QED BY <4>1, <4>3
    <3>3. QED BY <3>1, <3>2
  <2>3. QED BY <2>1, <2>2
<1>10. ASSUME ~w.open, ~w'.crossed, Fine(w, route, home) PROVE Fine(w', route, home)
  <2> SUFFICES ASSUME NEW r \in Row
               PROVE  /\ w'.pins[r] <= 1 /\ (w'.pins[r] = 1 => home[r] = route)
                      /\ (r \in Form /\ home[r] = route /\ w'.fate[r] = "sent") => w'.pins[r] = 1
    BY <1>2, <1>10 DEF Fine
  <2>1. /\ w.pins[r] <= 1 /\ (w.pins[r] = 1 => home[r] = route)
        /\ (r \in Form /\ home[r] = route /\ w.fate[r] = "sent") => w.pins[r] = 1
    BY <1>10 DEF Fine
  <2>2. w.pins[r] \in Nat
    BY <1>3
  <2>3. CASE r # f
    <3>1. w'.pins[r] = w.pins[r]
      BY <1>1, <1>3, <2>3
    <3>2. QED BY <1>4, <2>1, <2>3, <3>1
  <2>4. CASE r = f /\ home[f] = w.sub.url
    <3>1. w'.pins[f] = w.pins[f] + 1
      BY <1>1, <1>3, <2>4
    <3>2. route = w.sub.url /\ w.pins[f] = 0
      BY <1>8, <1>10, <2>2, <2>4
    <3>3. QED BY <2>4, <3>1, <3>2
  <2>5. CASE r = f /\ home[f] # w.sub.url
    <3>1. w'.pins[f] = w.pins[f]
      BY <1>1, <2>5
    <3>2. home[f] = route => w.pins[f] = 1
      BY <1>8, <1>10, <2>1, <2>2, <2>5
    <3>3. QED BY <2>1, <2>5, <3>1, <3>2
  <2>6. QED BY <2>3, <2>4, <2>5
<1>11. Followed(w', route, home, budget.wide)
  <2>1. CASE w.open
    BY <1>5, <2>1 DEF Followed
  <2>2. CASE ~w.open
    <3>1. ~w'.crossed => ~w.crossed
      BY <1>1
    <3>2. QED BY <1>2, <1>6, <1>10, <2>2, <3>1 DEF PinsBefore, PinsOK, Followed
  <2>3. QED BY <2>1, <2>2
<1>12. QED BY <1>7, <1>9, <1>11 DEF PinsOK

\* A feedback that is queued is no longer told as sent.
LEMMA PinsQueued ==
  ASSUME PinsBefore, NEW queued \in BOOLEAN, FailSend(queued)
  PROVE  PinsOK(w', route, home, budget.wide)
<1>1. /\ Same(w, w', SentFields \cup {"sub", "fate"}) /\ w.sub.form \in Form
      /\ w'.fate \in {w.fate, [w.fate EXCEPT ![w.sub.form] = "queued"]}
  BY FailSendFacts DEF PinsBefore
<1>2. /\ w'.fetches = w.fetches /\ w'.gen = w.gen /\ w'.load = w.load /\ w'.side = w.side /\ w'.pins = w.pins
      /\ w'.shown = w.shown /\ w'.open = w.open /\ w'.crossed = w.crossed /\ w'.failed = w.failed
      /\ w'.destroyed = w.destroyed
  BY <1>1, DrawnFields DEF SentFields
<1>3. \A g \in Form : w'.fate[g] = "sent" => w.fate[g] = "sent"
  BY <1>1 DEF PinsBefore, TypeInv, IsW
<1>4. Drawer(w', budget.wide) = Drawer(w, budget.wide)
  BY <1>2 DEF Drawer
<1>5. \A x : Complete(x, w.fate, home) => Complete(x, w'.fate, home)
  BY <1>3 DEF Complete
<1>6. Fine(w, route, home) => Fine(w', route, home)
  BY <1>2, <1>3 DEF Fine
<1>7. Ordered(w', home, budget.wide)
  BY <1>2, <1>3 DEF PinsBefore, PinsOK, Ordered
<1>8. Honest(w', route, home, budget.wide)
  BY <1>2, <1>4, <1>5 DEF PinsBefore, PinsOK, Honest
<1>9. Followed(w', route, home, budget.wide)
  BY <1>2, <1>4, <1>6 DEF PinsBefore, PinsOK, Followed
<1>10. QED BY <1>7, <1>8, <1>9 DEF PinsOK

\* A handle that is released leaves the pins, or takes the widget with it.
LEMMA PinsReleased ==
  ASSUME PinsBefore, NEW h, Launch(h) \/ Destroy(h)
  PROVE  PinsOK(w', route, home, budget.wide)
<1>1. CASE Same(w, w', {"live", "refs"})
  BY <1>1, PinsKept DEF PinsBefore
<1>2. CASE /\ Dead(w') /\ w'.destroyed
           /\ Same(w, w', {"live", "refs", "destroyed", "fetches", "load", "side", "sub", "open", "pending", "asked",
                           "pop", "form", "active", "pins"})
  <2>1. w'.fate = w.fate
    BY <1>2, DrawnFields
  <2>2. w'.fetches = {} /\ w'.side = None /\ Drawer(w', budget.wide) = None
    BY <1>2 DEF Dead, Drawer
  <2>3. QED BY <1>2, <2>1, <2>2 DEF PinsBefore, PinsOK, Ordered, Honest, Followed
<1>3. QED BY <1>1, <1>2, LaunchFacts, DestroyFacts DEF PinsBefore

\* The rest of the session is no business of the pins.
LEMMA PinsBeside ==
  ASSUME PinsBefore,
         \/ PanelFails \/ Prefetch \/ ImportFails \/ StartDrawing \/ Dismiss \/ CancelSession \/ Submit \/ Capture
         \/ (\E f \in Form : FinishDrawing(f) \/ StartInstantAnnotation(f))
         \/ Identify \/ DismissIdentity \/ EndRefresh
  PROVE  PinsOK(w', route, home, budget.wide)
<1>1. Same(w, w', {"pop", "panel", "linked", "active", "instant", "form", "told", "shot", "sub"})
  <2>1. CASE PanelFails \/ Prefetch \/ ImportFails
    BY <2>1, PanelFailsFacts, PrefetchFacts, ImportFailsFacts DEF PinsBefore, Same
  <2>2. CASE StartDrawing \/ Dismiss \/ CancelSession \/ Submit \/ Capture
    BY <2>2, StartDrawingFacts, DismissFacts, SubmitFacts DEF PinsBefore, Same
  <2>3. CASE \E f \in Form : FinishDrawing(f) \/ StartInstantAnnotation(f)
    BY <2>3, StartFacts DEF PinsBefore, Same
  <2>4. CASE Identify \/ DismissIdentity \/ EndRefresh
    BY <2>4, IdentifyFacts, DismissIdentityFacts, EndRefreshFacts DEF PinsBefore, Same
  <2>5. QED BY <2>1, <2>2, <2>3, <2>4
<1>2. QED BY <1>1, PinsKept DEF PinsBefore

\* Every step keeps the pins in order.
LEMMA PinsStep ==
  TypeInv /\ PinsOK(w, route, home, budget.wide) /\ [Next]_vars => PinsOK(w', route', home', budget'.wide)
<1> SUFFICES ASSUME TypeInv, PinsOK(w, route, home, budget.wide), [Next]_vars
             PROVE  PinsOK(w', route', home', budget.wide)
  BY BudgetKept DEF TypeInv
<1>1. CASE UNCHANGED vars
  BY <1>1 DEF vars
<1>2. CASE w.destroyed
  BY <1>1, <1>2, DeadStops DEF PinsOK, Ordered
<1>3. CASE ~w.destroyed /\ Next
  <2>b. PinsBefore
    BY <1>3 DEF PinsBefore
  <2>1. CASE \E u \in Url : Navigate(u)
    BY <2>b, <2>1, PinsNavigated DEF Navigate
  <2>2. CASE Land
    BY <2>b, <2>2, PinsLanded DEF Land
  <2>3. CASE UNCHANGED <<route, home>> /\ ~Land /\ ~\E u \in Url : Navigate(u)
    <3>1. PinsOK(w', route, home, budget.wide)
      <4>1. CASE Refresh
        <5>1. Asked(w, w', route) /\ route \in Url
          BY <4>1, RefreshFactsOfHost DEF TypeInv
        <5>2. QED BY <2>b, <5>1, PinsAsked
      <4>2. CASE \E x \in w.fetches : ServeFetch(x) \/ ArriveFetch(x) \/ FailFetch(x)
        BY <2>b, <4>2, PinsServedFetch, PinsArrived, PinsFailedFetch
      <4>3. CASE ServeLoad \/ ServeSide \/ CommitLoad \/ CommitSide \/ FailLoad \/ FailSide
        BY <2>b, <4>3, PinsServed, PinsCommitted, PinsFailed
      <4>4. CASE Reload \/ ImportPanel \/ Open \/ Close
        BY <2>b, <4>4, PinsPanel
      <4>5. CASE Sent \/ \E queued \in BOOLEAN : FailSend(queued)
        BY <2>b, <4>5, PinsSent, PinsQueued
      <4>6. CASE \E h \in Handle : Launch(h) \/ Destroy(h)
        BY <2>b, <4>6, PinsReleased
      <4>7. CASE \/ PanelFails \/ Prefetch \/ ImportFails \/ StartDrawing \/ Dismiss \/ CancelSession \/ Submit \/ Capture
                 \/ (\E f \in Form : FinishDrawing(f) \/ StartInstantAnnotation(f))
                 \/ Identify \/ DismissIdentity \/ EndRefresh
        BY <2>b, <4>7, PinsBeside
      <4>8. QED BY <1>3, <2>3, <4>1, <4>2, <4>3, <4>4, <4>5, <4>6, <4>7 DEF Next
    <3>2. QED BY <2>3, <3>1
  <2>4. QED BY <2>1, <2>2, <2>3, Placed
<1>4. QED BY <1>1, <1>2, <1>3

\* With nothing in flight the pins are the page's, unless a refresh failed or the
\* overlaps of `crossed` happened: PinsFollow, of the launcher's fetches, the panel's
\* loads, the navigations and the submissions that race to draw the markers.
THEOREM PinsOfThePage == Spec => []PinsFollow
<1>1. Init => TypeInv /\ PinsOK(w, route, home, budget.wide)
  <2> SUFFICES ASSUME Init PROVE TypeInv /\ PinsOK(w, route, home, budget.wide)
    OBVIOUS
  <2>1. PICK x : /\ w.fetches = {x} /\ x.n = 1 /\ x.url = route /\ x.read = None
    BY Initially
  <2>2. /\ TypeInv /\ ~w.open /\ ~w.destroyed /\ w.load = None /\ w.side = None /\ w.gen = 1
        /\ \A f \in Form : w.fate[f] = "none"
    BY Initially
  <2>3. Drawer(w, budget.wide) = None
    BY <2>2 DEF Drawer
  <2>4. QED BY <2>1, <2>2, <2>3 DEF PinsOK, Ordered, Honest, Followed, Complete
<1>2. TypeInv /\ PinsOK(w, route, home, budget.wide) /\ [Next]_vars
      => (TypeInv /\ PinsOK(w, route, home, budget.wide))'
  BY TypeStep, PinsStep
<1>3. TypeInv /\ PinsOK(w, route, home, budget.wide) => PinsFollow
  <2> SUFFICES ASSUME TypeInv, PinsOK(w, route, home, budget.wide), Quiet, ~w.failed, ~w.crossed, NEW r \in Row
               PROVE  /\ w.pins[r] <= 1
                      /\ w.pins[r] = 1 => home[r] = route
                      /\ (r \in Form /\ home[r] = route) => (w.fate[r] = "sent" => w.pins[r] = 1 \/ w.destroyed)
    BY DEF PinsFollow
  <2>1. CASE w.destroyed
    <3>1. w.pins[r] = 0
      BY <2>1 DEF PinsOK, Ordered, Dead
    <3>2. QED BY <2>1, <3>1
  <2>2. CASE ~w.destroyed
    <3>1. Drawer(w, budget.wide) = None /\ w.fetches = {}
      BY DEF Quiet, Drawer
    <3>2. Fine(w, route, home)
      BY <2>2, <3>1 DEF PinsOK, Followed
    <3>3. QED BY <3>2 DEF Fine
  <2>3. QED BY <2>1, <2>2
<1>4. QED BY <1>1, <1>2, <1>3, PTL DEF Spec

(***************************************************************************)
(* Anchoring: counting up to a bound.                                      *)
(***************************************************************************)
\* A set of numbers that is not empty has a least one.
LEMMA Least ==
  ASSUME NEW S \in SUBSET Nat, S # {}
  PROVE  \E n \in S : \A m \in S : n <= m
<1> DEFINE R == OpToRel(<, Nat)
<1>1. \A x, y \in Nat : <<x, y>> \in R <=> x < y
  BY DEF OpToRel
<1>2. IsWellFoundedOn(R, Nat)
  BY NatLessThanWellFounded
<1> HIDE DEF R
<1>3. PICK n \in S : \A m \in S : ~(<<m, n>> \in R)
  BY <1>2, WFMin
<1>4. \A m \in S : ~(m < n)
  BY <1>1, <1>3
<1>5. QED BY <1>4

\* What holds of the first number, and of the next one as long as it holds, holds up to the last.
LEMMA Upwards ==
  ASSUME NEW k \in Nat, NEW N \in Nat, NEW A, k \in A, \A n \in k..(N - 1) : n \in A => n + 1 \in A
  PROVE  k..N \subseteq A
<1>1. SUFFICES ASSUME (k..N) \ A # {} PROVE FALSE
  OBVIOUS
<1> DEFINE B == (k..N) \ A
<1>a. B \in SUBSET Nat /\ B # {}
  BY <1>1
<1> HIDE DEF B
<1>2. PICK n \in B : \A m \in B : n <= m
  BY <1>a, Least
<1> USE DEF B
<1>3. n - 1 \in k..(N - 1) /\ n - 1 \notin (k..N) \ A
  BY <1>2
<1>4. QED BY <1>2, <1>3

(***************************************************************************)
(* The page and the annotations on it.                                     *)
(***************************************************************************)
Kind == {"visible", "soft", "hidden", "gone"}
Found == [at : Elements, low : BOOLEAN]
OnPage == scene \in Scenes /\ page \in [Elements -> Kind]

\* What the assumption says of the page.
LEMMA SceneFacts ==
  ASSUME OnPage
  PROVE  /\ Elements = 1..Len(scene.page) /\ Len(scene.page) \in Nat
         /\ Elements \subseteq Nat /\ IsFiniteSet(Elements) /\ Nowhere \notin Found
         /\ Len(scene.entries) \in Nat /\ scene.entries \in [1..Len(scene.entries) -> Entries]
         /\ \A a \in Entries : \E n \in 1..Len(scene.entries) : scene.entries[n] = a
         /\ \A m, n \in 1..Len(scene.entries) : scene.entries[m] = scene.entries[n] => m = n
         /\ scene.page \in [Elements -> Kind] /\ scene.moves \in [Events -> Nat]
         /\ Allowance \in Nat \ {0} /\ RecheckTicks \in Nat \ {0}
<1> DEFINE s == scene
           l == Len(s.page)
<1>0. s \in Scenes
  BY DEF OnPage
<1>1. /\ s.entries \in Seq(Anchor) /\ \A m, n \in DOMAIN s.entries : s.entries[m] = s.entries[n] => m = n
      /\ Elements \subseteq Element /\ s.page \in Seq(Kind) /\ s.moves \in [Events -> Nat]
  BY <1>0, AnchoringAssumption, Zenon DEF Elements, Kind
<1>2. l \in Nat /\ s.page \in [1..l -> Kind] /\ Elements = 1..l
  BY <1>1 DEF Elements
<1>3. IsFiniteSet(1..l)
  BY <1>2, FS_Interval
<1>4. Nowhere \notin Found
  <2>1. Nowhere \notin [at : Element, low : BOOLEAN]
    BY AnchoringAssumption
  <2>2. QED BY <1>1, <2>1 DEF Found
<1>5. DOMAIN s.entries = 1..Len(s.entries) /\ Len(s.entries) \in Nat
  BY <1>1
<1>6. Elements \subseteq Nat /\ Allowance \in Nat \ {0} /\ RecheckTicks \in Nat \ {0}
  BY <1>2, AnchoringAssumption
<1>7. s.entries \in [1..Len(s.entries) -> Entries] /\ \A a \in Entries : \E n \in 1..Len(s.entries) : s.entries[n] = a
  BY <1>1, <1>5 DEF Entries, Members
<1>8. QED BY <1>1, <1>2, <1>3, <1>4, <1>5, <1>6, <1>7

\* What an annotation stores, and how it finds and scores the elements.
LEMMA AnnotationFacts ==
  ASSUME OnPage, NEW a \in Entries, NEW e \in Elements
  PROVE  /\ scene.stored[a] \subseteq Signal
         /\ \A s \in Signal : scene.score[a][e][s] \in 0..10 /\ Score(a, e, s) \in 0..10
         /\ Via(a, e) \in {"anchorKey", "id", "css", "xpath", "scan"}
<1> DEFINE on == Members(scene.entries)
<1>0. scene \in Scenes /\ a \in on /\ e \in DOMAIN scene.page
  BY DEF OnPage, Entries, Elements
<1>1. /\ scene.stored \in [on -> SUBSET Signal]
      /\ scene.score \in [on -> [DOMAIN scene.page -> [Signal -> 0..10]]]
      /\ scene.via \in [on -> [DOMAIN scene.page -> Members(Strategy)]]
  BY <1>0, AnchoringAssumption
<1>2. Members(Strategy) = {"anchorKey", "id", "css", "xpath", "scan"}
  BY DEF Members, Strategy
<1> HIDE DEF on
<1>3. \A s \in Signal : scene.score[a][e][s] \in 0..10
  BY <1>0, <1>1
<1>4. scene.stored[a] \subseteq Signal /\ Via(a, e) \in Members(Strategy)
  BY <1>0, <1>1 DEF Via
<1>5. QED BY <1>2, <1>3, <1>4 DEF Score

\* Enclosure follows the nesting of the page.
LEMMA NestingFacts ==
  ASSUME OnPage
  PROVE  /\ \A x, y, z \in Elements : Encloses(x, y) /\ Encloses(y, z) => Encloses(x, z)
         /\ \A x, y \in Elements : Encloses(x, y) /\ Encloses(y, x) => x = y
         /\ \A x \in Elements : Encloses(x, x) /\ scene.around[x] \subseteq Elements
<1>0. scene \in Scenes
  BY DEF OnPage
<1>1. /\ scene.around \in [Elements -> SUBSET Elements]
      /\ \A e \in Elements : \A p \in scene.around[e] : p < e /\ scene.around[p] \subseteq scene.around[e]
  BY <1>0, AnchoringAssumption DEF Elements
<1>2. Elements \subseteq Nat
  BY SceneFacts
<1>3. QED BY <1>1, <1>2 DEF Encloses

(***************************************************************************)
(* Scores.                                                                 *)
(***************************************************************************)
\* How visible an element is.
LEMMA FactorFacts ==
  ASSUME NEW e
  PROVE  VisibilityFactor[ClassifyVisibility(e)] \in {3, 6, 10}
BY DEF VisibilityFactor, ClassifyVisibility

\* What is stored bounds what an element can score, and a full score is positive.
LEMMA ScoreFacts ==
  ASSUME OnPage, NEW a \in Entries, NEW e \in Elements
  PROVE  /\ Full(a) \in Nat \ {0} /\ Verification(a, e) \in Nat /\ Verification(a, e) <= Full(a)
         /\ StrategyPrior[Via(a, e)] \in {85, 90, 95, 100}
         /\ Final(a, e) \in Nat /\ Epsilon(a) \in Nat
<1>1. /\ scene.stored[a] \subseteq Signal
      /\ \A s \in Signal : Score(a, e, s) \in 0..10
      /\ Via(a, e) \in {"anchorKey", "id", "css", "xpath", "scan"}
  BY AnnotationFacts
<1> DEFINE most(s) == IF s \in scene.stored[a] THEN 10 ELSE 0
<1>2. \A s \in Signal : Score(a, e, s) <= most(s)
  BY <1>1 DEF Score
<1>3. Full(a) \in Nat \ {0} /\ Verification(a, e) \in Nat /\ Verification(a, e) <= Full(a)
  <2>1. CASE scene.stored[a] = {}
    BY <2>1 DEF Full, Verification
  <2>2. CASE scene.stored[a] # {}
    <3>1. /\ Full(a) = 40 * most("text") + 20 * (most("print") + most("context") + most("neighbor"))
          /\ Verification(a, e) = 40 * Score(a, e, "text")
                                  + 20 * (Score(a, e, "print") + Score(a, e, "context") + Score(a, e, "neighbor"))
      BY <2>2 DEF Full, Verification, Weighted, Signal
    <3> DEFINE Within(s) == Score(a, e, s) \in Nat /\ Score(a, e, s) <= most(s) /\ most(s) \in Nat
    <3>2. Within("text") /\ Within("print") /\ Within("context") /\ Within("neighbor")
      BY <1>1, <1>2 DEF Signal
    <3>3. \/ most("text") = 10 \/ most("print") = 10 \/ most("context") = 10 \/ most("neighbor") = 10
      BY <1>1, <2>2 DEF Signal
    <3> HIDE DEF most
    <3>5. Verification(a, e) \in Nat /\ Full(a) \in Nat
      <4>1. Full(a) \in Nat
        BY <3>1, <3>2
      <4>2. Verification(a, e) \in Nat
        BY <3>1, <3>2
      <4>3. QED BY <4>1, <4>2
    <3>6. Full(a) > 0
      BY <3>1, <3>2, <3>3
    <3>7. Verification(a, e) <= Full(a)
      <4>1. 40 * Score(a, e, "text") <= 40 * most("text")
        BY <3>2
      <4>2. 20 * Score(a, e, "print") <= 20 * most("print")
        BY <3>2
      <4>3. 20 * Score(a, e, "context") <= 20 * most("context")
        BY <3>2
      <4>4. 20 * Score(a, e, "neighbor") <= 20 * most("neighbor")
        BY <3>2
      <4>5. QED BY <3>1, <3>2, <4>1, <4>2, <4>3, <4>4
    <3>8. QED BY <3>5, <3>6, <3>7
  <2>3. QED BY <2>1, <2>2
<1>4. StrategyPrior[Via(a, e)] \in {85, 90, 95, 100}
  BY <1>1 DEF StrategyPrior
<1>5. Final(a, e) \in Nat
  <2>1. VisibilityFactor[ClassifyVisibility(e)] \in {3, 6, 10}
    BY FactorFacts
  <2>2. QED BY <1>3, <1>4, <2>1 DEF Final
<1>6. QED BY <1>3, <1>4, <1>5 DEF Epsilon

\* Nothing a sweep finds scores above the ceiling that makes one needless.
LEMMA UnderCeiling ==
  ASSUME OnPage, NEW a \in Entries, NEW e \in Elements, Via(a, e) = "scan"
  PROVE  Final(a, e) <= ScanCeiling(a)
<1>1. Full(a) \in Nat \ {0} /\ Verification(a, e) \in Nat /\ Verification(a, e) <= Full(a)
  BY ScoreFacts
<1>2. VisibilityFactor[ClassifyVisibility(e)] \in {3, 6, 10}
  BY FactorFacts
<1>3. StrategyPrior[Via(a, e)] = 85
  BY DEF StrategyPrior
<1>4. QED BY <1>1, <1>2, <1>3 DEF Final, ScanCeiling

\* A selector's element that reaches the ceiling is acceptable.
LEMMA CeilingAccepted ==
  ASSUME OnPage, NEW a \in Entries, NEW e \in Elements, scene.stored[a] # {}, Via(a, e) # "scan",
         Final(a, e) >= ScanCeiling(a)
  PROVE  IsAcceptable(a, e)
<1> SUFFICES ASSUME ~IsAcceptable(a, e) PROVE FALSE
  OBVIOUS
<1> DEFINE most(s) == IF s \in scene.stored[a] THEN 10 ELSE 0
<1>1. /\ scene.stored[a] \subseteq Signal
      /\ \A s \in Signal : Score(a, e, s) \in 0..10
  BY AnnotationFacts
<1>2. "text" \in scene.stored[a] /\ Score(a, e, "text") < 5 /\ \A s \in Signal \ {"text"} : Score(a, e, s) < 6
  BY <1>1 DEF IsAcceptable, Signal
<1>3. /\ Full(a) = 40 * most("text") + 20 * (most("print") + most("context") + most("neighbor"))
      /\ Verification(a, e) = 40 * Score(a, e, "text")
                              + 20 * (Score(a, e, "print") + Score(a, e, "context") + Score(a, e, "neighbor"))
  BY DEF Full, Verification, Weighted, Signal
<1>4. \A s \in {"text", "print", "context", "neighbor"} :
        Score(a, e, s) \in Nat /\ most(s) \in {0, 10} /\ (most(s) = 0 => Score(a, e, s) = 0)
  BY <1>1 DEF Score, Signal
<1>5. most("text") = 10 /\ Score(a, e, "text") <= 4
  BY <1>1, <1>2 DEF Signal
<1>6. \A s \in {"print", "context", "neighbor"} : Score(a, e, s) <= 5
  BY <1>1, <1>2 DEF Signal
<1> HIDE DEF most
<1>7. 20 * Verification(a, e) < 17 * Full(a) /\ Verification(a, e) \in Nat /\ Full(a) \in Nat
  <2> DEFINE Half(s) == Score(a, e, s) \in Nat /\ most(s) \in Nat /\ 2 * Score(a, e, s) <= most(s)
  <2>1. Half("print") /\ Half("context") /\ Half("neighbor")
    BY <1>4, <1>6
  <2>2. Score(a, e, "text") \in Nat
    BY <1>4
  <2>3. QED BY <1>3, <1>5, <2>1, <2>2
<1>8. StrategyPrior[Via(a, e)] \in {85, 90, 95, 100} /\ VisibilityFactor[ClassifyVisibility(e)] \in {3, 6, 10}
  BY ScoreFacts, FactorFacts
<1>9. Final(a, e) <= 1000 * Verification(a, e)
  BY <1>7, <1>8 DEF Final
<1>10. Final(a, e) \in Nat
  BY ScoreFacts
<1>11. QED BY <1>7, <1>9, <1>10 DEF ScanCeiling

(***************************************************************************)
(* The candidates in order.                                                *)
(***************************************************************************)
\* Each strategy has a priority of its own.
LEMMA PriorityFacts ==
  ASSUME OnPage, NEW a \in Entries, NEW x \in Elements, NEW y \in Elements
  PROVE  /\ Priority(Via(a, x)) \in Nat
         /\ Priority(Via(a, x)) = Priority(Via(a, y)) => Via(a, x) = Via(a, y)
<1>1. \A s \in {"anchorKey", "id", "css", "xpath", "scan"} : Priority(s) \in 1..5 /\ Strategy[Priority(s)] = s
  <2>1. /\ DOMAIN Strategy = 1..5
        /\ Strategy[1] = "anchorKey" /\ Strategy[2] = "id" /\ Strategy[3] = "css" /\ Strategy[4] = "xpath"
        /\ Strategy[5] = "scan"
    BY DEF Strategy
  <2>2. ASSUME NEW s \in {"anchorKey", "id", "css", "xpath", "scan"}
        PROVE  \E i \in DOMAIN Strategy : Strategy[i] = s
    BY <2>1
  <2>3. QED BY <2>1, <2>2 DEF Priority
<1>2. {Via(a, x), Via(a, y)} \subseteq {"anchorKey", "id", "css", "xpath", "scan"}
  BY AnnotationFacts
<1>3. QED BY <1>1, <1>2

\* The order is strict and total.
LEMMA RankingFacts ==
  ASSUME OnPage, NEW a \in Entries
  PROVE  /\ \A x \in Elements : ~RanksBefore(a, x, x)
         /\ \A x, y \in Elements : x = y \/ RanksBefore(a, x, y) \/ RanksBefore(a, y, x)
         /\ \A x, y, z \in Elements : RanksBefore(a, x, y) /\ RanksBefore(a, y, z) => RanksBefore(a, x, z)
         /\ \A x, y \in Elements : RanksBefore(a, x, y) => Final(a, x) >= Final(a, y)
<1>1. \A x \in Elements : Final(a, x) \in Nat /\ x \in Nat
  BY ScoreFacts, SceneFacts
<1> SUFFICES ASSUME NEW x \in Elements, NEW y \in Elements, NEW z \in Elements
             PROVE  /\ ~RanksBefore(a, x, x)
                    /\ x = y \/ RanksBefore(a, x, y) \/ RanksBefore(a, y, x)
                    /\ RanksBefore(a, x, y) /\ RanksBefore(a, y, z) => RanksBefore(a, x, z)
                    /\ RanksBefore(a, x, y) => Final(a, x) >= Final(a, y)
  OBVIOUS
<1> DEFINE F(e) == Final(a, e)
           P(e) == Priority(Via(a, e))
           V(e) == Via(a, e)
<1>2. /\ F(x) \in Nat /\ F(y) \in Nat /\ F(z) \in Nat /\ P(x) \in Nat /\ P(y) \in Nat /\ P(z) \in Nat
      /\ x \in Nat /\ y \in Nat /\ z \in Nat
      /\ P(x) = P(y) => V(x) = V(y)
  <2>1. ASSUME NEW e \in Elements PROVE F(e) \in Nat /\ e \in Nat /\ P(e) \in Nat
    <3>1. Priority(Via(a, e)) \in Nat
      BY PriorityFacts
    <3>2. QED BY <1>1, <3>1
  <2>2. P(x) = P(y) => V(x) = V(y)
    BY PriorityFacts
  <2> HIDE DEF F, P, V
  <2>3. QED BY <2>1, <2>2
<1>4. \A e, o \in Elements : RanksBefore(a, e, o) <=> (F(e) > F(o) \/ (F(e) = F(o) /\ (P(e) < P(o) \/ (V(e) = V(o) /\ e < o))))
  BY DEF RanksBefore
<1>5. V(x) = V(y) => P(x) = P(y)
  OBVIOUS
<1>6. V(y) = V(z) => P(y) = P(z)
  OBVIOUS
<1> HIDE DEF F, P, V
<1>7. ~RanksBefore(a, x, x)
  BY <1>2, <1>4
<1>8. x = y \/ RanksBefore(a, x, y) \/ RanksBefore(a, y, x)
  BY <1>2, <1>4
<1>9. RanksBefore(a, x, y) /\ RanksBefore(a, y, z) => RanksBefore(a, x, z)
  BY <1>2, <1>4, <1>5, <1>6
<1>10. RanksBefore(a, x, y) => F(x) >= F(y)
  BY <1>2, <1>4
<1>11. QED BY <1>7, <1>8, <1>9, <1>10 DEF F

\* Ranking lists the candidates, one that scores best first.
LEMMA RankedFacts ==
  ASSUME OnPage, NEW a \in Entries, NEW S \in SUBSET Elements, S # {}
  PROVE  /\ Cardinality(S) \in Nat \ {0} /\ Ranked(a, S) \in [1..Cardinality(S) -> S]
         /\ \A e \in S : \E i \in 1..Cardinality(S) : Ranked(a, S)[i] = e
         /\ \A e \in S : Final(a, e) <= Final(a, Ranked(a, S)[1])
<1> DEFINE n == Cardinality(S)
           Above(e) == {o \in S : RanksBefore(a, o, e)}
           rank == [e \in S |-> Cardinality(Above(e))]
<1>1. IsFiniteSet(S) /\ n \in Nat \ {0}
  BY SceneFacts, FS_Subset, FS_CardinalityType, FS_EmptySet
<1>2. IsFiniteSet(0..n-1) /\ Cardinality(0..n-1) = n
  <2>1. IsFiniteSet(0..n-1) /\ Cardinality(0..n-1) = IF 0 > n - 1 THEN 0 ELSE (n - 1) - 0 + 1
    BY <1>1, FS_Interval
  <2>2. QED BY <1>1, <2>1
<1>3. ASSUME NEW e \in S
      PROVE  rank[e] \in 0..n-1
  <2>1. Above(e) \in SUBSET S /\ Above(e) # S
    BY <1>3, RankingFacts
  <2>2. IsFiniteSet(Above(e)) /\ Cardinality(Above(e)) <= n /\ Cardinality(Above(e)) # n
    BY <1>1, <2>1, FS_Subset
  <2>3. Cardinality(Above(e)) \in Nat
    BY <2>2, FS_CardinalityType
  <2>4. QED BY <1>1, <1>3, <2>2, <2>3
<1>4. ASSUME NEW e \in S, NEW o \in S, RanksBefore(a, e, o)
      PROVE  rank[e] # rank[o]
  <2>1. Above(e) \in SUBSET Above(o) /\ e \in Above(o) /\ e \notin Above(e)
    BY <1>4, RankingFacts
  <2>2. IsFiniteSet(Above(o))
    BY <1>1, FS_Subset
  <2>3. Cardinality(Above(e)) # Cardinality(Above(o))
    BY <2>1, <2>2, FS_Subset
  <2>4. QED BY <2>3
<1>5. \A e, o \in S : rank[e] = rank[o] => e = o
  <2> HIDE DEF rank
  <2>1. QED BY <1>4, RankingFacts
<1>6. rank \in Injection(S, 0..n-1)
  <2>1. rank \in [S -> 0..n-1]
    BY <1>3
  <2> HIDE DEF rank
  <2>2. QED BY <1>5, <2>1 DEF Injection, IsInjective
<1>7. rank \in Surjection(S, 0..n-1)
  BY <1>2, <1>6, FS_Injection
<1>8. Ranked(a, S) = [i \in 1..n |-> CHOOSE e \in S : rank[e] = i - 1]
  <2>1. \A i \in 1..n : (CHOOSE e \in S : Cardinality(Above(e)) = i - 1) = CHOOSE e \in S : rank[e] = i - 1
    OBVIOUS
  <2>2. Ranked(a, S) = [i \in 1..n |-> CHOOSE e \in S : Cardinality(Above(e)) = i - 1]
    BY DEF Ranked
  <2> HIDE DEF n, rank, Above
  <2>3. QED BY <2>1, <2>2
<1> HIDE DEF n, rank
<1>9. ASSUME NEW i \in 1..n
      PROVE  Ranked(a, S)[i] \in S /\ rank[Ranked(a, S)[i]] = i - 1
  <2>1. i - 1 \in 0..n-1
    BY <1>1
  <2>2. \E e \in S : rank[e] = i - 1
    BY <1>7, <2>1 DEF Surjection
  <2>3. QED BY <1>8, <2>2
<1>10. Ranked(a, S) \in [1..n -> S]
  BY <1>8, <1>9
<1>11. ASSUME NEW e \in S PROVE \E i \in 1..n : Ranked(a, S)[i] = e
  <2>1. rank[e] + 1 \in 1..n /\ (rank[e] + 1) - 1 = rank[e]
    BY <1>1, <1>3
  <2>2. Ranked(a, S)[rank[e] + 1] = e
    BY <1>5, <1>9, <2>1
  <2>3. QED BY <2>1, <2>2
<1>12. ASSUME NEW e \in S PROVE Final(a, e) <= Final(a, Ranked(a, S)[1])
  <2> DEFINE best == Ranked(a, S)[1]
  <2>1. 1 \in 1..n
    BY <1>1
  <2>2. best \in S /\ rank[best] = 0
    BY <1>9, <2>1
  <2>3. Above(best) = {}
    <3>1. Cardinality(Above(best)) = 0
      BY <2>2 DEF rank
    <3>2. IsFiniteSet(Above(best))
      BY <1>1, FS_Subset
    <3>3. QED BY <3>1, <3>2, FS_EmptySet
  <2>4. e = best \/ RanksBefore(a, best, e)
    BY <2>2, <2>3, RankingFacts
  <2>5. Final(a, e) \in Nat
    BY ScoreFacts
  <2>6. QED BY <2>2, <2>4, <2>5, RankingFacts
<1>13. QED BY <1>1, <1>10, <1>11, <1>12 DEF n

(***************************************************************************)
(* The winner.                                                             *)
(***************************************************************************)
\* A candidate close to the best and inside it, and the turn it has.
Contends(a, best, e) == Final(a, best) - Final(a, e) <= Epsilon(a) /\ Encloses(best, e)
Turn(a, best, winner, e) == IF Contends(a, best, e) THEN Innermost(best, winner, e) ELSE winner

\* The winners turn by turn, over the candidates r.
TurnOf(a, best, winner, e) == [b \in Elements |-> [v \in Elements |-> [o \in Elements |-> Turn(a, b, v, o)]]][best][winner][e]
Turns(a, r, N, f) == f = [n \in 1..N |-> IF n = 1 THEN r[1] ELSE TurnOf(a, r[1], f[n - 1], r[n])]

\* There are such winners.
LEMMA TurnsExist ==
  ASSUME NEW a, NEW r, NEW N \in Nat \ {0}
  PROVE  \E f : Turns(a, r, N, f)
<1> DEFINE A == {n \in Nat : \E f : Turns(a, r, n, f)}
<1>1. 1 \in A
  <2>1. Turns(a, r, 1, [n \in 1..1 |-> r[1]])
    BY DEF Turns
  <2>2. QED BY <2>1
<1>2. ASSUME NEW n \in 1..(N - 1), n \in A PROVE n + 1 \in A
  <2>1. PICK f : Turns(a, r, n, f)
    BY <1>2
  <2> DEFINE last == TurnOf(a, r[1], f[n], r[n + 1])
             g == [m \in 1..(n + 1) |-> IF m = n + 1 THEN last ELSE f[m]]
  <2> HIDE DEF last
  <2>2. \A m \in 1..n : g[m] = f[m]
    OBVIOUS
  <2>3. g[n + 1] = TurnOf(a, r[1], g[n], r[n + 1])
    BY DEF last
  <2>4. \A m \in 1..n : f[m] = IF m = 1 THEN r[1] ELSE TurnOf(a, r[1], f[m - 1], r[m])
    BY <2>1 DEF Turns
  <2>5. g = [m \in 1..(n + 1) |-> g[m]]
    OBVIOUS
  <2> HIDE DEF g
  <2>6. ASSUME NEW m \in 1..(n + 1) PROVE g[m] = IF m = 1 THEN r[1] ELSE TurnOf(a, r[1], g[m - 1], r[m])
    <3>1. CASE m = n + 1
      <4>1. m # 1 /\ m - 1 = n
        BY <3>1
      <4>2. QED BY <2>3, <3>1, <4>1
    <3>2. CASE m \in 1..n
      <4>1. m # 1 => m - 1 \in 1..n
        BY <3>2
      <4>2. QED BY <2>2, <2>4, <3>2, <4>1
    <3>3. QED BY <3>1, <3>2
  <2>7. Turns(a, r, n + 1, g)
    BY <2>5, <2>6, Zenon DEF Turns
  <2>8. n + 1 \in Nat
    OBVIOUS
  <2>9. QED BY <2>7, <2>8
<1>3. N \in A
  <2> HIDE DEF A
  <2>1. 1..N \subseteq A
    BY <1>1, <1>2, Upwards
  <2>2. QED BY <2>1
<1>4. QED BY <1>3

\* What disambiguation picks: it is a candidate, inside one that scores best, and encloses no other that comes close to it.
LEMMA DisambiguateFacts ==
  ASSUME OnPage, NEW a \in Entries, NEW S \in SUBSET Elements, S # {}
  PROVE  /\ Disambiguate(a, S) \in S
         /\ \E best \in S :
              /\ \A e \in S : Final(a, e) <= Final(a, best)
              /\ \A e \in S : Contends(a, best, e) /\ Encloses(Disambiguate(a, S), e) => e = Disambiguate(a, S)
              /\ Encloses(best, Disambiguate(a, S))
<1> DEFINE N == Cardinality(S)
           r == Ranked(a, S)
           best == r[1]
           D == Disambiguate(a, S)
<1>1. /\ N \in Nat \ {0} /\ r \in [1..N -> S]
      /\ \A e \in S : \E i \in 1..N : r[i] = e
      /\ \A e \in S : Final(a, e) <= Final(a, best)
  BY RankedFacts
<1>2. PICK f : Turns(a, r, N, f) /\ D = f[N]
  <2> DEFINE c == CHOOSE f : Turns(a, r, N, f)
  <2>1. Turns(a, r, N, c)
    BY <1>1, TurnsExist
  <2>2. D = c[N]
    BY DEF Disambiguate, Turns, TurnOf, Turn, Contends
  <2> HIDE DEF c
  <2>3. QED BY <2>1, <2>2
<1> HIDE DEF N, r, D
<1>3. f[1] = best /\ \A n \in 1..(N - 1) : f[n] \in S => f[n + 1] = Turn(a, best, f[n], r[n + 1])
  <2>1. \A n \in 1..N : f[n] = IF n = 1 THEN r[1] ELSE TurnOf(a, r[1], f[n - 1], r[n])
    BY <1>2 DEF Turns
  <2>2. f[1] = best
    BY <1>1, <2>1
  <2>3. ASSUME NEW n \in 1..(N - 1), f[n] \in S PROVE f[n + 1] = Turn(a, best, f[n], r[n + 1])
    <3>1. n + 1 \in 1..N /\ n + 1 # 1 /\ (n + 1) - 1 = n /\ 1 \in 1..N
      BY <1>1
    <3>2. f[n + 1] = TurnOf(a, best, f[n], r[n + 1])
      BY <2>1, <3>1
    <3>3. best \in Elements /\ f[n] \in Elements /\ r[n + 1] \in Elements
      BY <1>1, <2>3, <3>1
    <3>4. TurnOf(a, best, f[n], r[n + 1]) = Turn(a, best, f[n], r[n + 1])
      BY <3>3 DEF TurnOf
    <3>5. QED BY <3>2, <3>4
  <2>4. QED BY <2>2, <2>3
<1>4. best \in S
  BY <1>1
\* Winners are candidates, each inside the ones before and inside the best.
<1>5. \A n \in 1..(N - 1) : f[n] \in S => f[n + 1] \in S /\ Encloses(f[n], f[n + 1])
  <2> TAKE n \in 1..(N - 1)
  <2> HAVE f[n] \in S
  <2>1. r[n + 1] \in S
    BY <1>1
  <2>2. Encloses(f[n], f[n])
    BY NestingFacts
  <2>3. f[n + 1] = Turn(a, best, f[n], r[n + 1])
    BY <1>3
  <2>4. QED BY <2>1, <2>2, <2>3 DEF Turn, Innermost
<1>6. ASSUME NEW k \in 1..N, f[k] \in S PROVE \A n \in k..N : f[n] \in S /\ Encloses(f[k], f[n])
  <2> DEFINE A == {n \in Nat : f[n] \in S /\ Encloses(f[k], f[n])}
  <2>1. k \in A
    BY <1>6, NestingFacts
  <2>2. ASSUME NEW n \in k..(N - 1), n \in A PROVE n + 1 \in A
    <3>1. f[n + 1] \in S /\ Encloses(f[n], f[n + 1])
      BY <1>1, <1>5, <2>2
    <3>2. Encloses(f[k], f[n + 1])
      BY <1>6, <2>2, <3>1, NestingFacts
    <3>3. n + 1 \in Nat
      BY <1>1
    <3>4. QED BY <3>1, <3>2, <3>3
  <2>3. k \in Nat /\ N \in Nat
    BY <1>1
  <2> HIDE DEF A
  <2>4. k..N \subseteq A
    BY <2>1, <2>2, <2>3, Upwards
  <2>5. QED BY <2>4 DEF A
<1>7. \A n \in 1..N : f[n] \in S /\ Encloses(best, f[n])
  <2>1. 1 \in 1..N
    BY <1>1
  <2>2. QED BY <1>3, <1>4, <1>6, <2>1
<1>8. D \in S /\ Encloses(best, D)
  BY <1>1, <1>2, <1>7
<1>9. ASSUME NEW e \in S, Contends(a, best, e), Encloses(D, e) PROVE e = D
  <2>1. PICK i \in 1..N : r[i] = e
    BY <1>1
  \* At its turn, e becomes the winner.
  <2>2. f[i] = e
    <3>1. CASE i = 1
      BY <1>3, <2>1, <3>1
    <3>2. CASE i # 1
      <4>1. i - 1 \in 1..(N - 1) /\ (i - 1) + 1 = i
        BY <1>1, <3>2
      <4>2. i - 1 \in 1..N /\ N \in (i - 1)..N
        BY <1>1, <4>1
      <4>3. f[i - 1] \in S /\ Encloses(f[i - 1], D)
        BY <1>2, <1>6, <1>7, <4>2
      <4>4. f[i] = Turn(a, best, f[i - 1], e)
        BY <1>3, <2>1, <4>1, <4>3
      <4>5. Encloses(f[i - 1], e)
        BY <1>8, <1>9, <4>3, NestingFacts
      <4>6. QED BY <1>9, <4>4, <4>5 DEF Turn, Innermost
    <3>3. QED BY <3>1, <3>2
  <2>3. Encloses(e, D)
    <3>1. N \in i..N
      BY <1>1
    <3>2. QED BY <1>2, <1>6, <1>7, <2>2, <3>1
  <2>4. QED BY <1>8, <1>9, <2>3, NestingFacts
<1>10. QED BY <1>1, <1>4, <1>8, <1>9 DEF D

\* A resolution finds an element of the page, or nothing if no candidate is acceptable.
LEMMA ResolveFacts ==
  ASSUME OnPage, NEW a \in Entries, NEW swept \in BOOLEAN
  PROVE  /\ ResolveAnchor(a, swept) \in Found \cup {Nowhere}
         /\ ResolveAnchor(a, swept) = Nowhere <=> Accepted(a, swept) = {}
         /\ ResolveAnchor(a, swept) # Nowhere => ResolveAnchor(a, swept).at = Disambiguate(a, Accepted(a, swept))
<1>1. Accepted(a, swept) \in SUBSET Elements
  BY DEF Accepted, SelectorCandidates, ScanCandidates
<1>2. CASE Accepted(a, swept) = {}
  BY <1>2 DEF ResolveAnchor
<1>3. CASE Accepted(a, swept) # {}
  <2> DEFINE e == Disambiguate(a, Accepted(a, swept))
             found == [at |-> e, low |-> LowConfidence(a, e)]
  <2>1. e \in Elements
    BY <1>1, <1>3, DisambiguateFacts
  <2>2. ResolveAnchor(a, swept) = found
    BY <1>3 DEF ResolveAnchor
  <2>3. LowConfidence(a, e) \in BOOLEAN
    <3>1. CASE Via(a, e) = "scan"
      <4>1. Verification(a, e) \in Nat /\ Full(a) \in Nat
        BY <2>1, ScoreFacts
      <4>2. (10 * Verification(a, e) < 7 * Full(a)) \in BOOLEAN
        BY <4>1
      <4> HIDE DEF e
      <4>3. QED BY <3>1, <4>2 DEF LowConfidence
    <3>2. CASE Via(a, e) # "scan"
      <4> HIDE DEF e
      <4>2. LowConfidence(a, e) = (/\ scene.stored[a] # {}
                                   /\ \A s \in Signal : 10 * StrategyPrior[Via(a, e)] * Score(a, e, s) < 8 * 700)
        BY <3>2 DEF LowConfidence
      <4>3. QED BY <4>2
    <3>3. QED BY <3>1, <3>2
  <2> HIDE DEF e
  <2>4. found \in Found
    BY <2>1, <2>3 DEF Found
  <2>5. found # Nowhere
    BY <2>4, SceneFacts
  <2>6. QED BY <1>3, <2>2, <2>4, <2>5 DEF e
<1>4. QED BY <1>2, <1>3

\* Where no sweep is wanted, nothing on the page ranks above the best of the selectors' candidates,
\* but where an identity selector settled it.
LEMMA NoSweepNeeded ==
  ASSUME OnPage, NEW a \in Entries, ~WantsSweep(a)
  PROVE  LET near == Accepted(a, FALSE) all == Accepted(a, TRUE) IN
         \/ \E e \in near : StrongVisibleMatch(a, e)
         \/ near = {} /\ all = {}
         \/ near # {} /\ \A e \in all : \E o \in near : Final(a, e) <= Final(a, o)
<1> DEFINE near == Accepted(a, FALSE)
           all == Accepted(a, TRUE)
<1>1. /\ near = {e \in SelectorCandidates(a) : IsAcceptable(a, e)}
      /\ all = {e \in SelectorCandidates(a) \cup ScanCandidates(a) : IsAcceptable(a, e)}
  BY DEF Accepted
<1>2. \A e \in Elements : Final(a, e) \in Nat
  BY ScoreFacts
<1>3. SelectorCandidates(a) \subseteq Elements /\ ScanCandidates(a) \subseteq Elements
  BY DEF SelectorCandidates, ScanCandidates
<1>4. CASE scene.stored[a] = {}
  <2>1. near = all
    BY <1>1, <1>4 DEF ScanCandidates
  <2>2. near \subseteq Elements
    BY <1>1, <1>3
  <2> HIDE DEF near, all
  <2>3. ASSUME NEW e \in near PROVE \E o \in near : Final(a, e) <= Final(a, o)
    <3>1. Final(a, e) \in Nat
      BY <1>2, <2>2
    <3>2. Final(a, e) <= Final(a, e)
      BY <3>1
    <3>3. QED BY <3>2
  <2>4. (near = {} /\ all = {}) \/ (near # {} /\ \A e \in all : \E o \in near : Final(a, e) <= Final(a, o))
    BY <2>1, <2>3
  <2>5. QED BY <2>4 DEF near, all
<1>5. CASE scene.stored[a] # {}
  <2>1. PICK e \in SelectorCandidates(a) : Final(a, e) >= ScanCeiling(a) \/ StrongVisibleMatch(a, e)
    <3>1. PICK e \in SelectorCandidates(a) : ~(Final(a, e) < ScanCeiling(a) /\ ~StrongVisibleMatch(a, e))
      BY <1>5 DEF WantsSweep
    <3>2. Final(a, e) \in Nat /\ ScanCeiling(a) \in Nat
      <4>1. Full(a) \in Nat
        BY <1>3, ScoreFacts
      <4>2. QED BY <1>2, <1>3, <4>1 DEF ScanCeiling
    <3>3. QED BY <3>1, <3>2
  <2>2. Via(a, e) # "scan" /\ e \in Elements
    BY DEF SelectorCandidates
  <2>3. CASE StrongVisibleMatch(a, e)
    <3>1. IsAcceptable(a, e)
      <4>1. Score(a, e, "text") \in 0..10
        BY <2>2, AnnotationFacts DEF Signal
      <4>2. QED BY <2>2, <2>3, <4>1 DEF StrongVisibleMatch, IsAcceptable
    <3>2. QED BY <1>1, <2>3, <3>1
  <2>4. CASE Final(a, e) >= ScanCeiling(a)
    <3>1. e \in near
      BY <1>1, <1>5, <2>2, <2>4, CeilingAccepted
    <3>2. ASSUME NEW o \in all PROVE \E x \in near : Final(a, o) <= Final(a, x)
      <4>1. CASE o \in SelectorCandidates(a)
        <5>1. o \in near /\ Final(a, o) \in Nat
          BY <1>1, <1>2, <1>3, <4>1
        <5>2. Final(a, o) <= Final(a, o)
          BY <5>1
        <5> HIDE DEF near
        <5>3. QED BY <5>1, <5>2
      <4>2. CASE o \in ScanCandidates(a)
        <5>1. Via(a, o) = "scan" /\ o \in Elements
          BY <4>2 DEF ScanCandidates
        <5>2. Final(a, o) <= ScanCeiling(a)
          BY <5>1, UnderCeiling
        <5>3. Final(a, o) \in Nat /\ Final(a, e) \in Nat /\ ScanCeiling(a) \in Nat
          <6>1. Full(a) \in Nat
            BY <2>2, ScoreFacts
          <6>2. QED BY <1>2, <2>2, <5>1, <6>1 DEF ScanCeiling
        <5>4. Final(a, o) <= Final(a, e)
          BY <2>4, <5>2, <5>3
        <5> HIDE DEF near
        <5>5. QED BY <3>1, <5>4
      <4>3. QED BY <1>1, <4>1, <4>2
    <3>3. QED BY <3>1, <3>2
  <2>5. QED BY <2>1, <2>3, <2>4
<1>6. QED BY <1>4, <1>5

\* The best candidate of the page.
LEMMA BestOfPage ==
  ASSUME OnPage
  PROVE  BestPlace
<1> SUFFICES ASSUME NEW a \in Entries
             PROVE  LET near == Accepted(a, WantsSweep(a))
                        all == Accepted(a, TRUE)
                        found == ResolveAnchor(a, WantsSweep(a))
                    IN IF found = Nowhere THEN all = {}
                       ELSE LET best == CHOOSE e \in near : \A o \in near : Final(a, o) <= Final(a, e)
                            IN /\ \/ \E e \in near : StrongVisibleMatch(a, e)
                                  \/ \A e \in all : Final(a, e) <= Final(a, best)
                               /\ \A e \in near : /\ Final(a, best) - Final(a, e) <= Epsilon(a)
                                                  /\ Encloses(found.at, e)
                                                  => e = found.at
  BY Zenon DEF BestPlace
<1> DEFINE near == Accepted(a, WantsSweep(a))
           all == Accepted(a, TRUE)
           found == ResolveAnchor(a, WantsSweep(a))
           best == CHOOSE e \in near : \A o \in near : Final(a, o) <= Final(a, e)
<1>0. WantsSweep(a) \in BOOLEAN
  BY DEF WantsSweep
<1>1. near \in SUBSET Elements /\ near \subseteq all /\ all \subseteq Elements
  BY DEF Accepted, SelectorCandidates, ScanCandidates
<1>2. /\ found = Nowhere <=> near = {}
      /\ found # Nowhere => found.at = Disambiguate(a, near)
  BY <1>0, ResolveFacts
<1>3. \/ \E e \in near : StrongVisibleMatch(a, e)
      \/ near = {} /\ all = {}
      \/ near # {} /\ \A e \in all : \E o \in near : Final(a, e) <= Final(a, o)
  <2>1. CASE WantsSweep(a)
    <3>1. WantsSweep(a) = TRUE
      BY <1>0, <2>1
    <3>2. near = all
      BY <3>1
    <3>3. \A e \in all : Final(a, e) \in Nat
      BY <1>1, ScoreFacts
    <3> HIDE DEF near, all
    <3>4. QED BY <3>2, <3>3
  <2>2. CASE ~WantsSweep(a)
    <3>1. WantsSweep(a) = FALSE
      BY <1>0, <2>2
    <3>2. near = Accepted(a, FALSE)
      BY <3>1
    <3> HIDE DEF near
    <3>3. QED BY <2>2, <3>2, NoSweepNeeded
  <2>3. QED BY <2>1, <2>2
<1>4. CASE found = Nowhere
  <2> HIDE DEF near, all, found
  <2>1. all = {}
    BY <1>2, <1>3, <1>4
  <2>2. QED BY <1>4, <2>1 DEF all, found
<1>5. CASE found # Nowhere
  <2>0. near # {} /\ found.at = Disambiguate(a, near)
    BY <1>2, <1>5
  <2>1. PICK top \in near :
          /\ \A e \in near : Final(a, e) <= Final(a, top)
          /\ \A e \in near : Contends(a, top, e) /\ Encloses(found.at, e) => e = found.at
          /\ Encloses(top, found.at)
    <3> HIDE DEF near
    <3>1. QED BY <1>1, <2>0, DisambiguateFacts
  <2>1a. found.at \in near
    <3> HIDE DEF near
    <3>1. QED BY <1>1, <2>0, DisambiguateFacts
  <2>2. best \in near /\ \A o \in near : Final(a, o) <= Final(a, best)
    <3> HIDE DEF near
    <3>1. QED BY <2>1
  <2>3. \A e \in all : Final(a, e) \in Nat
    BY <1>1, ScoreFacts
  <2> HIDE DEF near, all, best, found
  <2>4. Final(a, best) = Final(a, top)
    BY <1>1, <2>1, <2>2, <2>3
  <2>5. \/ \E e \in near : StrongVisibleMatch(a, e)
        \/ \A e \in all : Final(a, e) <= Final(a, best)
    BY <1>1, <1>3, <2>0, <2>2, <2>3
  <2>6. ASSUME NEW e \in near, Final(a, best) - Final(a, e) <= Epsilon(a), Encloses(found.at, e)
        PROVE  e = found.at
    <3>1. Encloses(top, e)
      BY <1>1, <2>1, <2>1a, <2>6, NestingFacts
    <3>2. Contends(a, top, e)
      BY <2>4, <2>6, <3>1 DEF Contends
    <3>3. QED BY <2>1, <2>6, <3>2
  <2>7. QED BY <1>5, <2>5, <2>6 DEF near, all, best, found
<1>6. QED BY <1>4, <1>5

(***************************************************************************)
(* A pass over the pins.                                                   *)
(***************************************************************************)
Places == [Entries -> Found \cup {Nowhere}]
Passing == [cache : Places, wait : [Entries -> Nat], mark : Places, left : Nat, starved : SUBSET Entries]

\* Types, and that a resize is a change of the layout too.
AnchoringTypes ==
  /\ OnPage /\ cache \in Places /\ mark \in Places
  /\ wait \in [Entries -> Nat] /\ skips \in [Entries -> Nat] /\ moves \in [Events -> Nat]
  /\ due \in [timer : BOOLEAN, layout : BOOLEAN, resize : BOOLEAN]
  /\ due.resize => due.layout

\* What a resolution finds that makes its sweep if it wants one.
FullAnswer(a) == ResolveAnchor(a, WantsSweep(a))

\* What has a box is on the page.
LEMMA BoxFacts ==
  ASSUME NEW e
  PROVE  HasBox(e) => IsConnected(e)
BY DEF HasBox, IsConnected, ClassifyVisibility

LEMMA FullFacts ==
  ASSUME OnPage, NEW a \in Entries
  PROVE  FullAnswer(a) \in Found \cup {Nowhere} /\ WantsSweep(a) \in BOOLEAN
<1>1. WantsSweep(a) \in BOOLEAN
  BY DEF WantsSweep
<1>2. QED BY <1>1, ResolveFacts DEF FullAnswer

\* What a turn of the pass does to a pin, and that it leaves the others alone.
LEMMA PlaceFacts ==
  ASSUME AnchoringTypes, NEW p \in Passing, NEW a \in Entries
  PROVE  LET q == Place(p, a) IN
         /\ q \in Passing
         /\ \A b \in Entries \ {a} : q.cache[b] = p.cache[b] /\ q.wait[b] = p.wait[b] /\ q.mark[b] = p.mark[b]
         /\ \/ /\ CacheUsable(p, a)
               /\ q.cache = p.cache /\ q.wait = p.wait /\ q.left = p.left /\ q.starved = p.starved
               /\ q.mark[a] = Drawn(cache[a])
            \/ /\ ~CacheUsable(p, a) /\ p.wait[a] > 0
               /\ q.cache = p.cache /\ q.wait = p.wait /\ q.left = p.left /\ q.starved = p.starved
            \/ /\ ~CacheUsable(p, a) /\ p.wait[a] = 0 /\ WantsSweep(a) /\ p.left = 0
               /\ q.cache = p.cache /\ q.wait = p.wait /\ q.left = 0 /\ q.starved = p.starved \cup {a}
            \/ /\ ~CacheUsable(p, a) /\ p.wait[a] = 0 /\ ~(WantsSweep(a) /\ p.left = 0)
               /\ q.cache[a] = IF FullAnswer(a) = Nowhere THEN p.cache[a] ELSE FullAnswer(a)
               /\ q.wait[a] = Recheck(FullAnswer(a)) /\ q.mark[a] = Drawn(FullAnswer(a))
               /\ q.left = (IF WantsSweep(a) THEN p.left - 1 ELSE p.left) /\ q.starved = p.starved
<1> DEFINE q == Place(p, a)
<1>0. OnPage /\ cache \in Places
  BY DEF AnchoringTypes
<1>1. \A found \in Found \cup {Nowhere} : Drawn(found) \in Found \cup {Nowhere}
  BY DEF Drawn
<1>2. Recheck(FullAnswer(a)) \in Nat
  BY <1>0, SceneFacts DEF Recheck
<1>3. FullAnswer(a) \in Found \cup {Nowhere} /\ WantsSweep(a) \in BOOLEAN
  BY <1>0, FullFacts
<1>4. /\ p.cache \in Places /\ p.mark \in Places /\ p.wait \in [Entries -> Nat] /\ p.left \in Nat
      /\ p.starved \subseteq Entries
  BY DEF Passing
<1>5. CASE CacheUsable(p, a)
  <2>1. q = [p EXCEPT !.mark[a] = Drawn(cache[a])]
    BY <1>5 DEF Place
  <2>2. Drawn(cache[a]) \in Found \cup {Nowhere}
    BY <1>0, <1>1 DEF Places
  <2> HIDE DEF q
  <2>3. q \in Passing
    BY <2>1, <2>2 DEF Passing, Places
  <2>4. /\ q.cache = p.cache /\ q.wait = p.wait /\ q.left = p.left /\ q.starved = p.starved
        /\ q.mark = [p.mark EXCEPT ![a] = Drawn(cache[a])]
    BY <2>1 DEF Passing
  <2>5. q.mark[a] = Drawn(cache[a]) /\ \A b \in Entries \ {a} : q.mark[b] = p.mark[b]
    BY <1>4, <2>4 DEF Places
  <2>6. QED BY <1>5, <2>3, <2>4, <2>5 DEF q
<1>6. CASE ~CacheUsable(p, a) /\ p.wait[a] > 0
  <2>1. q = [p EXCEPT !.mark[a] = Nowhere]
    BY <1>6 DEF Place
  <2> HIDE DEF q
  <2>2. q \in Passing
    BY <2>1 DEF Passing, Places
  <2>3. /\ q.cache = p.cache /\ q.wait = p.wait /\ q.left = p.left /\ q.starved = p.starved
        /\ q.mark = [p.mark EXCEPT ![a] = Nowhere]
    BY <2>1 DEF Passing
  <2>4. \A b \in Entries \ {a} : q.mark[b] = p.mark[b]
    BY <1>4, <2>3 DEF Places
  <2>5. QED BY <1>6, <2>2, <2>3, <2>4 DEF q
<1>7. CASE ~CacheUsable(p, a) /\ ~(p.wait[a] > 0)
  <2>0. q = PlaceAnew(p, a) /\ p.wait[a] = 0
    <3>1. p.wait[a] \in Nat
      BY <1>4
    <3>2. QED BY <1>7, <3>1 DEF Place
  <2>1. CASE WantsSweep(a) /\ p.left = 0
    <3> DEFINE found == ResolveAnchor(a, FALSE)
    <3>1. found \in Found \cup {Nowhere}
      BY <1>0, ResolveFacts
    <3>2. q = [p EXCEPT !.mark[a] = Drawn(found), !.starved = @ \cup {a}]
      <4>1. (WantsSweep(a) /\ p.left = 0) = TRUE /\ (WantsSweep(a) /\ p.left > 0) = FALSE
        BY <2>1
      <4>2. PlaceAnew(p, a) = [p EXCEPT !.left = @, !.mark[a] = Drawn(found), !.starved = @ \cup {a}]
        BY <4>1 DEF PlaceAnew, Remember
      <4> HIDE DEF found
      <4>3. QED BY <2>0, <4>2 DEF Passing
    <3>3. Drawn(found) \in Found \cup {Nowhere}
      BY <1>1, <3>1
    <3> HIDE DEF q, found
    <3>4. q \in Passing
      BY <3>2, <3>3 DEF Passing, Places
    <3>5. /\ q.cache = p.cache /\ q.wait = p.wait /\ q.left = p.left /\ q.starved = p.starved \cup {a}
          /\ q.mark = [p.mark EXCEPT ![a] = Drawn(found)]
      BY <3>2 DEF Passing
    <3>6. \A b \in Entries \ {a} : q.mark[b] = p.mark[b]
      BY <1>4, <3>5 DEF Places
    <3>7. QED BY <1>7, <2>0, <2>1, <3>4, <3>5, <3>6 DEF q
  <2>2. CASE ~(WantsSweep(a) /\ p.left = 0)
    <3> DEFINE full == FullAnswer(a)
               kept == IF full = Nowhere THEN p.cache[a] ELSE full
               left == IF WantsSweep(a) THEN p.left - 1 ELSE p.left
    <3>1. (WantsSweep(a) /\ p.left > 0) = WantsSweep(a) /\ (WantsSweep(a) /\ p.left = 0) = FALSE
      BY <1>3, <1>4, <2>2
    <3>2. full = ResolveAnchor(a, WantsSweep(a) /\ p.left > 0)
      BY <3>1 DEF FullAnswer
    <3>3. q = [[p EXCEPT !.cache[a] = IF full = Nowhere THEN @ ELSE full, !.wait[a] = Recheck(full)] EXCEPT
                 !.left = IF WantsSweep(a) THEN @ - 1 ELSE @, !.mark[a] = Drawn(full), !.starved = @]
      <4> DEFINE anew == [p EXCEPT !.cache[a] = IF full = Nowhere THEN @ ELSE full, !.wait[a] = Recheck(full)]
      <4>1. Remember(p, a, full, FALSE) = anew
        BY DEF Remember
      <4>2. PlaceAnew(p, a) = [Remember(p, a, full, FALSE) EXCEPT
              !.left = IF WantsSweep(a) /\ p.left > 0 THEN @ - 1 ELSE @, !.mark[a] = Drawn(full), !.starved = @]
        <5> HIDE DEF full
        <5>1. QED BY <3>1, <3>2 DEF PlaceAnew
      <4>3. WantsSweep(a) /\ p.left > 0 <=> WantsSweep(a)
        BY <3>1
      <4> HIDE DEF full, anew
      <4>4. QED BY <2>0, <4>1, <4>2, <4>3 DEF anew
    <3>4. Drawn(full) \in Found \cup {Nowhere}
      BY <1>1, <1>3
    <3>5. left \in Nat /\ kept \in Found \cup {Nowhere}
      BY <1>3, <1>4, <2>2 DEF Places
    <3> HIDE DEF q, full
    <3>6. q = [cache |-> [p.cache EXCEPT ![a] = kept], wait |-> [p.wait EXCEPT ![a] = Recheck(full)],
               mark |-> [p.mark EXCEPT ![a] = Drawn(full)], left |-> left, starved |-> p.starved]
      BY <3>3 DEF Passing
    <3> HIDE DEF kept, left
    <3>7. /\ [p.cache EXCEPT ![a] = kept] \in Places /\ [p.mark EXCEPT ![a] = Drawn(full)] \in Places
          /\ [p.wait EXCEPT ![a] = Recheck(full)] \in [Entries -> Nat]
      BY <1>2, <1>4, <3>4, <3>5 DEF Places, full
    <3>8. q \in Passing
      BY <1>4, <3>5, <3>6, <3>7 DEF Passing
    <3>9. /\ q.cache[a] = kept /\ q.wait[a] = Recheck(full) /\ q.mark[a] = Drawn(full)
          /\ q.left = left /\ q.starved = p.starved
          /\ \A b \in Entries \ {a} : q.cache[b] = p.cache[b] /\ q.wait[b] = p.wait[b] /\ q.mark[b] = p.mark[b]
      BY <1>4, <3>6 DEF Places
    <3>10. QED BY <1>7, <2>0, <2>2, <3>8, <3>9 DEF q, full, kept, left
  <2>3. QED BY <2>1, <2>2
<1>8. QED BY <1>5, <1>6, <1>7

(***************************************************************************)
(* The pass, pin by pin.                                                   *)
(***************************************************************************)
\* The pass before its first pin.
Start == [cache |-> cache, wait |-> IF due.resize THEN [a \in Entries |-> 0] ELSE wait, mark |-> mark,
          left |-> Allowance, starved |-> {}]

\* The pass after each pin.
Passes(N, f) == f = [n \in 0..N |-> IF n = 0 THEN Start ELSE Place(f[n - 1], scene.entries[n])]

\* There is such a pass.
LEMMA PassesExist ==
  ASSUME NEW N \in Nat
  PROVE  \E f : Passes(N, f)
<1> DEFINE A == {n \in Nat : \E f : Passes(n, f)}
<1>1. 0 \in A
  <2>1. Passes(0, [n \in 0..0 |-> Start])
    BY DEF Passes
  <2>2. QED BY <2>1
<1>2. ASSUME NEW n \in 0..(N - 1), n \in A PROVE n + 1 \in A
  <2>1. PICK f : Passes(n, f)
    BY <1>2
  <2> DEFINE last == Place(f[n], scene.entries[n + 1])
             g == [m \in 0..(n + 1) |-> IF m = n + 1 THEN last ELSE f[m]]
  <2> HIDE DEF last
  <2>2. \A m \in 0..n : g[m] = f[m]
    OBVIOUS
  <2>3. g[n + 1] = Place(g[n], scene.entries[n + 1])
    BY DEF last
  <2>4. \A m \in 0..n : f[m] = IF m = 0 THEN Start ELSE Place(f[m - 1], scene.entries[m])
    BY <2>1 DEF Passes
  <2>5. g = [m \in 0..(n + 1) |-> g[m]]
    OBVIOUS
  <2> HIDE DEF g
  <2>6. ASSUME NEW m \in 0..(n + 1) PROVE g[m] = IF m = 0 THEN Start ELSE Place(g[m - 1], scene.entries[m])
    <3>1. CASE m = n + 1
      <4>1. m # 0 /\ m - 1 = n
        BY <3>1
      <4>2. QED BY <2>3, <3>1, <4>1
    <3>2. CASE m \in 0..n
      <4>1. m # 0 => m - 1 \in 0..n
        BY <3>2
      <4>2. QED BY <2>2, <2>4, <3>2, <4>1
    <3>3. QED BY <3>1, <3>2
  <2>7. Passes(n + 1, g)
    BY <2>5, <2>6, Zenon DEF Passes
  <2>8. n + 1 \in Nat
    OBVIOUS
  <2>9. QED BY <2>7, <2>8
<1>3. N \in A
  <2> HIDE DEF A
  <2>1. 0..N \subseteq A
    BY <1>1, <1>2, Upwards
  <2>2. QED BY <2>1
<1>4. QED BY <1>3

\* How the model's pass goes on.
LEMMA PassFacts ==
  ASSUME OnPage
  PROVE  /\ Pass[0] = Start
         /\ \A n \in 0..(Len(scene.entries) - 1) : Pass[n + 1] = Place(Pass[n], scene.entries[n + 1])
<1> DEFINE N == Len(scene.entries)
<1>1. N \in Nat
  BY SceneFacts
<1>2. Passes(N, Pass)
  <2> DEFINE c == CHOOSE f : Passes(N, f)
  <2>1. Passes(N, c)
    BY <1>1, PassesExist
  <2>2. Pass = c
    BY DEF Pass, Passes, Start
  <2>3. QED BY <2>1, <2>2
<1>3. \A n \in 0..N : Pass[n] = IF n = 0 THEN Start ELSE Place(Pass[n - 1], scene.entries[n])
  BY <1>2 DEF Passes
<1>4. Pass[0] = Start
  BY <1>1, <1>3
<1>5. ASSUME NEW n \in 0..(N - 1) PROVE Pass[n + 1] = Place(Pass[n], scene.entries[n + 1])
  <2>1. n + 1 \in 0..N /\ n + 1 # 0 /\ (n + 1) - 1 = n
    BY <1>1
  <2>2. QED BY <1>3, <2>1
<1>6. QED BY <1>4, <1>5

\* A pin that needs no sweep as long as nothing happens: it is left alone for a while, or was found and has a box.
Served(found, left, b) == left[b] > 0 \/ (found[b] # Nowhere /\ HasBox(found[b].at))
Seen(n) == {scene.entries[m] : m \in 1..n}

\* The pins that the pass has served up to the nth.
Gained(n, p) == {b \in Seen(n) : Served(p.cache, p.wait, b) /\ ~Served(cache, Start.wait, b)}

\* What holds of the pass p after its first n pins.
Underway(n, p) ==
  /\ p \in Passing
  /\ \A b \in Entries \ Seen(n) : p.cache[b] = cache[b] /\ p.wait[b] = Start.wait[b]
  /\ \A b \in Entries : p.cache[b] = cache[b] \/ p.cache[b] = FullAnswer(b)
  /\ \A b \in Entries : Served(cache, Start.wait, b) => Served(p.cache, p.wait, b)
  /\ p.starved \subseteq Seen(n) /\ \A b \in p.starved : p.left = 0 /\ ~Served(p.cache, p.wait, b)
  /\ Allowance <= p.left + Cardinality(Gained(n, p))
  /\ due.resize => \A b \in Seen(n) \ p.starved : p.mark[b] = Nowhere => Drawn(FullAnswer(b)) = Nowhere

\* There are no more annotations than pins.
LEMMA EntriesFinite ==
  ASSUME OnPage
  PROVE  IsFiniteSet(Entries) /\ Cardinality(Entries) <= Len(scene.entries)
<1> DEFINE N == Len(scene.entries)
<1>1. /\ N \in Nat /\ scene.entries \in [1..N -> Entries]
      /\ \A a \in Entries : \E n \in 1..N : scene.entries[n] = a
  BY SceneFacts
<1>2. IsFiniteSet(1..N) /\ Cardinality(1..N) = N
  <2>1. IsFiniteSet(1..N) /\ Cardinality(1..N) = IF 1 > N THEN 0 ELSE N - 1 + 1
    BY <1>1, FS_Interval
  <2>2. QED BY <1>1, <2>1
<1>3. scene.entries \in Surjection(1..N, Entries)
  BY <1>1 DEF Surjection
<1>4. QED BY <1>2, <1>3, FS_Surjection

LEMMA UnderwayFirst ==
  ASSUME AnchoringTypes
  PROVE  Underway(0, Start)
<1>1. Allowance \in Nat /\ OnPage
  BY SceneFacts DEF AnchoringTypes
<1>2. Start \in Passing
  BY <1>1 DEF Start, Passing, AnchoringTypes
<1>3. Seen(0) = {}
  BY DEF Seen
<1>4. Gained(0, Start) = {} /\ Cardinality({}) = 0
  BY <1>3, FS_EmptySet DEF Gained
<1>5. Start.cache = cache /\ Start.left = Allowance /\ Start.starved = {}
  BY DEF Start
<1> HIDE DEF Start
<1>6. Allowance <= Start.left + Cardinality(Gained(0, Start))
  BY <1>1, <1>4, <1>5
<1>7. QED BY <1>2, <1>3, <1>5, <1>6 DEF Underway

LEMMA UnderwayNext ==
  ASSUME AnchoringTypes, NEW n \in 0..(Len(scene.entries) - 1), NEW p, Underway(n, p)
  PROVE  Underway(n + 1, Place(p, scene.entries[n + 1]))
<1> DEFINE N == Len(scene.entries)
           a == scene.entries[n + 1]
           q == Place(p, a)
           U == Start.wait
<1>0. OnPage /\ cache \in Places /\ due.resize \in BOOLEAN /\ due.layout \in BOOLEAN /\ (due.resize => due.layout)
  BY DEF AnchoringTypes
<1>1. /\ N \in Nat /\ scene.entries \in [1..N -> Entries]
      /\ \A i, j \in 1..N : scene.entries[i] = scene.entries[j] => i = j
      /\ Allowance \in Nat /\ RecheckTicks \in Nat \ {0}
  BY <1>0, SceneFacts
<1>2. a \in Entries /\ a \notin Seen(n) /\ Seen(n + 1) = Seen(n) \cup {a} /\ Seen(n) \subseteq Entries /\ IsFiniteSet(Seen(n))
  <2>1. n + 1 \in 1..N /\ n \in Nat
    BY <1>1
  <2>2. a \in Entries /\ a \notin Seen(n) /\ Seen(n) \subseteq Entries
    BY <1>1, <2>1 DEF Seen
  <2>3. 1..(n + 1) = (1..n) \cup {n + 1}
    BY <2>1
  <2>4. Seen(n + 1) = Seen(n) \cup {a}
    BY <2>3 DEF Seen
  <2>5. IsFiniteSet(Seen(n))
    BY <1>0, <2>2, EntriesFinite, FS_Subset
  <2>6. QED BY <2>2, <2>4, <2>5
<1>3. /\ p \in Passing
      /\ p.cache[a] = cache[a] /\ p.wait[a] = U[a]
      /\ p.cache \in Places /\ p.wait \in [Entries -> Nat] /\ p.left \in Nat
  BY <1>2 DEF Underway, Passing
<1> DEFINE Usable == CacheUsable(p, a)
<1>4. /\ q \in Passing
      /\ \A b \in Entries \ {a} : q.cache[b] = p.cache[b] /\ q.wait[b] = p.wait[b] /\ q.mark[b] = p.mark[b]
      /\ \/ /\ Usable
            /\ q.cache = p.cache /\ q.wait = p.wait /\ q.left = p.left /\ q.starved = p.starved
            /\ q.mark[a] = Drawn(cache[a])
         \/ /\ ~Usable /\ p.wait[a] > 0
            /\ q.cache = p.cache /\ q.wait = p.wait /\ q.left = p.left /\ q.starved = p.starved
         \/ /\ ~Usable /\ p.wait[a] = 0 /\ WantsSweep(a) /\ p.left = 0
            /\ q.cache = p.cache /\ q.wait = p.wait /\ q.left = 0 /\ q.starved = p.starved \cup {a}
         \/ /\ ~Usable /\ p.wait[a] = 0 /\ ~(WantsSweep(a) /\ p.left = 0)
            /\ q.cache[a] = IF FullAnswer(a) = Nowhere THEN p.cache[a] ELSE FullAnswer(a)
            /\ q.wait[a] = Recheck(FullAnswer(a)) /\ q.mark[a] = Drawn(FullAnswer(a))
            /\ q.left = (IF WantsSweep(a) THEN p.left - 1 ELSE p.left) /\ q.starved = p.starved
  BY <1>2, <1>3, PlaceFacts
<1> HIDE DEF q, a, U
\* A pin that is looked for anew is not one that is served already.
<1>5. ~Usable /\ p.wait[a] = 0 => ~Served(cache, U, a) /\ ~Served(p.cache, p.wait, a)
  <2>1. cache[a] # Nowhere => (HasBox(cache[a].at) => IsConnected(cache[a].at))
    BY BoxFacts
  <2>2. ~Usable /\ p.wait[a] = 0 => ~(cache[a] # Nowhere /\ HasBox(cache[a].at))
    BY <2>1 DEF CacheUsable
  <2>3. QED BY <1>3, <2>2 DEF Served
\* Looked for in full, it is served.
<1>6. q.wait[a] = Recheck(FullAnswer(a)) /\ q.cache[a] = (IF FullAnswer(a) = Nowhere THEN p.cache[a] ELSE FullAnswer(a)) =>
        Served(q.cache, q.wait, a)
  BY <1>1 DEF Served, Recheck
<1>7. \A b \in Entries \ {a} : Served(q.cache, q.wait, b) <=> Served(p.cache, p.wait, b)
  BY <1>4 DEF Served
<1>8. \A b \in Entries \ Seen(n + 1) : q.cache[b] = cache[b] /\ q.wait[b] = U[b]
  BY <1>2, <1>4 DEF Underway, U
<1>9. \A b \in Entries : q.cache[b] = cache[b] \/ q.cache[b] = FullAnswer(b)
  BY <1>3, <1>4 DEF Underway
<1>10. \A b \in Entries : Served(cache, U, b) => Served(q.cache, q.wait, b)
  <2>1. \A b \in Entries : Served(cache, U, b) => Served(p.cache, p.wait, b)
    BY DEF Underway, U
  <2>2. Served(cache, U, a) => Served(q.cache, q.wait, a)
    BY <1>2, <1>4, <1>5, <2>1 DEF Served
  <2>3. QED BY <1>7, <2>1, <2>2
<1>11. q.starved \subseteq Seen(n + 1) /\ \A b \in q.starved : q.left = 0 /\ ~Served(q.cache, q.wait, b)
  <2>1. p.starved \subseteq Seen(n) /\ \A b \in p.starved : p.left = 0 /\ ~Served(p.cache, p.wait, b)
    BY DEF Underway
  <2>2. q.starved \subseteq p.starved \cup {a}
    BY <1>4
  <2>3. \A b \in p.starved : b \in Entries \ {a}
    BY <1>2, <2>1
  <2>4. p.starved # {} => q.left = 0
    <3>1. p.starved # {} => p.left = 0
      BY <2>1
    <3>2. p.left = 0 => q.left = 0
      BY <1>4
    <3>3. QED BY <3>1, <3>2
  <2>5. \A b \in p.starved : q.left = 0 /\ ~Served(q.cache, q.wait, b)
    BY <1>7, <2>1, <2>3, <2>4
  <2>6. a \in q.starved => q.left = 0 /\ ~Served(q.cache, q.wait, a)
    <3>1. a \notin p.starved
      BY <1>2, <2>1
    <3>2. a \in q.starved => /\ ~Usable /\ p.wait[a] = 0
                             /\ q.cache = p.cache /\ q.wait = p.wait /\ q.left = 0
      BY <1>4, <3>1
    <3>3. QED BY <1>5, <3>2
  <2>7. QED BY <1>2, <2>1, <2>2, <2>5, <2>6
<1>12. Allowance <= q.left + Cardinality(Gained(n + 1, q))
  <2> DEFINE G == Gained(n, p)
             H == Gained(n + 1, q)
  <2>1. G = {b \in Seen(n) : Served(p.cache, p.wait, b) /\ ~Served(cache, U, b)}
    BY DEF Gained, U
  <2>2. H = {b \in Seen(n) \cup {a} : Served(q.cache, q.wait, b) /\ ~Served(cache, U, b)}
    BY <1>2 DEF Gained, U
  <2>3. G \subseteq H /\ a \notin G /\ H \subseteq Seen(n) \cup {a}
    BY <1>2, <1>7, <2>1, <2>2
  <2>4. IsFiniteSet(G) /\ IsFiniteSet(H) /\ Cardinality(G) \in Nat /\ Cardinality(H) \in Nat
    <3>1. IsFiniteSet(Seen(n) \cup {a})
      BY <1>2, FS_AddElement
    <3>2. IsFiniteSet(H) /\ IsFiniteSet(G)
      BY <2>3, <3>1, FS_Subset
    <3>3. QED BY <3>2, FS_CardinalityType
  <2>5. Cardinality(G) <= Cardinality(H)
    BY <2>3, <2>4, FS_Subset
  <2>6. a \in H => Cardinality(G) + 1 <= Cardinality(H)
    <3>1. ASSUME a \in H PROVE Cardinality(G) # Cardinality(H)
      <4>1. G \in SUBSET H /\ G # H
        BY <2>3, <3>1
      <4>2. QED BY <2>4, <4>1, FS_Subset
    <3>2. QED BY <2>4, <2>5, <3>1
  <2>7. Allowance <= p.left + Cardinality(G)
    BY DEF Underway
  <2>8. q.left = p.left \/ (q.left = p.left - 1 /\ a \in H)
    <3>1. ~Usable /\ p.wait[a] = 0 /\ Served(q.cache, q.wait, a) => a \in H
      BY <1>5, <2>2
    <3>2. QED BY <1>4, <1>6, <3>1
  <2> HIDE DEF G, H
  <2>9. Allowance <= q.left + Cardinality(H)
    BY <1>1, <1>3, <2>4, <2>5, <2>6, <2>7, <2>8
  <2>10. QED BY <2>9 DEF H
<1>13. due.resize => \A b \in Seen(n + 1) \ q.starved : q.mark[b] = Nowhere => Drawn(FullAnswer(b)) = Nowhere
  <2> HAVE due.resize
  <2>1. ASSUME NEW b \in Seen(n), b \notin q.starved, q.mark[b] = Nowhere PROVE Drawn(FullAnswer(b)) = Nowhere
    <3>1. b \in Entries \ {a}
      BY <1>2
    <3>2. q.mark[b] = p.mark[b] /\ b \notin p.starved
      BY <1>4, <2>1, <3>1
    <3>3. QED BY <2>1, <3>2 DEF Underway
  <2>2. ASSUME a \notin q.starved, q.mark[a] = Nowhere PROVE Drawn(FullAnswer(a)) = Nowhere
    <3>1. p.wait[a] = 0
      BY <1>2, <1>3 DEF Start, U
    <3>2. ASSUME Usable PROVE Drawn(cache[a]) # Nowhere
      BY <1>0, <3>1, <3>2 DEF CacheUsable, Drawn
    <3>3. q.mark[a] = Drawn(FullAnswer(a))
      BY <1>4, <2>2, <3>1, <3>2
    <3>4. QED BY <2>2, <3>3
  <2>3. QED BY <1>2, <2>1, <2>2
<1>14. QED BY <1>4, <1>8, <1>9, <1>10, <1>11, <1>12, <1>13, Zenon DEF Underway, q, a, U

\* What a pass comes to.
LEMMA PassEnds ==
  ASSUME AnchoringTypes
  PROVE  Underway(Len(scene.entries), Pass[Len(scene.entries)]) /\ Seen(Len(scene.entries)) = Entries
<1> DEFINE N == Len(scene.entries)
           A == {n \in Nat : Underway(n, Pass[n])}
<1>0. OnPage
  BY DEF AnchoringTypes
<1>1. N \in Nat /\ Seen(N) = Entries
  BY <1>0, SceneFacts DEF Seen
<1>2. 0 \in A
  BY <1>0, UnderwayFirst, PassFacts
<1>3. ASSUME NEW n \in 0..(N - 1), n \in A PROVE n + 1 \in A
  <2>1. Pass[n + 1] = Place(Pass[n], scene.entries[n + 1])
    BY <1>0, PassFacts
  <2>2. Underway(n + 1, Place(Pass[n], scene.entries[n + 1]))
    BY <1>3, UnderwayNext
  <2>3. n + 1 \in Nat
    BY <1>1
  <2>4. QED BY <2>1, <2>2, <2>3
<1> HIDE DEF A
<1>4. 0..N \subseteq A
  BY <1>1, <1>2, <1>3, Upwards
<1>5. QED BY <1>1, <1>4 DEF A

(***************************************************************************)
(* Invariants and steps.                                                   *)
(***************************************************************************)
ServedNow == {b \in Entries : Served(cache, wait, b)}

\* Whoever was passed over again and again is not served, and as many were served as sweeps were made meanwhile.
PassedOver == \A a \in Entries : skips[a] > 0 => a \notin ServedNow /\ skips[a] * Allowance <= Cardinality(ServedNow)

AnchoringInv == AnchoringTypes /\ PassedOver

\* Without skips there is nobody passed over.
LEMMA NoSkips ==
  ASSUME skips = [a \in Entries |-> 0]
  PROVE  PassedOver
BY DEF PassedOver

LEMMA AnchoringBegins == AnchoringInit => AnchoringInv
<1> SUFFICES ASSUME AnchoringInit PROVE AnchoringInv
  OBVIOUS
<1>1. scene \in Scenes /\ page = scene.page
  BY DEF AnchoringInit
<1>2. scene.page \in Seq(Kind)
  BY <1>1, AnchoringAssumption, Zenon DEF Kind
<1>3. page \in [Elements -> Kind]
  BY <1>1, <1>2 DEF Elements
<1>4. OnPage
  BY <1>1, <1>3 DEF OnPage
<1>5. \A a \in Entries : Drawn(FullAnswer(a)) \in Found \cup {Nowhere}
  BY <1>4, FullFacts DEF Drawn
<1>6. DrawnAnew \in Places
  BY <1>5 DEF DrawnAnew, Places, FullAnswer
<1>7. AnchoringTypes
  BY <1>4, <1>6, SceneFacts DEF AnchoringInit, AnchoringTypes, Places
<1>8. QED BY <1>7, NoSkips DEF AnchoringInit, AnchoringInv

\* The types follow the page, which does not change its elements.
LEMMA SameScene ==
  ASSUME UNCHANGED scene
  PROVE  Entries' = Entries /\ Elements' = Elements /\ Found' = Found /\ Places' = Places
BY DEF Entries, Elements, Found, Places

\* A step after which nobody counts as passed over.
LEMMA Disturbed ==
  ASSUME AnchoringTypes, UNCHANGED scene, page' \in [Elements -> Kind], cache' \in Places, mark' \in Places,
         wait' \in [Entries -> Nat], skips' = [a \in Entries |-> 0], moves' \in [Events -> Nat],
         due' \in [timer : BOOLEAN, layout : BOOLEAN, resize : BOOLEAN], due'.resize => due'.layout
  PROVE  AnchoringInv'
<1>1. AnchoringTypes'
  BY SameScene DEF AnchoringTypes, OnPage
<1>2. Entries' = Entries
  BY SameScene
<1>3. \A a \in Entries : skips'[a] = 0
  OBVIOUS
<1>4. PassedOver'
  BY <1>2, <1>3 DEF PassedOver
<1>5. QED BY <1>1, <1>4 DEF AnchoringInv

LEMMA HappensFacts ==
  ASSUME AnchoringTypes, NEW k \in Events, Happens(k)
  PROVE  moves' \in [Events -> Nat]
<1>1. moves \in [Events -> Nat]
  BY DEF AnchoringTypes
<1>2. moves[k] - 1 \in Nat
  BY <1>1 DEF Happens
<1>3. QED BY <1>1, <1>2 DEF Happens

LEMMA ScheduleFacts ==
  ASSUME AnchoringTypes, NEW cause \in {"mutation", "resize", "scroll"}, ScheduleReposition(cause)
  PROVE  due' \in [timer : BOOLEAN, layout : BOOLEAN, resize : BOOLEAN] /\ (due'.resize => due'.layout)
BY DEF AnchoringTypes, ScheduleReposition

\* A pass keeps the invariant: each pin it passes over has as many more served before it as there are sweeps.
LEMMA PassStep ==
  ASSUME AnchoringInv, RepositionAll
  PROVE  AnchoringInv'
<1> DEFINE N == Len(scene.entries)
           end == Pass[N]
<1>0. AnchoringTypes /\ PassedOver /\ OnPage
  BY DEF AnchoringInv, AnchoringTypes
<1>1. Underway(N, end) /\ Seen(N) = Entries
  BY <1>0, PassEnds
<1>2. /\ cache' = end.cache /\ wait' = end.wait /\ mark' = end.mark
      /\ skips' = [a \in Entries |-> IF a \in end.starved THEN (IF due.resize THEN 1 ELSE skips[a] + 1) ELSE 0]
      /\ due' = [timer |-> FALSE, layout |-> FALSE, resize |-> FALSE]
      /\ UNCHANGED <<scene, page, moves>>
  BY DEF RepositionAll
<1> HIDE DEF end
<1>3. end \in Passing
  BY <1>1 DEF Underway
<1>4. Entries' = Entries /\ Elements' = Elements /\ Places' = Places
  BY <1>2, SameScene
<1>5. skips \in [Entries -> Nat]
  BY <1>0 DEF AnchoringTypes
<1>6. AnchoringTypes'
  <2>1. OnPage'
    BY <1>0, <1>2, <1>4 DEF OnPage
  <2>2. skips' \in [Entries -> Nat]
    BY <1>2, <1>5
  <2>3. QED BY <1>0, <1>2, <1>3, <1>4, <2>1, <2>2 DEF AnchoringTypes, Passing
<1> DEFINE Now == ServedNow
           After == {b \in Entries : Served(end.cache, end.wait, b)}
           More == Gained(N, end)
<1>7. ServedNow' = After
  <2>1. \A b \in Entries : Served(cache, wait, b)' <=> Served(end.cache, end.wait, b)
    <3> TAKE b \in Entries
    <3>1. QED BY <1>2 DEF Served, HasBox, ClassifyVisibility
  <2>2. QED BY <1>4, <2>1 DEF ServedNow
<1>8. IsFiniteSet(Entries)
  BY <1>0, EntriesFinite
<1>9. More \subseteq After /\ After \subseteq Entries /\ Now \subseteq Entries
  BY <1>1 DEF Gained, ServedNow
<1>10. /\ IsFiniteSet(More) /\ IsFiniteSet(After) /\ IsFiniteSet(Now)
       /\ Cardinality(More) \in Nat /\ Cardinality(After) \in Nat /\ Cardinality(Now) \in Nat
  BY <1>8, <1>9, FS_Subset, FS_CardinalityType
<1>11. Allowance \in Nat \ {0}
  BY <1>0, SceneFacts
<1>12. ASSUME NEW a \in end.starved
       PROVE  /\ a \in Entries /\ a \notin After
              /\ skips'[a] * Allowance <= Cardinality(After)
  <2>1. a \in Entries /\ end.left = 0 /\ ~Served(end.cache, end.wait, a)
    BY <1>1 DEF Underway
  <2>2. Allowance <= Cardinality(More)
    BY <1>1, <1>10, <1>11, <2>1 DEF Underway
  <2>3. Cardinality(More) <= Cardinality(After)
    BY <1>9, <1>10, FS_Subset
  <2>4. CASE due.resize
    <3>1. skips'[a] = 1
      BY <1>2, <2>1, <2>4
    <3>2. 1 * Allowance = Allowance
      BY <1>11
    <3>3. skips'[a] * Allowance <= Cardinality(After)
      BY <1>10, <1>11, <2>2, <2>3, <3>1, <3>2
    <3>4. QED BY <2>1, <3>3
  <2>5. CASE ~due.resize
    <3>1. skips'[a] = skips[a] + 1 /\ skips[a] \in Nat
      BY <1>2, <1>5, <2>1, <2>5
    <3>2. Start.wait = wait
      BY <2>5 DEF Start
    <3>3. Now \subseteq After /\ Now \cap More = {}
      BY <1>1, <3>2 DEF Underway, ServedNow, Gained
    <3>4. Cardinality(Now \cup More) = Cardinality(Now) + Cardinality(More)
      <4>1. Cardinality(Now \cup More) = Cardinality(Now) + Cardinality(More) - Cardinality(Now \cap More)
        BY <1>10, FS_Union
      <4>2. Cardinality(Now \cap More) = 0
        BY <3>3, FS_EmptySet
      <4> HIDE DEF Now, More
      <4>3. QED BY <1>10, <4>1, <4>2
    <3>5. Cardinality(Now \cup More) <= Cardinality(After)
      <4>1. Now \cup More \subseteq After
        BY <1>9, <3>3
      <4>2. QED BY <1>10, <4>1, FS_Subset
    <3>6. skips[a] * Allowance <= Cardinality(Now)
      <4>1. CASE skips[a] = 0
        <5>1. 0 * Allowance = 0
          BY <1>11
        <5>2. QED BY <1>10, <4>1, <5>1
      <4>2. CASE skips[a] > 0
        BY <1>0, <2>1, <4>2 DEF PassedOver
      <4>3. QED BY <3>1, <4>1, <4>2
    <3>7. (skips[a] + 1) * Allowance = skips[a] * Allowance + Allowance /\ skips[a] * Allowance \in Nat
      BY <1>11, <3>1
    <3> HIDE DEF Now, More, After
    <3>8. (skips[a] + 1) * Allowance <= Cardinality(After)
      <4> DEFINE x == skips[a] * Allowance
      <4>1. x \in Nat /\ x <= Cardinality(Now) /\ (skips[a] + 1) * Allowance = x + Allowance
        BY <3>6, <3>7
      <4> HIDE DEF x
      <4>2. QED BY <1>10, <1>11, <2>2, <3>4, <3>5, <4>1
    <3>9. QED BY <2>1, <3>1, <3>8 DEF After
  <2>6. QED BY <2>4, <2>5
<1>13. PassedOver'
  <2>1. \A a \in Entries : skips'[a] > 0 => a \in end.starved
    BY <1>2
  <2>2. Allowance' = Allowance
    OBVIOUS
  <2>3. QED BY <1>4, <1>7, <1>12, <2>1 DEF PassedOver
<1>14. QED BY <1>6, <1>13 DEF AnchoringInv

LEMMA AnchoringStep ==
  ASSUME AnchoringInv, [AnchoringNext]_anchoringVars
  PROVE  AnchoringInv'
<1>0. /\ AnchoringTypes /\ OnPage /\ page \in [Elements -> Kind] /\ cache \in Places /\ mark \in Places
      /\ wait \in [Entries -> Nat] /\ moves \in [Events -> Nat]
      /\ due \in [timer : BOOLEAN, layout : BOOLEAN, resize : BOOLEAN] /\ (due.resize => due.layout)
  BY DEF AnchoringInv, AnchoringTypes, OnPage
<1>1. CASE RepositionAll
  BY <1>1, PassStep
<1>2. ASSUME NEW e \in Elements, Mutate(e) PROVE AnchoringInv'
  <2>1. page' \in [Elements -> Kind]
    BY <1>0, <1>2 DEF Mutate, Kind
  <2>2. moves' \in [Events -> Nat]
    BY <1>0, <1>2, HappensFacts DEF Mutate, Events
  <2>3. due' \in [timer : BOOLEAN, layout : BOOLEAN, resize : BOOLEAN] /\ (due'.resize => due'.layout)
    BY <1>0, <1>2, ScheduleFacts DEF Mutate
  <2>4. QED BY <1>0, <1>2, <2>1, <2>2, <2>3, Disturbed DEF Mutate, Undisturbed
<1>3. ASSUME NEW e \in Elements, Restyle(e) PROVE AnchoringInv'
  <2>1. page' \in [Elements -> Kind]
    BY <1>0, <1>3 DEF Restyle, Kind
  <2>2. moves' \in [Events -> Nat]
    BY <1>0, <1>3, HappensFacts DEF Restyle, Events
  <2>3. QED BY <1>0, <1>3, <2>1, <2>2, Disturbed DEF Restyle, Undisturbed
<1>4. ASSUME NEW x \in Elements, NEW y \in Elements, Resize(x, y) PROVE AnchoringInv'
  <2>1. page' \in [Elements -> Kind]
    BY <1>0, <1>4 DEF Resize, Kind
  <2>2. moves' \in [Events -> Nat]
    BY <1>0, <1>4, HappensFacts DEF Resize, Events
  <2>3. due' \in [timer : BOOLEAN, layout : BOOLEAN, resize : BOOLEAN] /\ (due'.resize => due'.layout)
    BY <1>0, <1>4, ScheduleFacts DEF Resize
  <2>4. QED BY <1>0, <1>4, <2>1, <2>2, <2>3, Disturbed DEF Resize, Undisturbed
\* A scroll, or a step of somebody else, leaves the pins as they are.
<1>5. ASSUME UNCHANGED <<scene, page, cache, wait, mark, skips>>, moves' \in [Events -> Nat],
             due' \in [timer : BOOLEAN, layout : BOOLEAN, resize : BOOLEAN] /\ (due'.resize => due'.layout)
      PROVE  AnchoringInv'
  <2>1. Entries' = Entries /\ Elements' = Elements /\ Places' = Places
    BY <1>5, SameScene
  <2>2. AnchoringTypes'
    BY <1>0, <1>5, <2>1 DEF AnchoringInv, AnchoringTypes, OnPage
  <2>3. ServedNow' = ServedNow
    BY <1>5, <2>1 DEF ServedNow, Served, HasBox, ClassifyVisibility
  <2>4. PassedOver'
    BY <1>5, <2>1, <2>3 DEF AnchoringInv, PassedOver
  <2>5. QED BY <2>2, <2>4 DEF AnchoringInv
<1>6. CASE Scroll
  <2>1. moves' \in [Events -> Nat]
    BY <1>0, <1>6, HappensFacts DEF Scroll, Events
  <2>2. due' \in [timer : BOOLEAN, layout : BOOLEAN, resize : BOOLEAN] /\ (due'.resize => due'.layout)
    BY <1>0, <1>6, ScheduleFacts DEF Scroll
  <2>3. QED BY <1>5, <1>6, <2>1, <2>2 DEF Scroll
<1>7. CASE Tick
  <2>1. wait' \in [Entries -> Nat]
    <3>1. wait' = [a \in Entries |-> IF wait[a] = 0 THEN 0 ELSE wait[a] - 1]
      BY <1>7 DEF Tick
    <3>2. \A a \in Entries : (IF wait[a] = 0 THEN 0 ELSE wait[a] - 1) \in Nat
      BY <1>0
    <3>3. QED BY <3>1, <3>2
  <2>2. moves' \in [Events -> Nat]
    BY <1>0, <1>7, HappensFacts DEF Tick, Events
  <2>3. QED BY <1>0, <1>7, <2>1, <2>2, Disturbed DEF Tick, Undisturbed
<1>8. CASE Redraw
  <2>1. \A a \in Entries : Drawn(FullAnswer(a)) \in Found \cup {Nowhere}
    BY <1>0, FullFacts DEF Drawn
  <2>2. mark' \in Places
    BY <1>8, <2>1 DEF Redraw, DrawnAnew, Places, FullAnswer
  <2>3. cache' \in Places
    BY <1>8 DEF Redraw, Places
  <2>4. moves' \in [Events -> Nat]
    BY <1>0, <1>8, HappensFacts DEF Redraw, Events
  <2>5. QED BY <1>0, <1>8, <2>2, <2>3, <2>4, Disturbed DEF Redraw, Undisturbed
<1>9. CASE UNCHANGED anchoringVars
  BY <1>0, <1>5, <1>9 DEF anchoringVars
<1>10. QED BY <1>1, <1>2, <1>3, <1>4, <1>6, <1>7, <1>8, <1>9 DEF AnchoringNext

\* The types of the pins; a resize that no pass has seen yet is a change of the layout too (markers.ts scheduleReposition).
THEOREM PinTypes == AnchoringSpec => []AnchoringTypes
<1>1. AnchoringInv => AnchoringTypes
  BY DEF AnchoringInv
<1>2. QED BY <1>1, AnchoringBegins, AnchoringStep, PTL DEF AnchoringSpec

\* Whatever the page and the signals: no element of the page ranks above the best candidate, though most resolutions never
\* look at the whole page, but where an identity selector settled it; and the winner encloses no other contender
\* (resolver.ts resolveAnchor, disambiguate).
THEOREM PlacedBest == AnchoringSpec => []BestPlace
<1>1. AnchoringInv => BestPlace
  BY BestOfPage DEF AnchoringInv, AnchoringTypes
<1>2. QED BY <1>1, AnchoringBegins, AnchoringStep, PTL DEF AnchoringSpec

\* However many pins there are and however few sweeps, a pin that a pass had no sweep left for waits for no more passes than
\* it takes to serve the others (markers.ts repositionAll).
THEOREM SweepsGoRound == AnchoringSpec => []NobodyStarves
<1>1. AnchoringInv => NobodyStarves
  <2> SUFFICES ASSUME AnchoringInv, NEW a \in Entries PROVE skips[a] <= (Len(scene.entries) - 1) \div Allowance
    BY DEF NobodyStarves
  <2> DEFINE N == Len(scene.entries)
             k == skips[a]
             rest == Entries \ {a}
  <2>0. OnPage /\ PassedOver /\ k \in Nat
    BY DEF AnchoringInv, AnchoringTypes
  <2>1. /\ N \in Nat /\ Allowance \in Nat \ {0} /\ scene.entries \in [1..N -> Entries]
        /\ \A b \in Entries : \E n \in 1..N : scene.entries[n] = b
    BY <2>0, SceneFacts
  <2>2. N \in Nat \ {0}
    BY <2>1
  <2>3. IsFiniteSet(Entries) /\ Cardinality(Entries) <= N
    BY <2>0, EntriesFinite
  <2>4. k * Allowance <= N - 1
    <3>1. CASE k = 0
      <4>1. 0 * Allowance = 0
        BY <2>1
      <4>2. QED BY <2>2, <3>1, <4>1
    <3>2. CASE k > 0
      <4>1. ServedNow \subseteq rest /\ k * Allowance <= Cardinality(ServedNow)
        BY <2>0, <3>2 DEF PassedOver, ServedNow
      <4>2. IsFiniteSet(rest) /\ Cardinality(rest) = Cardinality(Entries) - 1
        BY <2>3, FS_RemoveElement
      <4>3. Cardinality(ServedNow) <= Cardinality(rest) /\ IsFiniteSet(ServedNow)
        BY <4>1, <4>2, FS_Subset
      <4>4. Cardinality(ServedNow) \in Nat /\ Cardinality(rest) \in Nat /\ Cardinality(Entries) \in Nat
        BY <2>3, <4>2, <4>3, FS_CardinalityType
      <4>5. k * Allowance \in Nat
        BY <2>0, <2>1
      <4> DEFINE x == k * Allowance
      <4>6. x \in Nat /\ x <= Cardinality(ServedNow)
        BY <4>1, <4>5
      <4> HIDE DEF x
      <4>7. x <= N - 1
        BY <2>2, <2>3, <4>2, <4>3, <4>4, <4>6
      <4>8. QED BY <4>7 DEF x
    <3>3. QED BY <2>0, <3>1, <3>2
  <2> HIDE DEF k, N
  <2>5. \A i \in Nat, m \in Nat \ {0}, j \in Nat : j * m <= i => j <= i \div m
    OBVIOUS
  <2>6. k <= (N - 1) \div Allowance
    <3>1. N - 1 \in Nat
      BY <2>2
    <3>2. QED BY <2>0, <2>1, <2>4, <2>5, <3>1
  <2>7. QED BY <2>6 DEF k, N
<1>2. QED BY <1>1, AnchoringBegins, AnchoringStep, PTL DEF AnchoringSpec

\* What a pass puts into the cache is what a resolution with its sweep finds (markers.ts repositionAll).
THEOREM OnlyFullAnswers == AnchoringSpec => CacheTrusted
<1>1. AnchoringInv /\ [AnchoringNext]_anchoringVars =>
        [\A a \in Entries : cache'[a] \notin {cache[a], Nowhere} => cache'[a] = ResolveAnchor(a, WantsSweep(a))]_anchoringVars
  <2> SUFFICES ASSUME AnchoringInv, [AnchoringNext]_anchoringVars, NEW a \in Entries, cache'[a] \notin {cache[a], Nowhere}
               PROVE  cache'[a] = ResolveAnchor(a, WantsSweep(a))
    OBVIOUS
  <2>1. CASE RepositionAll
    <3> DEFINE end == Pass[Len(scene.entries)]
    <3>1. Underway(Len(scene.entries), end)
      BY PassEnds DEF AnchoringInv
    <3>2. cache' = end.cache
      BY <2>1 DEF RepositionAll
    <3> HIDE DEF end
    <3>3. QED BY <3>1, <3>2 DEF Underway, FullAnswer
  <2>2. CASE Redraw
    BY <2>2 DEF Redraw
  <2>3. CASE ~RepositionAll /\ ~Redraw
    <3>1. UNCHANGED cache
      BY <2>3 DEF AnchoringNext, Mutate, Restyle, Resize, Scroll, Tick, anchoringVars
    <3>2. QED BY <3>1
  <2>4. QED BY <2>1, <2>2, <2>3
<1>2. QED BY <1>1, AnchoringBegins, AnchoringStep, PTL DEF AnchoringSpec, CacheTrusted

\* The pass that follows a resize, whatever else it was scheduled for, hides no pin that has a place, unless it had no
\* sweep left for it (markers.ts scheduleReposition, repositionAll).
THEOREM ResizesHeal == AnchoringSpec => BreakpointHealed
<1>1. AnchoringInv /\ [AnchoringNext]_anchoringVars =>
        [due.resize /\ ~due'.resize =>
           \A a \in Entries : mark'[a] = Nowhere /\ skips'[a] = 0 => Drawn(ResolveAnchor(a, WantsSweep(a))) = Nowhere]_anchoringVars
  <2> SUFFICES ASSUME AnchoringInv, [AnchoringNext]_anchoringVars, due.resize, ~due'.resize, NEW a \in Entries,
                      mark'[a] = Nowhere, skips'[a] = 0
               PROVE  Drawn(ResolveAnchor(a, WantsSweep(a))) = Nowhere
    OBVIOUS
  <2>1. RepositionAll
    <3>0. due.resize = TRUE
      BY DEF AnchoringInv, AnchoringTypes
    <3>1. ASSUME NEW cause, ScheduleReposition(cause) PROVE FALSE
      <4>1. due'.resize = (due.resize \/ cause = "resize")
        BY <3>1 DEF ScheduleReposition
      <4>2. QED BY <3>0, <4>1
    <3>2. \A e \in Elements : ~Mutate(e) /\ ~Restyle(e)
      BY <3>1 DEF Mutate, Restyle
    <3>3. \A x, y \in Elements : ~Resize(x, y)
      BY <3>1 DEF Resize
    <3>4. ~Scroll /\ ~Tick /\ ~Redraw
      BY <3>1 DEF Scroll, Tick, Redraw
    <3>5. ~UNCHANGED anchoringVars
      BY DEF anchoringVars
    <3>6. QED BY <3>2, <3>3, <3>4, <3>5 DEF AnchoringNext
  <2> DEFINE end == Pass[Len(scene.entries)]
  <2>2. Underway(Len(scene.entries), end) /\ Seen(Len(scene.entries)) = Entries
    BY PassEnds DEF AnchoringInv
  <2>3. mark' = end.mark /\ skips' = [b \in Entries |-> IF b \in end.starved THEN 1 ELSE 0]
    BY <2>1 DEF RepositionAll
  <2> HIDE DEF end
  <2>4. a \notin end.starved
    BY <2>3
  <2>5. QED BY <2>2, <2>3, <2>4 DEF Underway, FullAnswer
<1>2. QED BY <1>1, AnchoringBegins, AnchoringStep, PTL DEF AnchoringSpec, BreakpointHealed
=============================================================================
