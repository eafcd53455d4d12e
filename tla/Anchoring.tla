------------------------------ MODULE Anchoring ------------------------------
(***************************************************************************)
(* Where the pins go (packages/widget/src/dom/resolver.ts and the          *)
(* repositioning of markers.ts).  An annotation stores selectors of the    *)
(* element it was made on, and signals of it: its text, its fingerprint,   *)
(* the text around it, its neighbours'.  Resolving it gathers the elements *)
(* the selectors find, sweeps the page when they are not good enough,      *)
(* scores each candidate by the signals and picks one.                     *)
(*                                                                         *)
(* A pass over the pins keeps the element found before as long as it is    *)
(* there, resolves the others, at most Allowance of them by a sweep, and   *)
(* leaves a pin without a place alone for a while.                         *)
(*                                                                         *)
(* Scores are tenths, priors and the scores made of them integers in units *)
(* that depend on the annotation alone: only comparisons count.            *)
(***************************************************************************)
EXTENDS Naturals, Sequences, FiniteSets

CONSTANTS
  Element,       \* elements of the page, numbered in document order
  Anchor,        \* annotations
  Allowance,     \* sweeps of one pass
  RecheckTicks,  \* how long a pin without a place is left alone
  Scenes,        \* the pages considered, one of which a behaviour is about
  Nowhere

Signal == {"text", "print", "context", "neighbor"}
Strategy == <<"anchorKey", "id", "css", "xpath", "scan">>   \* in order of priority
Events == {"changes", "toggles", "resizes", "scrolls", "ticks", "redraws"}

\* What is in a sequence.
Members(q) == {q[n] : n \in DOMAIN q}

ASSUME AnchoringAssumption ==
  /\ Element \subseteq Nat /\ Nowhere \notin [at : Element, low : BOOLEAN]
  /\ Allowance \in Nat \ {0} /\ RecheckTicks \in Nat \ {0}
  /\ \A s \in Scenes : LET on == Members(s.entries) elements == DOMAIN s.page IN
       /\ s.entries \in Seq(Anchor) /\ \A m, n \in DOMAIN s.entries : s.entries[m] = s.entries[n] => m = n
       /\ elements \subseteq Element /\ s.page \in Seq({"visible", "soft", "hidden", "gone"})
       /\ s.around \in [elements -> SUBSET elements]
       /\ \A e \in elements : \A p \in s.around[e] : p < e /\ s.around[p] \subseteq s.around[e]
       /\ s.stored \in [on -> SUBSET Signal]
       /\ s.score \in [on -> [elements -> [Signal -> 0..10]]]
       /\ s.via \in [on -> [elements -> Members(Strategy)]]
       /\ s.moves \in [Events -> Nat]

VARIABLES
  scene,   \* which page: its elements' nesting, and how each annotation finds and scores them
  page,    \* how each element is there
  cache,   \* anchorCache: the place found before
  wait,    \* hiddenRecheckAt, as the time left
  mark,    \* where each pin is drawn, Nowhere when it is hidden
  due,     \* the pass that is scheduled, and the causes it must honour
  moves,   \* what is left of the bounds on what happens
  skips    \* history: passes in a row that had no sweep left for it, with nothing else happening between

anchoringVars == <<scene, page, cache, wait, mark, due, moves, skips>>

Entries == Members(scene.entries)
Elements == DOMAIN scene.page

(***************************************************************************)
(* Visibility: of an element and everything around it.                     *)
(***************************************************************************)
IsConnected(e) == \A p \in scene.around[e] \cup {e} : page[p] # "gone"
ClassifyVisibility(e) ==
  LET states == {page[p] : p \in scene.around[e] \cup {e}}
  IN IF states \cap {"gone", "hidden"} # {} THEN "hidden"
     ELSE IF "soft" \in states THEN "soft" ELSE "visible"
HasBox(e) == ClassifyVisibility(e) # "hidden"
VisibilityFactor == [hidden |-> 3, soft |-> 6, visible |-> 10]

(***************************************************************************)
(* Scores of element e for annotation a.                                   *)
(***************************************************************************)
Via(a, e) == scene.via[a][e]
Score(a, e, s) == IF s \in scene.stored[a] THEN scene.score[a][e][s] ELSE 0
Weighted(value) == 40 * value["text"] + 20 * (value["print"] + value["context"] + value["neighbor"])
StrategyPrior == [anchorKey |-> 100, id |-> 100, css |-> 95, xpath |-> 90, scan |-> 85]

\* A full score; without any signal a selector match counts as 0.6 of it.
Full(a) ==
  IF scene.stored[a] = {} THEN 10 ELSE Weighted([s \in Signal |-> IF s \in scene.stored[a] THEN 10 ELSE 0])
Verification(a, e) == IF scene.stored[a] = {} THEN 6 ELSE Weighted([s \in Signal |-> Score(a, e, s)])
Final(a, e) == StrategyPrior[Via(a, e)] * Verification(a, e) * VisibilityFactor[ClassifyVisibility(e)]
Epsilon(a) == 50 * Full(a)     \* 0.05
ScanCeiling(a) == 850 * Full(a)   \* 0.85

IsAcceptable(a, e) ==
  IF Via(a, e) = "scan" THEN 10 * Verification(a, e) >= 4 * Full(a)
  ELSE \/ "text" \notin scene.stored[a]
       \/ Score(a, e, "text") >= 5
       \/ \E s \in Signal \ {"text"} : Score(a, e, s) >= 6

\* Below the threshold under which a pin says that its place is approximate.
LowConfidence(a, e) ==
  IF Via(a, e) = "scan" THEN 10 * Verification(a, e) < 7 * Full(a)
  ELSE /\ scene.stored[a] # {}
       /\ \A s \in Signal : 10 * StrategyPrior[Via(a, e)] * Score(a, e, s) < 8 * 700

(***************************************************************************)
(* Resolution.                                                             *)
(***************************************************************************)
SelectorCandidates(a) == {e \in Elements : IsConnected(e) /\ Via(a, e) # "scan"}
\* Without any signal there is nothing to take a swept element for.
ScanCandidates(a) == {e \in Elements : IsConnected(e) /\ Via(a, e) = "scan" /\ scene.stored[a] # {}}

StrongVisibleMatch(a, e) ==
  /\ Via(a, e) \in {"id", "anchorKey"} /\ ClassifyVisibility(e) = "visible"
  /\ Score(a, e, "text") >= 8
  /\ "print" \in scene.stored[a] => Score(a, e, "print") >= 8

WantsSweep(a) ==
  /\ scene.stored[a] # {}
  /\ \A e \in SelectorCandidates(a) : Final(a, e) < ScanCeiling(a) /\ ~StrongVisibleMatch(a, e)

Accepted(a, swept) ==
  {e \in SelectorCandidates(a) \cup (IF swept THEN ScanCandidates(a) ELSE {}) : IsAcceptable(a, e)}

\* The order of the sort, which is stable.
Priority(s) == CHOOSE i \in DOMAIN Strategy : Strategy[i] = s
RanksBefore(a, x, y) ==
  \/ Final(a, x) > Final(a, y)
  \/ /\ Final(a, x) = Final(a, y)
     /\ \/ Priority(Via(a, x)) < Priority(Via(a, y))
        \/ Via(a, x) = Via(a, y) /\ x < y
Encloses(x, y) == x \in scene.around[y] \cup {y}

\* Fault: compares with the best candidate instead of the winner so far.
InsideBest(best, winner, e) == IF e # winner /\ Encloses(best, e) THEN e ELSE winner

\* One turn of the loop: the winner gives way to a contender inside it.
Innermost(best, winner, e) == IF e # winner /\ Encloses(winner, e) THEN e ELSE winner

\* The candidates in their order.
Ranked(a, S) == [i \in 1..Cardinality(S) |-> CHOOSE e \in S : Cardinality({o \in S : RanksBefore(a, o, e)}) = i - 1]

\* A contender is close to the best candidate and inside it.
Disambiguate(a, accepted) ==
  LET ranked == Ranked(a, accepted)
      contends(best, e) == Final(a, best) - Final(a, e) <= Epsilon(a) /\ Encloses(best, e)
      turn[best \in Elements] ==
        [w \in Elements |-> [e \in Elements |-> IF contends(best, e) THEN Innermost(best, w, e) ELSE w]]
      winner[n \in 1..Cardinality(accepted)] ==
        IF n = 1 THEN ranked[1] ELSE turn[ranked[1]][winner[n - 1]][ranked[n]]
  IN winner[Cardinality(accepted)]

ResolveAnchor(a, swept) ==
  IF Accepted(a, swept) = {} THEN Nowhere
  ELSE LET e == Disambiguate(a, Accepted(a, swept)) IN [at |-> e, low |-> LowConfidence(a, e)]

(***************************************************************************)
(* A pass over the pins, in their order.  p is the pass: what it has done  *)
(* to cache, wait and mark, the sweeps it has left, and whom it starved.   *)
(***************************************************************************)
Drawn(found) == IF found # Nowhere /\ HasBox(found.at) THEN found ELSE Nowhere

CacheUsable(p, a) ==
  /\ cache[a] # Nowhere /\ IsConnected(cache[a].at)
  /\ p.wait[a] > 0 \/ HasBox(cache[a].at) \/ ~due.layout

\* Fault: only what was found hidden is left alone.
RecheckHidden(found) == IF found # Nowhere /\ ~HasBox(found.at) THEN RecheckTicks ELSE 0

Recheck(found) == IF found = Nowhere \/ ~HasBox(found.at) THEN RecheckTicks ELSE 0

\* Fault: a result without its sweep is kept like any other.
RememberAnyway(p, a, found, starved) ==
  [p EXCEPT !.cache[a] = IF found = Nowhere THEN @ ELSE found, !.wait[a] = IF starved THEN @ ELSE Recheck(found)]

Remember(p, a, found, starved) ==
  IF starved THEN p
  ELSE [p EXCEPT !.cache[a] = IF found = Nowhere THEN @ ELSE found, !.wait[a] = Recheck(found)]

PlaceAnew(p, a) ==
  LET starved == WantsSweep(a) /\ p.left = 0
      sweeps == WantsSweep(a) /\ p.left > 0
      found == ResolveAnchor(a, sweeps)
  IN [Remember(p, a, found, starved) EXCEPT
        !.left = IF sweeps THEN @ - 1 ELSE @, !.mark[a] = Drawn(found),
        !.starved = IF starved THEN @ \cup {a} ELSE @]

Place(p, a) ==
  IF CacheUsable(p, a) THEN [p EXCEPT !.mark[a] = Drawn(cache[a])]
  ELSE IF p.wait[a] > 0 THEN [p EXCEPT !.mark[a] = Nowhere]
  ELSE PlaceAnew(p, a)

\* The pass when it has been through the first n pins.
Pass[n \in 0..Len(scene.entries)] ==
  IF n = 0 THEN [cache |-> cache, wait |-> IF due.resize THEN [a \in Entries |-> 0] ELSE wait, mark |-> mark,
                 left |-> Allowance, starved |-> {}]
  ELSE Place(Pass[n - 1], scene.entries[n])

RepositionAll ==
  /\ due.timer
  /\ LET end == Pass[Len(scene.entries)]
     IN /\ cache' = end.cache /\ wait' = end.wait /\ mark' = end.mark
        /\ skips' = [a \in Entries |-> IF a \in end.starved THEN (IF due.resize THEN 1 ELSE skips[a] + 1) ELSE 0]
  /\ due' = [timer |-> FALSE, layout |-> FALSE, resize |-> FALSE]
  /\ UNCHANGED <<scene, page, moves>>

(***************************************************************************)
(* What happens on the page.  The observer sees elements come and go, not  *)
(* a change of style; a resize may change any style.                       *)
(***************************************************************************)
Happens(k) == moves[k] > 0 /\ moves' = [moves EXCEPT ![k] = @ - 1]
Undisturbed == skips' = [a \in Entries |-> 0]

\* Fault: whether the layout changed is what the latest cause says.
ScheduleLatest(cause) ==
  due' = [timer |-> TRUE, layout |-> cause # "scroll", resize |-> due.resize \/ cause = "resize"]

ScheduleReposition(cause) ==
  due' = [timer |-> TRUE, layout |-> due.layout \/ cause # "scroll", resize |-> due.resize \/ cause = "resize"]

Mutate(e) ==
  /\ Happens("changes") /\ Undisturbed
  /\ page' = [page EXCEPT ![e] = IF @ = "gone" THEN "visible" ELSE "gone"]
  /\ ScheduleReposition("mutation")
  /\ UNCHANGED <<scene, cache, wait, mark>>

Restyle(e) ==
  /\ page[e] # "gone" /\ Happens("toggles") /\ Undisturbed
  /\ \E how \in {"visible", "soft", "hidden"} \ {page[e]} : page' = [page EXCEPT ![e] = how]
  /\ UNCHANGED <<scene, cache, wait, mark, due>>

\* A breakpoint: one element gives way to another.
Resize(x, y) ==
  /\ page[x] \in {"visible", "soft"} /\ page[y] = "hidden" /\ Happens("resizes") /\ Undisturbed
  /\ page' = [page EXCEPT ![x] = "hidden", ![y] = "visible"]
  /\ ScheduleReposition("resize")
  /\ UNCHANGED <<scene, cache, wait, mark>>

Scroll ==
  /\ Happens("scrolls") /\ ScheduleReposition("scroll")
  /\ UNCHANGED <<scene, page, cache, wait, mark, skips>>

Tick ==
  /\ Happens("ticks") /\ Undisturbed
  /\ wait' = [a \in Entries |-> IF wait[a] = 0 THEN 0 ELSE wait[a] - 1]
  /\ UNCHANGED <<scene, page, cache, mark, due>>

\* render(): every pin anew, without a limit on sweeps.  The cache goes, the waits stay.
DrawnAnew == [a \in Entries |-> Drawn(ResolveAnchor(a, WantsSweep(a)))]

Redraw ==
  /\ Happens("redraws") /\ Undisturbed
  /\ mark' = DrawnAnew
  /\ cache' = [a \in Entries |-> Nowhere]
  /\ UNCHANGED <<scene, page, wait, due>>

AnchoringInit ==
  /\ scene \in Scenes /\ page = scene.page /\ moves = scene.moves
  /\ cache = [a \in Entries |-> Nowhere] /\ wait = [a \in Entries |-> 0] /\ skips = [a \in Entries |-> 0]
  /\ mark = DrawnAnew
  /\ due = [timer |-> FALSE, layout |-> FALSE, resize |-> FALSE]

AnchoringNext ==
  \/ RepositionAll
  \/ \E e \in Elements : Mutate(e) \/ Restyle(e)
  \/ \E x, y \in Elements : Resize(x, y)
  \/ Scroll \/ Tick \/ Redraw

AnchoringSpec == AnchoringInit /\ [][AnchoringNext]_anchoringVars

(***************************************************************************)
(* Properties.                                                             *)
(***************************************************************************)

\* An annotation is orphaned only when no element of the page is acceptable.  Otherwise, unless an identity
\* selector settled it, no element of the page ranks above the best candidate, whether the page was swept or
\* not, and the winner is as deep as it can be: none of its descendants comes as close to the best.
BestPlace ==
  \A a \in Entries :
    LET near == Accepted(a, WantsSweep(a))
        all == Accepted(a, TRUE)
        found == ResolveAnchor(a, WantsSweep(a))
    IN IF found = Nowhere THEN all = {}
       ELSE LET best == CHOOSE e \in near : \A o \in near : Final(a, o) <= Final(a, e)
            IN /\ \/ \E e \in near : StrongVisibleMatch(a, e)
                  \/ \A e \in all : Final(a, e) <= Final(a, best)
               /\ \A e \in near : /\ Final(a, best) - Final(a, e) <= Epsilon(a)
                                  /\ Encloses(found.at, e)
                                  => e = found.at

\* What a pass remembers is what a full resolution finds, never the answer of one that had no sweep left:
\* a remembered element is not looked for again while it is there.
CacheTrusted ==
  [][\A a \in Entries : cache'[a] \notin {cache[a], Nowhere} => cache'[a] = ResolveAnchor(a, WantsSweep(a))]_anchoringVars

\* The pass after a resize hides no pin whose annotation has a place with a box at the new width, waits and
\* elements found before notwithstanding, unless the sweeps ran out.
BreakpointHealed ==
  [][due.resize /\ ~due'.resize =>
       \A a \in Entries : mark'[a] = Nowhere /\ skips'[a] = 0 => Drawn(ResolveAnchor(a, WantsSweep(a))) = Nowhere]_anchoringVars

\* With nothing happening in between, the sweeps go round: each pass serves the pins the last one could not.
NobodyStarves == \A a \in Entries : skips[a] <= (Len(scene.entries) - 1) \div Allowance

\* A pass hides no pin whose element still has a box on an unchanged page.
PinsStay ==
  [][\A a \in Entries : mark[a] # Nowhere /\ HasBox(mark[a].at) /\ page' = page => mark'[a] # Nowhere]_anchoringVars
=============================================================================
