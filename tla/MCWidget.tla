------------------------------ MODULE MCWidget ------------------------------
(* Small instances of the widget, and of the placing of its pins: a        *)
(* behaviour is about one or the other.                                    *)
EXTENDS Widget, Anchoring

CONSTANTS u1, u2, f1, f2, o1, o2, h1, h2, a1, a2, a3

OnePerPage == [o \in Posted |-> IF o = o1 THEN u1 ELSE u2]
Bound(n, r, t, l, x, d, f, wide, link) ==
  [navigations |-> n, refreshes |-> r, toggles |-> t, loads |-> l, failures |-> x, destroys |-> d, forms |-> f,
   wide |-> wide, link |-> link]
Bounds == {Bound(3, 1, 2, 0, 1, 0, {}, FALSE, FALSE), Bound(2, 0, 2, 1, 1, 0, {}, TRUE, TRUE),
           Bound(1, 1, 2, 0, 1, 0, {f1}, FALSE, FALSE), Bound(0, 0, 2, 0, 2, 0, {f1, f2}, FALSE, FALSE),
           Bound(0, 0, 2, 0, 0, 3, {}, FALSE, TRUE)}
\* One visitor who sends a feedback and moves on.
Departure == {Bound(1, 0, 0, 0, 0, 0, {f1}, FALSE, FALSE)}

\* Pages: elements 1 to 5.  Scores are those of the text and of the fingerprint.
Of(t, p) == [text |-> t, print |-> p, context |-> 0, neighbor |-> 0]
Once(c, t, r, s, k, d) == [changes |-> c, toggles |-> t, resizes |-> r, scrolls |-> s, ticks |-> k, redraws |-> d]
Scene(entries, around, via(_, _), score(_, _), shown, m) ==
  [entries |-> entries, around |-> around, page |-> shown, moves |-> m,
   stored |-> [a \in Members(entries) |-> {"text", "print"}],
   via |-> [a \in Members(entries) |-> [e \in DOMAIN shown |-> via(a, e)]],
   score |-> [a \in Members(entries) |-> [e \in DOMAIN shown |-> score(a, e)]]]

\* Three annotations, which no selector finds, or only one that takes element 5 for element 3.
\* Element 4 is the twin of element 1 at another width.
Home(a) == CASE a = a1 -> {1, 4} [] a = a2 -> {2} [] OTHER -> {3}
Drifted(decoy, gone, m) ==
  Scene(<<a1, a2, a3>>, [e \in Element |-> {}],
        LAMBDA a, e : IF e = 5 /\ a = a3 /\ decoy THEN "css" ELSE "scan",
        LAMBDA a, e : IF e \in Home(a) THEN Of(10, 10) ELSE IF e = 5 /\ a = a3 THEN Of(5, 0) ELSE Of(0, 0),
        [e \in Element |-> IF e \in gone THEN "gone" ELSE IF e = 4 THEN "hidden" ELSE "visible"], m)

\* One annotation and three nested elements, 1 around 2 and 3, and 2 around 3 or not.
Nested ==
  {Scene(<<a1>>, [e \in 1..3 |-> CASE e = 1 -> {} [] e = 2 -> {1} [] OTHER -> {1} \cup deep],
         LAMBDA a, e : via[e], LAMBDA a, e : score[e], [e \in 1..3 |-> "visible"], Once(0, 1, 0, 0, 0, 0)) :
     deep \in SUBSET {2}, via \in [1..3 -> {"id", "scan"}] \cup [1..3 -> {"css"}],
     score \in [1..3 -> {Of(4, 10), Of(9, 5), Of(9, 10), Of(10, 10)}]}

Still == Scene(<<>>, <<>>, LAMBDA a, e : "scan", LAMBDA a, e : Of(0, 0), <<>>, Once(0, 0, 0, 0, 0, 0))
Pages ==
  {Still} \cup Nested
  \cup {Drifted(TRUE, {}, Once(1, 1, 1, 2, 1, 0)), Drifted(FALSE, {}, Once(1, 0, 1, 2, 1, 1)),
        Drifted(TRUE, {1, 2, 4}, Once(1, 0, 0, 2, 1, 0))}

\* One half alone.
WidgetAlone == {Still}
PinsAlone == Pages \ {Still}

\* A behaviour that places pins has a widget at rest.
IsStill == scene.entries = <<>>
WholeInit == /\ AnchoringInit /\ Init
             /\ IsStill \/ (budget = (CHOOSE b \in Budgets : TRUE) /\ route = u1 /\ w.live = {h1})
WholeNext == IF IsStill THEN Next /\ UNCHANGED anchoringVars ELSE AnchoringNext /\ UNCHANGED vars
WholeSpec == WholeInit /\ [][WholeNext]_<<vars, anchoringVars>>
=============================================================================
