--------------------------------- MODULE Tours ---------------------------------
(***************************************************************************)
(* The two guided walks over a page: the tutorial, a spotlight on the real     *)
(* controls (web/src/lib/tutorial.ts), and the tour of the first visit, where   *)
(* the cat carries the cards of the course in (onboard.ts).  Each locks the      *)
(* page's scroll and listens to the keys of the window while it is open.         *)
(***************************************************************************)
EXTENDS Naturals, Sequences, FiniteSets, SequencesExt

CONSTANTS
  Targets,      \* of the tutorial's steps, in their order
  Pasos,        \* how many cards the tour has
  MaxKeys       \* bound: clicks, keys and changes of the page

ASSUME ToursAssumption == Pasos \in Nat \ {0} /\ MaxKeys \in Nat

VARIABLES
  present,      \* the targets that are on the page and seen
  tut,          \* the tutorial: its steps, the one it is at, whether it lives or fades
  tour,         \* the tour: how many cards it has called for, likewise
  walking,      \* whether the cat is on its way in, and calls the first card when it is
  hold,         \* cards the cat carries
  drops,        \* cards whose walk has not ended
  placed,       \* cards that are in the tour
  scroll,       \* whether the page scrolls
  keys,         \* who listens to the window's keys
  done,         \* cookies: which of the two was seen
  left,         \* whether the page has been left for a lesson
  pressed,      \* clicks, keys and changes so far
  both          \* ghost: both were open at once

toursVars == <<present, tut, tour, walking, hold, drops, placed, scroll, keys, done,
               left, pressed, both>>
carriedIn == <<walking, hold, drops, placed>>

NoWalk == [at |-> "none"]
Live(o) == o.at = "live"
\* The root of a walk that fades is still in the document.
InDocument(o) == o.at \in {"live", "fading"}
Closed(o) == IF Live(o) THEN [o EXCEPT !.at = "fading"] ELSE o

ToursInit ==
  /\ present \in SUBSET Range(Targets) /\ tut = NoWalk /\ tour = NoWalk /\ walking = FALSE
  /\ hold = {} /\ drops = {} /\ placed = {} /\ scroll = TRUE /\ keys = {} /\ done = {}
  /\ left = FALSE /\ pressed = 0 /\ both = FALSE

Press == pressed < MaxKeys /\ pressed' = pressed + 1 /\ ~left
-----------------------------------------------------------------------------
\* adelante of the tutorial: the next step whose target is still there, or its end.
Following(o) == {j \in DOMAIN o.steps : j > o.i /\ o.steps[j] \in present}
TutForward(o) ==
  IF ~Live(o) THEN o
  ELSE IF Following(o) = {} THEN Closed(o)
  ELSE [o EXCEPT !.i = CHOOSE j \in Following(o) : \A m \in Following(o) : j <= m]

\* colocar, run again by a resize: it passes over a target that is gone.
Placed(o) == IF Live(o) /\ o.steps[o.i] \notin present THEN TutForward(o) ELSE o

\* adelante of the tour: it calls for the next card, or ends in the first lesson.
TourForward(o) ==
  IF ~Live(o) THEN o ELSE IF o.i < Pasos THEN [o EXCEPT !.i = @ + 1] ELSE Closed(o)

\* What a press does to the rest: cierra of whoever ended frees the scroll and sets the
\* cookie; the tutorial's drops its listener, the tour's only through salir.
Become(t, r, salir) ==
  LET ended == {k \in {"tutorial"} : Live(tut) /\ ~Live(t)}
               \cup {k \in {"tour"} : Live(tour) /\ ~Live(r)}
      called == IF Live(tour) /\ Live(r) THEN (tour.i + 1)..r.i ELSE {}
  IN /\ tut' = t /\ tour' = r
     /\ done' = done \cup ended /\ scroll' = (scroll \/ ended # {})
     /\ keys' = keys \ ((ended \cap {"tutorial"}) \cup IF salir THEN {"tour"} ELSE {})
     /\ hold' = hold \cup called /\ drops' = drops \cup called
     /\ left' = (left \/ ("tour" \in ended /\ ~salir))
     /\ UNCHANGED <<present, placed, both>>
-----------------------------------------------------------------------------
\* abrirTutorial: the steps whose target is seen; without any, it counts as seen.
OpensTutorial ==
  /\ Press /\ ~InDocument(tut)
  /\ LET vivos == SelectSeq(Targets, LAMBDA x : x \in present) IN
     IF vivos = <<>>
     THEN done' = done \cup {"tutorial"} /\ UNCHANGED <<tut, scroll, keys, both>>
     ELSE /\ tut' = [at |-> "live", steps |-> vivos, i |-> 1]
          /\ scroll' = FALSE /\ keys' = keys \cup {"tutorial"} /\ both' = (both \/ InDocument(tour))
          /\ UNCHANGED done
  /\ UNCHANGED <<present, tour, carriedIn, left>>

\* abrirTour: the cat walks in, and calls for the first card when it is there.
OpensTour ==
  /\ Press /\ ~InDocument(tour) /\ tour' = [at |-> "live", i |-> 0] /\ walking' = TRUE
  /\ scroll' = FALSE /\ keys' = keys \cup {"tour"} /\ hold' = {} /\ drops' = {} /\ placed' = {}
  /\ both' = (both \/ InDocument(tut))
  /\ UNCHANGED <<present, tut, done, left>>

\* The page under the walks changes.
Changes(x) ==
  /\ Press /\ present' = (present \ {x}) \cup ({x} \ present)
  /\ UNCHANGED <<tut, tour, carriedIn, scroll, keys, done, left, both>>

\* The buttons of each, and the window's size.
TutNext == Live(tut) /\ Become(TutForward(tut), tour, FALSE)
TutSkip == Live(tut) /\ Become(Closed(tut), tour, FALSE)
Resizes == Live(tut) /\ Become(Placed(tut), tour, FALSE)
TourNext == Live(tour) /\ Become(tut, TourForward(tour), FALSE)
TourSkip == Live(tour) /\ Become(tut, Closed(tour), TRUE)
\* A key on the cat is heard by the cat and then by the window.
CatKey == Live(tour) /\ Become(IF Live(tut) THEN TutForward(tut) ELSE tut,
                               TourForward(TourForward(tour)), FALSE)

\* Escape and Enter go to both where both listen.
Escapes ==
  /\ keys # {}
  /\ Become(IF "tutorial" \in keys THEN Closed(tut) ELSE tut,
            IF "tour" \in keys THEN Closed(tour) ELSE tour, "tour" \in keys)
Enters ==
  /\ keys # {}
  /\ Become(IF "tutorial" \in keys THEN TutForward(tut) ELSE tut,
            IF "tour" \in keys THEN TourForward(tour) ELSE tour, FALSE)

Presses ==
  /\ Press /\ UNCHANGED walking
  /\ TutNext \/ TutSkip \/ Resizes \/ TourNext \/ TourSkip \/ CatKey \/ Escapes \/ Enters

\* The cat is in: it calls for a card, whatever was called for meanwhile.
Arrives ==
  /\ walking /\ ~left /\ walking' = FALSE
  /\ Become(tut, TourForward(tour), FALSE) /\ UNCHANGED pressed

\* suelta: the walk of a card ends.  Its card is put down and the hold is emptied, of
\* the cards of later walks too, which are put down from where they are.
PutDownHeld(c) == placed \cup ({c} \cap hold)
PutDown(c) == placed \cup {c}
Drops ==
  /\ drops # {} /\ ~left
  /\ LET c == CHOOSE d \in drops : \A e \in drops : d <= e
     IN drops' = drops \ {c} /\ placed' = PutDown(c)
  /\ hold' = {}
  /\ UNCHANGED <<present, tut, tour, walking, scroll, keys, done, left, pressed, both>>

\* The fade is over and the root goes.
Fades ==
  /\ \/ tut.at = "fading" /\ tut' = NoWalk /\ UNCHANGED tour
     \/ tour.at = "fading" /\ tour' = NoWalk /\ UNCHANGED tut
  /\ UNCHANGED <<present, carriedIn, scroll, keys, done, left, pressed, both>>

ToursNext ==
  \/ OpensTutorial \/ OpensTour \/ Presses \/ Arrives \/ Drops \/ Fades
  \/ \E x \in Range(Targets) : Changes(x)

ToursSpec == ToursInit /\ [][ToursNext]_toursVars
-----------------------------------------------------------------------------
\* While the page stays: it scrolls exactly while no walk is open (unless both were at
\* once, when the first to close frees it under the other), the keys of the window go to
\* the walks that are open and to no other, and once the cat has walked every card it
\* was called for, each of them lies in the tour.  (tutorial.ts cierra, onboard.ts
\* cierra, salir, suelta)
WalksTell ==
  ~left =>
    /\ ~both => scroll = ~(Live(tut) \/ Live(tour))
    /\ keys = {k \in {"tutorial"} : Live(tut)} \cup {k \in {"tour"} : Live(tour)}
    /\ Live(tour) /\ drops = {} => placed = 1..tour.i
=============================================================================
