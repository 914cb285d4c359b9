--------------------------- MODULE PointerEffects ---------------------------
(***************************************************************************)
(* The effects that follow the pointer over the cards of a page            *)
(* (gsap-animations.js, interop.js).  All of them are throttled: after a   *)
(* move that is handled the moves of the next 16 ms are dropped, also      *)
(* those over other cards.  They differ in who listens, each card or the   *)
(* document, and in what happens to a card that the pointer leaves.  The   *)
(* rows are those of the home page; no page calls the other five.          *)
(***************************************************************************)
EXTENDS Naturals, FiniteSets

Cards == {"first", "second"}
Spots == {"left", "right"}  \* where on a card, or beside all of them
Effect == {"tilt", "row", "cardGlow", "heroGlow", "mouseGlow", "parallax"}

\* initHeroGlow has one card only.
CardsOf(effect) == IF effect = "heroGlow" THEN {"first"} ELSE Cards

\* Effects whose listener is the document's.
OfDocument == {"mouseGlow", "parallax"}

VARIABLE pointer  \* the effect; what the pointer is over, and where; the place
                  \* each card shows (none if plain), whether it eases; the
                  \* timer; history: the last move was dropped

Plain == <<"none", "left">>
Places == (Cards \cup {"none"}) \X Spots

PointerTypeOK ==
    pointer \in [effect : Effect, place : Places, shown : [Cards -> Places],
                 eases : [Cards -> BOOLEAN], throttled : BOOLEAN, dropped : BOOLEAN]

PointerInit ==
    \E effect \in Effect :
        pointer = [effect |-> effect, place |-> Plain, shown |-> [c \in Cards |-> Plain],
                   eases |-> [c \in Cards |-> FALSE], throttled |-> FALSE, dropped |-> FALSE]

\* Mutant: the card keeps its look.
PointerStays(p, card) == [p EXCEPT !.eases[card] = TRUE]

\* The pointer leaves a card: tilted cards ease back, rows get plain, and the
\* cards of the other effects have no such handler.
PointerLeaves(p, card) ==
    CASE p.effect = "tilt" -> [p EXCEPT !.shown[card] = Plain, !.eases[card] = TRUE]
      [] p.effect = "row" -> [p EXCEPT !.shown[card] = Plain]
      [] OTHER -> p

PointerEnters(p, card) == IF p.effect = "tilt" THEN [p EXCEPT !.eases[card] = FALSE] ELSE p

\* Mutant: the place of the move before is shown.
PointerShowsLate(p) == [p.shown EXCEPT ![p.place[1]] = pointer.place]

\* Whose look a move sets: the card's under the pointer, or those of all cards.
\* The light of mouseGlow is taken off the cards the pointer is not over.
PointerShows(p) ==
    CASE p.effect \notin OfDocument -> [p.shown EXCEPT ![p.place[1]] = p.place]
      [] p.effect = "mouseGlow" -> [c \in Cards |-> IF c = p.place[1] THEN p.place ELSE Plain]
      [] p.effect = "parallax" -> [c \in Cards |-> p.place]

\* The handler of mousemove.
PointerHandles(p) ==
    IF p.throttled THEN [p EXCEPT !.dropped = TRUE]
    ELSE [p EXCEPT !.throttled = TRUE, !.dropped = FALSE, !.shown = PointerShows(p)]

\* The pointer moves: it leaves a card, enters one, and moves over it.
PointerMove(place) ==
    LET old == pointer.place[1]
        new == place[1]
        left == IF old \notin {new, "none"} THEN PointerLeaves(pointer, old) ELSE pointer
        over == IF new \notin {old, "none"} THEN PointerEnters(left, new) ELSE left
        p == [over EXCEPT !.place = place]
    IN  /\ place # pointer.place
        /\ new \in CardsOf(pointer.effect) \cup {"none"}
        /\ pointer' = IF new # "none" \/ p.effect \in OfDocument THEN PointerHandles(p) ELSE p

PointerTimer ==
    /\ pointer.throttled
    /\ pointer' = [pointer EXCEPT !.throttled = FALSE]

PointerNext ==
    \/ \E place \in Places : PointerMove(place)
    \/ PointerTimer

Shines(card) == pointer.shown[card] # Plain /\ pointer.effect # "parallax"

\* Which light outlives the pointer.  The tilt of a card and the light of a row end when
\* the pointer leaves, also when the moves around that are dropped; the light of
\* mouseGlow ends with the next move that is handled, so it is behind only while the
\* last one was dropped, and never on two cards.  The lights of cardGlow and heroGlow
\* are put out by nothing (gsap-animations.js:311-325, 392-403).  A card eases back
\* only while the pointer is elsewhere.
PointerLightEnds ==
    /\ \A c \in Cards :
         /\ Shines(c) /\ c # pointer.place[1] =>
              \/ pointer.effect \in {"cardGlow", "heroGlow"}
              \/ pointer.effect = "mouseGlow" /\ pointer.dropped
         /\ pointer.eases[c] => c # pointer.place[1] /\ pointer.effect = "tilt"
    /\ pointer.effect = "mouseGlow" => Cardinality({c \in Cards : Shines(c)}) <= 1

\* The cards share a timer and mouseGlow sets all of them in one handler, yet the light
\* of a card is always at a spot of its own: where the pointer was on it.
PointerOwnLight == \A c \in Cards : Shines(c) => pointer.shown[c][1] = c

\* However fast the pointer moves over the cards, and whichever moves are dropped, a
\* light is where the pointer is or was on that card, and ends as its effect has it.
PointerSafe ==
    /\ PointerTypeOK
    /\ PointerLightEnds
    /\ PointerOwnLight
=============================================================================
