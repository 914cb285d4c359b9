---------------------------- MODULE SmoothScroll ----------------------------
(***************************************************************************)
(* Smooth scrolling (gsap-animations.js): an instance of Lenis takes the   *)
(* wheel of the mouse and moves the page at each tick of GSAP's clock, by  *)
(* a callback that calls the instance kept in _mainLenis at that time.     *)
(***************************************************************************)
EXTENDS Naturals

CONSTANT MaxLenis  \* bound on the instances

ASSUME LenisAssumption == MaxLenis \in Nat

VARIABLE smooth  \* gsap is loaded; _mainLenis (0 for null), the instances so far,
                 \* those not destroyed, callbacks of the clock, callbacks that
                 \* failed in the last tick; history: made again before
                 \* disposed, disposed

SmoothTypeOK ==
    smooth \in [gsap : BOOLEAN, lenis : 0..MaxLenis, made : 0..MaxLenis,
                live : SUBSET (1..MaxLenis), ticks : 0..MaxLenis, failed : 0..MaxLenis,
                again : BOOLEAN, disposed : BOOLEAN]

SmoothInit ==
    \E gsap \in BOOLEAN :
        smooth = [gsap |-> gsap, lenis |-> 0, made |-> 0, live |-> {}, ticks |-> 0,
                  failed |-> 0, again |-> FALSE, disposed |-> FALSE]

\* initSmoothScroll.  Without gsap the exception is caught after the instance is
\* kept, and nothing drives it.
InitSmoothScroll ==
    /\ smooth.made < MaxLenis
    /\ smooth' = [smooth EXCEPT !.lenis = smooth.made + 1, !.made = @ + 1,
                     !.live = @ \cup {smooth.made + 1},
                     !.ticks = IF smooth.gsap THEN @ + 1 ELSE @,
                     !.again = @ \/ smooth.lenis # 0]

\* Mutant: the instance is forgotten, not destroyed.
ForgetSmoothScroll ==
    /\ smooth.lenis # 0
    /\ smooth' = [smooth EXCEPT !.lenis = 0, !.disposed = TRUE]

\* disposeSmoothScroll: the callbacks stay.
DisposeSmoothScroll ==
    /\ smooth.lenis # 0
    /\ smooth' = [smooth EXCEPT !.lenis = 0, !.live = @ \ {smooth.lenis}, !.disposed = TRUE]

\* A tick: every callback calls the instance, and fails without one.
SmoothTick ==
    smooth' = [smooth EXCEPT !.failed = IF smooth.lenis = 0 THEN smooth.ticks ELSE 0]

SmoothNext ==
    \/ InitSmoothScroll
    \/ DisposeSmoothScroll
    \/ SmoothTick

\* An instance that takes the wheel is the one that the clock drives, once a tick,
\* unless another was made before it was disposed, or gsap is missing; and
\* callbacks fail, or come twice, only once an instance was disposed.
SmoothDriven ==
    /\ smooth.gsap /\ ~smooth.again /\ smooth.live # {} =>
         /\ smooth.live = {smooth.lenis}
         /\ smooth.ticks = 1 \/ (smooth.ticks > 1 /\ smooth.disposed)
    /\ smooth.failed > 0 => smooth.disposed

\* The wheel is taken by one instance, which the clock drives (initSmoothScroll).
SmoothSafe ==
    /\ SmoothTypeOK
    /\ SmoothDriven
=============================================================================
