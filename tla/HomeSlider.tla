----------------------------- MODULE HomeSlider -----------------------------
(***************************************************************************)
(* The slider of the home page (Home.razor): the data of the page come one *)
(* after the other, the slides first, and two timers are created after the *)
(* last of them; the arrows and the dots are there from the first render.  *)
(* NextSlide and PrevSlide divide by the number of slides.  A tick that    *)
(* throws is swallowed; a click that throws shows the error bar of Blazor  *)
(* WebAssembly and leaves the component to handle the next, with           *)
(* _prevSlide set already.  The progress bar is left out.                  *)
(***************************************************************************)
EXTENDS Integers

CONSTANT MaxSlides  \* bound on the slides in the database

ASSUME SlidesAssumption == MaxSlides \in Nat

VARIABLE slider  \* data still to come, slides, _currentSlide, _prevSlide, the
                 \* timers run, the page is shown; history: it was left before
                 \* its timers were created

SliderTypeOK ==
    slider \in [awaits : {"slides", "others", "nothing"}, count : 0..MaxSlides,
                current : 0..MaxSlides, prev : -1..MaxSlides, timers : BOOLEAN,
                shown : BOOLEAN, early : BOOLEAN]

SliderInit ==
    slider = [awaits |-> "slides", count |-> 0, current |-> 0, prev |-> -1, timers |-> FALSE,
              shown |-> TRUE, early |-> FALSE]

\* The slides come, or none if the request fails.
SliderLoaded ==
    /\ slider.awaits = "slides"
    /\ \E n \in 0..MaxSlides : slider' = [slider EXCEPT !.awaits = "others", !.count = n]

\* Products and clients come, or fail to: the timers start, whether or not the page
\* is still shown.
SliderStarts ==
    /\ slider.awaits = "others"
    /\ slider' = [slider EXCEPT !.awaits = "nothing", !.timers = TRUE]

\* Mutant: an index past the last slide.
SlidePast(s, step) ==
    IF s.count = 0 THEN [s EXCEPT !.prev = s.current]
    ELSE [s EXCEPT !.prev = s.current, !.current = IF @ + step \in 0..s.count THEN @ + step ELSE 0]

\* Mutant: the slides are not a ring.
SlideOn(s, step) ==
    IF s.count = 0 THEN [s EXCEPT !.prev = s.current]
    ELSE [s EXCEPT !.prev = s.current, !.current = @ + step]

\* NextSlide, PrevSlide; without slides the division throws after _prevSlide is set.
Slide(s, step) ==
    IF s.count = 0 THEN [s EXCEPT !.prev = s.current]
    ELSE [s EXCEPT !.prev = s.current, !.current = (@ + step + s.count) % s.count]

\* An arrow.
SliderArrow ==
    /\ slider.shown
    /\ \E step \in {-1, 1} : slider' = Slide(slider, step)

\* A dot: GoToSlide.
SliderDot ==
    /\ slider.shown
    /\ \E i \in 0..(slider.count - 1) :
         slider' = [slider EXCEPT !.prev = slider.current, !.current = i]

\* Mutant: the timer has no due time.
SliderTickNever == slider.timers /\ UNCHANGED slider

SliderTick ==
    /\ slider.timers
    /\ slider' = Slide(slider, 1)

\* Mutant: the timers are left to run.
SliderLeaveRunning ==
    /\ slider.shown
    /\ slider' = [slider EXCEPT !.shown = FALSE, !.early = slider.awaits # "nothing"]

\* DisposeAsync disposes the timers there are.
SliderLeave ==
    /\ slider.shown
    /\ slider' = [slider EXCEPT !.shown = FALSE, !.timers = FALSE,
                                !.early = slider.awaits # "nothing"]

SliderNext ==
    \/ SliderLoaded
    \/ SliderStarts
    \/ SliderArrow
    \/ SliderDot
    \/ SliderTick
    \/ SliderLeave

\* The timers tick.
SliderFair == WF_slider(SliderTick)

\* A slide is shown whenever there is one, whatever was clicked before the slides
\* came: the index is that of a slide, or 0, which a page without slides keeps.
SliderShowsOne ==
    /\ slider.current < slider.count \/ slider.current = 0
    /\ slider.prev < slider.count \/ slider.prev = 0

\* The timers of a page that was left are gone, unless it was left before they were
\* created: then they run, and render it, for good (Home.razor:208-222, 289-292).
SliderTimersEnd == slider.timers => slider.shown \/ slider.early

\* The slider moves on by itself.
SliderMoves ==
    slider.timers /\ slider.count > 1 /\ slider.current = 0
        ~> slider.current # 0 \/ ~slider.shown

\* A slide is shown whatever was clicked and however often a click threw, and the only
\* timers that work for a page that was left are those created after it was left: they
\* run for good (Home.razor:208-222, 246-265, 289-292).
SliderSafe ==
    /\ SliderTypeOK
    /\ SliderShowsOne
    /\ SliderTimersEnd
=============================================================================
