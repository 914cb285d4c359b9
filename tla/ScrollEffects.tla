--------------------------- MODULE ScrollEffects ----------------------------
(***************************************************************************)
(* The animations of gsap-animations.js that are driven by scrolling, and  *)
(* the pages and components that start them.  ScrollTrigger (GSAP) keeps   *)
(* one list of triggers for the whole application:                         *)
(*                                                                         *)
(*   a page hides its elements and reveals each when its trigger fires;    *)
(*   the components ParallaxScrolling and ArchitectureStorytelling move    *)
(*   layers and steps with the scroll position, and when they are disposed *)
(*   kill every trigger of the list.                                       *)
(*                                                                         *)
(* A page is one of the numbered visits to pages; its elements are one.    *)
(* At this commit five public pages start initScrollAnimations and About   *)
(* also initCounters; the two components are on no page.                   *)
(***************************************************************************)
EXTENDS Integers, Sequences

CONSTANT MaxPages  \* bound on the visits to pages

ASSUME PagesAssumption == MaxPages \in Nat

PageVisits == 1..MaxPages
Effects == {"reveal", "counter", "parallax", "story", "typing"}
Nodes == {"HIS", "RIS", "MIS", "line1", "line2"}

\* Mutant: the last call leaves the first line.
StoryCallsLined == <<
    [on |-> {"HIS"}, off |-> {}],
    [on |-> {"HIS", "RIS", "line1"}, off |-> {}],
    [on |-> {}, off |-> {"HIS"}],
    [on |-> {"RIS", "MIS", "line2"}, off |-> {}],
    [on |-> {}, off |-> {"HIS", "RIS"}]>>

\* The calls of the timeline of the architecture in their order, at 0, 0.3, 0.35,
\* 0.6 and 0.65: what each lights and puts out.
StoryCalls == <<
    [on |-> {"HIS"}, off |-> {}],
    [on |-> {"HIS", "RIS", "line1"}, off |-> {}],
    [on |-> {}, off |-> {"HIS"}],
    [on |-> {"RIS", "MIS", "line2"}, off |-> {}],
    [on |-> {}, off |-> {"HIS", "RIS", "line1"}]>>

VARIABLES
    gsap,    \* gsap and ScrollTrigger are loaded
    scroll,  \* the visits so far; the calls of first renders still to come; the
             \* components on the page; its elements, and its counter; all
             \* triggers, as pairs of a visit and an effect; the components
             \* whose timeline is kept (_parallaxTrigger, _archTimeline);
             \* history: triggers were killed while their page stayed
    story    \* the architecture: calls passed, nodes lit, _typingDone, how often
             \* the text was typed; history: the most calls passed at once

scrollVars == <<gsap, scroll, story>>

Parts == {"parallax", "story"}

ScrollTypeOK ==
    /\ gsap \in BOOLEAN
    /\ scroll \in [pages : 0..MaxPages, todo : SUBSET (Parts \cup {"reveal", "counter"}),
                   parts : SUBSET Parts, element : {"plain", "hidden", "revealed"},
                   counter : {"zero", "target"}, triggers : SUBSET (PageVisits \X Effects),
                   kept : SUBSET Parts, killed : BOOLEAN]
    /\ story \in [at : 0..Len(StoryCalls), far : 0..Len(StoryCalls), lit : SUBSET Nodes,
                  done : BOOLEAN, typed : Nat]

ScrollInit ==
    /\ gsap \in BOOLEAN
    /\ scroll = [pages |-> 0, todo |-> {}, parts |-> {}, element |-> "plain",
                 counter |-> "zero", triggers |-> {}, kept |-> {}, killed |-> FALSE]
    /\ story = [at |-> 0, far |-> 0, lit |-> {}, done |-> FALSE, typed |-> 0]

Trigger(effect) == <<scroll.pages, effect>>
-----------------------------------------------------------------------------
(* Components that are disposed. *)

\* Mutant: the handle is not looked at.
DisposeAlways(s, parts) ==
    IF parts = {} THEN s ELSE [s EXCEPT !.triggers = {}, !.kept = @ \ parts]

\* disposeParallaxScroll, disposeArchitectureScroll: a component whose timeline is
\* kept kills every trigger there is.
DisposeParts(s, parts) ==
    IF parts \cap s.kept = {} THEN s ELSE [s EXCEPT !.triggers = {}, !.kept = @ \ parts]

\* Another page: the components of the last one are disposed, then the new page is
\* rendered, with its elements and some of the components.
OpenPage ==
    /\ scroll.pages < MaxPages
    /\ \E parts \in SUBSET Parts :
         scroll' = [DisposeParts(scroll, scroll.parts) EXCEPT
                      !.pages = @ + 1, !.parts = parts,
                      !.todo = parts \cup {"reveal", "counter"},
                      !.element = "plain", !.counter = "zero", !.killed = FALSE]
    /\ story' = [at |-> 0, far |-> 0, lit |-> {}, typed |-> 0,
                 done |-> story.done /\ "story" \notin scroll.parts]
    /\ UNCHANGED gsap

\* A component is taken off a page that stays.
RemovePart(part) ==
    /\ part \in scroll.parts
    /\ scroll' = [DisposeParts(scroll, {part}) EXCEPT
                     !.parts = @ \ {part}, !.todo = @ \ {part},
                     !.killed = @ \/ part \in scroll.kept]
    /\ story' = IF part = "story" THEN [story EXCEPT !.done = FALSE] ELSE story
    /\ UNCHANGED gsap
-----------------------------------------------------------------------------
(* First renders. *)

Start(call, s) ==
    /\ call \in scroll.todo
    /\ scroll' = [s EXCEPT !.todo = @ \ {call}]
    /\ UNCHANGED <<gsap, story>>

WithTriggers(effects) ==
    [scroll EXCEPT !.triggers = @ \cup {Trigger(e) : e \in effects}]

\* gsap.from hides the elements at once, until their trigger fires.
InitScrollAnimations ==
    Start("reveal", IF gsap THEN [WithTriggers({"reveal"}) EXCEPT !.element = "hidden"]
                    ELSE scroll)

InitCounters == Start("counter", IF gsap THEN WithTriggers({"counter"}) ELSE scroll)

\* Narrow screens have no parallax.
InitParallaxScroll ==
    \E wide \in BOOLEAN :
        Start("parallax", IF gsap /\ wide
                          THEN [WithTriggers({"parallax"}) EXCEPT !.kept = @ \cup {"parallax"}]
                          ELSE scroll)

InitArchitectureScroll ==
    Start("story", IF gsap THEN [WithTriggers({"story", "typing"}) EXCEPT !.kept = @ \cup {"story"}]
                   ELSE scroll)
-----------------------------------------------------------------------------
(* The user scrolls. *)

Reveal ==
    /\ Trigger("reveal") \in scroll.triggers
    /\ scroll' = [scroll EXCEPT !.element = "revealed"]
    /\ UNCHANGED <<gsap, story>>

Count ==
    /\ Trigger("counter") \in scroll.triggers
    /\ scroll' = [scroll EXCEPT !.counter = "target"]
    /\ UNCHANGED <<gsap, story>>

\* The position passes a call of the timeline: a call is made on the way down and
\* on the way up.
ScrollStory ==
    /\ Trigger("story") \in scroll.triggers
    /\ \E at \in 0..Len(StoryCalls) :
         /\ at \in {story.at - 1, story.at + 1}
         /\ LET call == StoryCalls[IF at > story.at THEN at ELSE story.at]
            IN  story' = [story EXCEPT !.at = at, !.far = IF at > @ THEN at ELSE @,
                                     !.lit = (@ \cup call.on) \ call.off]
    /\ UNCHANGED <<gsap, scroll>>

\* Mutant: the text is typed at every entry.
TypeTextAgain ==
    /\ Trigger("typing") \in scroll.triggers
    /\ story.typed < 2
    /\ story' = [story EXCEPT !.done = TRUE, !.typed = @ + 1]
    /\ UNCHANGED <<gsap, scroll>>

\* The third step comes into view: the text is typed the first time.
TypeText ==
    /\ Trigger("typing") \in scroll.triggers
    /\ ~story.done
    /\ story' = [story EXCEPT !.done = TRUE, !.typed = @ + 1]
    /\ UNCHANGED <<gsap, scroll>>

ScrollNext ==
    \/ OpenPage
    \/ \E part \in Parts : RemovePart(part)
    \/ InitScrollAnimations
    \/ InitCounters
    \/ InitParallaxScroll
    \/ InitArchitectureScroll
    \/ Reveal
    \/ Count
    \/ ScrollStory
    \/ TypeText

ScrollSpec == ScrollInit /\ [][ScrollNext]_scrollVars
-----------------------------------------------------------------------------
(* Properties. *)

\* What the page hides it can still reveal, unless a component was taken off the
\* page, which kills the triggers of the rest: then it stays invisible.
HiddenCanBeRevealed ==
    scroll.element = "hidden" => Trigger("reveal") \in scroll.triggers \/ scroll.killed

\* The text is typed once for a page, however often its step comes into view.
TypedOnce == story.typed <= 1

\* All that the first calls of the timeline light.
LitBy(calls) == UNION {StoryCalls[i].on : i \in 1..calls}

\* What scrolling to and fro does to the lights.  A line is lit only with the node it
\* leads to; at the end the last node is lit with its line alone.  On the way up every
\* call is made again as it is and none is undone: back at the top nothing is put out,
\* all that was ever lit shines at once (gsap-animations.js:249-271).
StoryAddsUp ==
    /\ "line1" \in story.lit => "RIS" \in story.lit
    /\ "line2" \in story.lit => "MIS" \in story.lit
    /\ story.at = Len(StoryCalls) => story.lit = {"MIS", "line2"}
    /\ story.at = 0 => story.lit = LitBy(story.far)

\* Under scrolling to and fro and components that come and go what a page hides can be
\* revealed, until a component taken off it kills the triggers; the text of the story is
\* typed once; and which of its lights shine at either end does not depend on the way.
ScrollSafe ==
    /\ ScrollTypeOK
    /\ HiddenCanBeRevealed
    /\ TypedOnce
    /\ StoryAddsUp
=============================================================================
