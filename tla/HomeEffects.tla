---------------------------- MODULE HomeEffects -----------------------------
(***************************************************************************)
(* The effects of the home page: the glow that follows the pointer and the *)
(* particles (interop.js), each a loop of animation frames with one handle *)
(* in a variable of the script.  A visit of the page (Home.razor) starts   *)
(* them in its first render and ends them in DisposeAsync, each after an   *)
(* await.  The visits are numbered; the loops of a visit have its number.  *)
(***************************************************************************)
EXTENDS Naturals, FiniteSets

CONSTANT MaxVisits  \* bound on the visits of the home page

ASSUME VisitsAssumption == MaxVisits \in Nat

Visits == 1..MaxVisits
NoVisit == 0

VARIABLES
    home,   \* the page: visits so far, the one shown, how far the mount and the
            \* leaving of each are; history: visits whose mount met another's
            \* end, or their own
    glow,   \* _homeGlowActive, _homeGlowRaf, the loops with a frame to come
    dots    \* _homeParticlesArr is filled, _homeParticlesRAF, the loops with a
            \* frame to come, the visit whose canvas each draws on

homeVars == <<home, glow, dots>>

MountSteps == {"no", "glow", "particles", "reveal", "done"}
LeaveSteps == {"no", "glow", "particles", "done"}

HomeTypeOK ==
    /\ home \in [visits : 0..MaxVisits, shown : Visits \cup {NoVisit},
                 mount : [Visits -> MountSteps], leave : [Visits -> LeaveSteps],
                 tangled : SUBSET Visits]
    /\ glow \in [active : BOOLEAN, handle : Visits \cup {NoVisit}, loops : SUBSET Visits]
    /\ dots \in [filled : BOOLEAN, handle : Visits \cup {NoVisit}, loops : SUBSET Visits,
                 canvas : [Visits -> Visits \cup {NoVisit}], resizers : SUBSET Visits]

HomeInit ==
    /\ home = [visits |-> 0, shown |-> NoVisit, mount |-> [v \in Visits |-> "no"],
               leave |-> [v \in Visits |-> "no"], tangled |-> {}]
    /\ glow = [active |-> FALSE, handle |-> NoVisit, loops |-> {}]
    /\ dots = [filled |-> FALSE, handle |-> NoVisit, loops |-> {},
               canvas |-> [v \in Visits |-> NoVisit], resizers |-> {}]

Mounting(v) == home.mount[v] \in {"glow", "particles", "reveal"}
Leaving(v) == home.leave[v] \in {"glow", "particles"}
HomeBusy == {v \in Visits : Mounting(v) \/ Leaving(v)}
-----------------------------------------------------------------------------
(* The page. *)

\* A visit begins; the first render follows.
HomeOpen ==
    LET v == home.visits + 1
    IN  /\ home.shown = NoVisit
        /\ home.visits < MaxVisits
        /\ home' = [home EXCEPT !.visits = v, !.shown = v, !.mount[v] = "glow",
                                !.tangled = IF HomeBusy = {} THEN @ ELSE @ \cup {v}]
        /\ UNCHANGED <<glow, dots>>

\* The user leaves; DisposeAsync begins.
HomeLeave(v) ==
    /\ v = home.shown
    /\ v # NoVisit
    /\ home' = [home EXCEPT !.shown = NoVisit, !.leave[v] = "glow",
                            !.tangled = IF Mounting(v) THEN @ \cup {v} ELSE @]
    /\ UNCHANGED <<glow, dots>>
-----------------------------------------------------------------------------
(* The glow. *)

\* initHomeMouseGlow: the loop makes its first step at once.  The listener that moves
\* the target of the glow (interop.js:140) touches no loop and is left out; it is
\* never removed.
InitGlow(v) ==
    /\ home.mount[v] = "glow"
    /\ home' = [home EXCEPT !.mount[v] = "particles"]
    /\ glow' = [active |-> TRUE, handle |-> v, loops |-> glow.loops \cup {v}]
    /\ UNCHANGED dots

\* Mutant: the flag is reset, the frame to come is left to see it.
DisposeGlowFlag(v) ==
    /\ home.leave[v] = "glow"
    /\ home' = [home EXCEPT !.leave[v] = "particles"]
    /\ glow' = [glow EXCEPT !.active = FALSE, !.handle = NoVisit]
    /\ UNCHANGED dots

\* disposeHomeMouseGlow cancels the frame asked for last.
DisposeGlow(v) ==
    /\ home.leave[v] = "glow"
    /\ home' = [home EXCEPT !.leave[v] = "particles"]
    /\ glow' = [active |-> FALSE, handle |-> NoVisit, loops |-> glow.loops \ {glow.handle}]
    /\ UNCHANGED dots

\* Mutant: the loop goes on, whatever the flag.
GlowFrameAlways(v) ==
    /\ v \in glow.loops
    /\ glow' = [glow EXCEPT !.handle = v]
    /\ UNCHANGED <<home, dots>>

\* _homeGlowLoop: its next frame, or its last step.
GlowFrame(v) ==
    /\ v \in glow.loops
    /\ glow' = IF glow.active THEN [glow EXCEPT !.handle = v]
               ELSE [glow EXCEPT !.loops = @ \ {v}]
    /\ UNCHANGED <<home, dots>>
-----------------------------------------------------------------------------
(* The particles. *)

\* Mutant: the particles are not spawned before the first draw.
InitParticlesEmpty(v) ==
    /\ home.mount[v] = "particles"
    /\ home' = [home EXCEPT !.mount[v] = "reveal"]
    /\ dots' = [dots EXCEPT !.handle = v, !.loops = @ \cup {v}, !.canvas[v] = home.shown]
    /\ UNCHANGED glow

\* initHomeParticles: nothing without the canvas.  The listener of resize is
\* never removed.
InitParticles(v) ==
    /\ home.mount[v] = "particles"
    /\ home' = [home EXCEPT !.mount[v] = "reveal"]
    /\ dots' = IF home.shown = NoVisit THEN dots
               ELSE [filled |-> TRUE, handle |-> v, loops |-> dots.loops \cup {v},
                     canvas |-> [dots.canvas EXCEPT ![v] = home.shown],
                     resizers |-> dots.resizers \cup {v}]
    /\ UNCHANGED glow

\* disposeHomeParticles.
DisposeParticles(v) ==
    /\ home.leave[v] = "particles"
    /\ home' = [home EXCEPT !.leave[v] = "done"]
    /\ dots' = [dots EXCEPT !.filled = FALSE, !.handle = NoVisit, !.loops = @ \ {dots.handle}]
    /\ UNCHANGED glow

\* draw: a canvas that has left the page ends the loop.
ParticlesFrame(v) ==
    /\ v \in dots.loops
    /\ dots' = IF dots.canvas[v] = home.shown THEN [dots EXCEPT !.handle = v]
               ELSE [dots EXCEPT !.loops = @ \ {v}]
    /\ UNCHANGED <<home, glow>>

\* The window is resized: each listener fills the array that all of them share.
HomeResize ==
    /\ dots.resizers # {}
    /\ dots' = [dots EXCEPT !.filled = TRUE]
    /\ UNCHANGED <<home, glow>>

\* initHomeProductReveal: handlers on the rows of the page shown.
InitProductReveal(v) ==
    /\ home.mount[v] = "reveal"
    /\ home' = [home EXCEPT !.mount[v] = "done"]
    /\ UNCHANGED <<glow, dots>>
-----------------------------------------------------------------------------
HomeNext ==
    \/ HomeOpen
    \/ HomeResize
    \/ \E v \in Visits : \/ HomeLeave(v)
                         \/ InitGlow(v)
                         \/ DisposeGlow(v)
                         \/ GlowFrame(v)
                         \/ InitParticles(v)
                         \/ DisposeParticles(v)
                         \/ ParticlesFrame(v)
                         \/ InitProductReveal(v)

\* The mount, the leaving and the frames go on.
HomeFair ==
    \A v \in Visits : /\ WF_homeVars(InitGlow(v))
                      /\ WF_homeVars(InitParticles(v))
                      /\ WF_homeVars(InitProductReveal(v))
                      /\ WF_homeVars(DisposeGlow(v))
                      /\ WF_homeVars(DisposeParticles(v))
                      /\ WF_homeVars(GlowFrame(v))
                      /\ WF_homeVars(ParticlesFrame(v))

HomeSpec == HomeInit /\ [][HomeNext]_homeVars /\ HomeFair
-----------------------------------------------------------------------------
(* Properties. *)

\* A page that is shown has its effects, unless its mount met the end of another
\* visit, whose late DisposeAsync stops the effects of the page shown.
HomeAlive ==
    \A v \in Visits \ home.tangled :
        v = home.shown /\ home.mount[v] = "done" =>
            /\ glow.active /\ glow.loops # {}
            /\ dots.filled /\ v \in dots.loops

\* Two loops of one effect run only after visits got tangled: the handle is one,
\* so one cancellation ends one loop.
HomeOneLoop ==
    home.tangled = {} => Cardinality(glow.loops) <= 1 /\ Cardinality(dots.loops) <= 1

\* Off the page the loops come to an end, unless the last visit got tangled.
HomeLoopsEnd ==
    home.shown = NoVisit ~> \/ home.shown # NoVisit
                            \/ home.visits \in home.tangled
                            \/ glow.loops \cup dots.loops = {}

\* The page that is shown has its effects, and each once (Home.razor:224-244, 289-295).
HomeSafe ==
    /\ HomeTypeOK
    /\ HomeAlive
    /\ HomeOneLoop
=============================================================================
