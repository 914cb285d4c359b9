---------------------------- MODULE StartScreen -----------------------------
(***************************************************************************)
(* The start screen that index.html shows over the page while Blazor is    *)
(* loaded.  window.dismissSplash (interop.js, which replaces the same      *)
(* function of index.html) takes it away in two steps; it is called by     *)
(* App, by the layout, when Blazor fails to start, and 6 seconds after the *)
(* page is loaded; a last timer removes the screen after 8 seconds.  A     *)
(* timer here expires at any time after it is set.                         *)
(***************************************************************************)
VARIABLE startScreen  \* place of the element, its class "hide", the overflow
                      \* of the body, the timers set, how far Blazor is

StartTimers == {"fallback", "force", "dismiss", "fade", "cut"}

StartTypeOK ==
    startScreen \in [place : {"none", "shown", "removed"}, hide : BOOLEAN, scrolls : BOOLEAN,
                     timers : SUBSET StartTimers, loaded : BOOLEAN,
                     blazor : {"starting", "failed", "rendered"}]

StartInit ==
    startScreen = [place |-> "none", hide |-> FALSE, scrolls |-> FALSE, timers |-> {},
                   loaded |-> FALSE, blazor |-> "starting"]

\* Mutant: the body is left as it is.
StartDismissQuietly(s) ==
    IF s.place # "shown" \/ s.hide THEN s ELSE [s EXCEPT !.timers = @ \cup {"dismiss"}]

\* dismissSplash: nothing is left to do once the class is set; before, every call
\* sets a timer more, of which the first counts.
StartDismiss(s) ==
    IF s.place # "shown" \/ s.hide THEN s
    ELSE [s EXCEPT !.scrolls = TRUE, !.timers = @ \cup {"dismiss"}]

\* The script of the page.
StartShow ==
    /\ startScreen.place = "none"
    /\ startScreen' = [startScreen EXCEPT !.place = "shown", !.timers = {"force"}]

StartPageLoaded ==
    /\ startScreen.place # "none"
    /\ ~startScreen.loaded
    /\ startScreen' = [startScreen EXCEPT !.loaded = TRUE, !.timers = @ \cup {"fallback"}]

StartBlazorFails ==
    /\ startScreen.place # "none"
    /\ startScreen.blazor = "starting"
    /\ startScreen' = StartDismiss([startScreen EXCEPT !.blazor = "failed"])

\* App, then the layout, after their first render.
StartRendered ==
    /\ startScreen.place # "none"
    /\ startScreen.blazor # "failed"
    /\ startScreen' = StartDismiss([startScreen EXCEPT !.blazor = "rendered"])

StartFallback ==
    /\ "fallback" \in startScreen.timers
    /\ startScreen' = StartDismiss([startScreen EXCEPT !.timers = @ \ {"fallback"}])

\* Mutant: the element stays once it is hidden.
StartForceHides ==
    /\ "force" \in startScreen.timers
    /\ startScreen' = IF startScreen.place = "removed"
                      THEN [startScreen EXCEPT !.timers = @ \ {"force"}]
                      ELSE [startScreen EXCEPT !.hide = TRUE, !.scrolls = TRUE,
                                               !.timers = @ \ {"force"}]

StartForce ==
    /\ "force" \in startScreen.timers
    /\ startScreen' = IF startScreen.place = "removed"
                      THEN [startScreen EXCEPT !.timers = @ \ {"force"}]
                      ELSE [startScreen EXCEPT !.hide = TRUE, !.scrolls = TRUE,
                                               !.timers = (@ \ {"force"}) \cup {"cut"}]

StartDismissTimer ==
    /\ "dismiss" \in startScreen.timers
    /\ startScreen' = [startScreen EXCEPT !.hide = TRUE,
                                          !.timers = (@ \ {"dismiss"}) \cup {"fade"}]

StartRemove(timer) ==
    /\ timer \in startScreen.timers
    /\ startScreen' = [startScreen EXCEPT !.place = "removed", !.timers = @ \ {timer}]

StartNext ==
    \/ StartShow
    \/ StartPageLoaded
    \/ StartBlazorFails
    \/ StartRendered
    \/ StartFallback
    \/ StartForce
    \/ StartDismissTimer
    \/ \E timer \in {"fade", "cut"} : StartRemove(timer)

\* Timers expire.  Nothing is assumed of Blazor and of the load of the page.
StartFair ==
    /\ WF_startScreen(StartFallback)
    /\ WF_startScreen(StartForce)
    /\ WF_startScreen(StartDismissTimer)
    /\ \A timer \in {"fade", "cut"} : WF_startScreen(StartRemove(timer))

\* The page can be scrolled when the screen fades, whichever timer is first.
StartScrolls == startScreen.hide => startScreen.scrolls

\* The screen goes, even if Blazor neither starts nor fails and the page is never
\* loaded ("Extra safety", index.html:608-616).
StartScreenGoes == startScreen.place = "shown" ~> startScreen.place = "removed"

\* Whichever of the timers and callers is first, the screen never fades over a page
\* that cannot be scrolled (index.html:609-616, interop.js:314-323).
StartSafe ==
    /\ StartTypeOK
    /\ StartScrolls
=============================================================================
