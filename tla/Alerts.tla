------------------------------- MODULE Alerts -------------------------------
(***************************************************************************)
(* The toasts: AlertService, whose first calls load the script, and        *)
(* alertManager.js, which keeps one container on the page.  Each call of   *)
(* the service awaits the import and the initialisation unless an earlier  *)
(* one has seen both done, then calls the script; several calls may be     *)
(* under way.  An alert has the number of its call; a timer here expires   *)
(* at any time after it is set.                                            *)
(***************************************************************************)
EXTENDS Naturals, FiniteSets

CONSTANT MaxCalls  \* bound on the calls of the service

ASSUME CallsAssumption == MaxCalls \in Nat

Calls == 1..MaxCalls

\* An alert with a duration, one with duration 0, and HideAllAsync.
CallKinds == {"timed", "lasting", "hideAll"}

AlertTimers == {"frame", "duration", "remove"}

VARIABLES
    alertService,  \* _isInitialized; the calls so far, what each asks for, and
                   \* what it does next
    alertPage      \* the containers made; the alerts in the last one, their
                   \* classes, the timers set; history: the alerts that the
                   \* user or hideAllAlerts closed

alertVars == <<alertService, alertPage>>

CallSteps == {"none", "import", "initialize", "call", "done", "failed"}

AlertTypeOK ==
    /\ alertService \in [initialized : BOOLEAN, calls : 0..MaxCalls,
                         kind : [Calls -> CallKinds], step : [Calls -> CallSteps]]
    /\ alertPage \in [containers : Nat, alerts : SUBSET Calls, show : SUBSET Calls,
                      hide : SUBSET Calls, timers : SUBSET (AlertTimers \X Calls),
                      closed : SUBSET Calls]

AlertInit ==
    /\ alertService = [initialized |-> FALSE, calls |-> 0, kind |-> [n \in Calls |-> "timed"],
                       step |-> [n \in Calls |-> "none"]]
    /\ alertPage = [containers |-> 0, alerts |-> {}, show |-> {}, hide |-> {}, timers |-> {},
                    closed |-> {}]
-----------------------------------------------------------------------------
(* The script. *)

\* Mutant: every call makes a container.
InitializeAnew(p) == [p EXCEPT !.containers = @ + 1, !.alerts = {}]

\* initialize: once.
Initialize(p) == IF p.containers > 0 THEN p ELSE [p EXCEPT !.containers = 1]

\* Mutant: no duration is the default duration.
AlertTimersAlways(n) == {<<"frame", n>>, <<"duration", n>>}

\* Mutant: the timer of the duration is not set.
AlertTimersFrame(n) == {<<"frame", n>>}

AlertTimersOf(n) ==
    {<<"frame", n>>} \cup IF alertService.kind[n] = "timed" THEN {<<"duration", n>>} ELSE {}

\* showAlert: the element, and its timers.
ShowAlert(p, n) ==
    [Initialize(p) EXCEPT !.alerts = @ \cup {n}, !.timers = @ \cup AlertTimersOf(n)]

\* hideAllAlerts empties the container; the timers stay.
HideAllAlerts(p) == [p EXCEPT !.closed = @ \cup p.alerts, !.alerts = {}]
-----------------------------------------------------------------------------
(* The service. *)

\* ShowSuccessAsync and the like, HideAllAsync, up to the first await.
AlertCall(kind) ==
    LET n == alertService.calls + 1
    IN  /\ alertService.calls < MaxCalls
        /\ alertService' = [alertService EXCEPT
             !.calls = n, !.kind[n] = kind,
             !.step[n] = IF alertService.initialized THEN "call" ELSE "import"]
        /\ UNCHANGED alertPage

AlertImported(n) ==
    /\ alertService.step[n] = "import"
    /\ \E loaded \in BOOLEAN :
         alertService' = [alertService EXCEPT !.step[n] = IF loaded THEN "initialize" ELSE "failed"]
    /\ UNCHANGED alertPage

AlertInitialized(n) ==
    /\ alertService.step[n] = "initialize"
    /\ alertService' = [alertService EXCEPT !.step[n] = "call", !.initialized = TRUE]
    /\ alertPage' = Initialize(alertPage)

AlertCalled(n) ==
    /\ alertService.step[n] = "call"
    /\ alertService' = [alertService EXCEPT !.step[n] = "done"]
    /\ alertPage' = IF alertService.kind[n] = "hideAll" THEN HideAllAlerts(alertPage)
                    ELSE ShowAlert(alertPage, n)
-----------------------------------------------------------------------------
(* The page. *)

\* The second of two frames lets the alert slide in, whatever became of it.
AlertFrame(n) ==
    /\ <<"frame", n>> \in alertPage.timers
    /\ alertPage' = [alertPage EXCEPT !.show = @ \cup {n}, !.timers = @ \ {<<"frame", n>>}]
    /\ UNCHANGED alertService

\* Its time is over.
AlertExpires(n) ==
    /\ <<"duration", n>> \in alertPage.timers
    /\ alertPage' = [alertPage EXCEPT !.hide = @ \cup {n},
                        !.timers = (@ \ {<<"duration", n>>}) \cup {<<"remove", n>>}]
    /\ UNCHANGED alertService

AlertRemoved(n) ==
    /\ <<"remove", n>> \in alertPage.timers
    /\ alertPage' = [alertPage EXCEPT !.alerts = @ \ {n}, !.timers = @ \ {<<"remove", n>>}]
    /\ UNCHANGED alertService

\* A click on the alert; on its button the element is removed at once, and the
\* click still reaches the handler of the alert.
AlertClicked(n) ==
    /\ n \in alertPage.alerts
    /\ \E button \in BOOLEAN :
         alertPage' = [alertPage EXCEPT !.alerts = IF button THEN @ \ {n} ELSE @,
                          !.hide = @ \cup {n}, !.closed = @ \cup {n},
                          !.timers = @ \cup {<<"remove", n>>}]
    /\ UNCHANGED alertService

AlertNext ==
    \/ \E kind \in CallKinds : AlertCall(kind)
    \/ \E n \in Calls : \/ AlertImported(n)
                        \/ AlertInitialized(n)
                        \/ AlertCalled(n)
                        \/ AlertFrame(n)
                        \/ AlertExpires(n)
                        \/ AlertRemoved(n)
                        \/ AlertClicked(n)

\* The script answers or fails to load, and timers expire.
AlertFair ==
    \A n \in Calls : /\ WF_alertVars(AlertImported(n))
                     /\ WF_alertVars(AlertInitialized(n))
                     /\ WF_alertVars(AlertCalled(n))
                     /\ WF_alertVars(AlertExpires(n))
                     /\ WF_alertVars(AlertRemoved(n))

AlertSpec == AlertInit /\ [][AlertNext]_alertVars /\ AlertFair
-----------------------------------------------------------------------------
(* Properties. *)

\* One container is made however the first calls overlap, each of which sees the
\* service not initialised; so no alert is in a container that was replaced.
AlertOneContainer ==
    /\ alertPage.containers <= 1
    /\ alertPage.alerts # {} => alertPage.containers = 1

\* An alert without a duration stays until the user or hideAllAlerts closes it, and
\* no alert that was not asked to leave is hidden.
AlertLasts ==
    \A n \in Calls :
        /\ alertService.step[n] = "done" /\ alertService.kind[n] = "lasting" =>
             n \in alertPage.closed \/ (n \in alertPage.alerts /\ n \notin alertPage.hide)
        /\ n \in alertPage.hide => n \in alertPage.closed \/ alertService.kind[n] = "timed"

\* An alert with a duration is shown and goes away by itself, unless its call fails.
AlertGoes ==
    \A n \in Calls :
        alertService.step[n] # "none" /\ alertService.kind[n] = "timed"
            ~> alertService.step[n] \in {"done", "failed"} /\ n \notin alertPage.alerts

\* Alerts are in the one container of the page and leave it only when they should.
AlertSafe ==
    /\ AlertTypeOK
    /\ AlertOneContainer
    /\ AlertLasts
=============================================================================
