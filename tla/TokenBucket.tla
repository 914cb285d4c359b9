---------------------------- MODULE TokenBucket ----------------------------
(***************************************************************************)
(* One rate limiter of Pdd.ir.Server/Services/TokenBucket.cs; the server's *)
(* AuthService keeps one per ClientId.                                     *)
(*                                                                         *)
(* The balance is counted in units that accrue one per tick of the clock:  *)
(* a token costs Cost units (Cost ticks refill one token, so refillRate is *)
(* 1/Cost tokens per tick) and a full bucket holds Full units (capacity *  *)
(* Cost).  The clock is DateTime.UtcNow, a wall clock: it normally moves   *)
(* forward but an adjustment of the machine's time can set it back.        *)
(***************************************************************************)
EXTENDS Integers

CONSTANTS
    Cost,          \* units that one admission costs (ticks per token)
    Full,          \* units of a full bucket
    Times,         \* the times the clock may show
    MaxAdmitted    \* bound on the admissions counted

ASSUME BucketAssumption ==
    /\ Cost \in Nat \ {0}
    /\ Full \in Nat
    /\ Cost <= Full
    /\ Times \subseteq Int
    /\ MaxAdmitted \in Nat

VARIABLES
    now,          \* DateTime.UtcNow
    tokens,       \* _tokens, in units
    lastRefill,   \* _lastRefill
    admitted,     \* history: the TryConsume calls that returned true
    start,        \* history: the time the bucket was constructed
    latest,       \* history: the largest time the clock has shown
    mark          \* history: an observation window, opened at a time at when
                  \* count calls had been admitted; live until the clock is
                  \* set back or the bucket is replaced

vars == <<now, tokens, lastRefill, admitted, start, latest, mark>>

TypeOK ==
    /\ now \in Times
    /\ tokens \in Int /\ tokens <= Full
    /\ lastRefill \in Times
    /\ admitted \in 0..MaxAdmitted
    /\ start \in Times
    /\ latest \in Times
    /\ mark \in [at : Times, count : 0..MaxAdmitted, live : BOOLEAN]

----------------------------------------------------------------------------
Lesser(a, b) == IF a <= b THEN a ELSE b

\* The balance once the time passed since the last refill is credited.
AvailableTokens == Lesser(Full, tokens + (now - lastRefill))

WouldAllow == AvailableTokens >= Cost

Init ==
    /\ now \in Times
    /\ tokens = Full
    /\ lastRefill = now
    /\ admitted = 0
    /\ start = now
    /\ latest = now
    /\ mark = [at |-> now, count |-> 0, live |-> TRUE]

\* Mutants of TryConsume: the refill time is not remembered; any positive
\* balance is enough; the refill is not capped.
TryConsumeKeepsRefillTime ==
    /\ WouldAllow
    /\ admitted < MaxAdmitted
    /\ tokens' = AvailableTokens - Cost
    /\ admitted' = admitted + 1
    /\ UNCHANGED <<now, lastRefill, start, latest, mark>>
TryConsumeOverdraws ==
    /\ AvailableTokens > 0
    /\ admitted < MaxAdmitted
    /\ tokens' = AvailableTokens - Cost
    /\ admitted' = admitted + 1
    /\ lastRefill' = now
    /\ UNCHANGED <<now, start, latest, mark>>
TryConsumeUncapped ==
    LET credited == tokens + (now - lastRefill)
    IN  /\ credited >= Cost
        /\ admitted < MaxAdmitted
        /\ tokens' = credited - Cost
        /\ admitted' = admitted + 1
        /\ lastRefill' = now
        /\ UNCHANGED <<now, start, latest, mark>>

\* TryConsume: refill, then take a token if there is one.  The refill is kept
\* even when the answer is false.  The whole body is under one lock.
TryConsume ==
    /\ lastRefill' = now
    /\ \/ /\ WouldAllow
          /\ admitted < MaxAdmitted
          /\ tokens' = AvailableTokens - Cost
          /\ admitted' = admitted + 1
       \/ /\ ~WouldAllow
          /\ tokens' = AvailableTokens
          /\ UNCHANGED admitted
    /\ UNCHANGED <<now, start, latest, mark>>

\* The process restarts: the dictionary is empty and the next request of the
\* client constructs a new, full bucket.
Recreate ==
    /\ tokens' = Full
    /\ lastRefill' = now
    /\ admitted' = 0
    /\ start' = now
    /\ mark' = [mark EXCEPT !.live = FALSE]
    /\ UNCHANGED <<now, latest>>

\* The clock shows another time: a tick, or an adjustment either way.
ClockShows(t) ==
    /\ now' = t
    /\ latest' = IF latest >= t THEN latest ELSE t
    /\ mark' = [mark EXCEPT !.live = @ /\ now <= t]
    /\ UNCHANGED <<tokens, lastRefill, admitted, start>>

\* An observer starts to count.
OpenWindow ==
    /\ mark' = [at |-> now, count |-> admitted, live |-> TRUE]
    /\ UNCHANGED <<now, tokens, lastRefill, admitted, start, latest>>

Next ==
    \/ TryConsume
    \/ Recreate
    \/ \E t \in Times : ClockShows(t)
    \/ OpenWindow

Spec == Init /\ [][Next]_vars

----------------------------------------------------------------------------
(* Properties                                                              *)

\* Since it was constructed the bucket has admitted at most a full bucket plus
\* what the elapsed time refilled, and no adjustment of the clock, in whatever
\* order with the calls, adds to that (TryConsume credits a negative elapsed
\* time as well as a positive one).
AdmissionBound ==
    admitted * Cost + tokens <= Full + (lastRefill - start)

\* The rate limit as a client observes it: in any window of time over which the
\* clock is not set back, wherever the window starts, at most a full bucket plus
\* the length of the window is admitted.
WindowBound ==
    mark.live => (admitted - mark.count) * Cost <= Full + (now - mark.at)

\* Setting the clock back takes units away (the elapsed time is negative) but
\* never for good: when the clock shows its latest time again nothing is owed,
\* so a client is locked out at most until the clock catches up.
NoLastingDebt ==
    tokens + (latest - lastRefill) >= 0
============================================================================
