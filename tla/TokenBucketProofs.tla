------------------------ MODULE TokenBucketProofs ------------------------
(***************************************************************************)
(* The bounds of the rate limiter, for every capacity, refill rate and set *)
(* of clock values.  Each bound is the instance of one inductive invariant *)
(* that relates the balance to the admissions already made.                *)
(***************************************************************************)
EXTENDS TokenBucket, TLAPS

\* What makes WindowBound inductive.  While the window is live the clock is not
\* before its start; once something was admitted in it, the balance is not
\* negative and accounts, with the admissions, for at most a full bucket and
\* the time up to the last refill.
WindowAccount ==
    mark.live =>
        /\ mark.at <= now
        /\ \/ admitted = mark.count
           \/ /\ 0 <= tokens
              /\ lastRefill <= now
              /\ (admitted - mark.count) * Cost + tokens
                    <= Full + (lastRefill - mark.at)

\* The inductive invariant: types, the cap, the three accounts.
BucketInv ==
    /\ TypeOK
    /\ tokens <= Full
    /\ now <= latest
    /\ lastRefill <= latest
    /\ AdmissionBound
    /\ NoLastingDebt
    /\ WindowAccount

----------------------------------------------------------------------------
LEMMA TimesAreIntegers == \A t \in Times : t \in Int
  BY BucketAssumption

\* The types, with the clock values read as integers.
LEMMA TypesAreIntegers ==
    ASSUME TypeOK
    PROVE  /\ now \in Int /\ tokens \in Int /\ lastRefill \in Int
           /\ start \in Int /\ latest \in Int /\ admitted \in Int
           /\ mark.at \in Int /\ mark.count \in Int
           /\ mark.live \in BOOLEAN
  <1>1. /\ mark.at \in Times
        /\ mark.count \in 0..MaxAdmitted
        /\ mark.live \in BOOLEAN
    BY DEF TypeOK
  <1>2. \A n \in 0..MaxAdmitted : n \in Int
    BY BucketAssumption
  <1>3. /\ now \in Times /\ lastRefill \in Times
        /\ start \in Times /\ latest \in Times
        /\ admitted \in 0..MaxAdmitted /\ tokens \in Int
    BY DEF TypeOK
  <1> QED
    BY <1>1, <1>2, <1>3, TimesAreIntegers

\* What a refill yields: at most the capacity, at most the balance with the
\* elapsed time, and one of the two.
LEMMA RefillBounds ==
    ASSUME now \in Int, tokens \in Int, lastRefill \in Int
    PROVE  /\ AvailableTokens \in Int
           /\ AvailableTokens <= Full
           /\ AvailableTokens <= tokens + (now - lastRefill)
           /\ \/ AvailableTokens = Full
              \/ AvailableTokens = tokens + (now - lastRefill)
  BY BucketAssumption DEF AvailableTokens, Lesser

\* One more admission costs one more Cost.
LEMMA OneMore ==
    ASSUME NEW a \in Int
    PROVE  (a + 1) * Cost = a * Cost + Cost
  BY BucketAssumption

LEMMA InitBucket == Init => BucketInv
  BY BucketAssumption
     DEF Init, BucketInv, TypeOK, AdmissionBound, NoLastingDebt, WindowAccount

LEMMA StepBucket == BucketInv /\ [Next]_vars => BucketInv'
  <1> SUFFICES ASSUME BucketInv, [Next]_vars
               PROVE  BucketInv'
    OBVIOUS
  <1> USE BucketAssumption
  <1> USE DEF BucketInv, TypeOK
  <1>0. /\ now \in Int /\ tokens \in Int /\ lastRefill \in Int
        /\ start \in Int /\ latest \in Int /\ admitted \in Int
        /\ mark.at \in Int /\ mark.count \in Int
        /\ mark.live \in BOOLEAN
    BY TypesAreIntegers
  <1>1. CASE TryConsume
    <2> DEFINE avail == AvailableTokens
    <2> HIDE DEF avail
    <2>0. /\ avail \in Int
          /\ avail <= Full
          /\ avail <= tokens + (now - lastRefill)
          /\ avail = Full \/ avail = tokens + (now - lastRefill)
      BY <1>0, RefillBounds DEF avail
    <2>1. /\ lastRefill' = now
          /\ UNCHANGED <<now, start, latest, mark>>
      BY <1>1 DEF TryConsume
    <2>2. CASE /\ avail >= Cost
               /\ admitted < MaxAdmitted
               /\ tokens' = avail - Cost
               /\ admitted' = admitted + 1
      <3>1. /\ (admitted + 1) * Cost = admitted * Cost + Cost
            /\ ((admitted - mark.count) + 1) * Cost
                  = (admitted - mark.count) * Cost + Cost
            /\ admitted * Cost \in Int
            /\ (admitted - mark.count) * Cost \in Int
        BY <1>0, OneMore
      <3>2. TypeOK' /\ (tokens <= Full)' /\ (now <= latest)'
            /\ (lastRefill <= latest)'
        BY <2>0, <2>1, <2>2
      <3>3. AdmissionBound'
        <4>1. admitted' * Cost = admitted * Cost + Cost
          BY <2>2, <3>1
        <4> QED
          BY <1>0, <2>0, <2>1, <2>2, <3>1, <4>1 DEF AdmissionBound
      <3>4. NoLastingDebt'
        BY <1>0, <2>0, <2>1, <2>2 DEF NoLastingDebt
      <3>5. WindowAccount'
        <4>1. (admitted' - mark.count) * Cost
                  = (admitted - mark.count) * Cost + Cost
          <5>1. admitted' - mark.count = (admitted - mark.count) + 1
            BY <1>0, <2>2
          <5> QED
            BY <3>1, <5>1
        <4>2. admitted = mark.count => (admitted - mark.count) * Cost = 0
          BY <1>0
        <4> QED
          BY <1>0, <2>0, <2>1, <2>2, <3>1, <4>1, <4>2 DEF WindowAccount
      <3> QED
        BY <3>2, <3>3, <3>4, <3>5
    <2>3. CASE /\ ~(avail >= Cost)
               /\ tokens' = avail
               /\ UNCHANGED admitted
      <3>1. /\ admitted * Cost \in Int
            /\ (admitted - mark.count) * Cost \in Int
        BY <1>0
      <3>2. AdmissionBound'
        BY <1>0, <2>0, <2>1, <2>3, <3>1 DEF AdmissionBound
      <3>3. NoLastingDebt'
        BY <1>0, <2>0, <2>1, <2>3 DEF NoLastingDebt
      <3>4. WindowAccount'
        BY <1>0, <2>0, <2>1, <2>3, <3>1 DEF WindowAccount
      <3>5. TypeOK' /\ (tokens <= Full)' /\ (now <= latest)'
            /\ (lastRefill <= latest)'
        BY <2>0, <2>1, <2>3
      <3> QED
        BY <3>2, <3>3, <3>4, <3>5
    <2> QED
      BY <1>1, <2>2, <2>3 DEF TryConsume, WouldAllow, avail
  <1>2. CASE Recreate
    <2>1. /\ tokens' = Full
          /\ lastRefill' = now
          /\ admitted' = 0
          /\ start' = now
          /\ mark' = [mark EXCEPT !.live = FALSE]
          /\ UNCHANGED <<now, latest>>
      BY <1>2 DEF Recreate
    <2>2. ~mark'.live /\ mark' \in [at : Times, count : 0..MaxAdmitted, live : BOOLEAN]
      BY <2>1
    <2>3. TypeOK' /\ (tokens <= Full)' /\ (now <= latest)' /\ (lastRefill <= latest)'
      BY <2>1, <2>2
    <2>4. AdmissionBound' /\ NoLastingDebt'
      BY <1>0, <2>1 DEF AdmissionBound, NoLastingDebt
    <2>5. WindowAccount'
      BY <2>2 DEF WindowAccount
    <2> QED
      BY <2>3, <2>4, <2>5
  <1>3. ASSUME NEW t \in Times, ClockShows(t)
        PROVE  BucketInv'
    <2>1. /\ now' = t /\ t \in Int
          /\ latest' = IF latest >= t THEN latest ELSE t
          /\ mark' = [mark EXCEPT !.live = @ /\ now <= t]
          /\ UNCHANGED <<tokens, lastRefill, admitted, start>>
      BY <1>3 DEF ClockShows
    <2>2. /\ latest' \in Times
          /\ latest <= latest'
          /\ now' <= latest'
      BY <2>1
    <2>3. TypeOK' /\ (tokens <= Full)' /\ (lastRefill <= latest)'
      <3>1. mark' \in [at : Times, count : 0..MaxAdmitted, live : BOOLEAN]
        BY <2>1
      <3> QED
        BY <1>0, <2>1, <2>2, <3>1, TimesAreIntegers
    <2>4. AdmissionBound'
      BY <2>1 DEF AdmissionBound
    <2>5. NoLastingDebt'
      BY <1>0, <2>1, <2>2 DEF NoLastingDebt
    <2>6. WindowAccount'
      <3>1. mark'.live => mark.live /\ now <= t
        BY <2>1
      <3>2. mark'.at = mark.at /\ mark'.count = mark.count
        BY <2>1
      <3> QED
        BY <1>0, <2>1, <3>1, <3>2 DEF WindowAccount
    <2> QED
      BY <2>2, <2>3, <2>4, <2>5, <2>6
  <1>4. CASE OpenWindow
    BY <1>4 DEF OpenWindow, AdmissionBound, NoLastingDebt, WindowAccount
  <1>5. CASE UNCHANGED vars
    BY <1>5 DEF vars, AdmissionBound, NoLastingDebt, WindowAccount
  <1> QED
    BY <1>1, <1>2, <1>3, <1>4, <1>5 DEF Next

\* BucketInv holds in every reachable state.
THEOREM BucketInvariant == Spec => []BucketInv
  BY InitBucket, StepBucket, PTL DEF Spec

\* Every variable of the rate limiter keeps its type (TokenBucket.cs:9-13).
THEOREM BucketTypeCorrect == Spec => []TypeOK
  <1>1. BucketInv => TypeOK
    BY DEF BucketInv
  <1> QED
    BY BucketInvariant, <1>1, PTL

\* TryConsume (TokenBucket.cs:26-45) never admits more than a full bucket plus
\* the refilled time, whatever the clock does between the calls.
THEOREM AdmissionsBounded == Spec => []AdmissionBound
  <1>1. BucketInv => AdmissionBound
    BY DEF BucketInv
  <1> QED
    BY BucketInvariant, <1>1, PTL

\* The same from any moment on, over a period in which the clock is not set back.
THEOREM WindowsBounded == Spec => []WindowBound
  <1>1. BucketInv => WindowBound
    <2> SUFFICES ASSUME BucketInv, mark.live
                 PROVE  (admitted - mark.count) * Cost <= Full + (now - mark.at)
      BY DEF WindowBound
    <2>1. /\ now \in Int /\ tokens \in Int /\ lastRefill \in Int
          /\ admitted \in Int /\ mark.at \in Int /\ mark.count \in Int
          /\ (admitted - mark.count) * Cost \in Int
      BY TypesAreIntegers, BucketAssumption DEF BucketInv
    <2>2. CASE admitted = mark.count
      <3>1. (admitted - mark.count) * Cost = 0
        BY <2>1, <2>2, BucketAssumption
      <3> QED
        BY <2>1, <3>1, BucketAssumption DEF BucketInv, WindowAccount
    <2>3. CASE admitted # mark.count
      BY <2>1, <2>3, BucketAssumption DEF BucketInv, WindowAccount
    <2> QED
      BY <2>2, <2>3
  <1> QED
    BY BucketInvariant, <1>1, PTL

\* A clock that was set back and has caught up owes nothing (TokenBucket.cs:31-35).
THEOREM DebtIsTemporary == Spec => []NoLastingDebt
  <1>1. BucketInv => NoLastingDebt
    BY DEF BucketInv
  <1> QED
    BY BucketInvariant, <1>1, PTL
==========================================================================
