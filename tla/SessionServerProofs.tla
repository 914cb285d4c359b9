------------------------ MODULE SessionServerProofs -------------------------
(***************************************************************************)
(* The session service makes one session per handshake, within the rate,   *)
(* leaves a client one usable session, its newest, and accepts a timely    *)
(* header at most once, for any clients, messages, threads, failures and   *)
(* restarts.                                                               *)
(***************************************************************************)
EXTENDS SessionServer, FiniteSetTheorems, TLAPS

\* What is proved of a guard holds of the handshakes' and of the headers'.
HGP == INSTANCE ReplayGuardProofs WITH
        Msgs <- HMsgs, Threads <- HThreads,
        Early <- HEarly, Late <- HLate, Ttl <- HTtl, Lead <- HLead,
        made <- hMade, stamp <- hStamp, checking <- hChecking, held <- hHeld,
        readAt <- hReadAt, nonces <- hNonces, addedAt <- hAddedAt,
        passed <- hPassed

AGP == INSTANCE ReplayGuardProofs WITH
        Msgs <- AMsgs, Threads <- AThreads,
        Early <- AEarly, Late <- ALate, Ttl <- ATtl, Lead <- ALead,
        made <- aMade, stamp <- aStamp, checking <- aChecking, held <- aHeld,
        readAt <- aReadAt, nonces <- aNonces, addedAt <- aAddedAt,
        passed <- aPassed

\* A request before its TryAdd is nowhere past it.
FreeThreads ==
    /\ \A t \in hChecking : hStage[t] = "none"
    /\ \A t \in aChecking : aStage[t] = "none"

\* Rows are numbered as they come, and none is of a later life of the server.
TableNumbered ==
    /\ IsFiniteSet(sessions)
    /\ \A r \in sessions : r.id <= Cardinality(sessions) /\ r.life <= restarts
    /\ \A r, s \in sessions : r.id = s.id => r = s

\* Unless handshakes of a client overlapped, the one between UPDATE and INSERT is
\* alone, and finds no active session.
InsertsLone ==
    \A c \in Clients \ overlap : \A t \in Inserting(c) :
        /\ Inserting(c) = {t}
        /\ \A r \in RowsOf(c) : ~r.active

\* Unless handshakes of a client overlapped, only its newest session is active.
ActiveNewest ==
    \A c \in Clients \ overlap : \A r \in RowsOf(c) :
        r.active => \A s \in RowsOf(c) : s.id <= r.id

Past(t) == hStage[t] # "none"

\* A handshake message that made a session, or is about to, has passed the guard, and
\* there is one session or one request of it.
HandshakesOnce ==
    /\ \A t \in HThreads : Past(t) => hPassed[hHeld[t]] > 0
    /\ \A t, u \in HThreads : Past(t) /\ Past(u) /\ hHeld[t] = hHeld[u] => t = u
    /\ \A r \in sessions : r.life = restarts =>
          /\ hPassed[r.from] > 0
          /\ \A t \in HThreads : Past(t) => hHeld[t] # r.from

\* A validation past the guard, of a timely header.
Asks(t) == aStage[t] = "query" /\ aHeld[t] \in AG!Timely

\* The same for timely headers and the times they were accepted.
HeadersOnce ==
    /\ \A t \in AThreads : Asks(t) => aPassed[aHeld[t]] > 0 /\ served[aHeld[t]] = 0
    /\ \A t, u \in AThreads : Asks(t) /\ Asks(u) /\ aHeld[t] = aHeld[u] => t = u
    /\ \A m \in AG!Timely : served[m] > 0 => aPassed[m] > 0

\* Handshakes the bucket admitted that have not ended.
Admitted(c) == {t \in HThreads : hStage[t] \in {"deactivate", "insert"} /\ Client(t) = c}

\* Sessions of this life of the server.
OfLife(c) == {r \in RowsOf(c) : r.life = restarts}

\* What was admitted was paid for from the full bucket and what time refilled.
BucketsPaid ==
    \A c \in Clients :
        /\ boot <= buckets[c].last /\ buckets[c].last <= now
        /\ IsFiniteSet(Admitted(c))
        /\ (Cardinality(OfLife(c)) + Cardinality(Admitted(c))) * Cost + buckets[c].tokens
              <= Full + (buckets[c].last - boot)

SessionInv ==
    /\ HGP!GuardInv
    /\ AGP!GuardInv
    /\ TypeOK
    /\ FreeThreads
    /\ TableNumbered
    /\ InsertsLone
    /\ ActiveNewest
    /\ NewestUsable
    /\ HandshakesOnce
    /\ OneSessionPerHandshake
    /\ HeadersOnce
    /\ ServedOnce
    /\ BucketsPaid
-----------------------------------------------------------------------------
(* The two guards. *)

\* All handshakes are timely, and a header is to one instance what it is to the other.
LEMMA TimelyKnown ==
    /\ HGP!Timely = HMsgs
    /\ AGP!Timely = AG!Timely /\ AG!Timely \subseteq AMsgs
<1>1. HGP!Timely = HMsgs
  BY HandshakesTimely DEF HGP!Timely
<1>2. AGP!Timely = AG!Timely /\ AG!Timely \subseteq AMsgs
  BY DEF AGP!Timely, AG!Timely
<1> QED
  BY <1>1, <1>2

LEMMA GuardTypes ==
    /\ HGP!GuardInv => HG!TypeOK
    /\ AGP!GuardInv => AG!TypeOK
  BY DEF HGP!GuardInv, HGP!TypeOK, HGP!Time, HG!TypeOK, HG!Time,
         AGP!GuardInv, AGP!TypeOK, AGP!Time, AG!TypeOK, AG!Time

\* Each step of the service is one of the handshakes' guard, or leaves it as it is.
LEMMA HandshakeGuardSteps == [Next]_vars => [HGP!Next]_(HGP!vars)
  <1> SUFFICES ASSUME [Next]_vars PROVE HGP!Next \/ UNCHANGED HGP!vars
    OBVIOUS
  <1> USE DEF HGP!Next, HGP!vars
  <1>1. ASSUME NEW m \in HMsgs, SendHandshake(m)
        PROVE  HGP!Next
    BY <1>1 DEF SendHandshake, HG!Make, HGP!Make
  <1>2. ASSUME NEW t \in HThreads, NEW m \in HMsgs, ReceiveHandshake(t, m)
        PROVE  HGP!Next
    BY <1>2 DEF ReceiveHandshake, HG!Check, HGP!Check, HG!Fresh, HGP!Fresh
  <1>3. ASSUME NEW t \in HThreads, TakeNonce(t)
        PROVE  HGP!Next
    BY <1>3 DEF TakeNonce, HG!Pass, HGP!Pass, HG!Refuse, HGP!Refuse
  <1>4. ASSUME NEW t \in HThreads, RateLimit(t) \/ Deactivate(t) \/ Insert(t) \/ DatabaseFails(t)
        PROVE  UNCHANGED HGP!vars
    BY <1>4 DEF RateLimit, Deactivate, Insert, DatabaseFails, hVars
  <1>5. ASSUME NEW m \in AMsgs, SendHeader(m)
        PROVE  UNCHANGED HGP!vars
    BY <1>5 DEF SendHeader, AG!Make, unchangedByHeader, hVars
  <1>6. ASSUME NEW t \in AThreads, NEW m \in AMsgs, ReceiveHeader(t, m)
        PROVE  UNCHANGED HGP!vars
    BY <1>6 DEF ReceiveHeader, AG!Check, unchangedByHeader, hVars
  <1>7. ASSUME NEW t \in AThreads, TakeHeaderNonce(t) \/ ValidateSession(t)
        PROVE  UNCHANGED HGP!vars
    BY <1>7 DEF TakeHeaderNonce, ValidateSession, AG!Pass, AG!Refuse, unchangedByHeader, hVars
  <1>8. CASE ExpireNonce
    BY <1>8 DEF ExpireNonce, HG!Expire, HGP!Expire, AG!Expire, hVars
  <1>9. CASE Tick
    BY <1>9 DEF Tick, HG!Tick, HGP!Tick
  <1>10. CASE Restart
    BY <1>10 DEF Restart, HG!Restart, HGP!Restart
  <1>11. CASE UNCHANGED vars
    BY <1>11 DEF vars, hVars
  <1> QED
    BY <1>1, <1>2, <1>3, <1>4, <1>5, <1>6, <1>7, <1>8, <1>9, <1>10, <1>11 DEF Next

\* And one of the headers' guard, or leaves that as it is.
LEMMA HeaderGuardSteps == [Next]_vars => [AGP!Next]_(AGP!vars)
  <1> SUFFICES ASSUME [Next]_vars PROVE AGP!Next \/ UNCHANGED AGP!vars
    OBVIOUS
  <1> USE DEF AGP!Next, AGP!vars
  <1>1. ASSUME NEW m \in HMsgs, SendHandshake(m)
        PROVE  UNCHANGED AGP!vars
    BY <1>1 DEF SendHandshake, HG!Make, aVars
  <1>2. ASSUME NEW t \in HThreads, NEW m \in HMsgs, ReceiveHandshake(t, m)
        PROVE  UNCHANGED AGP!vars
    BY <1>2 DEF ReceiveHandshake, HG!Check, aVars
  <1>3. ASSUME NEW t \in HThreads, TakeNonce(t)
        PROVE  UNCHANGED AGP!vars
    BY <1>3 DEF TakeNonce, HG!Pass, HG!Refuse, unchangedByHandshake, aVars
  <1>4. ASSUME NEW t \in HThreads, RateLimit(t) \/ Deactivate(t) \/ Insert(t) \/ DatabaseFails(t)
        PROVE  UNCHANGED AGP!vars
    BY <1>4 DEF RateLimit, Deactivate, Insert, DatabaseFails, unchangedByHandshake, aVars
  <1>5. ASSUME NEW m \in AMsgs, SendHeader(m)
        PROVE  AGP!Next
    BY <1>5 DEF SendHeader, AG!Make, AGP!Make
  <1>6. ASSUME NEW t \in AThreads, NEW m \in AMsgs, ReceiveHeader(t, m)
        PROVE  AGP!Next
    BY <1>6 DEF ReceiveHeader, AG!Check, AGP!Check, AG!Fresh, AGP!Fresh
  <1>7. ASSUME NEW t \in AThreads, TakeHeaderNonce(t)
        PROVE  AGP!Next
    BY <1>7 DEF TakeHeaderNonce, AG!Pass, AGP!Pass, AG!Refuse, AGP!Refuse
  <1>8. ASSUME NEW t \in AThreads, ValidateSession(t)
        PROVE  UNCHANGED AGP!vars
    BY <1>8 DEF ValidateSession, aVars
  <1>9. CASE ExpireNonce
    BY <1>9 DEF ExpireNonce, HG!Expire, AG!Expire, AGP!Expire, aVars
  <1>10. CASE Tick
    BY <1>10 DEF Tick, AG!Tick, AGP!Tick
  <1>11. CASE Restart
    BY <1>11 DEF Restart, AG!Restart, AGP!Restart
  <1>12. CASE UNCHANGED vars
    BY <1>12 DEF vars, aVars
  <1> QED
    BY <1>1, <1>2, <1>3, <1>4, <1>5, <1>6, <1>7, <1>8, <1>9, <1>10, <1>11, <1>12 DEF Next

\* So what is proved of a guard on its own holds of both within the service.
LEMMA GuardsOn ==
    ASSUME SessionInv, [Next]_vars
    PROVE  HGP!GuardInv' /\ AGP!GuardInv' /\ HG!TypeOK' /\ AG!TypeOK'
  <1>1. HGP!GuardInv' /\ AGP!GuardInv'
    <2>1. HGP!GuardInv /\ AGP!GuardInv
      BY DEF SessionInv
    <2>2. [HGP!Next]_(HGP!vars) /\ [AGP!Next]_(AGP!vars)
      BY HandshakeGuardSteps, HeaderGuardSteps
    <2>3. HGP!GuardAssumption /\ AGP!GuardAssumption
      BY GuardsAssumption DEF HG!GuardAssumption, AG!GuardAssumption,
                              HGP!GuardAssumption, AGP!GuardAssumption
    <2>4. HGP!GuardInv'
      BY <2>1, <2>2, <2>3, HGP!StepGuard
    <2>5. AGP!GuardInv'
      BY <2>1, <2>2, <2>3, AGP!StepGuard
    <2> QED
      BY <2>4, <2>5
  <1>2. HG!TypeOK' /\ AG!TypeOK'
    BY <1>1 DEF HGP!GuardInv, HGP!TypeOK, HGP!Time, HG!TypeOK, HG!Time,
                AGP!GuardInv, AGP!TypeOK, AGP!Time, AG!TypeOK, AG!Time
  <1> QED
    BY <1>1, <1>2

\* The guards' variables that the rest of the service reads.
LEMMA GuardFacts ==
    ASSUME SessionInv
    PROVE  /\ now \in 0..Horizon
           /\ hChecking \subseteq HThreads /\ aChecking \subseteq AThreads
           /\ hHeld \in [HThreads -> HMsgs] /\ aHeld \in [AThreads -> AMsgs]
           /\ hPassed \in [HMsgs -> Nat] /\ aPassed \in [AMsgs -> Nat]
           /\ \A m \in HMsgs : hPassed[m] <= 1
           /\ \A m \in AG!Timely : aPassed[m] <= 1 /\ m \in AMsgs
  BY TimelyKnown DEF SessionInv, TypeOK, HG!TypeOK, HG!Time, AG!TypeOK, AG!Time,
         HGP!GuardInv, HGP!PassedOnce, AGP!GuardInv, AGP!PassedOnce
-----------------------------------------------------------------------------
(* What the steps do, part by part. *)

\* The steps that leave the requests past the guards, the table and the books alone.
Quiet ==
    /\ UNCHANGED <<hStage, aStage, expires, buckets, sessions, served, boot, restarts, overlap,
                   broken, hPassed, aPassed>>
    /\ now' \in {now, now + 1}
    /\ aToken' = aToken \/ (\E m \in AMsgs : \E r \in sessions : aToken' = [aToken EXCEPT ![m] = r.id])
    /\ \A t \in HThreads : Past(t) => hHeld'[t] = hHeld[t]
    /\ \A t \in AThreads : aStage[t] = "query" => aHeld'[t] = aHeld[t]
    /\ \A t \in hChecking' : t \in hChecking \/ hStage[t] = "none"
    /\ \A t \in aChecking' : t \in aChecking \/ aStage[t] = "none"

LEMMA QuietSteps ==
    ASSUME SessionInv,
           \/ \E m \in HMsgs : SendHandshake(m)
           \/ \E t \in HThreads, m \in HMsgs : ReceiveHandshake(t, m)
           \/ \E m \in AMsgs : SendHeader(m)
           \/ \E t \in AThreads, m \in AMsgs : ReceiveHeader(t, m)
           \/ ExpireNonce \/ Tick \/ UNCHANGED vars
    PROVE  Quiet
  <1> USE GuardFacts DEF Quiet
  <1>1. ASSUME NEW m \in HMsgs, SendHandshake(m)
        PROVE  Quiet
    BY <1>1 DEF SendHandshake, HG!Make, aVars, history
  <1>2. ASSUME NEW t \in HThreads, NEW m \in HMsgs, ReceiveHandshake(t, m)
        PROVE  Quiet
    BY <1>2 DEF ReceiveHandshake, HG!Check, aVars, history, Past
  <1>3. ASSUME NEW m \in AMsgs, SendHeader(m)
        PROVE  Quiet
    BY <1>3 DEF SendHeader, AG!Make, unchangedByHeader, hVars, history
  <1>4. ASSUME NEW t \in AThreads, NEW m \in AMsgs, ReceiveHeader(t, m)
        PROVE  Quiet
    BY <1>4 DEF ReceiveHeader, AG!Check, unchangedByHeader, hVars, history
  <1>5. CASE ExpireNonce
    BY <1>5 DEF ExpireNonce, HG!Expire, AG!Expire, hVars, aVars, history
  <1>6. CASE Tick
    BY <1>6 DEF Tick, HG!Tick, AG!Tick, history
  <1>7. CASE UNCHANGED vars
    BY <1>7 DEF vars, hVars, aVars, history
  <1> QED
    BY <1>1, <1>2, <1>3, <1>4, <1>5, <1>6, <1>7

\* Every step is quiet, or one of a request past its guard's check, or a restart.
LEMMA Steps ==
    ASSUME SessionInv, [Next]_vars
    PROVE  \/ Quiet
           \/ \E t \in HThreads :
                 TakeNonce(t) \/ RateLimit(t) \/ Deactivate(t) \/ Insert(t) \/ DatabaseFails(t)
           \/ \E t \in AThreads : TakeHeaderNonce(t) \/ ValidateSession(t)
           \/ Restart
  BY QuietSteps DEF Next

LEMMA RestartFacts ==
    ASSUME Restart
    PROVE  /\ hStage' = [t \in HThreads |-> "none"]
           /\ aStage' = [t \in AThreads |-> "none"]
           /\ buckets' = [c \in Clients |-> [tokens |-> Full, last |-> now]]
           /\ served' = [m \in AMsgs |-> 0]
           /\ boot' = now /\ restarts' = restarts + 1 /\ restarts < MaxRestarts
           /\ broken' = broken \cup {c \in Clients : Inserting(c) # {}}
           /\ hChecking' = {} /\ aChecking' = {}
           /\ hPassed' = [m \in HMsgs |-> 0] /\ aPassed' = [m \in AMsgs |-> 0]
           /\ UNCHANGED <<now, expires, sessions, aToken, overlap, hHeld, aHeld>>
  BY DEF Restart, HG!Restart, AG!Restart

\* TryAdd: the request is past the guard, or it is over.
LEMMA TakeNonceFacts ==
    ASSUME SessionInv, NEW t \in HThreads, TakeNonce(t)
    PROVE  /\ t \in hChecking /\ hStage[t] = "none"
           /\ hChecking' = hChecking \ {t}
           /\ \/ /\ hStage' = [hStage EXCEPT ![t] = "rate"]
                 /\ hPassed' = [hPassed EXCEPT ![hHeld[t]] = @ + 1]
              \/ UNCHANGED <<hStage, hPassed>>
           /\ UNCHANGED <<now, hHeld, expires, buckets, sessions, overlap, broken>>
           /\ UNCHANGED unchangedByHandshake
  BY DEF TakeNonce, HG!Pass, HG!Refuse, SessionInv, FreeThreads

LEMMA TakeHeaderNonceFacts ==
    ASSUME SessionInv, NEW t \in AThreads, TakeHeaderNonce(t)
    PROVE  /\ t \in aChecking /\ aStage[t] = "none"
           /\ aChecking' = aChecking \ {t}
           /\ \/ /\ aStage' = [aStage EXCEPT ![t] = "query"]
                 /\ aPassed' = [aPassed EXCEPT ![aHeld[t]] = @ + 1]
              \/ UNCHANGED <<aStage, aPassed>>
           /\ UNCHANGED <<now, aHeld, aToken, served>>
           /\ UNCHANGED unchangedByHeader
  BY DEF TakeHeaderNonce, AG!Pass, AG!Refuse, SessionInv, FreeThreads

\* RateLimit on: the request goes on, or it is over.
LEMMA HandshakeStepFacts ==
    ASSUME NEW t \in HThreads,
           RateLimit(t) \/ Deactivate(t) \/ Insert(t) \/ DatabaseFails(t)
    PROVE  /\ hStage[t] # "none"
           /\ \E next \in {"none", "deactivate", "insert"} : hStage' = [hStage EXCEPT ![t] = next]
           /\ UNCHANGED <<now, hHeld, hChecking, hPassed>>
           /\ UNCHANGED unchangedByHandshake
  BY DEF RateLimit, Deactivate, Insert, DatabaseFails, hVars
-----------------------------------------------------------------------------
(* FreeThreads, HandshakesOnce and HeadersOnce. *)

LEMMA FreeThreadsStep ==
    ASSUME SessionInv, [Next]_vars
    PROVE  FreeThreads'
  <1>1. CASE Quiet
    BY <1>1 DEF Quiet, SessionInv, FreeThreads
  <1>2. ASSUME NEW t \in HThreads, TakeNonce(t)
        PROVE  FreeThreads'
    <2>1. /\ hChecking' = hChecking \ {t}
          /\ aChecking' = aChecking /\ aStage' = aStage
          /\ \A u \in HThreads \ {t} : hStage'[u] = hStage[u]
      BY <1>2, TakeNonceFacts DEF SessionInv, TypeOK, unchangedByHandshake, aVars
    <2> QED
      BY <2>1, GuardFacts DEF SessionInv, FreeThreads
  <1>3. ASSUME NEW t \in HThreads,
               RateLimit(t) \/ Deactivate(t) \/ Insert(t) \/ DatabaseFails(t)
        PROVE  FreeThreads'
    <2>1. /\ hStage[t] # "none"
          /\ \A u \in HThreads \ {t} : hStage'[u] = hStage[u]
          /\ UNCHANGED <<hChecking, aChecking, aStage>>
      BY <1>3, HandshakeStepFacts DEF SessionInv, TypeOK, unchangedByHandshake, aVars
    <2> QED
      BY <2>1, GuardFacts DEF SessionInv, FreeThreads
  <1>4. ASSUME NEW t \in AThreads, TakeHeaderNonce(t)
        PROVE  FreeThreads'
    <2>1. /\ aChecking' = aChecking \ {t}
          /\ hChecking' = hChecking /\ hStage' = hStage
          /\ \A u \in AThreads \ {t} : aStage'[u] = aStage[u]
      BY <1>4, TakeHeaderNonceFacts DEF SessionInv, TypeOK, unchangedByHeader, hVars
    <2> QED
      BY <2>1, GuardFacts DEF SessionInv, FreeThreads
  <1>5. ASSUME NEW t \in AThreads, ValidateSession(t)
        PROVE  FreeThreads'
    <2>1. /\ aStage[t] = "query"
          /\ aStage' = [aStage EXCEPT ![t] = "none"]
          /\ UNCHANGED <<aChecking, hChecking, hStage>>
      BY <1>5 DEF ValidateSession, unchangedByHeader, aVars, hVars
    <2>2. \A u \in AThreads \ {t} : aStage'[u] = aStage[u]
      BY <2>1 DEF SessionInv, TypeOK
    <2> QED
      BY <2>1, <2>2, GuardFacts DEF SessionInv, FreeThreads
  <1>6. CASE Restart
    BY <1>6, RestartFacts DEF FreeThreads
  <1> QED
    BY <1>1, <1>2, <1>3, <1>4, <1>5, <1>6, Steps

\* A header passes the guard once; its request alone may serve it, and does so once.
LEMMA HeadersOnceStep ==
    ASSUME SessionInv, [Next]_vars
    PROVE  HeadersOnce' /\ ServedOnce'
  <1> USE GuardFacts
  <1>1. ASSUME UNCHANGED <<aStage, served, aPassed>>,
               \A t \in AThreads : aStage[t] = "query" => aHeld'[t] = aHeld[t]
        PROVE  HeadersOnce' /\ ServedOnce'
    <2>1. \A t \in AThreads : Asks(t)' => Asks(t) /\ aHeld'[t] = aHeld[t]
      BY <1>1 DEF Asks
    <2> QED
      BY <1>1, <2>1 DEF SessionInv, HeadersOnce, ServedOnce
  <1>2. CASE Quiet
    BY <1>1, <1>2 DEF Quiet
  <1>3. ASSUME NEW t \in HThreads,
               TakeNonce(t) \/ RateLimit(t) \/ Deactivate(t) \/ Insert(t) \/ DatabaseFails(t)
        PROVE  HeadersOnce' /\ ServedOnce'
    <2>1. UNCHANGED unchangedByHandshake
      BY <1>3, TakeNonceFacts, HandshakeStepFacts
    <2> QED
      BY <1>1, <2>1 DEF unchangedByHandshake, aVars
  <1>4. ASSUME NEW t \in AThreads, TakeHeaderNonce(t)
        PROVE  HeadersOnce' /\ ServedOnce'
    <2>1. CASE UNCHANGED <<aStage, aPassed>>
      BY <1>1, <1>4, <2>1, TakeHeaderNonceFacts
    <2>2. CASE /\ aStage' = [aStage EXCEPT ![t] = "query"]
               /\ aPassed' = [aPassed EXCEPT ![aHeld[t]] = @ + 1]
      <3> DEFINE m == aHeld[t]
      <3>1. m \in AMsgs
        OBVIOUS
      <3>2. aPassed'[m] = aPassed[m] + 1
        BY <2>2, <3>1
      <3>3. m \in AG!Timely => aPassed'[m] <= 1
        BY <3>1, GuardsOn, TimelyKnown DEF AGP!GuardInv, AGP!PassedOnce
      <3>4. m \in AG!Timely => aPassed[m] = 0 /\ aPassed'[m] = 1
        BY <3>1, <3>2, <3>3
      <3>5. m \in AG!Timely => served[m] = 0 /\ \A u \in AThreads : Asks(u) => aHeld[u] # m
        BY <3>1, <3>4 DEF SessionInv, HeadersOnce, TypeOK
      <3>6. /\ \A u \in AThreads \ {t} : aStage'[u] = aStage[u]
            /\ \A k \in AMsgs \ {m} : aPassed'[k] = aPassed[k]
            /\ aHeld' = aHeld /\ served' = served
        BY <1>4, <2>2, TakeHeaderNonceFacts DEF SessionInv, TypeOK
      <3> HIDE DEF m
      <3>8. aHeld[t] = m
        BY DEF m
      <3>7. \A u \in AThreads : Asks(u)' =>
               \/ u = t /\ m \in AG!Timely
               \/ u # t /\ Asks(u) /\ aHeld[u] # m
        BY <3>5, <3>6, <3>8 DEF Asks
      <3>9. HeadersOnce'
        <4>1. \A u \in AThreads : Asks(u)' => aPassed'[aHeld'[u]] > 0 /\ served'[aHeld'[u]] = 0
          BY <3>4, <3>5, <3>6, <3>7, <3>8 DEF SessionInv, HeadersOnce
        <4>2. \A u, v \in AThreads : Asks(u)' /\ Asks(v)' /\ aHeld'[u] = aHeld'[v] => u = v
          BY <3>6, <3>7, <3>8 DEF SessionInv, HeadersOnce
        <4>3. \A k \in AG!Timely : served'[k] > 0 => aPassed'[k] > 0
          BY <3>4, <3>6 DEF SessionInv, HeadersOnce
        <4> QED
          BY <4>1, <4>2, <4>3 DEF HeadersOnce
      <3> QED
        BY <3>6, <3>9 DEF SessionInv, ServedOnce
    <2> QED
      BY <1>4, <2>1, <2>2, TakeHeaderNonceFacts
  <1>5. ASSUME NEW t \in AThreads, ValidateSession(t)
        PROVE  HeadersOnce' /\ ServedOnce'
    <2> DEFINE m == aHeld[t]
    <2>1. /\ m \in AMsgs
          /\ aStage[t] = "query"
          /\ aStage' = [aStage EXCEPT ![t] = "none"]
          /\ served' = served \/ served' = [served EXCEPT ![m] = @ + 1]
          /\ UNCHANGED <<aHeld, aPassed>>
      BY <1>5 DEF ValidateSession, aVars
    <2>2. m \in AG!Timely =>
            /\ served[m] = 0 /\ aPassed[m] > 0
            /\ \A u \in AThreads \ {t} : Asks(u) => aHeld[u] # m
      BY <2>1 DEF SessionInv, HeadersOnce, Asks
    <2>3. /\ \A k \in AMsgs \ {m} : served'[k] = served[k]
          /\ m \in AG!Timely => served'[m] \in {0, 1}
      BY <2>1, <2>2 DEF SessionInv, TypeOK
    <2>4. \A u \in AThreads : Asks(u)' => u # t /\ Asks(u) /\ aHeld[u] # m
      BY <2>1, <2>2 DEF SessionInv, TypeOK, Asks
    <2> HIDE DEF m
    <2>5. HeadersOnce'
      BY <2>1, <2>2, <2>3, <2>4 DEF SessionInv, HeadersOnce
    <2>6. ServedOnce'
      BY <2>3 DEF SessionInv, ServedOnce
    <2> QED
      BY <2>5, <2>6
  <1>6. CASE Restart
    <2>1. /\ aStage' = [t \in AThreads |-> "none"]
          /\ served' = [m \in AMsgs |-> 0]
      BY <1>6, RestartFacts
    <2> QED
      BY <2>1 DEF HeadersOnce, ServedOnce, Asks
  <1> QED
    BY <1>2, <1>3, <1>4, <1>5, <1>6, Steps
-----------------------------------------------------------------------------
(* The UPDATE, and the types. *)

\* What the UPDATE of client c's handshake makes of a row.
Ended(c, r) == IF r.client = c THEN [r EXCEPT !.active = FALSE] ELSE r

LEMMA EndedRow ==
    ASSUME NEW c, NEW r \in Session
    PROVE  /\ Ended(c, r) \in Session
           /\ Ended(c, r).id = r.id /\ Ended(c, r).client = r.client
           /\ Ended(c, r).from = r.from /\ Ended(c, r).life = r.life
           /\ Ended(c, r).active <=> r.active /\ r.client # c
  BY DEF Ended, Session

\* The UPDATE changes no number of rows.
LEMMA EndedRows ==
    ASSUME NEW c, NEW S \in SUBSET Session, IsFiniteSet(S),
           \A r, s \in S : r.id = s.id => r = s
    PROVE  /\ IsFiniteSet({Ended(c, r) : r \in S})
           /\ Cardinality({Ended(c, r) : r \in S}) = Cardinality(S)
  <1> DEFINE T == {Ended(c, r) : r \in S}
             f == [r \in S |-> Ended(c, r)]
  <1>1. f \in Surjection(S, T)
    BY DEF Surjection
  <1>2. ASSUME NEW r \in S, NEW s \in S, f[r] = f[s]
        PROVE  r = s
    <2>1. Ended(c, r) = Ended(c, s)
      BY <1>2
    <2>2. r.id = s.id
      BY <2>1, EndedRow
    <2> QED
      BY <2>2
  <1>3. f \in Injection(S, T)
    BY <1>2 DEF Injection, IsInjective
  <1> HIDE DEF T, f
  <1>4. IsFiniteSet(T) /\ Cardinality(T) = Cardinality(S)
    BY <1>1, <1>3, FS_Surjection
  <1> QED
    BY <1>4 DEF T

LEMMA DeactivateFacts ==
    ASSUME SessionInv, NEW t \in HThreads, Deactivate(t)
    PROVE  /\ Client(t) \in Clients
           /\ hStage[t] = "deactivate"
           /\ hStage' = [hStage EXCEPT ![t] = "insert"]
           /\ sessions' = {Ended(Client(t), r) : r \in sessions}
           /\ overlap' = IF Inserting(Client(t)) # {} THEN overlap \cup {Client(t)}
                         ELSE overlap \ {Client(t)}
           /\ UNCHANGED <<now, hHeld, hPassed, expires, buckets, broken, served, aToken, boot,
                          restarts>>
  <1>1. Client(t) \in Clients
    BY SessionAssumption, GuardFacts DEF Client
  <1>2. Deactivated(Client(t)) = {Ended(Client(t), r) : r \in sessions}
    BY DEF Deactivated, Ended
  <1> QED
    BY <1>1, <1>2 DEF Deactivate, hVars, unchangedByHandshake

\* The row that the INSERT adds.
Row(t) ==
    [id |-> Cardinality(sessions) + 1, client |-> Client(t), expires |-> expires[t],
     active |-> TRUE, from |-> hHeld[t], life |-> restarts]

LEMMA InsertFacts ==
    ASSUME SessionInv, NEW t \in HThreads, Insert(t)
    PROVE  /\ Client(t) \in Clients
           /\ Row(t) \in Session
           /\ Cardinality(sessions) \in Nat
           /\ hStage[t] = "insert"
           /\ hStage' = [hStage EXCEPT ![t] = "none"]
           /\ sessions' = sessions \cup {Row(t)}
           /\ broken' = broken \ {Client(t)}
           /\ UNCHANGED <<now, hHeld, hPassed, expires, buckets, overlap, served, aToken, boot,
                          restarts>>
  <1>1. Client(t) \in Clients
    BY SessionAssumption, GuardFacts DEF Client
  <1>2. Cardinality(sessions) \in Nat
    BY FS_CardinalityType DEF SessionInv, TableNumbered
  <1>3. Row(t) \in Session
    BY <1>1, <1>2, GuardFacts DEF Row, Session, SessionInv, TypeOK
  <1> QED
    BY <1>1, <1>2, <1>3 DEF Insert, Row, hVars, unchangedByHandshake

LEMMA RateLimitFacts ==
    ASSUME SessionInv, NEW t \in HThreads, RateLimit(t)
    PROVE  /\ Client(t) \in Clients
           /\ hStage[t] = "rate"
           /\ UNCHANGED <<now, hHeld, hPassed, sessions, overlap, broken, served, aToken, boot,
                          restarts>>
           /\ \E balance \in 0..Full, spent \in {0, Cost} :
                 /\ balance <= buckets[Client(t)].tokens + (now - buckets[Client(t)].last)
                 /\ spent <= balance
                 /\ buckets' = [buckets EXCEPT ![Client(t)] =
                                   [tokens |-> balance - spent, last |-> now]]
                 /\ hStage' = [hStage EXCEPT ![t] = IF spent = 0 THEN "none" ELSE "deactivate"]
                 /\ expires' \in {expires, [expires EXCEPT ![t] = now + SessionTtl]}
  <1> DEFINE c == Client(t)
             balance == Refilled(buckets[c])
  <1>1. c \in Clients
    BY SessionAssumption, GuardFacts DEF Client
  <1>2. /\ buckets[c] \in [tokens : 0..Full, last : 0..Horizon]
        /\ buckets[c].last <= now
        /\ now \in 0..Horizon
    BY <1>1, GuardFacts DEF SessionInv, TypeOK, BucketsPaid
  <1>3. /\ balance \in 0..Full
        /\ balance <= buckets[c].tokens + (now - buckets[c].last)
    BY <1>2, SessionAssumption DEF Refilled
  <1>4. Cost \in Nat /\ Cost # 0
    BY SessionAssumption
  <1>5. /\ hStage[t] = "rate"
        /\ UNCHANGED <<now, hHeld, hPassed, sessions, overlap, broken, served, aToken, boot,
                       restarts>>
    BY DEF RateLimit, hVars, unchangedByHandshake
  <1>6. CASE /\ balance >= Cost
             /\ buckets' = [buckets EXCEPT ![c] = [tokens |-> balance - Cost, last |-> now]]
             /\ hStage' = [hStage EXCEPT ![t] = "deactivate"]
             /\ expires' = [expires EXCEPT ![t] = now + SessionTtl]
    <2> HIDE DEF c, balance
    <2>1. \E b \in 0..Full, spent \in {0, Cost} :
             /\ b <= buckets[c].tokens + (now - buckets[c].last)
             /\ spent <= b
             /\ buckets' = [buckets EXCEPT ![c] = [tokens |-> b - spent, last |-> now]]
             /\ hStage' = [hStage EXCEPT ![t] = IF spent = 0 THEN "none" ELSE "deactivate"]
             /\ expires' \in {expires, [expires EXCEPT ![t] = now + SessionTtl]}
      BY <1>3, <1>4, <1>6
    <2> QED
      BY <1>1, <1>5, <2>1 DEF c
  <1>7. CASE /\ balance < Cost
             /\ buckets' = [buckets EXCEPT ![c] = [tokens |-> balance, last |-> now]]
             /\ hStage' = [hStage EXCEPT ![t] = "none"]
             /\ UNCHANGED expires
    <2> HIDE DEF c, balance
    <2>1. \E b \in 0..Full, spent \in {0, Cost} :
             /\ b <= buckets[c].tokens + (now - buckets[c].last)
             /\ spent <= b
             /\ buckets' = [buckets EXCEPT ![c] = [tokens |-> b - spent, last |-> now]]
             /\ hStage' = [hStage EXCEPT ![t] = IF spent = 0 THEN "none" ELSE "deactivate"]
             /\ expires' \in {expires, [expires EXCEPT ![t] = now + SessionTtl]}
      <3>1. balance - 0 = balance /\ 0 <= balance
        BY <1>3
      <3> QED
        BY <1>3, <1>7, <3>1
    <2> QED
      BY <1>1, <1>5, <2>1 DEF c
  <1> QED
    BY <1>6, <1>7 DEF RateLimit

LEMMA TypeStep ==
    ASSUME SessionInv, [Next]_vars
    PROVE  TypeOK'
  <1>1. HG!TypeOK' /\ AG!TypeOK'
    BY GuardsOn
  <1> USE GuardFacts
  <1>2. CASE Quiet
    <2>1. aToken' \in [AMsgs -> Nat]
      BY <1>2 DEF Quiet, SessionInv, TypeOK, Session
    <2> QED
      BY <1>1, <1>2, <2>1 DEF Quiet, SessionInv, TypeOK
  <1>3. ASSUME NEW t \in HThreads, TakeNonce(t)
        PROVE  TypeOK'
    <2>1. hStage' \in [HThreads -> {"none", "rate", "deactivate", "insert"}]
      BY <1>3, TakeNonceFacts DEF SessionInv, TypeOK
    <2> QED
      BY <1>1, <1>3, <2>1, TakeNonceFacts DEF SessionInv, TypeOK, unchangedByHandshake
  <1>4. ASSUME NEW t \in HThreads, RateLimit(t)
        PROVE  TypeOK'
    <2>1. PICK balance \in 0..Full, spent \in {0, Cost} :
             /\ spent <= balance
             /\ buckets' = [buckets EXCEPT ![Client(t)] = [tokens |-> balance - spent, last |-> now]]
             /\ hStage' = [hStage EXCEPT ![t] = IF spent = 0 THEN "none" ELSE "deactivate"]
             /\ expires' \in {expires, [expires EXCEPT ![t] = now + SessionTtl]}
      BY <1>4, RateLimitFacts
    <2>2. buckets' \in [Clients -> [tokens : 0..Full, last : 0..Horizon]]
      <3>1. balance - spent \in 0..Full
        BY <2>1, SessionAssumption
      <3> QED
        BY <2>1, <3>1 DEF SessionInv, TypeOK
    <2>3. hStage' \in [HThreads -> {"none", "rate", "deactivate", "insert"}]
      BY <2>1 DEF SessionInv, TypeOK
    <2>4. expires' \in [HThreads -> Nat]
      <3>1. now + SessionTtl \in Nat
        BY SessionAssumption
      <3> QED
        BY <2>1, <3>1 DEF SessionInv, TypeOK
    <2>5. UNCHANGED unchangedByHandshake
      BY <1>4 DEF RateLimit
    <2> QED
      BY <1>1, <1>4, <2>2, <2>3, <2>4, <2>5, RateLimitFacts
         DEF SessionInv, TypeOK, unchangedByHandshake
  <1>5. ASSUME NEW t \in HThreads, Deactivate(t)
        PROVE  TypeOK'
    <2>1. sessions' \subseteq Session
      BY <1>5, DeactivateFacts, EndedRow DEF SessionInv, TypeOK
    <2>2. hStage' \in [HThreads -> {"none", "rate", "deactivate", "insert"}]
      BY <1>5, DeactivateFacts DEF SessionInv, TypeOK
    <2>3. overlap' \subseteq Clients
      BY <1>5, DeactivateFacts DEF SessionInv, TypeOK
    <2>4. UNCHANGED unchangedByHandshake
      BY <1>5 DEF Deactivate
    <2> QED
      BY <1>1, <1>5, <2>1, <2>2, <2>3, <2>4, DeactivateFacts
         DEF SessionInv, TypeOK, unchangedByHandshake
  <1>6. ASSUME NEW t \in HThreads, Insert(t)
        PROVE  TypeOK'
    <2>1. sessions' \subseteq Session
      BY <1>6, InsertFacts DEF SessionInv, TypeOK
    <2>2. hStage' \in [HThreads -> {"none", "rate", "deactivate", "insert"}]
      BY <1>6, InsertFacts DEF SessionInv, TypeOK
    <2>3. broken' \subseteq Clients
      BY <1>6, InsertFacts DEF SessionInv, TypeOK
    <2>4. UNCHANGED unchangedByHandshake
      BY <1>6 DEF Insert
    <2> QED
      BY <1>1, <1>6, <2>1, <2>2, <2>3, <2>4, InsertFacts
         DEF SessionInv, TypeOK, unchangedByHandshake
  <1>7. ASSUME NEW t \in HThreads, DatabaseFails(t)
        PROVE  TypeOK'
    <2>1. Client(t) \in Clients
      BY SessionAssumption DEF Client
    <2>2. broken' \subseteq Clients
      BY <1>7, <2>1 DEF DatabaseFails, SessionInv, TypeOK
    <2>3. hStage' \in [HThreads -> {"none", "rate", "deactivate", "insert"}]
      BY <1>7 DEF DatabaseFails, SessionInv, TypeOK
    <2> QED
      BY <1>1, <1>7, <2>2, <2>3 DEF DatabaseFails, SessionInv, TypeOK, unchangedByHandshake
  <1>8. ASSUME NEW t \in AThreads, TakeHeaderNonce(t)
        PROVE  TypeOK'
    <2>1. aStage' \in [AThreads -> {"none", "query"}]
      BY <1>8, TakeHeaderNonceFacts DEF SessionInv, TypeOK
    <2> QED
      BY <1>1, <1>8, <2>1, TakeHeaderNonceFacts DEF SessionInv, TypeOK, unchangedByHeader, history
  <1>9. ASSUME NEW t \in AThreads, ValidateSession(t)
        PROVE  TypeOK'
    <2>1. aStage' \in [AThreads -> {"none", "query"}]
      BY <1>9 DEF ValidateSession, SessionInv, TypeOK
    <2>2. served' \in [AMsgs -> Nat]
      BY <1>9 DEF ValidateSession, SessionInv, TypeOK
    <2> QED
      BY <1>1, <1>9, <2>1, <2>2 DEF ValidateSession, SessionInv, TypeOK, unchangedByHeader, history
  <1>10. CASE Restart
    <2>1. /\ restarts' \in 0..MaxRestarts
          /\ 0..MaxRestarts \subseteq Int
          /\ boot' \in 0..Horizon
          /\ Full \in 0..Full
      BY <1>10, RestartFacts, SessionAssumption DEF SessionInv, TypeOK
    <2>2. buckets' \in [Clients -> [tokens : 0..Full, last : 0..Horizon]]
      BY <1>10, <2>1, RestartFacts
    <2>3. /\ hStage' \in [HThreads -> {"none", "rate", "deactivate", "insert"}]
          /\ aStage' \in [AThreads -> {"none", "query"}]
          /\ served' \in [AMsgs -> Nat]
          /\ broken' \subseteq Clients
      BY <1>10, RestartFacts DEF SessionInv, TypeOK
    <2> QED
      BY <1>1, <1>10, <2>1, <2>2, <2>3, RestartFacts DEF SessionInv, TypeOK
  <1> QED
    BY <1>2, <1>3, <1>4, <1>5, <1>6, <1>7, <1>8, <1>9, <1>10, Steps
-----------------------------------------------------------------------------
(* HandshakesOnce. *)

\* Steps that let no request past the guard and change no row: their messages are as
\* much used up as before.
LEMMA HandshakesKept ==
    ASSUME SessionInv, UNCHANGED <<hPassed, restarts, sessions>>,
           \A t \in HThreads : Past(t)' => Past(t) /\ hHeld'[t] = hHeld[t]
    PROVE  HandshakesOnce' /\ OneSessionPerHandshake'
  BY DEF SessionInv, HandshakesOnce, OneSessionPerHandshake

LEMMA TakeNoncePreserves ==
    ASSUME SessionInv, [Next]_vars, NEW t \in HThreads, TakeNonce(t)
    PROVE  HandshakesOnce' /\ OneSessionPerHandshake'
  <1> USE GuardFacts
  <1>1. /\ hStage[t] = "none"
        /\ UNCHANGED <<now, hHeld, sessions, restarts>>
    BY TakeNonceFacts DEF unchangedByHandshake
  <1>2. CASE UNCHANGED <<hStage, hPassed>>
    BY <1>1, <1>2, HandshakesKept DEF Past
  <1>3. CASE /\ hStage' = [hStage EXCEPT ![t] = "rate"]
             /\ hPassed' = [hPassed EXCEPT ![hHeld[t]] = @ + 1]
    <2> DEFINE m == hHeld[t]
    <2>1. m \in HMsgs
      OBVIOUS
    <2>2. hPassed'[m] = hPassed[m] + 1
      BY <1>3, <2>1
    <2>3. hPassed'[m] <= 1
      BY <2>1, GuardsOn, TimelyKnown DEF HGP!GuardInv, HGP!PassedOnce
    <2>4. hPassed[m] = 0 /\ hPassed'[m] = 1
      BY <2>1, <2>2, <2>3
    <2>5. /\ \A u \in HThreads : Past(u) => hHeld[u] # m
          /\ \A r \in sessions : r.life = restarts => r.from # m
      BY <2>1, <2>4 DEF SessionInv, HandshakesOnce
    <2>6. /\ \A u \in HThreads : Past(u)' => u = t \/ Past(u)
          /\ \A k \in HMsgs \ {m} : hPassed'[k] = hPassed[k]
      BY <1>3 DEF SessionInv, TypeOK, Past
    <2>7. hHeld[t] = m
      OBVIOUS
    <2> HIDE DEF m
    <2>8. \A r \in sessions : r.from \in HMsgs
      BY DEF SessionInv, TypeOK, Session
    <2>9. \A u \in HThreads : Past(u)' => hPassed'[hHeld'[u]] > 0
      BY <1>1, <2>4, <2>5, <2>6, <2>7 DEF SessionInv, HandshakesOnce
    <2>10. \A u, v \in HThreads : Past(u)' /\ Past(v)' /\ hHeld'[u] = hHeld'[v] => u = v
      BY <1>1, <2>5, <2>6, <2>7 DEF SessionInv, HandshakesOnce
    <2>11. \A r \in sessions' : r.life = restarts' =>
             /\ hPassed'[r.from] > 0
             /\ \A u \in HThreads : Past(u)' => hHeld'[u] # r.from
      BY <1>1, <2>5, <2>6, <2>7, <2>8 DEF SessionInv, HandshakesOnce
    <2>12. HandshakesOnce'
      BY <2>9, <2>10, <2>11 DEF HandshakesOnce
    <2> QED
      BY <1>1, <2>12 DEF SessionInv, OneSessionPerHandshake
  <1> QED
    BY <1>2, <1>3, TakeNonceFacts

\* A message passes its guard once, and only the request it let pass makes its session.
LEMMA HandshakesOnceStep ==
    ASSUME SessionInv, [Next]_vars
    PROVE  HandshakesOnce' /\ OneSessionPerHandshake'
  <1> USE GuardFacts
  <1>1. CASE Quiet
    BY <1>1, HandshakesKept DEF Quiet, Past
  <1>2. ASSUME NEW t \in HThreads, TakeNonce(t)
        PROVE  HandshakesOnce' /\ OneSessionPerHandshake'
    BY <1>2, TakeNoncePreserves
  <1>3. ASSUME NEW t \in HThreads, RateLimit(t) \/ DatabaseFails(t)
        PROVE  HandshakesOnce' /\ OneSessionPerHandshake'
    <2>1. \A u \in HThreads : Past(u)' => Past(u)
      BY <1>3, HandshakeStepFacts DEF Past, SessionInv, TypeOK
    <2>2. UNCHANGED <<hHeld, hPassed, restarts, sessions>>
      BY <1>3 DEF RateLimit, DatabaseFails, hVars, unchangedByHandshake
    <2> QED
      BY <2>1, <2>2, HandshakesKept
  <1>4. ASSUME NEW t \in HThreads, Deactivate(t)
        PROVE  HandshakesOnce' /\ OneSessionPerHandshake'
    <2>1. /\ \A u \in HThreads : Past(u)' => Past(u)
          /\ UNCHANGED <<hHeld, hPassed, restarts>>
      BY <1>4, DeactivateFacts DEF Past, SessionInv, TypeOK
    <2>2. \A d \in sessions' : \E r \in sessions :
             d = Ended(Client(t), r) /\ d.from = r.from /\ d.life = r.life
      BY <1>4, DeactivateFacts, EndedRow DEF SessionInv, TypeOK
    <2>3. HandshakesOnce'
      BY <2>1, <2>2 DEF SessionInv, HandshakesOnce
    <2>4. OneSessionPerHandshake'
      BY <2>2 DEF SessionInv, OneSessionPerHandshake
    <2> QED
      BY <2>3, <2>4
  <1>5. ASSUME NEW t \in HThreads, Insert(t)
        PROVE  HandshakesOnce' /\ OneSessionPerHandshake'
    <2>1. /\ Past(t) /\ hPassed[hHeld[t]] > 0
          /\ \A u \in HThreads : Past(u)' => Past(u) /\ hHeld[u] # hHeld[t]
          /\ \A r \in sessions : r.life = restarts => r.from # hHeld[t]
          /\ UNCHANGED <<hHeld, hPassed, restarts>>
          /\ sessions' = sessions \cup {Row(t)}
      BY <1>5, InsertFacts DEF Past, SessionInv, TypeOK, HandshakesOnce
    <2>2. Row(t).from = hHeld[t] /\ Row(t).life = restarts
      BY DEF Row
    <2>3. HandshakesOnce'
      BY <2>1, <2>2 DEF SessionInv, HandshakesOnce
    <2>4. OneSessionPerHandshake'
      BY <2>1, <2>2 DEF SessionInv, OneSessionPerHandshake
    <2> QED
      BY <2>3, <2>4
  <1>6. ASSUME NEW t \in AThreads, TakeHeaderNonce(t) \/ ValidateSession(t)
        PROVE  HandshakesOnce' /\ OneSessionPerHandshake'
    <2>1. UNCHANGED unchangedByHeader
      BY <1>6 DEF TakeHeaderNonce, ValidateSession
    <2> QED
      BY <2>1, HandshakesKept DEF unchangedByHeader, hVars, history, Past
  <1>7. CASE Restart
    <2>1. /\ \A u \in HThreads : ~Past(u)'
          /\ sessions' = sessions /\ restarts' = restarts + 1
      BY <1>7, RestartFacts DEF Past
    <2>2. \A r \in sessions : r.life # restarts + 1
      BY DEF SessionInv, TypeOK, TableNumbered, Session
    <2> QED
      BY <2>1, <2>2 DEF SessionInv, HandshakesOnce, OneSessionPerHandshake
  <1> QED
    BY <1>1, <1>2, <1>3, <1>4, <1>5, <1>6, <1>7, Steps
-----------------------------------------------------------------------------
(* The table: TableNumbered, InsertsLone, ActiveNewest and NewestUsable. *)

TableInv ==
    /\ TableNumbered
    /\ InsertsLone
    /\ ActiveNewest
    /\ NewestUsable

\* Steps that touch neither the table nor the requests between UPDATE and INSERT.
LEMMA TableKept ==
    ASSUME SessionInv, UNCHANGED <<sessions, overlap, broken, restarts>>,
           \A c \in Clients : Inserting(c)' = Inserting(c)
    PROVE  TableInv'
  <1>1. \A c \in Clients : RowsOf(c)' = RowsOf(c)
    BY DEF RowsOf
  <1>2. TableNumbered'
    BY DEF SessionInv, TableNumbered
  <1>3. InsertsLone' /\ ActiveNewest' /\ NewestUsable'
    BY <1>1 DEF SessionInv, InsertsLone, ActiveNewest, NewestUsable
  <1> QED
    BY <1>2, <1>3 DEF TableInv

\* Requests that are neither before nor after between UPDATE and INSERT.
LEMMA InsertingKept ==
    ASSUME SessionInv,
           \A t \in HThreads : hStage[t] = "insert" \/ hStage'[t] = "insert" =>
              hStage'[t] = hStage[t] /\ hHeld'[t] = hHeld[t]
    PROVE  \A c \in Clients : Inserting(c)' = Inserting(c)
  BY DEF Inserting, Client

LEMMA DeactivateKeepsTable ==
    ASSUME SessionInv, NEW t \in HThreads, Deactivate(t), NEW c \in Clients, c = Client(t)
    PROVE  TableInv'
  <1>1. /\ c \in Clients
        /\ hStage[t] = "deactivate"
        /\ sessions' = {Ended(c, r) : r \in sessions}
        /\ overlap' = IF Inserting(c) # {} THEN overlap \cup {c} ELSE overlap \ {c}
        /\ UNCHANGED <<hHeld, broken, restarts>>
        /\ sessions \subseteq Session
    BY DeactivateFacts DEF SessionInv, TypeOK
  <1>2. /\ \A u \in HThreads \ {t} : hStage'[u] = hStage[u]
        /\ hStage'[t] = "insert"
    BY DeactivateFacts DEF SessionInv, TypeOK
  <1>3. /\ \A k \in Clients \ {c} : Inserting(k)' = Inserting(k)
        /\ Inserting(c)' = Inserting(c) \cup {t}
    BY <1>1, <1>2 DEF Inserting, Client
  <1>4. \A d \in sessions' : \E r \in sessions :
           /\ d = Ended(c, r)
           /\ d.id = r.id /\ d.client = r.client /\ d.life = r.life
           /\ d.active <=> r.active /\ r.client # c
    BY <1>1, EndedRow
  <1>5. \A r \in sessions : \E d \in sessions' : d.id = r.id /\ d.client = r.client
    BY <1>1, EndedRow
  <1>6. TableNumbered'
    <2>1. IsFiniteSet(sessions') /\ Cardinality(sessions') = Cardinality(sessions)
      BY <1>1, EndedRows DEF SessionInv, TableNumbered
    <2>2. \A d \in sessions' : d.id <= Cardinality(sessions') /\ d.life <= restarts'
      BY <1>1, <1>4, <2>1 DEF SessionInv, TableNumbered
    <2>3. \A d, e \in sessions' : d.id = e.id => d = e
      BY <1>4 DEF SessionInv, TableNumbered
    <2> QED
      BY <2>1, <2>2, <2>3 DEF TableNumbered
  <1>7. /\ \A d \in RowsOf(c)' : ~d.active
        /\ \A k \in Clients \ {c} : RowsOf(k)' = RowsOf(k)
    <2>1. \A d \in RowsOf(c)' : ~d.active
      BY <1>4 DEF RowsOf
    <2>2. ASSUME NEW k \in Clients \ {c}
          PROVE  RowsOf(k)' = RowsOf(k)
      <3>1. \A r \in sessions : r.client = k => Ended(c, r) = r
        BY DEF Ended
      <3> QED
        BY <1>1, <1>4, <3>1 DEF RowsOf
    <2> QED
      BY <2>1, <2>2
  <1>8. \A k \in Clients \ {c} : k \in overlap' <=> k \in overlap
    BY <1>1
  <1>9. c \notin overlap' => Inserting(c)' = {t}
    BY <1>1, <1>3
  <1>10. InsertsLone'
    BY <1>3, <1>7, <1>8, <1>9 DEF SessionInv, InsertsLone
  <1>11. ActiveNewest'
    BY <1>7, <1>8 DEF SessionInv, ActiveNewest
  <1>12. NewestUsable'
    BY <1>1, <1>3, <1>7 DEF SessionInv, NewestUsable
  <1> QED
    BY <1>6, <1>10, <1>11, <1>12 DEF TableInv

LEMMA InsertKeepsTable ==
    ASSUME SessionInv, NEW t \in HThreads, Insert(t), NEW c \in Clients, c = Client(t)
    PROVE  TableInv'
  <1> DEFINE row == Row(t)
  <1>1. /\ c \in Clients
        /\ Cardinality(sessions) \in Nat
        /\ hStage[t] = "insert"
        /\ sessions' = sessions \cup {row}
        /\ broken' = broken \ {c}
        /\ UNCHANGED <<hHeld, overlap, restarts>>
    BY InsertFacts
  <1>2. /\ row.id = Cardinality(sessions) + 1 /\ row.client = c /\ row.active
        /\ row.life = restarts
    BY DEF Row
  <1>3. /\ \A u \in HThreads \ {t} : hStage'[u] = hStage[u]
        /\ hStage'[t] = "none"
    BY InsertFacts DEF SessionInv, TypeOK
  <1>4. /\ \A k \in Clients \ {c} : Inserting(k)' = Inserting(k)
        /\ Inserting(c)' = Inserting(c) \ {t} /\ t \in Inserting(c)
    BY <1>1, <1>3 DEF Inserting, Client
  <1>5. /\ restarts \in Int
        /\ \A r \in sessions : r.id \in Int /\ r.id < row.id /\ r.id # row.id
    BY <1>1, <1>2 DEF SessionInv, TypeOK, TableNumbered, Session
  <1> HIDE DEF row
  <1>6. TableNumbered'
    <2>1. row \notin sessions
      BY <1>5
    <2>2. IsFiniteSet(sessions') /\ Cardinality(sessions') = Cardinality(sessions) + 1
      BY <1>1, <2>1, FS_AddElement DEF SessionInv, TableNumbered
    <2>3. \A r \in sessions' : r.id <= Cardinality(sessions') /\ r.life <= restarts'
      BY <1>1, <1>2, <1>5, <2>2 DEF SessionInv, TableNumbered
    <2>4. \A r, s \in sessions' : r.id = s.id => r = s
      BY <1>1, <1>5 DEF SessionInv, TableNumbered
    <2> QED
      BY <2>2, <2>3, <2>4 DEF TableNumbered
  <1>7. /\ RowsOf(c)' = RowsOf(c) \cup {row}
        /\ \A k \in Clients \ {c} : RowsOf(k)' = RowsOf(k)
        /\ RowsOf(c) \subseteq sessions
    BY <1>1, <1>2 DEF RowsOf
  <1>8. c \notin overlap => Inserting(c)' = {} /\ \A r \in RowsOf(c) : ~r.active
    BY <1>1, <1>4 DEF SessionInv, InsertsLone
  <1>9. InsertsLone'
    BY <1>1, <1>4, <1>7, <1>8 DEF SessionInv, InsertsLone
  <1>10. ActiveNewest'
    <2>1. c \notin overlap => \A r \in RowsOf(c)' : r.active => \A s \in RowsOf(c)' : s.id <= r.id
      <3>1. c \notin overlap => \A r \in RowsOf(c)' : r.active => r = row
        BY <1>7, <1>8
      <3>2. row.id \in Int
        BY <1>1, <1>2
      <3>3. \A s \in RowsOf(c)' : s.id <= row.id
        BY <1>5, <1>7, <3>2
      <3> QED
        BY <3>1, <3>3
    <2> QED
      BY <1>1, <1>7, <2>1 DEF SessionInv, ActiveNewest
  <1>11. NewestUsable'
    <2>1. ASSUME NEW r \in RowsOf(c)', \A s \in RowsOf(c)' : s.id <= r.id
          PROVE  r.active
      <3>1. row.id <= r.id
        BY <1>7, <2>1
      <3>2. r \notin sessions
        BY <1>2, <1>5, <3>1, <1>1
      <3>3. r = row
        BY <1>7, <3>2
      <3> QED
        BY <1>2, <3>3
    <2> QED
      BY <1>1, <1>4, <1>7, <2>1 DEF SessionInv, NewestUsable
  <1> QED
    BY <1>6, <1>9, <1>10, <1>11 DEF TableInv

\* A request whose statement failed, or that a restart cut off, makes no session; if it
\* had ended the others it leaves its client without one.
LEMMA BreakKeepsTable ==
    ASSUME SessionInv, UNCHANGED <<sessions, overlap>>,
           restarts' \in {restarts, restarts + 1},
           \A c \in Clients : Inserting(c)' \subseteq Inserting(c),
           broken \subseteq broken',
           \A c \in Clients : Inserting(c)' # Inserting(c) => c \in broken'
    PROVE  TableInv'
  <1>1. \A c \in Clients : RowsOf(c)' = RowsOf(c)
    BY DEF RowsOf
  <1>2. TableNumbered'
    <2>1. restarts \in Int /\ \A r \in sessions : r.life \in Int
      BY DEF SessionInv, TypeOK, Session
    <2> QED
      BY <2>1 DEF SessionInv, TableNumbered
  <1>3. InsertsLone'
    <2> SUFFICES ASSUME NEW c \in Clients \ overlap, NEW t \in Inserting(c)'
                 PROVE  Inserting(c)' = {t} /\ \A r \in RowsOf(c)' : ~r.active
      BY DEF InsertsLone
    <2>1. t \in Inserting(c)
      OBVIOUS
    <2>2. Inserting(c) = {t} /\ \A r \in RowsOf(c) : ~r.active
      BY <2>1 DEF SessionInv, InsertsLone
    <2> QED
      BY <1>1, <2>2
  <1>4. ActiveNewest' /\ NewestUsable'
    BY <1>1 DEF SessionInv, ActiveNewest, NewestUsable
  <1> QED
    BY <1>2, <1>3, <1>4 DEF TableInv

LEMMA TableStep ==
    ASSUME SessionInv, [Next]_vars
    PROVE  TableInv'
  <1>1. CASE Quiet
    BY <1>1, InsertingKept, TableKept DEF Quiet, Past
  <1>2. ASSUME NEW t \in HThreads, TakeNonce(t) \/ RateLimit(t)
        PROVE  TableInv'
    <2>1. UNCHANGED <<sessions, overlap, broken, restarts, hHeld>>
      BY <1>2, TakeNonceFacts, RateLimitFacts DEF unchangedByHandshake
    <2>2. /\ hStage[t] # "insert"
          /\ hStage' = hStage \/ \E next \in {"none", "rate", "deactivate"} :
                hStage' = [hStage EXCEPT ![t] = next]
      BY <1>2, TakeNonceFacts DEF RateLimit
    <2>3. /\ hStage'[t] # "insert"
          /\ \A u \in HThreads \ {t} : hStage'[u] = hStage[u]
      BY <2>2 DEF SessionInv, TypeOK
    <2>4. \A c \in Clients : Inserting(c)' = Inserting(c)
      BY <2>1, <2>2, <2>3, InsertingKept
    <2> QED
      BY <2>1, <2>4, TableKept
  <1>3. ASSUME NEW t \in HThreads, DatabaseFails(t)
        PROVE  TableInv'
    <2>1. /\ hStage' = [hStage EXCEPT ![t] = "none"]
          /\ broken' = IF hStage[t] = "insert" THEN broken \cup {Client(t)} ELSE broken
          /\ UNCHANGED <<sessions, overlap, restarts, hHeld>>
      BY <1>3 DEF DatabaseFails, hVars, unchangedByHandshake
    <2>2. /\ hStage'[t] # "insert"
          /\ \A u \in HThreads \ {t} : hStage'[u] = hStage[u]
      BY <2>1 DEF SessionInv, TypeOK
    <2>3. \A c \in Clients : Inserting(c)' \subseteq Inserting(c)
      BY <2>1, <2>2 DEF Inserting, Client
    <2>4. \A c \in Clients : Inserting(c)' # Inserting(c) => hStage[t] = "insert" /\ c = Client(t)
      BY <2>1, <2>2 DEF Inserting, Client
    <2> QED
      BY <2>1, <2>3, <2>4, BreakKeepsTable
  <1>4. ASSUME NEW t \in AThreads, TakeHeaderNonce(t) \/ ValidateSession(t)
        PROVE  TableInv'
    <2>1. UNCHANGED <<sessions, overlap, broken, restarts, hHeld, hStage>>
      BY <1>4 DEF TakeHeaderNonce, ValidateSession, unchangedByHeader, hVars, history
    <2> QED
      BY <2>1, InsertingKept, TableKept
  <1>5. ASSUME NEW t \in HThreads, Deactivate(t) \/ Insert(t)
        PROVE  TableInv'
    <2>1. Client(t) \in Clients
      BY <1>5, DeactivateFacts, InsertFacts
    <2> QED
      BY <1>5, <2>1, DeactivateKeepsTable, InsertKeepsTable
  <1>6. CASE Restart
    <2>1. /\ UNCHANGED <<sessions, overlap>>
          /\ restarts' = restarts + 1
          /\ hStage' = [t \in HThreads |-> "none"]
          /\ broken' = broken \cup {c \in Clients : Inserting(c) # {}}
      BY <1>6, RestartFacts
    <2>2. \A c \in Clients : Inserting(c)' = {}
      BY <2>1 DEF Inserting
    <2>3. \A c \in Clients : Inserting(c)' # Inserting(c) => c \in broken'
      BY <2>1, <2>2
    <2> QED
      BY <2>1, <2>2, <2>3, BreakKeepsTable
  <1> QED
    BY <1>1, <1>2, <1>3, <1>4, <1>5, <1>6, Steps
-----------------------------------------------------------------------------
(* BucketsPaid. *)

LEMMA TimesMonotone ==
    ASSUME NEW i \in Nat, NEW j \in Nat, NEW k \in Nat, i <= j
    PROVE  i * k <= j * k /\ (i + 1) * k = i * k + k /\ i * k \in Nat /\ j * k \in Nat
  OBVIOUS

\* Sessions of this life and admitted handshakes are finitely many.
LEMMA CountsAreNumbers ==
    ASSUME SessionInv, NEW c \in Clients
    PROVE  /\ IsFiniteSet(OfLife(c)) /\ Cardinality(OfLife(c)) \in Nat
           /\ IsFiniteSet(Admitted(c)) /\ Cardinality(Admitted(c)) \in Nat
           /\ buckets[c].tokens \in Nat /\ buckets[c].last \in Nat
           /\ buckets[c] \in [tokens : 0..Full, last : 0..Horizon]
           /\ now \in Nat /\ boot \in Nat
           /\ boot <= buckets[c].last /\ buckets[c].last <= now
           /\ (Cardinality(OfLife(c)) + Cardinality(Admitted(c))) * Cost + buckets[c].tokens
                 <= Full + (buckets[c].last - boot)
  <1>1. OfLife(c) \in SUBSET sessions
    BY DEF OfLife, RowsOf
  <1>2. IsFiniteSet(sessions)
    BY DEF SessionInv, TableNumbered
  <1>3. IsFiniteSet(OfLife(c))
    BY <1>1, <1>2, FS_Subset
  <1>4. /\ IsFiniteSet(Admitted(c))
        /\ boot <= buckets[c].last /\ buckets[c].last <= now
        /\ (Cardinality(OfLife(c)) + Cardinality(Admitted(c))) * Cost + buckets[c].tokens
              <= Full + (buckets[c].last - boot)
    BY DEF SessionInv, BucketsPaid
  <1>5. Cardinality(OfLife(c)) \in Nat /\ Cardinality(Admitted(c)) \in Nat
    BY <1>3, <1>4, FS_CardinalityType
  <1>6. /\ buckets[c].tokens \in Nat /\ buckets[c].last \in Nat
        /\ buckets[c] \in [tokens : 0..Full, last : 0..Horizon]
        /\ now \in Nat /\ boot \in Nat
    BY GuardFacts, SessionAssumption DEF SessionInv, TypeOK
  <1> QED
    BY <1>3, <1>4, <1>5, <1>6

\* Steps that take nothing from a bucket and admit nothing.
LEMMA BucketsKept ==
    ASSUME SessionInv, now' \in {now, now + 1}, UNCHANGED <<boot, buckets>>,
           \A c \in Clients :
              /\ IsFiniteSet(Admitted(c)')
              /\ Cardinality(OfLife(c)') \in Nat /\ Cardinality(Admitted(c)') \in Nat
              /\ Cardinality(OfLife(c)') + Cardinality(Admitted(c)')
                    <= Cardinality(OfLife(c)) + Cardinality(Admitted(c))
    PROVE  BucketsPaid'
  <1> SUFFICES ASSUME NEW c \in Clients
               PROVE  /\ boot' <= buckets'[c].last /\ buckets'[c].last <= now'
                      /\ IsFiniteSet(Admitted(c)')
                      /\ (Cardinality(OfLife(c)') + Cardinality(Admitted(c)')) * Cost
                            + buckets'[c].tokens <= Full + (buckets'[c].last - boot')
    BY DEF BucketsPaid
  <1> DEFINE i == Cardinality(OfLife(c)') + Cardinality(Admitted(c)')
             j == Cardinality(OfLife(c)) + Cardinality(Admitted(c))
  <1>1. Cost \in Nat /\ Full \in Nat
    BY SessionAssumption
  <1>2. i \in Nat /\ j \in Nat /\ i <= j
    BY CountsAreNumbers
  <1>3. /\ buckets[c].tokens \in Nat /\ buckets[c].last \in Nat /\ now \in Nat /\ boot \in Nat
        /\ boot <= buckets[c].last /\ buckets[c].last <= now
        /\ j * Cost + buckets[c].tokens <= Full + (buckets[c].last - boot)
    BY CountsAreNumbers
  <1> HIDE DEF i, j
  <1>4. i * Cost <= j * Cost /\ i * Cost \in Nat /\ j * Cost \in Nat
    BY <1>1, <1>2, TimesMonotone
  <1>5. i * Cost + buckets'[c].tokens <= Full + (buckets'[c].last - boot')
    BY <1>1, <1>3, <1>4
  <1> QED
    BY <1>3, <1>5 DEF i

LEMMA SameCounts ==
    ASSUME SessionInv, now' \in {now, now + 1}, UNCHANGED <<boot, buckets>>,
           \A c \in Clients : OfLife(c)' = OfLife(c) /\ Admitted(c)' = Admitted(c)
    PROVE  BucketsPaid'
  <1>1. \A c \in Clients :
           /\ IsFiniteSet(Admitted(c))
           /\ Cardinality(OfLife(c)) \in Nat /\ Cardinality(Admitted(c)) \in Nat
           /\ Cardinality(OfLife(c)) + Cardinality(Admitted(c))
                 <= Cardinality(OfLife(c)) + Cardinality(Admitted(c))
    BY CountsAreNumbers
  <1> QED
    BY <1>1, BucketsKept

LEMMA AdmittedKept ==
    ASSUME SessionInv,
           \A t \in HThreads :
              /\ hStage[t] \in {"deactivate", "insert"} <=> hStage'[t] \in {"deactivate", "insert"}
              /\ hStage[t] \in {"deactivate", "insert"} => hHeld'[t] = hHeld[t]
    PROVE  \A c \in Clients : Admitted(c)' = Admitted(c)
  BY DEF Admitted, Client

LEMMA RateLimitPays ==
    ASSUME SessionInv, NEW t \in HThreads, RateLimit(t), NEW c \in Clients, c = Client(t)
    PROVE  BucketsPaid'
  <1>1. PICK balance \in 0..Full, spent \in {0, Cost} :
           /\ balance <= buckets[c].tokens + (now - buckets[c].last)
           /\ spent <= balance
           /\ buckets' = [buckets EXCEPT ![c] = [tokens |-> balance - spent, last |-> now]]
           /\ hStage' = [hStage EXCEPT ![t] = IF spent = 0 THEN "none" ELSE "deactivate"]
    BY RateLimitFacts
  <1>2. /\ hStage[t] = "rate"
        /\ UNCHANGED <<now, hHeld, sessions, boot, restarts>>
    BY RateLimitFacts
  <1>3. /\ hStage'[t] = (IF spent = 0 THEN "none" ELSE "deactivate")
        /\ \A u \in HThreads \ {t} : hStage'[u] = hStage[u]
    BY <1>1 DEF SessionInv, TypeOK
  <1>4. /\ t \notin Admitted(c)
        /\ Admitted(c)' = IF spent = 0 THEN Admitted(c) ELSE Admitted(c) \cup {t}
        /\ \A k \in Clients \ {c} : Admitted(k)' = Admitted(k)
    BY <1>2, <1>3 DEF Admitted, Client
  <1>5. \A k \in Clients : OfLife(k)' = OfLife(k)
    BY <1>2 DEF OfLife, RowsOf
  <1>6. /\ buckets'[c].tokens = balance - spent /\ buckets'[c].last = now
        /\ \A k \in Clients \ {c} : buckets'[k] = buckets[k]
    BY <1>1 DEF SessionInv, TypeOK
  <1>7. Cost \in Nat /\ Cost # 0 /\ Full \in Nat
    BY SessionAssumption
  <1>8. /\ boot' <= buckets'[c].last /\ buckets'[c].last <= now'
        /\ IsFiniteSet(Admitted(c)')
        /\ (Cardinality(OfLife(c)') + Cardinality(Admitted(c)')) * Cost
              + buckets'[c].tokens <= Full + (buckets'[c].last - boot')
    <2> DEFINE j == Cardinality(OfLife(c)) + Cardinality(Admitted(c))
    <2>1. /\ buckets[c].tokens \in Nat /\ buckets[c].last \in Nat /\ now \in Nat /\ boot \in Nat
          /\ boot <= buckets[c].last /\ buckets[c].last <= now
          /\ j * Cost + buckets[c].tokens <= Full + (buckets[c].last - boot)
          /\ IsFiniteSet(Admitted(c)) /\ j \in Nat
          /\ Cardinality(OfLife(c)) \in Nat /\ Cardinality(Admitted(c)) \in Nat
      BY CountsAreNumbers
    <2>2. j * Cost \in Nat /\ (j + 1) * Cost = j * Cost + Cost
      BY <1>7, <2>1, TimesMonotone
    <2>3. CASE spent = 0
      <3>1. Cardinality(OfLife(c)') + Cardinality(Admitted(c)') = j
        BY <1>4, <1>5, <2>3
      <3> HIDE DEF j
      <3>2. j * Cost + buckets'[c].tokens <= Full + (buckets'[c].last - boot')
        BY <1>1, <1>2, <1>6, <1>7, <2>1, <2>2, <2>3
      <3> QED
        BY <1>2, <1>4, <1>6, <2>1, <2>3, <3>1, <3>2
    <2>4. CASE spent = Cost
      <3>1. Admitted(c)' = Admitted(c) \cup {t}
        BY <1>4, <1>7, <2>4
      <3>2. IsFiniteSet(Admitted(c)') /\ Cardinality(Admitted(c)') = Cardinality(Admitted(c)) + 1
        BY <1>4, <2>1, <3>1, FS_AddElement
      <3>3. Cardinality(OfLife(c)') + Cardinality(Admitted(c)') = j + 1
        BY <1>5, <2>1, <3>2
      <3> HIDE DEF j
      <3>4. (j + 1) * Cost + buckets'[c].tokens <= Full + (buckets'[c].last - boot')
        BY <1>1, <1>2, <1>6, <1>7, <2>1, <2>2, <2>4
      <3> QED
        BY <1>2, <1>6, <2>1, <3>2, <3>3, <3>4
    <2> QED
      BY <2>3, <2>4
  <1>9. ASSUME NEW k \in Clients \ {c}
        PROVE  /\ boot' <= buckets'[k].last /\ buckets'[k].last <= now'
               /\ IsFiniteSet(Admitted(k)')
               /\ (Cardinality(OfLife(k)') + Cardinality(Admitted(k)')) * Cost
                     + buckets'[k].tokens <= Full + (buckets'[k].last - boot')
    BY <1>2, <1>4, <1>5, <1>6, CountsAreNumbers
  <1> QED
    BY <1>8, <1>9 DEF BucketsPaid

LEMMA DeactivatePays ==
    ASSUME SessionInv, NEW t \in HThreads, Deactivate(t)
    PROVE  BucketsPaid'
  <1>1. /\ hStage[t] = "deactivate"
        /\ hStage' = [hStage EXCEPT ![t] = "insert"]
        /\ sessions' = {Ended(Client(t), r) : r \in sessions}
        /\ UNCHANGED <<now, hHeld, buckets, boot, restarts>>
    BY DeactivateFacts
  <1>2. hStage'[t] = "insert" /\ \A u \in HThreads \ {t} : hStage'[u] = hStage[u]
    BY <1>1 DEF SessionInv, TypeOK
  <1>3. \A c \in Clients : Admitted(c)' = Admitted(c)
    BY <1>1, <1>2, AdmittedKept
  <1>4. ASSUME NEW c \in Clients
        PROVE  Cardinality(OfLife(c)') = Cardinality(OfLife(c))
    <2>1. OfLife(c) \in SUBSET Session
      BY DEF OfLife, RowsOf, SessionInv, TypeOK
    <2>2. OfLife(c)' = {Ended(Client(t), r) : r \in OfLife(c)}
      <3>1. \A r \in sessions : /\ Ended(Client(t), r).client = r.client
                                /\ Ended(Client(t), r).life = r.life
        BY EndedRow DEF SessionInv, TypeOK
      <3> QED
        BY <1>1, <3>1 DEF OfLife, RowsOf
    <2>3. IsFiniteSet(OfLife(c))
      BY CountsAreNumbers
    <2>4. \A r, s \in OfLife(c) : r.id = s.id => r = s
      BY DEF OfLife, RowsOf, SessionInv, TableNumbered
    <2>5. Cardinality({Ended(Client(t), r) : r \in OfLife(c)}) = Cardinality(OfLife(c))
      BY <2>1, <2>3, <2>4, EndedRows
    <2> QED
      BY <2>2, <2>5
  <1>5. \A c \in Clients :
           /\ IsFiniteSet(Admitted(c)')
           /\ Cardinality(OfLife(c)') \in Nat /\ Cardinality(Admitted(c)') \in Nat
           /\ Cardinality(OfLife(c)') + Cardinality(Admitted(c)')
                 <= Cardinality(OfLife(c)) + Cardinality(Admitted(c))
    BY <1>3, <1>4, CountsAreNumbers
  <1> QED
    BY <1>1, <1>5, BucketsKept

\* An admitted handshake becomes a session, or ends without one.
LEMMA InsertPays ==
    ASSUME SessionInv, NEW t \in HThreads, Insert(t), NEW c \in Clients, c = Client(t)
    PROVE  BucketsPaid'
  <1>1. /\ hStage[t] = "insert"
        /\ hStage' = [hStage EXCEPT ![t] = "none"]
        /\ sessions' = sessions \cup {Row(t)}
        /\ Cardinality(sessions) \in Nat
        /\ UNCHANGED <<now, hHeld, buckets, boot, restarts>>
    BY InsertFacts
  <1>2. hStage'[t] = "none" /\ \A u \in HThreads \ {t} : hStage'[u] = hStage[u]
    BY <1>1 DEF SessionInv, TypeOK
  <1>3. /\ t \in Admitted(c) /\ Admitted(c)' = Admitted(c) \ {t}
        /\ \A k \in Clients \ {c} : Admitted(k)' = Admitted(k)
    BY <1>1, <1>2 DEF Admitted, Client
  <1>4. Row(t) \notin sessions /\ Row(t).client = c /\ Row(t).life = restarts
    <2>1. \A r \in sessions : r.id \in Nat /\ r.id <= Cardinality(sessions)
      BY DEF SessionInv, TypeOK, TableNumbered, Session
    <2>2. Row(t).id = Cardinality(sessions) + 1 /\ Row(t).client = c /\ Row(t).life = restarts
      BY DEF Row
    <2> QED
      BY <1>1, <2>1, <2>2
  <1>5. /\ OfLife(c)' = OfLife(c) \cup {Row(t)} /\ Row(t) \notin OfLife(c)
        /\ \A k \in Clients \ {c} : OfLife(k)' = OfLife(k)
    BY <1>1, <1>4 DEF OfLife, RowsOf
  <1>6. /\ IsFiniteSet(OfLife(c)) /\ Cardinality(OfLife(c)) \in Nat
        /\ IsFiniteSet(Admitted(c)) /\ Cardinality(Admitted(c)) \in Nat
    BY CountsAreNumbers
  <1>7. /\ IsFiniteSet(Admitted(c)')
        /\ Cardinality(Admitted(c)') = Cardinality(Admitted(c)) - 1
        /\ Cardinality(Admitted(c)') \in Nat
    BY <1>3, <1>6, FS_RemoveElement, FS_CardinalityType
  <1>8. Cardinality(OfLife(c)') = Cardinality(OfLife(c)) + 1
    BY <1>5, <1>6, FS_AddElement
  <1>9. ASSUME NEW k \in Clients
        PROVE  /\ IsFiniteSet(Admitted(k)')
               /\ Cardinality(OfLife(k)') \in Nat /\ Cardinality(Admitted(k)') \in Nat
               /\ Cardinality(OfLife(k)') + Cardinality(Admitted(k)')
                     <= Cardinality(OfLife(k)) + Cardinality(Admitted(k))
    <2>1. CASE k = c
      BY <1>6, <1>7, <1>8, <2>1
    <2>2. CASE k # c
      BY <1>3, <1>5, <2>2, CountsAreNumbers
    <2> QED
      BY <2>1, <2>2
  <1> QED
    BY <1>1, <1>9, BucketsKept

LEMMA FailurePays ==
    ASSUME SessionInv, NEW t \in HThreads, DatabaseFails(t), NEW c \in Clients, c = Client(t)
    PROVE  BucketsPaid'
  <1>1. /\ hStage[t] \in {"deactivate", "insert"}
        /\ hStage' = [hStage EXCEPT ![t] = "none"]
        /\ UNCHANGED <<now, hHeld, buckets, sessions, boot, restarts>>
    BY DEF DatabaseFails, hVars, unchangedByHandshake
  <1>2. hStage'[t] = "none" /\ \A u \in HThreads \ {t} : hStage'[u] = hStage[u]
    BY <1>1 DEF SessionInv, TypeOK
  <1>3. /\ t \in Admitted(c) /\ Admitted(c)' = Admitted(c) \ {t}
        /\ \A k \in Clients \ {c} : Admitted(k)' = Admitted(k)
    BY <1>1, <1>2 DEF Admitted, Client
  <1>4. \A k \in Clients : OfLife(k)' = OfLife(k)
    BY <1>1 DEF OfLife, RowsOf
  <1>5. /\ Cardinality(OfLife(c)) \in Nat
        /\ IsFiniteSet(Admitted(c)) /\ Cardinality(Admitted(c)) \in Nat
    BY CountsAreNumbers
  <1>6. /\ IsFiniteSet(Admitted(c)')
        /\ Cardinality(Admitted(c)') = Cardinality(Admitted(c)) - 1
        /\ Cardinality(Admitted(c)') \in Nat
    BY <1>3, <1>5, FS_RemoveElement, FS_CardinalityType
  <1>7. ASSUME NEW k \in Clients
        PROVE  /\ IsFiniteSet(Admitted(k)')
               /\ Cardinality(OfLife(k)') \in Nat /\ Cardinality(Admitted(k)') \in Nat
               /\ Cardinality(OfLife(k)') + Cardinality(Admitted(k)')
                     <= Cardinality(OfLife(k)) + Cardinality(Admitted(k))
    <2>1. CASE k = c
      BY <1>4, <1>5, <1>6, <2>1
    <2>2. CASE k # c
      BY <1>3, <1>4, <2>2, CountsAreNumbers
    <2> QED
      BY <2>1, <2>2
  <1> QED
    BY <1>1, <1>7, BucketsKept

\* A restart fills the buckets anew, and there is no session of the new life yet.
LEMMA RestartPays ==
    ASSUME SessionInv, Restart
    PROVE  BucketsPaid'
  <1>1. /\ hStage' = [t \in HThreads |-> "none"]
        /\ buckets' = [c \in Clients |-> [tokens |-> Full, last |-> now]]
        /\ boot' = now /\ now' = now /\ sessions' = sessions /\ restarts' = restarts + 1
    BY RestartFacts
  <1>2. \A c \in Clients : Admitted(c)' = {}
    BY <1>1 DEF Admitted
  <1>3. \A c \in Clients : OfLife(c)' = {}
    <2>1. \A r \in sessions : r.life # restarts + 1
      BY DEF SessionInv, TypeOK, TableNumbered, Session
    <2> QED
      BY <1>1, <2>1 DEF OfLife, RowsOf
  <1>4. now \in Int /\ Cost \in Nat /\ Full \in Nat
    BY GuardFacts, SessionAssumption
  <1>5. (0 + 0) * Cost = 0
    BY <1>4
  <1>6. Full <= Full + (now - now) /\ now <= now
    BY <1>4
  <1>7. ASSUME NEW c \in Clients
        PROVE  /\ boot' <= buckets'[c].last /\ buckets'[c].last <= now'
               /\ IsFiniteSet(Admitted(c)')
               /\ (Cardinality(OfLife(c)') + Cardinality(Admitted(c)')) * Cost
                     + buckets'[c].tokens <= Full + (buckets'[c].last - boot')
    <2>1. buckets'[c].last = now /\ buckets'[c].tokens = Full
      BY <1>1
    <2>2. /\ IsFiniteSet(Admitted(c)')
          /\ Cardinality(OfLife(c)') = 0 /\ Cardinality(Admitted(c)') = 0
      BY <1>2, <1>3, FS_EmptySet
    <2>3. (0 + 0) * Cost + Full <= Full + (now - now)
      BY <1>4, <1>5, <1>6
    <2> QED
      BY <1>1, <1>6, <2>1, <2>2, <2>3
  <1> QED
    BY <1>7 DEF BucketsPaid

LEMMA BucketsStep ==
    ASSUME SessionInv, [Next]_vars
    PROVE  BucketsPaid'
  <1>1. CASE Quiet
    <2>1. \A c \in Clients : OfLife(c)' = OfLife(c) /\ Admitted(c)' = Admitted(c)
      BY <1>1, AdmittedKept DEF Quiet, OfLife, RowsOf, Past
    <2> QED
      BY <1>1, <2>1, SameCounts DEF Quiet
  <1>2. ASSUME NEW t \in HThreads, TakeNonce(t)
        PROVE  BucketsPaid'
    <2>1. /\ hStage[t] = "none"
          /\ hStage' = hStage \/ hStage' = [hStage EXCEPT ![t] = "rate"]
          /\ UNCHANGED <<now, hHeld, buckets, sessions, boot, restarts>>
      BY <1>2, TakeNonceFacts DEF unchangedByHandshake
    <2>2. /\ hStage'[t] \in {"none", "rate"}
          /\ \A u \in HThreads \ {t} : hStage'[u] = hStage[u]
      BY <2>1 DEF SessionInv, TypeOK
    <2>3. \A c \in Clients : OfLife(c)' = OfLife(c) /\ Admitted(c)' = Admitted(c)
      BY <2>1, <2>2, AdmittedKept DEF OfLife, RowsOf
    <2> QED
      BY <2>1, <2>3, SameCounts
  <1>3. ASSUME NEW t \in HThreads,
               RateLimit(t) \/ Deactivate(t) \/ Insert(t) \/ DatabaseFails(t)
        PROVE  BucketsPaid'
    <2>1. Client(t) \in Clients
      BY GuardFacts, SessionAssumption DEF Client
    <2> QED
      BY <1>3, <2>1, RateLimitPays, DeactivatePays, InsertPays, FailurePays
  <1>4. ASSUME NEW t \in AThreads, TakeHeaderNonce(t) \/ ValidateSession(t)
        PROVE  BucketsPaid'
    <2>1. UNCHANGED <<now, hStage, hHeld, buckets, sessions, boot, restarts>>
      BY <1>4, TakeHeaderNonceFacts DEF ValidateSession, unchangedByHeader, hVars, history
    <2>2. \A c \in Clients : OfLife(c)' = OfLife(c) /\ Admitted(c)' = Admitted(c)
      BY <2>1, AdmittedKept DEF OfLife, RowsOf
    <2> QED
      BY <2>1, <2>2, SameCounts
  <1> QED
    BY <1>1, <1>2, <1>3, <1>4, RestartPays, Steps
-----------------------------------------------------------------------------
(* The invariant, and the theorems. *)

LEMMA SessionInvInit == Init => SessionInv
  <1> SUFFICES ASSUME Init PROVE SessionInv
    OBVIOUS
  <1>1. HGP!GuardInv /\ AGP!GuardInv
    <2>1. HGP!GuardAssumption /\ AGP!GuardAssumption
      BY GuardsAssumption DEF HG!GuardAssumption, AG!GuardAssumption,
                              HGP!GuardAssumption, AGP!GuardAssumption
    <2>2. HGP!Init /\ AGP!Init
      BY DEF Init, HG!Init, AG!Init, HGP!Init, AGP!Init
    <2>3. HGP!GuardInv
      BY <2>1, <2>2, HGP!InitGuard
    <2>4. AGP!GuardInv
      BY <2>1, <2>2, AGP!InitGuard
    <2> QED
      BY <2>3, <2>4
  <1>2. /\ hStage = [t \in HThreads |-> "none"] /\ aStage = [t \in AThreads |-> "none"]
        /\ expires = [t \in HThreads |-> 0]
        /\ buckets = [c \in Clients |-> [tokens |-> Full, last |-> 0]]
        /\ sessions = {} /\ aToken = [m \in AMsgs |-> 0] /\ served = [m \in AMsgs |-> 0]
        /\ boot = 0 /\ restarts = 0 /\ overlap = {} /\ broken = {} /\ now = 0
        /\ hChecking = {} /\ aChecking = {}
    BY DEF Init, HG!Init, AG!Init
  <1>3. TypeOK
    <2>1. 0 \in 0..Horizon /\ Full \in 0..Full /\ 0 \in 0..MaxRestarts
      BY SessionAssumption
    <2> QED
      BY <1>1, <1>2, <2>1, GuardTypes DEF TypeOK
  <1>4. FreeThreads
    BY <1>2 DEF FreeThreads
  <1>5. TableNumbered /\ InsertsLone /\ ActiveNewest /\ NewestUsable
    BY <1>2, FS_EmptySet DEF TableNumbered, InsertsLone, ActiveNewest, NewestUsable, RowsOf, Inserting
  <1>6. HandshakesOnce /\ OneSessionPerHandshake /\ HeadersOnce /\ ServedOnce
    BY <1>2, TimelyKnown
    DEF HandshakesOnce, OneSessionPerHandshake, HeadersOnce, ServedOnce, Past, Asks
  <1>7. BucketsPaid
    <2>1. \A c \in Clients : Admitted(c) = {} /\ OfLife(c) = {}
      BY <1>2 DEF Admitted, OfLife, RowsOf
    <2>2. (0 + 0) * Cost + Full <= Full + (0 - 0)
      BY SessionAssumption
    <2> QED
      BY <1>2, <2>1, <2>2, FS_EmptySet DEF BucketsPaid
  <1> QED
    BY <1>1, <1>3, <1>4, <1>5, <1>6, <1>7 DEF SessionInv

LEMMA SessionInvStep == SessionInv /\ [Next]_vars => SessionInv'
  <1> SUFFICES ASSUME SessionInv, [Next]_vars PROVE SessionInv'
    OBVIOUS
  <1>1. HGP!GuardInv' /\ AGP!GuardInv'
    BY GuardsOn
  <1>2. TypeOK' /\ FreeThreads'
    BY TypeStep, FreeThreadsStep
  <1>3. TableInv'
    BY TableStep
  <1>4. HandshakesOnce' /\ OneSessionPerHandshake' /\ HeadersOnce' /\ ServedOnce' /\ BucketsPaid'
    BY HandshakesOnceStep, HeadersOnceStep, BucketsStep
  <1> QED
    BY <1>1, <1>2, <1>3, <1>4 DEF SessionInv, TableInv

\* Whatever requests, failures, restarts and replays there are, the service's
\* invariant holds.
THEOREM SessionInvariant == Spec => []SessionInv
  <1>1. Init => SessionInv
    BY SessionInvInit
  <1>2. SessionInv /\ [Next]_vars => SessionInv'
    BY SessionInvStep
  <1> QED
    BY <1>1, <1>2, PTL DEF Spec

\* UPDATE and INSERT leave a client one session, unless handshakes of it overlapped.
THEOREM OneActiveSession == Spec => []SingleSessionUnlessOverlap
  <1>1. SessionInv => SingleSessionUnlessOverlap
    <2> SUFFICES ASSUME SessionInv, NEW c \in Clients \ overlap,
                        NEW r \in RowsOf(c), NEW s \in RowsOf(c), r.active, s.active
                 PROVE  r = s
      BY DEF SingleSessionUnlessOverlap
    <2>1. r.id <= s.id /\ s.id <= r.id
      BY DEF SessionInv, ActiveNewest
    <2>2. r \in sessions /\ s \in sessions /\ r.id \in Int /\ s.id \in Int
      BY DEF RowsOf, SessionInv, TypeOK, Session
    <2> QED
      BY <2>1, <2>2 DEF SessionInv, TableNumbered
  <1> QED
    BY <1>1, SessionInvariant, PTL

\* A client's newest session is usable, but for a handshake that replaces it or broke
\* off half-way.
THEOREM NewestAlwaysUsable == Spec => []NewestUsable
  <1>1. SessionInv => NewestUsable
    BY DEF SessionInv
  <1> QED
    BY <1>1, SessionInvariant, PTL

\* A header is accepted at most once in a lifetime of the server, for every clock and
\* stall that leave it timely: stamped less than 30 seconds ahead, minus the stall.  The
\* code accepts stamps up to 30 seconds ahead; of those beyond nothing is claimed.
THEOREM HeadersServedOnce == Spec => []ServedOnce
  <1>1. SessionInv => ServedOnce
    BY DEF SessionInv
  <1> QED
    BY <1>1, SessionInvariant, PTL

\* A session is made by a handshake of its own, and the table grows no faster than the
\* rate limit allows.
THEOREM CreationsAlwaysJustified == Spec => []CreationsJustified
  <1>1. SessionInv => CreationBound
    <2> SUFFICES ASSUME SessionInv, NEW c \in Clients
                 PROVE  Cardinality(OfLife(c)) * Cost <= Full + (now - boot)
      BY DEF CreationBound, OfLife
    <2> DEFINE i == Cardinality(OfLife(c))
               j == Cardinality(OfLife(c)) + Cardinality(Admitted(c))
    <2>1. /\ i \in Nat /\ j \in Nat /\ i <= j
          /\ buckets[c].tokens \in Nat /\ buckets[c].last \in Nat /\ now \in Nat /\ boot \in Nat
          /\ buckets[c].last <= now
          /\ j * Cost + buckets[c].tokens <= Full + (buckets[c].last - boot)
      BY CountsAreNumbers
    <2>2. Cost \in Nat /\ Full \in Nat
      BY SessionAssumption
    <2> HIDE DEF i, j
    <2>3. i * Cost <= j * Cost /\ i * Cost \in Nat /\ j * Cost \in Nat
      BY <2>1, <2>2, TimesMonotone
    <2>4. i * Cost <= Full + (now - boot)
      BY <2>1, <2>2, <2>3
    <2> QED
      BY <2>4 DEF i
  <1>2. SessionInv => CreationsJustified
    BY <1>1 DEF SessionInv, CreationsJustified
  <1> QED
    BY <1>2, SessionInvariant, PTL

\* No header is accepted under a session that has a successor, unless the two
\* handshakes overlapped: only ValidateSession accepts, and the row it finds is active.
THEOREM SupersededNotServed == Spec => SupersededNeverServed
  <1> DEFINE Justified ==
        \A m \in AMsgs, r \in sessions :
           served'[m] = served[m] + 1 /\ r.id = aToken[m] =>
              \/ r.client \in overlap
              \/ \A s \in RowsOf(r.client) : s.id <= r.id
  <1>1. ASSUME SessionInv, [Next]_vars
        PROVE  Justified
    <2> SUFFICES ASSUME NEW m \in AMsgs, NEW r \in sessions,
                        served'[m] = served[m] + 1, r.id = aToken[m], r.client \notin overlap
                 PROVE  \A s \in RowsOf(r.client) : s.id <= r.id
      OBVIOUS
    <2>1. served[m] \in Nat
      BY <1>1 DEF SessionInv, TypeOK
    <2>2. served' # served
      BY <2>1
    <2>3. PICK t \in AThreads : ValidateSession(t)
      <3>1. ~Restart
        BY <2>1, RestartFacts
      <3>2. ~Quiet
        BY <2>2 DEF Quiet
      <3>3. \A t \in HThreads :
               ~(TakeNonce(t) \/ RateLimit(t) \/ Deactivate(t) \/ Insert(t) \/ DatabaseFails(t))
        BY <2>2 DEF TakeNonce, RateLimit, Deactivate, Insert, DatabaseFails, unchangedByHandshake
      <3>4. \A t \in AThreads : ~TakeHeaderNonce(t)
        BY <2>2 DEF TakeHeaderNonce
      <3> QED
        BY <1>1, <3>1, <3>2, <3>3, <3>4, Steps
    <2>4. served' = [served EXCEPT ![aHeld[t]] = @ + 1] /\ Matches(aHeld[t]) # {}
      BY <2>2, <2>3 DEF ValidateSession
    <2>5. aHeld[t] = m
      BY <1>1, <2>1, <2>4 DEF SessionInv, TypeOK
    <2>6. PICK q \in sessions : q.id = aToken[m] /\ q.active
      BY <2>4, <2>5 DEF Matches
    <2>7. q = r
      BY <1>1, <2>6 DEF SessionInv, TableNumbered
    <2>8. r \in RowsOf(r.client) /\ r.client \in Clients
      BY <1>1 DEF RowsOf, SessionInv, TypeOK, Session
    <2> QED
      BY <1>1, <2>6, <2>7, <2>8 DEF SessionInv, ActiveNewest
  <1>2. SessionInv /\ [Next]_vars => [Justified]_vars
    BY <1>1
  <1> QED
    BY <1>2, SessionInvariant, PTL DEF Spec, SupersededNeverServed
=============================================================================
