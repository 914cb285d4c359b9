------------------------ MODULE ReplayGuardProofs ------------------------
(***************************************************************************)
(* The replay guard admits a message at most once per lifetime of the      *)
(* server, for any number of messages and threads, whenever the nonce      *)
(* outlives the stamp's validity by more than a thread can be stalled      *)
(* (Timely).                                                               *)
(***************************************************************************)
EXTENDS ReplayGuard, TLAPS

\* A thread past the time check holds a message whose stamp was in the window
\* at the time it read, and it read that time at most MaxStall ago.
ThreadsHonest ==
    \A t \in checking :
        /\ held[t] \in made
        /\ readAt[t] <= now
        /\ now <= readAt[t] + MaxStall
        /\ stamp[held[t]] <= readAt[t] + Early
        /\ readAt[t] <= stamp[held[t]] + Late

\* A stamp is never further ahead of the server's clock than the sender's clock.
StampsLead == \A m \in made : stamp[m] <= now + Lead[m]

\* A nonce in the dictionary belongs to a message that passed, and was entered
\* no earlier than the message's stamp, up to the lead a stamp can have.
NoncesTimely ==
    \A m \in nonces :
        /\ passed[m] > 0
        /\ addedAt[m] <= now
        /\ stamp[m] <= addedAt[m] + Early
        /\ stamp[m] <= addedAt[m] + Lead[m]

MadeOnly == nonces \subseteq made /\ \A m \in Msgs : passed[m] > 0 => m \in made

GuardInv ==
    /\ TypeOK
    /\ PassedOnce
    /\ DroppedIsDead
    /\ ThreadsHonest
    /\ StampsLead
    /\ NoncesTimely
    /\ MadeOnly

----------------------------------------------------------------------------
LEMMA InitGuard == Init => GuardInv
  BY GuardAssumption
     DEF Init, GuardInv, TypeOK, PassedOnce, DroppedIsDead, ThreadsHonest,
         StampsLead, NoncesTimely, MadeOnly, Time, Timely

LEMMA MakePreserves ==
    ASSUME GuardInv, NEW m \in Msgs, Make(m)
    PROVE  GuardInv'
  <1> USE GuardAssumption
  <1>0. PICK s \in now - MaxLag .. now + Lead[m] :
            stamp' = [stamp EXCEPT ![m] = s]
    BY DEF Make
  <1>1. /\ m \notin made
        /\ made' = made \cup {m}
        /\ UNCHANGED <<now, checking, held, readAt, nonces, addedAt, passed>>
    BY DEF Make
  <1>2. s \in Int /\ s <= now + Lead[m] /\ now \in Int
    BY <1>0 DEF GuardInv, TypeOK, Time
  <1>3. \A k \in Msgs : k # m => stamp'[k] = stamp[k]
    BY <1>0 DEF GuardInv, TypeOK
  <1>4. stamp'[m] = s
    BY <1>0 DEF GuardInv, TypeOK
  <1>5. TypeOK'
    BY <1>0, <1>1, <1>2 DEF GuardInv, TypeOK
  <1>6. PassedOnce'
    BY <1>1 DEF GuardInv, PassedOnce
  <1>7. DroppedIsDead'
    BY <1>1, <1>3 DEF GuardInv, DroppedIsDead, MadeOnly, Timely
  <1>8. ThreadsHonest'
    BY <1>1, <1>3 DEF GuardInv, ThreadsHonest, TypeOK
  <1>9. StampsLead'
    BY <1>1, <1>2, <1>3, <1>4 DEF GuardInv, StampsLead, TypeOK
  <1>10. NoncesTimely'
    BY <1>1, <1>3 DEF GuardInv, NoncesTimely, MadeOnly, TypeOK
  <1>11. MadeOnly'
    BY <1>1 DEF GuardInv, MadeOnly
  <1> QED
    BY <1>5, <1>6, <1>7, <1>8, <1>9, <1>10, <1>11 DEF GuardInv

\* A message whose nonce was dropped is no longer fresh, so no thread accepts it.
LEMMA CheckPreserves ==
    ASSUME GuardInv, NEW t \in Threads, NEW m \in Msgs, Check(t, m)
    PROVE  GuardInv'
  <1> USE GuardAssumption
  <1>1. /\ t \notin checking
        /\ m \in made
        /\ -Early <= now - stamp[m] /\ now - stamp[m] <= Late
        /\ checking' = checking \cup {t}
        /\ held' = [held EXCEPT ![t] = m]
        /\ readAt' = [readAt EXCEPT ![t] = now]
        /\ UNCHANGED <<now, made, stamp, nonces, addedAt, passed>>
    BY DEF Check, Fresh
  <1>2. now \in Int /\ stamp[m] \in Int
    BY DEF GuardInv, TypeOK, Time
  <1>3. /\ held'[t] = m
        /\ readAt'[t] = now
        /\ \A u \in Threads : u # t => held'[u] = held[u] /\ readAt'[u] = readAt[u]
    BY <1>1 DEF GuardInv, TypeOK
  <1>4. TypeOK'
    BY <1>1 DEF GuardInv, TypeOK
  <1>5. DroppedIsDead'
    <2>1. ~(m \in Timely /\ passed[m] > 0 /\ m \notin nonces)
      BY <1>1, <1>2 DEF GuardInv, DroppedIsDead
    <2> QED
      BY <1>1, <1>3, <2>1 DEF GuardInv, DroppedIsDead, TypeOK
  <1>6. ThreadsHonest'
    BY <1>1, <1>2, <1>3 DEF GuardInv, ThreadsHonest, TypeOK
  <1>7. PassedOnce' /\ StampsLead' /\ NoncesTimely' /\ MadeOnly'
    BY <1>1 DEF GuardInv, PassedOnce, StampsLead, NoncesTimely, MadeOnly
  <1> QED
    BY <1>4, <1>5, <1>6, <1>7 DEF GuardInv

\* A timely message that passes has not passed before: its nonce is absent, and had
\* it been dropped no thread could still hold the message.
LEMMA PassPreserves ==
    ASSUME GuardInv, NEW t \in Threads, Pass(t)
    PROVE  GuardInv'
  <1> USE GuardAssumption
  <1> DEFINE m == held[t]
  <1>0. m \in Msgs
    BY DEF GuardInv, TypeOK
  <1>1. /\ t \in checking
        /\ m \notin nonces
        /\ checking' = checking \ {t}
        /\ nonces' = nonces \cup {m}
        /\ addedAt' = [addedAt EXCEPT ![m] = now]
        /\ passed' = [passed EXCEPT ![m] = @ + 1]
        /\ readAt' = [readAt EXCEPT ![t] = 0]
        /\ UNCHANGED <<now, made, stamp, held>>
    BY DEF Pass
  <1>2. passed[m] \in Nat /\ (m \in Timely => passed[m] = 0)
    BY <1>0, <1>1 DEF GuardInv, DroppedIsDead, TypeOK
  <1>3. /\ addedAt'[m] = now
        /\ passed'[m] = passed[m] + 1
        /\ \A u \in Threads \ {t} : readAt'[u] = readAt[u]
        /\ \A k \in Msgs : k # m => addedAt'[k] = addedAt[k] /\ passed'[k] = passed[k]
    BY <1>0, <1>1, <1>2 DEF GuardInv, TypeOK
  <1>4. TypeOK'
    BY <1>0, <1>1 DEF GuardInv, TypeOK, Time
  <1>5. PassedOnce'
    BY <1>2, <1>3 DEF GuardInv, PassedOnce, Timely
  <1>6. DroppedIsDead'
    BY <1>1, <1>3 DEF GuardInv, DroppedIsDead, Timely
  <1>7. ThreadsHonest'
    BY <1>1, <1>3 DEF GuardInv, ThreadsHonest, TypeOK
  <1>8. StampsLead' /\ MadeOnly'
    BY <1>0, <1>1, <1>2, <1>3 DEF GuardInv, StampsLead, MadeOnly, ThreadsHonest
  <1>9. NoncesTimely'
    <2>1. /\ now \in Int /\ stamp[m] \in Int /\ readAt[t] \in Int
      BY <1>0 DEF GuardInv, TypeOK, Time
    <2>2. stamp[m] <= now + Early /\ stamp[m] <= now + Lead[m]
      BY <1>0, <1>1, <2>1 DEF GuardInv, ThreadsHonest, StampsLead
    <2>3. ASSUME NEW k \in nonces'
          PROVE  /\ passed'[k] > 0
                 /\ addedAt'[k] <= now'
                 /\ stamp'[k] <= addedAt'[k] + Early
                 /\ stamp'[k] <= addedAt'[k] + Lead[k]
      <3>1. CASE k = m
        BY <1>1, <1>2, <1>3, <2>1, <2>2, <3>1
      <3>2. CASE k # m
        <4>1. k \in nonces /\ k \in Msgs
          BY <1>1, <3>2 DEF GuardInv, TypeOK
        <4> QED
          BY <1>1, <1>3, <3>2, <4>1 DEF GuardInv, NoncesTimely
      <3> QED
        BY <3>1, <3>2
    <2> QED
      BY <2>3 DEF NoncesTimely
  <1> QED
    BY <1>4, <1>5, <1>6, <1>7, <1>8, <1>9 DEF GuardInv

\* The heart of the argument: when a nonce's time is up, its message, if timely, is stale
\* and every thread that judged it fresh has reached TryAdd.
LEMMA ExpirePreserves ==
    ASSUME GuardInv, NEW m \in Msgs, Expire(m)
    PROVE  GuardInv'
  <1> USE GuardAssumption
  <1>1. /\ m \in nonces
        /\ addedAt[m] + Ttl <= now
        /\ nonces' = nonces \ {m}
        /\ addedAt' = [addedAt EXCEPT ![m] = 0]
        /\ UNCHANGED <<now, made, stamp, checking, held, readAt, passed>>
    BY DEF Expire
  <1>2. /\ now \in Int /\ stamp[m] \in Int /\ addedAt[m] \in Int
        /\ \A t \in Threads : readAt[t] \in Int
    BY DEF GuardInv, TypeOK, Time
  <1>3. m \in Timely => stamp[m] + Late + MaxStall < now
    BY <1>1, <1>2 DEF GuardInv, NoncesTimely, Timely
  <1>4. m \in Timely => \A t \in checking : held[t] # m
    <2> SUFFICES ASSUME m \in Timely, NEW t \in checking, held[t] = m
                 PROVE  FALSE
      OBVIOUS
    <2>1. t \in Threads
      BY DEF GuardInv, TypeOK
    <2>2. readAt[t] <= stamp[m] + Late /\ now <= readAt[t] + MaxStall
      BY DEF GuardInv, ThreadsHonest
    <2> QED
      BY <1>2, <1>3, <2>1, <2>2
  <1>5. DroppedIsDead'
    BY <1>1, <1>2, <1>3, <1>4 DEF GuardInv, DroppedIsDead, Timely
  <1>6. TypeOK'
    BY <1>1 DEF GuardInv, TypeOK, Time
  <1>7. NoncesTimely'
    <2>1. \A k \in Msgs \ {m} : addedAt'[k] = addedAt[k]
      BY <1>1 DEF GuardInv, TypeOK
    <2> QED
      BY <1>1, <2>1 DEF GuardInv, NoncesTimely, TypeOK
  <1>8. PassedOnce' /\ ThreadsHonest' /\ StampsLead' /\ MadeOnly'
    BY <1>1 DEF GuardInv, PassedOnce, ThreadsHonest, StampsLead, MadeOnly
  <1> QED
    BY <1>5, <1>6, <1>7, <1>8 DEF GuardInv

LEMMA TickPreserves ==
    ASSUME GuardInv, Tick
    PROVE  GuardInv'
  <1> USE GuardAssumption
  <1>1. /\ now < Horizon
        /\ \A t \in checking : now + 1 <= readAt[t] + MaxStall
        /\ now' = now + 1
        /\ UNCHANGED <<made, stamp, checking, held, readAt, nonces, addedAt, passed>>
    BY DEF Tick
  <1>2. /\ now \in Int
        /\ \A t \in Threads : readAt[t] \in Int
        /\ \A m \in Msgs : stamp[m] \in Int /\ addedAt[m] \in Int
    BY DEF GuardInv, TypeOK, Time
  <1>3. TypeOK'
    BY <1>1 DEF GuardInv, TypeOK, Time
  <1>4. DroppedIsDead'
    BY <1>1, <1>2 DEF GuardInv, DroppedIsDead, Timely
  <1>5. ThreadsHonest'
    BY <1>1, <1>2 DEF GuardInv, ThreadsHonest, TypeOK
  <1>6. StampsLead' /\ NoncesTimely'
    BY <1>1, <1>2 DEF GuardInv, StampsLead, NoncesTimely, TypeOK
  <1>7. PassedOnce' /\ MadeOnly'
    BY <1>1 DEF GuardInv, PassedOnce, MadeOnly
  <1> QED
    BY <1>3, <1>4, <1>5, <1>6, <1>7 DEF GuardInv

LEMMA StepGuard == GuardInv /\ [Next]_vars => GuardInv'
  <1> SUFFICES ASSUME GuardInv, [Next]_vars
               PROVE  GuardInv'
    OBVIOUS
  <1>1. ASSUME NEW m \in Msgs, Make(m)
        PROVE  GuardInv'
    BY <1>1, MakePreserves
  <1>2. ASSUME NEW m \in Msgs, Expire(m)
        PROVE  GuardInv'
    BY <1>2, ExpirePreserves
  <1>3. ASSUME NEW t \in Threads, NEW m \in Msgs, Check(t, m)
        PROVE  GuardInv'
    BY <1>3, CheckPreserves
  <1>4. ASSUME NEW t \in Threads, Pass(t)
        PROVE  GuardInv'
    BY <1>4, PassPreserves
  <1>5. ASSUME NEW t \in Threads, Refuse(t)
        PROVE  GuardInv'
    <2>1. /\ checking' = checking \ {t}
          /\ readAt' = [readAt EXCEPT ![t] = 0]
          /\ UNCHANGED <<now, made, stamp, held, nonces, addedAt, passed>>
      BY <1>5 DEF Refuse
    <2>2. \A u \in Threads \ {t} : readAt'[u] = readAt[u]
      BY <2>1 DEF GuardInv, TypeOK
    <2>3. TypeOK' /\ ThreadsHonest'
      BY <2>1, <2>2, GuardAssumption DEF GuardInv, TypeOK, Time, ThreadsHonest
    <2> QED
      BY <2>1, <2>3 DEF GuardInv, PassedOnce, DroppedIsDead, StampsLead,
                        NoncesTimely, MadeOnly
  <1>6. CASE Tick
    BY <1>6, TickPreserves
  <1>7. CASE Restart
    <2>1. /\ checking' = {}
          /\ nonces' = {}
          /\ addedAt' = [m \in Msgs |-> 0]
          /\ readAt' = [t \in Threads |-> 0]
          /\ passed' = [m \in Msgs |-> 0]
          /\ UNCHANGED <<now, made, stamp, held>>
      BY <1>7 DEF Restart
    <2>2. \A m \in Msgs : passed'[m] = 0
      BY <2>1
    <2> QED
      BY <2>1, <2>2, GuardAssumption
         DEF GuardInv, TypeOK, Time, PassedOnce, DroppedIsDead, ThreadsHonest,
             StampsLead, NoncesTimely, MadeOnly, Timely
  <1>8. CASE UNCHANGED vars
    BY <1>8 DEF vars, GuardInv, TypeOK, PassedOnce, DroppedIsDead,
                ThreadsHonest, StampsLead, NoncesTimely, MadeOnly
  <1> QED
    BY <1>1, <1>2, <1>3, <1>4, <1>5, <1>6, <1>7, <1>8 DEF Next

THEOREM GuardInvariant == Spec => []GuardInv
  BY InitGuard, StepGuard, PTL DEF Spec

\* The guard's variables keep their types.
THEOREM GuardTypeCorrect == Spec => []TypeOK
  <1>1. GuardInv => TypeOK
    BY DEF GuardInv
  <1> QED
    BY GuardInvariant, <1>1, PTL

\* A message whose nonce outlives the validity of its stamp passes at most once in one
\* lifetime of the server (AuthService.cs:63-89, 217-232), for every window, lifetime
\* and stall.  A header stamped some 30 seconds ahead is no such message.
THEOREM AtMostOnce == Spec => []PassedOnce
  <1>1. GuardInv => PassedOnce
    BY DEF GuardInv
  <1> QED
    BY GuardInvariant, <1>1, PTL

\* The dropped nonce of a timely message belongs to a stale one that no thread still
\* carries.
THEOREM DroppedNonces == Spec => []DroppedIsDead
  <1>1. GuardInv => DroppedIsDead
    BY DEF GuardInv
  <1> QED
    BY GuardInvariant, <1>1, PTL
==========================================================================
