--------------------------- MODULE SessionServer ---------------------------
(***************************************************************************)
(* The server's session service, Pdd.ir.Server/Services/AuthService.cs:    *)
(* handshakes create sessions in the table AuthSessions, request headers   *)
(* are validated against it.  Each request is a thread of the pool; the    *)
(* steps of one request interleave with those of the others and with time, *)
(* expiring nonces, database failures and restarts of the process.         *)
(*                                                                         *)
(* Two replay guards (ReplayGuard) stand in front: HG for handshakes, AG   *)
(* for headers.  Both live in memory, like the rate limiters; the table    *)
(* survives a restart.  The clock of the database and the clock of the     *)
(* server are one.                                                         *)
(***************************************************************************)
EXTENDS Integers, FiniteSets

CONSTANTS
    Clients,                     \* ClientIds
    HMsgs, HThreads,             \* handshake messages and their requests
    AMsgs, AThreads,             \* header messages and their requests
    ClientOf,                    \* the client that sends each handshake
    HEarly, HLate, HTtl,         \* handshake window and nonce lifetime
    AEarly, ALate, ATtl,         \* header window and nonce lifetime
    MaxStall, HLead, ALead, MaxLag,  \* see ReplayGuard
    Cost, Full,                  \* see TokenBucket
    SessionTtl,                  \* lifetime of a session
    Horizon, MaxRestarts         \* bounds on time and on restarts

ASSUME SessionAssumption ==
    /\ ClientOf \in [HMsgs -> Clients]
    /\ Cost \in Nat \ {0} /\ Full \in Nat /\ Cost <= Full
    /\ SessionTtl \in Nat /\ MaxRestarts \in Nat /\ Horizon \in Nat

VARIABLES
    now,
    hMade, hStamp, hChecking, hHeld, hReadAt, hNonces, hAddedAt, hPassed,
    aMade, aStamp, aChecking, aHeld, aReadAt, aNonces, aAddedAt, aPassed,
    hStage,      \* where a handshake request is past the guard
    aStage,      \* where a validation is past the guard
    expires,     \* expiresAt of the session a handshake request is creating
    buckets,     \* _buckets: balance and time of the last refill per client
    sessions,    \* the table AuthSessions
    aToken,      \* the session named in each header
    served,      \* history: times each header was accepted since boot
    boot,        \* history: when the process started
    restarts,    \* history: how often it restarted
    overlap,     \* history: clients whose last two handshakes overlapped
    broken       \* history: clients whose last handshake was cut short

hVars == <<hMade, hStamp, hChecking, hHeld, hReadAt, hNonces, hAddedAt, hPassed>>
aVars == <<aMade, aStamp, aChecking, aHeld, aReadAt, aNonces, aAddedAt, aPassed>>
history == <<boot, restarts, overlap, broken>>
vars == <<now, hVars, aVars, hStage, aStage, expires, buckets, sessions, aToken,
          served, history>>

HG == INSTANCE ReplayGuard WITH
        Msgs <- HMsgs, Threads <- HThreads,
        Early <- HEarly, Late <- HLate, Ttl <- HTtl, Lead <- HLead,
        made <- hMade, stamp <- hStamp, checking <- hChecking, held <- hHeld,
        readAt <- hReadAt, nonces <- hNonces, addedAt <- hAddedAt,
        passed <- hPassed

AG == INSTANCE ReplayGuard WITH
        Msgs <- AMsgs, Threads <- AThreads,
        Early <- AEarly, Late <- ALate, Ttl <- ATtl, Lead <- ALead,
        made <- aMade, stamp <- aStamp, checking <- aChecking, held <- aHeld,
        readAt <- aReadAt, nonces <- aNonces, addedAt <- aAddedAt,
        passed <- aPassed

ASSUME GuardsAssumption == HG!GuardAssumption /\ AG!GuardAssumption

\* The handshake's guard keeps a nonce for 120 seconds and accepts its stamp for at
\* most 65; a thread is not suspended for the 55 between.
ASSUME HandshakesTimely == HEarly + HLate + MaxStall < HTtl

\* A row of AuthSessions.  id is its identity; from and life name the handshake
\* message and the lifetime of the server it was created in (history).
Session == [id : Nat \ {0}, client : Clients, expires : Nat, active : BOOLEAN,
            from : HMsgs, life : 0..MaxRestarts]

TypeOK ==
    /\ HG!TypeOK
    /\ AG!TypeOK
    /\ hStage \in [HThreads -> {"none", "rate", "deactivate", "insert"}]
    /\ aStage \in [AThreads -> {"none", "query"}]
    /\ expires \in [HThreads -> Nat]
    /\ buckets \in [Clients -> [tokens : 0..Full, last : 0..Horizon]]
    /\ sessions \subseteq Session
    /\ aToken \in [AMsgs -> Nat]
    /\ served \in [AMsgs -> Nat]
    /\ boot \in 0..Horizon
    /\ restarts \in 0..MaxRestarts
    /\ overlap \subseteq Clients
    /\ broken \subseteq Clients

----------------------------------------------------------------------------
Init ==
    /\ HG!Init
    /\ AG!Init
    /\ hStage = [t \in HThreads |-> "none"]
    /\ aStage = [t \in AThreads |-> "none"]
    /\ expires = [t \in HThreads |-> 0]
    /\ buckets = [c \in Clients |-> [tokens |-> Full, last |-> 0]]
    /\ sessions = {}
    /\ aToken = [m \in AMsgs |-> 0]
    /\ served = [m \in AMsgs |-> 0]
    /\ boot = 0
    /\ restarts = 0
    /\ overlap = {}
    /\ broken = {}

Client(t) == ClientOf[hHeld[t]]

RowsOf(c) == {r \in sessions : r.client = c}

\* Requests of a client between the UPDATE and the INSERT.
Inserting(c) == {t \in HThreads : hStage[t] = "insert" /\ Client(t) = c}

----------------------------------------------------------------------------
(* Handshakes                                                              *)

unchangedByHandshake == <<aVars, aStage, aToken, served, boot, restarts>>

SendHandshake(m) ==
    /\ HG!Make(m)
    /\ UNCHANGED <<aVars, hStage, aStage, expires, buckets, sessions, aToken,
                   served, history>>

\* Steps 1 to 3: the message is decrypted, its fields are there and its stamp
\* is in the window.
ReceiveHandshake(t, m) ==
    /\ hStage[t] = "none"
    /\ HG!Check(t, m)
    /\ UNCHANGED <<aVars, hStage, aStage, expires, buckets, sessions, aToken,
                   served, history>>

\* Step 4: TryAdd of the nonce.
TakeNonce(t) ==
    /\ \/ HG!Pass(t) /\ hStage' = [hStage EXCEPT ![t] = "rate"]
       \/ HG!Refuse(t) /\ UNCHANGED hStage
    /\ UNCHANGED <<expires, buckets, sessions, overlap, broken>>
    /\ UNCHANGED unchangedByHandshake

\* Steps 5 and 6: the client's bucket; an admitted handshake gets its token
\* and expiry.  A bucket is made at the client's first handshake; a full one is
\* what it would be had it been made at boot.
Refilled(b) ==
    IF b.tokens + (now - b.last) <= Full THEN b.tokens + (now - b.last) ELSE Full

\* A mutant of RateLimit: a refused handshake is let through.
RateLimitIgnored(t) ==
    /\ hStage[t] = "rate"
    /\ hStage' = [hStage EXCEPT ![t] = "deactivate"]
    /\ expires' = [expires EXCEPT ![t] = now + SessionTtl]
    /\ UNCHANGED <<now, hVars, buckets, sessions, overlap, broken>>
    /\ UNCHANGED unchangedByHandshake
\* A mutant of RateLimit: any handshake is admitted, into a negative balance.
RateLimitOverdraws(t) ==
    LET c == Client(t)
    IN  /\ hStage[t] = "rate"
        /\ buckets' = [buckets EXCEPT ![c] =
                          [tokens |-> Refilled(buckets[c]) - Cost, last |-> now]]
        /\ hStage' = [hStage EXCEPT ![t] = "deactivate"]
        /\ expires' = [expires EXCEPT ![t] = now + SessionTtl]
        /\ UNCHANGED <<now, hVars, sessions, overlap, broken>>
        /\ UNCHANGED unchangedByHandshake

RateLimit(t) ==
    LET c == Client(t)
        balance == Refilled(buckets[c])
    IN  /\ hStage[t] = "rate"
        /\ \/ /\ balance >= Cost
              /\ buckets' = [buckets EXCEPT ![c] = [tokens |-> balance - Cost, last |-> now]]
              /\ hStage' = [hStage EXCEPT ![t] = "deactivate"]
              /\ expires' = [expires EXCEPT ![t] = now + SessionTtl]
           \/ /\ balance < Cost
              /\ buckets' = [buckets EXCEPT ![c] = [tokens |-> balance, last |-> now]]
              /\ hStage' = [hStage EXCEPT ![t] = "none"]
              /\ UNCHANGED expires
        /\ UNCHANGED <<now, hVars, sessions, overlap, broken>>
        /\ UNCHANGED unchangedByHandshake

Deactivated(c) ==
    {IF r.client = c THEN [r EXCEPT !.active = FALSE] ELSE r : r \in sessions}

\* A mutant of Deactivate: only sessions that have already expired are ended.
DeactivateExpired(t) ==
    LET c == Client(t)
    IN  /\ hStage[t] = "deactivate"
        /\ sessions' = {IF r.client = c /\ r.expires <= now
                        THEN [r EXCEPT !.active = FALSE] ELSE r : r \in sessions}
        /\ overlap' = IF Inserting(c) # {} THEN overlap \cup {c} ELSE overlap \ {c}
        /\ hStage' = [hStage EXCEPT ![t] = "insert"]
        /\ UNCHANGED <<now, hVars, expires, buckets, broken>>
        /\ UNCHANGED unchangedByHandshake
\* A mutant of Deactivate: the WHERE clause forgets the client.
DeactivateAll(t) ==
    LET c == Client(t)
    IN  /\ hStage[t] = "deactivate"
        /\ sessions' = {[r EXCEPT !.active = FALSE] : r \in sessions}
        /\ overlap' = IF Inserting(c) # {} THEN overlap \cup {c} ELSE overlap \ {c}
        /\ hStage' = [hStage EXCEPT ![t] = "insert"]
        /\ UNCHANGED <<now, hVars, expires, buckets, broken>>
        /\ UNCHANGED unchangedByHandshake

\* Step 7: the UPDATE ends the client's sessions.
Deactivate(t) ==
    LET c == Client(t)
    IN  /\ hStage[t] = "deactivate"
        /\ sessions' = Deactivated(c)
        /\ overlap' = IF Inserting(c) # {} THEN overlap \cup {c} ELSE overlap \ {c}
        /\ hStage' = [hStage EXCEPT ![t] = "insert"]
        /\ UNCHANGED <<now, hVars, expires, buckets, broken>>
        /\ UNCHANGED unchangedByHandshake

\* Step 8: the INSERT, on another connection and in no transaction with the
\* UPDATE.  The answer with the token then travels to the client, which may or
\* may not get it.
Insert(t) ==
    LET c == Client(t)
        row == [id |-> Cardinality(sessions) + 1, client |-> c,
                expires |-> expires[t], active |-> TRUE,
                from |-> hHeld[t], life |-> restarts]
    IN  /\ hStage[t] = "insert"
        /\ sessions' = sessions \cup {row}
        /\ broken' = broken \ {c}
        /\ hStage' = [hStage EXCEPT ![t] = "none"]
        /\ UNCHANGED <<now, hVars, expires, buckets, overlap>>
        /\ UNCHANGED unchangedByHandshake

\* One of the two statements throws: the catch block answers with an error.
\* What was done before stays.  A statement that took effect and whose result was
\* lost is Deactivate, or Insert, and then this.
DatabaseFails(t) ==
    /\ hStage[t] \in {"deactivate", "insert"}
    /\ broken' = IF hStage[t] = "insert" THEN broken \cup {Client(t)} ELSE broken
    /\ hStage' = [hStage EXCEPT ![t] = "none"]
    /\ UNCHANGED <<now, hVars, expires, buckets, sessions, overlap>>
    /\ UNCHANGED unchangedByHandshake

----------------------------------------------------------------------------
(* Headers                                                                 *)

unchangedByHeader == <<hVars, hStage, expires, buckets, sessions, history>>

\* A client makes a header for a token it was given.
SendHeader(m) ==
    /\ AG!Make(m)
    /\ \E r \in sessions : aToken' = [aToken EXCEPT ![m] = r.id]
    /\ UNCHANGED <<unchangedByHeader, aStage, served>>

\* ValidateAuthHeaderAsync up to the time check.
ReceiveHeader(t, m) ==
    /\ aStage[t] = "none"
    /\ AG!Check(t, m)
    /\ UNCHANGED <<unchangedByHeader, aStage, aToken, served>>

TakeHeaderNonce(t) ==
    /\ \/ AG!Pass(t) /\ aStage' = [aStage EXCEPT ![t] = "query"]
       \/ AG!Refuse(t) /\ UNCHANGED aStage
    /\ UNCHANGED <<unchangedByHeader, aToken, served>>

Matches(m) == {r \in sessions : r.id = aToken[m] /\ r.active /\ r.expires > now}

\* A mutant of ValidateSession: the query forgets IsActive = 1.
ValidateInactive(t) ==
    LET m == aHeld[t]
    IN  /\ aStage[t] = "query"
        /\ aStage' = [aStage EXCEPT ![t] = "none"]
        /\ \/ /\ \E r \in sessions : r.id = aToken[m] /\ r.expires > now
              /\ served' = [served EXCEPT ![m] = @ + 1]
           \/ UNCHANGED served
        /\ UNCHANGED <<now, aVars, unchangedByHeader, aToken>>

\* ValidateSessionAsync: one SELECT of the client's live sessions decides.  A
\* query that throws counts as invalid.
ValidateSession(t) ==
    LET m == aHeld[t]
    IN  /\ aStage[t] = "query"
        /\ aStage' = [aStage EXCEPT ![t] = "none"]
        /\ \/ /\ Matches(m) # {}
              /\ served' = [served EXCEPT ![m] = @ + 1]
           \/ UNCHANGED served
        /\ UNCHANGED <<now, aVars, unchangedByHeader, aToken>>

----------------------------------------------------------------------------
(* Time and the process                                                    *)

ExpireNonce ==
    /\ \/ /\ \E m \in HMsgs : HG!Expire(m)
          /\ UNCHANGED aVars
       \/ /\ \E m \in AMsgs : AG!Expire(m)
          /\ UNCHANGED hVars
    /\ UNCHANGED <<hStage, aStage, expires, buckets, sessions, aToken, served,
                   history>>

Tick ==
    /\ HG!Tick
    /\ AG!Tick
    /\ UNCHANGED <<hStage, aStage, expires, buckets, sessions, aToken, served,
                   history>>

\* The process restarts: guards, rate limiters and requests in progress are
\* gone, the table stays.
Restart ==
    /\ restarts < MaxRestarts
    /\ HG!Restart
    /\ AG!Restart
    /\ hStage' = [t \in HThreads |-> "none"]
    /\ aStage' = [t \in AThreads |-> "none"]
    /\ buckets' = [c \in Clients |-> [tokens |-> Full, last |-> now]]
    /\ served' = [m \in AMsgs |-> 0]
    /\ boot' = now
    /\ restarts' = restarts + 1
    /\ broken' = broken \cup {c \in Clients : Inserting(c) # {}}
    /\ UNCHANGED <<expires, sessions, aToken, overlap>>

Next ==
    \/ \E m \in HMsgs : SendHandshake(m)
    \/ \E t \in HThreads :
          \/ \E m \in HMsgs : ReceiveHandshake(t, m)
          \/ TakeNonce(t)
          \/ RateLimit(t)
          \/ Deactivate(t)
          \/ Insert(t)
          \/ DatabaseFails(t)
    \/ \E m \in AMsgs : SendHeader(m)
    \/ \E t \in AThreads :
          \/ \E m \in AMsgs : ReceiveHeader(t, m)
          \/ TakeHeaderNonce(t)
          \/ ValidateSession(t)
    \/ ExpireNonce
    \/ Tick
    \/ Restart

Spec == Init /\ [][Next]_vars

----------------------------------------------------------------------------
(* Properties                                                              *)

\* UPDATE and INSERT together are meant to leave a client with one session.
\* They do unless another handshake of the client ran between the two: then
\* each ends the sessions before it and none ends the other's.
SingleSessionUnlessOverlap ==
    \A c \in Clients \ overlap :
        \A r, s \in RowsOf(c) : r.active /\ s.active => r = s

\* A client's newest session stays usable until it expires, except while another
\* handshake of that client is replacing it or after one broke off half-way
\* (failed INSERT, restart): no failure elsewhere and no other client ends it.
NewestUsable ==
    \A c \in Clients : \A r \in RowsOf(c) :
        (\A s \in RowsOf(c) : s.id <= r.id) =>
            r.active \/ Inserting(c) # {} \/ c \in broken

\* One handshake message makes at most one session in a lifetime of the server.
OneSessionPerHandshake ==
    \A r, s \in sessions : r.from = s.from /\ r.life = s.life => r = s

\* The table grows no faster than the rate limit allows: per client and lifetime
\* of the server at most a full bucket plus what the time since boot refilled.
CreationBound ==
    \A c \in Clients :
        Cardinality({r \in RowsOf(c) : r.life = restarts}) * Cost
            <= Full + (now - boot)

\* A request header is accepted at most once in a lifetime of the server, if it was
\* stamped by a clock that leads the server's by less than half the header's window
\* (30 seconds) minus the longest stall.  One that was stamped further ahead, up to the
\* 30 seconds that are accepted, is left out: its nonce may be gone while it is fresh.
ServedOnce == \A m \in AG!Timely : served[m] <= 1

\* No request is accepted under a session that has a successor, unless the two
\* handshakes overlapped.
SupersededNeverServed ==
    [][\A m \in AMsgs, r \in sessions :
          served'[m] = served[m] + 1 /\ r.id = aToken[m] =>
              \/ r.client \in overlap
              \/ \A s \in RowsOf(r.client) : s.id <= r.id]_vars

\* A session is made only by a handshake of its own, within the rate.
CreationsJustified ==
    /\ TypeOK
    /\ OneSessionPerHandshake
    /\ CreationBound
============================================================================
