---------------------------- MODULE ReplayGuard ----------------------------
(***************************************************************************)
(* The anti-replay protocol of Pdd.ir.Server/Services/AuthService.cs: a    *)
(* message carries the sender's time and a fresh nonce; the server checks  *)
(* that the time is recent, enters the nonce in an in-memory dictionary    *)
(* (TryAdd, atomic) and removes it when a timer fires.  HandleHandshake-   *)
(* Async and ValidateAuthHeaderAsync run it with different constants and   *)
(* disjoint keys ("client:nonce", "auth:client:nonce"):                    *)
(*                                                                         *)
(*                  Early   Late   Ttl     (seconds)                       *)
(*      handshake     5      60    120                                     *)
(*      header       30      30     60                                     *)
(*                                                                         *)
(* Requests run on a thread pool: between the read of the clock, the       *)
(* TryAdd and the timer's callback a thread may be suspended while time    *)
(* passes.  MaxStall bounds how long a thread is suspended between reading *)
(* the clock and TryAdd.  A message is identified by its nonce and may be  *)
(* delivered any number of times, in any order, to several threads at once *)
(***************************************************************************)
EXTENDS Integers

CONSTANTS
    Msgs,        \* the messages, one per nonce
    Threads,     \* the server's concurrent requests
    Early,       \* how far ahead of the server a time stamp may be
    Late,        \* how old a time stamp may be
    Ttl,         \* how long a nonce is kept, at least
    MaxStall,    \* longest suspension between the clock read and TryAdd
    Lead,        \* how far the clock of each message's sender may lead the server's
    MaxLag,      \* how far it may be behind
    Horizon      \* bound on time

ASSUME GuardAssumption ==
    /\ Early \in Nat /\ Late \in Nat /\ Ttl \in Nat
    /\ MaxStall \in Nat /\ MaxLag \in Nat /\ Lead \in [Msgs -> Nat]
    /\ Horizon \in Nat

\* The messages whose nonce outlives the validity of their stamp: checked at the
\* last moment and then stalled, such a message still finds the nonce of an earlier
\* delivery.  A stamp that is accepted leads by no more than Early, nor by more than
\* its sender's clock does.  The handshake's constants make all messages timely;
\* the header's, with Early + Late = Ttl, only those whose sender's clock leads by
\* less than 30 seconds minus the longest stall.
Timely ==
    {m \in Msgs : \/ Early + Late + MaxStall < Ttl
                  \/ Lead[m] + Late + MaxStall < Ttl}

VARIABLES
    now,        \* UTC seconds
    made,       \* the messages that exist, replayable from then on
    stamp,      \* their time stamps
    checking,   \* threads past the time check, before TryAdd
    held,       \* the message each thread handles
    readAt,     \* the time each of these threads read from the clock, else 0
    nonces,     \* _usedNonces
    addedAt,    \* when each of these nonces was entered, else 0
    passed      \* history: times each message passed the guard since boot

vars == <<now, made, stamp, checking, held, readAt, nonces, addedAt, passed>>

Time == 0..Horizon

TypeOK ==
    /\ now \in Time
    /\ made \subseteq Msgs
    /\ stamp \in [Msgs -> Int]
    /\ checking \subseteq Threads
    /\ held \in [Threads -> Msgs]
    /\ readAt \in [Threads -> Time]
    /\ nonces \subseteq Msgs
    /\ addedAt \in [Msgs -> Time]
    /\ passed \in [Msgs -> Nat]

----------------------------------------------------------------------------
Init ==
    /\ now = 0
    /\ made = {}
    /\ stamp = [m \in Msgs |-> 0]
    /\ checking = {}
    /\ held \in [Threads -> Msgs]
    /\ readAt = [t \in Threads |-> 0]
    /\ nonces = {}
    /\ addedAt = [m \in Msgs |-> 0]
    /\ passed = [m \in Msgs |-> 0]

\* A client makes a message, stamped with its own clock, with a fresh nonce.
Make(m) ==
    /\ m \notin made
    /\ made' = made \cup {m}
    /\ \E s \in now - MaxLag .. now + Lead[m] : stamp' = [stamp EXCEPT ![m] = s]
    /\ UNCHANGED <<now, checking, held, readAt, nonces, addedAt, passed>>

\* The time check: the stamp is neither too early nor too late.
Fresh(m) == -Early <= now - stamp[m] /\ now - stamp[m] <= Late

\* A mutant of Check: the window is off by more than the slack of the timer.
CheckWide(t, m) ==
    /\ t \notin checking
    /\ m \in made
    /\ -Early <= now - stamp[m] /\ now - stamp[m] <= Late + Ttl
    /\ checking' = checking \cup {t}
    /\ held' = [held EXCEPT ![t] = m]
    /\ readAt' = [readAt EXCEPT ![t] = now]
    /\ UNCHANGED <<now, made, stamp, nonces, addedAt, passed>>

\* A copy of a message arrives at a free thread and its stamp is accepted.  One
\* whose stamp is refused leaves no trace in the server.
Check(t, m) ==
    /\ t \notin checking
    /\ m \in made
    /\ Fresh(m)
    /\ checking' = checking \cup {t}
    /\ held' = [held EXCEPT ![t] = m]
    /\ readAt' = [readAt EXCEPT ![t] = now]
    /\ UNCHANGED <<now, made, stamp, nonces, addedAt, passed>>

\* TryAdd succeeds: the nonce is entered, its timer starts, the message passes.
Pass(t) ==
    /\ t \in checking
    /\ held[t] \notin nonces
    /\ checking' = checking \ {t}
    /\ nonces' = nonces \cup {held[t]}
    /\ addedAt' = [addedAt EXCEPT ![held[t]] = now]
    /\ passed' = [passed EXCEPT ![held[t]] = @ + 1]
    /\ readAt' = [readAt EXCEPT ![t] = 0]
    /\ UNCHANGED <<now, made, stamp, held>>

\* TryAdd fails: the message is a replay and is refused.
Refuse(t) ==
    /\ t \in checking
    /\ held[t] \in nonces
    /\ checking' = checking \ {t}
    /\ readAt' = [readAt EXCEPT ![t] = 0]
    /\ UNCHANGED <<now, made, stamp, held, nonces, addedAt, passed>>

\* A mutant of Expire: the timer runs for the validity of a stamp and no more.
ExpireEarly(m) ==
    /\ m \in nonces
    /\ addedAt[m] + Late <= now
    /\ nonces' = nonces \ {m}
    /\ UNCHANGED <<now, made, stamp, checking, held, readAt, addedAt, passed>>

\* A timer fires, Ttl or later after its nonce was entered.
Expire(m) ==
    /\ m \in nonces
    /\ addedAt[m] + Ttl <= now
    /\ nonces' = nonces \ {m}
    /\ addedAt' = [addedAt EXCEPT ![m] = 0]
    /\ UNCHANGED <<now, made, stamp, checking, held, readAt, passed>>

Tick ==
    /\ now < Horizon
    /\ \A t \in checking : now + 1 <= readAt[t] + MaxStall
    /\ now' = now + 1
    /\ UNCHANGED <<made, stamp, checking, held, readAt, nonces, addedAt, passed>>

\* The process restarts: the static dictionary and the requests in progress are
\* lost; copies of old messages are still on the network.
Restart ==
    /\ checking' = {}
    /\ nonces' = {}
    /\ addedAt' = [m \in Msgs |-> 0]
    /\ readAt' = [t \in Threads |-> 0]
    /\ passed' = [m \in Msgs |-> 0]
    /\ UNCHANGED <<now, made, stamp, held>>

Next ==
    \/ \E m \in Msgs : Make(m) \/ Expire(m)
    \/ \E t \in Threads :
          \/ \E m \in Msgs : Check(t, m)
          \/ Pass(t)
          \/ Refuse(t)
    \/ Tick
    \/ Restart

Spec == Init /\ [][Next]_vars

----------------------------------------------------------------------------
(* Properties                                                              *)

\* What the guard is for ("Each header is unique and can't be replayed",
\* SecurityService.cs:105), as far as its constants carry: in one lifetime of the
\* server a timely message passes at most once, however often and whenever it is
\* delivered.  Of the others nothing is said: their nonce may be dropped while their
\* stamp is still accepted.
PassedOnce == \A m \in Timely : passed[m] <= 1

\* Why: once a timely message has passed and its nonce has been dropped, the message
\* is stale and no thread that judged it fresh is still on its way to TryAdd.
DroppedIsDead ==
    \A m \in Timely : passed[m] > 0 /\ m \notin nonces =>
        /\ stamp[m] + Late < now
        /\ \A t \in checking : held[t] # m
============================================================================
