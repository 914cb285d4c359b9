-------------------------- MODULE CommClientProofs --------------------------
(***************************************************************************)
(* The client's link keeps its books, retries when it is down and is read  *)
(* while it is up, for any number of calls, sockets, logins and attempts.  *)
(***************************************************************************)
EXTENDS CommClient, TLAPS

\* The timer is armed only while attempts are left.
TimerBound == timer => attempts < MaxAttempts

\* A loop receives from some socket.
LoopsHaveSockets == \A l \in Sockets : loop[l] = "receive" => on[l] # 0

\* Only the socket in _ws is being connected, and it is in no other state.
AwaitsCurrent == \A s \in Sockets : conn[s] = "await" => s = ws /\ sock[s] = "connecting"

CommInv ==
    /\ TypeOK
    /\ TimerBound
    /\ LoopsHaveSockets
    /\ AwaitsCurrent
    /\ OneOpenSocket
    /\ PendingOnlyLive
    /\ DownMeansRetrying
    /\ NeverDeaf
    /\ LossNoticed
-----------------------------------------------------------------------------
(* The connection: ConnectAsync, ReconnectAsync and the timer. *)

LEMMA CommInvInit == Init => CommInv
  <1> SUFFICES ASSUME Init PROVE CommInv
    OBVIOUS
  <1> USE CommAssumption DEF Init
  <1>1. TypeOK
    <2>1. 0 \in 0..MaxSockets /\ 0 \in 0..MaxAttempts /\ 0 \in 0..MaxLogins
      BY CommAssumption
    <2> QED
      BY <2>1 DEF TypeOK
  <1>2. TimerBound /\ LoopsHaveSockets /\ AwaitsCurrent /\ OneOpenSocket
    BY DEF TimerBound, LoopsHaveSockets, AwaitsCurrent, OneOpenSocket
  <1>3. PendingOnlyLive
    BY DEF PendingOnlyLive
  <1>4. DownMeansRetrying /\ NeverDeaf /\ LossNoticed
    BY DEF DownMeansRetrying, NeverDeaf, LossNoticed
  <1> QED
    BY <1>1, <1>2, <1>3, <1>4 DEF CommInv

\* ConnectAsync up to its await leaves one socket, and it is being connected.
LEMMA BeginConnectKeeps ==
    ASSUME CommInv, NEW s \in Sockets, BeginConnect(s)
    PROVE  /\ ws' \in 0..MaxSockets
           /\ sock' \in [Sockets -> {"unused", "connecting", "open", "closing", "lost", "disposed"}]
           /\ conn' \in [Sockets -> {"none", "await", "ok", "fail", "returned"}]
           /\ unnoticed' \in BOOLEAN
           /\ AwaitsCurrent' /\ OneOpenSocket' /\ Connecting'
  <1>1. /\ ws' \in 0..MaxSockets
        /\ unnoticed' \in BOOLEAN
    <2>1. ws' = s /\ unnoticed' = FALSE
      BY DEF BeginConnect
    <2>2. s \in 0..MaxSockets
      BY CommAssumption DEF Sockets
    <2> QED
      BY <2>1, <2>2
  <1> USE DEF CommInv, BeginConnect
  <1>2. /\ sock' \in [Sockets -> {"unused", "connecting", "open", "closing", "lost", "disposed"}]
        /\ conn' \in [Sockets -> {"none", "await", "ok", "fail", "returned"}]
    BY DEF TypeOK
  <1>3. Connecting'
    BY DEF Connecting
  <1>4. OneOpenSocket'
    BY DEF OneOpenSocket
  <1>5. AwaitsCurrent'
    BY DEF AwaitsCurrent
  <1> QED
    BY <1>1, <1>2, <1>3, <1>4, <1>5

\* While a ConnectAsync is under way nothing is claimed of the link.
LEMMA ConnectingWatches ==
    ASSUME Connecting PROVE DownMeansRetrying /\ NeverDeaf /\ LossNoticed
  BY DEF DownMeansRetrying, NeverDeaf, LossNoticed

LEMMA InitConnectPreserves ==
    ASSUME CommInv, NEW s \in Sockets, InitConnect(s)
    PROVE  CommInv'
  <1>1. /\ BeginConnect(s)
        /\ boot' = "connecting" /\ bootSocket' = s
        /\ UNCHANGED <<closing, isConnected, attempts, timer, cts, loop, on, taken, inbox,
                       req, sentOn, pending, replied, logins>>
    BY DEF InitConnect, loops, requests
  <1>2. TypeOK'
    BY <1>1, BeginConnectKeeps, CommAssumption, SMTT(30) DEF CommInv, TypeOK, Sockets
  <1>3. TimerBound' /\ LoopsHaveSockets' /\ PendingOnlyLive'
    BY <1>1 DEF CommInv, TimerBound, LoopsHaveSockets, PendingOnlyLive
  <1>4. DownMeansRetrying' /\ NeverDeaf' /\ LossNoticed'
    BY <1>1, BeginConnectKeeps DEF DownMeansRetrying, NeverDeaf, LossNoticed
  <1> QED
    BY <1>1, <1>2, <1>3, <1>4, BeginConnectKeeps DEF CommInv

LEMMA TimerPreserves ==
    ASSUME CommInv, NEW s \in Sockets, TimerFires(s)
    PROVE  CommInv'
  <1>1. /\ BeginConnect(s)
        /\ timer /\ timer' = FALSE /\ attempts' = attempts + 1
        /\ UNCHANGED <<boot, bootSocket, closing, isConnected, cts, loop, on, taken, inbox,
                       req, sentOn, pending, replied, logins>>
    BY DEF TimerFires, loops, requests
  <1>2. attempts' \in 0..MaxAttempts
    BY <1>1, CommAssumption DEF CommInv, TypeOK, TimerBound
  <1>3. TypeOK'
    BY <1>1, <1>2, BeginConnectKeeps DEF CommInv, TypeOK
  <1>4. TimerBound' /\ LoopsHaveSockets' /\ PendingOnlyLive'
    BY <1>1 DEF CommInv, TimerBound, LoopsHaveSockets, PendingOnlyLive
  <1>5. DownMeansRetrying' /\ NeverDeaf' /\ LossNoticed'
    BY <1>1, BeginConnectKeeps DEF DownMeansRetrying, NeverDeaf, LossNoticed
  <1> QED
    BY <1>1, <1>3, <1>4, <1>5, BeginConnectKeeps DEF CommInv

LEMMA ReconnectPreserves ==
    ASSUME CommInv, NEW s \in Sockets, Reconnect(s)
    PROVE  CommInv'
  <1>1. /\ logins' \in 0..MaxLogins
        /\ attempts' = 0
        /\ UNCHANGED <<boot, bootSocket, isConnected, timer, cts, loop, on, taken, inbox,
                       req, sentOn, pending, replied>>
    BY CommAssumption DEF Reconnect, loops, requests, CommInv, TypeOK
  <1>2. TimerBound' /\ LoopsHaveSockets' /\ PendingOnlyLive'
    BY <1>1, CommAssumption DEF CommInv, TimerBound, LoopsHaveSockets, PendingOnlyLive
  <1>3. CASE BeginConnect(s) /\ UNCHANGED closing
    <2>1. TypeOK'
      BY <1>1, <1>3, BeginConnectKeeps, CommAssumption DEF CommInv, TypeOK
    <2>2. DownMeansRetrying' /\ NeverDeaf' /\ LossNoticed'
      BY <1>3, BeginConnectKeeps DEF DownMeansRetrying, NeverDeaf, LossNoticed
    <2> QED
      BY <1>2, <1>3, <2>1, <2>2, BeginConnectKeeps DEF CommInv
  <1>4. CASE /\ WsOpen
             /\ sock' = [sock EXCEPT ![ws] = "closing"]
             /\ closing' = closing \cup {ws}
             /\ UNCHANGED <<ws, conn, unnoticed>>
    <2>1. ws \in Sockets
      BY <1>4 DEF WsOpen, CommInv, TypeOK, Sockets
    <2>2. sock[ws] = "open" /\ sock'[ws] = "closing"
      BY <1>4, <2>1 DEF WsOpen, CommInv, TypeOK
    <2>3. TypeOK'
      BY <1>1, <1>4, <2>1, CommAssumption DEF CommInv, TypeOK
    <2>4. AwaitsCurrent' /\ OneOpenSocket'
      BY <1>4, <2>1, <2>2 DEF CommInv, TypeOK, AwaitsCurrent, OneOpenSocket
    <2>5. DownMeansRetrying' /\ NeverDeaf' /\ LossNoticed'
      BY <1>4, <2>1, <2>2 DEF DownMeansRetrying, NeverDeaf, LossNoticed, WsOpen
    <2> QED
      BY <1>2, <2>3, <2>4, <2>5 DEF CommInv
  <1> QED
    BY <1>3, <1>4 DEF Reconnect

LEMMA CloseReturnsPreserves ==
    ASSUME CommInv, NEW k \in Sockets, NEW s \in Sockets, CloseReturns(k, s)
    PROVE  CommInv'
  <1>1. /\ BeginConnect(s)
        /\ closing' = closing \ {k}
        /\ UNCHANGED <<boot, bootSocket, isConnected, attempts, timer, cts, loop, on, taken,
                       inbox, req, sentOn, pending, replied, logins>>
    BY DEF CloseReturns, loops, requests
  <1>2. TypeOK'
    BY <1>1, BeginConnectKeeps DEF CommInv, TypeOK
  <1>3. TimerBound' /\ LoopsHaveSockets' /\ PendingOnlyLive'
    BY <1>1 DEF CommInv, TimerBound, LoopsHaveSockets, PendingOnlyLive
  <1>4. DownMeansRetrying' /\ NeverDeaf' /\ LossNoticed'
    BY <1>1, BeginConnectKeeps DEF DownMeansRetrying, NeverDeaf, LossNoticed
  <1> QED
    BY <1>1, <1>2, <1>3, <1>4, BeginConnectKeeps DEF CommInv

\* ConnectAsync after its await: the link is up and its own loop reads it, or it is
\* down and a timer is armed while attempts are left.
LEMMA ConnectReturnsPreserves ==
    ASSUME CommInv, NEW s \in Sockets, ConnectReturns(s)
    PROVE  CommInv'
  <1>1. /\ conn[s] \in {"ok", "fail"}
        /\ conn' = [conn EXCEPT ![s] = "returned"]
        /\ boot' \in {boot, "done"}
        /\ UNCHANGED <<bootSocket, ws, closing, taken, inbox, req, sentOn, pending, replied,
                       logins>>
    BY DEF ConnectReturns, requests
  <1>2. conn' \in [Sockets -> {"none", "await", "ok", "fail", "returned"}]
    BY <1>1 DEF CommInv, TypeOK
  <1>3. \A k \in Sockets : conn'[k] = "await" => conn[k] = "await" /\ k # s
    BY <1>1 DEF CommInv, TypeOK
  <1>4. boot' \in {"handshake", "connecting", "done"}
    BY <1>1 DEF CommInv, TypeOK
  <1>5. PendingOnlyLive'
    BY <1>1 DEF CommInv, PendingOnlyLive
  <1>6. CASE conn[s] = "fail"
    <2>1. /\ isConnected' = FALSE /\ timer' = (attempts < MaxAttempts)
          /\ UNCHANGED <<attempts, cts, loop, on, sock, unnoticed>>
      BY <1>6 DEF ConnectReturns, LinkDown, ScheduleReconnect
    <2>2. TypeOK'
      <3>1. timer' \in BOOLEAN
        BY <2>1
      <3> QED
        BY <1>1, <1>2, <1>4, <2>1, <3>1 DEF CommInv, TypeOK
    <2>3. TimerBound' /\ LoopsHaveSockets'
      BY <2>1 DEF CommInv, TimerBound, LoopsHaveSockets
    <2>4. AwaitsCurrent' /\ OneOpenSocket'
      BY <1>1, <1>3, <2>1 DEF CommInv, AwaitsCurrent, OneOpenSocket
    <2>5. attempts' = MaxAttempts \/ timer'
      <3>1. attempts = MaxAttempts \/ attempts < MaxAttempts
        BY CommAssumption DEF CommInv, TypeOK
      <3> QED
        BY <2>1, <3>1, Zenon
    <2>6. DownMeansRetrying' /\ NeverDeaf' /\ LossNoticed'
      BY <2>1, <2>5 DEF DownMeansRetrying, NeverDeaf, LossNoticed
    <2> QED
      BY <1>5, <2>2, <2>3, <2>4, <2>6 DEF CommInv
  <1>7. CASE conn[s] = "ok"
    <2>1. /\ isConnected' = TRUE /\ attempts' = 0 /\ cts' = s /\ timer' = timer
          /\ \/ /\ loop' = [loop EXCEPT ![s] = IF WsOpen THEN "receive" ELSE "ended"]
                /\ on' = [on EXCEPT ![s] = ws]
                /\ unnoticed' = (unnoticed \/ ~WsOpen)
                /\ UNCHANGED sock
             \/ /\ WsOpen
                /\ sock' = [sock EXCEPT ![ws] = "lost"]
                /\ loop' = [loop EXCEPT ![s] = "ended"]
                /\ unnoticed' = TRUE
                /\ UNCHANGED on
      BY <1>7 DEF ConnectReturns
    <2>2. WsOpen => ws \in Sockets /\ sock[ws] = "open"
      BY DEF WsOpen, CommInv, TypeOK, Sockets
    <2>3. cts' \in 0..MaxSockets /\ attempts' \in 0..MaxAttempts
      BY <2>1, CommAssumption DEF Sockets
    <2>4. TimerBound'
      BY <2>1, CommAssumption DEF TimerBound
    <2>5. CASE /\ loop' = [loop EXCEPT ![s] = IF WsOpen THEN "receive" ELSE "ended"]
               /\ on' = [on EXCEPT ![s] = ws]
               /\ unnoticed' = (unnoticed \/ ~WsOpen)
               /\ UNCHANGED sock
      <3>1. TypeOK'
        BY <1>1, <1>2, <1>4, <2>1, <2>3, <2>5 DEF CommInv, TypeOK
      <3>2. /\ on'[s] = ws /\ loop'[s] = (IF WsOpen THEN "receive" ELSE "ended")
            /\ \A l \in Sockets \ {s} : on'[l] = on[l] /\ loop'[l] = loop[l]
        BY <2>5 DEF CommInv, TypeOK
      <3>3. LoopsHaveSockets'
        BY <3>2 DEF CommInv, LoopsHaveSockets, WsOpen
      <3>4. AwaitsCurrent' /\ OneOpenSocket'
        BY <1>1, <1>3, <2>5 DEF CommInv, AwaitsCurrent, OneOpenSocket
      <3>5. WsOpen' <=> WsOpen
        BY <1>1, <2>5 DEF WsOpen
      <3>6. DownMeansRetrying'
        BY <2>1 DEF DownMeansRetrying
      <3>7. NeverDeaf'
        BY <1>1, <2>1, <3>2, <3>5 DEF NeverDeaf
      <3>8. LossNoticed'
        BY <1>1, <2>2, <2>5 DEF LossNoticed
      <3> QED
        BY <1>5, <2>4, <3>1, <3>3, <3>4, <3>6, <3>7, <3>8 DEF CommInv
    <2>6. CASE /\ WsOpen
               /\ sock' = [sock EXCEPT ![ws] = "lost"]
               /\ loop' = [loop EXCEPT ![s] = "ended"]
               /\ unnoticed' = TRUE
               /\ UNCHANGED on
      <3>1. TypeOK'
        BY <1>1, <1>2, <1>4, <2>1, <2>3, <2>6 DEF CommInv, TypeOK
      <3>2. \A l \in Sockets : loop'[l] = "receive" => loop[l] = "receive"
        BY <2>6 DEF CommInv, TypeOK
      <3>3. sock'[ws] = "lost" /\ \A k \in Sockets \ {ws} : sock'[k] = sock[k]
        BY <2>2, <2>6 DEF CommInv, TypeOK
      <3>4. LoopsHaveSockets'
        BY <2>6, <3>2 DEF CommInv, LoopsHaveSockets
      <3>5. AwaitsCurrent' /\ OneOpenSocket'
        BY <1>1, <1>3, <2>2, <2>6, <3>3 DEF CommInv, AwaitsCurrent, OneOpenSocket
      <3>6. DownMeansRetrying'
        BY <2>1 DEF DownMeansRetrying
      <3>7. NeverDeaf' /\ LossNoticed'
        BY <1>1, <2>6, <3>3 DEF NeverDeaf, LossNoticed, WsOpen
      <3> QED
        BY <1>5, <2>4, <3>1, <3>4, <3>5, <3>6, <3>7 DEF CommInv
    <2> QED
      BY <2>1, <2>5, <2>6
  <1> QED
    BY <1>1, <1>6, <1>7

\* The network: a connection opens, fails or is lost.
LEMMA ConnectEndsPreserves ==
    ASSUME CommInv, NEW s \in Sockets, Opens(s) \/ ConnectFails(s)
    PROVE  CommInv'
  <1>1. PICK ended \in {"ok", "fail"}, now \in {"open", "lost"} :
           /\ conn[s] = "await"
           /\ conn' = [conn EXCEPT ![s] = ended]
           /\ sock' = [sock EXCEPT ![s] = now]
    BY DEF Opens, ConnectFails
  <1>2. UNCHANGED <<boot, bootSocket, ws, isConnected, attempts, timer, closing, cts, loop, on,
                    taken, inbox, req, sentOn, pending, replied, logins, unnoticed>>
    BY DEF Opens, ConnectFails, loops, requests
  <1>3. s = ws
    BY <1>1 DEF CommInv, AwaitsCurrent
  <1>4. /\ conn'[s] = ended
        /\ \A k \in Sockets \ {s} : sock'[k] = sock[k] /\ conn'[k] = conn[k]
    BY <1>1 DEF CommInv, TypeOK
  <1>5. TypeOK'
    BY <1>1, <1>2 DEF CommInv, TypeOK
  <1>6. TimerBound' /\ LoopsHaveSockets' /\ PendingOnlyLive'
    BY <1>2 DEF CommInv, TimerBound, LoopsHaveSockets, PendingOnlyLive
  <1>7. AwaitsCurrent' /\ OneOpenSocket'
    BY <1>2, <1>3, <1>4 DEF CommInv, AwaitsCurrent, OneOpenSocket
  <1>8. Connecting'
    BY <1>4 DEF Connecting
  <1>9. DownMeansRetrying' /\ NeverDeaf' /\ LossNoticed'
    BY <1>8 DEF DownMeansRetrying, NeverDeaf, LossNoticed
  <1> QED
    BY <1>5, <1>6, <1>7, <1>9 DEF CommInv

LEMMA LosePreserves ==
    ASSUME CommInv, NEW s \in Sockets, Lose(s)
    PROVE  CommInv'
  <1>1. /\ sock[s] \in {"open", "closing"}
        /\ sock' = [sock EXCEPT ![s] = "lost"]
        /\ unnoticed' = (unnoticed \/ (s = ws /\ ~Receiving(s)))
        /\ UNCHANGED <<boot, bootSocket, ws, conn, isConnected, attempts, timer, closing, cts,
                       loop, on, taken, inbox, req, sentOn, pending, replied, logins>>
    BY DEF Lose, loops, requests
  <1>2. s = ws /\ sock'[s] = "lost" /\ \A k \in Sockets \ {s} : sock'[k] = sock[k]
    BY <1>1 DEF CommInv, TypeOK, OneOpenSocket
  <1>3. TypeOK'
    BY <1>1 DEF CommInv, TypeOK
  <1>4. TimerBound' /\ LoopsHaveSockets' /\ PendingOnlyLive'
    BY <1>1 DEF CommInv, TimerBound, LoopsHaveSockets, PendingOnlyLive
  <1>5. AwaitsCurrent' /\ OneOpenSocket'
    BY <1>1, <1>2 DEF CommInv, AwaitsCurrent, OneOpenSocket
  <1>6. DownMeansRetrying' /\ NeverDeaf'
    BY <1>1, <1>2 DEF CommInv, DownMeansRetrying, NeverDeaf, WsOpen, Connecting
  <1>7. LossNoticed'
    <2>1. Receiving(ws) => Receiving(ws)'
      BY <1>1 DEF Receiving
    <2> QED
      BY <1>1, <1>2, <2>1 DEF LossNoticed
  <1> QED
    BY <1>3, <1>4, <1>5, <1>6, <1>7 DEF CommInv
-----------------------------------------------------------------------------
(* The receive loop. *)

LEMMA DownIsBoolean ==
    ASSUME LinkDown PROVE isConnected' \in BOOLEAN /\ timer' \in BOOLEAN
  <1>1. isConnected' = FALSE /\ timer' = (attempts < MaxAttempts)
    BY DEF LinkDown, ScheduleReconnect
  <1>2. (attempts < MaxAttempts) \in BOOLEAN
    OBVIOUS
  <1> QED
    BY <1>1, <1>2, Zenon

\* Steps that leave the sockets, the calls of ConnectAsync and the attempts alone:
\* their timer is that of before or the one of a lost connection.
LEMMA LinkKeptOrDown ==
    ASSUME CommInv, TypeOK', LoopsHaveSockets', PendingOnlyLive',
           UNCHANGED <<boot, ws, sock, conn, closing, attempts, cts, unnoticed>>,
           \/ LinkDown
           \/ UNCHANGED <<isConnected, timer>> /\ NeverDeaf' /\ LossNoticed'
    PROVE  CommInv'
  <1>1. TimerBound' /\ AwaitsCurrent' /\ OneOpenSocket'
    <2>1. TimerBound'
      BY Zenon DEF CommInv, TimerBound, LinkDown, ScheduleReconnect
    <2> QED
      BY <2>1 DEF CommInv, AwaitsCurrent, OneOpenSocket
  <1>2. CASE LinkDown
    <2>1. isConnected' = FALSE /\ (attempts' = MaxAttempts \/ timer')
      <3>1. attempts = MaxAttempts \/ attempts < MaxAttempts
        BY CommAssumption DEF CommInv, TypeOK
      <3> QED
        BY <1>2, <3>1, Zenon DEF LinkDown, ScheduleReconnect
    <2>2. DownMeansRetrying' /\ NeverDeaf' /\ LossNoticed'
      BY <2>1 DEF DownMeansRetrying, NeverDeaf, LossNoticed
    <2> QED
      BY <1>1, <2>2 DEF CommInv
  <1>3. CASE UNCHANGED <<isConnected, timer>> /\ NeverDeaf' /\ LossNoticed'
    <2>1. DownMeansRetrying'
      BY <1>3 DEF CommInv, DownMeansRetrying, Connecting
    <2> QED
      BY <1>1, <1>3, <2>1 DEF CommInv
  <1> QED
    BY <1>2, <1>3

LEMMA LoopReceivesPreserves ==
    ASSUME CommInv, NEW l \in Sockets, LoopReceives(l)
    PROVE  CommInv'
  <1>1. PICK r \in inbox[on[l]] :
           /\ inbox' = [inbox EXCEPT ![on[l]] = @ \ {r}]
           /\ taken' = [taken EXCEPT ![l] = r]
    BY DEF LoopReceives
  <1>2. /\ loop[l] = "receive"
        /\ sock[on[l]] \in {"open", "closing"}
        /\ loop' = [loop EXCEPT ![l] = "handle"]
        /\ UNCHANGED <<boot, bootSocket, ws, sock, conn, isConnected, attempts, timer, closing,
                       cts, on, req, sentOn, pending, replied, logins, unnoticed>>
    BY DEF LoopReceives, link, requests
  <1>3. on[l] \in Sockets
    <2>1. on[l] \in 0..MaxSockets /\ on[l] # 0
      BY <1>2 DEF CommInv, TypeOK, LoopsHaveSockets
    <2> QED
      BY <2>1, CommAssumption DEF Sockets
  <1>4. r \in Requests
    BY <1>3 DEF CommInv, TypeOK
  <1>5. TypeOK'
    BY <1>1, <1>2, <1>3, <1>4 DEF CommInv, TypeOK
  <1>6. loop'[l] = "handle" /\ \A k \in Sockets \ {l} : loop'[k] = loop[k]
    BY <1>2 DEF CommInv, TypeOK
  <1>7. LoopsHaveSockets' /\ PendingOnlyLive'
    BY <1>2, <1>6 DEF CommInv, LoopsHaveSockets, PendingOnlyLive
  <1>8. NeverDeaf'
    BY <1>2, <1>6 DEF CommInv, NeverDeaf, WsOpen, Connecting
  <1>9. LossNoticed'
    <2>1. sock[ws] = "lost" => (Receiving(ws) => Receiving(ws)')
      BY <1>2, <1>6 DEF Receiving, CommInv, TypeOK, Sockets
    <2> QED
      BY <1>2, <2>1 DEF CommInv, LossNoticed, Connecting
  <1> QED
    BY <1>2, <1>5, <1>7, <1>8, <1>9, LinkKeptOrDown

\* The answer goes to its request, and the loop receives from the socket in _ws.
LEMMA LoopHandledPreserves ==
    ASSUME CommInv, NEW l \in Sockets, LoopHandled(l)
    PROVE  CommInv'
  <1>1. /\ loop[l] = "handle"
        /\ taken' = [taken EXCEPT ![l] = NoRequest]
        /\ UNCHANGED <<boot, bootSocket, ws, sock, conn, isConnected, attempts, timer, closing,
                       cts, inbox, sentOn, replied, logins, unnoticed>>
    BY DEF LoopHandled, link
  <1>2. \/ /\ WsOpen /\ cts = l
           /\ loop' = [loop EXCEPT ![l] = "receive"]
           /\ on' = [on EXCEPT ![l] = ws]
        \/ /\ ~(WsOpen /\ cts = l)
           /\ loop' = [loop EXCEPT ![l] = "ended"]
           /\ on' = on
    BY DEF LoopHandled, LoopTop
  <1>3. \/ /\ taken[l] \in pending
           /\ pending' = pending \ {taken[l]}
           /\ req' = [req EXCEPT ![taken[l]] = "answered"]
        \/ UNCHANGED <<pending, req>>
    BY DEF LoopHandled
  <1>4. TypeOK'
    <2>1. /\ loop' \in [Sockets -> {"none", "receive", "handle", "ended"}]
          /\ on' \in [Sockets -> 0..MaxSockets]
      BY <1>2 DEF CommInv, TypeOK
    <2>2. /\ pending' \subseteq Requests
          /\ req' \in [Requests -> {"idle", "http", "prepare", "wait", "answered", "done", "failed"}]
      BY <1>3 DEF CommInv, TypeOK
    <2>3. taken' \in [Sockets -> Requests \cup {NoRequest}]
      BY <1>1 DEF CommInv, TypeOK
    <2> QED
      BY <1>1, <2>1, <2>2, <2>3 DEF CommInv, TypeOK
  <1>5. /\ \A k \in Sockets \ {l} : loop'[k] = loop[k] /\ on'[k] = on[k]
        /\ WsOpen /\ cts = l => loop'[l] = "receive" /\ on'[l] = ws
        /\ loop'[l] = "receive" => on'[l] = ws /\ ws # 0
    BY <1>2 DEF CommInv, TypeOK, WsOpen
  <1>6. LoopsHaveSockets'
    BY <1>5 DEF CommInv, LoopsHaveSockets
  <1>7. PendingOnlyLive'
    BY <1>3 DEF CommInv, TypeOK, PendingOnlyLive
  <1>8. NeverDeaf'
    BY <1>1, <1>5 DEF CommInv, NeverDeaf, WsOpen, Connecting
  <1>9. LossNoticed'
    <2>1. Receiving(ws) => Receiving(ws)'
      BY <1>1, <1>5 DEF Receiving, CommInv, TypeOK, Sockets
    <2> QED
      BY <1>1, <2>1 DEF CommInv, LossNoticed, Connecting
  <1> QED
    BY <1>1, <1>4, <1>6, <1>7, <1>8, <1>9, LinkKeptOrDown

\* LoopCloses, LoopDisposed and LoopCancelled: a loop ends.
LEMMA LoopEndsPreserves ==
    ASSUME CommInv, NEW l \in Sockets, LoopCloses(l) \/ LoopDisposed(l) \/ LoopCancelled(l)
    PROVE  CommInv'
  <1>1. /\ loop[l] = "receive"
        /\ loop' = [loop EXCEPT ![l] = "ended"]
        /\ UNCHANGED <<boot, bootSocket, ws, sock, conn, attempts, closing, cts, on, taken,
                       inbox, req, sentOn, pending, replied, logins, unnoticed>>
    BY DEF LoopCloses, LoopDisposed, LoopCancelled, link, requests
  <1>2. loop'[l] = "ended" /\ \A k \in Sockets \ {l} : loop'[k] = loop[k]
    BY <1>1 DEF CommInv, TypeOK
  <1>3. ASSUME isConnected' \in BOOLEAN, timer' \in BOOLEAN
        PROVE  TypeOK'
    BY <1>1, <1>3 DEF CommInv, TypeOK
  <1>4. LoopsHaveSockets' /\ PendingOnlyLive'
    BY <1>1, <1>2 DEF CommInv, LoopsHaveSockets, PendingOnlyLive
  <1>5. CASE LinkDown
    <2>1. isConnected' \in BOOLEAN /\ timer' \in BOOLEAN
      BY <1>5, DownIsBoolean
    <2> QED
      BY <1>1, <1>3, <1>4, <1>5, <2>1, LinkKeptOrDown
  <1>6. CASE UNCHANGED <<isConnected, timer>> /\ (LoopDisposed(l) \/ LoopCancelled(l))
    <2>1. TypeOK'
      BY <1>3, <1>6 DEF CommInv, TypeOK
    <2>2. cts = l => sock[on[l]] = "disposed"
      BY <1>6 DEF LoopDisposed, LoopCancelled
    <2>3. NeverDeaf'
      BY <1>1, <1>2, <1>6, <2>2 DEF CommInv, NeverDeaf, WsOpen, Connecting
    <2>4. LossNoticed'
      <3>1. sock[ws] = "lost" => (Receiving(ws) => Receiving(ws)')
        BY <1>1, <1>2, <2>2 DEF Receiving, CommInv, TypeOK, Sockets
      <3> QED
        BY <1>1, <1>6, <3>1 DEF CommInv, LossNoticed, Connecting
    <2> QED
      BY <1>1, <1>4, <1>6, <2>1, <2>3, <2>4, LinkKeptOrDown
  <1> QED
    BY <1>5, <1>6 DEF LoopCloses, LoopDisposed, LoopCancelled, link
-----------------------------------------------------------------------------
(* Requests. *)

\* A step of a request leaves the loops alone.
LEMMA RequestOnPreserves ==
    ASSUME CommInv, TypeOK', PendingOnlyLive',
           UNCHANGED <<boot, ws, sock, conn, closing, attempts, unnoticed, cts, loop, on>>,
           LinkDown \/ UNCHANGED <<isConnected, timer>>
    PROVE  CommInv'
  <1>1. LoopsHaveSockets'
    BY DEF CommInv, LoopsHaveSockets
  <1>2. ASSUME UNCHANGED <<isConnected, timer>>
        PROVE  NeverDeaf' /\ LossNoticed'
    <2>1. NeverDeaf'
      BY <1>2 DEF CommInv, NeverDeaf, WsOpen, Connecting
    <2>2. Receiving(ws)' <=> Receiving(ws)
      BY DEF Receiving
    <2> QED
      BY <1>2, <2>1, <2>2 DEF CommInv, LossNoticed, Connecting
  <1> QED
    BY <1>1, <1>2, LinkKeptOrDown

LEMMA RequestPreserves ==
    ASSUME CommInv, NEW r \in Requests,
           StartRequest(r) \/ Timeout(r) \/ Return(r)
    PROVE  CommInv'
  <1>1. UNCHANGED <<boot, bootSocket, ws, sock, conn, isConnected, attempts, timer, closing, cts,
                    loop, on, taken, inbox, sentOn, replied, logins, unnoticed>>
    BY DEF StartRequest, Timeout, Return, link, loops
  <1>2. PICK now \in {"prepare", "http", "failed", "done"} : req' = [req EXCEPT ![r] = now]
    BY DEF StartRequest, Timeout, Return, Fails
  <1>3. pending' \in {pending, pending \cup {r}, pending \ {r}}
    BY DEF StartRequest, Timeout, Return, Fails
  <1>4. TypeOK'
    BY <1>1, <1>2, <1>3 DEF CommInv, TypeOK
  <1>5. PendingOnlyLive'
    BY DEF CommInv, TypeOK, PendingOnlyLive, StartRequest, Timeout, Return, Fails
  <1> QED
    BY <1>1, <1>4, <1>5, RequestOnPreserves

LEMMA SendPreserves ==
    ASSUME CommInv, NEW r \in Requests, Send(r)
    PROVE  CommInv'
  <1>1. UNCHANGED <<boot, bootSocket, ws, sock, conn, attempts, closing, cts, loop, on, taken,
                    inbox, replied, logins, unnoticed>>
    BY DEF Send, loops
  <1>2. LinkDown \/ UNCHANGED <<isConnected, timer>>
    BY DEF Send
  <1>3. isConnected' \in BOOLEAN /\ timer' \in BOOLEAN
    <2>1. CASE LinkDown
      BY <2>1, DownIsBoolean
    <2>2. CASE UNCHANGED <<isConnected, timer>>
      BY <2>2 DEF CommInv, TypeOK
    <2> QED
      BY <1>2, <2>1, <2>2
  <1>4. /\ req' \in [Requests -> {"idle", "http", "prepare", "wait", "answered", "done", "failed"}]
        /\ sentOn' \in [Requests -> 0..MaxSockets]
        /\ pending' \subseteq Requests
    BY DEF Send, Fails, CommInv, TypeOK
  <1>5. TypeOK'
    BY <1>1, <1>3, <1>4 DEF CommInv, TypeOK
  <1>6. PendingOnlyLive'
    BY DEF CommInv, TypeOK, PendingOnlyLive, Send, Fails
  <1> QED
    BY <1>1, <1>2, <1>5, <1>6, RequestOnPreserves

LEMMA AnswerPreserves ==
    ASSUME CommInv, NEW r \in Requests, Answer(r)
    PROVE  CommInv'
  <1>1. /\ sentOn[r] # 0
        /\ replied' = replied \cup {r}
        /\ inbox' = [inbox EXCEPT ![sentOn[r]] = @ \cup {r}]
        /\ UNCHANGED <<boot, bootSocket, ws, sock, conn, isConnected, attempts, timer, closing,
                       cts, loop, on, taken, req, sentOn, pending, logins, unnoticed>>
    BY DEF Answer, link, loops, requests
  <1>2. TypeOK'
    BY <1>1, ZenonT(60) DEF CommInv, TypeOK
  <1>3. PendingOnlyLive'
    BY <1>1 DEF CommInv, PendingOnlyLive
  <1> QED
    BY <1>1, <1>2, <1>3, RequestOnPreserves

\* Every step of the client, of the network and of the server keeps the invariant.
LEMMA CommInvStep == CommInv /\ [Next]_vars => CommInv'
  <1> SUFFICES ASSUME CommInv, [Next]_vars PROVE CommInv'
    OBVIOUS
  <1>1. CASE UNCHANGED vars
    <2>1. UNCHANGED <<boot, bootSocket, ws, sock, conn, isConnected, attempts, timer, closing,
                      cts, loop, on, taken, inbox, replied, req, sentOn, pending, logins,
                      unnoticed>>
      BY <1>1 DEF vars, link, loops, requests
    <2>2. TypeOK' /\ PendingOnlyLive'
      BY <2>1 DEF CommInv, TypeOK, PendingOnlyLive
    <2> QED
      BY <2>1, <2>2, RequestOnPreserves
  <1>2. ASSUME NEW s \in Sockets,
               InitConnect(s) \/ ConnectReturns(s) \/ TimerFires(s) \/ Reconnect(s)
        PROVE  CommInv'
    BY <1>2, InitConnectPreserves, ConnectReturnsPreserves, TimerPreserves, ReconnectPreserves
  <1>3. ASSUME NEW s \in Sockets, NEW k \in Sockets, CloseReturns(k, s)
        PROVE  CommInv'
    BY <1>3, CloseReturnsPreserves
  <1>4. ASSUME NEW s \in Sockets, Opens(s) \/ ConnectFails(s) \/ Lose(s)
        PROVE  CommInv'
    BY <1>4, ConnectEndsPreserves, LosePreserves
  <1>5. ASSUME NEW l \in Sockets,
               \/ LoopReceives(l) \/ LoopHandled(l)
               \/ LoopCloses(l) \/ LoopDisposed(l) \/ LoopCancelled(l)
        PROVE  CommInv'
    BY <1>5, LoopReceivesPreserves, LoopHandledPreserves, LoopEndsPreserves
  <1>6. ASSUME NEW r \in Requests,
               StartRequest(r) \/ Send(r) \/ Timeout(r) \/ Return(r) \/ Answer(r)
        PROVE  CommInv'
    BY <1>6, RequestPreserves, SendPreserves, AnswerPreserves
  <1> QED
    BY <1>1, <1>2, <1>3, <1>4, <1>5, <1>6 DEF Next
-----------------------------------------------------------------------------
(* Theorems. *)

\* At any overlap of connects, loops, calls, losses and logins the client's invariant
\* holds.
THEOREM CommInvariant == Spec => []CommInv
  <1>1. Init => CommInv
    BY CommInvInit
  <1>2. CommInv /\ [Next]_vars => CommInv'
    BY CommInvStep
  <1> QED
    BY <1>1, <1>2, PTL DEF Spec

\* There is one socket, and an entry for each call that waits and for no other.
THEOREM BooksAlwaysKept == Spec => []BooksKept
  <1>1. CommInv => BooksKept
    BY DEF CommInv, BooksKept
  <1> QED
    BY <1>1, CommInvariant, PTL

\* A client that knows its link is down is on its way to a new one, until the attempts
\* are used up.
THEOREM DownAlwaysRetries == Spec => []DownMeansRetrying
  <1>1. CommInv => DownMeansRetrying
    BY DEF CommInv
  <1> QED
    BY <1>1, CommInvariant, PTL

\* A link that counts as up is read by the live loop, or its loss is about to be
\* noticed.
THEOREM LinkAlwaysWatched == Spec => []LinkWatched
  <1>1. CommInv => LinkWatched
    BY DEF CommInv, LinkWatched
  <1> QED
    BY <1>1, CommInvariant, PTL
=============================================================================
