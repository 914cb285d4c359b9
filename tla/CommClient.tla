----------------------------- MODULE CommClient -----------------------------
(***************************************************************************)
(* The client's link to the server: Pdd.ir.Client/Services/Communication-  *)
(* Service.cs.  Blazor WebAssembly runs on one thread, so a method runs    *)
(* without interruption from one await to the next, and the interleaving   *)
(* is that of the continuations: overlapping ConnectAsync calls, receive   *)
(* loops that outlive their socket, the reconnect timer, requests being    *)
(* prepared or awaiting their answer, and the network under all of them.   *)
(*                                                                         *)
(* Sockets are numbered in the order ConnectAsync creates them; a call of  *)
(* ConnectAsync, its socket, its cancellation token and the receive loop   *)
(* it starts share that number.  Times are left out: an armed timer may    *)
(* fire at any moment.                                                     *)
(***************************************************************************)
EXTENDS Integers, FiniteSets

CONSTANTS
    Requests,        \* calls of GetAsync, PostAsync, PutAsync, DeleteAsync
    NoRequest,       \* no call
    HttpOnly,        \* those whose url IsHttpOnlyUrl (auth/, api/upload)
    MaxAttempts,     \* MaxReconnectAttempts
    MaxSockets,      \* bound on the sockets ever created
    MaxLogins        \* bound on the logins, each calls ReconnectAsync

ASSUME CommAssumption ==
    /\ NoRequest \notin Requests
    /\ HttpOnly \subseteq Requests
    /\ MaxAttempts \in Nat \ {0}
    /\ MaxSockets \in Nat \ {0}
    /\ MaxLogins \in Nat

Sockets == 1..MaxSockets

VARIABLES
    boot,          \* InitializeAsync: handshake, connecting, done (_initTcs)
    bootSocket,    \* the socket InitializeAsync connects
    ws,            \* _ws, 0 for null
    sock,          \* the state of each socket
    conn,          \* ConnectAsync of each socket: awaiting, or how its await ended
    closing,       \* sockets whose CloseAsync a ReconnectAsync awaits
    isConnected,   \* _isConnected
    attempts,      \* _reconnectAttempts
    timer,         \* _reconnectTimer is armed
    cts,           \* the token of this number is live, earlier ones are cancelled
    loop,          \* the receive loop of each number
    on,            \* the socket a loop receives from
    taken,         \* the request whose answer a loop handles
    inbox,         \* answers on their way, per socket
    replied,       \* requests the server has answered
    req,           \* where each request is
    sentOn,        \* the socket a request was sent on, 0 before
    pending,       \* _pendingRequests
    logins,        \* history: ReconnectAsync calls so far
    unnoticed      \* history: _ws was lost while the live loop was not receiving
                   \* from it, or before the loop of the latest ConnectAsync began

link == <<ws, sock, conn, isConnected, attempts, timer>>
loops == <<cts, loop, on, taken>>
requests == <<req, sentOn, pending>>
vars == <<boot, bootSocket, link, closing, loops, inbox, replied, requests,
          logins, unnoticed>>

TypeOK ==
    /\ boot \in {"handshake", "connecting", "done"}
    /\ bootSocket \in 0..MaxSockets
    /\ ws \in 0..MaxSockets
    /\ sock \in [Sockets -> {"unused", "connecting", "open", "closing", "lost",
                             "disposed"}]
    /\ conn \in [Sockets -> {"none", "await", "ok", "fail", "returned"}]
    /\ closing \subseteq Sockets
    /\ isConnected \in BOOLEAN
    /\ attempts \in 0..MaxAttempts
    /\ timer \in BOOLEAN
    /\ cts \in 0..MaxSockets
    /\ loop \in [Sockets -> {"none", "receive", "handle", "ended"}]
    /\ on \in [Sockets -> 0..MaxSockets]
    /\ taken \in [Sockets -> Requests \cup {NoRequest}]
    /\ inbox \in [Sockets -> SUBSET Requests]
    /\ replied \subseteq Requests
    /\ req \in [Requests -> {"idle", "http", "prepare", "wait", "answered",
                             "done", "failed"}]
    /\ sentOn \in [Requests -> 0..MaxSockets]
    /\ pending \subseteq Requests
    /\ logins \in 0..MaxLogins
    /\ unnoticed \in BOOLEAN

Init ==
    /\ boot = "handshake"
    /\ bootSocket = 0
    /\ ws = 0
    /\ sock = [s \in Sockets |-> "unused"]
    /\ conn = [s \in Sockets |-> "none"]
    /\ closing = {}
    /\ isConnected = FALSE
    /\ attempts = 0
    /\ timer = FALSE
    /\ cts = 0
    /\ loop = [s \in Sockets |-> "none"]
    /\ on = [s \in Sockets |-> 0]
    /\ taken = [s \in Sockets |-> NoRequest]
    /\ inbox = [s \in Sockets |-> {}]
    /\ replied = {}
    /\ req = [r \in Requests |-> "idle"]
    /\ sentOn = [r \in Requests |-> 0]
    /\ pending = {}
    /\ logins = 0
    /\ unnoticed = FALSE

----------------------------------------------------------------------------
WsOpen == ws # 0 /\ sock[ws] = "open"

\* A mutant of ScheduleReconnect: the attempts are not counted.
ScheduleReconnectForever == timer' = TRUE

\* ScheduleReconnect: the old timer is disposed and a new one armed, unless the
\* attempts are used up.
ScheduleReconnect == timer' = (attempts < MaxAttempts)

\* What every handler of a lost connection does.
LinkDown ==
    /\ isConnected' = FALSE
    /\ ScheduleReconnect

Created == {s \in Sockets : sock[s] # "unused"}

\* A mutant of BeginConnect: the old socket is not disposed.
BeginConnectKeepsOld(s) ==
    /\ Created = 1..(s - 1)
    /\ ws' = s
    /\ sock' = [sock EXCEPT ![s] = "connecting"]
    /\ conn' = [conn EXCEPT ![s] = "await"]
    /\ unnoticed' = FALSE

\* ConnectAsync up to its await: dispose the socket in _ws, put a new one there
\* and start to connect it.  A connect still awaited on the old socket fails.
BeginConnect(s) ==
    /\ Created = 1..(s - 1)
    /\ ws' = s
    /\ sock' = [k \in Sockets |->
                   IF k = s THEN "connecting" ELSE
                   IF k = ws THEN "disposed" ELSE sock[k]]
    /\ conn' = [k \in Sockets |->
                   IF k = s THEN "await" ELSE
                   IF k = ws /\ conn[k] = "await" THEN "fail" ELSE conn[k]]
    /\ unnoticed' = FALSE

\* InitializeAsync, its HTTP handshake over, connects; whatever that yields,
\* _initTcs is completed when ConnectAsync returns.
InitConnect(s) ==
    /\ boot = "handshake"
    /\ BeginConnect(s)
    /\ boot' = "connecting"
    /\ bootSocket' = s
    /\ UNCHANGED <<closing, isConnected, attempts, timer, loops, inbox,
                   requests, replied, logins>>

\* ConnectAsync resumes after its await.  On success it cancels the token of the
\* previous loop and starts its own, which looks at _ws first.  If the previous
\* loop was already receiving from this socket, cancelling it may abort the
\* socket.  Continuations of older calls run first.
ConnectReturns(s) ==
    /\ conn[s] \in {"ok", "fail"}
    /\ \A k \in 1..(s - 1) : conn[k] \notin {"ok", "fail"}
    /\ conn' = [conn EXCEPT ![s] = "returned"]
    /\ boot' = IF s = bootSocket THEN "done" ELSE boot
    /\ \/ /\ conn[s] = "ok"
          /\ isConnected' = TRUE
          /\ attempts' = 0
          /\ cts' = s
          /\ LET shared == \E l \in Sockets : loop[l] = "receive" /\ on[l] = ws
             IN  \/ /\ loop' = [loop EXCEPT ![s] = IF WsOpen THEN "receive" ELSE "ended"]
                    /\ on' = [on EXCEPT ![s] = ws]
                    /\ unnoticed' = (unnoticed \/ ~WsOpen)
                    /\ UNCHANGED sock
                 \/ /\ WsOpen /\ shared
                    /\ sock' = [sock EXCEPT ![ws] = "lost"]
                    /\ loop' = [loop EXCEPT ![s] = "ended"]
                    /\ unnoticed' = TRUE
                    /\ UNCHANGED on
          /\ UNCHANGED timer
       \/ /\ conn[s] = "fail"
          /\ LinkDown
          /\ UNCHANGED <<attempts, cts, loop, on, sock, unnoticed>>
    /\ UNCHANGED <<bootSocket, ws, closing, taken, inbox, requests, replied,
                   logins>>

TimerFires(s) ==
    /\ timer
    /\ timer' = FALSE
    /\ attempts' = attempts + 1
    /\ BeginConnect(s)
    /\ UNCHANGED <<boot, bootSocket, closing, isConnected, loops, inbox,
                   requests, replied, logins>>

\* ReconnectAsync, called at login: close an open socket first, awaiting it;
\* otherwise connect at once.
Reconnect(s) ==
    /\ logins < MaxLogins
    /\ logins' = logins + 1
    /\ attempts' = 0
    /\ \/ /\ WsOpen
          /\ sock' = [sock EXCEPT ![ws] = "closing"]
          /\ closing' = closing \cup {ws}
          /\ UNCHANGED <<ws, conn, unnoticed>>
       \/ /\ ~WsOpen
          /\ BeginConnect(s)
          /\ UNCHANGED closing
    /\ UNCHANGED <<boot, bootSocket, isConnected, timer, loops, inbox, replied,
                   requests>>

\* CloseAsync has returned or thrown: ReconnectAsync goes on to connect.
CloseReturns(k, s) ==
    /\ k \in closing
    /\ sock[k] # "closing"
    /\ closing' = closing \ {k}
    /\ BeginConnect(s)
    /\ UNCHANGED <<boot, bootSocket, isConnected, attempts, timer, loops,
                   inbox, requests, replied, logins>>

----------------------------------------------------------------------------
(* The receive loop                                                        *)

\* A mutant of LoopTop: one message, then the loop ends.
LoopTopOnce(l) ==
    /\ loop' = [loop EXCEPT ![l] = "ended"]
    /\ UNCHANGED on

\* The top of the while: receive from whatever socket _ws holds, or stop
\* without a word to anyone.
LoopTop(l) ==
    IF WsOpen /\ cts = l
    THEN /\ loop' = [loop EXCEPT ![l] = "receive"]
         /\ on' = [on EXCEPT ![l] = ws]
    ELSE /\ loop' = [loop EXCEPT ![l] = "ended"]
         /\ UNCHANGED on

\* A complete text message arrives; HandleIncomingMessageAsync awaits its
\* decryption.
LoopReceives(l) ==
    /\ loop[l] = "receive"
    /\ sock[on[l]] \in {"open", "closing"}
    /\ \E r \in inbox[on[l]] :
          /\ inbox' = [inbox EXCEPT ![on[l]] = @ \ {r}]
          /\ taken' = [taken EXCEPT ![l] = r]
    /\ loop' = [loop EXCEPT ![l] = "handle"]
    /\ UNCHANGED <<boot, bootSocket, link, closing, cts, on, requests, replied,
                   logins, unnoticed>>

\* The answer is given to its request, if that one still waits, and the loop
\* goes round.
LoopHandled(l) ==
    /\ loop[l] = "handle"
    /\ LET r == taken[l]
       IN  IF r \in pending
           THEN /\ pending' = pending \ {r}
                /\ req' = [req EXCEPT ![r] = "answered"]
           ELSE UNCHANGED <<pending, req>>
    /\ taken' = [taken EXCEPT ![l] = NoRequest]
    /\ LoopTop(l)
    /\ UNCHANGED <<boot, bootSocket, link, closing, cts, inbox, sentOn,
                   replied, logins, unnoticed>>

\* A mutant of LoopCloses: the handler forgets to schedule a reconnect.
LoopClosesForgets(l) ==
    /\ loop[l] = "receive"
    /\ sock[on[l]] = "lost"
    /\ isConnected' = FALSE
    /\ loop' = [loop EXCEPT ![l] = "ended"]
    /\ UNCHANGED <<boot, bootSocket, ws, sock, conn, attempts, timer, closing,
                   cts, on, taken, inbox, requests, replied, logins,
                   unnoticed>>
\* A mutant of LoopCloses: it is taken for a cancellation.
LoopClosesSilently(l) ==
    /\ loop[l] = "receive"
    /\ sock[on[l]] = "lost"
    /\ loop' = [loop EXCEPT ![l] = "ended"]
    /\ UNCHANGED <<boot, bootSocket, link, closing, cts, on, taken, inbox,
                   requests, replied, logins, unnoticed>>

\* ReceiveAsync yields a Close message or throws WebSocketException because the
\* connection is gone.
LoopCloses(l) ==
    /\ loop[l] = "receive"
    /\ sock[on[l]] = "lost"
    /\ LinkDown
    /\ loop' = [loop EXCEPT ![l] = "ended"]
    /\ UNCHANGED <<boot, bootSocket, ws, sock, conn, attempts, closing, cts,
                   on, taken, inbox, requests, replied, logins, unnoticed>>

\* ReceiveAsync throws because its socket was disposed under it: the runtime
\* reports a cancellation (the loop ends silently) or a WebSocketException.
LoopDisposed(l) ==
    /\ loop[l] = "receive"
    /\ sock[on[l]] = "disposed"
    /\ \/ LinkDown
       \/ UNCHANGED <<isConnected, timer>>
    /\ loop' = [loop EXCEPT ![l] = "ended"]
    /\ UNCHANGED <<boot, bootSocket, ws, sock, conn, attempts, closing, cts,
                   on, taken, inbox, requests, replied, logins, unnoticed>>

\* The token was cancelled by a later ConnectAsync.
LoopCancelled(l) ==
    /\ loop[l] = "receive"
    /\ cts # l
    /\ loop' = [loop EXCEPT ![l] = "ended"]
    /\ UNCHANGED <<boot, bootSocket, link, closing, cts, on, taken, inbox,
                   requests, replied, logins, unnoticed>>

----------------------------------------------------------------------------
(* Requests                                                                *)

\* GetAsync and its siblings, once _initTcs is completed: over the socket if the
\* link is up, else over HTTP.  SendWsAsync registers the request at once.
StartRequest(r) ==
    /\ req[r] = "idle"
    /\ boot = "done"
    /\ \/ /\ isConnected /\ WsOpen /\ r \notin HttpOnly
          /\ req' = [req EXCEPT ![r] = "prepare"]
          /\ pending' = pending \cup {r}
       \/ /\ ~(isConnected /\ WsOpen /\ r \notin HttpOnly)
          /\ req' = [req EXCEPT ![r] = "http"]
          /\ UNCHANGED pending
    /\ UNCHANGED <<boot, bootSocket, link, closing, loops, inbox, sentOn,
                   replied, logins, unnoticed>>

Fails(r) ==
    /\ req' = [req EXCEPT ![r] = "failed"]
    /\ pending' = pending \ {r}

\* Body encrypted, header made, lock taken: the request is sent on the socket
\* _ws holds now.  It is sent, or SendAsync throws because the connection is
\* gone (WebSocketException: the link is down) or because the socket is not
\* open, or disposed (the request fails and nothing else).
Send(r) ==
    /\ req[r] = "prepare"
    /\ \/ /\ WsOpen
          /\ req' = [req EXCEPT ![r] = "wait"]
          /\ sentOn' = [sentOn EXCEPT ![r] = ws]
          /\ UNCHANGED <<isConnected, timer, pending>>
       \/ /\ sock[ws] # "connecting"
          /\ Fails(r)
          /\ LinkDown
          /\ UNCHANGED sentOn
       \/ /\ ~WsOpen
          /\ Fails(r)
          /\ UNCHANGED <<isConnected, timer, sentOn>>
    /\ UNCHANGED <<boot, bootSocket, ws, sock, conn, attempts, closing, loops,
                   inbox, replied, logins, unnoticed>>

\* A mutant of Timeout: the entry of the request is left in the dictionary.
TimeoutLeaks(r) ==
    /\ req[r] = "wait"
    /\ req' = [req EXCEPT ![r] = "failed"]
    /\ UNCHANGED <<boot, bootSocket, link, closing, loops, inbox, sentOn,
                   pending, replied, logins, unnoticed>>
\* A mutant of Timeout: it runs only while the connection is up.
TimeoutWhenUp(r) ==
    /\ req[r] = "wait"
    /\ isConnected
    /\ Fails(r)
    /\ UNCHANGED <<boot, bootSocket, link, closing, loops, inbox, sentOn,
                   replied, logins, unnoticed>>

\* WsTimeoutMs passed without an answer.
Timeout(r) ==
    /\ req[r] = "wait"
    /\ Fails(r)
    /\ UNCHANGED <<boot, bootSocket, link, closing, loops, inbox, sentOn,
                   replied, logins, unnoticed>>

\* The caller gets its result: the answer of the socket, or that of HTTP.
Return(r) ==
    /\ req[r] \in {"answered", "http"}
    /\ req' = [req EXCEPT ![r] = "done"]
    /\ UNCHANGED <<boot, bootSocket, link, closing, loops, inbox, sentOn,
                   pending, replied, logins, unnoticed>>

----------------------------------------------------------------------------
(* The network and the server                                              *)

Opens(s) ==
    /\ conn[s] = "await"
    /\ conn' = [conn EXCEPT ![s] = "ok"]
    /\ sock' = [sock EXCEPT ![s] = "open"]
    /\ UNCHANGED <<boot, bootSocket, ws, isConnected, attempts, timer, closing,
                   loops, inbox, requests, replied, logins, unnoticed>>

ConnectFails(s) ==
    /\ conn[s] = "await"
    /\ conn' = [conn EXCEPT ![s] = "fail"]
    /\ sock' = [sock EXCEPT ![s] = "lost"]
    /\ UNCHANGED <<boot, bootSocket, ws, isConnected, attempts, timer, closing,
                   loops, inbox, requests, replied, logins, unnoticed>>

Receiving(s) == cts # 0 /\ loop[cts] = "receive" /\ on[cts] = s

\* The server closes the connection, the close handshake completes, or the
\* network fails.
Lose(s) ==
    /\ sock[s] \in {"open", "closing"}
    /\ sock' = [sock EXCEPT ![s] = "lost"]
    /\ unnoticed' = (unnoticed \/ (s = ws /\ ~Receiving(s)))
    /\ UNCHANGED <<boot, bootSocket, ws, conn, isConnected, attempts, timer,
                   closing, loops, inbox, requests, replied, logins>>

\* The server's answer to a request reaches the socket it was sent on.
Answer(r) ==
    /\ sentOn[r] # 0
    /\ sock[sentOn[r]] = "open"
    /\ r \notin replied
    /\ replied' = replied \cup {r}
    /\ inbox' = [inbox EXCEPT ![sentOn[r]] = @ \cup {r}]
    /\ UNCHANGED <<boot, bootSocket, link, closing, loops, requests, logins,
                   unnoticed>>

----------------------------------------------------------------------------
Next ==
    \/ \E s \in Sockets :
          \/ InitConnect(s)
          \/ ConnectReturns(s)
          \/ TimerFires(s)
          \/ Reconnect(s)
          \/ \E k \in Sockets : CloseReturns(k, s)
          \/ Opens(s)
          \/ ConnectFails(s)
          \/ Lose(s)
    \/ \E l \in Sockets :
          \/ LoopReceives(l)
          \/ LoopHandled(l)
          \/ LoopCloses(l)
          \/ LoopDisposed(l)
          \/ LoopCancelled(l)
    \/ \E r \in Requests :
          \/ StartRequest(r)
          \/ Send(r)
          \/ Timeout(r)
          \/ Return(r)
          \/ Answer(r)

Spec == Init /\ [][Next]_vars

\* The runtime runs every continuation that is due: a request that is prepared
\* is sent or fails, its timer of ten seconds fires, HTTP calls end.  Nothing is
\* assumed of the network, of the server or of the reconnect timer.
RequestFairness ==
    \A r \in Requests : WF_vars(Send(r)) /\ WF_vars(Timeout(r)) /\ WF_vars(Return(r))

FairSpec == Spec /\ RequestFairness

----------------------------------------------------------------------------
(* Properties                                                              *)

Connecting == \E s \in Sockets : conn[s] \in {"await", "ok", "fail"}

\* _pendingRequests holds exactly the calls that still wait for an answer: a
\* call that timed out, lost its socket or was answered leaves no entry behind.
PendingOnlyLive == pending = {r \in Requests : req[r] \in {"prepare", "wait"}}

\* Overlapping ConnectAsync calls (timer, login, start) never leave a second
\* socket open or connecting beside the one in _ws: nobody would ever read from
\* it or dispose it.
OneOpenSocket ==
    \A s \in Sockets \ {ws} : sock[s] \notin {"connecting", "open", "closing"}

\* Once started, a client that knows its link is down is on its way to a new one:
\* the timer is armed, a ConnectAsync or a ReconnectAsync is under way, or the
\* MaxReconnectAttempts are used up.
DownMeansRetrying ==
    boot = "done" /\ ~isConnected =>
        timer \/ Connecting \/ closing # {} \/ attempts = MaxAttempts

\* When the link is up and no call is busy on it, some live receive loop reads
\* from the open socket or will read from it next: answers are not left unread.
NeverDeaf ==
    isConnected /\ WsOpen /\ ~Connecting =>
        \E l \in Sockets : /\ cts = l
                          /\ \/ loop[l] = "receive" /\ on[l] = ws
                             \/ loop[l] = "handle"

\* A socket lost while the live loop was receiving from it is always taken notice of:
\* _isConnected does not stay set with nothing under way that would reset it.
LossNoticed ==
    isConnected /\ ws # 0 /\ sock[ws] = "lost" /\ ~unnoticed =>
        \/ Receiving(ws)
        \/ timer \/ Connecting \/ closing # {}

\* Overlapping calls of ConnectAsync and of GetAsync and its siblings keep the client's
\* books: one socket, and an entry for each call that waits and for no other.
BooksKept ==
    /\ TypeOK
    /\ OneOpenSocket
    /\ PendingOnlyLive

\* A link that counts as up is read, or its loss is about to be noticed.
LinkWatched ==
    /\ NeverDeaf
    /\ LossNoticed

\* Every call of GetAsync and its siblings gets a result in the end, whatever
\* happens to the socket, to the server and to the answer.
EveryRequestReturns ==
    \A r \in Requests :
        req[r] \in {"http", "prepare", "wait", "answered"}
            ~> req[r] \in {"done", "failed"}

\* "If WS is NOT connected, ALL requests via HTTP" (the rule above GetAsync): a
\* call that gets no result at least went out on a connection.
LostRequestsFallBack == \A r \in Requests : req[r] = "failed" => sentOn[r] # 0
============================================================================
