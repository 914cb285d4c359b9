------------------------------ MODULE WsServer ------------------------------
(***************************************************************************)
(* The server's end of the link: WebSocketHandler.cs and the dictionary of *)
(* ConnectionManager.cs.  HandleAsync is a loop per connection that starts *)
(* ProcessMessageAsync for each message and does not await it, so calls of *)
(* one connection overlap, and go on when their connection is gone.  A     *)
(* method runs without interruption from one await to the next.            *)
(*                                                                         *)
(* The clients and the network are the environment: a client sends calls   *)
(* on a connection, gives each up after its timeout (CommunicationService. *)
(* cs:373), closes the connection or goes away.  The words of a message,   *)
(* its encryption and what an entity's service does with the database are  *)
(* left out: a call is of one of the kinds below.                          *)
(***************************************************************************)
EXTENDS Naturals, Sequences

CONSTANTS
    Requests,        \* calls, a new Guid for each
    Close,           \* the close frame
    Askable(_),      \* what a call may be
    MaxConnections   \* bound on the connections

ASSUME WsAssumption ==
    /\ Close \notin Requests
    /\ MaxConnections \in Nat \ {0}

\* Numbered in the order they come; each has a Guid in the code.
Connections == 1..MaxConnections
None == 0

VARIABLES
    link,      \* each connection, as its client sees it
    wire,      \* what the client sent and the server has not received
    loop,      \* HandleAsync of each connection
    registry,  \* _connections
    asked,     \* the connection a call was sent on
    call,      \* what the call is
    step,      \* ProcessMessageAsync of each call
    reply,     \* the response it is about to send
    answers,   \* answers on their way, per connection
    told,      \* what each caller knows
    done       \* the calls that were carried out

wires == <<link, wire, answers>>
serving == <<loop, registry>>
calls == <<asked, call, told>>
processing == <<step, reply, done>>
wsVars == <<wires, serving, calls, processing>>

(* How a message comes.  "long" exceeds the buffer of 64 KB, so that its first part is
   not the end of the message; "broken" is no JSON; "empty" names no action. *)
Forms == {"whole", "long", "broken", "empty"}

Sessions == {"none", "valid", "invalid"}  \* request.Auth

(* What is asked for.  "served" has a method that takes the data; "absent" has no
   service or no such method (InsertAsync of products: theirs is CreateAsync); the
   UpdateAsync of "mismatched" takes the id as an argument of its own, which the
   handler does not give. *)
Kinds == {"handshake", "served", "absent", "mismatched"}

\* The session is looked at only if the message is whole and no handshake, the kind
\* only if it is whole.
CallsAsked ==
    {asking \in [form : Forms, auth : Sessions, kind : Kinds] :
        /\ asking.form # "whole" => asking.kind = "served"
        /\ asking.form # "whole" \/ asking.kind = "handshake" => asking.auth = "none"}

Answers == {"success", "refused", "error", "nameless"}

WsTypeOK ==
    /\ link \in [Connections -> {"unused", "open", "closing", "closed", "lost"}]
    /\ wire \in [Connections -> Seq(Requests \cup {Close})]
    /\ loop \in [Connections -> {"none", "receive", "rest", "close", "ended"}]
    /\ registry \subseteq Connections
    /\ asked \in [Requests -> Connections \cup {None}]
    /\ call \in [Requests -> CallsAsked]
    /\ step \in [Requests -> {"none", "session", "service", "send", "over"}]
    /\ reply \in [Requests -> Answers \cup {"none"}]
    /\ answers \in [Connections -> SUBSET (Requests \X Answers)]
    /\ told \in [Requests -> {"idle", "waiting", "success", "refused", "error", "gaveup"}]
    /\ done \subseteq Requests

NoCall == [form |-> "whole", auth |-> "none", kind |-> "served"]

WsInit ==
    /\ link = [c \in Connections |-> "unused"]
    /\ wire = [c \in Connections |-> <<>>]
    /\ loop = [c \in Connections |-> "none"]
    /\ registry = {}
    /\ asked = [r \in Requests |-> None]
    /\ call = [r \in Requests |-> NoCall]
    /\ step = [r \in Requests |-> "none"]
    /\ reply = [r \in Requests |-> "none"]
    /\ answers = [c \in Connections |-> {}]
    /\ told = [r \in Requests |-> "idle"]
    /\ done = {}
-----------------------------------------------------------------------------
(* Clients and the network. *)

\* HandleAsync up to its first ReceiveAsync: the upgrade is accepted and registered.
Connect(c) ==
    /\ {k \in Connections : link[k] # "unused"} = 1..(c - 1)
    /\ link' = [link EXCEPT ![c] = "open"]
    /\ loop' = [loop EXCEPT ![c] = "receive"]
    /\ registry' = registry \cup {c}
    /\ UNCHANGED <<wire, answers, calls, processing>>

AskOn(r, c) ==
    /\ told[r] = "idle"
    /\ link[c] = "open"
    /\ told' = [told EXCEPT ![r] = "waiting"]
    /\ asked' = [asked EXCEPT ![r] = c]
    /\ \E asking \in CallsAsked \cap Askable(r) : call' = [call EXCEPT ![r] = asking]
    /\ wire' = [wire EXCEPT ![c] = Append(@, r)]
    /\ UNCHANGED <<link, answers, serving, processing>>

\* An answer arrives; one without id finds no pending call.
Hear(c, r, answer) ==
    /\ link[c] = "open"
    /\ <<r, answer>> \in answers[c]
    /\ answers' = [answers EXCEPT ![c] = @ \ {<<r, answer>>}]
    /\ told' = IF told[r] = "waiting" /\ answer # "nameless"
               THEN [told EXCEPT ![r] = answer] ELSE told
    /\ UNCHANGED <<link, wire, serving, asked, call, processing>>

GiveUp(r) ==
    /\ told[r] = "waiting"
    /\ told' = [told EXCEPT ![r] = "gaveup"]
    /\ UNCHANGED <<wires, serving, asked, call, processing>>

\* The client closes: it hears no more answers.
ClientCloses(c) ==
    /\ link[c] = "open"
    /\ link' = [link EXCEPT ![c] = "closing"]
    /\ wire' = [wire EXCEPT ![c] = Append(@, Close)]
    /\ UNCHANGED <<answers, serving, calls, processing>>

\* The connection is lost, with all that is on its way.
Lose(c) ==
    /\ link[c] \in {"open", "closing"}
    /\ link' = [link EXCEPT ![c] = "lost"]
    /\ wire' = [wire EXCEPT ![c] = <<>>]
    /\ answers' = [answers EXCEPT ![c] = {}]
    /\ UNCHANGED <<serving, calls, processing>>
-----------------------------------------------------------------------------
(* ProcessMessageAsync and RouteActionAsync. *)

GoTo(r, next, with) ==
    /\ step' = [step EXCEPT ![r] = next]
    /\ reply' = [reply EXCEPT ![r] = with]

\* Mutant: there is no response for what is not known.
DispatchKnown(r) ==
    IF call[r].kind \in {"absent", "mismatched"} THEN GoTo(r, "send", "none")
    ELSE GoTo(r, "service", "none")

\* The automatic handlers: a service and a method that fits, or none.
Dispatch(r) ==
    CASE call[r].kind = "absent" -> GoTo(r, "send", "refused")
      [] call[r].kind = "mismatched" -> GoTo(r, "send", "error")
      [] OTHER -> GoTo(r, "service", "none")

\* Until the first await.
Process(r) ==
    CASE call[r].form = "broken" -> GoTo(r, "send", "nameless")
      [] call[r].form = "empty" -> GoTo(r, "send", "refused")
      [] call[r].form = "whole" ->
           IF call[r].kind = "handshake" THEN GoTo(r, "service", "none")
           ELSE IF call[r].auth # "none" THEN GoTo(r, "session", "none")
           ELSE Dispatch(r)

\* Mutant: the session is validated, and the call goes on in any case.
SessionLookedAt(r) ==
    /\ step[r] = "session"
    /\ Dispatch(r)
    /\ UNCHANGED <<wires, serving, calls, done>>

\* RequiresSession: the header was validated.
SessionChecked(r) ==
    /\ step[r] = "session"
    /\ IF call[r].auth = "valid" THEN Dispatch(r) ELSE GoTo(r, "send", "refused")
    /\ UNCHANGED <<wires, serving, calls, done>>

\* Mutant: the handler does not await the service.
ServeUnawaited(r) ==
    /\ step[r] = "service"
    /\ \E answer \in {"success", "error"} : GoTo(r, "send", answer)
    /\ done' \in {done, done \cup {r}}
    /\ UNCHANGED <<wires, serving, calls>>

\* The service is through, or throws, before or after the database did its part.
Serve(r) ==
    /\ step[r] = "service"
    /\ \E answer \in {"success", "error"} :
         /\ GoTo(r, "send", answer)
         /\ done' \in IF answer = "success" THEN {done \cup {r}} ELSE {done, done \cup {r}}
    /\ UNCHANGED <<wires, serving, calls>>

\* The state of the socket as the server knows it.
Open(c) == c \in registry /\ loop[c] \in {"receive", "rest"}

\* Mutant: the answer goes to any connection that is open.
SendAnywhere(r) ==
    /\ step[r] = "send"
    /\ \E c \in Connections :
         answers' = IF Open(c) /\ link[c] = "open"
                    THEN [answers EXCEPT ![c] = @ \cup {<<r, reply[r]>>}] ELSE answers
    /\ GoTo(r, "over", "none")
    /\ UNCHANGED <<link, wire, serving, calls, done>>

\* SendToConnectionAsync: nothing happens if the connection is gone or closing.
Send(r) ==
    /\ step[r] = "send"
    /\ answers' = IF Open(asked[r]) /\ link[asked[r]] = "open"
                  THEN [answers EXCEPT ![asked[r]] = @ \cup {<<r, reply[r]>>}]
                  ELSE answers
    /\ GoTo(r, "over", "none")
    /\ UNCHANGED <<link, wire, serving, calls, done>>
-----------------------------------------------------------------------------
(* HandleAsync. *)

Received(c) == wire' = [wire EXCEPT ![c] = Tail(@)]

\* A message that ends with its first part is processed; the loop does not wait.
ReceiveMessage(c) ==
    /\ loop[c] = "receive"
    /\ wire[c] # <<>>
    /\ Head(wire[c]) # Close
    /\ call[Head(wire[c])].form # "long"
    /\ Received(c)
    /\ Process(Head(wire[c]))
    /\ UNCHANGED <<link, answers, serving, calls, done>>

\* A longer one is read to its end, and dropped.
ReceivePart(c) ==
    /\ loop[c] = "receive"
    /\ wire[c] # <<>>
    /\ Head(wire[c]) # Close
    /\ call[Head(wire[c])].form = "long"
    /\ loop' = [loop EXCEPT ![c] = "rest"]
    /\ UNCHANGED <<wires, registry, calls, processing>>

\* Mutant: after a long message the loop is left.
ReceiveRestOnly(c) ==
    /\ loop[c] = "rest"
    /\ wire[c] # <<>>
    /\ Received(c)
    /\ UNCHANGED <<link, answers, serving, calls, processing>>

\* ReceiveFullMessageAsync.
ReceiveRest(c) ==
    /\ loop[c] = "rest"
    /\ wire[c] # <<>>
    /\ Received(c)
    /\ loop' = [loop EXCEPT ![c] = "receive"]
    /\ UNCHANGED <<link, answers, registry, calls, processing>>

\* The close frame: the answers that are still to come are not sent.
ReceiveClose(c) ==
    /\ loop[c] = "receive"
    /\ wire[c] # <<>>
    /\ Head(wire[c]) = Close
    /\ Received(c)
    /\ loop' = [loop EXCEPT ![c] = "close"]
    /\ UNCHANGED <<link, answers, registry, calls, processing>>

\* Mutant: the connection is removed after a close only.
EndHandlerAtClose(c) ==
    /\ loop' = [loop EXCEPT ![c] = "ended"]
    /\ registry' = IF loop[c] = "close" THEN registry \ {c} ELSE registry

\* The finally block.
EndHandler(c) ==
    /\ loop' = [loop EXCEPT ![c] = "ended"]
    /\ registry' = registry \ {c}

\* CloseAsync sent the answering frame.
Closed(c) ==
    /\ loop[c] = "close"
    /\ link[c] = "closing"
    /\ EndHandler(c)
    /\ link' = [link EXCEPT ![c] = "closed"]
    /\ UNCHANGED <<wire, answers, calls, processing>>

\* ReceiveAsync or CloseAsync throws: the connection is lost.
Breaks(c) ==
    /\ loop[c] \in {"receive", "rest", "close"}
    /\ link[c] = "lost"
    /\ EndHandler(c)
    /\ UNCHANGED <<wires, calls, processing>>

\* The server stops and starts anew: connections and calls in progress are gone,
\* what the database has stays.
Restart ==
    /\ link' = [c \in Connections |-> IF link[c] \in {"open", "closing"} THEN "lost" ELSE link[c]]
    /\ loop' = [c \in Connections |-> IF loop[c] = "none" THEN "none" ELSE "ended"]
    /\ registry' = {}
    /\ wire' = [c \in Connections |-> <<>>]
    /\ answers' = [c \in Connections |-> {}]
    /\ step' = [r \in Requests |-> IF step[r] = "none" THEN "none" ELSE "over"]
    /\ reply' = [r \in Requests |-> "none"]
    /\ UNCHANGED <<calls, done>>

Handle(c) ==
    \/ ReceiveMessage(c)
    \/ ReceivePart(c)
    \/ ReceiveRest(c)
    \/ ReceiveClose(c)
    \/ Closed(c)
    \/ Breaks(c)

Proceed(r) ==
    \/ SessionChecked(r)
    \/ Serve(r)
    \/ Send(r)

WsNext ==
    \/ \E c \in Connections : \/ Connect(c)
                              \/ ClientCloses(c)
                              \/ Lose(c)
                              \/ Handle(c)
    \/ \E r \in Requests : \/ \E c \in Connections : AskOn(r, c)
                           \/ \E c \in Connections, a \in Answers : Hear(c, r, a)
                           \/ GiveUp(r)
                           \/ Proceed(r)
    \/ Restart

\* The loops and the calls run on, the services and the network answer or fail.
WsFair ==
    /\ \A c \in Connections : WF_wsVars(Handle(c))
    /\ \A r \in Requests : WF_wsVars(Proceed(r))
    /\ WF_wsVars(\E c \in Connections : \E m \in answers[c] : Hear(c, m[1], m[2]))

WsSpec == WsInit /\ [][WsNext]_wsVars /\ WsFair
-----------------------------------------------------------------------------
(* Properties. *)

\* An answer is only ever on its way on the connection its call came by, whichever
\* connections come, go and overlap meanwhile (SendAsync, WebSocketHandler.cs:186).
AnswersReturn ==
    \A c \in Connections : \A answer \in answers[c] : asked[answer[1]] = c

\* A connection is registered exactly while its loop runs: none is forgotten while
\* it is served, none is kept when its client vanished (WebSocketHandler.cs:86).
RegistryExact ==
    \A c \in Connections : c \in registry <=> loop[c] \in {"receive", "rest", "close"}

\* A call whose session the server refuses is never carried out, however far other
\* calls of the connection are (WebSocketHandler.cs:220-225).
RefusedSessionServesNothing ==
    \A r \in done : call[r].kind = "handshake" \/ call[r].auth # "invalid"

\* Each call is carried out at most once and told of truthfully.
ServesCalls == INSTANCE RemoteCalls
ServesAsPromised == ServesCalls!CallsSpec

\* A call that comes in one part is told of while its connection is there, whatever
\* long messages come before it, unless the caller gives up first.
CallsSettle ==
    \A r \in Requests :
        told[r] = "waiting" /\ call[r].form \in {"whole", "empty"}
            ~> \/ told[r] \in {"success", "refused", "error"}
               \/ \E c \in Connections : asked[r] = c /\ link[c] # "open"
               \/ told[r] = "gaveup"

\* The handler of a connection that is closed or lost ends, and takes the connection
\* out of the dictionary.
HandlersEnd == \A c \in Connections : link[c] \in {"closing", "lost"} ~> c \notin registry

\* The loops, the dictionary and the answers on their way agree on which connections
\* there are, at any overlap of calls, closings and losses.
ConnectionsSafe ==
    /\ WsTypeOK
    /\ RegistryExact
    /\ AnswersReturn

\* Callers and connections both come to their end.
WsSettles ==
    /\ CallsSettle
    /\ HandlersEnd
=============================================================================
