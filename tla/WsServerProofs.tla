--------------------------- MODULE WsServerProofs ----------------------------
(***************************************************************************)
(* The server's end of the link keeps its books, serves no call under a    *)
(* refused session and implements RemoteCalls, for any number of calls and *)
(* connections and whatever a call may be.                                 *)
(***************************************************************************)
EXTENDS WsServer, TLAPS

\* A call is on the wire of the connection it was asked on, once, and has not been
\* processed.
OnWireOnce ==
    \A c \in Connections : \A i \in 1..Len(wire[c]) : wire[c][i] # Close =>
        /\ asked[wire[c][i]] = c
        /\ step[wire[c][i]] = "none"
        /\ \A j \in 1..Len(wire[c]) : wire[c][j] = wire[c][i] => j = i

\* A call that was not made is nowhere.
UnaskedNowhere == \A r \in Requests : told[r] = "idle" => asked[r] = None /\ step[r] = "none"

\* Nothing is carried out before the service was called.
NotYetDone == \A r \in Requests : step[r] \in {"none", "session", "service"} => r \notin done

\* Nobody is told anything of a call that is in progress.
NotYetTold ==
    \A r \in Requests : step[r] # "over" =>
        /\ told[r] \in {"idle", "waiting", "gaveup"}
        /\ \A c \in Connections : \A m \in answers[c] : m[1] # r

\* What an answer says of its call.
Truthful(r, answer) ==
    /\ answer \in Answers
    /\ answer = "success" => r \in done
    /\ answer = "refused" => r \notin done

AnswersTruthful ==
    /\ \A r \in Requests : step[r] = "send" => Truthful(r, reply[r])
    /\ \A c \in Connections : \A m \in answers[c] : Truthful(m[1], m[2])

Admissible(r) == call[r].kind = "handshake" \/ call[r].auth # "invalid"

ServedAdmissible == \A r \in Requests : step[r] = "service" => Admissible(r)

WsInv ==
    /\ WsTypeOK
    /\ RegistryExact
    /\ AnswersReturn
    /\ OnWireOnce
    /\ UnaskedNowhere
    /\ NotYetDone
    /\ NotYetTold
    /\ AnswersTruthful
    /\ ServedAdmissible
    /\ RefusedSessionServesNothing
-----------------------------------------------------------------------------
(* Lemmas. *)

LEMMA NoneIsNoConnection == None \notin Connections
  BY WsAssumption DEF None, Connections

\* What is left when the first message was received: the rest, one place ahead.
LEMMA RestOfWire ==
    ASSUME NEW S, NEW q \in Seq(S), q # <<>>
    PROVE  /\ Head(q) = q[1] /\ q[1] \in S /\ 1 \in 1..Len(q)
           /\ Tail(q) \in Seq(S)
           /\ Len(Tail(q)) = Len(q) - 1
           /\ \A i \in 1..Len(Tail(q)) : i + 1 \in 1..Len(q) /\ Tail(q)[i] = q[i + 1]
  OBVIOUS

\* ProcessMessageAsync up to its first await: where a message goes.
LEMMA ProcessGoes ==
    ASSUME WsTypeOK, NEW r \in Requests, call[r].form # "long", Process(r)
    PROVE  \E next \in {"session", "service", "send"}, with \in Answers \cup {"none"} :
              /\ GoTo(r, next, with)
              /\ next = "send" => with \in {"nameless", "refused", "error"}
              /\ next = "service" => Admissible(r)
  <1>1. /\ call[r].form \in Forms
        /\ call[r].auth \in Sessions
    BY DEF WsTypeOK, CallsAsked
  <1>2. CASE call[r].form = "broken"
    <2>1. GoTo(r, "send", "nameless")
      BY <1>2 DEF Process
    <2> QED
      BY <2>1 DEF Answers
  <1>3. CASE call[r].form = "empty"
    <2>1. GoTo(r, "send", "refused")
      BY <1>3 DEF Process
    <2> QED
      BY <2>1 DEF Answers
  <1>4. CASE call[r].form = "whole"
    <2>1. CASE call[r].kind = "handshake"
      <3>1. GoTo(r, "service", "none")
        BY <1>4, <2>1 DEF Process
      <3> QED
        BY <2>1, <3>1 DEF Admissible
    <2>2. CASE call[r].kind # "handshake" /\ call[r].auth # "none"
      <3>1. GoTo(r, "session", "none")
        BY <1>4, <2>2 DEF Process
      <3> QED
        BY <3>1
    <2>3. CASE call[r].kind # "handshake" /\ call[r].auth = "none"
      <3>1. Dispatch(r)
        BY <1>4, <2>3 DEF Process
      <3>2. \/ GoTo(r, "send", "refused")
            \/ GoTo(r, "send", "error")
            \/ GoTo(r, "service", "none")
        BY <3>1 DEF Dispatch
      <3> QED
        BY <2>3, <3>2 DEF Answers, Admissible
    <2> QED
      BY <2>1, <2>2, <2>3
  <1> QED
    BY <1>1, <1>2, <1>3, <1>4 DEF Forms
-----------------------------------------------------------------------------
(* The invariant, action by action. *)

LEMMA WsInvInit == WsInit => WsInv
  <1> SUFFICES ASSUME WsInit PROVE WsInv
    OBVIOUS
  <1> USE DEF WsInit
  <1>1. WsTypeOK
    <2>1. NoCall \in CallsAsked
      BY DEF NoCall, CallsAsked, Forms, Sessions, Kinds
    <2> QED
      BY <2>1 DEF WsTypeOK, None
  <1>2. RegistryExact /\ AnswersReturn /\ OnWireOnce
    BY DEF RegistryExact, AnswersReturn, OnWireOnce
  <1>3. UnaskedNowhere /\ NotYetDone /\ NotYetTold
    BY DEF UnaskedNowhere, NotYetDone, NotYetTold
  <1>4. AnswersTruthful /\ ServedAdmissible /\ RefusedSessionServesNothing
    BY DEF AnswersTruthful, ServedAdmissible, RefusedSessionServesNothing
  <1> QED
    BY <1>1, <1>2, <1>3, <1>4 DEF WsInv

\* Steps of the network and of the loops that touch neither calls nor their processing
\* and put nothing on a wire.
LEMMA ConnectPreserves ==
    ASSUME WsInv, NEW c \in Connections, Connect(c)
    PROVE  WsInv'
  <1> USE DEF WsInv, Connect, calls, processing
  <1>1. WsTypeOK'
    BY DEF WsTypeOK
  <1>2. RegistryExact' /\ AnswersReturn' /\ OnWireOnce'
    BY DEF WsTypeOK, RegistryExact, AnswersReturn, OnWireOnce
  <1>3. UnaskedNowhere' /\ NotYetDone' /\ NotYetTold'
    BY DEF UnaskedNowhere, NotYetDone, NotYetTold
  <1>4. AnswersTruthful' /\ ServedAdmissible' /\ RefusedSessionServesNothing'
    BY DEF AnswersTruthful, Truthful, ServedAdmissible, Admissible, RefusedSessionServesNothing
  <1> QED
    BY <1>1, <1>2, <1>3, <1>4

LEMMA AskPreserves ==
    ASSUME WsInv, NEW r \in Requests, NEW c \in Connections, AskOn(r, c)
    PROVE  WsInv'
  <1>1. /\ told[r] = "idle"
        /\ told' = [told EXCEPT ![r] = "waiting"]
        /\ asked' = [asked EXCEPT ![r] = c]
        /\ wire' = [wire EXCEPT ![c] = Append(@, r)]
        /\ UNCHANGED <<link, answers, loop, registry, step, reply, done>>
    BY DEF AskOn, serving, processing
  <1>2. PICK asking \in CallsAsked : call' = [call EXCEPT ![r] = asking]
    BY DEF AskOn
  <1>3. asked[r] = None /\ step[r] = "none" /\ r \notin done
    BY <1>1 DEF WsInv, UnaskedNowhere, NotYetDone
  <1>4. /\ asked'[r] = c /\ told'[r] = "waiting"
        /\ \A k \in Requests \ {r} : asked'[k] = asked[k] /\ told'[k] = told[k] /\ call'[k] = call[k]
    BY <1>1, <1>2 DEF WsInv, WsTypeOK
  <1>5. WsTypeOK'
    BY <1>1, <1>2 DEF WsInv, WsTypeOK
  <1>6. RegistryExact' /\ NotYetDone'
    BY <1>1 DEF WsInv, RegistryExact, NotYetDone
  <1>7. AnswersReturn'
    BY <1>1, <1>3, <1>4, NoneIsNoConnection DEF WsInv, AnswersReturn, WsTypeOK
  <1>8. OnWireOnce'
    <2>1. \A k \in Connections : \A i \in 1..Len(wire[k]) : wire[k][i] # r
      BY <1>3, NoneIsNoConnection, WsAssumption DEF WsInv, OnWireOnce
    <2>2. ASSUME NEW k \in Connections, NEW i \in 1..Len(wire'[k]), wire'[k][i] # Close
          PROVE  /\ asked'[wire'[k][i]] = k
                 /\ step'[wire'[k][i]] = "none"
                 /\ \A j \in 1..Len(wire'[k]) : wire'[k][j] = wire'[k][i] => j = i
      <3>1. wire[k] \in Seq(Requests \cup {Close})
        BY DEF WsInv, WsTypeOK
      <3>2. CASE k # c
        <4>1. wire'[k] = wire[k]
          BY <1>1, <3>2 DEF WsInv, WsTypeOK
        <4>2. wire[k][i] \in Requests \ {r}
          BY <2>1, <2>2, <3>1, <4>1
        <4>3. /\ asked[wire[k][i]] = k
              /\ step[wire[k][i]] = "none"
              /\ \A j \in 1..Len(wire[k]) : wire[k][j] = wire[k][i] => j = i
          BY <2>2, <4>1 DEF WsInv, OnWireOnce
        <4> QED
          BY <1>1, <1>4, <4>1, <4>2, <4>3
      <3>3. CASE k = c
        <4>1. wire'[k] = Append(wire[k], r)
          BY <1>1, <3>3 DEF WsInv, WsTypeOK
        <4>2. /\ Len(wire'[k]) = Len(wire[k]) + 1
              /\ wire'[k][Len(wire[k]) + 1] = r
              /\ \A j \in 1..Len(wire[k]) : wire'[k][j] = wire[k][j] /\ wire[k][j] \in Requests \cup {Close}
          BY <3>1, <4>1
        <4>3. CASE i = Len(wire[k]) + 1
          BY <1>1, <1>3, <1>4, <2>1, <3>1, <3>3, <4>2, <4>3
        <4>4. CASE i \in 1..Len(wire[k])
          <5>1. wire'[k][i] = wire[k][i] /\ wire[k][i] \in Requests \ {r}
            BY <2>1, <2>2, <4>2, <4>4
          <5>2. \A j \in 1..Len(wire'[k]) : wire'[k][j] = wire'[k][i] => j = i
            BY <2>2, <3>1, <4>2, <4>4, <5>1 DEF WsInv, OnWireOnce
          <5> QED
            BY <1>1, <1>4, <2>2, <4>4, <5>1, <5>2 DEF WsInv, OnWireOnce
        <4> QED
          BY <3>1, <4>2, <4>3, <4>4
      <3> QED
        BY <3>2, <3>3
    <2> QED
      BY <2>2 DEF OnWireOnce
  <1>9. UnaskedNowhere' /\ NotYetTold'
    BY <1>1, <1>4 DEF WsInv, UnaskedNowhere, NotYetTold
  <1>10. AnswersTruthful' /\ ServedAdmissible' /\ RefusedSessionServesNothing'
    <2>1. AnswersTruthful'
      BY <1>1 DEF WsInv, AnswersTruthful, Truthful
    <2>2. ServedAdmissible'
      BY <1>1, <1>3, <1>4 DEF WsInv, ServedAdmissible, Admissible
    <2>3. RefusedSessionServesNothing'
      BY <1>1, <1>3, <1>4 DEF WsInv, RefusedSessionServesNothing, WsTypeOK
    <2> QED
      BY <2>1, <2>2, <2>3
  <1> QED
    BY <1>5, <1>6, <1>7, <1>8, <1>9, <1>10 DEF WsInv

\* What is still on the wires after the first message of one was received.
LEMMA ReceivedLeaves ==
    ASSUME WsInv, NEW c \in Connections, wire[c] # <<>>, Received(c),
           NEW k \in Connections, NEW i \in 1..Len(wire'[k]), wire'[k][i] # Close
    PROVE  /\ wire'[k][i] \in Requests
           /\ wire'[k][i] # wire[c][1]
           /\ asked[wire'[k][i]] = k
           /\ step[wire'[k][i]] = "none"
           /\ \A j \in 1..Len(wire'[k]) : wire'[k][j] = wire'[k][i] => j = i
  <1>1. wire[c] \in Seq(Requests \cup {Close}) /\ wire[k] \in Seq(Requests \cup {Close})
    BY DEF WsInv, WsTypeOK
  <1>2. OnWireOnce
    BY DEF WsInv
  <1>3. CASE k # c
    <2>1. wire'[k] = wire[k]
      BY <1>3 DEF Received, WsInv, WsTypeOK
    <2>2. wire[k][i] \in Requests \cup {Close}
      BY <1>1, <2>1
    <2>3. /\ asked[wire[k][i]] = k
          /\ step[wire[k][i]] = "none"
          /\ \A j \in 1..Len(wire[k]) : wire[k][j] = wire[k][i] => j = i
      BY <1>2, <2>1 DEF OnWireOnce
    <2>4. wire[c][1] # Close => asked[wire[c][1]] = c
      BY <1>1, <1>2 DEF OnWireOnce
    <2> QED
      BY <1>3, <2>1, <2>2, <2>3, <2>4
  <1>4. CASE k = c
    <2>1. wire'[c] = Tail(wire[c])
      BY DEF Received, WsInv, WsTypeOK
    <2>2. i + 1 \in 1..Len(wire[c]) /\ wire'[c][i] = wire[c][i + 1]
      BY <1>1, <1>4, <2>1, RestOfWire
    <2>3. /\ asked[wire[c][i + 1]] = c
          /\ step[wire[c][i + 1]] = "none"
          /\ \A j \in 1..Len(wire[c]) : wire[c][j] = wire[c][i + 1] => j = i + 1
      BY <1>2, <1>4, <2>2 DEF OnWireOnce
    <2>4. \A j \in 1..Len(wire'[c]) : j + 1 \in 1..Len(wire[c]) /\ wire'[c][j] = wire[c][j + 1]
      BY <1>1, <2>1, RestOfWire
    <2>5. wire[c][1] # wire[c][i + 1]
      BY <1>1, <1>4, <2>2, <2>3
    <2>6. ASSUME NEW j \in 1..Len(wire'[c]), wire'[c][j] = wire'[c][i]
          PROVE  j = i
      <3>1. j + 1 = i + 1
        BY <2>2, <2>3, <2>4, <2>6
      <3> QED
        BY <1>4, <3>1
    <2>7. wire[c][i + 1] \in Requests
      BY <1>1, <1>4, <2>2
    <2> QED
      BY <1>4, <2>2, <2>3, <2>5, <2>6, <2>7
  <1> QED
    BY <1>3, <1>4

LEMMA HearPreserves ==
    ASSUME WsInv, NEW c \in Connections, NEW r \in Requests, NEW answer \in Answers,
           Hear(c, r, answer)
    PROVE  WsInv'
  <1>1. /\ <<r, answer>> \in answers[c]
        /\ answers' = [answers EXCEPT ![c] = @ \ {<<r, answer>>}]
        /\ UNCHANGED <<link, wire, loop, registry, asked, call, step, reply, done>>
    BY DEF Hear, serving, processing
  <1>2. told' = told \/ (told[r] = "waiting" /\ answer # "nameless" /\ told' = [told EXCEPT ![r] = answer])
    BY DEF Hear
  <1>3. step[r] = "over"
    BY <1>1 DEF WsInv, NotYetTold
  <1>4. /\ \A k \in Requests \ {r} : told'[k] = told[k]
        /\ told'[r] = "idle" => told[r] = "idle"
        /\ \A k \in Connections : answers'[k] \subseteq answers[k]
    BY <1>1, <1>2 DEF WsInv, WsTypeOK, Answers
  <1>5. WsTypeOK'
    BY <1>1, <1>2 DEF WsInv, WsTypeOK, Answers
  <1>6. RegistryExact' /\ OnWireOnce' /\ NotYetDone'
    BY <1>1 DEF WsInv, RegistryExact, OnWireOnce, NotYetDone
  <1>7. AnswersReturn' /\ UnaskedNowhere' /\ NotYetTold'
    BY <1>1, <1>3, <1>4 DEF WsInv, AnswersReturn, UnaskedNowhere, NotYetTold
  <1>8. AnswersTruthful' /\ ServedAdmissible' /\ RefusedSessionServesNothing'
    BY <1>1, <1>4 DEF WsInv, AnswersTruthful, Truthful, ServedAdmissible, Admissible,
                       RefusedSessionServesNothing
  <1> QED
    BY <1>5, <1>6, <1>7, <1>8 DEF WsInv

LEMMA GiveUpPreserves ==
    ASSUME WsInv, NEW r \in Requests, GiveUp(r)
    PROVE  WsInv'
  <1>1. /\ told[r] = "waiting"
        /\ told' = [told EXCEPT ![r] = "gaveup"]
        /\ UNCHANGED <<link, wire, answers, loop, registry, asked, call, step, reply, done>>
    BY DEF GiveUp, wires, serving, processing
  <1>2. told'[r] = "gaveup" /\ \A k \in Requests \ {r} : told'[k] = told[k]
    BY <1>1 DEF WsInv, WsTypeOK
  <1>3. WsTypeOK'
    BY <1>1 DEF WsInv, WsTypeOK
  <1>4. UnaskedNowhere' /\ NotYetTold'
    BY <1>1, <1>2 DEF WsInv, UnaskedNowhere, NotYetTold
  <1>5. RegistryExact' /\ AnswersReturn' /\ OnWireOnce' /\ NotYetDone'
    BY <1>1 DEF WsInv, RegistryExact, AnswersReturn, OnWireOnce, NotYetDone
  <1>6. AnswersTruthful' /\ ServedAdmissible' /\ RefusedSessionServesNothing'
    BY <1>1 DEF WsInv, AnswersTruthful, Truthful, ServedAdmissible, Admissible,
                RefusedSessionServesNothing
  <1> QED
    BY <1>3, <1>4, <1>5, <1>6 DEF WsInv

LEMMA ClosePreserves ==
    ASSUME WsInv, NEW c \in Connections, ClientCloses(c)
    PROVE  WsInv'
  <1>1. /\ link' = [link EXCEPT ![c] = "closing"]
        /\ wire' = [wire EXCEPT ![c] = Append(@, Close)]
        /\ UNCHANGED <<answers, loop, registry, asked, call, told, step, reply, done>>
    BY DEF ClientCloses, serving, calls, processing
  <1>2. WsTypeOK'
    BY <1>1 DEF WsInv, WsTypeOK
  <1>3. OnWireOnce'
    <2> SUFFICES ASSUME NEW k \in Connections, NEW i \in 1..Len(wire'[k]), wire'[k][i] # Close
                 PROVE  /\ i \in 1..Len(wire[k]) /\ wire'[k][i] = wire[k][i]
                        /\ \A j \in 1..Len(wire'[k]) : wire'[k][j] = wire'[k][i] =>
                              j \in 1..Len(wire[k]) /\ wire'[k][j] = wire[k][j]
      BY <1>1 DEF WsInv, OnWireOnce
    <2>1. wire[k] \in Seq(Requests \cup {Close})
      BY DEF WsInv, WsTypeOK
    <2>2. CASE k # c
      BY <1>1, <2>2 DEF WsInv, WsTypeOK
    <2>3. CASE k = c
      <3>1. wire'[k] = Append(wire[k], Close)
        BY <1>1, <2>3 DEF WsInv, WsTypeOK
      <3>2. /\ Len(wire'[k]) = Len(wire[k]) + 1
            /\ wire'[k][Len(wire[k]) + 1] = Close
            /\ \A j \in 1..Len(wire[k]) : wire'[k][j] = wire[k][j]
        BY <2>1, <3>1
      <3>3. \A j \in 1..Len(wire'[k]) : wire'[k][j] # Close => j \in 1..Len(wire[k])
        BY <2>1, <3>2
      <3> QED
        BY <3>2, <3>3
    <2> QED
      BY <2>2, <2>3
  <1>4. RegistryExact' /\ AnswersReturn' /\ UnaskedNowhere' /\ NotYetDone' /\ NotYetTold'
    BY <1>1 DEF WsInv, RegistryExact, AnswersReturn, UnaskedNowhere, NotYetDone, NotYetTold
  <1>5. AnswersTruthful' /\ ServedAdmissible' /\ RefusedSessionServesNothing'
    BY <1>1 DEF WsInv, AnswersTruthful, Truthful, ServedAdmissible, Admissible,
                RefusedSessionServesNothing
  <1> QED
    BY <1>2, <1>3, <1>4, <1>5 DEF WsInv

LEMMA LosePreserves ==
    ASSUME WsInv, NEW c \in Connections, Lose(c)
    PROVE  WsInv'
  <1>1. /\ link' = [link EXCEPT ![c] = "lost"]
        /\ wire' = [wire EXCEPT ![c] = <<>>]
        /\ answers' = [answers EXCEPT ![c] = {}]
        /\ UNCHANGED <<loop, registry, asked, call, told, step, reply, done>>
    BY DEF Lose, serving, calls, processing
  <1>2. /\ wire'[c] = <<>> /\ \A k \in Connections \ {c} : wire'[k] = wire[k]
        /\ \A k \in Connections : answers'[k] \subseteq answers[k]
    BY <1>1 DEF WsInv, WsTypeOK
  <1>3. WsTypeOK'
    BY <1>1 DEF WsInv, WsTypeOK
  <1>4. OnWireOnce'
    BY <1>1, <1>2 DEF WsInv, OnWireOnce
  <1>5. RegistryExact' /\ AnswersReturn' /\ UnaskedNowhere' /\ NotYetDone' /\ NotYetTold'
    BY <1>1, <1>2 DEF WsInv, RegistryExact, AnswersReturn, UnaskedNowhere, NotYetDone, NotYetTold
  <1>6. AnswersTruthful' /\ ServedAdmissible' /\ RefusedSessionServesNothing'
    BY <1>1, <1>2 DEF WsInv, AnswersTruthful, Truthful, ServedAdmissible, Admissible,
                RefusedSessionServesNothing
  <1> QED
    BY <1>3, <1>4, <1>5, <1>6 DEF WsInv

\* A call goes on, without being carried out: it was past the wire already.
LEMMA GoingOnPreserves ==
    ASSUME WsInv, NEW r \in Requests,
           step[r] \in {"none", "session"},
           \A c \in Connections : \A i \in 1..Len(wire'[c]) : wire'[c][i] # r,
           OnWireOnce',
           wire' \in [Connections -> Seq(Requests \cup {Close})],
           NEW next \in {"session", "service", "send"}, NEW with \in Answers \cup {"none"},
           GoTo(r, next, with),
           next = "send" => with \in {"nameless", "refused", "error"},
           next = "service" => Admissible(r),
           UNCHANGED <<link, answers, serving, calls, done>>,
           told[r] # "idle"
    PROVE  WsInv'
  <1>1. /\ step' = [step EXCEPT ![r] = next]
        /\ reply' = [reply EXCEPT ![r] = with]
        /\ UNCHANGED <<link, answers, loop, registry, asked, call, told, done>>
    BY DEF GoTo, serving, calls
  <1>2. /\ step'[r] = next /\ reply'[r] = with
        /\ \A k \in Requests \ {r} : step'[k] = step[k] /\ reply'[k] = reply[k]
    BY <1>1 DEF WsInv, WsTypeOK
  <1>3. r \notin done /\ told[r] \in {"waiting", "gaveup"}
    BY DEF WsInv, NotYetDone, NotYetTold
  <1>4. WsTypeOK'
    BY <1>1 DEF WsInv, WsTypeOK
  <1>5. RegistryExact' /\ AnswersReturn'
    BY <1>1 DEF WsInv, RegistryExact, AnswersReturn
  <1>6. UnaskedNowhere' /\ NotYetDone'
    BY <1>1, <1>2, <1>3 DEF WsInv, UnaskedNowhere, NotYetDone
  <1>7. NotYetTold'
    BY <1>1, <1>2, <1>3 DEF WsInv, NotYetTold
  <1>8. AnswersTruthful'
    BY <1>1, <1>2, <1>3 DEF WsInv, AnswersTruthful, Truthful, Answers
  <1>9. ServedAdmissible'
    BY <1>1, <1>2 DEF WsInv, ServedAdmissible, Admissible
  <1>10. RefusedSessionServesNothing'
    BY <1>1 DEF WsInv, RefusedSessionServesNothing
  <1> QED
    BY <1>4, <1>5, <1>6, <1>7, <1>8, <1>9, <1>10 DEF WsInv

\* Calls past their first step are on no wire.
LEMMA NotOnWire ==
    ASSUME WsInv, NEW r \in Requests, step[r] # "none"
    PROVE  \A c \in Connections : \A i \in 1..Len(wire[c]) :
              /\ wire[c][i] # r
              /\ wire[c][i] # Close => wire[c][i] \in Requests \ {r}
  BY WsAssumption DEF WsInv, OnWireOnce, WsTypeOK

LEMMA SessionPreserves ==
    ASSUME WsInv, NEW r \in Requests, SessionChecked(r)
    PROVE  WsInv'
  <1>1. /\ step[r] = "session"
        /\ UNCHANGED <<link, wire, answers, serving, calls, done>>
    BY DEF SessionChecked, wires
  <1>2. \E next \in {"service", "send"}, with \in Answers \cup {"none"} :
           /\ GoTo(r, next, with)
           /\ next = "send" => with \in {"nameless", "refused", "error"}
           /\ next = "service" => Admissible(r)
    <2>1. CASE call[r].auth = "valid"
      <3>1. Dispatch(r)
        BY <2>1 DEF SessionChecked
      <3>2. \/ GoTo(r, "send", "refused")
            \/ GoTo(r, "send", "error")
            \/ GoTo(r, "service", "none")
        BY <3>1 DEF Dispatch
      <3> QED
        BY <2>1, <3>2 DEF Answers, Admissible
    <2>2. CASE call[r].auth # "valid"
      <3>1. GoTo(r, "send", "refused")
        BY <2>2 DEF SessionChecked
      <3> QED
        BY <3>1 DEF Answers
    <2> QED
      BY <2>1, <2>2
  <1>3. told[r] # "idle"
    BY <1>1 DEF WsInv, UnaskedNowhere
  <1>4. /\ OnWireOnce'
        /\ wire' \in [Connections -> Seq(Requests \cup {Close})]
        /\ \A c \in Connections : \A i \in 1..Len(wire'[c]) : wire'[c][i] # r
    <2>1. \A c \in Connections : \A i \in 1..Len(wire[c]) : wire[c][i] # r
      BY <1>1, NotOnWire
    <2>2. wire' = wire /\ asked' = asked
      BY <1>1 DEF calls
    <2>3. \A k \in Requests \ {r} : step'[k] = step[k]
      BY <1>2 DEF GoTo, WsInv, WsTypeOK
    <2>4. \A c \in Connections : \A i \in 1..Len(wire[c]) : wire[c][i] \in Requests \cup {Close}
      BY DEF WsInv, WsTypeOK
    <2> QED
      BY <2>1, <2>2, <2>3, <2>4 DEF WsInv, OnWireOnce, WsTypeOK
  <1> QED
    BY <1>1, <1>2, <1>3, <1>4, GoingOnPreserves

LEMMA ServePreserves ==
    ASSUME WsInv, NEW r \in Requests, Serve(r)
    PROVE  WsInv'
  <1>1. PICK answer \in {"success", "error"} :
           /\ step' = [step EXCEPT ![r] = "send"]
           /\ reply' = [reply EXCEPT ![r] = answer]
           /\ done' \in IF answer = "success" THEN {done \cup {r}} ELSE {done, done \cup {r}}
    BY DEF Serve, GoTo
  <1>2. /\ step[r] = "service"
        /\ UNCHANGED <<link, wire, answers, loop, registry, asked, call, told>>
    BY DEF Serve, wires, serving, calls
  <1>3. /\ step'[r] = "send" /\ reply'[r] = answer
        /\ \A k \in Requests \ {r} : step'[k] = step[k] /\ reply'[k] = reply[k]
        /\ done' \in {done, done \cup {r}}
        /\ answer = "success" => r \in done'
    BY <1>1 DEF WsInv, WsTypeOK
  <1>4. /\ told[r] \in {"idle", "waiting", "gaveup"} /\ told[r] # "idle"
        /\ \A c \in Connections : \A m \in answers[c] : m[1] # r
        /\ Admissible(r)
    BY <1>2 DEF WsInv, NotYetTold, UnaskedNowhere, ServedAdmissible
  <1>5. WsTypeOK'
    BY <1>1, <1>2 DEF WsInv, WsTypeOK, Answers
  <1>6. RegistryExact' /\ AnswersReturn'
    BY <1>2 DEF WsInv, RegistryExact, AnswersReturn
  <1>7. OnWireOnce'
    <2>1. step[r] # "none"
      BY <1>2
    <2>2. \A c \in Connections : \A i \in 1..Len(wire[c]) :
             wire[c][i] # Close => wire[c][i] \in Requests \ {r}
      BY <2>1, NotOnWire
    <2> QED
      BY <1>2, <1>3, <2>2 DEF WsInv, OnWireOnce
  <1>8. UnaskedNowhere' /\ NotYetDone' /\ NotYetTold'
    BY <1>2, <1>3, <1>4 DEF WsInv, UnaskedNowhere, NotYetDone, NotYetTold
  <1>9. AnswersTruthful'
    <2>1. \A c \in Connections : \A m \in answers[c] : m[1] \in Requests \ {r}
      BY <1>4 DEF WsInv, WsTypeOK
    <2> QED
      BY <1>2, <1>3, <2>1 DEF WsInv, AnswersTruthful, Truthful, Answers
  <1>10. ServedAdmissible'
    BY <1>2, <1>3 DEF WsInv, ServedAdmissible, Admissible
  <1>11. RefusedSessionServesNothing'
    BY <1>2, <1>3, <1>4 DEF WsInv, RefusedSessionServesNothing, Admissible
  <1> QED
    BY <1>5, <1>6, <1>7, <1>8, <1>9, <1>10, <1>11 DEF WsInv

LEMMA SendPreserves ==
    ASSUME WsInv, NEW r \in Requests, Send(r)
    PROVE  WsInv'
  <1>1. /\ step[r] = "send"
        /\ answers' = IF Open(asked[r]) /\ link[asked[r]] = "open"
                      THEN [answers EXCEPT ![asked[r]] = @ \cup {<<r, reply[r]>>}]
                      ELSE answers
        /\ step' = [step EXCEPT ![r] = "over"]
        /\ reply' = [reply EXCEPT ![r] = "none"]
        /\ UNCHANGED <<link, wire, loop, registry, asked, call, told, done>>
    BY DEF Send, GoTo, serving, calls
  <1>2. /\ step'[r] = "over" /\ reply'[r] = "none"
        /\ \A k \in Requests \ {r} : step'[k] = step[k] /\ reply'[k] = reply[k]
    BY <1>1 DEF WsInv, WsTypeOK
  <1>3. Truthful(r, reply[r])
    BY <1>1 DEF WsInv, AnswersTruthful
  <1>4. answers' \in [Connections -> SUBSET (Requests \X Answers)]
    <2>1. <<r, reply[r]>> \in Requests \X Answers
      BY <1>3 DEF Truthful
    <2>2. answers \in [Connections -> SUBSET (Requests \X Answers)]
      BY DEF WsInv, WsTypeOK
    <2> QED
      BY <1>1, <2>1, <2>2
  <1>5. \A c \in Connections : \A m \in answers'[c] :
           m \in answers[c] \/ (c = asked[r] /\ m = <<r, reply[r]>>)
    BY <1>1 DEF WsInv, WsTypeOK
  <1>6. WsTypeOK'
    BY <1>1, <1>4 DEF WsInv, WsTypeOK
  <1>7. RegistryExact'
    BY <1>1 DEF WsInv, RegistryExact
  <1>8. AnswersReturn'
    BY <1>1, <1>5 DEF WsInv, AnswersReturn
  <1>9. OnWireOnce'
    <2>1. step[r] # "none"
      BY <1>1
    <2>2. \A c \in Connections : \A i \in 1..Len(wire[c]) :
             wire[c][i] # Close => wire[c][i] \in Requests \ {r}
      BY <2>1, NotOnWire
    <2> QED
      BY <1>1, <1>2, <2>2 DEF WsInv, OnWireOnce
  <1>10. UnaskedNowhere' /\ NotYetDone' /\ NotYetTold'
    <2>1. told[r] # "idle"
      BY <1>1 DEF WsInv, UnaskedNowhere
    <2> QED
      BY <1>1, <1>2, <1>5, <2>1 DEF WsInv, UnaskedNowhere, NotYetDone, NotYetTold
  <1>11. AnswersTruthful'
    BY <1>1, <1>2, <1>3, <1>5 DEF WsInv, AnswersTruthful, Truthful
  <1>12. ServedAdmissible' /\ RefusedSessionServesNothing'
    BY <1>1, <1>2 DEF WsInv, ServedAdmissible, Admissible, RefusedSessionServesNothing
  <1> QED
    BY <1>6, <1>7, <1>8, <1>9, <1>10, <1>11, <1>12 DEF WsInv

\* A step of a loop that processes nothing: the wires lose messages at most.
LEMMA LoopOnPreserves ==
    ASSUME WsInv, WsTypeOK', RegistryExact', OnWireOnce',
           \A c \in Connections : answers'[c] \subseteq answers[c],
           UNCHANGED <<asked, call, told, step, reply, done>>
    PROVE  WsInv'
  <1>1. AnswersReturn' /\ UnaskedNowhere' /\ NotYetDone' /\ NotYetTold'
    BY DEF WsInv, AnswersReturn, UnaskedNowhere, NotYetDone, NotYetTold
  <1>2. AnswersTruthful' /\ ServedAdmissible' /\ RefusedSessionServesNothing'
    BY DEF WsInv, AnswersTruthful, Truthful, ServedAdmissible, Admissible,
           RefusedSessionServesNothing
  <1> QED
    BY <1>1, <1>2 DEF WsInv

\* A message that was received is on the wire no more, and what was behind it is.
LEMMA ReceivedWires ==
    ASSUME WsInv, NEW c \in Connections, wire[c] # <<>>, Received(c)
    PROVE  wire' \in [Connections -> Seq(Requests \cup {Close})]
  <1>1. wire[c] \in Seq(Requests \cup {Close})
    BY DEF WsInv, WsTypeOK
  <1>2. Tail(wire[c]) \in Seq(Requests \cup {Close})
    BY <1>1, RestOfWire
  <1> QED
    BY <1>2 DEF Received, WsInv, WsTypeOK

LEMMA MessagePreserves ==
    ASSUME WsInv, NEW c \in Connections, ReceiveMessage(c)
    PROVE  WsInv'
  <1> DEFINE r == wire[c][1]
  <1>1. /\ wire[c] # <<>>
        /\ Head(wire[c]) # Close
        /\ call[Head(wire[c])].form # "long"
        /\ Received(c)
        /\ Process(Head(wire[c]))
        /\ UNCHANGED <<link, answers, serving, calls, done>>
    BY DEF ReceiveMessage
  <1>2. wire[c] \in Seq(Requests \cup {Close})
    BY DEF WsInv, WsTypeOK
  <1>3. Head(wire[c]) = r /\ r \in Requests /\ 1 \in 1..Len(wire[c])
    BY <1>1, <1>2, RestOfWire
  <1>4. asked[r] = c /\ step[r] = "none"
    BY <1>1, <1>3 DEF WsInv, OnWireOnce
  <1>5. told[r] # "idle"
    BY <1>3, <1>4, NoneIsNoConnection DEF WsInv, UnaskedNowhere
  <1>6. PICK next \in {"session", "service", "send"}, with \in Answers \cup {"none"} :
           /\ GoTo(r, next, with)
           /\ next = "send" => with \in {"nameless", "refused", "error"}
           /\ next = "service" => Admissible(r)
    BY <1>1, <1>3, ProcessGoes DEF WsInv
  <1>7. \A k \in Requests \ {r} : step'[k] = step[k]
    BY <1>6 DEF GoTo, WsInv, WsTypeOK
  <1>8. ASSUME NEW k \in Connections, NEW i \in 1..Len(wire'[k]), wire'[k][i] # Close
        PROVE  /\ wire'[k][i] \in Requests \ {r}
               /\ asked[wire'[k][i]] = k
               /\ step[wire'[k][i]] = "none"
               /\ \A j \in 1..Len(wire'[k]) : wire'[k][j] = wire'[k][i] => j = i
    BY <1>1, <1>3, <1>8, ReceivedLeaves
  <1>9. OnWireOnce'
    BY <1>1, <1>7, <1>8 DEF OnWireOnce, calls
  <1>10. \A k \in Connections : \A i \in 1..Len(wire'[k]) : wire'[k][i] # r
    BY <1>1, <1>3, <1>8
  <1>11. wire' \in [Connections -> Seq(Requests \cup {Close})]
    BY <1>1, ReceivedWires
  <1> HIDE DEF r
  <1> QED
    BY <1>1, <1>3, <1>4, <1>5, <1>6, <1>9, <1>10, <1>11, GoingOnPreserves

LEMMA PartPreserves ==
    ASSUME WsInv, NEW c \in Connections, ReceivePart(c)
    PROVE  WsInv'
  <1>1. /\ loop[c] = "receive"
        /\ loop' = [loop EXCEPT ![c] = "rest"]
        /\ UNCHANGED <<link, wire, answers, registry, asked, call, told, step, reply, done>>
    BY DEF ReceivePart, wires, calls, processing
  <1>2. WsTypeOK'
    BY <1>1 DEF WsInv, WsTypeOK
  <1>3. RegistryExact'
    BY <1>1 DEF WsInv, WsTypeOK, RegistryExact
  <1>4. OnWireOnce'
    BY <1>1 DEF WsInv, OnWireOnce
  <1> QED
    BY <1>1, <1>2, <1>3, <1>4, LoopOnPreserves

\* ReceiveRest and ReceiveClose: a message leaves the wire and is not processed.
LEMMA DropPreserves ==
    ASSUME WsInv, NEW c \in Connections, wire[c] # <<>>, Received(c),
           loop[c] \in {"receive", "rest"},
           NEW next \in {"receive", "close"}, loop' = [loop EXCEPT ![c] = next],
           UNCHANGED <<link, answers, registry, calls, processing>>
    PROVE  WsInv'
  <1>1. UNCHANGED <<link, answers, registry, asked, call, told, step, reply, done>>
    BY DEF calls, processing
  <1>2. wire' \in [Connections -> Seq(Requests \cup {Close})]
    BY ReceivedWires
  <1>3. WsTypeOK'
    BY <1>1, <1>2 DEF WsInv, WsTypeOK
  <1>4. RegistryExact'
    BY <1>1 DEF WsInv, WsTypeOK, RegistryExact
  <1>5. OnWireOnce'
    <2> SUFFICES ASSUME NEW k \in Connections, NEW i \in 1..Len(wire'[k]), wire'[k][i] # Close
                 PROVE  /\ asked[wire'[k][i]] = k
                        /\ step[wire'[k][i]] = "none"
                        /\ \A j \in 1..Len(wire'[k]) : wire'[k][j] = wire'[k][i] => j = i
      BY <1>1 DEF OnWireOnce
    <2> QED
      BY ReceivedLeaves
  <1> QED
    BY <1>1, <1>3, <1>4, <1>5, LoopOnPreserves

LEMMA RestPreserves ==
    ASSUME WsInv, NEW c \in Connections, ReceiveRest(c)
    PROVE  WsInv'
  BY DropPreserves DEF ReceiveRest

LEMMA CloseFramePreserves ==
    ASSUME WsInv, NEW c \in Connections, ReceiveClose(c)
    PROVE  WsInv'
  BY DropPreserves DEF ReceiveClose

\* Closed and Breaks: the connection leaves the dictionary as its loop ends.
LEMMA EndPreserves ==
    ASSUME WsInv, NEW c \in Connections, Closed(c) \/ Breaks(c)
    PROVE  WsInv'
  <1>1. /\ loop[c] \in {"receive", "rest", "close"}
        /\ loop' = [loop EXCEPT ![c] = "ended"]
        /\ registry' = registry \ {c}
        /\ UNCHANGED <<wire, answers, asked, call, told, step, reply, done>>
    BY DEF Closed, Breaks, EndHandler, wires, calls, processing
  <1>2. link' = link \/ link' = [link EXCEPT ![c] = "closed"]
    BY DEF Closed, Breaks, wires
  <1>3. WsTypeOK'
    BY <1>1, <1>2 DEF WsInv, WsTypeOK
  <1>4. RegistryExact'
    BY <1>1 DEF WsInv, WsTypeOK, RegistryExact
  <1>5. OnWireOnce'
    BY <1>1 DEF WsInv, OnWireOnce
  <1> QED
    BY <1>1, <1>3, <1>4, <1>5, LoopOnPreserves

LEMMA RestartPreserves ==
    ASSUME WsInv, Restart
    PROVE  WsInv'
  <1>1. /\ link' = [c \in Connections |-> IF link[c] \in {"open", "closing"} THEN "lost" ELSE link[c]]
        /\ loop' = [c \in Connections |-> IF loop[c] = "none" THEN "none" ELSE "ended"]
        /\ registry' = {}
        /\ wire' = [c \in Connections |-> <<>>]
        /\ answers' = [c \in Connections |-> {}]
        /\ step' = [r \in Requests |-> IF step[r] = "none" THEN "none" ELSE "over"]
        /\ reply' = [r \in Requests |-> "none"]
        /\ UNCHANGED <<asked, call, told, done>>
    BY DEF Restart, calls
  <1>2. WsTypeOK'
    BY <1>1 DEF WsInv, WsTypeOK
  <1>3. RegistryExact' /\ AnswersReturn' /\ OnWireOnce'
    BY <1>1 DEF RegistryExact, AnswersReturn, OnWireOnce
  <1>4. UnaskedNowhere' /\ NotYetDone' /\ NotYetTold'
    BY <1>1 DEF WsInv, UnaskedNowhere, NotYetDone, NotYetTold
  <1>5. AnswersTruthful' /\ ServedAdmissible' /\ RefusedSessionServesNothing'
    BY <1>1 DEF WsInv, AnswersTruthful, ServedAdmissible, RefusedSessionServesNothing
  <1> QED
    BY <1>2, <1>3, <1>4, <1>5 DEF WsInv

\* Every step of the server and of its clients keeps the books.
LEMMA WsInvStep == WsInv /\ [WsNext]_wsVars => WsInv'
  <1> SUFFICES ASSUME WsInv, [WsNext]_wsVars PROVE WsInv'
    OBVIOUS
  <1>1. CASE UNCHANGED wsVars
    <2>1. UNCHANGED <<link, wire, answers, loop, registry, asked, call, told, step, reply, done>>
      BY <1>1 DEF wsVars, wires, serving, calls, processing
    <2>2. WsTypeOK' /\ RegistryExact' /\ OnWireOnce'
      BY <2>1 DEF WsInv, WsTypeOK, RegistryExact, OnWireOnce
    <2> QED
      BY <2>1, <2>2, LoopOnPreserves
  <1>2. ASSUME NEW c \in Connections, Connect(c) \/ ClientCloses(c) \/ Lose(c)
        PROVE  WsInv'
    BY <1>2, ConnectPreserves, ClosePreserves, LosePreserves
  <1>3. ASSUME NEW c \in Connections, Handle(c)
        PROVE  WsInv'
    BY <1>3, MessagePreserves, PartPreserves, RestPreserves, CloseFramePreserves, EndPreserves
       DEF Handle
  <1>4. ASSUME NEW r \in Requests, NEW c \in Connections, AskOn(r, c)
        PROVE  WsInv'
    BY <1>4, AskPreserves
  <1>5. ASSUME NEW r \in Requests, NEW c \in Connections, NEW a \in Answers, Hear(c, r, a)
        PROVE  WsInv'
    BY <1>5, HearPreserves
  <1>6. ASSUME NEW r \in Requests, GiveUp(r) \/ Proceed(r)
        PROVE  WsInv'
    BY <1>6, GiveUpPreserves, SessionPreserves, ServePreserves, SendPreserves DEF Proceed
  <1>7. CASE Restart
    BY <1>7, RestartPreserves
  <1> QED
    BY <1>1, <1>2, <1>3, <1>4, <1>5, <1>6, <1>7 DEF WsNext
-----------------------------------------------------------------------------
(* Theorems. *)

\* Whatever calls, connections, losses and restarts there are, the books of the
\* server's end agree.
THEOREM WsInvariant == WsSpec => []WsInv
  <1>1. WsInit => WsInv
    BY WsInvInit
  <1>2. WsInv /\ [WsNext]_wsVars => WsInv'
    BY WsInvStep
  <1> QED
    BY <1>1, <1>2, PTL DEF WsSpec

\* The dictionary of connections is exact and an answer returns on the connection its
\* call came by, for any number of either.
THEOREM ConnectionsAlwaysSafe == WsSpec => []ConnectionsSafe
  <1>1. WsInv => ConnectionsSafe
    BY DEF WsInv, ConnectionsSafe
  <1> QED
    BY <1>1, WsInvariant, PTL

\* No call is ever carried out under a session that the server refuses.
THEOREM RefusedNeverServed == WsSpec => []RefusedSessionServesNothing
  <1>1. WsInv => RefusedSessionServesNothing
    BY DEF WsInv
  <1> QED
    BY <1>1, WsInvariant, PTL

\* A step of the server and its clients is one of the calls' promise, or changes
\* neither what was carried out nor what callers know.
LEMMA StepServesAsPromised ==
    WsInv /\ [WsNext]_wsVars => [ServesCalls!CallsNext]_<<told, done>>
  <1> SUFFICES ASSUME WsInv, [WsNext]_wsVars, ~UNCHANGED <<told, done>>
               PROVE  ServesCalls!CallsNext
    OBVIOUS
  <1> USE DEF ServesCalls!CallsNext, ServesCalls!Tell
  <1>1. ASSUME NEW r \in Requests, NEW c \in Connections, AskOn(r, c)
        PROVE  ServesCalls!CallsNext
    BY <1>1 DEF AskOn, processing, ServesCalls!Ask
  <1>2. ASSUME NEW r \in Requests, NEW c \in Connections, NEW a \in Answers, Hear(c, r, a)
        PROVE  ServesCalls!CallsNext
    <2>1. done' = done /\ told[r] = "waiting" /\ told' = [told EXCEPT ![r] = a] /\ a # "nameless"
      BY <1>2 DEF Hear, processing
    <2>2. Truthful(r, a)
      BY <1>2 DEF Hear, WsInv, AnswersTruthful
    <2> QED
      BY <2>1, <2>2 DEF Truthful, Answers
  <1>3. ASSUME NEW r \in Requests, GiveUp(r)
        PROVE  ServesCalls!CallsNext
    BY <1>3 DEF GiveUp, processing
  <1>4. ASSUME NEW r \in Requests, Serve(r)
        PROVE  ServesCalls!CallsNext
    <2>1. done' = done \cup {r} /\ told' = told
      BY <1>4 DEF Serve, calls
    <2>2. r \notin done /\ told[r] \in {"waiting", "gaveup"}
      BY <1>4 DEF Serve, WsInv, NotYetDone, NotYetTold, UnaskedNowhere
    <2> QED
      BY <2>1, <2>2 DEF ServesCalls!CarryOut
  <1>5. ASSUME NEW r \in Requests, SessionChecked(r) \/ Send(r)
        PROVE  FALSE
    BY <1>5 DEF SessionChecked, Send, calls
  <1>6. ASSUME NEW c \in Connections, Connect(c) \/ ClientCloses(c) \/ Lose(c)
        PROVE  FALSE
    BY <1>6 DEF Connect, ClientCloses, Lose, calls, processing
  <1>7. ASSUME NEW c \in Connections, Handle(c)
        PROVE  FALSE
    BY <1>7 DEF Handle, ReceiveMessage, ReceivePart, ReceiveRest, ReceiveClose, Closed, Breaks,
                calls, processing
  <1>8. CASE Restart
    BY <1>8 DEF Restart, calls
  <1>9. CASE UNCHANGED wsVars
    BY <1>9 DEF wsVars, calls, processing
  <1> QED
    BY <1>1, <1>2, <1>3, <1>4, <1>5, <1>6, <1>7, <1>8, <1>9 DEF WsNext, Proceed

\* The server's end implements what it promises: a call is carried out at most once
\* and after it was made, and each caller is told the truth of it or gives up.
THEOREM WsServerServesAsPromised == WsSpec => ServesAsPromised
  <1>1. WsInit => ServesCalls!CallsInit
    BY DEF WsInit, ServesCalls!CallsInit
  <1>2. WsInv /\ [WsNext]_wsVars => [ServesCalls!CallsNext]_<<told, done>>
    BY StepServesAsPromised
  <1> QED
    BY <1>1, <1>2, WsInvariant, PTL DEF WsSpec, ServesAsPromised, ServesCalls!CallsSpec
=============================================================================
