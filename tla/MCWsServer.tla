----------------------------- MODULE MCWsServer -----------------------------
EXTENDS WsServer

CONSTANTS r1, r2

Whole(kind, auth) == [form |-> "whole", auth |-> auth, kind |-> kind]

\* One call is of any kind, the other is served.
MCAskable(r) ==
    IF r = r1 THEN CallsAsked \ ({Whole("absent", a) : a \in {"none", "invalid"}}
                              \cup {Whole("mismatched", a) : a \in {"valid", "invalid"}}
                              \cup {Whole("served", a) : a \in {"none", "valid"}})
    ELSE {Whole("served", "valid")}
=============================================================================
