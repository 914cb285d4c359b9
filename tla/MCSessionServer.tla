-------------------------- MODULE MCSessionServer --------------------------
(* SessionServer for TLC.  Windows and lifetimes keep the order they have   *)
(* in the code at a scale of a few ticks.                                   *)
EXTENDS SessionServer, TLC

CONSTANTS c1, c2, h1, h2, h3

\* All handshakes are of one client.
OneClient == [m \in HMsgs |-> c1]

\* Two handshakes of one client and one of another.
TwoClients == [m \in HMsgs |-> IF m = h3 THEN c2 ELSE c1]

\* Senders whose clocks do not lead.
NoLead == [m \in HMsgs |-> 0]

\* The clock that stamps headers leads, by one less than what is accepted.
ALittle == [m \in AMsgs |-> AEarly - 1]

HeaderSymmetry ==
    Permutations(AMsgs) \cup Permutations(AThreads) \cup Permutations(HMsgs)

ThreadSymmetry == Permutations(HThreads) \cup Permutations(AThreads)
============================================================================
