---------------------------- MODULE MCCommClient ----------------------------
(* Small instances of CommClient for TLC. *)
EXTENDS CommClient

CONSTANTS r1, r2

TwoRequests == {r1, r2}
OneRequest == {r1}
NoRequests == {}

=============================================================================
