---------------------------- MODULE MCBodyKeys ------------------------------
(* Small instances of BodyKeys for TLC. *)
EXTENDS BodyKeys

CONSTANTS t1, t2, r1

TwoTabs == {t1, t2}
OneTab == {t1}
OneRequest == {r1}
InFirstTab == [r \in Requests |-> t1]
=============================================================================
