------------------------------- MODULE MCUser -------------------------------
(* Small instances of UserPages for TLC.                                   *)
EXTENDS UserPages, TLC

CONSTANTS u1, u2, r1, r2

MCUsers == {u1, u2}
MCRequests == {r1, r2}
MCCalls == {1, 2}
=============================================================================
