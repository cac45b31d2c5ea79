------------------------------ MODULE MCStore ------------------------------
(* Small instances of StoreTransactions for TLC.                           *)
EXTENDS StoreTransactions

CONSTANTS o1, u1, w1, w2

MCOrganizationalUnits == {o1}
MCNoObjects == {}
MCUsers == {u1}
MCTwoWriters == {w1, w2}

=============================================================================
