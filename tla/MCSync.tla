------------------------------- MODULE MCSync -------------------------------
(* Small instances of SyncProtocol for TLC.                                *)
EXTENDS SyncInvariant

CONSTANTS o1, u1, u2, g1

MCOrganizationalUnits == {o1}
MCNoObjects == {}
MCOneUser == {u1}
MCTwoUsers == {u1, u2}
MCGroups == {g1}

=============================================================================
