------------------------------ MODULE MCConsole ------------------------------
(* Small instances of AdminConsole for TLC.                                *)
EXTENDS OuTree, ConsoleInvariant

CONSTANTS o1, o2, u1, u2, g1, g2, k1, k2, d1, d2

MCTwoUnits == {o1, o2}
MCOneUnit == {o1}
MCOneUser == {u1}
MCTwoUsers == {u1, u2}
MCTwoGroups == {g1, g2}
MCTwoClients == {k1, k2}
MCTwoDomains == {d1, d2}
MCNone == {}
MCTwoCalls == {1, 2}

(* Every unit is at the root, and o1 has the users and the groups; other   *)
(* users, the second client and the second domain are still to be created. *)
MCTablesWith(users) ==
    [ous |-> [o \in OrganizationalUnits |-> Root],
     users |-> [u \in Users |-> IF u \in users THEN o1 ELSE Null],
     groups |-> [g \in Groups |-> [ou |-> o1, members |-> {}]],
     clients |-> [k \in Clients |-> IF k = k1 THEN [web |-> TRUE, enabled |-> TRUE] ELSE Null],
     domains |-> [d \in Domains |-> IF d = d1 THEN d1 ELSE Null],
     sync |-> Null,
     secret |-> [k \in Clients |-> IF k = k1 THEN 1 ELSE 0],
     key |-> [d \in Domains |-> IF d = d1 THEN 1 ELSE 0]]

(* With one user, or with none.                                            *)
MCOneUserTables == {MCTablesWith({u1})}
MCTables == {MCTablesWith({}), MCTablesWith({u1})}
=============================================================================
