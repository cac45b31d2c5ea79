------------------------------- MODULE MCOidc -------------------------------
(* Small instances of OidcCodeFlow for TLC.                                *)
EXTENDS OidcCodeFlow

CONSTANTS c1, s1, h1, h2, x1, x2, u1, k1, a1

MCClients == {c1}
MCScopes == {s1}
MCNoScopes == {}
MCNobody == {}
MCOneEditor == {h1}
MCTwoEditors == {h1, h2}
MCOneExchange == {x1}
MCTwoExchanges == {x1, x2}
MCUsers == {u1}
MCOneCode == {k1}
MCApprovals == {a1}
=============================================================================
