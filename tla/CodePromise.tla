----------------------------- MODULE CodePromise -----------------------------
(***************************************************************************)
(* What the OIDC provider promises of its authorization codes, whatever    *)
(* users, clients, administrators and failing connections do: a code is    *)
(* issued once, and is then granted or lost, once and for ever; and it is  *)
(* granted only at a moment when client, user and code still permit it.    *)
(*                                                                         *)
(* The authorization code flow of OidcCodeFlow implements it.              *)
(***************************************************************************)
CONSTANT Codes

VARIABLES
    stage,     \* of each code
    permitted  \* the issued codes that client and user permit now

vars == <<stage, permitted>>

Stages == {"unused", "issued", "granted", "lost"}

Init ==
    /\ stage = [k \in Codes |-> "unused"]
    /\ permitted = {}

Issue(k) ==
    /\ stage[k] = "unused"
    /\ stage' = [stage EXCEPT ![k] = "issued"]

(* The one token response for a code.                                      *)
Grant(k) ==
    /\ stage[k] = "issued" /\ k \in permitted
    /\ stage' = [stage EXCEPT ![k] = "granted"]

(* Codes expire, are deleted with their user, or go with a refused or an   *)
(* unanswered request; with none of them, only permissions change.         *)
Lose(K) ==
    /\ \A k \in K : stage[k] = "issued"
    /\ stage' = [k \in Codes |-> IF k \in K THEN "lost" ELSE stage[k]]

Next ==
    /\ (\E k \in Codes : Issue(k) \/ Grant(k)) \/ \E K \in SUBSET Codes : Lose(K)
    /\ permitted' \in SUBSET {k \in Codes : stage'[k] = "issued"}

Spec == Init /\ [][Next]_vars
=============================================================================
