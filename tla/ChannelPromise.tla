--------------------------- MODULE ChannelPromise ---------------------------
(***************************************************************************)
(* What one synchronisation channel promises, whatever goes on between     *)
(* Core and Active Directory: a versioned source is copied to a mirror, a  *)
(* watermark tells how far the copy is known to have come, the watermark   *)
(* and the mirror's versions only go forwards, and nothing at or below the *)
(* watermark differs from its mirror.                                      *)
(*                                                                         *)
(* The directory channel and the credential channel of SyncProtocol both   *)
(* implement it.                                                           *)
(***************************************************************************)
EXTENDS Naturals

CONSTANT Items

VARIABLES
    revision,   \* the channel's global revision in Core
    source,     \* the version of each item in Core, 0 when there is none
    mirror,     \* the version of each item in Active Directory, 0 when never copied
    watermark   \* the revision the domain has confirmed

vars == <<revision, source, mirror, watermark>>

Init ==
    /\ revision = 0 /\ watermark = 0
    /\ source = [i \in Items |-> 0]
    /\ mirror = [i \in Items |-> 0]

(* A transaction allocates the next revision for the items W it writes.    *)
Write(W, R) ==
    /\ revision' = revision + 1
    /\ source' = [i \in Items |-> IF i \in W THEN revision + 1
                                  ELSE IF i \in R THEN 0 ELSE source[i]]
    /\ UNCHANGED <<mirror, watermark>>

(* Items R are removed without a revision of this channel.                 *)
Remove(R) ==
    /\ source' = [i \in Items |-> IF i \in R THEN 0 ELSE source[i]]
    /\ UNCHANGED <<revision, mirror, watermark>>

(* A version reaches the mirror: never an older one than it had, and the   *)
(* current one if that has been confirmed.                                 *)
Copy(i, v) ==
    /\ mirror[i] <= v /\ v <= revision
    /\ (source[i] # 0 /\ source[i] <= watermark) => v = source[i]
    /\ mirror' = [mirror EXCEPT ![i] = v]
    /\ UNCHANGED <<revision, source, watermark>>

(* The watermark advances over items that are all in the mirror.           *)
Confirm(r) ==
    /\ watermark <= r /\ r <= revision
    /\ \A i \in Items : (source[i] # 0 /\ source[i] <= r) => mirror[i] = source[i]
    /\ watermark' = r
    /\ UNCHANGED <<revision, source, mirror>>

Next ==
    \/ \E W, R \in SUBSET Items : Write(W, R)
    \/ \E R \in SUBSET Items : Remove(R)
    \/ \E i \in Items, v \in 0..revision : Copy(i, v)
    \/ \E r \in watermark..revision : Confirm(r)

Spec == Init /\ [][Next]_vars

=============================================================================
