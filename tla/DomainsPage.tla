---------------------------- MODULE DomainsPage ----------------------------
(***************************************************************************)
(* The page of Active Directory domains: its table, the drawer that shows  *)
(* the editor or the Syncer key of the last save, and Core's handlers.     *)
(* Every save of a domain replaces its Syncer key.  Of a domain only its   *)
(* identifier and its key are kept.                                        *)
(***************************************************************************)
EXTENDS AdminApi

VARIABLE dom  \* the refs of the page

DomainRefs ==
    [drawerOpen : BOOLEAN, selectedDomainId : Domains \cup {Null}, syncerKey : Nat \cup {Null}]

FreshDomains == [drawerOpen |-> FALSE, selectedDomainId |-> Null, syncerKey |-> Null]

OnDomains == page = "domains" /\ authenticated /\ ~dom.drawerOpen

(* A row of the table: a click on it is never disabled.                    *)
DomainRow(d) == OnDomains /\ d \in Rows(lists.domains)

(* openEditor with a row of the table, or for a new domain.                *)
OpenDomainEditor(d) ==
    /\ DomainRow(d) \/ (d = Null /\ OnDomains /\ ~Busy)
    /\ dom' = [drawerOpen |-> TRUE, selectedDomainId |-> d, syncerKey |-> Null]
    /\ UNCHANGED <<apiVars, pageVars>>

(* The drawer, which is blocked while a request runs.                      *)
DomainDrawer == page = "domains" /\ authenticated /\ dom.drawerOpen /\ ~saving

CloseDomainDrawer ==
    /\ DomainDrawer
    /\ dom' = [dom EXCEPT !.drawerOpen = FALSE]
    /\ UNCHANGED <<apiVars, pageVars>>

(* What the editor lets an administrator enter: an ID for a new domain.    *)
DomainInputs == IF dom.selectedDomainId = Null THEN Domains ELSE {dom.selectedDomainId}

SaveDomain ==
    /\ DomainDrawer /\ dom.syncerKey = Null
    /\ \E d \in DomainInputs :
           Submit("saveDomain", [target |-> d, creates |-> dom.selectedDomainId = Null])
    /\ UNCHANGED <<dialog, dom>>

(* create_domain refuses an ID that is taken, update_domain one that is    *)
(* missing; both answer with a new key.                                    *)
CoreWritesDomain(c) ==
    /\ SentTo(c, "saveDomain")
    /\ LET d == calls[c].arg.target IN
       IF (Core.domains[d] = Null) = calls[c].arg.creates
       THEN Applies(c, [Core EXCEPT !.domains[d] = d, !.key[d] = Version + 1])
       ELSE Refuses(c)

DomainSaved(c) ==
    /\ Answered(c, "saveDomain")
    /\ dom' = [dom EXCEPT !.selectedDomainId = calls[c].arg.target,
                          !.syncerKey = history[calls[c].since].key[calls[c].arg.target]]
    /\ GoesOn(c, Loading(calls[c].fn, {"domains", "sync"}))

DomainsNext ==
    \/ \E d \in Domains \cup {Null} : OpenDomainEditor(d)
    \/ CloseDomainDrawer \/ SaveDomain
=============================================================================
