------------------------------- MODULE OuTree -------------------------------
(***************************************************************************)
(* utils/directory.ts: the tree of organizational units as the directory   *)
(* page lists it.  `ous' maps every unit to its parent, or to Null when    *)
(* the list does not have it.  Core stores any parent, so the list can     *)
(* hold a unit whose parent is missing and units that are their own        *)
(* ancestors; the walk visits each unit once.                              *)
(*                                                                         *)
(* The recursion is the usual one with a stack of [ou, depth]: a popped    *)
(* unit that has been visited is skipped, another is listed and its        *)
(* children are pushed.                                                    *)
(***************************************************************************)
EXTENDS AdminConsole, FiniteSets, SequencesExt

(* A list of units is an array of the page.                                *)
ASSUME UnitsAssumption == IsFiniteSet(OrganizationalUnits)

(* sortOus: names and identifiers give one order, any one here.            *)
SortOus(units) == SetToSeq(units)

(* Units in order, all at one depth.                                       *)
AtDepth(units, depth) ==
    LET sorted == SortOus(units)
    IN [i \in DOMAIN sorted |-> [ou |-> sorted[i], depth |-> depth]]

(* byParent, with the siblings in order, at a depth.                       *)
ByParent(ous, parent, depth) == AtDepth({o \in Rows(ous) : ous[o] = parent}, depth)

Visited(items) == {items[i].ou : i \in DOMAIN items}

(* Mutant: a unit is listed again whenever a walk meets it.                *)
PushChildren_Revisits(ous, walk) ==
    LET top == Head(walk.stack)
    IN [items |-> Append(walk.items, top),
        stack |-> ByParent(ous, top.ou, top.depth + 1) \o Tail(walk.stack)]

(* One round of pushChildren.                                              *)
PushChildren(ous, walk) ==
    LET top == Head(walk.stack) IN
    IF top.ou \in Visited(walk.items) THEN [walk EXCEPT !.stack = Tail(@)]
    ELSE [items |-> Append(walk.items, top),
          stack |-> ByParent(ous, top.ou, top.depth + 1) \o Tail(walk.stack)]

(* The walk from a stack: every unit is pushed once by its parent, and the *)
(* stack holds at most every unit once more.                               *)
Rounds(ous, stack) == Len(stack) + Cardinality(Rows(ous))

Walk(ous, stack) ==
    LET walk[n \in 0 .. Rounds(ous, stack)] ==
            IF n = 0 THEN [items |-> <<>>, stack |-> stack]
            ELSE LET before == walk[n - 1]
                 IN IF before.stack = <<>> THEN before ELSE PushChildren(ous, before)
    IN walk[Rounds(ous, stack)].items

(* Mutant: flattenOus takes the units in order and forgets the root.       *)
FlattenOus_InOrder(ous) == Walk(ous, AtDepth(Rows(ous), 0))

(* flattenOus: from the root, then from each unit that is left.            *)
FlattenOus(ous) == Walk(ous, ByParent(ous, Root, 0) \o AtDepth(Rows(ous), 0))

(* buildOuTree: from the root, and what is left side by side.              *)
BuildOuTree(ous) ==
    LET nodes == Walk(ous, ByParent(ous, Root, 0))
    IN nodes \o AtDepth(Rows(ous) \ Visited(nodes), 0)

-----------------------------------------------------------------------------
Once(ous, items) == \A o \in Rows(ous) : Cardinality({i \in DOMAIN items : items[i].ou = o}) = 1

(* An indented unit is below its parent: the nearest earlier one that is   *)
(* indented less.                                                          *)
Indented(ous, items) ==
    \A i \in DOMAIN items : items[i].depth > 0 =>
        \E p \in 1 .. i - 1 :
            /\ items[p].ou = ous[items[i].ou] /\ items[p].depth = items[i].depth - 1
            /\ \A j \in p + 1 .. i - 1 : items[j].depth >= items[i].depth

(* The units whose parents lead to the root: the least set with the root's *)
(* children and the children of its members.                               *)
Attached(ous) ==
    {o \in Rows(ous) :
        \A S \in SUBSET Rows(ous) :
            (\A u \in Rows(ous) : ous[u] \in S \cup {Root} => u \in S) => o \in S}

(* An item at the margin that is not a child of the root.                  *)
AtMargin(ous, item) == item.depth = 0 /\ ous[item.ou] # Root

(* Of the units below the root only the root's children are at the margin. *)
AttachedNested(ous, items) ==
    \A i \in DOMAIN items : AtMargin(ous, items[i]) => items[i].ou \notin Attached(ous)

(* What follows its parent in the list is not at the margin.               *)
NestedIfParentListed(ous, items) ==
    \A i \in DOMAIN items : AtMargin(ous, items[i]) =>
        \A p \in 1 .. i - 1 : items[p].ou # ous[items[i].ou]

(* The page offers every unit of its list exactly once, as a node of the   *)
(* tree and as a parent in the editor, whatever parents Core has stored:   *)
(* missing ones, and cycles.  A unit whose parents lead to the root is     *)
(* indented below its parent in both.  The others, in a cycle or below a   *)
(* missing parent, may stand at the margin of the tree; in the editor only *)
(* those do that do not come after their parent.                           *)
TreeShowsEveryUnit ==
    LET items == FlattenOus(lists.ous)
        nodes == BuildOuTree(lists.ous)
    IN /\ Once(lists.ous, items) /\ Once(lists.ous, nodes)
       /\ Indented(lists.ous, items) /\ Indented(lists.ous, nodes)
       /\ AttachedNested(lists.ous, items) /\ AttachedNested(lists.ous, nodes)
       /\ NestedIfParentListed(lists.ous, items)
=============================================================================
