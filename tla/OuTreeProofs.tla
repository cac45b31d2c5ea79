---------------------------- MODULE OuTreeProofs ----------------------------
(***************************************************************************)
(* The lists of the directory page show every unit exactly once, and a unit*)
(* whose parents lead to the root below its parent, for any finite set of  *)
(* units and whatever parents Core has stored.  The argument is an         *)
(* invariant of the walk (WalkInv), carried from round to round by         *)
(* induction on the number of the round.                                   *)
(*                                                                         *)
(* The induction theorems of the library take an operator; the induction   *)
(* here takes a set instead: the least round at which something fails.     *)
(***************************************************************************)
EXTENDS OuTree, ConsoleProofs, SequenceTheorems, FiniteSetTheorems, WellFoundedInduction

(* Every set of natural numbers has a least one.                           *)
LEMMA LeastNumber ==
    ASSUME NEW T \in SUBSET Nat, T # {}
    PROVE  \E n \in T : \A m \in T : n <= m
<1>1. PICK n \in T : \A m \in T : ~(<<m, n>> \in OpToRel(<, Nat))
  BY WFMin, NatLessThanWellFounded
<1>2. \A m \in T : <<m, n>> \in OpToRel(<, Nat) <=> m < n
  BY DEF OpToRel
<1>3. \A m \in T : ~(m < n)
  BY <1>1, <1>2, Zenon
<1> QED BY <1>3

(* What holds for 0, and for n + 1 when it holds for n, holds up to N.     *)
LEMMA SetInduction ==
    ASSUME NEW N \in Nat, NEW S,
           0 \in S,
           \A n \in Nat : n < N /\ n \in S => n + 1 \in S
    PROVE  \A n \in 0 .. N : n \in S
<1> SUFFICES ASSUME NEW k \in 0 .. N, k \notin S
             PROVE  FALSE
  OBVIOUS
<1> DEFINE T == {n \in 0 .. N : n \notin S}
<1>1. T \in SUBSET Nat /\ T # {}
  OBVIOUS
<1>2. PICK n \in T : \A m \in T : n <= m
  BY <1>1, LeastNumber
<1>3. n \in Nat /\ n # 0 /\ n <= N /\ n \notin S
  BY <1>2
<1>4. n - 1 \in S
  BY <1>2, <1>3
<1>5. (n - 1) + 1 \in S
  BY <1>3, <1>4
<1> QED BY <1>3, <1>5

-----------------------------------------------------------------------------
Forests == [OrganizationalUnits -> OrganizationalUnits \cup {Root, Null}]

Item == [ou : OrganizationalUnits, depth : Nat]

(* The rows of a list are units, and finitely many.                        *)
LEMMA RowsFinite ==
    ASSUME NEW ous \in Forests
    PROVE  /\ Rows(ous) \in SUBSET OrganizationalUnits
           /\ IsFiniteSet(Rows(ous)) /\ Cardinality(Rows(ous)) \in Nat
<1>1. Rows(ous) \in SUBSET OrganizationalUnits
  BY DEF Rows, Forests
<1> QED BY <1>1, UnitsAssumption, FS_Subset, FS_CardinalityType

(* sortOus returns every unit of a set, and each of them once.             *)
LEMMA SortedUnits ==
    ASSUME NEW S, IsFiniteSet(S)
    PROVE  /\ Cardinality(S) \in Nat
           /\ SortOus(S) \in [1 .. Cardinality(S) -> S]
           /\ \A i, j \in 1 .. Cardinality(S) : SortOus(S)[i] = SortOus(S)[j] => i = j
           /\ \A o \in S : \E i \in 1 .. Cardinality(S) : SortOus(S)[i] = o
<1>1. Cardinality(S) \in Nat
  BY FS_CardinalityType
<1>2. PICK f : f \in Bijection(1 .. Cardinality(S), S)
  BY FS_CardinalityType DEF ExistsBijection
<1>3. f \in [1 .. Cardinality(S) -> S] /\ IsInjective(f)
  BY <1>2 DEF Bijection, Injection, IsInjective
<1>4. SortOus(S) \in [1 .. Cardinality(S) -> S] /\ IsInjective(SortOus(S))
  BY <1>3 DEF SortOus, SetToSeq
<1>5. SortOus(S) \in Injection(1 .. Cardinality(S), S)
  BY <1>4 DEF Injection, IsInjective
<1>6. IsFiniteSet(1 .. Cardinality(S)) /\ Cardinality(1 .. Cardinality(S)) = Cardinality(S)
  BY <1>1, FS_Interval
<1>7. SortOus(S) \in Surjection(1 .. Cardinality(S), S)
  BY <1>5, <1>6, FS_Injection
<1> QED BY <1>1, <1>4, <1>7 DEF IsInjective, Surjection

(* AtDepth returns an item for every unit of a set.                        *)
LEMMA ItemsAtDepth ==
    ASSUME NEW S \in SUBSET OrganizationalUnits, NEW d \in Nat
    PROVE  /\ AtDepth(S, d) \in Seq(Item)
           /\ Cardinality(S) \in Nat /\ Len(AtDepth(S, d)) = Cardinality(S)
           /\ \A i \in 1 .. Cardinality(S) :
                  AtDepth(S, d)[i].ou \in S /\ AtDepth(S, d)[i].depth = d
           /\ \A i, j \in 1 .. Cardinality(S) :
                  AtDepth(S, d)[i].ou = AtDepth(S, d)[j].ou => i = j
           /\ \A o \in S : \E i \in 1 .. Cardinality(S) : AtDepth(S, d)[i].ou = o
<1>1. IsFiniteSet(S)
  BY UnitsAssumption, FS_Subset
<1> DEFINE n == Cardinality(S)
           s == SortOus(S)
           items == [i \in 1 .. n |-> [ou |-> s[i], depth |-> d]]
<1>2. /\ n \in Nat /\ s \in [1 .. n -> S]
      /\ \A i, j \in 1 .. n : s[i] = s[j] => i = j
      /\ \A o \in S : \E i \in 1 .. n : s[i] = o
  BY <1>1, SortedUnits
<1>3. AtDepth(S, d) = items
  BY <1>2 DEF AtDepth
<1> HIDE DEF n, s
<1>4. items \in [1 .. n -> Item]
  BY <1>2 DEF Item
<1>5. items \in Seq(Item) /\ Len(items) = n
  BY <1>2, <1>4
<1>6. /\ \A i \in 1 .. n : items[i].ou = s[i] /\ items[i].ou \in S /\ items[i].depth = d
  BY <1>2
<1>7. /\ \A i, j \in 1 .. n : items[i].ou = items[j].ou => i = j
      /\ \A o \in S : \E i \in 1 .. n : items[i].ou = o
  BY <1>2, <1>6
<1> QED BY <1>2, <1>3, <1>5, <1>6, <1>7 DEF n

(* And one of each unit.                                                  *)
LEMMA ItemOfEach ==
    ASSUME NEW S \in SUBSET OrganizationalUnits, NEW d \in Nat, NEW o \in S
    PROVE  \E i \in 1 .. Cardinality(S) : AtDepth(S, d)[i].ou = o
<1>1. IsFiniteSet(S)
  BY UnitsAssumption, FS_Subset
<1>2. SortOus(S) \in [1 .. Cardinality(S) -> S]
  BY <1>1, SortedUnits
<1>3. PICK i \in 1 .. Cardinality(S) : SortOus(S)[i] = o
  BY <1>1, SortedUnits
<1>4. AtDepth(S, d) = [j \in 1 .. Cardinality(S) |-> [ou |-> SortOus(S)[j], depth |-> d]]
  BY <1>2 DEF AtDepth
<1> QED BY <1>3, <1>4

-----------------------------------------------------------------------------
(***************************************************************************)
(* The walk over a list of units, from a stack of items at depth 0.        *)
(***************************************************************************)
WalkStates == [items : Seq(Item), stack : Seq(Item)]

(* An item of a depth follows its parent, with nothing less indented in    *)
(* between.                                                                *)
FollowsParent(ous, items, item) ==
    item.depth > 0 =>
        \E p \in 1 .. Len(items) :
            /\ items[p].ou = ous[item.ou] /\ items[p].depth = item.depth - 1
            /\ \A j \in p + 1 .. Len(items) : items[j].depth >= item.depth

ListedOnce(items) == \A i, j \in 1 .. Len(items) : items[i].ou = items[j].ou => i = j

StackOfRows(ous, w) == \A k \in 1 .. Len(w.stack) : w.stack[k].ou \in Rows(ous)

(* The stack never gets less deep towards its top, and everything on it    *)
(* could be listed next.                                                   *)
StackInOrder(ous, w) ==
    /\ \A i, j \in 1 .. Len(w.stack) : i <= j => w.stack[i].depth >= w.stack[j].depth
    /\ \A k \in 1 .. Len(w.stack) : FollowsParent(ous, w.items, w.stack[k])

(* What the walk began with is listed or still on the stack.               *)
NothingLost(start, w) ==
    \A i \in 1 .. Len(start) :
        \/ start[i].ou \in Visited(w.items)
        \/ \E k \in 1 .. Len(w.stack) : w.stack[k].ou = start[i].ou

(* The units whose parent is listed: those that have been pushed.          *)
ChildrenOf(ous, units) == {o \in Rows(ous) : ous[o] \in units}

(* The children of the root and of what is listed are listed, or wait      *)
(* above place k of the stack.                                             *)
ReachedAbove(ous, w, k) ==
    \A u \in Rows(ous) : ous[u] \in Visited(w.items) \cup {Root} =>
        u \in Visited(w.items) \/ \E i \in 1 .. k - 1 : w.stack[i].ou = u

(* An item at the margin, or the end of the stack, waits until everything  *)
(* that can be reached without it has been listed.                         *)
MarginWaits(ous, w) ==
    \A k \in 1 .. Len(w.stack) + 1 :
        (k \in 1 .. Len(w.stack) => AtMargin(ous, w.stack[k])) => ReachedAbove(ous, w, k)

(* Every round takes one item from the stack; a unit is pushed once, when  *)
(* its parent is listed.                                                   *)
RoundsSuffice(ous, start, n, w) ==
    w.stack # <<>> =>
        Len(w.stack) + n <= Len(start) + Cardinality(ChildrenOf(ous, Visited(w.items)))

WalkInv(ous, start, n, w) ==
    /\ w \in WalkStates
    /\ ListedOnce(w.items) /\ Indented(ous, w.items)
    /\ AttachedNested(ous, w.items) /\ NestedIfParentListed(ous, w.items)
    /\ StackOfRows(ous, w) /\ StackInOrder(ous, w)
    /\ NothingLost(start, w) /\ MarginWaits(ous, w)
    /\ RoundsSuffice(ous, start, n, w)

(* A walk begins at depth 0, with the children of the root before others.  *)
Starts(ous) ==
    {start \in Seq(Item) :
        /\ \A i \in 1 .. Len(start) : start[i].depth = 0 /\ start[i].ou \in Rows(ous)
        /\ \A k \in 1 .. Len(start) + 1 : (k \in 1 .. Len(start) => ous[start[k].ou] # Root) =>
               \A u \in Rows(ous) : ous[u] = Root => \E i \in 1 .. k - 1 : start[i].ou = u}

(* There are at most as many of them as rows.                              *)
LEMMA ChildrenFinite ==
    ASSUME NEW ous \in Forests, NEW units
    PROVE  /\ IsFiniteSet(ChildrenOf(ous, units))
           /\ Cardinality(ChildrenOf(ous, units)) \in Nat
           /\ Cardinality(ChildrenOf(ous, units)) <= Cardinality(Rows(ous))
<1>1. ChildrenOf(ous, units) \in SUBSET Rows(ous)
  BY DEF ChildrenOf
<1> QED BY <1>1, RowsFinite, FS_Subset, FS_CardinalityType

(* The walk begins with nothing listed.                                    *)
LEMMA WalkBegins ==
    ASSUME NEW ous \in Forests, NEW start \in Starts(ous)
    PROVE  WalkInv(ous, start, 0, [items |-> <<>>, stack |-> start])
<1> DEFINE w == [items |-> <<>>, stack |-> start]
<1>1. w \in WalkStates /\ w.items = <<>> /\ w.stack = start /\ Len(start) \in Nat
  BY DEF WalkStates, Starts
<1>2. /\ ListedOnce(w.items) /\ Indented(ous, w.items)
      /\ AttachedNested(ous, w.items) /\ NestedIfParentListed(ous, w.items)
  BY <1>1 DEF ListedOnce, Indented, AttachedNested, NestedIfParentListed
<1>3. StackInOrder(ous, w) /\ StackOfRows(ous, w)
  BY <1>1 DEF StackInOrder, StackOfRows, Starts, FollowsParent
<1>4. NothingLost(start, w)
  BY <1>1 DEF NothingLost
<1>5. Visited(w.items) = {}
  BY <1>1 DEF Visited
<1>6. ChildrenOf(ous, Visited(w.items)) = {}
  BY <1>5 DEF ChildrenOf
<1>7. RoundsSuffice(ous, start, 0, w)
  <2>1. Cardinality(ChildrenOf(ous, Visited(w.items))) = 0
    BY <1>6, FS_EmptySet
  <2> QED BY <1>1, <2>1 DEF RoundsSuffice
<1>8. MarginWaits(ous, w)
  <2>1. ASSUME NEW k \in 1 .. Len(start) + 1,
               k \in 1 .. Len(start) => AtMargin(ous, start[k])
        PROVE  ReachedAbove(ous, w, k)
    <3>1. \A u \in Rows(ous) : ous[u] = Root => \E i \in 1 .. k - 1 : start[i].ou = u
      BY <2>1 DEF Starts, AtMargin
    <3> QED BY <1>1, <1>5, <3>1 DEF ReachedAbove
  <2> QED BY <1>1, <2>1 DEF MarginWaits
<1> QED BY <1>1, <1>2, <1>3, <1>4, <1>7, <1>8 DEF WalkInv

(* When nothing can be reached any more, all that hangs on the root is     *)
(* listed.                                                                 *)
LEMMA ReachedIsAttached ==
    ASSUME NEW ous, NEW w, ReachedAbove(ous, w, 1)
    PROVE  /\ \A u \in Rows(ous) : ous[u] \in Visited(w.items) => u \in Visited(w.items)
           /\ \A o \in Attached(ous) : o \in Visited(w.items)
<1> DEFINE S == {u \in Rows(ous) : u \in Visited(w.items)}
<1>1. \A u \in Rows(ous) : ous[u] \in Visited(w.items) \cup {Root} => u \in Visited(w.items)
  BY DEF ReachedAbove
<1>2. S \in SUBSET Rows(ous) /\ \A u \in Rows(ous) : ous[u] \in S \cup {Root} => u \in S
  BY <1>1
<1>3. \A o \in Attached(ous) : o \in S
  BY <1>2 DEF Attached
<1> QED BY <1>1, <1>3

(* The stack without its top.                                              *)
LEMMA StackTail ==
    ASSUME NEW stack \in Seq(Item), stack # <<>>
    PROVE  /\ Len(stack) \in Nat \ {0} /\ Head(stack) = stack[1] /\ stack[1] \in Item
           /\ Tail(stack) \in Seq(Item) /\ Len(Tail(stack)) = Len(stack) - 1
           /\ \A k \in 1 .. Len(stack) - 1 : Tail(stack)[k] = stack[k + 1]
  BY HeadTailProperties, EmptySeq, ElementOfSeq

(* A round that meets a listed unit.                                       *)
LEMMA SkipKeepsInv ==
    ASSUME NEW ous \in Forests, NEW start \in Starts(ous), NEW n \in Nat, NEW w,
           WalkInv(ous, start, n, w), w.stack # <<>>,
           Head(w.stack).ou \in Visited(w.items)
    PROVE  WalkInv(ous, start, n + 1, [w EXCEPT !.stack = Tail(@)])
<1> DEFINE v == [w EXCEPT !.stack = Tail(@)]
<1>1. w \in WalkStates /\ v.items = w.items /\ v.stack = Tail(w.stack)
  BY DEF WalkInv, WalkStates
<1>2. w.stack \in Seq(Item) /\ w.items \in Seq(Item)
  BY <1>1 DEF WalkStates
<1>3. /\ Len(w.stack) \in Nat \ {0} /\ Head(w.stack) = w.stack[1]
      /\ v.stack \in Seq(Item) /\ Len(v.stack) = Len(w.stack) - 1
      /\ \A k \in 1 .. Len(v.stack) : v.stack[k] = w.stack[k + 1]
  BY <1>1, <1>2, StackTail
<1>4. v \in WalkStates
  BY <1>1, <1>3 DEF WalkStates
<1> HIDE DEF v
<1>5. StackInOrder(ous, v)
  <2>1. StackInOrder(ous, w)
    BY DEF WalkInv
  <2>2. \A i, j \in 1 .. Len(v.stack) : i <= j => v.stack[i].depth >= v.stack[j].depth
    <3> SUFFICES ASSUME NEW i \in 1 .. Len(v.stack), NEW j \in 1 .. Len(v.stack), i <= j
                 PROVE  v.stack[i].depth >= v.stack[j].depth
      OBVIOUS
    <3>1. i + 1 \in 1 .. Len(w.stack) /\ j + 1 \in 1 .. Len(w.stack) /\ i + 1 <= j + 1
      BY <1>3
    <3>2. w.stack[i + 1].depth >= w.stack[j + 1].depth
      BY <2>1, <3>1 DEF StackInOrder
    <3> QED BY <1>3, <3>2
  <2>3. \A k \in 1 .. Len(v.stack) : FollowsParent(ous, v.items, v.stack[k])
    <3> SUFFICES ASSUME NEW k \in 1 .. Len(v.stack)
                 PROVE  FollowsParent(ous, v.items, v.stack[k])
      OBVIOUS
    <3>1. k + 1 \in 1 .. Len(w.stack) /\ v.stack[k] = w.stack[k + 1]
      BY <1>3
    <3> QED BY <1>1, <2>1, <3>1 DEF StackInOrder
  <2> QED BY <2>2, <2>3 DEF StackInOrder
<1>6. NothingLost(start, v)
  <2> SUFFICES ASSUME NEW i \in 1 .. Len(start), start[i].ou \notin Visited(v.items)
               PROVE  \E k \in 1 .. Len(v.stack) : v.stack[k].ou = start[i].ou
    BY DEF NothingLost
  <2>1. PICK k \in 1 .. Len(w.stack) : w.stack[k].ou = start[i].ou
    BY <1>1 DEF WalkInv, NothingLost
  <2>2. k # 1
    BY <1>1, <1>3, <2>1
  <2>3. k - 1 \in 1 .. Len(v.stack) /\ v.stack[k - 1] = w.stack[k]
    BY <1>3, <2>2
  <2> QED BY <2>1, <2>3
<1>7. RoundsSuffice(ous, start, n + 1, v)
  <2> DEFINE pushed == Cardinality(ChildrenOf(ous, Visited(w.items)))
  <2>1. pushed \in Nat /\ Len(start) \in Nat
    BY ChildrenFinite DEF Starts
  <2>2. Len(w.stack) + n <= Len(start) + pushed
    BY DEF WalkInv, RoundsSuffice
  <2>3. pushed = Cardinality(ChildrenOf(ous, Visited(v.items)))
    BY <1>1
  <2> HIDE DEF pushed
  <2>4. Len(v.stack) + (n + 1) <= Len(start) + pushed
    BY <1>3, <2>1, <2>2
  <2> QED BY <2>3, <2>4 DEF RoundsSuffice
<1>8. /\ ListedOnce(v.items) /\ Indented(ous, v.items)
      /\ AttachedNested(ous, v.items) /\ NestedIfParentListed(ous, v.items)
  BY <1>1 DEF WalkInv
<1>9. StackOfRows(ous, v)
  <2> SUFFICES ASSUME NEW k \in 1 .. Len(v.stack)
               PROVE  v.stack[k].ou \in Rows(ous)
    BY DEF StackOfRows
  <2>1. k + 1 \in 1 .. Len(w.stack) /\ v.stack[k] = w.stack[k + 1]
    BY <1>3
  <2> QED BY <2>1 DEF WalkInv, StackOfRows
<1>10. MarginWaits(ous, v)
  <2> SUFFICES ASSUME NEW k \in 1 .. Len(v.stack) + 1,
                      k \in 1 .. Len(v.stack) => AtMargin(ous, v.stack[k]),
                      NEW u \in Rows(ous), ous[u] \in Visited(v.items) \cup {Root},
                      u \notin Visited(v.items)
               PROVE  \E i \in 1 .. k - 1 : v.stack[i].ou = u
    BY DEF MarginWaits, ReachedAbove
  <2>1. k + 1 \in 1 .. Len(w.stack) + 1 /\ (k + 1) - 1 = k
    BY <1>3
  <2>2. k + 1 \in 1 .. Len(w.stack) => k \in 1 .. Len(v.stack) /\ v.stack[k] = w.stack[k + 1]
    BY <1>3
  <2>3. k + 1 \in 1 .. Len(w.stack) => AtMargin(ous, w.stack[k + 1])
    BY <2>2
  <2>4. ReachedAbove(ous, w, k + 1)
    BY <2>1, <2>3 DEF WalkInv, MarginWaits
  <2>5. PICK i \in 1 .. k : w.stack[i].ou = u
    BY <1>1, <2>1, <2>4 DEF ReachedAbove
  <2>6. i # 1
    BY <1>1, <1>3, <2>5
  <2>7. i - 1 \in 1 .. k - 1 /\ i - 1 \in 1 .. Len(v.stack) /\ (i - 1) + 1 = i
    BY <1>3, <2>5, <2>6
  <2>8. v.stack[i - 1] = w.stack[i]
    BY <1>3, <2>7
  <2> QED BY <2>5, <2>7, <2>8
<1> QED BY <1>4, <1>5, <1>6, <1>7, <1>8, <1>9, <1>10 DEF WalkInv, v

(* The items above a new unit's: the unit's children, then the rest.       *)
LEMMA StackPush ==
    ASSUME NEW children \in Seq(Item), NEW rest \in Seq(Item)
    PROVE  /\ children \o rest \in Seq(Item)
           /\ Len(children) \in Nat /\ Len(rest) \in Nat
           /\ Len(children \o rest) = Len(children) + Len(rest)
           /\ \A k \in 1 .. Len(children) + Len(rest) :
                  (children \o rest)[k] = IF k <= Len(children) THEN children[k]
                                          ELSE rest[k - Len(children)]
  BY ConcatProperties, LenProperties

(* A child is at least as deep as what is no deeper than its parent.       *)
LEMMA LessDeep == \A d, e \in Nat : e <= d => d + 1 >= e
  OBVIOUS

(* A round lists the unit at the top as item L + 1 and pushes its C        *)
(* children above the R items that remain.                                 *)
ListsTop(ous, w, v, top, C, R, L) ==
    /\ v \in WalkStates /\ top \in Item /\ C \in Nat /\ R \in Nat /\ L \in Nat
    /\ Len(w.stack) = R + 1 /\ w.stack[1] = top
    /\ Len(w.items) = L /\ top.ou \notin Visited(w.items)
    /\ C = Cardinality(ChildrenOf(ous, {top.ou})) /\ Len(v.stack) = C + R
    /\ \A k \in 1 .. C :
           v.stack[k].ou \in ChildrenOf(ous, {top.ou}) /\ v.stack[k].depth = top.depth + 1
    /\ \A o \in ChildrenOf(ous, {top.ou}) : \E k \in 1 .. C : v.stack[k].ou = o
    /\ \A k \in 1 .. R : v.stack[C + k] = w.stack[k + 1]
    /\ Len(v.items) = L + 1 /\ v.items[L + 1] = top
    /\ \A i \in 1 .. L : v.items[i] = w.items[i]

(* Such a round keeps the invariant.                                       *)
LEMMA ListingKeepsInv ==
    ASSUME NEW ous \in Forests, NEW start \in Starts(ous), NEW n \in Nat, NEW w, NEW v,
           WalkInv(ous, start, n, w),
           NEW top, NEW C, NEW R, NEW L, ListsTop(ous, w, v, top, C, R, L)
    PROVE  WalkInv(ous, start, n + 1, v)
<1> DEFINE siblings == ChildrenOf(ous, {top.ou})
<1>types. /\ v \in WalkStates /\ top \in Item /\ C \in Nat /\ R \in Nat /\ L \in Nat
          /\ top.ou \in OrganizationalUnits /\ top.depth \in Nat
  BY DEF ListsTop, Item
<1>sizes. /\ Len(w.stack) = R + 1 /\ Len(w.items) = L
          /\ Len(v.stack) = C + R /\ Len(v.items) = L + 1
  BY DEF ListsTop
<1>top. /\ w.stack[1] = top /\ v.items[L + 1] = top /\ top.ou \notin Visited(w.items)
        /\ C = Cardinality(siblings)
  BY DEF ListsTop
<1>children. \A k \in 1 .. C :
                 v.stack[k].ou \in siblings /\ v.stack[k].depth = top.depth + 1
  BY DEF ListsTop
<1>pushed. \A o \in siblings : \E k \in 1 .. C : v.stack[k].ou = o
  BY DEF ListsTop
<1>rest. \A k \in 1 .. R : v.stack[C + k] = w.stack[k + 1]
  BY DEF ListsTop
<1>items. \A i \in 1 .. L : v.items[i] = w.items[i]
  BY DEF ListsTop
<1> HIDE DEF siblings
<1>1. w \in WalkStates /\ w.stack \in Seq(Item) /\ w.items \in Seq(Item)
  BY DEF WalkInv, WalkStates
<1>3. DOMAIN w.items = 1 .. L /\ DOMAIN v.items = 1 .. L + 1
  BY <1>types, <1>sizes, <1>1, LenProperties DEF WalkStates
<1>4. Visited(v.items) = Visited(w.items) \cup {top.ou}
  <2>1. Visited(w.items) = {w.items[i].ou : i \in 1 .. L}
    BY <1>3 DEF Visited
  <2>2. Visited(v.items) = {v.items[i].ou : i \in 1 .. L + 1}
    BY <1>3 DEF Visited
  <2>3. ASSUME NEW x \in Visited(v.items)
        PROVE  x \in Visited(w.items) \/ x = top.ou
    <3>1. PICK i \in 1 .. L + 1 : x = v.items[i].ou
      BY <2>2, <2>3
    <3>2. i \in 1 .. L \/ i = L + 1
      BY <1>types
    <3> QED BY <1>top, <1>items, <2>1, <3>1, <3>2
  <2>4. ASSUME NEW x \in Visited(w.items)
        PROVE  x \in Visited(v.items)
    <3>1. PICK i \in 1 .. L : x = w.items[i].ou
      BY <2>1, <2>4
    <3>2. i \in 1 .. L + 1
      BY <1>types
    <3> QED BY <1>items, <2>2, <3>1, <3>2
  <2>5. top.ou \in Visited(v.items)
    <3>1. L + 1 \in 1 .. L + 1
      BY <1>types
    <3> QED BY <1>top, <2>2, <3>1
  <2> QED BY <2>3, <2>4, <2>5
<1>5. \A k \in 1 .. R + 1 : w.stack[k].depth \in Nat /\ w.stack[k].depth <= top.depth
  <2> SUFFICES ASSUME NEW k \in 1 .. R + 1
               PROVE  w.stack[k].depth \in Nat /\ w.stack[k].depth <= top.depth
    OBVIOUS
  <2>1. w.stack[k] \in Item
    BY <1>1, <1>sizes, ElementOfSeq
  <2>2. 1 \in 1 .. Len(w.stack) /\ k \in 1 .. Len(w.stack) /\ 1 <= k
    BY <1>types, <1>sizes
  <2>3. w.stack[1].depth >= w.stack[k].depth
    BY <2>2 DEF WalkInv, StackInOrder
  <2> QED BY <1>types, <1>top, <2>1, <2>3 DEF Item
(* An item of the new stack is a child, or was there.                      *)
<1>6. \A k \in 1 .. C + R : k \in 1 .. C \/ \E m \in 1 .. R : k = C + m
  <2> SUFFICES ASSUME NEW k \in 1 .. C + R, k \notin 1 .. C
               PROVE  \E m \in 1 .. R : k = C + m
    OBVIOUS
  <2>1. k - C \in 1 .. R /\ k = C + (k - C)
    BY <1>types
  <2> QED BY <2>1
<1>7. \A k \in 1 .. R : C + k \in 1 .. C + R /\ k + 1 \in 1 .. R + 1
  BY <1>types
<1>8. ListedOnce(v.items)
  <2>1. \A i \in 1 .. L : w.items[i].ou # top.ou
    BY <1>3, <1>top DEF Visited
  <2>2. \A i, j \in 1 .. L : w.items[i].ou = w.items[j].ou => i = j
    BY <1>sizes DEF WalkInv, ListedOnce
  <2> SUFFICES ASSUME NEW i \in 1 .. L + 1, NEW j \in 1 .. L + 1,
                      v.items[i].ou = v.items[j].ou
               PROVE  i = j
    BY <1>sizes DEF ListedOnce
  <2>3. (i \in 1 .. L \/ i = L + 1) /\ (j \in 1 .. L \/ j = L + 1)
    BY <1>types
  <2> QED BY <1>top, <1>items, <2>1, <2>2, <2>3
<1>9. Indented(ous, v.items)
  <2> SUFFICES ASSUME NEW i \in 1 .. L + 1, v.items[i].depth > 0
               PROVE  \E p \in 1 .. i - 1 :
                          /\ v.items[p].ou = ous[v.items[i].ou]
                          /\ v.items[p].depth = v.items[i].depth - 1
                          /\ \A j \in p + 1 .. i - 1 : v.items[j].depth >= v.items[i].depth
    BY <1>3 DEF Indented
  <2>1. CASE i \in 1 .. L
    <3>1. PICK p \in 1 .. i - 1 :
              /\ w.items[p].ou = ous[w.items[i].ou] /\ w.items[p].depth = w.items[i].depth - 1
              /\ \A j \in p + 1 .. i - 1 : w.items[j].depth >= w.items[i].depth
      BY <1>3, <1>items, <2>1 DEF WalkInv, Indented
    <3>2. p \in 1 .. L /\ \A j \in p + 1 .. i - 1 : j \in 1 .. L
      BY <1>types, <2>1
    <3> QED BY <1>items, <2>1, <3>1, <3>2
  <2>2. CASE i = L + 1
    <3>1. FollowsParent(ous, w.items, top)
      <4>1. 1 \in 1 .. Len(w.stack)
        BY <1>types, <1>sizes
      <4> QED BY <1>top, <4>1 DEF WalkInv, StackInOrder
    <3>2. PICK p \in 1 .. L :
              /\ w.items[p].ou = ous[top.ou] /\ w.items[p].depth = top.depth - 1
              /\ \A j \in p + 1 .. L : w.items[j].depth >= top.depth
      BY <1>sizes, <1>top, <2>2, <3>1 DEF FollowsParent
    <3>3. i - 1 = L
      BY <1>types, <2>2
    <3>4. \A j \in p + 1 .. L : v.items[j] = w.items[j]
      BY <1>types, <1>items
    <3>5. /\ v.items[p].ou = ous[v.items[i].ou] /\ v.items[p].depth = v.items[i].depth - 1
          /\ \A j \in p + 1 .. L : v.items[j].depth >= v.items[i].depth
      BY <1>top, <1>items, <2>2, <3>2, <3>4
    <3> QED BY <3>3, <3>5
  <2> QED BY <1>types, <2>1, <2>2
<1>10. StackInOrder(ous, v)
  <2>1. ASSUME NEW i \in 1 .. C + R, NEW j \in 1 .. C + R, i <= j
        PROVE  v.stack[i].depth >= v.stack[j].depth
    <3>1. CASE j \in 1 .. C
      <4>1. i \in 1 .. C
        BY <1>types, <2>1, <3>1
      <4>2. v.stack[i].depth = top.depth + 1 /\ v.stack[j].depth = top.depth + 1
        BY <1>children, <3>1, <4>1
      <4> QED BY <1>types, <4>2
    <3>2. ASSUME NEW m \in 1 .. R, j = C + m, i \in 1 .. C
          PROVE  v.stack[i].depth >= v.stack[j].depth
      <4>1. v.stack[i].depth = top.depth + 1
        BY <1>children, <3>2
      <4>2. v.stack[j] = w.stack[m + 1] /\ m + 1 \in 1 .. R + 1
        BY <1>7, <1>rest, <3>2
      <4>3. v.stack[j].depth \in Nat /\ v.stack[j].depth <= top.depth
        BY <1>5, <4>2
      <4> QED BY <1>types, <4>1, <4>3, LessDeep, Zenon
    <3>3. ASSUME NEW l \in 1 .. R, NEW m \in 1 .. R, i = C + l, j = C + m
          PROVE  v.stack[i].depth >= v.stack[j].depth
      <4>1. v.stack[i] = w.stack[l + 1] /\ v.stack[j] = w.stack[m + 1]
        BY <1>rest, <3>3
      <4>2. l + 1 \in 1 .. Len(w.stack) /\ m + 1 \in 1 .. Len(w.stack) /\ l + 1 <= m + 1
        BY <1>types, <1>sizes, <2>1, <3>3
      <4>3. w.stack[l + 1].depth >= w.stack[m + 1].depth
        BY <4>2 DEF WalkInv, StackInOrder
      <4> QED BY <4>1, <4>3
    <3> QED BY <1>6, <3>1, <3>2, <3>3
  <2>2. ASSUME NEW k \in 1 .. C
        PROVE  FollowsParent(ous, v.items, v.stack[k])
    <3>1. /\ ous[v.stack[k].ou] = top.ou /\ v.stack[k].depth = top.depth + 1
          /\ top.depth = v.stack[k].depth - 1
      <4>1. v.stack[k].ou \in siblings /\ v.stack[k].depth = top.depth + 1
        BY <1>children
      <4>3. ous[v.stack[k].ou] = top.ou
        BY <4>1 DEF ChildrenOf, siblings
      <4>2. top.depth = (top.depth + 1) - 1
        BY <1>types
      <4> QED BY <4>1, <4>2, <4>3
    <3>2. L + 1 \in 1 .. Len(v.items) /\ \A j \in (L + 1) + 1 .. Len(v.items) : FALSE
      BY <1>types, <1>sizes
    <3> QED BY <1>top, <3>1, <3>2 DEF FollowsParent
  <2>3. ASSUME NEW item, item.depth \in Nat, item.depth <= top.depth,
               FollowsParent(ous, w.items, item)
        PROVE  FollowsParent(ous, v.items, item)
    <3> SUFFICES ASSUME item.depth > 0
                 PROVE  \E p \in 1 .. L + 1 :
                            /\ v.items[p].ou = ous[item.ou] /\ v.items[p].depth = item.depth - 1
                            /\ \A j \in p + 1 .. L + 1 : v.items[j].depth >= item.depth
      BY <1>sizes DEF FollowsParent
    <3>1. PICK p \in 1 .. L :
              /\ w.items[p].ou = ous[item.ou] /\ w.items[p].depth = item.depth - 1
              /\ \A j \in p + 1 .. L : w.items[j].depth >= item.depth
      BY <1>sizes, <2>3 DEF FollowsParent
    <3>2. p \in 1 .. L + 1 /\ v.items[p] = w.items[p]
      BY <1>types, <1>items
    <3>3. ASSUME NEW j \in p + 1 .. L + 1
          PROVE  v.items[j].depth >= item.depth
      <4>1. CASE j = L + 1
        BY <1>top, <2>3, <4>1
      <4>2. CASE j # L + 1
        <5>1. j \in p + 1 .. L /\ j \in 1 .. L
          BY <1>types, <3>3, <4>2
        <5> QED BY <1>items, <3>1, <5>1
      <4> QED BY <4>1, <4>2
    <3> QED BY <3>1, <3>2, <3>3
  <2>4. ASSUME NEW m \in 1 .. R
        PROVE  FollowsParent(ous, v.items, v.stack[C + m])
    <3>1. v.stack[C + m] = w.stack[m + 1] /\ m + 1 \in 1 .. Len(w.stack) /\ m + 1 \in 1 .. R + 1
      BY <1>7, <1>sizes, <1>rest
    <3>2. FollowsParent(ous, w.items, w.stack[m + 1])
      BY <3>1 DEF WalkInv, StackInOrder
    <3> QED BY <1>5, <2>3, <3>1, <3>2
  <2>5. \A k \in 1 .. C + R : FollowsParent(ous, v.items, v.stack[k])
    BY <1>6, <2>2, <2>4
  <2> QED BY <1>sizes, <2>1, <2>5 DEF StackInOrder
<1>11. NothingLost(start, v)
  <2> SUFFICES ASSUME NEW i \in 1 .. Len(start), start[i].ou \notin Visited(v.items)
               PROVE  \E k \in 1 .. Len(v.stack) : v.stack[k].ou = start[i].ou
    BY DEF NothingLost
  <2>1. PICK k \in 1 .. R + 1 : w.stack[k].ou = start[i].ou
    BY <1>4, <1>sizes DEF WalkInv, NothingLost
  <2>2. k # 1
    BY <1>4, <1>top, <2>1
  <2>3. k - 1 \in 1 .. R /\ (k - 1) + 1 = k
    BY <1>types, <2>2
  <2>4. v.stack[C + (k - 1)] = w.stack[k] /\ C + (k - 1) \in 1 .. C + R
    BY <1>7, <1>rest, <2>3
  <2> QED BY <1>sizes, <2>1, <2>4
<1>12. RoundsSuffice(ous, start, n + 1, v)
  <2> DEFINE before == ChildrenOf(ous, Visited(w.items))
             after == ChildrenOf(ous, Visited(v.items))
  <2>1. after = before \cup siblings /\ before \cap siblings = {}
    BY <1>4, <1>top DEF ChildrenOf, siblings
  <2>2. IsFiniteSet(before) /\ Cardinality(before) \in Nat /\ Len(start) \in Nat
    BY ChildrenFinite DEF Starts
  <2>3. siblings \in SUBSET OrganizationalUnits
    BY RowsFinite DEF ChildrenOf, siblings
  <2>4. IsFiniteSet(siblings)
    BY <2>3, UnitsAssumption, FS_Subset
  <2>5. w.stack # <<>>
    BY <1>types, <1>sizes, EmptySeq
  <2>6. Len(w.stack) + n <= Len(start) + Cardinality(before)
    BY <2>5 DEF WalkInv, RoundsSuffice
  <2> HIDE DEF before, after
  <2>7. Cardinality(after) = Cardinality(before) + C
    <3>1. Cardinality(before \cap siblings) = 0
      BY <2>1, FS_EmptySet
    <3>2. Cardinality(before \cup siblings)
              = Cardinality(before) + Cardinality(siblings) - Cardinality(before \cap siblings)
      BY <2>2, <2>4, FS_Union
    <3> QED BY <1>types, <1>top, <2>1, <2>2, <3>1, <3>2
  <2>8. Len(v.stack) + (n + 1) <= Len(start) + Cardinality(after)
    BY <1>types, <1>sizes, <2>2, <2>6, <2>7
  <2> QED BY <2>8 DEF RoundsSuffice, after
<1>13. StackOfRows(ous, v)
  <2>1. ASSUME NEW k \in 1 .. C
        PROVE  v.stack[k].ou \in Rows(ous)
    BY <1>children DEF siblings, ChildrenOf
  <2>2. ASSUME NEW m \in 1 .. R
        PROVE  v.stack[C + m].ou \in Rows(ous)
    <3>1. m + 1 \in 1 .. Len(w.stack) /\ v.stack[C + m] = w.stack[m + 1]
      BY <1>7, <1>sizes, <1>rest
    <3> QED BY <3>1 DEF WalkInv, StackOfRows
  <2> QED BY <1>6, <1>sizes, <2>1, <2>2 DEF StackOfRows
<1>14. MarginWaits(ous, v)
  <2> SUFFICES ASSUME NEW k \in 1 .. (C + R) + 1,
                      k \in 1 .. C + R => AtMargin(ous, v.stack[k]),
                      NEW u \in Rows(ous), ous[u] \in Visited(v.items) \cup {Root},
                      u \notin Visited(v.items)
               PROVE  \E i \in 1 .. k - 1 : v.stack[i].ou = u
    BY <1>sizes DEF MarginWaits, ReachedAbove
  <2>1. ASSUME k \in 1 .. C
        PROVE  FALSE
    <3>1. v.stack[k].depth = top.depth + 1
      BY <1>children, <2>1
    <3>2. k \in 1 .. C + R
      BY <1>types, <2>1
    <3> QED BY <1>types, <3>1, <3>2 DEF AtMargin
  <2>2. C \in 0 .. k - 1
    BY <1>types, <2>1
  <2>3. CASE u \in siblings
    <3>1. PICK i \in 1 .. C : v.stack[i].ou = u
      BY <1>pushed, <2>3
    <3>2. i \in 1 .. k - 1
      BY <1>types, <2>2
    <3> QED BY <3>1, <3>2
  <2>4. CASE u \notin siblings
    <3>1. ous[u] # top.ou
      BY <2>4 DEF siblings, ChildrenOf
    <3>2. ous[u] \in Visited(w.items) \cup {Root} /\ u \notin Visited(w.items) /\ u # top.ou
      BY <1>4, <3>1
    <3> DEFINE l == (k - C) + 1
    <3>3. l \in 1 .. Len(w.stack) + 1 /\ l - 1 \in Nat /\ k = C + (l - 1) /\ l \in Nat
      BY <1>types, <1>sizes, <2>2
    <3> HIDE DEF l
    <3>4. ASSUME l \in 1 .. Len(w.stack)
          PROVE  AtMargin(ous, w.stack[l])
      <4>1. l - 1 \in 1 .. R /\ (l - 1) + 1 = l /\ k \in 1 .. C + R
        BY <1>types, <1>sizes, <2>1, <3>3, <3>4
      <4>2. v.stack[k] = w.stack[l]
        BY <1>rest, <3>3, <4>1
      <4> QED BY <4>1, <4>2
    <3>5. ReachedAbove(ous, w, l)
      BY <3>3, <3>4 DEF WalkInv, MarginWaits
    <3>6. PICK j \in 1 .. l - 1 : w.stack[j].ou = u
      BY <3>2, <3>5 DEF ReachedAbove
    <3>7. j # 1
      BY <1>top, <3>2, <3>6
    <3>8. /\ j - 1 \in 1 .. R /\ (j - 1) + 1 = j
          /\ C + (j - 1) \in 1 .. k - 1
      BY <1>types, <1>sizes, <3>3, <3>6, <3>7
    <3>9. v.stack[C + (j - 1)] = w.stack[j]
      BY <1>rest, <3>8
    <3> QED BY <3>6, <3>8, <3>9
  <2> QED BY <2>3, <2>4
(* An item at the margin is listed when all that hangs on the root is.     *)
<1>15. ASSUME AtMargin(ous, top)
       PROVE  /\ top.ou \notin Attached(ous)
              /\ \A i \in 1 .. L : w.items[i].ou # ous[top.ou]
  <2>1. 1 \in 1 .. Len(w.stack) /\ 1 \in 1 .. Len(w.stack) + 1
    BY <1>types, <1>sizes
  <2>2. ReachedAbove(ous, w, 1)
    BY <1>top, <1>15, <2>1 DEF WalkInv, MarginWaits
  <2>3. top.ou \in Rows(ous)
    BY <1>top, <2>1 DEF WalkInv, StackOfRows
  <2>4. \A i \in 1 .. L : w.items[i].ou \in Visited(w.items)
    BY <1>3 DEF Visited
  <2> QED BY <1>top, <2>2, <2>3, <2>4, ReachedIsAttached
<1>16. AttachedNested(ous, v.items)
  <2> SUFFICES ASSUME NEW i \in 1 .. L + 1, AtMargin(ous, v.items[i])
               PROVE  v.items[i].ou \notin Attached(ous)
    BY <1>3 DEF AttachedNested
  <2>1. CASE i \in 1 .. L
    BY <1>3, <1>items, <2>1 DEF WalkInv, AttachedNested
  <2>2. CASE i = L + 1
    BY <1>top, <1>15, <2>2
  <2> QED BY <1>types, <2>1, <2>2
<1>17. NestedIfParentListed(ous, v.items)
  <2> SUFFICES ASSUME NEW i \in 1 .. L + 1, AtMargin(ous, v.items[i]), NEW p \in 1 .. i - 1
               PROVE  v.items[p].ou # ous[v.items[i].ou]
    BY <1>3 DEF NestedIfParentListed
  <2>1. p \in 1 .. L /\ v.items[p] = w.items[p]
    BY <1>types, <1>items
  <2>2. CASE i \in 1 .. L
    BY <1>3, <1>items, <2>1, <2>2 DEF WalkInv, NestedIfParentListed
  <2>3. CASE i = L + 1
    BY <1>top, <1>15, <2>1, <2>3
  <2> QED BY <1>types, <2>2, <2>3
<1> QED BY <1>types, <1>8, <1>9, <1>10, <1>11, <1>12, <1>13, <1>14, <1>16, <1>17 DEF WalkInv

(* The same of the step itself.                                            *)
LEMMA ListKeepsInv ==
    ASSUME NEW ous \in Forests, NEW start \in Starts(ous), NEW n \in Nat, NEW w,
           WalkInv(ous, start, n, w), w.stack # <<>>,
           Head(w.stack).ou \notin Visited(w.items)
    PROVE  WalkInv(ous, start, n + 1,
                   [items |-> Append(w.items, Head(w.stack)),
                    stack |-> ByParent(ous, Head(w.stack).ou, Head(w.stack).depth + 1)
                                  \o Tail(w.stack)])
<1>1. w \in WalkStates /\ w.stack \in Seq(Item) /\ w.items \in Seq(Item)
  BY DEF WalkInv, WalkStates
<1> DEFINE top == Head(w.stack)
           siblings == {o \in Rows(ous) : ous[o] = top.ou}
           C == Cardinality(siblings)
           children == AtDepth(siblings, top.depth + 1)
           rest == Tail(w.stack)
           R == Len(w.stack) - 1
           items == Append(w.items, top)
           stack == children \o rest
           v == [items |-> items, stack |-> stack]
<1>2. /\ R \in Nat /\ Len(w.stack) = R + 1 /\ top = w.stack[1] /\ top \in Item
      /\ rest \in Seq(Item) /\ Len(rest) = R /\ \A k \in 1 .. R : rest[k] = w.stack[k + 1]
  BY <1>1, StackTail
<1>3. siblings \in SUBSET OrganizationalUnits
  BY RowsFinite
<1>4. ByParent(ous, top.ou, top.depth + 1) = children
  BY DEF ByParent
<1> HIDE DEF top, rest, R
<1>5. top.depth + 1 \in Nat
  BY <1>2 DEF Item
<1>6. /\ items \in Seq(Item) /\ Len(items) = Len(w.items) + 1 /\ Len(w.items) \in Nat
      /\ items[Len(w.items) + 1] = top /\ \A i \in 1 .. Len(w.items) : items[i] = w.items[i]
  BY <1>1, <1>2, AppendProperties, LenProperties
<1>7. siblings = ChildrenOf(ous, {top.ou})
  BY DEF ChildrenOf
<1> HIDE DEF siblings
<1>8. /\ children \in Seq(Item) /\ C \in Nat /\ Len(children) = C
      /\ \A i \in 1 .. C : children[i].ou \in siblings /\ children[i].depth = top.depth + 1
      /\ \A o \in siblings : \E i \in 1 .. C : children[i].ou = o
  <2> DEFINE d == top.depth + 1
  <2>1. d \in Nat
    BY <1>5
  <2> HIDE DEF d
  <2>2. /\ AtDepth(siblings, d) \in Seq(Item)
        /\ C \in Nat /\ Len(AtDepth(siblings, d)) = C
    BY <1>3, <2>1, ItemsAtDepth
  <2>3. \A i \in 1 .. C :
            AtDepth(siblings, d)[i].ou \in siblings /\ AtDepth(siblings, d)[i].depth = d
    BY <1>3, <2>1, ItemsAtDepth
  <2>4. \A o \in siblings : \E i \in 1 .. C : AtDepth(siblings, d)[i].ou = o
    BY <1>3, <2>1, ItemOfEach
  <2> QED BY <2>2, <2>3, <2>4 DEF d
<1>9. C = Cardinality(siblings)
  OBVIOUS
<1> HIDE DEF children, C
<1>10. /\ stack \in Seq(Item) /\ Len(stack) = C + R
       /\ \A k \in 1 .. C + R : stack[k] = IF k <= C THEN children[k] ELSE rest[k - C]
  BY <1>2, <1>8, StackPush
<1> HIDE DEF stack, items
<1>11. v \in WalkStates /\ v.items = items /\ v.stack = stack
  BY <1>6, <1>10 DEF WalkStates
<1>12. /\ \A k \in 1 .. C : stack[k].ou \in siblings /\ stack[k].depth = top.depth + 1
       /\ \A o \in siblings : \E k \in 1 .. C : stack[k].ou = o
  <2>1. ASSUME NEW k \in 1 .. C
        PROVE  stack[k] = children[k]
    <3>1. k \in 1 .. C + R /\ k <= C
      BY <1>2, <1>8
    <3> QED BY <1>10, <3>1
  <2> QED BY <1>8, <2>1
<1>13. \A k \in 1 .. R : stack[C + k] = w.stack[k + 1]
  <2> SUFFICES ASSUME NEW k \in 1 .. R
               PROVE  stack[C + k] = w.stack[k + 1]
    OBVIOUS
  <2>1. C + k \in 1 .. C + R /\ ~(C + k <= C) /\ (C + k) - C = k
    BY <1>2, <1>8
  <2> QED BY <1>2, <1>10, <2>1
<1>14. top.ou \notin Visited(w.items)
  BY DEF top
<1> HIDE DEF v
<1>15. ListsTop(ous, w, v, top, C, R, Len(w.items))
  <2>1. /\ Len(v.stack) = C + R
        /\ \A k \in 1 .. C : v.stack[k].ou \in siblings /\ v.stack[k].depth = top.depth + 1
        /\ \A o \in siblings : \E k \in 1 .. C : v.stack[k].ou = o
        /\ \A k \in 1 .. R : v.stack[C + k] = w.stack[k + 1]
    BY <1>10, <1>11, <1>12, <1>13
  <2>2. /\ Len(v.items) = Len(w.items) + 1 /\ v.items[Len(w.items) + 1] = top
        /\ \A i \in 1 .. Len(w.items) : v.items[i] = w.items[i]
    BY <1>6, <1>11
  <2>3. w.stack[1] = top /\ v \in WalkStates
    BY <1>2, <1>11
  <2> QED BY <1>2, <1>6, <1>7, <1>8, <1>9, <1>14, <2>1, <2>2, <2>3, Zenon DEF ListsTop
<1>16. WalkInv(ous, start, n + 1, v)
  BY <1>15, ListingKeepsInv
<1> QED BY <1>4, <1>16 DEF v, items, stack, top, rest

-----------------------------------------------------------------------------
(***************************************************************************)
(* From one round to all of them.                                          *)
(***************************************************************************)
Round(ous, w) == IF w.stack = <<>> THEN w ELSE PushChildren(ous, w)

(* Every round keeps the invariant.                                        *)
LEMMA RoundKeepsInv ==
    ASSUME NEW ous \in Forests, NEW start \in Starts(ous), NEW n \in Nat, NEW w,
           WalkInv(ous, start, n, w)
    PROVE  WalkInv(ous, start, n + 1, Round(ous, w))
<1>1. CASE w.stack = <<>>
  <2>1. Round(ous, w) = w
    BY <1>1 DEF Round
  <2>2. RoundsSuffice(ous, start, n + 1, w)
    BY <1>1 DEF RoundsSuffice
  <2> QED BY <2>1, <2>2 DEF WalkInv
<1>2. CASE w.stack # <<>> /\ Head(w.stack).ou \in Visited(w.items)
  <2>1. Round(ous, w) = [w EXCEPT !.stack = Tail(@)]
    BY <1>2 DEF Round, PushChildren
  <2> QED BY <1>2, <2>1, SkipKeepsInv
<1>3. CASE w.stack # <<>> /\ Head(w.stack).ou \notin Visited(w.items)
  <2>1. Round(ous, w) = [items |-> Append(w.items, Head(w.stack)),
                         stack |-> ByParent(ous, Head(w.stack).ou, Head(w.stack).depth + 1)
                                       \o Tail(w.stack)]
    BY <1>3 DEF Round, PushChildren
  <2> QED BY <1>3, <2>1, ListKeepsInv
<1> QED BY <1>1, <1>2, <1>3

(* The states of the walk up to a round.                                   *)
IsWalk(ous, start, N, f) ==
    f = [n \in 0 .. N |-> IF n = 0 THEN [items |-> <<>>, stack |-> start]
                          ELSE Round(ous, f[n - 1])]

(* The recursion of Walk defines a function for any number of rounds.      *)
LEMMA WalkExists ==
    ASSUME NEW ous, NEW start, NEW N \in Nat
    PROVE  \E f : IsWalk(ous, start, N, f)
<1> DEFINE first == [items |-> <<>>, stack |-> start]
           S == {n \in Nat : \E f : IsWalk(ous, start, n, f)}
<1>1. 0 \in S
  <2> DEFINE f == [n \in 0 .. 0 |-> first]
  <2>1. f = [n \in 0 .. 0 |-> IF n = 0 THEN first ELSE Round(ous, f[n - 1])]
    <3>1. \A n \in 0 .. 0 : n = 0
      OBVIOUS
    <3> QED BY <3>1, Zenon
  <2>2. IsWalk(ous, start, 0, f)
    BY <2>1 DEF IsWalk
  <2> QED BY <2>2
<1>2. ASSUME NEW n \in Nat, n < N, n \in S
      PROVE  n + 1 \in S
  <2>1. PICK f : IsWalk(ous, start, n, f)
    BY <1>2
  <2> DEFINE g == [m \in 0 .. n + 1 |-> IF m = n + 1 THEN Round(ous, f[n]) ELSE f[m]]
             next(m) == IF m = 0 THEN first ELSE Round(ous, g[m - 1])
  <2>2. ASSUME NEW m \in 0 .. n + 1
        PROVE  g[m] = next(m)
    <3>1. CASE m = n + 1
      <4>1. n \in 0 .. n + 1 /\ n # n + 1 /\ m - 1 = n /\ m # 0
        BY <3>1
      <4>2. g[m - 1] = f[n]
        BY <4>1
      <4> QED BY <3>1, <4>1, <4>2
    <3>2. CASE m = 0
      <4>1. f[0] = first
        BY <2>1 DEF IsWalk
      <4>2. 0 \in 0 .. n + 1 /\ 0 # n + 1
        OBVIOUS
      <4> QED BY <3>2, <4>1, <4>2
    <3>3. CASE m # n + 1 /\ m # 0
      <4>1. m \in 0 .. n /\ m - 1 \in 0 .. n + 1 /\ m - 1 # n + 1
        BY <3>3
      <4>2. f[m] = Round(ous, f[m - 1])
        BY <2>1, <3>3, <4>1 DEF IsWalk
      <4> QED BY <3>3, <4>1, <4>2
    <3> QED BY <3>1, <3>2, <3>3
  <2>3. g = [m \in 0 .. n + 1 |-> next(m)]
    BY <2>2
  <2>4. IsWalk(ous, start, n + 1, g)
    BY <2>3 DEF IsWalk
  <2> QED BY <2>4
<1> HIDE DEF S
<1>3. \A n \in 0 .. N : n \in S
  BY <1>1, <1>2, SetInduction
<1> QED BY <1>3 DEF S

(* Walk returns what has been listed after the last round.                 *)
LEMMA WalkIsLast ==
    ASSUME NEW ous \in Forests, NEW start \in Starts(ous)
    PROVE  \E f : /\ IsWalk(ous, start, Rounds(ous, start), f)
                  /\ Walk(ous, start) = f[Rounds(ous, start)].items
<1> DEFINE f == CHOOSE g : IsWalk(ous, start, Rounds(ous, start), g)
<1>1. Rounds(ous, start) \in Nat
  BY RowsFinite DEF Rounds, Starts
<1>2. IsWalk(ous, start, Rounds(ous, start), f)
  BY <1>1, WalkExists
<1>3. Walk(ous, start) = f[Rounds(ous, start)].items
  BY DEF Walk, IsWalk, Round
<1> QED BY <1>2, <1>3

(* The invariant holds after every round.                                  *)
LEMMA RoundsKeepInv ==
    ASSUME NEW ous \in Forests, NEW start \in Starts(ous), NEW N \in Nat, NEW f,
           IsWalk(ous, start, N, f)
    PROVE  \A n \in 0 .. N : WalkInv(ous, start, n, f[n])
<1> DEFINE S == {n \in Nat : WalkInv(ous, start, n, f[n])}
<1>1. 0 \in S
  <2>1. f[0] = [items |-> <<>>, stack |-> start]
    BY DEF IsWalk
  <2> QED BY <2>1, WalkBegins
<1>2. ASSUME NEW n \in Nat, n < N, n \in S
      PROVE  n + 1 \in S
  <2>1. n + 1 \in 0 .. N /\ n + 1 # 0 /\ (n + 1) - 1 = n
    BY <1>2
  <2>2. f[n + 1] = Round(ous, f[n])
    BY <2>1 DEF IsWalk
  <2>3. WalkInv(ous, start, n, f[n])
    BY <1>2
  <2>4. WalkInv(ous, start, n + 1, f[n + 1])
    BY <2>2, <2>3, RoundKeepsInv
  <2> QED BY <2>4
<1> HIDE DEF S
<1>3. \A n \in 0 .. N : n \in S
  BY <1>1, <1>2, SetInduction
<1> QED BY <1>3 DEF S

(* What the walk returns: every unit it began with or that hangs on the    *)
(* root, each unit once, what is indented below its parent, and at the     *)
(* margin only what cannot be indented.                                    *)
LEMMA WalkResult ==
    ASSUME NEW ous \in Forests, NEW start \in Starts(ous)
    PROVE  /\ Walk(ous, start) \in Seq(Item)
           /\ ListedOnce(Walk(ous, start)) /\ Indented(ous, Walk(ous, start))
           /\ AttachedNested(ous, Walk(ous, start))
           /\ NestedIfParentListed(ous, Walk(ous, start))
           /\ \A i \in 1 .. Len(start) : start[i].ou \in Visited(Walk(ous, start))
           /\ \A o \in Attached(ous) : o \in Visited(Walk(ous, start))
<1> DEFINE N == Rounds(ous, start)
<1>1. N \in Nat /\ N = Len(start) + Cardinality(Rows(ous)) /\ Len(start) \in Nat
      /\ Cardinality(Rows(ous)) \in Nat
  BY RowsFinite DEF Rounds, Starts
<1> HIDE DEF N
<1>2. PICK f : IsWalk(ous, start, N, f) /\ Walk(ous, start) = f[N].items
  BY WalkIsLast DEF N
<1>3. WalkInv(ous, start, N, f[N])
  BY <1>1, <1>2, RoundsKeepInv
<1> DEFINE w == f[N]
<1> HIDE DEF w
<1>4. WalkInv(ous, start, N, w) /\ Walk(ous, start) = w.items
  BY <1>2, <1>3 DEF w
<1>5. w \in WalkStates /\ w.items \in Seq(Item) /\ w.stack \in Seq(Item)
  BY <1>4 DEF WalkInv, WalkStates
<1>6. w.stack = <<>>
  <2> SUFFICES ASSUME w.stack # <<>>
               PROVE  FALSE
    OBVIOUS
  <2> DEFINE pushed == Cardinality(ChildrenOf(ous, Visited(w.items)))
  <2>1. Len(w.stack) \in Nat \ {0}
    BY <1>5, EmptySeq
  <2>2. pushed \in Nat /\ pushed <= Cardinality(Rows(ous))
    BY ChildrenFinite
  <2>3. Len(w.stack) + N <= Len(start) + pushed
    BY <1>4 DEF WalkInv, RoundsSuffice
  <2> HIDE DEF pushed
  <2> QED BY <1>1, <2>1, <2>2, <2>3
<1>7. Len(w.stack) = 0
  BY <1>6, EmptySeq
<1>8. \A i \in 1 .. Len(start) : start[i].ou \in Visited(w.items)
  BY <1>4, <1>7 DEF WalkInv, NothingLost
<1>9. \A o \in Attached(ous) : o \in Visited(w.items)
  <2>1. 1 \in 1 .. Len(w.stack) + 1 /\ ~(1 \in 1 .. Len(w.stack))
    BY <1>7
  <2>2. ReachedAbove(ous, w, 1)
    BY <1>4, <2>1 DEF WalkInv, MarginWaits
  <2> QED BY <2>2, ReachedIsAttached
<1> QED BY <1>4, <1>5, <1>8, <1>9 DEF WalkInv

-----------------------------------------------------------------------------
(***************************************************************************)
(* The two lists of the page.                                              *)
(***************************************************************************)

(* A unit that is listed, by items that list no unit twice, is listed once.*)
LEMMA ListedIsOnce ==
    ASSUME NEW ous, NEW items \in Seq(Item), ListedOnce(items),
           \A o \in Rows(ous) : o \in Visited(items)
    PROVE  Once(ous, items)
<1> SUFFICES ASSUME NEW o \in Rows(ous)
             PROVE  Cardinality({i \in DOMAIN items : items[i].ou = o}) = 1
  BY DEF Once
<1>1. PICK i \in DOMAIN items : items[i].ou = o
  BY DEF Visited
<1>2. DOMAIN items = 1 .. Len(items)
  BY LenProperties
<1>3. {j \in DOMAIN items : items[j].ou = o} = {i}
  BY <1>1, <1>2 DEF ListedOnce
<1> QED BY <1>3, FS_Singleton

(* byParent of the root, as a stack.                                       *)
LEMMA RootsStart ==
    ASSUME NEW ous \in Forests
    PROVE  LET roots == ByParent(ous, Root, 0)
           IN  /\ roots \in Starts(ous) /\ Len(roots) \in Nat
               /\ \A i \in 1 .. Len(roots) : ous[roots[i].ou] = Root
               /\ \A u \in Rows(ous) : ous[u] = Root => \E i \in 1 .. Len(roots) : roots[i].ou = u
<1> DEFINE S == {o \in Rows(ous) : ous[o] = Root}
           roots == ByParent(ous, Root, 0)
           R == Len(roots)
<1>1. S \in SUBSET OrganizationalUnits /\ roots = AtDepth(S, 0)
  BY RowsFinite DEF ByParent
<1>2. \A o \in S : o \in Rows(ous) /\ ous[o] = Root
  OBVIOUS
<1>3. \A u \in Rows(ous) : ous[u] = Root => u \in S
  OBVIOUS
<1> HIDE DEF S, roots
<1>4. /\ roots \in Seq(Item) /\ Cardinality(S) \in Nat /\ R = Cardinality(S)
      /\ \A i \in 1 .. R : roots[i].depth = 0 /\ roots[i].ou \in S
      /\ \A o \in S : \E i \in 1 .. R : roots[i].ou = o
  <2>1. /\ AtDepth(S, 0) \in Seq(Item)
        /\ Cardinality(S) \in Nat /\ Len(AtDepth(S, 0)) = Cardinality(S)
    BY <1>1, ItemsAtDepth
  <2>2. \A i \in 1 .. Cardinality(S) : AtDepth(S, 0)[i].ou \in S /\ AtDepth(S, 0)[i].depth = 0
    BY <1>1, ItemsAtDepth
  <2>3. \A o \in S : \E i \in 1 .. Cardinality(S) : AtDepth(S, 0)[i].ou = o
    BY <1>1, ItemOfEach
  <2>4. R = Cardinality(S)
    BY <1>1, <2>1
  <2> QED BY <1>1, <2>1, <2>2, <2>3, <2>4
<1> HIDE DEF R
<1>5. \A i \in 1 .. R : roots[i].ou \in Rows(ous) /\ ous[roots[i].ou] = Root
  BY <1>2, <1>4
<1>6. \A u \in Rows(ous) : ous[u] = Root => \E i \in 1 .. R : roots[i].ou = u
  BY <1>3, <1>4
<1>7. ASSUME NEW k \in 1 .. R + 1, k \in 1 .. R => ous[roots[k].ou] # Root,
             NEW u \in Rows(ous), ous[u] = Root
      PROVE  \E i \in 1 .. k - 1 : roots[i].ou = u
  <2>1. k - 1 = R
    BY <1>4, <1>5, <1>7
  <2> QED BY <1>6, <1>7, <2>1
<1>8. roots \in Starts(ous)
  BY <1>4, <1>5, <1>7 DEF Starts, R
<1> QED BY <1>4, <1>5, <1>6, <1>8 DEF R, roots

(* The stack of flattenOus ends with every unit.                           *)
LEMMA AllStart ==
    ASSUME NEW ous \in Forests
    PROVE  LET start == ByParent(ous, Root, 0) \o AtDepth(Rows(ous), 0)
           IN  /\ start \in Starts(ous)
               /\ \A o \in Rows(ous) : \E i \in 1 .. Len(start) : start[i].ou = o
<1> DEFINE roots == ByParent(ous, Root, 0)
           all == AtDepth(Rows(ous), 0)
           start == roots \o all
           R == Len(roots)
           A == Cardinality(Rows(ous))
<1>1. /\ roots \in Seq(Item) /\ R \in Nat
      /\ \A i \in 1 .. R : roots[i].depth = 0 /\ roots[i].ou \in Rows(ous)
      /\ \A i \in 1 .. R : ous[roots[i].ou] = Root
      /\ \A u \in Rows(ous) : ous[u] = Root => \E i \in 1 .. R : roots[i].ou = u
  BY RootsStart DEF Starts
<1>2. /\ all \in Seq(Item) /\ A \in Nat /\ Len(all) = A
      /\ \A i \in 1 .. A : all[i].depth = 0 /\ all[i].ou \in Rows(ous)
      /\ \A o \in Rows(ous) : \E i \in 1 .. A : all[i].ou = o
  BY RowsFinite, ItemsAtDepth
<1> HIDE DEF roots, all, A
<1>3. /\ start \in Seq(Item) /\ Len(start) = R + A
      /\ \A i \in 1 .. R + A : start[i] = IF i <= R THEN roots[i] ELSE all[i - R]
  BY <1>1, <1>2, StackPush
<1> HIDE DEF R, start
<1>4. ASSUME NEW i \in 1 .. R + A
      PROVE  start[i].depth = 0 /\ start[i].ou \in Rows(ous)
  <2>1. CASE i <= R
    <3>1. i \in 1 .. R
      BY <1>1, <1>4, <2>1
    <3> QED BY <1>1, <1>3, <1>4, <2>1, <3>1
  <2>2. CASE ~(i <= R)
    <3>1. i - R \in 1 .. A
      BY <1>1, <1>2, <1>4, <2>2
    <3> QED BY <1>2, <1>3, <1>4, <2>2, <3>1
  <2> QED BY <2>1, <2>2
<1>5. ASSUME NEW o \in Rows(ous)
      PROVE  \E i \in 1 .. R + A : start[i].ou = o
  <2>1. PICK i \in 1 .. A : all[i].ou = o
    BY <1>2
  <2>2. R + i \in 1 .. R + A /\ ~(R + i <= R) /\ (R + i) - R = i
    BY <1>1, <1>2
  <2>3. start[R + i] = all[i]
    BY <1>3, <2>2
  <2> QED BY <2>1, <2>2, <2>3
(* What is not a child of the root comes after all of them.                *)
<1>6. ASSUME NEW k \in 1 .. (R + A) + 1, k \in 1 .. R + A => ous[start[k].ou] # Root,
             NEW u \in Rows(ous), ous[u] = Root
      PROVE  \E i \in 1 .. k - 1 : start[i].ou = u
  <2>1. \A i \in 1 .. R : i \in 1 .. R + A /\ start[i] = roots[i]
    BY <1>1, <1>2, <1>3
  <2>2. ~(k \in 1 .. R)
    BY <1>1, <1>6, <2>1
  <2>3. \A i \in 1 .. R : i \in 1 .. k - 1
    BY <1>1, <1>2, <2>2
  <2>4. PICK i \in 1 .. R : roots[i].ou = u
    BY <1>1, <1>6
  <2> QED BY <2>1, <2>3, <2>4
<1>7. start \in Starts(ous)
  BY <1>3, <1>4, <1>6 DEF Starts
<1> QED BY <1>3, <1>5, <1>7 DEF start, roots, all

(* flattenOus: the parents that the editor of a unit offers.               *)
LEMMA FlattenShowsEveryUnit ==
    ASSUME NEW ous \in Forests
    PROVE  /\ Once(ous, FlattenOus(ous)) /\ Indented(ous, FlattenOus(ous))
           /\ AttachedNested(ous, FlattenOus(ous)) /\ NestedIfParentListed(ous, FlattenOus(ous))
<1> DEFINE start == ByParent(ous, Root, 0) \o AtDepth(Rows(ous), 0)
<1>1. /\ start \in Starts(ous)
      /\ \A o \in Rows(ous) : \E i \in 1 .. Len(start) : start[i].ou = o
  BY AllStart
<1>2. FlattenOus(ous) = Walk(ous, start)
  BY DEF FlattenOus
<1> HIDE DEF start
<1>3. /\ Walk(ous, start) \in Seq(Item)
      /\ ListedOnce(Walk(ous, start)) /\ Indented(ous, Walk(ous, start))
      /\ AttachedNested(ous, Walk(ous, start)) /\ NestedIfParentListed(ous, Walk(ous, start))
      /\ \A i \in 1 .. Len(start) : start[i].ou \in Visited(Walk(ous, start))
  BY <1>1, WalkResult
<1>4. \A o \in Rows(ous) : o \in Visited(Walk(ous, start))
  BY <1>1, <1>3
<1> QED BY <1>2, <1>3, <1>4, ListedIsOnce

(* buildOuTree: the nodes of the tree.  What the walk from the root does   *)
(* not reach follows at depth 0.                                           *)
LEMMA TreeShowsEveryRow ==
    ASSUME NEW ous \in Forests
    PROVE  /\ Once(ous, BuildOuTree(ous)) /\ Indented(ous, BuildOuTree(ous))
           /\ AttachedNested(ous, BuildOuTree(ous))
<1> DEFINE nodes == Walk(ous, ByParent(ous, Root, 0))
           left == Rows(ous) \ Visited(nodes)
           rest == AtDepth(left, 0)
           tree == nodes \o rest
           N == Len(nodes)
           R == Cardinality(left)
<1>1. /\ nodes \in Seq(Item) /\ ListedOnce(nodes) /\ Indented(ous, nodes)
      /\ AttachedNested(ous, nodes) /\ \A o \in Attached(ous) : o \in Visited(nodes)
  BY RootsStart, WalkResult
<1>2. left \in SUBSET OrganizationalUnits
  BY RowsFinite
<1>3. BuildOuTree(ous) = tree
  BY DEF BuildOuTree
<1> HIDE DEF nodes
<1>4. \A o \in left : o \in Rows(ous) /\ o \notin Visited(nodes)
  OBVIOUS
<1>5. \A o \in Rows(ous) : o \in left \/ o \in Visited(nodes)
  OBVIOUS
<1> HIDE DEF left
<1>6. /\ rest \in Seq(Item) /\ R \in Nat /\ Len(rest) = R
      /\ \A i \in 1 .. R : rest[i].ou \in left /\ rest[i].depth = 0
      /\ \A i, j \in 1 .. R : rest[i].ou = rest[j].ou => i = j
      /\ \A o \in left : \E i \in 1 .. R : rest[i].ou = o
  BY <1>2, ItemsAtDepth
<1>7. N \in Nat /\ DOMAIN nodes = 1 .. N
  BY <1>1, LenProperties
<1> HIDE DEF rest, R
<1>8. /\ tree \in Seq(Item) /\ Len(tree) = N + R
      /\ \A i \in 1 .. N + R : tree[i] = IF i <= N THEN nodes[i] ELSE rest[i - N]
  BY <1>1, <1>6, StackPush
<1> HIDE DEF N, tree
<1>9. \A i \in 1 .. N : i \in 1 .. N + R /\ tree[i] = nodes[i]
  BY <1>6, <1>7, <1>8
<1>10. ASSUME NEW i \in 1 .. R
       PROVE  N + i \in 1 .. N + R /\ tree[N + i] = rest[i]
  <2>1. N + i \in 1 .. N + R /\ ~(N + i <= N) /\ (N + i) - N = i
    BY <1>6, <1>7
  <2> QED BY <1>8, <2>1
<1>11. ASSUME NEW i \in 1 .. N + R, i \notin 1 .. N
       PROVE  \E k \in 1 .. R : i = N + k
  <2>1. i - N \in 1 .. R /\ i = N + (i - N)
    BY <1>6, <1>7, <1>11
  <2> QED BY <2>1
<1>12. DOMAIN tree = 1 .. N + R
  BY <1>8, LenProperties
<1>13. ListedOnce(tree)
  <2> SUFFICES ASSUME NEW i \in 1 .. N + R, NEW j \in 1 .. N + R, tree[i].ou = tree[j].ou
               PROVE  i = j
    BY <1>8 DEF ListedOnce
  <2>1. \A k \in 1 .. N : nodes[k].ou \in Visited(nodes)
    BY <1>7 DEF Visited
  <2>2. CASE i \in 1 .. N /\ j \in 1 .. N
    BY <1>1, <1>9, <2>2 DEF ListedOnce, N
  <2>3. ASSUME NEW k \in 1 .. R, i = N + k, j \in 1 .. N
        PROVE  FALSE
    BY <1>4, <1>6, <1>9, <1>10, <2>1, <2>3
  <2>4. ASSUME NEW k \in 1 .. R, j = N + k, i \in 1 .. N
        PROVE  FALSE
    BY <1>4, <1>6, <1>9, <1>10, <2>1, <2>4
  <2>5. ASSUME NEW k \in 1 .. R, NEW l \in 1 .. R, i = N + k, j = N + l
        PROVE  i = j
    BY <1>6, <1>10, <2>5
  <2> QED BY <1>11, <2>2, <2>3, <2>4, <2>5
<1>14. \A o \in Rows(ous) : o \in Visited(tree)
  <2> SUFFICES ASSUME NEW o \in Rows(ous)
               PROVE  \E i \in 1 .. N + R : tree[i].ou = o
    BY <1>12 DEF Visited
  <2>1. CASE o \in left
    BY <1>6, <1>10, <2>1
  <2>2. CASE o \in Visited(nodes)
    <3>1. PICK i \in 1 .. N : nodes[i].ou = o
      BY <1>7, <2>2 DEF Visited
    <3> QED BY <1>9, <3>1
  <2> QED BY <1>5, <2>1, <2>2
<1>15. Indented(ous, tree)
  <2> SUFFICES ASSUME NEW i \in 1 .. N + R, tree[i].depth > 0
               PROVE  \E p \in 1 .. i - 1 :
                          /\ tree[p].ou = ous[tree[i].ou] /\ tree[p].depth = tree[i].depth - 1
                          /\ \A j \in p + 1 .. i - 1 : tree[j].depth >= tree[i].depth
    BY <1>12 DEF Indented
  <2>1. i \in 1 .. N
    <3> SUFFICES ASSUME NEW k \in 1 .. R, i = N + k
                 PROVE  FALSE
      BY <1>11
    <3>1. tree[i].depth = 0
      BY <1>6, <1>10
    <3> QED BY <3>1
  <2>2. PICK p \in 1 .. i - 1 :
            /\ nodes[p].ou = ous[nodes[i].ou] /\ nodes[p].depth = nodes[i].depth - 1
            /\ \A j \in p + 1 .. i - 1 : nodes[j].depth >= nodes[i].depth
    BY <1>1, <1>7, <1>9, <2>1 DEF Indented
  <2>3. p \in 1 .. N /\ \A j \in p + 1 .. i - 1 : j \in 1 .. N
    BY <1>7, <2>1
  <2> QED BY <1>9, <2>1, <2>2, <2>3
<1>16. AttachedNested(ous, tree)
  <2> SUFFICES ASSUME NEW i \in 1 .. N + R, AtMargin(ous, tree[i])
               PROVE  tree[i].ou \notin Attached(ous)
    BY <1>12 DEF AttachedNested
  <2>1. CASE i \in 1 .. N
    BY <1>1, <1>7, <1>9, <2>1 DEF AttachedNested
  <2>2. CASE i \notin 1 .. N
    <3>1. PICK k \in 1 .. R : i = N + k
      BY <1>11, <2>2
    <3>2. tree[i].ou \in left
      BY <1>6, <1>10, <3>1
    <3> QED BY <1>1, <1>4, <3>2
  <2> QED BY <2>1, <2>2
<1> QED BY <1>3, <1>8, <1>13, <1>14, <1>15, <1>16, ListedIsOnce

(* The page offers every unit of its list exactly once, as a node of the   *)
(* tree and as a parent in the editor, and indents it below its parent if  *)
(* its parents lead to the root, in the editor also if it comes after its  *)
(* parent: flattenOus and buildOuTree (utils/directory.ts), for every list *)
(* of units that useAdminApi can hold.                                     *)
THEOREM EveryUnitIsShown == Spec => []TreeShowsEveryUnit
<1>1. ConsoleInv => TreeShowsEveryUnit
  <2> SUFFICES ASSUME ConsoleInv
               PROVE  TreeShowsEveryUnit
    OBVIOUS
  <2>1. lists.ous \in Forests
    BY DEF ConsoleInv, ConsoleTypeOK, CachedLists, Forests
  <2> QED BY <2>1, FlattenShowsEveryUnit, TreeShowsEveryRow DEF TreeShowsEveryUnit
<1> QED BY <1>1, ConsoleInvariantHolds, PTL
=============================================================================
