------------------------ MODULE SnapshotStore_proofs ------------------------
(***************************************************************************)
(* The snapshot DAG has no cycle, for every set of ids, if no id is        *)
(* inserted twice, and lineage walks from every node to a root.            *)
(***************************************************************************)
EXTENDS SnapshotStore, TLAPS, FiniteSetTheorems, WellFoundedInduction

(***************************************************************************)
(* An insert of a fresh id below a known parent closes no cycle.           *)
(***************************************************************************)
LEMMA InsertKeeps ==
    ASSUME SInv,
           NEW id \in Ids \ Known, NEW meta \in Meta,
           Insert(id, meta)
    PROVE  SInv'
<1>1. /\ Known' = Known \cup {id}
      /\ nodes'[id] = meta
      /\ \A i \in Known : nodes'[i] = nodes[i] /\ i # id
  BY DEF Insert, Put, Known
<1>2. /\ id \notin Known
      /\ meta.parent \in Known \cup {NoId}
      /\ meta.parent # id
  BY IdsAssumption DEF Insert, Meta, SInv, TypeOK
<1>3. TypeOK'
  BY <1>1 DEF Insert, Put, SInv, TypeOK, Known
<1>4. ParentsKnown'
  BY <1>1, <1>2 DEF SInv, ParentsKnown
<1>5. NoCycle'
  <2> SUFFICES ASSUME NEW S \in SUBSET (Known \cup {id}), S # {}
               PROVE  \E i \in S : nodes'[i].parent \notin S
    BY <1>1 DEF NoCycle
  <2>1. CASE S \subseteq {id}
    BY <2>1, <1>1, <1>2
  <2>2. CASE ~(S \subseteq {id})
    <3>1. PICK i \in S \ {id} : nodes[i].parent \notin S \ {id}
      <4>1. S \ {id} \in SUBSET Known /\ S \ {id} # {}
        BY <2>2
      <4> QED
        BY <4>1 DEF SInv, NoCycle
    <3>2. nodes[i].parent # id
      BY <1>2, IdsAssumption DEF SInv, ParentsKnown
    <3> QED
      BY <3>1, <3>2, <1>1
  <2> QED
    BY <2>1, <2>2
<1> QED
  BY <1>3, <1>4, <1>5 DEF SInv

(***************************************************************************)
(* With fresh ids, every parent pointer of the DAG leads to a node and no  *)
(* set of nodes is closed under it: the loop of lineage meets no missing   *)
(* node and does not go round.                                             *)
(***************************************************************************)
THEOREM LineageEnds == FreshSpec => []SInv
<1>1. Init => SInv
  BY DEF Init, SInv, TypeOK, ParentsKnown, NoCycle, Known
<1>2. SInv /\ [FreshNext]_nodes => SInv'
  <2> SUFFICES ASSUME SInv, [FreshNext]_nodes
               PROVE  SInv'
    OBVIOUS
  <2>1. CASE FreshNext
    BY <2>1, InsertKeeps DEF FreshNext
  <2>2. CASE UNCHANGED nodes
    BY <2>2 DEF SInv, TypeOK, ParentsKnown, NoCycle, Known
  <2> QED
    BY <2>1, <2>2
<1> QED
  BY <1>1, <1>2, PTL DEF FreshSpec

-----------------------------------------------------------------------------
(***************************************************************************)
(* Induction over the length of a lineage: a set of numbers that is not    *)
(* empty has a smallest member.                                            *)
(***************************************************************************)
LEMMA Smallest ==
    ASSUME NEW T, T \subseteq Nat, T # {}
    PROVE  \E n \in T : \A m \in T : ~(m < n)
<1>1. \E n \in T : \A m \in T : ~(<<m, n>> \in OpToRel(<, Nat))
  BY NatLessThanWellFounded, WFMin
<1> QED
  BY <1>1 DEF OpToRel

LEMMA BoundType == Cardinality(Ids) \in Nat /\ Cardinality(Ids) + 1 \in Nat
<1>1. Cardinality(Ids) \in Nat BY IdsAssumption, FS_CardinalityType
<1> QED BY <1>1

(* The recursive function exists, and satisfies its equation. *)
LEMMA LineageEquation ==
    LineageOf = [n \in 0 .. Cardinality(Ids) + 1 |->
                   IF n = 0 THEN NoLineage ELSE Prepend(LineageOf[n - 1])]
<1> DEFINE Upto(K, f) == f = [n \in 0 .. K |->
                                IF n = 0 THEN NoLineage ELSE Prepend(f[n - 1])]
           T == {K \in Nat : ~ \E f : Upto(K, f)}
<1>1. T = {}
  <2> SUFFICES ASSUME T # {} PROVE FALSE OBVIOUS
  <2>1. PICK K \in T : \A m \in T : ~(m < K) BY Smallest
  <2>2. K \in Nat OBVIOUS
  <2>3. K # 0
    <3> SUFFICES \E f : Upto(0, f) OBVIOUS
    <3>1. Upto(0, [n \in 0 .. 0 |-> NoLineage]) OBVIOUS
    <3> QED BY <3>1
  <2>4. PICK f : Upto(K - 1, f)
    <3>1. K - 1 \in Nat /\ K - 1 < K BY <2>2, <2>3
    <3>2. K - 1 \notin T BY <2>1, <3>1
    <3> QED BY <3>1, <3>2
  <2> DEFINE g == [n \in 0 .. K |-> IF n = 0 THEN NoLineage ELSE Prepend(f[n - 1])]
  <2>5. ASSUME NEW n \in 0 .. K - 1 PROVE g[n] = f[n]
    <3>1. n \in 0 .. K BY <2>2, <2>3
    <3>2. g[n] = IF n = 0 THEN NoLineage ELSE Prepend(f[n - 1]) BY <3>1
    <3>3. f[n] = IF n = 0 THEN NoLineage ELSE Prepend(f[n - 1]) BY <2>4
    <3> QED BY <3>2, <3>3
  <2>6. \A n \in 0 .. K : n # 0 => n - 1 \in 0 .. K - 1
    BY <2>2, <2>3
  <2>7. Upto(K, g)
    <3> HIDE DEF g
    <3>1. \A n \in 0 .. K : n # 0 => Prepend(f[n - 1]) = Prepend(g[n - 1])
      BY <2>5, <2>6
    <3>2. g = [n \in 0 .. K |-> IF n = 0 THEN NoLineage ELSE Prepend(f[n - 1])]
      BY DEF g
    <3> QED BY <3>1, <3>2
  <2> QED BY <2>1, <2>7
<1>2. \E f : Upto(Cardinality(Ids) + 1, f)
  BY <1>1, BoundType
<1> QED
  BY <1>2 DEF LineageOf

LEMMA LineageSteps ==
    /\ LineageOf[0] = NoLineage
    /\ \A n \in 0 .. Cardinality(Ids) + 1 : n # 0 =>
         /\ n - 1 \in 0 .. Cardinality(Ids) + 1
         /\ LineageOf[n] = Prepend(LineageOf[n - 1])
<1>1. PICK o : o = LineageOf OBVIOUS
<1>2. PICK K \in Nat : K = Cardinality(Ids) + 1 BY BoundType
<1>3. o = [n \in 0 .. K |-> IF n = 0 THEN NoLineage ELSE Prepend(o[n - 1])]
  BY <1>1, <1>2, LineageEquation
<1>4. o[0] = NoLineage BY <1>3
<1>5. ASSUME NEW n \in 0 .. K, n # 0
      PROVE  n - 1 \in 0 .. K /\ o[n] = Prepend(o[n - 1])
  BY <1>3, <1>5
<1> QED BY <1>1, <1>2, <1>4, <1>5

(***************************************************************************)
(* The walk l of at most n nodes from i along the parent pointers: it has  *)
(* come to a root, unless it was cut off after n nodes.                    *)
(***************************************************************************)
Walk(l, i, n) ==
    /\ l \in Seq(Known)
    /\ Len(l) \in 1 .. n
    /\ l[1] = i
    /\ \A j \in 1 .. Len(l) - 1 : nodes[l[j]].parent = l[j + 1]
    /\ Len(l) < n => nodes[l[Len(l)]].parent = NoId

LEMMA WalkOfOne ==
    ASSUME NEW i \in Known, NEW n \in Nat, n > 0, n = 1 \/ nodes[i].parent = NoId
    PROVE  Walk(<<i>>, i, n)
  BY DEF Walk

LEMMA WalkLonger ==
    ASSUME NEW i \in Known, NEW n \in Nat, NEW l, Walk(l, nodes[i].parent, n)
    PROVE  Walk(<<i>> \o l, i, n + 1)
<1>1. PICK k \in Nat : k = Len(l) /\ k \in 1 .. n BY DEF Walk
<1>2. l \in Seq(Known) BY DEF Walk
<1>3. PICK w : w = <<i>> \o l OBVIOUS
<1>4. <<i>> \in Seq(Known) /\ Len(<<i>>) = 1 OBVIOUS
<1>5. /\ w \in Seq(Known) /\ Len(w) = k + 1 /\ w[1] = i
      /\ \A j \in 1 .. k : w[j + 1] = l[j]
  BY <1>1, <1>2, <1>3, <1>4
<1>6. ASSUME NEW j \in 1 .. k PROVE nodes[w[j]].parent = w[j + 1]
  <2>1. CASE j = 1 BY <1>1, <1>5, <2>1 DEF Walk
  <2>2. CASE j # 1
    <3>1. PICK m \in 1 .. k - 1 : j = m + 1 BY <1>1, <2>2
    <3>2. nodes[l[m]].parent = l[m + 1] BY <1>1, <3>1 DEF Walk
    <3>3. w[j] = l[m] /\ w[j + 1] = l[m + 1] BY <1>1, <1>5, <3>1
    <3> QED BY <3>2, <3>3
  <2> QED BY <2>1, <2>2
<1>7. ASSUME k + 1 < n + 1 PROVE nodes[w[k + 1]].parent = NoId
  <2>1. k < n BY <1>1, <1>7
  <2>2. nodes[l[k]].parent = NoId BY <1>1, <2>1 DEF Walk
  <2>3. w[k + 1] = l[k] BY <1>1, <1>5
  <2> QED BY <2>2, <2>3
<1> QED BY <1>1, <1>3, <1>5, <1>6, <1>7 DEF Walk

LEMMA LineageWalks ==
    ASSUME SInv, NEW n \in 1 .. Cardinality(Ids) + 1, NEW i \in Known
    PROVE  Walk(LineageOf[n][i], i, n)
<1>0. PICK K \in Nat : K = Cardinality(Ids) + 1 BY BoundType
<1> DEFINE T == {k \in 1 .. K : \E j \in Known : ~Walk(LineageOf[k][j], j, k)}
<1>1. T = {}
  <2> SUFFICES ASSUME T # {} PROVE FALSE OBVIOUS
  <2>1. PICK k \in T : \A m \in T : ~(m < k)
    <3>1. T \subseteq Nat OBVIOUS
    <3> QED BY <3>1, Smallest
  <2>2. k \in 1 .. K /\ k \in Nat OBVIOUS
  <2>3. PICK j \in Known : ~Walk(LineageOf[k][j], j, k) OBVIOUS
  <2>4. PICK p : p = nodes[j].parent OBVIOUS
  <2>5. j \in Ids /\ p \in Known \cup {NoId} /\ NoId \notin Known /\ Known \subseteq Ids
    BY <2>4, IdsAssumption DEF SInv, TypeOK, ParentsKnown
  <2>6. LineageOf[k][j] = <<j>> \o LineageOf[k - 1][p]
    <3>1. LineageOf[k] = Prepend(LineageOf[k - 1]) BY <1>0, <2>2, LineageSteps
    <3> QED BY <2>4, <2>5, <3>1 DEF Prepend
  <2>7. CASE k = 1 \/ p = NoId
    <3>1. LineageOf[k - 1][p] = <<>>
      <4>1. CASE k = 1 BY <2>5, <4>1, LineageSteps DEF NoLineage
      <4>2. CASE k # 1
        <5>1. k - 1 \in 0 .. K /\ k - 1 # 0 BY <1>0, <2>2, <4>2
        <5>2. LineageOf[k - 1] = Prepend(LineageOf[(k - 1) - 1])
          BY <1>0, <5>1, LineageSteps
        <5>3. p = NoId BY <2>7, <4>2
        <5> QED BY <2>5, <5>2, <5>3 DEF Prepend
      <4> QED BY <4>1, <4>2
    <3>2. LineageOf[k][j] = <<j>> BY <2>6, <3>1
    <3>3. Walk(<<j>>, j, k) BY <2>2, <2>4, <2>7, WalkOfOne
    <3> QED BY <2>3, <3>2, <3>3
  <2>8. CASE k # 1 /\ p # NoId
    <3>1. k - 1 \in 1 .. K /\ k - 1 < k /\ k - 1 \in Nat /\ (k - 1) + 1 = k BY <2>2, <2>8
    <3>2. k - 1 \notin T BY <2>1, <3>1
    <3>3. p \in Known BY <2>5, <2>8
    <3>4. Walk(LineageOf[k - 1][p], p, k - 1) BY <3>1, <3>2, <3>3
    <3>5. Walk(<<j>> \o LineageOf[k - 1][p], j, (k - 1) + 1)
      BY <2>4, <3>1, <3>4, WalkLonger
    <3> QED BY <2>3, <2>6, <3>1, <3>5
  <2> QED BY <2>7, <2>8
<1> QED BY <1>0, <1>1

(* A walk does not come back to a node: between its two visits there would
   be a cycle. *)
LEMMA WalkIsSimple ==
    ASSUME SInv, NEW i, NEW n \in Nat, NEW l, Walk(l, i, n),
           NEW j \in 1 .. Len(l), NEW k \in 1 .. Len(l), j < k
    PROVE  l[j] # l[k]
<1> SUFFICES ASSUME l[j] = l[k] PROVE FALSE OBVIOUS
<1>1. PICK len \in Nat : len = Len(l) BY DEF Walk
<1>2. l \in Seq(Known) BY DEF Walk
<1>3. j \in Nat /\ k \in Nat /\ j < k /\ k <= len /\ 1 <= j BY <1>1
<1> DEFINE S == {l[m] : m \in j .. k - 1}
<1>4. S \in SUBSET Known
  <2>1. \A m \in 1 .. len : l[m] \in Known BY <1>1, <1>2
  <2> QED BY <1>3, <2>1
<1>5. S # {}
  <2>1. j \in j .. k - 1 BY <1>3
  <2> QED BY <2>1
<1>6. PICK a \in S : nodes[a].parent \notin S
  BY <1>4, <1>5 DEF SInv, NoCycle
<1>7. PICK m \in j .. k - 1 : a = l[m] BY <1>6
<1>8. nodes[a].parent = l[m + 1]
  <2>1. m \in 1 .. len - 1 BY <1>3, <1>7
  <2> QED BY <1>1, <1>7, <2>1 DEF Walk
<1>9. l[m + 1] \in S
  <2>1. CASE m = k - 1
    <3>1. m + 1 = k BY <1>3, <2>1
    <3>2. j \in j .. k - 1 BY <1>3
    <3> QED BY <3>1, <3>2
  <2>2. CASE m # k - 1
    <3>1. m + 1 \in j .. k - 1 BY <1>3, <1>7, <2>2
    <3> QED BY <3>1
  <2> QED BY <2>1, <2>2
<1> QED BY <1>6, <1>8, <1>9

(* So it is never cut off: there are fewer ids than nodes it would have. *)
LEMMA WalkEnds ==
    ASSUME SInv, NEW i, NEW l, Walk(l, i, Cardinality(Ids) + 1)
    PROVE  Len(l) < Cardinality(Ids) + 1
<1>1. PICK K \in Nat : K = Cardinality(Ids) BY BoundType
<1>2. K + 1 \in Nat /\ Walk(l, i, K + 1) BY <1>1
<1>3. PICK len \in Nat : len = Len(l) /\ len <= K + 1 BY <1>2 DEF Walk
<1>4. l \in Seq(Known) /\ Known \subseteq Ids BY <1>2 DEF Walk, SInv, TypeOK
<1>5. l \in [1 .. len -> Ids]
  BY <1>3, <1>4
<1>6. \A j, k \in 1 .. len : l[j] = l[k] => j = k
  <2> SUFFICES ASSUME NEW j \in 1 .. len, NEW k \in 1 .. len, j # k PROVE l[j] # l[k]
    OBVIOUS
  <2>1. CASE j < k BY <1>2, <1>3, <2>1, WalkIsSimple
  <2>2. CASE k < j BY <1>2, <1>3, <2>2, WalkIsSimple
  <2> QED BY <2>1, <2>2
<1>7. l \in Injection(1 .. len, Ids) BY <1>5, <1>6 DEF Injection, IsInjective
<1>8. Cardinality(1 .. len) <= Cardinality(Ids) BY <1>7, FS_Injection, IdsAssumption
<1>9. Cardinality(1 .. len) = len
  <2>1. Cardinality(1 .. len) = IF 1 > len THEN 0 ELSE len - 1 + 1 BY FS_Interval
  <2> QED BY <2>1
<1> QED BY <1>1, <1>3, <1>8, <1>9

LEMMA SInvReaches == SInv => LineageReachesRoot
<1> SUFFICES ASSUME SInv, NEW i \in Known
             PROVE  LET l == Lineage(i) IN
                    /\ l[1] = i
                    /\ nodes[l[Len(l)]].parent = NoId
                    /\ \A j, k \in 1 .. Len(l) : l[j] = l[k] => j = k
                    /\ \A j \in 1 .. Len(l) - 1 : l[j] \in Children(l[j + 1])
  BY DEF LineageReachesRoot
<1>0. PICK K \in Nat : K = Cardinality(Ids) + 1 /\ K \in 1 .. K BY BoundType
<1>1. PICK l : l = Lineage(i) OBVIOUS
<1>2. Walk(l, i, K)
  BY <1>0, <1>1, LineageWalks DEF Lineage
<1>3. PICK len \in Nat : len = Len(l) /\ len \in 1 .. K BY <1>2 DEF Walk
<1>4. l[1] = i BY <1>2 DEF Walk
<1>5. nodes[l[len]].parent = NoId
  <2>1. len < K BY <1>0, <1>2, <1>3, WalkEnds
  <2> QED BY <1>2, <1>3, <2>1 DEF Walk
<1>6. \A j, k \in 1 .. len : l[j] = l[k] => j = k
  <2> SUFFICES ASSUME NEW j \in 1 .. len, NEW k \in 1 .. len, j # k PROVE l[j] # l[k]
    OBVIOUS
  <2>1. CASE j < k BY <1>2, <1>3, <2>1, WalkIsSimple
  <2>2. CASE k < j BY <1>2, <1>3, <2>2, WalkIsSimple
  <2> QED BY <2>1, <2>2
<1>7. \A j \in 1 .. len - 1 : l[j] \in Children(l[j + 1])
  <2> SUFFICES ASSUME NEW j \in 1 .. len - 1 PROVE l[j] \in Children(l[j + 1]) OBVIOUS
  <2>1. l[j] \in Known
    <3>1. l \in Seq(Known) /\ j \in 1 .. len BY <1>2, <1>3 DEF Walk
    <3> QED BY <1>3, <3>1
  <2>2. nodes[l[j]].parent = l[j + 1] BY <1>2, <1>3 DEF Walk
  <2> QED BY <2>1, <2>2 DEF Children
<1> QED BY <1>1, <1>3, <1>4, <1>5, <1>6, <1>7

(***************************************************************************)
(* With fresh ids, lineage of every known id ends at a root, visits no     *)
(* node twice and steps from every node to its parent, for any number of   *)
(* nodes.                                                                  *)
(***************************************************************************)
THEOREM LineageIsComplete == FreshSpec => []LineageReachesRoot
  BY LineageEnds, SInvReaches, PTL
=============================================================================
