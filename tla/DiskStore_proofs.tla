-------------------------- MODULE DiskStore_proofs --------------------------
(***************************************************************************)
(* What the offline snapshot tree keeps, for every set of snapshot names   *)
(* and any number of guest writes, while one process at a time works on    *)
(* the disk.  The first half is about files alone: which layers can be     *)
(* opened, what is read through them, and what a rename, an overlay or a   *)
(* rebase changes of it.  The second half takes the steps of the store one *)
(* by one.                                                                 *)
(***************************************************************************)
EXTENDS DiskStore, TLAPS, FiniteSetTheorems, WellFoundedInduction

(***************************************************************************)
(* Induction over the length of a chain: a set of numbers that is not      *)
(* empty has a smallest member.                                            *)
(***************************************************************************)
LEMMA Smallest ==
    ASSUME NEW T, T \subseteq Nat, T # {}
    PROVE  \E n \in T : \A m \in T : ~(m < n)
<1>1. \E n \in T : \A m \in T : ~(<<m, n>> \in OpToRel(<, Nat))
  BY NatLessThanWellFounded, WFMin
<1> QED
  BY <1>1 DEF OpToRel

LEMMA PathsFinite ==
    /\ IsFiniteSet(Paths)
    /\ Longest \in Nat
    /\ Longest > 0
    /\ NoBacking \notin Paths
    /\ Active \notin Names /\ Reverting \notin Names /\ Image \notin Names
<1>1. IsFiniteSet({Active, Reverting, Image})
  <2>1. IsFiniteSet({}) BY FS_EmptySet
  <2>2. IsFiniteSet({} \cup {Active}) BY <2>1, FS_AddElement
  <2>3. IsFiniteSet(({} \cup {Active}) \cup {Reverting}) BY <2>2, FS_AddElement
  <2>4. IsFiniteSet((({} \cup {Active}) \cup {Reverting}) \cup {Image})
    BY <2>3, FS_AddElement
  <2>5. (({} \cup {Active}) \cup {Reverting}) \cup {Image} = {Active, Reverting, Image}
    OBVIOUS
  <2> QED BY <2>4, <2>5
<1>2. IsFiniteSet(Paths)
  BY <1>1, FS_Union, ConstantsAssumption DEF Paths
<1>3. Longest \in Nat
  BY <1>2, FS_CardinalityType DEF Longest
<1>4. Longest # 0
  BY <1>2, FS_EmptySet DEF Longest, Paths
<1> QED
  BY <1>2, <1>3, <1>4, PathsAssumption
  DEF Paths, NoBacking, Active, Reverting, Image

(***************************************************************************)
(* The recursive functions exist, and satisfy their equations.             *)
(***************************************************************************)
LEMMA OpensEquation ==
    ASSUME NEW fs
    PROVE  Opens(fs) = [k \in 0 .. Longest |->
                          IF k = 0 THEN {} ELSE StandOn(fs, Opens(fs)[k - 1])]
<1> DEFINE Upto(K, f) == f = [k \in 0 .. K |-> IF k = 0 THEN {} ELSE StandOn(fs, f[k - 1])]
           T == {K \in Nat : ~ \E f : Upto(K, f)}
<1>1. T = {}
  <2> SUFFICES ASSUME T # {} PROVE FALSE OBVIOUS
  <2>1. PICK K \in T : \A m \in T : ~(m < K) BY Smallest
  <2>2. K \in Nat OBVIOUS
  <2>3. K # 0
    <3> SUFFICES \E f : Upto(0, f) OBVIOUS
    <3>1. Upto(0, [k \in 0 .. 0 |-> {}]) OBVIOUS
    <3> QED BY <3>1
  <2>4. PICK f : Upto(K - 1, f)
    <3>1. K - 1 \in Nat /\ K - 1 < K BY <2>2, <2>3
    <3>2. K - 1 \notin T BY <2>1, <3>1
    <3> QED BY <3>1, <3>2
  <2> DEFINE g == [k \in 0 .. K |-> IF k = 0 THEN {} ELSE StandOn(fs, f[k - 1])]
  <2>5. ASSUME NEW k \in 0 .. K - 1 PROVE g[k] = f[k]
    <3>1. k \in 0 .. K BY <2>2, <2>3
    <3>2. g[k] = IF k = 0 THEN {} ELSE StandOn(fs, f[k - 1]) BY <3>1
    <3>3. f[k] = IF k = 0 THEN {} ELSE StandOn(fs, f[k - 1]) BY <2>4
    <3> QED BY <3>2, <3>3
  <2>6. \A k \in 0 .. K : k # 0 => k - 1 \in 0 .. K - 1
    BY <2>2, <2>3
  <2>7. Upto(K, g)
    <3> HIDE DEF g
    <3>1. \A k \in 0 .. K : k # 0 => StandOn(fs, f[k - 1]) = StandOn(fs, g[k - 1])
      BY <2>5, <2>6
    <3>2. g = [k \in 0 .. K |-> IF k = 0 THEN {} ELSE StandOn(fs, f[k - 1])]
      BY DEF g
    <3> QED BY <3>1, <3>2
  <2> QED BY <2>1, <2>7
<1>2. PICK f : Upto(Longest, f)
  BY <1>1, PathsFinite
<1> DEFINE above == [S \in SUBSET Paths |-> StandOn(fs, S)]
           Solves(o) == o = [k \in 0 .. Longest |-> IF k = 0 THEN {} ELSE above[o[k - 1]]]
<1> HIDE DEF T
<1>3. \A S \in SUBSET Paths : above[S] = StandOn(fs, S) /\ above[S] \in SUBSET Paths
  BY DEF StandOn
<1>4. \E o : Solves(o)
  <2>1. \A k \in 0 .. Longest : f[k] = IF k = 0 THEN {} ELSE StandOn(fs, f[k - 1]) BY <1>2
  <2>2. \A k \in 0 .. Longest : f[k] \in SUBSET Paths BY <2>1 DEF StandOn
  <2>3. \A k \in 0 .. Longest : k # 0 => k - 1 \in 0 .. Longest BY PathsFinite
  <2>4. \A k \in 0 .. Longest : k # 0 => StandOn(fs, f[k - 1]) = above[f[k - 1]]
    BY <1>3, <2>2, <2>3
  <2> HIDE DEF above
  <2>5. Solves(f) BY <1>2, <2>4
  <2> QED BY <2>5
<1>5. PICK o : o = Opens(fs) OBVIOUS
<1>6. Solves(o) BY <1>4, <1>5 DEF Opens
<1> HIDE DEF above
<1>7. \A k \in 0 .. Longest : o[k] = IF k = 0 THEN {} ELSE above[o[k - 1]] BY <1>6
<1> DEFINE U == {k \in 0 .. Longest : o[k] \notin SUBSET Paths}
<1>8. U = {}
  <2> SUFFICES ASSUME U # {} PROVE FALSE OBVIOUS
  <2>0. U \subseteq Nat BY PathsFinite
  <2>1. PICK k \in U : \A m \in U : ~(m < k) BY <2>0, Smallest
  <2>2. k \in 0 .. Longest /\ k \in Nat BY <2>0
  <2>3. k # 0 BY <1>7, <2>1, <2>2
  <2>4. k - 1 \in 0 .. Longest /\ k - 1 < k BY <2>2, <2>3, PathsFinite
  <2>5. o[k - 1] \in SUBSET Paths BY <2>1, <2>4
  <2>6. o[k] \in SUBSET Paths BY <1>3, <1>7, <2>2, <2>3, <2>5
  <2> QED BY <2>6
<1>9. \A k \in 0 .. Longest : k # 0 => above[o[k - 1]] = StandOn(fs, o[k - 1])
  <2>1. \A k \in 0 .. Longest : k # 0 => k - 1 \in 0 .. Longest BY PathsFinite
  <2> QED BY <1>3, <1>8, <2>1
<1>10. o = [k \in 0 .. Longest |-> IF k = 0 THEN {} ELSE StandOn(fs, o[k - 1])]
  BY <1>6, <1>9
<1> QED BY <1>5, <1>10

LEMMA OpensSteps ==
    ASSUME NEW fs
    PROVE  /\ Opens(fs)[0] = {}
           /\ \A k \in 0 .. Longest : k # 0 =>
                k - 1 \in 0 .. Longest /\ Opens(fs)[k] = StandOn(fs, Opens(fs)[k - 1])
<1> DEFINE o == Opens(fs)
<1>1. o = [k \in 0 .. Longest |-> IF k = 0 THEN {} ELSE StandOn(fs, o[k - 1])]
  BY OpensEquation
<1> HIDE DEF o
<1>2. 0 \in 0 .. Longest /\ Longest \in Nat
  BY PathsFinite
<1>3. o[0] = {} BY <1>1, <1>2
<1>4. ASSUME NEW k \in 0 .. Longest, k # 0 PROVE o[k] = StandOn(fs, o[k - 1])
  BY <1>1, <1>4
<1>5. ASSUME NEW k \in 0 .. Longest, k # 0 PROVE k - 1 \in 0 .. Longest
  BY <1>2, <1>5
<1> QED BY <1>3, <1>4, <1>5 DEF o

LEMMA ReadsEquation ==
    ASSUME NEW fs
    PROVE  Reads(fs) = [k \in 0 .. Longest |->
                          IF k = 0 THEN [p \in Paths |-> Nothing]
                          ELSE Through(fs, Reads(fs)[k - 1])]
<1> DEFINE Start == [p \in Paths |-> Nothing]
<1> HIDE DEF Start
<1> DEFINE Upto(K, f) == f = [k \in 0 .. K |-> IF k = 0 THEN Start ELSE Through(fs, f[k - 1])]
           T == {K \in Nat : ~ \E f : Upto(K, f)}
<1>1. T = {}
  <2> SUFFICES ASSUME T # {} PROVE FALSE OBVIOUS
  <2>1. PICK K \in T : \A m \in T : ~(m < K) BY Smallest
  <2>2. K \in Nat OBVIOUS
  <2>3. K # 0
    <3> SUFFICES \E f : Upto(0, f) OBVIOUS
    <3>1. Upto(0, [k \in 0 .. 0 |-> Start]) OBVIOUS
    <3> QED BY <3>1
  <2>4. PICK f : Upto(K - 1, f)
    <3>1. K - 1 \in Nat /\ K - 1 < K BY <2>2, <2>3
    <3>2. K - 1 \notin T BY <2>1, <3>1
    <3> QED BY <3>1, <3>2
  <2> DEFINE g == [k \in 0 .. K |-> IF k = 0 THEN Start ELSE Through(fs, f[k - 1])]
  <2>5. ASSUME NEW k \in 0 .. K - 1 PROVE g[k] = f[k]
    <3>1. k \in 0 .. K BY <2>2, <2>3
    <3>2. g[k] = IF k = 0 THEN Start ELSE Through(fs, f[k - 1]) BY <3>1
    <3>3. f[k] = IF k = 0 THEN Start ELSE Through(fs, f[k - 1]) BY <2>4
    <3> QED BY <3>2, <3>3
  <2>6. \A k \in 0 .. K : k # 0 => k - 1 \in 0 .. K - 1
    BY <2>2, <2>3
  <2>7. Upto(K, g)
    <3> HIDE DEF g
    <3>1. \A k \in 0 .. K : k # 0 => Through(fs, f[k - 1]) = Through(fs, g[k - 1])
      BY <2>5, <2>6
    <3>2. g = [k \in 0 .. K |-> IF k = 0 THEN Start ELSE Through(fs, f[k - 1])]
      BY DEF g
    <3> QED BY <3>1, <3>2
  <2> QED BY <2>1, <2>7
<1>2. \E f : Upto(Longest, f)
  BY <1>1, PathsFinite
<1> QED
  BY <1>2 DEF Reads, Start

LEMMA ReadsSteps ==
    ASSUME NEW fs
    PROVE  /\ Reads(fs)[0] = [p \in Paths |-> Nothing]
           /\ \A k \in 0 .. Longest : k # 0 => Reads(fs)[k] = Through(fs, Reads(fs)[k - 1])
<1> DEFINE r == Reads(fs)
           Start == [p \in Paths |-> Nothing]
<1>1. r = [k \in 0 .. Longest |-> IF k = 0 THEN Start ELSE Through(fs, r[k - 1])]
  BY ReadsEquation
<1> HIDE DEF r, Start
<1>2. 0 \in 0 .. Longest /\ Longest \in Nat
  BY PathsFinite
<1>3. r[0] = Start BY <1>1, <1>2
<1>4. ASSUME NEW k \in 0 .. Longest, k # 0 PROVE r[k] = Through(fs, r[k - 1])
  BY <1>1, <1>4
<1> QED BY <1>3, <1>4 DEF r, Start

(***************************************************************************)
(* Openable is the least set of layers that stand on nothing or on one     *)
(* another.  Least: it is part of every set that is closed upwards.        *)
(***************************************************************************)
LEMMA OpenableLeast ==
    ASSUME NEW fs, NEW S, StandOn(fs, S) \subseteq S
    PROVE  OpenableIn(fs) \subseteq S
<1> DEFINE o == Opens(fs)
           T == {k \in 0 .. Longest : ~(o[k] \subseteq S)}
<1>0. o[0] = {} /\ \A k \in 0 .. Longest : k # 0 =>
                     k - 1 \in 0 .. Longest /\ o[k] = StandOn(fs, o[k - 1])
  BY OpensSteps
<1> HIDE DEF o
<1>1. T = {}
  <2> SUFFICES ASSUME T # {} PROVE FALSE OBVIOUS
  <2>0. T \subseteq Nat BY PathsFinite
  <2>1. PICK k \in T : \A m \in T : ~(m < k) BY <2>0, Smallest
  <2>2. k \in 0 .. Longest /\ k \in Nat /\ k # 0 BY <1>0, <2>0
  <2>3. k - 1 \in 0 .. Longest /\ k - 1 < k BY <1>0, <2>2
  <2>4. o[k - 1] \subseteq S BY <2>1, <2>3
  <2>5. StandOn(fs, o[k - 1]) \subseteq StandOn(fs, S) BY <2>4 DEF StandOn
  <2>6. o[k] \subseteq S BY <1>0, <2>2, <2>5
  <2> QED BY <2>6
<1>2. o[Longest] \subseteq S BY <1>1, PathsFinite
<1> QED BY <1>2 DEF o, OpenableIn

LEMMA OpensGrow ==
    ASSUME NEW fs, NEW k \in 0 .. Longest, k # 0
    PROVE  Opens(fs)[k - 1] \subseteq Opens(fs)[k]
<1> DEFINE o == Opens(fs)
           T == {j \in 0 .. Longest : j # 0 /\ ~(o[j - 1] \subseteq o[j])}
<1>0. o[0] = {} /\ \A j \in 0 .. Longest : j # 0 =>
                     j - 1 \in 0 .. Longest /\ o[j] = StandOn(fs, o[j - 1])
  BY OpensSteps
<1> HIDE DEF o
<1>1. T = {}
  <2> SUFFICES ASSUME T # {} PROVE FALSE OBVIOUS
  <2>0. T \subseteq Nat BY PathsFinite
  <2>1. PICK j \in T : \A m \in T : ~(m < j) BY <2>0, Smallest
  <2>2. j \in 0 .. Longest /\ j \in Nat /\ j # 0 /\ j - 1 \in 0 .. Longest /\ j - 1 < j
    BY <1>0, <2>0
  <2>3. CASE j - 1 = 0
    BY <1>0, <2>2, <2>3
  <2>4. CASE j - 1 # 0
    <3>1. o[(j - 1) - 1] \subseteq o[j - 1] BY <2>1, <2>2, <2>4
    <3>2. StandOn(fs, o[(j - 1) - 1]) \subseteq StandOn(fs, o[j - 1])
      BY <3>1 DEF StandOn
    <3> QED BY <1>0, <2>2, <2>4, <3>2
  <2> QED BY <2>3, <2>4
<1> QED BY <1>1 DEF o

(* Once two lengths give the same layers, so do all that follow. *)
LEMMA OpensSettle ==
    ASSUME NEW fs, NEW i \in 0 .. Longest, i # 0, Opens(fs)[i - 1] = Opens(fs)[i]
    PROVE  OpenableIn(fs) = StandOn(fs, OpenableIn(fs))
<1> DEFINE o == Opens(fs)
           T == {j \in 0 .. Longest : i <= j /\ o[j] # o[i]}
<1>0. \A j \in 0 .. Longest : j # 0 =>
                     j - 1 \in 0 .. Longest /\ o[j] = StandOn(fs, o[j - 1])
  BY OpensSteps
<1>a. o[i - 1] = o[i] OBVIOUS
<1> HIDE DEF o
<1>b. o[i] = StandOn(fs, o[i]) BY <1>0, <1>a
<1>1. T = {}
  <2> SUFFICES ASSUME T # {} PROVE FALSE OBVIOUS
  <2>0. T \subseteq Nat BY PathsFinite
  <2>1. PICK j \in T : \A m \in T : ~(m < j) BY <2>0, Smallest
  <2>2. j \in 0 .. Longest /\ j \in Nat /\ i <= j /\ j # i /\ i \in Nat
    BY <2>0, PathsFinite
  <2>3. j # 0 /\ j - 1 \in 0 .. Longest /\ j - 1 < j /\ i <= j - 1
    BY <2>2, PathsFinite
  <2>4. o[j - 1] = o[i] BY <2>1, <2>3
  <2> QED BY <1>0, <1>b, <2>2, <2>3, <2>4
<1>2. o[Longest] = o[i]
  <2>1. Longest \in 0 .. Longest /\ i <= Longest BY PathsFinite
  <2> QED BY <1>1, <2>1
<1>3. o[Longest] = StandOn(fs, o[Longest]) BY <1>b, <1>2
<1> QED BY <1>3 DEF o, OpenableIn

LEMMA OpenableFixed ==
    ASSUME NEW fs
    PROVE  OpenableIn(fs) = StandOn(fs, OpenableIn(fs))
<1> SUFFICES ASSUME \A i \in 0 .. Longest : i # 0 => Opens(fs)[i - 1] # Opens(fs)[i]
             PROVE  OpenableIn(fs) = StandOn(fs, OpenableIn(fs))
  BY OpensSettle
<1> DEFINE o == Opens(fs)
           T == {j \in 0 .. Longest : ~(j <= Cardinality(o[j]))}
<1>0. o[0] = {} /\ \A j \in 0 .. Longest : j # 0 =>
                     j - 1 \in 0 .. Longest /\ o[j] = StandOn(fs, o[j - 1])
  BY OpensSteps
<1>a. \A j \in 0 .. Longest : j # 0 => o[j - 1] \subseteq o[j] /\ o[j - 1] # o[j]
  BY OpensGrow
<1> HIDE DEF o
<1>b. \A j \in 0 .. Longest : o[j] \subseteq Paths
  BY <1>0 DEF StandOn
<1>c. \A j \in 0 .. Longest : IsFiniteSet(o[j]) /\ Cardinality(o[j]) \in Nat
  BY <1>b, PathsFinite, FS_Subset, FS_CardinalityType
<1>1. T = {}
  <2> SUFFICES ASSUME T # {} PROVE FALSE OBVIOUS
  <2>0. T \subseteq Nat BY PathsFinite
  <2>1. PICK j \in T : \A m \in T : ~(m < j) BY <2>0, Smallest
  <2>2. j \in 0 .. Longest /\ j \in Nat OBVIOUS
  <2>3. j # 0 BY <1>c, <2>2
  <2>4. j - 1 \in 0 .. Longest /\ j - 1 < j BY <1>0, <2>2, <2>3
  <2>5. j - 1 <= Cardinality(o[j - 1]) BY <2>1, <2>4
  <2>6. Cardinality(o[j - 1]) <= Cardinality(o[j]) /\ Cardinality(o[j - 1]) # Cardinality(o[j])
    BY <1>a, <1>c, <2>2, <2>3, FS_Subset
  <2>7. Cardinality(o[j - 1]) \in Nat /\ Cardinality(o[j]) \in Nat BY <1>c, <2>2, <2>4
  <2>8. j <= Cardinality(o[j]) BY <2>2, <2>3, <2>5, <2>6, <2>7
  <2> QED BY <2>8
<1>2. Longest \in 0 .. Longest /\ Longest - 1 \in 0 .. Longest /\ Longest # 0
  BY PathsFinite
<1>3. Longest <= Cardinality(o[Longest]) BY <1>1, <1>2
<1>4. Cardinality(o[Longest]) <= Longest BY <1>b, <1>2, PathsFinite, FS_Subset DEF Longest
<1>5. Cardinality(o[Longest]) = Cardinality(Paths)
  BY <1>2, <1>3, <1>4, <1>c, PathsFinite DEF Longest
<1>6. o[Longest] = Paths BY <1>b, <1>2, <1>5, PathsFinite, FS_Subset
<1>7. o[Longest] \subseteq StandOn(fs, o[Longest])
  <2>1. StandOn(fs, o[Longest - 1]) \subseteq StandOn(fs, o[Longest])
    BY <1>a, <1>2 DEF StandOn
  <2> QED BY <1>0, <1>2, <2>1
<1>8. StandOn(fs, o[Longest]) \subseteq o[Longest]
  BY <1>6 DEF StandOn
<1> QED BY <1>7, <1>8 DEF o, OpenableIn

(* The same, layer by layer. *)
LEMMA OpenableIff ==
    ASSUME NEW fs, NEW p \in Paths
    PROVE  p \in OpenableIn(fs) <=>
             fs[p] # NoFile /\ fs[p].backing \in OpenableIn(fs) \cup {NoBacking}
  BY OpenableFixed DEF StandOn

LEMMA OpenablePaths ==
    ASSUME NEW fs
    PROVE  OpenableIn(fs) \subseteq Paths
  BY OpenableFixed DEF StandOn

(***************************************************************************)
(* What is read through a layer that opens is settled at the length of its *)
(* chain.                                                                  *)
(***************************************************************************)
LEMMA ThroughAt ==
    ASSUME NEW fs, NEW a, NEW b, NEW p \in Paths,
           fs[p].backing # NoBacking => a[fs[p].backing] = b[fs[p].backing]
    PROVE  Through(fs, a)[p] = Through(fs, b)[p]
  BY DEF Through

LEMMA ReadsSettle ==
    ASSUME NEW fs, NEW k \in 0 .. Longest, NEW j \in 0 .. Longest, k <= j,
           NEW p \in Opens(fs)[k]
    PROVE  Reads(fs)[j][p] = Reads(fs)[k][p]
<1> DEFINE o == Opens(fs)
           r == Reads(fs)
           Settled(i) == \A m \in 0 .. Longest : i <= m => \A q \in o[i] : r[m][q] = r[i][q]
           T == {i \in 0 .. Longest : ~Settled(i)}
<1>0. o[0] = {} /\ \A i \in 0 .. Longest : i # 0 =>
                     i - 1 \in 0 .. Longest /\ o[i] = StandOn(fs, o[i - 1])
  BY OpensSteps
<1>r. \A i \in 0 .. Longest : i # 0 => r[i] = Through(fs, r[i - 1])
  BY ReadsSteps
<1> HIDE DEF o, r
<1>1. T = {}
  <2> SUFFICES ASSUME T # {} PROVE FALSE OBVIOUS
  <2>0. T \subseteq Nat BY PathsFinite
  <2>1. PICK i \in T : \A m \in T : ~(m < i) BY <2>0, Smallest
  <2>2. i \in 0 .. Longest /\ i \in Nat /\ i # 0 BY <1>0, <2>0
  <2>3. i - 1 \in 0 .. Longest /\ i - 1 < i BY <1>0, <2>2
  <2>4. Settled(i - 1) BY <2>1, <2>3
  <2>5. ASSUME NEW m \in 0 .. Longest, i <= m, NEW q \in o[i]
        PROVE  r[m][q] = r[i][q]
    <3>1. m # 0 /\ m - 1 \in 0 .. Longest /\ i - 1 <= m - 1
      BY <2>2, <2>5, PathsFinite
    <3>2. q \in Paths /\ fs[q].backing \in o[i - 1] \cup {NoBacking}
      BY <1>0, <2>2, <2>5 DEF StandOn
    <3>3. fs[q].backing # NoBacking => r[m - 1][fs[q].backing] = r[i - 1][fs[q].backing]
      BY <2>4, <3>1, <3>2
    <3>4. Through(fs, r[m - 1])[q] = Through(fs, r[i - 1])[q]
      BY <3>2, <3>3, ThroughAt
    <3> QED BY <1>r, <2>2, <3>1, <3>4
  <2>6. Settled(i) BY <2>5
  <2> QED BY <2>6
<1>2. Settled(k) BY <1>1
<1>3. \A q \in o[k] : r[j][q] = r[k][q] BY <1>2
<1> QED BY <1>3 DEF o, r

(* One layer of what is read. *)
LEMMA ReadUnfold ==
    ASSUME NEW fs, NEW p \in OpenableIn(fs)
    PROVE  ReadIn(fs, p) = IF fs[p].own # Unwritten THEN fs[p].own
                           ELSE IF fs[p].backing = NoBacking THEN Blank
                           ELSE ReadIn(fs, fs[p].backing)
<1> DEFINE o == Opens(fs)
           r == Reads(fs)
           L1 == Longest - 1
<1>1. Longest \in 0 .. Longest /\ L1 \in 0 .. Longest /\ Longest # 0 /\ L1 <= Longest
  BY PathsFinite
<1>2. o[Longest] = StandOn(fs, o[L1]) /\ r[Longest] = Through(fs, r[L1])
  BY <1>1, OpensSteps, ReadsSteps
<1>3. p \in Paths /\ fs[p] # NoFile /\ fs[p].backing \in o[L1] \cup {NoBacking}
  BY <1>2 DEF OpenableIn, StandOn
<1>4. fs[p].backing # NoBacking => r[Longest][fs[p].backing] = r[L1][fs[p].backing]
  <2> HIDE DEF o, r, L1
  <2> SUFFICES ASSUME fs[p].backing # NoBacking
               PROVE  r[Longest][fs[p].backing] = r[L1][fs[p].backing]
    OBVIOUS
  <2>1. fs[p].backing \in o[L1] BY <1>3
  <2> QED BY <1>1, <2>1, ReadsSettle DEF o, r
<1> HIDE DEF o, L1
<1>5. r[Longest][p] = IF fs[p].own # Unwritten THEN fs[p].own
                      ELSE IF fs[p].backing = NoBacking THEN Blank
                      ELSE r[L1][fs[p].backing]
  <2> HIDE DEF r
  <2> QED BY <1>2, <1>3 DEF Through
<1> QED BY <1>4, <1>5 DEF ReadIn

LEMMA ReadMissing ==
    ASSUME NEW fs, NEW p \in Paths, fs[p] = NoFile
    PROVE  ReadIn(fs, p) = Nothing
<1> DEFINE r == Reads(fs)
           L1 == Longest - 1
<1>1. Longest \in 0 .. Longest /\ Longest # 0
  BY PathsFinite
<1>2. r[Longest] = Through(fs, r[L1])
  BY <1>1, ReadsSteps
<1> HIDE DEF r, L1
<1>3. r[Longest][p] = Nothing BY <1>2 DEF Through
<1> QED BY <1>3 DEF r, ReadIn

LEMMA DataNumbers ==
    /\ Contents \subseteq Nat /\ Nothing \in Nat /\ Nothing \notin Contents
    /\ Blank \in Contents /\ BaseData \in Contents
    /\ Unwritten = Nothing
    /\ \A l \in Layer : l # NoFile
<1>1. MaxWrites \in Nat BY ConstantsAssumption
<1>2. Contents \subseteq Nat /\ Nothing \in Nat /\ Nothing \notin Contents
  BY <1>1 DEF Contents, Nothing
<1>3. Blank \in Contents /\ BaseData \in Contents
  BY <1>1 DEF Contents, Blank, BaseData
<1>4. NoFile.own \notin Contents \cup {Unwritten}
  BY <1>1 DEF NoFile, Contents, Unwritten, Nothing
<1>5. \A l \in Layer : l # NoFile
  BY <1>4 DEF Layer
<1> QED BY <1>2, <1>3, <1>5 DEF Unwritten

LEMMA ReadContents ==
    ASSUME NEW fs \in Stores, NEW p \in OpenableIn(fs)
    PROVE  ReadIn(fs, p) \in Contents
<1> DEFINE S == {q \in Paths : q \in OpenableIn(fs) => ReadIn(fs, q) \in Contents}
<1>1. StandOn(fs, S) \subseteq S
  <2> SUFFICES ASSUME NEW q \in StandOn(fs, S), q \in OpenableIn(fs)
               PROVE  ReadIn(fs, q) \in Contents
    BY DEF StandOn
  <2>1. q \in Paths /\ fs[q] # NoFile /\ fs[q].backing \in S \cup {NoBacking}
    BY DEF StandOn
  <2>2. fs[q].backing \in OpenableIn(fs) \cup {NoBacking} BY <2>1, OpenableIff
  <2>3. fs[q].own \in Contents \cup {Unwritten} BY <2>1 DEF Stores, Layer
  <2>4. fs[q].backing # NoBacking => ReadIn(fs, fs[q].backing) \in Contents
    BY <2>1, <2>2
  <2> QED BY <2>3, <2>4, ReadUnfold, DataNumbers
<1>2. OpenableIn(fs) \subseteq S BY <1>1, OpenableLeast
<1> QED BY <1>2

LEMMA ReadType ==
    ASSUME NEW fs \in Stores, NEW p \in Paths
    PROVE  ReadIn(fs, p) \in Contents \cup {Nothing}
<1> DEFINE r == Reads(fs)
           Typed(i) == \A q \in Paths : r[i][q] \in Contents \cup {Nothing}
           T == {i \in 0 .. Longest : ~Typed(i)}
<1>0. r[0] = [q \in Paths |-> Nothing] /\
      \A i \in 0 .. Longest : i # 0 => r[i] = Through(fs, r[i - 1])
  BY ReadsSteps
<1> HIDE DEF r
<1>1. T = {}
  <2> SUFFICES ASSUME T # {} PROVE FALSE OBVIOUS
  <2>0. T \subseteq Nat BY PathsFinite
  <2>1. PICK i \in T : \A m \in T : ~(m < i) BY <2>0, Smallest
  <2>2. i \in 0 .. Longest /\ i \in Nat /\ i # 0 BY <1>0, <2>0
  <2>3. i - 1 \in 0 .. Longest /\ i - 1 < i BY <2>2, PathsFinite
  <2>4. Typed(i - 1) BY <2>1, <2>3
  <2>5. ASSUME NEW q \in Paths PROVE r[i][q] \in Contents \cup {Nothing}
    <3>1. r[i][q] = IF fs[q] = NoFile THEN Nothing
                    ELSE IF fs[q].own # Unwritten THEN fs[q].own
                    ELSE IF fs[q].backing = NoBacking THEN Blank
                    ELSE r[i - 1][fs[q].backing]
      <4>1. r[i] = Through(fs, r[i - 1]) BY <1>0, <2>2
      <4> QED BY <4>1 DEF Through
    <3>2. fs[q] # NoFile => /\ fs[q].own \in Contents \cup {Unwritten}
                            /\ fs[q].backing \in Paths \cup {NoBacking}
      BY DEF Stores, Layer
    <3> HIDE DEF T
    <3> QED BY <2>4, <3>1, <3>2, DataNumbers
  <2>6. Typed(i) BY <2>5
  <2> QED BY <2>6
<1>2. Typed(Longest) BY <1>1, PathsFinite
<1> QED BY <1>2 DEF ReadIn, r

(***************************************************************************)
(* Chains that a change of the files does not touch: a set of layers that  *)
(* holds the backing files of its members reads as before.                 *)
(***************************************************************************)
Upheld(fs, W) ==
    /\ W \subseteq OpenableIn(fs)
    /\ \A q \in W : fs[q].backing \in W \cup {NoBacking}

LEMMA Untouched ==
    ASSUME NEW fs, NEW gs, NEW W, Upheld(fs, W), \A q \in W : gs[q] = fs[q]
    PROVE  \A q \in W : q \in OpenableIn(gs) /\ ReadIn(gs, q) = ReadIn(fs, q)
<1> DEFINE S == {q \in Paths : q \in W =>
                   q \in OpenableIn(gs) /\ ReadIn(gs, q) = ReadIn(fs, q)}
<1>1. StandOn(fs, S) \subseteq S
  <2> SUFFICES ASSUME NEW q \in StandOn(fs, S), q \in W
               PROVE  q \in OpenableIn(gs) /\ ReadIn(gs, q) = ReadIn(fs, q)
    BY DEF StandOn
  <2>1. q \in Paths /\ fs[q] # NoFile /\ fs[q].backing \in S \cup {NoBacking}
    BY DEF StandOn
  <2>2. gs[q] = fs[q] /\ fs[q].backing \in W \cup {NoBacking} /\ q \in OpenableIn(fs)
    BY DEF Upheld
  <2>3. fs[q].backing # NoBacking =>
          /\ fs[q].backing \in OpenableIn(gs)
          /\ ReadIn(gs, fs[q].backing) = ReadIn(fs, fs[q].backing)
    BY <2>1, <2>2
  <2>4. q \in OpenableIn(gs) BY <2>1, <2>2, <2>3, OpenableIff
  <2>5. ReadIn(gs, q) = ReadIn(fs, q)
    BY <2>2, <2>3, <2>4, ReadUnfold
  <2> QED BY <2>4, <2>5
<1>2. OpenableIn(fs) \subseteq S BY <1>1, OpenableLeast
<1> QED BY <1>2 DEF Upheld

(* A change of files that no other layer that opens stands on. *)
LEMMA Apart ==
    ASSUME NEW fs, NEW gs, NEW X,
           \A q \in OpenableIn(fs) \ X : fs[q].backing \notin X,
           \A q \in Paths \ X : gs[q] = fs[q]
    PROVE  \A q \in OpenableIn(fs) \ X :
             q \in OpenableIn(gs) /\ ReadIn(gs, q) = ReadIn(fs, q)
<1> DEFINE W == OpenableIn(fs) \ X
<1>1. \A q \in OpenableIn(fs) : q \in Paths /\ fs[q].backing \in OpenableIn(fs) \cup {NoBacking}
  BY OpenableIff, OpenablePaths
<1>2. Upheld(fs, W) BY <1>1 DEF Upheld
<1>3. \A q \in W : gs[q] = fs[q] BY <1>1
<1> QED BY <1>2, <1>3, Untouched

(* Chains do not come back to where they started: below a layer that opens
   there is a standing set that the layer is no part of. *)
LEMMA ChainBelow ==
    ASSUME NEW fs, NEW p \in OpenableIn(fs), fs[p].backing # NoBacking
    PROVE  \E W : Upheld(fs, W) /\ fs[p].backing \in W /\ p \notin W
<1> DEFINE Above(q) == /\ fs[q].backing # q
                       /\ \E W : Upheld(fs, W) /\ q \in W /\ Upheld(fs, W \ {q})
           S == {q \in Paths : q \in OpenableIn(fs) => Above(q)}
<1>1. StandOn(fs, S) \subseteq S
  <2> SUFFICES ASSUME NEW q \in StandOn(fs, S), q \in OpenableIn(fs), q \notin S
               PROVE  Above(q)
    BY DEF StandOn
  <2>1. q \in Paths /\ fs[q] # NoFile /\ fs[q].backing \in S \cup {NoBacking}
    BY DEF StandOn
  <2>2. fs[q].backing # q BY <2>1, PathsFinite
  <2>3. CASE fs[q].backing = NoBacking
    <3>1. Upheld(fs, {q}) /\ Upheld(fs, {q} \ {q}) BY <2>3 DEF Upheld
    <3> QED BY <2>2, <3>1
  <2>4. CASE fs[q].backing # NoBacking
    <3> DEFINE b == fs[q].backing
    <3>1. b \in S /\ b \in OpenableIn(fs) BY <2>1, <2>4, OpenableIff
    <3>2. PICK W : Upheld(fs, W) /\ b \in W /\ Upheld(fs, W \ {b}) BY <3>1
    <3>3. q \notin W BY <2>2, <2>4, <3>2 DEF Upheld
    <3>4. Upheld(fs, W \cup {q}) BY <3>2 DEF Upheld
    <3>5. (W \cup {q}) \ {q} = W BY <3>3
    <3>6. Upheld(fs, (W \cup {q}) \ {q}) BY <3>2, <3>5
    <3> QED BY <2>2, <3>4, <3>6
  <2> QED BY <2>3, <2>4
<1>2. OpenableIn(fs) \subseteq S BY <1>1, OpenableLeast
<1>3. PICK W : Upheld(fs, W) /\ p \in W /\ Upheld(fs, W \ {p}) BY <1>2
<1>4. fs[p].backing # p BY <1>2
<1>5. fs[p].backing \in W \ {p} BY <1>3, <1>4 DEF Upheld
<1> QED BY <1>3, <1>5

(* A safe rebase: the layers that open still open, and all read the same. *)
LEMMA RebaseKeeps ==
    ASSUME NEW fs \in Stores, NEW gs, NEW c \in OpenableIn(fs),
           fs[c].backing \in OpenableIn(fs),
           NEW b \in {fs[fs[c].backing].backing, NoBacking},
           gs[c] = [backing |-> b, own |-> ReadIn(fs, c)],
           \A q \in Paths \ {c} : gs[q] = fs[q]
    PROVE  \A q \in OpenableIn(fs) : q \in OpenableIn(gs) /\ ReadIn(gs, q) = ReadIn(fs, q)
<1>1. fs[c].backing # NoBacking /\ c \in Paths BY OpenablePaths, PathsFinite
<1>2. PICK W : Upheld(fs, W) /\ fs[c].backing \in W /\ c \notin W BY <1>1, ChainBelow
<1>3. \A q \in W : gs[q] = fs[q] BY <1>2, OpenablePaths DEF Upheld
<1>4. \A q \in W : q \in OpenableIn(gs) BY <1>2, <1>3, Untouched
<1>5. b \in W \cup {NoBacking} BY <1>2 DEF Upheld
<1>6. ReadIn(fs, c) \in Contents BY ReadContents
<1>7. gs[c] # NoFile /\ gs[c].backing = b /\ gs[c].own = ReadIn(fs, c)
  <2>1. b \in Paths \cup {NoBacking} BY <1>2, <1>5, OpenablePaths DEF Upheld
  <2>2. gs[c] \in Layer BY <1>6, <2>1 DEF Layer
  <2> QED BY <2>2, DataNumbers
<1>8. c \in OpenableIn(gs) BY <1>1, <1>4, <1>5, <1>7, OpenableIff
<1>9. ReadIn(gs, c) = ReadIn(fs, c) BY <1>6, <1>7, <1>8, ReadUnfold, DataNumbers
<1> DEFINE S == {q \in Paths : q \in OpenableIn(fs) =>
                   q \in OpenableIn(gs) /\ ReadIn(gs, q) = ReadIn(fs, q)}
<1>10. StandOn(fs, S) \subseteq S
  <2> SUFFICES ASSUME NEW q \in StandOn(fs, S), q \in OpenableIn(fs), q # c
               PROVE  q \in OpenableIn(gs) /\ ReadIn(gs, q) = ReadIn(fs, q)
    BY <1>8, <1>9 DEF StandOn
  <2>1. q \in Paths /\ fs[q] # NoFile /\ fs[q].backing \in S \cup {NoBacking}
    BY DEF StandOn
  <2>2. gs[q] = fs[q] BY <2>1
  <2>3. fs[q].backing # NoBacking =>
          /\ fs[q].backing \in OpenableIn(gs)
          /\ ReadIn(gs, fs[q].backing) = ReadIn(fs, fs[q].backing)
    BY <2>1, OpenableIff
  <2>4. q \in OpenableIn(gs) BY <2>1, <2>2, <2>3, OpenableIff
  <2>5. ReadIn(gs, q) = ReadIn(fs, q)
    BY <2>2, <2>3, <2>4, ReadUnfold
  <2> QED BY <2>4, <2>5
<1>11. OpenableIn(fs) \subseteq S BY <1>10, OpenableLeast
<1> QED BY <1>11

(* A renamed layer reads as before under its new path. *)
LEMMA RenameKeeps ==
    ASSUME NEW fs, NEW gs, NEW a \in OpenableIn(fs), NEW b \in Paths,
           fs[b] = NoFile, gs[b] = fs[a],
           \A q \in Paths \ {a, b} : gs[q] = fs[q]
    PROVE  b \in OpenableIn(gs) /\ ReadIn(gs, b) = ReadIn(fs, a)
<1>1. fs[a] # NoFile /\ a \in Paths /\ fs[a].backing \in OpenableIn(fs) \cup {NoBacking}
  BY OpenableIff, OpenablePaths
<1>2. b \notin OpenableIn(fs) BY OpenableIff
<1>3. fs[a].backing # NoBacking =>
        /\ fs[a].backing \in OpenableIn(gs)
        /\ ReadIn(gs, fs[a].backing) = ReadIn(fs, fs[a].backing)
  <2> SUFFICES ASSUME fs[a].backing # NoBacking
               PROVE  /\ fs[a].backing \in OpenableIn(gs)
                      /\ ReadIn(gs, fs[a].backing) = ReadIn(fs, fs[a].backing)
    OBVIOUS
  <2>1. PICK W : Upheld(fs, W) /\ fs[a].backing \in W /\ a \notin W BY ChainBelow
  <2>2. \A q \in W : gs[q] = fs[q] BY <1>2, <2>1, OpenablePaths DEF Upheld
  <2> QED BY <2>1, <2>2, Untouched
<1>4. b \in OpenableIn(gs) BY <1>1, <1>3, OpenableIff
<1> QED BY <1>3, <1>4, ReadUnfold

-----------------------------------------------------------------------------
(***************************************************************************)
(* Types, for any number of processes and of kills.  A process keeps the   *)
(* operation it was called for through its steps.                          *)
(***************************************************************************)
OpAt(pc, op) ==
    /\ pc \in OnDisk \cup OnSnapshot => op = pc
    /\ pc = "make" => op \in {"create", "clone", "import"}
    /\ pc = "convert_image" => op = "import_image"
    /\ pc \in {"rm_active", "rm_tree"} => op \in {"delete", "delete_force"}
    /\ pc \in {"freeze", "overlay", "undo"} => op = "snapshot"
    /\ pc \in {"branch", "replace"} => op = "revert"
    /\ pc \in {"rebase", "unlink"} => op = "delete_snapshot"

ProcFits(q) ==
    /\ q \in Process
    /\ q.op \in OnSnapshot <=> q.name \in Names
    /\ q.pc = "rebase" => q.child \in Names
    /\ q.pc = "done" <=> q.exit # "none"
    /\ OpAt(q.pc, q.op)

TypeInv ==
    /\ files \in Stores
    /\ proc \in [Procs -> Process]
    /\ \A x \in Procs : ProcFits(proc[x])
    /\ writes \in 0 .. MaxWrites
    /\ kills \in 0 .. MaxKills
    /\ content \in Contents \cup {Nothing}

LEMMA TypeInvImplies == TypeInv => TypeOK
  BY DEF TypeInv, TypeOK, ProcFits, Stores

LEMMA IdleFits ==
    /\ ProcFits(Idle) /\ ProcFits(Closed)
    /\ Idle.pc = "idle" /\ Idle.exit = "none" /\ Closed.pc = "closed" /\ Closed.exit = "none"
<1>1. Nowhere \in View
  BY DEF Nowhere, View
<1>2. Idle \in Process /\ Closed \in Process
  BY <1>1 DEF Idle, Closed, Process, Exits
<1>3. /\ Idle.pc = "idle" /\ Idle.op = "none" /\ Idle.name = NoName /\ Idle.exit = "none"
      /\ Closed.pc = "closed" /\ Closed.op = "none" /\ Closed.name = NoName
      /\ Closed.exit = "none"
  BY DEF Idle, Closed
<1> QED
  BY <1>2, <1>3, ConstantsAssumption DEF ProcFits, OpAt, OnDisk, OnSnapshot

(* One process changes, and fits. *)
LEMMA OneChanges ==
    ASSUME TypeInv, NEW x \in Procs, NEW q, ProcFits(q), proc' = [proc EXCEPT ![x] = q]
    PROVE  /\ proc'[x] = q
           /\ \A y \in Procs : y # x => proc'[y] = proc[y]
           /\ proc' \in [Procs -> Process]
           /\ \A y \in Procs : ProcFits(proc'[y])
<1>1. q \in Process BY DEF ProcFits
<1>2. proc'[x] = q /\ (\A y \in Procs : y # x => proc'[y] = proc[y]) /\ proc' \in [Procs -> Process]
  BY <1>1 DEF TypeInv
<1> QED BY <1>2 DEF TypeInv

LEMMA GoesFits ==
    ASSUME TypeInv, NEW x \in Procs, NEW pc \in Steps \ {"rebase"}, Goes(x, pc),
           proc[x].pc # "done", OpAt(pc, proc[x].op)
    PROVE  /\ proc' \in [Procs -> Process]
           /\ \A y \in Procs : ProcFits(proc'[y])
           /\ \A y \in Procs : y # x => proc'[y] = proc[y]
           /\ proc'[x].pc = pc /\ proc'[x].op = proc[x].op /\ proc'[x].name = proc[x].name
           /\ proc'[x].was = proc[x].was
<1> DEFINE q == [proc[x] EXCEPT !.pc = pc]
<1>1. proc[x] \in Process /\ ProcFits(proc[x]) BY DEF TypeInv
<1>2. /\ q.pc = pc /\ q.op = proc[x].op /\ q.name = proc[x].name /\ q.was = proc[x].was
      /\ q.exit = proc[x].exit
  BY <1>1 DEF Process
<1>3. q \in Process BY <1>1 DEF Process
<1>4. proc' = [proc EXCEPT ![x] = q] BY DEF Goes
<1> HIDE DEF q
<1>5. pc # "done" BY DEF Steps
<1>6. ProcFits(q) BY <1>1, <1>2, <1>3, <1>5 DEF ProcFits
<1> QED BY <1>2, <1>4, <1>6, OneChanges

LEMMA ExitFits ==
    ASSUME TypeInv, NEW x \in Procs, NEW how \in Exits \ {"none"}, Exit(x, how)
    PROVE  /\ proc' \in [Procs -> Process]
           /\ \A y \in Procs : ProcFits(proc'[y])
           /\ \A y \in Procs : y # x => proc'[y] = proc[y]
           /\ proc'[x].pc = "done" /\ proc'[x].op = proc[x].op
           /\ proc'[x].name = proc[x].name
           /\ proc'[x].was = proc[x].was /\ proc'[x].exit = how
<1> DEFINE q == [Idle EXCEPT !.pc = "done", !.op = proc[x].op, !.name = proc[x].name,
                             !.exit = how, !.was = proc[x].was]
<1>1. proc[x] \in Process /\ ProcFits(proc[x]) BY DEF TypeInv
<1>2. /\ q.pc = "done" /\ q.op = proc[x].op /\ q.name = proc[x].name /\ q.was = proc[x].was
      /\ q.exit = how
  BY DEF Idle
<1>3. q \in Process BY <1>1 DEF Process, Idle
<1>4. proc' = [proc EXCEPT ![x] = q] BY DEF Exit
<1> HIDE DEF q
<1>5. ProcFits(q)
  BY <1>1, <1>2, <1>3 DEF ProcFits, OpAt, OnDisk, OnSnapshot
<1> QED BY <1>2, <1>4, <1>5, OneChanges

(* A renamed file. *)
LEMMA MovedIs ==
    ASSUME NEW fs \in Stores, NEW a \in Paths, NEW b \in Paths, a # b
    PROVE  /\ Moved(fs, a, b) \in Stores
           /\ Moved(fs, a, b)[b] = fs[a] /\ Moved(fs, a, b)[a] = NoFile
           /\ \A q \in Paths \ {a, b} : Moved(fs, a, b)[q] = fs[q]
<1> DEFINE gs == [fs EXCEPT ![b] = fs[a], ![a] = NoFile]
<1>1. /\ gs \in Stores /\ gs[b] = fs[a] /\ gs[a] = NoFile
      /\ \A q \in Paths \ {a, b} : gs[q] = fs[q]
  BY DEF Stores
<1>2. Moved(fs, a, b) = gs BY DEF Moved
<1> QED BY <1>1, <1>2

(* What the files amount to, member by member. *)
LEMMA ViewIs ==
    ASSUME NEW fs \in Stores
    PROVE  /\ ViewIn(fs).disk = IF Active \in OpenableIn(fs) THEN ReadIn(fs, Active) ELSE Nothing
           /\ \A n \in Names :
                ViewIn(fs).snaps[n] = IF n \in OpenableIn(fs) THEN ReadIn(fs, n) ELSE Nothing
           /\ ViewIn(fs).orphans = {n \in Names : fs[n] # NoFile /\ n \notin OpenableIn(fs)}
  BY DEF ViewIn

LEMMA ViewType ==
    ASSUME NEW fs \in Stores
    PROVE  ViewIn(fs) \in View
<1>1. \A p \in Paths : ReadIn(fs, p) \in Contents \cup {Nothing}
  BY ReadType
<1>2. Names \subseteq Paths /\ Active \in Paths BY DEF Paths
<1> DEFINE shown(p) == IF p \in OpenableIn(fs) THEN ReadIn(fs, p) ELSE Nothing
<1>3. \A p \in Paths : shown(p) \in Contents \cup {Nothing} BY <1>1
<1>4. [n \in Names |-> shown(n)] \in [Names -> Contents \cup {Nothing}] BY <1>2, <1>3
<1>5. {n \in Names : fs[n] # NoFile /\ n \notin OpenableIn(fs)} \in SUBSET Names OBVIOUS
<1>6. ViewIn(fs) = [disk    |-> shown(Active),
                    snaps   |-> [n \in Names |-> shown(n)],
                    orphans |-> {n \in Names : fs[n] # NoFile /\ n \notin OpenableIn(fs)}]
  BY DEF ViewIn
<1> HIDE DEF shown
<1> QED BY <1>2, <1>3, <1>4, <1>5, <1>6 DEF View

LEMMA StandingType ==
    ASSUME TypeInv
    PROVE  Standing \in Stores
<1>1. files \in Stores BY DEF TypeInv
<1>2. CASE \E n \in Names : Freezing(n)
  <2>1. PICK n \in Names : n = CHOOSE m \in Names : Freezing(m) BY <1>2
  <2>2. n \in Paths /\ Active \in Paths /\ n # Active BY PathsAssumption DEF Paths
  <2>3. Standing = Moved(files, n, Active) BY <1>2, <2>1 DEF Standing
  <2> QED BY <1>1, <2>2, <2>3, MovedIs
<1>3. CASE ~ \E n \in Names : Freezing(n) BY <1>1, <1>3 DEF Standing
<1> QED BY <1>2, <1>3

LEMMA SeenType ==
    ASSUME TypeInv
    PROVE  Seen \in View
  BY StandingType, ViewType DEF Viewed, Seen

LEMMA CommandsAre ==
    ASSUME NEW c \in Commands
    PROVE  \/ c[1] \in OnDisk /\ c[2] = NoName
           \/ c[1] \in OnSnapshot /\ c[2] \in Names
  BY DEF Commands

LEMMA CallFits ==
    ASSUME TypeInv, NEW x \in Procs, NEW c \in Commands, Call(x, c[1], c[2])
    PROVE  /\ proc' \in [Procs -> Process]
           /\ \A y \in Procs : ProcFits(proc'[y])
           /\ \A y \in Procs : y # x => proc'[y] = proc[y]
           /\ proc[x] = Idle
           /\ proc'[x].pc \in {c[1], "done"}
           /\ proc'[x].was = Seen
           /\ proc'[x].exit \in {"none", "unstarted", "invalid_config"}
           /\ UNCHANGED <<files, writes, kills, content>>
<1>0. \/ c[1] \in OnDisk /\ c[2] = NoName
      \/ c[1] \in OnSnapshot /\ c[2] \in Names
  BY CommandsAre
<1>1. PICK v : v = Seen OBVIOUS
<1>2. v \in View BY <1>1, SeenType
<1> DEFINE p == [Idle EXCEPT !.op = c[1], !.name = c[2], !.was = v]
           a == [p EXCEPT !.pc = c[1]]
           d(how) == [p EXCEPT !.pc = "done", !.exit = how]
<1>3. \/ proc' = [proc EXCEPT ![x] = a]
      \/ \E how \in {"unstarted", "invalid_config"} : proc' = [proc EXCEPT ![x] = d(how)]
  BY <1>1 DEF Call
<1>4. /\ a.pc = c[1] /\ a.op = c[1] /\ a.name = c[2] /\ a.was = v /\ a.exit = "none"
      /\ a \in Process
  BY <1>0, <1>2 DEF Idle, Process, Exits
<1>5. ASSUME NEW how \in {"unstarted", "invalid_config"}
      PROVE  /\ d(how).pc = "done" /\ d(how).op = c[1] /\ d(how).name = c[2]
             /\ d(how).was = v /\ d(how).exit = how
             /\ d(how) \in Process
  BY <1>0, <1>2 DEF Idle, Process, Exits
<1> HIDE DEF p, a, d
<1>6. NoName \notin Names BY ConstantsAssumption
<1>7. ProcFits(a)
  BY <1>0, <1>4, <1>6 DEF ProcFits, OpAt, OnDisk, OnSnapshot
<1>8. \A how \in {"unstarted", "invalid_config"} : ProcFits(d(how))
  BY <1>0, <1>5, <1>6 DEF ProcFits, OpAt, OnDisk, OnSnapshot
<1>9. PICK q : /\ q = a \/ \E how \in {"unstarted", "invalid_config"} : q = d(how)
               /\ proc' = [proc EXCEPT ![x] = q]
  BY <1>3
<1>10. ProcFits(q) BY <1>7, <1>8, <1>9
<1>11. /\ q.pc \in {c[1], "done"} /\ q.was = v
       /\ q.exit \in {"none", "unstarted", "invalid_config"}
  BY <1>4, <1>5, <1>9
<1> QED BY <1>1, <1>9, <1>10, <1>11, OneChanges DEF Call

LEMMA QuietExitType ==
    ASSUME TypeInv, NEW x \in Procs, NEW how \in Exits \ {"none"}, Exit(x, how),
           UNCHANGED <<files, writes, content>>, kills' \in 0 .. MaxKills
    PROVE  TypeInv'
  BY ExitFits DEF TypeInv

LEMMA QuietGoesType ==
    ASSUME TypeInv, NEW x \in Procs, NEW pc \in Steps \ {"rebase"}, Goes(x, pc),
           proc[x].pc # "done", OpAt(pc, proc[x].op),
           UNCHANGED <<files, writes, kills, content>>
    PROVE  TypeInv'
  BY GoesFits DEF TypeInv

(* The pc of a process fixes its operation. *)
LEMMA OpOf ==
    ASSUME TypeInv, NEW x \in Procs
    PROVE  OpAt(proc[x].pc, proc[x].op) /\ ProcFits(proc[x]) /\ proc[x] \in Process
  BY DEF TypeInv, ProcFits

LEMMA LayerTypes ==
    /\ \A c \in Contents : Full(c) \in Layer
    /\ \A b \in Paths : Overlay(b) \in Layer
    /\ \A b \in Paths \cup {NoBacking} : \A c \in Contents \cup {Nothing} :
         [backing |-> b, own |-> c] \in Layer
  BY DataNumbers DEF Full, Overlay, Layer

LEMMA StoreChange ==
    ASSUME NEW fs \in Stores, NEW p \in Paths, NEW l \in Layer \cup {NoFile}
    PROVE  /\ [fs EXCEPT ![p] = l] \in Stores
           /\ [fs EXCEPT ![p] = l][p] = l
           /\ \A q \in Paths \ {p} : [fs EXCEPT ![p] = l][q] = fs[q]
  BY DEF Stores

LEMMA PathsAre ==
    /\ Names \subseteq Paths /\ Active \in Paths /\ Reverting \in Paths /\ Image \in Paths
    /\ Active # Reverting /\ Active # Image /\ Reverting # Image
    /\ Active # NoBacking /\ Reverting # NoBacking /\ Image # NoBacking
    /\ \A n \in Names : n # Active /\ n # Reverting /\ n # Image /\ n # NoBacking
  BY PathsAssumption DEF Paths, Active, Reverting, Image, NoBacking

LEMMA QuietType ==
    ASSUME TypeInv, NEW x \in Procs,
           \/ \E version \in {"1", "2", "none"} : New(x, version)
           \/ \E c \in Commands : Call(x, c[1], c[2])
           \/ Return(x)
           \/ Query(x)
           \/ Kill(x)
    PROVE  TypeInv'
<1>1. ASSUME NEW version, New(x, version) PROVE TypeInv'
  BY <1>1, OneChanges, IdleFits DEF New, TypeInv
<1>2. ASSUME NEW c \in Commands, Call(x, c[1], c[2]) PROVE TypeInv'
  BY <1>2, CallFits DEF TypeInv
<1>3. CASE Return(x)
  BY <1>3, OneChanges, IdleFits DEF Return, TypeInv
<1>4. CASE Query(x)
  <2>1. PICK how \in {"not_found", "ok", "backend"} : Exit(x, how)
    BY <1>4 DEF Query, Refuse
  <2>2. how \in Exits \ {"none"} BY DEF Exits, Refusals
  <2> QED BY <1>4, <2>1, <2>2, QuietExitType DEF Query, Check, TypeInv
<1>5. CASE Kill(x)
  <2>1. "killed" \in Exits \ {"none"} BY DEF Exits
  <2>2. kills' \in 0 .. MaxKills
    BY <1>5, ConstantsAssumption DEF Kill, TypeInv
  <2> QED BY <1>5, <2>1, <2>2, QuietExitType DEF Kill
<1> QED BY <1>1, <1>2, <1>3, <1>4, <1>5

LEMMA ExitsAre ==
    {"ok", "backend", "traceback", "not_found", "already_exists", "invalid_state", "killed"}
      \subseteq Exits \ {"none"}
  BY DEF Exits, Refusals

LEMMA CheckType ==
    ASSUME TypeInv, NEW x \in Procs,
           \/ ImportImageCheck(x)
           \/ \E how \in {"create", "clone", "import"} : MakeCheck(x, how)
           \/ \E how \in {"delete", "delete_force"} : DeleteCheck(x, how)
           \/ SnapshotCheck(x)
           \/ RevertCheck(x)
           \/ DeleteSnapshotCheck(x)
    PROVE  TypeInv'
<1>0. OpAt(proc[x].pc, proc[x].op) BY OpOf
<1>1. CASE ImportImageCheck(x)
  <2>1. \/ \E how \in {"not_found", "already_exists"} : Exit(x, how)
        \/ Goes(x, "convert_image")
    BY <1>1 DEF ImportImageCheck, Refuse
  <2>2. /\ UNCHANGED <<files, writes, kills, content>> /\ kills' \in 0 .. MaxKills
        /\ proc[x].pc # "done" /\ proc[x].op = "import_image"
    BY <1>0, <1>1 DEF ImportImageCheck, Check, At, TypeInv, OpAt, OnDisk
  <2>3. "convert_image" \in Steps \ {"rebase"} /\ OpAt("convert_image", proc[x].op)
    BY <2>2 DEF Steps, OpAt, OnDisk, OnSnapshot
  <2> QED BY <2>1, <2>2, <2>3, ExitsAre, QuietExitType, QuietGoesType
<1>2. ASSUME NEW how \in {"create", "clone", "import"}, MakeCheck(x, how) PROVE TypeInv'
  <2>1. \/ \E e \in {"not_found", "already_exists", "backend"} : Exit(x, e)
        \/ Goes(x, "make")
    BY <1>2 DEF MakeCheck, Refuse
  <2>2. /\ UNCHANGED <<files, writes, kills, content>> /\ kills' \in 0 .. MaxKills
        /\ proc[x].pc # "done" /\ proc[x].op = how
    BY <1>0, <1>2 DEF MakeCheck, Check, At, TypeInv, OpAt, OnDisk
  <2>3. "make" \in Steps \ {"rebase"} /\ OpAt("make", proc[x].op)
    BY <2>2 DEF Steps, OpAt, OnDisk, OnSnapshot
  <2> QED BY <2>1, <2>2, <2>3, ExitsAre, QuietExitType, QuietGoesType
<1>3. ASSUME NEW how \in {"delete", "delete_force"}, DeleteCheck(x, how) PROVE TypeInv'
  <2>1. \/ \E e \in {"not_found", "invalid_state"} : Exit(x, e)
        \/ Goes(x, "rm_active")
    BY <1>3 DEF DeleteCheck, Refuse
  <2>2. /\ UNCHANGED <<files, writes, kills, content>> /\ kills' \in 0 .. MaxKills
        /\ proc[x].pc # "done" /\ proc[x].op = how
    BY <1>0, <1>3 DEF DeleteCheck, Check, At, TypeInv, OpAt, OnDisk
  <2>3. "rm_active" \in Steps \ {"rebase"} /\ OpAt("rm_active", proc[x].op)
    BY <2>2 DEF Steps, OpAt, OnDisk, OnSnapshot
  <2> QED BY <2>1, <2>2, <2>3, ExitsAre, QuietExitType, QuietGoesType
<1>4. CASE SnapshotCheck(x)
  <2>1. \/ \E e \in {"not_found", "already_exists", "backend"} : Exit(x, e)
        \/ Goes(x, "freeze")
    BY <1>4 DEF SnapshotCheck, Refuse
  <2>2. /\ UNCHANGED <<files, writes, kills, content>> /\ kills' \in 0 .. MaxKills
        /\ proc[x].pc # "done" /\ proc[x].op = "snapshot"
    BY <1>0, <1>4 DEF SnapshotCheck, Check, At, TypeInv, OpAt, OnSnapshot
  <2>3. "freeze" \in Steps \ {"rebase"} /\ OpAt("freeze", proc[x].op)
    BY <2>2 DEF Steps, OpAt, OnDisk, OnSnapshot
  <2> QED BY <2>1, <2>2, <2>3, ExitsAre, QuietExitType, QuietGoesType
<1>5. CASE RevertCheck(x)
  <2>1. \/ \E e \in {"not_found", "backend"} : Exit(x, e)
        \/ Goes(x, "branch")
    BY <1>5 DEF RevertCheck, Refuse
  <2>2. /\ UNCHANGED <<files, writes, kills, content>> /\ kills' \in 0 .. MaxKills
        /\ proc[x].pc # "done" /\ proc[x].op = "revert"
    BY <1>0, <1>5 DEF RevertCheck, Check, At, TypeInv, OpAt, OnSnapshot
  <2>3. "branch" \in Steps \ {"rebase"} /\ OpAt("branch", proc[x].op)
    BY <2>2 DEF Steps, OpAt, OnDisk, OnSnapshot
  <2> QED BY <2>1, <2>2, <2>3, ExitsAre, QuietExitType, QuietGoesType
<1>6. CASE DeleteSnapshotCheck(x)
  <2>1. \/ \E e \in {"not_found", "invalid_state", "backend"} : Exit(x, e)
        \/ Goes(x, "unlink")
        \/ \E c \in Names, b \in Names \cup {NoBacking} : proc' = [proc EXCEPT ![x] =
             [@ EXCEPT !.pc = "rebase", !.child = c, !.onto = b]]
    BY <1>6 DEF DeleteSnapshotCheck, Refuse
  <2>2. /\ UNCHANGED <<files, writes, kills, content>> /\ kills' \in 0 .. MaxKills
        /\ proc[x].pc # "done" /\ proc[x].op = "delete_snapshot"
    BY <1>0, <1>6 DEF DeleteSnapshotCheck, Check, At, TypeInv, OpAt, OnSnapshot
  <2>3. "unlink" \in Steps \ {"rebase"} /\ OpAt("unlink", proc[x].op)
    BY <2>2 DEF Steps, OpAt, OnDisk, OnSnapshot
  <2>4. ASSUME NEW c \in Names, NEW b \in Names \cup {NoBacking}, proc' = [proc EXCEPT ![x] =
             [@ EXCEPT !.pc = "rebase", !.child = c, !.onto = b]]
        PROVE  TypeInv'
    <3>1. ProcFits([proc[x] EXCEPT !.pc = "rebase", !.child = c, !.onto = b])
      <4> DEFINE q == [proc[x] EXCEPT !.pc = "rebase", !.child = c, !.onto = b]
      <4>1. ProcFits(proc[x]) /\ proc[x] \in Process BY OpOf
      <4>2. /\ q.pc = "rebase" /\ q.op = proc[x].op /\ q.name = proc[x].name
            /\ q.child = c /\ q.exit = proc[x].exit
        BY <4>1 DEF Process
      <4>3. q \in Process BY <4>1, PathsAre DEF Process, Steps
      <4> HIDE DEF q
      <4>4. ProcFits(q)
        BY <2>2, <4>1, <4>2, <4>3 DEF ProcFits, OpAt, OnDisk, OnSnapshot
      <4> QED BY <4>4 DEF q
    <3> QED BY <2>2, <2>4, <3>1, OneChanges DEF TypeInv
  <2> QED BY <2>1, <2>2, <2>3, <2>4, ExitsAre, QuietExitType, QuietGoesType
<1> QED BY <1>1, <1>2, <1>3, <1>4, <1>5, <1>6

(* A step that changes files, and goes on or ends. *)
LEMMA StoreStepType ==
    ASSUME TypeInv, NEW x \in Procs, files' \in Stores,
           writes' \in 0 .. MaxWrites, kills' \in 0 .. MaxKills,
           content' \in Contents \cup {Nothing},
           \/ \E how \in Exits \ {"none"} : Exit(x, how)
           \/ \E pc \in Steps \ {"rebase"} :
                Goes(x, pc) /\ proc[x].pc # "done" /\ OpAt(pc, proc[x].op)
           \/ proc' = proc
    PROVE  TypeInv'
<1>1. ASSUME NEW how \in Exits \ {"none"}, Exit(x, how) PROVE TypeInv'
  BY <1>1, ExitFits DEF TypeInv
<1>2. ASSUME NEW pc \in Steps \ {"rebase"}, Goes(x, pc), proc[x].pc # "done",
             OpAt(pc, proc[x].op)
      PROVE  TypeInv'
  BY <1>2, GoesFits DEF TypeInv
<1>3. ASSUME proc' = proc PROVE TypeInv'
  BY <1>3 DEF TypeInv
<1> QED BY <1>1, <1>2, <1>3

(* What the steps that change files make of them. *)
LEMMA ConvertImageIs ==
    ASSUME TypeInv, NEW x \in Procs, ConvertImage(x)
    PROVE  /\ UNCHANGED <<writes, kills, content>> /\ proc[x].op = "import_image"
           /\ \/ files' = files /\ Exit(x, "backend")
              \/ \E c \in {Blank, BaseData} :
                   /\ files' \in Stores /\ files'[Image] = Full(c)
                   /\ \A q \in Paths \ {Image} : files'[q] = files[q]
                   /\ \E how \in {"ok", "backend"} : Exit(x, how)
<1>1. files \in Stores /\ proc[x].op = "import_image"
  BY OpOf DEF ConvertImage, At, TypeInv, OpAt
<1>2. ASSUME NEW c \in {Blank, BaseData}
      PROVE  /\ [files EXCEPT ![Image] = Full(c)] \in Stores
             /\ [files EXCEPT ![Image] = Full(c)][Image] = Full(c)
             /\ \A q \in Paths \ {Image} : [files EXCEPT ![Image] = Full(c)][q] = files[q]
  BY <1>1, StoreChange, LayerTypes, DataNumbers, PathsAre
<1>3. UNCHANGED <<writes, kills, content>> BY DEF ConvertImage
<1>4. \/ files' = [files EXCEPT ![Image] = Full(BaseData)] /\ Exit(x, "ok")
      \/ files' = files /\ Exit(x, "backend")
      \/ files' = [files EXCEPT ![Image] = Full(Blank)] /\ Exit(x, "backend")
  BY DEF ConvertImage
<1>5. CASE files' = [files EXCEPT ![Image] = Full(BaseData)] /\ Exit(x, "ok")
  BY <1>1, <1>2, <1>3, <1>5
<1>6. CASE files' = [files EXCEPT ![Image] = Full(Blank)] /\ Exit(x, "backend")
  BY <1>1, <1>2, <1>3, <1>6
<1> QED BY <1>1, <1>3, <1>4, <1>5, <1>6

Made(how) ==
    IF how = "create" THEN Full(Blank)
    ELSE IF how = "clone" THEN Overlay(Image) ELSE Full(BaseData)

MadeReads(how) ==
    IF how = "create" THEN Blank
    ELSE IF how = "clone" THEN Read(Image) ELSE BaseData

LEMMA MakeFileIs ==
    ASSUME TypeInv, NEW x \in Procs, MakeFile(x)
    PROVE  /\ UNCHANGED <<writes, kills>> /\ proc[x].op \in {"create", "clone", "import"}
           /\ \/ UNCHANGED <<files, content>> /\ Exit(x, "backend")
              \/ /\ proc[x].op = "clone" => Image \in Openable
                 /\ files' \in Stores /\ files'[Active] = Made(proc[x].op)
                 /\ content' = MadeReads(proc[x].op)
                 /\ \A q \in Paths \ {Active} : files'[q] = files[q]
                 /\ Exit(x, "ok")
              \/ /\ proc[x].op = "import"
                 /\ files' \in Stores /\ files'[Active] = Full(Blank)
                 /\ content' = Blank
                 /\ \A q \in Paths \ {Active} : files'[q] = files[q]
                 /\ Exit(x, "backend")
<1>1. files \in Stores /\ proc[x].op \in {"create", "clone", "import"}
  BY OpOf DEF MakeFile, At, TypeInv, OpAt
<1> DEFINE how == proc[x].op
<1>2. ASSUME NEW l \in Layer
      PROVE  /\ [files EXCEPT ![Active] = l] \in Stores
             /\ [files EXCEPT ![Active] = l][Active] = l
             /\ \A q \in Paths \ {Active} : [files EXCEPT ![Active] = l][q] = files[q]
  BY <1>1, StoreChange, PathsAre
<1>3. Made(how) \in Layer /\ Full(Blank) \in Layer
  BY LayerTypes, DataNumbers, PathsAre DEF Made
<1>4. \/ /\ how = "clone" => Image \in Openable
         /\ files' = [files EXCEPT ![Active] = Made(how)]
         /\ content' = MadeReads(how)
         /\ Exit(x, "ok")
      \/ Exit(x, "backend") /\ UNCHANGED <<files, content>>
      \/ /\ how = "import"
         /\ files' = [files EXCEPT ![Active] = Full(Blank)]
         /\ content' = Blank
         /\ Exit(x, "backend")
  <2>1. /\ (CASE how = "create" -> Full(Blank)
              [] how = "clone"  -> Overlay(Image)
              [] how = "import" -> Full(BaseData)) = Made(how)
        /\ (CASE how = "create" -> Blank
              [] how = "clone"  -> Read(Image)
              [] how = "import" -> BaseData) = MadeReads(how)
    BY <1>1 DEF Made, MadeReads
  <2> QED BY <2>1, Zenon DEF MakeFile, Fails
<1>5. UNCHANGED <<writes, kills>> BY DEF MakeFile
<1> HIDE DEF how
<1>6. CASE /\ how = "clone" => Image \in Openable
           /\ files' = [files EXCEPT ![Active] = Made(how)]
           /\ content' = MadeReads(how)
           /\ Exit(x, "ok")
  BY <1>1, <1>2, <1>3, <1>5, <1>6 DEF how
<1>7. CASE /\ how = "import"
           /\ files' = [files EXCEPT ![Active] = Full(Blank)]
           /\ content' = Blank
           /\ Exit(x, "backend")
  BY <1>1, <1>2, <1>3, <1>5, <1>7 DEF how
<1> QED BY <1>1, <1>4, <1>5, <1>6, <1>7 DEF how

LEMMA DeleteActiveIs ==
    ASSUME TypeInv, NEW x \in Procs, DeleteActive(x)
    PROVE  /\ UNCHANGED <<writes, kills>> /\ proc[x].op \in {"delete", "delete_force"}
           /\ \/ UNCHANGED <<files, content>> /\ Exit(x, "traceback")
              \/ /\ files' \in Stores /\ files'[Active] = NoFile
                 /\ content' = Nothing
                 /\ \A q \in Paths \ {Active} : files'[q] = files[q]
                 /\ Exists(Active)
                 /\ Goes(x, "rm_tree")
<1>1. files \in Stores /\ proc[x].op \in {"delete", "delete_force"}
  BY OpOf DEF DeleteActive, At, TypeInv, OpAt
<1> DEFINE gs == [files EXCEPT ![Active] = NoFile]
<1>2. /\ gs \in Stores /\ gs[Active] = NoFile
      /\ \A q \in Paths \ {Active} : gs[q] = files[q]
  BY <1>1, StoreChange, PathsAre
<1>3. /\ UNCHANGED <<writes, kills>>
      /\ \/ UNCHANGED <<files, content>> /\ Exit(x, "traceback")
         \/ Exists(Active) /\ files' = gs /\ content' = Nothing /\ Goes(x, "rm_tree")
  BY DEF DeleteActive, Fails
<1> HIDE DEF gs
<1> QED BY <1>1, <1>2, <1>3

LEMMA DeleteTreeIs ==
    ASSUME TypeInv, NEW x \in Procs, DeleteTree(x)
    PROVE  /\ UNCHANGED <<writes, content>> /\ proc[x].op \in {"delete", "delete_force"}
           /\ \/ \E n \in Snapshots :
                   /\ files' \in Stores /\ files'[n] = NoFile
                   /\ \A q \in Paths \ {n} : files'[q] = files[q]
                   /\ UNCHANGED <<proc, kills>>
              \/ Snapshots = {} /\ Exit(x, "ok") /\ UNCHANGED <<files, kills>>
              \/ Exit(x, "traceback") /\ UNCHANGED <<files, kills>>
<1>1. files \in Stores /\ proc[x].op \in {"delete", "delete_force"}
  BY OpOf DEF DeleteTree, At, TypeInv, OpAt
<1>2. Snapshots \subseteq Paths BY PathsAre DEF Snapshots
<1>3. ASSUME NEW n \in Snapshots
      PROVE  /\ [files EXCEPT ![n] = NoFile] \in Stores
             /\ [files EXCEPT ![n] = NoFile][n] = NoFile
             /\ \A q \in Paths \ {n} : [files EXCEPT ![n] = NoFile][q] = files[q]
  BY <1>1, <1>2, StoreChange
<1>4. UNCHANGED <<writes, content>> BY DEF DeleteTree, Fails
<1>5. \/ \E n \in Snapshots :
           /\ files' = [files EXCEPT ![n] = NoFile]
           /\ UNCHANGED <<proc, kills>>
      \/ Snapshots = {} /\ Exit(x, "ok") /\ UNCHANGED <<files, kills>>
      \/ Exit(x, "traceback") /\ UNCHANGED <<files, kills>>
  BY DEF DeleteTree, Fails
<1>6. CASE \E n \in Snapshots :
           /\ files' = [files EXCEPT ![n] = NoFile]
           /\ UNCHANGED <<proc, kills>>
  <2>1. PICK n \in Snapshots : /\ files' = [files EXCEPT ![n] = NoFile]
                               /\ UNCHANGED <<proc, kills>>
    BY <1>6
  <2>2. /\ files' \in Stores /\ files'[n] = NoFile
        /\ \A q \in Paths \ {n} : files'[q] = files[q]
    BY <1>3, <2>1
  <2> QED BY <1>1, <1>4, <2>1, <2>2
<1> QED BY <1>1, <1>4, <1>5, <1>6

(* The name of a process that works on a snapshot. *)
LEMMA NameOf ==
    ASSUME TypeInv, NEW x \in Procs, proc[x].op \in OnSnapshot
    PROVE  /\ proc[x].name \in Names /\ proc[x].name \in Paths
           /\ proc[x].name # Active /\ proc[x].name # Reverting /\ proc[x].name # Image
           /\ proc[x].name # NoBacking
  BY OpOf, PathsAre DEF ProcFits

LEMMA SnapshotFreezeIs ==
    ASSUME TypeInv, NEW x \in Procs, SnapshotFreeze(x)
    PROVE  /\ UNCHANGED <<writes, kills, content>> /\ proc[x].op = "snapshot"
           /\ \/ UNCHANGED files /\ Exit(x, "traceback")
              \/ /\ files' \in Stores /\ Exists(Active)
                 /\ files'[proc[x].name] = files[Active] /\ files'[Active] = NoFile
                 /\ \A q \in Paths \ {Active, proc[x].name} : files'[q] = files[q]
                 /\ files' = Moved(files, Active, proc[x].name)
                 /\ Goes(x, "overlay") \/ Exit(x, "traceback")
<1>1. files \in Stores /\ proc[x].op = "snapshot"
  BY OpOf DEF SnapshotFreeze, At, TypeInv, OpAt
<1>2. PICK n : n = proc[x].name OBVIOUS
<1>3. n \in Paths /\ n # Active BY <1>1, <1>2, NameOf DEF OnSnapshot
<1> DEFINE gs == Moved(files, Active, n)
<1>4. /\ gs \in Stores /\ gs[n] = files[Active] /\ gs[Active] = NoFile
      /\ \A q \in Paths \ {Active, n} : gs[q] = files[q]
  BY <1>1, <1>3, PathsAre, MovedIs
<1>5. /\ UNCHANGED <<writes, kills, content>>
      /\ \/ UNCHANGED files /\ Exit(x, "traceback")
         \/ Exists(Active) /\ files' = gs /\ (Goes(x, "overlay") \/ Exit(x, "traceback"))
  BY <1>2 DEF SnapshotFreeze, Fails
<1> QED BY <1>1, <1>2, <1>4, <1>5

LEMMA SnapshotOverlayIs ==
    ASSUME TypeInv, NEW x \in Procs, SnapshotOverlay(x)
    PROVE  /\ UNCHANGED <<writes, kills, content>> /\ proc[x].op = "snapshot"
           /\ \/ UNCHANGED files /\ Goes(x, "undo")
              \/ /\ files' \in Stores /\ proc[x].name \in Openable
                 /\ files'[Active] = Overlay(proc[x].name)
                 /\ \A q \in Paths \ {Active} : files'[q] = files[q]
                 /\ Exit(x, "ok")
<1>1. files \in Stores /\ proc[x].op = "snapshot"
  BY OpOf DEF SnapshotOverlay, At, TypeInv, OpAt
<1>2. PICK n : n = proc[x].name OBVIOUS
<1>3. n \in Paths BY <1>1, <1>2, NameOf DEF OnSnapshot
<1> DEFINE gs == [files EXCEPT ![Active] = Overlay(n)]
<1>4. /\ gs \in Stores /\ gs[Active] = Overlay(n)
      /\ \A q \in Paths \ {Active} : gs[q] = files[q]
  BY <1>1, <1>3, StoreChange, LayerTypes, PathsAre
<1>5. /\ UNCHANGED <<writes, kills, content>>
      /\ \/ UNCHANGED files /\ Goes(x, "undo")
         \/ n \in Openable /\ files' = gs /\ Exit(x, "ok")
  BY <1>2 DEF SnapshotOverlay
<1> HIDE DEF gs
<1> QED BY <1>1, <1>2, <1>4, <1>5

LEMMA SnapshotUndoIs ==
    ASSUME TypeInv, NEW x \in Procs, SnapshotUndo(x)
    PROVE  /\ UNCHANGED <<writes, kills, content>> /\ proc[x].op = "snapshot"
           /\ \/ UNCHANGED files /\ Exit(x, "traceback")
              \/ /\ files' \in Stores
                 /\ files'[Active] = files[proc[x].name] /\ files'[proc[x].name] = NoFile
                 /\ \A q \in Paths \ {proc[x].name, Active} : files'[q] = files[q]
                 /\ files' = Moved(files, proc[x].name, Active)
                 /\ Exit(x, "backend")
<1>1. files \in Stores /\ proc[x].op = "snapshot"
  BY OpOf DEF SnapshotUndo, At, TypeInv, OpAt
<1>2. PICK n : n = proc[x].name OBVIOUS
<1>3. n \in Paths /\ n # Active BY <1>1, <1>2, NameOf DEF OnSnapshot
<1> DEFINE gs == Moved(files, n, Active)
<1>4. /\ gs \in Stores /\ gs[Active] = files[n] /\ gs[n] = NoFile
      /\ \A q \in Paths \ {n, Active} : gs[q] = files[q]
  BY <1>1, <1>3, PathsAre, MovedIs
<1>5. /\ UNCHANGED <<writes, kills, content>>
      /\ \/ UNCHANGED files /\ Exit(x, "traceback")
         \/ files' = gs /\ Exit(x, "backend")
  BY <1>2 DEF SnapshotUndo, Fails
<1> QED BY <1>1, <1>2, <1>4, <1>5

LEMMA RevertBranchIs ==
    ASSUME TypeInv, NEW x \in Procs, RevertBranch(x)
    PROVE  /\ UNCHANGED <<writes, kills, content>> /\ proc[x].op = "revert"
           /\ \/ UNCHANGED files /\ Exit(x, "backend")
              \/ /\ files' \in Stores /\ proc[x].name \in Openable
                 /\ files'[Reverting] = Overlay(proc[x].name)
                 /\ \A q \in Paths \ {Reverting} : files'[q] = files[q]
                 /\ Goes(x, "replace")
<1>1. files \in Stores /\ proc[x].op = "revert"
  BY OpOf DEF RevertBranch, At, TypeInv, OpAt
<1>2. PICK n : n = proc[x].name OBVIOUS
<1>3. n \in Paths BY <1>1, <1>2, NameOf DEF OnSnapshot
<1> DEFINE gs == [files EXCEPT ![Reverting] = Overlay(n)]
<1>4. /\ gs \in Stores /\ gs[Reverting] = Overlay(n)
      /\ \A q \in Paths \ {Reverting} : gs[q] = files[q]
  BY <1>1, <1>3, StoreChange, LayerTypes, PathsAre
<1>5. /\ UNCHANGED <<writes, kills, content>>
      /\ \/ UNCHANGED files /\ Exit(x, "backend")
         \/ n \in Openable /\ files' = gs /\ Goes(x, "replace")
  BY <1>2 DEF RevertBranch, Fails
<1> HIDE DEF gs
<1> QED BY <1>1, <1>2, <1>4, <1>5

LEMMA RevertReplaceIs ==
    ASSUME TypeInv, NEW x \in Procs, RevertReplace(x)
    PROVE  /\ UNCHANGED <<writes, kills>> /\ proc[x].op = "revert"
           /\ \/ UNCHANGED <<files, content>> /\ Exit(x, "traceback")
              \/ /\ files' \in Stores
                 /\ files'[Active] = files[Reverting] /\ files'[Reverting] = NoFile
                 /\ \A q \in Paths \ {Reverting, Active} : files'[q] = files[q]
                 /\ content' = Read(proc[x].name)
                 /\ Exit(x, "ok")
<1>1. files \in Stores /\ proc[x].op = "revert"
  BY OpOf DEF RevertReplace, At, TypeInv, OpAt
<1> DEFINE gs == Moved(files, Reverting, Active)
<1>4. /\ gs \in Stores /\ gs[Active] = files[Reverting] /\ gs[Reverting] = NoFile
      /\ \A q \in Paths \ {Reverting, Active} : gs[q] = files[q]
  BY <1>1, PathsAre, MovedIs
<1>5. /\ UNCHANGED <<writes, kills>>
      /\ \/ UNCHANGED <<files, content>> /\ Exit(x, "traceback")
         \/ files' = gs /\ content' = Read(proc[x].name) /\ Exit(x, "ok")
  BY DEF RevertReplace, Fails
<1> HIDE DEF gs
<1> QED BY <1>1, <1>4, <1>5

LEMMA DeleteSnapshotRebaseIs ==
    ASSUME TypeInv, NEW x \in Procs, DeleteSnapshotRebase(x)
    PROVE  /\ UNCHANGED <<writes, kills, content>> /\ proc[x].op = "delete_snapshot"
           /\ proc[x].child \in Names
           /\ \/ /\ UNCHANGED files
                 /\ Exit(x, "backend") \/ Exit(x, "traceback")
              \/ /\ files' \in Stores
                 /\ proc[x].child \in Openable
                 /\ files'[proc[x].child] =
                      [backing |-> proc[x].onto, own |-> Read(proc[x].child)]
                 /\ \A q \in Paths \ {proc[x].child} : files'[q] = files[q]
                 /\ Goes(x, "unlink") \/ Exit(x, "traceback")
<1>1. /\ files \in Stores /\ proc[x].op = "delete_snapshot" /\ proc[x].child \in Names
      /\ proc[x].onto \in Paths \cup {NoBacking}
  BY OpOf DEF DeleteSnapshotRebase, At, TypeInv, OpAt, ProcFits, Process
<1>2. PICK c, b : c = proc[x].child /\ b = proc[x].onto OBVIOUS
<1>3. c \in Paths /\ Read(c) \in Contents \cup {Nothing}
  BY <1>1, <1>2, PathsAre, ReadType DEF Read
<1> DEFINE gs == [files EXCEPT ![c] = [backing |-> b, own |-> Read(c)]]
<1>4. /\ gs \in Stores /\ gs[c] = [backing |-> b, own |-> Read(c)]
      /\ \A q \in Paths \ {c} : gs[q] = files[q]
  <2>1. [backing |-> b, own |-> Read(c)] \in Layer BY <1>1, <1>2, <1>3, LayerTypes
  <2> QED BY <1>1, <1>3, <2>1, StoreChange
<1>5. /\ UNCHANGED <<writes, kills, content>>
      /\ \/ UNCHANGED files /\ (Exit(x, "backend") \/ Exit(x, "traceback"))
         \/ /\ c \in Openable /\ files' = gs
            /\ Goes(x, "unlink") \/ Exit(x, "traceback")
  BY <1>2 DEF DeleteSnapshotRebase, Rebased, Fails
<1> HIDE DEF gs
<1> QED BY <1>1, <1>2, <1>4, <1>5

LEMMA DeleteSnapshotUnlinkIs ==
    ASSUME TypeInv, NEW x \in Procs, DeleteSnapshotUnlink(x)
    PROVE  /\ UNCHANGED <<writes, kills, content>> /\ proc[x].op = "delete_snapshot"
           /\ \/ UNCHANGED files /\ Exit(x, "traceback")
              \/ /\ files' \in Stores
                 /\ files'[proc[x].name] = NoFile
                 /\ \A q \in Paths \ {proc[x].name} : files'[q] = files[q]
                 /\ Exit(x, "ok")
<1>1. files \in Stores /\ proc[x].op = "delete_snapshot"
  BY OpOf DEF DeleteSnapshotUnlink, At, TypeInv, OpAt
<1>2. PICK n : n = proc[x].name OBVIOUS
<1>3. n \in Paths BY <1>1, <1>2, NameOf DEF OnSnapshot
<1> DEFINE gs == [files EXCEPT ![n] = NoFile]
<1>4. /\ gs \in Stores /\ gs[n] = NoFile
      /\ \A q \in Paths \ {n} : gs[q] = files[q]
  BY <1>1, <1>3, StoreChange
<1>5. /\ UNCHANGED <<writes, kills, content>>
      /\ \/ UNCHANGED files /\ Exit(x, "traceback")
         \/ files' = gs /\ Exit(x, "ok")
  BY <1>2 DEF DeleteSnapshotUnlink, Fails
<1> HIDE DEF gs
<1> QED BY <1>1, <1>2, <1>4, <1>5

LEMMA GuestWriteIs ==
    ASSUME TypeInv, GuestWrite
    PROVE  /\ UNCHANGED <<proc, kills>> /\ writes' \in 0 .. MaxWrites
           /\ files' \in Stores /\ content' \in Contents
           /\ Active \in Openable
           /\ files'[Active].backing = files[Active].backing
           /\ files'[Active].own = content' /\ files'[Active] # NoFile
           /\ \A q \in Paths \ {Active} : files'[q] = files[q]
           /\ \A x \in Procs : proc[x] \in {Idle, Closed}
<1>1. files \in Stores /\ Active \in Openable /\ writes < MaxWrites /\ writes \in Nat
  BY DEF TypeInv, GuestWrite
<1>2. writes + 1 \in 0 .. MaxWrites /\ writes + 2 \in Contents
  BY <1>1, ConstantsAssumption DEF Contents
<1>3. files[Active] \in Layer
  <2>1. files[Active] # NoFile BY <1>1, OpenableIff, PathsAre DEF Openable
  <2> QED BY <1>1, <2>1, PathsAre DEF Stores
<1> DEFINE l == [files[Active] EXCEPT !.own = writes + 2]
<1>4. l \in Layer /\ l.backing = files[Active].backing /\ l.own = writes + 2
  BY <1>2, <1>3 DEF Layer
<1>5. files' = [files EXCEPT ![Active] = l] BY DEF GuestWrite
<1> HIDE DEF l
<1>6. /\ files' \in Stores /\ files'[Active] = l
      /\ \A q \in Paths \ {Active} : files'[q] = files[q]
  BY <1>1, <1>4, <1>5, PathsAre DEF Stores
<1>7. l # NoFile BY <1>4, DataNumbers
<1> QED BY <1>1, <1>2, <1>4, <1>6, <1>7 DEF GuestWrite, Resting

LEMMA StoreType ==
    ASSUME TypeInv, NEW x \in Procs,
           \/ ConvertImage(x) \/ MakeFile(x) \/ DeleteActive(x) \/ DeleteTree(x)
           \/ SnapshotFreeze(x) \/ SnapshotOverlay(x) \/ SnapshotUndo(x)
           \/ RevertBranch(x) \/ RevertReplace(x)
           \/ DeleteSnapshotRebase(x) \/ DeleteSnapshotUnlink(x)
    PROVE  TypeInv'
<1>0. /\ files \in Stores /\ writes \in 0 .. MaxWrites /\ kills \in 0 .. MaxKills
      /\ content \in Contents \cup {Nothing}
  BY DEF TypeInv
<1>a. \A p \in Paths : Read(p) \in Contents \cup {Nothing} BY <1>0, ReadType DEF Read
<1>b. {"overlay", "undo", "replace", "unlink", "rm_tree"} \subseteq Steps \ {"rebase"}
  BY DEF Steps
<1>1. CASE ConvertImage(x)
  BY <1>0, <1>1, ConvertImageIs, StoreStepType, ExitsAre
<1>2. CASE MakeFile(x)
  <2>1. MadeReads(proc[x].op) \in Contents \cup {Nothing}
    BY <1>a, DataNumbers, PathsAre DEF MadeReads
  <2>2. /\ files' \in Stores /\ content' \in Contents \cup {Nothing}
        /\ UNCHANGED <<writes, kills>>
        /\ \E how \in {"ok", "backend"} : Exit(x, how)
    BY <1>0, <1>2, <2>1, MakeFileIs, DataNumbers
  <2> QED BY <1>0, <2>2, StoreStepType, ExitsAre
<1>3. CASE DeleteActive(x)
  <2>1. proc[x].pc # "done" BY <1>3 DEF DeleteActive, At
  <2>2. proc[x].op \in {"delete", "delete_force"} BY <1>3, DeleteActiveIs
  <2>3. OpAt("rm_tree", proc[x].op) BY <2>2 DEF OpAt, OnDisk, OnSnapshot
  <2> QED BY <1>0, <1>b, <1>3, <2>1, <2>3, DeleteActiveIs, StoreStepType, ExitsAre
<1>4. CASE DeleteTree(x)
  <2>1. kills' \in 0 .. MaxKills BY <1>0, <1>4, DeleteTreeIs, ConstantsAssumption
  <2> QED BY <1>0, <1>4, <2>1, DeleteTreeIs, StoreStepType, ExitsAre
<1>5. CASE SnapshotFreeze(x)
  <2>1. proc[x].pc # "done" BY <1>5 DEF SnapshotFreeze, At
  <2>2. proc[x].op = "snapshot" BY <1>5, SnapshotFreezeIs
  <2>3. OpAt("overlay", proc[x].op) BY <2>2 DEF OpAt, OnDisk, OnSnapshot
  <2> QED BY <1>0, <1>b, <1>5, <2>1, <2>3, SnapshotFreezeIs, StoreStepType, ExitsAre
<1>6. CASE SnapshotOverlay(x)
  <2>1. proc[x].pc # "done" BY <1>6 DEF SnapshotOverlay, At
  <2>2. proc[x].op = "snapshot" BY <1>6, SnapshotOverlayIs
  <2>3. OpAt("undo", proc[x].op) BY <2>2 DEF OpAt, OnDisk, OnSnapshot
  <2> QED BY <1>0, <1>b, <1>6, <2>1, <2>3, SnapshotOverlayIs, StoreStepType, ExitsAre
<1>7. CASE SnapshotUndo(x)
  BY <1>0, <1>7, SnapshotUndoIs, StoreStepType, ExitsAre
<1>8. CASE RevertBranch(x)
  <2>1. proc[x].pc # "done" BY <1>8 DEF RevertBranch, At
  <2>2. proc[x].op = "revert" BY <1>8, RevertBranchIs
  <2>3. OpAt("replace", proc[x].op) BY <2>2 DEF OpAt, OnDisk, OnSnapshot
  <2> QED BY <1>0, <1>b, <1>8, <2>1, <2>3, RevertBranchIs, StoreStepType, ExitsAre
<1>9. CASE RevertReplace(x)
  <2>1. proc[x].op = "revert" BY <1>9, RevertReplaceIs
  <2>2. Read(proc[x].name) \in Contents \cup {Nothing}
    BY <1>a, <2>1, NameOf DEF OnSnapshot
  <2> QED BY <1>0, <1>9, <2>2, RevertReplaceIs, StoreStepType, ExitsAre
<1>10. CASE DeleteSnapshotRebase(x)
  <2>1. proc[x].pc # "done" BY <1>10 DEF DeleteSnapshotRebase, At
  <2>2. proc[x].op = "delete_snapshot" BY <1>10, DeleteSnapshotRebaseIs
  <2>3. OpAt("unlink", proc[x].op) BY <2>2 DEF OpAt, OnDisk, OnSnapshot
  <2> QED BY <1>0, <1>b, <1>10, <2>1, <2>3, DeleteSnapshotRebaseIs, StoreStepType, ExitsAre
<1>11. CASE DeleteSnapshotUnlink(x)
  BY <1>0, <1>11, DeleteSnapshotUnlinkIs, StoreStepType, ExitsAre
<1> QED
  BY <1>1, <1>2, <1>3, <1>4, <1>5, <1>6, <1>7, <1>8, <1>9, <1>10, <1>11

LEMMA InitType == Init => TypeInv
<1> SUFFICES ASSUME Init PROVE TypeInv OBVIOUS
<1>1. \A x \in Procs : proc[x] = Closed BY DEF Init
<1>2. proc \in [Procs -> Process] BY IdleFits DEF Init, ProcFits
<1> QED BY <1>1, <1>2, IdleFits, ConstantsAssumption DEF Init, TypeInv, Stores

LEMMA NextType == TypeInv /\ [Next]_vars => TypeInv'
<1> SUFFICES ASSUME TypeInv, [Next]_vars PROVE TypeInv' OBVIOUS
<1>1. CASE UNCHANGED vars BY <1>1 DEF TypeInv, vars
<1>2. CASE GuestWrite BY <1>2, GuestWriteIs DEF TypeInv
<1>3. ASSUME NEW x \in Procs,
             \/ \E version \in {"1", "2", "none"} : New(x, version)
             \/ \E c \in Commands : Call(x, c[1], c[2])
             \/ Return(x) \/ Query(x) \/ Kill(x)
      PROVE  TypeInv'
  BY <1>3, QuietType
<1>4. ASSUME NEW x \in Procs,
             \/ ImportImageCheck(x)
             \/ \E how \in {"create", "clone", "import"} : MakeCheck(x, how)
             \/ \E how \in {"delete", "delete_force"} : DeleteCheck(x, how)
             \/ SnapshotCheck(x) \/ RevertCheck(x) \/ DeleteSnapshotCheck(x)
      PROVE  TypeInv'
  BY <1>4, CheckType
<1>5. ASSUME NEW x \in Procs,
             \/ ConvertImage(x) \/ MakeFile(x) \/ DeleteActive(x) \/ DeleteTree(x)
             \/ SnapshotFreeze(x) \/ SnapshotOverlay(x) \/ SnapshotUndo(x)
             \/ RevertBranch(x) \/ RevertReplace(x)
             \/ DeleteSnapshotRebase(x) \/ DeleteSnapshotUnlink(x)
      PROVE  TypeInv'
  BY <1>5, StoreType
<1> QED BY <1>1, <1>2, <1>3, <1>4, <1>5, Zenon DEF Next

(***************************************************************************)
(* Whatever the calls of any number of callers, the kills and the guest    *)
(* writes, files are layers, and a process is in a step of the operation   *)
(* it was called for.                                                      *)
(***************************************************************************)
THEOREM TypesHold == Spec => []TypeOK
<1>1. Spec => []TypeInv
  BY InitType, NextType, PTL DEF Spec
<1> QED BY <1>1, TypeInvImplies, PTL

-----------------------------------------------------------------------------
(***************************************************************************)
(* One process at a time, and any number of kills.  A backing file is a    *)
(* snapshot or the image; at every step the process knows what its checks  *)
(* have found; and the active file, while there is one, opens and holds    *)
(* what the guest has last written.                                        *)
(***************************************************************************)
OneProcess == \E x : Procs = {x}

Linked(fs) ==
    /\ \A p \in Paths : fs[p].backing \in Names \cup {Image, NoBacking}
    /\ fs[Image].backing = NoBacking

ChildrenIn(fs, n) == {m \in Names : fs[m].backing = n}

StepFits(fs, q, c) ==
    /\ q.pc = "make" => fs[Active] = NoFile
    /\ q.pc = "convert_image" => fs[Image] = NoFile
    /\ q.pc = "rm_active" => fs[Active] # NoFile
    /\ q.pc = "rm_tree" => fs[Active] = NoFile /\ c = Nothing
    /\ q.pc = "freeze" => fs[Active] # NoFile /\ fs[q.name] = NoFile
    /\ q.pc \in {"overlay", "undo"} =>
         fs[Active] = NoFile /\ q.name \in OpenableIn(fs) /\ ReadIn(fs, q.name) = c
    /\ q.pc = "branch" => fs[Active] # NoFile /\ fs[q.name] # NoFile
    /\ q.pc = "replace" =>
         /\ fs[Active] # NoFile /\ q.name \in OpenableIn(fs)
         /\ fs[Reverting] = Overlay(q.name)
    /\ q.pc \in {"rebase", "unlink"} =>
         fs[Active] # NoFile /\ fs[q.name] # NoFile /\ fs[Active].backing # q.name
    /\ q.pc = "rebase" =>
         /\ ChildrenIn(fs, q.name) = {q.child}
         /\ q.onto = IF fs[q.name].backing \in Names THEN fs[q.name].backing ELSE NoBacking
    /\ q.pc = "unlink" => ChildrenIn(fs, q.name) = {}

DiskFits(fs, c) ==
    /\ fs[Active] # NoFile => Active \in OpenableIn(fs) /\ ReadIn(fs, Active) = c
    /\ fs[Active] = NoFile /\ c # Nothing =>
         \E n \in Names : n \in OpenableIn(fs) /\ ReadIn(fs, n) = c

KInv ==
    /\ TypeInv
    /\ Linked(files)
    /\ DiskFits(files, content)
    /\ \A x \in Procs : StepFits(files, proc[x], content)

LEMMA KInvPrime ==
    ASSUME NEW x, Procs = {x}, TypeInv', Linked(files'), DiskFits(files', content'),
           StepFits(files', proc'[x], content')
    PROVE  KInv'
  BY DEF KInv

LEMMA KInvAt ==
    ASSUME KInv, NEW x \in Procs
    PROVE  /\ TypeInv /\ files \in Stores /\ Linked(files) /\ DiskFits(files, content)
           /\ StepFits(files, proc[x], content)
           /\ ProcFits(proc[x])
  BY DEF KInv, TypeInv

(* The end of a process, or its return, asks nothing of the files. *)
LEMMA EndFits ==
    ASSUME NEW fs, NEW q, NEW c, q.pc \in {"done", "idle", "closed"} \cup OnDisk \cup OnSnapshot
    PROVE  StepFits(fs, q, c)
  BY DEF StepFits, OnDisk, OnSnapshot

LEMMA QuietK ==
    ASSUME KInv, NEW x, Procs = {x}, TypeInv', files' = files, content' = content,
           StepFits(files, proc'[x], content)
    PROVE  KInv'
  BY KInvPrime DEF KInv

LEMMA QuietExitK ==
    ASSUME KInv, NEW x, Procs = {x}, TypeInv', files' = files, content' = content,
           NEW how \in Exits \ {"none"}, Exit(x, how)
    PROVE  KInv'
<1>1. proc'[x].pc = "done" BY ExitFits DEF KInv
<1> QED BY <1>1, EndFits, QuietK

(* The files after a step: what links them. *)
LEMMA LinkedChange ==
    ASSUME NEW fs, Linked(fs), NEW gs, NEW p \in Paths \ {Image},
           gs[p].backing \in Names \cup {Image, NoBacking},
           \A q \in Paths \ {p} : gs[q] = fs[q]
    PROVE  Linked(gs)
  BY PathsAre DEF Linked

LEMMA LinkedMove ==
    ASSUME NEW fs, Linked(fs), NEW gs, NEW a \in Paths \ {Image}, NEW b \in Paths \ {Image},
           gs[a] = NoFile, gs[b] = fs[a],
           \A q \in Paths \ {a, b} : gs[q] = fs[q]
    PROVE  Linked(gs)
<1>1. NoFile.backing = NoBacking BY DEF NoFile
<1> QED BY <1>1, PathsAre DEF Linked

(* No backing file is the active file or the one a revert prepares. *)
LEMMA NotBacking ==
    ASSUME NEW fs, Linked(fs), NEW q \in Paths
    PROVE  fs[q].backing \notin {Active, Reverting}
  BY PathsAre DEF Linked

LEMMA ChangeAside ==
    ASSUME NEW fs, Linked(fs), NEW gs, NEW X, X \subseteq {Active, Reverting},
           \A q \in Paths \ X : gs[q] = fs[q]
    PROVE  \A q \in OpenableIn(fs) \ X :
             q \in OpenableIn(gs) /\ ReadIn(gs, q) = ReadIn(fs, q)
<1>1. \A q \in OpenableIn(fs) \ X : fs[q].backing \notin X
  BY NotBacking, OpenablePaths
<1> QED BY <1>1, Apart

(* A new file on a layer that opens. *)
LEMMA OverlayReads ==
    ASSUME NEW gs \in Stores, NEW p \in Paths, NEW b \in OpenableIn(gs), gs[p] = Overlay(b)
    PROVE  p \in OpenableIn(gs) /\ ReadIn(gs, p) = ReadIn(gs, b)
<1>1. b \in Paths BY OpenablePaths
<1>2. gs[p] # NoFile /\ gs[p].backing = b /\ gs[p].own = Unwritten /\ b # NoBacking
  BY <1>1, LayerTypes, DataNumbers, PathsFinite DEF Overlay
<1>3. p \in OpenableIn(gs) BY <1>2, OpenableIff
<1> QED BY <1>2, <1>3, ReadUnfold

LEMMA FullReads ==
    ASSUME NEW gs, NEW p \in Paths, NEW c \in Contents, gs[p] = Full(c)
    PROVE  p \in OpenableIn(gs) /\ ReadIn(gs, p) = c
<1>1. gs[p] # NoFile /\ gs[p].backing = NoBacking /\ gs[p].own = c
  BY LayerTypes, DataNumbers DEF Full
<1>2. p \in OpenableIn(gs) BY <1>1, OpenableIff
<1> QED BY <1>1, <1>2, ReadUnfold, DataNumbers

LEMMA QuietStepsK ==
    ASSUME KInv, NEW x, Procs = {x},
           \/ \E version \in {"1", "2", "none"} : New(x, version)
           \/ \E c \in Commands : Call(x, c[1], c[2])
           \/ Return(x)
           \/ Query(x)
           \/ Kill(x)
    PROVE  KInv'
<1>1. TypeInv /\ TypeInv' /\ x \in Procs BY QuietType DEF KInv
<1>2. ASSUME NEW version, New(x, version) PROVE KInv'
  <2>1. proc'[x] = Idle /\ UNCHANGED <<files, content>>
    BY <1>1, <1>2 DEF New, TypeInv
  <2> QED BY <1>1, <2>1, IdleFits, EndFits, QuietK
<1>3. ASSUME NEW c \in Commands, Call(x, c[1], c[2]) PROVE KInv'
  <2>1. proc'[x].pc \in {c[1], "done"} /\ UNCHANGED <<files, content>>
    BY <1>1, <1>3, CallFits
  <2>2. c[1] \in OnDisk \cup OnSnapshot BY CommandsAre
  <2> QED BY <1>1, <2>1, <2>2, EndFits, QuietK
<1>4. CASE Return(x)
  <2>1. proc'[x] = Idle /\ UNCHANGED <<files, content>>
    BY <1>1, <1>4 DEF Return, TypeInv
  <2> QED BY <1>1, <2>1, IdleFits, EndFits, QuietK
<1>5. CASE Query(x)
  <2>1. PICK how \in {"not_found", "ok", "backend"} : Exit(x, how)
    BY <1>5 DEF Query, Refuse
  <2> QED BY <1>1, <1>5, <2>1, ExitsAre, QuietExitK DEF Query, Check
<1>6. CASE Kill(x)
  BY <1>1, <1>6, ExitsAre, QuietExitK DEF Kill
<1> QED BY <1>2, <1>3, <1>4, <1>5, <1>6

(* A process that goes on, with the files as they are. *)
LEMMA QuietGoesK ==
    ASSUME KInv, NEW x, Procs = {x}, TypeInv', files' = files, content' = content,
           NEW pc \in Steps \ {"rebase"}, Goes(x, pc), proc[x].pc # "done",
           OpAt(pc, proc[x].op),
           \A q : q.pc = pc /\ q.name = proc[x].name => StepFits(files, q, content)
    PROVE  KInv'
<1>1. proc'[x].pc = pc /\ proc'[x].name = proc[x].name BY GoesFits DEF KInv
<1> QED BY <1>1, QuietK

(* The children that snapshot_list finds, and those in the files. *)
LEMMA ChildrenAre ==
    ASSUME NEW n \in Names
    PROVE  Children(n) = ChildrenIn(files, n)
<1>1. NoFile.backing # n BY PathsAre DEF NoFile
<1> QED BY <1>1 DEF Children, Snapshots, Exists, ChildrenIn

LEMMA MakeChecksK ==
    ASSUME KInv, NEW x, Procs = {x},
           \/ ImportImageCheck(x)
           \/ \E how \in {"create", "clone", "import"} : MakeCheck(x, how)
           \/ \E how \in {"delete", "delete_force"} : DeleteCheck(x, how)
    PROVE  KInv'
<1>0. TypeInv /\ TypeInv' /\ x \in Procs /\ OpAt(proc[x].pc, proc[x].op)
  BY CheckType, OpOf DEF KInv
<1>1. CASE ImportImageCheck(x)
  <2>1. \/ \E how \in {"not_found", "already_exists"} : Exit(x, how)
        \/ Goes(x, "convert_image") /\ files[Image] = NoFile
    BY <1>1 DEF ImportImageCheck, Refuse, Exists
  <2>2. /\ UNCHANGED <<files, content>>
        /\ proc[x].pc # "done" /\ proc[x].op = "import_image"
    BY <1>0, <1>1 DEF ImportImageCheck, Check, At, OpAt, OnDisk
  <2>3. "convert_image" \in Steps \ {"rebase"} /\ OpAt("convert_image", proc[x].op)
    BY <2>2 DEF Steps, OpAt, OnDisk, OnSnapshot
  <2>4. ASSUME files[Image] = NoFile, NEW q, q.pc = "convert_image"
        PROVE  StepFits(files, q, content)
    BY <2>4 DEF StepFits
  <2>5. CASE \E how \in {"not_found", "already_exists"} : Exit(x, how)
    BY <1>0, <2>2, <2>5, ExitsAre, QuietExitK
  <2>6. CASE Goes(x, "convert_image") /\ files[Image] = NoFile
    BY <1>0, <2>2, <2>3, <2>4, <2>6, QuietGoesK
  <2> QED BY <2>1, <2>5, <2>6
<1>2. ASSUME NEW how \in {"create", "clone", "import"}, MakeCheck(x, how) PROVE KInv'
  <2>1. \/ \E e \in {"not_found", "already_exists", "backend"} : Exit(x, e)
        \/ Goes(x, "make") /\ files[Active] = NoFile
    BY <1>2 DEF MakeCheck, Refuse, Exists
  <2>2. /\ UNCHANGED <<files, content>>
        /\ proc[x].pc # "done" /\ proc[x].op = how
    BY <1>0, <1>2 DEF MakeCheck, Check, At, OpAt, OnDisk
  <2>3. "make" \in Steps \ {"rebase"} /\ OpAt("make", proc[x].op)
    BY <2>2 DEF Steps, OpAt, OnDisk, OnSnapshot
  <2>4. ASSUME files[Active] = NoFile, NEW q, q.pc = "make"
        PROVE  StepFits(files, q, content)
    BY <2>4 DEF StepFits
  <2>5. CASE \E e \in {"not_found", "already_exists", "backend"} : Exit(x, e)
    BY <1>0, <2>2, <2>5, ExitsAre, QuietExitK
  <2>6. CASE Goes(x, "make") /\ files[Active] = NoFile
    BY <1>0, <2>2, <2>3, <2>4, <2>6, QuietGoesK
  <2> QED BY <2>1, <2>5, <2>6
<1>3. ASSUME NEW how \in {"delete", "delete_force"}, DeleteCheck(x, how) PROVE KInv'
  <2>1. \/ \E e \in {"not_found", "invalid_state"} : Exit(x, e)
        \/ Goes(x, "rm_active") /\ files[Active] # NoFile
    BY <1>3 DEF DeleteCheck, Refuse, Exists
  <2>2. /\ UNCHANGED <<files, content>>
        /\ proc[x].pc # "done" /\ proc[x].op = how
    BY <1>0, <1>3 DEF DeleteCheck, Check, At, OpAt, OnDisk
  <2>3. "rm_active" \in Steps \ {"rebase"} /\ OpAt("rm_active", proc[x].op)
    BY <2>2 DEF Steps, OpAt, OnDisk, OnSnapshot
  <2>4. ASSUME files[Active] # NoFile, NEW q, q.pc = "rm_active"
        PROVE  StepFits(files, q, content)
    BY <2>4 DEF StepFits
  <2>5. CASE \E e \in {"not_found", "invalid_state"} : Exit(x, e)
    BY <1>0, <2>2, <2>5, ExitsAre, QuietExitK
  <2>6. CASE Goes(x, "rm_active") /\ files[Active] # NoFile
    BY <1>0, <2>2, <2>3, <2>4, <2>6, QuietGoesK
  <2> QED BY <2>1, <2>5, <2>6
<1> QED BY <1>1, <1>2, <1>3

LEMMA SnapshotChecksK ==
    ASSUME KInv, NEW x, Procs = {x},
           SnapshotCheck(x) \/ RevertCheck(x) \/ DeleteSnapshotCheck(x)
    PROVE  KInv'
<1>0. TypeInv /\ TypeInv' /\ x \in Procs /\ OpAt(proc[x].pc, proc[x].op)
  BY CheckType, OpOf DEF KInv
<1>1. CASE SnapshotCheck(x)
  <2>1. \/ \E e \in {"not_found", "already_exists", "backend"} : Exit(x, e)
        \/ Goes(x, "freeze") /\ files[Active] # NoFile /\ files[proc[x].name] = NoFile
    BY <1>1 DEF SnapshotCheck, Refuse, Exists
  <2>2. /\ UNCHANGED <<files, content>>
        /\ proc[x].pc # "done" /\ proc[x].op = "snapshot"
    BY <1>0, <1>1 DEF SnapshotCheck, Check, At, OpAt, OnSnapshot
  <2>3. "freeze" \in Steps \ {"rebase"} /\ OpAt("freeze", proc[x].op)
    BY <2>2 DEF Steps, OpAt, OnDisk, OnSnapshot
  <2>4. ASSUME files[Active] # NoFile, files[proc[x].name] = NoFile,
               NEW q, q.pc = "freeze", q.name = proc[x].name
        PROVE  StepFits(files, q, content)
    BY <2>4 DEF StepFits
  <2>5. CASE \E e \in {"not_found", "already_exists", "backend"} : Exit(x, e)
    BY <1>0, <2>2, <2>5, ExitsAre, QuietExitK
  <2>6. CASE Goes(x, "freeze") /\ files[Active] # NoFile /\ files[proc[x].name] = NoFile
    BY <1>0, <2>2, <2>3, <2>4, <2>6, QuietGoesK
  <2> QED BY <2>1, <2>5, <2>6
<1>2. CASE RevertCheck(x)
  <2>1. \/ \E e \in {"not_found", "backend"} : Exit(x, e)
        \/ Goes(x, "branch") /\ files[Active] # NoFile /\ files[proc[x].name] # NoFile
    BY <1>2 DEF RevertCheck, Refuse, Exists
  <2>2. /\ UNCHANGED <<files, content>>
        /\ proc[x].pc # "done" /\ proc[x].op = "revert"
    BY <1>0, <1>2 DEF RevertCheck, Check, At, OpAt, OnSnapshot
  <2>3. "branch" \in Steps \ {"rebase"} /\ OpAt("branch", proc[x].op)
    BY <2>2 DEF Steps, OpAt, OnDisk, OnSnapshot
  <2>4. ASSUME files[Active] # NoFile, files[proc[x].name] # NoFile,
               NEW q, q.pc = "branch", q.name = proc[x].name
        PROVE  StepFits(files, q, content)
    BY <2>4 DEF StepFits
  <2>5. CASE \E e \in {"not_found", "backend"} : Exit(x, e)
    BY <1>0, <2>2, <2>5, ExitsAre, QuietExitK
  <2>6. CASE Goes(x, "branch") /\ files[Active] # NoFile /\ files[proc[x].name] # NoFile
    BY <1>0, <2>2, <2>3, <2>4, <2>6, QuietGoesK
  <2> QED BY <2>1, <2>5, <2>6
<1>3. CASE DeleteSnapshotCheck(x)
  <2>0. /\ UNCHANGED <<files, content>>
        /\ proc[x].pc # "done" /\ proc[x].op = "delete_snapshot"
    BY <1>0, <1>3 DEF DeleteSnapshotCheck, Check, At, OpAt, OnSnapshot
  <2>n. PICK n : n = proc[x].name OBVIOUS
  <2>m. n \in Names BY <1>0, <2>0, <2>n, NameOf DEF OnSnapshot
  <2> DEFINE Found == files[Active] # NoFile /\ files[n] # NoFile /\ files[Active].backing # n
             onto == IF files[n].backing \in Names THEN files[n].backing ELSE NoBacking
             Rebasing(c) == proc' = [proc EXCEPT ![x] =
                              [@ EXCEPT !.pc = "rebase", !.child = c, !.onto = onto]]
  <2>1. \/ \E e \in {"not_found", "invalid_state", "backend"} : Exit(x, e)
        \/ Goes(x, "unlink") /\ Found /\ Children(n) = {}
        \/ \E c \in Names : Found /\ Children(n) = {c} /\ Rebasing(c)
    BY <1>3, <2>n DEF DeleteSnapshotCheck, Refuse, Exists, Current
  <2>2. Children(n) = ChildrenIn(files, n) BY <2>m, ChildrenAre
  <2>3. "unlink" \in Steps \ {"rebase"} /\ OpAt("unlink", proc[x].op)
    BY <2>0 DEF Steps, OpAt, OnDisk, OnSnapshot
  <2>4. ASSUME Found, ChildrenIn(files, n) = {}, NEW q, q.pc = "unlink", q.name = n
        PROVE  StepFits(files, q, content)
    BY <2>4 DEF StepFits
  <2>5. CASE \E e \in {"not_found", "invalid_state", "backend"} : Exit(x, e)
    BY <1>0, <2>0, <2>5, ExitsAre, QuietExitK
  <2>6. CASE Goes(x, "unlink") /\ Found /\ Children(n) = {}
    <3> HIDE DEF Found
    <3> QED BY <1>0, <2>0, <2>n, <2>2, <2>3, <2>4, <2>6, QuietGoesK
  <2>7. ASSUME NEW c \in Names, Found, Children(n) = {c}, Rebasing(c)
        PROVE  KInv'
    <3>1. /\ proc'[x].pc = "rebase" /\ proc'[x].child = c /\ proc'[x].onto = onto
          /\ proc'[x].name = n
      <4> DEFINE q == [proc[x] EXCEPT !.pc = "rebase", !.child = c, !.onto = onto]
      <4>1. proc[x] \in Process BY <1>0 DEF TypeInv
      <4>2. q.pc = "rebase" /\ q.child = c /\ q.onto = onto /\ q.name = n
        <5> HIDE DEF onto
        <5> QED BY <2>n, <4>1 DEF Process
      <4>3. proc'[x] = q BY <1>0, <2>7 DEF TypeInv
      <4> HIDE DEF q
      <4> QED BY <4>2, <4>3
    <3>2. StepFits(files, proc'[x], content)
      BY <2>2, <2>7, <3>1 DEF StepFits
    <3> QED BY <1>0, <2>0, <3>2, QuietK
  <2> QED BY <2>1, <2>5, <2>6, <2>7
<1> QED BY <1>1, <1>2, <1>3

LEMMA DiskFitsKept ==
    ASSUME NEW fs, NEW gs, NEW c, DiskFits(fs, c), gs[Active] = fs[Active],
           \A q \in Names \cup {Active} : q \in OpenableIn(fs) =>
             q \in OpenableIn(gs) /\ ReadIn(gs, q) = ReadIn(fs, q)
    PROVE  DiskFits(gs, c)
  BY DEF DiskFits

LEMMA DiskFitsNew ==
    ASSUME NEW gs, NEW c, Active \in OpenableIn(gs), ReadIn(gs, Active) = c
    PROVE  DiskFits(gs, c) /\ gs[Active] # NoFile
<1>1. gs[Active] # NoFile BY OpenableIff, PathsAre
<1> QED BY <1>1 DEF DiskFits

(* What a step of the process knows of the files. *)
LEMMA ConvertedImage ==
    ASSUME NEW fs, fs[Image] = NoFile, NEW gs, \A q \in Paths \ {Image} : gs[q] = fs[q]
    PROVE  \A q \in OpenableIn(fs) :
             q # Image /\ q \in OpenableIn(gs) /\ ReadIn(gs, q) = ReadIn(fs, q)
<1>1. Image \notin OpenableIn(fs) BY OpenableIff, PathsAre
<1>2. \A q \in OpenableIn(fs) \ {Image} : fs[q].backing \notin {Image}
  BY <1>1, OpenableIff, OpenablePaths, PathsAre
<1>3. \A q \in OpenableIn(fs) \ {Image} :
        q \in OpenableIn(gs) /\ ReadIn(gs, q) = ReadIn(fs, q)
  BY <1>2, Apart
<1> QED BY <1>1, <1>3

LEMMA ConvertImageK ==
    ASSUME KInv, NEW x, Procs = {x}, ConvertImage(x)
    PROVE  KInv'
<1>0. TypeInv /\ TypeInv' /\ x \in Procs BY StoreType DEF KInv
<1>1. /\ Linked(files) /\ DiskFits(files, content) /\ StepFits(files, proc[x], content)
      /\ files[Image] = NoFile
  BY <1>0, KInvAt DEF ConvertImage, At, StepFits
<1>2. content' = content BY <1>0, ConvertImageIs
<1>3. CASE files' = files /\ Exit(x, "backend")
  BY <1>0, <1>2, <1>3, QuietExitK, ExitsAre
<1>4. ASSUME NEW c \in {Blank, BaseData}, files'[Image] = Full(c),
             \A q \in Paths \ {Image} : files'[q] = files[q],
             NEW how \in {"ok", "backend"}, Exit(x, how)
      PROVE  KInv'
  <2>1. \A q \in OpenableIn(files) :
          q # Image /\ q \in OpenableIn(files') /\ ReadIn(files', q) = ReadIn(files, q)
    BY <1>1, <1>4, ConvertedImage
  <2>2. files'[Active] = files[Active] BY <1>4, PathsAre
  <2>3. DiskFits(files', content') BY <1>1, <1>2, <2>1, <2>2, DiskFitsKept
  <2>4. files'[Image].backing = NoBacking BY <1>4 DEF Full
  <2>5. Linked(files') BY <1>1, <1>4, <2>4 DEF Linked
  <2>6. proc'[x].pc = "done" BY <1>0, <1>4, ExitFits, ExitsAre
  <2>7. StepFits(files', proc'[x], content') BY <2>6, EndFits
  <2> QED BY <1>0, <2>3, <2>5, <2>7, KInvPrime
<1> QED BY <1>0, <1>3, <1>4, ConvertImageIs

LEMMA MakeFileK ==
    ASSUME KInv, NEW x, Procs = {x}, MakeFile(x)
    PROVE  KInv'
<1>0. TypeInv /\ TypeInv' /\ x \in Procs BY StoreType DEF KInv
<1>1. files \in Stores /\ Linked(files) /\ DiskFits(files, content) BY <1>0, KInvAt
<1>2. CASE UNCHANGED <<files, content>> /\ Exit(x, "backend")
  BY <1>0, <1>2, QuietExitK, ExitsAre
<1>3. ASSUME files' \in Stores, \A q \in Paths \ {Active} : files'[q] = files[q],
             files'[Active].backing \in {Image, NoBacking},
             Active \in OpenableIn(files'), ReadIn(files', Active) = content',
             NEW how \in {"ok", "backend"}, Exit(x, how)
      PROVE  KInv'
  <2>1. DiskFits(files', content') BY <1>3, DiskFitsNew
  <2>2. Linked(files') BY <1>1, <1>3, LinkedChange, PathsAre
  <2>3. proc'[x].pc = "done" BY <1>0, <1>3, ExitFits, ExitsAre
  <2>4. StepFits(files', proc'[x], content') BY <2>3, EndFits
  <2> QED BY <1>0, <2>1, <2>2, <2>4, KInvPrime
<1>4. CASE /\ proc[x].op = "clone" => Image \in Openable
           /\ files' \in Stores /\ files'[Active] = Made(proc[x].op)
           /\ content' = MadeReads(proc[x].op)
           /\ \A q \in Paths \ {Active} : files'[q] = files[q]
           /\ Exit(x, "ok")
  <2>1. CASE proc[x].op = "clone"
    <3>1. files'[Active] = Overlay(Image) /\ content' = ReadIn(files, Image)
      BY <1>4, <2>1 DEF Made, MadeReads, Read
    <3>2. Image \in OpenableIn(files) BY <1>4, <2>1 DEF Openable
    <3>3. Image \in OpenableIn(files') /\ ReadIn(files', Image) = ReadIn(files, Image)
      <4>1. \A q \in Paths \ {Active} : files'[q] = files[q] BY <1>4
      <4>2. {Active} \subseteq {Active, Reverting} OBVIOUS
      <4>3. \A q \in OpenableIn(files) \ {Active} :
              q \in OpenableIn(files') /\ ReadIn(files', q) = ReadIn(files, q)
        BY <1>1, <4>1, <4>2, ChangeAside
      <4> QED BY <3>2, <4>3, PathsAre
    <3>4. Active \in OpenableIn(files') /\ ReadIn(files', Active) = content'
      BY <1>4, <3>1, <3>3, OverlayReads, PathsAre
    <3>5. files'[Active].backing = Image BY <3>1 DEF Overlay
    <3> QED BY <1>3, <1>4, <3>4, <3>5
  <2>2. CASE proc[x].op # "clone"
    <3>1. PICK c \in {Blank, BaseData} : files'[Active] = Full(c) /\ content' = c
      BY <1>4, <2>2 DEF Made, MadeReads
    <3>2. c \in Contents BY DataNumbers
    <3>3. Active \in OpenableIn(files') /\ ReadIn(files', Active) = content'
      BY <3>1, <3>2, FullReads, PathsAre
    <3>4. files'[Active].backing = NoBacking BY <3>1 DEF Full
    <3> QED BY <1>3, <1>4, <3>3, <3>4
  <2> QED BY <2>1, <2>2
<1>5. CASE /\ files' \in Stores /\ files'[Active] = Full(Blank)
           /\ content' = Blank
           /\ \A q \in Paths \ {Active} : files'[q] = files[q]
           /\ Exit(x, "backend")
  <2>1. Active \in OpenableIn(files') /\ ReadIn(files', Active) = content'
    BY <1>5, FullReads, PathsAre, DataNumbers
  <2>2. files'[Active].backing = NoBacking BY <1>5 DEF Full
  <2> QED BY <1>3, <1>5, <2>1, <2>2
<1> QED BY <1>0, <1>2, <1>4, <1>5, MakeFileIs

LEMMA DeleteActiveK ==
    ASSUME KInv, NEW x, Procs = {x}, DeleteActive(x)
    PROVE  KInv'
<1>0. TypeInv /\ TypeInv' /\ x \in Procs BY StoreType DEF KInv
<1>1. files \in Stores /\ Linked(files) BY <1>0, KInvAt
<1>2. CASE UNCHANGED <<files, content>> /\ Exit(x, "traceback")
  BY <1>0, <1>2, QuietExitK, ExitsAre
<1>3. CASE /\ files' \in Stores /\ files'[Active] = NoFile
           /\ content' = Nothing
           /\ \A q \in Paths \ {Active} : files'[q] = files[q]
           /\ Goes(x, "rm_tree")
  <2>1. DiskFits(files', content') BY <1>3 DEF DiskFits
  <2>2. files'[Active].backing = NoBacking BY <1>3 DEF NoFile
  <2>3. Linked(files') BY <1>1, <1>3, <2>2, LinkedChange, PathsAre
  <2>4. proc[x].pc # "done" /\ proc[x].op \in {"delete", "delete_force"}
    BY <1>0, DeleteActiveIs DEF DeleteActive, At
  <2>5. "rm_tree" \in Steps \ {"rebase"} /\ OpAt("rm_tree", proc[x].op)
    BY <2>4 DEF Steps, OpAt, OnDisk, OnSnapshot
  <2>6. proc'[x].pc = "rm_tree" BY <1>0, <1>3, <2>4, <2>5, GoesFits
  <2>7. StepFits(files', proc'[x], content') BY <1>3, <2>6 DEF StepFits
  <2> QED BY <1>0, <2>1, <2>3, <2>7, KInvPrime
<1> QED BY <1>0, <1>2, <1>3, DeleteActiveIs

LEMMA DeleteTreeK ==
    ASSUME KInv, NEW x, Procs = {x}, DeleteTree(x)
    PROVE  KInv'
<1>0. TypeInv /\ TypeInv' /\ x \in Procs BY StoreType DEF KInv
<1>1. /\ Linked(files) /\ StepFits(files, proc[x], content) /\ proc[x].pc = "rm_tree"
      /\ files[Active] = NoFile /\ content = Nothing
  BY <1>0, KInvAt DEF DeleteTree, At, StepFits
<1>2. content' = content BY <1>0, DeleteTreeIs
<1>3. CASE files' = files /\ \E how \in {"ok", "traceback"} : Exit(x, how)
  BY <1>0, <1>2, <1>3, QuietExitK, ExitsAre
<1>4. ASSUME NEW n \in Snapshots, files'[n] = NoFile,
             \A q \in Paths \ {n} : files'[q] = files[q], UNCHANGED proc
      PROVE  KInv'
  <2>1. n \in Names BY DEF Snapshots
  <2>2. files'[Active] = NoFile BY <1>1, <1>4, <2>1, PathsAre
  <2>3. DiskFits(files', content') BY <1>1, <1>2, <2>2 DEF DiskFits
  <2>4. files'[n].backing = NoBacking BY <1>4 DEF NoFile
  <2>5. Linked(files') BY <1>1, <1>4, <2>1, <2>4, LinkedChange, PathsAre
  <2>6. StepFits(files', proc'[x], content') BY <1>1, <1>2, <1>4, <2>2 DEF StepFits
  <2> QED BY <1>0, <2>3, <2>5, <2>6, KInvPrime
<1> QED BY <1>0, <1>3, <1>4, DeleteTreeIs

LEMMA GuestWriteReads ==
    ASSUME NEW fs, Linked(fs), NEW gs, NEW c \in Contents, Active \in OpenableIn(fs),
           gs[Active].backing = fs[Active].backing, gs[Active].own = c, gs[Active] # NoFile,
           \A q \in Paths \ {Active} : gs[q] = fs[q]
    PROVE  /\ Active \in OpenableIn(gs) /\ ReadIn(gs, Active) = c
           /\ \A q \in OpenableIn(fs) \ {Active} :
                q \in OpenableIn(gs) /\ ReadIn(gs, q) = ReadIn(fs, q)
<1>1. \A q \in OpenableIn(fs) \ {Active} :
        q \in OpenableIn(gs) /\ ReadIn(gs, q) = ReadIn(fs, q)
  BY ChangeAside
<1>2. fs[Active].backing \in OpenableIn(fs) \cup {NoBacking} /\ fs[Active].backing # Active
  BY OpenableIff, NotBacking, PathsAre
<1>3. Active \in OpenableIn(gs) BY <1>1, <1>2, OpenableIff, PathsAre
<1>4. ReadIn(gs, Active) = c BY <1>3, ReadUnfold, DataNumbers
<1> QED BY <1>1, <1>3, <1>4

LEMMA GuestWriteK ==
    ASSUME KInv, NEW x, Procs = {x}, GuestWrite
    PROVE  KInv'
<1>0. TypeInv /\ x \in Procs BY DEF KInv
<1>1. TypeInv' BY <1>0, NextType DEF Next
<1>2. Linked(files) BY <1>0, KInvAt
<1>3. /\ content' \in Contents /\ Active \in OpenableIn(files)
      /\ files'[Active].backing = files[Active].backing
      /\ files'[Active].own = content' /\ files'[Active] # NoFile
      /\ \A q \in Paths \ {Active} : files'[q] = files[q]
      /\ proc' = proc /\ proc[x] \in {Idle, Closed}
  BY <1>0, GuestWriteIs DEF Openable
<1>4. Active \in OpenableIn(files') /\ ReadIn(files', Active) = content'
  BY <1>2, <1>3, GuestWriteReads
<1>5. DiskFits(files', content') BY <1>4, DiskFitsNew
<1>6. Linked(files')
  <2>1. files'[Active].backing \in Names \cup {Image, NoBacking}
    BY <1>2, <1>3, PathsAre DEF Linked
  <2> QED BY <1>2, <1>3, <2>1, LinkedChange, PathsAre
<1>7. StepFits(files', proc'[x], content') BY <1>3, IdleFits, EndFits
<1> QED BY <1>1, <1>5, <1>6, <1>7, KInvPrime

(* Three ways of a change beside the chains. *)
LEMMA ActiveAside ==
    ASSUME NEW fs, Linked(fs), NEW gs, \A q \in Paths \ {Active} : gs[q] = fs[q]
    PROVE  \A q \in OpenableIn(fs) \ {Active} :
             q \in OpenableIn(gs) /\ ReadIn(gs, q) = ReadIn(fs, q)
<1>1. {Active} \subseteq {Active, Reverting} OBVIOUS
<1> QED BY <1>1, ChangeAside

LEMMA RevertingAside ==
    ASSUME NEW fs, Linked(fs), NEW gs, \A q \in Paths \ {Reverting} : gs[q] = fs[q]
    PROVE  \A q \in OpenableIn(fs) \ {Reverting} :
             q \in OpenableIn(gs) /\ ReadIn(gs, q) = ReadIn(fs, q)
<1>1. {Reverting} \subseteq {Active, Reverting} OBVIOUS
<1> QED BY <1>1, ChangeAside

LEMMA BothAside ==
    ASSUME NEW fs, Linked(fs), NEW gs, \A q \in Paths \ {Reverting, Active} : gs[q] = fs[q]
    PROVE  \A q \in OpenableIn(fs) \ {Reverting, Active} :
             q \in OpenableIn(gs) /\ ReadIn(gs, q) = ReadIn(fs, q)
<1>1. {Reverting, Active} \subseteq {Active, Reverting} OBVIOUS
<1> QED BY <1>1, ChangeAside

LEMMA SnapshotFreezeK ==
    ASSUME KInv, NEW x, Procs = {x}, SnapshotFreeze(x)
    PROVE  KInv'
<1>0. TypeInv /\ TypeInv' /\ x \in Procs BY StoreType DEF KInv
<1>1. /\ Linked(files) /\ DiskFits(files, content)
      /\ files[Active] # NoFile /\ files[proc[x].name] = NoFile
  BY <1>0, KInvAt DEF SnapshotFreeze, At, StepFits
<1>2. content' = content /\ proc[x].op = "snapshot" BY <1>0, SnapshotFreezeIs
<1>3. CASE UNCHANGED files /\ Exit(x, "traceback")
  BY <1>0, <1>2, <1>3, QuietExitK, ExitsAre
<1>4. PICK n : n = proc[x].name OBVIOUS
<1>5. CASE /\ files'[n] = files[Active] /\ files'[Active] = NoFile
           /\ \A q \in Paths \ {Active, n} : files'[q] = files[q]
           /\ Goes(x, "overlay") \/ Exit(x, "traceback")
  <2>1. n \in Names /\ n \in Paths /\ n # Active /\ n # Image
    BY <1>0, <1>2, <1>4, NameOf DEF OnSnapshot
  <2>2. Active \in OpenableIn(files) /\ ReadIn(files, Active) = content
    BY <1>1 DEF DiskFits
  <2>3. n \in OpenableIn(files') /\ ReadIn(files', n) = content
    BY <1>1, <1>4, <1>5, <2>1, <2>2, RenameKeeps
  <2>4. DiskFits(files', content') BY <1>2, <1>5, <2>1, <2>3 DEF DiskFits
  <2>5. Linked(files') BY <1>1, <1>5, <2>1, LinkedMove, PathsAre
  <2>6. proc[x].pc # "done" /\ OpAt("overlay", proc[x].op) /\ "overlay" \in Steps \ {"rebase"}
    BY <1>2 DEF SnapshotFreeze, At, OpAt, OnDisk, OnSnapshot, Steps
  <2>7. \/ proc'[x].pc = "overlay" /\ proc'[x].name = n
        \/ proc'[x].pc = "done"
    BY <1>0, <1>4, <1>5, <2>6, GoesFits, ExitFits, ExitsAre
  <2>8. StepFits(files', proc'[x], content')
    BY <1>2, <1>5, <2>3, <2>7 DEF StepFits
  <2> QED BY <1>0, <2>4, <2>5, <2>8, KInvPrime
<1> QED BY <1>0, <1>3, <1>4, <1>5, SnapshotFreezeIs

LEMMA SnapshotOverlayK ==
    ASSUME KInv, NEW x, Procs = {x}, SnapshotOverlay(x)
    PROVE  KInv'
<1>0. TypeInv /\ TypeInv' /\ x \in Procs BY StoreType DEF KInv
<1>1. /\ Linked(files) /\ DiskFits(files, content)
      /\ files[Active] = NoFile /\ proc[x].name \in OpenableIn(files)
      /\ ReadIn(files, proc[x].name) = content
  BY <1>0, KInvAt DEF SnapshotOverlay, At, StepFits
<1>2. content' = content /\ proc[x].op = "snapshot" BY <1>0, SnapshotOverlayIs
<1>4. PICK n : n = proc[x].name OBVIOUS
<1>5. n \in Names /\ n \in Paths /\ n # Active /\ n # Image
  BY <1>0, <1>2, <1>4, NameOf DEF OnSnapshot
<1>6. CASE UNCHANGED files /\ Goes(x, "undo")
  <2>1. proc[x].pc # "done" /\ OpAt("undo", proc[x].op) /\ "undo" \in Steps \ {"rebase"}
    BY <1>2 DEF SnapshotOverlay, At, OpAt, OnDisk, OnSnapshot, Steps
  <2>2. proc'[x].pc = "undo" /\ proc'[x].name = n BY <1>0, <1>4, <1>6, <2>1, GoesFits
  <2>3. StepFits(files, proc'[x], content) BY <1>1, <1>4, <2>2 DEF StepFits
  <2> QED BY <1>0, <1>2, <1>6, <2>3, QuietK
<1>7. CASE /\ files' \in Stores /\ files'[Active] = Overlay(n)
           /\ \A q \in Paths \ {Active} : files'[q] = files[q]
           /\ Exit(x, "ok")
  <2>1. n \in OpenableIn(files') /\ ReadIn(files', n) = content
    BY <1>1, <1>4, <1>5, <1>7, ActiveAside
  <2>2. Active \in OpenableIn(files') /\ ReadIn(files', Active) = content
    BY <1>7, <2>1, OverlayReads, PathsAre
  <2>3. DiskFits(files', content') BY <1>2, <2>2, DiskFitsNew
  <2>4. files'[Active].backing = n BY <1>7 DEF Overlay
  <2>5. Linked(files') BY <1>1, <1>5, <1>7, <2>4, LinkedChange, PathsAre
  <2>6. proc'[x].pc = "done" BY <1>0, <1>7, ExitFits, ExitsAre
  <2>7. StepFits(files', proc'[x], content') BY <2>6, EndFits
  <2> QED BY <1>0, <2>3, <2>5, <2>7, KInvPrime
<1> QED BY <1>0, <1>4, <1>6, <1>7, SnapshotOverlayIs

LEMMA SnapshotUndoK ==
    ASSUME KInv, NEW x, Procs = {x}, SnapshotUndo(x)
    PROVE  KInv'
<1>0. TypeInv /\ TypeInv' /\ x \in Procs BY StoreType DEF KInv
<1>1. /\ Linked(files) /\ DiskFits(files, content)
      /\ files[Active] = NoFile /\ proc[x].name \in OpenableIn(files)
      /\ ReadIn(files, proc[x].name) = content
  BY <1>0, KInvAt DEF SnapshotUndo, At, StepFits
<1>2. content' = content /\ proc[x].op = "snapshot" BY <1>0, SnapshotUndoIs
<1>3. CASE UNCHANGED files /\ Exit(x, "traceback")
  BY <1>0, <1>2, <1>3, QuietExitK, ExitsAre
<1>4. PICK n : n = proc[x].name OBVIOUS
<1>5. n \in Names /\ n \in Paths /\ n # Active /\ n # Image
  BY <1>0, <1>2, <1>4, NameOf DEF OnSnapshot
<1>6. CASE /\ files'[Active] = files[n] /\ files'[n] = NoFile
           /\ \A q \in Paths \ {n, Active} : files'[q] = files[q]
           /\ Exit(x, "backend")
  <2>1. Active \in OpenableIn(files') /\ ReadIn(files', Active) = content
    <3>1. n \in OpenableIn(files) /\ ReadIn(files, n) = content BY <1>1, <1>4
    <3>2. Active \in Paths /\ files[Active] = NoFile BY <1>1, PathsAre
    <3>3. PICK gs : gs = files' OBVIOUS
    <3>4. gs[Active] = files[n] /\ \A q \in Paths \ {n, Active} : gs[q] = files[q]
      BY <1>6, <3>3
    <3>5. Active \in OpenableIn(gs) /\ ReadIn(gs, Active) = ReadIn(files, n)
      BY <3>1, <3>2, <3>4, RenameKeeps
    <3> QED BY <3>1, <3>3, <3>5
  <2>2. DiskFits(files', content') BY <1>2, <2>1, DiskFitsNew
  <2>3. Linked(files') BY <1>1, <1>5, <1>6, LinkedMove, PathsAre
  <2>4. proc'[x].pc = "done" BY <1>0, <1>6, ExitFits, ExitsAre
  <2>5. StepFits(files', proc'[x], content') BY <2>4, EndFits
  <2> QED BY <1>0, <2>2, <2>3, <2>5, KInvPrime
<1> QED BY <1>0, <1>3, <1>4, <1>6, SnapshotUndoIs

LEMMA RevertBranchK ==
    ASSUME KInv, NEW x, Procs = {x}, RevertBranch(x)
    PROVE  KInv'
<1>0. TypeInv /\ TypeInv' /\ x \in Procs BY StoreType DEF KInv
<1>1. Linked(files) /\ DiskFits(files, content) /\ files[Active] # NoFile
  BY <1>0, KInvAt DEF RevertBranch, At, StepFits
<1>2. content' = content /\ proc[x].op = "revert" BY <1>0, RevertBranchIs
<1>3. CASE UNCHANGED files /\ Exit(x, "backend")
  BY <1>0, <1>2, <1>3, QuietExitK, ExitsAre
<1>4. PICK n : n = proc[x].name OBVIOUS
<1>5. n \in Names /\ n \in Paths /\ n # Active /\ n # Image /\ n # Reverting
  BY <1>0, <1>2, <1>4, NameOf DEF OnSnapshot
<1>6. CASE /\ n \in Openable
           /\ files'[Reverting] = Overlay(n)
           /\ \A q \in Paths \ {Reverting} : files'[q] = files[q]
           /\ Goes(x, "replace")
  <2>1. \A q \in OpenableIn(files) \ {Reverting} :
          q \in OpenableIn(files') /\ ReadIn(files', q) = ReadIn(files, q)
    BY <1>1, <1>6, RevertingAside
  <2>2. files'[Active] = files[Active] BY <1>6, PathsAre
  <2>3. DiskFits(files', content') BY <1>1, <1>2, <2>1, <2>2, DiskFitsKept, PathsAre
  <2>4. files'[Reverting].backing = n BY <1>6 DEF Overlay
  <2>5. Linked(files') BY <1>1, <1>5, <1>6, <2>4, LinkedChange, PathsAre
  <2>6. proc[x].pc # "done" /\ OpAt("replace", proc[x].op) /\ "replace" \in Steps \ {"rebase"}
    BY <1>2 DEF RevertBranch, At, OpAt, OnDisk, OnSnapshot, Steps
  <2>7. proc'[x].pc = "replace" /\ proc'[x].name = n BY <1>0, <1>4, <1>6, <2>6, GoesFits
  <2>8. n \in OpenableIn(files') BY <1>5, <1>6, <2>1 DEF Openable
  <2>9. StepFits(files', proc'[x], content')
    BY <1>1, <1>6, <2>2, <2>7, <2>8 DEF StepFits
  <2> QED BY <1>0, <2>3, <2>5, <2>9, KInvPrime
<1> QED BY <1>0, <1>3, <1>4, <1>6, RevertBranchIs

LEMMA RevertReplaceK ==
    ASSUME KInv, NEW x, Procs = {x}, RevertReplace(x)
    PROVE  KInv'
<1>0. TypeInv /\ TypeInv' /\ x \in Procs BY StoreType DEF KInv
<1>1. /\ Linked(files) /\ DiskFits(files, content)
      /\ proc[x].name \in OpenableIn(files) /\ files[Reverting] = Overlay(proc[x].name)
  BY <1>0, KInvAt DEF RevertReplace, At, StepFits
<1>2. proc[x].op = "revert" BY <1>0, RevertReplaceIs
<1>3. CASE UNCHANGED <<files, content>> /\ Exit(x, "traceback")
  BY <1>0, <1>3, QuietExitK, ExitsAre
<1>4. PICK n : n = proc[x].name OBVIOUS
<1>5. n \in Names /\ n \in Paths /\ n # Active /\ n # Image /\ n # Reverting
  BY <1>0, <1>2, <1>4, NameOf DEF OnSnapshot
<1>6. CASE /\ files' \in Stores
           /\ files'[Active] = files[Reverting] /\ files'[Reverting] = NoFile
           /\ \A q \in Paths \ {Reverting, Active} : files'[q] = files[q]
           /\ content' = Read(n)
           /\ Exit(x, "ok")
  <2>1. n \in OpenableIn(files') /\ ReadIn(files', n) = content'
    BY <1>1, <1>4, <1>5, <1>6, BothAside DEF Read
  <2>2. Active \in OpenableIn(files') /\ ReadIn(files', Active) = content'
    BY <1>1, <1>4, <1>6, <2>1, OverlayReads, PathsAre
  <2>3. DiskFits(files', content') BY <2>2, DiskFitsNew
  <2>4. Linked(files') BY <1>1, <1>6, LinkedMove, PathsAre
  <2>5. proc'[x].pc = "done" BY <1>0, <1>6, ExitFits, ExitsAre
  <2>6. StepFits(files', proc'[x], content') BY <2>5, EndFits
  <2> QED BY <1>0, <2>3, <2>4, <2>6, KInvPrime
<1> QED BY <1>0, <1>3, <1>4, <1>6, RevertReplaceIs

LEMMA NoSelfBacking ==
    ASSUME NEW fs, NEW p \in OpenableIn(fs)
    PROVE  fs[p].backing # p
<1>1. p \in Paths BY OpenablePaths
<1> QED BY <1>1, ChainBelow, PathsFinite

(* The rebase of the only child: everything reads as before, and the
   snapshot to be deleted is left without children. *)
LEMMA RebasedChild ==
    ASSUME NEW fs \in Stores, NEW n \in Names, NEW c \in Names, ChildrenIn(fs, n) = {c},
           c \in OpenableIn(fs), NEW gs,
           NEW b, b = IF fs[n].backing \in Names THEN fs[n].backing ELSE NoBacking,
           gs[c] = [backing |-> b, own |-> ReadIn(fs, c)],
           \A q \in Paths \ {c} : gs[q] = fs[q]
    PROVE  /\ \A q \in OpenableIn(fs) : q \in OpenableIn(gs) /\ ReadIn(gs, q) = ReadIn(fs, q)
           /\ gs[n] = fs[n] /\ gs[Active] = fs[Active] /\ ChildrenIn(gs, n) = {}
<1>1. fs[c].backing = n /\ n # NoBacking BY PathsAre DEF ChildrenIn
<1>2. n \in OpenableIn(fs) BY <1>1, OpenableIff, PathsAre
<1>3. n # c BY <1>1, NoSelfBacking
<1>4. \A q \in OpenableIn(fs) : q \in OpenableIn(gs) /\ ReadIn(gs, q) = ReadIn(fs, q)
  BY <1>1, <1>2, RebaseKeeps
<1>5. gs[n] = fs[n] /\ gs[Active] = fs[Active] BY <1>3, PathsAre
<1>6. gs[c].backing # n BY <1>1, <1>2, NoSelfBacking
<1>7. ChildrenIn(gs, n) = {} BY <1>6, PathsAre DEF ChildrenIn
<1> QED BY <1>4, <1>5, <1>7

LEMMA DeleteSnapshotRebaseK ==
    ASSUME KInv, NEW x, Procs = {x}, DeleteSnapshotRebase(x)
    PROVE  KInv'
<1>0. TypeInv /\ TypeInv' /\ x \in Procs BY StoreType DEF KInv
<1>2. /\ content' = content /\ proc[x].op = "delete_snapshot"
      /\ proc[x].child \in Names
  BY <1>0, DeleteSnapshotRebaseIs
<1>4. PICK n, c, b : n = proc[x].name /\ c = proc[x].child /\ b = proc[x].onto OBVIOUS
<1>1. /\ files \in Stores /\ Linked(files) /\ DiskFits(files, content)
      /\ files[Active] # NoFile /\ files[n] # NoFile /\ files[Active].backing # n
      /\ ChildrenIn(files, n) = {c}
      /\ b = IF files[n].backing \in Names THEN files[n].backing ELSE NoBacking
  BY <1>0, <1>4, KInvAt DEF DeleteSnapshotRebase, At, StepFits
<1>3. CASE UNCHANGED files /\ \E how \in {"backend", "traceback"} : Exit(x, how)
  BY <1>0, <1>2, <1>3, QuietExitK, ExitsAre
<1>5. n \in Names /\ c \in Names /\ c \in Paths /\ c # Active /\ c # Image
  BY <1>0, <1>2, <1>4, NameOf, PathsAre DEF OnSnapshot
<1>6. CASE /\ c \in Openable
           /\ files'[c] = [backing |-> b, own |-> Read(c)]
           /\ \A q \in Paths \ {c} : files'[q] = files[q]
           /\ Goes(x, "unlink") \/ Exit(x, "traceback")
  <2>1. c \in OpenableIn(files) /\ files'[c] = [backing |-> b, own |-> ReadIn(files, c)]
    BY <1>6 DEF Openable, Read
  <2>2. /\ \A q \in OpenableIn(files) :
             q \in OpenableIn(files') /\ ReadIn(files', q) = ReadIn(files, q)
        /\ files'[n] = files[n] /\ files'[Active] = files[Active]
        /\ ChildrenIn(files', n) = {}
    BY <1>1, <1>5, <1>6, <2>1, RebasedChild
  <2>3. DiskFits(files', content') BY <1>1, <1>2, <2>2, DiskFitsKept
  <2>4. files'[c].backing \in Names \cup {NoBacking} BY <1>1, <2>1
  <2>5. Linked(files') BY <1>1, <1>5, <1>6, <2>4, LinkedChange
  <2>6. proc[x].pc # "done" /\ OpAt("unlink", proc[x].op) /\ "unlink" \in Steps \ {"rebase"}
    BY <1>2 DEF DeleteSnapshotRebase, At, OpAt, OnDisk, OnSnapshot, Steps
  <2>7. \/ proc'[x].pc = "unlink" /\ proc'[x].name = n
        \/ proc'[x].pc = "done"
    BY <1>0, <1>4, <1>6, <2>6, GoesFits, ExitFits, ExitsAre
  <2>8. StepFits(files', proc'[x], content')
    BY <1>1, <2>2, <2>7 DEF StepFits
  <2> QED BY <1>0, <2>3, <2>5, <2>8, KInvPrime
<1> QED BY <1>0, <1>3, <1>4, <1>6, DeleteSnapshotRebaseIs

(* A snapshot that nothing stands on goes. *)
LEMMA UnlinkedSnapshot ==
    ASSUME NEW fs, Linked(fs), NEW n \in Names, fs[Active].backing # n,
           ChildrenIn(fs, n) = {}, NEW gs, \A q \in Paths \ {n} : gs[q] = fs[q]
    PROVE  \A q \in OpenableIn(fs) \ {n, Reverting} :
             q \in OpenableIn(gs) /\ ReadIn(gs, q) = ReadIn(fs, q)
<1>1. ASSUME NEW q \in OpenableIn(fs) \ {n, Reverting}
      PROVE  fs[q].backing \notin {n, Reverting}
  <2>1. q \in Names \cup {Active, Image} BY OpenablePaths DEF Paths
  <2>2. fs[q].backing # Reverting BY <2>1, NotBacking, PathsAre
  <2>3. fs[q].backing # n BY <2>1, PathsAre DEF Linked, ChildrenIn
  <2> QED BY <2>2, <2>3
<1>2. \A q \in Paths \ {n, Reverting} : gs[q] = fs[q] OBVIOUS
<1> QED BY <1>1, <1>2, Apart

LEMMA DeleteSnapshotUnlinkK ==
    ASSUME KInv, NEW x, Procs = {x}, DeleteSnapshotUnlink(x)
    PROVE  KInv'
<1>0. TypeInv /\ TypeInv' /\ x \in Procs BY StoreType DEF KInv
<1>2. content' = content /\ proc[x].op = "delete_snapshot"
  BY <1>0, DeleteSnapshotUnlinkIs
<1>4. PICK n : n = proc[x].name OBVIOUS
<1>1. /\ Linked(files) /\ DiskFits(files, content)
      /\ files[Active] # NoFile /\ files[Active].backing # n
      /\ ChildrenIn(files, n) = {}
  BY <1>0, <1>4, KInvAt DEF DeleteSnapshotUnlink, At, StepFits
<1>3. CASE UNCHANGED files /\ Exit(x, "traceback")
  BY <1>0, <1>2, <1>3, QuietExitK, ExitsAre
<1>5. n \in Names /\ n \in Paths /\ n # Active /\ n # Image
  BY <1>0, <1>2, <1>4, NameOf DEF OnSnapshot
<1>6. CASE /\ files'[n] = NoFile
           /\ \A q \in Paths \ {n} : files'[q] = files[q]
           /\ Exit(x, "ok")
  <2>1. \A q \in OpenableIn(files) \ {n, Reverting} :
          q \in OpenableIn(files') /\ ReadIn(files', q) = ReadIn(files, q)
    BY <1>1, <1>5, <1>6, UnlinkedSnapshot
  <2>2. files'[Active] = files[Active] BY <1>5, <1>6, PathsAre
  <2>3. Active \in OpenableIn(files') /\ ReadIn(files', Active) = content
    BY <1>1, <1>5, <2>1, PathsAre DEF DiskFits
  <2>4. DiskFits(files', content') BY <1>2, <2>3, DiskFitsNew
  <2>5. files'[n].backing = NoBacking BY <1>6 DEF NoFile
  <2>6. Linked(files') BY <1>1, <1>5, <1>6, <2>5, LinkedChange
  <2>7. proc'[x].pc = "done" BY <1>0, <1>6, ExitFits, ExitsAre
  <2>8. StepFits(files', proc'[x], content') BY <2>7, EndFits
  <2> QED BY <1>0, <2>4, <2>6, <2>8, KInvPrime
<1> QED BY <1>0, <1>3, <1>4, <1>6, DeleteSnapshotUnlinkIs

LEMMA InitK == Init => KInv
<1> SUFFICES ASSUME Init PROVE KInv OBVIOUS
<1>1. TypeInv BY InitType
<1>2. Linked(files) BY PathsAre DEF Init, Linked, NoFile
<1>3. DiskFits(files, content) BY PathsAre DEF Init, DiskFits
<1>4. \A x \in Procs : StepFits(files, proc[x], content)
  BY IdleFits, EndFits DEF Init
<1> QED BY <1>1, <1>2, <1>3, <1>4 DEF KInv

(* With one process, every step is the guest's or that process's. *)
LEMMA NextCases ==
    ASSUME NEW x, Procs = {x}, Next
    PROVE  \/ GuestWrite
           \/ \E version \in {"1", "2", "none"} : New(x, version)
           \/ \E c \in Commands : Call(x, c[1], c[2])
           \/ Return(x) \/ Query(x) \/ Kill(x)
           \/ ImportImageCheck(x)
           \/ \E how \in {"create", "clone", "import"} : MakeCheck(x, how)
           \/ \E how \in {"delete", "delete_force"} : DeleteCheck(x, how)
           \/ SnapshotCheck(x) \/ RevertCheck(x) \/ DeleteSnapshotCheck(x)
           \/ ConvertImage(x) \/ MakeFile(x) \/ DeleteActive(x) \/ DeleteTree(x)
           \/ SnapshotFreeze(x) \/ SnapshotOverlay(x) \/ SnapshotUndo(x)
           \/ RevertBranch(x) \/ RevertReplace(x)
           \/ DeleteSnapshotRebase(x) \/ DeleteSnapshotUnlink(x)
<1>1. \A y \in Procs : y = x OBVIOUS
<1> QED BY <1>1, Zenon DEF Next

LEMMA NextK ==
    ASSUME OneProcess, KInv, [Next]_vars
    PROVE  KInv'
<1>0. PICK x : Procs = {x} BY DEF OneProcess
<1>1. CASE UNCHANGED vars BY <1>1 DEF KInv, TypeInv, vars
<1>2. CASE GuestWrite BY <1>0, <1>2, GuestWriteK
<1>3. CASE \/ \E version \in {"1", "2", "none"} : New(x, version)
           \/ \E c \in Commands : Call(x, c[1], c[2])
           \/ Return(x) \/ Query(x) \/ Kill(x)
  BY <1>0, <1>3, QuietStepsK
<1>4. CASE \/ ImportImageCheck(x)
           \/ \E how \in {"create", "clone", "import"} : MakeCheck(x, how)
           \/ \E how \in {"delete", "delete_force"} : DeleteCheck(x, how)
  BY <1>0, <1>4, MakeChecksK
<1>5. CASE SnapshotCheck(x) \/ RevertCheck(x) \/ DeleteSnapshotCheck(x)
  BY <1>0, <1>5, SnapshotChecksK
<1>6. CASE ConvertImage(x) \/ MakeFile(x) \/ DeleteActive(x) \/ DeleteTree(x)
  BY <1>0, <1>6, ConvertImageK, MakeFileK, DeleteActiveK, DeleteTreeK
<1>7. CASE \/ SnapshotFreeze(x) \/ SnapshotOverlay(x) \/ SnapshotUndo(x)
           \/ RevertBranch(x) \/ RevertReplace(x)
  BY <1>0, <1>7, SnapshotFreezeK, SnapshotOverlayK, SnapshotUndoK, RevertBranchK,
     RevertReplaceK
<1>8. CASE DeleteSnapshotRebase(x) \/ DeleteSnapshotUnlink(x)
  BY <1>0, <1>8, DeleteSnapshotRebaseK, DeleteSnapshotUnlinkK
<1> QED BY <1>1, <1>2, <1>3, <1>4, <1>5, <1>6, <1>7, <1>8, <1>0, NextCases

LEMMA KInvImplies == KInv => ContentKept
<1> SUFFICES ASSUME KInv, content # Nothing
             PROVE  \E p \in Names \cup {Active} : p \in Openable /\ Read(p) = content
  BY DEF ContentKept
<1>1. DiskFits(files, content) BY DEF KInv
<1> QED BY <1>1 DEF DiskFits, Openable, Read

(***************************************************************************)
(* What the guest last wrote survives every kill: with one process at a    *)
(* time, wherever it is killed, the active file or the snapshot it was     *)
(* renamed to opens and reads as the disk did.                             *)
(***************************************************************************)
THEOREM ContentIsKept ==
    ASSUME OneProcess
    PROVE  Spec => []ContentKept
<1>1. KInv /\ [Next]_vars => KInv' BY NextK
<1>2. Spec => []KInv
  BY <1>1, InitK, PTL DEF Spec
<1> QED BY <1>2, KInvImplies, PTL

-----------------------------------------------------------------------------
(***************************************************************************)
(* One process at a time, wherever it fails or is killed.  What the user   *)
(* sees changes with one step of every operation only, and as SnapshotTree *)
(* says.                                                                   *)
(***************************************************************************)

(* Nothing stands on an image that is not there. *)
Based(fs) == fs[Image] = NoFile => \A p \in Paths : fs[p].backing # Image

(* While a snapshot has no overlay yet, its file still is the disk. *)
StandIn(fs, q) ==
    IF q.pc \in {"overlay", "undo"} THEN Moved(fs, q.name, Active) ELSE fs
SeenIn(fs, q) == ViewIn(StandIn(fs, q))

PromisedIn(fs, op, n, was) ==
    CASE op = "create"          -> [was EXCEPT !.disk = Blank]
      [] op = "clone"           -> [was EXCEPT !.disk = ReadIn(fs, Image)]
      [] op = "import"          -> [was EXCEPT !.disk = BaseData]
      [] op = "snapshot"        -> [was EXCEPT !.snaps[n] = was.disk]
      [] op = "revert"          -> [was EXCEPT !.disk = was.snaps[n]]
      [] op = "delete_snapshot" -> [was EXCEPT !.snaps[n] = Nothing, !.orphans = @ \ {n}]
      [] op \in {"delete", "delete_force"}   -> Nowhere
      [] op \in {"query", "import_image"}    -> was

(* The answers after which the disk must be as it was. *)
Harmless(q) ==
    /\ q.exit # "ok"
    /\ q.exit \in {"backend", "traceback"} => q.op \notin {"import", "delete", "delete_force"}
    /\ q.exit = "killed" => q.op \in OnSnapshot

OkFits(fs, q, v) ==
    LET p == PromisedIn(fs, q.op, q.name, q.was)
    IN  v = p \/ (q.op = "snapshot" /\ Revives(p, v))

ErrorFits(q, v) ==
    \/ v = q.was
    \/ /\ q.op = "snapshot" /\ q.exit \in {"traceback", "killed"}
       /\ Revives(Stranded(q.name, q.was), v)

NStep(fs, q) ==
    /\ q.pc \in OnDisk \cup OnSnapshot \cup (Steps \ {"rm_tree"}) => q.was = SeenIn(fs, q)
    /\ q.pc \in {"idle", "closed"} => q \in {Idle, Closed}
    /\ q.pc = "done" /\ q.exit = "ok" => OkFits(fs, q, SeenIn(fs, q))
    /\ q.pc = "done" /\ Harmless(q) => ErrorFits(q, SeenIn(fs, q))

NInv ==
    /\ Based(files)
    /\ \A x \in Procs : NStep(files, proc[x])

(* A step of SnapshotTree, or none, from what is seen to what is seen next. *)
SameSnaps(u, v) == v.snaps = u.snaps /\ v.orphans = u.orphans

Takes(u, v, n) ==
    /\ u.disk # Nothing
    /\ u.snaps[n] = Nothing /\ n \notin u.orphans
    /\ v.snaps[n] = u.disk
    /\ \A m \in Names \ ({n} \cup u.orphans) : v.snaps[m] = u.snaps[m]
    /\ v.orphans = {m \in u.orphans : v.snaps[m] = Nothing}

Drops(u, v, n) ==
    /\ u.disk # Nothing /\ v.disk = u.disk
    /\ u.snaps[n] # Nothing \/ n \in u.orphans
    /\ v.snaps = [u.snaps EXCEPT ![n] = Nothing]
    /\ v.orphans = u.orphans \ {n}

Discards(u, v) ==
    /\ u.disk = Nothing /\ v.disk = Nothing
    /\ \A n \in Names : v.snaps[n] \in {u.snaps[n], Nothing}
    /\ v.orphans \subseteq u.orphans \cup {n \in Names : u.snaps[n] # v.snaps[n]}

ViewStep(u, v) ==
    \/ u = v
    \/ v.disk \in Contents /\ SameSnaps(u, v)
    \/ u.disk # Nothing /\ v.disk = Nothing /\ SameSnaps(u, v)
    \/ \E n \in Names :
         \/ Takes(u, v, n) /\ v.disk \in {u.disk, Nothing}
         \/ /\ u.disk # Nothing /\ u.snaps[n] # Nothing
            /\ v.disk = u.snaps[n] /\ SameSnaps(u, v)
         \/ Drops(u, v, n)

Proceeds(x) ==
    /\ NStep(files', proc'[x])
    /\ \/ ViewStep(SeenIn(files, proc[x]), SeenIn(files', proc'[x]))
       \/ /\ proc[x].pc = "rm_tree"
          /\ Discards(SeenIn(files, proc[x]), SeenIn(files', proc'[x]))

LEMMA NInvAt ==
    ASSUME KInv, NInv, NEW x \in Procs
    PROVE  /\ TypeInv /\ files \in Stores /\ Linked(files) /\ DiskFits(files, content)
           /\ StepFits(files, proc[x], content) /\ ProcFits(proc[x])
           /\ NStep(files, proc[x])
  BY KInvAt DEF NInv

LEMMA SeenPlain ==
    ASSUME NEW fs, NEW q, q.pc \notin {"overlay", "undo"}
    PROVE  SeenIn(fs, q) = ViewIn(fs)
  BY DEF SeenIn, StandIn

(* What is seen is what SeenIn says, before and after a step. *)
LEMMA StandingIs ==
    ASSUME KInv, NEW x, Procs = {x}
    PROVE  Standing = StandIn(files, proc[x]) /\ Standing \in Stores
<1>0. x \in Procs /\ (\A y \in Procs : y = x) /\ TypeInv BY KInvAt
<1>1. PICK q : q = proc[x] OBVIOUS
<1>2. \A n \in Names : Freezing(n) <=> q.pc \in {"overlay", "undo"} /\ q.name = n
  BY <1>0, <1>1 DEF Freezing
<1>3. CASE q.pc \in {"overlay", "undo"}
  <2>1. q.name \in Names BY <1>0, <1>1, <1>3, OpOf, NameOf DEF OpAt, OnSnapshot
  <2>2. (CHOOSE n \in Names : Freezing(n)) = q.name BY <1>2, <1>3, <2>1
  <2> QED BY <1>0, <1>1, <1>2, <1>3, <2>1, <2>2, StandingType DEF Standing, StandIn
<1>4. CASE q.pc \notin {"overlay", "undo"}
  BY <1>0, <1>1, <1>2, <1>4, StandingType DEF Standing, StandIn
<1> QED BY <1>3, <1>4

LEMMA SeenNow ==
    ASSUME KInv, NEW x, Procs = {x}
    PROVE  Seen = SeenIn(files, proc[x]) /\ Seen \in View
<1>1. Standing = StandIn(files, proc[x]) /\ Standing \in Stores BY StandingIs
<1>2. Seen = ViewIn(Standing) BY <1>1 DEF Seen, Viewed
<1> QED BY <1>1, <1>2, ViewType DEF SeenIn

LEMMA SeenNext ==
    ASSUME NEW x, Procs = {x}
    PROVE  KInv' => Seen' = SeenIn(files', proc'[x]) /\ Seen' \in View
<1>1. KInv => Seen = SeenIn(files, proc[x]) /\ Seen \in View BY SeenNow
<1>2. (KInv => Seen = SeenIn(files, proc[x]) /\ Seen \in View)' BY <1>1, PTL
<1> QED BY <1>2

(***************************************************************************)
(* Two stores that show the same at a path.                                *)
(***************************************************************************)
SameAt(fs, gs, p) ==
    /\ fs[p] = NoFile <=> gs[p] = NoFile
    /\ p \in OpenableIn(fs) <=> p \in OpenableIn(gs)
    /\ p \in OpenableIn(fs) => ReadIn(gs, p) = ReadIn(fs, p)

LEMMA NamesSame ==
    ASSUME NEW fs \in Stores, NEW gs \in Stores, \A n \in Names : SameAt(fs, gs, n)
    PROVE  SameSnaps(ViewIn(fs), ViewIn(gs))
<1>1. \A n \in Names : ViewIn(gs).snaps[n] = ViewIn(fs).snaps[n]
  BY ViewIs DEF SameAt
<1>2. ViewIn(fs).snaps \in [Names -> Contents \cup {Nothing}]
      /\ ViewIn(gs).snaps \in [Names -> Contents \cup {Nothing}]
  BY ViewType DEF View
<1>3. ViewIn(gs).snaps = ViewIn(fs).snaps BY <1>1, <1>2
<1>4. ViewIn(gs).orphans = ViewIn(fs).orphans BY ViewIs DEF SameAt
<1> QED BY <1>3, <1>4 DEF SameSnaps

LEMMA ViewEqual ==
    ASSUME NEW u \in View, NEW v \in View, v.disk = u.disk, SameSnaps(u, v)
    PROVE  v = u
  BY DEF View, SameSnaps

LEMMA ViewDisk ==
    ASSUME NEW u \in View, NEW v \in View, SameSnaps(u, v)
    PROVE  v = [u EXCEPT !.disk = v.disk]
  BY DEF View, SameSnaps

LEMMA AllSame ==
    ASSUME NEW fs \in Stores, NEW gs \in Stores,
           \A p \in Names \cup {Active} : SameAt(fs, gs, p)
    PROVE  ViewIn(gs) = ViewIn(fs)
<1>1. SameSnaps(ViewIn(fs), ViewIn(gs)) BY NamesSame
<1>2. SameAt(fs, gs, Active) OBVIOUS
<1>3. ViewIn(gs).disk = ViewIn(fs).disk BY <1>2, ViewIs DEF SameAt
<1> QED BY <1>1, <1>3, ViewType, ViewEqual

(* Files that nothing stands on. *)
LEMMA AsideSame ==
    ASSUME NEW fs, NEW gs, Linked(fs), Linked(gs), NEW X, X \subseteq {Active, Reverting},
           \A q \in Paths \ X : gs[q] = fs[q]
    PROVE  \A q \in Paths \ X : SameAt(fs, gs, q)
<1>1. \A q \in OpenableIn(fs) \ X : q \in OpenableIn(gs) /\ ReadIn(gs, q) = ReadIn(fs, q)
  BY ChangeAside
<1>2. \A q \in OpenableIn(gs) \ X : q \in OpenableIn(fs) /\ ReadIn(fs, q) = ReadIn(gs, q)
  BY ChangeAside
<1> QED BY <1>1, <1>2 DEF SameAt

(* A snapshot comes: under its name is what the disk was. *)
LEMMA Taking ==
    ASSUME NEW fs \in Stores, NEW gs \in Stores, NEW n \in Names, Linked(fs), fs[n] = NoFile,
           \A q \in Paths \ {n, Active} : gs[q] = fs[q],
           Active \in OpenableIn(fs), n \in OpenableIn(gs),
           ReadIn(gs, n) = ReadIn(fs, Active)
    PROVE  Takes(ViewIn(fs), ViewIn(gs), n)
<1> DEFINE X == {n, Active}
<1>0. n \in Paths /\ Names \subseteq Paths /\ Active \in Paths /\ n # Active
      /\ n # NoBacking /\ Active \notin Names
  BY PathsAre
<1>1. n \notin OpenableIn(fs) BY <1>0, OpenableIff
<1>2. \A q \in OpenableIn(fs) \ X : fs[q].backing \notin X
  <2> SUFFICES ASSUME NEW q \in OpenableIn(fs) PROVE fs[q].backing \notin {n, Active}
    OBVIOUS
  <2>1. q \in Paths BY OpenablePaths
  <2>2. fs[q].backing \in OpenableIn(fs) \cup {NoBacking} BY <2>1, OpenableIff
  <2>3. fs[q].backing # Active BY <2>1, NotBacking
  <2> QED BY <1>0, <1>1, <2>2, <2>3
<1>3. \A q \in OpenableIn(fs) \ X : q \in OpenableIn(gs) /\ ReadIn(gs, q) = ReadIn(fs, q)
  <2>1. \A q \in Paths \ X : gs[q] = fs[q] OBVIOUS
  <2> HIDE DEF X
  <2> QED BY <1>2, <2>1, Apart
<1>4. PICK u, v : u = ViewIn(fs) /\ v = ViewIn(gs) OBVIOUS
<1>5. /\ u.disk = ReadIn(fs, Active) /\ u.disk # Nothing
      /\ u.snaps[n] = Nothing /\ n \notin u.orphans
      /\ v.snaps[n] = u.disk
  BY <1>1, <1>4, ViewIs, ReadContents, DataNumbers
<1>6. ASSUME NEW m \in Names \ ({n} \cup u.orphans) PROVE v.snaps[m] = u.snaps[m]
  <2>1. m \in Paths /\ gs[m] = fs[m] BY <1>0
  <2>2. CASE m \in OpenableIn(fs)
    BY <1>0, <1>3, <1>4, <2>2, ViewIs
  <2>3. CASE m \notin OpenableIn(fs)
    <3>1. fs[m] = NoFile BY <1>4, <1>6, <2>3, ViewIs
    <3>2. m \notin OpenableIn(gs) BY <2>1, <3>1, OpenableIff
    <3> QED BY <1>4, <2>3, <3>2, ViewIs
  <2> QED BY <2>2, <2>3
<1>7. v.orphans = {m \in u.orphans : v.snaps[m] = Nothing}
  <2>1. u.orphans \subseteq Names /\ v.orphans \subseteq Names BY <1>4, ViewIs
  <2>2. \A m \in Names : v.snaps[m] = Nothing <=> m \notin OpenableIn(gs)
    BY <1>4, ViewIs, ReadContents, DataNumbers
  <2>3. \A m \in Names \ {n} : gs[m] = fs[m] BY <1>0
  <2>4. \A m \in Names \ {n} : m \in OpenableIn(fs) => m \in OpenableIn(gs)
    BY <1>0, <1>3
  <2>5. \A m \in Names : m \in u.orphans <=> fs[m] # NoFile /\ m \notin OpenableIn(fs)
    BY <1>4, ViewIs
  <2>6. \A m \in Names : m \in v.orphans <=> gs[m] # NoFile /\ m \notin OpenableIn(gs)
    BY <1>4, ViewIs
  <2>7. \A m \in Names : m \in v.orphans <=> m \in u.orphans /\ v.snaps[m] = Nothing
    BY <2>2, <2>3, <2>4, <2>5, <2>6, <1>5
  <2> QED BY <2>1, <2>7
<1> QED BY <1>4, <1>5, <1>6, <1>7 DEF Takes

LEMMA OrphansRead ==
    ASSUME NEW fs \in Stores
    PROVE  \A n \in ViewIn(fs).orphans : n \in Names /\ ViewIn(fs).snaps[n] = Nothing
  BY ViewIs

LEMMA TakesPromised ==
    ASSUME NEW u \in View, \A m \in u.orphans : u.snaps[m] = Nothing, NEW n \in Names,
           NEW v, Takes(u, v, n), v.disk = u.disk
    PROVE  Revives([u EXCEPT !.snaps[n] = u.disk], v)
<1> DEFINE p == [u EXCEPT !.snaps[n] = u.disk]
<1>1. /\ p.disk = u.disk /\ p.snaps[n] = u.disk
      /\ \A m \in Names \ {n} : p.snaps[m] = u.snaps[m]
  BY DEF View
<1> HIDE DEF p
<1>2. Revives(p, v) BY <1>1 DEF Revives, Takes
<1> QED BY <1>2 DEF p

LEMMA TakesStranded ==
    ASSUME NEW u \in View, \A m \in u.orphans : u.snaps[m] = Nothing, NEW n \in Names,
           NEW v, Takes(u, v, n), v.disk = Nothing
    PROVE  Revives(Stranded(n, u), v)
<1>1. PICK p : p = Stranded(n, u) OBVIOUS
<1>2. /\ p.disk = Nothing /\ p.snaps[n] = u.disk
      /\ \A m \in Names \ {n} : p.snaps[m] = u.snaps[m]
  BY <1>1 DEF View, Stranded
<1>3. Revives(p, v) BY <1>2 DEF Revives, Takes
<1> QED BY <1>1, <1>3

(* The layers that go, or go nowhere. *)
LEMMA NoneAdded ==
    ASSUME NEW fs, NEW gs, NEW n \in Paths, gs[n] = NoFile,
           \A q \in Paths \ {n} : gs[q] = fs[q]
    PROVE  \A q \in OpenableIn(gs) : q \in OpenableIn(fs) /\ ReadIn(fs, q) = ReadIn(gs, q)
<1>1. n \notin OpenableIn(gs) BY OpenableIff
<1>2. \A q \in OpenableIn(gs) : q \in Paths BY OpenablePaths
<1>3. \A q \in OpenableIn(gs) \ {n} : gs[q].backing \notin {n}
  <2> SUFFICES ASSUME NEW q \in OpenableIn(gs) PROVE gs[q].backing # n OBVIOUS
  <2>1. gs[q].backing \in OpenableIn(gs) \cup {NoBacking} BY <1>2, OpenableIff
  <2>2. n # NoBacking BY PathsFinite
  <2> QED BY <1>1, <2>1, <2>2
<1>4. \A q \in Paths \ {n} : fs[q] = gs[q] OBVIOUS
<1>5. \A q \in OpenableIn(gs) \ {n} : q \in OpenableIn(fs) /\ ReadIn(fs, q) = ReadIn(gs, q)
  BY <1>3, <1>4, Apart
<1> QED BY <1>1, <1>5

LEMMA RebasedSame ==
    ASSUME NEW fs, NEW gs, NEW c \in OpenableIn(fs), fs[c] # NoFile, gs[c] # NoFile,
           \A q \in Paths \ {c} : gs[q] = fs[q],
           \A q \in OpenableIn(fs) : q \in OpenableIn(gs) /\ ReadIn(gs, q) = ReadIn(fs, q)
    PROVE  \A q \in Paths : SameAt(fs, gs, q)
<1>1. StandOn(gs, OpenableIn(fs)) \subseteq OpenableIn(fs)
  <2> SUFFICES ASSUME NEW q \in StandOn(gs, OpenableIn(fs)), q # c
               PROVE  q \in OpenableIn(fs)
    OBVIOUS
  <2>1. /\ q \in Paths /\ gs[q] # NoFile
        /\ gs[q].backing \in OpenableIn(fs) \cup {NoBacking}
    BY DEF StandOn
  <2>2. gs[q] = fs[q] BY <2>1
  <2> QED BY <2>1, <2>2, OpenableIff
<1>2. OpenableIn(gs) \subseteq OpenableIn(fs) BY <1>1, OpenableLeast
<1>3. \A q \in Paths : fs[q] = NoFile <=> gs[q] = NoFile OBVIOUS
<1> QED BY <1>2, <1>3 DEF SameAt

(* A rename and the rename back. *)
LEMMA MovedBack ==
    ASSUME NEW fs \in Stores, NEW n \in Names, fs[n] = NoFile
    PROVE  Moved(Moved(fs, Active, n), n, Active) = fs
<1>0. n \in Paths /\ Active \in Paths /\ n # Active BY PathsAre
<1>1. PICK gs : gs = Moved(fs, Active, n) OBVIOUS
<1>2. /\ gs \in Stores /\ gs[n] = fs[Active] /\ gs[Active] = NoFile
      /\ \A q \in Paths \ {Active, n} : gs[q] = fs[q]
  <2>1. /\ Moved(fs, Active, n) \in Stores
        /\ Moved(fs, Active, n)[n] = fs[Active] /\ Moved(fs, Active, n)[Active] = NoFile
        /\ \A q \in Paths \ {Active, n} : Moved(fs, Active, n)[q] = fs[q]
    BY <1>0, MovedIs
  <2> QED BY <1>1, <2>1
<1>3. PICK hs : hs = Moved(gs, n, Active) OBVIOUS
<1>4. /\ hs \in Stores /\ hs[Active] = gs[n] /\ hs[n] = NoFile
      /\ \A q \in Paths \ {n, Active} : hs[q] = gs[q]
  <2>1. gs \in Stores BY <1>2
  <2>2. /\ Moved(gs, n, Active) \in Stores
        /\ Moved(gs, n, Active)[Active] = gs[n] /\ Moved(gs, n, Active)[n] = NoFile
        /\ \A q \in Paths \ {n, Active} : Moved(gs, n, Active)[q] = gs[q]
    BY <1>0, <2>1, MovedIs
  <2> QED BY <1>3, <2>2
<1>5. \A q \in Paths : hs[q] = fs[q] BY <1>2, <1>4
<1>6. hs = fs BY <1>4, <1>5 DEF Stores
<1> QED BY <1>1, <1>3, <1>6

(* What stands while a snapshot has no overlay yet. *)
LEMMA StandsIn ==
    ASSUME NEW fs \in Stores, NEW n \in Names, Linked(fs), fs[Active] = NoFile,
           n \in OpenableIn(fs), NEW w, w = Moved(fs, n, Active)
    PROVE  /\ w \in Stores /\ w[n] = NoFile /\ Linked(w)
           /\ \A q \in Paths \ {n, Active} : w[q] = fs[q]
           /\ Active \in OpenableIn(w) /\ ReadIn(w, Active) = ReadIn(fs, n)
<1>0. n \in Paths /\ Active \in Paths /\ n # Active /\ n # Image /\ Active # Image
  BY PathsAre
<1>1. /\ w \in Stores /\ w[Active] = fs[n] /\ w[n] = NoFile
      /\ \A q \in Paths \ {n, Active} : w[q] = fs[q]
  <2>1. /\ Moved(fs, n, Active) \in Stores
        /\ Moved(fs, n, Active)[Active] = fs[n] /\ Moved(fs, n, Active)[n] = NoFile
        /\ \A q \in Paths \ {n, Active} : Moved(fs, n, Active)[q] = fs[q]
    BY <1>0, MovedIs
  <2> QED BY <2>1
<1>2. Linked(w) BY <1>0, <1>1, LinkedMove
<1>3. Active \in OpenableIn(w) /\ ReadIn(w, Active) = ReadIn(fs, n)
  <2>1. fs[Active] = NoFile /\ Active \in Paths /\ n \in OpenableIn(fs) BY <1>0
  <2>2. w[Active] = fs[n] /\ \A q \in Paths \ {n, Active} : w[q] = fs[q] BY <1>1
  <2> QED BY <2>1, <2>2, RenameKeeps
<1> QED BY <1>1, <1>2, <1>3

(* How an operation ends. *)
LEMMA EndsWell ==
    ASSUME NEW gs, NEW q, NEW v, v = ViewIn(gs), q.pc = "done",
           q.exit = "ok" => OkFits(gs, q, v),
           Harmless(q) => ErrorFits(q, v)
    PROVE  NStep(gs, q) /\ SeenIn(gs, q) = v
<1>1. SeenIn(gs, q) = v BY SeenPlain
<1> QED BY <1>1 DEF NStep, OnDisk, OnSnapshot, Steps

(* An error before anything was done, or with everything as it was. *)
LEMMA QuietExitN ==
    ASSUME KInv, NInv, NEW x \in Procs, files' = files,
           proc[x].pc \in OnDisk \cup OnSnapshot \cup (Steps \ {"rm_tree", "overlay", "undo"}),
           NEW how \in Exits \ {"none", "ok"}, Exit(x, how)
    PROVE  Proceeds(x)
<1>1. /\ proc'[x].pc = "done" /\ proc'[x].op = proc[x].op /\ proc'[x].exit = how
      /\ proc'[x].was = proc[x].was
  BY NInvAt, ExitFits
<1>2. NStep(files, proc[x]) BY NInvAt
<1>3. proc[x].pc \notin {"overlay", "undo", "rm_tree"} /\ proc[x].pc # "done"
  BY DEF OnDisk, OnSnapshot, Steps
<1>4. SeenIn(files, proc[x]) = ViewIn(files) /\ SeenIn(files', proc'[x]) = ViewIn(files)
  BY <1>1, <1>3, SeenPlain
<1>5. proc[x].was = ViewIn(files)
  BY <1>2, <1>3, <1>4 DEF NStep
<1>6. NStep(files', proc'[x])
  BY <1>1, <1>4, <1>5 DEF NStep, ErrorFits, OnDisk, OnSnapshot, Steps
<1> QED BY <1>4, <1>6 DEF Proceeds, ViewStep

(* The operation goes on, and nothing was done yet. *)
LEMMA QuietGoesN ==
    ASSUME KInv, NInv, NEW x \in Procs, ViewIn(files') = ViewIn(files),
           proc[x].pc \in OnDisk \cup OnSnapshot \cup (Steps \ {"rm_tree", "overlay", "undo"}),
           proc'[x].pc \in Steps \ {"rm_tree", "overlay", "undo"},
           proc'[x].was = proc[x].was
    PROVE  Proceeds(x)
<1>2. NStep(files, proc[x]) BY NInvAt
<1>3. /\ proc[x].pc \notin {"overlay", "undo", "rm_tree"}
      /\ proc'[x].pc \notin {"overlay", "undo", "rm_tree", "done", "idle", "closed"}
  BY DEF OnDisk, OnSnapshot, Steps
<1>4. SeenIn(files, proc[x]) = ViewIn(files) /\ SeenIn(files', proc'[x]) = ViewIn(files')
  BY <1>3, SeenPlain
<1>5. proc[x].was = ViewIn(files)
  BY <1>2, <1>3, <1>4 DEF NStep
<1>6. NStep(files', proc'[x])
  BY <1>3, <1>4, <1>5 DEF NStep
<1> QED BY <1>4, <1>6 DEF Proceeds, ViewStep

(* A snapshot that has no overlay ends: its file is left under the name. *)
LEMMA StrandedN ==
    ASSUME KInv, NInv, NEW x \in Procs, files' = files,
           proc[x].pc \in {"overlay", "undo"}, proc[x].op = "snapshot",
           NEW how \in {"traceback", "killed"}, Exit(x, how)
    PROVE  Proceeds(x)
<1>0. /\ TypeInv /\ StepFits(files, proc[x], content) /\ Linked(files)
      /\ NStep(files, proc[x]) /\ files \in Stores
  BY NInvAt
<1>1. PICK n, w : n = proc[x].name /\ w = Moved(files, n, Active) OBVIOUS
<1>2. n \in Names /\ n \in Paths /\ n # Active BY <1>0, <1>1, NameOf DEF OnSnapshot
<1>3. files[Active] = NoFile /\ n \in OpenableIn(files)
  BY <1>0, <1>1 DEF StepFits
<1>4. /\ w \in Stores /\ w[n] = NoFile /\ Linked(w)
      /\ \A q \in Paths \ {n, Active} : w[q] = files[q]
      /\ Active \in OpenableIn(w) /\ ReadIn(w, Active) = ReadIn(files, n)
  BY <1>0, <1>1, <1>2, <1>3, StandsIn
<1>5. PICK u, v : u = ViewIn(w) /\ v = ViewIn(files) OBVIOUS
<1>6. Takes(u, v, n)
  <2>1. \A q \in Paths \ {n, Active} : files[q] = w[q] BY <1>4
  <2>2. ReadIn(files, n) = ReadIn(w, Active) BY <1>4
  <2> QED BY <1>0, <1>2, <1>3, <1>4, <1>5, <2>1, <2>2, Taking
<1>7. u \in View /\ \A m \in u.orphans : u.snaps[m] = Nothing
  BY <1>4, <1>5, ViewType, OrphansRead
<1>8. v.disk = Nothing
  <2>1. Active \notin OpenableIn(files) BY <1>3, OpenableIff, PathsAre
  <2> QED BY <1>0, <1>5, <2>1, ViewIs
<1>9. SeenIn(files, proc[x]) = u BY <1>1, <1>5 DEF SeenIn, StandIn
<1>10. proc[x].was = u BY <1>0, <1>9 DEF NStep, Steps
<1>11. PICK q : q = proc'[x] OBVIOUS
<1>12. /\ q.pc = "done" /\ q.op = "snapshot" /\ q.exit = how /\ q.was = u /\ q.name = n
  BY <1>0, <1>1, <1>10, <1>11, ExitFits, ExitsAre
<1>13. Revives(Stranded(n, u), v) BY <1>2, <1>6, <1>7, <1>8, TakesStranded
<1>14. ErrorFits(q, v) BY <1>12, <1>13 DEF ErrorFits
<1>15. NStep(files', q) /\ SeenIn(files', q) = v
  BY <1>5, <1>12, <1>14, EndsWell
<1> QED BY <1>2, <1>6, <1>8, <1>9, <1>11, <1>15 DEF Proceeds, ViewStep

LEMMA KillN ==
    ASSUME KInv, NInv, NEW x, Procs = {x}, Kill(x)
    PROVE  Proceeds(x)
<1>0. /\ x \in Procs /\ TypeInv /\ OpAt(proc[x].pc, proc[x].op) /\ proc[x] \in Process
      /\ NStep(files, proc[x])
  BY NInvAt, OpOf
<1>1. files' = files /\ Exit(x, "killed") /\ "killed" \in Exits \ {"none", "ok"}
      /\ proc[x].pc # "done"
  BY DEF Kill, Exits, At
<1>2. CASE proc[x].pc \in {"overlay", "undo"}
  BY <1>0, <1>1, <1>2, StrandedN DEF OpAt
<1>3. CASE proc[x].pc \in OnDisk \cup OnSnapshot \cup (Steps \ {"rm_tree", "overlay", "undo"})
  BY <1>0, <1>1, <1>3, QuietExitN
<1>4. CASE proc[x].pc = "rm_tree"
  <2>1. PICK q : q = proc'[x] OBVIOUS
  <2>2. q.pc = "done" /\ q.exit = "killed" /\ q.op = proc[x].op
    BY <1>0, <1>1, <2>1, ExitFits
  <2>3. q.op \notin OnSnapshot BY <1>0, <1>4, <2>2 DEF OpAt, OnSnapshot
  <2>4. ~Harmless(q) /\ q.exit # "ok" BY <2>2, <2>3 DEF Harmless
  <2>5. NStep(files', q) /\ SeenIn(files', q) = ViewIn(files')
    BY <2>2, <2>4, EndsWell
  <2>6. SeenIn(files, proc[x]) = ViewIn(files) BY <1>4, SeenPlain
  <2> QED BY <1>1, <2>1, <2>5, <2>6 DEF Proceeds, ViewStep
<1>5. proc[x].pc \notin {"idle", "closed"} BY <1>0 DEF NStep, Kill, Resting
<1> QED BY <1>0, <1>1, <1>2, <1>3, <1>4, <1>5 DEF Process, OnDisk, OnSnapshot, Steps

LEMMA QuietStepsN ==
    ASSUME KInv, NInv, NEW x, Procs = {x},
           \/ \E version \in {"1", "2", "none"} : New(x, version)
           \/ \E c \in Commands : Call(x, c[1], c[2])
           \/ Return(x)
           \/ Query(x)
           \/ Kill(x)
    PROVE  Proceeds(x)
<1>0. x \in Procs /\ TypeInv /\ NStep(files, proc[x]) BY NInvAt
<1>1. ASSUME proc[x].pc \in {"idle", "closed", "done"}, files' = files, proc'[x] = Idle
      PROVE  Proceeds(x)
  <2>1. proc'[x].pc = "idle" BY <1>1, IdleFits
  <2>2. NStep(files', proc'[x])
    BY <1>1, <2>1 DEF NStep, OnDisk, OnSnapshot, Steps
  <2>3. SeenIn(files, proc[x]) = ViewIn(files) BY <1>1, SeenPlain
  <2>4. SeenIn(files', proc'[x]) = ViewIn(files) BY <1>1, <2>1, SeenPlain
  <2> QED BY <2>2, <2>3, <2>4 DEF Proceeds, ViewStep
<1>2. ASSUME NEW version, New(x, version) PROVE Proceeds(x)
  BY <1>0, <1>1, <1>2, IdleFits DEF New, TypeInv
<1>3. CASE Return(x)
  BY <1>0, <1>1, <1>3 DEF Return, At, TypeInv
<1>4. ASSUME NEW c \in Commands, Call(x, c[1], c[2]) PROVE Proceeds(x)
  <2>1. /\ proc[x] = Idle /\ proc'[x].pc \in {c[1], "done"} /\ proc'[x].was = Seen
        /\ proc'[x].exit \in {"none", "unstarted", "invalid_config"} /\ files' = files
        /\ ProcFits(proc'[x])
    BY <1>0, <1>4, CallFits
  <2>2. c[1] \in OnDisk \cup OnSnapshot BY CommandsAre
  <2>3. proc[x].pc = "idle" BY <2>1, IdleFits
  <2>4. Seen = ViewIn(files) /\ SeenIn(files, proc[x]) = ViewIn(files)
    BY <2>3, SeenNow, SeenPlain
  <2>5. proc'[x].pc \notin {"overlay", "undo", "idle", "closed"}
    BY <2>1, <2>2 DEF OnDisk, OnSnapshot
  <2>6. SeenIn(files', proc'[x]) = ViewIn(files) BY <2>1, <2>5, SeenPlain
  <2>8. proc'[x].exit # "ok" BY <2>1
  <2>9. NStep(files', proc'[x])
    BY <2>1, <2>4, <2>5, <2>6, <2>8 DEF NStep, ErrorFits
  <2> QED BY <2>4, <2>6, <2>9 DEF Proceeds, ViewStep
<1>5. CASE Query(x)
  <2>0. files' = files /\ proc[x].pc = "query" /\ proc[x].op = "query"
    BY <1>0, <1>5, OpOf DEF Query, Check, At, OpAt, OnDisk
  <2>1. CASE \E how \in {"not_found", "backend"} : Exit(x, how)
    <3>1. {"not_found", "backend"} \subseteq Exits \ {"none", "ok"} BY DEF Exits, Refusals
    <3>2. proc[x].pc \in OnDisk BY <2>0 DEF OnDisk
    <3> QED BY <1>0, <2>0, <2>1, <3>1, <3>2, QuietExitN
  <2>2. CASE Exit(x, "ok")
    <3>0. PICK q, v : q = proc'[x] /\ v = ViewIn(files') OBVIOUS
    <3>1. /\ q.pc = "done" /\ q.op = "query" /\ q.was = proc[x].was
          /\ q.exit = "ok"
      BY <1>0, <2>0, <2>2, <3>0, ExitFits, ExitsAre
    <3>2. SeenIn(files, proc[x]) = v
      BY <2>0, <3>0, SeenPlain
    <3>3. q.was = v
      BY <1>0, <2>0, <3>1, <3>2 DEF NStep, OnDisk
    <3>4. PromisedIn(files', q.op, q.name, q.was) = q.was
      BY <3>1 DEF PromisedIn
    <3>5. OkFits(files', q, v) /\ ~Harmless(q) BY <3>1, <3>3, <3>4 DEF OkFits, Harmless
    <3>6. NStep(files', q) /\ SeenIn(files', q) = v
      BY <3>0, <3>1, <3>5, EndsWell
    <3> QED BY <3>0, <3>2, <3>6 DEF Proceeds, ViewStep
  <2> QED BY <1>5, <2>1, <2>2 DEF Query, Refuse
<1>6. CASE Kill(x) BY <1>6, KillN
<1> QED BY <1>2, <1>3, <1>4, <1>5, <1>6

LEMMA ChecksN ==
    ASSUME KInv, NInv, NEW x, Procs = {x},
           \/ ImportImageCheck(x)
           \/ \E how \in {"create", "clone", "import"} : MakeCheck(x, how)
           \/ \E how \in {"delete", "delete_force"} : DeleteCheck(x, how)
           \/ SnapshotCheck(x)
           \/ RevertCheck(x)
           \/ DeleteSnapshotCheck(x)
    PROVE  Proceeds(x)
<1>0. x \in Procs /\ TypeInv /\ OpAt(proc[x].pc, proc[x].op) /\ proc[x] \in Process
  BY NInvAt, OpOf
<1> DEFINE Bad == {"not_found", "already_exists", "invalid_state", "backend"}
           On  == {"convert_image", "make", "rm_active", "freeze", "branch", "unlink"}
<1>1. Bad \subseteq Exits \ {"none", "ok"} BY DEF Exits, Refusals
<1>2. /\ On \subseteq Steps \ {"rm_tree", "overlay", "undo"}
      /\ On \subseteq Steps \ {"rebase"}
  BY DEF Steps
<1>3. /\ files' = files /\ proc[x].pc \in OnDisk \cup OnSnapshot /\ proc[x].pc # "done"
  BY DEF ImportImageCheck, MakeCheck, DeleteCheck, SnapshotCheck, RevertCheck,
         DeleteSnapshotCheck, Check, At, OnDisk, OnSnapshot
<1>4. \/ \E how \in Bad : Exit(x, how)
      \/ \E pc \in On : Goes(x, pc)
      \/ \E c, b : proc' = [proc EXCEPT ![x] =
                     [@ EXCEPT !.pc = "rebase", !.child = c, !.onto = b]]
  <2>1. CASE ImportImageCheck(x) BY <2>1 DEF ImportImageCheck, Refuse
  <2>2. ASSUME NEW how, MakeCheck(x, how)
        PROVE  (\E e \in Bad : Exit(x, e)) \/ Goes(x, "make")
    BY <2>2 DEF MakeCheck, Refuse
  <2>3. ASSUME NEW how, DeleteCheck(x, how)
        PROVE  (\E e \in Bad : Exit(x, e)) \/ Goes(x, "rm_active")
    BY <2>3 DEF DeleteCheck, Refuse
  <2>4. CASE SnapshotCheck(x) BY <2>4 DEF SnapshotCheck, Refuse
  <2>5. CASE RevertCheck(x) BY <2>5 DEF RevertCheck, Refuse
  <2>6. CASE DeleteSnapshotCheck(x) BY <2>6 DEF DeleteSnapshotCheck, Refuse
  <2> QED BY <2>1, <2>2, <2>3, <2>4, <2>5, <2>6
<1>5. ASSUME NEW how \in Bad, Exit(x, how) PROVE Proceeds(x)
  BY <1>0, <1>1, <1>3, <1>5, QuietExitN
<1>6. ASSUME NEW pc \in On, Goes(x, pc) PROVE Proceeds(x)
  <2> DEFINE q == [proc[x] EXCEPT !.pc = pc]
  <2>1. q.pc = pc /\ q.was = proc[x].was BY <1>0 DEF Process
  <2>2. proc'[x] = q BY <1>0, <1>6 DEF Goes, TypeInv
  <2> HIDE DEF q
  <2>3. proc'[x].pc \in Steps \ {"rm_tree", "overlay", "undo"} BY <1>2, <2>1, <2>2
  <2>4. proc'[x].was = proc[x].was BY <2>1, <2>2
  <2> QED BY <1>0, <1>3, <2>3, <2>4, QuietGoesN
<1>7. ASSUME NEW c, NEW b, proc' = [proc EXCEPT ![x] =
                     [@ EXCEPT !.pc = "rebase", !.child = c, !.onto = b]]
      PROVE  Proceeds(x)
  <2> DEFINE q == [proc[x] EXCEPT !.pc = "rebase", !.child = c, !.onto = b]
  <2>1. q.pc = "rebase" /\ q.was = proc[x].was BY <1>0 DEF Process
  <2>2. proc'[x] = q BY <1>0, <1>7 DEF TypeInv
  <2> HIDE DEF q
  <2>3. proc'[x].pc \in Steps \ {"rm_tree", "overlay", "undo"} BY <2>1, <2>2 DEF Steps
  <2>4. proc'[x].was = proc[x].was BY <2>1, <2>2
  <2> QED BY <1>0, <1>3, <2>3, <2>4, QuietGoesN
<1> QED BY <1>4, <1>5, <1>6, <1>7

(***************************************************************************)
(* Nothing ever comes to stand on an image that is not there.              *)
(***************************************************************************)
LEMMA BasedChange ==
    ASSUME NEW fs, NEW gs, Based(fs), NEW p \in Paths \ {Image},
           gs[p].backing # Image \/ fs[Image] # NoFile,
           \A q \in Paths \ {p} : gs[q] = fs[q]
    PROVE  Based(gs)
  BY PathsAre DEF Based

LEMMA BasedMove ==
    ASSUME NEW fs, NEW gs, Based(fs), NEW a \in Paths \ {Image}, NEW b \in Paths \ {Image},
           gs[a] = NoFile, gs[b] = fs[a],
           \A q \in Paths \ {a, b} : gs[q] = fs[q]
    PROVE  Based(gs)
<1>1. NoFile.backing # Image BY PathsAre DEF NoFile
<1> QED BY <1>1, PathsAre DEF Based

LEMMA BasedNext ==
    ASSUME KInv, NEW x, Procs = {x}, Based(files), Next
    PROVE  Based(files')
<1>0. x \in Procs /\ TypeInv /\ StepFits(files, proc[x], content) BY KInvAt
<1>1. NoFile.backing # Image BY PathsAre DEF NoFile
<1>2. CASE files' = files BY <1>2
<1>3. CASE GuestWrite
  BY <1>0, <1>3, GuestWriteIs, BasedChange, PathsAre DEF Based
<1>4. CASE ConvertImage(x)
  <2>1. CASE files' = files BY <2>1
  <2>2. ASSUME NEW c \in {Blank, BaseData}, files'[Image] = Full(c) PROVE Based(files')
    <3>1. files'[Image] # NoFile BY <2>2, LayerTypes, DataNumbers
    <3> QED BY <3>1 DEF Based
  <2> QED BY <1>0, <1>4, <2>1, <2>2, ConvertImageIs
<1>5. CASE MakeFile(x)
  <2>1. CASE files' = files BY <2>1
  <2>2. CASE /\ proc[x].op = "clone" => Image \in Openable
             /\ files'[Active] = Made(proc[x].op)
             /\ \A q \in Paths \ {Active} : files'[q] = files[q]
    <3>1. CASE proc[x].op = "clone"
      <4>1. files[Image] # NoFile BY <2>2, <3>1, OpenableIff, PathsAre DEF Openable
      <4> QED BY <2>2, <4>1, BasedChange, PathsAre
    <3>2. CASE proc[x].op # "clone"
      <4>1. files'[Active].backing # Image BY <2>2, <3>2, PathsAre DEF Made, Full
      <4> QED BY <2>2, <4>1, BasedChange, PathsAre
    <3> QED BY <3>1, <3>2
  <2>3. CASE /\ files'[Active] = Full(Blank)
             /\ \A q \in Paths \ {Active} : files'[q] = files[q]
    <3>1. files'[Active].backing # Image BY <2>3, PathsAre DEF Full
    <3> QED BY <2>3, <3>1, BasedChange, PathsAre
  <2> QED BY <1>0, <1>5, <2>1, <2>2, <2>3, MakeFileIs
<1>6. CASE DeleteActive(x)
  <2>1. \/ files' = files
        \/ files'[Active] = NoFile /\ \A q \in Paths \ {Active} : files'[q] = files[q]
    BY <1>0, <1>6, DeleteActiveIs
  <2> QED BY <1>1, <2>1, BasedChange, PathsAre
<1>7. CASE DeleteTree(x)
  <2>1. \/ files' = files
        \/ \E n \in Names : files'[n] = NoFile /\ \A q \in Paths \ {n} : files'[q] = files[q]
    BY <1>0, <1>7, DeleteTreeIs DEF Snapshots
  <2> QED BY <1>1, <2>1, BasedChange, PathsAre
<1>8. CASE SnapshotFreeze(x)
  <2>1. proc[x].name \in Paths /\ proc[x].name # Image
    BY <1>0, <1>8, SnapshotFreezeIs, NameOf DEF OnSnapshot
  <2> QED BY <1>0, <1>8, <2>1, SnapshotFreezeIs, BasedMove, PathsAre
<1>9. CASE SnapshotOverlay(x)
  <2>1. proc[x].name # Image
    BY <1>0, <1>9, SnapshotOverlayIs, NameOf DEF OnSnapshot
  <2>2. Overlay(proc[x].name).backing # Image BY <2>1 DEF Overlay
  <2> QED BY <1>0, <1>9, <2>2, SnapshotOverlayIs, BasedChange, PathsAre
<1>10. CASE SnapshotUndo(x)
  <2>1. proc[x].name \in Paths /\ proc[x].name # Image
    BY <1>0, <1>10, SnapshotUndoIs, NameOf DEF OnSnapshot
  <2> QED BY <1>0, <1>10, <2>1, SnapshotUndoIs, BasedMove, PathsAre
<1>11. CASE RevertBranch(x)
  <2>1. proc[x].name # Image
    BY <1>0, <1>11, RevertBranchIs, NameOf DEF OnSnapshot
  <2>2. Overlay(proc[x].name).backing # Image BY <2>1 DEF Overlay
  <2> QED BY <1>0, <1>11, <2>2, RevertBranchIs, BasedChange, PathsAre
<1>12. CASE RevertReplace(x)
  BY <1>0, <1>12, RevertReplaceIs, BasedMove, PathsAre
<1>13. CASE DeleteSnapshotRebase(x)
  <2>1. PICK c, b : c = proc[x].child /\ b = proc[x].onto OBVIOUS
  <2>2. b # Image /\ c \in Paths /\ c # Image
    BY <1>0, <1>13, <2>1, PathsAre, DeleteSnapshotRebaseIs
    DEF DeleteSnapshotRebase, At, StepFits
  <2>3. \/ files' = files
        \/ files'[c].backing = b /\ \A q \in Paths \ {c} : files'[q] = files[q]
    BY <1>0, <1>13, <2>1, DeleteSnapshotRebaseIs
  <2> QED BY <2>2, <2>3, BasedChange
<1>14. CASE DeleteSnapshotUnlink(x)
  <2>1. proc[x].name \in Paths /\ proc[x].name # Image
    BY <1>0, <1>14, DeleteSnapshotUnlinkIs, NameOf DEF OnSnapshot
  <2> QED BY <1>0, <1>1, <1>14, <2>1, DeleteSnapshotUnlinkIs, BasedChange
<1>15. CASE \/ \E version \in {"1", "2", "none"} : New(x, version)
            \/ \E c \in Commands : Call(x, c[1], c[2])
            \/ Return(x) \/ Query(x) \/ Kill(x)
  BY <1>2, <1>15 DEF New, Call, Return, Query, Check, Kill
<1>16. CASE \/ ImportImageCheck(x)
            \/ \E how \in {"create", "clone", "import"} : MakeCheck(x, how)
            \/ \E how \in {"delete", "delete_force"} : DeleteCheck(x, how)
            \/ SnapshotCheck(x) \/ RevertCheck(x) \/ DeleteSnapshotCheck(x)
  BY <1>2, <1>16 DEF ImportImageCheck, MakeCheck, DeleteCheck, SnapshotCheck, RevertCheck,
                     DeleteSnapshotCheck, Check
<1> QED BY <1>3, <1>4, <1>5, <1>6, <1>7, <1>8, <1>9, <1>10, <1>11, <1>12, <1>13, <1>14,
           <1>15, <1>16, NextCases

(***************************************************************************)
(* The steps, one by one.                                                  *)
(***************************************************************************)
LEMMA StepAt ==
    ASSUME KInv, KInv', NInv, NEW x, Procs = {x}
    PROVE  /\ x \in Procs /\ TypeInv /\ files \in Stores /\ Linked(files)
           /\ DiskFits(files, content) /\ StepFits(files, proc[x], content)
           /\ NStep(files, proc[x])
           /\ files' \in Stores /\ Linked(files') /\ DiskFits(files', content')
  BY NInvAt DEF KInv, TypeInv

LEMMA SnapsAside ==
    ASSUME NEW fs \in Stores, NEW gs \in Stores, Linked(fs), Linked(gs),
           NEW X, X \subseteq {Active, Reverting}, \A q \in Paths \ X : gs[q] = fs[q]
    PROVE  SameSnaps(ViewIn(fs), ViewIn(gs))
<1>1. \A q \in Paths \ X : SameAt(fs, gs, q) BY AsideSame
<1> QED BY <1>1, NamesSame, PathsAre

LEMMA DiskReads ==
    ASSUME NEW fs \in Stores, NEW c, DiskFits(fs, c)
    PROVE  /\ fs[Active] # NoFile =>
                ViewIn(fs).disk = c /\ c \in Contents /\ c # Nothing
           /\ fs[Active] = NoFile => ViewIn(fs).disk = Nothing
<1>1. fs[Active] = NoFile => Active \notin OpenableIn(fs) BY OpenableIff, PathsAre
<1>2. ViewIn(fs).disk = IF Active \in OpenableIn(fs) THEN ReadIn(fs, Active) ELSE Nothing
  BY ViewIs
<1> QED BY <1>1, <1>2, ReadContents, DataNumbers DEF DiskFits

LEMMA GuestWriteN ==
    ASSUME KInv, KInv', NInv, NEW x, Procs = {x}, GuestWrite
    PROVE  Proceeds(x)
<1>0. /\ x \in Procs /\ TypeInv /\ Linked(files) /\ NStep(files, proc[x])
      /\ files \in Stores /\ files' \in Stores /\ Linked(files') /\ DiskFits(files', content')
  BY StepAt
<1>1. /\ files'[Active] # NoFile
      /\ \A q \in Paths \ {Active} : files'[q] = files[q]
      /\ proc' = proc /\ proc[x] \in {Idle, Closed}
  BY <1>0, GuestWriteIs
<1>2. proc[x].pc \in {"idle", "closed"} BY <1>1, IdleFits
<1>3. NStep(files', proc'[x])
  BY <1>1, <1>2 DEF NStep, OnDisk, OnSnapshot, Steps
<1>4. SeenIn(files, proc[x]) = ViewIn(files) /\ SeenIn(files', proc'[x]) = ViewIn(files')
  BY <1>1, <1>2, SeenPlain
<1>5. SameSnaps(ViewIn(files), ViewIn(files'))
  <2>1. {Active} \subseteq {Active, Reverting} OBVIOUS
  <2> QED BY <1>0, <1>1, <2>1, SnapsAside
<1>6. ViewIn(files').disk \in Contents BY <1>0, <1>1, DiskReads
<1> QED BY <1>3, <1>4, <1>5, <1>6 DEF Proceeds, ViewStep

LEMMA ConvertImageN ==
    ASSUME KInv, KInv', NInv, NEW x, Procs = {x}, ConvertImage(x)
    PROVE  Proceeds(x)
<1>0. /\ x \in Procs /\ TypeInv /\ StepFits(files, proc[x], content)
      /\ NStep(files, proc[x]) /\ files \in Stores /\ files' \in Stores
  BY StepAt
<1>1. /\ proc[x].pc = "convert_image" /\ proc[x].op = "import_image"
      /\ files[Image] = NoFile /\ Based(files)
  BY <1>0, ConvertImageIs DEF ConvertImage, At, StepFits, NInv
<1>2. SeenIn(files, proc[x]) = ViewIn(files) BY <1>1, SeenPlain
<1>3. proc[x].was = ViewIn(files)
  BY <1>0, <1>1, <1>2 DEF NStep, Steps
<1>4. CASE files' = files /\ Exit(x, "backend")
  <2>1. "backend" \in Exits \ {"none", "ok"} BY DEF Exits
  <2>2. proc[x].pc \in Steps \ {"rm_tree", "overlay", "undo"} BY <1>1 DEF Steps
  <2> QED BY <1>0, <1>4, <2>1, <2>2, QuietExitN
<1>5. ASSUME NEW c \in {Blank, BaseData}, files'[Image] = Full(c),
             \A q \in Paths \ {Image} : files'[q] = files[q],
             NEW how \in {"ok", "backend"}, Exit(x, how)
      PROVE  Proceeds(x)
  <2>1. \A q \in OpenableIn(files) :
          q # Image /\ q \in OpenableIn(files') /\ ReadIn(files', q) = ReadIn(files, q)
    BY <1>1, <1>5, ConvertedImage
  <2>2. \A q \in OpenableIn(files') \ {Image} :
          q \in OpenableIn(files) /\ ReadIn(files, q) = ReadIn(files', q)
    <3>1. \A q \in OpenableIn(files') : q \in Paths BY OpenablePaths
    <3>2. \A q \in OpenableIn(files') \ {Image} : files'[q].backing \notin {Image}
      BY <1>1, <1>5, <3>1 DEF Based
    <3>3. \A q \in Paths \ {Image} : files[q] = files'[q] BY <1>5
    <3> QED BY <3>2, <3>3, Apart
  <2>3. \A q \in Names \cup {Active} : q \in Paths \ {Image} BY PathsAre
  <2>4. \A q \in Names \cup {Active} : SameAt(files, files', q)
    BY <1>5, <2>1, <2>2, <2>3 DEF SameAt
  <2>5. ViewIn(files') = ViewIn(files) BY <1>0, <2>4, AllSame
  <2>6. PICK q, v : q = proc'[x] /\ v = ViewIn(files') OBVIOUS
  <2>7. q.pc = "done" /\ q.op = "import_image" /\ q.exit = how /\ q.was = v
    BY <1>0, <1>1, <1>3, <1>5, <2>5, <2>6, ExitFits, ExitsAre
  <2>8. PromisedIn(files', q.op, q.name, q.was) = v BY <2>7 DEF PromisedIn
  <2>9. OkFits(files', q, v) /\ ErrorFits(q, v) BY <2>7, <2>8 DEF OkFits, ErrorFits
  <2>10. NStep(files', q) /\ SeenIn(files', q) = v
    BY <2>6, <2>7, <2>9, EndsWell
  <2> QED BY <1>2, <2>5, <2>6, <2>10 DEF Proceeds, ViewStep
<1> QED BY <1>0, <1>4, <1>5, ConvertImageIs

LEMMA MakeFileN ==
    ASSUME KInv, KInv', NInv, NEW x, Procs = {x}, MakeFile(x)
    PROVE  Proceeds(x)
<1>0. /\ x \in Procs /\ TypeInv /\ Linked(files) /\ StepFits(files, proc[x], content)
      /\ NStep(files, proc[x]) /\ files \in Stores /\ files' \in Stores
      /\ Linked(files') /\ DiskFits(files', content')
  BY StepAt
<1>1. proc[x].pc = "make" /\ proc[x].op \in {"create", "clone", "import"}
  BY <1>0, MakeFileIs DEF MakeFile, At
<1>2. SeenIn(files, proc[x]) = ViewIn(files) BY <1>1, SeenPlain
<1>3. proc[x].was = ViewIn(files)
  BY <1>0, <1>1, <1>2 DEF NStep, Steps
<1>4. CASE UNCHANGED <<files, content>> /\ Exit(x, "backend")
  <2>1. "backend" \in Exits \ {"none", "ok"} BY DEF Exits
  <2>2. proc[x].pc \in Steps \ {"rm_tree", "overlay", "undo"} BY <1>1 DEF Steps
  <2> QED BY <1>0, <1>4, <2>1, <2>2, QuietExitN
<1>5. ASSUME files'[Active] # NoFile,
             \A q \in Paths \ {Active} : files'[q] = files[q],
             NEW how \in {"ok", "backend"}, Exit(x, how),
             how = "backend" => proc[x].op = "import",
             how = "ok" => content' = MadeReads(proc[x].op),
             how = "ok" /\ proc[x].op = "clone" => Image \in OpenableIn(files)
      PROVE  Proceeds(x)
  <2>1. PICK u, v, q : u = ViewIn(files) /\ v = ViewIn(files') /\ q = proc'[x] OBVIOUS
  <2>2. SameSnaps(u, v)
    <3>1. {Active} \subseteq {Active, Reverting} OBVIOUS
    <3> QED BY <1>0, <1>5, <2>1, <3>1, SnapsAside
  <2>3. u \in View /\ v \in View BY <1>0, <2>1, ViewType
  <2>4. v.disk = content' /\ content' \in Contents BY <1>0, <1>5, <2>1, DiskReads
  <2>5. v = [u EXCEPT !.disk = content'] BY <2>2, <2>3, <2>4, ViewDisk
  <2>6. q.pc = "done" /\ q.op = proc[x].op /\ q.exit = how /\ q.was = u
    BY <1>0, <1>3, <1>5, <2>1, ExitFits, ExitsAre
  <2>7. ASSUME how = "ok" PROVE OkFits(files', q, v)
    <3>1. proc[x].op = "clone" => ReadIn(files', Image) = ReadIn(files, Image)
      <4>1. \A p \in OpenableIn(files) \ {Active} :
              p \in OpenableIn(files') /\ ReadIn(files', p) = ReadIn(files, p)
        BY <1>0, <1>5, ActiveAside
      <4> QED BY <1>5, <2>7, <4>1, PathsAre
    <3>2. content' = IF q.op = "create" THEN Blank
                     ELSE IF q.op = "clone" THEN ReadIn(files', Image) ELSE BaseData
      BY <1>1, <1>5, <2>6, <2>7, <3>1 DEF MadeReads, Read
    <3>3. PICK c : c = content' OBVIOUS
    <3>4. PICK fs : fs = files' OBVIOUS
    <3>5. c = IF q.op = "create" THEN Blank
              ELSE IF q.op = "clone" THEN ReadIn(fs, Image) ELSE BaseData
      BY <3>2, <3>3, <3>4
    <3>6. PICK op, n : op = q.op /\ n = q.name OBVIOUS
    <3>7. op \in {"create", "clone", "import"} BY <1>1, <2>6, <3>6
    <3>8. c = IF op = "create" THEN Blank
              ELSE IF op = "clone" THEN ReadIn(fs, Image) ELSE BaseData
      BY <3>5, <3>6
    <3>9. PromisedIn(fs, op, n, u) = [u EXCEPT !.disk = c]
      BY <3>7, <3>8 DEF PromisedIn
    <3> QED BY <2>5, <2>6, <3>3, <3>4, <3>6, <3>9 DEF OkFits
  <2>8. ~Harmless(q) BY <1>5, <2>6 DEF Harmless
  <2>9. NStep(files', q) /\ SeenIn(files', q) = v
    BY <2>1, <2>6, <2>7, <2>8, EndsWell
  <2> QED BY <1>2, <2>1, <2>2, <2>4, <2>9 DEF Proceeds, ViewStep
<1>6. CASE /\ proc[x].op = "clone" => Image \in Openable
           /\ files'[Active] = Made(proc[x].op)
           /\ content' = MadeReads(proc[x].op)
           /\ \A q \in Paths \ {Active} : files'[q] = files[q]
           /\ Exit(x, "ok")
  <2>1. files'[Active] # NoFile
    BY <1>6, LayerTypes, DataNumbers, PathsAre DEF Made
  <2> QED BY <1>5, <1>6, <2>1 DEF Openable
<1>7. CASE /\ proc[x].op = "import"
           /\ files'[Active] = Full(Blank)
           /\ \A q \in Paths \ {Active} : files'[q] = files[q]
           /\ Exit(x, "backend")
  <2>1. files'[Active] # NoFile BY <1>7, LayerTypes, DataNumbers
  <2> QED BY <1>5, <1>7, <2>1
<1> QED BY <1>0, <1>4, <1>6, <1>7, MakeFileIs

LEMMA DeleteActiveN ==
    ASSUME KInv, KInv', NInv, NEW x, Procs = {x}, DeleteActive(x)
    PROVE  Proceeds(x)
<1>0. /\ x \in Procs /\ TypeInv /\ Linked(files) /\ StepFits(files, proc[x], content)
      /\ NStep(files, proc[x]) /\ files \in Stores /\ files' \in Stores
      /\ Linked(files') /\ DiskFits(files, content) /\ DiskFits(files', content')
  BY StepAt
<1>1. /\ proc[x].pc = "rm_active" /\ proc[x].op \in {"delete", "delete_force"}
      /\ files[Active] # NoFile
  BY <1>0, DeleteActiveIs DEF DeleteActive, At, StepFits
<1>2. SeenIn(files, proc[x]) = ViewIn(files) BY <1>1, SeenPlain
<1>3. CASE UNCHANGED <<files, content>> /\ Exit(x, "traceback")
  <2>1. "traceback" \in Exits \ {"none", "ok"} BY DEF Exits
  <2>2. proc[x].pc \in Steps \ {"rm_tree", "overlay", "undo"} BY <1>1 DEF Steps
  <2> QED BY <1>0, <1>3, <2>1, <2>2, QuietExitN
<1>4. CASE /\ files'[Active] = NoFile
           /\ \A q \in Paths \ {Active} : files'[q] = files[q]
           /\ Goes(x, "rm_tree")
  <2>1. SameSnaps(ViewIn(files), ViewIn(files'))
    <3>1. {Active} \subseteq {Active, Reverting} OBVIOUS
    <3> QED BY <1>0, <1>4, <3>1, SnapsAside
  <2>2. ViewIn(files).disk # Nothing BY <1>0, <1>1, DiskReads
  <2>3. ViewIn(files').disk = Nothing BY <1>0, <1>4, DiskReads
  <2>4. "rm_tree" \in Steps \ {"rebase"} /\ OpAt("rm_tree", proc[x].op)
        /\ proc[x].pc # "done"
    BY <1>1 DEF Steps, OpAt, OnDisk, OnSnapshot
  <2>5. proc'[x].pc = "rm_tree" BY <1>0, <1>4, <2>4, GoesFits
  <2>6. NStep(files', proc'[x]) BY <2>5 DEF NStep, OnDisk, OnSnapshot, Steps
  <2>7. SeenIn(files', proc'[x]) = ViewIn(files') BY <2>5, SeenPlain
  <2> QED BY <1>2, <2>1, <2>2, <2>3, <2>6, <2>7 DEF Proceeds, ViewStep
<1> QED BY <1>0, <1>3, <1>4, DeleteActiveIs

(* With the active file gone, and no snapshot left, nothing is seen. *)
LEMMA NothingLeft ==
    ASSUME NEW fs \in Stores, fs[Active] = NoFile, \A n \in Names : fs[n] = NoFile
    PROVE  ViewIn(fs) = Nowhere
<1>1. Active \notin OpenableIn(fs) /\ \A n \in Names : n \notin OpenableIn(fs)
  BY OpenableIff, PathsAre
<1>2. ViewIn(fs) \in View BY ViewType
<1>3. /\ ViewIn(fs).disk = Nothing /\ ViewIn(fs).orphans = {}
      /\ \A n \in Names : ViewIn(fs).snaps[n] = Nothing
  BY <1>1, ViewIs
<1> QED BY <1>2, <1>3 DEF View, Nowhere

LEMMA DeleteTreeN ==
    ASSUME KInv, KInv', NInv, NEW x, Procs = {x}, DeleteTree(x)
    PROVE  Proceeds(x)
<1>0. /\ x \in Procs /\ TypeInv /\ Linked(files) /\ StepFits(files, proc[x], content)
      /\ files \in Stores /\ files' \in Stores
      /\ DiskFits(files, content) /\ DiskFits(files', content')
  BY StepAt
<1>1. /\ proc[x].pc = "rm_tree" /\ proc[x].op \in {"delete", "delete_force"}
      /\ files[Active] = NoFile
  BY <1>0, DeleteTreeIs DEF DeleteTree, At, StepFits
<1>2. SeenIn(files, proc[x]) = ViewIn(files) BY <1>1, SeenPlain
<1>3. ASSUME NEW n \in Names, files'[n] = NoFile,
             \A q \in Paths \ {n} : files'[q] = files[q], proc' = proc
      PROVE  Proceeds(x)
  <2>1. PICK u, v, gs : u = ViewIn(files) /\ v = ViewIn(gs) /\ gs = files' OBVIOUS
  <2>2. n \in Paths /\ \A m \in Names : m \in Paths BY PathsAre
  <2>3. \A q \in OpenableIn(gs) :
          q \in OpenableIn(files) /\ ReadIn(files, q) = ReadIn(gs, q)
    <3>1. gs[n] = NoFile /\ \A q \in Paths \ {n} : gs[q] = files[q] BY <1>3, <2>1
    <3> QED BY <2>2, <3>1, NoneAdded
  <2>4. u.disk = Nothing /\ v.disk = Nothing
    <3>1. gs[Active] = NoFile BY <1>1, <1>3, <2>1, PathsAre
    <3> QED BY <1>0, <1>1, <2>1, <3>1, DiskReads
  <2>5. ASSUME NEW m \in Names PROVE v.snaps[m] \in {u.snaps[m], Nothing}
    <3>1. CASE m \in OpenableIn(gs)
      BY <1>0, <2>1, <2>3, <3>1, ViewIs
    <3>2. CASE m \notin OpenableIn(gs)
      BY <1>0, <2>1, <3>2, ViewIs
    <3> QED BY <3>1, <3>2
  <2>6. v.orphans \subseteq u.orphans \cup {m \in Names : u.snaps[m] # v.snaps[m]}
    <3> SUFFICES ASSUME NEW m \in v.orphans, m \notin u.orphans
                 PROVE  m \in Names /\ u.snaps[m] # v.snaps[m]
      OBVIOUS
    <3>1. m \in Names /\ gs[m] # NoFile /\ m \notin OpenableIn(gs) BY <1>0, <2>1, ViewIs
    <3>2. files[m] # NoFile BY <1>3, <2>1, <2>2, <3>1
    <3>3. m \in OpenableIn(files) BY <1>0, <2>1, <3>1, <3>2, ViewIs
    <3>4. u.snaps[m] = ReadIn(files, m) /\ v.snaps[m] = Nothing
      BY <1>0, <2>1, <3>1, <3>3, ViewIs
    <3>5. ReadIn(files, m) # Nothing BY <1>0, <3>3, ReadContents, DataNumbers
    <3> QED BY <3>1, <3>4, <3>5
  <2>7. Discards(u, v) BY <2>4, <2>5, <2>6 DEF Discards
  <2>8. proc'[x].pc = "rm_tree" BY <1>1, <1>3
  <2>9. NStep(files', proc'[x]) BY <2>8 DEF NStep, OnDisk, OnSnapshot, Steps
  <2>10. SeenIn(files', proc'[x]) = v BY <2>1, <2>8, SeenPlain
  <2> QED BY <1>1, <1>2, <2>1, <2>7, <2>9, <2>10 DEF Proceeds
<1>4. ASSUME NEW how \in {"ok", "traceback"}, Exit(x, how), files' = files,
             how = "ok" => Snapshots = {}
      PROVE  Proceeds(x)
  <2>1. PICK q, v : q = proc'[x] /\ v = ViewIn(files) OBVIOUS
  <2>2. q.pc = "done" /\ q.op = proc[x].op /\ q.exit = how
    BY <1>0, <1>4, <2>1, ExitFits, ExitsAre
  <2>3. ~Harmless(q) BY <1>1, <1>4, <2>2 DEF Harmless
  <2>4. ASSUME how = "ok" PROVE OkFits(files', q, v)
    <3>1. \A n \in Names : files[n] = NoFile BY <1>4, <2>4 DEF Snapshots, Exists
    <3>2. v = Nowhere BY <1>0, <1>1, <2>1, <3>1, NothingLeft
    <3>3. PromisedIn(files', q.op, q.name, q.was) = Nowhere
      BY <1>1, <2>2 DEF PromisedIn
    <3> QED BY <3>2, <3>3 DEF OkFits
  <2>5. NStep(files', q) /\ SeenIn(files', q) = v
    BY <1>4, <2>1, <2>2, <2>3, <2>4, EndsWell
  <2> QED BY <1>2, <2>1, <2>5 DEF Proceeds, ViewStep
<1> QED BY <1>0, <1>3, <1>4, DeleteTreeIs DEF Snapshots

(* A freeze is not seen: until the overlay is there the frozen file still
   is the disk.  If it ends the operation, the disk is left under the name. *)
LEMMA SnapshotFreezeN ==
    ASSUME KInv, KInv', NInv, NEW x, Procs = {x}, SnapshotFreeze(x)
    PROVE  Proceeds(x)
<1>0. /\ x \in Procs /\ TypeInv /\ Linked(files) /\ StepFits(files, proc[x], content)
      /\ NStep(files, proc[x]) /\ files \in Stores /\ files' \in Stores
      /\ DiskFits(files, content) /\ DiskFits(files', content')
  BY StepAt
<1>1. proc[x].pc = "freeze" /\ proc[x].op = "snapshot"
  BY <1>0, SnapshotFreezeIs DEF SnapshotFreeze, At
<1>2. SeenIn(files, proc[x]) = ViewIn(files) BY <1>1, SeenPlain
<1>3. CASE UNCHANGED files /\ Exit(x, "traceback")
  <2>1. "traceback" \in Exits \ {"none", "ok"} BY DEF Exits
  <2>2. proc[x].pc \in Steps \ {"rm_tree", "overlay", "undo"} BY <1>1 DEF Steps
  <2> QED BY <1>0, <1>3, <2>1, <2>2, QuietExitN
<1>4. PICK n, u, v, q : /\ n = proc[x].name /\ u = ViewIn(files) /\ v = ViewIn(files')
                        /\ q = proc'[x]
  OBVIOUS
<1>5. n \in Names /\ n \in Paths /\ n # Active BY <1>0, <1>1, <1>4, NameOf DEF OnSnapshot
<1>6. proc[x].was = u /\ files[Active] # NoFile /\ files[n] = NoFile
      /\ Active \in OpenableIn(files)
  BY <1>0, <1>1, <1>2, <1>4 DEF NStep, Steps, StepFits, DiskFits
<1>7. CASE /\ files'[n] = files[Active] /\ files'[Active] = NoFile
           /\ \A p \in Paths \ {Active, n} : files'[p] = files[p]
           /\ files' = Moved(files, Active, n)
           /\ Goes(x, "overlay") \/ Exit(x, "traceback")
  <2>1. CASE Goes(x, "overlay")
    <3>1. /\ "overlay" \in Steps \ {"rebase"} /\ OpAt("overlay", proc[x].op)
          /\ proc[x].pc # "done"
      BY <1>1 DEF Steps, OpAt, OnDisk, OnSnapshot
    <3>2. q.pc = "overlay" /\ q.name = n /\ q.was = u
      BY <1>0, <1>4, <1>6, <2>1, <3>1, GoesFits
    <3>3. Moved(files', n, Active) = files BY <1>0, <1>5, <1>6, <1>7, MovedBack
    <3>4. SeenIn(files', q) = u BY <1>4, <3>2, <3>3 DEF SeenIn, StandIn
    <3>5. NStep(files', q) BY <3>2, <3>4 DEF NStep
    <3> QED BY <1>2, <1>4, <3>4, <3>5 DEF Proceeds, ViewStep
  <2>2. CASE Exit(x, "traceback")
    <3>1. Takes(u, v, n)
      <4>1. n \in OpenableIn(files') /\ ReadIn(files', n) = ReadIn(files, Active)
        <5>1. PICK gs : gs = files' OBVIOUS
        <5>2. gs[n] = files[Active] /\ \A p \in Paths \ {Active, n} : gs[p] = files[p]
          BY <1>7, <5>1
        <5>3. n \in OpenableIn(gs) /\ ReadIn(gs, n) = ReadIn(files, Active)
          BY <1>5, <1>6, <5>2, RenameKeeps
        <5> QED BY <5>1, <5>3
      <4>2. \A p \in Paths \ {n, Active} : files'[p] = files[p] BY <1>7
      <4> QED BY <1>0, <1>4, <1>5, <1>6, <4>1, <4>2, Taking
    <3>2. u \in View /\ \A m \in u.orphans : u.snaps[m] = Nothing
      BY <1>0, <1>4, ViewType, OrphansRead
    <3>3. v.disk = Nothing BY <1>0, <1>4, <1>7, DiskReads
    <3>4. /\ q.pc = "done" /\ q.op = "snapshot" /\ q.exit = "traceback" /\ q.was = u
          /\ q.name = n
      BY <1>0, <1>1, <1>4, <1>6, <2>2, ExitFits, ExitsAre
    <3>5. Revives(Stranded(n, u), v) BY <1>5, <3>1, <3>2, <3>3, TakesStranded
    <3>6. ErrorFits(q, v) BY <3>4, <3>5 DEF ErrorFits
    <3>7. NStep(files', q) /\ SeenIn(files', q) = v
      BY <1>4, <3>4, <3>6, EndsWell
    <3> QED BY <1>2, <1>4, <1>5, <3>1, <3>3, <3>7 DEF Proceeds, ViewStep
  <2> QED BY <1>7, <2>1, <2>2
<1> QED BY <1>0, <1>3, <1>4, <1>7, SnapshotFreezeIs

LEMMA SnapshotOverlayN ==
    ASSUME KInv, KInv', NInv, NEW x, Procs = {x}, SnapshotOverlay(x)
    PROVE  Proceeds(x)
<1>0. /\ x \in Procs /\ TypeInv /\ Linked(files) /\ StepFits(files, proc[x], content)
      /\ NStep(files, proc[x]) /\ files \in Stores /\ files' \in Stores
  BY StepAt
<1>1. proc[x].pc = "overlay" /\ proc[x].op = "snapshot"
  BY <1>0, SnapshotOverlayIs DEF SnapshotOverlay, At
<1>2. PICK n, w, u, q : /\ n = proc[x].name /\ w = Moved(files, n, Active)
                        /\ u = ViewIn(w) /\ q = proc'[x]
  OBVIOUS
<1>3. n \in Names /\ n \in Paths /\ n # Active BY <1>0, <1>1, <1>2, NameOf DEF OnSnapshot
<1>4. SeenIn(files, proc[x]) = u BY <1>1, <1>2 DEF SeenIn, StandIn
<1>5. /\ proc[x].was = u /\ files[Active] = NoFile /\ n \in OpenableIn(files)
  BY <1>0, <1>1, <1>2, <1>4 DEF NStep, Steps, StepFits
<1>6. CASE UNCHANGED files /\ Goes(x, "undo")
  <2>1. /\ "undo" \in Steps \ {"rebase"} /\ OpAt("undo", proc[x].op)
        /\ proc[x].pc # "done"
    BY <1>1 DEF Steps, OpAt, OnDisk, OnSnapshot
  <2>2. q.pc = "undo" /\ q.name = n /\ q.was = u
    BY <1>0, <1>2, <1>5, <1>6, <2>1, GoesFits
  <2>3. SeenIn(files', q) = u BY <1>2, <1>6, <2>2 DEF SeenIn, StandIn
  <2>4. NStep(files', q) BY <2>2, <2>3 DEF NStep
  <2> QED BY <1>2, <1>4, <2>3, <2>4 DEF Proceeds, ViewStep
<1>7. CASE /\ files'[Active] = Overlay(n)
           /\ \A p \in Paths \ {Active} : files'[p] = files[p]
           /\ Exit(x, "ok")
  <2>1. PICK gs, v : gs = files' /\ v = ViewIn(gs) OBVIOUS
  <2>2. /\ gs \in Stores /\ gs[Active] = Overlay(n)
        /\ \A p \in Paths \ {Active} : gs[p] = files[p]
    BY <1>0, <1>7, <2>1
  <2>3. /\ w \in Stores /\ w[n] = NoFile /\ Linked(w)
        /\ \A p \in Paths \ {n, Active} : w[p] = files[p]
        /\ Active \in OpenableIn(w) /\ ReadIn(w, Active) = ReadIn(files, n)
    BY <1>0, <1>2, <1>3, <1>5, StandsIn
  <2>4. n \in OpenableIn(gs) /\ ReadIn(gs, n) = ReadIn(w, Active)
    <3>1. \A p \in OpenableIn(files) \ {Active} :
            p \in OpenableIn(gs) /\ ReadIn(gs, p) = ReadIn(files, p)
      BY <1>0, <2>2, ActiveAside
    <3> QED BY <1>3, <1>5, <2>3, <3>1
  <2>5. Active \in OpenableIn(gs) /\ ReadIn(gs, Active) = ReadIn(gs, n)
    BY <2>2, <2>4, OverlayReads, PathsAre
  <2>6. Takes(u, v, n)
    <3>1. \A p \in Paths \ {n, Active} : gs[p] = w[p] BY <2>2, <2>3
    <3> QED BY <1>2, <1>3, <2>1, <2>2, <2>3, <2>4, <3>1, Taking
  <2>7. u \in View /\ \A m \in u.orphans : u.snaps[m] = Nothing
    BY <1>2, <2>3, ViewType, OrphansRead
  <2>8. v.disk = u.disk BY <1>2, <2>1, <2>2, <2>3, <2>4, <2>5, ViewIs
  <2>9. /\ q.pc = "done" /\ q.op = "snapshot" /\ q.exit = "ok" /\ q.was = u
        /\ q.name = n
    BY <1>0, <1>1, <1>2, <1>5, <1>7, ExitFits, ExitsAre
  <2>10. OkFits(gs, q, v) /\ ~Harmless(q)
    <3>1. Revives([u EXCEPT !.snaps[n] = u.disk], v)
      BY <1>3, <2>6, <2>7, <2>8, TakesPromised
    <3>2. PromisedIn(gs, "snapshot", n, u) = [u EXCEPT !.snaps[n] = u.disk]
      BY DEF PromisedIn
    <3>3. Revives(PromisedIn(gs, q.op, q.name, q.was), v) BY <2>9, <3>1, <3>2
    <3> QED BY <2>9, <3>3 DEF OkFits, Harmless
  <2>11. NStep(gs, q) /\ SeenIn(gs, q) = v
    BY <2>1, <2>9, <2>10, EndsWell
  <2>12. ViewStep(u, v) BY <1>3, <2>6, <2>8 DEF ViewStep
  <2> QED BY <1>2, <1>4, <2>1, <2>11, <2>12 DEF Proceeds
<1> QED BY <1>0, <1>2, <1>6, <1>7, SnapshotOverlayIs

LEMMA SnapshotUndoN ==
    ASSUME KInv, KInv', NInv, NEW x, Procs = {x}, SnapshotUndo(x)
    PROVE  Proceeds(x)
<1>0. x \in Procs /\ TypeInv /\ NStep(files, proc[x]) BY StepAt
<1>1. proc[x].pc = "undo" /\ proc[x].op = "snapshot"
  BY <1>0, SnapshotUndoIs DEF SnapshotUndo, At
<1>2. CASE UNCHANGED files /\ Exit(x, "traceback")
  BY <1>0, <1>1, <1>2, StrandedN
<1>3. CASE files' = Moved(files, proc[x].name, Active) /\ Exit(x, "backend")
  <2>1. PICK q, v : q = proc'[x] /\ v = ViewIn(files') OBVIOUS
  <2>2. SeenIn(files, proc[x]) = v BY <1>1, <1>3, <2>1 DEF SeenIn, StandIn
  <2>3. proc[x].was = v BY <1>0, <1>1, <2>2 DEF NStep, Steps
  <2>4. q.pc = "done" /\ q.exit = "backend" /\ q.was = v
    BY <1>0, <1>3, <2>1, <2>3, ExitFits, ExitsAre
  <2>5. ErrorFits(q, v) BY <2>4 DEF ErrorFits
  <2>6. NStep(files', q) /\ SeenIn(files', q) = v
    BY <2>1, <2>4, <2>5, EndsWell
  <2> QED BY <2>1, <2>2, <2>6 DEF Proceeds, ViewStep
<1> QED BY <1>0, <1>2, <1>3, SnapshotUndoIs

LEMMA RevertBranchN ==
    ASSUME KInv, KInv', NInv, NEW x, Procs = {x}, RevertBranch(x)
    PROVE  Proceeds(x)
<1>0. /\ x \in Procs /\ TypeInv /\ Linked(files)
      /\ files \in Stores /\ files' \in Stores /\ Linked(files')
  BY StepAt
<1>1. /\ proc[x].pc = "branch" /\ proc[x].op = "revert"
      /\ proc[x].pc \in Steps \ {"rm_tree", "overlay", "undo"}
  BY <1>0, RevertBranchIs DEF RevertBranch, At, Steps
<1>2. CASE UNCHANGED files /\ Exit(x, "backend")
  <2>1. "backend" \in Exits \ {"none", "ok"} BY DEF Exits
  <2> QED BY <1>0, <1>1, <1>2, <2>1, QuietExitN
<1>3. CASE /\ \A q \in Paths \ {Reverting} : files'[q] = files[q]
           /\ Goes(x, "replace")
  <2>1. \A q \in Names \cup {Active} : SameAt(files, files', q)
    <3>1. {Reverting} \subseteq {Active, Reverting} OBVIOUS
    <3>2. \A q \in Paths \ {Reverting} : SameAt(files, files', q)
      BY <1>0, <1>3, <3>1, AsideSame
    <3> QED BY <3>2, PathsAre
  <2>2. ViewIn(files') = ViewIn(files) BY <1>0, <2>1, AllSame
  <2>3. /\ "replace" \in Steps \ {"rebase"} /\ OpAt("replace", proc[x].op)
        /\ proc[x].pc # "done"
    BY <1>1 DEF Steps, OpAt, OnDisk, OnSnapshot
  <2>4. proc'[x].pc = "replace" /\ proc'[x].was = proc[x].was
    BY <1>0, <1>3, <2>3, GoesFits
  <2>5. proc'[x].pc \in Steps \ {"rm_tree", "overlay", "undo"} BY <2>4 DEF Steps
  <2> QED BY <1>0, <1>1, <2>2, <2>4, <2>5, QuietGoesN
<1> QED BY <1>0, <1>2, <1>3, RevertBranchIs

LEMMA RevertReplaceN ==
    ASSUME KInv, KInv', NInv, NEW x, Procs = {x}, RevertReplace(x)
    PROVE  Proceeds(x)
<1>0. /\ x \in Procs /\ TypeInv /\ StepFits(files, proc[x], content) /\ Linked(files)
      /\ NStep(files, proc[x]) /\ files \in Stores /\ DiskFits(files, content)
      /\ files' \in Stores /\ Linked(files')
  BY StepAt
<1>1. /\ proc[x].pc = "replace" /\ proc[x].op = "revert"
      /\ proc[x].pc \in Steps \ {"rm_tree", "overlay", "undo"}
  BY <1>0, RevertReplaceIs DEF RevertReplace, At, Steps
<1>2. SeenIn(files, proc[x]) = ViewIn(files) BY <1>1, SeenPlain
<1>3. CASE UNCHANGED files /\ Exit(x, "traceback")
  <2>1. "traceback" \in Exits \ {"none", "ok"} BY DEF Exits
  <2> QED BY <1>0, <1>1, <1>3, <2>1, QuietExitN
<1>4. PICK n, gs, u, v, q : /\ n = proc[x].name /\ gs = files' /\ q = proc'[x]
                            /\ u = ViewIn(files) /\ v = ViewIn(gs)
  OBVIOUS
<1>5. n \in Names /\ n \in Paths /\ n # Active /\ n # Reverting
  BY <1>0, <1>1, <1>4, NameOf DEF OnSnapshot
<1>6. /\ proc[x].was = u
      /\ files[Active] # NoFile /\ n \in OpenableIn(files) /\ files[Reverting] = Overlay(n)
  BY <1>0, <1>1, <1>2, <1>4 DEF NStep, Steps, StepFits
<1>7. CASE /\ gs[Active] = files[Reverting]
           /\ \A p \in Paths \ {Reverting, Active} : gs[p] = files[p]
           /\ Exit(x, "ok")
  <2>1. gs \in Stores /\ Linked(gs) BY <1>0, <1>4
  <2>2. SameSnaps(u, v)
    <3>1. {Reverting, Active} \subseteq {Active, Reverting} OBVIOUS
    <3> QED BY <1>0, <1>4, <1>7, <2>1, <3>1, SnapsAside
  <2>3. n \in OpenableIn(gs) /\ ReadIn(gs, n) = ReadIn(files, n)
    <3>1. \A p \in OpenableIn(files) \ {Reverting, Active} :
            p \in OpenableIn(gs) /\ ReadIn(gs, p) = ReadIn(files, p)
      BY <1>0, <1>7, BothAside
    <3> QED BY <1>5, <1>6, <3>1
  <2>4. Active \in OpenableIn(gs) /\ ReadIn(gs, Active) = ReadIn(gs, n)
    BY <1>6, <1>7, <2>1, <2>3, OverlayReads, PathsAre
  <2>5. u.snaps[n] = ReadIn(files, n) /\ v.disk = ReadIn(files, n)
    BY <1>0, <1>4, <1>5, <1>6, <2>1, <2>3, <2>4, ViewIs
  <2>6. u \in View /\ v \in View BY <1>0, <1>4, <2>1, ViewType
  <2>7. v = [u EXCEPT !.disk = u.snaps[n]] BY <2>2, <2>5, <2>6, ViewDisk
  <2>8. /\ q.pc = "done" /\ q.op = "revert" /\ q.name = n
        /\ q.exit = "ok" /\ q.was = u
    BY <1>0, <1>1, <1>4, <1>6, <1>7, ExitFits, ExitsAre
  <2>9. OkFits(gs, q, v) /\ ~Harmless(q)
    <3>1. PromisedIn(gs, "revert", n, u) = [u EXCEPT !.disk = u.snaps[n]]
      BY DEF PromisedIn
    <3> QED BY <2>7, <2>8, <3>1 DEF OkFits, Harmless
  <2>10. NStep(gs, q) /\ SeenIn(gs, q) = v
    BY <1>4, <2>8, <2>9, EndsWell
  <2>11. u.disk # Nothing /\ u.snaps[n] # Nothing
    BY <1>0, <1>4, <1>6, <2>5, DiskReads, ReadContents, DataNumbers
  <2>12. ViewStep(u, v) BY <1>5, <2>2, <2>5, <2>11 DEF ViewStep
  <2> QED BY <1>2, <1>4, <2>10, <2>12 DEF Proceeds
<1> QED BY <1>0, <1>3, <1>4, <1>7, RevertReplaceIs

LEMMA DeleteSnapshotRebaseN ==
    ASSUME KInv, KInv', NInv, NEW x, Procs = {x}, DeleteSnapshotRebase(x)
    PROVE  Proceeds(x)
<1>0. /\ x \in Procs /\ TypeInv /\ StepFits(files, proc[x], content) /\ Linked(files)
      /\ NStep(files, proc[x]) /\ files \in Stores /\ files' \in Stores
  BY StepAt
<1>1. /\ proc[x].pc = "rebase" /\ proc[x].op = "delete_snapshot"
      /\ proc[x].child \in Names
      /\ proc[x].pc \in Steps \ {"rm_tree", "overlay", "undo"}
  BY <1>0, DeleteSnapshotRebaseIs DEF DeleteSnapshotRebase, At, Steps
<1>2. SeenIn(files, proc[x]) = ViewIn(files) BY <1>1, SeenPlain
<1>3. CASE UNCHANGED files /\ \E how \in {"backend", "traceback"} : Exit(x, how)
  <2>1. {"backend", "traceback"} \subseteq Exits \ {"none", "ok"} BY DEF Exits
  <2> QED BY <1>0, <1>1, <1>3, <2>1, QuietExitN
<1>4. PICK n, c, b, gs, q : /\ n = proc[x].name /\ c = proc[x].child /\ b = proc[x].onto
                            /\ gs = files' /\ q = proc'[x]
  OBVIOUS
<1>5. n \in Names /\ c \in Names
  BY <1>0, <1>1, <1>4, NameOf DEF OnSnapshot
<1>6. /\ proc[x].was = ViewIn(files)
      /\ ChildrenIn(files, n) = {c}
      /\ b = IF files[n].backing \in Names THEN files[n].backing ELSE NoBacking
  BY <1>0, <1>1, <1>2, <1>4 DEF NStep, Steps, StepFits
<1>7. CASE /\ c \in Openable
           /\ gs[c] = [backing |-> b, own |-> Read(c)]
           /\ \A p \in Paths \ {c} : gs[p] = files[p]
           /\ Goes(x, "unlink") \/ Exit(x, "traceback")
  <2>1. c \in OpenableIn(files) /\ gs[c] = [backing |-> b, own |-> ReadIn(files, c)]
    BY <1>7 DEF Openable, Read
  <2>2. \A p \in OpenableIn(files) : p \in OpenableIn(gs) /\ ReadIn(gs, p) = ReadIn(files, p)
    BY <1>0, <1>5, <1>6, <1>7, <2>1, RebasedChild
  <2>3. files[c] # NoFile /\ gs[c] # NoFile
    <3>1. c \in Paths /\ c \in OpenableIn(gs) BY <1>5, <2>1, <2>2, PathsAre
    <3> QED BY <2>1, <3>1, OpenableIff
  <2>4. \A p \in Paths : SameAt(files, gs, p)
    BY <1>7, <2>1, <2>2, <2>3, RebasedSame
  <2>5. gs \in Stores BY <1>0, <1>4
  <2>6. ViewIn(gs) = ViewIn(files) BY <1>0, <2>4, <2>5, AllSame, PathsAre
  <2>7. CASE Goes(x, "unlink")
    <3>1. /\ "unlink" \in Steps \ {"rebase"} /\ OpAt("unlink", proc[x].op)
          /\ proc[x].pc # "done"
      BY <1>1 DEF OpAt, OnDisk, OnSnapshot, Steps
    <3>2. proc'[x].pc = "unlink" /\ proc'[x].was = proc[x].was
      BY <1>0, <2>7, <3>1, GoesFits
    <3>3. proc'[x].pc \in Steps \ {"rm_tree", "overlay", "undo"} BY <3>2 DEF Steps
    <3> QED BY <1>0, <1>1, <1>4, <2>6, <3>2, <3>3, QuietGoesN
  <2>8. CASE Exit(x, "traceback")
    <3>1. PICK v : v = ViewIn(gs) OBVIOUS
    <3>2. q.pc = "done" /\ q.exit = "traceback" /\ q.was = v
      BY <1>0, <1>4, <1>6, <2>6, <2>8, <3>1, ExitFits, ExitsAre
    <3>3. ErrorFits(q, v) BY <3>2 DEF ErrorFits
    <3>4. NStep(gs, q) /\ SeenIn(gs, q) = v
      BY <3>1, <3>2, <3>3, EndsWell
    <3> QED BY <1>2, <1>4, <2>6, <3>1, <3>4 DEF Proceeds, ViewStep
  <2> QED BY <1>7, <2>7, <2>8
<1> QED BY <1>0, <1>3, <1>4, <1>7, DeleteSnapshotRebaseIs

LEMMA DeleteSnapshotUnlinkN ==
    ASSUME KInv, KInv', NInv, NEW x, Procs = {x}, DeleteSnapshotUnlink(x)
    PROVE  Proceeds(x)
<1>0. /\ x \in Procs /\ TypeInv /\ StepFits(files, proc[x], content) /\ Linked(files)
      /\ NStep(files, proc[x]) /\ files \in Stores /\ DiskFits(files, content)
      /\ files' \in Stores /\ Linked(files')
  BY StepAt
<1>1. /\ proc[x].pc = "unlink" /\ proc[x].op = "delete_snapshot"
      /\ proc[x].pc \in Steps \ {"rm_tree", "overlay", "undo"}
  BY <1>0, DeleteSnapshotUnlinkIs DEF DeleteSnapshotUnlink, At, Steps
<1>2. SeenIn(files, proc[x]) = ViewIn(files) BY <1>1, SeenPlain
<1>3. CASE UNCHANGED files /\ Exit(x, "traceback")
  <2>1. "traceback" \in Exits \ {"none", "ok"} BY DEF Exits
  <2> QED BY <1>0, <1>1, <1>3, <2>1, QuietExitN
<1>4. PICK n, gs, u, v, q : /\ n = proc[x].name /\ gs = files' /\ q = proc'[x]
                            /\ u = ViewIn(files) /\ v = ViewIn(gs)
  OBVIOUS
<1>5. n \in Names /\ n \in Paths /\ n # Active /\ n # Reverting
  BY <1>0, <1>1, <1>4, NameOf DEF OnSnapshot
<1>6. /\ proc[x].was = u
      /\ files[Active] # NoFile /\ Active \in OpenableIn(files)
      /\ files[n] # NoFile /\ files[Active].backing # n /\ ChildrenIn(files, n) = {}
  BY <1>0, <1>1, <1>2, <1>4 DEF NStep, Steps, StepFits, DiskFits
<1>7. CASE /\ gs[n] = NoFile
           /\ \A p \in Paths \ {n} : gs[p] = files[p]
           /\ Exit(x, "ok")
  <2>1. \A p \in OpenableIn(files) \ {n, Reverting} :
          p \in OpenableIn(gs) /\ ReadIn(gs, p) = ReadIn(files, p)
    BY <1>0, <1>5, <1>6, <1>7, UnlinkedSnapshot
  <2>2. \A p \in OpenableIn(gs) :
          p \in OpenableIn(files) /\ ReadIn(files, p) = ReadIn(gs, p)
    BY <1>5, <1>7, NoneAdded
  <2>3. ASSUME NEW p \in (Names \ {n}) \cup {Active} PROVE SameAt(files, gs, p)
    <3>1. p \in Paths \ {n, Reverting} BY <1>5, PathsAre
    <3> QED BY <1>7, <2>1, <2>2, <3>1 DEF SameAt
  <2>4. gs \in Stores BY <1>0, <1>4
  <2>5. n \notin OpenableIn(gs) BY <1>5, <1>7, OpenableIff
  <2>6. v.disk = u.disk /\ u.disk # Nothing
    <3>1. SameAt(files, gs, Active) BY <2>3
    <3> QED BY <1>0, <1>4, <1>6, <2>4, <3>1, ViewIs, DiskReads DEF SameAt
  <2>7. v.snaps[n] = Nothing /\ \A m \in Names \ {n} : v.snaps[m] = u.snaps[m]
    BY <1>0, <1>4, <1>5, <2>3, <2>4, <2>5, ViewIs DEF SameAt
  <2>8. u \in View /\ v \in View BY <1>0, <1>4, <2>4, ViewType
  <2>9. v.snaps = [u.snaps EXCEPT ![n] = Nothing]
    <3>1. u.snaps \in [Names -> Contents \cup {Nothing}]
          /\ v.snaps \in [Names -> Contents \cup {Nothing}]
      BY <2>8 DEF View
    <3> QED BY <2>7, <3>1
  <2>10. v.orphans = u.orphans \ {n}
    <3>1. \A m \in Names \ {n} : SameAt(files, gs, m) BY <2>3
    <3>2. /\ u.orphans = {m \in Names : files[m] # NoFile /\ m \notin OpenableIn(files)}
          /\ v.orphans = {m \in Names : gs[m] # NoFile /\ m \notin OpenableIn(gs)}
      BY <1>0, <1>4, <2>4, ViewIs
    <3> QED BY <1>7, <3>1, <3>2 DEF SameAt
  <2>11. u.snaps[n] # Nothing \/ n \in u.orphans
    BY <1>0, <1>4, <1>5, <1>6, ViewIs, ReadContents, DataNumbers
  <2>12. Drops(u, v, n) BY <2>6, <2>9, <2>10, <2>11 DEF Drops
  <2>13. v = [u EXCEPT !.snaps[n] = Nothing, !.orphans = @ \ {n}]
    BY <2>6, <2>8, <2>9, <2>10 DEF View
  <2>14. /\ q.pc = "done" /\ q.op = "delete_snapshot" /\ q.name = n
         /\ q.exit = "ok" /\ q.was = u
    BY <1>0, <1>1, <1>4, <1>6, <1>7, ExitFits, ExitsAre
  <2>15. OkFits(gs, q, v) /\ ~Harmless(q)
    <3>1. PromisedIn(gs, "delete_snapshot", n, u) =
            [u EXCEPT !.snaps[n] = Nothing, !.orphans = @ \ {n}]
      BY DEF PromisedIn
    <3> QED BY <2>13, <2>14, <3>1 DEF OkFits, Harmless
  <2>16. NStep(gs, q) /\ SeenIn(gs, q) = v
    BY <1>4, <2>14, <2>15, EndsWell
  <2>17. ViewStep(u, v) BY <1>5, <2>12 DEF ViewStep
  <2> QED BY <1>2, <1>4, <2>16, <2>17 DEF Proceeds
<1> QED BY <1>0, <1>3, <1>4, <1>7, DeleteSnapshotUnlinkIs

LEMMA InitN == Init => NInv
<1> SUFFICES ASSUME Init PROVE NInv OBVIOUS
<1>1. Based(files)
  <2>1. NoFile.backing # Image BY PathsAre DEF NoFile
  <2> QED BY <2>1 DEF Init, Based
<1>2. \A x \in Procs : proc[x] = Closed /\ proc[x].pc = "closed" BY IdleFits DEF Init
<1>3. \A x \in Procs : NStep(files, proc[x])
  BY <1>2 DEF NStep, OnDisk, OnSnapshot, Steps
<1> QED BY <1>1, <1>3 DEF NInv

(* A step of the only process does what one step of SnapshotTree does, or
   nothing that is seen, and keeps the invariant. *)
LEMMA StepN ==
    ASSUME KInv, KInv', NInv, NEW x, Procs = {x}, Next
    PROVE  Proceeds(x)
<1>1. CASE GuestWrite BY <1>1, GuestWriteN
<1>2. CASE \/ \E version \in {"1", "2", "none"} : New(x, version)
           \/ \E c \in Commands : Call(x, c[1], c[2])
           \/ Return(x) \/ Query(x) \/ Kill(x)
  BY <1>2, QuietStepsN
<1>3. CASE \/ ImportImageCheck(x)
           \/ \E how \in {"create", "clone", "import"} : MakeCheck(x, how)
           \/ \E how \in {"delete", "delete_force"} : DeleteCheck(x, how)
           \/ SnapshotCheck(x) \/ RevertCheck(x) \/ DeleteSnapshotCheck(x)
  BY <1>3, ChecksN
<1>4. CASE ConvertImage(x) \/ MakeFile(x) \/ DeleteActive(x) \/ DeleteTree(x)
  BY <1>4, ConvertImageN, MakeFileN, DeleteActiveN, DeleteTreeN
<1>5. CASE \/ SnapshotFreeze(x) \/ SnapshotOverlay(x) \/ SnapshotUndo(x)
           \/ RevertBranch(x) \/ RevertReplace(x)
  BY <1>5, SnapshotFreezeN, SnapshotOverlayN, SnapshotUndoN, RevertBranchN, RevertReplaceN
<1>6. CASE DeleteSnapshotRebase(x) \/ DeleteSnapshotUnlink(x)
  BY <1>6, DeleteSnapshotRebaseN, DeleteSnapshotUnlinkN
<1> QED BY <1>1, <1>2, <1>3, <1>4, <1>5, <1>6, NextCases

LEMMA NextN ==
    ASSUME OneProcess, KInv, NInv, [Next]_vars
    PROVE  NInv'
<1>0. PICK x : Procs = {x} BY DEF OneProcess
<1>1. CASE UNCHANGED vars BY <1>1 DEF NInv, vars
<1>2. CASE Next
  <2>1. KInv' BY NextK
  <2>2. Proceeds(x) BY <1>0, <1>2, <2>1, StepN
  <2>3. Based(files') BY <1>0, <1>2, BasedNext DEF NInv
  <2> QED BY <1>0, <2>2, <2>3 DEF NInv, Proceeds
<1> QED BY <1>1, <1>2

LEMMA BothInvariants ==
    ASSUME OneProcess
    PROVE  Spec => [](KInv /\ NInv)
<1>1. KInv /\ NInv /\ [Next]_vars => KInv' /\ NInv' BY NextK, NextN
<1> QED BY <1>1, InitK, InitN, PTL DEF Spec

(* What SubprocessStore makes of the end of a process. *)
LEMMA ErrorKinds ==
    ASSUME NEW e
    PROVE  /\ ErrorKind(e) = "Ok" => e = "ok"
           /\ ErrorKind(e) = "NotFound" => e = "not_found"
           /\ ErrorKind(e) = "AlreadyExists" => e = "already_exists"
           /\ ErrorKind(e) = "InvalidState" => e = "invalid_state"
           /\ ErrorKind(e) = "InvalidConfig" => e = "invalid_config"
           /\ ErrorKind(e) = "Io" => e = "unstarted"
           /\ ErrorKind(e) = "Backend" => e # "ok"
  BY DEF ErrorKind

LEMMA NInvOk ==
    ASSUME OneProcess, KInv, NInv
    PROVE  OkMeansDone
<1>0. PICK x : Procs = {x} BY DEF OneProcess
<1>1. PICK q, s : q = proc[x] /\ s = Seen OBVIOUS
<1> DEFINE p == Promised(q.op, q.name, q.was)
<1> SUFFICES ASSUME Answered(x, {"Ok"})
             PROVE  s = p \/ (q.op = "snapshot" /\ Revives(p, s))
  BY <1>0, <1>1 DEF OkMeansDone
<1>2. q.pc = "done" /\ q.exit = "ok"
  BY <1>1, ErrorKinds DEF Answered, At
<1>3. NStep(files, q) BY <1>0, <1>1, NInvAt
<1>4. OkFits(files, q, SeenIn(files, q)) BY <1>2, <1>3 DEF NStep
<1>5. SeenIn(files, q) = s BY <1>0, <1>1, SeenNow
<1>6. PromisedIn(files, q.op, q.name, q.was) = p
  BY DEF PromisedIn, Promised, Read
<1> QED BY <1>4, <1>5, <1>6 DEF OkFits

LEMMA NInvErrors ==
    ASSUME OneProcess, KInv, NInv
    PROVE  ErrorKeepsTree
<1>0. PICK x : Procs = {x} BY DEF OneProcess
<1>1. PICK q, s : q = proc[x] /\ s = Seen OBVIOUS
<1> SUFFICES ASSUME Answered(x, {"NotFound", "AlreadyExists", "InvalidState",
                                 "InvalidConfig", "Io", "Backend"}),
                    q.exit \in {"backend", "traceback"} =>
                      q.op \notin {"import", "delete", "delete_force"},
                    q.exit = "killed" => q.op \in OnSnapshot
             PROVE  \/ s = q.was
                    \/ /\ q.op = "snapshot" /\ q.exit \in {"traceback", "killed"}
                       /\ Revives(Stranded(q.name, q.was), s)
  BY <1>0, <1>1 DEF ErrorKeepsTree
<1>2. q.pc = "done" /\ Harmless(q)
  BY <1>1, ErrorKinds DEF Answered, At, Harmless
<1>3. NStep(files, q) BY <1>0, <1>1, NInvAt
<1>4. ErrorFits(q, SeenIn(files, q)) BY <1>2, <1>3 DEF NStep
<1>5. SeenIn(files, q) = s BY <1>0, <1>1, SeenNow
<1> QED BY <1>4, <1>5 DEF ErrorFits

(* The active disk opens, so that only snapshots can be broken. *)
LEMMA BrokenNow ==
    ASSUME KInv
    PROVE  Broken = Seen.orphans
<1>1. Exists(Active) => Active \in Openable BY DEF KInv, DiskFits, Exists, Openable
<1> QED BY <1>1 DEF Broken

LEMMA BrokenNext == KInv' => Broken' = (Seen.orphans)'
<1>1. KInv => Broken = Seen.orphans BY BrokenNow
<1>2. (KInv => Broken = Seen.orphans)' BY <1>1, PTL
<1> QED BY <1>2

LEMMA ViewStepOrphans ==
    ASSUME NEW u, NEW v, ViewStep(u, v)
    PROVE  v.orphans \subseteq u.orphans
  BY DEF ViewStep, SameSnaps, Takes, Drops

LEMMA ChainsStep ==
    ASSUME OneProcess, KInv, KInv', NInv, [Next]_vars
    PROVE  [~Removing => Broken' \subseteq Broken]_vars
<1>0. PICK x : Procs = {x} BY DEF OneProcess
<1>1. SUFFICES ASSUME Next, ~Removing PROVE Broken' \subseteq Broken OBVIOUS
<1>2. PICK u, v : u = Seen /\ v = Seen' OBVIOUS
<1>3. SeenIn(files, proc[x]) = u /\ SeenIn(files', proc'[x]) = v
  BY <1>0, <1>2, SeenNow, SeenNext
<1>4. proc[x].pc # "rm_tree" BY <1>0, <1>1 DEF Removing
<1>5. ViewStep(u, v) BY <1>0, <1>1, <1>3, <1>4, StepN DEF Proceeds
<1>6. v.orphans \subseteq u.orphans BY <1>5, ViewStepOrphans
<1> QED BY <1>2, <1>6, BrokenNow, BrokenNext

(***************************************************************************)
(* With one process at a time, no sequence of calls, failed, abandoned and *)
(* killed ones included, takes a layer's backing file away from under it,  *)
(* but for the rmtree of a deleted disk.                                   *)
(***************************************************************************)
THEOREM ChainsStayIntact ==
    ASSUME OneProcess
    PROVE  Spec => ChainsIntact
<1>1. KInv /\ KInv' /\ NInv /\ [Next]_vars => [~Removing => Broken' \subseteq Broken]_vars
  BY ChainsStep
<1>2. Spec => [][Next]_vars BY DEF Spec
<1> QED BY <1>1, <1>2, BothInvariants, PTL DEF ChainsIntact

(***************************************************************************)
(* With one process at a time, an Ok that the engine is handed is the      *)
(* truth, whatever earlier calls have failed half-way or been killed.      *)
(***************************************************************************)
THEOREM OkIsTheTruth ==
    ASSUME OneProcess
    PROVE  Spec => []OkMeansDone
<1>1. KInv /\ NInv => OkMeansDone BY NInvOk
<1> QED BY <1>1, BothInvariants, PTL

(***************************************************************************)
(* With one process at a time, a call that ends with an error has left the *)
(* disk and every snapshot as they read before, or, if a snapshot was      *)
(* broken off, the disk under the snapshot's name.                         *)
(***************************************************************************)
THEOREM ErrorsKeepTheTree ==
    ASSUME OneProcess
    PROVE  Spec => []ErrorKeepsTree
<1>1. KInv /\ NInv => ErrorKeepsTree BY NInvErrors
<1> QED BY <1>1, BothInvariants, PTL

-----------------------------------------------------------------------------
(***************************************************************************)
(* The refinement of SnapshotTree.                                         *)
(***************************************************************************)
LEMMA TreeInit == Init => Tree!Init
<1> SUFFICES ASSUME Init PROVE Tree!Init OBVIOUS
<1>1. files \in Stores BY InitType DEF TypeInv
<1>2. \A y \in Procs : proc[y].pc = "closed" BY IdleFits DEF Init
<1>3. \A n \in Names : ~Freezing(n) BY <1>2 DEF Freezing
<1>4. files[Active] = NoFile /\ \A n \in Names : files[n] = NoFile
  BY PathsAre DEF Init
<1>5. Seen = Nowhere BY <1>1, <1>3, <1>4, NothingLeft DEF Seen, Viewed, Standing
<1> QED BY <1>5 DEF Tree!Init, Nowhere

(* What is seen changes as a step of SnapshotTree changes it. *)
LEMMA TreeMoves ==
    ASSUME Seen \in View, Seen' \in View, ViewStep(Seen, Seen') \/ Discards(Seen, Seen')
    PROVE  [Tree!Next]_<<Seen.disk, Seen.snaps, Seen.orphans>>
<1>1. PICK u, v : u = Seen /\ v = Seen' OBVIOUS
<1>2. /\ u.disk = Seen.disk /\ u.snaps = Seen.snaps /\ u.orphans = Seen.orphans
      /\ v.disk = (Seen.disk)' /\ v.snaps = (Seen.snaps)' /\ v.orphans = (Seen.orphans)'
  BY <1>1
<1>3. v.snaps \in [Names -> Contents \cup {Nothing}] /\ v.disk \in Contents \cup {Nothing}
  BY <1>1 DEF View
<1>4. CASE u = v BY <1>2, <1>4
<1>5. CASE v.disk \in Contents /\ SameSnaps(u, v)
  BY <1>2, <1>5 DEF SameSnaps, Tree!Next, Tree!Make, Tree!Write
<1>6. CASE u.disk # Nothing /\ v.disk = Nothing /\ SameSnaps(u, v)
  BY <1>2, <1>6 DEF SameSnaps, Tree!Next, Tree!Delete
<1>7. ASSUME NEW n \in Names, Takes(u, v, n), v.disk \in {u.disk, Nothing}
      PROVE  Tree!Next
  <2>1. Tree!Taken(n) BY <1>2, <1>3, <1>7 DEF Takes, Tree!Taken
  <2>2. CASE v.disk = u.disk BY <1>2, <2>1, <2>2 DEF Tree!Next, Tree!Snapshot
  <2>3. CASE v.disk = Nothing BY <1>2, <2>1, <2>3 DEF Tree!Next, Tree!Strand
  <2> QED BY <1>7, <2>2, <2>3
<1>8. ASSUME NEW n \in Names, u.disk # Nothing, u.snaps[n] # Nothing,
             v.disk = u.snaps[n], SameSnaps(u, v)
      PROVE  Tree!Next
  BY <1>2, <1>8 DEF SameSnaps, Tree!Next, Tree!Revert
<1>9. ASSUME NEW n \in Names, Drops(u, v, n) PROVE Tree!Next
  BY <1>2, <1>9 DEF Drops, Tree!Next, Tree!DeleteSnapshot
<1>10. CASE Discards(u, v)
  BY <1>2, <1>3, <1>10 DEF Discards, Tree!Next, Tree!Discard
<1> QED BY <1>1, <1>4, <1>5, <1>6, <1>7, <1>8, <1>9, <1>10, Zenon DEF ViewStep

LEMMA TreeStep ==
    ASSUME OneProcess, KInv, KInv', NInv, [Next]_vars
    PROVE  [Tree!Next]_<<Seen.disk, Seen.snaps, Seen.orphans>>
<1>0. PICK x : Procs = {x} BY DEF OneProcess
<1>1. /\ Seen = SeenIn(files, proc[x]) /\ Seen \in View
      /\ Seen' = SeenIn(files', proc'[x]) /\ Seen' \in View
  BY <1>0, SeenNow, SeenNext
<1>2. CASE UNCHANGED vars
  <2>1. Seen' = Seen BY <1>1, <1>2 DEF vars
  <2> QED BY <2>1
<1>3. CASE Next
  <2>1. Proceeds(x) BY <1>0, <1>3, StepN
  <2>2. ViewStep(Seen, Seen') \/ Discards(Seen, Seen') BY <1>1, <2>1 DEF Proceeds
  <2> QED BY <1>1, <2>2, TreeMoves
<1> QED BY <1>2, <1>3

(***************************************************************************)
(* With one process at a time, wherever it fails or is killed, the files   *)
(* of the store implement the snapshot tree that the user is promised.     *)
(***************************************************************************)
THEOREM StoreImplementsTree ==
    ASSUME OneProcess
    PROVE  Spec => ImplementsTree
<1>1. KInv /\ KInv' /\ NInv /\ [Next]_vars =>
        [Tree!Next]_<<Seen.disk, Seen.snaps, Seen.orphans>>
  BY TreeStep
<1>2. Spec => Init /\ [][Next]_vars BY DEF Spec
<1>3. Tree!Init /\ [][Tree!Next]_<<Seen.disk, Seen.snaps, Seen.orphans>> => ImplementsTree
  BY DEF ImplementsTree, Tree!Spec, Tree!vars
<1> QED BY <1>1, <1>2, <1>3, TreeInit, BothInvariants, PTL
=============================================================================
