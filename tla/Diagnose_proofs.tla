-------------------------- MODULE Diagnose_proofs --------------------------
(***************************************************************************)
(* Proofs about Diagnose: for any home, any command line and however the   *)
(* engine changes the home meanwhile, no log goes missing and an excerpt   *)
(* is the end of its log; exit code 0 means a complete report or bundle;   *)
(* nothing that the filter looks for is left in what it returned, and of   *)
(* the config files nothing else is missing.                               *)
(***************************************************************************)
EXTENDS Diagnose, TLAPS, SequenceTheorems, FiniteSetTheorems, WellFoundedInduction

(***************************************************************************)
(* Induction over a number is by the smallest counterexample.              *)
(***************************************************************************)
LEMMA Smallest ==
    ASSUME NEW T, T \subseteq Nat, T # {}
    PROVE  \E n \in T : \A m \in T : ~(m < n)
<1>1. \E n \in T : \A m \in T : ~(<<m, n>> \in OpToRel(<, Nat))
  BY NatLessThanWellFounded, WFMin
<1> QED
  BY <1>1 DEF OpToRel

LEMMA MinIn ==
    ASSUME NEW I, I \subseteq Nat, I # {}
    PROVE  Min(I) \in I /\ \A m \in I : Min(I) <= m
<1>1. PICK n \in I : \A m \in I : ~(m < n) BY Smallest
<1>2. \A m \in I : n <= m BY <1>1
<1> QED BY <1>1, <1>2 DEF Min

-----------------------------------------------------------------------------
(***************************************************************************)
(* What Among keeps of a sequence, element by element.                     *)
(***************************************************************************)
Keeps(seq, S, K, f) ==
    f = [n \in 0 .. K |->
            IF n = 0 THEN <<>>
            ELSE IF seq[n] \in S THEN Append(f[n - 1], seq[n]) ELSE f[n - 1]]

LEMMA KeepsExists ==
    ASSUME NEW seq, NEW S, NEW K \in Nat
    PROVE  \E f : Keeps(seq, S, K, f)
<1> DEFINE T == {k \in Nat : ~ \E f : Keeps(seq, S, k, f)}
<1> SUFFICES ASSUME T # {} PROVE FALSE OBVIOUS
<1>1. PICK k \in T : \A m \in T : ~(m < k) BY Smallest
<1>2. k # 0
  <2>1. Keeps(seq, S, 0, [n \in 0 .. 0 |-> <<>>]) BY DEF Keeps
  <2> QED BY <2>1
<1>3. PICK f : Keeps(seq, S, k - 1, f)
  <2>1. k - 1 \in Nat /\ k - 1 < k BY <1>2
  <2> QED BY <1>1, <2>1
<1> DEFINE Rest(h, n) == IF n = 0 THEN <<>>
                         ELSE IF seq[n] \in S THEN Append(h[n - 1], seq[n]) ELSE h[n - 1]
           g == [n \in 0 .. k |-> Rest(f, n)]
<1>4. f = [n \in 0 .. k - 1 |-> Rest(f, n)] BY <1>3 DEF Keeps
<1>5. ASSUME NEW n \in 0 .. k - 1 PROVE g[n] = f[n]
  <2> HIDE DEF Rest
  <2>1. n \in 0 .. k OBVIOUS
  <2>2. g[n] = Rest(f, n) BY <2>1
  <2>3. f[n] = Rest(f, n) BY <1>4
  <2> QED BY <2>2, <2>3
<1>6. ASSUME NEW n \in 0 .. k PROVE Rest(f, n) = Rest(g, n)
  <2> HIDE DEF g
  <2>1. CASE n = 0 BY <2>1
  <2>2. CASE n # 0
    <3>1. n - 1 \in 0 .. k - 1 BY <2>2
    <3>2. f[n - 1] = g[n - 1] BY <1>5, <3>1
    <3> QED BY <3>2
  <2> QED BY <2>1, <2>2
<1>7. Keeps(seq, S, k, g)
  <2>1. g = [n \in 0 .. k |-> Rest(g, n)]
    <3> HIDE DEF Rest
    <3>1. g = [n \in 0 .. k |-> Rest(f, n)] OBVIOUS
    <3> HIDE DEF g
    <3> QED BY <1>6, <3>1
  <2> QED BY <2>1 DEF Keeps
<1> QED BY <1>1, <1>7

LEMMA AmongSteps ==
    ASSUME NEW seq, NEW S, NEW K \in Nat, K = Len(seq)
    PROVE  \E f : /\ Among(seq, S) = f[K]
                  /\ f[0] = <<>>
                  /\ \A n \in 1 .. K :
                       f[n] = IF seq[n] \in S THEN Append(f[n - 1], seq[n]) ELSE f[n - 1]
<1> DEFINE f == CHOOSE h : Keeps(seq, S, K, h)
<1>1. Keeps(seq, S, K, f) BY KeepsExists
<1>2. Among(seq, S) = f[K]
  BY DEF Among, Keeps
<1> HIDE DEF f
<1>3. f[0] = <<>> BY <1>1 DEF Keeps
<1>4. ASSUME NEW n \in 1 .. K
      PROVE  f[n] = IF seq[n] \in S THEN Append(f[n - 1], seq[n]) ELSE f[n - 1]
  <2>1. n \in 0 .. K /\ n # 0 OBVIOUS
  <2> QED BY <1>1, <2>1 DEF Keeps
<1> QED BY <1>2, <1>3, <1>4

(* It keeps members of the sequence that are in the set, each once. *)
LEMMA AmongFacts ==
    ASSUME NEW R, NEW seq \in Seq(R), NEW S, IsInjective(seq)
    PROVE  /\ Among(seq, S) \in Seq(R \cap S)
           /\ IsInjective(Among(seq, S))
<1> DEFINE K == Len(seq)
<1>0. K \in Nat OBVIOUS
<1>1. PICK f : /\ Among(seq, S) = f[K]
               /\ f[0] = <<>>
               /\ \A n \in 1 .. K :
                    f[n] = IF seq[n] \in S THEN Append(f[n - 1], seq[n]) ELSE f[n - 1]
  BY <1>0, AmongSteps
<1> DEFINE Good(n) == /\ f[n] \in Seq(R \cap S)
                      /\ IsInjective(f[n])
                      /\ \A i \in DOMAIN f[n] : \E j \in 1 .. n : f[n][i] = seq[j]
           T == {n \in 0 .. K : ~Good(n)}
<1>2. T = {}
  <2> SUFFICES ASSUME T # {} PROVE FALSE OBVIOUS
  <2>0. T \subseteq Nat OBVIOUS
  <2>1. PICK n \in T : \A m \in T : ~(m < n) BY <2>0, Smallest
  <2>2. n # 0
    <3>1. Good(0) BY <1>1 DEF IsInjective
    <3> QED BY <3>1
  <2>3. n \in 1 .. K /\ n - 1 \in 0 .. K /\ n - 1 \in Nat /\ n - 1 < n BY <1>0, <2>2
  <2>4. Good(n - 1) BY <2>1, <2>3
  <2>5. seq[n] \in R BY <2>3
  <2>6. f[n] = IF seq[n] \in S THEN Append(f[n - 1], seq[n]) ELSE f[n - 1] BY <1>1, <2>3
  <2> DEFINE p == f[n - 1]
             q == f[n]
  <2>7. p \in Seq(R \cap S) /\ IsInjective(p)
        /\ \A i \in DOMAIN p : \E j \in 1 .. n - 1 : p[i] = seq[j]
    BY <2>4
  <2>8. q = IF seq[n] \in S THEN Append(p, seq[n]) ELSE p BY <2>6
  <2> HIDE DEF p, q
  <2>9. q \in Seq(R \cap S) BY <2>5, <2>7, <2>8
  <2>10. \A j \in 1 .. n - 1 : seq[j] # seq[n]
    BY <1>0, <2>3 DEF IsInjective
  <2>11. \A i \in DOMAIN p : p[i] # seq[n]
    BY <2>7, <2>10
  <2>12. IsInjective(q) /\ \A i \in DOMAIN q : \E j \in 1 .. n : q[i] = seq[j]
    <3>1. CASE seq[n] \notin S
      <4>1. q = p BY <2>8, <3>1
      <4>2. \A j \in 1 .. n - 1 : j \in 1 .. n BY <2>3
      <4> QED BY <2>7, <4>1, <4>2
    <3>2. CASE seq[n] \in S
      <4>1. q = Append(p, seq[n]) BY <2>8, <3>2
      <4>2. DOMAIN q = 1 .. Len(p) + 1 /\ Len(p) \in Nat /\ DOMAIN p = 1 .. Len(p)
        BY <2>5, <2>7, <3>2, <4>1
      <4>3. q[Len(p) + 1] = seq[n] /\ \A i \in 1 .. Len(p) : q[i] = p[i]
        BY <2>5, <2>7, <3>2, <4>1
      <4>4. ASSUME NEW i \in DOMAIN q, NEW j \in DOMAIN q, q[i] = q[j] PROVE i = j
        <5>1. CASE i = Len(p) + 1 /\ j = Len(p) + 1 BY <5>1
        <5>2. CASE i \in 1 .. Len(p) /\ j = Len(p) + 1 BY <2>11, <4>2, <4>3, <4>4, <5>2
        <5>3. CASE j \in 1 .. Len(p) /\ i = Len(p) + 1 BY <2>11, <4>2, <4>3, <4>4, <5>3
        <5>4. CASE i \in 1 .. Len(p) /\ j \in 1 .. Len(p)
          BY <2>7, <4>2, <4>3, <4>4, <5>4 DEF IsInjective
        <5> QED BY <4>2, <5>1, <5>2, <5>3, <5>4
      <4>5. IsInjective(q) BY <4>4 DEF IsInjective
      <4>6. ASSUME NEW i \in DOMAIN q PROVE \E j \in 1 .. n : q[i] = seq[j]
        <5>1. CASE i = Len(p) + 1
          <6>1. n \in 1 .. n BY <2>3
          <6> QED BY <4>3, <5>1, <6>1
        <5>2. CASE i \in 1 .. Len(p)
          <6>1. PICK j \in 1 .. n - 1 : p[i] = seq[j] BY <2>7, <4>2, <5>2
          <6>2. j \in 1 .. n BY <2>3
          <6> QED BY <4>3, <5>2, <6>1, <6>2
        <5> QED BY <4>2, <5>1, <5>2
      <4> QED BY <4>5, <4>6
    <3> QED BY <3>1, <3>2
  <2>13. Good(n) BY <2>9, <2>12 DEF q
  <2> QED BY <2>1, <2>13
<1>3. Good(K) BY <1>0, <1>2
<1> QED BY <1>1, <1>3

(* Of a sequence without repetitions, one member is what is left of it alone. *)
LEMMA AmongOne ==
    ASSUME NEW R, NEW seq \in Seq(R), IsInjective(seq), NEW k \in 1 .. Len(seq)
    PROVE  Among(seq, {seq[k]}) = <<seq[k]>>
<1> DEFINE K == Len(seq)
           x == seq[k]
<1>0. K \in Nat /\ k \in 1 .. K OBVIOUS
<1>1. PICK f : /\ Among(seq, {x}) = f[K]
               /\ f[0] = <<>>
               /\ \A n \in 1 .. K :
                    f[n] = IF seq[n] \in {x} THEN Append(f[n - 1], seq[n]) ELSE f[n - 1]
  BY <1>0, AmongSteps
<1>2. \A n \in 1 .. K : seq[n] = x <=> n = k BY DEF IsInjective
<1> DEFINE T == {n \in 0 .. K : f[n] # IF n < k THEN <<>> ELSE <<x>>}
<1>3. T = {}
  <2> SUFFICES ASSUME T # {} PROVE FALSE OBVIOUS
  <2>0. T \subseteq Nat OBVIOUS
  <2>1. PICK n \in T : \A m \in T : ~(m < n) BY <2>0, Smallest
  <2> HIDE DEF x
  <2>2. n # 0 BY <1>0, <1>1
  <2>3. n \in 1 .. K /\ n - 1 \in 0 .. K /\ n - 1 < n BY <1>0, <2>2
  <2>4. f[n - 1] = IF n - 1 < k THEN <<>> ELSE <<x>> BY <2>1, <2>3
  <2>5. f[n] = IF n = k THEN Append(f[n - 1], x) ELSE f[n - 1] BY <1>1, <1>2, <2>3
  <2>6. CASE n = k
    <3>1. f[n - 1] = <<>> BY <1>0, <2>3, <2>4, <2>6
    <3>2. f[n] = <<x>> BY <2>5, <2>6, <3>1
    <3> QED BY <1>0, <2>6, <3>2
  <2>7. CASE n # k
    <3>1. (n - 1 < k) <=> (n < k) BY <1>0, <2>3, <2>7
    <3> QED BY <2>4, <2>5, <2>7, <3>1
  <2> QED BY <2>6, <2>7
<1>4. f[K] = <<x>>
  <2>1. K \in 0 .. K /\ ~(K < k) BY <1>0
  <2> QED BY <1>3, <2>1
<1> QED BY <1>1, <1>4
-----------------------------------------------------------------------------
(***************************************************************************)
(* The options, word by word.                                              *)
(***************************************************************************)
Options == [vm : STRING, output : STRING, home : STRING, ends : {NoExit, 0, 2},
            waits : STRING]

LEMMA TakeTyped ==
    ASSUME NEW o \in Options, NEW w \in STRING
    PROVE  TakeArgument(o, w) \in Options
<1>1. "" \in STRING BY PrintedAssumption DEF Printed
<1> QED BY <1>1 DEF TakeArgument, Options, NoExit, Valued

Takes(words, K, f) ==
    f = [n \in 0 .. K |-> IF n = 0 THEN Defaults ELSE TakeArgument(f[n - 1], words[n])]

LEMMA TakesExists ==
    ASSUME NEW words, NEW K \in Nat
    PROVE  \E f : Takes(words, K, f)
<1> DEFINE T == {k \in Nat : ~ \E f : Takes(words, k, f)}
<1> SUFFICES ASSUME T # {} PROVE FALSE OBVIOUS
<1>1. PICK k \in T : \A m \in T : ~(m < k) BY Smallest
<1>2. k # 0
  <2>1. Takes(words, 0, [n \in 0 .. 0 |-> Defaults]) BY DEF Takes
  <2> QED BY <2>1
<1>3. PICK f : Takes(words, k - 1, f)
  <2>1. k - 1 \in Nat /\ k - 1 < k BY <1>2
  <2> QED BY <1>1, <2>1
<1> DEFINE Rest(h, n) == IF n = 0 THEN Defaults ELSE TakeArgument(h[n - 1], words[n])
           g == [n \in 0 .. k |-> Rest(f, n)]
<1>4. f = [n \in 0 .. k - 1 |-> Rest(f, n)] BY <1>3 DEF Takes
<1>5. ASSUME NEW n \in 0 .. k - 1 PROVE g[n] = f[n]
  <2> HIDE DEF Rest
  <2>1. n \in 0 .. k OBVIOUS
  <2>2. g[n] = Rest(f, n) BY <2>1
  <2>3. f[n] = Rest(f, n) BY <1>4
  <2> QED BY <2>2, <2>3
<1>6. ASSUME NEW n \in 0 .. k PROVE Rest(f, n) = Rest(g, n)
  <2> HIDE DEF g
  <2>1. CASE n = 0 BY <2>1
  <2>2. CASE n # 0
    <3>1. n - 1 \in 0 .. k - 1 BY <2>2
    <3>2. f[n - 1] = g[n - 1] BY <1>5, <3>1
    <3> QED BY <3>2
  <2> QED BY <2>1, <2>2
<1>7. Takes(words, k, g)
  <2>1. g = [n \in 0 .. k |-> Rest(g, n)]
    <3> HIDE DEF Rest
    <3>1. g = [n \in 0 .. k |-> Rest(f, n)] OBVIOUS
    <3> HIDE DEF g
    <3> QED BY <1>6, <3>1
  <2> QED BY <2>1 DEF Takes
<1> QED BY <1>1, <1>7

LEMMA ArgumentsTyped ==
    ASSUME NEW words \in Seq(STRING)
    PROVE  /\ ParseArguments(words) \in Options
           /\ ParseArguments(words).ends = NoExit => ParseArguments(words).waits = ""
<1> DEFINE K == Len(words)
           f == CHOOSE h : Takes(words, K, h)
           o == ArgumentsAfter(words)[K]
<1>0. K \in Nat OBVIOUS
<1>1. Takes(words, K, f) BY <1>0, TakesExists
<1>2. ArgumentsAfter(words) = f BY DEF ArgumentsAfter, Takes
<1> HIDE DEF f
<1> DEFINE T == {n \in 0 .. K : f[n] \notin Options}
<1>3. T = {}
  <2> SUFFICES ASSUME T # {} PROVE FALSE OBVIOUS
  <2>0. T \subseteq Nat OBVIOUS
  <2>1. PICK n \in T : \A m \in T : ~(m < n) BY <2>0, Smallest
  <2>2. n # 0
    <3>1. f[0] = Defaults BY <1>0, <1>1 DEF Takes
    <3>2. Defaults \in Options BY PrintedAssumption DEF Defaults, Options, Printed
    <3> QED BY <3>1, <3>2
  <2>3. n \in 1 .. K /\ n - 1 \in 0 .. K /\ n - 1 < n BY <1>0, <2>2
  <2>4. f[n - 1] \in Options BY <2>1, <2>3
  <2>5. f[n] = TakeArgument(f[n - 1], words[n]) BY <1>1, <2>2 DEF Takes
  <2>6. words[n] \in STRING BY <2>3
  <2> QED BY <2>4, <2>5, <2>6, TakeTyped
<1>4. o \in Options BY <1>0, <1>2, <1>3
<1>5. ParseArguments(words) =
        IF o.ends = NoExit /\ o.waits # "" THEN [o EXCEPT !.ends = 2] ELSE o
  BY DEF ParseArguments
<1> HIDE DEF o
<1>6. NoExit # 2 BY DEF NoExit
<1>7. PICK q : q = ParseArguments(words) OBVIOUS
<1>8. CASE o.ends = NoExit /\ o.waits # ""
  <2>1. q = [o EXCEPT !.ends = 2] BY <1>5, <1>7, <1>8
  <2>2. q \in Options /\ q.ends = 2 BY <1>4, <2>1 DEF Options
  <2> QED BY <1>6, <1>7, <2>2
<1>9. CASE ~(o.ends = NoExit /\ o.waits # "")
  <2>1. q = o BY <1>5, <1>7, <1>9
  <2> QED BY <1>4, <1>7, <1>9, <2>1
<1> QED BY <1>8, <1>9

-----------------------------------------------------------------------------
(***************************************************************************)
(* The lines of a text: LinesOf satisfies its equation.                    *)
(***************************************************************************)
LEMMA LineEndFacts ==
    ASSUME NEW t \in Text
    PROVE  /\ LineEnd(t) \in 0 .. Len(t)
           /\ LineEnd(t) = 0 => \A i \in 1 .. Len(t) : t[i] # "n"
           /\ LineEnd(t) # 0 => /\ t[LineEnd(t)] = "n"
                                /\ \A i \in 1 .. LineEnd(t) - 1 : t[i] # "n"
<1> DEFINE I == {i \in 1 .. Len(t) : t[i] = "n"}
<1>0. Len(t) \in Nat BY DEF Text
<1>1. LineEnd(t) = IF I # {} THEN Min(I) ELSE 0 BY DEF LineEnd, SelectInSeq
<1>2. CASE I = {} BY <1>0, <1>1, <1>2
<1>3. CASE I # {}
  <2>1. I \subseteq Nat BY <1>0
  <2>4. Min(I) \in I /\ \A m \in I : Min(I) <= m BY <1>3, <2>1, MinIn
  <2>5. PICK e : e = LineEnd(t) OBVIOUS
  <2>6. e \in I /\ \A m \in I : e <= m BY <1>1, <1>3, <2>4, <2>5
  <2>7. e \in 1 .. Len(t) /\ t[e] = "n" BY <2>6
  <2>8. ASSUME NEW i \in 1 .. e - 1 PROVE t[i] # "n"
    <3>1. i \in 1 .. Len(t) /\ i < e BY <1>0, <2>7
    <3> QED BY <2>6, <2>7, <3>1
  <2> QED BY <1>0, <2>5, <2>7, <2>8
<1> QED BY <1>2, <1>3

Short(K) == {t \in Text : Len(t) <= K}
After(t) == SubSeq(t, LineEnd(t) + 1, Len(t))
Split(t, f) ==
    IF t = <<>> THEN <<>>
    ELSE IF LineEnd(t) = 0 THEN <<t>>
    ELSE <<SubSeq(t, 1, LineEnd(t) - 1)>> \o f[After(t)]

LEMMA AfterFacts ==
    ASSUME NEW t \in Text, LineEnd(t) # 0
    PROVE  /\ After(t) \in Text /\ Len(After(t)) \in Nat
           /\ Len(After(t)) = Len(t) - LineEnd(t)
           /\ \A i \in 1 .. Len(After(t)) : After(t)[i] = t[LineEnd(t) + i]
           /\ SubSeq(t, 1, LineEnd(t) - 1) \in Text
           /\ Len(SubSeq(t, 1, LineEnd(t) - 1)) = LineEnd(t) - 1
           /\ \A i \in 1 .. LineEnd(t) - 1 : SubSeq(t, 1, LineEnd(t) - 1)[i] = t[i]
<1>1. LineEnd(t) \in 1 .. Len(t) /\ Len(t) \in Nat /\ t \in Seq(STRING) BY LineEndFacts DEF Text
<1>2. PICK e, a, b : e = LineEnd(t) /\ a = After(t) /\ b = SubSeq(t, 1, e - 1) OBVIOUS
<1>3. a = SubSeq(t, e + 1, Len(t)) /\ e \in 1 .. Len(t) BY <1>1, <1>2 DEF After
<1>4. /\ a \in Seq(STRING) /\ Len(a) = Len(t) - e
      /\ \A i \in 1 .. Len(a) : a[i] = t[e + i]
  BY <1>1, <1>3
<1>5. Len(a) \in Nat BY <1>4
<1>6. b \in Seq(STRING) /\ Len(b) = e - 1 /\ \A i \in 1 .. e - 1 : b[i] = t[i]
  BY <1>1, <1>2, <1>3
<1> QED BY <1>2, <1>4, <1>5, <1>6 DEF Text

SplitsUpTo(K, f) == f = [t \in Short(K) |-> Split(t, f)]

LEMMA SplitsAgree ==
    ASSUME NEW K \in Nat, NEW L \in Nat, NEW f, NEW g,
           SplitsUpTo(K, f), SplitsUpTo(L, g), NEW t \in Short(K), t \in Short(L)
    PROVE  f[t] = g[t]
<1> DEFINE T == {n \in Nat : \E u \in Text : Len(u) = n /\ u \in Short(K) /\ u \in Short(L)
                                             /\ f[u] # g[u]}
<1>1. T = {}
  <2> SUFFICES ASSUME T # {} PROVE FALSE OBVIOUS
  <2>1. PICK n \in T : \A m \in T : ~(m < n) BY Smallest
  <2>2. PICK u \in Text : Len(u) = n /\ u \in Short(K) /\ u \in Short(L) /\ f[u] # g[u]
    BY <2>1
  <2>3. f[u] = Split(u, f) /\ g[u] = Split(u, g) BY <2>2 DEF SplitsUpTo
  <2>4. u # <<>> /\ LineEnd(u) # 0 BY <2>2, <2>3 DEF Split
  <2>5. /\ After(u) \in Text /\ Len(After(u)) \in Nat /\ Len(After(u)) < n
        /\ Len(After(u)) <= K /\ Len(After(u)) <= L
    <3>1. Len(u) \in Nat /\ n <= K /\ n <= L BY <2>2 DEF Short, Text
    <3>2. LineEnd(u) \in 1 .. Len(u) BY <2>2, <2>4, LineEndFacts
    <3>3. After(u) \in Text /\ Len(After(u)) \in Nat /\ Len(After(u)) = Len(u) - LineEnd(u)
      BY <2>2, <2>4, AfterFacts
    <3> QED BY <2>2, <3>1, <3>2, <3>3
  <2>6. f[After(u)] = g[After(u)] BY <2>1, <2>5 DEF Short
  <2> QED BY <2>2, <2>3, <2>6 DEF Split
<1>2. t \in Text /\ Len(t) \in Nat BY DEF Short, Text
<1> QED BY <1>1, <1>2

LEMMA SplitsExist ==
    ASSUME NEW K \in Nat
    PROVE  \E f : SplitsUpTo(K, f)
<1> DEFINE T == {k \in Nat : ~ \E f : SplitsUpTo(k, f)}
<1> SUFFICES ASSUME T # {} PROVE FALSE OBVIOUS
<1>1. PICK k \in T : \A m \in T : ~(m < k) BY Smallest
<1>2. k # 0
  <2> DEFINE f == [t \in Short(0) |-> <<>>]
  <2>1. \A t \in Short(0) : t = <<>> BY DEF Short, Text
  <2>2. SplitsUpTo(0, f) BY <2>1 DEF SplitsUpTo, Split
  <2> QED BY <2>2
<1>3. PICK f : SplitsUpTo(k - 1, f)
  <2>1. k - 1 \in Nat /\ k - 1 < k BY <1>2
  <2> QED BY <1>1, <2>1
<1> DEFINE g == [t \in Short(k) |-> Split(t, f)]
<1>5. ASSUME NEW t \in Short(k - 1) PROVE g[t] = f[t]
  <2>1. t \in Short(k) BY <1>2 DEF Short, Text
  <2> QED BY <1>3, <2>1 DEF SplitsUpTo
<1>6. ASSUME NEW t \in Short(k) PROVE Split(t, f) = Split(t, g)
  <2> HIDE DEF g
  <2>1. CASE t = <<>> \/ LineEnd(t) = 0 BY <2>1 DEF Split
  <2>2. CASE LineEnd(t) # 0
    <3>1. t \in Text /\ Len(t) <= k BY DEF Short
    <3>2. After(t) \in Short(k - 1) BY <2>2, <3>1, AfterFacts, LineEndFacts DEF Short
    <3>3. g[After(t)] = f[After(t)] BY <1>5, <3>2
    <3> QED BY <3>3 DEF Split
  <2> QED BY <2>1, <2>2
<1>7. SplitsUpTo(k, g)
  <2>1. g = [t \in Short(k) |-> Split(t, f)] OBVIOUS
  <2> HIDE DEF g
  <2> QED BY <1>6, <2>1 DEF SplitsUpTo
<1> QED BY <1>1, <1>7

LEMMA LinesEquation ==
    ASSUME NEW t \in Text
    PROVE  Lines(t) = Split(t, LinesOf)
<1> DEFINE Some(n) == CHOOSE f : SplitsUpTo(n, f)
           G == [u \in Text |-> Some(Len(u))[u]]
<1>1. \A n \in Nat : SplitsUpTo(n, Some(n)) BY SplitsExist
<1> HIDE DEF Some
<1>2. ASSUME NEW u \in Text PROVE G[u] = Split(u, G)
  <2>1. Len(u) \in Nat /\ u \in Short(Len(u)) BY DEF Text, Short
  <2>2. G[u] = Some(Len(u))[u] OBVIOUS
  <2>3. Some(Len(u))[u] = Split(u, Some(Len(u))) BY <1>1, <2>1 DEF SplitsUpTo
  <2>4. CASE u = <<>> \/ LineEnd(u) = 0 BY <2>2, <2>3, <2>4 DEF Split
  <2>5. CASE LineEnd(u) # 0
    <3>1. After(u) \in Text /\ Len(After(u)) \in Nat /\ Len(After(u)) < Len(u)
      BY <2>1, <2>5, AfterFacts, LineEndFacts
    <3>2. G[After(u)] = Some(Len(After(u)))[After(u)] BY <3>1
    <3>3. Some(Len(After(u)))[After(u)] = Some(Len(u))[After(u)]
      <4>1. After(u) \in Short(Len(u)) /\ After(u) \in Short(Len(After(u)))
        BY <2>1, <3>1 DEF Short
      <4>2. SplitsUpTo(Len(u), Some(Len(u)))
            /\ SplitsUpTo(Len(After(u)), Some(Len(After(u))))
        BY <1>1, <2>1, <3>1
      <4> QED BY <2>1, <3>1, <4>1, <4>2, SplitsAgree
    <3> HIDE DEF G
    <3> QED BY <2>2, <2>3, <3>2, <3>3 DEF Split
  <2> QED BY <2>4, <2>5
<1>3. G = [u \in Text |-> Split(u, G)]
  <2>1. DOMAIN G = Text /\ G = [u \in Text |-> G[u]] OBVIOUS
  <2> HIDE DEF G
  <2> QED BY <1>2, <2>1
<1> HIDE DEF G
<1>4. LinesOf = [u \in Text |-> Split(u, LinesOf)]
  <2> DEFINE H == CHOOSE f : f = [u \in Text |-> Split(u, f)]
  <2>1. H = [u \in Text |-> Split(u, H)] BY <1>3
  <2>2. LinesOf = H BY DEF LinesOf, Split, After
  <2> HIDE DEF H
  <2> QED BY <2>1, <2>2
<1> QED BY <1>4 DEF Lines
(* Lines are texts without a line end, and only an empty text has none. *)
Line == {l \in Text : \A i \in 1 .. Len(l) : l[i] # "n"}

LEMMA FirstIsLine ==
    ASSUME NEW t \in Text, LineEnd(t) # 0
    PROVE  SubSeq(t, 1, LineEnd(t) - 1) \in Line
<1>1. PICK l : l = SubSeq(t, 1, LineEnd(t) - 1) OBVIOUS
<1>2. l \in Text /\ Len(l) = LineEnd(t) - 1 /\ \A i \in 1 .. LineEnd(t) - 1 : l[i] = t[i]
  BY <1>1, AfterFacts
<1>3. \A i \in 1 .. Len(l) : l[i] # "n" BY <1>2, LineEndFacts
<1> QED BY <1>1, <1>2, <1>3 DEF Line

LEMMA LinesTyped ==
    ASSUME NEW t \in Text
    PROVE  Lines(t) \in Seq(Line) /\ (t # <<>> => Lines(t) # <<>>)
<1> DEFINE T == {n \in Nat : \E u \in Text : Len(u) = n /\ Lines(u) \notin Seq(Line)}
<1>1. T = {}
  <2> SUFFICES ASSUME T # {} PROVE FALSE OBVIOUS
  <2>1. PICK n \in T : \A m \in T : ~(m < n) BY Smallest
  <2>2. PICK u \in Text : Len(u) = n /\ Lines(u) \notin Seq(Line) BY <2>1
  <2>3. Lines(u) = Split(u, LinesOf) BY LinesEquation
  <2>4. CASE u = <<>> BY <2>2, <2>3, <2>4 DEF Split
  <2>5. CASE u # <<>> /\ LineEnd(u) = 0
    <3>1. u \in Line BY <2>5, LineEndFacts DEF Line
    <3>2. Lines(u) = <<u>> BY <2>3, <2>5 DEF Split
    <3> QED BY <2>2, <3>1, <3>2
  <2>6. CASE u # <<>> /\ LineEnd(u) # 0
    <3>1. Lines(u) = <<SubSeq(u, 1, LineEnd(u) - 1)>> \o Lines(After(u))
      BY <2>3, <2>6 DEF Split, Lines
    <3>2. After(u) \in Text /\ Len(After(u)) \in Nat /\ Len(After(u)) < n
      BY <2>2, <2>6, AfterFacts, LineEndFacts
    <3>3. Lines(After(u)) \in Seq(Line) BY <2>1, <3>2
    <3>4. SubSeq(u, 1, LineEnd(u) - 1) \in Line BY <2>6, FirstIsLine
    <3> QED BY <2>2, <3>1, <3>3, <3>4
  <2> QED BY <2>4, <2>5, <2>6
<1>2. Len(t) \in Nat BY DEF Text
<1>3. Lines(t) \in Seq(Line) BY <1>1, <1>2
<1>4. ASSUME t # <<>> PROVE Lines(t) # <<>>
  <2>1. Lines(t) = Split(t, LinesOf) BY LinesEquation
  <2>2. CASE LineEnd(t) = 0 BY <1>4, <2>1, <2>2 DEF Split
  <2>3. CASE LineEnd(t) # 0
    <3>1. Lines(t) = <<SubSeq(t, 1, LineEnd(t) - 1)>> \o Lines(After(t))
      BY <1>4, <2>1, <2>3 DEF Split, Lines
    <3>2. Lines(After(t)) \in Seq(Line) BY <1>1, <2>3, AfterFacts
    <3>3. SubSeq(t, 1, LineEnd(t) - 1) \in Line BY <2>3, FirstIsLine
    <3> QED BY <3>1, <3>2, <3>3
  <2> QED BY <2>2, <2>3
<1> QED BY <1>3, <1>4

-----------------------------------------------------------------------------
(***************************************************************************)
(* FlattenSeq, sequence by sequence.                                       *)
(***************************************************************************)
Flattens(ss, K, f) ==
    f = [n \in 1 .. K |-> IF n = 1 THEN ss[n] ELSE f[n - 1] \o ss[n]]

LEMMA FlattensExists ==
    ASSUME NEW ss, NEW K \in Nat
    PROVE  \E f : Flattens(ss, K, f)
<1> DEFINE T == {k \in Nat : ~ \E f : Flattens(ss, k, f)}
<1> SUFFICES ASSUME T # {} PROVE FALSE OBVIOUS
<1>1. PICK k \in T : \A m \in T : ~(m < k) BY Smallest
<1>2. k # 0
  <2>1. Flattens(ss, 0, [n \in 1 .. 0 |-> <<>>]) BY DEF Flattens
  <2> QED BY <2>1
<1>3. PICK f : Flattens(ss, k - 1, f)
  <2>1. k - 1 \in Nat /\ k - 1 < k BY <1>2
  <2> QED BY <1>1, <2>1
<1> DEFINE Rest(h, n) == IF n = 1 THEN ss[n] ELSE h[n - 1] \o ss[n]
           g == [n \in 1 .. k |-> Rest(f, n)]
<1>4. f = [n \in 1 .. k - 1 |-> Rest(f, n)] BY <1>3 DEF Flattens
<1>5. ASSUME NEW n \in 1 .. k - 1 PROVE g[n] = f[n]
  <2> HIDE DEF Rest
  <2>1. n \in 1 .. k OBVIOUS
  <2>2. g[n] = Rest(f, n) BY <2>1
  <2>3. f[n] = Rest(f, n) BY <1>4
  <2> QED BY <2>2, <2>3
<1>6. ASSUME NEW n \in 1 .. k PROVE Rest(f, n) = Rest(g, n)
  <2> HIDE DEF g
  <2>1. CASE n = 1 BY <2>1
  <2>2. CASE n # 1
    <3>1. n - 1 \in 1 .. k - 1 BY <2>2
    <3>2. f[n - 1] = g[n - 1] BY <1>5, <3>1
    <3> QED BY <3>2
  <2> QED BY <2>1, <2>2
<1>7. Flattens(ss, k, g)
  <2>1. g = [n \in 1 .. k |-> Rest(g, n)]
    <3> HIDE DEF Rest
    <3>1. g = [n \in 1 .. k |-> Rest(f, n)] OBVIOUS
    <3> HIDE DEF g
    <3> QED BY <1>6, <3>1
  <2> QED BY <2>1 DEF Flattens
<1> QED BY <1>1, <1>7

LEMMA FlattenSteps ==
    ASSUME NEW ss, NEW K \in Nat, K = Len(ss), K # 0
    PROVE  \E f : /\ FlattenSeq(ss) = f[K]
                  /\ f[1] = ss[1]
                  /\ \A n \in 2 .. K : f[n] = f[n - 1] \o ss[n]
<1> DEFINE f == CHOOSE h : Flattens(ss, K, h)
<1>1. Flattens(ss, K, f) BY FlattensExists
<1>2. FlattenSeq(ss) = f[K] BY DEF FlattenSeq, Flattens
<1> HIDE DEF f
<1>3. f[1] = ss[1]
  <2>1. 1 \in 1 .. K OBVIOUS
  <2> QED BY <1>1, <2>1 DEF Flattens
<1>4. ASSUME NEW n \in 2 .. K PROVE f[n] = f[n - 1] \o ss[n]
  <2>1. n \in 1 .. K /\ n # 1 OBVIOUS
  <2> QED BY <1>1, <2>1 DEF Flattens
<1> QED BY <1>2, <1>3, <1>4

LEMMA FlattenTyped ==
    ASSUME NEW S, NEW ss \in Seq(Seq(S))
    PROVE  FlattenSeq(ss) \in Seq(S)
<1> DEFINE K == Len(ss)
<1>0. K \in Nat OBVIOUS
<1>1. CASE K = 0
  <2>1. FlattenSeq(ss) = ss BY <1>1 DEF FlattenSeq
  <2>2. ss = <<>> BY <1>1
  <2> QED BY <2>1, <2>2
<1>2. CASE K # 0
  <2>1. PICK f : /\ FlattenSeq(ss) = f[K]
                 /\ f[1] = ss[1]
                 /\ \A n \in 2 .. K : f[n] = f[n - 1] \o ss[n]
    BY <1>0, <1>2, FlattenSteps
  <2> DEFINE T == {n \in 1 .. K : f[n] \notin Seq(S)}
  <2>2. T = {}
    <3> SUFFICES ASSUME T # {} PROVE FALSE OBVIOUS
    <3>0. T \subseteq Nat OBVIOUS
    <3>1. PICK n \in T : \A m \in T : ~(m < n) BY <3>0, Smallest
    <3>2. n # 1 BY <2>1
    <3>3. n \in 2 .. K /\ n - 1 \in 1 .. K /\ n - 1 < n BY <1>0, <3>2
    <3>4. f[n - 1] \in Seq(S) BY <3>1, <3>3
    <3>5. ss[n] \in Seq(S) BY <3>3
    <3>6. f[n] = f[n - 1] \o ss[n] BY <2>1, <3>3
    <3>7. f[n] \in Seq(S) BY <3>4, <3>5, <3>6
    <3> QED BY <3>7
  <2> QED BY <1>0, <1>2, <2>1, <2>2
<1> QED BY <1>1, <1>2

-----------------------------------------------------------------------------
(***************************************************************************)
(* A redacted text is a text.                                              *)
(***************************************************************************)
LEMMA RedactLineTyped ==
    ASSUME NEW l \in Text
    PROVE  RedactLine(l) \in Text
<1>0. "R" \in STRING BY PrintedAssumption DEF Printed
<1>1. RedactKeyValue(l) \in Text
  <2> DEFINE I == {i \in 1 .. Len(l) : l[i] = "="}
             e == SelectInSeq(l, LAMBDA x : x = "=")
  <2>0. Len(l) \in Nat BY DEF Text
  <2>1. e = IF I # {} THEN Min(I) ELSE 0 BY DEF SelectInSeq
  <2>2. e \in 0 .. Len(l)
    <3>1. CASE I = {} BY <2>0, <2>1, <3>1
    <3>2. CASE I # {}
      <4>1. I \subseteq Nat BY <2>0
      <4>2. Min(I) \in I BY <3>2, <4>1, MinIn
      <4> QED BY <2>0, <2>1, <3>2, <4>2
    <3> QED BY <3>1, <3>2
  <2>3. RedactKeyValue(l) =
          IF e > 1 /\ l[e - 1] = "k" THEN SubSeq(l, 1, e) \o <<"R">> ELSE l
    BY DEF RedactKeyValue
  <2> HIDE DEF e
  <2>4. SubSeq(l, 1, e) \in Seq(STRING) BY <2>0, <2>2 DEF Text
  <2>5. <<"R">> \in Seq(STRING) BY <1>0
  <2>6. SubSeq(l, 1, e) \o <<"R">> \in Seq(STRING) BY <2>4, <2>5
  <2> QED BY <2>3, <2>6 DEF Text
<1>2. ASSUME NEW m \in Text PROVE RedactAuthSchemes(m) \in Text
  <2>1. RedactAuthSchemes(m) \in [1 .. Len(m) -> STRING] /\ Len(m) \in Nat
    BY <1>0 DEF RedactAuthSchemes, Text
  <2> QED BY <2>1 DEF Text
<1>3. ASSUME NEW m \in Text PROVE RedactLongTokens(m) \in Text
  <2>1. RedactLongTokens(m) \in [1 .. Len(m) -> STRING] /\ Len(m) \in Nat
    BY <1>0 DEF RedactLongTokens, Text
  <2> QED BY <2>1 DEF Text
<1> QED BY <1>1, <1>2, <1>3 DEF RedactLine

LEMMA ShownTyped ==
    ASSUME NEW l \in Text
    PROVE  Shown(l) \in Text
<1>1. "R" \in STRING /\ "removed" \in STRING /\ "n" \in STRING
  BY PrintedAssumption DEF Printed
<1>2. <<"R", "removed">> \in Seq(STRING) BY <1>1
<1>3. RedactLine(l) \in Seq(STRING) BY RedactLineTyped DEF Text
<1> DEFINE m == IF Opens(l) THEN Marker ELSE RedactLine(l)
<1>4. m \in Seq(STRING) BY <1>2, <1>3 DEF Marker
<1>5. Shown(l) = Append(m, "n") BY DEF Shown
<1> HIDE DEF m
<1> QED BY <1>1, <1>4, <1>5 DEF Text

RedactsTo(lines, K, f) ==
    f = [i \in 0 .. K |->
            IF i = 0 THEN <<>>
            ELSE f[i - 1] \o (IF InPem(lines, i) THEN <<>> ELSE Shown(lines[i]))]

LEMMA RedactsExists ==
    ASSUME NEW lines, NEW K \in Nat
    PROVE  \E f : RedactsTo(lines, K, f)
<1> DEFINE T == {k \in Nat : ~ \E f : RedactsTo(lines, k, f)}
<1> SUFFICES ASSUME T # {} PROVE FALSE OBVIOUS
<1>1. PICK k \in T : \A m \in T : ~(m < k) BY Smallest
<1>2. k # 0
  <2>1. RedactsTo(lines, 0, [n \in 0 .. 0 |-> <<>>]) BY DEF RedactsTo
  <2> QED BY <2>1
<1>3. PICK f : RedactsTo(lines, k - 1, f)
  <2>1. k - 1 \in Nat /\ k - 1 < k BY <1>2
  <2> QED BY <1>1, <2>1
<1> DEFINE Of(n) == IF InPem(lines, n) THEN <<>> ELSE Shown(lines[n])
           Rest(h, n) == IF n = 0 THEN <<>> ELSE h[n - 1] \o Of(n)
           g == [n \in 0 .. k |-> Rest(f, n)]
<1>4. f = [n \in 0 .. k - 1 |-> Rest(f, n)] BY <1>3 DEF RedactsTo
<1>5. ASSUME NEW n \in 0 .. k - 1 PROVE g[n] = f[n]
  <2> HIDE DEF Rest
  <2>1. n \in 0 .. k OBVIOUS
  <2>2. g[n] = Rest(f, n) BY <2>1
  <2>3. f[n] = Rest(f, n) BY <1>4
  <2> QED BY <2>2, <2>3
<1>6. ASSUME NEW n \in 0 .. k PROVE Rest(f, n) = Rest(g, n)
  <2> HIDE DEF g, Of
  <2>1. CASE n = 0 BY <2>1
  <2>2. CASE n # 0
    <3>1. n - 1 \in 0 .. k - 1 BY <2>2
    <3>2. f[n - 1] = g[n - 1] BY <1>5, <3>1
    <3> QED BY <3>2
  <2> QED BY <2>1, <2>2
<1>7. RedactsTo(lines, k, g)
  <2>1. g = [n \in 0 .. k |-> Rest(g, n)]
    <3> HIDE DEF Rest
    <3>1. g = [n \in 0 .. k |-> Rest(f, n)] OBVIOUS
    <3> HIDE DEF g
    <3> QED BY <1>6, <3>1
  <2> QED BY <2>1 DEF RedactsTo
<1> QED BY <1>1, <1>7

LEMMA RedactTyped ==
    ASSUME NEW t \in Text
    PROVE  RedactText(t) \in Text
<1> DEFINE lines == Lines(t)
           K     == Len(lines)
           f     == CHOOSE h : RedactsTo(lines, K, h)
<1>1. lines \in Seq(Text)
  <2>1. Line \subseteq Text BY DEF Line
  <2> QED BY <2>1, LinesTyped
<1>2. K \in Nat BY <1>1
<1>3. RedactsTo(lines, K, f) BY <1>2, RedactsExists
<1>4. RedactText(t) = f[K]
  <2>1. RedactText(t) = RedactLines[lines] BY DEF RedactText
  <2>2. RedactLines[lines] =
          LET upTo[i \in 0 .. Len(lines)] ==
                IF i = 0 THEN <<>>
                ELSE upTo[i - 1] \o (IF InPem(lines, i) THEN <<>> ELSE Shown(lines[i]))
          IN  upTo[Len(lines)]
    <3> HIDE DEF lines
    <3> QED BY <1>1 DEF RedactLines
  <2> QED BY <2>1, <2>2 DEF RedactsTo
<1> HIDE DEF f, lines
<1> DEFINE T == {n \in 0 .. K : f[n] \notin Text}
<1>5. T = {}
  <2> SUFFICES ASSUME T # {} PROVE FALSE OBVIOUS
  <2>0. T \subseteq Nat OBVIOUS
  <2>1. PICK n \in T : \A m \in T : ~(m < n) BY <2>0, Smallest
  <2>2. n # 0
    <3>1. f[0] = <<>> BY <1>2, <1>3 DEF RedactsTo
    <3>2. <<>> \in Text BY DEF Text
    <3> QED BY <3>1, <3>2
  <2>3. n \in 1 .. K /\ n - 1 \in 0 .. K /\ n - 1 < n BY <1>2, <2>2
  <2>4. f[n - 1] \in Text BY <2>1, <2>3
  <2> DEFINE add == IF InPem(lines, n) THEN <<>> ELSE Shown(lines[n])
  <2>5. f[n] = f[n - 1] \o add BY <1>3, <2>2, <2>3 DEF RedactsTo
  <2>6. add \in Text
    <3>1. Shown(lines[n]) \in Text BY <1>1, <2>3, ShownTyped
    <3>2. <<>> \in Text BY DEF Text
    <3> QED BY <3>1, <3>2
  <2> HIDE DEF add
  <2>7. f[n] \in Text BY <2>4, <2>5, <2>6 DEF Text
  <2> QED BY <2>7
<1> QED BY <1>2, <1>4, <1>5
-----------------------------------------------------------------------------
(***************************************************************************)
(* A line appended to a text of whole lines is one line more.              *)
(***************************************************************************)
Whole(t) == t \in Text /\ (t = <<>> \/ t[Len(t)] = "n")

LEMMA LastLine ==
    ASSUME NEW l \in Line
    PROVE  Append(l, "n") \in Text /\ Lines(Append(l, "n")) = <<l>>
<1>0. "n" \in STRING /\ l \in Seq(STRING) /\ Len(l) \in Nat
  <2>1. "n" \in STRING BY PrintedAssumption DEF Printed
  <2>2. l \in Seq(STRING) BY DEF Line, Text
  <2> QED BY <2>1, <2>2
<1>1. PICK t : t = Append(l, "n") OBVIOUS
<1>2. /\ t \in Text /\ t # <<>> /\ Len(t) = Len(l) + 1 /\ t[Len(l) + 1] = "n"
      /\ \A i \in 1 .. Len(l) : t[i] = l[i]
  BY <1>0, <1>1 DEF Text
<1>3. LineEnd(t) = Len(l) + 1
  <2>1. LineEnd(t) \in 0 .. Len(l) + 1 BY <1>2, LineEndFacts
  <2>2. LineEnd(t) # 0
    <3>1. Len(l) + 1 \in 1 .. Len(t) BY <1>0, <1>2
    <3> QED BY <1>2, <3>1, LineEndFacts
  <2>3. t[LineEnd(t)] = "n" BY <1>2, <2>2, LineEndFacts
  <2>4. \A i \in 1 .. Len(l) : t[i] # "n" BY <1>2 DEF Line
  <2> QED BY <1>0, <2>1, <2>2, <2>3, <2>4
<1>4. After(t) = <<>>
  <2>1. Len(After(t)) = 0 /\ After(t) \in Seq(STRING) BY <1>0, <1>2, <1>3, AfterFacts DEF Text
  <2> QED BY <2>1
<1>5. SubSeq(t, 1, LineEnd(t) - 1) = l
  <2>1. LineEnd(t) - 1 = Len(l) BY <1>0, <1>3
  <2>2. SubSeq(t, 1, Len(l)) = l BY <1>0, <1>1
  <2> QED BY <2>1, <2>2
<1>6. Lines(<<>>) = <<>>
  <2>1. <<>> \in Text BY DEF Text
  <2> QED BY <2>1, LinesEquation DEF Split
<1>7. Lines(t) = <<l>> \o <<>>
  <2>1. Lines(t) = Split(t, LinesOf) /\ LineEnd(t) # 0 BY <1>0, <1>2, <1>3, LinesEquation
  <2>2. Lines(t) = <<SubSeq(t, 1, LineEnd(t) - 1)>> \o Lines(After(t))
    BY <1>2, <2>1 DEF Split, Lines
  <2> QED BY <1>4, <1>5, <1>6, <2>2
<1>8. <<l>> \o <<>> = <<l>> OBVIOUS
<1> QED BY <1>1, <1>2, <1>7, <1>8

LEMMA CatFacts ==
    ASSUME NEW S, NEW s \in Seq(S), NEW t \in Seq(S)
    PROVE  /\ s \o t \in Seq(S) /\ Len(s) \in Nat /\ Len(t) \in Nat
           /\ Len(s \o t) = Len(s) + Len(t)
           /\ \A i \in 1 .. Len(s) : (s \o t)[i] = s[i]
           /\ \A i \in 1 .. Len(t) : (s \o t)[Len(s) + i] = t[i]
<1>1. Len(s) \in Nat /\ Len(t) \in Nat OBVIOUS
<1>2. /\ s \o t \in Seq(S) /\ Len(s \o t) = Len(s) + Len(t)
      /\ \A i \in 1 .. Len(s) + Len(t) :
            (s \o t)[i] = IF i <= Len(s) THEN s[i] ELSE t[i - Len(s)]
  BY ConcatProperties
<1>3. \A i \in 1 .. Len(s) : (s \o t)[i] = s[i] BY <1>1, <1>2
<1>4. ASSUME NEW i \in 1 .. Len(t) PROVE (s \o t)[Len(s) + i] = t[i]
  <2>1. Len(s) + i \in 1 .. Len(s) + Len(t) /\ ~(Len(s) + i <= Len(s))
        /\ (Len(s) + i) - Len(s) = i
    BY <1>1
  <2> QED BY <1>2, <2>1
<1> QED BY <1>1, <1>2, <1>3, <1>4

LEMMA TextCat ==
    ASSUME NEW s \in Text, NEW t \in Text
    PROVE  /\ s \o t \in Text /\ Len(s \o t) = Len(s) + Len(t)
           /\ Len(s) \in Nat /\ Len(t) \in Nat
           /\ \A i \in 1 .. Len(s) : (s \o t)[i] = s[i]
           /\ \A i \in 1 .. Len(t) : (s \o t)[Len(s) + i] = t[i]
<1>1. PICK S : S = STRING OBVIOUS
<1>2. s \in Seq(S) /\ t \in Seq(S) BY <1>1 DEF Text
<1>3. /\ s \o t \in Seq(S) /\ Len(s \o t) = Len(s) + Len(t)
      /\ Len(s) \in Nat /\ Len(t) \in Nat
      /\ \A i \in 1 .. Len(s) : (s \o t)[i] = s[i]
      /\ \A i \in 1 .. Len(t) : (s \o t)[Len(s) + i] = t[i]
  BY <1>2, CatFacts
<1> QED BY <1>1, <1>3 DEF Text

LEMMA OneMoreLine ==
    ASSUME NEW t, Whole(t), NEW l \in Line
    PROVE  /\ Whole(t \o Append(l, "n"))
           /\ Lines(t \o Append(l, "n")) = Append(Lines(t), l)
<1> DEFINE w == Append(l, "n")
           T == {n \in Nat : \E u : Whole(u) /\ Len(u) = n /\ Lines(u \o w) # Append(Lines(u), l)}
<1>0. /\ w \in Text /\ w \in Seq(STRING) /\ Lines(w) = <<l>>
      /\ Len(w) \in Nat /\ Len(w) > 0 /\ w[Len(w)] = "n"
  <2>1. "n" \in STRING /\ l \in Seq(STRING) BY PrintedAssumption DEF Printed, Line, Text
  <2> QED BY <2>1, LastLine DEF Text
<1> HIDE DEF w
<1>1. Lines(<<>>) = <<>>
  <2>1. <<>> \in Text BY DEF Text
  <2> QED BY <2>1, LinesEquation DEF Split
<1>2. T = {}
  <2> SUFFICES ASSUME T # {} PROVE FALSE OBVIOUS
  <2>1. PICK n \in T : \A m \in T : ~(m < n) BY Smallest
  <2>2. PICK u : Whole(u) /\ Len(u) = n /\ Lines(u \o w) # Append(Lines(u), l) BY <2>1
  <2>3. u \in Text /\ u \in Seq(STRING) /\ Len(u) = n /\ n \in Nat BY <2>2 DEF Whole, Text
  <2>4. u # <<>>
    <3> SUFFICES ASSUME u = <<>> PROVE FALSE OBVIOUS
    <3>1. u \o w = w BY <1>0
    <3>2. Append(<<>>, l) = <<l>> OBVIOUS
    <3> QED BY <1>0, <1>1, <2>2, <3>1, <3>2
  <2>5. n > 0 /\ u[n] = "n" BY <2>2, <2>3, <2>4 DEF Whole
  <2> DEFINE e == LineEnd(u)
  <2>6. e \in 1 .. n /\ u[e] = "n" /\ \A i \in 1 .. e - 1 : u[i] # "n"
    BY <2>3, <2>5, LineEndFacts
  <2>7. PICK x : x = u \o w OBVIOUS
  <2>8. /\ x \in Text /\ x # <<>> /\ Len(x) = n + Len(w)
        /\ \A i \in 1 .. n : x[i] = u[i]
        /\ \A i \in 1 .. Len(w) : x[n + i] = w[i]
    <3>1. /\ u \o w \in Text /\ Len(u \o w) = Len(u) + Len(w)
          /\ \A i \in 1 .. Len(u) : (u \o w)[i] = u[i]
          /\ \A i \in 1 .. Len(w) : (u \o w)[Len(u) + i] = w[i]
      BY <1>0, <2>3, TextCat, Zenon
    <3>2. /\ x \in Text /\ Len(x) = n + Len(w)
          /\ \A i \in 1 .. n : x[i] = u[i]
          /\ \A i \in 1 .. Len(w) : x[n + i] = w[i]
      BY <2>3, <2>7, <3>1, Zenon
    <3>3. x # <<>> BY <1>0, <2>3, <3>2
    <3> QED BY <3>2, <3>3
  <2>9. LineEnd(x) = e
    <3> HIDE DEF e
    <3>1. LineEnd(x) \in 0 .. Len(x) BY <2>8, LineEndFacts
    <3>2. e \in 1 .. Len(x) /\ x[e] = "n" /\ \A i \in 1 .. e - 1 : x[i] # "n"
      BY <1>0, <2>3, <2>6, <2>8
    <3>3. LineEnd(x) # 0 BY <2>8, <3>2, LineEndFacts
    <3>4. x[LineEnd(x)] = "n" /\ \A i \in 1 .. LineEnd(x) - 1 : x[i] # "n"
      BY <2>8, <3>3, LineEndFacts
    <3>5. ~(LineEnd(x) < e) /\ ~(e < LineEnd(x)) BY <3>1, <3>2, <3>3, <3>4
    <3> QED BY <3>1, <3>2, <3>5
  <2>10. PICK a : a = After(u) OBVIOUS
  <2>11. a \in Text /\ Len(a) = n - e /\ \A i \in 1 .. Len(a) : a[i] = u[e + i]
    <3>1. LineEnd(u) # 0 BY <2>6
    <3>2. /\ After(u) \in Text /\ Len(After(u)) = Len(u) - LineEnd(u)
          /\ \A i \in 1 .. Len(After(u)) : After(u)[i] = u[LineEnd(u) + i]
      BY <2>3, <3>1, AfterFacts, Zenon
    <3> QED BY <2>3, <2>10, <3>2, Zenon
  <2>12. After(x) = a \o w
    <3>1. /\ After(x) \in Seq(STRING) /\ Len(After(x)) = Len(x) - e
          /\ \A i \in 1 .. Len(After(x)) : After(x)[i] = x[e + i]
      <4>1. x \in Text /\ LineEnd(x) # 0 /\ LineEnd(x) = e BY <2>6, <2>8, <2>9
      <4> HIDE DEF e
      <4>2. /\ After(x) \in Text /\ Len(After(x)) = Len(x) - LineEnd(x)
            /\ \A i \in 1 .. Len(After(x)) : After(x)[i] = x[LineEnd(x) + i]
        BY <4>1, AfterFacts
      <4> QED BY <4>1, <4>2 DEF Text
    <3> HIDE DEF e
    <3>2. /\ a \o w \in Seq(STRING) /\ Len(a \o w) = n - e + Len(w)
          /\ \A i \in 1 .. n - e + Len(w) :
                (a \o w)[i] = IF i <= n - e THEN a[i] ELSE w[i - (n - e)]
      <4>1. a \in Seq(STRING) /\ Len(a) = n - e BY <2>11 DEF Text
      <4>2. a \in Seq(STRING) /\ w \in Seq(STRING) BY <1>0, <4>1
      <4>3. /\ a \o w \in Seq(STRING) /\ Len(a \o w) = Len(a) + Len(w)
            /\ \A i \in 1 .. Len(a) + Len(w) :
                  (a \o w)[i] = IF i <= Len(a) THEN a[i] ELSE w[i - Len(a)]
        BY <4>2, ConcatProperties
      <4> QED BY <4>1, <4>3
    <3>3. Len(After(x)) = Len(a \o w) BY <1>0, <2>3, <2>6, <2>8, <3>1, <3>2
    <3>4. ASSUME NEW i \in 1 .. Len(After(x)) PROVE After(x)[i] = (a \o w)[i]
      <4>1. i \in 1 .. n - e + Len(w) BY <3>2, <3>3
      <4>2. CASE i <= n - e
        <5>1. e + i \in 1 .. n /\ i \in 1 .. Len(a) BY <2>3, <2>6, <2>11, <4>1, <4>2
        <5> QED BY <2>8, <2>11, <3>1, <3>2, <4>1, <4>2, <5>1
      <4>3. CASE ~(i <= n - e)
        <5>1. i - (n - e) \in 1 .. Len(w) /\ e + i = n + (i - (n - e))
          BY <1>0, <2>3, <2>6, <4>1, <4>3
        <5>2. x[e + i] = w[i - (n - e)] BY <2>8, <5>1
        <5> QED BY <3>1, <3>2, <4>1, <4>3, <5>2
      <4> QED BY <4>2, <4>3
    <3> QED BY <3>1, <3>2, <3>3, <3>4, SeqEqual
  <2>13. SubSeq(x, 1, LineEnd(x) - 1) = SubSeq(u, 1, LineEnd(u) - 1)
    <3> HIDE DEF e
    <3>1. LineEnd(u) = e BY DEF e
    <3>2. SubSeq(x, 1, e - 1) = SubSeq(u, 1, e - 1)
      <4>1. SubSeq(x, 1, e - 1) = [i \in 1 .. e - 1 |-> x[i]]
        BY <1>0, <2>3, <2>6, <2>8 DEF Text
      <4>2. SubSeq(u, 1, e - 1) = [i \in 1 .. e - 1 |-> u[i]]
        BY <2>3, <2>6
      <4>3. \A i \in 1 .. e - 1 : x[i] = u[i] BY <2>3, <2>6, <2>8
      <4> QED BY <4>1, <4>2, <4>3
    <3> QED BY <2>9, <3>1, <3>2
  <2>14. Whole(a) /\ Len(a) \in Nat /\ Len(a) < n
    <3>1. Len(a) \in Nat /\ Len(a) < n BY <2>3, <2>6, <2>11
    <3>2. CASE Len(a) = 0
      <4>1. a = <<>> BY <2>11, <3>2 DEF Text
      <4> QED BY <2>11, <3>1, <4>1 DEF Whole
    <3>3. CASE Len(a) # 0
      <4>1. Len(a) \in 1 .. Len(a) /\ e + Len(a) = n BY <2>3, <2>6, <2>11, <3>1, <3>3
      <4>2. a[Len(a)] = "n" BY <2>5, <2>11, <4>1
      <4> QED BY <2>11, <3>1, <4>2 DEF Whole
    <3> QED BY <3>2, <3>3
  <2>15. Lines(a \o w) = Append(Lines(a), l) BY <2>1, <2>14
  <2>16. PICK h : h = SubSeq(u, 1, LineEnd(u) - 1) OBVIOUS
  <2>17. Lines(u) = <<h>> \o Lines(a) /\ Lines(x) = <<h>> \o Lines(a \o w)
    <3>1. Lines(u) = Split(u, LinesOf) /\ Lines(x) = Split(x, LinesOf)
      BY <2>3, <2>8, LinesEquation
    <3>2. LineEnd(u) # 0 /\ LineEnd(x) # 0 BY <2>6, <2>9
    <3> HIDE DEF e
    <3> QED BY <2>4, <2>8, <2>10, <2>12, <2>13, <2>16, <3>1, <3>2 DEF Split, Lines
  <2>18. <<h>> \o Append(Lines(a), l) = Append(<<h>> \o Lines(a), l)
    <3>1. h \in Line BY <2>3, <2>6, <2>16, FirstIsLine
    <3>2. Lines(a) \in Seq(Line) BY <2>11, LinesTyped
    <3> QED BY <3>1, <3>2
  <2> QED BY <2>2, <2>7, <2>15, <2>17, <2>18
<1>3. t \in Seq(STRING) /\ Len(t) \in Nat BY DEF Whole, Text
<1>4. Lines(t \o w) = Append(Lines(t), l) BY <1>2, <1>3
<1>5. Whole(t \o w)
  <2>1. t \o w \in Seq(STRING) /\ Len(t \o w) = Len(t) + Len(w)
        /\ (t \o w)[Len(t) + Len(w)] = w[Len(w)]
    BY <1>0, <1>3
  <2> QED BY <1>0, <2>1 DEF Whole, Text
<1> QED BY <1>4, <1>5 DEF w
(* Lines that are joined are read back as they were. *)
LEMMA JoinedLines ==
    ASSUME NEW ls \in Seq(Line)
    PROVE  Joined(ls) \in Text /\ Lines(Joined(ls)) = ls
<1> DEFINE ss == [i \in DOMAIN ls |-> Append(ls[i], "n")]
           K  == Len(ls)
<1>0. K \in Nat /\ DOMAIN ls = 1 .. K OBVIOUS
<1>1. Joined(ls) = FlattenSeq(ss) BY DEF Joined
<1>2. DOMAIN ss = 1 .. K /\ \A i \in 1 .. K : ss[i] = Append(ls[i], "n") BY <1>0
<1>3. ss \in Seq(Text) /\ Len(ss) = K
  <2>1. \A i \in 1 .. K : Append(ls[i], "n") \in Text BY <1>0, LastLine
  <2>2. ss \in [1 .. K -> Text] BY <1>0, <2>1
  <2> HIDE DEF ss
  <2> QED BY <1>0, <2>2
<1>4. Lines(<<>>) = <<>> /\ <<>> \in Text
  <2>1. <<>> \in Text BY DEF Text
  <2> QED BY <2>1, LinesEquation DEF Split
<1> HIDE DEF ss
<1>5. CASE K = 0
  <2>1. Joined(ls) = ss BY <1>1, <1>3, <1>5 DEF FlattenSeq
  <2>2. ss = <<>> BY <1>3, <1>5
  <2>3. ls = <<>> BY <1>5
  <2> QED BY <1>4, <2>1, <2>2, <2>3
<1>6. CASE K # 0
  <2>1. PICK f : /\ FlattenSeq(ss) = f[K]
                 /\ f[1] = ss[1]
                 /\ \A n \in 2 .. K : f[n] = f[n - 1] \o ss[n]
    BY <1>0, <1>3, <1>6, FlattenSteps
  <2> DEFINE Good(n) == Whole(f[n]) /\ Lines(f[n]) = SubSeq(ls, 1, n)
             T == {n \in 1 .. K : ~Good(n)}
  <2>2. T = {}
    <3> SUFFICES ASSUME T # {} PROVE FALSE OBVIOUS
    <3>0. T \subseteq Nat OBVIOUS
    <3>1. PICK n \in T : \A m \in T : ~(m < n) BY <3>0, Smallest
    <3>2. n # 1
      <4> SUFFICES Good(1) OBVIOUS
      <4>1. 1 \in 1 .. K BY <1>0, <1>6
      <4>2. ls[1] \in Line /\ f[1] = Append(ls[1], "n") BY <1>2, <2>1, <4>1
      <4>3. f[1] \in Text /\ Lines(f[1]) = <<ls[1]>> BY <4>2, LastLine
      <4>4. ls[1] \in Seq(STRING) BY <4>2 DEF Line, Text
      <4>5. f[1][Len(f[1])] = "n"
        <5>1. Len(f[1]) = Len(ls[1]) + 1 /\ f[1][Len(ls[1]) + 1] = "n" BY <4>2, <4>4
        <5> QED BY <5>1
      <4>6. SubSeq(ls, 1, 1) = <<ls[1]>>
        <5>1. PICK c : c = SubSeq(ls, 1, 1) OBVIOUS
        <5>2. c \in Seq(Line) /\ Len(c) = 1 /\ c[1] = ls[1] BY <1>0, <4>1, <5>1
        <5>3. <<ls[1]>> \in Seq(Line) /\ Len(<<ls[1]>>) = 1 /\ <<ls[1]>>[1] = ls[1] BY <4>2
        <5>4. \A i \in 1 .. 1 : c[i] = <<ls[1]>>[i] BY <5>2, <5>3
        <5> QED BY <5>1, <5>2, <5>3, <5>4, SeqEqual
      <4> QED BY <4>3, <4>5, <4>6 DEF Whole
    <3>3. n \in 2 .. K /\ n \in 1 .. K /\ n - 1 \in 1 .. K /\ n - 1 < n BY <1>0, <3>2
    <3>4. Good(n - 1) BY <3>1, <3>3
    <3>5. f[n] = f[n - 1] \o Append(ls[n], "n") BY <1>2, <2>1, <3>3
    <3>6. ls[n] \in Line BY <3>3
    <3>7. Whole(f[n]) /\ Lines(f[n]) = Append(SubSeq(ls, 1, n - 1), ls[n])
      BY <3>4, <3>5, <3>6, OneMoreLine
    <3>8. Append(SubSeq(ls, 1, n - 1), ls[n]) = SubSeq(ls, 1, n) BY <1>0, <3>3
    <3> QED BY <3>7, <3>8
  <2>3. Good(K)
    <3>1. K \in 1 .. K BY <1>0, <1>6
    <3> QED BY <2>2, <3>1
  <2>4. SubSeq(ls, 1, K) = ls OBVIOUS
  <2> QED BY <1>1, <2>1, <2>3, <2>4 DEF Whole
<1> QED BY <1>5, <1>6

LEMMA TailIs ==
    ASSUME NEW S, NEW t \in Seq(S), NEW q \in 1 .. Len(t), NEW b, b = SubSeq(t, q, Len(t))
    PROVE  /\ b \in Seq(S) /\ Len(b) = Len(t) - q + 1
           /\ \A i \in 1 .. Len(b) : b[i] = t[q + i - 1]
<1>1. Len(t) \in Nat OBVIOUS
<1>2. b \in Seq(S) BY <1>1
<1>3. b = [i \in 1 .. (Len(t) + 1) - q |-> t[(q + i) - 1]] BY <1>1
<1>4. (Len(t) + 1) - q \in Nat BY <1>1
<1>5. Len(b) = Len(t) - q + 1 BY <1>1, <1>3, <1>4
<1>6. ASSUME NEW i \in 1 .. Len(b) PROVE b[i] = t[q + i - 1]
  <2>1. i \in 1 .. (Len(t) + 1) - q BY <1>1, <1>4, <1>5
  <2> QED BY <1>3, <2>1
<1> QED BY <1>2, <1>5, <1>6

(* The last lines of a text are the lines of its end. *)
EndsAt(t, k, j) ==
    /\ Lines(SubSeq(t, j, Len(t))) = SubSeq(Lines(t), k + 1, Len(Lines(t)))
    /\ k = 0 => j = 1
    /\ j = 1 \/ t[j - 1] = "n"

LEMMA LinesOfEnd ==
    ASSUME NEW t \in Text, NEW k \in Nat, k < Len(Lines(t))
    PROVE  \E j \in 1 .. Len(t) : EndsAt(t, k, j)
<1> DEFINE T == {n \in Nat : n < Len(Lines(t)) /\ ~ \E j \in 1 .. Len(t) : EndsAt(t, n, j)}
<1>0. /\ t \in Seq(STRING) /\ Len(t) \in Nat
      /\ Lines(t) \in Seq(Line) /\ Len(Lines(t)) \in Nat
  BY LinesTyped DEF Text
<1>1. T = {}
  <2> SUFFICES ASSUME T # {} PROVE FALSE OBVIOUS
  <2>1. PICK n \in T : \A m \in T : ~(m < n) BY Smallest
  <2>2. n # 0
    <3> SUFFICES ASSUME n = 0 PROVE \E j \in 1 .. Len(t) : EndsAt(t, 0, j) OBVIOUS
    <3>1. Lines(t) # <<>> BY <1>0, <2>1
    <3>2. t # <<>>
      <4> SUFFICES ASSUME t = <<>> PROVE FALSE OBVIOUS
      <4> QED BY <3>1, LinesEquation DEF Split
    <3>3. 1 \in 1 .. Len(t) BY <1>0, <3>2
    <3>4. SubSeq(t, 1, Len(t)) = t BY <1>0
    <3>5. SubSeq(Lines(t), 1, Len(Lines(t))) = Lines(t) BY <1>0
    <3>6. 0 + 1 = 1 OBVIOUS
    <3>7. EndsAt(t, 0, 1)
      <4>1. Lines(SubSeq(t, 1, Len(t))) = SubSeq(Lines(t), 0 + 1, Len(Lines(t)))
        BY <3>4, <3>5, <3>6, Zenon
      <4> QED BY <4>1 DEF EndsAt
    <3> QED BY <3>3, <3>7
  <2>3. n - 1 \in Nat /\ n - 1 < n /\ n - 1 < Len(Lines(t)) /\ n < Len(Lines(t))
    BY <1>0, <2>1, <2>2
  <2>4. PICK j \in 1 .. Len(t) : EndsAt(t, n - 1, j) BY <2>1, <2>3
  <2>5. PICK u : u = SubSeq(t, j, Len(t)) OBVIOUS
  <2>6. /\ u \in Seq(STRING) /\ Len(u) = Len(t) - j + 1
        /\ \A i \in 1 .. Len(u) : u[i] = t[j + i - 1]
    BY <1>0, <2>5
  <2>7. Lines(u) = SubSeq(Lines(t), n, Len(Lines(t))) BY <2>3, <2>4, <2>5 DEF EndsAt
  <2>8. PICK m : m = Len(Lines(t)) OBVIOUS
  <2>9. m \in Nat /\ n < m /\ n \in 1 .. m BY <1>0, <2>2, <2>3, <2>8
  <2>10. Lines(u) \in Seq(Line) /\ Len(Lines(u)) = m - n + 1
         /\ \A i \in 1 .. m - n + 1 : Lines(u)[i] = Lines(t)[n + i - 1]
    BY <1>0, <2>7, <2>8, <2>9
  <2>11. u \in Text /\ Lines(u) = Split(u, LinesOf) BY <2>6, LinesEquation DEF Text
  <2>12. u # <<>> /\ LineEnd(u) # 0
    <3>1. Len(<<u>>) = 1 OBVIOUS
    <3>2. Len(Lines(u)) > 1 BY <2>9, <2>10
    <3>3. Len(<<>>) = 0 OBVIOUS
    <3>4. ~(0 > 1) /\ ~(1 > 1) OBVIOUS
    <3>5. Lines(u) # <<>> /\ Lines(u) # <<u>> BY <3>1, <3>2, <3>3, <3>4, Zenon
    <3> QED BY <2>11, <3>5 DEF Split
  <2>13. Lines(u) = <<SubSeq(u, 1, LineEnd(u) - 1)>> \o Lines(After(u))
    BY <2>11, <2>12 DEF Split, Lines
  <2>14. PICK e : e = LineEnd(u) OBVIOUS
  <2>15. e \in 1 .. Len(u) /\ u[e] = "n" BY <2>11, <2>12, <2>14, LineEndFacts
  <2>16. PICK a : a = After(u) OBVIOUS
  <2>17. /\ a \in Text /\ Len(a) = Len(u) - e /\ Len(a) \in Nat
         /\ \A i \in 1 .. Len(a) : a[i] = u[e + i]
    BY <2>11, <2>12, <2>14, <2>16, AfterFacts
  <2>18. Lines(a) = SubSeq(Lines(t), n + 1, m)
    <3>1. PICK h : h = SubSeq(u, 1, LineEnd(u) - 1) OBVIOUS
    <3>2. h \in Line BY <2>11, <2>12, <3>1, FirstIsLine
    <3>3. Lines(a) \in Seq(Line) BY <2>17, LinesTyped
    <3>4. Lines(u) = <<h>> \o Lines(a) BY <2>13, <2>16, <3>1
    <3>5. PICK b : b = Lines(a) OBVIOUS
    <3>6. b \in Seq(Line) /\ <<h>> \in Seq(Line) /\ Len(<<h>>) = 1 BY <3>2, <3>3, <3>5
    <3>7. /\ Len(Lines(u)) = 1 + Len(b)
          /\ \A i \in 1 .. 1 + Len(b) :
                Lines(u)[i] = IF i <= 1 THEN <<h>>[i] ELSE b[i - 1]
      BY <3>4, <3>5, <3>6, ConcatProperties
    <3>8. Len(b) = m - n
      <4>1. Len(b) \in Nat BY <3>6
      <4>2. 1 + Len(b) = m - n + 1 BY <2>10, <3>7
      <4> QED BY <2>9, <4>1, <4>2
    <3>9. ASSUME NEW i \in 1 .. Len(b) PROVE b[i] = Lines(t)[n + i]
      <4>1. i + 1 \in 1 .. 1 + Len(b) /\ ~(i + 1 <= 1) /\ i + 1 - 1 = i
            /\ i + 1 \in 1 .. m - n + 1 /\ n + (i + 1) - 1 = n + i
        BY <2>9, <3>6, <3>8
      <4>2. Lines(u)[i + 1] = b[i] BY <3>7, <4>1
      <4>3. Lines(u)[i + 1] = Lines(t)[n + i] BY <2>10, <4>1
      <4> QED BY <4>2, <4>3
    <3>10. PICK c : c = SubSeq(Lines(t), n + 1, m) OBVIOUS
    <3>11. c \in Seq(Line) /\ Len(c) = m - n /\ \A i \in 1 .. m - n : c[i] = Lines(t)[n + i]
      BY <1>0, <2>8, <2>9, <3>10
    <3>12. b = c BY <3>6, <3>8, <3>9, <3>11, SeqEqual
    <3> QED BY <3>5, <3>10, <3>12
  <2>19. a # <<>>
    <3> SUFFICES ASSUME a = <<>> PROVE FALSE OBVIOUS
    <3>1. Lines(a) = <<>> BY <2>17, LinesEquation DEF Split
    <3>2. Len(SubSeq(Lines(t), n + 1, m)) = m - n BY <1>0, <2>8, <2>9
    <3> QED BY <2>9, <2>18, <3>1, <3>2
  <2>20. Len(a) > 0 BY <2>17, <2>19 DEF Text
  <2>21. j + e \in 1 .. Len(t) /\ j + e # 1 /\ j + e - 1 = j + (e - 1)
    BY <1>0, <2>6, <2>15, <2>17, <2>20
  <2>22. t[j + e - 1] = "n" BY <2>6, <2>15
  <2>23. SubSeq(t, j + e, Len(t)) = a
    <3>1. PICK b : b = SubSeq(t, j + e, Len(t)) OBVIOUS
    <3>2. /\ b \in Seq(STRING) /\ Len(b) = Len(t) - (j + e) + 1
          /\ \A i \in 1 .. Len(b) : b[i] = t[j + e + i - 1]
      <4>1. PICK q : q = j + e OBVIOUS
      <4>2. t \in Seq(STRING) /\ q \in 1 .. Len(t) /\ b = SubSeq(t, q, Len(t))
        BY <1>0, <2>21, <3>1, <4>1
      <4>3. /\ b \in Seq(STRING) /\ Len(b) = Len(t) - q + 1
            /\ \A i \in 1 .. Len(b) : b[i] = t[q + i - 1]
        BY <4>2, TailIs
      <4> QED BY <4>1, <4>3
    <3>3. Len(b) = Len(a) /\ a \in Seq(STRING) BY <1>0, <2>6, <2>15, <2>17, <3>2 DEF Text
    <3>4. ASSUME NEW i \in 1 .. Len(b) PROVE b[i] = a[i]
      <4>1. e + i \in 1 .. Len(u) /\ j + (e + i) - 1 = j + e + i - 1
        BY <1>0, <2>6, <2>15, <2>17, <3>3
      <4>2. a[i] = u[e + i] BY <2>17, <3>3
      <4>3. u[e + i] = t[j + e + i - 1] BY <2>6, <4>1
      <4> QED BY <3>2, <4>2, <4>3
    <3> QED BY <3>1, <3>2, <3>3, <3>4, SeqEqual
  <2>24. EndsAt(t, n, j + e)
    <3>1. Lines(SubSeq(t, j + e, Len(t))) = SubSeq(Lines(t), n + 1, Len(Lines(t)))
      BY <2>8, <2>18, <2>23
    <3>2. PICK i : i = j + e OBVIOUS
    <3>3. t[i - 1] = "n"
      <4>1. i - 1 = j + e - 1 BY <1>0, <2>6, <2>15, <3>2
      <4> QED BY <2>22, <4>1
    <3>4. Lines(SubSeq(t, i, Len(t))) = SubSeq(Lines(t), n + 1, Len(Lines(t)))
      BY <3>1, <3>2
    <3>5. EndsAt(t, n, i) BY <2>2, <3>3, <3>4, Zenon DEF EndsAt
    <3> QED BY <3>2, <3>5
  <2> QED BY <2>1, <2>21, <2>24
<1> QED BY <1>1
(* So an excerpt is the redaction of an end of what was read of a log. *)
LEMMA LastLinesTyped ==
    ASSUME NEW r \in Text
    PROVE  LastLines(r) \in Text
<1>1. Lines(r) \in Seq(Line) BY LinesTyped
<1> DEFINE m == Len(Lines(r))
           s == IF m > TailLines THEN m - TailLines ELSE 0
<1>2. m \in Nat /\ s \in Nat BY <1>1, LimitsAssumption
<1>3. LastLines(r) = IF Lines(r) = <<>> THEN <<"n">> ELSE Joined(SubSeq(Lines(r), s + 1, m))
  BY DEF LastLines
<1> HIDE DEF s
<1>4. SubSeq(Lines(r), s + 1, m) \in Seq(Line) BY <1>1, <1>2
<1>5. <<"n">> \in Text
  <2>1. "n" \in STRING BY PrintedAssumption DEF Printed
  <2> QED BY <2>1 DEF Text
<1> QED BY <1>3, <1>4, <1>5, JoinedLines

LEMMA ExcerptOfRead ==
    ASSUME NEW r \in Text, r # <<>>
    PROVE  \E j \in 1 .. Len(r) :
              /\ RedactText(LastLines(r)) = RedactText(SubSeq(r, j, Len(r)))
              /\ Len(Lines(SubSeq(r, j, Len(r)))) <= TailLines
              /\ \/ j = 1
                 \/ Len(Lines(SubSeq(r, j, Len(r)))) = TailLines /\ r[j - 1] = "n"
<1> DEFINE m == Len(Lines(r))
           s == IF m > TailLines THEN m - TailLines ELSE 0
<1>1. Lines(r) \in Seq(Line) /\ Lines(r) # <<>> BY LinesTyped
<1>2. m \in Nat /\ m > 0 BY <1>1
<1>3. /\ s \in Nat /\ s < m
      /\ s # 0 => m - s = TailLines
      /\ m - s <= TailLines
  BY <1>2, LimitsAssumption
<1>4. LastLines(r) = Joined(SubSeq(Lines(r), s + 1, m)) BY <1>1 DEF LastLines
<1> HIDE DEF s
<1>5. SubSeq(Lines(r), s + 1, m) \in Seq(Line) /\ Len(SubSeq(Lines(r), s + 1, m)) = m - s
  BY <1>1, <1>2, <1>3
<1>6. PICK j \in 1 .. Len(r) : EndsAt(r, s, j) BY <1>3, LinesOfEnd
<1>7. Lines(SubSeq(r, j, Len(r))) = SubSeq(Lines(r), s + 1, m) BY <1>6 DEF EndsAt
<1>8. Lines(LastLines(r)) = Lines(SubSeq(r, j, Len(r))) BY <1>4, <1>5, <1>7, JoinedLines
<1>9. RedactText(LastLines(r)) = RedactText(SubSeq(r, j, Len(r))) BY <1>8 DEF RedactText
<1>A. Len(Lines(SubSeq(r, j, Len(r)))) <= TailLines BY <1>3, <1>5, <1>7
<1>10. CASE s = 0
  <2>1. j = 1 BY <1>6, <1>10 DEF EndsAt
  <2> QED BY <1>9, <1>A, <2>1
<1>11. CASE s # 0
  <2>1. Len(Lines(SubSeq(r, j, Len(r)))) = TailLines BY <1>3, <1>5, <1>7, <1>11
  <2>2. j = 1 \/ r[j - 1] = "n" BY <1>6 DEF EndsAt
  <2> QED BY <1>9, <1>A, <2>1, <2>2
<1> QED BY <1>10, <1>11

LEMMA EmptyExcerpt == RedactText(LastLines(<<>>)) = <<"n">>
<1>0. "n" \in STRING /\ <<>> \in Text /\ <<"n">> \in Text
  <2>1. "n" \in STRING BY PrintedAssumption DEF Printed
  <2> QED BY <2>1 DEF Text
<1>1. Lines(<<>>) = <<>> BY <1>0, LinesEquation DEF Split
<1>2. LastLines(<<>>) = <<"n">> BY <1>1 DEF LastLines
<1>3. Lines(<<"n">>) = << <<>> >>
  <2>1. <<>> \in Line BY <1>0 DEF Line
  <2>2. Append(<<>>, "n") = <<"n">> OBVIOUS
  <2> QED BY <2>1, <2>2, LastLine
<1> DEFINE ls == << <<>> >>
           f  == CHOOSE h : RedactsTo(ls, 1, h)
<1>4. ls \in Seq(Text) /\ Len(ls) = 1 /\ ls[1] = <<>> BY <1>0
<1>5. RedactsTo(ls, 1, f) BY RedactsExists
<1>6. RedactText(<<"n">>) = f[1]
  <2>1. RedactText(<<"n">>) = RedactLines[ls] BY <1>3 DEF RedactText
  <2>2. RedactLines[ls] =
          LET upTo[i \in 0 .. Len(ls)] ==
                IF i = 0 THEN <<>>
                ELSE upTo[i - 1] \o (IF InPem(ls, i) THEN <<>> ELSE Shown(ls[i]))
          IN  upTo[Len(ls)]
    <3> HIDE DEF ls
    <3> QED BY <1>4 DEF RedactLines
  <2>3. RedactLines[ls] = f[1]
    <3> HIDE DEF ls
    <3> QED BY <1>4, <2>2 DEF RedactsTo
  <2> QED BY <2>1, <2>3
<1> HIDE DEF f
<1>7. ~InPem(ls, 1)
  <2> HIDE DEF ls
  <2> DEFINE Next1(h, j) == j > 1 /\ IF h[j - 1] THEN ~Closes(ls[j - 1]) ELSE Opens(ls[j - 1])
             p == CHOOSE h : h = [j \in 1 .. 1 |-> Next1(h, j)]
             q == [j \in 1 .. 1 |-> FALSE]
  <2>1. q = [j \in 1 .. 1 |-> Next1(q, j)]
    <3>1. \A j \in 1 .. 1 : ~Next1(q, j) OBVIOUS
    <3> QED BY <3>1
  <2>2. p = [j \in 1 .. 1 |-> Next1(p, j)]
    <3> HIDE DEF Next1, q
    <3> QED BY <2>1
  <2>3. InPem(ls, 1) = p[1] BY DEF InPem
  <2> HIDE DEF p
  <2>4. p[1] = Next1(p, 1) 
    <3> HIDE DEF Next1
    <3>1. 1 \in 1 .. 1 OBVIOUS
    <3> QED BY <2>2, <3>1
  <2>5. ~Next1(p, 1) OBVIOUS
  <2> QED BY <2>3, <2>4, <2>5
<1>8. Shown(<<>>) = <<"n">>
  <2>1. ~Opens(<<>>) BY DEF Opens
  <2>2. SelectInSeq(<<>>, LAMBDA x : x = "=") = 0 BY DEF SelectInSeq
  <2>3. RedactKeyValue(<<>>) = <<>> BY <2>2 DEF RedactKeyValue
  <2>4. RedactAuthSchemes(<<>>) = <<>> BY DEF RedactAuthSchemes
  <2>5. RedactLongTokens(<<>>) = <<>> BY DEF RedactLongTokens
  <2>6. RedactLine(<<>>) = <<>> BY <2>3, <2>4, <2>5 DEF RedactLine
  <2>7. Shown(<<>>) = Append(<<>>, "n") BY <2>1, <2>6 DEF Shown
  <2>8. Append(<<>>, "n") = <<"n">> OBVIOUS
  <2> QED BY <2>7, <2>8
<1>9. f[0] = <<>> /\ f[1] = f[0] \o <<"n">>
  <2> HIDE DEF ls
  <2>1. 0 \in 0 .. 1 /\ 1 \in 0 .. 1 /\ 1 # 0 /\ 1 - 1 = 0 OBVIOUS
  <2>2. f[0] = <<>> BY <1>5, <2>1 DEF RedactsTo
  <2>3. f[1] = f[1 - 1] \o (IF InPem(ls, 1) THEN <<>> ELSE Shown(ls[1]))
    BY <1>5, <2>1 DEF RedactsTo
  <2> QED BY <1>4, <1>7, <1>8, <2>1, <2>2, <2>3
<1>10. <<>> \o <<"n">> = <<"n">> OBVIOUS
<1> QED BY <1>2, <1>6, <1>9, <1>10

(* What is read of a text from a place on. *)
IsRest(r, text, pos) == r = SubSeq(text, pos + 1, Len(text))

LEMMA RestOf ==
    ASSUME NEW text \in Text, NEW pos \in Nat, NEW r, IsRest(r, text, pos)
    PROVE  /\ r \in Text /\ RedactText(LastLines(r)) \in Text
           /\ ~(pos < Len(text)) => r = <<>>
           /\ pos < Len(text) => /\ Len(r) = Len(text) - pos
                                 /\ \A i \in 1 .. Len(text) - pos : r[i] = text[pos + i]
<1>1. PICK K : K = Len(text) OBVIOUS
<1>2. text \in Seq(STRING) /\ K \in Nat BY <1>1 DEF Text
<1>3. CASE ~(pos < K)
  <2>1. pos + 1 \in Int /\ K \in Int /\ ~(pos + 1 <= K) BY <1>2, <1>3
  <2>2. \A k \in pos + 1 .. K : text[k] \in STRING BY <1>2, <2>1
  <2>3. r \in Seq(STRING) /\ Len(r) = 0 BY <1>1, <2>1, <2>2, SubSeqProperties DEF IsRest
  <2>4. r = <<>> BY <2>3
  <2>5. r \in Text BY <2>3 DEF Text
  <2> QED BY <1>1, <1>3, <2>4, <2>5, LastLinesTyped, RedactTyped
<1>4. CASE pos < K
  <2>1. PICK q : q = pos + 1 OBVIOUS
  <2>2. q \in 1 .. Len(text) /\ r = SubSeq(text, q, Len(text))
    BY <1>1, <1>2, <1>4, <2>1 DEF IsRest
  <2>3. /\ r \in Seq(STRING) /\ Len(r) = Len(text) - q + 1
        /\ \A i \in 1 .. Len(r) : r[i] = text[q + i - 1]
    BY <1>2, <2>2, TailIs
  <2>4. Len(r) = K - pos BY <1>1, <1>2, <2>1, <2>3
  <2>5. ASSUME NEW i \in 1 .. K - pos PROVE r[i] = text[pos + i]
    <3>1. q + i - 1 = pos + i BY <1>2, <2>1
    <3> QED BY <2>3, <2>4, <3>1
  <2>6. r \in Text BY <2>3 DEF Text
  <2> QED BY <1>1, <1>4, <2>4, <2>5, <2>6, LastLinesTyped, RedactTyped
<1> QED BY <1>3, <1>4

(* What is read from the start, or from TailBytes before the end or before
   an end that it then had. *)
Fits(pos, n) == pos = 0 \/ pos + TailBytes <= n

LEMMA ExcerptFacts ==
    ASSUME NEW text \in Text, NEW pos \in Nat, NEW r, IsRest(r, text, pos),
           NEW D, NEW x, x \in D \/ Fits(pos, Len(text))
    PROVE  IsTailOf(RedactText(LastLines(r)), text, x \in D)
<1>K. PICK K : K = Len(text) OBVIOUS
<1>0. text \in Seq(STRING) /\ K \in Nat /\ DOMAIN text = 1 .. K /\ K = Len(text)
  BY <1>K DEF Text
<1>1. TailBytes \in Nat /\ TailBytes # 0 BY LimitsAssumption
<1>2. r \in Text BY RestOf
<1>3. CASE ~(pos < K)
  <2>1. r = <<>> BY <1>K, <1>3, RestOf
  <2>2. text = <<>> \/ x \in D
    <3>1. CASE Fits(pos, Len(text))
      <4>1. pos = 0 BY <1>0, <1>1, <1>3, <3>1 DEF Fits
      <4>2. K = 0 BY <1>0, <1>3, <4>1
      <4> QED BY <1>0, <4>2
    <3> QED BY <3>1
  <2> QED BY <2>1, <2>2, EmptyExcerpt DEF IsTailOf
<1>4. CASE pos < K
  <2>1. Len(r) = K - pos /\ \A i \in 1 .. K - pos : r[i] = text[pos + i]
    BY <1>K, <1>4, RestOf
  <2>2. r # <<>> /\ r \in Seq(STRING)
    <3>0. K \in Nat BY <1>0
    <3>1. K - pos # 0 BY <1>4, <3>0
    <3>2. Len(<<>>) = 0 OBVIOUS
    <3> QED BY <1>2, <2>1, <3>1, <3>2 DEF Text
  <2>3. PICK j \in 1 .. Len(r) :
            /\ RedactText(LastLines(r)) = RedactText(SubSeq(r, j, Len(r)))
            /\ Len(Lines(SubSeq(r, j, Len(r)))) <= TailLines
            /\ \/ j = 1
               \/ Len(Lines(SubSeq(r, j, Len(r)))) = TailLines /\ r[j - 1] = "n"
    BY <1>2, <2>2, ExcerptOfRead
  <2>4. PICK i : i = pos + j OBVIOUS
  <2>5. j \in 1 .. K - pos /\ i \in 1 .. K BY <1>0, <1>4, <2>1, <2>3, <2>4
  <2>6. PICK a, tail : a = SubSeq(r, j, Len(r)) /\ tail = SubSeq(text, i, K) OBVIOUS
  <2>7. a = tail /\ Len(tail) = K - i + 1
    <3>1. /\ a \in Seq(STRING) /\ Len(a) = Len(r) - j + 1
          /\ \A k \in 1 .. Len(a) : a[k] = r[j + k - 1]
      BY <2>2, <2>3, <2>6, TailIs
    <3>2. i \in 1 .. Len(text) /\ tail = SubSeq(text, i, Len(text)) BY <1>0, <2>5, <2>6
    <3>3. /\ tail \in Seq(STRING) /\ Len(tail) = Len(text) - i + 1
          /\ \A k \in 1 .. Len(tail) : tail[k] = text[i + k - 1]
      BY <1>0, <3>2, TailIs
    <3>4. Len(a) = K - pos - j + 1 /\ Len(tail) = K - i + 1 /\ Len(a) = Len(tail)
      BY <1>0, <2>1, <2>4, <2>5, <3>1, <3>3
    <3>5. ASSUME NEW k \in 1 .. Len(a) PROVE a[k] = tail[k]
      <4>1. j + k - 1 \in 1 .. K - pos /\ pos + (j + k - 1) = i + k - 1
        BY <1>0, <2>4, <2>5, <3>4
      <4>2. r[j + k - 1] = text[i + k - 1] BY <2>1, <4>1
      <4> QED BY <3>1, <3>3, <3>4, <4>2
    <3> QED BY <3>1, <3>3, <3>4, <3>5, SeqEqual
  <2>8. RedactText(LastLines(r)) = RedactText(tail) /\ Len(Lines(tail)) <= TailLines
    BY <2>3, <2>6, <2>7
  <2>9. \/ i = 1 \/ x \in D \/ Len(tail) >= TailBytes
        \/ Len(Lines(tail)) = TailLines /\ text[i - 1] = "n"
    <3>1. CASE j = 1 /\ Fits(pos, Len(text))
      <4>1. CASE pos = 0 BY <2>4, <3>1, <4>1
      <4>2. CASE pos + TailBytes <= K
        <5>1. K - i + 1 >= TailBytes BY <1>0, <1>1, <2>4, <3>1, <4>2
        <5> QED BY <2>7, <5>1
      <4> QED BY <1>K, <3>1, <4>1, <4>2 DEF Fits
    <3>2. CASE j # 1
      <4>1. Len(Lines(tail)) = TailLines /\ r[j - 1] = "n" BY <2>3, <2>6, <2>7, <3>2
      <4>2. j - 1 \in 1 .. K - pos /\ pos + (j - 1) = i - 1 BY <1>0, <2>4, <2>5, <3>2
      <4>3. text[i - 1] = "n" BY <2>1, <4>1, <4>2
      <4> QED BY <4>1, <4>3
    <3> QED BY <3>1, <3>2
  <2>10. i \in DOMAIN text BY <1>0, <2>5
  <2> QED BY <1>K, <2>6, <2>8, <2>9, <2>10 DEF IsTailOf
<1> QED BY <1>3, <1>4

(* A log that is disturbed only later keeps its excerpt. *)
LEMMA TailStays ==
    ASSUME NEW excerpt, NEW of, NEW D, NEW E, D \subseteq E, NEW x,
           IsTailOf(excerpt, of, x \in D)
    PROVE  IsTailOf(excerpt, of, x \in E)
  BY DEF IsTailOf
-----------------------------------------------------------------------------
(***************************************************************************)
(* What the command writes is text.                                        *)
(***************************************************************************)
LEMMA Cat ==
    ASSUME NEW t \in Text, NEW u \in Text
    PROVE  t \o u \in Text
  BY ConcatProperties DEF Text

LEMMA Words ==
    ASSUME NEW S, NEW a \in S, NEW b \in S, NEW c \in S, NEW d \in S
    PROVE  <<a>> \in Seq(S) /\ <<a, b>> \in Seq(S) /\ <<a, b, c>> \in Seq(S)
           /\ <<a, b, c, d>> \in Seq(S)
  OBVIOUS

LEMMA Word1 == ASSUME NEW a, a \in STRING PROVE <<a>> \in Text
  BY Words, Zenon DEF Text

LEMMA Word2 == ASSUME NEW a, NEW b, a \in STRING, b \in STRING PROVE <<a, b>> \in Text
  BY Words, Zenon DEF Text

LEMMA Word3 ==
    ASSUME NEW a, NEW b, NEW c, a \in STRING, b \in STRING, c \in STRING
    PROVE  <<a, b, c>> \in Text
  BY Words, Zenon DEF Text

LEMMA Word4 ==
    ASSUME NEW a, NEW b, NEW c, NEW d, a \in STRING, b \in STRING, c \in STRING, d \in STRING
    PROVE  <<a, b, c, d>> \in Text
  BY Words, Zenon DEF Text

LEMMA FirstOfTyped ==
    ASSUME NEW files \in Seq(Text)
    PROVE  FirstOf(files) \in Text
<1> DEFINE I == {i \in 1 .. Len(files) : Exists(files[i])}
           e == SelectInSeq(files, Exists)
<1>1. e = IF I # {} THEN Min(I) ELSE 0 BY DEF SelectInSeq
<1>2. I \subseteq Nat OBVIOUS
<1>3. FirstOf(files) = IF e = 0 THEN Absent ELSE files[e] BY DEF FirstOf
<1>4. I # {} => Min(I) \in I BY <1>2, MinIn
<1>5. e # 0 => e \in 1 .. Len(files) BY <1>1, <1>4
<1>6. Absent \in Text
  <2>1. "absent" \in STRING BY PrintedAssumption DEF Printed
  <2> QED BY <2>1, Word1 DEF Absent
<1> HIDE DEF e
<1> QED BY <1>3, <1>5, <1>6

LEMMA IndentTyped == ASSUME NEW t \in Text PROVE Indent(t) \in Text
  BY LinesTyped, JoinedLines DEF Indent

LEMMA FlattenText == ASSUME NEW ss \in Seq(Text) PROVE FlattenSeq(ss) \in Text
  BY FlattenTyped DEF Text

LEMMA ConfigTyped ==
    ASSUME NEW files \in Seq(Text)
    PROVE  ConfigInfo(files) \in Text
<1>0. "title" \in STRING /\ "n" \in STRING /\ "none" \in STRING
  BY PrintedAssumption DEF Printed
<1> DEFINE Part(i) == IF Exists(files[i]) THEN <<"title", "n">> \o RedactText(files[i]) ELSE <<>>
           ss == [i \in DOMAIN files |-> Part(i)]
<1>1. \A i \in 1 .. Len(files) : Part(i) \in Text
  <2>1. \A i \in 1 .. Len(files) : RedactText(files[i]) \in Text BY RedactTyped
  <2>2. <<"title", "n">> \in Text /\ <<>> \in Text BY <1>0, Word2 DEF Text
  <2>3. \A i \in 1 .. Len(files) : <<"title", "n">> \o RedactText(files[i]) \in Text
    BY <2>1, <2>2, Cat
  <2> QED BY <2>2, <2>3
<1> HIDE DEF Part
<1>2. ss \in [1 .. Len(files) -> Text] /\ Len(files) \in Nat BY <1>1
<1>3. ss \in Seq(Text)
  <2> HIDE DEF ss
  <2> QED BY <1>2
<1>4. FlattenSeq(ss) \in Text BY <1>3, FlattenText
<1>5. <<"none", "n">> \in Text BY <1>0, Word2
<1>6. ConfigInfo(files) = IF \E i \in DOMAIN files : Exists(files[i]) THEN FlattenSeq(ss)
                          ELSE <<"none", "n">>
  BY DEF ConfigInfo, Part
<1> QED BY <1>4, <1>5, <1>6

LEMMA DiskTyped ==
    ASSUME NEW disk \in STRING, NEW info \in Text, NEW tree \in Text
    PROVE  DiskInfo(disk, info, tree) \in Text
<1>0. /\ "disk" \in STRING /\ "=" \in STRING /\ "n" \in STRING /\ "snaps" \in STRING
      /\ "size" \in STRING /\ "files" \in STRING
  BY PrintedAssumption DEF Printed
<1>1. <<"disk", "=", disk, "n">> \in Text BY <1>0, Word4
<1>2. <<"snaps", "=", "n">> \in Text BY <1>0, Word3
<1>3. <<"size", "n">> \in Text /\ <<"files", "n">> \in Text BY <1>0, Word2
<1> DEFINE i == Indent(IF Exists(info) THEN info ELSE <<"size", "n">>)
           t == Indent(IF Exists(tree) THEN tree ELSE <<"files", "n">>)
<1>4. i \in Text /\ t \in Text BY <1>3, IndentTyped
<1>5. DiskInfo(disk, info, tree) =
        <<"disk", "=", disk, "n">> \o i \o <<"snaps", "=", "n">> \o t
  BY DEF DiskInfo
<1> HIDE DEF i, t
<1>6. <<"disk", "=", disk, "n">> \o i \in Text BY <1>1, <1>4, Cat
<1>7. <<"disk", "=", disk, "n">> \o i \o <<"snaps", "=", "n">> \in Text BY <1>2, <1>6, Cat
<1> QED BY <1>4, <1>5, <1>7, Cat

LEMMA NetworkTyped ==
    ASSUME NEW files \in Seq(Text)
    PROVE  NetworkInfo(files) \in Text
<1>0. "net" \in STRING /\ "=" \in STRING /\ "n" \in STRING /\ "none" \in STRING
  BY PrintedAssumption DEF Printed
<1>1. <<"net", "=", "n">> \in Text /\ <<"net", "=", "none", "n">> \in Text
  BY <1>0, Word3, Word4
<1>2. Indent(RedactText(FirstOf(files))) \in Text
  BY FirstOfTyped, RedactTyped, IndentTyped
<1> QED BY <1>1, <1>2, Cat DEF NetworkInfo

(***************************************************************************)
(* The logs and reports of VMs.                                            *)
(***************************************************************************)
Log == [path : Paths, name : STRING, of : Text, excerpt : Text]
Report == [name : Vms, listed : Seq(Paths), logs : Seq(Log), body : Text]

LEMMA ToSetFacts ==
    ASSUME NEW S, NEW s \in Seq(S)
    PROVE  /\ ToSet(s) \subseteq S /\ s \in Seq(ToSet(s))
           /\ DOMAIN s = 1 .. Len(s) /\ Len(s) \in Nat /\ \A i \in 1 .. Len(s) : s[i] \in S
           /\ \A x : x \in ToSet(s) <=> \E i \in 1 .. Len(s) : x = s[i]
<1>1. DOMAIN s = 1 .. Len(s) /\ Len(s) \in Nat /\ \A i \in 1 .. Len(s) : s[i] \in S OBVIOUS
<1>2. ToSet(s) = {s[i] : i \in 1 .. Len(s)} BY <1>1 DEF ToSet
<1>3. ToSet(s) \subseteq S BY <1>1, <1>2
<1>4. s \in [1 .. Len(s) -> ToSet(s)] BY <1>1, <1>2
<1>5. s \in Seq(ToSet(s)) BY <1>1, <1>4
<1> QED BY <1>1, <1>2, <1>3, <1>5

LEMMA NamesFacts ==
    /\ Vms \subseteq STRING \ {""} /\ VmName \in Seq(Vms) /\ IsInjective(VmName)
    /\ Paths = 1 .. Len(FileName) /\ Paths \subseteq Nat /\ 0 \notin Paths
    /\ \A p \in Paths : FileName[p] \in STRING
    /\ Len(FileName) \in Nat
<1>1. Vms \subseteq STRING \ {""} /\ VmName \in Seq(Vms)
  BY NamesAssumption, ToSetFacts DEF Vms
<1>2. Paths = 1 .. Len(FileName) /\ Len(FileName) \in Nat
      /\ \A p \in 1 .. Len(FileName) : FileName[p] \in STRING
  BY NamesAssumption, ToSetFacts DEF Paths
<1>3. Paths \subseteq Nat /\ 0 \notin Paths BY <1>2
<1> QED BY <1>1, <1>2, <1>3, NamesAssumption

LEMMA LogsLineTyped ==
    ASSUME NEW logs \in Seq(Log)
    PROVE  LogsLine(logs) \in Text
<1>0. "logs" \in STRING /\ "=" \in STRING /\ "n" \in STRING /\ "none" \in STRING
  BY PrintedAssumption DEF Printed
<1> DEFINE names == [i \in DOMAIN logs |-> logs[i].name]
           m == IF logs = <<>> THEN <<"none">> ELSE names
<1>1. names \in [1 .. Len(logs) -> STRING] /\ Len(logs) \in Nat
  <2>1. \A i \in 1 .. Len(logs) : logs[i] \in Log OBVIOUS
  <2>2. \A i \in 1 .. Len(logs) : logs[i].name \in STRING BY <2>1 DEF Log
  <2> QED BY <2>2
<1>2. names \in Text
  <2> HIDE DEF names
  <2> QED BY <1>1 DEF Text
<1>3. <<"none">> \in Text /\ <<"logs", "=">> \in Text /\ <<"n">> \in Text BY <1>0, Word1, Word2
<1>4. LogsLine(logs) = <<"logs", "=">> \o m \o <<"n">> BY DEF LogsLine
<1>5. m \in Text BY <1>2, <1>3
<1> HIDE DEF m
<1> QED BY <1>3, <1>4, <1>5, Cat

LEMMA RenderVmTyped ==
    ASSUME NEW r \in Report
    PROVE  RenderVm(r) \in Text
<1>0. "vm" \in STRING /\ "tail" \in STRING /\ "n" \in STRING
  BY PrintedAssumption DEF Printed
<1>1. r.name \in STRING /\ r.body \in Text /\ r.logs \in Seq(Log)
  BY NamesFacts DEF Report
<1> DEFINE Part(i) == <<"tail", r.logs[i].name, "n">> \o r.logs[i].excerpt
           ss == [i \in DOMAIN r.logs |-> Part(i)]
<1>2. \A i \in 1 .. Len(r.logs) : Part(i) \in Text
  <2> SUFFICES ASSUME NEW i \in 1 .. Len(r.logs) PROVE Part(i) \in Text OBVIOUS
  <2>1. r.logs[i] \in Log BY <1>1
  <2>2. r.logs[i].name \in STRING /\ r.logs[i].excerpt \in Text BY <2>1 DEF Log
  <2> QED BY <1>0, <2>2, Word3, Cat
<1> HIDE DEF Part
<1>3. ss \in [1 .. Len(r.logs) -> Text] /\ Len(r.logs) \in Nat BY <1>1, <1>2
<1>4. ss \in Seq(Text)
  <2> HIDE DEF ss
  <2> QED BY <1>3
<1>5. FlattenSeq(ss) \in Text BY <1>4, FlattenText
<1>6. RenderVm(r) = <<"vm", r.name, "n">> \o r.body \o FlattenSeq(ss) BY DEF RenderVm, Part
<1>7. <<"vm", r.name, "n">> \o r.body \in Text BY <1>0, <1>1, Word3, Cat
<1> QED BY <1>5, <1>6, <1>7, Cat

LEMMA RenderTyped ==
    ASSUME NEW host \in Text, NEW reports \in Seq(Report)
    PROVE  RenderReport(host, reports) \in Text
<1>0. "head" \in STRING /\ "no" \in STRING /\ "vms" \in STRING /\ "n" \in STRING
  BY PrintedAssumption DEF Printed
<1> DEFINE ss == [i \in DOMAIN reports |-> RenderVm(reports[i])]
           m  == IF reports = <<>> THEN <<"no", "vms", "n">> ELSE FlattenSeq(ss)
<1>1. ss \in [1 .. Len(reports) -> Text] /\ Len(reports) \in Nat BY RenderVmTyped
<1>2. ss \in Seq(Text)
  <2> HIDE DEF ss
  <2> QED BY <1>1
<1>3. <<"no", "vms", "n">> \in Text /\ <<"head", "n">> \in Text BY <1>0, Word2, Word3
<1>4. m \in Text BY <1>2, <1>3, FlattenText
<1>5. RenderReport(host, reports) = <<"head", "n">> \o host \o m BY DEF RenderReport
<1> HIDE DEF m
<1> QED BY <1>3, <1>4, <1>5, Cat
-----------------------------------------------------------------------------
(***************************************************************************)
(* The types of the state.                                                 *)
(***************************************************************************)
VmReport == [name : Vms \union {""}, body : Text, files : Seq(Paths), listed : Seq(Paths),
             logs : Seq(Log)]
Opened   == [path : Paths \union {0}, len : Nat, pos : Nat]
Places   == {"start", "list", "vms", "disks", "network", "logs", "files", "open", "read",
             "write", "tar", "done"}
Within   == {"disks", "network", "logs", "files", "open", "read"}

EnvTyped == home \in Home /\ changes \in 0 .. MaxChanges /\ disturbed \subseteq Vms \X Paths
CmdTyped ==
    /\ pc \in Places /\ exit \in {NoExit, 0, 1, 2} /\ (exit # NoExit <=> pc = "done")
    /\ opts \in Options /\ (opts.ends = NoExit => opts.waits = "")
    /\ pc \notin {"start", "done"} => opts.ends = NoExit
    /\ sections \in Text /\ report \in Text /\ queue \in Seq(Vms)
    /\ vm \in VmReport /\ (pc \in Within => vm.name \in Vms)
    /\ file \in Opened /\ (pc \in {"open", "read"} => file.path \in Paths)
    /\ vms \in Seq(Report)

(***************************************************************************)
(* What the engine does to a log: it is disturbed, or still there, not     *)
(* shorter, and has the characters that it had.                            *)
(***************************************************************************)
Persists(v, p) ==
    \/ <<v, p>> \in disturbed'
    \/ /\ Exists(home.logs[v][p]) => Exists(home'.logs[v][p])
       /\ Len(home.logs[v][p]) <= Len(home'.logs[v][p])
       /\ "C" \in ToSet(home.logs[v][p]) => "C" \in ToSet(home'.logs[v][p])

LEMMA HomeFacts ==
    ASSUME home \in Home, NEW v \in Vms, NEW p \in Paths
    PROVE  /\ home.logs[v][p] \in Text /\ Encoded(home.logs[v][p])
           /\ Len(home.logs[v][p]) \in Nat
<1>1. home.logs[v][p] \in {text \in Text : Encoded(text)} BY DEF Home
<1>2. home.logs[v][p] \in Seq(STRING) BY <1>1 DEF Text
<1> QED BY <1>1, <1>2

LEMMA EmptyText == <<>> \in Text /\ Encoded(<<>>) /\ Absent \in Text /\ Encoded(Absent)
<1>1. "absent" \in STRING BY PrintedAssumption DEF Printed
<1>2. Absent \in Text BY <1>1, Word1 DEF Absent
<1>3. Absent[1] = "absent" /\ DOMAIN Absent = {1} BY DEF Absent
<1>4. Encoded(Absent) BY <1>3 DEF Encoded
<1>5. <<>> \in Text /\ Encoded(<<>>) BY DEF Text, Encoded
<1> QED BY <1>2, <1>4, <1>5

LEMMA GrownText ==
    ASSUME NEW text \in Text, Encoded(text), NEW line \in LogLines
    PROVE  /\ text \o line \in Text /\ Encoded(text \o line) /\ Exists(text \o line)
           /\ Len(text) <= Len(text \o line)
           /\ "C" \in ToSet(text) => "C" \in ToSet(text \o line)
<1>1. line \in Text /\ line # <<>> /\ Last(line) = "n" /\ Encoded(line) BY TextsAssumption
<1>2. PICK m, k, x : m = Len(text) /\ k = Len(line) /\ x = text \o line OBVIOUS
<1>3. /\ m \in Nat /\ k \in Nat /\ DOMAIN text = 1 .. m /\ DOMAIN line = 1 .. k
      /\ text \in Seq(STRING) /\ line \in Seq(STRING)
  BY <1>1, <1>2 DEF Text
<1>4. k > 0 /\ line[k] = "n" BY <1>1, <1>2, <1>3 DEF Last
<1>5. /\ x \in Seq(STRING) /\ Len(x) = m + k
      /\ \A i \in 1 .. m : x[i] = text[i]
      /\ \A j \in 1 .. k : x[m + j] = line[j]
  BY <1>2, <1>3
<1>6. DOMAIN x = 1 .. m + k BY <1>5
<1>7. Encoded(x)
  <2> SUFFICES ASSUME NEW i \in 1 .. m + k, x[i] = "L"
               PROVE  i < m + k /\ x[i + 1] = "C"
    BY <1>5, <1>6 DEF Encoded
  <2>1. CASE i <= m
    <3>1. i \in 1 .. m /\ text[i] = "L" BY <1>3, <1>5, <2>1
    <3>2. i < m /\ text[i + 1] = "C" BY <1>2, <1>3, <3>1 DEF Encoded
    <3>3. i + 1 \in 1 .. m /\ i < m + k BY <1>3, <1>4, <3>1, <3>2
    <3> QED BY <1>5, <3>2, <3>3
  <2>2. CASE ~(i <= m)
    <3>1. PICK j \in 1 .. k : i = m + j
      <4>1. i - m \in 1 .. k /\ i = m + (i - m) BY <1>3, <2>2
      <4> QED BY <4>1
    <3>2. line[j] = "L" BY <1>5, <3>1
    <3>3. j < k /\ line[j + 1] = "C" BY <1>1, <1>2, <1>3, <3>2 DEF Encoded
    <3>4. j + 1 \in 1 .. k /\ i < m + k BY <1>3, <3>1, <3>3
    <3>5. x[m + (j + 1)] = "C" BY <1>5, <3>3, <3>4
    <3>6. i + 1 = m + (j + 1) BY <1>3, <3>1
    <3> QED BY <3>4, <3>5, <3>6
  <2> QED BY <2>1, <2>2
<1>8. Exists(x)
  <2>1. m + k \in 1 .. m + k /\ k \in 1 .. k BY <1>3, <1>4
  <2>2. x[m + k] = "n" BY <1>4, <1>5, <2>1
  <2>3. Absent[1] = "absent" /\ Len(Absent) = 1 BY DEF Absent
  <2>4. ASSUME x = Absent PROVE FALSE
    <3>1. m + k = 1 BY <1>5, <2>3, <2>4
    <3> QED BY <2>2, <2>3, <2>4, <3>1
  <2> QED BY <2>4 DEF Exists
<1>9. ASSUME "C" \in ToSet(text) PROVE "C" \in ToSet(x)
  <2>1. PICK i \in 1 .. m : text[i] = "C" BY <1>3, <1>9 DEF ToSet
  <2>2. i \in 1 .. m + k BY <1>3
  <2>3. x[i] = "C" BY <1>5, <2>1
  <2> QED BY <1>6, <2>2, <2>3 DEF ToSet
<1>10. m <= m + k BY <1>3
<1> QED BY <1>2, <1>5, <1>7, <1>8, <1>9, <1>10 DEF Text

LEMMA EngineStep ==
    ASSUME EnvTyped, Engine
    PROVE  /\ EnvTyped' /\ disturbed \subseteq disturbed'
           /\ \A v \in Vms, p \in Paths : Persists(v, p)
<1> USE DEF EnvTyped
<1>0. ASSUME NEW v \in Vms, NEW p \in Paths, home'.logs[v][p] = home.logs[v][p]
      PROVE  Persists(v, p)
  BY <1>0, HomeFacts DEF Persists
<1>1. ASSUME NEW v \in Vms, NEW p \in Paths, LogGrows(v, p)
      PROVE  /\ EnvTyped' /\ disturbed \subseteq disturbed'
             /\ \A w \in Vms, q \in Paths : Persists(w, q)
  <2>1. PICK line \in LogLines : home' = [home EXCEPT !.logs[v][p] = @ \o line]
    BY <1>1 DEF LogGrows
  <2>2. disturbed' = disturbed /\ changes' \in 0 .. MaxChanges
    BY <1>1, LimitsAssumption DEF LogGrows, Changes
  <2>3. home'.logs[v][p] = home.logs[v][p] \o line BY <2>1 DEF Home
  <2>4. home.logs[v][p] \in Text /\ Encoded(home.logs[v][p]) BY HomeFacts
  <2>5. Persists(v, p) BY <2>3, <2>4, GrownText DEF Persists
  <2>6. \A w \in Vms, q \in Paths : w # v \/ q # p => home'.logs[w][q] = home.logs[w][q]
    BY <2>1 DEF Home
  <2>7. home.logs[v][p] \o line \in {text \in Text : Encoded(text)} BY <2>4, GrownText
  <2>8. home' \in Home BY <2>1, <2>7 DEF Home
  <2> QED BY <1>0, <2>2, <2>5, <2>6, <2>8
<1>2. ASSUME NEW v \in Vms, NEW p \in Paths, LogCut(v, p) \/ LogRemoved(v, p)
      PROVE  /\ EnvTyped' /\ disturbed \subseteq disturbed'
             /\ \A w \in Vms, q \in Paths : Persists(w, q)
  <2>1. PICK t \in {<<>>, Absent} : home' = [home EXCEPT !.logs[v][p] = t]
    BY <1>2 DEF LogCut, LogRemoved
  <2>2. disturbed' = disturbed \union {<<v, p>>} /\ changes' \in 0 .. MaxChanges
    BY <1>2, LimitsAssumption DEF LogCut, LogRemoved, Changes
  <2>3. Persists(v, p) BY <2>2 DEF Persists
  <2>4. \A w \in Vms, q \in Paths : w # v \/ q # p => home'.logs[w][q] = home.logs[w][q]
    BY <2>1 DEF Home
  <2>5. t \in {text \in Text : Encoded(text)} BY EmptyText
  <2>6. home' \in Home BY <2>1, <2>5 DEF Home
  <2> QED BY <1>0, <2>2, <2>3, <2>4, <2>6
<1>3. ASSUME NEW v \in Vms, VmRemoved(v)
      PROVE  /\ EnvTyped' /\ disturbed \subseteq disturbed'
             /\ \A w \in Vms, q \in Paths : Persists(w, q)
  <2>1. home' = [home EXCEPT !.dirs = @ \ {v}, !.disks[v] = <<>>,
                            !.pid[v] = <<Absent, Absent>>,
                            !.network[v] = <<Absent, Absent, Absent>>,
                            !.logs[v] = [p \in Paths |-> Absent]]
    BY <1>3 DEF VmRemoved
  <2>2. disturbed' = disturbed \union ({v} \X Paths) /\ changes' \in 0 .. MaxChanges
    BY <1>3, LimitsAssumption DEF VmRemoved, Changes
  <2>3. \A q \in Paths : Persists(v, q) BY <2>2 DEF Persists
  <2>4. \A w \in Vms, q \in Paths : w # v => home'.logs[w][q] = home.logs[w][q]
    BY <2>1 DEF Home
  <2>5. /\ <<Absent, Absent>> \in Seq(Text) /\ <<Absent, Absent, Absent>> \in Seq(Text)
        /\ [p \in Paths |-> Absent] \in [Paths -> {text \in Text : Encoded(text)}]
    BY EmptyText
  <2>6. <<>> \in Seq(STRING) OBVIOUS
  <2>7. home' \in Home BY <2>1, <2>5, <2>6 DEF Home
  <2> QED BY <1>0, <2>2, <2>3, <2>4, <2>7
<1> QED BY <1>1, <1>2, <1>3 DEF Engine
-----------------------------------------------------------------------------
(***************************************************************************)
(* The steps of the command keep the types.                                *)
(***************************************************************************)
LEMMA SeqMono == ASSUME NEW A, NEW B, A \subseteq B, NEW s \in Seq(A) PROVE s \in Seq(B)
  OBVIOUS

LEMMA CodesDiffer == NoExit \notin {0, 1, 2}
  BY DEF NoExit

LEMMA NoVmTyped == NoVm \in VmReport /\ NoFile \in Opened
<1>1. <<>> \in Text BY EmptyText
<1> QED BY <1>1 DEF NoVm, VmReport, NoFile, Opened

LEMMA StartTyped ==
    ASSUME EnvTyped, CmdTyped, NEW words \in CommandLines, Start(words)
    PROVE  CmdTyped'
<1>1. words \in Seq(STRING) BY NamesAssumption
<1>2. opts' = ParseArguments(words) BY DEF Start
<1>3. opts' \in Options /\ (opts'.ends = NoExit => opts'.waits = "") BY <1>1, <1>2, ArgumentsTyped
<1>4. UNCHANGED <<report, queue, vm, file, vms>> BY DEF Start
<1>5. pc = "start" /\ exit = NoExit BY DEF Start, CmdTyped
<1>6. CASE opts'.ends # NoExit
  <2>1. pc' = "done" /\ exit' = opts'.ends /\ sections' = sections BY <1>6 DEF Start, Ends
  <2>2. exit' \in {0, 2} BY <1>3, <1>6, <2>1 DEF Options
  <2>3. exit' # NoExit BY <2>2, CodesDiffer
  <2> QED BY <1>3, <1>4, <2>1, <2>2, <2>3 DEF CmdTyped, Places, Within
<1>7. CASE opts'.ends = NoExit
  <2>1. pc' = "list" /\ exit' = exit
        /\ sections' = HostText \o (IF opts'.home = "home" THEN ConfigInfo(home.config)
                                    ELSE <<"no", "home", "n">>)
    BY <1>7 DEF Start, Goes
  <2>2. ConfigInfo(home.config) \in Text BY ConfigTyped DEF EnvTyped, Home
  <2>3. <<"no", "home", "n">> \in Text
    <3>1. "no" \in STRING /\ "home" \in STRING /\ "n" \in STRING BY PrintedAssumption DEF Printed
    <3> QED BY <3>1, Word3
  <2>4. sections' \in Text BY <2>1, <2>2, <2>3, Cat, TextsAssumption
  <2> QED BY <1>3, <1>4, <1>5, <1>7, <2>1, <2>4 DEF CmdTyped, Places, Within
<1> QED BY <1>6, <1>7

(* The VMs that are to be collected. *)
LEMMA NamesListed ==
    ASSUME NEW S, NEW names, names = Among(VmName, S)
    PROVE  /\ names \in Seq(Vms) /\ IsInjective(names)
           /\ \A x : x \in ToSet(names) => Among(names, {x}) = <<x>> /\ x \in Vms
<1>1. names \in Seq(Vms \cap S) /\ IsInjective(names) BY NamesFacts, AmongFacts
<1>2. Vms \cap S \subseteq Vms OBVIOUS
<1>3. names \in Seq(Vms) BY <1>1, <1>2, SeqMono
<1>4. ASSUME NEW x, x \in ToSet(names) PROVE Among(names, {x}) = <<x>> /\ x \in Vms
  <2>1. PICK k \in 1 .. Len(names) : x = names[k] BY <1>3, <1>4, ToSetFacts
  <2>2. Among(names, {names[k]}) = <<names[k]>> BY <1>1, <1>3, AmongOne
  <2> QED BY <1>3, <2>1, <2>2, ToSetFacts
<1> QED BY <1>1, <1>3, <1>4

LEMMA ListVmsTyped ==
    ASSUME EnvTyped, CmdTyped, ListVms
    PROVE  CmdTyped'
<1>1. pc = "list" /\ exit = NoExit /\ UNCHANGED <<opts, sections, report, vm, file, vms>>
  BY DEF ListVms, CmdTyped
<1> DEFINE names == Among(VmName, IF opts.home = "home" THEN home.dirs ELSE {})
<1>2. \/ pc' = "done" /\ exit' = 1 /\ queue' = queue
      \/ /\ pc' = "vms" /\ exit' = exit
         /\ opts.vm = "" \/ opts.vm \in ToSet(names)
         /\ queue' = IF opts.vm = "" THEN names ELSE Among(names, {opts.vm})
  BY DEF ListVms, Ends, Goes
<1>3. /\ names \in Seq(Vms)
      /\ \A x : x \in ToSet(names) => Among(names, {x}) = <<x>> /\ x \in Vms
  BY NamesListed
<1> HIDE DEF names
<1>4. opts.vm # "" /\ opts.vm \in ToSet(names) => <<opts.vm>> \in Seq(Vms)
  <2>1. PICK x : x = opts.vm OBVIOUS
  <2>2. x \in ToSet(names) => <<x>> \in Seq(Vms) BY <1>3, Words
  <2> QED BY <2>1, <2>2
<1>5. pc' = "vms" => queue' \in Seq(Vms) BY <1>2, <1>3, <1>4
<1>6. 1 # NoExit BY CodesDiffer
<1> QED BY <1>1, <1>2, <1>5, <1>6 DEF CmdTyped, Places, Within

LEMMA VmBeginTyped ==
    ASSUME EnvTyped, CmdTyped, VmBegin
    PROVE  CmdTyped'
<1>1. /\ pc = "vms" /\ exit = NoExit /\ queue # <<>> /\ queue' = Tail(queue)
      /\ pc' = "disks" /\ exit' = exit /\ UNCHANGED <<opts, sections, report, file, vms>>
  BY DEF VmBegin, CmdTyped, Goes
<1>2. PICK v : v = Head(queue) OBVIOUS
<1>3. v \in Vms /\ queue' \in Seq(Vms)
  <2>1. queue \in Seq(Vms) BY DEF CmdTyped
  <2> QED BY <1>1, <1>2, <2>1, HeadTailProperties
<1>4. PICK status, body : /\ status = VmStatus(home.pid[v])
                          /\ body = <<"status", "=", status, "n">>
  OBVIOUS
<1>5. vm' = [NoVm EXCEPT !.name = v, !.body = body] BY <1>2, <1>4 DEF VmBegin
<1>6. /\ "status" \in STRING /\ "=" \in STRING /\ "n" \in STRING /\ "running" \in STRING
      /\ "off" \in STRING /\ "stopped" \in STRING
  BY PrintedAssumption DEF Printed
<1>7. status \in STRING BY <1>4, <1>6 DEF VmStatus
<1>8. body \in Text BY <1>4, <1>6, <1>7, Word4
<1>9. vm' \in VmReport /\ vm'.name = v BY <1>3, <1>5, <1>8, NoVmTyped DEF VmReport
<1> QED BY <1>1, <1>3, <1>9 DEF CmdTyped, Places, Within

(* What is added to the body of the VM. *)
LEMMA BodyAdded ==
    ASSUME vm \in VmReport, NEW b \in Text, vm' = [vm EXCEPT !.body = @ \o b]
    PROVE  vm' \in VmReport /\ vm'.name = vm.name
<1>1. vm.body \in Text BY DEF VmReport
<1>2. PICK c : c = vm.body \o b OBVIOUS
<1>3. c \in Text BY <1>1, <1>2, Cat
<1>4. vm' = [vm EXCEPT !.body = c] BY <1>2
<1> QED BY <1>3, <1>4 DEF VmReport

LEMMA VmDisksTyped ==
    ASSUME EnvTyped, CmdTyped, NEW info \in CliTexts \union {Absent},
           NEW tree \in CliTexts \union {Absent}, VmDisks(info, tree)
    PROVE  CmdTyped'
<1>1. /\ pc = "disks" /\ exit = NoExit /\ pc' = "network" /\ exit' = exit
      /\ UNCHANGED <<opts, sections, report, queue, file, vms>>
  BY DEF VmDisks, CmdTyped, Goes
<1>2. vm \in VmReport /\ vm.name \in Vms BY <1>1 DEF CmdTyped, Within
<1>3. PICK disks : disks = home.disks[vm.name] OBVIOUS
<1> DEFINE ss    == [d \in DOMAIN disks |-> DiskInfo(disks[d], info, tree)]
           dtext == IF disks = <<>> THEN <<"disks", "=", "none", "n">> ELSE FlattenSeq(ss)
<1>4. vm' = [vm EXCEPT !.body = @ \o dtext] BY <1>3 DEF VmDisks
<1>5. "=" \in STRING /\ "n" \in STRING /\ "disks" \in STRING /\ "none" \in STRING
  BY PrintedAssumption DEF Printed
<1>6. disks \in Seq(STRING) BY <1>2, <1>3 DEF EnvTyped, Home
<1>7. info \in Text /\ tree \in Text BY EmptyText, TextsAssumption
<1>8. ss \in Seq(Text)
  <2>1. DOMAIN disks = 1 .. Len(disks) /\ Len(disks) \in Nat
        /\ \A d \in 1 .. Len(disks) : disks[d] \in STRING
    BY <1>6, ToSetFacts
  <2>2. \A d \in 1 .. Len(disks) : DiskInfo(disks[d], info, tree) \in Text
    BY <1>7, <2>1, DiskTyped
  <2>3. ss \in [1 .. Len(disks) -> Text] BY <2>1, <2>2
  <2> HIDE DEF ss
  <2> QED BY <2>1, <2>3
<1>9. dtext \in Text
  <2>1. FlattenSeq(ss) \in Text BY <1>8, FlattenText
  <2>2. <<"disks", "=", "none", "n">> \in Text BY <1>5, Word4
  <2> QED BY <2>1, <2>2
<1> HIDE DEF dtext
<1>10. vm' \in VmReport /\ vm'.name = vm.name BY <1>2, <1>4, <1>9, BodyAdded
<1> QED BY <1>1, <1>2, <1>10 DEF CmdTyped, Places, Within

LEMMA VmNetworkTyped ==
    ASSUME EnvTyped, CmdTyped, VmNetwork
    PROVE  CmdTyped'
<1>1. /\ pc = "network" /\ exit = NoExit /\ pc' = "logs" /\ exit' = exit
      /\ UNCHANGED <<opts, sections, report, queue, file, vms>>
  BY DEF VmNetwork, CmdTyped, Goes
<1>2. vm \in VmReport /\ vm.name \in Vms BY <1>1 DEF CmdTyped, Within
<1>3. PICK net : net = NetworkInfo(home.network[vm.name]) OBVIOUS
<1>4. vm' = [vm EXCEPT !.body = @ \o net] BY <1>3 DEF VmNetwork
<1>5. home.network[vm.name] \in Seq(Text) BY <1>2 DEF EnvTyped, Home
<1>6. net \in Text BY <1>3, <1>5, NetworkTyped
<1>7. vm' \in VmReport /\ vm'.name = vm.name BY <1>2, <1>4, <1>6, BodyAdded
<1> QED BY <1>1, <1>2, <1>7 DEF CmdTyped, Places, Within

LEMMA ListLogsTyped ==
    ASSUME EnvTyped, CmdTyped, ListLogs
    PROVE  /\ CmdTyped'
           /\ vm'.listed = vm'.files /\ vm'.name = vm.name /\ vm'.logs = vm.logs
           /\ \A p \in ToSet(vm'.files) : p \in Paths /\ Exists(home.logs[vm.name][p])
<1>1. /\ pc = "logs" /\ exit = NoExit /\ pc' = "files" /\ exit' = exit
      /\ UNCHANGED <<opts, sections, report, queue, file, vms>>
  BY DEF ListLogs, CmdTyped, Goes
<1> DEFINE S     == {p \in Paths : Exists(home.logs[vm.name][p])}
           here  == Among([p \in Paths |-> p], S)
           n     == IF Len(here) < LogsPerVm THEN Len(here) ELSE LogsPerVm
           first == SubSeq(here, 1, n)
<1>2. vm' = [vm EXCEPT !.files = first, !.listed = first] BY DEF ListLogs
<1>3. [p \in Paths |-> p] \in Seq(Paths) /\ IsInjective([p \in Paths |-> p])
  <2>1. Paths = 1 .. Len(FileName) /\ Len(FileName) \in Nat BY NamesFacts
  <2>2. [p \in Paths |-> p] \in [1 .. Len(FileName) -> Paths] BY <2>1
  <2> QED BY <2>1, <2>2 DEF IsInjective
<1>4. here \in Seq(Paths \cap S) BY <1>3, AmongFacts
<1>5. Paths \cap S = S OBVIOUS
<1>6. here \in Seq(S) BY <1>4, <1>5
<1> HIDE DEF here, S
<1>7. Len(here) \in Nat /\ n \in Nat /\ n <= Len(here) BY <1>6, LimitsAssumption
<1> HIDE DEF n
<1>8. first \in Seq(S) BY <1>6, <1>7
<1> HIDE DEF first
<1>9. S \subseteq Paths BY DEF S
<1>10. first \in Seq(Paths) BY <1>8, <1>9, SeqMono
<1>11. vm' \in VmReport /\ vm'.name = vm.name /\ vm'.files = first /\ vm'.listed = first
       /\ vm'.logs = vm.logs
  BY <1>2, <1>10 DEF CmdTyped, VmReport
<1>12. \A p \in ToSet(first) : p \in S BY <1>8, ToSetFacts
<1>13. CmdTyped' BY <1>1, <1>11 DEF CmdTyped, Places, Within
<1> QED BY <1>11, <1>12, <1>13 DEF S

LEMMA OpenLogTyped ==
    ASSUME EnvTyped, CmdTyped, OpenLog
    PROVE  CmdTyped'
<1>1. /\ pc = "files" /\ exit = NoExit /\ vm.files # <<>> /\ exit' = exit
      /\ UNCHANGED <<opts, sections, report, queue, vms>>
      /\ vm' = [vm EXCEPT !.files = Tail(@)]
  BY DEF OpenLog, CmdTyped, Goes
<1>2. vm \in VmReport /\ vm.name \in Vms /\ vm.files \in Seq(Paths)
  BY <1>1 DEF CmdTyped, VmReport, Within
<1>3. Head(vm.files) \in Paths /\ Tail(vm.files) \in Seq(Paths) BY <1>1, <1>2
<1>4. vm' \in VmReport /\ vm'.name = vm.name BY <1>1, <1>2, <1>3 DEF VmReport
<1>5. \/ pc' = "files" /\ file' = file
      \/ /\ pc' = "open"
         /\ file' = [path |-> Head(vm.files), len |-> Len(home.logs[vm.name][Head(vm.files)]),
                     pos |-> 0]
  BY DEF OpenLog, Goes
<1>6. Len(home.logs[vm.name][Head(vm.files)]) \in Nat BY <1>2, <1>3, HomeFacts DEF EnvTyped
<1>7. file' \in Opened /\ (pc' = "open" => file'.path \in Paths)
  <2>1. file \in Opened BY DEF CmdTyped
  <2>2. [path |-> Head(vm.files), len |-> Len(home.logs[vm.name][Head(vm.files)]),
         pos |-> 0] \in Opened
    BY <1>3, <1>6 DEF Opened
  <2>3. pc' = "open" => file'.path = Head(vm.files) BY <1>5
  <2> QED BY <1>3, <1>5, <2>1, <2>2, <2>3
<1> QED BY <1>1, <1>2, <1>4, <1>5, <1>7 DEF CmdTyped, Places, Within

(* The place that is sought lies TailBytes before the end, or is the start. *)
LEMMA SeekFacts ==
    ASSUME NEW len \in Nat, NEW size \in Nat
    PROVE  /\ SeekTo(len, size) # -1 => SeekTo(len, size) \in Nat /\ Fits(SeekTo(len, size), size)
           /\ len <= size => SeekTo(len, size) # -1
<1>1. TailBytes \in Nat BY LimitsAssumption
<1>2. CASE len <= TailBytes BY <1>2 DEF SeekTo, Fits
<1>3. CASE ~(len <= TailBytes) /\ size < TailBytes BY <1>1, <1>3 DEF SeekTo
<1>4. CASE ~(len <= TailBytes) /\ ~(size < TailBytes)
  <2>1. SeekTo(len, size) = size - TailBytes BY <1>4 DEF SeekTo
  <2>2. size - TailBytes \in Nat /\ (size - TailBytes) + TailBytes <= size BY <1>1, <1>4
  <2> QED BY <2>1, <2>2 DEF Fits
<1> QED BY <1>2, <1>3, <1>4

LEMMA SeekLogTyped ==
    ASSUME EnvTyped, CmdTyped, SeekLog
    PROVE  /\ CmdTyped'
           /\ \/ pc' = "files" /\ file' = NoFile
                 /\ ~(file.len <= Len(home.logs[vm.name][file.path]))
              \/ /\ pc' = "read" /\ file'.path = file.path /\ file'.len = file.len
                 /\ Fits(file'.pos, Len(home.logs[vm.name][file.path]))
<1>1. /\ pc = "open" /\ exit = NoExit /\ exit' = exit
      /\ UNCHANGED <<opts, sections, report, queue, vm, vms>>
  BY DEF SeekLog, CmdTyped, Goes
<1>2. file \in Opened /\ file.path \in Paths /\ vm.name \in Vms BY <1>1 DEF CmdTyped, Within
<1>3. PICK size, to : size = Len(home.logs[vm.name][file.path]) /\ to = SeekTo(file.len, size)
  OBVIOUS
<1>4. file.len \in Nat /\ size \in Nat BY <1>2, <1>3, HomeFacts DEF EnvTyped, Opened
<1>5. CASE to = -1
  <2>1. file' = NoFile /\ pc' = "files" BY <1>3, <1>5 DEF SeekLog, Goes
  <2>2. ~(file.len <= size) BY <1>3, <1>4, <1>5, SeekFacts
  <2> QED BY <1>1, <1>2, <1>3, <2>1, <2>2, NoVmTyped DEF CmdTyped, Places, Within
<1>6. CASE to # -1
  <2>1. file' = [file EXCEPT !.pos = to] /\ pc' = "read" BY <1>3, <1>6 DEF SeekLog, Goes
  <2>2. to \in Nat /\ Fits(to, size) BY <1>3, <1>4, <1>6, SeekFacts
  <2>3. file' \in Opened /\ file'.path = file.path /\ file'.len = file.len /\ file'.pos = to
    BY <1>2, <2>1, <2>2 DEF Opened
  <2> QED BY <1>1, <1>2, <1>3, <2>1, <2>2, <2>3 DEF CmdTyped, Places, Within
<1> QED BY <1>5, <1>6

LEMMA ReadLogTyped ==
    ASSUME EnvTyped, CmdTyped, ReadLog
    PROVE  CmdTyped'
<1>1. /\ pc = "read" /\ exit = NoExit /\ exit' = exit /\ pc' = "files" /\ file' = NoFile
      /\ UNCHANGED <<opts, sections, report, queue, vms>>
  BY DEF ReadLog, CmdTyped, Goes
<1>2. PICK text, read : /\ text = home.logs[vm.name][file.path]
                        /\ read = SubSeq(text, file.pos + 1, Len(text))
  OBVIOUS
<1> DEFINE log == [path |-> file.path, name |-> FileName[file.path], of |-> text,
                   excerpt |-> RedactText(LastLines(read))]
<1>3. vm' = IF IsUtf8(read) THEN [vm EXCEPT !.logs = Append(@, log)] ELSE vm
  BY <1>2 DEF ReadLog
<1>4. vm \in VmReport /\ vm.name \in Vms /\ file.path \in Paths /\ file.pos \in Nat
      /\ vm.logs \in Seq(Log)
  BY <1>1 DEF CmdTyped, VmReport, Opened, Within
<1>5. text \in Text BY <1>2, <1>4, HomeFacts DEF EnvTyped
<1>6. log \in Log
  <2>1. RedactText(LastLines(read)) \in Text BY <1>2, <1>4, <1>5, RestOf DEF IsRest
  <2>2. FileName[file.path] \in STRING BY <1>4, NamesFacts
  <2> QED BY <1>4, <1>5, <2>1, <2>2 DEF Log
<1> HIDE DEF log
<1>7. vm' \in VmReport /\ vm'.name = vm.name
  <2>1. CASE IsUtf8(read)
    <3>1. Append(vm.logs, log) \in Seq(Log) BY <1>4, <1>6
    <3> QED BY <1>3, <1>4, <2>1, <3>1 DEF VmReport
  <2>2. CASE ~IsUtf8(read) BY <1>3, <1>4, <2>2
  <2> QED BY <2>1, <2>2
<1> QED BY <1>1, <1>4, <1>7, NoVmTyped DEF CmdTyped, Places, Within

LEMMA VmDoneTyped ==
    ASSUME EnvTyped, CmdTyped, VmDone
    PROVE  CmdTyped'
<1>1. /\ pc = "files" /\ exit = NoExit /\ exit' = exit /\ pc' = "vms" /\ vm' = NoVm
      /\ UNCHANGED <<opts, sections, report, queue, file>>
  BY DEF VmDone, CmdTyped, Goes
<1> DEFINE r == [name |-> vm.name, listed |-> vm.listed, logs |-> vm.logs,
                 body |-> RedactText(vm.body \o LogsLine(vm.logs))]
<1>2. vms' = Append(vms, r) BY DEF VmDone
<1>3. vm \in VmReport /\ vm.name \in Vms BY <1>1 DEF CmdTyped, Within
<1>4. RedactText(vm.body \o LogsLine(vm.logs)) \in Text
  <2>1. vm.body \in Text /\ vm.logs \in Seq(Log) BY <1>3 DEF VmReport
  <2> QED BY <2>1, LogsLineTyped, Cat, RedactTyped
<1>5. r \in Report BY <1>3, <1>4 DEF VmReport, Report
<1> HIDE DEF r
<1>6. vms' \in Seq(Report)
  <2>1. vms \in Seq(Report) BY DEF CmdTyped
  <2> QED BY <1>2, <1>5, <2>1
<1> QED BY <1>1, <1>6, NoVmTyped DEF CmdTyped, Places, Within

LEMMA RestTyped ==
    ASSUME EnvTyped, CmdTyped, Render \/ WriteReport \/ TarAppend \/ TarFinish
    PROVE  CmdTyped'
<1>1. CASE Render
  <2>1. /\ pc = "vms" /\ exit = NoExit /\ exit' = exit /\ pc' \in {"tar", "write"}
        /\ UNCHANGED <<opts, sections, queue, vm, file, vms>>
    BY <1>1 DEF Render, CmdTyped, Goes
  <2>2. report' = RenderReport(sections, vms) BY <1>1 DEF Render
  <2>3. report' \in Text BY <2>2, RenderTyped DEF CmdTyped
  <2> QED BY <2>1, <2>3 DEF CmdTyped, Places, Within
<1>2. CASE WriteReport \/ TarAppend \/ TarFinish
  <2>1. /\ pc \in {"write", "tar"} /\ exit = NoExit
        /\ UNCHANGED <<opts, sections, queue, vm, file, vms, report>>
    BY <1>2 DEF WriteReport, TarAppend, TarFinish, CmdTyped
  <2>2. (pc' = "done" /\ exit' \in {0, 1}) \/ (pc' = "tar" /\ exit' = exit)
    BY <1>2 DEF WriteReport, TarAppend, TarFinish, WriteFails, Ends, Goes
  <2>3. exit' \in {0, 1} => exit' # NoExit BY CodesDiffer
  <2> QED BY <2>1, <2>2, <2>3 DEF CmdTyped, Places, Within
<1> QED BY <1>1, <1>2
-----------------------------------------------------------------------------
(***************************************************************************)
(* No log goes missing.  A log that was listed and is yet to be read is    *)
(* disturbed or still there; one that is open is disturbed or not shorter  *)
(* than it was seen to be, so that the seek succeeds, and one that is read *)
(* not shorter than at the seek.                                           *)
(***************************************************************************)
KeptIn(v, p, logs) ==
    \/ <<v, p>> \in disturbed
    \/ "C" \in ToSet(home.logs[v][p])
    \/ \E l \in ToSet(logs) : l.path = p

Reading == {"files", "open", "read"}

ToRead == IF pc \in {"open", "read"} THEN {file.path} ELSE {}

VmKept ==
    pc \in Reading =>
        \A p \in ToSet(vm.listed) :
            p \in ToSet(vm.files) \/ p \in ToRead \/ KeptIn(vm.name, p, vm.logs)

StillThere ==
    pc \in Reading =>
        \A p \in ToSet(vm.files) \union ToRead :
            <<vm.name, p>> \in disturbed \/ Exists(home.logs[vm.name][p])

NotShorter ==
    /\ pc = "open" => \/ <<vm.name, file.path>> \in disturbed
                      \/ file.len <= Len(home.logs[vm.name][file.path])
    /\ pc = "read" => \/ <<vm.name, file.path>> \in disturbed
                      \/ Fits(file.pos, Len(home.logs[vm.name][file.path]))

LInv == EnvTyped /\ CmdTyped /\ LogsKept /\ VmKept /\ StillThere /\ NotShorter

LEMMA LogsKeptIs ==
    ASSUME vms \in Seq(Report)
    PROVE  LogsKept <=> \A i \in 1 .. Len(vms) : \A p \in ToSet(vms[i].listed) :
                            KeptIn(vms[i].name, p, vms[i].logs)
<1>1. DOMAIN vms = 1 .. Len(vms) OBVIOUS
<1>2. \A i \in 1 .. Len(vms) : vms[i].listed \in Seq(Paths)
  <2> SUFFICES ASSUME NEW i \in 1 .. Len(vms) PROVE vms[i].listed \in Seq(Paths) OBVIOUS
  <2>1. vms[i] \in Report OBVIOUS
  <2> QED BY <2>1 DEF Report
<1>3. ASSUME NEW i \in 1 .. Len(vms)
      PROVE  (\A j \in DOMAIN vms[i].listed : KeptIn(vms[i].name, vms[i].listed[j], vms[i].logs))
             <=> \A p \in ToSet(vms[i].listed) : KeptIn(vms[i].name, p, vms[i].logs)
  <2>1. PICK s : s = vms[i].listed OBVIOUS
  <2>2. ToSet(s) = {s[j] : j \in DOMAIN s} BY DEF ToSet
  <2> QED BY <2>1, <2>2
<1>4. LogsKept <=> \A i \in DOMAIN vms : \A j \in DOMAIN vms[i].listed :
                      KeptIn(vms[i].name, vms[i].listed[j], vms[i].logs)
  BY DEF LogsKept, KeptIn
<1> QED BY <1>1, <1>3, <1>4

(* The rest of a log of one-byte characters is read. *)
LEMMA ReadSucceeds ==
    ASSUME NEW text \in Text, Encoded(text), "C" \notin ToSet(text),
           NEW pos \in Nat, NEW r, r = SubSeq(text, pos + 1, Len(text))
    PROVE  IsUtf8(r)
<1>1. PICK m : m = Len(text) OBVIOUS
<1>2. text \in Seq(STRING) /\ m \in Nat /\ DOMAIN text = 1 .. m BY <1>1 DEF Text
<1>3. \A i \in 1 .. m : text[i] # "C" BY <1>2 DEF ToSet
<1>4. ASSUME NEW i \in 1 .. m PROVE text[i] # "L"
  <2> SUFFICES ASSUME text[i] = "L" PROVE FALSE OBVIOUS
  <2>1. i < m /\ text[i + 1] = "C" BY <1>1, <1>2 DEF Encoded
  <2>2. i + 1 \in 1 .. m BY <1>2, <2>1
  <2> QED BY <1>3, <2>1, <2>2
<1>5. CASE ~(pos < m)
  <2>1. r = <<>> BY <1>1, <1>5, RestOf DEF IsRest
  <2> QED BY <2>1 DEF IsUtf8
<1>6. CASE pos < m
  <2>1. Len(r) = m - pos /\ (\A i \in 1 .. m - pos : r[i] = text[pos + i]) /\ r \in Seq(STRING)
    BY <1>1, <1>6, RestOf DEF Text
  <2>2. ASSUME NEW i \in 1 .. m - pos PROVE r[i] # "C" /\ r[i] # "L"
    <3>1. pos + i \in 1 .. m BY <1>2, <1>6
    <3> QED BY <1>3, <1>4, <2>1, <3>1
  <2>3. 1 \in 1 .. m - pos /\ m - pos \in 1 .. m - pos BY <1>2, <1>6
  <2>4. Head(r) = r[1]
    <3>1. r # <<>>
      <4>1. Len(r) # 0 BY <1>2, <1>6, <2>1
      <4>2. Len(<<>>) = 0 OBVIOUS
      <4> QED BY <4>1, <4>2
    <3> QED BY <2>1, <3>1
  <2>5. Last(r) = r[m - pos] BY <2>1 DEF Last
  <2> QED BY <2>2, <2>3, <2>4, <2>5 DEF IsUtf8
<1> QED BY <1>5, <1>6

LEMMA AppendSet == ASSUME NEW S, NEW s \in Seq(S), NEW x \in S
                  PROVE  ToSet(Append(s, x)) = ToSet(s) \union {x}
<1>1. PICK n : n = Len(s) OBVIOUS
<1>2. n \in Nat /\ DOMAIN s = 1 .. n BY <1>1
<1>3. DOMAIN Append(s, x) = 1 .. n + 1 /\ Append(s, x)[n + 1] = x
      /\ \A i \in 1 .. n : Append(s, x)[i] = s[i]
  BY <1>1
<1>4. 1 .. n + 1 = 1 .. n \union {n + 1} BY <1>2
<1> QED BY <1>2, <1>3, <1>4 DEF ToSet

LEMMA HeadOrTail ==
    ASSUME NEW S, NEW s \in Seq(S), s # <<>>
    PROVE  ToSet(s) = {Head(s)} \union ToSet(Tail(s))
<1>1. PICK n : n = Len(s) OBVIOUS
<1>2. n \in Nat /\ n > 0 /\ DOMAIN s = 1 .. n /\ Head(s) = s[1] BY <1>1
<1>3. DOMAIN Tail(s) = 1 .. n - 1 /\ \A i \in 1 .. n - 1 : Tail(s)[i] = s[i + 1] BY <1>1, <1>2
<1>4. ASSUME NEW x \in ToSet(s) PROVE x = s[1] \/ x \in ToSet(Tail(s))
  <2>1. PICK i \in 1 .. n : x = s[i] BY <1>2 DEF ToSet
  <2>2. CASE i = 1 BY <2>1, <2>2
  <2>3. CASE i # 1
    <3>1. PICK j : j = i - 1 OBVIOUS
    <3>2. j \in 1 .. n - 1 /\ j + 1 = i BY <1>2, <2>3, <3>1
    <3>3. x = Tail(s)[j] BY <1>3, <2>1, <3>2
    <3> QED BY <1>3, <3>2, <3>3 DEF ToSet
  <2> QED BY <2>2, <2>3
<1>5. ASSUME NEW x \in ToSet(Tail(s)) PROVE x \in ToSet(s)
  <2>1. PICK i \in 1 .. n - 1 : x = Tail(s)[i] BY <1>3 DEF ToSet
  <2>2. i + 1 \in 1 .. n /\ x = s[i + 1] BY <1>2, <1>3, <2>1
  <2> QED BY <1>2, <2>2 DEF ToSet
<1>6. s[1] \in ToSet(s)
  <2>1. 1 \in 1 .. n BY <1>2
  <2> QED BY <1>2, <2>1 DEF ToSet
<1> QED BY <1>2, <1>4, <1>5, <1>6
(* Steps of the command that read no log. *)
LEMMA QuietStep ==
    ASSUME LInv, CmdTyped', UNCHANGED env, vms' = vms, pc' \notin Reading
    PROVE  LInv'
<1>1. EnvTyped' BY DEF LInv, EnvTyped, env
<1>2. LogsKept' BY DEF LInv, LogsKept, env
<1>3. VmKept' /\ StillThere' /\ NotShorter' BY DEF VmKept, StillThere, NotShorter, Reading
<1> QED BY <1>1, <1>2, <1>3 DEF LInv

LEMMA ListLogsKeeps == ASSUME LInv, ListLogs PROVE LInv'
<1>1. EnvTyped /\ CmdTyped BY DEF LInv
<1>2. /\ CmdTyped' /\ vm'.listed = vm'.files /\ vm'.name = vm.name
      /\ \A p \in ToSet(vm'.files) : Exists(home.logs[vm.name][p])
  BY <1>1, ListLogsTyped
<1>3. pc' = "files" /\ UNCHANGED env /\ vms' = vms BY DEF ListLogs, Goes
<1>4. EnvTyped' BY <1>1, <1>3 DEF EnvTyped, env
<1>5. LogsKept' BY <1>3 DEF LInv, LogsKept, env
<1>6. VmKept' BY <1>2 DEF VmKept
<1>7. ToRead' = {} BY <1>3 DEF ToRead
<1>8. home' = home BY <1>3 DEF env
<1>9. StillThere' BY <1>2, <1>7, <1>8 DEF StillThere
<1>10. NotShorter' BY <1>3 DEF NotShorter
<1> QED BY <1>2, <1>4, <1>5, <1>6, <1>9, <1>10 DEF LInv

LEMMA OpenLogKeeps == ASSUME LInv, OpenLog PROVE LInv'
<1>1. EnvTyped /\ CmdTyped /\ CmdTyped' BY OpenLogTyped DEF LInv
<1>2. pc = "files" /\ UNCHANGED env /\ vms' = vms /\ vm.files # <<>> BY DEF OpenLog
<1>3. home' = home /\ disturbed' = disturbed BY <1>2 DEF env
<1>4. EnvTyped' BY <1>1, <1>2 DEF EnvTyped, env
<1>5. LogsKept' BY <1>2 DEF LInv, LogsKept, env
<1>6. vm \in VmReport /\ vm.files \in Seq(Paths) BY <1>1 DEF CmdTyped, VmReport
<1>7. vm' = [vm EXCEPT !.files = Tail(@)] BY DEF OpenLog
<1>8. /\ vm'.files = Tail(vm.files) /\ vm'.listed = vm.listed /\ vm'.name = vm.name
      /\ vm'.logs = vm.logs
  BY <1>6, <1>7 DEF VmReport
<1>9. PICK p : p = Head(vm.files) OBVIOUS
<1>10. ToSet(vm.files) = {p} \union ToSet(vm'.files) BY <1>2, <1>6, <1>8, <1>9, HeadOrTail
<1>11. ToRead = {} BY <1>2 DEF ToRead
<1>12. \A q \in ToSet(vm.listed) : q \in ToSet(vm.files) \/ KeptIn(vm.name, q, vm.logs)
  BY <1>2, <1>11 DEF LInv, VmKept, Reading
<1>13. \A q \in ToSet(vm.files) : <<vm.name, q>> \in disturbed \/ Exists(home.logs[vm.name][q])
  BY <1>2 DEF LInv, StillThere, Reading
<1>14. \A q : KeptIn(vm.name, q, vm.logs)' <=> KeptIn(vm.name, q, vm.logs)
  BY <1>3, <1>8 DEF KeptIn
<1>15. CASE Exists(home.logs[vm.name][p])
  <2>1. pc' = "open" /\ file' = [path |-> p, len |-> Len(home.logs[vm.name][p]), pos |-> 0]
    BY <1>9, <1>15 DEF OpenLog, Goes
  <2>2. ToRead' = {p} /\ file'.path = p /\ file'.len = Len(home.logs[vm.name][p])
    BY <2>1 DEF ToRead
  <2>3. VmKept' BY <1>8, <1>10, <1>12, <1>14, <2>2 DEF VmKept
  <2>4. StillThere' BY <1>3, <1>8, <1>10, <1>13, <2>2 DEF StillThere
  <2>5. Len(home.logs[vm.name][p]) \in Nat
    <3>1. vm.name \in Vms /\ p \in Paths
      BY <1>1, <1>2, <1>6, <1>9, HeadTailProperties DEF CmdTyped, Within
    <3> QED BY <1>1, <3>1, HomeFacts DEF EnvTyped
  <2>6. NotShorter' BY <1>3, <1>8, <2>1, <2>2, <2>5 DEF NotShorter
  <2> QED BY <1>1, <1>4, <1>5, <2>3, <2>4, <2>6 DEF LInv
<1>16. CASE ~Exists(home.logs[vm.name][p])
  <2>1. pc' = "files" BY <1>9, <1>16 DEF OpenLog, Goes
  <2>2. ToRead' = {} BY <2>1 DEF ToRead
  <2>3. KeptIn(vm.name, p, vm.logs) BY <1>10, <1>13, <1>16 DEF KeptIn
  <2>4. VmKept' BY <1>8, <1>10, <1>12, <1>14, <2>3 DEF VmKept
  <2>5. StillThere' BY <1>3, <1>8, <1>10, <1>13, <2>2 DEF StillThere
  <2>6. NotShorter' BY <2>1 DEF NotShorter
  <2> QED BY <1>1, <1>4, <1>5, <2>4, <2>5, <2>6 DEF LInv
<1> QED BY <1>15, <1>16

LEMMA SeekLogKeeps == ASSUME LInv, SeekLog PROVE LInv'
<1>1. EnvTyped /\ CmdTyped BY DEF LInv
<1>2. /\ pc = "open" /\ UNCHANGED env /\ vms' = vms /\ vm' = vm /\ home' = home
      /\ disturbed' = disturbed
  BY DEF SeekLog, env
<1>3. PICK p, text : p = file.path /\ text = home.logs[vm.name][p] OBVIOUS
<1>4. /\ CmdTyped'
      /\ \/ pc' = "files" /\ ~(file.len <= Len(text))
         \/ pc' = "read" /\ file'.path = p /\ Fits(file'.pos, Len(text))
  BY <1>1, <1>3, SeekLogTyped
<1>5. EnvTyped' BY <1>1, <1>2 DEF EnvTyped, env
<1>6. LogsKept' BY <1>2 DEF LInv, LogsKept, env
<1>7. /\ \A q \in ToSet(vm.listed) : q \in ToSet(vm.files) \/ q = p \/ KeptIn(vm.name, q, vm.logs)
      /\ \A q \in ToSet(vm.files) \union {p} :
            <<vm.name, q>> \in disturbed \/ Exists(home.logs[vm.name][q])
  BY <1>2, <1>3 DEF LInv, VmKept, StillThere, Reading, ToRead
<1>8. \A q : KeptIn(vm.name, q, vm.logs) => KeptIn(vm.name, q, vm.logs)' BY <1>2 DEF KeptIn
<1>9. CASE pc' = "files" /\ ~(file.len <= Len(text))
  <2>1. <<vm.name, p>> \in disturbed BY <1>2, <1>3, <1>9 DEF LInv, NotShorter
  <2>2. KeptIn(vm.name, p, vm.logs) BY <2>1 DEF KeptIn
  <2>3. VmKept' BY <1>2, <1>7, <1>8, <2>2 DEF VmKept
  <2>4. StillThere' BY <1>2, <1>7, <1>9 DEF StillThere, ToRead
  <2>5. NotShorter' BY <1>9 DEF NotShorter
  <2> QED BY <1>4, <1>5, <1>6, <2>3, <2>4, <2>5 DEF LInv
<1>10. CASE pc' = "read" /\ file'.path = p /\ Fits(file'.pos, Len(text))
  <2>1. ToRead' = {p} BY <1>10 DEF ToRead
  <2>2. VmKept' BY <1>2, <1>7, <1>8, <2>1 DEF VmKept
  <2>3. StillThere' BY <1>2, <1>7, <2>1 DEF StillThere
  <2>4. NotShorter' BY <1>2, <1>3, <1>10 DEF NotShorter
  <2> QED BY <1>4, <1>5, <1>6, <2>2, <2>3, <2>4 DEF LInv
<1> QED BY <1>4, <1>9, <1>10

LEMMA ReadLogKeeps == ASSUME LInv, ReadLog PROVE LInv'
<1>1. EnvTyped /\ CmdTyped /\ CmdTyped' BY ReadLogTyped DEF LInv
<1>2. pc = "read" /\ pc' = "files" /\ UNCHANGED env /\ vms' = vms BY DEF ReadLog, Goes
<1>3. home' = home /\ disturbed' = disturbed BY <1>2 DEF env
<1>4. EnvTyped' BY <1>1, <1>2 DEF EnvTyped, env
<1>5. LogsKept' BY <1>2 DEF LInv, LogsKept, env
<1>6. /\ vm \in VmReport /\ vm.name \in Vms /\ file.path \in Paths /\ file.pos \in Nat
      /\ vm.logs \in Seq(Log)
  BY <1>1, <1>2 DEF CmdTyped, VmReport, Opened, Within
<1>7. PICK p, text, read : /\ p = file.path /\ text = home.logs[vm.name][p]
                           /\ read = SubSeq(text, file.pos + 1, Len(text))
  OBVIOUS
<1> DEFINE log == [path |-> file.path, name |-> FileName[file.path], of |-> text,
                   excerpt |-> RedactText(LastLines(read))]
<1>8. vm' = IF IsUtf8(read) THEN [vm EXCEPT !.logs = Append(@, log)] ELSE vm
  BY <1>7 DEF ReadLog
<1>9. log.path = p BY <1>7
<1> HIDE DEF log
<1>10. /\ vm'.files = vm.files /\ vm'.listed = vm.listed /\ vm'.name = vm.name
       /\ vm'.logs = IF IsUtf8(read) THEN Append(vm.logs, log) ELSE vm.logs
  BY <1>6, <1>8 DEF VmReport
<1>11. vm'.logs \in Seq(Log) BY <1>1 DEF CmdTyped, VmReport
<1>12. ASSUME IsUtf8(read) PROVE ToSet(vm'.logs) = ToSet(vm.logs) \union {log}
  <2>1. PICK S : S = Log \union {log} OBVIOUS
  <2>2. vm.logs \in Seq(S) /\ log \in S BY <1>6, <2>1, SeqMono
  <2> QED BY <1>10, <1>12, <2>2, AppendSet
<1>13. ToSet(vm.logs) \subseteq ToSet(vm'.logs) BY <1>10, <1>12
<1>14. \A q : KeptIn(vm.name, q, vm.logs) => KeptIn(vm.name, q, vm.logs)'
  BY <1>3, <1>10, <1>13 DEF KeptIn
<1>15. text \in Text /\ Encoded(text) BY <1>1, <1>6, <1>7, HomeFacts DEF EnvTyped
<1>16. ToRead = {p} /\ ToRead' = {} BY <1>2, <1>7 DEF ToRead
<1>17. KeptIn(vm.name, p, vm.logs)'
  <2>1. CASE <<vm.name, p>> \in disturbed \/ "C" \in ToSet(text)
    BY <1>3, <1>7, <1>10, <2>1 DEF KeptIn
  <2>2. CASE <<vm.name, p>> \notin disturbed /\ "C" \notin ToSet(text)
    <3>1. IsUtf8(read) BY <1>6, <1>7, <1>15, <2>2, ReadSucceeds
    <3>2. log \in ToSet(vm'.logs) BY <1>12, <3>1
    <3> QED BY <1>9, <3>2 DEF KeptIn
  <2> QED BY <2>1, <2>2
<1>18. VmKept'
  <2>1. \A q \in ToSet(vm.listed) :
           q \in ToSet(vm.files) \/ q = p \/ KeptIn(vm.name, q, vm.logs)
    BY <1>2, <1>16 DEF LInv, VmKept, Reading
  <2> QED BY <1>10, <1>14, <1>17, <2>1 DEF VmKept
<1>19. StillThere'
  <2>1. \A q \in ToSet(vm.files) :
           <<vm.name, q>> \in disturbed \/ Exists(home.logs[vm.name][q])
    BY <1>2 DEF LInv, StillThere, Reading
  <2> QED BY <1>3, <1>10, <1>16, <2>1 DEF StillThere
<1>20. NotShorter' BY <1>2 DEF NotShorter
<1> QED BY <1>1, <1>4, <1>5, <1>18, <1>19, <1>20 DEF LInv

LEMMA VmDoneKeeps == ASSUME LInv, VmDone PROVE LInv'
<1>1. EnvTyped /\ CmdTyped /\ CmdTyped' BY VmDoneTyped DEF LInv
<1>2. pc = "files" /\ pc' = "vms" /\ UNCHANGED env /\ vm.files = <<>> BY DEF VmDone, Goes
<1>3. home' = home /\ disturbed' = disturbed BY <1>2 DEF env
<1>4. EnvTyped' BY <1>1, <1>2 DEF EnvTyped, env
<1>5. VmKept' /\ StillThere' /\ NotShorter'
  BY <1>2 DEF VmKept, StillThere, NotShorter, Reading
<1> DEFINE r == [name |-> vm.name, listed |-> vm.listed, logs |-> vm.logs,
                 body |-> RedactText(vm.body \o LogsLine(vm.logs))]
<1>6. vms' = Append(vms, r) BY DEF VmDone
<1>7. r.name = vm.name /\ r.listed = vm.listed /\ r.logs = vm.logs OBVIOUS
<1> HIDE DEF r
<1>8. PICK n : n = Len(vms) OBVIOUS
<1>9. vms \in Seq(Report) /\ vms' \in Seq(Report) BY <1>1 DEF CmdTyped
<1>10. /\ n \in Nat /\ Len(vms') = n + 1 /\ vms'[n + 1] = r
       /\ \A i \in 1 .. n : vms'[i] = vms[i]
  BY <1>6, <1>8, <1>9
<1>11. \A i \in 1 .. n : \A p \in ToSet(vms[i].listed) : KeptIn(vms[i].name, p, vms[i].logs)
  BY <1>8, <1>9, LogsKeptIs DEF LInv
<1>12. \A p \in ToSet(vm.listed) : KeptIn(vm.name, p, vm.logs)
  <2>1. ToSet(<<>>) = {} BY DEF ToSet
  <2>2. ToRead = {} BY <1>2 DEF ToRead
  <2> QED BY <1>2, <2>1, <2>2 DEF LInv, VmKept, Reading
<1>13. ASSUME NEW i \in 1 .. n + 1, NEW p \in ToSet(vms'[i].listed)
       PROVE  KeptIn(vms[i].name, p, vms[i].logs)'
  <2>1. CASE i \in 1 .. n BY <1>3, <1>10, <1>11, <2>1 DEF KeptIn
  <2>2. CASE i = n + 1 BY <1>3, <1>7, <1>10, <1>12, <2>2 DEF KeptIn
  <2> QED BY <1>10, <2>1, <2>2
<1>14. \A i \in 1 .. Len(vms') : \A p \in ToSet(vms'[i].listed) :
          KeptIn(vms[i].name, p, vms[i].logs)'
  BY <1>10, <1>13
<1>15. LogsKept'
  <2>1. ASSUME NEW i \in DOMAIN vms', NEW j \in DOMAIN vms'[i].listed
        PROVE  LET p == vms'[i].listed[j] IN
               \/ <<vms'[i].name, p>> \in disturbed'
               \/ "C" \in ToSet(home'.logs[vms'[i].name][p])
               \/ \E l \in ToSet(vms'[i].logs) : l.path = p
    <3>1. i \in 1 .. Len(vms') BY <1>9
    <3>2. vms'[i] \in Report BY <1>9
    <3>3. vms'[i].listed \in Seq(Paths) BY <3>2 DEF Report
    <3>4. vms'[i].listed[j] \in ToSet(vms'[i].listed) BY <3>3, ToSetFacts
    <3>5. KeptIn(vms[i].name, vms[i].listed[j], vms[i].logs)' BY <1>14, <3>1, <3>4
    <3> QED BY <3>5 DEF KeptIn
  <2> QED BY <2>1 DEF LogsKept
<1> QED BY <1>1, <1>4, <1>5, <1>15 DEF LInv

LEMMA EngineKeeps == ASSUME LInv, Engine PROVE LInv'
<1>1. EnvTyped /\ CmdTyped BY DEF LInv
<1>2. /\ EnvTyped' /\ disturbed \subseteq disturbed'
      /\ \A v \in Vms, p \in Paths : Persists(v, p)
  BY <1>1, EngineStep
<1>3. UNCHANGED <<pc, opts, sections, queue, vm, file, vms, report, stamp, entries, output, exit>>
  BY DEF Engine, LogGrows, LogCut, LogRemoved, VmRemoved, Changes
<1>4. CmdTyped' BY <1>1, <1>3 DEF CmdTyped
<1>5. ASSUME NEW v \in Vms, NEW p \in Paths, NEW logs, KeptIn(v, p, logs)
      PROVE  \/ <<v, p>> \in disturbed'
             \/ "C" \in ToSet(home'.logs[v][p])
             \/ \E l \in ToSet(logs) : l.path = p
  BY <1>2, <1>5 DEF KeptIn, Persists
<1>6. vm \in VmReport /\ vms \in Seq(Report) /\ file \in Opened BY <1>1 DEF CmdTyped
<1>7. LogsKept'
  <2>1. ASSUME NEW i \in DOMAIN vms, NEW j \in DOMAIN vms[i].listed
        PROVE  LET p == vms[i].listed[j] IN
               \/ <<vms[i].name, p>> \in disturbed'
               \/ "C" \in ToSet(home'.logs[vms[i].name][p])
               \/ \E l \in ToSet(vms[i].logs) : l.path = p
    <3>1. vms[i] \in Report BY <1>6
    <3>2. vms[i].name \in Vms /\ vms[i].listed[j] \in Paths BY <3>1 DEF Report
    <3>3. KeptIn(vms[i].name, vms[i].listed[j], vms[i].logs) BY DEF LInv, LogsKept, KeptIn
    <3> QED BY <1>5, <3>2, <3>3
  <2> QED BY <1>3, <2>1 DEF LogsKept
<1>8. ASSUME pc \in Reading
      PROVE  VmKept' /\ StillThere' /\ NotShorter'
  <2>1. /\ vm.name \in Vms /\ ToSet(vm.listed) \subseteq Paths
        /\ ToSet(vm.files) \subseteq Paths /\ ToRead \subseteq Paths
    <3>1. vm.listed \in Seq(Paths) /\ vm.files \in Seq(Paths) BY <1>6 DEF VmReport
    <3>2. vm.name \in Vms /\ (pc \in {"open", "read"} => file.path \in Paths)
      BY <1>1, <1>8 DEF CmdTyped, Reading, Within
    <3> QED BY <3>1, <3>2, ToSetFacts DEF ToRead
  <2>2. ToRead' = ToRead BY <1>3 DEF ToRead
  <2>3. VmKept'
    <3>1. \A p \in ToSet(vm.listed) :
            p \in ToSet(vm.files) \/ p \in ToRead \/ KeptIn(vm.name, p, vm.logs)
      BY <1>8 DEF LInv, VmKept
    <3>2. \A p \in ToSet(vm.listed) :
            KeptIn(vm.name, p, vm.logs) => KeptIn(vm.name, p, vm.logs)'
      BY <1>3, <1>5, <2>1 DEF KeptIn
    <3> QED BY <1>3, <2>2, <3>1, <3>2 DEF VmKept
  <2>4. StillThere'
    <3>1. \A p \in ToSet(vm.files) \union ToRead :
            <<vm.name, p>> \in disturbed \/ Exists(home.logs[vm.name][p])
      BY <1>8 DEF LInv, StillThere
    <3>2. \A p \in ToSet(vm.files) \union ToRead : Persists(vm.name, p) BY <1>2, <2>1
    <3>3. \A p \in ToSet(vm.files) \union ToRead :
            <<vm.name, p>> \in disturbed' \/ Exists(home'.logs[vm.name][p])
      BY <1>2, <3>1, <3>2 DEF Persists
    <3> QED BY <1>3, <2>2, <3>3 DEF StillThere
  <2>5. NotShorter'
    <3> SUFFICES ASSUME pc \in {"open", "read"}, <<vm.name, file.path>> \notin disturbed'
                 PROVE  /\ pc = "open" => file.len <= Len(home'.logs[vm.name][file.path])
                        /\ pc = "read" => Fits(file.pos, Len(home'.logs[vm.name][file.path]))
      BY <1>3 DEF NotShorter
    <3>1. PICK a, b, k, m : /\ k = Len(home.logs[vm.name][file.path])
                            /\ m = Len(home'.logs[vm.name][file.path])
                            /\ a = file.len /\ b = file.pos
      OBVIOUS
    <3>2. <<vm.name, file.path>> \notin disturbed BY <1>2
    <3>3. (pc = "open" => a <= k) /\ (pc = "read" => Fits(b, k))
      BY <3>1, <3>2 DEF LInv, NotShorter
    <3>4. file.path \in Paths /\ a \in Nat /\ b \in Nat
      BY <1>1, <1>6, <3>1 DEF CmdTyped, Opened
    <3>5. k \in Nat BY <1>1, <2>1, <3>1, <3>4, HomeFacts DEF EnvTyped
    <3>6. m \in Nat
      <4>1. home' \in Home BY <1>2 DEF EnvTyped
      <4>2. home'.logs[vm.name][file.path] \in Text BY <2>1, <3>4, <4>1 DEF Home
      <4>3. home'.logs[vm.name][file.path] \in Seq(STRING) BY <4>2 DEF Text
      <4> QED BY <3>1, <4>3
    <3>7. k <= m
      <4>1. Persists(vm.name, file.path) BY <1>2, <2>1, <3>4
      <4> QED BY <3>1, <4>1 DEF Persists
    <3>8. a <= k => a <= m BY <3>4, <3>5, <3>6, <3>7
    <3>9. Fits(b, k) => Fits(b, m)
      <4>1. TailBytes \in Nat BY LimitsAssumption
      <4> QED BY <3>4, <3>5, <3>6, <3>7, <4>1 DEF Fits
    <3> QED BY <3>1, <3>3, <3>8, <3>9
  <2> QED BY <2>3, <2>4, <2>5
<1>9. ASSUME pc \notin Reading PROVE VmKept' /\ StillThere' /\ NotShorter'
  BY <1>3, <1>9 DEF VmKept, StillThere, NotShorter, Reading
<1> QED BY <1>2, <1>4, <1>7, <1>8, <1>9 DEF LInv

LEMMA InitLInv == Init => LInv
<1> SUFFICES ASSUME Init PROVE LInv OBVIOUS
<1> USE DEF Init
<1>1. EnvTyped BY HomesAssumption, LimitsAssumption DEF EnvTyped
<1>2. Defaults \in Options /\ Defaults.ends = NoExit /\ Defaults.waits = ""
  <2>1. "" \in STRING /\ "home" \in STRING BY PrintedAssumption DEF Printed
  <2> QED BY <2>1 DEF Defaults, Options
<1>3. CmdTyped
  <2>1. <<>> \in Text /\ <<>> \in Seq(Vms) /\ <<>> \in Seq(Report) BY EmptyText
  <2> QED BY <1>2, <2>1, NoVmTyped DEF CmdTyped, Places, Within
<1>4. LogsKept BY DEF LogsKept
<1>5. VmKept /\ StillThere /\ NotShorter BY DEF VmKept, StillThere, NotShorter, Reading
<1> QED BY <1>1, <1>3, <1>4, <1>5 DEF LInv

LEMMA NextLInv == LInv /\ [Next]_vars => LInv'
<1> SUFFICES ASSUME LInv, [Next]_vars PROVE LInv' OBVIOUS
<1>0. EnvTyped /\ CmdTyped BY DEF LInv
<1>1. CASE UNCHANGED vars
  <2>1. UNCHANGED <<home, changes, disturbed, vms>> /\ UNCHANGED <<pc, vm, file>>
    BY <1>1 DEF vars
  <2>2. EnvTyped' BY <1>0, <2>1 DEF EnvTyped
  <2>3. CmdTyped' BY <1>0, <1>1 DEF CmdTyped, vars
  <2>4. LogsKept' BY <2>1 DEF LInv, LogsKept
  <2>5. ToRead' = ToRead BY <2>1 DEF ToRead
  <2>6. VmKept' BY <2>1, <2>5 DEF LInv, VmKept, KeptIn
  <2>7. StillThere' /\ NotShorter' BY <2>1, <2>5 DEF LInv, StillThere, NotShorter
  <2> QED BY <2>2, <2>3, <2>4, <2>6, <2>7 DEF LInv
<1>2. ASSUME NEW words \in CommandLines, Start(words) PROVE LInv'
  <2>1. CmdTyped' BY <1>0, <1>2, StartTyped
  <2>2. UNCHANGED env /\ vms' = vms /\ pc' \notin Reading
    BY <1>2 DEF Start, Ends, Goes, Reading
  <2> QED BY <2>1, <2>2, QuietStep
<1>3. CASE ListVms
  <2>1. CmdTyped' BY <1>0, <1>3, ListVmsTyped
  <2>2. UNCHANGED env /\ vms' = vms /\ pc' \notin Reading
    BY <1>3 DEF ListVms, Ends, Goes, Reading
  <2> QED BY <2>1, <2>2, QuietStep
<1>4. ASSUME NEW info \in CliTexts \union {Absent}, NEW tree \in CliTexts \union {Absent},
             VmDisks(info, tree)
      PROVE  LInv'
  <2>1. CmdTyped' BY <1>0, <1>4, VmDisksTyped
  <2>2. UNCHANGED env /\ vms' = vms /\ pc' \notin Reading BY <1>4 DEF VmDisks, Goes, Reading
  <2> QED BY <2>1, <2>2, QuietStep
<1>6. CASE VmBegin \/ VmNetwork
  <2>1. CmdTyped' BY <1>0, <1>6, VmBeginTyped, VmNetworkTyped
  <2>2. UNCHANGED env /\ vms' = vms /\ pc' \notin Reading
    BY <1>6 DEF VmBegin, VmNetwork, Goes, Reading
  <2> QED BY <2>1, <2>2, QuietStep
<1>5. CASE Render \/ WriteReport \/ TarAppend \/ TarFinish
  <2>1. CmdTyped' BY <1>0, <1>5, RestTyped
  <2>2. UNCHANGED env /\ vms' = vms /\ pc' \notin Reading
    BY <1>5 DEF Render, WriteReport, TarAppend, TarFinish, WriteFails, Ends, Goes, Reading
  <2> QED BY <2>1, <2>2, QuietStep
<1> QED BY <1>1, <1>2, <1>3, <1>4, <1>5, <1>6, ListLogsKeeps, OpenLogKeeps, SeekLogKeeps,
           ReadLogKeeps, VmDoneKeeps, EngineKeeps DEF Next, Command

(***************************************************************************)
(* For any home and any changes of it: the types, and what was listed is   *)
(* kept, as LInv has it.                                                   *)
(***************************************************************************)
THEOREM LogInvariance == Spec => []LInv
  BY InitLInv, NextLInv, PTL DEF Spec

(***************************************************************************)
(* However the engine goes on writing, cutting and removing logs: of the   *)
(* logs that collect_logs chose, each that was neither cut nor removed and *)
(* has only one-byte characters has its excerpt in the report.             *)
(***************************************************************************)
THEOREM LogsAreKept == Spec => []LogsKept
<1>1. LInv => LogsKept BY DEF LInv
<1> QED BY <1>1, LogInvariance, PTL

-----------------------------------------------------------------------------
(***************************************************************************)
(* Excerpts: that of a log that is being read, and those in the report.    *)
(***************************************************************************)
Tails(v, logs) == \A l \in ToSet(logs) : IsTailOf(l.excerpt, l.of, <<v, l.path>> \in disturbed)

XInv == ExcerptIsTail /\ Tails(vm.name, vm.logs)

LEMMA TailsLater ==
    ASSUME disturbed \subseteq disturbed', NEW v, NEW logs, Tails(v, logs)
    PROVE  \A l \in ToSet(logs) : IsTailOf(l.excerpt, l.of, <<v, l.path>> \in disturbed')
<1> SUFFICES ASSUME NEW l \in ToSet(logs)
             PROVE  IsTailOf(l.excerpt, l.of, <<v, l.path>> \in disturbed')
  OBVIOUS
<1>1. PICK x, D, E : x = <<v, l.path>> /\ D = disturbed /\ E = disturbed' OBVIOUS
<1>2. IsTailOf(l.excerpt, l.of, x \in D) BY <1>1 DEF Tails
<1>3. IsTailOf(l.excerpt, l.of, x \in E) BY <1>1, <1>2, TailStays
<1> QED BY <1>1, <1>3

LEMMA ReportsLater ==
    ASSUME disturbed \subseteq disturbed', ExcerptIsTail, vms' = vms
    PROVE  ExcerptIsTail'
<1>1. \A i \in DOMAIN vms : Tails(vms[i].name, vms[i].logs) BY DEF ExcerptIsTail, Tails
<1>2. \A i \in DOMAIN vms : \A l \in ToSet(vms[i].logs) :
         IsTailOf(l.excerpt, l.of, <<vms[i].name, l.path>> \in disturbed')
  BY <1>1, TailsLater
<1> QED BY <1>2 DEF ExcerptIsTail

LEMMA ElsewhereTails ==
    ASSUME XInv, disturbed \subseteq disturbed', vms' = vms,
           (vm'.name = vm.name /\ vm'.logs = vm.logs) \/ vm'.logs = <<>>
    PROVE  XInv'
<1>1. ExcerptIsTail' BY ReportsLater DEF XInv
<1>2. CASE vm'.name = vm.name /\ vm'.logs = vm.logs
  <2>1. PICK v, logs : v = vm.name /\ logs = vm.logs OBVIOUS
  <2>2. Tails(v, logs) BY <2>1 DEF XInv
  <2>3. \A l \in ToSet(logs) : IsTailOf(l.excerpt, l.of, <<v, l.path>> \in disturbed')
    BY <2>2, TailsLater
  <2> QED BY <1>1, <1>2, <2>1, <2>3 DEF XInv, Tails
<1>3. CASE vm'.logs = <<>>
  <2>1. ToSet(<<>>) = {} BY DEF ToSet
  <2> QED BY <1>1, <1>3, <2>1 DEF XInv, Tails
<1> QED BY <1>2, <1>3

LEMMA ReadLogTails == ASSUME LInv, XInv, ReadLog PROVE XInv'
<1>1. /\ pc = "read" /\ vms' = vms /\ disturbed' = disturbed /\ home' = home
      /\ EnvTyped /\ CmdTyped
  BY DEF ReadLog, LInv, env
<1>2. /\ vm \in VmReport /\ vm.name \in Vms /\ file.path \in Paths /\ file.pos \in Nat
      /\ vm.logs \in Seq(Log)
  BY <1>1 DEF CmdTyped, VmReport, Opened, Within
<1>3. PICK p, text, read, excerpt :
         /\ p = file.path /\ text = home.logs[vm.name][p]
         /\ read = SubSeq(text, file.pos + 1, Len(text))
         /\ excerpt = RedactText(LastLines(read))
  OBVIOUS
<1> DEFINE log == [path |-> p, name |-> FileName[p], of |-> text, excerpt |-> excerpt]
<1>4. vm' = IF IsUtf8(read) THEN [vm EXCEPT !.logs = Append(@, log)] ELSE vm
  BY <1>3 DEF ReadLog
<1>5. log.path = p /\ log.of = text /\ log.excerpt = excerpt OBVIOUS
<1> HIDE DEF log
<1>6. CASE ~IsUtf8(read) BY <1>1, <1>4, <1>6, ElsewhereTails
<1>7. CASE IsUtf8(read)
  <2>1. vm'.name = vm.name /\ vm'.logs = Append(vm.logs, log) BY <1>2, <1>4, <1>7 DEF VmReport
  <2>2. ToSet(vm'.logs) = ToSet(vm.logs) \union {log}
    <3>1. PICK S : S = Log \union {log} OBVIOUS
    <3>2. vm.logs \in Seq(S) /\ log \in S BY <1>2, <3>1, SeqMono
    <3> QED BY <2>1, <3>2, AppendSet
  <2>3. text \in Text BY <1>1, <1>2, <1>3, HomeFacts DEF EnvTyped
  <2>4. PICK x, D : x = <<vm.name, p>> /\ D = disturbed OBVIOUS
  <2>5. x \in D \/ Fits(file.pos, Len(text))
    BY <1>1, <1>3, <2>4 DEF LInv, NotShorter
  <2>6. IsTailOf(excerpt, text, x \in D) BY <1>2, <1>3, <2>3, <2>5, ExcerptFacts DEF IsRest
  <2>7. ASSUME NEW l \in ToSet(vm'.logs)
        PROVE  IsTailOf(l.excerpt, l.of, <<vm.name, l.path>> \in disturbed)
    <3>1. CASE l = log BY <1>5, <2>4, <2>6, <3>1
    <3>2. CASE l \in ToSet(vm.logs) BY <3>2 DEF XInv, Tails
    <3> QED BY <2>2, <3>1, <3>2
  <2>8. Tails(vm.name, vm.logs)' BY <1>1, <2>1, <2>7 DEF Tails
  <2>9. ExcerptIsTail' BY <1>1, ReportsLater DEF XInv
  <2> QED BY <2>8, <2>9 DEF XInv
<1> QED BY <1>6, <1>7

LEMMA VmDoneTails == ASSUME LInv, XInv, VmDone PROVE XInv'
<1>1. /\ vm' = NoVm /\ disturbed' = disturbed /\ CmdTyped BY DEF VmDone, LInv, env
<1> DEFINE r == [name |-> vm.name, listed |-> vm.listed, logs |-> vm.logs,
                 body |-> RedactText(vm.body \o LogsLine(vm.logs))]
<1>2. vms' = Append(vms, r) BY DEF VmDone
<1>3. r.name = vm.name /\ r.logs = vm.logs OBVIOUS
<1> HIDE DEF r
<1>4. PICK n : n = Len(vms) OBVIOUS
<1>5. vms \in Seq(Report) BY <1>1 DEF CmdTyped
<1>6. /\ n \in Nat /\ DOMAIN vms' = 1 .. n + 1 /\ DOMAIN vms = 1 .. n /\ vms'[n + 1] = r
      /\ \A i \in 1 .. n : vms'[i] = vms[i]
  BY <1>2, <1>4, <1>5
<1>7. ASSUME NEW i \in 1 .. n + 1, NEW l \in ToSet(vms'[i].logs)
      PROVE  IsTailOf(l.excerpt, l.of, <<vms'[i].name, l.path>> \in disturbed')
  <2>1. CASE i \in 1 .. n BY <1>1, <1>6, <1>7, <2>1 DEF XInv, ExcerptIsTail
  <2>2. CASE i = n + 1 BY <1>1, <1>3, <1>6, <1>7, <2>2 DEF XInv, Tails
  <2> QED BY <1>6, <2>1, <2>2
<1>8. ExcerptIsTail' BY <1>6, <1>7 DEF ExcerptIsTail
<1>9. Tails(vm.name, vm.logs)'
  <2>1. vm'.logs = <<>> BY <1>1 DEF NoVm
  <2>2. ToSet(<<>>) = {} BY DEF ToSet
  <2> QED BY <2>1, <2>2 DEF Tails
<1> QED BY <1>8, <1>9 DEF XInv

LEMMA NextXInv == ASSUME LInv, LInv', XInv, [Next]_vars PROVE XInv'
<1>0. vm \in VmReport BY DEF LInv, CmdTyped
<1>1. CASE UNCHANGED vars
  <2>1. vm' = vm /\ vms' = vms /\ disturbed' = disturbed BY <1>1 DEF vars
  <2> QED BY <2>1, ElsewhereTails
<1>2. CASE \/ \E words \in CommandLines : Start(words)
           \/ ListVms \/ SeekLog \/ Render \/ WriteReport \/ TarAppend \/ TarFinish
  <2>1. vm' = vm /\ vms' = vms /\ disturbed' = disturbed
    BY <1>2 DEF Start, ListVms, SeekLog, Render, WriteReport, TarAppend, TarFinish, env
  <2> QED BY <2>1, ElsewhereTails
<1>3. CASE VmBegin
  <2>1. vms' = vms /\ disturbed' = disturbed /\ vm'.logs = <<>> BY <1>3 DEF VmBegin, NoVm, env
  <2> QED BY <2>1, ElsewhereTails
<1>4. ASSUME NEW info, NEW tree, VmDisks(info, tree) PROVE XInv'
  <2>1. vms' = vms /\ disturbed' = disturbed /\ vm'.name = vm.name /\ vm'.logs = vm.logs
    BY <1>0, <1>4 DEF VmDisks, VmReport, env
  <2> QED BY <2>1, ElsewhereTails
<1>5. CASE VmNetwork \/ ListLogs \/ OpenLog
  <2>1. vms' = vms /\ disturbed' = disturbed /\ vm'.name = vm.name /\ vm'.logs = vm.logs
    BY <1>0, <1>5 DEF VmNetwork, ListLogs, OpenLog, VmReport, env
  <2> QED BY <2>1, ElsewhereTails
<1>6. CASE Engine
  <2>1. disturbed \subseteq disturbed' BY <1>6, EngineStep DEF LInv
  <2>2. vm' = vm /\ vms' = vms
    BY <1>6 DEF Engine, LogGrows, LogCut, LogRemoved, VmRemoved, Changes
  <2> QED BY <2>1, <2>2, ElsewhereTails
<1> QED BY <1>1, <1>2, <1>3, <1>4, <1>5, <1>6, ReadLogTails, VmDoneTails DEF Next, Command

(***************************************************************************)
(* An excerpt of tail_file is the redaction of an end of the log as it was *)
(* when it was read, and of a log that was not cut or removed leaves out   *)
(* only what a limit asks for, however the log grows between the looks.    *)
(***************************************************************************)
THEOREM ExcerptsAreTails == Spec => []ExcerptIsTail
<1>1. Init => XInv
  <2> SUFFICES ASSUME Init PROVE XInv OBVIOUS
  <2>1. vms = <<>> /\ vm.logs = <<>> BY DEF Init, NoVm
  <2>2. ToSet(<<>>) = {} BY DEF ToSet
  <2> QED BY <2>1, <2>2 DEF XInv, ExcerptIsTail, Tails
<1>2. LInv /\ LInv' /\ XInv /\ [Next]_vars => XInv' BY NextXInv
<1>3. XInv => ExcerptIsTail BY DEF XInv
<1> QED BY <1>1, <1>2, <1>3, LogInvariance, PTL DEF Spec

-----------------------------------------------------------------------------
(***************************************************************************)
(* A tar: sizes are rounded up to blocks as append pads the contents.      *)
(***************************************************************************)
LEMMA Quotient ==
    ASSUME NEW b \in Nat, b # 0, NEW k \in Nat, NEW s \in Nat, s < b
    PROVE  (b * k + s) \div b = k /\ (b * k + s) % b = s
  OBVIOUS

LEMMA RoundsUp ==
    ASSUME NEW n \in Nat
    PROVE  /\ ((n + Block - 1) \div Block) * Block = n + Pad(n)
           /\ Pad(n) \in Nat
<1>0. PICK b : b = Block OBVIOUS
<1>1. b \in Nat /\ b # 0 BY <1>0, LimitsAssumption
<1> DEFINE k == n \div b
           r == n % b
<1>2. k \in Nat /\ r \in Nat /\ r < b /\ n = b * k + r BY <1>1
<1>3. Pad(n) = (b - r) % b BY <1>0 DEF Pad
<1> HIDE DEF k, r
<1>4. CASE r = 0
  <2>1. Pad(n) = 0
    <3>1. (b * 1 + 0) % b = 0 BY <1>1, Quotient
    <3>2. b * 1 + 0 = b - r BY <1>1, <1>4
    <3> QED BY <1>3, <3>1, <3>2
  <2>2. (n + b - 1) \div b = k
    <3>1. b - 1 \in Nat /\ b - 1 < b BY <1>1
    <3>2. (b * k + (b - 1)) \div b = k BY <1>1, <1>2, <3>1, Quotient
    <3>3. b * k \in Nat BY <1>1, <1>2
    <3>4. n + b - 1 = b * k + (b - 1) BY <1>1, <1>2, <1>4, <3>3
    <3> QED BY <3>2, <3>4
  <2>3. k * b = b * k /\ b * k \in Nat BY <1>1, <1>2
  <2>4. n + Pad(n) = b * k BY <1>2, <1>4, <2>1, <2>3
  <2> QED BY <1>0, <2>1, <2>2, <2>3, <2>4
<1>5. CASE r # 0
  <2>1. Pad(n) = b - r
    <3>1. b - r \in Nat /\ b - r < b BY <1>1, <1>2, <1>5
    <3>2. (b * 0 + (b - r)) % b = b - r BY <1>1, <3>1, Quotient
    <3>3. b * 0 + (b - r) = b - r BY <1>1, <3>1
    <3> QED BY <1>3, <3>2, <3>3
  <2>2. (n + b - 1) \div b = k + 1
    <3>1. r - 1 \in Nat /\ r - 1 < b /\ k + 1 \in Nat BY <1>1, <1>2, <1>5
    <3>2. (b * (k + 1) + (r - 1)) \div b = k + 1 BY <1>1, <1>2, <3>1, Quotient
    <3>3. b * (k + 1) = b * k + b /\ b * k \in Nat BY <1>1, <1>2
    <3>4. n + b - 1 = b * (k + 1) + (r - 1) BY <1>1, <1>2, <1>5, <3>3
    <3> QED BY <3>2, <3>4
  <2>3. (k + 1) * b = b * k + b /\ b * k \in Nat BY <1>1, <1>2
  <2>4. b * k + b = n + (b - r) BY <1>1, <1>2, <2>3
  <2> QED BY <1>0, <1>1, <1>2, <2>1, <2>2, <2>3, <2>4
<1> QED BY <1>4, <1>5

LEMMA CatIs ==
    ASSUME NEW S, NEW s \in Seq(S), NEW t \in Seq(S), NEW w, w = s \o t,
           NEW m, m = Len(s), NEW k, k = Len(t)
    PROVE  /\ w \in Seq(S) /\ m \in Nat /\ k \in Nat /\ Len(w) = m + k
           /\ \A i \in 1 .. m : w[i] = s[i]
           /\ \A i \in 1 .. k : w[m + i] = t[i]
  BY CatFacts

LEMMA TableIsSeq ==
    ASSUME NEW S, NEW n \in Nat, NEW f \in [1 .. n -> S]
    PROVE  f \in Seq(S) /\ Len(f) = n
  OBVIOUS

Entry == [name : Text, contents : Text]
Data  == {<<"data", x>> : x \in STRING}
Heads == {<<"head", name, size>> : name \in Text, size \in Nat}
Unit  == {<<"zero">>, <<"h">>} \union Data \union Heads

(* What a reader is to find of an entry. *)
Content(e) == [j \in DOMAIN e.contents |-> <<"data", e.contents[j]>>]
AsRead(e)  == [name |-> e.name, contents |-> Content(e)]

LEMMA UnitFacts ==
    ASSUME NEW u \in Unit, u[1] = "head"
    PROVE  u[3] \in Nat
<1>1. <<"zero">>[1] # "head" /\ <<"h">>[1] # "head" OBVIOUS
<1>2. \A x \in STRING : <<"data", x>>[1] # "head" OBVIOUS
<1>3. u \in Heads BY <1>1, <1>2 DEF Unit, Data
<1> QED BY <1>3 DEF Heads

LEMMA EntryUnits ==
    ASSUME NEW e \in Entry
    PROVE  /\ TarEntry(e) \in Seq(Unit) /\ Len(e.contents) \in Nat
           /\ Len(TarEntry(e)) = Block + (Len(e.contents) + Pad(Len(e.contents)))
           /\ TarEntry(e)[1] = <<"head", e.name, Len(e.contents)>>
           /\ \A j \in 1 .. Len(e.contents) : TarEntry(e)[Block + j] = <<"data", e.contents[j]>>
<1>0. Block \in Nat /\ Block # 0 BY LimitsAssumption
<1> DEFINE n == Len(e.contents)
           H == Header(e.name, n)
           C == [i \in DOMAIN e.contents |-> <<"data", e.contents[i]>>]
           Z == Zeros(Pad(n))
<1>1. e.contents \in Seq(STRING) /\ e.name \in Text BY DEF Entry, Text
<1>2. n \in Nat /\ DOMAIN e.contents = 1 .. n /\ \A i \in 1 .. n : e.contents[i] \in STRING
  BY <1>1
<1>3. Pad(n) \in Nat BY <1>2, RoundsUp
<1>4. H \in Seq(Unit) /\ Len(H) = Block /\ H[1] = <<"head", e.name, n>>
  <2>1. H = [i \in 1 .. Block |-> IF i = 1 THEN <<"head", e.name, n>> ELSE <<"h">>]
    BY DEF Header
  <2>2. <<"head", e.name, n>> \in Unit /\ <<"h">> \in Unit
    BY <1>1, <1>2 DEF Unit, Heads
  <2> HIDE DEF H, n
  <2>3. H \in [1 .. Block -> Unit] BY <2>1, <2>2
  <2>4. 1 \in 1 .. Block BY <1>0
  <2>5. H[1] = <<"head", e.name, n>> BY <2>1, <2>4
  <2> QED BY <1>0, <2>3, <2>5, TableIsSeq
<1>5. C \in Seq(Unit) /\ Len(C) = n /\ \A j \in 1 .. n : C[j] = <<"data", e.contents[j]>>
  <2>1. \A i \in 1 .. n : <<"data", e.contents[i]>> \in Unit
    <3>1. ASSUME NEW x \in STRING PROVE <<"data", x>> \in Unit
      <4>1. <<"data", x>> \in Data BY DEF Data
      <4> QED BY <4>1 DEF Unit
    <3> QED BY <1>2, <3>1
  <2>2. C = [i \in 1 .. n |-> <<"data", e.contents[i]>>] BY <1>2
  <2> HIDE DEF C, n
  <2>3. C \in [1 .. n -> Unit] BY <2>1, <2>2
  <2> QED BY <1>2, <2>2, <2>3, TableIsSeq
<1>6. Z \in Seq(Unit) /\ Len(Z) = Pad(n)
  <2>1. <<"zero">> \in Unit BY DEF Unit
  <2>2. Z = [i \in 1 .. Pad(n) |-> <<"zero">>] BY DEF Zeros
  <2> HIDE DEF Z, n
  <2>3. Z \in [1 .. Pad(n) -> Unit] BY <2>1, <2>2
  <2> QED BY <1>3, <2>3, TableIsSeq
<1>7. TarEntry(e) = (H \o C) \o Z BY DEF TarEntry
<1> HIDE DEF H, C, Z, n
<1>8. PICK D : D = H \o C OBVIOUS
<1>9. /\ D \in Seq(Unit) /\ Len(D) = Block + n
      /\ \A j \in 1 .. Block : D[j] = H[j]
      /\ \A j \in 1 .. n : D[Block + j] = C[j]
  <2>1. PICK m, k : m = Len(H) /\ k = Len(C) OBVIOUS
  <2>2. H \in Seq(Unit) /\ C \in Seq(Unit) BY <1>4, <1>5
  <2>3. /\ D \in Seq(Unit) /\ Len(D) = m + k
        /\ \A j \in 1 .. m : D[j] = H[j]
        /\ \A j \in 1 .. k : D[m + j] = C[j]
    BY <1>8, <2>1, <2>2, CatIs
  <2> QED BY <1>4, <1>5, <2>1, <2>3
<1>10. PICK W, m, k : W = D \o Z /\ m = Len(D) /\ k = Len(Z) OBVIOUS
<1>11. W \in Seq(Unit) /\ Len(W) = (Block + n) + Pad(n) /\ \A j \in 1 .. Block + n : W[j] = D[j]
  <2>0. D \in Seq(Unit) /\ Z \in Seq(Unit) BY <1>6, <1>9
  <2>1. W \in Seq(Unit) /\ Len(W) = m + k /\ \A j \in 1 .. m : W[j] = D[j]
    BY <1>10, <2>0, CatIs
  <2>2. m = Block + n /\ k = Pad(n) BY <1>6, <1>9, <1>10
  <2> QED BY <2>1, <2>2
<1>12. 1 \in 1 .. Block + n /\ 1 \in 1 .. Block /\ \A j \in 1 .. n : Block + j \in 1 .. Block + n
  BY <1>0, <1>2
<1>13. W[1] = <<"head", e.name, n>> BY <1>4, <1>9, <1>11, <1>12
<1>14. \A j \in 1 .. n : W[Block + j] = <<"data", e.contents[j]>> BY <1>5, <1>9, <1>11, <1>12
<1>15. Len(W) = Block + (n + Pad(n)) BY <1>0, <1>2, <1>3, <1>11
<1>16. TarEntry(e) = W BY <1>7, <1>8, <1>10
<1> QED BY <1>2, <1>11, <1>13, <1>14, <1>15, <1>16 DEF n

-----------------------------------------------------------------------------
(***************************************************************************)
(* What write_tar_bundle has written after so many entries.                *)
(***************************************************************************)
Writes(B, K, f) ==
    f = [n \in 0 .. K |-> IF n = 0 THEN <<>> ELSE f[n - 1] \o TarEntry(B[n])]

LEMMA WritesExists ==
    ASSUME NEW B, NEW K \in Nat
    PROVE  \E f : Writes(B, K, f)
<1> DEFINE T == {k \in Nat : ~ \E f : Writes(B, k, f)}
<1> SUFFICES ASSUME T # {} PROVE FALSE OBVIOUS
<1>1. PICK k \in T : \A m \in T : ~(m < k) BY Smallest
<1>2. k # 0
  <2>1. Writes(B, 0, [n \in 0 .. 0 |-> <<>>]) BY DEF Writes
  <2> QED BY <2>1
<1>3. PICK f : Writes(B, k - 1, f)
  <2>1. k - 1 \in Nat /\ k - 1 < k BY <1>2
  <2> QED BY <1>1, <2>1
<1> DEFINE Rest(h, n) == IF n = 0 THEN <<>> ELSE h[n - 1] \o TarEntry(B[n])
           g == [n \in 0 .. k |-> Rest(f, n)]
<1>4. f = [n \in 0 .. k - 1 |-> Rest(f, n)] BY <1>3 DEF Writes
<1>5. ASSUME NEW n \in 0 .. k - 1 PROVE g[n] = f[n]
  <2> HIDE DEF Rest
  <2>1. n \in 0 .. k OBVIOUS
  <2>2. g[n] = Rest(f, n) BY <2>1
  <2>3. f[n] = Rest(f, n) BY <1>4
  <2> QED BY <2>2, <2>3
<1>6. ASSUME NEW n \in 0 .. k PROVE Rest(f, n) = Rest(g, n)
  <2> HIDE DEF g
  <2>1. CASE n = 0 BY <2>1
  <2>2. CASE n # 0
    <3>1. n - 1 \in 0 .. k - 1 BY <2>2
    <3>2. f[n - 1] = g[n - 1] BY <1>5, <3>1
    <3> QED BY <3>2
  <2> QED BY <2>1, <2>2
<1>7. Writes(B, k, g)
  <2>1. g = [n \in 0 .. k |-> Rest(g, n)]
    <3> HIDE DEF Rest
    <3>1. g = [n \in 0 .. k |-> Rest(f, n)] OBVIOUS
    <3> HIDE DEF g
    <3> QED BY <1>6, <3>1
  <2> QED BY <2>1 DEF Writes
<1> QED BY <1>1, <1>7

Written(B) == CHOOSE f : Writes(B, Len(B), f)

LEMMA WrittenSteps ==
    ASSUME NEW B \in Seq(Entry)
    PROVE  /\ Written(B)[0] = <<>>
           /\ \A n \in 1 .. Len(B) : Written(B)[n] = Written(B)[n - 1] \o TarEntry(B[n])
           /\ \A n \in 0 .. Len(B) : Written(B)[n] \in Seq(Unit)
<1> DEFINE K == Len(B)
           f == Written(B)
<1>0. K \in Nat OBVIOUS
<1>1. Writes(B, K, f) BY <1>0, WritesExists DEF Written
<1> HIDE DEF f
<1>2. f[0] = <<>> BY <1>0, <1>1 DEF Writes
<1>3. ASSUME NEW n \in 1 .. K PROVE f[n] = f[n - 1] \o TarEntry(B[n])
  <2>1. n \in 0 .. K /\ n # 0 OBVIOUS
  <2> QED BY <1>1, <2>1 DEF Writes
<1> DEFINE T == {n \in 0 .. K : f[n] \notin Seq(Unit)}
<1>4. T = {}
  <2> SUFFICES ASSUME T # {} PROVE FALSE OBVIOUS
  <2>0. T \subseteq Nat OBVIOUS
  <2>1. PICK n \in T : \A m \in T : ~(m < n) BY <2>0, Smallest
  <2>2. n # 0
    <3>1. <<>> \in Seq(Unit) OBVIOUS
    <3> QED BY <1>2, <3>1
  <2>3. n \in 1 .. K /\ n - 1 \in 0 .. K /\ n - 1 < n BY <1>0, <2>2
  <2>4. f[n - 1] \in Seq(Unit) BY <2>1, <2>3
  <2>5. B[n] \in Entry BY <2>3
  <2>6. TarEntry(B[n]) \in Seq(Unit) BY <2>5, EntryUnits
  <2>7. f[n - 1] \o TarEntry(B[n]) \in Seq(Unit)
    <3>1. \A a, b \in Seq(Unit) : a \o b \in Seq(Unit) OBVIOUS
    <3> QED BY <2>4, <2>6, <3>1
  <2>8. f[n] \in Seq(Unit) BY <1>3, <2>3, <2>7
  <2> QED BY <2>1, <2>8
<1> QED BY <1>2, <1>3, <1>4 DEF f

LEMMA WrittenLength ==
    ASSUME NEW B \in Seq(Entry), NEW n \in 0 .. Len(B)
    PROVE  /\ Len(Written(B)[n]) \in Nat
           /\ n # Len(B) =>
                Len(Written(B)[n + 1]) = Len(Written(B)[n]) + Block
                    + (Len(B[n + 1].contents) + Pad(Len(B[n + 1].contents)))
<1>0. Len(B) \in Nat /\ n \in Nat OBVIOUS
<1>1. PICK s : s = Written(B)[n] OBVIOUS
<1>2. s \in Seq(Unit) BY <1>1, WrittenSteps
<1>3. Len(s) \in Nat BY <1>2
<1>4. ASSUME n # Len(B)
      PROVE  Len(Written(B)[n + 1]) = Len(Written(B)[n]) + Block
                    + (Len(B[n + 1].contents) + Pad(Len(B[n + 1].contents)))
  <2>1. n + 1 \in 1 .. Len(B) /\ (n + 1) - 1 = n BY <1>0, <1>4
  <2>2. PICK e : e = B[n + 1] OBVIOUS
  <2>3. e \in Entry BY <2>1, <2>2
  <2>4. PICK t : t = TarEntry(e) OBVIOUS
  <2>5. /\ t \in Seq(Unit) /\ Len(e.contents) \in Nat
        /\ Len(t) = Block + (Len(e.contents) + Pad(Len(e.contents)))
    BY <2>3, <2>4, EntryUnits
  <2>6. PICK w : w = Written(B)[n + 1] OBVIOUS
  <2>7. w = s \o t BY <1>1, <2>1, <2>2, <2>4, <2>6, WrittenSteps
  <2>8. PICK m, k : m = Len(s) /\ k = Len(t) OBVIOUS
  <2>9. Len(w) = m + k
    <3>1. t \in Seq(Unit) BY <2>5
    <3> QED BY <1>2, <2>7, <2>8, <3>1, CatIs
  <2>10. Pad(Len(e.contents)) \in Nat /\ Block \in Nat BY <2>5, RoundsUp, LimitsAssumption
  <2>11. PICK c : c = Len(e.contents) + Pad(Len(e.contents)) OBVIOUS
  <2>12. c \in Nat BY <2>5, <2>10, <2>11
  <2>13. m \in Nat /\ k = Block + c BY <1>3, <2>5, <2>8, <2>11
  <2>14. Len(w) = m + Block + c BY <2>9, <2>10, <2>12, <2>13
  <2> QED BY <1>1, <2>2, <2>6, <2>8, <2>11, <2>14
<1> QED BY <1>1, <1>3, <1>4

(* What has been written stays where it is. *)
Begins(s, A) == Len(s) <= Len(A) /\ \A i \in 1 .. Len(s) : A[i] = s[i]

LEMMA BeginsFacts ==
    ASSUME NEW s \in Seq(Unit), NEW t \in Seq(Unit), NEW A \in Seq(Unit), Begins(s \o t, A)
    PROVE  /\ Begins(s, A)
           /\ \A i \in 1 .. Len(t) : A[Len(s) + i] = t[i]
           /\ Len(s) + Len(t) <= Len(A)
<1>1. PICK w, m, k : w = s \o t /\ m = Len(s) /\ k = Len(t) OBVIOUS
<1>2. /\ w \in Seq(Unit) /\ m \in Nat /\ k \in Nat /\ Len(w) = m + k
      /\ \A i \in 1 .. m : w[i] = s[i]
      /\ \A i \in 1 .. k : w[m + i] = t[i]
  BY <1>1, CatIs
<1>3. m + k <= Len(A) /\ \A i \in 1 .. m + k : A[i] = w[i] BY <1>1, <1>2 DEF Begins
<1>4. Len(A) \in Nat OBVIOUS
<1>5. \A i \in 1 .. m : i \in 1 .. m + k BY <1>2
<1>6. \A i \in 1 .. k : m + i \in 1 .. m + k BY <1>2
<1>7. m <= Len(A) BY <1>2, <1>3, <1>4
<1>8. Begins(s, A) BY <1>1, <1>2, <1>3, <1>5, <1>7 DEF Begins
<1>9. \A i \in 1 .. k : A[m + i] = t[i] BY <1>2, <1>3, <1>6
<1> QED BY <1>1, <1>3, <1>8, <1>9

LEMMA WrittenBegins ==
    ASSUME NEW B \in Seq(Entry), NEW A \in Seq(Unit), Begins(Written(B)[Len(B)], A),
           NEW n \in 0 .. Len(B)
    PROVE  Begins(Written(B)[n], A)
<1> DEFINE K == Len(B)
           T == {k \in 0 .. K : ~Begins(Written(B)[K - k], A)}
<1>0. K \in Nat OBVIOUS
<1>1. T = {}
  <2> SUFFICES ASSUME T # {} PROVE FALSE OBVIOUS
  <2>0. T \subseteq Nat OBVIOUS
  <2>1. PICK k \in T : \A m \in T : ~(m < k) BY <2>0, Smallest
  <2>2. k # 0
    <3>1. K - 0 = K BY <1>0
    <3> QED BY <3>1
  <2>3. k \in 1 .. K /\ k - 1 \in 0 .. K /\ k - 1 < k BY <1>0, <2>2
  <2>4. Begins(Written(B)[K - (k - 1)], A) BY <2>1, <2>3
  <2>5. PICK p : p = K - k OBVIOUS
  <2>6. K - (k - 1) = p + 1 /\ p \in 0 .. K /\ p + 1 \in 1 .. K /\ (p + 1) - 1 = p
    BY <1>0, <2>3, <2>5
  <2>7. Written(B)[p + 1] = Written(B)[p] \o TarEntry(B[p + 1]) BY <2>6, WrittenSteps
  <2>8. Written(B)[p] \in Seq(Unit) BY <2>6, WrittenSteps
  <2>9. B[p + 1] \in Entry BY <2>6
  <2>10. TarEntry(B[p + 1]) \in Seq(Unit) BY <2>9, EntryUnits
  <2>11. Begins(Written(B)[p] \o TarEntry(B[p + 1]), A) BY <2>4, <2>6, <2>7
  <2>12. Begins(Written(B)[p], A) BY <2>8, <2>10, <2>11, BeginsFacts
  <2> QED BY <2>1, <2>5, <2>12
<1>2. K - n \in 0 .. K /\ K - (K - n) = n BY <1>0
<1> QED BY <1>1, <1>2

-----------------------------------------------------------------------------
(***************************************************************************)
(* The reader: TarEntries satisfies its equation, as every header sends it *)
(* forward.                                                                *)
(***************************************************************************)
Forward(off, size) == off + Block + ((size + Block - 1) \div Block) * Block
Reads(A, f, off) ==
    IF off + Block > Len(A) \/ A[off + 1] = <<"zero">> THEN <<>>
    ELSE IF A[off + 1][1] # "head" \/ Forward(off, A[off + 1][3]) > Len(A) THEN <<"broken">>
    ELSE <<[name     |-> A[off + 1][2],
            contents |-> SubSeq(A, off + Block + 1, off + Block + A[off + 1][3])]>>
         \o f[Forward(off, A[off + 1][3])]
ReadsFrom(A, p, f) == f = [off \in p .. Len(A) |-> Reads(A, f, off)]

LEMMA GoesForward ==
    ASSUME NEW off \in Nat, NEW size \in Nat
    PROVE  Forward(off, size) = off + Block + (size + Pad(size)) /\ Forward(off, size) \in Nat
           /\ Forward(off, size) > off
<1>1. Block \in Nat /\ Block # 0 BY LimitsAssumption
<1>2. PICK c : c = size + Pad(size) OBVIOUS
<1>3. c \in Nat /\ ((size + Block - 1) \div Block) * Block = c BY <1>2, RoundsUp
<1>4. Forward(off, size) = off + Block + c BY <1>3 DEF Forward
<1>5. off + Block + c \in Nat /\ off + Block + c > off BY <1>1, <1>3
<1> QED BY <1>2, <1>4, <1>5

LEMMA ReadsSame ==
    ASSUME NEW A \in Seq(Unit), NEW off \in 0 .. Len(A), NEW f, NEW g,
           \A q \in off + 1 .. Len(A) : f[q] = g[q]
    PROVE  Reads(A, f, off) = Reads(A, g, off)
<1>0. Len(A) \in Nat /\ off \in Nat OBVIOUS
<1>1. Block \in Nat /\ Block # 0 BY LimitsAssumption
<1>2. CASE off + Block > Len(A) \/ A[off + 1] = <<"zero">> BY <1>2 DEF Reads
<1>3. CASE /\ ~(off + Block > Len(A) \/ A[off + 1] = <<"zero">>)
           /\ A[off + 1][1] # "head" \/ Forward(off, A[off + 1][3]) > Len(A)
  BY <1>3 DEF Reads
<1>4. CASE /\ ~(off + Block > Len(A) \/ A[off + 1] = <<"zero">>)
           /\ ~(A[off + 1][1] # "head" \/ Forward(off, A[off + 1][3]) > Len(A))
  <2>1. off + 1 \in 1 .. Len(A) BY <1>0, <1>1, <1>4
  <2>2. A[off + 1] \in Unit BY <2>1
  <2>3. A[off + 1][3] \in Nat BY <1>4, <2>2, UnitFacts
  <2>4. PICK q : q = Forward(off, A[off + 1][3]) OBVIOUS
  <2>5. q \in Nat /\ q > off BY <1>0, <2>3, <2>4, GoesForward
  <2>6. q <= Len(A) BY <1>0, <1>4, <2>4, <2>5
  <2>7. q \in off + 1 .. Len(A) BY <1>0, <2>5, <2>6
  <2>8. f[q] = g[q] BY <2>7
  <2> QED BY <1>4, <2>4, <2>8 DEF Reads
<1> QED BY <1>2, <1>3, <1>4

LEMMA ReadsExist ==
    ASSUME NEW A \in Seq(Unit)
    PROVE  \E f : ReadsFrom(A, 0, f)
<1> DEFINE L == Len(A)
           T == {k \in 0 .. L : ~ \E f : ReadsFrom(A, L - k, f)}
<1>0. L \in Nat OBVIOUS
<1>1. T = {}
  <2> SUFFICES ASSUME T # {} PROVE FALSE OBVIOUS
  <2>0. T \subseteq Nat OBVIOUS
  <2>1. PICK k \in T : \A m \in T : ~(m < k) BY <2>0, Smallest
  <2>2. PICK p : p = L - k OBVIOUS
  <2>3. k \in 0 .. L /\ p \in 0 .. L BY <1>0, <2>2
  <2>4. PICK f : k # 0 => ReadsFrom(A, p + 1, f)
    <3>1. CASE k = 0 BY <3>1
    <3>2. CASE k # 0
      <4>1. k - 1 \in 0 .. L /\ k - 1 < k /\ L - (k - 1) = p + 1 BY <1>0, <2>2, <2>3, <3>2
      <4>2. k - 1 \notin T BY <2>1, <4>1
      <4>3. \E f : ReadsFrom(A, L - (k - 1), f) BY <4>1, <4>2
      <4> QED BY <4>1, <4>3
    <3> QED BY <3>1, <3>2
  <2> DEFINE g == [off \in p .. L |-> Reads(A, f, off)]
  <2>5. ASSUME NEW q \in p + 1 .. L PROVE f[q] = g[q]
    <3>1. k # 0 BY <1>0, <2>2, <2>3
    <3>2. f = [off \in p + 1 .. L |-> Reads(A, f, off)] BY <2>4, <3>1 DEF ReadsFrom
    <3>3. f[q] = Reads(A, f, q) BY <3>2
    <3>4. q \in p .. L BY <1>0, <2>3
    <3>5. g[q] = Reads(A, f, q) BY <3>4
    <3> QED BY <3>3, <3>5
  <2>6. ASSUME NEW off \in p .. L PROVE Reads(A, f, off) = Reads(A, g, off)
    <3> HIDE DEF g
    <3>1. off \in 0 .. L /\ \A q \in off + 1 .. L : q \in p + 1 .. L BY <1>0, <2>3
    <3>2. \A q \in off + 1 .. Len(A) : f[q] = g[q] BY <2>5, <3>1
    <3> QED BY <3>1, <3>2, ReadsSame
  <2>7. ReadsFrom(A, p, g)
    <3>1. g = [off \in p .. L |-> Reads(A, f, off)] OBVIOUS
    <3> HIDE DEF g
    <3>2. g = [off \in p .. L |-> Reads(A, g, off)] BY <2>6, <3>1
    <3> QED BY <3>2 DEF ReadsFrom
  <2> QED BY <2>1, <2>2, <2>7
<1>2. L \in 0 .. L /\ L - L = 0 BY <1>0
<1> QED BY <1>1, <1>2

LEMMA ReaderEquation ==
    ASSUME NEW A \in Seq(Unit)
    PROVE  \E f : /\ TarEntries(A) = f[0]
                  /\ \A off \in 0 .. Len(A) : f[off] = Reads(A, f, off)
<1> DEFINE f == CHOOSE h : ReadsFrom(A, 0, h)
<1>1. ReadsFrom(A, 0, f) BY ReadsExist
<1>2. TarEntries(A) = f[0] BY DEF TarEntries, ReadsFrom, Reads, Forward
<1> HIDE DEF f
<1>3. \A off \in 0 .. Len(A) : f[off] = Reads(A, f, off) BY <1>1 DEF ReadsFrom
<1> QED BY <1>2, <1>3

LEMMA SubIs ==
    ASSUME NEW S, NEW A \in Seq(S), NEW a \in Nat, NEW c \in Nat, a + c <= Len(A),
           NEW h \in Seq(S), Len(h) = c, \A j \in 1 .. c : A[a + j] = h[j]
    PROVE  SubSeq(A, a + 1, a + c) = h
<1>0. Len(A) \in Nat OBVIOUS
<1>1. PICK t : t = SubSeq(A, a + 1, a + c) OBVIOUS
<1>2. PICK p, q : p = a + 1 /\ q = a + c OBVIOUS
<1>3. p \in Nat /\ q \in Nat /\ p >= 1 /\ q <= Len(A) /\ p <= q + 1 BY <1>2
<1>4. t = SubSeq(A, p, q) BY <1>1, <1>2
<1>5. t = [j \in 1 .. (q + 1) - p |-> A[(p + j) - 1]] BY <1>3, <1>4
<1>6. (q + 1) - p = c /\ \A j \in 1 .. c : (p + j) - 1 = a + j BY <1>2
<1>7. t = [j \in 1 .. c |-> h[j]] BY <1>5, <1>6
<1>8. h = [j \in 1 .. c |-> h[j]] OBVIOUS
<1> QED BY <1>1, <1>7, <1>8

LEMMA ConsIs ==
    ASSUME NEW S, NEW s \in Seq(S), NEW x \in S, NEW y \in Seq(S), Len(y) = Len(s) + 1,
           y[1] = x, \A i \in 1 .. Len(s) : y[i + 1] = s[i]
    PROVE  <<x>> \o s = y
<1>1. <<x>> \in Seq(S) /\ Len(<<x>>) = 1 /\ <<x>>[1] = x OBVIOUS
<1>2. PICK u, w : u = <<x>> /\ w = u \o s OBVIOUS
<1>3. PICK k : k = Len(s) OBVIOUS
<1>4. /\ w \in Seq(S) /\ k \in Nat /\ Len(w) = 1 + k /\ w[1] = x
      /\ \A i \in 1 .. k : w[1 + i] = s[i]
  <2>1. u \in Seq(S) /\ 1 = Len(u) BY <1>1, <1>2
  <2>2. /\ w \in Seq(S) /\ k \in Nat /\ Len(w) = 1 + k /\ \A i \in 1 .. 1 : w[i] = u[i]
        /\ \A i \in 1 .. k : w[1 + i] = s[i]
    BY <1>2, <1>3, <2>1, CatIs
  <2>3. 1 \in 1 .. 1 OBVIOUS
  <2> QED BY <1>1, <1>2, <2>2, <2>3
<1>5. ASSUME NEW i \in 1 .. k + 1 PROVE w[i] = y[i]
  <2>1. CASE i = 1 BY <1>4, <2>1
  <2>2. CASE i # 1
    <3>1. PICK j : j = i - 1 OBVIOUS
    <3>2. j \in 1 .. k /\ i = j + 1 /\ i = 1 + j BY <1>4, <2>2, <3>1
    <3> QED BY <1>3, <1>4, <3>2
  <2> QED BY <2>1, <2>2
<1>6. w = [i \in 1 .. k + 1 |-> w[i]] /\ y = [i \in 1 .. k + 1 |-> y[i]]
  BY <1>3, <1>4
<1> QED BY <1>2, <1>5, <1>6

LEMMA ReadsOne ==
    ASSUME NEW B \in Seq(Entry), NEW A \in Seq(Unit), Begins(Written(B)[Len(B)], A),
           NEW n \in 0 .. Len(B) - 1, NEW f
    PROVE  Reads(A, f, Len(Written(B)[n])) =
             <<AsRead(B[n + 1])>> \o f[Len(Written(B)[n + 1])]
<1>0. Len(B) \in Nat /\ Len(A) \in Nat OBVIOUS
<1>1. n \in 0 .. Len(B) /\ n + 1 \in 1 .. Len(B) /\ n + 1 \in 0 .. Len(B) /\ (n + 1) - 1 = n
      /\ n # Len(B)
  BY <1>0
<1>2. PICK s, w, e, off, c : /\ s = Written(B)[n] /\ w = Written(B)[n + 1] /\ e = B[n + 1]
                             /\ off = Len(s) /\ c = Len(e.contents)
  OBVIOUS
<1>3. PICK t : t = TarEntry(e) OBVIOUS
<1>4. e \in Entry BY <1>1, <1>2
<1>5. s \in Seq(Unit) BY <1>1, <1>2, WrittenSteps
<1>6. off \in Nat BY <1>2, <1>5
<1>7. /\ t \in Seq(Unit) /\ c \in Nat /\ Len(t) = Block + (c + Pad(c))
      /\ t[1] = <<"head", e.name, c>>
      /\ \A j \in 1 .. c : t[Block + j] = <<"data", e.contents[j]>>
  BY <1>2, <1>3, <1>4, EntryUnits
<1>8. w = s \o t BY <1>1, <1>2, <1>3, WrittenSteps
<1>9. Begins(s \o t, A) BY <1>1, <1>2, <1>8, WrittenBegins
<1>10. t \in Seq(Unit) BY <1>7
<1>11. /\ \A i \in 1 .. Len(t) : A[off + i] = t[i]
       /\ off + Len(t) <= Len(A)
  BY <1>2, <1>5, <1>9, <1>10, BeginsFacts
<1>12. Block \in Nat /\ Block # 0 /\ Pad(c) \in Nat BY <1>7, RoundsUp, LimitsAssumption
<1>13. Len(w) = off + Block + (c + Pad(c)) BY <1>1, <1>2, WrittenLength
<1>14. Forward(off, c) = Len(w) BY <1>6, <1>7, <1>13, GoesForward
<1>15. PICK m, k : m = Len(t) /\ k = c + Pad(c) OBVIOUS
<1>16. m = Block + k /\ k \in Nat /\ c <= k BY <1>7, <1>12, <1>15
<1>17. off + m <= Len(A) /\ \A i \in 1 .. m : A[off + i] = t[i] BY <1>11, <1>15
<1>18. 1 \in 1 .. m BY <1>12, <1>16
<1>19. A[off + 1] = <<"head", e.name, c>> BY <1>7, <1>17, <1>18
<1>20. /\ A[off + 1] # <<"zero">> /\ A[off + 1][1] = "head" /\ A[off + 1][2] = e.name
       /\ A[off + 1][3] = c
  <2>1. <<"head", e.name, c>>[1] # <<"zero">>[1] OBVIOUS
  <2> QED BY <1>19, <2>1
<1>21. ~(off + Block > Len(A)) BY <1>0, <1>6, <1>12, <1>16, <1>17
<1>22. ~(Forward(off, A[off + 1][3]) > Len(A))
  <2>1. Len(w) = off + m BY <1>6, <1>12, <1>13, <1>15, <1>16
  <2>2. off + m \in Nat BY <1>6, <1>12, <1>16
  <2> QED BY <1>0, <1>14, <1>17, <1>20, <2>1, <2>2
<1>23. SubSeq(A, off + Block + 1, off + Block + c) = Content(e)
  <2>1. PICK h : h = Content(e) OBVIOUS
  <2>2. e.contents \in Seq(STRING) BY <1>4 DEF Entry, Text
  <2>3. h = [j \in 1 .. c |-> <<"data", e.contents[j]>>] BY <1>2, <2>1, <2>2 DEF Content
  <2>4. PICK a : a = off + Block OBVIOUS
  <2>5. a \in Nat /\ a + c <= Len(A) BY <1>0, <1>6, <1>7, <1>12, <1>16, <1>17, <2>4
  <2>6. ASSUME NEW j \in 1 .. c PROVE A[a + j] = h[j] /\ h[j] \in Unit
    <3>1. Block + j \in 1 .. m /\ off + (Block + j) = a + j
      BY <1>6, <1>7, <1>12, <1>16, <2>4
    <3>2. A[a + j] = t[Block + j] BY <1>17, <3>1
    <3>3. h[j] = <<"data", e.contents[j]>> BY <2>3
    <3>4. t[Block + j] \in Unit
      <4>1. Block + j \in 1 .. Len(t) BY <1>15, <3>1
      <4> QED BY <1>10, <4>1
    <3> QED BY <1>7, <3>2, <3>3, <3>4
  <2>7. h \in [1 .. c -> Unit] BY <2>3, <2>6
  <2>8. h \in Seq(Unit) /\ Len(h) = c BY <1>7, <2>7, TableIsSeq
  <2>9. SubSeq(A, a + 1, a + c) = h BY <1>7, <2>5, <2>6, <2>8, SubIs
  <2> QED BY <2>1, <2>4, <2>9
<1>24. Reads(A, f, off) = <<[name |-> e.name, contents |-> Content(e)]>> \o f[Len(w)]
  BY <1>14, <1>20, <1>21, <1>22, <1>23 DEF Reads
<1> QED BY <1>2, <1>24 DEF AsRead

(* A tar reads back as the entries that were written. *)
LEMMA ReadsBack ==
    ASSUME NEW B \in Seq(Entry)
    PROVE  TarEntries(Written(B)[Len(B)] \o Zeros(2 * Block)) = [i \in DOMAIN B |-> AsRead(B[i])]
<1> DEFINE K == Len(B)
           W == Written(B)
           R == {AsRead(e) : e \in Entry}
           X(n) == [i \in 1 .. K - n |-> AsRead(B[n + i])]
<1>0. K \in Nat /\ Block \in Nat /\ Block # 0 BY LimitsAssumption
<1>1. PICK A, Z, s : A = s \o Z /\ Z = Zeros(2 * Block) /\ s = W[K] OBVIOUS
<1>2. K \in 0 .. K /\ s \in Seq(Unit)
  <2>1. K \in 0 .. K BY <1>0
  <2>2. W[K] \in Seq(Unit) BY <2>1, WrittenSteps
  <2> QED BY <1>1, <2>1, <2>2
<1>3. PICK z : z = 2 * Block OBVIOUS
<1>4. z \in Nat /\ Block <= z BY <1>0, <1>3
<1>5. Z \in Seq(Unit) /\ Len(Z) = z /\ \A j \in 1 .. z : Z[j] = <<"zero">>
  <2>1. <<"zero">> \in Unit BY DEF Unit
  <2>2. Z = [i \in 1 .. z |-> <<"zero">>] BY <1>1, <1>3 DEF Zeros
  <2>3. Z \in [1 .. z -> Unit] BY <2>1, <2>2
  <2> QED BY <1>4, <2>2, <2>3, TableIsSeq
<1>6. PICK m : m = Len(s) OBVIOUS
<1>7. /\ A \in Seq(Unit) /\ m \in Nat /\ Len(A) = m + z
      /\ \A i \in 1 .. m : A[i] = s[i]
      /\ \A i \in 1 .. z : A[m + i] = Z[i]
  <2>1. Z \in Seq(Unit) /\ z = Len(Z) BY <1>5
  <2>2. A = s \o Z /\ s \in Seq(Unit) BY <1>1, <1>2
  <2> QED BY <1>6, <2>1, <2>2, CatIs
<1>8. Begins(W[K], A)
  <2>1. m <= Len(A) BY <1>4, <1>7
  <2> QED BY <1>1, <1>6, <1>7, <2>1 DEF Begins
<1>9. PICK f : /\ TarEntries(A) = f[0]
               /\ \A off \in 0 .. Len(A) : f[off] = Reads(A, f, off)
  BY <1>7, ReaderEquation
<1>10. ASSUME NEW n \in 0 .. K PROVE Len(W[n]) \in 0 .. Len(A)
  <2>1. Begins(W[n], A) BY <1>7, <1>8, WrittenBegins
  <2>2. Len(W[n]) <= Len(A) BY <2>1 DEF Begins
  <2>3. Len(W[n]) \in Nat BY WrittenLength
  <2>4. Len(A) \in Nat BY <1>7
  <2> QED BY <2>2, <2>3, <2>4
<1>11. f[Len(W[K])] = <<>>
  <2>1. Len(W[K]) = m /\ m \in 0 .. Len(A) BY <1>1, <1>2, <1>6, <1>10
  <2>2. 1 \in 1 .. z BY <1>0, <1>4
  <2>3. A[m + 1] = <<"zero">> BY <1>5, <1>7, <2>2
  <2>4. Reads(A, f, m) = <<>> BY <2>3 DEF Reads
  <2> QED BY <1>9, <2>1, <2>4
<1>12. ASSUME NEW n \in 0 .. K PROVE X(n) \in Seq(R) /\ Len(X(n)) = K - n
  <2>1. K - n \in Nat BY <1>0
  <2>2. ASSUME NEW i \in 1 .. K - n PROVE AsRead(B[n + i]) \in R
    <3>1. n + i \in 1 .. K BY <1>0
    <3>2. B[n + i] \in Entry BY <3>1
    <3> QED BY <3>2
  <2>3. PICK x : x = X(n) OBVIOUS
  <2>4. x \in [1 .. K - n -> R]
    <3> HIDE DEF R
    <3> QED BY <2>2, <2>3
  <2>5. x \in Seq(R) /\ Len(x) = K - n
    <3> HIDE DEF R
    <3> QED BY <2>1, <2>4, TableIsSeq
  <2> QED BY <2>3, <2>5
<1> DEFINE T == {k \in 0 .. K : f[Len(W[K - k])] # X(K - k)}
<1>13. T = {}
  <2> SUFFICES ASSUME T # {} PROVE FALSE OBVIOUS
  <2>0. T \subseteq Nat OBVIOUS
  <2>1. PICK k \in T : \A j \in T : ~(j < k) BY <2>0, Smallest
  <2>2. k # 0
    <3>1. K - 0 = K /\ K - K = 0 BY <1>0
    <3>2. X(K) = <<>> BY <3>1
    <3> QED BY <1>11, <3>1, <3>2
  <2>3. k \in 1 .. K /\ k - 1 \in 0 .. K /\ k - 1 < k BY <1>0, <2>2
  <2>4. f[Len(W[K - (k - 1)])] = X(K - (k - 1)) BY <2>1, <2>3
  <2>5. PICK p : p = K - k OBVIOUS
  <2>6. /\ K - (k - 1) = p + 1 /\ p \in 0 .. K - 1 /\ p \in 0 .. K /\ p + 1 \in 0 .. K
        /\ p + 1 \in 1 .. K /\ K - p = (K - (p + 1)) + 1
    BY <1>0, <2>3, <2>5
  <2>7. PICK off : off = Len(W[p]) OBVIOUS
  <2>8. f[off] = Reads(A, f, off) BY <1>9, <1>10, <2>6, <2>7
  <2>9. Reads(A, f, off) = <<AsRead(B[p + 1])>> \o f[Len(W[p + 1])]
    <3>1. Reads(A, f, Len(Written(B)[p])) = <<AsRead(B[p + 1])>> \o f[Len(Written(B)[p + 1])]
      <4>1. A \in Seq(Unit) /\ Begins(Written(B)[Len(B)], A) /\ p \in 0 .. Len(B) - 1
        BY <1>0, <1>7, <1>8, <2>6 DEF W
      <4> QED BY <4>1, ReadsOne
    <3> QED BY <2>7, <3>1 DEF W
  <2>10. PICK x, y, a : x = X(p + 1) /\ y = X(p) /\ a = AsRead(B[p + 1]) OBVIOUS
  <2>11. f[off] = <<a>> \o x BY <2>4, <2>6, <2>8, <2>9, <2>10
  <2>12. <<a>> \o x = y
    <3>1. x \in Seq(R) /\ y \in Seq(R) /\ Len(x) = K - (p + 1) /\ Len(y) = K - p
      BY <1>12, <2>6, <2>10
    <3>2. Len(y) = Len(x) + 1 BY <2>6, <3>1
    <3>3. a \in R
      <4>1. B[p + 1] \in Entry BY <2>6
      <4> QED BY <2>10, <4>1
    <3>4. y[1] = a
      <4>1. 1 \in 1 .. K - p BY <1>0, <2>6
      <4> QED BY <2>10, <4>1
    <3>5. \A i \in 1 .. Len(x) : y[i + 1] = x[i]
      <4> SUFFICES ASSUME NEW i \in 1 .. K - (p + 1) PROVE y[i + 1] = x[i] BY <3>1
      <4>1. i + 1 \in 1 .. K - p /\ p + (i + 1) = (p + 1) + i BY <1>0, <2>6
      <4>2. y[i + 1] = AsRead(B[p + (i + 1)]) BY <2>10, <4>1
      <4>3. x[i] = AsRead(B[(p + 1) + i]) BY <2>10
      <4> QED BY <4>1, <4>2, <4>3
    <3> HIDE DEF R
    <3> QED BY <3>1, <3>2, <3>3, <3>4, <3>5, ConsIs
  <2>13. f[Len(W[K - k])] = X(K - k) BY <2>5, <2>7, <2>10, <2>11, <2>12
  <2> QED BY <2>1, <2>13
<1>14. f[Len(W[0])] = X(0)
  <2>1. K \in 0 .. K /\ K - K = 0 BY <1>0
  <2>2. f[Len(W[K - K])] = X(K - K) BY <1>13, <2>1
  <2> HIDE DEF X, W
  <2> QED BY <2>1, <2>2
<1>15. Len(W[0]) = 0
  <2>1. W[0] = <<>> BY WrittenSteps
  <2>2. Len(<<>>) = 0 OBVIOUS
  <2> QED BY <2>1, <2>2
<1>16. X(0) = [i \in DOMAIN B |-> AsRead(B[i])]
  <2>1. K - 0 = K /\ \A i \in 1 .. K : 0 + i = i BY <1>0
  <2>2. DOMAIN B = 1 .. K OBVIOUS
  <2> QED BY <2>1, <2>2
<1> QED BY <1>1, <1>9, <1>14, <1>15, <1>16

LEMMA BundleTyped ==
    ASSUME NEW text \in Text, NEW reports \in Seq(Report)
    PROVE  BundleEntries(text, reports) \in Seq(Entry)
<1> DEFINE E(i, j) == [name     |-> <<reports[i].name, reports[i].logs[j].name>>,
                       contents |-> reports[i].logs[j].excerpt]
           L(i) == [j \in DOMAIN reports[i].logs |-> E(i, j)]
           ss == [i \in DOMAIN reports |-> L(i)]
           e == [name |-> <<"report">>, contents |-> text]
<1>1. e \in Entry
  <2>1. <<"report">> \in Text BY PrintedAssumption, Word1 DEF Printed
  <2> QED BY <2>1 DEF Entry
<1>2. ASSUME NEW i \in 1 .. Len(reports) PROVE L(i) \in Seq(Entry)
  <2>1. reports[i] \in Report OBVIOUS
  <2>2. reports[i].name \in STRING /\ reports[i].logs \in Seq(Log) BY <2>1, NamesFacts DEF Report
  <2>3. ASSUME NEW j \in 1 .. Len(reports[i].logs) PROVE E(i, j) \in Entry
    <3>1. reports[i].logs[j] \in Log BY <2>2
    <3>2. reports[i].logs[j].name \in STRING /\ reports[i].logs[j].excerpt \in Text
      BY <3>1 DEF Log
    <3>3. <<reports[i].name, reports[i].logs[j].name>> \in Text BY <2>2, <3>2, Word2
    <3> QED BY <3>2, <3>3 DEF Entry
  <2>4. PICK k, x : k = Len(reports[i].logs) /\ x = L(i) OBVIOUS
  <2>5. k \in Nat /\ DOMAIN reports[i].logs = 1 .. k BY <2>2, <2>4
  <2> HIDE DEF E
  <2>6. x = [j \in 1 .. k |-> E(i, j)] BY <2>4, <2>5
  <2>7. x \in [1 .. k -> Entry] BY <2>3, <2>4, <2>6
  <2>8. x \in Seq(Entry) BY <2>5, <2>7, TableIsSeq
  <2> QED BY <2>4, <2>8
<1>3. ss \in Seq(Seq(Entry))
  <2>1. Len(reports) \in Nat /\ DOMAIN reports = 1 .. Len(reports) OBVIOUS
  <2> HIDE DEF L
  <2>2. ss = [i \in 1 .. Len(reports) |-> L(i)] BY <2>1
  <2>3. ss \in [1 .. Len(reports) -> Seq(Entry)] BY <1>2, <2>2
  <2> HIDE DEF ss
  <2> QED BY <2>1, <2>3, TableIsSeq
<1>4. FlattenSeq(ss) \in Seq(Entry)
  <2> HIDE DEF ss
  <2> QED BY <1>3, FlattenTyped
<1>5. BundleEntries(text, reports) = <<e>> \o FlattenSeq(ss) BY DEF BundleEntries
<1> HIDE DEF e, ss
<1>6. <<e>> \in Seq(Entry) BY <1>1
<1> QED BY <1>4, <1>5, <1>6, CatFacts

-----------------------------------------------------------------------------
(***************************************************************************)
(* The bundle while it is written: what is out are the first n entries of  *)
(* it, and the others are yet to be appended.                              *)
(***************************************************************************)
Planned    == BundleEntries(report, vms)
Left(B, n) == [i \in 1 .. Len(B) - n |-> B[n + i]]
Partly ==
    /\ pc \notin {"tar", "done"} => output = <<>>
    /\ pc = "write" => ~IsTar(opts.output)
    /\ pc = "tar" => /\ IsTar(opts.output)
                     /\ \E n \in 0 .. Len(Planned) :
                           entries = Left(Planned, n) /\ output = Written(Planned)[n]

(* With --vm: that VM is yet to be collected, is being collected, or is the
   one in the report. *)
Only == Len(vms) = 1 /\ vms[1].name = opts.vm
OneVm ==
    /\ pc \in {"start", "list"} => vms = <<>>
    /\ opts.vm # "" =>
        /\ pc = "vms" => (vms = <<>> /\ queue = <<opts.vm>>) \/ (queue = <<>> /\ Only)
        /\ pc \in Within => vms = <<>> /\ queue = <<>> /\ vm.name = opts.vm
        /\ pc \in {"write", "tar"} => Only

TInv == LInv /\ Partly /\ OneVm /\ BundleIsComplete

LEMMA LeftFacts ==
    ASSUME NEW B \in Seq(Entry), NEW n \in 0 .. Len(B)
    PROVE  /\ Left(B, 0) = B
           /\ Left(B, n) = <<>> <=> n = Len(B)
           /\ n # Len(B) => Head(Left(B, n)) = B[n + 1] /\ Tail(Left(B, n)) = Left(B, n + 1)
<1> DEFINE K == Len(B)
<1>0. K \in Nat /\ n \in 0 .. K /\ K - n \in Nat OBVIOUS
<1>1. Left(B, 0) = B
  <2>1. K - 0 = K /\ \A i \in 1 .. K : 0 + i = i BY <1>0
  <2>2. B = [i \in 1 .. K |-> B[i]] OBVIOUS
  <2> QED BY <2>1, <2>2 DEF Left
<1>2. PICK r : r = Left(B, n) OBVIOUS
<1>3. r = [i \in 1 .. K - n |-> B[n + i]] BY <1>2 DEF Left
<1>4. r \in Seq(Entry) /\ Len(r) = K - n
  <2>1. ASSUME NEW i \in 1 .. K - n PROVE B[n + i] \in Entry
    <3>1. n + i \in 1 .. K BY <1>0
    <3> QED BY <3>1
  <2>2. r \in [1 .. K - n -> Entry] BY <1>3, <2>1
  <2> QED BY <1>0, <2>2, TableIsSeq
<1>5. r = <<>> <=> n = K
  <2>1. r = <<>> <=> Len(r) = 0 BY <1>4
  <2>2. K - n = 0 <=> n = K BY <1>0
  <2> QED BY <1>4, <2>1, <2>2
<1>6. ASSUME n # K PROVE Head(r) = B[n + 1] /\ Tail(r) = Left(B, n + 1)
  <2>1. r # <<>> BY <1>5, <1>6
  <2>2. 1 \in 1 .. K - n BY <1>0, <1>6
  <2>3. Head(r) = r[1] /\ r[1] = B[n + 1] BY <1>3, <1>4, <2>1, <2>2
  <2>4. Tail(r) = [i \in 1 .. Len(r) - 1 |-> r[i + 1]]
    <3>1. r \in Seq(Entry) BY <1>4
    <3>2. PICK t, k : t = Tail(r) /\ k = Len(r) OBVIOUS
    <3>3. t \in Seq(Entry) /\ Len(t) = k - 1 /\ \A i \in 1 .. k - 1 : t[i] = r[i + 1]
      BY <2>1, <3>1, <3>2
    <3>4. t = [i \in 1 .. k - 1 |-> t[i]] BY <3>3
    <3> QED BY <3>2, <3>3, <3>4
  <2>5. Len(r) - 1 = K - (n + 1) BY <1>0, <1>4
  <2>6. ASSUME NEW i \in 1 .. K - (n + 1) PROVE r[i + 1] = B[(n + 1) + i]
    <3>1. i + 1 \in 1 .. K - n /\ n + (i + 1) = (n + 1) + i BY <1>0, <1>6
    <3>2. r[i + 1] = B[n + (i + 1)] BY <1>3, <3>1
    <3> QED BY <3>1, <3>2
  <2>7. Tail(r) = [i \in 1 .. K - (n + 1) |-> B[(n + 1) + i]] BY <2>4, <2>5, <2>6
  <2> QED BY <2>3, <2>7 DEF Left
<1> QED BY <1>1, <1>2, <1>5, <1>6

(* A step before the report is rendered writes nothing. *)
LEMMA EarlyStep ==
    ASSUME TInv, LInv', UNCHANGED <<output, entries>>, OneVm',
           pc \notin {"tar", "write", "done"},
           pc' \notin {"tar", "write"}, pc' = "done" => exit' # 0 \/ opts'.ends # NoExit
    PROVE  TInv'
<1>1. output' = <<>> BY DEF TInv, Partly
<1>2. Partly' BY <1>1 DEF Partly
<1>3. exit' = 0 => pc' = "done"
  <2>1. CmdTyped' BY DEF LInv
  <2>2. 0 # NoExit BY CodesDiffer
  <2> QED BY <2>1, <2>2 DEF CmdTyped
<1>4. ~(exit' = 0 /\ opts'.ends = NoExit) BY <1>3
<1>5. BundleIsComplete' BY <1>4 DEF BundleIsComplete
<1> QED BY <1>2, <1>5 DEF TInv

LEMMA ListVmsOne == ASSUME TInv, ListVms PROVE OneVm'
<1>1. pc = "list" /\ vms' = vms /\ opts' = opts /\ vms = <<>> BY DEF ListVms, TInv, OneVm
<1>2. PICK S : S = IF opts.home = "home" THEN home.dirs ELSE {} OBVIOUS
<1>3. PICK names : names = Among(VmName, S) OBVIOUS
<1>4. IF opts.vm # "" /\ opts.vm \notin ToSet(names)
      THEN Ends(1) /\ UNCHANGED queue
      ELSE /\ queue' = IF opts.vm = "" THEN names ELSE Among(names, {opts.vm})
           /\ Goes("vms")
  BY <1>2, <1>3 DEF ListVms
<1>5. CASE opts.vm # "" /\ opts.vm \notin ToSet(names)
  BY <1>1, <1>4, <1>5 DEF OneVm, Ends, Within
<1>6. CASE opts.vm = "" BY <1>1, <1>4, <1>6 DEF OneVm, Goes
<1>7. CASE opts.vm # "" /\ opts.vm \in ToSet(names)
  <2>1. Among(names, {opts.vm}) = <<opts.vm>> BY <1>3, <1>7, NamesListed
  <2>2. queue' = <<opts.vm>> /\ pc' = "vms" BY <1>4, <1>7, <2>1 DEF Goes
  <2> QED BY <1>1, <2>2 DEF OneVm, Within
<1> QED BY <1>5, <1>6, <1>7

LEMMA VmBeginOne ==
    ASSUME TInv, VmBegin
    PROVE  OneVm'
<1>1. pc = "vms" /\ pc' = "disks" /\ UNCHANGED <<opts, vms>> /\ queue # <<>>
      /\ queue' = Tail(queue)
  BY DEF VmBegin, Goes
<1>2. vm'.name = Head(queue) BY DEF VmBegin, NoVm
<1>3. ASSUME opts.vm # "" PROVE vms = <<>> /\ queue' = <<>> /\ vm'.name = opts.vm
  <2>1. vms = <<>> /\ queue = <<opts.vm>> BY <1>1, <1>3 DEF TInv, OneVm
  <2>2. Tail(<<opts.vm>>) = <<>> /\ Head(<<opts.vm>>) = opts.vm OBVIOUS
  <2> QED BY <1>1, <1>2, <2>1, <2>2
<1> QED BY <1>1, <1>3 DEF OneVm, Within

(* The steps of collect_vm after the first keep to its VM. *)
LEMMA WithinOne ==
    ASSUME TInv, pc \in Within, pc' \in Within, vm'.name = vm.name,
           UNCHANGED <<opts, vms, queue>>
    PROVE  OneVm'
<1>1. pc' \notin {"start", "list", "vms", "write", "tar"} BY DEF Within
<1>2. opts.vm # "" => vms = <<>> /\ queue = <<>> /\ vm.name = opts.vm BY DEF TInv, OneVm
<1> QED BY <1>1, <1>2 DEF OneVm

LEMMA VmDoneOne == ASSUME TInv, VmDone PROVE OneVm'
<1>1. pc = "files" /\ pc' = "vms" /\ UNCHANGED <<opts, queue>> BY DEF VmDone, Goes
<1>2. PICK r : vms' = Append(vms, r) /\ r.name = vm.name
  <2>1. PICK r : r = [name |-> vm.name, listed |-> vm.listed, logs |-> vm.logs,
                      body |-> RedactText(vm.body \o LogsLine(vm.logs))]
    OBVIOUS
  <2>2. r.name = vm.name BY <2>1
  <2>3. vms' = Append(vms, r) BY <2>1 DEF VmDone
  <2> QED BY <2>2, <2>3
<1>3. ASSUME opts.vm # "" PROVE queue' = <<>> /\ Len(vms') = 1 /\ vms'[1].name = opts.vm
  <2>1. vms = <<>> /\ queue = <<>> /\ vm.name = opts.vm
    BY <1>1, <1>3 DEF TInv, OneVm, Within
  <2>2. vms' = <<r>> BY <1>2, <2>1
  <2>3. Len(vms') = 1 /\ vms'[1] = r BY <2>2
  <2> QED BY <1>1, <1>2, <2>1, <2>3
<1> QED BY <1>1, <1>3 DEF OneVm, Only, Within

LEMMA Unfinished ==
    ASSUME CmdTyped', pc' # "done" \/ exit' \in {1, 2}
    PROVE  BundleIsComplete'
<1>1. 0 # NoExit BY CodesDiffer
<1>2. exit' # NoExit => pc' = "done" BY DEF CmdTyped
<1>3. exit' # 0 BY <1>1, <1>2
<1> QED BY <1>3 DEF BundleIsComplete

LEMMA PlannedTyped == ASSUME LInv PROVE Planned \in Seq(Entry)
<1>1. report \in Text /\ vms \in Seq(Report) BY DEF LInv, CmdTyped
<1> QED BY <1>1, BundleTyped DEF Planned

LEMMA OnlyNames ==
    ASSUME LInv, Only
    PROVE  [i \in DOMAIN vms |-> vms[i].name] = <<opts.vm>>
<1>1. vms \in Seq(Report) BY DEF LInv, CmdTyped
<1>2. DOMAIN vms = 1 .. 1 BY <1>1 DEF Only
<1>3. PICK s : s = [i \in DOMAIN vms |-> vms[i].name] OBVIOUS
<1>4. s = [i \in 1 .. 1 |-> vms[i].name] BY <1>2, <1>3
<1>5. \A i \in 1 .. 1 : vms[i].name = opts.vm BY DEF Only
<1>6. s = [i \in 1 .. 1 |-> opts.vm] BY <1>4, <1>5
<1>7. <<opts.vm>> = [i \in 1 .. 1 |-> opts.vm]
  <2>1. PICK x, t : x = opts.vm /\ t = <<x>> OBVIOUS
  <2>2. t \in Seq({x}) /\ Len(t) = 1 /\ t[1] = x BY <2>1
  <2>3. t = [i \in 1 .. 1 |-> t[i]] BY <2>2
  <2>4. \A i \in 1 .. 1 : t[i] = x BY <2>2
  <2> QED BY <2>1, <2>3, <2>4
<1> QED BY <1>3, <1>6, <1>7

LEMMA RenderPacks == ASSUME TInv, LInv', Render PROVE TInv'
<1>1. /\ pc = "vms" /\ queue = <<>> /\ UNCHANGED <<opts, vms, output>>
      /\ IF IsTar(opts.output)
         THEN Goes("tar") /\ entries' = BundleEntries(report', vms)
         ELSE Goes("write") /\ UNCHANGED entries
  BY DEF Render
<1>2. pc' \in {"tar", "write"} /\ output' = <<>> BY <1>1 DEF TInv, Partly, Goes
<1>3. BundleIsComplete'
  <2>1. CmdTyped' BY DEF LInv
  <2> QED BY <1>2, <2>1, Unfinished
<1>4. OneVm'
  <2>1. ASSUME opts.vm # "" PROVE Only'
    <3>1. queue # <<opts.vm>> BY <1>1
    <3>2. Only BY <1>1, <2>1, <3>1 DEF TInv, OneVm
    <3> QED BY <1>1, <3>2 DEF Only
  <2> QED BY <1>1, <1>2, <2>1 DEF OneVm, Within
<1>5. Partly'
  <2>1. CASE ~IsTar(opts.output)
    <3>1. pc' = "write" BY <1>1, <2>1 DEF Goes
    <3> QED BY <1>1, <1>2, <2>1, <3>1 DEF Partly
  <2>2. CASE IsTar(opts.output)
    <3>1. pc' = "tar" /\ entries' = BundleEntries(report', vms) BY <1>1, <2>2 DEF Goes
    <3>2. PICK B : B = BundleEntries(report', vms) OBVIOUS
    <3>3. B \in Seq(Entry)
      <4>1. report' \in Text /\ vms' \in Seq(Report) BY DEF LInv, CmdTyped
      <4> QED BY <1>1, <3>2, <4>1, BundleTyped
    <3>4. Planned' = B /\ entries' = B BY <1>1, <3>1, <3>2 DEF Planned
    <3>5. 0 \in 0 .. Len(B) BY <3>3
    <3>6. Left(B, 0) = B /\ Written(B)[0] = <<>> BY <3>3, <3>5, LeftFacts, WrittenSteps
    <3>7. \E n \in 0 .. Len(B) : entries' = Left(B, n) /\ output' = Written(B)[n]
      BY <1>2, <3>4, <3>5, <3>6
    <3> QED BY <1>1, <2>2, <3>1, <3>4, <3>7 DEF Partly
  <2> QED BY <2>1, <2>2
<1> QED BY <1>3, <1>4, <1>5 DEF TInv

(* The last step of a run that ends with exit code 0. *)
LEMMA EndsComplete ==
    ASSUME TInv, LInv', pc \in {"write", "tar"}, pc' = "done", UNCHANGED <<opts, vms, report>>,
           IF IsTar(opts.output) THEN TarEntries(output') = [i \in DOMAIN Planned |-> AsRead(Planned[i])]
           ELSE output' = report
    PROVE  TInv'
<1>1. Partly' /\ OneVm' BY DEF Partly, OneVm, Within
<1>2. ASSUME opts.vm # "" PROVE [i \in DOMAIN vms |-> vms[i].name] = <<opts.vm>>
  <2>1. LInv /\ Only BY <1>2 DEF TInv, OneVm
  <2> QED BY <2>1, OnlyNames
<1>3. Planned' = Planned BY DEF Planned
<1>4. BundleIsComplete'
  BY <1>2, <1>3 DEF BundleIsComplete, AsRead, Content, Planned
<1> QED BY <1>1, <1>4 DEF TInv

LEMMA EndsBadly ==
    ASSUME TInv, LInv', pc' = "done", exit' = 1
    PROVE  TInv'
<1>1. Partly' /\ OneVm' BY DEF Partly, OneVm, Within
<1>2. CmdTyped' BY DEF LInv
<1>3. BundleIsComplete' BY <1>2, Unfinished
<1> QED BY <1>1, <1>3 DEF TInv

LEMMA WriteReportEnds == ASSUME TInv, LInv', WriteReport PROVE TInv'
<1>1. pc = "write" /\ UNCHANGED <<opts, vms, report>> BY DEF WriteReport
<1>2. CASE output' = report /\ Ends(0)
  <2>1. pc' = "done" /\ ~IsTar(opts.output) BY <1>1, <1>2 DEF Ends, TInv, Partly
  <2> QED BY <1>1, <1>2, <2>1, EndsComplete
<1>3. CASE WriteFails(report)
  <2>1. pc' = "done" /\ exit' = 1 BY <1>3 DEF WriteFails, Ends
  <2> QED BY <2>1, EndsBadly
<1> QED BY <1>2, <1>3 DEF WriteReport

LEMMA TarAppendPacks == ASSUME TInv, LInv', TarAppend PROVE TInv'
<1>1. pc = "tar" /\ entries # <<>> /\ UNCHANGED <<opts, vms, report>> BY DEF TarAppend
<1>2. CASE Ends(1) BY <1>2, EndsBadly DEF Ends
<1>3. CASE WriteFails(TarEntry(Head(entries)))
  BY <1>3, EndsBadly DEF WriteFails, Ends
<1>4. CASE /\ output' = output \o TarEntry(Head(entries))
           /\ entries' = Tail(entries)
           /\ Goes("tar")
  <2>1. PICK B : B = Planned OBVIOUS
  <2>2. B \in Seq(Entry) BY <2>1, PlannedTyped DEF TInv
  <2>3. PICK n \in 0 .. Len(B) : entries = Left(B, n) /\ output = Written(B)[n]
    BY <1>1, <2>1 DEF TInv, Partly
  <2>4. n # Len(B) BY <1>1, <2>2, <2>3, LeftFacts
  <2>5. Head(entries) = B[n + 1] /\ Tail(entries) = Left(B, n + 1)
    BY <2>2, <2>3, <2>4, LeftFacts
  <2>6. n + 1 \in 1 .. Len(B) /\ n + 1 \in 0 .. Len(B) /\ (n + 1) - 1 = n BY <2>2, <2>4
  <2>7. output' = Written(B)[n + 1] BY <1>4, <2>2, <2>3, <2>5, <2>6, WrittenSteps
  <2>8. pc' = "tar" /\ Planned' = B BY <1>1, <1>4, <2>1 DEF Goes, Planned
  <2>9. \E k \in 0 .. Len(B) : entries' = Left(B, k) /\ output' = Written(B)[k]
    BY <1>4, <2>5, <2>6, <2>7
  <2>10. Partly' BY <1>1, <2>8, <2>9 DEF TInv, Partly
  <2>11. OneVm' BY <1>1, <2>8 DEF TInv, OneVm, Only, Within
  <2>12. CmdTyped' BY DEF LInv
  <2>13. BundleIsComplete' BY <2>8, <2>12, Unfinished
  <2> QED BY <2>10, <2>11, <2>13 DEF TInv
<1> QED BY <1>2, <1>3, <1>4 DEF TarAppend

LEMMA TarFinishEnds == ASSUME TInv, LInv', TarFinish PROVE TInv'
<1>1. pc = "tar" /\ entries = <<>> /\ UNCHANGED <<opts, vms, report>> BY DEF TarFinish
<1>2. CASE output' = output \o Zeros(2 * Block) /\ Ends(0)
  <2>1. PICK B : B = Planned OBVIOUS
  <2>2. B \in Seq(Entry) BY <2>1, PlannedTyped DEF TInv
  <2>3. PICK n \in 0 .. Len(B) : entries = Left(B, n) /\ output = Written(B)[n]
    BY <1>1, <2>1 DEF TInv, Partly
  <2>4. n = Len(B) BY <1>1, <2>2, <2>3, LeftFacts
  <2>5. output' = Written(B)[Len(B)] \o Zeros(2 * Block) BY <1>2, <2>3, <2>4
  <2>6. TarEntries(output') = [i \in DOMAIN B |-> AsRead(B[i])] BY <2>2, <2>5, ReadsBack
  <2>7. pc' = "done" /\ IsTar(opts.output) BY <1>1, <1>2 DEF Ends, TInv, Partly
  <2> QED BY <1>1, <2>1, <2>6, <2>7, EndsComplete
<1>3. CASE WriteFails(Zeros(2 * Block))
  BY <1>3, EndsBadly DEF WriteFails, Ends
<1> QED BY <1>2, <1>3 DEF TarFinish

(* A step of the engine, or none. *)
LEMMA ElsewhereStep ==
    ASSUME TInv, LInv', UNCHANGED <<pc, opts, queue, vm, vms, report, entries, output, exit>>
    PROVE  TInv'
<1>1. Planned' = Planned BY DEF Planned
<1>2. Partly' BY <1>1 DEF TInv, Partly
<1>3. OneVm' BY DEF TInv, OneVm, Only
<1>4. BundleIsComplete' BY DEF TInv, BundleIsComplete
<1> QED BY <1>2, <1>3, <1>4 DEF TInv

LEMMA InitTInv == Init => TInv
<1> SUFFICES ASSUME Init PROVE TInv OBVIOUS
<1>1. LInv BY InitLInv
<1>2. pc = "start" /\ output = <<>> /\ vms = <<>> /\ exit = NoExit BY DEF Init
<1>3. Partly /\ OneVm BY <1>2 DEF Partly, OneVm, Within
<1>4. 0 # NoExit BY CodesDiffer
<1>5. BundleIsComplete BY <1>2, <1>4 DEF BundleIsComplete
<1> QED BY <1>1, <1>3, <1>5 DEF TInv

LEMMA NextTInv == TInv /\ [Next]_vars => TInv'
<1> SUFFICES ASSUME TInv, [Next]_vars PROVE TInv' OBVIOUS
<1>0. LInv' BY NextLInv DEF TInv
<1>1. CASE UNCHANGED vars BY <1>0, <1>1, ElsewhereStep DEF vars
<1>2. CASE Engine
  <2>1. UNCHANGED <<pc, opts, queue, vm, vms, report, entries, output, exit>>
    BY <1>2 DEF Engine, LogGrows, LogCut, LogRemoved, VmRemoved, Changes
  <2> QED BY <1>0, <2>1, ElsewhereStep
<1>3. ASSUME NEW words \in CommandLines, Start(words) PROVE TInv'
  <2>1. /\ pc = "start" /\ UNCHANGED <<output, entries, vms>> /\ vms = <<>>
        /\ IF opts'.ends # NoExit THEN Ends(opts'.ends) ELSE Goes("list")
    BY <1>3 DEF Start, TInv, OneVm
  <2>2. pc' \in {"list", "done"} /\ (pc' = "done" => opts'.ends # NoExit)
    BY <2>1 DEF Ends, Goes
  <2>3. OneVm' BY <2>1, <2>2 DEF OneVm, Within
  <2> QED BY <1>0, <2>1, <2>2, <2>3, EarlyStep
<1>4. CASE ListVms
  <2>1. pc = "list" /\ UNCHANGED <<output, entries>> BY <1>4 DEF ListVms
  <2>2. pc' \in {"vms", "done"} /\ (pc' = "done" => exit' = 1) BY <1>4 DEF ListVms, Ends, Goes
  <2> QED BY <1>0, <1>4, <2>1, <2>2, EarlyStep, ListVmsOne
<1>5. CASE VmBegin
  <2>1. pc = "vms" /\ pc' = "disks" /\ UNCHANGED <<output, entries>> BY <1>5 DEF VmBegin, Goes
  <2>2. OneVm' BY <1>5, VmBeginOne
  <2> QED BY <1>0, <2>1, <2>2, EarlyStep
<1>6. ASSUME \/ \E info, tree \in CliTexts \union {Absent} : VmDisks(info, tree)
             \/ VmNetwork \/ ListLogs \/ OpenLog \/ SeekLog \/ ReadLog
      PROVE  TInv'
  <2>0. vm \in VmReport BY DEF TInv, LInv, CmdTyped
  <2>1. ASSUME NEW info \in CliTexts \union {Absent}, NEW tree \in CliTexts \union {Absent},
               VmDisks(info, tree)
        PROVE  /\ pc \in Within /\ pc' \in Within /\ vm'.name = vm.name
               /\ UNCHANGED <<output, entries, opts, vms, queue>>
    BY <2>0, <2>1 DEF VmDisks, VmReport, Within, Goes
  <2>2. ASSUME VmNetwork \/ ListLogs \/ OpenLog \/ SeekLog \/ ReadLog
        PROVE  /\ pc \in Within /\ pc' \in Within /\ vm'.name = vm.name
               /\ UNCHANGED <<output, entries, opts, vms, queue>>
    <3>1. CASE VmNetwork BY <2>0, <3>1 DEF VmNetwork, VmReport, Within, Goes
    <3>2. CASE ListLogs BY <2>0, <3>2 DEF ListLogs, VmReport, Within, Goes
    <3>3. CASE OpenLog BY <2>0, <3>3 DEF OpenLog, VmReport, Within, Goes
    <3>4. CASE SeekLog BY <3>4 DEF SeekLog, Within, Goes
    <3>5. CASE ReadLog BY <2>0, <3>5 DEF ReadLog, VmReport, Within, Goes
    <3> QED BY <2>2, <3>1, <3>2, <3>3, <3>4, <3>5
  <2>3. /\ pc \in Within /\ pc' \in Within /\ vm'.name = vm.name
        /\ UNCHANGED <<output, entries, opts, vms, queue>>
    BY <1>6, <2>1, <2>2
  <2>4. pc \notin {"tar", "write", "done"} /\ pc' \notin {"tar", "write", "done"}
    BY <2>3 DEF Within
  <2> QED BY <1>0, <2>3, <2>4, EarlyStep, WithinOne
<1>7. CASE VmDone
  <2>1. pc = "files" /\ pc' = "vms" /\ UNCHANGED <<output, entries>> BY <1>7 DEF VmDone, Goes
  <2> QED BY <1>0, <1>7, <2>1, EarlyStep, VmDoneOne
<1> QED BY <1>0, <1>1, <1>2, <1>3, <1>4, <1>5, <1>6, <1>7, RenderPacks, WriteReportEnds,
           TarAppendPacks, TarFinishEnds DEF Next, Command

(***************************************************************************)
(* The bundle from its plan to its last block (TInv), with LInv.           *)
(***************************************************************************)
THEOREM BundleInvariance == Spec => []TInv
  BY InitTInv, NextTInv, PTL DEF Spec

(***************************************************************************)
(* Exit code 0 of diagnose means that all of it was written, for any block *)
(* size, any VMs and logs: the tar reads back, by the sizes in its         *)
(* headers, as the report and every excerpt, and with --vm it is about     *)
(* that VM alone.                                                          *)
(***************************************************************************)
THEOREM BundlesAreComplete == Spec => []BundleIsComplete
<1>1. TInv => BundleIsComplete BY DEF TInv
<1> QED BY <1>1, BundleInvariance, PTL

-----------------------------------------------------------------------------
(***************************************************************************)
(* Texts put together of lines: what is joined, and what is flattened, can *)
(* be taken apart at its last part.                                        *)
(***************************************************************************)
LEMMA NoneIs == ASSUME NEW S, NEW s \in Seq(S), Len(s) = 0 PROVE s = <<>>
  OBVIOUS

LEMMA CatAssoc ==
    ASSUME NEW S, NEW a \in Seq(S), NEW b \in Seq(S), NEW c \in Seq(S)
    PROVE  (a \o b) \o c = a \o (b \o c)
  BY ConcatAssociative

LEMMA TextAssoc ==
    ASSUME NEW a \in Text, NEW b \in Text, NEW c \in Text
    PROVE  (a \o b) \o c = a \o (b \o c)
<1>1. PICK S : S = STRING OBVIOUS
<1>2. a \in Seq(S) /\ b \in Seq(S) /\ c \in Seq(S) BY <1>1 DEF Text
<1> QED BY <1>2, CatAssoc

(* Sets of sequences that joining does not leave. *)
Joins(U) ==
    /\ <<>> \in U
    /\ \A a \in U : <<>> \o a = a /\ a \o <<>> = a
    /\ \A a, b \in U : a \o b \in U
    /\ \A a, b, c \in U : (a \o b) \o c = a \o (b \o c)

LEMMA SeqJoins == ASSUME NEW S PROVE Joins(Seq(S))
<1>1. \A a \in Seq(S) : <<>> \o a = a /\ a \o <<>> = a BY ConcatEmptySeq
<1>2. \A a, b, c \in Seq(S) : (a \o b) \o c = a \o (b \o c) BY CatAssoc
<1>3. <<>> \in Seq(S) /\ \A a, b \in Seq(S) : a \o b \in Seq(S) OBVIOUS
<1> QED BY <1>1, <1>2, <1>3 DEF Joins

LEMMA TextJoins == Joins(Text)
  BY SeqJoins DEF Text

LEMMA FlattenSnoc ==
    ASSUME NEW U, Joins(U), NEW ss \in Seq(U), NEW x \in U
    PROVE  FlattenSeq(Append(ss, x)) = FlattenSeq(ss) \o x
<1>1. PICK K : K = Len(ss) OBVIOUS
<1>2. PICK tt : tt = Append(ss, x) OBVIOUS
<1>3. /\ K \in Nat /\ tt \in Seq(U) /\ Len(tt) = K + 1
      /\ \A i \in 1 .. K : tt[i] = ss[i]
      /\ tt[K + 1] = x
  BY <1>1, <1>2
<1>0. PICK L : L = K + 1 OBVIOUS
<1>4. PICK g : /\ FlattenSeq(tt) = g[L]
               /\ g[1] = tt[1]
               /\ \A n \in 2 .. L : g[n] = g[n - 1] \o tt[n]
  <2>1. L \in Nat /\ L = Len(tt) /\ L # 0 BY <1>0, <1>3
  <2> QED BY <2>1, FlattenSteps
<1>5. CASE K = 0
  <2>1. ss = <<>> BY <1>1, <1>5, NoneIs
  <2>2. FlattenSeq(ss) = <<>> BY <2>1 DEF FlattenSeq
  <2>3. FlattenSeq(tt) = x BY <1>0, <1>3, <1>4, <1>5
  <2>4. <<>> \o x = x BY DEF Joins
  <2> QED BY <1>2, <2>2, <2>3, <2>4
<1>6. CASE K # 0
  <2>1. PICK f : /\ FlattenSeq(ss) = f[K]
                 /\ f[1] = ss[1]
                 /\ \A n \in 2 .. K : f[n] = f[n - 1] \o ss[n]
    BY <1>1, <1>3, <1>6, FlattenSteps
  <2> DEFINE T == {n \in 1 .. K : g[n] # f[n]}
  <2>2. T = {}
    <3> SUFFICES ASSUME T # {} PROVE FALSE OBVIOUS
    <3>0. T \subseteq Nat OBVIOUS
    <3>1. PICK n \in T : \A m \in T : ~(m < n) BY <3>0, Smallest
    <3>2. n # 1
      <4>1. 1 \in 1 .. K BY <1>3, <1>6
      <4>2. g[1] = f[1] BY <1>3, <1>4, <2>1, <4>1
      <4> QED BY <4>2
    <3>3. n \in 2 .. K /\ n \in 2 .. L /\ n \in 1 .. K /\ n - 1 \in 1 .. K /\ n - 1 < n
      BY <1>0, <1>3, <3>2
    <3>4. g[n - 1] = f[n - 1] BY <3>1, <3>3
    <3>5. g[n] = g[n - 1] \o ss[n] BY <1>3, <1>4, <3>3
    <3>6. f[n] = f[n - 1] \o ss[n] BY <2>1, <3>3
    <3> QED BY <3>4, <3>5, <3>6
  <2>3. g[K] = f[K]
    <3>1. K \in 1 .. K BY <1>3, <1>6
    <3> QED BY <2>2, <3>1
  <2>4. L \in 2 .. L /\ L - 1 = K BY <1>0, <1>3, <1>6
  <2>5. g[L] = g[K] \o x BY <1>0, <1>3, <1>4, <2>4
  <2> QED BY <1>2, <1>4, <2>1, <2>3, <2>5
<1> QED BY <1>5, <1>6

LEMMA FlattenAppend ==
    ASSUME NEW ss \in Seq(Text), NEW x \in Text
    PROVE  FlattenSeq(Append(ss, x)) = FlattenSeq(ss) \o x
  BY FlattenSnoc, TextJoins

LEMMA JoinedAppend ==
    ASSUME NEW ls \in Seq(Line), NEW l \in Line
    PROVE  Joined(Append(ls, l)) = Joined(ls) \o Append(l, "n")
<1>1. PICK K : K = Len(ls) OBVIOUS
<1>2. PICK ms : ms = Append(ls, l) OBVIOUS
<1>3. K \in Nat /\ DOMAIN ls = 1 .. K BY <1>1
<1>4. /\ DOMAIN ms = 1 .. K + 1 /\ Len(ms) = K + 1 /\ ms[K + 1] = l
      /\ \A i \in 1 .. K : ms[i] = ls[i]
  BY <1>1, <1>2, <1>3
<1> DEFINE E(m) == Append(m, "n")
<1>5. PICK ss : ss = [i \in DOMAIN ls |-> E(ls[i])] OBVIOUS
<1>6. PICK tt : tt = [i \in DOMAIN ms |-> E(ms[i])] OBVIOUS
<1>7. Joined(ls) = FlattenSeq(ss) /\ Joined(ms) = FlattenSeq(tt)
  BY <1>5, <1>6 DEF Joined
<1>8. \A m \in Line : E(m) \in Text BY LastLine
<1> HIDE DEF E
<1>9. ss \in Seq(Text) /\ Len(ss) = K
  <2>1. \A i \in 1 .. K : E(ls[i]) \in Text BY <1>3, <1>8
  <2>2. ss \in [1 .. K -> Text] BY <1>3, <1>5, <2>1
  <2> QED BY <1>3, <2>2
<1>10. tt = Append(ss, E(l))
  <2>1. E(l) \in Text BY <1>8
  <2>2. PICK uu : uu = Append(ss, E(l)) OBVIOUS
  <2>3. /\ uu \in Seq(Text) /\ Len(uu) = K + 1 /\ uu[K + 1] = E(l)
        /\ \A i \in 1 .. K : uu[i] = ss[i]
    BY <1>3, <1>9, <2>1, <2>2
  <2>4. \A i \in 1 .. K : ss[i] = E(ls[i]) BY <1>3, <1>5
  <2>5. \A i \in 1 .. K + 1 : tt[i] = E(ms[i]) BY <1>4, <1>6
  <2>6. ASSUME NEW i \in 1 .. K + 1 PROVE tt[i] = uu[i] /\ tt[i] \in Text
    <3>1. CASE i = K + 1 BY <1>4, <2>1, <2>3, <2>5, <3>1
    <3>2. CASE i # K + 1
      <4>1. i \in 1 .. K BY <1>3, <3>2
      <4>2. tt[i] = ss[i] BY <1>4, <2>4, <2>5, <4>1
      <4> QED BY <1>9, <2>3, <4>1, <4>2
    <3> QED BY <3>1, <3>2
  <2>7. tt \in [1 .. K + 1 -> Text] BY <1>4, <1>6, <2>6
  <2>8. tt \in Seq(Text) /\ Len(tt) = K + 1 BY <1>3, <2>7
  <2> QED BY <2>2, <2>3, <2>6, <2>8, SeqEqual
<1>11. FlattenSeq(tt) = FlattenSeq(ss) \o E(l) BY <1>8, <1>9, <1>10, FlattenAppend
<1> QED BY <1>2, <1>7, <1>11 DEF E

LEMMA JoinedNone == Joined(<<>>) = <<>>
  BY DEF Joined, FlattenSeq

LEMMA JoinedOne == ASSUME NEW l \in Line PROVE Joined(<<l>>) = Append(l, "n")
<1>1. Append(<<>>, l) = <<l>> OBVIOUS
<1>2. <<>> \in Seq(Line) OBVIOUS
<1>3. Joined(Append(<<>>, l)) = Joined(<<>>) \o Append(l, "n") BY <1>2, JoinedAppend
<1>4. Append(l, "n") \in Seq(STRING) BY LastLine DEF Text
<1>5. <<>> \o Append(l, "n") = Append(l, "n") BY <1>4
<1> QED BY <1>1, <1>3, <1>5, JoinedNone

LEMMA AppendIs ==
    ASSUME NEW S, NEW s \in Seq(S), NEW x \in S
    PROVE  Append(s, x) = s \o <<x>>
  OBVIOUS

LEMMA CatAppend ==
    ASSUME NEW U, NEW rr \in Seq(U), NEW uu \in Seq(U), NEW x \in U
    PROVE  rr \o Append(uu, x) = Append(rr \o uu, x)
<1>1. PICK xx : xx = <<x>> OBVIOUS
<1>2. xx \in Seq(U) BY <1>1
<1>3. (rr \o uu) \o xx = rr \o (uu \o xx) BY <1>2, CatAssoc
<1>4. rr \o uu \in Seq(U) OBVIOUS
<1>5. Append(uu, x) = uu \o xx /\ Append(rr \o uu, x) = (rr \o uu) \o xx
  BY <1>1, <1>4, AppendIs
<1> QED BY <1>3, <1>5

LEMMA LastApart ==
    ASSUME NEW U, NEW ns \in Seq(U), NEW m \in Nat, Len(ns) = m + 1,
           NEW os, os = SubSeq(ns, 1, m)
    PROVE  os \in Seq(U) /\ Len(os) = m /\ ns[m + 1] \in U /\ ns = Append(os, ns[m + 1])
<1>1. os \in Seq(U) /\ Len(os) = m /\ \A i \in 1 .. m : os[i] = ns[i] OBVIOUS
<1>2. PICK x : x = ns[m + 1] OBVIOUS
<1>3. x \in U
  <2>1. m + 1 \in 1 .. Len(ns) OBVIOUS
  <2> QED BY <1>2, <2>1, ElementOfSeq
<1>4. PICK yy : yy = Append(os, x) OBVIOUS
<1>5. yy \in Seq(U) /\ Len(yy) = m + 1 /\ yy[m + 1] = x /\ \A i \in 1 .. m : yy[i] = ns[i]
  BY <1>1, <1>3, <1>4, AppendProperties
<1>6. \A i \in 1 .. Len(yy) : i = m + 1 \/ i \in 1 .. m BY <1>5
<1>7. \A i \in 1 .. Len(yy) : yy[i] = ns[i] BY <1>2, <1>5, <1>6
<1>8. yy = ns BY <1>5, <1>7, SeqEqual
<1> QED BY <1>1, <1>2, <1>3, <1>4, <1>8

LEMMA JoinedCat ==
    ASSUME NEW ls \in Seq(Line), NEW ms \in Seq(Line)
    PROVE  Joined(ls \o ms) = Joined(ls) \o Joined(ms)
<1> DEFINE T == {n \in Nat : \E ns \in Seq(Line) :
                    Len(ns) = n /\ Joined(ls \o ns) # Joined(ls) \o Joined(ns)}
<1>1. T = {}
  <2> SUFFICES ASSUME T # {} PROVE FALSE OBVIOUS
  <2>0. T \subseteq Nat OBVIOUS
  <2>1. PICK n \in T : \A m \in T : ~(m < n) BY <2>0, Smallest
  <2>2. PICK ns \in Seq(Line) : Len(ns) = n /\ Joined(ls \o ns) # Joined(ls) \o Joined(ns)
    BY <2>1
  <2> HIDE DEF T
  <2>3. Joined(ls) \in Text BY JoinedLines
  <2>4. n \in Nat /\ n # 0
    <3>1. n \in Nat BY <2>0
    <3> SUFFICES ASSUME n = 0 PROVE FALSE BY <3>1
    <3>2. ns = <<>> BY <2>2, NoneIs
    <3>3. ls \o <<>> = ls BY ConcatEmptySeq
    <3>4. Joined(ls) \o <<>> = Joined(ls) BY <2>3, TextJoins DEF Joins
    <3> QED BY <2>2, <3>2, <3>3, <3>4, JoinedNone
  <2>5. PICK m : m = n - 1 OBVIOUS
  <2>6. m \in Nat /\ m < n /\ n = m + 1 BY <2>4, <2>5
  <2>7. PICK os : os = SubSeq(ns, 1, m) OBVIOUS
  <2>8. PICK l : l = ns[m + 1] OBVIOUS
  <2>9. os \in Seq(Line) /\ Len(os) = m /\ l \in Line /\ ns = Append(os, l)
    BY <2>2, <2>6, <2>7, <2>8, LastApart
  <2>10. ls \o ns = Append(ls \o os, l) BY <2>9, CatAppend
  <2>11. ls \o os \in Seq(Line) BY <2>9
  <2>12. Joined(ls \o ns) = Joined(ls \o os) \o Append(l, "n")
    BY <2>9, <2>10, <2>11, JoinedAppend
  <2>13. Joined(ls \o os) = Joined(ls) \o Joined(os) BY <2>1, <2>6, <2>9 DEF T
  <2>14. Joined(ns) = Joined(os) \o Append(l, "n") BY <2>9, JoinedAppend
  <2>15. Joined(os) \in Text /\ Append(l, "n") \in Text BY <2>9, JoinedLines, LastLine
  <2>16. (Joined(ls) \o Joined(os)) \o Append(l, "n") = Joined(ls) \o (Joined(os) \o Append(l, "n"))
    BY <2>3, <2>15, TextAssoc
  <2> QED BY <2>2, <2>12, <2>13, <2>14, <2>16
<1>2. Len(ms) \in Nat OBVIOUS
<1> QED BY <1>1, <1>2

(* A set of texts that is closed under \o holds what is flattened of it. *)
LEMMA FlattenIn ==
    ASSUME NEW C, <<>> \in C, \A a, b \in C : a \o b \in C, NEW ss \in Seq(C)
    PROVE  FlattenSeq(ss) \in C
<1> DEFINE K == Len(ss)
<1>0. K \in Nat OBVIOUS
<1>1. CASE K = 0
  <2>1. FlattenSeq(ss) = ss BY <1>1 DEF FlattenSeq
  <2>2. ss = <<>> BY <1>1
  <2> QED BY <2>1, <2>2
<1>2. CASE K # 0
  <2>1. PICK f : /\ FlattenSeq(ss) = f[K]
                 /\ f[1] = ss[1]
                 /\ \A n \in 2 .. K : f[n] = f[n - 1] \o ss[n]
    BY <1>0, <1>2, FlattenSteps
  <2> DEFINE T == {n \in 1 .. K : f[n] \notin C}
  <2>2. T = {}
    <3> SUFFICES ASSUME T # {} PROVE FALSE OBVIOUS
    <3>0. T \subseteq Nat OBVIOUS
    <3>1. PICK n \in T : \A m \in T : ~(m < n) BY <3>0, Smallest
    <3>2. n # 1 BY <2>1
    <3>3. n \in 2 .. K /\ n - 1 \in 1 .. K /\ n - 1 < n BY <1>0, <3>2
    <3>4. f[n - 1] \in C BY <3>1, <3>3
    <3>5. ss[n] \in C BY <3>3
    <3>6. f[n] = f[n - 1] \o ss[n] BY <2>1, <3>3
    <3>7. f[n] \in C BY <3>4, <3>5, <3>6
    <3> QED BY <3>7
  <2> QED BY <1>0, <1>2, <2>1, <2>2
<1> QED BY <1>1, <1>2

-----------------------------------------------------------------------------
(***************************************************************************)
(* What the rules make of one line.  The first separator of a line counts  *)
(* where a sensitive key is before it.                                     *)
(***************************************************************************)
KeyAt(l, i) ==
    /\ i \in 2 .. Len(l) /\ l[i] = "=" /\ l[i - 1] = "k"
    /\ \A j \in 1 .. i - 1 : l[j] # "="

LEMMA KeyValueFacts ==
    ASSUME NEW l \in Text
    PROVE  \/ \E i \in 2 .. Len(l) : KeyAt(l, i) /\ RedactKeyValue(l) = SubSeq(l, 1, i) \o <<"R">>
           \/ (\A i \in 2 .. Len(l) : ~KeyAt(l, i)) /\ RedactKeyValue(l) = l
<1> DEFINE I == {i \in 1 .. Len(l) : l[i] = "="}
<1>0. Len(l) \in Nat BY DEF Text
<1>1. PICK e : e = SelectInSeq(l, LAMBDA x : x = "=") OBVIOUS
<1>2. e = IF I # {} THEN Min(I) ELSE 0 BY <1>1 DEF SelectInSeq
<1>3. RedactKeyValue(l) = IF e > 1 /\ l[e - 1] = "k" THEN SubSeq(l, 1, e) \o <<"R">> ELSE l
  BY <1>1 DEF RedactKeyValue
<1>4. I # {} => /\ e \in 1 .. Len(l) /\ l[e] = "="
                /\ \A i \in 1 .. Len(l) : l[i] = "=" => e <= i
  <2> SUFFICES ASSUME I # {}
               PROVE  /\ e \in 1 .. Len(l) /\ l[e] = "="
                      /\ \A i \in 1 .. Len(l) : l[i] = "=" => e <= i
    OBVIOUS
  <2>1. I \subseteq Nat BY <1>0
  <2>2. Min(I) \in I /\ \A m \in I : Min(I) <= m BY <2>1, MinIn
  <2>3. e \in I /\ \A m \in I : e <= m BY <1>2, <2>2
  <2> QED BY <2>3
<1>5. I = {} => e = 0 BY <1>2
<1>6. \A i \in 2 .. Len(l) : KeyAt(l, i) => I # {}
  <2> SUFFICES ASSUME NEW i \in 2 .. Len(l), KeyAt(l, i) PROVE i \in I OBVIOUS
  <2> QED BY <1>0 DEF KeyAt
<1> HIDE DEF I
<1>7. CASE e > 1 /\ l[e - 1] = "k"
  <2>1. e \in 1 .. Len(l) /\ l[e] = "=" /\ \A i \in 1 .. Len(l) : l[i] = "=" => e <= i
    BY <1>4, <1>5, <1>7
  <2>2. e \in 2 .. Len(l) BY <1>7, <2>1
  <2>3. \A j \in 1 .. e - 1 : l[j] # "=" BY <1>0, <2>1
  <2>4. KeyAt(l, e) BY <1>7, <2>1, <2>2, <2>3 DEF KeyAt
  <2> QED BY <1>3, <1>7, <2>2, <2>4
<1>8. CASE ~(e > 1 /\ l[e - 1] = "k")
  <2>1. ASSUME NEW i \in 2 .. Len(l), KeyAt(l, i) PROVE FALSE
    <3>1. e \in 1 .. Len(l) /\ l[e] = "=" /\ \A j \in 1 .. Len(l) : l[j] = "=" => e <= j
      BY <1>4, <1>6, <2>1
    <3>2. i \in 2 .. Len(l) /\ l[i] = "=" /\ l[i - 1] = "k" /\ \A j \in 1 .. i - 1 : l[j] # "="
      BY <2>1 DEF KeyAt
    <3>3. e <= i BY <1>0, <3>1, <3>2
    <3>4. ~(e < i) BY <1>0, <3>1, <3>2
    <3>5. e = i BY <3>1, <3>2, <3>3, <3>4
    <3> QED BY <1>8, <3>2, <3>5
  <2> QED BY <1>3, <1>8, <2>1
<1> QED BY <1>7, <1>8

(* All that may follow a key and its separator is the replacement. *)
Settled(l) == \A i \in 2 .. Len(l) : KeyAt(l, i) => Len(l) = i + 1 /\ l[i + 1] = "R"

LEMMA KeyValueShape ==
    ASSUME NEW l \in Text, NEW i \in 2 .. Len(l), NEW m, m = SubSeq(l, 1, i) \o <<"R">>
    PROVE  /\ m \in Text /\ Len(m) = i + 1 /\ m[i + 1] = "R"
           /\ \A j \in 1 .. i : m[j] = l[j]
<1>0. l \in Seq(STRING) /\ Len(l) \in Nat /\ "R" \in STRING
  <2>1. l \in Seq(STRING) /\ Len(l) \in Nat BY DEF Text
  <2>2. "R" \in STRING BY PrintedAssumption DEF Printed
  <2> QED BY <2>1, <2>2
<1>1. PICK a, b : a = SubSeq(l, 1, i) /\ b = <<"R">> OBVIOUS
<1>2. a \in Seq(STRING) /\ Len(a) = i /\ \A j \in 1 .. i : a[j] = l[j] BY <1>0, <1>1
<1>3. b \in Seq(STRING) /\ Len(b) = 1 /\ b[1] = "R" BY <1>0, <1>1
<1>4. PICK p, k : p = Len(a) /\ k = Len(b) OBVIOUS
<1>5. PICK w : w = a \o b OBVIOUS
<1>6. a \in Text /\ b \in Text BY <1>2, <1>3 DEF Text
<1>7. /\ w \in Text /\ Len(w) = p + k
      /\ \A j \in 1 .. p : w[j] = a[j]
      /\ \A j \in 1 .. k : w[p + j] = b[j]
  BY <1>4, <1>5, <1>6, TextCat
<1>8. p = i /\ k = 1 BY <1>2, <1>3, <1>4
<1>9. 1 \in 1 .. k BY <1>8
<1>10. m = w BY <1>1, <1>5
<1>11. w[i + 1] = "R" BY <1>3, <1>7, <1>8, <1>9
<1>12. \A j \in 1 .. i : w[j] = l[j] BY <1>2, <1>7, <1>8
<1> QED BY <1>7, <1>8, <1>10, <1>11, <1>12

LEMMA KeyValueSettles ==
    ASSUME NEW l \in Text
    PROVE  /\ RedactKeyValue(l) \in Text /\ Settled(RedactKeyValue(l))
           /\ l # <<>> => RedactKeyValue(l) # <<>> /\ RedactKeyValue(l)[1] = l[1]
           /\ \A i \in 1 .. Len(RedactKeyValue(l)) :
                 RedactKeyValue(l)[i] = "R" \/ (i \in 1 .. Len(l) /\ RedactKeyValue(l)[i] = l[i])
<1>0. l \in Seq(STRING) /\ Len(l) \in Nat BY DEF Text
<1>1. PICK m : m = RedactKeyValue(l) OBVIOUS
<1>2. CASE \E i \in 2 .. Len(l) : KeyAt(l, i) /\ m = SubSeq(l, 1, i) \o <<"R">>
  <2>1. PICK i \in 2 .. Len(l) : KeyAt(l, i) /\ m = SubSeq(l, 1, i) \o <<"R">> BY <1>2
  <2>2. m \in Text /\ Len(m) = i + 1 /\ m[i + 1] = "R" /\ \A j \in 1 .. i : m[j] = l[j]
    BY <2>1, KeyValueShape
  <2>3. l[i] = "=" /\ \A j \in 1 .. i - 1 : l[j] # "=" BY <2>1 DEF KeyAt
  <2>4. ASSUME NEW k \in 2 .. Len(m), KeyAt(m, k) PROVE k = i
    <3>1. m[k] = "=" /\ \A j \in 1 .. k - 1 : m[j] # "=" BY <2>4 DEF KeyAt
    <3>2. m[i] = "=" /\ i \in 1 .. i BY <2>2, <2>3
    <3>3. ~(i < k) BY <3>1, <3>2
    <3>4. ~(k < i)
      <4> SUFFICES ASSUME k < i PROVE FALSE OBVIOUS
      <4>1. k \in 1 .. i - 1 /\ k \in 1 .. i OBVIOUS
      <4> QED BY <2>2, <2>3, <3>1, <4>1
    <3> QED BY <3>3, <3>4
  <2>5. Settled(m) BY <2>2, <2>4 DEF Settled
  <2>6. m # <<>> /\ m[1] = l[1]
    <3>1. 1 \in 1 .. i OBVIOUS
    <3> QED BY <2>2, <3>1
  <2>7. ASSUME NEW j \in 1 .. Len(m) PROVE m[j] = "R" \/ (j \in 1 .. Len(l) /\ m[j] = l[j])
    BY <1>0, <2>2
  <2> QED BY <1>1, <2>2, <2>5, <2>6, <2>7
<1>3. CASE (\A i \in 2 .. Len(l) : ~KeyAt(l, i)) /\ m = l
  <2>1. Settled(m) BY <1>3 DEF Settled
  <2> QED BY <1>1, <1>3, <2>1
<1> QED BY <1>1, <1>2, <1>3, KeyValueFacts

LEMMA SettledKept ==
    ASSUME NEW l \in Text, Settled(l)
    PROVE  RedactKeyValue(l) = l
<1>0. l \in Seq(STRING) /\ Len(l) \in Nat BY DEF Text
<1>1. PICK m : m = RedactKeyValue(l) OBVIOUS
<1>2. CASE \E i \in 2 .. Len(l) : KeyAt(l, i) /\ m = SubSeq(l, 1, i) \o <<"R">>
  <2>1. PICK i \in 2 .. Len(l) : KeyAt(l, i) /\ m = SubSeq(l, 1, i) \o <<"R">> BY <1>2
  <2>2. m \in Seq(STRING) /\ Len(m) = i + 1 /\ m[i + 1] = "R" /\ \A j \in 1 .. i : m[j] = l[j]
    BY <2>1, KeyValueShape DEF Text
  <2>3. Len(l) = i + 1 /\ l[i + 1] = "R" BY <2>1 DEF Settled
  <2>4. \A j \in 1 .. Len(m) : m[j] = l[j] BY <2>2, <2>3
  <2>5. Len(m) = Len(l) BY <2>2, <2>3
  <2>6. m = l BY <1>0, <2>2, <2>4, <2>5, SeqEqual
  <2> QED BY <1>1, <2>6
<1> QED BY <1>1, <1>2, KeyValueFacts

(***************************************************************************)
(* The rules for schemes and for long words, word by word.                 *)
(***************************************************************************)
Hidden(l, i) == l[i] = "t" \/ (l[i] \in {"v", "t", "R", "B", "E"} /\ FollowsScheme(l, i))
Mask(l) == [i \in 1 .. Len(l) |-> IF Hidden(l, i) THEN "R" ELSE l[i]]

LEMMA MaskFacts ==
    ASSUME NEW l \in Text
    PROVE  /\ Mask(l) \in Text /\ Len(Mask(l)) = Len(l)
           /\ \A i \in 1 .. Len(l) : Mask(l)[i] = IF Hidden(l, i) THEN "R" ELSE l[i]
<1>0. "R" \in STRING BY PrintedAssumption DEF Printed
<1>1. Len(l) \in Nat BY DEF Text
<1>2. \A i \in 1 .. Len(l) : l[i] \in STRING BY DEF Text
<1>3. PICK m : m = Mask(l) OBVIOUS
<1>4. m \in [1 .. Len(l) -> STRING] BY <1>0, <1>2, <1>3 DEF Mask
<1>5. m \in Seq(STRING) /\ Len(m) = Len(l) BY <1>1, <1>4, TableIsSeq
<1>6. \A i \in 1 .. Len(l) : m[i] = IF Hidden(l, i) THEN "R" ELSE l[i] BY <1>3 DEF Mask
<1> QED BY <1>3, <1>5, <1>6 DEF Text

LEMMA MaskIs ==
    ASSUME NEW l \in Text
    PROVE  RedactLongTokens(RedactAuthSchemes(l)) = Mask(l)
<1>0. DOMAIN l = 1 .. Len(l) BY DEF Text
<1>1. PICK a : a = RedactAuthSchemes(l) OBVIOUS
<1>2. DOMAIN a = 1 .. Len(l) /\ \A i \in 1 .. Len(l) :
         a[i] = IF l[i] \in {"v", "t", "R", "B", "E"} /\ FollowsScheme(l, i) THEN "R" ELSE l[i]
  BY <1>0, <1>1 DEF RedactAuthSchemes
<1>3. RedactLongTokens(a) = [i \in 1 .. Len(l) |-> IF a[i] = "t" THEN "R" ELSE a[i]]
  BY <1>2 DEF RedactLongTokens
<1>4. \A i \in 1 .. Len(l) :
         (IF a[i] = "t" THEN "R" ELSE a[i]) = (IF Hidden(l, i) THEN "R" ELSE l[i])
  BY <1>2 DEF Hidden
<1> QED BY <1>1, <1>3, <1>4 DEF Mask

LEMMA SameSchemes ==
    ASSUME NEW l, NEW m, NEW i, \A k \in 1 .. i - 1 : l[k] = "s" <=> m[k] = "s",
           i \in Nat
    PROVE  FollowsScheme(l, i) <=> FollowsScheme(m, i)
<1>1. {j \in 1 .. i - 1 : \A k \in j .. i - 1 : l[k] = "s"} =
      {j \in 1 .. i - 1 : \A k \in j .. i - 1 : m[k] = "s"}
  <2>1. ASSUME NEW j \in 1 .. i - 1
        PROVE  (\A k \in j .. i - 1 : l[k] = "s") <=> (\A k \in j .. i - 1 : m[k] = "s")
    <3>1. \A k \in j .. i - 1 : k \in 1 .. i - 1 OBVIOUS
    <3> QED BY <3>1
  <2> QED BY <2>1
<1> QED BY <1>1 DEF FollowsScheme

LEMMA MaskTwice == ASSUME NEW l \in Text PROVE Mask(Mask(l)) = Mask(l)
<1>1. PICK m : m = Mask(l) OBVIOUS
<1>2. /\ m \in Text /\ Len(m) = Len(l)
      /\ \A i \in 1 .. Len(l) : m[i] = IF Hidden(l, i) THEN "R" ELSE l[i]
  BY <1>1, MaskFacts
<1>3. PICK w : w = Mask(m) OBVIOUS
<1>4. /\ w \in Text /\ Len(w) = Len(m)
      /\ \A i \in 1 .. Len(m) : w[i] = IF Hidden(m, i) THEN "R" ELSE m[i]
  BY <1>2, <1>3, MaskFacts
<1>5. \A i \in 1 .. Len(l) : l[i] = "s" <=> m[i] = "s" BY <1>2 DEF Hidden
<1>6. Len(l) \in Nat BY DEF Text
<1>7. ASSUME NEW i \in 1 .. Len(l) PROVE FollowsScheme(l, i) <=> FollowsScheme(m, i)
  <2>1. i \in Nat /\ \A k \in 1 .. i - 1 : l[k] = "s" <=> m[k] = "s" BY <1>5, <1>6
  <2> QED BY <2>1, SameSchemes
<1>8. ASSUME NEW i \in 1 .. Len(l) PROVE w[i] = m[i]
  <2>1. CASE Hidden(l, i) BY <1>2, <1>4, <2>1
  <2>2. CASE ~Hidden(l, i)
    <3>1. m[i] = l[i] BY <1>2, <2>2
    <3>2. ~Hidden(m, i) BY <1>7, <2>2, <3>1 DEF Hidden
    <3> QED BY <1>2, <1>4, <3>2
  <2> QED BY <2>1, <2>2
<1>9. w = m
  <2>1. w \in Seq(STRING) /\ m \in Seq(STRING) /\ Len(w) = Len(m)
        /\ \A i \in 1 .. Len(w) : w[i] = m[i]
    BY <1>2, <1>4, <1>8 DEF Text
  <2> QED BY <2>1, SeqEqual
<1> QED BY <1>1, <1>3, <1>9

LEMMA MaskSettled ==
    ASSUME NEW l \in Text, Settled(l)
    PROVE  Settled(Mask(l))
<1>1. PICK m : m = Mask(l) OBVIOUS
<1>2. /\ m \in Text /\ Len(m) = Len(l)
      /\ \A i \in 1 .. Len(l) : m[i] = IF Hidden(l, i) THEN "R" ELSE l[i]
  BY <1>1, MaskFacts
<1>3. \A i \in 1 .. Len(l) : /\ l[i] = "=" <=> m[i] = "="
                             /\ l[i] = "k" <=> m[i] = "k"
                             /\ l[i] = "R" => m[i] = "R"
  BY <1>2 DEF Hidden
<1>4. Len(l) \in Nat BY DEF Text
<1>5. ASSUME NEW i \in 2 .. Len(m), KeyAt(m, i) PROVE Len(m) = i + 1 /\ m[i + 1] = "R"
  <2>1. i \in 1 .. Len(l) /\ i - 1 \in 1 .. Len(l) /\ \A j \in 1 .. i - 1 : j \in 1 .. Len(l)
    BY <1>2, <1>4
  <2>2. KeyAt(l, i) BY <1>2, <1>3, <1>5, <2>1 DEF KeyAt
  <2>3. Len(l) = i + 1 /\ l[i + 1] = "R" BY <1>2, <2>2 DEF Settled
  <2>4. i + 1 \in 1 .. Len(l) BY <1>4, <2>1, <2>3
  <2> QED BY <1>2, <1>3, <2>3, <2>4
<1> QED BY <1>1, <1>5 DEF Settled

LEMMA RedactLineIs ==
    ASSUME NEW l \in Text
    PROVE  RedactLine(l) = Mask(RedactKeyValue(l))
  BY KeyValueSettles, MaskIs DEF RedactLine

LEMMA RedactLineFacts ==
    ASSUME NEW l \in Line
    PROVE  /\ RedactLine(l) \in Line
           /\ RedactLine(RedactLine(l)) = RedactLine(l)
           /\ ~Opens(l) => ~Opens(RedactLine(l))
<1>0. l \in Text /\ \A i \in 1 .. Len(l) : l[i] # "n" BY DEF Line
<1>1. PICK m, w : m = RedactKeyValue(l) /\ w = Mask(m) OBVIOUS
<1>2. /\ m \in Text /\ Settled(m)
      /\ l # <<>> => m # <<>> /\ m[1] = l[1]
      /\ \A i \in 1 .. Len(m) : m[i] = "R" \/ (i \in 1 .. Len(l) /\ m[i] = l[i])
  BY <1>0, <1>1, KeyValueSettles
<1>3. /\ w \in Text /\ Len(w) = Len(m)
      /\ \A i \in 1 .. Len(m) : w[i] = IF Hidden(m, i) THEN "R" ELSE m[i]
  BY <1>1, <1>2, MaskFacts
<1>4. RedactLine(l) = w BY <1>0, <1>1, RedactLineIs
<1>5. \A i \in 1 .. Len(w) : w[i] # "n" BY <1>0, <1>2, <1>3
<1>6. w \in Line BY <1>3, <1>5 DEF Line
<1>7. RedactLine(w) = w
  <2>1. Settled(w) BY <1>1, <1>2, MaskSettled
  <2>2. RedactKeyValue(w) = w BY <1>3, <2>1, SettledKept
  <2>3. Mask(w) = w BY <1>1, <1>2, MaskTwice
  <2> QED BY <1>3, <2>2, <2>3, RedactLineIs
<1>8. ASSUME ~Opens(l) PROVE ~Opens(w)
  <2> SUFFICES ASSUME w # <<>>, w[1] = "B" PROVE FALSE BY DEF Opens
  <2>1. 1 \in 1 .. Len(w)
    <3>1. w \in Seq(STRING) /\ Len(w) \in Nat BY <1>3 DEF Text
    <3>2. Len(w) # 0 BY <3>1
    <3> QED BY <3>1, <3>2
  <2>2. m[1] = "B" BY <1>3, <2>1
  <2>3. 1 \in 1 .. Len(l) /\ l[1] = "B" BY <1>2, <1>3, <2>1, <2>2
  <2>4. l # <<>> BY <2>3
  <2> QED BY <1>8, <2>3, <2>4 DEF Opens
<1> QED BY <1>4, <1>6, <1>7, <1>8

-----------------------------------------------------------------------------
(***************************************************************************)
(* The filter goes through the lines of a text, and knows at each whether  *)
(* a block is open.                                                        *)
(***************************************************************************)
PartOf(lines, i)  == IF InPem(lines, i) THEN <<>> ELSE Shown(lines[i])
Filters(lines, f) == f[0] = <<>> /\ \A i \in 1 .. Len(lines) : f[i] = f[i - 1] \o PartOf(lines, i)

LEMMA RedactSteps ==
    ASSUME NEW t \in Text, NEW lines, lines = Lines(t)
    PROVE  \E f : RedactText(t) = f[Len(lines)] /\ Filters(lines, f)
<1> DEFINE K == Len(lines)
           f == CHOOSE h : RedactsTo(lines, K, h)
<1>1. lines \in Seq(Text)
  <2>1. Line \subseteq Text BY DEF Line
  <2>2. Lines(t) \in Seq(Line) BY LinesTyped
  <2> QED BY <2>1, <2>2
<1>2. K \in Nat BY <1>1
<1>3. RedactsTo(lines, K, f) BY <1>2, RedactsExists
<1>4. RedactText(t) = f[K]
  <2>1. RedactText(t) = RedactLines[lines] BY DEF RedactText
  <2>2. RedactLines[lines] =
          LET upTo[i \in 0 .. Len(lines)] ==
                IF i = 0 THEN <<>>
                ELSE upTo[i - 1] \o (IF InPem(lines, i) THEN <<>> ELSE Shown(lines[i]))
          IN  upTo[Len(lines)]
    BY <1>1 DEF RedactLines
  <2> QED BY <2>1, <2>2 DEF RedactsTo
<1> HIDE DEF f
<1>5. f[0] = <<>>
  <2>1. 0 \in 0 .. K BY <1>2
  <2> QED BY <1>3, <2>1 DEF RedactsTo
<1>6. ASSUME NEW i \in 1 .. K
      PROVE  f[i] = f[i - 1] \o PartOf(lines, i)
  <2>1. i \in 0 .. K /\ i # 0 BY <1>2
  <2> QED BY <1>3, <2>1 DEF RedactsTo, PartOf
<1>7. Filters(lines, f) BY <1>5, <1>6 DEF Filters
<1> QED BY <1>4, <1>7

PemNext(lines, j, b) == IF b THEN ~Closes(lines[j]) ELSE Opens(lines[j])
Pems(lines, K, f) == f = [j \in 1 .. K |-> j > 1 /\ PemNext(lines, j - 1, f[j - 1])]

LEMMA PemsAgree ==
    ASSUME NEW lines, NEW K \in Nat, NEW L \in Nat, NEW f, NEW g,
           Pems(lines, K, f), Pems(lines, L, g), NEW i \in 1 .. K, i \in 1 .. L
    PROVE  f[i] = g[i]
<1> DEFINE T == {n \in Nat : n \in 1 .. K /\ n \in 1 .. L /\ f[n] # g[n]}
<1>1. T = {}
  <2> SUFFICES ASSUME T # {} PROVE FALSE OBVIOUS
  <2>1. PICK n \in T : \A m \in T : ~(m < n) BY Smallest
  <2>2. n \in 1 .. K /\ n \in 1 .. L /\ f[n] # g[n] BY <2>1
  <2>3. f[n] = (n > 1 /\ PemNext(lines, n - 1, f[n - 1])) BY <2>2 DEF Pems
  <2>4. g[n] = (n > 1 /\ PemNext(lines, n - 1, g[n - 1])) BY <2>2 DEF Pems
  <2>5. CASE n = 1
    <3>1. ~(n > 1) BY <2>5
    <3>2. f[n] = FALSE /\ g[n] = FALSE BY <2>3, <2>4, <3>1
    <3> QED BY <2>2, <3>2
  <2>6. CASE n # 1
    <3>1. n - 1 \in Nat /\ n - 1 \in 1 .. K /\ n - 1 \in 1 .. L /\ n - 1 < n BY <2>2, <2>6
    <3>2. f[n - 1] = g[n - 1] BY <2>1, <3>1
    <3>3. f[n] = g[n] BY <2>3, <2>4, <3>2
    <3> QED BY <2>2, <3>3
  <2> QED BY <2>5, <2>6
<1> QED BY <1>1

LEMMA PemsExist ==
    ASSUME NEW lines, NEW K \in Nat
    PROVE  \E f : Pems(lines, K, f)
<1> DEFINE T == {k \in Nat : ~ \E f : Pems(lines, k, f)}
<1> SUFFICES ASSUME T # {} PROVE FALSE OBVIOUS
<1>1. PICK k \in T : \A m \in T : ~(m < k) BY Smallest
<1>2. k # 0
  <2>1. Pems(lines, 0, [n \in 1 .. 0 |-> FALSE]) BY DEF Pems
  <2> QED BY <2>1
<1>3. PICK f : Pems(lines, k - 1, f)
  <2>1. k - 1 \in Nat /\ k - 1 < k BY <1>2
  <2> QED BY <1>1, <2>1
<1> DEFINE Rest(h, n) == n > 1 /\ PemNext(lines, n - 1, h[n - 1])
           g == [n \in 1 .. k |-> Rest(f, n)]
<1>4. f = [n \in 1 .. k - 1 |-> Rest(f, n)] BY <1>3 DEF Pems
<1>5. ASSUME NEW n \in 1 .. k - 1 PROVE g[n] = f[n]
  <2> HIDE DEF Rest
  <2>1. n \in 1 .. k OBVIOUS
  <2>2. g[n] = Rest(f, n) BY <2>1
  <2>3. f[n] = Rest(f, n) BY <1>4
  <2> QED BY <2>2, <2>3
<1>6. ASSUME NEW n \in 1 .. k PROVE Rest(f, n) = Rest(g, n)
  <2> HIDE DEF g
  <2>1. CASE n = 1
    <3>1. ~(n > 1) BY <2>1
    <3> QED BY <3>1
  <2>2. CASE n # 1
    <3>1. n - 1 \in 1 .. k - 1 BY <2>2
    <3>2. f[n - 1] = g[n - 1] BY <1>5, <3>1
    <3> QED BY <3>2
  <2> QED BY <2>1, <2>2
<1>7. Pems(lines, k, g)
  <2>1. g = [n \in 1 .. k |-> Rest(g, n)]
    <3> HIDE DEF Rest
    <3>1. g = [n \in 1 .. k |-> Rest(f, n)] OBVIOUS
    <3> HIDE DEF g
    <3> QED BY <1>6, <3>1
  <2> QED BY <2>1 DEF Pems
<1> QED BY <1>1, <1>7

LEMMA InPemSteps ==
    ASSUME NEW lines, NEW i \in Nat
    PROVE  /\ ~InPem(lines, 1)
           /\ i >= 1 => (InPem(lines, i + 1) <=> PemNext(lines, i, InPem(lines, i)))
<1> DEFINE F(n) == CHOOSE f : Pems(lines, n, f)
<1>1. \A n \in Nat : Pems(lines, n, F(n)) BY PemsExist
<1>2. \A n \in Nat : InPem(lines, n) = F(n)[n] BY DEF InPem, Pems, PemNext
<1> HIDE DEF F
<1>3. ~InPem(lines, 1)
  <2>1. F(1)[1] = (1 > 1 /\ PemNext(lines, 1 - 1, F(1)[1 - 1])) BY <1>1 DEF Pems
  <2>2. ~(1 > 1) OBVIOUS
  <2>3. ~F(1)[1] BY <2>1, <2>2, Zenon
  <2>4. InPem(lines, 1) = F(1)[1] BY <1>2
  <2> QED BY <2>3, <2>4, Zenon
<1>4. ASSUME i >= 1 PROVE InPem(lines, i + 1) <=> PemNext(lines, i, InPem(lines, i))
  <2>1. PICK n : n = i + 1 OBVIOUS
  <2>2. n \in Nat /\ n \in 1 .. n /\ n > 1 /\ n - 1 = i /\ i \in 1 .. n /\ i \in 1 .. i
    BY <1>4, <2>1
  <2>3. PICK f, g : f = F(n) /\ g = F(i) OBVIOUS
  <2>4. Pems(lines, n, f) /\ Pems(lines, i, g) BY <1>1, <2>2, <2>3
  <2>5. f[n] = (n > 1 /\ PemNext(lines, n - 1, f[n - 1])) BY <2>2, <2>4 DEF Pems
  <2>6. f[i] = g[i] BY <2>2, <2>4, PemsAgree
  <2>7. f[n] = (n > 1 /\ PemNext(lines, i, g[i]))
    <3>1. n - 1 = i BY <2>2
    <3> QED BY <2>5, <2>6, <3>1, Zenon
  <2>8. InPem(lines, n) = f[n] /\ InPem(lines, i) = g[i] BY <1>2, <2>2, <2>3
  <2>9. n > 1 BY <2>2
  <2> QED BY <2>1, <2>7, <2>8, <2>9, Zenon
<1> QED BY <1>3, <1>4

LEMMA NoPem ==
    ASSUME NEW lines, NEW K \in Nat, \A j \in 1 .. K : ~Opens(lines[j])
    PROVE  \A i \in 1 .. K : ~InPem(lines, i)
<1> DEFINE T == {i \in 1 .. K : InPem(lines, i)}
<1>1. T = {}
  <2> SUFFICES ASSUME T # {} PROVE FALSE OBVIOUS
  <2>0. T \subseteq Nat OBVIOUS
  <2>1. PICK n \in T : \A m \in T : ~(m < n) BY <2>0, Smallest
  <2>2. n \in 1 .. K /\ InPem(lines, n) BY <2>1
  <2>3. n # 1 BY <2>2, InPemSteps
  <2>4. PICK i : i = n - 1 OBVIOUS
  <2>5. i \in Nat /\ i >= 1 /\ i \in 1 .. K /\ i < n /\ n = i + 1 BY <2>2, <2>3, <2>4
  <2>6. ~InPem(lines, i) BY <2>1, <2>5
  <2>7. InPem(lines, n) <=> PemNext(lines, i, InPem(lines, i)) BY <2>5, InPemSteps
  <2>8. ~PemNext(lines, i, InPem(lines, i)) BY <2>5, <2>6 DEF PemNext
  <2> QED BY <2>2, <2>7, <2>8
<1> QED BY <1>1

(***************************************************************************)
(* A text in which no line opens a block is redacted line by line.         *)
(***************************************************************************)
Unopened == {ls \in Seq(Line) : \A i \in 1 .. Len(ls) : ~Opens(ls[i])}

LEMMA RedactUnopened ==
    ASSUME NEW ls \in Unopened, NEW rs, rs = [i \in 1 .. Len(ls) |-> RedactLine(ls[i])]
    PROVE  rs \in Seq(Line) /\ Len(rs) = Len(ls) /\ RedactText(Joined(ls)) = Joined(rs)
<1>0. ls \in Seq(Line) /\ Len(ls) \in Nat BY DEF Unopened
<1>1. PICK K : K = Len(ls) OBVIOUS
<1>2. K \in Nat /\ \A i \in 1 .. K : ls[i] \in Line /\ ~Opens(ls[i]) BY <1>0, <1>1 DEF Unopened
<1>3. rs \in Seq(Line) /\ Len(rs) = K /\ \A i \in 1 .. K : rs[i] = RedactLine(ls[i])
  <2>1. rs = [i \in 1 .. K |-> RedactLine(ls[i])] BY <1>1
  <2>2. \A i \in 1 .. K : RedactLine(ls[i]) \in Line BY <1>2, RedactLineFacts
  <2>3. rs \in [1 .. K -> Line] BY <2>1, <2>2
  <2>4. \A i \in 1 .. K : rs[i] = RedactLine(ls[i]) BY <2>1
  <2> QED BY <1>2, <2>3, <2>4, TableIsSeq
<1>4. Joined(ls) \in Text /\ ls = Lines(Joined(ls)) BY <1>0, JoinedLines
<1>5. PICK f : RedactText(Joined(ls)) = f[Len(ls)] /\ Filters(ls, f) BY <1>4, RedactSteps
<1>6. \A i \in 1 .. K : ~InPem(ls, i) BY <1>2, NoPem
<1>7. ASSUME NEW i \in 1 .. K PROVE f[i] = f[i - 1] \o Append(rs[i], "n")
  <2>1. f[i] = f[i - 1] \o Shown(ls[i]) BY <1>1, <1>5, <1>6 DEF Filters, PartOf
  <2>2. Shown(ls[i]) = Append(rs[i], "n") BY <1>2, <1>3 DEF Shown
  <2> QED BY <2>1, <2>2
<1> DEFINE T == {n \in 0 .. K : f[n] # Joined(SubSeq(rs, 1, n))}
<1>8. T = {}
  <2> SUFFICES ASSUME T # {} PROVE FALSE OBVIOUS
  <2>0. T \subseteq Nat OBVIOUS
  <2>1. PICK n \in T : \A m \in T : ~(m < n) BY <2>0, Smallest
  <2>2. n # 0
    <3>1. SubSeq(rs, 1, 0) = <<>> BY <1>3
    <3>2. f[0] = Joined(SubSeq(rs, 1, 0)) BY <1>5, <3>1, JoinedNone DEF Filters
    <3> QED BY <3>2
  <2>3. n \in 1 .. K /\ n - 1 \in 0 .. K /\ n - 1 < n BY <1>2, <2>2
  <2>4. f[n - 1] = Joined(SubSeq(rs, 1, n - 1)) BY <2>1, <2>3
  <2>5. PICK a : a = SubSeq(rs, 1, n - 1) OBVIOUS
  <2>6. a \in Seq(Line) /\ rs[n] \in Line BY <1>2, <1>3, <2>3, <2>5
  <2>7. SubSeq(rs, 1, n) = Append(a, rs[n]) BY <1>2, <1>3, <2>3, <2>5
  <2>8. Joined(Append(a, rs[n])) = Joined(a) \o Append(rs[n], "n") BY <2>6, JoinedAppend
  <2>9. f[n] = Joined(SubSeq(rs, 1, n)) BY <1>7, <2>3, <2>4, <2>5, <2>7, <2>8
  <2> QED BY <2>9
<1>9. f[K] = Joined(SubSeq(rs, 1, K))
  <2>1. K \in 0 .. K BY <1>2
  <2> QED BY <1>8, <2>1
<1>10. SubSeq(rs, 1, K) = rs BY <1>3
<1> QED BY <1>1, <1>3, <1>5, <1>9, <1>10

(***************************************************************************)
(* A text is clean if it is made of lines that the filter leaves alone.    *)
(***************************************************************************)
CleanLine == {l \in Line : ~Opens(l) /\ RedactLine(l) = l}
Clean     == {Joined(ls) : ls \in Seq(CleanLine)}

LEMMA CleanKept ==
    ASSUME NEW t \in Clean
    PROVE  t \in Text /\ RedactText(t) = t
<1>1. PICK ls \in Seq(CleanLine) : t = Joined(ls) BY DEF Clean
<1>2. PICK K : K = Len(ls) OBVIOUS
<1>3. K \in Nat /\ \A i \in 1 .. K : ls[i] \in CleanLine BY <1>2
<1>4. \A i \in 1 .. K : ls[i] \in Line /\ ~Opens(ls[i]) /\ RedactLine(ls[i]) = ls[i]
  BY <1>3 DEF CleanLine
<1>5. ls \in Seq(Line)
  <2>1. CleanLine \subseteq Line BY DEF CleanLine
  <2> QED BY <2>1, SeqMono
<1>6. ls \in Unopened BY <1>2, <1>4, <1>5 DEF Unopened
<1>7. PICK rs : rs = [i \in 1 .. Len(ls) |-> RedactLine(ls[i])] OBVIOUS
<1>8. rs \in Seq(Line) /\ Len(rs) = Len(ls) /\ RedactText(Joined(ls)) = Joined(rs)
  BY <1>6, <1>7, RedactUnopened
<1>9. \A i \in 1 .. Len(rs) : rs[i] = ls[i] BY <1>2, <1>4, <1>7, <1>8
<1>10. rs = ls BY <1>5, <1>8, <1>9, SeqEqual
<1> QED BY <1>1, <1>5, <1>8, <1>10, JoinedLines

LEMMA CleanMakes ==
    /\ <<>> \in Clean
    /\ \A l \in CleanLine : Append(l, "n") \in Clean
    /\ \A a, b \in Clean : a \o b \in Clean
<1>0. CleanLine \subseteq Line BY DEF CleanLine
<1>1. <<>> \in Clean
  <2>1. <<>> \in Seq(CleanLine) OBVIOUS
  <2> QED BY <2>1, JoinedNone DEF Clean
<1>2. ASSUME NEW l \in CleanLine PROVE Append(l, "n") \in Clean
  <2>1. <<l>> \in Seq(CleanLine) OBVIOUS
  <2>2. Joined(<<l>>) = Append(l, "n") BY <1>0, JoinedOne
  <2> QED BY <2>1, <2>2 DEF Clean
<1>3. ASSUME NEW a \in Clean, NEW b \in Clean PROVE a \o b \in Clean
  <2>1. PICK ls \in Seq(CleanLine) : a = Joined(ls) BY DEF Clean
  <2>2. PICK ms \in Seq(CleanLine) : b = Joined(ms) BY DEF Clean
  <2>3. ls \in Seq(Line) /\ ms \in Seq(Line) BY <1>0, SeqMono
  <2>4. ls \o ms \in Seq(CleanLine) OBVIOUS
  <2>5. Joined(ls \o ms) = a \o b BY <2>1, <2>2, <2>3, JoinedCat
  <2> QED BY <2>4, <2>5 DEF Clean
<1> QED BY <1>1, <1>2, <1>3

(* Words that no rule speaks of; a scheme may end a line. *)
LEMMA PlainWords ==
    ASSUME NEW l \in Line, ~Opens(l), Settled(l),
           \A i \in 1 .. Len(l) : l[i] # "t" /\ (l[i] = "s" => i = Len(l))
    PROVE  l \in CleanLine
<1>0. l \in Text /\ Len(l) \in Nat BY DEF Line, Text
<1>1. RedactKeyValue(l) = l BY <1>0, SettledKept
<1>2. ASSUME NEW i \in 1 .. Len(l) PROVE ~FollowsScheme(l, i)
  <2>1. {j \in 1 .. i - 1 : \A k \in j .. i - 1 : l[k] = "s"} = {}
    <3> SUFFICES ASSUME NEW j \in 1 .. i - 1, \A k \in j .. i - 1 : l[k] = "s" PROVE FALSE
      OBVIOUS
    <3>1. j \in j .. i - 1 /\ j \in 1 .. Len(l) /\ j # Len(l) BY <1>0
    <3> QED BY <3>1
  <2>2. Cardinality({}) = 0 BY FS_EmptySet
  <2>3. 0 % 2 # 1 OBVIOUS
  <2>4. Cardinality({j \in 1 .. i - 1 : \A k \in j .. i - 1 : l[k] = "s"}) = 0
    BY <2>1, <2>2, Zenon
  <2> QED BY <2>3, <2>4 DEF FollowsScheme
<1>3. \A i \in 1 .. Len(l) : ~Hidden(l, i) BY <1>2 DEF Hidden
<1>4. Mask(l) = l
  <2>1. PICK m : m = Mask(l) OBVIOUS
  <2>2. m \in Seq(STRING) /\ Len(m) = Len(l) /\ \A i \in 1 .. Len(m) : m[i] = l[i]
    BY <1>0, <1>3, <2>1, MaskFacts DEF Text
  <2>3. l \in Seq(STRING) BY <1>0 DEF Text
  <2>4. m = l BY <2>2, <2>3, SeqEqual
  <2> QED BY <2>1, <2>4
<1>5. RedactLine(l) = l BY <1>0, <1>1, <1>4, RedactLineIs
<1> QED BY <1>5 DEF CleanLine

LEMMA PlainTwo ==
    ASSUME NEW a \in STRING, NEW b \in STRING, a \notin {"n", "t", "s", "k", "B"},
           b \notin {"n", "t"}
    PROVE  <<a, b>> \in CleanLine
<1>1. PICK l : l = <<a, b>> OBVIOUS
<1>2. l \in Seq(STRING) BY <1>1
<1>3. Len(l) = 2 /\ l[1] = a /\ l[2] = b BY <1>1
<1>4. \A i \in 1 .. 2 : l[i] # "n" /\ l[i] # "t" /\ (l[i] = "s" => i = 2) BY <1>3
<1>5. l \in Line BY <1>2, <1>3, <1>4 DEF Line, Text
<1>6. ~Opens(l) BY <1>3 DEF Opens
<1>7. Settled(l)
  <2> SUFFICES ASSUME NEW i \in 2 .. Len(l), KeyAt(l, i) PROVE FALSE BY DEF Settled
  <2>1. i = 2 BY <1>3
  <2>2. l[1] = "k" BY <2>1 DEF KeyAt
  <2> QED BY <1>3, <2>2
<1>8. \A i \in 1 .. Len(l) : l[i] # "t" /\ (l[i] = "s" => i = Len(l)) BY <1>3, <1>4
<1> QED BY <1>1, <1>5, <1>6, <1>7, <1>8, PlainWords

LEMMA PlainOne ==
    ASSUME NEW a \in STRING, a \notin {"n", "t", "B"}
    PROVE  <<a>> \in CleanLine
<1>1. PICK l : l = <<a>> OBVIOUS
<1>2. l \in Seq(STRING) BY <1>1
<1>3. Len(l) = 1 /\ l[1] = a BY <1>1
<1>4. \A i \in 1 .. 1 : l[i] # "n" /\ l[i] # "t" BY <1>3
<1>5. l \in Line BY <1>2, <1>3, <1>4 DEF Line, Text
<1>6. ~Opens(l) BY <1>3 DEF Opens
<1>7. Settled(l) BY <1>3 DEF Settled
<1>8. \A i \in 1 .. Len(l) : l[i] # "t" /\ (l[i] = "s" => i = Len(l)) BY <1>3, <1>4
<1> QED BY <1>1, <1>5, <1>6, <1>7, <1>8, PlainWords

(* What the filter returns is clean, whatever it is given. *)
LEMMA RedactCleans == ASSUME NEW t \in Text PROVE RedactText(t) \in Clean
<1>1. PICK ls : ls = Lines(t) OBVIOUS
<1>2. ls \in Seq(Line) BY <1>1, LinesTyped
<1>3. PICK K : K = Len(ls) OBVIOUS
<1>4. K \in Nat /\ \A i \in 1 .. K : ls[i] \in Line BY <1>2, <1>3
<1>5. PICK f : RedactText(t) = f[Len(ls)] /\ Filters(ls, f) BY <1>1, RedactSteps
<1>6. Marker \in CleanLine
  <2>1. "R" \in STRING /\ "removed" \in STRING BY PrintedAssumption DEF Printed
  <2>2. "R" \notin {"n", "t", "s", "k", "B"} /\ "removed" \notin {"n", "t"} OBVIOUS
  <2> QED BY <2>1, <2>2, PlainTwo DEF Marker
<1>7. ASSUME NEW l \in Line PROVE Shown(l) \in Clean
  <2>1. CASE Opens(l) BY <1>6, <2>1, CleanMakes DEF Shown
  <2>2. CASE ~Opens(l)
    <3>1. RedactLine(l) \in CleanLine BY <2>2, RedactLineFacts DEF CleanLine
    <3> QED BY <2>2, <3>1, CleanMakes DEF Shown
  <2> QED BY <2>1, <2>2
<1> DEFINE T == {n \in 0 .. K : f[n] \notin Clean}
<1>8. T = {}
  <2> SUFFICES ASSUME T # {} PROVE FALSE OBVIOUS
  <2>0. T \subseteq Nat OBVIOUS
  <2>1. PICK n \in T : \A m \in T : ~(m < n) BY <2>0, Smallest
  <2>2. n # 0 BY <1>5, CleanMakes DEF Filters
  <2>3. n \in 1 .. K /\ n - 1 \in 0 .. K /\ n - 1 < n BY <1>4, <2>2
  <2>4. f[n - 1] \in Clean BY <2>1, <2>3
  <2>5. PICK x : x = PartOf(ls, n) OBVIOUS
  <2>6. f[n] = f[n - 1] \o x BY <1>3, <1>5, <2>3, <2>5 DEF Filters
  <2>7. x \in Clean BY <1>4, <1>7, <2>3, <2>5, CleanMakes DEF PartOf
  <2>8. f[n] \in Clean BY <2>4, <2>6, <2>7, CleanMakes
  <2> QED BY <2>8
<1>9. K \in 0 .. K BY <1>4
<1> QED BY <1>3, <1>5, <1>8, <1>9

-----------------------------------------------------------------------------
(***************************************************************************)
(* The report is clean: it is put together of titles and of texts that the *)
(* filter returned.                                                        *)
(***************************************************************************)
LEMMA AppendTuple ==
    ASSUME NEW a, NEW b, NEW c
    PROVE  Append(<<a>>, c) = <<a, c>> /\ Append(<<a, b>>, c) = <<a, b, c>>
<1>0. PICK S : S = {a, b, c} OBVIOUS
<1>1. <<a>> \in Seq(S) /\ <<a, b>> \in Seq(S) /\ a \in S /\ b \in S /\ c \in S BY <1>0
<1>2. <<a, c>> \in Seq(S) /\ <<a, b, c>> \in Seq(S) BY <1>0
<1>3. PICK s : s = Append(<<a>>, c) OBVIOUS
<1>4. s \in Seq(S) /\ Len(s) = 2 /\ s[1] = a /\ s[2] = c BY <1>1, <1>3
<1>5. PICK t : t = <<a, c>> OBVIOUS
<1>6. t \in Seq(S) /\ Len(t) = 2 /\ t[1] = a /\ t[2] = c BY <1>2, <1>5
<1>7. s = t
  <2>1. \A i \in 1 .. Len(s) : i = 1 \/ i = 2 BY <1>4
  <2>2. \A i \in 1 .. Len(s) : s[i] = t[i] BY <1>4, <1>6, <2>1
  <2> QED BY <1>4, <1>6, <2>2, SeqEqual
<1>8. PICK u : u = Append(<<a, b>>, c) OBVIOUS
<1>9. u \in Seq(S) /\ Len(u) = 3 /\ u[1] = a /\ u[2] = b /\ u[3] = c BY <1>1, <1>8
<1>10. PICK v : v = <<a, b, c>> OBVIOUS
<1>11. v \in Seq(S) /\ Len(v) = 3 /\ v[1] = a /\ v[2] = b /\ v[3] = c BY <1>2, <1>10
<1>12. u = v
  <2>1. \A i \in 1 .. Len(u) : i = 1 \/ i = 2 \/ i = 3 BY <1>9
  <2>2. \A i \in 1 .. Len(u) : u[i] = v[i] BY <1>9, <1>11, <2>1
  <2> QED BY <1>9, <1>11, <2>2, SeqEqual
<1> QED BY <1>3, <1>5, <1>7, <1>8, <1>10, <1>12

LEMMA OneWordClean ==
    ASSUME NEW a \in STRING, a \notin {"n", "t", "B"}
    PROVE  <<a, "n">> \in Clean
<1>1. <<a>> \in CleanLine BY PlainOne
<1>2. Append(<<a>>, "n") = <<a, "n">> BY AppendTuple, Zenon
<1> QED BY <1>1, <1>2, CleanMakes

LEMMA TwoWordsClean ==
    ASSUME NEW a \in STRING, NEW b \in STRING, a \notin {"n", "t", "s", "k", "B"},
           b \notin {"n", "t"}
    PROVE  <<a, b, "n">> \in Clean
<1>1. <<a, b>> \in CleanLine BY PlainTwo
<1>2. Append(<<a, b>>, "n") = <<a, b, "n">> BY AppendTuple, Zenon
<1> QED BY <1>1, <1>2, CleanMakes

LEMMA ConfigClean ==
    ASSUME NEW files \in Seq(Text)
    PROVE  ConfigInfo(files) \in Clean
<1>0. "title" \in STRING /\ "none" \in STRING BY PrintedAssumption DEF Printed
<1>1. <<"title", "n">> \in Clean /\ <<"none", "n">> \in Clean BY <1>0, OneWordClean
<1> DEFINE Part(i) == IF Exists(files[i]) THEN <<"title", "n">> \o RedactText(files[i]) ELSE <<>>
           ss == [i \in DOMAIN files |-> Part(i)]
<1>2. \A i \in 1 .. Len(files) : Part(i) \in Clean
  <2>1. \A i \in 1 .. Len(files) : RedactText(files[i]) \in Clean BY RedactCleans
  <2>2. \A i \in 1 .. Len(files) : <<"title", "n">> \o RedactText(files[i]) \in Clean
    BY <1>1, <2>1, CleanMakes
  <2> QED BY <2>2, CleanMakes
<1> HIDE DEF Part
<1>3. ss \in [1 .. Len(files) -> Clean] /\ Len(files) \in Nat BY <1>2
<1>4. ss \in Seq(Clean)
  <2> HIDE DEF ss
  <2> QED BY <1>3
<1>5. FlattenSeq(ss) \in Clean BY <1>4, CleanMakes, FlattenIn
<1>6. ConfigInfo(files) = IF \E i \in DOMAIN files : Exists(files[i]) THEN FlattenSeq(ss)
                          ELSE <<"none", "n">>
  BY DEF ConfigInfo, Part
<1> QED BY <1>1, <1>5, <1>6

CleanLog    == {l \in Log : l.excerpt \in Clean}
CleanReport == {r \in Report : r.body \in Clean /\ r.logs \in Seq(CleanLog)}

(* In a clean line nothing is where a rule looks. *)
LEMMA CleanLineTells ==
    ASSUME NEW l \in CleanLine
    PROVE  ~Discloses(l)
<1>0. l \in Line /\ l \in Text /\ ~Opens(l) /\ RedactLine(l) = l BY DEF CleanLine, Line
<1>1. Len(l) \in Nat /\ DOMAIN l = 1 .. Len(l) BY <1>0 DEF Text
<1>2. PICK m : m = RedactKeyValue(l) OBVIOUS
<1>3. m \in Text /\ Settled(m) /\ l = Mask(m) BY <1>0, <1>2, KeyValueSettles, RedactLineIs
<1>4. Settled(l) BY <1>3, MaskSettled
<1>5. RedactKeyValue(l) = l BY <1>0, <1>4, SettledKept
<1>6. \A i \in 1 .. Len(l) : l[i] = IF Hidden(l, i) THEN "R" ELSE l[i]
  <2>1. l = Mask(l) BY <1>2, <1>3, <1>5
  <2>2. \A i \in 1 .. Len(l) : Mask(l)[i] = IF Hidden(l, i) THEN "R" ELSE l[i]
    BY <1>0, MaskFacts
  <2> QED BY <2>1, <2>2
<1>7. ASSUME NEW i \in 1 .. Len(l), Assigned(l, i) PROVE l[i] = "R"
  <2>1. PICK f \in 2 .. i - 1 : l[f] = "=" /\ l[f - 1] = "k" /\ \A j \in 1 .. f - 1 : l[j] # "="
    BY <1>7 DEF Assigned
  <2>2. f \in 2 .. Len(l) BY <1>1
  <2>3. KeyAt(l, f) BY <2>1, <2>2 DEF KeyAt
  <2>4. Len(l) = f + 1 /\ l[f + 1] = "R" BY <1>4, <2>2, <2>3 DEF Settled
  <2>5. i = f + 1 BY <1>1, <2>4
  <2> QED BY <2>4, <2>5
<1>8. ASSUME NEW i \in 1 .. Len(l), Secret(l, i) PROVE l[i] = "R"
  BY <1>6, <1>7, <1>8 DEF Secret, Hidden
<1> QED BY <1>0, <1>1, <1>8 DEF Discloses

LEMMA CleanTells ==
    ASSUME NEW t \in Clean, NEW i \in DOMAIN Lines(t)
    PROVE  ~Discloses(Lines(t)[i])
<1>1. PICK ls \in Seq(CleanLine) : t = Joined(ls) BY DEF Clean
<1>2. CleanLine \subseteq Line BY DEF CleanLine
<1>3. ls \in Seq(Line) BY <1>2, SeqMono
<1>4. Lines(t) = ls BY <1>1, <1>3, JoinedLines
<1>5. Lines(t)[i] \in CleanLine BY <1>4
<1> QED BY <1>5, CleanLineTells

Cleared ==
    /\ sections = <<>> \/ \E c \in Clean : sections = HostText \o c
    /\ vm.logs \in Seq(CleanLog) /\ vms \in Seq(CleanReport)

LEMMA InitCleared == Init => Cleared
<1> SUFFICES ASSUME Init PROVE Cleared OBVIOUS
<1>1. sections = <<>> /\ vm.logs = <<>> /\ vms = <<>> BY DEF Init, NoVm
<1>2. <<>> \in Seq(CleanLog) /\ <<>> \in Seq(CleanReport) OBVIOUS
<1> QED BY <1>1, <1>2 DEF Cleared

LEMMA ReadLogCleared == ASSUME LInv, Cleared, ReadLog PROVE Cleared'
<1>1. pc = "read" /\ UNCHANGED <<sections, vms>> BY DEF ReadLog
<1>2. PICK text, read : /\ text = home.logs[vm.name][file.path]
                        /\ read = SubSeq(text, file.pos + 1, Len(text))
  OBVIOUS
<1>3. PICK log : log = [path |-> file.path, name |-> FileName[file.path], of |-> text,
                        excerpt |-> RedactText(LastLines(read))]
  OBVIOUS
<1>4. vm' = IF IsUtf8(read) THEN [vm EXCEPT !.logs = Append(@, log)] ELSE vm
  BY <1>2, <1>3 DEF ReadLog
<1>5. vm \in VmReport /\ vm.name \in Vms /\ file.path \in Paths /\ file.pos \in Nat
  BY <1>1 DEF LInv, CmdTyped, Opened, Within
<1>6. text \in Text BY <1>2, <1>5, HomeFacts DEF LInv, EnvTyped
<1>7. log \in CleanLog
  <2>1. read \in Text /\ RedactText(LastLines(read)) \in Text BY <1>2, <1>5, <1>6, RestOf DEF IsRest
  <2>2. FileName[file.path] \in STRING BY <1>5, NamesFacts
  <2>3. log \in [path : Paths, name : STRING, of : Text, excerpt : Text]
    BY <1>3, <1>5, <1>6, <2>1, <2>2
  <2>4. log.excerpt = RedactText(LastLines(read)) BY <1>3
  <2>5. log \in Log BY <2>3 DEF Log
  <2>6. RedactText(LastLines(read)) \in Clean BY <2>1, LastLinesTyped, RedactCleans
  <2> QED BY <2>4, <2>5, <2>6 DEF CleanLog
<1>8. vm'.logs \in Seq(CleanLog)
  <2>0. vm.logs \in Seq(CleanLog) BY DEF Cleared
  <2>1. CASE IsUtf8(read)
    <3>1. Append(vm.logs, log) \in Seq(CleanLog) BY <1>7, <2>0
    <3>2. vm'.logs = Append(vm.logs, log) BY <1>4, <1>5, <2>1 DEF VmReport
    <3> QED BY <3>1, <3>2
  <2>2. CASE ~IsUtf8(read) BY <1>4, <2>0, <2>2
  <2> QED BY <2>1, <2>2
<1> QED BY <1>1, <1>8 DEF Cleared

LEMMA VmDoneCleared == ASSUME LInv, Cleared, VmDone PROVE Cleared'
<1>1. pc = "files" /\ vm' = NoVm /\ UNCHANGED sections BY DEF VmDone
<1>2. PICK r : r = [name |-> vm.name, listed |-> vm.listed, logs |-> vm.logs,
                    body |-> RedactText(vm.body \o LogsLine(vm.logs))]
  OBVIOUS
<1>3. vms' = Append(vms, r) BY <1>2 DEF VmDone
<1>4. vm \in VmReport /\ vm.name \in Vms BY <1>1 DEF LInv, CmdTyped, Within
<1>5. RedactText(vm.body \o LogsLine(vm.logs)) \in Clean
      /\ RedactText(vm.body \o LogsLine(vm.logs)) \in Text
  <2>1. vm.body \in Text /\ vm.logs \in Seq(Log) BY <1>4 DEF VmReport
  <2>2. vm.body \o LogsLine(vm.logs) \in Text BY <2>1, LogsLineTyped, Cat
  <2> QED BY <2>2, RedactTyped, RedactCleans
<1>6. r \in Report BY <1>2, <1>4, <1>5 DEF VmReport, Report
<1>7. r.body = RedactText(vm.body \o LogsLine(vm.logs)) /\ r.logs = vm.logs BY <1>2
<1>8. r \in CleanReport BY <1>5, <1>6, <1>7 DEF CleanReport, Cleared
<1>9. vms' \in Seq(CleanReport)
  <2>1. vms \in Seq(CleanReport) BY DEF Cleared
  <2> QED BY <1>3, <1>8, <2>1
<1>10. vm'.logs \in Seq(CleanLog)
  <2>1. vm'.logs = <<>> BY <1>1 DEF NoVm
  <2>2. <<>> \in Seq(CleanLog) OBVIOUS
  <2> QED BY <2>1, <2>2
<1> QED BY <1>1, <1>9, <1>10 DEF Cleared

LEMMA NextCleared ==
    ASSUME LInv, Cleared, [Next]_vars
    PROVE  Cleared'
<1>0. vm \in VmReport /\ home \in Home BY DEF LInv, CmdTyped, EnvTyped
<1>1. CASE UNCHANGED <<sections, vm, vms>> BY <1>1 DEF Cleared
<1>2. CASE Engine
  <2>1. UNCHANGED <<sections, vm, vms>>
    BY <1>2 DEF Engine, LogGrows, LogCut, LogRemoved, VmRemoved, Changes
  <2> QED BY <1>1, <2>1
<1>3. ASSUME NEW words \in CommandLines, Start(words) PROVE Cleared'
  <2>1. UNCHANGED <<vm, vms>> BY <1>3 DEF Start
  <2>2. \/ sections' = sections
        \/ sections' = HostText \o ConfigInfo(home.config)
        \/ sections' = HostText \o <<"no", "home", "n">>
    BY <1>3 DEF Start
  <2>3. home.config \in Seq(Text) BY <1>0 DEF Home
  <2>4. ConfigInfo(home.config) \in Clean BY <2>3, ConfigClean
  <2>5. "no" \in STRING /\ "home" \in STRING BY PrintedAssumption DEF Printed
  <2>6. "no" \notin {"n", "t", "s", "k", "B"} /\ "home" \notin {"n", "t"} OBVIOUS
  <2>7. <<"no", "home", "n">> \in Clean BY <2>5, <2>6, TwoWordsClean
  <2>8. sections' = <<>> \/ \E c \in Clean : sections' = HostText \o c
    <3>1. CASE sections' = sections BY <3>1 DEF Cleared
    <3> QED BY <2>2, <2>4, <2>7, <3>1
  <2> QED BY <2>1, <2>8 DEF Cleared
<1>4. CASE ListVms BY <1>1, <1>4 DEF ListVms
<1>5. CASE VmBegin
  <2>1. UNCHANGED <<sections, vms>> BY <1>5 DEF VmBegin
  <2>2. vm'.logs = <<>> BY <1>5 DEF VmBegin, NoVm
  <2>3. <<>> \in Seq(CleanLog) OBVIOUS
  <2> QED BY <2>1, <2>2, <2>3 DEF Cleared
<1>6. ASSUME \/ \E info, tree \in CliTexts \union {Absent} : VmDisks(info, tree)
             \/ VmNetwork \/ ListLogs \/ OpenLog \/ SeekLog
      PROVE  Cleared'
  <2>1. ASSUME NEW info, NEW tree, VmDisks(info, tree)
        PROVE  UNCHANGED <<sections, vms>> /\ vm'.logs = vm.logs
    BY <1>0, <2>1 DEF VmDisks, VmReport
  <2>2. ASSUME VmNetwork \/ ListLogs \/ OpenLog \/ SeekLog
        PROVE  UNCHANGED <<sections, vms>> /\ vm'.logs = vm.logs
    <3>1. CASE VmNetwork BY <1>0, <3>1 DEF VmNetwork, VmReport
    <3>2. CASE ListLogs BY <1>0, <3>2 DEF ListLogs, VmReport
    <3>3. CASE OpenLog BY <1>0, <3>3 DEF OpenLog, VmReport
    <3>4. CASE SeekLog BY <3>4 DEF SeekLog
    <3> QED BY <2>2, <3>1, <3>2, <3>3, <3>4
  <2>3. UNCHANGED <<sections, vms>> /\ vm'.logs = vm.logs BY <1>6, <2>1, <2>2
  <2> QED BY <2>3 DEF Cleared
<1>7. CASE Render \/ WriteReport \/ TarAppend \/ TarFinish
  <2>1. UNCHANGED <<sections, vm, vms>> BY <1>7 DEF Render, WriteReport, TarAppend, TarFinish
  <2> QED BY <1>1, <2>1
<1>8. CASE UNCHANGED vars BY <1>1, <1>8 DEF vars
<1> QED BY <1>2, <1>3, <1>4, <1>5, <1>6, <1>7, <1>8, ReadLogCleared, VmDoneCleared
        DEF Next, Command

(* What follows the host sections. *)
LEMMA ConfigSection ==
    ASSUME sections = <<>> \/ \E c \in Clean : sections = HostText \o c
    PROVE  SubSeq(sections, Len(HostText) + 1, Len(sections)) \in Clean
<1>0. HostText \in Seq(STRING) /\ Len(HostText) \in Nat BY TextsAssumption DEF Text
<1>1. CASE sections = <<>>
  <2>1. SubSeq(<<>>, Len(HostText) + 1, 0) = <<>> BY <1>0
  <2>2. Len(<<>>) = 0 OBVIOUS
  <2> QED BY <1>1, <2>1, <2>2, CleanMakes
<1>2. ASSUME NEW c \in Clean, sections = HostText \o c
      PROVE  SubSeq(sections, Len(HostText) + 1, Len(sections)) = c
  <2>1. c \in Seq(STRING) /\ Len(c) \in Nat BY CleanKept DEF Text
  <2>2. SubSeq(HostText \o c, Len(HostText) + 1, Len(HostText \o c)) = c BY <1>0, <2>1
  <2> QED BY <1>2, <2>2
<1> QED BY <1>1, <1>2

(***************************************************************************)
(* Whatever config files, network files, logs and storage CLI texts hold,  *)
(* however the logs change and wherever an excerpt of one begins: what the *)
(* filter returned discloses nothing that it looks for.                    *)
(***************************************************************************)
THEOREM NothingIsDisclosed == Spec => []NothingDisclosed
<1>1. ASSUME Cleared PROVE NothingDisclosed
  <2>1. SubSeq(sections, Len(HostText) + 1, Len(sections)) \in Clean
    BY <1>1, ConfigSection DEF Cleared
  <2>2. \A i \in DOMAIN vms : vms[i] \in CleanReport BY <1>1 DEF Cleared
  <2>3. ASSUME NEW i \in DOMAIN vms, NEW l \in ToSet(vms[i].logs) PROVE l.excerpt \in Clean
    <3>1. vms[i].logs \in Seq(CleanLog) BY <2>2 DEF CleanReport
    <3>2. PICK j \in DOMAIN vms[i].logs : l = vms[i].logs[j] BY DEF ToSet
    <3>3. l \in CleanLog BY <3>1, <3>2
    <3> QED BY <3>3 DEF CleanLog
  <2>4. \A i \in DOMAIN vms : vms[i].body \in Clean BY <2>2 DEF CleanReport
  <2>5. \A piece \in Pieces : piece \in Clean
    <3>1. ASSUME NEW piece \in {vms[i].body : i \in DOMAIN vms} PROVE piece \in Clean
      BY <2>4, <3>1
    <3>2. ASSUME NEW piece \in UNION {{l.excerpt : l \in ToSet(vms[i].logs)} : i \in DOMAIN vms}
          PROVE  piece \in Clean
      <4>1. PICK i \in DOMAIN vms : piece \in {l.excerpt : l \in ToSet(vms[i].logs)} BY <3>2
      <4>2. PICK l \in ToSet(vms[i].logs) : piece = l.excerpt BY <4>1
      <4> QED BY <2>3, <4>2
    <3> QED BY <2>1, <3>1, <3>2 DEF Pieces
  <2> QED BY <2>5, CleanTells DEF NothingDisclosed
<1>2. LInv /\ Cleared /\ [Next]_vars => Cleared' BY NextCleared
<1>3. Spec => []Cleared BY <1>2, InitCleared, LogInvariance, PTL DEF Spec
<1> QED BY <1>1, <1>3, PTL

-----------------------------------------------------------------------------
(***************************************************************************)
(* The body of a VM: none of its lines opens a PEM block, so the filter    *)
(* goes over it line by line, and the line of the logs is its last.        *)
(***************************************************************************)
QuietLine == {l \in Line : ~Opens(l)}
Quiet     == {Joined(ls) : ls \in Seq(QuietLine)}

LEMMA UnopenedIs == Seq(QuietLine) = Unopened
<1>1. ASSUME NEW ls \in Seq(QuietLine) PROVE ls \in Unopened
  <2>1. QuietLine \subseteq Line BY DEF QuietLine
  <2>2. ls \in Seq(Line) BY <2>1, SeqMono
  <2>3. \A i \in 1 .. Len(ls) : ls[i] \in QuietLine OBVIOUS
  <2> QED BY <2>2, <2>3 DEF Unopened, QuietLine
<1>2. ASSUME NEW ls \in Unopened PROVE ls \in Seq(QuietLine)
  <2>1. ls \in Seq(Line) /\ \A i \in 1 .. Len(ls) : ~Opens(ls[i]) BY DEF Unopened
  <2>2. \A i \in 1 .. Len(ls) : ls[i] \in QuietLine BY <2>1 DEF QuietLine
  <2>3. ls \in [1 .. Len(ls) -> QuietLine] /\ Len(ls) \in Nat BY <2>1, <2>2
  <2> QED BY <2>3
<1> QED BY <1>1, <1>2

LEMMA QuietMakes ==
    /\ <<>> \in Quiet
    /\ \A l \in QuietLine : Append(l, "n") \in Quiet
    /\ \A a, b \in Quiet : a \o b \in Quiet
    /\ Clean \subseteq Quiet
<1>0. QuietLine \subseteq Line /\ CleanLine \subseteq QuietLine BY DEF QuietLine, CleanLine
<1>1. <<>> \in Quiet
  <2>1. <<>> \in Seq(QuietLine) OBVIOUS
  <2> QED BY <2>1, JoinedNone DEF Quiet
<1>2. ASSUME NEW l \in QuietLine PROVE Append(l, "n") \in Quiet
  <2>1. <<l>> \in Seq(QuietLine) OBVIOUS
  <2>2. Joined(<<l>>) = Append(l, "n") BY <1>0, JoinedOne
  <2> QED BY <2>1, <2>2 DEF Quiet
<1>3. ASSUME NEW a \in Quiet, NEW b \in Quiet PROVE a \o b \in Quiet
  <2>1. PICK ls \in Seq(QuietLine) : a = Joined(ls) BY DEF Quiet
  <2>2. PICK ms \in Seq(QuietLine) : b = Joined(ms) BY DEF Quiet
  <2>3. ls \in Seq(Line) /\ ms \in Seq(Line) BY <1>0, SeqMono
  <2>4. ls \o ms \in Seq(QuietLine) OBVIOUS
  <2>5. Joined(ls \o ms) = a \o b BY <2>1, <2>2, <2>3, JoinedCat
  <2> QED BY <2>4, <2>5 DEF Quiet
<1>4. ASSUME NEW t \in Clean PROVE t \in Quiet
  <2>1. PICK ls \in Seq(CleanLine) : t = Joined(ls) BY DEF Clean
  <2>2. ls \in Seq(QuietLine) BY <1>0, SeqMono
  <2> QED BY <2>1, <2>2 DEF Quiet
<1> QED BY <1>1, <1>2, <1>3, <1>4

(* indent leaves it as it is. *)
LEMMA QuietIndent ==
    ASSUME NEW t \in Quiet
    PROVE  t \in Text /\ Indent(t) = t
<1>1. PICK ls \in Seq(QuietLine) : t = Joined(ls) BY DEF Quiet
<1>2. QuietLine \subseteq Line BY DEF QuietLine
<1>3. ls \in Seq(Line) BY <1>1, <1>2, SeqMono
<1> QED BY <1>1, <1>3, JoinedLines DEF Indent

LEMMA CatTuple ==
    ASSUME NEW a, NEW b, NEW c, NEW d
    PROVE  Append(<<a, b, c>>, d) = <<a, b, c, d>>
<1>0. PICK S : S = {a, b, c, d} OBVIOUS
<1>1. <<a, b, c>> \in Seq(S) /\ d \in S BY <1>0
<1>2. <<a, b, c, d>> \in Seq(S) BY <1>0
<1>3. PICK s : s = Append(<<a, b, c>>, d) OBVIOUS
<1>4. s \in Seq(S) /\ Len(s) = 4 /\ s[1] = a /\ s[2] = b /\ s[3] = c /\ s[4] = d BY <1>1, <1>3
<1>5. PICK t : t = <<a, b, c, d>> OBVIOUS
<1>6. t \in Seq(S) /\ Len(t) = 4 /\ t[1] = a /\ t[2] = b /\ t[3] = c /\ t[4] = d BY <1>2, <1>5
<1>7. \A i \in 1 .. Len(s) : i = 1 \/ i = 2 \/ i = 3 \/ i = 4 BY <1>4
<1>8. \A i \in 1 .. Len(s) : s[i] = t[i] BY <1>4, <1>6, <1>7
<1>9. s = t BY <1>4, <1>6, <1>8, SeqEqual
<1> QED BY <1>3, <1>5, <1>9

(* A line of one, two or three words; the third may be a line end itself. *)
LEMMA QuietWords ==
    ASSUME NEW a \in STRING, NEW b \in STRING, NEW c \in STRING, a \notin {"n", "B"}, b # "n"
    PROVE  /\ <<a, "n">> \in Quiet /\ <<a, b, "n">> \in Quiet /\ <<a, b, c, "n">> \in Quiet
<1>1. <<a, "n">> \in Quiet
  <2>1. PICK l : l = <<a>> OBVIOUS
  <2>2. l \in Text BY <2>1, Word1
  <2>3. Len(l) = 1 /\ l[1] = a BY <2>1
  <2>4. \A i \in 1 .. Len(l) : l[i] # "n" BY <2>3
  <2>5. l \in QuietLine BY <2>2, <2>3, <2>4 DEF QuietLine, Line, Opens
  <2>6. Append(l, "n") = <<a, "n">> BY <2>1, AppendTuple, Zenon
  <2> QED BY <2>5, <2>6, QuietMakes
<1>2. <<a, b, "n">> \in Quiet
  <2>1. PICK l : l = <<a, b>> OBVIOUS
  <2>2. l \in Text BY <2>1, Word2
  <2>3. Len(l) = 2 /\ l[1] = a /\ l[2] = b BY <2>1
  <2>4. \A i \in 1 .. Len(l) : l[i] # "n" BY <2>3
  <2>5. l \in QuietLine BY <2>2, <2>3, <2>4 DEF QuietLine, Line, Opens
  <2>6. Append(l, "n") = <<a, b, "n">> BY <2>1, AppendTuple, Zenon
  <2> QED BY <2>5, <2>6, QuietMakes
<1>3. CASE c # "n"
  <2>1. PICK l : l = <<a, b, c>> OBVIOUS
  <2>2. l \in Text BY <2>1, Word3
  <2>3. Len(l) = 3 /\ l[1] = a /\ l[2] = b /\ l[3] = c BY <2>1
  <2>4. \A i \in 1 .. Len(l) : i = 1 \/ i = 2 \/ i = 3 BY <2>3
  <2>5. \A i \in 1 .. Len(l) : l[i] # "n" BY <1>3, <2>3, <2>4
  <2>6. l \in QuietLine BY <2>2, <2>3, <2>5 DEF QuietLine, Line, Opens
  <2>7. Append(l, "n") = <<a, b, c, "n">> BY <2>1, CatTuple, Zenon
  <2> QED BY <1>1, <1>2, <2>6, <2>7, QuietMakes
<1>4. CASE c = "n"
  <2>1. PICK l : l = <<a, b, "n">> OBVIOUS
  <2>2. <<>> \in QuietLine
    <3>1. <<>> \in Text BY DEF Text
    <3> QED BY <3>1 DEF QuietLine, Line, Opens
  <2>3. Append(<<>>, "n") = <<"n">> OBVIOUS
  <2>4. <<"n">> \in Quiet BY <2>2, <2>3, QuietMakes
  <2>5. l \o <<"n">> \in Quiet BY <1>2, <2>1, <2>4, QuietMakes
  <2>6. PICK S : S = STRING OBVIOUS
  <2>7. "n" \in S BY <2>6, PrintedAssumption DEF Printed
  <2>8. l \in Seq(S) BY <1>2, <2>1, <2>6, QuietIndent DEF Text
  <2>9. Append(l, "n") = l \o <<"n">> BY <2>7, <2>8, AppendIs
  <2>10. Append(l, "n") = <<a, b, "n", "n">> BY <2>1, CatTuple, Zenon
  <2> QED BY <1>1, <1>2, <1>4, <2>5, <2>9, <2>10
<1> QED BY <1>3, <1>4

LEMMA DiskQuiet ==
    ASSUME QuietCli, NEW disk \in STRING, NEW info \in CliTexts \union {Absent},
           NEW tree \in CliTexts \union {Absent}
    PROVE  DiskInfo(disk, info, tree) \in Quiet
<1>0. /\ "disk" \in STRING /\ "=" \in STRING /\ "n" \in STRING /\ "snaps" \in STRING
      /\ "size" \in STRING /\ "files" \in STRING
  BY PrintedAssumption DEF Printed
<1>1. <<"disk", "=", disk, "n">> \in Quiet /\ <<"snaps", "=", "n">> \in Quiet
  BY <1>0, QuietWords
<1>2. <<"size", "n">> \in Quiet /\ <<"files", "n">> \in Quiet BY <1>0, QuietWords
<1>3. ASSUME NEW t \in CliTexts PROVE Indent(t) \in Quiet
  <2>1. PICK ls : ls = Lines(t) OBVIOUS
  <2>2. ls \in Seq(Line) BY <2>1, TextsAssumption, LinesTyped
  <2>3. \A i \in 1 .. Len(ls) : ~Opens(ls[i]) BY <2>1, <2>2 DEF QuietCli
  <2>4. ls \in Seq(QuietLine) BY <2>2, <2>3, UnopenedIs DEF Unopened
  <2> QED BY <2>1, <2>4 DEF Indent, Quiet
<1> DEFINE i == Indent(IF Exists(info) THEN info ELSE <<"size", "n">>)
           t == Indent(IF Exists(tree) THEN tree ELSE <<"files", "n">>)
<1>4. i \in Quiet
  <2>1. CASE Exists(info) BY <1>3, <2>1 DEF Exists
  <2>2. CASE ~Exists(info) BY <1>2, <2>2, QuietIndent
  <2> QED BY <2>1, <2>2
<1>5. t \in Quiet
  <2>1. CASE Exists(tree) BY <1>3, <2>1 DEF Exists
  <2>2. CASE ~Exists(tree) BY <1>2, <2>2, QuietIndent
  <2> QED BY <2>1, <2>2
<1>6. DiskInfo(disk, info, tree) =
        <<"disk", "=", disk, "n">> \o i \o <<"snaps", "=", "n">> \o t
  BY DEF DiskInfo
<1> HIDE DEF i, t
<1>7. <<"disk", "=", disk, "n">> \o i \in Quiet BY <1>1, <1>4, QuietMakes
<1>8. <<"disk", "=", disk, "n">> \o i \o <<"snaps", "=", "n">> \in Quiet BY <1>1, <1>7, QuietMakes
<1> QED BY <1>5, <1>6, <1>8, QuietMakes

(* Also if the network file ends inside a PEM block. *)
LEMMA NetworkQuiet ==
    ASSUME NEW files \in Seq(Text)
    PROVE  NetworkInfo(files) \in Quiet
<1>0. "net" \in STRING /\ "=" \in STRING /\ "n" \in STRING /\ "none" \in STRING
  BY PrintedAssumption DEF Printed
<1>1. <<"net", "=", "n">> \in Quiet /\ <<"net", "=", "none", "n">> \in Quiet
  BY <1>0, QuietWords
<1>2. RedactText(FirstOf(files)) \in Quiet BY FirstOfTyped, RedactCleans, QuietMakes
<1>3. Indent(RedactText(FirstOf(files))) \in Quiet BY <1>2, QuietIndent
<1>4. <<"net", "=", "n">> \o Indent(RedactText(FirstOf(files))) \in Quiet
  BY <1>1, <1>3, QuietMakes
<1> QED BY <1>1, <1>4 DEF NetworkInfo

LEMMA VmBeginQuiet ==
    ASSUME LInv, VmBegin
    PROVE  vm'.body \in Quiet
<1>1. PICK v, status : v = Head(queue) /\ status = VmStatus(home.pid[v]) OBVIOUS
<1>2. vm'.body = <<"status", "=", status, "n">> BY <1>1 DEF VmBegin, NoVm
<1>3. /\ "status" \in STRING /\ "=" \in STRING /\ "n" \in STRING /\ "running" \in STRING
      /\ "off" \in STRING /\ "stopped" \in STRING
  BY PrintedAssumption DEF Printed
<1>4. status \in STRING BY <1>1, <1>3 DEF VmStatus
<1> QED BY <1>2, <1>3, <1>4, QuietWords

(* What a step adds to a quiet body leaves it quiet. *)
LEMMA BodyStaysQuiet ==
    ASSUME vm \in VmReport, vm.body \in Quiet, NEW b \in Quiet, vm' = [vm EXCEPT !.body = @ \o b]
    PROVE  vm'.body \in Quiet /\ vm'.logs = vm.logs
<1>1. vm'.body = vm.body \o b /\ vm'.logs = vm.logs BY DEF VmReport
<1> QED BY <1>1, QuietMakes

LEMMA VmDisksQuiet ==
    ASSUME QuietCli, LInv, vm.body \in Quiet, NEW info \in CliTexts \union {Absent},
           NEW tree \in CliTexts \union {Absent}, VmDisks(info, tree)
    PROVE  vm'.body \in Quiet /\ vm'.logs = vm.logs
<1>1. vm \in VmReport /\ vm.name \in Vms /\ home \in Home
  BY DEF VmDisks, LInv, CmdTyped, EnvTyped, Within
<1>2. PICK disks : disks = home.disks[vm.name] OBVIOUS
<1> DEFINE ss    == [d \in DOMAIN disks |-> DiskInfo(disks[d], info, tree)]
           dtext == IF disks = <<>> THEN <<"disks", "=", "none", "n">> ELSE FlattenSeq(ss)
<1>3. vm' = [vm EXCEPT !.body = @ \o dtext] BY <1>2 DEF VmDisks
<1>4. "=" \in STRING /\ "n" \in STRING /\ "disks" \in STRING /\ "none" \in STRING
  BY PrintedAssumption DEF Printed
<1>5. disks \in Seq(STRING) BY <1>1, <1>2 DEF Home
<1>6. ss \in Seq(Quiet)
  <2>1. DOMAIN disks = 1 .. Len(disks) /\ Len(disks) \in Nat
        /\ \A d \in 1 .. Len(disks) : disks[d] \in STRING
    BY <1>5, ToSetFacts
  <2>2. \A d \in 1 .. Len(disks) : DiskInfo(disks[d], info, tree) \in Quiet
    BY <2>1, DiskQuiet
  <2>3. ss \in [1 .. Len(disks) -> Quiet] BY <2>1, <2>2
  <2> HIDE DEF ss
  <2> QED BY <2>1, <2>3
<1>7. dtext \in Quiet
  <2>1. FlattenSeq(ss) \in Quiet BY <1>6, QuietMakes, FlattenIn
  <2>2. <<"disks", "=", "none", "n">> \in Quiet BY <1>4, QuietWords
  <2> QED BY <2>1, <2>2
<1> HIDE DEF dtext
<1> QED BY <1>1, <1>3, <1>7, BodyStaysQuiet

LEMMA VmNetworkQuiet ==
    ASSUME LInv, vm.body \in Quiet, VmNetwork
    PROVE  vm'.body \in Quiet /\ vm'.logs = vm.logs
<1>1. vm \in VmReport /\ vm.name \in Vms /\ home \in Home
  BY DEF VmNetwork, LInv, CmdTyped, EnvTyped, Within
<1>2. PICK files, b : files = home.network[vm.name] /\ b = NetworkInfo(files) OBVIOUS
<1>3. files \in Seq(Text) BY <1>1, <1>2 DEF Home
<1>4. b \in Quiet BY <1>2, <1>3, NetworkQuiet
<1>5. vm' = [vm EXCEPT !.body = @ \o b] BY <1>2 DEF VmNetwork
<1> QED BY <1>1, <1>4, <1>5, BodyStaysQuiet

(* The line of the logs: nothing in it is for the filter. *)
NamedLog == {l \in Log : \E p \in Paths : l.name = FileName[p]}

LEMMA LogsLineClean ==
    ASSUME LogNames, NEW logs \in Seq(NamedLog)
    PROVE  \E l \in CleanLine : LogsLine(logs) = Append(l, "n") /\ Front(LogsLine(logs)) = l
<1>0. "logs" \in STRING /\ "=" \in STRING /\ "n" \in STRING /\ "none" \in STRING
  BY PrintedAssumption DEF Printed
<1> DEFINE names == [i \in DOMAIN logs |-> logs[i].name]
<1>1. PICK m : m = IF logs = <<>> THEN <<"none">> ELSE names OBVIOUS
<1>2. m \in Text /\ \A i \in 1 .. Len(m) : m[i] \notin {"n", "t", "s"}
  <2>1. CASE logs = <<>>
    <3>1. m = <<"none">> BY <1>1, <2>1
    <3>2. m \in Text BY <1>0, <3>1, Word1
    <3>3. Len(m) = 1 /\ m[1] = "none" BY <3>1
    <3>4. \A i \in 1 .. Len(m) : m[i] = "none" BY <3>3
    <3> QED BY <3>2, <3>4
  <2>2. CASE logs # <<>>
    <3>1. m = names BY <1>1, <2>2
    <3>2. PICK K : K = Len(logs) OBVIOUS
    <3>3. K \in Nat /\ DOMAIN logs = 1 .. K /\ \A i \in 1 .. K : logs[i] \in NamedLog BY <3>2
    <3>4. \A i \in 1 .. K : logs[i].name \in STRING /\ logs[i].name \notin {"n", "t", "s"}
      <4> SUFFICES ASSUME NEW i \in 1 .. K
                   PROVE  logs[i].name \in STRING /\ logs[i].name \notin {"n", "t", "s"}
        OBVIOUS
      <4>1. PICK p \in Paths : logs[i].name = FileName[p] BY <3>3 DEF NamedLog
      <4> QED BY <4>1, NamesFacts DEF LogNames
    <3>5. PICK S : S = STRING OBVIOUS
    <3>6. m \in [1 .. K -> S] BY <3>1, <3>3, <3>4, <3>5
    <3>7. m \in Seq(S) /\ Len(m) = K BY <3>3, <3>6
    <3>8. \A i \in 1 .. K : m[i] = logs[i].name BY <3>1, <3>3
    <3>9. m \in Text BY <3>5, <3>7 DEF Text
    <3>10. \A i \in 1 .. Len(m) : m[i] \notin {"n", "t", "s"}
      <4>1. \A i \in 1 .. K : m[i] \notin {"n", "t", "s"} BY <3>4, <3>8
      <4> QED BY <3>7, <4>1
    <3> QED BY <3>9, <3>10
  <2> QED BY <2>1, <2>2
<1>3. PICK h : h = <<"logs", "=">> OBVIOUS
<1>4. h \in Text /\ Len(h) = 2 /\ h[1] = "logs" /\ h[2] = "=" BY <1>0, <1>3, Word2
<1>5. PICK l : l = h \o m OBVIOUS
<1>6. PICK K : K = Len(m) OBVIOUS
<1>7. /\ l \in Text /\ K \in Nat /\ Len(l) = K + 2 /\ l[1] = "logs" /\ l[2] = "="
      /\ \A i \in 1 .. K : l[2 + i] = m[i]
  <2>1. 1 \in 1 .. Len(h) /\ 2 \in 1 .. Len(h) BY <1>4
  <2>2. /\ h \o m \in Text /\ Len(h \o m) = Len(h) + Len(m) /\ Len(m) \in Nat
        /\ \A i \in 1 .. Len(h) : (h \o m)[i] = h[i]
        /\ \A i \in 1 .. Len(m) : (h \o m)[Len(h) + i] = m[i]
    BY <1>2, <1>4, TextCat, Zenon
  <2>3. /\ l \in Text /\ Len(l) = Len(h) + Len(m) /\ Len(m) \in Nat
        /\ \A i \in 1 .. Len(h) : l[i] = h[i]
        /\ \A i \in 1 .. Len(m) : l[Len(h) + i] = m[i]
    BY <1>5, <2>2, Zenon
  <2>4. l[1] = h[1] /\ l[2] = h[2] BY <2>1, <2>3
  <2>5. Len(l) = K + 2 /\ K \in Nat BY <1>4, <1>6, <2>3
  <2>6. \A i \in 1 .. K : l[2 + i] = m[i] BY <1>4, <1>6, <2>3
  <2> QED BY <1>4, <2>3, <2>4, <2>5, <2>6
<1>8. \A i \in 1 .. Len(l) : l[i] \notin {"n", "t", "s"}
  <2> SUFFICES ASSUME NEW i \in 1 .. Len(l) PROVE l[i] \notin {"n", "t", "s"} OBVIOUS
  <2>1. CASE i = 1 BY <1>7, <2>1
  <2>2. CASE i = 2 BY <1>7, <2>2
  <2>3. CASE i > 2
    <3>1. i - 2 \in 1 .. K /\ 2 + (i - 2) = i BY <1>7, <2>3
    <3>2. l[i] = m[i - 2] BY <1>7, <3>1
    <3> QED BY <1>2, <1>6, <3>1, <3>2
  <2> QED BY <1>7, <2>1, <2>2, <2>3
<1>9. l \in Line BY <1>7, <1>8 DEF Line
<1>10. ~Opens(l) BY <1>7 DEF Opens
<1>11. Settled(l)
  <2> SUFFICES ASSUME NEW i \in 2 .. Len(l), KeyAt(l, i) PROVE FALSE BY DEF Settled
  <2>1. CASE i = 2
    <3>1. l[1] = "k" BY <2>1 DEF KeyAt
    <3> QED BY <1>7, <3>1
  <2>2. CASE i # 2
    <3>1. 2 \in 1 .. i - 1 BY <1>7, <2>2
    <3>2. l[2] # "=" BY <3>1 DEF KeyAt
    <3> QED BY <1>7, <3>2
  <2> QED BY <2>1, <2>2
<1>12. l \in CleanLine BY <1>8, <1>9, <1>10, <1>11, PlainWords
<1>13. LogsLine(logs) = l \o <<"n">> BY <1>1, <1>3, <1>5 DEF LogsLine
<1>14. PICK S : S = STRING OBVIOUS
<1>15. "n" \in S /\ l \in Seq(S) BY <1>0, <1>7, <1>14 DEF Text
<1>16. Append(l, "n") = l \o <<"n">> BY <1>15, AppendIs
<1>17. Front(Append(l, "n")) = l
  <2>1. PICK a : a = Append(l, "n") OBVIOUS
  <2>2. a \in Seq(S) /\ Len(a) = Len(l) + 1 /\ \A i \in 1 .. Len(l) : a[i] = l[i]
    BY <1>15, <2>1
  <2>3. PICK f : f = SubSeq(a, 1, Len(a) - 1) OBVIOUS
  <2>4. f \in Seq(S) /\ Len(f) = Len(l) /\ \A i \in 1 .. Len(l) : f[i] = a[i]
    BY <1>7, <2>2, <2>3
  <2>5. f = l BY <1>15, <2>2, <2>4, SeqEqual
  <2> QED BY <2>1, <2>3, <2>5 DEF Front
<1> QED BY <1>12, <1>13, <1>16, <1>17

LEMMA BodyEnds ==
    ASSUME NEW body \in Quiet, NEW l \in CleanLine
    PROVE  Last(Lines(RedactText(body \o Append(l, "n")))) = l
<1>0. l \in Line /\ l \in QuietLine /\ RedactLine(l) = l BY DEF CleanLine, QuietLine
<1>1. PICK ls \in Seq(QuietLine) : body = Joined(ls) BY DEF Quiet
<1>2. QuietLine \subseteq Line BY DEF QuietLine
<1>3. ls \in Seq(Line) BY <1>1, <1>2, SeqMono
<1>4. PICK ms : ms = Append(ls, l) OBVIOUS
<1>5. ms \in Seq(QuietLine) /\ Len(ms) \in Nat \ {0} /\ ms[Len(ms)] = l BY <1>0, <1>1, <1>4
<1>6. Joined(ms) = body \o Append(l, "n") BY <1>0, <1>1, <1>3, <1>4, JoinedAppend
<1>7. PICK rs : rs = [i \in 1 .. Len(ms) |-> RedactLine(ms[i])] OBVIOUS
<1>8. rs \in Seq(Line) /\ Len(rs) = Len(ms) /\ RedactText(Joined(ms)) = Joined(rs)
  BY <1>5, <1>7, UnopenedIs, RedactUnopened
<1>9. rs[Len(rs)] = l
  <2>1. Len(ms) \in 1 .. Len(ms) BY <1>5
  <2>2. rs[Len(ms)] = RedactLine(ms[Len(ms)]) BY <1>7, <2>1
  <2> QED BY <1>0, <1>5, <1>8, <2>2
<1>10. Lines(Joined(rs)) = rs BY <1>8, JoinedLines
<1>11. Last(rs) = l BY <1>9 DEF Last
<1> QED BY <1>6, <1>8, <1>10, <1>11

(***************************************************************************)
(* The body of the VM being collected is quiet, and logs have the names of *)
(* files.                                                                  *)
(***************************************************************************)
EndsWithLogs(r) == Last(Lines(r.body)) = Front(LogsLine(r.logs))

Quieted ==
    /\ pc \in Within => vm.body \in Quiet
    /\ vm.logs \in Seq(NamedLog)
    /\ \A i \in 1 .. Len(vms) : EndsWithLogs(vms[i])

LEMMA InitQuieted == Init => Quieted
<1> SUFFICES ASSUME Init PROVE Quieted OBVIOUS
<1>1. pc = "start" /\ vm.logs = <<>> /\ vms = <<>> BY DEF Init, NoVm
<1>2. <<>> \in Seq(NamedLog) OBVIOUS
<1> QED BY <1>1, <1>2 DEF Quieted, Within

LEMMA ReadLogQuieted == ASSUME LInv, Quieted, ReadLog PROVE Quieted'
<1>1. pc = "read" /\ UNCHANGED vms BY DEF ReadLog
<1>2. PICK text, read : /\ text = home.logs[vm.name][file.path]
                        /\ read = SubSeq(text, file.pos + 1, Len(text))
  OBVIOUS
<1>3. PICK log : log = [path |-> file.path, name |-> FileName[file.path], of |-> text,
                        excerpt |-> RedactText(LastLines(read))]
  OBVIOUS
<1>4. vm' = IF IsUtf8(read) THEN [vm EXCEPT !.logs = Append(@, log)] ELSE vm
  BY <1>2, <1>3 DEF ReadLog
<1>5. vm \in VmReport /\ vm.name \in Vms /\ file.path \in Paths /\ file.pos \in Nat
  BY <1>1 DEF LInv, CmdTyped, Opened, Within
<1>6. text \in Text BY <1>2, <1>5, HomeFacts DEF LInv, EnvTyped
<1>7. log \in NamedLog
  <2>1. RedactText(LastLines(read)) \in Text BY <1>2, <1>5, <1>6, RestOf DEF IsRest
  <2>2. FileName[file.path] \in STRING BY <1>5, NamesFacts
  <2>3. log \in [path : Paths, name : STRING, of : Text, excerpt : Text]
    BY <1>3, <1>5, <1>6, <2>1, <2>2
  <2>4. log.name = FileName[file.path] BY <1>3
  <2>5. log \in Log BY <2>3 DEF Log
  <2> QED BY <1>5, <2>4, <2>5 DEF NamedLog
<1>8. vm.body \in Quiet /\ vm.logs \in Seq(NamedLog) BY <1>1 DEF Quieted, Within
<1>9. vm'.body \in Quiet /\ vm'.logs \in Seq(NamedLog)
  <2>1. CASE IsUtf8(read)
    <3>1. Append(vm.logs, log) \in Seq(NamedLog) BY <1>7, <1>8
    <3>2. vm'.logs = Append(vm.logs, log) /\ vm'.body = vm.body BY <1>4, <1>5, <2>1 DEF VmReport
    <3> QED BY <1>8, <3>1, <3>2
  <2>2. CASE ~IsUtf8(read) BY <1>4, <1>8, <2>2
  <2> QED BY <2>1, <2>2
<1> QED BY <1>1, <1>9 DEF Quieted, EndsWithLogs

LEMMA VmDoneQuieted == ASSUME LogNames, LInv, Quieted, VmDone PROVE Quieted'
<1>1. pc = "files" /\ pc' = "vms" /\ vm' = NoVm BY DEF VmDone, Goes
<1>2. PICK r : r = [name |-> vm.name, listed |-> vm.listed, logs |-> vm.logs,
                    body |-> RedactText(vm.body \o LogsLine(vm.logs))]
  OBVIOUS
<1>3. vms' = Append(vms, r) BY <1>2 DEF VmDone
<1>4. vm.body \in Quiet /\ vm.logs \in Seq(NamedLog) BY <1>1 DEF Quieted, Within
<1>5. PICK l \in CleanLine : LogsLine(vm.logs) = Append(l, "n") /\ Front(LogsLine(vm.logs)) = l
  BY <1>4, LogsLineClean
<1>6. Last(Lines(RedactText(vm.body \o LogsLine(vm.logs)))) = l BY <1>4, <1>5, BodyEnds
<1>7. r.body = RedactText(vm.body \o LogsLine(vm.logs)) /\ r.logs = vm.logs BY <1>2
<1>8. EndsWithLogs(r) BY <1>5, <1>6, <1>7 DEF EndsWithLogs
<1>9. vms \in Seq(Report) BY DEF LInv, CmdTyped
<1>10. \A i \in 1 .. Len(vms') : EndsWithLogs(vms'[i])
  <2> SUFFICES ASSUME NEW i \in 1 .. Len(vms') PROVE EndsWithLogs(vms'[i]) OBVIOUS
  <2>1. PICK ss : ss = vms' OBVIOUS
  <2>2. /\ Len(ss) = Len(vms) + 1 /\ ss[Len(vms) + 1] = r
        /\ \A j \in 1 .. Len(vms) : ss[j] = vms[j]
    BY <1>3, <1>9, <2>1
  <2>3. CASE i = Len(vms) + 1 BY <1>8, <2>1, <2>2, <2>3
  <2>4. CASE i # Len(vms) + 1
    <3>1. i \in 1 .. Len(vms) BY <1>9, <2>1, <2>2, <2>4
    <3>2. EndsWithLogs(vms[i]) BY <3>1 DEF Quieted
    <3>3. vms'[i] = vms[i] BY <2>1, <2>2, <3>1
    <3> QED BY <3>2, <3>3
  <2> QED BY <2>3, <2>4
<1>11. vm'.logs \in Seq(NamedLog)
  <2>1. vm'.logs = <<>> BY <1>1 DEF NoVm
  <2>2. <<>> \in Seq(NamedLog) OBVIOUS
  <2> QED BY <2>1, <2>2
<1>12. \A i \in 1 .. Len(vms') : EndsWithLogs(vms[i])' BY <1>10 DEF EndsWithLogs
<1> QED BY <1>1, <1>11, <1>12 DEF Quieted, Within

LEMMA NextQuieted ==
    ASSUME QuietCli, LogNames, LInv, Quieted, [Next]_vars
    PROVE  Quieted'
<1>0. vm \in VmReport BY DEF LInv, CmdTyped
<1>1. CASE UNCHANGED <<pc, vm, vms>> BY <1>1 DEF Quieted, EndsWithLogs
<1>2. CASE Engine
  <2>1. UNCHANGED <<pc, vm, vms>>
    BY <1>2 DEF Engine, LogGrows, LogCut, LogRemoved, VmRemoved, Changes
  <2> QED BY <1>1, <2>1
<1>3. ASSUME UNCHANGED <<vm, vms>>, pc' \in {"list", "vms", "write", "tar", "done"}
      PROVE  Quieted'
  BY <1>3 DEF Quieted, EndsWithLogs, Within
<1>4. ASSUME NEW words \in CommandLines, Start(words) PROVE Quieted'
  <2>1. UNCHANGED <<vm, vms>> /\ pc' \in {"list", "done"} BY <1>4 DEF Start, Goes, Ends
  <2> QED BY <1>3, <2>1
<1>5. CASE ListVms \/ Render
  <2>1. UNCHANGED <<vm, vms>> /\ pc' \in {"done", "vms", "tar", "write"}
    BY <1>5 DEF ListVms, Render, Goes, Ends
  <2> QED BY <1>3, <2>1
<1>6. CASE WriteReport \/ TarAppend \/ TarFinish
  <2>1. UNCHANGED <<vm, vms>> /\ pc' \in {"done", "tar"}
    BY <1>6 DEF WriteReport, TarAppend, TarFinish, WriteFails, Goes, Ends
  <2> QED BY <1>3, <2>1
<1>7. CASE VmBegin
  <2>1. UNCHANGED vms /\ vm'.logs = <<>> BY <1>7 DEF VmBegin, NoVm
  <2>2. vm'.body \in Quiet BY <1>7, VmBeginQuiet
  <2>3. <<>> \in Seq(NamedLog) OBVIOUS
  <2> QED BY <2>1, <2>2, <2>3 DEF Quieted, EndsWithLogs
<1>8. ASSUME \/ \E info, tree \in CliTexts \union {Absent} : VmDisks(info, tree)
             \/ VmNetwork \/ ListLogs \/ OpenLog \/ SeekLog
      PROVE  Quieted'
  <2>1. UNCHANGED vms /\ pc \in Within
    BY <1>8 DEF VmDisks, VmNetwork, ListLogs, OpenLog, SeekLog, Within
  <2>2. vm.body \in Quiet BY <2>1 DEF Quieted
  <2>3. ASSUME NEW info \in CliTexts \union {Absent}, NEW tree \in CliTexts \union {Absent},
               VmDisks(info, tree)
        PROVE  vm'.logs = vm.logs /\ vm'.body \in Quiet
    BY <2>2, <2>3, VmDisksQuiet
  <2>4. ASSUME VmNetwork \/ ListLogs \/ OpenLog \/ SeekLog
        PROVE  vm'.logs = vm.logs /\ vm'.body \in Quiet
    <3>1. CASE VmNetwork BY <2>2, <3>1, VmNetworkQuiet
    <3>2. CASE ListLogs BY <1>0, <2>2, <3>2 DEF ListLogs, VmReport
    <3>3. CASE OpenLog BY <1>0, <2>2, <3>3 DEF OpenLog, VmReport
    <3>4. CASE SeekLog BY <2>2, <3>4 DEF SeekLog
    <3> QED BY <2>4, <3>1, <3>2, <3>3, <3>4
  <2>5. vm'.logs = vm.logs /\ vm'.body \in Quiet BY <1>8, <2>3, <2>4
  <2> QED BY <2>1, <2>5 DEF Quieted, EndsWithLogs
<1>9. CASE UNCHANGED vars BY <1>1, <1>9 DEF vars
<1> QED BY <1>2, <1>4, <1>5, <1>6, <1>7, <1>8, <1>9, ReadLogQuieted, VmDoneQuieted
        DEF Next, Command

(***************************************************************************)
(* Whatever the files of a VM hold, also a network file that ends inside a *)
(* PEM block, the body of its report ends with the line that names the     *)
(* logs which are in it.                                                   *)
(***************************************************************************)
THEOREM BodiesEndWithLogs ==
    ASSUME QuietCli, LogNames
    PROVE  Spec => []BodyEndsWithLogs
<1>1. LInv /\ Quieted => BodyEndsWithLogs
  <2> SUFFICES ASSUME LInv, Quieted PROVE BodyEndsWithLogs OBVIOUS
  <2>1. vms \in Seq(Report) BY DEF LInv, CmdTyped
  <2>2. DOMAIN vms = 1 .. Len(vms) BY <2>1
  <2> QED BY <2>2 DEF Quieted, EndsWithLogs, BodyEndsWithLogs
<1>2. LInv /\ Quieted /\ [Next]_vars => Quieted' BY NextQuieted
<1>3. Spec => []Quieted BY <1>2, InitQuieted, LogInvariance, PTL DEF Spec
<1> QED BY <1>1, <1>3, LogInvariance, PTL

-----------------------------------------------------------------------------
(***************************************************************************)
(* What the filter keeps: the ordinary lines of a text are those of the    *)
(* filtered text.                                                          *)
(***************************************************************************)
(* The flag of redact_text is set exactly inside the blocks. *)
LEMMA InPemIsInBlock ==
    ASSUME NEW lines, NEW i \in Nat \ {0}
    PROVE  InPem(lines, i) <=> InBlock(lines, i)
<1> DEFINE Bad == {n \in Nat \ {0} : ~(InPem(lines, n) <=> InBlock(lines, n))}
<1>1. Bad = {}
  <2> SUFFICES ASSUME Bad # {} PROVE FALSE OBVIOUS
  <2>0. Bad \subseteq Nat OBVIOUS
  <2>1. PICK n \in Bad : \A m \in Bad : ~(m < n) BY <2>0, Smallest
  <2>2. n # 1
    <3>1. ~InPem(lines, 1) BY InPemSteps
    <3>2. ~InBlock(lines, 1) BY DEF InBlock
    <3> QED BY <2>1, <3>1, <3>2
  <2>3. PICK m : m = n - 1 OBVIOUS
  <2>4. m \in Nat /\ m # 0 /\ m >= 1 /\ n = m + 1 /\ m < n BY <2>1, <2>2, <2>3
  <2>5. InPem(lines, m) <=> InBlock(lines, m) BY <2>1, <2>4
  <2>6. InPem(lines, n) <=> PemNext(lines, m, InPem(lines, m)) BY <2>4, InPemSteps
  <2>7. ~(Opens(lines[m]) /\ Closes(lines[m])) BY DEF Opens, Closes
  <2>8. InBlock(lines, n) <=> \E j \in 1 .. m : Opens(lines[j]) /\ \A k \in j + 1 .. m : ~Closes(lines[k])
    <3>1. n - 1 = m BY <2>4
    <3> QED BY <3>1 DEF InBlock
  <2>9. InBlock(lines, m) <=> \E j \in 1 .. m - 1 : Opens(lines[j]) /\ \A k \in j + 1 .. m - 1 : ~Closes(lines[k])
    BY DEF InBlock
  <2>10. InBlock(lines, n) <=> (Opens(lines[m]) \/ (InBlock(lines, m) /\ ~Closes(lines[m])))
    <3>1. ASSUME InBlock(lines, n), ~Opens(lines[m]) PROVE InBlock(lines, m) /\ ~Closes(lines[m])
      <4>1. PICK j \in 1 .. m : Opens(lines[j]) /\ \A k \in j + 1 .. m : ~Closes(lines[k])
        BY <2>8, <3>1
      <4>2. j # m BY <3>1, <4>1
      <4>3. j \in 1 .. m - 1 /\ m \in j + 1 .. m BY <2>4, <4>2
      <4>4. \A k \in j + 1 .. m - 1 : k \in j + 1 .. m BY <2>4
      <4> QED BY <2>9, <4>1, <4>3, <4>4
    <3>2. ASSUME Opens(lines[m]) PROVE InBlock(lines, n)
      <4>1. m \in 1 .. m /\ \A k \in m + 1 .. m : FALSE BY <2>4
      <4> QED BY <2>8, <3>2, <4>1
    <3>3. ASSUME InBlock(lines, m), ~Closes(lines[m]) PROVE InBlock(lines, n)
      <4>1. PICK j \in 1 .. m - 1 : Opens(lines[j]) /\ \A k \in j + 1 .. m - 1 : ~Closes(lines[k])
        BY <2>9, <3>3
      <4>2. j \in 1 .. m BY <2>4
      <4>3. \A k \in j + 1 .. m : k = m \/ k \in j + 1 .. m - 1 BY <2>4
      <4> QED BY <2>8, <3>3, <4>1, <4>2, <4>3
    <3> QED BY <3>1, <3>2, <3>3
  <2>11. CASE InPem(lines, m)
    <3>1. InPem(lines, n) <=> ~Closes(lines[m]) BY <2>6, <2>11 DEF PemNext
    <3> QED BY <2>1, <2>5, <2>7, <2>10, <2>11, <3>1
  <2>12. CASE ~InPem(lines, m)
    <3>1. InPem(lines, n) <=> Opens(lines[m]) BY <2>6, <2>12 DEF PemNext
    <3> QED BY <2>1, <2>5, <2>10, <2>12, <3>1
  <2> QED BY <2>11, <2>12
<1> QED BY <1>1

(* A line stays ordinary or not. *)
Ruled == {"k", "s", "t", "R"}

LEMMA OrdinaryIs ==
    ASSUME NEW l \in Text
    PROVE  Ordinary(l) <=> ~Opens(l) /\ \A i \in 1 .. Len(l) : l[i] \notin Ruled
<1>1. \A x : x \in ToSet(l) <=> \E i \in 1 .. Len(l) : x = l[i] BY ToSetFacts DEF Text
<1> QED BY <1>1 DEF Ordinary, Ruled

LEMMA OrdinaryStays ==
    ASSUME NEW l \in QuietLine
    PROVE  /\ Ordinary(l) => RedactLine(l) = l
           /\ Ordinary(RedactLine(l)) <=> Ordinary(l)
           /\ RedactLine(l) \in QuietLine
<1>0. l \in Line /\ l \in Text /\ ~Opens(l) BY DEF QuietLine, Line
<1>1. ASSUME Ordinary(l) PROVE RedactLine(l) = l
  <2>1. \A i \in 1 .. Len(l) : l[i] \notin Ruled BY <1>0, <1>1, OrdinaryIs
  <2>2. \A i \in 1 .. Len(l) : l[i] # "t" /\ l[i] # "s" /\ l[i] # "k" BY <2>1 DEF Ruled
  <2>3. Settled(l)
    <3> SUFFICES ASSUME NEW i \in 2 .. Len(l), KeyAt(l, i) PROVE FALSE BY DEF Settled
    <3>1. l[i - 1] = "k" BY DEF KeyAt
    <3>2. Len(l) \in Nat BY <1>0 DEF Text
    <3>3. i - 1 \in 1 .. Len(l) BY <3>2
    <3> QED BY <2>2, <3>1, <3>3
  <2>4. l \in CleanLine BY <1>0, <2>2, <2>3, PlainWords
  <2> QED BY <2>4 DEF CleanLine
<1>2. RedactLine(l) \in Line /\ ~Opens(RedactLine(l)) BY <1>0, RedactLineFacts
<1>3. ASSUME ~Ordinary(l) PROVE ~Ordinary(RedactLine(l))
  <2>1. PICK m : m = RedactKeyValue(l) OBVIOUS
  <2>2. m \in Text BY <1>0, <2>1, KeyValueSettles
  <2>3. PICK j \in 1 .. Len(m) : m[j] \in Ruled
    <3>1. CASE m = l BY <1>0, <1>3, <3>1, OrdinaryIs
    <3>2. CASE m # l
      <4>1. PICK i \in 2 .. Len(l) : m = SubSeq(l, 1, i) \o <<"R">> BY <1>0, <2>1, <3>2, KeyValueFacts
      <4>2. Len(m) = i + 1 /\ m[i + 1] = "R" BY <1>0, <4>1, KeyValueShape
      <4>3. i + 1 \in 1 .. Len(m) BY <4>2
      <4> QED BY <4>2, <4>3 DEF Ruled
    <3> QED BY <3>1, <3>2
  <2>4. PICK w : w = Mask(m) OBVIOUS
  <2>5. /\ w \in Text /\ Len(w) = Len(m)
        /\ \A i \in 1 .. Len(m) : w[i] = IF Hidden(m, i) THEN "R" ELSE m[i]
    BY <2>2, <2>4, MaskFacts
  <2>6. w[j] \in Ruled
    <3>1. w[j] = "R" \/ w[j] = m[j] BY <2>5
    <3> QED BY <2>3, <3>1 DEF Ruled
  <2>7. ~Ordinary(w) BY <2>3, <2>5, <2>6, OrdinaryIs
  <2> QED BY <1>0, <2>1, <2>4, <2>7, RedactLineIs
<1> QED BY <1>1, <1>2, <1>3 DEF QuietLine

-----------------------------------------------------------------------------
(* Sequences that are flattened after they are joined. *)
LEMMA FlattenNone == FlattenSeq(<<>>) = <<>>
  BY DEF FlattenSeq

LEMMA FlattenLast ==
    ASSUME NEW U, Joins(U), NEW K \in Nat, NEW ss \in Seq(U), Len(ss) = K + 1,
           NEW tt \in Seq(U), Len(tt) = K, \A i \in 1 .. K : tt[i] = ss[i]
    PROVE  FlattenSeq(ss) = FlattenSeq(tt) \o ss[K + 1]
<1>1. PICK x : x = ss[K + 1] OBVIOUS
<1>2. x \in U
  <2>1. K + 1 \in 1 .. Len(ss) OBVIOUS
  <2> QED BY <1>1, <2>1, ElementOfSeq
<1>4. PICK uu : uu = Append(tt, x) OBVIOUS
<1>5. /\ uu \in Seq(U) /\ Len(uu) = K + 1 /\ uu[K + 1] = x
      /\ \A i \in 1 .. K : uu[i] = tt[i]
  BY <1>2, <1>4, AppendProperties
<1>6. \A i \in 1 .. Len(uu) : uu[i] = ss[i]
  <2>1. \A i \in 1 .. Len(uu) : i = K + 1 \/ i \in 1 .. K BY <1>5
  <2> QED BY <1>1, <1>5, <2>1
<1>7. uu = ss BY <1>5, <1>6, SeqEqual
<1> QED BY <1>1, <1>2, <1>4, <1>7, FlattenSnoc

LEMMA FlattenJoins ==
    ASSUME NEW U, Joins(U), NEW ss \in Seq(U)
    PROVE  FlattenSeq(ss) \in U
  BY FlattenIn DEF Joins

LEMMA FlattenCat ==
    ASSUME NEW U, Joins(U), NEW rr \in Seq(U), NEW ss \in Seq(U)
    PROVE  FlattenSeq(rr \o ss) = FlattenSeq(rr) \o FlattenSeq(ss)
<1> DEFINE T == {n \in Nat : \E tt \in Seq(U) :
                    Len(tt) = n /\ FlattenSeq(rr \o tt) # FlattenSeq(rr) \o FlattenSeq(tt)}
<1>1. T = {}
  <2> SUFFICES ASSUME T # {} PROVE FALSE OBVIOUS
  <2>0. T \subseteq Nat OBVIOUS
  <2>1. PICK n \in T : \A m \in T : ~(m < n) BY <2>0, Smallest
  <2>2. PICK tt \in Seq(U) : Len(tt) = n
                             /\ FlattenSeq(rr \o tt) # FlattenSeq(rr) \o FlattenSeq(tt)
    BY <2>1
  <2> HIDE DEF T
  <2>3. FlattenSeq(rr) \in U BY FlattenJoins
  <2>4. n # 0
    <3> SUFFICES ASSUME n = 0 PROVE FALSE OBVIOUS
    <3>1. tt = <<>> BY <2>2, NoneIs
    <3>2. rr \o <<>> = rr BY ConcatEmptySeq
    <3>3. FlattenSeq(rr) \o <<>> = FlattenSeq(rr) BY <2>3 DEF Joins
    <3> QED BY <2>2, <3>1, <3>2, <3>3, FlattenNone
  <2>5. PICK m : m = n - 1 OBVIOUS
  <2>6. m \in Nat /\ m < n /\ n = m + 1 BY <2>0, <2>4, <2>5
  <2>7. PICK uu : uu = SubSeq(tt, 1, m) OBVIOUS
  <2>8. uu \in Seq(U) /\ Len(uu) = m /\ \A i \in 1 .. m : uu[i] = tt[i]
    BY <2>2, <2>6, <2>7
  <2>9. PICK x : x = tt[n] OBVIOUS
  <2>10. x \in U
    <3>1. n \in 1 .. Len(tt) BY <2>2, <2>6
    <3> QED BY <2>9, <3>1, ElementOfSeq
  <2>11. tt = Append(uu, x)
    <3>1. PICK yy : yy = Append(uu, x) OBVIOUS
    <3>2. /\ yy \in Seq(U) /\ Len(yy) = n /\ yy[n] = x
          /\ \A i \in 1 .. m : yy[i] = tt[i]
      BY <2>6, <2>8, <2>10, <3>1, AppendProperties
    <3>3. \A i \in 1 .. Len(yy) : i = n \/ i \in 1 .. m BY <2>6, <3>2
    <3>4. \A i \in 1 .. Len(yy) : yy[i] = tt[i] BY <2>9, <3>2, <3>3
    <3> QED BY <2>2, <3>1, <3>2, <3>4, SeqEqual
  <2>12. PICK vv : vv = rr \o tt OBVIOUS
  <2>13. PICK ww : ww = rr \o uu OBVIOUS
  <2>14. ww \in Seq(U) BY <2>8, <2>13
  <2>15. vv = Append(ww, x) BY <2>8, <2>10, <2>11, <2>12, <2>13, CatAppend
  <2>16. FlattenSeq(vv) = FlattenSeq(ww) \o x BY <2>10, <2>14, <2>15, FlattenSnoc
  <2>17. FlattenSeq(ww) = FlattenSeq(rr) \o FlattenSeq(uu) BY <2>1, <2>6, <2>8, <2>13 DEF T
  <2>18. FlattenSeq(uu) \in U BY <2>8, FlattenJoins
  <2>19. (FlattenSeq(rr) \o FlattenSeq(uu)) \o x = FlattenSeq(rr) \o (FlattenSeq(uu) \o x)
    BY <2>3, <2>10, <2>18 DEF Joins
  <2>20. FlattenSeq(tt) = FlattenSeq(uu) \o x BY <2>8, <2>10, <2>11, FlattenSnoc
  <2> QED BY <2>2, <2>12, <2>16, <2>17, <2>19, <2>20
<1>2. Len(ss) \in Nat OBVIOUS
<1> QED BY <1>1, <1>2

-----------------------------------------------------------------------------
LineLists         == Seq(Line)
Sift(l)           == IF Ordinary(l) THEN <<l>> ELSE <<>>
Sifted(lines, i)  == IF InBlock(lines, i) THEN <<>> ELSE Sift(lines[i])
SiftedTo(lines, n) == [i \in 1 .. n |-> Sifted(lines, i)]

LEMMA SiftTyped ==
    ASSUME NEW lines \in Seq(Line), NEW K \in Nat, K <= Len(lines)
    PROVE  /\ \A i \in 1 .. K : Sifted(lines, i) \in LineLists
           /\ SiftedTo(lines, K) \in Seq(LineLists) /\ Len(SiftedTo(lines, K)) = K
<1>1. ASSUME NEW i \in 1 .. K PROVE Sifted(lines, i) \in LineLists
  <2>1. i \in 1 .. Len(lines) OBVIOUS
  <2>2. lines[i] \in Line BY <2>1
  <2>3. <<lines[i]>> \in Seq(Line) /\ <<>> \in Seq(Line) BY <2>2
  <2> QED BY <2>3 DEF Sifted, Sift, LineLists
<1>2. SiftedTo(lines, K) \in [1 .. K -> LineLists] BY <1>1 DEF SiftedTo
<1>3. PICK f : f = SiftedTo(lines, K) OBVIOUS
<1>4. f \in Seq(LineLists) /\ Len(f) = K BY <1>2, <1>3
<1> QED BY <1>1, <1>3, <1>4

LEMMA OrdinaryLinesIs ==
    ASSUME NEW t \in Text, NEW lines, lines = Lines(t)
    PROVE  /\ lines \in Seq(Line) /\ Len(lines) \in Nat
           /\ OrdinaryLines(t) = FlattenSeq(SiftedTo(lines, Len(lines)))
           /\ OrdinaryLines(t) \in LineLists
<1>1. lines \in Seq(Line) BY LinesTyped
<1>2. Len(lines) \in Nat /\ DOMAIN lines = 1 .. Len(lines) BY <1>1
<1>3. OrdinaryLines(t) = FlattenSeq([i \in DOMAIN lines |->
            IF InBlock(lines, i) \/ ~Ordinary(lines[i]) THEN <<>> ELSE <<lines[i]>>])
  BY DEF OrdinaryLines
<1>4. \A i \in 1 .. Len(lines) :
          (IF InBlock(lines, i) \/ ~Ordinary(lines[i]) THEN <<>> ELSE <<lines[i]>>) = Sifted(lines, i)
  BY DEF Sifted, Sift
<1>5. [i \in DOMAIN lines |->
            IF InBlock(lines, i) \/ ~Ordinary(lines[i]) THEN <<>> ELSE <<lines[i]>>]
      = SiftedTo(lines, Len(lines))
  BY <1>2, <1>4 DEF SiftedTo
<1>6. SiftedTo(lines, Len(lines)) \in Seq(LineLists) BY <1>1, <1>2, SiftTyped
<1>7. Joins(LineLists) BY SeqJoins DEF LineLists
<1> QED BY <1>1, <1>2, <1>3, <1>5, <1>6, <1>7, FlattenJoins

(* In a text without a block a line is looked at by itself. *)
LEMMA QuietSifts ==
    ASSUME NEW ls \in Seq(QuietLine)
    PROVE  /\ ls \in Seq(Line) /\ Len(ls) \in Nat
           /\ \A i \in 1 .. Len(ls) : Sifted(ls, i) = Sift(ls[i])
           /\ OrdinaryLines(Joined(ls)) = FlattenSeq(SiftedTo(ls, Len(ls)))
           /\ Lines(Joined(ls)) = ls /\ Joined(ls) \in Text
<1>1. QuietLine \subseteq Line BY DEF QuietLine
<1>2. ls \in Seq(Line) BY <1>1, SeqMono
<1>3. Len(ls) \in Nat /\ \A i \in 1 .. Len(ls) : ls[i] \in QuietLine OBVIOUS
<1>4. ASSUME NEW i \in 1 .. Len(ls) PROVE ~InBlock(ls, i)
  <2>1. \A j \in 1 .. i - 1 : j \in 1 .. Len(ls) BY <1>3
  <2>2. \A j \in 1 .. i - 1 : ~Opens(ls[j]) BY <1>3, <2>1 DEF QuietLine
  <2> QED BY <2>2 DEF InBlock
<1>5. Joined(ls) \in Text /\ Lines(Joined(ls)) = ls BY <1>2, JoinedLines
<1>6. OrdinaryLines(Joined(ls)) = FlattenSeq(SiftedTo(ls, Len(ls))) BY <1>5, OrdinaryLinesIs
<1> QED BY <1>2, <1>3, <1>4, <1>5, <1>6 DEF Sifted

LEMMA OrdinaryCat ==
    ASSUME NEW a \in Quiet, NEW b \in Quiet
    PROVE  OrdinaryLines(a \o b) = OrdinaryLines(a) \o OrdinaryLines(b)
<1>1. PICK ls \in Seq(QuietLine) : a = Joined(ls) BY DEF Quiet
<1>2. PICK ms \in Seq(QuietLine) : b = Joined(ms) BY DEF Quiet
<1>3. PICK ns : ns = ls \o ms OBVIOUS
<1>4. PICK K, M : K = Len(ls) /\ M = Len(ms) OBVIOUS
<1>5. /\ K \in Nat /\ M \in Nat /\ ns \in Seq(QuietLine) /\ Len(ns) = K + M
      /\ \A i \in 1 .. K : ns[i] = ls[i]
      /\ \A i \in 1 .. M : ns[K + i] = ms[i]
  BY <1>1, <1>2, <1>3, <1>4
<1>6. /\ ls \in Seq(Line) /\ ms \in Seq(Line) /\ ns \in Seq(Line)
      /\ \A i \in 1 .. K : Sifted(ls, i) = Sift(ls[i])
      /\ \A i \in 1 .. M : Sifted(ms, i) = Sift(ms[i])
      /\ \A i \in 1 .. K + M : Sifted(ns, i) = Sift(ns[i])
      /\ OrdinaryLines(a) = FlattenSeq(SiftedTo(ls, K))
      /\ OrdinaryLines(b) = FlattenSeq(SiftedTo(ms, M))
      /\ OrdinaryLines(Joined(ns)) = FlattenSeq(SiftedTo(ns, K + M))
  BY <1>1, <1>2, <1>4, <1>5, QuietSifts
<1>7. Joined(ns) = a \o b BY <1>1, <1>2, <1>3, <1>6, JoinedCat
<1>8. PICK f, g, h : f = SiftedTo(ls, K) /\ g = SiftedTo(ms, M) /\ h = SiftedTo(ns, K + M) OBVIOUS
<1>9. /\ f \in Seq(LineLists) /\ Len(f) = K /\ g \in Seq(LineLists) /\ Len(g) = M
      /\ h \in Seq(LineLists) /\ Len(h) = K + M
  BY <1>4, <1>5, <1>6, <1>8, SiftTyped
<1>10. /\ \A i \in 1 .. K : f[i] = Sift(ls[i])
       /\ \A i \in 1 .. M : g[i] = Sift(ms[i])
       /\ \A i \in 1 .. K + M : h[i] = Sift(ns[i])
  BY <1>6, <1>8 DEF SiftedTo
<1>11. h = f \o g
  <2>1. PICK w : w = f \o g OBVIOUS
  <2>2. /\ w \in Seq(LineLists) /\ Len(w) = K + M
        /\ \A i \in 1 .. K + M : w[i] = IF i <= K THEN f[i] ELSE g[i - K]
    BY <1>9, <2>1, ConcatProperties
  <2>3. ASSUME NEW i \in 1 .. K + M PROVE h[i] = w[i]
    <3>1. CASE i <= K
      <4>1. i \in 1 .. K BY <1>5, <3>1
      <4> QED BY <1>5, <1>10, <2>2, <3>1, <4>1
    <3>2. CASE ~(i <= K)
      <4>1. i - K \in 1 .. M /\ K + (i - K) = i BY <1>5, <3>2
      <4>2. ns[i] = ms[i - K] BY <1>5, <4>1
      <4>3. w[i] = g[i - K] BY <2>2, <3>2
      <4> QED BY <1>10, <4>1, <4>2, <4>3
    <3> QED BY <3>1, <3>2
  <2>4. h = w BY <1>9, <2>2, <2>3, SeqEqual
  <2> QED BY <2>1, <2>4
<1>12. Joins(LineLists) BY SeqJoins DEF LineLists
<1>13. FlattenSeq(h) = FlattenSeq(f) \o FlattenSeq(g) BY <1>9, <1>11, <1>12, FlattenCat
<1> QED BY <1>6, <1>7, <1>8, <1>13

LEMMA OrdinaryNone == OrdinaryLines(<<>>) = <<>>
<1>1. <<>> \in Seq(QuietLine) OBVIOUS
<1>2. OrdinaryLines(Joined(<<>>)) = FlattenSeq(SiftedTo(<<>>, Len(<<>>))) BY <1>1, QuietSifts
<1>3. SiftedTo(<<>>, 0) = <<>>
  <2>1. PICK es : es = <<>> OBVIOUS
  <2>2. es \in Seq(Line) /\ 0 <= Len(es) BY <2>1
  <2>3. SiftedTo(es, 0) \in Seq(LineLists) /\ Len(SiftedTo(es, 0)) = 0 BY <2>2, SiftTyped
  <2>4. SiftedTo(es, 0) = <<>> BY <2>3, NoneIs
  <2> QED BY <2>1, <2>4
<1>4. Len(<<>>) = 0 OBVIOUS
<1> QED BY <1>2, <1>3, <1>4, JoinedNone, FlattenNone

LEMMA OrdinaryOne ==
    ASSUME NEW l \in QuietLine
    PROVE  OrdinaryLines(Append(l, "n")) = Sift(l)
<1>0. l \in Line BY DEF QuietLine
<1>1. PICK ls : ls = <<l>> OBVIOUS
<1>2. ls \in Seq(QuietLine) /\ Len(ls) = 1 /\ ls[1] = l BY <1>1
<1>3. Joined(ls) = Append(l, "n") BY <1>0, <1>1, JoinedOne
<1>4. ls \in Seq(Line) /\ Sifted(ls, 1) = Sift(l)
      /\ OrdinaryLines(Joined(ls)) = FlattenSeq(SiftedTo(ls, 1))
  <2>1. 1 \in 1 .. Len(ls) BY <1>2
  <2> QED BY <1>2, <2>1, QuietSifts
<1>5. PICK f : f = SiftedTo(ls, 1) OBVIOUS
<1>6. f \in Seq(LineLists) /\ Len(f) = 1 /\ f[1] = Sift(l)
  <2>1. f \in Seq(LineLists) /\ Len(f) = 1 BY <1>2, <1>4, <1>5, SiftTyped
  <2>2. f[1] = Sifted(ls, 1) BY <1>5 DEF SiftedTo
  <2> QED BY <1>4, <2>1, <2>2
<1>7. PICK g : FlattenSeq(f) = g[1] /\ g[1] = f[1]
  <2>1. 1 \in Nat /\ 1 = Len(f) /\ 1 # 0 BY <1>6
  <2> QED BY <2>1, FlattenSteps
<1> QED BY <1>3, <1>4, <1>5, <1>6, <1>7

LEMMA OrdinaryTyped == ASSUME NEW t \in Quiet PROVE OrdinaryLines(t) \in LineLists
  BY QuietIndent, OrdinaryLinesIs

LEMMA QuietIsText == Quiet \subseteq Text
  BY QuietIndent

LEMMA OrdinaryFlatten ==
    ASSUME NEW ss \in Seq(Quiet)
    PROVE  OrdinaryLines(FlattenSeq(ss)) = FlattenSeq([i \in 1 .. Len(ss) |-> OrdinaryLines(ss[i])])
<1> DEFINE Of(rr) == [i \in 1 .. Len(rr) |-> OrdinaryLines(rr[i])]
           T == {n \in Nat : \E rr \in Seq(Quiet) :
                    Len(rr) = n /\ OrdinaryLines(FlattenSeq(rr)) # FlattenSeq(Of(rr))}
<1>0. Joins(LineLists) BY SeqJoins DEF LineLists
<1>1. ASSUME NEW rr \in Seq(Quiet) PROVE Of(rr) \in Seq(LineLists) /\ Len(Of(rr)) = Len(rr)
  <2>1. \A i \in 1 .. Len(rr) : OrdinaryLines(rr[i]) \in LineLists BY OrdinaryTyped
  <2>2. Of(rr) \in [1 .. Len(rr) -> LineLists] /\ Len(rr) \in Nat BY <2>1
  <2>3. PICK f, K : f = Of(rr) /\ K = Len(rr) OBVIOUS
  <2>4. f \in [1 .. K -> LineLists] /\ K \in Nat BY <2>2, <2>3
  <2>5. f \in Seq(LineLists) /\ Len(f) = K BY <2>4
  <2> QED BY <2>3, <2>5
<1>2. T = {}
  <2> SUFFICES ASSUME T # {} PROVE FALSE OBVIOUS
  <2>0. T \subseteq Nat OBVIOUS
  <2>1. PICK n \in T : \A m \in T : ~(m < n) BY <2>0, Smallest
  <2>2. PICK rr \in Seq(Quiet) : Len(rr) = n
                                /\ OrdinaryLines(FlattenSeq(rr)) # FlattenSeq(Of(rr))
    BY <2>1
  <2> HIDE DEF T
  <2>3. n # 0
    <3> SUFFICES ASSUME n = 0 PROVE FALSE OBVIOUS
    <3>1. rr = <<>> BY <2>2, NoneIs
    <3>2. Of(rr) = <<>>
      <4>1. Of(rr) \in Seq(LineLists) /\ Len(Of(rr)) = 0 BY <1>1, <2>2
      <4> HIDE DEF Of
      <4> QED BY <4>1, NoneIs
    <3> QED BY <2>2, <3>1, <3>2, FlattenNone, OrdinaryNone
  <2>4. PICK m : m = n - 1 OBVIOUS
  <2>5. m \in Nat /\ m < n /\ n = m + 1 BY <2>0, <2>3, <2>4
  <2>6. PICK uu : uu = SubSeq(rr, 1, m) OBVIOUS
  <2>7. uu \in Seq(Quiet) /\ Len(uu) = m /\ \A i \in 1 .. m : uu[i] = rr[i]
    BY <2>2, <2>5, <2>6
  <2>8. PICK x : x = rr[n] OBVIOUS
  <2>9. x \in Quiet
    <3>1. n \in 1 .. Len(rr) BY <2>2, <2>5
    <3> QED BY <2>2, <2>8, <3>1, ElementOfSeq
  <2>10. FlattenSeq(rr) = FlattenSeq(uu) \o x
    <3>1. rr \in Seq(Text) /\ uu \in Seq(Text) BY <2>2, <2>7, QuietIsText, SeqMono
    <3>2. Len(rr) = m + 1 /\ rr[m + 1] = x BY <2>2, <2>5, <2>8
    <3> QED BY <2>5, <2>7, <3>1, <3>2, FlattenLast, TextJoins
  <2>11. FlattenSeq(uu) \in Quiet BY <2>7, QuietMakes, FlattenIn
  <2>12. OrdinaryLines(FlattenSeq(rr)) = OrdinaryLines(FlattenSeq(uu)) \o OrdinaryLines(x)
    BY <2>9, <2>10, <2>11, OrdinaryCat
  <2>13. OrdinaryLines(FlattenSeq(uu)) = FlattenSeq(Of(uu)) BY <2>1, <2>5, <2>7 DEF T
  <2>14. PICK f, g : f = Of(rr) /\ g = Of(uu) OBVIOUS
  <2>15. f \in Seq(LineLists) /\ Len(f) = m + 1 /\ g \in Seq(LineLists) /\ Len(g) = m
    BY <1>1, <2>2, <2>5, <2>7, <2>14
  <2>16. (\A i \in 1 .. m : g[i] = f[i]) /\ f[m + 1] = OrdinaryLines(x)
    <3>1. \A i \in 1 .. n : f[i] = OrdinaryLines(rr[i]) BY <2>2, <2>14
    <3>2. \A i \in 1 .. m : g[i] = OrdinaryLines(uu[i]) BY <2>7, <2>14
    <3>3. \A i \in 1 .. m : i \in 1 .. n BY <2>5
    <3>4. n \in 1 .. n BY <2>5
    <3> QED BY <2>5, <2>7, <2>8, <3>1, <3>2, <3>3, <3>4
  <2>17. FlattenSeq(f) = FlattenSeq(g) \o OrdinaryLines(x)
    BY <1>0, <2>5, <2>15, <2>16, FlattenLast
  <2> QED BY <2>2, <2>12, <2>13, <2>14, <2>17
<1>3. Len(ss) \in Nat OBVIOUS
<1> QED BY <1>2, <1>3

(* A line of the text, and what becomes of it. *)
LEMMA PartSifts ==
    ASSUME NEW lines \in Seq(Line), NEW i \in 1 .. Len(lines)
    PROVE  PartOf(lines, i) \in Quiet /\ OrdinaryLines(PartOf(lines, i)) = Sifted(lines, i)
<1>0. lines[i] \in Line /\ i \in Nat \ {0} OBVIOUS
<1>1. InPem(lines, i) <=> InBlock(lines, i) BY <1>0, InPemIsInBlock
<1>2. CASE InBlock(lines, i) BY <1>1, <1>2, QuietMakes, OrdinaryNone DEF PartOf, Sifted
<1>3. CASE ~InBlock(lines, i) /\ Opens(lines[i])
  <2>1. ~Ordinary(lines[i]) BY <1>3 DEF Ordinary
  <2>2. Sifted(lines, i) = <<>> BY <1>3, <2>1 DEF Sifted, Sift
  <2>3. PICK l : l = Marker OBVIOUS
  <2>4. "R" \in STRING /\ "removed" \in STRING BY PrintedAssumption DEF Printed
  <2>5. l \in Text BY <2>3, <2>4, Word2 DEF Marker
  <2>6. Len(l) = 2 /\ l[1] = "R" /\ l[2] = "removed" BY <2>3 DEF Marker
  <2>7. \A j \in 1 .. Len(l) : l[j] # "n" BY <2>6
  <2>8. ~Opens(l) BY <2>6 DEF Opens
  <2>9. l \in QuietLine BY <2>5, <2>7, <2>8 DEF QuietLine, Line
  <2>10. ~Ordinary(l)
    <3>1. 1 \in 1 .. Len(l) /\ l[1] \in Ruled BY <2>6 DEF Ruled
    <3> QED BY <2>5, <3>1, OrdinaryIs
  <2>11. PartOf(lines, i) = Append(l, "n") BY <1>1, <1>3, <2>3 DEF PartOf, Shown
  <2>12. OrdinaryLines(Append(l, "n")) = <<>> BY <2>9, <2>10, OrdinaryOne DEF Sift
  <2> QED BY <2>2, <2>9, <2>11, <2>12, QuietMakes
<1>4. CASE ~InBlock(lines, i) /\ ~Opens(lines[i])
  <2>1. lines[i] \in QuietLine BY <1>0, <1>4 DEF QuietLine
  <2>2. PICK r : r = RedactLine(lines[i]) OBVIOUS
  <2>3. /\ r \in QuietLine /\ (Ordinary(r) <=> Ordinary(lines[i]))
        /\ Ordinary(lines[i]) => r = lines[i]
    BY <2>1, <2>2, OrdinaryStays
  <2>4. PartOf(lines, i) = Append(r, "n") BY <1>1, <1>4, <2>2 DEF PartOf, Shown
  <2>5. Sift(r) = Sift(lines[i]) BY <2>3 DEF Sift
  <2>6. Sifted(lines, i) = Sift(lines[i]) BY <1>4 DEF Sifted
  <2> QED BY <2>3, <2>4, <2>5, <2>6, OrdinaryOne, QuietMakes
<1> QED BY <1>2, <1>3, <1>4

(* Whatever the text is. *)
LEMMA OrdinaryRedact ==
    ASSUME NEW t \in Text
    PROVE  OrdinaryLines(RedactText(t)) = OrdinaryLines(t)
<1>1. PICK lines : lines = Lines(t) OBVIOUS
<1>2. PICK K : K = Len(lines) OBVIOUS
<1>3. /\ lines \in Seq(Line) /\ K \in Nat
      /\ OrdinaryLines(t) = FlattenSeq(SiftedTo(lines, K))
  BY <1>1, <1>2, OrdinaryLinesIs
<1>4. PICK f : RedactText(t) = f[K] /\ Filters(lines, f) BY <1>1, <1>2, RedactSteps
<1>5. f[0] = <<>> /\ \A i \in 1 .. K : f[i] = f[i - 1] \o PartOf(lines, i)
  BY <1>2, <1>4 DEF Filters
<1>6. Joins(LineLists) BY SeqJoins DEF LineLists
<1> DEFINE Good(n) == f[n] \in Quiet /\ OrdinaryLines(f[n]) = FlattenSeq(SiftedTo(lines, n))
           T == {n \in 0 .. K : ~Good(n)}
<1>7. T = {}
  <2> SUFFICES ASSUME T # {} PROVE FALSE OBVIOUS
  <2>0. T \subseteq Nat BY <1>3
  <2>1. PICK n \in T : \A m \in T : ~(m < n) BY <2>0, Smallest
  <2>2. n \in 0 .. K /\ ~Good(n) BY <2>1
  <2>3. n # 0
    <3>1. SiftedTo(lines, 0) = <<>>
      <4>1. 0 <= Len(lines) BY <1>2, <1>3
      <4>2. SiftedTo(lines, 0) \in Seq(LineLists) /\ Len(SiftedTo(lines, 0)) = 0
        BY <1>3, <4>1, SiftTyped
      <4> QED BY <4>2, NoneIs
    <3>2. Good(0) BY <1>5, <3>1, QuietMakes, OrdinaryNone, FlattenNone
    <3> QED BY <2>2, <3>2
  <2>4. PICK m : m = n - 1 OBVIOUS
  <2>5. m \in Nat /\ m < n /\ n = m + 1 /\ m \in 0 .. K /\ n \in 1 .. K /\ n <= K /\ m <= K
    BY <1>3, <2>2, <2>3, <2>4
  <2>6. Good(m) BY <2>1, <2>5
  <2>7. f[n] = f[m] \o PartOf(lines, n) BY <1>5, <2>4, <2>5
  <2>8. PartOf(lines, n) \in Quiet /\ OrdinaryLines(PartOf(lines, n)) = Sifted(lines, n)
    BY <1>2, <1>3, <2>5, PartSifts
  <2>9. f[n] \in Quiet BY <2>6, <2>7, <2>8, QuietMakes
  <2>10. OrdinaryLines(f[n]) = FlattenSeq(SiftedTo(lines, m)) \o Sifted(lines, n)
    BY <2>6, <2>7, <2>8, OrdinaryCat
  <2>11. PICK g, h : g = SiftedTo(lines, n) /\ h = SiftedTo(lines, m) OBVIOUS
  <2>12. g \in Seq(LineLists) /\ Len(g) = m + 1 /\ h \in Seq(LineLists) /\ Len(h) = m
    BY <1>2, <1>3, <2>5, <2>11, SiftTyped
  <2>13. (\A i \in 1 .. m : h[i] = g[i]) /\ g[m + 1] = Sifted(lines, n)
    <3>1. \A i \in 1 .. n : g[i] = Sifted(lines, i) BY <2>11 DEF SiftedTo
    <3>2. \A i \in 1 .. m : h[i] = Sifted(lines, i) BY <2>11 DEF SiftedTo
    <3>3. n \in 1 .. n /\ \A i \in 1 .. m : i \in 1 .. n BY <2>5
    <3> QED BY <2>5, <3>1, <3>2, <3>3
  <2>14. FlattenSeq(g) = FlattenSeq(h) \o Sifted(lines, n)
    BY <1>6, <2>5, <2>12, <2>13, FlattenLast
  <2> QED BY <2>2, <2>9, <2>10, <2>11, <2>14
<1>8. Good(K)
  <2>1. K \in 0 .. K BY <1>3
  <2> QED BY <1>7, <2>1
<1> QED BY <1>3, <1>4, <1>8

LEMMA FlattenSingles ==
    ASSUME NEW S, NEW hs \in Seq(S)
    PROVE  FlattenSeq([i \in 1 .. Len(hs) |-> <<hs[i]>>]) = hs
<1>0. PICK U : U = Seq(S) OBVIOUS
<1> DEFINE Ones(rr) == [i \in 1 .. Len(rr) |-> <<rr[i]>>]
           T == {n \in Nat : \E rr \in Seq(S) : Len(rr) = n /\ FlattenSeq(Ones(rr)) # rr}
<1>1. ASSUME NEW rr \in Seq(S) PROVE Ones(rr) \in Seq(U) /\ Len(Ones(rr)) = Len(rr)
  <2>1. \A i \in 1 .. Len(rr) : <<rr[i]>> \in U BY <1>0
  <2>2. Ones(rr) \in [1 .. Len(rr) -> U] /\ Len(rr) \in Nat BY <2>1
  <2>3. PICK f, K : f = Ones(rr) /\ K = Len(rr) OBVIOUS
  <2>4. f \in [1 .. K -> U] /\ K \in Nat BY <2>2, <2>3
  <2>5. f \in Seq(U) /\ Len(f) = K BY <2>4
  <2> QED BY <2>3, <2>5
<1>2. T = {}
  <2> SUFFICES ASSUME T # {} PROVE FALSE OBVIOUS
  <2>0. T \subseteq Nat OBVIOUS
  <2>1. PICK n \in T : \A m \in T : ~(m < n) BY <2>0, Smallest
  <2>2. PICK rr \in Seq(S) : Len(rr) = n /\ FlattenSeq(Ones(rr)) # rr BY <2>1
  <2> HIDE DEF T
  <2>3. n # 0
    <3> SUFFICES ASSUME n = 0 PROVE FALSE OBVIOUS
    <3>1. rr = <<>> BY <2>2, NoneIs
    <3>2. Ones(rr) = <<>>
      <4>1. Ones(rr) \in Seq(U) /\ Len(Ones(rr)) = 0 BY <1>1, <2>2
      <4> HIDE DEF Ones
      <4> QED BY <4>1, NoneIs
    <3> QED BY <2>2, <3>1, <3>2, FlattenNone
  <2>4. PICK m : m = n - 1 OBVIOUS
  <2>5. m \in Nat /\ m < n /\ n = m + 1 BY <2>0, <2>3, <2>4
  <2>6. PICK uu : uu = SubSeq(rr, 1, m) OBVIOUS
  <2>7. uu \in Seq(S) /\ Len(uu) = m /\ \A i \in 1 .. m : uu[i] = rr[i]
    BY <2>2, <2>5, <2>6
  <2>8. PICK x : x = rr[n] OBVIOUS
  <2>9. x \in S
    <3>1. n \in 1 .. Len(rr) BY <2>2, <2>5
    <3> QED BY <2>2, <2>8, <3>1, ElementOfSeq
  <2>10. rr = uu \o <<x>>
    <3>1. PICK yy : yy = Append(uu, x) OBVIOUS
    <3>2. /\ yy \in Seq(S) /\ Len(yy) = n /\ yy[n] = x /\ \A i \in 1 .. m : yy[i] = rr[i]
      BY <2>5, <2>7, <2>9, <3>1, AppendProperties
    <3>3. \A i \in 1 .. Len(yy) : i = n \/ i \in 1 .. m BY <2>5, <3>2
    <3>4. \A i \in 1 .. Len(yy) : yy[i] = rr[i] BY <2>8, <3>2, <3>3
    <3>5. yy = rr BY <2>2, <3>2, <3>4, SeqEqual
    <3> QED BY <2>7, <2>9, <3>1, <3>5, AppendIs
  <2>11. FlattenSeq(Ones(uu)) = uu BY <2>1, <2>5, <2>7 DEF T
  <2>12. PICK f, g : f = Ones(rr) /\ g = Ones(uu) OBVIOUS
  <2>13. f \in Seq(U) /\ Len(f) = m + 1 /\ g \in Seq(U) /\ Len(g) = m
    BY <1>1, <2>2, <2>5, <2>7, <2>12
  <2>14. (\A i \in 1 .. m : g[i] = f[i]) /\ f[m + 1] = <<x>>
    <3>1. \A i \in 1 .. n : f[i] = <<rr[i]>> BY <2>2, <2>12
    <3>2. \A i \in 1 .. m : g[i] = <<uu[i]>> BY <2>7, <2>12
    <3>3. n \in 1 .. n /\ \A i \in 1 .. m : i \in 1 .. n BY <2>5
    <3> QED BY <2>5, <2>7, <2>8, <3>1, <3>2, <3>3
  <2>15. Joins(U) BY <1>0, SeqJoins
  <2>16. FlattenSeq(f) = FlattenSeq(g) \o <<x>> BY <2>5, <2>13, <2>14, <2>15, FlattenLast
  <2> QED BY <2>2, <2>10, <2>11, <2>12, <2>16
<1>3. Len(hs) \in Nat OBVIOUS
<1> QED BY <1>2, <1>3

LEMMA HostIsOrdinary ==
    ASSUME OrdinaryHost
    PROVE  HostText \in Quiet /\ OrdinaryLines(HostText) = Lines(HostText)
<1>1. PICK hs : hs = Lines(HostText) OBVIOUS
<1>2. /\ hs \in Seq(Line) /\ Len(hs) \in Nat
      /\ OrdinaryLines(HostText) = FlattenSeq(SiftedTo(hs, Len(hs)))
  BY <1>1, TextsAssumption, OrdinaryLinesIs
<1>3. \A i \in 1 .. Len(hs) : Ordinary(hs[i]) BY <1>1, <1>2 DEF OrdinaryHost
<1>4. \A i \in 1 .. Len(hs) : ~Opens(hs[i]) BY <1>3 DEF Ordinary
<1>5. hs \in Seq(QuietLine) BY <1>2, <1>4, UnopenedIs DEF Unopened
<1>6. HostText = Joined(hs) BY <1>1 DEF OrdinaryHost, Indent
<1>7. \A i \in 1 .. Len(hs) : Sifted(hs, i) = <<hs[i]>> BY <1>3, <1>5, QuietSifts DEF Sift
<1>8. SiftedTo(hs, Len(hs)) = [i \in 1 .. Len(hs) |-> <<hs[i]>>] BY <1>7 DEF SiftedTo
<1>9. FlattenSeq([i \in 1 .. Len(hs) |-> <<hs[i]>>]) = hs BY <1>2, FlattenSingles
<1> QED BY <1>1, <1>2, <1>5, <1>6, <1>8, <1>9 DEF Quiet

LEMMA ConfigOrdinary ==
    ASSUME NEW files \in Seq(Text), \E i \in DOMAIN files : Exists(files[i])
    PROVE  OrdinaryLines(ConfigInfo(files)) =
             FlattenSeq([i \in DOMAIN files |->
                IF Exists(files[i]) THEN <<<<"title">>>> \o OrdinaryLines(files[i]) ELSE <<>>])
<1>0. "title" \in STRING BY PrintedAssumption DEF Printed
<1>1. PICK l : l = <<"title">> OBVIOUS
<1>2. l \in CleanLine BY <1>0, <1>1, PlainOne
<1>3. l \in QuietLine /\ l \in Text BY <1>2 DEF CleanLine, QuietLine, Line
<1>4. Append(l, "n") = <<"title", "n">> BY <1>1, AppendTuple, Zenon
<1>5. Ordinary(l)
  <2>1. Len(l) = 1 /\ l[1] = "title" BY <1>1
  <2>2. \A i \in 1 .. Len(l) : l[i] = "title" BY <2>1
  <2>3. \A i \in 1 .. Len(l) : l[i] \notin Ruled BY <2>2 DEF Ruled
  <2> QED BY <1>3, <2>3, OrdinaryIs DEF QuietLine
<1>6. <<"title", "n">> \in Quiet /\ OrdinaryLines(<<"title", "n">>) = <<<<"title">>>>
  BY <1>1, <1>3, <1>4, <1>5, QuietMakes, OrdinaryOne DEF Sift
<1> DEFINE Part(i) == IF Exists(files[i]) THEN <<"title", "n">> \o RedactText(files[i]) ELSE <<>>
           Kept(i) == IF Exists(files[i]) THEN <<<<"title">>>> \o OrdinaryLines(files[i]) ELSE <<>>
<1>7. ASSUME NEW i \in 1 .. Len(files) PROVE Part(i) \in Quiet /\ OrdinaryLines(Part(i)) = Kept(i)
  <2>1. files[i] \in Text OBVIOUS
  <2>2. RedactText(files[i]) \in Quiet BY <2>1, RedactCleans, QuietMakes
  <2>3. <<"title", "n">> \o RedactText(files[i]) \in Quiet BY <1>6, <2>2, QuietMakes
  <2>4. OrdinaryLines(<<"title", "n">> \o RedactText(files[i]))
          = <<<<"title">>>> \o OrdinaryLines(files[i])
    BY <1>6, <2>1, <2>2, OrdinaryCat, OrdinaryRedact
  <2>5. CASE Exists(files[i]) BY <2>3, <2>4, <2>5
  <2>6. CASE ~Exists(files[i]) BY <2>6, QuietMakes, OrdinaryNone
  <2> QED BY <2>5, <2>6
<1>8. PICK ss : ss = [i \in DOMAIN files |-> Part(i)] OBVIOUS
<1>9. ConfigInfo(files) = FlattenSeq(ss) BY <1>8 DEF ConfigInfo
<1> HIDE DEF Part, Kept
<1>10. PICK K : K = Len(files) OBVIOUS
<1>11. K \in Nat /\ DOMAIN files = 1 .. K BY <1>10
<1>12. ss \in [1 .. K -> Quiet] BY <1>7, <1>8, <1>10, <1>11
<1>13. ss \in Seq(Quiet) /\ Len(ss) = K BY <1>11, <1>12
<1>14. OrdinaryLines(FlattenSeq(ss)) = FlattenSeq([i \in 1 .. K |-> OrdinaryLines(ss[i])])
  BY <1>13, OrdinaryFlatten
<1>15. \A i \in 1 .. K : OrdinaryLines(ss[i]) = Kept(i) BY <1>7, <1>8, <1>10, <1>11
<1>16. [i \in 1 .. K |-> OrdinaryLines(ss[i])] = [i \in DOMAIN files |-> Kept(i)]
  BY <1>11, <1>15
<1> QED BY <1>9, <1>14, <1>16 DEF Kept

Configured ==
    (pc # "start" /\ opts.ends = NoExit /\ opts.home = "home") =>
        sections = HostText \o ConfigInfo(home.config)

LEMMA EngineLeaves ==
    ASSUME home \in Home, Engine
    PROVE  home'.config = home.config /\ home'.day = home.day
<1>1. PICK v \in Vms : \/ \E p \in Paths : LogGrows(v, p) \/ LogCut(v, p) \/ LogRemoved(v, p)
                       \/ VmRemoved(v)
  BY DEF Engine
<1>2. ASSUME NEW p \in Paths, LogGrows(v, p)
      PROVE  home'.config = home.config /\ home'.day = home.day
  BY <1>2 DEF LogGrows, Home
<1>3. ASSUME NEW p \in Paths, LogCut(v, p)
      PROVE  home'.config = home.config /\ home'.day = home.day
  BY <1>3 DEF LogCut, Home
<1>4. ASSUME NEW p \in Paths, LogRemoved(v, p)
      PROVE  home'.config = home.config /\ home'.day = home.day
  BY <1>4 DEF LogRemoved, Home
<1>5. CASE VmRemoved(v) BY <1>5 DEF VmRemoved, Home
<1> QED BY <1>1, <1>2, <1>3, <1>4, <1>5

LEMMA NextConfigured == ASSUME LInv, Configured, [Next]_vars PROVE Configured'
<1>0. home \in Home BY DEF LInv, EnvTyped
<1>1. CASE UNCHANGED <<opts, sections, home>> /\ pc # "start" BY <1>1 DEF Configured
<1>2. CASE Engine
  <2>1. UNCHANGED <<pc, opts, sections>>
    BY <1>2 DEF Engine, LogGrows, LogCut, LogRemoved, VmRemoved, Changes
  <2>2. home'.config = home.config BY <1>0, <1>2, EngineLeaves
  <2> QED BY <2>1, <2>2 DEF Configured
<1>3. ASSUME NEW words \in CommandLines, Start(words) PROVE Configured'
  <2>1. UNCHANGED home BY <1>3 DEF Start, env
  <2>2. CASE opts'.ends # NoExit BY <2>2 DEF Configured
  <2>3. CASE opts'.ends = NoExit
    <3>1. sections' = HostText \o (IF opts'.home = "home" THEN ConfigInfo(home.config)
                                   ELSE <<"no", "home", "n">>)
      BY <1>3, <2>3 DEF Start
    <3> QED BY <2>1, <3>1 DEF Configured
  <2> QED BY <2>2, <2>3
<1>4. CASE ListVms BY <1>1, <1>4 DEF ListVms, env
<1>5. ASSUME NEW info, NEW tree, VmDisks(info, tree) PROVE Configured'
  BY <1>1, <1>5 DEF VmDisks, env
<1>6. CASE VmBegin \/ VmNetwork \/ ListLogs \/ OpenLog \/ SeekLog \/ ReadLog \/ VmDone
  BY <1>1, <1>6 DEF VmBegin, VmNetwork, ListLogs, OpenLog, SeekLog, ReadLog, VmDone, env
<1>7. CASE Render \/ WriteReport \/ TarAppend \/ TarFinish
  BY <1>1, <1>7 DEF Render, WriteReport, TarAppend, TarFinish, env
<1>8. CASE UNCHANGED vars BY <1>8 DEF vars, Configured
<1> QED BY <1>2, <1>3, <1>4, <1>5, <1>6, <1>7, <1>8 DEF Next, Command

(***************************************************************************)
(* And nothing else is taken away: whatever the config files hold, the     *)
(* lines of each that are in no PEM block and that no rule speaks of are   *)
(* in the report, in their order, also after a block that was closed and   *)
(* after a file with one that was not.  The host sections are ordinary     *)
(* lines.                                                                  *)
(***************************************************************************)
THEOREM OrdinaryLinesAreKept ==
    ASSUME OrdinaryHost
    PROVE  Spec => []OrdinaryLinesKept
<1>1. LInv /\ Configured => OrdinaryLinesKept
  <2> SUFFICES ASSUME LInv, Configured, pc # "start", opts.ends = NoExit, opts.home = "home",
                      \E i \in DOMAIN home.config : Exists(home.config[i])
               PROVE  OrdinaryLines(sections) =
                        Lines(HostText) \o FlattenSeq([i \in DOMAIN home.config |->
                          IF Exists(home.config[i])
                          THEN <<<<"title">>>> \o OrdinaryLines(home.config[i]) ELSE <<>>])
    BY DEF OrdinaryLinesKept
  <2>1. PICK files : files = home.config OBVIOUS
  <2>2. files \in Seq(Text) BY <2>1 DEF LInv, EnvTyped, Home
  <2>3. sections = HostText \o ConfigInfo(files) BY <2>1 DEF Configured
  <2>4. ConfigInfo(files) \in Quiet BY <2>2, ConfigClean, QuietMakes
  <2>5. OrdinaryLines(sections) = Lines(HostText) \o OrdinaryLines(ConfigInfo(files))
    BY <2>3, <2>4, HostIsOrdinary, OrdinaryCat
  <2>6. OrdinaryLines(ConfigInfo(files)) =
             FlattenSeq([i \in DOMAIN files |->
                IF Exists(files[i]) THEN <<<<"title">>>> \o OrdinaryLines(files[i]) ELSE <<>>])
    BY <2>1, <2>2, ConfigOrdinary
  <2> QED BY <2>1, <2>5, <2>6
<1>2. Init => Configured BY DEF Init, Configured
<1>3. LInv /\ Configured /\ [Next]_vars => Configured' BY NextConfigured
<1>4. Spec => []Configured BY <1>2, <1>3, LogInvariance, PTL DEF Spec
<1> QED BY <1>1, <1>4, LogInvariance, PTL

-----------------------------------------------------------------------------
(***************************************************************************)
(* The calendar.  Quotients are by numbers, the only ones that the provers *)
(* compute with: n = k * q + r for a remainder r names n \div k and n % k.  *)
(***************************************************************************)
LEMMA Quotient4 ==
    ASSUME NEW n \in Int, NEW q \in Int, NEW r \in 0 .. 3, n = 4 * q + r
    PROVE  n \div 4 = q /\ n % 4 = r
  OBVIOUS

LEMMA Quotient100 ==
    ASSUME NEW n \in Int, NEW q \in Int, NEW r \in 0 .. 99, n = 100 * q + r
    PROVE  n \div 100 = q /\ n % 100 = r
  OBVIOUS

LEMMA Quotient365 ==
    ASSUME NEW n \in Int, NEW q \in Int, NEW r \in 0 .. 364, n = 365 * q + r
    PROVE  n \div 365 = q /\ n % 365 = r
  OBVIOUS

LEMMA Quotient400 ==
    ASSUME NEW n \in Int, NEW q \in Int, NEW r \in 0 .. 399, n = 400 * q + r
    PROVE  n \div 400 = q /\ n % 400 = r
  OBVIOUS

LEMMA Quotient1460 ==
    ASSUME NEW n \in Int, NEW q \in Int, NEW r \in Int, 0 <= r, r < 1460, n = 1460 * q + r
    PROVE  n \div 1460 = q /\ n % 1460 = r
  OBVIOUS

LEMMA Quotient36524 ==
    ASSUME NEW n \in Int, NEW q \in Int, NEW r \in Int, 0 <= r, r < 36524, n = 36524 * q + r
    PROVE  n \div 36524 = q /\ n % 36524 = r
  OBVIOUS

LEMMA Quotient146096 ==
    ASSUME NEW n \in Int, NEW q \in Int, NEW r \in Int, 0 <= r, r < 146096, n = 146096 * q + r
    PROVE  n \div 146096 = q /\ n % 146096 = r
  OBVIOUS


(***************************************************************************)
(* A day of an era is the day t of a year that begins in March: c whole    *)
(* centuries, q times four years and a years are before it.  The last day  *)
(* of four years, of a century and of an era is the day 365.               *)
(***************************************************************************)
Parts(d, c, q, a, t) ==
    /\ c \in 0 .. 3 /\ q \in 0 .. 24 /\ a \in 0 .. 3 /\ t \in 0 .. 365
    /\ d = 36524 * c + 1461 * q + 365 * a + t
    /\ t = 365 => a = 3 /\ (q = 24 => c = 3)

LEMMA DayParts ==
    ASSUME NEW d \in Int, 0 <= d, d <= 146096
    PROVE  \E c, q, a, t : Parts(d, c, q, a, t)
<1>1. PICK c \in 0 .. 3 : /\ 36524 * c <= d /\ d <= 36524 * c + 36524
                          /\ c < 3 => d < 36524 * c + 36524
  <2>1. CASE d < 36524 BY <2>1
  <2>2. CASE d >= 36524 /\ d < 73048 BY <2>2
  <2>3. CASE d >= 73048 /\ d < 109572 BY <2>3
  <2>4. CASE d >= 109572 BY <2>4
  <2> QED BY <2>1, <2>2, <2>3, <2>4
<1> DEFINE r == d - 36524 * c
           q == r \div 1461
           s == r - 1461 * q
<1>2. r \in Int /\ 0 <= r /\ r <= 36524 /\ (r = 36524 => c = 3) /\ d = 36524 * c + r BY <1>1
<1> HIDE DEF r
<1>3. q \in 0 .. 24 /\ s \in Int /\ 0 <= s /\ s <= 1460 /\ r = 1461 * q + s
  <2>1. q \in Int /\ 1461 * q <= r /\ r < 1461 * q + 1461 BY <1>2
  <2> HIDE DEF q
  <2> QED BY <1>2, <2>1
<1> HIDE DEF q, s
<1>4. PICK a \in 0 .. 3, t \in 0 .. 365 : s = 365 * a + t /\ (t = 365 => a = 3)
  <2>1. CASE s < 365
    <3>1. s = 365 * 0 + s /\ s \in 0 .. 365 /\ s # 365 BY <1>3, <2>1
    <3> QED BY <3>1
  <2>2. CASE s >= 365 /\ s < 730
    <3>1. s = 365 * 1 + (s - 365) /\ s - 365 \in 0 .. 365 /\ s - 365 # 365 BY <1>3, <2>2
    <3> QED BY <3>1
  <2>3. CASE s >= 730 /\ s < 1095
    <3>1. s = 365 * 2 + (s - 730) /\ s - 730 \in 0 .. 365 /\ s - 730 # 365 BY <1>3, <2>3
    <3> QED BY <3>1
  <2>4. CASE s >= 1095
    <3>1. s = 365 * 3 + (s - 1095) /\ s - 1095 \in 0 .. 365 BY <1>3, <2>4
    <3> QED BY <3>1
  <2> QED BY <1>3, <2>1, <2>2, <2>3, <2>4
<1>5. d = 36524 * c + 1461 * q + 365 * a + t BY <1>2, <1>3, <1>4
<1>6. t = 365 => a = 3 /\ (q = 24 => c = 3)
  <2> SUFFICES ASSUME t = 365, q = 24 PROVE c = 3 BY <1>4
  <2>1. s = 1460 BY <1>4
  <2>2. r = 36524 BY <1>3, <2>1
  <2> QED BY <1>2, <2>2
<1>7. Parts(d, c, q, a, t) BY <1>3, <1>5, <1>6 DEF Parts
<1> QED BY <1>7

LEMMA YearParts ==
    ASSUME NEW d \in Int, 0 <= d, d <= 146096,
           NEW c, NEW q, NEW a, NEW t, Parts(d, c, q, a, t)
    PROVE  YearOfEra(d) = 100 * c + 4 * q + a
<1> USE DEF Parts
<1>0. PICK y \in 0 .. 399 : y = 100 * c + 4 * q + a
  <2>1. 100 * c + 4 * q + a \in 0 .. 399 OBVIOUS
  <2> QED BY <2>1
<1> DEFINE u == d \div 36524
           v == d \div 146096
<1>1. u \in Int /\ v \in Int /\ u - v = c
  <2>1. CASE d = 146096
    <3>1. d = 36524 * 4 + 0 /\ d = 146096 * 1 + 0 BY <2>1
    <3>2. u = 4 BY <3>1, Quotient36524
    <3>3. v = 1 BY <3>1, Quotient146096
    <3>4. c = 3 BY <2>1
    <3> QED BY <3>2, <3>3, <3>4
  <2>2. CASE d # 146096
    <3>1. 0 <= 1461 * q + 365 * a + t /\ 1461 * q + 365 * a + t < 36524
      <4>1. CASE t = 365 /\ q = 24 BY <2>2, <4>1
      <4>2. CASE t # 365 BY <4>2
      <4>3. CASE q # 24 BY <4>3
      <4> QED BY <4>1, <4>2, <4>3
    <3>2. d = 36524 * c + (1461 * q + 365 * a + t) OBVIOUS
    <3>3. u = c BY <3>1, <3>2, Quotient36524
    <3>4. d = 146096 * 0 + d /\ 0 <= d /\ d < 146096 BY <2>2
    <3>5. v = 0 BY <3>4, Quotient146096
    <3> QED BY <3>3, <3>5
  <2> QED BY <2>1, <2>2
<1>2. PICK m \in Int : m = 24 * c + q + 365 * a + t OBVIOUS
<1>3. PICK b \in 0 .. 1 : (b = 1 => m >= 1460) /\ (b = 0 => m < 1460)
  <2>1. CASE m >= 1460 BY <2>1
  <2>2. CASE m < 1460 BY <1>2, <2>2
  <2> QED BY <1>2, <2>1, <2>2
<1> DEFINE w == d \div 1460
<1>4. w = 25 * c + q + b
  <2>1. d = 1460 * (25 * c + q + b) + (m - 1460 * b) BY <1>2
  <2>2. m - 1460 * b \in Int /\ 0 <= m - 1460 * b /\ m - 1460 * b < 1460
    <3>1. CASE b = 0 BY <1>2, <1>3, <3>1
    <3>2. CASE b = 1 BY <1>2, <1>3, <3>2
    <3> QED BY <3>1, <3>2
  <2>3. 25 * c + q + b \in Int OBVIOUS
  <2> QED BY <2>1, <2>2, <2>3, Quotient1460
<1>5. t - b \in 0 .. 364
  <2>1. CASE b = 0
    <3>1. t # 365
      <4> SUFFICES ASSUME t = 365 PROVE FALSE OBVIOUS
      <4>1. a = 3 OBVIOUS
      <4>2. m >= 1460 BY <1>2, <4>1
      <4> QED BY <1>2, <1>3, <2>1, <4>2
    <3> QED BY <2>1, <3>1
  <2>2. CASE b = 1
    <3>1. t # 0
      <4> SUFFICES ASSUME t = 0 PROVE FALSE OBVIOUS
      <4>1. m <= 1191 BY <1>2
      <4> QED BY <1>2, <1>3, <2>2, <4>1
    <3> QED BY <2>2, <3>1
  <2> QED BY <2>1, <2>2
<1> HIDE DEF u, v, w
<1>6. w \in Int BY <1>4
<1>7. d - w + u - v = 365 * y + (t - b) BY <1>0, <1>1, <1>4, <1>6
<1>8. (d - w + u - v) \div 365 = y
  <2>1. PICK n : n = d - w + u - v OBVIOUS
  <2>2. PICK r : r = t - b OBVIOUS
  <2>3. n \in Int /\ n = 365 * y + r BY <1>1, <1>6, <1>7, <2>1, <2>2
  <2>4. r \in 0 .. 364 BY <1>5, <2>2
  <2>5. n \div 365 = y BY <2>3, <2>4, Quotient365
  <2> QED BY <2>1, <2>5
<1>9. YearOfEra(d) = (d - w + u - v) \div 365 BY DEF YearOfEra, u, v, w
<1> QED BY <1>0, <1>8, <1>9

(***************************************************************************)
(* Leap days up to the end of year n.                                      *)
(***************************************************************************)
LeapDays(n) == n \div 4 - n \div 100 + n \div 400

(***************************************************************************)
(* doy is a day of a year that begins in March, and the day 365 is the 29  *)
(* of February of a leap year; the days before it are those of the years   *)
(* and the leap days.                                                      *)
(***************************************************************************)
LEMMA YearFacts ==
    ASSUME NEW d \in Int, 0 <= d, d <= 146096, NEW e \in Int
    PROVE  LET y == YearOfEra(d)
               t == d - (365 * y + y \div 4 - y \div 100)
               Y == y + e * 400
           IN  /\ y \in 0 .. 399 /\ t \in 0 .. 365
               /\ t = 365 => Leap(Y + 1)
               /\ LeapDays(Y) \in Int
               /\ 146097 * e + d = 365 * Y + LeapDays(Y) + t
<1>0. PICK c, q, a, t : Parts(d, c, q, a, t) BY DayParts
<1>1. /\ c \in 0 .. 3 /\ q \in 0 .. 24 /\ a \in 0 .. 3 /\ t \in 0 .. 365
      /\ d = 36524 * c + 1461 * q + 365 * a + t
      /\ t = 365 => a = 3 /\ (q = 24 => c = 3)
  BY <1>0 DEF Parts
<1>2. PICK y \in 0 .. 399 : y = 100 * c + 4 * q + a
  <2>1. 100 * c + 4 * q + a \in 0 .. 399 BY <1>1
  <2> QED BY <2>1
<1>3. YearOfEra(d) = y BY <1>0, <1>2, YearParts
<1>4. y \div 4 = 25 * c + q
  <2>1. y = 4 * (25 * c + q) + a BY <1>1, <1>2
  <2>2. 25 * c + q \in Int BY <1>1
  <2> QED BY <2>1, <2>2, Quotient4, <1>1
<1>5. y \div 100 = c
  <2>1. y = 100 * c + (4 * q + a) /\ 4 * q + a \in 0 .. 99 BY <1>1, <1>2
  <2> QED BY <2>1, Quotient100, <1>1
<1>6. d - (365 * y + y \div 4 - y \div 100) = t
  <2>1. d - (365 * y + (25 * c + q) - c) = t BY <1>1, <1>2
  <2> QED BY <1>4, <1>5, <2>1
<1>7. PICK Y : Y = y + e * 400 /\ Y \in Int OBVIOUS
<1>8. Y \div 4 = 25 * c + q + 100 * e
  <2>1. Y = 4 * (25 * c + q + 100 * e) + a BY <1>1, <1>2, <1>7
  <2>2. 25 * c + q + 100 * e \in Int BY <1>1
  <2> QED BY <2>1, <2>2, Quotient4, <1>1
<1>9. Y \div 100 = c + 4 * e
  <2>1. Y = 100 * (c + 4 * e) + (4 * q + a) /\ 4 * q + a \in 0 .. 99 BY <1>1, <1>2, <1>7
  <2>2. c + 4 * e \in Int BY <1>1
  <2> QED BY <2>1, <2>2, Quotient100, <1>1
<1>10. Y \div 400 = e
  <2>1. Y = 400 * e + y BY <1>7
  <2> QED BY <2>1, Quotient400
<1>11. LeapDays(Y) = 25 * c + q + 100 * e - (c + 4 * e) + e
  <2>1. LeapDays(Y) = (Y \div 4) - (Y \div 100) + (Y \div 400) BY DEF LeapDays
  <2>2. PICK i, j, k : i = Y \div 4 /\ j = Y \div 100 /\ k = Y \div 400 OBVIOUS
  <2>3. LeapDays(Y) = i - j + k BY <2>1, <2>2
  <2>4. i = 25 * c + q + 100 * e /\ j = c + 4 * e /\ k = e BY <1>8, <1>9, <1>10, <2>2
  <2> QED BY <1>1, <2>3, <2>4
<1>12. LeapDays(Y) \in Int BY <1>1, <1>11
<1>13. 146097 * e + d = 365 * Y + LeapDays(Y) + t
  <2>1. 146097 * e + d = 365 * Y + (25 * c + q + 100 * e - (c + 4 * e) + e) + t BY <1>1, <1>2, <1>7
  <2> QED BY <1>11, <2>1
<1>14. ASSUME t = 365 PROVE Leap(Y + 1)
  <2>1. a = 3 BY <1>1, <1>14
  <2>2. Y + 1 = 4 * (25 * c + q + 100 * e + 1) + 0 BY <1>1, <1>2, <1>7, <2>1
  <2>3. (Y + 1) % 4 = 0
    <3>1. 25 * c + q + 100 * e + 1 \in Int /\ Y + 1 \in Int BY <1>1, <1>7
    <3> QED BY <2>2, <3>1, Quotient4, <1>1
  <2>4. CASE q = 24
    <3>1. c = 3 BY <1>1, <1>14, <2>4
    <3>2. Y + 1 = 400 * (e + 1) + 0 BY <1>1, <1>2, <1>7, <2>1, <2>4, <3>1
    <3>3. e + 1 \in Int /\ Y + 1 \in Int BY <1>1, <1>7
    <3>4. (Y + 1) % 400 = 0 BY <3>2, <3>3, Quotient400
    <3> QED BY <2>3, <3>4 DEF Leap
  <2>5. CASE q # 24
    <3>1. Y + 1 = 100 * (c + 4 * e) + (4 * q + 4) BY <1>1, <1>2, <1>7, <2>1
    <3>2. 4 * q + 4 \in 0 .. 99 /\ c + 4 * e \in Int /\ Y + 1 \in Int BY <1>1, <1>7, <2>5
    <3>3. (Y + 1) % 100 = 4 * q + 4
      <4>1. PICK n, r : n = Y + 1 /\ r = 4 * q + 4 OBVIOUS
      <4>2. n \in Int /\ r \in 0 .. 99 /\ n = 100 * (c + 4 * e) + r BY <3>1, <3>2, <4>1
      <4>3. n % 100 = r BY <3>2, <4>2, Quotient100
      <4> QED BY <4>1, <4>3
    <3>4. (Y + 1) % 100 # 0 BY <1>1, <3>3
    <3> QED BY <2>3, <3>4 DEF Leap
  <2> QED BY <2>4, <2>5
<1> QED BY <1>1, <1>3, <1>6, <1>7, <1>12, <1>13, <1>14, SMT

LEMMA OneMore4 ==
    ASSUME NEW n \in Int
    PROVE  n \div 4 \in Int /\ n \div 4 = (n - 1) \div 4 + (IF n % 4 = 0 THEN 1 ELSE 0)
<1> DEFINE q == n \div 4
           r == n % 4
<1>1. q \in Int /\ r \in 0 .. 3 /\ n = 4 * q + r OBVIOUS
<1> HIDE DEF q, r
<1>2. CASE r = 0
  <2>1. PICK m, p : m = n - 1 /\ p = q - 1 OBVIOUS
  <2>2. m \in Int /\ p \in Int /\ m = 4 * p + 3 BY <1>1, <1>2, <2>1
  <2>3. m \div 4 = p BY <2>2, Quotient4
  <2>4. (n - 1) \div 4 = q - 1 BY <2>1, <2>3
  <2> QED BY <1>1, <1>2, <2>4 DEF q, r
<1>3. CASE r # 0
  <2>1. PICK m, p : m = n - 1 /\ p = r - 1 OBVIOUS
  <2>2. m \in Int /\ p \in 0 .. 3 /\ m = 4 * q + p BY <1>1, <1>3, <2>1
  <2>3. m \div 4 = q BY <1>1, <2>2, Quotient4
  <2>4. (n - 1) \div 4 = q BY <2>1, <2>3
  <2> QED BY <1>1, <1>3, <2>4 DEF q, r
<1> QED BY <1>2, <1>3

LEMMA OneMore100 ==
    ASSUME NEW n \in Int
    PROVE  n \div 100 \in Int /\ n \div 100 = (n - 1) \div 100 + (IF n % 100 = 0 THEN 1 ELSE 0)
<1> DEFINE q == n \div 100
           r == n % 100
<1>1. q \in Int /\ r \in 0 .. 99 /\ n = 100 * q + r OBVIOUS
<1> HIDE DEF q, r
<1>2. CASE r = 0
  <2>1. PICK m, p : m = n - 1 /\ p = q - 1 OBVIOUS
  <2>2. m \in Int /\ p \in Int /\ m = 100 * p + 99 BY <1>1, <1>2, <2>1
  <2>3. m \div 100 = p BY <2>2, Quotient100
  <2>4. (n - 1) \div 100 = q - 1 BY <2>1, <2>3
  <2> QED BY <1>1, <1>2, <2>4 DEF q, r
<1>3. CASE r # 0
  <2>1. PICK m, p : m = n - 1 /\ p = r - 1 OBVIOUS
  <2>2. m \in Int /\ p \in 0 .. 99 /\ m = 100 * q + p BY <1>1, <1>3, <2>1
  <2>3. m \div 100 = q BY <1>1, <2>2, Quotient100
  <2>4. (n - 1) \div 100 = q BY <2>1, <2>3
  <2> QED BY <1>1, <1>3, <2>4 DEF q, r
<1> QED BY <1>2, <1>3

LEMMA OneMore400 ==
    ASSUME NEW n \in Int
    PROVE  n \div 400 \in Int /\ n \div 400 = (n - 1) \div 400 + (IF n % 400 = 0 THEN 1 ELSE 0)
<1> DEFINE q == n \div 400
           r == n % 400
<1>1. q \in Int /\ r \in 0 .. 399 /\ n = 400 * q + r OBVIOUS
<1> HIDE DEF q, r
<1>2. CASE r = 0
  <2>1. PICK m, p : m = n - 1 /\ p = q - 1 OBVIOUS
  <2>2. m \in Int /\ p \in Int /\ m = 400 * p + 399 BY <1>1, <1>2, <2>1
  <2>3. m \div 400 = p BY <2>2, Quotient400
  <2>4. (n - 1) \div 400 = q - 1 BY <2>1, <2>3
  <2> QED BY <1>1, <1>2, <2>4 DEF q, r
<1>3. CASE r # 0
  <2>1. PICK m, p : m = n - 1 /\ p = r - 1 OBVIOUS
  <2>2. m \in Int /\ p \in 0 .. 399 /\ m = 400 * q + p BY <1>1, <1>3, <2>1
  <2>3. m \div 400 = q BY <1>1, <2>2, Quotient400
  <2>4. (n - 1) \div 400 = q BY <2>1, <2>3
  <2> QED BY <1>1, <1>3, <2>4 DEF q, r
<1> QED BY <1>2, <1>3

LEMMA LeapStep ==
    ASSUME NEW n \in Int
    PROVE  LeapDays(n) \in Int /\ LeapDays(n) = LeapDays(n - 1) + (IF Leap(n) THEN 1 ELSE 0)
<1>1. PICK a, b, c : a = (n - 1) \div 4 /\ b = (n - 1) \div 100 /\ c = (n - 1) \div 400 OBVIOUS
<1>2. a \in Int /\ b \in Int /\ c \in Int BY <1>1
<1>3. LeapDays(n - 1) = a - b + c BY <1>1 DEF LeapDays
<1>4. PICK i, j, k : i = (IF n % 4 = 0 THEN 1 ELSE 0) /\ j = (IF n % 100 = 0 THEN 1 ELSE 0)
                     /\ k = (IF n % 400 = 0 THEN 1 ELSE 0)
  OBVIOUS
<1>5. i \in 0 .. 1 /\ j \in 0 .. 1 /\ k \in 0 .. 1 BY <1>4
<1>6. n \div 4 = a + i BY <1>1, <1>4, OneMore4
<1>7. n \div 100 = b + j BY <1>1, <1>4, OneMore100
<1>8. n \div 400 = c + k BY <1>1, <1>4, OneMore400
<1>9. LeapDays(n) = (a + i) - (b + j) + (c + k)
  <2>1. PICK x, y, z : x = n \div 4 /\ y = n \div 100 /\ z = n \div 400 OBVIOUS
  <2>2. LeapDays(n) = x - y + z BY <2>1 DEF LeapDays
  <2> QED BY <1>6, <1>7, <1>8, <2>1, <2>2
<1>10. n % 100 = 0 => n % 4 = 0
  <2> SUFFICES ASSUME n % 100 = 0 PROVE n % 4 = 0 OBVIOUS
  <2>1. PICK q : q = n \div 100 OBVIOUS
  <2>2. q \in Int /\ n = 100 * q BY <2>1
  <2>3. PICK p : p = 25 * q OBVIOUS
  <2>4. p \in Int /\ n = 4 * p + 0 BY <2>2, <2>3
  <2> QED BY <2>4, Quotient4
<1>11. n % 400 = 0 => n % 100 = 0
  <2> SUFFICES ASSUME n % 400 = 0 PROVE n % 100 = 0 OBVIOUS
  <2>1. PICK q : q = n \div 400 OBVIOUS
  <2>2. q \in Int /\ n = 400 * q BY <2>1
  <2>3. PICK p : p = 4 * q OBVIOUS
  <2>4. p \in Int /\ n = 100 * p + 0 BY <2>2, <2>3
  <2> QED BY <2>4, Quotient100
<1>12. Leap(n) <=> i = 1 /\ (j # 1 \/ k = 1) BY <1>4 DEF Leap
<1>13. (j = 1 => i = 1) /\ (k = 1 => j = 1) BY <1>4, <1>10, <1>11
<1>14. i - j + k = IF Leap(n) THEN 1 ELSE 0
  <2>1. CASE i = 0 BY <1>5, <1>12, <1>13, <2>1
  <2>2. CASE i = 1 /\ j = 0 BY <1>5, <1>12, <1>13, <2>2
  <2>3. CASE i = 1 /\ j = 1 BY <1>5, <1>12, <1>13, <2>3
  <2> QED BY <1>5, <2>1, <2>2, <2>3
<1>15. (a + i) - (b + j) + (c + k) = (a - b + c) + (i - j + k) BY <1>2, <1>5
<1>16. LeapDays(n) \in Int BY <1>2, <1>5, <1>9
<1> QED BY <1>3, <1>9, <1>14, <1>15, <1>16

LEMMA LeapsCounted ==
    \A k \in Nat : Cardinality({y \in 1970 .. 1969 + k : Leap(y)}) = LeapDays(1969 + k) - 477
<1> DEFINE S(k) == {y \in 1970 .. 1969 + k : Leap(y)}
           Right(k) == IsFiniteSet(S(k)) /\ Cardinality(S(k)) = LeapDays(1969 + k) - 477
           T == {k \in Nat : ~Right(k)}
<1>1. Right(0)
  <2>1. S(0) = {} OBVIOUS
  <2>2. LeapDays(1969) = 477
    <3>1. 1969 = 4 * 492 + 1 /\ 1969 = 100 * 19 + 69 /\ 1969 = 400 * 4 + 369 OBVIOUS
    <3>2. 1969 \div 4 = 492 /\ 1969 \div 100 = 19 /\ 1969 \div 400 = 4 OBVIOUS
    <3> QED BY <3>2 DEF LeapDays
  <2>3. IsFiniteSet({}) /\ Cardinality({}) = 0 BY FS_EmptySet
  <2>4. 1969 + 0 = 1969 OBVIOUS
  <2> QED BY <2>1, <2>2, <2>3, <2>4
<1>2. ASSUME NEW k \in Nat, k # 0, Right(k - 1) PROVE Right(k)
  <2>1. PICK m : m = 1969 + k OBVIOUS
  <2>2. m \in Int /\ m >= 1970 /\ 1969 + (k - 1) = m - 1 BY <1>2, <2>1
  <2>3. IsFiniteSet(S(k - 1)) /\ Cardinality(S(k - 1)) = LeapDays(m - 1) - 477 BY <1>2, <2>2
  <2>4. LeapDays(m) \in Int /\ LeapDays(m) = LeapDays(m - 1) + (IF Leap(m) THEN 1 ELSE 0)
    BY <2>2, LeapStep
  <2>5. LeapDays(m - 1) \in Int
    <3>1. m - 1 \in Int BY <2>2
    <3> QED BY <3>1, LeapStep
  <2>6. m \notin S(k - 1) BY <2>2
  <2>7. CASE Leap(m)
    <3>1. S(k) = S(k - 1) \cup {m} BY <2>1, <2>2, <2>7
    <3>2. IsFiniteSet(S(k)) /\ Cardinality(S(k)) = Cardinality(S(k - 1)) + 1
      <4> HIDE DEF S
      <4> QED BY <2>3, <2>6, <3>1, FS_AddElement
    <3> HIDE DEF S
    <3> QED BY <2>1, <2>3, <2>4, <2>5, <2>7, <3>2
  <2>8. CASE ~Leap(m)
    <3>1. S(k) = S(k - 1) BY <2>1, <2>2, <2>8
    <3> HIDE DEF S
    <3> QED BY <2>1, <2>3, <2>4, <2>5, <2>8, <3>1
  <2> QED BY <2>7, <2>8
<1>3. T = {}
  <2> HIDE DEF Right
  <2>0. T \subseteq Nat OBVIOUS
  <2> SUFFICES ASSUME T # {} PROVE FALSE OBVIOUS
  <2>1. PICK k \in T : \A m \in T : ~(m < k) BY <2>0, Smallest
  <2>2. k \in Nat /\ ~Right(k) BY <2>1
  <2>3. k # 0 BY <1>1, <2>2
  <2>4. k - 1 \in Nat /\ k - 1 < k BY <2>2, <2>3
  <2>5. Right(k - 1) BY <2>1, <2>4
  <2> QED BY <1>2, <2>2, <2>3, <2>5
<1>4. ASSUME NEW k \in Nat PROVE Right(k)
  <2> HIDE DEF Right
  <2> QED BY <1>3
<1> QED BY <1>4

LEMMA LeapCount ==
    ASSUME NEW n \in Int, n >= 1969
    PROVE  Cardinality({y \in 1970 .. n : Leap(y)}) = LeapDays(n) - 477
<1>1. PICK k : k = n - 1969 OBVIOUS
<1>2. k \in Nat /\ n = 1969 + k BY <1>1
<1> QED BY <1>2, LeapsCounted

(***************************************************************************)
(* The days of a year before each of its months.                           *)
(***************************************************************************)
LEMMA MonthSums ==
    ASSUME NEW y, NEW b, b = IF Leap(y) THEN 1 ELSE 0
    PROVE  /\ DaysBefore(y, 1) = 0
           /\ DaysBefore(y, 2) = 31
           /\ DaysBefore(y, 3) = 59 + b
           /\ DaysBefore(y, 4) = 90 + b
           /\ DaysBefore(y, 5) = 120 + b
           /\ DaysBefore(y, 6) = 151 + b
           /\ DaysBefore(y, 7) = 181 + b
           /\ DaysBefore(y, 8) = 212 + b
           /\ DaysBefore(y, 9) = 243 + b
           /\ DaysBefore(y, 10) = 273 + b
           /\ DaysBefore(y, 11) = 304 + b
           /\ DaysBefore(y, 12) = 334 + b
<1>0. b \in Int OBVIOUS
<1>1. /\ MonthLength(y, 1) = 31
      /\ MonthLength(y, 2) = 28 + b
      /\ MonthLength(y, 3) = 31
      /\ MonthLength(y, 4) = 30
      /\ MonthLength(y, 5) = 31
      /\ MonthLength(y, 6) = 30
      /\ MonthLength(y, 7) = 31
      /\ MonthLength(y, 8) = 31
      /\ MonthLength(y, 9) = 30
      /\ MonthLength(y, 10) = 31
      /\ MonthLength(y, 11) = 30
  BY DEF MonthLength
<1> DEFINE Rest(f, k) == IF k = 0 THEN 0 ELSE f[k - 1] + MonthLength(y, k)
           IsSum(f) == f = [k \in 0 .. 11 |-> Rest(f, k)]
           days == CHOOSE f : IsSum(f)
           g == [k \in 0 .. 11 |->
                    IF k = 0 THEN 0 ELSE
                    IF k = 1 THEN 31 ELSE
                    IF k = 2 THEN 59 + b ELSE
                    IF k = 3 THEN 90 + b ELSE
                    IF k = 4 THEN 120 + b ELSE
                    IF k = 5 THEN 151 + b ELSE
                    IF k = 6 THEN 181 + b ELSE
                    IF k = 7 THEN 212 + b ELSE
                    IF k = 8 THEN 243 + b ELSE
                    IF k = 9 THEN 273 + b ELSE
                    IF k = 10 THEN 304 + b ELSE 334 + b]
<1>2. IsSum(g)
  <2>1. ASSUME NEW k \in 0 .. 11 PROVE g[k] = Rest(g, k)
    <3>1. CASE k = 0 BY <1>0, <1>1, <3>1
    <3>2. CASE k = 1 BY <1>0, <1>1, <3>2
    <3>3. CASE k = 2 BY <1>0, <1>1, <3>3
    <3>4. CASE k = 3 BY <1>0, <1>1, <3>4
    <3>5. CASE k = 4 BY <1>0, <1>1, <3>5
    <3>6. CASE k = 5 BY <1>0, <1>1, <3>6
    <3>7. CASE k = 6 BY <1>0, <1>1, <3>7
    <3>8. CASE k = 7 BY <1>0, <1>1, <3>8
    <3>9. CASE k = 8 BY <1>0, <1>1, <3>9
    <3>10. CASE k = 9 BY <1>0, <1>1, <3>10
    <3>11. CASE k = 10 BY <1>0, <1>1, <3>11
    <3>12. CASE k = 11 BY <1>0, <1>1, <3>12
    <3> QED BY <3>1, <3>2, <3>3, <3>4, <3>5, <3>6, <3>7, <3>8, <3>9, <3>10, <3>11, <3>12
  <2> HIDE DEF g
  <2>2. g = [k \in 0 .. 11 |-> g[k]] BY DEF g
  <2> QED BY <2>1, <2>2
<1>3. IsSum(days)
  <2> HIDE DEF IsSum
  <2> QED BY <1>2
<1> HIDE DEF days
<1>4. days[0] = 0 BY <1>3
<1>5. days[1] = 31
  <2>1. days[1] = days[0] + MonthLength(y, 1) BY <1>3
  <2> QED BY <1>0, <1>1, <1>4, <2>1
<1>6. days[2] = 59 + b
  <2>1. days[2] = days[1] + MonthLength(y, 2) BY <1>3
  <2> QED BY <1>0, <1>1, <1>5, <2>1
<1>7. days[3] = 90 + b
  <2>1. days[3] = days[2] + MonthLength(y, 3) BY <1>3
  <2> QED BY <1>0, <1>1, <1>6, <2>1
<1>8. days[4] = 120 + b
  <2>1. days[4] = days[3] + MonthLength(y, 4) BY <1>3
  <2> QED BY <1>0, <1>1, <1>7, <2>1
<1>9. days[5] = 151 + b
  <2>1. days[5] = days[4] + MonthLength(y, 5) BY <1>3
  <2> QED BY <1>0, <1>1, <1>8, <2>1
<1>10. days[6] = 181 + b
  <2>1. days[6] = days[5] + MonthLength(y, 6) BY <1>3
  <2> QED BY <1>0, <1>1, <1>9, <2>1
<1>11. days[7] = 212 + b
  <2>1. days[7] = days[6] + MonthLength(y, 7) BY <1>3
  <2> QED BY <1>0, <1>1, <1>10, <2>1
<1>12. days[8] = 243 + b
  <2>1. days[8] = days[7] + MonthLength(y, 8) BY <1>3
  <2> QED BY <1>0, <1>1, <1>11, <2>1
<1>13. days[9] = 273 + b
  <2>1. days[9] = days[8] + MonthLength(y, 9) BY <1>3
  <2> QED BY <1>0, <1>1, <1>12, <2>1
<1>14. days[10] = 304 + b
  <2>1. days[10] = days[9] + MonthLength(y, 10) BY <1>3
  <2> QED BY <1>0, <1>1, <1>13, <2>1
<1>15. days[11] = 334 + b
  <2>1. days[11] = days[10] + MonthLength(y, 11) BY <1>3
  <2> QED BY <1>0, <1>1, <1>14, <2>1
<1>16. ASSUME NEW m PROVE DaysBefore(y, m) = days[m - 1] BY DEF DaysBefore, days
<1> QED BY <1>16, <1>4, <1>5, <1>6, <1>7, <1>8, <1>9, <1>10, <1>11, <1>12, <1>13, <1>14, <1>15

(***************************************************************************)
(* Months counted from March: the month of a day, and the day it began on. *)
(***************************************************************************)
InMonth(t, mp, o) ==
    /\ t \in 0 .. 365
    /\ mp \in Int /\ mp = (5 * t + 2) \div 153
    /\ o \in Int /\ o = (153 * mp + 2) \div 5

LEMMA MonthFacts ==
    ASSUME NEW t, NEW mp, NEW o, InMonth(t, mp, o)
    PROVE  \/ mp = 0 /\ o = 0 /\ t \in 0 .. 30
           \/ mp = 1 /\ o = 31 /\ t \in 31 .. 60
           \/ mp = 2 /\ o = 61 /\ t \in 61 .. 91
           \/ mp = 3 /\ o = 92 /\ t \in 92 .. 121
           \/ mp = 4 /\ o = 122 /\ t \in 122 .. 152
           \/ mp = 5 /\ o = 153 /\ t \in 153 .. 183
           \/ mp = 6 /\ o = 184 /\ t \in 184 .. 213
           \/ mp = 7 /\ o = 214 /\ t \in 214 .. 244
           \/ mp = 8 /\ o = 245 /\ t \in 245 .. 274
           \/ mp = 9 /\ o = 275 /\ t \in 275 .. 305
           \/ mp = 10 /\ o = 306 /\ t \in 306 .. 336
           \/ mp = 11 /\ o = 337 /\ t \in 337 .. 365
<1>1. mp \in Int /\ 153 * mp <= 5 * t + 2 /\ 5 * t + 2 < 153 * mp + 153 BY DEF InMonth
<1>0. t \in Int /\ t \in 0 .. 365 /\ o = (153 * mp + 2) \div 5 BY DEF InMonth
<1>2. mp \in 0 .. 11 BY <1>0, <1>1
<1>3. mp = 0 => o = 0 /\ t \in 0 .. 30 BY <1>0, <1>1
<1>4. mp = 1 => o = 31 /\ t \in 31 .. 60 BY <1>0, <1>1
<1>5. mp = 2 => o = 61 /\ t \in 61 .. 91 BY <1>0, <1>1
<1>6. mp = 3 => o = 92 /\ t \in 92 .. 121 BY <1>0, <1>1
<1>7. mp = 4 => o = 122 /\ t \in 122 .. 152 BY <1>0, <1>1
<1>8. mp = 5 => o = 153 /\ t \in 153 .. 183 BY <1>0, <1>1
<1>9. mp = 6 => o = 184 /\ t \in 184 .. 213 BY <1>0, <1>1
<1>10. mp = 7 => o = 214 /\ t \in 214 .. 244 BY <1>0, <1>1
<1>11. mp = 8 => o = 245 /\ t \in 245 .. 274 BY <1>0, <1>1
<1>12. mp = 9 => o = 275 /\ t \in 275 .. 305 BY <1>0, <1>1
<1>13. mp = 10 => o = 306 /\ t \in 306 .. 336 BY <1>0, <1>1
<1>14. mp = 11 => o = 337 /\ t \in 337 .. 365 BY <1>0, <1>1
<1> QED BY <1>2, <1>3, <1>4, <1>5, <1>6, <1>7, <1>8, <1>9, <1>10, <1>11, <1>12, <1>13, <1>14

LEMMA FromMarch ==
    ASSUME NEW t, NEW mp, NEW o, InMonth(t, mp, o),
           NEW Y \in Int, mp < 10
    PROVE  /\ mp \in 0 .. 9 /\ o \in Int /\ t < 306
           /\ DaysBefore(Y, mp + 3) = o + 59 + (IF Leap(Y) THEN 1 ELSE 0)
           /\ t - o + 1 \in 1 .. MonthLength(Y, mp + 3)
<1> DEFINE b == IF Leap(Y) THEN 1 ELSE 0
<1>0. b \in Int OBVIOUS
<1>1. \/ mp = 0 /\ o = 0 /\ t \in 0 .. 30
      \/ mp = 1 /\ o = 31 /\ t \in 31 .. 60
      \/ mp = 2 /\ o = 61 /\ t \in 61 .. 91
      \/ mp = 3 /\ o = 92 /\ t \in 92 .. 121
      \/ mp = 4 /\ o = 122 /\ t \in 122 .. 152
      \/ mp = 5 /\ o = 153 /\ t \in 153 .. 183
      \/ mp = 6 /\ o = 184 /\ t \in 184 .. 213
      \/ mp = 7 /\ o = 214 /\ t \in 214 .. 244
      \/ mp = 8 /\ o = 245 /\ t \in 245 .. 274
      \/ mp = 9 /\ o = 275 /\ t \in 275 .. 305
  BY MonthFacts
<1>2. /\ DaysBefore(Y, 3) = 59 + b
      /\ DaysBefore(Y, 4) = 90 + b
      /\ DaysBefore(Y, 5) = 120 + b
      /\ DaysBefore(Y, 6) = 151 + b
      /\ DaysBefore(Y, 7) = 181 + b
      /\ DaysBefore(Y, 8) = 212 + b
      /\ DaysBefore(Y, 9) = 243 + b
      /\ DaysBefore(Y, 10) = 273 + b
      /\ DaysBefore(Y, 11) = 304 + b
      /\ DaysBefore(Y, 12) = 334 + b
  BY MonthSums
<1> HIDE DEF b
<1>3. /\ MonthLength(Y, 3) = 31
      /\ MonthLength(Y, 4) = 30
      /\ MonthLength(Y, 5) = 31
      /\ MonthLength(Y, 6) = 30
      /\ MonthLength(Y, 7) = 31
      /\ MonthLength(Y, 8) = 31
      /\ MonthLength(Y, 9) = 30
      /\ MonthLength(Y, 10) = 31
      /\ MonthLength(Y, 11) = 30
      /\ MonthLength(Y, 12) = 31
  BY DEF MonthLength
<1>4. CASE mp = 0 BY <1>0, <1>1, <1>2, <1>3, <1>4 DEF b
<1>5. CASE mp = 1 BY <1>0, <1>1, <1>2, <1>3, <1>5 DEF b
<1>6. CASE mp = 2 BY <1>0, <1>1, <1>2, <1>3, <1>6 DEF b
<1>7. CASE mp = 3 BY <1>0, <1>1, <1>2, <1>3, <1>7 DEF b
<1>8. CASE mp = 4 BY <1>0, <1>1, <1>2, <1>3, <1>8 DEF b
<1>9. CASE mp = 5 BY <1>0, <1>1, <1>2, <1>3, <1>9 DEF b
<1>10. CASE mp = 6 BY <1>0, <1>1, <1>2, <1>3, <1>10 DEF b
<1>11. CASE mp = 7 BY <1>0, <1>1, <1>2, <1>3, <1>11 DEF b
<1>12. CASE mp = 8 BY <1>0, <1>1, <1>2, <1>3, <1>12 DEF b
<1>13. CASE mp = 9 BY <1>0, <1>1, <1>2, <1>3, <1>13 DEF b
<1> QED BY <1>0, <1>1, <1>4, <1>5, <1>6, <1>7, <1>8, <1>9, <1>10, <1>11, <1>12, <1>13

LEMMA ToFebruary ==
    ASSUME NEW t, NEW mp, NEW o, InMonth(t, mp, o),
           NEW Y \in Int, t = 365 => Leap(Y), ~(mp < 10)
    PROVE  /\ mp \in 10 .. 11 /\ o \in Int /\ t >= 306
           /\ DaysBefore(Y, mp - 9) = o - 306
           /\ t - o + 1 \in 1 .. MonthLength(Y, mp - 9)
<1>1. \/ mp = 10 /\ o = 306 /\ t \in 306 .. 336
      \/ mp = 11 /\ o = 337 /\ t \in 337 .. 365
  BY MonthFacts
<1>2. DaysBefore(Y, 1) = 0 /\ DaysBefore(Y, 2) = 31 BY MonthSums
<1>3. MonthLength(Y, 1) = 31 /\ MonthLength(Y, 2) = IF Leap(Y) THEN 29 ELSE 28 BY DEF MonthLength
<1>4. CASE mp = 10 BY <1>1, <1>2, <1>3, <1>4
<1>5. CASE mp = 11
  <2>1. t - o + 1 \in 1 .. 29 /\ (t - o + 1 = 29 => Leap(Y)) BY <1>1, <1>5
  <2> QED BY <1>1, <1>2, <1>3, <1>5, <2>1
<1> QED BY <1>1, <1>4, <1>5

(***************************************************************************)
(* civil_from_days is right for every day since 1970-01-01.                *)
(***************************************************************************)
LEMMA DateIsRight ==
    ASSUME NEW z \in Nat
    PROVE  IsDate(CivilFromDays(z), z)
<1> DEFINE w == z + 719468
           e == w \div 146097
           d == DayOfEra(z)
           y == YearOfEra(d)
           y4 == y \div 4
           y100 == y \div 100
           t == d - (365 * y + y4 - y100)
           Y == y + e * 400
           mp == (5 * t + 2) \div 153
           o == (153 * mp + 2) \div 5
           mon == IF mp < 10 THEN mp + 3 ELSE mp - 9
<1>1. /\ w \in Int /\ e \in Int /\ d \in Int /\ 0 <= d /\ d <= 146096
      /\ w = 146097 * e + d
  BY DEF DayOfEra
<1>2. w = z + 719468 OBVIOUS
<1> HIDE DEF w, e, d
<1>3. /\ y \in 0 .. 399 /\ t \in 0 .. 365
      /\ t = 365 => Leap(Y + 1)
      /\ LeapDays(Y) \in Int
      /\ 146097 * e + d = 365 * Y + LeapDays(Y) + t
  BY <1>1, YearFacts
<1>4. CivilFromDays(z) = [year  |-> IF mon <= 2 THEN Y + 1 ELSE Y, month |-> mon,
                          day |-> t - o + 1]
  BY DEF CivilFromDays, w, e, d
<1>5. Y \in Int /\ Y >= 1969 /\ (Y = 1969 => t >= 306)
  <2> HIDE DEF y
  <2>1. y4 \in Int /\ y100 \in Int /\ 4 * y4 <= y /\ y < 100 * y100 + 100 /\ 100 * y100 <= y
    BY <1>3
  <2>2. y = 369 => y4 = 92 /\ y100 = 3 OBVIOUS
  <2>3. d = 365 * y + y4 - y100 + t
    <3> HIDE DEF y4, y100
    <3> QED BY <1>1, <1>3, <2>1
  <2> HIDE DEF y4, y100, t
  <2>4. e >= 4 BY <1>1, <1>2
  <2>5. CASE e >= 5 BY <1>3, <1>1, <2>5
  <2>6. CASE e = 4
    <3>1. d >= 135080 BY <1>1, <1>2, <2>6
    <3>2. y >= 369 BY <1>3, <2>1, <2>3, <3>1
    <3>3. y = 369 => t >= 306 BY <1>3, <2>2, <2>3, <3>1
    <3> QED BY <1>3, <2>6, <3>2, <3>3
  <2> QED BY <1>1, <2>4, <2>5, <2>6
<1> HIDE DEF y, y4, y100, t, Y
<1>6. mp \in Int /\ mp = (5 * t + 2) \div 153 BY <1>3
<1>7. o \in Int /\ o = (153 * mp + 2) \div 5 BY <1>6
<1> HIDE DEF mp, o
<1>8. InMonth(t, mp, o) BY <1>3, <1>6, <1>7 DEF InMonth
<1>9. CASE mp < 10
  <2> DEFINE b == IF Leap(Y) THEN 1 ELSE 0
  <2>0. b \in Int /\ b = IF Leap(Y) THEN 1 ELSE 0 OBVIOUS
  <2> HIDE DEF b
  <2>1. /\ mp \in 0 .. 9 /\ o \in Int /\ t < 306
        /\ DaysBefore(Y, mp + 3) = o + 59 + b
        /\ t - o + 1 \in 1 .. MonthLength(Y, mp + 3)
    BY <1>5, <1>9, <1>8, FromMarch DEF b
  <2>2. mon = mp + 3 BY <1>9
  <2> HIDE DEF mon
  <2>3. CivilFromDays(z) = [year |-> Y, month |-> mp + 3, day |-> t - o + 1]
    <3>1. ~(mon <= 2) BY <2>1, <2>2
    <3> QED BY <1>4, <2>2, <3>1
  <2>4. Y - 1 \in Int /\ Y - 1 >= 1969 BY <1>3, <1>5, <2>1
  <2>5. Cardinality({v \in 1970 .. Y - 1 : Leap(v)}) = LeapDays(Y - 1) - 477 BY <2>4, LeapCount
  <2>6. LeapDays(Y) = LeapDays(Y - 1) + b BY <1>5, <2>0, LeapStep
  <2>7. LeapDays(Y - 1) \in Int BY <2>4, LeapStep
  <2>8. b \in Int BY <2>0
  <2>9. DayNumber(CivilFromDays(z)) =
          365 * (Y - 1970) + (LeapDays(Y - 1) - 477) + (o + 59 + b) + (t - o + 1) - 1
    BY <2>1, <2>3, <2>5 DEF DayNumber
  <2>10. 365 * (Y - 1970) + (LeapDays(Y - 1) - 477) + (o + 59 + b) + (t - o + 1) - 1 = z
    BY <1>1, <1>2, <1>3, <1>5, <2>1, <2>6, <2>7, <2>8
  <2>11. mp + 3 \in 1 .. 12 BY <2>1
  <2> QED BY <2>1, <2>3, <2>9, <2>10, <2>11 DEF IsDate
<1>10. CASE ~(mp < 10)
  <2>1. /\ mp \in 10 .. 11 /\ o \in Int /\ t >= 306
        /\ DaysBefore(Y + 1, mp - 9) = o - 306
        /\ t - o + 1 \in 1 .. MonthLength(Y + 1, mp - 9)
    <3>1. PICK X : X = Y + 1 OBVIOUS
    <3>2. X \in Int /\ (t = 365 => Leap(X)) BY <1>3, <1>5, <3>1
    <3>3. /\ mp \in 10 .. 11 /\ o \in Int /\ t >= 306
          /\ DaysBefore(X, mp - 9) = o - 306
          /\ t - o + 1 \in 1 .. MonthLength(X, mp - 9)
      BY <1>10, <1>8, <3>2, ToFebruary
    <3> QED BY <3>1, <3>3
  <2>2. mon = mp - 9 BY <1>10
  <2> HIDE DEF mon
  <2>3. CivilFromDays(z) = [year |-> Y + 1, month |-> mp - 9, day |-> t - o + 1]
    <3>1. mon <= 2 BY <2>1, <2>2
    <3> QED BY <1>4, <2>2, <3>1
  <2>4. (Y + 1) - 1 = Y BY <1>5
  <2>5. Cardinality({v \in 1970 .. (Y + 1) - 1 : Leap(v)}) = LeapDays(Y) - 477
    BY <1>5, <2>4, LeapCount
  <2>6. DayNumber(CivilFromDays(z)) =
          365 * ((Y + 1) - 1970) + (LeapDays(Y) - 477) + (o - 306) + (t - o + 1) - 1
    BY <2>1, <2>3, <2>5 DEF DayNumber
  <2>7. 365 * ((Y + 1) - 1970) + (LeapDays(Y) - 477) + (o - 306) + (t - o + 1) - 1 = z
    BY <1>1, <1>2, <1>3, <1>5, <2>1
  <2>8. mp - 9 \in 1 .. 12 BY <2>1
  <2> QED BY <2>1, <2>3, <2>6, <2>7, <2>8 DEF IsDate
<1> QED BY <1>9, <1>10

Stamped ==
    \/ stamp.year = 0
    \/ stamp = CivilFromDays(home.day)

LEMMA NextStamped == ASSUME LInv, Stamped, [Next]_vars PROVE Stamped'
<1>0. home \in Home BY DEF LInv, EnvTyped
<1>1. CASE UNCHANGED stamp /\ home'.day = home.day BY <1>1 DEF Stamped
<1>2. CASE Engine
  <2>1. UNCHANGED stamp BY <1>2 DEF Engine, LogGrows, LogCut, LogRemoved, VmRemoved, Changes
  <2> QED BY <1>0, <1>1, <1>2, <2>1, EngineLeaves
<1>3. ASSUME NEW words \in CommandLines, Start(words) PROVE Stamped'
  BY <1>1, <1>3 DEF Start, env
<1>4. CASE ListVms BY <1>1, <1>4 DEF ListVms, env
<1>5. ASSUME NEW info, NEW tree, VmDisks(info, tree) PROVE Stamped'
  BY <1>1, <1>5 DEF VmDisks, env
<1>6. CASE VmBegin \/ VmNetwork \/ ListLogs \/ OpenLog \/ SeekLog \/ ReadLog \/ VmDone
  BY <1>1, <1>6 DEF VmBegin, VmNetwork, ListLogs, OpenLog, SeekLog, ReadLog, VmDone, env
<1>7. CASE Render
  <2>1. stamp' = CivilFromDays(home.day) /\ UNCHANGED home BY <1>7 DEF Render, env
  <2> QED BY <2>1 DEF Stamped
<1>8. CASE WriteReport \/ TarAppend \/ TarFinish
  BY <1>1, <1>8 DEF WriteReport, TarAppend, TarFinish, env
<1>9. CASE UNCHANGED vars BY <1>1, <1>9 DEF vars, env
<1> QED BY <1>2, <1>3, <1>4, <1>5, <1>6, <1>7, <1>8, <1>9 DEF Next, Command

(***************************************************************************)
(* On every day from 1970-01-01 the date that civil_from_days computes by  *)
(* division is a date of the calendar and counts back to that day: leap    *)
(* years, turns of centuries and the last day of an era included.          *)
(***************************************************************************)
THEOREM StampsAreToday == Spec => []StampIsToday
<1>1. LInv /\ Stamped => StampIsToday
  <2> SUFFICES ASSUME LInv, Stamped, stamp.year # 0 PROVE IsDate(stamp, home.day)
    BY DEF StampIsToday
  <2>1. home.day \in Nat BY DEF LInv, EnvTyped, Home
  <2>2. stamp = CivilFromDays(home.day) BY DEF Stamped
  <2> QED BY <2>1, <2>2, DateIsRight
<1>2. Init => Stamped BY DEF Init, Stamped
<1>3. LInv /\ Stamped /\ [Next]_vars => Stamped' BY NextStamped
<1>4. Spec => []Stamped BY <1>2, <1>3, LogInvariance, PTL DEF Spec
<1> QED BY <1>1, <1>4, LogInvariance, PTL
=============================================================================
