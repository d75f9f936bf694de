--------------------------- MODULE MessageProofs ----------------------------
(***************************************************************************)
(* Proofs about modules Parse and Message, for all lines and users.        *)
(*                                                                         *)
(* The first part is about data: induction, FlattenSeq, Ascending.         *)
(* LeastExists takes the place of the library's induction theorems, whose  *)
(* parameter is an operator: a claim is a set of numbers, and the least    *)
(* number outside of it is what cannot be.                                 *)
(*                                                                         *)
(* The second shows that the loop of Payload::parse, which looks at one    *)
(* place after the other, finds the words of the line: Loop is its         *)
(* invariant (what of the line was said before place i is the command's    *)
(* name and s.args), and LastTurn is the place where it errs.              *)
(*                                                                         *)
(* The third is about the steps: Inv says that what a socket was given,    *)
(* followed by what is still to be written, is the line of the message.    *)
(*                                                                         *)
(* The last reads such a line: OneSplit, used twice, finds the first space *)
(* and the first colon in it.                                              *)
(***************************************************************************)
EXTENDS Message, SequenceTheorems, FiniteSetTheorems, WellFoundedInduction, TLAPS

-----------------------------------------------------------------------------
(* Induction and recursion, with sets and functions for their parameters.  *)

\* A set of numbers that is not empty has a least one.
LEMMA LeastExists ==
  ASSUME NEW I \in SUBSET Nat, I # {}
  PROVE  \E m \in I : \A k \in I : m =< k
<1>1. PICK m \in I : \A k \in I : ~(<<k, m>> \in OpToRel(<, Nat))
  BY NatLessThanWellFounded, WFMin
<1>2. ASSUME NEW k \in I, k < m
      PROVE  FALSE
  <2>1. <<k, m>> \in {ss \in Nat \X Nat : ss[1] < ss[2]}
    BY <1>2
  <2>2. QED
    BY <1>1, <2>1 DEF OpToRel
<1>3. \A k \in I : m =< k
  BY <1>2
<1>4. QED
  BY <1>3

\* What holds of 0, and of the next number with every number, holds of all.
LEMMA Induction ==
  ASSUME NEW P, 0 \in P, \A n \in Nat : n \in P => n + 1 \in P
  PROVE  \A n \in Nat : n \in P
<1> DEFINE Bad == {n \in Nat : n \notin P}
<1>1. SUFFICES ASSUME Bad # {} PROVE FALSE
  OBVIOUS
<1>2. PICK m \in Bad : \A n \in Bad : m =< n
  BY <1>1, LeastExists
<1>3. m \in Nat /\ m # 0 /\ m - 1 \in Nat /\ m - 1 \in P
  BY <1>2
<1>4. m - 1 + 1 \in P
  BY <1>3
<1>5. QED
  BY <1>2, <1>3, <1>4

\* The same from 1 to n.
LEMMA InductionTo ==
  ASSUME NEW n \in Nat, NEW P,
         1 \in P, \A i \in 1..n : i > 1 /\ i - 1 \in P => i \in P
  PROVE  \A i \in 1..n : i \in P
<1> DEFINE Q == {k \in Nat : k \in 1..n => k \in P}
<1>1. 0 \in Q
  OBVIOUS
<1>2. ASSUME NEW k \in Nat, k \in Q
      PROVE  k + 1 \in Q
  <2>1. CASE k = 0
    BY <2>1
  <2>2. CASE k > 0 /\ k + 1 \in 1..n
    BY <1>2, <2>2
  <2>3. QED
    BY <2>1, <2>2
<1>3. \A k \in Nat : k \in Q
  <2> HIDE DEF Q
  <2> QED BY <1>1, <1>2, Induction
<1>4. QED
  BY <1>3

\* The function that "first" and "step" define from 1 to n.
Steps(g, n, first, step) ==
  \A i \in 1..n : g[i] = IF i = 1 THEN first ELSE step[<<g[i - 1], i>>]

\* exists.
LEMMA StepsExist ==
  ASSUME NEW T, NEW first \in T, NEW step \in [T \X Nat -> T]
  PROVE  \A n \in Nat : \E g \in [1..n -> T] : Steps(g, n, first, step)
<1> DEFINE P == {n \in Nat : \E g \in [1..n -> T] : Steps(g, n, first, step)}
<1>1. 0 \in P
  <2>1. [i \in 1..0 |-> first] \in [1..0 -> T]
    OBVIOUS
  <2>2. Steps([i \in 1..0 |-> first], 0, first, step)
    BY DEF Steps
  <2>3. QED
    BY <2>1, <2>2
<1>2. ASSUME NEW n \in Nat, n \in P
      PROVE  n + 1 \in P
  <2>1. PICK g \in [1..n -> T] : Steps(g, n, first, step)
    BY <1>2
  <2> DEFINE e == IF n = 0 THEN first ELSE step[<<g[n], n + 1>>]
             h == [i \in 1..(n + 1) |-> IF i = n + 1 THEN e ELSE g[i]]
  <2>2. e \in T
    OBVIOUS
  <2>3. \A i \in 1..(n + 1) : i # n + 1 => i \in 1..n
    OBVIOUS
  <2>4. h \in [1..(n + 1) -> T]
    <3> HIDE DEF e
    <3> QED BY <2>2, <2>3
  <2>5. ASSUME NEW i \in 1..(n + 1)
        PROVE  h[i] = IF i = 1 THEN first ELSE step[<<h[i - 1], i>>]
    <3>1. CASE i = n + 1 /\ n = 0
      BY <3>1
    <3>2. CASE i = n + 1 /\ n > 0
      <4>1. i # 1 /\ i - 1 = n /\ h[n + 1] = e /\ h[n] = g[n] /\ e = step[<<g[n], n + 1>>]
        BY <3>2
      <4>2. QED
        <5> HIDE DEF h, e
        <5> QED BY <3>2, <4>1
    <3>3. CASE i # n + 1
      <4>1. i \in 1..n /\ h[i] = g[i] /\ (i # 1 => i - 1 \in 1..n /\ h[i - 1] = g[i - 1])
        BY <3>3
      <4>2. QED
        BY <4>1, <2>1 DEF Steps
    <3>4. QED
      BY <3>1, <3>2, <3>3
  <2>6. Steps(h, n + 1, first, step)
    BY <2>5 DEF Steps
  <2>7. QED
    BY <2>4, <2>6
<1>3. \A n \in Nat : n \in P
  <2> HIDE DEF P
  <2> QED BY <1>1, <1>2, Induction
<1>4. QED
  BY <1>3

-----------------------------------------------------------------------------
(* FlattenSeq: the sequences of a sequence, one after the other.           *)

\* It is the last of the sequences that grow by one of them at a time.
LEMMA FlattenSteps ==
  ASSUME NEW S, NEW s \in Seq(Seq(S)), s # <<>>
  PROVE  \E f \in [1..Len(s) -> Seq(S)] :
           /\ f[1] = s[1]
           /\ \A i \in 1..Len(s) : i > 1 => f[i] = f[i - 1] \o s[i]
           /\ FlattenSeq(s) = f[Len(s)]
<1> DEFINE n == Len(s)
           step == [p \in Seq(S) \X Nat |->
                      IF p[2] \in 1..n THEN p[1] \o s[p[2]] ELSE p[1]]
           IsFlat(f) == f = [i \in 1..n |-> IF i = 1 THEN s[i] ELSE f[i - 1] \o s[i]]
           flat == CHOOSE f : IsFlat(f)
<1>1. n \in Nat \ {0} /\ n # 0 /\ 1 \in 1..n /\ n \in 1..n
  OBVIOUS
<1>2. \A i \in 1..n : s[i] \in Seq(S)
  OBVIOUS
<1>3. \A x \in Seq(S), y \in Seq(S) : x \o y \in Seq(S)
  OBVIOUS
<1>4. step \in [Seq(S) \X Nat -> Seq(S)]
  BY <1>2, <1>3
<1>5. PICK g \in [1..n -> Seq(S)] : Steps(g, n, s[1], step)
  <2> HIDE DEF step
  <2> QED BY <1>1, <1>2, <1>4, StepsExist
<1>6. ASSUME NEW i \in 1..n, i # 1
      PROVE  i - 1 \in 1..n /\ <<g[i - 1], i>> \in Seq(S) \X Nat
  <2>1. i - 1 \in 1..n
    BY <1>1, <1>6
  <2>2. g[i - 1] \in Seq(S)
    BY <2>1
  <2>3. QED
    BY <2>1, <2>2
<1>7. \A i \in 1..n : g[i] = IF i = 1 THEN s[i] ELSE g[i - 1] \o s[i]
  BY <1>5, <1>6 DEF Steps
<1>8. IsFlat(g)
  BY <1>7
<1>9. IsFlat(flat)
  <2> HIDE DEF IsFlat
  <2> QED BY <1>8
<1>10. FlattenSeq(s) = flat[n]
  BY <1>1, Zenon DEF FlattenSeq
<1> HIDE DEF flat, step
<1>e. \A i \in 1..n : flat[i] = IF i = 1 THEN s[i] ELSE flat[i - 1] \o s[i]
  BY <1>9, Zenon
<1>n. \A i \in 1..n : i > 1 => i # 1
  BY <1>1
<1> DEFINE P == {i \in Nat : i \in 1..n => flat[i] \in Seq(S)}
<1>11. \A i \in 1..n : i \in P
  <2>1. 1 \in P
    BY <1>1, <1>2, <1>e
  <2>2. ASSUME NEW i \in 1..n, i > 1, i - 1 \in P
        PROVE  i \in P
    <3>1. i - 1 \in 1..n /\ i - 1 \in Nat /\ i \in Nat
      BY <2>2, <1>1
    <3>2. flat[i - 1] \in Seq(S)
      BY <2>2, <3>1
    <3>3. flat[i] = flat[i - 1] \o s[i]
      BY <2>2, <1>e, <1>n, Zenon
    <3>4. flat[i] \in Seq(S)
      BY <3>2, <3>3, <1>2, <1>3, Zenon
    <3>5. QED
      BY <3>1, <3>4
  <2>3. QED
    <3> HIDE DEF P
    <3> QED BY <2>1, <2>2, <1>1, InductionTo
<1>12. flat \in [1..n -> Seq(S)]
  BY <1>9, <1>11
<1>13. flat[1] = s[1] /\ \A i \in 1..n : i > 1 => flat[i] = flat[i - 1] \o s[i]
  BY <1>e, <1>n, <1>1, Zenon
<1>14. QED
  BY <1>10, <1>12, <1>13

\* Of nothing it is nothing, of one more it is that one longer.
LEMMA FlattenEmpty == FlattenSeq(<<>>) = <<>>
  BY DEF FlattenSeq

\* It has the elements of its parts.
LEMMA FlattenType ==
  ASSUME NEW S, NEW s \in Seq(Seq(S))
  PROVE  FlattenSeq(s) \in Seq(S)
<1>1. CASE s = <<>>
  <2>1. FlattenSeq(s) = <<>>
    BY <1>1, FlattenEmpty, Zenon
  <2>2. QED
    BY <2>1
<1>2. CASE s # <<>>
  <2>1. Len(s) \in 1..Len(s)
    BY <1>2
  <2>2. PICK f \in [1..Len(s) -> Seq(S)] : FlattenSeq(s) = f[Len(s)]
    BY <1>2, FlattenSteps, Zenon
  <2>3. QED
    BY <2>1, <2>2
<1>3. QED
  BY <1>1, <1>2

\* Its last sequence comes last.
LEMMA FlattenAppend ==
  ASSUME NEW S, NEW s \in Seq(Seq(S)), NEW x \in Seq(S)
  PROVE  FlattenSeq(Append(s, x)) = FlattenSeq(s) \o x
<1> DEFINE t == Append(s, x)
           n == Len(s)
<1>1. /\ t \in Seq(Seq(S)) /\ t # <<>> /\ n \in Nat /\ Len(t) = n + 1
      /\ t[n + 1] = x /\ \A i \in 1..n : t[i] = s[i]
  BY AppendProperties
<1> HIDE DEF t
<1>2. PICK f \in [1..Len(t) -> Seq(S)] :
             /\ f[1] = t[1]
             /\ \A i \in 1..Len(t) : i > 1 => f[i] = f[i - 1] \o t[i]
             /\ FlattenSeq(t) = f[Len(t)]
  BY <1>1, FlattenSteps
<1>3. CASE s = <<>>
  BY <1>1, <1>2, <1>3, FlattenEmpty
<1>4. CASE s # <<>>
  <2>1. PICK g \in [1..n -> Seq(S)] :
               /\ g[1] = s[1]
               /\ \A i \in 1..n : i > 1 => g[i] = g[i - 1] \o s[i]
               /\ FlattenSeq(s) = g[n]
    BY <1>4, FlattenSteps
  <2>2. n > 0 /\ n \in 1..n
    BY <1>4, <1>1
  <2> DEFINE P == {i \in Nat : i \in 1..n => f[i] = g[i]}
  <2>3. \A i \in 1..n : i \in P
    <3>1. 1 \in P
      BY <1>1, <1>2, <2>1, <2>2
    <3>2. ASSUME NEW i \in 1..n, i > 1, i - 1 \in P
          PROVE  i \in P
      <4>1. i - 1 \in 1..n /\ f[i - 1] = g[i - 1] /\ i \in 1..Len(t) /\ i \in Nat
        BY <3>2, <1>1
      <4>2. f[i] = f[i - 1] \o t[i] /\ g[i] = g[i - 1] \o s[i] /\ t[i] = s[i]
        BY <3>2, <4>1, <1>1, <1>2, <2>1
      <4>3. f[i] = g[i] /\ i \in Nat
        BY <4>1, <4>2, Zenon
      <4>4. QED
        BY <4>3
    <3>3. QED
      <4> HIDE DEF P
      <4> QED BY <1>1, <3>1, <3>2, InductionTo
  <2>4. f[n] = g[n]
    BY <2>2, <2>3
  <2>5. n + 1 \in 1..Len(t) /\ n + 1 > 1 /\ n + 1 - 1 = n
    BY <1>1, <2>2
  <2>6. f[n + 1] = f[n] \o t[n + 1]
    <3>1. ASSUME NEW i \in 1..Len(t), i > 1
          PROVE  f[i] = f[i - 1] \o t[i]
      BY <3>1, <1>2, Zenon
    <3> DEFINE m == n + 1
    <3>2. m \in 1..Len(t) /\ m > 1 /\ m - 1 = n
      BY <2>5
    <3> HIDE DEF m
    <3>3. f[m] = f[m - 1] \o t[m]
      BY <3>1, <3>2, Zenon
    <3>4. f[m] = f[n] \o t[m]
      BY <3>2, <3>3, Zenon
    <3>5. QED
      BY <3>4, Zenon DEF m
  <2>7. QED
    BY <1>1, <1>2, <2>1, <2>4, <2>6 DEF t
<1>5. QED
  BY <1>3, <1>4

\* Its first sequence comes first.
LEMMA FlattenHead ==
  ASSUME NEW S, NEW s \in Seq(Seq(S)), s # <<>>
  PROVE  FlattenSeq(s) = Head(s) \o FlattenSeq(Tail(s))
<1> DEFINE Right(t) == FlattenSeq(t) = Head(t) \o FlattenSeq(Tail(t))
           P == {n \in Nat : \A t \in Seq(Seq(S)) : Len(t) = n + 1 => Right(t)}
<1>1. 0 \in P
  <2>1. ASSUME NEW t \in Seq(Seq(S)), Len(t) = 1
        PROVE  Right(t)
    <3>1. t # <<>>
      <4>1. Len(<<>>) = 0 /\ 0 # 1
        OBVIOUS
      <4>2. QED
        BY <2>1, <4>1, Zenon
    <3>2. PICK u \in Seq(Seq(S)), e \in Seq(S) : t = Append(u, e)
      BY <3>1, SequenceEmptyOrAppend
    <3>3. Len(u) = 0
      BY <2>1, <3>2
    <3>4. u = <<>>
      BY <3>3
    <3>5. Head(t) = e /\ Tail(t) = <<>>
      BY <3>2, <3>4, HeadTailAppend
    <3>6. FlattenSeq(t) = FlattenSeq(<<>>) \o e
      BY <3>2, <3>4, FlattenAppend, Zenon
    <3>7. <<>> \o e = e /\ e \o <<>> = e
      BY <3>2, ConcatEmptySeq
    <3>8. QED
      BY <3>5, <3>6, <3>7, FlattenEmpty, Zenon
  <2>2. 0 + 1 = 1 /\ 0 \in Nat
    OBVIOUS
  <2>3. QED
    <3> HIDE DEF Right
    <3> QED BY <2>1, <2>2
<1>2. ASSUME NEW n \in Nat, n \in P
      PROVE  n + 1 \in P
  <2>1. ASSUME NEW t \in Seq(Seq(S)), Len(t) = n + 1 + 1
        PROVE  Right(t)
    <3>1. t # <<>>
      BY <2>1
    <3>2. PICK u \in Seq(Seq(S)), e \in Seq(S) : t = Append(u, e)
      BY <3>1, SequenceEmptyOrAppend
    <3>3. Len(u) = n + 1 /\ u # <<>>
      BY <2>1, <3>2
    <3>4. Right(u)
      <4> HIDE DEF Right
      <4> QED BY <1>2, <3>3
    <3>5. Head(t) = Head(u) /\ Tail(t) = Append(Tail(u), e)
      BY <3>2, <3>3, HeadTailAppend
    <3>6. Head(u) \in Seq(S) /\ Tail(u) \in Seq(Seq(S))
      BY <3>3, HeadTailProperties
    <3>7. FlattenSeq(Tail(u)) \in Seq(S)
      BY <3>6, FlattenType
    <3>8. FlattenSeq(t) = FlattenSeq(u) \o e
      BY <3>2, FlattenAppend, Zenon
    <3>9. FlattenSeq(Tail(t)) = FlattenSeq(Tail(u)) \o e
      BY <3>5, <3>6, FlattenAppend, Zenon
    <3>10. (Head(u) \o FlattenSeq(Tail(u))) \o e = Head(u) \o (FlattenSeq(Tail(u)) \o e)
      <4>1. \A x, y, z \in Seq(S) : (x \o y) \o z = x \o (y \o z)
        OBVIOUS
      <4>2. QED
        BY <3>2, <3>6, <3>7, <4>1, Zenon
    <3>11. QED
      BY <3>4, <3>5, <3>8, <3>9, <3>10, Zenon
  <2>2. n + 1 \in Nat
    OBVIOUS
  <2>3. QED
    <3> HIDE DEF Right
    <3> QED BY <2>1, <2>2
<1>3. \A n \in Nat : n \in P
  <2> HIDE DEF P
  <2> QED BY <1>1, <1>2, Induction
<1>4. Len(s) - 1 \in Nat /\ Len(s) = Len(s) - 1 + 1
  OBVIOUS
<1>5. Right(s)
  <2> HIDE DEF Right
  <2> QED BY <1>3, <1>4
<1>6. QED
  BY <1>5

-----------------------------------------------------------------------------
(* Ascending: the numbers of a set in order.                               *)

\* e has the numbers of S, and n of them, in order.
Orders(e, S, n) ==
  /\ e \in [1..n -> S]
  /\ \A i, j \in 1..n : i < j => e[i] < e[j]
  /\ \A x \in S : \E i \in 1..n : e[i] = x

\* There is one order only.
LEMMA OneOrdering ==
  ASSUME NEW S \in SUBSET Nat, NEW n \in Nat, NEW d, NEW e,
         Orders(d, S, n), Orders(e, S, n)
  PROVE  d = e
<1> DEFINE Bad == {i \in Nat : i \in 1..n /\ d[i] # e[i]}
<1>1. CASE Bad = {}
  <2>1. \A i \in 1..n : d[i] = e[i]
    BY <1>1
  <2>2. QED
    BY <2>1 DEF Orders
<1>2. CASE Bad # {}
  <2>1. PICK i \in Bad : \A k \in Bad : i =< k
    <3> HIDE DEF Bad
    <3>1. Bad \in SUBSET Nat
      BY DEF Bad
    <3>2. QED
      BY <1>2, <3>1, LeastExists
  <2>2. i \in 1..n /\ d[i] \in S /\ e[i] \in S /\ d[i] \in Nat /\ e[i] \in Nat /\ d[i] # e[i]
    BY DEF Orders
  <2>3. \A k \in 1..n : k < i => d[k] = e[k]
    BY <2>1, <2>2
  <2>4. ASSUME d[i] < e[i]
        PROVE  FALSE
    <3>1. PICK k \in 1..n : e[k] = d[i]
      BY <2>2 DEF Orders
    <3>2. CASE k < i
      <4>1. d[k] < d[i] /\ d[k] = e[k]
        BY <2>2, <2>3, <3>2 DEF Orders
      <4>2. QED
        BY <2>2, <3>1, <4>1
    <3>3. CASE k = i
      BY <2>2, <3>1, <3>3
    <3>4. CASE i < k
      <4>1. e[i] < e[k]
        BY <2>2, <3>4 DEF Orders
      <4>2. QED
        BY <2>2, <2>4, <3>1, <4>1
    <3>5. k < i \/ k = i \/ i < k
      BY <2>2
    <3>6. QED
      BY <3>2, <3>3, <3>4, <3>5
  <2>5. ASSUME e[i] < d[i]
        PROVE  FALSE
    <3>1. PICK k \in 1..n : d[k] = e[i]
      BY <2>2 DEF Orders
    <3>2. CASE k < i
      <4>1. e[k] < e[i] /\ d[k] = e[k]
        BY <2>2, <2>3, <3>2 DEF Orders
      <4>2. QED
        BY <2>2, <3>1, <4>1
    <3>3. CASE k = i
      BY <2>2, <3>1, <3>3
    <3>4. CASE i < k
      <4>1. d[i] < d[k]
        BY <2>2, <3>4 DEF Orders
      <4>2. QED
        BY <2>2, <2>5, <3>1, <4>1
    <3>5. k < i \/ k = i \/ i < k
      BY <2>2
    <3>6. QED
      BY <3>2, <3>3, <3>4, <3>5
  <2>6. QED
    BY <2>2, <2>4, <2>5
<1>3. QED
  BY <1>1, <1>2

\* and Ascending finds it, if there is one.
LEMMA AscendingOrders ==
  ASSUME NEW S \in SUBSET Nat, NEW n \in Nat, NEW e, Orders(e, S, n)
  PROVE  Ascending(S) = e
<1>1. e \in Injection(1..n, S)
  <2>1. ASSUME NEW i \in 1..n, NEW j \in 1..n, e[i] = e[j]
        PROVE  i = j
    <3>1. e[i] \in Nat /\ e[j] \in Nat
      BY DEF Orders
    <3>2. CASE i < j
      BY <2>1, <3>1, <3>2 DEF Orders
    <3>3. CASE j < i
      BY <2>1, <3>1, <3>3 DEF Orders
    <3>4. QED
      BY <3>2, <3>3
  <2>2. QED
    BY <2>1 DEF Orders, Injection, IsInjective
<1>2. e \in Surjection(1..n, S)
  BY DEF Orders, Surjection
<1>3. Cardinality(S) = n
  <2>1. ExistsBijection(1..n, S)
    BY <1>1, <1>2 DEF ExistsBijection, Bijection
  <2>2. QED
    BY <2>1, FS_CountingElements
<1> DEFINE Rises(s) == \A i, j \in DOMAIN s : i < j => s[i] < s[j]
           a == CHOOSE s \in [1..n -> S] : Rises(s)
<1>4. Ascending(S) = a
  BY <1>3, Zenon DEF Ascending
<1>5. e \in [1..n -> S] /\ Rises(e)
  BY DEF Orders
<1>6. a \in [1..n -> S] /\ Rises(a)
  <2> HIDE DEF Rises
  <2> QED BY <1>5
<1> HIDE DEF a
<1>7. \A i, j \in 1..n : i < j => a[i] < a[j]
  BY <1>6
<1>8. \A x \in S : \E i \in 1..n : a[i] = x
  <2>1. a \in Injection(1..n, S)
    <3>1. ASSUME NEW i \in 1..n, NEW j \in 1..n, a[i] = a[j]
          PROVE  i = j
      <4>1. a[i] \in Nat /\ a[j] \in Nat
        BY <1>6
      <4>2. CASE i < j
        BY <3>1, <4>1, <4>2, <1>7
      <4>3. CASE j < i
        BY <3>1, <4>1, <4>3, <1>7
      <4>4. QED
        BY <4>2, <4>3
    <3>2. QED
      BY <3>1, <1>6 DEF Injection, IsInjective
  <2>2. Cardinality(1..n) = n /\ IsFiniteSet(S)
    <3>1. IsFiniteSet(1..n) /\ Cardinality(1..n) = n
      BY FS_Interval
    <3>2. QED
      BY <1>2, <3>1, FS_Surjection
  <2>3. a \in Surjection(1..n, S)
    BY <1>3, <2>1, <2>2, FS_Injection
  <2>4. QED
    BY <2>3 DEF Surjection
<1>9. Orders(a, S, n)
  BY <1>6, <1>7, <1>8 DEF Orders
<1>10. QED
  BY <1>4, <1>9, OneOrdering

\* A number above them all comes last.
LEMMA OrdersAbove ==
  ASSUME NEW S \in SUBSET Nat, NEW n \in Nat, NEW e, Orders(e, S, n),
         NEW m \in Nat, \A x \in S : x < m
  PROVE  Orders(Append(e, m), S \cup {m}, n + 1)
<1> DEFINE T == S \cup {m}
           f == Append(e, m)
<1>1. e \in Seq(T) /\ Len(e) = n
  BY DEF Orders
<1>2. /\ f \in Seq(T) /\ Len(f) = n + 1 /\ f[n + 1] = m
      /\ \A i \in 1..n : f[i] = e[i]
  BY <1>1, AppendProperties
<1> HIDE DEF f
<1>3. f \in [1..(n + 1) -> T]
  BY <1>2
<1>4. ASSUME NEW i \in 1..(n + 1), NEW j \in 1..(n + 1), i < j
      PROVE  f[i] < f[j]
  <2>1. i \in 1..n /\ f[i] = e[i] /\ e[i] \in S
    BY <1>2, <1>4 DEF Orders
  <2>2. CASE j = n + 1
    BY <2>1, <2>2, <1>2
  <2>3. CASE j # n + 1
    <3>1. j \in 1..n /\ f[j] = e[j]
      BY <2>3, <1>2
    <3>2. QED
      BY <2>1, <3>1, <1>4 DEF Orders
  <2>4. QED
    BY <2>2, <2>3
<1>5. ASSUME NEW x \in T
      PROVE  \E i \in 1..(n + 1) : f[i] = x
  <2>1. CASE x = m
    BY <2>1, <1>2
  <2>2. CASE x \in S
    <3>1. PICK i \in 1..n : e[i] = x
      BY <2>2 DEF Orders
    <3>2. i \in 1..(n + 1) /\ f[i] = x
      BY <3>1, <1>2
    <3>3. QED
      BY <3>2
  <2>3. QED
    BY <2>1, <2>2
<1>6. QED
  BY <1>3, <1>4, <1>5 DEF Orders, f

\* Every set of numbers up to a bound has an order.
LEMMA OrdersExist ==
  \A n \in Nat : \A S \in SUBSET (1..n) : \E k \in Nat : \E e : Orders(e, S, k)
<1> DEFINE P == {n \in Nat : \A S \in SUBSET (1..n) : \E k \in Nat : \E e : Orders(e, S, k)}
<1>1. 0 \in P
  <2>1. ASSUME NEW S \in SUBSET (1..0)
        PROVE  \E k \in Nat : \E e : Orders(e, S, k)
    <3>1. S = {}
      OBVIOUS
    <3>2. Orders(<<>>, S, 0)
      BY <3>1 DEF Orders
    <3>3. QED
      BY <3>2
  <2>2. QED
    BY <2>1
<1>2. ASSUME NEW n \in Nat, n \in P
      PROVE  n + 1 \in P
  <2>1. ASSUME NEW S \in SUBSET (1..(n + 1))
        PROVE  \E k \in Nat : \E e : Orders(e, S, k)
    <3> DEFINE R == S \ {n + 1}
    <3>1. R \in SUBSET (1..n)
      OBVIOUS
    <3>2. PICK k \in Nat : \E e : Orders(e, R, k)
      <4> HIDE DEF R
      <4> QED BY <1>2, <3>1
    <3>3. PICK e : Orders(e, R, k)
      BY <3>2
    <3>4. CASE n + 1 \in S
      <4>1. S = R \cup {n + 1} /\ R \in SUBSET Nat /\ n + 1 \in Nat /\ \A x \in R : x < n + 1
        BY <3>1, <3>4
      <4>2. Orders(Append(e, n + 1), R \cup {n + 1}, k + 1)
        <5> HIDE DEF R
        <5> QED BY <4>1, <3>3, OrdersAbove
      <4>3. k + 1 \in Nat
        OBVIOUS
      <4>4. QED
        <5> HIDE DEF R
        <5> QED BY <4>1, <4>2, <4>3
    <3>5. CASE n + 1 \notin S
      <4>1. R = S
        BY <3>5
      <4>2. QED
        BY <4>1, <3>3
    <3>6. QED
      BY <3>4, <3>5
  <2>2. QED
    BY <2>1
<1>3. \A n \in Nat : n \in P
  <2> HIDE DEF P
  <2> QED BY <1>1, <1>2, Induction
<1>4. QED
  BY <1>3

\* What the proofs below need to know of Ascending.
LEMMA AscendingProperties ==
  ASSUME NEW n \in Nat, NEW S \in SUBSET (1..n)
  PROVE  /\ Ascending(S) \in Seq(S)
         /\ Orders(Ascending(S), S, Len(Ascending(S)))
<1>1. PICK k \in Nat : \E e : Orders(e, S, k)
  BY OrdersExist
<1>2. PICK e : Orders(e, S, k)
  BY <1>1
<1>3. S \in SUBSET Nat
  OBVIOUS
<1>4. Ascending(S) = e
  BY <1>2, <1>3, AscendingOrders
<1>5. e \in Seq(S) /\ Len(e) = k
  BY <1>2 DEF Orders
<1>6. QED
  BY <1>2, <1>4, <1>5

\* There is nothing to order in the empty set.
LEMMA AscendingEmpty == Ascending({}) = <<>>
<1>1. Orders(<<>>, {}, 0)
  BY DEF Orders
<1>2. QED
  BY <1>1, AscendingOrders

\* A number above all others comes last.
LEMMA AscendingAbove ==
  ASSUME NEW n \in Nat, NEW S \in SUBSET (1..n), NEW m \in Nat, \A x \in S : x < m
  PROVE  Ascending(S \cup {m}) = Append(Ascending(S), m)
<1>1. /\ Ascending(S) \in Seq(S)
      /\ Orders(Ascending(S), S, Len(Ascending(S)))
  BY AscendingProperties
<1>2. Len(Ascending(S)) \in Nat /\ Len(Ascending(S)) + 1 \in Nat
  BY <1>1
<1>3. S \in SUBSET Nat /\ S \cup {m} \in SUBSET Nat
  OBVIOUS
<1>4. Orders(Append(Ascending(S), m), S \cup {m}, Len(Ascending(S)) + 1)
  BY <1>1, <1>2, <1>3, OrdersAbove
<1>5. QED
  BY <1>2, <1>3, <1>4, AscendingOrders

-----------------------------------------------------------------------------
(* The words of a line, up to a place in it.                               *)

\* Where the words of b start up to place i, and where those end that a space
\* ends there, and these words.
Starts(b, i) == {k \in 2..i : b[k] # Space /\ (k = 2 \/ b[k - 1] = Space)}
Ends(b, i)   == {k \in 2..i : k < i /\ b[k] # Space /\ b[k + 1] = Space}
Said(b, i) ==
  [k \in 1..Len(Ascending(Ends(b, i))) |->
     SubSeq(b, Ascending(Starts(b, i))[k], Ascending(Ends(b, i))[k])]

InWord(b, i) == i >= 2 /\ b[i] # Space

\* A word starts at p, and has not ended at i.
WordFrom(b, p, i) ==
  p \in 2..i /\ (\A k \in p..i : b[k] # Space) /\ (p = 2 \/ b[p - 1] = Space)

\* A space is no other character.
LEMMA SpaceDiffers ==
  Space \notin {"/", "@", "#", ":", "\r", "\n", "bad", "a", "b", "<DM>", "<Global>"}
  BY Zenon DEF Space

\* Starts and ends are places.
LEMMA Places ==
  ASSUME NEW b, NEW i \in Nat
  PROVE  /\ Starts(b, i) \in SUBSET (1..i) /\ Ends(b, i) \in SUBSET (1..i)
         /\ Len(Ascending(Starts(b, i))) \in Nat /\ Len(Ascending(Ends(b, i))) \in Nat
<1>1. Starts(b, i) \in SUBSET (1..i) /\ Ends(b, i) \in SUBSET (1..i)
  BY DEF Starts, Ends
<1>2. /\ Ascending(Starts(b, i)) \in Seq(Starts(b, i))
      /\ Ascending(Ends(b, i)) \in Seq(Ends(b, i))
  BY <1>1, AscendingProperties
<1>3. QED
  BY <1>1, <1>2

\* A space behind a word adds to the ends, a character behind a space to the
\* starts.
LEMMA PlacesStep ==
  ASSUME NEW b, NEW i \in Nat, i >= 2
  PROVE  /\ Starts(b, i) = IF InWord(b, i) /\ ~InWord(b, i - 1)
                           THEN Starts(b, i - 1) \cup {i} ELSE Starts(b, i - 1)
         /\ Ends(b, i) = IF ~InWord(b, i) /\ InWord(b, i - 1)
                         THEN Ends(b, i - 1) \cup {i - 1} ELSE Ends(b, i - 1)
<1>1. i - 1 \in Nat /\ \A k \in 2..i : k = i \/ k \in 2..(i - 1)
  OBVIOUS
<1>2. \A k \in 2..(i - 1) : k \in 2..i /\ (k < i - 1 \/ k = i - 1) /\ k < i
  OBVIOUS
<1>3. i \in 2..i /\ (i > 2 => i - 1 \in 2..(i - 1)) /\ i - 1 + 1 = i
  OBVIOUS
<1>4. ASSUME InWord(b, i), ~InWord(b, i - 1)
      PROVE  Starts(b, i) = Starts(b, i - 1) \cup {i}
  BY <1>1, <1>2, <1>3, <1>4 DEF Starts, InWord
<1>5. ASSUME ~(InWord(b, i) /\ ~InWord(b, i - 1))
      PROVE  Starts(b, i) = Starts(b, i - 1)
  BY <1>1, <1>2, <1>3, <1>5 DEF Starts, InWord
<1>6. ASSUME ~InWord(b, i), InWord(b, i - 1)
      PROVE  Ends(b, i) = Ends(b, i - 1) \cup {i - 1}
  BY <1>1, <1>2, <1>3, <1>6 DEF Ends, InWord
<1>7. ASSUME ~(~InWord(b, i) /\ InWord(b, i - 1))
      PROVE  Ends(b, i) = Ends(b, i - 1)
  BY <1>1, <1>2, <1>3, <1>7 DEF Ends, InWord
<1>8. QED
  BY <1>4, <1>5, <1>6, <1>7

\* There is a start to every end, and one more in a word.
LEMMA Paired ==
  ASSUME NEW b, NEW i \in Nat, i >= 1
  PROVE  Len(Ascending(Starts(b, i))) =
           IF InWord(b, i) THEN Len(Ascending(Ends(b, i))) + 1
                           ELSE Len(Ascending(Ends(b, i)))
<1> DEFINE S(k) == Len(Ascending(Starts(b, k)))
           E(k) == Len(Ascending(Ends(b, k)))
           P == {k \in Nat : S(k) = IF InWord(b, k) THEN E(k) + 1 ELSE E(k)}
<1>1. 1 \in P
  <2>1. Starts(b, 1) = {} /\ Ends(b, 1) = {} /\ ~InWord(b, 1)
    BY DEF Starts, Ends, InWord
  <2>2. QED
    BY <2>1
<1>2. ASSUME NEW k \in 1..i, k > 1, k - 1 \in P
      PROVE  k \in P
  <2>1. k \in Nat /\ k - 1 \in Nat /\ k >= 2
    BY <1>2
  <2>2. /\ Starts(b, k - 1) \in SUBSET (1..(k - 1)) /\ Ends(b, k - 1) \in SUBSET (1..(k - 1))
        /\ S(k - 1) \in Nat /\ E(k - 1) \in Nat
    BY <2>1, Places
  <2>3. S(k - 1) = IF InWord(b, k - 1) THEN E(k - 1) + 1 ELSE E(k - 1)
    BY <1>2
  <2>4. Len(Ascending(Starts(b, k - 1) \cup {k})) = S(k - 1) + 1
    <3>1. \A x \in Starts(b, k - 1) : x < k
      BY <2>1, <2>2
    <3>2. Ascending(Starts(b, k - 1) \cup {k}) = Append(Ascending(Starts(b, k - 1)), k)
      BY <2>1, <2>2, <3>1, AscendingAbove
    <3>3. Ascending(Starts(b, k - 1)) \in Seq(Nat)
      <4>1. Ascending(Starts(b, k - 1)) \in Seq(Starts(b, k - 1))
        BY <2>1, <2>2, AscendingProperties
      <4>2. QED
        BY <4>1, <2>2, SeqMonotonic
    <3>4. QED
      BY <3>2, <3>3, <2>1, AppendProperties
  <2>5. Len(Ascending(Ends(b, k - 1) \cup {k - 1})) = E(k - 1) + 1
    <3>1. \A x \in Ends(b, k - 1) : x < k - 1
      BY <2>1, <2>2 DEF Ends
    <3>2. Ascending(Ends(b, k - 1) \cup {k - 1}) = Append(Ascending(Ends(b, k - 1)), k - 1)
      BY <2>1, <2>2, <3>1, AscendingAbove
    <3>3. Ascending(Ends(b, k - 1)) \in Seq(Nat)
      <4>1. Ascending(Ends(b, k - 1)) \in Seq(Ends(b, k - 1))
        BY <2>1, <2>2, AscendingProperties
      <4>2. QED
        BY <4>1, <2>2, SeqMonotonic
    <3>4. QED
      BY <3>2, <3>3, <2>1, AppendProperties
  <2>6. S(k) = IF InWord(b, k) THEN E(k) + 1 ELSE E(k)
    BY <2>1, <2>2, <2>3, <2>4, <2>5, PlacesStep
  <2>7. QED
    BY <2>1, <2>6
<1>3. \A k \in 1..i : k \in P
  <2> HIDE DEF P
  <2> QED BY <1>1, <1>2, InductionTo
<1>4. QED
  BY <1>3

\* The last word that starts is the one that place i is in.
LEMMA LastStart ==
  ASSUME NEW b, NEW i \in Nat, NEW p \in Nat, WordFrom(b, p, i)
  PROVE  /\ InWord(b, i)
         /\ Ascending(Starts(b, i))[Len(Ascending(Starts(b, i)))] = p
<1>1. p - 1 \in Nat /\ p >= 2 /\ p =< i
  BY DEF WordFrom
<1>2. Starts(b, i) = Starts(b, p - 1) \cup {p}
  <2>1. ASSUME NEW k \in 2..i, k > p
        PROVE  b[k - 1] # Space /\ k # 2
    <3>1. k - 1 \in p..i
      BY <2>1, <1>1
    <3>2. QED
      BY <3>1, <2>1, <1>1 DEF WordFrom
  <2>2. \A k \in 2..i : k > p \/ k = p \/ k \in 2..(p - 1)
    BY <1>1
  <2>3. \A k \in 2..(p - 1) : k \in 2..i /\ k # p
    BY <1>1
  <2>4. p \in 2..i /\ b[p] # Space /\ (p = 2 \/ b[p - 1] = Space)
    BY <1>1 DEF WordFrom
  <2>5. QED
    BY <2>1, <2>2, <2>3, <2>4 DEF Starts
<1>3. /\ Starts(b, p - 1) \in SUBSET (1..(p - 1))
      /\ \A x \in Starts(b, p - 1) : x < p
  BY <1>1, Places
<1>4. Ascending(Starts(b, i)) = Append(Ascending(Starts(b, p - 1)), p)
  BY <1>1, <1>2, <1>3, AscendingAbove
<1>5. Ascending(Starts(b, p - 1)) \in Seq(Nat)
  <2>1. Ascending(Starts(b, p - 1)) \in Seq(Starts(b, p - 1))
    BY <1>1, <1>3, AscendingProperties
  <2>2. QED
    BY <2>1, <1>3, SeqMonotonic
<1>6. InWord(b, i)
  BY <1>1 DEF WordFrom, InWord
<1>7. QED
  BY <1>4, <1>5, <1>6, AppendProperties

\* In a word, there is a place where it started.
LEMMA WordStarted ==
  ASSUME NEW b, NEW i \in Nat, InWord(b, i)
  PROVE  \E p \in Nat : WordFrom(b, p, i)
<1> DEFINE I == {p \in Nat : p \in 2..i /\ \A k \in p..i : b[k] # Space}
<1>1. I \in SUBSET Nat /\ i \in I
  BY DEF InWord
<1>2. PICK p \in I : \A q \in I : p =< q
  <2> HIDE DEF I
  <2> QED BY <1>1, LeastExists
<1>3. CASE p > 2 /\ b[p - 1] # Space
  <2>1. p - 1 \in I
    <3>1. p - 1 \in Nat /\ p - 1 \in 2..i /\ \A k \in (p - 1)..i : k = p - 1 \/ k \in p..i
      BY <1>3
    <3>2. QED
      BY <3>1, <1>3
  <2>2. QED
    BY <2>1, <1>2
<1>4. CASE ~(p > 2 /\ b[p - 1] # Space)
  BY <1>4 DEF WordFrom
<1>5. QED
  BY <1>3, <1>4

\* A function on 1 to n is a sequence of its values.
LEMMA FunctionIsSeq ==
  ASSUME NEW n \in Nat, NEW f, f = [k \in 1..n |-> f[k]]
  PROVE  f \in Seq({f[k] : k \in 1..n}) /\ Len(f) = n
<1>1. f \in [1..n -> {f[k] : k \in 1..n}]
  OBVIOUS
<1>2. QED
  BY <1>1

\* A space behind a word adds that word to those said.
LEMMA SaidCloses ==
  ASSUME NEW b, NEW i \in Nat, NEW p \in Nat,
         WordFrom(b, p, i - 1), ~InWord(b, i)
  PROVE  /\ Said(b, i) = Append(Said(b, i - 1), SubSeq(b, p, i - 1))
         /\ Len(Said(b, i)) = Len(Said(b, i - 1)) + 1
<1>1. i >= 2 /\ i - 1 \in Nat /\ i - 1 >= 1
  BY DEF WordFrom
<1> DEFINE S == Ascending(Starts(b, i - 1))
           E == Ascending(Ends(b, i - 1))
           n == Len(E)
<1>2. InWord(b, i - 1) /\ S[Len(S)] = p
  BY <1>1, LastStart
<1>3. Starts(b, i) = Starts(b, i - 1) /\ Ends(b, i) = Ends(b, i - 1) \cup {i - 1}
  BY <1>1, <1>2, PlacesStep
<1>4. /\ Ends(b, i - 1) \in SUBSET (1..(i - 1)) /\ n \in Nat
      /\ \A x \in Ends(b, i - 1) : x < i - 1
  BY <1>1, Places DEF Ends
<1>5. Ascending(Ends(b, i)) = Append(E, i - 1)
  BY <1>1, <1>3, <1>4, AscendingAbove
<1>6. E \in Seq(Nat)
  <2>1. E \in Seq(Ends(b, i - 1))
    BY <1>1, <1>4, AscendingProperties
  <2>2. QED
    BY <2>1, <1>4, SeqMonotonic
<1>7. Len(S) = n + 1
  BY <1>1, <1>2, Paired
<1> DEFINE F == Ascending(Ends(b, i))
<1>8. Len(F) = n + 1 /\ F[n + 1] = i - 1 /\ \A k \in 1..n : F[k] = E[k]
  BY <1>1, <1>5, <1>6, AppendProperties
<1>9. Ascending(Starts(b, i)) = S
  BY <1>3
<1> HIDE DEF S, E, F
<1> DEFINE old == [k \in 1..n |-> SubSeq(b, S[k], E[k])]
<1>10. Said(b, i - 1) = old
  BY DEF Said, S, E
<1>11. Said(b, i) = [k \in 1..(n + 1) |-> SubSeq(b, S[k], F[k])]
  BY <1>8, <1>9, Zenon DEF Said, F
<1>12. S[n + 1] = p
  BY <1>2, <1>7
<1> DEFINE last == SubSeq(b, p, i - 1)
           new == [k \in 1..(n + 1) |-> SubSeq(b, S[k], F[k])]
<1>13. new[n + 1] = last /\ \A k \in 1..n : new[k] = old[k]
  <2>1. n + 1 \in 1..(n + 1) /\ \A k \in 1..n : k \in 1..(n + 1)
    BY <1>4
  <2>2. new[n + 1] = SubSeq(b, S[n + 1], F[n + 1])
    BY <2>1
  <2>3. QED
    BY <1>8, <1>12, <2>1, <2>2
<1>14. n \in Nat
  BY <1>4 DEF E
<1>15. new = [k \in 1..(n + 1) |-> new[k]]
  BY Zenon
<1>a. old = [k \in 1..n |-> old[k]]
  BY Zenon
<1>b. n + 1 \in Nat
  BY <1>14
<1>16. /\ old \in Seq({old[k] : k \in 1..n}) /\ Len(old) = n
       /\ new \in Seq({new[k] : k \in 1..(n + 1)}) /\ Len(new) = n + 1
  <2> HIDE DEF old, new
  <2> QED BY <1>14, <1>15, <1>a, <1>b, FunctionIsSeq, Zenon
<1> DEFINE T == {old[k] : k \in 1..n} \cup {new[k] : k \in 1..(n + 1)} \cup {last}
<1>17. old \in Seq(T) /\ new \in Seq(T) /\ last \in T
  <2> HIDE DEF old, new, last
  <2> QED BY <1>16, SeqMonotonic
<1>18. Append(old, last) = new
  <2> HIDE DEF old, new, last, T
  <2>1. /\ Append(old, last) \in Seq(T) /\ Len(Append(old, last)) = n + 1
        /\ \A k \in 1..n : Append(old, last)[k] = old[k]
        /\ Append(old, last)[n + 1] = last
    BY <1>16, <1>17, AppendProperties
  <2>2. \A k \in 1..(n + 1) : Append(old, last)[k] = new[k]
    <3>1. \A k \in 1..(n + 1) : k = n + 1 \/ k \in 1..n
      BY <1>14
    <3>2. QED
      BY <3>1, <2>1, <1>13
  <2>3. QED
    BY <2>1, <2>2, <1>16, <1>17, SeqEqual
<1>19. QED
  <2> HIDE DEF old, new, last
  <2>1. Said(b, i) = new /\ Said(b, i - 1) = old
    BY <1>10, <1>11 DEF new
  <2>2. QED
    BY <2>1, <1>16, <1>18 DEF last

\* Any other character leaves them.
LEMMA SaidStays ==
  ASSUME NEW b, NEW i \in Nat, i >= 2, InWord(b, i) \/ ~InWord(b, i - 1)
  PROVE  Said(b, i) = Said(b, i - 1)
<1> DEFINE S == Ascending(Starts(b, i - 1))
           E == Ascending(Ends(b, i - 1))
<1>1. Ends(b, i) = Ends(b, i - 1)
  BY PlacesStep
<1>2. i - 1 \in Nat /\ i - 1 >= 1
  OBVIOUS
<1>3. CASE Starts(b, i) = Starts(b, i - 1)
  BY <1>1, <1>3, Zenon DEF Said
<1>4. CASE InWord(b, i) /\ ~InWord(b, i - 1)
  <2>1. Starts(b, i) = Starts(b, i - 1) \cup {i}
    BY <1>4, PlacesStep
  <2>2. Starts(b, i - 1) \in SUBSET (1..(i - 1)) /\ \A x \in Starts(b, i - 1) : x < i
    BY <1>2, Places
  <2>3. Ascending(Starts(b, i)) = Append(S, i)
    BY <1>2, <2>1, <2>2, AscendingAbove
  <2>4. S \in Seq(Nat)
    <3>1. S \in Seq(Starts(b, i - 1))
      BY <1>2, <2>2, AscendingProperties
    <3>2. QED
      BY <3>1, <2>2, SeqMonotonic
  <2>5. Len(S) = Len(E)
    BY <1>2, <1>4, Paired
  <2> HIDE DEF S
  <2>6. \A k \in 1..Len(E) : Append(S, i)[k] = S[k]
    BY <2>4, <2>5, AppendProperties
  <2>7. Said(b, i) = [k \in 1..Len(E) |-> SubSeq(b, Append(S, i)[k], E[k])]
    BY <1>1, <2>3, Zenon DEF Said, E
  <2>8. Said(b, i - 1) = [k \in 1..Len(E) |-> SubSeq(b, S[k], E[k])]
    BY Zenon DEF Said, E, S
  <2>9. QED
    <3> HIDE DEF E
    <3> QED BY <2>6, <2>7, <2>8
<1>5. QED
  BY <1>3, <1>4, PlacesStep

\* Lines that are the same up to a place have the same parts up to it,
LEMMA PartSame ==
  ASSUME NEW C, NEW b \in Seq(C), NEW d \in Seq(C), NEW i \in Nat,
         i =< Len(b), i =< Len(d), \A k \in 1..i : d[k] = b[k],
         NEW x \in 1..i, NEW y \in 1..i
  PROVE  SubSeq(d, x, y) = SubSeq(b, x, y)
<1>1. \A k \in x..y : b[k] \in C /\ d[k] \in C
  OBVIOUS
<1>2. /\ SubSeq(b, x, y) \in Seq(C) /\ SubSeq(d, x, y) \in Seq(C)
      /\ Len(SubSeq(b, x, y)) = Len(SubSeq(d, x, y))
      /\ Len(SubSeq(b, x, y)) = IF x =< y THEN y - x + 1 ELSE 0
      /\ \A k \in 1..(y - x + 1) : /\ SubSeq(b, x, y)[k] = b[x + k - 1]
                                   /\ SubSeq(d, x, y)[k] = d[x + k - 1]
  BY <1>1, SubSeqProperties
<1>3. \A k \in 1..Len(SubSeq(b, x, y)) : SubSeq(b, x, y)[k] = SubSeq(d, x, y)[k]
  <2> DEFINE m == Len(SubSeq(b, x, y))
  <2>1. \A k \in 1..m : k \in 1..(y - x + 1) /\ x + k - 1 \in 1..i
    BY <1>2
  <2>2. QED
    BY <2>1, <1>2
<1>4. QED
  BY <1>2, <1>3, SeqEqual

\* and the same words said.
LEMMA SaidSame ==
  ASSUME NEW C, NEW b \in Seq(C), NEW d \in Seq(C), NEW i \in Nat,
         i =< Len(b), i =< Len(d), \A k \in 1..i : d[k] = b[k]
  PROVE  Said(d, i) = Said(b, i)
<1>1. Starts(d, i) = Starts(b, i)
  <2>1. \A k \in 2..i : k \in 1..i /\ k - 1 \in 1..i
    OBVIOUS
  <2>2. QED
    BY <2>1 DEF Starts
<1>2. Ends(d, i) = Ends(b, i)
  <2>1. \A k \in 2..i : k < i => k \in 1..i /\ k + 1 \in 1..i
    OBVIOUS
  <2>2. QED
    BY <2>1 DEF Ends
<1> DEFINE S == Ascending(Starts(b, i))
           E == Ascending(Ends(b, i))
<1>3. \A k \in 1..Len(E) : S[k] \in 1..i /\ E[k] \in 1..i
  <2>1. /\ Starts(b, i) \in SUBSET (1..i) /\ Ends(b, i) \in SUBSET (1..i)
        /\ Len(S) \in Nat /\ Len(E) \in Nat
    BY Places
  <2>2. S \in Seq(Starts(b, i)) /\ E \in Seq(Ends(b, i))
    BY <2>1, AscendingProperties
  <2>3. CASE i = 0
    <3>1. Ends(b, i) = {}
      BY <2>1, <2>3
    <3>2. Len(E) = 0
      BY <3>1, AscendingEmpty
    <3>3. QED
      BY <3>2
  <2>4. CASE i >= 1
    <3>1. Len(S) = Len(E) \/ Len(S) = Len(E) + 1
      BY <2>4, Paired
    <3>2. \A k \in 1..Len(E) : k \in 1..Len(S)
      BY <2>1, <3>1
    <3> HIDE DEF S, E
    <3>3. QED
      BY <2>1, <2>2, <3>2
  <2>5. QED
    BY <2>3, <2>4
<1>4. \A k \in 1..Len(E) : SubSeq(d, S[k], E[k]) = SubSeq(b, S[k], E[k])
  <2> HIDE DEF S, E
  <2> QED BY <1>3, PartSame
<1>5. Said(d, i) = [k \in 1..Len(E) |-> SubSeq(d, S[k], E[k])]
  BY <1>1, <1>2, Zenon DEF Said
<1>6. Said(b, i) = [k \in 1..Len(E) |-> SubSeq(b, S[k], E[k])]
  BY Zenon DEF Said
<1>7. QED
  <2> HIDE DEF S, E
  <2> QED BY <1>4, <1>5, <1>6

\* The words of a line are what is said when a space follows it.
LEMMA WordsSaid ==
  ASSUME NEW C, NEW b \in Seq(C), Space \in C, Len(b) >= 1
  PROVE  Words(b) = Said(Append(b, Space), Len(b) + 1)
<1> DEFINE n == Len(b)
           d == Append(b, Space)
           starts == {i \in 2..Len(b) : b[i] # Space /\ (i = 2 \/ b[i - 1] = Space)}
           ends == {j \in 2..Len(b) : b[j] # Space /\ (j = Len(b) \/ b[j + 1] = Space)}
<1>1. /\ n \in Nat /\ d \in Seq(C) /\ Len(d) = n + 1 /\ d[n + 1] = Space
      /\ \A k \in 1..n : d[k] = b[k]
  BY AppendProperties
<1> HIDE DEF d
<1>2. Starts(d, n + 1) = starts
  <2>1. \A k \in 2..(n + 1) : k = n + 1 \/ k \in 2..n
    BY <1>1
  <2>2. \A k \in 2..n : k \in 2..(n + 1) /\ k \in 1..n /\ k - 1 \in 1..n
    BY <1>1
  <2>3. QED
    BY <2>1, <2>2, <1>1 DEF Starts
<1>3. Ends(d, n + 1) = ends
  <2>1. \A k \in 2..(n + 1) : k < n + 1 => k \in 2..n
    BY <1>1
  <2>2. \A k \in 2..n : /\ k \in 2..(n + 1) /\ k < n + 1 /\ k \in 1..n
                        /\ (k = n \/ k + 1 \in 1..n)
    BY <1>1
  <2>3. QED
    BY <2>1, <2>2, <1>1 DEF Ends
<1> HIDE DEF starts, ends
<1> DEFINE S == Ascending(starts)
           E == Ascending(ends)
<1>4. n + 1 \in Nat /\ n + 1 >= 1 /\ ~InWord(d, n + 1)
  BY <1>1 DEF InWord
<1>5. Len(S) = Len(E)
  BY <1>2, <1>3, <1>4, Paired
<1>6. /\ starts \in SUBSET (1..n) /\ ends \in SUBSET (1..n)
      /\ S \in Seq(starts) /\ E \in Seq(ends)
  <2>1. starts \in SUBSET (1..n) /\ ends \in SUBSET (1..n)
    BY DEF starts, ends
  <2>2. QED
    BY <2>1, <1>1, AscendingProperties
<1>7. Words(b) = [k \in DOMAIN S |-> SubSeq(b, S[k], E[k])]
  BY Zenon DEF Words, starts, ends
<1>8. Said(d, n + 1) = [k \in 1..Len(E) |-> SubSeq(d, S[k], E[k])]
  BY <1>2, <1>3, Zenon DEF Said
<1> HIDE DEF S, E
<1>9. DOMAIN S = 1..Len(E)
  BY <1>5, <1>6
<1>10. ASSUME NEW k \in 1..Len(E)
       PROVE  SubSeq(d, S[k], E[k]) = SubSeq(b, S[k], E[k])
  <2>1. S[k] \in starts /\ E[k] \in ends
    BY <1>5, <1>6
  <2>2. S[k] \in 1..n /\ E[k] \in 1..n
    BY <2>1, <1>6
  <2>3. n =< Len(b) /\ n =< Len(d)
    BY <1>1
  <2>4. QED
    BY <1>1, <2>2, <2>3, PartSame
<1>11. Words(b) = Said(d, n + 1)
  BY <1>7, <1>8, <1>9, <1>10
<1>12. QED
  BY <1>11 DEF d

\* The words of a line that ends with a space are those said at its end,
LEMMA WordsAtSpace ==
  ASSUME NEW C, NEW b \in Seq(C), Space \in C, Len(b) >= 2, b[Len(b)] = Space
  PROVE  Words(b) = Said(b, Len(b))
<1> DEFINE n == Len(b)
           d == Append(b, Space)
<1>1. /\ n \in Nat /\ d \in Seq(C) /\ Len(d) = n + 1 /\ d[n + 1] = Space
      /\ \A k \in 1..n : d[k] = b[k]
  BY AppendProperties
<1> HIDE DEF d
<1>2. Words(b) = Said(d, n + 1)
  <2>1. Len(b) >= 1
    BY <1>1
  <2>2. QED
    BY <2>1, WordsSaid DEF d
<1>3. /\ n + 1 \in Nat /\ n + 1 >= 2 /\ n + 1 - 1 = n /\ n =< Len(b) /\ n =< Len(d)
      /\ ~InWord(d, n)
  BY <1>1 DEF InWord
<1>4. Said(d, n + 1) = Said(d, n + 1 - 1)
  BY <1>3, SaidStays
<1>5. Said(d, n) = Said(b, n)
  BY <1>1, <1>3, SaidSame
<1>6. QED
  BY <1>2, <1>3, <1>4, <1>5

\* those of a line that ends in a word have that word, too,
LEMMA WordsInWord ==
  ASSUME NEW C, NEW b \in Seq(C), Space \in C, NEW p \in Nat, WordFrom(b, p, Len(b))
  PROVE  /\ Words(b) = Append(Said(b, Len(b)), SubSeq(b, p, Len(b)))
         /\ Len(Words(b)) = Len(Said(b, Len(b))) + 1
<1> DEFINE n == Len(b)
           d == Append(b, Space)
<1>1. /\ n \in Nat /\ d \in Seq(C) /\ Len(d) = n + 1 /\ d[n + 1] = Space
      /\ \A k \in 1..n : d[k] = b[k]
  BY AppendProperties
<1> HIDE DEF d
<1>2. p \in 2..n /\ n >= 2 /\ p \in 1..n /\ n \in 1..n /\ (p # 2 => p - 1 \in 1..n)
  BY <1>1 DEF WordFrom
<1>3. Words(b) = Said(d, n + 1)
  BY <1>1, <1>2, WordsSaid DEF d
<1>4. WordFrom(d, p, n)
  <2>1. \A k \in p..n : k \in 1..n
    BY <1>2
  <2>2. QED
    BY <2>1, <1>1, <1>2 DEF WordFrom
<1>5. n + 1 \in Nat /\ n + 1 - 1 = n /\ n =< Len(b) /\ n =< Len(d) /\ ~InWord(d, n + 1)
  BY <1>1 DEF InWord
<1>6. /\ Said(d, n + 1) = Append(Said(d, n + 1 - 1), SubSeq(d, p, n + 1 - 1))
      /\ Len(Said(d, n + 1)) = Len(Said(d, n + 1 - 1)) + 1
  <2>1. WordFrom(d, p, n + 1 - 1)
    BY <1>4, <1>5
  <2>2. QED
    BY <2>1, <1>5, SaidCloses
<1>7. Said(d, n) = Said(b, n) /\ SubSeq(d, p, n) = SubSeq(b, p, n)
  <2>1. Said(d, n) = Said(b, n)
    BY <1>1, <1>5, SaidSame
  <2>2. SubSeq(d, p, n) = SubSeq(b, p, n)
    BY <1>1, <1>2, <1>5, PartSame
  <2>3. QED
    BY <2>1, <2>2
<1>8. QED
  BY <1>3, <1>5, <1>6, <1>7

\* and without its last character, a line that has a space before that has the
\* words said at that space.
LEMMA WordsOfFront ==
  ASSUME NEW C, NEW b \in Seq(C), Space \in C, Len(b) >= 3, b[Len(b) - 1] = Space
  PROVE  Words(Front(b)) = Said(b, Len(b) - 1)
<1> DEFINE n == Len(b) - 1
           c == Front(b)
<1>1. n \in Nat /\ n >= 2 /\ n =< Len(b) /\ \A k \in 1..n : b[k] \in C
  OBVIOUS
<1>2. c \in Seq(C) /\ Len(c) = n /\ \A k \in 1..n : c[k] = b[k]
  <2>1. c = SubSeq(b, 1, n)
    BY DEF Front
  <2>2. /\ SubSeq(b, 1, n) \in Seq(C)
        /\ Len(SubSeq(b, 1, n)) = n
        /\ \A k \in 1..n : SubSeq(b, 1, n)[k] = b[1 + k - 1]
    BY <1>1, SubSeqProperties
  <2>3. QED
    BY <2>1, <2>2, <1>1
<1> HIDE DEF c
<1>3. c[Len(c)] = Space
  BY <1>1, <1>2
<1>4. Words(c) = Said(c, Len(c))
  BY <1>1, <1>2, <1>3, WordsAtSpace
<1>5. Said(c, n) = Said(b, n)
  <2>1. n =< Len(c)
    BY <1>1, <1>2
  <2>2. QED
    BY <2>1, <1>1, <1>2, SaidSame
<1>6. QED
  BY <1>2, <1>4, <1>5 DEF c

-----------------------------------------------------------------------------
(* The loop of Command::parse.                                             *)

\* What the loop keeps, of a line of characters of C.
State(C) ==
  [cmd : CommandNames \cup {"none", "unknown"}, last : Nat, args : Seq(Seq(C))]

FirstState == [cmd |-> "none", last |-> 1, args |-> <<>>]

\* No command has the name of one that is not known yet, or that does not exist.
LEMMA Names == "none" \notin CommandNames /\ "unknown" \notin CommandNames
  BY DEF CommandNames, ArgCount

\* The name of a command is a word of its own.
LEMMA CommandOfWord ==
  ASSUME NEW word
  PROVE  /\ CommandOf(word) \in CommandNames \cup {"unknown"}
         /\ CommandOf(word) \in CommandNames => word = <<CommandOf(word)>>
         /\ CommandOf(word) = "unknown" => \A m \in CommandNames : word # <<m>>
<1>1. CASE \E m \in CommandNames : word = <<m>>
  <2>1. PICK m \in CommandNames : word = <<m>>
    BY <1>1
  <2>2. Head(word) = m
    BY <2>1
  <2>3. CommandOf(word) = m
    BY <1>1, <2>2, Zenon DEF CommandOf
  <2>4. QED
    BY <2>1, <2>3, Names
<1>2. CASE ~\E m \in CommandNames : word = <<m>>
  <2>1. CommandOf(word) = "unknown"
    BY <1>2, Zenon DEF CommandOf
  <2>2. QED
    BY <1>2, <2>1, Names
<1>3. QED
  BY <1>1, <1>2

\* A token's text is a sequence of the line's characters.
LEMMA TextType ==
  ASSUME NEW C, NEW b \in Seq(C), NEW x \in Nat, x >= 1, NEW i \in 1..Len(b)
  PROVE  Text(b, x, i) \in Seq(C)
<1>1. \A k \in x..i : b[k] \in C
  OBVIOUS
<1>2. \A k \in x..(i - 1) : b[k] \in C
  OBVIOUS
<1>3. SubSeq(b, x, i) \in Seq(C) /\ SubSeq(b, x, i - 1) \in Seq(C)
  BY <1>1, <1>2, SubSeqProperties
<1>4. QED
  BY <1>3 DEF Text

\* A turn of the loop takes such a state to such a state.
LEMMA TokenType ==
  ASSUME NEW C, NEW b \in Seq(C), NEW s \in State(C), NEW i \in 1..Len(b)
  PROVE  Token(b, s, i) \in State(C)
<1>1. i \in Nat /\ s.last + 1 \in Nat /\ s.last + 1 >= 1
  BY DEF State
<1>2. Text(b, 2, i) \in Seq(C) /\ Text(b, s.last + 1, i) \in Seq(C)
  BY <1>1, TextType
<1>3. CASE ~TokenEnds(b, i) \/ s.cmd = "unknown"
  BY <1>3 DEF Token
<1>4. CASE ~(~TokenEnds(b, i) \/ s.cmd = "unknown") /\ s.cmd = "none"
  <2>1. CommandOf(Text(b, 2, i)) \in CommandNames \cup {"unknown"}
    BY CommandOfWord
  <2>2. Token(b, s, i) = [cmd |-> CommandOf(Text(b, 2, i)), last |-> i, args |-> <<>>]
    BY <1>4 DEF Token
  <2>3. QED
    BY <1>1, <2>1, <2>2 DEF State
<1>5. CASE ~(~TokenEnds(b, i) \/ s.cmd = "unknown") /\ s.cmd # "none"
  <2> DEFINE more == IF Empty(s.last, i) THEN s.args
                     ELSE Append(s.args, Text(b, s.last + 1, i))
  <2>1. more \in Seq(Seq(C))
    BY <1>2 DEF State
  <2>2. Token(b, s, i) = [s EXCEPT !.last = i, !.args = more]
    BY <1>5 DEF Token
  <2> HIDE DEF more
  <2>3. QED
    BY <1>1, <2>1, <2>2 DEF State
<1>6. QED
  BY <1>3, <1>4, <1>5

\* The states of the loop, one for each place.
LEMMA ScanSteps ==
  ASSUME NEW C, NEW b \in Seq(C), b # <<>>
  PROVE  \E f \in [1..Len(b) -> State(C)] :
           /\ f[1] = FirstState
           /\ \A i \in 1..Len(b) : i > 1 => f[i] = Token(b, f[i - 1], i)
           /\ Tokens(b) = f[Len(b)]
<1> DEFINE n == Len(b)
           step == [p \in State(C) \X Nat |->
                      IF p[2] \in 1..n THEN Token(b, p[1], p[2]) ELSE p[1]]
           IsScan(f) == f = [i \in 1..n |-> IF i = 1 THEN [cmd |-> "none", last |-> 1, args |-> <<>>] ELSE Token(b, f[i - 1], i)]
           scan == CHOOSE f : IsScan(f)
<1>1. n \in Nat \ {0} /\ n # 0 /\ 1 \in 1..n /\ n \in 1..n /\ \A i \in 1..n : i > 1 => i # 1
  OBVIOUS
<1>2. FirstState \in State(C)
  BY DEF FirstState, State
<1>3. \A i \in 1..n, s \in State(C) : Token(b, s, i) \in State(C)
  BY TokenType
<1>4. step \in [State(C) \X Nat -> State(C)]
  BY <1>3
<1>5. PICK g \in [1..n -> State(C)] : Steps(g, n, FirstState, step)
  <2> HIDE DEF step
  <2> QED BY <1>1, <1>2, <1>4, StepsExist
<1>6. ASSUME NEW i \in 1..n, i # 1
      PROVE  i - 1 \in 1..n /\ <<g[i - 1], i>> \in State(C) \X Nat
  <2>1. i - 1 \in 1..n
    BY <1>1, <1>6
  <2>2. g[i - 1] \in State(C)
    BY <2>1
  <2>3. QED
    BY <2>1, <2>2
<1>7. ASSUME NEW i \in 1..n
      PROVE  g[i] = IF i = 1 THEN FirstState ELSE Token(b, g[i - 1], i)
  <2>1. g[i] = IF i = 1 THEN FirstState ELSE step[<<g[i - 1], i>>]
    BY <1>5 DEF Steps
  <2>2. i # 1 => step[<<g[i - 1], i>>] = Token(b, g[i - 1], i)
    BY <1>6
  <2>3. QED
    BY <2>1, <2>2
<1> HIDE DEF step
<1>8. IsScan(g)
  BY <1>7 DEF FirstState
<1>9. IsScan(scan)
  <2> HIDE DEF IsScan
  <2> QED BY <1>8
<1>10. Tokens(b) = scan[n]
  BY Zenon DEF Tokens
<1> HIDE DEF scan
<1>11. \A i \in 1..n : scan[i] = IF i = 1 THEN FirstState ELSE Token(b, scan[i - 1], i)
  BY <1>9, Zenon DEF FirstState
<1> DEFINE P == {i \in Nat : i \in 1..n => scan[i] \in State(C)}
<1>12. \A i \in 1..n : i \in P
  <2>1. 1 \in P
    BY <1>1, <1>2, <1>11
  <2>2. ASSUME NEW i \in 1..n, i > 1, i - 1 \in P
        PROVE  i \in P
    <3>1. i - 1 \in 1..n /\ i - 1 \in Nat /\ i \in Nat
      BY <2>2, <1>1
    <3>2. scan[i - 1] \in State(C)
      BY <2>2, <3>1
    <3>3. scan[i] = Token(b, scan[i - 1], i)
      BY <2>2, <1>1, <1>11, Zenon
    <3>4. QED
      BY <3>1, <3>2, <3>3, <1>3
  <2>3. QED
    <3> HIDE DEF P
    <3> QED BY <2>1, <2>2, <1>1, InductionTo
<1>13. scan \in [1..n -> State(C)]
  BY <1>9, <1>12
<1>14. scan[1] = FirstState /\ \A i \in 1..n : i > 1 => scan[i] = Token(b, scan[i - 1], i)
  BY <1>1, <1>11, Zenon
<1>15. QED
  BY <1>10, <1>13, <1>14

\* A part of a line is a line.
LEMMA PartType ==
  ASSUME NEW C, NEW b \in Seq(C), NEW x \in Nat, x >= 1, NEW y \in Nat, y =< Len(b)
  PROVE  SubSeq(b, x, y) \in Seq(C)
<1>1. x \in Int /\ y \in Int /\ \A k \in x..y : b[k] \in C
  OBVIOUS
<1>2. QED
  BY <1>1, SubSeqProperties

\* What was said is a sequence of words.
LEMMA SaidType ==
  ASSUME NEW C, NEW b \in Seq(C), NEW i \in 1..Len(b)
  PROVE  Said(b, i) \in Seq(Seq(C))
<1> DEFINE S == Ascending(Starts(b, i))
           E == Ascending(Ends(b, i))
<1>1. i \in Nat /\ i >= 1
  OBVIOUS
<1>2. /\ Starts(b, i) \in SUBSET (1..i) /\ Ends(b, i) \in SUBSET (1..i)
      /\ Len(S) \in Nat /\ Len(E) \in Nat
  BY <1>1, Places
<1>3. S \in Seq(Starts(b, i)) /\ E \in Seq(Ends(b, i))
  BY <1>1, <1>2, AscendingProperties
<1>4. Len(S) = Len(E) \/ Len(S) = Len(E) + 1
  BY <1>1, Paired
<1>5. Said(b, i) = [k \in 1..Len(E) |-> SubSeq(b, S[k], E[k])]
  BY Zenon DEF Said
<1> HIDE DEF S, E
<1>6. ASSUME NEW k \in 1..Len(E)
      PROVE  SubSeq(b, S[k], E[k]) \in Seq(C)
  <2>1. k \in 1..Len(S)
    BY <1>2, <1>4
  <2>2. S[k] \in 1..i /\ E[k] \in 1..i
    BY <2>1, <1>2, <1>3
  <2>3. S[k] \in Int /\ E[k] \in Int /\ \A j \in S[k]..E[k] : b[j] \in C
    BY <2>2
  <2>4. QED
    BY <2>3, SubSeqProperties
<1>7. [k \in 1..Len(E) |-> SubSeq(b, S[k], E[k])] \in [1..Len(E) -> Seq(C)]
  BY <1>6
<1>8. QED
  BY <1>2, <1>5, <1>7

\* A sequence with an element begins as before when it gets another.
LEMMA BeginsAsBefore ==
  ASSUME NEW S, NEW s \in Seq(S), s # <<>>, NEW e \in S
  PROVE  /\ Append(s, e) # <<>> /\ Head(Append(s, e)) = Head(s)
         /\ Tail(Append(s, e)) = Append(Tail(s), e)
<1>1. Append(s, e) # <<>>
  BY AppendProperties
<1>2. /\ Head(Append(s, e)) = IF s = <<>> THEN e ELSE Head(s)
      /\ Tail(Append(s, e)) = IF s = <<>> THEN <<>> ELSE Append(Tail(s), e)
  BY HeadTailAppend
<1>3. QED
  BY <1>1, <1>2

\* What is known of the loop's state behind place i.
Loop(b, s, i) ==
  /\ s.cmd = "none" => (\A k \in 2..i : b[k] # Space) /\ Said(b, i) = <<>>
  /\ s.cmd \in CommandNames =>
       /\ s.last \in 2..i /\ b[s.last] = Space /\ \A k \in (s.last + 1)..i : b[k] # Space
       /\ b[2] = s.cmd
       /\ Said(b, i) # <<>> /\ Head(Said(b, i)) = <<s.cmd>> /\ Tail(Said(b, i)) = s.args
  /\ s.cmd = "unknown" =>
       \/ b[2] = Space
       \/ Said(b, i) # <<>> /\ \A m \in CommandNames : Head(Said(b, i)) # <<m>>

\* A character of a word changes nothing of that.
LEMMA LoopInWord ==
  ASSUME NEW C, NEW b \in Seq(C), NEW i \in 2..Len(b), NEW s \in State(C),
         Loop(b, s, i - 1), i # Len(b), b[i] # Space
  PROVE  Loop(b, Token(b, s, i), i)
<1>1. Token(b, s, i) = s
  BY DEF Token, TokenEnds
<1>2. i \in Nat /\ i >= 2 /\ InWord(b, i)
  BY DEF InWord
<1>3. Said(b, i) = Said(b, i - 1)
  BY <1>2, SaidStays
<1>4. \A j \in Nat : \A k \in j..i : k = i \/ k \in j..(i - 1)
  BY <1>2
<1>5. (\A k \in 2..(i - 1) : b[k] # Space) => \A k \in 2..i : b[k] # Space
  BY <1>4
<1>6. s.last \in 2..(i - 1) => s.last \in 2..i /\ s.last + 1 \in Nat
  BY <1>2
<1>7. /\ s.last \in 2..(i - 1)
      /\ \A k \in (s.last + 1)..(i - 1) : b[k] # Space
      => \A k \in (s.last + 1)..i : b[k] # Space
  BY <1>4, <1>6
<1>8. Loop(b, s, i)
  BY <1>3, <1>5, <1>6, <1>7 DEF Loop
<1>9. QED
  BY <1>1, <1>8

\* A space ends a word, or follows another.
LEMMA LoopAtSpace ==
  ASSUME NEW C, NEW b \in Seq(C), NEW i \in 2..Len(b), NEW s \in State(C),
         Loop(b, s, i - 1), b[i] = Space
  PROVE  Loop(b, Token(b, s, i), i)
<1>1. /\ i \in Nat /\ i >= 2 /\ i - 1 \in Nat /\ i - 1 \in 1..Len(b) /\ i \in 1..Len(b)
      /\ ~InWord(b, i) /\ TokenEnds(b, i)
      /\ \A k \in (i + 1)..i : FALSE
  BY DEF InWord, TokenEnds
<1>2. \A x : Text(b, x, i) = SubSeq(b, x, i - 1)
  BY DEF Text
<1>3. Said(b, i - 1) \in Seq(Seq(C)) /\ Said(b, i) \in Seq(Seq(C))
  BY <1>1, SaidType
<1>4. ASSUME NEW p \in Nat, WordFrom(b, p, i - 1)
      PROVE  Said(b, i) = Append(Said(b, i - 1), SubSeq(b, p, i - 1))
  BY <1>1, <1>4, SaidCloses
<1>5. ~InWord(b, i - 1) => Said(b, i) = Said(b, i - 1)
  BY <1>1, SaidStays
<1>6. CASE s.cmd = "unknown"
  <2>1. Token(b, s, i) = s
    BY <1>6 DEF Token
  <2>2. CASE b[2] = Space
    BY <2>1, <2>2, <1>6, Names DEF Loop
  <2>3. CASE b[2] # Space /\ ~InWord(b, i - 1)
    BY <2>1, <2>3, <1>5, <1>6, Names DEF Loop
  <2>4. CASE b[2] # Space /\ InWord(b, i - 1)
    <3>1. PICK p \in Nat : WordFrom(b, p, i - 1)
      BY <1>1, <2>4, WordStarted
    <3>2. Said(b, i) = Append(Said(b, i - 1), SubSeq(b, p, i - 1))
      BY <3>1, <1>4
    <3>p. SubSeq(b, p, i - 1) \in Seq(C)
      BY <3>1, <1>1, PartType DEF WordFrom
    <3>3. Said(b, i - 1) # <<>> /\ \A m \in CommandNames : Head(Said(b, i - 1)) # <<m>>
      BY <2>4, <1>6 DEF Loop
    <3>4. Head(Said(b, i)) = Head(Said(b, i - 1)) /\ Said(b, i) # <<>>
      <4>1. /\ Append(Said(b, i - 1), SubSeq(b, p, i - 1)) # <<>>
            /\ Head(Append(Said(b, i - 1), SubSeq(b, p, i - 1))) = Head(Said(b, i - 1))
        BY <3>3, <3>p, <1>3, BeginsAsBefore, Zenon
      <4>2. QED
        BY <3>2, <4>1, Zenon
    <3>5. QED
      BY <2>1, <3>3, <3>4, <1>6, Names DEF Loop
  <2>5. QED
    BY <2>2, <2>3, <2>4
<1>7. CASE s.cmd = "none"
  <2> DEFINE word == SubSeq(b, 2, i - 1)
             t == [cmd |-> CommandOf(word), last |-> i, args |-> <<>>]
  <2>1. Token(b, s, i) = t
    BY <1>1, <1>2, <1>7 DEF Token
  <2>2. (\A k \in 2..(i - 1) : b[k] # Space) /\ Said(b, i - 1) = <<>>
    BY <1>7 DEF Loop
  <2>3. CASE i = 2
    <3>1. word = <<>>
      BY <2>3, SubSeqEmpty
    <3>2. \A m : word # <<m>>
      BY <3>1
    <3>3. t.cmd = "unknown"
      BY <3>2, CommandOfWord
    <3>4. QED
      BY <2>1, <2>3, <3>3, Names DEF Loop
  <2>4. CASE i # 2
    <3>1. WordFrom(b, 2, i - 1)
      BY <1>1, <2>2, <2>4 DEF WordFrom
    <3>2. Said(b, i) = Append(<<>>, word)
      BY <2>2, <3>1, <1>4
    <3>3. Said(b, i) = <<word>>
      BY <3>2
    <3>4. Said(b, i) # <<>> /\ Head(Said(b, i)) = word /\ Tail(Said(b, i)) = <<>>
      BY <3>3
    <3>5. word[1] = b[2]
      <4>1. \A k \in 2..(i - 1) : b[k] \in C
        BY <1>1
      <4>2. 1 \in 1..(i - 1 - 2 + 1) /\ 2 + 1 - 1 = 2
        BY <1>1, <2>4
      <4>3. word[1] = b[2 + 1 - 1]
        BY <4>1, <4>2, <1>1, SubSeqProperties
      <4>4. QED
        BY <4>2, <4>3
    <3> HIDE DEF word
    <3>6. t.cmd \in CommandNames => word = <<t.cmd>> /\ b[2] = t.cmd
      BY <3>5, CommandOfWord
    <3>7. t.cmd \in CommandNames \cup {"unknown"}
      BY CommandOfWord
    <3>8. t.cmd = "unknown" => \A m \in CommandNames : word # <<m>>
      BY CommandOfWord
    <3>9. t.last \in 2..i /\ b[t.last] = Space /\ \A k \in (t.last + 1)..i : b[k] # Space
      BY <1>1
    <3>10. t.args = <<>>
      OBVIOUS
    <3> HIDE DEF t
    <3>11. QED
      BY <2>1, <3>4, <3>6, <3>7, <3>8, <3>9, <3>10, Names DEF Loop
  <2>5. QED
    BY <2>3, <2>4
<1>8. CASE s.cmd \in CommandNames
  <2>1. /\ s.last \in 2..(i - 1) /\ b[s.last] = Space
        /\ \A k \in (s.last + 1)..(i - 1) : b[k] # Space
        /\ b[2] = s.cmd /\ Said(b, i - 1) # <<>>
        /\ Head(Said(b, i - 1)) = <<s.cmd>> /\ Tail(Said(b, i - 1)) = s.args
    BY <1>8 DEF Loop
  <2> DEFINE more == IF Empty(s.last, i) THEN s.args
                     ELSE Append(s.args, SubSeq(b, s.last + 1, i - 1))
             t == [s EXCEPT !.last = i, !.args = more]
  <2>2. Token(b, s, i) = t
    BY <1>1, <1>2, <1>8, Names DEF Token
  <2>3. t.cmd = s.cmd /\ t.last = i /\ t.args = more
    BY DEF State
  <2>4. CASE s.last + 1 = i
    <3>1. ~InWord(b, i - 1) /\ more = s.args
      BY <2>1, <2>4, <1>1 DEF InWord, Empty
    <3>2. Said(b, i) = Said(b, i - 1)
      BY <3>1, <1>5
    <3> HIDE DEF t, more
    <3>3. QED
      BY <1>1, <1>8, <2>1, <2>2, <2>3, <3>1, <3>2, Names DEF Loop
  <2>5. CASE s.last + 1 # i
    <3>1. s.last + 1 \in 2..(i - 1) /\ s.last + 1 \in Nat /\ s.last + 1 - 1 = s.last
      <4>1. s.last \in 2..(i - 1)
        BY <2>1
      <4>2. QED
        BY <4>1, <2>5, <1>1
    <3>2. WordFrom(b, s.last + 1, i - 1)
      BY <2>1, <3>1 DEF WordFrom
    <3>3. more = Append(s.args, SubSeq(b, s.last + 1, i - 1))
      BY <2>5 DEF Empty
    <3>4. Said(b, i) = Append(Said(b, i - 1), SubSeq(b, s.last + 1, i - 1))
      BY <3>1, <3>2, <1>4
    <3>5. SubSeq(b, s.last + 1, i - 1) \in Seq(C)
      BY <3>1, <1>1, PartType
    <3>6. /\ Said(b, i) # <<>> /\ Head(Said(b, i)) = Head(Said(b, i - 1))
          /\ Tail(Said(b, i)) = more
      <4> DEFINE said == Said(b, i - 1)
                 part == SubSeq(b, s.last + 1, i - 1)
      <4>1. /\ Append(said, part) # <<>> /\ Head(Append(said, part)) = Head(said)
            /\ Tail(Append(said, part)) = Append(Tail(said), part)
        BY <2>1, <3>5, <1>3, BeginsAsBefore, Zenon
      <4>2. QED
        BY <2>1, <3>3, <3>4, <4>1, Zenon
    <3> HIDE DEF t, more
    <3>7. QED
      BY <1>1, <1>8, <2>1, <2>2, <2>3, <3>6, Names DEF Loop
  <2>6. QED
    BY <2>4, <2>5
<1>9. QED
  BY <1>6, <1>7, <1>8 DEF State

\* That holds behind every place but the last, and behind that if it is a space.
LEMMA LoopHolds ==
  ASSUME NEW C, NEW b \in Seq(C), b # <<>>, NEW f \in [1..Len(b) -> State(C)],
         f[1] = FirstState, \A i \in 1..Len(b) : i > 1 => f[i] = Token(b, f[i - 1], i)
  PROVE  \A i \in 1..Len(b) : i < Len(b) \/ b[i] = Space => Loop(b, f[i], i)
<1> DEFINE n == Len(b)
           P == {i \in Nat : i \in 1..n /\ (i < n \/ b[i] = Space) => Loop(b, f[i], i)}
<1>1. n \in Nat
  OBVIOUS
<1>2. 1 \in P
  <2>1. Ends(b, 1) = {} /\ \A k \in 2..1 : FALSE
    BY DEF Ends
  <2>2. Ascending(Ends(b, 1)) = <<>>
    BY <2>1, AscendingEmpty
  <2>3. Said(b, 1) = <<>>
    <3>1. Said(b, 1) = [k \in 1..Len(Ascending(Ends(b, 1))) |->
                          SubSeq(b, Ascending(Starts(b, 1))[k], Ascending(Ends(b, 1))[k])]
      BY Zenon DEF Said
    <3>2. Len(Ascending(Ends(b, 1))) = 0
      BY <2>2
    <3>3. QED
      BY <3>1, <3>2
  <2>4. Loop(b, FirstState, 1)
    BY <2>1, <2>3, Names DEF Loop, FirstState
  <2>5. QED
    BY <2>4
<1>3. ASSUME NEW i \in 1..n, i > 1, i - 1 \in P
      PROVE  i \in P
  <2>1. /\ i \in 2..Len(b) /\ i - 1 \in 1..n /\ i - 1 < n /\ i \in Nat
        /\ (i < n => i # Len(b))
    BY <1>3, <1>1
  <2>2. Loop(b, f[i - 1], i - 1)
    BY <1>3, <2>1
  <2>3. f[i - 1] \in State(C) /\ f[i] = Token(b, f[i - 1], i)
    BY <1>3, <2>1
  <2>4. CASE b[i] = Space
    <3>1. Loop(b, f[i], i)
      BY <2>1, <2>2, <2>3, <2>4, LoopAtSpace
    <3>2. QED
      BY <3>1, <2>1
  <2>5. CASE b[i] # Space /\ i < n
    <3>1. Loop(b, f[i], i)
      BY <2>1, <2>2, <2>3, <2>5, LoopInWord
    <3>2. QED
      BY <3>1, <2>1
  <2>6. CASE b[i] # Space /\ ~(i < n)
    BY <2>1, <2>6
  <2>7. QED
    BY <2>4, <2>5, <2>6
<1>4. \A i \in 1..n : i \in P
  <2> HIDE DEF P
  <2> QED BY <1>1, <1>2, <1>3, InductionTo
<1>5. QED
  BY <1>4

\* Words are lines.
LEMMA WordsType ==
  ASSUME NEW C, NEW b \in Seq(C), Space \in C, Len(b) >= 1
  PROVE  Words(b) \in Seq(Seq(C))
<1>1. /\ Append(b, Space) \in Seq(C) /\ Len(Append(b, Space)) = Len(b) + 1
  BY AppendProperties
<1>2. Len(b) + 1 \in 1..Len(Append(b, Space))
  BY <1>1
<1>3. QED
  BY <1>1, <1>2, WordsSaid, SaidType

\* The line whose words count.
Heard(b) == IF ShortLastArgument(b) THEN Front(b) ELSE b

\* In the end, the first word is the command and the others its arguments.
InTheEnd(b, s) ==
  LET words == Words(Heard(b)) IN
  /\ s.cmd \in CommandNames \cup {"unknown"}
  /\ s.cmd \in CommandNames =>
       b[2] = s.cmd /\ words # <<>> /\ Head(words) = <<s.cmd>> /\ Tail(words) = s.args
  /\ s.cmd = "unknown" =>
       \/ b[2] = Space
       \/ words # <<>> /\ \A m \in CommandNames : Head(words) # <<m>>

\* No command is named like a space.
LEMMA SpaceIsNoName == Space \notin CommandNames
  BY Zenon DEF Space, CommandNames, ArgCount

\* The last turn, where no space ends the last word.
LEMMA LastTurn ==
  ASSUME NEW C, NEW b \in Seq(C), Space \in C, Len(b) >= 2, b[1] # Space,
         NEW r \in State(C), Loop(b, r, Len(b) - 1), b[Len(b)] # Space
  PROVE  InTheEnd(b, Token(b, r, Len(b)))
<1> DEFINE n == Len(b)
<1>1. /\ n \in Nat /\ n >= 2 /\ n - 1 \in Nat /\ n - 1 \in 1..n /\ n \in 1..n
      /\ InWord(b, n) /\ TokenEnds(b, n)
  BY DEF InWord, TokenEnds
<1>2. \A x : Text(b, x, n) = SubSeq(b, x, n)
  BY DEF Text
<1>3. Said(b, n) = Said(b, n - 1)
  BY <1>1, SaidStays
<1>4. Said(b, n - 1) \in Seq(Seq(C))
  BY <1>1, SaidType
<1>5. ASSUME NEW p \in Nat, WordFrom(b, p, n)
      PROVE  /\ Words(b) = Append(Said(b, n - 1), SubSeq(b, p, n))
             /\ SubSeq(b, p, n) \in Seq(C)
  <2>1. Words(b) = Append(Said(b, n), SubSeq(b, p, n))
    BY <1>5, WordsInWord
  <2>2. SubSeq(b, p, n) \in Seq(C)
    BY <1>1, <1>5, PartType DEF WordFrom
  <2>3. QED
    BY <1>3, <2>1, <2>2
<1>6. /\ ShortLastArgument(b) <=> n > 3 /\ b[n - 1] = Space
      /\ ShortLastArgument(b) => Words(Heard(b)) = Said(b, n - 1)
      /\ ~ShortLastArgument(b) => Words(Heard(b)) = Words(b)
  <2>1. ShortLastArgument(b) <=> n > 3 /\ b[n - 1] = Space
    BY DEF ShortLastArgument, Last
  <2>2. ASSUME ShortLastArgument(b)
        PROVE  Words(Heard(b)) = Said(b, n - 1)
    <3>1. n >= 3 /\ b[n - 1] = Space
      BY <1>1, <2>1, <2>2
    <3>2. Words(Front(b)) = Said(b, n - 1)
      BY <3>1, WordsOfFront
    <3>3. QED
      BY <2>2, <3>2 DEF Heard
  <2>3. ~ShortLastArgument(b) => Words(Heard(b)) = Words(b)
    BY DEF Heard
  <2>4. QED
    BY <2>1, <2>2, <2>3
<1>7. CASE r.cmd = "unknown"
  <2>1. Token(b, r, n) = r
    BY <1>7 DEF Token
  <2>2. CASE b[2] = Space
    BY <2>1, <2>2, <1>7, Names DEF InTheEnd
  <2>3. CASE b[2] # Space
    <3>1. Said(b, n - 1) # <<>> /\ \A m \in CommandNames : Head(Said(b, n - 1)) # <<m>>
      BY <1>7, <2>3 DEF Loop
    <3>2. CASE ShortLastArgument(b)
      BY <2>1, <3>1, <3>2, <1>6, <1>7, Names DEF InTheEnd
    <3>3. CASE ~ShortLastArgument(b)
      <4>1. PICK p \in Nat : WordFrom(b, p, n)
        BY <1>1, WordStarted
      <4> DEFINE said == Said(b, n - 1)
                 part == SubSeq(b, p, n)
      <4>2. Words(b) = Append(said, part) /\ part \in Seq(C)
        BY <4>1, <1>5
      <4>3. Append(said, part) # <<>> /\ Head(Append(said, part)) = Head(said)
        BY <3>1, <4>2, <1>4, BeginsAsBefore, Zenon
      <4>4. Words(b) # <<>> /\ Head(Words(b)) = Head(said)
        BY <4>2, <4>3, Zenon
      <4>5. QED
        BY <2>1, <3>1, <3>3, <4>4, <1>6, <1>7, Names DEF InTheEnd
    <3>4. QED
      BY <3>2, <3>3
  <2>4. QED
    BY <2>2, <2>3
<1>8. CASE r.cmd = "none"
  <2> DEFINE word == SubSeq(b, 2, n)
             t == [cmd |-> CommandOf(word), last |-> n, args |-> <<>>]
  <2>1. Token(b, r, n) = t
    BY <1>1, <1>2, <1>8 DEF Token
  <2>2. (\A k \in 2..(n - 1) : b[k] # Space) /\ Said(b, n - 1) = <<>>
    BY <1>8 DEF Loop
  <2>3. WordFrom(b, 2, n)
    <3>1. \A k \in 2..n : k = n \/ k \in 2..(n - 1)
      BY <1>1
    <3>2. QED
      BY <1>1, <2>2, <3>1 DEF WordFrom
  <2>4. Words(b) = Append(<<>>, word)
    BY <2>2, <2>3, <1>5
  <2>5. Words(b) # <<>> /\ Head(Words(b)) = word /\ Tail(Words(b)) = <<>>
    BY <2>4
  <2>6. ~ShortLastArgument(b)
    <3>1. n > 3 => n - 1 \in 2..(n - 1)
      BY <1>1
    <3>2. QED
      BY <3>1, <2>2, <1>6
  <2>7. word[1] = b[2]
    <3>1. \A k \in 2..n : b[k] \in C
      BY <1>1
    <3>2. 1 \in 1..(n - 2 + 1) /\ 2 + 1 - 1 = 2
      BY <1>1
    <3>3. word[1] = b[2 + 1 - 1]
      BY <3>1, <3>2, <1>1, SubSeqProperties
    <3>4. QED
      BY <3>2, <3>3
  <2> HIDE DEF word
  <2>8. /\ t.cmd \in CommandNames => word = <<t.cmd>> /\ b[2] = t.cmd
        /\ t.cmd \in CommandNames \cup {"unknown"} /\ t.args = <<>>
        /\ t.cmd = "unknown" => \A m \in CommandNames : word # <<m>>
    BY <2>7, CommandOfWord
  <2> HIDE DEF t
  <2>9. QED
    BY <2>1, <2>5, <2>6, <2>8, <1>6 DEF InTheEnd
<1>9. CASE r.cmd \in CommandNames
  <2>1. r.last \in 2..(n - 1) /\ b[r.last] = Space
    BY <1>9 DEF Loop
  <2>2. \A k \in (r.last + 1)..(n - 1) : b[k] # Space
    BY <1>9 DEF Loop
  <2>3. /\ b[2] = r.cmd /\ Said(b, n - 1) # <<>>
        /\ Head(Said(b, n - 1)) = <<r.cmd>> /\ Tail(Said(b, n - 1)) = r.args
    BY <1>9 DEF Loop
  <2>4. r.last # 2
    BY <2>1, <2>3, <1>9, SpaceIsNoName
  <2> DEFINE more == IF Empty(r.last, n) THEN r.args
                     ELSE Append(r.args, SubSeq(b, r.last + 1, n))
             t == [r EXCEPT !.last = n, !.args = more]
  <2>5. Token(b, r, n) = t
    BY <1>1, <1>2, <1>9, Names DEF Token
  <2>6. t.cmd = r.cmd /\ t.args = more
    BY DEF State
  <2>7. CASE r.last + 1 = n
    <3>1. n > 3 /\ b[n - 1] = Space
      BY <1>1, <2>1, <2>4, <2>7
    <3>2. more = r.args
      BY <2>7 DEF Empty
    <3> HIDE DEF t, more
    <3>3. QED
      BY <1>6, <1>9, <2>3, <2>5, <2>6, <3>1, <3>2, Names DEF InTheEnd
  <2>8. CASE r.last + 1 # n
    <3>1. /\ r.last + 1 \in 2..n /\ r.last + 1 \in Nat /\ r.last + 1 - 1 = r.last
          /\ n - 1 \in (r.last + 1)..(n - 1)
          /\ \A k \in (r.last + 1)..n : k = n \/ k \in (r.last + 1)..(n - 1)
      BY <1>1, <2>1, <2>8
    <3>2. WordFrom(b, r.last + 1, n)
      BY <2>1, <2>2, <3>1 DEF WordFrom
    <3>3. ~ShortLastArgument(b)
      BY <2>2, <3>1, <1>6
    <3>4. more = Append(r.args, SubSeq(b, r.last + 1, n))
      BY <2>8 DEF Empty
    <3> DEFINE said == Said(b, n - 1)
               part == SubSeq(b, r.last + 1, n)
    <3>5. Words(b) = Append(said, part) /\ part \in Seq(C)
      BY <3>1, <3>2, <1>5
    <3>6. /\ Append(said, part) # <<>> /\ Head(Append(said, part)) = Head(said)
          /\ Tail(Append(said, part)) = Append(Tail(said), part)
      BY <2>3, <3>5, <1>4, BeginsAsBefore, Zenon
    <3>7. Words(b) # <<>> /\ Head(Words(b)) = <<r.cmd>> /\ Tail(Words(b)) = more
      BY <2>3, <3>4, <3>5, <3>6, Zenon
    <3> HIDE DEF t, more
    <3>8. QED
      BY <1>6, <1>9, <2>3, <2>5, <2>6, <3>3, <3>7, Names DEF InTheEnd
  <2>9. QED
    BY <2>7, <2>8
<1>10. QED
  BY <1>7, <1>8, <1>9 DEF State

\* What the loop has made of a line are its words.
LEMMA TokensAreWords ==
  ASSUME NEW C, NEW b \in Seq(C), Space \in C, Len(b) >= 2, b[1] # Space
  PROVE  InTheEnd(b, Tokens(b)) /\ Tokens(b) \in State(C)
<1> DEFINE n == Len(b)
<1>1. n \in Nat /\ n >= 2 /\ n > 1 /\ n \in 1..n /\ n \in 2..n /\ n - 1 \in 1..n /\ n - 1 < n /\ b # <<>>
  OBVIOUS
<1>2. PICK f \in [1..n -> State(C)] :
             /\ f[1] = FirstState
             /\ \A i \in 1..n : i > 1 => f[i] = Token(b, f[i - 1], i)
             /\ Tokens(b) = f[n]
  BY <1>1, ScanSteps, Zenon
<1>3. \A i \in 1..n : i < n \/ b[i] = Space => Loop(b, f[i], i)
  BY <1>1, <1>2, LoopHolds, Zenon
<1>4. f[n] \in State(C) /\ f[n - 1] \in State(C) /\ f[n] = Token(b, f[n - 1], n)
  BY <1>1, <1>2
<1>5. CASE b[n] = Space
  <2>1. Loop(b, f[n], n)
    BY <1>1, <1>3, <1>5
  <2>2. Words(b) = Said(b, n) /\ Heard(b) = b
    BY <1>1, <1>5, WordsAtSpace DEF Heard, ShortLastArgument, Last
  <2>3. f[n].cmd # "none"
    BY <1>1, <1>5, <2>1 DEF Loop
  <2>4. f[n].cmd \in CommandNames \cup {"unknown"}
    BY <2>3, <1>4 DEF State
  <2>5. QED
    BY <1>2, <1>4, <2>1, <2>2, <2>4 DEF Loop, InTheEnd
<1>6. CASE b[n] # Space
  <2>1. Loop(b, f[n - 1], n - 1)
    BY <1>1, <1>3
  <2>2. InTheEnd(b, Token(b, f[n - 1], n))
    BY <1>4, <1>6, <2>1, LastTurn
  <2>3. QED
    BY <1>2, <1>4, <2>2
<1>7. QED
  BY <1>5, <1>6

\* So commands are parsed as documented.
LEMMA CommandAsDocumented ==
  ASSUME NEW C, NEW b \in Seq(C), Space \in C, Len(b) >= 2, b[1] # Space
  PROVE  Command(b) = DocumentedCommand(Heard(b))
<1> DEFINE s == Tokens(b)
           words == Words(Heard(b))
<1>1. InTheEnd(b, s) /\ s \in State(C)
  BY TokensAreWords
<1>2. Heard(b)[2] = b[2] /\ Heard(b) \in Seq(C) /\ Len(Heard(b)) >= 1
  <2>1. CASE ShortLastArgument(b)
    <3>1. Len(b) > 3 /\ Heard(b) = SubSeq(b, 1, Len(b) - 1)
      BY <2>1 DEF ShortLastArgument, Heard, Front
    <3>2. 1 \in Int /\ Len(b) - 1 \in Int /\ \A k \in 1..(Len(b) - 1) : b[k] \in C
      OBVIOUS
    <3>3. /\ Heard(b) \in Seq(C) /\ Len(Heard(b)) = Len(b) - 1 - 1 + 1
          /\ \A k \in 1..(Len(b) - 1 - 1 + 1) : Heard(b)[k] = b[1 + k - 1]
      BY <3>1, <3>2, SubSeqProperties
    <3>4. QED
      BY <3>1, <3>3
  <2>2. CASE ~ShortLastArgument(b)
    BY <2>2 DEF Heard
  <2>3. QED
    BY <2>1, <2>2
<1>3. words \in Seq(Seq(C))
  BY <1>2, WordsType
<1> HIDE DEF s, words
<1>4. /\ s.cmd \in CommandNames \cup {"unknown"}
      /\ s.cmd \in CommandNames =>
           b[2] = s.cmd /\ words # <<>> /\ Head(words) = <<s.cmd>> /\ Tail(words) = s.args
      /\ s.cmd = "unknown" =>
           \/ b[2] = Space
           \/ words # <<>> /\ \A m \in CommandNames : Head(words) # <<m>>
  BY <1>1 DEF InTheEnd, words
<1> DEFINE known == b[2] # Space /\ \E m \in CommandNames :
                                     words[1] = <<m>> /\ Len(words) = ArgCount[m] + 1
<1>5. DocumentedCommand(Heard(b)) =
        IF known THEN [kind |-> b[2], args |-> Tail(words)] ELSE Invalid
  BY <1>2, Zenon DEF DocumentedCommand, words
<1>6. Command(b) =
        IF s.cmd # "unknown" /\ Len(s.args) = ArgCount[s.cmd]
        THEN [kind |-> s.cmd, args |-> s.args] ELSE Invalid
  <2>1. s.cmd # "none"
    BY <1>4, Names
  <2>2. QED
    BY <2>1, Zenon DEF Command, s
<1>7. CASE s.cmd = "unknown"
  <2>1. ~known
    <3>1. words # <<>> => Head(words) = words[1]
      BY <1>3
    <3>2. QED
      BY <1>4, <1>7, <3>1
  <2>2. QED
    BY <1>5, <1>6, <1>7, <2>1
<1>8. CASE s.cmd \in CommandNames
  <2>1. words[1] = <<s.cmd>> /\ Len(words) \in Nat /\ Len(s.args) = Len(words) - 1
    BY <1>3, <1>4, <1>8, HeadTailProperties
  <2>2. \A m \in CommandNames : ArgCount[m] \in Nat
    BY DEF CommandNames, ArgCount
  <2>3. known <=> Len(s.args) = ArgCount[s.cmd]
    <3>1. \A m : words[1] = <<m>> => m = s.cmd
      BY <2>1
    <3>2. b[2] # Space
      BY <1>4, <1>8, SpaceIsNoName
    <3>3. Len(words) = ArgCount[s.cmd] + 1 <=> Len(s.args) = ArgCount[s.cmd]
      BY <1>8, <2>1, <2>2
    <3>4. QED
      BY <1>8, <2>1, <3>1, <3>2, <3>3
  <2>4. s.cmd # "unknown" /\ b[2] = s.cmd /\ Tail(words) = s.args
    BY <1>4, <1>8, Names
  <2> HIDE DEF known
  <2>5. CASE known
    BY <1>5, <1>6, <2>3, <2>4, <2>5, Zenon
  <2>6. CASE ~known
    BY <1>5, <1>6, <2>3, <2>6, Zenon
  <2>7. QED
    BY <2>5, <2>6
<1>9. QED
  BY <1>4, <1>7, <1>8

-----------------------------------------------------------------------------
(* What a line is parsed as.                                               *)

Valid    == Chars \ {"\r", "bad"}
Argument == Seq(Valid \ {Space}) \ {<<>>}

\* A part that is not empty, without spaces.
LEMMA PartIsArgument ==
  ASSUME NEW b \in Seq(Valid), NEW x \in Nat, x >= 1, NEW y \in Nat, x =< y, y =< Len(b),
         \A k \in x..y : b[k] # Space
  PROVE  SubSeq(b, x, y) \in Argument
<1>1. \A k \in x..y : b[k] \in Valid \ {Space}
  OBVIOUS
<1>2. x \in Int /\ y \in Int
  OBVIOUS
<1>3. /\ SubSeq(b, x, y) \in Seq(Valid \ {Space})
      /\ Len(SubSeq(b, x, y)) = y - x + 1
  BY <1>1, <1>2, SubSeqProperties
<1>4. SubSeq(b, x, y) # <<>>
  BY <1>3
<1>5. QED
  BY <1>3, <1>4 DEF Argument

\* A turn adds such a part to the arguments, or nothing.
LEMMA ArgumentsStep ==
  ASSUME NEW b \in Seq(Valid), NEW i \in 2..Len(b), NEW s \in State(Valid),
         Loop(b, s, i - 1), s.args \in Seq(Argument)
  PROVE  Token(b, s, i).args \in Seq(Argument)
<1>1. CASE ~TokenEnds(b, i) \/ s.cmd = "unknown"
  BY <1>1 DEF Token
<1>2. CASE ~(~TokenEnds(b, i) \/ s.cmd = "unknown") /\ s.cmd = "none"
  <2>1. Token(b, s, i) = [cmd |-> CommandOf(Text(b, 2, i)), last |-> i, args |-> <<>>]
    BY <1>2 DEF Token
  <2>2. QED
    BY <2>1
<1>3. CASE ~(~TokenEnds(b, i) \/ s.cmd = "unknown") /\ s.cmd # "none"
  <2> DEFINE text == Text(b, s.last + 1, i)
             more == IF Empty(s.last, i) THEN s.args ELSE Append(s.args, text)
  <2>1. s.cmd \in CommandNames
    BY <1>3 DEF State
  <2>2. /\ s.last \in 2..(i - 1) /\ \A k \in (s.last + 1)..(i - 1) : b[k] # Space
    BY <2>1 DEF Loop
  <2>3. Token(b, s, i) = [s EXCEPT !.last = i, !.args = more]
    BY <1>3 DEF Token
  <2>4. ASSUME ~Empty(s.last, i)
        PROVE  text \in Argument
    <3>1. /\ s.last + 1 \in Nat /\ s.last + 1 >= 1 /\ s.last + 1 =< i - 1 /\ s.last + 1 =< i
          /\ i \in Nat /\ i - 1 \in Nat /\ i =< Len(b) /\ i - 1 =< Len(b)
          /\ \A k \in (s.last + 1)..i : k = i \/ k \in (s.last + 1)..(i - 1)
      BY <2>2, <2>4 DEF Empty
    <3>2. CASE b[i] = Space
      <4>1. text = SubSeq(b, s.last + 1, i - 1)
        BY <3>2 DEF Text
      <4>2. QED
        BY <2>2, <3>1, <4>1, PartIsArgument
    <3>3. CASE b[i] # Space
      <4>1. text = SubSeq(b, s.last + 1, i)
        BY <3>3 DEF Text
      <4>2. \A k \in (s.last + 1)..i : b[k] # Space
        BY <2>2, <3>1, <3>3
      <4>3. QED
        BY <3>1, <4>1, <4>2, PartIsArgument
    <3>4. QED
      BY <3>2, <3>3
  <2> HIDE DEF text
  <2>5. more \in Seq(Argument)
    BY <2>4
  <2> HIDE DEF more
  <2>6. QED
    BY <2>3, <2>5 DEF State
<1>4. QED
  BY <1>1, <1>2, <1>3

\* All arguments are such parts.
LEMMA ArgumentsType ==
  ASSUME NEW b \in Seq(Valid), Len(b) >= 1
  PROVE  Tokens(b).args \in Seq(Argument) /\ Tokens(b) \in State(Valid)
<1> DEFINE n == Len(b)
<1>1. n \in Nat /\ n \in 1..n /\ b # <<>>
  OBVIOUS
<1>2. PICK f \in [1..n -> State(Valid)] :
             /\ f[1] = FirstState
             /\ \A i \in 1..n : i > 1 => f[i] = Token(b, f[i - 1], i)
             /\ Tokens(b) = f[n]
  BY <1>1, ScanSteps, Zenon
<1>3. \A i \in 1..n : i < n \/ b[i] = Space => Loop(b, f[i], i)
  BY <1>1, <1>2, LoopHolds, Zenon
<1> DEFINE P == {i \in Nat : i \in 1..n => f[i].args \in Seq(Argument)}
<1>4. 1 \in P
  <2>1. f[1].args = <<>>
    BY <1>2 DEF FirstState
  <2>2. <<>> \in Seq(Argument)
    OBVIOUS
  <2>3. f[1].args \in Seq(Argument) /\ 1 \in Nat
    BY <2>1, <2>2
  <2>4. QED
    BY <2>3
<1>5. ASSUME NEW i \in 1..n, i > 1, i - 1 \in P
      PROVE  i \in P
  <2>1. i \in 2..Len(b) /\ i - 1 \in 1..n /\ i - 1 < n /\ i \in Nat
    BY <1>1, <1>5
  <2>2. Loop(b, f[i - 1], i - 1) /\ f[i - 1] \in State(Valid) /\ f[i - 1].args \in Seq(Argument)
    BY <1>3, <1>5, <2>1
  <2>3. f[i] = Token(b, f[i - 1], i)
    BY <1>2, <1>5
  <2>4. f[i].args \in Seq(Argument)
    BY <2>1, <2>2, <2>3, ArgumentsStep
  <2>5. QED
    BY <2>1, <2>4
<1>6. \A i \in 1..n : i \in P
  <2> HIDE DEF P
  <2> QED BY <1>1, <1>4, <1>5, InductionTo
<1>7. QED
  BY <1>1, <1>2, <1>6

\* Without its carriage return, a line is one of the same characters.
LEMMA StrippedType ==
  ASSUME NEW l \in Seq(Chars)
  PROVE  Stripped(l) \in Seq(Chars)
<1>1. CASE l # <<>> /\ Last(l) = "\r"
  <2>1. /\ Stripped(l) = SubSeq(l, 1, Len(l) - 1) /\ Len(l) - 1 \in Nat
        /\ 1 \in Nat /\ 1 >= 1 /\ Len(l) - 1 =< Len(l)
    BY <1>1 DEF Stripped, Front
  <2>2. QED
    BY <2>1, PartType
<1>2. CASE ~(l # <<>> /\ Last(l) = "\r")
  <2>1. Stripped(l) = l
    BY <1>2, Zenon DEF Stripped
  <2>2. QED
    BY <2>1
<1>3. QED
  BY <1>1, <1>2

\* The kinds of messages are no commands.
LEMMA Kinds ==
  /\ \A k \in CommandNames : k \notin {"unparsed", "invalid", "crash", "direct", "group", "global"}
  /\ {"unparsed", "invalid", "crash", "direct", "group", "global"} \cap CommandNames = {}
  BY DEF CommandNames, ArgCount

\* What the name's end is: the first space, and the only such place.
LEMMA NameEndIs ==
  ASSUME NEW b \in Seq(Chars), NEW i \in NameEnd(b)
  PROVE  /\ i \in 2..(Len(b) - 1) /\ b[i] = Space /\ \A j \in 2..(i - 1) : b[j] # Space
         /\ NameEnd(b) = {i}
<1>1. i \in 2..(Len(b) - 1) /\ b[i] = Space /\ \A j \in 2..(i - 1) : b[j] # Space
  BY DEF NameEnd
<1>2. ASSUME NEW k \in NameEnd(b)
      PROVE  k = i
  <2>1. k \in 2..(Len(b) - 1) /\ b[k] = Space /\ \A j \in 2..(k - 1) : b[j] # Space
    BY DEF NameEnd
  <2>2. CASE k < i
    <3>1. k \in 2..(i - 1)
      BY <1>1, <2>1, <2>2
    <3>2. QED
      BY <1>1, <2>1, <3>1
  <2>3. CASE i < k
    <3>1. i \in 2..(k - 1)
      BY <1>1, <2>1, <2>3
    <3>2. QED
      BY <1>1, <2>1, <3>1
  <2>4. QED
    BY <1>1, <2>1, <2>2, <2>3
<1>3. QED
  BY <1>1, <1>2

\* What an addressed line is parsed as.
LEMMA AddressedIs ==
  ASSUME NEW b \in Seq(Valid), NameEnd(b) \notin {{}, {2}}
  PROVE  \E i \in 3..(Len(b) - 1) :
           /\ b[i] = Space /\ \A j \in 2..(i - 1) : b[j] # Space
           /\ Addressed(b) = [kind |-> IF b[1] = "@" THEN "direct" ELSE "group",
                              to |-> SubSeq(b, 2, i - 1), content |-> SubSeq(b, i + 1, Len(b))]
           /\ SubSeq(b, 2, i - 1) \in Argument
           /\ SubSeq(b, i + 1, Len(b)) \in Seq(Valid) \ {<<>>}
<1> DEFINE i == CHOOSE k \in NameEnd(b) : TRUE
<1>1. b \in Seq(Chars)
  BY SeqMonotonic DEF Valid
<1>2. i \in NameEnd(b)
  BY Zenon
<1>3. Addressed(b) = [kind |-> IF b[1] = "@" THEN "direct" ELSE "group",
                      to |-> SubSeq(b, 2, i - 1), content |-> SubSeq(b, i + 1, Len(b))]
  BY Zenon DEF Addressed
<1> HIDE DEF i
<1>4. /\ i \in 2..(Len(b) - 1) /\ b[i] = Space /\ \A j \in 2..(i - 1) : b[j] # Space
      /\ NameEnd(b) = {i}
  BY <1>1, <1>2, NameEndIs
<1>5. i # 2
  BY <1>4
<1>6. /\ i \in 3..(Len(b) - 1) /\ i - 1 \in Nat /\ 2 \in Nat /\ 2 =< i - 1 /\ i - 1 =< Len(b)
      /\ 2 >= 1 /\ i + 1 \in Nat /\ i + 1 >= 1 /\ Len(b) \in Nat /\ i + 1 =< Len(b)
  BY <1>4, <1>5
<1>7. SubSeq(b, 2, i - 1) \in Argument
  BY <1>4, <1>6, PartIsArgument
<1>8. SubSeq(b, i + 1, Len(b)) \in Seq(Valid) /\ SubSeq(b, i + 1, Len(b)) # <<>>
  <2>1. SubSeq(b, i + 1, Len(b)) \in Seq(Valid)
    BY <1>6, PartType
  <2>2. \A k \in (i + 1)..Len(b) : b[k] \in Valid
    BY <1>6
  <2>3. Len(SubSeq(b, i + 1, Len(b))) = Len(b) - (i + 1) + 1
    BY <1>6, <2>2, SubSeqProperties
  <2>4. Len(b) - (i + 1) + 1 # 0 /\ Len(<<>>) = 0
    BY <1>6
  <2>5. QED
    BY <2>1, <2>3, <2>4, Zenon
<1>9. QED
  BY <1>3, <1>4, <1>6, <1>7, <1>8

\* What a line can be parsed as.
Result(p) ==
  \/ p = Invalid
  \/ p = Crash
  \/ p.kind \in CommandNames /\ p.args \in Seq(Argument)
  \/ p.kind = "global" /\ p.content \in Seq(Valid) \ {<<>>}
  \/ /\ p.kind \in {"direct", "group"}
     /\ p.to \in Argument /\ p.content \in Seq(Valid) \ {<<>>}

\* There is no other result: parse returns one of them, for every line.
LEMMA ParseResult ==
  ASSUME NEW l \in Seq(Chars)
  PROVE  Result(parse(l))
<1> DEFINE b == Stripped(l)
<1>1. b \in Seq(Chars)
  BY StrippedType
<1> HIDE DEF b
<1>2. CASE b = <<>> \/ \E i \in DOMAIN b : ~is_valid_char(b[i])
  <2>1. parse(l) = Invalid
    BY <1>2, Zenon DEF parse, b
  <2>2. QED
    BY <2>1 DEF Result
<1>3. CASE ~(b = <<>> \/ \E i \in DOMAIN b : ~is_valid_char(b[i]))
  <2>1. b # <<>> /\ \A i \in DOMAIN b : b[i] \notin {"\r", "bad"}
    BY <1>3 DEF is_valid_char
  <2>2. b \in Seq(Valid) /\ Len(b) >= 1 /\ Len(b) \in Nat
    BY <1>1, <2>1 DEF Valid
  <2>3. parse(l) = IF b[1] = "/" THEN Command(b)
                   ELSE IF b[1] \in {"@", "#"} THEN Addressed(b)
                   ELSE [kind |-> "global", content |-> b]
    BY <1>3, Zenon DEF parse, b
  <2>4. CASE b[1] = "/"
    <3> DEFINE s == Tokens(b)
    <3>1. s.args \in Seq(Argument) /\ s.cmd \in CommandNames \cup {"none", "unknown"}
      BY <2>2, ArgumentsType DEF State
    <3>2. Command(b) = IF s.cmd = "none" THEN Crash
                       ELSE IF s.cmd # "unknown" /\ Len(s.args) = ArgCount[s.cmd]
                       THEN [kind |-> s.cmd, args |-> s.args] ELSE Invalid
      BY Zenon DEF Command
    <3> HIDE DEF s
    <3>3. CASE s.cmd \in CommandNames /\ Len(s.args) = ArgCount[s.cmd]
      <4>1. parse(l) = [kind |-> s.cmd, args |-> s.args]
        BY <2>3, <2>4, <3>2, <3>3, Names
      <4>2. QED
        BY <3>1, <3>3, <4>1 DEF Result
    <3>4. CASE ~(s.cmd \in CommandNames /\ Len(s.args) = ArgCount[s.cmd])
      <4>1. parse(l) = Crash \/ parse(l) = Invalid
        BY <2>3, <2>4, <3>1, <3>2, <3>4, Names
      <4>2. QED
        BY <4>1 DEF Result
    <3>5. QED
      BY <3>3, <3>4
  <2>5. CASE b[1] \in {"@", "#"}
    <3>1. parse(l) = Addressed(b)
      BY <2>3, <2>5
    <3>2. CASE NameEnd(b) \in {{}, {2}}
      <4>1. Addressed(b) = Invalid
        BY <3>2, Zenon DEF Addressed
      <4>2. QED
        BY <3>1, <4>1 DEF Result
    <3>3. CASE NameEnd(b) \notin {{}, {2}}
      <4>1. PICK i \in 3..(Len(b) - 1) :
              /\ Addressed(b) = [kind |-> IF b[1] = "@" THEN "direct" ELSE "group",
                                 to |-> SubSeq(b, 2, i - 1), content |-> SubSeq(b, i + 1, Len(b))]
              /\ SubSeq(b, 2, i - 1) \in Argument
              /\ SubSeq(b, i + 1, Len(b)) \in Seq(Valid) \ {<<>>}
        BY <2>2, <3>3, AddressedIs
      <4> DEFINE name == SubSeq(b, 2, i - 1)
                 said == SubSeq(b, i + 1, Len(b))
      <4>2. name \in Argument /\ said \in Seq(Valid) \ {<<>>}
        BY <4>1
      <4>3. parse(l) = [kind |-> IF b[1] = "@" THEN "direct" ELSE "group", to |-> name, content |-> said]
        BY <3>1, <4>1
      <4> HIDE DEF name, said
      <4>4. QED
        BY <4>2, <4>3 DEF Result
    <3>4. QED
      BY <3>2, <3>3
  <2>6. CASE b[1] \notin {"/", "@", "#"}
    <3>1. parse(l) = [kind |-> "global", content |-> b]
      BY <2>3, <2>6
    <3>2. QED
      BY <2>1, <2>2, <3>1 DEF Result
  <2>7. QED
    BY <2>4, <2>5, <2>6
<1>4. QED
  BY <1>2, <1>3

\* Messages are parsed as documented.
LEMMA MessageAsDocumented ==
  ASSUME NEW b \in Seq(Valid), b # <<>>, b[1] \in {"@", "#"}
  PROVE  IF DocumentedMessage(b) = {} THEN Addressed(b) = Invalid
                                      ELSE Addressed(b) \in DocumentedMessage(b)
<1> DEFINE Split(i) == [kind |-> IF b[1] = "@" THEN "direct" ELSE "group",
                        to |-> SubSeq(b, 2, i - 1), content |-> SubSeq(b, i + 1, Len(b))]
<1>1. b \in Seq(Chars) /\ Len(b) \in Nat /\ DOMAIN b = 1..Len(b)
  BY SeqMonotonic DEF Valid
<1>2. CASE NameEnd(b) \in {{}, {2}}
  <2>1. Addressed(b) = Invalid
    BY <1>2, Zenon DEF Addressed
  <2>2. ASSUME NEW m \in DocumentedMessage(b)
        PROVE  FALSE
    <3>1. PICK i \in DOMAIN b : b[i] = Space /\ m = Split(i)
      BY Zenon DEF DocumentedMessage
    <3>2. m.to # <<>> /\ m.content # <<>> /\ \A j \in DOMAIN m.to : m.to[j] # Space
      BY Zenon DEF DocumentedMessage
    <3>3. m.to = SubSeq(b, 2, i - 1) /\ m.content = SubSeq(b, i + 1, Len(b))
      BY <3>1
    <3>4. i \in Nat /\ i >= 1 /\ i =< Len(b) /\ i - 1 \in Int /\ i + 1 \in Int /\ Len(b) \in Int /\ 2 \in Int
      BY <1>1
    <3>5. ~(i - 1 < 2)
      BY <3>2, <3>3, <3>4, SubSeqEmpty
    <3>6. ~(Len(b) < i + 1)
      BY <3>2, <3>3, <3>4, SubSeqEmpty
    <3>7. i \in 2..(Len(b) - 1) /\ i # 2 /\ i > 2
      BY <1>1, <3>4, <3>5, <3>6
    <3>8. ASSUME NEW j \in 2..(i - 1)
          PROVE  b[j] # Space
      <4>1. \A k \in 2..(i - 1) : b[k] \in Valid
        BY <3>7, <1>1
      <4>2. /\ SubSeq(b, 2, i - 1) \in Seq(Valid)
            /\ Len(SubSeq(b, 2, i - 1)) = i - 1 - 2 + 1
            /\ \A k \in 1..(i - 1 - 2 + 1) : SubSeq(b, 2, i - 1)[k] = b[2 + k - 1]
        BY <3>4, <3>7, <4>1, SubSeqProperties
      <4>3. j - 1 \in 1..(i - 1 - 2 + 1) /\ 2 + (j - 1) - 1 = j
        BY <3>7
      <4>4. DOMAIN SubSeq(b, 2, i - 1) = 1..(i - 1 - 2 + 1)
        BY <4>2
      <4>5. m.to[j - 1] = b[2 + (j - 1) - 1] /\ m.to[j - 1] # Space
        BY <3>2, <3>3, <4>2, <4>3, <4>4
      <4>6. QED
        BY <4>3, <4>5
    <3>9. i \in NameEnd(b)
      BY <3>1, <3>7, <3>8 DEF NameEnd
    <3>10. QED
      BY <1>2, <3>7, <3>9
  <2>3. QED
    BY <2>1, <2>2
<1>3. CASE NameEnd(b) \notin {{}, {2}}
  <2>1. PICK i \in 3..(Len(b) - 1) :
          /\ b[i] = Space /\ \A j \in 2..(i - 1) : b[j] # Space
          /\ Addressed(b) = Split(i)
          /\ SubSeq(b, 2, i - 1) \in Argument
          /\ SubSeq(b, i + 1, Len(b)) \in Seq(Valid) \ {<<>>}
    BY <1>3, AddressedIs
  <2> DEFINE m == Split(i)
             all == {Split(k) : k \in {j \in DOMAIN b : b[j] = Space}}
  <2>2. i \in DOMAIN b
    BY <1>1
  <2>3. m \in all
    <3> HIDE DEF Split
    <3> QED BY <2>1, <2>2
  <2>4. m.to = SubSeq(b, 2, i - 1) /\ m.content = SubSeq(b, i + 1, Len(b))
    OBVIOUS
  <2> HIDE DEF m
  <2>5. m.to # <<>> /\ m.content # <<>> /\ \A j \in DOMAIN m.to : m.to[j] # Space
    <3>1. m.to \in Argument /\ m.content # <<>>
      BY <2>1, <2>4
    <3>2. QED
      BY <3>1 DEF Argument
  <2>6. DocumentedMessage(b) =
          {x \in all : x.to # <<>> /\ x.content # <<>> /\ \A j \in DOMAIN x.to : x.to[j] # Space}
    BY Zenon DEF DocumentedMessage
  <2> HIDE DEF all
  <2>7. m \in DocumentedMessage(b)
    BY <2>3, <2>5, <2>6
  <2>8. Addressed(b) = m
    BY <2>1 DEF m
  <2>9. QED
    BY <2>7, <2>8
<1>4. QED
  BY <1>2, <1>3

\* A line that was parsed was parsed as documented.
LEMMA Documented ==
  ASSUME line \in Seq(Chars), payload = Unparsed \/ payload = parse(line)
  PROVE  ParsedAsDocumented
<1> DEFINE b == Stripped(line)
           Parsed(p) == payload # Unparsed => payload = p
           bad == "bad" \in ToSet(b) \/ "\r" \in ToSet(b)
<1>1. b \in Seq(Chars)
  BY StrippedType
<1>2. bad <=> \E i \in DOMAIN b : ~is_valid_char(b[i])
  BY DEF ToSet, is_valid_char
<1>3. ToSet(b) \cap {"\r", "bad"} = {} <=> ~bad
  OBVIOUS
<1> DEFINE First == b = <<>> \/ "bad" \in ToSet(b) \/ "\r" \in ToSet(b) => Parsed(Invalid)
           Second == ToSet(b) \cap {"\r", "bad"} = {} /\ b # <<>> =>
                       CASE b[1] = "/" ->
                              Misread(b) \/ Parsed(DocumentedCommand(b))
                         [] b[1] \in {"@", "#"} ->
                              IF DocumentedMessage(b) = {} THEN Parsed(Invalid)
                              ELSE \E m \in DocumentedMessage(b) : Parsed(m)
                         [] OTHER -> Parsed([kind |-> "global", content |-> b])
<1>4. First
  <2>1. b = <<>> \/ bad => parse(line) = Invalid
    BY <1>2, Zenon DEF parse
  <2>2. QED
    BY <2>1
<1>5. Second
  <2> SUFFICES ASSUME ~bad, b # <<>>
               PROVE  CASE b[1] = "/" ->
                              Misread(b) \/ Parsed(DocumentedCommand(b))
                         [] b[1] \in {"@", "#"} ->
                              IF DocumentedMessage(b) = {} THEN Parsed(Invalid)
                              ELSE \E m \in DocumentedMessage(b) : Parsed(m)
                         [] OTHER -> Parsed([kind |-> "global", content |-> b])
    BY <1>3
  <2>1. b \in Seq(Valid) /\ Len(b) \in Nat /\ Len(b) >= 1
    <3>1. \A i \in DOMAIN b : b[i] \notin {"\r", "bad"}
      BY <1>2 DEF is_valid_char
    <3> HIDE DEF b, bad
    <3>2. QED
      BY <1>1, <3>1 DEF Valid
  <2>2. parse(line) = IF b[1] = "/" THEN Command(b)
                      ELSE IF b[1] \in {"@", "#"} THEN Addressed(b)
                      ELSE [kind |-> "global", content |-> b]
    BY <1>2, Zenon DEF parse
  <2> HIDE DEF b, bad
  <2>3. CASE b[1] = "/"
    <3>1. b[1] \notin {"@", "#"} /\ b[1] # Space
      BY <2>3, SpaceDiffers
    <3>2. ASSUME ~Misread(b)
          PROVE  Command(b) = DocumentedCommand(b)
      <4>n. \A n \in Nat : n >= 1 /\ n # 1 => n >= 2
        OBVIOUS
      <4>1. Len(b) >= 2 /\ Heard(b) = b
        BY <2>1, <3>2, <4>n, Zenon DEF Misread, Heard
      <4>2. Space \in Valid
        BY SpaceDiffers DEF Valid, Chars
      <4>3. QED
        BY <2>1, <3>1, <4>1, <4>2, CommandAsDocumented
    <3>3. parse(line) = Command(b)
      BY <2>2, <2>3
    <3>4. QED
      BY <2>3, <3>1, <3>2, <3>3
  <2>4. CASE b[1] \in {"@", "#"}
    <3>1. b[1] # "/" /\ parse(line) = Addressed(b)
      BY <2>2, <2>4
    <3>2. IF DocumentedMessage(b) = {} THEN Addressed(b) = Invalid
                                      ELSE Addressed(b) \in DocumentedMessage(b)
      BY <2>1, <2>4, MessageAsDocumented
    <3>3. QED
      BY <2>4, <3>1, <3>2
  <2>5. CASE b[1] \notin {"/", "@", "#"}
    <3>1. b[1] # "/" /\ b[1] \notin {"@", "#"} /\ parse(line) = [kind |-> "global", content |-> b]
      BY <2>2, <2>5
    <3>2. QED
      BY <3>1
  <2>6. QED
    BY <2>3, <2>4, <2>5
<1>6. QED
  <2> HIDE DEF Parsed
  <2> QED BY <1>4, <1>5, Zenon DEF ParsedAsDocumented, Parsed

-----------------------------------------------------------------------------
(* What is written to a recipient.                                         *)

Frame == Chars \cup {"\n", "<DM>", "<Global>"}

\* What is still to be written follows what was.
Inv ==
  /\ line \in Seq(Chars) /\ user \in UserNames /\ failed \in BOOLEAN
  /\ wire \in Seq(Frame) /\ pieces \in Seq(Seq(Frame) \ {<<>>})
  /\ failed => pieces # <<>>
  /\ \/ payload = Unparsed /\ pieces = <<>> /\ wire = <<>>
     \/ /\ payload = parse(line)
        /\ ~failed => wire \o FlattenSeq(pieces) = FlattenSeq(Pieces(payload, user))

\* No write is of nothing.
LEMMA PiecesType ==
  ASSUME NEW p, Result(p), NEW u \in UserNames
  PROVE  Pieces(p, u) \in Seq(Seq(Frame) \ {<<>>})
<1> DEFINE Piece == Seq(Frame) \ {<<>>}
<1>1. u \in Piece
  <2>1. u \in Seq({"a", "b"}) /\ u # <<>>
    BY NamesAssumption
  <2>2. {"a", "b"} \subseteq Frame
    BY DEF Frame, Chars
  <2>3. QED
    BY <2>1, <2>2, SeqMonotonic
<1>2. Valid \subseteq Frame /\ Valid \ {Space} \subseteq Frame
  BY DEF Valid, Frame
<1>3. \A s \in Seq(Valid) \ {<<>>} : s \in Piece
  BY <1>2, SeqMonotonic
<1>4. \A s \in Argument : s \in Piece
  BY <1>2, SeqMonotonic DEF Argument
<1>5. /\ <<"#">> \in Piece /\ <<Space, "@">> \in Piece /\ <<":", Space>> \in Piece
      /\ <<"\n">> \in Piece /\ <<"<DM>", Space, "@">> \in Piece
      /\ <<"<Global>", Space, "@">> \in Piece
  BY DEF Frame, Chars
<1> HIDE DEF Piece
<1>6. CASE p.kind = "direct"
  <2>1. p.content \in Seq(Valid) \ {<<>>}
    BY <1>6, Kinds DEF Result, Invalid, Crash
  <2>2. Pieces(p, u) = <<<<"<DM>", Space, "@">>, u, <<":", Space>>, p.content, <<"\n">>>>
    BY <1>6 DEF Pieces, DirectPieces
  <2>3. QED
    BY <1>1, <1>3, <1>5, <2>1, <2>2 DEF Piece
<1>7. CASE p.kind = "group"
  <2>1. p.content \in Seq(Valid) \ {<<>>} /\ p.to \in Argument
    BY <1>7, Kinds DEF Result, Invalid, Crash
  <2>2. Pieces(p, u) = <<<<"#">>, p.to, <<Space, "@">>, u, <<":", Space>>, p.content, <<"\n">>>>
    BY <1>7 DEF Pieces, GroupPieces
  <2>3. QED
    BY <1>1, <1>3, <1>4, <1>5, <2>1, <2>2 DEF Piece
<1>8. CASE p.kind = "global"
  <2>1. p.content \in Seq(Valid) \ {<<>>}
    BY <1>8, Kinds DEF Result, Invalid, Crash
  <2>2. Pieces(p, u) = <<<<"<Global>", Space, "@">>, u, <<":", Space>>, p.content, <<"\n">>>>
    BY <1>8 DEF Pieces, GlobalPieces
  <2>3. QED
    BY <1>1, <1>3, <1>5, <2>1, <2>2 DEF Piece
<1>9. CASE p.kind \notin MessageKinds
  <2>1. Pieces(p, u) = <<>>
    BY <1>9 DEF Pieces, MessageKinds
  <2>2. QED
    BY <2>1
<1>10. QED
  BY <1>6, <1>7, <1>8, <1>9 DEF MessageKinds

\* A connection starts with a line, and nothing parsed or written.
LEMMA InvInit == Init => Inv
<1> SUFFICES ASSUME Init PROVE Inv
  OBVIOUS
<1>1. line \in Seq(Chars)
  BY LinesAssumption DEF Init
<1>2. /\ <<>> \in Seq(Frame) /\ <<>> \in Seq(Seq(Frame) \ {<<>>})
  OBVIOUS
<1>3. QED
  BY <1>1, <1>2, Zenon DEF Init, Inv

\* parse, a write and a write that fails keep the invariant.
LEMMA InvStep == Inv /\ [Next]_vars => Inv'
<1> SUFFICES ASSUME Inv, [Next]_vars PROVE Inv'
  OBVIOUS
<1> USE DEF Inv
<1> DEFINE Piece == Seq(Frame) \ {<<>>}
<1>1. CASE TakeLine
  <2>1. /\ payload' = parse(line) /\ pieces' = Pieces(payload', user)
        /\ UNCHANGED <<line, user, wire, failed>> /\ payload = Unparsed
    BY <1>1 DEF TakeLine
  <2>2. parse(line).kind # "unparsed"
    <3>1. Result(parse(line))
      BY ParseResult
    <3>2. QED
      BY <3>1, Kinds DEF Result, Invalid, Crash
  <2>3. wire = <<>> /\ pieces = <<>>
    <3>1. payload # parse(line)
      BY <2>1, <2>2 DEF Unparsed
    <3>2. QED
      BY <3>1
  <2>4. pieces' \in Seq(Piece)
    BY <2>1, ParseResult, PiecesType
  <2>5. FlattenSeq(pieces') \in Seq(Frame)
    <3>1. pieces' \in Seq(Seq(Frame))
      BY <2>4
    <3>2. QED
      BY <3>1, FlattenType
  <2>6. wire' \o FlattenSeq(pieces') = FlattenSeq(Pieces(payload', user'))
    <3>1. <<>> \o FlattenSeq(pieces') = FlattenSeq(pieces')
      BY <2>5
    <3>2. QED
      BY <2>1, <2>3, <3>1
  <2>7. failed' = FALSE
    BY <2>1, <2>3
  <2>8. QED
    BY <2>1, <2>4, <2>6, <2>7
<1>2. CASE Write
  <2>1. /\ pieces # <<>> /\ ~failed /\ wire' = wire \o Head(pieces) /\ pieces' = Tail(pieces)
        /\ UNCHANGED <<line, payload, user, failed>>
    BY <1>2 DEF Write
  <2>2. /\ Head(pieces) \in Piece /\ Tail(pieces) \in Seq(Piece)
        /\ Head(pieces) \in Seq(Frame) /\ pieces \in Seq(Seq(Frame))
    BY <2>1
  <2>3. wire' \in Seq(Frame) /\ pieces' \in Seq(Piece)
    BY <2>1, <2>2
  <2>4. FlattenSeq(Tail(pieces)) \in Seq(Frame)
    <3>1. Tail(pieces) \in Seq(Seq(Frame))
      BY <2>1, <2>2
    <3>2. QED
      BY <3>1, FlattenType
  <2>5. payload = parse(line) /\ wire \o FlattenSeq(pieces) = FlattenSeq(Pieces(payload, user))
    BY <2>1
  <2>6. FlattenSeq(pieces) = Head(pieces) \o FlattenSeq(Tail(pieces))
    BY <2>1, <2>2, FlattenHead
  <2>7. (wire \o Head(pieces)) \o FlattenSeq(Tail(pieces)) = wire \o (Head(pieces) \o FlattenSeq(Tail(pieces)))
    <3>1. \A x, y, z \in Seq(Frame) : (x \o y) \o z = x \o (y \o z)
      OBVIOUS
    <3>2. wire \in Seq(Frame)
      OBVIOUS
    <3>3. QED
      BY <2>2, <2>4, <3>1, <3>2, Zenon
  <2>8. wire' \o FlattenSeq(pieces') = FlattenSeq(Pieces(payload', user'))
    BY <2>1, <2>5, <2>6, <2>7, Zenon
  <2>9. QED
    BY <2>1, <2>3, <2>5, <2>8
<1>3. CASE WriteFails
  <2>1. /\ pieces # <<>> /\ failed' = TRUE
        /\ UNCHANGED <<line, payload, user, pieces>>
    BY <1>3 DEF WriteFails
  <2>2. PICK n \in 0..(Len(Head(pieces)) - 1) : wire' = wire \o SubSeq(Head(pieces), 1, n)
    BY <1>3 DEF WriteFails
  <2>3. Head(pieces) \in Seq(Frame)
    BY <2>1
  <2>4. SubSeq(Head(pieces), 1, n) \in Seq(Frame)
    <3>1. n \in Nat /\ n =< Len(Head(pieces)) /\ 1 \in Nat /\ 1 >= 1
      BY <2>3
    <3>2. QED
      BY <2>3, <3>1, PartType
  <2>5. wire' \in Seq(Frame)
    BY <2>2, <2>4
  <2>6. payload = parse(line)
    BY <2>1
  <2>7. QED
    BY <2>1, <2>5, <2>6
<1>4. CASE UNCHANGED vars
  BY <1>4 DEF vars
<1>5. QED
  BY <1>1, <1>2, <1>3, <1>4 DEF Next

\* So it always holds.
LEMMA Invariant == Spec => []Inv
  BY InvInit, InvStep, PTL DEF Spec

\* What is parsed of a line, and what is written, have their types: the
\* arguments of commands are words and no write is of nothing.
THEOREM MessageTypeCorrect == Spec => []TypeOK
<1>1. Inv => TypeOK
  <2> SUFFICES ASSUME Inv PROVE TypeOK
    OBVIOUS
  <2>1. \A i \in DOMAIN pieces : pieces[i] # <<>>
    BY DEF Inv
  <2>2. /\ payload.kind \in {"unparsed", "invalid", "crash"} \cup MessageKinds \cup CommandNames
        /\ payload.kind \in CommandNames =>
             \A i \in DOMAIN payload.args : payload.args[i] \in Seq(Chars \ {Space, "\r"}) \ {<<>>}
    <3>1. CASE payload = Unparsed
      BY <3>1, Kinds DEF Unparsed
    <3>2. CASE Result(payload)
      <4>1. \A s \in Argument : s \in Seq(Chars \ {Space, "\r"}) \ {<<>>}
        <5>1. Valid \ {Space} \subseteq Chars \ {Space, "\r"}
          BY DEF Valid
        <5>2. QED
          BY <5>1, SeqMonotonic DEF Argument
      <4>2. payload.kind \in {"invalid", "crash"} \cup MessageKinds \cup CommandNames
        BY <3>2 DEF Result, Invalid, Crash, MessageKinds
      <4>3. payload.kind \in CommandNames => payload.args \in Seq(Argument)
        BY <3>2, Kinds DEF Result, Invalid, Crash
      <4>4. QED
        BY <4>1, <4>2, <4>3
    <3>3. QED
      BY <3>1, <3>2, ParseResult DEF Inv
  <2>3. QED
    BY <2>1, <2>2 DEF TypeOK, Inv
<1>2. QED
  BY <1>1, Invariant, PTL

\* Every line is parsed as PROTOCOL.md has it, but for the two kinds that the
\* code gets wrong, of which ParsedAsDocumented demands nothing.
THEOREM ParsingIsDocumented == Spec => []ParsedAsDocumented
<1>1. Inv => ParsedAsDocumented
  BY Documented DEF Inv
<1>2. QED
  BY <1>1, Invariant, PTL

-----------------------------------------------------------------------------
(* What a recipient reads.                                                 *)

Without(s, e)    == \A i \in 1..Len(s) : s[i] # e
StartsWith(s, e) == Len(s) >= 1 /\ s[1] = e

\* A character that neither part has before it tells where they end.
LEMMA OneSplit ==
  ASSUME NEW S, NEW x \in Seq(S), NEW y \in Seq(S), NEW v \in Seq(S), NEW w \in Seq(S), NEW e,
         x \o y = v \o w, StartsWith(y, e), StartsWith(w, e), Without(x, e), Without(v, e)
  PROVE  x = v /\ y = w
<1>1. /\ Len(x) \in Nat /\ Len(v) \in Nat
      /\ (x \o y)[Len(x) + 1] = e /\ (v \o w)[Len(v) + 1] = e
  <2>1. \A p, q \in Seq(S) : Len(q) >= 1 => (p \o q)[Len(p) + 1] = q[1]
    OBVIOUS
  <2>2. Len(x) \in Nat /\ Len(v) \in Nat
    OBVIOUS
  <2>3. QED
    BY <2>1, <2>2, Zenon DEF StartsWith
<1>2. \A i \in 1..Len(x) : (x \o y)[i] = x[i]
  OBVIOUS
<1>3. \A i \in 1..Len(v) : (v \o w)[i] = v[i]
  OBVIOUS
<1>4. ~(Len(x) < Len(v))
  <2>1. SUFFICES ASSUME Len(x) < Len(v) PROVE FALSE
    OBVIOUS
  <2>2. Len(x) + 1 \in 1..Len(v)
    BY <1>1, <2>1
  <2>3. v[Len(x) + 1] = e
    BY <1>1, <1>3, <2>2, Zenon
  <2>4. QED
    BY <2>2, <2>3, Zenon DEF Without
<1>5. ~(Len(v) < Len(x))
  <2>1. SUFFICES ASSUME Len(v) < Len(x) PROVE FALSE
    OBVIOUS
  <2>2. Len(v) + 1 \in 1..Len(x)
    BY <1>1, <2>1
  <2>3. x[Len(v) + 1] = e
    BY <1>1, <1>2, <2>2, Zenon
  <2>4. QED
    BY <2>2, <2>3, Zenon DEF Without
<1>6. Len(x) = Len(v)
  BY <1>1, <1>4, <1>5
<1>7. \A i \in 1..Len(x) : x[i] = v[i]
  BY <1>2, <1>3, <1>6, Zenon
<1>8. x = v
  BY <1>6, <1>7, SeqEqual
<1>9. QED
  BY <1>8, ConcatSimplifications, Zenon

\* Sequences that are put together add up.
LEMMA LenOfConcat ==
  ASSUME NEW S, NEW x \in Seq(S), NEW y \in Seq(S), NEW r, r = x \o y
  PROVE  Len(r) = Len(x) + Len(y)
  OBVIOUS

\* Where a part of a sequence is.
LEMMA PartBetween ==
  ASSUME NEW S, NEW x \in Seq(S), NEW y \in Seq(S), NEW z \in Seq(S),
         NEW r, r = y \o z, NEW w, w = x \o r
  PROVE  y = SubSeq(w, Len(x) + 1, Len(x) + Len(y))
<1> DEFINE m == Len(x) + 1
           n == Len(x) + Len(y)
<1>1. /\ Len(x) \in Nat /\ Len(y) \in Nat /\ Len(z) \in Nat /\ w \in Seq(S)
      /\ Len(w) = Len(x) + Len(y) + Len(z)
      /\ \A i \in 1..Len(y) : w[Len(x) + i] = y[i]
  OBVIOUS
<1>2. m \in Int /\ n \in Int /\ m >= 1 /\ n =< Len(w) /\ \A k \in m..n : w[k] \in S
  BY <1>1
<1>3. CASE Len(y) = 0
  <2>1. n < m /\ y = <<>>
    BY <1>1, <1>3
  <2>2. SubSeq(w, m, n) = <<>>
    BY <1>2, <2>1, SubSeqEmpty
  <2>3. QED
    BY <2>1, <2>2
<1>4. CASE Len(y) # 0
  <2>1. m =< n /\ n - m + 1 = Len(y)
    BY <1>1, <1>4
  <2>2. /\ SubSeq(w, m, n) \in Seq(S) /\ Len(SubSeq(w, m, n)) = n - m + 1
        /\ \A i \in 1..(n - m + 1) : SubSeq(w, m, n)[i] = w[m + i - 1]
    BY <1>2, <2>1, SubSeqProperties
  <2>3. ASSUME NEW i \in 1..Len(y)
        PROVE  y[i] = SubSeq(w, m, n)[i]
    <3>1. m + i - 1 = Len(x) + i
      BY <1>1
    <3>2. QED
      BY <1>1, <2>1, <2>2, <3>1
  <2>4. y = SubSeq(w, m, n)
    BY <2>1, <2>2, <2>3, SeqEqual
  <2>5. QED
    BY <2>4
<1>5. QED
  BY <1>3, <1>4

\* Who says what, up to the end of the line, and all that is sent.
Speech(u, c) == u \o (<<":", Space>> \o (c \o <<"\n">>))

SentLine(kind, to, u, c) ==
  IF kind = "group" THEN <<"#">> \o (to \o (<<Space, "@">> \o Speech(u, c)))
  ELSE <<IF kind = "direct" THEN "<DM>" ELSE "<Global>", Space, "@">> \o Speech(u, c)

\* The constant parts of the lines that are sent.
LEMMA FrameParts ==
  /\ <<"#">> \in Seq(Frame) /\ <<Space, "@">> \in Seq(Frame) /\ <<":", Space>> \in Seq(Frame)
  /\ <<"\n">> \in Seq(Frame) /\ <<"<DM>", Space, "@">> \in Seq(Frame)
  /\ <<"<Global>", Space, "@">> \in Seq(Frame) /\ "\n" \in Frame
  BY DEF Frame, Chars

\* What is said, its parts too, is a sequence of characters of the frame.
LEMMA SpeechType ==
  ASSUME NEW u \in Seq(Frame), NEW c \in Seq(Frame)
  PROVE  /\ Speech(u, c) \in Seq(Frame)
         /\ <<":", Space>> \o (c \o <<"\n">>) \in Seq(Frame)
         /\ c \o <<"\n">> \in Seq(Frame)
  BY FrameParts DEF Speech

\* What is said makes up the end of the line.
LEMMA FlattenSpeech ==
  ASSUME NEW u \in Seq(Frame), NEW c \in Seq(Frame)
  PROVE  FlattenSeq(<<u, <<":", Space>>, c, <<"\n">>>>) = Speech(u, c)
<1> DEFINE colon == <<":", Space>>
           end   == <<"\n">>
<1>1. colon \in Seq(Frame) /\ end \in Seq(Frame)
  BY FrameParts
<1> HIDE DEF colon, end
<1>2. /\ <<end>> \in Seq(Seq(Frame)) /\ <<end>> # <<>>
      /\ Head(<<end>>) = end /\ Tail(<<end>>) = <<>>
  BY <1>1
<1>3. /\ <<c, end>> \in Seq(Seq(Frame)) /\ <<c, end>> # <<>>
      /\ Head(<<c, end>>) = c /\ Tail(<<c, end>>) = <<end>>
  BY <1>1
<1>4. /\ <<colon, c, end>> \in Seq(Seq(Frame)) /\ <<colon, c, end>> # <<>>
      /\ Head(<<colon, c, end>>) = colon /\ Tail(<<colon, c, end>>) = <<c, end>>
  BY <1>1
<1>5. /\ <<u, colon, c, end>> \in Seq(Seq(Frame)) /\ <<u, colon, c, end>> # <<>>
      /\ Head(<<u, colon, c, end>>) = u /\ Tail(<<u, colon, c, end>>) = <<colon, c, end>>
  BY <1>1
<1>6. FlattenSeq(<<end>>) = end
  <2>1. FlattenSeq(<<end>>) = end \o <<>>
    BY <1>2, FlattenHead, FlattenEmpty, Zenon
  <2>2. end \o <<>> = end
    BY <1>1
  <2>3. QED
    BY <2>1, <2>2
<1>7. FlattenSeq(<<c, end>>) = c \o end
  BY <1>3, <1>6, FlattenHead, Zenon
<1>8. FlattenSeq(<<colon, c, end>>) = colon \o (c \o end)
  BY <1>4, <1>7, FlattenHead, Zenon
<1>9. FlattenSeq(<<u, colon, c, end>>) = u \o (colon \o (c \o end))
  BY <1>5, <1>8, FlattenHead, Zenon
<1>10. QED
  BY <1>9, Zenon DEF Speech, colon, end

\* The writes of a message make up its line.
LEMMA PiecesSent ==
  ASSUME NEW p, p.kind \in MessageKinds, p.content \in Seq(Frame),
         p.kind = "group" => p.to \in Seq(Frame), NEW u \in Seq(Frame)
  PROVE  FlattenSeq(Pieces(p, u)) = SentLine(p.kind, p.to, u, p.content)
<1> DEFINE c     == p.content
           n     == p.to
           colon == <<":", Space>>
           end   == <<"\n">>
           hash  == <<"#">>
           at    == <<Space, "@">>
           tag   == <<IF p.kind = "direct" THEN "<DM>" ELSE "<Global>", Space, "@">>
<1>1. /\ FlattenSeq(<<u, colon, c, end>>) = Speech(u, c)
      /\ c \in Seq(Frame) /\ colon \in Seq(Frame) /\ end \in Seq(Frame)
      /\ hash \in Seq(Frame) /\ at \in Seq(Frame) /\ tag \in Seq(Frame)
  BY FrameParts, FlattenSpeech
<1>2. CASE p.kind = "group"
  <2>1. Pieces(p, u) = <<hash, n, at, u, colon, c, end>> /\ n \in Seq(Frame)
    BY <1>2 DEF Pieces, GroupPieces
  <2> HIDE DEF hash, at, colon, end, c, n
  <2>2. /\ <<at, u, colon, c, end>> \in Seq(Seq(Frame)) /\ <<at, u, colon, c, end>> # <<>>
        /\ Head(<<at, u, colon, c, end>>) = at
        /\ Tail(<<at, u, colon, c, end>>) = <<u, colon, c, end>>
    BY <1>1
  <2>3. /\ <<n, at, u, colon, c, end>> \in Seq(Seq(Frame)) /\ <<n, at, u, colon, c, end>> # <<>>
        /\ Head(<<n, at, u, colon, c, end>>) = n
        /\ Tail(<<n, at, u, colon, c, end>>) = <<at, u, colon, c, end>>
    BY <1>1, <2>1
  <2>4. /\ <<hash, n, at, u, colon, c, end>> \in Seq(Seq(Frame))
        /\ <<hash, n, at, u, colon, c, end>> # <<>>
        /\ Head(<<hash, n, at, u, colon, c, end>>) = hash
        /\ Tail(<<hash, n, at, u, colon, c, end>>) = <<n, at, u, colon, c, end>>
    BY <1>1, <2>1
  <2>5. FlattenSeq(<<at, u, colon, c, end>>) = at \o Speech(u, c)
    BY <1>1, <2>2, FlattenHead, Zenon
  <2>6. FlattenSeq(<<n, at, u, colon, c, end>>) = n \o (at \o Speech(u, c))
    BY <2>3, <2>5, FlattenHead, Zenon
  <2>7. FlattenSeq(Pieces(p, u)) = hash \o (n \o (at \o Speech(u, c)))
    BY <2>1, <2>4, <2>6, FlattenHead, Zenon
  <2>8. QED
    BY <1>2, <2>7, Zenon DEF SentLine, hash, at, n, c
<1>3. CASE p.kind # "group"
  <2>1. Pieces(p, u) = <<tag, u, colon, c, end>>
    <3>1. CASE p.kind = "direct"
      BY <3>1 DEF Pieces, DirectPieces
    <3>2. CASE p.kind = "global"
      BY <3>2 DEF Pieces, GlobalPieces
    <3>3. QED
      BY <1>3, <3>1, <3>2 DEF MessageKinds
  <2> HIDE DEF tag, colon, end, c
  <2>2. /\ <<tag, u, colon, c, end>> \in Seq(Seq(Frame)) /\ <<tag, u, colon, c, end>> # <<>>
        /\ Head(<<tag, u, colon, c, end>>) = tag
        /\ Tail(<<tag, u, colon, c, end>>) = <<u, colon, c, end>>
    BY <1>1
  <2>3. FlattenSeq(Pieces(p, u)) = tag \o Speech(u, c)
    BY <1>1, <2>1, <2>2, FlattenHead, Zenon
  <2>4. QED
    BY <1>3, <2>3, Zenon DEF SentLine, tag, c
<1>4. QED
  BY <1>2, <1>3

\* A user's name ends at the first colon, and what follows it was said.
LEMMA OneSpeech ==
  ASSUME NEW u \in UserNames, NEW v \in UserNames, NEW c \in Seq(Frame), NEW d \in Seq(Frame),
         Speech(u, c) = Speech(v, d)
  PROVE  u = v /\ c = d
<1> DEFINE colon == <<":", Space>>
           x == colon \o (c \o <<"\n">>)
           y == colon \o (d \o <<"\n">>)
<1>1. /\ u \in Seq({"a", "b"}) /\ v \in Seq({"a", "b"})
      /\ u \in Seq(Frame) /\ v \in Seq(Frame)
  <2>1. {"a", "b"} \subseteq Frame
    BY DEF Frame, Chars
  <2>2. QED
    BY <2>1, NamesAssumption, SeqMonotonic
<1>2. Without(u, ":") /\ Without(v, ":")
  BY <1>1 DEF Without
<1>3. /\ c \o <<"\n">> \in Seq(Frame) /\ d \o <<"\n">> \in Seq(Frame) /\ colon \in Seq(Frame)
      /\ x \in Seq(Frame) /\ y \in Seq(Frame)
  BY FrameParts
<1>4. StartsWith(x, ":") /\ StartsWith(y, ":")
  BY <1>3 DEF StartsWith
<1>5. u \o x = v \o y
  BY Zenon DEF Speech
<1> HIDE DEF colon, x, y
<1>6. u = v /\ x = y
  BY <1>1, <1>2, <1>3, <1>4, <1>5, OneSplit, Zenon
<1>7. c \o <<"\n">> = d \o <<"\n">>
  <2>1. colon \o (c \o <<"\n">>) = colon \o (d \o <<"\n">>)
    BY <1>6 DEF x, y
  <2>2. QED
    BY <1>3, <2>1, ConcatSimplifications, Zenon
<1>8. c = d
  BY <1>7, FrameParts, ConcatSimplifications, Zenon
<1>9. QED
  BY <1>6, <1>8

\* All but the last character of w, from some place on.
Closes(c, w) == \E i \in 1..Len(w) : c = SubSeq(w, i, Len(w) - 1)

\* What closes a sequence closes every longer one that ends with it.
LEMMA ClosesShifted ==
  ASSUME NEW S, NEW w \in Seq(S), NEW v \in Seq(S), NEW n \in Nat, Len(w) = n + Len(v),
         \A i \in 1..Len(v) : w[n + i] = v[i], NEW c, Closes(c, v)
  PROVE  Closes(c, w)
<1> DEFINE l == Len(v)
<1>1. l \in Nat /\ Len(w) = n + l
  OBVIOUS
<1>2. \A i \in 1..l : w[n + i] = v[i]
  OBVIOUS
<1>3. PICK i \in 1..l : c = SubSeq(v, i, l - 1)
  BY DEF Closes
<1> HIDE DEF l
<1> DEFINE d == SubSeq(w, n + i, n + l - 1)
<1>4. i \in Int /\ l - 1 \in Int /\ n + i \in Int /\ n + l - 1 \in Int
  BY <1>1, <1>3
<1>5. \A k \in i..(l - 1) : v[k] \in S
  BY <1>1, <1>3 DEF l
<1>6. \A k \in (n + i)..(n + l - 1) : w[k] \in S
  BY <1>1, <1>1
<1>7. /\ c \in Seq(S) /\ Len(c) = (IF i =< l - 1 THEN l - 1 - i + 1 ELSE 0)
      /\ \A k \in 1..(l - 1 - i + 1) : c[k] = v[i + k - 1]
  BY <1>3, <1>4, <1>5, SubSeqProperties
<1>8. /\ d \in Seq(S) /\ Len(d) = (IF i =< l - 1 THEN l - i ELSE 0)
       /\ \A k \in 1..(l - i) : d[k] = w[n + (i + k - 1)]
  <2>1. PICK a \in Int : a = n + i
    BY <1>4
  <2>2. PICK b \in Int : b = n + l - 1
    BY <1>4
  <2>3. d = SubSeq(w, a, b)
    BY <2>1, <2>2
  <2> HIDE DEF d
  <2>4. \A k \in a..b : w[k] \in S
    BY <1>6, <2>1, <2>2
  <2>5. /\ d \in Seq(S) /\ Len(d) = (IF a =< b THEN b - a + 1 ELSE 0)
        /\ \A k \in 1..(b - a + 1) : d[k] = w[a + k - 1]
    BY <2>3, <2>4, SubSeqProperties
  <2>6. b - a + 1 = l - i /\ (a =< b <=> i =< l - 1) /\ \A k \in 1..(l - i) : a + k - 1 = n + (i + k - 1)
    BY <1>1, <1>3, <2>1, <2>2
  <2>7. QED
    BY <2>5, <2>6
<1> HIDE DEF d
<1>9. Len(c) = Len(d)
  BY <1>1, <1>7, <1>8
<1>10. ASSUME NEW k \in 1..Len(c)
       PROVE  c[k] = d[k]
  <2>1. k \in 1..(l - 1 - i + 1) /\ k \in 1..(l - i) /\ i + k - 1 \in 1..l
    BY <1>1, <1>7
  <2>2. QED
    BY <1>2, <1>7, <1>8, <2>1
<1>11. c = d
  BY <1>7, <1>8, <1>9, <1>10, SeqEqual
<1>12. n + i \in 1..Len(w) /\ n + l - 1 = Len(w) - 1
  BY <1>1
<1>13. QED
  BY <1>11, <1>12 DEF Closes, d

\* The same, of two sequences that are put together.
LEMMA ClosesLonger ==
  ASSUME NEW S, NEW x \in Seq(S), NEW v \in Seq(S), NEW c, Closes(c, v), NEW w, w = x \o v
  PROVE  Closes(c, w)
<1>1. Len(x) \in Nat /\ w \in Seq(S)
  OBVIOUS
<1>2. Len(w) = Len(x) + Len(v)
  OBVIOUS
<1>3. \A i \in 1..Len(v) : w[Len(x) + i] = v[i]
  OBVIOUS
<1>4. QED
  BY <1>1, <1>2, <1>3, ClosesShifted

\* What is said closes the speech, and so every line that ends with it.
LEMMA ContentClosesSpeech ==
  ASSUME NEW u \in Seq(Frame), NEW c \in Seq(Frame)
  PROVE  Closes(c, Speech(u, c))
<1>1. PICK end : end = <<"\n">>
  OBVIOUS
<1>2. end \in Seq(Frame) /\ Len(end) = 1
  BY <1>1, FrameParts
<1>3. PICK colon : colon = <<":", Space>>
  OBVIOUS
<1>4. colon \in Seq(Frame)
  BY <1>3, FrameParts
<1>5. PICK w : w = c \o end
  OBVIOUS
<1>6. w \in Seq(Frame) /\ Len(w) = Len(c) + 1 /\ Len(c) \in Nat
  <2>1. w \in Seq(Frame)
    BY <1>2, <1>5
  <2>2. Len(w) = Len(c) + Len(end)
    BY <1>2, <1>5, LenOfConcat
  <2>3. QED
    BY <1>2, <2>1, <2>2
<1>7. Closes(c, w)
  <2>1. PICK none : none = <<>>
    OBVIOUS
  <2>2. none \in Seq(Frame) /\ Len(none) = 0
    BY <2>1
  <2>3. w = none \o w
    BY <1>6, <2>1
  <2>4. end \in Seq(Frame)
    BY <1>2
  <2>5. c = SubSeq(w, Len(none) + 1, Len(none) + Len(c))
    BY <1>5, <2>2, <2>3, <2>4, PartBetween
  <2>6. 1 \in 1..Len(w) /\ Len(none) + 1 = 1 /\ Len(none) + Len(c) = Len(w) - 1
    BY <1>6, <2>2
  <2>7. QED
    BY <2>5, <2>6, Zenon DEF Closes
<1>8. PICK v : v = colon \o w
  OBVIOUS
<1>9. v \in Seq(Frame)
  BY <1>4, <1>6, <1>8
<1>10. Closes(c, v)
  BY <1>4, <1>6, <1>7, <1>8, ClosesLonger
<1>11. Closes(c, u \o v)
  BY <1>9, <1>10, ClosesLonger
<1>12. QED
  BY <1>1, <1>3, <1>5, <1>8, <1>11, Zenon DEF Speech

FirstOf(k) == IF k = "group" THEN "#" ELSE IF k = "direct" THEN "<DM>" ELSE "<Global>"

\* The first character of a line tells its kind.
LEMMA FirstTells ==
  ASSUME NEW k \in MessageKinds, NEW n \in Seq(Frame), NEW u \in Seq(Frame), NEW c \in Seq(Frame)
  PROVE  SentLine(k, n, u, c)[1] = FirstOf(k)
<1> DEFINE rest == <<Space, "@">> \o Speech(u, c)
<1>1. Speech(u, c) \in Seq(Frame)
  BY SpeechType
<1>2. rest \in Seq(Frame) /\ n \o rest \in Seq(Frame)
  BY <1>1, FrameParts
<1>3. CASE k = "group"
  <2> HIDE DEF rest
  <2>1. SentLine(k, n, u, c) = <<"#">> \o (n \o rest)
    BY <1>3 DEF SentLine, rest
  <2>2. <<"#">> \in Seq(Frame)
    BY FrameParts
  <2>3. QED
    BY <1>2, <1>3, <2>1, <2>2 DEF FirstOf
<1>4. CASE k # "group"
  <2> DEFINE first == IF k = "direct" THEN "<DM>" ELSE "<Global>"
             tag   == <<first, Space, "@">>
  <2>1. tag \in Seq(Frame) /\ Len(tag) = 3 /\ tag[1] = first
    BY FrameParts
  <2>2. SentLine(k, n, u, c) = tag \o Speech(u, c)
    BY <1>4 DEF SentLine
  <2> HIDE DEF tag
  <2>3. (tag \o Speech(u, c))[1] = tag[1]
    <3>1. 1 \in 1..(Len(tag) + Len(Speech(u, c))) /\ 1 =< Len(tag)
      BY <1>1, <2>1
    <3>2. QED
      BY <1>1, <2>1, <3>1, ConcatProperties
  <2>4. QED
    BY <1>4, <2>1, <2>2, <2>3 DEF FirstOf
<1>5. QED
  BY <1>3, <1>4

\* Two messages whose lines are the same are the same, whatever they say.
LEMMA OneLine ==
  ASSUME NEW k \in MessageKinds, NEW n \in Seq(Frame), NEW u \in UserNames, NEW c \in Seq(Frame),
         NEW j \in MessageKinds, NEW m \in Seq(Frame), NEW v \in UserNames, NEW d \in Seq(Frame),
         Without(n, Space), Without(m, Space),
         SentLine(k, n, u, c) = SentLine(j, m, v, d)
  PROVE  k = j /\ u = v /\ c = d /\ (k = "group" => n = m)
<1>1. u \in Seq(Frame) /\ v \in Seq(Frame)
  <2>1. {"a", "b"} \subseteq Frame
    BY DEF Frame, Chars
  <2>2. QED
    BY <2>1, NamesAssumption, SeqMonotonic
<1>2. Speech(u, c) \in Seq(Frame) /\ Speech(v, d) \in Seq(Frame)
  BY <1>1, SpeechType
<1>3. k = j
  <2>1. SentLine(k, n, u, c)[1] = FirstOf(k)
    BY <1>1, FirstTells, Zenon
  <2>2. SentLine(j, m, v, d)[1] = FirstOf(j)
    BY <1>1, FirstTells, Zenon
  <2>3. FirstOf(k) = FirstOf(j)
    BY <2>1, <2>2, Zenon
  <2>4. QED
    BY <2>3 DEF MessageKinds, FirstOf
<1>4. CASE k = "group"
  <2> DEFINE hash == <<"#">>
             at   == <<Space, "@">>
             x    == at \o Speech(u, c)
             y    == at \o Speech(v, d)
  <2>1. hash \in Seq(Frame) /\ at \in Seq(Frame)
    BY FrameParts
  <2>2. hash \o (n \o x) = hash \o (m \o y)
    BY <1>3, <1>4, Zenon DEF SentLine
  <2>3. x \in Seq(Frame) /\ y \in Seq(Frame) /\ StartsWith(x, Space) /\ StartsWith(y, Space)
    BY <1>2, <2>1 DEF StartsWith
  <2> HIDE DEF hash, at, x, y
  <2>4. n \o x \in Seq(Frame) /\ m \o y \in Seq(Frame)
    BY <2>3
  <2>5. n \o x = m \o y
    BY <2>1, <2>2, <2>4, ConcatSimplifications, Zenon
  <2>6. n = m /\ x = y
    BY <2>3, <2>5, OneSplit, Zenon
  <2>7. Speech(u, c) = Speech(v, d)
    <3>1. at \o Speech(u, c) = at \o Speech(v, d)
      BY <2>6 DEF x, y
    <3>2. QED
      BY <1>2, <2>1, <3>1, ConcatSimplifications, Zenon
  <2>8. QED
    BY <1>3, <2>6, <2>7, OneSpeech
<1>5. CASE k # "group"
  <2> DEFINE tag == <<IF k = "direct" THEN "<DM>" ELSE "<Global>", Space, "@">>
  <2>1. tag \in Seq(Frame)
    BY FrameParts
  <2>2. tag \o Speech(u, c) = tag \o Speech(v, d)
    BY <1>3, <1>5, Zenon DEF SentLine
  <2> HIDE DEF tag
  <2>3. Speech(u, c) = Speech(v, d)
    BY <1>2, <2>1, <2>2, ConcatSimplifications, Zenon
  <2>4. QED
    BY <1>3, <1>5, <2>3, OneSpeech
<1>6. QED
  BY <1>4, <1>5

\* What follows the first character of w, up to some place.
Opens(n, w) == \E i \in 1..Len(w) : n = SubSeq(w, 2, i)

\* A message can be read from its line: where its content and, if it has one,
\* its channel's name stand in it.
LEMMA CanBeRead ==
  ASSUME NEW k \in MessageKinds, NEW n \in Seq(Frame), NEW u \in Seq(Frame), NEW c \in Seq(Frame),
         NEW w, w = SentLine(k, n, u, c), k # "group" => n = <<>>
  PROVE  Closes(c, w) /\ Opens(n, w)
<1>1. PICK speech : speech = Speech(u, c)
  OBVIOUS
<1>2. speech \in Seq(Frame)
  BY <1>1, SpeechType
<1>3. Closes(c, speech)
  BY <1>1, ContentClosesSpeech
<1>4. CASE k = "group"
  <2>1. PICK hash : hash = <<"#">>
    OBVIOUS
  <2>2. hash \in Seq(Frame) /\ Len(hash) = 1
    BY <2>1, FrameParts
  <2>3. PICK at : at = <<Space, "@">>
    OBVIOUS
  <2>4. at \in Seq(Frame)
    BY <2>3, FrameParts
  <2>5. PICK rest : rest = at \o speech
    OBVIOUS
  <2>6. rest \in Seq(Frame)
    BY <1>2, <2>4, <2>5
  <2>7. Closes(c, rest)
    BY <1>2, <1>3, <2>4, <2>5, ClosesLonger
  <2>8. PICK more : more = n \o rest
    OBVIOUS
  <2>9. more \in Seq(Frame)
    BY <2>6, <2>8
  <2>10. Closes(c, more)
    BY <2>6, <2>7, <2>8, ClosesLonger
  <2>11. w = hash \o more
    BY <1>1, <1>4, <2>1, <2>3, <2>5, <2>8, Zenon DEF SentLine
  <2>12. Closes(c, w)
    BY <2>2, <2>9, <2>10, <2>11, ClosesLonger
  <2>13. n = SubSeq(w, Len(hash) + 1, Len(hash) + Len(n))
    <3>1. hash \in Seq(Frame)
      BY <2>2
    <3>2. QED
      BY <2>6, <2>8, <2>11, <3>1, PartBetween
  <2>14. Len(hash) + 1 = 2 /\ Len(hash) + Len(n) \in 1..Len(w)
    <3>1. Len(more) = Len(n) + Len(rest)
      BY <2>6, <2>8
    <3>2. Len(w) = Len(hash) + Len(more)
      BY <2>2, <2>9, <2>11, LenOfConcat
    <3>3. Len(n) \in Nat /\ Len(rest) \in Nat
      BY <2>6
    <3>4. QED
      BY <2>2, <3>1, <3>2, <3>3
  <2>15. QED
    BY <2>12, <2>13, <2>14, Zenon DEF Opens
<1>5. CASE k # "group"
  <2>1. PICK tag : tag = <<IF k = "direct" THEN "<DM>" ELSE "<Global>", Space, "@">>
    OBVIOUS
  <2>2. tag \in Seq(Frame) /\ Len(tag) = 3
    BY <2>1, FrameParts
  <2>3. w = tag \o speech
    BY <1>1, <1>5, <2>1, Zenon DEF SentLine
  <2>4. Closes(c, w)
    BY <1>2, <1>3, <2>2, <2>3, ClosesLonger
  <2>5. SubSeq(w, 2, 1) = <<>>
    BY SubSeqEmpty
  <2>6. 1 \in 1..Len(w)
    <3>1. Len(w) = Len(tag) + Len(speech)
      BY <1>2, <2>2, <2>3, LenOfConcat
    <3>2. Len(speech) \in Nat
      BY <1>2
    <3>3. QED
      BY <2>2, <3>1, <3>2
  <2>7. QED
    BY <1>5, <2>4, <2>5, <2>6, Zenon DEF Opens
<1>6. QED
  BY <1>4, <1>5

\* A part of a line is a sequence of its characters.
LEMMA PartOfWire ==
  ASSUME NEW w \in Seq(Frame), NEW x \in Nat, x >= 1, NEW y \in Int, y =< Len(w)
  PROVE  SubSeq(w, x, y) \in Seq(Frame)
<1>1. x \in Int /\ \A k \in x..y : w[k] \in Frame
  OBVIOUS
<1>2. QED
  BY <1>1, SubSeqProperties

\* No space is among the characters.
LEMMA WithoutSpace ==
  ASSUME NEW s \in Seq(Frame)
  PROVE  Without(s, Space) <=> Space \notin ToSet(s)
<1>1. DOMAIN s = 1..Len(s)
  OBVIOUS
<1>2. QED
  BY <1>1, Zenon DEF Without, ToSet

\* What is said, by whom and where, of the message on the way.
Reading ==
  [kind |-> payload.kind, user |-> user, content |-> payload.content,
   to |-> IF payload.kind = "group" THEN payload.to ELSE <<>>]

\* It is one of a message: a channel has a name without spaces.
LEMMA ReadingType ==
  ASSUME Result(payload), IsMessage, user \in UserNames
  PROVE  /\ payload.kind \in MessageKinds /\ user \in Seq(Frame)
         /\ Reading.to \in Seq(Frame) /\ payload.content \in Seq(Frame)
         /\ Without(Reading.to, Space)
         /\ payload.kind = "group" => payload.to \in Seq(Frame)
<1>1. Valid \subseteq Frame /\ Valid \ {Space} \subseteq Frame /\ {"a", "b"} \subseteq Frame
  BY DEF Valid, Frame, Chars
<1>2. payload.kind \in MessageKinds
  BY DEF IsMessage
<1>3. user \in Seq(Frame)
  BY <1>1, NamesAssumption, SeqMonotonic
<1>4. payload.content \in Seq(Valid)
  BY <1>2, Kinds DEF Result, Invalid, Crash, MessageKinds
<1>5. payload.content \in Seq(Frame)
  BY <1>1, <1>4, SeqMonotonic
<1>6. CASE payload.kind = "group"
  <2>1. payload.to \in Seq(Valid \ {Space})
    BY <1>6, Kinds DEF Result, Invalid, Crash, Argument
  <2>2. payload.to \in Seq(Frame)
    BY <1>1, <2>1, SeqMonotonic
  <2>3. Without(payload.to, Space)
    BY <2>1 DEF Without
  <2>4. Reading.to = payload.to
    BY <1>6 DEF Reading
  <2>5. QED
    BY <1>2, <1>3, <1>5, <2>2, <2>3, <2>4, Zenon
<1>7. CASE payload.kind # "group"
  <2>1. Reading.to = <<>>
    BY <1>7 DEF Reading
  <2>2. <<>> \in Seq(Frame)
    OBVIOUS
  <2>3. Without(<<>>, Space)
    BY DEF Without
  <2>4. QED
    BY <1>2, <1>3, <1>5, <1>7, <2>1, <2>2, <2>3, Zenon
<1>8. QED
  BY <1>6, <1>7

\* A whole line is the one that is sent.
LEMMA WireIsSent ==
  ASSUME Inv, IsMessage, pieces = <<>>
  PROVE  /\ Result(payload) /\ user \in UserNames /\ wire \in Seq(Frame)
         /\ wire = FlattenSeq(Pieces(payload, user))
         /\ wire = SentLine(payload.kind, Reading.to, user, payload.content)
<1>1. user \in UserNames /\ wire \in Seq(Frame) /\ ~failed
  BY DEF Inv
<1>2. payload # Unparsed
  BY DEF IsMessage, MessageKinds, Unparsed
<1>3. payload = parse(line) /\ wire \o FlattenSeq(pieces) = FlattenSeq(Pieces(payload, user))
  BY <1>1, <1>2 DEF Inv
<1>4. Result(payload)
  BY <1>3, ParseResult DEF Inv
<1>5. wire = FlattenSeq(Pieces(payload, user))
  <2>1. wire \o <<>> = wire
    BY <1>1
  <2>2. QED
    BY <1>3, <2>1, FlattenEmpty, Zenon
<1>6. /\ payload.kind \in MessageKinds /\ user \in Seq(Frame)
      /\ payload.content \in Seq(Frame)
      /\ payload.kind = "group" => payload.to \in Seq(Frame)
  BY <1>1, <1>4, ReadingType
<1>7. wire = SentLine(payload.kind, payload.to, user, payload.content)
  BY <1>5, <1>6, PiecesSent, Zenon
<1>8. SentLine(payload.kind, payload.to, user, payload.content)
        = SentLine(payload.kind, Reading.to, user, payload.content)
  <2>1. CASE payload.kind = "group"
    <3>1. Reading.to = payload.to
      BY <2>1 DEF Reading
    <3>2. QED
      BY <3>1, Zenon
  <2>2. CASE payload.kind # "group"
    BY <2>2, Zenon DEF SentLine
  <2>3. QED
    BY <2>1, <2>2
<1>9. QED
  BY <1>1, <1>4, <1>5, <1>7, <1>8, Zenon

\* What was sent can be read.
LEMMA RightReading ==
  ASSUME Inv, IsMessage, pieces = <<>>
  PROVE  Reading \in Readings
<1> DEFINE k == payload.kind
           n == Reading.to
           c == payload.content
<1>1. /\ Result(payload) /\ user \in UserNames /\ wire \in Seq(Frame)
      /\ wire = SentLine(k, n, user, c)
  BY WireIsSent
<1>2. /\ k \in MessageKinds /\ user \in Seq(Frame) /\ n \in Seq(Frame) /\ c \in Seq(Frame)
      /\ Without(n, Space)
  BY <1>1, ReadingType
<1>3. k # "group" => n = <<>>
  BY DEF Reading
<1>4. /\ Reading.kind = k /\ Reading.user = user /\ Reading.content = c
      /\ Reading = [kind |-> k, user |-> user, content |-> c, to |-> n]
  BY DEF Reading
<1> HIDE DEF k, n, c
<1>5. Closes(c, wire) /\ Opens(n, wire)
  <2>1. wire = SentLine(k, n, user, c)
    BY <1>1
  <2>2. k \in MessageKinds /\ n \in Seq(Frame) /\ user \in Seq(Frame) /\ c \in Seq(Frame)
    BY <1>2
  <2>3. QED
    BY <1>3, <2>1, <2>2, CanBeRead, Zenon
<1>6. /\ c \in {SubSeq(wire, i, Len(wire) - 1) : i \in 1..Len(wire)}
      /\ n \in {SubSeq(wire, 2, i) : i \in 1..Len(wire)}
  BY <1>5, Zenon DEF Closes, Opens
<1>7. FlattenSeq(Pieces(Reading, user)) = SentLine(k, n, user, c)
  <2>1. Reading.kind \in MessageKinds /\ Reading.content \in Seq(Frame) /\ Reading.to \in Seq(Frame)
    BY <1>2, <1>4 DEF n
  <2>2. FlattenSeq(Pieces(Reading, user))
          = SentLine(Reading.kind, Reading.to, user, Reading.content)
    BY <1>2, <2>1, PiecesSent, Zenon
  <2>3. QED
    BY <1>4, <2>2, Zenon DEF n
<1>8. wire = FlattenSeq(Pieces(Reading, Reading.user))
  BY <1>1, <1>4, <1>7, Zenon
<1>9. Space \notin ToSet(n)
  BY <1>2, WithoutSpace, Zenon
<1> DEFINE tos   == {SubSeq(wire, 2, i) : i \in 1..Len(wire)}
           saids == {SubSeq(wire, i, Len(wire) - 1) : i \in 1..Len(wire)}
<1>10. Reading \in [kind : MessageKinds, to : tos, user : UserNames, content : saids]
  <2>1. k \in MessageKinds /\ n \in tos /\ user \in UserNames /\ c \in saids
    BY <1>1, <1>2, <1>6
  <2> HIDE DEF tos, saids
  <2>2. QED
    BY <1>4, <2>1
<1>11. Space \notin ToSet(Reading.to) /\ (Reading.kind # "group" => Reading.to = <<>>)
  BY <1>3, <1>4, <1>9, Zenon DEF n
<1> HIDE DEF tos, saids
<1>12. QED
  BY <1>8, <1>10, <1>11, Zenon DEF Readings, tos, saids

\* Nothing else can be read.
LEMMA OnlyReading ==
  ASSUME Inv, IsMessage, pieces = <<>>, NEW r \in Readings
  PROVE  r = Reading
<1> DEFINE tos   == {SubSeq(wire, 2, i) : i \in 1..Len(wire)}
           saids == {SubSeq(wire, i, Len(wire) - 1) : i \in 1..Len(wire)}
<1>1. /\ Result(payload) /\ user \in UserNames /\ wire \in Seq(Frame)
      /\ wire = SentLine(payload.kind, Reading.to, user, payload.content)
  BY WireIsSent
<1>2. /\ payload.kind \in MessageKinds /\ user \in Seq(Frame)
      /\ Reading.to \in Seq(Frame) /\ payload.content \in Seq(Frame)
      /\ Without(Reading.to, Space)
  BY <1>1, ReadingType
<1>3. /\ r \in [kind : MessageKinds, to : tos, user : UserNames, content : saids]
      /\ Space \notin ToSet(r.to) /\ (r.kind # "group" => r.to = <<>>)
      /\ wire = FlattenSeq(Pieces(r, r.user))
  BY Zenon DEF Readings
<1>4. r.to \in tos /\ r.content \in saids
  <2> HIDE DEF tos, saids
  <2> QED BY <1>3
<1>5. r.to \in Seq(Frame) /\ r.content \in Seq(Frame)
  <2>1. PICK i \in 1..Len(wire) : r.to = SubSeq(wire, 2, i)
    BY <1>4
  <2>2. PICK j \in 1..Len(wire) : r.content = SubSeq(wire, j, Len(wire) - 1)
    BY <1>4
  <2>3. Len(wire) \in Nat
    BY <1>1
  <2>4. SubSeq(wire, 2, i) \in Seq(Frame)
    BY <1>1, <2>3, PartOfWire
  <2>5. SubSeq(wire, j, Len(wire) - 1) \in Seq(Frame)
    BY <1>1, <2>3, PartOfWire
  <2>6. QED
    BY <2>1, <2>2, <2>4, <2>5, Zenon
<1> HIDE DEF tos, saids
<1>6. r.kind \in MessageKinds /\ r.user \in UserNames
  BY <1>3
<1>7. r.user \in Seq(Frame)
  <2>1. {"a", "b"} \subseteq Frame
    BY DEF Frame, Chars
  <2>2. QED
    BY <1>6, <2>1, NamesAssumption, SeqMonotonic
<1>8. wire = SentLine(r.kind, r.to, r.user, r.content)
  BY <1>3, <1>5, <1>6, <1>7, PiecesSent, Zenon
<1>9. Without(r.to, Space)
  BY <1>3, <1>5, WithoutSpace, Zenon
<1>10. SentLine(payload.kind, Reading.to, user, payload.content)
         = SentLine(r.kind, r.to, r.user, r.content)
  BY <1>1, <1>8, Zenon
<1>11. /\ payload.kind = r.kind /\ user = r.user /\ payload.content = r.content
       /\ payload.kind = "group" => Reading.to = r.to
  BY <1>1, <1>2, <1>5, <1>6, <1>9, <1>10, OneLine
<1>12. Reading.to = r.to
  <2>1. CASE payload.kind = "group"
    BY <1>11, <2>1
  <2>2. CASE payload.kind # "group"
    BY <1>3, <1>11, <2>2 DEF Reading
  <2>3. QED
    BY <2>1, <2>2
<1>13. /\ Reading = [kind |-> payload.kind, user |-> user, content |-> payload.content,
                     to |-> Reading.to]
       /\ r = [kind |-> r.kind, user |-> r.user, content |-> r.content, to |-> r.to]
  <2>1. Reading = [kind |-> payload.kind, user |-> user, content |-> payload.content,
                   to |-> Reading.to]
    BY DEF Reading
  <2>2. r = [kind |-> r.kind, user |-> r.user, content |-> r.content, to |-> r.to]
    BY <1>3
  <2>3. QED
    BY <2>1, <2>2, Zenon
<1>14. QED
  BY <1>11, <1>12, <1>13, Zenon

\* Whoever has the whole line of a message can read it in one way only, the
\* right one: no name and nothing that is said can be taken for another part
\* of the frame that send() puts around them.
THEOREM LinesAreUnambiguous == Spec => []ReadInOneWay
<1>1. ASSUME Inv, IsMessage, pieces = <<>>
      PROVE  Readings = {Reading}
  BY <1>1, RightReading, OnlyReading, Zenon
<1>2. Inv => ReadInOneWay
  BY <1>1, Zenon DEF ReadInOneWay, Reading
<1>3. QED
  BY <1>2, Invariant, PTL
=============================================================================
