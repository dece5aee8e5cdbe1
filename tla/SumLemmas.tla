----------------------------- MODULE SumLemmas -----------------------------
(***************************************************************************)
(* Induction over numbers and finite sets, by a least counterexample, and  *)
(* the facts about sums over finite sets that follow from it.  The things  *)
(* an induction proves are collected in a set, never in an operator.       *)
(***************************************************************************)
EXTENDS Sums, Sequences, TLAPS

\* The provers that try a leaf, one after the other, and the seconds each of them has.
USE SMTT(60), ZenonT(60), Z3T(60)

-----------------------------------------------------------------------------
(* Induction.                                                              *)

\* Every set of natural numbers that is not empty has a least element.  This is all that
\* the inductions rest on.  It is a hypothesis of the lemmas and is proved, from the library's
\* theorems on well-founded relations, where the theorems are: the provers are given every
\* statement in scope, and that library's slow them down.
WellOrdered == \A T \in SUBSET Nat : T # {} => \E x \in T : \A y \in T : x <= y

\* A set that has 0 and the successor of each natural number it has has them all.
LEMMA NatSetInduction ==
  ASSUME WellOrdered, NEW P, 0 \in P, \A n \in Nat : n \in P => n + 1 \in P
  PROVE  \A n \in Nat : n \in P
<1> SUFFICES ASSUME Nat \ P # {}  PROVE FALSE
  OBVIOUS
<1>1. PICK x \in Nat \ P : \A y \in Nat \ P : x <= y
  BY ZenonT(90) DEF WellOrdered
<1>2. x # 0 /\ x - 1 \in Nat
  BY <1>1
<1>3. x - 1 \in P
  BY <1>1, <1>2
<1> QED
  BY <1>1, <1>2, <1>3

\* A set that has every natural number of which it has all smaller ones has them all.
LEMMA NatStrongInduction ==
  ASSUME WellOrdered, NEW P, \A n \in Nat : (\A k \in Nat : k < n => k \in P) => n \in P
  PROVE  \A n \in Nat : n \in P
<1> SUFFICES ASSUME Nat \ P # {}  PROVE FALSE
  OBVIOUS
<1>1. PICK x \in Nat \ P : \A y \in Nat \ P : x <= y
  BY ZenonT(90) DEF WellOrdered
<1>2. \A k \in Nat : k < x => k \in P
  BY <1>1
<1> QED
  BY <1>1, <1>2

-----------------------------------------------------------------------------
(* Finite sets.                                                            *)

\* The elements of S are among n things.
CoveredBy(S, n) == \E g : \A x \in S : \E j \in 1..n : g[j] = x

\* A finite set is covered by some number of things.
LEMMA FiniteCovered ==
  ASSUME NEW S, IsFiniteSet(S)
  PROVE  \E n \in Nat : CoveredBy(S, n)
<1>1. PICK seq \in Seq(S) : \A x \in S : \E n \in 1..Len(seq) : seq[n] = x
  BY DEF IsFiniteSet
<1>2. Len(seq) \in Nat
  OBVIOUS
<1> QED
  BY ZenonT(90), <1>1, <1>2 DEF CoveredBy

\* A set covered by n things is finite.
LEMMA CoveredFinite ==
  ASSUME NEW S, NEW n \in Nat, CoveredBy(S, n)
  PROVE  IsFiniteSet(S)
<1>1. CASE S = {}
  <2>1. <<>> \in Seq(S)
    OBVIOUS
  <2> QED
    BY ZenonT(90), <1>1, <2>1 DEF IsFiniteSet
<1>2. CASE S # {}
  <2>1. PICK g : \A x \in S : \E j \in 1..n : g[j] = x
    BY DEF CoveredBy
  <2>2. PICK y \in S : TRUE
    BY <1>2
  <2> DEFINE seq == [j \in 1..n |-> IF g[j] \in S THEN g[j] ELSE y]
  <2>3. seq \in Seq(S) /\ Len(seq) = n
    BY <2>2
  <2>4. \A x \in S : \E j \in 1..n : seq[j] = x
    BY <2>1
  <2> HIDE DEF seq
  <2> QED
    BY <2>3, <2>4 DEF IsFiniteSet
<1> QED
  BY <1>1, <1>2

\* A set of n + 1 things has n without one of them.
LEMMA CoveredRemove ==
  ASSUME NEW T, NEW n \in Nat, CoveredBy(T, n + 1), NEW x \in T
  PROVE  CoveredBy(T \ {x}, n)
<1>1. PICK g : \A y \in T : \E j \in 1..n + 1 : g[j] = y
  BY DEF CoveredBy
<1>2. PICK i \in 1..n + 1 : g[i] = x
  BY <1>1
<1> DEFINE h == [j \in 1..n |-> IF j = i THEN g[n + 1] ELSE g[j]]
<1>3. ASSUME NEW y \in T \ {x}
      PROVE  \E j \in 1..n : h[j] = y
  <2>1. PICK j \in 1..n + 1 : g[j] = y
    BY <1>1
  <2>2. CASE j = n + 1
    <3>1. i \in 1..n /\ h[i] = y
      BY <1>2, <2>1, <2>2
    <3> QED
      BY <3>1
  <2>3. CASE j # n + 1
    <3>1. j \in 1..n /\ h[j] = y
      BY <1>2, <2>1, <2>3
    <3> QED
      BY <3>1
  <2> QED
    BY <2>2, <2>3
<1> HIDE DEF h
<1> QED
  BY <1>3 DEF CoveredBy

\* A part of a finite set is finite.
LEMMA FiniteSubset ==
  ASSUME NEW S, IsFiniteSet(S), NEW T \in SUBSET S
  PROVE  IsFiniteSet(T)
<1>1. PICK n \in Nat : CoveredBy(S, n)
  BY FiniteCovered, ZenonT(90)
<1>2. CoveredBy(T, n)
  BY <1>1 DEF CoveredBy
<1> QED
  BY <1>2, CoveredFinite, ZenonT(90)

\* The empty set and a set of one element are finite.
LEMMA FiniteSmall ==
  ASSUME NEW x
  PROVE  IsFiniteSet({}) /\ IsFiniteSet({x})
<1> DEFINE g == [j \in 1..1 |-> x]
<1>1. \A y \in {x} : \E j \in 1..1 : g[j] = y
  OBVIOUS
<1> HIDE DEF g
<1>2. CoveredBy({}, 1) /\ CoveredBy({x}, 1) /\ 1 \in Nat
  BY <1>1 DEF CoveredBy
<1> QED
  BY <1>2, CoveredFinite, ZenonT(90)

\* An interval is finite.
LEMMA FiniteInterval ==
  ASSUME NEW n \in Nat
  PROVE  IsFiniteSet(1..n)
<1> DEFINE g == [j \in 1..n |-> j]
<1>1. \A x \in 1..n : \E j \in 1..n : g[j] = x
  OBVIOUS
<1> HIDE DEF g
<1>2. CoveredBy(1..n, n)
  BY <1>1 DEF CoveredBy
<1> QED
  BY <1>2, CoveredFinite, ZenonT(90)

\* What a function makes of a finite set is finite.
LEMMA FiniteImage ==
  ASSUME NEW S, IsFiniteSet(S), NEW f, NEW T, \A y \in T : \E x \in S : f[x] = y
  PROVE  IsFiniteSet(T)
<1>1. PICK n \in Nat : CoveredBy(S, n)
  BY FiniteCovered, ZenonT(90)
<1>2. PICK g : \A x \in S : \E j \in 1..n : g[j] = x
  BY <1>1 DEF CoveredBy
<1> DEFINE h == [j \in 1..n |-> f[g[j]]]
<1>3. \A y \in T : \E j \in 1..n : h[j] = y
  BY <1>2
<1> HIDE DEF h
<1>4. CoveredBy(T, n)
  BY <1>3 DEF CoveredBy
<1> QED
  BY <1>4, CoveredFinite, ZenonT(90)

\* Two finite sets together are finite.
LEMMA FiniteUnion ==
  ASSUME NEW S, IsFiniteSet(S), NEW T, IsFiniteSet(T)
  PROVE  IsFiniteSet(S \cup T)
<1>1. PICK n \in Nat : CoveredBy(S, n)
  BY FiniteCovered, ZenonT(90)
<1>2. PICK m \in Nat : CoveredBy(T, m)
  BY FiniteCovered, ZenonT(90)
<1>3. PICK f : \A x \in S : \E j \in 1..n : f[j] = x
  BY <1>1 DEF CoveredBy
<1>4. PICK g : \A x \in T : \E j \in 1..m : g[j] = x
  BY <1>2 DEF CoveredBy
<1> DEFINE h == [j \in 1..n + m |-> IF j <= n THEN f[j] ELSE g[j - n]]
<1>5. ASSUME NEW x \in S  PROVE \E j \in 1..n + m : h[j] = x
  <2>1. PICK j \in 1..n : f[j] = x
    BY <1>3
  <2>2. j \in 1..n + m /\ h[j] = x
    BY <2>1
  <2> QED
    BY <2>2
<1>6. ASSUME NEW x \in T  PROVE \E j \in 1..n + m : h[j] = x
  <2>1. PICK j \in 1..m : g[j] = x
    BY <1>4
  <2>2. n + j \in 1..n + m /\ h[n + j] = x
    BY <2>1
  <2> QED
    BY <2>2
<1> HIDE DEF h
<1>7. CoveredBy(S \cup T, n + m) /\ n + m \in Nat
  BY <1>5, <1>6 DEF CoveredBy
<1> QED
  BY <1>7, CoveredFinite, ZenonT(90)

\* A finite set S is in P if every part T of S is, once all sets that T becomes by losing
\* one element are.
LEMMA FiniteSetInduction ==
  ASSUME WellOrdered, NEW S, IsFiniteSet(S), NEW P,
         \A T \in SUBSET S : (\A x \in T : T \ {x} \in P) => T \in P
  PROVE  S \in P
<1> DEFINE N == {n \in Nat : \A T \in SUBSET S : CoveredBy(T, n) => T \in P}
<1>1. 0 \in N
  <2>1. \A T \in SUBSET S : CoveredBy(T, 0) => T = {}
    BY DEF CoveredBy
  <2> QED
    BY <2>1
<1>2. ASSUME NEW n \in Nat, n \in N  PROVE n + 1 \in N
  <2> SUFFICES ASSUME NEW T \in SUBSET S, CoveredBy(T, n + 1)
               PROVE  T \in P
    OBVIOUS
  <2>1. ASSUME NEW x \in T  PROVE T \ {x} \in P
    <3>1. CoveredBy(T \ {x}, n)
      BY CoveredRemove, ZenonT(90)
    <3> QED
      BY <1>2, <3>1
  <2> QED
    BY <2>1
<1> HIDE DEF N
<1>3. \A n \in Nat : n \in N
  BY <1>1, <1>2, NatSetInduction, ZenonT(90)
<1>4. PICK n \in Nat : CoveredBy(S, n)
  BY FiniteCovered, ZenonT(90)
<1>5. n \in N
  BY <1>3
<1> QED
  BY <1>4, <1>5 DEF N

-----------------------------------------------------------------------------
(* What the fold of the community modules computes: a table of the sums of *)
(* all parts of the set.                                                   *)

Pick(s) == CHOOSE x \in s : TRUE

\* The function sums has the domain D and satisfies the recursion of the fold there.
IsFold(sums, f, D) ==
  sums = [s \in D |-> IF s = {} THEN 0 ELSE f[Pick(s)] + sums[s \ {Pick(s)}]]

\* It satisfies the recursion for the parts of S.
Table(sums, f, S) ==
  \A s \in SUBSET S : sums[s] = IF s = {} THEN 0 ELSE f[Pick(s)] + sums[s \ {Pick(s)}]

UpTo(S, n) == {s \in SUBSET S : CoveredBy(s, n)}

\* An element taken out of a part of S lowers the entry by its value.
Takes(sums, f, S) == \A T \in SUBSET S : \A x \in T : sums[T] = f[x] + sums[T \ {x}]

IntValued(f, S) == \A x \in S : f[x] \in Int
NatValued(f, S) == \A x \in S : f[x] \in Nat
SameOn(f, g, S) == \A x \in S : f[x] = g[x]

\* The sums of f and of g differ by as much as their values at x.
SumChangesAt(f, g, S, x) == SumOver(g, S) = SumOver(f, S) + (g[x] - f[x])

Moves(f, g, S, x, y, p, q) ==
  \A a \in S : g[a] = f[a] - (IF a = x THEN p ELSE 0) + (IF a = y THEN q ELSE 0)
SumMoves(f, g, S, p, q) == SumOver(g, S) = SumOver(f, S) - p + q

-----------------------------------------------------------------------------
(* Sums over finite sets.                                                  *)

\* The rules of sums, from the table of the sums of all parts of a set: nothing sums to
\* zero, a sum depends on the values only, integers sum to an integer, and a sum is the value
\* of any one element and the sum over the others.
LEMMA SumRules ==
  ASSUME WellOrdered
  PROVE  /\ \A f : SumOver(f, {}) = 0
         /\ \A S, f, g : IsFiniteSet(S) /\ SameOn(f, g, S) => SumOver(f, S) = SumOver(g, S)
         /\ \A S, f : IsFiniteSet(S) /\ IntValued(f, S) => SumOver(f, S) \in Int
         /\ \A S, f : IsFiniteSet(S) /\ IntValued(f, S) =>
                        \A x \in S : SumOver(f, S) = f[x] + SumOver(f, S \ {x})
  \* A set that is not empty has the element that is picked.
  <1>PickIn.
      ASSUME NEW s, s # {}
      PROVE  Pick(s) \in s
    BY <1>PickIn DEF Pick
  \* The recursion of the fold has a solution, built up by the size of the parts.
  <1>FoldExists.
      ASSUME NEW S, IsFiniteSet(S), NEW f
      PROVE  \E sums : IsFold(sums, f, SUBSET S)
    <2> USE <1>FoldExists
    <2> DEFINE N == {n \in Nat : \E sums : IsFold(sums, f, UpTo(S, n))}
    <2>1. 0 \in N
      <3> DEFINE sums == [s \in UpTo(S, 0) |-> 0]
      <3>1. \A T \in UpTo(S, 0) : T = {}
        BY DEF UpTo, CoveredBy
      <3>2. sums = [s \in UpTo(S, 0) |-> IF s = {} THEN 0 ELSE f[Pick(s)] + sums[s \ {Pick(s)}]]
        BY <3>1
      <3>3. IsFold(sums, f, UpTo(S, 0))
        BY <3>2 DEF IsFold
      <3> HIDE DEF sums
      <3> QED
        BY <3>3
    <2>2. ASSUME NEW n \in Nat, n \in N  PROVE n + 1 \in N
      <3>1. PICK sums : IsFold(sums, f, UpTo(S, n))
        BY <2>2
      <3> DEFINE more == [s \in UpTo(S, n + 1) |->
                            IF s = {} THEN 0 ELSE f[Pick(s)] + sums[s \ {Pick(s)}]]
      <3>2. \A s \in UpTo(S, n) : s \in UpTo(S, n + 1)
        <4>1. 1..n \subseteq 1..n + 1
          OBVIOUS
        <4> QED
          BY <4>1, ZenonT(90) DEF UpTo, CoveredBy
      <3>3. \A s \in UpTo(S, n) : sums[s] = IF s = {} THEN 0 ELSE f[Pick(s)] + sums[s \ {Pick(s)}]
        BY ZenonT(90), <3>1 DEF IsFold
      <3>4. \A s \in UpTo(S, n) : sums[s] = more[s]
        BY ZenonT(90), <3>2, <3>3
      <3>5. ASSUME NEW s \in UpTo(S, n + 1), s # {}
            PROVE  s \ {Pick(s)} \in UpTo(S, n)
        <4>1. s \in SUBSET S /\ CoveredBy(s, n + 1)
          BY DEF UpTo
        <4>2. Pick(s) \in s
          BY <3>5, <1>PickIn
        <4>3. CoveredBy(s \ {Pick(s)}, n)
          BY <4>1, <4>2, CoveredRemove, ZenonT(90)
        <4> QED
          BY <4>1, <4>3 DEF UpTo
      <3> HIDE DEF more
      <3>6. \A s \in UpTo(S, n + 1) : s # {} => sums[s \ {Pick(s)}] = more[s \ {Pick(s)}]
        BY <3>4, <3>5
      <3>7. more = [s \in UpTo(S, n + 1) |->
                      IF s = {} THEN 0 ELSE f[Pick(s)] + more[s \ {Pick(s)}]]
        BY ZenonT(90), <3>6 DEF more
      <3>8. IsFold(more, f, UpTo(S, n + 1))
        BY ZenonT(90), <3>7 DEF IsFold
      <3> QED
        BY <3>8
    <2> HIDE DEF N
    <2>3. \A n \in Nat : n \in N
      BY <2>1, <2>2, NatSetInduction, ZenonT(90)
    <2>4. PICK n \in Nat : CoveredBy(S, n)
      BY FiniteCovered, ZenonT(90)
    <2>5. n \in N
      BY <2>3
    <2>6. UpTo(S, n) = SUBSET S
      BY <2>4 DEF UpTo, CoveredBy
    <2> QED
      BY ZenonT(90), <2>5, <2>6 DEF N
  \* The sum over S is the entry of S in such a table.
  <1>SumOverTable.
      ASSUME NEW S, IsFiniteSet(S), NEW f
      PROVE  \E sums : Table(sums, f, S) /\ SumOver(f, S) = sums[S]
    <2> USE <1>SumOverTable
    <2>1. \E sums : IsFold(sums, f, SUBSET S)
      BY ZenonT(90), <1>FoldExists
    <2>2. \E sums : IsFold(sums, f, SUBSET S) /\ SumOver(f, S) = sums[S]
      BY <2>1, ZenonT(90) DEF IsFold, SumOver, MapThenSumSet, MapThenFoldSet, Pick
    <2>3. PICK sums : IsFold(sums, f, SUBSET S) /\ SumOver(f, S) = sums[S]
      BY <2>2
    <2>4. Table(sums, f, S)
      BY ZenonT(90), <2>3 DEF IsFold, Table
    <2> QED
      BY <2>3, <2>4
  \* Tables of functions that are the same on S agree about S.
  <1>TablesAgree.
      ASSUME NEW S, IsFiniteSet(S), NEW f, NEW g, NEW sums, NEW others,
             Table(sums, f, S), Table(others, g, S), SameOn(f, g, S)
      PROVE  sums[S] = others[S]
    <2> USE <1>TablesAgree
    <2> DEFINE P == {T \in SUBSET S : sums[T] = others[T]}
    <2>1. ASSUME NEW T \in SUBSET S, \A x \in T : T \ {x} \in P
          PROVE  T \in P
      <3>1. CASE T = {}
        BY ZenonT(90), <3>1 DEF Table
      <3>2. CASE T # {}
        <4>1. Pick(T) \in T
          BY <3>2, <1>PickIn
        <4>2. sums[T] = f[Pick(T)] + sums[T \ {Pick(T)}]
          BY ZenonT(90), <3>2 DEF Table
        <4>3. others[T] = g[Pick(T)] + others[T \ {Pick(T)}]
          BY <3>2 DEF Table
        <4>4. sums[T \ {Pick(T)}] = others[T \ {Pick(T)}]
          BY <2>1, <4>1
        <4>5. f[Pick(T)] = g[Pick(T)]
          BY <4>1 DEF SameOn
        <4> QED
          BY <4>2, <4>3, <4>4, <4>5
      <3> QED
        BY <3>1, <3>2
    <2> HIDE DEF P
    <2>2. S \in P
      BY <2>1, FiniteSetInduction, ZenonT(90)
    <2> QED
      BY <2>2 DEF P
  \* The sums over all parts of S are found in a table of S.
  <1>SumOfPart.
      ASSUME NEW S, IsFiniteSet(S), NEW f, NEW sums, Table(sums, f, S), NEW T \in SUBSET S
      PROVE  SumOver(f, T) = sums[T]
    <2> USE <1>SumOfPart
    <2>1. IsFiniteSet(T)
      BY FiniteSubset, ZenonT(90)
    <2>2. PICK others : Table(others, f, T) /\ SumOver(f, T) = others[T]
      BY <2>1, <1>SumOverTable, ZenonT(90)
    <2>3. Table(sums, f, T)
      BY ZenonT(90) DEF Table
    <2>4. SameOn(f, f, T)
      BY DEF SameOn
    <2>5. sums[T] = others[T]
      BY <2>1, <2>2, <2>3, <2>4, <1>TablesAgree
    <2> QED
      BY <2>2, <2>5
  \* Nothing sums to zero.
  <1>SumOverEmpty.
      ASSUME NEW f
      PROVE  SumOver(f, {}) = 0
    <2> USE <1>SumOverEmpty
    <2>1. PICK sums : Table(sums, f, {}) /\ SumOver(f, {}) = sums[{}]
      BY <1>SumOverTable, FiniteSmall, ZenonT(90)
    <2> QED
      BY <2>1 DEF Table
  \* A sum depends on the values of the function only.
  <1>SumOverSame.
      ASSUME NEW S, IsFiniteSet(S), NEW f, NEW g, SameOn(f, g, S)
      PROVE  SumOver(f, S) = SumOver(g, S)
    <2> USE <1>SumOverSame
    <2>1. PICK sums : Table(sums, f, S) /\ SumOver(f, S) = sums[S]
      BY <1>SumOverTable, ZenonT(90)
    <2>2. PICK others : Table(others, g, S) /\ SumOver(g, S) = others[S]
      BY <1>SumOverTable, ZenonT(90)
    <2>3. sums[S] = others[S]
      BY <2>1, <2>2, <1>TablesAgree
    <2> QED
      BY <2>1, <2>2, <2>3
  \* Integers sum to an integer.
  <1>SumOverInt.
      ASSUME NEW S, IsFiniteSet(S), NEW f, IntValued(f, S)
      PROVE  SumOver(f, S) \in Int
    <2> USE <1>SumOverInt
    <2>1. PICK sums : Table(sums, f, S) /\ SumOver(f, S) = sums[S]
      BY <1>SumOverTable, ZenonT(90)
    <2> DEFINE P == {T \in SUBSET S : sums[T] \in Int}
    <2>2. ASSUME NEW T \in SUBSET S, \A x \in T : T \ {x} \in P
          PROVE  T \in P
      <3>1. CASE T = {}
        BY Z3T(60), <2>1, <3>1 DEF Table
      <3>2. CASE T # {}
        <4>1. Pick(T) \in T
          BY <3>2, <1>PickIn
        <4>2. sums[T] = f[Pick(T)] + sums[T \ {Pick(T)}]
          BY <2>1, <3>2 DEF Table
        <4>3. sums[T \ {Pick(T)}] \in Int /\ f[Pick(T)] \in Int
          BY ZenonT(90), <2>2, <4>1 DEF IntValued
        <4> QED
          BY <4>2, <4>3
      <3> QED
        BY <3>1, <3>2
    <2> HIDE DEF P
    <2>3. S \in P
      BY <2>2, FiniteSetInduction, ZenonT(90)
    <2> QED
      BY <2>1, <2>3 DEF P
  \* Whichever element of a part is taken out, its value is what the sum falls by.
  <1>TableTake.
      ASSUME NEW S, IsFiniteSet(S), NEW f, IntValued(f, S), NEW sums, Table(sums, f, S)
      PROVE  Takes(sums, f, S)
    <2> USE <1>TableTake
    <2> DEFINE P == {T \in SUBSET S : \A x \in T : sums[T] = f[x] + sums[T \ {x}]}
    <2>1. ASSUME NEW T \in SUBSET S
          PROVE  IsFiniteSet(T) /\ sums[T] \in Int
      <3>1. IsFiniteSet(T)
        BY FiniteSubset, ZenonT(90)
      <3>2. SumOver(f, T) = sums[T]
        BY <1>SumOfPart
      <3>3. IntValued(f, T)
        BY DEF IntValued
      <3>4. SumOver(f, T) \in Int
        BY <3>1, <3>3, <1>SumOverInt
      <3> QED
        BY <3>1, <3>2, <3>4
    <2>2. ASSUME NEW T \in SUBSET S, \A x \in T : T \ {x} \in P
          PROVE  T \in P
      <3> SUFFICES ASSUME NEW x \in T
                   PROVE  sums[T] = f[x] + sums[T \ {x}]
        OBVIOUS
      <3>1. PICK c \in T : sums[T] = f[c] + sums[T \ {c}]
        <4>1. sums[T] = f[Pick(T)] + sums[T \ {Pick(T)}]
          BY DEF Table
        <4>2. Pick(T) \in T
          BY <1>PickIn
        <4> QED
          BY ZenonT(90), <4>1, <4>2
      <3>2. CASE c = x
        BY <3>1, <3>2
      <3>3. CASE c # x
        <4> DEFINE rest == (T \ {c}) \ {x}
        <4>1. sums[T \ {c}] = f[x] + sums[rest]
          BY ZenonT(90), <2>2, <3>3
        <4>2. sums[T \ {x}] = f[c] + sums[(T \ {x}) \ {c}]
          BY ZenonT(90), <2>2, <3>3
        <4>3. (T \ {x}) \ {c} = rest /\ rest \in SUBSET S
          OBVIOUS
        <4>4. sums[rest] \in Int /\ f[x] \in Int /\ f[c] \in Int
          BY <2>1, <4>3 DEF IntValued
        <4> HIDE DEF rest
        <4>5. sums[T] = f[c] + (f[x] + sums[rest])
          BY <3>1, <4>1, ZenonT(90)
        <4>6. sums[T \ {x}] = f[c] + sums[rest]
          BY <4>2, <4>3, ZenonT(90)
        <4> QED
          BY <4>4, <4>5, <4>6
      <3> QED
        BY <3>2, <3>3
    <2> HIDE DEF P
    <2>3. ASSUME NEW T \in SUBSET S
          PROVE  T \in P
      <3>1. \A U \in SUBSET T : (\A x \in U : U \ {x} \in P) => U \in P
        BY <2>2
      <3> QED
        BY <2>1, <3>1, FiniteSetInduction, ZenonT(90)
    <2> QED
      BY ZenonT(90), <2>3 DEF P, Takes
  \* A sum is the value of one element and the sum over the others.
  <1>SumOverTake.
      ASSUME NEW S, IsFiniteSet(S), NEW f, IntValued(f, S), NEW x \in S
      PROVE  SumOver(f, S) = f[x] + SumOver(f, S \ {x})
    <2> USE <1>SumOverTake
    <2>1. PICK sums : Table(sums, f, S) /\ SumOver(f, S) = sums[S]
      BY <1>SumOverTable, ZenonT(90)
    <2>2. Takes(sums, f, S)
      BY <2>1, <1>TableTake, ZenonT(90)
    <2>3. S \in SUBSET S /\ S \ {x} \in SUBSET S
      OBVIOUS
    <2>4. SumOver(f, S \ {x}) = sums[S \ {x}]
      BY <2>1, <2>3, <1>SumOfPart
    <2>5. sums[S] = f[x] + sums[S \ {x}]
      BY <2>2, <2>3 DEF Takes
    <2> QED
      BY <2>1, <2>4, <2>5
  <1>1. \A f : SumOver(f, {}) = 0
    BY ZenonT(90), <1>SumOverEmpty
  <1>2. \A S, f, g : IsFiniteSet(S) /\ SameOn(f, g, S) => SumOver(f, S) = SumOver(g, S)
    BY ZenonT(90), <1>SumOverSame
  <1>3. \A S, f : IsFiniteSet(S) /\ IntValued(f, S) => SumOver(f, S) \in Int
    BY ZenonT(90), <1>SumOverInt
  <1>4. \A S, f : IsFiniteSet(S) /\ IntValued(f, S) =>
                    \A x \in S : SumOver(f, S) = f[x] + SumOver(f, S \ {x})
    BY ZenonT(90), <1>SumOverTake
  <1> QED
    BY <1>1, <1>2, <1>3, <1>4

\* Nothing sums to zero.
LEMMA SumOverEmpty ==
  ASSUME WellOrdered, NEW f
  PROVE  SumOver(f, {}) = 0
BY SumRules, ZenonT(90)

\* A sum depends on the values of the function only.
LEMMA SumOverSame ==
  ASSUME WellOrdered, NEW S, IsFiniteSet(S), NEW f, NEW g, SameOn(f, g, S)
  PROVE  SumOver(f, S) = SumOver(g, S)
BY SumRules, ZenonT(90)

\* Integers sum to an integer.
LEMMA SumOverInt ==
  ASSUME WellOrdered, NEW S, IsFiniteSet(S), NEW f, IntValued(f, S)
  PROVE  SumOver(f, S) \in Int
BY SumRules, ZenonT(90)

\* A sum is the value of one element and the sum over the others.
LEMMA SumOverTake ==
  ASSUME WellOrdered, NEW S, IsFiniteSet(S), NEW f, IntValued(f, S), NEW x \in S
  PROVE  SumOver(f, S) = f[x] + SumOver(f, S \ {x})
BY SumRules, ZenonT(90)

\* What holds of the smaller sums holds of the sums: the parts of a finite set.
LEMMA PartsFinite ==
  ASSUME WellOrdered, NEW S, IsFiniteSet(S), NEW f, IntValued(f, S), NEW T \in SUBSET S
  PROVE  /\ IsFiniteSet(T)
         /\ IntValued(f, T)
         /\ SumOver(f, T) \in Int
         /\ \A x \in T : f[x] \in Int /\ SumOver(f, T) = f[x] + SumOver(f, T \ {x})
<1>1. IsFiniteSet(T)
  BY FiniteSubset, ZenonT(90)
<1>2. IntValued(f, T)
  BY DEF IntValued
<1>3. SumOver(f, T) \in Int
  BY <1>1, <1>2, SumOverInt
<1>4. \A x \in T : f[x] \in Int
  BY <1>2 DEF IntValued
<1>5. \A x \in T : SumOver(f, T) = f[x] + SumOver(f, T \ {x})
  BY <1>1, <1>2, SumOverTake
<1> QED
  BY <1>1, <1>2, <1>3, <1>4, <1>5, ZenonT(90)

\* Natural numbers sum to a natural number, at least as large as each of them.
LEMMA SumOverNat ==
  ASSUME WellOrdered, NEW S, IsFiniteSet(S), NEW f, NatValued(f, S)
  PROVE  SumOver(f, S) \in Nat /\ \A x \in S : f[x] <= SumOver(f, S)
<1>1. IntValued(f, S)
  BY DEF IntValued, NatValued
<1> DEFINE P == {T \in SUBSET S : SumOver(f, T) \in Nat}
<1>2. ASSUME NEW T \in SUBSET S, \A x \in T : T \ {x} \in P
      PROVE  T \in P
  <2>1. CASE T = {}
    BY <2>1, SumOverEmpty
  <2>2. CASE T # {}
    <3>1. PICK x \in T : TRUE
      BY <2>2
    <3>2. SumOver(f, T) = f[x] + SumOver(f, T \ {x})
      BY <1>1, <3>1, PartsFinite
    <3>3. f[x] \in Nat /\ SumOver(f, T \ {x}) \in Nat
      BY <1>2, <3>1 DEF NatValued
    <3> QED
      BY <3>2, <3>3
  <2> QED
    BY <2>1, <2>2
<1>3. ASSUME NEW T \in SUBSET S
      PROVE  SumOver(f, T) \in Nat
  <2> HIDE DEF P
  <2>1. IsFiniteSet(T)
    BY FiniteSubset, ZenonT(90)
  <2>2. \A U \in SUBSET T : (\A x \in U : U \ {x} \in P) => U \in P
    BY <1>2
  <2>3. T \in P
    BY <2>1, <2>2, FiniteSetInduction, ZenonT(90)
  <2> QED
    BY <2>3 DEF P
<1>4. ASSUME NEW x \in S
      PROVE  f[x] <= SumOver(f, S)
  <2>1. SumOver(f, S) = f[x] + SumOver(f, S \ {x})
    BY <1>1, SumOverTake
  <2>2. SumOver(f, S \ {x}) \in Nat /\ f[x] \in Nat
    BY <1>3 DEF NatValued
  <2> QED
    BY <2>1, <2>2
<1>5. SumOver(f, S) \in Nat
  BY <1>3
<1> QED
  BY <1>4, <1>5

\* A change of one value changes the sum by as much.
LEMMA SumOverChange ==
  ASSUME WellOrdered, NEW S, IsFiniteSet(S), NEW f, NEW g, IntValued(f, S), IntValued(g, S),
         NEW x \in S, SameOn(f, g, S \ {x})
  PROVE  SumChangesAt(f, g, S, x)
<1>1. SumOver(f, S) = f[x] + SumOver(f, S \ {x})
  BY SumOverTake
<1>2. SumOver(g, S) = g[x] + SumOver(g, S \ {x})
  BY SumOverTake
<1>3. IsFiniteSet(S \ {x})
  <2>1. S \ {x} \in SUBSET S
    OBVIOUS
  <2> QED
    BY <2>1, FiniteSubset, ZenonT(90)
<1>4. SumOver(f, S \ {x}) = SumOver(g, S \ {x})
  BY <1>3, SumOverSame
<1>5. S \ {x} \in SUBSET S
  OBVIOUS
<1>6. SumOver(f, S \ {x}) \in Int
  BY <1>5, PartsFinite
<1>7. f[x] \in Int /\ g[x] \in Int
  BY DEF IntValued
<1> QED
  BY <1>1, <1>2, <1>4, <1>6, <1>7 DEF SumChangesAt

\* An amount that leaves one element and another that reaches one, the same or a different
\* one, change the sum by their difference.
LEMMA SumOverMove ==
  ASSUME WellOrdered,
         NEW S, IsFiniteSet(S), NEW f, NEW g, IntValued(f, S), NEW x \in S, NEW y \in S,
         NEW p \in Int, NEW q \in Int, Moves(f, g, S, x, y, p, q)
  PROVE  SumOver(f, S) \in Int /\ SumMoves(f, g, S, p, q)
  <1> DEFINE h == [a \in S |-> f[a] - (IF a = x THEN p ELSE 0)]
  <1>1. /\ \A a \in S : h[a] = f[a] - (IF a = x THEN p ELSE 0)
        /\ \A a \in S : f[a] \in Int
    BY DEF IntValued
  <1> HIDE DEF h
  <1>2. \A a \in S : h[a] \in Int /\ g[a] \in Int /\ g[a] = h[a] + (IF a = y THEN q ELSE 0)
    BY <1>1 DEF Moves
  <1>3. IntValued(h, S) /\ IntValued(g, S)
    BY <1>2 DEF IntValued
  <1>4. SameOn(f, h, S \ {x})
    BY <1>1 DEF SameOn
  <1>5. SameOn(h, g, S \ {y})
    BY <1>2 DEF SameOn
  <1>6. SumOver(f, S) \in Int /\ SumOver(h, S) \in Int
    BY <1>3, SumOverInt, ZenonT(90)
  <1>7. SumChangesAt(f, h, S, x)
    BY <1>3, <1>4, SumOverChange, ZenonT(90)
  <1>8. SumChangesAt(h, g, S, y)
    BY <1>3, <1>5, SumOverChange, ZenonT(90)
  <1>9. h[x] - f[x] = 0 - p
    BY <1>1
  <1>10. g[y] - h[y] = q
    BY <1>2
  <1>11. SumOver(h, S) = SumOver(f, S) + (0 - p)
    BY <1>7, <1>9 DEF SumChangesAt
  <1>12. SumOver(g, S) = SumOver(h, S) + q
    BY <1>8, <1>10 DEF SumChangesAt
  <1> QED
    BY <1>6, <1>11, <1>12 DEF SumMoves

\* Zeros sum to zero.
LEMMA SumOverZero ==
  ASSUME WellOrdered, NEW S, IsFiniteSet(S), NEW f, \A x \in S : f[x] = 0
  PROVE  SumOver(f, S) = 0
<1>1. IntValued(f, S)
  BY DEF IntValued
<1> DEFINE P == {T \in SUBSET S : SumOver(f, T) = 0}
<1>2. ASSUME NEW T \in SUBSET S, \A x \in T : T \ {x} \in P
      PROVE  T \in P
  <2>1. CASE T = {}
    BY <2>1, SumOverEmpty
  <2>2. CASE T # {}
    <3>1. PICK x \in T : TRUE
      BY <2>2
    <3>2. SumOver(f, T) = f[x] + SumOver(f, T \ {x})
      BY <1>1, <3>1, PartsFinite
    <3>3. f[x] = 0 /\ SumOver(f, T \ {x}) = 0
      BY <1>2, <3>1
    <3> QED
      BY <3>2, <3>3
  <2> QED
    BY <2>1, <2>2
<1> HIDE DEF P
<1>3. S \in P
  BY <1>2, FiniteSetInduction, ZenonT(90)
<1> QED
  BY <1>3 DEF P

\* The sum of sums is the sum over both.
LEMMA SumOverPlus ==
  ASSUME WellOrdered,
         NEW S, IsFiniteSet(S), NEW f, NEW g, NEW h, IntValued(f, S), IntValued(g, S),
         \A x \in S : h[x] = f[x] + g[x]
  PROVE  SumOver(h, S) = SumOver(f, S) + SumOver(g, S)
<1>1. IntValued(h, S)
  BY DEF IntValued
<1> DEFINE P == {T \in SUBSET S : SumOver(h, T) = SumOver(f, T) + SumOver(g, T)}
<1>2. ASSUME NEW T \in SUBSET S, \A x \in T : T \ {x} \in P
      PROVE  T \in P
  <2>1. CASE T = {}
    BY <2>1, SumOverEmpty
  <2>2. CASE T # {}
    <3>1. PICK x \in T : TRUE
      BY <2>2
    <3> DEFINE U == T \ {x}
    <3>2. SumOver(h, T) = h[x] + SumOver(h, U)
      BY <1>1, <3>1, PartsFinite
    <3>3. SumOver(f, T) = f[x] + SumOver(f, U)
      BY <3>1, PartsFinite
    <3>4. SumOver(g, T) = g[x] + SumOver(g, U)
      BY <3>1, PartsFinite
    <3>5. U \in SUBSET S
      OBVIOUS
    <3>6. SumOver(f, U) \in Int /\ SumOver(g, U) \in Int
      BY <3>5, PartsFinite
    <3>7. f[x] \in Int /\ g[x] \in Int /\ h[x] = f[x] + g[x]
      BY <3>1 DEF IntValued
    <3>8. SumOver(h, U) = SumOver(f, U) + SumOver(g, U)
      BY <1>2, <3>1
    <3> HIDE DEF U
    <3>9. SumOver(h, T) = SumOver(f, T) + SumOver(g, T)
      BY <3>2, <3>3, <3>4, <3>6, <3>7, <3>8
    <3> QED
      BY <3>9
  <2> QED
    BY <2>1, <2>2
<1> HIDE DEF P
<1>3. S \in P
  BY <1>2, FiniteSetInduction, ZenonT(90)
<1> QED
  BY <1>3 DEF P

\* A function that is nowhere larger than another has no larger sum.
LEMMA SumOverMonotone ==
  ASSUME WellOrdered, NEW S, IsFiniteSet(S), NEW f, NEW g, IntValued(f, S), IntValued(g, S),
         \A x \in S : f[x] <= g[x]
  PROVE  SumOver(f, S) <= SumOver(g, S)
<1> DEFINE d == [x \in S |-> g[x] - f[x]]
<1>1. IntValued(d, S) /\ NatValued(d, S)
  BY DEF IntValued, NatValued
<1>2. \A x \in S : g[x] = f[x] + d[x]
  BY DEF IntValued
<1> HIDE DEF d
<1>3. SumOver(g, S) = SumOver(f, S) + SumOver(d, S)
  BY <1>1, <1>2, SumOverPlus
<1>4. SumOver(d, S) \in Nat
  BY <1>1, SumOverNat
<1>5. SumOver(f, S) \in Int
  BY SumOverInt
<1> QED
  BY <1>3, <1>4, <1>5

\* Elements whose value is zero do not count.
LEMMA SumOverRest ==
  ASSUME WellOrdered, NEW S, IsFiniteSet(S), NEW f, IntValued(f, S), NEW T \in SUBSET S,
         \A x \in S \ T : f[x] = 0
  PROVE  SumOver(f, S) = SumOver(f, T)
<1> DEFINE P == {U \in SUBSET S : SumOver(f, U) = SumOver(f, U \cap T)}
<1>1. ASSUME NEW U \in SUBSET S, \A x \in U : U \ {x} \in P
      PROVE  U \in P
  <2>1. CASE U \subseteq T
    <3>1. U \cap T = U
      BY <2>1
    <3> QED
      BY <3>1
  <2>2. CASE ~(U \subseteq T)
    <3>1. PICK x \in U : x \notin T
      BY <2>2
    <3>2. SumOver(f, U) = f[x] + SumOver(f, U \ {x})
      BY <3>1, PartsFinite
    <3>3. SumOver(f, U \ {x}) = SumOver(f, (U \ {x}) \cap T)
      BY <1>1, <3>1
    <3>4. (U \ {x}) \cap T = U \cap T
      BY <3>1
    <3>5. U \cap T \in SUBSET S
      OBVIOUS
    <3>6. SumOver(f, U \cap T) \in Int
      BY <3>5, PartsFinite
    <3>7. f[x] = 0
      BY <3>1
    <3>8. SumOver(f, U) = 0 + SumOver(f, U \cap T)
      BY <3>2, <3>3, <3>4, <3>7, ZenonT(90)
    <3> QED
      BY <3>6, <3>8
  <2> QED
    BY <2>1, <2>2
<1> HIDE DEF P
<1>2. S \in P
  BY <1>1, FiniteSetInduction, ZenonT(90)
<1>3. S \cap T = T
  OBVIOUS
<1> QED
  BY <1>2, <1>3 DEF P

-----------------------------------------------------------------------------
(* Crediting and debiting an element of f[1] + ... + f[n].                 *)

\* The indices of a sum are finitely many.
LEMMA Indices ==
  ASSUME NEW n \in Nat, NEW f \in [1..n -> Nat]
  PROVE  IsFiniteSet(1..n) /\ IntValued(f, 1..n) /\ NatValued(f, 1..n)
<1>1. IsFiniteSet(1..n)
  BY FiniteInterval
<1> QED
  BY <1>1 DEF IntValued, NatValued

\* A function that is zero everywhere sums to zero.
LEMMA SumZero ==
  ASSUME WellOrdered, NEW n \in Nat, NEW f \in [1..n -> Nat], \A i \in 1..n : f[i] = 0
  PROVE  SumsTo(f, n, 0)
<1>1. IsFiniteSet(1..n)
  BY Indices
<1> QED
  BY <1>1, SumOverZero DEF SumsTo

\* No element exceeds the sum.
LEMMA SumBounds ==
  ASSUME WellOrdered,
         NEW n \in Nat, NEW f \in [1..n -> Nat], NEW total \in Nat, SumsTo(f, n, total),
         NEW u \in 1..n
  PROVE  f[u] <= total
<1>1. IsFiniteSet(1..n) /\ NatValued(f, 1..n)
  BY Indices
<1> QED
  BY <1>1, SumOverNat DEF SumsTo

\* Crediting an element raises the sum by as much.
LEMMA SumCredit ==
  ASSUME WellOrdered,
         NEW n \in Nat, NEW f \in [1..n -> Nat], NEW total \in Nat, SumsTo(f, n, total),
         NEW u \in 1..n, NEW amount \in Nat
  PROVE  /\ Credit(f, u, amount) \in [1..n -> Nat]
         /\ SumsTo(Credit(f, u, amount), n, total + amount)
<1> DEFINE g == Credit(f, u, amount)
<1>1. g \in [1..n -> Nat] /\ g[u] = f[u] + amount /\ SameOn(f, g, 1..n \ {u})
  BY DEF Credit, SameOn
<1>2. IsFiniteSet(1..n) /\ IntValued(f, 1..n)
  BY Indices
<1> HIDE DEF g
<1>3. IntValued(g, 1..n)
  BY <1>1, Indices
<1>4. SumChangesAt(f, g, 1..n, u)
  BY <1>1, <1>2, <1>3, SumOverChange, ZenonT(90)
<1>5. SumOver(g, 1..n) = total + amount
  BY <1>1, <1>4 DEF SumsTo, SumChangesAt
<1> QED
  BY <1>1, <1>5 DEF SumsTo, g

\* Debiting an element lowers the sum by as much.
LEMMA SumDebit ==
  ASSUME WellOrdered,
         NEW n \in Nat, NEW f \in [1..n -> Nat], NEW total \in Nat, SumsTo(f, n, total),
         NEW u \in 1..n, NEW amount \in Nat, amount <= f[u]
  PROVE  /\ total - amount \in Nat
         /\ Debit(f, u, amount) \in [1..n -> Nat]
         /\ SumsTo(Debit(f, u, amount), n, total - amount)
<1> DEFINE g == Debit(f, u, amount)
<1>1. g \in [1..n -> Nat] /\ g[u] = f[u] - amount /\ SameOn(f, g, 1..n \ {u})
  BY DEF Debit, SameOn
<1>2. IsFiniteSet(1..n) /\ IntValued(f, 1..n)
  BY Indices
<1> HIDE DEF g
<1>3. IntValued(g, 1..n)
  BY <1>1, Indices
<1>4. SumChangesAt(f, g, 1..n, u)
  BY <1>1, <1>2, <1>3, SumOverChange, ZenonT(90)
<1>5. SumOver(g, 1..n) = total - amount
  BY <1>1, <1>4 DEF SumsTo, SumChangesAt
<1>6. f[u] <= total
  BY SumBounds
<1> QED
  BY <1>1, <1>5, <1>6 DEF SumsTo, g

\* An amount that moves from one element to another leaves the sum as it is.
LEMMA SumMove ==
  ASSUME WellOrdered,
         NEW n \in Nat, NEW f \in [1..n -> Nat], NEW total \in Nat, SumsTo(f, n, total),
         NEW u \in 1..n, NEW w \in 1..n, NEW amount \in Nat, amount <= f[u]
  PROVE  /\ Credit(Debit(f, u, amount), w, amount) \in [1..n -> Nat]
         /\ SumsTo(Credit(Debit(f, u, amount), w, amount), n, total)
<1>1. /\ total - amount \in Nat
      /\ Debit(f, u, amount) \in [1..n -> Nat]
      /\ SumsTo(Debit(f, u, amount), n, total - amount)
  BY ZenonT(90), SumDebit
<1>2. /\ Credit(Debit(f, u, amount), w, amount) \in [1..n -> Nat]
      /\ SumsTo(Credit(Debit(f, u, amount), w, amount), n, (total - amount) + amount)
  BY ZenonT(90), <1>1, SumCredit
<1>3. (total - amount) + amount = total
  OBVIOUS
<1> QED
  BY <1>2, <1>3
=============================================================================
