--------------------------- MODULE FoldInduction ---------------------------
(***************************************************************************)
(* Induction over data for the proofs of this project.  The library's      *)
(* induction theorems are about operators P(_) that the provers cannot     *)
(* instantiate; those here are about sets, and the fold is of an operator  *)
(* that is a constant of this module, for an INSTANCE to say which it is.  *)
(* A step of the fold may look at a context, so that what depends on the   *)
(* state of a specification can be handed to it.                           *)
(***************************************************************************)
EXTENDS SequencesExt, FiniteSetTheorems, SequenceTheorems, TLAPS

CONSTANT Op(_,_,_)   \* a step of the fold: the context, the result so far, an element

Fold(ctx, base, seq) == FoldLeft(LAMBDA acc, x : Op(ctx, acc, x), base, seq)

-----------------------------------------------------------------------------
(* Induction over the natural numbers                                      *)

\* A set that has 0, and the successor of each natural number in it, has all of them:
\* else the smallest interval 1..n with n not in the set could be made smaller.
LEMMA SetInduction ==
  ASSUME NEW T, 0 \in T, \A n \in Nat : n \in T => n+1 \in T
  PROVE  Nat \subseteq T
<1>1. SUFFICES ASSUME Nat \ T # {} PROVE FALSE
  OBVIOUS
<1> DEFINE I == {1..n : n \in Nat \ T}
           R == StrictSubsetOrdering(Nat)
<1>2. I \subseteq FiniteSubsetsOf(Nat)
  <2> SUFFICES ASSUME NEW n \in Nat PROVE 1..n \in FiniteSubsetsOf(Nat)
    OBVIOUS
  <2>1. IsFiniteSet(1..n)
    BY FS_Interval
  <2>2. 1..n \subseteq Nat
    OBVIOUS
  <2> QED
    BY <2>1, <2>2 DEF FiniteSubsetsOf
<1>2a. I # {}
  BY <1>1
<1>2b. IsWellFoundedOn(R, FiniteSubsetsOf(Nat))
  BY FS_StrictSubsetOrderingWellFounded
<1>3. \E x \in I : \A y \in I : ~(<<y,x>> \in R)
  <2> HIDE DEF I, R
  <2> QED
    BY <1>2, <1>2a, <1>2b, WFMin
<1>4. PICK x \in Nat \ T : \A y \in Nat \ T : ~(<<1..y,1..x>> \in R)
  BY <1>3
<1>5. \A y \in Nat \ T : ~(y < x)
  <2> SUFFICES ASSUME NEW y \in Nat \ T, y < x PROVE FALSE
    OBVIOUS
  <2>0. 1..y \subseteq Nat /\ 1..x \subseteq Nat /\ 1..y \subseteq 1..x /\ 1..y # 1..x
    OBVIOUS
  <2>1. <<1..y, 1..x>> \in R
    BY <2>0 DEF StrictSubsetOrdering
  <2> QED
    BY <2>1, <1>4
<1>6. x # 0 /\ x - 1 \in Nat /\ x-1 < x
  OBVIOUS
<1>7. x - 1 \in T
  BY <1>5, <1>6
<1> QED
  BY <1>6, <1>7

\* A set of natural numbers that is not empty has a least element.
LEMMA LeastElement ==
  ASSUME NEW S \in SUBSET Nat, S # {}
  PROVE  \E n \in S : \A m \in S : n <= m
<1> SUFFICES ASSUME \A n \in S : \E m \in S : ~(n <= m)
             PROVE  FALSE
  OBVIOUS
<1> DEFINE T == {n \in Nat : \A m \in S : n <= m}
<1>1. 0 \in T
  OBVIOUS
<1>2. ASSUME NEW n \in Nat, n \in T PROVE n + 1 \in T
  <2>1. n \notin S
    BY <1>2
  <2> QED
    BY <1>2, <2>1
<1>3. PICK n \in S : TRUE
  OBVIOUS
<1>4. n + 1 \in T
  <2> HIDE DEF T
  <2>1. Nat \subseteq T
    BY <1>1, <1>2, SetInduction
  <2> QED
    BY <2>1
<1> QED
  BY <1>3, <1>4

-----------------------------------------------------------------------------
(* The recursive function behind FoldLeft                                  *)

\* g is a solution of the recursion of MapThenFoldSet over the indices up to n.
Solves(g, ctx, base, seq, n) ==
  g = [s \in SUBSET (1..n) |-> IF s = {} THEN base ELSE Op(ctx, g[s \ {Max(s)}], seq[Max(s)])]

\* The largest of some of 1..n+1 is n+1 when that is one of them.
LEMMA MaxOfTop ==
  ASSUME NEW n \in Nat, NEW s \in SUBSET (1..n+1), n+1 \in s
  PROVE  Max(s) = n+1 /\ s \ {Max(s)} \in SUBSET (1..n)
<1>1. \A y \in s : n+1 >= y
  OBVIOUS
<1>2. \A x \in s : (\A y \in s : x >= y) => x = n+1
  <2> SUFFICES ASSUME NEW x \in s, \A y \in s : x >= y PROVE x = n+1
    OBVIOUS
  <2>1. x \in 1..n+1 /\ x >= n+1
    OBVIOUS
  <2> QED
    BY <2>1
<1>3. Max(s) = n+1
  BY <1>1, <1>2 DEF Max
<1>4. \A y \in s : y # n+1 => y \in 1..n
  OBVIOUS
<1> QED
  BY <1>3, <1>4

\* For every n some function solves the fold's equations on the sets of indices up to n.
LEMMA SolutionExists ==
  ASSUME NEW ctx, NEW base, NEW seq
  PROVE  \A n \in Nat : \E g : Solves(g, ctx, base, seq, n)
<1> DEFINE T == {n \in Nat : \E g : Solves(g, ctx, base, seq, n)}
<1>1. 0 \in T
  <2> DEFINE g == [s \in SUBSET (1..0) |-> base]
  <2>1. \A s \in SUBSET (1..0) : s = {}
    OBVIOUS
  <2>2. Solves(g, ctx, base, seq, 0)
    BY <2>1 DEF Solves
  <2> QED
    BY <2>2
<1>2. ASSUME NEW n \in Nat, n \in T PROVE n+1 \in T
  <2>1. PICK g : Solves(g, ctx, base, seq, n)
    BY <1>2
  <2> DEFINE h == [s \in SUBSET (1..n+1) |-> IF n+1 \in s THEN Op(ctx, g[s \ {n+1}], seq[n+1]) ELSE g[s]]
  <2>2. ASSUME NEW s \in SUBSET (1..n+1)
        PROVE  h[s] = IF s = {} THEN base ELSE Op(ctx, h[s \ {Max(s)}], seq[Max(s)])
    <3>1. CASE n+1 \in s
      <4>1. Max(s) = n+1 /\ s \ {Max(s)} \in SUBSET (1..n)
        BY <3>1, MaxOfTop
      <4>2. h[s \ {n+1}] = g[s \ {n+1}]
        BY <4>1
      <4> QED
        BY <3>1, <4>1, <4>2
    <3>2. CASE n+1 \notin s
      <4>1. s \in SUBSET (1..n) /\ s \ {Max(s)} \in SUBSET (1..n)
        <5>1. \A y \in s : y \in 1..n
          BY <3>2
        <5> QED
          BY <5>1
      <4>2. g[s] = IF s = {} THEN base ELSE Op(ctx, g[s \ {Max(s)}], seq[Max(s)])
        BY <4>1, <2>1 DEF Solves
      <4>3. h[s] = g[s] /\ h[s \ {Max(s)}] = g[s \ {Max(s)}]
        BY <4>1, <3>2
      <4> QED
        BY <4>2, <4>3
    <3> QED
      BY <3>1, <3>2
  <2>3. Solves(h, ctx, base, seq, n+1)
    BY <2>2 DEF Solves
  <2> QED
    BY <2>3
<1> HIDE DEF T
<1>3. Nat \subseteq T
  BY <1>1, <1>2, SetInduction
<1> QED
  BY <1>3 DEF T

\* Two solutions agree where both sequences do: what a fold does depends on the elements
\* only.
LEMMA SolutionsAgree ==
  ASSUME NEW ctx, NEW base, NEW seq, NEW seq2, NEW g, NEW h, NEW N \in Nat, NEW M \in Nat,
         N <= M, \A i \in 1..N : seq[i] = seq2[i],
         Solves(g, ctx, base, seq, N), Solves(h, ctx, base, seq2, M)
  PROVE  \A s \in SUBSET (1..N) : g[s] = h[s]
<1> DEFINE T == {n \in Nat : n <= N => \A s \in SUBSET (1..n) : g[s] = h[s]}
<1>1. 0 \in T
  BY DEF Solves
<1>2. ASSUME NEW n \in Nat, n \in T PROVE n+1 \in T
  <2> SUFFICES ASSUME n+1 <= N, NEW s \in SUBSET (1..n+1) PROVE g[s] = h[s]
    OBVIOUS
  <2>1. CASE n+1 \in s
    <3>1. Max(s) = n+1 /\ s \ {Max(s)} \in SUBSET (1..n)
      BY <2>1, MaxOfTop
    <3>2. g[s \ {Max(s)}] = h[s \ {Max(s)}] 
      BY <3>1, <1>2
    <3>3. seq[Max(s)] = seq2[Max(s)]
      BY <3>1
    <3>4. s \in SUBSET (1..N) /\ s \in SUBSET (1..M) /\ s # {}
      BY <2>1
    <3>5. g[s] = Op(ctx, g[s \ {Max(s)}], seq[Max(s)])
      BY <3>4 DEF Solves
    <3>6. h[s] = Op(ctx, h[s \ {Max(s)}], seq2[Max(s)])
      BY <3>4 DEF Solves
    <3> QED
      BY <3>2, <3>3, <3>5, <3>6
  <2>2. CASE n+1 \notin s
    <3>1. s \in SUBSET (1..n)
      BY <2>2
    <3> QED
      BY <3>1, <1>2
  <2> QED
    BY <2>1, <2>2
<1> HIDE DEF T
<1>3. Nat \subseteq T
  BY <1>1, <1>2, SetInduction
<1> QED
  BY <1>3 DEF T

\* A fold is what a solution of its equations gives for all indices.
LEMMA FoldSolves ==
  ASSUME NEW ctx, NEW base, NEW n \in Nat, NEW seq, DOMAIN seq = 1..n
  PROVE  \E g : Solves(g, ctx, base, seq, n) /\ Fold(ctx, base, seq) = g[1..n]
<1> DEFINE g == CHOOSE h : Solves(h, ctx, base, seq, n)
<1>1. Solves(g, ctx, base, seq, n)
  BY SolutionExists
<1>2. Fold(ctx, base, seq) = g[1..n]
  BY DEF Fold, FoldLeft, MapThenFoldSet, Solves
<1> QED
  BY <1>1, <1>2

\* The fold of no elements is the base.
THEOREM FoldEmpty == ASSUME NEW ctx, NEW base PROVE Fold(ctx, base, <<>>) = base
<1>1. DOMAIN <<>> = 1..0 /\ 1..0 = {}
  OBVIOUS
<1>2. PICK g : Solves(g, ctx, base, <<>>, 0) /\ Fold(ctx, base, <<>>) = g[1..0]
  BY <1>1, FoldSolves
<1> QED
  BY <1>1, <1>2 DEF Solves

\* The fold of a longer sequence applies the operator once more, to the last element.
THEOREM FoldAppend ==
  ASSUME NEW ctx, NEW base, NEW S, NEW seq \in Seq(S), NEW x \in S
  PROVE  Fold(ctx, base, Append(seq, x)) = Op(ctx, Fold(ctx, base, seq), x)
<1> DEFINE n    == Len(seq)
           m    == n + 1
           more == Append(seq, x)
<1>1. /\ n \in Nat /\ m \in Nat /\ n <= m /\ m = n + 1
      /\ DOMAIN seq = 1..n /\ DOMAIN more = 1..m
  BY LenProperties, AppendProperties
<1>2. \A i \in 1..n : seq[i] = more[i]
  BY AppendProperties
<1>3. more[m] = x
  BY AppendProperties
<1> HIDE DEF more, n, m
<1>4. PICK g : Solves(g, ctx, base, seq, n) /\ Fold(ctx, base, seq) = g[1..n]
  BY <1>1, FoldSolves
<1>5. PICK h : Solves(h, ctx, base, more, m) /\ Fold(ctx, base, more) = h[1..m]
  BY <1>1, FoldSolves
<1>6. g[1..n] = h[1..n]
  <2>1. \A s \in SUBSET (1..n) : g[s] = h[s]
    <3>1. n \in Nat /\ m \in Nat /\ n <= m
      BY <1>1
    <3>2. Solves(g, ctx, base, seq, n) /\ Solves(h, ctx, base, more, m)
      BY <1>4, <1>5
    <3> QED
      BY <3>1, <3>2, <1>2, SolutionsAgree
  <2> QED
    BY <2>1
<1>7. 1..m \in SUBSET (1..m) /\ m \in 1..m /\ 1..m # {} /\ (1..m) \ {m} = 1..n
  <2>1. m = n + 1 /\ n \in Nat
    BY <1>1
  <2>2. (1..m) \ {m} = 1..n
    BY <2>1
  <2>3. m \in 1..m
    BY <2>1
  <2> QED
    BY <2>2, <2>3
<1>8. Max(1..m) = m
  BY <1>1, <1>7, MaxOfTop
<1>9. h[1..m] = Op(ctx, h[1..n], more[m])
  BY <1>5, <1>7, <1>8 DEF Solves
<1>10. Fold(ctx, base, more) = Op(ctx, Fold(ctx, base, seq), x)
  BY <1>3, <1>4, <1>5, <1>6, <1>9
<1> QED
  BY <1>10 DEF more

-----------------------------------------------------------------------------
(* Induction over sequences                                                *)

\* A set that has the empty sequence, and each sequence in it with one more element at the
\* end, has all sequences.
LEMMA SeqInduction ==
  ASSUME NEW S, NEW T, <<>> \in T, \A s \in Seq(S), x \in S : s \in T => Append(s, x) \in T
  PROVE  Seq(S) \subseteq T
<1> DEFINE L == {n \in Nat : \A s \in Seq(S) : Len(s) = n => s \in T}
<1>1. 0 \in L
  BY EmptySeq
<1>2. ASSUME NEW n \in Nat, n \in L PROVE n + 1 \in L
  <2> SUFFICES ASSUME NEW s \in Seq(S), Len(s) = n + 1 PROVE s \in T
    OBVIOUS
  <2> DEFINE front == SubSeq(s, 1, n)
  <2>1. /\ front \in Seq(S) /\ Len(front) = n /\ \A i \in 1..n : front[i] = s[i]
        /\ s[n + 1] \in S
    BY ElementOfSeq
  <2> HIDE DEF front
  <2>2. Append(front, s[n + 1]) = s
    <3>1. /\ Append(front, s[n + 1]) \in Seq(S) /\ Len(Append(front, s[n + 1])) = n + 1
          /\ \A i \in 1..(n + 1) : Append(front, s[n + 1])[i] = s[i]
      BY <2>1
    <3> QED
      BY <3>1, SeqEqual
  <2>3. front \in T
    BY <1>2, <2>1
  <2> QED
    BY <2>1, <2>2, <2>3
<1> HIDE DEF L
<1>3. Nat \subseteq L
  BY <1>1, <1>2, SetInduction
<1>4. ASSUME NEW s \in Seq(S) PROVE s \in T
  <2>1. Len(s) \in L
    BY <1>3
  <2> QED
    BY <2>1 DEF L
<1> QED
  BY <1>4

\* What every step of a fold keeps true holds of its result.
THEOREM FoldInvariant ==
  ASSUME NEW ctx, NEW R, NEW base \in R, NEW S, NEW seq \in Seq(S),
         \A acc \in R, x \in S : Op(ctx, acc, x) \in R
  PROVE  Fold(ctx, base, seq) \in R
<1> DEFINE T == {s \in Seq(S) : Fold(ctx, base, s) \in R}
<1>1. <<>> \in T
  BY FoldEmpty
<1>2. ASSUME NEW s \in Seq(S), NEW x \in S, s \in T PROVE Append(s, x) \in T
  BY <1>2, FoldAppend
<1> HIDE DEF T
<1>3. Seq(S) \subseteq T
  BY <1>1, <1>2, SeqInduction
<1> QED
  BY <1>3 DEF T

\* The fold of two sequences in a row goes on with the second where the first has ended.
THEOREM FoldConcat ==
  ASSUME NEW ctx, NEW base, NEW S, NEW a \in Seq(S), NEW b \in Seq(S)
  PROVE  Fold(ctx, base, a \o b) = Fold(ctx, Fold(ctx, base, a), b)
<1> DEFINE mid == Fold(ctx, base, a)
           T   == {s \in Seq(S) : Fold(ctx, base, a \o s) = Fold(ctx, mid, s)}
<1>1. <<>> \in T
  <2>1. a \o <<>> = a
    OBVIOUS
  <2>2. Fold(ctx, mid, <<>>) = mid
    BY FoldEmpty
  <2> QED
    BY <2>1, <2>2
<1>2. ASSUME NEW s \in Seq(S), NEW x \in S, s \in T PROVE Append(s, x) \in T
  <2>1. a \o s \in Seq(S) /\ Append(s, x) \in Seq(S) /\ a \o Append(s, x) = Append(a \o s, x)
    <3>1. a \o Append(s, x) \in Seq(S) /\ Append(a \o s, x) \in Seq(S)
      OBVIOUS
    <3>2. Len(a \o Append(s, x)) = Len(Append(a \o s, x))
      OBVIOUS
    <3>3. \A i \in 1..Len(a \o Append(s, x)) : (a \o Append(s, x))[i] = Append(a \o s, x)[i]
      OBVIOUS
    <3> QED
      BY <3>1, <3>2, <3>3, SeqEqual
  <2>2. Fold(ctx, base, a \o Append(s, x)) = Op(ctx, Fold(ctx, base, a \o s), x)
    <3> DEFINE c == a \o s
    <3>1. c \in Seq(S)
      BY <2>1
    <3> HIDE DEF c
    <3>2. Fold(ctx, base, Append(c, x)) = Op(ctx, Fold(ctx, base, c), x)
      BY <3>1, FoldAppend
    <3> QED
      BY <2>1, <3>2 DEF c
  <2> HIDE DEF mid
  <2>3. Fold(ctx, mid, Append(s, x)) = Op(ctx, Fold(ctx, mid, s), x)
    BY FoldAppend
  <2> QED
    BY <1>2, <2>1, <2>2, <2>3
<1> HIDE DEF T
<1>3. Seq(S) \subseteq T
  BY <1>1, <1>2, SeqInduction
<1> QED
  BY <1>3 DEF T

=============================================================================
