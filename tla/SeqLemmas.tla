------------------------------ MODULE SeqLemmas ------------------------------
(* Facts that the proofs of the components share: RemoveAt and InsertAt on  *)
(* the event queue and the free block list; the least element of a set of   *)
(* naturals or of sets, which stands for induction (a least counterexample) *)
(* and needs no operator as a parameter; and sums over finite sets.         *)
EXTENDS Integers, Sequences, SequencesExt, SequenceTheorems,
        FiniteSetTheorems, WellFoundedInduction, TLAPS

\* A nonempty family of finite sets has a member that contains no other one.
LEMMA MinimalSet ==
  ASSUME NEW S, NEW Fam, Fam # {},
         \A X \in Fam : IsFiniteSet(X) /\ X \subseteq S
  PROVE  \E X \in Fam : \A Y \in Fam : Y \subseteq X => Y = X
<1>1. IsWellFoundedOn(StrictSubsetOrdering(S), FiniteSubsetsOf(S))
  BY FS_StrictSubsetOrderingWellFounded
<1>2. Fam \subseteq FiniteSubsetsOf(S)
  BY DEF FiniteSubsetsOf
<1>3. PICK x \in Fam : \A y \in Fam : ~(<<y, x>> \in StrictSubsetOrdering(S))
  BY <1>1, <1>2, WFMin
<1> QED
  BY <1>3 DEF StrictSubsetOrdering

\* A nonempty set of naturals has a least element.
LEMMA LeastNat ==
  ASSUME NEW T \in SUBSET Nat, T # {}
  PROVE  \E m \in T : \A n \in T : m <= n
<1> DEFINE Fam == {0 .. n : n \in T}
<1>1. ASSUME NEW X \in Fam
      PROVE  IsFiniteSet(X) /\ X \subseteq Nat
  <2>1. PICK n \in T : X = 0 .. n
    OBVIOUS
  <2>2. 0 \in Int /\ n \in Int
    OBVIOUS
  <2>3. IsFiniteSet(0 .. n)
    BY <2>2, FS_Interval
  <2> QED
    BY <2>1, <2>3
<1>2. Fam # {}
  OBVIOUS
<1> HIDE DEF Fam
<1>3. PICK X \in Fam : \A Y \in Fam : Y \subseteq X => Y = X
  BY <1>1, <1>2, MinimalSet
<1>4. PICK m \in T : X = 0 .. m
  BY DEF Fam
<1>5. ASSUME NEW n \in T
      PROVE  m <= n
  <2>1. 0 .. n \in Fam
    BY DEF Fam
  <2>2. n <= m => 0 .. n = 0 .. m
    BY <1>3, <1>4, <2>1
  <2>3. m \in 0 .. m /\ n \in Nat /\ m \in Nat
    OBVIOUS
  <2> QED
    BY <2>2, <2>3
<1> QED
  BY <1>5

\* The least of some numbers.
LEMMA MinOfNats ==
  ASSUME NEW T \in SUBSET Nat, T # {}
  PROVE  Min(T) \in T /\ \A j \in T : Min(T) <= j
<1>1. PICK n \in T : \A j \in T : n <= j
  BY LeastNat
<1> QED
  BY <1>1 DEF Min

\* A nonempty set of subsets of a finite set has one that contains no other.
LEMMA SmallestSubset ==
  ASSUME NEW S, IsFiniteSet(S), NEW Fam \in SUBSET (SUBSET S), Fam # {}
  PROVE  \E X \in Fam : \A Y \in Fam : Y \subseteq X => Y = X
<1>1. IsWellFoundedOn(StrictSubsetOrdering(S), FiniteSubsetsOf(S))
  BY FS_StrictSubsetOrderingWellFounded
<1>2. Fam \subseteq FiniteSubsetsOf(S)
  BY FS_Subset DEF FiniteSubsetsOf
<1>3. PICK x \in Fam : \A y \in Fam : ~(<<y, x>> \in StrictSubsetOrdering(S))
  BY <1>1, <1>2, WFMin
<1> QED
  BY <1>3 DEF StrictSubsetOrdering

-----------------------------------------------------------------------------
(* Sequences *)

\* RemoveAt(s, i) is s without its i-th element, the order of the others kept.
LEMMA RemoveAtProperties ==
  ASSUME NEW S, NEW s \in Seq(S), NEW i \in 1 .. Len(s)
  PROVE  /\ RemoveAt(s, i) \in Seq(S)
         /\ Len(RemoveAt(s, i)) = Len(s) - 1
         /\ \A j \in 1 .. Len(s) - 1 :
               RemoveAt(s, i)[j] = IF j < i THEN s[j] ELSE s[j + 1]
<1> DEFINE a == SubSeq(s, 1, i - 1)
           b == SubSeq(s, i + 1, Len(s))
<1>0. Len(s) \in Nat
  BY LenProperties
<1>1. /\ a \in Seq(S) /\ Len(a) = i - 1
      /\ \A j \in 1 .. i - 1 : a[j] = s[j]
  BY <1>0, SubSeqProperties
<1>2. /\ b \in Seq(S) /\ Len(b) = Len(s) - i
      /\ \A j \in 1 .. Len(s) - i : b[j] = s[i + j]
  BY <1>0, SubSeqProperties
<1>3. RemoveAt(s, i) = a \o b
  BY DEF RemoveAt
<1> HIDE DEF a, b
<1>4. /\ a \o b \in Seq(S)
      /\ Len(a \o b) = Len(a) + Len(b)
      /\ \A j \in 1 .. Len(a) + Len(b) :
            (a \o b)[j] = IF j <= Len(a) THEN a[j] ELSE b[j - Len(a)]
  BY <1>1, <1>2, ConcatProperties
<1>5. ASSUME NEW j \in 1 .. Len(s) - 1
      PROVE  (a \o b)[j] = IF j < i THEN s[j] ELSE s[j + 1]
  <2>1. CASE j < i
    BY <1>0, <1>1, <1>2, <1>4, <2>1
  <2>2. CASE ~(j < i)
    <3>1. (a \o b)[j] = b[j - (i - 1)]
      BY <1>0, <1>1, <1>2, <1>4, <2>2
    <3>2. /\ j - (i - 1) \in 1 .. Len(s) - i
          /\ i + (j - (i - 1)) = j + 1
      BY <1>0, <2>2
    <3> QED
      BY <1>2, <2>2, <3>1, <3>2
  <2> QED
    BY <2>1, <2>2
<1> QED
  BY <1>0, <1>1, <1>2, <1>3, <1>4, <1>5

\* InsertAt(s, i, e) is s with e as the new i-th element.
LEMMA InsertAtProperties ==
  ASSUME NEW S, NEW s \in Seq(S), NEW i \in 1 .. Len(s) + 1, NEW e \in S
  PROVE  /\ InsertAt(s, i, e) \in Seq(S)
         /\ Len(InsertAt(s, i, e)) = Len(s) + 1
         /\ \A j \in 1 .. Len(s) + 1 :
               InsertAt(s, i, e)[j] = IF j < i THEN s[j]
                                      ELSE IF j = i THEN e ELSE s[j - 1]
<1> DEFINE a == SubSeq(s, 1, i - 1)
           b == SubSeq(s, i, Len(s))
           c == a \o <<e>>
<1>0. Len(s) \in Nat
  BY LenProperties
<1>1. /\ a \in Seq(S) /\ Len(a) = i - 1
      /\ \A j \in 1 .. i - 1 : a[j] = s[j]
  BY <1>0, SubSeqProperties
<1>2. /\ b \in Seq(S) /\ Len(b) = Len(s) + 1 - i
      /\ \A j \in 1 .. Len(s) + 1 - i : b[j] = s[i + j - 1]
  BY <1>0, SubSeqProperties
<1>3. InsertAt(s, i, e) = c \o b
  BY DEF InsertAt
<1>4. <<e>> \in Seq(S) /\ Len(<<e>>) = 1 /\ <<e>>[1] = e
  OBVIOUS
<1> HIDE DEF a, b
<1>5. /\ c \in Seq(S) /\ Len(c) = i
      /\ \A j \in 1 .. i : c[j] = IF j < i THEN s[j] ELSE e
  <2>1. /\ c \in Seq(S) /\ Len(c) = Len(a) + Len(<<e>>)
        /\ \A j \in 1 .. Len(a) + Len(<<e>>) :
              c[j] = IF j <= Len(a) THEN a[j] ELSE <<e>>[j - Len(a)]
    BY <1>1, <1>4, ConcatProperties
  <2> QED
    BY <1>0, <1>1, <1>4, <2>1, SMTT(20)
<1> HIDE DEF c
<1>6. /\ c \o b \in Seq(S)
      /\ Len(c \o b) = Len(c) + Len(b)
      /\ \A j \in 1 .. Len(c) + Len(b) :
            (c \o b)[j] = IF j <= Len(c) THEN c[j] ELSE b[j - Len(c)]
  BY <1>2, <1>5, ConcatProperties
<1>7. ASSUME NEW j \in 1 .. Len(s) + 1
      PROVE  (c \o b)[j] = IF j < i THEN s[j] ELSE IF j = i THEN e ELSE s[j - 1]
  <2>1. CASE j <= i
    BY <1>0, <1>2, <1>5, <1>6, <2>1
  <2>2. CASE ~(j <= i)
    <3>1. (c \o b)[j] = b[j - i]
      BY <1>0, <1>2, <1>5, <1>6, <2>2
    <3>2. /\ j - i \in 1 .. Len(s) + 1 - i
          /\ i + (j - i) - 1 = j - 1
      BY <1>0, <2>2
    <3> QED
      BY <1>2, <2>2, <3>1, <3>2
  <2> QED
    BY <2>1, <2>2
<1> QED
  BY <1>0, <1>2, <1>3, <1>5, <1>6, <1>7
-----------------------------------------------------------------------------
(* Sums *)

\* The sum of the terms w[x] of the members of S.
Total(w, S) == MapThenSumSet(LAMBDA x : w[x], S)

\* The element MapThenFoldSet takes out of s first.
Some(s) == CHOOSE x \in s : TRUE

\* f adds up w over the subsets of S, in the order of CHOOSE.
Adds(f, w, S) ==
    /\ f \in [SUBSET S -> Nat]
    /\ f[{}] = 0
    /\ \A s \in SUBSET S : s # {} => f[s] = w[Some(s)] + f[s \ {Some(s)}]

\* The recursive function of MapThenFoldSet exists on a finite set.
LEMMA AddsExists ==
  ASSUME NEW S, IsFiniteSet(S), NEW w, \A x \in S : w[x] \in Nat
  PROVE  \E f : Adds(f, w, S)
<1> DEFINE Sub(n) == {s \in SUBSET S : Cardinality(s) <= n}
           Good(f, n) == /\ f \in [Sub(n) -> Nat]
                         /\ f[{}] = 0
                         /\ \A s \in Sub(n) : s # {} =>
                               f[s] = w[Some(s)] + f[s \ {Some(s)}]
           T == {n \in Nat : ~\E f : Good(f, n)}
<1>1. \A s \in SUBSET S : IsFiniteSet(s) /\ Cardinality(s) \in Nat
                          /\ Cardinality(s) <= Cardinality(S)
  BY FS_Subset, FS_CardinalityType
<1>2. Cardinality({}) = 0 /\ \A s \in SUBSET S : Cardinality(s) = 0 => s = {}
  BY <1>1, FS_EmptySet
<1>3. \A s \in SUBSET S : s # {} => /\ Some(s) \in s
                                    /\ Cardinality(s \ {Some(s)}) = Cardinality(s) - 1
  <2> SUFFICES ASSUME NEW s \in SUBSET S, s # {}
               PROVE Some(s) \in s /\ Cardinality(s \ {Some(s)}) = Cardinality(s) - 1
    OBVIOUS
  <2>1. Some(s) \in s
    BY DEF Some
  <2>2. IsFiniteSet(s)
    BY <1>1
  <2> QED
    BY <2>1, <2>2, FS_RemoveElement
<1>4. 0 \notin T
  <2> DEFINE f == [s \in Sub(0) |-> 0]
  <2>1. \A s \in Sub(0) : s = {}
    BY <1>1, <1>2
  <2>2. {} \in Sub(0)
    BY <1>2
  <2> HIDE DEF Sub
  <2>3. Good(f, 0)
    BY <2>1, <2>2
  <2> QED
    BY <2>3
<1>5. ASSUME NEW n \in Nat, n \notin T
      PROVE  n + 1 \notin T
  <2>1. PICK f : Good(f, n)
    BY <1>5
  <2> DEFINE g == [s \in Sub(n + 1) |->
                      IF s = {} THEN 0 ELSE w[Some(s)] + f[s \ {Some(s)}]]
  <2>2. \A s \in Sub(n + 1) : s # {} => Some(s) \in S /\ s \ {Some(s)} \in Sub(n)
    BY <1>1, <1>3
  <2>3. Sub(n) \subseteq Sub(n + 1) /\ {} \in Sub(n)
    BY <1>1, <1>2
  <2> HIDE DEF Sub
  <2>4. g \in [Sub(n + 1) -> Nat]
    BY <2>1, <2>2
  <2>5. \A s \in Sub(n) : g[s] = f[s]
    BY <2>1, <2>3
  <2>6. \A s \in Sub(n + 1) : s # {} => g[s] = w[Some(s)] + g[s \ {Some(s)}]
    BY <2>2, <2>5
  <2>7. Good(g, n + 1)
    BY <2>3, <2>4, <2>6
  <2> QED
    BY <2>7
<1>6. T = {}
  <2> SUFFICES ASSUME T # {}
               PROVE  FALSE
    OBVIOUS
  <2>1. T \in SUBSET Nat
    OBVIOUS
  <2> HIDE DEF T
  <2>2. PICK m \in T : \A n \in T : m <= n
    BY <2>1, LeastNat
  <2>3. m \in Nat /\ m # 0
    BY <1>4, <2>1
  <2>4. m - 1 \in Nat /\ m - 1 \notin T
    BY <2>2, <2>3
  <2>5. (m - 1) + 1 \notin T
    BY <1>5, <2>4
  <2> QED
    BY <2>3, <2>5
<1>7. Cardinality(S) \in Nat /\ Sub(Cardinality(S)) = SUBSET S
  BY <1>1
<1>8. PICK f : Good(f, Cardinality(S))
  BY <1>6, <1>7
<1> QED
  BY <1>7, <1>8 DEF Adds

\* Total is its value on the whole set.
LEMMA TotalAdds ==
  ASSUME NEW S, IsFiniteSet(S), NEW w, \A x \in S : w[x] \in Nat
  PROVE  \E f : Adds(f, w, S) /\ Total(w, S) = f[S]
<1> DEFINE body(f) == [s \in SUBSET S |-> IF s = {} THEN 0
                                  ELSE w[Some(s)] + f[s \ {Some(s)}]]
           g == CHOOSE f : f = body(f)
<1>1. Total(w, S) = g[S]
  BY DEF Total, MapThenSumSet, MapThenFoldSet, Some
<1>2. PICK f : Adds(f, w, S)
  BY AddsExists
<1>3. f = body(f)
  BY <1>2 DEF Adds
<1>4. g = body(g)
  BY <1>3
<1>5. {} \in SUBSET S
  OBVIOUS
<1> HIDE DEF g
<1>6. g[{}] = 0 /\ \A s \in SUBSET S : s # {} => g[s] = w[Some(s)] + g[s \ {Some(s)}]
  BY <1>4
<1>7. ASSUME NEW s \in SUBSET S
      PROVE g[s] = f[s]
  <2> DEFINE Fam == {t \in SUBSET S : g[t] # f[t]}
  <2>0. SUFFICES ASSUME Fam # {} PROVE FALSE
    OBVIOUS
  <2>1. Fam \in SUBSET (SUBSET S)
    OBVIOUS
  <2>2. PICK X \in Fam : \A Y \in Fam : Y \subseteq X => Y = X
    <3> HIDE DEF Fam
    <3> QED BY <2>0, <2>1, SmallestSubset
  <2>3. X # {}
    BY <1>2, <1>6 DEF Adds
  <2>4. Some(X) \in X
    BY <2>3 DEF Some
  <2>5. X \ {Some(X)} \notin Fam
    BY <2>2, <2>4
  <2> QED
    BY <1>2, <1>6, <2>3, <2>5 DEF Adds
<1>8. g = f
  BY <1>2, <1>4, <1>7 DEF Adds
<1> QED
  BY <1>1, <1>2, <1>8

\* Two such functions agree where both are defined.
LEMMA AddsUnique ==
  ASSUME NEW S, IsFiniteSet(S), NEW T \in SUBSET S, NEW w,
         NEW f, Adds(f, w, S), NEW g, Adds(g, w, T)
  PROVE  \A s \in SUBSET T : f[s] = g[s]
<1> DEFINE Fam == {t \in SUBSET T : f[t] # g[t]}
<1>0. SUFFICES ASSUME Fam # {} PROVE FALSE
  OBVIOUS
<1>1. Fam \in SUBSET (SUBSET T) /\ IsFiniteSet(T)
  BY FS_Subset
<1>2. PICK X \in Fam : \A Y \in Fam : Y \subseteq X => Y = X
  <2> HIDE DEF Fam
  <2> QED BY <1>0, <1>1, SmallestSubset
<1>3. X # {}
  BY DEF Adds
<1>4. Some(X) \in X
  BY <1>3 DEF Some
<1>5. X \ {Some(X)} \notin Fam
  BY <1>2, <1>4
<1> QED
  BY <1>3, <1>5 DEF Adds

\* The order does not matter: any element may be taken out first.
LEMMA AddsAny ==
  ASSUME NEW S, IsFiniteSet(S), NEW w, \A x \in S : w[x] \in Nat,
         NEW f, Adds(f, w, S)
  PROVE  \A s \in SUBSET S : \A x \in s : f[s] = w[x] + f[s \ {x}]
<1> DEFINE Fam == {s \in SUBSET S : \E x \in s : f[s] # w[x] + f[s \ {x}]}
<1>0. SUFFICES ASSUME Fam # {} PROVE FALSE
  OBVIOUS
<1>1. Fam \in SUBSET (SUBSET S)
  OBVIOUS
<1>2. PICK X \in Fam : \A Y \in Fam : Y \subseteq X => Y = X
  <2> HIDE DEF Fam
  <2> QED BY <1>0, <1>1, SmallestSubset
<1>3. PICK x \in X : f[X] # w[x] + f[X \ {x}]
  OBVIOUS
<1> DEFINE y == Some(X)
           A == X \ {y}
           B == X \ {x}
           C == X \ {x, y}
<1>4. y \in X /\ f[X] = w[y] + f[A]
  BY <1>3 DEF Some, Adds
<1> HIDE DEF y
<1>5. x # y
  BY <1>3, <1>4
<1>6. A \notin Fam /\ B \notin Fam
  BY <1>2, <1>3, <1>4
<1>7. A \in SUBSET S /\ x \in A /\ A \ {x} = C
  BY <1>3, <1>5
<1>8. B \in SUBSET S /\ y \in B /\ B \ {y} = C
  BY <1>4, <1>5
<1>9. f[A] = w[x] + f[C] /\ f[B] = w[y] + f[C]
  BY <1>6, <1>7, <1>8
<1>10. w[x] \in Nat /\ w[y] \in Nat /\ f[C] \in Nat
  BY <1>3, <1>4 DEF Adds
<1> HIDE DEF Fam, A, B, C
<1>11. f[X] = w[x] + f[B]
  BY <1>4, <1>9, <1>10
<1> QED
  BY <1>3, <1>11 DEF B

\* An empty sum is zero.
LEMMA TotalEmpty ==
  ASSUME NEW w
  PROVE  Total(w, {}) = 0
<1>1. IsFiniteSet({})
  BY FS_EmptySet
<1>2. \A x \in {} : w[x] \in Nat
  OBVIOUS
<1>3. PICK f : Adds(f, w, {}) /\ Total(w, {}) = f[{}]
  BY <1>1, <1>2, TotalAdds
<1> QED
  BY <1>3 DEF Adds

\* A sum is the term of any element and the sum of the others.
LEMMA TotalRemove ==
  ASSUME NEW S, IsFiniteSet(S), NEW w, \A x \in S : w[x] \in Nat
  PROVE  /\ Total(w, S) \in Nat
         /\ \A x \in S : Total(w, S) = w[x] + Total(w, S \ {x})
<1>1. PICK f : Adds(f, w, S) /\ Total(w, S) = f[S]
  BY TotalAdds
<1>2. Total(w, S) \in Nat
  BY <1>1 DEF Adds
<1>3. ASSUME NEW x \in S
      PROVE  Total(w, S) = w[x] + Total(w, S \ {x})
  <2> DEFINE T == S \ {x}
  <2>1. IsFiniteSet(T) /\ T \in SUBSET S /\ \A z \in T : w[z] \in Nat
    BY FS_Subset
  <2> HIDE DEF T
  <2>2. PICK g : Adds(g, w, T) /\ Total(w, T) = g[T]
    BY <2>1, TotalAdds
  <2>3. f[T] = g[T]
    BY <1>1, <2>1, <2>2, AddsUnique
  <2>4. f[S] = w[x] + f[S \ {x}]
    BY <1>1, AddsAny
  <2> QED
    BY <1>1, <2>2, <2>3, <2>4 DEF T
<1> QED
  BY <1>2, <1>3

\* A sum depends on the terms of its elements only.
LEMMA TotalSame ==
  ASSUME NEW S, IsFiniteSet(S), NEW w, NEW v,
         \A x \in S : w[x] \in Nat /\ v[x] = w[x]
  PROVE  Total(w, S) = Total(v, S)
<1>1. PICK f : Adds(f, w, S) /\ Total(w, S) = f[S]
  BY TotalAdds
<1>2. PICK g : Adds(g, v, S) /\ Total(v, S) = g[S]
  BY TotalAdds
<1>3. Adds(f, v, S)
  <2>1. \A s \in SUBSET S : s # {} => Some(s) \in S
    BY DEF Some
  <2> QED
    BY <1>1, <2>1 DEF Adds
<1>4. f[S] = g[S]
  BY <1>2, <1>3, AddsUnique
<1> QED
  BY <1>1, <1>2, <1>4

\* The sum over two disjoint sets.
LEMMA TotalUnion ==
  ASSUME NEW A, IsFiniteSet(A), NEW B, IsFiniteSet(B), A \cap B = {},
         NEW w, \A x \in A \cup B : w[x] \in Nat
  PROVE  Total(w, A \cup B) = Total(w, A) + Total(w, B)
<1> DEFINE Fam == {X \in SUBSET B : Total(w, A \cup X) # Total(w, A) + Total(w, X)}
<1>0. SUFFICES ASSUME Fam # {} PROVE FALSE
  OBVIOUS
<1>1. Fam \in SUBSET (SUBSET B)
  OBVIOUS
<1>2. PICK X \in Fam : \A Y \in Fam : Y \subseteq X => Y = X
  <2> HIDE DEF Fam
  <2> QED BY <1>0, <1>1, SmallestSubset
<1>3. /\ IsFiniteSet(X) /\ IsFiniteSet(A \cup X)
      /\ \A x \in X : w[x] \in Nat
      /\ \A x \in A \cup X : w[x] \in Nat
  BY FS_Subset, FS_Union
<1>4. Total(w, A) \in Nat /\ Total(w, X) \in Nat /\ Total(w, A \cup X) \in Nat
  BY <1>3, TotalRemove
<1>5. X # {}
  <2> SUFFICES ASSUME X = {} PROVE FALSE
    OBVIOUS
  <2>1. A \cup X = A
    OBVIOUS
  <2>2. Total(w, X) = 0
    BY TotalEmpty
  <2> QED
    BY <1>4, <2>1, <2>2
<1>6. PICK x \in X : TRUE
  BY <1>5
<1>7. /\ Total(w, X) = w[x] + Total(w, X \ {x})
      /\ Total(w, A \cup X) = w[x] + Total(w, (A \cup X) \ {x})
  BY <1>3, <1>6, TotalRemove
<1>8. (A \cup X) \ {x} = A \cup (X \ {x})
  BY <1>6
<1>9. X \ {x} \notin Fam
  BY <1>2, <1>6
<1>10. Total(w, A \cup (X \ {x})) = Total(w, A) + Total(w, X \ {x})
  BY <1>9
<1>11. IsFiniteSet(X \ {x}) /\ \A z \in X \ {x} : w[z] \in Nat
  BY <1>3, FS_Subset
<1>12. Total(w, X \ {x}) \in Nat /\ w[x] \in Nat
  BY <1>3, <1>11, TotalRemove
<1>13. Total(w, A \cup X) = Total(w, A) + Total(w, X)
  <2> HIDE DEF Fam
  <2>1. Total(w, A \cup X) = w[x] + Total(w, A \cup (X \ {x}))
    BY <1>7, <1>8, Zenon
  <2> QED
    BY <1>4, <1>7, <1>10, <1>12, <2>1
<1> QED
  BY <1>13

\* q lists the members of L along the index set N, each of them once.
Enumerates(q, N, L) ==
    /\ \A i, j \in N : q[i] = q[j] => i = j
    /\ \A i \in N : q[i] \in L
    /\ \A x \in L : \E i \in N : q[i] = x

\* Summing along a list without repetitions is summing over its elements.
LEMMA TotalImage ==
  ASSUME NEW N, IsFiniteSet(N), NEW q, NEW L, Enumerates(q, N, L),
         NEW w, NEW v, \A i \in N : v[i] \in Nat /\ v[i] = w[q[i]]
  PROVE  Total(v, N) = Total(w, L)
<1> DEFINE Im(I) == {q[i] : i \in I}
           Fam == {I \in SUBSET N : Total(v, I) # Total(w, Im(I))}
<1>0. SUFFICES ASSUME Fam # {} PROVE FALSE
  <2>1. Im(N) = L
    BY DEF Enumerates
  <2> QED
    BY <2>1
<1>1. Fam \in SUBSET (SUBSET N)
  OBVIOUS
<1>2. PICK I \in Fam : \A Y \in Fam : Y \subseteq I => Y = I
  <2> HIDE DEF Fam
  <2> QED BY <1>0, <1>1, SmallestSubset
<1>3. IsFiniteSet(I) /\ \A i \in I : v[i] \in Nat
  BY <1>1, FS_Subset
<1>4. IsFiniteSet(Im(I)) /\ \A x \in Im(I) : w[x] \in Nat
  <2>1. \A x \in Im(I) : w[x] \in Nat
    OBVIOUS
  <2>2. IsFiniteSet(Im(I))
    <3> DEFINE g == [i \in I |-> q[i]]
    <3>1. g \in Surjection(I, Im(I))
      BY DEF Surjection
    <3> QED
      BY <1>3, <3>1, FS_Surjection
  <2> QED
    BY <2>1, <2>2
<1>5. I # {}
  <2> SUFFICES ASSUME I = {} PROVE FALSE
    OBVIOUS
  <2>1. Im(I) = {}
    OBVIOUS
  <2> QED
    BY <2>1, TotalEmpty
<1>6. PICK i \in I : TRUE
  BY <1>5
<1>7. q[i] \in Im(I) /\ Im(I \ {i}) = Im(I) \ {q[i]}
  BY <1>6 DEF Enumerates
<1>8. I \ {i} \notin Fam
  BY <1>2, <1>6
<1>9. Total(v, I \ {i}) = Total(w, Im(I \ {i}))
  BY <1>8
<1> HIDE DEF Im, Fam
<1>10. Total(v, I) = v[i] + Total(v, I \ {i})
  BY <1>3, <1>6, TotalRemove
<1>11. Total(w, Im(I)) = w[q[i]] + Total(w, Im(I) \ {q[i]})
  BY <1>4, <1>7, TotalRemove, ZenonT(40)
<1>12. Total(v, I) = Total(w, Im(I))
  <2>1. v[i] = w[q[i]]
    BY <1>6 DEF Fam
  <2> QED
    BY <1>7, <1>9, <1>10, <1>11, <2>1
<1> QED
  BY <1>12 DEF Fam

\* A sum of zeros.
LEMMA TotalZeros ==
  ASSUME NEW S, IsFiniteSet(S), NEW w, \A x \in S : w[x] = 0
  PROVE  Total(w, S) = 0
<1> DEFINE Fam == {X \in SUBSET S : Total(w, X) # 0}
<1>0. SUFFICES ASSUME Fam # {} PROVE FALSE
  OBVIOUS
<1>1. Fam \in SUBSET (SUBSET S)
  OBVIOUS
<1>2. PICK X \in Fam : \A Y \in Fam : Y \subseteq X => Y = X
  <2> HIDE DEF Fam
  <2> QED BY <1>0, <1>1, SmallestSubset
<1>3. PICK x \in X : TRUE
  BY TotalEmpty
<1>4. IsFiniteSet(X) /\ \A z \in X : w[z] \in Nat
  BY FS_Subset
<1>5. Total(w, X) = w[x] + Total(w, X \ {x})
  BY <1>3, <1>4, TotalRemove
<1>6. X \ {x} \notin Fam
  BY <1>2, <1>3
<1> QED
  BY <1>3, <1>5, <1>6


\* A sum changes by what one of its terms changes.
LEMMA TotalChange ==
  ASSUME NEW S, IsFiniteSet(S), NEW x \in S, NEW w, NEW v,
         \A y \in S : w[y] \in Nat /\ v[y] \in Nat,
         \A y \in S : y # x => v[y] = w[y]
  PROVE  /\ Total(w, S) \in Nat /\ Total(v, S) \in Nat
         /\ Total(v, S) + w[x] = Total(w, S) + v[x]
<1>1. /\ Total(w, S) \in Nat /\ Total(w, S) = w[x] + Total(w, S \ {x})
      /\ Total(v, S) \in Nat /\ Total(v, S) = v[x] + Total(v, S \ {x})
  BY TotalRemove
<1>2. IsFiniteSet(S \ {x})
  BY FS_RemoveElement
<1>3. Total(w, S \ {x}) = Total(v, S \ {x})
  BY <1>2, TotalSame
<1>4. Total(w, S \ {x}) \in Nat
  BY <1>2, TotalRemove
<1> QED
  BY <1>1, <1>3, <1>4

\* A sum of terms that are no less than e.
LEMMA TotalAtLeast ==
  ASSUME NEW S, IsFiniteSet(S), NEW e \in Nat, NEW w,
         \A x \in S : w[x] \in Nat /\ e <= w[x]
  PROVE  e * Cardinality(S) <= Total(w, S)
<1> DEFINE Fam == {X \in SUBSET S : ~(e * Cardinality(X) <= Total(w, X))}
<1>0. SUFFICES ASSUME Fam # {} PROVE FALSE
  OBVIOUS
<1>1. Fam \in SUBSET (SUBSET S)
  OBVIOUS
<1>2. PICK X \in Fam : \A Y \in Fam : Y \subseteq X => Y = X
  <2> HIDE DEF Fam
  <2> QED BY <1>0, <1>1, SmallestSubset
<1>3. PICK x \in X : TRUE
  <2>1. SUFFICES ASSUME X = {} PROVE FALSE
    OBVIOUS
  <2>2. Cardinality(X) = 0 /\ Total(w, X) = 0 /\ e * 0 = 0
    BY <2>1, TotalEmpty, FS_EmptySet
  <2> QED
    BY <2>2
<1>4. IsFiniteSet(X) /\ \A z \in X : w[z] \in Nat
  BY FS_Subset
<1> DEFINE Y == X \ {x}
<1>5. /\ Total(w, X) = w[x] + Total(w, Y)
      /\ Cardinality(Y) = Cardinality(X) - 1 /\ IsFiniteSet(Y)
  BY <1>3, <1>4, TotalRemove, FS_RemoveElement
<1>6. /\ Total(w, Y) \in Nat /\ Cardinality(Y) \in Nat /\ Cardinality(X) \in Nat
      /\ w[x] \in Nat /\ e <= w[x]
  BY <1>3, <1>4, <1>5, TotalRemove, FS_CardinalityType
<1>7. e * Cardinality(Y) <= Total(w, Y)
  BY <1>2, <1>3
<1>8. e * Cardinality(X) = e * Cardinality(Y) + e
  <2>1. \A n \in Nat : e * (n + 1) = e * n + e
    OBVIOUS
  <2>2. Cardinality(X) = Cardinality(Y) + 1
    BY <1>5, <1>6
  <2> QED
    BY <1>6, <2>1, <2>2
<1>9. e * Cardinality(Y) \in Nat
  BY <1>6
<1>10. e * Cardinality(X) <= Total(w, X)
  <2> HIDE DEF Y, Fam
  <2> QED
    BY <1>5, <1>6, <1>7, <1>8, <1>9
<1> QED
  BY <1>10

-----------------------------------------------------------------------------
(* Folds from left to right *)

\* The largest member of a nonempty set of indices.
LEMMA MaxOfIndices ==
  ASSUME NEW n \in Nat, NEW s \in SUBSET (1 .. n), s # {}
  PROVE  Max(s) \in s /\ \A y \in s : Max(s) >= y
<1> DEFINE T == {n - x : x \in s}
<1>1. T \in SUBSET Nat /\ T # {}
  <2>1. \A x \in s : n - x \in Nat
    OBVIOUS
  <2> QED
    BY <2>1
<1>2. PICK m \in T : \A k \in T : m <= k
  <2> HIDE DEF T
  <2> QED BY <1>1, LeastNat
<1>3. PICK x \in s : m = n - x
  OBVIOUS
<1>4. \A y \in s : x >= y
  <2> SUFFICES ASSUME NEW y \in s PROVE x >= y
    OBVIOUS
  <2>1. m <= n - y
    BY <1>2
  <2> QED
    BY <1>3, <2>1
<1> QED
  BY <1>4 DEF Max

\* The last of the first k indices.
LEMMA LastIndex ==
  ASSUME NEW k \in Nat \ {0}
  PROVE  Max(1 .. k) = k /\ (1 .. k) \ {k} = 1 .. k - 1 /\ 1 .. k # {}
<1> DEFINE s == 1 .. k
<1>1. s \in SUBSET (1 .. k) /\ k \in s /\ \A y \in s : y <= k
  OBVIOUS
<1>2. Max(s) \in s /\ \A y \in s : Max(s) >= y
  BY <1>1, MaxOfIndices
<1>3. (1 .. k) \ {k} = 1 .. k - 1
  OBVIOUS
<1>4. Max(s) \in Int /\ Max(s) <= k /\ Max(s) >= k
  <2>1. s \subseteq Int
    OBVIOUS
  <2> HIDE DEF s
  <2> QED BY <1>1, <1>2, <2>1
<1> QED
  BY <1>1, <1>3, <1>4

\* f folds the steps G over the sets of indices below n, largest index last.
Folded(f, G, base, n) ==
    \A s \in SUBSET (1 .. n) :
        f[s] = IF s = {} THEN base ELSE G[<<f[s \ {Max(s)}], Max(s)>>]

\* The recursive function of FoldLeft exists.
LEMMA FoldExists ==
  ASSUME NEW n \in Nat, NEW X, NEW base \in X, NEW G \in [X \X (1 .. n) -> X]
  PROVE  \E f \in [SUBSET (1 .. n) -> X] : Folded(f, G, base, n)
<1> DEFINE D == 1 .. n
           Sub(k) == {s \in SUBSET D : Cardinality(s) <= k}
           Good(f, k) == /\ f \in [Sub(k) -> X]
                         /\ \A s \in Sub(k) :
                               f[s] = IF s = {} THEN base
                                      ELSE G[<<f[s \ {Max(s)}], Max(s)>>]
           T == {k \in Nat : ~\E f : Good(f, k)}
<1>0. IsFiniteSet(D) /\ Cardinality(D) = n
  BY FS_Interval
<1>1. \A s \in SUBSET D : IsFiniteSet(s) /\ Cardinality(s) \in Nat
                          /\ Cardinality(s) <= n
  <2> HIDE DEF D
  <2> QED BY <1>0, FS_Subset, FS_CardinalityType
<1>2. Cardinality({}) = 0 /\ \A s \in SUBSET D : Cardinality(s) = 0 => s = {}
  BY <1>1, FS_EmptySet
<1>3. ASSUME NEW s \in SUBSET D, s # {}
      PROVE  /\ Max(s) \in D /\ s \ {Max(s)} \in SUBSET D
             /\ Cardinality(s \ {Max(s)}) = Cardinality(s) - 1
  <2>1. Max(s) \in s
    BY <1>3, MaxOfIndices
  <2>2. IsFiniteSet(s)
    BY <1>1
  <2>3. Cardinality(s \ {Max(s)}) = Cardinality(s) - 1
    BY <2>1, <2>2, FS_RemoveElement
  <2> HIDE DEF D
  <2> QED
    BY <2>1, <2>3
<1> HIDE DEF D
<1>4. 0 \notin T
  <2> DEFINE f == [s \in Sub(0) |-> base]
  <2>1. \A s \in Sub(0) : s = {}
    BY <1>1, <1>2
  <2> HIDE DEF Sub
  <2>2. Good(f, 0)
    BY <2>1
  <2> QED
    BY <2>2
<1>5. ASSUME NEW k \in Nat, k \notin T
      PROVE  k + 1 \notin T
  <2>1. PICK f : Good(f, k)
    BY <1>5
  <2> DEFINE g == [s \in Sub(k + 1) |-> IF s = {} THEN base
                                        ELSE G[<<f[s \ {Max(s)}], Max(s)>>]]
  <2>2. \A s \in Sub(k + 1) : s # {} => Max(s) \in D /\ s \ {Max(s)} \in Sub(k)
    BY <1>1, <1>3
  <2>3. Sub(k) \subseteq Sub(k + 1)
    BY <1>1
  <2> HIDE DEF Sub
  <2>4. \A s \in Sub(k + 1) : s # {} =>
           G[<<f[s \ {Max(s)}], Max(s)>>] \in X
    BY <2>1, <2>2 DEF D
  <2>5. g \in [Sub(k + 1) -> X]
    BY <2>4
  <2>6. \A s \in Sub(k) : g[s] = f[s]
    BY <2>1, <2>3
  <2>7. \A s \in Sub(k + 1) : g[s] = IF s = {} THEN base
                                     ELSE G[<<g[s \ {Max(s)}], Max(s)>>]
    BY <2>2, <2>6
  <2>8. Good(g, k + 1)
    BY <2>5, <2>7
  <2> QED
    BY <2>8
<1>6. T = {}
  <2> SUFFICES ASSUME T # {}
               PROVE  FALSE
    OBVIOUS
  <2>1. T \in SUBSET Nat
    OBVIOUS
  <2> HIDE DEF T
  <2>2. PICK m \in T : \A k \in T : m <= k
    BY <2>1, LeastNat
  <2>3. m \in Nat /\ m # 0
    BY <1>4, <2>1
  <2>4. m - 1 \in Nat /\ m - 1 \notin T
    BY <2>2, <2>3
  <2>5. (m - 1) + 1 \notin T
    BY <1>5, <2>4
  <2> QED
    BY <2>3, <2>5
<1>7. Sub(n) = SUBSET D
  BY <1>1
<1>8. PICK f : Good(f, n)
  BY <1>6
<1> QED
  BY <1>7, <1>8 DEF Folded, D

\* F takes the steps G one after the other while its values stay in X.
Steps(F, G, X, n) ==
    \A k \in 1 .. n : F[1 .. k - 1] \in X => F[1 .. k] = G[<<F[1 .. k - 1], k>>]

\* P[k] holds the states possible after k steps.
Leads(G, P, n) == \A k \in 1 .. n : \A y \in P[k - 1] : G[<<y, k>>] \in P[k]

\* What every step leads from one set of states to the next leads to the last.
LEMMA FoldReaches ==
  ASSUME NEW n \in Nat, NEW X, NEW G, NEW P \in [0 .. n -> SUBSET X], NEW F,
         F[{}] \in P[0], Leads(G, P, n), Steps(F, G, X, n)
  PROVE  F[1 .. n] \in P[n]
<1> DEFINE B == {k \in 0 .. n : F[1 .. k] \notin P[k]}
<1>1. 0 \notin B
  <2>1. 1 .. 0 = {}
    OBVIOUS
  <2> QED
    BY <2>1
<1>2. ASSUME NEW k \in 1 .. n, k - 1 \notin B PROVE k \notin B
  <2>1. k - 1 \in 0 .. n
    OBVIOUS
  <2>2. F[1 .. k - 1] \in P[k - 1]
    BY <1>2, <2>1
  <2>3. F[1 .. k - 1] \in X
    BY <2>1, <2>2
  <2>4. F[1 .. k] \in P[k]
    BY <2>2, <2>3 DEF Leads, Steps
  <2> QED
    BY <2>4
<1>3. B = {}
  <2> SUFFICES ASSUME B # {} PROVE FALSE
    OBVIOUS
  <2>1. B \in SUBSET Nat /\ \A k \in B : k <= n
    OBVIOUS
  <2> HIDE DEF B
  <2>2. PICK m \in B : \A k \in B : m <= k
    BY <2>1, LeastNat
  <2>3. m \in Nat /\ m # 0 /\ m <= n
    BY <1>1, <2>1
  <2>4. m \in 1 .. n /\ m - 1 \notin B
    BY <2>2, <2>3
  <2> QED
    BY <1>2, <2>4
<1> QED
  BY <1>3

=============================================================================
