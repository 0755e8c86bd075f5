--------------------------- MODULE ProtocolProofs ---------------------------
(***************************************************************************)
(* Proofs about the two decoders of core/protocol.                         *)
(*                                                                         *)
(* Link, for any lines, streams and limits, and any reads: the losses it   *)
(* counts, that a reply is shown once, and the lines it takes.             *)
(*                                                                         *)
(* FrameParser, for any payload length, any CRC, any stream and any way to *)
(* split it into chunks: its types, its buffer, that no turn stalls, and   *)
(* that the frames found are those that are there.                         *)
(***************************************************************************)
EXTENDS FrameParser, Link, SequenceTheorems, FiniteSetTheorems, WellFoundedInduction, TLAPS

----------------------------------------------------------------------------
(* Numbers, sets and sums. *)

\* A set of numbers that is not empty has a least one.
LEMMA LeastOf ==
  ASSUME NEW T, T \subseteq Nat, T # {}
  PROVE  \E x \in T : \A y \in T : x <= y
<1> DEFINE R == OpToRel(<, Nat)
<1>1. IsWellFoundedOn(R, Nat)
  BY NatLessThanWellFounded
<1>2. \A x, y \in Nat : <<y, x>> \in R <=> y < x
  BY DEF OpToRel
<1> HIDE DEF R
<1>3. PICK x \in T : \A y \in T : ~ (<<y, x>> \in R)
  BY <1>1, WFMin
<1>4. ASSUME NEW y \in T PROVE x <= y
  <2>1. x \in Nat /\ y \in Nat
    OBVIOUS
  <2>2. ~(y < x)
    BY <1>2, <1>3, <2>1
  <2> QED
    BY <2>1, <2>2
<1> QED
  BY <1>4

LEMMA MinIn ==
  ASSUME NEW T, T \subseteq Nat, T # {}
  PROVE  Min(T) \in T /\ \A y \in T : Min(T) <= y
BY LeastOf DEF Min

\* What holds at 0, and goes on to the next number up to N, holds up to N.
LEMMA Upto ==
  ASSUME NEW N \in Nat, NEW A, 0 \in A, \A m \in 0..(N - 1) : m \in A => m + 1 \in A
  PROVE  \A m \in 0..N : m \in A
<1> DEFINE T == {m \in 0..N : m \notin A}
<1>1. SUFFICES ASSUME T # {} PROVE FALSE
  OBVIOUS
<1>2. PICK x \in T : \A y \in T : x <= y
  <2>1. T \subseteq Nat
    OBVIOUS
  <2> HIDE DEF T
  <2> QED
    BY <1>1, <2>1, LeastOf
<1>3. x \in Nat /\ x # 0 /\ x <= N
  OBVIOUS
<1>4. PICK m : m = x - 1
  OBVIOUS
<1>5. m \in 0..(N - 1) /\ m + 1 = x /\ m \in 0..N /\ ~(x <= m)
  BY <1>3, <1>4
<1>6. m \in A
  BY <1>2, <1>5
<1> QED
  BY <1>5, <1>6

\* What holds of the empty set, and of a set with one more element, holds of a finite one.
LEMMA Subsets ==
  ASSUME NEW S, IsFiniteSet(S), NEW A, {} \in A,
         \A T \in SUBSET S : \A x \in S \ T : T \in A => T \cup {x} \in A
  PROVE  S \in A
<1> DEFINE Sized(n) == \A T \in SUBSET S : Cardinality(T) = n => T \in A
           B == {n \in Nat : Sized(n)}
<1>1. \A T \in SUBSET S : IsFiniteSet(T) /\ Cardinality(T) \in Nat
  BY FS_Subset, FS_CardinalityType
<1>2. 0 \in B
  BY <1>1, FS_EmptySet
<1>3. ASSUME NEW n \in Nat, Sized(n) PROVE Sized(n + 1)
  <2> SUFFICES ASSUME NEW T \in SUBSET S, Cardinality(T) = n + 1 PROVE T \in A
    OBVIOUS
  <2>1. T # {}
    BY FS_EmptySet
  <2>2. PICK x \in T : TRUE
    BY <2>1
  <2>3. Cardinality(T \ {x}) = n
    <3>1. IsFiniteSet(T)
      BY <1>1
    <3>2. Cardinality(T \ {x}) = Cardinality(T) - 1
      BY <3>1, FS_RemoveElement
    <3> QED
      BY <3>2
  <2>4. T \ {x} \in A
    BY <1>3, <2>3
  <2>5. T = (T \ {x}) \cup {x} /\ T \ {x} \in SUBSET S /\ x \in S \ (T \ {x})
    OBVIOUS
  <2> QED
    BY <2>4, <2>5
<1>4. \A n \in 0..(Cardinality(S) - 1) : n \in B => n + 1 \in B
  BY <1>1, <1>3
<1> HIDE DEF B
<1>5. Cardinality(S) \in B
  BY <1>1, <1>2, <1>4, Upto
<1> QED
  BY <1>5 DEF B

\* The sums of f over the subsets of S, an element at a time.
Summed(it, f, S) ==
    it = [T \in SUBSET S |-> IF T = {} THEN 0
                             ELSE LET x == CHOOSE y \in T : TRUE IN f[x] + it[T \ {x}]]

LEMMA SumsExist == ASSUME NEW S, IsFiniteSet(S), NEW f PROVE \E it : Summed(it, f, S)
<1> DEFINE Small(n) == {T \in SUBSET S : Cardinality(T) <= n}
           Further(g, T) == IF T = {} THEN 0 ELSE LET x == CHOOSE y \in T : TRUE IN f[x] + g[T \ {x}]
           SumsTo(g, n) == g = [T \in Small(n) |-> Further(g, T)]
           A == {n \in Nat : \E g : SumsTo(g, n)}
<1>1. \A T \in SUBSET S : IsFiniteSet(T) /\ Cardinality(T) \in Nat /\ Cardinality(T) <= Cardinality(S)
  BY FS_Subset, FS_CardinalityType
<1>2. \A n \in Nat : \A T \in Small(n + 1) : T # {} => T \ {CHOOSE x \in T : TRUE} \in Small(n)
  <2> SUFFICES ASSUME NEW n \in Nat, NEW T \in Small(n + 1), T # {} PROVE T \ {CHOOSE x \in T : TRUE} \in Small(n)
    OBVIOUS
  <2>1. PICK x : x = CHOOSE z \in T : TRUE
    OBVIOUS
  <2>2. x \in T
    BY <2>1
  <2>3. Cardinality(T \ {x}) = Cardinality(T) - 1 /\ Cardinality(T) \in Nat /\ Cardinality(T) <= n + 1
    BY <1>1, <2>2, FS_RemoveElement
  <2>4. Cardinality(T \ {x}) <= n /\ T \ {x} \in SUBSET S
    BY <2>3
  <2> QED
    BY <2>1, <2>4
<1>3. 0 \in A
  <2> DEFINE g == [T \in Small(0) |-> 0]
  <2>1. \A T \in Small(0) : T = {}
    BY <1>1, FS_EmptySet
  <2>2. SumsTo(g, 0)
    BY <2>1
  <2> QED
    BY <2>2
<1>4. ASSUME NEW n \in Nat, NEW g, SumsTo(g, n) PROVE \E h : SumsTo(h, n + 1)
  <2> DEFINE h == [T \in Small(n + 1) |-> Further(g, T)]
  <2>1. \A T \in Small(n) : T \in Small(n + 1)
    BY <1>1
  <2>2. \A T \in Small(n) : h[T] = g[T]
    <3> HIDE DEF Further, Small
    <3> QED
      BY <1>4, <2>1
  <2>3. \A T \in Small(n + 1) : Further(g, T) = Further(h, T)
    <3> HIDE DEF h, Small
    <3> SUFFICES ASSUME NEW T \in Small(n + 1), T # {} PROVE Further(g, T) = Further(h, T)
      BY Zenon
    <3>1. PICK x : x = CHOOSE z \in T : TRUE
      OBVIOUS
    <3>2. h[T \ {x}] = g[T \ {x}]
      BY <1>2, <2>2, <3>1
    <3> QED
      BY <3>1, <3>2
  <2>4. SumsTo(h, n + 1)
    <3> HIDE DEF Further, Small
    <3>1. \A T \in Small(n + 1) : h[T] = Further(h, T)
      BY <2>3
    <3>2. h = [T \in Small(n + 1) |-> h[T]]
      OBVIOUS
    <3> HIDE DEF h
    <3> QED
      BY <3>1, <3>2
  <2> HIDE DEF h, SumsTo
  <2> QED
    BY <2>4
<1>5. \A n \in 0..(Cardinality(S) - 1) : n \in A => n + 1 \in A
  <2> HIDE DEF SumsTo
  <2> QED
    BY <1>4
<1> HIDE DEF A
<1>6. Cardinality(S) \in A
  BY <1>1, <1>3, <1>5, Upto
<1>7. PICK it : SumsTo(it, Cardinality(S))
  BY <1>6 DEF A
<1>8. Small(Cardinality(S)) = SUBSET S
  BY <1>1
<1> HIDE DEF Small
<1> QED
  BY <1>7, <1>8, Zenon DEF Summed

LEMMA SumIs ==
  ASSUME NEW S, IsFiniteSet(S), NEW f
  PROVE  \E it : Summed(it, f, S) /\ SumFunctionOnSet(f, S) = it[S]
<1> DEFINE it == CHOOSE it_1 : Summed(it_1, f, S)
<1>1. Summed(it, f, S)
  BY SumsExist
<1>2. SumFunctionOnSet(f, S) = it[S]
  BY Zenon DEF SumFunctionOnSet, FoldFunctionOnSet, MapThenFoldSet, Summed
<1> QED
  BY <1>1, <1>2

\* What holds of sets of any size, when it does of the smaller ones.
LEMMA BySize ==
  ASSUME NEW S, IsFiniteSet(S), NEW A,
         \A T \in SUBSET S : (\A x \in T : T \ {x} \in A) => T \in A
  PROVE  \A T \in SUBSET S : T \in A
<1> DEFINE Sized(n) == \A T \in SUBSET S : Cardinality(T) = n => T \in A
           B == {n \in Nat : Sized(n)}
<1>1. \A T \in SUBSET S : IsFiniteSet(T) /\ Cardinality(T) \in Nat /\ Cardinality(T) <= Cardinality(S)
  BY FS_Subset, FS_CardinalityType
<1>2. 0 \in B
  BY <1>1, FS_EmptySet
<1>3. ASSUME NEW n \in Nat, Sized(n) PROVE Sized(n + 1)
  <2> SUFFICES ASSUME NEW T \in SUBSET S, Cardinality(T) = n + 1 PROVE T \in A
    OBVIOUS
  <2>1. ASSUME NEW x \in T PROVE T \ {x} \in A
    <3>1. IsFiniteSet(T)
      BY <1>1
    <3>2. Cardinality(T \ {x}) = Cardinality(T) - 1
      BY <3>1, FS_RemoveElement
    <3>3. Cardinality(T \ {x}) = n /\ T \ {x} \in SUBSET S
      BY <3>2
    <3> QED
      BY <1>3, <3>3
  <2> QED
    BY <2>1
<1>4. \A n \in 0..(Cardinality(S) - 1) : n \in B => n + 1 \in B
  BY <1>1, <1>3
<1> HIDE DEF B
<1>5. \A n \in 0..Cardinality(S) : n \in B
  BY <1>1, <1>2, <1>4, Upto
<1>6. ASSUME NEW T \in SUBSET S PROVE T \in A
  <2>1. Cardinality(T) \in 0..Cardinality(S)
    BY <1>1
  <2> QED
    BY <1>5, <2>1 DEF B
<1> QED
  BY <1>6

\* The sums of two functions that are equal on a set.
LEMMA SumsAgree ==
  ASSUME NEW S, IsFiniteSet(S), NEW f, NEW it, Summed(it, f, S),
         NEW R, NEW g, NEW ju, Summed(ju, g, R), S \subseteq R, \A x \in S : f[x] = g[x]
  PROVE  \A T \in SUBSET S : it[T] = ju[T]
<1> DEFINE A == {T \in SUBSET S : it[T] = ju[T]}
<1>1. ASSUME NEW T \in SUBSET S, \A x \in T : T \ {x} \in A PROVE T \in A
  <2>1. CASE T = {}
    <3>1. it[T] = 0 /\ ju[T] = 0
      BY <2>1, Zenon DEF Summed
    <3> QED
      BY <3>1
  <2>2. CASE T # {}
    <3>1. PICK x : x = CHOOSE z \in T : TRUE
      OBVIOUS
    <3>2. x \in T
      BY <2>2, <3>1
    <3>3. it[T] = f[x] + it[T \ {x}] /\ ju[T] = g[x] + ju[T \ {x}]
      BY <2>2, <3>1 DEF Summed
    <3> QED
      BY <1>1, <3>2, <3>3
  <2> QED
    BY <2>1, <2>2
<1> HIDE DEF A
<1>2. \A T \in SUBSET S : T \in A
  BY <1>1, BySize
<1> QED
  BY <1>2 DEF A

\* A sum of numbers is one.
LEMMA SumsAreInt ==
  ASSUME NEW S, IsFiniteSet(S), NEW f, \A x \in S : f[x] \in Int, NEW it, Summed(it, f, S)
  PROVE  \A T \in SUBSET S : it[T] \in Int
<1> DEFINE A == {T \in SUBSET S : it[T] \in Int}
<1>1. it[{}] = 0
  BY Zenon DEF Summed
<1>2. ASSUME NEW T \in SUBSET S, \A x \in T : T \ {x} \in A PROVE T \in A
  <2>1. CASE T = {}
    BY <1>1, <2>1
  <2>2. CASE T # {}
    <3>1. PICK y : y = CHOOSE z \in T : TRUE
      OBVIOUS
    <3>2. y \in T /\ f[y] \in Int
      BY <2>2, <3>1
    <3>3. it[T] = f[y] + it[T \ {y}]
      BY <2>2, <3>1 DEF Summed
    <3>4. it[T \ {y}] \in Int
      BY <1>2, <3>2
    <3>5. it[T] \in Int
      BY <3>2, <3>3, <3>4
    <3> QED
      BY <3>5
  <2> QED
    BY <2>1, <2>2
<1> HIDE DEF A
<1>3. \A T \in SUBSET S : T \in A
  BY <1>2, BySize
<1> QED
  BY <1>3 DEF A

\* Any element may be the one added last.
LEMMA SumsTake ==
  ASSUME NEW S, IsFiniteSet(S), NEW f, \A x \in S : f[x] \in Int, NEW it, Summed(it, f, S)
  PROVE  \A T \in SUBSET S : \A x \in T : it[T] = f[x] + it[T \ {x}]
<1> DEFINE A == {T \in SUBSET S : \A x \in T : it[T] = f[x] + it[T \ {x}]}
<1>2. ASSUME NEW T \in SUBSET S, \A x \in T : T \ {x} \in A PROVE T \in A
  <2> SUFFICES ASSUME NEW x \in T PROVE it[T] = f[x] + it[T \ {x}]
    OBVIOUS
  <2>1. PICK y : y = CHOOSE z \in T : TRUE
    OBVIOUS
  <2>2. y \in T
    BY <2>1
  <2>3. it[T] = f[y] + it[T \ {y}]
    BY <2>1 DEF Summed
  <2>4. CASE x # y
    <3>1. (T \ {y}) \ {x} = (T \ {x}) \ {y} /\ x \in T \ {y} /\ y \in T \ {x}
      BY <2>2, <2>4
    <3> DEFINE rest == it[(T \ {x}) \ {y}]
    <3>2. it[T \ {y}] = f[x] + rest /\ it[T \ {x}] = f[y] + rest
      BY <1>2, <2>2, <3>1
    <3>3. rest \in Int
      <4>1. (T \ {x}) \ {y} \in SUBSET S
        OBVIOUS
      <4> QED
        BY <4>1, SumsAreInt
    <3>4. f[x] \in Int /\ f[y] \in Int
      BY <2>2
    <3> HIDE DEF rest
    <3> QED
      BY <2>3, <3>2, <3>3, <3>4
  <2> QED
    BY <2>3, <2>4
<1> HIDE DEF A
<1>3. \A T \in SUBSET S : T \in A
  BY <1>2, BySize
<1> QED
  BY <1>3 DEF A

\* The sum of f over S.
Total(f, S) == SumFunctionOnSet(f, S)

LEMMA SumEmpty == ASSUME NEW f PROVE Total(f, {}) = 0
<1>1. PICK it : Summed(it, f, {}) /\ Total(f, {}) = it[{}]
  BY SumIs, FS_EmptySet DEF Total
<1> QED
  BY <1>1, Zenon DEF Summed

LEMMA SumIsInt ==
  ASSUME NEW S, IsFiniteSet(S), NEW f, \A x \in S : f[x] \in Int
  PROVE  Total(f, S) \in Int
<1>1. PICK it : Summed(it, f, S) /\ Total(f, S) = it[S]
  BY SumIs DEF Total
<1> QED
  BY <1>1, SumsAreInt

\* One more element.
LEMMA SumMore ==
  ASSUME NEW S, IsFiniteSet(S), NEW x, x \notin S, NEW f, \A y \in S \cup {x} : f[y] \in Int
  PROVE  Total(f, S \cup {x}) = Total(f, S) + f[x]
<1> DEFINE R == S \cup {x}
<1>1. IsFiniteSet(R) /\ R \ {x} = S /\ S \subseteq R /\ x \in R
  BY FS_AddElement
<1>2. PICK it : Summed(it, f, R) /\ Total(f, R) = it[R]
  BY <1>1, SumIs DEF Total
<1>3. PICK ju : Summed(ju, f, S) /\ Total(f, S) = ju[S]
  BY SumIs DEF Total
<1> HIDE DEF R
<1>4. ju[S] = it[S]
  BY <1>1, <1>2, <1>3, SumsAgree
<1>5. it[R] = f[x] + it[R \ {x}] /\ it[S] \in Int /\ f[x] \in Int
  BY <1>1, <1>2, SumsTake, SumsAreInt DEF R
<1>7. it[R] = f[x] + it[S]
  BY <1>1, <1>5
<1>6. Total(f, R) = Total(f, S) + f[x]
  BY <1>2, <1>3, <1>4, <1>5, <1>7
<1> QED
  BY <1>6 DEF R

\* Of two functions with the same values.
LEMMA SumSame ==
  ASSUME NEW S, IsFiniteSet(S), NEW f, NEW g, \A x \in S : f[x] = g[x]
  PROVE  Total(f, S) = Total(g, S)
<1>1. PICK it : Summed(it, f, S) /\ Total(f, S) = it[S]
  BY SumIs DEF Total
<1>2. PICK ju : Summed(ju, g, S) /\ Total(g, S) = ju[S]
  BY SumIs DEF Total
<1>3. it[S] = ju[S]
  BY <1>1, <1>2, SumsAgree
<1> QED
  BY <1>1, <1>2, <1>3

\* What the elements of R add to those of S.
LEMMA SumAdded ==
  ASSUME NEW S, IsFiniteSet(S), NEW f, NEW h, NEW g, NEW R, R \subseteq S,
         \A x \in S : f[x] \in Int /\ h[x] \in Int,
         \A x \in R : g[x] \in Int /\ h[x] = f[x] + g[x],
         \A x \in S \ R : h[x] = f[x]
  PROVE  Total(h, S) = Total(f, S) + Total(g, R)
<1> DEFINE A == {T \in SUBSET S : Total(h, T) = Total(f, T) + Total(g, T \cap R)}
<1>1. {} \in A
  <2>1. {} \cap R = {} /\ Total(h, {}) = 0 /\ Total(f, {}) = 0 /\ Total(g, {}) = 0
    BY SumEmpty
  <2> QED
    BY <2>1
<1>2. ASSUME NEW T \in SUBSET S, NEW x \in S \ T, T \in A PROVE T \cup {x} \in A
  <2>1. IsFiniteSet(T) /\ IsFiniteSet(T \cap R)
    BY FS_Subset
  <2>2. Total(h, T \cup {x}) = Total(h, T) + h[x] /\ Total(f, T \cup {x}) = Total(f, T) + f[x]
    BY <2>1, SumMore
  <2>3. Total(f, T) \in Int /\ Total(g, T \cap R) \in Int /\ Total(h, T) = Total(f, T) + Total(g, T \cap R)
    BY <1>2, <2>1, SumIsInt
  <2>4. h[x] \in Int /\ f[x] \in Int
    OBVIOUS
  <2>5. CASE x \in R
    <3>1. (T \cup {x}) \cap R = (T \cap R) \cup {x} /\ x \notin T \cap R
      BY <2>5
    <3>2. Total(g, (T \cap R) \cup {x}) = Total(g, T \cap R) + g[x]
      BY <2>1, <2>5, <3>1, SumMore
    <3>3. g[x] \in Int /\ h[x] = f[x] + g[x]
      BY <2>5
    <3>4. Total(g, (T \cup {x}) \cap R) = Total(g, T \cap R) + g[x]
      BY <3>1, <3>2
    <3>5. Total(h, T \cup {x}) = Total(f, T \cup {x}) + Total(g, (T \cup {x}) \cap R)
      BY <2>2, <2>3, <2>4, <3>3, <3>4
    <3> QED
      BY <3>5
  <2>6. CASE x \notin R
    <3>1. (T \cup {x}) \cap R = T \cap R /\ h[x] = f[x]
      BY <2>6
    <3>2. Total(g, (T \cup {x}) \cap R) = Total(g, T \cap R)
      BY <3>1
    <3>3. Total(h, T \cup {x}) = Total(f, T \cup {x}) + Total(g, (T \cup {x}) \cap R)
      BY <2>2, <2>3, <2>4, <3>1, <3>2
    <3> QED
      BY <3>3
  <2> QED
    BY <2>5, <2>6
<1> HIDE DEF A
<1>3. S \in A
  BY <1>1, <1>2, Subsets
<1>4. S \cap R = R
  OBVIOUS
<1> QED
  BY <1>3, <1>4 DEF A

----------------------------------------------------------------------------
(* Counters. *)

\* A counter's values; the last of them, if there is one.
Entries == Int \X (Nat \ {0})
LastIs(values, b) == b = IF values = <<>> THEN None ELSE values[Len(values)][1]

\* What one value after another says was skipped, and whether it is a restart.
Lost(b, x) ==
    IF b # None /\ x[1] # None /\ IsGap(x[1] - b, 2 * x[2]) THEN Skipped(x[1] - b, x[2]) ELSE 0
Restarted(b, x) == IF b # None /\ x[1] # None /\ x[1] - b <= 0 THEN 1 ELSE 0

LEMMA SkippedIsInt == \A d \in Int, k \in Nat \ {0} : Skipped(d, k) \in Int
<1> SUFFICES ASSUME NEW d \in Int, NEW k \in Nat \ {0} PROVE Skipped(d, k) \in Int
  OBVIOUS
<1>1. d \div k \in Int
  OBVIOUS
<1> QED
  BY <1>1 DEF Skipped

\* Places in a sequence with one more element.
LEMMA AppendPlaces ==
  ASSUME NEW S, NEW v \in Seq(S), NEW x \in S
  PROVE  /\ Append(v, x) \in Seq(S) /\ Len(Append(v, x)) = Len(v) + 1 /\ Len(v) \in Nat
         /\ Append(v, x)[Len(v) + 1] = x /\ \A i \in 1..Len(v) : Append(v, x)[i] = v[i] /\ v[i] \in S
         /\ Append(v, x) # <<>> /\ (v = <<>> <=> Len(v) = 0)
OBVIOUS

LEMMA MissingIs ==
  ASSUME NEW v \in Seq(Entries)
  PROVE  /\ IsFiniteSet(Jumps(v)) /\ Jumps(v) \subseteq 2..Len(v)
         /\ Missing(v) = Total([i \in Jumps(v) |-> Skipped(Distance(v, i), v[i][2])], Jumps(v))
         /\ \A i \in Jumps(v) : Skipped(Distance(v, i), v[i][2]) \in Int
         /\ Missing(v) \in Int
<1>1. IsFiniteSet(Jumps(v)) /\ Jumps(v) \subseteq 2..Len(v)
  <2>1. IsFiniteSet(2..Len(v))
    BY FS_Interval
  <2>2. Jumps(v) \subseteq 2..Len(v)
    BY DEF Jumps
  <2> QED
    BY <2>1, <2>2, FS_Subset
<1> DEFINE f == [i \in Jumps(v) |-> Skipped(Distance(v, i), v[i][2])]
<1>2. DOMAIN f = Jumps(v)
  OBVIOUS
<1>3. Missing(v) = Total(f, Jumps(v))
  BY <1>2, Zenon DEF Missing, SumFunction, Total
<1>4. ASSUME NEW i \in Jumps(v) PROVE Skipped(Distance(v, i), v[i][2]) \in Int
  <2>1. i \in 2..Len(v)
    BY <1>1
  <2>2. v[i] \in Entries /\ v[i - 1] \in Entries
    BY <2>1
  <2>3. Distance(v, i) \in Int /\ v[i][2] \in Nat \ {0}
    BY <2>2 DEF Distance, Entries
  <2> QED
    BY <2>3, SkippedIsInt
<1>5. \A i \in Jumps(v) : f[i] \in Int
  BY <1>4
<1> HIDE DEF f
<1>6. Missing(v) \in Int
  BY <1>1, <1>3, <1>5, SumIsInt
<1> QED
  BY <1>1, <1>3, <1>4, <1>6 DEF f

LEMMA RestartsAre ==
  ASSUME NEW v \in Seq(Entries)
  PROVE  IsFiniteSet(Restarts(v)) /\ Restarts(v) \subseteq 2..Len(v) /\ Cardinality(Restarts(v)) \in Nat
<1>1. IsFiniteSet(2..Len(v))
  BY FS_Interval
<1>2. Restarts(v) \subseteq 2..Len(v)
  BY DEF Restarts
<1> QED
  BY <1>1, <1>2, FS_Subset, FS_CardinalityType

\* One more value.
LEMMA OneMore ==
  ASSUME NEW v \in Seq(Entries), NEW x \in Entries, NEW b \in Int, LastIs(v, b)
  PROVE  /\ Missing(Append(v, x)) = Missing(v) + Lost(b, x)
         /\ Cardinality(Restarts(Append(v, x))) = Cardinality(Restarts(v)) + Restarted(b, x)
<1> DEFINE n == Len(v) + 1
           w == Append(v, x)
<1>1. n \in Nat /\ n >= 1 /\ w \in Seq(Entries) /\ Len(w) = n /\ w[n] = x /\ \A i \in 1..(n - 1) : w[i] = v[i]
  BY AppendPlaces
<1>2. n >= 2 => b = v[n - 1][1] /\ w[n - 1] = v[n - 1]
  <2>1. n >= 2 => v # <<>> /\ n - 1 = Len(v) /\ n - 1 \in 1..(n - 1)
    BY AppendPlaces
  <2> QED
    BY <1>1, <2>1 DEF LastIs
<1>3. n = 1 => b = None
  BY AppendPlaces DEF LastIs
<1> DEFINE At(i) == Follows(w, i) /\ IsGap(Distance(w, i), 2 * w[i][2])
           Re(i) == Follows(w, i) /\ Distance(w, i) <= 0
<1>4. \A i \in 2..(n - 1) : /\ Follows(w, i) <=> Follows(v, i)
                            /\ Distance(w, i) = Distance(v, i) /\ w[i] = v[i]
  <2> SUFFICES ASSUME NEW i \in 2..(n - 1)
               PROVE  (Follows(w, i) <=> Follows(v, i)) /\ Distance(w, i) = Distance(v, i) /\ w[i] = v[i]
    OBVIOUS
  <2>1. w[i] = v[i] /\ w[i - 1] = v[i - 1]
    BY <1>1
  <2> HIDE DEF w
  <2> QED
    BY <2>1 DEF Follows, Distance
<1>5. n >= 2 => (Follows(w, n) <=> b # None /\ x[1] # None) /\ Distance(w, n) = x[1] - b /\ w[n] = x
  BY <1>1, <1>2 DEF Follows, Distance
<1> HIDE DEF w
<1>6. Missing(w) = Missing(v) + Lost(b, x)
  <2> DEFINE f == [i \in Jumps(w) |-> Skipped(Distance(w, i), w[i][2])]
             g == [i \in Jumps(v) |-> Skipped(Distance(v, i), v[i][2])]
  <2>1. /\ IsFiniteSet(Jumps(v)) /\ Jumps(v) \subseteq 2..(n - 1) /\ Missing(v) = Total(g, Jumps(v))
        /\ \A i \in Jumps(w) : Skipped(Distance(w, i), w[i][2]) \in Int
        /\ Missing(w) = Total(f, Jumps(w)) /\ Missing(v) \in Int
    <3>1. Len(v) = n - 1
      BY AppendPlaces
    <3> QED
      BY <1>1, <3>1, MissingIs
  <2>2. \A i \in 2..(n - 1) : i \in Jumps(w) <=> i \in Jumps(v)
    <3>1. Len(v) = n - 1 /\ \A i \in 2..(n - 1) : i \in 2..n
      BY <1>1, AppendPlaces
    <3> QED
      BY <1>1, <1>4, <3>1 DEF Jumps
  <2>3. n \in Jumps(w) <=> (n >= 2 /\ b # None /\ x[1] # None /\ IsGap(x[1] - b, 2 * x[2]))
    <3>1. n \in 2..n <=> n >= 2
      BY <1>1
    <3> QED
      BY <1>1, <1>5, <3>1 DEF Jumps
  <2>4. Jumps(w) \subseteq 2..n
    BY <1>1 DEF Jumps
  <2>5. \A i \in Jumps(v) : i \in Jumps(w) /\ f[i] = g[i]
    BY <1>4, <2>1, <2>2
  <2>6. Total(f, Jumps(v)) = Total(g, Jumps(v))
    <3> HIDE DEF f, g
    <3> QED
      BY <2>1, <2>5, SumSame
  <2>7. CASE n \in Jumps(w)
    <3>1. Jumps(w) = Jumps(v) \cup {n} /\ n \notin Jumps(v)
      BY <1>1, <2>1, <2>2, <2>4, <2>7
    <3>2. f[n] = Skipped(x[1] - b, x[2]) /\ \A i \in Jumps(v) \cup {n} : f[i] \in Int
      BY <1>5, <2>1, <2>3, <2>7, <3>1
    <3>3. Total(f, Jumps(v) \cup {n}) = Total(f, Jumps(v)) + f[n]
      <4>1. PICK S : S = Jumps(v)
        OBVIOUS
      <4>2. IsFiniteSet(S) /\ n \notin S
        BY <2>1, <3>1, <4>1
      <4>3. \A i \in S \cup {n} : f[i] \in Int
        BY <3>2, <4>1
      <4> HIDE DEF f, n
      <4>4. Total(f, S \cup {n}) = Total(f, S) + f[n]
        BY <4>2, <4>3, SumMore
      <4> QED
        BY <4>1, <4>4
    <3>4. Lost(b, x) = Skipped(x[1] - b, x[2])
      BY <2>3, <2>7 DEF Lost
    <3> HIDE DEF f, g
    <3> QED
      BY <2>1, <2>6, <3>1, <3>2, <3>3, <3>4
  <2>8. CASE n \notin Jumps(w)
    <3>1. Jumps(w) = Jumps(v)
      BY <1>1, <2>1, <2>2, <2>4, <2>8
    <3>2. Lost(b, x) = 0
      BY <1>1, <1>3, <2>3, <2>8 DEF Lost
    <3> HIDE DEF f, g
    <3> QED
      BY <2>1, <2>6, <3>1, <3>2
  <2> QED
    BY <2>7, <2>8
<1>7. Cardinality(Restarts(w)) = Cardinality(Restarts(v)) + Restarted(b, x)
  <2>1. Restarts(v) \subseteq 2..(n - 1) /\ IsFiniteSet(Restarts(v)) /\ Cardinality(Restarts(v)) \in Nat
    <3>1. Len(v) = n - 1
      BY AppendPlaces
    <3> QED
      BY <3>1, RestartsAre
  <2>2. \A i \in 2..(n - 1) : i \in Restarts(w) <=> i \in Restarts(v)
    <3>1. Len(v) = n - 1 /\ \A i \in 2..(n - 1) : i \in 2..n
      BY <1>1, AppendPlaces
    <3> QED
      BY <1>1, <1>4, <3>1 DEF Restarts
  <2>3. n \in Restarts(w) <=> (n >= 2 /\ b # None /\ x[1] # None /\ x[1] - b <= 0)
    <3>1. n \in 2..n <=> n >= 2
      BY <1>1
    <3> QED
      BY <1>1, <1>5, <3>1 DEF Restarts
  <2>4. Restarts(w) \subseteq 2..n
    BY <1>1 DEF Restarts
  <2>7. CASE n \in Restarts(w)
    <3>1. Restarts(w) = Restarts(v) \cup {n} /\ n \notin Restarts(v)
      BY <1>1, <2>1, <2>2, <2>4, <2>7
    <3>2. Restarted(b, x) = 1
      BY <2>3, <2>7 DEF Restarted
    <3> QED
      BY <2>1, <3>1, <3>2, FS_AddElement
  <2>8. CASE n \notin Restarts(w)
    <3>1. Restarts(w) = Restarts(v)
      <4>1. \A i \in 2..n : i = n \/ i \in 2..(n - 1)
        BY <1>1
      <4>2. \A i \in Restarts(w) : i \in Restarts(v)
        BY <2>2, <2>4, <2>8, <4>1
      <4>3. \A i \in Restarts(v) : i \in Restarts(w)
        BY <2>1, <2>2
      <4> QED
        BY <4>2, <4>3, Zenon
    <3>2. Restarted(b, x) = 0
      BY <1>1, <1>3, <2>3, <2>8 DEF Restarted
    <3> QED
      BY <2>1, <3>1, <3>2
  <2> QED
    BY <2>7, <2>8
<1> QED
  BY <1>6, <1>7 DEF w

\* A run of values after the last one adds what it shows by itself, that one before it.
LEMMA RunAdds ==
  ASSUME NEW v \in Seq(Entries), NEW b \in Int, LastIs(v, b), NEW k \in Nat \ {0}, NEW run \in Seq(Entries)
  PROVE  /\ Missing(v \o run) = Missing(v) + Missing(<<<<b, k>>>> \o run)
         /\ Cardinality(Restarts(v \o run))
              = Cardinality(Restarts(v)) + Cardinality(Restarts(<<<<b, k>>>> \o run))
<1> DEFINE u == <<<<b, k>>>>
           Part(n) == SubSeq(run, 1, n)
           Both(n) == /\ Missing(v \o Part(n)) = Missing(v) + Missing(u \o Part(n))
                      /\ Cardinality(Restarts(v \o Part(n)))
                           = Cardinality(Restarts(v)) + Cardinality(Restarts(u \o Part(n)))
                      /\ \E c \in Int : LastIs(v \o Part(n), c) /\ LastIs(u \o Part(n), c)
           A == {n \in 0..Len(run) : Both(n)}
<1>1. Len(run) \in Nat /\ u \in Seq(Entries) /\ Len(u) = 1 /\ u[1][1] = b /\ u # <<>>
  BY DEF Entries
<1> HIDE DEF u
<1>2. 0 \in A
  <2>1. Part(0) = <<>> /\ v \o <<>> = v /\ u \o <<>> = u
    BY <1>1
  <2>2. Missing(u) = 0 /\ Cardinality(Restarts(u)) = 0
    <3>1. 2..Len(u) = {}
      BY <1>1
    <3>2. Jumps(u) = {} /\ Restarts(u) = {}
      BY <3>1 DEF Jumps, Restarts
    <3> DEFINE f == [i \in Jumps(u) |-> Skipped(Distance(u, i), u[i][2])]
    <3>3. Missing(u) = Total(f, Jumps(u))
      BY <1>1, MissingIs
    <3> HIDE DEF f
    <3> QED
      BY <3>2, <3>3, SumEmpty, FS_EmptySet
  <2>3. LastIs(u, b)
    BY <1>1 DEF LastIs
  <2>4. Missing(v) \in Int /\ Cardinality(Restarts(v)) \in Nat
    BY MissingIs, RestartsAre
  <2>5. v \o Part(0) = v /\ u \o Part(0) = u
    BY <2>1
  <2> HIDE DEF Part
  <2>6. Both(0)
    <3>1. Missing(v) = Missing(v) + Missing(u)
      BY <2>2, <2>4
    <3>2. Cardinality(Restarts(v)) = Cardinality(Restarts(v)) + Cardinality(Restarts(u))
      BY <2>2, <2>4
    <3> QED
      BY <2>3, <2>5, <3>1, <3>2, Zenon
  <2> HIDE DEF Both
  <2> QED
    BY <1>1, <2>6
<1>3. ASSUME NEW n \in 0..(Len(run) - 1), n \in A PROVE n + 1 \in A
  <2>1. PICK c \in Int : LastIs(v \o Part(n), c) /\ LastIs(u \o Part(n), c)
    BY <1>3
  <2>2. PICK x : x = run[n + 1]
    OBVIOUS
  <2>3. x \in Entries /\ Part(n) \in Seq(Entries) /\ Part(n + 1) = Append(Part(n), x)
    BY <1>1, <2>2
  <2> DEFINE p == Part(n)
             vp == v \o p
             up == u \o p
  <2>4. /\ vp \in Seq(Entries) /\ up \in Seq(Entries)
        /\ v \o Append(p, x) = Append(vp, x) /\ u \o Append(p, x) = Append(up, x)
    <3> HIDE DEF p
    <3> QED
      BY <1>1, <2>3, SMTT(20) DEF p
  <2>5. /\ Missing(vp) = Missing(v) + Missing(up)
        /\ Cardinality(Restarts(vp)) = Cardinality(Restarts(v)) + Cardinality(Restarts(up))
        /\ LastIs(vp, c) /\ LastIs(up, c)
    BY <1>3, <2>1
  <2> HIDE DEF vp, up
  <2>6. /\ Missing(Append(vp, x)) = Missing(vp) + Lost(c, x) /\ Missing(Append(up, x)) = Missing(up) + Lost(c, x)
        /\ Cardinality(Restarts(Append(vp, x))) = Cardinality(Restarts(vp)) + Restarted(c, x)
        /\ Cardinality(Restarts(Append(up, x))) = Cardinality(Restarts(up)) + Restarted(c, x)
    BY <2>3, <2>4, <2>5, OneMore
  <2>7. Lost(c, x) \in Int /\ Restarted(c, x) \in Int
    <3>1. x[1] \in Int /\ x[2] \in Nat \ {0} /\ x[1] - c \in Int
      BY <2>3 DEF Entries
    <3>2. Skipped(x[1] - c, x[2]) \in Int
      BY <3>1, SkippedIsInt
    <3> QED
      BY <3>2 DEF Lost, Restarted
  <2>8. Missing(v) \in Int /\ Missing(up) \in Int /\ Cardinality(Restarts(v)) \in Nat /\ Cardinality(Restarts(up)) \in Nat
    BY <2>4, MissingIs, RestartsAre
  <2>9. x[1] \in Int /\ LastIs(Append(vp, x), x[1]) /\ LastIs(Append(up, x), x[1])
    <3>1. \A q \in Seq(Entries) : LastIs(Append(q, x), x[1])
      BY <2>3, AppendPlaces DEF LastIs
    <3>2. x[1] \in Int
      BY <2>3 DEF Entries
    <3> QED
      BY <2>4, <3>1, <3>2
  <2>10. Missing(Append(vp, x)) = Missing(v) + Missing(Append(up, x))
    BY <2>5, <2>6, <2>7, <2>8
  <2>11. Cardinality(Restarts(Append(vp, x))) = Cardinality(Restarts(v)) + Cardinality(Restarts(Append(up, x)))
    BY <2>5, <2>6, <2>7, <2>8
  <2>12. v \o Part(n + 1) = Append(vp, x) /\ u \o Part(n + 1) = Append(up, x)
    BY <2>3, <2>4
  <2> HIDE DEF Part
  <2>13. Both(n + 1)
    BY <2>9, <2>10, <2>11, <2>12
  <2>14. n + 1 \in 0..Len(run)
    BY <1>1
  <2> HIDE DEF Both
  <2> QED
    BY <2>13, <2>14
<1> HIDE DEF A, Part, Both
<1>4. Len(run) \in A
  <2>1. \A m \in 0..(Len(run) - 1) : m \in A => m + 1 \in A
    BY <1>3
  <2>2. PICK N \in Nat : N = Len(run)
    BY <1>1
  <2>3. \A m \in 0..N : m \in A
    BY <1>2, <2>1, <2>2, Upto
  <2>4. N \in 0..N
    OBVIOUS
  <2> QED
    BY <2>2, <2>3, <2>4
<1>5. Part(Len(run)) = run
  BY DEF Part
<1> QED
  BY <1>4, <1>5 DEF A, Both, u

\* The values of a batch's frames of one layout, of those at a set of places.
WithValue(t, vs, f) == IF <<f.id, f.size>> = t THEN Append(vs, <<f.counter, 1>>) ELSE vs
Picking(it, n, batch, t) ==
    it = [S \in SUBSET (1..n) |-> IF S = {} THEN <<>>
                                  ELSE WithValue(t, it[S \ {Max(S)}], batch[Max(S)])]

LEMMA PickingFurther ==
  ASSUME NEW n \in Nat, NEW batch, NEW t, NEW g, Picking(g, n, batch, t)
  PROVE  \E h : Picking(h, n + 1, batch, t)
<1> DEFINE PickAt(v, i) == WithValue(t, v, batch[i])
           L == n + 1
           h == [S \in SUBSET (1..L) |-> IF L \in S THEN PickAt(g[S \ {L}], L) ELSE g[S]]
<1>1. \A S \in SUBSET (1..n) : g[S] = IF S = {} THEN <<>> ELSE PickAt(g[S \ {Max(S)}], Max(S))
  BY DEF Picking
<1>2. L \in Nat /\ L \in 1..L /\ 1..n = (1..L) \ {L} /\ \A y \in 1..L : L >= y /\ (y >= L => y = L)
  OBVIOUS
<1> HIDE DEF PickAt, L
<1>3. ASSUME NEW S \in SUBSET (1..L)
      PROVE  h[S] = IF S = {} THEN <<>> ELSE PickAt(h[S \ {Max(S)}], Max(S))
  <2>1. CASE L \in S
    <3>1. Max(S) = L
      <4>1. \A y \in S : L >= y
        BY <1>2
      <4>2. \A x \in S : (\A y \in S : x >= y) => x = L
        BY <1>2, <2>1
      <4> QED
        BY <2>1, <4>1, <4>2 DEF Max
    <3>2. S \ {L} \in SUBSET (1..L) /\ L \notin S \ {L} /\ S # {}
      BY <2>1
    <3>3. h[S \ {L}] = g[S \ {L}]
      BY <3>2
    <3> QED
      BY <2>1, <3>1, <3>2, <3>3
  <2>2. CASE L \notin S /\ S # {}
    <3>1. S \in SUBSET (1..n) /\ S \ {Max(S)} \in SUBSET (1..L) /\ L \notin S \ {Max(S)}
      BY <1>2, <2>2
    <3>2. h[S \ {Max(S)}] = g[S \ {Max(S)}] /\ h[S] = g[S]
      BY <2>2, <3>1
    <3> QED
      BY <1>1, <2>2, <3>1, <3>2
  <2>3. CASE S = {}
    <3>1. {} \in SUBSET (1..n) /\ L \notin {}
      OBVIOUS
    <3>2. g[{}] = <<>>
      BY <1>1, <3>1
    <3> QED
      BY <2>3, <3>2
  <2> QED
    BY <2>1, <2>2, <2>3
<1>4. h = [S \in SUBSET (1..L) |-> IF S = {} THEN <<>> ELSE PickAt(h[S \ {Max(S)}], Max(S))]
  <2>1. h = [S \in SUBSET (1..L) |-> h[S]]
    OBVIOUS
  <2> HIDE DEF h
  <2> QED
    BY <1>3, <2>1
<1> HIDE DEF h
<1> QED
  BY <1>4 DEF Picking, PickAt, L

LEMMA PickingExists == ASSUME NEW N \in Nat, NEW batch, NEW t PROVE \E it : Picking(it, N, batch, t)
<1> DEFINE A == {n \in Nat : \E it : Picking(it, n, batch, t)}
<1>1. 0 \in A
  <2> DEFINE it == [S \in {{}} |-> <<>>]
  <2>1. SUBSET (1..0) = {{}}
    OBVIOUS
  <2>2. it = [S \in SUBSET (1..0) |-> IF S = {} THEN <<>>
                                      ELSE WithValue(t, it[S \ {Max(S)}], batch[Max(S)])]
    BY <2>1
  <2> QED
    BY <2>2 DEF Picking
<1>2. \A n \in 0..(N - 1) : n \in A => n + 1 \in A
  BY PickingFurther
<1> HIDE DEF A
<1>3. N \in A
  BY <1>1, <1>2, Upto
<1> QED
  BY <1>3 DEF A

LEMMA ValuesAre ==
  ASSUME NEW batch \in Seq(Frames), NEW t
  PROVE  /\ Values(batch, t) \in Seq(Entries)
         /\ (\E i \in 1..Len(batch) : <<batch[i].id, batch[i].size>> = t) => Values(batch, t) # <<>>
<1> DEFINE n == Len(batch)
           it == CHOOSE it_1 : Picking(it_1, n, batch, t)
           Sound(m) == /\ it[1..m] \in Seq(Entries)
                       /\ (\E i \in 1..m : <<batch[i].id, batch[i].size>> = t) => it[1..m] # <<>>
           A == {m \in 0..n : Sound(m)}
<1>1. n \in Nat /\ DOMAIN batch = 1..n /\ \A m \in 1..n : batch[m] \in Frames
  OBVIOUS
<1>2. Picking(it, n, batch, t)
  BY <1>1, PickingExists
<1>3. Values(batch, t) = it[1..n]
  BY <1>1, Zenon DEF Values, FoldLeft, MapThenFoldSet, Picking, WithValue
<1> HIDE DEF it, n
<1>4. 0 \in A
  <2>1. 1..0 = {} /\ {} \in SUBSET (1..n) /\ 0 \in 0..n
    BY <1>1
  <2>2. it[1..0] = <<>>
    BY <1>2, <2>1 DEF Picking
  <2>3. it[1..0] \in Seq(Entries) /\ ~\E i \in 1..0 : <<batch[i].id, batch[i].size>> = t
    BY <2>1, <2>2
  <2>4. Sound(0)
    BY <2>3
  <2> HIDE DEF Sound
  <2> QED
    BY <2>1, <2>4
<1>5. ASSUME NEW m \in 0..(n - 1), m \in A PROVE m + 1 \in A
  <2> DEFINE v == it[1..m]
             w == it[1..(m + 1)]
             x == batch[m + 1]
  <2>0. m \in Nat /\ m + 1 \in 0..n /\ m + 1 \in 1..n
    BY <1>1
  <2>1. 1..(m + 1) \in SUBSET (1..n) /\ 1..(m + 1) # {} /\ (1..(m + 1)) \ {m + 1} = 1..m
    <3>1. 1..(m + 1) \in SUBSET (1..n)
      BY <1>1, <2>0
    <3>2. (1..(m + 1)) \ {m + 1} = 1..m /\ m + 1 \in 1..(m + 1)
      BY <2>0
    <3> QED
      BY <2>0, <3>1, <3>2
  <2>2. Max(1..(m + 1)) = m + 1
    <3>1. m + 1 \in 1..(m + 1) /\ \A y \in 1..(m + 1) : m + 1 >= y /\ (y >= m + 1 => y = m + 1)
      BY <2>0
    <3> QED
      BY <3>1 DEF Max
  <2>3. w = WithValue(t, v, x)
    BY <1>2, <2>1, <2>2 DEF Picking
  <2>4. v \in Seq(Entries) /\ x \in Frames /\ ((\E i \in 1..m : <<batch[i].id, batch[i].size>> = t) => v # <<>>)
    BY <1>1, <1>5, <2>0
  <2>5. <<x.counter, 1>> \in Entries
    BY <2>4, FramesAssumption DEF Entries
  <2>6. \A i \in 1..(m + 1) : i \in 1..m \/ i = m + 1
    BY <2>0
  <2> HIDE DEF v, w
  <2>7. CASE <<x.id, x.size>> = t
    <3>1. w = Append(v, <<x.counter, 1>>)
      BY <2>3, <2>7 DEF WithValue
    <3>2. w \in Seq(Entries) /\ w # <<>>
      BY <2>4, <2>5, <3>1, AppendPlaces
    <3> QED
      BY <2>0, <3>2 DEF w
  <2>8. CASE <<x.id, x.size>> # t
    <3>1. w = v
      BY <2>3, <2>8 DEF WithValue
    <3>2. (\E i \in 1..(m + 1) : <<batch[i].id, batch[i].size>> = t) => v # <<>>
      BY <2>4, <2>6, <2>8
    <3> QED
      BY <2>0, <2>4, <3>1, <3>2 DEF w
  <2> QED
    BY <2>7, <2>8
<1> HIDE DEF A
<1>6. n \in A
  <2>1. \A m \in 0..(n - 1) : m \in A => m + 1 \in A
    BY <1>5
  <2>2. \A m \in 0..n : m \in A
    BY <1>1, <1>4, <2>1, Upto
  <2>3. n \in 0..n
    BY <1>1
  <2> QED
    BY <2>2, <2>3
<1>7. Sound(n)
  BY <1>6 DEF A
<1> HIDE DEF Sound
<1> QED
  BY <1>3, <1>7 DEF Sound, n

LEMMA CountsOf ==
  \A v \in Seq(Entries) :
      Missing(v) \in Int /\ Cardinality(Restarts(v)) \in Int /\ Cardinality(Jumps(v)) \in Int
<1> TAKE v \in Seq(Entries)
<1>1. Missing(v) \in Int /\ IsFiniteSet(Jumps(v)) /\ Cardinality(Restarts(v)) \in Nat
  BY MissingIs, RestartsAre
<1> QED
  BY <1>1, FS_CardinalityType

\* What the stats become when tracks have had runs of values.
Tracking(s, T, runs) == s \in [Counters -> Int] /\ IsFiniteSet(T) /\ runs \in [T -> Seq(Entries)]
TrackedStats(s, T, runs, r) ==
    /\ r \in [Counters -> Int]
    /\ \A c \in Counters \ {"gaps", "missing", "resets"} : r[c] = s[c]
    /\ r["missing"] = s["missing"] + Total([t \in T |-> Missing(runs[t])], T)
    /\ r["resets"] = s["resets"] + Total([t \in T |-> Cardinality(Restarts(runs[t]))], T)

LEMMA TrackedStatsAre ==
  ASSUME NEW s, NEW T, NEW runs, Tracking(s, T, runs)
  PROVE  TrackedStats(s, T, runs, TrackCounter(s, runs))
<1>0. PICK r : r = TrackCounter(s, runs)
  OBVIOUS
<1> USE DEF Tracking
<1> DEFINE gf == [t \in T |-> Cardinality(Jumps(runs[t]))]
           mf == [t \in T |-> Missing(runs[t])]
           rf == [t \in T |-> Cardinality(Restarts(runs[t]))]
<1>1. \A t \in T : gf[t] \in Int /\ mf[t] \in Int /\ rf[t] \in Int
  BY CountsOf
<1>2. DOMAIN gf = T /\ DOMAIN mf = T /\ DOMAIN rf = T /\ DOMAIN runs = T
  OBVIOUS
<1>3. r = [s EXCEPT !["gaps"] = @ + SumFunction(gf), !["missing"] = @ + SumFunction(mf),
                    !["resets"] = @ + SumFunction(rf)]
  BY <1>0, <1>2, Zenon DEF TrackCounter
<1> HIDE DEF gf, mf, rf
<1>4. SumFunction(gf) = Total(gf, T) /\ SumFunction(mf) = Total(mf, T) /\ SumFunction(rf) = Total(rf, T)
  BY <1>2, Zenon DEF SumFunction, Total
<1>5. Total(gf, T) \in Int /\ Total(mf, T) \in Int /\ Total(rf, T) \in Int
  BY <1>1, SumIsInt
<1>6. {"gaps", "missing", "resets"} \subseteq Counters
  BY DEF Counters
<1>7. PICK g \in Int, m \in Int, x \in Int :
        g = Total(gf, T) /\ m = Total(mf, T) /\ x = Total(rf, T)
  BY <1>5
<1>8. r = [s EXCEPT !["gaps"] = @ + g, !["missing"] = @ + m, !["resets"] = @ + x]
  BY <1>3, <1>4, <1>7
<1>9. /\ r \in [Counters -> Int] /\ \A c \in Counters \ {"gaps", "missing", "resets"} : r[c] = s[c]
      /\ r["missing"] = s["missing"] + m /\ r["resets"] = s["resets"] + x
  BY <1>6, <1>8
<1> QED
  BY <1>0, <1>7, <1>9 DEF mf, rf, TrackedStats

\* More for some of a set, as a formula of a name.
AddsUp(S, f, h, g, R) ==
    /\ IsFiniteSet(S) /\ R \subseteq S /\ \A x \in S : f[x] \in Int /\ h[x] \in Int
    /\ \A x \in R : g[x] \in Int /\ h[x] = f[x] + g[x]
    /\ \A x \in S \ R : h[x] = f[x]

LEMMA AddedUp ==
  ASSUME NEW S, NEW f, NEW h, NEW g, NEW R, AddsUp(S, f, h, g, R)
  PROVE  Total(h, S) = Total(f, S) + Total(g, R)
BY SumAdded DEF AddsUp

\* The sums over all tracks, once some have had more values.
Extended(v, b, w, T, more, runs) ==
    /\ v \in [Tracks -> Seq(Entries)] /\ w \in [Tracks -> Seq(Entries)] /\ b \in [Tracks -> Int]
    /\ \A t \in Tracks : LastIs(v[t], b[t])
    /\ T \subseteq Tracks /\ more \in [T -> Seq(Entries)] /\ runs \in [T -> Seq(Entries)]
    /\ \A t \in T : w[t] = v[t] \o more[t] /\ \E k \in Nat \ {0} : runs[t] = <<<<b[t], k>>>> \o more[t]
    /\ \A t \in Tracks \ T : w[t] = v[t]

SumsExtended(v, w, T, runs) ==
    /\ Total([t \in Tracks |-> Missing(w[t])], Tracks)
         = Total([t \in Tracks |-> Missing(v[t])], Tracks) + Total([t \in T |-> Missing(runs[t])], T)
    /\ Total([t \in Tracks |-> Cardinality(Restarts(w[t]))], Tracks)
         = Total([t \in Tracks |-> Cardinality(Restarts(v[t]))], Tracks)
             + Total([t \in T |-> Cardinality(Restarts(runs[t]))], T)

LEMMA RunsTallied ==
  ASSUME NEW v, NEW b, NEW w, NEW T, NEW more, NEW runs, Extended(v, b, w, T, more, runs)
  PROVE  SumsExtended(v, w, T, runs)
<1> USE DEF Extended
<1> DEFINE mw == [t \in Tracks |-> Missing(w[t])]
           mv == [t \in Tracks |-> Missing(v[t])]
           mr == [t \in T |-> Missing(runs[t])]
           rw == [t \in Tracks |-> Cardinality(Restarts(w[t]))]
           rv == [t \in Tracks |-> Cardinality(Restarts(v[t]))]
           rr == [t \in T |-> Cardinality(Restarts(runs[t]))]
<1>1. \A t \in Tracks : mv[t] \in Int /\ mw[t] \in Int /\ rv[t] \in Int /\ rw[t] \in Int
  BY CountsOf
<1>2. \A t \in T : mr[t] \in Int /\ rr[t] \in Int
  BY CountsOf
<1>3. \A t \in T : mw[t] = mv[t] + mr[t] /\ rw[t] = rv[t] + rr[t]
  <2> TAKE t \in T
  <2>1. PICK k \in Nat \ {0} : runs[t] = <<<<b[t], k>>>> \o more[t]
    OBVIOUS
  <2>2. v[t] \in Seq(Entries) /\ b[t] \in Int /\ LastIs(v[t], b[t]) /\ more[t] \in Seq(Entries) /\ t \in Tracks
    OBVIOUS
  <2>3. /\ Missing(v[t] \o more[t]) = Missing(v[t]) + Missing(<<<<b[t], k>>>> \o more[t])
        /\ Cardinality(Restarts(v[t] \o more[t]))
             = Cardinality(Restarts(v[t])) + Cardinality(Restarts(<<<<b[t], k>>>> \o more[t]))
    BY <2>2, RunAdds
  <2> QED
    BY <2>1, <2>2, <2>3
<1>4. \A t \in Tracks \ T : mw[t] = mv[t] /\ rw[t] = rv[t]
  OBVIOUS
<1> HIDE DEF mw, mv, mr, rw, rv, rr
<1>5. Total(mw, Tracks) = Total(mv, Tracks) + Total(mr, T)
  <2>1. /\ \A t \in Tracks : mv[t] \in Int /\ mw[t] \in Int
        /\ \A t \in T : mr[t] \in Int /\ mw[t] = mv[t] + mr[t]
        /\ \A t \in Tracks \ T : mw[t] = mv[t]
    BY <1>1, <1>2, <1>3, <1>4
  <2>2. AddsUp(Tracks, mv, mw, mr, T)
    BY <2>1, TracksAssumption DEF AddsUp
  <2> QED
    BY <2>2, AddedUp
<1>6. Total(rw, Tracks) = Total(rv, Tracks) + Total(rr, T)
  <2>1. /\ \A t \in Tracks : rv[t] \in Int /\ rw[t] \in Int
        /\ \A t \in T : rr[t] \in Int /\ rw[t] = rv[t] + rr[t]
        /\ \A t \in Tracks \ T : rw[t] = rv[t]
    BY <1>1, <1>2, <1>3, <1>4
  <2>2. AddsUp(Tracks, rv, rw, rr, T)
    BY <2>1, TracksAssumption DEF AddsUp
  <2> QED
    BY <2>2, AddedUp
<1> QED
  BY <1>5, <1>6 DEF mw, mv, mr, rw, rv, rr, SumsExtended

----------------------------------------------------------------------------
(* Types. *)

LEMMA MaxIn ==
  ASSUME NEW N \in Nat, NEW T, T \subseteq 1..N, T # {}
  PROVE  Max(T) \in T /\ \A y \in T : y <= Max(T)
<1>1. PICK U : U = {N - y : y \in T}
  OBVIOUS
<1>2. U \subseteq Nat /\ U # {}
  <2>1. \A y \in T : N - y \in Nat /\ N - y \in U
    BY <1>1
  <2> QED
    BY <1>1, <2>1
<1>3. PICK u \in U : \A y \in U : u <= y
  BY <1>2, LeastOf
<1>4. PICK x \in T : u = N - x
  BY <1>1, <1>3
<1>5. \A y \in T : x >= y
  <2> TAKE y \in T
  <2>1. u <= N - y
    BY <1>1, <1>3
  <2> QED
    BY <1>4, <2>1
<1>6. Max(T) \in T /\ \A y \in T : Max(T) >= y
  BY <1>5 DEF Max
<1> QED
  BY <1>6

LEMMA StripIsSeq == \A l \in Seq(Int) : Strip(l) \in Seq(Int)
<1> TAKE l \in Seq(Int)
<1> DEFINE ink == {i \in 1..Len(l) : l[i] # SP}
<1>1. CASE ink = {}
  BY <1>1 DEF Strip
<1>2. CASE ink # {}
  <2>1. Len(l) \in Nat /\ ink \subseteq 1..Len(l) /\ ink \subseteq Nat
    OBVIOUS
  <2>2. Strip(l) = SubSeq(l, Min(ink), Max(ink))
    BY <1>2, Zenon DEF Strip
  <2> HIDE DEF ink
  <2>3. Min(ink) \in 1..Len(l) /\ Max(ink) \in 1..Len(l)
    BY <1>2, <2>1, MinIn, MaxIn
  <2> QED
    BY <2>2, <2>3
<1> QED
  BY <1>1, <1>2

LEMMA CountIs ==
  \A s \in [Counters -> Int] : \A cs :
      Count(s, cs) \in [Counters -> Int]
      /\ \A c \in Counters : Count(s, cs)[c] = IF c \in cs THEN s[c] + 1 ELSE s[c]
BY DEF Count

\* Two parts of a sequence, about one of its elements.
LEMMA CutPlaces ==
  ASSUME NEW S, NEW v \in Seq(S), NEW p \in 1..Len(v)
  PROVE  /\ SubSeq(v, 1, p - 1) \in Seq(S) /\ Len(SubSeq(v, 1, p - 1)) = p - 1
         /\ \A i \in 1..(p - 1) : SubSeq(v, 1, p - 1)[i] = v[i]
         /\ SubSeq(v, p + 1, Len(v)) \in Seq(S) /\ Len(SubSeq(v, p + 1, Len(v))) = Len(v) - p
         /\ \A i \in 1..(Len(v) - p) : SubSeq(v, p + 1, Len(v))[i] = v[p + i]
OBVIOUS

\* What is before the first newline of the buffer, and after it.
LEMMA FirstIs ==
  ASSUME LTypeOK, NextLine
  PROVE  /\ feeding /\ Min(Newlines) \in 1..Len(lineBuf) /\ lineBuf[Min(Newlines)] = NL
         /\ \A i \in 1..(Min(Newlines) - 1) : lineBuf[i] # NL
         /\ First \in Seq(Int) /\ Len(First) = Min(Newlines) - 1
         /\ \A i \in 1..Len(First) : First[i] = lineBuf[i]
         /\ lineBuf' \in Seq(Int) /\ Len(lineBuf') = Len(lineBuf) - Min(Newlines)
         /\ \A i \in 1..Len(lineBuf') : lineBuf'[i] = lineBuf[Min(Newlines) + i]
<1>1. lineBuf \in Seq(Int) /\ Newlines # {} /\ feeding
  BY DEF LTypeOK, NextLine
<1>2. Newlines \subseteq 1..Len(lineBuf) /\ Newlines \subseteq Nat
  BY DEF Newlines
<1>3. PICK p : p = Min(Newlines)
  OBVIOUS
<1>4. p \in Newlines /\ \A y \in Newlines : p <= y
  BY <1>1, <1>2, <1>3, MinIn
<1>5. p \in 1..Len(lineBuf) /\ lineBuf[p] = NL /\ \A i \in 1..(p - 1) : lineBuf[i] # NL
  BY <1>1, <1>4 DEF Newlines
<1>6. First = SubSeq(lineBuf, 1, p - 1) /\ lineBuf' = SubSeq(lineBuf, p + 1, Len(lineBuf))
  BY <1>3 DEF First, NextLine
<1>7. /\ First \in Seq(Int) /\ Len(First) = p - 1 /\ \A i \in 1..(p - 1) : First[i] = lineBuf[i]
      /\ lineBuf' \in Seq(Int) /\ Len(lineBuf') = Len(lineBuf) - p
      /\ \A i \in 1..(Len(lineBuf) - p) : lineBuf'[i] = lineBuf[p + i]
  BY <1>1, <1>5, <1>6, CutPlaces
<1> QED
  BY <1>1, <1>3, <1>5, <1>7

\* A matched line is bad, or decoded, and its counter is tracked if there is one.
LEMMA MatchedIs ==
  ASSUME LTypeOK, MatchedLine
  PROVE  \E s \in TextStreams :
           \/ linkStats' = Count(linkStats, {"lines", "bad"}) /\ UNCHANGED <<line, last, tracked>>
           \/ /\ line' = [line EXCEPT ![<<s.key>>] = (@ + 1) % LineMod]
              /\ linkStats' = Count(linkStats, {"lines", "decoded"}) /\ UNCHANGED <<last, tracked>>
           \/ /\ line' = [line EXCEPT ![<<s.key>>] = (@ + 1) % LineMod]
              /\ \E value \in Int :
                  /\ linkStats' = TrackCounter(Count(linkStats, {"lines", "decoded"}),
                         [u \in {<<s.key>>} |-> <<<<last[<<s.key>>], s.step>>, <<value, s.step>>>>])
                  /\ last' = [last EXCEPT ![<<s.key>>] = value]
                  /\ tracked' = [tracked EXCEPT ![<<s.key>>] = Append(@, <<value, s.step>>)]
<1>1. PICK l : l = Strip(First)
  OBVIOUS
<1>2. PICK s : s = streams[Min(Matching(l))]
  OBVIOUS
<1>3. Matching(l) # {} /\ Matching(l) \subseteq 1..Len(streams)
  BY <1>1 DEF MatchedLine, Matching
<1>4. Matches(streams[Min(Matching(l))], l) /\ s \in TextStreams
  <2>1. format = "text"
    BY <1>1 DEF LTypeOK, MatchedLine, ShortLine, NextLine
  <2>2. streams \in Seq(TextStreams)
    BY <2>1, StreamsAssumption DEF LTypeOK, Configs
  <2>3. Min(Matching(l)) \in Matching(l)
    <3>1. Matching(l) \subseteq Nat
      BY <1>3
    <3> QED
      BY <1>3, <3>1, MinIn
  <2> QED
    BY <1>2, <1>3, <2>2, <2>3 DEF Matching
<1>5. PICK value : value = CounterOf(s, l)
  OBVIOUS
<1>6. \/ ValueError(s, l) /\ linkStats' = Count(linkStats, {"lines", "bad"}) /\ UNCHANGED <<line, last, tracked>>
      \/ /\ ~ValueError(s, l) /\ line' = [line EXCEPT ![<<s.key>>] = (@ + 1) % LineMod]
         /\ \/ linkStats' = Count(linkStats, {"lines", "decoded"}) /\ UNCHANGED <<last, tracked>>
            \/ /\ value # None
               /\ linkStats' = TrackCounter(Count(linkStats, {"lines", "decoded"}),
                         [u \in {<<s.key>>} |-> <<<<last[<<s.key>>], s.step>>, <<value, s.step>>>>])
               /\ last' = [last EXCEPT ![<<s.key>>] = value]
               /\ tracked' = [tracked EXCEPT ![<<s.key>>] = Append(@, <<value, s.step>>)]
  BY <1>1, <1>2, <1>5, Zenon DEF MatchedLine
<1>7. ~ValueError(s, l) /\ value # None => value \in Int
  <2> SUFFICES ASSUME ~ValueError(s, l), value # None PROVE value \in Int
    OBVIOUS
  <2>1. s.time # 0 /\ s.types[s.time] # "f32" /\ value = Slots(s, l)[s.time][1]
    BY <1>5 DEF CounterOf
  <2>2. s.time \in DOMAIN s.types
    BY <1>4, <2>1, StreamsAssumption
  <2>3. Converts(s.types[s.time], Slots(s, l)[s.time])
    BY <2>2 DEF ValueError
  <2>4. value \in Digits
    BY <2>1, <2>3 DEF Converts
  <2> QED
    BY <2>4, TextLineAssumption
<1> QED
  BY <1>4, <1>6, <1>7

Dropping(s, u, m, n) ==
    [s EXCEPT !["unknown"] = @ + u, !["mismatched"] = @ + m, !["decoded"] = @ + n - u - m]
LEMMA DroppedIs ==
  \A s \in [Counters -> Int], u, m, n \in Nat :
      /\ Dropping(s, u, m, n) \in [Counters -> Int]
      /\ \A c \in Counters \ {"unknown", "mismatched", "decoded"} : Dropping(s, u, m, n)[c] = s[c]
      /\ Dropping(s, u, m, n)["decoded"] + Dropping(s, u, m, n)["unknown"] + Dropping(s, u, m, n)["mismatched"]
           = s["decoded"] + s["unknown"] + s["mismatched"] + n
<1> TAKE s \in [Counters -> Int], u, m, n \in Nat
<1>0. PICK r : r = Dropping(s, u, m, n)
  OBVIOUS
<1>1. {"unknown", "mismatched", "decoded"} \subseteq Counters
  BY DEF Counters
<1>2. PICK v : v = s["decoded"] + n - u - m
  OBVIOUS
<1>3. s["decoded"] \in Int /\ s["unknown"] \in Int /\ s["mismatched"] \in Int /\ v \in Int
  BY <1>1, <1>2
<1>4. r = [s EXCEPT !["unknown"] = @ + u, !["mismatched"] = @ + m, !["decoded"] = v]
  BY <1>0, <1>2 DEF Dropping
<1>5. /\ r \in [Counters -> Int] /\ \A c \in Counters \ {"unknown", "mismatched", "decoded"} : r[c] = s[c]
      /\ r["decoded"] = v /\ r["unknown"] = s["unknown"] + u /\ r["mismatched"] = s["mismatched"] + m
  BY <1>1, <1>3, <1>4
<1> QED
  BY <1>0, <1>2, <1>3, <1>5

\* A batch tracks the layouts it has frames of, each where its last value left off.
LEMMA RouteIs ==
  ASSUME LTypeOK, Route
  PROVE  \E batch \in Seq(Frames), T \in SUBSET Tracks, dropped \in [Counters -> Int] :
           /\ format = "binary" /\ sent' = sent \o batch
           /\ \A c \in Counters \ {"unknown", "mismatched", "decoded"} : dropped[c] = linkStats[c]
           /\ dropped["decoded"] + dropped["unknown"] + dropped["mismatched"]
                = linkStats["decoded"] + linkStats["unknown"] + linkStats["mismatched"] + Len(batch)
           /\ \A t \in T : Values(batch, t) \in Seq(Entries) /\ Values(batch, t) # <<>>
           /\ linkStats' = TrackCounter(dropped, [t \in T |-> <<<<last[t], 1>>>> \o Values(batch, t)])
           /\ last' = [t \in Tracks |-> IF t \in T THEN Last(Values(batch, t))[1] ELSE last[t]]
           /\ tracked' = [t \in Tracks |->
                 IF t \in T THEN tracked[t] \o Values(batch, t) ELSE tracked[t]]
<1> DEFINE unknown(batch) == {i \in 1..Len(batch) : batch[i].id \notin KnownIds}
           mismatched(batch) == {i \in 1..Len(batch) :
                i \notin unknown(batch) /\ Routes(batch[i].id, batch[i].size) = {}}
           counted(batch) == {t \in {<<batch[i].id, batch[i].size>> : i \in 1..Len(batch)} :
                Routes(t[1], t[2]) # {} /\ Counts(Layout(t[1], t[2]))}
           dropped(batch) == [linkStats EXCEPT
                !["unknown"] = @ + Cardinality(unknown(batch)),
                !["mismatched"] = @ + Cardinality(mismatched(batch)),
                !["decoded"] = @ + Len(batch) - Cardinality(unknown(batch)) - Cardinality(mismatched(batch))]
<1>1. PICK batch \in SeqOf(Frames, MaxSent - Len(sent)) :
           /\ sent' = sent \o batch
           /\ linkStats' = TrackCounter(dropped(batch),
                             [t \in counted(batch) |-> <<<<last[t], 1>>>> \o Values(batch, t)])
           /\ last' = [t \in Tracks |-> IF t \in counted(batch) THEN Last(Values(batch, t))[1] ELSE last[t]]
           /\ tracked' = [t \in Tracks |->
                 IF t \in counted(batch) THEN tracked[t] \o Values(batch, t) ELSE tracked[t]]
  BY Zenon DEF Route
<1>2. PICK un, mi, T, dr : un = unknown(batch) /\ mi = mismatched(batch) /\ T = counted(batch) /\ dr = dropped(batch)
  OBVIOUS
<1>3. batch \in Seq(Frames) /\ Len(batch) \in Nat /\ IsFiniteSet(1..Len(batch))
  <2>1. MaxSent - Len(sent) \in Int
    BY LinkAssumption DEF LTypeOK
  <2>2. PICK m \in Nat : batch \in [1..m -> Frames]
    BY <2>1 DEF SeqOf
  <2>3. batch \in Seq(Frames)
    BY <2>2
  <2> QED
    BY <2>3, FS_Interval
<1>4. Cardinality(un) \in Nat /\ Cardinality(mi) \in Nat
  <2>1. un \subseteq 1..Len(batch) /\ mi \subseteq 1..Len(batch)
    BY <1>2
  <2> QED
    BY <1>3, <2>1, FS_Subset, FS_CardinalityType
<1>5. dr = [linkStats EXCEPT !["unknown"] = @ + Cardinality(un), !["mismatched"] = @ + Cardinality(mi),
                             !["decoded"] = @ + Len(batch) - Cardinality(un) - Cardinality(mi)]
  BY <1>2
<1>6. format = "binary" /\ linkStats \in [Counters -> Int] /\ streams \in Seq(FrameStreams)
  <2>1. format = "binary"
    BY DEF Route
  <2> QED
    BY <2>1, StreamsAssumption DEF LTypeOK, Configs
<1>7. T \subseteq Tracks
  <2> SUFFICES ASSUME NEW t \in T PROVE t \in Tracks
    OBVIOUS
  <2>1. PICK i \in 1..Len(batch) : t = <<batch[i].id, batch[i].size>>
    BY <1>2
  <2>2. Routes(t[1], t[2]) # {}
    BY <1>2
  <2>3. PICK j \in 1..Len(streams) : streams[j].id = t[1] /\ SizeOf(streams[j]) = t[2]
    BY <2>2 DEF Routes, Sharing
  <2>4. t = <<streams[j].id, SizeOf(streams[j])>> /\ streams[j] \in FrameStreams
    BY <1>6, <2>1, <2>3
  <2> QED
    BY <2>4 DEF Tracks
<1>8. \A t \in T : Values(batch, t) \in Seq(Entries) /\ Values(batch, t) # <<>>
  <2> TAKE t \in T
  <2>1. \E i \in 1..Len(batch) : <<batch[i].id, batch[i].size>> = t
    BY <1>2
  <2> QED
    BY <1>3, <2>1, ValuesAre
<1> HIDE DEF unknown, mismatched, counted, dropped
<1>9. /\ dr \in [Counters -> Int]
      /\ \A c \in Counters \ {"unknown", "mismatched", "decoded"} : dr[c] = linkStats[c]
      /\ dr["decoded"] + dr["unknown"] + dr["mismatched"]
           = linkStats["decoded"] + linkStats["unknown"] + linkStats["mismatched"] + Len(batch)
  <2>1. PICK u \in Nat, m \in Nat, n \in Nat : u = Cardinality(un) /\ m = Cardinality(mi) /\ n = Len(batch)
    BY <1>3, <1>4
  <2>2. dr = [linkStats EXCEPT !["unknown"] = @ + u, !["mismatched"] = @ + m, !["decoded"] = @ + n - u - m]
    BY <1>5, <2>1
  <2>3. PICK s \in [Counters -> Int] : s = linkStats
    BY <1>6
  <2>4. dr = Dropping(s, u, m, n)
    BY <2>2, <2>3 DEF Dropping
  <2>6. /\ Dropping(s, u, m, n) \in [Counters -> Int]
        /\ \A c \in Counters \ {"unknown", "mismatched", "decoded"} : Dropping(s, u, m, n)[c] = s[c]
        /\ Dropping(s, u, m, n)["decoded"] + Dropping(s, u, m, n)["unknown"] + Dropping(s, u, m, n)["mismatched"]
             = s["decoded"] + s["unknown"] + s["mismatched"] + n
    BY DroppedIs, ZenonT(30)
  <2>5. /\ dr \in [Counters -> Int]
        /\ \A c \in Counters \ {"unknown", "mismatched", "decoded"} : dr[c] = s[c]
        /\ dr["decoded"] + dr["unknown"] + dr["mismatched"]
             = s["decoded"] + s["unknown"] + s["mismatched"] + n
    BY <2>4, <2>6
  <2> QED
    BY <2>1, <2>3, <2>5
<1>10. /\ linkStats' = TrackCounter(dr, [t \in T |-> <<<<last[t], 1>>>> \o Values(batch, t)])
       /\ last' = [t \in Tracks |-> IF t \in T THEN Last(Values(batch, t))[1] ELSE last[t]]
       /\ tracked' = [t \in Tracks |-> IF t \in T THEN tracked[t] \o Values(batch, t) ELSE tracked[t]]
  BY <1>1, <1>2
<1> QED
  BY <1>1, <1>3, <1>6, <1>7, <1>8, <1>9, <1>10

LEMMA NewestIs ==
  ASSUME NEW s \in Seq(Nat), NEW n \in Nat
  PROVE  /\ NewestOf(s, n) \in Seq(Nat)
         /\ Len(NewestOf(s, n)) = IF Len(s) > n THEN n ELSE Len(s)
         /\ \A i \in 1..Len(NewestOf(s, n)) : NewestOf(s, n)[i] = s[Len(s) - Len(NewestOf(s, n)) + i]
<1>1. Len(s) \in Nat
  OBVIOUS
<1>2. CASE Len(s) > n
  <2>1. PICK a : a = Len(s) - n + 1
    OBVIOUS
  <2>2. NewestOf(s, n) = SubSeq(s, a, Len(s)) /\ a \in 1..(Len(s) + 1)
    BY <1>1, <1>2, <2>1 DEF NewestOf
  <2>3. SubSeq(s, a, Len(s)) \in Seq(Nat) /\ Len(SubSeq(s, a, Len(s))) = Len(s) - a + 1
    BY <1>1, <2>2
  <2>4. \A i \in 1..(Len(s) - a + 1) : SubSeq(s, a, Len(s))[i] = s[a + i - 1]
    BY <1>1, <2>2
  <2>5. PICK q : q = NewestOf(s, n)
    OBVIOUS
  <2>6. q \in Seq(Nat) /\ Len(q) = n
    BY <1>1, <2>1, <2>2, <2>3, <2>5
  <2>7. \A i \in 1..n : q[i] = s[Len(s) - n + i]
    <3> TAKE i \in 1..n
    <3>1. i \in 1..(Len(s) - a + 1) /\ a + i - 1 = Len(s) - n + i
      BY <1>1, <2>1
    <3> QED
      BY <2>2, <2>4, <2>5, <3>1
  <2> QED
    BY <1>2, <2>5, <2>6, <2>7
<1>3. CASE ~(Len(s) > n)
  <2>1. NewestOf(s, n) = SubSeq(s, 1, Len(s))
    BY <1>3 DEF NewestOf
  <2>2. NewestOf(s, n) = s
    BY <2>1
  <2> QED
    BY <1>1, <1>3, <2>2
<1> QED
  BY <1>2, <1>3

\* What the terminal is shown, and how much it is not.
LEMMA ReportedIs ==
  ASSUME LTypeOK, NEW new \in Nat
  PROVE  /\ Reported(new) \in Seq(Nat) /\ Len(Reported(new)) <= new /\ Len(Reported(new)) <= PerReport
         /\ Len(Reported(new)) <= Len(replies)
         /\ Len(Reported(new)) = new \/ Len(Reported(new)) = PerReport \/ Len(Reported(new)) = Len(replies)
         /\ \A i \in 1..Len(Reported(new)) : Reported(new)[i] = replies[Len(replies) - Len(Reported(new)) + i]
<1>1. PICK r : r = NewestOf(replies, new)
  OBVIOUS
<1>2. PICK q : q = NewestOf(r, PerReport)
  OBVIOUS
<1>3. replies \in Seq(Nat) /\ PerReport \in Nat /\ Len(replies) \in Nat
  BY LinkAssumption DEF LTypeOK
<1>4. /\ r \in Seq(Nat) /\ Len(r) = (IF Len(replies) > new THEN new ELSE Len(replies))
      /\ \A i \in 1..Len(r) : r[i] = replies[Len(replies) - Len(r) + i]
  BY <1>1, <1>3, NewestIs
<1>5. /\ q \in Seq(Nat) /\ Len(q) = (IF Len(r) > PerReport THEN PerReport ELSE Len(r))
      /\ \A i \in 1..Len(q) : q[i] = r[Len(r) - Len(q) + i]
  BY <1>2, <1>3, <1>4, NewestIs
<1>6. Reported(new) = q
  BY <1>1, <1>2 DEF Reported
<1>7. Len(r) \in Nat /\ Len(q) \in Nat /\ Len(q) <= Len(r) /\ Len(r) <= new /\ Len(r) <= Len(replies)
  BY <1>3, <1>4, <1>5
<1>8. \A i \in 1..Len(q) : q[i] = replies[Len(replies) - Len(q) + i]
  <2> TAKE i \in 1..Len(q)
  <2>1. Len(r) - Len(q) + i \in 1..Len(r) /\ Len(replies) - Len(r) + (Len(r) - Len(q) + i) = Len(replies) - Len(q) + i
    BY <1>3, <1>7
  <2> QED
    BY <1>4, <1>5, <2>1
<1>9. Len(q) <= new /\ Len(q) <= PerReport /\ Len(q) <= Len(replies)
  BY <1>3, <1>4, <1>5, <1>7
<1>10. Len(q) = new \/ Len(q) = PerReport \/ Len(q) = Len(replies)
  BY <1>4, <1>5
<1> QED
  BY <1>5, <1>6, <1>8, <1>9, <1>10

\* The ring of the newest replies, of the numbers up to n.
IsRing(ring, n) ==
    /\ Len(ring) = (IF n < Kept THEN n ELSE Kept)
    /\ \A i \in 1..Len(ring) : ring[i] = n - Len(ring) + i

LEMMA RingIs ==
  ASSUME NEW ring \in Seq(Nat), NEW n \in Nat
  PROVE  RingOf(ring, n) \in Seq(Nat) /\ (IsRing(ring, n) => IsRing(RingOf(ring, n + 1), n + 1))
<1>1. Kept \in Nat /\ Len(ring) \in Nat
  BY LinkAssumption
<1>2. \A m \in Nat : /\ RingOf(ring, m) = SubSeq(Append(ring, m), IF Len(ring) + 1 > Kept THEN 2 ELSE 1, Len(ring) + 1)
  <2> TAKE m \in Nat
  <2>1. Len(Append(ring, m)) = Len(ring) + 1
    OBVIOUS
  <2> QED
    BY <2>1 DEF RingOf
<1>3. \A m \in Nat : /\ Append(ring, m) \in Seq(Nat) /\ Len(Append(ring, m)) = Len(ring) + 1
                     /\ Append(ring, m)[Len(ring) + 1] = m /\ \A i \in 1..Len(ring) : Append(ring, m)[i] = ring[i]
  OBVIOUS
<1>4. RingOf(ring, n) \in Seq(Nat)
  <2>1. PICK w \in Seq(Nat) : w = Append(ring, n) /\ Len(w) = Len(ring) + 1
    BY <1>3
  <2>2. SubSeq(w, 2, Len(w)) \in Seq(Nat) /\ SubSeq(w, 1, Len(w)) \in Seq(Nat)
    OBVIOUS
  <2> QED
    BY <1>2, <2>1, <2>2
<1>5. ASSUME IsRing(ring, n) PROVE IsRing(RingOf(ring, n + 1), n + 1)
  <2>1. PICK w : w = Append(ring, n + 1)
    OBVIOUS
  <2>2. /\ w \in Seq(Nat) /\ Len(w) = Len(ring) + 1 /\ w[Len(ring) + 1] = n + 1 /\ \A i \in 1..Len(ring) : w[i] = ring[i]
    BY <1>3, <2>1
  <2>3. Len(ring) = (IF n < Kept THEN n ELSE Kept) /\ \A i \in 1..Len(ring) : ring[i] = n - Len(ring) + i
    BY <1>5 DEF IsRing
  <2>4. \A i \in 1..Len(w) : w[i] = n + 1 - Len(w) + i
    <3> TAKE i \in 1..Len(w)
    <3>1. CASE i \in 1..Len(ring)
      <4>1. w[i] = n - Len(ring) + i
        BY <2>2, <2>3, <3>1
      <4> QED
        BY <1>1, <2>2, <4>1
    <3>2. CASE i = Len(ring) + 1
      BY <1>1, <2>2, <3>2
    <3> QED
      BY <1>1, <2>2, <3>1, <3>2
  <2>5. CASE Len(ring) + 1 > Kept
    <3>1. PICK q : q = SubSeq(w, 2, Len(w))
      OBVIOUS
    <3>2. RingOf(ring, n + 1) = q
      BY <1>2, <2>1, <2>2, <2>5, <3>1
    <3>3. Len(q) = Len(w) - 1 /\ \A i \in 1..(Len(w) - 1) : q[i] = w[i + 1]
      BY <1>1, <2>2, <3>1
    <3>4. Len(q) = (IF n + 1 < Kept THEN n + 1 ELSE Kept)
      BY <1>1, <2>2, <2>3, <2>5, <3>3
    <3>5. \A i \in 1..Len(q) : q[i] = n + 1 - Len(q) + i
      BY <1>1, <2>2, <2>4, <3>3
    <3>6. IsRing(q, n + 1)
      BY <3>4, <3>5 DEF IsRing
    <3> QED
      BY <3>2, <3>6
  <2>6. CASE ~(Len(ring) + 1 > Kept)
    <3>1. RingOf(ring, n + 1) = w
      <4>1. RingOf(ring, n + 1) = SubSeq(w, 1, Len(w))
        BY <1>2, <2>1, <2>2, <2>6
      <4> QED
        BY <2>2, <4>1
    <3>2. Len(w) = (IF n + 1 < Kept THEN n + 1 ELSE Kept)
      BY <1>1, <2>2, <2>3, <2>6
    <3>3. IsRing(w, n + 1)
      BY <2>4, <3>2 DEF IsRing
    <3> QED
      BY <3>1, <3>3
  <2> QED
    BY <2>5, <2>6
<1> QED
  BY <1>4, <1>5

LEMMA StatsNames == Counters = {"lines", "unmatched", "overlong", "bad", "decoded", "unknown", "mismatched",
                                "gaps", "missing", "resets"}
BY DEF Counters

\* What a step makes of the decoder's counts leaves the types as they are.
TypedCounts ==
    /\ line \in [Tracks -> 0..(LineMod - 1)] /\ last \in [Tracks -> Int]
    /\ tracked \in [Tracks -> Seq(Entries)]
    /\ linkStats \in [Counters -> Int] /\ linkStats["unmatched"] \in Nat

LEMMA OverlongTyped ==
  \A s \in [Counters -> Int] :
      Count(s, {"lines", "overlong"}) \in [Counters -> Int]
      /\ Count(s, {"lines", "overlong"})["unmatched"] = s["unmatched"]
<1> TAKE s \in [Counters -> Int]
<1>1. "unmatched" \in Counters /\ "unmatched" \notin {"lines", "overlong"}
  BY StatsNames
<1> QED
  BY <1>1, CountIs

LEMMA InitTyped == LInit => LTypeOK
<1> SUFFICES ASSUME LInit PROVE LTypeOK
  OBVIOUS
<1>1. \A S : <<>> \in Seq(S)
  OBVIOUS
<1>2. 0 \in 0..(LineMod - 1) /\ MaxLine \in Nat /\ 0 \in 0..MaxConfigures
  BY LinkAssumption
<1>3. /\ line \in [Tracks -> 0..(LineMod - 1)] /\ last \in [Tracks -> Int]
      /\ tracked \in [Tracks -> Seq(Int \X (Nat \ {0}))]
  BY <1>1, <1>2 DEF LInit, None
<1>4. linkStats \in [Counters -> Int] /\ linkStats["unmatched"] = 0
  BY DEF LInit, NoStats, Counters
<1>5. Newlines = {} /\ Len(lineBuf) = 0
  BY DEF LInit, Newlines
<1>6. terminal \in [shown : Seq(Nat), dropped : Nat]
  BY <1>1 DEF LInit
<1>7. sent \in Seq(IF format = "text" THEN Lines ELSE Frames)
  BY <1>1 DEF LInit
<1>8. lineBuf \in Seq(Int) /\ replies \in Seq(Nat) /\ wire \in Seq(Int) /\ taken \in Seq(Seq(Int))
  BY <1>1 DEF LInit
<1>9. /\ format \in {"text", "binary"} /\ streams \in Configs /\ feeding = FALSE /\ prev = 0
      /\ configures = 0 /\ discarding = FALSE
  BY Zenon DEF LInit
<1>10. configures \in 0..MaxConfigures /\ discarding \in BOOLEAN /\ prev \in Nat
  BY <1>2, <1>9
<1>11. ~feeding => Len(lineBuf) <= MaxLine /\ Newlines = {}
  BY <1>2, <1>5
<1>12. feeding \in BOOLEAN /\ (feeding => format = "text")
  BY <1>9
<1>13. linkStats["unmatched"] \in Nat
  BY <1>4
<1> QED
  BY <1>3, <1>4, <1>6, <1>7, <1>8, <1>9, <1>10, <1>11, <1>12, <1>13, Zenon DEF LTypeOK

LEMMA MatchedTyped == LTypeOK /\ MatchedLine => TypedCounts'
<1> SUFFICES ASSUME LTypeOK, MatchedLine PROVE TypedCounts'
  OBVIOUS
<1> USE DEF TypedCounts
<1>0. TypedCounts /\ LineMod \in Nat \ {0}
  BY LinkAssumption DEF LTypeOK, Entries
<1>1. \A cs \in {{"lines", "bad"}, {"lines", "decoded"}} :
          Count(linkStats, cs) \in [Counters -> Int] /\ Count(linkStats, cs)["unmatched"] \in Nat
  <2> TAKE cs \in {{"lines", "bad"}, {"lines", "decoded"}}
  <2>1. "unmatched" \in Counters /\ "unmatched" \notin cs
    BY StatsNames
  <2> QED
    BY <1>0, <2>1, CountIs
<1>2. PICK s \in TextStreams :
           \/ linkStats' = Count(linkStats, {"lines", "bad"}) /\ UNCHANGED <<line, last, tracked>>
           \/ /\ line' = [line EXCEPT ![<<s.key>>] = (@ + 1) % LineMod]
              /\ linkStats' = Count(linkStats, {"lines", "decoded"}) /\ UNCHANGED <<last, tracked>>
           \/ /\ line' = [line EXCEPT ![<<s.key>>] = (@ + 1) % LineMod]
              /\ \E value \in Int :
                  /\ linkStats' = TrackCounter(Count(linkStats, {"lines", "decoded"}),
                         [u \in {<<s.key>>} |-> <<<<last[<<s.key>>], s.step>>, <<value, s.step>>>>])
                  /\ last' = [last EXCEPT ![<<s.key>>] = value]
                  /\ tracked' = [tracked EXCEPT ![<<s.key>>] = Append(@, <<value, s.step>>)]
  BY MatchedIs
<1>3. PICK t : t = <<s.key>>
  OBVIOUS
<1>4. t \in Tracks /\ s.step \in Nat \ {0}
  BY <1>3, StreamsAssumption DEF Tracks
<1>5. [line EXCEPT ![t] = (@ + 1) % LineMod] \in [Tracks -> 0..(LineMod - 1)]
  <2>1. line[t] \in Int
    BY <1>0, <1>4
  <2>2. (line[t] + 1) % LineMod \in 0..(LineMod - 1)
    BY <1>0, <2>1
  <2> QED
    BY <1>0, <1>4, <2>2
<1>6. CASE linkStats' = Count(linkStats, {"lines", "bad"}) /\ UNCHANGED <<line, last, tracked>>
  BY <1>0, <1>1, <1>6
<1>7. CASE /\ line' = [line EXCEPT ![t] = (@ + 1) % LineMod]
           /\ linkStats' = Count(linkStats, {"lines", "decoded"}) /\ UNCHANGED <<last, tracked>>
  BY <1>0, <1>1, <1>5, <1>7
<1>8. ASSUME NEW value \in Int, line' = [line EXCEPT ![t] = (@ + 1) % LineMod],
             linkStats' = TrackCounter(Count(linkStats, {"lines", "decoded"}),
                         [u \in {t} |-> <<<<last[t], s.step>>, <<value, s.step>>>>]),
             last' = [last EXCEPT ![t] = value],
             tracked' = [tracked EXCEPT ![t] = Append(@, <<value, s.step>>)]
      PROVE  TypedCounts'
  <2>1. last[t] \in Int /\ tracked[t] \in Seq(Entries) /\ <<value, s.step>> \in Entries /\ <<last[t], s.step>> \in Entries
    BY <1>0, <1>4 DEF Entries
  <2>2. last' \in [Tracks -> Int]
    BY <1>0, <1>8
  <2>3. Append(tracked[t], <<value, s.step>>) \in Seq(Entries)
    BY <2>1, AppendPlaces
  <2>4. tracked' \in [Tracks -> Seq(Entries)]
    BY <1>0, <1>8, <2>3
  <2>5. PICK runs : runs = [u \in {t} |-> <<<<last[t], s.step>>, <<value, s.step>>>>]
    OBVIOUS
  <2>6. runs \in [{t} -> Seq(Entries)]
    <3>1. \A x, y \in Entries : <<x, y>> \in Seq(Entries)
      OBVIOUS
    <3> QED
      BY <2>1, <2>5, <3>1
  <2>7. IsFiniteSet({t})
    BY FS_Singleton
  <2>8. PICK d : d = Count(linkStats, {"lines", "decoded"})
    OBVIOUS
  <2>9. linkStats' = TrackCounter(d, runs) /\ d \in [Counters -> Int] /\ d["unmatched"] \in Nat
    BY <1>1, <1>8, <2>5, <2>8
  <2>10. linkStats' \in [Counters -> Int] /\ \A c \in Counters \ {"gaps", "missing", "resets"} : linkStats'[c] = d[c]
    <3>1. Tracking(d, {t}, runs)
      BY <2>6, <2>7, <2>9 DEF Tracking
    <3>2. TrackedStats(d, {t}, runs, linkStats')
      BY <2>9, <3>1, TrackedStatsAre
    <3> QED
      BY <3>2 DEF TrackedStats
  <2>11. "unmatched" \in Counters \ {"gaps", "missing", "resets"}
    BY StatsNames
  <2> QED
    BY <1>5, <1>8, <2>2, <2>4, <2>9, <2>10, <2>11
<1> QED
  BY <1>2, <1>3, <1>6, <1>7, <1>8

LEMMA RouteTyped == LTypeOK /\ Route => TypedCounts' /\ sent' \in Seq(Frames)
<1> SUFFICES ASSUME LTypeOK, Route PROVE TypedCounts' /\ sent' \in Seq(Frames)
  OBVIOUS
<1> USE DEF TypedCounts
<1>0. TypedCounts /\ UNCHANGED line
  BY DEF LTypeOK, Entries, Route
<1>1. PICK batch \in Seq(Frames), T \in SUBSET Tracks, dropped \in [Counters -> Int] :
           /\ format = "binary" /\ sent' = sent \o batch
           /\ \A c \in Counters \ {"unknown", "mismatched", "decoded"} : dropped[c] = linkStats[c]
           /\ \A t \in T : Values(batch, t) \in Seq(Entries) /\ Values(batch, t) # <<>>
           /\ linkStats' = TrackCounter(dropped, [t \in T |-> <<<<last[t], 1>>>> \o Values(batch, t)])
           /\ last' = [t \in Tracks |-> IF t \in T THEN Last(Values(batch, t))[1] ELSE last[t]]
           /\ tracked' = [t \in Tracks |->
                 IF t \in T THEN tracked[t] \o Values(batch, t) ELSE tracked[t]]
  BY RouteIs
<1>2. sent' \in Seq(Frames)
  BY <1>1 DEF LTypeOK
<1>3. PICK runs : runs = [t \in T |-> <<<<last[t], 1>>>> \o Values(batch, t)]
  OBVIOUS
<1>4. runs \in [T -> Seq(Entries)]
  <2>1. \A a \in Int, v \in Seq(Entries) : <<<<a, 1>>>> \o v \in Seq(Entries)
    BY DEF Entries
  <2>2. \A t \in T : last[t] \in Int
    BY <1>0
  <2> QED
    BY <1>1, <1>3, <2>1, <2>2
<1>5. IsFiniteSet(T)
  BY TracksAssumption, FS_Subset
<1>6. linkStats' \in [Counters -> Int] /\ \A c \in Counters \ {"gaps", "missing", "resets"} : linkStats'[c] = dropped[c]
  <2>1. Tracking(dropped, T, runs)
    BY <1>4, <1>5 DEF Tracking
  <2>2. TrackedStats(dropped, T, runs, linkStats')
    BY <1>1, <1>3, <2>1, TrackedStatsAre
  <2> QED
    BY <2>2 DEF TrackedStats
<1>7. "unmatched" \in Counters \ {"gaps", "missing", "resets"} /\ "unmatched" \in Counters \ {"unknown", "mismatched", "decoded"}
  BY StatsNames
<1>8. linkStats'["unmatched"] \in Nat
  BY <1>0, <1>1, <1>6, <1>7
<1>9. tracked' \in [Tracks -> Seq(Entries)]
  <2>1. \A v, w \in Seq(Entries) : v \o w \in Seq(Entries)
    OBVIOUS
  <2> QED
    BY <1>0, <1>1, <2>1
<1>10. last' \in [Tracks -> Int]
  <2>1. \A v \in Seq(Entries) : v # <<>> => Last(v)[1] \in Int
    BY DEF Last, Entries
  <2> QED
    BY <1>0, <1>1, <2>1
<1> QED
  BY <1>0, <1>2, <1>6, <1>8, <1>9, <1>10

\* The types a step preserves, put together.
LEMMA LineTyped ==
  ASSUME LTypeOK, NextLine, TypedCounts', replies' \in Seq(Nat), taken' \in Seq(Seq(Int)),
         discarding' \in BOOLEAN,
         UNCHANGED <<format, streams, feeding, prev, terminal, wire, sent, configures>>
  PROVE  LTypeOK'
<1>1. feeding' /\ lineBuf' \in Seq(Int)
  BY FirstIs
<1>2. Configs' = Configs
  BY DEF Configs
<1> QED
  BY <1>1, <1>2 DEF LTypeOK, TypedCounts, Entries

LEMMA StepTyped == LTypeOK /\ [LNext]_lvars => LTypeOK'
<1> SUFFICES ASSUME LTypeOK, [LNext]_lvars PROVE LTypeOK'
  OBVIOUS
<1>0. TypedCounts /\ MaxLine \in Nat
  BY LinkAssumption DEF LTypeOK, TypedCounts, Entries
<1>1. CASE PrintLine
  <2>1. PICK l \in Lines : sent' = Append(sent, l) /\ wire' = wire \o Append(l, NL)
    BY <1>1 DEF PrintLine
  <2>2. l \in Seq(Int) /\ NL \in Int /\ format = "text"
    BY <1>1, LinkAssumption DEF PrintLine
  <2>3. wire' \in Seq(Int) /\ sent' \in Seq(Lines)
    BY <2>1, <2>2 DEF LTypeOK
  <2>4. UNCHANGED <<format, streams, decoderVars, reportVars, taken, configures>>
    BY <1>1 DEF PrintLine
  <2>5. Configs' = Configs /\ Newlines' = Newlines /\ TypedCounts'
    BY <1>0, <2>4 DEF Configs, Newlines, TypedCounts, decoderVars
  <2> QED
    BY <2>2, <2>3, <2>4, <2>5 DEF LTypeOK, TypedCounts, Entries, decoderVars, reportVars
<1>2. CASE Feed
  <2>1. PICK n \in 1..Len(wire) :
            lineBuf' = lineBuf \o SubSeq(wire, 1, n) /\ wire' = SubSeq(wire, n + 1, Len(wire))
    BY <1>2 DEF Feed
  <2>2. lineBuf' \in Seq(Int) /\ wire' \in Seq(Int)
    <3>1. wire \in Seq(Int) /\ lineBuf \in Seq(Int)
      BY DEF LTypeOK
    <3>2. SubSeq(wire, 1, n) \in Seq(Int) /\ SubSeq(wire, n + 1, Len(wire)) \in Seq(Int)
      BY <3>1
    <3> QED
      BY <2>1, <3>1, <3>2
  <2>3. feeding' /\ format = "text"
    BY <1>2 DEF Feed
  <2>4. UNCHANGED <<format, streams, discarding, line, last, linkStats, replies, tracked, reportVars,
                   sent, taken, configures>>
    BY <1>2 DEF Feed
  <2>5. Configs' = Configs /\ TypedCounts'
    BY <1>0, <2>4 DEF Configs, TypedCounts
  <2> QED
    BY <2>2, <2>3, <2>4, <2>5 DEF LTypeOK, TypedCounts, Entries, reportVars
<1>3. CASE EndOfOverlong
  <2>1. TypedCounts'
    BY <1>0, <1>3 DEF EndOfOverlong, TypedCounts
  <2>2. replies' \in Seq(Nat) /\ taken' \in Seq(Seq(Int)) /\ discarding' \in BOOLEAN
    BY <1>3 DEF EndOfOverlong, LTypeOK, linkVars
  <2> QED
    BY <1>3, <2>1, <2>2, LineTyped DEF EndOfOverlong, linkVars, reportVars
<1>4. CASE Overlong
  <2>1. TypedCounts'
    <3>1. linkStats' = Count(linkStats, {"lines", "overlong"})
      BY <1>4 DEF Overlong
    <3>2. linkStats' \in [Counters -> Int] /\ linkStats'["unmatched"] \in Nat
      BY <1>0, <3>1, OverlongTyped DEF TypedCounts
    <3> QED
      BY <1>0, <1>4, <3>2 DEF Overlong, TypedCounts
  <2>2. replies' \in Seq(Nat) /\ taken' \in Seq(Seq(Int)) /\ discarding' \in BOOLEAN
    BY <1>4 DEF Overlong, LTypeOK, linkVars
  <2> QED
    BY <1>4, <2>1, <2>2, LineTyped DEF Overlong, linkVars, reportVars
<1>5. ShortLine => taken' \in Seq(Seq(Int)) /\ discarding \in BOOLEAN /\ NextLine
  <2> SUFFICES ASSUME ShortLine PROVE taken' \in Seq(Seq(Int)) /\ discarding \in BOOLEAN /\ NextLine
    OBVIOUS
  <2>1. Strip(First) \in Seq(Int) /\ taken' = Append(taken, Strip(First))
    BY FirstIs, StripIsSeq DEF ShortLine
  <2> QED
    BY <2>1, AppendPlaces DEF ShortLine, LTypeOK
<1>6. CASE BlankLine
  <2>1. TypedCounts' /\ replies' \in Seq(Nat)
    BY <1>0, <1>6 DEF BlankLine, TypedCounts, LTypeOK
  <2> QED
    BY <1>5, <1>6, <2>1, LineTyped DEF BlankLine, reportVars
<1>7. CASE MatchedLine
  <2>1. TypedCounts' /\ replies' \in Seq(Nat)
    <3>1. replies' = replies
      BY <1>7 DEF MatchedLine
    <3> QED
      BY <1>7, <3>1, MatchedTyped DEF LTypeOK
  <2>2. ShortLine /\ UNCHANGED <<format, streams, discarding, feeding, prev, terminal, wire, sent, configures>>
    BY <1>7 DEF MatchedLine, reportVars
  <2> QED
    BY <1>5, <2>1, <2>2, LineTyped
<1>8. CASE Reply
  <2>1. TypedCounts' /\ replies' \in Seq(Nat)
    <3>1. "unmatched" \in Counters /\ "unmatched" \in {"lines", "unmatched"}
      BY StatsNames
    <3>2. linkStats' \in [Counters -> Int] /\ linkStats'["unmatched"] \in Nat
      BY <1>0, <1>8, <3>1, CountIs DEF Reply, TypedCounts
    <3>3. replies' = RingOf(replies, linkStats["unmatched"] + 1) /\ linkStats["unmatched"] + 1 \in Nat /\ replies \in Seq(Nat)
      BY <1>8 DEF Reply, LTypeOK
    <3>4. replies' \in Seq(Nat)
      BY <3>3, RingIs
    <3> QED
      BY <1>0, <1>8, <3>2, <3>4 DEF Reply, TypedCounts
  <2>2. ShortLine /\ UNCHANGED <<format, streams, discarding, feeding, prev, terminal, wire, sent, configures>>
    BY <1>8 DEF Reply, reportVars
  <2> QED
    BY <1>5, <2>1, <2>2, LineTyped
<1>9. CASE EndFeed
  <2>1. feeding /\ Newlines = {} /\ feeding' = FALSE /\ format = "text" /\ lineBuf \in Seq(Int)
    BY <1>9 DEF EndFeed, LTypeOK
  <2>2. /\ lineBuf' \in Seq(Int) /\ Len(lineBuf') <= MaxLine /\ Newlines' = {} /\ discarding' \in BOOLEAN
        /\ linkStats' = linkStats \/ linkStats' = Count(linkStats, {"lines", "overlong"})
    <3>1. CASE Len(lineBuf) > MaxLine
      <4>1. lineBuf' = <<>> /\ discarding' = TRUE /\ (linkStats' = linkStats \/ linkStats' = Count(linkStats, {"lines", "overlong"}))
        BY <1>9, <3>1 DEF EndFeed, DiscardRest, CountOverlong
      <4>2. Len(<<>>) = 0 /\ 1..0 = {} /\ <<>> \in Seq(Int)
        OBVIOUS
      <4> QED
        BY <1>0, <4>1, <4>2 DEF Newlines
    <3>2. CASE ~(Len(lineBuf) > MaxLine)
      <4>1. UNCHANGED <<lineBuf, discarding, linkStats>> /\ discarding \in BOOLEAN
        BY <1>9, <3>2 DEF EndFeed, LTypeOK
      <4>2. Newlines' = Newlines
        BY <4>1 DEF Newlines
      <4>3. Len(lineBuf) \in Nat
        BY <2>1
      <4> QED
        BY <1>0, <2>1, <3>2, <4>1, <4>2, <4>3
    <3> QED
      BY <3>1, <3>2
  <2>3. UNCHANGED <<format, streams, line, last, replies, tracked, prev, terminal, wire, sent, taken, configures>>
    BY <1>9 DEF EndFeed, linkVars, reportVars
  <2>4. TypedCounts'
    <3>2. linkStats' \in [Counters -> Int] /\ linkStats'["unmatched"] \in Nat
      BY <1>0, <2>2, OverlongTyped DEF TypedCounts
    <3> QED
      BY <1>0, <2>3, <3>2 DEF TypedCounts
  <2>5. Configs' = Configs
    BY <2>3 DEF Configs
  <2> QED
    BY <2>1, <2>2, <2>3, <2>4, <2>5 DEF LTypeOK, TypedCounts, Entries
<1>10. CASE Route
  <2>1. TypedCounts' /\ sent' \in Seq(Frames) /\ format = "binary"
    BY <1>10, RouteTyped DEF Route
  <2>2. UNCHANGED <<format, streams, lineBuf, discarding, feeding, replies, prev, terminal, wire, taken, configures>>
    BY <1>10 DEF Route, reportVars
  <2>3. Configs' = Configs /\ Newlines' = Newlines
    BY <2>2 DEF Configs, Newlines
  <2> QED
    BY <2>1, <2>2, <2>3 DEF LTypeOK, TypedCounts, Entries
<1>11. CASE Configure
  <2>1. PICK c \in Configs :
          /\ streams' = c
          /\ line' = [t \in Tracks |-> IF Stays(t, c) THEN line[t] ELSE 0]
          /\ last' = [t \in Tracks |-> IF Stays(t, c) THEN last[t] ELSE None]
          /\ tracked' = [t \in Tracks |->
                IF format = "text" /\ t \in Named(streams) \cap Named(c)
                THEN tracked[t] ELSE Append(tracked[t], <<None, 1>>)]
    BY <1>11, Zenon DEF Configure
  <2>2. UNCHANGED <<format, lineBuf, discarding, feeding, linkStats, replies, prev, terminal, wire, sent, taken>>
    BY <1>11 DEF Configure, linkVars, reportVars
  <2>3. configures' \in 0..MaxConfigures
    BY <1>11, LinkAssumption DEF Configure, LTypeOK
  <2>4. Configs' = Configs /\ Newlines' = Newlines
    BY <2>2 DEF Configs, Newlines
  <2>5. TypedCounts'
    <3>1. 0 \in 0..(LineMod - 1) /\ None \in Int /\ <<None, 1>> \in Entries
      BY LinkAssumption DEF None, Entries
    <3>2. line' \in [Tracks -> 0..(LineMod - 1)] /\ last' \in [Tracks -> Int]
      BY <1>0, <2>1, <3>1 DEF TypedCounts
    <3>3. \A v \in Seq(Entries) : Append(v, <<None, 1>>) \in Seq(Entries)
      BY <3>1, AppendPlaces
    <3>4. tracked' \in [Tracks -> Seq(Entries)]
      BY <1>0, <2>1, <3>3 DEF TypedCounts
    <3> QED
      BY <1>0, <2>2, <3>2, <3>4 DEF TypedCounts
  <2> QED
    BY <2>1, <2>2, <2>3, <2>4, <2>5 DEF LTypeOK, TypedCounts, Entries
<1>12. CASE Start
  <2>1. /\ lineBuf' = <<>> /\ discarding' = FALSE
        /\ line' = [t \in Tracks |-> 0] /\ last' = [t \in Tracks |-> None]
        /\ linkStats' = NoStats /\ replies' = <<>> /\ prev' = 0
        /\ terminal' = [shown |-> <<>>, dropped |-> 0]
        /\ wire' = <<>> /\ sent' = <<>> /\ taken' = <<>> /\ tracked' = [t \in Tracks |-> <<>>]
        /\ UNCHANGED <<format, streams, feeding>>
    BY <1>12 DEF Start
  <2>2. configures' \in 0..MaxConfigures
    BY <1>12, LinkAssumption DEF Start, LTypeOK
  <2>3. Configs' = Configs /\ Newlines' = {} /\ Len(lineBuf') = 0
    BY <2>1 DEF Configs, Newlines
  <2>4. \A S : <<>> \in Seq(S)
    OBVIOUS
  <2>5. TypedCounts'
    <3>1. 0 \in 0..(LineMod - 1) /\ None \in Int /\ NoStats \in [Counters -> Int] /\ NoStats["unmatched"] = 0
      BY LinkAssumption DEF None, NoStats, Counters
    <3> QED
      BY <2>1, <2>4, <3>1 DEF TypedCounts
  <2>6. terminal' \in [shown : Seq(Nat), dropped : Nat] /\ sent' \in Seq(IF format' = "text" THEN Lines ELSE Frames)
    BY <2>1, <2>4
  <2>7. lineBuf' \in Seq(Int) /\ replies' \in Seq(Nat) /\ wire' \in Seq(Int) /\ taken' \in Seq(Seq(Int))
    BY <2>1, <2>4
  <2>8. Len(lineBuf') <= MaxLine /\ prev' \in Nat /\ discarding' \in BOOLEAN
    <3>1. Len(lineBuf') <= MaxLine
      BY <1>0, <2>3
    <3>2. discarding' = FALSE /\ prev' = 0
      BY <2>1, Zenon
    <3> QED
      BY <3>1, <3>2
  <2>9. /\ format' \in {"text", "binary"} /\ streams' \in Configs'
        /\ feeding' \in BOOLEAN /\ (feeding' => format' = "text")
    BY <2>1, <2>3 DEF LTypeOK
  <2> QED
    BY <2>2, <2>3, <2>5, <2>6, <2>7, <2>8, <2>9, Zenon DEF LTypeOK, TypedCounts, Entries
<1>13. CASE EmitLinkStats
  <2>1. PICK new : new = linkStats["unmatched"] - prev
    OBVIOUS
  <2>2. /\ new > 0 /\ prev' = linkStats["unmatched"]
        /\ terminal' = [shown |-> terminal.shown \o Reported(new), dropped |-> terminal.dropped + (new - Len(Reported(new)))]
    BY <1>13, <2>1 DEF EmitLinkStats, OnLinkStats
  <2>3. UNCHANGED <<format, streams, decoderVars, linkVars, configures>>
    BY <1>13 DEF EmitLinkStats
  <2>4. new \in Nat /\ prev' \in Nat
    <3>1. linkStats["unmatched"] \in Nat /\ prev \in Nat
      BY DEF LTypeOK
    <3> QED
      BY <2>1, <2>2, <3>1
  <2>5. terminal' \in [shown : Seq(Nat), dropped : Nat]
    <3>1. Reported(new) \in Seq(Nat) /\ Len(Reported(new)) <= new
      BY <2>4, ReportedIs
    <3>2. terminal.shown \in Seq(Nat) /\ terminal.dropped \in Nat
      BY DEF LTypeOK
    <3>3. new - Len(Reported(new)) \in Nat
      BY <2>4, <3>1
    <3> QED
      BY <2>2, <3>1, <3>2, <3>3
  <2>6. Configs' = Configs /\ Newlines' = Newlines /\ TypedCounts'
    BY <1>0, <2>3 DEF Configs, Newlines, TypedCounts, decoderVars
  <2> QED
    BY <2>3, <2>4, <2>5, <2>6 DEF LTypeOK, TypedCounts, Entries, decoderVars, linkVars
<1>14. CASE UNCHANGED lvars
  <2>1. Configs' = Configs /\ Newlines' = Newlines
    BY <1>14 DEF Configs, Newlines, lvars, decoderVars
  <2> QED
    BY <1>14, <2>1 DEF LTypeOK, lvars, decoderVars, reportVars, linkVars
<1> QED
  BY <1>1, <1>2, <1>3, <1>4, <1>6, <1>7, <1>8, <1>9, <1>10, <1>11, <1>12, <1>13, <1>14, Zenon DEF LNext

\* Every variable of the link's decoders and reports keeps its type.
THEOREM LinkTypeCorrect == LSpec => []LTypeOK
BY InitTyped, StepTyped, PTL DEF LSpec

----------------------------------------------------------------------------
(* Replies. *)

\* The ring holds the newest of the unmatched lines so far, and no report is ahead of them.
RingInv == prev <= linkStats["unmatched"] /\ IsRing(replies, linkStats["unmatched"])

LEMMA UnmatchedKept ==
  ASSUME LTypeOK, [LNext]_lvars, ~Reply, ~Start
  PROVE  UNCHANGED <<replies, linkStats["unmatched"]>>
<1>0. linkStats \in [Counters -> Int]
  BY DEF LTypeOK
<1>1. \A cs : "unmatched" \notin cs => Count(linkStats, cs)["unmatched"] = linkStats["unmatched"]
  BY <1>0, StatsNames, CountIs
<1>2. "unmatched" \in Counters \ {"gaps", "missing", "resets"} /\ "unmatched" \in Counters \ {"unknown", "mismatched", "decoded"}
  BY StatsNames
<1>3. CASE MatchedLine
  <2>1. replies' = replies
    BY <1>3 DEF MatchedLine
  <2>2. PICK s \in TextStreams :
           \/ linkStats' = Count(linkStats, {"lines", "bad"})
           \/ linkStats' = Count(linkStats, {"lines", "decoded"})
           \/ \E value \in Int : linkStats' = TrackCounter(Count(linkStats, {"lines", "decoded"}),
                         [u \in {<<s.key>>} |-> <<<<last[<<s.key>>], s.step>>, <<value, s.step>>>>])
    BY <1>3, MatchedIs
  <2>3. CASE linkStats' = Count(linkStats, {"lines", "bad"}) \/ linkStats' = Count(linkStats, {"lines", "decoded"})
    BY <1>1, <2>1, <2>3
  <2>4. ASSUME NEW value \in Int, linkStats' = TrackCounter(Count(linkStats, {"lines", "decoded"}),
                         [u \in {<<s.key>>} |-> <<<<last[<<s.key>>], s.step>>, <<value, s.step>>>>])
        PROVE  linkStats'["unmatched"] = linkStats["unmatched"]
    <3>1. PICK t, d, runs : /\ t = <<s.key>> /\ d = Count(linkStats, {"lines", "decoded"})
                            /\ runs = [u \in {t} |-> <<<<last[t], s.step>>, <<value, s.step>>>>]
      OBVIOUS
    <3>2. t \in Tracks /\ s.step \in Nat \ {0}
      BY <3>1, StreamsAssumption DEF Tracks
    <3>3. <<last[t], s.step>> \in Entries /\ <<value, s.step>> \in Entries
      BY <3>2 DEF LTypeOK, Entries
    <3>4. runs \in [{t} -> Seq(Entries)]
      <4>1. \A x, y \in Entries : <<x, y>> \in Seq(Entries)
        OBVIOUS
      <4> QED
        BY <3>1, <3>3, <4>1
    <3>5. d \in [Counters -> Int] /\ d["unmatched"] = linkStats["unmatched"]
      BY <1>0, <1>1, <3>1, CountIs
    <3>6. Tracking(d, {t}, runs)
      BY <3>4, <3>5, FS_Singleton DEF Tracking
    <3>7. TrackedStats(d, {t}, runs, linkStats')
      BY <2>4, <3>1, <3>6, TrackedStatsAre
    <3> QED
      BY <1>2, <3>5, <3>7 DEF TrackedStats
  <2> QED
    BY <2>1, <2>2, <2>3, <2>4
<1>4. CASE Route
  <2>1. replies' = replies
    BY <1>4 DEF Route
  <2>2. PICK batch \in Seq(Frames), T \in SUBSET Tracks, dropped \in [Counters -> Int] :
           /\ \A c \in Counters \ {"unknown", "mismatched", "decoded"} : dropped[c] = linkStats[c]
           /\ \A t \in T : Values(batch, t) \in Seq(Entries)
           /\ linkStats' = TrackCounter(dropped, [t \in T |-> <<<<last[t], 1>>>> \o Values(batch, t)])
    BY <1>4, RouteIs
  <2>3. PICK runs : runs = [t \in T |-> <<<<last[t], 1>>>> \o Values(batch, t)]
    OBVIOUS
  <2>4. runs \in [T -> Seq(Entries)]
    <3>1. \A a \in Int, v \in Seq(Entries) : <<<<a, 1>>>> \o v \in Seq(Entries)
      BY DEF Entries
    <3>2. \A t \in T : last[t] \in Int
      BY DEF LTypeOK
    <3> QED
      BY <2>2, <2>3, <3>1, <3>2
  <2>5. Tracking(dropped, T, runs)
    BY <2>4, TracksAssumption, FS_Subset DEF Tracking
  <2>6. TrackedStats(dropped, T, runs, linkStats')
    BY <2>2, <2>3, <2>5, TrackedStatsAre
  <2> QED
    BY <1>2, <2>1, <2>2, <2>6 DEF TrackedStats
<1>5. CASE Overlong \/ EndFeed
  <2>1. replies' = replies /\ (linkStats' = linkStats \/ linkStats' = Count(linkStats, {"lines", "overlong"}))
    BY <1>5 DEF Overlong, EndFeed, CountOverlong
  <2> QED
    BY <1>1, <2>1
<1>6. CASE PrintLine \/ Feed \/ EndOfOverlong \/ BlankLine \/ Configure \/ EmitLinkStats \/ UNCHANGED lvars
  BY <1>6 DEF PrintLine, Feed, EndOfOverlong, BlankLine, Configure, EmitLinkStats, lvars, decoderVars
<1> QED
  BY <1>3, <1>4, <1>5, <1>6, Zenon DEF LNext

LEMMA ReportsKept ==
  ASSUME [LNext]_lvars, ~EmitLinkStats, ~Start
  PROVE  UNCHANGED <<prev, terminal>>
<1>1. CASE PrintLine \/ Feed \/ EndOfOverlong \/ Overlong \/ UNCHANGED lvars
  BY <1>1 DEF PrintLine, Feed, EndOfOverlong, Overlong, lvars, reportVars
<1>2. CASE BlankLine \/ MatchedLine \/ Reply \/ EndFeed \/ Route \/ Configure
  BY <1>2 DEF BlankLine, MatchedLine, Reply, EndFeed, Route, Configure, reportVars
<1> QED
  BY <1>1, <1>2, Zenon DEF LNext

LEMMA RepliesInit == LInit => RingInv /\ RepliesAreShownOnce
<1> SUFFICES ASSUME LInit PROVE RingInv /\ RepliesAreShownOnce
  OBVIOUS
<1>1. linkStats["unmatched"] = 0 /\ prev = 0 /\ Len(replies) = 0 /\ Len(terminal.shown) = 0 /\ terminal.dropped = 0
  BY DEF LInit, NoStats, Counters
<1>2. Kept \in Nat
  BY LinkAssumption
<1>3. RingInv
  BY <1>1, <1>2 DEF RingInv, IsRing
<1> QED
  BY <1>1, <1>3 DEF RepliesAreShownOnce

\* A report shows the newest of the replies since the one before.
LEMMA ReportShows ==
  ASSUME LTypeOK, RingInv, RepliesAreShownOnce, EmitLinkStats
  PROVE  RepliesAreShownOnce'
<1>1. PICK u : u = linkStats["unmatched"]
  OBVIOUS
<1>2. PICK new : new = u - prev
  OBVIOUS
<1>3. PICK q : q = Reported(new)
  OBVIOUS
<1>4. PICK s, w, d : s = terminal.shown /\ w = s \o q /\ d = terminal.dropped
  OBVIOUS
<1>5. /\ new > 0 /\ prev' = u /\ terminal' = [shown |-> w, dropped |-> d + (new - Len(q))]
  BY <1>1, <1>2, <1>3, <1>4 DEF EmitLinkStats, OnLinkStats
<1>6. u \in Nat /\ prev \in Nat /\ new \in Nat /\ s \in Seq(Nat) /\ d \in Nat /\ replies \in Seq(Nat)
  <2>1. u \in Nat /\ prev \in Nat
    BY <1>1 DEF LTypeOK
  <2>2. s \in Seq(Nat) /\ d \in Nat /\ replies \in Seq(Nat)
    BY <1>4 DEF LTypeOK
  <2> QED
    BY <1>2, <1>5, <2>1, <2>2
<1>7. /\ q \in Seq(Nat) /\ Len(q) \in Nat /\ Len(q) <= new
      /\ Len(q) = new \/ Len(q) = PerReport \/ Len(q) = Len(replies)
      /\ \A i \in 1..Len(q) : q[i] = replies[Len(replies) - Len(q) + i] /\ Len(replies) - Len(q) + i \in 1..Len(replies)
  <2>1. /\ q \in Seq(Nat) /\ Len(q) <= new /\ Len(q) <= Len(replies)
        /\ Len(q) = new \/ Len(q) = PerReport \/ Len(q) = Len(replies)
        /\ \A i \in 1..Len(q) : q[i] = replies[Len(replies) - Len(q) + i]
    BY <1>3, <1>6, ReportedIs
  <2>2. Len(q) \in Nat /\ Len(replies) \in Nat
    BY <1>6, <2>1
  <2>3. \A i \in 1..Len(q) : Len(replies) - Len(q) + i \in 1..Len(replies)
    BY <2>1, <2>2
  <2> QED
    BY <2>1, <2>2, <2>3
<1>8. /\ Len(replies) = (IF u < Kept THEN u ELSE Kept) /\ Len(replies) \in Nat
      /\ \A i \in 1..Len(replies) : replies[i] = u - Len(replies) + i
  BY <1>1, <1>6 DEF RingInv, IsRing
<1>9. \A i \in 1..Len(q) : q[i] = u - Len(q) + i
  <2> TAKE i \in 1..Len(q)
  <2>1. q[i] = u - Len(replies) + (Len(replies) - Len(q) + i)
    BY <1>7, <1>8
  <2> QED
    BY <1>6, <1>7, <1>8, <2>1
<1>10. /\ w \in Seq(Nat) /\ Len(w) = Len(s) + Len(q) /\ Len(s) \in Nat
       /\ \A i \in 1..Len(s) : w[i] = s[i]
       /\ \A i \in 1..Len(q) : w[Len(s) + i] = q[i]
  BY <1>4, <1>6, <1>7
<1>11. /\ Len(s) + d = prev
       /\ \A i \in 1..Len(s) : s[i] \in 1..prev /\ \A j \in 1..(i - 1) : s[j] < s[i]
  BY <1>4 DEF RepliesAreShownOnce
<1>12. \A i \in 1..Len(w) : i \in 1..Len(s) \/ \E k \in 1..Len(q) : i = Len(s) + k
  <2> TAKE i \in 1..Len(w)
  <2>1. i \in 1..Len(s) \/ (i - Len(s) \in 1..Len(q) /\ i = Len(s) + (i - Len(s)))
    BY <1>7, <1>10
  <2> QED
    BY <2>1
<1>13. \A i \in 1..Len(w) : w[i] \in 1..u /\ \A j \in 1..(i - 1) : w[j] < w[i]
  <2> SUFFICES ASSUME NEW i \in 1..Len(w) PROVE w[i] \in 1..u /\ \A j \in 1..(i - 1) : w[j] < w[i]
    OBVIOUS
  <2>1. CASE i \in 1..Len(s)
    <3>1. w[i] = s[i] /\ s[i] \in 1..prev
      BY <1>10, <1>11, <2>1
    <3>2. \A j \in 1..(i - 1) : j \in 1..Len(s) /\ w[j] = s[j] /\ s[j] < s[i]
      BY <1>10, <1>11, <2>1
    <3>3. prev <= u
      BY <1>2, <1>5, <1>6
    <3> QED
      BY <1>6, <3>1, <3>2, <3>3
  <2>2. ASSUME NEW k \in 1..Len(q), i = Len(s) + k PROVE w[i] \in 1..u /\ \A j \in 1..(i - 1) : w[j] < w[i]
    <3>1. w[i] = u - Len(q) + k /\ u - Len(q) >= prev
      BY <1>2, <1>6, <1>7, <1>9, <1>10, <2>2
    <3>2. w[i] \in 1..u /\ w[i] > prev
      BY <1>6, <1>7, <3>1, SMTT(20)
    <3>3. ASSUME NEW j \in 1..(i - 1) PROVE w[j] < w[i]
      <4>1. j \in 1..Len(w)
        BY <1>7, <1>10
      <4>2. CASE j \in 1..Len(s)
        <5>1. w[j] = s[j] /\ s[j] \in 1..prev
          BY <1>10, <1>11, <4>2
        <5> QED
          BY <1>6, <3>2, <5>1
      <4>3. ASSUME NEW m \in 1..Len(q), j = Len(s) + m PROVE w[j] < w[i]
        <5>1. w[j] = u - Len(q) + m
          BY <1>9, <1>10, <4>3
        <5>2. m < k
          BY <1>10, <2>2, <4>3
        <5> QED
          BY <1>6, <1>7, <3>1, <5>1, <5>2
      <4> QED
        BY <1>12, <4>1, <4>2, <4>3
    <3> QED
      BY <3>2, <3>3
  <2> QED
    BY <1>12, <2>1, <2>2
<1>14. Len(w) + (d + (new - Len(q))) = u
  <2>1. PICK a \in Nat, b \in Nat : a = Len(s) /\ b = Len(q)
    BY <1>7, <1>10
  <2>2. Len(w) = a + b /\ a + d = prev
    BY <1>10, <1>11, <2>1
  <2>3. (a + b) + (d + (new - b)) = u
    BY <1>2, <1>6, <2>1, <2>2
  <2> QED
    BY <2>1, <2>2, <2>3
<1>15. Kept > 0 /\ PerReport > 0 => Last(w) = u
  <2> SUFFICES ASSUME Kept > 0, PerReport > 0 PROVE Last(w) = u
    OBVIOUS
  <2>1. u > 0 /\ Kept \in Nat /\ PerReport \in Nat
    BY <1>2, <1>5, <1>6, LinkAssumption
  <2>2. Len(q) > 0
    BY <1>5, <1>6, <1>7, <1>8, <2>1
  <2>3. q[Len(q)] = u /\ w[Len(w)] = q[Len(q)]
    <3>1. Len(q) \in 1..Len(q)
      BY <1>7, <2>2
    <3>2. q[Len(q)] = u - Len(q) + Len(q) /\ w[Len(s) + Len(q)] = q[Len(q)]
      BY <1>9, <1>10, <3>1
    <3> QED
      BY <1>6, <1>7, <1>10, <3>2
  <2> QED
    BY <2>3 DEF Last
<1>16. terminal'.shown = w /\ terminal'.dropped = d + (new - Len(q)) /\ prev' = u
  BY <1>5
<1> QED
  BY <1>13, <1>14, <1>15, <1>16 DEF RepliesAreShownOnce

LEMMA RepliesStep ==
  LTypeOK /\ RingInv /\ RepliesAreShownOnce /\ [LNext]_lvars => RingInv' /\ RepliesAreShownOnce'
<1> SUFFICES ASSUME LTypeOK, RingInv, RepliesAreShownOnce, [LNext]_lvars
             PROVE  RingInv' /\ RepliesAreShownOnce'
  OBVIOUS
<1>0. linkStats["unmatched"] \in Nat /\ prev \in Nat /\ Kept \in Nat
  BY LinkAssumption DEF LTypeOK
<1>1. CASE Start
  <2>1. linkStats'["unmatched"] = 0 /\ prev' = 0 /\ Len(replies') = 0 /\ Len(terminal'.shown) = 0 /\ terminal'.dropped = 0
    BY <1>1 DEF Start, NoStats, Counters
  <2>2. RingInv'
    BY <1>0, <2>1 DEF RingInv, IsRing
  <2> QED
    BY <2>1, <2>2 DEF RepliesAreShownOnce
<1>2. CASE Reply
  <2>1. linkStats'["unmatched"] = linkStats["unmatched"] + 1
    <3>1. "unmatched" \in Counters /\ "unmatched" \in {"lines", "unmatched"}
      BY StatsNames
    <3> QED
      BY <1>2, <3>1, CountIs DEF Reply, LTypeOK
  <2>2. UNCHANGED <<prev, terminal>> /\ replies' = RingOf(replies, linkStats["unmatched"] + 1)
    BY <1>2 DEF Reply, reportVars
  <2>3. IsRing(replies', linkStats["unmatched"] + 1)
    BY <1>0, <2>2, RingIs DEF RingInv, LTypeOK
  <2>4. RingInv'
    BY <1>0, <2>1, <2>2, <2>3 DEF RingInv
  <2> QED
    BY <2>2, <2>4 DEF RepliesAreShownOnce
<1>3. CASE EmitLinkStats
  <2>1. UNCHANGED <<replies, linkStats>> /\ prev' = linkStats["unmatched"]
    BY <1>3 DEF EmitLinkStats, decoderVars
  <2>2. RingInv'
    BY <1>0, <2>1 DEF RingInv, IsRing
  <2> QED
    BY <1>3, <2>2, ReportShows
<1>4. CASE ~Start /\ ~Reply /\ ~EmitLinkStats
  <2>1. UNCHANGED <<replies, prev, terminal>> /\ linkStats'["unmatched"] = linkStats["unmatched"]
    BY <1>4, UnmatchedKept, ReportsKept
  <2> QED
    BY <2>1 DEF RingInv, IsRing, RepliesAreShownOnce
<1> QED
  BY <1>1, <1>2, <1>3, <1>4

\* The terminal shows each of the board's replies at most once and in their order, it
\* says how many it left out, and the newest is there.
THEOREM RepliesShownOnce == LSpec => []RepliesAreShownOnce
<1> DEFINE I == LTypeOK /\ RingInv /\ RepliesAreShownOnce
<1>1. LInit => I
  BY InitTyped, RepliesInit
<1>2. I /\ [LNext]_lvars => I'
  BY StepTyped, RepliesStep
<1> QED
  BY <1>1, <1>2, PTL DEF LSpec

----------------------------------------------------------------------------
(* Losses. *)

\* Each counter's last value is where its tracking goes on.
Continues == \A t \in Tracks : LastIs(tracked[t], last[t])

Tallied ==
    /\ linkStats["missing"] = Total([t \in Tracks |-> Missing(tracked[t])], Tracks)
    /\ linkStats["resets"] = Total([t \in Tracks |-> Cardinality(Restarts(tracked[t]))], Tracks)

LEMMA TalliedIs == Tallied <=> LossesAreCounted
<1>1. SumFunction([t \in Tracks |-> Missing(tracked[t])]) = Total([t \in Tracks |-> Missing(tracked[t])], Tracks)
  <2>1. DOMAIN [t \in Tracks |-> Missing(tracked[t])] = Tracks
    OBVIOUS
  <2> QED
    BY <2>1, Zenon DEF SumFunction, Total
<1>2. SumFunction([t \in Tracks |-> Cardinality(Restarts(tracked[t]))])
        = Total([t \in Tracks |-> Cardinality(Restarts(tracked[t]))], Tracks)
  <2>1. DOMAIN [t \in Tracks |-> Cardinality(Restarts(tracked[t]))] = Tracks
    OBVIOUS
  <2> QED
    BY <2>1, Zenon DEF SumFunction, Total
<1> QED
  BY <1>1, <1>2, Zenon DEF Tallied, LossesAreCounted

\* Nothing is lost of tracks that have had no values, or only breaks.
LEMMA ZeroTotal ==
  ASSUME NEW S, IsFiniteSet(S), NEW f, \A x \in S : f[x] = 0
  PROVE  Total(f, S) = 0
<1> DEFINE A == {T \in SUBSET S : Total(f, T) = 0}
<1>1. {} \in A
  BY SumEmpty
<1>2. ASSUME NEW T \in SUBSET S, NEW x \in S \ T, T \in A PROVE T \cup {x} \in A
  <2>1. IsFiniteSet(T) /\ \A y \in T \cup {x} : f[y] \in Int
    BY FS_Subset
  <2>2. Total(f, T \cup {x}) = Total(f, T) + f[x]
    BY <2>1, SumMore
  <2> QED
    BY <1>2, <2>2
<1> HIDE DEF A
<1>3. S \in A
  BY <1>1, <1>2, Subsets
<1> QED
  BY <1>3 DEF A

LEMMA NothingMissing == Missing(<<>>) = 0 /\ Cardinality(Restarts(<<>>)) = 0
<1>1. PICK v \in Seq(Entries) : v = <<>>
  <2>1. \A S : <<>> \in Seq(S)
    OBVIOUS
  <2> QED
    BY <2>1
<1>2. 2..Len(v) = {}
  BY <1>1
<1>3. Jumps(v) = {} /\ Restarts(v) = {}
  BY <1>2 DEF Jumps, Restarts
<1> DEFINE f == [i \in Jumps(v) |-> Skipped(Distance(v, i), v[i][2])]
<1>4. Missing(v) = Total(f, Jumps(v))
  BY MissingIs
<1> HIDE DEF f
<1> QED
  BY <1>1, <1>3, <1>4, SumEmpty, FS_EmptySet

LEMMA NothingTallied ==
  ASSUME NEW v, v = [t \in Tracks |-> <<>>]
  PROVE  /\ Total([t \in Tracks |-> Missing(v[t])], Tracks) = 0
         /\ Total([t \in Tracks |-> Cardinality(Restarts(v[t]))], Tracks) = 0
<1> DEFINE f == [t \in Tracks |-> Missing(v[t])]
           g == [t \in Tracks |-> Cardinality(Restarts(v[t]))]
<1>1. \A t \in Tracks : f[t] = 0 /\ g[t] = 0
  BY NothingMissing
<1> HIDE DEF f, g
<1>2. Total(f, Tracks) = 0 /\ Total(g, Tracks) = 0
  BY <1>1, TracksAssumption, ZeroTotal
<1> QED
  BY <1>2 DEF f, g

\* Runs of values go to the counts and the tracks alike.
Runs(T, more, runs) ==
    /\ T \subseteq Tracks /\ more \in [T -> Seq(Entries)] /\ runs \in [T -> Seq(Entries)]
    /\ \A t \in T : more[t] # <<>> /\ \E k \in Nat \ {0} : runs[t] = <<<<last[t], k>>>> \o more[t]

LEMMA RunsKeep ==
  ASSUME LTypeOK, Continues, Tallied, NEW T, NEW more, NEW runs, Runs(T, more, runs),
         NEW d \in [Counters -> Int], d["missing"] = linkStats["missing"], d["resets"] = linkStats["resets"],
         linkStats' = TrackCounter(d, runs),
         tracked' = [t \in Tracks |-> IF t \in T THEN tracked[t] \o more[t] ELSE tracked[t]],
         last' = [t \in Tracks |-> IF t \in T THEN more[t][Len(more[t])][1] ELSE last[t]]
  PROVE  Continues' /\ Tallied'
<1> USE DEF Runs
<1>0. /\ tracked \in [Tracks -> Seq(Entries)] /\ last \in [Tracks -> Int]
      /\ \A v, w \in Seq(Entries) : v \o w \in Seq(Entries)
  BY DEF LTypeOK, Entries
<1>1. PICK v, w, b : v = tracked /\ w = tracked' /\ b = last
  OBVIOUS
<1>2. v \in [Tracks -> Seq(Entries)] /\ w \in [Tracks -> Seq(Entries)] /\ b \in [Tracks -> Int]
  BY <1>0, <1>1
<1>3. /\ \A t \in T : w[t] = v[t] \o more[t] /\ \E k \in Nat \ {0} : runs[t] = <<<<b[t], k>>>> \o more[t]
      /\ \A t \in Tracks \ T : w[t] = v[t]
      /\ \A t \in Tracks : LastIs(v[t], b[t])
  BY <1>1 DEF Continues
<1>4. SumsExtended(v, w, T, runs)
  <2>1. Extended(v, b, w, T, more, runs)
    BY <1>2, <1>3 DEF Extended
  <2> QED
    BY <2>1, RunsTallied
<1>5. TrackedStats(d, T, runs, linkStats')
  <2>1. Tracking(d, T, runs)
    BY TracksAssumption, FS_Subset DEF Tracking
  <2> QED
    BY <2>1, TrackedStatsAre
<1>6. Tallied'
  BY <1>1, <1>4, <1>5 DEF Tallied, TrackedStats, SumsExtended
<1>7. Continues'
  <2> SUFFICES ASSUME NEW t \in Tracks PROVE LastIs(tracked'[t], last'[t])
    BY DEF Continues
  <2>1. CASE t \in T
    <3>1. \A x, y \in Seq(Entries) : y # <<>> => LastIs(x \o y, y[Len(y)][1])
      <4> SUFFICES ASSUME NEW x \in Seq(Entries), NEW y \in Seq(Entries), y # <<>>
                   PROVE  LastIs(x \o y, y[Len(y)][1])
        OBVIOUS
      <4>1. Len(y) \in Nat /\ Len(y) > 0 /\ Len(x \o y) = Len(x) + Len(y) /\ x \o y # <<>>
        OBVIOUS
      <4>2. (x \o y)[Len(x) + Len(y)] = y[Len(y)]
        BY <4>1
      <4> QED
        BY <4>1, <4>2 DEF LastIs
    <3>2. tracked[t] \in Seq(Entries) /\ more[t] \in Seq(Entries) /\ more[t] # <<>>
      BY <1>0, <2>1
    <3> QED
      BY <2>1, <3>1, <3>2
  <2>2. CASE t \notin T
    BY <2>2 DEF Continues
  <2> QED
    BY <2>1, <2>2
<1> QED
  BY <1>6, <1>7

\* A break in a counter's tracking is no loss.
LEMMA BreakKeeps ==
  ASSUME NEW v \in Seq(Entries), NEW b \in Int, LastIs(v, b)
  PROVE  /\ Missing(Append(v, <<None, 1>>)) = Missing(v)
         /\ Cardinality(Restarts(Append(v, <<None, 1>>))) = Cardinality(Restarts(v))
         /\ LastIs(Append(v, <<None, 1>>), None)
<1>1. PICK x : x = <<None, 1>>
  OBVIOUS
<1>2. x \in Entries /\ x[1] = None
  BY <1>1 DEF Entries, None
<1>3. Lost(b, x) = 0 /\ Restarted(b, x) = 0
  BY <1>2 DEF Lost, Restarted
<1>4. Missing(v) \in Int /\ Cardinality(Restarts(v)) \in Int
  BY CountsOf
<1>5. /\ Missing(Append(v, x)) = Missing(v) + Lost(b, x)
      /\ Cardinality(Restarts(Append(v, x))) = Cardinality(Restarts(v)) + Restarted(b, x)
  BY <1>2, OneMore
<1>6. LastIs(Append(v, x), None)
  BY <1>2, AppendPlaces DEF LastIs
<1> QED
  BY <1>1, <1>3, <1>4, <1>5, <1>6

LEMMA LossesNotCounted ==
  \A s \in [Counters -> Int] : \A cs : "missing" \notin cs /\ "resets" \notin cs =>
      /\ Count(s, cs) \in [Counters -> Int]
      /\ Count(s, cs)["missing"] = s["missing"] /\ Count(s, cs)["resets"] = s["resets"]
<1> SUFFICES ASSUME NEW s \in [Counters -> Int], NEW cs, "missing" \notin cs, "resets" \notin cs
             PROVE  /\ Count(s, cs) \in [Counters -> Int]
                    /\ Count(s, cs)["missing"] = s["missing"] /\ Count(s, cs)["resets"] = s["resets"]
  OBVIOUS
<1>1. "missing" \in Counters /\ "resets" \in Counters
  BY StatsNames
<1> QED
  BY <1>1, CountIs

LEMMA Pairs ==
  ASSUME NEW S, NEW a \in S, NEW b \in S
  PROVE  /\ <<a, b>> = <<a>> \o <<b>> /\ <<b>> \in Seq(S) /\ <<a, b>> \in Seq(S)
         /\ Len(<<b>>) = 1 /\ <<b>>[1] = b /\ <<b>> # <<>>
<1>1. <<b>> \in Seq(S) /\ <<a, b>> \in Seq(S) /\ <<a>> \in Seq(S)
  OBVIOUS
<1>2. Len(<<b>>) = 1 /\ <<b>>[1] = b /\ <<b>> # <<>>
  OBVIOUS
<1>3. <<a, b>> = <<a>> \o <<b>>
  <2>1. PICK x, y, z, w : x = <<a>> /\ y = <<b>> /\ z = x \o y /\ w = <<a, b>>
    OBVIOUS
  <2>2. x \in Seq(S) /\ y \in Seq(S) /\ Len(x) = 1 /\ Len(y) = 1 /\ x[1] = a /\ y[1] = b
    BY <1>1, <2>1
  <2>3. w \in Seq(S) /\ Len(w) = 2 /\ w[1] = a /\ w[2] = b
    BY <1>1, <2>1
  <2>4. /\ z \in Seq(S) /\ Len(z) = Len(x) + Len(y)
        /\ \A i \in 1..(Len(x) + Len(y)) : z[i] = IF i <= Len(x) THEN x[i] ELSE y[i - Len(x)]
    <3>1. /\ x \o y \in Seq(S) /\ Len(x \o y) = Len(x) + Len(y)
          /\ \A i \in 1..(Len(x) + Len(y)) : (x \o y)[i] = IF i <= Len(x) THEN x[i] ELSE y[i - Len(x)]
      BY <2>2, ConcatProperties
    <3> QED
      BY <2>1, <3>1
  <2>5. Len(z) = 2 /\ \A i \in 1..2 : z[i] = IF i <= 1 THEN x[i] ELSE y[i - 1]
    BY <2>2, <2>4
  <2>6. \A i \in 1..2 : z[i] = w[i]
    BY <2>2, <2>3, <2>5
  <2>7. z = w
    BY <2>3, <2>4, <2>5, <2>6, SeqEqual
  <2> QED
    BY <2>1, <2>7
<1> QED
  BY <1>1, <1>2, <1>3

LEMMA LossesKept ==
  ASSUME LTypeOK, Continues, Tallied, UNCHANGED <<tracked, last>>,
         \/ UNCHANGED linkStats
         \/ \E cs \in {{"lines", "overlong"}, {"lines", "bad"}, {"lines", "decoded"}, {"lines", "unmatched"}} :
                linkStats' = Count(linkStats, cs)
  PROVE  Continues' /\ Tallied'
<1>1. linkStats'["missing"] = linkStats["missing"] /\ linkStats'["resets"] = linkStats["resets"]
  <2>1. CASE UNCHANGED linkStats
    BY <2>1
  <2>2. ASSUME NEW cs \in {{"lines", "overlong"}, {"lines", "bad"}, {"lines", "decoded"}, {"lines", "unmatched"}},
               linkStats' = Count(linkStats, cs)
        PROVE  linkStats'["missing"] = linkStats["missing"] /\ linkStats'["resets"] = linkStats["resets"]
    <3>1. "missing" \notin cs /\ "resets" \notin cs
      OBVIOUS
    <3>2. linkStats \in [Counters -> Int]
      BY DEF LTypeOK
    <3> QED
      BY <2>2, <3>1, <3>2, LossesNotCounted
  <2> QED
    BY <2>1, <2>2
<1> QED
  BY <1>1 DEF Continues, Tallied

LEMMA LossesOfLine == LTypeOK /\ Continues /\ Tallied /\ MatchedLine => Continues' /\ Tallied'
<1> SUFFICES ASSUME LTypeOK, Continues, Tallied, MatchedLine PROVE Continues' /\ Tallied'
  OBVIOUS
<1>1. PICK s \in TextStreams :
           \/ linkStats' = Count(linkStats, {"lines", "bad"}) /\ UNCHANGED <<line, last, tracked>>
           \/ /\ line' = [line EXCEPT ![<<s.key>>] = (@ + 1) % LineMod]
              /\ linkStats' = Count(linkStats, {"lines", "decoded"}) /\ UNCHANGED <<last, tracked>>
           \/ /\ line' = [line EXCEPT ![<<s.key>>] = (@ + 1) % LineMod]
              /\ \E value \in Int :
                  /\ linkStats' = TrackCounter(Count(linkStats, {"lines", "decoded"}),
                         [u \in {<<s.key>>} |-> <<<<last[<<s.key>>], s.step>>, <<value, s.step>>>>])
                  /\ last' = [last EXCEPT ![<<s.key>>] = value]
                  /\ tracked' = [tracked EXCEPT ![<<s.key>>] = Append(@, <<value, s.step>>)]
  BY MatchedIs
<1>2. CASE /\ UNCHANGED <<last, tracked>>
           /\ linkStats' = Count(linkStats, {"lines", "bad"}) \/ linkStats' = Count(linkStats, {"lines", "decoded"})
  BY <1>2, LossesKept
<1>3. ASSUME NEW value \in Int,
             linkStats' = TrackCounter(Count(linkStats, {"lines", "decoded"}),
                         [u \in {<<s.key>>} |-> <<<<last[<<s.key>>], s.step>>, <<value, s.step>>>>]),
             last' = [last EXCEPT ![<<s.key>>] = value],
             tracked' = [tracked EXCEPT ![<<s.key>>] = Append(@, <<value, s.step>>)]
      PROVE  Continues' /\ Tallied'
  <2>1. PICK t, k : t = <<s.key>> /\ k = s.step
    OBVIOUS
  <2>2. t \in Tracks /\ k \in Nat \ {0}
    BY <2>1, StreamsAssumption DEF Tracks
  <2>3. PICK a, b : a = <<last[t], k>> /\ b = <<value, k>>
    OBVIOUS
  <2>4. /\ a \in Entries /\ b \in Entries /\ b[1] = value
        /\ tracked \in [Tracks -> Seq(Entries)] /\ last \in [Tracks -> Int]
    BY <2>2, <2>3 DEF LTypeOK, Entries
  <2>5. /\ <<a, b>> = <<a>> \o <<b>> /\ <<b>> \in Seq(Entries) /\ <<a, b>> \in Seq(Entries)
        /\ Len(<<b>>) = 1 /\ <<b>>[1] = b /\ <<b>> # <<>>
        /\ \A v \in Seq(Entries) : Append(v, b) = v \o <<b>>
    <3>1. \A v \in Seq(Entries) : Append(v, b) = v \o <<b>>
      BY <2>4
    <3> QED
      BY <2>4, <3>1, Pairs
  <2>6. PICK T, more, runs, d : /\ T = {t} /\ more = [u \in T |-> <<b>>] /\ runs = [u \in T |-> <<a, b>>]
                                /\ d = Count(linkStats, {"lines", "decoded"})
    OBVIOUS
  <2>7. Runs(T, more, runs)
    <3>1. T \subseteq Tracks /\ more \in [T -> Seq(Entries)] /\ runs \in [T -> Seq(Entries)]
      BY <2>2, <2>5, <2>6
    <3>2. \A u \in T : more[u] # <<>> /\ runs[u] = <<<<last[u], k>>>> \o more[u]
      BY <2>3, <2>5, <2>6
    <3> QED
      BY <2>2, <3>1, <3>2 DEF Runs
  <2>8. d \in [Counters -> Int] /\ d["missing"] = linkStats["missing"] /\ d["resets"] = linkStats["resets"]
    <3>1. "missing" \notin {"lines", "decoded"} /\ "resets" \notin {"lines", "decoded"}
      OBVIOUS
    <3>2. linkStats \in [Counters -> Int]
      BY DEF LTypeOK
    <3> QED
      BY <2>6, <3>1, <3>2, LossesNotCounted
  <2>9. linkStats' = TrackCounter(d, runs)
    BY <1>3, <2>1, <2>3, <2>6
  <2>10. tracked' = [u \in Tracks |-> IF u \in T THEN tracked[u] \o more[u] ELSE tracked[u]]
    <3>1. tracked[t] \in Seq(Entries) /\ more[t] = <<b>>
      BY <2>2, <2>4, <2>6
    <3>2. tracked' = [tracked EXCEPT ![t] = tracked[t] \o <<b>>]
      BY <1>3, <2>1, <2>3, <2>5, <3>1
    <3> QED
      BY <2>2, <2>4, <2>6, <3>1, <3>2
  <2>11. last' = [u \in Tracks |-> IF u \in T THEN more[u][Len(more[u])][1] ELSE last[u]]
    <3>1. more[t][Len(more[t])][1] = value
      BY <2>4, <2>5, <2>6
    <3> QED
      BY <1>3, <2>1, <2>2, <2>4, <2>6, <3>1
  <2> QED
    BY <2>7, <2>8, <2>9, <2>10, <2>11, RunsKeep
<1> QED
  BY <1>1, <1>2, <1>3

LEMMA LossesOfBatch == LTypeOK /\ Continues /\ Tallied /\ Route => Continues' /\ Tallied'
<1> SUFFICES ASSUME LTypeOK, Continues, Tallied, Route PROVE Continues' /\ Tallied'
  OBVIOUS
<1>1. PICK batch \in Seq(Frames), T \in SUBSET Tracks, d \in [Counters -> Int] :
           /\ \A c \in Counters \ {"unknown", "mismatched", "decoded"} : d[c] = linkStats[c]
           /\ \A t \in T : Values(batch, t) \in Seq(Entries) /\ Values(batch, t) # <<>>
           /\ linkStats' = TrackCounter(d, [t \in T |-> <<<<last[t], 1>>>> \o Values(batch, t)])
           /\ last' = [t \in Tracks |-> IF t \in T THEN Last(Values(batch, t))[1] ELSE last[t]]
           /\ tracked' = [t \in Tracks |->
                 IF t \in T THEN tracked[t] \o Values(batch, t) ELSE tracked[t]]
  BY RouteIs
<1>2. PICK more, runs : /\ more = [t \in T |-> Values(batch, t)]
                        /\ runs = [t \in T |-> <<<<last[t], 1>>>> \o Values(batch, t)]
  OBVIOUS
<1>3. last \in [Tracks -> Int] /\ \A a \in Int, v \in Seq(Entries) : <<<<a, 1>>>> \o v \in Seq(Entries)
  BY DEF LTypeOK, Entries
<1>4. Runs(T, more, runs)
  <2>1. \A t \in T : runs[t] = <<<<last[t], 1>>>> \o more[t] /\ more[t] # <<>>
    BY <1>1, <1>2
  <2>2. more \in [T -> Seq(Entries)] /\ runs \in [T -> Seq(Entries)]
    BY <1>1, <1>2, <1>3
  <2>3. 1 \in Nat \ {0}
    OBVIOUS
  <2> QED
    BY <2>1, <2>2, <2>3 DEF Runs
<1>5. d["missing"] = linkStats["missing"] /\ d["resets"] = linkStats["resets"]
  <2>1. {"missing", "resets"} \subseteq Counters \ {"unknown", "mismatched", "decoded"}
    BY StatsNames
  <2> QED
    BY <1>1, <2>1
<1>6. tracked' = [t \in Tracks |-> IF t \in T THEN tracked[t] \o more[t] ELSE tracked[t]]
  BY <1>1, <1>2
<1>7. last' = [t \in Tracks |-> IF t \in T THEN more[t][Len(more[t])][1] ELSE last[t]]
  BY <1>1, <1>2 DEF Last
<1>8. linkStats' = TrackCounter(d, runs)
  BY <1>1, <1>2
<1> QED
  BY <1>4, <1>5, <1>6, <1>7, <1>8, RunsKeep

LEMMA LossesOfConfigure == LTypeOK /\ Continues /\ Tallied /\ Configure => Continues' /\ Tallied'
<1> SUFFICES ASSUME LTypeOK, Continues, Tallied, Configure PROVE Continues' /\ Tallied'
  OBVIOUS
<1>1. PICK c \in Configs :
        /\ last' = [t \in Tracks |-> IF Stays(t, c) THEN last[t] ELSE None]
        /\ tracked' = [t \in Tracks |->
              IF format = "text" /\ t \in Named(streams) \cap Named(c)
              THEN tracked[t] ELSE Append(tracked[t], <<None, 1>>)]
  BY Zenon DEF Configure
<1>2. UNCHANGED linkStats
  BY DEF Configure
<1>3. \A t : Stays(t, c) <=> format = "text" /\ t \in Named(streams) \cap Named(c)
  BY DEF Stays, Named
<1>4. tracked \in [Tracks -> Seq(Entries)] /\ last \in [Tracks -> Int]
  BY DEF LTypeOK, Entries
<1>5. \A t \in Tracks : /\ Missing(tracked'[t]) = Missing(tracked[t])
                        /\ Cardinality(Restarts(tracked'[t])) = Cardinality(Restarts(tracked[t]))
                        /\ LastIs(tracked'[t], last'[t])
  <2> TAKE t \in Tracks
  <2>1. tracked[t] \in Seq(Entries) /\ last[t] \in Int /\ LastIs(tracked[t], last[t])
    BY <1>4 DEF Continues
  <2>2. CASE Stays(t, c)
    <3>1. tracked'[t] = tracked[t] /\ last'[t] = last[t]
      BY <1>1, <1>3, <2>2
    <3> QED
      BY <2>1, <3>1
  <2>3. CASE ~Stays(t, c)
    <3>1. tracked'[t] = Append(tracked[t], <<None, 1>>) /\ last'[t] = None
      BY <1>1, <1>3, <2>3
    <3> QED
      BY <2>1, <3>1, BreakKeeps
  <2> QED
    BY <2>2, <2>3
<1> DEFINE f == [t \in Tracks |-> Missing(tracked[t])]
           g == [t \in Tracks |-> Missing(tracked'[t])]
           h == [t \in Tracks |-> Cardinality(Restarts(tracked[t]))]
           k == [t \in Tracks |-> Cardinality(Restarts(tracked'[t]))]
<1>6. \A t \in Tracks : f[t] = g[t] /\ h[t] = k[t]
  BY <1>5
<1> HIDE DEF f, g, h, k
<1>7. Total(f, Tracks) = Total(g, Tracks) /\ Total(h, Tracks) = Total(k, Tracks)
  BY <1>6, TracksAssumption, SumSame
<1> QED
  BY <1>2, <1>5, <1>7 DEF Continues, Tallied, f, g, h, k

LEMMA LossesOfNone ==
  ASSUME NEW f, f = [t \in Tracks |-> <<>>], NEW b, b = [t \in Tracks |-> None]
  PROVE  \A t \in Tracks : LastIs(f[t], b[t])
BY DEF LastIs

LEMMA LossesInit == LInit => Continues /\ Tallied
<1> SUFFICES ASSUME LInit PROVE Continues /\ Tallied
  OBVIOUS
<1>1. tracked = [t \in Tracks |-> <<>>] /\ last = [t \in Tracks |-> None] /\ linkStats = NoStats
  BY DEF LInit
<1>2. linkStats["missing"] = 0 /\ linkStats["resets"] = 0
  BY <1>1 DEF NoStats, Counters
<1>3. /\ Total([t \in Tracks |-> Missing(tracked[t])], Tracks) = 0
      /\ Total([t \in Tracks |-> Cardinality(Restarts(tracked[t]))], Tracks) = 0
  BY <1>1, NothingTallied
<1> QED
  BY <1>1, <1>2, <1>3, LossesOfNone DEF Continues, Tallied

LEMMA LossesStep == LTypeOK /\ Continues /\ Tallied /\ [LNext]_lvars => Continues' /\ Tallied'
<1> SUFFICES ASSUME LTypeOK, Continues, Tallied, [LNext]_lvars PROVE Continues' /\ Tallied'
  OBVIOUS
<1>1. CASE PrintLine \/ Feed \/ EndOfOverlong \/ BlankLine \/ EmitLinkStats \/ UNCHANGED lvars
  <2>1. UNCHANGED <<tracked, last, linkStats>>
    BY <1>1 DEF PrintLine, Feed, EndOfOverlong, BlankLine, EmitLinkStats, lvars, decoderVars
  <2> QED
    BY <2>1, LossesKept
<1>2. CASE Overlong \/ EndFeed
  <2>1. UNCHANGED <<tracked, last>> /\ (linkStats' = linkStats \/ linkStats' = Count(linkStats, {"lines", "overlong"}))
    BY <1>2 DEF Overlong, EndFeed, CountOverlong
  <2> QED
    BY <2>1, LossesKept
<1>3. CASE Reply
  <2>1. UNCHANGED <<tracked, last>> /\ linkStats' = Count(linkStats, {"lines", "unmatched"})
    BY <1>3 DEF Reply
  <2> QED
    BY <2>1, LossesKept
<1>4. CASE Start
  <2>1. tracked' = [t \in Tracks |-> <<>>] /\ last' = [t \in Tracks |-> None] /\ linkStats' = NoStats
    BY <1>4 DEF Start
  <2>2. linkStats'["missing"] = 0 /\ linkStats'["resets"] = 0
    BY <2>1 DEF NoStats, Counters
  <2>3. PICK v : v = tracked'
    OBVIOUS
  <2>4. /\ Total([t \in Tracks |-> Missing(v[t])], Tracks) = 0
        /\ Total([t \in Tracks |-> Cardinality(Restarts(v[t]))], Tracks) = 0
    BY <2>1, <2>3, NothingTallied
  <2> QED
    BY <2>1, <2>2, <2>3, <2>4, LossesOfNone DEF Continues, Tallied
<1> QED
  BY <1>1, <1>2, <1>3, <1>4, LossesOfLine, LossesOfBatch, LossesOfConfigure, Zenon DEF LNext

\* What the link's statistics say is missing, and how many restarts, is what each counter's
\* values one after another show.
THEOREM LossesCounted == LSpec => []LossesAreCounted
<1> DEFINE I == LTypeOK /\ Continues /\ Tallied
<1>1. LInit => I
  BY InitTyped, LossesInit
<1>2. I /\ [LNext]_lvars => I'
  BY StepTyped, LossesStep
<1>3. I => LossesAreCounted
  BY TalliedIs
<1> QED
  BY <1>1, <1>2, <1>3, PTL DEF LSpec

----------------------------------------------------------------------------
(* Lines. *)

\* How the lines s lie in what is unread: the first c have been taken, `gone` characters of
\* the next were dropped; end[k] is where line k ends.
Laid(u, s, c, gone, end) ==
    /\ c \in 0..Len(s) /\ gone \in Nat
    /\ end \in [c..Len(s) -> Int] /\ end[c] + gone = 0 /\ end[Len(s)] = Len(u)
    /\ \A k \in (c + 1)..Len(s) :
        /\ end[k] = end[k - 1] + Len(s[k]) + 1
        /\ end[k] > 0 /\ u[end[k]] = NL
        /\ \A j \in 1..Len(s[k]) : end[k - 1] + j > 0 => u[end[k - 1] + j] = s[k][j]
    /\ \A k, m \in c..Len(s) : k < m => end[k] < end[m]
    /\ \A i \in 1..Len(u) : u[i] = NL => \E k \in (c + 1)..Len(s) : end[k] = i

LEMMA LaidNone ==
  ASSUME NEW u, NEW s, u = <<>>, s = <<>>, NEW end, end = [k \in 0..0 |-> 0]
  PROVE  Laid(u, s, 0, 0, end)
<1>1. Len(u) = 0 /\ Len(s) = 0
  OBVIOUS
<1>2. 0 \in 0..0 /\ 0 + 0 = 0 /\ 1..0 = {} /\ (0 + 1)..0 = {} /\ \A k, m \in 0..0 : ~(k < m)
  OBVIOUS
<1> QED
  BY <1>1, <1>2 DEF Laid

\* One of the lines that are left.
EndsThere(u, s, c, end, k) ==
  /\ k \in 1..Len(s) /\ k \in c..Len(s) /\ k - 1 \in c..Len(s)
  /\ s[k] \in Seq(Int) /\ Len(s[k]) \in Nat
  /\ end[k] \in Int /\ end[k - 1] \in Int /\ end[k] = end[k - 1] + Len(s[k]) + 1
  /\ end[k] \in 1..Len(u) /\ u[end[k]] = NL
  /\ \A j \in 1..Len(s[k]) : end[k - 1] + j > 0 =>
        end[k - 1] + j \in 1..Len(u) /\ u[end[k - 1] + j] = s[k][j]

LEMMA LaidLine ==
  ASSUME NEW u, Len(u) \in Nat, NEW s \in Seq(Lines), NEW c, NEW gone, NEW end, Laid(u, s, c, gone, end),
         NEW k \in (c + 1)..Len(s)
  PROVE  EndsThere(u, s, c, end, k)
<1>1. PICK N \in Nat, U \in Nat : N = Len(s) /\ U = Len(u)
  OBVIOUS
<1>2. /\ c \in 0..N /\ end \in [c..N -> Int] /\ end[N] = U
      /\ \A i \in (c + 1)..N :
           /\ end[i] = end[i - 1] + Len(s[i]) + 1 /\ end[i] > 0 /\ u[end[i]] = NL
           /\ \A j \in 1..Len(s[i]) : end[i - 1] + j > 0 => u[end[i - 1] + j] = s[i][j]
      /\ \A i, m \in c..N : i < m => end[i] < end[m]
  BY <1>1 DEF Laid
<1>3. k \in 1..N /\ k \in c..N /\ k - 1 \in c..N /\ k \in (c + 1)..N
  BY <1>1, <1>2
<1>4. s[k] \in Lines
  BY <1>1, <1>3
<1>5. s[k] \in Seq(Int)
  BY <1>4, LinkAssumption
<1>6. PICK n \in Nat : n = Len(s[k])
  BY <1>5
<1>7. PICK x \in Int, y \in Int : x = end[k] /\ y = end[k - 1]
  BY <1>2, <1>3
<1>8. x = y + n + 1 /\ x > 0 /\ u[x] = NL
  BY <1>2, <1>3, <1>6, <1>7
<1>9. x <= U
  <2>1. N \in c..N /\ (k < N \/ k = N)
    BY <1>2, <1>3
  <2>2. k < N => x < U
    BY <1>2, <1>3, <1>7, <2>1
  <2>3. k = N => x = U
    BY <1>2, <1>7
  <2> QED
    BY <2>1, <2>2, <2>3
<1>10. \A j \in 1..n : y + j > 0 => y + j \in 1..U
  BY <1>8, <1>9
<1>11. \A j \in 1..n : y + j > 0 => u[y + j] = s[k][j]
  BY <1>2, <1>3, <1>6, <1>7
<1>12. x \in 1..U
  BY <1>8, <1>9
<1>13. /\ k \in 1..Len(s) /\ k \in c..Len(s) /\ k - 1 \in c..Len(s)
       /\ s[k] \in Seq(Int) /\ Len(s[k]) \in Nat
       /\ end[k] \in Int /\ end[k - 1] \in Int
  BY <1>1, <1>3, <1>5, <1>6, <1>7
<1>14. end[k] = end[k - 1] + Len(s[k]) + 1
  BY <1>6, <1>7, <1>8
<1>15. end[k] \in 1..Len(u) /\ u[end[k]] = NL
  BY <1>1, <1>7, <1>8, <1>12
<1>16. \A j \in 1..Len(s[k]) : end[k - 1] + j > 0 =>
               end[k - 1] + j \in 1..Len(u) /\ u[end[k - 1] + j] = s[k][j]
  BY <1>1, <1>6, <1>7, <1>10, <1>11
<1> QED
  BY <1>13, <1>14, <1>15, <1>16 DEF EndsThere

\* Another line printed.
LEMMA LaidFurther ==
  ASSUME NEW u \in Seq(Int), NEW s \in Seq(Lines), NEW l \in Lines, NEW c, NEW gone, NEW end,
         Laid(u, s, c, gone, end)
  PROVE  \E e : Laid(u \o Append(l, NL), Append(s, l), c, gone, e)
<1>1. PICK N \in Nat, L \in Nat, U \in Nat : N = Len(s) /\ L = Len(l) /\ U = Len(u) /\ l \in Seq(Int) /\ NL \in Int
  BY LinkAssumption
<1>2. PICK v, w : v = u \o Append(l, NL) /\ w = Append(s, l)
  OBVIOUS
<1>3. /\ Len(v) = U + L + 1 /\ \A i \in 1..U : v[i] = u[i]
      /\ \A j \in 1..L : v[U + j] = l[j]
      /\ v[U + L + 1] = NL
  <2>1. PICK q : q = Append(l, NL)
    OBVIOUS
  <2>2. q \in Seq(Int) /\ Len(q) = L + 1 /\ q[L + 1] = NL /\ \A j \in 1..L : q[j] = l[j]
    BY <1>1, <2>1
  <2>3. /\ Len(u \o q) = U + Len(q)
        /\ \A i \in 1..(U + Len(q)) : (u \o q)[i] = IF i <= U THEN u[i] ELSE q[i - U]
    BY <1>1, <2>2, ConcatProperties
  <2>4. v = u \o q
    BY <1>2, <2>1
  <2>5. \A i \in 1..U : v[i] = u[i]
    BY <2>2, <2>3, <2>4
  <2>6. \A j \in 1..(L + 1) : v[U + j] = q[j]
    <3> TAKE j \in 1..(L + 1)
    <3>1. U + j \in 1..(U + Len(q)) /\ ~(U + j <= U) /\ (U + j) - U = j
      BY <2>2
    <3> QED
      BY <2>3, <2>4, <3>1
  <2>7. \A j \in 1..L : v[U + j] = l[j]
    BY <2>2, <2>6
  <2>8. v[U + L + 1] = NL
    <3>1. L + 1 \in 1..(L + 1) /\ U + (L + 1) = U + L + 1
      OBVIOUS
    <3>2. v[U + (L + 1)] = q[L + 1]
      BY <2>6, <3>1
    <3> QED
      BY <2>2, <3>1, <3>2
  <2>9. Len(v) = U + L + 1
    BY <2>2, <2>3, <2>4
  <2> QED
    BY <2>5, <2>7, <2>8, <2>9
<1>4. Len(w) = N + 1 /\ w[N + 1] = l /\ \A i \in 1..N : w[i] = s[i]
  BY <1>1, <1>2
<1>5. PICK e : e = [k \in c..(N + 1) |-> IF k = N + 1 THEN U + L + 1 ELSE end[k]]
  OBVIOUS
<1>6. /\ c \in 0..N /\ gone \in Nat /\ end \in [c..N -> Int] /\ end[c] + gone = 0 /\ end[N] = U
      /\ \A k \in (c + 1)..N :
           /\ end[k] = end[k - 1] + Len(s[k]) + 1 /\ end[k] > 0 /\ u[end[k]] = NL
           /\ \A j \in 1..Len(s[k]) : end[k - 1] + j > 0 => u[end[k - 1] + j] = s[k][j]
      /\ \A k, m \in c..N : k < m => end[k] < end[m]
      /\ \A i \in 1..U : u[i] = NL => \E k \in (c + 1)..N : end[k] = i
  BY <1>1 DEF Laid
<1>7. e \in [c..(N + 1) -> Int] /\ e[N + 1] = U + L + 1 /\ \A k \in c..N : e[k] = end[k]
  <2>1. N + 1 \in c..(N + 1) /\ \A k \in c..N : k \in c..(N + 1) /\ k # N + 1
    BY <1>6
  <2>2. \A k \in c..(N + 1) : k = N + 1 \/ k \in c..N
    BY <1>6
  <2> QED
    BY <1>5, <1>6, <2>1, <2>2
<1>8. \A k \in c..N : end[k] \in Int /\ end[k] <= U
  <2> TAKE k \in c..N
  <2>1. k < N \/ k = N
    BY <1>6
  <2> QED
    BY <1>6, <2>1
<1>9. ASSUME NEW k \in (c + 1)..(N + 1)
      PROVE  /\ e[k] = e[k - 1] + Len(w[k]) + 1 /\ e[k] > 0 /\ v[e[k]] = NL
             /\ \A j \in 1..Len(w[k]) : e[k - 1] + j > 0 => v[e[k - 1] + j] = w[k][j]
  <2>1. CASE k = N + 1
    <3>1. k - 1 = N /\ N \in c..N
      BY <1>6, <2>1
    <3>2. e[k] = U + L + 1 /\ e[k - 1] = U /\ w[k] = l
      BY <1>4, <1>6, <1>7, <2>1, <3>1
    <3>3. e[k] = e[k - 1] + L + 1 /\ e[k] > 0
      BY <3>2
    <3>4. \A j \in 1..L : v[U + j] = l[j]
      BY <1>3
    <3> QED
      BY <1>1, <1>3, <3>2, <3>3, <3>4
  <2>2. CASE k \in (c + 1)..N
    <3>1. /\ k \in 1..N /\ k \in c..N /\ k - 1 \in c..N
          /\ s[k] \in Seq(Int) /\ Len(s[k]) \in Nat
          /\ end[k] \in Int /\ end[k - 1] \in Int /\ end[k] = end[k - 1] + Len(s[k]) + 1
          /\ end[k] \in 1..U /\ u[end[k]] = NL
          /\ \A j \in 1..Len(s[k]) : end[k - 1] + j > 0 =>
                end[k - 1] + j \in 1..U /\ u[end[k - 1] + j] = s[k][j]
      <4>1. EndsThere(u, s, c, end, k)
        BY <1>1, <2>2, LaidLine
      <4> QED
        BY <1>1, <4>1 DEF EndsThere
    <3>2. e[k] = end[k] /\ e[k - 1] = end[k - 1] /\ w[k] = s[k]
      BY <1>4, <1>7, <3>1
    <3>3. e[k] > 0 /\ v[e[k]] = NL
      BY <1>3, <3>1, <3>2
    <3>4. \A j \in 1..Len(w[k]) : e[k - 1] + j > 0 => v[e[k - 1] + j] = w[k][j]
      BY <1>3, <3>1, <3>2
    <3> QED
      BY <3>1, <3>2, <3>3, <3>4
  <2>3. k = N + 1 \/ k \in (c + 1)..N
    BY <1>6
  <2> QED
    BY <2>1, <2>2, <2>3
<1>10. ASSUME NEW k \in c..(N + 1), NEW m \in c..(N + 1), k < m PROVE e[k] < e[m]
  <2>1. k \in c..N /\ e[k] = end[k] /\ end[k] <= U /\ end[k] \in Int
    BY <1>6, <1>7, <1>8, <1>10
  <2>2. m = N + 1 \/ m \in c..N
    BY <1>6
  <2>3. CASE m = N + 1
    BY <1>7, <2>1, <2>3
  <2>4. CASE m \in c..N
    BY <1>6, <1>7, <1>10, <2>1, <2>4
  <2> QED
    BY <2>2, <2>3, <2>4
<1>11. ASSUME NEW i \in 1..(U + L + 1), v[i] = NL PROVE \E k \in (c + 1)..(N + 1) : e[k] = i
  <2>1. CASE i \in 1..U
    <3>1. PICK k \in (c + 1)..N : end[k] = i
      BY <1>3, <1>6, <1>11, <2>1
    <3>2. k \in (c + 1)..(N + 1) /\ k \in c..N
      BY <1>6
    <3> QED
      BY <1>7, <3>1, <3>2
  <2>2. ASSUME NEW j \in 1..L, i = U + j PROVE FALSE
    BY <1>1, <1>3, <1>11, <2>2, LinkAssumption
  <2>3. CASE i = U + L + 1
    <3>1. N + 1 \in (c + 1)..(N + 1)
      BY <1>6
    <3> QED
      BY <1>7, <2>3, <3>1
  <2>4. i \in 1..U \/ i = U + L + 1 \/ (i - U \in 1..L /\ i = U + (i - U))
    OBVIOUS
  <2> QED
    BY <2>1, <2>2, <2>3, <2>4
<1>12. c \in 0..(N + 1) /\ e[c] + gone = 0
  <2>1. c \in c..N
    BY <1>6
  <2> QED
    BY <1>6, <1>7, <2>1
<1>13. Laid(v, w, c, gone, e)
  BY <1>3, <1>4, <1>6, <1>7, <1>9, <1>10, <1>11, <1>12 DEF Laid
<1> QED
  BY <1>2, <1>13

\* The first p of what is unread go, and with them the lines up to a.
Shifted(u, v, p) ==
    /\ p \in 0..Len(u) /\ v \in Seq(Int) /\ Len(v) = Len(u) - p
    /\ \A i \in 1..Len(v) : v[i] = u[p + i]
Parted(s, c, end, p, a) == a \in c..Len(s) /\ end[a] <= p /\ \A k \in (a + 1)..Len(s) : end[k] > p

LEMMA LaidDropped ==
  ASSUME NEW u \in Seq(Int), NEW s \in Seq(Lines), NEW c, NEW gone, NEW end, Laid(u, s, c, gone, end),
         NEW p, NEW v, Shifted(u, v, p), NEW a, Parted(s, c, end, p, a)
  PROVE  \E e : Laid(v, s, a, p - end[a], e)
<1>0. PICK e : e = [k \in a..Len(s) |-> end[k] - p]
  OBVIOUS
<1> USE DEF Shifted, Parted
<1>1. PICK N \in Nat, U \in Nat : N = Len(s) /\ U = Len(u)
  OBVIOUS
<1>2. /\ c \in 0..N /\ gone \in Nat /\ end \in [c..N -> Int] /\ end[N] = U
      /\ \A k \in (c + 1)..N :
           /\ end[k] = end[k - 1] + Len(s[k]) + 1 /\ end[k] > 0 /\ u[end[k]] = NL
           /\ \A j \in 1..Len(s[k]) : end[k - 1] + j > 0 => u[end[k - 1] + j] = s[k][j]
      /\ \A k, m \in c..N : k < m => end[k] < end[m]
      /\ \A i \in 1..U : u[i] = NL => \E k \in (c + 1)..N : end[k] = i
  BY <1>1 DEF Laid
<1>3. a \in 0..N /\ p \in 0..U /\ p \in Nat /\ \A k \in a..N : k \in c..N
  BY <1>1, <1>2
<1>4. e \in [a..N -> Int] /\ \A k \in a..N : e[k] = end[k] - p /\ end[k] \in Int
  <2>1. \A k \in a..N : end[k] \in Int
    BY <1>2, <1>3
  <2>2. p \in Int
    BY <1>3
  <2>3. \A k \in a..N : end[k] - p \in Int
    BY <2>1, <2>2
  <2> QED
    BY <1>0, <1>1, <2>1, <2>3
<1>5. a \in a..N /\ N \in a..N
  BY <1>3
<1>6. p - end[a] \in Nat /\ e[a] + (p - end[a]) = 0 /\ e[N] = Len(v)
  <2>1. end[a] \in Int /\ end[a] <= p /\ e[a] = end[a] - p /\ e[N] = U - p
    BY <1>2, <1>4, <1>5
  <2> QED
    BY <1>1, <1>3, <2>1
<1>7. \A k \in c..N : end[k] \in Int /\ end[k] <= U
  <2> TAKE k \in c..N
  <2>1. k < N \/ k = N
    BY <1>2
  <2> QED
    BY <1>2, <2>1
<1>8. ASSUME NEW k \in (a + 1)..N
      PROVE  /\ e[k] = e[k - 1] + Len(s[k]) + 1 /\ e[k] > 0 /\ v[e[k]] = NL
             /\ \A j \in 1..Len(s[k]) : e[k - 1] + j > 0 => v[e[k - 1] + j] = s[k][j]
  <2>1. k \in a..N /\ k - 1 \in a..N /\ k \in (c + 1)..N
    BY <1>2, <1>3
  <2>2. /\ s[k] \in Seq(Int) /\ Len(s[k]) \in Nat
        /\ end[k] \in Int /\ end[k - 1] \in Int /\ end[k] = end[k - 1] + Len(s[k]) + 1
        /\ end[k] \in 1..U /\ u[end[k]] = NL
        /\ \A j \in 1..Len(s[k]) : end[k - 1] + j > 0 =>
              end[k - 1] + j \in 1..U /\ u[end[k - 1] + j] = s[k][j]
    <3>1. EndsThere(u, s, c, end, k)
      BY <1>1, <2>1, LaidLine
    <3> QED
      BY <1>1, <3>1 DEF EndsThere
  <2>3. PICK n \in Nat, x \in Int, y \in Int : n = Len(s[k]) /\ x = end[k] /\ y = end[k - 1]
    BY <2>2
  <2>4. x = y + n + 1 /\ x > p /\ x <= U /\ e[k] = x - p /\ e[k - 1] = y - p
    BY <1>1, <1>4, <2>1, <2>2, <2>3, SMTT(20)
  <2>5. \A i \in 1..(U - p) : v[i] = u[p + i]
    BY <1>1
  <2>6. v[x - p] = NL
    <3>1. x - p \in 1..(U - p) /\ p + (x - p) = x
      BY <1>3, <2>4
    <3> QED
      BY <2>2, <2>3, <2>5, <3>1
  <2>7. ASSUME NEW j \in 1..n, y - p + j > 0 PROVE v[y - p + j] = s[k][j]
    <3>1. y - p + j \in 1..(U - p) /\ p + (y - p + j) = y + j /\ y + j > 0
      BY <1>3, <2>4, <2>7
    <3>2. v[y - p + j] = u[y + j]
      BY <2>5, <3>1
    <3>3. u[y + j] = s[k][j]
      BY <2>2, <2>3, <3>1
    <3> QED
      BY <3>2, <3>3
  <2>8. x - p = y - p + n + 1 /\ x - p > 0
    BY <1>3, <2>4
  <2> QED
    BY <2>3, <2>4, <2>6, <2>7, <2>8
<1>9. ASSUME NEW k \in a..N, NEW m \in a..N, k < m PROVE e[k] < e[m]
  <2>1. end[k] < end[m]
    BY <1>2, <1>3, <1>9
  <2>2. PICK x \in Int, y \in Int : x = end[k] /\ y = end[m]
    BY <1>4
  <2>3. e[k] = x - p /\ e[m] = y - p /\ x < y
    BY <1>4, <2>1, <2>2
  <2> QED
    BY <1>3, <2>3
<1>10. ASSUME NEW i \in 1..(U - p), v[i] = NL PROVE \E k \in (a + 1)..N : e[k] = i
  <2>1. p + i \in 1..U /\ u[p + i] = NL
    <3>1. v[i] = u[p + i]
      BY <1>1
    <3> QED
      BY <1>3, <1>10, <3>1
  <2>2. PICK k \in (c + 1)..N : end[k] = p + i
    BY <1>2, <2>1
  <2>3. k \in c..N /\ a \in c..N
    BY <1>2, <1>3, <1>5
  <2>4. end[k] > end[a]
    BY <1>2, <1>3, <1>4, <1>5, <2>2
  <2>5. k > a
    <3>1. ~(k < a)
      BY <1>2, <1>7, <2>3, <2>4
    <3>2. k # a
      BY <1>7, <2>3, <2>4
    <3> QED
      BY <1>2, <1>3, <3>1, <3>2
  <2>6. k \in (a + 1)..N /\ k \in a..N
    BY <1>2, <1>3, <2>5
  <2> QED
    BY <1>3, <1>4, <2>2, <2>6
<1>11. Laid(v, s, a, p - end[a], e)
  <2>1. Len(v) = U - p
    BY <1>1
  <2> QED
    BY <1>1, <1>3, <1>4, <1>6, <1>8, <1>9, <1>10, <2>1 DEF Laid
<1> QED
  BY <1>11

\* The lines, of the first n, that are taken; those that are counted.
FitsOf(s, n) == {i \in 1..n : Len(s[i]) <= MaxLine}
WrittenOf(s, n) == {i \in 1..n : Len(s[i]) > MaxLine \/ Strip(s[i]) # <<>>}

TakenTo(s, c, tk) ==
    /\ Len(tk) = Cardinality(FitsOf(s, c))
    /\ \A i \in FitsOf(s, c) : tk[Cardinality(FitsOf(s, i))] = Strip(s[i])

\* A line that is being discarded has been counted.
CountedTo(s, c, st, begun) ==
    /\ st["lines"] = Cardinality(WrittenOf(s, c)) + (IF begun THEN 1 ELSE 0)
    /\ st["lines"] = st["decoded"] + st["bad"] + st["overlong"] + st["unmatched"]

LEMMA OneMoreOf ==
  \A c \in Nat : \A A \in SUBSET (1..c) :
      IsFiniteSet(A) /\ Cardinality(A) \in Nat /\ Cardinality(A \cup {c + 1}) = Cardinality(A) + 1
<1> TAKE c \in Nat
<1> TAKE A \in SUBSET (1..c)
<1>1. IsFiniteSet(A)
  <2>1. IsFiniteSet(1..c)
    BY FS_Interval
  <2> QED
    BY <2>1, FS_Subset
<1>2. c + 1 \notin A
  OBVIOUS
<1> QED
  BY <1>1, <1>2, FS_CardinalityType, FS_AddElement

LEMMA FitsFurther ==
  \A s : \A c \in Nat :
      /\ FitsOf(s, c) \in SUBSET (1..c) /\ WrittenOf(s, c) \in SUBSET (1..c)
      /\ FitsOf(s, c + 1) = IF Len(s[c + 1]) <= MaxLine THEN FitsOf(s, c) \cup {c + 1} ELSE FitsOf(s, c)
      /\ WrittenOf(s, c + 1) = IF Len(s[c + 1]) > MaxLine \/ Strip(s[c + 1]) # <<>>
                               THEN WrittenOf(s, c) \cup {c + 1} ELSE WrittenOf(s, c)
<1> TAKE s
<1> TAKE c \in Nat
<1>1. \A i : i \in 1..(c + 1) <=> i \in 1..c \/ i = c + 1
  OBVIOUS
<1> QED
  BY <1>1, Zenon DEF FitsOf, WrittenOf

\* A short line is taken.
LEMMA TakenFurther ==
  ASSUME NEW s, NEW c \in Nat, NEW S, NEW tk \in Seq(S), TakenTo(s, c, tk), Strip(s[c + 1]) \in S,
         Len(s[c + 1]) <= MaxLine
  PROVE  TakenTo(s, c + 1, Append(tk, Strip(s[c + 1])))
<1>1. PICK A, n, x, w : A = FitsOf(s, c) /\ n = Cardinality(A) /\ x = Strip(s[c + 1]) /\ w = Append(tk, x)
  OBVIOUS
<1>2. A \in SUBSET (1..c) /\ IsFiniteSet(A) /\ n \in Nat /\ Cardinality(A \cup {c + 1}) = n + 1
  BY <1>1, FitsFurther, OneMoreOf
<1>3. FitsOf(s, c + 1) = A \cup {c + 1} /\ Cardinality(FitsOf(s, c + 1)) = n + 1
  BY <1>1, <1>2, FitsFurther
<1>4. Len(tk) = n /\ \A i \in A : tk[Cardinality(FitsOf(s, i))] = Strip(s[i])
  BY <1>1 DEF TakenTo
<1>5. Len(w) = n + 1 /\ w[n + 1] = x /\ \A j \in 1..n : w[j] = tk[j]
  BY <1>1, <1>4
<1>6. ASSUME NEW i \in A PROVE Cardinality(FitsOf(s, i)) \in 1..n
  <2>1. FitsOf(s, i) \subseteq A /\ i \in FitsOf(s, i)
    BY <1>1, <1>2 DEF FitsOf
  <2>2. PICK B : B = FitsOf(s, i)
    OBVIOUS
  <2>3. IsFiniteSet(B) /\ Cardinality(B) \in Nat /\ Cardinality(B) <= n
    BY <1>1, <1>2, <2>1, <2>2, FS_Subset, FS_CardinalityType
  <2>4. Cardinality(B) # 0
    BY <2>1, <2>2, <2>3, FS_EmptySet
  <2> QED
    BY <1>2, <2>2, <2>3, <2>4
<1>7. \A i \in A : w[Cardinality(FitsOf(s, i))] = Strip(s[i])
  BY <1>4, <1>5, <1>6
<1>8. w[Cardinality(FitsOf(s, c + 1))] = Strip(s[c + 1])
  BY <1>1, <1>3, <1>5
<1> QED
  BY <1>1, <1>3, <1>5, <1>7, <1>8 DEF TakenTo

\* A line that is too long is not.
LEMMA TakenWithout ==
  ASSUME NEW s, NEW c \in Nat, NEW tk, TakenTo(s, c, tk), Len(s[c + 1]) \in Nat, Len(s[c + 1]) > MaxLine
  PROVE  TakenTo(s, c + 1, tk)
<1>1. ~(Len(s[c + 1]) <= MaxLine)
  BY LinkAssumption
<1>2. FitsOf(s, c + 1) = FitsOf(s, c)
  BY <1>1, FitsFurther
<1> QED
  BY <1>2 DEF TakenTo

\* What is taken and counted is not changed by another line behind.
LEMMA FurtherLine ==
  ASSUME NEW s \in Seq(Lines), NEW l, NEW c \in 0..Len(s), NEW tk, NEW st, NEW begun
  PROVE  /\ TakenTo(s, c, tk) => TakenTo(Append(s, l), c, tk)
         /\ CountedTo(s, c, st, begun) => CountedTo(Append(s, l), c, st, begun)
<1>1. PICK w : w = Append(s, l)
  OBVIOUS
<1>2. \A i \in 1..Len(s) : w[i] = s[i]
  BY <1>1
<1>3. \A n \in 0..c : \A i \in 1..n : w[i] = s[i]
  BY <1>2
<1>4. \A n \in 0..c : FitsOf(w, n) = FitsOf(s, n) /\ WrittenOf(w, n) = WrittenOf(s, n)
  BY <1>3 DEF FitsOf, WrittenOf
<1>5. c \in 0..c /\ \A i \in FitsOf(s, c) : i \in 0..c /\ w[i] = s[i]
  <2>1. c \in Nat
    OBVIOUS
  <2> QED
    BY <1>3, <2>1 DEF FitsOf
<1>6. TakenTo(s, c, tk) => TakenTo(w, c, tk)
  BY <1>4, <1>5 DEF TakenTo
<1>7. CountedTo(s, c, st, begun) => CountedTo(w, c, st, begun)
  BY <1>4, <1>5 DEF CountedTo
<1> QED
  BY <1>1, <1>6, <1>7

\* One more line counted, and once for what became of it.
LineCounted(st, r) ==
    /\ r["lines"] = st["lines"] + 1
    /\ r["decoded"] + r["bad"] + r["overlong"] + r["unmatched"]
         = st["decoded"] + st["bad"] + st["overlong"] + st["unmatched"] + 1

LEMMA CountCounts ==
  \A st \in [Counters -> Int] : \A cause \in {"decoded", "bad", "overlong", "unmatched"} :
      LineCounted(st, Count(st, {"lines", cause}))
<1> TAKE st \in [Counters -> Int]
<1> TAKE cause \in {"decoded", "bad", "overlong", "unmatched"}
<1>1. PICK r : r = Count(st, {"lines", cause})
  OBVIOUS
<1>2. {"lines", "decoded", "bad", "overlong", "unmatched"} \subseteq Counters
  BY StatsNames
<1>3. \A n \in Counters : r[n] = (IF n \in {"lines", cause} THEN st[n] + 1 ELSE st[n])
  BY <1>1, CountIs
<1>4. PICK a \in Int, b \in Int, o \in Int, u \in Int, l \in Int :
        l = st["lines"] /\ a = st["decoded"] /\ b = st["bad"] /\ o = st["overlong"] /\ u = st["unmatched"]
  BY <1>2
<1>5. /\ r["lines"] = l + 1
      /\ r["decoded"] = IF cause = "decoded" THEN a + 1 ELSE a
      /\ r["bad"] = IF cause = "bad" THEN b + 1 ELSE b
      /\ r["overlong"] = IF cause = "overlong" THEN o + 1 ELSE o
      /\ r["unmatched"] = IF cause = "unmatched" THEN u + 1 ELSE u
  BY <1>2, <1>3, <1>4
<1>6. r["decoded"] + r["bad"] + r["overlong"] + r["unmatched"] = a + b + o + u + 1
  <2>1. CASE cause = "decoded"
    BY <1>5, <2>1
  <2>2. CASE cause = "bad"
    BY <1>5, <2>2
  <2>3. CASE cause = "overlong"
    BY <1>5, <2>3
  <2>4. CASE cause = "unmatched"
    BY <1>5, <2>4
  <2> QED
    BY <2>1, <2>2, <2>3, <2>4
<1> QED
  BY <1>1, <1>4, <1>5, <1>6 DEF LineCounted

\* The next line: counted before it ends if it is being discarded, when it ends if it is
\* too long or not blank.
LEMMA CountedFurther ==
  ASSUME NEW s, NEW c \in Nat, NEW st, CountedTo(s, c, st, FALSE),
         Len(s[c + 1]) > MaxLine \/ Strip(s[c + 1]) # <<>>, NEW r, LineCounted(st, r)
  PROVE  CountedTo(s, c + 1, r, FALSE)
<1>1. PICK n : n = Cardinality(WrittenOf(s, c))
  OBVIOUS
<1>2. n \in Nat /\ Cardinality(WrittenOf(s, c + 1)) = n + 1
  BY <1>1, FitsFurther, OneMoreOf
<1>3. st["lines"] = n + 0 /\ st["lines"] = st["decoded"] + st["bad"] + st["overlong"] + st["unmatched"]
  BY <1>1 DEF CountedTo
<1>4. r["lines"] = n + 1 + 0 /\ r["lines"] = r["decoded"] + r["bad"] + r["overlong"] + r["unmatched"]
  BY <1>2, <1>3 DEF LineCounted
<1> QED
  BY <1>2, <1>4 DEF CountedTo

LEMMA CountedBefore ==
  ASSUME NEW s, NEW c \in Nat, NEW st, CountedTo(s, c, st, TRUE), Len(s[c + 1]) > MaxLine
  PROVE  CountedTo(s, c + 1, st, FALSE)
<1>1. PICK n : n = Cardinality(WrittenOf(s, c))
  OBVIOUS
<1>2. n \in Nat /\ Cardinality(WrittenOf(s, c + 1)) = n + 1
  BY <1>1, FitsFurther, OneMoreOf, ZenonT(30)
<1>3. st["lines"] = n + 1 /\ n + 1 + 0 = n + 1
  BY <1>1, <1>2 DEF CountedTo
<1> QED
  BY <1>2, <1>3 DEF CountedTo

LEMMA CountedBegun ==
  ASSUME NEW s, NEW c \in Nat, NEW st, CountedTo(s, c, st, FALSE), NEW r, LineCounted(st, r)
  PROVE  CountedTo(s, c, r, TRUE)
<1>1. PICK n : n = Cardinality(WrittenOf(s, c))
  OBVIOUS
<1>2. n \in Nat
  BY <1>1, FitsFurther, OneMoreOf
<1>3. st["lines"] = n /\ st["lines"] = st["decoded"] + st["bad"] + st["overlong"] + st["unmatched"]
  BY <1>1, <1>2 DEF CountedTo
<1>4. r["lines"] = n + 1 /\ r["lines"] = r["decoded"] + r["bad"] + r["overlong"] + r["unmatched"]
  BY <1>2, <1>3 DEF LineCounted
<1> QED
  BY <1>1, <1>4 DEF CountedTo

LEMMA BlankUncounted ==
  ASSUME NEW s, NEW c \in Nat, NEW st, CountedTo(s, c, st, FALSE), Len(s[c + 1]) \in Nat,
         Len(s[c + 1]) <= MaxLine, Strip(s[c + 1]) = <<>>
  PROVE  CountedTo(s, c + 1, st, FALSE)
<1>1. ~(Len(s[c + 1]) > MaxLine)
  BY LinkAssumption
<1>2. WrittenOf(s, c + 1) = WrittenOf(s, c)
  BY <1>1, FitsFurther
<1> QED
  BY <1>2 DEF CountedTo

\* What is unread: the buffer, and behind it what is on the wire.
Joined(u, b, w) ==
    /\ u \in Seq(Int) /\ Len(u) = Len(b) + Len(w)
    /\ \A i \in 1..Len(b) : u[i] = b[i]
    /\ \A i \in 1..Len(w) : u[Len(b) + i] = w[i]

LEMMA JoinedIs == \A b, w \in Seq(Int) : Joined(b \o w, b, w)
BY DEF Joined

\* The buffer's first newline ends the line after those that are read.
LEMMA NextIs ==
  ASSUME LTypeOK, NextLine, NEW c, NEW gone, NEW end, Laid(lineBuf \o wire, sent, c, gone, end)
  PROVE  /\ c \in Nat /\ c + 1 \in (c + 1)..Len(sent) /\ Min(Newlines) = end[c + 1]
         /\ EndsThere(lineBuf \o wire, sent, c, end, c + 1)
<1>1. PICK u, p : u = lineBuf \o wire /\ p = Min(Newlines)
  OBVIOUS
<1>2. lineBuf \in Seq(Int) /\ wire \in Seq(Int) /\ sent \in Seq(Lines)
  BY DEF LTypeOK, NextLine
<1>3. Joined(u, lineBuf, wire)
  BY <1>1, <1>2, JoinedIs
<1>4. p \in 1..Len(lineBuf) /\ lineBuf[p] = NL /\ \A i \in 1..(p - 1) : lineBuf[i] # NL
  BY <1>1, FirstIs
<1>5. p \in 1..Len(u) /\ u[p] = NL /\ Len(u) \in Nat
  BY <1>2, <1>3, <1>4 DEF Joined
<1>6. c \in 0..Len(sent)
  BY DEF Laid
<1>7. PICK k \in (c + 1)..Len(sent) : end[k] = p
  BY <1>1, <1>5 DEF Laid
<1>8. c + 1 \in (c + 1)..Len(sent) /\ c \in Nat
  BY <1>2, <1>6, <1>7
<1>9. EndsThere(u, sent, c, end, c + 1)
  BY <1>1, <1>2, <1>5, <1>8, LaidLine
<1>10. end[c + 1] \in 1..Len(u) /\ u[end[c + 1]] = NL
  BY <1>9 DEF EndsThere
<1>11. end[c + 1] <= p
  <2>1. c + 1 = k \/ c + 1 < k
    BY <1>2, <1>6, <1>7
  <2>2. CASE c + 1 < k
    <3>1. c + 1 \in c..Len(sent) /\ k \in c..Len(sent)
      BY <1>2, <1>6, <1>7
    <3>2. end[c + 1] < end[k]
      BY <1>1, <2>2, <3>1 DEF Laid
    <3> QED
      BY <1>4, <1>7, <1>10, <3>2
  <2> QED
    BY <1>4, <1>7, <2>1, <2>2
<1>12. end[c + 1] \in 1..Len(lineBuf) /\ lineBuf[end[c + 1]] = NL
  <2>1. PICK x : x = end[c + 1]
    OBVIOUS
  <2>2. x \in 1..Len(lineBuf)
    BY <1>2, <1>4, <1>10, <1>11, <2>1
  <2>3. u[x] = lineBuf[x]
    BY <1>3, <2>2 DEF Joined
  <2> QED
    BY <1>10, <2>1, <2>2, <2>3
<1>13. end[c + 1] = p
  BY <1>2, <1>4, <1>11, <1>12
<1> QED
  BY <1>1, <1>8, <1>9, <1>13

\* Taken off the buffer, it leaves the lines behind it.
LEMMA NextLaid ==
  ASSUME LTypeOK, NextLine, UNCHANGED <<wire, sent>>,
         NEW c, NEW gone, NEW end, Laid(lineBuf \o wire, sent, c, gone, end)
  PROVE  \E e : Laid(lineBuf' \o wire', sent', c + 1, 0, e)
<1>1. PICK u, v, p, N : u = lineBuf \o wire /\ v = lineBuf' \o wire' /\ p = Min(Newlines) /\ N = Len(sent)
  OBVIOUS
<1>2. lineBuf \in Seq(Int) /\ wire \in Seq(Int) /\ sent \in Seq(Lines) /\ N \in Nat
  BY <1>1 DEF LTypeOK, NextLine
<1>3. /\ p \in 1..Len(lineBuf) /\ lineBuf' \in Seq(Int) /\ Len(lineBuf') = Len(lineBuf) - p
      /\ \A i \in 1..Len(lineBuf') : lineBuf'[i] = lineBuf[p + i]
  BY <1>1, FirstIs
<1>4. Joined(u, lineBuf, wire) /\ Joined(v, lineBuf', wire)
  BY <1>1, <1>2, <1>3, JoinedIs
<1>5. PICK B \in Nat, W \in Nat : B = Len(lineBuf) /\ W = Len(wire)
  BY <1>2
<1>6. u \in Seq(Int) /\ v \in Seq(Int) /\ Len(u) = B + W /\ Len(v) = B - p + W /\ p \in 1..B
  BY <1>3, <1>4, <1>5 DEF Joined
<1>7. ASSUME NEW i \in 1..(B - p + W) PROVE v[i] = u[p + i]
  <2>1. CASE i <= B - p
    <3>1. i \in 1..(B - p) /\ p + i \in 1..B
      BY <1>6, <1>7, <2>1
    <3> QED
      BY <1>3, <1>4, <1>5, <3>1 DEF Joined
  <2>2. CASE ~(i <= B - p)
    <3>1. PICK j \in 1..W : i = (B - p) + j
      <4>1. i - (B - p) \in 1..W /\ i = (B - p) + (i - (B - p))
        BY <1>6, <1>7, <2>2
      <4> QED
        BY <4>1
    <3>2. p + i = B + j
      BY <1>6, <3>1
    <3>3. v[(B - p) + j] = wire[j] /\ u[B + j] = wire[j]
      BY <1>3, <1>4, <1>5, <3>1 DEF Joined
    <3> QED
      BY <3>1, <3>2, <3>3
  <2> QED
    BY <2>1, <2>2
<1>8. c \in Nat /\ c + 1 \in (c + 1)..N /\ p = end[c + 1]
  BY <1>1, NextIs
<1>9. c + 1 \in c..N /\ end[c + 1] <= p
  BY <1>2, <1>6, <1>8
<1>10. \A k \in (c + 1 + 1)..N : end[k] > p
  <2> TAKE k \in (c + 1 + 1)..N
  <2>1. c + 1 \in c..N /\ k \in c..N /\ c + 1 < k
    BY <1>2, <1>8
  <2>2. end[c + 1] < end[k] /\ end[k] \in Int
    BY <1>1, <2>1 DEF Laid
  <2> QED
    BY <1>6, <1>8, <2>2
<1>12. p \in 0..Len(u) /\ Len(v) = Len(u) - p /\ \A i \in 1..Len(v) : v[i] = u[p + i]
  <2>1. PICK L \in Nat, P \in Nat, M \in Nat : L = Len(v) /\ P = p /\ M = Len(u)
    BY <1>6
  <2>2. L = B - P + W /\ M = B + W /\ P \in 1..B
    BY <1>6, <2>1
  <2>3. P \in 0..M /\ L = M - P
    BY <2>2
  <2>4. \A i \in 1..L : v[i] = u[P + i]
    BY <1>7, <2>1, <2>2, Zenon
  <2> QED
    BY <2>1, <2>3, <2>4, Zenon
<1>13. PICK e : Laid(v, sent, c + 1, p - end[c + 1], e)
  <2>1. Shifted(u, v, p)
    BY <1>6, <1>12 DEF Shifted
  <2>2. Parted(sent, c, end, p, c + 1)
    BY <1>1, <1>9, <1>10 DEF Parted
  <2>3. Laid(u, sent, c, gone, end)
    BY <1>1
  <2> QED
    BY <1>2, <1>6, <2>1, <2>2, <2>3, LaidDropped
<1>14. p - end[c + 1] = 0
  BY <1>6, <1>8
<1> QED
  BY <1>1, <1>13, <1>14

\* Nothing of it dropped, it is the line the board printed.
LEMMA FirstIsSent ==
  ASSUME LTypeOK, NextLine, NEW c, NEW end, Laid(lineBuf \o wire, sent, c, 0, end)
  PROVE  First = sent[c + 1]
<1>1. PICK u, l : u = lineBuf \o wire /\ l = sent[c + 1]
  OBVIOUS
<1>2. lineBuf \in Seq(Int) /\ wire \in Seq(Int) /\ sent \in Seq(Lines)
  BY DEF LTypeOK, NextLine
<1>3. Joined(u, lineBuf, wire)
  BY <1>1, <1>2, JoinedIs
<1>4. c \in Nat /\ Min(Newlines) = end[c + 1] /\ EndsThere(u, sent, c, end, c + 1)
  BY <1>1, NextIs
<1>5. end[c] = 0
  <2>1. end[c] + 0 = 0
    BY DEF Laid
  <2>2. c \in 0..Len(sent) /\ end \in [c..Len(sent) -> Int]
    BY DEF Laid
  <2>3. end[c] \in Int
    <3>1. c \in c..Len(sent)
      BY <1>2, <2>2
    <3> QED
      BY <2>2, <3>1
  <2> QED
    BY <2>1, <2>3
<1>6. c + 1 - 1 = c
  BY <1>4
<1>7. /\ l \in Seq(Int) /\ Len(l) \in Nat /\ end[c + 1] = Len(l) + 1
      /\ \A j \in 1..Len(l) : u[0 + j] = l[j]
  <2>1. /\ l \in Seq(Int) /\ Len(l) \in Nat /\ end[c + 1] = end[c] + Len(l) + 1
        /\ \A j \in 1..Len(l) : end[c] + j > 0 => u[end[c] + j] = l[j]
    <3>1. PICK k : k = c + 1
      OBVIOUS
    <3>2. EndsThere(u, sent, c, end, k) /\ k - 1 = c /\ l = sent[k]
      BY <1>1, <1>4, <1>6, <3>1
    <3>3. /\ sent[k] \in Seq(Int) /\ Len(sent[k]) \in Nat
          /\ end[k] = end[k - 1] + Len(sent[k]) + 1
          /\ \A j \in 1..Len(sent[k]) : end[k - 1] + j > 0 => u[end[k - 1] + j] = sent[k][j]
      BY <3>2 DEF EndsThere
    <3> QED
      BY <3>1, <3>2, <3>3, Zenon
  <2> QED
    BY <1>5, <2>1
<1>8. /\ First \in Seq(Int) /\ Len(First) = Min(Newlines) - 1 /\ \A i \in 1..Len(First) : First[i] = lineBuf[i]
      /\ Min(Newlines) \in 1..Len(lineBuf)
  BY FirstIs
<1>9. Len(First) = Len(l) /\ Len(l) < Len(lineBuf) /\ Len(lineBuf) \in Nat
  BY <1>2, <1>4, <1>7, <1>8
<1>10. \A i \in 1..Len(l) : First[i] = l[i]
  <2> TAKE i \in 1..Len(l)
  <2>1. i \in 1..Len(lineBuf) /\ 0 + i = i
    BY <1>7, <1>9
  <2>2. u[i] = lineBuf[i]
    BY <1>3, <2>1 DEF Joined
  <2>3. u[i] = l[i]
    BY <1>7, <2>1
  <2> QED
    BY <1>8, <1>9, <2>2, <2>3
<1>11. \A v, w \in Seq(Int) : Len(v) = Len(w) /\ (\A i \in 1..Len(w) : v[i] = w[i]) => v = w
  BY SMTT(20)
<1> QED
  BY <1>1, <1>7, <1>8, <1>9, <1>10, <1>11

\* The invariant: c lines have been taken and counted, and of the next one `gone` characters
\* were dropped, as it was too long already.
ReadTo(u, s, tk, st, drop, c, gone, end) ==
    /\ Laid(u, s, c, gone, end) /\ TakenTo(s, c, tk) /\ CountedTo(s, c, st, drop)
    /\ drop \in BOOLEAN /\ (drop <=> gone > 0) /\ (drop => gone > MaxLine)
AllRead(u, s, tk, st, drop) == \E c, gone, end : ReadTo(u, s, tk, st, drop, c, gone, end)
Handled(s, st) == Len(s) = st["decoded"] + st["unknown"] + st["mismatched"]
LinesInv ==
    /\ format = "text" => AllRead(lineBuf \o wire, sent, taken, linkStats, discarding)
    /\ format # "text" => Handled(sent, linkStats)

LEMMA NothingRead ==
  AllRead(<<>> \o <<>>, <<>>, <<>>, NoStats, FALSE) /\ Handled(<<>>, NoStats)
<1>1. PICK u, end : u = <<>> \o <<>> /\ end = [k \in 0..0 |-> 0]
  OBVIOUS
<1>2. u = <<>>
  BY <1>1
<1>3. Laid(u, <<>>, 0, 0, end)
  BY <1>1, <1>2, LaidNone
<1>4. FitsOf(<<>>, 0) = {} /\ WrittenOf(<<>>, 0) = {}
  <2>1. 1..0 = {}
    OBVIOUS
  <2> QED
    BY <2>1 DEF FitsOf, WrittenOf
<1>5. \A n \in Counters : NoStats[n] = 0
  BY DEF NoStats
<1>6. TakenTo(<<>>, 0, <<>>)
  <2>1. Len(<<>>) = 0
    OBVIOUS
  <2> QED
    BY <1>4, <2>1, FS_EmptySet DEF TakenTo
<1>7. /\ NoStats["lines"] = 0 /\ NoStats["decoded"] = 0 /\ NoStats["bad"] = 0 /\ NoStats["overlong"] = 0
      /\ NoStats["unmatched"] = 0 /\ NoStats["unknown"] = 0 /\ NoStats["mismatched"] = 0
  BY <1>5, StatsNames
<1>8. CountedTo(<<>>, 0, NoStats, FALSE)
  <2>1. PICK n : n = Cardinality(WrittenOf(<<>>, 0))
    OBVIOUS
  <2>2. n = 0
    BY <1>4, <2>1, FS_EmptySet
  <2>3. 0 = n + (IF FALSE THEN 1 ELSE 0) /\ 0 = 0 + 0 + 0 + 0
    BY <2>2
  <2> QED
    BY <1>7, <2>1, <2>3, Zenon DEF CountedTo
<1>9. Handled(<<>>, NoStats)
  BY <1>7 DEF Handled
<1>10. ReadTo(u, <<>>, <<>>, NoStats, FALSE, 0, 0, end)
  <2>1. FALSE \in BOOLEAN /\ ~(0 > 0)
    OBVIOUS
  <2> QED
    BY <1>3, <1>6, <1>8, <2>1, Zenon DEF ReadTo
<1> QED
  BY <1>1, <1>9, <1>10 DEF AllRead

LEMMA LinesInit == LInit => LinesInv
BY NothingRead DEF LInit, LinesInv

\* Reading moves bytes from the wire to the buffer.
LEMMA Associates == \A s, t, u \in Seq(Int) : (s \o t) \o u = s \o (t \o u)
BY ConcatAssociative

LEMMA LinesOfFeed == LTypeOK /\ LinesInv /\ Feed => LinesInv'
<1> SUFFICES ASSUME LTypeOK, LinesInv, Feed PROVE LinesInv'
  OBVIOUS
<1>1. PICK n \in 1..Len(wire) : /\ lineBuf' = lineBuf \o SubSeq(wire, 1, n)
                                /\ wire' = SubSeq(wire, n + 1, Len(wire))
  BY DEF Feed
<1>2. lineBuf \in Seq(Int) /\ wire \in Seq(Int)
  BY DEF LTypeOK
<1>3. PICK a, b : a = SubSeq(wire, 1, n) /\ b = SubSeq(wire, n + 1, Len(wire))
  OBVIOUS
<1>4. a \in Seq(Int) /\ b \in Seq(Int) /\ a \o b = wire
  <2>1. \A m \in 1..Len(wire) : /\ SubSeq(wire, 1, m) \in Seq(Int) /\ SubSeq(wire, m + 1, Len(wire)) \in Seq(Int)
                                /\ SubSeq(wire, 1, m) \o SubSeq(wire, m + 1, Len(wire)) = wire
    BY <1>2
  <2> QED
    BY <1>3, <2>1
<1>5. (lineBuf \o a) \o b = lineBuf \o (a \o b)
  <2>1. a \in Seq(Int) /\ b \in Seq(Int)
    BY <1>4
  <2> QED
    BY <1>2, <2>1, Associates, Zenon
<1>6. lineBuf' \o wire' = lineBuf \o wire
  BY <1>1, <1>3, <1>4, <1>5
<1> QED
  BY <1>6 DEF LinesInv, Feed

LEMMA LinesOfPrint == LTypeOK /\ LinesInv /\ PrintLine => LinesInv'
<1> SUFFICES ASSUME LTypeOK, LinesInv, PrintLine PROVE LinesInv'
  OBVIOUS
<1>1. PICK l \in Lines : sent' = Append(sent, l) /\ wire' = wire \o Append(l, NL)
  BY DEF PrintLine
<1>2. /\ lineBuf \in Seq(Int) /\ wire \in Seq(Int) /\ sent \in Seq(Lines) /\ format = "text"
      /\ UNCHANGED <<format, lineBuf, taken, linkStats, discarding>>
  BY DEF LTypeOK, PrintLine, decoderVars
<1>3. PICK u, q : u = lineBuf \o wire /\ q = Append(l, NL)
  OBVIOUS
<1>4. q \in Seq(Int) /\ u \in Seq(Int)
  <2>1. l \in Seq(Int) /\ NL \in Int
    BY LinkAssumption
  <2> QED
    BY <1>2, <1>3, <2>1
<1>5. lineBuf' \o wire' = u \o q
  <2>1. lineBuf \o (wire \o q) = (lineBuf \o wire) \o q
    BY <1>2, <1>4, Associates, Zenon
  <2> QED
    BY <1>1, <1>2, <1>3, <2>1
<1>6. PICK c, gone, end : ReadTo(u, sent, taken, linkStats, discarding, c, gone, end)
  BY <1>2, <1>3 DEF LinesInv, AllRead
<1>7. PICK e : Laid(u \o q, sent', c, gone, e)
  BY <1>1, <1>2, <1>3, <1>4, <1>6, LaidFurther DEF ReadTo
<1>8. c \in 0..Len(sent)
  BY <1>6 DEF ReadTo, Laid
<1>9. TakenTo(sent', c, taken) /\ CountedTo(sent', c, linkStats, discarding)
  BY <1>1, <1>2, <1>6, <1>8, FurtherLine DEF ReadTo
<1>10. ReadTo(lineBuf' \o wire', sent', taken', linkStats', discarding', c, gone, e)
  BY <1>2, <1>5, <1>6, <1>7, <1>9 DEF ReadTo
<1> QED
  BY <1>2, <1>10 DEF LinesInv, AllRead

\* A line taken off the buffer: the one before was not cut, or this is the end of one that was.
LEMMA LinesOfNext ==
  ASSUME LTypeOK, LinesInv, NextLine, UNCHANGED <<format, wire, sent>>
  PROVE  \E c \in Nat : \E e :
           /\ Laid(lineBuf' \o wire', sent', c + 1, 0, e)
           /\ TakenTo(sent, c, taken) /\ CountedTo(sent, c, linkStats, discarding)
           /\ discarding \in BOOLEAN
           /\ sent[c + 1] \in Seq(Int) /\ Len(sent[c + 1]) \in Nat
           /\ discarding => Len(sent[c + 1]) > MaxLine
           /\ ~discarding => First = sent[c + 1]
<1>1. format = "text"
  BY DEF LTypeOK, NextLine
<1>2. PICK u : u = lineBuf \o wire
  OBVIOUS
<1>3. PICK c, gone, end : ReadTo(u, sent, taken, linkStats, discarding, c, gone, end)
  BY <1>1, <1>2 DEF LinesInv, AllRead
<1>4. Laid(u, sent, c, gone, end) /\ gone \in Nat
  BY <1>3 DEF ReadTo, Laid
<1>5. PICK e : Laid(lineBuf' \o wire', sent', c + 1, 0, e)
  BY <1>2, <1>4, NextLaid
<1>6. c \in Nat /\ EndsThere(u, sent, c, end, c + 1)
  BY <1>2, <1>4, NextIs
<1>7. sent[c + 1] \in Seq(Int) /\ Len(sent[c + 1]) \in Nat
  BY <1>6 DEF EndsThere
<1>8. discarding => Len(sent[c + 1]) > MaxLine
  <2>1. PICK k : k = c + 1
    OBVIOUS
  <2>2. EndsThere(u, sent, c, end, k) /\ k - 1 = c
    BY <1>6, <2>1
  <2>3. end[k] \in Int /\ end[k - 1] \in Int /\ end[k] = end[k - 1] + Len(sent[k]) + 1 /\ end[k] \in 1..Len(u)
    BY <2>2 DEF EndsThere
  <2>4. end[k - 1] + gone = 0
    BY <1>4, <2>2 DEF Laid
  <2>5. Len(sent[k]) >= gone
    BY <1>4, <1>7, <2>1, <2>3, <2>4
  <2>6. discarding => gone > MaxLine
    BY <1>3 DEF ReadTo
  <2> QED
    BY <1>4, <1>7, <2>1, <2>5, <2>6, LinkAssumption
<1>9. ~discarding => First = sent[c + 1]
  <2>1. ~discarding => gone = 0
    BY <1>3, <1>4 DEF ReadTo
  <2> QED
    BY <1>2, <1>4, <2>1, FirstIsSent
<1> QED
  BY <1>3, <1>4, <1>5, <1>6, <1>7, <1>8, <1>9 DEF ReadTo

\* What becomes of that line.
LEMMA LinesOfLine ==
  ASSUME LTypeOK, LinesInv, NextLine, UNCHANGED <<format, wire, sent>>, discarding' = FALSE,
         \/ discarding /\ UNCHANGED <<taken, linkStats>>
         \/ ~discarding /\ Len(First) > MaxLine /\ taken' = taken /\ LineCounted(linkStats, linkStats')
         \/ /\ ~discarding /\ Len(First) <= MaxLine /\ taken' = Append(taken, Strip(First))
            /\ \/ Strip(First) = <<>> /\ linkStats' = linkStats
               \/ Strip(First) # <<>> /\ LineCounted(linkStats, linkStats')
  PROVE  LinesInv'
<1>1. PICK c \in Nat : \E e :
           /\ Laid(lineBuf' \o wire', sent', c + 1, 0, e)
           /\ TakenTo(sent, c, taken) /\ CountedTo(sent, c, linkStats, discarding)
           /\ discarding \in BOOLEAN
           /\ sent[c + 1] \in Seq(Int) /\ Len(sent[c + 1]) \in Nat
           /\ discarding => Len(sent[c + 1]) > MaxLine
           /\ ~discarding => First = sent[c + 1]
  BY LinesOfNext
<1>2. PICK e : Laid(lineBuf' \o wire', sent', c + 1, 0, e)
  BY <1>1
<1>3. /\ TakenTo(sent, c, taken) /\ CountedTo(sent, c, linkStats, discarding)
      /\ discarding \in BOOLEAN /\ sent[c + 1] \in Seq(Int) /\ Len(sent[c + 1]) \in Nat
      /\ discarding => Len(sent[c + 1]) > MaxLine
      /\ ~discarding => First = sent[c + 1]
  BY <1>1
<1>4. taken \in Seq(Seq(Int)) /\ Strip(sent[c + 1]) \in Seq(Int)
  BY <1>3, StripIsSeq DEF LTypeOK
<1>5. ~discarding => CountedTo(sent, c, linkStats, FALSE)
  <2>1. ~discarding => discarding = FALSE
    BY <1>3
  <2> QED
    BY <1>3, <2>1
<1>6. discarding => CountedTo(sent, c, linkStats, TRUE)
  <2>1. discarding => discarding = TRUE
    BY <1>3
  <2> QED
    BY <1>3, <2>1
<1>7. TakenTo(sent, c + 1, taken') /\ CountedTo(sent, c + 1, linkStats', FALSE)
  <2>1. CASE discarding /\ UNCHANGED <<taken, linkStats>>
    <3>1. Len(sent[c + 1]) > MaxLine
      BY <1>3, <2>1
    <3>2. TakenTo(sent, c + 1, taken)
      BY <1>3, <3>1, TakenWithout
    <3>3. CountedTo(sent, c + 1, linkStats, FALSE)
      BY <1>6, <2>1, <3>1, CountedBefore
    <3> QED
      BY <2>1, <3>2, <3>3
  <2>2. CASE ~discarding /\ Len(First) > MaxLine /\ taken' = taken /\ LineCounted(linkStats, linkStats')
    <3>1. Len(sent[c + 1]) > MaxLine
      BY <1>3, <2>2
    <3>2. TakenTo(sent, c + 1, taken)
      BY <1>3, <3>1, TakenWithout
    <3>3. CountedTo(sent, c + 1, linkStats', FALSE)
      BY <1>5, <2>2, <3>1, CountedFurther
    <3> QED
      BY <2>2, <3>2, <3>3
  <2>3. CASE /\ ~discarding /\ Len(First) <= MaxLine /\ taken' = Append(taken, Strip(First))
             /\ \/ Strip(First) = <<>> /\ linkStats' = linkStats
                \/ Strip(First) # <<>> /\ LineCounted(linkStats, linkStats')
    <3>1. First = sent[c + 1] /\ Len(sent[c + 1]) <= MaxLine
      BY <1>3, <2>3
    <3>2. TakenTo(sent, c + 1, taken')
      <4>1. TakenTo(sent, c + 1, Append(taken, Strip(sent[c + 1])))
        BY <1>3, <1>4, <3>1, TakenFurther
      <4> QED
        BY <2>3, <3>1, <4>1
    <3>3. CASE Strip(First) = <<>> /\ linkStats' = linkStats
      <4>1. CountedTo(sent, c + 1, linkStats, FALSE)
        BY <1>3, <1>5, <2>3, <3>1, <3>3, BlankUncounted
      <4> QED
        BY <3>2, <3>3, <4>1
    <3>4. CASE Strip(First) # <<>> /\ LineCounted(linkStats, linkStats')
      <4>1. CountedTo(sent, c + 1, linkStats', FALSE)
        BY <1>5, <2>3, <3>1, <3>4, CountedFurther
      <4> QED
        BY <3>2, <4>1
    <3> QED
      BY <2>3, <3>3, <3>4
  <2> QED
    BY <2>1, <2>2, <2>3
<1>8. ReadTo(lineBuf' \o wire', sent', taken', linkStats', FALSE, c + 1, 0, e)
  <2>1. FALSE \in BOOLEAN /\ ~(0 > 0) /\ sent' = sent
    OBVIOUS
  <2> QED
    BY <1>2, <1>7, <2>1, Zenon DEF ReadTo
<1>9. format = "text" /\ format' = "text"
  BY DEF LTypeOK, NextLine
<1> QED
  BY <1>8, <1>9 DEF LinesInv, AllRead

\* What tracking a counter leaves alone.
LEMMA MatchedCounted == LTypeOK /\ MatchedLine => LineCounted(linkStats, linkStats')
<1> SUFFICES ASSUME LTypeOK, MatchedLine PROVE LineCounted(linkStats, linkStats')
  OBVIOUS
<1>0. linkStats \in [Counters -> Int]
  BY DEF LTypeOK
<1>1. PICK s \in TextStreams :
           \/ linkStats' = Count(linkStats, {"lines", "bad"})
           \/ linkStats' = Count(linkStats, {"lines", "decoded"})
           \/ \E value \in Int : linkStats' = TrackCounter(Count(linkStats, {"lines", "decoded"}),
                         [u \in {<<s.key>>} |-> <<<<last[<<s.key>>], s.step>>, <<value, s.step>>>>])
  BY MatchedIs
<1>2. CASE linkStats' = Count(linkStats, {"lines", "bad"}) \/ linkStats' = Count(linkStats, {"lines", "decoded"})
  BY <1>0, <1>2, CountCounts
<1>3. ASSUME NEW value \in Int, linkStats' = TrackCounter(Count(linkStats, {"lines", "decoded"}),
                         [u \in {<<s.key>>} |-> <<<<last[<<s.key>>], s.step>>, <<value, s.step>>>>])
      PROVE  LineCounted(linkStats, linkStats')
  <2>1. PICK t, d, runs : /\ t = <<s.key>> /\ d = Count(linkStats, {"lines", "decoded"})
                          /\ runs = [u \in {t} |-> <<<<last[t], s.step>>, <<value, s.step>>>>]
    OBVIOUS
  <2>2. t \in Tracks /\ s.step \in Nat \ {0}
    BY <2>1, StreamsAssumption DEF Tracks
  <2>3. <<last[t], s.step>> \in Entries /\ <<value, s.step>> \in Entries
    BY <2>2 DEF LTypeOK, Entries
  <2>4. runs \in [{t} -> Seq(Entries)]
    <3>1. \A x, y \in Entries : <<x, y>> \in Seq(Entries)
      OBVIOUS
    <3> QED
      BY <2>1, <2>3, <3>1
  <2>5. d \in [Counters -> Int] /\ LineCounted(linkStats, d)
    BY <1>0, <2>1, CountIs, CountCounts
  <2>6. Tracking(d, {t}, runs)
    BY <2>4, <2>5, FS_Singleton DEF Tracking
  <2>7. TrackedStats(d, {t}, runs, linkStats')
    BY <1>3, <2>1, <2>6, TrackedStatsAre
  <2>8. {"lines", "decoded", "bad", "overlong", "unmatched"} \subseteq Counters \ {"gaps", "missing", "resets"}
    BY StatsNames
  <2>9. \A n \in {"lines", "decoded", "bad", "overlong", "unmatched"} : linkStats'[n] = d[n]
    BY <2>7, <2>8 DEF TrackedStats
  <2> QED
    BY <2>5, <2>9 DEF LineCounted
<1> QED
  BY <1>1, <1>2, <1>3

\* A batch: each frame is counted once.
LEMMA LinesOfBatch == LTypeOK /\ LinesInv /\ Route => LinesInv'
<1> SUFFICES ASSUME LTypeOK, LinesInv, Route PROVE LinesInv'
  OBVIOUS
<1>1. PICK batch \in Seq(Frames), T \in SUBSET Tracks, dropped \in [Counters -> Int] :
           /\ format = "binary" /\ sent' = sent \o batch
           /\ dropped["decoded"] + dropped["unknown"] + dropped["mismatched"]
                = linkStats["decoded"] + linkStats["unknown"] + linkStats["mismatched"] + Len(batch)
           /\ \A t \in T : Values(batch, t) \in Seq(Entries)
           /\ linkStats' = TrackCounter(dropped, [t \in T |-> <<<<last[t], 1>>>> \o Values(batch, t)])
  BY RouteIs
<1>2. PICK runs : runs = [t \in T |-> <<<<last[t], 1>>>> \o Values(batch, t)]
  OBVIOUS
<1>3. runs \in [T -> Seq(Entries)]
  <2>1. \A a \in Int, v \in Seq(Entries) : <<<<a, 1>>>> \o v \in Seq(Entries)
    BY DEF Entries
  <2>2. \A t \in T : last[t] \in Int
    BY DEF LTypeOK
  <2> QED
    BY <1>1, <1>2, <2>1, <2>2
<1>4. Tracking(dropped, T, runs)
  BY <1>3, TracksAssumption, FS_Subset DEF Tracking
<1>5. TrackedStats(dropped, T, runs, linkStats')
  BY <1>1, <1>2, <1>4, TrackedStatsAre
<1>6. \A n \in {"decoded", "unknown", "mismatched"} : linkStats'[n] = dropped[n]
  <2>1. {"decoded", "unknown", "mismatched"} \subseteq Counters \ {"gaps", "missing", "resets"}
    BY StatsNames
  <2> QED
    BY <1>5, <2>1 DEF TrackedStats
<1>7. format' = "binary" /\ format = "binary"
  BY <1>1 DEF Route
<1>8. Len(sent') = Len(sent) + Len(batch)
  <2>1. sent \in Seq(Frames)
    BY <1>7 DEF LTypeOK
  <2> QED
    BY <1>1, <2>1
<1>9. Len(sent) = linkStats["decoded"] + linkStats["unknown"] + linkStats["mismatched"]
  BY <1>7 DEF LinesInv, Handled
<1>10. Len(sent') = linkStats'["decoded"] + linkStats'["unknown"] + linkStats'["mismatched"]
  BY <1>1, <1>6, <1>8, <1>9
<1> QED
  BY <1>7, <1>10 DEF LinesInv, Handled

\* A read that ends within a line: if that is too long by now, it is dropped, and counted
\* the first time.
LEMMA LinesOfEnd == LTypeOK /\ LinesInv /\ EndFeed => LinesInv'
<1> SUFFICES ASSUME LTypeOK, LinesInv, EndFeed PROVE LinesInv'
  OBVIOUS
<1>1. /\ lineBuf \in Seq(Int) /\ wire \in Seq(Int) /\ sent \in Seq(Lines) /\ format = "text"
      /\ Newlines = {} /\ linkStats \in [Counters -> Int]
      /\ UNCHANGED <<format, wire, sent, taken>>
  BY DEF LTypeOK, EndFeed, linkVars
<1>2. PICK u : u = lineBuf \o wire
  OBVIOUS
<1>3. PICK c, gone, end : ReadTo(u, sent, taken, linkStats, discarding, c, gone, end)
  BY <1>1, <1>2 DEF LinesInv, AllRead
<1>4. CASE ~(Len(lineBuf) > MaxLine)
  <2>1. UNCHANGED <<lineBuf, discarding, linkStats>>
    BY <1>4 DEF EndFeed
  <2> QED
    BY <1>1, <2>1 DEF LinesInv
<1>5. CASE Len(lineBuf) > MaxLine
  <2>1. lineBuf' = <<>> /\ discarding' = TRUE
    BY <1>5 DEF EndFeed, DiscardRest
  <2>2. IF discarding THEN linkStats' = linkStats ELSE linkStats' = Count(linkStats, {"lines", "overlong"})
    BY <1>5 DEF EndFeed, CountOverlong
  <2>3. PICK B \in Nat : B = Len(lineBuf)
    BY <1>1
  <2>4. Joined(u, lineBuf, wire)
    BY <1>1, <1>2, JoinedIs
  <2>5. <<>> \o wire = wire /\ u \in Seq(Int) /\ Len(u) = B + Len(wire) /\ Len(wire) \in Nat
    BY <1>1, <2>3, <2>4 DEF Joined
  <2>6. Shifted(u, wire, B)
    BY <1>1, <2>3, <2>4, <2>5 DEF Shifted, Joined
  <2>7. Laid(u, sent, c, gone, end)
    BY <1>3 DEF ReadTo
  <2>8. c \in 0..Len(sent) /\ gone \in Nat /\ end \in [c..Len(sent) -> Int] /\ end[c] + gone = 0
    BY <2>7 DEF Laid
  <2>9. c \in c..Len(sent) /\ c \in Nat
    BY <1>1, <2>8
  <2>10. PICK g \in Int : g = end[c]
    BY <2>8, <2>9
  <2>11. g + gone = 0 /\ g <= B /\ B - g = B + gone /\ B - g > MaxLine /\ B - g > 0
    BY <1>5, <2>3, <2>8, <2>10, LinkAssumption
  <2>12. \A k \in (c + 1)..Len(sent) : end[k] > B
    <3> TAKE k \in (c + 1)..Len(sent)
    <3>1. EndsThere(u, sent, c, end, k)
      BY <1>1, <2>5, <2>7, LaidLine
    <3>2. PICK x : x = end[k]
      OBVIOUS
    <3>3. x \in 1..(B + Len(wire)) /\ u[x] = NL
      BY <2>5, <3>1, <3>2 DEF EndsThere
    <3>4. ~(x \in 1..B)
      <4>1. x \in 1..B => lineBuf[x] = NL
        BY <2>3, <2>4, <3>3 DEF Joined
      <4> QED
        BY <1>1, <2>3, <4>1 DEF Newlines
    <3> QED
      BY <2>5, <3>2, <3>3, <3>4
  <2>13. Parted(sent, c, end, B, c)
    BY <2>9, <2>10, <2>11, <2>12 DEF Parted
  <2>14. PICK e : Laid(wire, sent, c, B - g, e)
    BY <1>1, <2>5, <2>6, <2>7, <2>10, <2>13, LaidDropped
  <2>15. CountedTo(sent, c, linkStats', TRUE)
    <3>1. discarding \in BOOLEAN /\ CountedTo(sent, c, linkStats, discarding)
      BY <1>3 DEF ReadTo
    <3>2. CASE discarding = TRUE
      BY <2>2, <3>1, <3>2
    <3>3. CASE discarding = FALSE
      <4>1. LineCounted(linkStats, linkStats')
        BY <1>1, <2>2, <3>3, CountCounts
      <4>2. CountedTo(sent, c, linkStats, FALSE)
        BY <3>1, <3>3
      <4> QED
        BY <2>9, <4>1, <4>2, CountedBegun
    <3> QED
      BY <3>1, <3>2, <3>3
  <2>16. ReadTo(lineBuf' \o wire', sent', taken', linkStats', TRUE, c, B - g, e)
    <3>1. lineBuf' \o wire' = wire /\ sent' = sent /\ taken' = taken
      BY <1>1, <2>1, <2>5
    <3>2. TakenTo(sent, c, taken) /\ TRUE \in BOOLEAN
      BY <1>3 DEF ReadTo
    <3> QED
      BY <2>11, <2>14, <2>15, <3>1, <3>2, Zenon DEF ReadTo
  <2> QED
    BY <1>1, <2>1, <2>16 DEF LinesInv, AllRead
<1> QED
  BY <1>4, <1>5

LEMMA LinesStep == LTypeOK /\ LinesInv /\ [LNext]_lvars => LinesInv'
<1> SUFFICES ASSUME LTypeOK, LinesInv, [LNext]_lvars PROVE LinesInv'
  OBVIOUS
<1>0. linkStats \in [Counters -> Int]
  BY DEF LTypeOK
<1>1. CASE EndOfOverlong
  <2>1. NextLine /\ discarding /\ discarding' = FALSE /\ UNCHANGED <<format, wire, sent, taken, linkStats>>
    BY <1>1 DEF EndOfOverlong, linkVars
  <2> QED
    BY <2>1, LinesOfLine
<1>2. CASE Overlong
  <2>1. /\ NextLine /\ ~discarding /\ Len(First) > MaxLine /\ UNCHANGED <<format, discarding, wire, sent, taken>>
        /\ linkStats' = Count(linkStats, {"lines", "overlong"})
    BY <1>2 DEF Overlong, linkVars
  <2>2. LineCounted(linkStats, linkStats')
    BY <1>0, <2>1, CountCounts
  <2>3. discarding' = FALSE
    BY <2>1 DEF LTypeOK
  <2> QED
    BY <2>1, <2>2, <2>3, LinesOfLine
<1>3. CASE ShortLine /\ UNCHANGED <<format, discarding, wire, sent>>
           /\ \/ Strip(First) = <<>> /\ linkStats' = linkStats
              \/ Strip(First) # <<>> /\ LineCounted(linkStats, linkStats')
  <2>1. NextLine /\ ~discarding /\ Len(First) <= MaxLine /\ taken' = Append(taken, Strip(First))
    BY <1>3 DEF ShortLine
  <2>2. discarding' = FALSE
    BY <1>3, <2>1 DEF LTypeOK
  <2> QED
    BY <1>3, <2>1, <2>2, LinesOfLine
<1>4. CASE BlankLine
  BY <1>3, <1>4 DEF BlankLine
<1>5. CASE MatchedLine
  <2>1. LineCounted(linkStats, linkStats')
    BY <1>5, MatchedCounted
  <2>2. ShortLine /\ Strip(First) # <<>> /\ UNCHANGED <<format, discarding, wire, sent>>
    BY <1>5, Zenon DEF MatchedLine
  <2> QED
    BY <1>3, <2>1, <2>2
<1>6. CASE Reply
  <2>1. ShortLine /\ Strip(First) # <<>> /\ UNCHANGED <<format, discarding, wire, sent>>
    BY <1>6 DEF Reply
  <2>2. LineCounted(linkStats, linkStats')
    BY <1>0, <1>6, CountCounts DEF Reply
  <2> QED
    BY <1>3, <2>1, <2>2
<1>7. CASE Configure \/ EmitLinkStats \/ UNCHANGED lvars
  <2>1. UNCHANGED <<format, lineBuf, wire, sent, taken, linkStats, discarding>>
    BY <1>7 DEF Configure, EmitLinkStats, lvars, decoderVars, linkVars
  <2> QED
    BY <2>1 DEF LinesInv
<1>8. CASE Start
  <2>1. /\ lineBuf' = <<>> /\ wire' = <<>> /\ sent' = <<>> /\ taken' = <<>> /\ linkStats' = NoStats
        /\ discarding' = FALSE
    BY <1>8 DEF Start
  <2> QED
    BY <2>1, NothingRead DEF LinesInv
<1> QED
  BY <1>1, <1>2, <1>4, <1>5, <1>6, <1>7, <1>8, LinesOfPrint, LinesOfFeed, LinesOfEnd, LinesOfBatch, Zenon DEF LNext

\* Between reads the lines that are left end on the wire.
LEMMA LineBehind ==
  ASSUME LTypeOK, format = "text", Newlines = {},
         NEW c, NEW gone, NEW end, Laid(lineBuf \o wire, sent, c, gone, end), NEW k \in (c + 1)..Len(sent)
  PROVE  /\ end[k] \in Int /\ end[k] - Len(lineBuf) \in 1..Len(wire) /\ wire[end[k] - Len(lineBuf)] = NL
         /\ k \in c..Len(sent)
<1>1. lineBuf \in Seq(Int) /\ wire \in Seq(Int) /\ sent \in Seq(Lines)
  BY DEF LTypeOK
<1>0. PICK u : u = lineBuf \o wire
  OBVIOUS
<1>2. PICK B \in Nat, W \in Nat : u = lineBuf \o wire /\ B = Len(lineBuf) /\ W = Len(wire)
  BY <1>0, <1>1
<1>3. Joined(u, lineBuf, wire)
  BY <1>1, <1>2, JoinedIs
<1>4. u \in Seq(Int) /\ Len(u) = B + W
  BY <1>2, <1>3 DEF Joined
<1>5. EndsThere(u, sent, c, end, k)
  <2>1. Laid(u, sent, c, gone, end) /\ Len(u) \in Nat
    BY <1>2, <1>4
  <2> QED
    BY <1>1, <2>1, LaidLine
<1>6. PICK x \in Int : x = end[k]
  BY <1>5 DEF EndsThere
<1>7. x \in 1..(B + W) /\ u[x] = NL /\ k \in c..Len(sent)
  BY <1>4, <1>5, <1>6 DEF EndsThere
<1>8. ~(x \in 1..B)
  <2>1. x \in 1..B => lineBuf[x] = NL
    BY <1>2, <1>3, <1>7 DEF Joined
  <2> QED
    BY <1>2, <2>1 DEF Newlines
<1>9. x - B \in 1..W /\ B + (x - B) = x
  BY <1>7, <1>8
<1>10. wire[x - B] = NL
  <2>1. u[B + (x - B)] = wire[x - B]
    BY <1>2, <1>3, <1>9 DEF Joined
  <2> QED
    BY <1>7, <1>9, <2>1
<1> QED
  BY <1>2, <1>6, <1>7, <1>9, <1>10

\* So their newlines can be counted there, and the first of them measured.
LEMMA LeftOnWire ==
  ASSUME LTypeOK, format = "text", ~feeding, NEW c, NEW gone, NEW end, Laid(lineBuf \o wire, sent, c, gone, end)
  PROVE  c \in Nat /\ Complete = c /\ PartRead = gone + Len(lineBuf)
<1> DEFINE W == {i \in 1..Len(wire) : wire[i] = NL}
<1>0. lineBuf \in Seq(Int) /\ wire \in Seq(Int) /\ sent \in Seq(Lines) /\ Newlines = {}
  BY DEF LTypeOK
<1>20. PICK N \in Nat, B \in Nat : N = Len(sent) /\ B = Len(lineBuf)
  BY <1>0
<1>1. /\ lineBuf \in Seq(Int) /\ wire \in Seq(Int) /\ sent \in Seq(Lines) /\ Newlines = {}
      /\ B \in Nat /\ N \in Nat /\ Len(wire) \in Nat /\ N = Len(sent) /\ B = Len(lineBuf)
  BY <1>0, <1>20
<1>2. PICK u : u = lineBuf \o wire
  OBVIOUS
<1>3. Joined(u, lineBuf, wire) /\ u \in Seq(Int) /\ Len(u) = B + Len(wire)
  BY <1>1, <1>2, JoinedIs DEF Joined
<1>4. /\ c \in 0..N /\ gone \in Nat /\ end \in [c..N -> Int] /\ end[c] + gone = 0 /\ end[N] = B + Len(wire)
      /\ \A k, m \in c..N : k < m => end[k] < end[m]
      /\ \A i \in 1..Len(u) : u[i] = NL => \E k \in (c + 1)..N : end[k] = i
  <2>1. Laid(u, sent, c, gone, end) /\ Len(sent) = N
    BY <1>1, <1>2
  <2> QED
    BY <1>1, <1>3, <2>1 DEF Laid
<1>5. \A k \in (c + 1)..N : /\ end[k] \in Int /\ end[k] - B \in 1..Len(wire) /\ wire[end[k] - B] = NL
                            /\ k \in c..N
  BY <1>1, LineBehind
<1>6. \A i \in W : \E k \in (c + 1)..N : end[k] = B + i
  <2> TAKE i \in W
  <2>1. i \in 1..Len(wire) /\ wire[i] = NL
    OBVIOUS
  <2>2. u[B + i] = NL /\ B + i \in 1..Len(u)
    <3>1. u[B + i] = wire[i]
      BY <1>1, <1>3, <2>1 DEF Joined
    <3> QED
      BY <1>1, <1>3, <2>1, <3>1
  <2> QED
    BY <1>4, <2>2
<1>7. Cardinality(W) = N - c
  <2> DEFINE S == (c + 1)..N
             f == [k \in S |-> end[k] - B]
  <2>1. f \in [S -> W]
    BY <1>5
  <2>2. \A k, m \in S : f[k] = f[m] => k = m
    <3> SUFFICES ASSUME NEW k \in S, NEW m \in S, f[k] = f[m] PROVE k = m
      OBVIOUS
    <3>1. PICK x \in Int, y \in Int : x = end[k] /\ y = end[m] /\ k \in c..N /\ m \in c..N
      BY <1>5
    <3>2. x - B = y - B
      BY <3>1
    <3>3. x = y
      BY <1>1, <3>2
    <3>4. (k < m => x < y) /\ (m < k => y < x)
      BY <1>4, <3>1
    <3>5. ~(k < m) /\ ~(m < k)
      BY <3>3, <3>4
    <3> QED
      BY <1>1, <1>4, <3>5
  <2>3. \A i \in W : \E k \in S : f[k] = i
    <3> TAKE i \in W
    <3>1. PICK k \in S : end[k] = B + i
      BY <1>6
    <3>2. f[k] = i
      BY <1>1, <3>1
    <3> QED
      BY <3>2
  <2>4. IsFiniteSet(S) /\ Cardinality(S) = N - c
    <3>1. c + 1 \in Int /\ N \in Int /\ (c + 1 > N => N - c = 0) /\ N - (c + 1) + 1 = N - c
      BY <1>1, <1>4
    <3> QED
      BY <3>1, FS_Interval
  <2> HIDE DEF f, S, W
  <2>5. f \in Surjection(S, W) /\ f \in Injection(S, W)
    BY <2>1, <2>2, <2>3 DEF Surjection, Injection, IsInjective
  <2>6. Cardinality(W) = Cardinality(S)
    BY <2>4, <2>5, FS_Surjection
  <2> QED
    BY <2>4, <2>6
<1>8. Complete = c
  <2>1. Complete = N - Cardinality(W)
    BY <1>1 DEF Complete
  <2> HIDE DEF W
  <2> QED
    BY <1>1, <1>4, <1>7, <2>1
<1>9. c \in c..N /\ N \in c..N /\ c \in Nat
  BY <1>1, <1>4
<1>10. CASE wire = <<>>
  <2>1. PartRead = 0 /\ Len(wire) = 0
    BY <1>10 DEF PartRead
  <2>2. c = N
    <3>1. ~(c + 1 \in (c + 1)..N)
      BY <1>5, <2>1
    <3> QED
      BY <1>1, <1>4, <3>1
  <2>3. end[c] = B + 0
    BY <1>4, <2>1, <2>2
  <2> QED
    BY <1>1, <1>4, <1>8, <1>9, <2>1, <2>3
<1>11. CASE wire # <<>>
  <2>1. Len(wire) > 0
    BY <1>1, <1>11
  <2>2. c # N
    BY <1>1, <1>4, <2>1
  <2>3. PICK k : k = c + 1
    OBVIOUS
  <2>4. k \in (c + 1)..N /\ k - 1 = c
    BY <1>1, <1>4, <2>2, <2>3
  <2>5. EndsThere(u, sent, c, end, k)
    <3>1. Laid(u, sent, c, gone, end) /\ Len(u) \in Nat
      BY <1>1, <1>2, <1>3
    <3> QED
      BY <1>1, <2>4, <3>1, LaidLine
  <2>6. PICK x \in Int, y \in Int, l \in Nat :
          x = end[k] /\ y = end[c] /\ l = Len(sent[k]) /\ x = y + l + 1 /\ x - B \in 1..Len(wire) /\ wire[x - B] = NL
    BY <1>5, <2>4, <2>5 DEF EndsThere
  <2>7. Min(W) = x - B
    <3>1. x - B \in W /\ W \subseteq Nat
      BY <2>6
    <3>2. \A i \in W : x - B <= i
      <4> TAKE i \in W
      <4>1. PICK m \in (c + 1)..N : end[m] = B + i
        BY <1>6
      <4>2. m \in c..N /\ k \in c..N /\ (m = k \/ k < m)
        BY <1>1, <1>4, <2>3, <2>4
      <4>3. x <= B + i
        <5>1. CASE m = k
          <6>1. x = B + i
            BY <2>6, <4>1, <5>1
          <6> QED
            BY <2>6, <6>1
        <5>2. CASE k < m
          <6>1. end[k] < end[m]
            BY <1>4, <4>2, <5>2
          <6>2. x < B + i
            BY <2>6, <4>1, <6>1
          <6>3. B + i \in Int
            BY <1>1
          <6> QED
            BY <2>6, <6>2, <6>3
        <5> QED
          BY <4>2, <5>1, <5>2
      <4> QED
        BY <1>1, <2>6, <4>3
    <3> HIDE DEF W
    <3>3. Min(W) \in W /\ \A i \in W : Min(W) <= i
      BY <3>1, MinIn
    <3>4. Min(W) <= x - B /\ x - B <= Min(W) /\ Min(W) \in Nat
      BY <3>1, <3>2, <3>3
    <3> QED
      BY <1>1, <3>4
  <2>8. PartRead = Len(sent[c + 1]) + 1 - Min(W)
    BY <1>8, <1>11 DEF PartRead
  <2> HIDE DEF W
  <2>9. PartRead = l + 1 - (x - B)
    BY <2>3, <2>6, <2>7, <2>8
  <2>10. y + gone = 0
    BY <1>4, <2>6
  <2> QED
    <3>1. gone \in Nat /\ x = y + l + 1
      BY <1>4, <2>6
    <3>2. PartRead = gone + B
      BY <1>1, <2>9, <2>10, <3>1
    <3> QED
      BY <1>1, <1>8, <1>9, <3>2
<1> QED
  BY <1>10, <1>11

LEMMA LinesShown == LTypeOK /\ LinesInv => LinesAreTakenAndCounted
<1> SUFFICES ASSUME LTypeOK, LinesInv PROVE LinesAreTakenAndCounted
  OBVIOUS
<1>1. CASE format # "text"
  BY <1>1 DEF LinesInv, Handled, LinesAreTakenAndCounted, LinesAreThoseSent, NothingIsDroppedSilently
<1>2. CASE format = "text" /\ feeding
  BY <1>2 DEF LinesAreTakenAndCounted, LinesAreThoseSent, NothingIsDroppedSilently
<1>3. CASE format = "text" /\ ~feeding
  <2>1. PICK c, gone, end : ReadTo(lineBuf \o wire, sent, taken, linkStats, discarding, c, gone, end)
    BY <1>3 DEF LinesInv, AllRead
  <2>2. Laid(lineBuf \o wire, sent, c, gone, end) /\ gone \in Nat
    BY <2>1 DEF ReadTo, Laid
  <2>3. c \in Nat /\ Complete = c /\ PartRead = gone + Len(lineBuf)
    BY <1>3, <2>2, LeftOnWire
  <2>4. Len(lineBuf) \in Nat /\ Len(lineBuf) <= MaxLine /\ MaxLine \in Nat
    BY <1>3, LinkAssumption DEF LTypeOK
  <2>5. discarding <=> PartRead > MaxLine
    <3>1. (discarding <=> gone > 0) /\ (discarding => gone > MaxLine)
      BY <2>1 DEF ReadTo
    <3> QED
      BY <2>2, <2>3, <2>4, <3>1
  <2>6. \A n : Fits(n) = FitsOf(sent, n)
    BY DEF Fits, FitsOf
  <2>7. LinesAreThoseSent
    <3>1. TakenTo(sent, c, taken)
      BY <2>1 DEF ReadTo
    <3> QED
      BY <2>3, <2>6, <3>1 DEF TakenTo, LinesAreThoseSent
  <2>8. NothingIsDroppedSilently
    <3>1. CountedTo(sent, c, linkStats, discarding)
      BY <2>1 DEF ReadTo
    <3>2. (IF discarding THEN 1 ELSE 0) = (IF PartRead > MaxLine THEN 1 ELSE 0)
      BY <2>5
    <3>3. /\ linkStats["lines"] = Cardinality(WrittenOf(sent, c)) + (IF PartRead > MaxLine THEN 1 ELSE 0)
          /\ linkStats["lines"] = linkStats["decoded"] + linkStats["bad"] + linkStats["overlong"] + linkStats["unmatched"]
      BY <3>1, <3>2, Zenon DEF CountedTo
    <3>4. WrittenOf(sent, c) = {i \in 1..Complete : Len(sent[i]) > MaxLine \/ Strip(sent[i]) # <<>>}
      BY <2>3 DEF WrittenOf
    <3> QED
      BY <1>3, <3>3, <3>4, Zenon DEF NothingIsDroppedSilently
  <2> QED
    BY <2>7, <2>8 DEF LinesAreTakenAndCounted
<1> QED
  BY <1>1, <1>2, <1>3

\* However the reads cut them, the lines matched against the patterns are those the board
\* printed and that are not too long, in order; each line or frame is counted once, and once
\* for what became of it.
THEOREM LinesTaken == LSpec => []LinesAreTakenAndCounted
<1> DEFINE I == LTypeOK /\ LinesInv
<1>1. LInit => I
  BY InitTyped, LinesInit
<1>2. I /\ [LNext]_lvars => I'
  BY StepTyped, LinesStep
<1>3. I => LinesAreTakenAndCounted
  BY LinesShown
<1> QED
  BY <1>1, <1>2, <1>3, PTL DEF LSpec

----------------------------------------------------------------------------
(* The frame parser. *)

USE ParserAssumption DEF Bytes, HeaderLen, MinFrameLen, MaxFrameLen

\* Dropping bytes from the front of rx_buffer leaves bytes, as many fewer.
LEMMA DropType ==
  ASSUME buf \in Seq(Bytes), NEW n \in 0..Len(buf), Drop(n)
  PROVE  buf' \in Seq(Bytes) /\ Len(buf') = Len(buf) - n
BY SubSeqProperties DEF Drop

\* The byte counters: nothing is counted that was not received, or twice.
Counted ==
    /\ discarded + payloadErrors + Len(buf) <= bytesRx
    /\ headerErrors <= discarded

\* The part of the types that no counter needs.
Typed ==
    /\ pc \in {"idle", "frames"} /\ buf \in Seq(Bytes) /\ stream \in Seq(Bytes)
    /\ discarded \in Nat /\ headerErrors \in Nat /\ payloadErrors \in Nat
    /\ frames \in Seq(FrameRecords) /\ bad \in Seq(FrameRecords)
    /\ bytesRx = Len(stream)

Inv == Typed /\ Counted

\* The lengths of the buffer and the stream are numbers.
LEMMA Lengths == Typed => Len(buf) \in Nat /\ Len(stream) \in Nat /\ bytesRx \in Nat
BY DEF Typed

\* What the counters bound, TypeOK asks for.
LEMMA InvType == Inv => TypeOK
BY Lengths DEF Inv, Typed, Counted, TypeOK

\* add_data: the chunk is counted and joins the buffer.
LEMMA AddDataInv ==
  ASSUME Inv, NEW chunk \in Seq(Bytes), AddData(chunk)
  PROVE  Inv'
<1>1. /\ buf' \in Seq(Bytes) /\ Len(buf') = Len(buf) + Len(chunk)
      /\ stream' \in Seq(Bytes) /\ Len(stream') = Len(stream) + Len(chunk)
  BY ConcatProperties DEF AddData, Inv, Typed
<1>2. Len(chunk) \in Nat
  OBVIOUS
<1>3. Typed'
  BY <1>1 DEF AddData, Inv, Typed
<1>4. Counted'
  BY <1>1, <1>2, Lengths DEF AddData, Inv, Typed, Counted
<1> QED
  BY <1>3, <1>4 DEF Inv

\* Bytes dropped for no frame are counted as discarded, and a wrong header is one of them.
LEMMA DiscardInv ==
  ASSUME Inv, NEW n \in 0..Len(buf), Discard(n), UNCHANGED stream, pc' \in {"idle", "frames"},
         headerErrors' = headerErrors \/ (n = 1 /\ headerErrors' = headerErrors + 1)
  PROVE  Inv'
<1>1. buf' \in Seq(Bytes) /\ Len(buf') = Len(buf) - n
  BY DropType DEF Discard, Inv, Typed
<1>2. n \in Nat
  BY Lengths DEF Inv
<1>3. Typed'
  BY <1>1, <1>2 DEF Discard, Inv, Typed
<1>4. Counted'
  BY <1>1, <1>2, Lengths DEF Discard, Inv, Typed, Counted
<1> QED
  BY <1>3, <1>4 DEF Inv

\* A pass of frames() that consumes a frame, whether its payload is right or not.
LEMMA FrameInv == Inv /\ Frame => Inv'
<1> SUFFICES ASSUME Inv, Frame PROVE Inv'
  OBVIOUS
<1>1. Typed /\ Counted
  BY DEF Inv
<1>2. /\ buf \in Seq(Bytes) /\ Len(buf) \in Nat /\ Len(buf) >= 6 /\ Len(buf) >= FrameLen(buf, 1)
      /\ Drop(FrameLen(buf, 1)) /\ UNCHANGED <<stream, pc, bytesRx, discarded, headerErrors>>
  BY <1>1, Lengths DEF Typed, Frame, AtHeader, InLoop, Again, Consume, stats
<1>3. buf[3] \in Bytes /\ buf[4] \in Bytes
  BY <1>2
<1>4. FrameLen(buf, 1) \in 6..Len(buf)
  BY <1>2, <1>3, SMTT(20) DEF FrameLen
<1>5. buf' \in Seq(Bytes) /\ Len(buf') = Len(buf) - FrameLen(buf, 1)
  BY <1>2, <1>4, DropType
<1>6. FrameAt(buf, 1, Place) \in FrameRecords
  <2>1. Payload(buf, 1) \in Seq(Bytes)
    <3> DEFINE end == 1 + FrameLen(buf, 1) - 2
    <3>1. end \in 5..Len(buf) /\ 1 + 5 \in 1..end + 1
      BY <1>2, <1>4
    <3>2. \A i \in (1 + 5)..end : buf[i] \in Bytes
      <4> SUFFICES ASSUME NEW i \in (1 + 5)..end PROVE buf[i] \in Bytes
        OBVIOUS
      <4>1. i \in 1..Len(buf)
        BY <1>2, <3>1
      <4> QED
        BY <1>2, <4>1, ElementOfSeq
    <3>3. Payload(buf, 1) = SubSeq(buf, 1 + 5, end)
      BY DEF Payload
    <3>4. 1 + 5 \in Int /\ end \in Int
      BY <3>1
    <3> HIDE DEF end
    <3>5. SubSeq(buf, 1 + 5, end) \in Seq(Bytes)
      BY <3>2, <3>4, SubSeqProperties, Zenon
    <3> QED
      BY <3>3, <3>5
  <2>2. Place \in Nat
    BY <1>1, <1>2, Lengths DEF Place, Typed, Counted
  <2> QED
    BY <1>3, <2>1, <2>2 DEF FrameAt, FrameRecords
<1>7. CASE PayloadIsValid(buf, 1)
  <2>1. frames' = Append(frames, FrameAt(buf, 1, Place)) /\ UNCHANGED <<payloadErrors, bad>>
    BY <1>7 DEF Frame, stats
  <2>2. frames' \in Seq(FrameRecords)
    BY <1>1, <1>6, <2>1, AppendProperties DEF Typed
  <2>3. Typed'
    BY <1>1, <1>2, <1>5, <2>1, <2>2 DEF Typed
  <2>4. Counted'
    BY <1>1, <1>2, <1>4, <1>5, <2>1, Lengths DEF Typed, Counted
  <2> QED
    BY <2>3, <2>4 DEF Inv
<1>8. CASE ~PayloadIsValid(buf, 1)
  <2>1. /\ payloadErrors' = payloadErrors + 1
        /\ bad' = Append(bad, FrameAt(buf, 1, Place)) /\ frames' = frames
    BY <1>8 DEF Frame
  <2>2. bad' \in Seq(FrameRecords)
    BY <1>1, <1>6, <2>1, AppendProperties DEF Typed
  <2>3. Typed'
    BY <1>1, <1>2, <1>5, <2>1, <2>2 DEF Typed
  <2>4. Counted'
    BY <1>1, <1>2, <1>4, <1>5, <2>1, Lengths DEF Typed, Counted
  <2> QED
    BY <2>3, <2>4 DEF Inv
<1> QED
  BY <1>7, <1>8

\* Every pass of the loop, every chunk and every reset keep the types and the counts.
LEMMA StepInv == Inv /\ [Next]_vars => Inv'
<1> SUFFICES ASSUME Inv, [Next]_vars PROVE Inv'
  OBVIOUS
<1>1. Len(buf) \in Nat
  BY DEF Inv, Typed
<1>2. CASE TooShort \/ InFlight
  BY <1>2 DEF TooShort, InFlight, AtHeader, InLoop, Rest, Wait, Inv, Typed, Counted, stats
<1>3. CASE Synchronize
  <2>1. PICK i \in 2..Len(buf) : Discard(i - 1)
    BY <1>3 DEF Synchronize
  <2>2. i - 1 \in 0..Len(buf)
    BY <1>1
  <2> QED
    BY <1>3, <2>1, <2>2, DiscardInv DEF Synchronize, InLoop, Again, Inv, Typed
<1>4. CASE NoMagic
  <2>1. SkippedWithoutMagic \in 0..Len(buf)
    BY <1>1, <1>4 DEF SkippedWithoutMagic, NoMagic
  <2> QED
    BY <1>4, <2>1, DiscardInv DEF NoMagic, InLoop, Rest
<1>5. CASE BadHeader
  <2>1. 1 \in 0..Len(buf)
    BY <1>1, <1>5 DEF BadHeader, AtHeader
  <2> QED
    BY <1>5, <2>1, DiscardInv DEF BadHeader, DiscardOnBadHeader, AtHeader, InLoop, Again, Inv, Typed
<1>6. CASE Frame
  BY <1>6, FrameInv
<1>7. CASE Reset
  BY <1>7 DEF Reset, Inv, Typed, Counted
<1>8. ASSUME NEW n \in 1..MaxChunk, NEW chunk \in [1..n -> Bytes], AddData(chunk) PROVE Inv'
  <2>1. chunk \in Seq(Bytes)
    OBVIOUS
  <2> QED
    BY <1>8, <2>1, AddDataInv
<1>9. CASE UNCHANGED vars
  BY <1>9 DEF vars, stats, Inv, Typed, Counted
<1> QED
  BY <1>2, <1>3, <1>4, <1>5, <1>6, <1>7, <1>8, <1>9 DEF Next, Loop

\* FrameParser keeps its types, and no counter exceeds the bytes received.
THEOREM TypeCorrect == Spec => []TypeOK
<1>1. Init => Inv
  BY DEF Init, Inv, Typed, Counted
<1> QED
  BY <1>1, StepInv, InvType, PTL DEF Spec

\* frame_parser.py, "Buffer invariant": after frames() the buffer holds less than the
\* longest frame, however large the chunks are.
THEOREM BufferBounded == Spec => []BufferIsBounded
<1>1. Init => Inv /\ BufferIsBounded
  BY DEF Init, Inv, Typed, Counted, BufferIsBounded
<1>2. Inv /\ BufferIsBounded /\ [Next]_vars => BufferIsBounded'
  <2> SUFFICES ASSUME Inv, BufferIsBounded, [Next]_vars, pc' = "idle"
               PROVE  Len(buf') < MaxFrameLen
    BY DEF BufferIsBounded
  <2>1. Len(buf) \in Nat
    BY DEF Inv, Typed
  <2>2. CASE TooShort
    BY <2>1, <2>2 DEF TooShort
  <2>3. CASE InFlight
    <3>1. buf[4] \in Bytes
      BY <2>1, <2>3 DEF InFlight, AtHeader, Inv, Typed
    <3> QED
      BY <2>1, <2>3, <3>1 DEF InFlight, FrameLen
  <2>4. CASE NoMagic
    <3>1. SkippedWithoutMagic \in 0..Len(buf) /\ SkippedWithoutMagic >= Len(buf) - 1
      BY <2>1, <2>4 DEF SkippedWithoutMagic, NoMagic
    <3>2. Len(buf') = Len(buf) - SkippedWithoutMagic
      BY <2>4, <3>1, DropType DEF NoMagic, Discard, Inv, Typed
    <3> QED
      BY <2>1, <3>1, <3>2
  <2>5. CASE Synchronize \/ BadHeader \/ Frame
    BY <2>5 DEF Synchronize, BadHeader, Frame, AtHeader, InLoop, Again
  <2>6. CASE Reset
    BY <2>6 DEF Reset
  <2>7. CASE UNCHANGED vars
    BY <2>7 DEF vars, BufferIsBounded
  <2> QED
    BY <2>2, <2>3, <2>4, <2>5, <2>6, <2>7 DEF Next, Loop, AddData
<1> QED
  BY <1>1, <1>2, StepInv, PTL DEF Spec

\* frame_parser.py, "so a bad frame can't stall the parser": on any bytes, each turn of the
\* loop takes some of them or is the last.
THEOREM NoTurnStalls == Spec => LoopMakesProgress
<1> DEFINE A == pc = "frames" => Len(buf') < Len(buf) \/ pc' = "idle"
<1>1. Init => Inv
  BY DEF Init, Inv, Typed, Counted
<1>2. Inv /\ [Next]_vars => [A]_vars
  <2> SUFFICES ASSUME Inv, Next, pc = "frames"
               PROVE  Len(buf') < Len(buf) \/ pc' = "idle"
    OBVIOUS
  <2>1. Len(buf) \in Nat /\ buf \in Seq(Bytes)
    BY DEF Inv, Typed
  <2>2. CASE TooShort \/ NoMagic \/ InFlight
    BY <2>2 DEF TooShort, NoMagic, InFlight, Rest, Wait
  <2>3. CASE Synchronize
    <3>1. PICK i \in 2..Len(buf) : Discard(i - 1)
      BY <2>3 DEF Synchronize
    <3>2. i - 1 \in 0..Len(buf) /\ i - 1 > 0
      BY <2>1
    <3> QED
      BY <2>1, <3>1, <3>2, DropType DEF Discard
  <2>4. CASE BadHeader
    <3>1. 1 \in 0..Len(buf) /\ Drop(1)
      BY <2>1, <2>4 DEF BadHeader, AtHeader, DiscardOnBadHeader, Discard
    <3> QED
      BY <2>1, <3>1, DropType
  <2>5. CASE Frame
    <3>1. buf[4] \in Nat
      BY <2>1, <2>5 DEF Frame, AtHeader
    <3>2. FrameLen(buf, 1) \in 0..Len(buf) /\ FrameLen(buf, 1) > 0
      BY <2>1, <2>5, <3>1 DEF Frame, FrameLen
    <3> QED
      BY <2>1, <2>5, <3>2, DropType DEF Frame, Consume
  <2>6. CASE Reset
    BY <2>6 DEF Reset
  <2> QED
    BY <2>2, <2>3, <2>4, <2>5, <2>6 DEF Next, Loop, AddData
<1> QED
  BY <1>1, <1>2, StepInv, PTL DEF Spec, LoopMakesProgress

----------------------------------------------------------------------------
(***************************************************************************)
(* FramesAreThoseSent.  The buffer is the end of the stream; every byte of *)
(* the stream before it has been passed for a reason that more bytes do    *)
(* not change: it begins a frame that was found or is damaged, it lies in  *)
(* one that begins before it, or no frame can begin with it.               *)
(***************************************************************************)

\* The bytes b are those of s behind the first d.
Within(b, s, d) == \A j \in 1..Len(b) : j + d \in 1..Len(s) /\ s[j + d] = b[j]

\* A part of b is the same part of s.
LEMMA PartWithin ==
  ASSUME NEW b \in Seq(Bytes), NEW s \in Seq(Bytes), NEW d \in Nat, Within(b, s, d),
         NEW m \in 1..Len(b), NEW n \in Int, m <= n + 1, n <= Len(b)
  PROVE  SubSeq(b, m, n) = SubSeq(s, m + d, n + d)
<1> DEFINE x == SubSeq(b, m, n)
           y == SubSeq(s, m + d, n + d)
<1>1. Len(b) \in Nat /\ Len(s) \in Nat
  OBVIOUS
<1>2. \A i \in m..n : i \in 1..Len(b) /\ i + d \in 1..Len(s) /\ s[i + d] = b[i] /\ b[i] \in Bytes
  <2> SUFFICES ASSUME NEW i \in m..n
               PROVE  i \in 1..Len(b) /\ i + d \in 1..Len(s) /\ s[i + d] = b[i] /\ b[i] \in Bytes
    OBVIOUS
  <2>1. i \in 1..Len(b)
    BY <1>1
  <2>2. b[i] \in Bytes
    BY <2>1
  <2> QED
    BY <2>1, <2>2, Zenon DEF Within
<1>3. \A i \in m..n : b[i] \in Bytes
  BY <1>2
<1>4. \A i \in (m + d)..(n + d) : s[i] \in Bytes
  <2> SUFFICES ASSUME NEW i \in (m + d)..(n + d) PROVE s[i] \in Bytes
    OBVIOUS
  <2>1. i - d \in m..n /\ (i - d) + d = i
    BY <1>1
  <2> QED
    BY <1>2, <2>1
<1>5. m \in Int /\ n \in Int /\ m + d \in Int /\ n + d \in Int
  BY <1>1
<1>6. /\ x \in Seq(Bytes) /\ Len(x) = IF m <= n THEN n - m + 1 ELSE 0
      /\ \A i \in 1..(n - m + 1) : x[i] = b[m + i - 1]
  BY <1>3, <1>5, SubSeqProperties
<1>7. /\ y \in Seq(Bytes) /\ Len(y) = IF m + d <= n + d THEN (n + d) - (m + d) + 1 ELSE 0
      /\ \A i \in 1..((n + d) - (m + d) + 1) : y[i] = s[m + d + i - 1]
  BY <1>4, <1>5, SubSeqProperties
<1>8. Len(y) = Len(x) /\ Len(x) = n - m + 1
  BY <1>5, <1>6, <1>7
<1>9. \A i \in 1..(n - m + 1) : x[i] = y[i]
  <2> SUFFICES ASSUME NEW i \in 1..(n - m + 1) PROVE x[i] = y[i]
    OBVIOUS
  <2>1. m + i - 1 \in m..n /\ (m + i - 1) + d = m + d + i - 1 /\ i \in 1..((n + d) - (m + d) + 1)
    BY <1>1
  <2> QED
    BY <1>2, <1>6, <1>7, <2>1
<1> HIDE DEF x, y
<1>10. x = y
  BY <1>6, <1>7, <1>8, <1>9, SeqEqual
<1> QED
  BY <1>10 DEF x, y

\* Is a whole frame there?
FrameFits(s, i) == HeaderAt(s, i) /\ HeaderIsValid(s, i) /\ i + FrameLen(s, i) - 1 <= Len(s)

\* How long a frame is, is in its header.
LEMMA LengthOfFrame ==
  ASSUME NEW s, NEW i, s[i + 3] \in Bytes
  PROVE  FrameLen(s, i) \in 6..MaxFrameLen
<1>1. \A n \in 0..MaxByte : 5 + n + 1 \in 6..(5 + MaxByte + 1)
  OBVIOUS
<1> QED
  BY <1>1, Zenon DEF FrameLen

\* What is at a place in b is at its place in s.
LEMMA FramesWithin ==
  ASSUME NEW b \in Seq(Bytes), NEW s \in Seq(Bytes), NEW d \in Nat, Within(b, s, d),
         NEW i \in 1..Len(b), NEW e, e = i + d
  PROVE  /\ e \in 1..Len(s) /\ b[i] = s[e]
         /\ i + 1 <= Len(b) => e + 1 <= Len(s) /\ b[i + 1] = s[e + 1]
         /\ HeaderAt(b, i) => HeaderAt(s, e)
         /\ i + 5 <= Len(b) => e + 5 <= Len(s) /\ (HeaderIsValid(b, i) <=> HeaderIsValid(s, e))
                               /\ FrameLen(b, i) = FrameLen(s, e) /\ FrameLen(b, i) \in 6..MaxFrameLen
         /\ FrameFits(b, i) => FrameFits(s, e) /\ (PayloadIsValid(b, i) <=> PayloadIsValid(s, e))
                               /\ \A p : FrameAt(b, i, p) = FrameAt(s, e, p)
<1>0. Len(b) \in Nat /\ Len(s) \in Nat
  OBVIOUS
<1>1. \A j \in 1..Len(b) : j + d \in 1..Len(s) /\ s[j + d] = b[j] /\ b[j] \in Bytes
  <2>1. \A j \in 1..Len(b) : b[j] \in Bytes
    OBVIOUS
  <2> QED
    BY <2>1, Zenon DEF Within
<1>2. i + 1 <= Len(b) => i + d + 1 <= Len(s) /\ b[i + 1] = s[i + d + 1]
  <2>1. (i + 1) + d = i + d + 1
    BY <1>0
  <2> QED
    BY <1>0, <1>1, <2>1, SMTT(20)
<1>3. b[i] = s[i + d]
  BY <1>1
<1>4. i + 5 <= Len(b) =>
         /\ i + d + 5 <= Len(s) /\ (HeaderIsValid(b, i) <=> HeaderIsValid(s, i + d))
         /\ FrameLen(b, i) = FrameLen(s, i + d) /\ FrameLen(b, i) \in 6..MaxFrameLen
         /\ b[i + 2] = s[i + d + 2]
  <2> SUFFICES ASSUME i + 5 <= Len(b)
               PROVE  /\ i + d + 5 <= Len(s) /\ (HeaderIsValid(b, i) <=> HeaderIsValid(s, i + d))
                      /\ FrameLen(b, i) = FrameLen(s, i + d) /\ FrameLen(b, i) \in 6..MaxFrameLen
                      /\ b[i + 2] = s[i + d + 2]
    OBVIOUS
  <2>1. i + 2 \in 1..Len(b) /\ i + 3 \in 1..Len(b) /\ i + 4 \in 1..Len(b) /\ i + 5 \in 1..Len(b)
        /\ (i + 2) + d = i + d + 2 /\ (i + 3) + d = i + d + 3 /\ (i + 4) + d = i + d + 4 /\ (i + 5) + d = i + d + 5
    BY <1>0
  <2>2. b[i + 2] = s[i + d + 2] /\ b[i + 3] = s[i + d + 3] /\ b[i + 4] = s[i + d + 4] /\ i + d + 5 <= Len(s)
        /\ b[i + 3] \in Bytes
    BY <1>1, <2>1
  <2>3. SubSeq(b, i, i + 3) = SubSeq(s, i + d, (i + 3) + d)
    BY <1>0, <2>1, PartWithin
  <2>4. HeaderIsValid(b, i) <=> HeaderIsValid(s, i + d)
    BY <2>1, <2>2, <2>3, Zenon DEF HeaderIsValid
  <2>5. FrameLen(b, i) = FrameLen(s, i + d) /\ FrameLen(b, i) \in 6..MaxFrameLen
    BY <2>2, LengthOfFrame, Zenon DEF FrameLen
  <2> QED
    BY <2>2, <2>4, <2>5
<1>5. HeaderAt(b, i) => HeaderAt(s, i + d)
  BY <1>0, <1>2, <1>3, <1>4 DEF HeaderAt, MagicAt
<1>6. ASSUME FrameFits(b, i)
      PROVE  /\ FrameFits(s, i + d) /\ (PayloadIsValid(b, i) <=> PayloadIsValid(s, i + d))
             /\ \A p : FrameAt(b, i, p) = FrameAt(s, i + d, p)
  <2> DEFINE l == FrameLen(b, i)
  <2>1. HeaderAt(b, i) /\ HeaderIsValid(b, i) /\ i + l - 1 <= Len(b) /\ i + 5 <= Len(b)
    BY <1>6 DEF FrameFits, HeaderAt
  <2>2. l = FrameLen(s, i + d) /\ l \in 6..MaxFrameLen /\ HeaderIsValid(s, i + d) /\ HeaderAt(s, i + d)
        /\ b[i + 2] = s[i + d + 2]
    BY <1>4, <1>5, <2>1
  <2> HIDE DEF l
  <2>3. MaxFrameLen \in Nat /\ l \in Nat /\ l >= 6
    <3>1. MaxFrameLen \in Nat
      OBVIOUS
    <3>2. PICK m \in Nat : m = MaxFrameLen
      BY <3>1
    <3> QED
      BY <2>2, <3>2
  <2>4. /\ i + 5 \in 1..Len(b) /\ i + l - 2 \in Int /\ i + 5 <= (i + l - 2) + 1 /\ i + l - 2 <= Len(b)
        /\ i + l - 1 \in 1..Len(b) /\ (i + 5) + d = i + d + 5 /\ (i + l - 2) + d = i + d + l - 2
        /\ (i + l - 1) + d = i + d + l - 1
    <3>1. i \in Nat /\ i >= 1 /\ i + 5 <= Len(b) /\ i + l - 1 <= Len(b)
      BY <2>1
    <3>2. \A n \in Nat : i >= 1 /\ i + 5 <= n /\ i + l - 1 <= n =>
             /\ i + 5 \in 1..n /\ i + l - 2 \in Int /\ i + 5 <= (i + l - 2) + 1 /\ i + l - 2 <= n
             /\ i + l - 1 \in 1..n
      BY <2>3, <3>1
    <3>3. (i + 5) + d = i + d + 5 /\ (i + l - 2) + d = i + d + l - 2 /\ (i + l - 1) + d = i + d + l - 1
      BY <2>3, <3>1
    <3> QED
      BY <1>0, <3>1, <3>2, <3>3
  <2>5. SubSeq(b, i + 5, i + l - 2) = SubSeq(s, (i + 5) + d, (i + l - 2) + d)
    BY <2>4, PartWithin
  <2>6. Payload(b, i) = Payload(s, i + d)
    BY <2>2, <2>4, <2>5, Zenon DEF Payload, l
  <2>7. b[i + l - 1] = s[i + d + l - 1] /\ i + d + l - 1 \in 1..Len(s)
    BY <1>1, <2>4, Zenon
  <2>8. PayloadIsValid(b, i) <=> PayloadIsValid(s, i + d)
    BY <2>2, <2>6, <2>7, Zenon DEF PayloadIsValid, l
  <2>9. \A p : FrameAt(b, i, p) = FrameAt(s, i + d, p)
    BY <2>2, <2>6, Zenon DEF FrameAt
  <2> QED
    BY <1>0, <2>2, <2>7, <2>8, <2>9 DEF FrameFits
<1> QED
  BY <1>1, <1>2, <1>3, <1>4, <1>5, <1>6, Zenon

----------------------------------------------------------------------------

\* Why the byte at i of the stream s is passed, when the frames fs were found.
NoMagicAt(s, i) == s[i] # Magic0 \/ (i + 1 <= Len(s) /\ s[i + 1] # Magic1)
Reached(s, i) == \E j \in 1..(i - 1) : HeaderAt(s, j) /\ HeaderIsValid(s, j) /\ i < j + FrameLen(s, j)
Passed(s, fs, i) ==
    \/ \E k \in DOMAIN fs : fs[k].at = i
    \/ NoMagicAt(s, i)
    \/ i + 5 <= Len(s) /\ ~HeaderIsValid(s, i)
    \/ FrameFits(s, i) /\ ~PayloadIsValid(s, i)
    \/ Reached(s, i)

\* The k-th frame found is in the stream s.
FoundAt(s, fs, k) ==
    LET i == fs[k].at IN
    /\ i \in 1..Len(s) /\ FrameFits(s, i) /\ PayloadIsValid(s, i) /\ fs[k] = FrameAt(s, i, i)
EndOf(s, fs, k) == fs[k].at + FrameLen(s, fs[k].at)

\* No frame fits in what is left, while the parser waits for bytes.
NoneFits == Len(buf) < 6 \/ (HeaderAt(buf, 1) /\ HeaderIsValid(buf, 1) /\ Len(buf) < FrameLen(buf, 1))

ParserInv ==
    /\ Place \in Nat \ {0} /\ Within(buf, stream, Place - 1)
    /\ \A k \in DOMAIN frames : /\ FoundAt(stream, frames, k) /\ EndOf(stream, frames, k) <= Place
                                /\ k # Len(frames) => EndOf(stream, frames, k) <= frames[k + 1].at
    /\ \A i \in 1..(Place - 1) : Passed(stream, frames, i)
    /\ pc = "idle" => NoneFits

\* A frame that was found ends somewhere.
LEMMA FoundEnds ==
  ASSUME stream \in Seq(Bytes), NEW fs, NEW k, FoundAt(stream, fs, k)
  PROVE  /\ EndOf(stream, fs, k) \in Nat /\ fs[k].at \in Nat /\ fs[k].at + 6 <= EndOf(stream, fs, k)
<1> DEFINE i == fs[k].at
<1>1. i \in 1..Len(stream) /\ FrameFits(stream, i)
  BY DEF FoundAt
<1>2. i \in Nat /\ i + 3 \in 1..Len(stream)
  BY <1>1, SMTT(20) DEF FrameFits, HeaderAt
<1> HIDE DEF i
<1>3. FrameLen(stream, i) \in 6..MaxFrameLen
  BY <1>2, LengthOfFrame, SMTT(20)
<1>4. \A l \in 6..MaxFrameLen : i + l \in Nat /\ i + 6 <= i + l
  BY <1>2
<1> QED
  BY <1>2, <1>3, <1>4, Zenon DEF EndOf, i

\* More bytes change nothing of that.
LEMMA MoreBytes ==
  ASSUME NEW s \in Seq(Bytes), NEW t \in Seq(Bytes), Within(s, t, 0), NEW fs
  PROVE  /\ \A i \in 1..Len(s) : Passed(s, fs, i) => Passed(t, fs, i)
         /\ \A k \in DOMAIN fs : FoundAt(s, fs, k) => FoundAt(t, fs, k) /\ EndOf(s, fs, k) = EndOf(t, fs, k)
<1>0. Len(s) \in Nat /\ Len(t) \in Nat
  OBVIOUS
<1>1. \A i \in 1..Len(s) :
         /\ i \in 1..Len(t)
         /\ s[i] = t[i]
         /\ i + 1 <= Len(s) => i + 1 <= Len(t) /\ s[i + 1] = t[i + 1]
         /\ HeaderAt(s, i) => HeaderAt(t, i)
         /\ i + 5 <= Len(s) => i + 5 <= Len(t) /\ (HeaderIsValid(s, i) <=> HeaderIsValid(t, i))
                               /\ FrameLen(s, i) = FrameLen(t, i)
         /\ FrameFits(s, i) => FrameFits(t, i) /\ (PayloadIsValid(s, i) <=> PayloadIsValid(t, i))
                               /\ \A p : FrameAt(s, i, p) = FrameAt(t, i, p)
  <2> SUFFICES ASSUME NEW i \in 1..Len(s)
               PROVE  /\ i \in 1..Len(t)
                      /\ s[i] = t[i]
                      /\ i + 1 <= Len(s) => i + 1 <= Len(t) /\ s[i + 1] = t[i + 1]
                      /\ HeaderAt(s, i) => HeaderAt(t, i)
                      /\ i + 5 <= Len(s) => i + 5 <= Len(t) /\ (HeaderIsValid(s, i) <=> HeaderIsValid(t, i))
                                            /\ FrameLen(s, i) = FrameLen(t, i)
                      /\ FrameFits(s, i) => FrameFits(t, i) /\ (PayloadIsValid(s, i) <=> PayloadIsValid(t, i))
                                            /\ \A p : FrameAt(s, i, p) = FrameAt(t, i, p)
    BY Zenon
  <2>1. i + 0 = i /\ i \in Nat
    OBVIOUS
  <2>2. i \in 1..Len(t)
    BY <2>1 DEF Within
  <2>3. 0 \in Nat
    OBVIOUS
  <2> QED
    BY <2>1, <2>2, <2>3, FramesWithin
<1>2. ASSUME NEW i \in 1..Len(s), Reached(s, i) PROVE Reached(t, i)
  <2>1. PICK j \in 1..(i - 1) : HeaderAt(s, j) /\ HeaderIsValid(s, j) /\ i < j + FrameLen(s, j)
    BY <1>2 DEF Reached
  <2>2. j \in 1..Len(s) /\ j + 5 <= Len(s)
    BY <1>0, <2>1 DEF HeaderAt
  <2>3. HeaderAt(t, j) /\ HeaderIsValid(t, j) /\ FrameLen(s, j) = FrameLen(t, j)
    BY <1>1, <2>1, <2>2
  <2> QED
    BY <2>1, <2>3 DEF Reached
<1>3. ASSUME NEW i \in 1..Len(s), Passed(s, fs, i) PROVE Passed(t, fs, i)
  BY <1>1, <1>2, <1>3, Zenon DEF Passed, NoMagicAt
<1>4. ASSUME NEW k \in DOMAIN fs, FoundAt(s, fs, k) PROVE FoundAt(t, fs, k) /\ EndOf(s, fs, k) = EndOf(t, fs, k)
  <2> DEFINE i == fs[k].at
  <2>1. i \in 1..Len(s) /\ FrameFits(s, i) /\ PayloadIsValid(s, i) /\ fs[k] = FrameAt(s, i, i)
    BY <1>4 DEF FoundAt
  <2>2. i + 5 <= Len(s)
    BY <2>1 DEF FrameFits, HeaderAt
  <2> HIDE DEF i
  <2>3. i \in 1..Len(t) /\ FrameFits(t, i) /\ PayloadIsValid(t, i) /\ fs[k] = FrameAt(t, i, i) /\ FrameLen(s, i) = FrameLen(t, i)
    BY <1>1, <2>1, <2>2, Zenon
  <2> QED
    BY <2>3 DEF FoundAt, EndOf, i
<1> QED
  BY <1>3, <1>4

----------------------------------------------------------------------------
(* The steps. *)

\* The buffer is in the stream, at its end.
LEMMA Placed ==
  ASSUME Typed, ParserInv
  PROVE  /\ Place - 1 \in Nat /\ Place \in Nat /\ Len(buf) \in Nat /\ Len(stream) \in Nat
         /\ Place + Len(buf) = Len(stream) + 1 /\ buf \in Seq(Bytes) /\ stream \in Seq(Bytes)
         /\ \A i \in 1..Len(buf) : Place + i - 1 = i + (Place - 1) /\ Place + i - 1 \in 1..Len(stream)
<1>1. Len(buf) \in Nat /\ Len(stream) \in Nat /\ Place \in Nat \ {0}
  BY DEF Typed, ParserInv
<1>2. \A b, s, p \in Nat : p = s - b + 1 => p + b = s + 1
  OBVIOUS
<1>3. Place + Len(buf) = Len(stream) + 1
  BY <1>1, <1>2 DEF Place
<1>4. \A b, s, p \in Nat : p >= 1 /\ p + b = s + 1 =>
         p - 1 \in Nat /\ \A i \in 1..b : p + i - 1 = i + (p - 1) /\ p + i - 1 \in 1..s
  OBVIOUS
<1> HIDE DEF Place
<1>5. Place >= 1
  BY <1>1
<1> QED
  BY <1>1, <1>3, <1>4, <1>5 DEF Typed

\* n bytes leave the buffer, all of which are passed.
LEMMA DropPasses ==
  ASSUME Typed, ParserInv, NEW n \in 0..Len(buf), Drop(n), UNCHANGED stream,
         \A k \in DOMAIN frames : k \in DOMAIN frames' /\ frames'[k] = frames[k],
         \A i \in 1..n : Passed(stream, frames', Place + i - 1)
  PROVE  /\ Place' = Place + n /\ Place' \in Nat \ {0} /\ Within(buf', stream', Place' - 1)
         /\ \A i \in 1..(Place' - 1) : Passed(stream', frames', i)
<1>1. /\ buf' \in Seq(Bytes) /\ Len(buf') = Len(buf) - n /\ Len(buf) \in Nat /\ Len(stream) \in Nat
      /\ \A j \in 1..(Len(buf) - n) : buf'[j] = buf[j + n]
  <2>1. buf' = SubSeq(buf, n + 1, Len(buf)) /\ Len(buf) \in Nat
    BY DEF Drop, Typed
  <2> QED
    BY <2>1, SMTT(20) DEF Typed
<1>2. Place' = Place + n
  <2>2. Len(buf) \in Int /\ Len(stream) \in Int /\ n \in Int /\ Len(buf') \in Int
    BY <1>1
  <2>3. Len(stream') - Len(buf') + 1 = (Len(stream) - Len(buf) + 1) + n
    <3>1. \A b, s, m \in Int : s - (b - m) + 1 = (s - b + 1) + m
      OBVIOUS
    <3>2. stream' = stream /\ Len(buf') = Len(buf) - n
      BY <1>1
    <3>3. Len(stream) - (Len(buf) - n) + 1 = (Len(stream) - Len(buf) + 1) + n
      BY <2>2, <3>1
    <3> QED
      BY <3>2, <3>3, Zenon
  <2> QED
    BY <2>3, Zenon DEF Place
<1> DEFINE p == Place
<1>3. p \in Nat \ {0} /\ n \in Nat /\ Place' = p + n
  BY <1>1, <1>2 DEF ParserInv
<1>4. \A j \in 1..Len(buf) : j + (p - 1) \in 1..Len(stream) /\ stream[j + (p - 1)] = buf[j]
  BY DEF ParserInv, Within
<1> HIDE DEF p
<1>5. Within(buf', stream, (p + n) - 1)
  <2> SUFFICES ASSUME NEW j \in 1..Len(buf')
               PROVE  j + ((p + n) - 1) \in 1..Len(stream) /\ stream[j + ((p + n) - 1)] = buf'[j]
    BY DEF Within
  <2>1. j \in 1..(Len(buf) - n)
    BY <1>1
  <2>2. j + n \in 1..Len(buf) /\ (j + n) + (p - 1) = j + ((p + n) - 1)
    BY <1>1, <1>3, <2>1
  <2> QED
    BY <1>1, <1>4, <2>1, <2>2
<1>6. \A i \in 1..(p - 1) : Passed(stream, frames', i)
  <2> SUFFICES ASSUME NEW i \in 1..(p - 1) PROVE Passed(stream, frames', i)
    OBVIOUS
  <2>1. Passed(stream, frames, i)
    BY DEF ParserInv, p
  <2> QED
    BY <2>1 DEF Passed
<1>7. \A i \in 1..((p + n) - 1) : Passed(stream, frames', i)
  <2> SUFFICES ASSUME NEW i \in 1..((p + n) - 1) PROVE Passed(stream, frames', i)
    OBVIOUS
  <2>1. CASE i \in 1..(p - 1)
    BY <1>6, <2>1
  <2>2. CASE i \notin 1..(p - 1)
    <3>1. i - p + 1 \in 1..n /\ i = p + (i - p + 1) - 1
      BY <1>3, <2>2
    <3>2. Passed(stream, frames', p + (i - p + 1) - 1)
      BY <3>1, Zenon DEF p
    <3> QED
      BY <3>1, <3>2
  <2> QED
    BY <2>1, <2>2
<1>8. p + n \in Nat \ {0}
  BY <1>3
<1> QED
  BY <1>3, <1>5, <1>7, <1>8, Zenon DEF p

\* Bytes are dropped that begin no frame.
LEMMA DiscardPasses ==
  ASSUME Typed, ParserInv, NEW n \in 0..Len(buf), Discard(n), UNCHANGED stream, pc' = "idle" => NoneFits',
         \A i \in 1..n : NoMagicAt(buf, i) \/ (i + 5 <= Len(buf) /\ ~HeaderIsValid(buf, i))
  PROVE  ParserInv'
<1>1. Drop(n) /\ frames' = frames
  BY DEF Discard
<1>2. \A i \in 1..n : Passed(stream, frames, Place + i - 1)
  <2> SUFFICES ASSUME NEW i \in 1..n PROVE Passed(stream, frames, Place + i - 1)
    OBVIOUS
  <2>1. i \in 1..Len(buf)
    BY Placed
  <2> DEFINE e == Place + i - 1
             d == Place - 1
  <2>2. e = i + d /\ d \in Nat /\ buf \in Seq(Bytes) /\ stream \in Seq(Bytes) /\ Within(buf, stream, d)
    BY <2>1, Placed DEF ParserInv
  <2> HIDE DEF e, d
  <2>3. NoMagicAt(buf, i) => NoMagicAt(stream, e)
    <3>1. /\ buf[i] = stream[e]
          /\ i + 1 <= Len(buf) => e + 1 <= Len(stream) /\ buf[i + 1] = stream[e + 1]
      BY <2>1, <2>2, FramesWithin
    <3> QED
      BY <3>1 DEF NoMagicAt
  <2>4. i + 5 <= Len(buf) /\ ~HeaderIsValid(buf, i) => e + 5 <= Len(stream) /\ ~HeaderIsValid(stream, e)
    BY <2>1, <2>2, FramesWithin, Zenon
  <2>5. Passed(stream, frames, e)
    BY <2>3, <2>4 DEF Passed
  <2> QED
    BY <2>5 DEF e
<1>3. /\ Place' = Place + n /\ Place' \in Nat \ {0} /\ Within(buf', stream', Place' - 1)
      /\ \A i \in 1..(Place' - 1) : Passed(stream', frames', i)
  BY <1>1, <1>2, DropPasses
<1>4. \A k \in DOMAIN frames : EndOf(stream, frames, k) <= Place + n
  <2> SUFFICES ASSUME NEW k \in DOMAIN frames PROVE EndOf(stream, frames, k) <= Place + n
    OBVIOUS
  <2>1. EndOf(stream, frames, k) <= Place /\ FoundAt(stream, frames, k)
    BY DEF ParserInv
  <2>2. EndOf(stream, frames, k) \in Int
    BY <2>1, FoundEnds DEF Typed
  <2>3. n \in Nat /\ Place \in Nat
    BY Placed
  <2> HIDE DEF Place
  <2> QED
    BY <2>1, <2>2, <2>3
<1> QED
  BY <1>1, <1>3, <1>4 DEF ParserInv

\* A frame leaves the buffer; it is found, or its payload is damaged.
LEMMA FramePasses ==
  ASSUME Typed, ParserInv, Frame
  PROVE  ParserInv'
<1> DEFINE e == Place
           l == FrameLen(buf, 1)
           n == Len(frames)
<1>1. /\ AtHeader /\ HeaderIsValid(buf, 1) /\ Len(buf) >= l /\ Drop(l) /\ Len(buf) >= 6 /\ MagicAt(buf, 1)
      /\ UNCHANGED <<pc, stream>> /\ pc = "frames"
  BY DEF Frame, AtHeader, InLoop, Consume, Again
<1>2. /\ e \in Nat \ {0} /\ e - 1 \in Nat /\ e = 1 + (e - 1) /\ buf \in Seq(Bytes) /\ stream \in Seq(Bytes)
      /\ Within(buf, stream, e - 1) /\ 1 \in 1..Len(buf) /\ Len(buf) \in Nat /\ Len(stream) \in Nat
  BY <1>1, Placed DEF ParserInv
<1>3. FrameFits(buf, 1)
  <2>1. 1 + 3 \in 1..Len(buf)
    BY <1>1, <1>2
  <2>2. buf[1 + 3] \in Bytes
    BY <1>2, <2>1
  <2>3. l \in Nat
    BY <2>2, LengthOfFrame
  <2> HIDE DEF l
  <2>4. 1 + l - 1 <= Len(buf) /\ 1 + 5 <= Len(buf)
    BY <1>1, <1>2, <2>3
  <2> QED
    BY <1>1, <2>4 DEF FrameFits, HeaderAt, l
<1> HIDE DEF e
<1>4. 1 + 5 <= Len(buf)
  BY <1>1, <1>2
<1>5. /\ FrameFits(stream, e) /\ (PayloadIsValid(buf, 1) <=> PayloadIsValid(stream, e))
      /\ FrameAt(buf, 1, e) = FrameAt(stream, e, e) /\ l = FrameLen(stream, e) /\ l \in 6..MaxFrameLen /\ e \in 1..Len(stream)
  BY <1>2, <1>3, <1>4, FramesWithin
<1>6. HeaderAt(stream, e) /\ HeaderIsValid(stream, e)
  BY <1>5 DEF FrameFits
<1> HIDE DEF l
<1>7. l \in Nat /\ l >= 6 /\ l \in 0..Len(buf)
  BY <1>1, <1>2, <1>5
<1>8. frames \in Seq(FrameRecords) /\ n \in Nat /\ DOMAIN frames = 1..n
  BY DEF Typed
<1>9. \/ PayloadIsValid(stream, e) /\ frames' = Append(frames, FrameAt(stream, e, e))
      \/ ~PayloadIsValid(stream, e) /\ frames' = frames
  BY <1>5, Zenon DEF Frame, e
<1>10. /\ \A k \in DOMAIN frames : k \in DOMAIN frames' /\ frames'[k] = frames[k]
       /\ PayloadIsValid(stream, e) => /\ DOMAIN frames' = 1..(n + 1) /\ frames'[n + 1] = FrameAt(stream, e, e)
                                       /\ n + 1 \in DOMAIN frames' /\ Len(frames') = n + 1
  BY <1>8, <1>9
<1>11. FrameAt(stream, e, e).at = e
  BY DEF FrameAt
<1>12. \A i \in 1..l : Passed(stream, frames', e + i - 1)
  <2> SUFFICES ASSUME NEW i \in 1..l PROVE Passed(stream, frames', e + i - 1)
    OBVIOUS
  <2>1. CASE i = 1 /\ PayloadIsValid(stream, e)
    <3>1. frames'[n + 1].at = e + i - 1 /\ n + 1 \in DOMAIN frames'
      BY <1>2, <1>10, <1>11, <2>1
    <3> QED
      BY <3>1 DEF Passed
  <2>2. CASE i = 1 /\ ~PayloadIsValid(stream, e)
    <3>1. e + i - 1 = e
      BY <1>2, <2>2
    <3> QED
      BY <1>5, <2>2, <3>1 DEF Passed
  <2>3. CASE i # 1
    <3>1. e \in 1..((e + i - 1) - 1) /\ e + i - 1 < e + l
      BY <1>2, <1>7, <2>3
    <3>2. Reached(stream, e + i - 1)
      BY <1>5, <1>6, <3>1 DEF Reached
    <3> QED
      BY <3>2 DEF Passed
  <2> QED
    BY <2>1, <2>2, <2>3
<1>13. /\ Place' = e + l /\ Place' \in Nat \ {0} /\ Within(buf', stream', Place' - 1)
       /\ \A i \in 1..(Place' - 1) : Passed(stream', frames', i)
  BY <1>1, <1>7, <1>10, <1>12, DropPasses DEF e
<1>14. /\ \A k \in DOMAIN frames : /\ FoundAt(stream, frames, k) /\ EndOf(stream, frames, k) <= e
                                   /\ k # n => EndOf(stream, frames, k) <= frames[k + 1].at
       /\ \A k \in DOMAIN frames : EndOf(stream, frames, k) \in Nat
  BY <1>2, FoundEnds DEF ParserInv, e
<1>15. \A k \in DOMAIN frames : FoundAt(stream, frames', k) /\ EndOf(stream, frames', k) = EndOf(stream, frames, k)
  BY <1>10, <1>14, Zenon DEF FoundAt, EndOf
<1>16. \A k \in DOMAIN frames : EndOf(stream, frames, k) <= e + l
  <2> SUFFICES ASSUME NEW k \in DOMAIN frames PROVE EndOf(stream, frames, k) <= e + l
    OBVIOUS
  <2>1. EndOf(stream, frames, k) <= e /\ EndOf(stream, frames, k) \in Nat
    BY <1>14
  <2> QED
    BY <1>2, <1>7, <2>1
<1>17. ASSUME NEW k \in DOMAIN frames'
       PROVE  /\ FoundAt(stream, frames', k) /\ EndOf(stream, frames', k) <= e + l
              /\ k # Len(frames') => EndOf(stream, frames', k) <= frames'[k + 1].at
  <2>1. CASE ~PayloadIsValid(stream, e)
    BY <1>9, <1>14, <1>15, <1>16, <2>1
  <2>2. CASE PayloadIsValid(stream, e) /\ k = n + 1
    <3>1. frames'[k] = FrameAt(stream, e, e) /\ frames'[k].at = e
      BY <1>10, <1>11, <2>2
    <3>2. FoundAt(stream, frames', k)
      BY <1>5, <2>2, <3>1 DEF FoundAt
    <3>3. EndOf(stream, frames', k) = e + l
      BY <1>5, <3>1 DEF EndOf
    <3>4. e + l <= e + l
      BY <1>2, <1>7
    <3> QED
      BY <1>10, <2>2, <3>2, <3>3, <3>4
  <2>3. CASE PayloadIsValid(stream, e) /\ k # n + 1
    <3>1. k \in DOMAIN frames /\ Len(frames') = n + 1
      BY <1>8, <1>10, <2>3
    <3>2. k = n => EndOf(stream, frames', k) <= frames'[k + 1].at
      BY <1>10, <1>11, <1>14, <1>15, <2>3, <3>1
    <3>3. k # n => k + 1 \in DOMAIN frames
      BY <1>8, <3>1
    <3>4. k # n => EndOf(stream, frames', k) <= frames'[k + 1].at
      BY <1>10, <1>14, <1>15, <3>1, <3>3
    <3> QED
      BY <1>15, <1>16, <3>1, <3>2, <3>4
  <2> QED
    BY <2>1, <2>2, <2>3
<1> QED
  BY <1>1, <1>13, <1>17 DEF ParserInv

\* A chunk arrives: what was passed stays so, and the rest is in the buffer.
LEMMA ChunkArrives ==
  ASSUME Typed, ParserInv, NEW chunk \in Seq(Bytes), AddData(chunk)
  PROVE  ParserInv'
<1> DEFINE p == Place
           b == buf \o chunk
           s == stream \o chunk
<1>1. buf' = b /\ stream' = s /\ frames' = frames /\ pc' = "frames"
  BY DEF AddData
<1>2. /\ buf \in Seq(Bytes) /\ stream \in Seq(Bytes) /\ Len(buf) \in Nat /\ Len(stream) \in Nat /\ Len(chunk) \in Nat
      /\ p \in Nat \ {0} /\ p + Len(buf) = Len(stream) + 1 /\ p = Len(stream) - Len(buf) + 1
  BY Placed DEF ParserInv, Place
<1>3. /\ b \in Seq(Bytes) /\ Len(b) = Len(buf) + Len(chunk)
      /\ s \in Seq(Bytes) /\ Len(s) = Len(stream) + Len(chunk)
      /\ \A i \in 1..Len(buf) : b[i] = buf[i]
      /\ \A i \in 1..Len(stream) : s[i] = stream[i]
      /\ \A i \in 1..Len(chunk) : b[Len(buf) + i] = chunk[i] /\ s[Len(stream) + i] = chunk[i]
  <2>1. \A u \in Seq(Bytes) :
          /\ u \o chunk \in Seq(Bytes) /\ Len(u \o chunk) = Len(u) + Len(chunk)
          /\ \A i \in 1..Len(u) : (u \o chunk)[i] = u[i]
          /\ \A i \in 1..Len(chunk) : (u \o chunk)[Len(u) + i] = chunk[i]
    OBVIOUS
  <2> QED
    BY <1>2, <2>1, Zenon
<1>4. Within(buf, stream, p - 1)
  BY DEF ParserInv
<1> HIDE DEF p, b, s
<1>5. Place' = p
  <2>1. Len(s) - Len(b) + 1 = p
    BY <1>2, <1>3
  <2> QED
    BY <1>1, <2>1 DEF Place
<1>6. Within(stream, s, 0)
  <2>1. \A j \in 1..Len(stream) : j + 0 = j /\ j \in 1..Len(s)
    BY <1>2, <1>3
  <2> QED
    BY <1>3, <2>1 DEF Within
<1>7. Within(b, s, p - 1)
  <2> SUFFICES ASSUME NEW j \in 1..Len(b) PROVE j + (p - 1) \in 1..Len(s) /\ s[j + (p - 1)] = b[j]
    BY DEF Within
  <2>1. CASE j \in 1..Len(buf)
    <3>1. j + (p - 1) \in 1..Len(stream) /\ stream[j + (p - 1)] = buf[j]
      BY <1>4, <2>1 DEF Within
    <3>2. j + (p - 1) \in 1..Len(s)
      BY <1>2, <1>3, <3>1
    <3>3. s[j + (p - 1)] = stream[j + (p - 1)] /\ b[j] = buf[j]
      BY <1>3, <2>1, <3>1, Zenon
    <3> QED
      BY <3>1, <3>2, <3>3, Zenon
  <2>2. CASE j \notin 1..Len(buf)
    <3>1. j - Len(buf) \in 1..Len(chunk) /\ j = Len(buf) + (j - Len(buf)) /\ j + (p - 1) = Len(stream) + (j - Len(buf))
      BY <1>2, <1>3, <2>2
    <3>2. b[Len(buf) + (j - Len(buf))] = chunk[j - Len(buf)] /\ s[Len(stream) + (j - Len(buf))] = chunk[j - Len(buf)]
      BY <1>3, <3>1
    <3>3. j + (p - 1) \in 1..Len(s)
      BY <1>2, <1>3, <3>1
    <3> QED
      BY <3>1, <3>2, <3>3, Zenon
  <2> QED
    BY <2>1, <2>2
<1>8. \A i \in 1..(p - 1) : Passed(s, frames, i)
  <2> SUFFICES ASSUME NEW i \in 1..(p - 1) PROVE Passed(s, frames, i)
    OBVIOUS
  <2>1. i \in 1..Len(stream) /\ Passed(stream, frames, i)
    BY <1>2 DEF ParserInv, p
  <2> QED
    BY <1>2, <1>3, <1>6, <2>1, MoreBytes
<1>9. \A k \in DOMAIN frames : FoundAt(s, frames, k) /\ EndOf(stream, frames, k) = EndOf(s, frames, k)
  BY <1>2, <1>3, <1>6, MoreBytes DEF ParserInv
<1>10. \A k \in DOMAIN frames : /\ FoundAt(s, frames, k) /\ EndOf(s, frames, k) <= p
                                /\ k # Len(frames) => EndOf(s, frames, k) <= frames[k + 1].at
  BY <1>9 DEF ParserInv, p
<1> QED
  BY <1>1, <1>2, <1>5, <1>7, <1>8, <1>10 DEF ParserInv

\* Every pass of the loop, every chunk and every reset keep it.
LEMMA StepPasses == Inv /\ ParserInv /\ [Next]_vars => ParserInv'
<1> SUFFICES ASSUME Inv, ParserInv, [Next]_vars PROVE ParserInv'
  OBVIOUS
<1>1. /\ Typed /\ buf \in Seq(Bytes) /\ Len(buf) \in Nat
  BY DEF Inv, Typed
<1>2. CASE TooShort \/ InFlight
  <2>1. UNCHANGED <<buf, stream, frames>> /\ NoneFits /\ pc' = "idle"
    BY <1>1, <1>2 DEF TooShort, InFlight, AtHeader, InLoop, Rest, Wait, NoneFits, HeaderAt
  <2> QED
    BY <2>1 DEF ParserInv, Place, NoneFits
<1>3. CASE Synchronize
  <2>1. PICK i \in 2..Len(buf) : (\A j \in 1..(i - 1) : ~MagicAt(buf, j)) /\ Discard(i - 1)
    BY <1>3 DEF Synchronize
  <2>2. i - 1 \in 0..Len(buf) /\ pc' # "idle" /\ UNCHANGED stream
    BY <1>1, <1>3 DEF Synchronize, InLoop, Again
  <2>3. \A j \in 1..(i - 1) : NoMagicAt(buf, j)
    <3> SUFFICES ASSUME NEW j \in 1..(i - 1) PROVE NoMagicAt(buf, j)
      OBVIOUS
    <3>1. j + 1 <= Len(buf)
      BY <1>1
    <3> QED
      BY <2>1, <3>1 DEF MagicAt, NoMagicAt
  <2> QED
    BY <1>1, <2>1, <2>2, <2>3, DiscardPasses
<1>4. CASE NoMagic
  <2> DEFINE n == SkippedWithoutMagic
  <2>1. /\ n \in 0..Len(buf) /\ n >= Len(buf) - 1 /\ (n = Len(buf) => buf[Len(buf)] # Magic0)
        /\ \A i \in 1..Len(buf) : ~MagicAt(buf, i)
    BY <1>1, <1>4 DEF SkippedWithoutMagic, NoMagic
  <2>2. Discard(n) /\ UNCHANGED stream /\ Drop(n)
    BY <1>4 DEF NoMagic, InLoop, Discard
  <2> HIDE DEF n
  <2>3. NoneFits'
    <3>1. Len(buf') = Len(buf) - n
      BY <1>1, <2>1, <2>2, DropType
    <3>2. Len(buf) - n < 6
      BY <1>1, <2>1
    <3> QED
      BY <3>1, <3>2 DEF NoneFits
  <2>4. \A i \in 1..n : NoMagicAt(buf, i)
    <3> SUFFICES ASSUME NEW i \in 1..n PROVE NoMagicAt(buf, i)
      OBVIOUS
    <3>1. i \in 1..Len(buf) /\ (i + 1 <= Len(buf) \/ i = Len(buf))
      BY <1>1, <2>1
    <3>2. i = Len(buf) => n = Len(buf)
      BY <1>1, <2>1
    <3> QED
      BY <2>1, <3>1, <3>2 DEF MagicAt, NoMagicAt
  <2> QED
    BY <1>1, <2>1, <2>2, <2>3, <2>4, DiscardPasses
<1>5. CASE BadHeader
  <2>1. 1 \in 0..Len(buf) /\ 1 + 5 <= Len(buf) /\ ~HeaderIsValid(buf, 1) /\ Discard(1) /\ UNCHANGED stream /\ pc' # "idle"
    BY <1>1, <1>5 DEF BadHeader, AtHeader, InLoop, Again, DiscardOnBadHeader
  <2>2. \A i \in 1..1 : i = 1
    OBVIOUS
  <2> QED
    BY <1>1, <2>1, <2>2, DiscardPasses
<1>6. CASE Frame
  BY <1>1, <1>6, FramePasses
<1>7. CASE Reset
  BY <1>7 DEF Reset, ParserInv, Place, Within, NoneFits
<1>8. ASSUME NEW n \in 1..MaxChunk, NEW chunk \in [1..n -> Bytes], AddData(chunk) PROVE ParserInv'
  <2>1. chunk \in Seq(Bytes)
    OBVIOUS
  <2> QED
    BY <1>1, <1>8, <2>1, ChunkArrives
<1>9. CASE UNCHANGED vars
  BY <1>9 DEF vars, ParserInv, Place, NoneFits
<1> QED
  BY <1>2, <1>3, <1>4, <1>5, <1>6, <1>7, <1>8, <1>9 DEF Next, Loop

\* So what is found is there, and at rest what is there is found.
LEMMA PassedIsFound == Inv /\ ParserInv => FramesAreThoseSent
<1> SUFFICES ASSUME Inv, ParserInv PROVE FoundFramesAreThere /\ CleanFramesAreFound
  BY DEF FramesAreThoseSent
<1>1. FoundFramesAreThere
  <2> SUFFICES ASSUME NEW k \in DOMAIN frames
               PROVE  LET i == frames[k].at IN
                      /\ HeaderAt(stream, i) /\ HeaderIsValid(stream, i)
                      /\ i + FrameLen(stream, i) - 1 <= Len(stream) /\ PayloadIsValid(stream, i)
                      /\ frames[k] = FrameAt(stream, i, i)
                      /\ k # Len(frames) => i + FrameLen(stream, i) <= frames[k + 1].at
    BY DEF FoundFramesAreThere
  <2>1. FoundAt(stream, frames, k) /\ (k # Len(frames) => EndOf(stream, frames, k) <= frames[k + 1].at)
    BY DEF ParserInv
  <2> QED
    BY <2>1 DEF FoundAt, FrameFits, EndOf
<1>2. CleanFramesAreFound
  <2> SUFFICES ASSUME pc = "idle", NEW i \in 1..Len(stream), CleanFrameAt(i)
               PROVE  \E k \in DOMAIN frames : frames[k].at = i
    BY DEF CleanFramesAreFound
  <2>1. /\ HeaderAt(stream, i) /\ HeaderIsValid(stream, i) /\ PayloadIsValid(stream, i)
        /\ i + FrameLen(stream, i) - 1 <= Len(stream)
        /\ \A j \in 1..(i - 1) : HeaderAt(stream, j) /\ HeaderIsValid(stream, j) => j + FrameLen(stream, j) <= i
    BY DEF CleanFrameAt
  <2> DEFINE p == Place
  <2>2. /\ p \in Nat \ {0} /\ p - 1 \in Nat /\ Len(buf) \in Nat /\ Len(stream) \in Nat /\ p + Len(buf) = Len(stream) + 1
        /\ buf \in Seq(Bytes) /\ stream \in Seq(Bytes) /\ Within(buf, stream, p - 1) /\ NoneFits
    BY Placed DEF Inv, ParserInv
  <2>3. \A j \in 1..(p - 1) : Passed(stream, frames, j)
    BY DEF ParserInv
  <2> HIDE DEF p
  <2>4. i + 5 <= Len(stream) /\ i \in Nat
    BY <2>1 DEF HeaderAt
  <2>5. \A j \in 1..Len(stream) : j + 5 <= Len(stream) => FrameLen(stream, j) \in 6..MaxFrameLen
    <3> SUFFICES ASSUME NEW j \in 1..Len(stream), j + 5 <= Len(stream) PROVE FrameLen(stream, j) \in 6..MaxFrameLen
      OBVIOUS
    <3>1. j + 3 \in 1..Len(stream)
      BY <2>2, SMTT(20)
    <3>2. stream[j + 3] \in Bytes
      BY <2>2, <3>1
    <3> QED
      BY <3>2, LengthOfFrame, Zenon
  <2>6. ~Reached(stream, i)
    <3> SUFFICES ASSUME NEW j \in 1..(i - 1), HeaderAt(stream, j), HeaderIsValid(stream, j), i < j + FrameLen(stream, j)
                 PROVE  FALSE
      BY DEF Reached
    <3>1. j + FrameLen(stream, j) <= i
      BY <2>1
    <3>2. FrameLen(stream, j) \in Int
      BY <2>2, <2>5 DEF HeaderAt
    <3> QED
      BY <2>4, <3>1, <3>2
  <2>7. CASE i <= p - 1
    <3>1. Passed(stream, frames, i) /\ ~NoMagicAt(stream, i)
      BY <2>1, <2>2, <2>3, <2>4, <2>7 DEF HeaderAt, MagicAt, NoMagicAt
    <3> QED
      BY <2>1, <2>6, <3>1 DEF Passed
  <2>8. CASE i > p - 1
    <3>1. ~(Len(buf) < 6)
      BY <2>2, <2>4, <2>8
    <3>2. HeaderAt(buf, 1) /\ HeaderIsValid(buf, 1) /\ Len(buf) < FrameLen(buf, 1) /\ 1 \in 1..Len(buf) /\ 1 + 5 <= Len(buf)
          /\ p = 1 + (p - 1)
      BY <2>2, <3>1 DEF NoneFits
    <3>3. HeaderAt(stream, p) /\ HeaderIsValid(stream, p) /\ FrameLen(stream, p) = FrameLen(buf, 1)
          /\ FrameLen(buf, 1) \in 6..MaxFrameLen
      BY <2>2, <3>2, FramesWithin
    <3> DEFINE l == FrameLen(stream, p)
               m == FrameLen(stream, i)
    <3>4. l \in Nat /\ Len(buf) < l /\ m \in Nat /\ m >= 6 /\ i + m - 1 <= Len(stream)
      BY <2>1, <2>4, <2>5, <3>2, <3>3
    <3>5. CASE i = p
      <4>1. l = m
        BY <3>5
      <4> HIDE DEF l, m
      <4> QED
        BY <2>2, <3>4, <3>5, <4>1
    <3>6. CASE i # p
      <4>1. p \in 1..(i - 1)
        BY <2>2, <2>4, <2>8, <3>6
      <4>2. p + l <= i
        BY <2>1, <3>3, <4>1
      <4> HIDE DEF l, m
      <4> QED
        BY <2>2, <2>4, <3>4, <4>2
    <3> QED
      BY <3>5, <3>6
  <2> QED
    BY <2>2, <2>4, <2>7, <2>8
<1> QED
  BY <1>1, <1>2

\* FrameParser.frames, "re-sync from the next byte": on any stream, with any noise and damage
\* and in any split into reads, every frame found is in the stream, whole and valid, in order
\* and no byte in two; and once the loop is left every valid frame that no earlier valid header
\* reaches into has been found.
THEOREM FramesFound == Spec => []FramesAreThoseSent
<1>1. Init => Inv /\ ParserInv
  BY DEF Init, Inv, Typed, Counted, ParserInv, Place, Within, NoneFits
<1> QED
  BY <1>1, StepInv, StepPasses, PassedIsFound, PTL DEF Spec
=============================================================================
