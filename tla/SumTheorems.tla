---------------------------- MODULE SumTheorems -----------------------------
(***************************************************************************)
(* Sums of an integer function over a finite set, the form in which the    *)
(* invariants about money are stated.  The library defines a sum by a      *)
(* recursive function over the subsets of the set that takes out a CHOSEN  *)
(* element at a time; the lemmas below say that any element may be taken   *)
(* out, and all the other proofs use is derived from that.  Induction over *)
(* the subsets is the existence of a smallest counterexample.              *)
(***************************************************************************)
EXTENDS Integers, FiniteSets, Functions, Sequences, SequencesExt, FiniteSetTheorems,
        WellFoundedInduction, TLAPS

Some(T) == CHOOSE x \in T : TRUE
RecursiveSum(g, f, S) ==
    g = [T \in SUBSET S |-> IF T = {} THEN 0 ELSE f[Some(T)] + g[T \ {Some(T)}]]

LEMMA ImageFinite ==
    ASSUME NEW S, IsFiniteSet(S), NEW p
    PROVE  IsFiniteSet({p[i] : i \in S})
  <1> DEFINE f == [i \in S |-> p[i]]
             T == {p[i] : i \in S}
  <1>1. f \in Surjection(S, T)
    BY DEF Surjection
  <1> HIDE DEF f, T
  <1>2. IsFiniteSet(T)
    BY <1>1, FS_Surjection
  <1> QED
    BY <1>2 DEF T

(* The sum is the value of that recursive function at the whole set. *)
LEMMA SumDefined ==
    ASSUME NEW f, NEW S
    PROVE  SumFunctionOnSet(f, S) = (CHOOSE g : RecursiveSum(g, f, S))[S]
  BY DEF SumFunctionOnSet, FoldFunctionOnSet, MapThenFoldSet, RecursiveSum, Some

(* Among some subsets of a finite set one has none of the others inside. *)
LEMMA SmallestSubset ==
    ASSUME NEW S, IsFiniteSet(S), NEW H \in SUBSET SUBSET S, H # {}
    PROVE  \E T \in H : \A U \in H : U \subseteq T => U = T
  <1>1. IsWellFoundedOn(StrictSubsetOrdering(S), FiniteSubsetsOf(S))
    BY FS_StrictSubsetOrderingWellFounded
  <1>2. H \subseteq FiniteSubsetsOf(S)
    BY FS_FiniteSubsetsOfFinite
  <1>3. PICK T \in H : \A U \in H : ~ (<<U, T>> \in StrictSubsetOrdering(S))
    BY <1>1, <1>2, WFMin
  <1> QED
    BY <1>3 DEF StrictSubsetOrdering

(* Among some natural numbers one is the smallest. *)
LEMMA LeastNumber ==
    ASSUME NEW H \in SUBSET Nat, H # {}
    PROVE  \E n \in H : \A k \in H : n <= k
  <1>1. PICK b \in H : TRUE
    OBVIOUS
  <1> DEFINE S == 0 .. b
             F == {0 .. n : n \in {k \in H : k <= b}}
  <1>2. F \in SUBSET SUBSET S /\ F # {}
    BY <1>1
  <1>3. IsFiniteSet(S)
    <2>1. 0 \in Int /\ b \in Int
      BY <1>1
    <2> QED
      BY <2>1, FS_Interval
  <1>4. PICK T \in F : \A U \in F : U \subseteq T => U = T
    <2> HIDE DEF F, S
    <2> QED
      BY <1>2, <1>3, SmallestSubset
  <1>5. PICK n \in H : n <= b /\ T = 0 .. n
    BY <1>4
  <1>6. ASSUME NEW k \in H, k < n PROVE FALSE
    <2>1. 0 .. k \in F /\ 0 .. k \subseteq 0 .. n /\ n \in 0 .. n /\ n \notin 0 .. k
      BY <1>1, <1>5, <1>6
    <2> QED
      BY <1>4, <1>5, <2>1
  <1> QED
    BY <1>6

(* What holds of 0 and passes from each number to the next holds up to n. *)
LEMMA PrefixInduction ==
    ASSUME NEW n \in Nat, NEW G, 0 \in G, \A k \in 1 .. n : k - 1 \in G => k \in G
    PROVE  \A k \in 0 .. n : k \in G
  <1> DEFINE H == {k \in 0 .. n : k \notin G}
  <1> SUFFICES ASSUME H # {} PROVE FALSE
    OBVIOUS
  <1>1. H \in SUBSET Nat
    OBVIOUS
  <1>2. PICK k \in H : \A m \in H : k <= m
    <2> HIDE DEF H
    <2> QED
      BY <1>1, LeastNumber
  <1>3. k # 0 /\ k \in 1 .. n /\ k - 1 \in 0 .. n
    OBVIOUS
  <1>4. k - 1 \in G
    BY <1>2, <1>3
  <1> QED
    BY <1>3, <1>4

-----------------------------------------------------------------------------
(* The recursive function: it exists, and where two of them are defined they
   are equal. *)

LEMMA SomeMember ==
    ASSUME NEW T, T # {}
    PROVE  Some(T) \in T
  BY DEF Some

LEMMA RecursiveValue ==
    ASSUME NEW f, NEW g, NEW S, RecursiveSum(g, f, S), NEW T \in SUBSET S
    PROVE  g[T] = (IF T = {} THEN 0 ELSE f[Some(T)] + g[T \ {Some(T)}])
  <1> DEFINE body(h) == [U \in SUBSET S |-> IF U = {} THEN 0 ELSE f[Some(U)] + h[U \ {Some(U)}]]
  <1>1. g = body(g)
    BY DEF RecursiveSum
  <1>2. body(g)[T] = IF T = {} THEN 0 ELSE f[Some(T)] + g[T \ {Some(T)}]
    OBVIOUS
  <1> QED
    BY <1>1, <1>2

LEMMA RecursiveSumsAgree ==
    ASSUME NEW f, NEW h, NEW S, IsFiniteSet(S), NEW R \in SUBSET S,
           \A x \in R : f[x] = h[x],
           NEW g, RecursiveSum(g, f, S), NEW k, RecursiveSum(k, h, R),
           NEW T \in SUBSET R
    PROVE  g[T] = k[T]
  <1> DEFINE H == {U \in SUBSET R : g[U] # k[U]}
  <1> SUFFICES ASSUME H # {} PROVE FALSE
    OBVIOUS
  <1>1. IsFiniteSet(R)
    BY FS_Subset
  <1>2. PICK U \in H : \A V \in H : V \subseteq U => V = U
    <2> HIDE DEF H
    <2>1. H \in SUBSET SUBSET R
      BY DEF H
    <2> QED
      BY <1>1, <2>1, SmallestSubset
  <1>3. g[U] = (IF U = {} THEN 0 ELSE f[Some(U)] + g[U \ {Some(U)}])
    <2>1. U \in SUBSET S /\ RecursiveSum(g, f, S)
      OBVIOUS
    <2>2. U \in SUBSET S /\ RecursiveSum(g, f, S) => g[U] = (IF U = {} THEN 0 ELSE f[Some(U)] + g[U \ {Some(U)}])
      BY ONLY RecursiveValue
    <2> QED
      BY <2>1, <2>2
  <1>4. k[U] = (IF U = {} THEN 0 ELSE h[Some(U)] + k[U \ {Some(U)}])
    BY RecursiveValue
  <1>5. U # {}
    BY <1>3, <1>4
  <1>6. Some(U) \in U
    BY <1>5, SomeMember
  <1>7. g[U \ {Some(U)}] = k[U \ {Some(U)}]
    BY <1>2, <1>6
  <1> QED
    BY <1>3, <1>4, <1>6, <1>7

LEMMA RecursiveSumExists ==
    ASSUME NEW f, NEW S, IsFiniteSet(S)
    PROVE  \E g : RecursiveSum(g, f, S)
  <1> DEFINE H == {U \in SUBSET S : ~ \E g : RecursiveSum(g, f, U)}
  <1> SUFFICES ASSUME H # {} PROVE FALSE
    OBVIOUS
  <1>1. PICK T \in H : \A V \in H : V \subseteq T => V = T
    <2> HIDE DEF H
    <2>1. H \in SUBSET SUBSET S
      BY DEF H
    <2> QED
      BY <2>1, SmallestSubset
  <1> DEFINE part(U) == CHOOSE g : RecursiveSum(g, f, U)
  <1>2. \A U \in SUBSET T : U # T => RecursiveSum(part(U), f, U)
    BY <1>1
  <1> DEFINE below == [U \in SUBSET T |-> part(U)[U]]
             value == IF T = {} THEN 0 ELSE f[Some(T)] + below[T \ {Some(T)}]
             whole == [U \in SUBSET T |-> IF U = T THEN value ELSE below[U]]
             body == [U \in SUBSET T |-> IF U = {} THEN 0 ELSE f[Some(U)] + whole[U \ {Some(U)}]]
  <1>3. ASSUME NEW U \in SUBSET T
        PROVE  whole[U] = IF U = {} THEN 0 ELSE f[Some(U)] + whole[U \ {Some(U)}]
    <2>1. CASE U = {}
      <3>1. CASE T = {}
        BY <2>1, <3>1
      <3>2. CASE T # {}
        <4>1. RecursiveSum(part(U), f, U)
          BY <1>2, <2>1, <3>2
        <4>2. part(U)[U] = 0
          <5> HIDE DEF part
          <5> QED
            BY <4>1, <2>1, RecursiveValue
        <4> QED
          BY <4>2, <2>1, <3>2
      <3> QED
        BY <3>1, <3>2
    <2>2. CASE U = T /\ U # {}
      <3>1. Some(T) \in T
        BY <2>2, SomeMember
      <3> QED
        BY <2>2, <3>1
    <2>3. CASE U # T /\ U # {}
      <3> DEFINE V == U \ {Some(U)}
      <3>1. Some(U) \in U
        BY <2>3, SomeMember
      <3>2. V \in SUBSET U /\ V # T /\ V # U /\ V \in SUBSET T
        BY <3>1
      <3>3. RecursiveSum(part(U), f, U) /\ RecursiveSum(part(V), f, V)
        BY <1>2, <2>3, <3>2
      <3>4. part(U)[U] = f[Some(U)] + part(U)[V]
        <4> HIDE DEF part
        <4> QED
          BY <3>3, <2>3, RecursiveValue
      <3>5. part(U)[V] = part(V)[V]
        <4>1. IsFiniteSet(U)
          <5>1. U \in SUBSET S
            OBVIOUS
          <5> QED
            BY <5>1, FS_Subset
        <4> HIDE DEF part, V
        <4> QED
          BY <3>2, <3>3, <4>1, RecursiveSumsAgree
      <3>6. whole[U] = part(U)[U] /\ whole[V] = part(V)[V]
        BY <2>3, <3>2
      <3> QED
        BY <3>4, <3>5, <3>6, <2>3
    <2> QED
      BY <2>1, <2>2, <2>3
  <1>4. whole = body
    <2>1. \A U \in SUBSET T : whole[U] = body[U]
      <3> TAKE U \in SUBSET T
      <3>1. body[U] = IF U = {} THEN 0 ELSE f[Some(U)] + whole[U \ {Some(U)}]
        OBVIOUS
      <3> HIDE DEF body, whole
      <3> QED
        BY <3>1, <1>3
    <2>2. whole = [U \in SUBSET T |-> whole[U]] /\ body = [U \in SUBSET T |-> body[U]]
      OBVIOUS
    <2> HIDE DEF body, whole
    <2> QED
      BY <2>1, <2>2
  <1>5. RecursiveSum(whole, f, T)
    <2>1. body = [U \in SUBSET T |-> IF U = {} THEN 0 ELSE f[Some(U)] + whole[U \ {Some(U)}]]
      OBVIOUS
    <2> HIDE DEF body, whole
    <2> QED
      BY <1>4, <2>1 DEF RecursiveSum
  <1> QED
    <2> HIDE DEF whole
    <2> QED
      BY <1>1, <1>5

(* The value of the sum over a set, from any function that satisfies the
   recursion on a set around it. *)
LEMMA SumIsRecursive ==
    ASSUME NEW f, NEW S, IsFiniteSet(S), NEW g, RecursiveSum(g, f, S), NEW T \in SUBSET S
    PROVE  SumFunctionOnSet(f, T) = g[T]
  <1> DEFINE k == CHOOSE h : RecursiveSum(h, f, T)
  <1>1. IsFiniteSet(T)
    BY FS_Subset
  <1>2. RecursiveSum(k, f, T)
    <2>1. \E h : RecursiveSum(h, f, T)
      BY <1>1, RecursiveSumExists
    <2> QED
      BY <2>1
  <1>3. SumFunctionOnSet(f, T) = k[T]
    BY SumDefined
  <1> HIDE DEF k
  <1>4. g[T] = k[T]
    BY <1>2, RecursiveSumsAgree
  <1> QED
    BY <1>3, <1>4

-----------------------------------------------------------------------------
(* What the library's definition says once it is known to be well defined. *)

LEMMA SumEmpty ==
    ASSUME NEW f
    PROVE  SumFunctionOnSet(f, {}) = 0
  <1>1. IsFiniteSet({})
    BY FS_EmptySet
  <1>2. PICK g : RecursiveSum(g, f, {})
    BY <1>1, RecursiveSumExists
  <1>3. g[{}] = 0
    BY <1>2, RecursiveValue
  <1> QED
    BY <1>1, <1>2, <1>3, SumIsRecursive

LEMMA SumTakesSome ==
    ASSUME NEW f, NEW S, IsFiniteSet(S), S # {}
    PROVE  SumFunctionOnSet(f, S) = f[Some(S)] + SumFunctionOnSet(f, S \ {Some(S)})
  <1>1. PICK g : RecursiveSum(g, f, S)
    BY RecursiveSumExists
  <1>2. g[S] = f[Some(S)] + g[S \ {Some(S)}]
    BY <1>1, RecursiveValue
  <1> QED
    BY <1>1, <1>2, SumIsRecursive

(* The sum depends on the summands at the set's elements only. *)
LEMMA SumCongruence ==
    ASSUME NEW S, IsFiniteSet(S), NEW f, NEW h, \A x \in S : f[x] = h[x]
    PROVE  SumFunctionOnSet(f, S) = SumFunctionOnSet(h, S)
  <1>1. PICK g : RecursiveSum(g, f, S)
    BY RecursiveSumExists
  <1>2. PICK k : RecursiveSum(k, h, S)
    BY RecursiveSumExists
  <1>3. g[S] = k[S]
    BY <1>1, <1>2, RecursiveSumsAgree
  <1> QED
    BY <1>1, <1>2, <1>3, SumIsRecursive

LEMMA SumInt ==
    ASSUME NEW S, IsFiniteSet(S), NEW f, \A x \in S : f[x] \in Int
    PROVE  SumFunctionOnSet(f, S) \in Int
  <1> DEFINE H == {U \in SUBSET S : SumFunctionOnSet(f, U) \notin Int}
  <1> SUFFICES ASSUME H # {} PROVE FALSE
    OBVIOUS
  <1>1. PICK T \in H : \A V \in H : V \subseteq T => V = T
    <2> HIDE DEF H
    <2>1. H \in SUBSET SUBSET S
      BY DEF H
    <2> QED
      BY <2>1, SmallestSubset
  <1>2. IsFiniteSet(T)
    BY FS_Subset
  <1>3. T # {}
    BY SumEmpty
  <1>4. Some(T) \in T
    BY <1>3, SomeMember
  <1>5. SumFunctionOnSet(f, T \ {Some(T)}) \in Int
    BY <1>1, <1>4
  <1>6. SumFunctionOnSet(f, T) = f[Some(T)] + SumFunctionOnSet(f, T \ {Some(T)})
    BY <1>2, <1>3, SumTakesSome
  <1>7. f[Some(T)] \in Int
    BY <1>4
  <1> QED
    BY <1>5, <1>6, <1>7

(* Any element may be taken out first. *)
LEMMA SumRemove ==
    ASSUME NEW S, IsFiniteSet(S), NEW f, \A x \in S : f[x] \in Int, NEW a \in S
    PROVE  SumFunctionOnSet(f, S) = f[a] + SumFunctionOnSet(f, S \ {a})
  <1> DEFINE H == {U \in SUBSET S : \E x \in U :
                    SumFunctionOnSet(f, U) # f[x] + SumFunctionOnSet(f, U \ {x})}
  <1> SUFFICES ASSUME H # {} PROVE FALSE
    OBVIOUS
  <1>1. PICK T \in H : \A V \in H : V \subseteq T => V = T
    <2> HIDE DEF H
    <2>1. H \in SUBSET SUBSET S
      BY DEF H
    <2> QED
      BY <2>1, SmallestSubset
  <1>2. PICK x \in T : SumFunctionOnSet(f, T) # f[x] + SumFunctionOnSet(f, T \ {x})
    OBVIOUS
  <1>3. \A V \in SUBSET T : IsFiniteSet(V)
    BY FS_Subset
  <1> DEFINE y == Some(T)
  <1>4. y \in T
    BY <1>2, SomeMember
  <1>5. SumFunctionOnSet(f, T) = f[y] + SumFunctionOnSet(f, T \ {y})
    BY <1>3, <1>2, SumTakesSome
  <1> HIDE DEF y
  <1>6. x # y
    BY <1>2, <1>5
  <1>7. SumFunctionOnSet(f, T \ {y}) = f[x] + SumFunctionOnSet(f, (T \ {y}) \ {x})
    <2>1. T \ {y} \notin H
      BY <1>1, <1>4
    <2> QED
      BY <2>1, <1>6
  <1>8. SumFunctionOnSet(f, T \ {x}) = f[y] + SumFunctionOnSet(f, (T \ {x}) \ {y})
    <2>1. T \ {x} \notin H
      BY <1>1
    <2> QED
      BY <2>1, <1>6, <1>4
  <1>9. (T \ {y}) \ {x} = (T \ {x}) \ {y}
    OBVIOUS
  <1>10. SumFunctionOnSet(f, (T \ {x}) \ {y}) \in Int
    BY <1>3, SumInt
  <1>11. f[x] \in Int /\ f[y] \in Int
    BY <1>4
  <1> QED
    BY <1>2, <1>5, <1>7, <1>8, <1>9, <1>10, <1>11

LEMMA SumAdd ==
    ASSUME NEW S, IsFiniteSet(S), NEW f, NEW a, a \notin S,
           \A x \in S \cup {a} : f[x] \in Int
    PROVE  SumFunctionOnSet(f, S \cup {a}) = f[a] + SumFunctionOnSet(f, S)
  <1>1. IsFiniteSet(S \cup {a})
    BY FS_AddElement
  <1>2. (S \cup {a}) \ {a} = S
    OBVIOUS
  <1>3. SumFunctionOnSet(f, S \cup {a}) = f[a] + SumFunctionOnSet(f, (S \cup {a}) \ {a})
    BY <1>1, SumRemove
  <1> QED
    BY <1>2, <1>3

(* One summand changes. *)
LEMMA SumChange ==
    ASSUME NEW S, IsFiniteSet(S), NEW a \in S, NEW f, NEW h,
           \A x \in S : f[x] \in Int, h[a] \in Int, \A x \in S \ {a} : h[x] = f[x]
    PROVE  SumFunctionOnSet(h, S) = SumFunctionOnSet(f, S) + (h[a] - f[a])
  <1> DEFINE R == S \ {a}
  <1>1. IsFiniteSet(R)
    BY FS_Subset
  <1>2. SumFunctionOnSet(f, S) = f[a] + SumFunctionOnSet(f, R)
    BY SumRemove
  <1>3. SumFunctionOnSet(h, S) = h[a] + SumFunctionOnSet(h, R)
    BY SumRemove
  <1>4. SumFunctionOnSet(h, R) = SumFunctionOnSet(f, R)
    BY <1>1, SumCongruence
  <1>5. SumFunctionOnSet(f, R) \in Int
    BY <1>1, SumInt
  <1>6. f[a] \in Int
    OBVIOUS
  <1> HIDE DEF R
  <1> QED
    BY <1>2, <1>3, <1>4, <1>5, <1>6

(* The sum over two sets with nothing in common. *)
LEMMA SumUnion ==
    ASSUME NEW S, IsFiniteSet(S), NEW T, IsFiniteSet(T), S \cap T = {}, NEW f,
           \A x \in S \cup T : f[x] \in Int
    PROVE  SumFunctionOnSet(f, S \cup T) = SumFunctionOnSet(f, S) + SumFunctionOnSet(f, T)
  <1> DEFINE H == {U \in SUBSET T :
                    SumFunctionOnSet(f, S \cup U) # SumFunctionOnSet(f, S) + SumFunctionOnSet(f, U)}
  <1>0. SumFunctionOnSet(f, S) \in Int
    BY SumInt
  <1> SUFFICES ASSUME H # {} PROVE FALSE
    OBVIOUS
  <1>1. PICK U \in H : \A V \in H : V \subseteq U => V = U
    <2> HIDE DEF H
    <2>1. H \in SUBSET SUBSET T
      BY DEF H
    <2> QED
      BY <2>1, SmallestSubset
  <1>2. PICK a \in U : TRUE
    <2>1. SumFunctionOnSet(f, S \cup {}) = SumFunctionOnSet(f, S) + SumFunctionOnSet(f, {})
      <3>1. S \cup {} = S
        OBVIOUS
      <3> QED
        BY <1>0, <3>1, SumEmpty
    <2> QED
      BY <2>1
  <1> DEFINE V == U \ {a}
  <1>3. IsFiniteSet(U) /\ IsFiniteSet(V)
    BY FS_Subset
  <1>4. SumFunctionOnSet(f, U) = f[a] + SumFunctionOnSet(f, V)
    BY <1>3, SumRemove
  <1>5. SumFunctionOnSet(f, S \cup V) = SumFunctionOnSet(f, S) + SumFunctionOnSet(f, V)
    BY <1>1, <1>2
  <1>6. SumFunctionOnSet(f, S \cup U) = f[a] + SumFunctionOnSet(f, S \cup V)
    <2>1. S \cup U = (S \cup V) \cup {a} /\ a \notin S \cup V
      BY <1>2
    <2>2. IsFiniteSet(S \cup V)
      BY <1>3, FS_Union
    <2>3. \A x \in (S \cup V) \cup {a} : f[x] \in Int
      OBVIOUS
    <2> HIDE DEF V
    <2> QED
      BY <2>1, <2>2, <2>3, SumAdd
  <1>7. f[a] \in Int /\ SumFunctionOnSet(f, V) \in Int
    BY <1>3, SumInt
  <1> HIDE DEF V
  <1>8. SumFunctionOnSet(f, S \cup U) = SumFunctionOnSet(f, S) + SumFunctionOnSet(f, U)
    BY <1>0, <1>4, <1>5, <1>6, <1>7
  <1> QED
    BY <1>8

(* Where nothing is added the sum is zero, and no element outside counts. *)
LEMMA SumZero ==
    ASSUME NEW S, IsFiniteSet(S), NEW f, \A x \in S : f[x] = 0
    PROVE  SumFunctionOnSet(f, S) = 0
  <1> DEFINE H == {U \in SUBSET S : SumFunctionOnSet(f, U) # 0}
  <1> SUFFICES ASSUME H # {} PROVE FALSE
    OBVIOUS
  <1>1. PICK T \in H : \A V \in H : V \subseteq T => V = T
    <2> HIDE DEF H
    <2>1. H \in SUBSET SUBSET S
      BY DEF H
    <2> QED
      BY <2>1, SmallestSubset
  <1>2. IsFiniteSet(T) /\ T # {}
    BY FS_Subset, SumEmpty
  <1>3. SumFunctionOnSet(f, T) = f[Some(T)] + SumFunctionOnSet(f, T \ {Some(T)})
    BY <1>2, SumTakesSome
  <1>4. Some(T) \in T
    BY <1>2, SomeMember
  <1>5. SumFunctionOnSet(f, T \ {Some(T)}) = 0
    BY <1>1, <1>4
  <1>6. f[Some(T)] = 0
    BY <1>4
  <1> QED
    BY <1>3, <1>5, <1>6

LEMMA SumOverPart ==
    ASSUME NEW S, IsFiniteSet(S), NEW R \in SUBSET S, NEW f,
           \A x \in R : f[x] \in Int, \A x \in S \ R : f[x] = 0
    PROVE  SumFunctionOnSet(f, S) = SumFunctionOnSet(f, R)
  <1>1. IsFiniteSet(R) /\ IsFiniteSet(S \ R)
    BY FS_Subset
  <1>2. S = R \cup (S \ R) /\ R \cap (S \ R) = {} /\ \A x \in S : f[x] \in Int
    OBVIOUS
  <1>3. SumFunctionOnSet(f, S \ R) = 0
    BY <1>1, SumZero
  <1>4. SumFunctionOnSet(f, R) \in Int
    BY <1>1, SumInt
  <1>5. SumFunctionOnSet(f, R \cup (S \ R)) = SumFunctionOnSet(f, R) + SumFunctionOnSet(f, S \ R)
    BY <1>1, <1>2, SumUnion
  <1>6. SumFunctionOnSet(f, R \cup (S \ R)) = SumFunctionOnSet(f, R)
    BY <1>3, <1>4, <1>5
  <1>7. R \cup (S \ R) = S
    BY <1>2
  <1> QED
    BY <1>6, <1>7

(* Larger summands, larger sum. *)
LEMMA SumMonotone ==
    ASSUME NEW S, IsFiniteSet(S), NEW f, NEW h,
           \A x \in S : f[x] \in Int /\ h[x] \in Int /\ f[x] <= h[x]
    PROVE  SumFunctionOnSet(f, S) <= SumFunctionOnSet(h, S)
  <1> DEFINE H == {U \in SUBSET S : ~ (SumFunctionOnSet(f, U) <= SumFunctionOnSet(h, U))}
  <1> SUFFICES ASSUME H # {} PROVE FALSE
    OBVIOUS
  <1>1. PICK T \in H : \A V \in H : V \subseteq T => V = T
    <2> HIDE DEF H
    <2>1. H \in SUBSET SUBSET S
      BY DEF H
    <2> QED
      BY <2>1, SmallestSubset
  <1>2. IsFiniteSet(T) /\ T # {}
    <2>1. SumFunctionOnSet(f, {}) = 0 /\ SumFunctionOnSet(h, {}) = 0
      BY SumEmpty
    <2>2. SumFunctionOnSet(f, {}) <= SumFunctionOnSet(h, {})
      BY <2>1
    <2>3. T # {}
      BY <2>2
    <2> QED
      BY <2>3, FS_Subset
  <1> DEFINE a == Some(T)
             V == T \ {a}
  <1>3. /\ SumFunctionOnSet(f, T) = f[a] + SumFunctionOnSet(f, V)
        /\ SumFunctionOnSet(h, T) = h[a] + SumFunctionOnSet(h, V)
    BY <1>2, SumTakesSome
  <1>4. a \in T
    BY <1>2, SomeMember
  <1>5. SumFunctionOnSet(f, V) <= SumFunctionOnSet(h, V)
    BY <1>1, <1>4
  <1>6. IsFiniteSet(V) /\ f[a] \in Int /\ h[a] \in Int /\ f[a] <= h[a]
    BY <1>4, FS_Subset
  <1>7. SumFunctionOnSet(f, V) \in Int /\ SumFunctionOnSet(h, V) \in Int
    BY <1>6, SumInt
  <1> HIDE DEF a, V
  <1> QED
    BY <1>3, <1>5, <1>6, <1>7

LEMMA SumNat ==
    ASSUME NEW S, IsFiniteSet(S), NEW f, \A x \in S : f[x] \in Nat
    PROVE  SumFunctionOnSet(f, S) \in Nat
  <1> DEFINE zero == [x \in S |-> 0]
  <1>1. SumFunctionOnSet(zero, S) = 0
    BY SumZero
  <1>2. \A x \in S : zero[x] \in Int /\ f[x] \in Int /\ zero[x] <= f[x]
    OBVIOUS
  <1> HIDE DEF zero
  <1>3. SumFunctionOnSet(zero, S) <= SumFunctionOnSet(f, S)
    BY <1>2, SumMonotone
  <1>4. SumFunctionOnSet(f, S) \in Int
    BY SumInt
  <1> QED
    BY <1>1, <1>3, <1>4

LEMMA SumSingle ==
    ASSUME NEW a, NEW f, f[a] \in Int
    PROVE  SumFunctionOnSet(f, {a}) = f[a]
  <1>1. IsFiniteSet({a}) /\ {a} \ {a} = {}
    BY FS_Singleton
  <1>2. SumFunctionOnSet(f, {a}) = f[a] + SumFunctionOnSet(f, {a} \ {a})
    BY <1>1, SumRemove
  <1> QED
    BY <1>1, <1>2, SumEmpty

(* A common factor. *)
LEMMA SumScaled ==
    ASSUME NEW S, IsFiniteSet(S), NEW f, \A x \in S : f[x] \in Int, NEW c \in Int,
           NEW h, \A x \in S : h[x] = c * f[x]
    PROVE  SumFunctionOnSet(h, S) = c * SumFunctionOnSet(f, S)
  <1> DEFINE H == {U \in SUBSET S : SumFunctionOnSet(h, U) # c * SumFunctionOnSet(f, U)}
  <1> SUFFICES ASSUME H # {} PROVE FALSE
    OBVIOUS
  <1>1. PICK T \in H : \A V \in H : V \subseteq T => V = T
    <2> HIDE DEF H
    <2>1. H \in SUBSET SUBSET S
      BY DEF H
    <2> QED
      BY <2>1, SmallestSubset
  <1>2. IsFiniteSet(T) /\ T # {}
    <2>1. SumFunctionOnSet(f, {}) = 0 /\ SumFunctionOnSet(h, {}) = 0 /\ c * 0 = 0
      BY SumEmpty
    <2> QED
      BY <2>1, FS_Subset
  <1> DEFINE a == Some(T)
             V == T \ {a}
  <1>3. /\ SumFunctionOnSet(f, T) = f[a] + SumFunctionOnSet(f, V)
        /\ SumFunctionOnSet(h, T) = h[a] + SumFunctionOnSet(h, V)
    BY <1>2, SumTakesSome
  <1>4. a \in T
    BY <1>2, SomeMember
  <1>5. SumFunctionOnSet(h, V) = c * SumFunctionOnSet(f, V)
    BY <1>1, <1>4
  <1>6. IsFiniteSet(V) /\ f[a] \in Int /\ h[a] = c * f[a]
    BY <1>4, FS_Subset
  <1>7. SumFunctionOnSet(f, V) \in Int
    BY <1>6, SumInt
  <1>8. \A x, y \in Int : c * (x + y) = c * x + c * y
    OBVIOUS
  <1>9. c * (f[a] + SumFunctionOnSet(f, V)) = c * f[a] + c * SumFunctionOnSet(f, V)
    BY <1>6, <1>7, <1>8
  <1> HIDE DEF a, V
  <1>10. SumFunctionOnSet(h, T) = c * SumFunctionOnSet(f, T)
    BY <1>3, <1>5, <1>6, <1>9
  <1> QED
    BY <1>10

(* The sum of a sum is the sum of the sums. *)
LEMMA SumPlus ==
    ASSUME NEW S, IsFiniteSet(S), NEW h, NEW f, NEW g,
           \A x \in S : f[x] \in Int /\ g[x] \in Int /\ h[x] = f[x] + g[x]
    PROVE  SumFunctionOnSet(h, S) = SumFunctionOnSet(f, S) + SumFunctionOnSet(g, S)
  <1> DEFINE H == {U \in SUBSET S : SumFunctionOnSet(h, U)
                                     # SumFunctionOnSet(f, U) + SumFunctionOnSet(g, U)}
  <1> SUFFICES ASSUME H # {} PROVE FALSE
    OBVIOUS
  <1>1. PICK T \in H : \A V \in H : V \subseteq T => V = T
    <2> HIDE DEF H
    <2>1. H \in SUBSET SUBSET S
      BY DEF H
    <2> QED
      BY <2>1, SmallestSubset
  <1>2. IsFiniteSet(T)
    BY FS_Subset
  <1>3. T # {}
    <2>1. SumFunctionOnSet(h, {}) = 0 /\ SumFunctionOnSet(f, {}) = 0 /\ SumFunctionOnSet(g, {}) = 0
      BY SumEmpty
    <2>2. {} \notin H
      BY <2>1
    <2> HIDE DEF H
    <2> QED
      BY <2>2
  <1>4. PICK a \in T : TRUE
    BY <1>3
  <1>5. /\ SumFunctionOnSet(f, T) = f[a] + SumFunctionOnSet(f, T \ {a})
        /\ SumFunctionOnSet(g, T) = g[a] + SumFunctionOnSet(g, T \ {a})
    BY <1>2, <1>4, SumRemove
  <1>6. SumFunctionOnSet(h, T) = h[a] + SumFunctionOnSet(h, T \ {a})
    <2>1. \A x \in T : h[x] \in Int
      OBVIOUS
    <2> QED
      BY <1>2, <1>4, <2>1, SumRemove
  <1>7. SumFunctionOnSet(h, T \ {a}) = SumFunctionOnSet(f, T \ {a}) + SumFunctionOnSet(g, T \ {a})
    <2>1. T \ {a} # T /\ T \ {a} \in SUBSET S /\ T \ {a} \subseteq T
      BY <1>4
    <2>2. T \ {a} \notin H
      BY <1>1, <2>1
    <2> QED
      BY <2>1, <2>2
  <1>8. IsFiniteSet(T \ {a})
    BY <1>2, FS_Subset
  <1>9. SumFunctionOnSet(f, T \ {a}) \in Int /\ SumFunctionOnSet(g, T \ {a}) \in Int
    BY <1>8, SumInt
  <1>10. f[a] \in Int /\ g[a] \in Int /\ h[a] = f[a] + g[a]
    BY <1>4
  <1> QED
    BY <1>5, <1>6, <1>7, <1>9, <1>10

(* Summing over indices or over what they index, each once. *)
LEMMA SumImage ==
    ASSUME NEW S, IsFiniteSet(S), NEW p, \A i, j \in S : p[i] = p[j] => i = j,
           NEW f, NEW h, \A i \in S : f[i] = h[p[i]] /\ f[i] \in Int
    PROVE  SumFunctionOnSet(f, S) = SumFunctionOnSet(h, {p[i] : i \in S})
  <1> DEFINE img(U) == {p[i] : i \in U}
             H == {U \in SUBSET S : SumFunctionOnSet(f, U) # SumFunctionOnSet(h, img(U))}
  <1> SUFFICES ASSUME H # {} PROVE FALSE
    OBVIOUS
  <1>1. PICK T \in H : \A V \in H : V \subseteq T => V = T
    <2> HIDE DEF H
    <2>1. H \in SUBSET SUBSET S
      BY DEF H
    <2> QED
      BY <2>1, SmallestSubset
  <1>2. PICK a \in T : TRUE
    <2>1. SumFunctionOnSet(f, {}) = 0 /\ SumFunctionOnSet(h, {}) = 0
      BY SumEmpty
    <2>2. img({}) = {}
      OBVIOUS
    <2> HIDE DEF img
    <2> QED
      BY <2>1, <2>2
  <1> DEFINE V == T \ {a}
  <1>3. IsFiniteSet(T) /\ IsFiniteSet(V)
    BY FS_Subset
  <1>4. SumFunctionOnSet(f, T) = f[a] + SumFunctionOnSet(f, V)
    BY <1>3, SumRemove
  <1>5. SumFunctionOnSet(f, V) = SumFunctionOnSet(h, img(V))
    BY <1>1, <1>2
  <1>6. img(T) = img(V) \cup {p[a]} /\ p[a] \notin img(V)
    BY <1>2
  <1>7. IsFiniteSet(img(V))
    BY <1>3, ImageFinite
  <1>8. \A x \in img(V) \cup {p[a]} : h[x] \in Int
    <2>1. \A i \in T : h[p[i]] \in Int
      OBVIOUS
    <2> QED
      BY <2>1
  <1> HIDE DEF img, V
  <1>9. SumFunctionOnSet(h, img(T)) = h[p[a]] + SumFunctionOnSet(h, img(V))
    BY <1>6, <1>7, <1>8, SumAdd
  <1>10. f[a] = h[p[a]]
    OBVIOUS
  <1> QED
    BY <1>4, <1>5, <1>9, <1>10

-----------------------------------------------------------------------------
(* Folds of a sequence from the left.  The library folds over the sets of
   indices, the greatest index last; what the proofs use is the value after
   each prefix.  The step is a function here: who folds with an operator shows
   that the operator satisfies the same recursion. *)

FoldsTo(g, step, base, seq, S) ==
    g = [T \in SUBSET S |-> IF T = {} THEN base ELSE step[<<g[T \ {Max(T)}], seq[Max(T)]>>]]

LEMMA MaxMember ==
    ASSUME NEW n \in Nat, NEW T \in SUBSET (1 .. n), T # {}
    PROVE  Max(T) \in T /\ \A y \in T : Max(T) >= y
  <1> DEFINE H == {n - x : x \in T}
  <1>1. H \in SUBSET Nat /\ H # {}
    <2>1. \A x \in T : n - x \in Nat
      OBVIOUS
    <2> QED
      BY <2>1
  <1>2. PICK k \in H : \A j \in H : k <= j
    <2> HIDE DEF H
    <2> QED
      BY <1>1, LeastNumber
  <1>3. PICK x \in T : k = n - x
    BY <1>2
  <1>4. \A y \in T : x >= y
    <2> TAKE y \in T
    <2>1. n - y \in H
      OBVIOUS
    <2>2. k <= n - y
      BY <1>2, <2>1
    <2> QED
      BY <1>3, <2>2
  <1> QED
    BY <1>4 DEF Max

LEMMA MaxPrefix ==
    ASSUME NEW n \in Nat \ {0}
    PROVE  Max(1 .. n) = n /\ (1 .. n) \ {n} = 1 .. n - 1 /\ 1 .. n # {}
  <1>1. n \in Nat /\ 1 .. n \in SUBSET (1 .. n) /\ 1 .. n # {}
    OBVIOUS
  <1>2. Max(1 .. n) \in 1 .. n /\ \A y \in 1 .. n : Max(1 .. n) >= y
    BY <1>1, MaxMember
  <1>3. n \in 1 .. n
    OBVIOUS
  <1>4. Max(1 .. n) >= n
    BY <1>2, <1>3
  <1> HIDE DEF Max
  <1> QED
    BY <1>2, <1>4

(* A finite set every part of which has a greatest element, as indices have. *)
HasGreatest(S) == IsFiniteSet(S) /\ \A U \in SUBSET S : U # {} => Max(U) \in U

LEMMA IndicesHaveGreatest ==
    ASSUME NEW n \in Nat
    PROVE  HasGreatest(1 .. n)
  <1>1. 1 \in Int /\ n \in Int
    OBVIOUS
  <1>2. IsFiniteSet(1 .. n)
    BY <1>1, FS_Interval
  <1> QED
    BY <1>2, MaxMember DEF HasGreatest

LEMMA FoldValue ==
    ASSUME NEW step, NEW base, NEW seq, NEW S, NEW g, FoldsTo(g, step, base, seq, S),
           NEW T \in SUBSET S
    PROVE  g[T] = IF T = {} THEN base ELSE step[<<g[T \ {Max(T)}], seq[Max(T)]>>]
  <1> DEFINE body(h) == [U \in SUBSET S |->
                            IF U = {} THEN base ELSE step[<<h[U \ {Max(U)}], seq[Max(U)]>>]]
  <1>1. g = body(g)
    BY DEF FoldsTo
  <1>2. body(g)[T] = IF T = {} THEN base ELSE step[<<g[T \ {Max(T)}], seq[Max(T)]>>]
    OBVIOUS
  <1> QED
    BY <1>1, <1>2

LEMMA FoldsAgree ==
    ASSUME NEW step, NEW base, NEW seq, NEW S, HasGreatest(S), NEW g, FoldsTo(g, step, base, seq, S),
           NEW R \in SUBSET S, NEW k, FoldsTo(k, step, base, seq, R),
           NEW T \in SUBSET R
    PROVE  g[T] = k[T]
  <1> DEFINE H == {U \in SUBSET R : g[U] # k[U]}
  <1> SUFFICES ASSUME H # {} PROVE FALSE
    OBVIOUS
  <1>1. IsFiniteSet(R)
    BY FS_Subset DEF HasGreatest
  <1>2. PICK U \in H : \A V \in H : V \subseteq U => V = U
    <2> HIDE DEF H
    <2>1. H \in SUBSET SUBSET R
      BY DEF H
    <2> QED
      BY <1>1, <2>1, SmallestSubset
  <1>3. g[U] = IF U = {} THEN base ELSE step[<<g[U \ {Max(U)}], seq[Max(U)]>>]
    <2>1. U \in SUBSET S /\ FoldsTo(g, step, base, seq, S)
      OBVIOUS
    <2>2. U \in SUBSET S /\ FoldsTo(g, step, base, seq, S)
            => g[U] = IF U = {} THEN base ELSE step[<<g[U \ {Max(U)}], seq[Max(U)]>>]
      BY ONLY FoldValue
    <2> QED
      BY <2>1, <2>2
  <1>4. k[U] = IF U = {} THEN base ELSE step[<<k[U \ {Max(U)}], seq[Max(U)]>>]
    BY FoldValue
  <1>5. U # {}
    BY <1>3, <1>4
  <1>6. Max(U) \in U
    <2>1. U \in SUBSET S
      OBVIOUS
    <2> QED
      BY <1>5, <2>1 DEF HasGreatest
  <1>7. g[U \ {Max(U)}] = k[U \ {Max(U)}]
    BY <1>2, <1>6
  <1> QED
    BY <1>3, <1>4, <1>6, <1>7

LEMMA FoldExists ==
    ASSUME NEW step, NEW base, NEW seq, NEW S, HasGreatest(S)
    PROVE  \E g : FoldsTo(g, step, base, seq, S)
  <1> DEFINE H == {U \in SUBSET S : ~ \E g : FoldsTo(g, step, base, seq, U)}
  <1> SUFFICES ASSUME H # {} PROVE FALSE
    OBVIOUS
  <1>0. IsFiniteSet(S)
    BY DEF HasGreatest
  <1>1. PICK T \in H : \A V \in H : V \subseteq T => V = T
    <2> HIDE DEF H
    <2>1. H \in SUBSET SUBSET S
      BY DEF H
    <2> QED
      BY <1>0, <2>1, SmallestSubset
  <1> DEFINE part(U) == CHOOSE g : FoldsTo(g, step, base, seq, U)
  <1>2. \A U \in SUBSET T : U # T => FoldsTo(part(U), step, base, seq, U)
    BY <1>1
  <1> DEFINE below == [U \in SUBSET T |-> part(U)[U]]
             value == IF T = {} THEN base ELSE step[<<below[T \ {Max(T)}], seq[Max(T)]>>]
             whole == [U \in SUBSET T |-> IF U = T THEN value ELSE below[U]]
             body == [U \in SUBSET T |->
                        IF U = {} THEN base ELSE step[<<whole[U \ {Max(U)}], seq[Max(U)]>>]]
  <1>8. \A U \in SUBSET T : U # {} => Max(U) \in U
    <2>1. \A U \in SUBSET T : U \in SUBSET S
      OBVIOUS
    <2> QED
      BY <2>1 DEF HasGreatest
  <1>3. ASSUME NEW U \in SUBSET T
        PROVE  whole[U] = IF U = {} THEN base ELSE step[<<whole[U \ {Max(U)}], seq[Max(U)]>>]
    <2>1. CASE U = {}
      <3>1. CASE T = {}
        BY <2>1, <3>1
      <3>2. CASE T # {}
        <4>1. FoldsTo(part(U), step, base, seq, U)
          BY <1>2, <2>1, <3>2
        <4>2. part(U)[U] = base
          <5> DEFINE g == part(U)
          <5>1. FoldsTo(g, step, base, seq, U) /\ U \in SUBSET U
            BY <4>1
          <5> HIDE DEF part, g
          <5>2. g[U] = IF U = {} THEN base ELSE step[<<g[U \ {Max(U)}], seq[Max(U)]>>]
            BY <5>1, FoldValue
          <5> QED
            BY <5>2, <2>1 DEF g
        <4> QED
          BY <4>2, <2>1, <3>2
      <3> QED
        BY <3>1, <3>2
    <2>2. CASE U = T /\ U # {}
      <3>1. Max(T) \in T
        BY <2>2, <1>8
      <3> QED
        BY <2>2, <3>1
    <2>3. CASE U # T /\ U # {}
      <3> DEFINE V == U \ {Max(U)}
      <3>1. Max(U) \in U
        BY <2>3, <1>8
      <3>2. V \in SUBSET U /\ V # T /\ V # U /\ V \in SUBSET T
        BY <3>1
      <3>3. FoldsTo(part(U), step, base, seq, U) /\ FoldsTo(part(V), step, base, seq, V)
        BY <1>2, <2>3, <3>2
      <3>4. part(U)[U] = step[<<part(U)[V], seq[Max(U)]>>]
        <4> HIDE DEF part
        <4> QED
          BY <3>3, <2>3, FoldValue
      <3>5. part(U)[V] = part(V)[V]
        <4>1. HasGreatest(U)
          <5>1. U \in SUBSET S /\ \A W \in SUBSET U : W \in SUBSET S
            OBVIOUS
          <5> QED
            BY <5>1, FS_Subset DEF HasGreatest
        <4> HIDE DEF part, V
        <4> QED
          BY <3>2, <3>3, <4>1, FoldsAgree
      <3>6. whole[U] = part(U)[U] /\ whole[V] = part(V)[V]
        BY <2>3, <3>2
      <3> QED
        BY <3>4, <3>5, <3>6, <2>3
    <2> QED
      BY <2>1, <2>2, <2>3
  <1>4. whole = body
    <2>1. \A U \in SUBSET T : whole[U] = body[U]
      <3> TAKE U \in SUBSET T
      <3>1. body[U] = IF U = {} THEN base ELSE step[<<whole[U \ {Max(U)}], seq[Max(U)]>>]
        OBVIOUS
      <3> HIDE DEF body, whole
      <3> QED
        BY <3>1, <1>3
    <2>2. whole = [U \in SUBSET T |-> whole[U]] /\ body = [U \in SUBSET T |-> body[U]]
      OBVIOUS
    <2> HIDE DEF body, whole
    <2> QED
      BY <2>1, <2>2
  <1>5. FoldsTo(whole, step, base, seq, T)
    <2>1. body = [U \in SUBSET T |->
                    IF U = {} THEN base ELSE step[<<whole[U \ {Max(U)}], seq[Max(U)]>>]]
      OBVIOUS
    <2> HIDE DEF body, whole
    <2> QED
      BY <1>4, <2>1 DEF FoldsTo
  <1> QED
    <2> HIDE DEF whole
    <2> QED
      BY <1>1, <1>5

(* Folding with a function into a set stays in that set. *)
LEMMA FoldTyped ==
    ASSUME NEW A, NEW D, NEW base \in A, NEW step \in [A \X D -> A],
           NEW S, HasGreatest(S), NEW seq, \A i \in S : seq[i] \in D,
           NEW g, FoldsTo(g, step, base, seq, S), NEW T \in SUBSET S
    PROVE  g[T] \in A
  <1> DEFINE H == {U \in SUBSET S : g[U] \notin A}
  <1> SUFFICES ASSUME H # {} PROVE FALSE
    OBVIOUS
  <1>0. IsFiniteSet(S)
    BY DEF HasGreatest
  <1>1. PICK U \in H : \A V \in H : V \subseteq U => V = U
    <2> HIDE DEF H
    <2>1. H \in SUBSET SUBSET S
      BY DEF H
    <2> QED
      BY <1>0, <2>1, SmallestSubset
  <1>2. g[U] = IF U = {} THEN base ELSE step[<<g[U \ {Max(U)}], seq[Max(U)]>>]
    BY FoldValue
  <1>3. U # {}
    BY <1>2
  <1>4. Max(U) \in U
    BY <1>3 DEF HasGreatest
  <1>5. g[U \ {Max(U)}] \in A
    BY <1>1, <1>4
  <1>6. seq[Max(U)] \in D
    BY <1>4
  <1>7. <<g[U \ {Max(U)}], seq[Max(U)]>> \in A \X D
    BY <1>5, <1>6
  <1> QED
    BY <1>2, <1>3, <1>7
=============================================================================
