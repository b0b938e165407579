-------------------------------- MODULE Sums --------------------------------
(***************************************************************************)
(* Facts about sums over finite sets.  The community modules compute a sum *)
(* with a recursive function on the subsets of the set: here it is shown   *)
(* to exist, and that the order in which it takes the elements is no       *)
(* matter.  Induction is by sets of numbers and sets of sets.              *)
(***************************************************************************)
EXTENDS Naturals, FiniteSetTheorems, WellFoundedInduction, TLAPS

Chosen(S) == CHOOSE x \in S : TRUE

\* it sums f over every subset of S.
IsSum(f, S, it) ==
  it = [T \in SUBSET S |-> IF T = {} THEN 0 ELSE f[Chosen(T)] + it[T \ {Chosen(T)}]]

SumOver(f, S) == (CHOOSE it : IsSum(f, S, it))[S]

Numbers(f, S) == IsFiniteSet(S) /\ \A x \in S : f[x] \in Nat

-----------------------------------------------------------------------------
(* Induction. *)

\* A set that has 0, and each successor, has all natural numbers.
LEMMA NatSetInduction ==
  ASSUME NEW N, 0 \in N, \A n \in Nat : n \in N => n + 1 \in N
  PROVE  \A n \in Nat : n \in N
<1> DEFINE T == Nat \ N
<1>1. SUFFICES ASSUME T # {} PROVE FALSE
  OBVIOUS
<1>2. PICK x \in T : \A y \in T : <<y, x>> \notin OpToRel(<, Nat)
  BY <1>1, WFMin, NatLessThanWellFounded, Zenon
<1>3. \A y \in T : ~ (y < x)
  BY <1>2, Zenon DEF OpToRel
<1>4. x - 1 \in Nat /\ x - 1 < x /\ (x - 1) + 1 = x
  OBVIOUS
<1>5. QED
  BY <1>3, <1>4

\* The subsets of a finite set, by their size.
LEMMA Sizes ==
  ASSUME NEW S, IsFiniteSet(S)
  PROVE  /\ Cardinality(S) \in Nat
         /\ \A T \in SUBSET S : IsFiniteSet(T) /\ Cardinality(T) \in Nat
                                /\ Cardinality(T) <= Cardinality(S)
         /\ \A T \in SUBSET S : Cardinality(T) = 0 <=> T = {}
         /\ \A T \in SUBSET S : \A x \in T : Cardinality(T \ {x}) = Cardinality(T) - 1
  BY FS_CardinalityType, FS_Subset, FS_EmptySet, FS_RemoveElement

\* A set of sets that has {} and takes one more element at a time has S.
LEMMA FiniteInduction ==
  ASSUME NEW S, IsFiniteSet(S), NEW F, {} \in F,
         \A T \in SUBSET S : \A x \in S : T \in F /\ x \notin T => T \cup {x} \in F
  PROVE  S \in F
<1> DEFINE N == {n \in Nat : \A T \in SUBSET S : Cardinality(T) = n => T \in F}
<1>1. 0 \in N
  BY Sizes
<1>2. ASSUME NEW n \in N PROVE n + 1 \in N
  <2>1. ASSUME NEW T \in SUBSET S, Cardinality(T) = n + 1 PROVE T \in F
    <3>1. PICK x : x \in T
      BY <2>1, Sizes
    <3>2. Cardinality(T \ {x}) = n
      BY <2>1, <3>1, Sizes
    <3>3. T \ {x} \in F
      BY <3>2
    <3>4. T = (T \ {x}) \cup {x}
      BY <3>1
    <3>5. QED
      BY <3>1, <3>3, <3>4
  <2>2. QED
    BY <2>1
<1> HIDE DEF N
<1>3. \A n \in Nat : n \in N
  BY <1>1, <1>2, NatSetInduction
<1>4. QED
  BY <1>3, Sizes DEF N

-----------------------------------------------------------------------------
(* The recursive function. *)

LEMMA ChosenIn == \A T : T # {} => Chosen(T) \in T
  BY DEF Chosen

\* There is a function that sums: on the sets of one element more, it is
\* computed from those before.
LEMMA SumExists ==
  ASSUME NEW S, IsFiniteSet(S), NEW f
  PROVE  \E it : IsSum(f, S, it)
<1> DEFINE Small(n) == {T \in SUBSET S : Cardinality(T) <= n}
           Body(it, T) == IF T = {} THEN 0 ELSE f[Chosen(T)] + it[T \ {Chosen(T)}]
           N == {n \in Nat : \E it : it = [T \in Small(n) |-> Body(it, T)]}
<1>1. 0 \in N
  <2> DEFINE it == [T \in Small(0) |-> 0]
  <2>1. \A T \in Small(0) : T = {}
    BY Sizes
  <2>2. it = [T \in Small(0) |-> Body(it, T)]
    BY <2>1
  <2>3. QED
    BY <2>2
<1>2. ASSUME NEW n \in N PROVE n + 1 \in N
  <2>1. PICK it : it = [T \in Small(n) |-> Body(it, T)]
    OBVIOUS
  <2> DEFINE jt == [T \in Small(n + 1) |-> Body(it, T)]
  <2>2. \A T \in Small(n + 1) : T # {} => T \ {Chosen(T)} \in Small(n)
    BY ChosenIn, Sizes
  <2>3. \A T \in Small(n) : T \in Small(n + 1)
    BY Sizes
  <2>4. \A T \in Small(n) : jt[T] = it[T]
    BY <2>1, <2>3
  <2>5. jt = [T \in Small(n + 1) |-> Body(it, T)]
    OBVIOUS
  <2> HIDE DEF jt
  <2>6. ASSUME NEW T \in Small(n + 1) PROVE Body(jt, T) = Body(it, T)
    <3>1. T # {} => jt[T \ {Chosen(T)}] = it[T \ {Chosen(T)}]
      BY <2>2, <2>4
    <3>2. QED
      BY <3>1
  <2>7. jt = [T \in Small(n + 1) |-> Body(jt, T)]
    <3> HIDE DEF Body, Small
    <3>1. QED
      BY <2>5, <2>6
  <2>8. n + 1 \in Nat /\ \E kt : kt = [T \in Small(n + 1) |-> Body(kt, T)]
    <3> HIDE DEF Body, Small
    <3>1. QED
      BY <2>7
  <2>9. QED
    BY <2>8
<1>3. PICK it : it = [T \in Small(Cardinality(S)) |-> Body(it, T)]
  <2> HIDE DEF N
  <2>1. Cardinality(S) \in N
    BY <1>1, <1>2, NatSetInduction, Sizes
  <2>2. QED
    BY <2>1 DEF N
<1>4. Small(Cardinality(S)) = SUBSET S
  BY Sizes
<1>5. QED
  BY <1>3, <1>4 DEF IsSum

\* Two sums of the same numbers agree where both are defined.
LEMMA SumsAgree ==
  ASSUME NEW S, IsFiniteSet(S), NEW T \in SUBSET S, NEW f, NEW g, NEW it, NEW jt,
         IsSum(f, S, it), IsSum(g, T, jt), \A x \in T : f[x] = g[x]
  PROVE  it[T] = jt[T]
<1> DEFINE N == {n \in Nat : \A U \in SUBSET T : Cardinality(U) = n => it[U] = jt[U]}
<1>1. 0 \in N
  BY Sizes DEF IsSum
<1>2. ASSUME NEW n \in N PROVE n + 1 \in N
  <2>1. ASSUME NEW U \in SUBSET T, Cardinality(U) = n + 1 PROVE it[U] = jt[U]
    <3> DEFINE x == Chosen(U)
    <3>1. U # {}
      BY <2>1, Sizes
    <3>2. x \in U /\ Cardinality(U \ {x}) = n
      BY <2>1, <3>1, Sizes, ChosenIn
    <3>3. it[U \ {x}] = jt[U \ {x}]
      BY <3>2
    <3>4. it[U] = f[x] + it[U \ {x}] /\ jt[U] = g[x] + jt[U \ {x}]
      BY <3>1 DEF IsSum
    <3>5. QED
      BY <3>2, <3>3, <3>4
  <2>2. QED
    BY <2>1
<1> HIDE DEF N
<1>3. Cardinality(T) \in N
  BY <1>1, <1>2, NatSetInduction, Sizes
<1>4. QED
  BY <1>3 DEF N

-----------------------------------------------------------------------------
(* Sums. *)

\* The sum is read off any function that sums over a set that has it all.
LEMMA SumIs ==
  ASSUME NEW S, IsFiniteSet(S), NEW T \in SUBSET S, NEW f, NEW it, IsSum(f, S, it)
  PROVE  SumOver(f, T) = it[T]
<1>1. IsFiniteSet(T) /\ T \in SUBSET T
  BY FS_Subset
<1> DEFINE jt == CHOOSE jt : IsSum(f, T, jt)
<1>2. IsSum(f, T, jt)
  BY <1>1, SumExists, Zenon
<1>3. SumOver(f, T) = jt[T]
  BY Zenon DEF SumOver
<1> HIDE DEF jt
<1>4. QED
  BY <1>2, <1>3, SumsAgree

\* The sum over nothing, and over something: the element that is chosen, and the rest.
LEMMA SumPick ==
  ASSUME NEW S, IsFiniteSet(S), NEW f
  PROVE  /\ SumOver(f, {}) = 0
         /\ S # {} => SumOver(f, S) = f[Chosen(S)] + SumOver(f, S \ {Chosen(S)})
<1>1. PICK it : IsSum(f, S, it)
  BY SumExists
<1>2. SumOver(f, {}) = 0
  <2>1. SumOver(f, {}) = it[{}]
    BY <1>1, SumIs
  <2>2. QED
    BY <1>1, <2>1 DEF IsSum
<1>3. ASSUME S # {} PROVE SumOver(f, S) = f[Chosen(S)] + SumOver(f, S \ {Chosen(S)})
  <2>1. SumOver(f, S) = it[S] /\ SumOver(f, S \ {Chosen(S)}) = it[S \ {Chosen(S)}]
    BY <1>1, SumIs
  <2>2. QED
    BY <1>1, <1>3, <2>1 DEF IsSum
<1>4. QED
  BY <1>2, <1>3

\* A sum depends on the numbers that are summed.
LEMMA SumCongruence ==
  ASSUME NEW S, IsFiniteSet(S), NEW f, NEW g, \A x \in S : f[x] = g[x]
  PROVE  SumOver(f, S) = SumOver(g, S)
<1>1. PICK it : IsSum(f, S, it)
  BY SumExists
<1>2. PICK jt : IsSum(g, S, jt)
  BY SumExists
<1>3. it[S] = jt[S]
  BY <1>1, <1>2, SumsAgree
<1>4. QED
  BY <1>1, <1>2, <1>3, SumIs

\* Any element may be taken first, and a sum of numbers is a number.
LEMMA SumRemove ==
  ASSUME NEW S, NEW f, Numbers(f, S)
  PROVE  /\ SumOver(f, S) \in Nat
         /\ \A x \in S : SumOver(f, S) = f[x] + SumOver(f, S \ {x})
<1> USE DEF Numbers
<1> DEFINE Fine(T) == /\ SumOver(f, T) \in Nat
                      /\ \A x \in T : SumOver(f, T) = f[x] + SumOver(f, T \ {x})
           N == {n \in Nat : \A T \in SUBSET S : Cardinality(T) <= n => Fine(T)}
<1>1. 0 \in N
  <2>1. \A T \in SUBSET S : Cardinality(T) <= 0 => T = {}
    BY Sizes
  <2>2. Fine({})
    <3>1. SumOver(f, {}) = 0
      BY SumPick
    <3>2. QED
      BY <3>1
  <2>3. QED
    <3> HIDE DEF Fine
    <3>1. QED
      BY <2>1, <2>2
<1>2. ASSUME NEW n \in N PROVE n + 1 \in N
  <2>1. ASSUME NEW T \in SUBSET S, Cardinality(T) = n + 1 PROVE Fine(T)
    <3>1. PICK a \in T : a = Chosen(T) /\ SumOver(f, T) = f[a] + SumOver(f, T \ {a})
      <4>1. T # {} /\ IsFiniteSet(T)
        BY <2>1, Sizes
      <4>2. Chosen(T) \in T
        BY <4>1, ChosenIn
      <4>3. SumOver(f, T) = f[Chosen(T)] + SumOver(f, T \ {Chosen(T)})
        BY <4>1, SumPick
      <4>4. QED
        BY <4>2, <4>3, Zenon
    <3>2. \A x \in T : Cardinality(T \ {x}) <= n /\ T \ {x} \in SUBSET S
      BY <2>1, Sizes
    <3>3. \A x \in T : Fine(T \ {x})
      <4> HIDE DEF Fine
      <4>1. QED
        BY <3>2
    <3>4. \A x \in T : SumOver(f, T \ {x}) \in Nat
      BY <3>3
    <3>5. SumOver(f, T) \in Nat
      BY <3>1, <3>4
    <3>6. ASSUME NEW x \in T, x # a PROVE SumOver(f, T) = f[x] + SumOver(f, T \ {x})
      <4>1. (T \ {a}) \ {x} = (T \ {x}) \ {a}
        OBVIOUS
      <4>2. SumOver(f, T \ {a}) = f[x] + SumOver(f, (T \ {a}) \ {x})
        BY <3>3, <3>6
      <4>3. SumOver(f, T \ {x}) = f[a] + SumOver(f, (T \ {x}) \ {a})
        BY <3>3, <3>6
      <4>4. SumOver(f, (T \ {a}) \ {x}) \in Nat
        <5>1. (T \ {a}) \ {x} \in SUBSET S /\ Cardinality((T \ {a}) \ {x}) <= n
          <6>1. T \ {a} \in SUBSET S /\ x \in T \ {a} /\ Cardinality(T \ {a}) <= n
            BY <3>2, <3>6
          <6>2. Cardinality((T \ {a}) \ {x}) = Cardinality(T \ {a}) - 1
                /\ Cardinality(T \ {a}) \in Nat
            BY <6>1, Sizes
          <6>3. QED
            BY <6>1, <6>2
        <5>2. Fine((T \ {a}) \ {x})
          <6> HIDE DEF Fine
          <6>1. QED
            BY <5>1
        <5>3. QED
          BY <5>2
      <4>5. f[a] \in Nat /\ f[x] \in Nat
        OBVIOUS
      <4>6. QED
        BY <3>1, <4>1, <4>2, <4>3, <4>4, <4>5
    <3>7. QED
      BY <3>1, <3>5, <3>6
  <2>2. ASSUME NEW T \in SUBSET S, Cardinality(T) <= n + 1 PROVE Fine(T)
    <3> HIDE DEF Fine
    <3>1. Cardinality(T) <= n \/ Cardinality(T) = n + 1
      BY <2>2, Sizes
    <3>2. QED
      BY <2>1, <3>1
  <2>3. QED
    <3> HIDE DEF Fine
    <3>1. QED
      BY <2>2
<1> HIDE DEF N
<1>3. Cardinality(S) \in N
  BY <1>1, <1>2, NatSetInduction, Sizes
<1>4. QED
  BY <1>3, Sizes DEF N

\* One number more.
LEMMA SumAdd ==
  ASSUME NEW S, NEW f, NEW x, Numbers(f, S \cup {x}), IsFiniteSet(S), x \notin S
  PROVE  SumOver(f, S \cup {x}) = f[x] + SumOver(f, S)
<1>1. (S \cup {x}) \ {x} = S
  OBVIOUS
<1>2. QED
  BY <1>1, SumRemove

\* The sum over the union of two sets is at most the sum of their sums, and over
\* a part of a set at most that over the set.
LEMMA SumUnion ==
  ASSUME NEW S, NEW f, Numbers(f, S), NEW A \in SUBSET S, NEW B \in SUBSET S
  PROVE  SumOver(f, A \cup B) <= SumOver(f, A) + SumOver(f, B)
         /\ (A \cap B = {} => SumOver(f, A \cup B) = SumOver(f, A) + SumOver(f, B))
<1> DEFINE Split(X) ==
             /\ SumOver(f, X \cup B) <= SumOver(f, X) + SumOver(f, B)
             /\ X \cap B = {} => SumOver(f, X \cup B) = SumOver(f, X) + SumOver(f, B)
           F == {X \in SUBSET A : Split(X)}
<1>0. \A X \in SUBSET S : Numbers(f, X) /\ IsFiniteSet(X) /\ SumOver(f, X) \in Nat
  BY FS_Subset, SumRemove DEF Numbers
<1>1. {} \in F
  BY <1>0, SumPick
<1>2. ASSUME NEW X \in SUBSET A, NEW x \in A, X \in F, x \notin X PROVE X \cup {x} \in F
  <2>1. /\ SumOver(f, X) \in Nat /\ SumOver(f, B) \in Nat /\ SumOver(f, X \cup B) \in Nat
        /\ f[x] \in Nat
    BY <1>0 DEF Numbers
  <2>2. SumOver(f, X \cup {x}) = f[x] + SumOver(f, X)
    BY <1>0, <1>2, SumAdd
  <2>3. CASE x \in B
    <3>1. (X \cup {x}) \cup B = X \cup B /\ (X \cup {x}) \cap B # {}
      BY <2>3
    <3>2. SumOver(f, X \cup B) <= SumOver(f, X) + SumOver(f, B)
      BY <1>2
    <3>3. SumOver(f, X \cup B) <= (f[x] + SumOver(f, X)) + SumOver(f, B)
      BY <2>1, <3>2
    <3>4. QED
      BY <2>2, <3>1, <3>3
  <2>4. CASE x \notin B
    <3>1. (X \cup {x}) \cup B = (X \cup B) \cup {x}
      OBVIOUS
    <3>2. SumOver(f, (X \cup B) \cup {x}) = f[x] + SumOver(f, X \cup B)
      BY <1>0, <1>2, <2>4, SumAdd
    <3>3. (X \cup {x}) \cap B = X \cap B
      BY <2>4
    <3>4. Split(X)
      BY <1>2
    <3>5. f[x] + SumOver(f, X \cup B) <= (f[x] + SumOver(f, X)) + SumOver(f, B)
      BY <2>1, <3>4
    <3>6. X \cap B = {} => f[x] + SumOver(f, X \cup B) = (f[x] + SumOver(f, X)) + SumOver(f, B)
      BY <2>1, <3>4
    <3>7. QED
      BY <2>2, <3>1, <3>2, <3>3, <3>5, <3>6
  <2>5. QED
    BY <2>3, <2>4
<1>3. A \in F
  <2> HIDE DEF F
  <2>1. QED
    BY <1>0, <1>1, <1>2, FiniteInduction
<1>4. QED
  BY <1>3

LEMMA SumPart ==
  ASSUME NEW S, NEW f, Numbers(f, S), NEW A \in SUBSET S
  PROVE  SumOver(f, A) <= SumOver(f, S)
<1>1. Numbers(f, A) /\ Numbers(f, S \ A)
  BY FS_Subset DEF Numbers
<1>2. A \cup (S \ A) = S /\ A \cap (S \ A) = {}
  OBVIOUS
<1>3. SumOver(f, S) = SumOver(f, A) + SumOver(f, S \ A)
  BY <1>2, SumUnion
<1>4. QED
  BY <1>1, <1>3, SumRemove

\* The sum of some numbers, all positive, is positive.
LEMMA SumPositive ==
  ASSUME NEW S, NEW f, Numbers(f, S), S # {}, \A x \in S : f[x] > 0
  PROVE  SumOver(f, S) > 0
<1>1. PICK x : x \in S
  OBVIOUS
<1>2. Numbers(f, S \ {x})
  BY FS_Subset DEF Numbers
<1>3. QED
  BY <1>1, <1>2, SumRemove DEF Numbers

\* One number changes.
LEMMA SumChange ==
  ASSUME NEW S, NEW f, NEW g, Numbers(f, S), NEW x \in S, g[x] \in Nat,
         \A y \in S : y # x => g[y] = f[y]
  PROVE  SumOver(g, S) + f[x] = SumOver(f, S) + g[x]
<1>1. Numbers(g, S) /\ Numbers(f, S \ {x})
  BY FS_Subset DEF Numbers
<1>2. SumOver(f, S \ {x}) = SumOver(g, S \ {x})
  BY <1>1, SumCongruence DEF Numbers
<1>3. SumOver(f, S \ {x}) \in Nat /\ f[x] \in Nat
  BY <1>1, SumRemove DEF Numbers
<1>4. QED
  BY <1>1, <1>2, <1>3, SumRemove
=============================================================================
