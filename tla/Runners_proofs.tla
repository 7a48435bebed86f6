------------------------- MODULE Runners_proofs --------------------------
(****************************************************************************)
(* Theorems about the two runners that send a transaction or a call for     *)
(* each job, for any bounds.  ListUnits: persist before send, every job     *)
(* that landed has its row, and never more jobs, nor fewer, than the target. *)
(* Extend: the chain of EXTENDs goes on, keeps its distance to the deadline, *)
(* and is one.  What either invariant rests on is a sum over the runner's   *)
(* jobs or tasks, and the facts about sums come first.                      *)
(****************************************************************************)
EXTENDS ListUnits, Extend, Integers, Functions, Folds, FiniteSetTheorems, FunctionTheorems,
        WellFoundedInduction, TLAPS

-----------------------------------------------------------------------------
(****************************************************************************)
(* SumFunctionOnSet, the sum of a function's values over a finite set, may  *)
(* be taken in any order, and so behaves as a sum.  Its definition is a     *)
(* recursive function over the subsets of the set that takes their elements *)
(* in an order of its own.  No induction principle that the provers can     *)
(* instantiate with a predicate is at hand, but a least counterexample is   *)
(* as good: counterexamples are sets.                                       *)
(****************************************************************************)

(* A set of subsets of a finite set has a least one.                        *)
LEMMA LeastSubset ==
  ASSUME NEW S, IsFiniteSet(S), NEW Bad \in SUBSET (SUBSET S), Bad # {}
  PROVE  \E T \in Bad : \A U \in Bad : U \subseteq T => U = T
<1>1. IsWellFoundedOn(StrictSubsetOrdering(S), SUBSET S)
  BY FS_StrictSubsetOrderingWellFounded, FS_FiniteSubsetsOfFinite
<1>2. PICK T \in Bad : \A U \in Bad : ~(<<U, T>> \in StrictSubsetOrdering(S))
  BY <1>1, WFMin
<1>3. \A U \in Bad : U \subseteq T => U = T
  BY <1>2 DEF StrictSubsetOrdering
<1> QED
  BY <1>3

(* So has a set of naturals.                                                *)
LEMMA LeastNatural ==
  ASSUME NEW Bad \in SUBSET Nat, Bad # {}
  PROVE  \E n \in Bad : \A m \in Bad : n <= m
<1>1. PICK n \in Bad : \A m \in Bad : ~(<<m, n>> \in OpToRel(<, Nat))
  BY NatLessThanWellFounded, WFMin
<1>2. \A m \in Bad : ~(m < n)
  BY <1>1 DEF OpToRel
<1> QED
  BY <1>2

(* The element a sum begins with, and what the sums of the subsets are.     *)
Leading(s) == CHOOSE x \in s : TRUE

SumsUp(it, f, D) ==
  it = [s \in D |-> IF s = {} THEN 0 ELSE f[Leading(s)] + it[s \ {Leading(s)}]]

LEMMA LeadingIn == ASSUME NEW s, s # {} PROVE Leading(s) \in s
BY DEF Leading

LEMMA SumsUpAt ==
  ASSUME NEW it, NEW f, NEW D, SumsUp(it, f, D), NEW s \in D
  PROVE  it[s] = IF s = {} THEN 0 ELSE f[Leading(s)] + it[s \ {Leading(s)}]
<1> DEFINE body(t) == IF t = {} THEN 0 ELSE f[Leading(t)] + it[t \ {Leading(t)}]
<1>1. it = [t \in D |-> body(t)]
  BY DEF SumsUp
<1> HIDE DEF body
<1>2. it[s] = body(s)
  BY <1>1
<1> QED
  BY <1>2 DEF body

(* There is such a function: for the sets of n elements, from that for the  *)
(* sets of fewer.                                                           *)
LEMMA SumsExist == ASSUME NEW f, NEW S, IsFiniteSet(S) PROVE \E it : SumsUp(it, f, SUBSET S)
<1> DEFINE Upto(n) == {s \in SUBSET S : Cardinality(s) <= n}
           Bad == {n \in Nat : ~(\E it : SumsUp(it, f, Upto(n)))}
<1>1. \A s \in SUBSET S : IsFiniteSet(s) /\ Cardinality(s) \in Nat /\ Cardinality(s) <= Cardinality(S)
  BY FS_Subset, FS_CardinalityType
<1>2. Bad = {}
  <2> SUFFICES ASSUME Bad # {} PROVE FALSE
    OBVIOUS
  <2>1. PICK n \in Bad : \A m \in Bad : n <= m
    BY LeastNatural
  <2>2. n \in Nat /\ ~(\E it : SumsUp(it, f, Upto(n)))
    BY <2>1
  <2>3. CASE n = 0
    <3> DEFINE it == [s \in Upto(0) |-> 0]
    <3>1. \A s \in Upto(0) : s = {}
      BY <1>1, FS_EmptySet
    <3> HIDE DEF Upto
    <3>2. SumsUp(it, f, Upto(0))
      <4>1. it = [s \in Upto(0) |-> IF s = {} THEN 0 ELSE f[Leading(s)] + it[s \ {Leading(s)}]]
        BY <3>1
      <4> QED
        BY <4>1 DEF SumsUp
    <3> QED
      BY <2>2, <2>3, <3>2
  <2>4. CASE n # 0
    <3>1. n - 1 \in Nat /\ n - 1 \notin Bad
      <4> HIDE DEF Bad
      <4>1. n - 1 \in Nat /\ ~(n <= n - 1)
        BY <2>2, <2>4
      <4> QED
        BY <2>1, <4>1
    <3>2. PICK g : SumsUp(g, f, Upto(n - 1))
      BY <3>1
    <3> DEFINE it == [s \in Upto(n) |-> IF s = {} THEN 0 ELSE f[Leading(s)] + g[s \ {Leading(s)}]]
    <3>3. \A s \in Upto(n - 1) : s \in Upto(n) /\ it[s] = g[s]
      <4> SUFFICES ASSUME NEW s \in Upto(n - 1) PROVE s \in Upto(n) /\ it[s] = g[s]
        OBVIOUS
      <4>1. s \in Upto(n)
        BY <1>1, <2>2
      <4>2. g[s] = IF s = {} THEN 0 ELSE f[Leading(s)] + g[s \ {Leading(s)}]
        BY <3>2, SumsUpAt
      <4> QED
        BY <4>1, <4>2
    <3>4. \A s \in Upto(n) : s # {} => s \ {Leading(s)} \in Upto(n - 1)
      <4> SUFFICES ASSUME NEW s \in Upto(n), s # {} PROVE s \ {Leading(s)} \in Upto(n - 1)
        OBVIOUS
      <4>1. Cardinality(s \ {Leading(s)}) = Cardinality(s) - 1
        BY <1>1, LeadingIn, FS_RemoveElement
      <4> QED
        BY <1>1, <2>2, <4>1
    <3> HIDE DEF Upto
    <3>5. it = [s \in Upto(n) |-> IF s = {} THEN 0 ELSE f[Leading(s)] + it[s \ {Leading(s)}]]
      <4>1. \A s \in Upto(n) : s # {} => g[s \ {Leading(s)}] = it[s \ {Leading(s)}]
        BY <3>3, <3>4
      <4> QED
        BY <4>1
    <3>6. SumsUp(it, f, Upto(n))
      BY <3>5 DEF SumsUp
    <3> QED
      BY <2>2, <3>6
  <2> QED
    BY <2>3, <2>4
<1>3. Cardinality(S) \in Nat /\ Upto(Cardinality(S)) = SUBSET S
  BY <1>1, FS_CardinalityType
<1> HIDE DEF Upto
<1>4. \E it : SumsUp(it, f, Upto(Cardinality(S)))
  BY <1>2, <1>3
<1> QED
  BY <1>3, <1>4

(* The sums of two functions that agree on a set agree.                     *)
LEMMA SumsAgree ==
  ASSUME NEW f, NEW g, NEW D, NEW E, NEW S, IsFiniteSet(S), SUBSET S \subseteq D, SUBSET S \subseteq E,
         \A x \in S : f[x] = g[x], NEW p, NEW q, SumsUp(p, f, D), SumsUp(q, g, E)
  PROVE  p[S] = q[S]
<1> DEFINE Bad == {s \in SUBSET S : p[s] # q[s]}
<1> SUFFICES ASSUME Bad # {} PROVE FALSE
  OBVIOUS
<1>1. PICK s \in Bad : \A u \in Bad : u \subseteq s => u = s
  <2>1. Bad \in SUBSET (SUBSET S)
    OBVIOUS
  <2> HIDE DEF Bad
  <2> QED
    BY <2>1, LeastSubset
<1>2. s \in D /\ s \in E /\ s \in SUBSET S /\ p[s] # q[s]
  BY <1>1
<1>3. p[s] = IF s = {} THEN 0 ELSE f[Leading(s)] + p[s \ {Leading(s)}]
  BY <1>2, SumsUpAt
<1>4. q[s] = IF s = {} THEN 0 ELSE g[Leading(s)] + q[s \ {Leading(s)}]
  <2> DEFINE body(t) == IF t = {} THEN 0 ELSE g[Leading(t)] + q[t \ {Leading(t)}]
  <2>1. q = [t \in E |-> body(t)]
    BY DEF SumsUp
  <2> HIDE DEF body
  <2>2. q[s] = body(s)
    BY <1>2, <2>1
  <2> QED
    BY <2>2 DEF body
<1>5. s # {}
  BY <1>2, <1>3, <1>4
<1>6. Leading(s) \in s /\ f[Leading(s)] = g[Leading(s)]
  BY <1>2, <1>5, LeadingIn
<1>7. s \ {Leading(s)} \notin Bad
  BY <1>1, <1>6
<1>8. p[s \ {Leading(s)}] = q[s \ {Leading(s)}]
  BY <1>2, <1>7
<1> QED
  BY <1>2, <1>3, <1>4, <1>5, <1>6, <1>8

-----------------------------------------------------------------------------
(* The sum is one of them.                                                  *)
LEMMA SumIs ==
  ASSUME NEW f, NEW S, IsFiniteSet(S)
  PROVE  \E it : SumsUp(it, f, SUBSET S) /\ SumFunctionOnSet(f, S) = it[S]
<1> DEFINE it == CHOOSE h : h = [s \in SUBSET S |->
                   IF s = {} THEN 0 ELSE f[CHOOSE x \in s : TRUE] + h[s \ {CHOOSE x \in s : TRUE}]]
<1>1. PICK g : SumsUp(g, f, SUBSET S)
  BY SumsExist
<1>2. g = [s \in SUBSET S |->
        IF s = {} THEN 0 ELSE f[CHOOSE x \in s : TRUE] + g[s \ {CHOOSE x \in s : TRUE}]]
  BY <1>1 DEF SumsUp, Leading
<1>3. it = [s \in SUBSET S |->
        IF s = {} THEN 0 ELSE f[CHOOSE x \in s : TRUE] + it[s \ {CHOOSE x \in s : TRUE}]]
  BY <1>2
<1>4. SumsUp(it, f, SUBSET S)
  BY <1>3 DEF SumsUp, Leading
<1>5. SumFunctionOnSet(f, S) = it[S]
  BY DEF SumFunctionOnSet, FoldFunctionOnSet, MapThenFoldSet
<1> QED
  BY <1>4, <1>5

(* A sum depends on the function's values in its set only.                  *)
LEMMA SumSame ==
  ASSUME NEW f, NEW g, NEW S, IsFiniteSet(S), \A x \in S : f[x] = g[x]
  PROVE  SumFunctionOnSet(f, S) = SumFunctionOnSet(g, S)
<1>1. PICK p : SumsUp(p, f, SUBSET S) /\ SumFunctionOnSet(f, S) = p[S]
  BY SumIs
<1>2. PICK q : SumsUp(q, g, SUBSET S) /\ SumFunctionOnSet(g, S) = q[S]
  BY SumIs
<1> QED
  BY <1>1, <1>2, SumsAgree

LEMMA SumEmpty == ASSUME NEW f PROVE SumFunctionOnSet(f, {}) = 0
<1>1. PICK p : SumsUp(p, f, SUBSET {}) /\ SumFunctionOnSet(f, {}) = p[{}]
  BY SumIs, FS_EmptySet
<1>2. {} \in SUBSET {}
  OBVIOUS
<1>3. p[{}] = 0
  BY <1>1, <1>2, SumsUpAt
<1> QED
  BY <1>1, <1>3

(* It is its first element's value and the sum of the others.               *)
LEMMA SumFirst ==
  ASSUME NEW f, NEW S, IsFiniteSet(S), S # {}
  PROVE  SumFunctionOnSet(f, S) = f[Leading(S)] + SumFunctionOnSet(f, S \ {Leading(S)})
<1> DEFINE R == S \ {Leading(S)}
<1>1. IsFiniteSet(R)
  BY FS_RemoveElement
<1>2. PICK p : SumsUp(p, f, SUBSET S) /\ SumFunctionOnSet(f, S) = p[S]
  BY SumIs
<1>3. PICK q : SumsUp(q, f, SUBSET R) /\ SumFunctionOnSet(f, R) = q[R]
  BY <1>1, SumIs
<1>4. S \in SUBSET S /\ SUBSET R \subseteq SUBSET S
  OBVIOUS
<1> HIDE DEF R
<1>5. p[R] = q[R]
  BY <1>1, <1>2, <1>3, <1>4, SumsAgree
<1>6. p[S] = f[Leading(S)] + p[R]
  BY <1>2, <1>4, SumsUpAt DEF R
<1> QED
  BY <1>2, <1>3, <1>5, <1>6 DEF R

(* Integers sum up to an integer, naturals to a natural.                    *)
LEMMA SumType ==
  ASSUME NEW f, NEW S, IsFiniteSet(S), NEW D, D = Int \/ D = Nat, \A x \in S : f[x] \in D
  PROVE  SumFunctionOnSet(f, S) \in D
<1> DEFINE Bad == {s \in SUBSET S : SumFunctionOnSet(f, s) \notin D}
<1> SUFFICES ASSUME Bad # {} PROVE FALSE
  OBVIOUS
<1>1. PICK s \in Bad : \A u \in Bad : u \subseteq s => u = s
  <2>1. Bad \in SUBSET (SUBSET S)
    OBVIOUS
  <2> HIDE DEF Bad
  <2> QED
    BY <2>1, LeastSubset
<1>2. s \in SUBSET S /\ IsFiniteSet(s) /\ SumFunctionOnSet(f, s) \notin D
  BY <1>1, FS_Subset
<1>3. s # {}
  BY <1>2, SumEmpty
<1>4. Leading(s) \in s
  BY <1>3, LeadingIn
<1>5. SumFunctionOnSet(f, s) = f[Leading(s)] + SumFunctionOnSet(f, s \ {Leading(s)})
  BY <1>2, <1>3, SumFirst
<1>6. SumFunctionOnSet(f, s \ {Leading(s)}) \in D
  BY <1>1, <1>2, <1>4
<1>7. f[Leading(s)] \in D
  BY <1>2, <1>4
<1> QED
  BY <1>2, <1>5, <1>6, <1>7

(* Any element may be taken first.                                          *)
LEMMA SumRemove ==
  ASSUME NEW f, NEW S, IsFiniteSet(S), \A x \in S : f[x] \in Int, NEW x \in S
  PROVE  SumFunctionOnSet(f, S) = f[x] + SumFunctionOnSet(f, S \ {x})
<1> DEFINE Sum(s) == SumFunctionOnSet(f, s)
           Bad == {s \in SUBSET S : \E y \in s : Sum(s) # f[y] + Sum(s \ {y})}
<1> SUFFICES ASSUME Bad # {} PROVE FALSE
  <2>1. S \notin Bad
    OBVIOUS
  <2> QED
    BY <2>1
<1>1. PICK s \in Bad : \A u \in Bad : u \subseteq s => u = s
  <2>1. Bad \in SUBSET (SUBSET S)
    OBVIOUS
  <2> HIDE DEF Bad
  <2> QED
    BY <2>1, LeastSubset
<1>2. s \in SUBSET S /\ IsFiniteSet(s)
  BY <1>1, FS_Subset
<1>3. PICK y \in s : Sum(s) # f[y] + Sum(s \ {y})
  BY <1>1
<1> DEFINE e == Leading(s)
<1>4. e \in s
  BY <1>3, LeadingIn
<1>5. Sum(s) = f[e] + Sum(s \ {e})
  BY <1>2, <1>3, SumFirst
<1>6. e # y
  BY <1>3, <1>5
<1>7. \A u \in SUBSET S : u \notin Bad => \A z \in u : Sum(u) = f[z] + Sum(u \ {z})
  OBVIOUS
<1>8. s \ {e} \in SUBSET S /\ s \ {y} \in SUBSET S /\ s \ {e} \notin Bad /\ s \ {y} \notin Bad
  BY <1>1, <1>2, <1>3, <1>4
<1>9. \A u \in SUBSET S : Sum(u) \in Int
  <2> SUFFICES ASSUME NEW u \in SUBSET S PROVE Sum(u) \in Int
    OBVIOUS
  <2>1. IsFiniteSet(u)
    BY FS_Subset
  <2> QED
    BY <2>1, SumType
<1> HIDE DEF Sum, Bad, e
<1>10. Sum(s \ {e}) = f[y] + Sum((s \ {e}) \ {y})
  BY <1>3, <1>6, <1>7, <1>8
<1>11. Sum(s \ {y}) = f[e] + Sum((s \ {y}) \ {e})
  BY <1>4, <1>6, <1>7, <1>8
<1>12. (s \ {e}) \ {y} = (s \ {y}) \ {e} /\ (s \ {e}) \ {y} \in SUBSET S
  BY <1>2
<1>13. Sum((s \ {e}) \ {y}) = Sum((s \ {y}) \ {e})
  BY <1>12
<1>14. /\ f[e] \in Int /\ f[y] \in Int /\ Sum((s \ {e}) \ {y}) \in Int
       /\ Sum(s \ {e}) \in Int /\ Sum(s \ {y}) \in Int /\ Sum(s) \in Int
  BY <1>2, <1>3, <1>4, <1>8, <1>9, <1>12
<1> QED
  BY <1>3, <1>5, <1>10, <1>11, <1>14, <1>13

(* A new element adds its value.                                            *)
LEMMA SumAdd ==
  ASSUME NEW f, NEW S, IsFiniteSet(S), \A y \in S : f[y] \in Int, NEW x, x \notin S, f[x] \in Int
  PROVE  SumFunctionOnSet(f, S \union {x}) = SumFunctionOnSet(f, S) + f[x]
<1> DEFINE T == S \union {x}
<1>1. IsFiniteSet(T) /\ x \in T /\ T \ {x} = S /\ \A y \in T : f[y] \in Int
  BY FS_AddElement
<1> HIDE DEF T
<1>2. SumFunctionOnSet(f, T) = f[x] + SumFunctionOnSet(f, T \ {x})
  BY <1>1, SumRemove
<1>3. SumFunctionOnSet(f, S) \in Int
  BY SumType
<1>4. SumFunctionOnSet(f, T \ {x}) = SumFunctionOnSet(f, S)
  BY <1>1
<1>5. SumFunctionOnSet(f, T) = SumFunctionOnSet(f, S) + f[x]
  BY <1>2, <1>3, <1>4
<1> QED
  BY <1>5 DEF T

(* The sum over a part, of naturals, is no more than the sum of the whole.  *)
LEMMA SumPart ==
  ASSUME NEW f, NEW S, IsFiniteSet(S), \A x \in S : f[x] \in Nat, NEW T \in SUBSET S
  PROVE  SumFunctionOnSet(f, T) <= SumFunctionOnSet(f, S)
<1> DEFINE Sum(s) == SumFunctionOnSet(f, s)
           Bad == {s \in SUBSET S : T \subseteq s /\ ~(Sum(T) <= Sum(s))}
<1> SUFFICES ASSUME Bad # {} PROVE FALSE
  OBVIOUS
<1>1. PICK s \in Bad : \A u \in Bad : u \subseteq s => u = s
  <2>1. Bad \in SUBSET (SUBSET S)
    OBVIOUS
  <2> HIDE DEF Bad
  <2> QED
    BY <2>1, LeastSubset
<1>2. s \in SUBSET S /\ T \subseteq s /\ ~(Sum(T) <= Sum(s)) /\ IsFiniteSet(s) /\ IsFiniteSet(T)
  BY <1>1, FS_Subset
<1>3. Sum(T) \in Nat /\ Sum(s) \in Nat
  <2>1. Sum(T) \in Nat
    BY <1>2, SumType
  <2>2. Sum(s) \in Nat
    BY <1>2, SumType
  <2> QED
    BY <2>1, <2>2
<1>4. s # T
  BY <1>2, <1>3
<1>5. PICK x \in s : x \notin T
  BY <1>2, <1>4
<1>6. Sum(s) = f[x] + Sum(s \ {x})
  <2>1. \A y \in s : f[y] \in Int
    BY <1>2
  <2> QED
    BY <1>2, <2>1, SumRemove
<1>7. s \ {x} \notin Bad
  BY <1>1, <1>5
<1>8. Sum(T) <= Sum(s \ {x})
  BY <1>2, <1>5, <1>7
<1>9. f[x] \in Nat /\ Sum(s \ {x}) \in Nat
  <2>1. IsFiniteSet(s \ {x}) /\ \A y \in s \ {x} : f[y] \in Nat
    BY <1>2, FS_RemoveElement
  <2>2. Sum(s \ {x}) \in Nat
    BY <2>1, SumType
  <2> QED
    BY <1>2, <2>2
<1> HIDE DEF Sum
<1> QED
  BY <1>2, <1>3, <1>6, <1>8, <1>9

(* The sum over two parts is the sum of theirs.                             *)
LEMMA SumUnion ==
  ASSUME NEW f, NEW S, IsFiniteSet(S), \A x \in S : f[x] \in Int,
         NEW T, IsFiniteSet(T), \A x \in T : f[x] \in Int, S \cap T = {}
  PROVE  SumFunctionOnSet(f, S \union T) = SumFunctionOnSet(f, S) + SumFunctionOnSet(f, T)
<1> DEFINE Sum(s) == SumFunctionOnSet(f, s)
           Bad == {t \in SUBSET T : Sum(S \union t) # Sum(S) + Sum(t)}
<1> SUFFICES ASSUME Bad # {} PROVE FALSE
  OBVIOUS
<1>1. PICK t \in Bad : \A u \in Bad : u \subseteq t => u = t
  <2>1. Bad \in SUBSET (SUBSET T)
    OBVIOUS
  <2> HIDE DEF Bad
  <2> QED
    BY <2>1, LeastSubset
<1>2. t \in SUBSET T /\ Sum(S \union t) # Sum(S) + Sum(t) /\ IsFiniteSet(t)
  BY <1>1, FS_Subset
<1>3. Sum(S) \in Int /\ Sum({}) = 0 /\ S \union {} = S
  BY SumType, SumEmpty
<1>4. t # {}
  <2>1. Sum(S \union {}) = Sum(S) /\ Sum(S) + Sum({}) = Sum(S)
    BY <1>3
  <2> HIDE DEF Sum
  <2> QED
    BY <1>2, <2>1
<1>5. PICK x \in t : TRUE
  BY <1>4
<1>6. t \ {x} \in SUBSET T /\ t \ {x} \notin Bad /\ IsFiniteSet(t \ {x})
  BY <1>1, <1>2, <1>5, FS_RemoveElement
<1>7. Sum(S \union (t \ {x})) = Sum(S) + Sum(t \ {x})
  <2>1. \A u \in SUBSET T : u \notin Bad => Sum(S \union u) = Sum(S) + Sum(u)
    OBVIOUS
  <2> HIDE DEF Sum, Bad
  <2> QED
    BY <1>6, <2>1
<1>8. Sum(t) = f[x] + Sum(t \ {x})
  BY <1>2, <1>5, SumRemove
<1>9. Sum((S \union (t \ {x})) \union {x}) = Sum(S \union (t \ {x})) + f[x]
  <2> DEFINE U == S \union (t \ {x})
  <2>1. IsFiniteSet(U) /\ x \notin U /\ f[x] \in Int /\ \A y \in U : f[y] \in Int
    BY <1>2, <1>5, <1>6, FS_Union
  <2> HIDE DEF U
  <2>2. Sum(U \union {x}) = Sum(U) + f[x]
    BY <2>1, SumAdd
  <2> QED
    BY <2>2 DEF U
<1>10. (S \union (t \ {x})) \union {x} = S \union t
  BY <1>5
<1>11. Sum(t \ {x}) \in Int /\ f[x] \in Int
  <2>1. \A y \in t \ {x} : f[y] \in Int
    BY <1>2
  <2> QED
    BY <1>2, <1>5, <1>6, <2>1, SumType
<1>12. Sum((S \union (t \ {x})) \union {x}) = Sum(S \union t)
  BY <1>10
<1> HIDE DEF Sum
<1> QED
  BY <1>2, <1>3, <1>7, <1>8, <1>9, <1>11, <1>12

(* A function that changes at one element.                                  *)
LEMMA SumChange ==
  ASSUME NEW f, NEW g, NEW S, IsFiniteSet(S), \A x \in S : f[x] \in Int /\ g[x] \in Int,
         NEW x \in S, \A y \in S \ {x} : g[y] = f[y]
  PROVE  /\ SumFunctionOnSet(f, S) \in Int /\ SumFunctionOnSet(g, S) \in Int
         /\ SumFunctionOnSet(g, S) = SumFunctionOnSet(f, S) - f[x] + g[x]
<1> DEFINE R == S \ {x}
<1>1. SumFunctionOnSet(f, S) = f[x] + SumFunctionOnSet(f, R)
  BY SumRemove
<1>2. SumFunctionOnSet(g, S) = g[x] + SumFunctionOnSet(g, R)
  BY SumRemove
<1>3. IsFiniteSet(R) /\ \A y \in R : f[y] \in Int /\ g[y] \in Int /\ f[y] = g[y]
  BY FS_RemoveElement
<1> HIDE DEF R
<1>4. SumFunctionOnSet(f, R) = SumFunctionOnSet(g, R)
  BY <1>3, SumSame
<1>5. SumFunctionOnSet(f, R) \in Int
  BY <1>3, SumType
<1> QED
  BY <1>1, <1>2, <1>4, <1>5

(* Naturals that sum up to nothing are nothing.                             *)
LEMMA SumZero ==
  ASSUME NEW f, NEW S, IsFiniteSet(S), \A x \in S : f[x] = 0
  PROVE  SumFunctionOnSet(f, S) = 0
<1> DEFINE Bad == {s \in SUBSET S : SumFunctionOnSet(f, s) # 0}
<1> SUFFICES ASSUME Bad # {} PROVE FALSE
  OBVIOUS
<1>1. PICK s \in Bad : \A u \in Bad : u \subseteq s => u = s
  <2>1. Bad \in SUBSET (SUBSET S)
    OBVIOUS
  <2> HIDE DEF Bad
  <2> QED
    BY <2>1, LeastSubset
<1>2. s \in SUBSET S /\ IsFiniteSet(s) /\ SumFunctionOnSet(f, s) # 0
  BY <1>1, FS_Subset
<1>3. s # {}
  BY <1>2, SumEmpty
<1>4. Leading(s) \in s /\ f[Leading(s)] = 0
  BY <1>2, <1>3, LeadingIn
<1>5. SumFunctionOnSet(f, s) = 0 + SumFunctionOnSet(f, s \ {Leading(s)})
  BY <1>2, <1>3, <1>4, SumFirst
<1>6. SumFunctionOnSet(f, s \ {Leading(s)}) = 0
  BY <1>1, <1>2, <1>4
<1> QED
  BY <1>2, <1>5, <1>6

-----------------------------------------------------------------------------
(****************************************************************************)
(* Theorems about ListUnits, for any target and any number of transactions  *)
(* and crashes: persist before send, every job that landed has its row, and *)
(* never more jobs, nor fewer, than the target.                             *)
(****************************************************************************)

(* A record, a broadcast and a step of the run for each transaction.        *)
Shapes ==
  /\ record \in [Txs -> {"NONE", "SIGNED", "SENT", "CONFIRMED"}]
  /\ chain \in [Txs -> {"unsent", "inflight", "landed", "reverted", "dead"}]
  /\ step \in [Txs -> Busy \cup {"none", "confirmed", "ended"}]

(* The run sends, follows or marks only what it has a record of: a step past *)
(* `persist` has one, and no step takes a record away.                       *)
StepRecorded == \A x \in Txs : step[x] \in Busy \ {"persist"} => record[x] # "NONE"

Recorded == Shapes /\ StepRecorded /\ PersistedBeforeSent

(* A task begins with nothing signed.                                       *)
LEMMA InitRecorded == Init => Recorded
BY DEF Init, Recorded, Shapes, StepRecorded, PersistedBeforeSent, Busy

(* What moves the run on with one transaction, and marks no record.         *)
LEMMA AdvanceKeeps ==
  ASSUME Recorded, NEW x \in Txs, NEW s \in Busy \cup {"none", "confirmed", "ended"},
         s \in Busy \ {"persist"} => record[x] # "NONE",
         step' = [step EXCEPT ![x] = s], UNCHANGED record
  PROVE  step' \in [Txs -> Busy \cup {"none", "confirmed", "ended"}] /\ StepRecorded'
BY DEF Recorded, Shapes, StepRecorded, Busy

(* markRecord writes over records, and never removes one.                   *)
LEMMA MarkKeeps ==
  ASSUME Recorded, NEW x \in Txs, NEW verdict \in {"SENT", "CONFIRMED"}, MarkRecord(x, verdict)
  PROVE  /\ record' \in [Txs -> {"NONE", "SIGNED", "SENT", "CONFIRMED"}]
         /\ \A y \in Txs : record[y] # "NONE" => record'[y] # "NONE"
BY DEF Recorded, Shapes, MarkRecord

(* A step of one transaction.                                               *)
LEMMA UnitRecorded == ASSUME Recorded, NEW x \in Txs, Unit(x) PROVE Recorded'
<1> USE DEF taskVars, handoff, txVars, runVars, history
<1>0. Shapes /\ StepRecorded /\ PersistedBeforeSent
  BY DEF Recorded
<1>1. ASSUME NEW from, NEW to, from \in Busy \ {"persist"}, to \in Busy \cup {"none", "confirmed", "ended"},
             step[x] = from, Advance(x, to), UNCHANGED <<record, chain>>
      PROVE  Recorded'
  <2>1. record[x] # "NONE"
    BY <1>0, <1>1 DEF StepRecorded
  <2>2. step' \in [Txs -> Busy \cup {"none", "confirmed", "ended"}] /\ StepRecorded'
    BY <1>1, <2>1, AdvanceKeeps DEF Advance
  <2> QED
    BY <1>0, <1>1, <2>2 DEF Recorded, Shapes, PersistedBeforeSent
<1>2. CASE Recover(x)
  BY <1>1, <1>2 DEF Recover, Busy
<1>3. CASE StandDown(x)
  BY <1>1, <1>3 DEF StandDown, Busy
<1>4. CASE Terminate(x)
  BY <1>0, <1>4 DEF Terminate, Recorded, Shapes, StepRecorded, PersistedBeforeSent, Busy
<1>5. ASSUME step[x] = "send", NEW c \in {"unsent", "inflight", "landed", "reverted", "dead"},
             chain' = [chain EXCEPT ![x] = c] \/ chain' = chain,
             NEW to \in Busy \ {"persist"}, Advance(x, to), UNCHANGED record
      PROVE  Recorded'
  <2>1. record[x] # "NONE"
    BY <1>0, <1>5 DEF StepRecorded, Busy
  <2>2. step' \in [Txs -> Busy \cup {"none", "confirmed", "ended"}] /\ StepRecorded'
    BY <1>5, <2>1, AdvanceKeeps DEF Advance
  <2> QED
    BY <1>0, <1>5, <2>1, <2>2 DEF Recorded, Shapes, PersistedBeforeSent
<1>6. CASE Send(x)
  <2>1. chain' = [chain EXCEPT ![x] = IF chain[x] = "unsent" THEN "inflight" ELSE chain[x]]
    BY <1>6 DEF Send
  <2>2. chain[x] \in {"unsent", "inflight", "landed", "reverted", "dead"}
    BY <1>0 DEF Shapes
  <2> QED
    BY <1>5, <1>6, <2>1, <2>2 DEF Send, Busy
<1>7. CASE SendFails(x)
  BY <1>5, <1>7 DEF SendFails, Busy
<1>8. CASE Track(x)
  BY <1>1, <1>8 DEF Track, Busy
<1>9. CASE WriteRow(x)
  <2>1. CASE Advance(x, "confirmed")
    BY <1>1, <1>9, <2>1 DEF WriteRow, Busy
  <2>2. CASE Advance(x, "rows")
    BY <1>1, <1>9, <2>2 DEF WriteRow, Busy
  <2> QED
    BY <1>9, <2>1, <2>2 DEF WriteRow
<1>10. ASSUME step[x] \in Busy \ {"persist"}, NEW verdict \in {"SENT", "CONFIRMED"}, MarkRecord(x, verdict),
              NEW to \in Busy \cup {"none", "confirmed", "ended"}, step' = [step EXCEPT ![x] = to],
              UNCHANGED chain
       PROVE  Recorded'
  <2>1. /\ record' \in [Txs -> {"NONE", "SIGNED", "SENT", "CONFIRMED"}]
        /\ \A y \in Txs : record[y] # "NONE" => record'[y] # "NONE"
    BY <1>10, MarkKeeps
  <2>2. record[x] # "NONE"
    BY <1>0, <1>10 DEF StepRecorded
  <2> QED
    BY <1>0, <1>10, <2>1, <2>2 DEF Recorded, Shapes, StepRecorded, PersistedBeforeSent, Busy
<1>11. CASE MarkConfirmed(x)
  BY <1>10, <1>11 DEF MarkConfirmed, Advance, Busy
<1>12. CASE MarkExpired(x)
  BY <1>10, <1>12 DEF MarkExpired, Advance, Busy
<1>13. CASE MarkError(x)
  BY <1>10, <1>13 DEF MarkError, Busy
<1>14. CASE Persist(x)
  BY <1>0, <1>14 DEF Persist, Advance, Recorded, Shapes, StepRecorded, PersistedBeforeSent, Busy
<1>15. CASE Chain(x)
  BY <1>0, <1>15 DEF Chain, Land, Revert, Lapse, Recorded, Shapes, StepRecorded, PersistedBeforeSent, Busy
<1> QED
  BY <1>2, <1>3, <1>4, <1>6, <1>7, <1>8, <1>9, <1>11, <1>12, <1>13, <1>14, <1>15 DEF Unit

(* A step of the queue around the run, or of the run as a whole.            *)
LEMMA StepKeepsRecorded == Recorded /\ [Next]_vars => Recorded'
<1> SUFFICES ASSUME Recorded, [Next]_vars PROVE Recorded'
  OBVIOUS
<1> USE DEF taskVars, handoff, txVars, runVars, history, Recorded, Shapes, StepRecorded, PersistedBeforeSent, Busy
<1>1. ASSUME NEW x \in Txs, Unit(x) PROVE Recorded'
  BY <1>1, UnitRecorded
<1>2. CASE StartRun
  BY <1>2 DEF StartRun
<1>3. CASE Drop \/ AbandonList \/ StopDeployment \/ HeirLeaves \/ Abort \/ UNCHANGED vars
  BY <1>3 DEF Drop, AbandonList, StopDeployment, HeirLeaves, Abort, vars
<1>4. CASE Crash \/ Complete
  BY <1>4 DEF Crash, Complete, Leave
<1>5. CASE ResumeEnds \/ FreshEnds \/ Close
  BY <1>5 DEF ResumeEnds, FreshEnds, Close, Leave
<1>6. CASE SignNothing
  BY <1>6 DEF SignNothing
<1>7. CASE Sign
  <2>1. UNCHANGED <<record, chain>>
    BY <1>7, Zenon DEF Sign
  <2>2. PICK fresh : step' = [y \in Txs |-> IF y \in fresh THEN FirstStep ELSE step[y]]
    BY <1>7, Zenon DEF Sign
  <2> QED
    BY <2>1, <2>2 DEF FirstStep
<1> QED
  BY <1>1, <1>2, <1>3, <1>4, <1>5, <1>6, <1>7 DEF Next

(* Persist before send: in whatever order transactions are signed, sent and *)
(* resumed, and wherever crashes and aborts fall, a transaction that may    *)
(* have reached the chain has its record on the task (workerChannel.ts), by *)
(* which the next run finds it.                                             *)
THEOREM SentIsRecorded == Spec => []PersistedBeforeSent
<1>1. Recorded => PersistedBeforeSent
  BY DEF Recorded
<1> QED
  BY <1>1, InitRecorded, StepKeepsRecorded, PTL DEF Spec

-----------------------------------------------------------------------------
(* What the run knows of its transactions, and when the chain agrees.        *)

Honest == ~deceived /\ UnitsDistinct

(* Signed bytes are kept exactly as long as the record says SIGNED.          *)
Counts ==
  /\ task \in {"queued", "completed", "dropped", "abandoned"}
  /\ size \in [Txs -> Nat] /\ rows \in [Txs -> Nat]
  /\ blob = {x \in Txs : record[x] = "SIGNED"}
  /\ phase \in {"idle", "resume", "judge", "fresh", "closing", "completing"}
  /\ aborted \in BOOLEAN /\ deceived \in BOOLEAN

(* Transactions are signed in order, so those signed anew are none of those  *)
(* recorded before.                                                          *)
InOrder ==
  /\ \E n \in 0..MaxTxs : Signed = 1..n
  /\ \A x \in Txs : size[x] = 0 => record[x] = "NONE" /\ step[x] = "none"

(* A run that was not aborted leaves no signed bytes behind: it has a step   *)
(* for each of them until the record says what became of it.                 *)
Carried ==
  /\ phase = "idle" => \A x \in Txs : step[x] = "none"
  /\ phase \in {"closing", "completing"} => ~aborted /\ Settled
  /\ phase # "idle" /\ ~aborted => \A x \in blob : step[x] \in Busy \ {"persist", "rows"}
  /\ task # "queued" => (blob = {} \/ task = "abandoned") /\ phase = "idle"

(* As long as nothing lied, the verdicts and the records are the chain's: a  *)
(* CONFIRMED record landed and has its rows, or is writing them, and what    *)
(* was given up (SENT) never lands.                                          *)
TruthAt(x) ==
  /\ record[x] = "CONFIRMED" =>
       chain[x] = "landed" /\ (rows[x] = size[x] \/ x \in torn \/ step[x] = "rows")
  /\ step[x] \in {"mark", "rows"} => chain[x] = "landed"
  /\ (step[x] \in {"expire", "error"} \/ record[x] = "SENT") =>
       chain[x] \in {"unsent", "dead", "reverted"}
  /\ step[x] \in {"send", "track"} => x \in blob
Truthful == \A x \in Txs : TruthAt(x)

LandInv == Recorded /\ Counts /\ InOrder /\ Carried /\ (Honest => Truthful)

LEMMA InitLand == Init => LandInv
<1> SUFFICES ASSUME Init PROVE LandInv
  OBVIOUS
<1>1. Signed = 1..0
  BY DEF Init, Signed
<1>2. 0 \in 0..MaxTxs
  BY ListAssumption
<1>3. InOrder
  BY <1>1, <1>2 DEF Init, InOrder
<1>4. Counts /\ Carried /\ Truthful
  BY DEF Init, Counts, Carried, Truthful, TruthAt, Records
<1> QED
  BY <1>3, <1>4, InitRecorded DEF LandInv

(* What LandInv says of a task is what its proofs use.                       *)
LEMMA LandFacts ==
  ASSUME LandInv
  PROVE  Recorded /\ Shapes /\ StepRecorded /\ Counts /\ InOrder /\ Carried /\ blob \subseteq Records
BY DEF LandInv, Recorded, Counts, Records

(* markRecord writes one verdict over records of one unit; where the units    *)
(* are distinct, over one record.                                            *)
LEMMA MarkOne ==
  ASSUME LandInv, NEW x \in Records, NEW verdict \in {"SENT", "CONFIRMED"}, MarkRecord(x, verdict)
  PROVE  /\ \A y \in Txs : record'[y] = record[y] \/ (record[y] # "NONE" /\ record'[y] = verdict)
         /\ record'[x] = verdict /\ x \notin blob'
         /\ blob' = {y \in Txs : record'[y] = "SIGNED"} /\ blob' \subseteq blob
         /\ UnitsDistinct => \A y \in Txs \ {x} : record'[y] = record[y]
<1>1. Shapes /\ Counts
  BY LandFacts
<1>2. x \in Txs /\ x \in Matching(x)
  BY DEF Records, Matching
<1>3. \A y \in Matching(x) : y \in Txs /\ record[y] # "NONE"
  BY DEF Matching, Records
<1>4. UnitsDistinct => \A y \in Matching(x) : y = x
  BY DEF Matching, UnitsDistinct
<1>5. \A y \in Txs : record'[y] = IF y \in Matching(x) THEN verdict ELSE record[y]
  BY DEF MarkRecord
<1>6. blob' = blob \ Matching(x)
  BY DEF MarkRecord
<1> HIDE DEF Matching
<1>7. \A y : y \in blob' <=> y \in Txs /\ record'[y] = "SIGNED"
  BY <1>1, <1>3, <1>5, <1>6 DEF Counts
<1> QED
  BY <1>2, <1>3, <1>4, <1>5, <1>6, <1>7

(* A step of the run with one transaction that marks no record: what it has  *)
(* to say of that transaction, for the rest to stay as it was.               *)
LEMMA AdvanceLand ==
  ASSUME LandInv, Recorded', NEW x \in Txs,
         NEW to \in Busy \cup {"none", "confirmed", "ended"},
         NEW c \in {"unsent", "inflight", "landed", "reverted", "dead"},
         step[x] \in Busy, step' = [step EXCEPT ![x] = to],
         chain' = [chain EXCEPT ![x] = c],
         UNCHANGED <<task, size, unit, record, blob, phase, aborted, torn>>,
         rows' \in [Txs -> Nat], \A y \in Txs \ {x} : rows'[y] = rows[y],
         deceived' \in BOOLEAN, deceived => deceived',
         aborted \/ (x \in blob => to \in Busy \ {"persist", "rows"}),
         Honest /\ ~deceived' /\ Truthful => TruthAt(x)'
  PROVE  LandInv'
<1>1. Shapes /\ Counts /\ InOrder /\ Carried
  BY LandFacts
<1>2. Records' = Records /\ Signed' = Signed /\ (UnitsDistinct' <=> UnitsDistinct)
  BY DEF Records, Signed, UnitsDistinct
<1>3. Counts' /\ InOrder'
  <2>1. size[x] # 0
    BY <1>1 DEF InOrder, Busy
  <2>2. \A y \in Txs : size[y] = 0 => record'[y] = "NONE" /\ step'[y] = "none"
    BY <1>1, <2>1 DEF InOrder, Shapes
  <2> QED
    BY <1>1, <1>2, <2>2 DEF Counts, InOrder
<1>4. Carried'
  <2>1. phase \notin {"idle", "closing", "completing"}
    BY <1>1 DEF Carried, Settled, Busy
  <2>2. task = "queued"
    BY <1>1, <2>1 DEF Carried, Counts
  <2>3. ~aborted => \A y \in blob : step'[y] \in Busy \ {"persist", "rows"}
    BY <1>1, <2>1 DEF Carried, Counts, Shapes
  <2> QED
    BY <2>1, <2>2, <2>3 DEF Carried
<1>5. ASSUME Honest' PROVE Truthful'
  <2>1. Honest /\ ~deceived' /\ Truthful
    BY <1>1, <1>2, <1>5 DEF Honest, LandInv, Counts
  <2>2. ASSUME NEW y \in Txs, y # x PROVE TruthAt(y)'
    <3>1. step'[y] = step[y] /\ chain'[y] = chain[y] /\ rows'[y] = rows[y]
      BY <1>1, <2>2 DEF Shapes
    <3> QED
      BY <2>1, <2>2, <3>1 DEF Truthful, TruthAt
  <2> QED
    BY <2>1, <2>2 DEF Truthful
<1> QED
  BY <1>3, <1>4, <1>5 DEF LandInv

(* A step that writes the verdict on a record.                               *)
LEMMA MarkLand ==
  ASSUME LandInv, Recorded', NEW x \in Txs, NEW from, NEW to, NEW verdict,
         \/ from = "mark" /\ to = "rows" /\ verdict = "CONFIRMED"
         \/ from \in {"expire", "error"} /\ to = "ended" /\ verdict = "SENT",
         step[x] = from, MarkRecord(x, verdict), step' = [step EXCEPT ![x] = to],
         UNCHANGED <<task, size, unit, chain, rows, phase, aborted, torn, deceived>>
  PROVE  LandInv'
<1>1. Shapes /\ Counts /\ InOrder /\ Carried /\ StepRecorded
  BY LandFacts
<1>2. x \in Records /\ verdict \in {"SENT", "CONFIRMED"}
  BY <1>1 DEF StepRecorded, Records, Busy
<1>3. /\ \A y \in Txs : record'[y] = record[y] \/ (record[y] # "NONE" /\ record'[y] = verdict)
      /\ record'[x] = verdict /\ x \notin blob'
      /\ blob' = {y \in Txs : record'[y] = "SIGNED"} /\ blob' \subseteq blob
      /\ UnitsDistinct => \A y \in Txs \ {x} : record'[y] = record[y]
  BY <1>2, MarkOne
<1>4. Records' = Records
  BY <1>2, <1>3 DEF Records
<1>5. Counts' /\ InOrder'
  <2>1. Signed' = Signed
    BY DEF Signed
  <2>2. size[x] # 0
    BY <1>1, <1>2 DEF InOrder, Records
  <2>3. \A y \in Txs : size[y] = 0 => record'[y] = "NONE" /\ step'[y] = "none"
    BY <1>1, <1>2, <1>3, <2>2 DEF InOrder, Shapes
  <2> QED
    BY <1>1, <1>3, <2>1, <2>3 DEF Counts, InOrder
<1>6. Carried'
  <2>1. phase \notin {"idle", "closing", "completing"}
    BY <1>1 DEF Carried, Settled, Busy
  <2>2. task = "queued"
    BY <1>1, <2>1 DEF Carried, Counts
  <2>3. ~aborted => \A y \in blob' : step'[y] \in Busy \ {"persist", "rows"}
    BY <1>1, <1>3, <2>1 DEF Carried, Counts, Shapes
  <2> QED
    BY <2>1, <2>2, <2>3 DEF Carried
<1>7. ASSUME Honest' PROVE Truthful'
  <2>1. Honest /\ UnitsDistinct /\ Truthful
    BY <1>1, <1>4, <1>7 DEF Honest, UnitsDistinct, LandInv, Counts
  <2>2. ASSUME NEW y \in Txs, y # x PROVE TruthAt(y)'
    <3>1. step'[y] = step[y] /\ record'[y] = record[y] /\ (y \in blob => y \in blob')
      BY <1>1, <1>3, <2>1, <2>2 DEF Shapes, Counts
    <3> QED
      BY <2>1, <2>2, <3>1 DEF Truthful, TruthAt
  <2>3. TruthAt(x)'
    <3>1. step'[x] = to
      BY <1>1 DEF Shapes
    <3> QED
      BY <1>3, <2>1, <3>1 DEF Truthful, TruthAt
  <2> QED
    BY <2>2, <2>3 DEF Truthful
<1> QED
  BY <1>5, <1>6, <1>7 DEF LandInv

(* A step of one transaction.                                               *)
LEMMA UnitLand == ASSUME LandInv, NEW x \in Txs, Unit(x) PROVE LandInv'
<1> USE DEF taskVars, handoff, txVars, runVars, history
<1>1. Shapes /\ Counts /\ InOrder /\ Carried /\ StepRecorded /\ Recorded'
  BY LandFacts, UnitRecorded
<1>2. /\ x \in blob <=> record[x] = "SIGNED"
      /\ record[x] \in {"NONE", "SIGNED", "SENT", "CONFIRMED"}
      /\ chain[x] \in {"unsent", "inflight", "landed", "reverted", "dead"}
      /\ chain = [chain EXCEPT ![x] = chain[x]]
      /\ step[x] \in Busy \ {"persist"} => record[x] # "NONE"
  BY <1>1 DEF Counts, Shapes, StepRecorded
<1>3. \A to : step' = [step EXCEPT ![x] = to] => step'[x] = to
  BY <1>1 DEF Shapes
<1>4. \A c : chain' = [chain EXCEPT ![x] = c] => chain'[x] = c
  BY <1>1 DEF Shapes
<1>5. CASE Recover(x)
  <2>1. /\ step[x] = "recover" /\ ~aborted
        /\ UNCHANGED <<task, size, unit, record, blob, chain, rows, phase, aborted, torn>>
        /\ deceived' \in BOOLEAN /\ (deceived => deceived')
    <3>1. deceived' = deceived \/ deceived' = TRUE
      BY <1>5, Zenon DEF Recover
    <3>2. deceived' \in BOOLEAN /\ (deceived => deceived')
      BY <1>1, <3>1 DEF Counts
    <3> QED
      BY <1>5, <3>2 DEF Recover, Advance
  <2>2. \/ chain[x] = "landed" /\ Advance(x, "mark")
        \/ chain[x] = "reverted" /\ Advance(x, "error")
        \/ /\ chain[x] \notin {"landed", "reverted"} /\ (x \notin blob \/ chain[x] = "dead")
           /\ Advance(x, "expire")
        \/ x \in blob /\ Advance(x, "send")
        \/ deceived' /\ Advance(x, "expire")
    BY <1>5 DEF Recover, SeenConfirmed, SeenReverted, Missed, Expired
  <2> USE DEF Truthful, TruthAt, Honest, Busy, Advance
  <2>3. ASSUME NEW to \in {"mark", "error", "expire", "send"}, Advance(x, to),
               Honest /\ ~deceived' /\ Truthful => TruthAt(x)'
        PROVE  LandInv'
    BY <1>1, <1>2, <2>1, <2>3, AdvanceLand DEF Counts
  <2>4. CASE chain[x] = "landed" /\ Advance(x, "mark")
    BY <1>2, <1>3, <2>1, <2>3, <2>4
  <2>5. CASE chain[x] = "reverted" /\ Advance(x, "error")
    BY <1>2, <1>3, <2>1, <2>3, <2>5
  <2>6. CASE /\ chain[x] \notin {"landed", "reverted"} /\ (x \notin blob \/ chain[x] = "dead")
             /\ Advance(x, "expire")
    BY <1>2, <1>3, <2>1, <2>3, <2>6
  <2>7. CASE x \in blob /\ Advance(x, "send")
    BY <1>2, <1>3, <2>1, <2>3, <2>7
  <2>8. CASE deceived' /\ Advance(x, "expire")
    BY <1>2, <1>3, <2>1, <2>3, <2>8
  <2> QED
    BY <2>2, <2>4, <2>5, <2>6, <2>7, <2>8
<1>6. CASE StandDown(x)
  <2>1. /\ aborted /\ step[x] \in Busy /\ step' = [step EXCEPT ![x] = "ended"] /\ step[x] # "rows"
        /\ UNCHANGED <<task, size, unit, record, blob, chain, rows, phase, aborted, torn, deceived>>
    BY <1>6 DEF StandDown, Advance, Busy
  <2>2. Honest /\ ~deceived' /\ Truthful => TruthAt(x)'
    BY <1>3, <2>1 DEF Truthful, TruthAt
  <2> QED
    BY <1>1, <1>2, <2>1, <2>2, AdvanceLand DEF Counts
<1>7. CASE Terminate(x)
  <2>1. /\ aborted /\ step[x] = "persist"
        /\ \A y \in Txs : step'[y] = step[y] \/ (step[y] = "persist" /\ step'[y] = "ended")
        /\ UNCHANGED <<task, size, unit, record, blob, chain, rows, phase, aborted, torn, deceived>>
    BY <1>1, <1>7 DEF Terminate
  <2>2. Records' = Records /\ Signed' = Signed /\ (UnitsDistinct' <=> UnitsDistinct)
    BY <2>1 DEF Records, Signed, UnitsDistinct
  <2>3. phase \notin {"idle", "closing", "completing"} /\ task = "queued"
    BY <1>1, <2>1 DEF Carried, Settled, Busy, Counts
  <2>4. Counts' /\ InOrder' /\ Carried'
    BY <1>1, <2>1, <2>2, <2>3 DEF Counts, InOrder, Carried
  <2>5. Honest' => Truthful'
    BY <1>1, <2>1, <2>2 DEF Honest, LandInv, Truthful, TruthAt
  <2> QED
    BY <1>1, <2>4, <2>5 DEF LandInv
<1>8. CASE Send(x)
  <2>1. /\ step[x] = "send" /\ ~aborted /\ Advance(x, "track")
        /\ chain' = [chain EXCEPT ![x] = IF chain[x] = "unsent" THEN "inflight" ELSE chain[x]]
        /\ UNCHANGED <<task, size, unit, record, blob, rows, phase, aborted, torn, deceived>>
    BY <1>8 DEF Send, Advance
  <2>2. PICK c \in {"unsent", "inflight", "landed", "reverted", "dead"} :
          chain' = [chain EXCEPT ![x] = c] /\ (chain[x] = "landed" => c = "landed")
    BY <1>2, <2>1
  <2>3. Honest /\ ~deceived' /\ Truthful => TruthAt(x)'
    BY <1>2, <1>3, <1>4, <2>1, <2>2 DEF Truthful, TruthAt, Advance
  <2> QED
    BY <1>1, <1>2, <2>1, <2>2, <2>3, AdvanceLand DEF Counts, Advance, Busy
<1>9. CASE SendFails(x)
  <2>1. /\ step[x] = "send" /\ ~aborted
        /\ UNCHANGED <<task, size, unit, record, blob, rows, phase, aborted, torn>>
        /\ deceived' \in BOOLEAN /\ (deceived => deceived')
    BY <1>1, <1>9 DEF SendFails, Advance, Counts
  <2>2. PICK to \in {"expire", "error"} : Advance(x, to)
    BY <1>9 DEF SendFails
  <2>3. PICK c \in {"unsent", "inflight", "landed", "reverted", "dead"} :
          chain' = [chain EXCEPT ![x] = c] /\ (deceived' \/ c \in {"unsent", "reverted", "dead"})
    <3>1. CASE chain' = [chain EXCEPT ![x] = "inflight"] /\ deceived' = TRUE
      BY <3>1
    <3>2. CASE UNCHANGED chain /\ deceived' = (deceived \/ chain[x] \in {"inflight", "landed"})
      BY <1>2, <3>2
    <3> QED
      BY <1>9, <3>1, <3>2 DEF SendFails
  <2>4. Honest /\ ~deceived' /\ Truthful => TruthAt(x)'
    BY <1>2, <1>3, <1>4, <2>1, <2>2, <2>3 DEF Truthful, TruthAt, Advance
  <2> QED
    BY <1>1, <1>2, <2>1, <2>2, <2>3, <2>4, AdvanceLand DEF Counts, Advance, Busy
<1>10. CASE Track(x)
  <2>1. /\ step[x] = "track" /\ ~aborted
        /\ UNCHANGED <<task, size, unit, record, blob, chain, rows, phase, aborted, torn>>
        /\ deceived' \in BOOLEAN /\ (deceived => deceived')
    <3>1. deceived' = deceived \/ deceived' = TRUE
      BY <1>10, Zenon DEF Track
    <3>2. deceived' \in BOOLEAN /\ (deceived => deceived')
      BY <1>1, <3>1 DEF Counts
    <3> QED
      BY <1>10, <3>2 DEF Track, Advance
  <2>2. \E to \in {"mark", "error", "expire"} :
          /\ Advance(x, to)
          /\ to = "mark" => chain[x] = "landed"
          /\ to \in {"error", "expire"} => deceived' \/ chain[x] \in {"reverted", "dead"}
    BY <1>10 DEF Track, SeenConfirmed, SeenReverted, SeenExpired
  <2>3. PICK to \in {"mark", "error", "expire"} :
          /\ Advance(x, to)
          /\ to = "mark" => chain[x] = "landed"
          /\ to \in {"error", "expire"} => deceived' \/ chain[x] \in {"reverted", "dead"}
    BY <2>2
  <2>4. Honest /\ ~deceived' /\ Truthful => TruthAt(x)'
    BY <1>2, <1>3, <2>1, <2>3 DEF Truthful, TruthAt, Advance
  <2> QED
    BY <1>1, <1>2, <2>1, <2>3, <2>4, AdvanceLand DEF Counts, Advance, Busy
<1>11. CASE WriteRow(x)
  <2> DEFINE n == IF rows[x] < size[x] THEN rows[x] + 1 ELSE rows[x]
  <2>1. /\ step[x] = "rows" /\ rows' = [rows EXCEPT ![x] = n]
        /\ Advance(x, IF rows'[x] = size[x] THEN "confirmed" ELSE "rows")
        /\ UNCHANGED <<task, size, unit, record, blob, chain, phase, aborted, torn, deceived>>
    BY <1>11 DEF WriteRow, Advance
  <2>2. rows' \in [Txs -> Nat] /\ \A y \in Txs \ {x} : rows'[y] = rows[y]
    BY <1>1, <2>1 DEF Counts
  <2> HIDE DEF n
  <2>3. PICK to \in {"confirmed", "rows"} : Advance(x, to) /\ (rows'[x] = size[x] \/ to = "rows")
    BY <2>1
  <2>4. aborted \/ x \notin blob
    BY <1>1, <2>1 DEF Carried, Busy
  <2>5. Honest /\ ~deceived' /\ Truthful => TruthAt(x)'
    BY <1>2, <1>3, <2>1, <2>3 DEF Truthful, TruthAt, Advance
  <2> QED
    BY <1>1, <1>2, <2>1, <2>2, <2>3, <2>4, <2>5, AdvanceLand DEF Counts, Advance, Busy
<1>12. CASE MarkConfirmed(x)
  BY <1>1, <1>12, MarkLand DEF MarkConfirmed, Advance
<1>13. CASE MarkExpired(x)
  BY <1>1, <1>13, MarkLand DEF MarkExpired, Advance
<1>14. CASE MarkError(x)
  BY <1>1, <1>14, MarkLand DEF MarkError
<1>15. CASE Persist(x)
  <2>1. /\ step[x] = "persist" /\ step' = [step EXCEPT ![x] = "send"]
        /\ record' = [record EXCEPT ![x] = "SIGNED"] /\ blob' = blob \cup {x}
        /\ UNCHANGED <<task, size, unit, chain, rows, phase, aborted, torn, deceived>>
    BY <1>15 DEF Persist, Advance
  <2>2. Counts'
    BY <1>1, <2>1 DEF Counts, Shapes
  <2>3. InOrder'
    <3>1. size[x] # 0
      BY <1>1, <2>1 DEF InOrder
    <3>2. \A y \in Txs : size[y] = 0 => record'[y] = "NONE" /\ step'[y] = "none"
      BY <1>1, <2>1, <3>1 DEF InOrder, Shapes
    <3>3. Signed' = Signed
      BY <2>1 DEF Signed
    <3> QED
      BY <1>1, <2>1, <3>2, <3>3 DEF InOrder
  <2>4. phase \notin {"idle", "closing", "completing"} /\ task = "queued"
    BY <1>1, <2>1 DEF Carried, Settled, Busy, Counts
  <2>5. Carried'
    BY <1>1, <2>1, <2>4 DEF Carried, Shapes, Busy
  <2>6. ASSUME Honest' PROVE Truthful'
    <3>1. Records \subseteq Records'
      BY <1>1, <2>1 DEF Records, Shapes
    <3>2. Honest /\ Truthful
      BY <2>1, <2>6, <3>1 DEF Honest, UnitsDistinct, LandInv
    <3>3. ASSUME NEW y \in Txs, y # x PROVE TruthAt(y)'
      <4>1. step'[y] = step[y] /\ record'[y] = record[y]
        BY <1>1, <2>1, <3>3 DEF Shapes
      <4> QED
        BY <2>1, <3>2, <4>1 DEF Truthful, TruthAt
    <3>4. TruthAt(x)'
      <4>1. step'[x] = "send" /\ record'[x] = "SIGNED" /\ x \in blob'
        BY <1>1, <2>1 DEF Shapes
      <4> QED
        BY <4>1 DEF TruthAt
    <3> QED
      BY <3>3, <3>4 DEF Truthful
  <2> QED
    BY <1>1, <2>2, <2>3, <2>5, <2>6 DEF LandInv
<1>16. CASE Chain(x)
  <2>1. /\ UNCHANGED <<task, size, unit, record, blob, rows, phase, step, aborted, torn, deceived>>
        /\ \A y \in Txs \ {x} : chain'[y] = chain[y]
        /\ chain'[x] \in {"landed", "reverted", "dead"} /\ chain[x] # "landed"
        /\ chain'[x] = "dead" \/ chain[x] = "inflight"
    BY <1>1, <1>16 DEF Chain, Land, Revert, Lapse, Shapes
  <2>2. Records' = Records /\ Signed' = Signed /\ (UnitsDistinct' <=> UnitsDistinct)
    BY <2>1 DEF Records, Signed, UnitsDistinct
  <2>3. Counts' /\ InOrder' /\ Carried'
    BY <1>1, <2>1, <2>2 DEF Counts, InOrder, Carried, Settled
  <2>4. ASSUME Honest' PROVE Truthful'
    <3>1. Truthful
      BY <2>1, <2>2, <2>4 DEF Honest, LandInv
    <3>2. ASSUME NEW y \in Txs PROVE TruthAt(y)'
      <4>1. CASE y = x
        BY <1>2, <2>1, <3>1, <4>1 DEF Truthful, TruthAt
      <4>2. CASE y # x
        BY <2>1, <3>1, <4>2 DEF Truthful, TruthAt
      <4> QED
        BY <4>1, <4>2
    <3> QED
      BY <3>2 DEF Truthful
  <2> QED
    BY <1>1, <2>3, <2>4 DEF LandInv
<1> QED
  BY <1>5, <1>6, <1>7, <1>8, <1>9, <1>10, <1>11, <1>12, <1>13, <1>14, <1>15, <1>16 DEF Unit

(* The run ends, by itself or in a crash.  Its bookkeeping is done, or torn. *)
LEMMA LeaveLand ==
  ASSUME LandInv, Recorded', Leave, phase # "idle",
         UNCHANGED <<size, unit, record, blob, chain, rows, deceived>>,
         torn \subseteq torn', \A x \in Txs : step[x] = "rows" => x \in torn',
         task' = task \/ (task' = "completed" /\ blob = {})
  PROVE  LandInv'
<1>1. Shapes /\ Counts /\ InOrder /\ Carried
  BY LandFacts
<1>2. Records' = Records /\ Signed' = Signed /\ (UnitsDistinct' <=> UnitsDistinct)
  BY DEF Records, Signed, UnitsDistinct
<1>3. phase' = "idle" /\ aborted' = FALSE /\ \A x \in Txs : step'[x] = "none"
  BY DEF Leave
<1>4. Counts' /\ InOrder'
  BY <1>1, <1>2, <1>3 DEF Counts, InOrder
<1>5. Carried'
  BY <1>1, <1>3 DEF Carried, Counts
<1>6. Honest' => Truthful'
  BY <1>2, <1>3 DEF Honest, LandInv, Truthful, TruthAt
<1> QED
  BY <1>4, <1>5, <1>6 DEF LandInv

(* A run that is settled and was not aborted has no signed bytes left.       *)
LEMMA NothingInFlight ==
  ASSUME LandInv, phase \in {"closing", "completing"} PROVE blob = {} /\ Settled
<1>1. Carried /\ Counts
  BY LandFacts
<1>2. \A x \in blob : x \in Txs /\ step[x] \in Busy
  BY <1>1 DEF Carried, Counts, Busy
<1>3. Settled
  BY <1>1 DEF Carried
<1> QED
  BY <1>2, <1>3 DEF Settled


(* Sums of sizes, of the transactions there are.                             *)
LEMMA SumTxs ==
  ASSUME NEW f \in [Txs -> Nat], NEW S \in SUBSET Txs
  PROVE  /\ IsFiniteSet(S) /\ SumFunctionOnSet(f, S) \in Nat /\ SumFunctionOnSet(f, {}) = 0
         /\ \A T \in SUBSET S : SumFunctionOnSet(f, T) <= SumFunctionOnSet(f, S)
         /\ \A x \in Txs \ S : SumFunctionOnSet(f, S \cup {x}) = SumFunctionOnSet(f, S) + f[x]
         /\ \A x \in S : SumFunctionOnSet(f, S) = f[x] + SumFunctionOnSet(f, S \ {x})
<1>1. IsFiniteSet(Txs)
  BY FS_Interval, ListAssumption DEF Txs
<1>2. IsFiniteSet(S)
  BY <1>1, FS_Subset
<1>3. \A x \in Txs : f[x] \in Nat /\ f[x] \in Int
  OBVIOUS
<1>4. SumFunctionOnSet(f, S) \in Nat /\ SumFunctionOnSet(f, {}) = 0
  BY <1>2, <1>3, SumType, SumEmpty
<1>5. \A T \in SUBSET S : SumFunctionOnSet(f, T) <= SumFunctionOnSet(f, S)
  BY <1>2, <1>3, SumPart
<1>6. \A x \in Txs \ S : SumFunctionOnSet(f, S \cup {x}) = SumFunctionOnSet(f, S) + f[x]
  BY <1>2, <1>3, SumAdd
<1>7. \A x \in S : SumFunctionOnSet(f, S) = f[x] + SumFunctionOnSet(f, S \ {x})
  BY <1>2, <1>3, SumRemove
<1> QED
  BY <1>2, <1>4, <1>5, <1>6, <1>7

(* Signing numbers on from the transactions there are: m jobs go into one or *)
(* two transactions, none of which was signed before.                        *)
SignsNew(m, n, l) ==
  LET new == (n + 1)..(n + l)
  IN /\ Signed = 1..n /\ l \in {1, 2} /\ new \subseteq Txs
     /\ size' \in [Txs -> Nat]
     /\ \A x \in new : size[x] = 0 /\ size'[x] > 0 /\ record[x] = "NONE" /\ x \notin blob
     /\ \A x \in Txs \ new : size'[x] = size[x] /\ unit'[x] = unit[x]
     /\ \A x \in Txs : step'[x] = IF x \in new THEN "persist" ELSE step[x]
     /\ SumFunctionOnSet(size', new) = m

LEMMA SignFacts ==
  ASSUME LandInv, Sign
  PROVE  \E m \in 1..Needed :
           /\ IF ~reserving THEN m = Needed /\ UNCHANGED hold
              ELSE \/ hold = Unasked /\ hold' = m
                   \/ hold > 0 /\ m = (IF hold < Needed THEN hold ELSE Needed) /\ UNCHANGED hold
           /\ \E n \in 0..MaxTxs, l \in {1, 2} : SignsNew(m, n, l)
<1>1. Shapes /\ Counts /\ InOrder /\ Carried /\ phase = "judge"
  BY LandFacts DEF Sign
<1>2. PICK n \in 0..MaxTxs : Signed = 1..n
  BY <1>1 DEF InOrder
<1>3. Cardinality(Signed) = n
  <2>1. Cardinality(1..n) = n
    BY <1>2, FS_Interval
  <2> QED
    BY <1>2, <2>1
<1>4. PICK m \in 1..Needed :
        /\ IF ~reserving THEN m = Needed /\ UNCHANGED hold
           ELSE \/ hold = Unasked /\ hold' = m
                \/ hold > 0 /\ m = (IF hold < Needed THEN hold ELSE Needed) /\ UNCHANGED hold
        /\ \E p \in Packings(m) :
             LET first == Cardinality(Signed) + 1
                 bucket(x) == x - first + 1
                 fresh == first..(first + Len(p) - 1)
             IN /\ fresh \subseteq Txs
                /\ size' = [x \in Txs |-> IF x \in fresh THEN p[bucket(x)] ELSE size[x]]
                /\ unit' = [x \in Txs |-> IF x \in fresh
                                          THEN Cardinality(Records) + bucket(x) - 1
                                          ELSE unit[x]]
                /\ step' = [x \in Txs |-> IF x \in fresh THEN FirstStep ELSE step[x]]
  BY Zenon DEF Sign
<1>5. PICK p \in Packings(m) :
        LET first == Cardinality(Signed) + 1
            bucket(x) == x - first + 1
            fresh == first..(first + Len(p) - 1)
        IN /\ fresh \subseteq Txs
           /\ size' = [x \in Txs |-> IF x \in fresh THEN p[bucket(x)] ELSE size[x]]
           /\ unit' = [x \in Txs |-> IF x \in fresh
                                     THEN Cardinality(Records) + bucket(x) - 1
                                     ELSE unit[x]]
           /\ step' = [x \in Txs |-> IF x \in fresh THEN FirstStep ELSE step[x]]
  BY <1>4, Zenon
<1> DEFINE l == Len(p)
           new == (n + 1)..(n + l)
<1>6. /\ \/ l = 1 /\ p[1] = m
         \/ l = 2 /\ p[1] + p[2] = m
      /\ \A i \in 1..l : p[i] \in Nat \ {0}
  <2>1. m \in Nat \ {0}
    BY <1>4
  <2>2. CASE p = <<m>>
    BY <2>1, <2>2
  <2>3. CASE \E a \in 1..(m - 1) : p = <<a, m - a>>
    <3>1. PICK a \in 1..(m - 1) : p = <<a, m - a>>
      BY <2>3
    <3>2. a \in Nat \ {0} /\ m - a \in Nat \ {0} /\ a + (m - a) = m
      BY <2>1, <3>1
    <3>3. l = 2 /\ p[1] = a /\ p[2] = m - a
      BY <3>1
    <3> QED
      BY <3>2, <3>3
  <2>4. p = <<m>> \/ \E a \in 1..(m - 1) : p = <<a, m - a>>
    BY <1>5 DEF Packings
  <2> QED
    BY <2>2, <2>3, <2>4
<1>7. /\ new \subseteq Txs
      /\ \A x \in Txs : size'[x] = IF x \in new THEN p[x - n] ELSE size[x]
      /\ \A x \in Txs \ new : unit'[x] = unit[x]
      /\ \A x \in Txs : step'[x] = IF x \in new THEN "persist" ELSE step[x]
      /\ DOMAIN size' = Txs /\ size' = [x \in Txs |-> size'[x]]
  <2>1. (n + 1)..((n + 1) + l - 1) = new
    BY <1>2, <1>6
  <2>2. \A x \in new : x - (n + 1) + 1 = x - n
    BY <1>2, <1>6
  <2> QED
    BY <1>3, <1>5, <2>1, <2>2 DEF FirstStep
<1>8. \A x \in new : x - n \in 1..l
  BY <1>2, <1>6
<1>9. \A x \in new : size[x] = 0 /\ record[x] = "NONE" /\ x \notin blob
  <2>1. \A x \in new : x \notin 1..n /\ x \in Txs
    BY <1>2, <1>6, <1>7
  <2>2. \A x \in Txs : x \notin Signed => size[x] = 0
    BY <1>1 DEF Signed, Counts
  <2> QED
    BY <1>1, <1>2, <2>1, <2>2 DEF InOrder, Counts
<1>10. size' \in [Txs -> Nat] /\ \A x \in new : size'[x] > 0
  <2>1. \A x \in Txs : size'[x] \in Nat
    BY <1>1, <1>6, <1>7, <1>8 DEF Counts
  <2> QED
    BY <1>6, <1>7, <1>8, <2>1
<1>11. SumFunctionOnSet(size', new) = m
  <2> DEFINE Sum(S) == SumFunctionOnSet(size', S)
  <2>1. {} \in SUBSET Txs /\ Sum({}) = 0
    BY <1>10, SumTxs
  <2>2. n + 1 \in new /\ n + 1 \in Txs /\ n \in Nat
    BY <1>2, <1>6, <1>7
  <2>3. {n + 1} = {} \cup {n + 1} /\ n + 1 \in Txs \ {} /\ {n + 1} \in SUBSET Txs
    BY <2>2
  <2>4. Sum({} \cup {n + 1}) = Sum({}) + size'[n + 1]
    BY <1>10, <2>1, <2>2, SumTxs
  <2>5. size'[n + 1] = p[1]
    BY <1>7, <2>2
  <2>6. Sum({n + 1}) = p[1]
    <3>1. Sum({n + 1}) = Sum({} \cup {n + 1})
      BY <2>3
    <3> QED
      BY <1>6, <2>1, <2>4, <2>5, <3>1
  <2>7. CASE l = 1
    <3>1. new = {n + 1}
      BY <2>2, <2>7
    <3> HIDE DEF new
    <3> QED
      BY <1>6, <2>6, <2>7, <3>1
  <2>8. CASE l = 2
    <3>1. new = {n + 1} \cup {n + 2} /\ n + 2 \in Txs \ {n + 1} /\ size'[n + 2] = p[2]
      BY <1>7, <2>2, <2>8
    <3> HIDE DEF new
    <3>2. Sum({n + 1} \cup {n + 2}) = Sum({n + 1}) + size'[n + 2]
      BY <1>10, <2>3, <3>1, SumTxs
    <3> QED
      BY <1>6, <2>6, <2>8, <3>1, <3>2
  <2> QED
    BY <1>6, <2>7, <2>8
<1>12. SignsNew(m, n, l)
  BY <1>2, <1>6, <1>7, <1>9, <1>10, <1>11 DEF SignsNew
<1> QED
  BY <1>2, <1>4, <1>6, <1>12

LEMMA SignLand == ASSUME LandInv, Recorded', Sign PROVE LandInv'
<1>1. Shapes /\ Counts /\ InOrder /\ Carried /\ phase = "judge"
  BY LandFacts DEF Sign
<1>2. PICK m \in 1..Needed, n \in 0..MaxTxs, l \in {1, 2} : SignsNew(m, n, l)
  BY SignFacts
<1>3. /\ phase' = "fresh"
      /\ UNCHANGED <<task, record, blob, chain, rows, aborted, deceived, torn>>
  BY Zenon DEF Sign, history
<1> DEFINE new == (n + 1)..(n + l)
<1>4. /\ Signed = 1..n /\ new \subseteq Txs
      /\ size' \in [Txs -> Nat]
      /\ \A x \in new : size[x] = 0 /\ size'[x] > 0 /\ record[x] = "NONE" /\ x \notin blob
      /\ \A x \in Txs \ new : size'[x] = size[x] /\ unit'[x] = unit[x]
      /\ \A x \in Txs : step'[x] = IF x \in new THEN "persist" ELSE step[x]
  BY <1>2 DEF SignsNew
<1>5. Counts'
  BY <1>1, <1>3, <1>4 DEF Counts
<1>6. InOrder'
  <2>1. Signed' = 1..(n + l)
    <3>1. ASSUME NEW x PROVE x \in Signed' <=> x \in 1..(n + l)
      <4>1. x \in Signed' <=> x \in Txs /\ size'[x] > 0
        BY DEF Signed
      <4>2. CASE x \in new
        BY <1>2, <1>4, <4>1, <4>2
      <4>3. CASE x \notin new
        <5>1. x \in Signed' <=> x \in Signed
          BY <1>4, <4>1, <4>3 DEF Signed
        <5> QED
          BY <1>2, <1>4, <4>3, <5>1
      <4> QED
        BY <4>2, <4>3
    <3> QED
      BY <3>1
  <2>2. n + l \in 0..MaxTxs
    <3>1. n + l \in new
      BY <1>2
    <3> QED
      BY <1>4, <3>1 DEF Txs
  <2>3. \A x \in Txs : size'[x] = 0 => record'[x] = "NONE" /\ step'[x] = "none"
    BY <1>1, <1>3, <1>4 DEF InOrder
  <2> QED
    BY <2>1, <2>2, <2>3 DEF InOrder
<1> HIDE DEF new
<1>7. Carried'
  <2>1. task = "queued"
    BY <1>1 DEF Carried, Counts
  <2>2. \A x \in blob : step'[x] = step[x]
    BY <1>1, <1>4 DEF Counts
  <2> QED
    BY <1>1, <1>3, <2>1, <2>2 DEF Carried
<1>8. ASSUME Honest' PROVE Truthful'
  <2>1. \A x \in Records : x \notin new /\ x \in Records' /\ unit'[x] = unit[x]
    BY <1>3, <1>4 DEF Records
  <2>2. Truthful
    BY <1>3, <1>8, <2>1 DEF Honest, UnitsDistinct, LandInv
  <2>3. ASSUME NEW x \in Txs PROVE TruthAt(x)'
    <3>1. CASE x \in new
      BY <1>3, <1>4, <3>1 DEF TruthAt
    <3>2. CASE x \notin new
      BY <1>3, <1>4, <2>2, <3>2 DEF Truthful, TruthAt
    <3> QED
      BY <3>1, <3>2
  <2> QED
    BY <2>3 DEF Truthful
<1> QED
  BY <1>5, <1>6, <1>7, <1>8 DEF LandInv

(* A step of the queue around the run, or of the run as a whole.             *)
LEMMA StepLand == LandInv /\ [Next]_vars => LandInv'
<1> SUFFICES ASSUME LandInv, [Next]_vars PROVE LandInv'
  OBVIOUS
<1> USE DEF taskVars, handoff, txVars, runVars, history
<1>1. Shapes /\ Counts /\ InOrder /\ Carried /\ Recorded'
  BY LandFacts, StepKeepsRecorded
<1>2. ASSUME NEW x \in Txs, Unit(x) PROVE LandInv'
  BY <1>2, UnitLand
(* A step that leaves the transactions as they are, and frees no run from    *)
(* what it carries.                                                          *)
<1>3. ASSUME UNCHANGED <<size, unit, record, blob, chain, rows, step, deceived, torn>>,
             \/ UNCHANGED <<task, phase, aborted>>
             \/ phase \notin {"idle", "closing", "completing"} /\ aborted' = TRUE /\ UNCHANGED <<task, phase>>
             \/ phase = "idle" /\ blob = {} /\ task' = "dropped" /\ UNCHANGED <<phase, aborted>>
             \/ phase = "idle" /\ task' = "abandoned" /\ UNCHANGED <<phase, aborted>>
             \/ phase' \in {"judge", "fresh"} /\ phase # "idle" /\ UNCHANGED <<task, aborted>>
             \/ /\ phase' \in {"closing", "completing"} /\ phase # "idle" /\ Settled /\ ~aborted
                /\ UNCHANGED <<task, aborted>>
      PROVE  LandInv'
  <2>1. Records' = Records /\ Signed' = Signed /\ (UnitsDistinct' <=> UnitsDistinct)
    BY <1>3 DEF Records, Signed, UnitsDistinct
  <2>2. Counts' /\ InOrder'
    BY <1>1, <1>3, <2>1 DEF Counts, InOrder
  <2>3. Settled' <=> Settled
    BY <1>3 DEF Settled
  <2>4. Carried'
    BY <1>1, <1>3, <2>3 DEF Carried, Counts
  <2>5. Honest' => Truthful'
    BY <1>3, <2>1 DEF Honest, LandInv, Truthful, TruthAt
  <2> QED
    BY <1>1, <2>2, <2>4, <2>5 DEF LandInv
<1>4. CASE StartRun
  <2>1. /\ UNCHANGED <<size, unit, record, blob, chain, rows, deceived, torn, task>>
        /\ phase = "idle" /\ phase' = "resume" /\ task = "queued" /\ aborted' = FALSE
        /\ \A x \in Txs : step'[x] = CASE record[x] = "NONE" -> "none"
                                        [] record[x] = "CONFIRMED" -> "confirmed"
                                        [] OTHER -> "recover"
    BY <1>4 DEF StartRun
  <2>2. Records' = Records /\ Signed' = Signed /\ (UnitsDistinct' <=> UnitsDistinct)
    BY <2>1 DEF Records, Signed, UnitsDistinct
  <2>3. Counts' /\ InOrder' /\ Carried'
    BY <1>1, <2>1, <2>2 DEF Counts, InOrder, Carried, Busy
  <2>4. ASSUME Honest' PROVE Truthful'
    <3>1. Truthful /\ \A x \in Txs : step[x] = "none"
      BY <1>1, <2>1, <2>2, <2>4 DEF Honest, LandInv, Carried
    <3>2. ASSUME NEW x \in Txs PROVE TruthAt(x)'
      <4>1. step'[x] \in {"none", "confirmed", "recover"}
        BY <2>1
      <4> QED
        BY <2>1, <3>1, <4>1 DEF Truthful, TruthAt
    <3> QED
      BY <3>2 DEF Truthful
  <2> QED
    BY <1>1, <2>3, <2>4 DEF LandInv
<1>5. CASE Drop \/ AbandonList \/ StopDeployment \/ HeirLeaves \/ Abort \/ SignNothing \/ UNCHANGED vars
  BY <1>3, <1>5 DEF Drop, AbandonList, StopDeployment, HeirLeaves, Abort, SignNothing, InFlight, vars
<1>6. CASE Crash
  BY <1>1, <1>6, LeaveLand DEF Crash
<1>7. CASE ResumeEnds \/ FreshEnds
  <2>1. Settled /\ phase \in {"resume", "fresh"}
        /\ UNCHANGED <<size, unit, record, blob, chain, rows, deceived, torn, task>>
    BY <1>7 DEF ResumeEnds, FreshEnds
  <2>2. CASE aborted
    <3>1. Leave
      BY <1>7, <2>2 DEF ResumeEnds, FreshEnds
    <3>2. \A x \in Txs : step[x] # "rows"
      BY <2>1 DEF Settled, Busy
    <3> QED
      BY <1>1, <2>1, <3>1, <3>2, LeaveLand
  <2>3. CASE ~aborted
    <3>1. phase' \in {"closing", "judge"} /\ UNCHANGED <<step, aborted>>
      BY <1>7, <2>3 DEF ResumeEnds, FreshEnds
    <3> QED
      BY <1>3, <2>1, <2>3, <3>1
  <2> QED
    BY <2>2, <2>3
<1>8. CASE Sign
  BY <1>1, <1>8, SignLand
<1>9. CASE Close
  <2>1. blob = {} /\ Settled /\ ~aborted /\ phase = "closing"
        /\ UNCHANGED <<size, unit, record, blob, chain, rows, deceived, torn, task>>
    BY <1>1, <1>9, NothingInFlight DEF Close, Carried
  <2>2. CASE ~draining /\ retry
    <3>1. Leave
      BY <1>9, <2>2 DEF Close
    <3>2. \A x \in Txs : step[x] # "rows"
      BY <2>1 DEF Settled, Busy
    <3> QED
      BY <1>1, <2>1, <3>1, <3>2, LeaveLand
  <2>3. CASE ~(~draining /\ retry)
    <3>1. phase' = "completing" /\ UNCHANGED <<step, aborted>>
      BY <1>9, <2>3 DEF Close
    <3> QED
      BY <1>3, <2>1, <3>1
  <2> QED
    BY <2>2, <2>3
<1>10. CASE Complete
  <2>1. blob = {} /\ Settled /\ phase = "completing" /\ Leave /\ task' = "completed"
        /\ UNCHANGED <<size, unit, record, blob, chain, rows, deceived, torn>>
    BY <1>10, NothingInFlight DEF Complete
  <2>2. \A x \in Txs : step[x] # "rows"
    BY <2>1 DEF Settled, Busy
  <2> QED
    BY <1>1, <2>1, <2>2, LeaveLand
<1> QED
  BY <1>2, <1>4, <1>5, <1>6, <1>7, <1>8, <1>9, <1>10 DEF Next

(* When the task is gone, completed or dropped, every job that landed has    *)
(* its row (onListConfirmed): through crashes, aborts and reclaims, retried  *)
(* sends and expiries, as long as the RPC tells the truth and the records'   *)
(* unit indexes differ, and but for a crash between the CONFIRMED mark and   *)
(* the rows.  Of a task abandoned for its attempts or retries that holds for *)
(* what it had not in flight.                                                *)
THEOREM LandedHaveRows == Spec => []LandedRecorded
<1>1. LandInv => LandedRecorded
  <2> SUFFICES ASSUME LandInv, task # "queued", Honest, NEW x \in Txs \ torn, chain[x] = "landed",
                      ~(task = "abandoned" /\ x \in blob)
               PROVE  rows[x] = size[x]
    BY Zenon DEF LandedRecorded, Honest
  <2>1. Shapes /\ Counts /\ Carried /\ PersistedBeforeSent /\ TruthAt(x)
    BY LandFacts DEF LandInv, Recorded, Truthful
  <2>2. record[x] = "CONFIRMED"
    BY <2>1 DEF Shapes, Counts, Carried, PersistedBeforeSent, TruthAt
  <2>3. step[x] = "none"
    BY <2>1 DEF Carried
  <2> QED
    BY <2>1, <2>2, <2>3 DEF TruthAt
<1> QED
  BY <1>1, InitLand, StepLand, PTL DEF Spec

-----------------------------------------------------------------------------
(* How many jobs the task may still post, and how many it has.               *)

(* What has landed, is on its way, or the run still means to send.           *)
MayLand == {x \in Txs : \/ chain[x] \in {"inflight", "landed"}
                        \/ chain[x] = "unsent" /\ (x \in blob \/ step[x] = "persist")}

(* Signed, and not on the task yet: its nodes are still in the hold.         *)
Persisting == {x \in Txs : step[x] = "persist"}

(* The reserved nodes: what is left of them and what the records used make   *)
(* no more than the target, and what is handed off needs the hold empty.     *)
Held ==
  /\ reserving \in BOOLEAN /\ retry \in BOOLEAN /\ draining \in BOOLEAN
  /\ hold \in Nat \cup {Unasked} /\ handed \in Nat
  /\ handed > 0 => reserving /\ hold = 0
  /\ reserving /\ hold = Unasked => Records = {} /\ Persisting = {}
  /\ reserving /\ hold # Unasked => hold + JobsIn(Records) <= Target /\ JobsIn(Persisting) <= hold

(* A run that will not retry uses up its hold: every node left is of a       *)
(* transaction about to be persisted, and none is left when it closes.       *)
HoldUsed ==
  /\ phase = "fresh" /\ reserving /\ ~aborted /\ ~retry /\ ~draining => hold = JobsIn(Persisting)
  /\ phase = "closing" /\ reserving /\ ~retry /\ ~draining => hold = 0 \/ Needed = 0

(* The run counts what is missing with nothing in flight.                    *)
Judged ==
  /\ phase = "judge" => blob = {} /\ Settled
  /\ \A x \in Txs : /\ step[x] = "confirmed" => record[x] # "NONE"
                    /\ step[x] = "persist" => record[x] = "NONE"

(* The LIST handed to is stored, or it left before this task did.            *)
Inherited ==
  /\ heir \in {"none", "stored", "gone"} /\ orphaned \in BOOLEAN
  /\ heir = "none" => handed = 0
  /\ heir = "stored" => handed > 0
  /\ heir = "gone" => orphaned

HoldInv == Held /\ HoldUsed /\ Judged /\ Inherited

(* The run counts every record that landed, and whatever may land fits the   *)
(* target; with what is handed off, if no hand-off was repeated.             *)
Bounded ==
  /\ \A x \in Txs : phase # "idle" /\ record[x] = "CONFIRMED" => step[x] \in {"rows", "confirmed"}
  /\ JobsIn(MayLand) <= Target /\ (~orphaned => JobsIn(MayLand) + handed <= Target)

(* What the run counts has landed: it hands off all that is missing, and     *)
(* completes with nothing missing.                                           *)
Reached ==
  /\ \A x \in Txs : record[x] = "CONFIRMED" \/ step[x] \in {"mark", "rows", "confirmed"}
                      => chain[x] = "landed"
  /\ handed > 0 => LandedJobs + handed >= Target
  /\ (phase = "completing" \/ task = "completed") /\ reserving /\ ~draining
       => LandedJobs + handed >= Target

JobsInv == LandInv /\ HoldInv /\ (Honest => Bounded) /\ (UnitsDistinct => Reached)

LEMMA InitJobs == Init => JobsInv
<1> SUFFICES ASSUME Init PROVE JobsInv
  OBVIOUS
<1>1. LandInv
  BY InitLand
<1>2. Records = {} /\ Persisting = {} /\ MayLand = {}
  BY DEF Init, Records, Persisting, MayLand
<1>3. JobsIn({}) = 0
  BY SumEmpty DEF JobsIn
<1>4. Target \in Nat
  BY ListAssumption
<1>5. HoldInv
  <2>1. hold = Unasked /\ handed = 0 /\ reserving \in BOOLEAN /\ phase = "idle"
        /\ retry = FALSE /\ draining = FALSE /\ \A x \in Txs : step[x] = "none"
    BY DEF Init
  <2>2. Held
    <3>1. reserving \in BOOLEAN /\ retry \in BOOLEAN /\ draining \in BOOLEAN
      BY <2>1
    <3>2. hold \in Nat \cup {Unasked} /\ handed \in Nat /\ ~(handed > 0) /\ ~(hold # Unasked)
      BY <2>1
    <3> QED
      BY <1>2, <3>1, <3>2, Zenon DEF Held
  <2>3. Inherited
    BY DEF Init, Inherited
  <2> QED
    BY <2>1, <2>2, <2>3 DEF HoldInv, HoldUsed, Judged
<1>6. JobsIn(MayLand) = 0
  BY <1>2, <1>3
<1>7. Bounded
  BY <1>4, <1>6 DEF Init, Bounded
<1>8. Reached
  BY DEF Init, Reached
<1> QED
  BY <1>1, <1>5, <1>7, <1>8 DEF JobsInv

(* The sums the invariant speaks of, and how they compare.                   *)
LEMMA JobsFacts ==
  ASSUME LandInv
  PROVE  /\ \A S \in SUBSET Txs : JobsIn(S) \in Nat
         /\ \A S \in SUBSET Txs : \A T \in SUBSET S : JobsIn(T) <= JobsIn(S)
         /\ JobsIn({}) = 0
         /\ \A S \in SUBSET Txs : \A x \in S : JobsIn(S) = size[x] + JobsIn(S \ {x})
         /\ \A S \in SUBSET Txs : \A x \in Txs \ S : JobsIn(S \cup {x}) = JobsIn(S) + size[x]
         /\ Records \in SUBSET Txs /\ Persisting \in SUBSET Txs /\ MayLand \in SUBSET Txs
         /\ {x \in Txs : chain[x] = "landed"} \in SUBSET Txs
         /\ {x \in Txs : step[x] = "confirmed"} \in SUBSET Txs
         /\ \A x \in Txs : size[x] \in Nat
<1>1. size \in [Txs -> Nat]
  BY LandFacts DEF Counts
<1>2. \A S \in SUBSET Txs : JobsIn(S) \in Nat
  BY <1>1, SumTxs DEF JobsIn
<1>3. \A S \in SUBSET Txs : \A T \in SUBSET S : JobsIn(T) <= JobsIn(S)
  BY <1>1, SumTxs DEF JobsIn
<1>4. JobsIn({}) = 0
  BY SumEmpty DEF JobsIn
<1>5. \A S \in SUBSET Txs : \A x \in S : JobsIn(S) = size[x] + JobsIn(S \ {x})
  BY <1>1, SumTxs DEF JobsIn
<1>6. \A S \in SUBSET Txs : \A x \in Txs \ S : JobsIn(S \cup {x}) = JobsIn(S) + size[x]
  BY <1>1, SumTxs DEF JobsIn
<1> QED
  BY <1>1, <1>2, <1>3, <1>4, <1>5, <1>6 DEF Records, Persisting, MayLand

(* A step on a transaction is a step of a run under way.                     *)
LEMMA BusyPhase ==
  ASSUME LandInv, HoldInv, NEW x \in Txs, step[x] \in Busy
  PROVE  phase \in {"resume", "fresh"} /\ task = "queued"
<1>1. Counts /\ Carried /\ Judged
  BY LandFacts DEF HoldInv
<1> QED
  BY <1>1 DEF Counts, Carried, Judged, Settled, Busy

(* Settled, and nothing in flight: what may still land is what the run counts. *)
LEMMA CountedLands ==
  ASSUME JobsInv, Honest, Settled, blob = {}, phase # "idle"
  PROVE  JobsIn(MayLand) <= Confirmed /\ Confirmed \in Nat
<1>1. Shapes /\ Counts /\ PersistedBeforeSent /\ Truthful /\ Bounded
  BY LandFacts DEF JobsInv, LandInv, Recorded
<1> DEFINE C == {x \in Txs : step[x] = "confirmed"}
<1>2. MayLand \subseteq C
  <2> SUFFICES ASSUME NEW x \in MayLand PROVE x \in C
    OBVIOUS
  <2>1. x \in Txs /\ step[x] \notin Busy /\ record[x] # "SIGNED"
    BY <1>1 DEF MayLand, Settled, Counts
  <2>2. chain[x] \in {"inflight", "landed"}
    BY <2>1 DEF MayLand, Busy
  <2>3. record[x] = "CONFIRMED"
    BY <1>1, <2>1, <2>2 DEF Shapes, PersistedBeforeSent, Truthful, TruthAt
  <2> QED
    BY <1>1, <2>1, <2>3 DEF Bounded, Busy
<1>3. C \in SUBSET Txs /\ Confirmed = JobsIn(C)
  BY DEF Confirmed
<1> HIDE DEF C
<1> QED
  BY <1>2, <1>3, JobsFacts DEF JobsInv

(* What the run counts is recorded.                                          *)
LEMMA ConfirmedRecorded ==
  ASSUME LandInv, HoldInv
  PROVE  Confirmed \in Nat /\ JobsIn(Records) \in Nat /\ Confirmed <= JobsIn(Records)
<1> DEFINE C == {x \in Txs : step[x] = "confirmed"}
<1>1. C \in SUBSET Records /\ Records \in SUBSET Txs
  BY DEF HoldInv, Judged, Records
<1>2. Confirmed = JobsIn(C)
  BY DEF Confirmed
<1> HIDE DEF C
<1> QED
  BY <1>1, <1>2, JobsFacts

(* ... and has landed.                                                       *)
LEMMA ConfirmedLanded ==
  ASSUME LandInv, Reached
  PROVE  Confirmed \in Nat /\ LandedJobs \in Nat /\ Confirmed <= LandedJobs
<1> DEFINE C == {x \in Txs : step[x] = "confirmed"}
           L == {x \in Txs : chain[x] = "landed"}
<1>1. C \in SUBSET L /\ L \in SUBSET Txs
  BY DEF Reached
<1>2. Confirmed = JobsIn(C) /\ LandedJobs = JobsIn(L)
  BY DEF Confirmed, LandedJobs
<1> HIDE DEF C, L
<1> QED
  BY <1>1, <1>2, JobsFacts

(* A step with a transaction other than Persist signs nothing, records       *)
(* nothing new and leaves the hold alone.                                    *)
MovesAt(y) ==
  /\ step'[y] = "persist" => step[y] = "persist"
  /\ step[y] = "persist" => step'[y] = "persist" \/ aborted
  /\ step[y] \notin Busy => step'[y] = step[y]
  /\ step[y] = "rows" => step'[y] \in {"rows", "confirmed"}
  /\ step'[y] = "confirmed" => step[y] \in {"rows", "confirmed"}
  /\ step'[y] = "rows" => step[y] \in {"mark", "rows"}
  /\ step'[y] = "mark" => step[y] = "mark" \/ chain[y] = "landed"
  /\ chain[y] = "landed" => chain'[y] = "landed"
  /\ UnitsDistinct /\ record'[y] = "CONFIRMED"
       => record[y] = "CONFIRMED" \/ (step[y] = "mark" /\ step'[y] = "rows")
  /\ Honest' /\ y \in MayLand' => y \in MayLand
Moves ==
  /\ UNCHANGED <<task, reserving, hold, handed, heir, orphaned, size, unit, phase, aborted, draining>>
  /\ Records' = Records /\ blob' \subseteq blob
  /\ retry' = retry \/ retry' = TRUE
  /\ deceived => deceived'
  /\ \A y \in Txs : MovesAt(y)

LEMMA StaysDeceived == ASSUME LandInv, NEW x \in Txs, Unit(x) PROVE deceived => deceived'
<1>1. UNCHANGED deceived \/ deceived' = TRUE \/ SendFails(x)
  BY Zenon DEF Unit, Recover, StandDown, Terminate, Send, Track, MarkConfirmed, WriteRow, MarkExpired,
               MarkError, Persist, Chain, history
<1>2. deceived \in BOOLEAN
  BY LandFacts DEF Counts
<1>3. CASE SendFails(x)
  BY <1>2, <1>3 DEF SendFails
<1> QED
  BY <1>1, <1>2, <1>3

LEMMA UnitMoves == ASSUME LandInv, NEW x \in Txs, Unit(x), ~Persist(x) PROVE Moves
<1> USE DEF taskVars, handoff, txVars, runVars, history
<1>1. Shapes /\ Counts /\ Carried /\ StepRecorded /\ PersistedBeforeSent
  BY LandFacts DEF Recorded
<1>2. /\ chain[x] \in {"unsent", "inflight", "landed", "reverted", "dead"}
      /\ chain = [chain EXCEPT ![x] = chain[x]]
      /\ deceived => deceived'
  BY <1>1, StaysDeceived DEF Shapes
(* A step that marks no record.                                              *)
<1>3. ASSUME NEW to, NEW c,
             step[x] \in Busy \ {"persist"}, to \notin {"persist", "none"},
             step[x] = "rows" <=> to \in {"rows", "confirmed"},
             to = "mark" => chain[x] = "landed",
             chain[x] = "landed" => c = "landed",
             c \in {"inflight", "landed"} => \/ chain[x] \in {"inflight", "landed"}
                                             \/ chain[x] = "unsent" /\ (x \in blob \/ ~Honest'),
             c = "unsent" => chain[x] = "unsent",
             step' = [step EXCEPT ![x] = to], chain' = [chain EXCEPT ![x] = c],
             UNCHANGED <<task, reserving, hold, handed, heir, orphaned, size, unit, record, blob, phase, aborted,
                         retry, draining>>
      PROVE  Moves
  <2>1. Records' = Records
    BY <1>3 DEF Records
  <2>2. ASSUME NEW y \in Txs PROVE MovesAt(y)
    <3>1. CASE y = x
      <4>1. step'[x] = to /\ chain'[x] = c
        BY <1>1, <1>3 DEF Shapes
      <4> QED
        BY <1>3, <3>1, <4>1 DEF MovesAt, MayLand, Busy
    <3>2. CASE y # x
      <4>1. step'[y] = step[y] /\ chain'[y] = chain[y]
        BY <1>1, <1>3, <3>2 DEF Shapes
      <4> QED
        BY <1>3, <4>1 DEF MovesAt, MayLand
    <3> QED
      BY <3>1, <3>2
  <2> QED
    BY <1>2, <1>3, <2>1, <2>2 DEF Moves
(* A step that marks one.                                                    *)
<1>4. ASSUME NEW to, NEW verdict,
             \/ step[x] = "mark" /\ to = "rows" /\ verdict = "CONFIRMED"
             \/ step[x] \in {"expire", "error"} /\ to = "ended" /\ verdict = "SENT",
             MarkRecord(x, verdict), step' = [step EXCEPT ![x] = to],
             retry' = retry \/ retry' = TRUE,
             UNCHANGED <<task, reserving, hold, handed, heir, orphaned, size, unit, chain, phase, aborted, draining>>
      PROVE  Moves
  <2>1. x \in Records /\ verdict \in {"SENT", "CONFIRMED"}
    BY <1>1, <1>4 DEF StepRecorded, Records, Busy
  <2>2. /\ \A y \in Txs : record'[y] = record[y] \/ (record[y] # "NONE" /\ record'[y] = verdict)
        /\ record'[x] = verdict /\ x \notin blob' /\ blob' \subseteq blob
        /\ UnitsDistinct => \A y \in Txs \ {x} : record'[y] = record[y]
    BY <1>4, <2>1, MarkOne
  <2>3. Records' = Records
    BY <2>1, <2>2 DEF Records
  <2>4. ASSUME NEW y \in Txs PROVE MovesAt(y)
    <3>1. CASE y = x
      <4>1. step'[x] = to
        BY <1>1, <1>4 DEF Shapes
      <4> QED
        BY <1>4, <2>2, <3>1, <4>1 DEF MovesAt, MayLand, Busy
    <3>2. CASE y # x
      <4>1. step'[y] = step[y]
        BY <1>1, <1>4, <3>2 DEF Shapes
      <4> QED
        BY <1>4, <2>2, <3>2, <4>1 DEF MovesAt, MayLand
    <3> QED
      BY <3>1, <3>2
  <2> QED
    BY <1>2, <1>4, <2>2, <2>3, <2>4 DEF Moves
<1>5. CASE Recover(x)
  <2>1. PICK to \in {"mark", "error", "expire", "send"} :
          Advance(x, to) /\ (to = "mark" => chain[x] = "landed")
    BY <1>5 DEF Recover, SeenConfirmed
  <2> QED
    BY <1>2, <1>3, <1>5, <2>1 DEF Recover, Advance, Busy
<1>6. CASE StandDown(x)
  BY <1>2, <1>3, <1>6 DEF StandDown, Advance, Busy
<1>7. CASE Terminate(x)
  <2>1. /\ aborted
        /\ \A y \in Txs : step'[y] = step[y] \/ (step[y] = "persist" /\ step'[y] = "ended")
        /\ UNCHANGED <<task, reserving, hold, handed, heir, orphaned, size, unit, record, blob, chain, phase, aborted,
                       retry, draining>>
    BY <1>1, <1>7 DEF Terminate
  <2>2. Records' = Records
    BY <2>1 DEF Records
  <2>3. ASSUME NEW y \in Txs PROVE MovesAt(y)
    BY <2>1 DEF MovesAt, MayLand, Busy
  <2> QED
    BY <1>2, <2>1, <2>2, <2>3 DEF Moves
<1>8. CASE Send(x)
  <2>1. /\ step[x] = "send" /\ Advance(x, "track")
        /\ chain' = [chain EXCEPT ![x] = IF chain[x] = "unsent" THEN "inflight" ELSE chain[x]]
        /\ UNCHANGED <<task, reserving, hold, handed, heir, orphaned, size, unit, record, blob, deceived>>
    BY <1>8 DEF Send
  <2>2. Honest' => x \in blob
    BY <2>1 DEF Honest, UnitsDistinct, Records, LandInv, Truthful, TruthAt
  <2>3. PICK c : /\ chain' = [chain EXCEPT ![x] = c]
                 /\ c = IF chain[x] = "unsent" THEN "inflight" ELSE chain[x]
    BY <2>1
  <2> QED
    BY <1>3, <2>1, <2>2, <2>3 DEF Advance, Busy
<1>9. CASE SendFails(x)
  <2>1. /\ step[x] = "send"
        /\ UNCHANGED <<task, reserving, hold, handed, heir, orphaned, size, unit, record, blob>>
    BY <1>9 DEF SendFails
  <2>2. PICK to \in {"expire", "error"} : Advance(x, to)
    BY <1>9 DEF SendFails
  <2>3. CASE chain[x] = "unsent" /\ chain' = [chain EXCEPT ![x] = "inflight"] /\ deceived' = TRUE
    <3>1. ~Honest'
      BY <2>3 DEF Honest
    <3> QED
      BY <1>3, <2>1, <2>2, <2>3, <3>1 DEF Advance, Busy
  <2>4. CASE UNCHANGED chain
    BY <1>2, <1>3, <2>1, <2>2, <2>4 DEF Advance, Busy
  <2> QED
    BY <1>9, <2>3, <2>4 DEF SendFails
<1>10. CASE Track(x)
  <2>1. PICK to \in {"mark", "error", "expire"} :
          Advance(x, to) /\ (to = "mark" => chain[x] = "landed")
    BY <1>10 DEF Track, SeenConfirmed
  <2> QED
    BY <1>2, <1>3, <1>10, <2>1 DEF Track, Advance, Busy
<1>11. CASE WriteRow(x)
  <2>1. PICK to \in {"confirmed", "rows"} : Advance(x, to)
    BY <1>11 DEF WriteRow
  <2> QED
    BY <1>2, <1>3, <1>11, <2>1 DEF WriteRow, Advance, Busy
<1>12. CASE MarkConfirmed(x)
  BY <1>4, <1>12 DEF MarkConfirmed, Advance
<1>13. CASE MarkExpired(x)
  BY <1>4, <1>13 DEF MarkExpired, Advance
<1>14. CASE MarkError(x)
  BY <1>4, <1>14 DEF MarkError
<1>15. CASE Chain(x)
  <2>1. /\ UNCHANGED <<task, reserving, hold, handed, heir, orphaned, size, unit, record, blob, phase, step, aborted,
                       retry, draining>>
        /\ \A y \in Txs \ {x} : chain'[y] = chain[y]
        /\ chain'[x] \in {"landed", "reverted", "dead"} /\ chain[x] # "landed"
        /\ chain'[x] = "dead" \/ chain[x] = "inflight"
    BY <1>1, <1>15 DEF Chain, Land, Revert, Lapse, Shapes
  <2>2. Records' = Records
    BY <2>1 DEF Records
  <2>3. ASSUME NEW y \in Txs PROVE MovesAt(y)
    BY <2>1 DEF MovesAt, MayLand, Busy
  <2> QED
    BY <1>2, <2>1, <2>2, <2>3 DEF Moves
<1> QED
  BY <1>5, <1>6, <1>7, <1>8, <1>9, <1>10, <1>11, <1>12, <1>13, <1>14, <1>15 DEF Unit

(* The hold, where the sizes and the records stay.                           *)
LEMMA HoldFrame ==
  ASSUME LandInv, Held, UNCHANGED <<size, hold, handed, reserving>>, Records' = Records,
         Persisting' \subseteq Persisting, retry' \in BOOLEAN, draining' \in BOOLEAN
  PROVE  Held' /\ JobsIn(Persisting)' <= JobsIn(Persisting)
<1>1. JobsIn(Persisting)' = JobsIn(Persisting') /\ JobsIn(Records)' = JobsIn(Records)
  BY DEF JobsIn
<1>2. /\ JobsIn(Persisting') <= JobsIn(Persisting)
      /\ JobsIn(Persisting') \in Nat /\ JobsIn(Persisting) \in Nat
  <2>1. Persisting' \in SUBSET Persisting /\ Persisting' \in SUBSET Txs
    BY JobsFacts
  <2> QED
    BY <2>1, JobsFacts
<1>3. reserving' \in BOOLEAN /\ hold' \in Nat \cup {Unasked} /\ handed' \in Nat
      /\ (handed' > 0 => reserving' /\ hold' = 0)
  BY DEF Held
<1>4. reserving' /\ hold' = Unasked => Records' = {} /\ Persisting' = {}
  BY DEF Held
<1>5. reserving' /\ hold' # Unasked => hold' + JobsIn(Records)' <= Target /\ JobsIn(Persisting)' <= hold'
  BY <1>1, <1>2 DEF Held
<1> QED
  BY <1>1, <1>2, <1>3, <1>4, <1>5 DEF Held, Unasked

(* The bound, where the sizes stay and nothing more may land.                *)
LEMMA BoundFrame ==
  ASSUME LandInv, Bounded, handed \in Nat, UNCHANGED <<size, handed>>, MayLand' \subseteq MayLand,
         ~orphaned' => ~orphaned,
         \A x \in Txs : phase' # "idle" /\ record'[x] = "CONFIRMED" => step'[x] \in {"rows", "confirmed"}
  PROVE  Bounded'
<1>1. JobsIn(MayLand)' = JobsIn(MayLand')
  BY DEF JobsIn
<1>2. /\ JobsIn(MayLand') <= JobsIn(MayLand)
      /\ JobsIn(MayLand') \in Nat /\ JobsIn(MayLand) \in Nat
  <2>1. MayLand' \in SUBSET MayLand /\ MayLand' \in SUBSET Txs
    BY JobsFacts
  <2> QED
    BY <2>1, JobsFacts
<1> QED
  BY <1>1, <1>2, ListAssumption DEF Bounded

(* What has landed stays landed.                                             *)
LEMMA LandedFrame ==
  ASSUME LandInv, UNCHANGED size, \A x \in Txs : chain[x] = "landed" => chain'[x] = "landed"
  PROVE  LandedJobs' >= LandedJobs /\ LandedJobs' \in Nat /\ LandedJobs \in Nat
<1> DEFINE L == {x \in Txs : chain[x] = "landed"}
           M == {x \in Txs : chain'[x] = "landed"}
<1>1. LandedJobs = JobsIn(L) /\ LandedJobs' = JobsIn(M)
  BY DEF LandedJobs, JobsIn
<1>2. L \in SUBSET M /\ M \in SUBSET Txs /\ L \in SUBSET Txs
  OBVIOUS
<1> HIDE DEF L, M
<1> QED
  BY <1>1, <1>2, JobsFacts

LEMMA MovesJobs == ASSUME JobsInv, LandInv', Moves PROVE JobsInv'
<1>1. LandInv /\ Held /\ HoldUsed /\ Judged /\ Inherited /\ Shapes /\ StepRecorded
  BY LandFacts DEF JobsInv, HoldInv
<1>2. \A x \in Txs : MovesAt(x)
  BY DEF Moves
<1>3. /\ UNCHANGED <<task, reserving, hold, handed, heir, orphaned, size, unit, phase, aborted, draining>>
      /\ Records' = Records /\ blob' \subseteq blob /\ retry' \in BOOLEAN /\ (retry => retry')
  <2>1. retry' = retry \/ retry' = TRUE
    BY DEF Moves
  <2>2. retry' \in BOOLEAN /\ (retry => retry')
    BY <1>1, <2>1 DEF Held
  <2> QED
    BY <2>2 DEF Moves
<1>4. Persisting' \subseteq Persisting /\ (~aborted => Persisting' = Persisting)
  BY <1>2 DEF MovesAt, Persisting
<1>5. Held' /\ JobsIn(Persisting)' <= JobsIn(Persisting)
  BY <1>1, <1>3, <1>4, HoldFrame DEF Held
<1>6. Settled => \A x \in Txs : step'[x] = step[x]
  BY <1>2 DEF MovesAt, Settled
<1>7. HoldUsed'
  <2>1. phase' = "fresh" /\ reserving' /\ ~aborted' /\ ~retry' /\ ~draining' => hold' = JobsIn(Persisting)'
    <3>1. ~aborted => JobsIn(Persisting)' = JobsIn(Persisting)
      BY <1>3, <1>4 DEF JobsIn
    <3> QED
      BY <1>1, <1>3, <3>1 DEF HoldUsed
  <2>2. phase = "closing" => Needed' = Needed
    <3> SUFFICES ASSUME phase = "closing" PROVE Needed' = Needed
      OBVIOUS
    <3>1. Settled
      BY <1>1, NothingInFlight
    <3>2. {x \in Txs : step'[x] = "confirmed"} = {x \in Txs : step[x] = "confirmed"}
      BY <1>6, <3>1
    <3>3. Confirmed' = Confirmed
      BY <1>3, <3>2 DEF Confirmed, JobsIn
    <3> QED
      BY <3>3 DEF Needed
  <2>3. phase' = "closing" /\ reserving' /\ ~retry' /\ ~draining' => hold' = 0 \/ Needed' = 0
    BY <1>1, <1>3, <2>2, Zenon DEF HoldUsed
  <2> QED
    BY <2>1, <2>3 DEF HoldUsed
<1>8. Judged'
  <2>1. phase' = "judge" => blob' = {} /\ Settled'
    BY <1>1, <1>3, <1>6 DEF Judged, Settled
  <2>2. \A x \in Txs : (step'[x] = "confirmed" => record'[x] # "NONE")
                       /\ (step'[x] = "persist" => record'[x] = "NONE")
    BY <1>1, <1>2, <1>3 DEF MovesAt, Judged, StepRecorded, Records, Busy
  <2> QED
    BY <2>1, <2>2 DEF Judged
<1>9. UnitsDistinct' => UnitsDistinct
  BY <1>3 DEF UnitsDistinct
<1>10. ASSUME Honest' PROVE Bounded'
  <2>1. MayLand' \subseteq MayLand
    BY <1>2, <1>10 DEF MovesAt, MayLand
  <2>2. UnitsDistinct
    BY <1>9, <1>10 DEF Honest
  <2>3. ~deceived
    BY <1>10 DEF Honest, Moves
  <2>4. Bounded
    BY <2>2, <2>3 DEF JobsInv, Honest
  <2>5. \A x \in Txs : phase' # "idle" /\ record'[x] = "CONFIRMED" => step'[x] \in {"rows", "confirmed"}
    BY <1>2, <1>3, <2>2, <2>4 DEF MovesAt, Bounded, Busy
  <2> QED
    BY <1>1, <1>3, <2>1, <2>4, <2>5, BoundFrame DEF Held, Moves
<1>11. ASSUME UnitsDistinct' PROVE Reached'
  <2>1. UnitsDistinct /\ Reached
    BY <1>9, <1>11 DEF JobsInv
  <2>2. \A x \in Txs : record'[x] = "CONFIRMED" \/ step'[x] \in {"mark", "rows", "confirmed"}
                         => chain'[x] = "landed"
    BY <1>2, <2>1 DEF MovesAt, Reached
  <2>3. LandedJobs' >= LandedJobs /\ LandedJobs' \in Nat /\ LandedJobs \in Nat
    BY <1>1, <1>2, <1>3, LandedFrame DEF MovesAt
  <2>4. handed' > 0 => LandedJobs' + handed' >= Target
    BY <1>1, <1>3, <2>1, <2>3, ListAssumption DEF Reached, Held
  <2>5. (phase' = "completing" \/ task' = "completed") /\ reserving' /\ ~draining'
          => LandedJobs' + handed' >= Target
    <3>1. (phase' = "completing" \/ task' = "completed") /\ reserving' /\ ~draining'
            => LandedJobs + handed >= Target
      BY <1>3, <2>1, Zenon DEF Reached
    <3>2. handed' = handed /\ handed \in Nat
      BY <1>1, <1>3 DEF Held
    <3>3. ASSUME NEW l \in Nat, NEW m \in Nat, NEW h \in Nat, NEW t \in Nat, m >= l, l + h >= t
          PROVE  m + h >= t
      BY <3>3
    <3>4. Target \in Nat
      BY ListAssumption
    <3> QED
      BY <2>3, <3>1, <3>2, <3>3, <3>4
  <2> QED
    BY <2>2, <2>4, <2>5 DEF Reached
<1>12. Inherited'
  BY <1>1 DEF Moves, Inherited
<1> QED
  BY <1>5, <1>7, <1>8, <1>10, <1>11, <1>12 DEF JobsInv, HoldInv

(* A signed transaction goes to the task, and its nodes from the hold with   *)
(* it.                                                                       *)
LEMMA PersistJobs == ASSUME JobsInv, LandInv', NEW x \in Txs, Persist(x) PROVE JobsInv'
<1>1. LandInv /\ HoldInv /\ Held /\ HoldUsed /\ Judged /\ Inherited /\ Shapes /\ PersistedBeforeSent /\ Counts
  BY LandFacts DEF JobsInv, HoldInv, Recorded
<1>2. /\ step[x] = "persist" /\ step' = [step EXCEPT ![x] = "send"]
      /\ record' = [record EXCEPT ![x] = "SIGNED"] /\ blob' = blob \cup {x} /\ hold' = HoldAfter(x)
      /\ UNCHANGED <<task, reserving, handed, heir, orphaned, size, unit, chain, phase, aborted, retry,
                     draining, deceived>>
  BY DEF Persist, Advance, handoff, history
<1>3. record[x] = "NONE" /\ chain[x] \in {"unsent", "dead"}
  BY <1>1, <1>2 DEF Judged, Shapes, PersistedBeforeSent
<1>4. \A y \in Txs \ {x} : step'[y] = step[y] /\ record'[y] = record[y]
  BY <1>1, <1>2 DEF Shapes
<1>5. step'[x] = "send" /\ record'[x] = "SIGNED"
  BY <1>1, <1>2 DEF Shapes
<1>6. x \in Txs \ Records /\ Records' = Records \cup {x} /\ Records \in SUBSET Txs
  BY <1>3, <1>4, <1>5 DEF Records
<1>7. x \in Persisting /\ Persisting' = Persisting \ {x} /\ Persisting \in SUBSET Txs
  BY <1>2, <1>4, <1>5 DEF Persisting
<1>8. /\ JobsIn(Records)' = JobsIn(Records) + size[x]
      /\ JobsIn(Persisting) = size[x] + JobsIn(Persisting)'
  <2>1. JobsIn(Records)' = JobsIn(Records \cup {x}) /\ JobsIn(Persisting)' = JobsIn(Persisting \ {x})
    BY <1>2, <1>6, <1>7 DEF JobsIn
  <2> QED
    BY <1>1, <1>6, <1>7, <2>1, JobsFacts
<1>9. /\ JobsIn(Records) \in Nat /\ JobsIn(Persisting) \in Nat /\ size[x] \in Nat
      /\ JobsIn(Records)' \in Nat /\ JobsIn(Persisting)' \in Nat
  <2>1. /\ JobsIn(Records) \in Nat /\ JobsIn(Persisting) \in Nat /\ size[x] \in Nat
    BY <1>1, JobsFacts
  <2>2. JobsIn(Persisting \ {x}) \in Nat
    BY <1>1, <1>7, JobsFacts
  <2>3. JobsIn(Persisting)' = JobsIn(Persisting \ {x})
    BY <1>2, <1>7 DEF JobsIn
  <2> QED
    BY <1>8, <2>1, <2>2, <2>3
<1>10. phase \in {"resume", "fresh"} /\ task = "queued"
  BY <1>1, <1>2, BusyPhase DEF Busy
<1>11. Held'
  <2>1. CASE reserving
    <3>1. hold \in Nat /\ hold # Unasked /\ hold' = hold - size[x]
      BY <1>1, <1>2, <1>7, <2>1 DEF Held, HoldAfter, Unasked
    <3>2. hold + JobsIn(Records) <= Target /\ JobsIn(Persisting) <= hold
      BY <1>1, <2>1, <3>1 DEF Held
    <3>3. hold' \in Nat /\ hold' + JobsIn(Records)' <= Target /\ JobsIn(Persisting)' <= hold'
      BY <1>8, <1>9, <3>1, <3>2, ListAssumption
    <3>4. handed' > 0 => hold' = 0
      <4>1. handed \in Nat /\ (handed > 0 => hold = 0)
        BY <1>1 DEF Held
      <4> QED
        BY <1>2, <1>9, <3>1, <3>3, <4>1
    <3>5. retry' \in BOOLEAN /\ draining' \in BOOLEAN /\ reserving' /\ handed' \in Nat
      BY <1>1, <1>2, <2>1 DEF Held
    <3>6. hold' # Unasked
      BY <3>3 DEF Unasked
    <3> QED
      BY <3>3, <3>4, <3>5, <3>6 DEF Held
  <2>2. CASE ~reserving
    <3>1. hold' = hold
      BY <1>2, <2>2 DEF HoldAfter
    <3> QED
      BY <1>1, <1>2, <2>2, <3>1 DEF Held
  <2> QED
    BY <2>1, <2>2
<1>12. HoldUsed'
  <2>1. phase' = "fresh" /\ reserving' /\ ~aborted' /\ ~retry' /\ ~draining' => hold' = JobsIn(Persisting)'
    <3> SUFFICES ASSUME phase = "fresh", reserving, ~aborted, ~retry, ~draining
                 PROVE  hold' = JobsIn(Persisting)'
      BY <1>2, Zenon
    <3>1. hold = JobsIn(Persisting) /\ hold' = hold - size[x]
      BY <1>1, <1>2 DEF HoldUsed, HoldAfter
    <3> QED
      BY <1>8, <1>9, <3>1
  <2>2. phase' # "closing"
    BY <1>2, <1>10
  <2> QED
    BY <2>1, <2>2 DEF HoldUsed
<1>13. Judged'
  BY <1>1, <1>2, <1>4, <1>5, <1>10 DEF Judged
<1>14. UnitsDistinct' => UnitsDistinct
  BY <1>2, <1>6 DEF UnitsDistinct
<1>15. ASSUME Honest' PROVE Bounded'
  <2>1. Bounded
    BY <1>2, <1>14, <1>15 DEF Honest, JobsInv
  <2>2. MayLand' \subseteq MayLand
    BY <1>2, <1>3, <1>4, <1>5 DEF MayLand
  <2>3. \A y \in Txs : phase' # "idle" /\ record'[y] = "CONFIRMED" => step'[y] \in {"rows", "confirmed"}
    BY <1>2, <1>4, <1>5, <2>1 DEF Bounded
  <2> QED
    BY <1>1, <1>2, <2>1, <2>2, <2>3, BoundFrame DEF Held
<1>16. ASSUME UnitsDistinct' PROVE Reached'
  <2>1. Reached
    BY <1>14, <1>16 DEF JobsInv
  <2>2. \A y \in Txs : record'[y] = "CONFIRMED" \/ step'[y] \in {"mark", "rows", "confirmed"}
                         => chain'[y] = "landed"
    BY <1>2, <1>4, <1>5, <2>1 DEF Reached
  <2>3. LandedJobs' = LandedJobs
    BY <1>2 DEF LandedJobs, JobsIn
  <2> QED
    BY <1>2, <1>10, <2>1, <2>2, <2>3 DEF Reached
<1>17. Inherited'
  BY <1>1, <1>2 DEF Inherited
<1> QED
  BY <1>11, <1>12, <1>13, <1>15, <1>16, <1>17 DEF JobsInv, HoldInv

(* A step of the queue or of the whole run that leaves the transactions, the *)
(* hold and what was handed off.                                             *)
LEMMA RunFrame ==
  ASSUME JobsInv, LandInv', UNCHANGED <<size, unit, record, blob, chain, hold, handed, reserving, deceived>>,
         ~orphaned' => ~orphaned, Inherited',
         Persisting' \subseteq Persisting, retry' \in BOOLEAN, draining' \in BOOLEAN,
         HoldUsed', phase' = "judge" => blob = {} /\ Settled',
         \A x \in Txs : step'[x] = "confirmed" => record[x] # "NONE",
         Honest /\ Bounded =>
           \A x \in Txs : phase' # "idle" /\ record[x] = "CONFIRMED" => step'[x] \in {"rows", "confirmed"},
         \A x \in Txs : step'[x] \in {"mark", "rows", "confirmed"}
                          => step[x] = step'[x] \/ record[x] = "CONFIRMED",
         phase' = "completing" \/ task' = "completed" =>
           (phase = "completing" \/ task = "completed") /\ (draining => draining')
  PROVE  JobsInv'
<1>1. LandInv /\ Held /\ Judged
  BY DEF JobsInv, HoldInv
<1>2. Records' = Records /\ (UnitsDistinct' <=> UnitsDistinct)
  BY DEF Records, UnitsDistinct
<1>3. Held'
  BY <1>1, <1>2, HoldFrame
<1>4. Judged'
  BY <1>1 DEF Judged, Persisting
<1>5. ASSUME Honest' PROVE Bounded'
  <2>1. Honest /\ Bounded
    BY <1>2, <1>5 DEF Honest, JobsInv
  <2>2. MayLand' \subseteq MayLand
    BY DEF MayLand, Persisting
  <2> QED
    BY <1>1, <2>1, <2>2, BoundFrame DEF Held
<1>6. ASSUME UnitsDistinct' PROVE Reached'
  <2>1. Reached
    BY <1>2, <1>6 DEF JobsInv
  <2>2. LandedJobs' = LandedJobs
    BY DEF LandedJobs, JobsIn
  <2>3. \A y \in Txs : record'[y] = "CONFIRMED" \/ step'[y] \in {"mark", "rows", "confirmed"}
                         => chain'[y] = "landed"
    BY <2>1 DEF Reached
  <2>4. (phase' = "completing" \/ task' = "completed") /\ reserving' /\ ~draining'
          => LandedJobs + handed >= Target
    BY <2>1, Zenon DEF Reached
  <2>5. handed' > 0 => LandedJobs + handed >= Target
    BY <2>1 DEF Reached
  <2> QED
    BY <2>2, <2>3, <2>4, <2>5 DEF Reached
<1> QED
  BY <1>3, <1>4, <1>5, <1>6 DEF JobsInv, HoldInv

(* What is still needed is signed anew, for the nodes the hold has left, and *)
(* no more than them.                                                        *)
LEMMA SignJobs == ASSUME JobsInv, LandInv', Sign PROVE JobsInv'
<1>1. LandInv /\ HoldInv /\ Held /\ HoldUsed /\ Judged /\ Inherited /\ Shapes /\ Counts
  BY LandFacts DEF JobsInv, HoldInv
<1>2. /\ phase = "judge" /\ phase' = "fresh"
      /\ UNCHANGED <<task, reserving, handed, heir, orphaned, record, blob, chain, aborted, retry, draining,
                     deceived>>
  BY Zenon DEF Sign, handoff, history
<1>3. blob = {} /\ Settled
  BY <1>1, <1>2 DEF Judged
<1>4. PICK m \in 1..Needed :
        /\ IF ~reserving THEN m = Needed /\ UNCHANGED hold
           ELSE \/ hold = Unasked /\ hold' = m
                \/ hold > 0 /\ m = (IF hold < Needed THEN hold ELSE Needed) /\ UNCHANGED hold
        /\ \E n \in 0..MaxTxs, l \in {1, 2} : SignsNew(m, n, l)
  BY <1>1, SignFacts
<1>5. PICK n \in 0..MaxTxs, l \in {1, 2} : SignsNew(m, n, l)
  BY <1>4
<1> DEFINE new == (n + 1)..(n + l)
<1>6. /\ new \subseteq Txs
      /\ size' \in [Txs -> Nat]
      /\ \A x \in new : size[x] = 0 /\ size'[x] > 0 /\ record[x] = "NONE" /\ x \notin blob
      /\ \A x \in Txs \ new : size'[x] = size[x] /\ unit'[x] = unit[x]
      /\ \A x \in Txs : step'[x] = IF x \in new THEN "persist" ELSE step[x]
      /\ SumFunctionOnSet(size', new) = m
  BY <1>5 DEF SignsNew
<1> HIDE DEF new
<1>7. Persisting = {} /\ Persisting' = new
  <2>1. Persisting = {}
    BY <1>3 DEF Persisting, Settled, Busy
  <2> QED
    BY <1>6, <2>1 DEF Persisting
<1>8. JobsIn(Persisting)' = m
  BY <1>6, <1>7 DEF JobsIn
<1>9. Records' = Records /\ \A x \in Records : x \in Txs \ new
  BY <1>2, <1>6 DEF Records
(* The sizes of what was signed before stay.                                 *)
<1>10. ASSUME NEW S \in SUBSET (Txs \ new) PROVE JobsIn(S)' = JobsIn(S)
  <2>1. S \in SUBSET Txs
    OBVIOUS
  <2>2. IsFiniteSet(S)
    BY <1>6, <2>1, SumTxs
  <2>3. \A x \in S : size'[x] = size[x]
    BY <1>6
  <2>4. SumFunctionOnSet(size', S) = SumFunctionOnSet(size, S)
    BY <2>2, <2>3, SumSame
  <2> QED
    BY <2>4 DEF JobsIn
<1>11. JobsIn(Records)' = JobsIn(Records)
  <2>1. Records \in SUBSET (Txs \ new)
    BY <1>9
  <2>2. SumFunctionOnSet(size', Records) = SumFunctionOnSet(size, Records)
    BY <1>10, <2>1 DEF JobsIn
  <2> QED
    BY <1>9, <2>2 DEF JobsIn
<1>12. Confirmed \in Nat /\ JobsIn(Records) \in Nat /\ Confirmed <= JobsIn(Records) /\ Target \in Nat
  BY <1>1, ConfirmedRecorded, ListAssumption
<1>13. Needed \in Nat /\ m \in Nat /\ m > 0 /\ m <= Needed /\ Confirmed + Needed = Target
  <2>1. Needed \in Nat
    BY <1>12 DEF Needed
  <2>2. m \in Nat /\ m > 0 /\ m <= Needed
    BY <1>4, <2>1
  <2> QED
    BY <1>12, <2>1, <2>2 DEF Needed
(* Reserved nodes: the request is for what is needed, or signs all it holds. *)
<1>14. reserving => /\ hold' \in Nat /\ hold' = m /\ hold' + JobsIn(Records) <= Target
                    /\ handed = 0
  <2> SUFFICES ASSUME reserving PROVE /\ hold' \in Nat /\ hold' = m
                                      /\ hold' + JobsIn(Records) <= Target /\ handed = 0
    OBVIOUS
  <2>1. handed \in Nat /\ (handed > 0 => hold = 0) /\ hold \in Nat \cup {Unasked}
    BY <1>1 DEF Held
  <2>2. CASE hold = Unasked /\ hold' = m
    <3>1. Records = {}
      BY <1>1, <2>2 DEF Held
    <3>2. JobsIn(Records) = 0
      BY <1>1, <3>1, JobsFacts
    <3>3. hold # 0
      BY <2>2 DEF Unasked
    <3>4. m <= Target
      BY <1>12, <1>13
    <3> QED
      BY <1>12, <1>13, <2>1, <2>2, <3>2, <3>3, <3>4
  <2>3. CASE hold > 0 /\ m = (IF hold < Needed THEN hold ELSE Needed) /\ UNCHANGED hold
    <3>1. hold \in Nat /\ hold # Unasked
      BY <2>1, <2>3 DEF Unasked
    <3>2. hold + JobsIn(Records) <= Target
      BY <1>1, <3>1 DEF Held
    <3>3. hold <= Needed
      BY <1>12, <1>13, <3>1, <3>2
    <3>4. m = hold
      BY <1>13, <2>3, <3>1, <3>3
    <3> QED
      BY <2>1, <2>3, <3>1, <3>2, <3>4
  <2> QED
    BY <1>4, <2>2, <2>3
<1>15. ~reserving => hold' = hold /\ handed = 0
  BY <1>1, <1>4 DEF Held
<1>16. Held'
  <2>1. reserving' \in BOOLEAN /\ retry' \in BOOLEAN /\ draining' \in BOOLEAN /\ handed' \in Nat
    BY <1>1, <1>2 DEF Held
  <2>2. hold' \in Nat \cup {Unasked}
    BY <1>1, <1>14, <1>15 DEF Held
  <2>3. ~(handed' > 0)
    BY <1>1, <1>2, <1>14, <1>15 DEF Held
  <2>4. reserving' => /\ hold' # Unasked /\ hold' + JobsIn(Records)' <= Target
                      /\ JobsIn(Persisting)' <= hold'
    BY <1>2, <1>8, <1>11, <1>14 DEF Unasked
  <2> QED
    BY <2>1, <2>2, <2>3, <2>4 DEF Held
<1>17. HoldUsed'
  BY <1>2, <1>8, <1>14 DEF HoldUsed
<1>18. Judged'
  BY <1>1, <1>2, <1>6 DEF Judged
<1>19. UnitsDistinct' => UnitsDistinct
  BY <1>6, <1>9 DEF UnitsDistinct
<1>20. ASSUME Honest' PROVE Bounded'
  <2>1. Honest /\ Bounded
    BY <1>2, <1>19, <1>20 DEF Honest, JobsInv
  <2>2. JobsIn(MayLand) <= Confirmed
    BY <1>2, <1>3, <2>1, CountedLands
  <2>3. MayLand' \subseteq MayLand \cup new /\ MayLand \cup new \in SUBSET Txs
    BY <1>2, <1>6 DEF MayLand
  <2> DEFINE old == MayLand \ new
  <2>4. old \in SUBSET (Txs \ new) /\ MayLand' \subseteq old \cup new /\ old \cup new \in SUBSET Txs
        /\ old \in SUBSET MayLand /\ MayLand \in SUBSET Txs /\ old \cap new = {}
    BY <1>6, <2>3 DEF MayLand
  <2> HIDE DEF old
  <2>5. IsFiniteSet(old) /\ IsFiniteSet(new) /\ SumFunctionOnSet(size', MayLand') \in Nat
        /\ SumFunctionOnSet(size', old) \in Nat
        /\ SumFunctionOnSet(size', MayLand') <= SumFunctionOnSet(size', old \cup new)
    <3>1. old \in SUBSET Txs /\ new \in SUBSET Txs /\ MayLand' \in SUBSET (old \cup new) /\ MayLand' \in SUBSET Txs
      BY <1>6, <2>4
    <3> QED
      BY <1>6, <2>4, <3>1, SumTxs
  <2>6. SumFunctionOnSet(size', old \cup new) = SumFunctionOnSet(size', old) + SumFunctionOnSet(size', new)
    <3>1. (\A x \in old : size'[x] \in Int) /\ (\A x \in new : size'[x] \in Int)
      BY <1>6, <2>4
    <3> QED
      BY <2>4, <2>5, <3>1, SumUnion
  <2>7. SumFunctionOnSet(size', old) = JobsIn(old)
    BY <1>10, <2>4 DEF JobsIn
  <2>8. JobsIn(old) <= JobsIn(MayLand) /\ JobsIn(MayLand) \in Nat /\ JobsIn(old) \in Nat
    BY <1>1, <2>4, JobsFacts
  <2>9. SumFunctionOnSet(size', MayLand') <= Confirmed + m
    BY <1>6, <1>12, <1>13, <2>2, <2>5, <2>6, <2>7, <2>8
  <2>10. JobsIn(MayLand)' <= Target /\ JobsIn(MayLand)' + handed' <= Target
    <3>1. JobsIn(MayLand)' = SumFunctionOnSet(size', MayLand')
      BY DEF JobsIn
    <3>2. handed' = 0
      BY <1>1, <1>2, <1>14, <1>15 DEF Held
    <3> QED
      BY <1>12, <1>13, <2>5, <2>9, <3>1, <3>2
  <2>11. \A y \in Txs : phase' # "idle" /\ record'[y] = "CONFIRMED" => step'[y] \in {"rows", "confirmed"}
    BY <1>2, <1>6, <2>1 DEF Bounded
  <2> QED
    BY <2>10, <2>11 DEF Bounded
<1>21. ASSUME UnitsDistinct' PROVE Reached'
  <2>1. Reached
    BY <1>19, <1>21 DEF JobsInv
  <2>2. \A y \in Txs : record'[y] = "CONFIRMED" \/ step'[y] \in {"mark", "rows", "confirmed"}
                         => chain'[y] = "landed"
    BY <1>2, <1>6, <2>1 DEF Reached
  <2>3. handed' = 0
    BY <1>1, <1>2, <1>14, <1>15 DEF Held
  <2>4. phase' # "completing" /\ task' # "completed"
    <3>1. task = "queued"
      BY <1>1, <1>2, LandFacts DEF Carried, Counts
    <3> QED
      BY <1>2, <3>1
  <2> QED
    BY <2>2, <2>3, <2>4 DEF Reached
<1>22. Inherited'
  BY <1>1, <1>2 DEF Inherited
<1> QED
  BY <1>16, <1>17, <1>18, <1>20, <1>21, <1>22 DEF JobsInv, HoldInv

(* A request with no node to give leaves the hold empty.                     *)
LEMMA NoNodesJobs ==
  ASSUME JobsInv, LandInv', phase = "judge", phase' = "fresh", hold' = 0, reserving,
         UNCHANGED <<task, reserving, handed, heir, orphaned, size, unit, record, blob, chain, step, aborted, retry,
                     draining, deceived>>
  PROVE  JobsInv'
<1>1. LandInv /\ HoldInv /\ Held /\ Judged /\ Inherited /\ Settled
  BY DEF JobsInv, HoldInv, Judged
<1>2. Records' = Records /\ Persisting' = Persisting /\ Persisting = {}
      /\ (UnitsDistinct' <=> UnitsDistinct)
  BY <1>1 DEF Records, Persisting, UnitsDistinct, Settled, Busy
<1>3. JobsIn(Records)' = JobsIn(Records) /\ JobsIn(Persisting)' = 0
  <2>1. JobsIn(Persisting)' = JobsIn({})
    BY <1>2 DEF JobsIn
  <2>2. JobsIn(Records)' = JobsIn(Records)
    BY <1>2 DEF JobsIn
  <2> QED
    BY <1>1, <2>1, <2>2, JobsFacts
<1>4. JobsIn(Records) \in Nat /\ JobsIn(Records) <= Target
  <2>1. JobsIn(Records) \in Nat /\ JobsIn({}) = 0 /\ Target \in Nat
    BY <1>1, JobsFacts, ListAssumption
  <2>2. CASE hold = Unasked
    <3>1. Records = {}
      BY <1>1, <2>2 DEF Held
    <3>2. JobsIn(Records) = 0
      BY <2>1, <3>1
    <3> QED
      BY <2>1, <3>2
  <2>3. CASE hold # Unasked
    <3>1. hold \in Nat /\ hold + JobsIn(Records) <= Target
      BY <1>1, <2>3 DEF Held
    <3> QED
      BY <2>1, <3>1
  <2> QED
    BY <2>2, <2>3
<1>5. Held'
  <2>1. /\ reserving' /\ reserving' \in BOOLEAN /\ retry' \in BOOLEAN /\ draining' \in BOOLEAN
        /\ handed' \in Nat /\ hold' \in Nat
    BY <1>1 DEF Held
  <2>2. hold' # Unasked
    BY DEF Unasked
  <2>3. hold' + JobsIn(Records)' <= Target /\ JobsIn(Persisting)' <= hold'
    BY <1>3, <1>4
  <2> QED
    BY <2>1, <2>2, <2>3 DEF Held
<1>6. HoldUsed' /\ Judged'
  BY <1>1, <1>3 DEF HoldUsed, Judged
<1>7. Honest' => Bounded'
  BY <1>1, <1>2 DEF Honest, JobsInv, Bounded, MayLand, JobsIn, Settled, Busy
<1>8. UnitsDistinct' => Reached'
  BY <1>2 DEF JobsInv, Reached, LandedJobs, JobsIn
<1>9. Inherited'
  BY <1>1 DEF Inherited
<1> QED
  BY <1>5, <1>6, <1>7, <1>8, <1>9 DEF JobsInv, HoldInv

(* What is missing goes to a new LIST when the hold is empty, and is handed  *)
(* off again only if the LIST handed to has left.                            *)
LEMMA CloseJobs ==
  ASSUME JobsInv, LandInv', Close, ~(~draining /\ retry)
  PROVE  JobsInv'
<1>1. LandInv /\ HoldInv /\ Held /\ HoldUsed /\ Judged /\ Inherited /\ Counts /\ blob = {} /\ Settled
  BY LandFacts, NothingInFlight DEF JobsInv, HoldInv, Close
<1>2. /\ phase = "closing" /\ phase' = "completing"
      /\ IF ~draining /\ reserving /\ Missing > 0 /\ heir # "stored"
           THEN handed' = handed + Missing /\ heir' = "stored"
           ELSE UNCHANGED <<handed, heir>>
      /\ UNCHANGED <<task, reserving, hold, orphaned, size, unit, record, blob, chain, step, aborted,
                     retry, draining, deceived>>
  BY DEF Close, handoff, txVars, history
<1>3. Records' = Records /\ Persisting' = Persisting /\ MayLand' = MayLand
      /\ (UnitsDistinct' <=> UnitsDistinct)
  BY <1>2 DEF Records, Persisting, MayLand, UnitsDistinct
<1>4. /\ JobsIn(Records)' = JobsIn(Records) /\ JobsIn(Persisting)' = JobsIn(Persisting)
      /\ JobsIn(MayLand)' = JobsIn(MayLand) /\ LandedJobs' = LandedJobs
  BY <1>2, <1>3 DEF JobsIn, LandedJobs
<1>5. /\ JobsIn(MayLand) \in Nat /\ Confirmed \in Nat /\ Target \in Nat /\ handed \in Nat
      /\ Missing = Target - Confirmed
  BY <1>1, JobsFacts, ConfirmedRecorded, ListAssumption DEF Held, Missing
<1>6. CASE ~(~draining /\ reserving /\ Missing > 0 /\ heir # "stored")
  <2>0. UNCHANGED <<handed, heir>> /\ Inherited'
    BY <1>1, <1>2, <1>6 DEF Inherited
  <2>1. Held'
    BY <1>1, <1>2, <1>3, <2>0, HoldFrame DEF Held
  <2>2. HoldUsed' /\ Judged'
    BY <1>1, <1>2 DEF HoldUsed, Judged
  <2>3. Honest' => Bounded'
    BY <1>2, <1>3, <1>4, <2>0 DEF Honest, JobsInv, Bounded
  <2>4. ASSUME UnitsDistinct' PROVE Reached'
    <3>1. Reached
      BY <1>3, <2>4 DEF JobsInv
    <3>2. LandedJobs \in Nat /\ Confirmed <= LandedJobs
      BY <1>1, <3>1, ConfirmedLanded
    <3>3. ~draining /\ reserving => LandedJobs + handed >= Target
      <4>1. CASE handed > 0
        BY <3>1, <4>1 DEF Reached
      <4>2. CASE handed = 0 /\ ~draining /\ reserving
        <5>1. ~(Missing > 0)
          BY <1>1, <1>5, <1>6, <4>2 DEF Inherited
        <5> QED
          BY <1>5, <3>2, <5>1
      <4> QED
        BY <1>5, <4>1, <4>2
    <3>4. (phase' = "completing" \/ task' = "completed") /\ reserving' /\ ~draining'
            => LandedJobs' + handed' >= Target
      BY <1>2, <1>4, <2>0, <3>3
    <3> QED
      BY <1>2, <1>4, <2>0, <3>1, <3>4 DEF Reached
  <2> QED
    BY <2>0, <2>1, <2>2, <2>3, <2>4 DEF JobsInv, HoldInv
<1>7. CASE ~draining /\ reserving /\ Missing > 0 /\ heir # "stored"
  <2>1. handed' = handed + Missing /\ handed' \in Nat /\ handed' > 0 /\ Missing \in Nat
    BY <1>2, <1>5, <1>7
  <2>7. Inherited' /\ (~orphaned => handed = 0)
    BY <1>1, <1>2, <1>7, <2>1 DEF Inherited
  <2>2. hold = 0
    <3>1. Needed # 0
      BY <1>5, <1>7 DEF Needed
    <3>2. ~retry
      BY <1>7
    <3> QED
      BY <1>1, <1>2, <1>7, <3>1, <3>2 DEF HoldUsed
  <2>3. Held'
    <3>1. /\ reserving' /\ reserving' \in BOOLEAN /\ retry' \in BOOLEAN /\ draining' \in BOOLEAN
          /\ hold' \in Nat /\ hold' # Unasked
      BY <1>1, <1>2, <1>7, <2>2 DEF Held, Unasked
    <3>2. hold + JobsIn(Records) <= Target /\ JobsIn(Persisting) <= hold
      BY <1>1, <1>2, <1>7, <3>1 DEF Held
    <3>3. hold' + JobsIn(Records)' <= Target /\ JobsIn(Persisting)' <= hold'
      BY <1>2, <1>4, <3>2
    <3> QED
      BY <1>2, <2>1, <2>2, <3>1, <3>3 DEF Held
  <2>4. HoldUsed' /\ Judged'
    BY <1>1, <1>2 DEF HoldUsed, Judged
  <2>5. ASSUME Honest' PROVE Bounded'
    <3>1. Honest /\ Bounded
      BY <1>2, <1>3, <2>5 DEF Honest, JobsInv
    <3>2. JobsIn(MayLand) <= Confirmed
      BY <1>1, <1>2, <3>1, CountedLands
    <3>3. ~orphaned => JobsIn(MayLand)' + handed' <= Target
      BY <1>4, <1>5, <2>1, <2>7, <3>2
    <3> QED
      BY <1>2, <1>4, <3>1, <3>3 DEF Bounded
  <2>6. ASSUME UnitsDistinct' PROVE Reached'
    <3>1. Reached
      BY <1>3, <2>6 DEF JobsInv
    <3>2. LandedJobs \in Nat /\ Confirmed <= LandedJobs
      BY <1>1, <3>1, ConfirmedLanded
    <3>3. LandedJobs' + handed' >= Target
      BY <1>4, <1>5, <2>1, <3>2
    <3> QED
      BY <1>2, <3>1, <3>3 DEF Reached
  <2> QED
    BY <2>3, <2>4, <2>5, <2>6, <2>7 DEF JobsInv, HoldInv
<1> QED
  BY <1>2, <1>6, <1>7

LEMMA StepJobs == JobsInv /\ [Next]_vars => JobsInv'
<1> SUFFICES ASSUME JobsInv, [Next]_vars PROVE JobsInv'
  OBVIOUS
<1> USE DEF taskVars, handoff, txVars, runVars, history
<1>1. /\ LandInv /\ LandInv' /\ HoldInv /\ Held /\ HoldUsed /\ Judged /\ Inherited /\ Shapes /\ Counts
      /\ Carried
      /\ retry \in BOOLEAN /\ draining \in BOOLEAN /\ TRUE \in BOOLEAN /\ FALSE \in BOOLEAN
  BY StepLand, LandFacts DEF JobsInv, HoldInv, Held
<1>2. ASSUME NEW x \in Txs, Unit(x) PROVE JobsInv'
  BY <1>1, <1>2, UnitMoves, MovesJobs, PersistJobs
(* A step that hands nothing off and loses no hand-off.                      *)
<1>0. UNCHANGED <<handed, heir, orphaned>> => Inherited' /\ (~orphaned' => ~orphaned)
  BY <1>1 DEF Inherited
<1>3. CASE StartRun
  <2>1. /\ UNCHANGED <<size, unit, record, blob, chain, hold, handed, heir, orphaned, reserving, deceived,
                       task>>
        /\ phase = "idle" /\ phase' = "resume" /\ task = "queued" /\ retry' = FALSE /\ draining' = FALSE
        /\ \A x \in Txs : step'[x] = CASE record[x] = "NONE" -> "none"
                                        [] record[x] = "CONFIRMED" -> "confirmed"
                                        [] OTHER -> "recover"
    BY <1>3 DEF StartRun
  <2>2. Persisting' \subseteq Persisting
    BY <2>1 DEF Persisting
  <2>3. \A x \in Txs : /\ step'[x] = "confirmed" <=> record[x] = "CONFIRMED"
                       /\ step'[x] \notin {"mark", "rows"}
    BY <2>1
  <2>4. HoldUsed'
    BY <2>1 DEF HoldUsed
  <2> QED
    BY <1>0, <1>1, <2>1, <2>2, <2>3, <2>4, RunFrame
<1>4. CASE Drop \/ AbandonList \/ StopDeployment \/ HeirLeaves \/ Abort \/ UNCHANGED vars
  <2>1. /\ UNCHANGED <<size, unit, record, blob, chain, hold, handed, reserving, deceived, phase, step,
                       retry, draining>>
        /\ task' = task \/ task' \in {"dropped", "abandoned"}
        /\ aborted' = aborted \/ aborted' = TRUE
    BY <1>4 DEF Drop, AbandonList, StopDeployment, HeirLeaves, Abort, vars
  <2>8. Inherited' /\ (~orphaned' => ~orphaned)
    <3>1. CASE HeirLeaves
      BY <1>1, <3>1 DEF HeirLeaves, Inherited
    <3>2. CASE UNCHANGED <<handed, heir, orphaned>>
      BY <1>0, <3>2
    <3> QED
      BY <1>4, <3>1, <3>2 DEF Drop, AbandonList, StopDeployment, Abort, vars
  <2>2. Persisting' = Persisting /\ (Settled' <=> Settled) /\ JobsIn(Persisting)' = JobsIn(Persisting)
        /\ Needed' = Needed
    BY <2>1 DEF Persisting, Settled, JobsIn, Needed, Confirmed
  <2>3. aborted => aborted'
    BY <1>1, <2>1, Zenon DEF Counts
  <2>4. HoldUsed'
    BY <1>1, <2>1, <2>2, <2>3, Zenon DEF HoldUsed
  <2>5. \A x \in Txs : step'[x] = "confirmed" => record[x] # "NONE"
    BY <1>1, <2>1 DEF Judged
  <2>6. Honest /\ Bounded =>
          \A x \in Txs : phase' # "idle" /\ record[x] = "CONFIRMED" => step'[x] \in {"rows", "confirmed"}
    BY <2>1 DEF Bounded
  <2>7. phase' = "judge" => blob = {} /\ Settled'
    BY <1>1, <2>1, <2>2 DEF Judged
  <2> QED
    BY <1>1, <2>1, <2>2, <2>4, <2>5, <2>6, <2>7, <2>8, RunFrame
<1>5. ASSUME Leave, UNCHANGED <<size, unit, record, blob, chain, hold, handed, reserving, deceived>>,
             UNCHANGED <<heir, orphaned>>,
             task' = "completed" => phase = "completing" \/ task = "completed"
      PROVE  JobsInv'
  <2>1. /\ phase' = "idle" /\ retry' = FALSE /\ draining' = draining
        /\ \A x \in Txs : step'[x] = "none"
    BY <1>5 DEF Leave
  <2>2. Persisting' \subseteq Persisting /\ HoldUsed'
    BY <2>1 DEF Persisting, HoldUsed
  <2> QED
    BY <1>0, <1>1, <1>5, <2>1, <2>2, RunFrame
<1>6. CASE Crash \/ Complete
  <2>1. task = "completed" => phase = "idle"
    BY <1>1 DEF Carried, Counts
  <2> QED
    BY <1>5, <1>6, <2>1 DEF Crash, Complete
<1>7. CASE ResumeEnds \/ FreshEnds
  <2>1. /\ UNCHANGED <<size, unit, record, blob, chain, hold, handed, heir, orphaned, reserving, deceived,
                       task>>
        /\ Settled /\ phase \in {"resume", "fresh"} /\ task = "queued"
    BY <1>1, <1>7 DEF ResumeEnds, FreshEnds, Carried, Counts
  <2>2. CASE aborted
    <3>1. Leave
      BY <1>7, <2>2 DEF ResumeEnds, FreshEnds
    <3> QED
      BY <1>5, <2>1, <3>1
  <2>3. CASE ~aborted
    <3>1. /\ UNCHANGED <<step, aborted, retry, draining>>
          /\ \/ phase' = "closing" /\ Needed = 0
             \/ phase' = "judge"
             \/ phase' = "closing" /\ phase = "fresh"
      BY <1>7, <2>3 DEF ResumeEnds, FreshEnds
    <3>2. Persisting = {} /\ Persisting' = Persisting /\ Settled' /\ Needed' = Needed
      BY <2>1, <3>1 DEF Persisting, Settled, Busy, Needed, Confirmed, JobsIn
    <3>3. blob = {}
      <4>1. \A x \in blob : x \in Txs /\ step[x] \in Busy
        BY <1>1, <2>1, <2>3 DEF Carried, Counts, Busy
      <4> QED
        BY <2>1, <4>1 DEF Settled
    <3>4. JobsIn(Persisting) = 0
      BY <1>1, <3>2, JobsFacts
    <3>5. phase' = "closing" /\ reserving' /\ ~retry' /\ ~draining' => hold' = 0 \/ Needed' = 0
      <4>1. phase = "fresh" /\ reserving /\ ~retry /\ ~draining => hold = 0
        BY <1>1, <2>3, <3>4 DEF HoldUsed
      <4> QED
        BY <2>1, <3>1, <3>2, <4>1, Zenon
    <3>6. HoldUsed'
      BY <3>1, <3>5 DEF HoldUsed
    <3>7. \A x \in Txs : step'[x] = "confirmed" => record[x] # "NONE"
      BY <1>1, <3>1 DEF Judged
    <3>8. Honest /\ Bounded =>
            \A x \in Txs : phase' # "idle" /\ record[x] = "CONFIRMED" => step'[x] \in {"rows", "confirmed"}
      BY <2>1, <3>1 DEF Bounded
    <3>9. phase' # "completing" /\ task' # "completed" /\ phase' # "idle"
      BY <2>1, <3>1
    <3> QED
      BY <1>0, <1>1, <2>1, <3>1, <3>2, <3>3, <3>6, <3>7, <3>8, <3>9, RunFrame
  <2> QED
    BY <2>2, <2>3
<1>8. CASE SignNothing
  <2>1. /\ UNCHANGED <<task, reserving, wanted, handed, heir, orphaned, size, unit, record, blob, chain, rows, step,
                       aborted, deceived>>
        /\ phase = "judge" /\ phase' = "fresh" /\ task = "queued"
    BY <1>1, <1>8 DEF SignNothing, Carried, Counts
  <2>2. CASE reserving /\ hold' = 0 /\ UNCHANGED <<draining, retry>>
    BY <1>1, <2>1, <2>2, NoNodesJobs
  <2>3. CASE \/ draining' = TRUE /\ UNCHANGED <<retry, hold>>
             \/ retry' = TRUE /\ UNCHANGED <<draining, hold>>
    <3>1. UNCHANGED hold /\ retry' \in BOOLEAN /\ draining' \in BOOLEAN /\ (draining' \/ retry')
      BY <1>1, <2>3
    <3>2. Persisting' \subseteq Persisting
      BY <2>1 DEF Persisting
    <3>3. HoldUsed'
      BY <2>1, <3>1 DEF HoldUsed
    <3>4. \A x \in Txs : step'[x] = "confirmed" => record[x] # "NONE"
      BY <1>1, <2>1 DEF Judged
    <3>5. Honest /\ Bounded =>
            \A x \in Txs : phase' # "idle" /\ record[x] = "CONFIRMED" => step'[x] \in {"rows", "confirmed"}
      BY <2>1 DEF Bounded
    <3> QED
      BY <1>0, <1>1, <2>1, <3>1, <3>2, <3>3, <3>4, <3>5, RunFrame
  <2> QED
    BY <1>8, <2>2, <2>3 DEF SignNothing
<1>9. CASE Sign
  BY <1>1, <1>9, SignJobs
<1>10. CASE Close
  <2>1. CASE ~draining /\ retry
    <3>1. Leave /\ UNCHANGED <<size, unit, record, blob, chain, hold, handed, heir, orphaned, reserving,
                               deceived, task>>
      BY <1>10, <2>1 DEF Close
    <3> QED
      BY <1>5, <3>1
  <2>2. CASE ~(~draining /\ retry)
    BY <1>1, <1>10, <2>2, CloseJobs
  <2> QED
    BY <2>1, <2>2
<1> QED
  BY <1>2, <1>3, <1>4, <1>6, <1>7, <1>8, <1>9, <1>10 DEF Next

(* A LIST never posts more jobs than its target (reconcileUnits, signBatch,  *)
(* persistSignedRecord), and never posts and hands off more unless the LIST  *)
(* it handed to left before it did (scheduleTask), whatever runs crash, are  *)
(* aborted and taken over, for any target and however many transactions are  *)
(* sent again: as long as the RPC tells the truth and the records' unit      *)
(* indexes differ.                                                           *)
THEOREM NeverTooMany == Spec => []NoOvershoot
<1>1. JobsInv => NoOvershoot
  <2> SUFFICES ASSUME JobsInv, Honest
               PROVE  LandedJobs <= Target /\ (~orphaned => LandedJobs + handed <= Target)
    BY Zenon DEF NoOvershoot, Honest
  <2>1. LandInv /\ Bounded /\ Held
    BY DEF JobsInv, HoldInv
  <2> DEFINE L == {x \in Txs : chain[x] = "landed"}
  <2>2. L \in SUBSET MayLand /\ L \in SUBSET Txs /\ LandedJobs = JobsIn(L)
    BY DEF MayLand, LandedJobs
  <2> HIDE DEF L
  <2>3. LandedJobs <= JobsIn(MayLand) /\ LandedJobs \in Nat /\ JobsIn(MayLand) \in Nat
    BY <2>1, <2>2, JobsFacts
  <2>4. JobsIn(MayLand) <= Target /\ handed \in Nat /\ Target \in Nat
    BY <2>1, ListAssumption DEF Bounded, Held
  <2>5. ~orphaned => JobsIn(MayLand) + handed <= Target
    BY <2>1 DEF Bounded
  <2> QED
    BY <2>3, <2>4, <2>5
<1> QED
  BY <1>1, InitJobs, StepJobs, PTL DEF Spec

(* A LIST of reserved nodes that completes while wanted leaves nothing       *)
(* behind: what it did not land, it handed off (the tail of runListTask).    *)
(* Here even an RPC that lies is allowed for.                                *)
THEOREM NothingLeftBehind == Spec => []NothingForgotten
<1>1. JobsInv => NothingForgotten
  BY Zenon DEF JobsInv, Reached, NothingForgotten
<1> QED
  BY <1>1, InitJobs, StepJobs, PTL DEF Spec

-----------------------------------------------------------------------------
(****************************************************************************)
(* Theorems about Extend, for any timeouts, buffer and bounds: the chain of *)
(* EXTENDs goes on, keeps its distance to the deadline, and is one.         *)
(****************************************************************************)

TaskDoc == [kind : {"none", "chain", "once"}, due : Nat, by : Nat, landed : Nat,
            recorded : BOOLEAN, claimed : BOOLEAN, tried : BOOLEAN]
EditDoc == [at : {"idle", "insert", "find", "push"}, delta : Nat, due : [Slots -> Nat]]

(* What a stored task may say of itself.                                    *)
WellShaped(d) ==
  /\ d.kind = "none" => d = NoTask
  /\ d.recorded => d.claimed /\ d.landed > 0
  /\ d.kind = "once" \/ d.claimed => d.by > 0
  /\ d.kind = "once" => d.landed \in {0, d.by}

(* What a run may hold: where its run is says what its task went through,   *)
(* and a task that waits has no unit recorded.                              *)
Shape ==
  /\ current = 0 <=> stage = "idle"
  /\ current # 0 => extend[current].kind # "none" /\ extend[current].claimed
  /\ stage = "sign" => ~extend[current].recorded
  /\ stage \in {"answered", "half", "done"} => extend[current].landed > 0
  /\ stage = "answered" => ~extend[current].recorded
  /\ stage = "half" => (extend[current].recorded <=> path = "keys")
  /\ stage = "done" => extend[current].recorded
  /\ \A t \in Slots : WellShaped(extend[t])
  /\ \A k \in Edits : editing[k].at = "insert" => editing[k].delta > 0

(* How many events there can be.                                            *)
Counted ==
  /\ row = "QUEUED" => starts = 0 /\ repeats = 0
  /\ starts <= 1 + repeats
  /\ changes <= edits
  /\ row = "SETTLED" => ~alive

(* A task of the chain whose run has not yet passed the handler that queues *)
(* the next one.                                                            *)
Unspent(t) == extend[t].kind = "chain" /\ ~extend[t].recorded /\ ~(t = current /\ stage = "half")

Continued ==
  alive /\ row = "RUNNING" /\ lost = "no" /\ starts = 0 =>
    \/ \E t \in Slots : Unspent(t)
    \/ path = "keys" /\ stage = "half" /\ extend[current].kind = "chain"

(* Before any edit there are only tasks of the chain, all by one timeout,   *)
(* run in the order they are due.                                           *)
Foremost == current # 0 /\ extend[current].landed = 0 =>
              \A t \in Slots : extend[t].kind # "none" => extend[current].due <= extend[t].due
Unedited ==
  edits = 0 =>
    /\ \A k \in Edits : editing[k] = Idle
    /\ \A t \in Slots : extend[t].kind # "none" =>
         /\ extend[t].kind = "chain" /\ extend[t].landed \in {0, timeout}
         /\ extend[t].claimed => extend[t].by = timeout /\ extend[t].due <= now
    /\ Foremost
    /\ timeout <= granted

(* The starts that have been handled: each may bring an EXTEND forward by   *)
(* the buffer.                                                              *)
Handled  == (IF row = "QUEUED" THEN 0 ELSE 1) + repeats - starts
Brought  == Buffer * Handled
Unlanded == {t \in Slots : extend[t].kind = "chain" /\ extend[t].landed = 0}

(* But for what was signed again, each EXTEND that has still to land has a  *)
(* place of its own on the job's time line, a timeout apart from every      *)
(* other; and one that landed may yet be given one.                         *)
Base == granted - timeout * resigned
Fits(p) ==
  \A t \in Unlanded :
    /\ Base <= p[t] /\ p[t] <= extend[t].due + Brought
    /\ \A u \in Unlanded \ {t} : p[t] + timeout <= p[u] \/ p[u] + timeout <= p[t]

Landed == {t \in Slots : extend[t].kind = "chain" /\ extend[t].landed # 0}
Spaced ==
  edits = 0 =>
    /\ Base <= now + timeout + Brought
    /\ \A t \in Landed : Base <= extend[t].due + timeout + Brought
    /\ \E p \in [Slots -> Int] : Fits(p)

(* The deadline.  What the edits that have queued their one-shot have still *)
(* to move the chain by, and how far each task of it, and each that an edit *)
(* has found, is from the deadline.                                         *)
PromiseOf(d) == IF d.kind = "once" /\ d.landed = 0 THEN d.by ELSE 0
RaiseOf(e)   == IF e.at = "find" THEN e.delta ELSE 0
GivenOf(d)   == IF d.kind = "chain" THEN d.landed ELSE 0
Raising      == SumFunctionOnSet([k \in Edits |-> RaiseOf(editing[k])], Edits)

Level(t, aim, raising) ==
  extend[t].kind = "chain" => extend[t].due + extend[t].landed + raising + Buffer <= aim
Found(k, t, aim, raising) ==
  editing[k].due[t] > 0 => editing[k].due[t] + GivenOf(extend[t]) + raising + Buffer <= aim
Levels(aim, raising) ==
  /\ \A t \in Slots : Level(t, aim, raising)
  /\ \A k \in Edits, t \in Slots : Found(k, t, aim, raising)

Locked == alive /\ lost = "no" /\ ~drift => Levels(granted + Promised + lag, Raising)
Typed == ExtendTypeOK /\ Shape /\ Counted

-----------------------------------------------------------------------------
(* How the steps write the tasks.                                           *)

LEMMA Constants ==
  /\ Timeouts \subseteq Nat /\ Buffer \in Nat /\ \A n \in Timeouts : n \in Nat /\ n > Buffer
  /\ MaxTasks \in Nat \ {0} /\ MaxEdits \in Nat /\ MaxTime \in Nat /\ MaxFaults \in Nat
  /\ Slots \subseteq Nat \ {0} /\ Edits \subseteq Nat
BY ExtendAssumption DEF Slots, Edits

LEMMA TypedDocs ==
  ASSUME ExtendTypeOK
  PROVE  /\ extend \in [Slots -> TaskDoc] /\ editing \in [Edits -> EditDoc]
         /\ \A t \in Slots : extend[t] \in TaskDoc
         /\ \A k \in Edits : editing[k] \in EditDoc /\ \A t \in Slots : editing[k].due[t] \in Nat
<1>1. extend \in [Slots -> TaskDoc]
  BY DEF ExtendTypeOK, TaskDoc
<1>2. editing \in [Edits -> EditDoc]
  BY DEF ExtendTypeOK, EditDoc
<1>3. \A k \in Edits : editing[k].due \in [Slots -> Nat]
  BY <1>2 DEF EditDoc
<1> QED
  BY <1>1, <1>2, <1>3

(* A new task.                                                              *)
LEMMA NewDocs ==
  /\ NoTask \in TaskDoc /\ NoTask.kind = "none" /\ ~NoTask.recorded /\ ~NoTask.claimed
  /\ \A d \in Nat : LET c == ChainTask(d)
                     IN /\ c \in TaskDoc /\ c # NoTask /\ c.kind = "chain" /\ c.due = d /\ c.by = 0
                        /\ c.landed = 0 /\ ~c.recorded /\ ~c.claimed
  /\ \A n \in Nat, d \in Nat :
       LET o == OneShot(n, d)
       IN /\ o \in TaskDoc /\ o # NoTask /\ o.kind = "once" /\ o.due = d /\ o.by = n
          /\ o.landed = 0 /\ ~o.recorded /\ ~o.claimed
<1>1. /\ NoTask \in TaskDoc /\ NoTask.kind = "none" /\ NoTask.by = 0 /\ NoTask.landed = 0
      /\ ~NoTask.recorded /\ ~NoTask.claimed
  BY DEF NoTask, TaskDoc
<1>2. ASSUME NEW d \in Nat
      PROVE  /\ ChainTask(d) \in TaskDoc /\ ChainTask(d).kind = "chain" /\ ChainTask(d).due = d
             /\ ChainTask(d).by = 0 /\ ChainTask(d).landed = 0 /\ ~ChainTask(d).recorded /\ ~ChainTask(d).claimed
  BY <1>1 DEF ChainTask, TaskDoc
<1>3. ASSUME NEW n \in Nat, NEW d \in Nat
      PROVE  /\ OneShot(n, d) \in TaskDoc /\ OneShot(n, d).kind = "once" /\ OneShot(n, d).due = d
             /\ OneShot(n, d).by = n /\ OneShot(n, d).landed = 0
             /\ ~OneShot(n, d).recorded /\ ~OneShot(n, d).claimed
  BY <1>1 DEF OneShot, TaskDoc
<1>4. ASSUME NEW d \in Nat PROVE ChainTask(d) # NoTask /\ \A n \in Nat : OneShot(n, d) # NoTask
  BY <1>1, <1>2, <1>3
<1> QED
  BY <1>1, <1>2, <1>3, <1>4

(* A set of naturals has a least element, which is the minimum.             *)
LEMMA MinIn ==
  ASSUME NEW S \in SUBSET Nat, S # {}
  PROVE  Min(S) \in S /\ \A x \in S : Min(S) <= x
<1>1. \E n \in S : \A m \in S : n <= m
  BY LeastNatural
<1> QED
  BY <1>1 DEF Min

Writes(x, r) == /\ extend' = [extend EXCEPT ![x] = r] /\ extend'[x] = r
                /\ \A t \in Slots \ {x} : extend'[t] = extend[t]

LEMMA InsertFacts ==
  ASSUME ExtendTypeOK, NEW new \in TaskDoc, Insert(new)
  PROVE  \E x \in Slots : /\ extend[x] = NoTask /\ Writes(x, new)
                          /\ \A k \in Edits : editing[k].due[x] = 0
<1>1. Room # {} /\ Room \subseteq Slots /\ extend' = [extend EXCEPT ![Min(Room)] = new]
  BY DEF Insert, Room
<1>2. Room \in SUBSET Nat
  BY <1>1, Constants
<1>3. Min(Room) \in Room
  BY <1>1, <1>2, MinIn
<1>4. Min(Room) \in Slots /\ extend[Min(Room)] = NoTask /\ \A k \in Edits : editing[k].due[Min(Room)] = 0
  BY <1>3 DEF Room
<1>5. Writes(Min(Room), new)
  BY <1>1, <1>4, TypedDocs DEF Writes
<1> QED
  BY <1>4, <1>5

(* The chain is given a task only when none of it waits.                    *)
LEMMA InsertOnceFacts ==
  ASSUME ExtendTypeOK, NEW d \in Nat, InsertOnce(ChainTask(d))
  PROVE  \/ /\ UNCHANGED extend
            /\ \E t \in Slots : extend[t].kind = "chain" /\ ~extend[t].claimed
         \/ /\ extend' # extend
            /\ \A t \in Slots : extend[t].kind = "chain" => extend[t].claimed
            /\ \E x \in Slots : /\ extend[x] = NoTask /\ Writes(x, ChainTask(d))
                                /\ \A k \in Edits : editing[k].due[x] = 0
<1>1. CASE AnyQueued
  BY <1>1 DEF InsertOnce, AnyQueued, Chained, Stored
<1>2. CASE ~AnyQueued
  <2>1. PICK x \in Slots : /\ extend[x] = NoTask /\ Writes(x, ChainTask(d))
                           /\ \A k \in Edits : editing[k].due[x] = 0
    BY <1>2, NewDocs, InsertFacts DEF InsertOnce
  <2>2. extend' # extend
    BY <2>1, NewDocs DEF Writes
  <2>3. \A t \in Slots : extend[t].kind = "chain" => extend[t].claimed
    BY <1>2 DEF AnyQueued, Chained, Stored, NoTask
  <2> QED
    BY <2>1, <2>2, <2>3
<1> QED
  BY <1>1, <1>2

(* A task that is written differs in what is said of it.                    *)
LEMMA WritesOne ==
  ASSUME ExtendTypeOK, NEW x \in Slots, NEW r \in TaskDoc, extend' = [extend EXCEPT ![x] = r]
  PROVE  Writes(x, r) /\ extend' \in [Slots -> TaskDoc]
BY TypedDocs DEF Writes

LEMMA RunFacts ==
  ASSUME Typed, stage # "idle"
  PROVE  current \in Slots /\ extend[current] \in TaskDoc /\ extend[current].kind # "none" /\ extend[current].claimed
BY TypedDocs DEF Typed, ExtendTypeOK, Shape

LEMMA GoneFacts ==
  ASSUME Typed, NEW x \in Slots, Gone(x)
  PROVE  Writes(x, NoTask) /\ extend' \in [Slots -> TaskDoc]
BY NewDocs, WritesOne DEF Typed, Gone

LEMMA PutBackFacts ==
  ASSUME Typed, stage # "idle", NEW n \in Nat, PutBack(n)
  PROVE  \E r \in TaskDoc :
           /\ Writes(current, r) /\ extend' \in [Slots -> TaskDoc]
           /\ r.kind = extend[current].kind /\ r.due = now + 1 /\ r.by = extend[current].by
           /\ r.landed = n /\ r.recorded = extend[current].recorded /\ ~r.claimed
           /\ current' = 0 /\ stage' = "idle"
           /\ lag' = IF r.kind = "chain" THEN lag + Late(now + 1, extend[current].due) ELSE lag
<1> DEFINE old == extend[current]
           d == now + 1
           r == [old EXCEPT !.claimed = FALSE, !.due = d, !.landed = n]
<1>1. current \in Slots /\ old \in TaskDoc /\ d \in Nat
  BY RunFacts, Constants DEF Typed, ExtendTypeOK
<1> HIDE DEF d
<1>2. r \in TaskDoc /\ r.kind = old.kind /\ r.due = d /\ r.by = old.by
      /\ r.landed = n /\ r.recorded = old.recorded /\ ~r.claimed
  BY <1>1 DEF TaskDoc
<1>3. extend' = [extend EXCEPT ![current] = r]
  BY <1>1, TypedDocs DEF Typed, PutBack, TaskDoc, d
<1>4. /\ current' = 0 /\ stage' = "idle"
      /\ lag' = IF old.kind = "chain" THEN lag + Late(now + 1, old.due) ELSE lag
  BY DEF PutBack, LeaveRun
<1> HIDE DEF r
<1>5. Writes(current, r) /\ extend' \in [Slots -> TaskDoc]
  BY <1>1, <1>2, <1>3, WritesOne DEF Typed
<1> QED
  BY <1>2, <1>4, <1>5 DEF d

(* What was found landed stays, or is signed again from nothing.            *)
LEMMA ClaimFacts ==
  ASSUME Typed, NEW t \in Slots, Claim(t)
  PROVE  \E r \in TaskDoc :
           /\ Writes(t, r) /\ extend' \in [Slots -> TaskDoc] /\ current' = t
           /\ r.kind = extend[t].kind /\ r.due = extend[t].due
           /\ r.recorded = extend[t].recorded /\ r.claimed /\ extend[t].kind # "none"
           /\ r.by = IF extend[t].kind = "chain" THEN timeout ELSE extend[t].by
           /\ stage' \in {"sign", "answered", "done"} /\ (stage' = "done" <=> r.recorded)
           /\ stage' = "answered" => r.landed > 0
           /\ \/ r.landed = extend[t].landed /\ resigned' = resigned
              \/ /\ r.landed = 0 /\ extend[t].landed > 0 /\ ~extend[t].recorded
                 /\ resigned' = resigned + 1
<1> DEFINE old == extend[t]
           n == IF old.kind = "chain" THEN timeout ELSE old.by
           again == NeverAsked(t) /\ stage' = "sign"
           m == IF again THEN 0 ELSE old.landed
           r == [old EXCEPT !.claimed = TRUE, !.tried = TRUE, !.by = n, !.landed = m]
<1>1. old \in TaskDoc /\ timeout \in Nat
  BY TypedDocs, Constants DEF Typed, ExtendTypeOK
<1>2. n \in Nat /\ m \in Nat
  BY <1>1 DEF TaskDoc
<1>3. r \in TaskDoc /\ r.kind = old.kind /\ r.due = old.due /\ r.landed = m
      /\ r.recorded = old.recorded /\ r.claimed /\ r.by = n
  <2> HIDE DEF n, m
  <2> QED
    BY <1>1, <1>2 DEF TaskDoc
<1>4. extend' = [extend EXCEPT ![t] = r]
  BY <1>1, TypedDocs DEF Typed, Claim
<1>5. old.kind # "none" /\ current' = t /\ stage' \in Resume(t)
  BY DEF Claim, ComesFirst, Due, Stored, Typed, Shape, WellShaped
<1>7. \/ m = old.landed /\ resigned' = resigned
      \/ m = 0 /\ old.landed > 0 /\ ~old.recorded /\ resigned' = resigned + 1
  <2>1. resigned' = IF again THEN resigned + 1 ELSE resigned
    BY DEF Claim
  <2>2. CASE again
    BY <2>1, <2>2 DEF NeverAsked
  <2>3. CASE ~again
    BY <2>1, <2>3
  <2> QED
    BY <2>2, <2>3
<1>8. /\ stage' \in {"sign", "answered", "done"} /\ (stage' = "done" <=> old.recorded)
      /\ stage' = "answered" => m > 0
  BY <1>1, <1>5 DEF Resume, NeverAsked, TaskDoc
<1> HIDE DEF r, m, n
<1>6. Writes(t, r) /\ extend' \in [Slots -> TaskDoc]
  BY <1>3, <1>4, WritesOne DEF Typed
<1>9. \/ r.landed = old.landed /\ resigned' = resigned
      \/ r.landed = 0 /\ old.landed > 0 /\ ~old.recorded /\ resigned' = resigned + 1
  BY <1>3, <1>7
<1>10. /\ stage' \in {"sign", "answered", "done"} /\ (stage' = "done" <=> r.recorded)
       /\ stage' = "answered" => r.landed > 0
  BY <1>3, <1>8
<1>11. r.by = IF extend[t].kind = "chain" THEN timeout ELSE extend[t].by
  BY <1>3 DEF n
<1> QED
  BY <1>3, <1>5, <1>6, <1>9, <1>10, <1>11

LEMMA LandedFacts ==
  ASSUME Typed, stage # "idle", NEW n \in Nat, extend' = [extend EXCEPT ![current].landed = n]
  PROVE  \E r \in TaskDoc :
           /\ Writes(current, r) /\ extend' \in [Slots -> TaskDoc]
           /\ r.kind = extend[current].kind /\ r.due = extend[current].due /\ r.by = extend[current].by
           /\ r.landed = n /\ r.recorded = extend[current].recorded /\ r.claimed
<1> DEFINE old == extend[current]
           r == [old EXCEPT !.landed = n]
<1>1. current \in Slots /\ old \in TaskDoc /\ old.claimed
  BY RunFacts
<1>2. r \in TaskDoc /\ r.kind = old.kind /\ r.due = old.due /\ r.by = old.by
      /\ r.landed = n /\ r.recorded = old.recorded /\ r.claimed
  BY <1>1 DEF TaskDoc
<1>3. extend' = [extend EXCEPT ![current] = r]
  BY <1>1, TypedDocs DEF Typed
<1> HIDE DEF r
<1>4. Writes(current, r) /\ extend' \in [Slots -> TaskDoc]
  BY <1>1, <1>2, <1>3, WritesOne DEF Typed
<1> QED
  BY <1>2, <1>4

LEMMA RecordFacts ==
  ASSUME Typed, RecordUnit
  PROVE  \E r \in TaskDoc :
           /\ Writes(current, r) /\ extend' \in [Slots -> TaskDoc]
           /\ r.kind = extend[current].kind /\ r.due = extend[current].due /\ r.by = extend[current].by
           /\ r.landed = extend[current].landed /\ r.recorded /\ r.claimed
<1> DEFINE old == extend[current]
           r == [old EXCEPT !.recorded = TRUE]
<1>1. current \in Slots /\ old \in TaskDoc /\ old.claimed
  BY RunFacts DEF RecordUnit
<1>2. r \in TaskDoc /\ r.kind = old.kind /\ r.due = old.due /\ r.by = old.by
      /\ r.landed = old.landed /\ r.recorded /\ r.claimed
  BY <1>1 DEF TaskDoc
<1>3. extend' = [extend EXCEPT ![current] = r]
  BY <1>1, TypedDocs DEF Typed, RecordUnit
<1> HIDE DEF r
<1>4. Writes(current, r) /\ extend' \in [Slots -> TaskDoc]
  BY <1>1, <1>2, <1>3, WritesOne DEF Typed
<1> QED
  BY <1>2, <1>4

(* An edit that moves what it found: only due times change.                 *)
LEMMA PushFacts ==
  ASSUME Typed, NEW k \in Edits, PushFollowUps(k)
  PROVE  /\ extend' \in [Slots -> TaskDoc]
         /\ \A t \in Slots :
              /\ extend'[t].kind = extend[t].kind /\ extend'[t].by = extend[t].by
              /\ extend'[t].landed = extend[t].landed /\ extend'[t].recorded = extend[t].recorded
              /\ extend'[t].claimed = extend[t].claimed
              /\ extend[t] = NoTask => extend'[t] = NoTask
              /\ extend'[t].due \in {extend[t].due, editing[k].due[t]}
              /\ extend'[t].due # extend[t].due => editing[k].due[t] > 0
<1> DEFINE d(t) == IF t \in Stored THEN Pushed(t, k) ELSE extend[t].due
           r(t) == [extend[t] EXCEPT !.due = d(t)]
<1>1. \A t \in Slots : extend[t] \in TaskDoc /\ editing[k].due[t] \in Nat
  BY TypedDocs DEF Typed
<1>2. ASSUME NEW t \in Slots
      PROVE  /\ d(t) \in Nat /\ d(t) \in {extend[t].due, editing[k].due[t]}
             /\ d(t) # extend[t].due => editing[k].due[t] > 0
             /\ extend[t] = NoTask => d(t) = extend[t].due
  BY <1>1 DEF TaskDoc, Pushed, Stored
<1>3. extend' = [t \in Slots |-> r(t)]
  BY DEF PushFollowUps
<1> HIDE DEF d
<1>4. ASSUME NEW t \in Slots
      PROVE  /\ r(t) \in TaskDoc /\ r(t).kind = extend[t].kind /\ r(t).by = extend[t].by
             /\ r(t).landed = extend[t].landed /\ r(t).recorded = extend[t].recorded
             /\ r(t).claimed = extend[t].claimed /\ r(t).due = d(t)
             /\ extend[t] = NoTask => r(t) = NoTask
  BY <1>1, <1>2 DEF TaskDoc, NoTask
<1> HIDE DEF r
<1> QED
  BY <1>2, <1>3, <1>4

-----------------------------------------------------------------------------
(* Types.                                                                   *)

LEMMA InitTyped == ExtendInit => Typed
<1> SUFFICES ASSUME ExtendInit PROVE Typed
  OBVIOUS
<1>1. \A t \in Slots : extend[t] = NoTask
  BY DEF ExtendInit
<1>2. editing = [k \in Edits |-> Idle] /\ Idle \in EditDoc
  BY DEF ExtendInit, Idle, EditDoc
<1>3. extend = [t \in Slots |-> NoTask]
  BY DEF ExtendInit
<1>4. ExtendTypeOK
  <2>1. NoTask \in TaskDoc
    BY NewDocs
  <2>2. extend \in [Slots -> TaskDoc] /\ editing \in [Edits -> EditDoc]
    BY <1>2, <1>3, <2>1
  <2>3. timeout \in Timeouts /\ timeout \in Nat /\ granted = timeout
    BY Constants DEF ExtendInit
  <2>4. /\ extend \in [Slots -> [kind : {"none", "chain", "once"}, due : Nat, by : Nat, landed : Nat,
                               recorded : BOOLEAN, claimed : BOOLEAN, tried : BOOLEAN]]
        /\ editing \in [Edits -> [at : {"idle", "insert", "find", "push"}, delta : Nat, due : [Slots -> Nat]]]
    BY <2>2 DEF TaskDoc, EditDoc
  <2>5. alive \in BOOLEAN /\ drift \in BOOLEAN
    BY Zenon DEF ExtendInit
  <2>6. /\ now = 0 /\ starts = 0 /\ changes = 0 /\ edits = 0 /\ faults = 0 /\ repeats = 0 /\ lag = 0
        /\ path \in {"keys", "api"} /\ status = "RUNNING" /\ row = "QUEUED" /\ current = 0 /\ stage = "idle"
        /\ lost = "no" /\ resigned = 0
    BY DEF ExtendInit
  <2> QED
    BY <2>3, <2>4, <2>5, <2>6, Constants DEF ExtendTypeOK, Running
<1>5. Shape
  BY <1>1, <1>2, NewDocs DEF ExtendInit, Shape, WellShaped, Idle
<1> QED
  BY <1>4, <1>5 DEF ExtendInit, Typed, Counted

(* The tasks, and the run.                                                  *)
TasksTyped == extend \in [Slots -> TaskDoc] /\ current \in {0} \cup Slots
              /\ stage \in {"idle", "sign", "answered", "half", "done"}

LEMMA TasksStep == Typed /\ [ExtendNext]_extendVars => TasksTyped'
<1> SUFFICES ASSUME Typed, [ExtendNext]_extendVars PROVE TasksTyped'
  OBVIOUS
<1> USE DEF TasksTyped
<1>0. ExtendTypeOK /\ extend \in [Slots -> TaskDoc] /\ TasksTyped
  BY TypedDocs DEF Typed, ExtendTypeOK
<1>1. CASE Begin \/ Tick \/ End \/ Fail \/ Restart \/ Stop \/ WriteAgain \/ EditTimeout
  BY <1>0, <1>1 DEF Begin, Tick, End, Fail, Restart, Stop, WriteAgain, EditTimeout, queue
<1>2. CASE Settle
  BY <1>0, <1>2, NewDocs DEF Settle
<1>3. CASE Started
  <2>1. NextExtendTime(timeout, Buffer) \in Nat
    BY <1>0, Constants DEF ExtendTypeOK, NextExtendTime
  <2>2. \/ UNCHANGED extend
        \/ \E x \in Slots : Writes(x, ChainTask(NextExtendTime(timeout, Buffer)))
    BY <1>0, <1>3, <2>1, InsertOnceFacts DEF Started
  <2>3. extend' \in [Slots -> TaskDoc]
    BY <1>0, <2>1, <2>2, NewDocs, WritesOne DEF Writes
  <2> QED
    BY <1>0, <1>3, <2>3 DEF Started
<1>4. ASSUME NEW k \in Edits, ReadChain(k) \/ FindFollowUps(k) PROVE TasksTyped'
  BY <1>0, <1>4 DEF ReadChain, FindFollowUps, queue
<1>5. ASSUME NEW k \in Edits, InsertOneShot(k) PROVE TasksTyped'
  <2>1. editing[k].delta \in Nat /\ now \in Nat
    BY <1>0, TypedDocs, Constants DEF EditDoc, ExtendTypeOK
  <2>2. OneShot(editing[k].delta, now) \in TaskDoc
    BY <2>1, NewDocs
  <2>3. PICK x \in Slots : Writes(x, OneShot(editing[k].delta, now))
    BY <1>0, <1>5, <2>2, InsertFacts DEF InsertOneShot
  <2> QED
    BY <1>0, <1>5, <2>2, <2>3, WritesOne DEF InsertOneShot, Writes
<1>6. ASSUME NEW k \in Edits, PushFollowUps(k) PROVE TasksTyped'
  BY <1>0, <1>6, PushFacts DEF PushFollowUps
<1>7. ASSUME NEW t \in Slots, Claim(t) PROVE TasksTyped'
  BY <1>7, ClaimFacts
<1>8. ASSUME NEW t \in Slots, Unwanted(t) \/ Abandon(t) PROVE TasksTyped'
  BY <1>0, <1>8, GoneFacts DEF Unwanted, Abandon
<1>9. CASE NotWanted \/ Expires \/ Finish
  BY <1>0, <1>9, GoneFacts, RunFacts DEF NotWanted, Expires, Finish, LeaveRun
<1>10. ASSUME NEW n \in Nat, PutBack(n), stage = "sign" PROVE TasksTyped'
  BY <1>10, PutBackFacts
<1>11. /\ stage = "sign" => Amount \in Nat /\ extend[current].landed \in Nat
       /\ stage # "idle" => Amount \in Nat
  BY RunFacts DEF Amount, TaskDoc
<1>12. CASE Lands
  <2>1. CASE extend' = [extend EXCEPT ![current].landed = Amount] /\ stage' = "answered" /\ UNCHANGED current
    BY <1>0, <1>11, <1>12, <2>1, LandedFacts DEF Lands
  <2> QED
    BY <1>10, <1>11, <1>12, <2>1 DEF Lands
<1>13. CASE CannotLand
  <2>1. CASE Gone(current) /\ LeaveRun
    BY <1>0, <1>13, <2>1, GoneFacts, RunFacts DEF CannotLand, LeaveRun
  <2> QED
    BY <1>10, <1>11, <1>13, <2>1 DEF CannotLand
<1>14. CASE Errs
  BY <1>10, <1>11, <1>14 DEF Errs
<1>15. CASE Confirm
  <2>1. NextExtendTime(Amount, 0) \in Nat /\ stage # "idle"
    BY <1>0, <1>11, <1>15, Constants DEF ExtendTypeOK, NextExtendTime, Confirm
  <2>2. \/ UNCHANGED extend
        \/ \E x \in Slots : Writes(x, ChainTask(NextExtendTime(Amount, 0)))
    BY <1>0, <1>15, <2>1, InsertOnceFacts DEF Confirm
  <2>3. extend' \in [Slots -> TaskDoc]
    BY <1>0, <2>1, <2>2, NewDocs, WritesOne DEF Writes
  <2> QED
    BY <1>0, <1>15, <2>3 DEF Confirm
<1>16. CASE RecordUnit
  BY <1>0, <1>16, RecordFacts DEF RecordUnit
<1>17. CASE CrashRun
  BY <1>0, <1>17 DEF CrashRun, LeaveRun
<1>18. CASE UNCHANGED extendVars
  BY <1>0, <1>18 DEF extendVars, queue
<1> QED
  BY <1>1, <1>2, <1>3, <1>4, <1>5, <1>6, <1>7, <1>8, <1>9, <1>12, <1>13, <1>14, <1>15, <1>16, <1>17, <1>18
     DEF ExtendNext, Listener, Run

(* The edits.                                                               *)
LEMMA EditsStep == Typed /\ [ExtendNext]_extendVars => editing' \in [Edits -> EditDoc] /\ edits' \in 0..MaxEdits
<1> SUFFICES ASSUME Typed, [ExtendNext]_extendVars
             PROVE  editing' \in [Edits -> EditDoc] /\ edits' \in 0..MaxEdits
  OBVIOUS
<1>0. /\ extend \in [Slots -> TaskDoc] /\ editing \in [Edits -> EditDoc] /\ Idle \in EditDoc
      /\ timeout \in Nat /\ granted \in Nat /\ edits \in 0..MaxEdits /\ MaxEdits \in Nat
  BY TypedDocs, Constants DEF Typed, ExtendTypeOK, Idle, EditDoc
<1>1. ASSUME NEW k \in Edits, ReadChain(k) PROVE editing' \in [Edits -> EditDoc]
  <2>1. CASE timeout > granted
    <3> DEFINE d == timeout - granted
               e == [Idle EXCEPT !.at = "insert", !.delta = d]
    <3>1. d \in Nat
      BY <1>0, <2>1
    <3>2. e \in EditDoc
      <4> HIDE DEF d
      <4> QED
        BY <1>0, <3>1 DEF EditDoc
    <3>3. editing' \in {editing, [editing EXCEPT ![k] = e]}
      BY <1>1 DEF ReadChain
    <3> HIDE DEF e
    <3> QED
      BY <1>0, <3>2, <3>3
  <2> QED
    BY <1>0, <1>1, <2>1 DEF ReadChain
<1>2. ASSUME NEW k \in Edits, InsertOneShot(k) PROVE editing' \in [Edits -> EditDoc]
  BY <1>0, <1>2 DEF InsertOneShot, EditDoc
<1>3. ASSUME NEW k \in Edits, FindFollowUps(k) PROVE editing' \in [Edits -> EditDoc]
  <2> DEFINE due == [t \in Slots |-> IF Follows(t) THEN extend[t].due + editing[k].delta ELSE 0]
             e == [editing[k] EXCEPT !.at = "push", !.due = due]
  <2>1. editing[k] \in EditDoc /\ editing[k].delta \in Nat /\ \A t \in Slots : extend[t].due \in Nat
    BY <1>0 DEF EditDoc, TaskDoc
  <2>2. due \in [Slots -> Nat]
    BY <2>1
  <2>3. editing' = [editing EXCEPT ![k] = e]
    BY <1>0, <1>3 DEF FindFollowUps
  <2>4. e \in EditDoc
    <3> HIDE DEF due
    <3> QED
      BY <2>1, <2>2 DEF EditDoc
  <2> HIDE DEF e
  <2> QED
    BY <1>0, <2>3, <2>4
<1>4. ASSUME NEW k \in Edits, PushFollowUps(k) PROVE editing' \in [Edits -> EditDoc]
  BY <1>0, <1>4 DEF PushFollowUps
<1>5. ASSUME UNCHANGED editing PROVE editing' \in [Edits -> EditDoc]
  BY <1>0, <1>5
<1>6. editing' = editing \/ \E k \in Edits : ReadChain(k) \/ InsertOneShot(k) \/ FindFollowUps(k) \/ PushFollowUps(k)
  BY DEF ExtendNext, extendVars, events, Begin, Tick, End, Settle, Fail, Restart, Stop, Started, WriteAgain, EditTimeout,
         Claim, Unwanted, Abandon, Listener, Run, NotWanted, Lands, CannotLand, Errs, Expires, Confirm,
         RecordUnit, Finish, CrashRun
<1>7. edits' \in 0..MaxEdits
  <2>1. edits' = edits \/ (edits < MaxEdits /\ edits' = edits + 1)
    BY DEF ExtendNext, extendVars, counts, Begin, Tick, End, Settle, Fail, Restart, Stop, Started, WriteAgain, EditTimeout,
           Claim, Unwanted, Abandon, Listener, ReadChain, InsertOneShot, FindFollowUps, PushFollowUps,
           Run, NotWanted, Lands, CannotLand, Errs, Expires, Confirm, RecordUnit, Finish, CrashRun
  <2> QED
    BY <1>0, <2>1
<1> QED
  BY <1>1, <1>2, <1>3, <1>4, <1>5, <1>6, <1>7

(* The job, the deployment and the counters.                                *)
RestTyped ==
  /\ now \in 0..MaxTime /\ path \in {"keys", "api"} /\ status \in Running \cup {"ERROR", "STOPPING"}
  /\ timeout \in Timeouts /\ alive \in BOOLEAN /\ granted \in Nat /\ row \in {"QUEUED", "RUNNING", "SETTLED"}
  /\ starts \in 0..1 + MaxFaults /\ changes \in 0..MaxEdits /\ faults \in 0..MaxFaults /\ repeats \in 0..faults
  /\ lag \in Nat /\ drift \in BOOLEAN /\ lost \in {"no", "unwanted", "crash", "expired", "abandoned"}
  /\ Counted

LEMMA RestStep == Typed /\ [ExtendNext]_extendVars => RestTyped'
<1> SUFFICES ASSUME Typed, [ExtendNext]_extendVars PROVE RestTyped'
  OBVIOUS
<1>0. RestTyped /\ edits \in 0..MaxEdits /\ extend \in [Slots -> TaskDoc]
  BY TypedDocs DEF Typed, ExtendTypeOK, RestTyped
<1> USE DEF RestTyped, Counted
<1>1. CASE Begin
  BY <1>0, <1>1, Constants DEF Begin, doc, queue, counts, hist
<1>2. CASE Tick
  BY <1>0, <1>2, Constants DEF Tick, doc, job, events, queue, counts, hist
<1>3. CASE End
  BY <1>0, <1>3, Constants DEF End, doc, events, queue, counts, hist
<1>18. CASE Settle
  BY <1>0, <1>18, Constants DEF Settle, doc, events, queue, counts, hist, Active
<1>4. CASE Fail
  BY <1>0, <1>4, Constants DEF Fail, Faulty, job, events, queue, hist, Running
<1>5. CASE Restart \/ Stop
  BY <1>0, <1>5, Constants DEF Restart, Stop, job, events, queue, counts, hist, Running
<1>6. CASE WriteAgain
  BY <1>0, <1>6, Constants DEF WriteAgain, Faulty, doc, job, queue, hist
<1>7. CASE EditTimeout
  BY <1>0, <1>7, Constants DEF EditTimeout, job, queue, hist
<1>8. CASE Started
  <2>1. drift' \in BOOLEAN
    BY <1>0, <1>8, Zenon DEF Started
  <2>2. now \in Nat /\ lag \in Nat /\ lag' \in {lag, lag + now}
    BY <1>0, <1>8, Constants DEF Started
  <2>3. lag' \in Nat
    BY <2>2
  <2> QED
    BY <1>0, <1>8, <2>1, <2>3, Constants DEF Started, doc, job, queue, counts
<1>9. ASSUME NEW k \in Edits, ReadChain(k) \/ InsertOneShot(k) \/ FindFollowUps(k) \/ PushFollowUps(k)
      PROVE  RestTyped'
  BY <1>0, <1>9, Constants DEF ReadChain, InsertOneShot, FindFollowUps, PushFollowUps, doc, job, queue, counts, hist
<1>10. ASSUME NEW t \in Slots, Claim(t) \/ Unwanted(t) \/ Abandon(t) PROVE RestTyped'
  BY <1>0, <1>10, Constants
     DEF Claim, Unwanted, Abandon, doc, job, events, counts, hist, GivenUp, Faulty, Running
<1>11. CASE NotWanted \/ Expires \/ Finish
  BY <1>0, <1>11, Constants
     DEF NotWanted, Expires, Finish, doc, job, events, counts, hist, GivenUp, Faulty, Running
<1>12. ASSUME NEW n \in Nat, PutBack(n), stage = "sign" PROVE lag' \in Nat
  <2>1. now + 1 \in Nat /\ extend[current].due \in Nat /\ lag \in Nat
    BY <1>0, <1>12, RunFacts, Constants DEF TaskDoc
  <2>2. Late(now + 1, extend[current].due) \in Nat
    BY <2>1 DEF Late
  <2> QED
    BY <1>12, <2>1, <2>2 DEF PutBack
<1>13. /\ stage = "sign" => extend[current].landed \in Nat
       /\ stage # "idle" => Amount \in Nat /\ extend[current].due \in Nat
  BY RunFacts DEF Amount, TaskDoc
<1>14. CASE Lands
  <2>1. lag' \in Nat
    BY <1>0, <1>12, <1>13, <1>14 DEF Lands
  <2>2. granted' \in Nat
    BY <1>0, <1>13, <1>14 DEF Lands
  <2>3. faults' \in 0..MaxFaults /\ faults <= faults'
    BY <1>0, <1>14, Constants DEF Lands, Faulty
  <2> QED
    BY <1>0, <1>14, <2>1, <2>2, <2>3, Constants DEF Lands, doc, events
<1>15. CASE CannotLand
  <2>1. lag' \in Nat
    BY <1>0, <1>12, <1>13, <1>15 DEF CannotLand
  <2> QED
    BY <1>0, <1>15, <2>1 DEF CannotLand, doc, job, events, counts
<1>16. CASE Errs
  <2>1. lag' \in Nat
    BY <1>0, <1>12, <1>13, <1>16 DEF Errs
  <2> QED
    BY <1>0, <1>16, <2>1, Constants DEF Errs, job, events, Faulty, Running
<1>17. CASE Confirm
  <2>1. drift' \in BOOLEAN
    BY <1>0, <1>17, Zenon DEF Confirm
  <2>2. stage # "idle" /\ now \in Nat /\ lag \in Nat
    BY <1>0, <1>17, Constants DEF Confirm
  <2>3. Late(now, extend[current].due) \in Nat
    BY <1>13, <2>2 DEF Late
  <2>4. lag' \in {lag, lag + Late(now, extend[current].due)}
    BY <1>17 DEF Confirm
  <2>5. lag' \in Nat
    BY <2>2, <2>3, <2>4
  <2> QED
    BY <1>0, <1>17, <2>1, <2>5 DEF Confirm, doc, job, events, counts
<1>19. CASE RecordUnit
  BY <1>0, <1>19 DEF RecordUnit, doc, job, events, counts, hist
<1>20. CASE CrashRun
  BY <1>0, <1>20, Constants DEF CrashRun, doc, job, events, GivenUp, Faulty
<1>21. CASE UNCHANGED extendVars
  BY <1>0, <1>21 DEF extendVars, doc, job, events, counts, hist
<1> QED
  BY <1>1, <1>2, <1>3, <1>4, <1>5, <1>6, <1>7, <1>8, <1>9, <1>10, <1>11, <1>14, <1>15, <1>16, <1>17, <1>18,
     <1>19, <1>20, <1>21 DEF ExtendNext, Listener, Run

(* The shape.                                                               *)
LEMMA NewShapes ==
  /\ WellShaped(NoTask)
  /\ \A d \in Nat : WellShaped(ChainTask(d))
  /\ \A n \in Nat \ {0}, d \in Nat : WellShaped(OneShot(n, d))
BY NewDocs DEF WellShaped

(* A task that nobody runs is written.                                      *)
LEMMA ShapeWrites ==
  ASSUME Shape, NEW x \in Slots, NEW r, WellShaped(r), Writes(x, r), x # current,
         current \in {0} \cup Slots, UNCHANGED <<current, stage, path>>,
         \A k \in Edits : editing'[k].at = "insert" => editing[k] = editing'[k]
  PROVE  Shape'
<1>1. \A t \in Slots : WellShaped(extend'[t])
  BY DEF Shape, Writes
<1>2. current # 0 => extend'[current] = extend[current]
  BY DEF Writes
<1> QED
  BY <1>1, <1>2 DEF Shape

(* The run ends: its task is written.                                       *)
LEMMA ShapeLeaves ==
  ASSUME Shape, NEW x \in Slots, NEW r, WellShaped(r), Writes(x, r), current' = 0, stage' = "idle",
         UNCHANGED editing
  PROVE  Shape'
BY DEF Shape, Writes

LEMMA ShapeStep == Typed /\ [ExtendNext]_extendVars => Shape'
<1> SUFFICES ASSUME Typed, [ExtendNext]_extendVars PROVE Shape'
  OBVIOUS
<1>0. /\ ExtendTypeOK /\ Shape /\ current \in {0} \cup Slots /\ now \in Nat
      /\ \A t \in Slots : extend[t] \in TaskDoc /\ WellShaped(extend[t])
      /\ \A t \in Slots : extend[t] = NoTask => t # current
  BY TypedDocs, Constants DEF Typed, ExtendTypeOK, Shape, NoTask
<1>1. CASE Begin \/ Tick \/ End \/ Fail \/ Restart \/ Stop \/ WriteAgain \/ EditTimeout
  <2>1. UNCHANGED <<extend, current, stage, path, editing>>
    BY <1>1 DEF Begin, Tick, End, Fail, Restart, Stop, WriteAgain, EditTimeout, queue, doc, events
  <2> QED
    BY <1>0, <2>1 DEF Shape
<1>2. CASE Settle
  <2>1. \A t \in Slots : extend'[t] = IF t = current THEN extend[t] ELSE NoTask
    BY <1>2 DEF Settle
  <2>2. \A t \in Slots : WellShaped(extend'[t])
    BY <1>0, <2>1, NewShapes
  <2>3. current # 0 => extend'[current] = extend[current]
    BY <1>0, <2>1
  <2> QED
    BY <1>0, <1>2, <2>2, <2>3 DEF Settle, Shape, events, doc
<1>3. CASE Started
  <2>1. NextExtendTime(timeout, Buffer) \in Nat
    BY <1>0, Constants DEF ExtendTypeOK, NextExtendTime
  <2>2. /\ \/ UNCHANGED extend
           \/ \E x \in Slots : extend[x] = NoTask /\ Writes(x, ChainTask(NextExtendTime(timeout, Buffer)))
        /\ UNCHANGED <<editing, current, stage, path>>
    BY <1>0, <1>3, <2>1, InsertOnceFacts DEF Started, doc
  <2>3. CASE UNCHANGED extend
    BY <1>0, <2>2, <2>3 DEF Shape
  <2>4. ASSUME NEW x \in Slots, extend[x] = NoTask, Writes(x, ChainTask(NextExtendTime(timeout, Buffer)))
        PROVE  Shape'
    <3>1. x # current
      BY <1>0, <2>4
    <3> QED
      BY <1>0, <2>1, <2>2, <2>4, <3>1, NewShapes, ShapeWrites
  <2> QED
    BY <2>2, <2>3, <2>4
<1>4. ASSUME NEW k \in Edits, ReadChain(k) PROVE Shape'
  <2>1. UNCHANGED <<extend, current, stage, path>>
    BY <1>4 DEF ReadChain, queue, doc
  <2>2. ASSUME NEW j \in Edits, editing'[j].at = "insert" PROVE editing'[j].delta > 0
    <3>1. editing \in [Edits -> EditDoc] /\ timeout \in Nat /\ granted \in Nat
      BY TypedDocs, Constants, <1>0 DEF ExtendTypeOK
    <3>2. CASE j # k
      BY <1>0, <1>4, <2>2, <3>1, <3>2 DEF ReadChain, Shape
    <3>3. CASE j = k
      <4>1. CASE UNCHANGED editing
        BY <1>0, <2>2, <4>1 DEF Shape
      <4>2. CASE timeout > granted /\ editing' = [editing EXCEPT ![k] = [Idle EXCEPT !.at = "insert", !.delta = timeout - granted]]
        <5>1. editing'[k].delta = timeout - granted
          BY <3>1, <4>2 DEF Idle
        <5> QED
          BY <3>1, <3>3, <4>2, <5>1
      <4> QED
        BY <1>4, <4>1, <4>2 DEF ReadChain
    <3> QED
      BY <3>2, <3>3
  <2> QED
    BY <1>0, <2>1, <2>2 DEF Shape
<1>5. ASSUME NEW k \in Edits, InsertOneShot(k) PROVE Shape'
  <2>1. /\ editing[k].delta \in Nat \ {0} /\ editing \in [Edits -> EditDoc]
        /\ editing' = [editing EXCEPT ![k].at = "find"]
        /\ UNCHANGED <<current, stage, path>> /\ Insert(OneShot(editing[k].delta, now))
    BY <1>0, <1>5, TypedDocs DEF EditDoc, Shape, InsertOneShot, doc
  <2>2. PICK x \in Slots : extend[x] = NoTask /\ Writes(x, OneShot(editing[k].delta, now))
    BY <1>0, <2>1, NewDocs, InsertFacts
  <2>3. \A j \in Edits : editing'[j].at = "insert" => editing[j] = editing'[j]
    BY <2>1 DEF EditDoc
  <2>4. x # current
    BY <1>0, <2>2
  <2> QED
    BY <1>0, <2>1, <2>2, <2>3, <2>4, NewShapes, ShapeWrites
<1>6. ASSUME NEW k \in Edits, FindFollowUps(k) PROVE Shape'
  <2>1. editing \in [Edits -> EditDoc]
    BY TypedDocs, <1>0
  <2>2. \A j \in Edits : editing'[j].at = "insert" => editing[j] = editing'[j]
    <3>1. \A j \in Edits \ {k} : editing'[j] = editing[j]
      BY <1>6, <2>1 DEF FindFollowUps
    <3>2. editing'[k].at = "push"
      BY <1>6, <2>1 DEF FindFollowUps, EditDoc
    <3> QED
      BY <3>1, <3>2
  <2> QED
    BY <1>0, <1>6, <2>2 DEF FindFollowUps, Shape, queue, doc
<1>7. ASSUME NEW k \in Edits, PushFollowUps(k) PROVE Shape'
  <2>1. \A j \in Edits : editing'[j].at = "insert" => editing[j] = editing'[j]
    BY <1>7, TypedDocs, <1>0 DEF PushFollowUps, Idle
  <2>2. \A t \in Slots : WellShaped(extend'[t])
    BY <1>0, <1>7, PushFacts DEF WellShaped
  <2>3. current # 0 => /\ extend'[current].kind = extend[current].kind /\ extend'[current].claimed = extend[current].claimed
                       /\ extend'[current].recorded = extend[current].recorded
                       /\ extend'[current].landed = extend[current].landed
    BY <1>0, <1>7, PushFacts
  <2>4. UNCHANGED <<current, stage, path>>
    BY <1>7 DEF PushFollowUps, doc
  <2> QED
    BY <1>0, <2>1, <2>2, <2>3, <2>4 DEF Shape
<1>8. ASSUME NEW t \in Slots, Claim(t) PROVE Shape'
  <2>1. PICK r \in TaskDoc :
           /\ Writes(t, r) /\ current' = t
           /\ r.kind = extend[t].kind /\ (r.landed = extend[t].landed \/ (r.landed = 0 /\ ~extend[t].recorded))
           /\ r.recorded = extend[t].recorded /\ r.claimed /\ extend[t].kind # "none"
           /\ r.by = IF extend[t].kind = "chain" THEN timeout ELSE extend[t].by
           /\ stage' \in {"sign", "answered", "done"} /\ (stage' = "done" <=> r.recorded)
           /\ stage' = "answered" => r.landed > 0
    BY <1>8, ClaimFacts
  <2>2. timeout > 0 /\ UNCHANGED <<editing, path>> /\ t # 0
    BY <1>0, <1>8, Constants DEF ExtendTypeOK, Claim, events, doc
  <2>3. WellShaped(r)
    BY <1>0, <2>1, <2>2 DEF WellShaped, TaskDoc
  <2>4. \A u \in Slots : WellShaped(extend'[u])
    BY <1>0, <2>1, <2>3 DEF Writes
  <2>5. extend'[t] = r
    BY <2>1 DEF Writes
  <2>7. r.recorded => r.landed > 0
    BY <2>3 DEF WellShaped
  <2> QED
    BY <1>0, <2>1, <2>2, <2>4, <2>5, <2>7 DEF Shape
<1>9. ASSUME NEW t \in Slots, Unwanted(t) \/ Abandon(t) PROVE Shape'
  <2>1. Writes(t, NoTask) /\ current = 0 /\ UNCHANGED <<current, stage, path, editing>>
    BY <1>9, GoneFacts DEF Unwanted, Abandon, ComesFirst, doc, events
  <2> QED
    BY <1>0, <2>1, NewShapes, ShapeWrites, Constants
<1>10. ASSUME stage # "idle", Gone(current), LeaveRun, UNCHANGED editing PROVE Shape'
  <2>1. current \in Slots /\ Writes(current, NoTask)
    BY <1>10, GoneFacts, RunFacts
  <2> QED
    BY <1>0, <1>10, <2>1, NewShapes, ShapeLeaves DEF LeaveRun
<1>11. CASE NotWanted \/ Expires \/ Finish
  BY <1>10, <1>11 DEF NotWanted, Expires, Finish, events
<1>12. ASSUME NEW n \in Nat, n \in {extend[current].landed, extend[current].by}, PutBack(n), stage = "sign",
              UNCHANGED editing
       PROVE  Shape'
  <2>1. PICK r \in TaskDoc :
           /\ Writes(current, r) /\ r.kind = extend[current].kind /\ r.by = extend[current].by
           /\ r.landed = n /\ r.recorded = extend[current].recorded /\ ~r.claimed
           /\ current' = 0 /\ stage' = "idle"
    BY <1>12, PutBackFacts
  <2>2. /\ current \in Slots /\ ~extend[current].recorded /\ WellShaped(extend[current])
        /\ extend[current].kind # "none"
    BY <1>0, <1>12, RunFacts DEF Shape
  <2>3. WellShaped(r)
    BY <1>12, <2>1, <2>2 DEF WellShaped
  <2> QED
    BY <1>0, <1>12, <2>1, <2>2, <2>3, ShapeLeaves
<1>13. stage # "idle" => /\ current \in Slots /\ extend[current] \in TaskDoc /\ extend[current].claimed
                         /\ Amount = extend[current].by /\ Amount \in Nat \ {0} /\ extend[current].landed \in Nat
                         /\ extend[current].kind # "none"
  BY <1>0, RunFacts DEF Amount, TaskDoc, WellShaped
<1>14. CASE Lands
  <2>1. CASE extend' = [extend EXCEPT ![current].landed = Amount] /\ stage' = "answered" /\ UNCHANGED current
    <3>1. PICK r \in TaskDoc :
             /\ Writes(current, r) /\ r.kind = extend[current].kind /\ r.by = extend[current].by
             /\ r.landed = Amount /\ r.recorded = extend[current].recorded /\ r.claimed
      BY <1>13, <1>14, <2>1, LandedFacts DEF Lands
    <3>2. ~extend[current].recorded /\ stage = "sign" /\ current # 0
      BY <1>0, <1>14 DEF Lands, Shape
    <3>3. WellShaped(r)
      BY <1>0, <1>13, <3>1, <3>2 DEF WellShaped
    <3>4. (\A u \in Slots : WellShaped(extend'[u])) /\ extend'[current] = r
      BY <1>0, <3>1, <3>3 DEF Writes
    <3> QED
      BY <1>0, <1>13, <1>14, <2>1, <3>1, <3>2, <3>4 DEF Shape, Lands, events, doc
  <2> QED
    BY <1>12, <1>13, <1>14, <2>1 DEF Lands, events
<1>15. CASE CannotLand
  BY <1>10, <1>12, <1>13, <1>15 DEF CannotLand, events
<1>16. CASE Errs
  BY <1>12, <1>13, <1>16 DEF Errs, events
<1>17. CASE Confirm
  <2>1. NextExtendTime(Amount, 0) \in Nat /\ stage # "idle"
    BY <1>0, <1>13, <1>17 DEF NextExtendTime, Confirm
  <2>2. \/ UNCHANGED extend
        \/ \E x \in Slots : extend[x] = NoTask /\ Writes(x, ChainTask(NextExtendTime(Amount, 0)))
    BY <1>0, <1>17, <2>1, InsertOnceFacts DEF Confirm
  <2>3. extend'[current] = extend[current] /\ \A t \in Slots : WellShaped(extend'[t])
    <3>1. ASSUME NEW x \in Slots, extend[x] = NoTask, Writes(x, ChainTask(NextExtendTime(Amount, 0)))
          PROVE  extend'[current] = extend[current] /\ \A t \in Slots : WellShaped(extend'[t])
      <4>1. x # current
        BY <1>0, <3>1
      <4> QED
        BY <1>0, <1>13, <2>1, <3>1, <4>1, NewShapes DEF Writes
    <3> QED
      BY <1>0, <2>2, <3>1
  <2>4. /\ path = "keys" => stage = "half" /\ stage' = "done"
        /\ path # "keys" => stage = "answered" /\ stage' = "half"
        /\ UNCHANGED <<current, path, editing>>
    BY <1>17 DEF Confirm, doc, events
  <2> QED
    BY <1>0, <2>1, <2>3, <2>4 DEF Shape
<1>18. CASE RecordUnit
  <2>1. PICK r \in TaskDoc :
           /\ Writes(current, r) /\ r.kind = extend[current].kind /\ r.by = extend[current].by
           /\ r.landed = extend[current].landed /\ r.recorded /\ r.claimed
    BY <1>18, RecordFacts
  <2>2. stage \in {"answered", "half"} /\ extend[current].landed > 0 /\ current # 0
    BY <1>0, <1>18 DEF RecordUnit, Shape
  <2>3. WellShaped(r)
    BY <1>0, <1>13, <2>1, <2>2 DEF WellShaped
  <2>4. (\A u \in Slots : WellShaped(extend'[u])) /\ extend'[current] = r
    BY <1>0, <1>13, <2>1, <2>2, <2>3 DEF Writes
  <2>5. /\ path = "keys" => stage' = "half"
        /\ path # "keys" => stage' = "done"
        /\ UNCHANGED <<current, path, editing>>
    BY <1>18 DEF RecordUnit, doc, events
  <2> QED
    BY <1>0, <1>13, <2>1, <2>2, <2>4, <2>5 DEF Shape
<1>19. CASE CrashRun
  BY <1>0, <1>19 DEF CrashRun, LeaveRun, Shape, events, doc
<1>20. CASE UNCHANGED extendVars
  BY <1>0, <1>20 DEF extendVars, queue, doc, events, Shape
<1> QED
  BY <1>1, <1>2, <1>3, <1>4, <1>5, <1>6, <1>7, <1>8, <1>9, <1>11, <1>14, <1>15, <1>16, <1>17, <1>18, <1>19, <1>20
     DEF ExtendNext, Listener, Run

(* Only a claim signs again.                                                *)
LEMMA ResignedStep ==
  ASSUME Typed, [ExtendNext]_extendVars
  PROVE  resigned' \in Nat /\ (resigned' = resigned \/ \E t \in Slots : Claim(t))
<1>1. resigned' = resigned \/ \E t \in Slots : Claim(t)
  BY DEF ExtendNext, extendVars, hist, Begin, Tick, End, Settle, Fail, Restart, Stop, Started, WriteAgain, EditTimeout,
         Unwanted, Abandon, Listener, ReadChain, InsertOneShot, FindFollowUps, PushFollowUps,
         Run, NotWanted, Lands, CannotLand, Errs, Expires, Confirm, RecordUnit, Finish, CrashRun
<1>2. resigned \in Nat
  BY DEF Typed, ExtendTypeOK
<1>3. ASSUME NEW t \in Slots, Claim(t) PROVE resigned' \in Nat
  <2>1. resigned' \in {resigned, resigned + 1}
    BY <1>3 DEF Claim
  <2> QED
    BY <1>2, <2>1
<1> QED
  BY <1>1, <1>2, <1>3

LEMMA TypedStep == Typed /\ [ExtendNext]_extendVars => Typed'
<1> SUFFICES ASSUME Typed, [ExtendNext]_extendVars PROVE Typed'
  OBVIOUS
<1>1. TasksTyped' /\ RestTyped' /\ Shape' /\ editing' \in [Edits -> EditDoc] /\ edits' \in 0..MaxEdits
  BY TasksStep, RestStep, ShapeStep, EditsStep
<1>2. ExtendTypeOK'
  BY <1>1, ResignedStep DEF ExtendTypeOK, TasksTyped, RestTyped, TaskDoc, EditDoc
<1> QED
  BY <1>1, <1>2 DEF Typed, RestTyped

(* Typing: the state keeps its types.                                       *)
THEOREM ExtendTyping == ExtendSpec => []ExtendTypeOK
<1>1. ExtendSpec => []Typed
  BY InitTyped, TypedStep, PTL DEF ExtendSpec
<1>2. Typed => ExtendTypeOK
  BY DEF Typed
<1> QED
  BY <1>1, <1>2, PTL

-----------------------------------------------------------------------------
(* The chain goes on.                                                       *)

(* What InsertOnce leaves: a task of the chain that waits.                  *)
LEMMA InsertOnceWaits ==
  ASSUME ExtendTypeOK, NEW d \in Nat, InsertOnce(ChainTask(d))
  PROVE  \E t \in Slots : extend'[t].kind = "chain" /\ ~extend'[t].claimed
<1>1. ASSUME NEW x \in Slots, Writes(x, ChainTask(d)) PROVE extend'[x].kind = "chain" /\ ~extend'[x].claimed
  BY <1>1, NewDocs DEF Writes
<1> QED
  BY <1>1, InsertOnceFacts

LEMMA ContinuedStep == Typed /\ Typed' /\ Continued /\ [ExtendNext]_extendVars => Continued'
<1> SUFFICES ASSUME Typed, Typed', Continued, [ExtendNext]_extendVars,
                    alive', row' = "RUNNING", lost' = "no", starts' = 0
             PROVE  \/ \E t \in Slots : Unspent(t)'
                    \/ path' = "keys" /\ stage' = "half" /\ extend'[current'].kind = "chain"
  BY DEF Continued
<1> DEFINE Goal == \/ \E t \in Slots : Unspent(t)'
                   \/ path' = "keys" /\ stage' = "half" /\ extend'[current'].kind = "chain"
           Before == alive /\ row = "RUNNING" /\ lost = "no" /\ starts = 0
           Half == path = "keys" /\ stage = "half" /\ extend[current].kind = "chain"
<1>0. /\ ExtendTypeOK /\ Shape /\ current \in {0} \cup Slots /\ now \in Nat /\ starts \in Nat /\ repeats \in Nat
      /\ \A t \in Slots : extend[t] \in TaskDoc /\ WellShaped(extend[t])
      /\ \A t \in Slots : extend[t] = NoTask => t # current /\ extend[t].kind = "none"
      /\ timeout \in Nat /\ \A k \in Edits : editing[k].delta \in Nat
  BY TypedDocs, Constants DEF Typed, ExtendTypeOK, Shape, NoTask, EditDoc
<1>a. Before => Half \/ \E u \in Slots : Unspent(u)
  BY DEF Continued
<1>w. ASSUME NEW t \in Slots, extend'[t].kind = "chain", ~extend'[t].claimed PROVE Goal
  <2>1. ~extend'[t].recorded /\ ~(t = current' /\ stage' = "half")
    BY <1>w, Constants DEF Typed, Shape, WellShaped
  <2> QED
    BY <1>w, <2>1 DEF Unspent
<1>1. CASE Begin
  BY <1>0, <1>1 DEF Begin
<1>2. CASE Settle
  BY <1>2 DEF Settle
<1>3. CASE WriteAgain
  BY <1>0, <1>3 DEF WriteAgain
<1>4. CASE Tick \/ End \/ Fail \/ Restart \/ Stop \/ EditTimeout
  <2>1. UNCHANGED <<extend, current, stage, path>> /\ Before
    BY <1>4 DEF Tick, End, Fail, Restart, Stop, EditTimeout, queue, doc, job, events, hist
  <2> QED
    BY <1>a, <2>1 DEF Unspent
<1>5. CASE Started
  <2>1. NextExtendTime(timeout, Buffer) \in Nat
    BY <1>0, Constants DEF ExtendTypeOK, NextExtendTime
  <2> QED
    BY <1>0, <1>5, <1>w, <2>1, InsertOnceWaits DEF Started
<1>6. ASSUME NEW k \in Edits, ReadChain(k) \/ FindFollowUps(k) PROVE Goal
  <2>1. UNCHANGED <<extend, current, stage, path>> /\ Before
    BY <1>6 DEF ReadChain, FindFollowUps, queue, doc, job, hist
  <2> QED
    BY <1>a, <2>1 DEF Unspent
<1>7. ASSUME NEW k \in Edits, InsertOneShot(k) PROVE Goal
  <2>1. UNCHANGED <<current, stage, path>> /\ Before /\ Insert(OneShot(editing[k].delta, now))
    BY <1>7 DEF InsertOneShot, doc, job, hist
  <2>2. PICK x \in Slots : extend[x] = NoTask /\ Writes(x, OneShot(editing[k].delta, now))
    BY <1>0, <2>1, NewDocs, InsertFacts
  <2>3. \A u \in Slots : extend[u].kind = "chain" => extend'[u] = extend[u]
    BY <1>0, <2>2 DEF Writes
  <2>4. ASSUME NEW u \in Slots, Unspent(u) PROVE Goal
    BY <2>1, <2>3, <2>4 DEF Unspent
  <2>5. CASE Half
    BY <1>0, <2>1, <2>3, <2>5 DEF Shape
  <2> QED
    BY <1>a, <2>1, <2>4, <2>5
<1>8. ASSUME NEW k \in Edits, PushFollowUps(k) PROVE Goal
  <2>1. /\ UNCHANGED <<current, stage, path>> /\ Before
        /\ \A u \in Slots : extend'[u].kind = extend[u].kind /\ extend'[u].recorded = extend[u].recorded
    BY <1>8, PushFacts DEF PushFollowUps, doc, job, hist
  <2> QED
    BY <1>0, <1>a, <2>1 DEF Unspent, Shape
<1>9. ASSUME NEW t \in Slots, Claim(t) PROVE Goal
  <2>1. PICK r \in TaskDoc :
           /\ Writes(t, r) /\ current' = t /\ stage' # "half"
           /\ r.kind = extend[t].kind /\ r.recorded = extend[t].recorded
    BY <1>9, ClaimFacts
  <2>4. stage = "idle" /\ UNCHANGED <<job, events, lost>>
    BY <1>0, <1>9 DEF Claim, ComesFirst, Shape
  <2>2. Before /\ stage = "idle"
    BY <2>4 DEF job, events
  <2>3. PICK u \in Slots : Unspent(u)
    BY <1>a, <2>2
  <2>5. extend'[u].kind = extend[u].kind /\ extend'[u].recorded = extend[u].recorded
    BY <2>1 DEF Writes
  <2> QED
    BY <2>1, <2>2, <2>3, <2>5 DEF Unspent
<1>10. ASSUME NEW t \in Slots, Unwanted(t) \/ Abandon(t) PROVE FALSE
  BY <1>10 DEF Unwanted, Abandon, GivenUp, Active, job
<1>11. CASE NotWanted \/ Expires
  BY <1>11 DEF NotWanted, Expires, GivenUp, Active, job
<1>12. CASE Finish
  <2>1. /\ stage = "done" /\ current' = 0 /\ Before /\ stage' = "idle"
        /\ Writes(current, NoTask) /\ current \in Slots /\ extend[current].recorded
    BY <1>0, <1>12, GoneFacts, RunFacts DEF Finish, Shape, job, events, hist, LeaveRun
  <2>2. PICK u \in Slots : Unspent(u)
    BY <1>a, <2>1
  <2>3. extend'[u] = extend[u]
    BY <2>1, <2>2 DEF Unspent, Writes
  <2> QED
    BY <2>1, <2>2, <2>3 DEF Unspent
<1>13. ASSUME NEW n \in Nat, PutBack(n), stage = "sign", UNCHANGED <<alive, row, lost, starts>> PROVE Goal
  <2>1. PICK r \in TaskDoc :
           /\ Writes(current, r) /\ r.kind = extend[current].kind /\ r.recorded = extend[current].recorded
           /\ current' = 0 /\ stage' = "idle"
    BY <1>13, PutBackFacts
  <2>2. PICK u \in Slots : Unspent(u)
    BY <1>a, <1>13
  <2>3. extend'[u].kind = extend[u].kind /\ extend'[u].recorded = extend[u].recorded
    BY <2>1 DEF Writes
  <2> QED
    BY <2>1, <2>2, <2>3 DEF Unspent
<1>14. stage # "idle" => current \in Slots /\ extend[current].landed \in Nat /\ Amount \in Nat
  BY RunFacts DEF Amount, TaskDoc
<1>15. CASE Lands
  <2>1. CASE extend' = [extend EXCEPT ![current].landed = Amount] /\ stage' = "answered" /\ UNCHANGED current
    <3>1. PICK r \in TaskDoc :
             /\ Writes(current, r) /\ r.kind = extend[current].kind /\ r.recorded = extend[current].recorded
      BY <1>14, <1>15, <2>1, LandedFacts DEF Lands
    <3>2. Before /\ stage = "sign"
      BY <1>15 DEF Lands, events
    <3>3. PICK u \in Slots : Unspent(u)
      BY <1>a, <3>2
    <3>4. extend'[u].kind = extend[u].kind /\ extend'[u].recorded = extend[u].recorded
      BY <3>1 DEF Writes
    <3> QED
      BY <2>1, <3>3, <3>4 DEF Unspent
  <2> QED
    BY <1>13, <1>14, <1>15, <2>1 DEF Lands, events
<1>16. CASE CannotLand
  BY <1>13, <1>14, <1>16 DEF CannotLand, job, events
<1>17. CASE Errs
  BY <1>13, <1>14, <1>17 DEF Errs, job, events
<1>18. CASE Confirm
  <2>1. CASE Reschedules
    <3>1. NextExtendTime(Amount, 0) \in Nat
      BY <1>0, <1>14, <1>18 DEF NextExtendTime, Confirm
    <3>2. InsertOnce(ChainTask(NextExtendTime(Amount, 0)))
      BY <1>18, <2>1 DEF Confirm
    <3> QED
      BY <1>0, <1>w, <3>1, <3>2, InsertOnceWaits
  <2>2. CASE ~Reschedules
    <3>1. Before /\ UNCHANGED <<extend, current>>
      BY <1>18, <2>2 DEF Confirm, job, events
    <3>2. PICK u \in Slots : Unspent(u)
      BY <1>a, <2>2, <3>1 DEF Reschedules
    <3> QED
      BY <2>2, <3>1, <3>2 DEF Reschedules, Unspent
  <2> QED
    BY <2>1, <2>2
<1>19. CASE RecordUnit
  <2>1. PICK r \in TaskDoc :
           /\ Writes(current, r) /\ r.kind = extend[current].kind
    BY <1>19, RecordFacts
  <2>2. /\ Before /\ UNCHANGED <<current, path>> /\ current \in Slots
        /\ path = "keys" => stage = "answered" /\ stage' = "half"
        /\ path # "keys" => stage = "half" /\ stage' = "done"
    BY <1>14, <1>19 DEF RecordUnit, job, events, hist, doc
  <2>3. PICK u \in Slots : Unspent(u)
    BY <1>a, <2>2
  <2>4. CASE u # current
    BY <2>1, <2>2, <2>3, <2>4 DEF Unspent, Writes
  <2>5. CASE u = current
    BY <2>1, <2>2, <2>3, <2>5 DEF Unspent, Writes
  <2> QED
    BY <2>4, <2>5
<1>20. CASE CrashRun
  <2>1. Before /\ UNCHANGED extend /\ current' = 0 /\ stage' = "idle"
    BY <1>20 DEF CrashRun, GivenUp, Active, LeaveRun, job, events
  <2>2. ~Half
    BY <1>20, <2>1 DEF CrashRun, GivenUp, Active
  <2> QED
    BY <1>a, <2>1, <2>2, Constants DEF Unspent
<1>21. CASE UNCHANGED extendVars
  <2>1. UNCHANGED <<extend, current, stage, path>> /\ Before
    BY <1>21 DEF extendVars, queue, doc, job, events, hist
  <2> QED
    BY <1>a, <2>1 DEF Unspent
<1> QED
  BY <1>1, <1>2, <1>3, <1>4, <1>5, <1>6, <1>7, <1>8, <1>9, <1>10, <1>11, <1>12, <1>15, <1>16, <1>17, <1>18, <1>19,
     <1>20, <1>21 DEF ExtendNext, Listener, Run

(* ChainGoesOn: simpleExtendedJobRunningUpdate and onExtendConfirmed always *)
(* leave the running job a next EXTEND, however often its starts are        *)
(* delivered, its runs repeated and its edits handled in between.           *)
THEOREM ChainGoesOn == ExtendSpec => []KeepsExtending
<1>1. ExtendInit => Continued
  BY DEF ExtendInit, Continued
<1>2. Typed /\ Continued => KeepsExtending
  <2> SUFFICES ASSUME Typed, Continued, alive, row = "RUNNING", starts = 0, lost = "no" PROVE Chained # {}
    BY DEF KeepsExtending
  <2>1. \E t \in Slots : extend[t].kind = "chain"
    <3>1. stage = "half" => current \in Slots
      BY RunFacts
    <3> QED
      BY <3>1 DEF Continued, Unspent
  <2> QED
    BY <2>1 DEF Chained, Stored, NoTask
<1> QED
  BY <1>1, <1>2, InitTyped, TypedStep, ContinuedStep, PTL DEF ExtendSpec

-----------------------------------------------------------------------------
(* The chain is one, and never extends further ahead than a timeout.        *)

LEMMA BroughtStep ==
  ASSUME Typed, Typed', [ExtendNext]_extendVars
  PROVE  /\ Handled \in Nat /\ Handled <= 1 + repeats /\ Brought \in Nat /\ Brought' \in Nat
         /\ Brought' \in {Brought, Brought + Buffer}
         /\ Started => Brought' = Brought + Buffer
         /\ Confirm => Brought' = Brought
<1>0. starts \in Nat /\ repeats \in Nat /\ starts' \in Nat /\ repeats' \in Nat /\ Buffer \in Nat
  BY Constants DEF Typed, ExtendTypeOK
<1>1. Handled \in Nat /\ Handled <= 1 + repeats
  BY <1>0 DEF Typed, Counted, Handled
<1>3. /\ Handled' \in {Handled, Handled + 1}
      /\ Started => Handled' = Handled + 1
      /\ Confirm => Handled' = Handled
  <2>1. CASE Begin \/ Settle \/ WriteAgain
    BY <1>0, <2>1 DEF Begin, Settle, WriteAgain, Started, Confirm, Typed, Counted, Handled, job, events, counts, Active, Faulty
  <2>2. CASE Started
    BY <1>0, <2>2 DEF Started, Confirm, Typed, Counted, Handled, job, counts, events
  <2>3. CASE UNCHANGED <<row, starts, repeats>>
    BY <1>0, <2>3 DEF Started, Handled
  <2> QED
    BY <2>1, <2>2, <2>3
       DEF ExtendNext, extendVars, job, events, counts, Tick, End, Fail, Restart, Stop, EditTimeout, Listener, ReadChain, InsertOneShot,
           FindFollowUps, PushFollowUps, Claim, Unwanted, Abandon, Run, NotWanted, Lands, CannotLand, Errs, Expires,
           Confirm, RecordUnit, Finish, CrashRun
<1>2. Handled' \in Nat
  BY <1>1, <1>3
<1>4. \A n \in Nat : Buffer * n \in Nat /\ Buffer * (n + 1) = Buffer * n + Buffer
  BY <1>0
<1> QED
  BY <1>1, <1>2, <1>3, <1>4 DEF Brought

(* What a step does to a task that it does not queue and does not land.     *)
Keeps(t) ==
  extend'[t].kind # "none" =>
    /\ extend[t].kind = "chain" /\ extend'[t].kind = "chain" /\ extend'[t].landed = extend[t].landed
    /\ extend[t].due <= extend'[t].due
    /\ extend'[t].claimed => extend'[t].by = timeout /\ extend'[t].due <= now

(* The chain gets its next task: all of its tasks have been claimed.        *)
Queues(x) ==
  /\ extend[x].kind = "none" /\ extend'[x].kind = "chain" /\ extend'[x].landed = 0 /\ ~extend'[x].claimed
  /\ extend'[x].due + Brought' = now + timeout + Brought
  /\ \A t \in Slots \ {x} : Keeps(t)
  /\ \A t \in Slots : extend[t].kind = "chain" => extend[t].claimed

(* The job is extended by the task that was due first.                      *)
LandsOnce(x) ==
  /\ x = current /\ extend[x].kind = "chain" /\ extend[x].landed = 0 /\ extend[x].due <= now
  /\ extend'[x].kind = "chain" /\ extend'[x].landed = timeout /\ extend[x].due <= extend'[x].due
  /\ extend'[x].claimed => extend'[x].by = timeout /\ extend'[x].due <= now
  /\ \A t \in Slots \ {x} : Keeps(t)

(* A task that landed is signed again.                                      *)
Resigns(x) ==
  /\ extend[x].kind = "chain" /\ extend[x].landed # 0
  /\ extend'[x].kind = "chain" /\ extend'[x].landed = 0 /\ extend'[x].due = extend[x].due
  /\ extend'[x].by = timeout /\ extend'[x].due <= now
  /\ \A t \in Slots \ {x} : Keeps(t)

UneditedEffect ==
  /\ edits = 0 /\ UNCHANGED <<timeout, editing>> /\ now <= now' /\ now' \in Nat /\ Foremost'
  /\ granted <= granted' /\ Base \in Int
  /\ \/ Base' = Base /\ \A t \in Slots : Keeps(t)
     \/ Base' = Base /\ \E x \in Slots : Queues(x)
     \/ Base' = Base + timeout /\ \E x \in Slots : LandsOnce(x)
     \/ Base' = Base - timeout /\ \E x \in Slots : Resigns(x)

LEMMA UneditedStep1 ==
  ASSUME Typed, Typed', Unedited, [ExtendNext]_extendVars, edits' = 0
  PROVE  UneditedEffect
<1>0. /\ ExtendTypeOK /\ Shape /\ current \in {0} \cup Slots /\ now \in Nat /\ timeout \in Nat \ {0} /\ 0 \notin Slots
      /\ \A t \in Slots : /\ extend[t] \in TaskDoc /\ WellShaped(extend[t]) /\ extend[t].due \in Nat
                          /\ extend[t] = NoTask => t # current /\ extend[t].kind = "none"
                          /\ extend[t].claimed \in BOOLEAN
      /\ NoTask.kind = "none" /\ Buffer \in Nat /\ timeout > Buffer
  BY TypedDocs, Constants DEF Typed, ExtendTypeOK, Shape, NoTask, TaskDoc
<1>1. edits = 0 /\ ~EditTimeout
  <2>1. edits' = edits \/ (EditTimeout /\ edits' = edits + 1)
    BY DEF ExtendNext, extendVars, counts, Begin, Tick, End, Settle, Fail, Restart, Stop, Started, WriteAgain, EditTimeout,
           Claim, Unwanted, Abandon, Listener, ReadChain, InsertOneShot, FindFollowUps, PushFollowUps,
           Run, NotWanted, Lands, CannotLand, Errs, Expires, Confirm, RecordUnit, Finish, CrashRun
  <2>2. edits \in Nat
    BY Constants DEF Typed, ExtendTypeOK
  <2> QED
    BY <2>1, <2>2 DEF EditTimeout
<1>2. /\ \A k \in Edits : editing[k].at = "idle" 
      /\ \A t \in Slots : extend[t].kind # "none" =>
           /\ extend[t].kind = "chain" /\ extend[t].landed \in {0, timeout}
           /\ extend[t].claimed => extend[t].by = timeout /\ extend[t].due <= now
      /\ Foremost /\ changes = 0
  BY <1>0, <1>1 DEF Unedited, Idle, Typed, Counted, ExtendTypeOK
<1>3. ASSUME NEW k \in Edits, ReadChain(k) \/ InsertOneShot(k) \/ FindFollowUps(k) \/ PushFollowUps(k) PROVE FALSE
  BY <1>0, <1>2, <1>3 DEF ReadChain, InsertOneShot, FindFollowUps, PushFollowUps, ExtendTypeOK
<1>4. UNCHANGED <<timeout, editing>>
  BY <1>1, <1>3 DEF ExtendNext, extendVars, doc, events, Begin, Tick, End, Settle, Fail, Restart, Stop, Started, WriteAgain,
           Claim, Unwanted, Abandon, Listener,
           Run, NotWanted, Lands, CannotLand, Errs, Expires, Confirm, RecordUnit, Finish, CrashRun
<1>5. now <= now' /\ now' \in Nat
  <2>1. now' \in {now, now + 1}
    BY <1>1, <1>3 DEF ExtendNext, extendVars, Begin, Tick, End, Settle, Fail, Restart, Stop, Started, WriteAgain,
           Claim, Unwanted, Abandon, Listener,
           Run, NotWanted, Lands, CannotLand, Errs, Expires, Confirm, RecordUnit, Finish, CrashRun
  <2> QED
    BY <1>0, <2>1
<1> DEFINE Effect == /\ Foremost'
                     /\ \/ granted' = granted /\ \A t \in Slots : Keeps(t)
                        \/ granted' = granted /\ \E x \in Slots : Queues(x)
                        \/ granted' = granted + timeout /\ \E x \in Slots : LandsOnce(x)
<1>a. ASSUME Foremost', UNCHANGED granted, \A t \in Slots : Keeps(t) PROVE Effect
  BY <1>a
<1>b. ASSUME Foremost', UNCHANGED granted, NEW x \in Slots, Queues(x) PROVE Effect
  BY <1>b
<1>c. ASSUME Foremost', granted' = granted + timeout, NEW x \in Slots, LandsOnce(x) PROVE Effect
  BY <1>c
<1>n. /\ granted \in Nat /\ granted' \in Nat /\ resigned \in Nat /\ timeout * resigned \in Nat
      /\ Base \in Int /\ timeout * (resigned + 1) = timeout * resigned + timeout
  BY <1>0 DEF Typed, ExtendTypeOK, Base
<1>d. Effect /\ resigned' = resigned => UneditedEffect
  <2> SUFFICES ASSUME Effect, resigned' = resigned PROVE UneditedEffect
    OBVIOUS
  <2>1. timeout' * resigned' = timeout * resigned
    BY <1>4
  <2>2. granted' = granted => Base' = Base
    BY <2>1 DEF Base
  <2>3. granted' = granted + timeout => Base' = Base + timeout
    BY <1>0, <1>n, <2>1 DEF Base
  <2>4. granted <= granted'
    BY <1>0, <1>n
  <2> QED
    BY <1>1, <1>4, <1>5, <1>n, <2>2, <2>3, <2>4 DEF UneditedEffect
<1> HIDE DEF Effect
<1>6. \A t \in Slots : extend'[t] \in {extend[t], NoTask} => Keeps(t)
  BY <1>0, <1>2 DEF Keeps
<1>14. ASSUME NEW t \in Slots, Claim(t) PROVE UneditedEffect
  <2>1. PICK r \in TaskDoc :
           /\ Writes(t, r) /\ current' = t
           /\ r.kind = extend[t].kind /\ r.due = extend[t].due
           /\ r.claimed /\ extend[t].kind # "none"
           /\ r.by = IF extend[t].kind = "chain" THEN timeout ELSE extend[t].by
           /\ \/ r.landed = extend[t].landed /\ resigned' = resigned
              \/ /\ r.landed = 0 /\ extend[t].landed > 0 /\ ~extend[t].recorded
                 /\ resigned' = resigned + 1
    BY <1>14, ClaimFacts
  <2>2. /\ extend[t].due <= now /\ extend[t].kind = "chain"
        /\ \A u \in Slots : extend[u].kind # "none" => extend[t].due <= extend[u].due
    <3>1. extend[t].due <= now /\ \A u \in Due : extend[t].due <= extend[u].due
      BY <1>14 DEF Claim, ComesFirst, Due
    <3>2. \A u \in Slots : extend[u].kind # "none" => u \in Due \/ extend[u].due > now
      BY <1>0 DEF Due, Stored
    <3> QED
      BY <1>0, <1>2, <2>1, <3>1, <3>2
  <2>3. extend'[t] = r /\ \A u \in Slots \ {t} : extend'[u] = extend[u] /\ Keeps(u)
    BY <1>6, <2>1 DEF Writes
  <2>4. \A u \in Slots : extend'[u].kind = extend[u].kind /\ extend'[u].due = extend[u].due
    BY <2>1 DEF Writes
  <2>5. Foremost'
    BY <2>1, <2>2, <2>4 DEF Foremost
  <2>6. UNCHANGED granted
    BY <1>14 DEF Claim, job
  <2>7. CASE r.landed = extend[t].landed /\ resigned' = resigned
    <3>1. Keeps(t)
      BY <1>0, <2>1, <2>2, <2>3, <2>7 DEF Keeps
    <3> QED
      BY <1>a, <1>d, <2>3, <2>5, <2>6, <2>7, <3>1
  <2>8. CASE r.landed = 0 /\ extend[t].landed > 0 /\ resigned' = resigned + 1
    <3>1. Resigns(t)
      BY <1>0, <2>1, <2>2, <2>3, <2>8 DEF Resigns
    <3>2. timeout' * resigned' = timeout * resigned + timeout
      BY <1>4, <1>n, <2>8
    <3>3. Base' = Base - timeout
      BY <1>0, <1>n, <2>6, <3>2 DEF Base
    <3> QED
      BY <1>1, <1>4, <1>5, <1>n, <2>5, <2>6, <3>1, <3>3 DEF UneditedEffect
  <2> QED
    BY <2>1, <2>7, <2>8
<1> SUFFICES ASSUME \A t \in Slots : ~Claim(t) PROVE Effect
  BY <1>14, <1>d, ResignedStep
<1>7. ASSUME UNCHANGED <<extend, current, granted>> PROVE Effect
  BY <1>a, <1>2, <1>6, <1>7 DEF Foremost
<1>8. ASSUME UNCHANGED <<extend, granted>>, current' = 0 PROVE Effect
  BY <1>a, <1>6, <1>8 DEF Foremost
<1>9. ASSUME NEW x \in Slots, Writes(x, NoTask), current' = 0, UNCHANGED granted PROVE Effect
  BY <1>a, <1>6, <1>9 DEF Foremost, Writes
<1>10. ASSUME NEW x \in Slots, NEW n \in Nat, extend[x] = NoTask, Writes(x, ChainTask(n)), UNCHANGED <<current, granted>>,
              n + Brought' = now + timeout + Brought,
              current # 0 /\ extend[current].landed = 0 => now <= n,
              \A t \in Slots : extend[t].kind = "chain" => extend[t].claimed
       PROVE  Effect
  <2>1. extend'[x].kind = "chain" /\ extend'[x].due = n /\ extend'[x].landed = 0 /\ ~extend'[x].claimed
    BY <1>10, NewDocs DEF Writes
  <2>2. \A t \in Slots \ {x} : extend'[t] = extend[t] /\ Keeps(t)
    BY <1>6, <1>10 DEF Writes
  <2>3. Queues(x)
    BY <1>0, <1>10, <2>1, <2>2 DEF Queues
  <2>4. Foremost'
    <3> SUFFICES ASSUME current # 0, extend[current].landed = 0, NEW t \in Slots, extend'[t].kind # "none"
                 PROVE  extend[current].due <= extend'[t].due
      BY <1>0, <1>10, <2>2 DEF Foremost
    <3>1. extend[current].due <= now /\ now <= n /\ extend[current].due \in Nat
      BY <1>0, <1>2, <1>10 DEF Shape
    <3> QED
      BY <1>0, <1>2, <1>10, <2>1, <2>2, <3>1 DEF Foremost
  <2> QED
    BY <1>b, <1>10, <2>3, <2>4
<1>11. CASE Begin \/ Tick \/ End \/ Fail \/ Restart \/ Stop \/ WriteAgain
  BY <1>7, <1>11 DEF Begin, Tick, End, Fail, Restart, Stop, WriteAgain, queue, job
<1>12. CASE Settle
  <2>1. \A t \in Slots : extend'[t] = IF t = current THEN extend[t] ELSE NoTask
    BY <1>12 DEF Settle
  <2>2. \A t \in Slots : Keeps(t)
    BY <1>6, <2>1
  <2>3. Foremost'
    <3> SUFFICES ASSUME current # 0, NEW t \in Slots, extend'[t].kind # "none" PROVE extend'[current].due <= extend'[t].due
      BY <1>12 DEF Settle, Foremost
    <3>1. t = current
      BY <1>0, <2>1
    <3>2. extend'[current].due \in Nat
      BY <1>0, <2>1, <3>1
    <3> QED
      BY <3>1, <3>2
  <2> QED
    BY <1>a, <1>12, <2>2, <2>3 DEF Settle
<1>13. CASE Started
  <2>1. /\ NextExtendTime(timeout, Buffer) \in Nat /\ now <= NextExtendTime(timeout, Buffer)
        /\ NextExtendTime(timeout, Buffer) + Brought' = now + timeout + Brought
    BY <1>0, <1>13, BroughtStep DEF NextExtendTime
  <2>2. InsertOnce(ChainTask(NextExtendTime(timeout, Buffer))) /\ UNCHANGED <<current, granted>>
    BY <1>13 DEF Started, job
  <2> QED
    BY <1>0, <1>7, <1>10, <2>1, <2>2, InsertOnceFacts
<1>15. ASSUME NEW t \in Slots, Unwanted(t) \/ Abandon(t) PROVE Effect
  BY <1>9, <1>15, GoneFacts DEF Unwanted, Abandon, ComesFirst, job
<1>16. ASSUME stage # "idle", Gone(current), LeaveRun, UNCHANGED granted PROVE Effect
  BY <1>9, <1>16, GoneFacts, RunFacts DEF LeaveRun
<1>17. CASE NotWanted \/ Expires \/ Finish
  BY <1>16, <1>17 DEF NotWanted, Expires, Finish, job
<1>18. stage # "idle" => /\ current \in Slots /\ extend[current].kind = "chain" /\ extend[current].landed \in {0, timeout}
                         /\ extend[current].claimed /\ Amount = timeout /\ extend[current].by = timeout /\ extend[current].due <= now
  BY <1>0, <1>2, RunFacts DEF Amount
<1>19. ASSUME NEW n \in {0, timeout}, PutBack(n), stage = "sign"
       PROVE  /\ extend'[current].kind = "chain" /\ extend'[current].landed = n /\ ~extend'[current].claimed
              /\ extend[current].due <= extend'[current].due
              /\ Foremost' /\ \A t \in Slots \ {current} : Keeps(t)
  <2>0. n \in Nat
    BY <1>0, <1>19
  <2>1. PICK r \in TaskDoc :
           /\ Writes(current, r) /\ r.kind = extend[current].kind /\ r.due = now + 1
           /\ r.landed = n /\ ~r.claimed /\ current' = 0
    BY <1>19, <2>0, PutBackFacts
  <2>2. current \in Slots /\ extend'[current] = r
    BY <1>18, <1>19, <2>1 DEF Writes
  <2>3. \A t \in Slots \ {current} : extend'[t] = extend[t]
    BY <2>1 DEF Writes
  <2>4. Foremost'
    BY <2>1 DEF Foremost
  <2>5. extend[current].due <= now + 1
    BY <1>0, <1>18, <1>19, <2>2
  <2> QED
    BY <1>6, <1>18, <1>19, <2>1, <2>2, <2>3, <2>4, <2>5
<1>20. ASSUME PutBack(extend[current].landed), stage = "sign", UNCHANGED granted PROVE Effect
  <2>1. extend[current].landed \in {0, timeout} /\ current \in Slots /\ extend[current].kind = "chain"
    BY <1>18, <1>20
  <2>2. Keeps(current)
    BY <1>19, <1>20, <2>1 DEF Keeps
  <2> QED
    BY <1>a, <1>19, <1>20, <2>1, <2>2
<1>21. CASE Lands
  <2>0. stage = "sign" /\ current \in Slots
    BY <1>18, <1>21 DEF Lands
  <2>1. CASE extend' = [extend EXCEPT ![current].landed = Amount] /\ UNCHANGED current
    <3>1. PICK r \in TaskDoc :
             /\ Writes(current, r) /\ r.kind = extend[current].kind /\ r.due = extend[current].due
             /\ r.by = extend[current].by /\ r.landed = Amount
      BY <1>0, <1>18, <2>0, <2>1, LandedFacts
    <3>2. \A t \in Slots \ {current} : extend'[t] = extend[t] /\ Keeps(t)
      BY <1>6, <3>1 DEF Writes
    <3>3. extend'[current] = r
      BY <3>1 DEF Writes
    <3>4. Foremost'
      BY <1>0, <1>18, <2>0, <2>1, <3>1, <3>3 DEF Foremost
    <3>5. CASE Called
      <4>1. granted' = granted /\ extend[current].landed = timeout
        BY <1>0, <1>18, <1>21, <2>0, <3>5 DEF Lands, Called, ExtendTypeOK
      <4>2. Keeps(current)
        BY <1>0, <1>18, <2>0, <3>1, <3>3, <4>1 DEF Keeps
      <4> QED
        BY <1>a, <3>2, <3>4, <4>1, <4>2
    <3>6. CASE ~Called
      <4>1. granted' = granted + timeout /\ extend[current].landed = 0
        BY <1>0, <1>18, <1>21, <2>0, <3>6 DEF Lands, Called, ExtendTypeOK
      <4>2. LandsOnce(current)
        BY <1>0, <1>18, <2>0, <3>1, <3>2, <3>3, <4>1 DEF LandsOnce
      <4> QED
        BY <1>c, <2>0, <3>4, <4>1, <4>2
    <3> QED
      BY <3>5, <3>6
  <2>2. CASE PutBack(Amount)
    <3>1. Amount = timeout
      BY <1>18, <2>0
    <3>2. CASE Called
      <4>1. granted' = granted /\ extend[current].landed = Amount
        BY <1>0, <1>18, <1>21, <2>0, <3>1, <3>2 DEF Lands, Called, ExtendTypeOK
      <4> QED
        BY <1>20, <2>0, <2>2, <4>1
    <3>3. CASE ~Called
      <4>1. granted' = granted + timeout /\ extend[current].landed = 0
        BY <1>0, <1>18, <1>21, <2>0, <3>1, <3>3 DEF Lands, Called, ExtendTypeOK
      <4>2. LandsOnce(current) /\ Foremost'
        BY <1>18, <1>19, <2>0, <2>2, <3>1, <4>1 DEF LandsOnce
      <4> QED
        BY <1>c, <2>0, <4>1, <4>2
    <3> QED
      BY <3>2, <3>3
  <2> QED
    BY <1>21, <2>1, <2>2 DEF Lands
<1>22. CASE CannotLand
  BY <1>16, <1>20, <1>22 DEF CannotLand, job
<1>23. CASE Errs
  BY <1>20, <1>23 DEF Errs, job
<1>24. CASE Confirm
  <2>1. NextExtendTime(Amount, 0) = now + timeout /\ current \in Slots /\ Reschedules
    BY <1>0, <1>18, <1>24 DEF NextExtendTime, Confirm, Reschedules
  <2>2. InsertOnce(ChainTask(NextExtendTime(Amount, 0))) /\ UNCHANGED <<current, granted>> /\ Brought' = Brought
    BY <1>24, <2>1, BroughtStep DEF Confirm, job
  <2>3. now + timeout \in Nat /\ now <= now + timeout /\ Brought \in Nat
    BY <1>0, BroughtStep
  <2>4. (now + timeout) + Brought' = now + timeout + Brought
    BY <2>2
  <2> QED
    BY <1>0, <1>7, <1>10, <2>1, <2>2, <2>3, <2>4, InsertOnceFacts
<1>25. CASE RecordUnit
  <2>1. PICK r \in TaskDoc :
           /\ Writes(current, r) /\ r.kind = extend[current].kind /\ r.due = extend[current].due
           /\ r.by = extend[current].by /\ r.landed = extend[current].landed
    BY <1>25, RecordFacts
  <2>2. stage # "idle" /\ UNCHANGED <<current, granted>>
    BY <1>25 DEF RecordUnit, job
  <2>3. \A t \in Slots \ {current} : extend'[t] = extend[t] /\ Keeps(t)
    BY <1>6, <2>1 DEF Writes
  <2>4. extend'[current] = r
    BY <2>1 DEF Writes
  <2>5. Keeps(current)
    BY <1>0, <1>18, <2>1, <2>2, <2>4 DEF Keeps
  <2>6. Foremost'
    BY <1>2, <2>1, <2>2, <2>3, <2>4 DEF Foremost
  <2> QED
    BY <1>a, <2>2, <2>3, <2>5, <2>6
<1>26. CASE CrashRun
  BY <1>8, <1>26 DEF CrashRun, LeaveRun, job
<1>27. CASE UNCHANGED extendVars
  BY <1>7, <1>27 DEF extendVars, queue, job
<1> QED
  BY <1>1, <1>3, <1>11, <1>12, <1>13, <1>15, <1>17, <1>21, <1>22, <1>23, <1>24, <1>25, <1>26, <1>27
     DEF ExtendNext, Listener, Run

LEMMA UneditedStep == Typed /\ Typed' /\ Unedited /\ [ExtendNext]_extendVars => Unedited'
<1> SUFFICES ASSUME Typed, Typed', Unedited, [ExtendNext]_extendVars, edits' = 0
             PROVE  /\ \A k \in Edits : editing'[k] = Idle
                    /\ \A t \in Slots : extend'[t].kind # "none" =>
                         /\ extend'[t].kind = "chain" /\ extend'[t].landed \in {0, timeout'}
                         /\ extend'[t].claimed => extend'[t].by = timeout' /\ extend'[t].due <= now'
                    /\ Foremost'
                    /\ timeout' <= granted'
  BY DEF Unedited, Idle
<1>1. UneditedEffect
  BY UneditedStep1
<1>2. /\ edits = 0 /\ UNCHANGED <<timeout, editing>> /\ now <= now' /\ now' \in Nat /\ Foremost'
      /\ now \in Nat /\ timeout \in Nat /\ granted \in Nat
      /\ \A t \in Slots : extend'[t].due \in Nat
  <2>1. \A t \in Slots : extend'[t] \in TaskDoc
    BY DEF Typed, ExtendTypeOK, TaskDoc
  <2> QED
    BY <1>1, <2>1, Constants DEF UneditedEffect, Typed, ExtendTypeOK, TaskDoc
<1>3. /\ \A k \in Edits : editing[k] = Idle
      /\ \A t \in Slots : extend[t].kind # "none" => extend[t].landed \in {0, timeout}
      /\ timeout <= granted
  BY <1>2 DEF Unedited
<1> DEFINE Good(t) == extend'[t].kind # "none" =>
                        /\ extend'[t].kind = "chain" /\ extend'[t].landed \in {0, timeout}
                        /\ extend'[t].claimed => extend'[t].by = timeout /\ extend'[t].due <= now
<1>4. \A t \in Slots : Keeps(t) => Good(t)
  BY <1>3 DEF Keeps
<1>5. \A t \in Slots : Good(t)
  <2>1. ASSUME NEW x \in Slots, Queues(x) PROVE \A t \in Slots : Good(t)
    BY <1>4, <2>1 DEF Queues
  <2>2. ASSUME NEW x \in Slots, LandsOnce(x) PROVE \A t \in Slots : Good(t)
    BY <1>4, <2>2 DEF LandsOnce
  <2>3. ASSUME NEW x \in Slots, Resigns(x) PROVE \A t \in Slots : Good(t)
    BY <1>4, <2>3 DEF Resigns
  <2> QED
    BY <1>1, <1>4, <2>1, <2>2, <2>3 DEF UneditedEffect
<1>6. granted <= granted' /\ granted' \in Nat
  BY <1>1 DEF UneditedEffect, Typed, ExtendTypeOK
<1>7. timeout <= granted'
  BY <1>2, <1>3, <1>6
<1> HIDE DEF Good
<1>8. \A t \in Slots : extend'[t].kind # "none" =>
         /\ extend'[t].kind = "chain" /\ extend'[t].landed \in {0, timeout'}
         /\ extend'[t].claimed => extend'[t].by = timeout' /\ extend'[t].due <= now'
  <2> SUFFICES ASSUME NEW t \in Slots, extend'[t].kind # "none"
               PROVE  /\ extend'[t].kind = "chain" /\ extend'[t].landed \in {0, timeout'}
                      /\ extend'[t].claimed => extend'[t].by = timeout' /\ extend'[t].due <= now'
    OBVIOUS
  <2>1. /\ extend'[t].kind = "chain" /\ extend'[t].landed \in {0, timeout}
        /\ extend'[t].claimed => extend'[t].by = timeout /\ extend'[t].due <= now
    BY <1>5 DEF Good
  <2>2. extend'[t].due <= now => extend'[t].due <= now'
    BY <1>2
  <2> QED
    BY <1>2, <2>1, <2>2
<1> QED
  BY <1>2, <1>3, <1>7, <1>8

(* The tasks that have still to land keep their places.                     *)
LEMMA PlacesKept ==
  ASSUME Typed, Typed', NEW p \in [Slots -> Int], Fits(p), \A t \in Slots : Keeps(t),
         Base' = Base, UNCHANGED timeout, Brought \in Nat, Brought' \in Nat, Brought <= Brought'
  PROVE  Fits(p)'
<1>1. \A t \in Slots : extend[t].due \in Nat /\ extend'[t].due \in Nat
  <2>1. \A t \in Slots : extend[t] \in TaskDoc /\ extend'[t] \in TaskDoc
    BY DEF Typed, ExtendTypeOK, TaskDoc
  <2> QED
    BY <2>1 DEF TaskDoc
<1>2. ASSUME NEW t \in Unlanded' PROVE t \in Slots /\ t \in Unlanded /\ extend[t].due <= extend'[t].due
  BY <1>2 DEF Unlanded, Keeps
<1>3. ASSUME NEW t \in Unlanded' PROVE p[t] <= extend'[t].due + Brought'
  <2>1. p[t] <= extend[t].due + Brought /\ p[t] \in Int
    BY <1>2 DEF Fits
  <2> QED
    BY <1>1, <1>2, <2>1
<1> QED
  BY <1>2, <1>3 DEF Fits

(* The next task of the chain is given the last place.                      *)
LEMMA PlaceAdded ==
  ASSUME Typed, Typed', Unedited, edits = 0, NEW p \in [Slots -> Int], Fits(p), NEW x \in Slots, Queues(x),
         Base \in Int, Base <= now + timeout + Brought,
         Base' = Base, UNCHANGED timeout, Brought \in Nat, Brought' \in Nat, Brought <= Brought'
  PROVE  \E q \in [Slots -> Int] : Fits(q)'
<1> DEFINE last == now + timeout + Brought
<1>0. \A t \in Slots : extend[t].due \in Nat /\ extend'[t].due \in Nat
  <2>1. \A t \in Slots : extend[t] \in TaskDoc /\ extend'[t] \in TaskDoc
    BY DEF Typed, ExtendTypeOK, TaskDoc
  <2> QED
    BY <2>1 DEF TaskDoc
<1>1. now \in Nat /\ timeout \in Nat /\ last \in Int
  BY Constants DEF Typed, ExtendTypeOK
<1>2. PICK q \in [Slots -> Int] : q[x] = last /\ \A t \in Slots \ {x} : q[t] = p[t]
  <2>1. /\ [p EXCEPT ![x] = last] \in [Slots -> Int] /\ [p EXCEPT ![x] = last][x] = last
        /\ \A t \in Slots \ {x} : [p EXCEPT ![x] = last][t] = p[t]
    BY <1>1
  <2> QED
    BY <2>1
<1>3. ASSUME NEW t \in Unlanded', t # x
      PROVE  /\ t \in Slots /\ t \in Unlanded /\ extend[t].due <= extend'[t].due /\ extend[t].due <= now
             /\ q[t] = p[t] /\ Base <= p[t] /\ p[t] <= extend'[t].due + Brought' /\ p[t] + timeout <= last
  <2>1. t \in Slots /\ t \in Unlanded /\ extend[t].due <= extend'[t].due /\ extend[t].kind = "chain" /\ extend[t].claimed
    BY <1>3 DEF Unlanded, Queues, Keeps
  <2>2. extend[t].due <= now /\ Base <= p[t] /\ p[t] <= extend[t].due + Brought /\ p[t] \in Int
    BY <2>1 DEF Fits, Unedited
  <2>3. p[t] <= extend'[t].due + Brought' /\ p[t] + timeout <= last
    BY <1>0, <1>1, <2>1, <2>2
  <2> QED
    BY <1>2, <1>3, <2>1, <2>2, <2>3
<1>4. Base <= q[x] /\ q[x] <= extend'[x].due + Brought'
  BY <1>0, <1>1, <1>2 DEF Queues
<1> HIDE DEF last
<1>5. ASSUME NEW t \in Unlanded', NEW u \in Unlanded' \ {t}
      PROVE  q[t] + timeout <= q[u] \/ q[u] + timeout <= q[t]
  <2>1. CASE t # x /\ u # x
    BY <1>3, <2>1 DEF Fits
  <2>2. CASE t = x \/ u = x
    BY <1>2, <1>3, <2>2
  <2> QED
    BY <2>1, <2>2
<1>6. \A t \in Unlanded' : Base <= q[t] /\ q[t] <= extend'[t].due + Brought'
  BY <1>3, <1>4
<1>7. Fits(q)'
  BY <1>5, <1>6 DEF Fits
<1> QED
  BY <1>2, <1>7

(* The task that lands leaves its place; one that had an earlier place, if  *)
(* there is one, takes it.                                                  *)
LEMMA PlaceTaken ==
  ASSUME Typed, Typed', Unedited, edits = 0, NEW p \in [Slots -> Int], Fits(p), NEW x \in Slots, LandsOnce(x),
         Base \in Int, Base' = Base + timeout, UNCHANGED timeout, Brought \in Nat, Brought' \in Nat, Brought <= Brought'
  PROVE  Base' <= extend[x].due + timeout + Brought /\ \E q \in [Slots -> Int] : Fits(q)'
<1>0. \A t \in Slots : extend[t].due \in Nat /\ extend'[t].due \in Nat
  <2>1. \A t \in Slots : extend[t] \in TaskDoc /\ extend'[t] \in TaskDoc
    BY DEF Typed, ExtendTypeOK, TaskDoc
  <2> QED
    BY <2>1 DEF TaskDoc
<1>1. timeout \in Nat \ {0}
  BY Constants DEF Typed, ExtendTypeOK
<1>2. x \in Unlanded /\ x = current /\ x # 0
  BY Constants DEF LandsOnce, Unlanded
<1>3. /\ p[x] \in Int /\ Base <= p[x] /\ p[x] <= extend[x].due + Brought
  BY <1>2 DEF Fits
<1>4. Base' <= extend[x].due + timeout + Brought
  BY <1>0, <1>1, <1>2, <1>3
<1>6. PICK q \in [Slots -> Int] : \A t \in Slots : q[t] = IF p[t] < Base + timeout THEN p[x] ELSE p[t]
  <2> DEFINE f == [t \in Slots |-> IF p[t] < Base + timeout THEN p[x] ELSE p[t]]
  <2>1. f \in [Slots -> Int] /\ \A t \in Slots : f[t] = IF p[t] < Base + timeout THEN p[x] ELSE p[t]
    BY <1>3
  <2> HIDE DEF f
  <2> QED
    BY <2>1
<1>5. ASSUME NEW t \in Unlanded'
      PROVE  /\ t \in Slots /\ t \in Unlanded /\ t # x /\ extend[t].due <= extend'[t].due /\ extend[x].due <= extend[t].due
             /\ p[t] \in Int /\ Base <= p[t] /\ p[t] <= extend[t].due + Brought
             /\ p[t] + timeout <= p[x] \/ p[x] + timeout <= p[t]
             /\ q[t] = IF p[t] < Base + timeout THEN p[x] ELSE p[t]
  <2>1. t # x
    BY <1>1, <1>5 DEF Unlanded, LandsOnce
  <2>2. t \in Slots /\ t \in Unlanded /\ extend[t].due <= extend'[t].due
    BY <1>5, <2>1 DEF Unlanded, LandsOnce, Keeps
  <2>3. extend[x].due <= extend[t].due
    BY <1>2, <2>2 DEF Unedited, Foremost, Unlanded
  <2>4. /\ p[t] \in Int /\ Base <= p[t] /\ p[t] <= extend[t].due + Brought
        /\ p[t] + timeout <= p[x] \/ p[x] + timeout <= p[t]
    BY <1>2, <2>1, <2>2 DEF Fits
  <2> QED
    BY <1>6, <2>1, <2>2, <2>3, <2>4
<1>7. ASSUME NEW t \in Unlanded' PROVE Base' <= q[t] /\ q[t] <= extend'[t].due + Brought'
  BY <1>0, <1>1, <1>3, <1>5, <1>7
<1>8. ASSUME NEW t \in Unlanded', NEW u \in Unlanded' \ {t}
      PROVE  q[t] + timeout <= q[u] \/ q[u] + timeout <= q[t]
  <2>1. p[t] + timeout <= p[u] \/ p[u] + timeout <= p[t]
    BY <1>5 DEF Fits
  <2> QED
    BY <1>1, <1>3, <1>5, <2>1
<1>9. Fits(q)'
  BY <1>7, <1>8 DEF Fits
<1> QED
  BY <1>4, <1>6, <1>9

(* A task that is signed again gets the place before all the others.        *)
LEMMA PlaceBefore ==
  ASSUME Typed, Typed', NEW p \in [Slots -> Int], Fits(p), NEW x \in Slots, Resigns(x),
         Base \in Int, Base <= extend[x].due + timeout + Brought,
         Base' = Base - timeout, UNCHANGED timeout, Brought \in Nat, Brought' \in Nat, Brought <= Brought'
  PROVE  \E q \in [Slots -> Int] : Fits(q)'
<1> DEFINE first == Base - timeout
<1>0. \A t \in Slots : extend[t].due \in Nat /\ extend'[t].due \in Nat
  <2>1. \A t \in Slots : extend[t] \in TaskDoc /\ extend'[t] \in TaskDoc
    BY DEF Typed, ExtendTypeOK, TaskDoc
  <2> QED
    BY <2>1 DEF TaskDoc
<1>1. timeout \in Nat /\ first \in Int
  BY Constants DEF Typed, ExtendTypeOK
<1>2. PICK q \in [Slots -> Int] : q[x] = first /\ \A t \in Slots \ {x} : q[t] = p[t]
  <2>1. /\ [p EXCEPT ![x] = first] \in [Slots -> Int] /\ [p EXCEPT ![x] = first][x] = first
        /\ \A t \in Slots \ {x} : [p EXCEPT ![x] = first][t] = p[t]
    BY <1>1
  <2> QED
    BY <2>1
<1>3. ASSUME NEW t \in Unlanded', t # x
      PROVE  /\ t \in Slots /\ t \in Unlanded /\ q[t] = p[t] /\ p[t] \in Int /\ Base <= p[t]
             /\ p[t] <= extend'[t].due + Brought'
  <2>1. t \in Slots /\ t \in Unlanded /\ extend[t].due <= extend'[t].due
    BY <1>3 DEF Unlanded, Resigns, Keeps
  <2>2. Base <= p[t] /\ p[t] <= extend[t].due + Brought /\ p[t] \in Int
    BY <2>1 DEF Fits
  <2> QED
    BY <1>0, <1>2, <1>3, <2>1, <2>2
<1>4. q[x] <= extend'[x].due + Brought'
  BY <1>0, <1>1, <1>2 DEF Resigns
<1>5. ASSUME NEW t \in Unlanded', NEW u \in Unlanded' \ {t}
      PROVE  q[t] + timeout <= q[u] \/ q[u] + timeout <= q[t]
  <2>1. CASE t # x /\ u # x
    BY <1>3, <2>1 DEF Fits
  <2>2. CASE t = x \/ u = x
    BY <1>1, <1>2, <1>3, <2>2
  <2> QED
    BY <2>1, <2>2
<1>6. \A t \in Unlanded' : Base' <= q[t] /\ q[t] <= extend'[t].due + Brought'
  BY <1>1, <1>2, <1>3, <1>4
<1>7. Fits(q)'
  BY <1>5, <1>6 DEF Fits
<1> QED
  BY <1>2, <1>7

(* What the tasks that landed are owed.                                     *)
LEMMA LandedKept ==
  ASSUME Typed, Typed', Unedited, UneditedEffect, Brought \in Nat, Brought' \in Nat, Brought <= Brought',
         \A t \in Landed : Base <= extend[t].due + timeout + Brought,
         \A x \in Slots : LandsOnce(x) /\ Base' = Base + timeout => Base' <= extend[x].due + timeout + Brought
  PROVE  \A t \in Landed' : Base' <= extend'[t].due + timeout' + Brought'
<1>0. \A t \in Slots : extend[t].due \in Nat /\ extend'[t].due \in Nat
  <2>1. \A t \in Slots : extend[t] \in TaskDoc /\ extend'[t] \in TaskDoc
    BY DEF Typed, ExtendTypeOK, TaskDoc
  <2> QED
    BY <2>1 DEF TaskDoc
<1>1. timeout \in Nat /\ timeout' = timeout /\ Base \in Int /\ edits = 0
  BY Constants DEF Typed, ExtendTypeOK, UneditedEffect
<1> SUFFICES ASSUME NEW t \in Landed' PROVE Base' <= extend'[t].due + timeout + Brought'
  BY <1>1
<1>2. t \in Slots /\ extend'[t].kind = "chain" /\ extend'[t].landed # 0
  BY DEF Landed
<1>3. Keeps(t) => t \in Landed /\ extend[t].due <= extend'[t].due /\ Base <= extend[t].due + timeout + Brought
  BY <1>2 DEF Keeps, Landed
<1>4. Keeps(t) /\ (Base' = Base \/ Base' = Base - timeout) => Base' <= extend'[t].due + timeout + Brought'
  BY <1>0, <1>1, <1>2, <1>3
<1>5. ASSUME NEW x \in Slots, LandsOnce(x), Base' = Base + timeout PROVE Base' <= extend'[t].due + timeout + Brought'
  <2>1. Base' <= extend[x].due + timeout + Brought
    BY <1>5
  <2>2. extend[x].due <= extend'[t].due
    <3>1. CASE t = x
      BY <1>5, <3>1 DEF LandsOnce
    <3>2. CASE t # x
      <4>1. extend[t].due <= extend'[t].due /\ extend[t].kind = "chain"
        BY <1>2, <1>5, <3>2 DEF LandsOnce, Keeps
      <4>2. extend[x].due <= extend[t].due
        BY <1>1, <1>2, <1>5, <4>1, Constants DEF Unedited, Foremost, LandsOnce
      <4> QED
        BY <1>0, <1>2, <1>5, <4>1, <4>2
    <3> QED
      BY <3>1, <3>2
  <2> QED
    BY <1>0, <1>1, <1>2, <1>5, <2>1, <2>2
<1>6. ASSUME NEW x \in Slots, Queues(x) PROVE Keeps(t)
  BY <1>2, <1>6 DEF Queues
<1>7. ASSUME NEW x \in Slots, Resigns(x) PROVE Keeps(t)
  BY <1>2, <1>7 DEF Resigns
<1> QED
  BY <1>2, <1>4, <1>5, <1>6, <1>7 DEF UneditedEffect

LEMMA NoEarlier ==
  \A g \in Int, n, m, t, b, c \in Nat : g <= n + t + b /\ n <= m /\ b <= c => g <= m + t + c
OBVIOUS

LEMMA SpacedStep == Typed /\ Typed' /\ Unedited /\ Spaced /\ [ExtendNext]_extendVars => Spaced'
<1> SUFFICES ASSUME Typed, Typed', Unedited, Spaced, [ExtendNext]_extendVars, edits' = 0
             PROVE  /\ Base' <= now' + timeout' + Brought'
                    /\ \A t \in Landed' : Base' <= extend'[t].due + timeout' + Brought'
                    /\ \E q \in [Slots -> Int] : Fits(q)'
  BY DEF Spaced
<1>1. UneditedEffect /\ edits = 0 /\ now <= now' /\ now' \in Nat /\ UNCHANGED timeout /\ Base \in Int
  BY UneditedStep1 DEF UneditedEffect
<1>2. /\ Brought \in Nat /\ Brought' \in Nat /\ Brought <= Brought'
      /\ now \in Nat /\ timeout \in Nat
  BY BroughtStep, Constants DEF Typed, ExtendTypeOK
<1>3. PICK p \in [Slots -> Int] : Fits(p)
  BY <1>1 DEF Spaced
<1>4. Base <= now + timeout + Brought /\ \A t \in Landed : Base <= extend[t].due + timeout + Brought
  BY <1>1 DEF Spaced
<1>9. \A g \in Int : g <= now + timeout + Brought => g <= now' + timeout' + Brought'
  <2>1. \A g \in Int : g <= now + timeout + Brought => g <= now' + timeout + Brought'
    BY <1>1, <1>2, NoEarlier, Zenon
  <2> QED
    BY <1>1, <2>1, Zenon
<1>a. ASSUME NEW x \in Slots, LandsOnce(x), Base' = Base + timeout
      PROVE  Base' <= extend[x].due + timeout + Brought /\ \E q \in [Slots -> Int] : Fits(q)'
  BY <1>1, <1>2, <1>3, <1>a, PlaceTaken
<1>b. \A t \in Landed' : Base' <= extend'[t].due + timeout' + Brought'
  BY <1>1, <1>2, <1>4, <1>a, LandedKept
<1> DEFINE Goal == Base' <= now' + timeout' + Brought' /\ \E q \in [Slots -> Int] : Fits(q)'
<1>c. Base' = Base => Base' <= now' + timeout' + Brought'
  BY <1>1, <1>4, <1>9
<1>5. CASE Base' = Base /\ \A t \in Slots : Keeps(t)
  <2>1. Fits(p)'
    BY <1>1, <1>2, <1>3, <1>5, PlacesKept
  <2> QED
    BY <1>b, <1>c, <1>5, <2>1
<1>6. ASSUME Base' = Base, NEW x \in Slots, Queues(x) PROVE Goal
  <2>1. \E q \in [Slots -> Int] : Fits(q)'
    BY <1>1, <1>2, <1>3, <1>4, <1>6, PlaceAdded
  <2> QED
    BY <1>c, <1>6, <2>1
<1>7. ASSUME Base' = Base + timeout, NEW x \in Slots, LandsOnce(x) PROVE Goal
  <2>1. Base' <= extend[x].due + timeout + Brought /\ \E q \in [Slots -> Int] : Fits(q)'
    BY <1>a, <1>7
  <2>2. extend[x].due <= now /\ extend[x].due \in Nat /\ Base' \in Int
    <3>1. extend[x] \in TaskDoc
      BY DEF Typed, ExtendTypeOK, TaskDoc
    <3> QED
      BY <1>1, <1>2, <1>7, <3>1 DEF LandsOnce, TaskDoc
  <2>3. Base' <= now + timeout + Brought
    BY <1>2, <2>1, <2>2
  <2> QED
    BY <1>9, <2>1, <2>2, <2>3
<1>8. ASSUME Base' = Base - timeout, NEW x \in Slots, Resigns(x) PROVE Goal
  <2>1. Base <= extend[x].due + timeout + Brought
    BY <1>4, <1>8 DEF Resigns, Landed
  <2>2. \E q \in [Slots -> Int] : Fits(q)'
    BY <1>1, <1>2, <1>3, <1>8, <2>1, PlaceBefore
  <2>3. Base' <= now + timeout + Brought /\ Base' \in Int
    BY <1>1, <1>2, <1>4, <1>8
  <2> QED
    BY <1>9, <2>2, <2>3
<1> HIDE DEF Goal
<1>d. Goal => Base' <= now' + timeout' + Brought' /\ \E q \in [Slots -> Int] : Fits(q)'
  BY DEF Goal
<1> QED
  BY <1>1, <1>b, <1>d, <1>5, <1>6, <1>7, <1>8 DEF UneditedEffect

(* OneChain: however often the start of the job, its runs and the calls to  *)
(* client-manager are repeated, simpleExtendedJobRunningUpdate, the queue   *)
(* and onExtendConfirmed never extend it further ahead than one timeout,    *)
(* the buffer once for each start, and a timeout for each landed            *)
(* transaction that recoverUnits took for an expired one.                   *)
THEOREM OneChain == ExtendSpec => []NoOverrun
<1>1. ExtendInit => Unedited /\ Spaced
  <2> SUFFICES ASSUME ExtendInit PROVE Unedited /\ Spaced
    OBVIOUS
  <2>1. /\ \A t \in Slots : extend[t] = NoTask
        /\ \A k \in Edits : editing[k] = Idle
        /\ timeout \in Nat /\ granted = timeout /\ now = 0 /\ row = "QUEUED" /\ repeats = 0 /\ starts = 0
        /\ NoTask.kind = "none" /\ Buffer \in Nat /\ current = 0
    BY Constants, NewDocs DEF ExtendInit
  <2>2. Handled = 0 /\ Brought = 0
    BY <2>1 DEF Handled, Brought
  <2>3. Fits([t \in Slots |-> 0])
    BY <2>1 DEF Fits, Unlanded
  <2>4. Base = timeout
    <3>1. timeout * 0 = 0 /\ resigned = 0
      BY <2>1 DEF ExtendInit
    <3> QED
      BY <2>1, <3>1 DEF Base
  <2>5. Spaced
    BY <2>1, <2>2, <2>3, <2>4 DEF Landed, Spaced
  <2> QED
    BY <2>1, <2>5 DEF Unedited, Foremost
<1>2. Typed /\ Spaced => NoOverrun
  <2> SUFFICES ASSUME Typed, Spaced, edits = 0 PROVE granted <= Ahead + timeout * (1 + resigned)
    BY DEF NoOverrun
  <2>1. /\ starts \in Nat /\ repeats \in Nat /\ Buffer \in Nat /\ now \in Nat /\ timeout \in Nat /\ granted \in Nat
        /\ resigned \in Nat /\ Base <= now + timeout + Brought
    BY Constants DEF Typed, ExtendTypeOK, Spaced
  <2>2. Handled \in Nat /\ Handled <= 1 + repeats
    BY <2>1 DEF Typed, Counted, Handled
  <2>3. PICK n \in Nat : 1 + repeats = Handled + n
    <3>1. 1 + repeats - Handled \in Nat /\ 1 + repeats = Handled + (1 + repeats - Handled)
      BY <2>1, <2>2
    <3> QED
      BY <3>1
  <2>4. Buffer * (Handled + n) = Buffer * Handled + Buffer * n /\ Buffer * n \in Nat /\ Buffer * Handled \in Nat
    BY <2>1, <2>2
  <2>5. /\ timeout * (1 + resigned) = timeout + timeout * resigned /\ timeout * resigned \in Nat
        /\ granted = Base + timeout * resigned /\ Base \in Int
    BY <2>1 DEF Base
  <2>6. Ahead = now + Brought + Buffer * n /\ Brought \in Nat
    BY <2>1, <2>3, <2>4 DEF Ahead, Brought
  <2> QED
    BY <2>1, <2>4, <2>5, <2>6
<1> QED
  BY <1>1, <1>2, InitTyped, TypedStep, UneditedStep, SpacedStep, PTL DEF ExtendSpec

-----------------------------------------------------------------------------
(* The deadline and the chain move together.                                *)

LEMMA PromisedStep ==
  ASSUME Typed, Typed'
  PROVE  \E p, q \in Nat :
           /\ p = Promised /\ q = Promised'
           /\ (\A t \in Slots : PromiseOf(extend'[t]) = PromiseOf(extend[t])) => q = p
           /\ \A x \in Slots : (\A t \in Slots \ {x} : PromiseOf(extend'[t]) = PromiseOf(extend[t]))
                => q = p - PromiseOf(extend[x]) + PromiseOf(extend'[x])
<1>1. PICK f : f = Promise
  OBVIOUS
<1>2. PICK g : g = Promise'
  OBVIOUS
<1>3. /\ \A t \in Slots : f[t] = PromiseOf(extend[t]) /\ g[t] = PromiseOf(extend'[t])
      /\ \A t \in Slots : f[t] \in Nat /\ g[t] \in Nat
  <2>1. \A t \in Slots : extend[t] \in TaskDoc /\ extend'[t] \in TaskDoc
    BY DEF Typed, ExtendTypeOK, TaskDoc
  <2>2. \A t \in Slots : f[t] = PromiseOf(extend[t]) /\ g[t] = PromiseOf(extend'[t])
    BY <1>1, <1>2 DEF Promise, PromiseOf
  <2> QED
    BY <2>1, <2>2 DEF PromiseOf, TaskDoc
<1>4. IsFiniteSet(Slots)
  BY Constants, FS_Interval DEF Slots
<1> DEFINE p == SumFunctionOnSet(f, Slots)
           q == SumFunctionOnSet(g, Slots)
<1>5. p = Promised /\ q = Promised'
  BY <1>1, <1>2 DEF Promised
<1>6. p \in Nat
  BY <1>3, <1>4, SumType
<1>7. q \in Nat
  BY <1>3, <1>4, SumType
<1>8. ASSUME \A t \in Slots : PromiseOf(extend'[t]) = PromiseOf(extend[t]) PROVE q = p
  BY <1>3, <1>4, <1>8, SumSame
<1>9. ASSUME NEW x \in Slots, \A t \in Slots \ {x} : PromiseOf(extend'[t]) = PromiseOf(extend[t])
      PROVE  q = p - PromiseOf(extend[x]) + PromiseOf(extend'[x])
  <2>1. \A t \in Slots : f[t] \in Int /\ g[t] \in Int
    BY <1>3
  <2>2. \A t \in Slots \ {x} : g[t] = f[t]
    BY <1>3, <1>9
  <2>3. q = p - f[x] + g[x]
    BY <1>4, <2>1, <2>2, SumChange
  <2> QED
    BY <1>3, <2>3
<1> HIDE DEF p, q
<1> QED
  BY <1>5, <1>6, <1>7, <1>8, <1>9

LEMMA RaisingStep ==
  ASSUME Typed, Typed'
  PROVE  \E p, q \in Nat :
           /\ p = Raising /\ q = Raising'
           /\ (\A k \in Edits : editing[k].at # "find") => p = 0
           /\ (\A k \in Edits : RaiseOf(editing'[k]) = RaiseOf(editing[k])) => q = p
           /\ \A j \in Edits : (\A k \in Edits \ {j} : editing'[k] = editing[k])
                => q = p - RaiseOf(editing[j]) + RaiseOf(editing'[j])
<1>1. PICK f : f = [k \in Edits |-> RaiseOf(editing[k])]
  OBVIOUS
<1>2. PICK g : g = [k \in Edits |-> RaiseOf(editing'[k])]
  OBVIOUS
<1>3. /\ \A t \in Edits : f[t] = RaiseOf(editing[t]) /\ g[t] = RaiseOf(editing'[t])
      /\ \A t \in Edits : f[t] \in Nat /\ g[t] \in Nat
  <2>1. \A t \in Edits : editing[t].delta \in Nat /\ editing'[t].delta \in Nat
    BY DEF Typed, ExtendTypeOK
  <2>2. \A t \in Edits : f[t] = RaiseOf(editing[t]) /\ g[t] = RaiseOf(editing'[t])
    BY <1>1, <1>2
  <2> QED
    BY <2>1, <2>2 DEF RaiseOf
<1>4. IsFiniteSet(Edits)
  BY Constants, FS_Interval DEF Edits
<1> DEFINE p == SumFunctionOnSet(f, Edits)
           q == SumFunctionOnSet(g, Edits)
<1>5. p = Raising /\ q = Raising'
  BY <1>1, <1>2 DEF Raising, RaiseOf
<1>6. p \in Nat
  BY <1>3, <1>4, SumType
<1>7. q \in Nat
  BY <1>3, <1>4, SumType
<1>8. ASSUME \A t \in Edits : RaiseOf(editing'[t]) = RaiseOf(editing[t]) PROVE q = p
  BY <1>3, <1>4, <1>8, SumSame
<1>9. ASSUME NEW x \in Edits, \A t \in Edits \ {x} : editing'[t] = editing[t]
      PROVE  q = p - RaiseOf(editing[x]) + RaiseOf(editing'[x])
  <2>1. \A t \in Edits : f[t] \in Int /\ g[t] \in Int
    BY <1>3
  <2>2. \A t \in Edits \ {x} : g[t] = f[t]
    BY <1>3, <1>9
  <2>3. q = p - f[x] + g[x]
    BY <1>4, <2>1, <2>2, SumChange
  <2> QED
    BY <1>3, <2>3
<1>10. ASSUME \A k \in Edits : editing[k].at # "find" PROVE p = 0
  <2>1. \A k \in Edits : f[k] = 0
    BY <1>3, <1>10 DEF RaiseOf
  <2> QED
    BY <1>4, <2>1, SumZero
<1> HIDE DEF p, q
<1> QED
  BY <1>5, <1>6, <1>7, <1>8, <1>9, <1>10

(* A step that moves the deadline, net of what the edits have still to move *)
(* the chain by, d ahead, and no task of the chain by more.                 *)
LEMMA LevelsKept ==
  ASSUME Typed, Typed', NEW a \in Int, NEW r \in Int, NEW b \in Int, NEW s \in Int, NEW d \in Int,
         Levels(a, r), b - s = a - r + d,
         \A t \in Slots : extend'[t].kind = "chain" =>
           \/ extend[t].kind = "chain" /\ extend'[t].due + extend'[t].landed <= extend[t].due + extend[t].landed + d
           \/ extend'[t].due + extend'[t].landed + s + Buffer <= b,
         \A k \in Edits, t \in Slots : editing'[k].due[t] > 0 =>
           \/ editing'[k].due[t] = editing[k].due[t] /\ GivenOf(extend'[t]) <= GivenOf(extend[t]) + d
           \/ editing'[k].due[t] + GivenOf(extend'[t]) + s + Buffer <= b
  PROVE  Levels(b, s)'
<1>0. Buffer \in Nat
  BY Constants
<1>1. \A t \in Slots : extend[t] \in TaskDoc /\ extend'[t] \in TaskDoc
  BY DEF Typed, ExtendTypeOK, TaskDoc
<1>2. \A t \in Slots : /\ extend[t].due \in Nat /\ extend[t].landed \in Nat /\ GivenOf(extend[t]) \in Nat
                       /\ extend'[t].due \in Nat /\ extend'[t].landed \in Nat /\ GivenOf(extend'[t]) \in Nat
  BY <1>1 DEF TaskDoc, GivenOf
<1>3. \A k \in Edits, t \in Slots : editing[k].due[t] \in Nat /\ editing'[k].due[t] \in Nat
  <2>1. \A k \in Edits : editing[k].due \in [Slots -> Nat] /\ editing'[k].due \in [Slots -> Nat]
    BY DEF Typed, ExtendTypeOK
  <2> QED
    BY <2>1
<1>4. ASSUME NEW t \in Slots PROVE Level(t, b, s)'
  <2> SUFFICES ASSUME extend'[t].kind = "chain" PROVE extend'[t].due + extend'[t].landed + s + Buffer <= b
    BY DEF Level
  <2>1. CASE extend[t].kind = "chain" /\ extend'[t].due + extend'[t].landed <= extend[t].due + extend[t].landed + d
    <3>1. extend[t].due + extend[t].landed + r + Buffer <= a
      BY <2>1 DEF Levels, Level
    <3> QED
      BY <1>0, <1>2, <2>1, <3>1
  <2> QED
    BY <2>1
<1>5. ASSUME NEW k \in Edits, NEW t \in Slots PROVE Found(k, t, b, s)'
  <2> SUFFICES ASSUME editing'[k].due[t] > 0 PROVE editing'[k].due[t] + GivenOf(extend'[t]) + s + Buffer <= b
    BY DEF Found, GivenOf
  <2>1. CASE editing'[k].due[t] = editing[k].due[t] /\ GivenOf(extend'[t]) <= GivenOf(extend[t]) + d
    <3>1. editing[k].due[t] + GivenOf(extend[t]) + r + Buffer <= a
      BY <2>1 DEF Levels, Found
    <3> QED
      BY <1>0, <1>2, <1>3, <2>1, <3>1
  <2> QED
    BY <2>1
<1> QED
  BY <1>4, <1>5 DEF Levels

(* What the promise still stands in: nothing was given up.                  *)
LEMMA GuardStep ==
  ASSUME Typed, [ExtendNext]_extendVars, alive', lost' = "no", ~drift'
  PROVE  /\ alive /\ lost = "no" /\ ~drift
         /\ \A t \in Slots : ~Unwanted(t) /\ ~Abandon(t)
         /\ ~NotWanted /\ ~Expires /\ ~End /\ ~Settle
<1>1. alive
  BY DEF ExtendNext, extendVars, job, Begin, Tick, End, Settle, Fail, Restart, Stop, Started, WriteAgain, EditTimeout,
         Claim, Unwanted, Abandon, Listener, ReadChain, InsertOneShot, FindFollowUps, PushFollowUps,
         Run, NotWanted, Lands, CannotLand, Errs, Expires, Confirm, RecordUnit, Finish, CrashRun
<1>2. ~drift
  BY Zenon DEF ExtendNext, extendVars, hist, Begin, Tick, End, Settle, Fail, Restart, Stop, Started, WriteAgain, EditTimeout,
         Claim, Unwanted, Abandon, Listener, ReadChain, InsertOneShot, FindFollowUps, PushFollowUps,
         Run, NotWanted, Lands, CannotLand, Errs, Expires, Confirm, RecordUnit, Finish, CrashRun
<1>3. Active
  BY <1>1 DEF Typed, ExtendTypeOK, Counted, Active
<1>4. \A t \in Slots : ~Unwanted(t) /\ ~Abandon(t)
  BY <1>3 DEF Unwanted, Abandon, GivenUp
<1>5. ~NotWanted /\ ~Expires /\ ~End /\ ~Settle
  BY <1>1, <1>3 DEF NotWanted, Expires, GivenUp, End, Settle
<1>6. lost = "no"
  BY <1>3, <1>4, <1>5 DEF ExtendNext, extendVars, hist, Begin, Tick, Fail, Restart, Stop, Started, WriteAgain, EditTimeout,
         Claim, Listener, ReadChain, InsertOneShot, FindFollowUps, PushFollowUps,
         Run, Lands, CannotLand, Errs, Confirm, RecordUnit, Finish, CrashRun, GivenUp
<1> QED
  BY <1>1, <1>2, <1>4, <1>5, <1>6

LEMMA LockedStep == Typed /\ Typed' /\ Unedited /\ Locked /\ [ExtendNext]_extendVars => Locked'
<1> SUFFICES ASSUME Typed, Typed', Unedited, Locked, [ExtendNext]_extendVars, alive', lost' = "no", ~drift'
             PROVE  Levels(granted + Promised + lag, Raising)'
  BY DEF Locked
<1>0. /\ alive /\ lost = "no" /\ ~drift
      /\ \A t \in Slots : ~Unwanted(t) /\ ~Abandon(t)
      /\ ~NotWanted /\ ~Expires /\ ~End /\ ~Settle
  BY GuardStep
<1>1. PICK p, q \in Nat :
           /\ p = Promised /\ q = Promised'
           /\ (\A t \in Slots : PromiseOf(extend'[t]) = PromiseOf(extend[t])) => q = p
           /\ \A x \in Slots : (\A t \in Slots \ {x} : PromiseOf(extend'[t]) = PromiseOf(extend[t]))
                => q = p - PromiseOf(extend[x]) + PromiseOf(extend'[x])
  BY PromisedStep
<1>2. PICK r, s \in Nat :
           /\ r = Raising /\ s = Raising'
           /\ (\A k \in Edits : editing[k].at # "find") => r = 0
           /\ (\A k \in Edits : RaiseOf(editing'[k]) = RaiseOf(editing[k])) => s = r
           /\ \A j \in Edits : (\A k \in Edits \ {j} : editing'[k] = editing[k])
                => s = r - RaiseOf(editing[j]) + RaiseOf(editing'[j])
  BY RaisingStep
<1>3. /\ ExtendTypeOK /\ Shape /\ now \in Nat /\ timeout \in Nat /\ granted \in Nat /\ granted' \in Nat
      /\ lag \in Nat /\ lag' \in Nat /\ Buffer \in Nat /\ timeout > Buffer
      /\ current \in {0} \cup Slots /\ 0 \notin Slots
      /\ NoTask.kind = "none" /\ NoTask.landed = 0 /\ Idle.at = "idle" /\ \A t \in Slots : Idle.due[t] = 0
  BY Constants DEF Typed, ExtendTypeOK, NoTask, Idle
<1>4. /\ extend \in [Slots -> TaskDoc] /\ editing \in [Edits -> EditDoc]
      /\ \A t \in Slots : extend[t] \in TaskDoc /\ WellShaped(extend[t])
      /\ \A k \in Edits : editing[k] \in EditDoc /\ \A t \in Slots : editing[k].due[t] \in Nat
  BY <1>3, TypedDocs DEF Shape
<1>5. /\ \A t \in Slots : /\ extend[t].due \in Nat /\ extend[t].landed \in Nat /\ extend[t].by \in Nat
                          /\ PromiseOf(extend[t]) \in Nat /\ GivenOf(extend[t]) \in Nat
                          /\ extend[t] = NoTask => PromiseOf(extend[t]) = 0 /\ GivenOf(extend[t]) = 0 /\ extend[t].kind = "none"
      /\ \A k \in Edits : editing[k].delta \in Nat /\ RaiseOf(editing[k]) \in Nat
      /\ RaiseOf(Idle) = 0 /\ PromiseOf(NoTask) = 0 /\ GivenOf(NoTask) = 0
  BY <1>3, <1>4 DEF TaskDoc, EditDoc, PromiseOf, GivenOf, RaiseOf
<1>6. PICK a, b \in Nat : a = granted + p + lag /\ b = granted' + q + lag'
  <2>1. granted + p + lag \in Nat
    BY <1>3
  <2>2. granted' + q + lag' \in Nat
    <3>1. \A i, j, k \in Nat : i + j + k \in Nat
      OBVIOUS
    <3>2. granted' \in Nat /\ lag' \in Nat /\ q \in Nat
      BY <1>3
    <3> QED
      BY <3>1, <3>2, Zenon
  <2> QED
    BY <2>1, <2>2, Zenon
<1>7. Levels(a, r)
  <2>1. Levels(granted + Promised + lag, Raising)
    BY <1>0 DEF Locked
  <2>2. a = granted + Promised + lag /\ r = Raising
    BY <1>1, <1>2, <1>6, Zenon
  <2> QED
    BY <2>1, <2>2, Zenon
<1> SUFFICES Levels(b, s)'
  <2>1. b = granted' + Promised' + lag' /\ s = Raising'
    BY <1>1, <1>2, <1>6, Zenon
  <2> QED
    BY <2>1, Zenon DEF Levels, Level, Found
(* The tasks and edits that a step leaves alone, or only changes in what    *)
(* does not count.                                                          *)
<1> DEFINE Same(t) == /\ extend'[t].kind = extend[t].kind /\ extend'[t].due = extend[t].due
                      /\ extend'[t].landed = extend[t].landed
           Alike(t, d) == extend'[t].kind = "chain" =>
                            \/ extend[t].kind = "chain" /\ extend'[t].due + extend'[t].landed <= extend[t].due + extend[t].landed + d
                            \/ extend'[t].due + extend'[t].landed + s + Buffer <= b
           LineHeld(k, t, d) == editing'[k].due[t] > 0 =>
                              \/ editing'[k].due[t] = editing[k].due[t] /\ GivenOf(extend'[t]) <= GivenOf(extend[t]) + d
                              \/ editing'[k].due[t] + GivenOf(extend'[t]) + s + Buffer <= b
<1>8. ASSUME NEW d \in Int, b - s = a - r + d, \A t \in Slots : Alike(t, d), \A k \in Edits, t \in Slots : LineHeld(k, t, d)
      PROVE  Levels(b, s)'
  BY <1>7, <1>8, LevelsKept
<1>9. \A t \in Slots, d \in Nat : Same(t) => Alike(t, d) /\ GivenOf(extend'[t]) <= GivenOf(extend[t]) + d
  BY <1>5 DEF GivenOf
<1>10. \A k \in Edits, t \in Slots, d \in Nat :
          editing'[k] = editing[k] /\ GivenOf(extend'[t]) <= GivenOf(extend[t]) + d => LineHeld(k, t, d)
  OBVIOUS
<1>11. \A t \in Slots, d \in Nat : extend'[t] = NoTask => Alike(t, d) /\ GivenOf(extend'[t]) <= GivenOf(extend[t]) + d
  BY <1>3, <1>5
<1>12. \A t \in Slots : extend'[t] = extend[t] => Same(t) /\ PromiseOf(extend'[t]) = PromiseOf(extend[t])
  OBVIOUS
<1> HIDE DEF Same, Alike, LineHeld
<1>13. ASSUME UNCHANGED <<extend, editing, granted, lag>> PROVE Levels(b, s)'
  <2>1. b - s = a - r + 0
    BY <1>1, <1>2, <1>3, <1>6, <1>13
  <2> QED
    BY <1>8, <1>9, <1>10, <1>12, <1>13, <2>1
(* One task is written, and no edit.                                        *)
<1>14. ASSUME NEW x \in Slots, \A t \in Slots \ {x} : extend'[t] = extend[t], UNCHANGED editing,
              NEW d \in Nat, granted' + PromiseOf(extend'[x]) + lag' = granted + PromiseOf(extend[x]) + lag + d,
              Alike(x, d), GivenOf(extend'[x]) <= GivenOf(extend[x]) + d, PromiseOf(extend'[x]) \in Nat
       PROVE  Levels(b, s)'
  <2>1. q = p - PromiseOf(extend[x]) + PromiseOf(extend'[x]) /\ s = r
    BY <1>1, <1>2, <1>12, <1>14
  <2>2. b - s = a - r + d
    BY <1>1, <1>2, <1>3, <1>5, <1>6, <1>14, <2>1
  <2>3. \A t \in Slots : Alike(t, d) /\ GivenOf(extend'[t]) <= GivenOf(extend[t]) + d
    BY <1>9, <1>12, <1>14
  <2> QED
    BY <1>8, <1>10, <1>14, <2>2, <2>3
<1>15. CASE Begin \/ Tick \/ Fail \/ Restart \/ Stop \/ WriteAgain \/ EditTimeout \/ CrashRun \/ UNCHANGED extendVars
  <2>1. UNCHANGED <<extend, editing, granted, lag>>
    BY <1>15 DEF Begin, Tick, Fail, Restart, Stop, WriteAgain, EditTimeout, CrashRun, extendVars, job, events, queue, hist
  <2> QED
    BY <1>13, <2>1
<1>16. CASE Started
  <2>1. /\ NextExtendTime(timeout, Buffer) = now + timeout - Buffer
        /\ NextExtendTime(timeout, Buffer) \in Nat
    BY <1>3 DEF NextExtendTime
  <2>2. UNCHANGED <<granted, editing>> /\ InsertOnce(ChainTask(NextExtendTime(timeout, Buffer)))
    BY <1>16 DEF Started, job
  <2>3. CASE UNCHANGED extend
    BY <1>13, <1>16, <2>2, <2>3 DEF Started
  <2>4. ASSUME extend' # extend, NEW x \in Slots, extend[x] = NoTask, Writes(x, ChainTask(NextExtendTime(timeout, Buffer)))
        PROVE  Levels(b, s)'
    <3>1. lag' = lag + now /\ edits = 0
      <4>1. lag' = lag + now
        BY <1>16, <2>4 DEF Started
      <4>2. ~(edits > 0)
        BY <1>16, <2>4, Zenon DEF Started
      <4>3. edits \in Nat
        BY <1>3, Constants DEF ExtendTypeOK
      <4> QED
        BY <4>1, <4>2, <4>3
    <3>2. timeout <= granted /\ \A k \in Edits : editing[k].at = "idle"
      BY <1>3, <3>1 DEF Unedited
    <3>3. r = 0 /\ s = 0
      BY <1>2, <2>2, <3>2
    <3>4. extend'[x].kind = "chain" /\ extend'[x].due = now + timeout - Buffer /\ extend'[x].landed = 0
      BY <2>1, <2>4, NewDocs DEF Writes
    <3>5. PromiseOf(extend'[x]) = 0 /\ GivenOf(extend'[x]) = 0 /\ \A t \in Slots \ {x} : extend'[t] = extend[t]
      BY <2>4, <3>4 DEF PromiseOf, GivenOf, Writes
    <3>6. q = p
      BY <1>1, <1>5, <1>12, <2>4, <3>5
    <3>7. extend'[x].due + extend'[x].landed + s + Buffer <= b
      BY <1>1, <1>3, <1>6, <2>2, <3>1, <3>2, <3>3, <3>4, <3>6
    <3>8. Alike(x, now)
      BY <3>7 DEF Alike
    <3>9. granted' + PromiseOf(extend'[x]) + lag' = granted + PromiseOf(extend[x]) + lag + now
      BY <1>3, <1>5, <2>2, <2>4, <3>1, <3>5
    <3> QED
      BY <1>3, <1>5, <1>14, <2>2, <2>4, <3>5, <3>8, <3>9
  <2> QED
    BY <1>3, <2>1, <2>2, <2>3, <2>4, InsertOnceFacts
<1>17. ASSUME NEW k \in Edits, ReadChain(k) PROVE Levels(b, s)'
  <2>1. UNCHANGED <<extend, granted, lag>>
    BY <1>17 DEF ReadChain, job, queue, hist
  <2>2. /\ \A j \in Edits \ {k} : editing'[j] = editing[j]
        /\ \/ editing'[k] = editing[k]
           \/ editing'[k].at = "insert" /\ \A t \in Slots : editing'[k].due[t] = 0
    <3>1. CASE UNCHANGED editing
      BY <3>1
    <3>2. CASE editing' = [editing EXCEPT ![k] = [Idle EXCEPT !.at = "insert", !.delta = timeout - granted]]
      BY <1>4, <3>2 DEF Idle
    <3> QED
      BY <1>17, <3>1, <3>2 DEF ReadChain
  <2>3. s = r - RaiseOf(editing[k]) + RaiseOf(editing'[k]) /\ RaiseOf(editing'[k]) \in {0, RaiseOf(editing[k])}
    BY <1>2, <2>2 DEF RaiseOf
  <2>4. PICK d \in Nat : s = r - d
    BY <1>2, <1>5, <2>3
  <2>5. b - s = a - r + d
    BY <1>1, <1>2, <1>3, <1>6, <2>1, <2>4
  <2>6. \A t \in Slots : Alike(t, d) /\ GivenOf(extend'[t]) <= GivenOf(extend[t]) + d
    BY <1>9, <1>12, <2>1
  <2>7. \A j \in Edits, t \in Slots : LineHeld(j, t, d)
    <3>1. \A t \in Slots : editing'[k].due[t] = 0 => LineHeld(k, t, d)
      BY DEF LineHeld
    <3> QED
      BY <1>10, <2>2, <2>6, <3>1
  <2> QED
    BY <1>8, <2>5, <2>6, <2>7
<1>18. ASSUME NEW k \in Edits, InsertOneShot(k) PROVE Levels(b, s)'
  <2>1. /\ UNCHANGED <<granted, lag>> /\ Insert(OneShot(editing[k].delta, now)) /\ editing[k].at = "insert"
        /\ editing' = [editing EXCEPT ![k].at = "find"]
    BY <1>18 DEF InsertOneShot, job, hist
  <2>2. /\ \A j \in Edits \ {k} : editing'[j] = editing[j]
        /\ editing'[k].at = "find" /\ editing'[k].delta = editing[k].delta /\ editing'[k].due = editing[k].due
    BY <1>4, <2>1 DEF EditDoc
  <2>3. s = r + editing[k].delta
    <3>1. RaiseOf(editing[k]) = 0 /\ RaiseOf(editing'[k]) = editing[k].delta
      BY <2>1, <2>2 DEF RaiseOf
    <3> QED
      BY <1>2, <1>5, <2>2, <3>1
  <2>4. PICK x \in Slots : extend[x] = NoTask /\ Writes(x, OneShot(editing[k].delta, now))
    BY <1>3, <1>5, <2>1, NewDocs, InsertFacts
  <2>5. extend'[x].kind = "once" /\ extend'[x].landed = 0 /\ extend'[x].by = editing[k].delta
    BY <1>3, <1>5, <2>4, NewDocs DEF Writes
  <2>6. /\ PromiseOf(extend'[x]) = editing[k].delta /\ GivenOf(extend'[x]) = 0
        /\ \A t \in Slots \ {x} : extend'[t] = extend[t]
    BY <2>4, <2>5 DEF PromiseOf, GivenOf, Writes
  <2>7. q = p + editing[k].delta
    BY <1>1, <1>5, <1>12, <2>4, <2>6
  <2>8. b - s = a - r + 0
    BY <1>1, <1>2, <1>3, <1>5, <1>6, <2>1, <2>3, <2>7
  <2>9. Alike(x, 0)
    BY <2>5 DEF Alike
  <2>10. \A t \in Slots : Alike(t, 0) /\ GivenOf(extend'[t]) <= GivenOf(extend[t]) + 0
    BY <1>5, <1>9, <1>12, <2>4, <2>6, <2>9
  <2>11. \A j \in Edits, t \in Slots : LineHeld(j, t, 0)
    BY <2>2, <2>10 DEF LineHeld
  <2> QED
    BY <1>8, <2>8, <2>10, <2>11
<1>19. ASSUME NEW k \in Edits, FindFollowUps(k) PROVE Levels(b, s)'
  <2>1. UNCHANGED <<extend, granted, lag>> /\ editing[k].at = "find"
    BY <1>19 DEF FindFollowUps, job, queue, hist
  <2>2. \A j \in Edits \ {k} : editing'[j] = editing[j]
    BY <1>4, <1>19 DEF FindFollowUps
  <2>3. /\ editing'[k].at = "push"
        /\ \A t \in Slots : editing'[k].due[t] = IF Follows(t) THEN extend[t].due + editing[k].delta ELSE 0
    <3> DEFINE e == [t \in Slots |-> IF Follows(t) THEN extend[t].due + editing[k].delta ELSE 0]
    <3>1. editing' = [editing EXCEPT ![k].at = "push", ![k].due = e]
      BY <1>19 DEF FindFollowUps
    <3>2. \A t \in Slots : e[t] = IF Follows(t) THEN extend[t].due + editing[k].delta ELSE 0
      OBVIOUS
    <3> HIDE DEF e
    <3>3. editing'[k].at = "push" /\ editing'[k].due = e
      BY <1>4, <3>1 DEF EditDoc
    <3> QED
      BY <3>2, <3>3
  <2>4. r = s + editing[k].delta
    <3>1. RaiseOf(editing[k]) = editing[k].delta /\ RaiseOf(editing'[k]) = 0
      BY <2>1, <2>3 DEF RaiseOf
    <3> QED
      BY <1>2, <1>5, <2>2, <3>1
  <2>5. a = b
    BY <1>1, <1>6, <2>1
  <2>6. b - s = a - r + editing[k].delta
    BY <1>5, <2>4, <2>5
  <2>7. \A t \in Slots : Alike(t, editing[k].delta) /\ GivenOf(extend'[t]) <= GivenOf(extend[t]) + editing[k].delta
    BY <1>5, <1>9, <1>12, <2>1
  <2>8. ASSUME NEW t \in Slots PROVE LineHeld(k, t, editing[k].delta)
    <3> SUFFICES ASSUME editing'[k].due[t] > 0
                 PROVE  editing'[k].due[t] + GivenOf(extend'[t]) + s + Buffer <= b
      BY DEF LineHeld
    <3>1. Follows(t) /\ editing'[k].due[t] = extend[t].due + editing[k].delta
      BY <2>3
    <3>2. extend[t].kind = "chain"
      BY <3>1 DEF Follows, Chained
    <3>3. extend[t].due + extend[t].landed + r + Buffer <= a
      BY <1>7, <3>2 DEF Levels, Level
    <3>4. GivenOf(extend'[t]) = extend[t].landed
      BY <2>1, <3>2 DEF GivenOf
    <3> QED
      BY <1>3, <1>5, <2>4, <2>5, <3>1, <3>3, <3>4
  <2>9. \A j \in Edits, t \in Slots : LineHeld(j, t, editing[k].delta)
    BY <1>5, <1>10, <2>2, <2>7, <2>8
  <2> QED
    BY <1>5, <1>8, <2>6, <2>7, <2>9
<1>20. ASSUME NEW k \in Edits, PushFollowUps(k) PROVE Levels(b, s)'
  <2>1. /\ UNCHANGED <<granted, lag>> /\ editing[k].at = "push" /\ editing'[k] = Idle
        /\ \A j \in Edits \ {k} : editing'[j] = editing[j]
    BY <1>4, <1>20 DEF PushFollowUps, job, hist
  <2>2. \A t \in Slots :
              /\ extend'[t].kind = extend[t].kind /\ extend'[t].by = extend[t].by
              /\ extend'[t].landed = extend[t].landed
              /\ extend'[t].due \in {extend[t].due, editing[k].due[t]}
              /\ extend'[t].due # extend[t].due => editing[k].due[t] > 0
    BY <1>20, PushFacts
  <2>3. \A t \in Slots : PromiseOf(extend'[t]) = PromiseOf(extend[t]) /\ GivenOf(extend'[t]) = GivenOf(extend[t])
    BY <2>2 DEF PromiseOf, GivenOf
  <2>4. s = r
    <3>1. RaiseOf(editing[k]) = 0 /\ RaiseOf(editing'[k]) = 0
      BY <1>5, <2>1 DEF RaiseOf
    <3> QED
      BY <1>2, <2>1, <3>1
  <2>5. b = a
    BY <1>1, <1>6, <2>1, <2>3
  <2>6. ASSUME NEW t \in Slots PROVE Alike(t, 0)
    <3>1. CASE extend'[t].due = extend[t].due
      BY <1>5, <2>2, <3>1 DEF Alike
    <3>2. CASE extend'[t].due # extend[t].due
      <4> SUFFICES ASSUME extend'[t].kind = "chain" PROVE extend'[t].due + extend'[t].landed + s + Buffer <= b
        BY DEF Alike
      <4>1. editing[k].due[t] > 0 /\ extend'[t].due = editing[k].due[t] /\ GivenOf(extend[t]) = extend'[t].landed
        BY <2>2, <3>2 DEF GivenOf
      <4>2. editing[k].due[t] + GivenOf(extend[t]) + r + Buffer <= a
        BY <1>7, <4>1 DEF Levels, Found
      <4> QED
        BY <2>4, <2>5, <4>1, <4>2
    <3> QED
      BY <3>1, <3>2
  <2>7. \A j \in Edits, t \in Slots : LineHeld(j, t, 0)
    <3>1. \A t \in Slots : GivenOf(extend'[t]) <= GivenOf(extend[t]) + 0
      BY <1>5, <2>3
    <3>2. \A t \in Slots : LineHeld(k, t, 0)
      BY <1>3, <2>1 DEF LineHeld
    <3> QED
      BY <1>10, <2>1, <3>1, <3>2
  <2>8. b - s = a - r + 0
    BY <1>1, <1>2, <1>6, <2>4, <2>5
  <2> QED
    BY <1>8, <2>6, <2>7, <2>8
<1>21. ASSUME NEW t \in Slots, Claim(t) PROVE Levels(b, s)'
  <2>1. PICK n \in TaskDoc :
           /\ Writes(t, n) /\ n.kind = extend[t].kind /\ n.due = extend[t].due
           /\ n.landed = extend[t].landed \/ n.landed = 0
           /\ n.by = IF extend[t].kind = "chain" THEN timeout ELSE extend[t].by
    BY <1>21, ClaimFacts
  <2>2. UNCHANGED <<granted, lag, editing>>
    BY <1>21 DEF Claim, job, events
  <2>3. extend'[t] = n /\ \A u \in Slots \ {t} : extend'[u] = extend[u]
    BY <2>1 DEF Writes
  <2>4. n.by \in Nat /\ n.landed \in Nat /\ n.landed <= extend[t].landed
    BY <1>3, <1>5, <2>1
  <2>5. PICK d \in Nat : PromiseOf(n) = PromiseOf(extend[t]) + d
    <3>1. CASE n.landed = extend[t].landed
      <4>1. PromiseOf(n) = PromiseOf(extend[t]) + 0
        BY <1>5, <2>1, <3>1 DEF PromiseOf
      <4> QED
        BY <4>1
    <3>2. CASE n.landed # extend[t].landed
      <4>1. PromiseOf(extend[t]) = 0 /\ PromiseOf(n) \in Nat
        BY <2>1, <2>4, <3>2 DEF PromiseOf
      <4>2. PromiseOf(n) = PromiseOf(extend[t]) + PromiseOf(n)
        BY <4>1
      <4> QED
        BY <4>1, <4>2
    <3> QED
      BY <3>1, <3>2
  <2>6. granted' + PromiseOf(extend'[t]) + lag' = granted + PromiseOf(extend[t]) + lag + d
    BY <1>3, <1>5, <2>2, <2>3, <2>5
  <2>7. Alike(t, d)
    BY <1>5, <2>1, <2>3, <2>4, <2>5 DEF Alike
  <2>8. GivenOf(extend'[t]) <= GivenOf(extend[t]) + d
    BY <1>5, <2>1, <2>3, <2>4, <2>5 DEF GivenOf
  <2>9. PromiseOf(extend'[t]) \in Nat
    BY <2>3, <2>4 DEF PromiseOf
  <2> QED
    BY <1>14, <2>2, <2>3, <2>6, <2>7, <2>8, <2>9
<1>22. stage # "idle" => /\ current \in Slots /\ Amount = extend[current].by /\ Amount \in Nat
                         /\ extend[current].kind # "none" /\ extend[current].landed \in Nat
                         /\ WellShaped(extend[current])
  BY <1>4, <1>5, RunFacts DEF Amount
(* A run that ends leaves its task, due a cooldown later: what it landed is *)
(* n more than before.                                                      *)
<1>23. ASSUME stage = "sign", NEW n \in Nat, PutBack(n), UNCHANGED editing,
              IF n = extend[current].landed THEN granted' = granted
              ELSE granted' = granted + Amount /\ n = Amount /\ extend[current].landed = 0
       PROVE  Levels(b, s)'
  <2>1. PICK e \in TaskDoc :
           /\ Writes(current, e) /\ e.kind = extend[current].kind /\ e.due = now + 1 /\ e.by = extend[current].by
           /\ e.landed = n
           /\ lag' = IF e.kind = "chain" THEN lag + Late(now + 1, extend[current].due) ELSE lag
    BY <1>23, PutBackFacts
  <2>2. current \in Slots /\ extend'[current] = e /\ \A u \in Slots \ {current} : extend'[u] = extend[u]
    BY <1>22, <1>23, <2>1 DEF Writes
  <2>3. Late(now + 1, extend[current].due) \in Nat /\ now + 1 <= extend[current].due + Late(now + 1, extend[current].due)
    BY <1>3, <1>5, <2>2 DEF Late
  <2>4. e.by \in Nat /\ e.landed \in Nat /\ Amount = e.by
    BY <1>22, <1>23, <2>1
  <2>5. PromiseOf(extend'[current]) \in Nat
    BY <2>2, <2>4 DEF PromiseOf
  <2>6. CASE e.kind = "chain"
    <3> DEFINE late == Late(now + 1, extend[current].due)
    <3>1. PICK m \in Nat : n = extend[current].landed + m /\ granted' = granted + m
      BY <1>3, <1>22, <1>23
    <3>2. late + m \in Nat
      BY <2>3
    <3>3. Alike(current, late + m)
      <4>1. (now + 1) + n <= extend[current].due + extend[current].landed + (late + m)
        <5> HIDE DEF late
        <5> QED
          BY <1>3, <1>5, <2>2, <2>3, <3>1 DEF late
      <4> QED
        BY <2>1, <2>2, <2>6, <4>1 DEF Alike
    <3>4. PromiseOf(extend'[current]) = 0 /\ PromiseOf(extend[current]) = 0
      BY <2>1, <2>2, <2>6 DEF PromiseOf
    <3>5. GivenOf(extend'[current]) = n /\ GivenOf(extend[current]) = extend[current].landed
      BY <2>1, <2>2, <2>6 DEF GivenOf
    <3>6. lag' = lag + late
      BY <2>1, <2>6
    <3>7. late \in Nat
      BY <2>3
    <3> HIDE DEF late
    <3>8. granted' + PromiseOf(extend'[current]) + lag' = granted + PromiseOf(extend[current]) + lag + (late + m)
      BY <1>3, <3>1, <3>4, <3>6, <3>7
    <3>9. GivenOf(extend'[current]) <= GivenOf(extend[current]) + (late + m)
      BY <1>22, <1>23, <3>1, <3>5, <3>7
    <3> QED
      BY <1>14, <1>23, <2>2, <2>5, <3>2, <3>3, <3>8, <3>9
  <2>7. CASE e.kind # "chain"
    <3>1. extend[current].kind = "once" /\ extend'[current].kind = "once" /\ lag' = lag
      BY <1>4, <1>22, <1>23, <2>1, <2>2, <2>7 DEF TaskDoc
    <3>2. Alike(current, 0) /\ GivenOf(extend'[current]) <= GivenOf(extend[current]) + 0
      BY <3>1 DEF Alike, GivenOf
    <3>3. granted' + PromiseOf(extend'[current]) = granted + PromiseOf(extend[current])
      <4>1. CASE n = extend[current].landed
        BY <1>23, <2>1, <2>2, <3>1, <4>1 DEF PromiseOf
      <4>2. CASE n # extend[current].landed
        <5>1. granted' = granted + Amount /\ n = Amount /\ extend[current].landed = 0 /\ n # 0
          BY <1>23, <4>2
        <5>2. PromiseOf(extend[current]) = Amount /\ PromiseOf(extend'[current]) = 0
          BY <1>22, <1>23, <2>1, <2>2, <3>1, <5>1 DEF PromiseOf
        <5> QED
          BY <1>3, <1>22, <1>23, <5>1, <5>2
      <4> QED
        BY <4>1, <4>2
    <3>4. granted' + PromiseOf(extend'[current]) + lag' = granted + PromiseOf(extend[current]) + lag + 0
      BY <1>3, <1>5, <2>2, <2>5, <3>1, <3>3
    <3> QED
      BY <1>14, <1>23, <2>2, <2>5, <3>2, <3>4
  <2> QED
    BY <2>6, <2>7
(* An answer, seen at once.                                                 *)
<1>24. ASSUME stage = "sign", extend' = [extend EXCEPT ![current].landed = Amount], UNCHANGED <<editing, lag>>,
              IF Amount = extend[current].landed THEN granted' = granted
              ELSE granted' = granted + Amount /\ extend[current].landed = 0
       PROVE  Levels(b, s)'
  <2>1. PICK e \in TaskDoc :
           /\ Writes(current, e) /\ e.kind = extend[current].kind /\ e.due = extend[current].due
           /\ e.by = extend[current].by /\ e.landed = Amount
    BY <1>22, <1>24, LandedFacts
  <2>2. current \in Slots /\ extend'[current] = e /\ \A u \in Slots \ {current} : extend'[u] = extend[u]
    BY <1>22, <1>24, <2>1 DEF Writes
  <2>3. Amount = extend[current].by /\ Amount \in Nat
    BY <1>22, <1>24
  <2>4. PromiseOf(extend'[current]) \in Nat
    BY <2>1, <2>2, <2>3 DEF PromiseOf
  <2>5. CASE e.kind = "chain"
    <3>1. PICK m \in Nat : Amount = extend[current].landed + m /\ granted' = granted + m
      <4>1. CASE Amount = extend[current].landed
        <5>1. Amount = extend[current].landed + 0 /\ granted' = granted + 0
          BY <1>3, <1>24, <2>3, <4>1
        <5> QED
          BY <5>1
      <4>2. CASE Amount # extend[current].landed
        <5>1. Amount = extend[current].landed + Amount /\ granted' = granted + Amount
          BY <1>24, <2>3, <4>2
        <5> QED
          BY <2>3, <5>1
      <4> QED
        BY <4>1, <4>2
    <3>2. Alike(current, m)
      BY <1>5, <2>1, <2>2, <2>5, <3>1 DEF Alike
    <3>3. PromiseOf(extend'[current]) = 0 /\ PromiseOf(extend[current]) = 0
      BY <2>1, <2>2, <2>5 DEF PromiseOf
    <3>4. GivenOf(extend'[current]) = Amount /\ GivenOf(extend[current]) = extend[current].landed
      BY <2>1, <2>2, <2>5 DEF GivenOf
    <3>5. granted' + PromiseOf(extend'[current]) + lag' = granted + PromiseOf(extend[current]) + lag + m
      BY <1>3, <1>24, <3>1, <3>3
    <3>6. GivenOf(extend'[current]) <= GivenOf(extend[current]) + m
      BY <1>5, <2>2, <3>1, <3>4
    <3> QED
      BY <1>14, <1>24, <2>2, <2>4, <3>2, <3>5, <3>6
  <2>6. CASE e.kind # "chain"
    <3>1. extend[current].kind = "once" /\ extend'[current].kind = "once"
      BY <1>4, <1>22, <1>24, <2>1, <2>2, <2>6 DEF TaskDoc
    <3>2. Alike(current, 0) /\ GivenOf(extend'[current]) <= GivenOf(extend[current]) + 0
      BY <3>1 DEF Alike, GivenOf
    <3>3. granted' + PromiseOf(extend'[current]) = granted + PromiseOf(extend[current])
      <4>1. CASE Amount = extend[current].landed
        BY <1>24, <2>1, <2>2, <3>1, <4>1 DEF PromiseOf
      <4>2. CASE Amount # extend[current].landed
        <5>1. granted' = granted + Amount /\ extend[current].landed = 0 /\ Amount # 0
          BY <1>24, <4>2
        <5>2. PromiseOf(extend[current]) = Amount /\ PromiseOf(extend'[current]) = 0
          BY <2>1, <2>2, <2>3, <3>1, <5>1 DEF PromiseOf
        <5> QED
          BY <1>3, <2>3, <5>1, <5>2
      <4> QED
        BY <4>1, <4>2
    <3>4. granted' + PromiseOf(extend'[current]) + lag' = granted + PromiseOf(extend[current]) + lag + 0
      BY <1>3, <1>5, <1>24, <2>2, <2>4, <3>3
    <3> QED
      BY <1>14, <1>24, <2>2, <2>4, <3>2, <3>4
  <2> QED
    BY <2>5, <2>6
<1>25. CASE Lands
  <2>1. stage = "sign" /\ UNCHANGED editing
    BY <1>25 DEF Lands, events
  <2>2. IF Amount = extend[current].landed THEN granted' = granted
        ELSE granted' = granted + Amount /\ extend[current].landed = 0
    <3>1. CASE Called
      BY <1>3, <1>25, <3>1 DEF Lands, Refused
    <3>2. CASE ~Called
      <4>1. extend[current].landed = 0 /\ granted' = granted + Amount
        BY <1>22, <1>25, <2>1, <3>2 DEF Lands, Called
      <4> QED
        BY <1>3, <4>1
    <3> QED
      BY <3>1, <3>2
  <2>3. CASE extend' = [extend EXCEPT ![current].landed = Amount] /\ UNCHANGED lag
    BY <1>24, <2>1, <2>2, <2>3
  <2>4. CASE PutBack(Amount)
    BY <1>22, <1>23, <2>1, <2>2, <2>4
  <2> QED
    BY <1>25, <2>3, <2>4 DEF Lands
<1>26. CASE CannotLand
  <2>1. PutBack(extend[current].landed) /\ stage = "sign" /\ UNCHANGED <<editing, granted>>
    BY <1>0, <1>26 DEF CannotLand, job, events
  <2> QED
    BY <1>22, <1>23, <2>1
<1>27. CASE Errs
  <2>1. PutBack(extend[current].landed) /\ stage = "sign" /\ UNCHANGED <<editing, granted>>
    BY <1>27 DEF Errs, job, events
  <2> QED
    BY <1>22, <1>23, <2>1
<1>28. CASE Confirm
  <2>1. stage # "idle" /\ UNCHANGED <<granted, editing>>
    BY <1>28 DEF Confirm, job, events
  <2>2. CASE UNCHANGED extend
    BY <1>13, <1>28, <2>1, <2>2 DEF Confirm
  <2>3. CASE extend' # extend
    <3>1. /\ NextExtendTime(Amount, 0) = now + Amount /\ now + Amount \in Nat /\ Reschedules
          /\ InsertOnce(ChainTask(NextExtendTime(Amount, 0)))
      BY <1>3, <1>22, <1>28, <2>1, <2>3 DEF Confirm, NextExtendTime
    <3>2. PICK x \in Slots : extend[x] = NoTask /\ Writes(x, ChainTask(now + Amount))
      BY <1>3, <2>3, <3>1, InsertOnceFacts
    <3>3. extend'[x].kind = "chain" /\ extend'[x].due = now + Amount /\ extend'[x].landed = 0
      BY <3>1, <3>2, NewDocs DEF Writes
    <3>4. PromiseOf(extend'[x]) = 0 /\ GivenOf(extend'[x]) = 0 /\ \A t \in Slots \ {x} : extend'[t] = extend[t]
      BY <3>2, <3>3 DEF PromiseOf, GivenOf, Writes
    <3> DEFINE late == Late(now, extend[current].due)
    <3>5. late \in Nat /\ now <= extend[current].due + late
      BY <1>3, <1>5, <1>22, <2>1 DEF Late
    <3>6. lag' = lag + late
      BY <1>28, <2>3 DEF Confirm
    <3>7. extend[current].landed = Amount
      <4>1. ~(extend[current].landed # Amount)
        BY <1>28, <2>3, Zenon DEF Confirm
      <4> QED
        BY <4>1
    <3> HIDE DEF late
    <3>8. extend[current].due + Amount + r + Buffer <= a
      BY <1>7, <1>22, <2>1, <3>1, <3>7 DEF Levels, Level, Reschedules
    <3>9. q = p /\ s = r
      BY <1>1, <1>2, <1>5, <1>12, <2>1, <3>2, <3>4
    <3>10. extend'[x].due + extend'[x].landed + s + Buffer <= b
      <4>1. b = a + late
        BY <1>1, <1>3, <1>6, <2>1, <3>5, <3>6, <3>9
      <4> QED
        BY <1>1, <1>2, <1>3, <1>5, <1>6, <1>22, <2>1, <3>3, <3>5, <3>8, <3>9, <4>1
    <3>11. Alike(x, late)
      BY <3>10 DEF Alike
    <3>12. granted' + PromiseOf(extend'[x]) + lag' = granted + PromiseOf(extend[x]) + lag + late
      BY <1>3, <1>5, <2>1, <3>2, <3>4, <3>5, <3>6
    <3>13. GivenOf(extend'[x]) <= GivenOf(extend[x]) + late
      BY <1>5, <3>2, <3>4, <3>5
    <3> QED
      BY <1>14, <2>1, <3>4, <3>5, <3>11, <3>12, <3>13
  <2> QED
    BY <2>2, <2>3
<1>29. CASE RecordUnit
  <2>1. PICK n \in TaskDoc :
           /\ Writes(current, n) /\ n.kind = extend[current].kind /\ n.due = extend[current].due
           /\ n.landed = extend[current].landed /\ n.by = extend[current].by
    BY <1>29, RecordFacts
  <2>2. UNCHANGED <<granted, lag, editing>> /\ current \in Slots
    BY <1>22, <1>29 DEF RecordUnit, job, events, hist
  <2>3. PromiseOf(extend'[current]) = PromiseOf(extend[current]) /\ Same(current) /\ \A u \in Slots \ {current} : extend'[u] = extend[u]
    BY <2>1, <2>2 DEF Writes, PromiseOf, Same
  <2>4. granted' + PromiseOf(extend'[current]) + lag' = granted + PromiseOf(extend[current]) + lag + 0
    BY <1>3, <1>5, <2>2, <2>3
  <2>5. Alike(current, 0) /\ GivenOf(extend'[current]) <= GivenOf(extend[current]) + 0
    BY <1>9, <2>2, <2>3
  <2> QED
    BY <1>5, <1>14, <2>2, <2>3, <2>4, <2>5
<1>30. CASE Finish
  <2>1. /\ stage = "done" /\ current \in Slots /\ Writes(current, NoTask) /\ UNCHANGED <<granted, lag, editing>>
        /\ extend[current].landed > 0
    BY <1>3, <1>22, <1>30, GoneFacts DEF Finish, job, events, hist, Shape
  <2>2. PromiseOf(extend[current]) = 0 /\ PromiseOf(extend'[current]) = 0 /\ extend'[current] = NoTask
        /\ \A u \in Slots \ {current} : extend'[u] = extend[u]
    BY <1>5, <2>1 DEF PromiseOf, Writes
  <2>3. granted' + PromiseOf(extend'[current]) + lag' = granted + PromiseOf(extend[current]) + lag + 0
    BY <1>3, <2>1, <2>2
  <2>4. Alike(current, 0) /\ GivenOf(extend'[current]) <= GivenOf(extend[current]) + 0
    BY <1>11, <2>1, <2>2
  <2> QED
    BY <1>14, <2>1, <2>2, <2>3, <2>4
<1> QED
  BY <1>0, <1>15, <1>16, <1>17, <1>18, <1>19, <1>20, <1>21, <1>25, <1>26, <1>27, <1>28, <1>29, <1>30
     DEF ExtendNext, Listener, Run

(* DeadlineAndChain: while nothing of the chain is given up and each of its *)
(* EXTENDs is queued by the timeout the job was given, the edits of the     *)
(* timeout, its one-shot EXTENDs and the repeated runs never let the next   *)
(* EXTEND slip past a buffer before the deadline, but by what the handlers  *)
(* themselves have lost.                                                    *)
THEOREM DeadlineAndChain == ExtendSpec => []Lockstep
<1>1. ExtendInit => Unedited /\ Locked
  <2> SUFFICES ASSUME ExtendInit PROVE Unedited /\ Locked
    OBVIOUS
  <2>1. /\ \A t \in Slots : extend[t].kind = "none"
        /\ \A k \in Edits : editing[k] = Idle /\ \A t \in Slots : editing[k].due[t] = 0
        /\ timeout \in Nat /\ granted = timeout /\ current = 0
    BY Constants DEF ExtendInit, NoTask, Idle
  <2>2. Unedited
    BY <2>1 DEF Unedited, Foremost
  <2>3. Locked
    BY <2>1 DEF Locked, Levels, Level, Found
  <2> QED
    BY <2>2, <2>3
<1>2. Typed /\ Locked => Lockstep
  <2> SUFFICES ASSUME Typed, Locked, alive, lost = "no", ~drift, NEW t \in Chained, ~extend[t].claimed
               PROVE  extend[t].due + Buffer <= granted + Promised + lag
    BY DEF Lockstep, Aligned
  <2>1. t \in Slots /\ extend[t].kind = "chain" /\ extend[t] \in TaskDoc
    BY TypedDocs DEF Chained, Stored, Typed
  <2>2. extend[t].due + extend[t].landed + Raising + Buffer <= granted + Promised + lag
    BY <2>1 DEF Locked, Levels, Level
  <2>3. Raising \in Nat
    <3> DEFINE f == [k \in Edits |-> RaiseOf(editing[k])]
    <3>1. \A k \in Edits : f[k] \in Nat
      <4>1. \A k \in Edits : editing[k].delta \in Nat
        BY DEF Typed, ExtendTypeOK
      <4> QED
        BY <4>1 DEF RaiseOf
    <3>2. IsFiniteSet(Edits)
      BY Constants, FS_Interval DEF Edits
    <3> HIDE DEF f
    <3>3. SumFunctionOnSet(f, Edits) \in Nat
      BY <3>1, <3>2, SumType
    <3> QED
      BY <3>3 DEF Raising, f
  <2>4. Promised \in Nat
    <3> DEFINE f == Promise
    <3>1. \A u \in Slots : f[u] \in Nat
      <4>1. \A u \in Slots : extend[u].by \in Nat
        BY DEF Typed, ExtendTypeOK
      <4> QED
        BY <4>1 DEF Promise
    <3>2. IsFiniteSet(Slots)
      BY Constants, FS_Interval DEF Slots
    <3> HIDE DEF f
    <3>3. SumFunctionOnSet(f, Slots) \in Nat
      BY <3>1, <3>2, SumType
    <3> QED
      BY <3>3 DEF Promised, f
  <2>5. extend[t].due \in Nat /\ extend[t].landed \in Nat /\ granted \in Nat /\ lag \in Nat /\ Buffer \in Nat
    BY <2>1, Constants DEF TaskDoc, Typed, ExtendTypeOK
  <2> QED
    BY <2>2, <2>3, <2>4, <2>5
<1> QED
  BY <1>1, <1>2, InitTyped, TypedStep, UneditedStep, LockedStep, PTL DEF ExtendSpec
=============================================================================
