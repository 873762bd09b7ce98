------------------------------- MODULE SetSums -------------------------------
(***************************************************************************)
(* What MapThenSumSet computes.  It sums by taking out elements that CHOOSE *)
(* picks, with a function that is defined recursively over the subsets; here *)
(* is proved, by well-founded induction on finite sets, that such a          *)
(* function exists and is unique, and that the order of the elements does    *)
(* not matter.  Weights are given as a function w, so that every lemma is    *)
(* first-order.                                                              *)
(***************************************************************************)
EXTENDS Integers, FiniteSets, FiniteSetTheorems, WellFoundedInduction, TLAPS

Pick(s) == CHOOSE x \in s : TRUE

\* g[s] is the sum of the weights of s, for every s \subseteq S.
IsSum(g, w, S) ==
    g = [s \in SUBSET S |-> IF s = {} THEN 0 ELSE w[Pick(s)] + g[s \ {Pick(s)}]]

Total(w, S) == (CHOOSE g : IsSum(g, w, S))[S]

\* A set of finite sets that is not empty has a minimal element: induction on
\* finite sets, in a form that takes a set instead of a predicate.
LEMMA MinimalSet ==
    ASSUME NEW S, NEW B, IsFiniteSet(S), B \subseteq SUBSET S, B # {}
    PROVE  \E s \in B : \A t \in SUBSET s : t # s => t \notin B
<1>1. FiniteSubsetsOf(S) = SUBSET S
  BY FS_FiniteSubsetsOfFinite
<1>2. IsWellFoundedOn(StrictSubsetOrdering(S), FiniteSubsetsOf(S))
  BY FS_StrictSubsetOrderingWellFounded
<1>3. PICK s \in B : \A t \in B : ~(<<t, s>> \in StrictSubsetOrdering(S))
  BY <1>1, <1>2, WFMin
<1>4. QED
  BY <1>3 DEF StrictSubsetOrdering

LEMMA PickIn == \A s : s # {} => Pick(s) \in s
BY DEF Pick

\* Two such functions agree where both are defined.
LEMMA SumUnique ==
    ASSUME NEW S, NEW T, IsFiniteSet(S), S \subseteq T, NEW w, NEW g, NEW h,
           IsSum(g, w, S), IsSum(h, w, T)
    PROVE  \A s \in SUBSET S : g[s] = h[s]
<1> DEFINE B == {s \in SUBSET S : g[s] # h[s]}
<1> SUFFICES ASSUME B # {} PROVE FALSE
  OBVIOUS
<1>0. B \subseteq SUBSET S
  OBVIOUS
<1>1. PICK s \in B : \A t \in SUBSET s : t # s => t \notin B
  <2> HIDE DEF B
  <2> QED
    BY <1>0, MinimalSet
<1>2. s \in SUBSET S /\ s \in SUBSET T
  OBVIOUS
<1>3. g[s] = IF s = {} THEN 0 ELSE w[Pick(s)] + g[s \ {Pick(s)}]
  BY <1>2 DEF IsSum
<1>4. h[s] = IF s = {} THEN 0 ELSE w[Pick(s)] + h[s \ {Pick(s)}]
  BY <1>2 DEF IsSum
<1>5. s # {} => s \ {Pick(s)} \in SUBSET s /\ s \ {Pick(s)} # s
  BY PickIn
<1>6. s # {} => g[s \ {Pick(s)}] = h[s \ {Pick(s)}]
  BY <1>1, <1>5
<1>7. QED
  BY <1>1, <1>3, <1>4, <1>6

\* A sum on a set is one on its subsets.
LEMMA SumRestricts ==
    ASSUME NEW S, NEW T \in SUBSET S, NEW w, NEW g, IsSum(g, w, S)
    PROVE  IsSum([s \in SUBSET T |-> g[s]], w, T)
<1> DEFINE h == [s \in SUBSET T |-> g[s]]
<1>1. ASSUME NEW s \in SUBSET T
      PROVE  h[s] = IF s = {} THEN 0 ELSE w[Pick(s)] + h[s \ {Pick(s)}]
  <2>1. s \in SUBSET S /\ s \ {Pick(s)} \in SUBSET T
    OBVIOUS
  <2>2. g[s] = IF s = {} THEN 0 ELSE w[Pick(s)] + g[s \ {Pick(s)}]
    BY <2>1 DEF IsSum
  <2>3. QED
    BY <2>1, <2>2
<1>2. QED
  BY <1>1 DEF IsSum

LEMMA SumExists ==
    ASSUME NEW S, IsFiniteSet(S), NEW w
    PROVE  \E g : IsSum(g, w, S)
<1> DEFINE B == {s \in SUBSET S : ~ \E g : IsSum(g, w, s)}
<1> SUFFICES ASSUME B # {} PROVE FALSE
  OBVIOUS
<1>1. PICK s \in B : \A t \in SUBSET s : t # s => t \notin B
  BY MinimalSet
<1>2. \A t \in SUBSET s : t # s => \E g : IsSum(g, w, t)
  BY <1>1
<1> DEFINE G(t) == CHOOSE g : IsSum(g, w, t)
           rest(t) == t \ {Pick(t)}
           h == [t \in SUBSET s |-> IF t = {} THEN 0 ELSE w[Pick(t)] + G(rest(t))[rest(t)]]
<1>3. ASSUME NEW t \in SUBSET s, t # s PROVE IsSum(G(t), w, t)
  BY <1>2, <1>3
<1>4. ASSUME NEW t \in SUBSET s, t # {}
      PROVE  h[rest(t)] = G(rest(t))[rest(t)]
  <2> DEFINE u == rest(t)
  <2>1. u \in SUBSET s /\ u # s /\ u \in SUBSET u /\ IsFiniteSet(u)
    BY <1>4, PickIn, FS_Subset
  <2>2. IsSum(G(u), w, u)
    BY <1>3, <2>1
  <2>3. G(u)[u] = IF u = {} THEN 0 ELSE w[Pick(u)] + G(u)[rest(u)]
    BY <2>1, <2>2 DEF IsSum
  <2>4. ASSUME u # {} PROVE G(u)[rest(u)] = G(rest(u))[rest(u)]
    <3> DEFINE v == rest(u)
    <3>1. v \in SUBSET u /\ v \in SUBSET s /\ v # s /\ IsFiniteSet(v) /\ v \in SUBSET v
      BY <2>1, <2>4, PickIn, FS_Subset
    <3>2. IsSum(G(v), w, v)
      BY <1>3, <3>1
    <3>3. QED
      BY <2>2, <3>1, <3>2, SumUnique
  <2>5. h[u] = IF u = {} THEN 0 ELSE w[Pick(u)] + G(rest(u))[rest(u)]
    BY <2>1
  <2>6. QED
    BY <2>3, <2>4, <2>5
<1>5. IsSum(h, w, s)
  <2>1. ASSUME NEW t \in SUBSET s
        PROVE  h[t] = IF t = {} THEN 0 ELSE w[Pick(t)] + h[rest(t)]
    <3>1. h[t] = IF t = {} THEN 0 ELSE w[Pick(t)] + G(rest(t))[rest(t)]
      OBVIOUS
    <3> HIDE DEF h, G, rest
    <3>2. QED
      BY <1>4, <3>1
  <2>2. h = [t \in SUBSET s |-> h[t]]
    OBVIOUS
  <2>3. QED
    <3> HIDE DEF h
    <3> QED
      BY <2>1, <2>2 DEF IsSum
<1>6. QED
  BY <1>1, <1>5

-----------------------------------------------------------------------------
(* The laws of sums *)

LEMMA SumIsTotal ==
    ASSUME NEW S, IsFiniteSet(S), NEW w, NEW g, IsSum(g, w, S)
    PROVE  g[S] = Total(w, S)
<1> DEFINE h == CHOOSE f : IsSum(f, w, S)
<1>1. IsSum(h, w, S)
  OBVIOUS
<1>2. g[S] = h[S]
  BY <1>1, SumUnique
<1>3. QED
  BY <1>2 DEF Total

LEMMA TotalDef ==
    ASSUME NEW S, IsFiniteSet(S), NEW w
    PROVE  Total(w, S) = IF S = {} THEN 0 ELSE w[Pick(S)] + Total(w, S \ {Pick(S)})
<1> DEFINE T == S \ {Pick(S)}
<1>1. PICK g : IsSum(g, w, S)
  BY SumExists
<1>2. g[S] = IF S = {} THEN 0 ELSE w[Pick(S)] + g[T]
  BY <1>1 DEF IsSum
<1>3. g[S] = Total(w, S)
  BY <1>1, SumIsTotal
<1>4. g[T] = Total(w, T)
  <2>1. T \in SUBSET S /\ IsFiniteSet(T) /\ T \in SUBSET T
    BY FS_Subset
  <2> DEFINE h == [s \in SUBSET T |-> g[s]]
  <2>2. IsSum(h, w, T)
    BY <1>1, <2>1, SumRestricts
  <2>3. h[T] = Total(w, T)
    <3> HIDE DEF h, T
    <3> QED
      BY <2>1, <2>2, SumIsTotal
  <2>4. QED
    BY <2>1, <2>3
<1>5. QED
  BY <1>2, <1>3, <1>4

\* Only the weights of the elements count.
LEMMA TotalEqual ==
    ASSUME NEW S, IsFiniteSet(S), NEW w, NEW v, \A x \in S : w[x] = v[x]
    PROVE  Total(w, S) = Total(v, S)
<1>1. PICK g : IsSum(g, w, S)
  BY SumExists
<1>2. \A s \in SUBSET S : s # {} => w[Pick(s)] = v[Pick(s)]
  BY PickIn
<1>3. IsSum(g, v, S)
  BY <1>1, <1>2 DEF IsSum
<1>4. QED
  BY <1>1, <1>3, SumIsTotal

LEMMA TotalInt ==
    ASSUME NEW S, IsFiniteSet(S), NEW w, \A x \in S : w[x] \in Int
    PROVE  Total(w, S) \in Int
<1> DEFINE B == {s \in SUBSET S : Total(w, s) \notin Int}
<1> SUFFICES ASSUME B # {} PROVE FALSE
  OBVIOUS
<1>0. B \subseteq SUBSET S
  OBVIOUS
<1>1. PICK s \in B : \A t \in SUBSET s : t # s => t \notin B
  <2> HIDE DEF B
  <2> QED
    BY <1>0, MinimalSet
<1>2. IsFiniteSet(s)
  BY FS_Subset
<1>3. Total(w, s) = IF s = {} THEN 0 ELSE w[Pick(s)] + Total(w, s \ {Pick(s)})
  BY <1>2, TotalDef
<1>4. ASSUME s # {} PROVE Total(w, s \ {Pick(s)}) \in Int /\ w[Pick(s)] \in Int
  BY <1>1, <1>4, PickIn
<1>5. QED
  BY <1>3, <1>4

LEMMA TotalNat ==
    ASSUME NEW S, IsFiniteSet(S), NEW w, \A x \in S : w[x] \in Nat
    PROVE  Total(w, S) \in Nat
<1> DEFINE B == {s \in SUBSET S : Total(w, s) \notin Nat}
<1> SUFFICES ASSUME B # {} PROVE FALSE
  OBVIOUS
<1>0. B \subseteq SUBSET S
  OBVIOUS
<1>1. PICK s \in B : \A t \in SUBSET s : t # s => t \notin B
  <2> HIDE DEF B
  <2> QED
    BY <1>0, MinimalSet
<1>2. IsFiniteSet(s)
  BY FS_Subset
<1>3. Total(w, s) = IF s = {} THEN 0 ELSE w[Pick(s)] + Total(w, s \ {Pick(s)})
  BY <1>2, TotalDef
<1>4. ASSUME s # {} PROVE Total(w, s \ {Pick(s)}) \in Nat /\ w[Pick(s)] \in Nat
  BY <1>1, <1>4, PickIn
<1>5. QED
  BY <1>3, <1>4

\* Any element may be taken out, not only the one CHOOSE picks.
LEMMA TotalRemove ==
    ASSUME NEW S, IsFiniteSet(S), NEW w, \A x \in S : w[x] \in Int, NEW x \in S
    PROVE  Total(w, S) = w[x] + Total(w, S \ {x})
<1> DEFINE Good(s) == \A y \in s : Total(w, s) = w[y] + Total(w, s \ {y})
           B == {s \in SUBSET S : ~Good(s)}
<1> SUFFICES ASSUME B # {} PROVE FALSE
  OBVIOUS
<1>0. B \subseteq SUBSET S
  OBVIOUS
<1>1. PICK s \in B : \A t \in SUBSET s : t # s => t \notin B
  <2> HIDE DEF B
  <2> QED
    BY <1>0, MinimalSet
<1>2. PICK y \in s : Total(w, s) # w[y] + Total(w, s \ {y})
  BY <1>1
<1>3. \A t \in SUBSET s : IsFiniteSet(t) /\ Total(w, t) \in Int
  BY FS_Subset, TotalInt
<1> DEFINE p == Pick(s)
           rest == (s \ {p}) \ {y}
<1>4. p \in s /\ s \in SUBSET s
  BY PickIn
<1>5. Total(w, s) = w[p] + Total(w, s \ {p})
  BY <1>3, <1>4, TotalDef
<1>6. p # y
  BY <1>2, <1>5
<1>7. Total(w, s \ {p}) = w[y] + Total(w, rest)
  BY <1>1, <1>4, <1>6
<1>8. Total(w, s \ {y}) = w[p] + Total(w, rest)
  <2>1. Good(s \ {y})
    BY <1>1
  <2>2. (s \ {y}) \ {p} = rest
    OBVIOUS
  <2>3. QED
    BY <1>4, <1>6, <2>1, <2>2
<1>9. w[p] \in Int /\ w[y] \in Int /\ Total(w, rest) \in Int
  BY <1>3, <1>4
<1>10. QED
  BY <1>2, <1>5, <1>7, <1>8, <1>9

\* A new element adds its weight.
LEMMA TotalAdd ==
    ASSUME NEW S, IsFiniteSet(S), NEW x, x \notin S,
           NEW w, \A y \in S : w[y] \in Int, NEW v, v[x] \in Int, \A y \in S : v[y] = w[y]
    PROVE  Total(v, S \cup {x}) = Total(w, S) + v[x]
<1>1. IsFiniteSet(S \cup {x})
  BY FS_AddElement
<1>2. (S \cup {x}) \ {x} = S
  OBVIOUS
<1>3. Total(v, S \cup {x}) = v[x] + Total(v, S)
  <2> DEFINE T == S \cup {x}
  <2>1. x \in T /\ \A y \in T : v[y] \in Int
    OBVIOUS
  <2>2. Total(v, T) = v[x] + Total(v, T \ {x})
    <3> HIDE DEF T
    <3> QED
      BY <1>1, <2>1, TotalRemove DEF T
  <2>3. QED
    BY <1>2, <2>2
<1>4. Total(v, S) = Total(w, S) /\ Total(w, S) \in Int
  BY TotalEqual, TotalInt
<1>5. QED
  BY <1>2, <1>3, <1>4

\* When the weight of one element changes, so does the sum.
LEMMA TotalChange ==
    ASSUME NEW S, IsFiniteSet(S), NEW x \in S,
           NEW w, \A y \in S : w[y] \in Int, NEW v, v[x] \in Int,
           \A y \in S \ {x} : v[y] = w[y]
    PROVE  Total(v, S) = Total(w, S) + (v[x] - w[x])
<1>1. IsFiniteSet(S \ {x}) /\ x \notin S \ {x}
  BY FS_RemoveElement
<1>2. \A y \in S : v[y] \in Int
  OBVIOUS
<1>3. Total(v, S) = v[x] + Total(v, S \ {x}) /\ Total(w, S) = w[x] + Total(w, S \ {x})
  BY <1>2, TotalRemove
<1>4. Total(v, S \ {x}) = Total(w, S \ {x}) /\ Total(w, S \ {x}) \in Int
  BY <1>1, TotalEqual, TotalInt
<1>5. QED
  BY <1>3, <1>4

==============================================================================
