-------------------------- MODULE FiniteSumsProofs --------------------------
(***************************************************************************)
(* What a sum over a finite set is: its type, and what an element more or  *)
(* less changes.                                                           *)
(***************************************************************************)
EXTENDS FiniteSums, FiniteSetTheorems, TLAPS

(***************************************************************************)
(* The fold of the community modules is a recursive function over subsets; *)
(* induction over the subsets of a finite set is had, in the form of a set *)
(* of subsets instead of a predicate, from the well-foundedness of         *)
(* inclusion.                                                              *)
(***************************************************************************)
First(s) == CHOOSE x \in s : TRUE

IsIter(g, f, S) ==
  g = [s \in SUBSET S |-> IF s = {} THEN 0 ELSE f[First(s)] + g[s \ {First(s)}]]

Iter(f, S) == CHOOSE g : IsIter(g, f, S)

LEMMA TotalIsIter ==
  ASSUME NEW f, NEW S
  PROVE  Total(f, S) = Iter(f, S)[S]
  BY Zenon DEF Total, FoldFunctionOnSet, MapThenFoldSet, IsIter, First, Iter

LEMMA SubsetInduction ==
  ASSUME NEW S, IsFiniteSet(S), NEW F \in SUBSET SUBSET S,
         \A T \in SUBSET S : (\A U \in SUBSET T : U # T => U \in F) => T \in F
  PROVE  S \in F
<1> DEFINE B == (SUBSET S) \ F
<1> SUFFICES ASSUME B # {}
             PROVE FALSE
  OBVIOUS
<1>1. IsWellFoundedOn(StrictSubsetOrdering(S), FiniteSubsetsOf(S))
  BY FS_StrictSubsetOrderingWellFounded
<1>2. B \subseteq FiniteSubsetsOf(S)
  BY FS_FiniteSubsetsOfFinite
<1>3. PICK T \in B : \A U \in B : <<U, T>> \notin StrictSubsetOrdering(S)
  <2> HIDE DEF B
  <2> QED
    BY <1>1, <1>2, WFMin
<1>4. \A U \in SUBSET T : U # T => U \in F
  BY <1>3 DEF StrictSubsetOrdering
<1> QED
  BY <1>3, <1>4

LEMMA FirstIn ==
  ASSUME NEW s, s # {}
  PROVE  First(s) \in s
  BY DEF First

(***************************************************************************)
(* The recursive function over the subsets of a finite set: what it does   *)
(* on the subsets of a subset, that there is at most one, and that there   *)
(* is one.                                                                 *)
(***************************************************************************)
LEMMA IterRestricted ==
  ASSUME NEW f, NEW T, NEW h, IsIter(h, f, T), NEW U \in SUBSET T
  PROVE  IsIter([s \in SUBSET U |-> h[s]], f, U)
<1> DEFINE k == [s \in SUBSET U |-> h[s]]
<1>1. ASSUME NEW s \in SUBSET U
      PROVE  k[s] = IF s = {} THEN 0 ELSE f[First(s)] + k[s \ {First(s)}]
  <2>1. h[s] = IF s = {} THEN 0 ELSE f[First(s)] + h[s \ {First(s)}]
    BY DEF IsIter
  <2>2. s \ {First(s)} \in SUBSET U
    OBVIOUS
  <2> QED
    BY <2>1, <2>2
<1> QED
  BY <1>1 DEF IsIter

LEMMA IterUnique ==
  ASSUME NEW f, NEW S, IsFiniteSet(S), NEW g, NEW h, IsIter(g, f, S), IsIter(h, f, S)
  PROVE  g[S] = h[S]
<1> DEFINE F == {T \in SUBSET S : g[T] = h[T]}
<1>1. ASSUME NEW T \in SUBSET S, \A U \in SUBSET T : U # T => U \in F
      PROVE  T \in F
  <2>1. /\ g[T] = IF T = {} THEN 0 ELSE f[First(T)] + g[T \ {First(T)}]
        /\ h[T] = IF T = {} THEN 0 ELSE f[First(T)] + h[T \ {First(T)}]
    BY DEF IsIter
  <2>2. T # {} => g[T \ {First(T)}] = h[T \ {First(T)}]
    BY <1>1, FirstIn
  <2> QED
    BY <2>1, <2>2
<1>2. F \in SUBSET SUBSET S
  OBVIOUS
<1>3. S \in F
  <2> HIDE DEF F
  <2> QED
    BY <1>1, <1>2, SubsetInduction
<1> QED
  BY <1>3

LEMMA IterExists ==
  ASSUME NEW f, NEW S, IsFiniteSet(S)
  PROVE  IsIter(Iter(f, S), f, S)
<1> DEFINE F == {T \in SUBSET S : IsIter(Iter(f, T), f, T)}
<1>1. ASSUME NEW T \in SUBSET S, \A U \in SUBSET T : U # T => U \in F
      PROVE  T \in F
  <2> DEFINE V(s) == Iter(f, s)[s]
             g == [s \in SUBSET T |->
                     IF s = {} THEN 0 ELSE f[First(s)] + V(s \ {First(s)})]
  <2>1. ASSUME NEW u \in SUBSET T, u # T
        PROVE  g[u] = V(u)
    <3> DEFINE h == Iter(f, u)
    <3>1. IsIter(h, f, u)
      BY <1>1, <2>1
    <3>2. h[u] = IF u = {} THEN 0 ELSE f[First(u)] + h[u \ {First(u)}]
      <4> HIDE DEF h
      <4> QED
        BY <3>1 DEF IsIter
    <3>3. ASSUME u # {}
          PROVE  h[u \ {First(u)}] = V(u \ {First(u)})
      <4> DEFINE w == u \ {First(u)}
                 k == [s \in SUBSET w |-> h[s]]
      <4>1. w \in SUBSET u /\ w \in SUBSET T /\ w # T
        BY <3>3, FirstIn
      <4>2. IsIter(k, f, w)
        <5> HIDE DEF h, w
        <5> QED
          BY <3>1, <4>1, IterRestricted
      <4>3. IsIter(Iter(f, w), f, w)
        <5> HIDE DEF w
        <5> QED
          BY <1>1, <4>1
      <4>4. IsFiniteSet(w)
        BY <4>1, FS_Subset
      <4>5. k[w] = Iter(f, w)[w]
        <5> HIDE DEF w, k
        <5> QED
          BY <4>2, <4>3, <4>4, IterUnique
      <4>6. k[w] = h[w]
        <5> HIDE DEF w, h
        <5> QED
          OBVIOUS
      <4> QED
        BY <4>5, <4>6
    <3>4. g[u] = IF u = {} THEN 0 ELSE f[First(u)] + V(u \ {First(u)})
      <4> HIDE DEF V
      <4> QED
        OBVIOUS
    <3> QED
      BY <3>2, <3>3, <3>4
  <2>2. ASSUME NEW s \in SUBSET T
        PROVE  g[s] = IF s = {} THEN 0 ELSE f[First(s)] + g[s \ {First(s)}]
    <3>1. s # {} => V(s \ {First(s)}) = g[s \ {First(s)}]
      <4> SUFFICES ASSUME s # {}
                   PROVE  V(s \ {First(s)}) = g[s \ {First(s)}]
        OBVIOUS
      <4>1. s \ {First(s)} \in SUBSET T /\ s \ {First(s)} # T
        BY FirstIn
      <4> HIDE DEF g, V
      <4> QED
        BY <2>1, <4>1
    <3>2. g[s] = IF s = {} THEN 0 ELSE f[First(s)] + V(s \ {First(s)})
      <4> HIDE DEF V
      <4> QED
        OBVIOUS
    <3> HIDE DEF g, V
    <3> QED
      BY <3>1, <3>2
  <2>3. IsIter(g, f, T)
    <3>1. g = [s \in SUBSET T |-> g[s]]
      <4> HIDE DEF V
      <4> QED
        OBVIOUS
    <3> HIDE DEF g
    <3> QED
      BY <2>2, <3>1 DEF IsIter
  <2>4. IsIter(Iter(f, T), f, T)
    <3> HIDE DEF g
    <3> QED
      BY <2>3 DEF Iter
  <2> QED
    BY <2>4
<1>2. F \in SUBSET SUBSET S
  OBVIOUS
<1>3. S \in F
  <2> HIDE DEF F
  <2> QED
    BY <1>1, <1>2, SubsetInduction
<1> QED
  BY <1>3

(***************************************************************************)
(* The sum, one element at a time in the order of the definition.          *)
(***************************************************************************)
LEMMA TotalStep ==
  ASSUME NEW f, NEW S, IsFiniteSet(S)
  PROVE  Total(f, S) = IF S = {} THEN 0 ELSE f[First(S)] + Total(f, S \ {First(S)})
<1> DEFINE h == Iter(f, S)
           w == S \ {First(S)}
           k == [s \in SUBSET w |-> h[s]]
<1>1. IsIter(h, f, S)
  BY IterExists
<1>2. h[S] = IF S = {} THEN 0 ELSE f[First(S)] + h[w]
  <2> HIDE DEF h
  <2> QED
    BY <1>1 DEF IsIter
<1>3. IsFiniteSet(w) /\ w \in SUBSET S
  BY FS_Subset
<1>4. IsIter(k, f, w)
  <2> HIDE DEF h, w
  <2> QED
    BY <1>1, <1>3, IterRestricted
<1>5. IsIter(Iter(f, w), f, w)
  <2> HIDE DEF w
  <2> QED
    BY <1>3, IterExists
<1>6. k[w] = Iter(f, w)[w]
  <2> HIDE DEF w, k
  <2> QED
    BY <1>3, <1>4, <1>5, IterUnique
<1>7. k[w] = h[w]
  <2> HIDE DEF w, h
  <2> QED
    OBVIOUS
<1>8. Total(f, S) = h[S] /\ Total(f, w) = Iter(f, w)[w]
  BY TotalIsIter
<1> HIDE DEF h, k
<1> QED
  BY <1>2, <1>6, <1>7, <1>8

(***************************************************************************)
(* The sum of integers is an integer, and it depends on the values only.   *)
(***************************************************************************)
LEMMA TotalType ==
  ASSUME NEW f, NEW S, IsFiniteSet(S), \A x \in S : f[x] \in Int
  PROVE  Total(f, S) \in Int
<1> DEFINE F == {T \in SUBSET S : Total(f, T) \in Int}
<1>1. ASSUME NEW T \in SUBSET S, \A U \in SUBSET T : U # T => U \in F
      PROVE  T \in F
  <2>1. Total(f, T) = IF T = {} THEN 0 ELSE f[First(T)] + Total(f, T \ {First(T)})
    BY TotalStep, FS_Subset
  <2>2. T # {} => First(T) \in T /\ Total(f, T \ {First(T)}) \in Int
    BY <1>1, FirstIn
  <2> QED
    BY <2>1, <2>2
<1>2. F \in SUBSET SUBSET S
  OBVIOUS
<1>3. S \in F
  <2> HIDE DEF F
  <2> QED
    BY <1>1, <1>2, SubsetInduction
<1> QED
  BY <1>3

LEMMA TotalSame ==
  ASSUME NEW f, NEW g, NEW S, IsFiniteSet(S), \A x \in S : f[x] = g[x]
  PROVE  Total(f, S) = Total(g, S)
<1> DEFINE F == {T \in SUBSET S : Total(f, T) = Total(g, T)}
<1>1. ASSUME NEW T \in SUBSET S, \A U \in SUBSET T : U # T => U \in F
      PROVE  T \in F
  <2>1. /\ Total(f, T) = IF T = {} THEN 0 ELSE f[First(T)] + Total(f, T \ {First(T)})
        /\ Total(g, T) = IF T = {} THEN 0 ELSE g[First(T)] + Total(g, T \ {First(T)})
    BY TotalStep, FS_Subset
  <2>2. T # {} => /\ f[First(T)] = g[First(T)]
                  /\ Total(f, T \ {First(T)}) = Total(g, T \ {First(T)})
    BY <1>1, FirstIn
  <2> QED
    BY <2>1, <2>2
<1>2. F \in SUBSET SUBSET S
  OBVIOUS
<1>3. S \in F
  <2> HIDE DEF F
  <2> QED
    BY <1>1, <1>2, SubsetInduction
<1> QED
  BY <1>3

LEMMA TotalEmpty ==
  ASSUME NEW f
  PROVE  Total(f, {}) = 0
  BY TotalStep, FS_EmptySet

(***************************************************************************)
(* Any element can be taken out first.                                     *)
(***************************************************************************)
LEMMA TotalRemove ==
  ASSUME NEW f, NEW S, IsFiniteSet(S), \A x \in S : f[x] \in Int, NEW x \in S
  PROVE  Total(f, S) = f[x] + Total(f, S \ {x})
<1> DEFINE F == {T \in SUBSET S : \A y \in T : Total(f, T) = f[y] + Total(f, T \ {y})}
<1>1. ASSUME NEW T \in SUBSET S, \A U \in SUBSET T : U # T => U \in F
      PROVE  T \in F
  <2> SUFFICES ASSUME NEW y \in T
               PROVE  Total(f, T) = f[y] + Total(f, T \ {y})
    OBVIOUS
  <2> DEFINE z == First(T)
  <2>1. z \in T /\ Total(f, T) = f[z] + Total(f, T \ {z})
    BY TotalStep, FirstIn, FS_Subset
  <2> HIDE DEF z
  <2>2. CASE y = z
    BY <2>1, <2>2
  <2>3. CASE y # z
    <3>1. Total(f, T \ {z}) = f[y] + Total(f, (T \ {z}) \ {y})
      BY <1>1, <2>1, <2>3
    <3>2. Total(f, T \ {y}) = f[z] + Total(f, (T \ {y}) \ {z})
      BY <1>1, <2>1, <2>3
    <3>3. (T \ {y}) \ {z} = (T \ {z}) \ {y}
      OBVIOUS
    <3>4. Total(f, (T \ {z}) \ {y}) \in Int
      <4> DEFINE w == (T \ {z}) \ {y}
      <4>1. IsFiniteSet(w)
        <5>1. w \in SUBSET S
          OBVIOUS
        <5> HIDE DEF w
        <5> QED
          BY <5>1, FS_Subset
      <4>2. ASSUME NEW v \in w PROVE f[v] \in Int
        <5>1. v \in S
          OBVIOUS
        <5> QED
          BY <5>1
      <4>3. Total(f, w) \in Int
        <5> HIDE DEF w
        <5> QED
          BY <4>1, <4>2, TotalType
      <4> QED
        BY <4>3
    <3>5. f[y] \in Int /\ f[z] \in Int
      BY <2>1
    <3> DEFINE rest == Total(f, (T \ {z}) \ {y})
    <3>6. /\ Total(f, T \ {z}) = f[y] + rest /\ Total(f, T \ {y}) = f[z] + rest
          /\ rest \in Int
      BY <3>1, <3>2, <3>3, <3>4
    <3> HIDE DEF rest
    <3> QED
      BY <2>1, <3>5, <3>6
  <2> QED
    BY <2>2, <2>3
<1>2. F \in SUBSET SUBSET S
  OBVIOUS
<1>3. S \in F
  <2> HIDE DEF F
  <2> QED
    BY <1>1, <1>2, SubsetInduction
<1> QED
  BY <1>3

LEMMA TotalInsert ==
  ASSUME NEW f, NEW S, IsFiniteSet(S), \A y \in S : f[y] \in Int, NEW x, x \notin S,
         f[x] \in Int
  PROVE  Total(f, S \cup {x}) = f[x] + Total(f, S)
<1> DEFINE T == S \cup {x}
<1>1. IsFiniteSet(T) /\ \A y \in T : f[y] \in Int
  BY FS_AddElement
<1>2. x \in T /\ T \ {x} = S
  OBVIOUS
<1> HIDE DEF T
<1>3. Total(f, T) = f[x] + Total(f, T \ {x})
  BY <1>1, <1>2, TotalRemove
<1> QED
  BY <1>2, <1>3 DEF T

(***************************************************************************)
(* A part of what is not negative is no more than the whole.               *)
(***************************************************************************)
LEMMA TotalPart ==
  ASSUME NEW f, NEW S, IsFiniteSet(S), \A x \in S : f[x] \in Nat, NEW P \in SUBSET S
  PROVE  Total(f, P) <= Total(f, S)
<1> DEFINE F == {T \in SUBSET S : P \subseteq T => Total(f, P) <= Total(f, T)}
<1>0. ASSUME NEW T \in SUBSET S
      PROVE  IsFiniteSet(T) /\ Total(f, T) \in Int /\ \A x \in T : f[x] \in Int
  BY FS_Subset, TotalType
<1>1. ASSUME NEW T \in SUBSET S, \A U \in SUBSET T : U # T => U \in F
      PROVE  T \in F
  <2> SUFFICES ASSUME P \subseteq T, P # T
               PROVE  Total(f, P) <= Total(f, T)
    BY <1>0
  <2>1. PICK x \in T : x \notin P
    OBVIOUS
  <2>2. Total(f, T) = f[x] + Total(f, T \ {x})
    BY <1>0, TotalRemove
  <2>3. Total(f, P) <= Total(f, T \ {x})
    BY <1>1, <2>1
  <2>4. f[x] \in Nat /\ Total(f, P) \in Int /\ Total(f, T \ {x}) \in Int
    BY <1>0, <2>1
  <2> QED
    BY <2>2, <2>3, <2>4
<1>2. F \in SUBSET SUBSET S
  OBVIOUS
<1>3. S \in F
  <2> HIDE DEF F
  <2> QED
    BY <1>1, <1>2, SubsetInduction
<1> QED
  BY <1>3

=============================================================================
