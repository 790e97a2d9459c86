----------------------------- MODULE SumLemmas -----------------------------
(***************************************************************************)
(* Facts about SumFunction of the community module Functions, which       *)
(* RTScheduler uses for queue->size of a heap held as a count of entries   *)
(* per descriptor.  SumFunction is a fold: a function over the subsets of  *)
(* the domain that adds the value at a chosen element to the sum over the  *)
(* rest.  It is unfolded here once, with WFInductiveDef over strict subset *)
(* inclusion, and its facts follow by induction over subsets.              *)
(***************************************************************************)
EXTENDS Naturals, FiniteSets, Functions, FiniteSetTheorems,
        WellFoundedInduction, TLAPS

\* The element the fold takes first from a nonempty set.
Chosen(s) == CHOOSE elem \in s : TRUE

\* One step of the fold of f over s, g the fold over smaller sets.
SumStep(f, g, s) == IF s = {} THEN 0 ELSE f[Chosen(s)] + g[s \ {Chosen(s)}]

\* The fold's function over the subsets of T.
SumIter(f, T) == CHOOSE sum : sum = [s \in SUBSET T |-> SumStep(f, sum, s)]

LEMMA SumIsIter ==
    ASSUME NEW f
    PROVE  SumFunction(f) = SumIter(f, DOMAIN f)[DOMAIN f]
BY DEF SumFunction, SumFunctionOnSet, FoldFunctionOnSet, MapThenFoldSet,
       SumIter, SumStep, Chosen

\* Strict inclusion is well-founded on the subsets of a finite set.
LEMMA SubsetWF ==
    ASSUME NEW T, IsFiniteSet(T)
    PROVE  IsWellFoundedOn(StrictSubsetOrdering(T), SUBSET T)
<1>1. FiniteSubsetsOf(T) = SUBSET T
  BY FS_FiniteSubsetsOfFinite
<1> QED
  BY <1>1, FS_StrictSubsetOrderingWellFounded

\* A nonempty set less its chosen element is a strict subset of it.
LEMMA ChosenLess ==
    ASSUME NEW T, NEW s \in SUBSET T, s # {}
    PROVE  /\ Chosen(s) \in s
           /\ s \ {Chosen(s)} \in SetLessThan(s, StrictSubsetOrdering(T), SUBSET T)
BY DEF Chosen, SetLessThan, StrictSubsetOrdering

\* The fold's recursion equation.
LEMMA SumIterDef ==
    ASSUME NEW f, NEW T, IsFiniteSet(T)
    PROVE  \A s \in SUBSET T : SumIter(f, T)[s] = SumStep(f, SumIter(f, T), s)
<1> DEFINE D(g, s) == SumStep(f, g, s)
           R == StrictSubsetOrdering(T)
           F == SumIter(f, T)
<1>1. IsWellFoundedOn(R, SUBSET T)
  BY SubsetWF
<1>2. WFDefOn(R, SUBSET T, D)
  <2> SUFFICES ASSUME NEW g, NEW h, NEW s \in SUBSET T,
                      \A y \in SetLessThan(s, R, SUBSET T) : g[y] = h[y]
               PROVE  D(g, s) = D(h, s)
    BY DEF WFDefOn
  <2>1. CASE s = {}
    BY <2>1 DEF SumStep
  <2>2. CASE s # {}
    BY <2>2, ChosenLess DEF SumStep
  <2> QED
    BY <2>1, <2>2
<1>3. OpDefinesFcn(F, SUBSET T, D)
  BY DEF OpDefinesFcn, SumIter
<1>4. WFInductiveDefines(F, SUBSET T, D)
  <2> HIDE DEF D, R, F
  <2> QED
    BY <1>1, <1>2, <1>3, WFInductiveDef
<1> QED
  BY <1>4 DEF WFInductiveDefines

\* Induction over the subsets of a finite set, one chosen element at a
\* time: a set G that holds each subset once it holds that subset less its
\* chosen element holds them all.
LEMMA SubsetInduction ==
    ASSUME NEW T, IsFiniteSet(T), NEW G,
           \A s \in SUBSET T : (s # {} => s \ {Chosen(s)} \in G) => s \in G
    PROVE  SUBSET T \subseteq G
<1> SUFFICES ASSUME (SUBSET T) \ G # {} PROVE FALSE
  OBVIOUS
<1>1. \E s \in (SUBSET T) \ G :
         \A y \in (SUBSET T) \ G : ~(<<y, s>> \in StrictSubsetOrdering(T))
  BY SubsetWF, WFMin
<1>2. PICK s \in (SUBSET T) \ G :
         \A y \in (SUBSET T) \ G : ~(<<y, s>> \in StrictSubsetOrdering(T))
  BY <1>1
<1>3. s # {}
  BY <1>2
<1>a. PICK u : u = s \ {Chosen(s)}
  OBVIOUS
<1>b. u \in SUBSET T /\ <<u, s>> \in StrictSubsetOrdering(T)
  <2>1. u \in SetLessThan(s, StrictSubsetOrdering(T), SUBSET T)
    BY <1>a, <1>3, ChosenLess
  <2> QED
    BY <2>1 DEF SetLessThan
<1>4. s \ {Chosen(s)} \in G
  BY <1>a, <1>b, <1>2
<1> QED
  BY <1>2, <1>3, <1>4
\* The fold over a nonempty subset, unfolded once.
LEMMA SumIterStep ==
    ASSUME NEW f, NEW T, IsFiniteSet(T), NEW s \in SUBSET T
    PROVE  /\ s = {} => SumIter(f, T)[s] = 0
           /\ s # {} => /\ Chosen(s) \in s
                        /\ s \ {Chosen(s)} \in SUBSET T
                        /\ SumIter(f, T)[s]
                             = f[Chosen(s)] + SumIter(f, T)[s \ {Chosen(s)}]
<1>1. SumIter(f, T)[s] = SumStep(f, SumIter(f, T), s)
  BY SumIterDef
<1> QED
  BY <1>1 DEF SumStep, Chosen

\* The recursion equations, for a name of the fold's function.
LEMMA SumIterEqs ==
    ASSUME NEW f, NEW T, IsFiniteSet(T), NEW F, F = SumIter(f, T)
    PROVE  /\ F[{}] = 0
           /\ \A s \in SUBSET T : s # {} =>
                 /\ Chosen(s) \in s
                 /\ s \ {Chosen(s)} \in SUBSET T
                 /\ F[s] = f[Chosen(s)] + F[s \ {Chosen(s)}]
<1>1. {} \in SUBSET T
  OBVIOUS
<1> QED
  BY <1>1, SumIterStep

\* The recursion equations, for every function summed over T.
LEMMA SumIterEqsAll ==
    ASSUME NEW T, IsFiniteSet(T)
    PROVE  \A ff : /\ SumIter(ff, T)[{}] = 0
                   /\ \A s \in SUBSET T : s # {} =>
                         SumIter(ff, T)[s] = ff[Chosen(s)] + SumIter(ff, T)[s \ {Chosen(s)}]
<1> SUFFICES ASSUME NEW ff
             PROVE  /\ SumIter(ff, T)[{}] = 0
                    /\ \A s \in SUBSET T : s # {} =>
                          SumIter(ff, T)[s] = ff[Chosen(s)] + SumIter(ff, T)[s \ {Chosen(s)}]
  OBVIOUS
<1> QED
  BY SumIterStep

\* Induction over subsets, for a property of the subsets stated as a set.
LEMMA SumInduct ==
    ASSUME NEW T, IsFiniteSet(T), NEW G,
           {} \in G,
           \A s \in SUBSET T : s # {} /\ s \ {Chosen(s)} \in G => s \in G
    PROVE  SUBSET T \subseteq G
<1>1. \A s \in SUBSET T : (s # {} => s \ {Chosen(s)} \in G) => s \in G
  OBVIOUS
<1> QED
  BY <1>1, SubsetInduction

LEMMA SumIterNat ==
    ASSUME NEW T, IsFiniteSet(T), NEW f \in [T -> Nat]
    PROVE  \A s \in SUBSET T : SumIter(f, T)[s] \in Nat
<1>0. PICK F : F = SumIter(f, T)
  OBVIOUS
<1>e. /\ F[{}] = 0
      /\ \A s \in SUBSET T : s # {} =>
            /\ Chosen(s) \in s
            /\ s \ {Chosen(s)} \in SUBSET T
            /\ F[s] = f[Chosen(s)] + F[s \ {Chosen(s)}]
  BY <1>0, SumIterEqs
<1>a. PICK G : G = {s \in SUBSET T : F[s] \in Nat}
  OBVIOUS
<1>1. {} \in G
  BY <1>e, <1>a
<1>2. ASSUME NEW s \in SUBSET T, s # {}, s \ {Chosen(s)} \in G
      PROVE  s \in G
  BY <1>2, <1>e, <1>a
<1>3. SUBSET T \subseteq G
  BY <1>1, <1>2, SumInduct
<1> QED
  BY <1>3, <1>a, <1>0

\* Every value is at most the sum.
LEMMA SumIterGe ==
    ASSUME NEW T, IsFiniteSet(T), NEW f \in [T -> Nat]
    PROVE  \A s \in SUBSET T : \A t \in s : f[t] <= SumIter(f, T)[s]
<1>0. PICK F : F = SumIter(f, T)
  OBVIOUS
<1>e. /\ F[{}] = 0
      /\ \A s \in SUBSET T : s # {} =>
            /\ Chosen(s) \in s
            /\ s \ {Chosen(s)} \in SUBSET T
            /\ F[s] = f[Chosen(s)] + F[s \ {Chosen(s)}]
  BY <1>0, SumIterEqs
<1>n. \A s \in SUBSET T : F[s] \in Nat
  BY <1>0, SumIterNat
<1>a. PICK G : G = {s \in SUBSET T : \A t \in s : f[t] <= F[s]}
  OBVIOUS
<1>1. {} \in G
  BY <1>a
<1>2. ASSUME NEW s \in SUBSET T, s # {}, s \ {Chosen(s)} \in G
      PROVE  s \in G
  <2>1. /\ Chosen(s) \in s
        /\ s \ {Chosen(s)} \in SUBSET T
        /\ F[s] = f[Chosen(s)] + F[s \ {Chosen(s)}]
    BY <1>2, <1>e
  <2>2. F[s \ {Chosen(s)}] \in Nat
    BY <2>1, <1>n
  <2>3. \A t \in s \ {Chosen(s)} : f[t] <= F[s \ {Chosen(s)}]
    BY <1>2, <1>a
  <2>4. \A t \in s : f[t] \in Nat
    OBVIOUS
  <2>5. ASSUME NEW t \in s PROVE f[t] <= F[s]
    <3>1. CASE t = Chosen(s)
      BY <3>1, <2>1, <2>2, <2>4
    <3>2. CASE t # Chosen(s)
      <4>1. f[t] <= F[s \ {Chosen(s)}]
        BY <3>2, <2>3
      <4> QED
        BY <4>1, <2>1, <2>2, <2>4
    <3> QED
      BY <3>1, <3>2
  <2> QED
    BY <2>5, <1>a
<1>3. SUBSET T \subseteq G
  BY <1>1, <1>2, SumInduct
<1> QED
  BY <1>3, <1>a, <1>0

\* The sum is monotone in the values.
LEMMA SumIterMono ==
    ASSUME NEW T, IsFiniteSet(T), NEW f \in [T -> Nat], NEW g \in [T -> Nat],
           \A t \in T : f[t] <= g[t]
    PROVE  \A s \in SUBSET T : SumIter(f, T)[s] <= SumIter(g, T)[s]
<1>0. PICK F : F = SumIter(f, T)
  OBVIOUS
<1>00. PICK H : H = SumIter(g, T)
  OBVIOUS
<1>e. /\ F[{}] = 0
      /\ \A s \in SUBSET T : s # {} =>
            /\ Chosen(s) \in s
            /\ s \ {Chosen(s)} \in SUBSET T
            /\ F[s] = f[Chosen(s)] + F[s \ {Chosen(s)}]
  BY <1>0, SumIterEqs
<1>ee. /\ H[{}] = 0
       /\ \A s \in SUBSET T : s # {} =>
             /\ Chosen(s) \in s
             /\ s \ {Chosen(s)} \in SUBSET T
             /\ H[s] = g[Chosen(s)] + H[s \ {Chosen(s)}]
  <2>1. H[{}] = 0
    BY <1>00, SumIterStep
  <2>2. ASSUME NEW s \in SUBSET T, s # {}
        PROVE  /\ Chosen(s) \in s
               /\ s \ {Chosen(s)} \in SUBSET T
               /\ H[s] = g[Chosen(s)] + H[s \ {Chosen(s)}]
    BY <2>2, <1>00, SumIterStep
  <2> QED
    BY <2>1, <2>2
<1>n. \A s \in SUBSET T : F[s] \in Nat /\ H[s] \in Nat
  BY <1>0, <1>00, SumIterNat
<1>a. PICK G : G = {s \in SUBSET T : F[s] <= H[s]}
  OBVIOUS
<1>1. {} \in G
  BY <1>a, <1>e, <1>ee
<1>2. ASSUME NEW s \in SUBSET T, s # {}, s \ {Chosen(s)} \in G
      PROVE  s \in G
  <2>1. /\ Chosen(s) \in s
        /\ s \ {Chosen(s)} \in SUBSET T
        /\ F[s] = f[Chosen(s)] + F[s \ {Chosen(s)}]
        /\ H[s] = g[Chosen(s)] + H[s \ {Chosen(s)}]
    BY <1>2, <1>e, <1>ee
  <2>2. F[s \ {Chosen(s)}] \in Nat /\ H[s \ {Chosen(s)}] \in Nat
        /\ F[s \ {Chosen(s)}] <= H[s \ {Chosen(s)}]
    BY <2>1, <1>n, <1>2, <1>a
  <2> QED
    BY <2>1, <2>2, <1>a
<1>3. SUBSET T \subseteq G
  BY <1>1, <1>2, SumInduct
<1> QED
  BY <1>3, <1>a, <1>0, <1>00
\* A sum of indicators counts the elements of s in U.
LEMMA SumIterIndicator ==
    ASSUME NEW T, IsFiniteSet(T), NEW U
    PROVE  \A s \in SUBSET T :
              SumIter([u \in T |-> IF u \in U THEN 1 ELSE 0], T)[s]
                = Cardinality(s \cap U)
<1> DEFINE f == [u \in T |-> IF u \in U THEN 1 ELSE 0]
<1>0. PICK F : F = SumIter(f, T)
  OBVIOUS
<1>e. /\ F[{}] = 0
      /\ \A s \in SUBSET T : s # {} =>
            /\ Chosen(s) \in s
            /\ s \ {Chosen(s)} \in SUBSET T
            /\ F[s] = f[Chosen(s)] + F[s \ {Chosen(s)}]
  BY <1>0, SumIterEqs
<1>a. PICK G : G = {s \in SUBSET T : F[s] = Cardinality(s \cap U)}
  OBVIOUS
<1>1. {} \in G
  BY <1>a, <1>e, FS_EmptySet
<1>2. ASSUME NEW s \in SUBSET T, s # {}, s \ {Chosen(s)} \in G
      PROVE  s \in G
  <2> DEFINE c == Chosen(s)
             r == s \ {c}
  <2>1. c \in s /\ r \in SUBSET T /\ F[s] = f[c] + F[r]
    BY <1>2, <1>e
  <2>2. F[r] = Cardinality(r \cap U)
    BY <1>2, <1>a
  <2>3. IsFiniteSet(s \cap U) /\ IsFiniteSet(r \cap U)
    BY FS_Subset
  <2>4. CASE c \in U
    <3>1. r \cap U = (s \cap U) \ {c} /\ c \in s \cap U
      BY <2>1, <2>4
    <3>2. Cardinality((s \cap U) \ {c}) = Cardinality(s \cap U) - 1
          /\ Cardinality(s \cap U) \in Nat
      BY <3>1, <2>3, FS_RemoveElement, FS_CardinalityType
    <3>3. f[c] = 1
      BY <2>1, <2>4
    <3> QED
      BY <2>1, <2>2, <3>1, <3>2, <3>3, <1>a
  <2>5. CASE c \notin U
    <3>1. r \cap U = s \cap U
      BY <2>5
    <3>2. f[c] = 0
      BY <2>1, <2>5
    <3>3. Cardinality(s \cap U) \in Nat
      BY <2>3, FS_CardinalityType
    <3> QED
      BY <2>1, <2>2, <3>1, <3>2, <3>3, <1>a
  <2> QED
    BY <2>4, <2>5
<1>3. SUBSET T \subseteq G
  BY <1>1, <1>2, SumInduct
<1> QED
  BY <1>3, <1>a, <1>0

\* Changing one value changes the sum by the difference.
LEMMA SumIterUpdate ==
    ASSUME NEW T, IsFiniteSet(T), NEW f \in [T -> Nat], NEW g \in [T -> Nat],
           NEW y \in T, \A u \in T \ {y} : g[u] = f[u]
    PROVE  \A s \in SUBSET T :
              SumIter(g, T)[s] + (IF y \in s THEN f[y] ELSE 0)
                = SumIter(f, T)[s] + (IF y \in s THEN g[y] ELSE 0)
<1>0. PICK F : F = SumIter(f, T)
  OBVIOUS
<1>00. PICK H : H = SumIter(g, T)
  OBVIOUS
<1>e. /\ F[{}] = 0
      /\ \A s \in SUBSET T : s # {} =>
            /\ Chosen(s) \in s
            /\ s \ {Chosen(s)} \in SUBSET T
            /\ F[s] = f[Chosen(s)] + F[s \ {Chosen(s)}]
  BY <1>0, SumIterEqs
<1>ee. /\ H[{}] = 0
       /\ \A s \in SUBSET T : s # {} =>
             H[s] = g[Chosen(s)] + H[s \ {Chosen(s)}]
  <2>1. \A ff : /\ SumIter(ff, T)[{}] = 0
                 /\ \A s \in SUBSET T : s # {} =>
                       SumIter(ff, T)[s] = ff[Chosen(s)] + SumIter(ff, T)[s \ {Chosen(s)}]
    BY SumIterEqsAll
  <2> QED
    BY <2>1, <1>00
<1>n. \A s \in SUBSET T : F[s] \in Nat /\ H[s] \in Nat
  BY <1>0, <1>00, SumIterNat
<1>a. PICK G : G = {s \in SUBSET T :
                      H[s] + (IF y \in s THEN f[y] ELSE 0)
                        = F[s] + (IF y \in s THEN g[y] ELSE 0)}
  OBVIOUS
<1>1. {} \in G
  BY <1>a, <1>e, <1>ee
<1>2. ASSUME NEW s \in SUBSET T, s # {}, s \ {Chosen(s)} \in G
      PROVE  s \in G
  <2> DEFINE c == Chosen(s)
             r == s \ {c}
  <2>1. c \in s /\ r \in SUBSET T /\ F[s] = f[c] + F[r] /\ H[s] = g[c] + H[r]
    BY <1>2, <1>e, <1>ee
  <2>2. H[r] + (IF y \in r THEN f[y] ELSE 0) = F[r] + (IF y \in r THEN g[y] ELSE 0)
    BY <1>2, <1>a
  <2>3. F[r] \in Nat /\ H[r] \in Nat /\ f[c] \in Nat /\ g[c] \in Nat
    BY <2>1, <1>n
  <2>4. CASE c = y
    <3>1. y \notin r /\ y \in s
      BY <2>1, <2>4
    <3> QED
      BY <2>1, <2>2, <2>3, <2>4, <3>1, <1>a
  <2>5. CASE c # y
    <3>1. (y \in r <=> y \in s) /\ g[c] = f[c]
      BY <2>1, <2>5
    <3> QED
      BY <2>1, <2>2, <2>3, <3>1, <1>a
  <2> QED
    BY <2>4, <2>5
<1>3. SUBSET T \subseteq G
  BY <1>1, <1>2, SumInduct
<1> QED
  BY <1>3, <1>a, <1>0, <1>00
-----------------------------------------------------------------------------
(* The same facts about SumFunction.                                       *)

\* The sum of a function into Nat with finite domain is a natural.
LEMMA SumFunctionNat ==
    ASSUME NEW T, IsFiniteSet(T), NEW f \in [T -> Nat]
    PROVE  SumFunction(f) \in Nat
<1>1. SumFunction(f) = SumIter(f, T)[T]
  BY SumIsIter
<1> QED
  BY <1>1, SumIterNat

\* Every value is at most the sum.
LEMMA SumFunctionGe ==
    ASSUME NEW T, IsFiniteSet(T), NEW f \in [T -> Nat]
    PROVE  \A t \in T : f[t] <= SumFunction(f)
<1>1. SumFunction(f) = SumIter(f, T)[T]
  BY SumIsIter
<1> QED
  BY <1>1, SumIterGe

\* The sum is monotone in the values.
LEMMA SumFunctionMono ==
    ASSUME NEW T, IsFiniteSet(T), NEW f \in [T -> Nat], NEW g \in [T -> Nat],
           \A t \in T : f[t] <= g[t]
    PROVE  SumFunction(f) <= SumFunction(g)
<1>1. SumFunction(f) = SumIter(f, T)[T] /\ SumFunction(g) = SumIter(g, T)[T]
  BY SumIsIter
<1> QED
  BY <1>1, SumIterMono

\* Two functions that differ at y alone differ in sum by their values at y.
LEMMA SumFunctionUpdate ==
    ASSUME NEW T, IsFiniteSet(T), NEW f \in [T -> Nat], NEW g \in [T -> Nat],
           NEW y \in T, \A u \in T \ {y} : g[u] = f[u]
    PROVE  SumFunction(g) + f[y] = SumFunction(f) + g[y]
<1>1. SumFunction(f) = SumIter(f, T)[T] /\ SumFunction(g) = SumIter(g, T)[T]
  BY SumIsIter
<1>2. SumIter(g, T)[T] + f[y] = SumIter(f, T)[T] + g[y]
  BY SumIterUpdate
<1> QED
  BY <1>1, <1>2

\* The sum of the indicator of U counts the elements of T in U.
LEMMA SumFunctionIndicator ==
    ASSUME NEW T, IsFiniteSet(T), NEW U
    PROVE  SumFunction([u \in T |-> IF u \in U THEN 1 ELSE 0]) = Cardinality(T \cap U)
<1>1. SumFunction([u \in T |-> IF u \in U THEN 1 ELSE 0])
        = SumIter([u \in T |-> IF u \in U THEN 1 ELSE 0], T)[T]
  BY SumIsIter
<1> QED
  BY <1>1, SumIterIndicator

====
