------------------------------ MODULE SumProofs ------------------------------
(***************************************************************************)
(* Sums over finite sets. The ledger's money questions are sums of a       *)
(* column over a set of rows; these are the facts their proofs need. The   *)
(* sum of the community modules picks the elements in an order of its own, *)
(* so that any element may be split off first is a theorem here.           *)
(***************************************************************************)
EXTENDS Integers, FiniteSets, Functions, FiniteSetTheorems, WellFoundedInduction, TLAPS

-----------------------------------------------------------------------------
(* Induction on finite sets, for a set of them.                            *)

\* A nonempty collection of finite sets has a smallest one.
LEMMA SmallestSet ==
    ASSUME NEW F, F # {}, \A s \in F : IsFiniteSet(s)
    PROVE  \E s \in F : \A t \in F : Cardinality(s) <= Cardinality(t)
  <1> DEFINE sizes == {Cardinality(s) : s \in F}
  <1>1. sizes \subseteq Nat /\ sizes # {}
    BY FS_CardinalityType
  <1>2. PICK n \in sizes : \A m \in sizes : ~(<<m, n>> \in OpToRel(<, Nat))
    BY <1>1, NatLessThanWellFounded, WFMin
  <1>3. \A m \in sizes : m \in Nat /\ n \in Nat /\ ~(m < n)
    BY <1>1, <1>2 DEF OpToRel
  <1>4. PICK s \in F : n = Cardinality(s)
    OBVIOUS
  <1>5. \A t \in F : Cardinality(t) \in sizes
    OBVIOUS
  <1> HIDE DEF sizes
  <1> QED BY <1>3, <1>4, <1>5

\* What holds of the empty set, and of a set when it holds of the set without
\* any one of its elements, holds of every finite set.
LEMMA SetInduction ==
    ASSUME NEW S, IsFiniteSet(S), NEW F,
           {} \in F,
           \A s \in SUBSET S : s # {} /\ (\A x \in s : s \ {x} \in F) => s \in F
    PROVE  S \in F
  <1> SUFFICES ASSUME S \notin F  PROVE FALSE
    OBVIOUS
  <1> DEFINE bad == {s \in SUBSET S : s \notin F}
  <1>1. S \in bad /\ \A s \in bad : IsFiniteSet(s)
    BY FS_Subset
  <1>2. PICK s \in bad : \A t \in bad : Cardinality(s) <= Cardinality(t)
    BY <1>1, SmallestSet
  <1>3. s # {} /\ IsFiniteSet(s)
    BY <1>1
  <1>4. ASSUME NEW x \in s
        PROVE  s \ {x} \in F
    <2>1. IsFiniteSet(s \ {x}) /\ Cardinality(s \ {x}) = Cardinality(s) - 1
      BY <1>3, FS_RemoveElement
    <2>2. Cardinality(s) \in Nat
      BY <1>3, FS_CardinalityType
    <2>3. ~(Cardinality(s) <= Cardinality(s \ {x}))
      BY <2>1, <2>2
    <2> QED BY <1>2, <2>3
  <1> QED BY <1>3, <1>4

-----------------------------------------------------------------------------
(* The recursion behind SumFunctionOnSet.                                  *)

First(s) == CHOOSE x \in s : TRUE

\* What g says of a set, given what it says of the smaller ones.
SumBody(w, g, s) == IF s = {} THEN 0 ELSE w[First(s)] + g[s \ {First(s)}]

IsSum(g, w, S) == g = [s \in SUBSET S |-> SumBody(w, g, s)]

LEMMA FirstIn ==
    ASSUME NEW s, s # {}
    PROVE  First(s) \in s
  BY DEF First

LEMMA SumIs ==
    ASSUME NEW w, NEW S
    PROVE  SumFunctionOnSet(w, S) = (CHOOSE g : IsSum(g, w, S))[S]
  <1> DEFINE iter == CHOOSE g : g = [s \in SUBSET S |->
                         IF s = {} THEN 0
                         ELSE w[CHOOSE x \in s : TRUE] + g[s \ {CHOOSE x \in s : TRUE}]]
  <1>1. SumFunctionOnSet(w, S) = iter[S]
    BY Zenon DEF SumFunctionOnSet, FoldFunctionOnSet, MapThenFoldSet
  <1>2. iter = CHOOSE g : IsSum(g, w, S)
    BY Zenon DEF IsSum, SumBody, First
  <1> QED BY <1>1, <1>2

\* The recursion has a solution, built up by the size of the sets.
LEMMA SumExists ==
    ASSUME NEW w, NEW S, IsFiniteSet(S)
    PROVE  \E g : IsSum(g, w, S)
  <1> DEFINE Solves(g, T) == \A s \in SUBSET T : g[s] = SumBody(w, g, s)
             Solved == {T \in SUBSET S : \E g : \A s \in SUBSET S :
                           Cardinality(s) <= Cardinality(T) => g[s] = SumBody(w, g, s)}
  <1>0. \A s \in SUBSET S : IsFiniteSet(s) /\ Cardinality(s) \in Nat
    BY FS_Subset, FS_CardinalityType
  <1>1. {} \in Solved
    <2> DEFINE g == [s \in SUBSET S |-> 0]
    <2>1. \A s \in SUBSET S : Cardinality(s) <= Cardinality({}) => s = {}
      <3>1. Cardinality({}) = 0  BY FS_EmptySet
      <3>2. \A s \in SUBSET S : Cardinality(s) = 0 => s = {}
        BY <1>0, FS_EmptySet
      <3> QED BY <1>0, <3>1, <3>2
    <2>2. \A s \in SUBSET S : Cardinality(s) <= Cardinality({}) => g[s] = SumBody(w, g, s)
      BY <2>1 DEF SumBody
    <2> HIDE DEF g
    <2> QED BY <2>2
  <1>2. ASSUME NEW T \in SUBSET S, T # {}, \A x \in T : T \ {x} \in Solved
        PROVE  T \in Solved
    <2>1. PICK x \in T : TRUE
      BY <1>2
    <2>2. PICK g : \A s \in SUBSET S :
                       Cardinality(s) <= Cardinality(T \ {x}) => g[s] = SumBody(w, g, s)
      BY <1>2, <2>1
    <2>3. Cardinality(T \ {x}) = Cardinality(T) - 1 /\ Cardinality(T) \in Nat
      BY <1>0, <2>1, FS_RemoveElement
    <2> DEFINE h == [s \in SUBSET S |-> SumBody(w, g, s)]
    <2>4. \A s \in SUBSET S : h[s] = SumBody(w, g, s)
      OBVIOUS
    <2> HIDE DEF h
    <2>5. ASSUME NEW s \in SUBSET S, Cardinality(s) <= Cardinality(T)
          PROVE  h[s] = SumBody(w, h, s)
      <3>1. CASE s = {}
        BY <2>4, <3>1 DEF SumBody
      <3>2. CASE s # {}
        <4> DEFINE t == s \ {First(s)}
        <4>1. First(s) \in s /\ t \in SUBSET S
          BY <3>2, FirstIn
        <4>2. Cardinality(t) = Cardinality(s) - 1 /\ Cardinality(s) \in Nat
          BY <1>0, <4>1, FS_RemoveElement
        <4>3. Cardinality(t) <= Cardinality(T \ {x})
          BY <2>3, <2>5, <4>2
        <4>4. g[t] = h[t]
          BY <2>2, <2>4, <4>1, <4>3
        <4>5. h[s] = w[First(s)] + g[t]
          BY <2>4, <3>2 DEF SumBody
        <4> QED BY <3>2, <4>4, <4>5 DEF SumBody
      <3> QED BY <3>1, <3>2
    <2> QED BY <2>5
  <1> HIDE DEF Solved
  <1>3. S \in Solved
    BY <1>1, <1>2, SetInduction
  <1>4. PICK g : \A s \in SUBSET S : Cardinality(s) <= Cardinality(S) => g[s] = SumBody(w, g, s)
    BY <1>3 DEF Solved
  <1>5. \A s \in SUBSET S : Cardinality(s) <= Cardinality(S)
    BY FS_Subset
  <1> DEFINE h == [s \in SUBSET S |-> g[s]]
  <1>6. \A s \in SUBSET S : h[s] = SumBody(w, g, s)
    BY <1>4, <1>5
  <1>7. \A s \in SUBSET S : s # {} => s \ {First(s)} \in SUBSET S
    OBVIOUS
  <1>8. \A s \in SUBSET S : SumBody(w, g, s) = SumBody(w, h, s)
    BY <1>7 DEF SumBody
  <1>9. h = [s \in SUBSET S |-> SumBody(w, h, s)]
    BY <1>6, <1>8
  <1> HIDE DEF h
  <1> QED BY <1>9 DEF IsSum

\* Two solutions agree wherever both are defined.
LEMMA SumUnique ==
    ASSUME NEW w, NEW S, NEW T \in SUBSET S, IsFiniteSet(S),
           NEW g, NEW h, IsSum(g, w, S), IsSum(h, w, T)
    PROVE  g[T] = h[T]
  <1>1. /\ \A s \in SUBSET S : g[s] = SumBody(w, g, s)
        /\ \A s \in SUBSET T : h[s] = SumBody(w, h, s)
    <2>1. \A s \in SUBSET S : [t \in SUBSET S |-> SumBody(w, g, t)][s] = SumBody(w, g, s)
      OBVIOUS
    <2>2. \A s \in SUBSET T : [t \in SUBSET T |-> SumBody(w, h, t)][s] = SumBody(w, h, s)
      OBVIOUS
    <2> QED BY <2>1, <2>2 DEF IsSum
  <1> DEFINE F == {s \in SUBSET T : g[s] = h[s]}
  <1>2. {} \in F
    BY <1>1 DEF SumBody
  <1>3. ASSUME NEW s \in SUBSET T, s # {}, \A x \in s : s \ {x} \in F
        PROVE  s \in F
    <2>1. g[s \ {First(s)}] = h[s \ {First(s)}]
      BY <1>3, FirstIn
    <2> QED BY <1>1, <1>3, <2>1 DEF SumBody
  <1>4. IsFiniteSet(T)
    BY FS_Subset
  <1> HIDE DEF F
  <1>5. T \in F
    BY <1>2, <1>3, <1>4, SetInduction
  <1> QED BY <1>5 DEF F

LEMMA SumStep ==
    ASSUME NEW w, NEW S, IsFiniteSet(S)
    PROVE  /\ S = {} => SumFunctionOnSet(w, S) = 0
           /\ S # {} => SumFunctionOnSet(w, S) =
                            w[First(S)] + SumFunctionOnSet(w, S \ {First(S)})
  <1> DEFINE g == CHOOSE f : IsSum(f, w, S)
             T == S \ {First(S)}
             h == CHOOSE f : IsSum(f, w, T)
  <1>1. IsFiniteSet(T)
    BY FS_Subset
  <1>2. IsSum(g, w, S) /\ IsSum(h, w, T)
    BY <1>1, SumExists
  <1>3. SumFunctionOnSet(w, S) = g[S] /\ SumFunctionOnSet(w, T) = h[T]
    BY SumIs
  <1> HIDE DEF g, h
  <1>4. g[T] = h[T]
    BY <1>2, SumUnique
  <1>5. g[S] = SumBody(w, g, S)
    <2>1. [s \in SUBSET S |-> SumBody(w, g, s)][S] = SumBody(w, g, S)
      OBVIOUS
    <2> QED BY <1>2, <2>1 DEF IsSum
  <1> QED BY <1>3, <1>4, <1>5 DEF SumBody

LEMMA SumEmpty ==
    ASSUME NEW w
    PROVE  SumFunctionOnSet(w, {}) = 0
  BY SumStep, FS_EmptySet

-----------------------------------------------------------------------------
(* Sums of integers.                                                       *)

LEMMA SumType ==
    ASSUME NEW S, IsFiniteSet(S), NEW w, \A x \in S : w[x] \in Int
    PROVE  SumFunctionOnSet(w, S) \in Int
  <1> DEFINE F == {s \in SUBSET S : SumFunctionOnSet(w, s) \in Int}
  <1>1. {} \in F
    BY SumEmpty
  <1>2. ASSUME NEW s \in SUBSET S, s # {}, \A x \in s : s \ {x} \in F
        PROVE  s \in F
    <2>1. First(s) \in s /\ IsFiniteSet(s)
      BY <1>2, FirstIn, FS_Subset
    <2>2. SumFunctionOnSet(w, s) = w[First(s)] + SumFunctionOnSet(w, s \ {First(s)})
      BY <1>2, <2>1, SumStep
    <2>3. w[First(s)] \in Int /\ SumFunctionOnSet(w, s \ {First(s)}) \in Int
      BY <1>2, <2>1
    <2> QED BY <2>2, <2>3
  <1> HIDE DEF F
  <1>3. S \in F
    BY <1>1, <1>2, SetInduction
  <1> QED BY <1>3 DEF F

\* Any element can be split off.
LEMMA SumSplit ==
    ASSUME NEW S, IsFiniteSet(S), NEW w, \A x \in S : w[x] \in Int, NEW y \in S
    PROVE  SumFunctionOnSet(w, S) = w[y] + SumFunctionOnSet(w, S \ {y})
  <1> DEFINE Sum(s) == SumFunctionOnSet(w, s)
             F == {s \in SUBSET S : \A x \in s : Sum(s) = w[x] + Sum(s \ {x})}
  <1>0. ASSUME NEW s \in SUBSET S
        PROVE  IsFiniteSet(s) /\ Sum(s) \in Int
    <2>1. IsFiniteSet(s)  BY FS_Subset
    <2> QED BY <2>1, SumType
  <1>1. {} \in F
    OBVIOUS
  <1>2. ASSUME NEW s \in SUBSET S, s # {}, \A x \in s : s \ {x} \in F
        PROVE  s \in F
    <2> SUFFICES ASSUME NEW x \in s  PROVE Sum(s) = w[x] + Sum(s \ {x})
      OBVIOUS
    <2> DEFINE c == First(s)
    <2>1. c \in s /\ IsFiniteSet(s)
      BY <1>0, <1>2, FirstIn
    <2>2. Sum(s) = w[c] + Sum(s \ {c})
      BY <1>2, <2>1, SumStep
    <2>3. CASE x = c
      BY <2>2, <2>3
    <2>4. CASE x # c
      <3>1. Sum(s \ {c}) = w[x] + Sum((s \ {c}) \ {x})
        <4>1. s \ {c} \in F /\ x \in s \ {c}  BY <1>2, <2>1, <2>4
        <4> QED BY <4>1
      <3>2. Sum(s \ {x}) = w[c] + Sum((s \ {x}) \ {c})
        <4>1. s \ {x} \in F /\ c \in s \ {x}  BY <1>2, <2>1, <2>4
        <4> QED BY <4>1
      <3>3. (s \ {c}) \ {x} = (s \ {x}) \ {c}
        OBVIOUS
      <3>4. /\ Sum((s \ {x}) \ {c}) \in Int /\ Sum(s \ {c}) \in Int /\ Sum(s \ {x}) \in Int
            /\ w[x] \in Int /\ w[c] \in Int
        BY <1>0, <2>1
      <3>5. Sum(s) = w[c] + (w[x] + Sum((s \ {x}) \ {c}))
        BY <2>2, <3>1, <3>3
      <3> QED BY <3>2, <3>4, <3>5
    <2> QED BY <2>3, <2>4
  <1> HIDE DEF F
  <1>3. S \in F
    BY <1>1, <1>2, SetInduction
  <1> QED BY <1>3 DEF F

\* One element more.
LEMMA SumWith ==
    ASSUME NEW S, IsFiniteSet(S), NEW w, NEW y, y \notin S,
           \A x \in S \cup {y} : w[x] \in Int
    PROVE  SumFunctionOnSet(w, S \cup {y}) = SumFunctionOnSet(w, S) + w[y]
  <1>1. IsFiniteSet(S \cup {y}) /\ (S \cup {y}) \ {y} = S
    BY FS_AddElement
  <1>2. SumFunctionOnSet(w, S \cup {y}) = w[y] + SumFunctionOnSet(w, S)
    BY <1>1, SumSplit
  <1>3. SumFunctionOnSet(w, S) \in Int /\ w[y] \in Int
    BY SumType
  <1> QED BY <1>2, <1>3

\* Only the values on the set count.
LEMMA SumSame ==
    ASSUME NEW S, IsFiniteSet(S), NEW w, NEW v, \A x \in S : w[x] = v[x]
    PROVE  SumFunctionOnSet(w, S) = SumFunctionOnSet(v, S)
  <1> DEFINE F == {s \in SUBSET S : SumFunctionOnSet(w, s) = SumFunctionOnSet(v, s)}
  <1>1. {} \in F
    BY SumEmpty
  <1>2. ASSUME NEW s \in SUBSET S, s # {}, \A x \in s : s \ {x} \in F
        PROVE  s \in F
    <2>1. First(s) \in s /\ IsFiniteSet(s)
      BY <1>2, FirstIn, FS_Subset
    <2>2. /\ SumFunctionOnSet(w, s) = w[First(s)] + SumFunctionOnSet(w, s \ {First(s)})
          /\ SumFunctionOnSet(v, s) = v[First(s)] + SumFunctionOnSet(v, s \ {First(s)})
      BY <1>2, <2>1, SumStep
    <2>3. SumFunctionOnSet(w, s \ {First(s)}) = SumFunctionOnSet(v, s \ {First(s)})
      BY <1>2, <2>1
    <2> QED BY <2>1, <2>2, <2>3
  <1> HIDE DEF F
  <1>3. S \in F
    BY <1>1, <1>2, SetInduction
  <1> QED BY <1>3 DEF F

LEMMA SumOfDisjoint ==
    ASSUME NEW S, NEW T, IsFiniteSet(S), IsFiniteSet(T), S \cap T = {},
           NEW w, \A x \in S \cup T : w[x] \in Int
    PROVE  SumFunctionOnSet(w, S \cup T) = SumFunctionOnSet(w, S) + SumFunctionOnSet(w, T)
  <1> DEFINE F == {t \in SUBSET T : SumFunctionOnSet(w, S \cup t) =
                                        SumFunctionOnSet(w, S) + SumFunctionOnSet(w, t)}
  <1>0. SumFunctionOnSet(w, S) \in Int
    BY SumType
  <1>1. {} \in F
    <2>1. S \cup {} = S  OBVIOUS
    <2> QED BY <1>0, <2>1, SumEmpty
  <1>2. ASSUME NEW t \in SUBSET T, t # {}, \A x \in t : t \ {x} \in F
        PROVE  t \in F
    <2>1. PICK x \in t : TRUE
      BY <1>2
    <2> DEFINE r == t \ {x}
    <2>2. IsFiniteSet(t) /\ IsFiniteSet(r) /\ IsFiniteSet(S \cup t)
      BY FS_Subset, FS_Union
    <2>3. (S \cup t) \ {x} = S \cup r
      BY <2>1
    <2>4. SumFunctionOnSet(w, S \cup t) = w[x] + SumFunctionOnSet(w, S \cup r)
      BY <2>1, <2>2, <2>3, SumSplit
    <2>5. SumFunctionOnSet(w, t) = w[x] + SumFunctionOnSet(w, r)
      BY <2>1, <2>2, SumSplit
    <2>6. SumFunctionOnSet(w, S \cup r) = SumFunctionOnSet(w, S) + SumFunctionOnSet(w, r)
      BY <1>2, <2>1
    <2>7. SumFunctionOnSet(w, r) \in Int /\ w[x] \in Int
      BY <2>1, <2>2, SumType
    <2> QED BY <1>0, <2>4, <2>5, <2>6, <2>7
  <1> HIDE DEF F
  <1>3. T \in F
    BY <1>1, <1>2, SetInduction
  <1> QED BY <1>3 DEF F

\* Terms paired off one to one whose pairs are not negative have no negative
\* sum: f names the partner of each.
LEMMA SumOfPairs ==
    ASSUME NEW S, IsFiniteSet(S), NEW f, \A x, y \in S : f[x] = f[y] => x = y,
           NEW u, NEW v,
           \A x \in S : u[x] \in Int /\ v[f[x]] \in Int /\ u[x] + v[f[x]] >= 0
    PROVE  /\ IsFiniteSet({f[x] : x \in S})
           /\ SumFunctionOnSet(u, S) + SumFunctionOnSet(v, {f[x] : x \in S}) >= 0
  <1> DEFINE Partners(s) == {f[x] : x \in s}
             Good(s) == /\ IsFiniteSet(Partners(s))
                        /\ SumFunctionOnSet(u, s) + SumFunctionOnSet(v, Partners(s)) >= 0
             F == {s \in SUBSET S : Good(s)}
  <1>1. {} \in F
    <2>1. Partners({}) = {}  OBVIOUS
    <2> QED BY <2>1, SumEmpty, FS_EmptySet
  <1>2. ASSUME NEW s \in SUBSET S, s # {}, \A x \in s : s \ {x} \in F
        PROVE  s \in F
    <2>1. PICK x \in s : TRUE
      BY <1>2
    <2> DEFINE r == s \ {x}
    <2>2. IsFiniteSet(s) /\ IsFiniteSet(r)
      BY FS_Subset
    <2>3. Good(r)
      BY <1>2, <2>1
    <2>4. Partners(s) = Partners(r) \cup {f[x]} /\ f[x] \notin Partners(r)
      BY <2>1
    <2>5. \A y \in Partners(s) : v[y] \in Int
      OBVIOUS
    <2>6. SumFunctionOnSet(v, Partners(s)) = SumFunctionOnSet(v, Partners(r)) + v[f[x]]
      <3>1. ASSUME NEW P, IsFiniteSet(P), NEW y, y \notin P, \A z \in P \cup {y} : v[z] \in Int
            PROVE  SumFunctionOnSet(v, P \cup {y}) = SumFunctionOnSet(v, P) + v[y]
        BY <3>1, SumWith
      <3>2. \A z \in Partners(r) \cup {f[x]} : v[z] \in Int
        BY <2>4, <2>5
      <3>3. IsFiniteSet(Partners(r)) /\ f[x] \notin Partners(r)
        BY <2>3, <2>4
      <3>4. SumFunctionOnSet(v, Partners(r) \cup {f[x]}) =
                SumFunctionOnSet(v, Partners(r)) + v[f[x]]
        BY <3>1, <3>2, <3>3
      <3> QED BY <2>4, <3>4
    <2>7. SumFunctionOnSet(u, s) = u[x] + SumFunctionOnSet(u, r)
      BY <2>1, <2>2, SumSplit
    <2>8. SumFunctionOnSet(u, r) \in Int /\ SumFunctionOnSet(v, Partners(r)) \in Int
      BY <2>2, <2>3, <2>4, <2>5, SumType
    <2>9. u[x] \in Int /\ v[f[x]] \in Int /\ u[x] + v[f[x]] >= 0
      BY <2>1
    <2>10. IsFiniteSet(Partners(s))
      <3>1. IsFiniteSet(Partners(r) \cup {f[x]})  BY <2>3, FS_AddElement
      <3> QED BY <2>4, <3>1
    <2>11. SumFunctionOnSet(u, s) + SumFunctionOnSet(v, Partners(s)) >= 0
      BY <2>3, <2>6, <2>7, <2>8, <2>9
    <2> QED BY <2>10, <2>11
  <1> HIDE DEF F
  <1>3. S \in F
    BY <1>1, <1>2, SetInduction
  <1> QED BY <1>3 DEF F

LEMMA SumNotNegative ==
    ASSUME NEW S, IsFiniteSet(S), NEW w, \A x \in S : w[x] \in Nat
    PROVE  SumFunctionOnSet(w, S) \in Nat
  <1> DEFINE F == {s \in SUBSET S : SumFunctionOnSet(w, s) \in Nat}
  <1>1. {} \in F
    BY SumEmpty
  <1>2. ASSUME NEW s \in SUBSET S, s # {}, \A x \in s : s \ {x} \in F
        PROVE  s \in F
    <2>1. First(s) \in s /\ IsFiniteSet(s)
      BY <1>2, FirstIn, FS_Subset
    <2>2. SumFunctionOnSet(w, s) = w[First(s)] + SumFunctionOnSet(w, s \ {First(s)})
      BY <1>2, <2>1, SumStep
    <2>3. w[First(s)] \in Nat /\ SumFunctionOnSet(w, s \ {First(s)}) \in Nat
      BY <1>2, <2>1
    <2> QED BY <2>2, <2>3
  <1> HIDE DEF F
  <1>3. S \in F
    BY <1>1, <1>2, SetInduction
  <1> QED BY <1>3 DEF F

\* Less of what is not negative is not more.
LEMMA SumOfSubset ==
    ASSUME NEW S, IsFiniteSet(S), NEW T \in SUBSET S, NEW w, \A x \in S : w[x] \in Nat
    PROVE  SumFunctionOnSet(w, T) <= SumFunctionOnSet(w, S)
  <1>1. IsFiniteSet(T) /\ IsFiniteSet(S \ T) /\ T \cap (S \ T) = {} /\ T \cup (S \ T) = S
    BY FS_Subset
  <1>2. SumFunctionOnSet(w, T) \in Nat /\ SumFunctionOnSet(w, S \ T) \in Nat
    BY <1>1, SumNotNegative
  <1>3. \A x \in T \cup (S \ T) : w[x] \in Int
    OBVIOUS
  <1>4. SumFunctionOnSet(w, S) = SumFunctionOnSet(w, T) + SumFunctionOnSet(w, S \ T)
    BY <1>1, <1>3, SumOfDisjoint, Zenon
  <1> QED BY <1>1, <1>2, <1>4

\* What is summed key by key is summed once: part has the terms of each key
\* and v their sum.
LEMMA SumByKey ==
    ASSUME NEW S, IsFiniteSet(S), NEW w, \A x \in S : w[x] \in Int,
           NEW T, IsFiniteSet(T), NEW key, \A x \in S : key[x] \in T,
           NEW part, \A t \in T : \A x : x \in part[t] <=> x \in S /\ key[x] = t,
           NEW v, \A t \in T : v[t] = SumFunctionOnSet(w, part[t])
    PROVE  SumFunctionOnSet(v, T) = SumFunctionOnSet(w, S)
  <1> DEFINE Of(U) == {x \in S : key[x] \in U}
             F == {U \in SUBSET T : SumFunctionOnSet(v, U) = SumFunctionOnSet(w, Of(U))}
  <1>0. \A t \in T : part[t] = {x \in S : key[x] = t}
    OBVIOUS
  <1>1. {} \in F
    <2>1. Of({}) = {}  OBVIOUS
    <2> QED BY <2>1, SumEmpty
  <1>2. ASSUME NEW U \in SUBSET T, U # {}, \A t \in U : U \ {t} \in F
        PROVE  U \in F
    <2>1. PICK t \in U : TRUE
      BY <1>2
    <2> DEFINE R == U \ {t}
               one == {x \in S : key[x] = t}
    <2>2. /\ IsFiniteSet(U) /\ IsFiniteSet(Of(R)) /\ IsFiniteSet(one)
          /\ Of(R) \cap one = {} /\ Of(U) = Of(R) \cup one
      <3>1. Of(R) \cap one = {} /\ Of(U) = Of(R) \cup one
        BY <2>1
      <3> QED BY <3>1, FS_Subset
    <2>3. \A x \in Of(R) \cup one : w[x] \in Int
      OBVIOUS
    <2>4. SumFunctionOnSet(w, Of(R) \cup one)
             = SumFunctionOnSet(w, Of(R)) + SumFunctionOnSet(w, one)
      <3> HIDE DEF R, one, Of
      <3> QED BY <2>2, <2>3, SumOfDisjoint
    <2>5. \A x \in T : v[x] \in Int
      <3> SUFFICES ASSUME NEW x \in T  PROVE v[x] \in Int
        OBVIOUS
      <3> DEFINE these == {y \in S : key[y] = x}
      <3>1. IsFiniteSet(these) /\ v[x] = SumFunctionOnSet(w, these) /\ \A y \in these : w[y] \in Int
        BY <1>0, FS_Subset
      <3> HIDE DEF these
      <3> QED BY <3>1, SumType
    <2>6. SumFunctionOnSet(v, U) = v[t] + SumFunctionOnSet(v, R)
      <3>1. \A x \in U : v[x] \in Int
        BY <2>5
      <3> QED BY <2>1, <2>2, <3>1, SumSplit
    <2>7. SumFunctionOnSet(v, R) = SumFunctionOnSet(w, Of(R))
      BY <1>2, <2>1
    <2>8. v[t] = SumFunctionOnSet(w, one)
      BY <1>0, <2>1
    <2>9. SumFunctionOnSet(w, Of(R)) \in Int /\ SumFunctionOnSet(w, one) \in Int
      <3>1. (\A x \in Of(R) : w[x] \in Int) /\ \A x \in one : w[x] \in Int
        OBVIOUS
      <3> HIDE DEF R, one, Of
      <3> QED BY <2>2, <3>1, SumType
    <2> HIDE DEF one, R, Of
    <2>10. SumFunctionOnSet(v, U) = SumFunctionOnSet(w, Of(U))
      BY <2>2, <2>4, <2>6, <2>7, <2>8, <2>9
    <2> QED BY <2>10
  <1> HIDE DEF F
  <1>3. T \in F
    BY <1>1, <1>2, SetInduction
  <1>4. Of(T) = S
    OBVIOUS
  <1> QED BY <1>3, <1>4 DEF F

\* Renaming the terms, each to a name of its own, changes nothing.
LEMMA SumOfImage ==
    ASSUME NEW S, IsFiniteSet(S), NEW f, \A x, y \in S : f[x] = f[y] => x = y,
           NEW u, NEW v, \A x \in S : u[x] \in Int /\ v[f[x]] = u[x],
           NEW T, \A y : y \in T <=> \E x \in S : y = f[x]
    PROVE  /\ IsFiniteSet(T) /\ Cardinality(T) = Cardinality(S)
           /\ SumFunctionOnSet(v, T) = SumFunctionOnSet(u, S)
  <1> DEFINE Names(s) == {f[x] : x \in s}
             Good(s) == /\ IsFiniteSet(Names(s)) /\ Cardinality(Names(s)) = Cardinality(s)
                        /\ SumFunctionOnSet(v, Names(s)) = SumFunctionOnSet(u, s)
             F == {s \in SUBSET S : Good(s)}
  <1>1. {} \in F
    <2>1. Names({}) = {}  OBVIOUS
    <2> QED BY <2>1, SumEmpty, FS_EmptySet
  <1>2. ASSUME NEW s \in SUBSET S, s # {}, \A x \in s : s \ {x} \in F
        PROVE  s \in F
    <2>1. PICK x \in s : TRUE
      BY <1>2
    <2> DEFINE r == s \ {x}
    <2>2. Good(r)
      BY <1>2, <2>1
    <2>3. Names(s) = Names(r) \cup {f[x]} /\ f[x] \notin Names(r)
      BY <2>1
    <2>4. \A y \in Names(r) \cup {f[x]} : v[y] \in Int
      OBVIOUS
    <2>5. /\ IsFiniteSet(s) /\ IsFiniteSet(r) /\ Cardinality(r) = Cardinality(s) - 1
          /\ Cardinality(s) \in Nat
      BY <2>1, FS_Subset, FS_RemoveElement, FS_CardinalityType
    <2>6. SumFunctionOnSet(u, s) = u[x] + SumFunctionOnSet(u, r)
      BY <2>1, <2>5, SumSplit
    <2>7. SumFunctionOnSet(v, Names(r) \cup {f[x]}) = SumFunctionOnSet(v, Names(r)) + v[f[x]]
      <3> DEFINE P == Names(r)
                 y == f[x]
      <3>1. IsFiniteSet(P) /\ y \notin P /\ \A z \in P \cup {y} : v[z] \in Int
        BY <2>2, <2>3, <2>4
      <3> HIDE DEF P, y
      <3>2. SumFunctionOnSet(v, P \cup {y}) = SumFunctionOnSet(v, P) + v[y]
        BY ONLY <3>1, SumWith
      <3> QED BY <3>2 DEF P, y
    <2>8. /\ IsFiniteSet(Names(r) \cup {f[x]})
          /\ Cardinality(Names(r) \cup {f[x]}) = Cardinality(Names(r)) + 1
      BY <2>2, <2>3, FS_AddElement
    <2>9. SumFunctionOnSet(u, r) \in Int /\ u[x] \in Int /\ v[f[x]] = u[x]
      BY <2>1, <2>5, SumType
    <2> HIDE DEF Names, r
    <2>10. Good(s)
      BY <2>2, <2>3, <2>5, <2>6, <2>7, <2>8, <2>9
    <2> QED BY <2>10
  <1> HIDE DEF F
  <1>3. S \in F
    BY <1>1, <1>2, SetInduction
  <1>4. T = Names(S)
    OBVIOUS
  <1>5. Good(S)
    BY <1>3 DEF F
  <1> HIDE DEF Names
  <1> QED BY <1>4, <1>5

\* A few integers have a smallest.
LEMMA SmallestOf ==
    ASSUME NEW S, IsFiniteSet(S), S # {}, S \subseteq Int
    PROVE  \E x \in S : \A y \in S : x <= y
  <1> DEFINE F == {s \in SUBSET S : s # {} => \E x \in s : \A y \in s : x <= y}
  <1>1. {} \in F
    OBVIOUS
  <1>2. ASSUME NEW s \in SUBSET S, s # {}, \A x \in s : s \ {x} \in F
        PROVE  s \in F
    <2>1. PICK z \in s : TRUE
      BY <1>2
    <2>2. s \ {z} \in F
      BY <1>2, <2>1
    <2>3. CASE s \ {z} = {}
      <3>1. \A y \in s : z <= y
        BY <2>3
      <3> QED BY <2>1, <3>1
    <2>4. CASE s \ {z} # {}
      <3>1. PICK x \in s \ {z} : \A y \in s \ {z} : x <= y
        BY <2>2, <2>4
      <3>2. CASE z <= x
        BY <2>1, <3>1, <3>2
      <3>3. CASE ~(z <= x)
        BY <2>1, <3>1, <3>3
      <3> QED BY <3>2, <3>3
    <2> QED BY <2>3, <2>4
  <1> HIDE DEF F
  <1>3. S \in F
    BY <1>1, <1>2, SetInduction
  <1> QED BY <1>3 DEF F
==============================================================================
