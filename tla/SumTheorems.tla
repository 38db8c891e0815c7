----------------------------- MODULE SumTheorems -----------------------------
(***************************************************************************)
(* Sums over finite sets: SumFunctionOnSet of the community modules picks  *)
(* the elements one by one with CHOOSE.  These lemmas say that the order   *)
(* does not matter, and what follows from it.                              *)
(*                                                                         *)
(* The induction theorems of the library take a predicate, which no prover *)
(* here can instantiate.  Induction is done on sets instead: a predicate   *)
(* is the set of the subsets that satisfy it, and a minimal                *)
(* counterexample exists because inclusion is well-founded.                *)
(***************************************************************************)
EXTENDS Integers, FiniteSets, Functions, FiniteSetTheorems,
        WellFoundedInduction, TLAPS

-----------------------------------------------------------------------------
(* Induction. *)

\* What holds of a set whenever it holds of the set without any one of its
\* elements, holds of every finite set.
LEMMA FiniteInduction ==
    ASSUME NEW S, IsFiniteSet(S), NEW Good,
           \A T \in SUBSET S : (\A x \in T : T \ {x} \in Good) => T \in Good
    PROVE  \A T \in SUBSET S : T \in Good
<1> DEFINE Bad == {T \in SUBSET S : T \notin Good}
<1>1. SUFFICES ASSUME Bad # {} PROVE FALSE
  OBVIOUS
<1>2. PICK T \in Bad : \A U \in Bad : <<U, T>> \notin StrictSubsetOrdering(S)
  <2>1. FiniteSubsetsOf(S) = SUBSET S
    BY FS_FiniteSubsetsOfFinite
  <2>2. IsWellFoundedOn(StrictSubsetOrdering(S), SUBSET S)
    BY <2>1, FS_StrictSubsetOrderingWellFounded
  <2>3. Bad \subseteq SUBSET S
    OBVIOUS
  <2> HIDE DEF Bad
  <2>4. QED BY <1>1, <2>2, <2>3, WFMin
<1>3. T \in SUBSET S /\ T \notin Good
  OBVIOUS
<1>4. ASSUME NEW x \in T PROVE T \ {x} \in Good
  <2>1. <<T \ {x}, T>> \in StrictSubsetOrdering(S)
    BY <1>3 DEF StrictSubsetOrdering
  <2>2. T \ {x} \notin Bad
    BY <1>2, <2>1
  <2>3. QED BY <1>3, <2>2
<1>5. QED BY <1>3, <1>4

LEMMA InductionOn ==
    ASSUME NEW S, IsFiniteSet(S), NEW Good,
           \A T \in SUBSET S : (\A x \in T : T \ {x} \in Good) => T \in Good
    PROVE  S \in Good
<1>1. \A T \in SUBSET S : T \in Good
  BY FiniteInduction
<1>2. S \in SUBSET S
  OBVIOUS
<1>3. QED BY <1>1, <1>2

-----------------------------------------------------------------------------
(* The table of sums that the definition of a sum is read from. *)

First(T) == CHOOSE x \in T : TRUE

\* g has the sum of f over every subset of S.
IsTable(g, f, S) ==
    g = [T \in SUBSET S |-> IF T = {} THEN 0
                            ELSE f[First(T)] + g[T \ {First(T)}]]

SumTable(f, S) == CHOOSE g : IsTable(g, f, S)

LEMMA FirstIsElement == ASSUME NEW T, T # {} PROVE First(T) \in T
BY DEF First

LEMMA TableValues ==
    ASSUME NEW f, NEW S, NEW g, IsTable(g, f, S)
    PROVE  /\ g[{}] = 0
           /\ \A T \in SUBSET S : T # {} => g[T] = f[First(T)] + g[T \ {First(T)}]
BY DEF IsTable

LEMMA SumIsTable ==
    ASSUME NEW f, NEW S
    PROVE  SumFunctionOnSet(f, S) = SumTable(f, S)[S]
BY DEF SumFunctionOnSet, FoldFunctionOnSet, MapThenFoldSet, SumTable, IsTable, First

LEMMA TablesAgree ==
    ASSUME NEW f, NEW S, NEW U, IsFiniteSet(S), NEW g, NEW h,
           IsTable(g, f, S), IsTable(h, f, U)
    PROVE  \A T \in SUBSET (S \cap U) : g[T] = h[T]
<1> DEFINE Good == {T \in SUBSET (S \cap U) : g[T] = h[T]}
<1>1. IsFiniteSet(S \cap U)
  BY FS_Intersection
<1>2. ASSUME NEW T \in SUBSET (S \cap U), \A x \in T : T \ {x} \in Good
      PROVE  T \in Good
  <2>1. CASE T = {}
    BY <2>1, TableValues
  <2>2. CASE T # {}
    <3>1. T \ {First(T)} \in Good
      BY <1>2, <2>2, FirstIsElement
    <3>2. g[T] = f[First(T)] + g[T \ {First(T)}]
      BY <2>2, TableValues
    <3>3. h[T] = f[First(T)] + h[T \ {First(T)}]
      BY <2>2, TableValues
    <3>4. QED BY <3>1, <3>2, <3>3
  <2>3. QED BY <2>1, <2>2
<1> HIDE DEF Good
<1>3. \A T \in SUBSET (S \cap U) : T \in Good
  BY <1>1, <1>2, FiniteInduction
<1>4. QED BY <1>3 DEF Good

\* The recursion has a solution.
LEMMA TableExists ==
    ASSUME NEW f, NEW S, IsFiniteSet(S)
    PROVE  IsTable(SumTable(f, S), f, S)
<1> DEFINE Good == {T \in SUBSET S : IsTable(SumTable(f, T), f, T)}
<1>1. ASSUME NEW T \in SUBSET S, \A x \in T : T \ {x} \in Good
      PROVE  T \in Good
  <2> DEFINE sub(x) == SumTable(f, T \ {x})
             out(U) == CHOOSE x \in T : x \notin U
             h == [U \in SUBSET T |->
                     IF U = {} THEN 0
                     ELSE IF U = T THEN f[First(T)] + sub(First(T))[T \ {First(T)}]
                     ELSE sub(out(U))[U]]
  <2>1. ASSUME NEW x \in T PROVE IsTable(sub(x), f, T \ {x})
    BY <1>1, <2>1
  <2>2. ASSUME NEW U \in SUBSET T, U # T
        PROVE  out(U) \in T /\ out(U) \notin U
    BY <2>2
  <2>3. ASSUME NEW x \in T, NEW U \in SUBSET (T \ {x})
        PROVE  h[U] = sub(x)[U]
    <3>1. CASE U = {}
      <4>1. sub(x)[{}] = 0
        BY <2>1, TableValues
      <4>2. QED BY <3>1, <4>1
    <3>2. CASE U # {}
      <4>1. U # T /\ U \in SUBSET T
        BY <2>3
      <4>2. out(U) \in T /\ out(U) \notin U
        BY <2>2, <4>1
      <4>3. h[U] = sub(out(U))[U]
        BY <3>2, <4>1
      <4>4. IsTable(sub(out(U)), f, T \ {out(U)}) /\ IsTable(sub(x), f, T \ {x})
        BY <2>1, <4>2
      <4>5. IsFiniteSet(T \ {x})
        BY FS_Subset
      <4>6. U \in SUBSET ((T \ {x}) \cap (T \ {out(U)}))
        BY <4>2
      <4> HIDE DEF sub, out, h
      <4>7. sub(x)[U] = sub(out(U))[U]
        BY <4>4, <4>5, <4>6, TablesAgree
      <4>8. QED BY <4>3, <4>7
    <3>3. QED BY <3>1, <3>2
  <2>4. ASSUME NEW U \in SUBSET T, U # {}
        PROVE  h[U] = f[First(U)] + h[U \ {First(U)}]
    <3>0. First(U) \in U
      BY <2>4, FirstIsElement
    <3>1. CASE U = T
      <4>1. h[T] = f[First(T)] + sub(First(T))[T \ {First(T)}]
        BY <2>4, <3>1
      <4>2. h[T \ {First(T)}] = sub(First(T))[T \ {First(T)}]
        BY <2>3, <3>0, <3>1
      <4> HIDE DEF sub, h
      <4>3. QED BY <3>1, <4>1, <4>2
    <3>2. CASE U # T
      <4>1. PICK x \in T : x \notin U
        BY <3>2
      <4>2. /\ IsTable(sub(x), f, T \ {x})
            /\ U \in SUBSET (T \ {x}) /\ U \ {First(U)} \in SUBSET (T \ {x})
        BY <2>1, <4>1
      <4> HIDE DEF sub, h
      <4>3. h[U] = sub(x)[U] /\ h[U \ {First(U)}] = sub(x)[U \ {First(U)}]
        BY <2>3, <4>2
      <4>4. \A V \in SUBSET (T \ {x}) :
               V # {} => sub(x)[V] = f[First(V)] + sub(x)[V \ {First(V)}]
        BY <4>2, TableValues
      <4>5. sub(x)[U] = f[First(U)] + sub(x)[U \ {First(U)}]
        BY <2>4, <4>2, <4>4
      <4>6. QED BY <4>3, <4>5
    <3>3. QED BY <3>1, <3>2
  <2>5. IsTable(h, f, T)
    <3>1. h[{}] = 0
      OBVIOUS
    <3>2. h = [U \in SUBSET T |-> h[U]]
      OBVIOUS
    <3> HIDE DEF h
    <3>3. \A U \in SUBSET T : h[U] = IF U = {} THEN 0
                                     ELSE f[First(U)] + h[U \ {First(U)}]
      BY <2>4, <3>1
    <3>4. QED BY <3>2, <3>3 DEF IsTable
  <2> HIDE DEF h
  <2>6. IsTable(SumTable(f, T), f, T)
    BY <2>5 DEF SumTable
  <2>7. QED BY <2>6
<1>2. S \in SUBSET S
  OBVIOUS
<1> HIDE DEF Good
<1>3. S \in Good
  BY <1>1, <1>2, FiniteInduction
<1>4. QED BY <1>3 DEF Good

-----------------------------------------------------------------------------
(* The sum. *)

LEMMA SumEmpty == ASSUME NEW f PROVE SumFunctionOnSet(f, {}) = 0
<1>1. IsTable(SumTable(f, {}), f, {})
  BY TableExists, FS_EmptySet
<1>2. QED BY <1>1, TableValues, SumIsTable

LEMMA SumOfFirst ==
    ASSUME NEW f, NEW S, IsFiniteSet(S), S # {}
    PROVE  SumFunctionOnSet(f, S) = f[First(S)] + SumFunctionOnSet(f, S \ {First(S)})
<1> DEFINE R == S \ {First(S)}
<1>1. IsFiniteSet(R)
  BY FS_Subset
<1>2. IsTable(SumTable(f, S), f, S) /\ IsTable(SumTable(f, R), f, R)
  BY <1>1, TableExists
<1>3. SumTable(f, S)[S] = f[First(S)] + SumTable(f, S)[R]
  BY <1>2, TableValues
<1>4. R \in SUBSET (S \cap R)
  OBVIOUS
<1>5. SumTable(f, S)[R] = SumTable(f, R)[R]
  BY <1>2, <1>4, TablesAgree
<1>6. QED BY <1>3, <1>5, SumIsTable

LEMMA SumIsInt ==
    ASSUME NEW f, NEW S, IsFiniteSet(S), \A x \in S : f[x] \in Int
    PROVE  SumFunctionOnSet(f, S) \in Int
<1> DEFINE Good == {T \in SUBSET S : SumFunctionOnSet(f, T) \in Int}
<1>1. ASSUME NEW T \in SUBSET S, \A x \in T : T \ {x} \in Good
      PROVE  T \in Good
  <2>1. CASE T = {}
    BY <2>1, SumEmpty
  <2>2. CASE T # {}
    <3>1. First(T) \in T /\ IsFiniteSet(T)
      BY <2>2, FirstIsElement, FS_Subset
    <3>2. SumFunctionOnSet(f, T \ {First(T)}) \in Int
      BY <1>1, <3>1
    <3>3. SumFunctionOnSet(f, T) = f[First(T)] + SumFunctionOnSet(f, T \ {First(T)})
      BY <2>2, <3>1, SumOfFirst
    <3>4. f[First(T)] \in Int
      BY <3>1
    <3>5. QED BY <3>2, <3>3, <3>4
  <2>3. QED BY <2>1, <2>2
<1> HIDE DEF Good
<1>2. S \in Good
  BY <1>1, InductionOn
<1>3. QED BY <1>2 DEF Good

\* Any element may be taken out.
LEMMA SumRemove ==
    ASSUME NEW f, NEW S, IsFiniteSet(S), \A x \in S : f[x] \in Int, NEW x \in S
    PROVE  SumFunctionOnSet(f, S) = f[x] + SumFunctionOnSet(f, S \ {x})
<1> DEFINE Good == {T \in SUBSET S : \A y \in T :
                      SumFunctionOnSet(f, T) = f[y] + SumFunctionOnSet(f, T \ {y})}
<1>1. ASSUME NEW T \in SUBSET S, \A y \in T : T \ {y} \in Good, NEW y \in T
      PROVE  SumFunctionOnSet(f, T) = f[y] + SumFunctionOnSet(f, T \ {y})
  <2> DEFINE c == First(T)
  <2>0. IsFiniteSet(T) /\ T # {} /\ c \in T
    BY FirstIsElement, FS_Subset
  <2>1. SumFunctionOnSet(f, T) = f[c] + SumFunctionOnSet(f, T \ {c})
    BY <2>0, SumOfFirst
  <2> HIDE DEF c
  <2>2. CASE y = c
    BY <2>1, <2>2
  <2>3. CASE y # c
    <3> DEFINE R == (T \ {c}) \ {y}
    <3>1. SumFunctionOnSet(f, T \ {c}) = f[y] + SumFunctionOnSet(f, R)
      BY <1>1, <2>0, <2>3
    <3>2. R = (T \ {y}) \ {c} /\ c \in T \ {y}
      BY <2>0, <2>3
    <3>3. SumFunctionOnSet(f, T \ {y}) = f[c] + SumFunctionOnSet(f, R)
      BY <1>1, <3>2
    <3>4. IsFiniteSet(R) /\ \A z \in R : f[z] \in Int
      BY <2>0, FS_Subset
    <3>5. SumFunctionOnSet(f, R) \in Int /\ f[c] \in Int /\ f[y] \in Int
      BY <2>0, <3>4, SumIsInt
    <3> HIDE DEF R
    <3>6. QED BY <2>1, <3>1, <3>3, <3>5
  <2>4. QED BY <2>2, <2>3
<1>2. ASSUME NEW T \in SUBSET S, \A y \in T : T \ {y} \in Good
      PROVE  T \in Good
  BY <1>1, <1>2
<1> HIDE DEF Good
<1>3. S \in Good
  BY <1>2, InductionOn
<1>4. QED BY <1>3 DEF Good

LEMMA SumAdd ==
    ASSUME NEW f, NEW S, IsFiniteSet(S), NEW x, x \notin S,
           \A y \in S \cup {x} : f[y] \in Int
    PROVE  SumFunctionOnSet(f, S \cup {x}) = f[x] + SumFunctionOnSet(f, S)
<1>1. IsFiniteSet(S \cup {x}) /\ (S \cup {x}) \ {x} = S
  BY FS_AddElement
<1>2. QED BY <1>1, SumRemove

LEMMA SumIsNat ==
    ASSUME NEW f, NEW S, IsFiniteSet(S), \A x \in S : f[x] \in Nat
    PROVE  SumFunctionOnSet(f, S) \in Nat
<1> DEFINE Good == {T \in SUBSET S : SumFunctionOnSet(f, T) \in Nat}
<1>1. ASSUME NEW T \in SUBSET S, \A x \in T : T \ {x} \in Good
      PROVE  T \in Good
  <2>1. CASE T = {}
    BY <2>1, SumEmpty
  <2>2. CASE T # {}
    <3>1. First(T) \in T /\ IsFiniteSet(T)
      BY <2>2, FirstIsElement, FS_Subset
    <3>2. SumFunctionOnSet(f, T \ {First(T)}) \in Nat /\ f[First(T)] \in Nat
      BY <1>1, <3>1
    <3>3. SumFunctionOnSet(f, T) = f[First(T)] + SumFunctionOnSet(f, T \ {First(T)})
      BY <2>2, <3>1, SumOfFirst
    <3>4. QED BY <3>2, <3>3
  <2>3. QED BY <2>1, <2>2
<1> HIDE DEF Good
<1>2. S \in Good
  BY <1>1, InductionOn
<1>3. QED BY <1>2 DEF Good

\* The sum of one element.
LEMMA SumSingleton ==
    ASSUME NEW f, NEW x, f[x] \in Int
    PROVE  SumFunctionOnSet(f, {x}) = f[x]
<1>1. IsFiniteSet({x}) /\ {x} \ {x} = {}
  BY FS_Singleton
<1>2. SumFunctionOnSet(f, {x}) = f[x] + SumFunctionOnSet(f, {})
  BY <1>1, SumRemove
<1>3. QED BY <1>2, SumEmpty

\* Sums of what two functions have over one set, elementwise.
LEMMA SumPlus ==
    ASSUME NEW f, NEW g, NEW h, NEW S, IsFiniteSet(S),
           \A x \in S : f[x] \in Int /\ g[x] \in Int /\ h[x] = f[x] + g[x]
    PROVE  SumFunctionOnSet(h, S) = SumFunctionOnSet(f, S) + SumFunctionOnSet(g, S)
<1> DEFINE Good == {T \in SUBSET S : SumFunctionOnSet(h, T)
                                     = SumFunctionOnSet(f, T) + SumFunctionOnSet(g, T)}
<1>1. ASSUME NEW T \in SUBSET S, \A x \in T : T \ {x} \in Good
      PROVE  T \in Good
  <2>1. CASE T = {}
    BY <2>1, SumEmpty
  <2>2. CASE T # {}
    <3> DEFINE c == First(T)
               R == T \ {c}
    <3>1. c \in T /\ IsFiniteSet(T) /\ IsFiniteSet(R)
      BY <2>2, FirstIsElement, FS_Subset
    <3>2. SumFunctionOnSet(h, R) = SumFunctionOnSet(f, R) + SumFunctionOnSet(g, R)
      BY <1>1, <3>1
    <3>3. /\ SumFunctionOnSet(f, T) = f[c] + SumFunctionOnSet(f, R)
          /\ SumFunctionOnSet(g, T) = g[c] + SumFunctionOnSet(g, R)
          /\ SumFunctionOnSet(h, T) = h[c] + SumFunctionOnSet(h, R)
      BY <2>2, <3>1, SumOfFirst
    <3>4. SumFunctionOnSet(f, R) \in Int /\ SumFunctionOnSet(g, R) \in Int
      BY <3>1, SumIsInt
    <3>5. f[c] \in Int /\ g[c] \in Int /\ h[c] = f[c] + g[c]
      BY <3>1
    <3> HIDE DEF c, R
    <3>6. SumFunctionOnSet(h, T) = SumFunctionOnSet(f, T) + SumFunctionOnSet(g, T)
      BY <3>2, <3>3, <3>4, <3>5
    <3>7. QED BY <3>6
  <2>3. QED BY <2>1, <2>2
<1> HIDE DEF Good
<1>2. S \in Good
  BY <1>1, InductionOn
<1>3. QED BY <1>2 DEF Good

\* Sums of functions that agree on the set.
LEMMA SumEqual ==
    ASSUME NEW f, NEW g, NEW S, IsFiniteSet(S), \A x \in S : f[x] = g[x]
    PROVE  SumFunctionOnSet(f, S) = SumFunctionOnSet(g, S)
<1> DEFINE Good == {T \in SUBSET S : SumFunctionOnSet(f, T) = SumFunctionOnSet(g, T)}
<1>1. ASSUME NEW T \in SUBSET S, \A x \in T : T \ {x} \in Good
      PROVE  T \in Good
  <2>1. CASE T = {}
    BY <2>1, SumEmpty
  <2>2. CASE T # {}
    <3> DEFINE c == First(T)
               R == T \ {c}
    <3>1. c \in T /\ IsFiniteSet(T)
      BY <2>2, FirstIsElement, FS_Subset
    <3>2. SumFunctionOnSet(f, R) = SumFunctionOnSet(g, R) /\ f[c] = g[c]
      BY <1>1, <3>1
    <3>3. /\ SumFunctionOnSet(f, T) = f[c] + SumFunctionOnSet(f, R)
          /\ SumFunctionOnSet(g, T) = g[c] + SumFunctionOnSet(g, R)
      BY <2>2, <3>1, SumOfFirst
    <3>4. SumFunctionOnSet(f, T) = SumFunctionOnSet(g, T)
      BY <3>2, <3>3
    <3>5. QED BY <3>4
  <2>3. QED BY <2>1, <2>2
<1> HIDE DEF Good
<1>2. S \in Good
  BY <1>1, InductionOn
<1>3. QED BY <1>2 DEF Good

\* What adds nothing may be left out.
LEMMA SumSupport ==
    ASSUME NEW f, NEW S, IsFiniteSet(S), NEW U \in SUBSET S,
           \A x \in S : f[x] \in Int, \A x \in S \ U : f[x] = 0
    PROVE  SumFunctionOnSet(f, S) = SumFunctionOnSet(f, U)
<1> DEFINE Good == {T \in SUBSET S : SumFunctionOnSet(f, T) = SumFunctionOnSet(f, T \cap U)}
<1>1. ASSUME NEW T \in SUBSET S, \A x \in T : T \ {x} \in Good
      PROVE  T \in Good
  <2>1. CASE T = {}
    <3>1. T \cap U = T
      BY <2>1
    <3>2. QED BY <3>1
  <2>2. CASE T # {}
    <3> DEFINE c == First(T)
               R == T \ {c}
    <3>1. c \in T /\ IsFiniteSet(T) /\ IsFiniteSet(T \cap U) /\ IsFiniteSet(R \cap U)
      BY <2>2, FirstIsElement, FS_Subset, FS_Intersection
    <3>2. SumFunctionOnSet(f, R) = SumFunctionOnSet(f, R \cap U)
      BY <1>1, <3>1
    <3>3. SumFunctionOnSet(f, T) = f[c] + SumFunctionOnSet(f, R) /\ f[c] \in Int
      BY <2>2, <3>1, SumOfFirst
    <3>4. CASE c \in U
      <4>1. c \in T \cap U /\ (T \cap U) \ {c} = R \cap U
        BY <3>1, <3>4
      <4>2. SumFunctionOnSet(f, T \cap U) = f[c] + SumFunctionOnSet(f, R \cap U)
        BY <3>1, <4>1, SumRemove
      <4>3. SumFunctionOnSet(f, T) = SumFunctionOnSet(f, T \cap U)
        BY <3>2, <3>3, <4>2
      <4>4. QED BY <4>3
    <3>5. CASE c \notin U
      <4>1. SumFunctionOnSet(f, R \cap U) = SumFunctionOnSet(f, T \cap U)
        <5>1. R \cap U = T \cap U
          BY <3>5
        <5>2. QED BY <5>1
      <4>0. f[c] = 0
        BY <3>1, <3>5
      <4>2. SumFunctionOnSet(f, R \cap U) \in Int
        BY <3>1, SumIsInt
      <4> HIDE DEF c, R
      <4>3. SumFunctionOnSet(f, T) = SumFunctionOnSet(f, T \cap U)
        BY <3>2, <3>3, <4>0, <4>1, <4>2
      <4>4. QED BY <4>3
    <3>6. QED BY <3>4, <3>5
  <2>3. QED BY <2>1, <2>2
<1> HIDE DEF Good
<1>2. S \in Good
  BY <1>1, InductionOn
<1>3. S \cap U = U
  OBVIOUS
<1>4. QED BY <1>2, <1>3 DEF Good

LEMMA SumOfZeros ==
    ASSUME NEW f, NEW S, IsFiniteSet(S), \A x \in S : f[x] = 0
    PROVE  SumFunctionOnSet(f, S) = 0
<1>1. SumFunctionOnSet(f, S) = SumFunctionOnSet(f, {})
  BY SumSupport
<1>2. QED BY <1>1, SumEmpty

\* Two entries that cancel, among zeros.
LEMMA SumOfPair ==
    ASSUME NEW f, NEW S, IsFiniteSet(S), NEW a \in S, NEW b \in S, a # b,
           f[a] \in Int, f[b] = -f[a], \A x \in S \ {a, b} : f[x] = 0
    PROVE  SumFunctionOnSet(f, S) = 0
<1>1. \A x \in S : f[x] \in Int
  OBVIOUS
<1>2. IsFiniteSet(S \ {a}) /\ IsFiniteSet((S \ {a}) \ {b})
  BY FS_Subset
<1>3. SumFunctionOnSet(f, S) = f[a] + SumFunctionOnSet(f, S \ {a})
  BY <1>1, SumRemove
<1>4. SumFunctionOnSet(f, S \ {a}) = f[b] + SumFunctionOnSet(f, (S \ {a}) \ {b})
  BY <1>1, <1>2, SumRemove
<1>5. SumFunctionOnSet(f, (S \ {a}) \ {b}) = 0
  BY <1>2, SumOfZeros
<1>6. QED BY <1>3, <1>4, <1>5

\* The same terms under other names.
Named(b, S) == {b[x] : x \in S}

LEMMA SumReindex ==
    ASSUME NEW f, NEW g, NEW b, NEW S, IsFiniteSet(S),
           \A x, y \in S : b[x] = b[y] => x = y,
           \A x \in S : f[x] \in Int /\ g[b[x]] = f[x]
    PROVE  /\ IsFiniteSet(Named(b, S))
           /\ SumFunctionOnSet(f, S) = SumFunctionOnSet(g, Named(b, S))
<1> DEFINE Good == {T \in SUBSET S :
                      /\ IsFiniteSet(Named(b, T))
                      /\ SumFunctionOnSet(f, T) = SumFunctionOnSet(g, Named(b, T))}
<1>1. ASSUME NEW T \in SUBSET S, \A x \in T : T \ {x} \in Good
      PROVE  T \in Good
  <2>1. CASE T = {}
    <3>1. Named(b, T) = {}
      BY <2>1 DEF Named
    <3>2. QED BY <2>1, <3>1, SumEmpty, FS_EmptySet
  <2>2. CASE T # {}
    <3> DEFINE c == First(T)
               R == T \ {c}
    <3>1. c \in T /\ IsFiniteSet(T)
      BY <2>2, FirstIsElement, FS_Subset
    <3>2. /\ IsFiniteSet(Named(b, R))
          /\ SumFunctionOnSet(f, R) = SumFunctionOnSet(g, Named(b, R))
      BY <1>1, <3>1
    <3>3. SumFunctionOnSet(f, T) = f[c] + SumFunctionOnSet(f, R)
      BY <2>2, <3>1, SumOfFirst
    <3>4. Named(b, T) = Named(b, R) \cup {b[c]} /\ b[c] \notin Named(b, R)
      BY <3>1 DEF Named
    <3>5. \A y \in Named(b, R) \cup {b[c]} : g[y] \in Int
      BY <3>1 DEF Named
    <3>6. g[b[c]] = f[c]
      BY <3>1
    <3> HIDE DEF c, R
    <3>7. SumFunctionOnSet(g, Named(b, R) \cup {b[c]})
            = g[b[c]] + SumFunctionOnSet(g, Named(b, R))
      BY <3>2, <3>4, <3>5, SumAdd
    <3>8. IsFiniteSet(Named(b, R) \cup {b[c]})
      BY <3>2, FS_AddElement
    <3>9. IsFiniteSet(Named(b, T))
      BY <3>4, <3>8
    <3>10. SumFunctionOnSet(f, T) = SumFunctionOnSet(g, Named(b, T))
      BY <3>2, <3>3, <3>4, <3>6, <3>7
    <3>11. QED BY <3>9, <3>10
  <2>3. QED BY <2>1, <2>2
<1> HIDE DEF Good
<1>2. S \in Good
  BY <1>1, InductionOn
<1>3. QED BY <1>2 DEF Good

\* A table whose columns cancel: the sums of its rows cancel.
Column(m, O, t) == [o \in O |-> m[o][t]]
RowSums(m, O, T) == [o \in O |-> SumFunctionOnSet(m[o], T)]

LEMMA RowsCancel ==
    ASSUME NEW O, IsFiniteSet(O), NEW S, IsFiniteSet(S), NEW m,
           \A o \in O, t \in S : m[o][t] \in Int,
           \A t \in S : SumFunctionOnSet(Column(m, O, t), O) = 0
    PROVE  SumFunctionOnSet(RowSums(m, O, S), O) = 0
<1> DEFINE Good == {T \in SUBSET S : SumFunctionOnSet(RowSums(m, O, T), O) = 0}
<1>1. ASSUME NEW T \in SUBSET S, \A x \in T : T \ {x} \in Good
      PROVE  T \in Good
  <2>1. CASE T = {}
    <3>1. \A o \in O : RowSums(m, O, T)[o] = 0
      BY <2>1, SumEmpty DEF RowSums
    <3>2. QED BY <3>1, SumOfZeros
  <2>2. CASE T # {}
    <3> DEFINE c == First(T)
               R == T \ {c}
    <3>1. c \in T /\ IsFiniteSet(T) /\ IsFiniteSet(R)
      BY <2>2, FirstIsElement, FS_Subset
    <3>2. SumFunctionOnSet(RowSums(m, O, R), O) = 0
      BY <1>1, <3>1
    <3>3. SumFunctionOnSet(Column(m, O, c), O) = 0
      BY <3>1
    <3>4. ASSUME NEW o \in O
          PROVE  /\ Column(m, O, c)[o] \in Int /\ RowSums(m, O, R)[o] \in Int
                 /\ RowSums(m, O, T)[o] = Column(m, O, c)[o] + RowSums(m, O, R)[o]
      <4>1. \A t \in T : m[o][t] \in Int
        OBVIOUS
      <4>2. SumFunctionOnSet(m[o], T) = m[o][c] + SumFunctionOnSet(m[o], R)
        BY <2>2, <3>1, SumOfFirst
      <4>3. SumFunctionOnSet(m[o], R) \in Int
        BY <3>1, <4>1, SumIsInt
      <4>4. m[o][c] \in Int
        BY <3>1, <4>1
      <4> HIDE DEF c, R
      <4>5. QED BY <4>2, <4>3, <4>4 DEF Column, RowSums
    <3> HIDE DEF c, R
    <3>5. SumFunctionOnSet(RowSums(m, O, T), O)
            = SumFunctionOnSet(Column(m, O, c), O) + SumFunctionOnSet(RowSums(m, O, R), O)
      BY <3>4, SumPlus
    <3>6. SumFunctionOnSet(RowSums(m, O, T), O) = 0
      BY <3>2, <3>3, <3>5
    <3>7. QED BY <3>6
  <2>3. QED BY <2>1, <2>2
<1> HIDE DEF Good
<1>2. S \in Good
  BY <1>1, InductionOn
<1>3. QED BY <1>2 DEF Good
=============================================================================
