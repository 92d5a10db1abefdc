------------------------- MODULE PartnerPayoutProofs -------------------------
(***************************************************************************)
(* Proofs about PartnerPayout.  The first part is about sums over finite   *)
(* sets, which the library defines by a recursive function: that they take *)
(* the elements in any order is proved by well-founded induction over the  *)
(* subsets of a set.  The second part is the arithmetic of allocations,    *)
(* the third the invariants.                                               *)
(***************************************************************************)
EXTENDS PartnerPayout, FiniteSetTheorems, WellFoundedInduction, TLAPS

-----------------------------------------------------------------------------
(* Sums.                                                                   *)

\* A finite set is in G when every subset is whose own proper subsets are.
LEMMA SetInduction ==
  ASSUME NEW S, IsFiniteSet(S), NEW G,
         \A T \in SUBSET S : (\A U \in SUBSET T : U # T => U \in G) => T \in G
  PROVE  S \in G
<1> SUFFICES ASSUME S \notin G PROVE FALSE
  OBVIOUS
<1> DEFINE bad == {T \in SUBSET S : T \notin G}
<1>1. bad \subseteq FiniteSubsetsOf(S) /\ S \in bad
  BY FS_Subset DEF FiniteSubsetsOf
<1>2. PICK T \in bad : \A U \in bad : ~(<<U, T>> \in StrictSubsetOrdering(S))
  <2> HIDE DEF bad
  <2> QED BY <1>1, FS_StrictSubsetOrderingWellFounded, WFMin
<1>3. \A U \in SUBSET T : U # T => U \in G
  BY <1>2 DEF StrictSubsetOrdering
<1> QED BY <1>2, <1>3

\* The element that the library's sum takes next.
Some(s) == CHOOSE x \in s : TRUE

\* g gives every subset of U the sum of f over it, one element at a time.
Step(f, g, s) == IF s = {} THEN 0 ELSE f[Some(s)] + g[s \ {Some(s)}]
Unfolds(f, g, U) ==
  /\ DOMAIN g = SUBSET U
  /\ \A s \in SUBSET U : g[s] = Step(f, g, s)

\* The function that SumFunctionOnSet chooses.
Iter(f, U) == CHOOSE g : g = [s \in SUBSET U |-> Step(f, g, s)]
Sum(f, U) == SumFunctionOnSet(f, U)

LEMMA SumIs ==
  ASSUME NEW f, NEW U
  PROVE  Sum(f, U) = Iter(f, U)[U]
BY DEF Sum, SumFunctionOnSet, FoldFunctionOnSet, MapThenFoldSet, Iter, Step, Some

\* What is chosen unfolds as soon as anything does.
LEMMA IterUnfolds ==
  ASSUME NEW f, NEW U, NEW g, Unfolds(f, g, U), g = [s \in SUBSET U |-> g[s]]
  PROVE  Unfolds(f, Iter(f, U), U)
<1>1. g = [s \in SUBSET U |-> Step(f, g, s)]
  BY DEF Unfolds
<1>2. Iter(f, U) = [s \in SUBSET U |-> Step(f, Iter(f, U), s)]
  BY <1>1 DEF Iter
<1> QED BY <1>2 DEF Unfolds

\* Two functions that unfold agree where both are defined.
LEMMA SumsAgree ==
  ASSUME NEW f, NEW g, NEW h, NEW T, NEW W, Unfolds(f, g, T), Unfolds(f, h, W),
         NEW S, IsFiniteSet(S), S \subseteq T, S \subseteq W
  PROVE  g[S] = h[S]
<1> DEFINE G == {s \in SUBSET S : g[s] = h[s]}
<1>1. ASSUME NEW s \in SUBSET S, \A u \in SUBSET s : u # s => u \in G
      PROVE  s \in G
  <2>1. CASE s = {}
    BY <2>1 DEF Unfolds, Step
  <2>2. CASE s # {}
    <3> DEFINE c == Some(s)
    <3>1. c \in s
      BY <2>2 DEF Some
    <3>2. s \ {c} \in G
      BY <1>1, <3>1
    <3>3. g[s] = f[c] + g[s \ {c}] /\ h[s] = f[c] + h[s \ {c}]
      BY <2>2 DEF Unfolds, Step
    <3> QED BY <3>2, <3>3
  <2> QED BY <2>1, <2>2
<1>2. S \in G
  <2> HIDE DEF G
  <2> QED BY <1>1, SetInduction
<1> QED BY <1>2

\* On a finite set something does: the sums over the smaller sets are put together.
LEMMA IterExists ==
  ASSUME NEW f, NEW S, IsFiniteSet(S)
  PROVE  Unfolds(f, Iter(f, S), S)
<1> DEFINE G == {T \in SUBSET S : Unfolds(f, Iter(f, T), T)}
<1>1. ASSUME NEW T \in SUBSET S, \A V \in SUBSET T : V # T => V \in G
      PROVE  T \in G
  <2> DEFINE Rest(s) == s \ {Some(s)}
             g == [s \in SUBSET T |-> IF s = {} THEN 0 ELSE f[Some(s)] + Iter(f, Rest(s))[Rest(s)]]
  <2>1. ASSUME NEW s \in SUBSET T, s # {}
        PROVE  g[Rest(s)] = Iter(f, Rest(s))[Rest(s)]
    <3> DEFINE V == Rest(s)
    <3>0. Some(s) \in s
      BY <2>1 DEF Some
    <3>1. V \in SUBSET T /\ V # T
      BY <3>0
    <3>2. Unfolds(f, Iter(f, V), V)
      BY <1>1, <3>1
    <3> HIDE DEF V
    <3>3. ASSUME V = {} PROVE g[V] = Iter(f, V)[V]
      <4>1. Iter(f, V)[V] = 0
        BY <3>2, <3>3 DEF Unfolds, Step
      <4>2. g[V] = 0
        BY <3>1, <3>3
      <4> QED BY <4>1, <4>2, <3>3
    <3>4. ASSUME V # {} PROVE g[V] = Iter(f, V)[V]
      <4> DEFINE c == Some(V)
                 W == V \ {c}
      <4>0. c \in V
        BY <3>4 DEF Some
      <4>1. W \in SUBSET T /\ W # T /\ W \in SUBSET V
        BY <3>1, <4>0
      <4>2. Unfolds(f, Iter(f, W), W)
        BY <1>1, <4>1
      <4>3. IsFiniteSet(W)
        BY <4>1, FS_Subset
      <4>4. Iter(f, V)[V] = f[c] + Iter(f, V)[W]
        BY <3>2, <3>4 DEF Unfolds, Step
      <4>5. Iter(f, V)[W] = Iter(f, W)[W]
        BY <4>1, <4>2, <4>3, <3>2, SumsAgree
      <4>6. g[V] = f[c] + Iter(f, W)[W]
        BY <3>1, <3>4
      <4> HIDE DEF g
      <4> QED BY <4>4, <4>5, <4>6
    <3>5. g[V] = Iter(f, V)[V]
      <4> HIDE DEF g
      <4> QED BY <3>3, <3>4
    <3> HIDE DEF g
    <3> QED BY <3>5 DEF V
  <2>2. Unfolds(f, g, T) /\ g = [s \in SUBSET T |-> g[s]]
    <3>1. DOMAIN g = SUBSET T /\ g = [s \in SUBSET T |-> g[s]]
      OBVIOUS
    <3>2. ASSUME NEW s \in SUBSET T
          PROVE  g[s] = Step(f, g, s)
      <4>1. CASE s = {} BY <4>1 DEF Step
      <4>2. CASE s # {}
        <5>1. g[s] = f[Some(s)] + Iter(f, Rest(s))[Rest(s)]
          BY <4>2
        <5>2. g[Rest(s)] = Iter(f, Rest(s))[Rest(s)]
          BY <2>1, <4>2
        <5> QED BY <4>2, <5>1, <5>2 DEF Step
      <4> QED BY <4>1, <4>2
    <3> HIDE DEF g
    <3> QED BY <3>1, <3>2 DEF Unfolds, Step
  <2>3. Unfolds(f, Iter(f, T), T)
    <3> HIDE DEF g
    <3> QED BY <2>2, IterUnfolds
  <2> QED BY <2>3
<1>2. S \in G
  <2> HIDE DEF G
  <2> QED BY <1>1, SetInduction
<1> QED BY <1>2
LEMMA SumUnfolds ==
  ASSUME NEW f, NEW T, IsFiniteSet(T), T # {}
  PROVE  Sum(f, T) = f[Some(T)] + Sum(f, T \ {Some(T)})
<1> DEFINE c == Some(T)
           W == T \ {c}
<1>1. IsFiniteSet(W)
  BY FS_Subset
<1>2. Unfolds(f, Iter(f, T), T) /\ Unfolds(f, Iter(f, W), W)
  BY <1>1, IterExists
<1>3. Iter(f, T)[W] = Iter(f, W)[W]
  BY <1>1, <1>2, SumsAgree
<1>4. Iter(f, T)[T] = f[c] + Iter(f, T)[W]
  BY <1>2 DEF Unfolds, Step
<1> QED BY <1>3, <1>4, SumIs

LEMMA SumOfNone ==
  ASSUME NEW f
  PROVE  Sum(f, {}) = 0
<1>1. Unfolds(f, Iter(f, {}), {})
  BY IterExists, FS_EmptySet
<1> QED BY <1>1, SumIs DEF Unfolds, Step

\* A sum is a number, and any element may be taken first.
LEMMA SumSplit ==
  ASSUME NEW f, NEW S, IsFiniteSet(S), \A x \in S : f[x] \in Nat
  PROVE  /\ Sum(f, S) \in Nat
         /\ \A x \in S : Sum(f, S) = f[x] + Sum(f, S \ {x})
<1> DEFINE P(T) == Sum(f, T) \in Nat /\ \A x \in T : Sum(f, T) = f[x] + Sum(f, T \ {x})
           G == {T \in SUBSET S : P(T)}
<1>1. ASSUME NEW T \in SUBSET S, \A V \in SUBSET T : V # T => V \in G
      PROVE  T \in G
  <2>1. CASE T = {}
    BY <2>1, SumOfNone
  <2>2. CASE T # {}
    <3> DEFINE c == Some(T)
    <3>1. c \in T /\ f[c] \in Nat
      BY <2>2 DEF Some
    <3>2. Sum(f, T) = f[c] + Sum(f, T \ {c})
      BY <2>2, SumUnfolds, FS_Subset
    <3> HIDE DEF c
    <3>3. P(T \ {c})
      BY <1>1, <3>1
    <3>4. ASSUME NEW x \in T PROVE Sum(f, T) = f[x] + Sum(f, T \ {x})
      <4>1. CASE x = c
        BY <3>2, <4>1
      <4>2. CASE x # c
        <5>1. P(T \ {x}) /\ P((T \ {c}) \ {x})
          BY <1>1, <3>1
        <5>2. Sum(f, T \ {c}) = f[x] + Sum(f, (T \ {c}) \ {x})
          BY <3>3, <4>2
        <5>3. Sum(f, T \ {x}) = f[c] + Sum(f, (T \ {x}) \ {c})
          BY <5>1, <3>1, <4>2
        <5>4. (T \ {x}) \ {c} = (T \ {c}) \ {x}
          OBVIOUS
        <5>5. f[x] \in Nat
          OBVIOUS
        <5> DEFINE a == f[x]  b == f[c]  k == Sum(f, (T \ {c}) \ {x})
        <5>6. Sum(f, T) = b + (a + k) /\ Sum(f, T \ {x}) = b + k
          BY <3>2, <5>2, <5>3, <5>4
        <5>7. a \in Nat /\ b \in Nat /\ k \in Nat
          BY <5>1, <5>5, <3>1
        <5> HIDE DEF a, b, k
        <5>8. Sum(f, T) = a + Sum(f, T \ {x})
          BY <5>6, <5>7
        <5> QED BY <5>8 DEF a
      <4> QED BY <4>1, <4>2
    <3>5. Sum(f, T) \in Nat
      BY <3>1, <3>2, <3>3
    <3> QED BY <3>4, <3>5
  <2> QED BY <2>1, <2>2
<1>2. S \in G
  <2> HIDE DEF G
  <2> QED BY <1>1, SetInduction
<1> QED BY <1>2

\* What every part of one sum has in another makes it the smaller one.
LEMMA SumBelow ==
  ASSUME NEW f, NEW g, NEW S, NEW W, IsFiniteSet(S), IsFiniteSet(W),
         \A x \in S : f[x] \in Nat, \A x \in W : g[x] \in Nat,
         \A x \in S : f[x] = 0 \/ (x \in W /\ f[x] <= g[x])
  PROVE  Sum(f, S) <= Sum(g, W)
<1> DEFINE P(T) == \A V \in SUBSET W : (\A x \in T : f[x] = 0 \/ (x \in V /\ f[x] <= g[x]))
                                         => Sum(f, T) <= Sum(g, V)
           G == {T \in SUBSET S : P(T)}
<1>1. ASSUME NEW T \in SUBSET S, \A V \in SUBSET T : V # T => V \in G
      PROVE  T \in G
  <2> SUFFICES ASSUME NEW V \in SUBSET W, \A x \in T : f[x] = 0 \/ (x \in V /\ f[x] <= g[x])
               PROVE  Sum(f, T) <= Sum(g, V)
    OBVIOUS
  <2>0. IsFiniteSet(T) /\ IsFiniteSet(V)
    BY FS_Subset
  <2>1. Sum(g, V) \in Nat /\ Sum(f, T) \in Nat
    BY <2>0, SumSplit
  <2>2. CASE T = {}
    BY <2>1, <2>2, SumOfNone
  <2>3. ASSUME NEW c \in T
        PROVE  Sum(f, T) <= Sum(g, V)
    <3>1. P(T \ {c})
      BY <1>1
    <3>2. Sum(f, T) = f[c] + Sum(f, T \ {c}) /\ f[c] \in Nat
      BY <2>0, SumSplit
    <3>3. Sum(f, T \ {c}) \in Nat
      BY <2>0, SumSplit, FS_Subset
    <3>4. CASE f[c] = 0
      <4>1. Sum(f, T \ {c}) <= Sum(g, V)
        BY <3>1
      <4> QED BY <3>2, <3>3, <3>4, <4>1
    <3>5. CASE c \in V /\ f[c] <= g[c]
      <4>1. Sum(f, T \ {c}) <= Sum(g, V \ {c})
        BY <3>1
      <4>2. Sum(g, V) = g[c] + Sum(g, V \ {c}) /\ g[c] \in Nat
        BY <2>0, <3>5, SumSplit
      <4>3. Sum(g, V \ {c}) \in Nat
        BY <2>0, SumSplit, FS_Subset
      <4> HIDE DEF P
      <4> QED BY <3>2, <3>3, <3>5, <4>1, <4>2, <4>3
    <3> QED BY <3>4, <3>5
  <2> QED BY <2>2, <2>3
<1>2. S \in G
  <2> HIDE DEF G
  <2> QED BY <1>1, SetInduction
<1> QED BY <1>2

\* A sum depends on the values only.
LEMMA SumSame ==
  ASSUME NEW f, NEW g, NEW S, IsFiniteSet(S),
         \A x \in S : f[x] \in Nat /\ g[x] = f[x]
  PROVE  Sum(f, S) = Sum(g, S)
<1>1. Sum(f, S) <= Sum(g, S) /\ Sum(g, S) <= Sum(f, S)
  <2>1. \A x \in S : g[x] \in Nat
    OBVIOUS
  <2>2. \A x \in S : f[x] <= g[x] /\ g[x] <= f[x]
    OBVIOUS
  <2>3. Sum(f, S) <= Sum(g, S)
    BY <2>1, <2>2, SumBelow
  <2>4. Sum(g, S) <= Sum(f, S)
    BY <2>1, <2>2, SumBelow
  <2> QED BY <2>3, <2>4
<1>2. Sum(f, S) \in Nat /\ Sum(g, S) \in Nat
  BY SumSplit
<1> QED BY <1>1, <1>2

\* A set of numbers that is finite and not empty has a greatest one.
LEMMA Greatest ==
  ASSUME NEW S \in SUBSET Nat, IsFiniteSet(S), S # {}
  PROVE  \E m \in S : \A x \in S : x <= m
<1> DEFINE G == {T \in SUBSET S : T # {} => \E m \in T : \A x \in T : x <= m}
<1>1. ASSUME NEW T \in SUBSET S, \A V \in SUBSET T : V # T => V \in G
      PROVE  T \in G
  <2> SUFFICES ASSUME NEW c \in T
               PROVE  \E m \in T : \A x \in T : x <= m
    OBVIOUS
  <2>1. CASE T \ {c} = {}
    <3>1. \A x \in T : x = c /\ c \in Nat
      BY <2>1
    <3> QED BY <3>1
  <2>2. CASE T \ {c} # {}
    <3>0. T \ {c} \in SUBSET T /\ T \ {c} # T
      OBVIOUS
    <3>1. PICK m \in T \ {c} : \A x \in T \ {c} : x <= m
      BY <1>1, <2>2, <3>0
    <3>2. m \in Nat /\ c \in Nat
      OBVIOUS
    <3>3. CASE c <= m
      BY <3>1, <3>3
    <3>4. CASE m <= c
      <4>1. \A x \in T : x <= c
        <5> TAKE x \in T
        <5>1. x \in Nat /\ (x = c \/ x <= m)
          BY <3>1
        <5> QED BY <3>2, <3>4, <5>1
      <4> QED BY <4>1
    <3> QED BY <3>2, <3>3, <3>4
  <2> QED BY <2>1, <2>2
<1>2. S \in G
  <2> HIDE DEF G
  <2> QED BY <1>1, SetInduction
<1> QED BY <1>2

-----------------------------------------------------------------------------
(* Allocations.                                                            *)

LEMMA SharesOne ==
  ASSUME NEW left \in [Sales -> Nat], NEW wanted \in Nat, NEW s \in Sales
  PROVE  LET before == Sum(left, {t \in Sales : t < s})
         IN  /\ before \in Nat
             /\ Shares(left, wanted)[s] \in Nat
             /\ Shares(left, wanted)[s] <= left[s]
             /\ wanted <= before => Shares(left, wanted)[s] = 0
             /\ before < wanted /\ wanted <= before + left[s] =>
                  Shares(left, wanted)[s] = wanted - before
             /\ before + left[s] <= wanted => Shares(left, wanted)[s] = left[s]
<1> DEFINE before == Sum(left, {t \in Sales : t < s})
           rest == Monus(wanted, before)
<1>1. before \in Nat
  BY PayoutAssumption, FS_Subset, SumSplit
<1>2. Shares(left, wanted)[s] = IF rest < left[s] THEN rest ELSE left[s]
  BY DEF Shares, Sum
<1>3. rest = (IF wanted > before THEN wanted - before ELSE 0) /\ left[s] \in Nat
  BY DEF Monus
<1> HIDE DEF before, rest
<1>4. CASE wanted > before
  BY <1>1, <1>2, <1>3, <1>4 DEF before
<1>5. CASE ~(wanted > before)
  BY <1>1, <1>2, <1>3, <1>5 DEF before
<1> QED BY <1>4, <1>5

\* The shares add up to what is wanted, when it is there.
LEMMA SharesAddUp ==
  ASSUME NEW left \in [Sales -> Nat], NEW wanted \in Nat, wanted <= Total(left)
  PROVE  /\ Shares(left, wanted) \in [Sales -> Nat]
         /\ Total(Shares(left, wanted)) = wanted
<1> DEFINE sh == Shares(left, wanted)
           Initial(T) == \A t \in T : \A u \in Sales : u < t => u \in T
           P(T) == Initial(T) => Sum(sh, T) = IF wanted <= Sum(left, T) THEN wanted ELSE Sum(left, T)
           G == {T \in SUBSET Sales : P(T)}
<1>0. sh \in [Sales -> Nat]
  <2>1. \A s \in Sales : sh[s] \in Nat
    BY SharesOne
  <2>2. sh = [s \in Sales |-> sh[s]]
    BY DEF Shares
  <2> QED BY <2>1, <2>2
<1>1. ASSUME NEW T \in SUBSET Sales, \A V \in SUBSET T : V # T => V \in G
      PROVE  T \in G
  <2> SUFFICES ASSUME Initial(T)
               PROVE  Sum(sh, T) = IF wanted <= Sum(left, T) THEN wanted ELSE Sum(left, T)
    OBVIOUS
  <2>1. CASE T = {}
    BY <2>1, SumOfNone
  <2>2. CASE T # {}
    <3>0. IsFiniteSet(T)
      BY PayoutAssumption, FS_Subset
    <3>1. PICK m \in T : \A x \in T : x <= m
      BY <2>2, <3>0, Greatest, PayoutAssumption
    <3>2. T \ {m} = {t \in Sales : t < m}
      <4>1. ASSUME NEW t \in T \ {m} PROVE t < m
        <5>1. t \in Nat /\ m \in Nat /\ t <= m /\ t # m
          BY <3>1, PayoutAssumption
        <5> QED BY <5>1
      <4>2. ASSUME NEW t \in Sales, t < m PROVE t \in T /\ t # m
        <5>1. t \in Nat /\ m \in Nat
          BY PayoutAssumption
        <5> QED BY <4>2, <5>1
      <4> QED BY <4>1, <4>2
    <3>3. Initial(T \ {m})
      <4> SUFFICES ASSUME NEW t \in T \ {m}, NEW u \in Sales, u < t
                   PROVE  u \in T \ {m}
        OBVIOUS
      <4>1. t \in Nat /\ u \in Nat /\ m \in Nat /\ t < m
        BY <3>2, PayoutAssumption
      <4> QED BY <4>1
    <3> DEFINE b == Sum(left, T \ {m})
               a == Sum(sh, T \ {m})
    <3>4. a = IF wanted <= b THEN wanted ELSE b
      <4>1. T \ {m} \in SUBSET T /\ T \ {m} # T
        OBVIOUS
      <4> QED BY <1>1, <3>3, <4>1
    <3>5. Sum(sh, T) = sh[m] + a
      BY <1>0, <3>0, SumSplit
    <3>6. Sum(left, T) = left[m] + b
      BY <3>0, SumSplit
    <3>7. /\ b \in Nat /\ sh[m] \in Nat /\ left[m] \in Nat
          /\ wanted <= b => sh[m] = 0
          /\ b < wanted /\ wanted <= b + left[m] => sh[m] = wanted - b
          /\ b + left[m] <= wanted => sh[m] = left[m]
      <4> HIDE DEF sh
      <4> QED BY <1>0, <3>2, SharesOne DEF sh
    <3> HIDE DEF a, b, sh
    <3> QED BY <3>4, <3>5, <3>6, <3>7
  <2> QED BY <2>1, <2>2
<1>2. Sales \in G
  <2> HIDE DEF G
  <2> QED BY <1>1, SetInduction, PayoutAssumption
<1> QED BY <1>0, <1>2 DEF Total, Sum

\* Taken as a function of what it reads.
TakenOf(sh, rq, s, states) ==
  Sum([r \in Requests |-> sh[r][s]], {r \in Requests : rq[r] \in states})

LEMMA TakenIs ==
  ASSUME NEW s, NEW states
  PROVE  /\ Taken(s, states) = TakenOf(share, request, s, states)
         /\ Taken(s, states)' = TakenOf(share', request', s, states)
BY DEF Taken, TakenOf, Sum

LEMMA TakenOfIsNat ==
  ASSUME NEW sh \in [Requests -> [Sales -> Nat]], NEW rq, NEW s \in Sales, NEW states
  PROVE  TakenOf(sh, rq, s, states) \in Nat
<1> DEFINE f == [r \in Requests |-> sh[r][s]]
           T == {r \in Requests : rq[r] \in states}
<1>1. IsFiniteSet(T) /\ \A r \in T : f[r] \in Nat
  BY PayoutAssumption, FS_Subset
<1>2. Sum(f, T) \in Nat
  <2> HIDE DEF f, T
  <2> QED BY <1>1, SumSplit
<1> QED BY <1>2 DEF TakenOf

\* What each request has in one account and not less of in another.
LEMMA TakenOfBelow ==
  ASSUME NEW sh \in [Requests -> [Sales -> Nat]], NEW sh2 \in [Requests -> [Sales -> Nat]],
         NEW rq, NEW rq2, NEW s \in Sales, NEW states, NEW states2,
         \A r \in Requests : rq[r] \in states =>
            sh[r][s] = 0 \/ (rq2[r] \in states2 /\ sh[r][s] <= sh2[r][s])
  PROVE  TakenOf(sh, rq, s, states) <= TakenOf(sh2, rq2, s, states2)
<1> DEFINE f == [r \in Requests |-> sh[r][s]]
           g == [r \in Requests |-> sh2[r][s]]
           T == {r \in Requests : rq[r] \in states}
           W == {r \in Requests : rq2[r] \in states2}
<1>1. IsFiniteSet(T) /\ IsFiniteSet(W)
  BY PayoutAssumption, FS_Subset
<1>2. /\ \A r \in T : f[r] \in Nat
      /\ \A r \in W : g[r] \in Nat
      /\ \A r \in T : f[r] = 0 \/ (r \in W /\ f[r] <= g[r])
  OBVIOUS
<1>3. Sum(f, T) <= Sum(g, W)
  <2> HIDE DEF f, g, T, W
  <2> QED BY <1>1, <1>2, SumBelow
<1> QED BY <1>3 DEF TakenOf

\* A request that comes to count adds its share.
LEMMA TakenOfPlus ==
  ASSUME NEW sh \in [Requests -> [Sales -> Nat]], NEW rq, NEW rq2, NEW s \in Sales, NEW states,
         NEW q \in Requests, rq[q] \notin states, rq2[q] \in states,
         \A r \in Requests \ {q} : rq2[r] \in states <=> rq[r] \in states
  PROVE  TakenOf(sh, rq2, s, states) = sh[q][s] + TakenOf(sh, rq, s, states)
<1> DEFINE f == [r \in Requests |-> sh[r][s]]
           T == {r \in Requests : rq[r] \in states}
           W == {r \in Requests : rq2[r] \in states}
<1>1. IsFiniteSet(W) /\ \A r \in W : f[r] \in Nat
  BY PayoutAssumption, FS_Subset
<1>2. q \in W /\ W \ {q} = T /\ f[q] = sh[q][s]
  OBVIOUS
<1>3. Sum(f, W) = f[q] + Sum(f, W \ {q})
  <2> HIDE DEF f, W
  <2> QED BY <1>1, <1>2, SumSplit
<1> QED BY <1>2, <1>3 DEF TakenOf

\* What is left of a commission and what is taken of it are within its value.
LEMMA LeftFits ==
  ASSUME TypeOK, NEW approved \in SUBSET Sales
  PROVE  /\ Left(approved) \in [Sales -> Nat]
         /\ \A s \in Sales :
              /\ s \notin approved => Left(approved)[s] = 0
              /\ Taken(s, {"PAID"}) <= Value[s] =>
                   Left(approved)[s] + Taken(s, {"PAID"}) <= Value[s]
<1> DEFINE all == {"PENDING_REVIEW", "APPROVED", "PAID"}
<1>1. ASSUME NEW s \in Sales
      PROVE  /\ Value[s] \in Nat /\ Taken(s, all) \in Nat /\ Taken(s, {"PAID"}) \in Nat
             /\ Taken(s, {"PAID"}) <= Taken(s, all)
  <2>1. share \in [Requests -> [Sales -> Nat]]
    BY DEF TypeOK
  <2>2. TakenOf(share, request, s, {"PAID"}) <= TakenOf(share, request, s, all)
    <3>1. \A r \in Requests : request[r] \in {"PAID"} =>
             request[r] \in all /\ share[r][s] <= share[r][s]
      BY <2>1
    <3> HIDE DEF all
    <3> QED BY <2>1, <3>1, TakenOfBelow
  <2> QED BY <2>1, <2>2, TakenIs, TakenOfIsNat, PayoutAssumption
<1>2. \A s \in Sales : Left(approved)[s] =
         IF s \in approved THEN Monus(Value[s], Taken(s, all)) ELSE 0
  BY DEF Left
<1>3. Left(approved) = [s \in Sales |-> Left(approved)[s]]
  BY DEF Left
<1>4. \A s \in Sales : Left(approved)[s] \in Nat
  BY <1>1, <1>2 DEF Monus
<1>5. ASSUME NEW s \in Sales, Taken(s, {"PAID"}) <= Value[s]
      PROVE  Left(approved)[s] + Taken(s, {"PAID"}) <= Value[s]
  <2> DEFINE v == Value[s]  p == Taken(s, {"PAID"})  a == Taken(s, all)
  <2>1. v \in Nat /\ p \in Nat /\ a \in Nat /\ p <= a /\ p <= v
    BY <1>1, <1>5
  <2>2. Left(approved)[s] = 0 \/ (v > a /\ Left(approved)[s] = v - a) 
    BY <1>2, <2>1 DEF Monus
  <2> HIDE DEF v, p, a
  <2>3. Left(approved)[s] + p <= v
    BY <2>1, <2>2
  <2> QED BY <2>3 DEF v, p
<1> QED BY <1>2, <1>3, <1>4, <1>5

-----------------------------------------------------------------------------
(* Types.                                                                  *)

LEMMA TypeInit == Init => TypeOK
<1> SUFFICES ASSUME Init PROVE TypeOK
  OBVIOUS
<1>1. NoShares \in [Sales -> Nat] /\ Idle \in [at : {"new", "asked", "done"}]
  BY DEF NoShares, Idle
<1>2. /\ refund \in [Sales -> {Idle}] /\ asking \in [Requests -> [at : {"new", "asked", "done"}]]
      /\ share \in [Requests -> [Sales -> Nat]]
  BY <1>1 DEF Init
<1>3. settling \in [Requests -> SUBSET Sales]
  BY DEF Init
<1> QED BY <1>2, <1>3 DEF Init, TypeOK

\* The steps of a sale leave the requests alone.
LEMMA SaleLeavesRequests ==
  ASSUME NEW s \in Sales, SaleStep(s)
  PROVE  UNCHANGED payVars
<1>1. ASSUME NEW c \in Calls, Confirm(s, c) \/ MarkPaid(s, c) \/ Earn(s, c) \/ ConfirmFails(s, c)
      PROVE  UNCHANGED payVars
  BY <1>1 DEF Confirm, MarkPaid, Earn, ConfirmFails
<1>2. ASSUME Look(s) \/ Approve(s)
      PROVE  UNCHANGED payVars
  BY <1>2 DEF Look, Approve
<1>3. ASSUME Refund(s) \/ ReadCommission(s) \/ CheckReserved(s) \/ Reverse(s) \/ ReversalFails(s)
      PROVE  UNCHANGED payVars
  BY <1>3 DEF Refund, ReadCommission, CheckReserved, Reverse, ReversalFails
<1> QED BY <1>1, <1>2, <1>3 DEF SaleStep

LEMMA SaleTypes ==
  ASSUME TypeOK, NEW s \in Sales, SaleStep(s)
  PROVE  TypeOK'
<1>0. TypeOK /\ UNCHANGED payVars
  BY SaleLeavesRequests
<1>1. ASSUME NEW c \in Calls, Confirm(s, c) \/ MarkPaid(s, c) \/ Earn(s, c) \/ ConfirmFails(s, c)
      PROVE  TypeOK'
  <2>1. call' \in [Sales -> [Calls -> {"new", "complete", "paid", "done"}]]
    <3>1. \E x \in {"complete", "paid", "done"} : call' = [call EXCEPT ![s][c] = x]
      BY <1>1 DEF Confirm, MarkPaid, Earn, ConfirmFails
    <3> QED BY <1>0, <3>1 DEF TypeOK
  <2>2. order' \in [Sales -> {"PENDING", "PAID", "REFUNDED"}]
    BY <1>0, <1>1 DEF Confirm, MarkPaid, Earn, ConfirmFails, TypeOK
  <2>3. commission' \in [Sales -> {"NONE", "PENDING", "APPROVED", "PAID", "REVERSED"}]
    <3>1. \E x \in {"PENDING", commission[s]} : commission' = [commission EXCEPT ![s] = x]
      <4>1. commission = [commission EXCEPT ![s] = commission[s]]
        BY <1>0 DEF TypeOK
      <4> QED BY <1>1, <4>1 DEF Confirm, MarkPaid, Earn, ConfirmFails
    <3> QED BY <1>0, <3>1 DEF TypeOK
  <2>4. UNCHANGED <<refund, approving, torn>>
    BY <1>1 DEF Confirm, MarkPaid, Earn, ConfirmFails
  <2> QED BY <1>0, <2>1, <2>2, <2>3, <2>4 DEF TypeOK, payVars
<1>2. CASE Look(s)
  BY <1>0, <1>2 DEF Look, TypeOK, saleVars, payVars
<1>3. CASE Approve(s)
  <2>1. torn' \in BOOLEAN
    BY <1>3 DEF Approve
  <2>2. approving' \subseteq Sales
    BY <1>0, <1>3 DEF Approve, TypeOK
  <2>3. commission' \in [Sales -> {"NONE", "PENDING", "APPROVED", "PAID", "REVERSED"}]
    BY <1>0, <1>3 DEF Approve, TypeOK
  <2>4. UNCHANGED <<order, call, refund>>
    BY <1>3 DEF Approve, saleVars
  <2> QED BY <1>0, <2>1, <2>2, <2>3, <2>4 DEF TypeOK, payVars
<1>4. CASE Refund(s) \/ ReadCommission(s) \/ CheckReserved(s) \/ Reverse(s) \/ ReversalFails(s)
  <2> DEFINE Steps == {Idle} \cup [at : {"marked", "done"}, read : {"NONE"}]
                      \cup [at : {"listed", "free"}, read : {"PENDING", "APPROVED"}]
  <2>1. \E x \in Steps : refund' = [refund EXCEPT ![s] = x]
    <3>1. /\ [at |-> "marked", read |-> "NONE"] \in Steps
          /\ [at |-> "done", read |-> "NONE"] \in Steps
          /\ \A c \in {"PENDING", "APPROVED"} : [at |-> "listed", read |-> c] \in Steps
      OBVIOUS
    <3>2. CASE Refund(s)
      BY <3>1, <3>2 DEF Refund, At
    <3>3. CASE ReadCommission(s)
      BY <3>1, <3>3 DEF ReadCommission, At
    <3>4. CASE CheckReserved(s)
      <4>1. refund[s] \in Steps /\ refund[s].at = "listed"
        BY <1>0, <3>4 DEF CheckReserved, TypeOK
      <4>2. refund[s] \in [at : {"listed", "free"}, read : {"PENDING", "APPROVED"}]
        BY <4>1 DEF Idle
      <4>3. [at |-> "free", read |-> refund[s].read] \in Steps
        BY <4>2
      <4> HIDE DEF Steps
      <4> QED BY <3>1, <4>3, <3>4 DEF CheckReserved, At
    <3>5. CASE Reverse(s)
      BY <3>1, <3>5 DEF Reverse, At
    <3>6. CASE ReversalFails(s)
      BY <3>1, <3>6 DEF ReversalFails, At
    <3> QED BY <1>4, <3>2, <3>3, <3>4, <3>5, <3>6
  <2>2. refund' \in [Sales -> Steps]
    <3>1. refund \in [Sales -> Steps]
      BY <1>0 DEF TypeOK
    <3> HIDE DEF Steps
    <3> QED BY <2>1, <3>1
  <2>3. torn' \in BOOLEAN
    <3>1. CASE Reverse(s)
      BY <3>1 DEF Reverse
    <3>2. CASE ~Reverse(s)
      BY <1>0, <1>4, <3>2 DEF Refund, ReadCommission, CheckReserved, ReversalFails, TypeOK
    <3> QED BY <3>1, <3>2
  <2>4. order' \in [Sales -> {"PENDING", "PAID", "REFUNDED"}]
    <3>1. CASE Refund(s)
      BY <1>0, <3>1 DEF Refund, TypeOK
    <3>2. CASE ~Refund(s)
      BY <1>0, <1>4, <3>2 DEF ReadCommission, CheckReserved, Reverse, ReversalFails, TypeOK
    <3> QED BY <3>1, <3>2
  <2>5. commission' \in [Sales -> {"NONE", "PENDING", "APPROVED", "PAID", "REVERSED"}]
    <3>1. \E x \in {"REVERSED", commission[s]} : commission' = [commission EXCEPT ![s] = x]
      <4>1. commission = [commission EXCEPT ![s] = commission[s]]
        BY <1>0 DEF TypeOK
      <4>2. CASE Reverse(s)
        BY <4>1, <4>2 DEF Reverse
      <4>3. CASE ~Reverse(s)
        BY <1>4, <4>1, <4>3 DEF Refund, ReadCommission, CheckReserved, ReversalFails
      <4> QED BY <4>2, <4>3
    <3> QED BY <1>0, <3>1 DEF TypeOK
  <2>6. UNCHANGED <<call, approving>>
    BY <1>4 DEF Refund, ReadCommission, CheckReserved, Reverse, ReversalFails
  <2> QED BY <1>0, <2>2, <2>3, <2>4, <2>5, <2>6 DEF TypeOK, payVars
<1> QED BY <1>1, <1>2, <1>3, <1>4 DEF SaleStep

\* How far a call that asks may be.
Asking == [at : {"new", "asked", "done"}]
            \cup [at : {"listing"}, approved : SUBSET Sales]
            \cup [at : {"counted", "inserted"}, shares : [Sales -> Nat]]

LEMMA AskingParts ==
  ASSUME TypeOK, NEW r \in Requests
  PROVE  /\ asking[r].at \in {"new", "asked", "listing", "counted", "inserted", "done"}
         /\ asking[r].at = "listing" => asking[r].approved \in SUBSET Sales
         /\ asking[r].at \in {"counted", "inserted"} => 
              /\ asking[r].shares \in [Sales -> Nat]
              /\ asking[r] = [at |-> asking[r].at, shares |-> asking[r].shares]
<1> asking[r] \in Asking
  BY DEF TypeOK, Asking
<1> QED BY DEF Asking

LEMMA RequestTypes ==
  ASSUME TypeOK, NEW r \in Requests, RequestStep(r)
  PROVE  TypeOK'
<1>0. TypeOK
  OBVIOUS
<1> DEFINE Statuses == {"NONE", "PENDING_REVIEW", "APPROVED", "PAID", "REJECTED"}
<1>1. CASE Ask(r)
  BY <1>0, <1>1 DEF Ask, Goes, TypeOK, saleVars
<1>2. CASE List(r)
  BY <1>0, <1>2 DEF List, Goes, TypeOK, saleVars
<1>3. CASE Count(r)
  <2>1. /\ UNCHANGED <<saleVars, commission, approving, request, share, settling, torn>>
        /\ \/ \E wanted \in 1 .. Total(Left(asking[r].approved)) :
                /\ Goes(r, [at |-> "counted", shares |-> Shares(Left(asking[r].approved), wanted)])
                /\ amount' = [amount EXCEPT ![r] = wanted]
           \/ Goes(r, [at |-> "done"]) /\ UNCHANGED amount
    BY <1>3 DEF Count
  <2>2. asking' \in [Requests -> Asking] /\ amount' \in [Requests -> Nat]
    <3>1. asking \in [Requests -> Asking] /\ amount \in [Requests -> Nat]
      BY <1>0 DEF TypeOK, Asking
    <3>2. CASE Goes(r, [at |-> "done"]) /\ UNCHANGED amount
      BY <3>1, <3>2 DEF Goes, Asking
    <3>3. ASSUME NEW wanted \in 1 .. Total(Left(asking[r].approved)),
                 Goes(r, [at |-> "counted", shares |-> Shares(Left(asking[r].approved), wanted)]),
                 amount' = [amount EXCEPT ![r] = wanted]
          PROVE  asking' \in [Requests -> Asking] /\ amount' \in [Requests -> Nat]
      <4>1. asking[r].approved \in SUBSET Sales
        BY <1>0, <1>3, AskingParts DEF Count
      <4>2. Left(asking[r].approved) \in [Sales -> Nat]
        BY <1>0, <4>1, LeftFits
      <4>3. Total(Left(asking[r].approved)) \in Nat
        BY <4>2, SumSplit, PayoutAssumption DEF Total, Sum
      <4>4. wanted \in Nat /\ wanted <= Total(Left(asking[r].approved))
        BY <4>3
      <4>5. Shares(Left(asking[r].approved), wanted) \in [Sales -> Nat]
        BY <4>2, <4>4, SharesAddUp
      <4>6. [at |-> "counted", shares |-> Shares(Left(asking[r].approved), wanted)] \in Asking
        BY <4>5 DEF Asking
      <4> QED BY <3>1, <3>3, <4>4, <4>6 DEF Goes
    <3> QED BY <2>1, <3>2, <3>3
  <2> QED BY <1>0, <2>1, <2>2 DEF TypeOK, Asking, saleVars
<1>4. CASE Insert(r)
  <2>1. /\ UNCHANGED <<saleVars, commission, approving, amount, share, settling, torn>>
        /\ asking[r].at = "counted"
        /\ request' \in [Requests -> Statuses]
    BY <1>0, <1>4 DEF Insert, TypeOK
  <2>2. \E x \in Asking : asking' = [asking EXCEPT ![r] = x]
    <3>1. [asking[r] EXCEPT !.at = "inserted"] \in Asking /\ [at |-> "done"] \in Asking
      <4> DEFINE sh == asking[r].shares
      <4>1. sh \in [Sales -> Nat] /\ asking[r] = [at |-> "counted", shares |-> sh]
        BY <1>0, <2>1, AskingParts
      <4> HIDE DEF sh
      <4>2. [asking[r] EXCEPT !.at = "inserted"] = [at |-> "inserted", shares |-> sh]
        BY <4>1
      <4> QED BY <4>1, <4>2 DEF Asking
    <3> QED BY <1>4, <3>1 DEF Insert, Goes
  <2>3. asking' \in [Requests -> Asking]
    BY <1>0, <2>2 DEF TypeOK, Asking
  <2> QED BY <1>0, <2>1, <2>3 DEF TypeOK, Asking, saleVars
<1>5. CASE Allocate(r) \/ TakeBack(r) \/ Die(r)
  <2>1. /\ UNCHANGED <<saleVars, commission, approving, amount, settling>>
        /\ asking' = [asking EXCEPT ![r] = [at |-> "done"]]
        /\ asking[r].at = "inserted"
    BY <1>5 DEF Allocate, TakeBack, Die, Goes
  <2>2. asking' \in [Requests -> Asking]
    BY <1>0, <2>1 DEF TypeOK, Asking
  <2>3. asking[r].shares \in [Sales -> Nat]
    BY <1>0, <2>1, AskingParts
  <2>4. share' \in [Requests -> [Sales -> Nat]] /\ request' \in [Requests -> Statuses]
    BY <1>0, <1>5, <2>3 DEF Allocate, TakeBack, Die, TypeOK
  <2>5. torn' \in BOOLEAN
    BY <1>0, <1>5 DEF Allocate, TakeBack, Die, TypeOK
  <2> QED BY <1>0, <2>1, <2>2, <2>4, <2>5 DEF TypeOK, Asking, saleVars
<1>6. ASSUME NEW next \in {"APPROVED", "PAID", "REJECTED"}, Decide(r, next)
      PROVE  TypeOK'
  <2>1. UNCHANGED <<saleVars, commission, approving, amount, share, asking>>
    BY <1>6 DEF Decide
  <2>2. request' \in [Requests -> Statuses] /\ settling' \in [Requests -> SUBSET Sales]
    BY <1>0, <1>6 DEF Decide, TypeOK
  <2>3. torn' \in BOOLEAN
    BY <1>6 DEF Decide
  <2> QED BY <1>0, <2>1, <2>2, <2>3 DEF TypeOK, saleVars
<1>7. ASSUME NEW s \in Sales, Settle(r, s)
      PROVE  TypeOK'
  BY <1>0, <1>7 DEF Settle, TypeOK, saleVars
<1>8. CASE SettleEnds(r)
  BY <1>0, <1>8 DEF SettleEnds, TypeOK, saleVars
<1> QED BY <1>1, <1>2, <1>3, <1>4, <1>5, <1>6, <1>7, <1>8 DEF RequestStep

LEMMA TypeStep == TypeOK /\ [Next]_vars => TypeOK'
<1> SUFFICES ASSUME TypeOK, [Next]_vars PROVE TypeOK'
  OBVIOUS
<1>1. CASE UNCHANGED vars
  BY <1>1 DEF vars, saleVars, payVars, TypeOK
<1>2. CASE Next
  BY <1>2, SaleTypes, RequestTypes DEF Next
<1> QED BY <1>1, <1>2

-----------------------------------------------------------------------------
(* The inductive invariant.                                                *)

\* Nobody has, or is about to store, a share of a commission.
Unshared(s) ==
  \A r \in Requests :
    /\ share[r][s] = 0
    /\ asking[r].at = "listing" => s \notin asking[r].approved
    /\ asking[r].at \in {"counted", "inserted"} => asking[r].shares[s] = 0

\* Shares come after the request, and the request after the counting.
InOrder ==
  \A r \in Requests :
    /\ asking[r].at # "done" => share[r] = NoShares
    /\ request[r] # "NONE" => asking[r].at \in {"inserted", "done"}

\* What the index keeps, whoever asked at the same time.
ActiveOnce == \A r, q \in Requests : Active(r) /\ Active(q) => r = q

\* Only what was approved is shared ...
Unearned == \A s \in Sales : commission[s] \in {"NONE", "PENDING"} => Unshared(s)

\* ... and, unless a call was overtaken, a reversal finds it unshared.
Reversed == ~torn => \A s \in Sales : commission[s] = "REVERSED" => Unshared(s)
FoundFree ==
  ~torn => \A s \in Sales :
             refund[s].at = "free" /\ refund[s].read = "APPROVED" =>
               \A r \in Requests : share[r][s] = 0

\* What a call has counted still fits beside what has been paid, until it is
\* paid itself: nothing else can be paid in between without tearing the call.
Fits(shares) == \A s \in Sales : shares[s] + Taken(s, {"PAID"}) <= Value[s]
Within == \A s \in Sales : Taken(s, {"PAID"}) <= Value[s]
PaidAfterAll == \A r \in Requests : request[r] = "PAID" => asking[r].at = "done"
Counted ==
  \A r \in Requests : asking[r].at \in {"counted", "inserted"} =>
     amount[r] = Total(asking[r].shares) /\ Fits(asking[r].shares)
Stored ==
  \A r \in Requests : asking[r].at = "done" =>
     /\ Active(r) => Fits(share[r])
     /\ Active(r) \/ request[r] = "PAID" => amount[r] = Total(share[r])
Honest == ~torn => PaidAfterAll /\ Counted /\ Stored /\ Within

PInv == TypeOK /\ InOrder /\ ActiveOnce /\ PaidMeansCovered
RInv == PInv /\ Unearned /\ Reversed /\ FoundFree
HInv == PInv /\ Honest

\* How each step of a request changes what the invariants read.
LEMMA AskStep ==
  ASSUME TypeOK, NEW r \in Requests, Ask(r) \/ List(r)
  PROVE  /\ asking[r].at \in {"new", "asked"}
         /\ asking'[r].at \in {"asked", "listing"}
         /\ asking'[r].at = "listing" =>
              \A s \in asking'[r].approved : commission[s] = "APPROVED"
         /\ \A q \in Requests \ {r} : asking'[q] = asking[q]
         /\ UNCHANGED <<refund, commission, request, amount, share, torn>>
BY DEF Ask, List, Goes, TypeOK, saleVars

LEMMA CountStep ==
  ASSUME TypeOK, NEW r \in Requests, Count(r)
  PROVE  /\ asking[r].at = "listing" /\ asking'[r].at \in {"counted", "done"}
         /\ asking'[r].at = "counted" =>
              LET left == Left(asking[r].approved)
              IN  \E wanted \in Nat :
                    /\ wanted <= Total(left)
                    /\ asking'[r].shares = Shares(left, wanted)
                    /\ amount'[r] = wanted
         /\ \A q \in Requests \ {r} : asking'[q] = asking[q] /\ amount'[q] = amount[q]
         /\ UNCHANGED <<refund, commission, request, share, torn>>
<1> DEFINE left == Left(asking[r].approved)
<1>1. /\ asking[r].at = "listing"
      /\ UNCHANGED <<refund, commission, request, share, torn>>
  BY DEF Count, saleVars
<1>2. asking[r].approved \in SUBSET Sales
  BY <1>1, AskingParts
<1>3. left \in [Sales -> Nat] /\ Total(left) \in Nat
  BY <1>2, LeftFits, SumSplit, PayoutAssumption DEF Total, Sum
<1>4. asking \in [Requests -> Asking] /\ amount \in [Requests -> Nat]
  BY DEF TypeOK, Asking
<1>5. \/ \E wanted \in 1 .. Total(left) :
            /\ asking' = [asking EXCEPT ![r] = [at |-> "counted", shares |-> Shares(left, wanted)]]
            /\ amount' = [amount EXCEPT ![r] = wanted]
      \/ asking' = [asking EXCEPT ![r] = [at |-> "done"]] /\ UNCHANGED amount
  BY DEF Count, Goes
<1> HIDE DEF left
<1>6. CASE asking' = [asking EXCEPT ![r] = [at |-> "done"]] /\ UNCHANGED amount
  BY <1>1, <1>4, <1>6
<1>7. ASSUME NEW wanted \in 1 .. Total(left),
             asking' = [asking EXCEPT ![r] = [at |-> "counted", shares |-> Shares(left, wanted)]],
             amount' = [amount EXCEPT ![r] = wanted]
      PROVE  /\ asking'[r].at = "counted"
             /\ wanted \in Nat /\ wanted <= Total(left)
             /\ asking'[r].shares = Shares(left, wanted) /\ amount'[r] = wanted
             /\ \A q \in Requests \ {r} : asking'[q] = asking[q] /\ amount'[q] = amount[q]
  BY <1>3, <1>4, <1>7
<1> QED BY <1>1, <1>5, <1>6, <1>7 DEF left

LEMMA InsertStep ==
  ASSUME TypeOK, NEW r \in Requests, Insert(r)
  PROVE  /\ asking[r].at = "counted"
         /\ \/ /\ OneActive /\ request' = [request EXCEPT ![r] = "PENDING_REVIEW"]
               /\ asking'[r].at = "inserted" /\ asking'[r].shares = asking[r].shares
            \/ asking'[r].at = "done" /\ request' = request
         /\ \A q \in Requests \ {r} : asking'[q] = asking[q]
         /\ UNCHANGED <<refund, commission, amount, share, torn>>
<1>1. asking[r].at = "counted" /\ UNCHANGED <<refund, commission, amount, share, torn>>
  BY DEF Insert, saleVars
<1> DEFINE sh == asking[r].shares
<1>2. asking[r] = [at |-> "counted", shares |-> sh]
  BY <1>1, AskingParts
<1> HIDE DEF sh
<1>3. [asking[r] EXCEPT !.at = "inserted"] = [at |-> "inserted", shares |-> sh]
  BY <1>2
<1>4. \/ /\ OneActive /\ request' = [request EXCEPT ![r] = "PENDING_REVIEW"]
         /\ asking' = [asking EXCEPT ![r] = [at |-> "inserted", shares |-> sh]]
      \/ asking' = [asking EXCEPT ![r] = [at |-> "done"]] /\ request' = request
  BY <1>3 DEF Insert, Goes
<1>5. asking \in [Requests -> Asking]
  BY DEF TypeOK, Asking
<1>6. asking[r].shares = sh
  BY <1>2
<1> QED BY <1>1, <1>4, <1>5, <1>6

LEMMA EndStep ==
  ASSUME TypeOK, NEW r \in Requests, Allocate(r) \/ TakeBack(r) \/ Die(r)
  PROVE  /\ asking[r].at = "inserted" /\ asking'[r].at = "done"
         /\ \A q \in Requests \ {r} : /\ asking'[q] = asking[q] /\ share'[q] = share[q]
                                      /\ request'[q] = request[q]
         /\ \/ /\ share'[r] = asking[r].shares /\ request' = request
               /\ torn' = (torn \/ \E s \in Sales : refund[s].at = "free" /\ asking[r].shares[s] > 0)
            \/ share' = share /\ request'[r] = "NONE" /\ UNCHANGED torn
            \/ share' = share /\ request' = request /\ torn'
         /\ UNCHANGED <<refund, commission, amount>>
BY DEF Allocate, TakeBack, Die, Goes, TypeOK, saleVars

LEMMA DecideStep ==
  ASSUME TypeOK, NEW r \in Requests, NEW next, Decide(r, next)
  PROVE  /\ Active(r) /\ request' = [request EXCEPT ![r] = next]
         /\ next \in {"APPROVED", "PAID", "REJECTED"} /\ (next = "PAID" => torn' = (torn \/ Underway # {}))
         /\ (next # "PAID" => torn' = torn)
         /\ UNCHANGED <<refund, commission, amount, share, asking>>
BY DEF Decide, validateWithdrawalTransition, Active, TypeOK, saleVars

LEMMA SettleStep ==
  ASSUME TypeOK, NEW r \in Requests, NEW s \in Sales, Settle(r, s)
  PROVE  /\ commission' \in {commission, [commission EXCEPT ![s] = "PAID"]}
         /\ commission'[s] = "PAID" => commission[s] = "PAID" \/ Taken(s, {"PAID"}) >= Value[s]
         /\ UNCHANGED <<refund, request, amount, share, asking, torn>>
<1>1. commission = [commission EXCEPT ![s] = commission[s]]
  BY DEF TypeOK
<1> QED BY <1>1 DEF Settle, Settled, TypeOK, saleVars

LEMMA InOrderStep ==
  ASSUME TypeOK, InOrder, ActiveOnce, NEW r \in Requests, RequestStep(r)
  PROVE  InOrder' /\ ActiveOnce'
<1>0. TypeOK /\ InOrder /\ ActiveOnce
  OBVIOUS
<1>1. CASE Ask(r) \/ List(r)
  BY <1>0, <1>1, AskStep DEF InOrder, ActiveOnce, Active
<1>2. CASE Count(r)
  BY <1>0, <1>2, CountStep DEF InOrder, ActiveOnce, Active
<1>3. CASE Insert(r)
  <2>1. InOrder'
    BY <1>0, <1>3, InsertStep DEF InOrder, TypeOK
  <2>2. ActiveOnce'
    BY <1>0, <1>3, InsertStep DEF ActiveOnce, OneActive, Active, TypeOK
  <2> QED BY <2>1, <2>2
<1>4. CASE Allocate(r) \/ TakeBack(r) \/ Die(r)
  <2>1. InOrder'
    BY <1>0, <1>4, EndStep DEF InOrder
  <2>2. ActiveOnce'
    BY <1>0, <1>4, EndStep DEF ActiveOnce, Active
  <2> QED BY <2>1, <2>2
<1>5. ASSUME NEW next \in {"APPROVED", "PAID", "REJECTED"}, Decide(r, next)
      PROVE  InOrder' /\ ActiveOnce'
  <2>1. InOrder'
    BY <1>0, <1>5, DecideStep DEF InOrder, Active, TypeOK
  <2>2. ActiveOnce'
    BY <1>0, <1>5, DecideStep DEF ActiveOnce, Active, TypeOK
  <2> QED BY <2>1, <2>2
<1>6. ASSUME NEW s \in Sales, Settle(r, s)
      PROVE  InOrder' /\ ActiveOnce'
  BY <1>0, <1>6, SettleStep DEF InOrder, ActiveOnce, Active
<1>7. CASE SettleEnds(r)
  BY <1>0, <1>7 DEF SettleEnds, saleVars, InOrder, ActiveOnce, Active
<1> QED BY <1>1, <1>2, <1>3, <1>4, <1>5, <1>6, <1>7 DEF RequestStep

\* What has been paid of a commission never becomes less: a request that is
\* paid stays paid, unless it is taken back before it has any share.
LEMMA PaidRises ==
  ASSUME TypeOK, TypeOK', InOrder, NEW r \in Requests, RequestStep(r), NEW s \in Sales
  PROVE  Taken(s, {"PAID"}) <= Taken(s, {"PAID"})'
<1>0. TypeOK /\ InOrder
  OBVIOUS
<1> DEFINE Kept(q) == request[q] = "PAID" =>
             share[q][s] = 0 \/ (request'[q] = "PAID" /\ share[q][s] <= share'[q][s])
<1>a. \A q \in Requests : share[q][s] \in Nat /\ share'[q][s] \in Nat
  BY DEF TypeOK
<1>b. (UNCHANGED <<request, share>>) => \A q \in Requests : Kept(q)
  BY <1>a
<1>1. ASSUME Ask(r) \/ List(r)
      PROVE  \A q \in Requests : Kept(q)
  BY <1>0, <1>1, <1>b, AskStep
<1>2. ASSUME Count(r)
      PROVE  \A q \in Requests : Kept(q)
  BY <1>0, <1>2, <1>b, CountStep
<1>3. ASSUME Insert(r)
      PROVE  \A q \in Requests : Kept(q)
  <2>1. request[r] = "NONE"
    BY <1>0, <1>3, InsertStep DEF InOrder
  <2>2. share' = share /\ \A q \in Requests \ {r} : request'[q] = request[q]
    BY ZenonT(30), <1>0, <1>3, InsertStep DEF TypeOK
  <2>3. \A q \in Requests : Kept(q)
    BY <1>a, <2>1, <2>2
  <2> QED BY <2>3
<1>4. ASSUME Allocate(r) \/ TakeBack(r) \/ Die(r)
      PROVE  \A q \in Requests : Kept(q)
  <2>1. share[r][s] = 0
    BY <1>0, <1>4, EndStep DEF InOrder, NoShares
  <2>2. \A q \in Requests \ {r} : share'[q] = share[q] /\ request'[q] = request[q]
    BY <1>0, <1>4, EndStep
  <2>3. \A q \in Requests : Kept(q)
    BY <1>a, <2>1, <2>2
  <2> QED BY <2>3
<1>5. ASSUME NEW next \in {"APPROVED", "PAID", "REJECTED"}, Decide(r, next)
      PROVE  \A q \in Requests : Kept(q)
  <2>1. request[r] # "PAID"
    BY <1>0, <1>5, DecideStep DEF Active
  <2>2. share' = share /\ \A q \in Requests \ {r} : request'[q] = request[q]
    BY <1>0, <1>5, DecideStep DEF TypeOK
  <2> QED BY <1>a, <2>1, <2>2
<1>6. ASSUME NEW t \in Sales, Settle(r, t)
      PROVE  \A q \in Requests : Kept(q)
  BY <1>0, <1>6, <1>b, SettleStep
<1>7. ASSUME SettleEnds(r)
      PROVE  \A q \in Requests : Kept(q)
  BY <1>7, <1>b DEF SettleEnds
<1>8. \A q \in Requests : Kept(q)
  <2> HIDE DEF Kept
  <2> QED BY <1>1, <1>2, <1>3, <1>4, <1>5, <1>6, <1>7 DEF RequestStep
<1>9. TakenOf(share, request, s, {"PAID"}) <= TakenOf(share', request', s, {"PAID"})
  <2>1. share \in [Requests -> [Sales -> Nat]] /\ share' \in [Requests -> [Sales -> Nat]]
    BY DEF TypeOK
  <2>2. \A q \in Requests : request[q] \in {"PAID"} =>
           share[q][s] = 0 \/ (request'[q] \in {"PAID"} /\ share[q][s] <= share'[q][s])
    BY <1>8
  <2> HIDE DEF Kept
  <2> QED BY <2>1, <2>2, TakenOfBelow
<1> QED BY <1>9, TakenIs

LEMMA TakenIsNat ==
  ASSUME TypeOK, NEW s \in Sales, NEW states
  PROVE  Taken(s, states) \in Nat
BY TakenIs, TakenOfIsNat DEF TypeOK

LEMMA SaleLeavesTaken ==
  ASSUME UNCHANGED payVars, NEW s, NEW states
  PROVE  Taken(s, states)' = Taken(s, states)
BY DEF payVars, Taken

\* How each step of a sale changes what the invariants read.
LEMMA SaleSteps ==
  ASSUME TypeOK, NEW s \in Sales, SaleStep(s)
  PROVE  /\ torn => torn'
         /\ \A t \in Sales \ {s} : commission'[t] = commission[t] /\ refund'[t] = refund[t]
         /\ \/ commission' = commission
            \/ commission[s] = "NONE" /\ commission'[s] = "PENDING"
            \/ commission'[s] = "APPROVED"
            \/ Reverse(s) /\ commission[s] = refund[s].read /\ commission'[s] = "REVERSED"
         /\ \/ refund' = refund
            \/ refund'[s].at # "free"
            \/ CheckReserved(s)
<1>0. TypeOK
  OBVIOUS
<1> DEFINE Changes ==
         /\ torn => torn'
         /\ \A t \in Sales \ {s} : commission'[t] = commission[t] /\ refund'[t] = refund[t]
         /\ \/ commission' = commission
            \/ commission[s] = "NONE" /\ commission'[s] = "PENDING"
            \/ commission'[s] = "APPROVED"
            \/ Reverse(s) /\ commission[s] = refund[s].read /\ commission'[s] = "REVERSED"
         /\ \/ refund' = refund
            \/ refund'[s].at # "free"
            \/ CheckReserved(s)
<1>1. ASSUME NEW c \in Calls, Confirm(s, c) \/ MarkPaid(s, c) \/ ConfirmFails(s, c)
      PROVE  Changes
  BY <1>1 DEF Confirm, MarkPaid, ConfirmFails
<1>2. ASSUME NEW c \in Calls, Earn(s, c)
      PROVE  Changes
  BY <1>0, <1>2 DEF Earn, TypeOK
<1>3. CASE Look(s)
  BY <1>3 DEF Look, saleVars
<1>4. CASE Approve(s)
  BY <1>0, <1>4 DEF Approve, saleVars, TypeOK
<1>5. CASE Refund(s) \/ ReadCommission(s) \/ ReversalFails(s)
  BY <1>0, <1>5 DEF Refund, ReadCommission, ReversalFails, At, TypeOK
<1>6. CASE CheckReserved(s)
  BY <1>0, <1>6 DEF CheckReserved, At, TypeOK
<1>7. CASE Reverse(s)
  BY <1>0, <1>7 DEF Reverse, At, TypeOK
<1> QED BY <1>1, <1>2, <1>3, <1>4, <1>5, <1>6, <1>7 DEF SaleStep

-----------------------------------------------------------------------------
(* PaidMeansCovered.                                                       *)

LEMMA PaidMeansCoveredStep ==
  ASSUME PInv, TypeOK', [Next]_vars
  PROVE  PaidMeansCovered'
<1>0. TypeOK /\ InOrder /\ PaidMeansCovered
  BY DEF PInv
<1> SUFFICES ASSUME NEW s \in Sales, commission'[s] = "PAID"
             PROVE  Taken(s, {"PAID"})' >= Value[s]
  BY DEF PaidMeansCovered
<1>a. Taken(s, {"PAID"}) \in Nat /\ Taken(s, {"PAID"})' \in Nat /\ Value[s] \in Nat
  <2>1. Taken(s, {"PAID"})' \in Nat
    BY TakenIs, TakenOfIsNat DEF TypeOK
  <2> QED BY <1>0, <2>1, TakenIsNat, PayoutAssumption
<1>1. CASE UNCHANGED vars
  <2>1. Taken(s, {"PAID"})' = Taken(s, {"PAID"}) /\ commission' = commission
    BY <1>1, SaleLeavesTaken DEF vars
  <2> QED BY <1>0, <2>1 DEF PaidMeansCovered
<1>2. ASSUME NEW t \in Sales, SaleStep(t)
      PROVE  Taken(s, {"PAID"})' >= Value[s]
  <2>1. Taken(s, {"PAID"})' = Taken(s, {"PAID"})
    BY <1>2, SaleLeavesRequests, SaleLeavesTaken
  <2>2. commission[s] = "PAID"
    BY <1>0, <1>2, SaleSteps
  <2> QED BY <1>0, <2>1, <2>2 DEF PaidMeansCovered
<1>3. ASSUME NEW r \in Requests, RequestStep(r)
      PROVE  Taken(s, {"PAID"})' >= Value[s]
  <2>1. Taken(s, {"PAID"}) <= Taken(s, {"PAID"})'
    BY <1>0, <1>3, PaidRises
  <2>2. Taken(s, {"PAID"}) >= Value[s]
    <3>1. CASE commission[s] = "PAID"
      BY <1>0, <3>1 DEF PaidMeansCovered
    <3>2. ASSUME NEW t \in Sales, Settle(r, t)
          PROVE  Taken(s, {"PAID"}) >= Value[s]
      <4>1. CASE t = s
        BY <1>0, <3>1, <3>2, <4>1, SettleStep
      <4>2. CASE t # s
        BY <1>0, <3>1, <3>2, <4>2, SettleStep DEF TypeOK
      <4> QED BY <4>1, <4>2
    <3>3. ASSUME ~\E t \in Sales : Settle(r, t)
          PROVE  commission' = commission
      <4>1. CASE Ask(r) \/ List(r)
        BY <1>0, <4>1, AskStep
      <4>2. CASE Count(r)
        BY <1>0, <4>2, CountStep
      <4>3. CASE Insert(r)
        BY <1>0, <4>3, InsertStep
      <4>4. CASE Allocate(r) \/ TakeBack(r) \/ Die(r)
        BY <1>0, <4>4, EndStep
      <4>5. CASE \E next \in {"APPROVED", "PAID", "REJECTED"} : Decide(r, next)
        BY <1>0, <4>5, DecideStep
      <4>6. CASE SettleEnds(r)
        BY <4>6 DEF SettleEnds
      <4> QED BY <1>3, <3>3, <4>1, <4>2, <4>3, <4>4, <4>5, <4>6 DEF RequestStep
    <3> QED BY <3>1, <3>2, <3>3
  <2> QED BY <1>a, <2>1, <2>2
<1> QED BY <1>1, <1>2, <1>3 DEF Next

LEMMA PInit == Init => PInv
<1> SUFFICES ASSUME Init PROVE PInv
  OBVIOUS
<1>1. TypeOK
  BY TypeInit
<1>2. InOrder /\ ActiveOnce /\ PaidMeansCovered
  BY DEF Init, InOrder, ActiveOnce, Active, PaidMeansCovered, Idle
<1> QED BY <1>1, <1>2 DEF PInv

LEMMA PStep == PInv /\ [Next]_vars => PInv'
<1> SUFFICES ASSUME PInv, [Next]_vars PROVE PInv'
  OBVIOUS
<1>0. TypeOK /\ InOrder /\ ActiveOnce
  BY DEF PInv
<1>1. TypeOK'
  BY <1>0, TypeStep
<1>2. PaidMeansCovered'
  BY <1>1, PaidMeansCoveredStep
<1>3. InOrder' /\ ActiveOnce'
  <2>1. ASSUME UNCHANGED payVars
        PROVE  InOrder' /\ ActiveOnce'
    BY <1>0, <2>1 DEF payVars, InOrder, ActiveOnce, Active
  <2>2. CASE UNCHANGED vars
    BY <2>1, <2>2 DEF vars
  <2>3. CASE Next
    BY <1>0, <2>1, <2>3, SaleLeavesRequests, InOrderStep DEF Next
  <2> QED BY <2>2, <2>3
<1> QED BY <1>1, <1>2, <1>3 DEF PInv

\* Every state is well typed (partnerWithdrawalService.ts, billingService.ts).
THEOREM PayoutTypes == Spec => []TypeOK
<1>1. PInv => TypeOK
  BY DEF PInv
<1> QED BY <1>1, PInit, PStep, PTL DEF Spec

\* A commission is called PAID only when payouts have covered all of it, with
\* any number of sales and requests, whatever call is cut off or overtaken.
THEOREM PayoutCovers == Spec => []PaidMeansCovered
<1>1. PInv => PaidMeansCovered
  BY DEF PInv
<1> QED BY <1>1, PInit, PStep, PTL DEF Spec

-----------------------------------------------------------------------------
(* ReversedIsNotPaid.                                                      *)

LEMMA UnsharedStays ==
  ASSUME TypeOK, NEW r \in Requests, RequestStep(r), NEW s \in Sales, Unshared(s),
         commission[s] # "APPROVED"
  PROVE  Unshared(s)'
<1>0. TypeOK /\ Unshared(s)
  OBVIOUS
<1>1. CASE Ask(r) \/ List(r)
  BY <1>0, <1>1, AskStep DEF Unshared
<1>2. CASE Count(r)
  <2>0. asking[r].at = "listing" /\ asking[r].approved \in SUBSET Sales /\ s \notin asking[r].approved
    BY <1>0, <1>2, CountStep, AskingParts DEF Unshared
  <2>1. Left(asking[r].approved) \in [Sales -> Nat] /\ Left(asking[r].approved)[s] = 0
    BY <1>0, <2>0, LeftFits
  <2>2. asking'[r].at = "counted" => asking'[r].shares[s] = 0
    <3> SUFFICES ASSUME asking'[r].at = "counted"
                 PROVE  asking'[r].shares[s] = 0
      OBVIOUS
    <3>1. PICK wanted \in Nat : asking'[r].shares = Shares(Left(asking[r].approved), wanted)
      BY <1>0, <1>2, CountStep
    <3>2. /\ Shares(Left(asking[r].approved), wanted)[s] \in Nat
          /\ Shares(Left(asking[r].approved), wanted)[s] <= Left(asking[r].approved)[s]
      BY <2>1, SharesOne
    <3> QED BY <2>1, <3>1, <3>2
  <2>3. share' = share /\ asking'[r].at \in {"counted", "done"}
        /\ \A q \in Requests \ {r} : asking'[q] = asking[q]
    BY <1>0, <1>2, CountStep
  <2> QED BY <1>0, <2>2, <2>3 DEF Unshared
<1>3. CASE Insert(r)
  BY <1>0, <1>3, InsertStep DEF Unshared
<1>4. CASE Allocate(r) \/ TakeBack(r) \/ Die(r)
  BY <1>0, <1>4, EndStep DEF Unshared
<1>5. ASSUME NEW next \in {"APPROVED", "PAID", "REJECTED"}, Decide(r, next)
      PROVE  Unshared(s)'
  BY <1>0, <1>5, DecideStep DEF Unshared
<1>6. ASSUME NEW t \in Sales, Settle(r, t)
      PROVE  Unshared(s)'
  BY <1>0, <1>6, SettleStep DEF Unshared
<1>7. CASE SettleEnds(r)
  BY <1>0, <1>7 DEF SettleEnds, Unshared
<1> QED BY <1>1, <1>2, <1>3, <1>4, <1>5, <1>6, <1>7 DEF RequestStep

\* A request step calls a commission PAID or leaves its status alone, and it
\* does not touch refunds.
LEMMA RequestSteps ==
  ASSUME TypeOK, NEW r \in Requests, RequestStep(r)
  PROVE  /\ torn \in BOOLEAN /\ (torn => torn')
         /\ refund' = refund
         /\ \A s \in Sales : commission'[s] = commission[s] \/ commission'[s] = "PAID"
         /\ \A s \in Sales : ~torn' /\ refund[s].at = "free" =>
               \A q \in Requests : share'[q][s] = share[q][s]
                                 \/ (share'[q][s] = asking[q].shares[s] /\ ~(asking[q].shares[s] > 0)
                                     /\ asking[q].at = "inserted")
<1>0. TypeOK /\ torn \in BOOLEAN
  BY DEF TypeOK
<1> DEFINE Changes ==
         /\ torn => torn'
         /\ refund' = refund
         /\ \A s \in Sales : commission'[s] = commission[s] \/ commission'[s] = "PAID"
         /\ \A s \in Sales : ~torn' /\ refund[s].at = "free" =>
               \A q \in Requests : share'[q][s] = share[q][s]
                                 \/ (share'[q][s] = asking[q].shares[s] /\ ~(asking[q].shares[s] > 0)
                                     /\ asking[q].at = "inserted")
<1>1. CASE Ask(r) \/ List(r)
  BY <1>0, <1>1, AskStep
<1>2. CASE Count(r)
  BY <1>0, <1>2, CountStep
<1>3. CASE Insert(r)
  BY <1>0, <1>3, InsertStep
<1>4. CASE Allocate(r) \/ TakeBack(r) \/ Die(r)
  BY <1>0, <1>4, EndStep
<1>5. ASSUME NEW next \in {"APPROVED", "PAID", "REJECTED"}, Decide(r, next)
      PROVE  Changes
  BY <1>0, <1>5, DecideStep
<1>6. ASSUME NEW t \in Sales, Settle(r, t)
      PROVE  Changes
  BY <1>0, <1>6, SettleStep DEF TypeOK
<1>7. CASE SettleEnds(r)
  BY <1>0, <1>7 DEF SettleEnds, saleVars
<1> QED BY <1>0, <1>1, <1>2, <1>3, <1>4, <1>5, <1>6, <1>7 DEF RequestStep

LEMMA RInit == Init => RInv
<1> SUFFICES ASSUME Init PROVE RInv
  OBVIOUS
<1>1. \A s \in Sales : Unshared(s)
  BY DEF Init, Unshared, NoShares, Idle
<1>2. PInv
  BY PInit
<1>3. FoundFree
  BY DEF Init, FoundFree, Idle
<1> QED BY <1>1, <1>2, <1>3 DEF RInv, Unearned, Reversed

LEMMA RStep == RInv /\ [Next]_vars => RInv'
<1> SUFFICES ASSUME RInv, [Next]_vars PROVE RInv'
  OBVIOUS
<1>0. TypeOK /\ PInv /\ Unearned /\ Reversed /\ FoundFree
  BY DEF RInv, PInv
<1>1. PInv'
  BY <1>0, PStep
<1>2. CASE UNCHANGED vars
  BY <1>0, <1>1, <1>2 DEF vars, saleVars, payVars, RInv, Unearned, Reversed, FoundFree, Unshared
<1>3. ASSUME NEW t \in Sales, SaleStep(t)
      PROVE  Unearned' /\ Reversed' /\ FoundFree'
  <2>1. UNCHANGED payVars
    BY <1>3, SaleLeavesRequests
  <2>2. \A s \in Sales : Unshared(s) => Unshared(s)'
    BY <2>1 DEF payVars, Unshared
  <2>3. Unearned'
    <3> SUFFICES ASSUME NEW s \in Sales, commission'[s] \in {"NONE", "PENDING"}
                 PROVE  Unshared(s)
      BY <2>2 DEF Unearned
    <3>1. commission[s] \in {"NONE", "PENDING"}
      BY <1>0, <1>3, SaleSteps
    <3> QED BY <1>0, <3>1 DEF Unearned
  <2>4. Reversed'
    <3> SUFFICES ASSUME ~torn', NEW s \in Sales, commission'[s] = "REVERSED"
                 PROVE  Unshared(s)
      BY <2>2 DEF Reversed
    <3>1. ~torn
      BY <1>0, <1>3, SaleSteps
    <3>2. CASE commission[s] = "REVERSED"
      BY <1>0, <3>1, <3>2 DEF Reversed
    <3>3. CASE commission[s] # "REVERSED"
      <4>1. Reverse(s) /\ commission[s] = refund[s].read
        BY <1>0, <1>3, <3>3, SaleSteps
      <4>2. refund[s].at = "free" /\ Underway = {}
        BY <1>0, <4>1 DEF Reverse, TypeOK
      <4>3. refund[s].read \in {"PENDING", "APPROVED"}
        <5>1. refund[s] \in {Idle} \cup [at : {"marked", "done"}, read : {"NONE"}]
                      \cup [at : {"listed", "free"}, read : {"PENDING", "APPROVED"}]
          BY <1>0 DEF TypeOK
        <5> QED BY <4>2, <5>1 DEF Idle
      <4>4. CASE refund[s].read = "PENDING"
        BY <1>0, <4>1, <4>4 DEF Unearned
      <4>5. CASE refund[s].read = "APPROVED"
        <5>1. \A r \in Requests : share[r][s] = 0
          BY <1>0, <3>1, <4>2, <4>5 DEF FoundFree
        <5>2. \A r \in Requests : asking[r].at \notin {"listing", "counted", "inserted"}
          BY <4>2 DEF Underway
        <5> QED BY <5>1, <5>2 DEF Unshared
      <4> QED BY <4>3, <4>4, <4>5
    <3> QED BY <3>2, <3>3
  <2>5. FoundFree'
    <3> SUFFICES ASSUME ~torn', NEW s \in Sales, refund'[s].at = "free", refund'[s].read = "APPROVED",
                        NEW r \in Requests
                 PROVE  share[r][s] = 0
      BY <2>1 DEF FoundFree, payVars
    <3>1. ~torn
      BY <1>0, <1>3, SaleSteps
    <3>2. CASE refund'[s] = refund[s]
      BY <1>0, <3>1, <3>2 DEF FoundFree
    <3>3. CASE refund'[s] # refund[s]
      <4>1. CheckReserved(s)
        BY <1>0, <1>3, <3>3, SaleSteps
      <4>2. ~Reserved(s)
        BY <1>0, <4>1 DEF CheckReserved, At, TypeOK
      <4>3. share[r][s] \in Nat
        BY <1>0 DEF TypeOK
      <4> QED BY <4>2, <4>3 DEF Reserved
    <3> QED BY <3>2, <3>3
  <2> QED BY <2>3, <2>4, <2>5
<1>4. ASSUME NEW r \in Requests, RequestStep(r)
      PROVE  Unearned' /\ Reversed' /\ FoundFree'
  <2>1. /\ torn => torn'
        /\ refund' = refund
        /\ \A s \in Sales : commission'[s] = commission[s] \/ commission'[s] = "PAID"
    BY <1>0, <1>4, RequestSteps
  <2>2. \A s \in Sales : Unshared(s) /\ commission[s] # "APPROVED" => Unshared(s)'
    BY <1>0, <1>4, UnsharedStays
  <2>3. Unearned'
    <3> SUFFICES ASSUME NEW s \in Sales, commission'[s] \in {"NONE", "PENDING"}
                 PROVE  Unshared(s)'
      BY DEF Unearned
    <3>1. commission[s] \in {"NONE", "PENDING"}
      BY <2>1
    <3> QED BY <1>0, <2>2, <3>1 DEF Unearned
  <2>4. Reversed'
    <3> SUFFICES ASSUME ~torn', NEW s \in Sales, commission'[s] = "REVERSED"
                 PROVE  Unshared(s)'
      BY DEF Reversed
    <3>1. commission[s] = "REVERSED"
      BY <2>1
    <3> QED BY <1>0, <2>1, <2>2, <3>1 DEF Reversed
  <2>5. FoundFree'
    <3> SUFFICES ASSUME ~torn', NEW s \in Sales, refund[s].at = "free", refund[s].read = "APPROVED",
                        NEW q \in Requests
                 PROVE  share'[q][s] = 0
      BY <2>1 DEF FoundFree
    <3>1. share[q][s] = 0
      BY <1>0, <2>1 DEF FoundFree
    <3>2. CASE share'[q][s] = share[q][s]
      BY <3>1, <3>2
    <3>3. CASE share'[q][s] = asking[q].shares[s] /\ ~(asking[q].shares[s] > 0) /\ asking[q].at = "inserted"
      <4>1. asking[q].shares[s] \in Nat
        BY <1>0, <3>3, AskingParts
      <4> QED BY <3>3, <4>1
    <3> QED BY <1>0, <1>4, <3>2, <3>3, RequestSteps
  <2> QED BY <2>3, <2>4, <2>5
<1> QED BY <1>1, <1>2, <1>3, <1>4 DEF Next, RInv

LEMMA UnsharedIsUntaken ==
  ASSUME TypeOK, NEW s \in Sales, Unshared(s), NEW states
  PROVE  Taken(s, states) = 0
<1>1. share \in [Requests -> [Sales -> Nat]] /\ \A r \in Requests : share[r][s] = 0
  BY DEF TypeOK, Unshared
<1>2. TakenOf(share, request, s, states) <= TakenOf(share, request, s, {})
  BY <1>1, TakenOfBelow
<1>3. TakenOf(share, request, s, {}) = 0
  <2>1. {r \in Requests : request[r] \in {}} = {}
    OBVIOUS
  <2> QED BY <2>1, SumOfNone DEF TakenOf
<1> QED BY <1>1, <1>2, <1>3, TakenIs, TakenOfIsNat

\* A commission that a refund took back is in no request that may still be
\* paid, or has been, unless a call was cut off or overtaken.
THEOREM PayoutSparesReversed == Spec => []ReversedIsNotPaid
<1>1. RInv => ReversedIsNotPaid
  BY UnsharedIsUntaken DEF RInv, PInv, Reversed, ReversedIsNotPaid
<1> QED BY <1>1, RInit, RStep, PTL DEF Spec

-----------------------------------------------------------------------------
(* PaysWhatWasEarned.                                                      *)

\* What has been paid is the same while the same requests are paid, with the
\* shares they have.
LEMMA TakenSame ==
  ASSUME TypeOK, TypeOK',
         \A q \in Requests : /\ request'[q] = "PAID" <=> request[q] = "PAID"
                             /\ request[q] = "PAID" => share'[q] = share[q]
  PROVE  \A s \in Sales : Taken(s, {"PAID"})' = Taken(s, {"PAID"})
<1> TAKE s \in Sales
<1>1. share \in [Requests -> [Sales -> Nat]] /\ share' \in [Requests -> [Sales -> Nat]]
  BY DEF TypeOK
<1>2. TakenOf(share, request, s, {"PAID"}) <= TakenOf(share', request', s, {"PAID"})
  <2>1. \A q \in Requests : request[q] \in {"PAID"} =>
           request'[q] \in {"PAID"} /\ share[q][s] <= share'[q][s]
    BY <1>1
  <2> QED BY <1>1, <2>1, TakenOfBelow
<1>3. TakenOf(share', request', s, {"PAID"}) <= TakenOf(share, request, s, {"PAID"})
  <2>1. \A q \in Requests : request'[q] \in {"PAID"} =>
           request[q] \in {"PAID"} /\ share'[q][s] <= share[q][s]
    BY <1>1
  <2> QED BY <1>1, <2>1, TakenOfBelow
<1>4. TakenOf(share, request, s, {"PAID"}) \in Nat /\ TakenOf(share', request', s, {"PAID"}) \in Nat
  BY <1>1, TakenOfIsNat
<1>5. TakenOf(share', request', s, {"PAID"}) = TakenOf(share, request, s, {"PAID"})
  BY <1>2, <1>3, <1>4
<1> QED BY <1>5, TakenIs

\* Fits and Within under such a step.
LEMMA FitsStays ==
  ASSUME \A s \in Sales : Taken(s, {"PAID"})' = Taken(s, {"PAID"})
  PROVE  /\ Within => Within'
         /\ \A q \in Requests : Fits(share[q]) /\ share'[q] = share[q] => Fits(share[q])'
         /\ \A q \in Requests : Fits(asking[q].shares) /\ share'[q] = asking[q].shares => Fits(share[q])'
         /\ \A q \in Requests : Fits(asking[q].shares) /\ asking'[q].shares = asking[q].shares
                                => Fits(asking[q].shares)'
BY DEF Within, Fits

\* Total reads the shares only.
LEMMA TotalStays ==
  ASSUME NEW q
  PROVE  /\ Total(share[q])' = Total(share'[q])
         /\ Total(asking[q].shares)' = Total(asking'[q].shares)
BY DEF Total

Parts == PaidAfterAll /\ Counted /\ Stored /\ Within

LEMMA CountHonest ==
  ASSUME TypeOK, TypeOK', InOrder, Parts, NEW r \in Requests, Count(r)
  PROVE  Parts'
<1>0. TypeOK /\ TypeOK' /\ InOrder /\ PaidAfterAll /\ Counted /\ Stored /\ Within
  BY DEF Parts
<1>1. /\ asking[r].at = "listing" /\ asking'[r].at \in {"counted", "done"}
      /\ \A q \in Requests \ {r} : asking'[q] = asking[q] /\ amount'[q] = amount[q]
      /\ request' = request /\ share' = share
  BY <1>0, CountStep
<1>2. request[r] = "NONE"
  BY <1>0, <1>1 DEF InOrder, TypeOK
<1>3. \A s \in Sales : Taken(s, {"PAID"})' = Taken(s, {"PAID"})
  BY <1>0, <1>1, TakenSame
<1>4. asking'[r].at = "counted" =>
        amount'[r] = Total(asking'[r].shares) /\ Fits(asking[r].shares)'
  <2> SUFFICES ASSUME asking'[r].at = "counted"
               PROVE  amount'[r] = Total(asking'[r].shares) /\ Fits(asking[r].shares)'
    OBVIOUS
  <2> DEFINE left == Left(asking[r].approved)
  <2>1. PICK wanted \in Nat : /\ wanted <= Total(left)
                              /\ asking'[r].shares = Shares(left, wanted)
                              /\ amount'[r] = wanted
    BY <1>0, CountStep
  <2>2. asking[r].approved \in SUBSET Sales
    BY <1>0, <1>1, AskingParts
  <2>3. /\ left \in [Sales -> Nat]
        /\ \A s \in Sales : left[s] + Taken(s, {"PAID"}) <= Value[s]
    BY <1>0, <2>2, LeftFits DEF Within
  <2>4. Shares(left, wanted) \in [Sales -> Nat] /\ Total(Shares(left, wanted)) = wanted
    BY <2>1, <2>3, SharesAddUp
  <2>5. \A s \in Sales : Shares(left, wanted)[s] <= left[s]
    BY <2>3, SharesOne
  <2>6. ASSUME NEW s \in Sales
        PROVE  Shares(left, wanted)[s] + Taken(s, {"PAID"}) <= Value[s]
    <3> DEFINE a == Shares(left, wanted)[s]  l == left[s]  p == Taken(s, {"PAID"})  v == Value[s]
    <3>1. a \in Nat /\ l \in Nat /\ p \in Nat /\ v \in Nat
      BY <1>0, <2>3, <2>4, TakenIsNat, PayoutAssumption
    <3>2. a <= l /\ l + p <= v
      BY <2>3, <2>5
    <3> HIDE DEF a, l, p, v
    <3>3. a + p <= v
      BY <3>1, <3>2
    <3> QED BY <3>3 DEF a, p, v
  <2> HIDE DEF left
  <2>7. amount'[r] = Total(asking'[r].shares)
    BY <2>1, <2>4
  <2>8. Fits(asking[r].shares)'
    BY <1>3, <2>1, <2>6 DEF Fits
  <2> QED BY <2>7, <2>8
<1>5. Counted'
  BY <1>0, <1>1, <1>3, <1>4, FitsStays, TotalStays DEF Counted
<1>6. Stored'
  BY <1>0, <1>1, <1>2, <1>3, FitsStays, TotalStays DEF Stored, Active
<1>7. PaidAfterAll' /\ Within'
  BY <1>0, <1>1, <1>2, <1>3, FitsStays DEF PaidAfterAll
<1> QED BY <1>5, <1>6, <1>7 DEF Parts

LEMMA PaidHonest ==
  ASSUME TypeOK, TypeOK', InOrder, ActiveOnce, Parts,
         NEW r \in Requests, Decide(r, "PAID"), ~torn'
  PROVE  Parts'
<1>0. TypeOK /\ TypeOK' /\ InOrder /\ ActiveOnce /\ PaidAfterAll /\ Counted /\ Stored /\ Within
  BY DEF Parts
<1>1. /\ Active(r) /\ request' = [request EXCEPT ![r] = "PAID"] /\ Underway = {}
      /\ UNCHANGED <<amount, share, asking>>
  BY <1>0, DecideStep
<1>2. \A q \in Requests : asking[q].at \notin {"listing", "counted", "inserted"}
  BY <1>1 DEF Underway
<1>3. asking[r].at = "done"
  BY <1>0, <1>1, <1>2 DEF InOrder, Active
<1>4. \A q \in Requests \ {r} : request'[q] = request[q] /\ ~Active(q)
  BY <1>0, <1>1 DEF ActiveOnce, TypeOK
<1>5. request'[r] = "PAID" /\ request[r] # "PAID"
  BY <1>0, <1>1 DEF Active, TypeOK
<1>6. Fits(share[r]) /\ amount[r] = Total(share[r])
  BY <1>0, <1>1, <1>3 DEF Stored
<1>7. Within'
  <2> SUFFICES ASSUME NEW s \in Sales PROVE Taken(s, {"PAID"})' <= Value[s]
    BY DEF Within
  <2>1. TakenOf(share, request', s, {"PAID"}) = share[r][s] + TakenOf(share, request, s, {"PAID"})
    <3>1. share \in [Requests -> [Sales -> Nat]]
      BY <1>0 DEF TypeOK
    <3> DEFINE paid == {"PAID"}
               before == request
               after == request'
    <3>2. /\ before[r] \notin paid /\ after[r] \in paid
          /\ \A q \in Requests \ {r} : after[q] \in paid <=> before[q] \in paid
      BY <1>4, <1>5
    <3> HIDE DEF paid, before, after
    <3>3. TakenOf(share, after, s, paid) = share[r][s] + TakenOf(share, before, s, paid)
      BY <3>1, <3>2, TakenOfPlus
    <3> QED BY <3>3 DEF paid, before, after
  <2>2. Taken(s, {"PAID"})' = share[r][s] + Taken(s, {"PAID"})
    BY <1>1, <2>1, TakenIs
  <2> QED BY <1>6, <2>2 DEF Fits
<1>8. PaidAfterAll'
  BY <1>0, <1>1, <1>3, <1>4 DEF PaidAfterAll
<1>9. Counted'
  BY <1>1, <1>2 DEF Counted
<1>10. Stored'
  <2>1. \A q \in Requests : ~Active(q)'
    BY <1>4, <1>5 DEF Active
  <2>2. ASSUME NEW q \in Requests, asking[q].at = "done", request'[q] = "PAID"
        PROVE  amount[q] = Total(share[q])
    BY <1>0, <1>4, <1>6, <2>2 DEF Stored
  <2> QED BY <1>1, <2>1, <2>2, TotalStays DEF Stored
<1> QED BY <1>7, <1>8, <1>9, <1>10 DEF Parts

LEMMA RequestHonest ==
  ASSUME TypeOK, TypeOK', InOrder, ActiveOnce, Parts, NEW r \in Requests, RequestStep(r), ~torn'
  PROVE  Parts'
<1>0. TypeOK /\ TypeOK' /\ InOrder /\ PaidAfterAll /\ Counted /\ Stored /\ Within
  BY DEF Parts
<1>1. ASSUME UNCHANGED <<request, share, amount>>,
             \A q \in Requests \ {r} : asking'[q] = asking[q],
             asking'[r] = asking[r] \/ (request[r] = "NONE" /\ asking'[r].at \in {"asked", "listing"})
      PROVE  Parts'
  <2>1. \A s \in Sales : Taken(s, {"PAID"})' = Taken(s, {"PAID"})
    BY <1>0, <1>1, TakenSame
  <2>2. Counted'
    BY <1>0, <1>1, <2>1, FitsStays, TotalStays DEF Counted
  <2>3. Stored'
    BY <1>0, <1>1, <2>1, FitsStays, TotalStays DEF Stored, Active
  <2>4. PaidAfterAll' /\ Within'
    BY <1>0, <1>1, <2>1, FitsStays DEF PaidAfterAll
  <2> QED BY <2>2, <2>3, <2>4 DEF Parts
<1>2. CASE Ask(r) \/ List(r)
  <2>1. request[r] = "NONE"
    BY <1>0, <1>2, AskStep DEF InOrder, TypeOK
  <2> QED BY <1>0, <1>1, <1>2, <2>1, AskStep
<1>3. CASE Count(r)
  BY <1>0, <1>3, CountHonest
<1>4. CASE Insert(r)
  <2>1. /\ asking[r].at = "counted" /\ request[r] = "NONE"
        /\ \A q \in Requests \ {r} : asking'[q] = asking[q] /\ request'[q] = request[q]
        /\ UNCHANGED <<share, amount>>
    <3>1. /\ asking[r].at = "counted" /\ UNCHANGED <<share, amount>>
          /\ \A q \in Requests \ {r} : asking'[q] = asking[q]
          /\ request' = request \/ request' = [request EXCEPT ![r] = "PENDING_REVIEW"]
      BY <1>0, <1>4, InsertStep
    <3>2. request[r] = "NONE"
      BY <1>0, <3>1 DEF InOrder
    <3>3. \A q \in Requests \ {r} : request'[q] = request[q]
      BY <1>0, <3>1 DEF TypeOK
    <3> QED BY <3>1, <3>2, <3>3
  <2>2. \/ request'[r] = "PENDING_REVIEW" /\ asking'[r].at = "inserted"
           /\ asking'[r].shares = asking[r].shares
        \/ request'[r] = "NONE" /\ asking'[r].at = "done"
    BY <1>0, <1>4, <2>1, InsertStep DEF TypeOK
  <2>3. \A s \in Sales : Taken(s, {"PAID"})' = Taken(s, {"PAID"})
    BY <1>0, <2>1, <2>2, TakenSame
  <2>4. Counted'
    BY <1>0, <2>1, <2>2, <2>3, FitsStays, TotalStays DEF Counted
  <2>5. Stored'
    BY <1>0, <2>1, <2>2, <2>3, FitsStays, TotalStays DEF Stored, Active
  <2>6. PaidAfterAll' /\ Within'
    BY <1>0, <2>1, <2>2, <2>3, FitsStays DEF PaidAfterAll
  <2> QED BY <2>4, <2>5, <2>6 DEF Parts
<1>5. CASE Allocate(r) \/ TakeBack(r) \/ Die(r)
  <2>1. /\ asking[r].at = "inserted" /\ asking'[r].at = "done" /\ request[r] # "PAID"
        /\ \A q \in Requests \ {r} : /\ asking'[q] = asking[q] /\ share'[q] = share[q]
                                     /\ request'[q] = request[q]
        /\ amount' = amount
        /\ \/ share'[r] = asking[r].shares /\ request'[r] = request[r]
           \/ request'[r] = "NONE"
    BY <1>0, <1>5, EndStep DEF PaidAfterAll
  <2>2. \A s \in Sales : Taken(s, {"PAID"})' = Taken(s, {"PAID"})
    BY <1>0, <2>1, TakenSame
  <2>3. Counted'
    BY <1>0, <2>1, <2>2, FitsStays, TotalStays DEF Counted
  <2>4. Stored'
    <3>1. ASSUME NEW q \in Requests, q # r, asking'[q].at = "done"
          PROVE  (Active(q)' => Fits(share[q])') /\ (Active(q)' \/ request'[q] = "PAID" => amount'[q] = Total(share[q])')
      BY <1>0, <2>1, <2>2, <3>1, FitsStays, TotalStays DEF Stored, Active
    <3>2. (Active(r)' => Fits(share[r])') /\ (Active(r)' \/ request'[r] = "PAID" => amount'[r] = Total(share[r])')
      BY <1>0, <2>1, <2>2, FitsStays, TotalStays DEF Counted, Active
    <3> QED BY <3>1, <3>2 DEF Stored
  <2>5. PaidAfterAll' /\ Within'
    BY <1>0, <2>1, <2>2, FitsStays DEF PaidAfterAll
  <2> QED BY <2>3, <2>4, <2>5 DEF Parts
<1>6. ASSUME NEW next \in {"APPROVED", "PAID", "REJECTED"}, Decide(r, next)
      PROVE  Parts'
  <2>1. CASE next = "PAID"
    BY <1>6, <2>1, PaidHonest
  <2>2. CASE next # "PAID"
    <3>1. /\ Active(r) /\ request'[r] = next
          /\ \A q \in Requests \ {r} : request'[q] = request[q]
          /\ UNCHANGED <<amount, share, asking>>
      BY <1>0, <1>6, DecideStep DEF TypeOK
    <3>2. \A s \in Sales : Taken(s, {"PAID"})' = Taken(s, {"PAID"})
      BY <1>0, <2>2, <3>1, TakenSame DEF Active
    <3>3. Counted'
      BY <1>0, <3>1, <3>2, FitsStays, TotalStays DEF Counted
    <3>4. Stored'
      <4>1. \A q \in Requests : (Active(q)' => Active(q)) /\ (request'[q] = "PAID" => request[q] = "PAID")
        BY <2>2, <3>1 DEF Active
      <4> QED BY <1>0, <3>1, <3>2, <4>1, FitsStays, TotalStays DEF Stored
    <3>5. PaidAfterAll' /\ Within'
      BY <1>0, <2>2, <3>1, <3>2, FitsStays DEF PaidAfterAll
    <3> QED BY <3>3, <3>4, <3>5 DEF Parts
  <2> QED BY <2>1, <2>2
<1>7. ASSUME NEW s \in Sales, Settle(r, s)
      PROVE  Parts'
  BY <1>0, <1>1, <1>7, SettleStep
<1>8. CASE SettleEnds(r)
  BY <1>1, <1>8 DEF SettleEnds
<1> QED BY <1>2, <1>3, <1>4, <1>5, <1>6, <1>7, <1>8 DEF RequestStep

LEMMA HInit == Init => HInv
<1> SUFFICES ASSUME Init PROVE HInv
  OBVIOUS
<1>1. PInv
  BY PInit
<1>2. PaidAfterAll /\ Counted /\ Stored
  BY DEF Init, PaidAfterAll, Counted, Stored, Active, Idle
<1>3. Within
  <2> SUFFICES ASSUME NEW s \in Sales PROVE Taken(s, {"PAID"}) <= Value[s]
    BY DEF Within
  <2>1. Unshared(s)
    BY DEF Init, Unshared, NoShares, Idle
  <2>2. Taken(s, {"PAID"}) = 0
    BY <1>1, <2>1, UnsharedIsUntaken DEF PInv
  <2> QED BY <2>2, PayoutAssumption
<1> QED BY <1>1, <1>2, <1>3 DEF HInv, Honest

LEMMA HStep == HInv /\ [Next]_vars => HInv'
<1> SUFFICES ASSUME HInv, [Next]_vars PROVE HInv'
  OBVIOUS
<1>0. TypeOK /\ PInv /\ InOrder /\ ActiveOnce /\ Honest
  BY DEF HInv, PInv
<1>1. PInv' /\ TypeOK'
  BY <1>0, PStep DEF PInv
<1>2. ASSUME UNCHANGED payVars, ~torn', ~torn
      PROVE  Parts'
  <2>1. Parts /\ UNCHANGED <<request, amount, share, asking>>
    BY <1>0, <1>2 DEF Honest, Parts, payVars
  <2>2. \A s \in Sales : Taken(s, {"PAID"})' = Taken(s, {"PAID"})
    BY <1>2, SaleLeavesTaken
  <2>3. PaidAfterAll' /\ Within'
    BY <2>1, <2>2, FitsStays DEF Parts, PaidAfterAll
  <2>4. Counted'
    BY <2>1, <2>2, FitsStays, TotalStays DEF Parts, Counted
  <2>5. Stored'
    BY <2>1, <2>2, FitsStays, TotalStays DEF Parts, Stored, Active
  <2> QED BY <2>3, <2>4, <2>5 DEF Parts
<1>3. ~torn' => Parts'
  <2>1. CASE UNCHANGED vars
    BY <1>2, <2>1 DEF vars
  <2>2. ASSUME NEW t \in Sales, SaleStep(t)
        PROVE  ~torn' => Parts'
    BY <1>0, <1>2, <2>2, SaleSteps, SaleLeavesRequests
  <2>3. ASSUME NEW r \in Requests, RequestStep(r), ~torn'
        PROVE  Parts'
    <3>1. ~torn
      BY <1>0, <2>3, RequestSteps
    <3>2. Parts
      BY <1>0, <3>1 DEF Honest, Parts
    <3> QED BY <1>0, <1>1, <2>3, <3>2, RequestHonest
  <2> QED BY <2>1, <2>2, <2>3 DEF Next
<1>4. Honest'
  BY <1>3 DEF Honest, Parts
<1> QED BY <1>1, <1>4 DEF HInv

\* No more is paid out than was earned, by any number of requests about any
\* number of commissions, unless a call was cut off or overtaken.
THEOREM PayoutPaysWhatWasEarned == Spec => []PaysWhatWasEarned
<1>1. HInv => PaysWhatWasEarned
  BY DEF HInv, PInv, Honest, PaidAfterAll, Stored, Within, PaysWhatWasEarned
<1> QED BY <1>1, HInit, HStep, PTL DEF Spec

=============================================================================
