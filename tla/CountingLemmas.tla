----------------------------- MODULE CountingLemmas -----------------------------
(***************************************************************************)
(* What the proofs need to count: induction over the subsets of a finite   *)
(* set, sums over a set, and queues as sets of tokens.                     *)
(***************************************************************************)
EXTENDS Integers, FiniteSets, FiniteSetTheorems, WellFoundedInduction, TLAPS

\* Induction over the subsets of a finite set, for a set of them.
LEMMA SetInduction ==
    ASSUME NEW S, IsFiniteSet(S), NEW P,
           \A s \in SUBSET S : (\A u \in SUBSET s : u # s => u \in P) => s \in P
    PROVE  \A s \in SUBSET S : s \in P
<1>. DEFINE R == StrictSubsetOrdering(S)
            T == {s \in SUBSET S : s \notin P}
<1>1. FiniteSubsetsOf(S) = SUBSET S
  BY FS_FiniteSubsetsOfFinite
<1>2. IsWellFoundedOn(R, SUBSET S)
  BY <1>1, FS_StrictSubsetOrderingWellFounded
<1>3. SUFFICES ASSUME T # {} PROVE FALSE
  OBVIOUS
<1>4. T \subseteq SUBSET S
  OBVIOUS
<1>5. PICK s \in T : \A u \in T : <<u, s>> \notin R
  <2>. HIDE DEF R, T
  <2>. QED BY <1>2, <1>3, <1>4, WFMin
<1>6. \A u \in SUBSET s : u # s => u \in P
  BY <1>5 DEF StrictSubsetOrdering
<1>. QED BY <1>5, <1>6

-----------------------------------------------------------------------------
Pick(s) == CHOOSE x \in s : TRUE

\* The equation of MapThenSumSet: the sum over each subset of S, from g.
SumBody(f, S, g) == [s \in SUBSET S |-> IF s = {} THEN 0 ELSE f[Pick(s)] + g[s \ {Pick(s)}]]
Sums(f, S) == CHOOSE g : g = SumBody(f, S, g)

LEMMA PickIn == \A s : s # {} => Pick(s) \in s
BY DEF Pick

\* Two solutions agree where both are defined.
LEMMA SumsAgree ==
    ASSUME NEW S, IsFiniteSet(S), NEW f, NEW A \in SUBSET S, NEW B \in SUBSET S,
           NEW g, g = SumBody(f, A, g), NEW h, h = SumBody(f, B, h)
    PROVE  \A s \in SUBSET (A \cap B) : g[s] = h[s]
<1>. DEFINE P == {s \in SUBSET S : s \in SUBSET (A \cap B) => g[s] = h[s]}
<1>1. ASSUME NEW s \in SUBSET S, \A u \in SUBSET s : u # s => u \in P, s \in SUBSET (A \cap B)
      PROVE  g[s] = h[s]
  <2>1. CASE s = {}
    <3>1. g[s] = SumBody(f, A, g)[s] /\ h[s] = SumBody(f, B, h)[s]
      OBVIOUS
    <3>. QED BY <3>1, <2>1 DEF SumBody
  <2>2. CASE s # {}
    <3>. DEFINE u == s \ {Pick(s)}
    <3>1. u \in SUBSET s /\ u # s
      BY <2>2, PickIn
    <3>2. g[u] = h[u]
      BY <1>1, <3>1
    <3>3. g[s] = SumBody(f, A, g)[s] /\ h[s] = SumBody(f, B, h)[s]
      OBVIOUS
    <3>4. SumBody(f, A, g)[s] = f[Pick(s)] + g[u] /\ SumBody(f, B, h)[s] = f[Pick(s)] + h[u]
      BY <2>2, <1>1 DEF SumBody
    <3>. QED BY <3>2, <3>3, <3>4
  <2>. QED BY <2>1, <2>2
<1>2. \A s \in SUBSET S : (\A u \in SUBSET s : u # s => u \in P) => s \in P
  BY <1>1
<1>3. \A s \in SUBSET S : s \in P
  <2>. HIDE DEF P
  <2>. QED BY <1>2, SetInduction
<1>. QED BY <1>3

\* The equation has a solution.
LEMMA SumsExist ==
    ASSUME NEW S, IsFiniteSet(S), NEW f
    PROVE  \E g : g = SumBody(f, S, g)
<1>. DEFINE P == {A \in SUBSET S : \E g : g = SumBody(f, A, g)}
<1>1. ASSUME NEW A \in SUBSET S, \A B \in SUBSET A : B # A => B \in P
      PROVE  A \in P
  <2>. DEFINE G(B) == CHOOSE g : g = SumBody(f, B, g)
              Of(s) == IF s = {} THEN 0 ELSE f[Pick(s)] + G(s \ {Pick(s)})[s \ {Pick(s)}]
              k == [s \in SUBSET A |-> Of(s)]
  <2>1. \A B \in SUBSET A : B # A => G(B) = SumBody(f, B, G(B))
    BY <1>1
  <2>2. ASSUME NEW B \in SUBSET A, B # A
        PROVE  G(B)[B] = Of(B)
    <3>1. G(B)[B] = SumBody(f, B, G(B))[B]
      BY <2>1, <2>2
    <3>2. CASE B = {}
      BY <3>1, <3>2 DEF SumBody
    <3>3. CASE B # {}
      <4>. DEFINE u == B \ {Pick(B)}
      <4>1. u \in SUBSET A /\ u # A /\ u \subseteq B
        BY <3>3, PickIn
      <4>2. G(u) = SumBody(f, u, G(u)) /\ G(B) = SumBody(f, B, G(B))
        BY <2>1, <2>2, <4>1
      <4>3. G(u)[u] = G(B)[u]
        <5>. HIDE DEF G
        <5>1. u \in SUBSET (u \cap B) /\ u \in SUBSET S /\ B \in SUBSET S
          BY <4>1
        <5>. QED BY <4>2, <5>1, SumsAgree
      <4>4. SumBody(f, B, G(B))[B] = f[Pick(B)] + G(B)[u]
        BY <3>3 DEF SumBody
      <4>. QED BY <3>1, <3>3, <4>3, <4>4
    <3>. QED BY <3>2, <3>3
  <2>3. PICK j : j = k
    OBVIOUS
  <2>4. ASSUME NEW s \in SUBSET A
        PROVE  Of(s) = IF s = {} THEN 0 ELSE f[Pick(s)] + j[s \ {Pick(s)}]
    <3>1. CASE s = {}
      BY <3>1
    <3>2. CASE s # {}
      <4>. DEFINE u == s \ {Pick(s)}
      <4>1. u \in SUBSET A /\ u # A
        BY <3>2, PickIn
      <4>2. j[u] = G(u)[u]
        BY <2>2, <2>3, <4>1
      <4>. QED BY <3>2, <4>2
    <3>. QED BY <3>1, <3>2
  <2>5. j = SumBody(f, A, j)
    <3>. HIDE DEF Of
    <3>. QED BY <2>3, <2>4 DEF SumBody
  <2>. QED BY <2>5
<1>2. \A A \in SUBSET S : A \in P
  <2>. HIDE DEF P
  <2>. QED BY <1>1, SetInduction
<1>. QED BY <1>2

\* What MapThenSumSet unfolds to.
LEMMA SumsUnfold ==
    ASSUME NEW S, IsFiniteSet(S), NEW f
    PROVE  /\ Sums(f, S)[{}] = 0
           /\ \A s \in SUBSET S : s # {} =>
                /\ Pick(s) \in s /\ s \ {Pick(s)} \in SUBSET S
                /\ Sums(f, S)[s] = f[Pick(s)] + Sums(f, S)[s \ {Pick(s)}]
<1>1. Sums(f, S) = SumBody(f, S, Sums(f, S))
  BY SumsExist DEF Sums
<1>2. ASSUME NEW s \in SUBSET S
      PROVE  Sums(f, S)[s] = IF s = {} THEN 0 ELSE f[Pick(s)] + Sums(f, S)[s \ {Pick(s)}]
  <2>1. Sums(f, S)[s] = SumBody(f, S, Sums(f, S))[s]
    BY <1>1
  <2>. QED BY <2>1 DEF SumBody
<1>3. Sums(f, S)[{}] = 0
  BY <1>2
<1>. QED BY <1>2, <1>3, PickIn

\* A sum of zeros.
LEMMA SumOfZeros ==
    ASSUME NEW S, IsFiniteSet(S), NEW f, \A x \in S : f[x] = 0
    PROVE  Sums(f, S)[S] = 0
<1>. DEFINE P == {s \in SUBSET S : Sums(f, S)[s] = 0}
<1>1. ASSUME NEW s \in SUBSET S, \A u \in SUBSET s : u # s => u \in P
      PROVE  s \in P
  <2>1. CASE s = {}
    BY <2>1, SumsUnfold
  <2>2. CASE s # {}
    <3>1. /\ Pick(s) \in s /\ s \ {Pick(s)} \in SUBSET S
          /\ Sums(f, S)[s] = f[Pick(s)] + Sums(f, S)[s \ {Pick(s)}]
      BY <2>2, SumsUnfold
    <3>2. Sums(f, S)[s \ {Pick(s)}] = 0
      BY <1>1, <3>1
    <3>. QED BY <3>1, <3>2
  <2>. QED BY <2>1, <2>2
<1>2. \A s \in SUBSET S : s \in P
  <2>. HIDE DEF P
  <2>. QED BY <1>1, SetInduction
<1>. QED BY <1>2

\* One term that grows lets the sum grow as much.
LEMMA SumGrows ==
    ASSUME NEW S, IsFiniteSet(S), NEW f, NEW g, NEW a \in S, NEW d \in Int,
           \A x \in S : f[x] \in Int,
           \A x \in S : g[x] = f[x] + IF x = a THEN d ELSE 0
    PROVE  Sums(f, S)[S] \in Int /\ Sums(g, S)[S] = Sums(f, S)[S] + d
<1>. DEFINE P == {s \in SUBSET S : /\ Sums(f, S)[s] \in Int
                                   /\ Sums(g, S)[s] = Sums(f, S)[s] + IF a \in s THEN d ELSE 0}
<1>1. ASSUME NEW s \in SUBSET S, \A u \in SUBSET s : u # s => u \in P
      PROVE  s \in P
  <2>1. CASE s = {}
    BY <2>1, SumsUnfold
  <2>2. CASE s # {}
    <3>. DEFINE u == s \ {Pick(s)}
    <3>1. /\ Pick(s) \in s /\ u \in SUBSET S
          /\ Sums(f, S)[s] = f[Pick(s)] + Sums(f, S)[u]
      BY <2>2, SumsUnfold
    <3>2. Sums(g, S)[s] = g[Pick(s)] + Sums(g, S)[u]
      BY <2>2, SumsUnfold
    <3>3. u \in P
      BY <1>1, <3>1
    <3>4. Pick(s) \in S
      BY <3>1
    <3>. QED BY <3>1, <3>2, <3>3, <3>4
  <2>. QED BY <2>1, <2>2
<1>2. \A s \in SUBSET S : s \in P
  <2>. HIDE DEF P
  <2>. QED BY <1>1, SetInduction
<1>3. S \in P
  BY <1>2
<1>. QED BY <1>3

-----------------------------------------------------------------------------
(***************************************************************************)
(* Sums over queues.  A queue counts the copies of a job by attempt; each  *)
(* copy of attempt a holds one token for every member of W[a], and what    *)
(* the queue amounts to is the number of its tokens.                       *)
(***************************************************************************)
Members(A, W) == UNION {W[a] : a \in A}
Tokens(A, q, W) ==
    {t \in (A \X Nat) \X Members(A, W) :
        t[1][2] \in 1..q[t[1][1]] /\ t[2] \in W[t[1][1]]}

\* What handlers hold: a token for every member of W, each at its attempt.
HeldTokens(B, at, W) ==
    {u \in B \X Members({at[s] : s \in B}, W) : u[2] \in W[at[u[1]]]}

\* The tokens, by copy.
LEMMA TokenOf ==
    ASSUME NEW A, NEW q \in [A -> Nat], NEW W, NEW a \in A, NEW i, NEW k
    PROVE  <<<<a, i>>, k>> \in Tokens(A, q, W) <=> i \in 1..q[a] /\ k \in W[a]
<1>. DEFINE t == <<<<a, i>>, k>>
<1>1. t[1][1] = a /\ t[1][2] = i /\ t[2] = k /\ DOMAIN q = A
  OBVIOUS
<1>2. (i \in 1..q[a] => i \in Nat) /\ (k \in W[a] => k \in Members(A, W))
  BY DEF Members
<1>3. i \in Nat /\ k \in Members(A, W) => t \in (A \X Nat) \X Members(A, W)
  OBVIOUS
<1>. HIDE DEF t
<1>4. t \in Tokens(A, q, W) <=> /\ t \in (A \X Nat) \X Members(A, W)
                            /\ t[1][2] \in 1..q[t[1][1]] /\ t[2] \in W[t[1][1]]
  BY Zenon DEF Tokens
<1>5. t \in Tokens(A, q, W) <=> t \in (A \X Nat) \X Members(A, W) /\ i \in 1..q[a] /\ k \in W[a]
  BY <1>1, <1>4
<1>6. t \in Tokens(A, q, W) <=> i \in 1..q[a] /\ k \in W[a]
  BY <1>2, <1>3, <1>5
<1>. QED BY <1>6 DEF t

LEMMA TokenShape ==
    ASSUME NEW A, NEW q \in [A -> Nat], NEW W, NEW t \in Tokens(A, q, W)
    PROVE  /\ t[1][1] \in A /\ t[1][2] \in Nat /\ t = <<<<t[1][1], t[1][2]>>, t[2]>>
           /\ t[1][2] \in 1..q[t[1][1]] /\ t[2] \in W[t[1][1]]
<1>1. /\ t \in (A \X Nat) \X Members(A, W)
      /\ t[1][2] \in 1..q[t[1][1]] /\ t[2] \in W[t[1][1]]
  BY DEF Tokens
<1>2. t \in (A \X Nat) \X Members(A, W)
  BY <1>1
<1>3. t[1] \in A \X Nat /\ t = <<t[1], t[2]>>
  BY <1>2
<1>. QED BY <1>1, <1>3

\* The cardinality of a disjoint union.
LEMMA DisjointUnion ==
    ASSUME NEW S, NEW T, IsFiniteSet(S), IsFiniteSet(T), S \cap T = {}
    PROVE  /\ IsFiniteSet(S \cup T)
           /\ Cardinality(S \cup T) = Cardinality(S) + Cardinality(T)
           /\ Cardinality(S) \in Nat /\ Cardinality(T) \in Nat
<1>1. Cardinality(S) \in Nat /\ Cardinality(T) \in Nat
  BY FS_CardinalityType
<1>2. Cardinality(S \cap T) = 0
  BY FS_EmptySet
<1>3. /\ IsFiniteSet(S \cup T)
      /\ Cardinality(S \cup T) = Cardinality(S) + Cardinality(T) - Cardinality(S \cap T)
  BY FS_Union
<1>. QED BY <1>1, <1>2, <1>3

\* The pairs of one thing with the members of a set are as many as those.
LEMMA RowOfPairs ==
    ASSUME NEW x, NEW S, IsFiniteSet(S)
    PROVE  IsFiniteSet({x} \X S) /\ Cardinality({x} \X S) = Cardinality(S) /\ Cardinality(S) \in Nat
<1>1. IsFiniteSet({x}) /\ Cardinality({x}) = 1 /\ Cardinality(S) \in Nat
  BY FS_Singleton, FS_CardinalityType
<1>2. IsFiniteSet({x} \X S) /\ Cardinality({x} \X S) = 1 * Cardinality(S)
  BY <1>1, FS_Product
<1>. QED BY <1>1, <1>2

\* One more copy of a job of attempt a holds one more row of tokens.
LEMMA OneMoreCopy ==
    ASSUME NEW A, NEW q \in [A -> Nat], NEW a \in A, NEW W, IsFiniteSet(W[a]),
           IsFiniteSet(Tokens(A, q, W)), NEW p, p = [q EXCEPT ![a] = @ + 1]
    PROVE  /\ IsFiniteSet(Tokens(A, p, W))
           /\ Cardinality(Tokens(A, p, W)) = Cardinality(Tokens(A, q, W)) + Cardinality(W[a])
           /\ Cardinality(Tokens(A, q, W)) \in Nat /\ Cardinality(Tokens(A, p, W)) \in Nat
<1>. DEFINE Row == {<<a, q[a] + 1>>} \X W[a]
<1>1. p \in [A -> Nat] /\ p[a] = q[a] + 1 /\ \A b \in A : b # a => p[b] = q[b]
  OBVIOUS
<1>2. q[a] \in Nat
  OBVIOUS
<1>3. Tokens(A, p, W) = Tokens(A, q, W) \cup Row
  <2>1. ASSUME NEW t \in Tokens(A, p, W) PROVE t \in Tokens(A, q, W) \cup Row
    <3>1. PICK b, i, k : b \in A /\ i \in Nat /\ k \in W[b] /\ t = <<<<b, i>>, k>> /\ i \in 1..p[b]
      <4>1. p \in [A -> Nat] /\ t \in Tokens(A, p, W)
        BY <1>1, <2>1
      <4>2. /\ t[1][1] \in A /\ t[1][2] \in Nat /\ t = <<<<t[1][1], t[1][2]>>, t[2]>>
            /\ t[1][2] \in 1..p[t[1][1]] /\ t[2] \in W[t[1][1]]
        BY <4>1, TokenShape
      <4>. QED BY <4>2
    <3>2. CASE b = a /\ i = q[a] + 1
      BY <3>1, <3>2
    <3>3. CASE ~(b = a /\ i = q[a] + 1)
      <4>1. i \in 1..q[b]
        BY <1>1, <1>2, <3>1, <3>3
      <4>. QED BY <3>1, <4>1, TokenOf
    <3>. QED BY <3>2, <3>3
  <2>2. ASSUME NEW t \in Tokens(A, q, W) PROVE t \in Tokens(A, p, W)
    <3>1. PICK b, i, k : b \in A /\ i \in Nat /\ k \in W[b] /\ t = <<<<b, i>>, k>> /\ i \in 1..q[b]
      BY <2>2, TokenShape
    <3>2. i \in 1..p[b]
      BY <1>1, <1>2, <3>1
    <3>3. p \in [A -> Nat]
      BY <1>1
    <3>. QED BY <3>1, <3>2, <3>3, TokenOf
  <2>3. ASSUME NEW t \in Row PROVE t \in Tokens(A, p, W)
    <3>1. PICK k \in W[a] : t = <<<<a, q[a] + 1>>, k>>
      BY <2>3
    <3>2. q[a] + 1 \in 1..p[a]
      BY <1>1, <1>2
    <3>. QED BY <1>1, <3>1, <3>2, TokenOf
  <2>. QED BY <2>1, <2>2, <2>3
<1>4. Tokens(A, q, W) \cap Row = {}
  <2>. SUFFICES ASSUME NEW t \in Tokens(A, q, W), t \in Row PROVE FALSE
    OBVIOUS
  <2>1. t[1][1] = a /\ t[1][2] = q[a] + 1
    OBVIOUS
  <2>2. t[1][2] \in 1..q[a]
    BY <2>1, TokenShape
  <2>. QED BY <1>2, <2>1, <2>2
<1>5. IsFiniteSet(Row) /\ Cardinality(Row) = Cardinality(W[a])
  BY RowOfPairs
<1>. HIDE DEF Row
<1>6. /\ IsFiniteSet(Tokens(A, p, W))
      /\ Cardinality(Tokens(A, p, W)) = Cardinality(Tokens(A, q, W)) + Cardinality(Row)
      /\ Cardinality(Tokens(A, q, W)) \in Nat
  BY <1>3, <1>4, <1>5, DisjointUnion
<1>. QED BY <1>5, <1>6, FS_CardinalityType

\* One copy less holds one row less.
LEMMA OneCopyLess ==
    ASSUME NEW A, NEW q \in [A -> Nat], NEW a \in A, q[a] > 0, NEW W, IsFiniteSet(W[a]),
           IsFiniteSet(Tokens(A, q, W)), NEW p, p = [q EXCEPT ![a] = @ - 1]
    PROVE  /\ IsFiniteSet(Tokens(A, p, W))
           /\ Cardinality(Tokens(A, q, W)) = Cardinality(Tokens(A, p, W)) + Cardinality(W[a])
           /\ Cardinality(Tokens(A, q, W)) \in Nat /\ Cardinality(Tokens(A, p, W)) \in Nat
<1>1. p \in [A -> Nat] /\ q = [p EXCEPT ![a] = @ + 1]
  <2>1. p \in [A -> Nat] /\ p[a] + 1 = q[a] /\ \A b \in A : b # a => p[b] = q[b]
    OBVIOUS
  <2>2. [p EXCEPT ![a] = @ + 1] = [b \in A |-> q[b]]
    BY <2>1
  <2>. QED BY <2>1, <2>2
<1>2. \A b \in A : p[b] <= q[b] /\ p[b] \in Nat /\ q[b] \in Nat
  OBVIOUS
<1>3. Tokens(A, p, W) \in SUBSET Tokens(A, q, W)
  <2>. SUFFICES ASSUME NEW t \in Tokens(A, p, W) PROVE t \in Tokens(A, q, W)
    OBVIOUS
  <2>1. PICK b, i, k : b \in A /\ i \in Nat /\ k \in W[b] /\ t = <<<<b, i>>, k>> /\ i \in 1..p[b]
    BY <1>1, TokenShape
  <2>2. i \in 1..q[b]
    BY <1>2, <2>1
  <2>. QED BY <2>1, <2>2, TokenOf
<1>4. IsFiniteSet(Tokens(A, p, W))
  BY <1>3, FS_Subset
<1>5. /\ Cardinality(Tokens(A, q, W)) = Cardinality(Tokens(A, p, W)) + Cardinality(W[a])
      /\ Cardinality(Tokens(A, p, W)) \in Nat /\ Cardinality(Tokens(A, q, W)) \in Nat
  BY <1>1, <1>4, OneMoreCopy
<1>. QED BY <1>4, <1>5

(***************************************************************************)
(* When the jobs of the handlers of B go back to the queue, the queue gets *)
(* exactly their tokens.                                                   *)
(***************************************************************************)
LEMMA RequeuedTokens ==
    ASSUME NEW A, NEW q \in [A -> Nat], NEW p \in [A -> Nat], NEW B, IsFiniteSet(B),
           NEW at, \A s \in B : at[s] \in A,
           \A a \in A : p[a] = q[a] + Cardinality({s \in B : at[s] = a}),
           NEW W, IsFiniteSet(HeldTokens(B, at, W)), IsFiniteSet(Tokens(A, q, W))
    PROVE  /\ IsFiniteSet(Tokens(A, p, W))
           /\ Cardinality(Tokens(A, p, W)) = Cardinality(Tokens(A, q, W))
                                          + Cardinality(HeldTokens(B, at, W))
           /\ Cardinality(Tokens(A, q, W)) \in Nat /\ Cardinality(Tokens(A, p, W)) \in Nat
           /\ Cardinality(HeldTokens(B, at, W)) \in Nat
<1>. DEFINE H(a) == {s \in B : at[s] = a}
            New == {t \in Tokens(A, p, W) : t[1][2] > q[t[1][1]]}
            U == HeldTokens(B, at, W)
<1>1. \A a \in A : p[a] = q[a] + Cardinality(H(a))
  OBVIOUS
<1>2. \A a \in A : IsFiniteSet(H(a)) /\ Cardinality(H(a)) \in Nat
  <2>. TAKE a \in A
  <2>1. H(a) \in SUBSET B
    OBVIOUS
  <2>. QED BY <2>1, FS_Subset, FS_CardinalityType
<1>3. \A a \in A : \E h : h \in Bijection(1..Cardinality(H(a)), H(a))
  BY <1>2, FS_CardinalityType DEF ExistsBijection
<1>. DEFINE g == [a \in A |-> CHOOSE h : h \in Bijection(1..Cardinality(H(a)), H(a))]
            f == [t \in New |-> <<g[t[1][1]][t[1][2] - q[t[1][1]]], t[2]>>]
<1>4. \A a \in A : g[a] \in Bijection(1..Cardinality(H(a)), H(a))
  BY <1>3
<1>5. \A a \in A : /\ q[a] \in Nat /\ p[a] \in Nat
                   /\ g[a] \in [1..Cardinality(H(a)) -> H(a)]
                   /\ \A i, j \in 1..Cardinality(H(a)) : g[a][i] = g[a][j] => i = j
                   /\ \A s \in H(a) : \E i \in 1..Cardinality(H(a)) : g[a][i] = s
  <2>. TAKE a \in A
  <2>1. q[a] \in Nat /\ p[a] \in Nat
    OBVIOUS
  <2>. DEFINE S == 1..Cardinality(H(a))
              T == H(a)
  <2>2. PICK h : h = g[a] /\ h \in Bijection(S, T)
    BY <1>4
  <2>. HIDE DEF S, T, g
  <2>3. /\ h \in [S -> T] /\ \A i, j \in S : h[i] = h[j] => i = j
        /\ \A s \in T : \E i \in S : h[i] = s
    BY <2>2 DEF Bijection, Injection, Surjection, IsInjective
  <2>. QED BY <2>1, <2>2, <2>3 DEF S, T
<1>6. \A s : \A a \in A : s \in H(a) <=> s \in B /\ at[s] = a
  OBVIOUS
<1>. HIDE DEF H, g
<1>7. ASSUME NEW t \in New
      PROVE  /\ t[1][1] \in A /\ t[1][2] \in Nat /\ t = <<<<t[1][1], t[1][2]>>, t[2]>>
             /\ t[2] \in W[t[1][1]]
             /\ t[1][2] - q[t[1][1]] \in 1..Cardinality(H(t[1][1]))
  <2>1. PICK a, i, k : a \in A /\ i \in Nat /\ k \in W[a] /\ t = <<<<a, i>>, k>> /\ i \in 1..p[a]
    BY TokenShape
  <2>2. i > q[a]
    BY <2>1
  <2>3. i - q[a] \in 1..Cardinality(H(a))
    BY <1>1, <1>2, <1>5, <2>1, <2>2
  <2>. QED BY <2>1, <2>3
<1>8. ASSUME NEW t \in New
      PROVE  LET s == g[t[1][1]][t[1][2] - q[t[1][1]]]
             IN  s \in B /\ at[s] = t[1][1] /\ f[t] = <<s, t[2]>>
  <2>1. g[t[1][1]][t[1][2] - q[t[1][1]]] \in H(t[1][1])
    <3>1. PICK a \in A : a = t[1][1]
      BY <1>7
    <3>2. PICK i : i = t[1][2] - q[a]
      OBVIOUS
    <3>3. i \in 1..Cardinality(H(a))
      BY <1>7, <3>1, <3>2
    <3>4. g[a][i] \in H(a)
      BY <1>5, <3>3
    <3>. QED BY <3>1, <3>2, <3>4
  <2>. QED BY <1>6, <1>7, <2>1
<1>9. \A s \in B : \A k \in W[at[s]] : <<s, k>> \in U
  <2>. TAKE s \in B
  <2>. TAKE k \in W[at[s]]
  <2>1. k \in Members({at[r] : r \in B}, W)
    BY DEF Members
  <2>. QED BY <2>1 DEF HeldTokens
<1>10. f \in [New -> U]
  <2>1. \A t \in New : f[t] \in U
    BY <1>7, <1>8, <1>9
  <2>2. f = [t \in New |-> f[t]]
    OBVIOUS
  <2>. HIDE DEF f
  <2>. QED BY <2>1, <2>2
<1>11. ASSUME NEW t \in New, NEW u \in New, f[t] = f[u]
       PROVE  t = u
  <2>1. t[2] = u[2] /\ t[1][1] = u[1][1]
        /\ g[t[1][1]][t[1][2] - q[t[1][1]]] = g[u[1][1]][u[1][2] - q[u[1][1]]]
    <3>1. PICK r : /\ r = g[t[1][1]][t[1][2] - q[t[1][1]]]
                   /\ at[r] = t[1][1] /\ f[t] = <<r, t[2]>>
      BY <1>8
    <3>2. PICK s : /\ s = g[u[1][1]][u[1][2] - q[u[1][1]]]
                   /\ at[s] = u[1][1] /\ f[u] = <<s, u[2]>>
      BY <1>8
    <3>3. PICK v : v = f[t] /\ v = f[u]
      BY <1>11
    <3>4. PICK j, k : j = t[2] /\ k = u[2]
      OBVIOUS
    <3>5. v = <<r, j>> /\ v = <<s, k>>
      BY <3>1, <3>2, <3>3, <3>4
    <3>6. r = s /\ t[2] = u[2]
      <4>1. r = s /\ j = k
        BY <3>5
      <4>. QED BY <3>4, <4>1
    <3>. QED BY <3>1, <3>2, <3>6
  <2>2. PICK a \in A : a = t[1][1] /\ a = u[1][1]
    BY <1>7, <2>1
  <2>3. PICK i \in Nat, j \in Nat : i = t[1][2] /\ j = u[1][2]
    BY <1>7
  <2>4. g[a][i - q[a]] = g[a][j - q[a]] /\ i - q[a] \in 1..Cardinality(H(a))
        /\ j - q[a] \in 1..Cardinality(H(a))
    BY <1>7, <2>1, <2>2, <2>3
  <2>5. i - q[a] = j - q[a] /\ q[a] \in Nat
    BY <1>5, <2>4
  <2>6. i = j
    BY <2>5
  <2>. QED BY <1>7, <2>1, <2>3, <2>6
<1>12. ASSUME NEW u \in U
       PROVE  \E t \in New : f[t] = u
  <2>1. PICK s, k : s \in B /\ k \in W[at[s]] /\ u = <<s, k>>
    BY DEF HeldTokens
  <2>2. PICK a \in A : a = at[s]
    BY <2>1
  <2>3. PICK i \in 1..Cardinality(H(a)) : g[a][i] = s
    BY <1>5, <1>6, <2>1, <2>2
  <2>4. PICK j \in Nat : j = q[a] + i
    BY <1>2, <1>5
  <2>5. j \in 1..p[a] /\ j > q[a] /\ j - q[a] = i
    BY <1>1, <1>2, <1>5, <2>3, <2>4
  <2>6. PICK t \in Tokens(A, p, W) : t = <<<<a, j>>, k>>
    BY <2>1, <2>2, <2>5, TokenOf
  <2>7. t \in New /\ t[1][1] = a /\ t[1][2] = j /\ t[2] = k
    BY <2>5, <2>6
  <2>. HIDE DEF New
  <2>8. f[t] = <<g[a][j - q[a]], k>>
    BY <2>7
  <2>. QED BY <2>1, <2>3, <2>5, <2>7, <2>8
<1>. HIDE DEF f, New, U
<1>13. f \in Bijection(New, U)
  <2>1. f \in Injection(New, U)
    BY <1>10, <1>11 DEF Injection, IsInjective
  <2>2. f \in Surjection(New, U)
    BY <1>10, <1>12 DEF Surjection
  <2>. QED BY <2>1, <2>2 DEF Bijection
<1>14. IsFiniteSet(New) /\ Cardinality(New) = Cardinality(U) /\ Cardinality(U) \in Nat
  <2>1. IsFiniteSet(U)
    BY DEF U
  <2>2. IsFiniteSet(New)
    BY <1>13, <2>1, FS_Injection DEF Bijection
  <2>. QED BY <1>13, <2>1, <2>2, FS_Injection, FS_CardinalityType DEF Bijection
<1>15. Tokens(A, p, W) = Tokens(A, q, W) \cup New /\ Tokens(A, q, W) \cap New = {}
  <2>1. ASSUME NEW t \in Tokens(A, p, W) PROVE t \in Tokens(A, q, W) \/ t \in New
    <3>1. PICK a, i, k : a \in A /\ i \in Nat /\ k \in W[a] /\ t = <<<<a, i>>, k>> /\ i \in 1..p[a]
      BY <2>1, TokenShape
    <3>2. i \in 1..q[a] \/ i > q[a]
      BY <1>5, <3>1
    <3>. QED BY <2>1, <3>1, <3>2, TokenOf DEF New
  <2>2. ASSUME NEW t \in Tokens(A, q, W) PROVE t \in Tokens(A, p, W) /\ t \notin New
    <3>1. PICK a, i, k : a \in A /\ i \in Nat /\ k \in W[a] /\ t = <<<<a, i>>, k>> /\ i \in 1..q[a]
      BY <2>2, TokenShape
    <3>2. i \in 1..p[a] /\ ~(i > q[a])
      BY <1>1, <1>2, <1>5, <3>1
    <3>. QED BY <3>1, <3>2, TokenOf DEF New
  <2>3. New \subseteq Tokens(A, p, W)
    BY DEF New
  <2>. QED BY <2>1, <2>2, <2>3
<1>16. /\ IsFiniteSet(Tokens(A, p, W))
       /\ Cardinality(Tokens(A, p, W)) = Cardinality(Tokens(A, q, W)) + Cardinality(New)
       /\ Cardinality(Tokens(A, q, W)) \in Nat
  <2>1. PICK T : T = Tokens(A, q, W) /\ IsFiniteSet(T) /\ T \cap New = {}
    BY <1>15
  <2>2. /\ IsFiniteSet(T \cup New) /\ Cardinality(T) \in Nat
        /\ Cardinality(T \cup New) = Cardinality(T) + Cardinality(New)
    BY <1>14, <2>1, DisjointUnion
  <2>. QED BY <1>15, <2>1, <2>2
<1>. QED BY <1>14, <1>16, FS_CardinalityType DEF U

-----------------------------------------------------------------------------
(***************************************************************************)
(* A job that may be attempted n times: a copy of attempt a holds a token  *)
(* for each attempt from a on.                                             *)
(***************************************************************************)
Count(n) == n \in Nat \ {0}
Tries(n) == 1..n
Onward(n) == [a \in Tries(n) |-> a..n]
Chances(n, q) == Tokens(Tries(n), q, Onward(n))

\* The attempts there are, and those from a on.
LEMMA AttemptsCount ==
    ASSUME NEW n, Count(n)
    PROVE  /\ IsFiniteSet(Tries(n)) /\ Cardinality(Tries(n)) = n
           /\ \A a \in Tries(n) : /\ IsFiniteSet(a..n) /\ Cardinality(a..n) = n + 1 - a
                              /\ a..n \subseteq Tries(n) /\ n + 1 - a \in Nat /\ Onward(n)[a] = a..n
<1>1. IsFiniteSet(Tries(n)) /\ Cardinality(Tries(n)) = n
  BY FS_Interval DEF Count, Tries
<1>2. ASSUME NEW a \in Tries(n)
      PROVE  /\ IsFiniteSet(a..n) /\ Cardinality(a..n) = n + 1 - a
             /\ a..n \subseteq Tries(n) /\ n + 1 - a \in Nat
  <2>1. IsFiniteSet(a..n) /\ Cardinality(a..n) = IF a > n THEN 0 ELSE n - a + 1
    BY FS_Interval DEF Count, Tries
  <2>. QED BY <2>1 DEF Count, Tries
<1>3. \A a \in Tries(n) : Onward(n)[a] = a..n
  BY DEF Onward
<1>. QED BY <1>1, <1>2, <1>3

\* A handler at attempt a has as many chances left.
LEMMA RowOfChances ==
    ASSUME NEW n, Count(n), NEW a \in Tries(n), NEW s
    PROVE  IsFiniteSet({s} \X (a..n)) /\ Cardinality({s} \X (a..n)) = n + 1 - a /\ n + 1 - a \in Nat
<1>1. IsFiniteSet(a..n) /\ Cardinality(a..n) = n + 1 - a /\ n + 1 - a \in Nat
  BY AttemptsCount
<1>. QED BY <1>1, RowOfPairs

\* One more copy of a job of attempt a holds one more row of tokens, one less one less.
LEMMA OneChance ==
    ASSUME NEW n, Count(n), NEW q \in [Tries(n) -> Nat], NEW a \in Tries(n),
           IsFiniteSet(Chances(n, q)), NEW p
    PROVE  /\ p = [q EXCEPT ![a] = @ + 1] =>
                /\ IsFiniteSet(Chances(n, p)) /\ Cardinality(Chances(n, p)) \in Nat
                /\ Cardinality(Chances(n, p)) = Cardinality(Chances(n, q)) + (n + 1 - a)
           /\ p = [q EXCEPT ![a] = @ - 1] /\ q[a] > 0 =>
                /\ IsFiniteSet(Chances(n, p)) /\ Cardinality(Chances(n, p)) \in Nat
                /\ Cardinality(Chances(n, q)) = Cardinality(Chances(n, p)) + (n + 1 - a)
           /\ Cardinality(Chances(n, q)) \in Nat
<1>. DEFINE A == Tries(n)
            W == Onward(n)
<1>1. IsFiniteSet(W[a]) /\ Cardinality(W[a]) = n + 1 - a /\ a \in A /\ q \in [A -> Nat]
  BY AttemptsCount
<1>2. IsFiniteSet(Tokens(A, q, W))
  BY DEF Chances
<1>. HIDE DEF A, W
<1>3. ASSUME p = [q EXCEPT ![a] = @ + 1]
      PROVE  /\ IsFiniteSet(Tokens(A, p, W)) /\ Cardinality(Tokens(A, p, W)) \in Nat
             /\ Cardinality(Tokens(A, p, W)) = Cardinality(Tokens(A, q, W)) + Cardinality(W[a])
  BY <1>1, <1>2, <1>3, OneMoreCopy
<1>4. ASSUME p = [q EXCEPT ![a] = @ - 1], q[a] > 0
      PROVE  /\ IsFiniteSet(Tokens(A, p, W)) /\ Cardinality(Tokens(A, p, W)) \in Nat
             /\ Cardinality(Tokens(A, q, W)) = Cardinality(Tokens(A, p, W)) + Cardinality(W[a])
  BY <1>1, <1>2, <1>4, OneCopyLess
<1>5. Cardinality(Tokens(A, q, W)) \in Nat
  BY <1>2, FS_CardinalityType
<1>. QED BY <1>1, <1>3, <1>4, <1>5 DEF Chances, A, W

(***************************************************************************)
(* A requeue brings at most n chances for each handler whose job is handed *)
(* out anew.                                                               *)
(***************************************************************************)
LEMMA RequeuedChances ==
    ASSUME NEW n, Count(n), NEW q \in [Tries(n) -> Nat], NEW p \in [Tries(n) -> Nat], NEW B,
           IsFiniteSet(B), NEW at, \A s \in B : at[s] \in Tries(n),
           \A a \in Tries(n) : p[a] = q[a] + Cardinality({s \in B : at[s] = a}),
           IsFiniteSet(Chances(n, q))
    PROVE  /\ IsFiniteSet(Chances(n, p)) /\ Cardinality(B) * n \in Nat
           /\ Cardinality(Chances(n, p)) <= Cardinality(Chances(n, q)) + Cardinality(B) * n
           /\ Cardinality(Chances(n, q)) \in Nat /\ Cardinality(Chances(n, p)) \in Nat
<1>0. /\ IsFiniteSet(Tries(n)) /\ Cardinality(Tries(n)) = n
      /\ \A a \in Tries(n) : Onward(n)[a] \subseteq Tries(n)
  <2>1. IsFiniteSet(Tries(n)) /\ Cardinality(Tries(n)) = n
    BY AttemptsCount
  <2>2. ASSUME NEW a \in Tries(n) PROVE Onward(n)[a] \subseteq Tries(n)
    <3>1. a..n \subseteq Tries(n) /\ Onward(n)[a] = a..n
      BY <2>2, AttemptsCount
    <3>. QED BY <3>1
  <2>. QED BY <2>1, <2>2
<1>. DEFINE A == Tries(n)
            W == Onward(n)
            Held == HeldTokens(B, at, W)
            M == Members({at[s] : s \in B}, W)
<1>1. IsFiniteSet(A) /\ Cardinality(A) = n /\ \A a \in A : W[a] \subseteq A
  BY <1>0
<1>2. /\ IsFiniteSet(B \X A) /\ Cardinality(B \X A) = Cardinality(B) * n
      /\ Cardinality(B) \in Nat /\ Cardinality(B) * n \in Nat
  <2>1. Cardinality(B) \in Nat /\ n \in Nat
    BY FS_CardinalityType DEF Count
  <2>2. Cardinality(B) * n \in Nat
    BY <2>1
  <2>. HIDE DEF A
  <2>. QED BY <1>1, <2>1, <2>2, FS_Product
<1>3. Held \in SUBSET (B \X A)
  <2>1. \A u \in Held : u \in B \X M /\ u[2] \in W[at[u[1]]]
    BY DEF HeldTokens
  <2>2. \A u \in Held : u[1] \in B /\ u = <<u[1], u[2]>>
    <3>. HIDE DEF Held, M
    <3>. QED BY <2>1
  <2>3. \A u \in Held : u[2] \in A
    BY <1>1, <2>1, <2>2
  <2>. HIDE DEF Held, A
  <2>. QED BY <2>2, <2>3
<1>4. IsFiniteSet(Held) /\ Cardinality(Held) \in Nat /\ Cardinality(Held) <= Cardinality(B) * n
  BY <1>2, <1>3, FS_Subset, FS_CardinalityType
<1>5. /\ q \in [A -> Nat] /\ p \in [A -> Nat] /\ \A s \in B : at[s] \in A
      /\ \A a \in A : p[a] = q[a] + Cardinality({s \in B : at[s] = a})
      /\ IsFiniteSet(HeldTokens(B, at, W)) /\ IsFiniteSet(Tokens(A, q, W))
  BY <1>4 DEF Chances
<1>6. /\ IsFiniteSet(Tokens(A, p, W))
      /\ Cardinality(Tokens(A, p, W)) = Cardinality(Tokens(A, q, W)) + Cardinality(Held)
      /\ Cardinality(Tokens(A, q, W)) \in Nat /\ Cardinality(Tokens(A, p, W)) \in Nat
  <2>. HIDE DEF A, W
  <2>. QED BY <1>5, RequeuedTokens
<1>7. Chances(n, q) = Tokens(A, q, W) /\ Chances(n, p) = Tokens(A, p, W)
  BY DEF Chances
<1>. HIDE DEF A, W, Held
<1>. QED BY <1>2, <1>4, <1>6, <1>7

-----------------------------------------------------------------------------
(***************************************************************************)
(* One token for each copy: the number of jobs in a queue.                 *)
(***************************************************************************)
Single(A) == [a \in A |-> {1}]
JobsIn(A, q) == Tokens(A, q, Single(A))

LEMMA OneJob ==
    ASSUME NEW A, NEW q \in [A -> Nat], NEW a \in A, IsFiniteSet(JobsIn(A, q)), NEW p
    PROVE  /\ p = [q EXCEPT ![a] = @ + 1] =>
                /\ IsFiniteSet(JobsIn(A, p)) /\ Cardinality(JobsIn(A, p)) \in Nat
                /\ Cardinality(JobsIn(A, p)) = Cardinality(JobsIn(A, q)) + 1
           /\ p = [q EXCEPT ![a] = @ - 1] /\ q[a] > 0 =>
                /\ IsFiniteSet(JobsIn(A, p)) /\ Cardinality(JobsIn(A, p)) \in Nat
                /\ Cardinality(JobsIn(A, q)) = Cardinality(JobsIn(A, p)) + 1
           /\ Cardinality(JobsIn(A, q)) \in Nat
<1>. DEFINE W == Single(A)
<1>1. IsFiniteSet(W[a]) /\ Cardinality(W[a]) = 1
  BY FS_Singleton DEF Single
<1>2. IsFiniteSet(Tokens(A, q, W))
  BY DEF JobsIn
<1>. HIDE DEF W
<1>3. ASSUME p = [q EXCEPT ![a] = @ + 1]
      PROVE  /\ IsFiniteSet(Tokens(A, p, W)) /\ Cardinality(Tokens(A, p, W)) \in Nat
             /\ Cardinality(Tokens(A, p, W)) = Cardinality(Tokens(A, q, W)) + Cardinality(W[a])
  BY <1>1, <1>2, <1>3, OneMoreCopy
<1>4. ASSUME p = [q EXCEPT ![a] = @ - 1], q[a] > 0
      PROVE  /\ IsFiniteSet(Tokens(A, p, W)) /\ Cardinality(Tokens(A, p, W)) \in Nat
             /\ Cardinality(Tokens(A, q, W)) = Cardinality(Tokens(A, p, W)) + Cardinality(W[a])
  BY <1>1, <1>2, <1>4, OneCopyLess
<1>5. Cardinality(Tokens(A, q, W)) \in Nat
  BY <1>2, FS_CardinalityType
<1>. QED BY <1>1, <1>3, <1>4, <1>5 DEF JobsIn, W

\* A queue without a copy has no job.
LEMMA NoJob ==
    ASSUME NEW A, NEW q \in [A -> Nat], \A a \in A : q[a] = 0
    PROVE  JobsIn(A, q) = {} /\ IsFiniteSet(JobsIn(A, q)) /\ Cardinality(JobsIn(A, q)) = 0
<1>1. ASSUME NEW t \in JobsIn(A, q) PROVE FALSE
  <2>1. t[1][1] \in A /\ t[1][2] \in 1..q[t[1][1]]
    BY TokenShape DEF JobsIn
  <2>. QED BY <2>1
<1>2. JobsIn(A, q) = {}
  BY <1>1
<1>. QED BY <1>2, FS_EmptySet

\* Requeued handlers bring one job each.
LEMMA RequeuedJobs ==
    ASSUME NEW A, NEW q \in [A -> Nat], NEW p \in [A -> Nat], NEW B, IsFiniteSet(B),
           NEW at, \A s \in B : at[s] \in A,
           \A a \in A : p[a] = q[a] + Cardinality({s \in B : at[s] = a}),
           IsFiniteSet(JobsIn(A, q))
    PROVE  /\ IsFiniteSet(JobsIn(A, p))
           /\ Cardinality(JobsIn(A, p)) = Cardinality(JobsIn(A, q)) + Cardinality(B)
           /\ Cardinality(JobsIn(A, q)) \in Nat /\ Cardinality(JobsIn(A, p)) \in Nat
           /\ Cardinality(B) \in Nat
<1>. DEFINE W == Single(A)
            Held == HeldTokens(B, at, W)
            M == Members({at[s] : s \in B}, W)
<1>1. Held = B \X {1}
  <2>1. \A u : u \in Held <=> u \in B \X M /\ u[2] \in W[at[u[1]]]
    BY DEF HeldTokens
  <2>2. \A s \in B : W[at[s]] = {1} /\ 1 \in M
    BY DEF Members, Single
  <2>. HIDE DEF Held, M, W
  <2>3. ASSUME NEW u \in Held PROVE u \in B \X {1}
    <3>1. u \in B \X M /\ u[2] \in W[at[u[1]]]
      BY <2>1
    <3>2. u[1] \in B /\ u = <<u[1], u[2]>>
      BY <3>1
    <3>. QED BY <2>2, <3>1, <3>2
  <2>4. ASSUME NEW u \in B \X {1} PROVE u \in Held
    <3>1. PICK s \in B : u = <<s, 1>>
      OBVIOUS
    <3>2. u[1] = s /\ u[2] = 1 /\ u \in B \X M
      BY <2>2, <3>1
    <3>. QED BY <2>1, <2>2, <3>2
  <2>. QED BY <2>3, <2>4
<1>2. IsFiniteSet(Held) /\ Cardinality(Held) = Cardinality(B) /\ Cardinality(B) \in Nat
  <2>1. IsFiniteSet({1}) /\ Cardinality({1}) = 1 /\ Cardinality(B) \in Nat
    BY FS_Singleton, FS_CardinalityType
  <2>2. IsFiniteSet(B \X {1}) /\ Cardinality(B \X {1}) = Cardinality(B) * 1
    BY <2>1, FS_Product
  <2>. HIDE DEF Held
  <2>. QED BY <1>1, <2>1, <2>2
<1>3. IsFiniteSet(HeldTokens(B, at, W)) /\ IsFiniteSet(Tokens(A, q, W))
  BY <1>2 DEF JobsIn
<1>4. /\ IsFiniteSet(Tokens(A, p, W))
      /\ Cardinality(Tokens(A, p, W)) = Cardinality(Tokens(A, q, W)) + Cardinality(Held)
      /\ Cardinality(Tokens(A, q, W)) \in Nat /\ Cardinality(Tokens(A, p, W)) \in Nat
  <2>. HIDE DEF W
  <2>. QED BY <1>3, RequeuedTokens
<1>5. JobsIn(A, q) = Tokens(A, q, W) /\ JobsIn(A, p) = Tokens(A, p, W)
  BY DEF JobsIn
<1>. HIDE DEF W, Held
<1>. QED BY <1>2, <1>4, <1>5
===============================================================================
