------------------------- MODULE ContactsImport_proofs --------------------------
(***************************************************************************)
(* Theorems about ContactsImport, for any imports, files, rows and bounds. *)
(*                                                                         *)
(* The first part is about the texts: whatever a spreadsheet writes, the   *)
(* parser reads back.  Each of its loops is a fold; what a fold has done   *)
(* after some characters follows by induction over their number.           *)
(***************************************************************************)
EXTENDS ContactsImport, CountingLemmas, TLAPS

-----------------------------------------------------------------------------
\* The steps of the folds, by name, so that one lemma serves them all.
FoldStep(k, st, x) ==
    CASE k.op = "keep" -> Keep(k.arg, st, x)
      [] k.op = "split" -> SplitChar(st, x)
      [] k.op = "lines" -> NotBlank(st, x)
      [] k.op = "parse" -> ParseChar(k.arg, st, x)
      [] k.op = "escape" -> Escape(st, x)
      [] k.op = "write" -> WriteLine(k.arg, st, x)

\* The equation of FoldLeft over the indices in S.
FoldBody(k, base, seq, S, g) ==
    [s \in SUBSET S |-> IF s = {} THEN base ELSE FoldStep(k, g[s \ {Max(s)}], seq[Max(s)])]
Folds(k, base, seq, S) == CHOOSE g : g = FoldBody(k, base, seq, S, g)

\* What the fold has after the first j elements.
After(k, base, seq, j) == Folds(k, base, seq, DOMAIN seq)[1..j]

\* The indices of a sequence, and the last one of a set of them.
Indices(N) == \E n \in Nat : N = 1..n

LEMMA IndicesFinite == ASSUME NEW N, Indices(N) PROVE IsFiniteSet(N)
  BY FS_Interval DEF Indices

LEMMA MaxIn ==
    ASSUME NEW N, Indices(N), NEW s \in SUBSET N, s # {}
    PROVE  Max(s) \in s /\ \A x \in s : x <= Max(s)
<1>0. PICK n \in Nat : N = 1..n
  BY DEF Indices
<1>. DEFINE P == {t \in SUBSET (1..n) : t # {} => \E x \in t : \A y \in t : x >= y}
<1>1. ASSUME NEW t \in SUBSET (1..n), \A u \in SUBSET t : u # t => u \in P, t # {}
      PROVE  \E x \in t : \A y \in t : x >= y
  <2>1. PICK a \in t : TRUE
    BY <1>1
  <2>2. t \ {a} \in P
    BY <1>1
  <2>3. CASE t \ {a} = {}
    BY <2>1, <2>3
  <2>4. CASE t \ {a} # {}
    <3>1. PICK x \in t \ {a} : \A y \in t \ {a} : x >= y
      BY <2>2, <2>4
    <3>2. CASE x >= a
      BY <3>1, <3>2
    <3>3. CASE ~(x >= a)
      <4>1. a \in Int /\ x \in Int
        OBVIOUS
      <4>2. \A y \in t : a >= y
        BY <3>1, <3>3, <4>1
      <4>. QED BY <2>1, <4>2
    <3>. QED BY <3>2, <3>3
  <2>. QED BY <2>3, <2>4
<1>2. \A t \in SUBSET (1..n) : t \in P
  <2>1. \A t \in SUBSET (1..n) : (\A u \in SUBSET t : u # t => u \in P) => t \in P
    BY <1>1
  <2>2. IsFiniteSet(1..n)
    BY FS_Interval
  <2>. HIDE DEF P
  <2>. QED BY ZenonT(40), <2>1, <2>2, SetInduction
<1>3. \E x \in s : \A y \in s : x >= y
  BY <1>0, <1>2
<1>4. Max(s) \in s /\ \A y \in s : Max(s) >= y
  BY <1>3 DEF Max
<1>. QED BY <1>4

LEMMA FoldsAgree ==
    ASSUME NEW N, Indices(N), NEW k, NEW base, NEW seq,
           NEW A \in SUBSET N, NEW B \in SUBSET N,
           NEW g, g = FoldBody(k, base, seq, A, g), NEW h, h = FoldBody(k, base, seq, B, h)
    PROVE  \A s \in SUBSET (A \cap B) : g[s] = h[s]
<1>. DEFINE P == {s \in SUBSET N : s \in SUBSET (A \cap B) => g[s] = h[s]}
<1>1. ASSUME NEW s \in SUBSET N, \A u \in SUBSET s : u # s => u \in P, s \in SUBSET (A \cap B)
      PROVE  g[s] = h[s]
  <2>1. g[s] = FoldBody(k, base, seq, A, g)[s] /\ h[s] = FoldBody(k, base, seq, B, h)[s]
    OBVIOUS
  <2>2. CASE s = {}
    BY <2>1, <2>2 DEF FoldBody
  <2>3. CASE s # {}
    <3>. DEFINE u == s \ {Max(s)}
    <3>1. u \in SUBSET s /\ u # s
      BY <2>3, MaxIn
    <3>2. g[u] = h[u]
      BY <1>1, <3>1
    <3>3. /\ FoldBody(k, base, seq, A, g)[s] = FoldStep(k, g[u], seq[Max(s)])
          /\ FoldBody(k, base, seq, B, h)[s] = FoldStep(k, h[u], seq[Max(s)])
      BY <2>3, <1>1 DEF FoldBody
    <3>. QED BY <2>1, <3>2, <3>3
  <2>. QED BY <2>2, <2>3
<1>2. \A s \in SUBSET N : s \in P
  <2>1. \A s \in SUBSET N : (\A u \in SUBSET s : u # s => u \in P) => s \in P
    BY <1>1
  <2>2. IsFiniteSet(N)
    BY IndicesFinite
  <2>. HIDE DEF P
  <2>. QED BY <2>1, <2>2, SetInduction
<1>. QED BY <1>2

LEMMA FoldsExist ==
    ASSUME NEW N, Indices(N), NEW k, NEW base, NEW seq
    PROVE  \E g : g = FoldBody(k, base, seq, N, g)
<1>. DEFINE P == {A \in SUBSET N : \E g : g = FoldBody(k, base, seq, A, g)}
<1>1. ASSUME NEW A \in SUBSET N, \A B \in SUBSET A : B # A => B \in P
      PROVE  A \in P
  <2>. DEFINE G(B) == CHOOSE g : g = FoldBody(k, base, seq, B, g)
              Of(s) == IF s = {} THEN base
                       ELSE FoldStep(k, G(s \ {Max(s)})[s \ {Max(s)}], seq[Max(s)])
              f == [s \in SUBSET A |-> Of(s)]
  <2>1. \A B \in SUBSET A : B # A => G(B) = FoldBody(k, base, seq, B, G(B))
    BY <1>1
  <2>2. ASSUME NEW B \in SUBSET A, B # A
        PROVE  G(B)[B] = Of(B)
    <3>1. G(B)[B] = FoldBody(k, base, seq, B, G(B))[B]
      BY <2>1, <2>2
    <3>2. CASE B = {}
      BY <3>1, <3>2 DEF FoldBody
    <3>3. CASE B # {}
      <4>. DEFINE u == B \ {Max(B)}
      <4>1. u \in SUBSET A /\ u # A /\ u \subseteq B
        BY <3>3, MaxIn
      <4>2. G(u) = FoldBody(k, base, seq, u, G(u)) /\ G(B) = FoldBody(k, base, seq, B, G(B))
        BY <2>1, <2>2, <4>1
      <4>3. G(u)[u] = G(B)[u]
        <5>. HIDE DEF G
        <5>1. u \in SUBSET (u \cap B) /\ u \in SUBSET N /\ B \in SUBSET N
          BY <4>1
        <5>2. PICK x, y : x = G(u) /\ y = G(B)
          OBVIOUS
        <5>3. x = FoldBody(k, base, seq, u, x) /\ y = FoldBody(k, base, seq, B, y)
          BY <4>2, <5>2
        <5>. HIDE DEF u
        <5>4. \A s \in SUBSET (u \cap B) : x[s] = y[s]
          BY <5>1, <5>3, FoldsAgree
        <5>. QED BY <5>1, <5>2, <5>4
      <4>4. FoldBody(k, base, seq, B, G(B))[B] = FoldStep(k, G(B)[u], seq[Max(B)])
        BY <3>3 DEF FoldBody
      <4>5. Of(B) = FoldStep(k, G(u)[u], seq[Max(B)])
        BY <3>3
      <4>. HIDE DEF G, Of, u
      <4>. QED BY <3>1, <4>3, <4>4, <4>5
    <3>. QED BY <3>2, <3>3
  <2>3. PICK j : j = f
    OBVIOUS
  <2>4. ASSUME NEW s \in SUBSET A
        PROVE  Of(s) = IF s = {} THEN base ELSE FoldStep(k, j[s \ {Max(s)}], seq[Max(s)])
    <3>1. CASE s = {}
      BY <3>1
    <3>2. CASE s # {}
      <4>. DEFINE u == s \ {Max(s)}
      <4>1. u \in SUBSET A /\ u # A
        BY <3>2, MaxIn
      <4>2. j[u] = G(u)[u]
        BY <2>2, <2>3, <4>1
      <4>. QED BY <3>2, <4>2
    <3>. QED BY <3>1, <3>2
  <2>5. j = FoldBody(k, base, seq, A, j)
    <3>. HIDE DEF Of
    <3>. QED BY <2>3, <2>4 DEF FoldBody
  <2>. QED BY <2>5
<1>2. \A A \in SUBSET N : A \in P
  <2>1. IsFiniteSet(N)
    BY IndicesFinite
  <2>. HIDE DEF P
  <2>. QED BY <1>1, <2>1, SetInduction
<1>. QED BY <1>2

(***************************************************************************)
(* A fold starts with its base and takes one element after the other.      *)
(***************************************************************************)
LEMMA FoldBase ==
    ASSUME NEW n \in Nat, NEW k, NEW base, NEW seq, DOMAIN seq = 1..n
    PROVE  After(k, base, seq, 0) = base
<1>. DEFINE g == Folds(k, base, seq, 1..n)
<1>1. g = FoldBody(k, base, seq, 1..n, g)
  BY FoldsExist DEF Folds, Indices
<1>. HIDE DEF g
<1>2. g[{}] = FoldBody(k, base, seq, 1..n, g)[{}]
  BY <1>1
<1>3. 1..0 = {}
  OBVIOUS
<1>. QED BY <1>2, <1>3 DEF After, FoldBody, g

LEMMA FoldNext ==
    ASSUME NEW n \in Nat, NEW k, NEW base, NEW seq, DOMAIN seq = 1..n
    PROVE  \A j \in 1..n : After(k, base, seq, j) = FoldStep(k, After(k, base, seq, j - 1), seq[j])
<1>. DEFINE g == Folds(k, base, seq, 1..n)
<1>0. Indices(1..n)
  BY DEF Indices
<1>1. g = FoldBody(k, base, seq, 1..n, g)
  BY <1>0, FoldsExist DEF Folds
<1>. HIDE DEF g
<1>2. ASSUME NEW j \in 1..n
      PROVE  g[1..j] = FoldStep(k, g[1..(j - 1)], seq[j])
  <2>1. (1..j) \in SUBSET (1..n) /\ 1..j # {} /\ j \in 1..j
    BY SMTT(30)
  <2>2. Max(1..j) = j
    <3>1. Max(1..j) \in 1..j /\ j <= Max(1..j)
      BY <1>0, <2>1, MaxIn
    <3>. QED BY <3>1
  <2>3. (1..j) \ {j} = 1..(j - 1)
    OBVIOUS
  <2>4. g[1..j] = FoldBody(k, base, seq, 1..n, g)[1..j]
    BY <1>1
  <2>. QED BY <2>1, <2>2, <2>3, <2>4 DEF FoldBody
<1>. QED BY <1>2 DEF After, g

\* What the folds of the code and of the spreadsheet are.
FoldLeftIs(name, arg, base, seq) == After([op |-> name, arg |-> arg], base, seq, Len(seq))

LEMMA TheFolds ==
    ASSUME NEW s, DOMAIN s = 1..Len(s), NEW set
    PROVE  /\ Only(s, set) = FoldLeftIs("keep", set, <<>>, s)
           /\ Split(s) = FoldLeftIs("split", 0, <<<<>>>>, s)
           /\ Quoted(s) = Append(FoldLeftIs("escape", 0, <<Quote>>, s), Quote)
<1>. USE DEF FoldLeftIs, FoldLeft, MapThenFoldSet, After, Folds, FoldBody, FoldStep
<1>1. Only(s, set) = FoldLeftIs("keep", set, <<>>, s)
  BY DEF Only
<1>2. Split(s) = FoldLeftIs("split", 0, <<<<>>>>, s)
  BY DEF Split
<1>3. Quoted(s) = Append(FoldLeftIs("escape", 0, <<Quote>>, s), Quote)
  BY DEF Quoted
<1>. QED BY <1>1, <1>2, <1>3

LEMMA LinesFold ==
    ASSUME NEW content, DOMAIN Split(content) = 1..Len(Split(content))
    PROVE  Lines(content) = FoldLeftIs("lines", 0, <<>>, Split(content))
  BY DEF Lines, FoldLeftIs, FoldLeft, MapThenFoldSet, After, Folds, FoldBody, FoldStep

LEMMA ParseFold ==
    ASSUME NEW line, DOMAIN line = 1..Len(line), NEW end,
           end = After([op |-> "parse", arg |-> line], Parsing, [i \in 1..Len(line) |-> i], Len(line))
    PROVE  ParseCsvLine(line) = Append(end.values, Trim(end.current))
  BY DEF ParseCsvLine, FoldLeftDomain, FoldLeft, MapThenFoldSet, After, Folds, FoldBody, FoldStep

LEMMA ContentFold ==
    ASSUME NEW file, DOMAIN LinesOf(file) = 1..Len(LinesOf(file)),
           NEW end, end = IF file.quoted THEN <<"CR", "LF">> ELSE <<"LF">>
    PROVE  Content(file) = FoldLeftIs("write", end, <<>>, LinesOf(file))
  BY DEF Content, FoldLeftIs, FoldLeft, MapThenFoldSet, After, Folds, FoldBody, FoldStep

\* Induction up to n, for a set of numbers.
LEMMA CountUp ==
    ASSUME NEW n \in Nat, NEW P, 0 \in P, \A j \in 1..n : j - 1 \in P => j \in P
    PROVE  \A j \in 0..n : j \in P
<1>. DEFINE Q == {s \in SUBSET (0..n) : \A j \in 0..n : s = 0..j => j \in P}
<1>1. ASSUME NEW s \in SUBSET (0..n), \A u \in SUBSET s : u # s => u \in Q
      PROVE  s \in Q
  <2>1. ASSUME NEW j \in 0..n, s = 0..j PROVE j \in P
    <3>1. CASE j = 0
      BY <3>1
    <3>2. CASE j # 0
      <4>1. (0..j - 1) \in SUBSET s /\ 0..j - 1 # s /\ j - 1 \in 0..n /\ j \in 1..n
        <5>1. j \in s /\ j \notin 0..j - 1
          BY <2>1
        <5>. QED BY <5>1, <2>1, <3>2
      <4>2. j - 1 \in P
        BY <1>1, <4>1
      <4>. QED BY <4>1, <4>2
    <3>. QED BY <3>1, <3>2
  <2>. QED BY <2>1
<1>2. \A s \in SUBSET (0..n) : s \in Q
  <2>1. IsFiniteSet(0..n)
    BY FS_Interval
  <2>. HIDE DEF Q
  <2>. QED BY <1>1, <2>1, SetInduction
<1>3. \A j \in 0..n : (0..j) \in SUBSET (0..n)
  OBVIOUS
<1>. QED BY <1>2, <1>3

-----------------------------------------------------------------------------
\* What is kept of the first j characters.
KeptOf(s, set, j) == After([op |-> "keep", arg |-> set], <<>>, s, j)

LEMMA KeptSteps ==
    ASSUME NEW C, NEW s \in Seq(C), NEW set
    PROVE  /\ Only(s, set) = KeptOf(s, set, Len(s))
           /\ KeptOf(s, set, 0) = <<>>
           /\ \A j \in 1..Len(s) :
                 /\ s[j] \in set => KeptOf(s, set, j) = Append(KeptOf(s, set, j - 1), s[j])
                 /\ s[j] \notin set => KeptOf(s, set, j) = KeptOf(s, set, j - 1)
<1>1. Len(s) \in Nat /\ DOMAIN s = 1..Len(s)
  OBVIOUS
<1>2. Only(s, set) = KeptOf(s, set, Len(s))
  BY <1>1, TheFolds DEF FoldLeftIs, KeptOf
<1>3. /\ KeptOf(s, set, 0) = <<>>
      /\ \A j \in 1..Len(s) :
            KeptOf(s, set, j) = FoldStep([op |-> "keep", arg |-> set], KeptOf(s, set, j - 1), s[j])
  BY <1>1, FoldBase, FoldNext DEF KeptOf
<1>4. \A st, x : FoldStep([op |-> "keep", arg |-> set], st, x) = IF x \in set THEN Append(st, x) ELSE st
  BY DEF FoldStep, Keep
<1>. QED BY <1>2, <1>3, <1>4

\* As many as there are.
LEMMA KeptLength ==
    ASSUME NEW C, NEW s \in Seq(C), NEW set
    PROVE  /\ Only(s, set) \in Seq(set)
           /\ Len(Only(s, set)) = Cardinality({k \in DOMAIN s : s[k] \in set})
<1>. DEFINE n == Len(s)
            K(j) == {k \in 1..j : s[k] \in set}
            Good(j) == /\ KeptOf(s, set, j) \in Seq(set) /\ IsFiniteSet(K(j))
                       /\ Len(KeptOf(s, set, j)) = Cardinality(K(j))
            P == {j \in 0..n : Good(j)}
<1>1. Good(0)
  <2>1. K(0) = {} /\ KeptOf(s, set, 0) = <<>>
    BY KeptSteps
  <2>2. IsFiniteSet({}) /\ Cardinality({}) = 0
    BY FS_EmptySet
  <2>3. Len(<<>>) = 0 /\ <<>> \in Seq(set)
    OBVIOUS
  <2>. HIDE DEF K
  <2>. QED BY <2>1, <2>2, <2>3
<1>2. ASSUME NEW j \in 1..n, Good(j - 1) PROVE Good(j)
  <2>1. CASE s[j] \in set
    <3>1. K(j) = K(j - 1) \cup {j} /\ j \notin K(j - 1)
      BY <2>1
    <3>2. IsFiniteSet(K(j)) /\ Cardinality(K(j)) = Cardinality(K(j - 1)) + 1
      <4>. HIDE DEF K
      <4>1. PICK x : x = K(j - 1)
        OBVIOUS
      <4>2. IsFiniteSet(x) /\ j \notin x
        BY <1>2, <3>1, <4>1
      <4>3. IsFiniteSet(x \cup {j}) /\ Cardinality(x \cup {j}) = Cardinality(x) + 1
        BY <4>2, FS_AddElement
      <4>. QED BY <3>1, <4>1, <4>3
    <3>3. KeptOf(s, set, j) = Append(KeptOf(s, set, j - 1), s[j])
      BY <2>1, KeptSteps
    <3>4. /\ KeptOf(s, set, j) \in Seq(set)
          /\ Len(KeptOf(s, set, j)) = Len(KeptOf(s, set, j - 1)) + 1
      BY <1>2, <2>1, <3>3
    <3>. QED BY <1>2, <3>2, <3>4
  <2>2. CASE s[j] \notin set
    <3>1. K(j) = K(j - 1)
      BY <2>2
    <3>2. KeptOf(s, set, j) = KeptOf(s, set, j - 1)
      BY <2>2, KeptSteps
    <3>. QED BY <1>2, <3>1, <3>2
  <2>. QED BY <2>1, <2>2
<1>3. n \in Nat /\ DOMAIN s = 1..n
  OBVIOUS
<1>4. \A j \in 0..n : j \in P
  <2>1. 0 \in P /\ \A j \in 1..n : j - 1 \in P => j \in P
    <3>. HIDE DEF Good
    <3>1. \A j \in 1..n : j \in 0..n
      BY <1>3
    <3>. QED BY <1>1, <1>2, <1>3, <3>1
  <2>. HIDE DEF P, n
  <2>. QED BY <1>3, <2>1, CountUp
<1>5. Good(n)
  <2>. HIDE DEF Good
  <2>. QED BY <1>3, <1>4
<1>. QED BY <1>3, <1>5, KeptSteps

\* A sign before the digits, or no sign.
LEMMA KeptSigned ==
    ASSUME NEW C, NEW s \in Seq(C), NEW d, NEW sign, sign \notin d, NEW a, \A c : c \in a <=> c \in d \/ c = sign,
           \A k \in DOMAIN s : s[k] = sign => \A j \in 1..k - 1 : s[j] \notin a
    PROVE  Only(s, a) = Only(s, d) \/ Only(s, a) = <<sign>> \o Only(s, d)
<1>. DEFINE n == Len(s)
            All(j) == KeptOf(s, a, j)
            D(j) == KeptOf(s, d, j)
            Good(j) == /\ D(j) \in Seq(C)
                       /\ (\A k \in 1..j : s[k] \notin d) => D(j) = <<>>
                       /\ (\A k \in 1..j : s[k] # sign) => All(j) = D(j)
                       /\ (\E k \in 1..j : s[k] = sign) => All(j) = <<sign>> \o D(j)
            P == {j \in 0..n : Good(j)}
<1>1. Good(0)
  <2>1. All(0) = <<>> /\ D(0) = <<>>
    BY KeptSteps
  <2>2. D(0) \in Seq(C)
    <3>1. <<>> \in Seq(C)
      OBVIOUS
    <3>. QED BY <2>1, <3>1
  <2>3. \A k : k \notin 1..0
    OBVIOUS
  <2>. HIDE DEF All, D
  <2>. QED BY <2>1, <2>2, <2>3
<1>2. ASSUME NEW j \in 1..n, Good(j - 1) PROVE Good(j)
  <2>0. s[j] \in C /\ j \in DOMAIN s /\ j - 1 \in Int
    OBVIOUS
  <2>1. /\ s[j] \in a => All(j) = Append(All(j - 1), s[j])
        /\ s[j] \notin a => All(j) = All(j - 1)
        /\ s[j] \in d => D(j) = Append(D(j - 1), s[j])
        /\ s[j] \notin d => D(j) = D(j - 1)
    BY KeptSteps
  <2>2. \A k : k \in 1..j <=> k \in 1..j - 1 \/ k = j
    OBVIOUS
  <2>. HIDE DEF All, D
  <2>3. CASE s[j] = sign
    <3>1. \A k \in 1..j - 1 : s[k] \notin d /\ s[k] # sign
      BY <2>1, <2>3
    <3>2. D(j - 1) = <<>> /\ All(j - 1) = <<>>
      BY <1>2, <3>1
    <3>3. D(j) = <<>> /\ All(j) = Append(<<>>, sign)
      BY <2>0, <2>1, <2>3, <3>2
    <3>4. Append(<<>>, sign) = <<sign>> \o <<>>
      OBVIOUS
    <3>. QED BY <2>2, <2>3, <3>2, <3>3, <3>4
  <2>4. CASE s[j] \in d
    <3>1. s[j] # sign /\ D(j) = Append(D(j - 1), s[j]) /\ All(j) = Append(All(j - 1), s[j])
      BY <2>1, <2>4
    <3>2. D(j) \in Seq(C)
      BY <1>2, <2>1, <3>1
    <3>3. Append(<<sign>> \o D(j - 1), s[j]) = <<sign>> \o Append(D(j - 1), s[j])
      BY <1>2, <2>1
    <3>. QED BY <1>2, <2>2, <2>4, <3>1, <3>2, <3>3
  <2>5. CASE s[j] \notin a
    BY <1>2, <2>1, <2>2, <2>5
  <2>. QED BY <2>3, <2>4, <2>5
<1>3. n \in Nat /\ DOMAIN s = 1..n
  OBVIOUS
<1>4. \A j \in 0..n : j \in P
  <2>1. 0 \in P /\ \A j \in 1..n : j - 1 \in P => j \in P
    <3>. HIDE DEF Good
    <3>1. \A j \in 1..n : j \in 0..n
      BY <1>3
    <3>. QED BY <1>1, <1>2, <1>3, <3>1
  <2>. HIDE DEF P, n
  <2>. QED BY <1>3, <2>1, CountUp
<1>5. Good(n)
  <2>. HIDE DEF Good
  <2>. QED BY <1>3, <1>4
<1>. QED BY <1>5, KeptSteps

(***************************************************************************)
(* normalizePhone gives the number a cell shows, or null when there is     *)
(* none.                                                                   *)
(***************************************************************************)
THEOREM NumberReads ==
    ASSUME NEW s \in Seq(STRING),
           \A k \in DOMAIN s : s[k] = "+" => \A j \in 1..k - 1 : s[j] \notin Digits \cup {"+"}
    PROVE  /\ NormalizePhone(s) = IF IsNumber(s) THEN Number(s) ELSE <<>>
           /\ Number(s) # <<>> /\ Number(s) \in Seq(Digits \cup {"+"})
<1>. DEFINE cleaned == Only(s, Digits \cup {"+"})
            d == Only(s, Digits)
<1>1. d \in Seq(Digits) /\ cleaned \in Seq(Digits \cup {"+"})
  BY KeptLength
<1>2. Len(cleaned) = Cardinality(Kept(s))
  BY KeptLength DEF Kept
<1>3. cleaned = d \/ cleaned = <<"+">> \o d
  <2>1. PICK a : a = Digits \cup {"+"}
    OBVIOUS
  <2>2. \A c : c \in a <=> c \in Digits \/ c = "+"
    BY <2>1
  <2>3. \A k \in DOMAIN s : s[k] = "+" => \A j \in 1..k - 1 : s[j] \notin a
    BY <2>2
  <2>4. Only(s, a) = Only(s, Digits) \/ Only(s, a) = <<"+">> \o Only(s, Digits)
    BY <2>2, <2>3, KeptSigned, DigitsAssumption
  <2>. QED BY <2>1, <2>4
<1>4. Number(s) = <<"+">> \o d
  BY DEF Number
<1>5. NormalizePhone(s) = IF Len(cleaned) < MinLength THEN <<>>
                          ELSE IF cleaned[1] = "+" THEN cleaned ELSE <<"+">> \o cleaned
  BY DEF NormalizePhone
<1>. HIDE DEF cleaned, d
<1>6. Len(<<"+">> \o d) = Len(d) + 1 /\ <<"+">> \o d \in Seq(Digits \cup {"+"}) /\ (<<"+">> \o d)[1] = "+"
  BY <1>1
<1>7. Number(s) # <<>>
  BY <1>1, <1>4, <1>6
<1>8. Len(cleaned) < MinLength <=> ~IsNumber(s)
  BY <1>1, <1>2, MinLengthAssumption DEF IsNumber
<1>9. ASSUME ~(Len(cleaned) < MinLength)
      PROVE  (IF cleaned[1] = "+" THEN cleaned ELSE <<"+">> \o cleaned) = <<"+">> \o d
  <2>1. CASE cleaned = d
    <3>1. Len(d) \in Nat /\ Len(d) >= 1
      BY <1>1, <1>9, <2>1, MinLengthAssumption
    <3>2. d[1] \in Digits
      BY <1>1, <3>1
    <3>. QED BY <2>1, <3>2, DigitsAssumption
  <2>2. CASE cleaned = <<"+">> \o d
    BY <1>6, <2>2
  <2>. QED BY <1>3, <2>1, <2>2
<1>10. Number(s) \in Seq(Digits \cup {"+"})
  BY <1>4, <1>6
<1>11. NormalizePhone(s) = IF IsNumber(s) THEN Number(s) ELSE <<>>
  <2>1. CASE Len(cleaned) < MinLength
    BY <1>5, <1>8, <2>1
  <2>2. CASE ~(Len(cleaned) < MinLength)
    BY <1>4, <1>5, <1>8, <1>9, <2>2
  <2>. QED BY <2>1, <2>2
<1>. QED BY <1>7, <1>10, <1>11

-----------------------------------------------------------------------------
\* The first j elements.
Upto(s, j) == SubSeq(s, 1, j)

LEMMA UptoSteps ==
    ASSUME NEW C, NEW s \in Seq(C)
    PROVE  /\ Upto(s, 0) = <<>> /\ Upto(s, Len(s)) = s
           /\ \A j \in 1..Len(s) : Upto(s, j) = Append(Upto(s, j - 1), s[j])
           /\ \A j \in 0..Len(s) : Upto(s, j) \in Seq(C) /\ Len(Upto(s, j)) = j
<1>1. Upto(s, 0) = <<>> /\ Upto(s, Len(s)) = s
  BY DEF Upto
<1>2. ASSUME NEW j \in 0..Len(s) PROVE Upto(s, j) \in Seq(C) /\ Len(Upto(s, j)) = j
  BY DEF Upto
<1>3. ASSUME NEW j \in 1..Len(s) PROVE Upto(s, j) = Append(Upto(s, j - 1), s[j])
  BY DEF Upto
<1>. QED BY <1>1, <1>2, <1>3

\* A sequence that grows by pieces keeps what it has.
Longer(C, s, t) == \E piece \in Seq(C) : t = s \o piece

LEMMA Growing ==
    ASSUME NEW C, NEW n \in Nat, NEW e \in [0..n -> Seq(C)],
           \A j \in 1..n : Longer(C, e[j - 1], e[j])
    PROVE  \A j \in 0..n : /\ Len(e[j]) <= Len(e[n])
                           /\ \A i \in 1..Len(e[j]) : e[n][i] = e[j][i]
<1>. DEFINE P == {m \in 0..n : \A j \in 0..m : /\ Len(e[j]) <= Len(e[m])
                                               /\ \A i \in 1..Len(e[j]) : e[m][i] = e[j][i]}
<1>1. 0 \in P
  OBVIOUS
<1>2. ASSUME NEW m \in 1..n, m - 1 \in P PROVE m \in P
  <2>1. PICK piece \in Seq(C) : e[m] = e[m - 1] \o piece
    BY DEF Longer
  <2>2. e[m] \in Seq(C) /\ e[m - 1] \in Seq(C)
    OBVIOUS
  <2>3. /\ Len(e[m - 1]) <= Len(e[m])
        /\ \A i \in 1..Len(e[m - 1]) : e[m][i] = e[m - 1][i]
    <3>1. PICK x \in Seq(C) : x = e[m - 1]
      BY <2>2
    <3>2. Len(x) <= Len(x \o piece) /\ \A i \in 1..Len(x) : (x \o piece)[i] = x[i]
      OBVIOUS
    <3>. QED BY <2>1, <3>1, <3>2
  <2>4. ASSUME NEW j \in 0..m
        PROVE  Len(e[j]) <= Len(e[m]) /\ \A i \in 1..Len(e[j]) : e[m][i] = e[j][i]
    <3>1. CASE j = m
      BY <3>1, <2>2
    <3>2. CASE j # m
      <4>1. j \in 0..m - 1 /\ e[j] \in Seq(C)
        BY <3>2
      <4>2. /\ Len(e[j]) <= Len(e[m - 1])
            /\ \A i \in 1..Len(e[j]) : e[m - 1][i] = e[j][i]
        BY <1>2, <4>1
      <4>3. Len(e[j]) \in Nat /\ Len(e[m]) \in Nat /\ Len(e[m - 1]) \in Nat
        BY <2>2, <4>1
      <4>. QED BY <2>3, <4>2, <4>3
    <3>. QED BY <3>1, <3>2
  <2>. QED BY <2>4
<1>3. \A m \in 0..n : m \in P
  <2>. HIDE DEF P
  <2>. QED BY <1>1, <1>2, CountUp
<1>. QED BY <1>3

-----------------------------------------------------------------------------
\* The parser after i characters of a line.
Read(line, i) == After([op |-> "parse", arg |-> line], Parsing, [k \in 1..Len(line) |-> k], i)

\* Between quotes or not, with the values before and the text so far; the
\* last is between a quote and the quote that is skipped.
Outside(line, i, v, c) == Read(line, i) = State(v, c, FALSE, FALSE)
Inside(line, i, v, c) == Read(line, i) = State(v, c, TRUE, FALSE)
Skipping(line, i, v, c) == Read(line, i) = State(v, c, TRUE, TRUE)

LEMMA ReadSteps ==
    ASSUME NEW C, NEW line \in Seq(C)
    PROVE  /\ Outside(line, 0, <<>>, <<>>)
           /\ \A i \in 1..Len(line) : Read(line, i) = ParseChar(line, Read(line, i - 1), i)
           /\ \A v, c : Outside(line, Len(line), v, c) =>
                 ParseCsvLine(line) = Append(v, Trim(c))
<1>. DEFINE idx == [k \in 1..Len(line) |-> k]
            op == [op |-> "parse", arg |-> line]
<1>1. Len(line) \in Nat /\ DOMAIN line = 1..Len(line) /\ DOMAIN idx = 1..Len(line)
  OBVIOUS
<1>2. /\ Read(line, 0) = Parsing
      /\ \A i \in 1..Len(line) : Read(line, i) = FoldStep(op, Read(line, i - 1), idx[i])
  <2>. HIDE DEF op
  <2>1. After(op, Parsing, idx, 0) = Parsing
    BY <1>1, FoldBase
  <2>2. \A i \in 1..Len(line) : After(op, Parsing, idx, i) = FoldStep(op, After(op, Parsing, idx, i - 1), idx[i])
    <3>. HIDE DEF idx
    <3>. QED BY <1>1, FoldNext
  <2>. QED BY <2>1, <2>2 DEF Read, op
<1>3. \A st, x : FoldStep(op, st, x) = ParseChar(line, st, x)
  BY DEF FoldStep
<1>4. ASSUME NEW v, NEW c, Read(line, Len(line)) = State(v, c, FALSE, FALSE)
      PROVE  ParseCsvLine(line) = Append(v, Trim(c))
  <2>1. ParseCsvLine(line) = Append(Read(line, Len(line)).values, Trim(Read(line, Len(line)).current))
    BY <1>1, ParseFold DEF Read
  <2>2. State(v, c, FALSE, FALSE).values = v /\ State(v, c, FALSE, FALSE).current = c
    BY DEF State
  <2>. QED BY <1>4, <2>1, <2>2
<1>5. Parsing = State(<<>>, <<>>, FALSE, FALSE)
  BY DEF Parsing
<1>. HIDE DEF op
<1>. QED BY <1>2, <1>3, <1>4, <1>5 DEF Outside

\* What it does with the next character.
LEMMA ReadOutside ==
    ASSUME NEW C, NEW line \in Seq(C), NEW i \in 1..Len(line), NEW v, NEW c,
           Outside(line, i - 1, v, c), line[i] \notin {Quote, Comma}
    PROVE  Outside(line, i, v, Append(c, line[i]))
<1>1. Read(line, i) = ParseChar(line, State(v, c, FALSE, FALSE), i)
  BY ReadSteps DEF Outside
<1>. QED BY <1>1 DEF ParseChar, State, Outside

LEMMA ReadInside ==
    ASSUME NEW C, NEW line \in Seq(C), NEW i \in 1..Len(line), NEW v, NEW c,
           Inside(line, i - 1, v, c), line[i] # Quote
    PROVE  Inside(line, i, v, Append(c, line[i]))
<1>1. Read(line, i) = ParseChar(line, State(v, c, TRUE, FALSE), i)
  BY ReadSteps DEF Inside
<1>. QED BY <1>1 DEF ParseChar, State, Inside

LEMMA ReadOpeningQuote ==
    ASSUME NEW C, NEW line \in Seq(C), NEW i \in 1..Len(line), NEW v, NEW c,
           Outside(line, i - 1, v, c), line[i] = Quote
    PROVE  Inside(line, i, v, c)
<1>1. Read(line, i) = ParseChar(line, State(v, c, FALSE, FALSE), i)
  BY ReadSteps DEF Outside
<1>2. Quote # Comma
  BY DEF Quote, Comma
<1>. QED BY <1>1, <1>2 DEF ParseChar, Doubled, State, Inside

LEMMA ReadDoubledQuote ==
    ASSUME NEW C, NEW line \in Seq(C), NEW i \in 1..Len(line), NEW v, NEW c,
           Inside(line, i - 1, v, c), line[i] = Quote, i < Len(line) /\ line[i + 1] = Quote
    PROVE  Skipping(line, i, v, Append(c, Quote))
<1>1. Read(line, i) = ParseChar(line, State(v, c, TRUE, FALSE), i)
  BY ReadSteps DEF Inside
<1>. QED BY <1>1 DEF ParseChar, Doubled, State, Skipping

LEMMA ReadSkipped ==
    ASSUME NEW C, NEW line \in Seq(C), NEW i \in 1..Len(line), NEW v, NEW c,
           Skipping(line, i - 1, v, c)
    PROVE  Inside(line, i, v, c)
<1>1. Read(line, i) = ParseChar(line, State(v, c, TRUE, TRUE), i)
  BY ReadSteps DEF Skipping
<1>. QED BY <1>1 DEF ParseChar, State, Inside

LEMMA ReadClosingQuote ==
    ASSUME NEW C, NEW line \in Seq(C), NEW i \in 1..Len(line), NEW v, NEW c,
           Inside(line, i - 1, v, c), line[i] = Quote, i < Len(line) => line[i + 1] = Comma
    PROVE  Outside(line, i, v, c)
<1>1. Read(line, i) = ParseChar(line, State(v, c, TRUE, FALSE), i)
  BY ReadSteps DEF Inside
<1>2. Quote # Comma
  BY DEF Quote, Comma
<1>. QED BY <1>1, <1>2 DEF ParseChar, Doubled, State, Outside

LEMMA ReadComma ==
    ASSUME NEW C, NEW line \in Seq(C), NEW i \in 1..Len(line), NEW v, NEW c,
           Outside(line, i - 1, v, c), line[i] = Comma
    PROVE  Outside(line, i, Append(v, Trim(c)), <<>>)
<1>1. Read(line, i) = ParseChar(line, State(v, c, FALSE, FALSE), i)
  BY ReadSteps DEF Outside
<1>2. Quote # Comma
  BY DEF Quote, Comma
<1>. QED BY <1>1, <1>2 DEF ParseChar, State, Outside

-----------------------------------------------------------------------------
\* The characters of a file, and a text without line ends or blanks at its ends.
Alphabet(C) == {Quote, Comma, "CR", "LF"} \subseteq C
Solid(s) == s # <<>> => s[1] \notin Blank /\ s[Len(s)] \notin Blank
Clean(C, text) == text \in Seq(C) /\ (\A k \in DOMAIN text : text[k] # "LF") /\ Solid(text)

\* What the spreadsheet has written of a quoted text after j characters.
Escaped(text, j) == After([op |-> "escape", arg |-> 0], <<Quote>>, text, j)

LEMMA EscapeSteps ==
    ASSUME NEW C, Alphabet(C), NEW text \in Seq(C)
    PROVE  /\ Quoted(text) = Append(Escaped(text, Len(text)), Quote)
           /\ Escaped(text, 0) = <<Quote>>
           /\ \A j \in 1..Len(text) :
                 /\ text[j] = Quote => Escaped(text, j) = Escaped(text, j - 1) \o <<Quote, Quote>>
                 /\ text[j] # Quote => Escaped(text, j) = Escaped(text, j - 1) \o <<text[j]>>
<1>1. Len(text) \in Nat /\ DOMAIN text = 1..Len(text)
  OBVIOUS
<1>2. Quoted(text) = Append(Escaped(text, Len(text)), Quote)
  BY <1>1, TheFolds DEF FoldLeftIs, Escaped
<1>3. Escaped(text, 0) = <<Quote>>
  BY <1>1, FoldBase DEF Escaped
<1>4. \A j \in 1..Len(text) :
        Escaped(text, j) = FoldStep([op |-> "escape", arg |-> 0], Escaped(text, j - 1), text[j])
  BY <1>1, FoldNext DEF Escaped
<1>5. \A st, x : FoldStep([op |-> "escape", arg |-> 0], st, x) =
        st \o IF x = Quote THEN <<Quote, Quote>> ELSE <<x>>
  BY DEF FoldStep, Escape
<1>. QED BY <1>2, <1>3, <1>4, <1>5

\* It is made of the text's characters and of quotes.
LEMMA EscapedOf ==
    ASSUME NEW C, Alphabet(C), NEW text \in Seq(C)
    PROVE  /\ \A j \in 0..Len(text) : /\ Escaped(text, j) \in Seq(C) /\ Len(Escaped(text, j)) >= 1
                                      /\ Escaped(text, j)[1] = Quote
           /\ \A j \in 0..Len(text) : \A k \in 1..Len(Escaped(text, j)) :
                 Escaped(text, j)[k] = Quote \/ \E i \in DOMAIN text : Escaped(text, j)[k] = text[i]
<1>. DEFINE Good(e) == /\ e \in Seq(C) /\ Len(e) >= 1 /\ e[1] = Quote
                       /\ \A k \in 1..Len(e) : e[k] = Quote \/ \E i \in DOMAIN text : e[k] = text[i]
            P == {j \in 0..Len(text) : Good(Escaped(text, j))}
<1>1. PICK n \in Nat : n = Len(text)
  OBVIOUS
<1>2. Quote \in C
  BY DEF Alphabet
<1>3. 0 \in P
  <2>1. Good(<<Quote>>)
    BY <1>2
  <2>2. Escaped(text, 0) = <<Quote>>
    BY EscapeSteps
  <2>. HIDE DEF Good
  <2>. QED BY <1>1, <2>1, <2>2
<1>4. ASSUME NEW j \in 1..n, j - 1 \in P PROVE j \in P
  <2>1. PICK e : e = Escaped(text, j - 1) /\ Good(e)
    BY <1>1, <1>4
  <2>2. text[j] \in C /\ j \in DOMAIN text
    BY <1>1
  <2>. SUFFICES Good(Escaped(text, j))
    BY <1>1
  <2>3. CASE text[j] = Quote
    <3>1. Escaped(text, j) = e \o <<Quote, Quote>>
      BY <1>1, <2>1, <2>3, EscapeSteps
    <3>2. Good(e \o <<Quote, Quote>>)
      BY <1>2, <2>1
    <3>. HIDE DEF Good
    <3>. QED BY <3>1, <3>2
  <2>4. CASE text[j] # Quote
    <3>1. Escaped(text, j) = e \o <<text[j]>>
      BY <1>1, <2>1, <2>4, EscapeSteps
    <3>2. PICK x \in C : x = text[j]
      BY <2>2
    <3>3. \A k \in 1..Len(e \o <<x>>) : (e \o <<x>>)[k] = IF k <= Len(e) THEN e[k] ELSE x
      BY <2>1
    <3>4. Good(e \o <<x>>)
      BY <2>1, <2>2, <3>2, <3>3
    <3>. HIDE DEF Good
    <3>. QED BY <3>1, <3>2, <3>4
  <2>. QED BY <2>3, <2>4
<1>5. \A j \in 0..n : j \in P
  <2>. HIDE DEF P
  <2>. QED BY <1>3, <1>4, CountUp
<1>. QED BY <1>1, <1>5

\* Nothing is trimmed of a text without blanks at its ends but a CR that follows it.
LEMMA TrimSolid ==
    ASSUME NEW C, NEW s \in Seq(C), Solid(s)
    PROVE  /\ Trim(s) = s
           /\ s # <<>> => Trim(Append(s, "CR")) = s
<1>1. PICK n \in Nat : n = Len(s) /\ DOMAIN s = 1..n
  OBVIOUS
<1>2. ASSUME NEW S, s # <<>>, S \subseteq 1..n, 1 \in S, n \in S
      PROVE  Min(S) = 1 /\ Max(S) = n
  <2>1. \A x \in S : 1 <= x /\ x <= n
    BY <1>2
  <2>2. Min(S) \in S /\ \A y \in S : Min(S) <= y
    BY <1>2, <2>1 DEF Min
  <2>3. Max(S) \in S /\ \A y \in S : Max(S) >= y
    BY <1>2, <2>1 DEF Max
  <2>4. PICK p \in S : p = Min(S) /\ \A y \in S : p <= y
    BY <2>2
  <2>5. PICK q \in S : q = Max(S) /\ \A y \in S : q >= y
    BY <2>3
  <2>6. p \in 1..n /\ q \in 1..n /\ p <= 1 /\ q >= n
    BY <1>2, <2>4, <2>5
  <2>7. p = 1 /\ q = n
    BY <2>6
  <2>. QED BY <2>4, <2>5, <2>7
<1>3. CASE s = <<>>
  BY <1>3 DEF Trim
<1>4. CASE s # <<>>
  <2>. DEFINE kept == {i \in DOMAIN s : s[i] \notin Blank}
              long == {i \in DOMAIN Append(s, "CR") : Append(s, "CR")[i] \notin Blank}
  <2>1. kept \subseteq 1..n /\ 1 \in kept /\ n \in kept
    BY <1>1, <1>4 DEF Solid
  <2>2. long \subseteq 1..n /\ 1 \in long /\ n \in long
    <3>1. DOMAIN Append(s, "CR") = 1..n + 1
      BY <1>1
    <3>2. Append(s, "CR")[n + 1] = "CR"
      BY <1>1
    <3>3. \A i \in 1..n : Append(s, "CR")[i] = s[i]
      BY <1>1
    <3>4. "CR" \in Blank
      BY DEF Blank
    <3>. QED BY <2>1, <3>1, <3>2, <3>3, <3>4
  <2>3. Trim(s) = SubSeq(s, 1, n)
    <3>1. Min(kept) = 1 /\ Max(kept) = n
      BY <1>2, <1>4, <2>1
    <3>. QED BY <2>1, <3>1 DEF Trim
  <2>4. Trim(Append(s, "CR")) = SubSeq(Append(s, "CR"), 1, n)
    <3>1. Min(long) = 1 /\ Max(long) = n
      BY <1>2, <1>4, <2>2
    <3>. QED BY <2>2, <3>1 DEF Trim
  <2>5. SubSeq(s, 1, n) = s
    BY <1>1
  <2>6. SubSeq(Append(s, "CR"), 1, n) = s
    <3>1. PICK D : D = C \cup {"CR"}
      OBVIOUS
    <3>2. s \in Seq(D) /\ "CR" \in D
      BY <3>1
    <3>. QED BY <1>1, <3>2
  <2>. QED BY <2>3, <2>4, <2>5, <2>6
<1>. QED BY <1>3, <1>4

\* A piece of a line.
At(line, a, w) == a + Len(w) <= Len(line) /\ \A i \in 1..Len(w) : line[a + i] = w[i]

\* After which the value ends.
Follows(line, a) == a < Len(line) => line[a + 1] = Comma

\* A text that stands in a line as it is.
LEMMA PlainReads ==
    ASSUME NEW C, Alphabet(C), NEW line \in Seq(C), NEW text \in Seq(C), NEW a \in Nat, At(line, a, text),
           \A i \in DOMAIN text : text[i] \notin {Quote, Comma},
           NEW v, Outside(line, a, v, <<>>)
    PROVE  Outside(line, a + Len(text), v, text)
<1>1. PICK n \in Nat : n = Len(text) /\ DOMAIN text = 1..n
  OBVIOUS
<1>. DEFINE Good(j) == Outside(line, a + j, v, Upto(text, j))
            P == {j \in 0..n : Good(j)}
<1>2. 0 \in P
  <2>1. Upto(text, 0) = <<>> /\ a + 0 = a
    BY UptoSteps
  <2>2. Good(0)
    BY <2>1
  <2>. HIDE DEF Good
  <2>. QED BY <2>2
<1>3. ASSUME NEW j \in 1..n, j - 1 \in P PROVE j \in P
  <2>1. PICK i \in 1..Len(line) : i = a + j
    BY <1>1 DEF At
  <2>2. line[i] = text[j] /\ line[i] # Quote /\ line[i] # Comma
    BY <1>1, <2>1 DEF At
  <2>3. Outside(line, i - 1, v, Upto(text, j - 1))
    <3>1. i - 1 = a + (j - 1)
      BY <2>1
    <3>. QED BY <1>3, <3>1
  <2>6. Outside(line, i, v, Append(Upto(text, j - 1), line[i]))
    BY <2>2, <2>3, ReadOutside
  <2>7. Upto(text, j) = Append(Upto(text, j - 1), text[j])
    BY <1>1, UptoSteps
  <2>8. Outside(line, a + j, v, Upto(text, j))
    BY <2>1, <2>2, <2>6, <2>7
  <2>9. Good(j)
    BY <2>8
  <2>. HIDE DEF Good
  <2>. QED BY <2>9
<1>4. n \in P
  <2>1. \A j \in 0..n : j \in P
    <3>. HIDE DEF P
    <3>. QED BY <1>2, <1>3, CountUp
  <2>. HIDE DEF P
  <2>. QED BY <2>1
<1>5. Upto(text, n) = text
  BY <1>1, UptoSteps
<1>. QED BY <1>1, <1>4, <1>5

\* Where the spreadsheet has written the j-th character.
LEMMA EscapedGrows ==
    ASSUME NEW C, Alphabet(C), NEW text \in Seq(C), NEW j \in 0..Len(text)
    PROVE  /\ Len(Escaped(text, j)) + 1 <= Len(Quoted(text))
           /\ \A i \in 1..Len(Escaped(text, j)) : Quoted(text)[i] = Escaped(text, j)[i]
<1>1. PICK n \in Nat : n = Len(text)
  OBVIOUS
<1>. DEFINE e == [m \in 0..n |-> Escaped(text, m)]
<1>2. e \in [0..n -> Seq(C)]
  BY <1>1, EscapedOf
<1>3. \A m \in 1..n : Longer(C, e[m - 1], e[m])
  <2>1. ASSUME NEW m \in 1..n
        PROVE  Longer(C, Escaped(text, m - 1), Escaped(text, m))
    <3>1. <<Quote, Quote>> \in Seq(C) /\ <<text[m]>> \in Seq(C)
      BY <1>1, <2>1 DEF Alphabet
    <3>2. \/ Escaped(text, m) = Escaped(text, m - 1) \o <<Quote, Quote>>
          \/ Escaped(text, m) = Escaped(text, m - 1) \o <<text[m]>>
      BY <1>1, <2>1, EscapeSteps
    <3>. QED BY <3>1, <3>2 DEF Longer
  <2>2. ASSUME NEW m \in 1..n PROVE m \in 0..n /\ m - 1 \in 0..n
    OBVIOUS
  <2>. QED BY <2>1, <2>2
<1>4. \A m \in 0..n : /\ Len(e[m]) <= Len(e[n])
                      /\ \A i \in 1..Len(e[m]) : e[n][i] = e[m][i]
  <2>. HIDE DEF e
  <2>. QED BY <1>2, <1>3, Growing, ZenonT(40)
<1>5. PICK E \in Seq(C) : E = Escaped(text, n)
  BY <1>1, EscapedOf
<1>6. PICK F \in Seq(C) : F = Escaped(text, j)
  BY <1>1, EscapedOf
<1>7. Len(F) <= Len(E) /\ \A i \in 1..Len(F) : E[i] = F[i]
  BY <1>1, <1>4, <1>5, <1>6
<1>8. Quoted(text) = Append(E, Quote)
  BY <1>1, <1>5, EscapeSteps
<1>9. Quote \in C
  BY DEF Alphabet
<1>. QED BY <1>6, <1>7, <1>8, <1>9

\* A text that stands in a line in quotes.
LEMMA QuotedReads ==
    ASSUME NEW C, Alphabet(C), NEW line \in Seq(C), NEW text \in Seq(C), NEW a \in Nat,
           At(line, a, Quoted(text)),
           Follows(line, a + Len(Quoted(text))),
           NEW v, Outside(line, a, v, <<>>)
    PROVE  Outside(line, a + Len(Quoted(text)), v, text)
<1>1. PICK n \in Nat : n = Len(text) /\ DOMAIN text = 1..n
  OBVIOUS
<1>. DEFINE Good(j) == Inside(line, a + Len(Escaped(text, j)), v, Upto(text, j))
            P == {j \in 0..n : Good(j)}
<1>0. Quote \in C
  BY DEF Alphabet
<1>2. 0 \in P
  <2>1. Upto(text, 0) = <<>> /\ Len(Escaped(text, 0)) = 1 /\ Escaped(text, 0)[1] = Quote
    BY EscapeSteps, UptoSteps
  <2>2. Quoted(text)[1] = Quote /\ Len(Quoted(text)) >= 2
    BY <1>1, <2>1, EscapedGrows
  <2>3. PICK i \in 1..Len(line) : i = a + 1 /\ line[i] = Quote
    BY <2>2 DEF At
  <2>4. Outside(line, i - 1, v, <<>>)
    BY <2>3
  <2>5. Inside(line, i, v, <<>>)
    BY <2>3, <2>4, ReadOpeningQuote
  <2>6. Good(0)
    BY <2>1, <2>3, <2>5
  <2>. HIDE DEF Good
  <2>. QED BY <2>6
<1>3. ASSUME NEW j \in 1..n, j - 1 \in P PROVE j \in P
  <2>1. PICK E \in Seq(C) : E = Escaped(text, j - 1)
    BY <1>1, EscapedOf
  <2>2. PICK F \in Seq(C) : F = Escaped(text, j)
    BY <1>1, EscapedOf
  <2>3. Len(F) + 1 <= Len(Quoted(text)) /\ \A i \in 1..Len(F) : Quoted(text)[i] = F[i]
    BY <1>1, <2>2, EscapedGrows
  <2>4. PICK m \in Nat : m = Len(E)
    OBVIOUS
  <2>5. Len(Quoted(text)) \in Nat
    BY <1>1, <1>0, EscapeSteps, EscapedOf
  <2>6. Upto(text, j) = Append(Upto(text, j - 1), text[j])
    BY <1>1, UptoSteps
  <2>7. Inside(line, a + m, v, Upto(text, j - 1))
    BY <1>3, <2>1, <2>4
  <2>8. Good(j)
    <3>1. CASE text[j] = Quote
      <4>1. F = E \o <<Quote, Quote>>
        BY <1>1, <2>1, <2>2, <3>1, EscapeSteps
      <4>2. Len(F) = m + 2 /\ F[m + 1] = Quote /\ F[m + 2] = Quote
        BY <2>4, <4>1, <1>0
      <4>3. PICK i \in 1..Len(line) : i = a + m + 1
        BY <2>3, <2>4, <2>5, <4>2 DEF At
      <4>4. i < Len(line) /\ line[i] = Quote /\ line[i + 1] = Quote
        <5>1. a + (m + 2) <= Len(line)
          BY <2>3, <2>5, <4>2 DEF At
        <5>2. line[a + (m + 1)] = Quoted(text)[m + 1] /\ line[a + (m + 2)] = Quoted(text)[m + 2]
          BY <2>3, <2>4, <2>5, <4>2 DEF At
        <5>. QED BY <2>3, <2>4, <4>2, <4>3, <5>1, <5>2
      <4>5. Inside(line, i - 1, v, Upto(text, j - 1))
        <5>1. i - 1 = a + m
          BY <4>3
        <5>. QED BY <2>7, <5>1
      <4>6. Inside(line, i + 1, v, Append(Upto(text, j - 1), Quote))
        <5>1. PICK k \in 1..Len(line) : k = i + 1 /\ k - 1 = i
          BY <4>4
        <5>2. line[i] = Quote /\ line[k] = Quote
          BY <4>4, <5>1
        <5>3. Inside(line, k, v, Append(Upto(text, j - 1), Quote))
          <6>1. Skipping(line, i, v, Append(Upto(text, j - 1), Quote))
            BY <4>4, <4>5, ReadDoubledQuote
          <6>2. Skipping(line, k - 1, v, Append(Upto(text, j - 1), Quote))
            BY <5>1, <6>1
          <6>. QED BY <6>2, ReadSkipped
        <5>. QED BY <5>1, <5>3
      <4>7. i + 1 = a + Len(F)
        BY <4>2, <4>3
      <4>. QED BY <2>2, <2>6, <3>1, <4>6, <4>7
    <3>2. CASE text[j] # Quote
      <4>0. PICK x \in C : x = text[j]
        BY <1>1
      <4>1. F = E \o <<x>>
        BY <1>1, <2>1, <2>2, <3>2, <4>0, EscapeSteps
      <4>2. Len(F) = m + 1 /\ F[m + 1] = x
        BY <2>4, <4>1
      <4>3. PICK i \in 1..Len(line) : i = a + (m + 1)
        BY <2>3, <2>4, <2>5, <4>2 DEF At
      <4>4. line[i] = x
        <5>1. line[a + (m + 1)] = Quoted(text)[m + 1]
          BY <2>3, <2>4, <2>5, <4>2 DEF At
        <5>. QED BY <2>3, <2>4, <4>2, <4>3, <5>1
      <4>5. Inside(line, i - 1, v, Upto(text, j - 1))
        <5>1. i - 1 = a + m
          BY <4>3
        <5>. QED BY <2>7, <5>1
      <4>6. Inside(line, i, v, Append(Upto(text, j - 1), x))
        BY <3>2, <4>0, <4>4, <4>5, ReadInside
      <4>. QED BY <2>2, <2>6, <4>0, <4>2, <4>3, <4>6
    <3>. QED BY <3>1, <3>2
  <2>. HIDE DEF Good
  <2>. QED BY <2>8
<1>4. Good(n)
  <2>1. \A j \in 0..n : j \in P
    <3>. HIDE DEF P
    <3>. QED BY <1>2, <1>3, CountUp
  <2>. HIDE DEF Good
  <2>. QED BY <2>1
<1>5. Upto(text, n) = text
  BY <1>1, UptoSteps
<1>6. PICK E \in Seq(C) : E = Escaped(text, n)
  BY <1>1, EscapedOf
<1>7. Quoted(text) = Append(E, Quote)
  BY <1>1, <1>6, EscapeSteps
<1>8. Len(Quoted(text)) = Len(E) + 1 /\ Quoted(text)[Len(E) + 1] = Quote
  BY <1>7, <1>0
<1>9. PICK i \in 1..Len(line) : i = a + Len(E) + 1
  BY <1>8 DEF At
<1>10. line[i] = Quote /\ (i < Len(line) => line[i + 1] = Comma)
  <2>1. line[a + (Len(E) + 1)] = Quote
    BY <1>8 DEF At
  <2>. QED BY <1>8, <1>9, <2>1 DEF Follows
<1>11. Inside(line, i - 1, v, text)
  <2>1. i - 1 = a + Len(E)
    BY <1>9
  <2>. QED BY <1>4, <1>5, <1>6, <2>1
<1>12. Outside(line, i, v, text)
  BY <1>10, <1>11, ReadClosingQuote
<1>13. i = a + Len(Quoted(text))
  BY <1>8, <1>9
<1>. QED BY <1>12, <1>13

-----------------------------------------------------------------------------
\* A text that is written has no line end and no blanks at its ends.
LEMMA WrittenClean ==
    ASSUME NEW C, Alphabet(C), NEW text, Clean(C, text), NEW all \in BOOLEAN
    PROVE  /\ Clean(C, Written(text, all))
           /\ all \/ text # <<>> => Written(text, all) # <<>>
<1>0. text \in Seq(C)
  BY DEF Clean
<1>1. CASE Written(text, all) = text /\ ~all
  BY <1>1
<1>2. CASE Written(text, all) = Quoted(text)
  <2>1. PICK n \in Nat : n = Len(text) /\ n \in 0..Len(text)
    BY <1>0
  <2>2. PICK E \in Seq(C) : E = Escaped(text, n)
    BY <1>0, <2>1, EscapedOf
  <2>3. /\ Len(E) >= 1 /\ E[1] = Quote
        /\ \A k \in 1..Len(E) : E[k] = Quote \/ \E i \in DOMAIN text : E[k] = text[i]
    BY <1>0, <2>1, <2>2, EscapedOf
  <2>4. Quoted(text) = Append(E, Quote)
    BY <1>0, <2>1, <2>2, EscapeSteps
  <2>5. Quote \in C /\ Quote # "LF" /\ Quote \notin Blank
    BY DEF Alphabet, Quote, Blank
  <2>6. /\ Append(E, Quote) \in Seq(C) /\ Len(Append(E, Quote)) = Len(E) + 1
        /\ Append(E, Quote)[1] = Quote /\ Append(E, Quote)[Len(E) + 1] = Quote
        /\ \A k \in 1..Len(E) : Append(E, Quote)[k] = E[k]
        /\ Append(E, Quote) # <<>> /\ DOMAIN Append(E, Quote) = 1..Len(E) + 1
    BY <2>3, <2>5
  <2>7. \A k \in 1..Len(E) + 1 : Append(E, Quote)[k] # "LF"
    BY <2>3, <2>5, <2>6 DEF Clean
  <2>8. Clean(C, Append(E, Quote))
    BY <2>5, <2>6, <2>7 DEF Clean, Solid
  <2>. QED BY <1>2, <2>4, <2>6, <2>8
<1>. QED BY <1>1, <1>2 DEF Written

\* A text that is written in a line, as it is or in quotes, is read back.
Standing(C, line, text, w, a) ==
    /\ Alphabet(C) /\ line \in Seq(C) /\ Clean(C, text) /\ a \in Nat /\ At(line, a, w)
    /\ \E all \in BOOLEAN : w = Written(text, all)

LEMMA StandingLength ==
    ASSUME NEW C, NEW line, NEW text, NEW w, NEW a, Standing(C, line, text, w, a)
    PROVE  Len(w) \in Nat /\ a + Len(w) \in 0..Len(line)
<1>1. w \in Seq(C)
  BY WrittenClean DEF Standing, Clean
<1>. QED BY <1>1 DEF Standing, At

LEMMA WrittenReads ==
    ASSUME NEW C, NEW line, NEW text, NEW w, NEW a, Standing(C, line, text, w, a),
           Follows(line, a + Len(w)), NEW v, Outside(line, a, v, <<>>)
    PROVE  Outside(line, a + Len(w), v, text)
<1>0. Alphabet(C) /\ line \in Seq(C) /\ text \in Seq(C) /\ a \in Nat /\ At(line, a, w)
  BY DEF Standing, Clean
<1>1. CASE w = Quoted(text)
  <2>1. At(line, a, Quoted(text)) /\ Follows(line, a + Len(Quoted(text)))
    BY <1>0, <1>1
  <2>2. Outside(line, a + Len(Quoted(text)), v, text)
    BY <1>0, <2>1, QuotedReads, Zenon
  <2>. QED BY <1>1, <2>2
<1>2. CASE w = text /\ \A i \in DOMAIN text : text[i] \notin {Quote, Comma}
  <2>1. At(line, a, text)
    BY <1>0, <1>2
  <2>2. \A i \in DOMAIN text : text[i] \notin {Quote, Comma}
    BY <1>2
  <2>3. Outside(line, a + Len(text), v, text)
    BY <1>0, <2>1, <2>2, PlainReads
  <2>. QED BY <1>2, <2>3
<1>. QED BY <1>1, <1>2 DEF Written, Standing

\* A comma ends a value, the end of the line the last one.
LEMMA WrittenThenComma ==
    ASSUME NEW C, NEW line, NEW text, NEW w, NEW a, Standing(C, line, text, w, a),
           a + Len(w) + 1 <= Len(line), line[a + Len(w) + 1] = Comma,
           NEW v, Outside(line, a, v, <<>>)
    PROVE  Outside(line, a + Len(w) + 1, Append(v, text), <<>>)
<1>1. PICK e \in Nat : e = a + Len(w)
  BY StandingLength
<1>2. Follows(line, e)
  BY <1>1 DEF Follows
<1>3. Outside(line, e, v, text)
  BY <1>1, <1>2, WrittenReads
<1>4. line \in Seq(C) /\ Clean(C, text)
  BY DEF Standing
<1>5. PICK i \in 1..Len(line) : i = e + 1
  BY <1>1, <1>4
<1>6. Outside(line, i - 1, v, text) /\ line[i] = Comma
  BY <1>1, <1>3, <1>5
<1>7. Outside(line, i, Append(v, Trim(text)), <<>>)
  BY <1>4, <1>6, ReadComma
<1>8. Trim(text) = text
  BY <1>4, TrimSolid DEF Clean
<1>. QED BY <1>1, <1>5, <1>7, <1>8

LEMMA WrittenThenEnd ==
    ASSUME NEW C, NEW line, NEW text, NEW w, NEW a, Standing(C, line, text, w, a), a + Len(w) = Len(line),
           NEW v, Outside(line, a, v, <<>>)
    PROVE  ParseCsvLine(line) = Append(v, text)
<1>1. Follows(line, a + Len(w))
  BY DEF Follows
<1>2. Outside(line, a + Len(w), v, text)
  BY <1>1, WrittenReads
<1>3. line \in Seq(C) /\ Clean(C, text)
  BY DEF Standing
<1>4. Outside(line, Len(line), v, text)
  BY <1>2
<1>5. ParseCsvLine(line) = Append(v, Trim(text))
  BY <1>3, <1>4, ReadSteps
<1>6. Trim(text) = text
  BY <1>3, TrimSolid DEF Clean
<1>. QED BY <1>5, <1>6

\* Where the values of a line stand.
LEMMA TwoPieces ==
    ASSUME NEW C, Alphabet(C), NEW p \in Seq(C), NEW w \in Seq(C)
    PROVE  LET line == p \o (<<Comma>> \o w) IN
           /\ line \in Seq(C) /\ Len(line) = Len(p) + 1 + Len(w)
           /\ At(line, 0, p) /\ line[Len(p) + 1] = Comma /\ At(line, Len(p) + 1, w)
<1>. DEFINE tail == <<Comma>> \o w
            line == p \o tail
<1>1. Comma \in C
  BY DEF Alphabet
<1>2. /\ tail \in Seq(C) /\ Len(tail) = Len(w) + 1 /\ tail[1] = Comma
      /\ \A i \in 1..Len(w) : tail[i + 1] = w[i]
  BY <1>1
<1>3. PICK t \in Seq(C) : t = tail
  BY <1>2
<1>4. /\ p \o t \in Seq(C) /\ Len(p \o t) = Len(p) + Len(t)
      /\ \A i \in 1..Len(p) : (p \o t)[i] = p[i]
      /\ \A i \in 1..Len(t) : (p \o t)[Len(p) + i] = t[i]
  OBVIOUS
<1>5. PICK l \in Seq(C) : l = p \o t
  BY <1>4
<1>6. At(l, 0, p) /\ l[Len(p) + 1] = Comma
  BY <1>2, <1>3, <1>4, <1>5 DEF At
<1>7. ASSUME NEW i \in 1..Len(w) PROVE l[Len(p) + 1 + i] = w[i]
  <2>1. PICK j \in 1..Len(t) : j = i + 1
    BY <1>2, <1>3
  <2>2. l[Len(p) + j] = t[j]
    BY <1>4, <1>5
  <2>3. Len(p) + j = Len(p) + 1 + i
    BY <2>1
  <2>. QED BY <1>2, <1>3, <2>1, <2>2, <2>3
<1>8. At(l, Len(p) + 1, w)
  BY <1>2, <1>3, <1>4, <1>5, <1>7 DEF At
<1>. QED BY <1>2, <1>3, <1>4, <1>5, <1>6, <1>8

\* Values that are joined by a comma make a line without blanks at its ends.
Join(p, w) == p \o (<<Comma>> \o w)

LEMMA JoinClean ==
    ASSUME NEW C, Alphabet(C), NEW p, NEW w, Clean(C, p), Clean(C, w)
    PROVE  Clean(C, Join(p, w)) /\ Join(p, w) # <<>>
<1>1. p \in Seq(C) /\ w \in Seq(C)
  BY DEF Clean
<1>2. PICK l \in Seq(C) : l = Join(p, w)
  BY <1>1, TwoPieces DEF Join
<1>3. Len(l) = Len(p) + 1 + Len(w) /\ At(l, 0, p) /\ l[Len(p) + 1] = Comma /\ At(l, Len(p) + 1, w)
  BY <1>1, <1>2, TwoPieces DEF Join
<1>4. Comma # "LF" /\ Comma \notin Blank
  BY DEF Comma, Blank
<1>5. PICK n \in Nat, m \in Nat : n = Len(p) /\ m = Len(w) /\ Len(l) = n + 1 + m
  BY <1>1, <1>3
<1>6. \A k \in 1..n : l[k] = p[k]
  BY <1>3, <1>5 DEF At
<1>7. \A k \in 1..m : l[n + 1 + k] = w[k]
  BY <1>3, <1>5 DEF At
<1>8. ASSUME NEW k \in 1..n + 1 + m PROVE l[k] # "LF"
  <2>1. CASE k \in 1..n
    BY <1>1, <1>5, <1>6, <2>1 DEF Clean
  <2>2. CASE k = n + 1
    BY <1>3, <1>4, <1>5, <2>2
  <2>3. CASE k > n + 1
    <3>1. PICK j \in 1..m : k = n + 1 + j
      <4>1. k - (n + 1) \in 1..m
        BY <2>3
      <4>. QED BY <4>1
    <3>2. l[k] = w[j] /\ j \in DOMAIN w
      BY <1>1, <1>5, <1>7, <3>1
    <3>. QED BY <3>2 DEF Clean
  <2>. QED BY <2>1, <2>2, <2>3
<1>9. l[1] \notin Blank
  <2>1. CASE n = 0
    BY <1>3, <1>4, <1>5, <2>1
  <2>2. CASE n # 0
    <3>1. l[1] = p[1] /\ p # <<>>
      BY <1>5, <1>6, <2>2
    <3>. QED BY <3>1 DEF Clean, Solid
  <2>. QED BY <2>1, <2>2
<1>10. l[Len(l)] \notin Blank
  <2>1. CASE m = 0
    BY <1>3, <1>4, <1>5, <2>1
  <2>2. CASE m # 0
    <3>1. l[n + 1 + m] = w[m] /\ w # <<>>
      BY <1>5, <1>7, <2>2
    <3>. QED BY <1>5, <3>1 DEF Clean, Solid
  <2>. QED BY <2>1, <2>2
<1>11. l # <<>> /\ DOMAIN l = 1..n + 1 + m
  BY <1>5
<1>. QED BY <1>2, <1>8, <1>9, <1>10, <1>11 DEF Clean, Solid

\* What is in a part of a line is in the line.
LEMMA AtPart ==
    ASSUME NEW C, NEW line \in Seq(C), NEW part \in Seq(C), At(line, 0, part),
           NEW a \in Nat, NEW w \in Seq(C), At(part, a, w)
    PROVE  At(line, a, w)
  BY DEF At

\* The three ways a row is written, and what is read of each.
Shown(C, row) == Clean(C, row.phone) /\ Clean(C, row.wa) /\ Clean(C, row.consent)

LEMMA OneValue ==
    ASSUME NEW C, Alphabet(C), NEW t, Clean(C, t), NEW all \in BOOLEAN
    PROVE  ParseCsvLine(Written(t, all)) = Append(<<>>, t)
<1>1. PICK w : w = Written(t, all) /\ Clean(C, w)
  BY WrittenClean
<1>2. Standing(C, w, t, w, 0) /\ 0 + Len(w) = Len(w)
  BY <1>1 DEF Standing, Clean, At
<1>3. Outside(w, 0, <<>>, <<>>)
  BY <1>1, ReadSteps DEF Clean
<1>. QED BY <1>1, <1>2, <1>3, WrittenThenEnd

LEMMA TwoValues ==
    ASSUME NEW C, Alphabet(C), NEW t, NEW u, Clean(C, t), Clean(C, u), NEW all \in BOOLEAN
    PROVE  ParseCsvLine(Join(Written(t, all), Written(u, all))) = Append(Append(<<>>, t), u)
<1>1. PICK p : p = Written(t, all) /\ Clean(C, p)
  BY WrittenClean
<1>2. PICK w : w = Written(u, all) /\ Clean(C, w)
  BY WrittenClean
<1>3. p \in Seq(C) /\ w \in Seq(C)
  BY <1>1, <1>2 DEF Clean
<1>4. PICK l \in Seq(C) : l = Join(p, w)
  BY <1>3, TwoPieces DEF Join
<1>5. Len(l) = Len(p) + 1 + Len(w) /\ At(l, 0, p) /\ l[Len(p) + 1] = Comma /\ At(l, Len(p) + 1, w)
  BY <1>3, <1>4, TwoPieces DEF Join
<1>6. PICK n \in Nat : n = Len(p)
  BY <1>3
<1>7. Standing(C, l, t, p, 0)
  BY <1>1, <1>5 DEF Standing
<1>8. Standing(C, l, u, w, n + 1)
  BY <1>2, <1>5, <1>6 DEF Standing
<1>9. Outside(l, 0, <<>>, <<>>)
  BY ReadSteps
<1>10. 0 + Len(p) + 1 = n + 1 /\ n + 1 <= Len(l) /\ n + 1 + Len(w) = Len(l)
  BY <1>3, <1>5, <1>6
<1>11. Outside(l, n + 1, Append(<<>>, t), <<>>)
  BY <1>5, <1>6, <1>7, <1>9, <1>10, WrittenThenComma
<1>12. PICK v : v = Append(<<>>, t)
  OBVIOUS
<1>13. Outside(l, n + 1, v, <<>>) /\ n + 1 + Len(w) = Len(l)
  BY <1>10, <1>11, <1>12
<1>14. ParseCsvLine(l) = Append(v, u)
  BY <1>8, <1>13, WrittenThenEnd
<1>. QED BY <1>1, <1>2, <1>4, <1>12, <1>14
LEMMA ThreeValues ==
    ASSUME NEW C, Alphabet(C), NEW t, NEW u, NEW x, Clean(C, t), Clean(C, u), Clean(C, x), NEW all \in BOOLEAN
    PROVE  ParseCsvLine(Join(Join(Written(t, all), Written(u, all)), Written(x, all)))
              = Append(Append(Append(<<>>, t), u), x)
<1>1. PICK p : p = Written(t, all) /\ Clean(C, p)
  BY WrittenClean
<1>2. PICK w : w = Written(u, all) /\ Clean(C, w)
  BY WrittenClean
<1>3. PICK y : y = Written(x, all) /\ Clean(C, y)
  BY WrittenClean
<1>4. p \in Seq(C) /\ w \in Seq(C) /\ y \in Seq(C)
  BY <1>1, <1>2, <1>3 DEF Clean
<1>5. PICK l \in Seq(C) : l = Join(p, w)
  BY <1>4, TwoPieces DEF Join
<1>6. Len(l) = Len(p) + 1 + Len(w) /\ At(l, 0, p) /\ l[Len(p) + 1] = Comma /\ At(l, Len(p) + 1, w)
  BY <1>4, <1>5, TwoPieces DEF Join
<1>7. PICK L \in Seq(C) : L = Join(l, y)
  BY <1>4, TwoPieces DEF Join
<1>8. Len(L) = Len(l) + 1 + Len(y) /\ At(L, 0, l) /\ L[Len(l) + 1] = Comma /\ At(L, Len(l) + 1, y)
  BY <1>4, <1>7, TwoPieces DEF Join
<1>9. PICK n \in Nat, m \in Nat : n = Len(p) /\ m = Len(w) /\ Len(l) = n + 1 + m
  BY <1>4, <1>6
<1>10. At(L, 0, p) /\ At(L, n + 1, w) /\ L[n + 1] = Comma
  <2>1. \A i \in 1..n + 1 + m : L[i] = l[i]
    BY <1>8, <1>9 DEF At
  <2>2. At(L, 0, p) /\ At(L, n + 1, w)
    BY <1>4, <1>6, <1>8, <1>9, AtPart
  <2>3. L[n + 1] = l[n + 1]
    BY <1>9, <2>1
  <2>. QED BY <1>6, <1>9, <2>2, <2>3
<1>11. Standing(C, L, t, p, 0)
  BY <1>1, <1>10 DEF Standing
<1>12. Standing(C, L, u, w, n + 1)
  BY <1>2, <1>9, <1>10 DEF Standing
<1>13. PICK k \in Nat : k = n + m + 2
  OBVIOUS
<1>14. Standing(C, L, x, y, k)
  BY <1>3, <1>8, <1>9, <1>13 DEF Standing
<1>15. Outside(L, 0, <<>>, <<>>)
  BY ReadSteps
<1>16. 0 + Len(p) + 1 = n + 1 /\ n + 1 <= Len(L) /\ n + 1 + Len(w) + 1 = k /\ k <= Len(L) /\ k + Len(y) = Len(L)
  BY <1>4, <1>8, <1>9, <1>13
<1>17. L[k] = Comma
  BY <1>8, <1>9, <1>13
<1>18. Outside(L, n + 1, Append(<<>>, t), <<>>)
  BY <1>10, <1>11, <1>15, <1>16, WrittenThenComma
<1>19. PICK v : v = Append(<<>>, t)
  OBVIOUS
<1>20. Outside(L, k, Append(v, u), <<>>)
  BY <1>12, <1>16, <1>17, <1>18, <1>19, WrittenThenComma
<1>21. PICK z : z = Append(v, u)
  OBVIOUS
<1>22. ParseCsvLine(L) = Append(z, x)
  BY ZenonT(40), <1>14, <1>16, <1>20, <1>21, WrittenThenEnd
<1>. QED BY <1>1, <1>2, <1>3, <1>5, <1>7, <1>19, <1>21, <1>22

(***************************************************************************)
(* What a spreadsheet writes of a row is read back, however it is written; *)
(* and it has no line end and is no blank line.                            *)
(***************************************************************************)
THEOREM RowReads ==
    ASSUME NEW C, Alphabet(C), NEW row, Shown(C, row), row.phone # <<>>, NEW all \in BOOLEAN
    PROVE  /\ Value(ParseCsvLine(WrittenRow(row, all)), 1) = row.phone
           /\ Value(ParseCsvLine(WrittenRow(row, all)), 2) = row.wa
           /\ Value(ParseCsvLine(WrittenRow(row, all)), 3) = row.consent
           /\ ParseCsvLine(WrittenRow(row, all))[1] = row.phone
           /\ Clean(C, WrittenRow(row, all)) /\ WrittenRow(row, all) # <<>>
<1>. DEFINE p == Written(row.phone, all)
            w == Written(row.wa, all)
            x == Written(row.consent, all)
<1>1. PICK t, u, k : t = row.phone /\ u = row.wa /\ k = row.consent
  OBVIOUS
<1>2. Clean(C, t) /\ Clean(C, u) /\ Clean(C, k) /\ t # <<>> /\ t \in Seq(C) /\ u \in Seq(C) /\ k \in Seq(C)
  BY <1>1 DEF Shown, Clean
<1>3. Clean(C, p) /\ Clean(C, w) /\ Clean(C, x) /\ p # <<>>
  BY <1>1, <1>2, WrittenClean
<1>4. CASE all \/ k # <<>>
  <2>1. WrittenRow(row, all) = Join(Join(p, w), x)
    BY <1>1, <1>4 DEF WrittenRow, Join
  <2>2. ParseCsvLine(WrittenRow(row, all)) = Append(Append(Append(<<>>, t), u), k)
    BY <1>1, <1>2, <2>1, ThreeValues
  <2>3. Clean(C, Join(Join(p, w), x)) /\ Join(Join(p, w), x) # <<>>
    BY <1>3, JoinClean
  <2>4. PICK v : v = Append(Append(Append(<<>>, t), u), k)
    OBVIOUS
  <2>5. Len(v) = 3 /\ v[1] = t /\ v[2] = u /\ v[3] = k
    BY <1>2, <2>4
  <2>. QED BY <1>1, <2>1, <2>2, <2>3, <2>4, <2>5 DEF Value
<1>5. CASE ~all /\ k = <<>> /\ u # <<>>
  <2>1. WrittenRow(row, all) = Join(p, w)
    BY <1>1, <1>5 DEF WrittenRow, Join
  <2>2. ParseCsvLine(WrittenRow(row, all)) = Append(Append(<<>>, t), u)
    BY <1>1, <1>2, <2>1, TwoValues
  <2>3. Clean(C, Join(p, w)) /\ Join(p, w) # <<>>
    BY <1>3, JoinClean
  <2>4. PICK v : v = Append(Append(<<>>, t), u)
    OBVIOUS
  <2>5. Len(v) = 2 /\ v[1] = t /\ v[2] = u
    BY <1>2, <2>4
  <2>. QED BY <1>1, <1>5, <2>1, <2>2, <2>3, <2>4, <2>5 DEF Value
<1>6. CASE ~all /\ k = <<>> /\ u = <<>>
  <2>1. WrittenRow(row, all) = p
    BY <1>1, <1>6 DEF WrittenRow
  <2>2. ParseCsvLine(WrittenRow(row, all)) = Append(<<>>, t)
    BY <1>1, <1>2, <2>1, OneValue
  <2>4. PICK v : v = Append(<<>>, t)
    OBVIOUS
  <2>5. Len(v) = 1 /\ v[1] = t
    BY <1>2, <2>4
  <2>. QED BY <1>1, <1>3, <1>6, <2>1, <2>2, <2>4, <2>5 DEF Value
<1>. QED BY <1>4, <1>5, <1>6

-----------------------------------------------------------------------------
\* The lines the split has after i characters of a file.
Cut(content, i) == After([op |-> "split", arg |-> 0], <<<<>>>>, content, i)

LEMMA CutSteps ==
    ASSUME NEW C, NEW content \in Seq(C)
    PROVE  /\ Split(content) = Cut(content, Len(content)) /\ Cut(content, 0) = <<<<>>>>
           /\ \A i \in 1..Len(content) : Cut(content, i) = SplitChar(Cut(content, i - 1), content[i])
<1>1. Len(content) \in Nat /\ DOMAIN content = 1..Len(content)
  OBVIOUS
<1>2. Split(content) = Cut(content, Len(content))
  BY <1>1, TheFolds DEF FoldLeftIs, Cut
<1>3. Cut(content, 0) = <<<<>>>>
  BY <1>1, FoldBase DEF Cut
<1>4. \A i \in 1..Len(content) :
        Cut(content, i) = FoldStep([op |-> "split", arg |-> 0], Cut(content, i - 1), content[i])
  BY <1>1, FoldNext DEF Cut
<1>5. \A st, x : FoldStep([op |-> "split", arg |-> 0], st, x) = SplitChar(st, x)
  BY DEF FoldStep
<1>. QED BY <1>2, <1>3, <1>4, <1>5

LEMMA SameSeq ==
    ASSUME NEW L, NEW s \in Seq(L), NEW t \in Seq(L), Len(s) = Len(t), \A k \in 1..Len(s) : s[k] = t[k]
    PROVE  s = t
<1>1. s = [k \in 1..Len(s) |-> s[k]] /\ t = [k \in 1..Len(t) |-> t[k]]
  OBVIOUS
<1>. QED BY <1>1

LEMMA SplitCharSteps ==
    ASSUME NEW L, NEW full \in Seq(L), NEW x \in L, NEW c, Append(x, c) \in L
    PROVE  /\ c # "LF" => SplitChar(Append(full, x), c) = Append(full, Append(x, c))
           /\ c = "LF" => SplitChar(Append(full, x), c) = Append(Append(full, x), <<>>)
<1>1. ASSUME c # "LF" PROVE SplitChar(Append(full, x), c) = Append(full, Append(x, c))
  <2>0. Append(full, x) \in Seq(L)
    OBVIOUS
  <2>1. PICK s \in Seq(L) : s = Append(full, x)
    BY <2>0
  <2>2. PICK y \in L : y = Append(x, c)
    OBVIOUS
  <2>3. PICK n \in Nat : n = Len(full) /\ Len(s) = n + 1 /\ s[n + 1] = x
    BY <2>1
  <2>4. SplitChar(s, c) = [s EXCEPT ![n + 1] = y]
    BY <1>1, <2>2, <2>3 DEF SplitChar
  <2>5. [s EXCEPT ![n + 1] = y] \in Seq(L) /\ Len([s EXCEPT ![n + 1] = y]) = n + 1
    BY <2>3
  <2>6. Append(full, y) \in Seq(L) /\ Len(Append(full, y)) = n + 1
    BY <2>3
  <2>7. \A k \in 1..n + 1 : [s EXCEPT ![n + 1] = y][k] = Append(full, y)[k]
    <3>1. \A k \in 1..n : s[k] = full[k]
      BY <2>1, <2>3
    <3>. QED BY <2>3, <3>1
  <2>8. [s EXCEPT ![n + 1] = y] = Append(full, y)
    <3>1. PICK u \in Seq(L) : u = [s EXCEPT ![n + 1] = y]
      BY <2>5
    <3>2. PICK w \in Seq(L) : w = Append(full, y)
      BY <2>6
    <3>3. Len(u) = n + 1 /\ Len(w) = n + 1 /\ \A k \in 1..n + 1 : u[k] = w[k]
      BY <2>5, <2>6, <2>7, <3>1, <3>2
    <3>4. u = w
      BY <3>3, SameSeq
    <3>. QED BY <3>1, <3>2, <3>4
  <2>. QED BY <2>1, <2>2, <2>4, <2>8
<1>2. c = "LF" => SplitChar(Append(full, x), c) = Append(Append(full, x), <<>>)
  BY DEF SplitChar
<1>. QED BY <1>1, <1>2

\* A line of the file is a line of the split.
Cuts(content, i, full, x) == Cut(content, i) = Append(full, x)

LEMMA LineCut ==
    ASSUME NEW C, NEW content \in Seq(C), NEW a \in Nat, NEW r \in Seq(C), At(content, a, r),
           a + Len(r) + 1 <= Len(content), content[a + Len(r) + 1] = "LF",
           \A k \in DOMAIN r : r[k] # "LF",
           NEW full \in Seq(Seq(C)), Cuts(content, a, full, <<>>)
    PROVE  Cuts(content, a + Len(r) + 1, Append(full, r), <<>>)
<1>1. PICK n \in Nat : n = Len(r) /\ DOMAIN r = 1..n
  OBVIOUS
<1>. DEFINE Good(j) == Cuts(content, a + j, full, Upto(r, j))
            P == {j \in 0..n : Good(j)}
<1>2. 0 \in P
  <2>1. Upto(r, 0) = <<>> /\ a + 0 = a
    BY UptoSteps
  <2>2. Good(0)
    BY <2>1
  <2>. HIDE DEF Good
  <2>. QED BY <2>2
<1>3. ASSUME NEW j \in 1..n, j - 1 \in P PROVE j \in P
  <2>1. PICK i \in 1..Len(content) : i = a + j
    BY <1>1 DEF At
  <2>2. content[i] = r[j] /\ content[i] # "LF"
    BY <1>1, <2>1 DEF At
  <2>3. Cuts(content, i - 1, full, Upto(r, j - 1))
    <3>1. i - 1 = a + (j - 1)
      BY <2>1
    <3>. QED BY <1>3, <3>1
  <2>4. PICK x \in Seq(C) : x = Upto(r, j - 1)
    BY <1>1, UptoSteps
  <2>5. PICK c \in C : c = r[j]
    BY <1>1
  <2>6. Append(x, c) \in Seq(C)
    OBVIOUS
  <2>7. Cut(content, i) = SplitChar(Append(full, x), c)
    BY <2>2, <2>3, <2>4, <2>5, CutSteps DEF Cuts
  <2>8. SplitChar(Append(full, x), c) = Append(full, Append(x, c))
    <3>1. PICK L : L = Seq(C)
      OBVIOUS
    <3>2. full \in Seq(L) /\ x \in L /\ Append(x, c) \in L /\ c # "LF"
      BY <2>2, <2>5, <2>6, <3>1
    <3>. QED BY <3>2, SplitCharSteps
  <2>9. Upto(r, j) = Append(x, c)
    BY <1>1, <2>4, <2>5, UptoSteps
  <2>10. Good(j)
    BY <2>1, <2>7, <2>8, <2>9 DEF Cuts
  <2>. HIDE DEF Good
  <2>. QED BY <2>10
<1>4. Good(n)
  <2>1. \A j \in 0..n : j \in P
    <3>. HIDE DEF P
    <3>. QED BY <1>2, <1>3, CountUp
  <2>. HIDE DEF Good
  <2>. QED BY <2>1
<1>5. PICK i \in 1..Len(content) : i = a + n + 1 /\ i - 1 = a + n
  BY <1>1
<1>6. Cut(content, i - 1) = Append(full, r)
  BY <1>1, <1>4, <1>5, UptoSteps DEF Cuts
<1>7. Cut(content, i) = SplitChar(Append(full, r), "LF")
  BY <1>1, <1>5, <1>6, CutSteps
<1>8. SplitChar(Append(full, r), "LF") = Append(Append(full, r), <<>>)
  BY DEF SplitChar
<1>. QED BY <1>1, <1>5, <1>7, <1>8 DEF Cuts

\* What is written after j lines: each with its line end, of which the split
\* takes the LF and leaves the CR.
LineEnd(quoted) == IF quoted THEN <<"CR", "LF">> ELSE <<"LF">>
Raw(line, quoted) == IF quoted THEN Append(line, "CR") ELSE line
Text(ls, quoted, j) == After([op |-> "write", arg |-> LineEnd(quoted)], <<>>, ls, j)

LEMMA TextSteps ==
    ASSUME NEW C, Alphabet(C), NEW ls \in Seq(Seq(C)), NEW quoted \in BOOLEAN
    PROVE  /\ Text(ls, quoted, 0) = <<>>
           /\ \A j \in 1..Len(ls) :
                 /\ Text(ls, quoted, j) = (Text(ls, quoted, j - 1) \o ls[j]) \o LineEnd(quoted)
<1>1. Len(ls) \in Nat /\ DOMAIN ls = 1..Len(ls)
  OBVIOUS
<1>2. PICK op : op = [op |-> "write", arg |-> LineEnd(quoted)]
  OBVIOUS
<1>3. After(op, <<>>, ls, 0) = <<>>
  BY <1>1, FoldBase
<1>4. \A j \in 1..Len(ls) : After(op, <<>>, ls, j) = FoldStep(op, After(op, <<>>, ls, j - 1), ls[j])
  BY <1>1, FoldNext
<1>5. \A st, x : FoldStep(op, st, x) = (st \o x) \o LineEnd(quoted)
  BY <1>2 DEF FoldStep, WriteLine
<1>. QED BY <1>2, <1>3, <1>4, <1>5 DEF Text

LEMMA TextGrows ==
    ASSUME NEW C, Alphabet(C), NEW ls \in Seq(Seq(C)), NEW quoted \in BOOLEAN
    PROVE  \A j \in 0..Len(ls) : /\ Text(ls, quoted, j) \in Seq(C)
                                 /\ At(Text(ls, quoted, Len(ls)), 0, Text(ls, quoted, j))
<1>1. PICK n \in Nat : n = Len(ls)
  OBVIOUS
<1>2. LineEnd(quoted) \in Seq(C)
  BY DEF Alphabet, LineEnd
<1>. DEFINE e == [m \in 0..n |-> Text(ls, quoted, m)]
            P == {m \in 0..n : Text(ls, quoted, m) \in Seq(C)}
<1>3. \A m \in 0..n : m \in P
  <2>1. 0 \in P
    <3>1. Text(ls, quoted, 0) = <<>>
      BY TextSteps
    <3>2. <<>> \in Seq(C)
      OBVIOUS
    <3>3. Text(ls, quoted, 0) \in Seq(C)
      BY <3>1, <3>2
    <3>. QED BY <3>3
  <2>2. ASSUME NEW m \in 1..n, m - 1 \in P PROVE m \in P
    <3>1. PICK t \in Seq(C) : t = Text(ls, quoted, m - 1)
      BY <2>2
    <3>2. PICK l \in Seq(C) : l = ls[m]
      BY <1>1
    <3>3. Text(ls, quoted, m) = (t \o l) \o LineEnd(quoted)
      BY <1>1, <3>1, <3>2, TextSteps
    <3>4. (t \o l) \o LineEnd(quoted) \in Seq(C)
      BY <1>2
    <3>5. Text(ls, quoted, m) \in Seq(C)
      BY <3>3, <3>4
    <3>. QED BY <3>5
  <2>. HIDE DEF P
  <2>. QED BY <2>1, <2>2, CountUp
<1>4. e \in [0..n -> Seq(C)]
  BY <1>3
<1>5. \A m \in 1..n : Longer(C, e[m - 1], e[m])
  <2>1. ASSUME NEW m \in 1..n PROVE Longer(C, Text(ls, quoted, m - 1), Text(ls, quoted, m))
    <3>0. m - 1 \in 0..n
      OBVIOUS
    <3>1. PICK t \in Seq(C) : t = Text(ls, quoted, m - 1)
      BY <1>3, <3>0
    <3>2. PICK l \in Seq(C) : l = ls[m]
      BY <1>1
    <3>3. PICK y \in Seq(C) : y = LineEnd(quoted)
      BY <1>2
    <3>4. Text(ls, quoted, m) = (t \o l) \o y
      BY <1>1, <3>1, <3>2, <3>3, TextSteps
    <3>5. (t \o l) \o y = t \o (l \o y) /\ l \o y \in Seq(C)
      OBVIOUS
    <3>. QED BY <3>1, <3>4, <3>5 DEF Longer
  <2>2. ASSUME NEW m \in 1..n PROVE m \in 0..n /\ m - 1 \in 0..n
    OBVIOUS
  <2>. QED BY <2>1, <2>2
<1>6. \A m \in 0..n : /\ Len(e[m]) <= Len(e[n])
                      /\ \A i \in 1..Len(e[m]) : e[n][i] = e[m][i]
  <2>. HIDE DEF e
  <2>. QED BY ZenonT(40), <1>4, <1>5, Growing
<1>7. ASSUME NEW j \in 0..n PROVE At(Text(ls, quoted, n), 0, Text(ls, quoted, j))
  <2>1. PICK t \in Seq(C) : t = Text(ls, quoted, j)
    BY <1>3
  <2>2. PICK l \in Seq(C) : l = Text(ls, quoted, n)
    BY <1>3
  <2>3. Len(t) <= Len(l) /\ \A i \in 1..Len(t) : l[i] = t[i]
    BY <1>6, <2>1, <2>2
  <2>4. At(l, 0, t)
    BY <2>3 DEF At
  <2>. QED BY <2>1, <2>2, <2>4
<1>. QED BY <1>1, <1>3, <1>7

\* Lines that can be written: none is blank, none has a line end.
Writable(C, ls) == ls \in Seq(Seq(C)) /\ \A k \in DOMAIN ls : Clean(C, ls[k]) /\ ls[k] # <<>>

\* The split of the file is those lines, with their CR, and what follows the last LF.
LEMMA TextCut ==
    ASSUME NEW C, Alphabet(C), NEW ls, Writable(C, ls), NEW quoted \in BOOLEAN,
           NEW raws, raws = [k \in DOMAIN ls |-> Raw(ls[k], quoted)],
           NEW content, content = Text(ls, quoted, Len(ls))
    PROVE  raws \in Seq(Seq(C)) /\ Len(raws) = Len(ls) /\ Split(content) = Append(raws, <<>>)
<1>0. ls \in Seq(Seq(C))
  BY DEF Writable
<1>1. PICK n \in Nat : n = Len(ls) /\ DOMAIN ls = 1..n
  BY <1>0
<1>2. "CR" \in C /\ "LF" \in C /\ "CR" # "LF"
  BY DEF Alphabet
<1>3. ASSUME NEW k \in 1..n
      PROVE  Raw(ls[k], quoted) \in Seq(C) /\ \A i \in DOMAIN Raw(ls[k], quoted) : Raw(ls[k], quoted)[i] # "LF"
  <2>1. PICK l \in Seq(C) : l = ls[k] /\ Clean(C, l)
    BY <1>0, <1>1 DEF Writable
  <2>2. Append(l, "CR") \in Seq(C) /\ \A i \in DOMAIN Append(l, "CR") : Append(l, "CR")[i] # "LF"
    BY <1>2, <2>1 DEF Clean
  <2>. QED BY <2>1, <2>2 DEF Raw, Clean
<1>4. raws \in Seq(Seq(C)) /\ Len(raws) = n
  BY <1>1, <1>3
<1>5. content \in Seq(C)
  BY <1>0, <1>1, TextGrows
<1>. DEFINE Good(j) == Cuts(content, Len(Text(ls, quoted, j)), Upto(raws, j), <<>>)
            P == {j \in 0..n : Good(j)}
<1>6. 0 \in P
  <2>1. Len(Text(ls, quoted, 0)) = 0 /\ Upto(raws, 0) = <<>>
    <3>1. Text(ls, quoted, 0) = <<>>
      BY <1>0, TextSteps
    <3>2. Upto(raws, 0) = <<>>
      BY <1>4, UptoSteps
    <3>. QED BY <3>1, <3>2
  <2>2. Cut(content, 0) = Append(<<>>, <<>>)
    BY <1>5, CutSteps
  <2>3. Good(0)
    BY <2>1, <2>2 DEF Cuts
  <2>. HIDE DEF Good
  <2>. QED BY <2>3
<1>7. ASSUME NEW j \in 1..n, j - 1 \in P PROVE j \in P
  <2>0. j - 1 \in 0..n /\ j \in 0..n
    OBVIOUS
  <2>1. PICK t \in Seq(C) : t = Text(ls, quoted, j - 1)
    BY <1>0, <1>1, <2>0, TextGrows
  <2>2. PICK r \in Seq(C) : r = Raw(ls[j], quoted)
    BY <1>3
  <2>3. PICK s \in Seq(C) : s = Text(ls, quoted, j)
    BY <1>0, <1>1, <2>0, TextGrows
  <2>4. s = Append(t \o r, "LF")
    <3>1. PICK l \in Seq(C) : l = ls[j]
      BY <1>0, <1>1
    <3>2. s = (t \o l) \o LineEnd(quoted)
      BY <1>0, <1>1, <2>1, <2>3, <3>1, TextSteps
    <3>3. CASE quoted
      <4>1. r = Append(l, "CR") /\ LineEnd(quoted) = <<"CR", "LF">>
        BY <2>2, <3>1, <3>3 DEF Raw, LineEnd
      <4>2. (t \o l) \o <<"CR", "LF">> = Append(t \o Append(l, "CR"), "LF")
        BY SMTT(30), <1>2
      <4>. QED BY <3>2, <4>1, <4>2
    <3>4. CASE ~quoted
      <4>1. r = l /\ LineEnd(quoted) = <<"LF">>
        BY <2>2, <3>1, <3>4 DEF Raw, LineEnd
      <4>2. (t \o l) \o <<"LF">> = Append(t \o l, "LF")
        BY <1>2
      <4>. QED BY <3>2, <4>1, <4>2
    <3>. QED BY <3>3, <3>4
  <2>5. PICK a \in Nat, b \in Nat : a = Len(t) /\ b = Len(r)
    OBVIOUS
  <2>6. /\ Len(s) = a + b + 1 /\ s[a + b + 1] = "LF"
        /\ \A i \in 1..b : s[a + i] = r[i]
    BY <1>2, <2>4, <2>5
  <2>7. At(content, 0, s)
    BY <1>0, <1>1, <2>0, <2>3, TextGrows
  <2>8. At(content, a, r) /\ a + b + 1 <= Len(content) /\ content[a + b + 1] = "LF"
    BY <2>5, <2>6, <2>7 DEF At
  <2>9. Cuts(content, a, Upto(raws, j - 1), <<>>)
    BY <1>7, <2>1, <2>5
  <2>10. PICK full \in Seq(Seq(C)) : full = Upto(raws, j - 1)
    BY <1>4, <2>0, UptoSteps
  <2>11. \A k \in DOMAIN r : r[k] # "LF"
    BY <1>3, <2>2
  <2>12. Cuts(content, a + Len(r) + 1, Append(full, r), <<>>)
    BY <1>5, <2>5, <2>8, <2>9, <2>10, <2>11, LineCut
  <2>13. Upto(raws, j) = Append(full, r)
    <3>1. raws[j] = r
      BY <1>1, <2>2
    <3>2. j \in 1..Len(raws)
      BY <1>4
    <3>3. Upto(raws, j) = Append(Upto(raws, j - 1), raws[j])
      BY <1>4, <3>2, UptoSteps
    <3>. QED BY <2>10, <3>1, <3>3
  <2>14. Good(j)
    BY <2>3, <2>5, <2>6, <2>12, <2>13
  <2>. HIDE DEF Good
  <2>. QED BY <2>14
<1>8. Good(n)
  <2>1. \A j \in 0..n : j \in P
    <3>. HIDE DEF P
    <3>. QED BY <1>6, <1>7, CountUp
  <2>. HIDE DEF Good
  <2>. QED BY <2>1
<1>9. Upto(raws, n) = raws
  BY <1>4, UptoSteps
<1>. QED BY <1>1, <1>4, <1>5, <1>8, <1>9, CutSteps DEF Cuts

\* Of the lines of the split those that are not blank are the lines written.
LEMMA LinesOfText ==
    ASSUME NEW C, Alphabet(C), NEW ls, Writable(C, ls), NEW quoted \in BOOLEAN,
           NEW content, content = Text(ls, quoted, Len(ls))
    PROVE  Lines(content) = ls
<1>0. ls \in Seq(Seq(C))
  BY DEF Writable
<1>1. PICK n \in Nat : n = Len(ls) /\ DOMAIN ls = 1..n
  BY <1>0
<1>2. PICK raws : raws = [k \in DOMAIN ls |-> Raw(ls[k], quoted)]
  OBVIOUS
<1>3. raws \in Seq(Seq(C)) /\ Len(raws) = n /\ Split(content) = Append(raws, <<>>)
  BY <1>1, <1>2, TextCut
<1>4. PICK s \in Seq(Seq(C)) : s = Split(content)
  <2>1. <<>> \in Seq(C)
    OBVIOUS
  <2>2. Append(raws, <<>>) \in Seq(Seq(C))
    BY <1>3, <2>1
  <2>. QED BY <1>3, <2>2
<1>5. /\ Len(s) = n + 1 /\ DOMAIN s = 1..n + 1 /\ s[n + 1] = <<>>
      /\ \A k \in 1..n : s[k] = Raw(ls[k], quoted)
  <2>1. \A k \in 1..n : Append(raws, <<>>)[k] = raws[k]
    BY <1>3
  <2>2. Len(s) = n + 1 /\ DOMAIN s = 1..n + 1 /\ s[n + 1] = <<>>
    BY <1>3, <1>4
  <2>. QED BY <1>1, <1>2, <1>3, <1>4, <2>1, <2>2
<1>6. PICK op : op = [op |-> "lines", arg |-> 0]
  OBVIOUS
<1>7. \A st, x : FoldStep(op, st, x) = NotBlank(st, x)
  BY <1>6 DEF FoldStep
<1>8. Lines(content) = After(op, <<>>, s, n + 1)
  BY <1>4, <1>5, <1>6, LinesFold DEF FoldLeftIs
<1>9. After(op, <<>>, s, 0) = <<>>
  BY <1>1, <1>5, FoldBase
<1>10. \A k \in 1..n + 1 : After(op, <<>>, s, k) = FoldStep(op, After(op, <<>>, s, k - 1), s[k])
  <2>1. PICK m \in Nat : m = n + 1
    OBVIOUS
  <2>2. DOMAIN s = 1..m
    BY <1>5, <2>1
  <2>3. \A k \in 1..m : After(op, <<>>, s, k) = FoldStep(op, After(op, <<>>, s, k - 1), s[k])
    BY <2>2, FoldNext
  <2>. QED BY <2>1, <2>3
<1>. DEFINE Good(k) == After(op, <<>>, s, k) = Upto(ls, k)
            P == {k \in 0..n : Good(k)}
<1>11. 0 \in P
  <2>1. Upto(ls, 0) = <<>>
    BY <1>0, UptoSteps
  <2>2. Good(0)
    BY <1>9, <2>1
  <2>. HIDE DEF Good
  <2>. QED BY <2>2
<1>12. ASSUME NEW k \in 1..n, k - 1 \in P PROVE k \in P
  <2>1. PICK l \in Seq(C) : l = ls[k] /\ Clean(C, l) /\ l # <<>>
    <3>1. ls[k] \in Seq(C)
      BY <1>0, <1>1
    <3>2. Clean(C, ls[k]) /\ ls[k] # <<>>
      BY <1>1 DEF Writable
    <3>. QED BY <3>1, <3>2
  <2>2. Trim(s[k]) = l
    BY <1>5, <2>1, TrimSolid DEF Raw, Clean
  <2>3. After(op, <<>>, s, k) = NotBlank(Upto(ls, k - 1), s[k])
    BY <1>7, <1>10, <1>12
  <2>4. NotBlank(Upto(ls, k - 1), s[k]) = Append(Upto(ls, k - 1), l)
    BY <2>1, <2>2 DEF NotBlank
  <2>5. Upto(ls, k) = Append(Upto(ls, k - 1), l)
    BY <1>0, <1>1, <2>1, UptoSteps
  <2>6. Good(k)
    BY <2>3, <2>4, <2>5
  <2>. HIDE DEF Good
  <2>. QED BY <2>6
<1>13. Good(n)
  <2>1. \A k \in 0..n : k \in P
    <3>. HIDE DEF P
    <3>. QED BY <1>11, <1>12, CountUp
  <2>. HIDE DEF Good
  <2>. QED BY <2>1
<1>14. Upto(ls, n) = ls
  BY <1>0, <1>1, UptoSteps
<1>15. After(op, <<>>, s, n + 1) = NotBlank(ls, <<>>)
  <2>1. PICK k \in 1..n + 1 : k = n + 1 /\ k - 1 = n
    OBVIOUS
  <2>2. After(op, <<>>, s, k) = NotBlank(After(op, <<>>, s, n), s[k])
    BY <1>7, <1>10, <2>1
  <2>. QED BY <1>5, <1>13, <1>14, <2>1, <2>2
<1>16. Trim(<<>>) = <<>>
  BY DEF Trim
<1>. QED BY <1>8, <1>15, <1>16 DEF NotBlank

-----------------------------------------------------------------------------
\* The characters that occur.
Chars == STRING \cup {Quote, Comma, "CR", "LF", "phone", "w", "c"}

LEMMA SeqOfMore ==
    ASSUME NEW S, NEW D, \A x \in S : x \in D, NEW s \in Seq(S)
    PROVE  s \in Seq(D)
  OBVIOUS

LEMMA CharsSuffice ==
    /\ Alphabet(Chars)
    /\ \A text : Cell(text) => Clean(Chars, text)
    /\ Shown(Chars, Header) /\ Header.phone = <<"phone">>
<1>1. Alphabet(Chars)
  BY DEF Alphabet, Chars
<1>2. ASSUME NEW text, Cell(text) PROVE Clean(Chars, text)
  <2>1. text \in Seq(STRING)
    BY <1>2 DEF Cell
  <2>2. text \in Seq(Chars)
    <3>1. PICK S, D : S = STRING /\ D = Chars
      OBVIOUS
    <3>2. \A x \in S : x \in D
      BY <3>1 DEF Chars
    <3>. QED BY <2>1, <3>1, <3>2, SeqOfMore
  <2>. QED BY <1>2, <2>2 DEF Cell, Clean, Solid
<1>3. \A c \in {"phone", "w", "c"} : c \in Chars /\ c # "LF" /\ c \notin Blank
  BY DEF Chars, Blank
<1>4. ASSUME NEW c \in {"phone", "w", "c"} PROVE Clean(Chars, <<c>>)
  <2>1. c \in Chars /\ c # "LF" /\ c \notin Blank
    BY <1>3
  <2>2. PICK D : D = Chars
    OBVIOUS
  <2>3. <<c>> \in Seq(D) /\ Len(<<c>>) = 1 /\ <<c>>[1] = c /\ DOMAIN <<c>> = {1}
    BY <2>1, <2>2
  <2>. QED BY <2>1, <2>2, <2>3 DEF Clean, Solid
<1>. QED BY <1>1, <1>2, <1>4 DEF Shown, Header

LEMMA FilesRows ==
    ASSUME NEW file \in Files
    PROVE  /\ file.rows \in Seq(Rows) /\ Len(file.rows) <= MaxRows
           /\ file.header \in BOOLEAN /\ file.quoted \in BOOLEAN
  BY DEF Files, BoundedSeq, SeqOf

\* The lines of a file can be written, and are the header and the rows.
HeaderLines(file) == IF file.header THEN 1 ELSE 0

LEMMA FileLines ==
    ASSUME NEW file \in Files
    PROVE  /\ Writable(Chars, LinesOf(file))
           /\ Len(LinesOf(file)) = HeaderLines(file) + Len(file.rows)
           /\ file.header => LinesOf(file)[1] = WrittenRow(Header, FALSE)
           /\ \A k \in DOMAIN file.rows : LinesOf(file)[HeaderLines(file) + k] = WrittenRow(file.rows[k], file.quoted)
<1>1. PICK n \in Nat : n = Len(file.rows) /\ DOMAIN file.rows = 1..n
  BY FilesRows
<1>2. PICK r : r = [i \in DOMAIN file.rows |-> WrittenRow(file.rows[i], file.quoted)]
  OBVIOUS
<1>3. PICK D : D = Seq(Chars)
  OBVIOUS
<1>4. ASSUME NEW k \in 1..n
      PROVE  /\ WrittenRow(file.rows[k], file.quoted) \in D
             /\ Clean(Chars, WrittenRow(file.rows[k], file.quoted))
             /\ WrittenRow(file.rows[k], file.quoted) # <<>>
  <2>1. file.rows[k] \in Rows /\ file.quoted \in BOOLEAN
    BY <1>1, FilesRows
  <2>2. Shown(Chars, file.rows[k]) /\ file.rows[k].phone # <<>>
    BY <2>1, RowsAssumption, CharsSuffice DEF Shown
  <2>3. Clean(Chars, WrittenRow(file.rows[k], file.quoted)) /\ WrittenRow(file.rows[k], file.quoted) # <<>>
    BY <2>1, <2>2, CharsSuffice, RowReads
  <2>. QED BY <1>3, <2>3 DEF Clean
<1>5. PICK h : h = WrittenRow(Header, FALSE)
  OBVIOUS
<1>6. h \in D /\ Clean(Chars, h) /\ h # <<>>
  <2>1. Clean(Chars, h) /\ h # <<>>
    <3>1. PICK row : row = Header /\ row.phone = <<"phone">> /\ Shown(Chars, row)
      BY CharsSuffice
    <3>2. row.phone # <<>> /\ FALSE \in BOOLEAN
      BY <3>1
    <3>3. Clean(Chars, WrittenRow(row, FALSE)) /\ WrittenRow(row, FALSE) # <<>>
      BY <3>1, <3>2, CharsSuffice, RowReads
    <3>. QED BY <1>5, <3>1, <3>3
  <2>. QED BY <1>3, <2>1 DEF Clean
<1>7. r \in Seq(D) /\ Len(r) = n /\ \A k \in 1..n : r[k] = WrittenRow(file.rows[k], file.quoted)
  BY <1>1, <1>2, <1>4
<1>8. CASE file.header
  <2>1. LinesOf(file) = <<h>> \o r
    BY <1>2, <1>5, <1>8 DEF LinesOf
  <2>2. /\ <<h>> \o r \in Seq(D) /\ Len(<<h>> \o r) = 1 + n /\ (<<h>> \o r)[1] = h
        /\ \A k \in 1..n : (<<h>> \o r)[1 + k] = r[k]
    BY <1>6, <1>7
  <2>3. PICK l \in Seq(D) : l = <<h>> \o r
    BY <2>2
  <2>4. DOMAIN l = 1..1 + n /\ l[1] = h /\ \A k \in 1..n : l[1 + k] = r[k]
    BY <2>2, <2>3
  <2>5. \A k \in 1..1 + n : Clean(Chars, l[k]) /\ l[k] # <<>>
    <3>1. ASSUME NEW k \in 1..1 + n, k # 1 PROVE Clean(Chars, l[k]) /\ l[k] # <<>>
      <4>1. PICK j \in 1..n : k = 1 + j
        <5>1. k - 1 \in 1..n
          BY <3>1
        <5>. QED BY <5>1
      <4>2. l[k] = r[j]
        BY <2>4, <4>1
      <4>. QED BY <1>4, <1>7, <4>2
    <3>. QED BY <1>6, <2>4, <3>1
  <2>. QED BY ZenonT(40), <1>1, <1>3, <1>5, <1>7, <1>8, <2>1, <2>2, <2>3, <2>4, <2>5 DEF Writable, HeaderLines
<1>9. CASE ~file.header
  <2>1. LinesOf(file) = <<>> \o r
    BY <1>2, <1>9 DEF LinesOf
  <2>2. <<>> \o r = r
    BY <1>7
  <2>3. \A k \in 1..n : Clean(Chars, r[k]) /\ r[k] # <<>>
    BY <1>4, <1>7
  <2>4. DOMAIN r = 1..n
    BY <1>1, <1>2
  <2>5. LinesOf(file) = r /\ HeaderLines(file) = 0
    BY <1>9, <2>1, <2>2 DEF HeaderLines
  <2>6. Writable(Chars, r)
    BY <1>3, <1>7, <2>3, <2>4 DEF Writable
  <2>7. \A k \in 1..n : 0 + k = k
    OBVIOUS
  <2>8. \A k \in 1..n : LinesOf(file)[HeaderLines(file) + k] = WrittenRow(file.rows[k], file.quoted)
    BY <1>7, <2>5, <2>7
  <2>9. Len(LinesOf(file)) = HeaderLines(file) + n
    BY <1>7, <2>5
  <2>10. Writable(Chars, LinesOf(file))
    BY <2>5, <2>6
  <2>. HIDE DEF HeaderLines
  <2>. QED BY <1>1, <1>9, <2>8, <2>9, <2>10
<1>. QED BY <1>8, <1>9, FilesRows

(***************************************************************************)
(* The values the import works with are those of the spreadsheet: the      *)
(* header, if there is one, and then the rows in their order.              *)
(***************************************************************************)
THEOREM FileReads ==
    ASSUME NEW file \in Files
    PROVE  /\ Len(ValuesOf[file]) = HeaderLines(file) + Len(file.rows)
           /\ file.header => Contains(ValuesOf[file][1][1], "phone")
           /\ \A k \in DOMAIN file.rows :
                 /\ ValuesOf[file][HeaderLines(file) + k][1] = file.rows[k].phone
                 /\ Value(ValuesOf[file][HeaderLines(file) + k], 2) = file.rows[k].wa
                 /\ Value(ValuesOf[file][HeaderLines(file) + k], 3) = file.rows[k].consent
<1>1. PICK ls : ls = LinesOf(file)
  OBVIOUS
<1>2. Writable(Chars, ls) /\ Alphabet(Chars) /\ file.quoted \in BOOLEAN
  BY <1>1, FileLines, CharsSuffice, FilesRows
<1>3. ls \in Seq(Seq(Chars))
  BY <1>2 DEF Writable
<1>4. PICK m \in Nat : m = Len(ls) /\ DOMAIN ls = 1..m
  BY <1>3
<1>5. Content(file) = Text(ls, file.quoted, Len(ls))
  <2>1. PICK end : end = IF file.quoted THEN <<"CR", "LF">> ELSE <<"LF">>
    OBVIOUS
  <2>2. DOMAIN LinesOf(file) = 1..Len(LinesOf(file))
    BY <1>1, <1>4
  <2>3. Content(file) = FoldLeftIs("write", end, <<>>, LinesOf(file))
    BY <2>1, <2>2, ContentFold
  <2>. QED BY <1>1, <2>1, <2>3 DEF FoldLeftIs, Text, LineEnd
<1>6. Lines(Content(file)) = ls
  BY <1>2, <1>5, LinesOfText
<1>7. ValuesOf[file] = [k \in 1..m |-> ParseCsvLine(ls[k])]
  BY <1>4, <1>6 DEF ValuesOf
<1>8. PICK n \in Nat : n = Len(file.rows) /\ DOMAIN file.rows = 1..n
  BY FilesRows
<1>9. m = HeaderLines(file) + n
  BY <1>1, <1>4, <1>8, FileLines
<1>10. ASSUME file.header PROVE Contains(ValuesOf[file][1][1], "phone")
  <2>1. ls[1] = WrittenRow(Header, FALSE) /\ 1 \in 1..m
    <3>1. ls[1] = WrittenRow(Header, FALSE)
      BY <1>1, <1>10, FileLines
    <3>2. m = 1 + n
      BY <1>9, <1>10 DEF HeaderLines
    <3>. QED BY <3>1, <3>2
  <2>2. PICK row : row = Header /\ row.phone = <<"phone">> /\ Shown(Chars, row)
    BY CharsSuffice
  <2>3. row.phone # <<>> /\ FALSE \in BOOLEAN
    BY <2>2
  <2>4. ParseCsvLine(WrittenRow(row, FALSE))[1] = row.phone
    BY <1>2, <2>2, <2>3, RowReads
  <2>5. ValuesOf[file][1][1] = <<"phone">>
    BY <1>7, <2>1, <2>2, <2>4
  <2>. QED BY <2>5 DEF Contains
<1>11. ASSUME NEW k \in 1..n
       PROVE  /\ ValuesOf[file][HeaderLines(file) + k][1] = file.rows[k].phone
              /\ Value(ValuesOf[file][HeaderLines(file) + k], 2) = file.rows[k].wa
              /\ Value(ValuesOf[file][HeaderLines(file) + k], 3) = file.rows[k].consent
  <2>1. PICK row : row = file.rows[k] /\ row \in Rows
    BY <1>8, FilesRows
  <2>2. Shown(Chars, row) /\ row.phone # <<>>
    BY <2>1, RowsAssumption, CharsSuffice DEF Shown
  <2>3. PICK j \in 1..m : j = HeaderLines(file) + k
    <3>1. HeaderLines(file) \in {0, 1}
      BY DEF HeaderLines
    <3>2. PICK h \in {0, 1} : h = HeaderLines(file)
      BY <3>1
    <3>3. h + k \in 1..m
      BY <1>9, <3>2
    <3>. QED BY <3>2, <3>3
  <2>4. ls[j] = WrittenRow(row, file.quoted)
    BY <1>1, <1>8, <2>1, <2>3, FileLines
  <2>5. ValuesOf[file][j] = ParseCsvLine(WrittenRow(row, file.quoted))
    BY <1>7, <2>4
  <2>6. /\ ParseCsvLine(WrittenRow(row, file.quoted))[1] = row.phone
        /\ Value(ParseCsvLine(WrittenRow(row, file.quoted)), 2) = row.wa
        /\ Value(ParseCsvLine(WrittenRow(row, file.quoted)), 3) = row.consent
    BY <1>2, <2>2, RowReads
  <2>. QED BY <2>1, <2>3, <2>5, <2>6
<1>12. Len(ValuesOf[file]) = m
  BY <1>4, <1>7
<1>. QED BY <1>8, <1>9, <1>10, <1>11, <1>12

-----------------------------------------------------------------------------
(***************************************************************************)
(* The second part is about the imports.  What an import knows of its file *)
(* and where it is in it:                                                  *)
(***************************************************************************)
Parsed == {<<>>} \cup {ValuesOf[file] : file \in Files}
ImportType == [file : Files, lines : Parsed, next : Nat, total : Nat, imported : Nat, invalid : Nat,
               status : {"new", "running", "done", "failed"}]

\* Rows the import m has been through.
ThroughOf(m) == m.next - 1 - IF m.file.header /\ m.next > 1 THEN 1 ELSE 0

\* Each line it has been through is counted once: imported or invalid; a row
\* that failed is only in the total.
ImportInv(m) ==
    /\ m.status # "new" => m.lines = ValuesOf[m.file]
    /\ m.status = "new" => m.file = NoFile /\ m.next = 1
    /\ m.next >= 1 /\ m.next <= HeaderLines(m.file) + Len(m.file.rows) + 1
    /\ m.total = ThroughOf(m) + IF m.status = "failed" THEN 1 ELSE 0
    /\ m.imported = Cardinality(Valid(m.file) \cap 1..ThroughOf(m))
    /\ m.invalid = ThroughOf(m) - m.imported
    /\ m.status = "done" => ThroughOf(m) = Len(m.file.rows)
    /\ m.status = "failed" => ThroughOf(m) + 1 \in Valid(m.file)

\* Where it is, in bounds.
LEMMA ThroughBounds ==
    ASSUME NEW m \in ImportType, ImportInv(m)
    PROVE  /\ ThroughOf(m) \in 0..Len(m.file.rows) /\ Len(m.file.rows) \in 0..MaxRows
           /\ DOMAIN m.file.rows = 1..Len(m.file.rows) /\ HeaderLines(m.file) \in {0, 1}
           /\ Valid(m.file) \subseteq 1..Len(m.file.rows)
<1>1. m.file \in Files /\ m.next \in Nat
  BY DEF ImportType
<1>2. PICK n \in Nat : n = Len(m.file.rows) /\ DOMAIN m.file.rows = 1..n /\ n <= MaxRows
  BY <1>1, FilesRows
<1>3. HeaderLines(m.file) \in {0, 1}
  BY DEF HeaderLines
<1>4. ThroughOf(m) \in 0..n
  <2>1. m.next >= 1 /\ m.next <= HeaderLines(m.file) + n + 1
    BY <1>2 DEF ImportInv
  <2>2. CASE m.file.header
    BY <1>1, <2>1, <2>2 DEF ThroughOf, HeaderLines
  <2>3. CASE ~m.file.header
    BY <1>1, <2>1, <2>3 DEF ThroughOf, HeaderLines
  <2>. QED BY <2>2, <2>3
<1>5. Valid(m.file) \subseteq 1..n
  BY <1>2 DEF Valid
<1>. QED BY <1>2, <1>3, <1>4, <1>5, BoundsAssumption

\* The line an import is at is its header or its next row.
AtHeader(m) == m.next = 1 /\ Contains(m.lines[m.next][1], "phone")

LEMMA LineReads ==
    ASSUME NEW m \in ImportType, ImportInv(m), m.status = "running", m.next <= Len(m.lines)
    PROVE  /\ AtHeader(m) => m.file.header /\ m.next = 1
           /\ ~AtHeader(m) =>
                 /\ ThroughOf(m) + 1 \in DOMAIN m.file.rows /\ m.next = HeaderLines(m.file) + ThroughOf(m) + 1
                 /\ NormalizePhone(m.lines[m.next][1]) = <<>> => ThroughOf(m) + 1 \notin Valid(m.file)
                 /\ NormalizePhone(m.lines[m.next][1]) # <<>> =>
                       /\ ThroughOf(m) + 1 \in Valid(m.file)
                       /\ NormalizePhone(m.lines[m.next][1]) = Number(m.file.rows[ThroughOf(m) + 1].phone)
                 /\ Stored(Value(m.lines[m.next], 2), Value(m.lines[m.next], 3))
                       = RowOf(m.file.rows[ThroughOf(m) + 1])
<1>1. PICK f \in Files : f = m.file
  BY DEF ImportType
<1>2. m.lines = ValuesOf[f] /\ m.next \in Nat /\ m.next >= 1
  BY <1>1 DEF ImportInv, ImportType
<1>3. PICK n \in Nat : n = Len(f.rows) /\ DOMAIN f.rows = 1..n
  BY FilesRows
<1>4. Len(m.lines) = HeaderLines(f) + n
  BY <1>2, <1>3, FileReads
<1>5. ASSUME NEW k \in 1..n
      PROVE  /\ ~Contains(ValuesOf[f][HeaderLines(f) + k][1], "phone")
             /\ LET phone == NormalizePhone(ValuesOf[f][HeaderLines(f) + k][1]) IN
                /\ phone = <<>> => k \notin Valid(f)
                /\ phone # <<>> => k \in Valid(f) /\ phone = Number(f.rows[k].phone)
             /\ Stored(Value(ValuesOf[f][HeaderLines(f) + k], 2), Value(ValuesOf[f][HeaderLines(f) + k], 3))
                  = RowOf(f.rows[k])
  <2>1. PICK row \in Rows : row = f.rows[k]
    BY <1>3, FilesRows
  <2>2. PICK values : values = ValuesOf[f][HeaderLines(f) + k]
    OBVIOUS
  <2>3. values[1] = row.phone /\ Value(values, 2) = row.wa /\ Value(values, 3) = row.consent
    BY <1>3, <2>1, <2>2, FileReads
  <2>4. /\ row.phone \in Seq(STRING) /\ ~Contains(row.phone, "phone")
        /\ \A c \in DOMAIN row.phone : row.phone[c] = "+" => \A j \in 1..c - 1 : row.phone[j] \notin Digits \cup {"+"}
    BY <2>1, RowsAssumption DEF Cell
  <2>5. PICK s \in Seq(STRING) : s = row.phone
    BY <2>4
  <2>6. NormalizePhone(s) = (IF IsNumber(s) THEN Number(s) ELSE <<>>) /\ Number(s) # <<>>
    BY <2>4, <2>5, NumberReads
  <2>7. k \in Valid(f) <=> IsNumber(s)
    BY <1>3, <2>1, <2>5 DEF Valid
  <2>8. Stored(Value(values, 2), Value(values, 3)) = RowOf(row)
    BY <2>3 DEF RowOf
  <2>. QED BY <2>1, <2>2, <2>3, <2>4, <2>5, <2>6, <2>7, <2>8
<1>6. ASSUME AtHeader(m) PROVE m.file.header /\ m.next = 1
  <2>1. CASE f.header
    BY <1>1, <1>6, <2>1 DEF AtHeader
  <2>2. CASE ~f.header
    <3>1. HeaderLines(f) = 0 /\ 1 \in 1..n /\ 0 + 1 = 1
      <4>1. HeaderLines(f) = 0
        BY <2>2 DEF HeaderLines
      <4>2. n >= 1
        BY <1>2, <1>4, <4>1
      <4>. QED BY <4>1, <4>2
    <3>2. ~Contains(ValuesOf[f][HeaderLines(f) + 1][1], "phone")
      BY <1>5, <3>1
    <3>. QED BY <1>2, <1>6, <3>1, <3>2 DEF AtHeader
  <2>. QED BY <2>1, <2>2
<1>7. ASSUME ~AtHeader(m)
      PROVE  ThroughOf(m) + 1 \in 1..n /\ m.next = HeaderLines(f) + ThroughOf(m) + 1
  <2>1. CASE f.header
    <3>1. Contains(ValuesOf[f][1][1], "phone")
      BY <2>1, FileReads
    <3>2. m.next > 1
      BY <1>2, <1>7, <3>1 DEF AtHeader
    <3>. QED BY <1>1, <1>2, <1>4, <2>1, <3>2 DEF HeaderLines, ThroughOf
  <2>2. CASE ~f.header
    BY <1>1, <1>2, <1>4, <2>2 DEF HeaderLines, ThroughOf
  <2>. QED BY <2>1, <2>2
<1>8. ASSUME ~AtHeader(m)
      PROVE  LET k == ThroughOf(m) + 1 IN
             /\ k \in DOMAIN m.file.rows /\ m.next = HeaderLines(m.file) + ThroughOf(m) + 1
             /\ NormalizePhone(m.lines[m.next][1]) = <<>> => k \notin Valid(m.file)
             /\ NormalizePhone(m.lines[m.next][1]) # <<>> =>
                   k \in Valid(m.file) /\ NormalizePhone(m.lines[m.next][1]) = Number(m.file.rows[k].phone)
             /\ Stored(Value(m.lines[m.next], 2), Value(m.lines[m.next], 3)) = RowOf(m.file.rows[k])
  <2>1. PICK k \in 1..n : k = ThroughOf(m) + 1
    BY <1>7, <1>8
  <2>2. PICK values : values = m.lines[m.next]
    OBVIOUS
  <2>3. values = ValuesOf[f][HeaderLines(f) + k]
    <3>1. HeaderLines(f) + k = m.next
      <4>1. HeaderLines(f) \in {0, 1} /\ ThroughOf(m) \in Int
        BY <1>1, ThroughBounds
      <4>. QED BY <1>7, <1>8, <2>1, <4>1
    <3>. QED BY <1>2, <2>2, <3>1
  <2>. QED BY <1>1, <1>3, <1>5, <1>7, <1>8, <2>1, <2>2, <2>3
<1>. QED BY <1>6, <1>8

\* One more row: one more that is valid, or not.
LEMMA ValidCount ==
    ASSUME NEW file \in Files
    PROVE  /\ Cardinality(Valid(file) \cap 1..0) = 0
           /\ \A k \in 1..Len(file.rows) :
                 /\ Cardinality(Valid(file) \cap 1..k - 1) \in 0..k - 1
                 /\ k \in Valid(file) =>
                       Cardinality(Valid(file) \cap 1..k) = Cardinality(Valid(file) \cap 1..k - 1) + 1
                 /\ k \notin Valid(file) =>
                       Cardinality(Valid(file) \cap 1..k) = Cardinality(Valid(file) \cap 1..k - 1)
           /\ Valid(file) \cap 1..Len(file.rows) = Valid(file)
<1>1. Valid(file) \cap 1..0 = {}
  OBVIOUS
<1>2. PICK n \in Nat : n = Len(file.rows) /\ DOMAIN file.rows = 1..n
  BY FilesRows
<1>3. ASSUME NEW k \in 1..n
      PROVE  /\ IsFiniteSet(Valid(file) \cap 1..k - 1)
             /\ Cardinality(Valid(file) \cap 1..k - 1) \in 0..k - 1
  <2>1. IsFiniteSet(1..k - 1) /\ Cardinality(1..k - 1) = k - 1
    BY FS_Interval
  <2>2. (Valid(file) \cap 1..k - 1) \subseteq 1..k - 1
    OBVIOUS
  <2>3. PICK S : S = Valid(file) \cap 1..k - 1
    OBVIOUS
  <2>4. IsFiniteSet(S) /\ Cardinality(S) <= k - 1
    BY <2>1, <2>2, <2>3, FS_Subset
  <2>5. Cardinality(S) \in Nat
    BY <2>4, FS_CardinalityType
  <2>. QED BY <2>3, <2>4, <2>5
<1>4. ASSUME NEW k \in 1..n, k \in Valid(file)
      PROVE  Cardinality(Valid(file) \cap 1..k) = Cardinality(Valid(file) \cap 1..k - 1) + 1
  <2>1. PICK S : S = Valid(file) \cap 1..k - 1
    OBVIOUS
  <2>2. Valid(file) \cap 1..k = S \cup {k} /\ k \notin S
    BY <1>4, <2>1
  <2>3. IsFiniteSet(S)
    BY <1>3, <2>1
  <2>4. Cardinality(S \cup {k}) = Cardinality(S) + 1
    BY <2>2, <2>3, FS_AddElement
  <2>. QED BY <2>1, <2>2, <2>4
<1>5. ASSUME NEW k \in 1..n, k \notin Valid(file)
      PROVE  Valid(file) \cap 1..k = Valid(file) \cap 1..k - 1
  BY <1>5
<1>6. Valid(file) \cap 1..n = Valid(file)
  BY <1>2 DEF Valid
<1>7. Cardinality({}) = 0
  BY FS_EmptySet
<1>. QED BY <1>1, <1>2, <1>3, <1>4, <1>5, <1>6, <1>7

\* What the steps of an import do with what is known of it.
NoFileYet == [file |-> NoFile, lines |-> <<>>, next |-> 1, total |-> 0, imported |-> 0, invalid |-> 0,
              status |-> "new"]

LEMMA NoFileFacts ==
    /\ NoFile \in Files /\ NoFileYet \in ImportType /\ ImportInv(NoFileYet)
    /\ ThroughOf(NoFileYet) = 0 /\ Valid(NoFile) = {}
<1>1. NoFile.rows = <<>> /\ NoFile.header = FALSE /\ NoFile \in Files
  <2>1. <<>> \in BoundedSeq(Rows, MaxRows)
    <3>1. 0 \in 0..MaxRows
      BY BoundsAssumption
    <3>2. <<>> \in [1..0 -> Rows]
      OBVIOUS
    <3>. QED BY <3>1, <3>2 DEF BoundedSeq, SeqOf
  <2>. QED BY <2>1 DEF NoFile, Files
<1>2. Valid(NoFile) = {}
  BY <1>1 DEF Valid
<1>3. NoFileYet \in ImportType
  BY <1>1 DEF NoFileYet, ImportType, Parsed
<1>4. ThroughOf(NoFileYet) = 0
  BY DEF ThroughOf, NoFileYet
<1>5. HeaderLines(NoFile) = 0 /\ Len(NoFile.rows) = 0
  BY <1>1 DEF HeaderLines
<1>6. Cardinality(Valid(NoFile) \cap 1..0) = 0
  BY <1>1, ValidCount
<1>7. ImportInv(NoFileYet)
  <2>. HIDE DEF NoFile
  <2>1. /\ NoFileYet.file = NoFile /\ NoFileYet.next = 1 /\ NoFileYet.status = "new"
        /\ NoFileYet.total = 0 /\ NoFileYet.imported = 0 /\ NoFileYet.invalid = 0
    BY DEF NoFileYet
  <2>. HIDE DEF NoFileYet
  <2>. QED BY <1>4, <1>5, <1>6, <2>1 DEF ImportInv
<1>. QED BY <1>1, <1>2, <1>3, <1>4, <1>7

LEMMA StartKeeps ==
    ASSUME NEW m \in ImportType, ImportInv(m), m.status = "new", NEW file \in Files,
           NEW n \in ImportType, n.file = file, n.lines = ValuesOf[file], n.next = m.next, n.total = m.total,
           n.imported = m.imported, n.invalid = m.invalid, n.status = "running"
    PROVE  ImportInv(n) /\ ThroughOf(n) = 0 /\ ThroughOf(m) = 0 /\ Valid(m.file) = {}
<1>1. m.file = NoFile /\ m.next = 1
  BY DEF ImportInv
<1>2. ThroughOf(m) = 0 /\ ThroughOf(n) = 0
  BY <1>1 DEF ThroughOf, NoFile
<1>3. m.total = 0 /\ m.imported = Cardinality(Valid(m.file) \cap 1..0) /\ m.invalid = 0 - m.imported
  BY <1>2 DEF ImportInv
<1>4. m.imported = 0 /\ Cardinality(Valid(file) \cap 1..0) = 0 /\ Valid(m.file) = {}
  BY <1>1, <1>3, NoFileFacts, ValidCount
<1>5. HeaderLines(file) \in {0, 1} /\ Len(file.rows) \in Nat
  BY FilesRows DEF HeaderLines
<1>. QED BY <1>1, <1>2, <1>3, <1>4, <1>5 DEF ImportInv

LEMMA HeaderKeeps ==
    ASSUME NEW m \in ImportType, ImportInv(m), m.status = "running", m.next <= Len(m.lines), AtHeader(m),
           NEW n \in ImportType, n.file = m.file, n.lines = m.lines, n.next = m.next + 1, n.total = m.total,
           n.imported = m.imported, n.invalid = m.invalid, n.status = m.status
    PROVE  ImportInv(n) /\ ThroughOf(n) = ThroughOf(m)
<1>1. m.file.header /\ m.next = 1
  BY LineReads
<1>2. ThroughOf(m) = 0 /\ ThroughOf(n) = 0
  BY <1>1 DEF ThroughOf
<1>3. HeaderLines(m.file) = 1 /\ Len(m.file.rows) \in Nat
  BY <1>1, ThroughBounds DEF HeaderLines
<1>. QED BY <1>1, <1>2, <1>3 DEF ImportInv

\* The next row, valid or not.
LEMMA RowKeeps ==
    ASSUME NEW m \in ImportType, ImportInv(m), m.status = "running", m.next <= Len(m.lines), ~AtHeader(m),
           NEW n \in ImportType, n.file = m.file, n.lines = m.lines, n.next = m.next + 1, n.total = m.total + 1,
           n.status = m.status,
           \/ /\ ThroughOf(m) + 1 \in Valid(m.file)
              /\ n.imported = m.imported + 1 /\ n.invalid = m.invalid
           \/ /\ ThroughOf(m) + 1 \notin Valid(m.file)
              /\ n.imported = m.imported /\ n.invalid = m.invalid + 1
    PROVE  ImportInv(n) /\ ThroughOf(n) = ThroughOf(m) + 1
<1>1. PICK k \in 1..Len(m.file.rows) : k = ThroughOf(m) + 1 /\ m.next = HeaderLines(m.file) + k
  <2>1. ThroughOf(m) + 1 \in DOMAIN m.file.rows /\ m.next = HeaderLines(m.file) + ThroughOf(m) + 1
    BY LineReads
  <2>2. DOMAIN m.file.rows = 1..Len(m.file.rows) /\ ThroughOf(m) \in Int /\ HeaderLines(m.file) \in {0, 1}
    BY ThroughBounds
  <2>. QED BY <2>1, <2>2
<1>2. k \in Nat /\ k >= 1 /\ k <= Len(m.file.rows) /\ Len(m.file.rows) \in Nat /\ ThroughOf(m) = k - 1
  BY <1>1, ThroughBounds
<1>3. ThroughOf(n) = k
  <2>1. CASE m.file.header
    <3>1. m.next = 1 + k
      BY <1>1, <2>1 DEF HeaderLines
    <3>. QED BY <1>2, <2>1, <3>1 DEF ThroughOf
  <2>2. CASE ~m.file.header
    <3>1. m.next = 0 + k
      BY <1>1, <2>2 DEF HeaderLines
    <3>. QED BY <1>2, <2>2, <3>1 DEF ThroughOf
  <2>. QED BY <2>1, <2>2
<1>4. /\ m.total = k - 1 /\ m.imported = Cardinality(Valid(m.file) \cap 1..k - 1)
      /\ m.invalid = (k - 1) - m.imported /\ m.lines = ValuesOf[m.file]
  BY <1>2 DEF ImportInv
<1>5. /\ m.imported \in Nat
      /\ k \in Valid(m.file) => Cardinality(Valid(m.file) \cap 1..k) = m.imported + 1
      /\ k \notin Valid(m.file) => Cardinality(Valid(m.file) \cap 1..k) = m.imported
  BY <1>1, <1>4, ValidCount DEF ImportType
<1>6. n.total = k /\ n.imported = Cardinality(Valid(m.file) \cap 1..k) /\ n.invalid = k - n.imported
  BY <1>1, <1>2, <1>4, <1>5
<1>7. n.next >= 1 /\ n.next <= HeaderLines(n.file) + Len(n.file.rows) + 1
  BY <1>1, <1>2, ThroughBounds
<1>. QED BY <1>1, <1>3, <1>4, <1>6, <1>7 DEF ImportInv

LEMMA FailureKeeps ==
    ASSUME NEW m \in ImportType, ImportInv(m), m.status = "running", m.next <= Len(m.lines), ~AtHeader(m),
           NEW n \in ImportType, n.file = m.file, n.lines = m.lines, n.next = m.next, n.total = m.total + 1,
           n.imported = m.imported, n.invalid = m.invalid, n.status = "failed",
           ThroughOf(m) + 1 \in Valid(m.file)
    PROVE  ImportInv(n) /\ ThroughOf(n) = ThroughOf(m)
<1>1. ThroughOf(n) = ThroughOf(m)
  BY DEF ThroughOf
<1>2. ThroughOf(m) \in Int
  BY ThroughBounds
<1>. QED BY <1>1, <1>2 DEF ImportInv

LEMMA AnswerKeeps ==
    ASSUME NEW m \in ImportType, ImportInv(m), m.status = "running", ~(m.next <= Len(m.lines)),
           NEW n \in ImportType, n.file = m.file, n.lines = m.lines, n.next = m.next, n.total = m.total,
           n.imported = m.imported, n.invalid = m.invalid, n.status = "done"
    PROVE  ImportInv(n) /\ ThroughOf(n) = ThroughOf(m)
<1>1. ThroughOf(n) = ThroughOf(m)
  BY DEF ThroughOf
<1>2. PICK f \in Files : f = m.file /\ m.lines = ValuesOf[f]
  BY DEF ImportInv, ImportType
<1>3. PICK r \in Nat : r = Len(f.rows)
  BY FilesRows
<1>4. Len(m.lines) = HeaderLines(f) + r
  BY <1>2, <1>3, FileReads
<1>5. m.next = HeaderLines(f) + r + 1
  <2>1. m.next <= HeaderLines(f) + r + 1 /\ m.next \in Nat /\ HeaderLines(f) \in {0, 1}
    BY <1>2, <1>3 DEF ImportInv, ImportType, HeaderLines
  <2>. QED BY <1>3, <1>4, <2>1
<1>6. ThroughOf(m) = r
  <2>1. CASE f.header
    <3>1. m.next = 1 + r + 1
      BY <1>5, <2>1 DEF HeaderLines
    <3>2. m.next > 1 /\ m.file.header
      BY <1>2, <2>1, <3>1
    <3>3. ThroughOf(m) = m.next - 1 - 1
      BY <3>2 DEF ThroughOf
    <3>. QED BY <3>1, <3>3
  <2>2. CASE ~f.header
    BY <1>2, <1>3, <1>5, <2>2 DEF ThroughOf, HeaderLines
  <2>. QED BY <2>1, <2>2
<1>. QED BY <1>1, <1>2, <1>3, <1>6 DEF ImportInv

-----------------------------------------------------------------------------
(***************************************************************************)
(* The invariant of the states: each import knows where it is in its file, *)
(* and without a failed query only a value that does not fit fails a row.  *)
(***************************************************************************)
FitsRow(row) == Fits(Number(row.phone), RowOf(row))
Misfit(m) == ~FitsRow(m.file.rows[ThroughOf(m) + 1])

IInv ==
    /\ imports \in [Imports -> ImportType] /\ \A i \in Imports : ImportInv(imports[i])
    /\ \A p \in DOMAIN contacts : Fits(p, contacts[p])
    /\ creates \in 0..MaxCreates /\ faults \in 0..MaxFaults
    /\ \A i \in Imports : imports[i].status = "failed" /\ faults = 0 => Misfit(imports[i])

\* What a step does with an import, the others being left alone.
Alone(i) == /\ imports' \in [Imports -> ImportType]
            /\ \A j \in Imports : j # i => imports'[j] = imports[j]
NextRow(i) == ThroughOf(imports[i]) + 1
Writes(i) ==
    LET row == imports[i].file.rows[NextRow(i)] IN
    /\ Upsert(Number(row.phone), RowOf(row)) /\ FitsRow(row)

\* No row of a file is touched.
NoRow(i) ==
    /\ Alone(i) /\ UNCHANGED <<contacts, creates, faults>>
    /\ ThroughOf(imports'[i]) = ThroughOf(imports[i]) /\ imports[i].status # "failed" /\ imports'[i].status # "failed"
    /\ \/ imports'[i].file = imports[i].file
       \/ Valid(imports[i].file) = {} /\ ThroughOf(imports[i]) = 0

\* A row is passed, and written when it has a number.
RowDone(i) ==
    /\ Alone(i) /\ UNCHANGED <<creates, faults>> /\ imports'[i].file = imports[i].file
    /\ ThroughOf(imports'[i]) = NextRow(i) /\ imports[i].status # "failed" /\ imports'[i].status # "failed"
    /\ \/ NextRow(i) \in Valid(imports[i].file) /\ Writes(i)
       \/ NextRow(i) \notin Valid(imports[i].file) /\ UNCHANGED contacts

\* A row ends the import, written or not.
RowLost(i) ==
    /\ Alone(i) /\ UNCHANGED creates /\ imports'[i].file = imports[i].file
    /\ ThroughOf(imports'[i]) = ThroughOf(imports[i]) /\ imports[i].status # "failed" /\ imports'[i].status = "failed"
    /\ NextRow(i) \in Valid(imports[i].file)
    /\ \/ faults' = faults /\ UNCHANGED contacts /\ Misfit(imports'[i])
       \/ faults' # 0 /\ (Writes(i) \/ UNCHANGED contacts)
    /\ faults' \in 0..MaxFaults /\ (faults # 0 => faults' # 0)

\* Every import has its part of the invariant after a step.
Keeps(i) == ImportInv(imports'[i])

LEMMA StartIs ==
    ASSUME IInv, NEW i \in Imports, NEW file \in Files, Start(i, file)
    PROVE  NoRow(i) /\ Keeps(i)
<1>1. PICK m \in ImportType : m = imports[i] /\ ImportInv(m) /\ m.status = "new"
  BY DEF IInv, Start
<1>2. PICK r : r = ValuesOf[file] /\ r \in Parsed
  BY DEF Parsed
<1>3. imports' = [imports EXCEPT ![i] = [m EXCEPT !.file = file, !.lines = r, !.status = "running"]]
  BY <1>1, <1>2 DEF Start, IInv
<1>4. PICK n : n = [m EXCEPT !.file = file, !.lines = r, !.status = "running"]
  OBVIOUS
<1>5. /\ n \in ImportType /\ n.file = file /\ n.lines = r /\ n.next = m.next /\ n.total = m.total
      /\ n.imported = m.imported /\ n.invalid = m.invalid /\ n.status = "running"
  BY <1>1, <1>2, <1>4 DEF ImportType
<1>6. ImportInv(n) /\ ThroughOf(n) = 0 /\ ThroughOf(m) = 0 /\ Valid(m.file) = {}
  BY <1>1, <1>2, <1>5, StartKeeps
<1>7. Alone(i) /\ imports'[i] = n
  BY <1>3, <1>4, <1>5 DEF Alone, IInv
<1>8. UNCHANGED <<contacts, creates, faults>>
  BY DEF Start
<1>. QED BY <1>1, <1>5, <1>6, <1>7, <1>8 DEF NoRow, Keeps

\* An import that runs and has a line left.
LEMMA RunningIs ==
    ASSUME IInv, NEW i \in Imports, Running(i), More(i)
    PROVE  /\ imports[i] \in ImportType /\ ImportInv(imports[i]) /\ imports[i].status = "running"
           /\ imports[i].next <= Len(imports[i].lines)
           /\ IsHeader(i) <=> AtHeader(imports[i])
           /\ Line(i) = imports[i].lines[imports[i].next]
  BY DEF IInv, Running, More, IsHeader, AtHeader, Line

LEMMA SkipHeaderIs ==
    ASSUME IInv, NEW i \in Imports, SkipHeader(i)
    PROVE  NoRow(i) /\ Keeps(i)
<1>1. PICK m \in ImportType : /\ m = imports[i] /\ ImportInv(m) /\ m.status = "running"
                              /\ m.next <= Len(m.lines) /\ AtHeader(m)
  BY RunningIs DEF SkipHeader
<1>2. PICK n : n = [m EXCEPT !.next = @ + 1]
  OBVIOUS
<1>3. /\ n \in ImportType /\ n.file = m.file /\ n.lines = m.lines /\ n.next = m.next + 1 /\ n.total = m.total
      /\ n.imported = m.imported /\ n.invalid = m.invalid /\ n.status = m.status
  <2>1. m.next + 1 \in Nat /\ m.total + 1 \in Nat /\ m.imported + 1 \in Nat /\ m.invalid + 1 \in Nat
    BY <1>1 DEF ImportType
  <2>2. n = [m EXCEPT !.next = m.next + 1]
    BY <1>2
  <2>. QED BY <1>1, <2>1, <2>2 DEF ImportType
<1>4. ImportInv(n) /\ ThroughOf(n) = ThroughOf(m)
  BY <1>1, <1>3, HeaderKeeps
<1>5. imports' = [imports EXCEPT ![i] = n]
  BY <1>1, <1>2 DEF SkipHeader, IInv
<1>6. Alone(i) /\ imports'[i] = n
  BY <1>3, <1>5 DEF Alone, IInv
<1>7. UNCHANGED <<contacts, creates, faults>>
  BY DEF SkipHeader
<1>8. ThroughOf(imports'[i]) = ThroughOf(imports[i]) /\ imports'[i].file = imports[i].file
  BY <1>1, <1>3, <1>4, <1>6
<1>9. imports[i].status # "failed" /\ imports'[i].status # "failed"
  BY <1>1, <1>3, <1>6
<1>. QED BY <1>4, <1>6, <1>7, <1>8, <1>9 DEF NoRow, Keeps

LEMMA SkipInvalidIs ==
    ASSUME IInv, NEW i \in Imports, SkipInvalid(i)
    PROVE  RowDone(i) /\ Keeps(i)
<1>1. PICK m \in ImportType : /\ m = imports[i] /\ ImportInv(m) /\ m.status = "running"
                              /\ m.next <= Len(m.lines) /\ ~AtHeader(m)
                              /\ NormalizePhone(m.lines[m.next][1]) = <<>>
  BY RunningIs DEF SkipInvalid
<1>2. PICK n : n = [m EXCEPT !.next = @ + 1, !.total = @ + 1, !.invalid = @ + 1]
  OBVIOUS
<1>3. /\ n \in ImportType /\ n.file = m.file /\ n.lines = m.lines /\ n.next = m.next + 1 /\ n.total = m.total + 1
      /\ n.imported = m.imported /\ n.invalid = m.invalid + 1 /\ n.status = m.status
  <2>1. m.next + 1 \in Nat /\ m.total + 1 \in Nat /\ m.imported + 1 \in Nat /\ m.invalid + 1 \in Nat
    BY <1>1 DEF ImportType
  <2>2. n = [m EXCEPT !.next = m.next + 1, !.total = m.total + 1, !.invalid = m.invalid + 1]
    BY <1>2
  <2>. QED BY <1>1, <2>1, <2>2 DEF ImportType
<1>4. ThroughOf(m) + 1 \notin Valid(m.file)
  BY <1>1, LineReads
<1>5. ImportInv(n) /\ ThroughOf(n) = ThroughOf(m) + 1
  BY <1>1, <1>3, <1>4, RowKeeps
<1>6. imports' = [imports EXCEPT ![i] = n]
  BY <1>1, <1>2 DEF SkipInvalid, IInv
<1>7. Alone(i) /\ imports'[i] = n
  BY <1>3, <1>6 DEF Alone, IInv
<1>8. UNCHANGED <<contacts, creates, faults>>
  BY DEF SkipInvalid
<1>. QED BY <1>1, <1>3, <1>4, <1>5, <1>7, <1>8 DEF RowDone, Keeps, NextRow

LEMMA ImportRowIs ==
    ASSUME IInv, NEW i \in Imports, ImportRow(i)
    PROVE  RowDone(i) /\ Keeps(i)
<1>1. PICK m \in ImportType : /\ m = imports[i] /\ ImportInv(m) /\ m.status = "running"
                              /\ m.next <= Len(m.lines) /\ ~AtHeader(m) /\ Line(i) = m.lines[m.next]
  BY RunningIs DEF ImportRow
<1>2. PICK n : n = [m EXCEPT !.next = @ + 1, !.total = @ + 1, !.imported = @ + 1]
  OBVIOUS
<1>3. /\ n \in ImportType /\ n.file = m.file /\ n.lines = m.lines /\ n.next = m.next + 1 /\ n.total = m.total + 1
      /\ n.imported = m.imported + 1 /\ n.invalid = m.invalid /\ n.status = m.status
  <2>1. m.next + 1 \in Nat /\ m.total + 1 \in Nat /\ m.imported + 1 \in Nat /\ m.invalid + 1 \in Nat
    BY <1>1 DEF ImportType
  <2>2. n = [m EXCEPT !.next = m.next + 1, !.total = m.total + 1, !.imported = m.imported + 1]
    BY <1>2
  <2>. QED BY <1>1, <2>1, <2>2 DEF ImportType
<1>4. PICK values : values = m.lines[m.next]
  OBVIOUS
<1>5. PICK phone, row : /\ phone = NormalizePhone(values[1]) /\ phone # <<>>
                        /\ row = Stored(Value(values, 2), Value(values, 3))
                        /\ Fits(phone, row) /\ Upsert(phone, row)
  BY <1>1, <1>4 DEF ImportRow
<1>7. PICK k : k = ThroughOf(m) + 1
  OBVIOUS
<1>8. /\ k \in Valid(m.file) /\ phone = Number(m.file.rows[k].phone)
      /\ row = RowOf(m.file.rows[k])
  BY <1>1, <1>4, <1>5, <1>7, LineReads
<1>9. ImportInv(n) /\ ThroughOf(n) = k
  BY <1>1, <1>3, <1>7, <1>8, RowKeeps
<1>10. imports' = [imports EXCEPT ![i] = n]
  BY <1>1, <1>2 DEF ImportRow, IInv
<1>11. Alone(i) /\ imports'[i] = n
  BY <1>3, <1>10 DEF Alone, IInv
<1>12. UNCHANGED <<creates, faults>>
  BY DEF ImportRow
<1>13. Writes(i)
  BY <1>1, <1>5, <1>7, <1>8 DEF Writes, NextRow, FitsRow
<1>. QED BY <1>1, <1>3, <1>7, <1>8, <1>9, <1>11, <1>12, <1>13 DEF RowDone, Keeps, NextRow

LEMMA RowFailsIs ==
    ASSUME IInv, NEW i \in Imports, RowFails(i)
    PROVE  RowLost(i) /\ Keeps(i)
<1>1. PICK m \in ImportType : /\ m = imports[i] /\ ImportInv(m) /\ m.status = "running"
                              /\ m.next <= Len(m.lines) /\ ~AtHeader(m) /\ Line(i) = m.lines[m.next]
  BY RunningIs DEF RowFails
<1>2. PICK n : n = [m EXCEPT !.total = @ + 1, !.status = "failed"]
  OBVIOUS
<1>3. /\ n \in ImportType /\ n.file = m.file /\ n.lines = m.lines /\ n.next = m.next /\ n.total = m.total + 1
      /\ n.imported = m.imported /\ n.invalid = m.invalid /\ n.status = "failed"
  <2>1. m.total + 1 \in Nat
    BY <1>1 DEF ImportType
  <2>2. n = [m EXCEPT !.total = m.total + 1, !.status = "failed"]
    BY <1>2
  <2>. QED BY <1>1, <2>1, <2>2 DEF ImportType
<1>4. PICK values : values = m.lines[m.next]
  OBVIOUS
<1>5. PICK phone, row : /\ phone = NormalizePhone(values[1]) /\ phone # <<>>
                        /\ row = Stored(Value(values, 2), Value(values, 3))
                        /\ \/ ~Fits(phone, row) /\ UNCHANGED <<contacts, faults>>
                           \/ /\ Fits(phone, row) /\ faults < MaxFaults /\ faults' = faults + 1
                              /\ Upsert(phone, row) \/ UNCHANGED contacts
  BY <1>1, <1>4 DEF RowFails
<1>6. PICK k : k = ThroughOf(m) + 1
  OBVIOUS
<1>7. /\ k \in Valid(m.file) /\ phone = Number(m.file.rows[k].phone)
      /\ row = RowOf(m.file.rows[k])
  BY <1>1, <1>4, <1>5, <1>6, LineReads
<1>8. ImportInv(n) /\ ThroughOf(n) = ThroughOf(m)
  BY <1>1, <1>3, <1>6, <1>7, FailureKeeps
<1>9. imports' = [imports EXCEPT ![i] = n]
  BY <1>1, <1>2 DEF RowFails, IInv
<1>10. Alone(i) /\ imports'[i] = n
  BY <1>3, <1>9 DEF Alone, IInv
<1>11. UNCHANGED creates
  BY DEF RowFails
<1>12. faults \in 0..MaxFaults /\ faults \in Nat
  BY BoundsAssumption DEF IInv
<1>13. \/ faults' = faults /\ UNCHANGED contacts /\ Misfit(imports'[i])
       \/ faults' # 0 /\ (Writes(i) \/ UNCHANGED contacts)
  <2>1. CASE ~Fits(phone, row) /\ UNCHANGED <<contacts, faults>>
    <3>1. Misfit(n)
      BY <1>3, <1>6, <1>7, <1>8, <2>1 DEF Misfit, FitsRow
    <3>. QED BY <1>10, <2>1, <3>1
  <2>2. CASE /\ Fits(phone, row) /\ faults < MaxFaults /\ faults' = faults + 1
             /\ Upsert(phone, row) \/ UNCHANGED contacts
    <3>1. faults' # 0
      BY <1>12, <2>2
    <3>2. Writes(i) \/ UNCHANGED contacts
      BY <1>1, <1>6, <1>7, <2>2 DEF Writes, NextRow, FitsRow
    <3>. QED BY <3>1, <3>2
  <2>. QED BY <1>5, <2>1, <2>2
<1>14. faults' \in 0..MaxFaults /\ (faults # 0 => faults' # 0)
  BY <1>5, <1>12, BoundsAssumption
<1>. QED BY <1>1, <1>3, <1>6, <1>7, <1>8, <1>10, <1>11, <1>13, <1>14 DEF RowLost, Keeps, NextRow

LEMMA AnswerIs ==
    ASSUME IInv, NEW i \in Imports, Answer(i)
    PROVE  NoRow(i) /\ Keeps(i)
<1>1. PICK m \in ImportType : /\ m = imports[i] /\ ImportInv(m) /\ m.status = "running"
                              /\ ~(m.next <= Len(m.lines))
  BY DEF IInv, Answer, Running, More
<1>2. PICK n : n = [m EXCEPT !.status = "done"]
  OBVIOUS
<1>3. /\ n \in ImportType /\ n.file = m.file /\ n.lines = m.lines /\ n.next = m.next /\ n.total = m.total
      /\ n.imported = m.imported /\ n.invalid = m.invalid /\ n.status = "done"
  BY <1>1, <1>2 DEF ImportType
<1>4. ImportInv(n) /\ ThroughOf(n) = ThroughOf(m)
  BY <1>1, <1>3, AnswerKeeps
<1>5. imports' = [imports EXCEPT ![i] = n]
  BY <1>1, <1>2 DEF Answer, IInv
<1>6. Alone(i) /\ imports'[i] = n
  BY <1>3, <1>5 DEF Alone, IInv
<1>7. UNCHANGED <<contacts, creates, faults>>
  BY DEF Answer
<1>8. ThroughOf(imports'[i]) = ThroughOf(imports[i]) /\ imports'[i].file = imports[i].file
  BY <1>1, <1>3, <1>4, <1>6
<1>9. imports[i].status # "failed" /\ imports'[i].status # "failed"
  BY <1>1, <1>3, <1>6
<1>. QED BY <1>4, <1>6, <1>7, <1>8, <1>9 DEF NoRow, Keeps

\* What a step is: one import's, a creation or nothing.
Creation(body) ==
    /\ creates < MaxCreates /\ creates' = creates + 1 /\ UNCHANGED <<imports, faults>>
    /\ Fits(body.phone, Given(body)) /\ Upsert(body.phone, Given(body))

LEMMA StepIs ==
    ASSUME IInv, [Next]_vars
    PROVE  \/ UNCHANGED vars
           \/ \E body \in Created : Creation(body)
           \/ \E i \in Imports : Keeps(i) /\ (NoRow(i) \/ RowDone(i) \/ RowLost(i))
<1>1. ASSUME NEW i \in Imports, Step(i)
      PROVE  Keeps(i) /\ (NoRow(i) \/ RowDone(i) \/ RowLost(i))
  BY <1>1, SkipHeaderIs, SkipInvalidIs, ImportRowIs, RowFailsIs, AnswerIs DEF Step
<1>2. ASSUME NEW body \in Created, Create(body)
      PROVE  Creation(body)
  BY <1>2 DEF Create, Creation
<1>. QED BY <1>1, <1>2, StartIs DEF Next

\* What an upsert leaves.
LEMMA UpsertIs ==
    ASSUME NEW phone, NEW row, Upsert(phone, row)
    PROVE  /\ DOMAIN contacts' = DOMAIN contacts \cup {phone} /\ contacts'[phone] = row
           /\ \A p \in DOMAIN contacts : p # phone => contacts'[p] = contacts[p]
  BY DEF Upsert

\* The contacts fit their columns after a step.
Stores(cs) == \A p \in DOMAIN cs : Fits(p, cs[p])

LEMMA UpsertStores ==
    ASSUME NEW phone, NEW row, Upsert(phone, row), Fits(phone, row), Stores(contacts)
    PROVE  Stores(contacts')
<1>1. /\ DOMAIN contacts' = DOMAIN contacts \cup {phone} /\ contacts'[phone] = row
      /\ \A p \in DOMAIN contacts : p # phone => contacts'[p] = contacts[p]
  BY UpsertIs
<1>2. ASSUME NEW p \in DOMAIN contacts'
      PROVE  Fits(p, contacts'[p])
  <2>1. CASE p = phone
    BY <1>1, <2>1
  <2>2. CASE p # phone
    BY <1>1, <1>2, <2>2 DEF Stores
  <2>. QED BY <2>1, <2>2
<1>. QED BY <1>2 DEF Stores

LEMMA WritesStores ==
    ASSUME NEW i \in Imports, Writes(i), Stores(contacts)
    PROVE  Stores(contacts')
<1>1. PICK phone, row : Upsert(phone, row) /\ Fits(phone, row)
  BY DEF Writes, FitsRow
<1>. QED BY <1>1, UpsertStores

LEMMA InitIs == ASSUME Init PROVE IInv
<1>1. \A i \in Imports : imports[i] = NoFileYet /\ imports[i] \in ImportType /\ ImportInv(imports[i])
  BY NoFileFacts DEF Init, NoFileYet
<1>2. imports \in [Imports -> ImportType]
  BY <1>1 DEF Init
<1>3. DOMAIN contacts = {}
  BY DEF Init
<1>4. creates \in 0..MaxCreates /\ faults \in 0..MaxFaults
  BY BoundsAssumption DEF Init
<1>5. \A i \in Imports : imports[i].status # "failed"
  BY <1>1 DEF NoFileYet
<1>. QED BY <1>1, <1>2, <1>3, <1>4, <1>5 DEF IInv

LEMMA StepKeeps ==
    ASSUME IInv, [Next]_vars
    PROVE  IInv'
<1>1. CASE UNCHANGED vars
  BY <1>1 DEF IInv, vars
<1>2. ASSUME NEW body \in Created, Creation(body)
      PROVE  IInv'
  <2>1. Stores(contacts')
    <3>1. PICK phone, row : Upsert(phone, row) /\ Fits(phone, row)
      BY <1>2 DEF Creation
    <3>2. Stores(contacts)
      BY DEF IInv, Stores
    <3>. QED BY <3>1, <3>2, UpsertStores
  <2>2. creates' \in 0..MaxCreates
    BY <1>2, BoundsAssumption DEF Creation, IInv
  <2>3. imports' = imports /\ faults' = faults
    BY <1>2 DEF Creation
  <2>. QED BY <2>1, <2>2, <2>3 DEF IInv, Stores
<1>3. ASSUME NEW i \in Imports, Keeps(i), NoRow(i) \/ RowDone(i) \/ RowLost(i)
      PROVE  IInv'
  <2>1. imports' \in [Imports -> ImportType] /\ \A j \in Imports : j # i => imports'[j] = imports[j]
    BY <1>3 DEF NoRow, RowDone, RowLost, Alone
  <2>2. \A j \in Imports : ImportInv(imports'[j])
    BY <1>3, <2>1 DEF IInv, Keeps
  <2>3. Stores(contacts) => Stores(contacts')
    BY <1>3, WritesStores DEF NoRow, RowDone, RowLost
  <2>4. Stores(contacts')
    BY <2>3 DEF IInv, Stores
  <2>5. creates' \in 0..MaxCreates
    BY <1>3 DEF IInv, NoRow, RowDone, RowLost
  <2>6. faults' \in 0..MaxFaults /\ (faults # 0 => faults' # 0)
    BY <1>3 DEF IInv, NoRow, RowDone, RowLost
  <2>7. imports'[i].status = "failed" /\ faults' = 0 => Misfit(imports'[i])
    BY <1>3 DEF NoRow, RowDone, RowLost
  <2>8. \A j \in Imports : imports'[j].status = "failed" /\ faults' = 0 => Misfit(imports'[j])
    BY <2>1, <2>6, <2>7 DEF IInv
  <2>. QED BY <2>1, <2>2, <2>4, <2>5, <2>6, <2>8 DEF IInv, Stores
<1>. QED BY <1>1, <1>2, <1>3, StepIs

THEOREM IInvHolds == Spec => []IInv
<1>1. Init => IInv
  BY InitIs
<1>2. IInv /\ [Next]_vars => IInv'
  BY StepKeeps
<1>. QED BY <1>1, <1>2, PTL DEF Spec

(***************************************************************************)
(* The state of the imports has its types: the counts are those of the     *)
(* lines an import has been through, of a file of at most MaxRows rows.    *)
(***************************************************************************)
THEOREM TypeCorrect == Spec => []TypeOK
<1>1. ASSUME IInv, NEW i \in Imports
      PROVE  /\ Len(imports[i].file.rows) <= MaxRows /\ imports[i].next \in 1..MaxRows + 2
             /\ imports[i].total \in 0..MaxRows
             /\ imports[i].imported + imports[i].invalid <= imports[i].total
             /\ imports[i].status \in {"new", "running", "done", "failed"}
  <2>1. PICK m \in ImportType : m = imports[i] /\ ImportInv(m)
    BY <1>1 DEF IInv
  <2>2. PICK n \in Nat : n = Len(m.file.rows) /\ n <= MaxRows /\ Valid(m.file) \subseteq 1..n
    BY <2>1, ThroughBounds, BoundsAssumption
  <2>3. PICK t \in 0..n : t = ThroughOf(m)
    BY <2>1, <2>2, ThroughBounds
  <2>4. m.next \in 1..MaxRows + 2
    <3>1. PICK h \in {0, 1} : h = HeaderLines(m.file)
      BY DEF HeaderLines
    <3>2. m.next \in Nat /\ m.next >= 1 /\ m.next <= h + n + 1
      BY <2>1, <2>2, <3>1 DEF ImportInv, ImportType
    <3>. QED BY <2>2, <3>2, BoundsAssumption
  <2>5. m.total \in 0..MaxRows
    <3>1. m.status = "failed" => t + 1 \in 1..n
      BY <2>1, <2>2, <2>3 DEF ImportInv
    <3>2. m.total = t + IF m.status = "failed" THEN 1 ELSE 0
      BY <2>1, <2>3 DEF ImportInv
    <3>. QED BY <2>2, <2>3, <3>1, <3>2, BoundsAssumption
  <2>6. m.imported + m.invalid <= m.total
    <3>1. m.total = t + (IF m.status = "failed" THEN 1 ELSE 0) /\ m.invalid = t - m.imported
      BY <2>1, <2>3 DEF ImportInv
    <3>2. m.imported \in Nat
      BY <2>1 DEF ImportType
    <3>. QED BY <2>3, <3>1, <3>2
  <2>7. m.status \in {"new", "running", "done", "failed"}
    BY <2>1 DEF ImportType
  <2>. QED BY <2>1, <2>2, <2>4, <2>5, <2>6, <2>7
<1>2. IInv => TypeOK
  BY <1>1 DEF IInv, TypeOK
<1>. QED BY <1>2, IInvHolds, PTL

(***************************************************************************)
(* An answer tells what was in the spreadsheet, whatever the spelling of   *)
(* the numbers, the quotes and the line ends: the file is read back.  An   *)
(* import that ended early without a failed query stopped at a row with a  *)
(* number, one of whose values does not fit its column.                    *)
(***************************************************************************)
THEOREM AnswerTellsFileHolds == Spec => []AnswerTellsFile
<1>1. ASSUME IInv, NEW i \in Imports, imports[i].status = "done"
      PROVE  /\ imports[i].total = Len(imports[i].file.rows)
             /\ imports[i].imported = Cardinality(Valid(imports[i].file))
             /\ imports[i].invalid = imports[i].total - imports[i].imported
  <2>1. PICK m \in ImportType : m = imports[i] /\ ImportInv(m) /\ m.status = "done"
    BY <1>1 DEF IInv
  <2>2. PICK n \in Nat : n = Len(m.file.rows) /\ n = ThroughOf(m) /\ Valid(m.file) \subseteq 1..n
    BY <2>1, ThroughBounds DEF ImportInv
  <2>3. m.total = n /\ m.imported = Cardinality(Valid(m.file) \cap 1..n) /\ m.invalid = n - m.imported
    BY <2>1, <2>2 DEF ImportInv
  <2>4. Valid(m.file) \cap 1..n = Valid(m.file)
    BY <2>2
  <2>. QED BY <2>1, <2>2, <2>3, <2>4
<1>2. ASSUME IInv, NEW i \in Imports, imports[i].status = "failed", faults = 0
      PROVE  LET row == imports[i].file.rows[Through(i) + 1] IN
             IsNumber(row.phone) /\ ~Fits(Number(row.phone), RowOf(row))
  <2>1. Through(i) = ThroughOf(imports[i])
    BY DEF Through, ThroughOf
  <2>2. ThroughOf(imports[i]) + 1 \in Valid(imports[i].file)
    BY <1>2 DEF IInv, ImportInv
  <2>3. Misfit(imports[i])
    BY <1>2 DEF IInv
  <2>. QED BY <2>1, <2>2, <2>3 DEF Misfit, FitsRow, Valid
<1>3. IInv => AnswerTellsFile
  BY <1>1, <1>2 DEF AnswerTellsFile
<1>. QED BY <1>3, IInvHolds, PTL

(***************************************************************************)
(* What an import writes stays: each row it has been through is a contact  *)
(* under its number.                                                       *)
(***************************************************************************)
LEMMA KeptStep ==
    ASSUME IInv, ImportedKept, [Next]_vars
    PROVE  ImportedKept'
<1>. DEFINE Numbered(m, cs) ==
                \A k \in 1..ThroughOf(m) : k \in Valid(m.file) => Number(m.file.rows[k].phone) \in cs
<1>0. ImportedKept <=> \A i \in Imports : Numbered(imports[i], DOMAIN contacts)
  BY DEF ImportedKept, Through, ThroughOf
<1>1. ImportedKept' <=> \A i \in Imports : Numbered(imports'[i], DOMAIN contacts')
  BY DEF ImportedKept, Through, ThroughOf
<1>2. CASE UNCHANGED vars
  BY <1>0, <1>1, <1>2 DEF vars
<1>3. ASSUME NEW body \in Created, Creation(body)
      PROVE  ImportedKept'
  <2>1. DOMAIN contacts \subseteq DOMAIN contacts' /\ imports' = imports
    BY <1>3, UpsertIs DEF Creation
  <2>. QED BY <1>0, <1>1, <2>1
<1>4. ASSUME NEW i \in Imports, NoRow(i) \/ RowDone(i) \/ RowLost(i)
      PROVE  ImportedKept'
  <2>1. \A j \in Imports : j # i => imports'[j] = imports[j]
    BY <1>4 DEF NoRow, RowDone, RowLost, Alone
  <2>2. DOMAIN contacts \subseteq DOMAIN contacts'
    BY <1>4, UpsertIs DEF NoRow, RowDone, RowLost, Writes
  <2>3. PICK t \in Nat : t = ThroughOf(imports[i])
    BY ThroughBounds DEF IInv
  <2>4. Numbered(imports[i], DOMAIN contacts)
    BY <1>0
  <2>5. CASE NoRow(i) \/ RowLost(i)
    <3>1. CASE imports'[i].file = imports[i].file
      <4>1. ThroughOf(imports'[i]) = ThroughOf(imports[i])
        BY <2>5 DEF NoRow, RowLost
      <4>2. Numbered(imports'[i], DOMAIN contacts')
        BY <2>2, <2>4, <3>1, <4>1
      <4>. QED BY <1>0, <1>1, <2>1, <2>2, <4>2
    <3>2. CASE ThroughOf(imports'[i]) = 0
      <4>1. Numbered(imports'[i], DOMAIN contacts')
        BY <3>2
      <4>. QED BY <1>0, <1>1, <2>1, <2>2, <4>1
    <3>. QED BY <2>5, <3>1, <3>2 DEF NoRow, RowLost
  <2>6. CASE RowDone(i)
    <3>1. imports'[i].file = imports[i].file /\ ThroughOf(imports'[i]) = t + 1
      BY <2>3, <2>6 DEF RowDone, NextRow
    <3>2. t + 1 \in Valid(imports[i].file) => Number(imports[i].file.rows[t + 1].phone) \in DOMAIN contacts'
      BY <2>3, <2>6, UpsertIs DEF RowDone, NextRow, Writes
    <3>3. ASSUME NEW k \in 1..t + 1, k \in Valid(imports[i].file)
          PROVE  Number(imports[i].file.rows[k].phone) \in DOMAIN contacts'
      <4>1. CASE k = t + 1
        BY <3>2, <3>3, <4>1
      <4>2. CASE k \in 1..t
        BY <2>2, <2>3, <2>4, <3>3, <4>2
      <4>. QED BY <4>1, <4>2
    <3>4. Numbered(imports'[i], DOMAIN contacts')
      BY <3>1, <3>3
    <3>. QED BY <1>0, <1>1, <2>1, <2>2, <3>4
  <2>. QED BY <1>4, <2>5, <2>6
<1>. QED BY <1>2, <1>3, <1>4, StepIs

THEOREM ImportedKeptHolds == Spec => []ImportedKept
<1>1. Init => ImportedKept
  <2>1. ASSUME Init, NEW i \in Imports
        PROVE  Through(i) = 0
    BY <2>1, NoFileFacts DEF Init, Through, ThroughOf, NoFileYet
  <2>. QED BY <2>1 DEF ImportedKept
<1>2. IInv /\ ImportedKept /\ [Next]_vars => ImportedKept'
  BY KeptStep
<1>. QED BY <1>1, <1>2, IInvHolds, PTL DEF Spec

-----------------------------------------------------------------------------
(***************************************************************************)
(* Each contact has a writer: a creation, or a row of the file of an       *)
(* import that has been through it and through no later row of the same    *)
(* number since.                                                           *)
(***************************************************************************)
NoLater(m, k, p) ==
    \A j \in Valid(m.file) : k < j /\ j <= ThroughOf(m) => Number(m.file.rows[j].phone) # p
Wrote(m, k, p, c) ==
    /\ k \in Valid(m.file) /\ Number(m.file.rows[k].phone) = p /\ RowOf(m.file.rows[k]) = c
    /\ k <= ThroughOf(m) \/ m.status = "failed"
    /\ m.status # "failed" => NoLater(m, k, p)
FromFile(ims, p, c) == \E i \in Imports : \E k \in Valid(ims[i].file) : Wrote(ims[i], k, p, c)
FromCreation(n, p, c) == n > 0 /\ \E body \in Created : body.phone = p /\ Given(body) = c

WriterInv ==
    \A p \in DOMAIN contacts : \/ FromFile(imports, p, contacts[p])
                               \/ FromCreation(creates, p, contacts[p])

LEMMA ValidIsNat ==
    ASSUME NEW m \in ImportType, ImportInv(m)
    PROVE  Valid(m.file) \subseteq Nat
<1>1. PICK a \in Nat : a = Len(m.file.rows) /\ Valid(m.file) \subseteq 1..a
  BY ThroughBounds
<1>. QED BY <1>1

\* A writer stays one when its import passes no row of the number.
LEMMA WroteStays ==
    ASSUME IInv, NEW i \in Imports, NEW k, NEW p, NEW c, Wrote(imports[i], k, p, c),
           NoRow(i) \/ RowLost(i)
    PROVE  Wrote(imports'[i], k, p, c)
<1>1. PICK m \in ImportType : m = imports[i] /\ Wrote(m, k, p, c) /\ ImportInv(m)
  BY DEF IInv
<1>2. PICK n \in ImportType : n = imports'[i]
  BY DEF NoRow, RowLost, Alone
<1>3. Valid(m.file) # {}
  BY <1>1 DEF Wrote
<1>4. n.file = m.file /\ ThroughOf(n) = ThroughOf(m) /\ m.status # "failed"
  BY <1>1, <1>2, <1>3 DEF NoRow, RowLost
<1>5. NoLater(m, k, p) /\ k <= ThroughOf(m)
  BY <1>1, <1>4 DEF Wrote
<1>6. NoLater(n, k, p) /\ k <= ThroughOf(n)
  BY <1>4, <1>5 DEF NoLater
<1>. QED BY <1>1, <1>2, <1>4, <1>6 DEF Wrote

LEMMA WrotePasses ==
    ASSUME IInv, NEW i \in Imports, NEW k, NEW p, NEW c, Wrote(imports[i], k, p, c), RowDone(i),
           NextRow(i) \in Valid(imports[i].file) => Number(imports[i].file.rows[NextRow(i)].phone) # p
    PROVE  Wrote(imports'[i], k, p, c)
<1>1. PICK m \in ImportType : m = imports[i] /\ Wrote(m, k, p, c) /\ ImportInv(m)
  BY DEF IInv
<1>2. PICK n \in ImportType : n = imports'[i]
  BY DEF RowDone, Alone
<1>3. PICK t \in Nat : t = ThroughOf(m)
  BY <1>1, ThroughBounds
<1>4. n.file = m.file /\ ThroughOf(n) = t + 1 /\ m.status # "failed"
  BY <1>1, <1>2, <1>3 DEF RowDone, NextRow
<1>5. NoLater(m, k, p) /\ k <= t /\ k \in Valid(m.file)
  BY <1>1, <1>3, <1>4 DEF Wrote
<1>6. t + 1 \in Valid(m.file) => Number(m.file.rows[t + 1].phone) # p
  BY <1>1, <1>3 DEF NextRow
<1>7. Valid(m.file) \subseteq Nat
  BY <1>1, ValidIsNat
<1>8. ASSUME NEW j \in Valid(m.file), k < j, j <= t + 1
      PROVE  Number(m.file.rows[j].phone) # p
  <2>1. j = t + 1 \/ j <= t
    BY <1>3, <1>7, <1>8
  <2>. QED BY <1>3, <1>5, <1>6, <1>8, <2>1 DEF NoLater
<1>9. NoLater(n, k, p) /\ k <= ThroughOf(n)
  <2>1. k <= t + 1
    BY <1>3, <1>5, <1>7
  <2>. QED BY <1>4, <1>8, <2>1 DEF NoLater
<1>. QED BY <1>1, <1>2, <1>4, <1>9 DEF Wrote

\* Whoever wrote a contact that a step leaves alone still wrote it.
LEMMA FromFileStays ==
    ASSUME IInv, NEW i \in Imports, NEW p, NEW c, FromFile(imports, p, c),
           \/ NoRow(i) \/ RowLost(i)
           \/ /\ RowDone(i)
              /\ NextRow(i) \in Valid(imports[i].file) =>
                     Number(imports[i].file.rows[NextRow(i)].phone) # p
    PROVE  FromFile(imports', p, c)
<1>0. PICK j \in Imports : \E k \in Valid(imports[j].file) : Wrote(imports[j], k, p, c)
  BY DEF FromFile
<1>1. PICK k \in Valid(imports[j].file) : Wrote(imports[j], k, p, c)
  BY <1>0
<1>2. Wrote(imports'[j], k, p, c)
  <2>1. CASE j = i
    BY <1>1, <2>1, WroteStays, WrotePasses
  <2>2. CASE j # i
    BY <1>1, <2>2 DEF NoRow, RowDone, RowLost, Alone
  <2>. QED BY <2>1, <2>2
<1>3. k \in Valid(imports'[j].file)
  BY <1>2 DEF Wrote
<1>. QED BY <1>2, <1>3 DEF FromFile

\* The row of a step is the writer of what the step writes.
LEMMA StepWrote ==
    ASSUME IInv, NEW i \in Imports, RowDone(i) \/ RowLost(i), NextRow(i) \in Valid(imports[i].file)
    PROVE  LET row == imports[i].file.rows[NextRow(i)] IN
           FromFile(imports', Number(row.phone), RowOf(row))
<1>1. PICK m \in ImportType : m = imports[i] /\ ImportInv(m)
  BY DEF IInv
<1>2. PICK n \in ImportType : n = imports'[i]
  BY DEF RowDone, RowLost, Alone
<1>3. PICK t \in Nat : t = ThroughOf(m)
  BY <1>1, ThroughBounds
<1>4. n.file = m.file /\ NextRow(i) = t + 1 /\ t + 1 \in Valid(m.file) /\ Valid(m.file) \subseteq Nat
  <2>1. NextRow(i) = t + 1
    BY <1>1, <1>3 DEF NextRow
  <2>2. n.file = m.file
    BY <1>1, <1>2 DEF RowDone, RowLost
  <2>. QED BY <1>1, <2>1, <2>2, ValidIsNat
<1>5. PICK row : row = m.file.rows[t + 1]
  OBVIOUS
<1>6. CASE ThroughOf(n) = t + 1
  <2>1. NoLater(n, t + 1, Number(row.phone))
    BY <1>3, <1>4, <1>6 DEF NoLater
  <2>2. Wrote(n, t + 1, Number(row.phone), RowOf(row))
    BY <1>3, <1>4, <1>5, <1>6, <2>1 DEF Wrote
  <2>. QED BY <1>1, <1>2, <1>4, <1>5, <2>2 DEF FromFile
<1>7. CASE n.status = "failed"
  <2>1. Wrote(n, t + 1, Number(row.phone), RowOf(row))
    BY <1>4, <1>5, <1>7 DEF Wrote
  <2>. QED BY <1>1, <1>2, <1>4, <1>5, <2>1 DEF FromFile
<1>. QED BY <1>1, <1>2, <1>3, <1>4, <1>6, <1>7 DEF RowDone, RowLost

LEMMA WriterStep ==
    ASSUME IInv, WriterInv, [Next]_vars
    PROVE  WriterInv'
<1>1. CASE UNCHANGED vars
  BY <1>1 DEF vars, WriterInv
<1>2. ASSUME NEW body \in Created, Creation(body)
      PROVE  WriterInv'
  <2>1. /\ DOMAIN contacts' = DOMAIN contacts \cup {body.phone} /\ contacts'[body.phone] = Given(body)
        /\ \A p \in DOMAIN contacts : p # body.phone => contacts'[p] = contacts[p]
        /\ imports' = imports /\ creates' = creates + 1 /\ creates \in Nat
    <3>1. creates \in Nat /\ creates' = creates + 1 /\ imports' = imports
      BY <1>2, BoundsAssumption DEF Creation, IInv
    <3>2. PICK r : r = Given(body) /\ Upsert(body.phone, r)
      BY <1>2 DEF Creation
    <3>. QED BY <3>1, <3>2, UpsertIs
  <2>2. FromCreation(creates', body.phone, Given(body))
    BY <2>1 DEF FromCreation
  <2>3. ASSUME NEW p, NEW c, FromCreation(creates, p, c)
        PROVE  FromCreation(creates', p, c)
    BY <2>1, <2>3 DEF FromCreation
  <2>4. ASSUME NEW p \in DOMAIN contacts'
        PROVE  FromFile(imports', p, contacts'[p]) \/ FromCreation(creates', p, contacts'[p])
    <3>1. CASE p = body.phone
      BY <2>1, <2>2, <3>1
    <3>2. CASE p # body.phone
      <4>1. p \in DOMAIN contacts /\ contacts'[p] = contacts[p]
        BY <2>1, <2>4, <3>2
      <4>. QED BY <2>1, <2>3, <4>1 DEF WriterInv
    <3>. QED BY <3>1, <3>2
  <2>. QED BY <2>4 DEF WriterInv
<1>3. ASSUME NEW i \in Imports, NoRow(i) \/ RowDone(i) \/ RowLost(i)
      PROVE  WriterInv'
  <2>1. PICK number, r : /\ number = Number(imports[i].file.rows[NextRow(i)].phone)
                         /\ r = RowOf(imports[i].file.rows[NextRow(i)])
    OBVIOUS
  <2>2. creates' = creates
    BY <1>3 DEF NoRow, RowDone, RowLost
  <2>3. CASE UNCHANGED contacts /\ (RowDone(i) => NextRow(i) \notin Valid(imports[i].file))
    <3>1. ASSUME NEW p \in DOMAIN contacts
          PROVE  FromFile(imports', p, contacts[p]) \/ FromCreation(creates', p, contacts[p])
      <4>1. FromFile(imports, p, contacts[p]) \/ FromCreation(creates', p, contacts[p])
        BY <2>2 DEF WriterInv
      <4>2. CASE FromFile(imports, p, contacts[p])
        <5>1. PICK c : c = contacts[p]
          OBVIOUS
        <5>2. FromFile(imports', p, c)
          BY <1>3, <2>3, <4>2, <5>1, FromFileStays
        <5>. QED BY <5>1, <5>2
      <4>. QED BY <4>1, <4>2
    <3>. QED BY <2>3, <3>1 DEF WriterInv
  <2>4. CASE Writes(i) /\ NextRow(i) \in Valid(imports[i].file) /\ (RowDone(i) \/ RowLost(i))
    <3>1. /\ DOMAIN contacts' = DOMAIN contacts \cup {number} /\ contacts'[number] = r
          /\ \A p \in DOMAIN contacts : p # number => contacts'[p] = contacts[p]
      BY <2>1, <2>4, UpsertIs DEF Writes
    <3>2. FromFile(imports', number, r)
      BY <2>1, <2>4, StepWrote
    <3>3. ASSUME NEW p \in DOMAIN contacts'
          PROVE  FromFile(imports', p, contacts'[p]) \/ FromCreation(creates', p, contacts'[p])
      <4>1. CASE p = number
        BY <3>1, <3>2, <4>1
      <4>2. CASE p # number
        <5>1. PICK c : c = contacts[p] /\ c = contacts'[p] /\ p \in DOMAIN contacts
          BY <3>1, <3>3, <4>2
        <5>2. FromFile(imports, p, c) \/ FromCreation(creates', p, c)
          BY <2>2, <5>1 DEF WriterInv
        <5>3. CASE FromFile(imports, p, c)
          <6>1. FromFile(imports', p, c)
            BY <2>1, <2>4, <4>2, <5>3, FromFileStays
          <6>. QED BY <5>1, <6>1
        <5>. QED BY <5>1, <5>2, <5>3
      <4>. QED BY <4>1, <4>2
    <3>. QED BY <3>3 DEF WriterInv
  <2>. QED BY <1>3, <2>3, <2>4 DEF NoRow, RowDone, RowLost
<1>. QED BY <1>1, <1>2, <1>3, StepIs

LEMMA WriterHolds == Spec => []WriterInv
<1>1. Init => WriterInv
  BY DEF Init, WriterInv
<1>2. IInv /\ WriterInv /\ [Next]_vars => WriterInv'
  BY WriterStep
<1>. QED BY <1>1, <1>2, IInvHolds, PTL DEF Spec

(***************************************************************************)
(* No contact is mixed from two rows.                                      *)
(***************************************************************************)
THEOREM RowsFromFilesHolds == Spec => []RowsFromFiles
<1>1. ASSUME WriterInv, NEW p \in DOMAIN contacts
      PROVE  \/ \E i \in Imports : \E k \in Valid(imports[i].file) :
                    LET row == imports[i].file.rows[k] IN
                    Number(row.phone) = p /\ RowOf(row) = contacts[p]
             \/ creates > 0 /\ \E body \in Created : body.phone = p /\ Given(body) = contacts[p]
  BY <1>1 DEF WriterInv, FromFile, FromCreation, Wrote
<1>2. WriterInv => RowsFromFiles
  BY <1>1 DEF RowsFromFiles
<1>. QED BY <1>2, WriterHolds, PTL

(***************************************************************************)
(* A file that is sent again leaves what one import leaves: once all       *)
(* imports are done with it no row is later than the writer of a contact.  *)
(***************************************************************************)
THEOREM RepeatChangesNothingHolds == Spec => []RepeatChangesNothing
<1>1. ASSUME IInv, ImportedKept, WriterInv, creates = 0, NEW file \in Files,
             NEW a \in Imports, imports[a].status = "done", imports[a].file = file,
             \A i \in Imports : imports[i].status # "new" =>
                                    imports[i].status = "done" /\ imports[i].file = file
      PROVE  /\ DOMAIN contacts = Numbers(file)
             /\ \A p \in DOMAIN contacts : contacts[p] = RowOf(LastRow(file, p))
  <2>1. PICK n \in Nat : n = Len(file.rows) /\ Valid(file) \subseteq 1..n
    BY <1>1, ThroughBounds DEF IInv
  <2>2. ASSUME NEW i \in Imports, imports[i].status = "done"
        PROVE  ThroughOf(imports[i]) = n /\ imports[i].file = file
    BY <1>1, <2>1, <2>2 DEF IInv, ImportInv
  <2>3. ASSUME NEW p \in DOMAIN contacts
        PROVE  p \in Numbers(file) /\ contacts[p] = RowOf(LastRow(file, p))
    <3>0. PICK i \in Imports : \E k \in Valid(imports[i].file) : Wrote(imports[i], k, p, contacts[p])
      BY <1>1, <2>3 DEF WriterInv, FromFile, FromCreation
    <3>1. PICK k \in Valid(imports[i].file) : Wrote(imports[i], k, p, contacts[p])
      BY <3>0
    <3>2. imports[i].status = "done" /\ imports[i].file = file
      <4>1. imports[i].status # "new"
        BY <1>1, <3>1, NoFileFacts DEF IInv, ImportInv
      <4>. QED BY <1>1, <4>1
    <3>3. /\ k \in Valid(file) /\ Number(file.rows[k].phone) = p /\ RowOf(file.rows[k]) = contacts[p]
          /\ NoLater(imports[i], k, p)
      BY <3>1, <3>2 DEF Wrote
    <3>4. PICK same : same = {j \in Valid(file) : Number(file.rows[j].phone) = p}
      OBVIOUS
    <3>5. k \in same /\ same \in SUBSET (1..n) /\ \A j \in same : j <= k
      BY <2>1, <2>2, <3>2, <3>3, <3>4 DEF NoLater
    <3>6. PICK last : last = Max(same) /\ last \in same /\ \A j \in same : j <= last
      BY <3>5, MaxIn DEF Indices
    <3>7. last = k
      BY <3>5, <3>6
    <3>8. contacts[p] = RowOf(LastRow(file, p))
      BY <3>3, <3>4, <3>6, <3>7 DEF LastRow
    <3>. QED BY <3>3, <3>8 DEF Numbers
  <2>4. ASSUME NEW p \in Numbers(file)
        PROVE  p \in DOMAIN contacts
    <3>1. PICK k \in Valid(file) : p = Number(file.rows[k].phone)
      BY <2>4 DEF Numbers
    <3>2. k \in 1..Through(a)
      BY <1>1, <2>1, <2>2, <3>1 DEF Through, ThroughOf
    <3>. QED BY <1>1, <3>1, <3>2 DEF ImportedKept
  <2>. QED BY <2>3, <2>4
<1>2. IInv /\ ImportedKept /\ WriterInv => RepeatChangesNothing
  <2>. SUFFICES ASSUME IInv, ImportedKept, WriterInv, creates = 0, NEW a \in Imports,
                       imports[a].status # "new",
                       \A i \in Imports : imports[i].status # "new" => imports[i].status = "done",
                       NEW file,
                       \A i \in Imports : imports[i].status # "new" => imports[i].file = file
                PROVE  /\ DOMAIN contacts = Numbers(file)
                       /\ \A p \in DOMAIN contacts : contacts[p] = RowOf(LastRow(file, p))
    BY DEF RepeatChangesNothing
  <2>1. file \in Files /\ imports[a].file = file /\ imports[a].status = "done"
    BY DEF IInv, ImportType
  <2>. QED BY <1>1, <2>1
<1>. QED BY <1>2, IInvHolds, ImportedKeptHolds, WriterHolds, PTL
===============================================================================
