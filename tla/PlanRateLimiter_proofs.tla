------------------------ MODULE PlanRateLimiter_proofs ------------------------
(***************************************************************************)
(* The limits of a minute's key and of a minute of real time hold for      *)
(* every number of callers, every limit, time to live and skew of the      *)
(* clocks, however long a command takes and however often one is lost.     *)
(***************************************************************************)
EXTENDS PlanRateLimiter, FiniteSetTheorems, TLAPS

USE LimitAssumption, TimeAssumption

\* Any increment under k from now on is late.
Closed(k) == k * Window + Ttl <= now + MaxSkew

\* The first calls of a key, which are allowed once it has its time to live.
Pending(c, k) == pc[c] = "expire" /\ key[c] = k /\ Limit # 0
Pend(k) == {c \in Callers : Pending(c, k)}
Used(k) == granted[k] + Cardinality(Pend(k))

\* A key with count n, of whose increments l were late, lets u calls through:
\* before the last late one Limit each time, since then as many as it counts.
Room(u, n, l, closed) ==
    /\ n = 0 => u <= Limit * (1 + l) /\ (u = 0 \/ closed)
    /\ n > 0 => u <= Limit * l + IF n <= Limit THEN n ELSE Limit

(***************************************************************************)
(* A call on its way took its key from its clock.  A key with a time to    *)
(* live lives until it is closed, and while it does there is room for the  *)
(* calls allowed and those still to be allowed.                            *)
(***************************************************************************)
CallInv == \A c \in Callers :
    /\ asked[c] <= now
    /\ pc[c] # "idle" => /\ key[c] * Window <= asked[c] + MaxSkew
                         /\ asked[c] < (key[c] + 1) * Window
ExpiryInv == \A k \in Keys : expiry[k] # 0 => k * Window + Ttl <= expiry[k] + MaxSkew
CountInv == \A k \in Keys : Room(Used(k), count[k], late[k], Closed(k))

IInv == TypeOK /\ CallInv /\ ExpiryInv /\ CountInv

\* The end of a window is one window after its start.
LEMMA WindowEnd ==
    ASSUME NEW k \in Keys
    PROVE  /\ k * Window \in Int
           /\ (k + 1) * Window \in Int
           /\ (k + 1) * Window = k * Window + Window
  BY DEF Keys

\* A call that ends, allowed or not, keeps the types.
LEMMA AnswerType ==
    ASSUME TypeOK, CallInv, NEW c \in Callers, NEW n, Answer(c, n)
    PROVE  granted' \in [Keys -> Nat] /\ grants' \in Seq([at : 0..MaxTime, took : 0..MaxTime])
<1>1. CASE UNCHANGED <<granted, grants>>
  BY <1>1 DEF TypeOK
<1>2. CASE Grant(c)
  <2>1. granted' \in [Keys -> Nat]
    BY <1>2 DEF TypeOK, Grant
  <2>2. now \in 0..MaxTime /\ now - asked[c] \in 0..MaxTime
    BY DEF TypeOK, CallInv
  <2>3. PICK r \in [at : 0..MaxTime, took : 0..MaxTime] : r = [at |-> now, took |-> now - asked[c]]
    BY <2>2
  <2>4. grants' = Append(grants, r) /\ grants \in Seq([at : 0..MaxTime, took : 0..MaxTime])
    BY <1>2, <2>3 DEF TypeOK, Grant
  <2>5. grants' \in Seq([at : 0..MaxTime, took : 0..MaxTime])
    BY <2>4
  <2>. QED BY <2>1, <2>5
<1>. QED BY <1>1, <1>2 DEF Answer

LEMMA ReturnType ==
    ASSUME TypeOK, NEW c \in Callers, Return(c)
    PROVE  /\ pc' \in [Callers -> {"idle", "incr", "expire"}]
           /\ key' \in [Callers -> Keys]
           /\ asked' \in [Callers -> 0..MaxTime]
<1>1. 0 \in Keys /\ 0 \in 0..MaxTime
  BY DEF Keys
<1>. QED BY <1>1 DEF TypeOK, Return

\* What Redis executes keeps the types.
LEMMA IncrementType ==
    ASSUME TypeOK, NEW c \in Callers, Increment(c)
    PROVE  count' \in [Keys -> Nat] /\ late' \in [Keys -> Nat]
<1>1. PICK b \in {0, 1} : b = IF Late(c) THEN 1 ELSE 0
  OBVIOUS
<1>2. count' = [count EXCEPT ![key[c]] = @ + 1] /\ late' = [late EXCEPT ![key[c]] = @ + b]
  BY <1>1 DEF Increment
<1>3. key[c] \in Keys /\ count[key[c]] + 1 \in Nat /\ late[key[c]] + b \in Nat
  BY DEF TypeOK
<1>. QED BY <1>2, <1>3 DEF TypeOK

LEMMA ExpiryType ==
    ASSUME TypeOK, NEW c \in Callers, SetExpiry(c)
    PROVE  expiry' \in [Keys -> Nat]
<1>1. key[c] \in Keys /\ now + Ttl \in Nat /\ expiry[key[c]] \in Nat
  BY DEF TypeOK
<1>2. PICK e : e = IF count[key[c]] > 0 THEN now + Ttl ELSE expiry[key[c]]
  OBVIOUS
<1>3. e \in Nat
  BY <1>1, <1>2
<1>4. expiry' = [expiry EXCEPT ![key[c]] = e]
  BY <1>2 DEF SetExpiry
<1>. QED BY <1>3, <1>4 DEF TypeOK

LEMMA ExecutedType ==
    ASSUME TypeOK, NEW c \in Callers, Executed(c) \/ UNCHANGED <<count, expiry, late>>
    PROVE  count' \in [Keys -> Nat] /\ late' \in [Keys -> Nat] /\ expiry' \in [Keys -> Nat]
<1>1. CASE Increment(c) /\ UNCHANGED expiry
  BY <1>1, IncrementType DEF TypeOK
<1>2. CASE SetExpiry(c) /\ UNCHANGED <<count, late>>
  BY <1>2, ExpiryType DEF TypeOK
<1>3. CASE UNCHANGED <<count, expiry, late>>
  BY <1>3 DEF TypeOK
<1>. QED BY <1>1, <1>2, <1>3 DEF Executed

\* Every step keeps the types.
LEMMA TypeStep == TypeOK /\ CallInv /\ [Next]_vars => TypeOK'
<1>. SUFFICES ASSUME TypeOK, CallInv, [Next]_vars PROVE TypeOK'
  OBVIOUS
<1>1. ASSUME NEW c \in Callers, Incr(c) PROVE TypeOK'
  <2>1. count' \in [Keys -> Nat] /\ late' \in [Keys -> Nat]
    BY <1>1, IncrementType DEF Incr
  <2>2. CASE pc' = [pc EXCEPT ![c] = "expire"] /\ UNCHANGED <<key, asked, granted, grants>>
    <3>1. pc' \in [Callers -> {"idle", "incr", "expire"}]
      BY <2>2 DEF TypeOK
    <3>2. UNCHANGED <<now, skew, expiry, lost, key, asked, granted, grants>>
      BY <1>1, <2>2 DEF Incr
    <3>. QED BY <2>1, <3>1, <3>2 DEF TypeOK
  <2>3. CASE \E n : Answer(c, n)
    <3>1. granted' \in [Keys -> Nat] /\ grants' \in Seq([at : 0..MaxTime, took : 0..MaxTime])
      BY <2>3, AnswerType
    <3>2. /\ pc' \in [Callers -> {"idle", "incr", "expire"}]
          /\ key' \in [Callers -> Keys]
          /\ asked' \in [Callers -> 0..MaxTime]
      BY <2>3, ReturnType DEF Answer
    <3>3. UNCHANGED <<now, skew, expiry, lost>>
      BY <1>1 DEF Incr
    <3>. QED BY <2>1, <3>1, <3>2, <3>3 DEF TypeOK
  <2>. QED BY <1>1, <2>2, <2>3 DEF Incr
<1>2. ASSUME NEW c \in Callers, Expire(c) PROVE TypeOK'
  <2>1. expiry' \in [Keys -> Nat]
    BY <1>2, ExpiryType DEF Expire
  <2>2. granted' \in [Keys -> Nat] /\ grants' \in Seq([at : 0..MaxTime, took : 0..MaxTime])
    BY <1>2, AnswerType DEF Expire
  <2>3. /\ pc' \in [Callers -> {"idle", "incr", "expire"}]
        /\ key' \in [Callers -> Keys]
        /\ asked' \in [Callers -> 0..MaxTime]
    BY <1>2, ReturnType DEF Expire, Answer
  <2>4. UNCHANGED <<now, skew, count, late, lost>>
    BY <1>2 DEF Expire
  <2>. QED BY <2>1, <2>2, <2>3, <2>4 DEF TypeOK
<1>3. ASSUME NEW c \in Callers, Lose(c) PROVE TypeOK'
  <2>1. count' \in [Keys -> Nat] /\ late' \in [Keys -> Nat] /\ expiry' \in [Keys -> Nat]
    BY <1>3, ExecutedType DEF Lose
  <2>2. /\ pc' \in [Callers -> {"idle", "incr", "expire"}]
        /\ key' \in [Callers -> Keys]
        /\ asked' \in [Callers -> 0..MaxTime]
    BY <1>3, ReturnType DEF Lose
  <2>3. lost' \in Nat /\ UNCHANGED <<now, skew, granted, grants>>
    BY <1>3 DEF Lose, TypeOK
  <2>. QED BY <2>1, <2>2, <2>3 DEF TypeOK
<1>4. ASSUME NEW c \in Callers, Resend(c) PROVE TypeOK'
  <2>1. count' \in [Keys -> Nat] /\ late' \in [Keys -> Nat] /\ expiry' \in [Keys -> Nat]
    BY <1>4, ExecutedType DEF Resend
  <2>2. lost' \in Nat /\ UNCHANGED <<now, skew, pc, key, asked, granted, grants>>
    BY <1>4 DEF Resend, TypeOK
  <2>. QED BY <2>1, <2>2 DEF TypeOK
<1>5. ASSUME NEW c \in Callers, NEW k \in Keys, Ask(c, k) PROVE TypeOK'
  <2>1. /\ pc' \in [Callers -> {"idle", "incr", "expire"}]
        /\ key' \in [Callers -> Keys]
        /\ asked' \in [Callers -> 0..MaxTime]
    BY <1>5 DEF Ask, TypeOK
  <2>2. UNCHANGED <<now, skew, count, expiry, granted, late, grants, lost>>
    BY <1>5 DEF Ask
  <2>. QED BY <2>1, <2>2 DEF TypeOK
<1>6. CASE Tick
  <2>1. count' \in [Keys -> Nat]
    BY <1>6 DEF Tick, TypeOK
  <2>2. expiry' \in [Keys -> Nat]
    BY <1>6 DEF Tick, TypeOK
  <2>3. now' \in 0..MaxTime /\ UNCHANGED <<skew, pc, key, asked, granted, late, grants, lost>>
    BY <1>6 DEF Tick, TypeOK
  <2>. QED BY <2>1, <2>2, <2>3 DEF TypeOK
<1>7. CASE UNCHANGED vars
  BY <1>7 DEF vars, TypeOK
<1>. QED BY <1>1, <1>2, <1>3, <1>4, <1>5, <1>6, <1>7 DEF Next

\* What a step does with the calls.
LEMMA CallSteps ==
    ASSUME TypeOK, [Next]_vars
    PROVE  \/ now' = now /\ UNCHANGED <<key, asked>> /\ \A c \in Callers : pc'[c] # "idle" => pc[c] # "idle"
           \/ \E c \in Callers : now' = now /\ Return(c)
           \/ \E c \in Callers, k \in Keys : Ask(c, k)
           \/ now' = now + 1 /\ UNCHANGED <<pc, key, asked>>
<1>1. ASSUME NEW c \in Callers, Incr(c)
      PROVE  \/ UNCHANGED <<now, key, asked>> /\ \A d \in Callers : pc'[d] # "idle" => pc[d] # "idle"
             \/ now' = now /\ Return(c)
  <2>1. CASE pc' = [pc EXCEPT ![c] = "expire"] /\ UNCHANGED <<key, asked, granted, grants>>
    <3>1. \A d \in Callers : pc'[d] # "idle" => pc[d] # "idle"
      BY <1>1, <2>1 DEF Incr, TypeOK
    <3>. QED BY <1>1, <2>1, <3>1 DEF Incr
  <2>2. CASE \E n : Answer(c, n)
    BY <1>1, <2>2 DEF Incr, Answer
  <2>. QED BY <1>1, <2>1, <2>2 DEF Incr
<1>2. ASSUME NEW c \in Callers, Expire(c) \/ Lose(c)
      PROVE  now' = now /\ Return(c)
  BY <1>2 DEF Expire, Lose, Answer
<1>3. ASSUME NEW c \in Callers, Resend(c)
      PROVE  UNCHANGED <<now, key, asked, pc>>
  BY <1>3 DEF Resend
<1>4. CASE Tick
  BY <1>4 DEF Tick
<1>5. CASE UNCHANGED vars
  BY <1>5 DEF vars
<1>. QED BY <1>1, <1>2, <1>3, <1>4, <1>5 DEF Next

\* Every step keeps the calls on their way at the window they took.
LEMMA CallStep == TypeOK /\ CallInv /\ [Next]_vars => CallInv'
<1>. SUFFICES ASSUME TypeOK, CallInv, [Next]_vars PROVE CallInv'
  OBVIOUS
<1>0. now \in Nat
  BY DEF TypeOK
<1>1. CASE now' = now /\ UNCHANGED <<key, asked>> /\ \A c \in Callers : pc'[c] # "idle" => pc[c] # "idle"
  BY <1>1 DEF CallInv
<1>2. ASSUME NEW c \in Callers, now' = now, Return(c) PROVE CallInv'
  <2>1. \A d \in Callers : \/ asked'[d] = asked[d] /\ key'[d] = key[d] /\ pc'[d] = pc[d]
                           \/ pc'[d] = "idle" /\ asked'[d] = 0
    BY <1>2 DEF Return, TypeOK
  <2>. QED BY <1>0, <1>2, <2>1 DEF CallInv
<1>3. ASSUME NEW c \in Callers, NEW k \in Keys, Ask(c, k) PROVE CallInv'
  <2>1. k * Window <= now + MaxSkew /\ now < (k + 1) * Window
    <3>1. k * Window <= now + skew[c] /\ now + skew[c] < (k + 1) * Window
      BY <1>3 DEF Ask, IsWindow
    <3>2. skew[c] \in 0..MaxSkew
      BY DEF TypeOK
    <3>. QED BY <1>0, <3>1, <3>2, WindowEnd
  <2>2. \A d \in Callers : \/ asked'[d] = asked[d] /\ key'[d] = key[d] /\ pc'[d] = pc[d]
                           \/ asked'[d] = now /\ key'[d] = k
    BY <1>3 DEF Ask, TypeOK
  <2>3. now' = now
    BY <1>3 DEF Ask
  <2>. QED BY <1>0, <2>1, <2>2, <2>3 DEF CallInv
<1>4. CASE now' = now + 1 /\ UNCHANGED <<pc, key, asked>>
  <2>1. \A c \in Callers : asked[c] <= now + 1
    BY <1>0 DEF CallInv, TypeOK
  <2>. QED BY <1>4, <2>1 DEF CallInv
<1>. QED BY <1>1, <1>2, <1>3, <1>4, CallSteps

\* Every step keeps the keys alive until they are closed.
LEMMA ExpiryStep == TypeOK /\ CallInv /\ ExpiryInv /\ [Next]_vars => ExpiryInv'
<1>. SUFFICES ASSUME TypeOK, CallInv, ExpiryInv, [Next]_vars PROVE ExpiryInv'
  OBVIOUS
<1>1. ASSUME NEW c \in Callers, pc[c] # "idle", SetExpiry(c) PROVE ExpiryInv'
  <2>1. key[c] * Window + Ttl <= now + Ttl + MaxSkew
    <3>1. key[c] * Window \in Int
      BY WindowEnd DEF TypeOK
    <3>2. asked[c] \in Nat /\ now \in Nat
      BY DEF TypeOK
    <3>. QED BY <1>1, <3>1, <3>2 DEF CallInv
  <2>2. \A k \in Keys : expiry'[k] = expiry[k] \/ (k = key[c] /\ expiry'[k] = now + Ttl)
    BY <1>1 DEF SetExpiry, TypeOK
  <2>. QED BY <2>1, <2>2 DEF ExpiryInv
<1>2. CASE Tick
  BY <1>2 DEF Tick, ExpiryInv
<1>3. CASE UNCHANGED expiry
  BY <1>3 DEF ExpiryInv
<1>. QED BY <1>1, <1>2, <1>3 DEF Next, Incr, Expire, Lose, Resend, Executed, Ask, vars

-----------------------------------------------------------------------------
\* More late increments leave no less room.
LEMMA MoreLate ==
    ASSUME NEW l \in Nat, NEW m \in Nat, l <= m
    PROVE  /\ Limit * l \in Nat /\ Limit * l <= Limit * m
           /\ Limit * (1 + l) = Limit * l + Limit /\ Limit * (1 + l) <= Limit * (1 + m)
<1>1. PICK d \in Nat : m = l + d
  <2>1. m - l \in Nat /\ m = l + (m - l)
    OBVIOUS
  <2>. QED BY <2>1
<1>2. Limit * m = Limit * l + Limit * d /\ Limit * d \in Nat /\ Limit * l \in Nat
  BY <1>1
<1>3. Limit * (1 + l) = Limit * l + Limit /\ Limit * (1 + m) = Limit * m + Limit
  OBVIOUS
<1>. QED BY <1>2, <1>3

\* Room is kept when no more calls go through, and the key is not counted,
LEMMA RoomKept ==
    ASSUME NEW u \in Nat, NEW v \in Nat, NEW n \in Nat, NEW l \in Nat, NEW m \in Nat,
           NEW a \in BOOLEAN, NEW b \in BOOLEAN,
           Room(u, n, l, a), v <= u, l <= m, a => b
    PROVE  Room(v, n, m, b)
<1>1. Limit * l \in Nat /\ Limit * m \in Nat /\ Limit * l <= Limit * m /\ Limit * (1 + l) <= Limit * (1 + m)
  BY MoreLate
<1>2. Limit * (1 + l) \in Nat /\ Limit * (1 + m) \in Nat
  OBVIOUS
<1>. QED BY <1>1, <1>2 DEF Room

\* when it is counted, and a call goes through within the limit, or late,
OneCounted(u, v, n, l, m, closed) ==
    /\ v <= u \/ (v = u + 1 /\ n + 1 <= Limit)
    /\ m = l + 1 \/ (m = l /\ ~closed)
LEMMA RoomCounted ==
    ASSUME NEW u \in Nat, NEW v \in Nat, NEW n \in Nat, NEW l \in Nat, NEW m \in Nat,
           NEW a \in BOOLEAN, NEW b \in BOOLEAN,
           Room(u, n, l, a), OneCounted(u, v, n, l, m, a)
    PROVE  Room(v, n + 1, m, b)
<1>0. /\ v <= u \/ (v = u + 1 /\ n + 1 <= Limit)
      /\ m = l + 1 \/ (m = l /\ ~a)
  BY DEF OneCounted
<1>1. Limit * l \in Nat /\ Limit * m \in Nat /\ Limit * l <= Limit * m /\ Limit * (1 + l) = Limit * l + Limit
  BY <1>0, MoreLate
<1>2. CASE n > 0
  BY <1>0, <1>1, <1>2 DEF Room
<1>3. CASE n = 0 /\ m = l + 1
  <2>1. u <= Limit * m
    BY <1>1, <1>3 DEF Room
  <2>. QED BY <1>0, <1>1, <1>3, <2>1 DEF Room
<1>4. CASE n = 0 /\ m = l /\ ~a
  BY <1>0, <1>1, <1>4 DEF Room
<1>. QED BY <1>0, <1>2, <1>3, <1>4

\* and when the key expires.
LEMMA RoomGone ==
    ASSUME NEW u \in Nat, NEW n \in Nat, NEW l \in Nat, NEW a, Room(u, n, l, a), n > 0
    PROVE  Room(u, 0, l, TRUE)
<1>1. Limit * l \in Nat /\ Limit * (1 + l) = Limit * l + Limit
  BY MoreLate
<1>. QED BY <1>1 DEF Room

\* The callers that are about to be allowed can be counted.
LEMMA PendFinite ==
    ASSUME TypeOK, NEW k \in Keys
    PROVE  IsFiniteSet(Pend(k)) /\ Cardinality(Pend(k)) \in Nat /\ Used(k) \in Nat
<1>1. Pend(k) \subseteq Callers
  BY DEF Pend
<1>2. IsFiniteSet(Pend(k)) /\ Cardinality(Pend(k)) \in Nat
  BY <1>1, CallersAssumption, FS_Subset, FS_CardinalityType
<1>. QED BY <1>2 DEF TypeOK, Used

\* An increment that is not late is under a key that is not closed.
LEMMA OpenKey ==
    ASSUME TypeOK, CallInv, NEW c \in Callers, pc[c] # "idle", ~Late(c)
    PROVE  ~Closed(key[c])
<1>1. key[c] \in Keys /\ asked[c] \in Nat /\ now \in Nat
  BY DEF TypeOK
<1>2. asked[c] < key[c] * Window + Window
  BY <1>1, WindowEnd DEF CallInv
<1>. QED BY <1>1, <1>2, WindowEnd DEF Late, Slack, Closed

\* What an increment of c means for each key.
Counted(c) == \A k \in Keys :
    IF k = key[c] THEN count'[k] = count[k] + 1 /\ (late'[k] = late[k] + 1 \/ (late'[k] = late[k] /\ ~Closed(k)))
                  ELSE count'[k] = count[k] /\ late'[k] = late[k]
LEMMA IncrementIs ==
    ASSUME TypeOK, CallInv, NEW c \in Callers, pc[c] # "idle", Increment(c)
    PROVE  Counted(c)
<1>1. key[c] \in Keys
  BY DEF TypeOK
<1>2. CASE Late(c)
  BY <1>1, <1>2 DEF Increment, Counted, TypeOK
<1>3. CASE ~Late(c)
  <2>1. ~Closed(key[c])
    BY <1>3, OpenKey
  <2>2. late' = [late EXCEPT ![key[c]] = @ + 0]
    BY <1>3 DEF Increment
  <2>. QED BY <1>1, <2>1, <2>2 DEF Increment, Counted, TypeOK
<1>. QED BY <1>2, <1>3

\* CountInv survives a step at which time stands still when each key is used no
\* more, or once more by the increment of a count below the limit.
UsedNoMore(k) == Used(k)' <= Used(k)
UsedOnce(k) == Used(k)' <= Used(k) \/ (Used(k)' = Used(k) + 1 /\ count[k] + 1 <= Limit)

LEMMA CountKept ==
    ASSUME TypeOK, TypeOK', CountInv, now' = now,
           \/ UNCHANGED <<count, late>> /\ \A k \in Keys : UsedNoMore(k)
           \/ \E c \in Callers : Counted(c) /\ \A k \in Keys : IF k = key[c] THEN UsedOnce(k) ELSE UsedNoMore(k)
    PROVE  CountInv'
<1>. SUFFICES ASSUME NEW k \in Keys PROVE Room(Used(k)', count'[k], late'[k], Closed(k)')
  BY DEF CountInv
<1>1. Used(k) \in Nat /\ Used(k)' \in Nat
  <2>1. Pend(k)' \subseteq Callers
    BY DEF Pend
  <2>2. Cardinality(Pend(k)') \in Nat
    BY <2>1, CallersAssumption, FS_Subset, FS_CardinalityType
  <2>3. granted'[k] \in Nat
    BY DEF TypeOK
  <2>. QED BY <2>2, <2>3, PendFinite DEF Used
<1>2. PICK u \in Nat, v \in Nat, n \in Nat, l \in Nat, m \in Nat :
          u = Used(k) /\ v = Used(k)' /\ n = count[k] /\ l = late[k] /\ m = late'[k]
  BY <1>1 DEF TypeOK
<1>3. PICK a \in BOOLEAN : a <=> Closed(k)
  <2>1. CASE Closed(k)
    BY <2>1, TRUE \in BOOLEAN, Zenon
  <2>2. CASE ~Closed(k)
    BY <2>2, FALSE \in BOOLEAN, Zenon
  <2>. QED BY <2>1, <2>2
<1>4. a <=> Closed(k)'
  BY <1>3 DEF Closed
<1>5. Room(u, n, l, a)
  <2>1. Room(u, n, l, Closed(k))
    BY <1>2 DEF CountInv
  <2>. QED BY <1>3, <2>1 DEF Room
<1>6. CASE count'[k] = n /\ m = l /\ v <= u
  <2>1. Room(v, n, m, a)
    BY <1>5, <1>6, RoomKept
  <2>. QED BY <1>2, <1>4, <1>6, <2>1 DEF Room
<1>7. CASE /\ count'[k] = n + 1 /\ (m = l + 1 \/ (m = l /\ ~a))
           /\ v <= u \/ (v = u + 1 /\ n + 1 <= Limit)
  <2>1. OneCounted(u, v, n, l, m, a)
    BY <1>7 DEF OneCounted
  <2>2. Room(v, n + 1, m, a)
    BY <1>5, <2>1, RoomCounted
  <2>. QED BY <1>2, <1>4, <1>7, <2>2 DEF Room
<1>. QED BY <1>2, <1>3, <1>6, <1>7 DEF Counted, UsedNoMore, UsedOnce

\* The use of a key follows from who is about to be allowed.
LEMMA UsedLess ==
    ASSUME TypeOK, granted' = granted, NEW k \in Keys, Pend(k)' \subseteq Pend(k)
    PROVE  UsedNoMore(k) /\ UsedOnce(k)
<1>1. IsFiniteSet(Pend(k)) /\ Cardinality(Pend(k)) \in Nat
  BY PendFinite
<1>2. Cardinality(Pend(k)') <= Cardinality(Pend(k)) /\ Cardinality(Pend(k)') \in Nat
  BY <1>1, FS_Subset, FS_CardinalityType
<1>. QED BY <1>1, <1>2 DEF Used, UsedNoMore, UsedOnce, TypeOK

\* Every step leaves room for the calls that are allowed.
LEMMA CountStep == IInv /\ TypeOK' /\ [Next]_vars => CountInv'
<1>. SUFFICES ASSUME IInv, TypeOK', [Next]_vars PROVE CountInv'
  OBVIOUS
<1>0. TypeOK /\ CallInv /\ ExpiryInv /\ CountInv
  BY DEF IInv
<1>1. ASSUME NEW c \in Callers, Incr(c) PROVE CountInv'
  <2>1. PICK k \in Keys : k = key[c]
    BY <1>0 DEF TypeOK
  <2>2. Counted(c) /\ now' = now /\ count'[k] = count[k] + 1 /\ count[k] \in Nat
    <3>1. Counted(c)
      BY <1>0, <1>1, IncrementIs DEF Incr
    <3>. QED BY <1>0, <1>1, <2>1, <3>1 DEF Incr, Counted, TypeOK
  <2>3. CASE count'[k] = 1 /\ pc' = [pc EXCEPT ![c] = "expire"] /\ UNCHANGED <<key, granted>>
    <3>1. \A l \in Keys \ {k} : Pend(l)' \subseteq Pend(l)
      BY <1>0, <2>1, <2>3 DEF Pend, Pending, TypeOK
    <3>2. CASE Limit = 0
      <4>1. Pend(k)' \subseteq Pend(k)
        BY <3>2 DEF Pend, Pending
      <4>. QED BY <1>0, <2>1, <2>2, <2>3, <3>1, <4>1, UsedLess, CountKept
    <3>3. CASE Limit # 0
      <4>1. Pend(k)' = Pend(k) \cup {c} /\ c \notin Pend(k)
        BY <1>0, <1>1, <2>1, <2>3, <3>3 DEF Pend, Pending, TypeOK, Incr
      <4>2. IsFiniteSet(Pend(k)) /\ Cardinality(Pend(k)) \in Nat
        BY <1>0, PendFinite
      <4>3. Cardinality(Pend(k)') = Cardinality(Pend(k)) + 1
        BY <4>1, <4>2, FS_AddElement
      <4>4. Used(k)' = Used(k) + 1
        <5>1. granted'[k] = granted[k] /\ granted[k] \in Nat
          BY <1>0, <2>3 DEF TypeOK
        <5>. QED BY <4>2, <4>3, <5>1 DEF Used
      <4>5. UsedOnce(k)
        BY <2>2, <2>3, <3>3, <4>4 DEF UsedOnce
      <4>. QED BY <1>0, <2>1, <2>2, <2>3, <3>1, <4>5, UsedLess, CountKept
    <3>. QED BY <3>2, <3>3
  <2>4. CASE Answer(c, count'[k])
    <3>1. \A l \in Keys : Pend(l)' \subseteq Pend(l)
      BY <1>0, <2>4 DEF Pend, Pending, TypeOK, Answer, Return
    <3>2. CASE granted' = granted
      BY <1>0, <2>1, <2>2, <3>1, <3>2, UsedLess, CountKept
    <3>3. CASE count'[k] <= Limit /\ Grant(c)
      <4>1. ASSUME NEW l \in Keys
            PROVE  /\ Cardinality(Pend(l)) \in Nat /\ Cardinality(Pend(l)') \in Nat
                   /\ Cardinality(Pend(l)') <= Cardinality(Pend(l))
        BY <1>0, <3>1, PendFinite, FS_Subset, FS_CardinalityType
      <4>2. ASSUME NEW l \in Keys \ {k}
            PROVE  UsedNoMore(l)
        <5>1. granted'[l] = granted[l] /\ granted[l] \in Nat
          BY <1>0, <2>1, <3>3 DEF Grant, TypeOK
        <5>. QED BY <4>1, <5>1 DEF UsedNoMore, Used
      <4>3. UsedOnce(k)
        <5>1. granted'[k] = granted[k] + 1 /\ granted[k] \in Nat
          BY <1>0, <2>1, <3>3 DEF Grant, TypeOK
        <5>. QED BY <2>2, <3>3, <4>1, <5>1 DEF UsedOnce, Used
      <4>. QED BY <1>0, <2>1, <2>2, <4>2, <4>3, CountKept
    <3>4. count'[k] \in Nat
      BY <2>2
    <3>. QED BY <2>4, <3>2, <3>3, <3>4 DEF Answer
  <2>. QED BY <1>1, <2>1, <2>3, <2>4 DEF Incr
<1>2. ASSUME NEW c \in Callers, Expire(c) PROVE CountInv'
  <2>1. PICK k \in Keys : k = key[c]
    BY <1>0 DEF TypeOK
  <2>2. \A l \in Keys : Pend(l)' \subseteq Pend(l)
    BY <1>0, <1>2 DEF Pend, Pending, TypeOK, Expire, Answer, Return
  <2>3. now' = now /\ UNCHANGED <<count, late>>
    BY <1>2 DEF Expire
  <2>4. CASE Limit = 0
    <3>1. granted' = granted
      BY <1>2, <2>4 DEF Expire, Answer
    <3>. QED BY <1>0, <2>2, <2>3, <3>1, UsedLess, CountKept
  <2>5. CASE Limit # 0
    <3>1. granted' = [granted EXCEPT ![k] = @ + 1]
      BY <1>2, <2>1, <2>5 DEF Expire, Answer, Grant
    <3>2. Pend(k)' = Pend(k) \ {c} /\ c \in Pend(k)
      BY <1>0, <1>2, <2>1, <2>5 DEF Pend, Pending, TypeOK, Expire, Answer, Return
    <3>3. ASSUME NEW l \in Keys
          PROVE  /\ Cardinality(Pend(l)) \in Nat /\ Cardinality(Pend(l)') \in Nat
                 /\ Cardinality(Pend(l)') <= Cardinality(Pend(l)) /\ IsFiniteSet(Pend(l))
      BY <1>0, <2>2, PendFinite, FS_Subset, FS_CardinalityType
    <3>4. Cardinality(Pend(k)') = Cardinality(Pend(k)) - 1
      BY <3>2, <3>3, FS_RemoveElement
    <3>5. UsedNoMore(k)
      <4>1. granted'[k] = granted[k] + 1 /\ granted[k] \in Nat
        BY <1>0, <3>1 DEF TypeOK
      <4>. QED BY <3>3, <3>4, <4>1 DEF UsedNoMore, Used
    <3>6. ASSUME NEW l \in Keys \ {k}
          PROVE  UsedNoMore(l)
      <4>1. granted'[l] = granted[l] /\ granted[l] \in Nat
        BY <1>0, <3>1 DEF TypeOK
      <4>. QED BY <3>3, <4>1 DEF UsedNoMore, Used
    <3>. QED BY <1>0, <2>3, <3>5, <3>6, CountKept
  <2>. QED BY <2>4, <2>5
<1>3. ASSUME NEW c \in Callers, Lose(c) \/ Resend(c) PROVE CountInv'
  <2>1. \A l \in Keys : Pend(l)' \subseteq Pend(l)
    <3>1. CASE Return(c)
      BY <1>0, <3>1 DEF Pend, Pending, TypeOK, Return
    <3>2. CASE UNCHANGED <<pc, key>>
      BY <3>2 DEF Pend, Pending
    <3>. QED BY <1>3, <3>1, <3>2 DEF Lose, Resend
  <2>2. now' = now /\ granted' = granted /\ pc[c] # "idle"
    BY <1>3 DEF Lose, Resend, Executed
  <2>3. CASE Increment(c)
    <3>1. Counted(c)
      BY <1>0, <2>2, <2>3, IncrementIs
    <3>. QED BY <1>0, <2>1, <2>2, <3>1, UsedLess, CountKept
  <2>4. CASE UNCHANGED <<count, late>>
    BY <1>0, <2>1, <2>2, <2>4, UsedLess, CountKept
  <2>. QED BY <1>3, <2>3, <2>4 DEF Lose, Resend, Executed
<1>4. ASSUME NEW c \in Callers, NEW k \in Keys, Ask(c, k) PROVE CountInv'
  <2>1. \A l \in Keys : Pend(l)' \subseteq Pend(l)
    BY <1>0, <1>4 DEF Ask, Pend, Pending, TypeOK
  <2>2. UNCHANGED <<now, count, late, granted>>
    BY <1>4 DEF Ask
  <2>. QED BY <1>0, <2>1, <2>2, UsedLess, CountKept
<1>5. CASE Tick
  <2>. SUFFICES ASSUME NEW k \in Keys PROVE Room(Used(k)', count'[k], late'[k], Closed(k)')
    BY DEF CountInv
  <2>1. Used(k)' = Used(k) /\ late'[k] = late[k] /\ now' = now + 1
    BY <1>5 DEF Tick, Used, Pend, Pending
  <2>2. PICK u \in Nat, n \in Nat, l \in Nat : u = Used(k) /\ n = count[k] /\ l = late[k]
    BY <1>0, PendFinite DEF TypeOK
  <2>3. Closed(k) => Closed(k)'
    <3>1. k * Window \in Int /\ now \in Nat
      BY <1>0, WindowEnd DEF TypeOK
    <3>. QED BY <2>1, <3>1 DEF Closed
  <2>4. Room(u, n, l, Closed(k))
    BY <1>0, <2>2 DEF CountInv
  <2>5. CASE expiry[k] = now + 1
    <3>1. Closed(k)'
      <4>1. now \in Nat /\ expiry[k] # 0
        BY <1>0, <2>5 DEF TypeOK
      <4>. QED BY <1>0, <2>1, <2>5, <4>1 DEF ExpiryInv, Closed
    <3>2. count'[k] = 0
      BY <1>5, <2>5 DEF Tick
    <3>3. Room(u, 0, l, TRUE)
      <4>1. CASE n > 0
        BY <2>4, <4>1, RoomGone
      <4>2. CASE n = 0
        BY <2>4, <4>2 DEF Room
      <4>3. n = 0 \/ n > 0
        BY <1>0, <2>2 DEF TypeOK
      <4>. QED BY <4>1, <4>2, <4>3
    <3>. QED BY <2>1, <2>2, <3>1, <3>2, <3>3 DEF Room
  <2>6. CASE expiry[k] # now + 1
    <3>1. count'[k] = n
      BY <1>5, <2>2, <2>6 DEF Tick
    <3>. QED BY <2>1, <2>2, <2>3, <2>4, <3>1 DEF Room
  <2>. QED BY <2>5, <2>6
<1>6. CASE UNCHANGED vars
  BY <1>0, <1>6 DEF vars, CountInv, Used, Pend, Pending, Closed
<1>. QED BY <1>1, <1>2, <1>3, <1>4, <1>5, <1>6 DEF Next

LEMMA InitIs == Init => IInv
<1>. SUFFICES ASSUME Init PROVE IInv
  OBVIOUS
<1>1. TypeOK
  BY DEF Init, TypeOK, Keys
<1>2. CallInv /\ ExpiryInv
  BY DEF Init, CallInv, ExpiryInv
<1>3. ASSUME NEW k \in Keys
      PROVE  Room(Used(k), count[k], late[k], Closed(k))
  <2>1. Pend(k) = {}
    BY DEF Init, Pend, Pending
  <2>2. Used(k) = 0 /\ count[k] = 0 /\ late[k] = 0
    BY <2>1, FS_EmptySet DEF Init, Used
  <2>. QED BY <2>2 DEF Room
<1>. QED BY <1>1, <1>2, <1>3 DEF IInv, CountInv

LEMMA IInvHolds == Spec => []IInv
<1>1. IInv /\ [Next]_vars => IInv'
  BY TypeStep, CallStep, ExpiryStep, CountStep DEF IInv
<1>. QED BY <1>1, InitIs, PTL DEF Spec

\* The calls allowed under a key have their room.
LEMMA RoomMeans == IInv => KeyLimit
<1>. SUFFICES ASSUME IInv, NEW k \in Keys PROVE granted[k] <= Allowed(k)
  BY DEF KeyLimit
<1>1. TypeOK /\ Room(Used(k), count[k], late[k], Closed(k))
  BY DEF IInv, CountInv
<1>2. Cardinality(Pend(k)) \in Nat /\ granted[k] \in Nat /\ count[k] \in Nat /\ late[k] \in Nat
  BY <1>1, PendFinite DEF TypeOK
<1>3. PICK l \in Nat, n \in Nat : l = late[k] /\ n = count[k]
  BY <1>2
<1>4. Limit * l \in Nat /\ Limit * (1 + l) = Limit * l + Limit
  BY MoreLate
<1>5. Used(k) <= Limit * (1 + l)
  <2>1. Room(Used(k), n, l, Closed(k)) /\ Used(k) \in Nat
    BY <1>1, <1>3, PendFinite
  <2>2. CASE n = 0
    BY <2>1, <2>2 DEF Room
  <2>3. CASE n > 0
    BY <1>4, <2>1, <2>3 DEF Room
  <2>. QED BY <2>2, <2>3
<1>. QED BY <1>2, <1>3, <1>4, <1>5 DEF Used, Allowed

(***************************************************************************)
(* No minute's key lets more than Limit calls through, and Limit more for  *)
(* each increment later than the slack of the time to live, however long   *)
(* commands take, whatever is lost or sent again.                          *)
(***************************************************************************)
THEOREM KeyLimitHolds == Spec => []KeyLimit
  BY IInvHolds, RoomMeans, PTL

\* The rows of Redis and the calls keep their types.
THEOREM TypeCorrect == Spec => []TypeOK
<1>1. IInv => TypeOK
  BY DEF IInv
<1>. QED BY <1>1, IInvHolds, PTL

\* A key without a time to live has a call that is about to give it one.
LEMMA NoImmortalKeyStep == TypeOK /\ NoImmortalKey /\ [Next]_vars => NoImmortalKey'
<1>. SUFFICES ASSUME TypeOK, NoImmortalKey, [Next]_vars, NEW k \in Keys,
                     count'[k] > 0, expiry'[k] = 0, lost' = 0
              PROVE  \E d \in Callers : pc'[d] = "expire" /\ key'[d] = k
  BY DEF NoImmortalKey
<1>1. ASSUME NEW c \in Callers, Incr(c)
      PROVE  \E d \in Callers : pc'[d] = "expire" /\ key'[d] = k
  <2>1. CASE key[c] = k /\ count'[k] = 1
    <3>1. pc' = [pc EXCEPT ![c] = "expire"] /\ key' = key
      BY <1>1, <2>1 DEF Incr
    <3>. QED BY <2>1, <3>1 DEF TypeOK
  <2>2. CASE ~(key[c] = k /\ count'[k] = 1)
    <3>1. count[k] > 0 /\ expiry[k] = 0 /\ lost = 0
      BY <1>1, <2>2 DEF Incr, Increment, TypeOK
    <3>2. PICK d \in Callers : pc[d] = "expire" /\ key[d] = k
      BY <3>1 DEF NoImmortalKey
    <3>3. d # c
      BY <1>1, <3>2 DEF Incr
    <3>4. pc'[d] = pc[d] /\ key'[d] = key[d]
      BY <1>1, <3>3 DEF Incr, Answer, Return, TypeOK
    <3>. QED BY <3>2, <3>4
  <2>. QED BY <2>1, <2>2
<1>2. ASSUME NEW c \in Callers, Expire(c)
      PROVE  \E d \in Callers : pc'[d] = "expire" /\ key'[d] = k
  <2>1. key[c] # k
    BY <1>2 DEF Expire, SetExpiry, TypeOK
  <2>2. count[k] > 0 /\ expiry[k] = 0 /\ lost = 0
    BY <1>2, <2>1 DEF Expire, SetExpiry, TypeOK
  <2>3. PICK d \in Callers : pc[d] = "expire" /\ key[d] = k
    BY <2>2 DEF NoImmortalKey
  <2>4. pc'[d] = pc[d] /\ key'[d] = key[d]
    BY <1>2, <2>1, <2>3 DEF Expire, Answer, Return, TypeOK
  <2>. QED BY <2>3, <2>4
<1>3. ASSUME NEW c \in Callers, Lose(c) \/ Resend(c) PROVE FALSE
  BY <1>3 DEF Lose, Resend, TypeOK
<1>4. ASSUME NEW c \in Callers, NEW l \in Keys, Ask(c, l)
      PROVE  \E d \in Callers : pc'[d] = "expire" /\ key'[d] = k
  <2>1. PICK d \in Callers : pc[d] = "expire" /\ key[d] = k
    BY <1>4 DEF Ask, NoImmortalKey
  <2>. QED BY <1>4, <2>1 DEF Ask, TypeOK
<1>5. CASE Tick
  <2>1. count[k] > 0 /\ expiry[k] = 0 /\ lost = 0 /\ UNCHANGED <<pc, key>>
    BY <1>5 DEF Tick, TypeOK
  <2>. QED BY <2>1 DEF NoImmortalKey
<1>6. CASE UNCHANGED vars
  BY <1>6 DEF vars, NoImmortalKey
<1>. QED BY <1>1, <1>2, <1>3, <1>4, <1>5, <1>6 DEF Next

\* No key stays in Redis for ever unless a call was lost between its commands.
THEOREM NoImmortalKeyHolds == Spec => []NoImmortalKey
<1>1. Init => NoImmortalKey
  BY DEF Init, NoImmortalKey
<1>2. TypeOK /\ TypeOK' /\ NoImmortalKey /\ [Next]_vars => NoImmortalKey'
  BY NoImmortalKeyStep
<1>. QED BY <1>1, <1>2, TypeCorrect, PTL DEF Spec

-----------------------------------------------------------------------------
(***************************************************************************)
(* What a minute of real time may see.  A call counts under a minute that  *)
(* begins at most MaxSkew after it is allowed, and ended no longer before  *)
(* than the call took; under a key g gives each call allowed.              *)
(***************************************************************************)
Near(k, r) == k * Window <= r.at + MaxSkew /\ r.at < (k + 1) * Window + r.took
Under(g, n, k) == {j \in 1..n : g[j] = k}
Keyed(g) ==
    /\ g \in [1..Len(grants) -> Keys]
    /\ \A k \in Keys : Cardinality(Under(g, Len(grants), k)) <= granted[k]
    /\ \A j \in 1..Len(grants) : Near(g[j], grants[j])
KeyedInv == \E g : Keyed(g)

\* Calls are allowed one after the other.
OrderInv == \A j \in 1..Len(grants) : /\ grants[j].at <= now
                                      /\ \A i \in 1..j : grants[i].at <= grants[j].at

MinuteInv == IInv /\ OrderInv /\ KeyedInv

LEMMA GrantsTyped ==
    ASSUME TypeOK
    PROVE  Len(grants) \in Nat /\ \A j \in 1..Len(grants) : grants[j].at \in Nat /\ grants[j].took \in Nat
<1>1. grants \in Seq([at : 0..MaxTime, took : 0..MaxTime])
  BY DEF TypeOK
<1>2. Len(grants) \in Nat /\ \A j \in 1..Len(grants) : grants[j] \in [at : 0..MaxTime, took : 0..MaxTime]
  <2>. DEFINE S == [at : 0..MaxTime, took : 0..MaxTime]
  <2>1. grants \in Seq(S)
    BY <1>1
  <2>. HIDE DEF S
  <2>2. Len(grants) \in Nat /\ \A j \in 1..Len(grants) : grants[j] \in S
    BY <2>1
  <2>. QED BY <2>2 DEF S
<1>3. ASSUME NEW j \in 1..Len(grants)
      PROVE  grants[j].at \in Nat /\ grants[j].took \in Nat
  <2>1. grants[j] \in [at : 0..MaxTime, took : 0..MaxTime]
    BY <1>2
  <2>2. grants[j].at \in 0..MaxTime /\ grants[j].took \in 0..MaxTime
    BY <2>1
  <2>. QED BY <2>2
<1>. QED BY <1>2, <1>3

LEMMA CallerNear ==
    ASSUME TypeOK, CallInv, NEW c \in Callers, pc[c] # "idle", NEW r, r.at = now, r.took = now - asked[c]
    PROVE  key[c] \in Keys /\ Near(key[c], r)
<1>1. key[c] \in Keys /\ now \in Int /\ asked[c] \in Int
  BY DEF TypeOK
<1>2. key[c] * Window <= asked[c] + MaxSkew /\ asked[c] <= now /\ asked[c] < (key[c] + 1) * Window
  BY DEF CallInv
<1>3. key[c] * Window <= now + MaxSkew /\ now < (key[c] + 1) * Window + (now - asked[c])
  BY <1>1, <1>2, WindowEnd
<1>. QED BY <1>1, <1>3 DEF Near

\* A step allows no call, or one call on its way.
LEMMA GrantSteps ==
    ASSUME TypeOK, [Next]_vars
    PROVE  \/ UNCHANGED <<granted, grants>>
           \/ now' = now /\ \E c \in Callers : pc[c] # "idle" /\ Grant(c)
<1>1. ASSUME NEW c \in Callers, Incr(c) \/ Expire(c)
      PROVE  \/ UNCHANGED <<granted, grants>>
             \/ now' = now /\ pc[c] # "idle" /\ Grant(c)
  BY <1>1 DEF Incr, Expire, Answer
<1>. QED BY <1>1 DEF Next, Lose, Resend, Ask, Tick, vars

\* What a call that is allowed adds.
LEMMA GrantAdds ==
    ASSUME TypeOK, NEW c \in Callers, Grant(c)
    PROVE  /\ Len(grants') = Len(grants) + 1
           /\ \A j \in 1..Len(grants) : grants'[j] = grants[j]
           /\ grants'[Len(grants) + 1] = [at |-> now, took |-> now - asked[c]]
<1>. DEFINE r == [at |-> now, took |-> now - asked[c]]
<1>1. grants' = Append(grants, r) /\ grants \in Seq([at : 0..MaxTime, took : 0..MaxTime])
  BY DEF Grant, TypeOK
<1>. HIDE DEF r
<1>2. Len(grants') = Len(grants) + 1 /\ grants'[Len(grants) + 1] = r
  BY <1>1
<1>3. \A j \in 1..Len(grants) : grants'[j] = grants[j]
  BY <1>1
<1>. QED BY <1>2, <1>3 DEF r

LEMMA OrderStep == TypeOK /\ TypeOK' /\ OrderInv /\ [Next]_vars => OrderInv'
<1>. SUFFICES ASSUME TypeOK, TypeOK', OrderInv, [Next]_vars PROVE OrderInv'
  OBVIOUS
<1>1. now \in Int /\ now' \in Int /\ now <= now'
  BY DEF TypeOK, Next, Incr, Expire, Lose, Resend, Ask, Tick, vars
<1>2. Len(grants) \in Nat /\ \A j \in 1..Len(grants) : grants[j].at \in Int
  BY GrantsTyped
<1>3. CASE UNCHANGED <<granted, grants>>
  BY <1>1, <1>2, <1>3 DEF OrderInv
<1>4. ASSUME NEW c \in Callers, now' = now, Grant(c) PROVE OrderInv'
  <2>1. /\ Len(grants') = Len(grants) + 1 /\ grants'[Len(grants) + 1].at = now
        /\ \A j \in 1..Len(grants) : grants'[j] = grants[j]
    <3>1. PICK r : r = [at |-> now, took |-> now - asked[c]]
      OBVIOUS
    <3>2. r.at = now
      BY <3>1
    <3>. QED BY <1>4, <3>1, <3>2, GrantAdds
  <2>. QED BY <1>1, <1>2, <1>4, <2>1 DEF OrderInv
<1>. QED BY <1>3, <1>4, GrantSteps

LEMMA KeyedStep == IInv /\ KeyedInv /\ [Next]_vars => KeyedInv'
<1>. SUFFICES ASSUME IInv, KeyedInv, [Next]_vars PROVE KeyedInv'
  OBVIOUS
<1>1. TypeOK /\ CallInv
  BY DEF IInv
<1>2. PICK g : Keyed(g)
  BY DEF KeyedInv
<1>3. CASE UNCHANGED <<granted, grants>>
  <2>1. Keyed(g)'
    BY <1>2, <1>3 DEF Keyed, Near
  <2>. QED BY <2>1 DEF KeyedInv
<1>4. ASSUME NEW c \in Callers, pc[c] # "idle", Grant(c) PROVE KeyedInv'
  <2>. DEFINE n == Len(grants)
              k == key[c]
              f == [j \in 1..(n + 1) |-> IF j = n + 1 THEN k ELSE g[j]]
  <2>0. PICK r : r = [at |-> now, took |-> now - asked[c]]
    OBVIOUS
  <2>1. k \in Keys /\ Near(k, r)
    BY <1>1, <1>4, <2>0, CallerNear
  <2>2. /\ n \in Nat /\ Len(grants') = n + 1 /\ grants'[n + 1] = r
        /\ \A j \in 1..n : grants'[j] = grants[j]
    BY <1>1, <1>4, <2>0, GrantsTyped, GrantAdds
  <2>3. g \in [1..n -> Keys] /\ \A j \in 1..n : Near(g[j], grants[j])
    BY <1>2 DEF Keyed
  <2>4. granted \in [Keys -> Nat] /\ granted' = [granted EXCEPT ![k] = @ + 1]
    BY <1>1, <1>4 DEF TypeOK, Grant
  <2>. HIDE DEF n, k
  <2>5. f \in [1..(n + 1) -> Keys] /\ f[n + 1] = k /\ \A j \in 1..n : f[j] = g[j]
    BY <2>1, <2>2, <2>3
  <2>. HIDE DEF f
  <2>6. ASSUME NEW j \in 1..(n + 1) PROVE Near(f[j], grants'[j])
    <3>1. CASE j = n + 1
      BY <2>1, <2>2, <2>5, <3>1
    <3>2. CASE j # n + 1
      <4>1. j \in 1..n
        BY <2>2, <3>2
      <4>. QED BY <2>2, <2>3, <2>5, <4>1
    <3>. QED BY <3>1, <3>2
  <2>7. ASSUME NEW l \in Keys PROVE Cardinality(Under(f, n + 1, l)) <= granted'[l]
    <3>1. Cardinality(Under(g, n, l)) <= granted[l]
      BY <1>2 DEF Keyed, n
    <3>2. IsFiniteSet(Under(g, n, l)) /\ Cardinality(Under(g, n, l)) \in Nat
      <4>1. IsFiniteSet(1..n)
        <5>1. 1 \in Int /\ n \in Int
          BY <2>2
        <5>. QED BY <5>1, FS_Interval
      <4>2. Under(g, n, l) \subseteq 1..n
        BY DEF Under
      <4>. QED BY <4>1, <4>2, FS_Subset, FS_CardinalityType
    <3>3. CASE l = k
      <4>1. Under(f, n + 1, l) = Under(g, n, l) \cup {n + 1}
        BY <2>2, <2>5, <3>3 DEF Under
      <4>2. n + 1 \notin Under(g, n, l)
        BY <2>2 DEF Under
      <4>3. Cardinality(Under(f, n + 1, l)) = Cardinality(Under(g, n, l)) + 1
        BY <3>2, <4>1, <4>2, FS_AddElement
      <4>4. granted'[l] = granted[l] + 1 /\ granted[l] \in Nat
        BY <2>4, <3>3
      <4>. QED BY <3>1, <3>2, <4>3, <4>4
    <3>4. CASE l # k
      <4>1. Under(f, n + 1, l) = Under(g, n, l)
        BY <2>2, <2>5, <3>4 DEF Under
      <4>2. granted'[l] = granted[l]
        BY <2>4, <3>4
      <4>. QED BY <3>1, <4>1, <4>2
    <3>. QED BY <3>3, <3>4
  <2>8. PICK v : v = f
    OBVIOUS
  <2>9. Keyed(v)'
    <3>1. v \in [1..Len(grants') -> Keys]
      BY <2>2, <2>5, <2>8
    <3>2. \A l \in Keys : Cardinality(Under(v, Len(grants'), l)) <= granted'[l]
      BY <2>2, <2>7, <2>8
    <3>3. \A j \in 1..Len(grants') : Near(v[j], grants'[j])
      BY <2>2, <2>6, <2>8
    <3>. QED BY <3>1, <3>2, <3>3 DEF Keyed, Near, Under
  <2>. QED BY <2>9 DEF KeyedInv
<1>. QED BY <1>1, <1>3, <1>4, GrantSteps

LEMMA InitMinute == Init => MinuteInv
<1>. SUFFICES ASSUME Init PROVE MinuteInv
  OBVIOUS
<1>1. IInv
  BY InitIs
<1>3. Len(grants) = 0 /\ 1..Len(grants) = {}
  BY DEF Init
<1>4. OrderInv
  BY <1>3 DEF OrderInv
<1>5. Keyed([j \in {} |-> 0])
  <2>1. \A g, k : Under(g, Len(grants), k) = {}
    BY <1>3 DEF Under
  <2>2. \A k \in Keys : granted[k] = 0
    BY DEF Init
  <2>. QED BY <1>3, <2>1, <2>2, FS_EmptySet DEF Keyed
<1>. QED BY <1>1, <1>4, <1>5 DEF MinuteInv, KeyedInv

\* Windows three apart are too far apart for two calls of a minute, the earlier
\* one prompt.
LEMMA Apart ==
    ASSUME NEW a \in Keys, NEW b \in Keys, NEW r, NEW s,
           r.at \in Nat, r.took \in Nat, s.at \in Nat, NEW u \in Nat,
           Near(a, r), Near(b, s), u <= r.at, s.at <= u + Window - 1,
           r.took + MaxSkew <= Window + 1
    PROVE  b <= a + 2
<1>. SUFFICES ASSUME b >= a + 3 PROVE FALSE
  BY DEF Keys
<1>1. a * Window \in Int /\ b * Window \in Int /\ (a + 1) * Window = a * Window + Window
  BY WindowEnd
<1>2. b * Window >= a * Window + 3 * Window
  <2>. DEFINE d == b - a - 3
  <2>1. d \in Nat /\ b = a + d + 3
    BY DEF Keys
  <2>2. d * Window \in Nat
    BY <2>1
  <2>3. b * Window = a * Window + d * Window + 3 * Window
    BY <2>1 DEF Keys
  <2>. HIDE DEF d
  <2>. QED BY <1>1, <2>2, <2>3
<1>3. b * Window <= s.at + MaxSkew /\ r.at < a * Window + Window + r.took
  BY <1>1 DEF Near
<1>. QED BY <1>1, <1>2, <1>3

\* The prompt calls that are allowed within a minute of the i-th.
PromptFrom(i) == {j \in GrantsFrom(i, Window - 1) : Prompt(j)}

LEMMA PromptFromIs ==
    ASSUME TypeOK, NEW i \in 1..Len(grants), NEW j \in PromptFrom(i)
    PROVE  /\ j \in 1..Len(grants) /\ i \in 1..j
           /\ grants[j].at <= grants[i].at + Window - 1
           /\ grants[j].took + MaxSkew <= Window + 1
<1>1. j \in i..Len(grants) /\ grants[j].at - grants[i].at <= Window - 1 /\ grants[j].took + MaxSkew <= Window + 1
  BY DEF PromptFrom, GrantsFrom, Prompt
<1>2. j \in 1..Len(grants) /\ i \in 1..j
  BY <1>1, GrantsTyped
<1>3. grants[i].at \in Nat /\ grants[j].at \in Nat
  BY <1>2, GrantsTyped
<1>. QED BY <1>1, <1>2, <1>3

\* They count under three keys.
LEMMA ThreeKeys ==
    ASSUME MinuteInv, NEW g, Keyed(g), NEW i \in 1..Len(grants), Prompt(i)
    PROVE  \E q \in Int : \A j \in PromptFrom(i) : g[j] \in q..(q + 2)
<1>. DEFINE near == PromptFrom(i)
<1>0. TypeOK /\ OrderInv
  BY DEF MinuteInv, IInv
<1>1. ASSUME NEW j \in near
      PROVE  /\ g[j] \in Keys /\ Near(g[j], grants[j])
             /\ grants[j].at \in Nat /\ grants[j].took \in Nat
             /\ grants[i].at <= grants[j].at /\ grants[j].at <= grants[i].at + Window - 1
             /\ grants[j].took + MaxSkew <= Window + 1
  <2>1. /\ j \in 1..Len(grants) /\ i \in 1..j
        /\ grants[j].at <= grants[i].at + Window - 1
        /\ grants[j].took + MaxSkew <= Window + 1
    BY <1>0, PromptFromIs
  <2>2. g[j] \in Keys /\ Near(g[j], grants[j])
    BY <2>1 DEF Keyed
  <2>3. grants[i].at <= grants[j].at
    BY <1>0, <2>1 DEF OrderInv
  <2>. QED BY <1>0, <2>1, <2>2, <2>3, GrantsTyped
<1>3. i \in near
  BY <1>0, GrantsTyped DEF PromptFrom, GrantsFrom
<1>. HIDE DEF near
<1>2. ASSUME NEW j \in near, NEW k \in near PROVE g[k] <= g[j] + 2
  <2>1. grants[i].at \in Nat
    BY <1>0, GrantsTyped
  <2>2. PICK a \in Keys, b \in Keys, u \in Nat : a = g[j] /\ b = g[k] /\ u = grants[i].at
    BY <1>1, <2>1
  <2>. DEFINE r == grants[j]
              s == grants[k]
  <2>3. /\ r.at \in Nat /\ r.took \in Nat /\ s.at \in Nat /\ Near(a, r) /\ Near(b, s)
        /\ u <= r.at /\ s.at <= u + Window - 1 /\ r.took + MaxSkew <= Window + 1
    BY <1>1, <2>2
  <2>. HIDE DEF r, s
  <2>4. b <= a + 2
    BY <2>3, Apart
  <2>. QED BY <2>2, <2>4
<1>4. \A j \in near : g[j] \in Int
  BY <1>1 DEF Keys
<1>5. ASSUME NEW q \in Int, \A j \in near : g[j] \in q..(q + 2)
      PROVE  \E l \in Int : \A j \in PromptFrom(i) : g[j] \in l..(l + 2)
  BY <1>5 DEF near
<1>6. CASE \E j \in near : g[j] = g[i] - 2
  <2>1. \A j \in near : g[j] \in (g[i] - 2)..(g[i] - 2 + 2)
    <3>1. PICK w \in near : g[w] = g[i] - 2
      BY <1>6
    <3>. SUFFICES ASSUME NEW j \in near PROVE g[j] \in (g[i] - 2)..(g[i] - 2 + 2)
      OBVIOUS
    <3>2. g[j] <= g[w] + 2 /\ g[i] <= g[j] + 2
      BY <1>2, <1>3
    <3>3. g[i] \in Int /\ g[j] \in Int
      BY <1>3, <1>4
    <3>. QED BY <1>6, <3>1, <3>2, <3>3
  <2>2. g[i] - 2 \in Int
    BY <1>3, <1>4
  <2>. QED BY <1>5, <2>1, <2>2
<1>7. CASE \E j \in near : g[j] = g[i] - 1 /\ ~\E k \in near : g[k] = g[i] - 2
  <2>1. \A j \in near : g[j] \in (g[i] - 1)..(g[i] - 1 + 2)
    <3>1. PICK w \in near : g[w] = g[i] - 1
      BY <1>7
    <3>. SUFFICES ASSUME NEW j \in near PROVE g[j] \in (g[i] - 1)..(g[i] - 1 + 2)
      OBVIOUS
    <3>2. g[j] <= g[w] + 2 /\ g[i] <= g[j] + 2
      BY <1>2, <1>3
    <3>3. g[i] \in Int /\ g[j] \in Int
      BY <1>3, <1>4
    <3>. QED BY <1>7, <3>1, <3>2, <3>3
  <2>2. g[i] - 1 \in Int
    BY <1>3, <1>4
  <2>. QED BY <1>5, <2>1, <2>2
<1>8. CASE ~\E j \in near : g[j] \in {g[i] - 1, g[i] - 2}
  <2>1. \A j \in near : g[j] \in g[i]..(g[i] + 2)
    BY <1>2, <1>3, <1>4, <1>8
  <2>2. g[i] \in Int
    BY <1>3, <1>4
  <2>. QED BY <1>5, <2>1, <2>2
<1>. QED BY <1>6, <1>7, <1>8

LEMMA AllowedType ==
    ASSUME TypeOK, NEW k \in Keys
    PROVE  Allowed(k) \in Nat
<1>1. 1 + late[k] \in Nat
  BY DEF TypeOK
<1>. QED BY <1>1 DEF Allowed

\* The calls that count under a key, or under none, are within the limit of one.
LEMMA UnderLimit ==
    ASSUME MinuteInv, NEW g, Keyed(g), NEW q \in Int
    PROVE  /\ IsFiniteSet(Under(g, Len(grants), q))
           /\ Cardinality(Under(g, Len(grants), q)) \in Nat
           /\ \E k \in Keys : Cardinality(Under(g, Len(grants), q)) <= Allowed(k)
<1>. DEFINE n == Len(grants)
<1>1. n \in Nat
  BY DEF MinuteInv, IInv, TypeOK
<1>. HIDE DEF n
<1>2. IsFiniteSet(Under(g, n, q)) /\ Cardinality(Under(g, n, q)) \in Nat
  <2>1. IsFiniteSet(1..n)
    <3>1. 1 \in Int /\ n \in Int
      BY <1>1
    <3>. QED BY <3>1, FS_Interval
  <2>2. Under(g, n, q) \subseteq 1..n
    BY DEF Under
  <2>. QED BY <2>1, <2>2, FS_Subset, FS_CardinalityType
<1>3. CASE q \in Keys
  <2>1. granted[q] \in Nat /\ granted[q] <= Allowed(q) /\ Allowed(q) \in Nat
    BY <1>3, RoomMeans, AllowedType DEF MinuteInv, IInv, TypeOK, KeyLimit
  <2>2. Cardinality(Under(g, n, q)) <= granted[q]
    BY <1>3 DEF Keyed, n
  <2>. QED BY <1>2, <1>3, <2>1, <2>2 DEF n
<1>4. CASE q \notin Keys
  <2>1. Under(g, n, q) = {}
    BY <1>4 DEF Under, Keyed, n
  <2>2. Allowed(0) \in Nat /\ 0 \in Keys
    <3>1. 0 \in Keys
      BY DEF Keys
    <3>. QED BY <3>1, AllowedType DEF MinuteInv, IInv
  <2>. QED BY <1>2, <2>1, <2>2, FS_EmptySet DEF n
<1>. QED BY <1>3, <1>4

(***************************************************************************)
(* Within a minute of real time at most three minutes' limits are allowed  *)
(* to calls that took less than about a minute each, for any callers, any  *)
(* clocks and any other calls: such calls count under three keys at most.  *)
(***************************************************************************)
THEOREM MinuteBoundHolds == Spec => []MinuteBound
<1>1. Init => MinuteInv
  BY InitMinute
<1>2. MinuteInv /\ [Next]_vars => MinuteInv'
  BY TypeStep, CallStep, ExpiryStep, CountStep, OrderStep, KeyedStep DEF MinuteInv, IInv
<1>3. MinuteInv => MinuteBound
  <2>. SUFFICES ASSUME MinuteInv, NEW i \in 1..Len(grants), Prompt(i)
                PROVE  \E k \in Keys : Cardinality(PromptFrom(i)) <= 3 * Allowed(k)
    BY DEF MinuteBound, PromptFrom
  <2>0. TypeOK
    BY DEF MinuteInv, IInv
  <2>1. PICK g : Keyed(g)
    BY DEF MinuteInv, KeyedInv
  <2>2. PICK q \in Int : \A j \in PromptFrom(i) : g[j] \in q..(q + 2)
    BY <2>1, ThreeKeys
  <2>. DEFINE A == Under(g, Len(grants), q)
              B == Under(g, Len(grants), q + 1)
              C == Under(g, Len(grants), q + 2)
  <2>3. PromptFrom(i) \subseteq (A \cup B) \cup C
    <3>. SUFFICES ASSUME NEW j \in PromptFrom(i) PROVE j \in A \/ j \in B \/ j \in C
      OBVIOUS
    <3>1. j \in 1..Len(grants)
      BY <2>0, PromptFromIs
    <3>2. g[j] = q \/ g[j] = q + 1 \/ g[j] = q + 2
      BY <2>2
    <3>. QED BY <3>1, <3>2 DEF Under
  <2>4. /\ IsFiniteSet(A) /\ Cardinality(A) \in Nat /\ \E k \in Keys : Cardinality(A) <= Allowed(k)
        /\ IsFiniteSet(B) /\ Cardinality(B) \in Nat /\ \E k \in Keys : Cardinality(B) <= Allowed(k)
        /\ IsFiniteSet(C) /\ Cardinality(C) \in Nat /\ \E k \in Keys : Cardinality(C) <= Allowed(k)
    <3>1. q + 1 \in Int /\ q + 2 \in Int
      OBVIOUS
    <3>. QED BY <2>1, <3>1, UnderLimit
  <2>. HIDE DEF A, B, C
  <2>5. /\ IsFiniteSet(A \cup B) /\ Cardinality(A \cup B) \in Nat
        /\ Cardinality(A \cup B) <= Cardinality(A) + Cardinality(B)
    <3>1. IsFiniteSet(A \cap B) /\ Cardinality(A \cap B) \in Nat
      BY <2>4, FS_Intersection, FS_CardinalityType
    <3>2. /\ IsFiniteSet(A \cup B)
          /\ Cardinality(A \cup B) = Cardinality(A) + Cardinality(B) - Cardinality(A \cap B)
      BY <2>4, FS_Union
    <3>. QED BY <2>4, <3>1, <3>2, FS_CardinalityType
  <2>6. /\ IsFiniteSet((A \cup B) \cup C) /\ Cardinality((A \cup B) \cup C) \in Nat
        /\ Cardinality((A \cup B) \cup C) <= Cardinality(A \cup B) + Cardinality(C)
    <3>1. IsFiniteSet((A \cup B) \cap C) /\ Cardinality((A \cup B) \cap C) \in Nat
      BY <2>4, <2>5, FS_Intersection, FS_CardinalityType
    <3>2. /\ IsFiniteSet((A \cup B) \cup C)
          /\ Cardinality((A \cup B) \cup C)
                = Cardinality(A \cup B) + Cardinality(C) - Cardinality((A \cup B) \cap C)
      BY <2>4, <2>5, FS_Union
    <3>. QED BY <2>4, <2>5, <3>1, <3>2, FS_CardinalityType
  <2>7. Cardinality(PromptFrom(i)) \in Nat /\ Cardinality(PromptFrom(i)) <= Cardinality((A \cup B) \cup C)
    BY <2>3, <2>6, FS_Subset, FS_CardinalityType
  <2>8. PICK a \in Keys, b \in Keys, c \in Keys :
            Cardinality(A) <= Allowed(a) /\ Cardinality(B) <= Allowed(b) /\ Cardinality(C) <= Allowed(c)
    BY <2>4
  <2>9. Allowed(a) \in Nat /\ Allowed(b) \in Nat /\ Allowed(c) \in Nat
    BY <2>0, AllowedType
  <2>10. PICK k \in {a, b, c} : Allowed(a) <= Allowed(k) /\ Allowed(b) <= Allowed(k) /\ Allowed(c) <= Allowed(k)
    BY <2>9
  <2>11. Cardinality(PromptFrom(i)) <= 3 * Allowed(k)
    BY <2>4, <2>5, <2>6, <2>7, <2>8, <2>9, <2>10
  <2>. QED BY <2>11
<1>. QED BY <1>1, <1>2, <1>3, PTL DEF Spec
================================================================================
