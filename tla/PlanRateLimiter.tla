---------------------------- MODULE PlanRateLimiter ----------------------------
(***************************************************************************)
(* worker/src/infra/plan-rate-limiter.ts: the limiter all worker processes *)
(* share through Redis, for one tenant.                                    *)
(*                                                                         *)
(* A call takes the minute of its own clock as key, increments the key,    *)
(* gives it a time to live if it is the first, and is refused when the     *)
(* count is over the limit.  Time is counted in ticks.  The clock of a     *)
(* caller runs up to MaxSkew ticks ahead of the slowest one.  A command    *)
(* may take any time: the client has no timeout for one, and keeps those   *)
(* it cannot send, or has no answer to, until Redis is reached again.      *)
(***************************************************************************)
EXTENDS Integers, Sequences, FiniteSets

CONSTANTS
    Callers,      \* handlers that call assertAllowed
    Limit,        \* calls the plan allows in a minute, the fraction dropped
    Window,       \* ticks in a minute
    Ttl,          \* 70 seconds: ticks a key lives after its first increment
    MaxSkew,      \* distance of the clocks
    MaxTime       \* bound: ticks

ASSUME CallersAssumption == IsFiniteSet(Callers)
ASSUME LimitAssumption == Limit \in Nat
ASSUME TimeAssumption == /\ Window \in Nat \ {0} /\ Ttl \in Nat \ {0}
                         /\ MaxSkew \in Nat /\ MaxTime \in Nat

VARIABLES
    now,          \* ticks since the start
    skew,         \* per caller: how far its clock is ahead
    count,        \* rate:<tenant>:<window>, 0 when the key does not exist
    expiry,       \* when a key expires, 0 when it has no time to live
    pc,           \* per caller: the command that comes next
    key,          \* per caller: the window its call counts under
    asked,        \* per caller: when it took that window
    granted,      \* history: calls allowed so far, by key
    late,         \* history: increments made late, by key
    grants,       \* history: when each call was allowed, and how long it took
    lost          \* history: commands whose answer was lost

vars == <<now, skew, count, expiry, pc, key, asked, granted, late, grants, lost>>

Keys == 0..(MaxTime + MaxSkew)

TypeOK ==
    /\ now \in 0..MaxTime
    /\ skew \in [Callers -> 0..MaxSkew]
    /\ count \in [Keys -> Nat] /\ expiry \in [Keys -> Nat]
    /\ pc \in [Callers -> {"idle", "incr", "expire"}]
    /\ key \in [Callers -> Keys]
    /\ asked \in [Callers -> 0..MaxTime]
    /\ granted \in [Keys -> Nat] /\ late \in [Keys -> Nat]
    /\ grants \in Seq([at : 0..MaxTime, took : 0..MaxTime])
    /\ lost \in Nat

Init ==
    /\ now = 0
    /\ skew \in [Callers -> 0..MaxSkew]
    /\ count = [k \in Keys |-> 0] /\ expiry = [k \in Keys |-> 0]
    /\ pc = [c \in Callers |-> "idle"]
    /\ key = [c \in Callers |-> 0]
    /\ asked = [c \in Callers |-> 0]
    /\ granted = [k \in Keys |-> 0] /\ late = [k \in Keys |-> 0]
    /\ grants = <<>>
    /\ lost = 0

\* The call of c is over.
Return(c) == /\ pc' = [pc EXCEPT ![c] = "idle"]
             /\ key' = [key EXCEPT ![c] = 0]
             /\ asked' = [asked EXCEPT ![c] = 0]

\* currentWindow: the minute of a clock
IsWindow(k, clock) == k * Window <= clock /\ clock < (k + 1) * Window

Grant(c) == /\ granted' = [granted EXCEPT ![key[c]] = @ + 1]
            /\ grants' = Append(grants, [at |-> now, took |-> now - asked[c]])

\* The call of c is refused when its count is over the limit.
Answer(c, n) == /\ Return(c)
                /\ IF n > Limit THEN UNCHANGED <<granted, grants>> ELSE Grant(c)

\* Of the time to live a minute and the skew of the clocks leave so much: an
\* increment made later after the call took its key may find the key expired.
Slack == Ttl - Window - MaxSkew
Late(c) == now - asked[c] > Slack

\* A slip: a key lives for a minute and not for the slack.
SetExpiryTight(c) ==
    expiry' = [expiry EXCEPT ![key[c]] = IF count[key[c]] > 0 THEN now + Window ELSE @]

\* Redis executes the increment of c, and its expire, which does nothing when
\* the key is gone.
Increment(c) == /\ count' = [count EXCEPT ![key[c]] = @ + 1]
                /\ late' = [late EXCEPT ![key[c]] = @ + IF Late(c) THEN 1 ELSE 0]
SetExpiry(c) == expiry' = [expiry EXCEPT ![key[c]] = IF count[key[c]] > 0 THEN now + Ttl ELSE @]

\* Redis executes the command of c once.
Executed(c) == \/ pc[c] = "incr" /\ Increment(c) /\ UNCHANGED expiry
               \/ pc[c] = "expire" /\ SetExpiry(c) /\ UNCHANGED <<count, late>>

Ask(c, k) ==
    /\ pc[c] = "idle"
    /\ IsWindow(k, now + skew[c])
    /\ pc' = [pc EXCEPT ![c] = "incr"]
    /\ key' = [key EXCEPT ![c] = k]
    /\ asked' = [asked EXCEPT ![c] = now]
    /\ UNCHANGED <<now, skew, count, expiry, granted, late, grants, lost>>

-----------------------------------------------------------------------------
\* Slips the properties below are there to catch: Spec uses none of these.

\* The first increment gives the key no time to live.
IncrNoExpire(c) ==
    /\ pc[c] = "incr"
    /\ Increment(c)
    /\ Answer(c, count'[key[c]])
    /\ UNCHANGED <<now, skew, expiry, lost>>

\* The limit is off by one.
IncrOneMore(c) ==
    /\ pc[c] = "incr"
    /\ Increment(c)
    /\ \/ count'[key[c]] = 1 /\ pc' = [pc EXCEPT ![c] = "expire"] /\ UNCHANGED <<key, asked, granted, grants>>
       \/ count'[key[c]] # 1 /\ Answer(c, count'[key[c]] - 1)
    /\ UNCHANGED <<now, skew, expiry, lost>>

\* A call that fails gives its increment back, made or not.
LoseRefunds(c) ==
    /\ pc[c] # "idle"
    /\ count' = [count EXCEPT ![key[c]] = @ - 1]
    /\ lost' = lost + 1
    /\ Return(c)
    /\ UNCHANGED <<now, skew, expiry, granted, late, grants>>

-----------------------------------------------------------------------------
\* redis.incr; the first increment is followed by expire.
Incr(c) ==
    /\ pc[c] = "incr"
    /\ Increment(c)
    /\ \/ count'[key[c]] = 1 /\ pc' = [pc EXCEPT ![c] = "expire"] /\ UNCHANGED <<key, asked, granted, grants>>
       \/ count'[key[c]] # 1 /\ Answer(c, count'[key[c]])
    /\ UNCHANGED <<now, skew, expiry, lost>>

\* redis.expire; the count of the call is one.
Expire(c) ==
    /\ pc[c] = "expire"
    /\ SetExpiry(c)
    /\ Answer(c, 1)
    /\ UNCHANGED <<now, skew, count, late, lost>>

\* A command fails, executed or not, or the process of the caller dies.
Lose(c) ==
    /\ pc[c] # "idle"
    /\ Executed(c) \/ UNCHANGED <<count, expiry, late>>
    /\ lost' = lost + 1
    /\ Return(c)
    /\ UNCHANGED <<now, skew, granted, grants>>

\* The connection is lost with the answer: the client sends the command again.
Resend(c) ==
    /\ Executed(c)
    /\ lost' = lost + 1
    /\ UNCHANGED <<now, skew, pc, key, asked, granted, grants>>

\* Time passes, and Redis drops the keys that expire.
Tick ==
    /\ now < MaxTime
    /\ now' = now + 1
    /\ count' = [k \in Keys |-> IF expiry[k] = now + 1 THEN 0 ELSE count[k]]
    /\ expiry' = [k \in Keys |-> IF expiry[k] = now + 1 THEN 0 ELSE expiry[k]]
    /\ UNCHANGED <<skew, pc, key, asked, granted, late, grants, lost>>

Next ==
    \/ \E c \in Callers : Incr(c) \/ Expire(c) \/ Lose(c) \/ Resend(c) \/ \E k \in Keys : Ask(c, k)
    \/ Tick

Spec == Init /\ [][Next]_vars

-----------------------------------------------------------------------------
(***************************************************************************)
(* At most Limit calls are allowed under one minute's key, whatever        *)
(* processes make them, as long as no increment is later than the ten      *)
(* seconds the time to live has over the minute.  One that is later may    *)
(* find the key expired and begin again at one: each lets at most Limit    *)
(* calls more through.                                                     *)
(***************************************************************************)
Allowed(k) == Limit * (1 + late[k])
KeyLimit == \A k \in Keys : granted[k] <= Allowed(k)

(***************************************************************************)
(* Every key in Redis has a time to live or a call that is about to give   *)
(* it one, as long as no answer was lost on the way.                       *)
(***************************************************************************)
NoImmortalKey ==
    \A k \in Keys :
        count[k] > 0 /\ expiry[k] = 0 /\ lost = 0 =>
            \E c \in Callers : pc[c] = "expire" /\ key[c] = k

\* A call that was allowed within a minute and a tick, less the skew.
Prompt(i) == grants[i].took + MaxSkew <= Window + 1

\* Calls allowed within d ticks, the i-th being the first of them.
GrantsFrom(i, d) == {j \in i..Len(grants) : grants[j].at - grants[i].at <= d}

(***************************************************************************)
(* Within a minute of real time at most three minutes' limits are allowed  *)
(* to calls that took less than about a minute each: the window that ends  *)
(* in it, the one that begins, and the one of a clock ahead or a slow      *)
(* call; each limit as KeyLimit has it, the largest for all three.         *)
(***************************************************************************)
MinuteBound ==
    \A i \in 1..Len(grants) : Prompt(i) =>
        \E k \in Keys :
            Cardinality({j \in GrantsFrom(i, Window - 1) : Prompt(j)}) <= 3 * Allowed(k)

(***************************************************************************)
(* A token bucket of Limit tokens, refilled at Limit a minute, allows at   *)
(* most Limit calls at once and Limit more for each minute that passes.    *)
(***************************************************************************)
TokenBucketBound ==
    \A i \in 1..Len(grants), d \in 0..Window :
        Cardinality(GrantsFrom(i, d)) * Window <= Limit * Window + Limit * d
================================================================================
