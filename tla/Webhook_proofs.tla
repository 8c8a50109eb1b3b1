----------------------------- MODULE Webhook_proofs -----------------------------
(***************************************************************************)
(* Theorems about Webhook, for any messages, handlers, requests and        *)
(* acceptances.                                                            *)
(***************************************************************************)
EXTENDS Webhook, FiniteSetTheorems, TLAPS

\* The statuses an acceptance is counted by, as the tables write them.
Counted == {"sent", "delivered", "failed"}
Of(counters, c) == CASE c = "sent" -> counters.sent
                     [] c = "delivered" -> counters.delivered
                     [] c = "failed" -> counters.failed

\* The handler has taken up a report about m that counts as c, and not counted it yet.
Due(h, m, c) == /\ pc[h] \in {"mirror", "count"}
                /\ Head(todo[h]).msg = m
                /\ Of(Increment(None, Mapped(Head(todo[h]).status)), c) = 1
Waiting(m, c) == {h \in Handlers : Due(h, m, c)}

(***************************************************************************)
(* What is counted, and what handlers may still count, was taken up.       *)
(***************************************************************************)
CountInv == \A m \in Msgs, c \in Counted :
    Of(usage[m], c) + Cardinality(Waiting(m, c)) <= Of(took[m], c)

IInv == TypeOK /\ CountInv

-----------------------------------------------------------------------------
\* The status of a report is one of a row.
LEMMA MappedType ==
    ASSUME NEW st \in Reports
    PROVE  Mapped(st) \in RowStatus
  BY ReportsAssumption DEF Mapped, RowStatus, Failed, MetaStatus

\* An increment is zero or one, and not more than that of a row that was in no state.
LEMMA IncrementBound ==
    ASSUME NEW previous, NEW new \in RowStatus
    PROVE  /\ Increment(previous, new) \in Counters
           /\ \A c \in Counted : /\ Of(Increment(previous, new), c) \in {0, 1}
                                 /\ Of(Increment(previous, new), c) <= Of(Increment(None, new), c)
<1>1. Increment(previous, new) \in Counters
  BY DEF Increment, Counters
<1>2. ASSUME NEW c \in Counted
      PROVE  /\ Of(Increment(previous, new), c) \in {0, 1}
             /\ Of(Increment(previous, new), c) <= Of(Increment(None, new), c)
  BY <1>2 DEF Counted, Of, Increment, None, Failed
<1>. QED BY <1>1, <1>2

LEMMA PlusOf ==
    ASSUME NEW a \in Counters, NEW b \in Counters
    PROVE  /\ Plus(a, b) \in Counters
           /\ \A c \in Counted : /\ Of(a, c) \in Nat
                                 /\ Of(Plus(a, b), c) = Of(a, c) + Of(b, c)
  BY DEF Counters, Plus, Counted, Of

\* What a handler adds is no more than its report is worth.
LEMMA ToCountBound ==
    ASSUME NEW h \in Handlers, NEW new \in RowStatus, new = Mapped(Head(todo[h]).status)
    PROVE  /\ ToCount(h) \in Counters
           /\ \A c \in Counted : Of(ToCount(h), c) <= Of(Increment(None, new), c)
<1>1. CASE prevRow[h] # None \/ prevMirror[h] # None
  BY <1>1, IncrementBound DEF ToCount
<1>2. CASE ~(prevRow[h] # None \/ prevMirror[h] # None)
  <2>1. ToCount(h) = NoCount
    BY <1>2 DEF ToCount
  <2>2. NoCount \in Counters /\ \A c \in Counted : Of(NoCount, c) = 0
    BY DEF NoCount, Counters, Counted, Of
  <2>. QED BY <2>1, <2>2, IncrementBound
<1>. QED BY <1>1, <1>2

-----------------------------------------------------------------------------
\* A handler with something to do has a first status, and what follows it are statuses.
LEMMA Pending ==
    ASSUME TypeOK, NEW h \in Handlers, pc[h] # "idle"
    PROVE  /\ todo[h] \in Seq(Event) /\ todo[h] # <<>>
           /\ Head(todo[h]) \in Event
           /\ Tail(todo[h]) \in Seq(Event)
           /\ Len(todo[h]) > 1 => Tail(todo[h]) # <<>>
           /\ Len(todo[h]) <= 1 => Tail(todo[h]) = <<>>
<1>1. todo[h] \in Seq(Event) /\ todo[h] # <<>>
  BY DEF TypeOK
<1>. QED BY <1>1

\* A table whose row an update moves still has rows, and the previous status is one.
LEMMA UpdatedType ==
    ASSUME NEW table \in [Msgs -> Row], NEW e \in Event
    PROVE  /\ Updated(table, e) \in [Msgs -> Row]
           /\ Previous(table, e) \in RowStatus \cup {None}
           /\ LeftDelivered(table, e) \in BOOLEAN
<1>1. e.msg \in Msgs /\ e.status \in Reports
  BY DEF Event
<1>2. Mapped(e.status) \in RowStatus
  BY <1>1, MappedType
<1>3. table[e.msg] \in Row
  BY <1>1
<1>4. Previous(table, e) \in RowStatus \cup {None}
  BY <1>3 DEF Previous, Row
<1>5. LeftDelivered(table, e) \in BOOLEAN
  BY DEF LeftDelivered, Moves
<1>6. Updated(table, e) \in [Msgs -> Row]
  BY <1>1, <1>2, <1>3 DEF Updated, Row
<1>. QED BY <1>4, <1>5, <1>6

\* What is noted about a message stays a Boolean.
LEMMA RegressedType ==
    ASSUME TypeOK, NEW m \in Msgs, NEW left,
           \/ regressed' = regressed
           \/ regressed' = [regressed EXCEPT ![m] = @ \/ left]
    PROVE  regressed' \in [Msgs -> BOOLEAN]
<1>1. (regressed[m] \/ left) \in BOOLEAN
  OBVIOUS
<1>. DEFINE b == regressed[m] \/ left
<1>2. b \in BOOLEAN
  BY <1>1
<1>3. regressed' = regressed \/ regressed' = [regressed EXCEPT ![m] = b]
  OBVIOUS
<1>. HIDE DEF b
<1>. QED BY <1>2, <1>3 DEF TypeOK

\* A request that ends in an error leaves its handler as it was before the request.
LEMMA FaultType ==
    ASSUME TypeOK, NEW h \in Handlers, Fault(h)
    PROVE  /\ pc' \in [Handlers -> {"idle", "store", "row", "mirror", "count", "log"}]
           /\ todo' \in [Handlers -> Seq(Event)]
           /\ \A k \in Handlers : pc'[k] = "idle" <=> todo'[k] = <<>>
           /\ prevRow' \in [Handlers -> RowStatus \cup {None}]
           /\ prevMirror' \in [Handlers -> RowStatus \cup {None}]
           /\ faults' \in Nat
<1>1. <<>> \in Seq(Event)
  OBVIOUS
<1>. QED BY <1>1 DEF TypeOK, Fault

\* So does a handler that goes on to another statement about the same status.
LEMMA GoesOnType ==
    ASSUME TypeOK, NEW h \in Handlers, pc[h] # "idle",
           NEW next \in {"row", "mirror", "count", "log"},
           pc' = [pc EXCEPT ![h] = next], todo' = todo
    PROVE  /\ pc' \in [Handlers -> {"idle", "store", "row", "mirror", "count", "log"}]
           /\ todo' \in [Handlers -> Seq(Event)]
           /\ \A k \in Handlers : pc'[k] = "idle" <=> todo'[k] = <<>>
  BY DEF TypeOK

\* The worker's statements are told apart by their place.
LEMMA Tasks ==
    /\ Idle \in Task /\ Catch \in Task /\ LogEntry \in Task
    /\ \A place \in {"row", "mirror"}, status \in Attempted :
          /\ At(place, status) \in Task
          /\ At(place, status).at = place /\ At(place, status).status = status
    /\ Idle.at = "none" /\ Catch.at = "catch" /\ LogEntry.at = "log"
    /\ \A t \in Task : t.at \in {"row", "mirror"} => t.status \in Attempted
<1>1. /\ Idle \in Task /\ Catch \in Task /\ LogEntry \in Task
      /\ \A place \in {"row", "mirror"}, status \in Attempted : At(place, status) \in Task
  BY DEF Task
<1>2. \A place, status : At(place, status).at = place /\ At(place, status).status = status
  BY DEF At
<1>3. Idle.at = "none" /\ Catch.at = "catch" /\ LogEntry.at = "log"
  BY <1>2 DEF Idle, Catch, LogEntry
<1>4. ASSUME NEW t \in Task, t.at \in {"row", "mirror"} PROVE t.status \in Attempted
  BY <1>2, <1>3, <1>4 DEF Task
<1>. QED BY <1>1, <1>2, <1>3, <1>4

LEMMA InitType == Init => TypeOK
<1>1. <<>> \in Seq(Event)
  OBVIOUS
<1>2. NoCount \in Counters
  BY DEF NoCount, Counters
<1>3. [status |-> "queued", id |-> 0] \in Row /\ 0 \in 0..MaxAccepts /\ 0 \in 0..MaxReceipts
  BY BoundsAssumption DEF Row, RowStatus
<1>. SUFFICES ASSUME Init PROVE TypeOK
  OBVIOUS
<1>4. /\ cm \in [Msgs -> Row] /\ mirror \in [Msgs -> Row]
      /\ usage \in [Msgs -> Counters] /\ took \in [Msgs -> Counters]
      /\ accepts \in [Msgs -> 0..MaxAccepts]
      /\ tries \in [Msgs -> 0..MaxTries] /\ task \in [Msgs -> Task]
  BY <1>2, <1>3, BoundsAssumption, Tasks DEF Init
<1>6. owed \in [Msgs -> [Late -> 0..MaxOwed]]
  <2>1. NothingOwed \in [Late -> 0..MaxOwed]
    BY BoundsAssumption DEF NothingOwed
  <2>. QED BY <2>1 DEF Init
<1>5. /\ pc \in [Handlers -> {"idle", "store", "row", "mirror", "count", "log"}]
      /\ todo \in [Handlers -> Seq(Event)]
      /\ \A h \in Handlers : pc[h] = "idle" <=> todo[h] = <<>>
  BY <1>1 DEF Init
<1>. QED BY <1>3, <1>4, <1>5, <1>6 DEF Init, TypeOK

LEMMA ReceiveType ==
    ASSUME TypeOK, NEW h \in Handlers, NEW p \in Request, Receive(h, p)
    PROVE  TypeOK'
<1>1. p \in Seq(Event) /\ p # <<>>
  <2>1. PICK k \in 1..MaxBatch : p \in [1..k -> Event]
    BY DEF Request
  <2>2. k \in Nat /\ k > 0
    BY BoundsAssumption
  <2>. QED BY <2>1, <2>2
<1>2. receipts' \in 0..MaxReceipts
  BY <1>1, BoundsAssumption DEF TypeOK, Receive
<1>3. overlapped' \in BOOLEAN
  BY DEF TypeOK, Receive, Quiet
<1>4. /\ todo' \in [Handlers -> Seq(Event)]
      /\ pc' \in [Handlers -> {"idle", "store", "row", "mirror", "count", "log"}]
      /\ \A k \in Handlers : pc'[k] = "idle" <=> todo'[k] = <<>>
  BY <1>1 DEF TypeOK, Receive
<1>. QED BY <1>2, <1>3, <1>4 DEF TypeOK, Receive, tables, worker

LEMMA StoreType == ASSUME TypeOK, NEW h \in Handlers, Store(h) PROVE TypeOK'
<1>1. CASE Fault(h)
  BY <1>1, FaultType DEF TypeOK, Store, tables, worker
<1>2. CASE pc' = [pc EXCEPT ![h] = "row"] /\ UNCHANGED <<todo, prevRow, prevMirror, faults>>
  BY <1>2, GoesOnType DEF TypeOK, Store, tables, worker
<1>. QED BY <1>1, <1>2 DEF Store


LEMMA UpdateRowType == ASSUME TypeOK, NEW h \in Handlers, UpdateRow(h) PROVE TypeOK'
<1>. DEFINE e == Head(todo[h])
<1>1. pc[h] # "idle" /\ e \in Event
  BY Pending DEF UpdateRow
<1>2. e.msg \in Msgs /\ e.n \in 1..MaxAccepts /\ e.status \in Reports
  BY <1>1 DEF Event
<1>3. seen' \subseteq Msgs \X (1..MaxAccepts)
  BY <1>2 DEF TypeOK, UpdateRow
<1>4. took' \in [Msgs -> Counters]
  <2>1. took[e.msg] \in Counters /\ Increment(None, Mapped(e.status)) \in Counters
    BY <1>2, MappedType, IncrementBound DEF TypeOK
  <2>2. Plus(took[e.msg], Increment(None, Mapped(e.status))) \in Counters
    BY <2>1, PlusOf
  <2>. QED BY <2>2 DEF TypeOK, UpdateRow
<1>5. cm' \in [Msgs -> Row] /\ regressed' \in [Msgs -> BOOLEAN]
  <2>1. /\ Updated(cm, e) \in [Msgs -> Row]
        /\ LeftDelivered(cm, e) \in BOOLEAN
    BY <1>1, UpdatedType DEF TypeOK
  <2>2. \/ UNCHANGED <<cm, regressed>>
        \/ /\ cm' = Updated(cm, e)
           /\ regressed' = [regressed EXCEPT ![e.msg] = @ \/ LeftDelivered(cm, e)]
    BY DEF UpdateRow
  <2>3. cm' \in [Msgs -> Row]
    BY <2>1, <2>2 DEF TypeOK
  <2>4. regressed' \in [Msgs -> BOOLEAN]
    BY <1>2, <2>2, RegressedType
  <2>. QED BY <2>3, <2>4
<1>6. /\ pc' \in [Handlers -> {"idle", "store", "row", "mirror", "count", "log"}]
      /\ todo' \in [Handlers -> Seq(Event)]
      /\ \A k \in Handlers : pc'[k] = "idle" <=> todo'[k] = <<>>
      /\ prevRow' \in [Handlers -> RowStatus \cup {None}]
      /\ prevMirror' \in [Handlers -> RowStatus \cup {None}]
      /\ faults' \in Nat
  <2>1. CASE Fault(h)
    BY <2>1, FaultType
  <2>2. CASE /\ prevRow' = [prevRow EXCEPT ![h] = Previous(cm, e)]
             /\ pc' = [pc EXCEPT ![h] = "mirror"]
             /\ UNCHANGED <<todo, prevMirror, faults>>
    <3>1. Previous(cm, e) \in RowStatus \cup {None}
      BY <1>1, UpdatedType DEF TypeOK
    <3>. QED BY <1>1, <2>2, <3>1, GoesOnType DEF TypeOK
  <2>. QED BY <2>1, <2>2 DEF UpdateRow
<1>. HIDE DEF e
<1>. QED BY <1>3, <1>4, <1>5, <1>6 DEF TypeOK, UpdateRow, worker

LEMMA UpdateMirrorType == ASSUME TypeOK, NEW h \in Handlers, UpdateMirror(h) PROVE TypeOK'
<1>. DEFINE e == Head(todo[h])
<1>1. pc[h] # "idle" /\ e \in Event
  BY Pending DEF UpdateMirror
<1>2. e.msg \in Msgs
  BY <1>1 DEF Event
<1>3. mirror' \in [Msgs -> Row] /\ regressed' \in [Msgs -> BOOLEAN]
  <2>1. /\ Updated(mirror, e) \in [Msgs -> Row]
        /\ LeftDelivered(mirror, e) \in BOOLEAN
    BY <1>1, UpdatedType DEF TypeOK
  <2>2. \/ UNCHANGED <<mirror, regressed>>
        \/ /\ mirror' = Updated(mirror, e)
           /\ regressed' = [regressed EXCEPT ![e.msg] = @ \/ LeftDelivered(mirror, e)]
    BY DEF UpdateMirror
  <2>3. mirror' \in [Msgs -> Row]
    BY <2>1, <2>2 DEF TypeOK
  <2>4. regressed' \in [Msgs -> BOOLEAN]
    BY <1>2, <2>2, RegressedType
  <2>. QED BY <2>3, <2>4
<1>4. /\ pc' \in [Handlers -> {"idle", "store", "row", "mirror", "count", "log"}]
      /\ todo' \in [Handlers -> Seq(Event)]
      /\ \A k \in Handlers : pc'[k] = "idle" <=> todo'[k] = <<>>
      /\ prevRow' \in [Handlers -> RowStatus \cup {None}]
      /\ prevMirror' \in [Handlers -> RowStatus \cup {None}]
      /\ faults' \in Nat
  <2>1. CASE Fault(h)
    BY <2>1, FaultType
  <2>2. CASE /\ prevMirror' = [prevMirror EXCEPT ![h] = Previous(mirror, e)]
             /\ pc' = [pc EXCEPT ![h] = "count"]
             /\ UNCHANGED <<todo, prevRow, faults>>
    <3>1. Previous(mirror, e) \in RowStatus \cup {None}
      BY <1>1, UpdatedType DEF TypeOK
    <3>. QED BY <1>1, <2>2, <3>1, GoesOnType DEF TypeOK
  <2>. QED BY <2>1, <2>2 DEF UpdateMirror
<1>. HIDE DEF e
<1>. QED BY <1>3, <1>4 DEF TypeOK, UpdateMirror, worker

LEMMA CountType == ASSUME TypeOK, NEW h \in Handlers, Count(h) PROVE TypeOK'
<1>. DEFINE e == Head(todo[h])
<1>1. pc[h] # "idle" /\ e \in Event
  BY Pending DEF Count
<1>2. e.msg \in Msgs /\ e.status \in Reports
  BY <1>1 DEF Event
<1>3. usage' \in [Msgs -> Counters]
  <2>1. usage[e.msg] \in Counters /\ ToCount(h) \in Counters
    BY <1>2, MappedType, ToCountBound DEF TypeOK
  <2>2. Plus(usage[e.msg], ToCount(h)) \in Counters
    BY <2>1, PlusOf
  <2>. QED BY <2>2 DEF TypeOK, Count
<1>4. /\ pc' \in [Handlers -> {"idle", "store", "row", "mirror", "count", "log"}]
      /\ todo' \in [Handlers -> Seq(Event)]
      /\ \A k \in Handlers : pc'[k] = "idle" <=> todo'[k] = <<>>
      /\ prevRow' \in [Handlers -> RowStatus \cup {None}]
      /\ prevMirror' \in [Handlers -> RowStatus \cup {None}]
      /\ faults' \in Nat
  <2>1. CASE Fault(h)
    BY <2>1, FaultType
  <2>2. CASE /\ pc' = [pc EXCEPT ![h] = "log"]
             /\ UNCHANGED <<todo, prevRow, prevMirror, faults>>
    BY <1>1, <2>2, GoesOnType DEF TypeOK
  <2>. QED BY <2>1, <2>2 DEF Count
<1>. HIDE DEF e
<1>. QED BY <1>3, <1>4 DEF TypeOK, Count, worker

LEMMA LogType == ASSUME TypeOK, NEW h \in Handlers, Log(h) PROVE TypeOK'
<1>1. pc[h] # "idle"
  BY DEF Log
<1>2. CASE Fault(h)
  BY <1>2, FaultType DEF TypeOK, Log, tables, worker
<1>3. CASE /\ todo' = [todo EXCEPT ![h] = Tail(@)]
           /\ pc' = [pc EXCEPT ![h] = IF Len(todo[h]) > 1 THEN "row" ELSE "idle"]
           /\ prevRow' = [prevRow EXCEPT ![h] = None]
           /\ prevMirror' = [prevMirror EXCEPT ![h] = None]
           /\ UNCHANGED faults
  <2>1. /\ Tail(todo[h]) \in Seq(Event)
        /\ Len(todo[h]) > 1 <=> Tail(todo[h]) # <<>>
    <3>1. Len(todo[h]) \in Nat
      BY <1>1, Pending
    <3>. QED BY <1>1, <3>1, Pending
  <2>2. /\ todo' \in [Handlers -> Seq(Event)]
        /\ pc' \in [Handlers -> {"idle", "store", "row", "mirror", "count", "log"}]
        /\ \A k \in Handlers : pc'[k] = "idle" <=> todo'[k] = <<>>
    <3>. DEFINE more == Len(todo[h]) > 1
                rest == Tail(todo[h])
    <3>1. more <=> rest # <<>>
      BY <2>1
    <3>2. rest \in Seq(Event)
      BY <2>1
    <3>3. pc' = [pc EXCEPT ![h] = IF more THEN "row" ELSE "idle"] /\ todo' = [todo EXCEPT ![h] = rest]
      BY <1>3
    <3>. HIDE DEF more, rest
    <3>. QED BY <3>1, <3>2, <3>3 DEF TypeOK
  <2>. QED BY <1>3, <2>2 DEF TypeOK, Log, tables, worker
<1>. QED BY <1>2, <1>3 DEF Log

-----------------------------------------------------------------------------
\* The worker's steps that write neither table, and those that write one.
Pauses(m) == \/ Accept(m) \/ Refuse(m) \/ Limit(m) \/ Throw(m)
             \/ RecordLog(m) \/ Fails(m) \/ Retry(m) \/ Abandon(m)
Rewrites(m) == \/ RecordRow(m) \/ RecordMirror(m) \/ Relaunch(m)
               \/ \E status \in Late : RecordLate(m, status)

\* What is noted about one message.
LEMMA OrOf ==
    ASSUME NEW f \in [Msgs -> BOOLEAN], NEW m \in Msgs, NEW b
    PROVE  /\ [f EXCEPT ![m] = @ \/ b] \in [Msgs -> BOOLEAN]
           /\ [f EXCEPT ![m] = @ \/ b][m] <=> f[m] \/ b
           /\ \A n \in Msgs \ {m} : [f EXCEPT ![m] = @ \/ b][n] = f[n]
<1>. DEFINE c == f[m] \/ b
<1>1. c \in BOOLEAN /\ (c <=> f[m] \/ b)
  OBVIOUS
<1>. HIDE DEF c
<1>2. /\ [f EXCEPT ![m] = c] \in [Msgs -> BOOLEAN]
      /\ [f EXCEPT ![m] = c][m] = c
      /\ \A n \in Msgs \ {m} : [f EXCEPT ![m] = c][n] = f[n]
  BY <1>1
<1>. QED BY <1>1, <1>2 DEF c

LEMMA NoteOf ==
    ASSUME TypeOK, NEW m \in Msgs, NEW row, NEW new, Note(m, row, new)
    PROVE  /\ raced' \in [Msgs -> BOOLEAN] /\ regressed' \in [Msgs -> BOOLEAN] /\ crossed' \in [Msgs -> BOOLEAN]
           /\ raced'[m] <=> raced[m] \/ (new.status = "accepted_meta" /\ <<m, new.id>> \in seen)
           /\ crossed'[m] <=> crossed[m] \/ <<m, new.id>> \in seen
           /\ regressed'[m] <=> regressed[m] \/ row.status = "delivered"
           /\ \A n \in Msgs \ {m} : raced'[n] = raced[n] /\ regressed'[n] = regressed[n] /\ crossed'[n] = crossed[n]
           /\ UNCHANGED <<receipts, faults, seen, took, overlapped>>
<1>. DEFINE known == <<m, new.id>> \in seen
            again == new.status = "accepted_meta" /\ known
            shown == row.status = "delivered"
<1>1. /\ raced' = [raced EXCEPT ![m] = @ \/ again]
      /\ crossed' = [crossed EXCEPT ![m] = @ \/ known]
      /\ regressed' = [regressed EXCEPT ![m] = @ \/ shown]
      /\ UNCHANGED <<receipts, faults, seen, took, overlapped>>
  BY DEF Note
<1>2. raced \in [Msgs -> BOOLEAN] /\ crossed \in [Msgs -> BOOLEAN] /\ regressed \in [Msgs -> BOOLEAN]
  BY DEF TypeOK
<1>. HIDE DEF known, again, shown
<1>3. /\ raced' \in [Msgs -> BOOLEAN] /\ (raced'[m] <=> raced[m] \/ again)
      /\ \A n \in Msgs \ {m} : raced'[n] = raced[n]
  BY <1>1, <1>2, OrOf
<1>4. /\ crossed' \in [Msgs -> BOOLEAN] /\ (crossed'[m] <=> crossed[m] \/ known)
      /\ \A n \in Msgs \ {m} : crossed'[n] = crossed[n]
  BY <1>1, <1>2, OrOf
<1>5. /\ regressed' \in [Msgs -> BOOLEAN] /\ (regressed'[m] <=> regressed[m] \/ shown)
      /\ \A n \in Msgs \ {m} : regressed'[n] = regressed[n]
  BY <1>1, <1>2, OrOf
<1>. QED BY <1>1, <1>3, <1>4, <1>5 DEF known, again, shown

\* A number of late writes goes up or down by one.
LEMMA OwedType ==
    ASSUME TypeOK, NEW m \in Msgs, NEW s \in Late, NEW n \in 0..MaxOwed, owed' = [owed EXCEPT ![m][s] = n]
    PROVE  owed' \in [Msgs -> [Late -> 0..MaxOwed]]
<1>. DEFINE f == [owed[m] EXCEPT ![s] = n]
<1>1. owed[m] \in [Late -> 0..MaxOwed]
  BY DEF TypeOK
<1>2. f \in [Late -> 0..MaxOwed] /\ owed' = [owed EXCEPT ![m] = f]
  BY <1>1
<1>. HIDE DEF f
<1>. QED BY <1>2 DEF TypeOK

LEMMA PauseType == ASSUME TypeOK, NEW m \in Msgs, Pauses(m) PROVE TypeOK'
<1>1. /\ UNCHANGED <<tables, request, receipts, faults, seen, took, overlapped, raced, regressed>>
      /\ accepts' \in [Msgs -> 0..MaxAccepts]
  <2>1. UNCHANGED <<tables, request, receipts, faults, seen, took, overlapped, raced, regressed>>
    BY DEF Pauses, Accept, Refuse, Limit, Throw, RecordLog, Fails, Retry, Abandon, history
  <2>2. CASE Accept(m)
    BY <2>2, BoundsAssumption DEF TypeOK, Accept
  <2>3. CASE accepts' = accepts
    BY <2>1, <2>3 DEF TypeOK
  <2>4. Accept(m) \/ accepts' = accepts
    BY DEF Pauses, Refuse, Limit, Throw, RecordLog, Fails, Retry, Abandon
  <2>. QED BY <2>1, <2>2, <2>3, <2>4
<1>2. tries' \in [Msgs -> 0..MaxTries]
  BY BoundsAssumption DEF TypeOK, Pauses, Begun, Accept, Refuse, Limit, Throw, RecordLog, Fails, Retry, Abandon
<1>3. task' \in [Msgs -> Task]
  <2>1. \E t \in Task : task' = [task EXCEPT ![m] = t] \/ task' = task
    BY Tasks DEF Pauses, Accept, Refuse, Limit, Throw, RecordLog, Fails, Retry, Abandon, Attempted
  <2>. QED BY <2>1 DEF TypeOK
<1>4. crossed' \in [Msgs -> BOOLEAN]
  <2>1. CASE UNCHANGED crossed
    BY <2>1 DEF TypeOK
  <2>2. CASE crossed' = [crossed EXCEPT ![m] = TRUE]
    BY <2>2 DEF TypeOK
  <2>3. CASE crossed' = [crossed EXCEPT ![m] = @ \/ owed[m] # NothingOwed]
    BY <2>3, OrOf DEF TypeOK
  <2>. QED BY <2>1, <2>2, <2>3 DEF Pauses, Begun, Accept, Refuse, Limit, Throw, RecordLog, Fails, Retry, Abandon, history
<1>5. owed' \in [Msgs -> [Late -> 0..MaxOwed]]
  <2>1. CASE UNCHANGED owed
    BY <2>1 DEF TypeOK
  <2>2. CASE Retry(m) /\ owed' # owed
    <3>1. "failed_retryable" \in Late /\ owed[m]["failed_retryable"] \in 0..MaxOwed
      BY DEF TypeOK, Late
    <3>2. owed[m]["failed_retryable"] + 1 \in 0..MaxOwed
      BY <2>2, <3>1, BoundsAssumption DEF Retry
    <3>. QED BY <2>2, <3>1, <3>2, OwedType DEF Retry
  <2>3. CASE Abandon(m) /\ owed' # owed
    <3>1. PICK s \in Late : owed[m][s] > 0 /\ owed' = [owed EXCEPT ![m][s] = @ - 1]
      BY <2>3 DEF Abandon
    <3>2. owed[m][s] - 1 \in 0..MaxOwed
      BY <3>1, BoundsAssumption DEF TypeOK
    <3>. QED BY <3>1, <3>2, OwedType
  <2>. QED BY <2>1, <2>2, <2>3 DEF Pauses, Accept, Refuse, Limit, Throw, RecordLog, Fails
<1>. QED BY <1>1, <1>2, <1>3, <1>4, <1>5 DEF TypeOK, tables, request

\* A row the worker has written, and a table of them.
LEMMA WrittenType ==
    ASSUME TypeOK, NEW m \in Msgs, NEW status \in Attempted \cup Late, NEW row \in Row
    PROVE  Written(row, m, status) \in Row
<1>1. status \in RowStatus
  BY DEF Attempted, Late, RowStatus, Failed
<1>2. accepts[m] \in 0..MaxAccepts /\ row.id \in 0..MaxAccepts
  BY DEF TypeOK, Row
<1>. QED BY <1>1, <1>2 DEF Written, Row

LEMMA RewroteType ==
    ASSUME TypeOK, NEW m \in Msgs, NEW table \in [Msgs -> Row], NEW status \in Attempted \cup Late
    PROVE  [table EXCEPT ![m] = Written(@, m, status)] \in [Msgs -> Row]
<1>. DEFINE new == Written(table[m], m, status)
<1>1. new \in Row
  BY WrittenType
<1>. HIDE DEF new
<1>2. [table EXCEPT ![m] = new] \in [Msgs -> Row]
  BY <1>1
<1>. QED BY <1>2 DEF new

LEMMA RewriteType == ASSUME TypeOK, NEW m \in Msgs, Rewrites(m) PROVE TypeOK'
<1>. SUFFICES /\ cm' \in [Msgs -> Row] /\ mirror' \in [Msgs -> Row]
              /\ tries' \in [Msgs -> 0..MaxTries]
              /\ task' \in [Msgs -> Task] /\ owed' \in [Msgs -> [Late -> 0..MaxOwed]]
              /\ raced' \in [Msgs -> BOOLEAN] /\ regressed' \in [Msgs -> BOOLEAN]
              /\ crossed' \in [Msgs -> BOOLEAN]
              /\ UNCHANGED <<usage, accepts, request, receipts, faults, seen, took, overlapped>>
  BY DEF TypeOK, request
<1>1. CASE RecordRow(m)
  <2>. DEFINE status == task[m].status
  <2>1. status \in Attempted
    BY <1>1, Tasks DEF RecordRow, TypeOK
  <2>2. cm' \in [Msgs -> Row] /\ mirror' = mirror
    BY <1>1, <2>1, RewroteType DEF RecordRow, TypeOK
  <2>3. task' \in [Msgs -> Task]
    <3>1. \E t \in Task : task' = [task EXCEPT ![m] = t]
      BY <1>1, <2>1, Tasks DEF RecordRow
    <3>. QED BY <3>1 DEF TypeOK
  <2>4. owed' \in [Msgs -> [Late -> 0..MaxOwed]]
    <3>1. CASE status # "rate_limited"
      BY <1>1, <3>1 DEF RecordRow, TypeOK
    <3>2. CASE status = "rate_limited"
      <4>1. "rate_limited" \in Late /\ owed[m]["rate_limited"] \in 0..MaxOwed
        BY DEF TypeOK, Late
      <4>2. owed[m]["rate_limited"] + 1 \in 0..MaxOwed /\ owed' = [owed EXCEPT ![m]["rate_limited"] = @ + 1]
        BY <1>1, <3>2, <4>1, BoundsAssumption DEF RecordRow
      <4>. QED BY <4>1, <4>2, OwedType
    <3>. QED BY <3>1, <3>2
  <2>5. Note(m, cm[m], Written(cm[m], m, status)) /\ UNCHANGED <<usage, accepts, tries, request>>
    BY <1>1 DEF RecordRow
  <2>. HIDE DEF status
  <2>. QED BY <2>2, <2>3, <2>4, <2>5, NoteOf DEF TypeOK
<1>2. CASE RecordMirror(m)
  <2>. DEFINE status == task[m].status
  <2>1. status \in Attempted
    BY <1>2, Tasks DEF RecordMirror, TypeOK
  <2>2. mirror' \in [Msgs -> Row] /\ cm' = cm
    BY <1>2, <2>1, RewroteType DEF RecordMirror, TypeOK
  <2>3. task' \in [Msgs -> Task]
    <3>1. \E t \in Task : task' = [task EXCEPT ![m] = t]
      BY <1>2, Tasks DEF RecordMirror
    <3>. QED BY <3>1 DEF TypeOK
  <2>5. Note(m, mirror[m], Written(mirror[m], m, status)) /\ UNCHANGED <<usage, accepts, tries, owed, request>>
    BY <1>2 DEF RecordMirror
  <2>. HIDE DEF status
  <2>. QED BY <2>2, <2>3, <2>5, NoteOf DEF TypeOK
<1>3. CASE Relaunch(m)
  <2>1. cm' \in [Msgs -> Row] /\ mirror' = mirror
    BY <1>3 DEF Relaunch, TypeOK, Row, RowStatus
  <2>2. tries' \in [Msgs -> 0..MaxTries]
    BY <1>3, BoundsAssumption DEF Relaunch, TypeOK
  <2>3. owed' \in [Msgs -> [Late -> 0..MaxOwed]]
    <3>1. "queued" \in Late /\ owed[m]["queued"] \in 0..MaxOwed
      BY DEF TypeOK, Late
    <3>2. owed[m]["queued"] + 1 \in 0..MaxOwed /\ owed' = [owed EXCEPT ![m]["queued"] = @ + 1]
      BY <1>3, <3>1, BoundsAssumption DEF Relaunch
    <3>. QED BY <3>1, <3>2, OwedType
  <2>4. regressed' \in [Msgs -> BOOLEAN]
    BY <1>3, OrOf DEF Relaunch, TypeOK
  <2>5. crossed' \in [Msgs -> BOOLEAN]
    <3>. DEFINE late == task[m] # Idle \/ owed[m] # NothingOwed \/ <<m, cm[m].id>> \in seen
    <3>1. crossed' = [crossed EXCEPT ![m] = @ \/ late]
      BY <1>3, Zenon DEF Relaunch
    <3>. HIDE DEF late
    <3>. QED BY <3>1, OrOf DEF TypeOK
  <2>6. UNCHANGED <<usage, accepts, task, request, receipts, faults, seen, took, overlapped, raced>>
    BY <1>3 DEF Relaunch
  <2>. QED BY <2>1, <2>2, <2>3, <2>4, <2>5, <2>6 DEF TypeOK
<1>4. CASE \E status \in Late : RecordLate(m, status)
  <2>1. PICK status \in Late : RecordLate(m, status)
    BY <1>4
  <2>2. mirror' \in [Msgs -> Row] /\ cm' = cm
    BY <2>1, RewroteType DEF RecordLate, TypeOK
  <2>3. owed' \in [Msgs -> [Late -> 0..MaxOwed]]
    <3>1. owed[m][status] - 1 \in 0..MaxOwed
      BY <2>1, BoundsAssumption DEF RecordLate, TypeOK
    <3>. QED BY <2>1, <3>1, OwedType DEF RecordLate
  <2>4. Note(m, mirror[m], Written(mirror[m], m, status)) /\ UNCHANGED <<usage, accepts, tries, task, request>>
    BY <2>1 DEF RecordLate
  <2>. QED BY <2>2, <2>3, <2>4, NoteOf DEF TypeOK
<1>. QED BY <1>1, <1>2, <1>3, <1>4 DEF Rewrites

-----------------------------------------------------------------------------
LEMMA InitCount == Init => CountInv
<1>. SUFFICES ASSUME Init, NEW m \in Msgs, NEW c \in Counted
              PROVE  Of(usage[m], c) + Cardinality(Waiting(m, c)) <= Of(took[m], c)
  BY DEF CountInv
<1>1. Waiting(m, c) = {}
  BY DEF Init, Waiting, Due
<1>2. Of(usage[m], c) = 0 /\ Of(took[m], c) = 0
  BY DEF Init, Of, NoCount, Counted
<1>. QED BY <1>1, <1>2, FS_EmptySet

\* The waiting handlers are finitely many.
LEMMA WaitingFinite ==
    ASSUME NEW m, NEW c
    PROVE  /\ IsFiniteSet(Waiting(m, c)) /\ Cardinality(Waiting(m, c)) \in Nat
           /\ IsFiniteSet(Waiting(m, c)') /\ Cardinality(Waiting(m, c)') \in Nat
<1>1. Waiting(m, c) \subseteq Handlers /\ Waiting(m, c)' \subseteq Handlers
  BY DEF Waiting
<1>. QED BY <1>1, HandlersAssumption, FS_Subset, FS_CardinalityType

\* A step that counts nothing and takes up nothing.
LEMMA FewerWaiting ==
    ASSUME TypeOK, CountInv, UNCHANGED <<usage, took>>,
           \A m \in Msgs, c \in Counted, k \in Handlers : Due(k, m, c)' => Due(k, m, c)
    PROVE  CountInv'
<1>. SUFFICES ASSUME NEW m \in Msgs, NEW c \in Counted
              PROVE  Of(usage'[m], c) + Cardinality(Waiting(m, c)') <= Of(took'[m], c)
  BY DEF CountInv
<1>1. Waiting(m, c)' \subseteq Waiting(m, c)
  BY DEF Waiting
<1>2. Cardinality(Waiting(m, c)') <= Cardinality(Waiting(m, c))
  BY <1>1, WaitingFinite, FS_Subset
<1>3. Of(usage[m], c) \in Nat /\ Of(took[m], c) \in Nat
  BY PlusOf DEF TypeOK
<1>4. Of(usage[m], c) + Cardinality(Waiting(m, c)) <= Of(took[m], c)
  BY DEF CountInv
<1>. QED BY <1>2, <1>3, <1>4, WaitingFinite

LEMMA ReceiveCount ==
    ASSUME IInv, NEW h \in Handlers, NEW p \in Request, Receive(h, p)
    PROVE  CountInv'
<1>1. ASSUME NEW m \in Msgs, NEW c \in Counted, NEW k \in Handlers, Due(k, m, c)'
      PROVE  Due(k, m, c)
  BY <1>1 DEF IInv, TypeOK, Receive, Due
<1>. QED BY <1>1, FewerWaiting DEF IInv, Receive, tables

LEMMA StoreCount == ASSUME IInv, NEW h \in Handlers, Store(h) PROVE CountInv'
<1>1. ASSUME NEW m \in Msgs, NEW c \in Counted, NEW k \in Handlers, Due(k, m, c)'
      PROVE  Due(k, m, c)
  BY <1>1 DEF IInv, TypeOK, Store, Fault, Due
<1>. QED BY <1>1, FewerWaiting DEF IInv, Store, tables

LEMMA UpdateMirrorCount == ASSUME IInv, NEW h \in Handlers, UpdateMirror(h) PROVE CountInv'
<1>1. ASSUME NEW m \in Msgs, NEW c \in Counted, NEW k \in Handlers, Due(k, m, c)'
      PROVE  Due(k, m, c)
  <2>1. pc[h] = "mirror" /\ (Fault(h) \/ (pc' = [pc EXCEPT ![h] = "count"] /\ todo' = todo))
    BY DEF UpdateMirror
  <2>. QED BY <1>1, <2>1 DEF IInv, TypeOK, Fault, Due
<1>. QED BY <1>1, FewerWaiting DEF IInv, UpdateMirror

LEMMA LogCount == ASSUME IInv, NEW h \in Handlers, Log(h) PROVE CountInv'
<1>1. ASSUME NEW m \in Msgs, NEW c \in Counted, NEW k \in Handlers, Due(k, m, c)'
      PROVE  Due(k, m, c)
  <2>1. CASE k = h
    <3>1. pc'[h] \in {"row", "idle"}
      BY DEF IInv, TypeOK, Log, Fault
    <3>. QED BY <1>1, <2>1, <3>1 DEF Due
  <2>2. CASE k # h
    BY <1>1, <2>2 DEF IInv, TypeOK, Log, Fault, Due
  <2>. QED BY <2>1, <2>2
<1>. QED BY <1>1, FewerWaiting DEF IInv, Log, tables

LEMMA WorkerCount ==
    ASSUME IInv, NEW m \in Msgs, Pauses(m) \/ Rewrites(m)
    PROVE  CountInv'
<1>1. UNCHANGED <<pc, todo, usage, took>>
  <2>1. CASE Pauses(m)
    BY <2>1 DEF Pauses, Accept, Refuse, Limit, Throw, RecordLog, Fails, Retry, Abandon, tables, request, history
  <2>2. CASE Rewrites(m)
    BY <2>2 DEF Rewrites, RecordRow, RecordMirror, Relaunch, RecordLate, Note, request
  <2>. QED BY <2>1, <2>2
<1>2. ASSUME NEW n \in Msgs, NEW c \in Counted, NEW k \in Handlers, Due(k, n, c)'
      PROVE  Due(k, n, c)
  BY <1>1, <1>2 DEF Due
<1>. QED BY <1>1, <1>2, FewerWaiting DEF IInv

\* A report taken up is waited for by one handler more.
LEMMA UpdateRowCount == ASSUME IInv, NEW h \in Handlers, UpdateRow(h) PROVE CountInv'
<1>. DEFINE e == Head(todo[h])
            worth == Increment(None, Mapped(e.status))
<1>1. pc[h] = "row" /\ e \in Event /\ e.msg \in Msgs /\ e.status \in Reports
  BY Pending DEF UpdateRow, IInv, Event
<1>2. took[e.msg] \in Counters /\ worth \in Counters
  BY <1>1, MappedType, IncrementBound DEF IInv, TypeOK
<1>3. took' = [took EXCEPT ![e.msg] = Plus(@, worth)] /\ usage' = usage
  BY DEF UpdateRow
<1>4. Fault(h) \/ (pc' = [pc EXCEPT ![h] = "mirror"] /\ todo' = todo)
  BY DEF UpdateRow
<1>. SUFFICES ASSUME NEW m \in Msgs, NEW c \in Counted
              PROVE  Of(usage'[m], c) + Cardinality(Waiting(m, c)') <= Of(took'[m], c)
  BY DEF CountInv
<1>5. Of(usage[m], c) + Cardinality(Waiting(m, c)) <= Of(took[m], c)
  BY DEF IInv, CountInv
<1>6. Of(usage[m], c) \in Nat /\ Of(took[m], c) \in Nat
  BY PlusOf DEF IInv, TypeOK
<1>7. Of(worth, c) \in {0, 1}
  BY <1>1, MappedType, IncrementBound
<1>8. Of(took'[m], c) = Of(took[m], c) + IF m = e.msg THEN Of(worth, c) ELSE 0
  <2>. HIDE DEF e, worth
  <2>1. CASE m = e.msg
    <3>1. took'[m] = Plus(took[m], worth)
      BY <1>3, <2>1 DEF IInv, TypeOK
    <3>. QED BY <1>2, <2>1, <3>1, PlusOf
  <2>2. CASE m # e.msg
    <3>1. took'[m] = took[m]
      BY <1>3, <2>2 DEF IInv, TypeOK
    <3>. QED BY <1>6, <2>2, <3>1
  <2>. QED BY <2>1, <2>2
<1>9. \A k \in Handlers \ {h} : Due(k, m, c)' => Due(k, m, c)
  BY <1>4 DEF IInv, TypeOK, Fault, Due
<1>10. CASE Due(h, m, c)'
  <2>1. m = e.msg /\ Of(worth, c) = 1
    BY <1>4, <1>10 DEF IInv, TypeOK, Fault, Due
  <2>2. Waiting(m, c)' \subseteq Waiting(m, c) \cup {h}
    BY <1>9 DEF Waiting
  <2>3. /\ IsFiniteSet(Waiting(m, c) \cup {h})
        /\ Cardinality(Waiting(m, c) \cup {h}) <= Cardinality(Waiting(m, c)) + 1
    <3>1. IsFiniteSet(Waiting(m, c)) /\ Cardinality(Waiting(m, c)) \in Nat
      BY WaitingFinite
    <3>. HIDE DEF e, worth
    <3>2. /\ IsFiniteSet(Waiting(m, c) \cup {h})
          /\ Cardinality(Waiting(m, c) \cup {h})
                = IF h \in Waiting(m, c) THEN Cardinality(Waiting(m, c)) ELSE Cardinality(Waiting(m, c)) + 1
      BY <3>1, FS_AddElement
    <3>. QED BY <3>1, <3>2
  <2>4. /\ Cardinality(Waiting(m, c)') <= Cardinality(Waiting(m, c) \cup {h})
        /\ Cardinality(Waiting(m, c) \cup {h}) \in Nat
    BY <2>2, <2>3, FS_Subset, FS_CardinalityType
  <2>5. Of(took'[m], c) = Of(took[m], c) + 1
    BY <1>8, <2>1
  <2>. HIDE DEF e, worth
  <2>. QED BY <1>3, <1>5, <1>6, <2>3, <2>4, <2>5, WaitingFinite
<1>11. CASE ~Due(h, m, c)'
  <2>1. Waiting(m, c)' \subseteq Waiting(m, c)
    BY <1>9, <1>11 DEF Waiting
  <2>2. Cardinality(Waiting(m, c)') <= Cardinality(Waiting(m, c))
    BY <2>1, WaitingFinite, FS_Subset
  <2>3. Of(took'[m], c) \in Nat /\ Of(took'[m], c) >= Of(took[m], c)
    BY <1>6, <1>7, <1>8
  <2>. HIDE DEF e, worth
  <2>. QED BY <1>3, <1>5, <1>6, <2>2, <2>3, WaitingFinite
<1>. QED BY <1>10, <1>11

\* What a handler counts, it no longer waits for.
LEMMA CountCount == ASSUME IInv, NEW h \in Handlers, Count(h) PROVE CountInv'
<1>. DEFINE e == Head(todo[h])
            worth == Increment(None, Mapped(e.status))
            added == ToCount(h)
<1>1. pc[h] = "count" /\ e \in Event /\ e.msg \in Msgs /\ e.status \in Reports
  BY Pending DEF Count, IInv, Event
<1>2. usage[e.msg] \in Counters /\ added \in Counters
  BY <1>1, MappedType, ToCountBound DEF IInv, TypeOK
<1>3. took' = took /\ (usage' = usage \/ usage' = [usage EXCEPT ![e.msg] = Plus(@, added)])
  BY DEF Count
<1>4. Fault(h) \/ (pc' = [pc EXCEPT ![h] = "log"] /\ todo' = todo)
  BY DEF Count
<1>. SUFFICES ASSUME NEW m \in Msgs, NEW c \in Counted
              PROVE  Of(usage'[m], c) + Cardinality(Waiting(m, c)') <= Of(took'[m], c)
  BY DEF CountInv
<1>5. Of(usage[m], c) + Cardinality(Waiting(m, c)) <= Of(took[m], c)
  BY DEF IInv, CountInv
<1>6. Of(usage[m], c) \in Nat /\ Of(took[m], c) \in Nat
  BY PlusOf DEF IInv, TypeOK
<1>7. Of(worth, c) \in {0, 1} /\ Of(added, c) <= Of(worth, c) /\ Of(added, c) \in Nat
  BY <1>1, <1>2, MappedType, IncrementBound, ToCountBound, PlusOf
<1>8. Of(usage'[m], c) \in {Of(usage[m], c), Of(usage[m], c) + IF m = e.msg THEN Of(added, c) ELSE 0}
  <2>. HIDE DEF e, worth, added
  <2>1. CASE usage' # usage /\ m = e.msg
    <3>1. usage'[m] = Plus(usage[m], added)
      BY <1>3, <2>1 DEF IInv, TypeOK
    <3>. QED BY <1>2, <2>1, <3>1, PlusOf
  <2>2. CASE usage' = usage \/ m # e.msg
    <3>1. usage'[m] = usage[m]
      BY <1>3, <2>2 DEF IInv, TypeOK
    <3>. QED BY <3>1
  <2>. QED BY <2>1, <2>2
<1>9. Waiting(m, c)' \subseteq Waiting(m, c) \ {h}
  <2>1. \A k \in Handlers \ {h} : Due(k, m, c)' => Due(k, m, c)
    BY <1>4 DEF IInv, TypeOK, Fault, Due
  <2>2. ~Due(h, m, c)'
    BY <1>4 DEF IInv, TypeOK, Fault, Due
  <2>. QED BY <2>1, <2>2 DEF Waiting
<1>10. CASE Due(h, m, c)
  <2>1. Cardinality(Waiting(m, c) \ {h}) = Cardinality(Waiting(m, c)) - 1 /\ IsFiniteSet(Waiting(m, c) \ {h})
    BY <1>10, WaitingFinite, FS_RemoveElement DEF Waiting
  <2>2. Cardinality(Waiting(m, c)') <= Cardinality(Waiting(m, c)) - 1
    BY <1>9, <2>1, FS_Subset
  <2>3. Of(usage'[m], c) <= Of(usage[m], c) + 1 /\ Of(usage'[m], c) \in Nat
    BY <1>6, <1>7, <1>8
  <2>. HIDE DEF e, worth, added
  <2>. QED BY <1>3, <1>5, <1>6, <2>2, <2>3, WaitingFinite
<1>11. CASE ~Due(h, m, c)
  <2>1. Cardinality(Waiting(m, c)') <= Cardinality(Waiting(m, c))
    <3>1. Waiting(m, c)' \subseteq Waiting(m, c)
      BY <1>9
    <3>. QED BY <3>1, WaitingFinite, FS_Subset
  <2>2. m # e.msg \/ Of(worth, c) = 0
    BY <1>1, <1>7, <1>11 DEF Due
  <2>3. Of(usage'[m], c) = Of(usage[m], c)
    BY <1>6, <1>7, <1>8, <2>2
  <2>. HIDE DEF e, worth, added
  <2>. QED BY <1>3, <1>5, <1>6, <2>1, <2>3, WaitingFinite
<1>. QED BY <1>10, <1>11

-----------------------------------------------------------------------------
LEMMA Inductive == ASSUME IInv, [Next]_vars PROVE IInv'
<1>1. TypeOK
  BY DEF IInv
<1>2. ASSUME NEW h \in Handlers, NEW p \in Request, Receive(h, p) PROVE IInv'
  BY <1>1, <1>2, ReceiveType, ReceiveCount DEF IInv
<1>3. ASSUME NEW h \in Handlers, Store(h) PROVE IInv'
  BY <1>1, <1>3, StoreType, StoreCount DEF IInv
<1>4. ASSUME NEW h \in Handlers, UpdateRow(h) PROVE IInv'
  BY <1>1, <1>4, UpdateRowType, UpdateRowCount DEF IInv
<1>5. ASSUME NEW h \in Handlers, UpdateMirror(h) PROVE IInv'
  BY <1>1, <1>5, UpdateMirrorType, UpdateMirrorCount DEF IInv
<1>6. ASSUME NEW h \in Handlers, Count(h) PROVE IInv'
  BY <1>1, <1>6, CountType, CountCount DEF IInv
<1>7. ASSUME NEW h \in Handlers, Log(h) PROVE IInv'
  BY <1>1, <1>7, LogType, LogCount DEF IInv
<1>8. ASSUME NEW m \in Msgs, Pauses(m) \/ Rewrites(m) PROVE IInv'
  BY <1>1, <1>8, PauseType, RewriteType, WorkerCount DEF IInv
<1>9. ASSUME UNCHANGED vars PROVE IInv'
  <2>1. TypeOK'
    BY <1>1, <1>9 DEF TypeOK, vars, tables, worker, request, history
  <2>2. UNCHANGED <<pc, todo, usage, took>>
    BY <1>9 DEF vars, tables, request, history
  <2>3. CountInv'
    BY <1>1, <2>2, FewerWaiting DEF IInv, Due
  <2>. QED BY <2>1, <2>3 DEF IInv
<1>. QED BY <1>2, <1>3, <1>4, <1>5, <1>6, <1>7, <1>8, <1>9 DEF Next, Pauses, Rewrites

LEMMA IInvHolds == Spec => []IInv
<1>1. Init => IInv
  BY InitType, InitCount DEF IInv
<1>2. IInv /\ [Next]_vars => IInv'
  BY Inductive
<1>. QED BY <1>1, <1>2, PTL DEF Spec

(***************************************************************************)
(* The tables, the counters and the handlers of the webhooks keep their    *)
(* types, for any messages, handlers and bounds.                           *)
(***************************************************************************)
THEOREM TypeCorrect == Spec => []TypeOK
<1>1. IInv => TypeOK
  BY DEF IInv
<1>. QED BY <1>1, IInvHolds, PTL

(***************************************************************************)
(* No counter runs ahead of the reports taken up, however many handlers    *)
(* interleave over the two tables and wherever one ends in an error.       *)
(***************************************************************************)
THEOREM CountedPerReportHolds == Spec => []CountedPerReport
<1>1. ASSUME IInv, NEW m \in Msgs, NEW c \in Counted
      PROVE  Of(usage[m], c) <= Of(took[m], c)
  <2>1. Of(usage[m], c) \in Nat /\ Of(took[m], c) \in Nat
    BY <1>1, PlusOf DEF IInv, TypeOK
  <2>2. Of(usage[m], c) + Cardinality(Waiting(m, c)) <= Of(took[m], c)
    BY <1>1 DEF IInv, CountInv
  <2>. QED BY <2>1, <2>2, WaitingFinite
<1>2. IInv => CountedPerReport
  BY <1>1 DEF CountedPerReport, Counted, Of
<1>. QED BY <1>2, IInvHolds, PTL

-----------------------------------------------------------------------------
(***************************************************************************)
(* What is billed.  The report handler h is at was taken up and is not     *)
(* counted yet, and Bills(h, m): the handler will count it as a delivery   *)
(* of m.                                                                   *)
(***************************************************************************)
On(h) == Head(todo[h])
Past == {"mirror", "count"}
Bills(h, m) == /\ pc[h] \in Past /\ On(h).msg = m /\ On(h).status = "delivered"
               /\ prevRow[h] # None \/ (pc[h] = "count" /\ prevMirror[h] # None)
Coming(m) == \E h \in Handlers : Bills(h, m)
Shows(table, m) == table[m].status = "delivered"
One(b) == IF b THEN 1 ELSE 0

\* Every id a handler or the history knows was accepted.
KnownInv ==
    /\ \A h \in Handlers : \A i \in DOMAIN todo[h] : todo[h][i].n <= accepts[todo[h][i].msg]
    /\ \A h \in Handlers : pc[h] \in Past => <<On(h).msg, On(h).n>> \in seen
    /\ \A m \in Msgs : took[m].delivered > 0 => \E n \in 1..accepts[m] : <<m, n>> \in seen

\* The worker's two writes of an acceptance: the row first, the mirror second.
ToRow == At("row", "accepted_meta")
ToMirror == At("mirror", "accepted_meta")
IdInv == \A m \in Msgs :
    /\ mirror[m].id <= cm[m].id /\ cm[m].id <= accepts[m]
    /\ task[m] = ToRow => cm[m].id < accepts[m]
    /\ task[m] = ToMirror => cm[m].id = accepts[m] /\ mirror[m].id < accepts[m]

AloneInv == ~overlapped => \A h, k \in Handlers : pc[h] # "idle" /\ pc[k] # "idle" => h = k

\* The previous status an update returned is not the one it wrote.
PrevInv == \A h \in Handlers : pc[h] \in Past =>
    /\ prevRow[h] # Mapped(On(h).status)
    /\ pc[h] = "count" => prevMirror[h] # Mapped(On(h).status)

ShapeInv == TypeOK /\ KnownInv /\ IdInv /\ AloneInv /\ PrevInv

\* What a table shows delivered is billed, or about to be.
ShownInv == \A m \in Msgs :
    faults = 0 /\ (Shows(cm, m) \/ Shows(mirror, m)) => usage[m].delivered > 0 \/ Coming(m)

\* So is a delivery reported after its id was recorded.
MissInv == \A m \in Msgs :
    faults = 0 /\ ~raced[m] /\ accepts[m] = 1 /\ cm[m].id = 1 /\ took[m].delivered > 0
    => usage[m].delivered > 0 \/ Coming(m)

PaidInv == ShapeInv /\ ShownInv /\ MissInv

-----------------------------------------------------------------------------
\* What a handler's step leaves of another handler.
Same(k) == /\ pc'[k] = pc[k] /\ todo'[k] = todo[k]
           /\ prevRow'[k] = prevRow[k] /\ prevMirror'[k] = prevMirror[k]

LEMMA SameBills ==
    ASSUME NEW k, NEW m, Same(k)
    PROVE  /\ Bills(k, m)' <=> Bills(k, m)
           /\ On(k)' = On(k)
  BY DEF Same, Bills, On

\* An update leaves ids alone, and writes the status where it finds the id.
LEMMA UpdatedRow ==
    ASSUME NEW table \in [Msgs -> Row], NEW e \in Event, NEW m \in Msgs
    PROVE  /\ Updated(table, e)[m].id = table[m].id
           /\ Updated(table, e)[m].status = IF m = e.msg /\ table[m].id = e.n THEN Mapped(e.status)
                                            ELSE table[m].status
           /\ (m = e.msg /\ LeftDelivered(table, e)) \/ (Shows(table, m) => Shows(Updated(table, e), m))
<1>1. e.msg \in Msgs /\ table[m] \in Row /\ table[e.msg] \in Row
  BY DEF Event
<1>2. CASE m = e.msg /\ Moves(table, e)
  BY <1>1, <1>2 DEF Updated, Moves, LeftDelivered, Shows, Row
<1>3. CASE ~(m = e.msg /\ Moves(table, e))
  BY <1>1, <1>3 DEF Updated, Moves, LeftDelivered, Shows, Row
<1>. QED BY <1>2, <1>3

\* The previous status is there when the update moved a row, and is not the new one.
LEMMA PreviousOf ==
    ASSUME NEW table \in [Msgs -> Row], NEW e \in Event
    PROVE  /\ Previous(table, e) # Mapped(e.status)
           /\ Previous(table, e) = None <=> ~Moves(table, e)
<1>1. e.msg \in Msgs /\ table[e.msg].status \in RowStatus /\ e.status \in Reports
  BY DEF Event, Row
<1>2. Mapped(e.status) \in RowStatus /\ None \notin RowStatus
  BY <1>1, MappedType DEF RowStatus, Failed, None
<1>. QED BY <1>1, <1>2 DEF Previous, Moves

-----------------------------------------------------------------------------
\* What a request that ends in an error does to the handlers.
LEMMA FaultEffect ==
    ASSUME TypeOK, NEW h \in Handlers, Fault(h)
    PROVE  /\ pc'[h] = "idle" /\ faults' = faults + 1 /\ faults' # 0
           /\ DOMAIN (todo'[h]) = {}
           /\ \A k \in Handlers \ {h} : Same(k)
<1>1. faults \in Nat
  BY DEF TypeOK
<1>2. todo'[h] = <<>>
  BY DEF TypeOK, Fault
<1>. QED BY <1>1, <1>2 DEF TypeOK, Fault, Same

\* The update of the row, seen from a message.
LEMMA UpdateRowEffect ==
    ASSUME TypeOK, NEW h \in Handlers, UpdateRow(h)
    PROVE  /\ pc[h] = "row" /\ On(h) \in Event
           /\ UNCHANGED <<mirror, usage, accepts, task, owed, raced, crossed, overlapped>>
           /\ seen' = seen \cup {<<On(h).msg, On(h).n>>}
           /\ \A k \in Handlers \ {h} : Same(k)
           /\ \A m \in Msgs : /\ cm'[m].id = cm[m].id
                              /\ ~(m = On(h).msg /\ On(h).n = cm[m].id) => cm'[m].status = cm[m].status
                              /\ ~(m = On(h).msg /\ On(h).status = "delivered")
                                   => took'[m].delivered = took[m].delivered
                              /\ ~regressed'[m] => ~regressed[m] /\ (Shows(cm, m) => Shows(cm, m)')
                              /\ cm'[m].status \in {cm[m].status, Mapped(On(h).status)}
           /\ \/ pc'[h] = "idle" /\ faults' # 0 /\ DOMAIN (todo'[h]) = {}
              \/ /\ pc'[h] = "mirror" /\ todo'[h] = todo[h] /\ faults' = faults
                 /\ prevRow'[h] = Previous(cm, On(h))
                 /\ cm[On(h).msg].id = On(h).n => cm'[On(h).msg].status = Mapped(On(h).status)
<1>. DEFINE e == On(h)
<1>1. pc[h] = "row" /\ e \in Event /\ e.msg \in Msgs /\ e.status \in Reports
  BY Pending DEF UpdateRow, On, Event
<1>2. /\ UNCHANGED <<mirror, usage, accepts, task, owed, raced, crossed, overlapped>>
      /\ seen' = seen \cup {<<e.msg, e.n>>}
  BY DEF UpdateRow, On, worker
<1>3. Fault(h) \/ (pc' = [pc EXCEPT ![h] = "mirror"] /\ prevRow' = [prevRow EXCEPT ![h] = Previous(cm, e)]
                    /\ UNCHANGED <<todo, prevMirror, faults>> /\ cm' = Updated(cm, e))
  BY DEF UpdateRow, On
<1>4. \/ cm' = Updated(cm, e) /\ regressed' = [regressed EXCEPT ![e.msg] = @ \/ LeftDelivered(cm, e)]
      \/ UNCHANGED <<cm, regressed>>
  BY DEF UpdateRow, On
<1>5. \A k \in Handlers \ {h} : Same(k)
  <2>1. CASE Fault(h)
    BY <2>1, FaultEffect
  <2>2. CASE ~Fault(h)
    BY <1>3, <2>2 DEF TypeOK, Same
  <2>. QED BY <2>1, <2>2
<1>6. \/ pc'[h] = "idle" /\ faults' # 0 /\ DOMAIN (todo'[h]) = {}
      \/ /\ pc'[h] = "mirror" /\ todo'[h] = todo[h] /\ faults' = faults
         /\ prevRow'[h] = Previous(cm, e)
         /\ cm[e.msg].id = e.n => cm'[e.msg].status = Mapped(e.status)
  <2>1. CASE Fault(h)
    BY <2>1, FaultEffect
  <2>2. CASE ~Fault(h)
    <3>1. cm \in [Msgs -> Row] /\ cm' = Updated(cm, e)
      BY <1>3, <2>2 DEF TypeOK
    <3>2. cm[e.msg].id = e.n => cm'[e.msg].status = Mapped(e.status)
      BY <1>1, <3>1, UpdatedRow
    <3>. QED BY <1>3, <2>2, <3>2 DEF TypeOK
  <2>. QED BY <2>1, <2>2
<1>7. ASSUME NEW m \in Msgs
      PROVE  /\ cm'[m].id = cm[m].id
             /\ ~(m = e.msg /\ e.n = cm[m].id) => cm'[m].status = cm[m].status
             /\ ~regressed'[m] => ~regressed[m] /\ (Shows(cm, m) => Shows(cm, m)')
             /\ cm'[m].status \in {cm[m].status, Mapped(e.status)}
  <2>1. cm \in [Msgs -> Row] /\ regressed \in [Msgs -> BOOLEAN]
    BY DEF TypeOK
  <2>2. CASE UNCHANGED <<cm, regressed>>
    BY <2>2 DEF Shows
  <2>3. CASE cm' = Updated(cm, e) /\ regressed' = [regressed EXCEPT ![e.msg] = @ \/ LeftDelivered(cm, e)]
    <3>1. ~regressed'[m] => ~regressed[m] /\ ~(m = e.msg /\ LeftDelivered(cm, e))
      BY <1>1, <2>1, <2>3
    <3>2. Shows(Updated(cm, e), m) <=> Shows(cm, m)'
      BY <2>3 DEF Shows
    <3>. HIDE DEF e
    <3>. QED BY <1>1, <2>1, <2>3, <3>1, <3>2, UpdatedRow
  <2>. QED BY <1>4, <2>2, <2>3
<1>8. ASSUME NEW m \in Msgs, ~(m = e.msg /\ e.status = "delivered")
      PROVE  took'[m].delivered = took[m].delivered
  <2>1. took' = [took EXCEPT ![e.msg] = Plus(@, Increment(None, Mapped(e.status)))]
    BY DEF UpdateRow, On
  <2>2. took[m].delivered \in Nat
    BY DEF TypeOK, Counters
  <2>3. CASE m = e.msg
    <3>1. Increment(None, Mapped(e.status)).delivered = 0
      BY <1>1, <1>8, <2>3, ReportsAssumption DEF Increment, Mapped, MetaStatus
    <3>2. took'[m].delivered = took[m].delivered + Increment(None, Mapped(e.status)).delivered
      BY <1>1, <2>1, <2>3 DEF TypeOK, Plus
    <3>. QED BY <2>2, <3>1, <3>2
  <2>4. CASE m # e.msg
    BY <2>1, <2>4 DEF TypeOK
  <2>. QED BY <2>3, <2>4
<1>. QED BY <1>1, <1>2, <1>5, <1>6, <1>7, <1>8

\* The update of the mirror, seen from a message.
LEMMA UpdateMirrorEffect ==
    ASSUME TypeOK, NEW h \in Handlers, UpdateMirror(h)
    PROVE  /\ pc[h] = "mirror" /\ On(h) \in Event
           /\ UNCHANGED <<cm, usage, accepts, task, owed, raced, crossed, overlapped, seen, took>>
           /\ \A k \in Handlers \ {h} : Same(k)
           /\ \A m \in Msgs : /\ mirror'[m].id = mirror[m].id
                              /\ ~(m = On(h).msg /\ On(h).n = mirror[m].id) => mirror'[m].status = mirror[m].status
                              /\ ~regressed'[m] => ~regressed[m] /\ (Shows(mirror, m) => Shows(mirror, m)')
                              /\ mirror'[m].status \in {mirror[m].status, Mapped(On(h).status)}
           /\ \/ pc'[h] = "idle" /\ faults' # 0 /\ DOMAIN (todo'[h]) = {}
              \/ /\ pc'[h] = "count" /\ todo'[h] = todo[h] /\ faults' = faults
                 /\ prevRow'[h] = prevRow[h] /\ prevMirror'[h] = Previous(mirror, On(h))
                 /\ mirror[On(h).msg].id = On(h).n => mirror'[On(h).msg].status = Mapped(On(h).status)
<1>. DEFINE e == On(h)
<1>1. pc[h] = "mirror" /\ e \in Event /\ e.msg \in Msgs /\ e.status \in Reports
  BY Pending DEF UpdateMirror, On, Event
<1>2. UNCHANGED <<cm, usage, accepts, task, owed, raced, crossed, overlapped, seen, took>>
  BY DEF UpdateMirror, worker
<1>3. Fault(h) \/ (pc' = [pc EXCEPT ![h] = "count"] /\ prevMirror' = [prevMirror EXCEPT ![h] = Previous(mirror, e)]
                    /\ UNCHANGED <<todo, prevRow, faults>> /\ mirror' = Updated(mirror, e))
  BY DEF UpdateMirror, On
<1>4. \/ mirror' = Updated(mirror, e) /\ regressed' = [regressed EXCEPT ![e.msg] = @ \/ LeftDelivered(mirror, e)]
      \/ UNCHANGED <<mirror, regressed>>
  BY DEF UpdateMirror, On
<1>5. \A k \in Handlers \ {h} : Same(k)
  <2>1. CASE Fault(h)
    BY <2>1, FaultEffect
  <2>2. CASE ~Fault(h)
    BY <1>3, <2>2 DEF TypeOK, Same
  <2>. QED BY <2>1, <2>2
<1>6. \/ pc'[h] = "idle" /\ faults' # 0 /\ DOMAIN (todo'[h]) = {}
      \/ /\ pc'[h] = "count" /\ todo'[h] = todo[h] /\ faults' = faults
         /\ prevRow'[h] = prevRow[h] /\ prevMirror'[h] = Previous(mirror, e)
         /\ mirror[e.msg].id = e.n => mirror'[e.msg].status = Mapped(e.status)
  <2>1. CASE Fault(h)
    BY <2>1, FaultEffect
  <2>2. CASE ~Fault(h)
    <3>1. mirror \in [Msgs -> Row] /\ mirror' = Updated(mirror, e)
      BY <1>3, <2>2 DEF TypeOK
    <3>2. mirror[e.msg].id = e.n => mirror'[e.msg].status = Mapped(e.status)
      BY <1>1, <3>1, UpdatedRow
    <3>. QED BY <1>3, <2>2, <3>2 DEF TypeOK
  <2>. QED BY <2>1, <2>2
<1>7. ASSUME NEW m \in Msgs
      PROVE  /\ mirror'[m].id = mirror[m].id
             /\ ~(m = e.msg /\ e.n = mirror[m].id) => mirror'[m].status = mirror[m].status
             /\ ~regressed'[m] => ~regressed[m] /\ (Shows(mirror, m) => Shows(mirror, m)')
             /\ mirror'[m].status \in {mirror[m].status, Mapped(e.status)}
  <2>1. mirror \in [Msgs -> Row] /\ regressed \in [Msgs -> BOOLEAN]
    BY DEF TypeOK
  <2>2. CASE UNCHANGED <<mirror, regressed>>
    BY <2>2 DEF Shows
  <2>3. CASE mirror' = Updated(mirror, e) /\ regressed' = [regressed EXCEPT ![e.msg] = @ \/ LeftDelivered(mirror, e)]
    <3>1. ~regressed'[m] => ~regressed[m] /\ ~(m = e.msg /\ LeftDelivered(mirror, e))
      BY <1>1, <2>1, <2>3
    <3>2. Shows(Updated(mirror, e), m) <=> Shows(mirror, m)'
      BY <2>3 DEF Shows
    <3>. HIDE DEF e
    <3>. QED BY <1>1, <2>1, <2>3, <3>1, <3>2, UpdatedRow
  <2>. QED BY <1>4, <2>2, <2>3
<1>. QED BY <1>1, <1>2, <1>5, <1>6, <1>7

\* The counting, seen from a message: what a handler was to bill is billed, unless it ends in an error.
LEMMA CountEffect ==
    ASSUME TypeOK, PrevInv, NEW h \in Handlers, Count(h)
    PROVE  /\ pc[h] = "count" /\ On(h) \in Event
           /\ UNCHANGED <<cm, mirror, accepts, task, owed, raced, crossed, overlapped, seen, took, regressed>>
           /\ \A k \in Handlers \ {h} : Same(k)
           /\ \/ pc'[h] = "idle" /\ faults' # 0 /\ DOMAIN (todo'[h]) = {}
              \/ /\ pc'[h] = "log" /\ todo'[h] = todo[h] /\ faults' = faults
                 /\ \A m \in Msgs : usage'[m].delivered = usage[m].delivered + One(Bills(h, m))
           /\ \A m \in Msgs : usage'[m].delivered \in {usage[m].delivered, usage[m].delivered + One(Bills(h, m))}
<1>. DEFINE e == On(h)
            added == ToCount(h)
<1>1. pc[h] = "count" /\ e \in Event /\ e.msg \in Msgs /\ e.status \in Reports
  BY Pending DEF Count, On, Event
<1>2. UNCHANGED <<cm, mirror, accepts, task, owed, raced, crossed, overlapped, seen, took, regressed>>
  BY DEF Count, worker
<1>3. Fault(h) \/ (pc' = [pc EXCEPT ![h] = "log"] /\ UNCHANGED <<todo, prevRow, prevMirror, faults>>
                   /\ usage' = [usage EXCEPT ![e.msg] = Plus(@, added)])
  BY DEF Count, On
<1>4. usage' = [usage EXCEPT ![e.msg] = Plus(@, added)] \/ usage' = usage
  BY DEF Count, On
<1>5. \A k \in Handlers \ {h} : Same(k)
  <2>1. CASE Fault(h)
    BY <2>1, FaultEffect
  <2>2. CASE ~Fault(h)
    BY <1>3, <2>2 DEF TypeOK, Same
  <2>. QED BY <2>1, <2>2
<1>6. added.delivered = One(Bills(h, e.msg))
  <2>1. prevRow[h] # Mapped(e.status) /\ prevMirror[h] # Mapped(e.status)
    BY <1>1 DEF PrevInv, Past
  <2>2. Mapped(e.status) = "delivered" <=> e.status = "delivered"
    BY <1>1, ReportsAssumption DEF Mapped, MetaStatus
  <2>3. Bills(h, e.msg) <=> e.status = "delivered" /\ (prevRow[h] # None \/ prevMirror[h] # None)
    BY <1>1 DEF Bills, Past
  <2>4. added = IF prevRow[h] # None THEN Increment(prevRow[h], Mapped(e.status))
                ELSE IF prevMirror[h] # None THEN Increment(prevMirror[h], Mapped(e.status))
                ELSE NoCount
    BY DEF ToCount, On
  <2>. HIDE DEF e, added
  <2>. QED BY <2>1, <2>2, <2>3, <2>4 DEF Increment, NoCount, One
<1>7. ASSUME NEW m \in Msgs, usage' = [usage EXCEPT ![e.msg] = Plus(@, added)]
      PROVE  usage'[m].delivered = usage[m].delivered + One(Bills(h, m))
  <2>1. usage[m].delivered \in Nat
    BY DEF TypeOK, Counters
  <2>2. CASE m = e.msg
    <3>1. usage'[m].delivered = usage[m].delivered + added.delivered
      BY <1>1, <1>7, <2>2 DEF TypeOK, Plus
    <3>. QED BY <1>6, <2>2, <3>1
  <2>3. CASE m # e.msg
    <3>1. usage'[m] = usage[m]
      BY <1>7, <2>3 DEF TypeOK
    <3>2. ~Bills(h, m)
      BY <2>3 DEF Bills
    <3>. HIDE DEF e, added
    <3>. QED BY <2>1, <3>1, <3>2 DEF One
  <2>. QED BY <2>2, <2>3
<1>8. \/ pc'[h] = "idle" /\ faults' # 0 /\ DOMAIN (todo'[h]) = {}
      \/ /\ pc'[h] = "log" /\ todo'[h] = todo[h] /\ faults' = faults
         /\ \A m \in Msgs : usage'[m].delivered = usage[m].delivered + One(Bills(h, m))
  <2>1. CASE Fault(h)
    BY <2>1, FaultEffect
  <2>2. CASE ~Fault(h)
    BY <1>3, <1>7, <2>2 DEF TypeOK
  <2>. QED BY <2>1, <2>2
<1>9. \A m \in Msgs : usage'[m].delivered \in {usage[m].delivered, usage[m].delivered + One(Bills(h, m))}
  BY <1>4, <1>7
<1>. QED BY <1>1, <1>2, <1>5, <1>8, <1>9

(***************************************************************************)
(* A step that takes up, writes and counts nothing.                        *)
(***************************************************************************)
Steady ==
    /\ UNCHANGED <<cm, mirror, usage, seen, took, raced, regressed>>
    /\ faults' = 0 => faults = 0
    /\ ~overlapped' => ~overlapped
    /\ \A k \in Handlers :
          /\ pc'[k] \in Past <=> pc[k] \in Past
          /\ pc[k] \in Past => Same(k)
    /\ \A m \in Msgs : \/ accepts'[m] = accepts[m] /\ (task'[m] \in {ToRow, ToMirror} => task'[m] = task[m])
                       \/ accepts'[m] = accepts[m] + 1 /\ task'[m] = ToRow

\* The place and the status tell the writes of an acceptance from the rest.
LEMMA Apart ==
    /\ Idle \notin {ToRow, ToMirror} /\ Catch \notin {ToRow, ToMirror} /\ LogEntry \notin {ToRow, ToMirror}
    /\ ToRow # ToMirror
    /\ \A place, status : status # "accepted_meta" => At(place, status) \notin {ToRow, ToMirror}
<1>1. \A place, status : At(place, status).at = place /\ At(place, status).status = status
  BY DEF At
<1>3. Idle \notin {ToRow, ToMirror} /\ Catch \notin {ToRow, ToMirror} /\ LogEntry \notin {ToRow, ToMirror}
  BY <1>1 DEF Idle, Catch, LogEntry, ToRow, ToMirror
<1>4. ToRow # ToMirror
  BY <1>1 DEF ToRow, ToMirror
<1>5. \A place, status : status # "accepted_meta" => At(place, status) \notin {ToRow, ToMirror}
  BY <1>1 DEF ToRow, ToMirror
<1>. QED BY <1>3, <1>4, <1>5

LEMMA AcceptanceTask ==
    ASSUME NEW t \in Task, t.at \in {"row", "mirror"}, t.status = "accepted_meta"
    PROVE  t = IF t.at = "row" THEN ToRow ELSE ToMirror
<1>1. \A place, status : At(place, status).at = place /\ At(place, status).status = status
  BY DEF At
<1>2. PICK place \in {"row", "mirror"}, status \in Attempted : t = At(place, status)
  BY Tasks DEF Task
<1>. QED BY <1>1, <1>2 DEF ToRow, ToMirror

\* What a pause leaves alone, and the attempt it may begin.
LEMMA PauseEffect ==
    ASSUME TypeOK, NEW m \in Msgs, Pauses(m)
    PROVE  /\ UNCHANGED <<cm, mirror, usage, request, faults, seen, took, overlapped, raced, regressed>>
           /\ \A n \in Msgs \ {m} : accepts'[n] = accepts[n] /\ task'[n] = task[n]
           /\ \/ accepts'[m] = accepts[m] /\ task'[m] \notin {ToRow, ToMirror}
              \/ accepts'[m] = accepts[m] /\ task'[m] = task[m]
              \/ accepts'[m] = accepts[m] + 1 /\ task'[m] = ToRow
<1>1. UNCHANGED <<cm, mirror, usage, request, faults, seen, took, overlapped, raced, regressed>>
  BY DEF Pauses, Accept, Refuse, Limit, Throw, RecordLog, Fails, Retry, Abandon, history, tables
<1>2. DOMAIN accepts = Msgs /\ DOMAIN task = Msgs
  BY DEF TypeOK
<1>3. \/ accepts' = [accepts EXCEPT ![m] = @ + 1] /\ task' = [task EXCEPT ![m] = ToRow]
      \/ /\ accepts' = accepts
         /\ task' = task \/ \E t : t \notin {ToRow, ToMirror} /\ task' = [task EXCEPT ![m] = t]
  <2>1. CASE Accept(m)
    BY <2>1 DEF Accept, ToRow
  <2>2. CASE ~Accept(m)
    <3>1. accepts' = accepts
      BY <2>2 DEF Pauses, Refuse, Limit, Throw, RecordLog, Fails, Retry, Abandon
    <3>2. task' = task \/ \E t \in {Idle, Catch, At("row", "failed_retryable"), At("row", "rate_limited"),
                                    At("row", "failed_permanent")} : task' = [task EXCEPT ![m] = t]
      BY <2>2 DEF Pauses, Refuse, Limit, Throw, RecordLog, Fails, Retry, Abandon
    <3>. QED BY <3>1, <3>2, Apart
  <2>. QED BY <2>1, <2>2
<1>4. \A n \in Msgs \ {m} : accepts'[n] = accepts[n] /\ task'[n] = task[n]
  BY <1>2, <1>3
<1>5. \/ accepts'[m] = accepts[m] /\ task'[m] \notin {ToRow, ToMirror}
      \/ accepts'[m] = accepts[m] /\ task'[m] = task[m]
      \/ accepts'[m] = accepts[m] + 1 /\ task'[m] = ToRow
  BY <1>2, <1>3
<1>. QED BY <1>1, <1>4, <1>5

LEMMA SteadyBills ==
    ASSUME Steady
    PROVE  /\ \A k \in Handlers : \A m : Bills(k, m)' <=> Bills(k, m)
           /\ \A m : Coming(m)' <=> Coming(m)
<1>1. ASSUME NEW k \in Handlers, NEW m PROVE Bills(k, m)' <=> Bills(k, m)
  <2>1. CASE pc[k] \in Past
    BY <2>1, SameBills DEF Steady
  <2>2. CASE pc[k] \notin Past
    BY <2>2 DEF Steady, Bills
  <2>. QED BY <2>1, <2>2
<1>. QED BY <1>1 DEF Coming

LEMMA SteadySteps ==
    ASSUME TypeOK,
           \/ \E h \in Handlers : Store(h) \/ Log(h) \/ \E p \in Request : Receive(h, p)
           \/ \E m \in Msgs : Pauses(m)
           \/ UNCHANGED vars
    PROVE  Steady
<1>1. ASSUME NEW h \in Handlers, Store(h) \/ Log(h) \/ \E p \in Request : Receive(h, p) PROVE Steady
  <2>1. /\ UNCHANGED <<cm, mirror, usage, seen, took, raced, regressed, accepts, task>>
        /\ faults' \in {faults, faults + 1} /\ faults \in Nat
        /\ ~overlapped' => ~overlapped
    BY <1>1 DEF TypeOK, Store, Log, Receive, Fault, tables, worker
  <2>2. \A k \in Handlers \ {h} : Same(k)
    BY <1>1 DEF TypeOK, Store, Log, Receive, Fault, Same
  <2>3. pc[h] \notin Past /\ pc'[h] \notin Past
    BY <1>1 DEF TypeOK, Store, Log, Receive, Fault, Past
  <2>4. \A k \in Handlers : /\ pc'[k] \in Past <=> pc[k] \in Past
                            /\ pc[k] \in Past => Same(k)
    BY <2>2, <2>3 DEF Same
  <2>. QED BY <2>1, <2>4 DEF Steady
<1>2. ASSUME NEW m \in Msgs, Pauses(m) PROVE Steady
  <2>1. /\ UNCHANGED <<cm, mirror, usage, request, faults, seen, took, overlapped, raced, regressed>>
        /\ \A n \in Msgs : \/ accepts'[n] = accepts[n] /\ (task'[n] \in {ToRow, ToMirror} => task'[n] = task[n])
                           \/ accepts'[n] = accepts[n] + 1 /\ task'[n] = ToRow
    BY <1>2, PauseEffect
  <2>. QED BY <2>1 DEF Steady, Same, request
<1>3. CASE UNCHANGED vars
  BY <1>3 DEF Steady, Same, vars, tables, worker, request, history
<1>. QED BY <1>1, <1>2, <1>3

\* What the worker's writes do to a row: it does not show a delivery any more, and
\* has its id still or that of an acceptance.
Overwritten(table, m) ==
    /\ ~Shows(table, m)'
    /\ ~regressed'[m] => ~Shows(table, m)
    /\ \/ table'[m].id = table[m].id
       \/ table'[m].id = accepts[m] /\ (~raced'[m] => <<m, accepts[m]>> \notin seen)

\* One write, and the history of it.
WriteOf(m, status, row, new) ==
    /\ new.status = status /\ new.status # "delivered"
    /\ ~regressed'[m] => ~regressed[m] /\ row.status # "delivered"
    /\ ~raced'[m] => ~raced[m]
    /\ \/ status # "accepted_meta" /\ new.id = row.id
       \/ /\ status = "accepted_meta" /\ new.id = accepts[m]
          /\ ~raced'[m] => <<m, accepts[m]>> \notin seen
    /\ ~crossed'[m] => ~crossed[m] /\ <<m, new.id>> \notin seen
    /\ \A n \in Msgs \ {m} : /\ raced'[n] = raced[n] /\ regressed'[n] = regressed[n]
                             /\ crossed'[n] = crossed[n]
    /\ UNCHANGED <<faults, seen, took, overlapped>>

LEMMA WriteEffect ==
    ASSUME TypeOK, NEW m \in Msgs, NEW status \in Attempted \cup Late,
           NEW row, NEW new, new = Written(row, m, status), Note(m, row, new)
    PROVE  WriteOf(m, status, row, new)
<1>1. new.status = status /\ new.id = IF status = "accepted_meta" THEN accepts[m] ELSE row.id
  BY DEF Written
<1>2. status # "delivered"
  BY DEF Attempted, Late
<1>3. /\ raced'[m] <=> raced[m] \/ (new.status = "accepted_meta" /\ <<m, new.id>> \in seen)
      /\ crossed'[m] <=> crossed[m] \/ <<m, new.id>> \in seen
      /\ regressed'[m] <=> regressed[m] \/ row.status = "delivered"
      /\ \A n \in Msgs \ {m} : /\ raced'[n] = raced[n] /\ regressed'[n] = regressed[n]
                               /\ crossed'[n] = crossed[n]
      /\ UNCHANGED <<faults, seen, took, overlapped>>
  BY NoteOf
<1>. QED BY <1>1, <1>2, <1>3 DEF WriteOf

\* The four rewrites as writes of one row.
LEMMA RecordRowEffect ==
    ASSUME TypeOK, NEW m \in Msgs, RecordRow(m)
    PROVE  \E status \in Attempted, new \in Row :
              /\ task[m].at = "row" /\ task[m].status = status
              /\ new = Written(cm[m], m, status) /\ Note(m, cm[m], new)
              /\ cm'[m] = new /\ \A n \in Msgs \ {m} : cm'[n] = cm[n]
              /\ \/ /\ status # "rate_limited" /\ task'[m] = At("mirror", status) /\ owed' = owed
                 \/ /\ status = "rate_limited" /\ task'[m] = Idle
                    /\ owed' = [owed EXCEPT ![m]["rate_limited"] = @ + 1]
              /\ \A n \in Msgs \ {m} : task'[n] = task[n]
              /\ UNCHANGED <<mirror, usage, accepts, request>>
<1>. DEFINE status == task[m].status
            new == Written(cm[m], m, status)
<1>1. status \in Attempted /\ task[m].at = "row"
  BY Tasks DEF RecordRow, TypeOK
<1>5. new \in Row
  BY <1>1, WrittenType DEF TypeOK
<1>2. cm'[m] = new /\ (\A n \in Msgs \ {m} : cm'[n] = cm[n]) /\ Note(m, cm[m], new)
  BY DEF RecordRow, TypeOK
<1>3. /\ \/ /\ status # "rate_limited" /\ task'[m] = At("mirror", status) /\ owed' = owed
         \/ /\ status = "rate_limited" /\ task'[m] = Idle
            /\ owed' = [owed EXCEPT ![m]["rate_limited"] = @ + 1]
      /\ \A n \in Msgs \ {m} : task'[n] = task[n]
  BY DEF RecordRow, TypeOK
<1>4. UNCHANGED <<mirror, usage, accepts, request>>
  BY DEF RecordRow
<1>. HIDE DEF new
<1>. QED BY <1>1, <1>2, <1>3, <1>4, <1>5 DEF new

LEMMA RecordMirrorEffect ==
    ASSUME TypeOK, NEW m \in Msgs, RecordMirror(m)
    PROVE  \E status \in Attempted, new \in Row :
              /\ task[m].at = "mirror" /\ task[m].status = status
              /\ new = Written(mirror[m], m, status) /\ Note(m, mirror[m], new)
              /\ mirror'[m] = new /\ \A n \in Msgs \ {m} : mirror'[n] = mirror[n]
              /\ task'[m] \in {LogEntry, Catch, Idle}
              /\ \A n \in Msgs \ {m} : task'[n] = task[n]
              /\ UNCHANGED <<cm, usage, accepts, owed, request>>
<1>. DEFINE status == task[m].status
            new == Written(mirror[m], m, status)
<1>1. status \in Attempted /\ task[m].at = "mirror"
  BY Tasks DEF RecordMirror, TypeOK
<1>5. new \in Row
  BY <1>1, WrittenType DEF TypeOK
<1>2. mirror'[m] = new /\ (\A n \in Msgs \ {m} : mirror'[n] = mirror[n]) /\ Note(m, mirror[m], new)
  BY DEF RecordMirror, TypeOK
<1>3. task'[m] \in {LogEntry, Catch, Idle} /\ \A n \in Msgs \ {m} : task'[n] = task[n]
  BY DEF RecordMirror, TypeOK
<1>4. UNCHANGED <<cm, usage, accepts, owed, request>>
  BY DEF RecordMirror
<1>. HIDE DEF new
<1>. QED BY <1>1, <1>2, <1>3, <1>4, <1>5 DEF new

LEMMA RecordLateEffect ==
    ASSUME TypeOK, NEW m \in Msgs, NEW status \in Late, RecordLate(m, status)
    PROVE  \E new :
              /\ new = Written(mirror[m], m, status) /\ Note(m, mirror[m], new)
              /\ mirror'[m] = new /\ \A n \in Msgs \ {m} : mirror'[n] = mirror[n]
              /\ owed[m][status] > 0 /\ owed' = [owed EXCEPT ![m][status] = @ - 1]
              /\ UNCHANGED <<cm, usage, accepts, task, request>>
<1>. DEFINE new == Written(mirror[m], m, status)
<1>1. mirror'[m] = new /\ (\A n \in Msgs \ {m} : mirror'[n] = mirror[n]) /\ Note(m, mirror[m], new)
  BY DEF RecordLate, TypeOK
<1>2. /\ owed[m][status] > 0 /\ owed' = [owed EXCEPT ![m][status] = @ - 1]
      /\ UNCHANGED <<cm, usage, accepts, task, request>>
  BY DEF RecordLate
<1>. HIDE DEF new
<1>. QED BY <1>1, <1>2 DEF new

LEMMA RelaunchEffect ==
    ASSUME TypeOK, NEW m \in Msgs, Relaunch(m)
    PROVE  /\ cm'[m] = [cm[m] EXCEPT !.status = "queued"] /\ \A n \in Msgs \ {m} : cm'[n] = cm[n]
           /\ owed' = [owed EXCEPT ![m]["queued"] = @ + 1]
           /\ ~regressed'[m] => ~regressed[m] /\ ~Shows(cm, m)
           /\ ~crossed'[m] => /\ ~crossed[m] /\ task[m] = Idle /\ owed[m] = NothingOwed
                              /\ <<m, cm[m].id>> \notin seen
           /\ \A n \in Msgs \ {m} : regressed'[n] = regressed[n] /\ crossed'[n] = crossed[n]
           /\ UNCHANGED <<mirror, usage, accepts, task, request, faults, seen, took, overlapped, raced>>
<1>1. cm'[m] = [cm[m] EXCEPT !.status = "queued"] /\ \A n \in Msgs \ {m} : cm'[n] = cm[n]
  BY DEF Relaunch, TypeOK
<1>2. /\ owed' = [owed EXCEPT ![m]["queued"] = @ + 1]
      /\ UNCHANGED <<mirror, usage, accepts, task, request, faults, seen, took, overlapped, raced>>
  BY DEF Relaunch
<1>. DEFINE late == task[m] # Idle \/ owed[m] # NothingOwed \/ <<m, cm[m].id>> \in seen
            shown == cm[m].status = "delivered"
<1>3. /\ crossed' = [crossed EXCEPT ![m] = @ \/ late]
      /\ regressed' = [regressed EXCEPT ![m] = @ \/ shown]
  BY Zenon DEF Relaunch
<1>. HIDE DEF late, shown
<1>6. crossed \in [Msgs -> BOOLEAN] /\ regressed \in [Msgs -> BOOLEAN]
  BY DEF TypeOK
<1>4. /\ regressed'[m] <=> regressed[m] \/ shown
      /\ \A n \in Msgs \ {m} : regressed'[n] = regressed[n]
  BY <1>3, <1>6, OrOf
<1>5. /\ crossed'[m] <=> crossed[m] \/ late
      /\ \A n \in Msgs \ {m} : crossed'[n] = crossed[n]
  BY <1>3, <1>6, OrOf
<1>. QED BY <1>1, <1>2, <1>4, <1>5 DEF late, shown, Shows

\* What they have in common.
LEMMA RewriteEffect ==
    ASSUME TypeOK, NEW m \in Msgs, Rewrites(m)
    PROVE  /\ UNCHANGED <<usage, accepts, request, faults, seen, took, overlapped>>
           /\ \A k \in Handlers : Same(k)
           /\ \A n \in Msgs \ {m} : /\ cm'[n] = cm[n] /\ mirror'[n] = mirror[n] /\ task'[n] = task[n]
                                    /\ raced'[n] = raced[n] /\ regressed'[n] = regressed[n]
           /\ ~raced'[m] => ~raced[m]
           /\ ~regressed'[m] => ~regressed[m]
           /\ cm'[m] = cm[m] \/ Overwritten(cm, m)
           /\ mirror'[m] = mirror[m] \/ Overwritten(mirror, m)
           /\ \/ /\ task[m] = ToRow /\ task'[m] = ToMirror /\ cm'[m].id = accepts[m]
                 /\ mirror'[m].id = mirror[m].id
              \/ /\ task[m] = ToMirror /\ task'[m] \notin {ToRow, ToMirror}
                 /\ cm'[m].id = cm[m].id /\ mirror'[m].id = accepts[m]
              \/ /\ task'[m] = task[m] \/ task'[m] \notin {ToRow, ToMirror}
                 /\ cm'[m].id = cm[m].id /\ mirror'[m].id = mirror[m].id
<1>1. cm[m] \in Row /\ mirror[m] \in Row /\ task[m] \in Task
  BY DEF TypeOK
<1>2. CASE RecordRow(m)
  <2>1. PICK status \in Attempted, new \in Row :
              /\ task[m].at = "row" /\ task[m].status = status
              /\ new = Written(cm[m], m, status) /\ Note(m, cm[m], new)
              /\ cm'[m] = new /\ \A n \in Msgs \ {m} : cm'[n] = cm[n]
              /\ \/ /\ status # "rate_limited" /\ task'[m] = At("mirror", status) /\ owed' = owed
                 \/ /\ status = "rate_limited" /\ task'[m] = Idle
                    /\ owed' = [owed EXCEPT ![m]["rate_limited"] = @ + 1]
              /\ \A n \in Msgs \ {m} : task'[n] = task[n]
              /\ UNCHANGED <<mirror, usage, accepts, request>>
    BY <1>2, RecordRowEffect
  <2>2. /\ new.status # "delivered"
        /\ ~regressed'[m] => ~regressed[m] /\ cm[m].status # "delivered"
        /\ ~raced'[m] => ~raced[m]
        /\ \/ status # "accepted_meta" /\ new.id = cm[m].id
           \/ /\ status = "accepted_meta" /\ new.id = accepts[m]
              /\ ~raced'[m] => <<m, accepts[m]>> \notin seen
        /\ \A n \in Msgs \ {m} : raced'[n] = raced[n] /\ regressed'[n] = regressed[n]
        /\ UNCHANGED <<faults, seen, took, overlapped>>
    <3>1. status \in Attempted \cup Late
      OBVIOUS
    <3>2. new = Written(cm[m], m, status) /\ Note(m, cm[m], new)
      BY <2>1
    <3>3. WriteOf(m, status, cm[m], new)
      BY <3>1, <3>2, WriteEffect
    <3>. QED BY <3>3 DEF WriteOf
  <2>3. Overwritten(cm, m)
    BY <2>1, <2>2 DEF Overwritten, Shows
  <2>4. \/ /\ task[m] = ToRow /\ task'[m] = ToMirror /\ cm'[m].id = accepts[m]
        \/ /\ task'[m] \notin {ToRow, ToMirror} /\ cm'[m].id = cm[m].id
    <3>1. CASE status = "accepted_meta"
      <4>1. task'[m] = ToMirror
        BY <2>1, <3>1 DEF ToMirror
      <4>2. task[m] = ToRow
        <5>1. task[m] \in Task /\ task[m].at = "row" /\ task[m].status = "accepted_meta"
          BY <1>1, <2>1, <3>1
        <5>. QED BY <5>1, AcceptanceTask
      <4>. QED BY <2>1, <2>2, <3>1, <4>1, <4>2
    <3>2. CASE status # "accepted_meta"
      BY <2>1, <2>2, <3>2, Apart
    <3>. QED BY <3>1, <3>2
  <2>5. \A k \in Handlers : Same(k)
    BY <2>1 DEF Same, request
  <2>. QED BY <2>1, <2>2, <2>3, <2>4, <2>5
<1>3. CASE RecordMirror(m)
  <2>1. PICK status \in Attempted, new \in Row :
              /\ task[m].at = "mirror" /\ task[m].status = status
              /\ new = Written(mirror[m], m, status) /\ Note(m, mirror[m], new)
              /\ mirror'[m] = new /\ \A n \in Msgs \ {m} : mirror'[n] = mirror[n]
              /\ task'[m] \in {LogEntry, Catch, Idle}
              /\ \A n \in Msgs \ {m} : task'[n] = task[n]
              /\ UNCHANGED <<cm, usage, accepts, owed, request>>
    BY <1>3, RecordMirrorEffect
  <2>2. /\ new.status # "delivered"
        /\ ~regressed'[m] => ~regressed[m] /\ mirror[m].status # "delivered"
        /\ ~raced'[m] => ~raced[m]
        /\ \/ status # "accepted_meta" /\ new.id = mirror[m].id
           \/ /\ status = "accepted_meta" /\ new.id = accepts[m]
              /\ ~raced'[m] => <<m, accepts[m]>> \notin seen
        /\ \A n \in Msgs \ {m} : raced'[n] = raced[n] /\ regressed'[n] = regressed[n]
        /\ UNCHANGED <<faults, seen, took, overlapped>>
    <3>1. status \in Attempted \cup Late
      OBVIOUS
    <3>2. new = Written(mirror[m], m, status) /\ Note(m, mirror[m], new)
      BY <2>1
    <3>3. WriteOf(m, status, mirror[m], new)
      BY <3>1, <3>2, WriteEffect
    <3>. QED BY <3>3 DEF WriteOf
  <2>3. Overwritten(mirror, m)
    BY <2>1, <2>2 DEF Overwritten, Shows
  <2>4. /\ task'[m] \notin {ToRow, ToMirror}
        /\ \/ task[m] = ToMirror /\ mirror'[m].id = accepts[m]
           \/ mirror'[m].id = mirror[m].id
    <3>1. task'[m] \notin {ToRow, ToMirror}
      BY <2>1, Apart
    <3>2. task[m].status = "accepted_meta" => task[m] = ToMirror
      <4>1. task[m] \in Task /\ task[m].at = "mirror"
        BY <1>1, <2>1
      <4>. QED BY <4>1, AcceptanceTask
    <3>. QED BY <2>1, <2>2, <3>1, <3>2
  <2>5. \A k \in Handlers : Same(k)
    BY <2>1 DEF Same, request
  <2>. QED BY <2>1, <2>2, <2>3, <2>4, <2>5
<1>4. CASE Relaunch(m)
  <2>1. /\ cm'[m].id = cm[m].id /\ cm'[m].status = "queued" /\ \A n \in Msgs \ {m} : cm'[n] = cm[n]
        /\ ~regressed'[m] => ~regressed[m] /\ ~Shows(cm, m)
        /\ \A n \in Msgs \ {m} : regressed'[n] = regressed[n]
        /\ UNCHANGED <<mirror, usage, accepts, task, request, faults, seen, took, overlapped, raced>>
    BY <1>1, <1>4, RelaunchEffect DEF Row
  <2>2. Overwritten(cm, m)
    BY <2>1 DEF Overwritten, Shows
  <2>3. \A k \in Handlers : Same(k)
    BY <2>1 DEF Same, request
  <2>. QED BY <2>1, <2>2, <2>3
<1>5. CASE \E status \in Late : RecordLate(m, status)
  <2>1. PICK status \in Late : RecordLate(m, status)
    BY <1>5
  <2>2. PICK new :
              /\ new = Written(mirror[m], m, status) /\ Note(m, mirror[m], new)
              /\ mirror'[m] = new /\ \A n \in Msgs \ {m} : mirror'[n] = mirror[n]
              /\ UNCHANGED <<cm, usage, accepts, task, request>>
    BY <2>1, RecordLateEffect
  <2>3. /\ new.status # "delivered"
        /\ ~regressed'[m] => ~regressed[m] /\ mirror[m].status # "delivered"
        /\ ~raced'[m] => ~raced[m]
        /\ status # "accepted_meta" => new.id = mirror[m].id
        /\ \A n \in Msgs \ {m} : raced'[n] = raced[n] /\ regressed'[n] = regressed[n]
        /\ UNCHANGED <<faults, seen, took, overlapped>>
    <3>1. status \in Attempted \cup Late
      OBVIOUS
    <3>2. new = Written(mirror[m], m, status) /\ Note(m, mirror[m], new)
      BY <2>2
    <3>3. WriteOf(m, status, mirror[m], new)
      BY <3>1, <3>2, WriteEffect
    <3>. QED BY <3>3 DEF WriteOf
  <2>4. new.id = mirror[m].id
    BY <2>3 DEF Late
  <2>5. Overwritten(mirror, m)
    BY <2>2, <2>3, <2>4 DEF Overwritten, Shows
  <2>6. \A k \in Handlers : Same(k)
    BY <2>2 DEF Same, request
  <2>. QED BY <2>2, <2>3, <2>4, <2>5, <2>6
<1>. QED BY <1>2, <1>3, <1>4, <1>5 DEF Rewrites

-----------------------------------------------------------------------------
\* The shape of the state.
Worded(h) == \A i \in DOMAIN todo[h] : todo[h][i].n <= accepts[todo[h][i].msg]

LEMMA SteadyKnown ==
    ASSUME ShapeInv, TypeOK', Steady, \A h \in Handlers : Worded(h)'
    PROVE  KnownInv' /\ IdInv' /\ PrevInv'
<1>1. \A m \in Msgs : accepts[m] \in Nat /\ accepts'[m] \in Nat
  BY DEF ShapeInv, TypeOK
<1>2. \A m \in Msgs : cm[m].id \in Nat /\ mirror[m].id \in Nat
  BY DEF ShapeInv, TypeOK, Row
<1>3. \A m \in Msgs : accepts'[m] >= accepts[m]
  BY <1>1 DEF Steady
<1>4. ASSUME NEW m \in Msgs, took'[m].delivered > 0 PROVE \E n \in 1..accepts'[m] : <<m, n>> \in seen'
  <2>1. PICK n \in 1..accepts[m] : <<m, n>> \in seen
    BY <1>4 DEF ShapeInv, KnownInv, Steady
  <2>2. n \in 1..accepts'[m]
    BY <1>1, <1>3
  <2>. QED BY <2>1, <2>2 DEF Steady
<1>5. \A h \in Handlers : pc'[h] \in Past => <<On(h).msg, On(h).n>>' \in seen'
  BY DEF ShapeInv, KnownInv, Steady, Same, On
<1>6. KnownInv'
  BY <1>4, <1>5 DEF KnownInv, Worded
<1>7. IdInv'
  <2>. SUFFICES ASSUME NEW m \in Msgs
                PROVE  /\ mirror'[m].id <= cm'[m].id /\ cm'[m].id <= accepts'[m]
                       /\ task'[m] = ToRow => cm'[m].id < accepts'[m]
                       /\ task'[m] = ToMirror => cm'[m].id = accepts'[m] /\ mirror'[m].id < accepts'[m]
    BY DEF IdInv, ToRow, ToMirror, At
  <2>1. cm' = cm /\ mirror' = mirror
    BY DEF Steady
  <2>2. CASE accepts'[m] = accepts[m] /\ (task'[m] \in {ToRow, ToMirror} => task'[m] = task[m])
    BY <1>2, <2>1, <2>2 DEF ShapeInv, IdInv
  <2>3. CASE accepts'[m] = accepts[m] + 1 /\ task'[m] = ToRow
    BY <1>1, <1>2, <2>1, <2>3, Apart DEF ShapeInv, IdInv
  <2>. QED BY <2>2, <2>3 DEF Steady
<1>8. PrevInv'
  BY DEF ShapeInv, PrevInv, Steady, Same, On
<1>. QED BY <1>6, <1>7, <1>8

\* A step after which no other handler is at work than before.
LEMMA SteadyAlone ==
    ASSUME AloneInv, ~overlapped' => ~overlapped, \A k \in Handlers : pc'[k] # "idle" => pc[k] # "idle"
    PROVE  AloneInv'
  BY DEF AloneInv

LEMMA ReceiveShape ==
    ASSUME ShapeInv, NEW h \in Handlers, NEW p \in Request, Receive(h, p)
    PROVE  ShapeInv'
<1>1. TypeOK'
  BY ReceiveType DEF ShapeInv
<1>2. Steady
  BY SteadySteps DEF ShapeInv
<1>3. ASSUME NEW k \in Handlers PROVE Worded(k)'
  BY <1>3 DEF ShapeInv, TypeOK, KnownInv, Worded, Receive, worker
<1>4. AloneInv'
  <2>. SUFFICES ASSUME ~overlapped', NEW j \in Handlers, NEW k \in Handlers, pc'[j] # "idle", pc'[k] # "idle"
                PROVE  j = k
    BY DEF AloneInv
  <2>1. \A i \in Handlers : pc[i] = "idle"
    BY DEF Receive, Quiet
  <2>2. \A i \in Handlers \ {h} : pc'[i] = pc[i]
    BY DEF Receive, ShapeInv, TypeOK
  <2>. QED BY <2>1, <2>2
<1>. QED BY <1>1, <1>2, <1>3, <1>4, SteadyKnown DEF ShapeInv

LEMMA StoreShape == ASSUME ShapeInv, NEW h \in Handlers, Store(h) PROVE ShapeInv'
<1>1. TypeOK'
  BY StoreType DEF ShapeInv
<1>2. Steady
  BY SteadySteps DEF ShapeInv
<1>3. ASSUME NEW k \in Handlers PROVE Worded(k)'
  <2>1. accepts' = accepts /\ (todo'[k] = todo[k] \/ todo'[k] = <<>>)
    BY DEF ShapeInv, TypeOK, Store, Fault, worker
  <2>2. CASE todo'[k] = todo[k]
    BY <2>1, <2>2 DEF ShapeInv, KnownInv, Worded
  <2>3. CASE todo'[k] = <<>>
    BY <2>3 DEF Worded
  <2>. QED BY <2>1, <2>2, <2>3
<1>4. AloneInv'
  BY SteadyAlone DEF ShapeInv, TypeOK, Store, Fault
<1>. QED BY <1>1, <1>2, <1>3, <1>4, SteadyKnown DEF ShapeInv

\* What is left of a request is in it.
LEMMA TailOf ==
    ASSUME NEW S, NEW s \in Seq(S), s # <<>>, NEW i \in DOMAIN Tail(s)
    PROVE  i + 1 \in DOMAIN s /\ Tail(s)[i] = s[i + 1]
  OBVIOUS

LEMMA LogShape == ASSUME ShapeInv, NEW h \in Handlers, Log(h) PROVE ShapeInv'
<1>1. TypeOK'
  BY LogType DEF ShapeInv
<1>2. Steady
  BY SteadySteps DEF ShapeInv
<1>3. ASSUME NEW k \in Handlers PROVE Worded(k)'
  <2>1. accepts' = accepts /\ (todo'[k] = todo[k] \/ todo'[k] = <<>> \/ (k = h /\ todo'[k] = Tail(todo[h])))
    BY DEF ShapeInv, TypeOK, Log, Fault, worker
  <2>2. CASE todo'[k] = todo[k]
    BY <2>1, <2>2 DEF ShapeInv, KnownInv, Worded
  <2>3. CASE todo'[k] = <<>>
    BY <2>3 DEF Worded
  <2>4. CASE k = h /\ todo'[k] = Tail(todo[h])
    <3>1. todo[h] \in Seq(Event) /\ todo[h] # <<>>
      BY Pending DEF ShapeInv, Log
    <3>2. ASSUME NEW i \in DOMAIN Tail(todo[h])
          PROVE  Tail(todo[h])[i].n <= accepts[Tail(todo[h])[i].msg]
      BY <3>1, TailOf DEF ShapeInv, KnownInv
    <3>. QED BY <2>1, <2>4, <3>2 DEF Worded
  <2>. QED BY <2>1, <2>2, <2>3, <2>4
<1>4. AloneInv'
  BY SteadyAlone DEF ShapeInv, TypeOK, Log, Fault
<1>. QED BY <1>1, <1>2, <1>3, <1>4, SteadyKnown DEF ShapeInv

\* The worker's steps before it writes, and no step at all.
LEMMA PauseShape ==
    ASSUME ShapeInv, (\E m \in Msgs : Pauses(m)) \/ UNCHANGED vars
    PROVE  ShapeInv'
<1>1. TypeOK'
  <2>1. CASE UNCHANGED vars
    BY <2>1 DEF ShapeInv, TypeOK, vars, tables, worker, request, history
  <2>. QED BY <2>1, PauseType DEF ShapeInv
<1>2. Steady
  BY SteadySteps DEF ShapeInv
<1>3. UNCHANGED <<request, overlapped>>
  BY PauseEffect DEF ShapeInv, vars, history
<1>4. ASSUME NEW k \in Handlers PROVE Worded(k)'
  <2>1. todo' = todo /\ todo[k] \in Seq(Event)
    BY <1>3 DEF ShapeInv, TypeOK, request
  <2>2. \A m \in Msgs : accepts[m] \in Nat /\ accepts'[m] >= accepts[m]
    <3>. SUFFICES ASSUME NEW m \in Msgs PROVE accepts[m] \in Nat /\ accepts'[m] >= accepts[m]
      OBVIOUS
    <3>1. accepts[m] \in Nat
      BY DEF ShapeInv, TypeOK
    <3>2. accepts'[m] = accepts[m] \/ accepts'[m] = accepts[m] + 1
      BY <1>2 DEF Steady
    <3>. QED BY <3>1, <3>2
  <2>3. \A i \in DOMAIN todo[k] : todo[k][i].msg \in Msgs /\ todo[k][i].n \in Int
    <3>1. \A i \in DOMAIN todo[k] : todo[k][i] \in Event
      BY <2>1
    <3>. QED BY <3>1 DEF Event
  <2>4. \A m \in Msgs : accepts'[m] \in Nat
    BY <1>1 DEF TypeOK
  <2>. QED BY <2>1, <2>2, <2>3, <2>4 DEF ShapeInv, KnownInv, Worded
<1>5. AloneInv'
  BY <1>3, SteadyAlone DEF ShapeInv, request
<1>. QED BY <1>1, <1>2, <1>4, <1>5, SteadyKnown DEF ShapeInv

LEMMA UpdateRowShape == ASSUME ShapeInv, NEW h \in Handlers, UpdateRow(h) PROVE ShapeInv'
<1>. DEFINE e == On(h)
<1>1. TypeOK /\ TypeOK'
  BY UpdateRowType DEF ShapeInv
<1>2. /\ pc[h] = "row" /\ e \in Event /\ e.msg \in Msgs
      /\ UNCHANGED <<mirror, accepts, task, overlapped>>
      /\ seen' = seen \cup {<<e.msg, e.n>>}
      /\ \A k \in Handlers \ {h} : Same(k)
      /\ \A m \in Msgs : cm'[m].id = cm[m].id
      /\ \A m \in Msgs \ {e.msg} : took'[m].delivered = took[m].delivered
      /\ \/ pc'[h] = "idle" /\ DOMAIN (todo'[h]) = {}
         \/ pc'[h] = "mirror" /\ todo'[h] = todo[h] /\ prevRow'[h] = Previous(cm, e)
  BY <1>1, UpdateRowEffect DEF Event
<1>3. ASSUME NEW k \in Handlers PROVE Worded(k)'
  BY <1>2, <1>3 DEF ShapeInv, KnownInv, Worded, Same
<1>4. e.n \in 1..accepts[e.msg]
  <2>1. 1 \in DOMAIN todo[h] /\ e = todo[h][1]
    BY <1>1, <1>2, Pending DEF On
  <2>2. e.n \in Nat /\ e.n >= 1 /\ accepts[e.msg] \in Nat
    BY <1>1, <1>2, BoundsAssumption DEF TypeOK, Event
  <2>. QED BY <2>1, <2>2 DEF ShapeInv, KnownInv
<1>5. \A m \in Msgs : took'[m].delivered > 0 => \E n \in 1..accepts'[m] : <<m, n>> \in seen'
  BY <1>2, <1>4 DEF ShapeInv, KnownInv
<1>6. ASSUME NEW k \in Handlers, pc'[k] \in Past PROVE <<On(k).msg, On(k).n>>' \in seen'
  BY <1>2, <1>6 DEF ShapeInv, KnownInv, Same, On, Past
<1>7. KnownInv'
  BY <1>3, <1>5, <1>6 DEF KnownInv, Worded
<1>8. IdInv'
  BY <1>2 DEF ShapeInv, IdInv
<1>9. AloneInv'
  BY <1>2, SteadyAlone DEF ShapeInv, Same
<1>10. PrevInv'
  <2>. SUFFICES ASSUME NEW k \in Handlers, pc'[k] \in Past
                PROVE  /\ prevRow'[k] # Mapped(On(k)'.status)
                       /\ pc'[k] = "count" => prevMirror'[k] # Mapped(On(k)'.status)
    BY DEF PrevInv, Mapped
  <2>1. CASE k = h
    <3>1. Previous(cm, e) # Mapped(e.status)
      BY <1>1, <1>2, PreviousOf DEF TypeOK
    <3>2. On(h)' = e
      BY <1>2, <2>1 DEF On, Past
    <3>. QED BY <1>2, <2>1, <3>1, <3>2 DEF Past
  <2>2. CASE k # h
    BY <1>2, <2>2 DEF ShapeInv, PrevInv, Same, On
  <2>. QED BY <2>1, <2>2
<1>. QED BY <1>1, <1>7, <1>8, <1>9, <1>10 DEF ShapeInv

\* A handler on its way about a report it has taken up.
LEMMA OnwardShape ==
    ASSUME ShapeInv, TypeOK', NEW h \in Handlers, pc[h] \in Past,
           UNCHANGED <<cm, accepts, task, overlapped, seen, took>>,
           \A m \in Msgs : mirror'[m].id = mirror[m].id,
           \A k \in Handlers \ {h} : Same(k),
           \/ pc'[h] = "idle" /\ DOMAIN (todo'[h]) = {}
           \/ pc'[h] = "log" /\ todo'[h] = todo[h]
           \/ /\ pc'[h] = "count" /\ todo'[h] = todo[h] /\ prevRow'[h] = prevRow[h]
              /\ prevMirror'[h] # Mapped(On(h).status)
    PROVE  ShapeInv'
<1>1. ASSUME NEW k \in Handlers PROVE Worded(k)'
  BY <1>1 DEF ShapeInv, KnownInv, Worded, Same
<1>2. ASSUME NEW k \in Handlers, pc'[k] \in Past PROVE <<On(k).msg, On(k).n>>' \in seen'
  BY <1>2 DEF ShapeInv, KnownInv, Same, On, Past
<1>3. KnownInv'
  BY <1>1, <1>2 DEF ShapeInv, KnownInv, Worded
<1>4. IdInv'
  BY DEF ShapeInv, IdInv
<1>5. AloneInv'
  BY SteadyAlone DEF ShapeInv, Same, Past
<1>6. PrevInv'
  <2>. SUFFICES ASSUME NEW k \in Handlers, pc'[k] \in Past
                PROVE  /\ prevRow'[k] # Mapped(On(k)'.status)
                       /\ pc'[k] = "count" => prevMirror'[k] # Mapped(On(k)'.status)
    BY DEF PrevInv, Mapped
  <2>1. CASE k = h
    <3>1. On(h)' = On(h)
      BY <2>1 DEF On, Past
    <3>. QED BY <2>1, <3>1 DEF ShapeInv, PrevInv, Past
  <2>2. CASE k # h
    BY <2>2 DEF ShapeInv, PrevInv, Same, On
  <2>. QED BY <2>1, <2>2
<1>. QED BY <1>3, <1>4, <1>5, <1>6 DEF ShapeInv

LEMMA UpdateMirrorShape == ASSUME ShapeInv, NEW h \in Handlers, UpdateMirror(h) PROVE ShapeInv'
<1>1. TypeOK /\ TypeOK'
  BY UpdateMirrorType DEF ShapeInv
<1>2. Previous(mirror, On(h)) # Mapped(On(h).status)
  BY <1>1, UpdateMirrorEffect, PreviousOf DEF TypeOK
<1>. QED BY <1>1, <1>2, UpdateMirrorEffect, OnwardShape DEF Past

LEMMA CountShape == ASSUME ShapeInv, NEW h \in Handlers, Count(h) PROVE ShapeInv'
<1>1. TypeOK /\ TypeOK' /\ PrevInv
  BY CountType DEF ShapeInv
<1>. QED BY <1>1, CountEffect, OnwardShape DEF Past

\* The worker writes the row or the mirror.
LEMMA RewriteShape ==
    ASSUME ShapeInv, NEW m \in Msgs, Rewrites(m)
    PROVE  ShapeInv'
<1>1. TypeOK /\ TypeOK'
  BY RewriteType DEF ShapeInv
<1>2. \A n \in Msgs : accepts[n] \in Nat /\ cm[n].id \in Nat /\ mirror[n].id \in Nat
  BY <1>1, SMTT(30) DEF TypeOK, Row
<1>3. UNCHANGED <<accepts, request, overlapped, seen, took>>
  BY <1>1, RewriteEffect
<1>4. KnownInv' /\ AloneInv' /\ PrevInv'
  BY <1>3 DEF ShapeInv, KnownInv, AloneInv, PrevInv, On, request
<1>5. IdInv'
  <2>. SUFFICES ASSUME NEW n \in Msgs
                PROVE  /\ mirror'[n].id <= cm'[n].id /\ cm'[n].id <= accepts'[n]
                       /\ task'[n] = ToRow => cm'[n].id < accepts'[n]
                       /\ task'[n] = ToMirror => cm'[n].id = accepts'[n] /\ mirror'[n].id < accepts'[n]
    BY DEF IdInv, ToRow, ToMirror, At
  <2>1. /\ mirror[n].id <= cm[n].id /\ cm[n].id <= accepts[n]
        /\ task[n] = ToRow => cm[n].id < accepts[n]
        /\ task[n] = ToMirror => cm[n].id = accepts[n] /\ mirror[n].id < accepts[n]
    BY DEF ShapeInv, IdInv
  <2>2. CASE n # m
    BY <1>1, <1>3, <2>1, <2>2, RewriteEffect
  <2>3. CASE n = m
    <3>1. \/ /\ task[n] = ToRow /\ task'[n] = ToMirror /\ cm'[n].id = accepts[n]
             /\ mirror'[n].id = mirror[n].id
          \/ /\ task[n] = ToMirror /\ task'[n] \notin {ToRow, ToMirror}
             /\ cm'[n].id = cm[n].id /\ mirror'[n].id = accepts[n]
          \/ /\ task'[n] = task[n] \/ task'[n] \notin {ToRow, ToMirror}
             /\ cm'[n].id = cm[n].id /\ mirror'[n].id = mirror[n].id
      BY <1>1, <2>3, RewriteEffect
    <3>. QED BY <1>2, <1>3, <2>1, <3>1, Apart
  <2>. QED BY <2>2, <2>3
<1>. QED BY <1>1, <1>4, <1>5 DEF ShapeInv

LEMMA InitShape == Init => ShapeInv
<1>. SUFFICES ASSUME Init PROVE ShapeInv
  OBVIOUS
<1>1. TypeOK
  BY InitType
<1>2. KnownInv
  BY DEF Init, KnownInv, NoCount, Past
<1>3. IdInv
  BY Apart DEF Init, IdInv
<1>4. AloneInv /\ PrevInv
  BY DEF Init, AloneInv, PrevInv, Past
<1>. QED BY <1>1, <1>2, <1>3, <1>4 DEF ShapeInv

-----------------------------------------------------------------------------
\* The status of a delivery report is that of a delivered row, and only of it.
LEMMA MappedDelivered ==
    ASSUME NEW e \in Event
    PROVE  Mapped(e.status) = "delivered" <=> e.status = "delivered"
<1>1. e.status \in MetaStatus
  BY ReportsAssumption DEF Event
<1>. QED BY <1>1 DEF Mapped, MetaStatus

Paid(m) == usage[m].delivered > 0 \/ Coming(m)

LEMMA InitPaid == Init => PaidInv
<1>. SUFFICES ASSUME Init PROVE PaidInv
  OBVIOUS
<1>1. ShownInv
  BY DEF Init, ShownInv, Shows
<1>2. MissInv
  BY DEF Init, MissInv
<1>. QED BY <1>1, <1>2, InitShape DEF PaidInv

LEMMA SteadyPaid == ASSUME PaidInv, ShapeInv', Steady PROVE PaidInv'
<1>1. \A m \in Msgs : Paid(m) => usage'[m].delivered > 0 \/ Coming(m)'
  BY SteadyBills DEF Steady, Paid
<1>2. ShownInv'
  BY <1>1 DEF PaidInv, ShownInv, Shows, Paid, Steady
<1>3. MissInv'
  <2>. SUFFICES ASSUME NEW m \in Msgs, faults' = 0, ~raced'[m], accepts'[m] = 1, cm'[m].id = 1, took'[m].delivered > 0
                PROVE  usage'[m].delivered > 0 \/ Coming(m)'
    BY DEF MissInv
  <2>1. faults = 0 /\ ~raced[m] /\ cm[m].id = 1 /\ took[m].delivered > 0
    BY DEF Steady
  <2>2. accepts[m] = 1
    <3>1. accepts[m] \in Nat /\ cm[m].id <= accepts[m]
      BY DEF PaidInv, ShapeInv, TypeOK, IdInv
    <3>2. accepts'[m] = accepts[m] \/ accepts'[m] = accepts[m] + 1
      BY DEF Steady
    <3>. QED BY <2>1, <3>1, <3>2
  <2>. QED BY <1>1, <2>1, <2>2 DEF PaidInv, MissInv, Paid
<1>. QED BY <1>2, <1>3 DEF PaidInv

LEMMA UpdateRowPaid == ASSUME PaidInv, ShapeInv', NEW h \in Handlers, UpdateRow(h) PROVE PaidInv'
<1>. DEFINE e == On(h)
<1>1. TypeOK
  BY DEF PaidInv, ShapeInv
<1>2. CASE faults' # 0
  BY <1>2 DEF PaidInv, ShownInv, MissInv
<1>3. CASE faults' = 0
  <2>1. /\ pc[h] = "row" /\ pc'[h] = "mirror" /\ faults = 0
        /\ e \in Event /\ On(h)' = e /\ prevRow'[h] = Previous(cm, e)
        /\ \A k \in Handlers \ {h} : Same(k)
        /\ UNCHANGED <<mirror, usage, accepts, raced>>
        /\ \A m \in Msgs : /\ cm'[m].id = cm[m].id
                           /\ ~(m = e.msg /\ e.n = cm[m].id) => cm'[m].status = cm[m].status
                           /\ ~(m = e.msg /\ e.status = "delivered") => took'[m].delivered = took[m].delivered
                           /\ cm'[m].status \in {cm[m].status, Mapped(e.status)}
        /\ cm[e.msg].id = e.n => cm'[e.msg].status = Mapped(e.status)
    BY <1>1, <1>3, UpdateRowEffect DEF On
  <2>2. ASSUME NEW m \in Msgs, Paid(m) PROVE usage'[m].delivered > 0 \/ Coming(m)'
    <3>1. ASSUME NEW k \in Handlers, Bills(k, m) PROVE Coming(m)'
      <4>1. k # h
        BY <2>1, <3>1 DEF Bills, Past
      <4>. QED BY <2>1, <3>1, <4>1, SameBills DEF Coming
    <3>. QED BY <2>1, <2>2, <3>1 DEF Paid, Coming
  <2>3. ShownInv'
    <3>. SUFFICES ASSUME NEW m \in Msgs, Shows(cm, m)' \/ Shows(mirror, m)'
                  PROVE  usage'[m].delivered > 0 \/ Coming(m)'
      BY DEF ShownInv
    <3>1. CASE Shows(cm, m) \/ Shows(mirror, m)
      BY <2>1, <2>2, <3>1 DEF PaidInv, ShownInv, Paid
    <3>2. CASE ~(Shows(cm, m) \/ Shows(mirror, m))
      <4>1. cm'[m].status = "delivered" /\ cm[m].status # "delivered"
        BY <2>1, <3>2 DEF Shows
      <4>2. m = e.msg /\ e.n = cm[m].id /\ Mapped(e.status) = "delivered"
        BY <2>1, <4>1
      <4>3. Previous(cm, e) # None /\ e.status = "delivered"
        BY <1>1, <2>1, <4>1, <4>2, PreviousOf, MappedDelivered DEF Moves, TypeOK
      <4>4. Bills(h, m)'
        BY <2>1, <4>2, <4>3 DEF Bills, Past
      <4>. QED BY <4>4 DEF Coming
    <3>. QED BY <3>1, <3>2
  <2>4. MissInv'
    <3>. SUFFICES ASSUME NEW m \in Msgs, ~raced'[m], accepts'[m] = 1, cm'[m].id = 1, took'[m].delivered > 0
                  PROVE  usage'[m].delivered > 0 \/ Coming(m)'
      BY DEF MissInv
    <3>1. CASE m = e.msg /\ e.status = "delivered"
      <4>1. e.n = 1
        <5>1. e.n <= accepts[e.msg]
          <6>1. 1 \in DOMAIN todo[h] /\ e = todo[h][1]
            BY <1>1, <2>1, Pending DEF On
          <6>. QED BY <6>1 DEF PaidInv, ShapeInv, KnownInv
        <5>2. e.n \in Int /\ e.n >= 1
          BY <2>1, BoundsAssumption DEF Event
        <5>. QED BY <2>1, <3>1, <5>1, <5>2
      <4>2. Shows(cm, m)'
        BY <2>1, <3>1, <4>1, MappedDelivered DEF Shows
      <4>. QED BY <1>3, <2>3, <4>2 DEF ShownInv
    <3>2. CASE ~(m = e.msg /\ e.status = "delivered")
      BY <2>1, <2>2, <3>2 DEF PaidInv, MissInv, Paid
    <3>. QED BY <3>1, <3>2
  <2>. QED BY <2>3, <2>4 DEF PaidInv
<1>. QED BY <1>2, <1>3

LEMMA UpdateMirrorPaid == ASSUME PaidInv, ShapeInv', NEW h \in Handlers, UpdateMirror(h) PROVE PaidInv'
<1>. DEFINE e == On(h)
<1>1. TypeOK
  BY DEF PaidInv, ShapeInv
<1>2. CASE faults' # 0
  BY <1>2 DEF PaidInv, ShownInv, MissInv
<1>3. CASE faults' = 0
  <2>1. /\ pc[h] = "mirror" /\ pc'[h] = "count" /\ faults = 0
        /\ e \in Event /\ On(h)' = e
        /\ prevRow'[h] = prevRow[h] /\ prevMirror'[h] = Previous(mirror, e)
        /\ \A k \in Handlers \ {h} : Same(k)
        /\ UNCHANGED <<cm, usage, accepts, raced, took>>
        /\ \A m \in Msgs : /\ ~(m = e.msg /\ e.n = mirror[m].id) => mirror'[m].status = mirror[m].status
                           /\ mirror'[m].status \in {mirror[m].status, Mapped(e.status)}
    BY <1>1, <1>3, UpdateMirrorEffect DEF On
  <2>2. ASSUME NEW m \in Msgs, Paid(m) PROVE usage'[m].delivered > 0 \/ Coming(m)'
    <3>1. ASSUME NEW k \in Handlers, Bills(k, m) PROVE Coming(m)'
      <4>1. CASE k = h
        <5>1. Bills(h, m)'
          BY <2>1, <3>1, <4>1 DEF Bills, Past
        <5>. QED BY <5>1 DEF Coming
      <4>2. CASE k # h
        BY <2>1, <3>1, <4>2, SameBills DEF Coming
      <4>. QED BY <4>1, <4>2
    <3>. QED BY <2>1, <2>2, <3>1 DEF Paid, Coming
  <2>3. ShownInv'
    <3>. SUFFICES ASSUME NEW m \in Msgs, Shows(cm, m)' \/ Shows(mirror, m)'
                  PROVE  usage'[m].delivered > 0 \/ Coming(m)'
      BY DEF ShownInv
    <3>1. CASE Shows(cm, m) \/ Shows(mirror, m)
      BY <2>1, <2>2, <3>1 DEF PaidInv, ShownInv, Paid
    <3>2. CASE ~(Shows(cm, m) \/ Shows(mirror, m))
      <4>1. mirror'[m].status = "delivered" /\ mirror[m].status # "delivered"
        BY <2>1, <3>2 DEF Shows
      <4>2. m = e.msg /\ e.n = mirror[m].id /\ Mapped(e.status) = "delivered"
        BY <2>1, <4>1
      <4>3. Previous(mirror, e) # None /\ e.status = "delivered"
        BY <1>1, <2>1, <4>1, <4>2, PreviousOf, MappedDelivered DEF Moves, TypeOK
      <4>4. Bills(h, m)'
        BY <2>1, <4>2, <4>3 DEF Bills, Past
      <4>. QED BY <4>4 DEF Coming
    <3>. QED BY <3>1, <3>2
  <2>4. MissInv'
    BY <2>1, <2>2 DEF PaidInv, MissInv, Paid
  <2>. QED BY <2>3, <2>4 DEF PaidInv
<1>. QED BY <1>2, <1>3

LEMMA CountPaid == ASSUME PaidInv, ShapeInv', NEW h \in Handlers, Count(h) PROVE PaidInv'
<1>1. TypeOK /\ PrevInv
  BY DEF PaidInv, ShapeInv
<1>2. CASE faults' # 0
  BY <1>2 DEF PaidInv, ShownInv, MissInv
<1>3. CASE faults' = 0
  <2>1. /\ faults = 0
        /\ \A k \in Handlers \ {h} : Same(k)
        /\ UNCHANGED <<cm, mirror, accepts, raced, took>>
        /\ \A m \in Msgs : usage'[m].delivered = usage[m].delivered + One(Bills(h, m))
    BY <1>1, <1>3, CountEffect
  <2>2. ASSUME NEW m \in Msgs, Paid(m) PROVE usage'[m].delivered > 0 \/ Coming(m)'
    <3>1. usage[m].delivered \in Nat
      BY <1>1 DEF TypeOK, Counters
    <3>2. ASSUME NEW k \in Handlers, Bills(k, m) PROVE usage'[m].delivered > 0 \/ Coming(m)'
      <4>1. CASE k = h
        BY <2>1, <3>1, <3>2, <4>1 DEF One
      <4>2. CASE k # h
        BY <2>1, <3>2, <4>2, SameBills DEF Coming
      <4>. QED BY <4>1, <4>2
    <3>3. CASE usage[m].delivered > 0
      BY <2>1, <3>1, <3>3 DEF One
    <3>. QED BY <2>2, <3>2, <3>3 DEF Paid, Coming
  <2>3. ShownInv'
    BY <2>1, <2>2 DEF PaidInv, ShownInv, Shows, Paid
  <2>4. MissInv'
    BY <2>1, <2>2 DEF PaidInv, MissInv, Paid
  <2>. QED BY <2>3, <2>4 DEF PaidInv
<1>. QED BY <1>2, <1>3

LEMMA RewritePaid ==
    ASSUME PaidInv, ShapeInv', NEW m \in Msgs, Rewrites(m)
    PROVE  PaidInv'
<1>1. TypeOK
  BY DEF PaidInv, ShapeInv
<1>2. UNCHANGED <<usage, accepts, faults, took, seen>> /\ \A k \in Handlers : Same(k)
  BY <1>1, RewriteEffect
<1>3. ASSUME NEW n \in Msgs, Paid(n) PROVE usage'[n].delivered > 0 \/ Coming(n)'
  BY <1>2, <1>3, SameBills DEF Paid, Coming
<1>4. \A n \in Msgs : /\ Shows(cm, n)' => Shows(cm, n)
                      /\ Shows(mirror, n)' => Shows(mirror, n)
                      /\ ~raced'[n] => ~raced[n]
  BY <1>1, RewriteEffect DEF Shows, Overwritten
<1>5. ShownInv'
  <2>. SUFFICES ASSUME NEW n \in Msgs, faults' = 0, Shows(cm, n)' \/ Shows(mirror, n)'
                PROVE  usage'[n].delivered > 0 \/ Coming(n)'
    BY DEF ShownInv
  <2>1. Shows(cm, n) \/ Shows(mirror, n)
    BY <1>4
  <2>2. Paid(n)
    BY <1>2, <2>1 DEF PaidInv, ShownInv, Paid
  <2>. QED BY <1>3, <2>2
<1>6. ASSUME NEW n \in Msgs, faults = 0, ~raced'[n], accepts[n] = 1, cm'[n].id = 1, took[n].delivered > 0
      PROVE  Paid(n)
  <2>1. CASE cm[n].id = 1
    <3>1. ~raced[n]
      BY <1>4, <1>6
    <3>. QED BY <1>6, <2>1, <3>1 DEF PaidInv, MissInv, Paid
  <2>2. CASE cm[n].id # 1
    <3>1. n = m /\ <<m, accepts[m]>> \notin seen
      BY <1>1, <1>6, <2>2, RewriteEffect DEF Overwritten
    <3>2. \E i \in 1..1 : <<m, i>> \in seen
      BY <1>6, <3>1 DEF PaidInv, ShapeInv, KnownInv
    <3>. QED BY <1>6, <3>1, <3>2
  <2>. QED BY <2>1, <2>2
<1>7. MissInv'
  BY <1>2, <1>3, <1>6 DEF MissInv
<1>. QED BY <1>5, <1>7 DEF PaidInv

-----------------------------------------------------------------------------
(***************************************************************************)
(* What is billed when requests run one at a time.  Both tables can show   *)
(* an acceptance delivered, and each update that makes one do so may bill. *)
(***************************************************************************)
Clean(m) == ~overlapped /\ ~raced[m] /\ ~regressed[m]
Bill(m) == usage[m].delivered + One(Coming(m))
Halfway(m) == \E h \in Handlers : pc[h] = "mirror" /\ Bills(h, m)

\* The first update left the row alone: it has another id, or shows the delivery.
WhyInv == \A h \in Handlers :
    LET e == On(h) IN
    /\ pc[h] = "mirror" /\ prevRow[h] = None /\ e.status = "delivered"
    /\ ~raced[e.msg] /\ ~regressed[e.msg]
    => cm[e.msg].id # e.n \/ Shows(cm, e.msg)

\* The only acceptance billed leaves nothing to move in the row, and soon in the mirror.
BillFits(m) ==
    /\ Bill(m) <= One(Shows(cm, m)) + One(Shows(mirror, m))
    /\ Bill(m) > 0 /\ accepts[m] < 2 =>
          /\ Bill(m) = 1 /\ accepts[m] = 1 /\ Shows(cm, m) /\ <<m, 1>> \in seen
          /\ Shows(mirror, m) \/ mirror[m].id = 0 \/ Halfway(m)
BillInv == \A m \in Msgs : Clean(m) => BillFits(m)

OnceInv == ShapeInv /\ WhyInv /\ BillInv

\* A handler at work while no request overlaps another one is the only one.
LEMMA Alone ==
    ASSUME AloneInv, ~overlapped, NEW h \in Handlers, pc[h] # "idle", NEW m
    PROVE  /\ Coming(m) <=> Bills(h, m)
           /\ Halfway(m) <=> pc[h] = "mirror" /\ Bills(h, m)
           /\ \A k \in Handlers \ {h} : pc[k] = "idle" /\ ~Bills(k, m)
<1>1. \A k \in Handlers \ {h} : pc[k] = "idle"
  BY DEF AloneInv
<1>2. \A k \in Handlers \ {h} : ~Bills(k, m)
  BY <1>1 DEF Bills, Past
<1>. QED BY <1>1, <1>2 DEF Coming, Halfway

\* It still is after a step of its own.
LEMMA StillAlone ==
    ASSUME AloneInv, ~overlapped, NEW h \in Handlers, pc[h] # "idle", NEW m,
           \A k \in Handlers \ {h} : Same(k)
    PROVE  /\ Coming(m)' <=> Bills(h, m)'
           /\ Halfway(m)' <=> pc'[h] = "mirror" /\ Bills(h, m)'
<1>1. \A k \in Handlers \ {h} : ~Bills(k, m)'
  BY Alone, SameBills
<1>. QED BY <1>1 DEF Coming, Halfway

\* The id of a report is one that was accepted.
LEMMA EventOf ==
    ASSUME ShapeInv, NEW h \in Handlers, pc[h] # "idle"
    PROVE  /\ On(h) \in Event /\ On(h).msg \in Msgs
           /\ On(h).n \in Nat /\ 1 <= On(h).n /\ On(h).n <= accepts[On(h).msg]
<1>1. On(h) \in Event /\ 1 \in DOMAIN todo[h] /\ On(h) = todo[h][1]
  BY Pending DEF ShapeInv, On
<1>2. On(h).msg \in Msgs /\ On(h).n \in Nat /\ 1 <= On(h).n
  BY <1>1, BoundsAssumption DEF Event
<1>. QED BY <1>1, <1>2 DEF ShapeInv, KnownInv

LEMMA BillNat ==
    ASSUME TypeOK, NEW m \in Msgs
    PROVE  usage[m].delivered \in Nat /\ accepts[m] \in Nat /\ cm[m].id \in Nat /\ mirror[m].id \in Nat
  BY DEF TypeOK, Counters, Row

LEMMA InitOnce == Init => OnceInv
<1>. SUFFICES ASSUME Init PROVE OnceInv
  OBVIOUS
<1>1. WhyInv
  BY DEF Init, WhyInv
<1>2. ASSUME NEW m \in Msgs PROVE Bill(m) = 0
  <2>1. usage[m].delivered = 0
    BY DEF Init, NoCount
  <2>2. ~Coming(m)
    BY DEF Init, Coming, Bills, Past
  <2>. QED BY <2>1, <2>2 DEF Bill, One
<1>3. BillInv
  BY <1>2 DEF BillInv, BillFits, One
<1>. QED BY <1>1, <1>3, InitShape DEF OnceInv

LEMMA SteadyOnce == ASSUME OnceInv, ShapeInv', Steady PROVE OnceInv'
<1>1. WhyInv'
  BY DEF OnceInv, WhyInv, Steady, Same, On, Shows, Past
<1>2. ASSUME NEW m \in Msgs
      PROVE  /\ Bill(m)' = Bill(m)
             /\ Clean(m)' => Clean(m)
             /\ Halfway(m) => Halfway(m)'
  <2>1. Bill(m)' = Bill(m)
    BY SteadyBills DEF Bill, One, Steady
  <2>2. Clean(m)' => Clean(m)
    BY DEF Clean, Steady
  <2>3. Halfway(m) => Halfway(m)'
    BY SteadyBills DEF Halfway, Steady, Same, Past
  <2>. QED BY <2>1, <2>2, <2>3
<1>3. BillInv'
  <2>. SUFFICES ASSUME NEW m \in Msgs, Clean(m)'
                PROVE  BillFits(m)'
    BY DEF BillInv
  <2>1. BillFits(m)
    BY <1>2 DEF OnceInv, BillInv
  <2>2. /\ mirror' = mirror /\ seen' = seen
        /\ Shows(cm, m)' <=> Shows(cm, m)
        /\ Shows(mirror, m)' <=> Shows(mirror, m)
    BY DEF Steady, Shows
  <2>3. accepts'[m] \in {accepts[m], accepts[m] + 1} /\ accepts[m] \in Nat
    BY BillNat DEF Steady, OnceInv, ShapeInv
  <2>. QED BY <1>2, <2>1, <2>2, <2>3 DEF BillFits, One
<1>. QED BY <1>1, <1>3 DEF OnceInv

\* What happens to the bill of another message than the one a handler is at.
LEMMA OtherBill ==
    ASSUME AloneInv, ~overlapped, NEW h \in Handlers, pc[h] # "idle",
           \A k \in Handlers \ {h} : Same(k),
           NEW m, m # On(h).msg, pc'[h] \notin Past \/ On(h)' = On(h)
    PROVE  ~Coming(m) /\ ~Coming(m)' /\ ~Halfway(m) /\ ~Halfway(m)'
<1>1. ~Bills(h, m) /\ ~Bills(h, m)'
  BY DEF Bills
<1>. QED BY <1>1, Alone, StillAlone

LEMMA UpdateRowOnce == ASSUME OnceInv, ShapeInv', NEW h \in Handlers, UpdateRow(h) PROVE OnceInv'
<1>. DEFINE e == On(h)
<1>1. TypeOK /\ AloneInv
  BY DEF OnceInv, ShapeInv
<1>2. /\ pc[h] = "row" /\ e \in Event /\ e.msg \in Msgs
      /\ e.n \in Nat /\ 1 <= e.n /\ e.n <= accepts[e.msg]
      /\ UNCHANGED <<mirror, usage, accepts, raced, overlapped>>
      /\ seen' = seen \cup {<<e.msg, e.n>>}
      /\ \A k \in Handlers \ {h} : Same(k)
      /\ \A m \in Msgs : cm'[m].id = cm[m].id
      /\ \A m \in Msgs \ {e.msg} : cm'[m].status = cm[m].status
      /\ \A m \in Msgs : ~regressed'[m] => ~regressed[m] /\ (Shows(cm, m) => Shows(cm, m)')
      /\ \/ pc'[h] = "idle"
         \/ /\ pc'[h] = "mirror" /\ On(h)' = e /\ prevRow'[h] = Previous(cm, e)
            /\ cm[e.msg].id = e.n => cm'[e.msg].status = Mapped(e.status)
  <2>1. pc[h] = "row"
    BY <1>1, UpdateRowEffect
  <2>2. e \in Event /\ e.msg \in Msgs /\ e.n \in Nat /\ 1 <= e.n /\ e.n <= accepts[e.msg]
    BY <2>1, EventOf DEF OnceInv
  <2>3. pc'[h] = "idle" \/ (pc'[h] = "mirror" /\ On(h)' = e /\ prevRow'[h] = Previous(cm, e)
                             /\ (cm[e.msg].id = e.n => cm'[e.msg].status = Mapped(e.status)))
    BY <1>1, UpdateRowEffect DEF On
  <2>. QED BY <1>1, <2>1, <2>2, <2>3, UpdateRowEffect
<1>3. cm \in [Msgs -> Row] /\ (e.status = "delivered" <=> Mapped(e.status) = "delivered")
  BY <1>1, <1>2, MappedDelivered DEF TypeOK
<1>4. Previous(cm, e) = None <=> cm[e.msg].id # e.n \/ cm[e.msg].status = Mapped(e.status)
  BY <1>2, <1>3, PreviousOf DEF Moves
<1>5. WhyInv'
  <2>. SUFFICES ASSUME NEW k \in Handlers, NEW f, f = On(k)',
                       pc'[k] = "mirror", prevRow'[k] = None, f.status = "delivered",
                       ~raced'[f.msg], ~regressed'[f.msg]
                PROVE  cm'[f.msg].id # f.n \/ cm'[f.msg].status = "delivered"
    BY DEF WhyInv, Shows
  <2>1. CASE k = h
    <3>1. f = e /\ Previous(cm, e) = None
      BY <1>2, <2>1
    <3>. QED BY <1>2, <1>3, <1>4, <2>1, <3>1 DEF Shows
  <2>2. CASE k # h
    <3>1. f = On(k) /\ pc[k] = "mirror" /\ prevRow[k] = None
      BY <1>2, <2>2 DEF Same, On
    <3>2. On(k).msg \in Msgs
      BY <3>1, EventOf DEF OnceInv
    <3>3. cm'[f.msg].id = cm[f.msg].id /\ (Shows(cm, f.msg) => cm'[f.msg].status = "delivered") /\ ~regressed[f.msg]
      BY <1>2, <3>1, <3>2 DEF Shows
    <3>4. cm[f.msg].id # f.n \/ Shows(cm, f.msg)
      BY <1>2, <3>1, <3>2, <3>3 DEF OnceInv, WhyInv
    <3>. QED BY <3>3, <3>4
  <2>. QED BY <2>1, <2>2
<1>6. BillInv'
  <2>. SUFFICES ASSUME NEW m \in Msgs, Clean(m)' PROVE BillFits(m)'
    BY DEF BillInv
  <2>1. Clean(m) /\ ~overlapped /\ (Shows(cm, m) => Shows(cm, m)')
    BY <1>2 DEF Clean
  <2>2. BillFits(m)
    BY <2>1 DEF OnceInv, BillInv
  <2>3. ~Coming(m) /\ ~Halfway(m) /\ (Coming(m)' <=> Bills(h, m)') /\ (Halfway(m)' <=> Coming(m)')
    <3>1. (Coming(m)' <=> Bills(h, m)') /\ (Halfway(m)' <=> pc'[h] = "mirror" /\ Bills(h, m)')
      BY <1>1, <1>2, <2>1, StillAlone
    <3>2. Bills(h, m)' => pc'[h] = "mirror"
      BY <1>2 DEF Bills, Past
    <3>3. ~Bills(h, m)
      BY <1>2 DEF Bills, Past
    <3>. QED BY <1>1, <1>2, <2>1, <3>1, <3>2, <3>3, Alone
  <2>4. Bill(m) = usage[m].delivered /\ usage[m].delivered \in Nat /\ accepts[m] \in Nat
    BY <1>1, <2>3, BillNat DEF Bill, One
  <2>5. /\ Bill(m)' = usage[m].delivered + One(Bills(h, m)')
        /\ Shows(mirror, m)' <=> Shows(mirror, m)
    BY <1>2, <2>3 DEF Bill, One, Shows
  <2>6. CASE ~Bills(h, m)'
    <3>1. Bill(m)' = Bill(m)
      BY <2>4, <2>5, <2>6 DEF One
    <3>. QED BY <1>2, <2>1, <2>2, <2>3, <2>4, <2>5, <3>1 DEF BillFits, One
  <2>7. CASE Bills(h, m)'
    <3>1. m = e.msg /\ e.status = "delivered" /\ Previous(cm, e) # None
      BY <1>2, <2>7 DEF Bills, Past
    <3>2. ~Shows(cm, m) /\ Shows(cm, m)'
      BY <1>2, <1>3, <1>4, <2>7, <3>1 DEF Shows, Bills, Past
    <3>3. Bill(m)' = Bill(m) + 1
      BY <2>4, <2>5, <2>7 DEF One
    <3>4. Bill(m)' <= One(Shows(cm, m)') + One(Shows(mirror, m)')
      BY <2>2, <2>4, <2>5, <3>2, <3>3 DEF BillFits, One
    <3>5. ASSUME accepts[m] < 2
          PROVE  Bill(m) = 0 /\ accepts[m] = 1 /\ e.n = 1
      BY <1>2, <2>2, <2>4, <3>1, <3>2, <3>5 DEF BillFits
    <3>6. accepts[m] < 2 => <<m, 1>> \in seen'
      BY <1>2, <3>1, <3>5
    <3>. QED BY <1>2, <2>3, <2>7, <3>2, <3>3, <3>4, <3>5, <3>6 DEF BillFits, One
  <2>. QED BY <2>6, <2>7
<1>. QED BY <1>5, <1>6 DEF OnceInv

LEMMA UpdateMirrorOnce == ASSUME OnceInv, ShapeInv', NEW h \in Handlers, UpdateMirror(h) PROVE OnceInv'
<1>. DEFINE e == On(h)
<1>1. TypeOK /\ AloneInv
  BY DEF OnceInv, ShapeInv
<1>2. /\ pc[h] = "mirror" /\ e \in Event /\ e.msg \in Msgs
      /\ e.n \in Nat /\ 1 <= e.n /\ e.n <= accepts[e.msg]
      /\ UNCHANGED <<cm, usage, accepts, raced, overlapped, seen>>
      /\ \A k \in Handlers \ {h} : Same(k)
      /\ \A m \in Msgs : mirror'[m].id = mirror[m].id
      /\ \A m \in Msgs \ {e.msg} : mirror'[m].status = mirror[m].status
      /\ \A m \in Msgs : ~regressed'[m] => ~regressed[m] /\ (Shows(mirror, m) => Shows(mirror, m)')
      /\ \/ pc'[h] = "idle"
         \/ /\ pc'[h] = "count" /\ On(h)' = e
            /\ prevRow'[h] = prevRow[h] /\ prevMirror'[h] = Previous(mirror, e)
            /\ mirror[e.msg].id = e.n => mirror'[e.msg].status = Mapped(e.status)
  <2>1. pc[h] = "mirror"
    BY <1>1, UpdateMirrorEffect
  <2>2. e \in Event /\ e.msg \in Msgs /\ e.n \in Nat /\ 1 <= e.n /\ e.n <= accepts[e.msg]
    BY <2>1, EventOf DEF OnceInv
  <2>3. pc'[h] = "idle" \/ (pc'[h] = "count" /\ On(h)' = e
                             /\ prevRow'[h] = prevRow[h] /\ prevMirror'[h] = Previous(mirror, e)
                             /\ (mirror[e.msg].id = e.n => mirror'[e.msg].status = Mapped(e.status)))
    BY <1>1, UpdateMirrorEffect DEF On
  <2>. QED BY <1>1, <2>1, <2>2, <2>3, UpdateMirrorEffect
<1>3. mirror \in [Msgs -> Row] /\ (e.status = "delivered" <=> Mapped(e.status) = "delivered")
  BY <1>1, <1>2, MappedDelivered DEF TypeOK
<1>4. Previous(mirror, e) = None <=> mirror[e.msg].id # e.n \/ mirror[e.msg].status = Mapped(e.status)
  BY <1>2, <1>3, PreviousOf DEF Moves
<1>5. WhyInv'
  <2>. SUFFICES ASSUME NEW k \in Handlers, NEW f, f = On(k)',
                       pc'[k] = "mirror", prevRow'[k] = None, f.status = "delivered",
                       ~raced'[f.msg], ~regressed'[f.msg]
                PROVE  cm'[f.msg].id # f.n \/ cm'[f.msg].status = "delivered"
    BY DEF WhyInv, Shows
  <2>1. k # h
    BY <1>2
  <2>2. f = On(k) /\ pc[k] = "mirror" /\ prevRow[k] = None
    BY <1>2, <2>1 DEF Same, On
  <2>3. On(k).msg \in Msgs
    BY <2>2, EventOf DEF OnceInv
  <2>4. cm[On(k).msg].id # On(k).n \/ Shows(cm, On(k).msg)
    BY <1>2, <2>2, <2>3 DEF OnceInv, WhyInv
  <2>. QED BY <1>2, <2>2, <2>4 DEF Shows
<1>6. BillInv'
  <2>. SUFFICES ASSUME NEW m \in Msgs, Clean(m)' PROVE BillFits(m)'
    BY DEF BillInv
  <2>1. Clean(m) /\ ~overlapped /\ (Shows(mirror, m) => Shows(mirror, m)')
    BY <1>2 DEF Clean
  <2>2. BillFits(m)
    BY <2>1 DEF OnceInv, BillInv
  <2>3. /\ Coming(m) <=> Bills(h, m)
        /\ Halfway(m) <=> Bills(h, m)
        /\ Coming(m)' <=> Bills(h, m)'
        /\ ~Halfway(m)'
    BY <1>1, <1>2, <2>1, Alone, StillAlone
  <2>4. usage[m].delivered \in Nat /\ accepts[m] \in Nat /\ cm[m].id \in Nat /\ mirror[m].id \in Nat
    BY <1>1, BillNat
  <2>5. /\ Bill(m) = usage[m].delivered + One(Bills(h, m))
        /\ Bill(m)' = usage[m].delivered + One(Bills(h, m)')
        /\ Shows(cm, m)' <=> Shows(cm, m)
    BY <1>2, <2>3 DEF Bill, One, Shows
  <2>6. mirror[m].id <= cm[m].id /\ cm[m].id <= accepts[m]
    BY DEF OnceInv, ShapeInv, IdInv
  <2>7. CASE ~Bills(h, m) /\ ~Bills(h, m)'
    <3>1. Bill(m)' = Bill(m)
      BY <2>4, <2>5, <2>7 DEF One
    <3>2. Bill(m)' <= One(Shows(cm, m)') + One(Shows(mirror, m)')
      BY <2>1, <2>2, <2>4, <2>5, <3>1 DEF BillFits, One
    <3>3. mirror'[m].id = mirror[m].id
      BY <1>2
    <3>. QED BY <1>2, <2>1, <2>2, <2>3, <2>5, <2>7, <3>1, <3>2, <3>3 DEF BillFits
  <2>8. CASE Bills(h, m) /\ ~Bills(h, m)'
    <3>1. pc'[h] = "idle"
      BY <1>2, <2>8 DEF Bills, Past
    <3>2. Bill(m) = usage[m].delivered + 1 /\ Bill(m)' = usage[m].delivered
      BY <2>4, <2>5, <2>8 DEF One
    <3>3. Bill(m)' > 0 => accepts[m] >= 2
      BY <2>2, <2>4, <3>2 DEF BillFits
    <3>. QED BY <1>2, <2>1, <2>2, <2>4, <2>5, <3>2, <3>3 DEF BillFits, One
  <2>9. CASE Bills(h, m) /\ Bills(h, m)'
    <3>1. m = e.msg /\ e.status = "delivered"
      BY <2>9 DEF Bills
    <3>2. Bill(m)' = Bill(m)
      BY <2>4, <2>5, <2>9 DEF One
    <3>3. ASSUME accepts[m] < 2 PROVE Shows(mirror, m)' \/ mirror'[m].id = 0
      <4>1. e.n = 1 /\ mirror[m].id <= 1
        BY <1>2, <2>4, <2>6, <3>1, <3>3
      <4>2. CASE mirror[m].id = 1
        BY <1>2, <1>3, <2>9, <3>1, <4>1, <4>2 DEF Shows, Bills, Past
      <4>3. CASE mirror[m].id = 0
        BY <1>2, <4>3
      <4>. QED BY <2>4, <4>1, <4>2, <4>3
    <3>4. Bill(m)' <= One(Shows(cm, m)') + One(Shows(mirror, m)')
      BY <2>1, <2>2, <2>4, <2>5, <3>2 DEF BillFits, One
    <3>. QED BY <1>2, <2>2, <2>5, <3>2, <3>3, <3>4 DEF BillFits
  <2>10. CASE ~Bills(h, m) /\ Bills(h, m)'
    <3>1. m = e.msg /\ e.status = "delivered" /\ prevRow[h] = None /\ Previous(mirror, e) # None
      BY <1>2, <2>10 DEF Bills, Past
    <3>2. ~Shows(mirror, m) /\ Shows(mirror, m)' /\ mirror[m].id = e.n
      BY <1>2, <1>3, <1>4, <2>10, <3>1 DEF Shows, Bills, Past
    <3>3. Bill(m)' = Bill(m) + 1 /\ Bill(m) = usage[m].delivered
      BY <2>4, <2>5, <2>10 DEF One
    <3>4. Bill(m)' <= One(Shows(cm, m)') + One(Shows(mirror, m)')
      BY <2>2, <2>4, <2>5, <3>2, <3>3 DEF BillFits, One
    <3>5. ASSUME accepts[m] < 2
          PROVE  Bill(m) = 0 /\ accepts[m] = 1 /\ Shows(cm, m) /\ <<m, 1>> \in seen
      <4>1. e.n = 1 /\ accepts[m] = 1 /\ cm[m].id = 1
        BY <1>2, <2>4, <2>6, <3>1, <3>2, <3>5
      <4>2. Shows(cm, m)
        BY <1>2, <2>1, <3>1, <4>1 DEF OnceInv, WhyInv, Clean
      <4>3. <<m, 1>> \in seen
        BY <1>2, <3>1, <4>1 DEF OnceInv, ShapeInv, KnownInv, Past
      <4>4. Bill(m) = 0
        BY <1>2, <2>2, <2>3, <2>4, <2>10, <3>1, <3>2, <3>3, <3>5 DEF BillFits
      <4>. QED BY <4>1, <4>2, <4>3, <4>4
    <3>. QED BY <1>2, <2>4, <2>5, <3>2, <3>3, <3>4, <3>5 DEF BillFits, One
  <2>. QED BY <2>7, <2>8, <2>9, <2>10
<1>. QED BY <1>5, <1>6 DEF OnceInv

LEMMA CountOnce == ASSUME OnceInv, ShapeInv', NEW h \in Handlers, Count(h) PROVE OnceInv'
<1>1. TypeOK /\ AloneInv /\ PrevInv
  BY DEF OnceInv, ShapeInv
<1>2. /\ pc[h] = "count" /\ pc'[h] \in {"idle", "log"}
      /\ UNCHANGED <<cm, mirror, accepts, raced, overlapped, seen, regressed>>
      /\ \A k \in Handlers \ {h} : Same(k)
      /\ \A m \in Msgs : usage'[m].delivered \in {usage[m].delivered, usage[m].delivered + One(Bills(h, m))}
  BY <1>1, CountEffect
<1>3. WhyInv'
  <2>. SUFFICES ASSUME NEW k \in Handlers, NEW f, f = On(k)',
                       pc'[k] = "mirror", prevRow'[k] = None, f.status = "delivered",
                       ~raced'[f.msg], ~regressed'[f.msg]
                PROVE  cm'[f.msg].id # f.n \/ cm'[f.msg].status = "delivered"
    BY DEF WhyInv, Shows
  <2>1. k # h
    BY <1>2
  <2>2. f = On(k) /\ pc[k] = "mirror" /\ prevRow[k] = None
    BY <1>2, <2>1 DEF Same, On
  <2>3. cm[On(k).msg].id # On(k).n \/ Shows(cm, On(k).msg)
    BY <1>2, <2>2 DEF OnceInv, WhyInv
  <2>. QED BY <1>2, <2>2, <2>3 DEF Shows
<1>4. BillInv'
  <2>. SUFFICES ASSUME NEW m \in Msgs, Clean(m)' PROVE BillFits(m)'
    BY DEF BillInv
  <2>1. Clean(m) /\ ~overlapped
    BY <1>2 DEF Clean
  <2>2. BillFits(m)
    BY <2>1 DEF OnceInv, BillInv
  <2>3. /\ Coming(m) <=> Bills(h, m)
        /\ ~Halfway(m)
        /\ ~Coming(m)'
    <3>1. ~Bills(h, m)'
      BY <1>2 DEF Bills, Past
    <3>. QED BY <1>1, <1>2, <2>1, <3>1, Alone, StillAlone
  <2>4. usage[m].delivered \in Nat /\ accepts[m] \in Nat
    BY <1>1, BillNat
  <2>5. /\ Bill(m) = usage[m].delivered + One(Bills(h, m))
        /\ Bill(m)' = usage'[m].delivered
        /\ Shows(cm, m)' <=> Shows(cm, m)
        /\ Shows(mirror, m)' <=> Shows(mirror, m)
    <3>1. Bill(m)' = usage'[m].delivered + One(Coming(m)')
      BY DEF Bill, One
    <3>2. usage'[m].delivered \in Nat
      BY <1>2, <2>4 DEF One
    <3>. QED BY <1>2, <2>3, <3>1, <3>2 DEF Bill, One, Shows
  <2>6. Bill(m)' \in Nat /\ Bill(m)' \in {Bill(m), Bill(m) - 1}
    BY <1>2, <2>4, <2>5 DEF One
  <2>7. Bill(m) \in Nat
    BY <2>4, <2>5 DEF One
  <2>. QED BY <1>2, <2>2, <2>3, <2>4, <2>5, <2>6, <2>7 DEF BillFits, One
<1>. QED BY <1>3, <1>4 DEF OnceInv

LEMMA RewriteOnce ==
    ASSUME OnceInv, ShapeInv', NEW m \in Msgs, Rewrites(m)
    PROVE  OnceInv'
<1>1. TypeOK
  BY DEF OnceInv, ShapeInv
<1>2. UNCHANGED <<usage, accepts, seen, overlapped>> /\ \A k \in Handlers : Same(k)
  BY <1>1, RewriteEffect
<1>3. \A n \in Msgs : /\ ~raced'[n] => ~raced[n]
                      /\ ~regressed'[n] => ~regressed[n]
  BY <1>1, RewriteEffect
<1>4. \A n \in Msgs : /\ ~regressed'[n] => (Shows(cm, n)' <=> Shows(cm, n))
                      /\ ~regressed'[n] => (Shows(mirror, n)' <=> Shows(mirror, n))
  BY <1>1, RewriteEffect DEF Shows, Overwritten
<1>5. WhyInv'
  <2>. SUFFICES ASSUME NEW k \in Handlers, NEW n, n = On(k).msg, On(k)' = On(k),
                       pc[k] = "mirror", prevRow[k] = None, On(k).status = "delivered",
                       ~raced'[n], ~regressed'[n]
                PROVE  cm'[n].id # On(k).n \/ Shows(cm, n)'
    BY <1>2 DEF WhyInv, Same, On, Shows
  <2>1. n \in Msgs /\ <<n, On(k).n>> \in seen
    BY EventOf DEF OnceInv, ShapeInv, KnownInv, Past
  <2>2. ~raced[n] /\ ~regressed[n]
    BY <1>3, <2>1
  <2>3. cm[n].id # On(k).n \/ Shows(cm, n)
    BY <2>2 DEF OnceInv, WhyInv
  <2>4. CASE cm'[n] = cm[n]
    BY <2>3, <2>4 DEF Shows
  <2>5. CASE cm'[n] # cm[n]
    <3>1. n = m /\ Overwritten(cm, n) /\ ~Shows(cm, n)
      BY <1>1, <2>1, <2>5, RewriteEffect DEF Overwritten
    <3>2. CASE cm'[n].id = cm[n].id
      BY <2>3, <3>1, <3>2
    <3>3. CASE cm'[n].id = accepts[n] /\ <<n, accepts[n]>> \notin seen
      BY <2>1, <3>3
    <3>. QED BY <3>1, <3>2, <3>3 DEF Overwritten
  <2>. QED BY <2>4, <2>5
<1>6. BillInv'
  <2>. SUFFICES ASSUME NEW n \in Msgs, Clean(n)' PROVE BillFits(n)'
    BY DEF BillInv
  <2>1. Clean(n) /\ (Shows(cm, n)' <=> Shows(cm, n)) /\ (Shows(mirror, n)' <=> Shows(mirror, n))
    BY <1>2, <1>3, <1>4 DEF Clean
  <2>2. BillFits(n)
    BY <2>1 DEF OnceInv, BillInv
  <2>3. /\ Coming(n)' <=> Coming(n)
        /\ Halfway(n) => Halfway(n)'
    BY <1>2, SameBills DEF Coming, Halfway, Same
  <2>4. Bill(n)' = Bill(n)
    BY <1>2, <2>3 DEF Bill, One
  <2>5. ASSUME Bill(n) > 0, accepts[n] < 2 PROVE mirror'[n].id = mirror[n].id
    <3>1. <<n, accepts[n]>> \in seen
      BY <2>2, <2>5 DEF BillFits
    <3>2. ~raced'[n]
      BY DEF Clean
    <3>. QED BY <1>1, <3>1, <3>2, RewriteEffect DEF Overwritten
  <2>. QED BY <1>2, <2>1, <2>2, <2>3, <2>4, <2>5 DEF BillFits, One
<1>. QED BY <1>5, <1>6 DEF OnceInv

-----------------------------------------------------------------------------
(***************************************************************************)
(* The two tables, while requests run one at a time, none fails and the    *)
(* worker's writes are neither lost nor overtaken.  They differ about an   *)
(* acceptance only between the two updates of a report, while the worker   *)
(* is at work, and after its catch wrote to messages alone.                *)
(***************************************************************************)
Between(h, m) == pc[h] = "mirror" /\ On(h).msg = m /\ On(h).n = cm[m].id
Known(m) == <<m, cm[m].id>> \in seen
Only(s) == [t \in Late |-> IF t = s THEN 1 ELSE 0]
Settled(m) == task[m] = LogEntry \/ (task[m] = Idle /\ owed[m] = NothingOwed)

\* A report in between has been written to the row; so has what the mirror is to get.
RowFits(m) == \A h \in Handlers : Between(h, m) => cm[m].status = Mapped(On(h).status)
TaskFits(m) == task[m].at = "mirror" => Known(m) \/ cm[m].status = task[m].status
OwedFits(m) == \A s \in Late : owed[m][s] > 0 =>
    /\ task[m] = Idle /\ owed[m] = Only(s)
    /\ Known(m) \/ s = "failed_retryable" \/ cm[m].status = s
TablesFit(m) == cm[m].id = mirror[m].id /\ Settled(m) =>
    \/ mirror[m].status \in {cm[m].status, "failed_retryable"}
    \/ \E h \in Handlers : Between(h, m)
AgreeFits(m) == RowFits(m) /\ TaskFits(m) /\ OwedFits(m) /\ TablesFit(m)

Smooth(m) == ~overlapped /\ faults = 0 /\ ~crossed[m]
AgreeInv == \A m \in Msgs : Smooth(m) => AgreeFits(m)

SoundInv == ShapeInv /\ AgreeInv

\* What is late is a number of each kind.
LEMMA OwedOf ==
    ASSUME TypeOK, NEW m \in Msgs
    PROVE  /\ owed[m] \in [Late -> 0..MaxOwed]
           /\ \A s \in Late : owed[m][s] \in Nat
           /\ owed[m] = NothingOwed <=> \A s \in Late : ~(owed[m][s] > 0)
           /\ NothingOwed \in [Late -> {0}]
<1>1. owed[m] \in [Late -> 0..MaxOwed]
  BY DEF TypeOK
<1>2. \A s \in Late : owed[m][s] \in Nat
  BY <1>1, BoundsAssumption
<1>3. NothingOwed \in [Late -> {0}]
  BY DEF NothingOwed
<1>4. ASSUME \A s \in Late : ~(owed[m][s] > 0) PROVE owed[m] = NothingOwed
  <2>1. \A s \in Late : owed[m][s] = 0
    BY <1>2, <1>4
  <2>. QED BY <1>1, <2>1 DEF NothingOwed
<1>. QED BY <1>1, <1>2, <1>3, <1>4

\* The first late write, and the last one.
LEMMA OwedSteps ==
    ASSUME TypeOK, NEW m \in Msgs, NEW s \in Late
    PROVE  /\ owed[m] = NothingOwed /\ owed' = [owed EXCEPT ![m][s] = @ + 1] => owed'[m] = Only(s)
           /\ owed[m] = Only(s) /\ owed' = [owed EXCEPT ![m][s] = @ - 1] => owed'[m] = NothingOwed
           /\ Only(s) # NothingOwed
           /\ \A t \in Late : Only(s)[t] > 0 => t = s
<1>1. \A t \in Late : Only(s)[t] = IF t = s THEN 1 ELSE 0
  BY DEF Only
<1>2. \A t \in Late : NothingOwed[t] = 0
  BY DEF NothingOwed
<1>3. ASSUME owed[m] = NothingOwed, owed' = [owed EXCEPT ![m][s] = @ + 1] PROVE owed'[m] = Only(s)
  <2>1. owed'[m] = [NothingOwed EXCEPT ![s] = @ + 1]
    BY <1>3 DEF TypeOK
  <2>2. [NothingOwed EXCEPT ![s] = @ + 1] = [t \in Late |-> IF t = s THEN 1 ELSE 0]
    BY DEF NothingOwed
  <2>. QED BY <2>1, <2>2 DEF Only
<1>4. ASSUME owed[m] = Only(s), owed' = [owed EXCEPT ![m][s] = @ - 1] PROVE owed'[m] = NothingOwed
  <2>1. owed'[m] = [Only(s) EXCEPT ![s] = @ - 1]
    BY <1>4 DEF TypeOK
  <2>2. [Only(s) EXCEPT ![s] = @ - 1] = [t \in Late |-> 0]
    <3>1. DOMAIN Only(s) = Late /\ Only(s)[s] - 1 = 0
      BY <1>1 DEF Only
    <3>2. [Only(s) EXCEPT ![s] = @ - 1] = [t \in Late |-> IF t = s THEN Only(s)[s] - 1 ELSE Only(s)[t]]
      BY <3>1
    <3>. QED BY <1>1, <3>1, <3>2
  <2>. QED BY <2>1, <2>2 DEF NothingOwed
<1>5. Only(s)[s] # NothingOwed[s]
  BY <1>1, <1>2
<1>. QED BY <1>1, <1>3, <1>4, <1>5

LEMMA InitSound == Init => SoundInv
<1>. SUFFICES ASSUME Init PROVE SoundInv
  OBVIOUS
<1>1. \A s : Idle.at # "mirror" /\ (s \in Late => NothingOwed[s] = 0)
  BY Tasks DEF NothingOwed
<1>2. ASSUME NEW m \in Msgs PROVE AgreeFits(m)
  <2>1. /\ cm[m].id = mirror[m].id /\ cm[m].status = mirror[m].status
        /\ task[m] = Idle /\ owed[m] = NothingOwed /\ \A h \in Handlers : ~Between(h, m)
    BY DEF Init, Between
  <2>2. RowFits(m) /\ TaskFits(m) /\ TablesFit(m)
    BY <1>1, <2>1 DEF RowFits, TaskFits, TablesFit
  <2>3. OwedFits(m)
    BY <1>1, <2>1 DEF OwedFits
  <2>. QED BY <2>2, <2>3 DEF AgreeFits
<1>. QED BY <1>2, InitShape DEF SoundInv, AgreeInv

\* A step that leaves a message, what is late for it and the handlers alone.
LEMMA AloofFits ==
    ASSUME NEW m \in Msgs, AgreeFits(m), seen' = seen,
           cm'[m] = cm[m], mirror'[m] = mirror[m], task'[m] = task[m], owed'[m] = owed[m],
           \A h \in Handlers : /\ Between(h, m)' <=> Between(h, m)
                               /\ Between(h, m) => On(h)' = On(h)
    PROVE  AgreeFits(m)'
<1>1. RowFits(m)'
  BY DEF AgreeFits, RowFits, Mapped
<1>2. TaskFits(m)'
  BY DEF AgreeFits, TaskFits, Known
<1>3. OwedFits(m)'
  BY DEF AgreeFits, OwedFits, Known, Idle, Only, Late, At
<1>4. TablesFit(m)'
  BY DEF AgreeFits, TablesFit, Settled, Idle, LogEntry, NothingOwed, Late, At
<1>. QED BY <1>1, <1>2, <1>3, <1>4 DEF AgreeFits

LEMMA SteadySound ==
    ASSUME SoundInv, ShapeInv', Steady, UNCHANGED <<task, owed, crossed>>
    PROVE  SoundInv'
<1>. SUFFICES ASSUME NEW m \in Msgs, Smooth(m)' PROVE AgreeFits(m)'
  BY DEF SoundInv, AgreeInv
<1>1. AgreeFits(m)
  BY DEF SoundInv, AgreeInv, Smooth, Steady
<1>2. \A h \in Handlers : /\ Between(h, m)' <=> Between(h, m)
                          /\ Between(h, m) => On(h)' = On(h)
  BY DEF Steady, Same, Between, On, Past
<1>3. cm'[m] = cm[m] /\ mirror'[m] = mirror[m] /\ seen' = seen
  BY DEF Steady
<1>. QED BY <1>1, <1>2, <1>3, AloofFits

LEMMA UpdateRowSound == ASSUME SoundInv, ShapeInv', NEW h \in Handlers, UpdateRow(h) PROVE SoundInv'
<1>. DEFINE e == On(h)
<1>. SUFFICES ASSUME NEW m \in Msgs, Smooth(m)' PROVE AgreeFits(m)'
  BY DEF SoundInv, AgreeInv
<1>1. TypeOK /\ AloneInv
  BY DEF SoundInv, ShapeInv
<1>2. /\ pc[h] = "row" /\ pc'[h] = "mirror" /\ faults' = faults
      /\ UNCHANGED <<mirror, task, owed, crossed, overlapped>>
      /\ seen' = seen \cup {<<e.msg, e.n>>}
      /\ \A k \in Handlers \ {h} : Same(k)
      /\ cm'[m].id = cm[m].id
      /\ ~(m = e.msg /\ e.n = cm[m].id) => cm'[m].status = cm[m].status
      /\ m = e.msg /\ e.n = cm[m].id => cm'[m].status = Mapped(e.status)
      /\ On(h)' = e
  BY <1>1, UpdateRowEffect DEF Smooth, On
<1>3. ~overlapped /\ faults = 0 /\ ~crossed[m]
  BY <1>2 DEF Smooth
<1>4. AgreeFits(m)
  BY <1>3 DEF SoundInv, AgreeInv, Smooth
<1>5. \A k \in Handlers \ {h} : pc[k] = "idle" /\ pc'[k] = "idle"
  BY <1>1, <1>2, <1>3, Alone DEF Same
<1>6. \A k \in Handlers : ~Between(k, m)
  BY <1>2, <1>5 DEF Between
<1>7. \A k \in Handlers : Between(k, m)' <=> k = h /\ m = e.msg /\ e.n = cm[m].id
  BY <1>2, <1>5 DEF Between
<1>8. RowFits(m)'
  BY <1>2, <1>7 DEF RowFits, Mapped
<1>9. Known(m)' \/ cm'[m].status = cm[m].status
  BY <1>2 DEF Known
<1>10. Known(m) => Known(m)'
  BY <1>2 DEF Known
<1>11. TaskFits(m)'
  BY <1>2, <1>4, <1>9, <1>10 DEF AgreeFits, TaskFits
<1>12. OwedFits(m)'
  BY <1>2, <1>4, <1>9, <1>10 DEF AgreeFits, OwedFits, Idle, Only, Late, At
<1>13. Settled(m)' <=> Settled(m)
  BY <1>2 DEF Settled, Idle, LogEntry, NothingOwed, Late, At
<1>14. TablesFit(m)'
  BY <1>2, <1>4, <1>6, <1>7, <1>13 DEF AgreeFits, TablesFit
<1>. QED BY <1>8, <1>11, <1>12, <1>14 DEF AgreeFits

LEMMA UpdateMirrorSound == ASSUME SoundInv, ShapeInv', NEW h \in Handlers, UpdateMirror(h) PROVE SoundInv'
<1>. DEFINE e == On(h)
<1>. SUFFICES ASSUME NEW m \in Msgs, Smooth(m)' PROVE AgreeFits(m)'
  BY DEF SoundInv, AgreeInv
<1>1. TypeOK /\ AloneInv
  BY DEF SoundInv, ShapeInv
<1>2. /\ pc[h] = "mirror" /\ pc'[h] = "count" /\ faults' = faults
      /\ UNCHANGED <<cm, task, owed, crossed, overlapped, seen>>
      /\ \A k \in Handlers \ {h} : Same(k)
      /\ mirror'[m].id = mirror[m].id
      /\ ~(m = e.msg /\ e.n = mirror[m].id) => mirror'[m].status = mirror[m].status
      /\ m = e.msg /\ e.n = mirror[m].id => mirror'[m].status = Mapped(e.status)
  BY <1>1, UpdateMirrorEffect DEF Smooth
<1>3. ~overlapped /\ faults = 0 /\ ~crossed[m]
  BY <1>2 DEF Smooth
<1>4. AgreeFits(m)
  BY <1>3 DEF SoundInv, AgreeInv, Smooth
<1>5. \A k \in Handlers \ {h} : pc[k] = "idle" /\ pc'[k] = "idle"
  BY <1>1, <1>2, <1>3, Alone DEF Same
<1>6. \A k \in Handlers : Between(k, m) <=> k = h /\ m = e.msg /\ e.n = cm[m].id
  BY <1>2, <1>5 DEF Between
<1>7. \A k \in Handlers : ~Between(k, m)'
  BY <1>2, <1>5 DEF Between
<1>8. RowFits(m)'
  BY <1>7 DEF RowFits
<1>9. TaskFits(m)'
  BY <1>2, <1>4 DEF AgreeFits, TaskFits, Known
<1>10. OwedFits(m)'
  BY <1>2, <1>4 DEF AgreeFits, OwedFits, Known, Idle, Only, Late, At
<1>11. Settled(m)' <=> Settled(m)
  BY <1>2 DEF Settled, Idle, LogEntry, NothingOwed, Late, At
<1>12. TablesFit(m)'
  BY <1>2, <1>4, <1>6, <1>11 DEF AgreeFits, TablesFit, RowFits
<1>. QED BY <1>8, <1>9, <1>10, <1>12 DEF AgreeFits

LEMMA CountSound == ASSUME SoundInv, ShapeInv', NEW h \in Handlers, Count(h) PROVE SoundInv'
<1>. SUFFICES ASSUME NEW m \in Msgs, Smooth(m)' PROVE AgreeFits(m)'
  BY DEF SoundInv, AgreeInv
<1>1. TypeOK /\ PrevInv
  BY DEF SoundInv, ShapeInv
<1>2. /\ pc[h] = "count" /\ pc'[h] = "log" /\ faults' = faults
      /\ UNCHANGED <<cm, mirror, task, owed, crossed, overlapped, seen>>
      /\ \A k \in Handlers \ {h} : Same(k)
  BY <1>1, CountEffect DEF Smooth
<1>3. AgreeFits(m)
  BY <1>2 DEF SoundInv, AgreeInv, Smooth
<1>4. \A k \in Handlers : /\ Between(k, m)' <=> Between(k, m)
                          /\ Between(k, m) => On(k)' = On(k)
  BY <1>2 DEF Between, Same, On
<1>. QED BY <1>2, <1>3, <1>4, AloofFits

\* The worker's own steps: they leave the handlers and what they know alone.
LEMMA WorkerSound ==
    ASSUME SoundInv, ShapeInv', NEW m \in Msgs, UNCHANGED <<seen, faults, overlapped>>,
           \A k \in Handlers : Same(k),
           \A n \in Msgs \ {m} : /\ cm'[n] = cm[n] /\ mirror'[n] = mirror[n] /\ task'[n] = task[n]
                                 /\ owed'[n] = owed[n] /\ crossed'[n] = crossed[n],
           ~crossed'[m] => ~crossed[m],
           ~crossed'[m] /\ AgreeFits(m) => AgreeFits(m)'
    PROVE  SoundInv'
<1>. SUFFICES ASSUME NEW n \in Msgs, Smooth(n)' PROVE AgreeFits(n)'
  BY DEF SoundInv, AgreeInv
<1>1. AgreeFits(n) /\ ~crossed'[n]
  BY DEF SoundInv, AgreeInv, Smooth
<1>2. CASE n = m
  BY <1>1, <1>2
<1>3. CASE n # m
  <2>1. \A k \in Handlers : /\ Between(k, n)' <=> Between(k, n)
                            /\ On(k)' = On(k)
    BY <1>3 DEF Between, Same, On
  <2>2. /\ cm'[n] = cm[n] /\ mirror'[n] = mirror[n] /\ task'[n] = task[n] /\ owed'[n] = owed[n]
        /\ seen' = seen
    BY <1>3
  <2>. QED BY <1>1, <2>1, <2>2, AloofFits
<1>. QED BY <1>2, <1>3

\* A report in between knows the id of the row.
LEMMA BetweenKnown ==
    ASSUME ShapeInv, NEW m \in Msgs, ~Known(m)
    PROVE  \A h \in Handlers : ~Between(h, m)
  BY DEF ShapeInv, KnownInv, Between, Known, Past

\* While the worker is at an attempt, nothing is late, as long as no write overtook another.
LEMMA BusyOwesNothing ==
    ASSUME TypeOK, NEW m \in Msgs, AgreeFits(m), task[m] # Idle
    PROVE  owed[m] = NothingOwed
  BY OwedOf DEF AgreeFits, OwedFits

LEMMA PauseSound == ASSUME SoundInv, ShapeInv', NEW m \in Msgs, Pauses(m) PROVE SoundInv'
<1>1. TypeOK /\ DOMAIN task = Msgs /\ DOMAIN owed = Msgs /\ DOMAIN crossed = Msgs
  BY DEF SoundInv, ShapeInv, TypeOK
<1>2. UNCHANGED <<cm, mirror, request, faults, seen, overlapped>>
  BY <1>1, PauseEffect
<1>3. \A k \in Handlers : Same(k) /\ (Between(k, m)' <=> Between(k, m)) /\ On(k)' = On(k)
  BY <1>2 DEF Same, request, Between, On
\* What is left to be shown of a pause, when the task is not that of the mirror.
<1>4. ASSUME AgreeFits(m), task'[m].at # "mirror", OwedFits(m)', Settled(m)' => TablesFit(m)'
      PROVE  AgreeFits(m)'
  <2>1. RowFits(m)'
    BY <1>2, <1>3, <1>4 DEF AgreeFits, RowFits, Mapped
  <2>2. TaskFits(m)'
    BY <1>4 DEF TaskFits
  <2>3. TablesFit(m)'
    BY <1>4 DEF TablesFit
  <2>. QED BY <1>4, <2>1, <2>2, <2>3 DEF AgreeFits
<1>5. ASSUME Accept(m) \/ Refuse(m) \/ Limit(m) \/ Throw(m) PROVE SoundInv'
  <2>1. /\ task'[m].at \in {"row", "catch"} /\ owed' = owed
        /\ \A n \in Msgs \ {m} : task'[n] = task[n]
    <3>1. \E t \in {Catch, At("row", "accepted_meta"), At("row", "failed_retryable"), At("row", "rate_limited")} :
             task' = [task EXCEPT ![m] = t]
      BY <1>5 DEF Accept, Refuse, Limit, Throw
    <3>2. owed' = owed
      BY <1>5 DEF Accept, Refuse, Limit, Throw
    <3>. QED BY <1>1, <3>1, <3>2, Tasks DEF Attempted
  <2>2. /\ ~crossed'[m] => ~crossed[m] /\ owed[m] = NothingOwed
        /\ \A n \in Msgs \ {m} : crossed'[n] = crossed[n]
    <3>. DEFINE late == owed[m] # NothingOwed
    <3>1. crossed' = [crossed EXCEPT ![m] = @ \/ late]
      BY <1>5, Zenon DEF Accept, Refuse, Limit, Throw, Begun
    <3>2. crossed \in [Msgs -> BOOLEAN]
      BY <1>1 DEF TypeOK
    <3>. HIDE DEF late
    <3>3. (crossed'[m] <=> crossed[m] \/ late) /\ \A n \in Msgs \ {m} : crossed'[n] = crossed[n]
      BY <3>1, <3>2, OrOf
    <3>. QED BY <3>3 DEF late
  <2>3. ASSUME ~crossed'[m], AgreeFits(m) PROVE AgreeFits(m)'
    <3>1. \A s \in Late : ~(owed'[m][s] > 0)
      BY <1>1, <2>1, <2>2, <2>3, OwedOf
    <3>2. OwedFits(m)'
      BY <3>1 DEF OwedFits, Late
    <3>3. ~Settled(m)'
      BY <2>1, Tasks DEF Settled, Idle, LogEntry, At
    <3>. QED BY <1>4, <2>1, <2>3, <3>2, <3>3
  <2>. QED BY <1>2, <1>3, <2>1, <2>2, <2>3, WorkerSound
<1>6. ASSUME RecordLog(m) PROVE SoundInv'
  <2>1. /\ task[m] = LogEntry /\ task'[m] = Idle /\ UNCHANGED <<owed, crossed>>
        /\ \A n \in Msgs \ {m} : task'[n] = task[n]
    BY <1>1, <1>6 DEF RecordLog, history
  <2>2. ASSUME AgreeFits(m) PROVE AgreeFits(m)'
    <3>1. \A s \in Late : ~(owed'[m][s] > 0)
      BY <1>1, <2>1, <2>2, BusyOwesNothing, OwedOf, Tasks
    <3>2. OwedFits(m)'
      BY <3>1 DEF OwedFits, Late
    <3>3. TablesFit(m)'
      BY <1>2, <1>3, <2>1, <2>2 DEF AgreeFits, TablesFit, Settled
    <3>. QED BY <1>4, <2>1, <2>2, <3>2, <3>3, Tasks
  <2>. QED BY <1>2, <1>3, <2>1, <2>2, WorkerSound
<1>7. ASSUME Fails(m) PROVE SoundInv'
  <2>1. /\ task[m] # Idle /\ task'[m] = Catch /\ UNCHANGED <<owed, crossed>>
        /\ \A n \in Msgs \ {m} : task'[n] = task[n]
    <3>1. task[m] # Idle
      BY <1>7, Tasks DEF Fails, Idle, LogEntry, At, None
    <3>. QED BY <1>1, <1>7, <3>1 DEF Fails, history
  <2>2. ASSUME AgreeFits(m) PROVE AgreeFits(m)'
    <3>1. \A s \in Late : ~(owed'[m][s] > 0)
      BY <1>1, <2>1, <2>2, BusyOwesNothing, OwedOf
    <3>2. OwedFits(m)'
      BY <3>1 DEF OwedFits, Late
    <3>3. ~Settled(m)'
      BY <2>1, Tasks DEF Settled, Idle, LogEntry, Catch, At
    <3>. QED BY <1>4, <2>1, <2>2, <3>2, <3>3, Tasks
  <2>. QED BY <1>2, <1>3, <2>1, <2>2, WorkerSound
<1>8. ASSUME Retry(m) PROVE SoundInv'
  <2>1. /\ task[m] = Catch /\ task[m] # Idle /\ crossed' = crossed
        /\ \/ task'[m] = Idle /\ owed' = [owed EXCEPT ![m]["failed_retryable"] = @ + 1]
           \/ task'[m] = At("row", "failed_permanent") /\ owed' = owed
        /\ \A n \in Msgs \ {m} : task'[n] = task[n] /\ owed'[n] = owed[n]
    BY <1>1, <1>8, Tasks DEF Retry, history
  <2>2. ASSUME AgreeFits(m) PROVE AgreeFits(m)'
    <3>1. owed[m] = NothingOwed
      BY <1>1, <2>1, <2>2, BusyOwesNothing
    <3>2. CASE task'[m] = Idle /\ owed' = [owed EXCEPT ![m]["failed_retryable"] = @ + 1]
      <4>1. "failed_retryable" \in Late
        BY DEF Late
      <4>2. /\ owed'[m] = Only("failed_retryable") /\ Only("failed_retryable") # NothingOwed
            /\ \A t \in Late : Only("failed_retryable")[t] > 0 => t = "failed_retryable"
        BY <1>1, <3>1, <3>2, <4>1, OwedSteps
      <4>3. OwedFits(m)'
        BY <3>2, <4>2 DEF OwedFits, Idle, Only, Late, At
      <4>4. ~Settled(m)'
        BY <3>2, <4>2, Tasks DEF Settled, Idle, LogEntry, NothingOwed, Late, At
      <4>. QED BY <1>4, <2>2, <3>2, <4>3, <4>4, Tasks
    <3>3. CASE task'[m] = At("row", "failed_permanent") /\ owed' = owed
      <4>1. \A s \in Late : ~(owed'[m][s] > 0)
        BY <1>1, <3>1, <3>3, OwedOf
      <4>2. OwedFits(m)'
        BY <4>1 DEF OwedFits, Late
      <4>3. task'[m].at = "row"
        BY <3>3, Tasks DEF Attempted
      <4>4. ~Settled(m)'
        BY <4>3, Tasks DEF Settled, Idle, LogEntry, At
      <4>. QED BY <1>4, <2>2, <4>2, <4>3, <4>4
    <3>. QED BY <2>1, <3>2, <3>3
  <2>. QED BY <1>2, <1>3, <2>1, <2>2, WorkerSound
<1>9. ASSUME Abandon(m) PROVE SoundInv'
  <2>1. /\ crossed'[m]
        /\ \A n \in Msgs \ {m} : task'[n] = task[n] /\ owed'[n] = owed[n] /\ crossed'[n] = crossed[n]
    <3>1. crossed' = [crossed EXCEPT ![m] = TRUE]
      BY <1>9 DEF Abandon
    <3>2. task' = task \/ task' = [task EXCEPT ![m] = Idle]
      BY <1>9 DEF Abandon
    <3>3. owed' = owed \/ \E s \in Late : owed' = [owed EXCEPT ![m][s] = @ - 1]
      BY <1>9 DEF Abandon
    <3>. QED BY <1>1, <3>1, <3>2, <3>3
  <2>. QED BY <1>2, <1>3, <2>1, WorkerSound
<1>. QED BY <1>5, <1>6, <1>7, <1>8, <1>9 DEF Pauses

LEMMA RewriteSound == ASSUME SoundInv, ShapeInv', NEW m \in Msgs, Rewrites(m) PROVE SoundInv'
<1>1. TypeOK /\ ShapeInv /\ DOMAIN owed = Msgs
  BY DEF SoundInv, ShapeInv, TypeOK
<1>2. cm[m] \in Row /\ mirror[m] \in Row
  BY <1>1 DEF TypeOK
<1>3. CASE RecordRow(m)
  <2>1. PICK status \in Attempted, new \in Row :
              /\ task[m].at = "row" /\ task[m].status = status
              /\ new = Written(cm[m], m, status) /\ Note(m, cm[m], new)
              /\ cm'[m] = new /\ \A n \in Msgs \ {m} : cm'[n] = cm[n]
              /\ \/ /\ status # "rate_limited" /\ task'[m] = At("mirror", status) /\ owed' = owed
                 \/ /\ status = "rate_limited" /\ task'[m] = Idle
                    /\ owed' = [owed EXCEPT ![m]["rate_limited"] = @ + 1]
              /\ \A n \in Msgs \ {m} : task'[n] = task[n]
              /\ UNCHANGED <<mirror, usage, accepts, request>>
    BY <1>1, <1>3, RecordRowEffect
  <2>2. WriteOf(m, status, cm[m], new)
    BY <1>1, <2>1, WriteEffect
  <2>3. /\ UNCHANGED <<seen, faults, overlapped>> /\ \A k \in Handlers : Same(k)
        /\ \A n \in Msgs \ {m} : crossed'[n] = crossed[n] /\ owed'[n] = owed[n]
        /\ new.status = status /\ (~crossed'[m] => ~crossed[m] /\ <<m, new.id>> \notin seen)
    BY <1>1, <2>1, <2>2 DEF WriteOf, Same, request
  <2>4. ASSUME ~crossed'[m], AgreeFits(m) PROVE AgreeFits(m)'
    <3>1. ~Known(m)' /\ cm'[m].status = status
      BY <2>1, <2>3, <2>4 DEF Known
    <3>2. \A k \in Handlers : ~Between(k, m)'
      BY <3>1 DEF ShapeInv, KnownInv, Between, Known, Past
    <3>3. RowFits(m)'
      BY <3>2 DEF RowFits
    <3>4. owed[m] = NothingOwed
      BY <1>1, <2>1, <2>4, BusyOwesNothing, Tasks
    <3>5. CASE status # "rate_limited" /\ task'[m] = At("mirror", status) /\ owed' = owed
      <4>1. task'[m].at = "mirror" /\ task'[m].status = status
        BY <3>5, Tasks
      <4>2. TaskFits(m)'
        BY <3>1, <4>1 DEF TaskFits
      <4>3. \A s \in Late : ~(owed'[m][s] > 0)
        BY <1>1, <3>4, <3>5, OwedOf
      <4>4. OwedFits(m)'
        BY <4>3 DEF OwedFits, Late
      <4>5. ~Settled(m)'
        BY <4>1, Tasks DEF Settled, Idle, LogEntry, At
      <4>6. TablesFit(m)'
        BY <4>5 DEF TablesFit
      <4>. QED BY <3>3, <4>2, <4>4, <4>6 DEF AgreeFits
    <3>6. CASE status = "rate_limited" /\ task'[m] = Idle /\ owed' = [owed EXCEPT ![m]["rate_limited"] = @ + 1]
      <4>1. "rate_limited" \in Late
        BY DEF Late
      <4>2. /\ owed'[m] = Only("rate_limited") /\ Only("rate_limited") # NothingOwed
            /\ \A t \in Late : Only("rate_limited")[t] > 0 => t = "rate_limited"
        BY <1>1, <3>4, <3>6, <4>1, OwedSteps
      <4>3. TaskFits(m)'
        BY <3>6, Tasks DEF TaskFits
      <4>4. OwedFits(m)'
        BY <3>1, <3>6, <4>2 DEF OwedFits, Idle, Only, Late, At
      <4>5. ~Settled(m)'
        BY <3>6, <4>2, Tasks DEF Settled, Idle, LogEntry, NothingOwed, Late, At
      <4>6. TablesFit(m)'
        BY <4>5 DEF TablesFit
      <4>. QED BY <3>3, <4>3, <4>4, <4>6 DEF AgreeFits
    <3>. QED BY <2>1, <3>5, <3>6
  <2>. QED BY <2>1, <2>3, <2>4, WorkerSound
<1>4. CASE RecordMirror(m)
  <2>1. PICK status \in Attempted, new \in Row :
              /\ task[m].at = "mirror" /\ task[m].status = status
              /\ new = Written(mirror[m], m, status) /\ Note(m, mirror[m], new)
              /\ mirror'[m] = new /\ \A n \in Msgs \ {m} : mirror'[n] = mirror[n]
              /\ task'[m] \in {LogEntry, Catch, Idle}
              /\ \A n \in Msgs \ {m} : task'[n] = task[n]
              /\ UNCHANGED <<cm, usage, accepts, owed, request>>
    BY <1>1, <1>4, RecordMirrorEffect
  <2>2. WriteOf(m, status, mirror[m], new)
    BY <1>1, <2>1, WriteEffect
  <2>3. /\ UNCHANGED <<seen, faults, overlapped>> /\ \A k \in Handlers : Same(k)
        /\ \A n \in Msgs \ {m} : crossed'[n] = crossed[n]
        /\ new.status = status /\ (~crossed'[m] => ~crossed[m] /\ <<m, new.id>> \notin seen)
    BY <2>1, <2>2 DEF WriteOf, Same, request
  <2>4. ASSUME ~crossed'[m], AgreeFits(m) PROVE AgreeFits(m)'
    <3>1. \A k \in Handlers : (Between(k, m)' <=> Between(k, m)) /\ On(k)' = On(k)
      BY <2>1, <2>3 DEF Between, Same, On
    <3>2. RowFits(m)'
      BY <2>1, <2>4, <3>1 DEF AgreeFits, RowFits, Mapped
    <3>3. task'[m].at # "mirror"
      BY <2>1, Tasks
    <3>4. TaskFits(m)'
      BY <3>3 DEF TaskFits
    <3>5. \A s \in Late : ~(owed'[m][s] > 0)
      BY <1>1, <2>1, <2>4, BusyOwesNothing, OwedOf, Tasks
    <3>6. OwedFits(m)'
      BY <3>5 DEF OwedFits, Late
    <3>7. ASSUME cm'[m].id = mirror'[m].id PROVE mirror'[m].status = cm'[m].status
      <4>1. ~Known(m)
        BY <2>1, <2>3, <2>4, <3>7 DEF Known
      <4>. QED BY <2>1, <2>3, <2>4, <4>1 DEF AgreeFits, TaskFits
    <3>8. TablesFit(m)'
      BY <3>7 DEF TablesFit
    <3>. QED BY <3>2, <3>4, <3>6, <3>8 DEF AgreeFits
  <2>. QED BY <2>1, <2>3, <2>4, WorkerSound
<1>5. CASE Relaunch(m)
  <2>1. /\ cm'[m].status = "queued" /\ cm'[m].id = cm[m].id /\ \A n \in Msgs \ {m} : cm'[n] = cm[n]
        /\ owed' = [owed EXCEPT ![m]["queued"] = @ + 1]
        /\ ~crossed'[m] => ~crossed[m] /\ task[m] = Idle /\ owed[m] = NothingOwed /\ ~Known(m)
        /\ \A n \in Msgs \ {m} : crossed'[n] = crossed[n] /\ owed'[n] = owed[n]
        /\ UNCHANGED <<mirror, task, seen, faults, overlapped, request>>
    <3>1. /\ cm'[m] = [cm[m] EXCEPT !.status = "queued"] /\ \A n \in Msgs \ {m} : cm'[n] = cm[n]
          /\ owed' = [owed EXCEPT ![m]["queued"] = @ + 1]
          /\ ~crossed'[m] => /\ ~crossed[m] /\ task[m] = Idle /\ owed[m] = NothingOwed
                             /\ <<m, cm[m].id>> \notin seen
          /\ \A n \in Msgs \ {m} : crossed'[n] = crossed[n]
          /\ UNCHANGED <<mirror, task, seen, faults, overlapped, request>>
      BY <1>1, <1>5, RelaunchEffect
    <3>2. cm[m] \in Row
      BY <1>1 DEF TypeOK
    <3>3. cm'[m].status = "queued" /\ cm'[m].id = cm[m].id
      BY <3>1, <3>2 DEF Row
    <3>4. ~crossed'[m] => ~Known(m)
      BY <3>1 DEF Known
    <3>5. \A n \in Msgs \ {m} : owed'[n] = owed[n]
      BY <3>1
    <3>. QED BY <3>1, <3>3, <3>4, <3>5
  <2>2. \A k \in Handlers : Same(k)
    BY <2>1 DEF Same, request
  <2>3. ASSUME ~crossed'[m], AgreeFits(m) PROVE AgreeFits(m)'
    <3>1. \A k \in Handlers : ~Between(k, m)
      BY <1>1, <2>1, <2>3, BetweenKnown
    <3>2. \A k \in Handlers : ~Between(k, m)'
      BY <2>1, <2>2, <3>1 DEF Between, Same, On
    <3>3. RowFits(m)'
      BY <3>2 DEF RowFits
    <3>4. TaskFits(m)'
      BY <2>1, <2>3, Tasks DEF TaskFits
    <3>5. "queued" \in Late
      BY DEF Late
    <3>6. /\ owed'[m] = Only("queued") /\ Only("queued") # NothingOwed
          /\ \A t \in Late : Only("queued")[t] > 0 => t = "queued"
      BY <1>1, <2>1, <2>3, <3>5, OwedSteps
    <3>7. OwedFits(m)'
      BY <2>1, <2>3, <3>6 DEF OwedFits, Idle, Only, Late, At
    <3>8. ~Settled(m)'
      BY <2>1, <2>3, <3>6, Tasks DEF Settled, Idle, LogEntry, NothingOwed, Late, At
    <3>9. TablesFit(m)'
      BY <3>8 DEF TablesFit
    <3>. QED BY <3>3, <3>4, <3>7, <3>9 DEF AgreeFits
  <2>. QED BY <2>1, <2>2, <2>3, WorkerSound
<1>6. CASE \E status \in Late : RecordLate(m, status)
  <2>1. PICK status \in Late : RecordLate(m, status)
    BY <1>6
  <2>2. PICK new :
              /\ new = Written(mirror[m], m, status) /\ Note(m, mirror[m], new)
              /\ mirror'[m] = new /\ \A n \in Msgs \ {m} : mirror'[n] = mirror[n]
              /\ owed[m][status] > 0 /\ owed' = [owed EXCEPT ![m][status] = @ - 1]
              /\ UNCHANGED <<cm, usage, accepts, task, request>>
    BY <1>1, <2>1, RecordLateEffect
  <2>3. WriteOf(m, status, mirror[m], new)
    BY <1>1, <2>2, WriteEffect
  <2>4. /\ UNCHANGED <<seen, faults, overlapped>> /\ \A k \in Handlers : Same(k)
        /\ \A n \in Msgs \ {m} : crossed'[n] = crossed[n] /\ owed'[n] = owed[n]
        /\ new.status = status /\ (~crossed'[m] => ~crossed[m] /\ <<m, new.id>> \notin seen)
    BY <1>1, <2>2, <2>3 DEF WriteOf, Same, request
  <2>5. ASSUME ~crossed'[m], AgreeFits(m) PROVE AgreeFits(m)'
    <3>1. \A k \in Handlers : (Between(k, m)' <=> Between(k, m)) /\ On(k)' = On(k)
      BY <2>2, <2>4 DEF Between, Same, On
    <3>2. RowFits(m)'
      BY <2>2, <2>5, <3>1 DEF AgreeFits, RowFits, Mapped
    <3>3. /\ task[m] = Idle /\ owed[m] = Only(status)
          /\ Known(m) \/ status = "failed_retryable" \/ cm[m].status = status
      BY <2>2, <2>5 DEF AgreeFits, OwedFits
    <3>4. TaskFits(m)'
      BY <2>2, <3>3, Tasks DEF TaskFits
    <3>5. owed'[m] = NothingOwed
      BY <1>1, <2>2, <3>3, OwedSteps
    <3>6. \A s \in Late : ~(owed'[m][s] > 0)
      BY <3>5 DEF NothingOwed
    <3>7. OwedFits(m)'
      BY <3>6 DEF OwedFits, Late
    <3>8. ASSUME cm'[m].id = mirror'[m].id PROVE mirror'[m].status \in {cm'[m].status, "failed_retryable"}
      <4>1. ~Known(m)
        BY <2>2, <2>4, <2>5, <3>8 DEF Known
      <4>. QED BY <2>2, <2>4, <3>3, <4>1
    <3>9. TablesFit(m)'
      BY <3>8 DEF TablesFit
    <3>. QED BY <3>2, <3>4, <3>7, <3>9 DEF AgreeFits
  <2>. QED BY <2>2, <2>4, <2>5, WorkerSound
<1>. QED BY <1>3, <1>4, <1>5, <1>6 DEF Rewrites

-----------------------------------------------------------------------------
\* The invariants about bills and tables are inductive together.
BillingInv == PaidInv /\ OnceInv /\ SoundInv

LEMMA BillingInductive == ASSUME BillingInv, [Next]_vars PROVE BillingInv'
<1>1. TypeOK /\ ShapeInv
  BY DEF BillingInv, PaidInv, ShapeInv
<1>2. ASSUME Steady, ShapeInv', SoundInv' PROVE BillingInv'
  BY <1>2, SteadyPaid, SteadyOnce DEF BillingInv
<1>3. ASSUME NEW h \in Handlers, Store(h) \/ Log(h) \/ \E p \in Request : Receive(h, p) PROVE BillingInv'
  <2>1. Steady /\ ShapeInv'
    BY <1>1, <1>3, SteadySteps, StoreShape, LogShape, ReceiveShape
  <2>2. UNCHANGED <<task, owed, crossed>>
    BY <1>3 DEF Store, Log, Receive, worker
  <2>. QED BY <1>2, <2>1, <2>2, SteadySound DEF BillingInv
<1>4. ASSUME NEW h \in Handlers, UpdateRow(h) PROVE BillingInv'
  BY <1>1, <1>4, UpdateRowShape, UpdateRowPaid, UpdateRowOnce, UpdateRowSound DEF BillingInv
<1>5. ASSUME NEW h \in Handlers, UpdateMirror(h) PROVE BillingInv'
  BY <1>1, <1>5, UpdateMirrorShape, UpdateMirrorPaid, UpdateMirrorOnce, UpdateMirrorSound DEF BillingInv
<1>6. ASSUME NEW h \in Handlers, Count(h) PROVE BillingInv'
  BY <1>1, <1>6, CountShape, CountPaid, CountOnce, CountSound DEF BillingInv
<1>7. ASSUME NEW m \in Msgs, Rewrites(m) PROVE BillingInv'
  BY <1>1, <1>7, RewriteShape, RewritePaid, RewriteOnce, RewriteSound DEF BillingInv
<1>8. ASSUME NEW m \in Msgs, Pauses(m) PROVE BillingInv'
  <2>1. Steady /\ ShapeInv'
    BY <1>1, <1>8, SteadySteps, PauseShape
  <2>. QED BY <1>2, <1>8, <2>1, PauseSound DEF BillingInv
<1>9. ASSUME UNCHANGED vars PROVE BillingInv'
  <2>1. Steady /\ ShapeInv'
    BY <1>1, <1>9, SteadySteps, PauseShape
  <2>2. UNCHANGED <<task, owed, crossed>>
    BY <1>9 DEF vars, worker, history
  <2>. QED BY <1>2, <2>1, <2>2, SteadySound DEF BillingInv
<1>. QED BY <1>3, <1>4, <1>5, <1>6, <1>7, <1>8, <1>9 DEF Next, Pauses, Rewrites

LEMMA BillingInvHolds == Spec => []BillingInv
<1>1. Init => BillingInv
  BY InitPaid, InitOnce, InitSound DEF BillingInv
<1>2. BillingInv /\ [Next]_vars => BillingInv'
  BY BillingInductive
<1>. QED BY <1>1, <1>2, PTL DEF Spec

\* Nothing is about to be billed when no handler is at work.
LEMMA QuietBills == ASSUME Quiet, NEW m PROVE ~Coming(m)
  BY DEF Quiet, Coming, Bills, Past

(***************************************************************************)
(* No delivery of a message accepted once and recorded before the report   *)
(* is left unbilled when the handlers are done and none of them failed,    *)
(* for any number of handlers over the two tables.                         *)
(***************************************************************************)
THEOREM NoMissedBillingHolds == Spec => []NoMissedBilling
<1>1. BillingInv => NoMissedBilling
  BY QuietBills DEF BillingInv, PaidInv, MissInv, NoMissedBilling
<1>. QED BY <1>1, BillingInvHolds, PTL

(***************************************************************************)
(* What a campaign shows delivered is billed once the handlers are done    *)
(* and none of them failed, for any number of messages and handlers.       *)
(***************************************************************************)
THEOREM ShownIsBilledHolds == Spec => []ShownIsBilled
<1>1. ASSUME BillingInv, Quiet, faults = 0
      PROVE  GetMetrics.delivered <= Cardinality({m \in Msgs : usage[m].delivered > 0})
  <2>. DEFINE billed == {m \in Msgs : usage[m].delivered > 0}
              shown(table) == {m \in Msgs : table[m].status \in {"delivered"}}
  <2>1. shown(mirror) \subseteq billed /\ shown(cm) \subseteq billed
    BY <1>1, QuietBills DEF BillingInv, PaidInv, ShownInv, Shows
  <2>2. IsFiniteSet(billed)
    BY MsgsAssumption, FS_Subset
  <2>3. GetMetrics.delivered \in {Cardinality(shown(mirror)), Cardinality(shown(cm))}
    BY DEF GetMetrics, MetricsOf, Having
  <2>. HIDE DEF billed, shown
  <2>4. Cardinality(shown(mirror)) <= Cardinality(billed) /\ Cardinality(shown(cm)) <= Cardinality(billed)
    BY <2>1, <2>2, FS_Subset
  <2>5. GetMetrics.delivered <= Cardinality(billed)
    BY <2>3, <2>4
  <2>. QED BY <2>5 DEF billed
<1>2. BillingInv => ShownIsBilled
  BY <1>1 DEF ShownIsBilled
<1>. QED BY <1>2, BillingInvHolds, PTL

(***************************************************************************)
(* An accepted message is billed at most once when requests run one at a   *)
(* time, no status moves a row out of delivered and the worker is not      *)
(* late: whatever requests fail, and whatever the worker refuses, repeats, *)
(* gives up, resets or leaves undone.                                      *)
(***************************************************************************)
THEOREM BilledOnceWhenCleanHolds == Spec => []BilledOnceWhenClean
<1>1. ASSUME BillingInv, NEW m \in Msgs, Clean(m) PROVE BilledOnce(m)
  <2>1. BillFits(m)
    BY <1>1 DEF BillingInv, OnceInv, BillInv
  <2>2. usage[m].delivered \in Nat /\ accepts[m] \in Nat
    BY <1>1, BillNat DEF BillingInv, OnceInv, ShapeInv
  <2>3. usage[m].delivered <= Bill(m) /\ Bill(m) \in Nat /\ Bill(m) <= 2
    BY <2>1, <2>2 DEF BillFits, Bill, One
  <2>4. Bill(m) <= accepts[m]
    BY <2>1, <2>2, <2>3 DEF BillFits
  <2>. QED BY <2>2, <2>3, <2>4 DEF BilledOnce
<1>2. BillingInv => BilledOnceWhenClean
  BY <1>1 DEF BilledOnceWhenClean, Clean
<1>. QED BY <1>2, BillingInvHolds, PTL

(***************************************************************************)
(* Requests that run one at a time leave the two rows of a message, when   *)
(* both hold the same id, with the same status, or messages with the       *)
(* failed_retryable the worker's catch writes to it alone, if no request   *)
(* failed and no write of the worker was lost or came after others had     *)
(* gone on: for any number of messages, attempts, launches and late        *)
(* writes.                                                                 *)
(***************************************************************************)
THEOREM TablesAgreeHolds == Spec => []TablesAgree
<1>1. ASSUME Quiet PROVE \A h \in Handlers, m \in Msgs : ~Between(h, m)
  BY <1>1 DEF Quiet, Between
<1>2. ASSUME SoundInv PROVE TablesAgree
  BY <1>1, <1>2 DEF SoundInv, AgreeInv, AgreeFits, TablesFit, Settled, Smooth, TablesAgree
<1>3. BillingInv => TablesAgree
  BY <1>2 DEF BillingInv
<1>. QED BY <1>3, BillingInvHolds, PTL
================================================================================
