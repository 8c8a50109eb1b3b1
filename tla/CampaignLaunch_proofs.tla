------------------------- MODULE CampaignLaunch_proofs --------------------------
(***************************************************************************)
(* Theorems about CampaignLaunch, for any contacts, requests, workers,     *)
(* prefetch and attempts.                                                  *)
(***************************************************************************)
EXTENDS CampaignLaunch, CountingLemmas, FiniteSetTheorems, TLAPS

(***************************************************************************)
(* A handler that may still publish a job has written the rows the job     *)
(* needs, and so have those whose jobs are buffered; it retries only while *)
(* attempts are left; and it has a launch job only of a running campaign.  *)
(***************************************************************************)
HasRows(c) == cm[c] # "none" /\ c \in targets /\ c \in mirrors
Fit(s) ==
    /\ pc[s] \in {"target", "mirror", "publish"} => cm[cur[s]] # "none"
    /\ pc[s] \in {"mirror", "publish"} => cur[s] \in targets
    /\ pc[s] = "publish" => cur[s] \in mirrors
    /\ \A i \in DOMAIN out[s] : HasRows(out[s][i])
    /\ frame[s] # "none" => pc[s] = "ack"
    /\ frame[s] = "next" => attempt[s] < MaxAttempts
    /\ pc[s] # "idle" => running

SlotInv == \A s \in Slot : Fit(s)
JobInv == \A c \in Contacts : jobs[c] > 0 => HasRows(c)
RunningInv == \/ running
              \/ /\ \A r \in Requests : apiPc[r] # "publish"
                 /\ apiFrames = 0
                 /\ \A a \in Attempts : ready[a] = 0 /\ retry[a] = 0

IInv == TypeOK /\ SlotInv /\ JobInv /\ RunningInv

Labels == {"idle", "load", "row", "target", "mirror", "publish", "catch", "ack", "ack_ok"}

-----------------------------------------------------------------------------
LEMMA InitInv == Init => IInv
<1>. SUFFICES ASSUME Init PROVE IInv
  OBVIOUS
<1>1. 0 \in 0..MaxAttempts /\ 0 \in 0..MaxChanges /\ 0 \in 0..MaxStops
  BY AttemptsAssumption, BoundsAssumption
<1>2. <<>> \in Seq(Contacts) /\ DOMAIN <<>> = {}
  OBVIOUS
<1>3. /\ pc \in [Slot -> Labels] /\ attempt \in [Slot -> 0..MaxAttempts]
      /\ todo \in [Slot -> SUBSET Contacts] /\ cur \in [Slot -> Contacts \cup {NoContact}]
      /\ out \in [Slot -> Seq(Contacts)] /\ frame \in [Slot -> {"none", "next", "dlq"}]
      /\ \A s \in Slot : /\ pc[s] = "idle" /\ attempt[s] = 0 /\ cur[s] = NoContact
                         /\ out[s] = <<>> /\ frame[s] = "none"
  BY <1>1, <1>2 DEF Init, Labels
<1>4. TypeOK
  BY <1>1, <1>3 DEF Init, TypeOK, Labels
<1>5. SlotInv
  BY <1>2, <1>3 DEF SlotInv, Fit
<1>6. JobInv /\ RunningInv
  BY DEF Init, JobInv, RunningInv
<1>. QED BY <1>4, <1>5, <1>6 DEF IInv

-----------------------------------------------------------------------------
\* A step that leaves the handlers alone, takes no row away and does not stop the campaign.
LEMMA SlotsKept ==
    ASSUME TypeOK, SlotInv, UNCHANGED handler,
           \A c \in Contacts : cm[c] # "none" => cm'[c] # "none",
           targets \subseteq targets', mirrors \subseteq mirrors', running => running'
    PROVE  SlotInv'
<1>. SUFFICES ASSUME NEW s \in Slot PROVE Fit(s)'
  BY DEF SlotInv
<1>1. Fit(s)
  BY DEF SlotInv
<1>2. pc[s] \in {"target", "mirror", "publish"} => cur[s] \in Contacts
  BY DEF TypeOK
<1>3. \A i \in DOMAIN out[s] : out[s][i] \in Contacts
  BY DEF TypeOK
<1>. QED BY <1>1, <1>2, <1>3 DEF Fit, HasRows, handler

\* One that moves slot s only, and takes no row away.
LEMMA OneSlot ==
    ASSUME TypeOK, SlotInv, NEW s \in Slot, Fit(s)',
           \A t \in Slot \ {s} : /\ pc'[t] = pc[t] /\ attempt'[t] = attempt[t] /\ cur'[t] = cur[t]
                                 /\ out'[t] = out[t] /\ frame'[t] = frame[t],
           \A c \in Contacts : cm[c] # "none" => cm'[c] # "none",
           targets \subseteq targets', mirrors \subseteq mirrors', running => running'
    PROVE  SlotInv'
<1>. SUFFICES ASSUME NEW t \in Slot \ {s} PROVE Fit(t)'
  BY DEF SlotInv
<1>1. Fit(t)
  BY DEF SlotInv
<1>2. pc[t] \in {"target", "mirror", "publish"} => cur[t] \in Contacts
  BY DEF TypeOK
<1>3. \A i \in DOMAIN out[t] : out[t][i] \in Contacts
  BY DEF TypeOK
<1>. QED BY <1>1, <1>2, <1>3 DEF Fit, HasRows

\* The rows a job has, it keeps.
LEMMA JobsKept ==
    ASSUME TypeOK, JobInv, \A c \in Contacts : jobs'[c] > 0 => jobs[c] > 0,
           \A c \in Contacts : cm[c] # "none" => cm'[c] # "none",
           targets \subseteq targets', mirrors \subseteq mirrors'
    PROVE  JobInv'
  BY DEF JobInv, HasRows

\* A handler in the loop goes on with the contacts left, or leaves it.
LEMMA ProceedType ==
    ASSUME TypeOK, NEW s \in Slot, pc[s] # "idle", NEW left \in SUBSET Contacts, Proceed(s, left),
           UNCHANGED attempt
    PROVE  /\ pc' \in [Slot -> Labels] /\ todo' \in [Slot -> SUBSET Contacts]
           /\ cur' \in [Slot -> Contacts \cup {NoContact}]
           /\ \A t \in Slot : /\ pc'[t] = "idle" <=> attempt'[t] = 0
                              /\ pc'[t] = "row" => todo'[t] # {}
                              /\ pc'[t] \in {"target", "mirror", "publish"} <=> cur'[t] # NoContact
<1>. DEFINE label == IF left = {} THEN "ack_ok" ELSE "row"
<1>1. label \in {"ack_ok", "row"} /\ (label = "row" => left # {})
  OBVIOUS
<1>2. pc' = [pc EXCEPT ![s] = label]
  BY DEF Proceed, Goto
<1>. HIDE DEF label
<1>. QED BY <1>1, <1>2 DEF Proceed, TypeOK, Labels

LEMMA ThrowType ==
    ASSUME TypeOK, NEW s \in Slot, pc[s] # "idle", Throw(s), UNCHANGED attempt
    PROVE  /\ pc' \in [Slot -> Labels] /\ todo' \in [Slot -> SUBSET Contacts]
           /\ cur' \in [Slot -> Contacts \cup {NoContact}]
           /\ \A t \in Slot : /\ pc'[t] = "idle" <=> attempt'[t] = 0
                              /\ pc'[t] = "row" => todo'[t] # {}
                              /\ pc'[t] \in {"target", "mirror", "publish"} <=> cur'[t] # NoContact
  BY DEF TypeOK, Throw, Goto, Labels

-----------------------------------------------------------------------------
\* The steps of the API, the contacts, the broker and stage 2.
LEMMA SetConsentInv == ASSUME IInv, NEW c \in Contacts, SetConsent(c) PROVE IInv'
<1>1. TypeOK'
  <2>1. eligible' \subseteq Contacts /\ withdrawn' \subseteq Contacts /\ changes' \in 0..MaxChanges
    BY BoundsAssumption DEF IInv, TypeOK, SetConsent
  <2>2. UNCHANGED <<api, broker, sending, handler, rows, process>>
    BY DEF SetConsent
  <2>. QED BY <2>1, <2>2 DEF IInv, TypeOK, api, broker, sending, handler, rows, process
<1>2. SlotInv' /\ JobInv'
  BY SlotsKept, JobsKept DEF IInv, SetConsent, api, sending, rows
<1>3. RunningInv'
  BY DEF IInv, RunningInv, SetConsent, api, broker
<1>. QED BY <1>1, <1>2, <1>3 DEF IInv

LEMMA LaunchInv == ASSUME IInv, NEW r \in Requests, Launch(r) PROVE IInv'
<1>1. running' \in BOOLEAN
  BY DEF IInv, TypeOK, Launch, LaunchSelect, LaunchUpdate, LaunchPublish
<1>2. TypeOK'
  <2>1. apiPc' \in [Requests -> {"select", "update", "publish", "ok", "error"}] /\ apiFrames' \in Nat
    <3>1. PICK label \in {"update", "publish", "ok", "error"} : ApiGoto(r, label)
      BY DEF Launch, LaunchSelect, LaunchUpdate, LaunchPublish
    <3>2. apiFrames' \in {apiFrames, apiFrames + 1}
      BY DEF Launch, LaunchSelect, LaunchUpdate, LaunchPublish
    <3>. QED BY <3>1, <3>2 DEF IInv, TypeOK, ApiGoto
  <2>2. UNCHANGED <<contacts, broker, sending, handler, rows, process>>
    BY DEF Launch, LaunchSelect, LaunchUpdate, LaunchPublish
  <2>. QED BY <1>1, <2>1, <2>2 DEF IInv, TypeOK, contacts, broker, sending, handler, rows, process
<1>3. running => running'
  BY DEF Launch, LaunchSelect, LaunchUpdate, LaunchPublish
<1>4. UNCHANGED <<handler, sending, rows>>
  BY DEF Launch, LaunchSelect, LaunchUpdate, LaunchPublish
<1>5. SlotInv' /\ JobInv'
  BY <1>3, <1>4, SlotsKept, JobsKept DEF IInv, sending, rows
<1>6. RunningInv'
  BY DEF IInv, TypeOK, RunningInv, Launch, LaunchSelect, LaunchUpdate, LaunchPublish, ApiGoto, broker
<1>. QED BY <1>2, <1>5, <1>6 DEF IInv

LEMMA LaunchFlushInv == ASSUME IInv, LaunchFlush PROVE IInv'
<1>1. 1 \in Attempts
  BY AttemptsAssumption DEF Attempts
<1>2. TypeOK'
  BY <1>1 DEF IInv, TypeOK, LaunchFlush, contacts, sending, handler, rows, process
<1>3. SlotInv' /\ JobInv'
  BY SlotsKept, JobsKept DEF IInv, LaunchFlush, sending, rows
<1>4. RunningInv'
  BY DEF IInv, RunningInv, LaunchFlush
<1>. QED BY <1>2, <1>3, <1>4 DEF IInv

LEMMA ApiCrashInv == ASSUME IInv, ApiCrash PROVE IInv'
<1>1. TypeOK'
  BY BoundsAssumption DEF IInv, TypeOK, ApiCrash, contacts, broker, sending, handler, rows
<1>2. SlotInv' /\ JobInv'
  BY SlotsKept, JobsKept DEF IInv, ApiCrash, sending, rows
<1>3. RunningInv'
  BY DEF IInv, RunningInv, ApiCrash, broker
<1>. QED BY <1>1, <1>2, <1>3 DEF IInv

LEMMA ExpireInv == ASSUME IInv, NEW a \in Attempts, Expire(a) PROVE IInv'
<1>1. TypeOK'
  BY DEF IInv, TypeOK, Expire, contacts, api, sending, handler, rows, process
<1>2. SlotInv' /\ JobInv'
  BY SlotsKept, JobsKept DEF IInv, Expire, api, sending, rows
<1>3. RunningInv'
  BY DEF IInv, TypeOK, RunningInv, Expire, api
<1>. QED BY <1>1, <1>2, <1>3 DEF IInv

LEMMA SettleInv == ASSUME IInv, NEW c \in Contacts, Settle(c) PROVE IInv'
<1>1. TypeOK'
  BY DEF IInv, TypeOK, Settle, contacts, api, broker, handler, process
<1>2. \A d \in Contacts : /\ cm[d] # "none" => cm'[d] # "none"
                          /\ jobs'[d] > 0 => jobs[d] > 0
  BY DEF IInv, TypeOK, Settle
<1>3. SlotInv' /\ JobInv'
  BY <1>2, SlotsKept, JobsKept DEF IInv, Settle, api
<1>4. RunningInv'
  BY DEF IInv, RunningInv, Settle, api, broker
<1>. QED BY <1>1, <1>3, <1>4 DEF IInv

LEMMA DeliverInv == ASSUME IInv, NEW s \in Slot, NEW a \in Attempts, Deliver(s, a) PROVE IInv'
<1>1. a \in 0..MaxAttempts /\ a # 0
  BY AttemptsAssumption DEF Attempts
<1>2. TypeOK'
  BY <1>1 DEF IInv, TypeOK, Deliver, Goto, contacts, api, sending, rows, process
<1>3. Fit(s)'
  <2>1. Fit(s) /\ pc[s] = "idle" /\ pc'[s] = "load"
    BY DEF IInv, TypeOK, SlotInv, Deliver, Goto
  <2>2. running
    BY DEF IInv, RunningInv, Deliver
  <2>. QED BY <2>1, <2>2 DEF Fit, HasRows, Deliver, rows, api
<1>4. SlotInv'
  BY <1>3, OneSlot DEF IInv, TypeOK, Deliver, Goto, rows, api
<1>5. JobInv' /\ RunningInv'
  BY SMTT(30), JobsKept DEF IInv, TypeOK, Deliver, sending, rows, api, RunningInv
<1>. QED BY <1>2, <1>4, <1>5 DEF IInv

-----------------------------------------------------------------------------
\* The steps of the loop.
LEMMA LoadInv == ASSUME IInv, NEW s \in Slot, Load(s) PROVE IInv'
<1>1. pc[s] = "load" /\ UNCHANGED <<attempt, out, frame, rows, api, sending, broker>>
  BY DEF Load
<1>2. eligible \in SUBSET Contacts /\ (Proceed(s, eligible) \/ Throw(s))
  BY DEF IInv, TypeOK, Load
<1>3. /\ pc' \in [Slot -> Labels] /\ todo' \in [Slot -> SUBSET Contacts]
      /\ cur' \in [Slot -> Contacts \cup {NoContact}]
      /\ \A t \in Slot : /\ pc'[t] = "idle" <=> attempt'[t] = 0
                         /\ pc'[t] = "row" => todo'[t] # {}
                         /\ pc'[t] \in {"target", "mirror", "publish"} <=> cur'[t] # NoContact
  BY <1>1, <1>2, ProceedType, ThrowType DEF IInv
<1>4. TypeOK'
  BY <1>3 DEF IInv, TypeOK, Load, Labels, contacts, api, broker, sending, rows, process
<1>5. pc'[s] \in {"ack_ok", "row", "catch"}
  BY <1>2 DEF IInv, TypeOK, Proceed, Throw, Goto
<1>6. Fit(s)'
  BY <1>1, <1>5 DEF IInv, SlotInv, Fit, HasRows, rows, api
<1>7. SlotInv'
  BY <1>1, <1>2, <1>6, OneSlot DEF IInv, TypeOK, Proceed, Throw, Goto, rows, api
<1>8. JobInv' /\ RunningInv'
  BY <1>1, JobsKept DEF IInv, RunningInv, rows, api, sending, broker
<1>. QED BY <1>4, <1>7, <1>8 DEF IInv

LEMMA UpsertRowInv ==
    ASSUME IInv, NEW s \in Slot, NEW c \in Contacts, UpsertRow(s, c)
    PROVE  IInv'
<1>1. pc[s] = "row" /\ c \in todo[s]
      /\ UNCHANGED <<attempt, out, frame, targets, mirrors, api, sending, broker>>
  BY DEF UpsertRow
<1>2. \/ Throw(s)
      \/ /\ Goto(s, "target") /\ todo' = [todo EXCEPT ![s] = @ \ {c}]
         /\ cur' = [cur EXCEPT ![s] = c] /\ cm' = [cm EXCEPT ![c] = "queued"]
  BY DEF UpsertRow
<1>3. cm' \in [Contacts -> {"none", "queued", "over"}] /\ \A d \in Contacts : cm[d] # "none" => cm'[d] # "none"
  BY DEF IInv, TypeOK, UpsertRow
<1>4. late' \in BOOLEAN
  <2>1. (late \/ ~Open(s)) \in BOOLEAN
    OBVIOUS
  <2>. QED BY <2>1 DEF IInv, TypeOK, UpsertRow, Written
<1>5. /\ pc' \in [Slot -> Labels] /\ todo' \in [Slot -> SUBSET Contacts]
      /\ cur' \in [Slot -> Contacts \cup {NoContact}]
      /\ \A t \in Slot : /\ pc'[t] = "idle" <=> attempt'[t] = 0
                         /\ pc'[t] = "row" => todo'[t] # {}
                         /\ pc'[t] \in {"target", "mirror", "publish"} <=> cur'[t] # NoContact
  <2>1. CASE Throw(s)
    BY <1>1, <2>1, ThrowType DEF IInv
  <2>2. CASE /\ Goto(s, "target") /\ todo' = [todo EXCEPT ![s] = @ \ {c}]
             /\ cur' = [cur EXCEPT ![s] = c]
    BY <1>1, <2>2, ContactsAssumption DEF IInv, TypeOK, Goto, Labels
  <2>. QED BY <1>2, <2>1, <2>2
<1>6. TypeOK'
  BY SMTT(30), <1>1, <1>3, <1>4, <1>5 DEF IInv, TypeOK, UpsertRow, Labels, contacts, api, broker, sending
<1>7. Fit(s)'
  <2>1. \A i \in DOMAIN out[s] : out[s][i] \in Contacts
    BY DEF IInv, TypeOK
  <2>2. pc'[s] = "catch" \/ (pc'[s] = "target" /\ cur'[s] = c /\ cm'[c] = "queued")
    BY <1>2 DEF IInv, TypeOK, Throw, Goto
  <2>. QED BY <1>1, <1>3, <2>1, <2>2 DEF IInv, SlotInv, Fit, HasRows, api
<1>8. SlotInv'
  BY <1>1, <1>2, <1>3, <1>7, OneSlot DEF IInv, TypeOK, Throw, Goto, api
<1>9. JobInv' /\ RunningInv'
  BY <1>1, <1>3, JobsKept DEF IInv, RunningInv, api, sending, broker
<1>. QED BY <1>6, <1>8, <1>9 DEF IInv

\* An upsert keeps the types of the loop, and the contact while the loop goes on.
LEMMA UpsertType ==
    ASSUME TypeOK, NEW s \in Slot, pc[s] \in {"target", "mirror"}, UNCHANGED attempt,
           NEW label \in {"mirror", "publish"},
           Throw(s) \/ (Goto(s, label) /\ UNCHANGED <<todo, cur>>)
    PROVE  /\ pc' \in [Slot -> Labels] /\ todo' \in [Slot -> SUBSET Contacts]
           /\ cur' \in [Slot -> Contacts \cup {NoContact}]
           /\ \A t \in Slot : /\ pc'[t] = "idle" <=> attempt'[t] = 0
                              /\ pc'[t] = "row" => todo'[t] # {}
                              /\ pc'[t] \in {"target", "mirror", "publish"} <=> cur'[t] # NoContact
           /\ pc'[s] = "catch" \/ (pc'[s] = label /\ cur'[s] = cur[s])
<1>1. CASE Throw(s)
  <2>1. pc'[s] = "catch"
    BY <1>1 DEF TypeOK, Throw, Goto
  <2>. QED BY <1>1, <2>1, ThrowType
<1>2. CASE Goto(s, label) /\ UNCHANGED <<todo, cur>>
  BY <1>2 DEF TypeOK, Goto, Labels
<1>. QED BY <1>1, <1>2

LEMMA UpsertTargetInv == ASSUME IInv, NEW s \in Slot, UpsertTarget(s) PROVE IInv'
<1>1. pc[s] = "target" /\ cur[s] \in Contacts
      /\ UNCHANGED <<attempt, out, frame, cm, mirrors, api, sending, broker>>
  BY DEF IInv, TypeOK, UpsertTarget
<1>2. /\ targets' = targets \/ targets' = targets \cup {cur[s]}
      /\ \/ Throw(s)
         \/ Goto(s, "mirror") /\ UNCHANGED <<todo, cur>> /\ targets' = targets \cup {cur[s]}
  BY DEF UpsertTarget, Upsert
<1>3. /\ pc' \in [Slot -> Labels] /\ todo' \in [Slot -> SUBSET Contacts]
      /\ cur' \in [Slot -> Contacts \cup {NoContact}]
      /\ \A t \in Slot : /\ pc'[t] = "idle" <=> attempt'[t] = 0
                         /\ pc'[t] = "row" => todo'[t] # {}
                         /\ pc'[t] \in {"target", "mirror", "publish"} <=> cur'[t] # NoContact
      /\ pc'[s] = "catch" \/ (pc'[s] = "mirror" /\ cur'[s] = cur[s])
  BY <1>1, <1>2, UpsertType DEF IInv
<1>4. TypeOK'
  BY <1>1, <1>2, <1>3 DEF IInv, TypeOK, UpsertTarget, Labels, contacts, api, broker, sending, process
<1>5. Fit(s)'
  <2>1. pc'[s] = "mirror" => targets' = targets \cup {cur[s]}
    BY <1>2 DEF IInv, TypeOK, Throw, Goto
  <2>. QED BY <1>1, <1>2, <1>3, <2>1 DEF IInv, SlotInv, Fit, HasRows, api
<1>6. SlotInv'
  BY <1>1, <1>2, <1>5, OneSlot DEF IInv, TypeOK, Throw, Goto, api
<1>7. JobInv' /\ RunningInv'
  BY <1>1, <1>2, JobsKept DEF IInv, RunningInv, api, sending, broker
<1>. QED BY <1>4, <1>6, <1>7 DEF IInv

LEMMA UpsertMirrorInv == ASSUME IInv, NEW s \in Slot, UpsertMirror(s) PROVE IInv'
<1>1. pc[s] = "mirror" /\ cur[s] \in Contacts
      /\ UNCHANGED <<attempt, out, frame, cm, targets, api, sending, broker>>
  BY DEF IInv, TypeOK, UpsertMirror
<1>2. /\ mirrors' = mirrors \/ mirrors' = mirrors \cup {cur[s]}
      /\ \/ Throw(s)
         \/ Goto(s, "publish") /\ UNCHANGED <<todo, cur>> /\ mirrors' = mirrors \cup {cur[s]}
  BY DEF UpsertMirror, Upsert
<1>3. /\ pc' \in [Slot -> Labels] /\ todo' \in [Slot -> SUBSET Contacts]
      /\ cur' \in [Slot -> Contacts \cup {NoContact}]
      /\ \A t \in Slot : /\ pc'[t] = "idle" <=> attempt'[t] = 0
                         /\ pc'[t] = "row" => todo'[t] # {}
                         /\ pc'[t] \in {"target", "mirror", "publish"} <=> cur'[t] # NoContact
      /\ pc'[s] = "catch" \/ (pc'[s] = "publish" /\ cur'[s] = cur[s])
  BY <1>1, <1>2, UpsertType DEF IInv
<1>4. TypeOK'
  BY <1>1, <1>2, <1>3 DEF IInv, TypeOK, UpsertMirror, Labels, contacts, api, broker, sending, process
<1>5. Fit(s)'
  <2>1. pc'[s] = "publish" => mirrors' = mirrors \cup {cur[s]}
    BY <1>2 DEF IInv, TypeOK, Throw, Goto
  <2>. QED BY <1>1, <1>2, <1>3, <2>1 DEF IInv, SlotInv, Fit, HasRows, api
<1>6. SlotInv'
  BY <1>1, <1>2, <1>5, OneSlot DEF IInv, TypeOK, Throw, Goto, api
<1>7. JobInv' /\ RunningInv'
  BY <1>1, <1>2, JobsKept DEF IInv, RunningInv, api, sending, broker
<1>. QED BY <1>4, <1>6, <1>7 DEF IInv

LEMMA PublishInv == ASSUME IInv, NEW s \in Slot, Publish(s) PROVE IInv'
<1>1. pc[s] = "publish" /\ cur[s] \in Contacts /\ todo[s] \in SUBSET Contacts
      /\ UNCHANGED <<attempt, frame, rows, api, sending, broker>>
  BY DEF IInv, TypeOK, Publish
<1>2. \/ out' = [out EXCEPT ![s] = Append(@, cur[s])] /\ Proceed(s, todo[s])
      \/ Throw(s) /\ UNCHANGED out
  BY DEF Publish
<1>3. /\ pc' \in [Slot -> Labels] /\ todo' \in [Slot -> SUBSET Contacts]
      /\ cur' \in [Slot -> Contacts \cup {NoContact}]
      /\ \A t \in Slot : /\ pc'[t] = "idle" <=> attempt'[t] = 0
                         /\ pc'[t] = "row" => todo'[t] # {}
                         /\ pc'[t] \in {"target", "mirror", "publish"} <=> cur'[t] # NoContact
  BY <1>1, <1>2, ProceedType, ThrowType DEF IInv
<1>4. out' \in [Slot -> Seq(Contacts)]
  <2>1. out[s] \in Seq(Contacts) /\ Append(out[s], cur[s]) \in Seq(Contacts)
    BY <1>1 DEF IInv, TypeOK
  <2>. QED BY <1>2, <2>1 DEF IInv, TypeOK
<1>5. TypeOK'
  BY <1>3, <1>4 DEF IInv, TypeOK, Publish, Labels, contacts, api, broker, sending, rows, process
<1>6. Fit(s)'
  <2>1. pc'[s] \in {"ack_ok", "row", "catch"}
    BY <1>2 DEF IInv, TypeOK, Proceed, Throw, Goto
  <2>2. HasRows(cur[s]) /\ out[s] \in Seq(Contacts)
    BY <1>1 DEF IInv, TypeOK, SlotInv, Fit, HasRows
  <2>3. out'[s] = out[s] \/ out'[s] = Append(out[s], cur[s])
    BY <1>2 DEF IInv, TypeOK
  <2>4. \A i \in DOMAIN out'[s] : HasRows(out'[s][i])
    <3>1. \A i \in DOMAIN out[s] : HasRows(out[s][i])
      BY DEF IInv, SlotInv, Fit
    <3>. HIDE DEF HasRows
    <3>. QED BY <2>2, <2>3, <3>1
  <2>. QED BY <1>1, <2>1, <2>4 DEF IInv, SlotInv, Fit, HasRows, rows, api
<1>7. SlotInv'
  BY <1>1, <1>2, <1>6, OneSlot DEF IInv, TypeOK, Proceed, Throw, Goto, rows, api
<1>8. JobInv' /\ RunningInv'
  BY <1>1, JobsKept DEF IInv, RunningInv, rows, api, sending, broker
<1>. QED BY <1>5, <1>7, <1>8 DEF IInv

-----------------------------------------------------------------------------
\* The steps of the socket, the catch block and the acks.
LEMMA FlushJobInv == ASSUME IInv, NEW s \in Slot, FlushJob(s) PROVE IInv'
<1>. DEFINE c == Head(out[s])
<1>1. out[s] \in Seq(Contacts) /\ out[s] # <<>>
  BY DEF IInv, TypeOK, FlushJob
<1>2. /\ c \in Contacts /\ c = out[s][1] /\ 1 \in DOMAIN out[s]
      /\ Tail(out[s]) \in Seq(Contacts)
      /\ \A i \in DOMAIN Tail(out[s]) : i + 1 \in DOMAIN out[s] /\ Tail(out[s])[i] = out[s][i + 1]
  BY <1>1
<1>3. TypeOK'
  BY SMTT(30), <1>2 DEF IInv, TypeOK, FlushJob, contacts, api, broker, rows, process
<1>4. Fit(s) /\ HasRows(c)
  BY <1>2 DEF IInv, SlotInv, Fit
<1>5. Fit(s)'
  <2>1. out'[s] = Tail(out[s])
    BY DEF IInv, TypeOK, FlushJob
  <2>2. \A i \in DOMAIN out'[s] : HasRows(out'[s][i])
    <3>. HIDE DEF HasRows
    <3>. QED BY <1>2, <1>4, <2>1 DEF Fit
  <2>. QED BY <1>4, <2>2 DEF FlushJob, Fit, HasRows, rows, api
<1>6. SlotInv'
  BY <1>5, OneSlot DEF IInv, TypeOK, FlushJob, rows, api
<1>7. JobInv'
  <2>. SUFFICES ASSUME NEW d \in Contacts, jobs'[d] > 0 PROVE HasRows(d)
    BY DEF JobInv, HasRows, FlushJob, rows
  <2>1. CASE d = c
    BY <1>4, <2>1
  <2>2. CASE d # c
    BY <2>2 DEF IInv, TypeOK, JobInv, FlushJob
  <2>. QED BY <2>1, <2>2
<1>8. RunningInv'
  BY DEF IInv, RunningInv, FlushJob, api, broker
<1>. QED BY <1>3, <1>6, <1>7, <1>8 DEF IInv

LEMMA CatchInv == ASSUME IInv, NEW s \in Slot, Retry(s) \/ Park(s) PROVE IInv'
<1>1. pc[s] = "catch" /\ pc' = [pc EXCEPT ![s] = "ack"] /\ attempt[s] \in 0..MaxAttempts
      /\ UNCHANGED <<contacts, api, broker, sending, attempt, todo, cur, out, rows, process>>
  BY DEF IInv, TypeOK, Retry, Park, Goto
<1>2. \/ frame' = [frame EXCEPT ![s] = "next"] /\ attempt[s] + 1 <= MaxAttempts
      \/ frame' = [frame EXCEPT ![s] = "dlq"]
  BY DEF Retry, Park
<1>3. TypeOK'
  BY <1>1, <1>2 DEF IInv, TypeOK, contacts, api, broker, sending, rows, process
<1>4. Fit(s)'
  <2>1. pc'[s] = "ack" /\ (frame'[s] = "next" => attempt[s] < MaxAttempts)
    BY <1>1, <1>2, AttemptsAssumption DEF IInv, TypeOK
  <2>. QED BY <1>1, <2>1 DEF IInv, SlotInv, Fit, HasRows, rows, api
<1>5. SlotInv'
  BY <1>1, <1>2, <1>4, OneSlot DEF IInv, TypeOK, rows, api
<1>6. JobInv' /\ RunningInv'
  BY <1>1, JobsKept DEF IInv, RunningInv, rows, api, sending, broker
<1>. QED BY <1>3, <1>5, <1>6 DEF IInv

LEMMA FlushFrameInv == ASSUME IInv, NEW s \in Slot, FlushFrame(s) PROVE IInv'
<1>1. Fit(s) /\ pc[s] = "ack" /\ attempt[s] \in 0..MaxAttempts /\ attempt[s] # 0
  BY DEF IInv, TypeOK, SlotInv, Fit, FlushFrame
<1>2. attempt[s] \in Attempts /\ (frame[s] = "next" => attempt[s] + 1 \in Attempts)
  BY <1>1, AttemptsAssumption DEF Fit, Attempts
<1>3. retry' \in [Attempts -> Nat] /\ dlq' \in [Attempts -> Nat]
  <2>1. CASE frame[s] = "next" /\ retry' = [retry EXCEPT ![attempt[s] + 1] = @ + 1] /\ dlq' = dlq
    <3>1. PICK b \in Attempts : b = attempt[s] + 1
      BY <1>2, <2>1
    <3>2. retry' = [retry EXCEPT ![b] = @ + 1]
      BY <2>1, <3>1
    <3>3. dlq' = dlq
      BY <2>1
    <3>. QED BY <3>2, <3>3 DEF IInv, TypeOK
  <2>2. CASE dlq' = [dlq EXCEPT ![attempt[s]] = @ + 1] /\ retry' = retry
    BY <1>2, <2>2 DEF IInv, TypeOK
  <2>. QED BY <2>1, <2>2 DEF FlushFrame
<1>4. TypeOK'
  BY <1>3 DEF IInv, TypeOK, FlushFrame, contacts, api, sending, rows, process
<1>5. Fit(s)'
  BY <1>1 DEF IInv, TypeOK, FlushFrame, Fit, HasRows, rows, api
<1>6. SlotInv'
  BY <1>5, OneSlot DEF IInv, TypeOK, FlushFrame, rows, api
<1>7. JobInv'
  BY JobsKept DEF IInv, FlushFrame, sending, rows
<1>8. RunningInv'
  BY <1>1 DEF Fit, RunningInv, FlushFrame, api
<1>. QED BY <1>4, <1>6, <1>7, <1>8 DEF IInv

LEMMA AckInv == ASSUME IInv, NEW s \in Slot, Ack(s) PROVE IInv'
<1>1. 0 \in 0..MaxAttempts
  BY AttemptsAssumption
<1>2. TypeOK'
  BY <1>1 DEF IInv, TypeOK, Ack, Goto, contacts, api, broker, sending, rows, process
<1>3. pc'[s] = "idle" /\ out'[s] = <<>> /\ frame'[s] = "none"
  BY DEF IInv, TypeOK, Ack, Goto
<1>4. Fit(s)'
  BY <1>3 DEF Fit
<1>5. SlotInv'
  BY <1>4, OneSlot DEF IInv, TypeOK, Ack, Goto, rows, api
<1>6. JobInv' /\ RunningInv'
  BY JobsKept DEF IInv, RunningInv, Ack, rows, api, sending, broker
<1>. QED BY <1>2, <1>5, <1>6 DEF IInv

LEMMA AckThrowsInv == ASSUME IInv, NEW s \in Slot, AckThrows(s) PROVE IInv'
<1>1. pc[s] = "ack_ok" /\ Throw(s)
      /\ UNCHANGED <<contacts, api, broker, sending, attempt, out, frame, rows, process>>
  BY DEF AckThrows
<1>2. TypeOK'
  BY <1>1, ThrowType DEF IInv, TypeOK, Labels, contacts, api, broker, sending, rows, process
<1>3. pc'[s] = "catch"
  BY <1>1 DEF IInv, TypeOK, Throw, Goto
<1>4. Fit(s)'
  BY <1>1, <1>3 DEF IInv, SlotInv, Fit, HasRows, rows, api
<1>5. SlotInv'
  BY <1>1, <1>4, OneSlot DEF IInv, TypeOK, Throw, Goto, rows, api
<1>6. JobInv' /\ RunningInv'
  BY <1>1, JobsKept DEF IInv, RunningInv, rows, api, sending, broker
<1>. QED BY <1>2, <1>5, <1>6 DEF IInv

-----------------------------------------------------------------------------
\* A process that stops: the broker gets back what its handlers had.
LEMMA RequeueType ==
    ASSUME IInv, NEW w \in Workers, Requeue(w)
    PROVE  /\ ready' \in [Attempts -> Nat] /\ redelivered' \in Nat
           /\ running \/ \A a \in Attempts : ready'[a] = ready[a]
<1>1. SlotsOf(w) \subseteq Slot /\ IsFiniteSet(SlotsOf(w))
  <2>1. IsFiniteSet({w}) /\ IsFiniteSet(1..Prefetch)
    <3>1. 1 \in Int /\ Prefetch \in Int
      BY WorkersAssumption
    <3>. QED BY <3>1, FS_Singleton, FS_Interval
  <2>. QED BY <2>1, FS_Product DEF SlotsOf, Slot
<1>2. IsFiniteSet(Busy(w)) /\ Cardinality(Busy(w)) \in Nat
  <2>1. Busy(w) \subseteq SlotsOf(w)
    BY DEF Busy
  <2>. QED BY <1>1, <2>1, FS_Subset, FS_CardinalityType
<1>3. ASSUME NEW a \in Attempts
      PROVE  LET mine == {s \in Busy(w) : attempt[s] = a}
             IN  Cardinality(mine) \in Nat /\ (Busy(w) = {} => Cardinality(mine) = 0)
  <2>1. {s \in Busy(w) : attempt[s] = a} \subseteq Busy(w)
    OBVIOUS
  <2>2. Cardinality({s \in Busy(w) : attempt[s] = a}) \in Nat
    BY <1>2, <2>1, FS_Subset, FS_CardinalityType
  <2>3. ASSUME Busy(w) = {} PROVE Cardinality({s \in Busy(w) : attempt[s] = a}) = 0
    <3>1. {s \in Busy(w) : attempt[s] = a} = {}
      BY <2>3
    <3>. QED BY <3>1, FS_EmptySet
  <2>. QED BY <2>2, <2>3
<1>4. running \/ Busy(w) = {}
  BY <1>1 DEF IInv, SlotInv, Fit, Busy
<1>5. ready' = [a \in Attempts |-> ready[a] + Cardinality({s \in Busy(w) : attempt[s] = a})]
      /\ redelivered' = redelivered + Cardinality(Busy(w))
  BY DEF Requeue
<1>6. \A a \in Attempts : ready[a] \in Nat
  BY DEF IInv, TypeOK
<1>7. redelivered' \in Nat
  BY <1>2, <1>5 DEF IInv, TypeOK
<1>8. \A a \in Attempts : /\ ready'[a] \in Nat
                          /\ running \/ ready'[a] = ready[a]
  BY <1>3, <1>4, <1>5, <1>6
<1>. QED BY <1>5, <1>7, <1>8

LEMMA RestartInv ==
    ASSUME IInv, NEW w \in Workers, Restart(w), UNCHANGED <<rows, api>>
    PROVE  /\ SlotInv'
           /\ pc' \in [Slot -> Labels] /\ attempt' \in [Slot -> 0..MaxAttempts]
           /\ todo' \in [Slot -> SUBSET Contacts] /\ cur' \in [Slot -> Contacts \cup {NoContact}]
           /\ out' \in [Slot -> Seq(Contacts)] /\ frame' \in [Slot -> {"none", "next", "dlq"}]
           /\ \A s \in Slot : /\ pc'[s] = "idle" <=> attempt'[s] = 0
                              /\ pc'[s] = "row" => todo'[s] # {}
                              /\ pc'[s] \in {"target", "mirror", "publish"} <=> cur'[s] # NoContact
<1>1. 0 \in 0..MaxAttempts /\ <<>> \in Seq(Contacts)
  BY AttemptsAssumption
<1>2. /\ pc' \in [Slot -> Labels] /\ attempt' \in [Slot -> 0..MaxAttempts]
      /\ todo' \in [Slot -> SUBSET Contacts] /\ cur' \in [Slot -> Contacts \cup {NoContact}]
  BY <1>1 DEF IInv, TypeOK, Restart, Labels
<1>3. out' \in [Slot -> Seq(Contacts)] /\ frame' \in [Slot -> {"none", "next", "dlq"}]
  BY <1>1 DEF IInv, TypeOK, Restart
<1>4. ASSUME NEW s \in Slot
      PROVE  /\ pc'[s] = "idle" <=> attempt'[s] = 0
             /\ pc'[s] = "row" => todo'[s] # {}
             /\ pc'[s] \in {"target", "mirror", "publish"} <=> cur'[s] # NoContact
  BY DEF IInv, TypeOK, Restart
<1>5. ASSUME NEW s \in Slot PROVE Fit(s)'
  <2>1. CASE s \in SlotsOf(w)
    <3>1. pc'[s] = "idle" /\ out'[s] = <<>> /\ frame'[s] = "none"
      BY <2>1 DEF Restart
    <3>. QED BY <3>1 DEF Fit
  <2>2. CASE s \notin SlotsOf(w)
    <3>1. /\ pc'[s] = pc[s] /\ attempt'[s] = attempt[s] /\ cur'[s] = cur[s]
          /\ out'[s] = out[s] /\ frame'[s] = frame[s]
      BY <2>2 DEF Restart
    <3>. QED BY <3>1 DEF IInv, SlotInv, Fit, HasRows, rows, api
  <2>. QED BY <2>1, <2>2
<1>. QED BY <1>2, <1>3, <1>4, <1>5 DEF SlotInv

LEMMA CrashInv == ASSUME IInv, NEW w \in Workers, Crash(w) PROVE IInv'
<1>1. Requeue(w) /\ Restart(w) /\ UNCHANGED <<contacts, api, sending, rows, closing, late>>
      /\ stops' \in 0..MaxStops
  BY BoundsAssumption DEF IInv, TypeOK, Crash
<1>2. UNCHANGED <<retry, dlq, launched, due>>
  BY <1>1 DEF Requeue
<1>3. TypeOK'
  BY <1>1, <1>2, RequeueType, RestartInv DEF IInv, TypeOK, Labels, contacts, api, sending, rows
<1>4. SlotInv'
  BY <1>1, RestartInv
<1>5. JobInv' /\ RunningInv'
  BY <1>1, <1>2, RequeueType, JobsKept DEF IInv, RunningInv, rows, api, sending
<1>. QED BY <1>3, <1>4, <1>5 DEF IInv

LEMMA ShutdownInv == ASSUME IInv, NEW w \in Workers, Shutdown(w) PROVE IInv'
<1>1. Requeue(w) /\ UNCHANGED <<contacts, api, sending, handler, rows, late>>
      /\ stops' \in 0..MaxStops /\ closing' \in [Workers -> BOOLEAN]
  BY BoundsAssumption DEF IInv, TypeOK, Shutdown
<1>2. UNCHANGED <<retry, dlq, launched, due>>
  BY <1>1 DEF Requeue
<1>3. TypeOK'
  BY <1>1, <1>2, RequeueType DEF IInv, TypeOK, contacts, api, sending, handler, rows
<1>4. SlotInv'
  BY <1>1, SlotsKept DEF IInv, rows, api
<1>5. JobInv' /\ RunningInv'
  BY <1>1, <1>2, RequeueType, JobsKept DEF IInv, RunningInv, rows, api, sending
<1>. QED BY <1>3, <1>4, <1>5 DEF IInv

LEMMA ExitInv == ASSUME IInv, NEW w \in Workers, Exit(w) PROVE IInv'
<1>1. Restart(w) /\ UNCHANGED <<contacts, api, broker, sending, rows, late, stops>>
      /\ closing' \in [Workers -> BOOLEAN]
  BY DEF IInv, TypeOK, Exit
<1>2. TypeOK'
  BY <1>1, RestartInv DEF IInv, TypeOK, Labels, contacts, api, broker, sending, rows
<1>3. SlotInv'
  BY <1>1, RestartInv
<1>4. JobInv' /\ RunningInv'
  BY <1>1, JobsKept DEF IInv, RunningInv, rows, api, sending, broker
<1>. QED BY <1>2, <1>3, <1>4 DEF IInv

-----------------------------------------------------------------------------
LEMMA HandleInv == ASSUME IInv, NEW s \in Slot, Handle(s) PROVE IInv'
<1>1. CASE Retry(s) \/ Park(s) BY <1>1, CatchInv
<1>2. CASE FlushJob(s) \/ FlushFrame(s) BY <1>2, FlushJobInv, FlushFrameInv
<1>3. CASE Ack(s) \/ AckThrows(s) BY <1>3, AckInv, AckThrowsInv
<1>4. CASE Load(s) \/ UpsertTarget(s) \/ UpsertMirror(s) \/ Publish(s)
  BY <1>4, LoadInv, UpsertTargetInv, UpsertMirrorInv, PublishInv
<1>5. CASE \E c \in Contacts : UpsertRow(s, c) BY <1>5, UpsertRowInv
<1>. QED BY <1>1, <1>2, <1>3, <1>4, <1>5 DEF Handle

LEMMA Inductive == ASSUME IInv, [Next]_vars PROVE IInv'
<1>1. ASSUME NEW c \in Contacts, SetConsent(c) \/ Settle(c) PROVE IInv'
  BY <1>1, SetConsentInv, SettleInv
<1>2. ASSUME NEW r \in Requests, Launch(r) PROVE IInv'
  BY <1>2, LaunchInv
<1>3. CASE LaunchFlush \/ ApiCrash
  BY <1>3, LaunchFlushInv, ApiCrashInv
<1>4. ASSUME NEW s \in Slot, Handle(s) PROVE IInv'
  BY <1>4, HandleInv
<1>5. ASSUME NEW s \in Slot, NEW a \in Attempts, Deliver(s, a) PROVE IInv'
  BY <1>5, DeliverInv
<1>6. ASSUME NEW a \in Attempts, Expire(a) PROVE IInv'
  BY <1>6, ExpireInv
<1>7. ASSUME NEW w \in Workers, Crash(w) \/ Shutdown(w) \/ Exit(w) PROVE IInv'
  BY <1>7, CrashInv, ShutdownInv, ExitInv
<1>8. CASE UNCHANGED vars
  <2>1. UNCHANGED <<contacts, api, broker, sending, handler, rows, process>>
    BY <1>8 DEF vars
  <2>2. TypeOK'
    BY <2>1 DEF IInv, TypeOK, contacts, api, broker, sending, handler, rows, process
  <2>3. SlotInv' /\ JobInv'
    BY <2>1, SlotsKept, JobsKept DEF IInv, api, sending, rows
  <2>4. RunningInv'
    BY <2>1 DEF IInv, RunningInv, api, broker
  <2>. QED BY <2>2, <2>3, <2>4 DEF IInv
<1>. QED BY <1>1, <1>2, <1>3, <1>4, <1>5, <1>6, <1>7, <1>8 DEF Next

LEMMA IInvHolds == Spec => []IInv
<1>1. Init => IInv
  BY InitInv
<1>2. IInv /\ [Next]_vars => IInv'
  BY Inductive
<1>. QED BY <1>1, <1>2, PTL DEF Spec

(***************************************************************************)
(* The queues, the handlers and the rows of stage 1 keep their types, for  *)
(* any contacts, requests, workers and attempts.                           *)
(***************************************************************************)
THEOREM TypeCorrect == Spec => []TypeOK
<1>1. IInv => TypeOK
  BY DEF IInv
<1>. QED BY <1>1, IInvHolds, PTL

(***************************************************************************)
(* No send job is out without the rows stage 2 and the webhooks update,    *)
(* and no launch job of a campaign that is not running, whatever loop      *)
(* fails half way and whatever process stops.                              *)
(***************************************************************************)
THEOREM JobHasRowsHolds == Spec => []JobHasRows
<1>1. ASSUME IInv PROVE JobHasRows
  <2>1. \A c \in Contacts : jobs[c] > 0 => cm[c] # "none" /\ c \in targets /\ c \in mirrors
    BY <1>1 DEF IInv, JobInv, HasRows
  <2>2. ASSUME LaunchOwed PROVE running
    <3>1. CASE \E a \in Attempts : ready[a] > 0 \/ retry[a] > 0
      BY <1>1, <3>1 DEF IInv, RunningInv
    <3>2. CASE \E s \in Slot : Owing(s)
      BY <1>1, <3>2 DEF IInv, SlotInv, Fit, Owing
    <3>. QED BY <2>2, <3>1, <3>2 DEF LaunchOwed
  <2>. QED BY <2>1, <2>2 DEF JobHasRows
<1>. QED BY <1>1, IInvHolds, PTL

-----------------------------------------------------------------------------
(***************************************************************************)
(* What a handler still has to do.  It takes each contact once, of those   *)
(* that were eligible when it loaded, so none is both ahead of it, in its  *)
(* hands and in its socket buffer; the buffer is empty when it starts,     *)
(* after its retry has left, and on a closed channel; and it parks only    *)
(* its last attempt.                                                       *)
(***************************************************************************)
Known == eligible \cup withdrawn
LoopFit(s) ==
    /\ pc[s] \notin {"row", "target", "mirror", "publish"} => todo[s] = {}
    /\ cur[s] \notin todo[s]
    /\ \A i \in DOMAIN out[s] : out[s][i] \notin todo[s] /\ out[s][i] # cur[s]
    /\ \A i, j \in DOMAIN out[s] : out[s][i] = out[s][j] => i = j
    /\ pc[s] \in {"idle", "load"} => out[s] = <<>>
    /\ pc[s] = "ack" /\ frame[s] = "none" => out[s] = <<>>
    /\ ~Open(s) => out[s] = <<>> /\ frame[s] = "none"
    /\ todo[s] \subseteq Known /\ (cur[s] # NoContact => cur[s] \in Known)
    /\ frame[s] = "dlq" => attempt[s] = MaxAttempts

KnownInv == \A c \in Contacts : cm[c] # "none" \/ due[c] > 0 => c \in Known
LoopInv == (\A s \in Slot : LoopFit(s)) /\ KnownInv

\* The steps of a handler that reach no queue.
Quiet(s) ==
    \/ Load(s) \/ (\E c \in Contacts : UpsertRow(s, c)) \/ UpsertTarget(s) \/ UpsertMirror(s)
    \/ Publish(s) \/ Retry(s) \/ Park(s) \/ Ack(s) \/ AckThrows(s)

LEMMA HandleSteps ==
    ASSUME NEW s \in Slot, Handle(s)
    PROVE  Quiet(s) \/ FlushJob(s) \/ FlushFrame(s)
  BY DEF Handle, Quiet

LEMMA SlotParts ==
    ASSUME NEW s \in Slot
    PROVE  s[1] \in Workers /\ \A w \in Workers : s \in SlotsOf(w) <=> s[1] = w
  BY DEF Slot, SlotsOf

\* What a step of slot s leaves alone.
LEMMA OthersStay ==
    ASSUME TypeOK, NEW s \in Slot, Quiet(s) \/ FlushJob(s) \/ FlushFrame(s)
    PROVE  /\ \A t \in Slot \ {s} :
                 /\ pc'[t] = pc[t] /\ attempt'[t] = attempt[t] /\ todo'[t] = todo[t]
                 /\ cur'[t] = cur[t] /\ out'[t] = out[t] /\ frame'[t] = frame[t]
           /\ UNCHANGED <<contacts, api, ready, launched, due, redelivered, closing, stops>>
<1>. USE DEF TypeOK, Goto, Throw, Proceed, Upsert, broker, process, handler
<1>1. CASE Load(s) \/ Publish(s)
  BY <1>1 DEF Load, Publish
<1>2. CASE \E c \in Contacts : UpsertRow(s, c)
  BY <1>2 DEF UpsertRow
<1>3. CASE UpsertTarget(s) \/ UpsertMirror(s)
  BY <1>3 DEF UpsertTarget, UpsertMirror
<1>4. CASE Retry(s) \/ Park(s) \/ Ack(s) \/ AckThrows(s)
  BY <1>4 DEF Retry, Park, Ack, AckThrows
<1>5. CASE FlushJob(s) \/ FlushFrame(s)
  BY <1>5 DEF FlushJob, FlushFrame
<1>. QED BY <1>1, <1>2, <1>3, <1>4, <1>5 DEF Quiet

LEMMA QuietKeepsQueues ==
    ASSUME NEW s \in Slot, Quiet(s)
    PROVE  UNCHANGED <<broker, sending>>
  BY DEF Quiet, Load, UpsertRow, UpsertTarget, UpsertMirror, Publish, Retry, Park, Ack, AckThrows

(***************************************************************************)
(* A quiet step in full: what becomes of the handler.                      *)
(***************************************************************************)
LEMMA QuietStep ==
    ASSUME TypeOK, NEW s \in Slot, Quiet(s)
    PROVE  \/ /\ pc[s] = "load" /\ pc'[s] \in {"row", "ack_ok"} /\ todo'[s] = eligible
              /\ (pc'[s] = "ack_ok" => eligible = {})
              /\ cur'[s] = NoContact
              /\ out'[s] = out[s] /\ frame'[s] = frame[s] /\ attempt'[s] = attempt[s]
           \/ /\ pc[s] \in {"load", "row", "target", "mirror", "publish", "ack_ok"}
              /\ pc[s] \in {"publish", "ack_ok"} => ~Open(s)
              /\ pc'[s] = "catch" /\ todo'[s] = {} /\ cur'[s] = NoContact
              /\ out'[s] = out[s] /\ frame'[s] = frame[s] /\ attempt'[s] = attempt[s]
           \/ \E c \in todo[s] :
                 /\ pc[s] = "row" /\ pc'[s] = "target" /\ todo'[s] = todo[s] \ {c}
                 /\ cur'[s] = c
                 /\ out'[s] = out[s] /\ frame'[s] = frame[s] /\ attempt'[s] = attempt[s]
           \/ /\ pc[s] \in {"target", "mirror"} /\ pc'[s] \in {"mirror", "publish"}
              /\ todo'[s] = todo[s] /\ cur'[s] = cur[s]
              /\ out'[s] = out[s] /\ frame'[s] = frame[s] /\ attempt'[s] = attempt[s]
           \/ /\ pc[s] = "publish" /\ pc'[s] \in {"row", "ack_ok"} /\ Open(s)
              /\ (pc'[s] = "ack_ok" => todo[s] = {})
              /\ todo'[s] = todo[s] /\ cur'[s] = NoContact /\ out'[s] = Append(out[s], cur[s])
              /\ frame'[s] = frame[s] /\ attempt'[s] = attempt[s]
           \/ /\ pc[s] = "catch" /\ pc'[s] = "ack" /\ Open(s)
              /\ frame'[s] = IF attempt[s] < MaxAttempts THEN "next" ELSE "dlq"
              /\ todo'[s] = todo[s] /\ cur'[s] = cur[s] /\ out'[s] = out[s]
              /\ attempt'[s] = attempt[s]
           \/ /\ pc[s] \in {"ack", "ack_ok"} /\ pc'[s] = "idle" /\ Open(s)
              /\ out[s] = <<>> /\ frame[s] = "none"
              /\ todo'[s] = todo[s] /\ cur'[s] = cur[s] /\ out'[s] = out[s]
              /\ frame'[s] = frame[s] /\ attempt'[s] = 0
<1>. USE DEF TypeOK, Goto
<1>1. CASE Load(s)
  BY <1>1 DEF Load, Proceed, Throw
<1>2. ASSUME NEW c \in Contacts, UpsertRow(s, c) PROVE
           \/ /\ pc[s] = "row" /\ pc'[s] = "catch" /\ todo'[s] = {} /\ cur'[s] = NoContact
              /\ UNCHANGED <<out, frame, attempt>>
           \/ /\ c \in todo[s] /\ pc[s] = "row" /\ pc'[s] = "target" /\ todo'[s] = todo[s] \ {c}
              /\ cur'[s] = c /\ UNCHANGED <<out, frame, attempt>>
  BY <1>2 DEF UpsertRow, Throw
<1>3. CASE UpsertTarget(s) \/ UpsertMirror(s)
  BY <1>3 DEF UpsertTarget, UpsertMirror, Upsert, Throw
<1>4. CASE Publish(s)
  BY <1>4 DEF Publish, Proceed, Throw
<1>5. CASE Retry(s) \/ Park(s)
  BY <1>5, AttemptsAssumption DEF Retry, Park
<1>6. CASE Ack(s)
  BY <1>6 DEF Ack
<1>7. CASE AckThrows(s)
  BY <1>7 DEF AckThrows, Throw
<1>. QED BY <1>1, <1>2, <1>3, <1>4, <1>5, <1>6, <1>7 DEF Quiet

-----------------------------------------------------------------------------
\* A step that leaves a handler alone keeps it fit for the loop.
LEMMA LoopKept ==
    ASSUME NEW s \in Slot, LoopFit(s), Known \subseteq Known',
           pc'[s] = pc[s], attempt'[s] = attempt[s], todo'[s] = todo[s], cur'[s] = cur[s],
           out'[s] = out[s], frame'[s] = frame[s],
           Open(s)' = Open(s) \/ (out[s] = <<>> /\ frame[s] = "none")
    PROVE  LoopFit(s)'
  BY DEF LoopFit

LEMMA QuietLoop ==
    ASSUME IInv, NEW s \in Slot, LoopFit(s), Quiet(s)
    PROVE  LoopFit(s)'
<1>1. Open(s)' = Open(s) /\ Known' = Known /\ eligible \subseteq Known
  BY OthersStay DEF IInv, Open, Known, contacts
<1>2. /\ out[s] \in Seq(Contacts) /\ attempt[s] \in 0..MaxAttempts /\ todo[s] \subseteq Contacts
      /\ \A i \in DOMAIN out[s] : out[s][i] \in Contacts
      /\ pc[s] \in {"target", "mirror", "publish"} <=> cur[s] # NoContact
      /\ cur[s] # NoContact => cur[s] \in Contacts
      /\ frame[s] # "none" => pc[s] = "ack"
  BY DEF IInv, TypeOK, SlotInv, Fit
<1>3. \A i \in DOMAIN out[s] : out[s][i] # NoContact
  BY <1>2, ContactsAssumption
<1>4. NoContact \notin Contacts /\ MaxAttempts \in Nat
  BY ContactsAssumption, AttemptsAssumption
<1>5. CASE pc[s] = "publish" /\ Open(s)
  <2>1. /\ pc'[s] \in {"row", "ack_ok"} /\ (pc'[s] = "ack_ok" => todo[s] = {})
        /\ todo'[s] = todo[s] /\ cur'[s] = NoContact /\ out'[s] = Append(out[s], cur[s])
        /\ frame'[s] = frame[s] /\ attempt'[s] = attempt[s]
    BY <1>5, QuietStep DEF IInv
  <2>2. /\ DOMAIN out'[s] = 1..(Len(out[s]) + 1) /\ DOMAIN out[s] = 1..Len(out[s])
        /\ Len(out[s]) \in Nat
        /\ \A i \in 1..Len(out[s]) : out'[s][i] = out[s][i]
        /\ out'[s][Len(out[s]) + 1] = cur[s]
    BY <1>2, <1>5, <2>1
  <2>3. \A i \in DOMAIN out'[s] : out'[s][i] \notin todo[s] /\ out'[s][i] # NoContact
    BY <1>3, <1>5, <1>2, <2>2 DEF LoopFit
  <2>4. \A i, j \in DOMAIN out'[s] : out'[s][i] = out'[s][j] => i = j
    BY SMTT(30), <2>2 DEF LoopFit
  <2>. QED BY <1>1, <1>2, <1>4, <1>5, <2>1, <2>3, <2>4 DEF LoopFit
<1>6. CASE ~(pc[s] = "publish" /\ Open(s))
  <2>1. out'[s] = out[s]
    BY <1>6, QuietStep DEF IInv
  <2>2. CASE pc[s] = "load" /\ pc'[s] \in {"row", "ack_ok"}
    <3>1. /\ todo'[s] = eligible /\ (pc'[s] = "ack_ok" => eligible = {})
          /\ cur'[s] = NoContact /\ out[s] = <<>> /\ frame'[s] = "none"
      BY <1>2, <2>2, QuietStep DEF IInv, LoopFit
    <3>2. DOMAIN out'[s] = {}
      BY <2>1, <3>1
    <3>3. todo'[s] \subseteq Known' /\ cur'[s] \notin todo'[s]
      BY <1>1, <1>4, <3>1 DEF IInv, TypeOK
    <3>. QED BY <1>1, <2>1, <2>2, <3>1, <3>2, <3>3 DEF LoopFit
  <2>3. CASE pc'[s] \in {"catch", "ack"}
    <3>1. /\ todo'[s] = {} /\ cur'[s] = NoContact /\ attempt'[s] = attempt[s]
          /\ pc[s] \notin {"idle", "ack"}
          /\ pc'[s] = "ack" => Open(s) /\ frame'[s] # "none"
          /\ frame'[s] = frame[s] \/ Open(s)
          /\ frame'[s] = "dlq" => attempt[s] = MaxAttempts
      BY <1>2, <1>4, <2>3, QuietStep DEF IInv, LoopFit
    <3>. QED BY <1>1, <1>3, <2>1, <2>3, <3>1 DEF LoopFit
  <2>4. CASE pc[s] = "row" /\ pc'[s] = "target"
    <3>1. PICK c \in todo[s] : /\ todo'[s] = todo[s] \ {c} /\ cur'[s] = c
                               /\ frame'[s] = "none"
      BY <1>2, <2>4, QuietStep DEF IInv
    <3>. QED BY <1>1, <2>1, <2>4, <3>1 DEF LoopFit
  <2>5. CASE pc'[s] \in {"mirror", "publish"}
    <3>1. /\ todo'[s] = todo[s] /\ cur'[s] = cur[s] /\ pc[s] \in {"target", "mirror"}
          /\ frame'[s] = "none"
      BY <1>2, <2>5, QuietStep DEF IInv
    <3>. QED BY <1>1, <2>1, <2>5, <3>1 DEF LoopFit
  <2>6. CASE pc'[s] = "idle"
    <3>1. /\ todo'[s] = {} /\ cur'[s] = NoContact /\ out[s] = <<>> /\ frame'[s] = "none"
      BY <1>2, <2>6, QuietStep DEF IInv, LoopFit
    <3>. QED BY <1>1, <2>1, <2>6, <3>1 DEF LoopFit
  <2>. QED BY <1>6, <2>2, <2>3, <2>4, <2>5, <2>6, QuietStep DEF IInv
<1>. QED BY <1>5, <1>6

LEMMA FlushLoop ==
    ASSUME IInv, NEW s \in Slot, LoopFit(s), FlushJob(s) \/ FlushFrame(s)
    PROVE  LoopFit(s)'
<1>1. Open(s)' = Open(s) /\ Known' = Known
  BY OthersStay DEF IInv, Open, Known, contacts
<1>2. out[s] \in Seq(Contacts) /\ pc'[s] = pc[s] /\ todo' = todo /\ cur' = cur /\ attempt' = attempt
  BY DEF IInv, TypeOK, FlushJob, FlushFrame
<1>3. CASE FlushJob(s)
  <2>1. out[s] # <<>> /\ out'[s] = Tail(out[s]) /\ frame' = frame
    BY <1>3 DEF IInv, TypeOK, FlushJob
  <2>2. \A i \in DOMAIN out'[s] : i + 1 \in DOMAIN out[s] /\ out'[s][i] = out[s][i + 1] /\ i \in Nat
    BY <1>2, <2>1
  <2>3. \A i \in DOMAIN out'[s] : out'[s][i] \notin todo[s] /\ out'[s][i] # cur[s]
    BY <2>2 DEF LoopFit
  <2>4. \A i, j \in DOMAIN out'[s] : out'[s][i] = out'[s][j] => i = j
    <3>. SUFFICES ASSUME NEW i \in DOMAIN out'[s], NEW j \in DOMAIN out'[s], out'[s][i] = out'[s][j]
                  PROVE  i = j
      OBVIOUS
    <3>1. i + 1 = j + 1
      BY <2>2 DEF LoopFit
    <3>. QED BY <2>2, <3>1
  <2>5. pc[s] \notin {"idle", "load"} /\ ~(pc[s] = "ack" /\ frame[s] = "none") /\ Open(s)
    BY <2>1 DEF LoopFit
  <2>. QED BY <1>1, <1>2, <2>1, <2>3, <2>4, <2>5 DEF LoopFit
<1>4. CASE FlushFrame(s)
  <2>1. out[s] = <<>> /\ out' = out /\ frame'[s] = "none"
    BY <1>4 DEF IInv, TypeOK, FlushFrame
  <2>. QED BY <1>1, <1>2, <2>1 DEF LoopFit
<1>. QED BY <1>3, <1>4

\* The rows and the launches of a contact are those of one that was eligible.
LEMMA KnownKept ==
    ASSUME LoopInv, Known \subseteq Known',
           \A c \in Contacts : cm'[c] # "none" => cm[c] # "none" \/ c \in Known',
           \A c \in Contacts : due'[c] > 0 => due[c] > 0 \/ c \in Known'
    PROVE  KnownInv'
  BY DEF LoopInv, KnownInv

LEMMA HandleLoop ==
    ASSUME IInv, LoopInv, NEW s \in Slot, Handle(s)
    PROVE  LoopInv'
<1>1. Quiet(s) \/ FlushJob(s) \/ FlushFrame(s)
  BY HandleSteps
<1>2. /\ \A t \in Slot \ {s} :
            /\ pc'[t] = pc[t] /\ attempt'[t] = attempt[t] /\ todo'[t] = todo[t]
            /\ cur'[t] = cur[t] /\ out'[t] = out[t] /\ frame'[t] = frame[t]
      /\ UNCHANGED <<contacts, due, closing>>
  BY <1>1, OthersStay DEF IInv
<1>3. LoopFit(s)'
  BY <1>1, QuietLoop, FlushLoop DEF LoopInv
<1>4. ASSUME NEW t \in Slot \ {s} PROVE LoopFit(t)'
  BY <1>2, LoopKept DEF LoopInv, Open, Known, contacts
<1>5. \A c \in Contacts : cm'[c] # "none" => cm[c] # "none" \/ c \in Known
  <2>1. ASSUME NEW c \in Contacts, UpsertRow(s, c) PROVE c \in Known
    BY <2>1 DEF UpsertRow, LoopInv, LoopFit
  <2>2. ASSUME NEW d \in Contacts, UpsertRow(s, d), NEW c \in Contacts, c # d PROVE cm'[c] = cm[c]
    BY <2>2 DEF UpsertRow, IInv, TypeOK
  <2>3. (\E c \in Contacts : UpsertRow(s, c)) \/ cm' = cm
    BY DEF Handle, Load, UpsertTarget, UpsertMirror, Publish, FlushJob, Retry, Park,
           FlushFrame, Ack, AckThrows, rows
  <2>. QED BY <2>1, <2>2, <2>3
<1>6. KnownInv'
  BY <1>2, <1>5, KnownKept DEF Known, contacts
<1>. QED BY <1>3, <1>4, <1>6 DEF LoopInv

LEMMA DeliverLoop ==
    ASSUME IInv, LoopInv, NEW s \in Slot, NEW a \in Attempts, Deliver(s, a)
    PROVE  LoopInv'
<1>1. \A t \in Slot \ {s} :
         /\ pc'[t] = pc[t] /\ attempt'[t] = attempt[t] /\ todo'[t] = todo[t]
         /\ cur'[t] = cur[t] /\ out'[t] = out[t] /\ frame'[t] = frame[t]
  BY DEF Deliver, Goto, IInv, TypeOK
<1>2. UNCHANGED <<eligible, withdrawn, due, cm, closing>>
  BY DEF Deliver, contacts, rows, process
<1>3. ASSUME NEW t \in Slot \ {s} PROVE LoopFit(t)'
  BY <1>1, <1>2, LoopKept DEF LoopInv, Open, Known
<1>4. /\ pc'[s] = "load" /\ todo'[s] = {} /\ cur'[s] = NoContact /\ out'[s] = <<>>
      /\ frame'[s] = "none"
  <2>1. pc[s] = "idle" /\ UNCHANGED <<todo, cur, out, frame>> /\ pc'[s] = "load"
    BY DEF Deliver, Goto, IInv, TypeOK
  <2>. QED BY <2>1 DEF IInv, TypeOK, SlotInv, Fit, LoopInv, LoopFit
<1>5. LoopFit(s)'
  BY <1>4 DEF LoopFit
<1>6. KnownInv'
  BY <1>2, KnownKept DEF Known
<1>. QED BY <1>3, <1>5, <1>6 DEF LoopInv

LEMMA StopLoop ==
    ASSUME IInv, LoopInv, NEW w \in Workers, Crash(w) \/ Shutdown(w) \/ Exit(w)
    PROVE  LoopInv'
<1>1. UNCHANGED <<eligible, withdrawn, due, cm>>
  BY DEF Crash, Shutdown, Exit, Requeue, contacts, rows, broker
<1>2. ASSUME NEW s \in Slot \ SlotsOf(w) PROVE LoopFit(s)'
  <2>1. /\ pc'[s] = pc[s] /\ attempt'[s] = attempt[s] /\ todo'[s] = todo[s]
        /\ cur'[s] = cur[s] /\ out'[s] = out[s] /\ frame'[s] = frame[s]
    BY DEF Crash, Shutdown, Exit, Restart, handler
  <2>2. Open(s)' = Open(s)
    BY SlotParts DEF Crash, Shutdown, Exit, Open, IInv, TypeOK
  <2>. QED BY <1>1, <2>1, <2>2, LoopKept DEF LoopInv, Known
<1>3. ASSUME NEW s \in Slot, s \in SlotsOf(w) PROVE LoopFit(s)'
  <2>1. CASE Crash(w) \/ Exit(w)
    <3>1. pc'[s] = "idle" /\ todo'[s] = {} /\ cur'[s] = NoContact /\ out'[s] = <<>>
          /\ frame'[s] = "none"
      BY <1>3, <2>1 DEF Crash, Exit, Restart
    <3>. QED BY <3>1 DEF LoopFit
  <2>2. CASE Shutdown(w)
    <3>1. UNCHANGED handler /\ out[s] = <<>> /\ frame[s] = "none"
      BY <1>3, <2>2 DEF Shutdown
    <3>. QED BY <1>1, <3>1, LoopKept DEF LoopInv, handler, Known
  <2>. QED BY <2>1, <2>2
<1>4. KnownInv'
  BY <1>1, KnownKept DEF Known
<1>. QED BY <1>2, <1>3, <1>4 DEF LoopInv

\* The steps that leave every handler alone.
LEMMA AsideLoop ==
    ASSUME IInv, LoopInv, UNCHANGED <<handler, closing>>, Known \subseteq Known',
           \A c \in Contacts : cm'[c] # "none" => cm[c] # "none" \/ c \in Known',
           \A c \in Contacts : due'[c] > 0 => due[c] > 0 \/ c \in Known'
    PROVE  LoopInv'
<1>1. ASSUME NEW s \in Slot PROVE LoopFit(s)'
  BY LoopKept DEF LoopInv, handler, Open
<1>2. KnownInv'
  BY KnownKept
<1>. QED BY <1>1, <1>2 DEF LoopInv

LEMMA LoopInductive == ASSUME IInv, LoopInv, [Next]_vars PROVE LoopInv'
<1>1. ASSUME NEW c \in Contacts, SetConsent(c) PROVE LoopInv'
  <2>1. Known \subseteq Known' /\ UNCHANGED <<handler, closing, cm, due>>
    BY <1>1 DEF SetConsent, Known, broker, rows, process
  <2>. QED BY <2>1, AsideLoop
<1>2. ASSUME NEW c \in Contacts, Settle(c) PROVE LoopInv'
  <2>1. UNCHANGED <<handler, closing, due, eligible, withdrawn>>
    BY <1>2 DEF Settle, broker, contacts, process
  <2>2. \A d \in Contacts : cm'[d] # "none" => cm[d] # "none"
    BY <1>2 DEF Settle, IInv, TypeOK, JobInv, HasRows
  <2>. QED BY <2>1, <2>2, AsideLoop DEF Known
<1>3. ASSUME NEW r \in Requests, Launch(r) PROVE LoopInv'
  <2>1. UNCHANGED <<handler, closing, due, eligible, withdrawn, cm>>
    BY <1>3 DEF Launch, LaunchSelect, LaunchUpdate, LaunchPublish, broker, contacts, process, rows
  <2>. QED BY <2>1, AsideLoop DEF Known
<1>4. CASE LaunchFlush
  <2>1. UNCHANGED <<handler, closing, eligible, withdrawn, cm>>
    BY <1>4 DEF LaunchFlush, contacts, process, rows
  <2>2. \A c \in Contacts : due'[c] = due[c] \/ c \in eligible
    BY <1>4 DEF LaunchFlush
  <2>. QED BY <2>1, <2>2, AsideLoop DEF Known
<1>5. CASE ApiCrash
  <2>1. UNCHANGED <<handler, closing, due, eligible, withdrawn, cm>>
    BY <1>5 DEF ApiCrash, broker, contacts, process, rows
  <2>. QED BY <2>1, AsideLoop DEF Known
<1>6. ASSUME NEW a \in Attempts, Expire(a) PROVE LoopInv'
  <2>1. UNCHANGED <<handler, closing, due, eligible, withdrawn, cm>>
    BY <1>6 DEF Expire, contacts, process, rows
  <2>. QED BY <2>1, AsideLoop DEF Known
<1>7. CASE UNCHANGED vars
  <2>1. UNCHANGED <<handler, closing, due, eligible, withdrawn, cm>>
    BY <1>7 DEF vars, broker, contacts, process, rows
  <2>. QED BY <2>1, AsideLoop DEF Known
<1>8. ASSUME NEW s \in Slot, Handle(s) PROVE LoopInv'
  BY <1>8, HandleLoop
<1>9. ASSUME NEW s \in Slot, NEW a \in Attempts, Deliver(s, a) PROVE LoopInv'
  BY <1>9, DeliverLoop
<1>10. ASSUME NEW w \in Workers, Crash(w) \/ Shutdown(w) \/ Exit(w) PROVE LoopInv'
  BY <1>10, StopLoop
<1>. QED BY <1>1, <1>2, <1>3, <1>4, <1>5, <1>6, <1>7, <1>8, <1>9, <1>10 DEF Next

LEMMA LoopHolds == Spec => [](IInv /\ LoopInv)
<1>1. Init => LoopInv
  <2>. SUFFICES ASSUME Init PROVE LoopInv
    OBVIOUS
  <2>1. ASSUME NEW s \in Slot PROVE LoopFit(s)
    BY DEF Init, LoopFit
  <2>2. KnownInv
    BY DEF Init, KnownInv
  <2>. QED BY <2>1, <2>2 DEF LoopInv
<1>2. IInv /\ LoopInv /\ [Next]_vars => LoopInv'
  BY LoopInductive
<1>. QED BY <1>1, <1>2, IInvHolds, PTL DEF Spec

-----------------------------------------------------------------------------
(***************************************************************************)
(* What a contact may still get of a handler: a job it has in hand, with   *)
(* the attempt number it runs under, and one of each later attempt, as     *)
(* long as it owes its launch job.  It carries the contact while it is     *)
(* sure to reach it, to hand its launch job on or to park it.              *)
(***************************************************************************)
Buffered(s, c) == \E i \in DOMAIN out[s] : out[s][i] = c
InHand(s, c) == c \in todo[s] \/ cur[s] = c \/ Buffered(s, c)
Left(s, c) ==
    {k \in Attempts : Owing(s) /\ \/ k > attempt[s]
                                  \/ k = attempt[s] /\ (pc[s] = "load" \/ InHand(s, c))}
Carries(s, c) == Owing(s) /\ (pc[s] \in {"load", "catch"} \/ frame[s] # "none" \/ InHand(s, c))

\* A slot whose handler and process are as before.
LEMMA SameSlot ==
    ASSUME NEW s \in Slot, pc'[s] = pc[s], attempt'[s] = attempt[s], todo'[s] = todo[s],
           cur'[s] = cur[s], out'[s] = out[s], frame'[s] = frame[s], Open(s)' = Open(s)
    PROVE  /\ Owing(s)' = Owing(s)
           /\ \A c : /\ InHand(s, c)' = InHand(s, c) /\ Left(s, c)' = Left(s, c)
                     /\ Carries(s, c)' = Carries(s, c)
<1>1. Owing(s)' = Owing(s)
  BY DEF Owing
<1>2. \A c : InHand(s, c)' = InHand(s, c)
  BY DEF InHand, Buffered
<1>. QED BY <1>1, <1>2 DEF Left, Carries

\* A quiet step gives no contact more, and drops none that is eligible.
LEMMA QuietTodo ==
    ASSUME IInv, LoopInv, NEW s \in Slot, Quiet(s), NEW c \in Contacts
    PROVE  /\ Left(s, c)' \subseteq Left(s, c)
           /\ Carries(s, c) /\ c \in eligible => Carries(s, c)'
<1>1. /\ out[s] \in Seq(Contacts) /\ c # NoContact /\ LoopFit(s)
      /\ pc[s] \in {"target", "mirror", "publish"} <=> cur[s] # NoContact
      /\ frame[s] # "none" => pc[s] = "ack"
      /\ Open(s)' = Open(s)
  BY SMTT(30), ContactsAssumption, OthersStay DEF IInv, TypeOK, SlotInv, Fit, LoopInv, Open
<1>2. CASE pc[s] = "publish" /\ Open(s)
  <2>1. /\ pc'[s] \in {"row", "ack_ok"}
        /\ todo'[s] = todo[s] /\ cur'[s] = NoContact /\ out'[s] = Append(out[s], cur[s])
        /\ frame'[s] = frame[s] /\ attempt'[s] = attempt[s]
    BY <1>2, QuietStep DEF IInv
  <2>2. /\ DOMAIN out'[s] = 1..(Len(out[s]) + 1) /\ DOMAIN out[s] = 1..Len(out[s])
        /\ Len(out[s]) \in Nat
        /\ \A i \in 1..Len(out[s]) : out'[s][i] = out[s][i]
        /\ out'[s][Len(out[s]) + 1] = cur[s]
    BY <1>1, <1>2, <2>1
  <2>3. InHand(s, c)' <=> InHand(s, c)
    <3>1. (\E i \in DOMAIN out'[s] : out'[s][i] = c)
             <=> cur[s] = c \/ \E i \in DOMAIN out[s] : out[s][i] = c
      BY <2>2
    <3>. QED BY <1>1, <2>1, <3>1 DEF InHand, Buffered
  <2>4. Owing(s)' /\ Owing(s)
    BY <1>1, <1>2, <2>1 DEF Owing
  <2>. QED BY <1>1, <1>2, <2>1, <2>3, <2>4 DEF Left, Carries
<1>3. CASE ~(pc[s] = "publish" /\ Open(s))
  <2>1. out'[s] = out[s] /\ pc[s] # "idle" /\ pc'[s] # "load"
        /\ (attempt'[s] = attempt[s] \/ pc'[s] = "idle")
    BY <1>3, QuietStep DEF IInv
  <2>6. InHand(s, c) <=> c \in todo[s] \/ cur[s] = c \/ Buffered(s, c)
    BY DEF InHand
  <2>7. InHand(s, c)' <=> c \in todo'[s] \/ cur'[s] = c \/ Buffered(s, c)'
    BY DEF InHand
  <2>8. Buffered(s, c)' <=> Buffered(s, c)
    BY <2>1 DEF Buffered
  <2>2. Owing(s)' => Owing(s)
    BY <1>1, <1>3, QuietStep DEF IInv, Owing
  <2>3. InHand(s, c)' => InHand(s, c) \/ pc[s] = "load"
    <3>1. c \in todo'[s] \/ cur'[s] = c => c \in todo[s] \/ cur[s] = c \/ pc[s] = "load"
      BY <1>1, <1>3, QuietStep DEF IInv
    <3>. QED BY <2>6, <2>7, <2>8, <3>1
  <2>4. Left(s, c)' \subseteq Left(s, c)
    <3>. SUFFICES ASSUME NEW k \in Left(s, c)' PROVE k \in Left(s, c)
      OBVIOUS
    <3>1. k \in Attempts /\ Owing(s)' /\ attempt'[s] = attempt[s]
          /\ (k > attempt'[s] \/ (k = attempt'[s] /\ InHand(s, c)'))
      BY <2>1 DEF Left, Owing
    <3>. QED BY <2>2, <2>3, <3>1 DEF Left
  <2>5. ASSUME Carries(s, c), c \in eligible PROVE Carries(s, c)'
    <3>1. Open(s) /\ Open(s)' /\ Owing(s)
      BY <1>1, <2>5 DEF Carries, Owing
    <3>2. CASE pc[s] = "load" /\ pc'[s] \in {"row", "ack_ok"}
      <4>1. c \in todo'[s]
        BY <2>5, <3>2, QuietStep DEF IInv
      <4>. QED BY <3>1, <3>2, <4>1 DEF Carries, Owing, InHand
    <3>3. CASE pc'[s] \in {"catch", "ack"}
      <4>1. pc'[s] = "ack" => frame'[s] # "none"
        BY <1>3, <3>3, QuietStep DEF IInv
      <4>. QED BY <3>1, <3>3, <4>1 DEF Carries, Owing
    <3>4. CASE pc[s] = "row" /\ pc'[s] = "target"
      <4>1. InHand(s, c)
        BY <1>1, <2>5, <3>4 DEF Carries
      <4>2. c \in todo[s] \/ cur[s] = c => c \in todo'[s] \/ cur'[s] = c
        BY <1>1, <3>4, QuietStep DEF IInv
      <4>3. InHand(s, c)'
        BY <2>6, <2>7, <2>8, <4>1, <4>2
      <4>. QED BY <3>1, <3>4, <4>3 DEF Carries, Owing
    <3>5. CASE pc[s] \in {"target", "mirror"} /\ pc'[s] \in {"mirror", "publish"}
      <4>1. InHand(s, c)
        BY <1>1, <2>5, <3>5 DEF Carries
      <4>2. todo'[s] = todo[s] /\ cur'[s] = cur[s]
        BY <3>5, QuietStep DEF IInv
      <4>3. InHand(s, c)'
        BY <2>6, <2>7, <2>8, <4>1, <4>2
      <4>. QED BY <3>1, <3>5, <4>3 DEF Carries, Owing
    <3>6. CASE pc'[s] = "idle"
      <4>1. pc[s] \in {"ack", "ack_ok"} /\ out[s] = <<>> /\ frame[s] = "none"
        BY <3>6, QuietStep DEF IInv
      <4>2. ~InHand(s, c)
        BY <1>1, <4>1 DEF InHand, Buffered, LoopFit
      <4>. QED BY <2>5, <4>1, <4>2 DEF Carries
    <3>. QED BY <1>3, <3>2, <3>3, <3>4, <3>5, <3>6, QuietStep DEF IInv
  <2>. QED BY <2>4, <2>5
<1>. QED BY <1>2, <1>3

\* The broker receives a send job: its contact is out of the handler's hands.
LEMMA FlushJobTodo ==
    ASSUME IInv, LoopInv, NEW s \in Slot, FlushJob(s)
    PROVE  \E h \in Contacts :
           /\ attempt[s] \in Attempts
           /\ attempt[s] \in Left(s, h) /\ attempt[s] \notin Left(s, h)'
           /\ \A c \in Contacts : Left(s, c)' \subseteq Left(s, c)
           /\ \A c \in Contacts : c # h /\ Carries(s, c) => Carries(s, c)'
           /\ issued' = [issued EXCEPT ![h] = @ + 1] /\ jobs' = [jobs EXCEPT ![h] = @ + 1]
           /\ UNCHANGED <<broker, eligible, withdrawn, rows>>
<1>1. /\ out[s] \in Seq(Contacts) /\ out[s] # <<>> /\ LoopFit(s)
      /\ out'[s] = Tail(out[s]) /\ UNCHANGED <<pc, attempt, todo, cur, frame, closing>>
  BY DEF IInv, TypeOK, FlushJob, LoopInv, process
<1>0. PICK h \in Contacts : h = Head(out[s])
  BY <1>1
<1>2. /\ h \in Contacts /\ 1 \in DOMAIN out[s] /\ h = out[s][1]
      /\ \A i \in DOMAIN out'[s] : i \in Nat /\ i > 0 /\ i + 1 \in DOMAIN out[s]
                                   /\ out'[s][i] = out[s][i + 1]
      /\ \A i \in DOMAIN out[s] : i = 1 \/ (i - 1 \in DOMAIN out'[s] /\ out'[s][i - 1] = out[s][i])
  BY <1>0, <1>1
<1>3. pc[s] \notin {"idle", "load"} /\ Open(s) /\ Owing(s) /\ (Owing(s)' <=> Owing(s))
  BY <1>1 DEF LoopFit, Owing, Open
<1>4. attempt[s] \in Attempts /\ attempt[s] \in Nat
  <2>1. attempt[s] \in 0..MaxAttempts /\ attempt[s] # 0
    BY <1>3 DEF IInv, TypeOK, Owing
  <2>. QED BY <2>1, AttemptsAssumption DEF Attempts
<1>5. InHand(s, h)
  BY <1>2 DEF InHand, Buffered
<1>6. ~InHand(s, h)'
  <2>1. \A i \in DOMAIN out'[s] : out'[s][i] # h
    <3>. SUFFICES ASSUME NEW i \in DOMAIN out'[s], out'[s][i] = h PROVE FALSE
      OBVIOUS
    <3>1. i + 1 = 1 /\ i \in Nat /\ i > 0
      BY <1>1, <1>2 DEF LoopFit
    <3>. QED BY <3>1
  <2>2. h \notin todo[s] /\ cur[s] # h
    BY <1>1, <1>2 DEF LoopFit
  <2>. QED BY <1>1, <2>1, <2>2 DEF InHand, Buffered
<1>7. ASSUME NEW c \in Contacts
      PROVE  /\ InHand(s, c)' => InHand(s, c)
             /\ c # h /\ InHand(s, c) => InHand(s, c)'
  <2>1. (\E i \in DOMAIN out'[s] : out'[s][i] = c) => \E i \in DOMAIN out[s] : out[s][i] = c
    BY <1>2
  <2>2. c # h /\ (\E i \in DOMAIN out[s] : out[s][i] = c) => \E i \in DOMAIN out'[s] : out'[s][i] = c
    BY <1>2
  <2>. QED BY <1>1, <2>1, <2>2 DEF InHand, Buffered
<1>8. attempt[s] \in Left(s, h) /\ attempt[s] \notin Left(s, h)'
  BY <1>1, <1>3, <1>4, <1>5, <1>6 DEF Left
<1>9. \A c \in Contacts : Left(s, c)' \subseteq Left(s, c)
  BY <1>1, <1>3, <1>7 DEF Left
<1>10. \A c \in Contacts : c # h /\ Carries(s, c) => Carries(s, c)'
  BY <1>1, <1>3, <1>7 DEF Carries
<1>11. /\ issued' = [issued EXCEPT ![h] = @ + 1] /\ jobs' = [jobs EXCEPT ![h] = @ + 1]
       /\ UNCHANGED <<broker, eligible, withdrawn, rows>>
  BY <1>0 DEF FlushJob, contacts
<1>. QED BY <1>4, <1>8, <1>9, <1>10, <1>11

\* The broker receives the retry or the parked job: the handler owes nothing more.
LEMMA FlushFrameTodo ==
    ASSUME IInv, LoopInv, NEW s \in Slot, FlushFrame(s)
    PROVE  /\ Owing(s) /\ ~Owing(s)' /\ attempt[s] \in Attempts
           /\ \/ /\ frame[s] = "next" /\ attempt[s] + 1 \in Attempts
                 /\ retry' = [retry EXCEPT ![attempt[s] + 1] = @ + 1] /\ dlq' = dlq
              \/ /\ frame[s] = "dlq" /\ retry' = retry
                 /\ dlq' = [dlq EXCEPT ![MaxAttempts] = @ + 1]
           /\ UNCHANGED <<ready, sending, launched, due, redelivered, eligible, withdrawn, rows>>
<1>1. /\ pc[s] = "ack" /\ frame[s] # "none" /\ Open(s)
      /\ frame[s] = "next" => attempt[s] < MaxAttempts
      /\ frame[s] = "dlq" => attempt[s] = MaxAttempts
      /\ attempt[s] \in 0..MaxAttempts /\ attempt[s] # 0
  BY DEF IInv, TypeOK, SlotInv, Fit, FlushFrame, LoopInv, LoopFit
<1>2. attempt[s] \in Attempts /\ (frame[s] = "next" => attempt[s] + 1 \in Attempts)
  BY <1>1, AttemptsAssumption DEF Attempts
<1>3. pc'[s] = "ack" /\ frame'[s] = "none"
  BY <1>1 DEF FlushFrame, IInv, TypeOK
<1>. QED BY <1>1, <1>2, <1>3 DEF FlushFrame, Owing, contacts

-----------------------------------------------------------------------------
(***************************************************************************)
(* A launch job holds, for each contact, a token for every attempt it may  *)
(* still be expanded in: in a queue those from its own on, at a handler    *)
(* what is Left there.  A send job spends one, and a job of the API or one *)
(* handed out anew brings at most MAX_ATTEMPTS.                            *)
(***************************************************************************)
Copies(q) == Chances(MaxAttempts, q)
HandlerTokens(c) == {u \in Slot \X Attempts : u[2] \in Left(u[1], c)}
Total(c) == Cardinality(Copies(ready)) + Cardinality(Copies(retry))
            + Cardinality(HandlerTokens(c))
WithinBudget(c) == /\ IsFiniteSet(Copies(ready)) /\ IsFiniteSet(Copies(retry))
                   /\ issued[c] + Total(c) <= MaxAttempts * (launched + redelivered)

LEMMA AttemptsAreTries == Count(MaxAttempts) /\ Attempts = Tries(MaxAttempts)
  BY AttemptsAssumption DEF Count, Tries, Attempts

\* The attempts from a on are as many tokens of a handler.
LEMMA RowOfTokens ==
    ASSUME NEW x, NEW a \in Attempts
    PROVE  /\ IsFiniteSet({x} \X (a..MaxAttempts))
           /\ Cardinality({x} \X (a..MaxAttempts)) = MaxAttempts + 1 - a
           /\ MaxAttempts + 1 - a \in Nat /\ a..MaxAttempts \subseteq Attempts
<1>1. a \in Tries(MaxAttempts) /\ Count(MaxAttempts)
  BY AttemptsAreTries
<1>2. a..MaxAttempts \subseteq Attempts
  BY AttemptsAssumption DEF Attempts
<1>. QED BY <1>1, <1>2, RowOfChances

LEMMA OneCopy ==
    ASSUME NEW q \in [Attempts -> Nat], NEW a \in Attempts, IsFiniteSet(Copies(q)), NEW p
    PROVE  /\ p = [q EXCEPT ![a] = @ + 1] =>
                /\ IsFiniteSet(Copies(p)) /\ Cardinality(Copies(p)) \in Nat
                /\ Cardinality(Copies(p)) = Cardinality(Copies(q)) + (MaxAttempts + 1 - a)
           /\ p = [q EXCEPT ![a] = @ - 1] /\ q[a] > 0 =>
                /\ IsFiniteSet(Copies(p)) /\ Cardinality(Copies(p)) \in Nat
                /\ Cardinality(Copies(q)) = Cardinality(Copies(p)) + (MaxAttempts + 1 - a)
           /\ Cardinality(Copies(q)) \in Nat
<1>1. /\ q \in [Tries(MaxAttempts) -> Nat] /\ a \in Tries(MaxAttempts) /\ Count(MaxAttempts)
      /\ IsFiniteSet(Chances(MaxAttempts, q))
  BY AttemptsAreTries DEF Copies
<1>. QED BY <1>1, OneChance DEF Copies

LEMMA SlotsFinite ==
    /\ IsFiniteSet(Slot)
    /\ \A w \in Workers : SlotsOf(w) \in SUBSET Slot /\ IsFiniteSet(SlotsOf(w))
<1>1. IsFiniteSet(1..Prefetch)
  BY WorkersAssumption, FS_Interval
<1>2. IsFiniteSet(Slot)
  BY <1>1, WorkersAssumption, FS_Product DEF Slot
<1>3. \A w \in Workers : SlotsOf(w) \in SUBSET Slot
  BY DEF Slot, SlotsOf
<1>. QED BY <1>2, <1>3, FS_Subset

\* The tokens of handlers are finitely many.
LEMMA HandlerTokensFinite ==
    ASSUME NEW c
    PROVE  /\ IsFiniteSet(HandlerTokens(c)) /\ Cardinality(HandlerTokens(c)) \in Nat
           /\ \A T \in SUBSET HandlerTokens(c) :
                 /\ IsFiniteSet(T) /\ Cardinality(T) \in Nat
                 /\ Cardinality(T) <= Cardinality(HandlerTokens(c))
<1>1. IsFiniteSet(Attempts)
  BY AttemptsAssumption, FS_Interval DEF Attempts
<1>2. IsFiniteSet(Slot \X Attempts)
  BY <1>1, SlotsFinite, FS_Product
<1>3. HandlerTokens(c) \in SUBSET (Slot \X Attempts)
  BY DEF HandlerTokens
<1>4. IsFiniteSet(HandlerTokens(c))
  BY <1>2, <1>3, FS_Subset
<1>. QED BY <1>4, FS_Subset, FS_CardinalityType

\* Tokens of handlers, by slot and attempt.
LEMMA HandlerToken ==
    ASSUME NEW c
    PROVE  /\ \A t \in Slot, k \in Attempts : <<t, k>> \in HandlerTokens(c) <=> k \in Left(t, c)
           /\ \A x \in HandlerTokens(c) : \E t \in Slot, k \in Attempts : x = <<t, k>>
  BY DEF HandlerTokens

\* A requeue brings at most MAX_ATTEMPTS tokens for each job handed out anew.
LEMMA RequeueTokens ==
    ASSUME IInv, NEW w \in Workers, Requeue(w), IsFiniteSet(Copies(ready))
    PROVE  /\ IsFiniteSet(Copies(ready')) /\ Cardinality(Busy(w)) * MaxAttempts \in Nat
           /\ Cardinality(Copies(ready'))
                 <= Cardinality(Copies(ready)) + Cardinality(Busy(w)) * MaxAttempts
           /\ Cardinality(Copies(ready)) \in Nat /\ Cardinality(Copies(ready')) \in Nat
           /\ redelivered' = redelivered + Cardinality(Busy(w))
           /\ Cardinality(Busy(w)) \in Nat
<1>. DEFINE B == Busy(w)
<1>1. ready \in [Attempts -> Nat] /\ ready' \in [Attempts -> Nat]
  BY RequeueType DEF IInv, TypeOK
<1>2. \A a \in Attempts : ready'[a] = ready[a] + Cardinality({s \in B : attempt[s] = a})
  BY DEF Requeue
<1>3. IsFiniteSet(B) /\ Cardinality(B) \in Nat
  <2>1. B \in SUBSET SlotsOf(w)
    BY DEF Busy
  <2>. QED BY <2>1, SlotsFinite, FS_Subset, FS_CardinalityType
<1>4. \A s \in B : attempt[s] \in Attempts
  <2>1. \A s \in B : s \in Slot /\ pc[s] # "idle"
    BY SlotsFinite DEF Busy
  <2>2. \A s \in B : attempt[s] \in 0..MaxAttempts /\ attempt[s] # 0
    BY <2>1 DEF IInv, TypeOK
  <2>. QED BY <2>2, AttemptsAssumption DEF Attempts
<1>5. /\ IsFiniteSet(Copies(ready')) /\ Cardinality(B) * MaxAttempts \in Nat
      /\ Cardinality(Copies(ready')) <= Cardinality(Copies(ready)) + Cardinality(B) * MaxAttempts
      /\ Cardinality(Copies(ready)) \in Nat /\ Cardinality(Copies(ready')) \in Nat
  <2>. HIDE DEF B
  <2>. QED BY <1>1, <1>2, <1>3, <1>4, AttemptsAreTries, RequeuedChances DEF Copies
<1>6. redelivered' = redelivered + Cardinality(B)
  BY DEF Requeue
<1>. QED BY <1>3, <1>5, <1>6

\* The bound is a number, and grows with what is launched or handed out anew.
LEMMA BoundType ==
    ASSUME IInv, NEW c \in Contacts
    PROVE  /\ MaxAttempts * (launched + redelivered) \in Nat /\ issued[c] \in Nat
           /\ \A n \in Nat : MaxAttempts * (launched + redelivered) + n * MaxAttempts
                                = MaxAttempts * (launched + (redelivered + n))
           /\ MaxAttempts * (launched + redelivered) + MaxAttempts
                 = MaxAttempts * ((launched + 1) + redelivered)
<1>1. launched \in Nat /\ redelivered \in Nat /\ issued[c] \in Nat /\ MaxAttempts \in Nat
  BY AttemptsAssumption DEF IInv, TypeOK
<1>. QED BY <1>1

\* A step that issues nothing, leaves the queues alone and gives no handler more to do.
LEMMA NothingGained ==
    ASSUME IInv, NEW c \in Contacts, WithinBudget(c),
           UNCHANGED <<ready, retry, launched, redelivered>>, issued'[c] = issued[c],
           HandlerTokens(c)' \in SUBSET HandlerTokens(c)
    PROVE  WithinBudget(c)'
<1>1. /\ Cardinality(HandlerTokens(c)') \in Nat /\ Cardinality(HandlerTokens(c)) \in Nat
      /\ Cardinality(HandlerTokens(c)') <= Cardinality(HandlerTokens(c))
  BY HandlerTokensFinite
<1>2. Cardinality(Copies(ready)) \in Nat /\ Cardinality(Copies(retry)) \in Nat
  BY FS_CardinalityType DEF WithinBudget
<1>3. Total(c)' <= Total(c) /\ Total(c)' \in Nat /\ Total(c) \in Nat
  BY <1>1, <1>2 DEF Total
<1>. QED BY <1>3, BoundType DEF WithinBudget

\* The steps of slot s leave the tokens of the others where they are.
LEMMA OthersTokens ==
    ASSUME IInv, NEW s \in Slot, Handle(s), NEW c \in Contacts, Left(s, c)' \subseteq Left(s, c)
    PROVE  HandlerTokens(c)' \in SUBSET HandlerTokens(c)
<1>1. ASSUME NEW t \in Slot, t # s PROVE Left(t, c)' = Left(t, c)
  BY <1>1, HandleSteps, OthersStay, SameSlot DEF IInv, Open
<1>2. ASSUME NEW x \in HandlerTokens(c)' PROVE x \in HandlerTokens(c)
  <2>1. PICK t \in Slot, k \in Attempts : x = <<t, k>> /\ k \in Left(t, c)'
    BY DEF HandlerTokens
  <2>2. k \in Left(t, c)
    BY <1>1, <2>1
  <2>. QED BY <2>1, <2>2, HandlerToken
<1>. QED BY <1>2

LEMMA QuietBudget ==
    ASSUME IInv, LoopInv, NEW s \in Slot, Quiet(s), NEW c \in Contacts, WithinBudget(c)
    PROVE  WithinBudget(c)'
<1>1. Handle(s) /\ Left(s, c)' \subseteq Left(s, c)
  BY QuietTodo DEF Handle, Quiet
<1>2. UNCHANGED <<ready, retry, launched, redelivered, issued>>
  BY QuietKeepsQueues DEF broker, sending
<1>. QED BY <1>1, <1>2, OthersTokens, NothingGained

\* A send job spends a token.
LEMMA FlushJobBudget ==
    ASSUME IInv, LoopInv, NEW s \in Slot, FlushJob(s), NEW c \in Contacts, WithinBudget(c)
    PROVE  WithinBudget(c)'
<1>1. PICK h \in Contacts :
        /\ attempt[s] \in Attempts /\ attempt[s] \in Left(s, h) /\ attempt[s] \notin Left(s, h)'
        /\ \A d \in Contacts : Left(s, d)' \subseteq Left(s, d)
        /\ issued' = [issued EXCEPT ![h] = @ + 1]
        /\ UNCHANGED broker
  BY FlushJobTodo
<1>2. HandlerTokens(c)' \in SUBSET HandlerTokens(c) /\ UNCHANGED <<ready, retry, launched, redelivered>>
  BY <1>1, OthersTokens DEF Handle, broker
<1>3. CASE c # h
  <2>1. issued'[c] = issued[c]
    BY <1>1, <1>3 DEF IInv, TypeOK
  <2>. QED BY <1>2, <2>1, NothingGained
<1>4. CASE c = h
  <2>1. issued'[c] = issued[c] + 1
    BY <1>1, <1>4 DEF IInv, TypeOK
  <2>2. <<s, attempt[s]>> \in HandlerTokens(c) /\ <<s, attempt[s]>> \notin HandlerTokens(c)'
    <3>1. <<s, attempt[s]>> \in HandlerTokens(c)
      BY <1>1, <1>4, HandlerToken
    <3>2. ASSUME <<s, attempt[s]>> \in HandlerTokens(c)' PROVE FALSE
      BY <1>1, <1>4, <3>2 DEF HandlerTokens
    <3>. QED BY <3>1, <3>2
  <2>. DEFINE H == HandlerTokens(c) \ {<<s, attempt[s]>>}
  <2>3. HandlerTokens(c)' \in SUBSET H
    BY <1>2, <2>2
  <2>4. IsFiniteSet(H) /\ Cardinality(H) = Cardinality(HandlerTokens(c)) - 1
    BY <2>2, HandlerTokensFinite, FS_RemoveElement
  <2>. HIDE DEF H
  <2>5. Cardinality(HandlerTokens(c)') <= Cardinality(H) /\ Cardinality(HandlerTokens(c)') \in Nat
    BY <2>3, <2>4, FS_Subset, FS_CardinalityType
  <2>6. /\ Cardinality(HandlerTokens(c)) \in Nat
        /\ Cardinality(Copies(ready)) \in Nat /\ Cardinality(Copies(retry)) \in Nat
    BY HandlerTokensFinite, FS_CardinalityType DEF WithinBudget
  <2>7. Total(c)' <= Total(c) - 1 /\ Total(c)' \in Nat /\ Total(c) \in Nat
    BY <1>2, <2>4, <2>5, <2>6 DEF Total
  <2>. QED BY <1>2, <2>1, <2>7, BoundType DEF WithinBudget
<1>. QED BY <1>3, <1>4

\* A retry moves the tokens of a handler to the copy it puts in the retry queue.
LEMMA FlushFrameBudget ==
    ASSUME IInv, LoopInv, NEW s \in Slot, FlushFrame(s), NEW c \in Contacts, WithinBudget(c)
    PROVE  WithinBudget(c)'
<1>1. /\ Owing(s) /\ ~Owing(s)' /\ attempt[s] \in Attempts
      /\ UNCHANGED <<ready, sending, launched, redelivered>>
  BY FlushFrameTodo
<1>2. Left(s, c)' = {}
  BY <1>1 DEF Left
<1>3. HandlerTokens(c)' \in SUBSET HandlerTokens(c)
  BY <1>2, OthersTokens DEF Handle
<1>4. CASE retry' = retry
  BY <1>1, <1>3, <1>4, NothingGained DEF sending
<1>5. CASE retry' # retry
  <2>1. PICK a \in Attempts : a = attempt[s] + 1 /\ retry' = [retry EXCEPT ![a] = @ + 1]
    BY <1>5, FlushFrameTodo
  <2>. DEFINE Row == {s} \X (a..MaxAttempts)
  <2>2. IsFiniteSet(Row) /\ Cardinality(Row) = MaxAttempts + 1 - a /\ MaxAttempts + 1 - a \in Nat
    BY RowOfTokens
  <2>3. ASSUME NEW k \in a..MaxAttempts
        PROVE  <<s, k>> \in HandlerTokens(c) /\ <<s, k>> \notin HandlerTokens(c)'
    <3>1. k \in Attempts /\ k > attempt[s]
      BY <1>1, <2>1, AttemptsAssumption DEF Attempts
    <3>2. k \in Left(s, c)
      BY <1>1, <3>1 DEF Left
    <3>3. <<s, k>> \in HandlerTokens(c)
      BY <3>1, <3>2, HandlerToken
    <3>4. ASSUME <<s, k>> \in HandlerTokens(c)' PROVE FALSE
      BY <1>2, <3>4 DEF HandlerTokens
    <3>. QED BY <3>3, <3>4
  <2>4. Row \subseteq HandlerTokens(c) /\ Row \cap HandlerTokens(c)' = {}
    BY <2>3
  <2>. HIDE DEF Row
  <2>5. /\ IsFiniteSet(HandlerTokens(c)') /\ Cardinality(HandlerTokens(c)') \in Nat
        /\ HandlerTokens(c)' \cup Row \in SUBSET HandlerTokens(c)
    BY <1>3, <2>4, HandlerTokensFinite
  <2>6. Cardinality(HandlerTokens(c)' \cup Row) = Cardinality(HandlerTokens(c)') + Cardinality(Row)
    BY <2>2, <2>4, <2>5, DisjointUnion
  <2>7. /\ Cardinality(HandlerTokens(c)' \cup Row) <= Cardinality(HandlerTokens(c))
        /\ Cardinality(HandlerTokens(c)) \in Nat
    BY <2>5, HandlerTokensFinite
  <2>8. /\ retry \in [Attempts -> Nat] /\ IsFiniteSet(Copies(retry))
        /\ Cardinality(Copies(ready)) \in Nat
    BY FS_CardinalityType DEF IInv, TypeOK, WithinBudget
  <2>9. /\ IsFiniteSet(Copies(retry')) /\ Cardinality(Copies(retry')) \in Nat
        /\ Cardinality(Copies(retry)) \in Nat
        /\ Cardinality(Copies(retry')) = Cardinality(Copies(retry)) + (MaxAttempts + 1 - a)
    BY <2>1, <2>8, OneCopy
  <2>10. Total(c)' <= Total(c) /\ Total(c)' \in Nat /\ Total(c) \in Nat
    <3>1. Total(c)' = Cardinality(Copies(ready)) + Cardinality(Copies(retry'))
                      + Cardinality(HandlerTokens(c)')
      BY <1>1 DEF Total
    <3>. QED BY <2>2, <2>5, <2>6, <2>7, <2>8, <2>9, <3>1 DEF Total
  <2>. QED BY <1>1, <2>9, <2>10, BoundType DEF WithinBudget, sending
<1>. QED BY <1>4, <1>5

\* A delivery moves a row of tokens from the queue to a handler.
LEMMA DeliverBudget ==
    ASSUME IInv, LoopInv, NEW s \in Slot, NEW a \in Attempts, Deliver(s, a),
           NEW c \in Contacts, WithinBudget(c)
    PROVE  WithinBudget(c)'
<1>1. UNCHANGED <<retry, launched, redelivered, issued, closing>>
  BY DEF Deliver, sending, process
<1>2. ASSUME NEW t \in Slot, t # s PROVE Left(t, c)' = Left(t, c)
  <2>1. /\ pc'[t] = pc[t] /\ attempt'[t] = attempt[t] /\ todo'[t] = todo[t]
        /\ cur'[t] = cur[t] /\ out'[t] = out[t] /\ frame'[t] = frame[t]
    BY <1>2 DEF Deliver, Goto, IInv, TypeOK
  <2>. QED BY <1>1, <2>1, SameSlot DEF Open
<1>3. Left(s, c) = {} /\ Left(s, c)' = a..MaxAttempts
  <2>1. pc[s] = "idle" /\ pc'[s] = "load" /\ attempt'[s] = a /\ Open(s)'
    BY <1>1 DEF Deliver, Goto, IInv, TypeOK, Open
  <2>. QED BY <2>1, AttemptsAssumption DEF Left, Owing, Attempts
<1>. DEFINE Row == {s} \X (a..MaxAttempts)
<1>4. /\ IsFiniteSet(Row) /\ Cardinality(Row) = MaxAttempts + 1 - a /\ MaxAttempts + 1 - a \in Nat
      /\ a..MaxAttempts \subseteq Attempts
  BY RowOfTokens
<1>5. HandlerTokens(c)' = HandlerTokens(c) \cup Row /\ HandlerTokens(c) \cap Row = {}
  <2>1. ASSUME NEW t \in Slot, NEW k \in Attempts
        PROVE  /\ <<t, k>> \in HandlerTokens(c)' <=> k \in Left(t, c)'
               /\ <<t, k>> \in HandlerTokens(c) <=> k \in Left(t, c)
    BY DEF HandlerTokens
  <2>2. \A x \in HandlerTokens(c) \cup HandlerTokens(c)' : \E t \in Slot, k \in Attempts : x = <<t, k>>
    BY DEF HandlerTokens
  <2>3. \A x \in Row : \E k \in Attempts : k \in a..MaxAttempts /\ x = <<s, k>>
    BY <1>4
  <2>4. \A k \in Attempts : <<s, k>> \in Row <=> k \in a..MaxAttempts
    OBVIOUS
  <2>. HIDE DEF Row
  <2>5. ASSUME NEW x \in HandlerTokens(c)' PROVE x \in HandlerTokens(c) \cup Row
    <3>1. PICK t \in Slot, k \in Attempts : x = <<t, k>>
      BY <2>2
    <3>. QED BY <1>2, <1>3, <2>1, <2>4, <3>1
  <2>6. ASSUME NEW x \in HandlerTokens(c) PROVE x \in HandlerTokens(c)' /\ x \notin Row
    <3>1. PICK t \in Slot, k \in Attempts : x = <<t, k>>
      BY <2>2
    <3>2. t # s
      BY <1>3, <2>1, <3>1
    <3>3. x \notin Row
      BY <2>3, <3>1, <3>2
    <3>. QED BY <1>2, <2>1, <3>1, <3>2, <3>3
  <2>7. ASSUME NEW x \in Row PROVE x \in HandlerTokens(c)'
    <3>1. PICK k \in Attempts : k \in a..MaxAttempts /\ x = <<s, k>>
      BY <2>3
    <3>. QED BY <1>3, <2>1, <3>1
  <2>. QED BY <2>5, <2>6, <2>7
<1>. HIDE DEF Row
<1>6. /\ Cardinality(HandlerTokens(c)) \in Nat
      /\ Cardinality(HandlerTokens(c)') = Cardinality(HandlerTokens(c)) + Cardinality(Row)
  BY <1>4, <1>5, HandlerTokensFinite, DisjointUnion
<1>7. /\ ready \in [Attempts -> Nat] /\ ready[a] > 0 /\ ready' = [ready EXCEPT ![a] = @ - 1]
      /\ IsFiniteSet(Copies(ready)) /\ Cardinality(Copies(retry)) \in Nat
  BY FS_CardinalityType DEF Deliver, IInv, TypeOK, WithinBudget
<1>8. /\ IsFiniteSet(Copies(ready')) /\ Cardinality(Copies(ready')) \in Nat
      /\ Cardinality(Copies(ready)) = Cardinality(Copies(ready')) + (MaxAttempts + 1 - a)
  BY <1>7, OneCopy
<1>9. Total(c)' = Total(c)
  <2>1. Total(c)' = Cardinality(Copies(ready')) + Cardinality(Copies(retry))
                    + Cardinality(HandlerTokens(c)')
    BY <1>1 DEF Total
  <2>. QED BY <1>4, <1>6, <1>7, <1>8, <2>1 DEF Total
<1>. QED BY <1>1, <1>8, <1>9 DEF WithinBudget

\* A step that leaves every handler alone.
LEMMA TokensKept ==
    ASSUME UNCHANGED <<handler, closing>>, NEW c PROVE HandlerTokens(c)' = HandlerTokens(c)
  BY DEF HandlerTokens, Left, InHand, Buffered, Owing, Open, handler

\* An expiration moves a row of tokens from one queue to the other.
LEMMA ExpireBudget ==
    ASSUME IInv, NEW a \in Attempts, Expire(a), NEW c \in Contacts, WithinBudget(c)
    PROVE  WithinBudget(c)'
<1>1. UNCHANGED <<launched, redelivered, issued, handler, closing>>
  BY DEF Expire, sending, process
<1>2. HandlerTokens(c)' = HandlerTokens(c)
  BY <1>1, TokensKept
<1>3. /\ ready \in [Attempts -> Nat] /\ retry \in [Attempts -> Nat] /\ retry[a] > 0
      /\ retry' = [retry EXCEPT ![a] = @ - 1] /\ ready' = [ready EXCEPT ![a] = @ + 1]
      /\ IsFiniteSet(Copies(ready)) /\ IsFiniteSet(Copies(retry))
  BY DEF Expire, IInv, TypeOK, WithinBudget
<1>4. /\ IsFiniteSet(Copies(ready')) /\ Cardinality(Copies(ready)) \in Nat
      /\ Cardinality(Copies(ready')) = Cardinality(Copies(ready)) + (MaxAttempts + 1 - a)
  BY <1>3, OneCopy
<1>5. /\ IsFiniteSet(Copies(retry')) /\ Cardinality(Copies(retry')) \in Nat
      /\ Cardinality(Copies(retry)) = Cardinality(Copies(retry')) + (MaxAttempts + 1 - a)
  BY <1>3, OneCopy
<1>6. Cardinality(HandlerTokens(c)) \in Nat /\ MaxAttempts + 1 - a \in Nat
  BY HandlerTokensFinite, RowOfTokens
<1>7. Total(c)' = Total(c)
  <2>1. Total(c)' = Cardinality(Copies(ready')) + Cardinality(Copies(retry'))
                    + Cardinality(HandlerTokens(c))
    BY <1>2 DEF Total
  <2>. QED BY <1>4, <1>5, <1>6, <2>1 DEF Total
<1>. QED BY <1>1, <1>4, <1>5, <1>7 DEF WithinBudget

\* A job of the API brings MAX_ATTEMPTS.
LEMMA LaunchFlushBudget ==
    ASSUME IInv, LaunchFlush, NEW c \in Contacts, WithinBudget(c)
    PROVE  WithinBudget(c)'
<1>1. UNCHANGED <<retry, redelivered, issued, handler, closing>> /\ launched' = launched + 1
  BY DEF LaunchFlush, sending, process
<1>2. HandlerTokens(c)' = HandlerTokens(c) /\ Cardinality(HandlerTokens(c)) \in Nat
  BY <1>1, TokensKept, HandlerTokensFinite
<1>3. /\ ready \in [Attempts -> Nat] /\ 1 \in Attempts /\ ready' = [ready EXCEPT ![1] = @ + 1]
      /\ IsFiniteSet(Copies(ready)) /\ Cardinality(Copies(retry)) \in Nat
  BY AttemptsAssumption, FS_CardinalityType DEF LaunchFlush, IInv, TypeOK, WithinBudget, Attempts
<1>4. /\ IsFiniteSet(Copies(ready')) /\ Cardinality(Copies(ready)) \in Nat
      /\ Cardinality(Copies(ready')) = Cardinality(Copies(ready)) + (MaxAttempts + 1 - 1)
  BY <1>3, OneCopy
<1>5. Total(c)' = Total(c) + MaxAttempts /\ Total(c) \in Nat
  <2>1. Total(c)' = Cardinality(Copies(ready')) + Cardinality(Copies(retry))
                    + Cardinality(HandlerTokens(c))
    BY <1>1, <1>2 DEF Total
  <2>. QED BY <1>2, <1>3, <1>4, <2>1, AttemptsAssumption DEF Total
<1>. QED BY <1>1, <1>4, <1>5, BoundType, AttemptsAssumption DEF WithinBudget

\* The end of a process pays for what it hands out anew with the redeliveries it counts.
LEMMA StopBudget ==
    ASSUME IInv, LoopInv, NEW w \in Workers, Crash(w) \/ Shutdown(w) \/ Exit(w),
           NEW c \in Contacts, WithinBudget(c)
    PROVE  WithinBudget(c)'
<1>1. UNCHANGED <<retry, launched, issued>>
  BY DEF Crash, Shutdown, Exit, Requeue, broker, sending
<1>2. ASSUME NEW t \in Slot PROVE Left(t, c)' \subseteq Left(t, c)
  <2>1. CASE pc'[t] = "idle"
    BY <2>1 DEF Left, Owing
  <2>2. CASE pc'[t] # "idle"
    <3>1. /\ pc'[t] = pc[t] /\ attempt'[t] = attempt[t] /\ todo'[t] = todo[t]
          /\ cur'[t] = cur[t] /\ out'[t] = out[t] /\ frame'[t] = frame[t]
      BY <2>2 DEF Crash, Shutdown, Exit, Restart, handler, IInv, TypeOK
    <3>4. Open(t)' => Open(t)
      <4>1. CASE Crash(w)
        BY <4>1 DEF Crash, Open
      <4>2. CASE Shutdown(w)
        BY <4>2, SlotParts DEF Shutdown, Open, IInv, TypeOK
      <4>3. CASE Exit(w)
        <5>1. t \notin SlotsOf(w)
          BY <2>2, <4>3 DEF Exit, Restart
        <5>. QED BY <4>3, <5>1, SlotParts DEF Exit, Open, IInv, TypeOK
      <4>. QED BY <4>1, <4>2, <4>3
    <3>2. CASE ~Open(t)'
      BY <3>2 DEF Left, Owing
    <3>3. CASE Open(t)'
      BY <3>1, <3>3, <3>4, SameSlot DEF Open
    <3>. QED BY <3>2, <3>3
  <2>. QED BY <2>1, <2>2
<1>3. HandlerTokens(c)' \in SUBSET HandlerTokens(c)
  <2>1. ASSUME NEW x \in HandlerTokens(c)' PROVE x \in HandlerTokens(c)
    <3>1. PICK t \in Slot, k \in Attempts : x = <<t, k>> /\ k \in Left(t, c)'
      BY DEF HandlerTokens
    <3>. QED BY <1>2, <3>1, HandlerToken
  <2>. QED BY <2>1
<1>4. CASE Crash(w) \/ Shutdown(w)
  <2>. DEFINE b == Cardinality(Busy(w))
  <2>1. Requeue(w) /\ IsFiniteSet(Copies(ready)) /\ IsFiniteSet(Copies(retry))
    BY <1>4 DEF Crash, Shutdown, WithinBudget
  <2>2. /\ IsFiniteSet(Copies(ready')) /\ b \in Nat /\ b * MaxAttempts \in Nat
        /\ Cardinality(Copies(ready')) <= Cardinality(Copies(ready)) + b * MaxAttempts
        /\ Cardinality(Copies(ready)) \in Nat /\ Cardinality(Copies(ready')) \in Nat
        /\ redelivered' = redelivered + b
    BY <2>1, RequeueTokens
  <2>3. /\ Cardinality(HandlerTokens(c)') \in Nat /\ Cardinality(HandlerTokens(c)) \in Nat
        /\ Cardinality(HandlerTokens(c)') <= Cardinality(HandlerTokens(c))
    BY <1>3, HandlerTokensFinite
  <2>. HIDE DEF b
  <2>4. Cardinality(Copies(retry)) \in Nat
    BY <2>1, FS_CardinalityType
  <2>5. Total(c)' <= Total(c) + b * MaxAttempts /\ Total(c)' \in Nat /\ Total(c) \in Nat
    BY <1>1, <2>2, <2>3, <2>4 DEF Total
  <2>6. /\ MaxAttempts * (launched + redelivered) \in Nat /\ issued[c] \in Nat
        /\ MaxAttempts * (launched + redelivered) + b * MaxAttempts
             = MaxAttempts * (launched + (redelivered + b))
    BY <2>2, BoundType
  <2>7. issued[c] + Total(c) <= MaxAttempts * (launched + redelivered)
    BY DEF WithinBudget
  <2>8. issued[c] + Total(c)' <= MaxAttempts * (launched + (redelivered + b))
    BY <2>2, <2>5, <2>6, <2>7
  <2>. QED BY <1>1, <2>1, <2>2, <2>8 DEF WithinBudget
<1>5. CASE Exit(w)
  <2>1. UNCHANGED <<ready, redelivered>>
    BY <1>5 DEF Exit, broker
  <2>. QED BY <1>1, <1>3, <2>1, NothingGained
<1>. QED BY <1>4, <1>5

(***************************************************************************)
(* Repeated loops repeat send jobs, but a contact gets at most             *)
(* MAX_ATTEMPTS of them for each time a launch job is handed out, for any  *)
(* contacts, workers, prefetch and attempts.                               *)
(***************************************************************************)
THEOREM IssuedBoundedHolds == Spec => []IssuedBounded
<1>. DEFINE Budget == \A c \in Contacts : WithinBudget(c)
<1>1. Init => Budget
  <2>. SUFFICES ASSUME Init, NEW c \in Contacts PROVE WithinBudget(c)
    OBVIOUS
  <2>1. Copies(ready) = {} /\ Copies(retry) = {}
    BY AttemptsAreTries DEF Init, Copies, Chances, Tokens
  <2>2. HandlerTokens(c) = {}
    BY DEF Init, HandlerTokens, Left, Owing
  <2>3. Total(c) = 0 /\ IsFiniteSet(Copies(ready)) /\ IsFiniteSet(Copies(retry))
    BY <2>1, <2>2, FS_EmptySet DEF Total
  <2>. QED BY <2>3, AttemptsAssumption DEF WithinBudget, Init
<1>2. IInv /\ LoopInv /\ Budget /\ [Next]_vars => Budget'
  <2>. SUFFICES ASSUME IInv, LoopInv, [Next]_vars, NEW c \in Contacts, WithinBudget(c)
                PROVE  WithinBudget(c)'
    OBVIOUS
  <2>1. ASSUME NEW s \in Slot, Handle(s) PROVE WithinBudget(c)'
    BY <2>1, HandleSteps, QuietBudget, FlushJobBudget, FlushFrameBudget
  <2>2. ASSUME NEW s \in Slot, NEW a \in Attempts, Deliver(s, a) PROVE WithinBudget(c)'
    BY <2>2, DeliverBudget
  <2>3. ASSUME NEW a \in Attempts, Expire(a) PROVE WithinBudget(c)'
    BY <2>3, ExpireBudget
  <2>4. ASSUME NEW w \in Workers, Crash(w) \/ Shutdown(w) \/ Exit(w) PROVE WithinBudget(c)'
    BY <2>4, StopBudget
  <2>5. CASE LaunchFlush
    BY <2>5, LaunchFlushBudget
  <2>6. ASSUME UNCHANGED <<ready, retry, launched, redelivered, issued, handler, closing>>
        PROVE  WithinBudget(c)'
    BY <2>6, TokensKept, NothingGained
  <2>7. ASSUME NEW d \in Contacts, SetConsent(d) \/ Settle(d) PROVE WithinBudget(c)'
    BY <2>6, <2>7 DEF SetConsent, Settle, broker, sending, process
  <2>8. ASSUME NEW r \in Requests, Launch(r) PROVE WithinBudget(c)'
    BY <2>6, <2>8 DEF Launch, LaunchSelect, LaunchUpdate, LaunchPublish, broker, sending, process
  <2>9. CASE ApiCrash \/ UNCHANGED vars
    BY <2>6, <2>9 DEF ApiCrash, vars, broker, sending, process
  <2>. QED BY <2>1, <2>2, <2>3, <2>4, <2>5, <2>7, <2>8, <2>9 DEF Next
<1>3. IInv /\ Budget => IssuedBounded
  <2>. SUFFICES ASSUME IInv, NEW c \in Contacts, WithinBudget(c)
                PROVE  issued[c] <= MaxAttempts * (launched + redelivered)
    BY DEF IssuedBounded
  <2>1. Total(c) \in Nat
    BY HandlerTokensFinite, FS_CardinalityType DEF WithinBudget, Total
  <2>. QED BY <2>1, BoundType DEF WithinBudget
<1>. QED BY <1>1, <1>2, <1>3, LoopHolds, PTL DEF Spec

-----------------------------------------------------------------------------
(***************************************************************************)
(* A launch the broker got while a contact was eligible is still due, or   *)
(* covered: by a send job of the contact, by a parked launch job, by one   *)
(* in a queue, or by a handler that carries the contact.                   *)
(***************************************************************************)
Carriers(c) == {s \in Slot : Carries(s, c)}
Queued(q) == JobsIn(Attempts, q)
Cover(c) == issued[c] + dlq[MaxAttempts] + Cardinality(Queued(ready))
            + Cardinality(Queued(retry)) + Cardinality(Carriers(c))
QueuesFinite == IsFiniteSet(Queued(ready)) /\ IsFiniteSet(Queued(retry))
CoverInv == QueuesFinite /\ \A c \in Contacts \ withdrawn : due[c] <= Cover(c)

LEMMA OneQueued ==
    ASSUME NEW q \in [Attempts -> Nat], NEW a \in Attempts, IsFiniteSet(Queued(q)), NEW p
    PROVE  /\ p = [q EXCEPT ![a] = @ + 1] =>
                /\ IsFiniteSet(Queued(p)) /\ Cardinality(Queued(p)) \in Nat
                /\ Cardinality(Queued(p)) = Cardinality(Queued(q)) + 1
           /\ p = [q EXCEPT ![a] = @ - 1] /\ q[a] > 0 =>
                /\ IsFiniteSet(Queued(p)) /\ Cardinality(Queued(p)) \in Nat
                /\ Cardinality(Queued(q)) = Cardinality(Queued(p)) + 1
           /\ Cardinality(Queued(q)) \in Nat
<1>1. IsFiniteSet(JobsIn(Attempts, q))
  BY DEF Queued
<1>. QED BY <1>1, OneJob DEF Queued

LEMMA CarriersFinite ==
    ASSUME NEW c
    PROVE  /\ IsFiniteSet(Carriers(c)) /\ Cardinality(Carriers(c)) \in Nat
           /\ IsFiniteSet(Carriers(c)') /\ Cardinality(Carriers(c)') \in Nat
           /\ Carriers(c) \in SUBSET Carriers(c)' =>
                 Cardinality(Carriers(c)) <= Cardinality(Carriers(c)')
<1>1. Carriers(c) \in SUBSET Slot /\ Carriers(c)' \in SUBSET Slot
  BY DEF Carriers
<1>2. IsFiniteSet(Carriers(c)) /\ IsFiniteSet(Carriers(c)')
  BY <1>1, SlotsFinite, FS_Subset
<1>. QED BY <1>2, FS_Subset, FS_CardinalityType

\* What a cover is made of are numbers.
LEMMA CoverType ==
    ASSUME IInv, QueuesFinite, NEW c \in Contacts
    PROVE  /\ issued[c] \in Nat /\ due[c] \in Nat /\ dlq[MaxAttempts] \in Nat
           /\ Cardinality(Queued(ready)) \in Nat /\ Cardinality(Queued(retry)) \in Nat
           /\ Cardinality(Carriers(c)) \in Nat /\ Cover(c) \in Nat
<1>1. issued[c] \in Nat /\ due[c] \in Nat /\ dlq[MaxAttempts] \in Nat
  <2>1. MaxAttempts \in Attempts
    BY AttemptsAssumption DEF Attempts
  <2>. QED BY <2>1 DEF IInv, TypeOK
<1>2. /\ Cardinality(Queued(ready)) \in Nat /\ Cardinality(Queued(retry)) \in Nat
      /\ Cardinality(Carriers(c)) \in Nat
  BY CarriersFinite, FS_CardinalityType DEF QueuesFinite
<1>. QED BY <1>1, <1>2 DEF Cover

\* A slot that lets go of a contact takes one from its carriers.
LEMMA OneCarrierLess ==
    ASSUME NEW c, NEW s, Carriers(c) \ {s} \in SUBSET Carriers(c)'
    PROVE  /\ Cardinality(Carriers(c)) <= Cardinality(Carriers(c)') + 1
           /\ Cardinality(Carriers(c)) \in Nat /\ Cardinality(Carriers(c)') \in Nat
<1>1. IsFiniteSet(Carriers(c)') /\ Cardinality(Carriers(c)') \in Nat
  BY CarriersFinite
<1>2. /\ IsFiniteSet(Carriers(c)' \cup {s})
      /\ Cardinality(Carriers(c)' \cup {s}) <= Cardinality(Carriers(c)') + 1
  BY <1>1, FS_AddElement
<1>3. Carriers(c) \in SUBSET (Carriers(c)' \cup {s})
  OBVIOUS
<1>4. Cardinality(Carriers(c)) <= Cardinality(Carriers(c)' \cup {s})
  BY <1>2, <1>3, FS_Subset
<1>. QED BY <1>1, <1>2, <1>4, CarriersFinite, FS_CardinalityType

\* The steps of slot s leave the contacts the others carry.
LEMMA OthersCarry ==
    ASSUME IInv, NEW s \in Slot, Handle(s), NEW c
    PROVE  Carriers(c) \ {s} \in SUBSET Carriers(c)'
<1>1. ASSUME NEW t \in Slot, t # s PROVE Carries(t, c)' = Carries(t, c)
  BY <1>1, HandleSteps, OthersStay, SameSlot DEF IInv, Open
<1>. QED BY <1>1 DEF Carriers

\* A contact that is due and has not withdrawn its consent is eligible.
LEMMA DueIsEligible ==
    ASSUME IInv, LoopInv, NEW c \in Contacts \ withdrawn, due[c] > 0 \/ cm[c] # "none"
    PROVE  c \in eligible
  BY DEF LoopInv, KnownInv, Known

LEMMA QuietCover ==
    ASSUME IInv, LoopInv, NEW s \in Slot, Quiet(s), CoverInv
    PROVE  CoverInv'
<1>1. UNCHANGED <<ready, retry, dlq, due, issued, eligible, withdrawn>>
  BY QuietKeepsQueues, OthersStay DEF broker, sending, contacts, IInv
<1>2. QueuesFinite'
  BY <1>1 DEF CoverInv, QueuesFinite
<1>3. ASSUME NEW c \in Contacts \ withdrawn, due[c] > 0
      PROVE  due[c] <= Cover(c)'
  <2>1. Carriers(c) \in SUBSET Carriers(c)'
    <3>1. Carriers(c) \ {s} \in SUBSET Carriers(c)'
      BY OthersCarry DEF Handle, Quiet
    <3>2. Carries(s, c) => Carries(s, c)'
      BY <1>3, DueIsEligible, QuietTodo
    <3>. QED BY <3>1, <3>2 DEF Carriers
  <2>2. /\ Cardinality(Carriers(c)) <= Cardinality(Carriers(c)')
        /\ Cardinality(Carriers(c)') \in Nat
    BY <2>1, CarriersFinite
  <2>3. due[c] <= Cover(c)
    BY DEF CoverInv
  <2>4. /\ issued[c] \in Nat /\ due[c] \in Nat /\ dlq[MaxAttempts] \in Nat
        /\ Cardinality(Queued(ready)) \in Nat /\ Cardinality(Queued(retry)) \in Nat
        /\ Cardinality(Carriers(c)) \in Nat
    BY CoverType DEF CoverInv
  <2>5. Cover(c)' = issued[c] + dlq[MaxAttempts] + Cardinality(Queued(ready))
                    + Cardinality(Queued(retry)) + Cardinality(Carriers(c)')
    BY <1>1 DEF Cover
  <2>. QED BY <2>2, <2>3, <2>4, <2>5 DEF Cover
<1>4. ASSUME NEW c \in Contacts \ withdrawn, ~(due[c] > 0)
      PROVE  due[c] <= Cover(c)'
  <2>1. /\ issued[c] \in Nat /\ due[c] \in Nat /\ dlq[MaxAttempts] \in Nat
        /\ Cardinality(Queued(ready)) \in Nat /\ Cardinality(Queued(retry)) \in Nat
        /\ Cardinality(Carriers(c)') \in Nat
    BY CoverType, CarriersFinite DEF CoverInv
  <2>2. Cover(c)' = issued[c] + dlq[MaxAttempts] + Cardinality(Queued(ready))
                    + Cardinality(Queued(retry)) + Cardinality(Carriers(c)')
    BY <1>1 DEF Cover
  <2>. QED BY <1>4, <2>1, <2>2
<1>. QED BY <1>1, <1>2, <1>3, <1>4 DEF CoverInv

\* A send job of a contact covers what the handler carried for it.
LEMMA FlushJobCover ==
    ASSUME IInv, LoopInv, NEW s \in Slot, FlushJob(s), CoverInv
    PROVE  CoverInv'
<1>1. PICK h \in Contacts :
        /\ \A c \in Contacts : c # h /\ Carries(s, c) => Carries(s, c)'
        /\ issued' = [issued EXCEPT ![h] = @ + 1]
        /\ UNCHANGED <<broker, withdrawn>>
  BY FlushJobTodo
<1>2. UNCHANGED <<ready, retry, dlq, due, withdrawn>> /\ QueuesFinite'
  BY <1>1 DEF broker, CoverInv, QueuesFinite
<1>3. ASSUME NEW c \in Contacts \ withdrawn
      PROVE  due[c] <= Cover(c)'
  <2>1. Carriers(c) \ {s} \in SUBSET Carriers(c)'
    BY OthersCarry DEF Handle
  <2>2. Cardinality(Carriers(c)') \in Nat /\ Cardinality(Carriers(c)) <= Cardinality(Carriers(c)') + 1
    BY <2>1, OneCarrierLess
  <2>3. c # h => Cardinality(Carriers(c)) <= Cardinality(Carriers(c)')
    <3>1. ASSUME c # h PROVE Carriers(c) \in SUBSET Carriers(c)'
      BY <1>1, <2>1, <3>1 DEF Carriers
    <3>. QED BY <3>1, CarriersFinite
  <2>4. issued'[c] = IF c = h THEN issued[c] + 1 ELSE issued[c]
    BY <1>1 DEF IInv, TypeOK
  <2>5. /\ issued[c] \in Nat /\ due[c] \in Nat /\ dlq[MaxAttempts] \in Nat
        /\ Cardinality(Queued(ready)) \in Nat /\ Cardinality(Queued(retry)) \in Nat
        /\ Cardinality(Carriers(c)) \in Nat /\ due[c] <= Cover(c)
    BY CoverType DEF CoverInv
  <2>6. Cover(c)' = issued'[c] + dlq[MaxAttempts] + Cardinality(Queued(ready))
                    + Cardinality(Queued(retry)) + Cardinality(Carriers(c)')
    BY <1>2 DEF Cover
  <2>. QED BY <2>2, <2>3, <2>4, <2>5, <2>6 DEF Cover
<1>. QED BY <1>2, <1>3 DEF CoverInv

\* So does the retry or the parked job.
LEMMA FlushFrameCover ==
    ASSUME IInv, LoopInv, NEW s \in Slot, FlushFrame(s), CoverInv
    PROVE  CoverInv'
<1>1. /\ \/ /\ attempt[s] + 1 \in Attempts
            /\ retry' = [retry EXCEPT ![attempt[s] + 1] = @ + 1] /\ dlq' = dlq
         \/ retry' = retry /\ dlq' = [dlq EXCEPT ![MaxAttempts] = @ + 1]
      /\ UNCHANGED <<ready, issued, due, withdrawn>>
  BY FlushFrameTodo DEF sending
<1>2. MaxAttempts \in Attempts /\ dlq \in [Attempts -> Nat] /\ retry \in [Attempts -> Nat]
      /\ IsFiniteSet(Queued(retry)) /\ IsFiniteSet(Queued(ready))
  BY AttemptsAssumption DEF IInv, TypeOK, Attempts, CoverInv, QueuesFinite
<1>3. /\ IsFiniteSet(Queued(retry')) /\ Cardinality(Queued(retry')) \in Nat
      /\ dlq'[MaxAttempts] + Cardinality(Queued(retry'))
            = dlq[MaxAttempts] + Cardinality(Queued(retry)) + 1
      /\ dlq'[MaxAttempts] \in Nat
  <2>1. CASE dlq' = dlq
    <3>1. PICK a \in Attempts : retry' = [retry EXCEPT ![a] = @ + 1]
      BY <1>1, <1>2, <2>1
    <3>2. /\ IsFiniteSet(Queued(retry')) /\ Cardinality(Queued(retry')) \in Nat
          /\ Cardinality(Queued(retry')) = Cardinality(Queued(retry)) + 1
          /\ Cardinality(Queued(retry)) \in Nat
      BY <1>2, <3>1, OneQueued
    <3>. QED BY <1>2, <2>1, <3>2
  <2>2. CASE retry' = retry /\ dlq' = [dlq EXCEPT ![MaxAttempts] = @ + 1]
    <3>1. dlq'[MaxAttempts] = dlq[MaxAttempts] + 1 /\ dlq[MaxAttempts] \in Nat
      BY <1>2, <2>2
    <3>2. Cardinality(Queued(retry)) \in Nat
      BY <1>2, FS_CardinalityType
    <3>. QED BY <1>2, <2>2, <3>1, <3>2
  <2>. QED BY <1>1, <2>1, <2>2
<1>4. ASSUME NEW c \in Contacts \ withdrawn
      PROVE  due[c] <= Cover(c)'
  <2>1. Carriers(c) \ {s} \in SUBSET Carriers(c)'
    BY OthersCarry DEF Handle
  <2>2. Cardinality(Carriers(c)') \in Nat /\ Cardinality(Carriers(c)) <= Cardinality(Carriers(c)') + 1
    BY <2>1, OneCarrierLess
  <2>3. /\ issued[c] \in Nat /\ due[c] \in Nat /\ dlq[MaxAttempts] \in Nat
        /\ Cardinality(Queued(ready)) \in Nat /\ Cardinality(Queued(retry)) \in Nat
        /\ Cardinality(Carriers(c)) \in Nat /\ due[c] <= Cover(c)
    BY CoverType DEF CoverInv
  <2>4. Cover(c)' = issued[c] + dlq'[MaxAttempts] + Cardinality(Queued(ready))
                    + Cardinality(Queued(retry')) + Cardinality(Carriers(c)')
    BY <1>1 DEF Cover
  <2>. QED BY <1>3, <2>2, <2>3, <2>4 DEF Cover
<1>. QED BY <1>1, <1>2, <1>3, <1>4 DEF CoverInv, QueuesFinite

\* A delivered job is carried for every contact.
LEMMA DeliverCarries ==
    ASSUME IInv, NEW s \in Slot, NEW a \in Attempts, Deliver(s, a), NEW c
    PROVE  Carriers(c)' = Carriers(c) \cup {s} /\ s \notin Carriers(c)
<1>1. ASSUME NEW t \in Slot, t # s PROVE Carries(t, c)' = Carries(t, c)
  <2>1. /\ pc'[t] = pc[t] /\ attempt'[t] = attempt[t] /\ todo'[t] = todo[t]
        /\ cur'[t] = cur[t] /\ out'[t] = out[t] /\ frame'[t] = frame[t] /\ closing' = closing
    BY <1>1 DEF Deliver, Goto, IInv, TypeOK, process
  <2>. QED BY <2>1, SameSlot DEF Open
<1>2. Carries(s, c)' /\ ~Carries(s, c)
  <2>1. pc[s] = "idle" /\ pc'[s] = "load" /\ Open(s)'
    BY DEF Deliver, Goto, IInv, TypeOK, Open, process
  <2>. QED BY <2>1 DEF Carries, Owing
<1>. QED BY <1>1, <1>2 DEF Carriers

LEMMA DeliverCover ==
    ASSUME IInv, NEW s \in Slot, NEW a \in Attempts, Deliver(s, a), CoverInv
    PROVE  CoverInv'
<1>1. UNCHANGED <<retry, dlq, due, issued, withdrawn>>
  BY DEF Deliver, sending, contacts
<1>2. /\ ready \in [Attempts -> Nat] /\ ready[a] > 0 /\ ready' = [ready EXCEPT ![a] = @ - 1]
      /\ IsFiniteSet(Queued(ready)) /\ IsFiniteSet(Queued(retry))
  BY DEF Deliver, IInv, TypeOK, CoverInv, QueuesFinite
<1>3. /\ IsFiniteSet(Queued(ready')) /\ Cardinality(Queued(ready')) \in Nat
      /\ Cardinality(Queued(ready)) = Cardinality(Queued(ready')) + 1
  BY <1>2, OneQueued
<1>4. ASSUME NEW c \in Contacts \ withdrawn
      PROVE  due[c] <= Cover(c)'
  <2>1. Cardinality(Carriers(c)') = Cardinality(Carriers(c)) + 1
    <3>1. Carriers(c)' = Carriers(c) \cup {s} /\ s \notin Carriers(c)
      BY DeliverCarries
    <3>. QED BY <3>1, CarriersFinite, FS_AddElement
  <2>2. /\ issued[c] \in Nat /\ due[c] \in Nat /\ dlq[MaxAttempts] \in Nat
        /\ Cardinality(Queued(retry)) \in Nat /\ Cardinality(Carriers(c)) \in Nat
        /\ due[c] <= Cover(c)
    BY CoverType DEF CoverInv
  <2>3. Cover(c)' = issued[c] + dlq[MaxAttempts] + Cardinality(Queued(ready'))
                    + Cardinality(Queued(retry)) + Cardinality(Carriers(c)')
    BY <1>1 DEF Cover
  <2>. QED BY <1>3, <2>1, <2>2, <2>3 DEF Cover
<1>. QED BY <1>1, <1>2, <1>3, <1>4 DEF CoverInv, QueuesFinite

\* A step that leaves every handler alone.
LEMMA CarriersKept ==
    ASSUME UNCHANGED <<handler, closing>>, NEW c PROVE Carriers(c)' = Carriers(c)
  BY DEF Carriers, Carries, InHand, Buffered, Owing, Open, handler

LEMMA ExpireCover ==
    ASSUME IInv, NEW a \in Attempts, Expire(a), CoverInv
    PROVE  CoverInv'
<1>1. UNCHANGED <<dlq, due, issued, withdrawn, handler, closing>>
  BY DEF Expire, sending, contacts, process
<1>2. /\ ready \in [Attempts -> Nat] /\ retry \in [Attempts -> Nat] /\ retry[a] > 0
      /\ retry' = [retry EXCEPT ![a] = @ - 1] /\ ready' = [ready EXCEPT ![a] = @ + 1]
      /\ IsFiniteSet(Queued(ready)) /\ IsFiniteSet(Queued(retry))
  BY DEF Expire, IInv, TypeOK, CoverInv, QueuesFinite
<1>3. /\ IsFiniteSet(Queued(ready')) /\ Cardinality(Queued(ready)) \in Nat
      /\ Cardinality(Queued(ready')) = Cardinality(Queued(ready)) + 1
  BY <1>2, OneQueued
<1>4. /\ IsFiniteSet(Queued(retry')) /\ Cardinality(Queued(retry')) \in Nat
      /\ Cardinality(Queued(retry)) = Cardinality(Queued(retry')) + 1
  BY <1>2, OneQueued
<1>5. ASSUME NEW c \in Contacts \ withdrawn
      PROVE  due[c] <= Cover(c)'
  <2>1. /\ issued[c] \in Nat /\ due[c] \in Nat /\ dlq[MaxAttempts] \in Nat
        /\ Cardinality(Carriers(c)) \in Nat /\ due[c] <= Cover(c)
    BY CoverType DEF CoverInv
  <2>2. Cover(c)' = issued[c] + dlq[MaxAttempts] + Cardinality(Queued(ready'))
                    + Cardinality(Queued(retry')) + Cardinality(Carriers(c))
    BY <1>1, CarriersKept DEF Cover
  <2>. QED BY <1>3, <1>4, <2>1, <2>2 DEF Cover
<1>. QED BY <1>1, <1>3, <1>4, <1>5 DEF CoverInv, QueuesFinite

\* A job of the API covers the launch it is due for.
LEMMA LaunchFlushCover ==
    ASSUME IInv, LaunchFlush, CoverInv
    PROVE  CoverInv'
<1>1. UNCHANGED <<retry, dlq, issued, withdrawn, handler, closing>>
  BY DEF LaunchFlush, sending, contacts, process
<1>2. /\ ready \in [Attempts -> Nat] /\ 1 \in Attempts /\ ready' = [ready EXCEPT ![1] = @ + 1]
      /\ IsFiniteSet(Queued(ready)) /\ IsFiniteSet(Queued(retry))
  BY AttemptsAssumption DEF LaunchFlush, IInv, TypeOK, CoverInv, QueuesFinite, Attempts
<1>3. /\ IsFiniteSet(Queued(ready')) /\ Cardinality(Queued(ready)) \in Nat
      /\ Cardinality(Queued(ready')) = Cardinality(Queued(ready)) + 1
  BY <1>2, OneQueued
<1>4. ASSUME NEW c \in Contacts \ withdrawn
      PROVE  due'[c] <= Cover(c)'
  <2>1. /\ issued[c] \in Nat /\ due[c] \in Nat /\ dlq[MaxAttempts] \in Nat
        /\ Cardinality(Queued(retry)) \in Nat /\ Cardinality(Carriers(c)) \in Nat
        /\ due[c] <= Cover(c)
    BY CoverType DEF CoverInv
  <2>2. due'[c] = due[c] \/ due'[c] = due[c] + 1
    BY DEF LaunchFlush
  <2>3. Cover(c)' = issued[c] + dlq[MaxAttempts] + Cardinality(Queued(ready'))
                    + Cardinality(Queued(retry)) + Cardinality(Carriers(c))
    BY <1>1, CarriersKept DEF Cover
  <2>. QED BY <1>3, <2>1, <2>2, <2>3 DEF Cover
<1>. QED BY <1>1, <1>2, <1>3, <1>4 DEF CoverInv, QueuesFinite

\* The handlers of a process that stops had their jobs in hand; the others carry on.
LEMMA StopCarriers ==
    ASSUME IInv, NEW w \in Workers, Crash(w) \/ Shutdown(w) \/ Exit(w), NEW c
    PROVE  /\ Carriers(c) \in SUBSET (Carriers(c)' \cup Busy(w))
           /\ Exit(w) => Carriers(c) \in SUBSET Carriers(c)'
<1>1. ASSUME NEW t \in Slot, Carries(t, c), t \notin SlotsOf(w) PROVE Carries(t, c)'
  <2>1. /\ pc'[t] = pc[t] /\ attempt'[t] = attempt[t] /\ todo'[t] = todo[t]
        /\ cur'[t] = cur[t] /\ out'[t] = out[t] /\ frame'[t] = frame[t]
    BY <1>1 DEF Crash, Shutdown, Exit, Restart, handler
  <2>2. Open(t)' = Open(t)
    BY <1>1, SlotParts DEF Crash, Shutdown, Exit, Open, IInv, TypeOK
  <2>. QED BY <1>1, <2>1, <2>2, SameSlot
<1>2. ASSUME NEW t \in Slot, Carries(t, c), t \in SlotsOf(w) PROVE t \in Busy(w) /\ ~Exit(w)
  <2>1. pc[t] # "idle" /\ ~closing[w]
    BY <1>2, SlotParts DEF Carries, Owing, Open
  <2>. QED BY <1>2, <2>1 DEF Busy, Exit
<1>3. ASSUME NEW t \in Carriers(c)
      PROVE  t \in Carriers(c)' \/ (t \in Busy(w) /\ ~Exit(w))
  BY <1>1, <1>2 DEF Carriers
<1>. QED BY <1>3

LEMMA StopCover ==
    ASSUME IInv, NEW w \in Workers, Crash(w) \/ Shutdown(w) \/ Exit(w), CoverInv
    PROVE  CoverInv'
<1>1. UNCHANGED <<retry, dlq, due, issued, withdrawn>>
  BY DEF Crash, Shutdown, Exit, Requeue, broker, sending, contacts
<1>2. CASE Crash(w) \/ Shutdown(w)
  <2>. DEFINE B == Busy(w)
  <2>1. ready \in [Attempts -> Nat] /\ ready' \in [Attempts -> Nat]
    BY <1>2, RequeueType DEF IInv, TypeOK, Crash, Shutdown
  <2>2. \A a \in Attempts : ready'[a] = ready[a] + Cardinality({s \in B : attempt[s] = a})
    BY <1>2 DEF Requeue, Crash, Shutdown
  <2>3. B \in SUBSET Slot /\ IsFiniteSet(B) /\ \A s \in B : pc[s] # "idle"
    <3>1. B \in SUBSET SlotsOf(w) /\ \A s \in B : pc[s] # "idle"
      BY DEF Busy
    <3>. QED BY <3>1, SlotsFinite, FS_Subset
  <2>4. \A s \in B : attempt[s] \in Attempts
    <3>1. \A s \in B : attempt[s] \in 0..MaxAttempts /\ attempt[s] # 0
      BY <2>3 DEF IInv, TypeOK
    <3>. QED BY <3>1, AttemptsAssumption DEF Attempts
  <2>5. \A c : Carriers(c) \in SUBSET (Carriers(c)' \cup B)
    BY StopCarriers
  <2>. HIDE DEF B
  <2>6. IsFiniteSet(Queued(ready)) /\ IsFiniteSet(Queued(retry))
    BY DEF CoverInv, QueuesFinite
  <2>7. /\ IsFiniteSet(Queued(ready')) /\ Cardinality(Queued(ready')) \in Nat
        /\ Cardinality(Queued(ready')) = Cardinality(Queued(ready)) + Cardinality(B)
        /\ Cardinality(B) \in Nat /\ Cardinality(Queued(ready)) \in Nat
    BY <2>1, <2>2, <2>3, <2>4, <2>6, RequeuedJobs DEF Queued
  <2>8. ASSUME NEW c \in Contacts \ withdrawn
        PROVE  due[c] <= Cover(c)'
    <3>1. /\ IsFiniteSet(Carriers(c)' \cup B)
          /\ Cardinality(Carriers(c)' \cup B) <= Cardinality(Carriers(c)') + Cardinality(B)
      <4>1. /\ IsFiniteSet(Carriers(c)' \cup B)
            /\ Cardinality(Carriers(c)' \cup B)
                 = Cardinality(Carriers(c)') + Cardinality(B) - Cardinality(Carriers(c)' \cap B)
        BY <2>3, CarriersFinite, FS_Union
      <4>2. IsFiniteSet(Carriers(c)' \cap B)
        <5>1. Carriers(c)' \cap B \in SUBSET B
          OBVIOUS
        <5>. QED BY <2>3, <5>1, FS_Subset
      <4>3. Cardinality(Carriers(c)' \cap B) \in Nat
        BY <4>2, FS_CardinalityType
      <4>. QED BY <2>7, <4>1, <4>3, CarriersFinite
    <3>2. Cardinality(Carriers(c)) <= Cardinality(Carriers(c)' \cup B)
      BY <2>5, <3>1, FS_Subset
    <3>3. /\ issued[c] \in Nat /\ due[c] \in Nat /\ dlq[MaxAttempts] \in Nat
          /\ Cardinality(Queued(retry)) \in Nat /\ Cardinality(Carriers(c)) \in Nat
          /\ due[c] <= Cover(c)
      BY CoverType DEF CoverInv
    <3>4. Cover(c)' = issued[c] + dlq[MaxAttempts] + Cardinality(Queued(ready'))
                      + Cardinality(Queued(retry)) + Cardinality(Carriers(c)')
      BY <1>1 DEF Cover
    <3>5. Cardinality(Carriers(c)') \in Nat /\ Cardinality(Carriers(c)' \cup B) \in Nat
      BY <3>1, CarriersFinite, FS_CardinalityType
    <3>. QED BY <2>7, <3>1, <3>2, <3>3, <3>4, <3>5 DEF Cover
  <2>. QED BY <1>1, <2>6, <2>7, <2>8 DEF CoverInv, QueuesFinite
<1>3. CASE Exit(w)
  <2>1. ready' = ready
    BY <1>3 DEF Exit, broker
  <2>2. ASSUME NEW c \in Contacts \ withdrawn
        PROVE  due[c] <= Cover(c)'
    <3>1. /\ Cardinality(Carriers(c)) <= Cardinality(Carriers(c)')
          /\ Cardinality(Carriers(c)') \in Nat
      BY <1>3, StopCarriers, CarriersFinite
    <3>2. /\ issued[c] \in Nat /\ due[c] \in Nat /\ dlq[MaxAttempts] \in Nat
          /\ Cardinality(Queued(ready)) \in Nat /\ Cardinality(Queued(retry)) \in Nat
          /\ Cardinality(Carriers(c)) \in Nat /\ due[c] <= Cover(c)
      BY CoverType DEF CoverInv
    <3>3. Cover(c)' = issued[c] + dlq[MaxAttempts] + Cardinality(Queued(ready))
                      + Cardinality(Queued(retry)) + Cardinality(Carriers(c)')
      BY <1>1, <2>1 DEF Cover
    <3>. QED BY <3>1, <3>2, <3>3 DEF Cover
  <2>. QED BY <1>1, <2>1, <2>2 DEF CoverInv, QueuesFinite
<1>. QED BY <1>2, <1>3

\* The steps that reach neither a launch job nor a handler.
LEMMA AsideCover ==
    ASSUME CoverInv, UNCHANGED <<ready, retry, dlq, due, issued, handler, closing>>,
           withdrawn \subseteq withdrawn'
    PROVE  CoverInv'
<1>1. ASSUME NEW c \in Contacts \ withdrawn' PROVE due'[c] <= Cover(c)'
  BY CarriersKept DEF CoverInv, Cover
<1>. QED BY <1>1 DEF CoverInv, QueuesFinite

(***************************************************************************)
(* When no launch job is left, every launch the broker got has given each  *)
(* contact eligible at that time a send job, or is parked, whatever failed *)
(* or crashed in the middle of a loop, for any contacts, workers, prefetch *)
(* and attempts.                                                           *)
(***************************************************************************)
THEOREM LaunchCompleteHolds == Spec => []LaunchComplete
<1>1. Init => CoverInv
  <2>. SUFFICES ASSUME Init PROVE CoverInv
    OBVIOUS
  <2>1. ready \in [Attempts -> Nat] /\ retry = ready /\ \A a \in Attempts : ready[a] = 0
    BY DEF Init
  <2>2. IsFiniteSet(Queued(ready)) /\ Cardinality(Queued(ready)) = 0
    BY <2>1, NoJob DEF Queued
  <2>3. MaxAttempts \in Attempts
    BY AttemptsAssumption DEF Attempts
  <2>4. ASSUME NEW c \in Contacts PROVE due[c] <= Cover(c)
    <3>1. due[c] = 0 /\ issued[c] = 0 /\ dlq[MaxAttempts] = 0
      BY <2>3 DEF Init
    <3>. QED BY <2>1, <2>2, <3>1, CarriersFinite DEF Cover
  <2>. QED BY <2>1, <2>2, <2>4 DEF CoverInv, QueuesFinite
<1>2. IInv /\ LoopInv /\ CoverInv /\ [Next]_vars => CoverInv'
  <2>. SUFFICES ASSUME IInv, LoopInv, CoverInv, [Next]_vars PROVE CoverInv'
    OBVIOUS
  <2>1. ASSUME NEW s \in Slot, Handle(s) PROVE CoverInv'
    BY <2>1, HandleSteps, QuietCover, FlushJobCover, FlushFrameCover
  <2>2. ASSUME NEW s \in Slot, NEW a \in Attempts, Deliver(s, a) PROVE CoverInv'
    BY <2>2, DeliverCover
  <2>3. ASSUME NEW a \in Attempts, Expire(a) PROVE CoverInv'
    BY <2>3, ExpireCover
  <2>4. ASSUME NEW w \in Workers, Crash(w) \/ Shutdown(w) \/ Exit(w) PROVE CoverInv'
    BY <2>4, StopCover
  <2>5. CASE LaunchFlush
    BY <2>5, LaunchFlushCover
  <2>6. ASSUME NEW d \in Contacts, SetConsent(d) \/ Settle(d) PROVE CoverInv'
    <3>1. /\ UNCHANGED <<ready, retry, dlq, due, issued, handler, closing>>
          /\ withdrawn \subseteq withdrawn'
      BY <2>6 DEF SetConsent, Settle, broker, sending, process, contacts
    <3>. QED BY <3>1, AsideCover
  <2>7. ASSUME NEW r \in Requests, Launch(r) PROVE CoverInv'
    BY <2>7, AsideCover
       DEF Launch, LaunchSelect, LaunchUpdate, LaunchPublish, broker, sending, process, contacts
  <2>8. CASE ApiCrash \/ UNCHANGED vars
    BY <2>8, AsideCover DEF ApiCrash, vars, broker, sending, process, contacts
  <2>. QED BY <2>1, <2>2, <2>3, <2>4, <2>5, <2>6, <2>7, <2>8 DEF Next
<1>3. IInv /\ CoverInv => LaunchComplete
  <2>. SUFFICES ASSUME IInv, CoverInv, ~LaunchOwed, NEW c \in Contacts \ withdrawn
                PROVE  issued[c] + ParkedLaunches >= due[c]
    BY DEF LaunchComplete
  <2>1. /\ ready \in [Attempts -> Nat] /\ retry \in [Attempts -> Nat]
        /\ \A a \in Attempts : ready[a] = 0 /\ retry[a] = 0
    BY DEF IInv, TypeOK, LaunchOwed
  <2>2. Cardinality(Queued(ready)) = 0 /\ Cardinality(Queued(retry)) = 0
    BY <2>1, NoJob DEF Queued
  <2>3. Cardinality(Carriers(c)) = 0
    <3>1. Carriers(c) = {}
      BY DEF LaunchOwed, Carriers, Carries
    <3>. QED BY <3>1, FS_EmptySet
  <2>4. due[c] <= Cover(c) /\ issued[c] \in Nat /\ due[c] \in Nat /\ dlq[MaxAttempts] \in Nat
    BY CoverType DEF CoverInv
  <2>. QED BY <2>2, <2>3, <2>4 DEF Cover, ParkedLaunches
<1>. QED BY <1>1, <1>2, <1>3, LoopHolds, PTL DEF Spec

-----------------------------------------------------------------------------
(***************************************************************************)
(* A row that says queued has a send job, or a launch job that will issue  *)
(* one: in a queue, or at a handler that carries the contact.              *)
(***************************************************************************)
Carried(c) == \/ \E a \in Attempts : ready[a] > 0 \/ retry[a] > 0
              \/ \E s \in Slot : Carries(s, c)
Excused == late \/ dlq[MaxAttempts] > 0
Served(c) == cm[c] = "queued" => jobs[c] > 0 \/ Carried(c)
QueuedInv == Excused \/ \A c \in Contacts \ withdrawn : Served(c)

\* What another slot carries, it still carries.
LEMMA StillCarried ==
    ASSUME IInv, NEW s \in Slot, Handle(s), NEW c,
           Carried(c), ~Carries(s, c) \/ Carries(s, c)', ready' = ready, retry' = retry
    PROVE  Carried(c)'
<1>1. Carriers(c) \ {s} \in SUBSET Carriers(c)'
  BY OthersCarry
<1>2. CASE \E a \in Attempts : ready[a] > 0 \/ retry[a] > 0
  BY <1>2 DEF Carried
<1>3. ASSUME NEW t \in Slot, Carries(t, c) PROVE Carries(t, c)'
  BY <1>1, <1>3 DEF Carriers
<1>. QED BY <1>2, <1>3 DEF Carried

\* A loop that writes a row carries its contact, unless its process is closing.
LEMMA RowCarried ==
    ASSUME IInv, LoopInv, NEW s \in Slot, NEW c \in Contacts, UpsertRow(s, c)
    PROVE  /\ late' \/ cm'[c] = cm[c] \/ Carries(s, c)'
           /\ \A d \in Contacts : d # c => cm'[d] = cm[d]
           /\ late => late'
<1>1. \A d \in Contacts : d # c => cm'[d] = cm[d]
  BY DEF UpsertRow, IInv, TypeOK
<1>2. late => late'
  BY DEF UpsertRow, Written
<1>3. CASE cm' = [cm EXCEPT ![c] = "queued"] /\ Written(s)
  <2>1. /\ closing' = closing /\ c # NoContact
        /\ \/ pc'[s] = "target" /\ cur'[s] = c
           \/ pc'[s] = "catch"
    BY <1>3, ContactsAssumption DEF UpsertRow, Goto, Throw, IInv, TypeOK
  <2>2. Open(s) => Carries(s, c)'
    BY <2>1 DEF Carries, Owing, InHand, Open
  <2>3. ~Open(s) => late'
    BY <1>3 DEF Written
  <2>. QED BY <1>1, <1>2, <2>2, <2>3
<1>4. CASE UNCHANGED <<cm, late>>
  BY <1>1, <1>2, <1>4
<1>. QED BY <1>3, <1>4 DEF UpsertRow

LEMMA QuietQueued ==
    ASSUME IInv, LoopInv, NEW s \in Slot, Quiet(s), QueuedInv
    PROVE  QueuedInv'
<1>1. UNCHANGED <<ready, retry, dlq, jobs, eligible, withdrawn>> /\ Handle(s)
  BY QuietKeepsQueues, OthersStay DEF broker, sending, contacts, IInv, Handle, Quiet
<1>2. late => late'
  BY RowCarried
     DEF Quiet, Load, UpsertTarget, UpsertMirror, Publish, Retry, Park, Ack, AckThrows, process
<1>3. ASSUME NEW c \in Contacts, cm'[c] # cm[c] PROVE late' \/ Carries(s, c)'
  <2>1. PICK d \in Contacts : UpsertRow(s, d)
    BY <1>3 DEF Quiet, Load, UpsertTarget, UpsertMirror, Publish, Retry, Park, Ack, AckThrows, rows
  <2>. QED BY <1>3, <2>1, RowCarried
<1>4. ASSUME ~Excused, ~late', NEW c \in Contacts \ withdrawn PROVE Served(c)'
  <2>1. CASE cm'[c] # cm[c]
    BY <1>3, <1>4, <2>1 DEF Served, Carried
  <2>2. CASE cm'[c] = cm[c] /\ cm[c] = "queued" /\ ~(jobs[c] > 0)
    <3>1. Carried(c)
      BY <1>4, <2>2 DEF QueuedInv, Served
    <3>2. Carries(s, c) => Carries(s, c)'
      BY <2>2, DueIsEligible, QuietTodo
    <3>3. Carried(c)'
      BY <1>1, <3>1, <3>2, StillCarried
    <3>. QED BY <3>3 DEF Served
  <2>. QED BY <1>1, <2>1, <2>2 DEF Served
<1>. QED BY <1>1, <1>2, <1>4 DEF QueuedInv, Excused

LEMMA FlushJobQueued ==
    ASSUME IInv, LoopInv, NEW s \in Slot, FlushJob(s), QueuedInv
    PROVE  QueuedInv'
<1>1. PICK h \in Contacts :
        /\ \A c \in Contacts : c # h /\ Carries(s, c) => Carries(s, c)'
        /\ jobs' = [jobs EXCEPT ![h] = @ + 1]
        /\ UNCHANGED <<broker, withdrawn, rows>>
  BY FlushJobTodo
<1>2. UNCHANGED <<ready, retry, dlq, withdrawn, cm, late>> /\ Handle(s)
  BY <1>1 DEF broker, rows, FlushJob, process, Handle
<1>3. ASSUME NEW c \in Contacts \ withdrawn, Served(c) PROVE Served(c)'
  <2>1. jobs'[c] = (IF c = h THEN jobs[c] + 1 ELSE jobs[c]) /\ jobs[c] \in Nat
    BY <1>1 DEF IInv, TypeOK
  <2>2. CASE c = h
    BY <2>1, <2>2 DEF Served
  <2>3. CASE c # h
    <3>1. Carried(c) => Carried(c)'
      BY <1>1, <1>2, <2>3, StillCarried
    <3>. QED BY <1>2, <1>3, <2>1, <2>3, <3>1 DEF Served
  <2>. QED BY <2>2, <2>3
<1>. QED BY <1>2, <1>3 DEF QueuedInv, Excused

LEMMA FlushFrameQueued ==
    ASSUME IInv, LoopInv, NEW s \in Slot, FlushFrame(s)
    PROVE  QueuedInv'
<1>1. /\ \/ /\ attempt[s] + 1 \in Attempts
            /\ retry' = [retry EXCEPT ![attempt[s] + 1] = @ + 1]
         \/ dlq' = [dlq EXCEPT ![MaxAttempts] = @ + 1]
  BY FlushFrameTodo
<1>2. MaxAttempts \in Attempts /\ dlq \in [Attempts -> Nat] /\ retry \in [Attempts -> Nat]
  BY AttemptsAssumption DEF IInv, TypeOK, Attempts
<1>3. CASE attempt[s] + 1 \in Attempts /\ retry' = [retry EXCEPT ![attempt[s] + 1] = @ + 1]
  <2>1. PICK a \in Attempts : retry' = [retry EXCEPT ![a] = @ + 1]
    BY <1>3
  <2>2. retry'[a] > 0
    BY <1>2, <2>1
  <2>. QED BY <2>2 DEF QueuedInv, Served, Carried
<1>4. CASE dlq' = [dlq EXCEPT ![MaxAttempts] = @ + 1]
  <2>1. dlq'[MaxAttempts] > 0
    BY <1>2, <1>4
  <2>. QED BY <2>1 DEF QueuedInv, Excused
<1>. QED BY <1>1, <1>3, <1>4

LEMMA DeliverQueued ==
    ASSUME IInv, NEW s \in Slot, NEW a \in Attempts, Deliver(s, a)
    PROVE  QueuedInv'
<1>1. ASSUME NEW c \in Contacts PROVE Carries(s, c)'
  BY DeliverCarries DEF Carriers
<1>. QED BY <1>1 DEF QueuedInv, Served, Carried

LEMMA ExpireQueued ==
    ASSUME IInv, NEW a \in Attempts, Expire(a)
    PROVE  QueuedInv'
<1>1. ready'[a] > 0
  BY DEF Expire, IInv, TypeOK
<1>. QED BY <1>1 DEF QueuedInv, Served, Carried

LEMMA LaunchFlushQueued ==
    ASSUME IInv, LaunchFlush
    PROVE  QueuedInv'
<1>1. 1 \in Attempts /\ ready'[1] > 0
  BY AttemptsAssumption DEF LaunchFlush, IInv, TypeOK, Attempts
<1>. QED BY <1>1 DEF QueuedInv, Served, Carried

\* A carrier of a process that stops has its job handed out anew.
LEMMA StopQueued ==
    ASSUME IInv, NEW w \in Workers, Crash(w) \/ Shutdown(w) \/ Exit(w), QueuedInv
    PROVE  QueuedInv'
<1>1. UNCHANGED <<retry, dlq, withdrawn, cm, jobs, late>>
  BY DEF Crash, Shutdown, Exit, Requeue, broker, sending, contacts, rows
<1>2. ASSUME NEW c, Carried(c) PROVE Carried(c)'
  <2>1. CASE Exit(w)
    <3>1. ready' = ready /\ Carriers(c) \in SUBSET Carriers(c)'
      BY <2>1, StopCarriers DEF Exit, broker
    <3>. QED BY <1>1, <1>2, <3>1 DEF Carried, Carriers
  <2>2. CASE Crash(w) \/ Shutdown(w)
    <3>1. /\ \A a \in Attempts :
                ready'[a] = ready[a] + Cardinality({s \in Busy(w) : attempt[s] = a})
          /\ ready \in [Attempts -> Nat]
      BY <2>2 DEF Requeue, Crash, Shutdown, IInv, TypeOK
    <3>2. ASSUME NEW a \in Attempts
          PROVE  /\ ready[a] > 0 => ready'[a] > 0
                 /\ \A s \in Busy(w) : attempt[s] = a => ready'[a] > 0
      <4>. DEFINE M == {s \in Busy(w) : attempt[s] = a}
      <4>1. M \in SUBSET SlotsOf(w)
        BY DEF Busy
      <4>2. ready'[a] = ready[a] + Cardinality(M) /\ ready[a] \in Nat
        BY <3>1
      <4>3. \A s \in Busy(w) : attempt[s] = a => M # {}
        OBVIOUS
      <4>. HIDE DEF M
      <4>4. Cardinality(M) \in Nat /\ (M # {} => Cardinality(M) # 0)
        BY <4>1, SlotsFinite, FS_Subset, FS_CardinalityType, FS_EmptySet
      <4>. QED BY <4>2, <4>3, <4>4
    <3>3. CASE \E a \in Attempts : ready[a] > 0 \/ retry[a] > 0
      <4>1. PICK a \in Attempts : ready[a] > 0 \/ retry[a] > 0
        BY <3>3
      <4>2. ready'[a] > 0 \/ retry'[a] > 0
        BY <1>1, <3>2, <4>1
      <4>. QED BY <4>2 DEF Carried
    <3>4. CASE \E s \in Slot : Carries(s, c)
      <4>1. PICK s \in Slot : Carries(s, c)
        BY <3>4
      <4>2. CASE Carries(s, c)'
        BY <4>2 DEF Carried
      <4>3. CASE s \in Busy(w)
        <5>1. attempt[s] \in Attempts
          <6>1. attempt[s] \in 0..MaxAttempts /\ attempt[s] # 0
            BY <4>3 DEF Busy, IInv, TypeOK
          <6>. QED BY <6>1, AttemptsAssumption DEF Attempts
        <5>2. PICK a \in Attempts : a = attempt[s]
          BY <5>1
        <5>3. ready'[a] > 0
          BY <3>2, <4>3, <5>2
        <5>. QED BY <5>3 DEF Carried
      <4>. QED BY <4>1, <4>2, <4>3, StopCarriers DEF Carriers
    <3>. QED BY <1>2, <3>3, <3>4 DEF Carried
  <2>. QED BY <2>1, <2>2
<1>3. ASSUME NEW c \in Contacts, Served(c) PROVE Served(c)'
  BY <1>1, <1>2, <1>3 DEF Served
<1>. QED BY <1>1, <1>3 DEF QueuedInv, Excused

\* Stage 2 is done with a send job: its row is queued no longer.
LEMMA SettleQueued ==
    ASSUME IInv, NEW d \in Contacts, Settle(d), QueuedInv
    PROVE  QueuedInv'
<1>1. UNCHANGED <<ready, retry, dlq, withdrawn, late, handler, closing>>
  BY DEF Settle, broker, contacts, process
<1>2. ASSUME NEW c \in Contacts, Served(c) PROVE Served(c)'
  <2>1. CASE c = d
    BY <2>1 DEF Settle, Served, IInv, TypeOK
  <2>2. CASE c # d
    <3>1. cm'[c] = cm[c] /\ jobs'[c] = jobs[c]
      BY <2>2 DEF Settle, IInv, TypeOK
    <3>2. Carried(c) => Carried(c)'
      BY <1>1, CarriersKept DEF Carried, Carriers
    <3>. QED BY <1>2, <3>1, <3>2 DEF Served
  <2>. QED BY <2>1, <2>2
<1>. QED BY <1>1, <1>2 DEF QueuedInv, Excused

LEMMA AsideQueued ==
    ASSUME QueuedInv, UNCHANGED <<ready, retry, dlq, jobs, cm, late, handler, closing>>,
           withdrawn \subseteq withdrawn'
    PROVE  QueuedInv'
<1>1. ASSUME NEW c \in Contacts, Served(c) PROVE Served(c)'
  <2>1. Carried(c) => Carried(c)'
    BY CarriersKept DEF Carried, Carriers
  <2>. QED BY <1>1, <2>1 DEF Served
<1>. QED BY <1>1 DEF QueuedInv, Excused

(***************************************************************************)
(* No message is left queued for ever: when no launch job is left, a row   *)
(* that says queued has a send job, also when a relaunch or a retried loop *)
(* reset it, for any contacts, workers, prefetch and attempts.             *)
(***************************************************************************)
THEOREM QueuedHasJobHolds == Spec => []QueuedHasJob
<1>1. Init => QueuedInv
  BY DEF Init, QueuedInv, Served
<1>2. IInv /\ LoopInv /\ QueuedInv /\ [Next]_vars => QueuedInv'
  <2>. SUFFICES ASSUME IInv, LoopInv, QueuedInv, [Next]_vars PROVE QueuedInv'
    OBVIOUS
  <2>1. ASSUME NEW s \in Slot, Handle(s) PROVE QueuedInv'
    BY <2>1, HandleSteps, QuietQueued, FlushJobQueued, FlushFrameQueued
  <2>2. ASSUME NEW s \in Slot, NEW a \in Attempts, Deliver(s, a) PROVE QueuedInv'
    BY <2>2, DeliverQueued
  <2>3. ASSUME NEW a \in Attempts, Expire(a) PROVE QueuedInv'
    BY <2>3, ExpireQueued
  <2>4. ASSUME NEW w \in Workers, Crash(w) \/ Shutdown(w) \/ Exit(w) PROVE QueuedInv'
    BY <2>4, StopQueued
  <2>5. CASE LaunchFlush
    BY <2>5, LaunchFlushQueued
  <2>6. ASSUME NEW d \in Contacts, Settle(d) PROVE QueuedInv'
    BY <2>6, SettleQueued
  <2>7. ASSUME NEW d \in Contacts, SetConsent(d) PROVE QueuedInv'
    <3>1. /\ UNCHANGED <<ready, retry, dlq, jobs, cm, late, handler, closing>>
          /\ withdrawn \subseteq withdrawn'
      BY <2>7 DEF SetConsent, broker, sending, rows, process
    <3>. QED BY <3>1, AsideQueued
  <2>8. ASSUME NEW r \in Requests, Launch(r) PROVE QueuedInv'
    BY <2>8, AsideQueued
       DEF Launch, LaunchSelect, LaunchUpdate, LaunchPublish, broker, sending, process, contacts,
           rows
  <2>9. CASE ApiCrash \/ UNCHANGED vars
    BY <2>9, AsideQueued DEF ApiCrash, vars, broker, sending, process, contacts, rows
  <2>. QED BY <2>1, <2>2, <2>3, <2>4, <2>5, <2>6, <2>7, <2>8, <2>9 DEF Next
<1>3. IInv /\ QueuedInv => QueuedHasJob
  <2>. SUFFICES ASSUME IInv, QueuedInv, ~LaunchOwed, ParkedLaunches = 0, ~late,
                       NEW c \in Contacts \ withdrawn, cm[c] = "queued"
                PROVE  jobs[c] > 0
    BY DEF QueuedHasJob
  <2>1. ~Carried(c)
    BY DEF Carried, LaunchOwed, Carries
  <2>. QED BY <2>1 DEF QueuedInv, Excused, Served, ParkedLaunches
<1>. QED BY <1>1, <1>2, <1>3, LoopHolds, PTL DEF Spec
=================================================================================
