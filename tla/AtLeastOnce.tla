----------------------------- MODULE AtLeastOnce -----------------------------
(***************************************************************************)
(* What the sending stage of the worker promises for a set of messages,    *)
(* without queues, handlers, databases or crashes.                         *)
(*                                                                         *)
(* A message is "owed" while somebody still has to work on it.  It stops   *)
(* being owed only once it is accepted (a provider id is on record) or     *)
(* parked (it is in the dead-letter queue for an operator to look at).     *)
(* Work may be repeated: a broker that sees a consumer die hands the job   *)
(* out again, so a message may become owed once more, may be accepted and  *)
(* parked, but neither fact is ever forgotten.                             *)
(***************************************************************************)
CONSTANT Msgs          \* the messages of a launched campaign

VARIABLES
    owed,              \* messages some copy of whose job is still outstanding
    accepted,          \* messages with a provider id on record
    parked             \* messages in the dead-letter queue

vars == <<owed, accepted, parked>>

TypeOK == owed \in SUBSET Msgs /\ accepted \in SUBSET Msgs /\ parked \in SUBSET Msgs

Init == owed = Msgs /\ accepted = {} /\ parked = {}

\* A send is put on record.
Accept(m) == /\ accepted' = accepted \cup {m}
             /\ UNCHANGED <<owed, parked>>

\* The last attempt is given up: the job moves to the dead-letter queue.
Park(m) == /\ m \in owed
           /\ parked' = parked \cup {m}
           /\ owed' \in {owed, owed \ {m}}
           /\ UNCHANGED accepted

\* The last outstanding copy of an accepted or parked message is settled.
Settle(m) == /\ m \in owed
             /\ m \in accepted \cup parked
             /\ owed' = owed \ {m}
             /\ UNCHANGED <<accepted, parked>>

\* A lost consumer: some messages are handed out once more.
Redeliver(M) == /\ owed' = owed \cup M
                /\ UNCHANGED <<accepted, parked>>

Next == \/ \E m \in Msgs : Accept(m) \/ Park(m) \/ Settle(m)
        \/ \E M \in SUBSET Msgs : Redeliver(M)

Spec == Init /\ [][Next]_vars

\* No message is dropped: each is still owed, or on record, or parked.
NothingDropped == Msgs = owed \cup accepted \cup parked
=============================================================================
