---------------------------- MODULE EventDelivery ----------------------------
(***************************************************************************)
(* What the outbox promises the publisher of a critical event, without     *)
(* index, entries, batches or threads: a stored event is handed over any   *)
(* number of times, the outcome on record has a cause, and a settled event *)
(* is handed over as a pending one again only if writers raced on it and a *)
(* hand-over of it had raised.                                             *)
(***************************************************************************)
EXTENDS Naturals

CONSTANTS Events, Failing, MaxAttempts

VARIABLES
  fate,      \* the outcome on record of each event
  handed,    \* events handed over without an error
  failures,  \* hand-overs of each event that raised
  raced      \* a writer wrote over what it had not read

vars == <<fate, handed, failures, raced>>

Init ==
  /\ fate = [e \in Events |-> "none"]
  /\ handed = {}
  /\ failures = [e \in Events |-> 0]
  /\ raced = FALSE

Store(e) ==
  /\ fate[e] = "none"
  /\ fate' = [fate EXCEPT ![e] = "pending"]
  /\ UNCHANGED <<handed, failures, raced>>

\* Also of one that another thread settles meanwhile.
HandOver(e) ==
  /\ fate[e] # "none"
  /\ \/ handed' = handed \cup {e} /\ UNCHANGED failures
     \/ /\ e \in Failing
        /\ failures' = [failures EXCEPT ![e] = @ + 1]
        /\ UNCHANGED handed
  /\ UNCHANGED <<fate, raced>>

MayRace == raced' \in {raced, TRUE}

\* The outcome written: published, given up, or to be tried again.
Record(e, outcome) ==
  /\ fate[e] # "none"
  /\ fate' = [fate EXCEPT ![e] = outcome]
  /\ \/ outcome = "published" /\ e \in handed
     \/ outcome = "failed" /\ failures[e] >= MaxAttempts
     \/ /\ outcome = "pending" /\ failures[e] # 0
        /\ fate[e] # "pending" => raced'
  /\ MayRace
  /\ UNCHANGED <<handed, failures>>

\* Writers race on the index.
Race == MayRace /\ UNCHANGED <<fate, handed, failures>>

Next ==
  \/ \E e \in Events : Store(e) \/ HandOver(e)
  \/ \E e \in Events, outcome \in {"published", "failed", "pending"} : Record(e, outcome)
  \/ Race

Spec == Init /\ [][Next]_vars
=============================================================================
