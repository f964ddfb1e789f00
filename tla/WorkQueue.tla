------------------------------ MODULE WorkQueue ------------------------------
(***************************************************************************)
(* What WorkIntentStore promises its producers and its drain threads,      *)
(* without index, entries or claimer ids: an intent is handed out while it *)
(* is open and nobody has a running lease on it, it is settled by a thread *)
(* it was handed to and never under another's running lease, and what was  *)
(* acknowledged stays so.  The process may end at any time, also in the    *)
(* middle of a call: then every hand-out is forgotten.                     *)
(***************************************************************************)
CONSTANTS Intents, Keys, KeyOf, Workers, None

VARIABLES
  fate,   \* what became of each intent
  work,   \* intents each thread was handed and has not finished with
  lease   \* those of them on which its lease is running

hands == <<work, lease>>
vars  == <<fate, hands>>

\* "new" is also an intent whose enqueue was cut off: nobody was told that it
\* was accepted, and it may run or not.
Open == {"new", "accepted"}

Init ==
  /\ fate = [i \in Intents |-> "new"]
  /\ work = [w \in Workers |-> {}]
  /\ lease = [w \in Workers |-> {}]

\* The process ends.
Lost == work' = [w \in Workers |-> {}] /\ lease' = [w \in Workers |-> {}]

\* w is through with i.
Finished(w, i) ==
  /\ work' = [work EXCEPT ![w] = @ \ {i}]
  /\ lease' = [lease EXCEPT ![w] = @ \ {i}]

\* enqueue: i is accepted, in place of an open intent with its key, if any.
Accept(i, old) ==
  /\ fate[i] = "new"
  /\ old # None => /\ old # i /\ fate[old] \in Open
                   /\ KeyOf[i] \in Keys /\ KeyOf[old] = KeyOf[i]
  /\ \E told \in BOOLEAN :
       /\ fate' = [j \in Intents |-> IF j = old THEN "superseded"
                                     ELSE IF j = i /\ told THEN "accepted"
                                     ELSE fate[j]]
       /\ IF told THEN UNCHANGED hands ELSE Lost

\* claim_due.
HandOut(w, S) ==
  /\ work[w] = {}
  /\ \A i \in S : fate[i] \in Open /\ \A v \in Workers : i \notin lease[v]
  /\ work' = [work EXCEPT ![w] = S]
  /\ lease' = [lease EXCEPT ![w] = S]
  /\ UNCHANGED fate

\* ack, and fail: done, given up or to be tried again.
Settle(w, i) ==
  /\ i \in work[w]
  /\ \A v \in Workers \ {w} : i \notin lease[v]
  /\ \/ fate' = [fate EXCEPT ![i] = "acked"]
     \/ fate[i] # "acked" /\ fate' = [fate EXCEPT ![i] = "failed"]
     \/ UNCHANGED fate
  /\ Finished(w, i) \/ Lost

\* ack or fail refused.
Refuse(w, i) == i \in work[w] /\ Finished(w, i) /\ UNCHANGED fate

Lapse(i) ==
  /\ lease' = [w \in Workers |-> lease[w] \ {i}]
  /\ UNCHANGED <<fate, work>>

End == Lost /\ UNCHANGED fate

Next ==
  \/ \E i \in Intents : \E old \in Intents \cup {None} : Accept(i, old)
  \/ \E w \in Workers : \E S \in SUBSET Intents : HandOut(w, S)
  \/ \E w \in Workers : \E i \in Intents : Settle(w, i) \/ Refuse(w, i)
  \/ \E i \in Intents : Lapse(i)
  \/ End

Spec == Init /\ [][Next]_vars
=============================================================================
