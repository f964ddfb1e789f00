------------------------------ MODULE Workload ------------------------------
(***************************************************************************)
(* The workload engine: the book of the bodies - processes, workspaces -   *)
(* that Palm starts in a runtime, or adopts.                               *)
(*                                                                         *)
(* One reentrant lock covers each operation with the runtime call in it,   *)
(* so an operation is one step; the handlers of the event it emits at its  *)
(* end run under the same lock, as steps of their own.  Runtimes are       *)
(* drivers: they return any status, or raise, and so far as the engine can *)
(* know keep an allocation or not.                                         *)
(***************************************************************************)
EXTENDS Naturals

CONSTANTS
  Ids,        \* workload ids
  Outcomes    \* what a call of a runtime may come back with

Status   == {"PENDING", "STARTING", "RUNNING", "READY", "STOPPING", "STOPPED",
             "FAILED"}
Terminal == {"STOPPED", "FAILED"}

\* _ALLOWED: from, to.
Allowed ==
  ({"PENDING"} \X {"STARTING", "FAILED"})
    \cup ({"STARTING"} \X {"RUNNING", "READY", "STOPPING"})
    \cup ({"RUNNING"} \X {"READY", "STOPPING"})
    \cup ({"READY"} \X {"RUNNING", "STOPPING"})
    \cup ({"STARTING", "RUNNING", "READY", "STOPPING"} \X Terminal)

\* What a row may become, its status itself included.
Reachable(s) == {s} \cup {to \in Status : <<s, to>> \in Allowed}

ASSUME OutcomeAssumption == Outcomes \subseteq Status \cup {"raised"}

VARIABLES
  status,     \* of each row of the book, or "absent"
  bound,      \* rows with a runtime; an adopted row has none
  leaked,     \* rows with leak_recorded
  sweep,      \* stop_owned: targets still to be stopped
  body,       \* rows whose allocation a runtime still holds
  stopped,    \* history: rows that ended because they were stopped
  announced   \* history: events about the end of each row

book     == <<status, bound, leaked>>
workload == <<book, sweep, body, stopped, announced>>

WorkloadInit ==
  /\ status = [w \in Ids |-> "absent"]
  /\ bound = {} /\ leaked = {} /\ sweep = {} /\ body = {} /\ stopped = {}
  /\ announced = [w \in Ids |-> 0]

Live(w) == status[w] \notin Terminal \cup {"absent"}

\* The row of w becomes s; its end is announced with the event of the status.
Settle(w, s) ==
  /\ status' = [status EXCEPT ![w] = s]
  /\ announced' = [announced EXCEPT ![w] = IF s \in Terminal THEN @ + 1 ELSE @]

\* Fail closed: a status the row may not take, and an exception, are FAILED.
Folded(s, outcome) == IF outcome \in Reachable(s) THEN outcome ELSE "FAILED"

-----------------------------------------------------------------------------
Start(w) ==
  /\ status[w] = "absent"
  /\ \E outcome \in Outcomes : Settle(w, Folded("STARTING", outcome))
  /\ bound' = bound \cup {w}
  /\ body' \in {body, body \cup {w}}
  /\ UNCHANGED <<leaked, sweep, stopped>>

\* The body is someone else's.  Adopting a live adopted row again gives it
\* another handle only.
Adopt(w) ==
  /\ status[w] = "absent"
  /\ Settle(w, "READY")
  /\ UNCHANGED <<bound, leaked, sweep, body, stopped>>

\* A command, whatever it exits with, leaves the row READY; a runtime that
\* raises ends it.
Exec(w) ==
  /\ status[w] = "READY" /\ w \in bound
  /\ Settle(w, "FAILED")
  /\ UNCHANGED <<bound, leaked, sweep, body, stopped>>

\* Fault: the status of the poll is taken as it is.
RefreshUnchecked(w) ==
  /\ Live(w) /\ w \in bound
  /\ \E s \in Status \ {status[w]} : Settle(w, s)
  /\ UNCHANGED <<bound, leaked, sweep, body, stopped>>

\* status(refresh=True) polls the runtime of a live row.
Refresh(w) ==
  /\ Live(w) /\ w \in bound
  /\ \E outcome \in Outcomes \ {status[w]} :
       Settle(w, Folded(status[w], outcome))
  /\ UNCHANGED <<bound, leaked, sweep, body, stopped>>

\* Fault: an exception of the runtime is not a leak.
HaltSilently(w) ==
  /\ w \in bound
  /\ Settle(w, "FAILED")
  /\ UNCHANGED <<leaked, body>>

\* The runtime is told to stop w.  If it raises the row is FAILED and the leak
\* recorded, as when it reports one itself; otherwise the body is given back.
Halt(w) ==
  \/ /\ w \notin bound
     /\ Settle(w, "STOPPED")
     /\ UNCHANGED <<leaked, body>>
  \/ /\ w \in bound
     /\ \E outcome \in Outcomes :
          /\ Settle(w, IF outcome \in {"FAILED", "raised"} THEN "FAILED"
                                                           ELSE "STOPPED")
          /\ \/ leaked' = leaked \cup {w} /\ UNCHANGED body
             \/ outcome # "raised" /\ body' = body \ {w} /\ UNCHANGED leaked

\* Fault: a row that has ended is stopped again.
StopAgain(w) ==
  /\ status[w] # "absent"
  /\ Halt(w)
  /\ stopped' = stopped \cup {w}
  /\ UNCHANGED <<bound, sweep>>

\* stop; what has ended stays as it is.
Stop(w) ==
  /\ Live(w)
  /\ Halt(w)
  /\ stopped' = stopped \cup {w}
  /\ UNCHANGED <<bound, sweep>>

\* stop_owned picks the live rows of an owner first, and stops one after the
\* other.  Between two of them a handler may do anything to the book.
StopOwned(W) ==
  /\ sweep = {} /\ W # {} /\ \A w \in W : Live(w)
  /\ sweep' = W
  /\ UNCHANGED <<book, body, stopped, announced>>

Sweep(w) ==
  /\ w \in sweep
  /\ sweep' = sweep \ {w}
  /\ IF Live(w)
       THEN Halt(w) /\ stopped' = stopped \cup {w}
       ELSE UNCHANGED <<status, leaked, body, stopped, announced>>
  /\ UNCHANGED bound

WorkloadNext ==
  \/ \E w \in Ids : Start(w) \/ Adopt(w) \/ Exec(w) \/ Refresh(w) \/ Stop(w)
                      \/ Sweep(w)
  \/ \E W \in SUBSET Ids : StopOwned(W)

WorkloadSpec == WorkloadInit /\ [][WorkloadNext]_workload

-----------------------------------------------------------------------------
(* Properties *)

\* Shape of the book.  No row rests in PENDING.
WorkloadTypeOK ==
  /\ status \in [Ids -> (Status \ {"PENDING"}) \cup {"absent"}]
  /\ bound \subseteq Ids /\ leaked \subseteq Ids /\ sweep \subseteq Ids
  /\ body \subseteq Ids /\ stopped \subseteq Ids
  /\ announced \in [Ids -> Nat]

\* A row announces its end once and only when it has ended: waits on a workload
\* are woken by that event, and woken by nothing else.
EndAnnouncedOnce ==
  \A w \in Ids : announced[w] = IF status[w] \in Terminal THEN 1 ELSE 0

\* Stopping accounts for the body: either the runtime gave the allocation back
\* or the leak is on record.  (Nothing stops a row that ended by itself: its
\* allocation stays, unrecorded.)
StopIsAccounted == stopped \cap body \subseteq leaked

=============================================================================
