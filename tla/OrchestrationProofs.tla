------------------------- MODULE OrchestrationProofs -------------------------
(***************************************************************************)
(* Proofs about Orchestration, for any sets of jobs, workers and callers,  *)
(* under either scheduler.                                                 *)
(***************************************************************************)
EXTENDS Orchestration, TLAPS

-----------------------------------------------------------------------------
(* The operators the actions are built from keep the threads' types. *)

\* Moving a thread to a label, with or without a result to apply.
LEMMA GoTypes ==
  ASSUME ProcTypes, NEW p \in Procs, NEW l \in Labels, Go(p, l),
         \/ UNCHANGED res
         \/ \E s \in Status, b \in BOOLEAN : Yield(p, s, b)
  PROVE  ProcTypes'
<1>1. pc' \in [Procs -> Labels] /\ cur' \in [Procs -> Jobs \cup {None}]
  BY DEF ProcTypes, Go
<1>2. res' \in [Procs -> Results]
  <2>1. CASE UNCHANGED res
    BY <2>1 DEF ProcTypes
  <2>2. CASE \E s \in Status, b \in BOOLEAN : Yield(p, s, b)
    <3>1. PICK s \in Status, b \in BOOLEAN : Yield(p, s, b)
      BY <2>2
    <3>2. [status |-> s, propagate |-> b] \in Results
      BY DEF Results
    <3>3. QED BY <3>1, <3>2 DEF Yield, ProcTypes
  <2>3. QED BY <2>1, <2>2
<1>3. QED BY <1>1, <1>2 DEF ProcTypes

\* Giving a thread a job to work on.
LEMMA CallTypes ==
  ASSUME ProcTypes, NEW p \in Procs, NEW j \in Jobs, NEW l \in Labels,
         Call(p, j, l), UNCHANGED res
  PROVE  ProcTypes'
  BY DEF ProcTypes, Call

\* A thread that leaves its job forgets its locals.
LEMMA LeaveTypes ==
  ASSUME ProcTypes, NEW p \in Procs, NEW l \in Labels, Leave(p, l)
  PROVE  ProcTypes'
<1>1. NoResult \in Results
  BY DEF NoResult, Results, Status
<1>2. QED BY <1>1 DEF ProcTypes, Leave, Call

LEMMA ReturnTypes ==
  ASSUME ProcTypes, NEW p \in Procs, Return(p)
  PROVE  ProcTypes'
<1> DEFINE l == IF p \in Workers THEN "get" ELSE "idle"
<1>1. l \in Labels
  BY DEF Labels
<1>2. Leave(p, l)
  BY DEF Return
<1>3. QED BY <1>1, <1>2, LeaveTypes

\* Where a thread goes after it applied a result.
LEMMA AfterApplyLabel == ASSUME NEW p PROVE AfterApply(p) \in Labels
  BY DEF AfterApply, Labels, DriveLabels, CancelLabels

\* Handing a job to the scheduler keeps the queue a queue of jobs.
LEMMA DispatchTypes ==
  ASSUME TypeOK, NEW c \in Callers, cur[c] \in jobs, Dispatch(c)
  PROVE  ProcTypes' /\ queue' \in Seq(jobs)
<1> c \in Procs
  BY DEF Procs
<1>1. CASE Inline
  <2>1. "claim" \in Labels
    BY DEF Labels
  <2>2. QED BY <1>1, <2>1, GoTypes DEF Dispatch, TypeOK
<1>2. CASE ~Inline
  BY <1>2, ReturnTypes DEF Dispatch, TypeOK
<1>3. QED BY <1>1, <1>2

-----------------------------------------------------------------------------
(* Type correctness.  A thread in a call has a registered job: without that *)
(* the types are not inductive.                                             *)

TypeInv == TypeOK /\ WorksOnJob

\* Labels at which a thread has no job.
Resting == {"get", "idle", "dead", "refused"}

LEMMA TypeInit == Init => TypeInv
  BY ProcsAssumption, BoundAssumption
  DEF Init, TypeInv, TypeOK, EngineTypes, InputTypes, ProcTypes, WorksOnJob,
      Status, Labels, Procs, Results, NoResult

\* A thread that stays with its job, or drops it, still works on a job of jobs.
LEMMA StillWorks ==
  ASSUME WorksOnJob, ProcTypes, jobs \subseteq jobs', NEW p \in Procs,
         pc[p] \notin Resting,
         (\E l \in Labels : Go(p, l) /\ l # "refused") \/ Return(p) \/ Leave(p, "dead")
  PROVE  WorksOnJob'
<1>1. ASSUME NEW l \in Labels, Go(p, l), l # "refused" PROVE WorksOnJob'
  BY <1>1 DEF Go, WorksOnJob, ProcTypes, Resting
<1>2. ASSUME NEW l \in {"get", "idle", "dead"}, Leave(p, l) PROVE WorksOnJob'
  BY <1>2 DEF Leave, Call, WorksOnJob, ProcTypes
<1>3. Return(p) => \E l \in {"get", "idle", "dead"} : Leave(p, l)
  BY DEF Return
<1>4. QED BY <1>1, <1>2, <1>3

\* Steps of a drive slice.
LEMMA TypeDrive ==
  ASSUME TypeInv, NEW p \in Procs, Step(p)
  PROVE  TypeInv'
<1> USE DEF TypeInv, TypeOK, engineVars, inputVars, Resting
<1>1. CASE Claim(p)
  <2>1. PICK G \in BOOLEAN : ClaimWhen(p, G, p) /\ pc[p] = "claim"
    BY <1>1 DEF Claim, ClaimWhen
  <2>2. CASE G
    <3>1. "before" \in Labels /\ Go(p, "before") /\ UNCHANGED res
      BY <2>1, <2>2 DEF ClaimWhen, Labels, DriveLabels
    <3>2. ProcTypes' /\ WorksOnJob'
      BY <2>1, <3>1, GoTypes, StillWorks DEF ClaimWhen
    <3>3. QED BY <2>1, <2>2, <3>2 DEF ClaimWhen, EngineTypes, InputTypes
  <2>3. CASE ~G
    <3>1. ProcTypes' /\ WorksOnJob'
      BY <2>1, <2>3, ReturnTypes, StillWorks DEF ClaimWhen
    <3>2. QED BY <2>1, <2>3, <3>1 DEF ClaimWhen, EngineTypes, InputTypes
  <2>4. QED BY <2>2, <2>3
<1>2. CASE BeforeDrive(p)
  <2>1. ProcTypes' /\ WorksOnJob'
    <3>1. CASE Go(p, "enter") /\ UNCHANGED res
      BY <1>2, <3>1, GoTypes, StillWorks DEF BeforeDrive, Labels, DriveLabels
    <3>2. CASE Go(p, "apply") /\ Yield(p, "FAILED", FALSE)
      BY <1>2, <3>2, GoTypes, StillWorks
      DEF BeforeDrive, Labels, DriveLabels, Status, Terminal
    <3>3. QED BY <1>2, <3>1, <3>2 DEF BeforeDrive
  <2>2. QED BY <1>2, <2>1 DEF BeforeDrive, EngineTypes, InputTypes
<1>3. CASE EnterRunner(p)
  <2>1. status[cur[p]] \in Status
    BY <1>3 DEF EnterRunner, WorksOnJob, EngineTypes
  <2>2. ProcTypes' /\ WorksOnJob'
    <3>1. CASE Go(p, "tick") /\ UNCHANGED res
      BY <1>3, <3>1, GoTypes, StillWorks DEF EnterRunner, Labels, DriveLabels
    <3>2. CASE Go(p, "apply") /\ Yield(p, status[cur[p]], FALSE)
      BY <1>3, <2>1, <3>2, GoTypes, StillWorks DEF EnterRunner, Labels, DriveLabels
    <3>3. QED BY <1>3, <3>1, <3>2 DEF EnterRunner
  <2>3. QED BY <1>3, <2>2 DEF EnterRunner, EngineTypes, InputTypes
<1>4. CASE ConsumeInput(p)
  BY <1>4 DEF ConsumeInput, procVars, EngineTypes, InputTypes, ProcTypes, WorksOnJob
<1>5. CASE EndRun(p)
  <2>1. PICK s \in Status, b \in BOOLEAN : Yield(p, s, b)
    BY <1>5 DEF EndRun, Status, Terminal
  <2>2. "apply" \in Labels /\ Go(p, "apply")
    BY <1>5 DEF EndRun, Labels, DriveLabels
  <2>3. ProcTypes' /\ WorksOnJob'
    BY <1>5, <2>1, <2>2, GoTypes, StillWorks DEF EndRun
  <2>4. QED BY <1>5, <2>3 DEF EndRun, EngineTypes, InputTypes
<1>6. CASE ApplyResult(p)
  <2>1. cur[p] \in Jobs /\ res[p].status \in Status /\ pc[p] = "apply"
    BY <1>6 DEF ApplyResult, WorksOnJob, EngineTypes, ProcTypes, Results
  <2>2. CASE /\ status[cur[p]] \in Terminal
             /\ res[p].status # status[cur[p]]
    <3>1. AfterApply(p) \in Labels /\ AfterApply(p) # "refused"
      BY AfterApplyLabel DEF AfterApply
    <3>2. ProcTypes' /\ WorksOnJob'
      BY <1>6, <2>1, <2>2, <3>1, GoTypes, StillWorks DEF ApplyResult
    <3>3. QED BY <1>6, <2>2, <3>2 DEF ApplyResult, EngineTypes, InputTypes
  <2>3. CASE ~(/\ status[cur[p]] \in Terminal
               /\ res[p].status # status[cur[p]])
    <3>1. /\ "publish" \in Labels
          /\ Go(p, "publish") /\ UNCHANGED res
          /\ status' = [status EXCEPT ![cur[p]] = res[p].status]
      BY <1>6, <2>3 DEF ApplyResult, Labels, DriveLabels
    <3>2. ProcTypes' /\ WorksOnJob'
      BY <1>6, <2>1, <3>1, GoTypes, StillWorks DEF ApplyResult
    <3>3. QED BY <1>6, <2>1, <3>1, <3>2 DEF ApplyResult, EngineTypes, InputTypes
  <2>4. QED BY <2>2, <2>3
<1>7. CASE PublishStatus(p)
  <2>1. PICK l \in Labels : Go(p, l) /\ l # "refused"
    <3>1. AfterApply(p) \in Labels /\ AfterApply(p) # "refused"
      BY AfterApplyLabel DEF AfterApply
    <3>2. "complete" \in Labels
      BY DEF Labels, DriveLabels
    <3>3. QED BY <1>7, <3>1, <3>2 DEF PublishStatus
  <2>2. ProcTypes' /\ WorksOnJob'
    BY <1>7, <2>1, GoTypes, StillWorks DEF PublishStatus
  <2>3. QED BY <1>7, <2>2 DEF PublishStatus, EngineTypes, InputTypes
<1>8. CASE PublishCompleted(p)
  <2>1. AfterApply(p) \in Labels /\ AfterApply(p) # "refused"
    BY AfterApplyLabel DEF AfterApply
  <2>2. ProcTypes' /\ WorksOnJob'
    BY <1>8, <2>1, GoTypes, StillWorks DEF PublishCompleted
  <2>3. completed' \in [Jobs -> 0..2]
    <3> DEFINE n == IF completed[cur[p]] = 0 THEN 1 ELSE 2
    <3>1. n \in 0..2 /\ completed' = [completed EXCEPT ![cur[p]] = n]
      BY <1>8 DEF PublishCompleted
    <3> HIDE DEF n
    <3>2. QED BY <3>1 DEF EngineTypes
  <2>4. QED BY <1>8, <2>2, <2>3 DEF PublishCompleted, EngineTypes, InputTypes
<1>9. CASE EndDrive(p)
  <2>1. CASE Leave(p, "dead")
    <3>1. ProcTypes' /\ WorksOnJob'
      BY <1>9, <2>1, LeaveTypes, StillWorks DEF EndDrive, Labels
    <3>2. QED BY <1>9, <3>1 DEF EndDrive, EngineTypes, InputTypes
  <2>2. CASE Return(p)
    <3>1. ProcTypes' /\ WorksOnJob'
      BY <1>9, <2>2, ReturnTypes, StillWorks DEF EndDrive
    <3>2. QED BY <1>9, <3>1 DEF EndDrive, EngineTypes, InputTypes
  <2>3. QED BY <1>9, <2>1, <2>2 DEF EndDrive
<1>10. QED BY <1>1, <1>2, <1>3, <1>4, <1>5, <1>6, <1>7, <1>8, <1>9 DEF Step

\* Steps of a call under way.
LEMMA TypeCaller ==
  ASSUME TypeInv, NEW c \in Callers, CallerStep(c)
  PROVE  TypeInv'
<1> USE DEF TypeInv, TypeOK, engineVars, inputVars, Resting
<1> c \in Procs
  BY DEF Procs
<1>1. ASSUME Dispatch(c), UNCHANGED <<engineVars, inputVars>>,
             pc[c] \in {"submit", "resume"}
      PROVE  TypeInv'
  <2>1. cur[c] \in jobs
    BY <1>1 DEF WorksOnJob
  <2>2. ProcTypes' /\ queue' \in Seq(jobs)
    BY <1>1, <2>1, DispatchTypes
  <2>3. WorksOnJob'
    <3>1. (Go(c, "claim") /\ "claim" \in Labels) \/ Return(c)
      BY <1>1 DEF Dispatch, Labels
    <3>2. QED BY <1>1, <3>1, StillWorks
  <2>4. QED BY <1>1, <2>2, <2>3 DEF EngineTypes, InputTypes
<1>2. ASSUME Return(c), UNCHANGED <<engineVars, inputVars, queue>>,
             pc[c] \notin {"get", "idle", "dead"}
      PROVE  TypeInv'
  <2>1. ProcTypes'
    BY <1>2, ReturnTypes
  <2>2. WorksOnJob'
    BY <1>2 DEF Return, Leave, Call, WorksOnJob, ProcTypes
  <2>3. QED BY <1>2, <2>1, <2>2 DEF EngineTypes, InputTypes
<1>3. CASE Submit(c)
  BY <1>1, <1>3 DEF Submit
<1>4. CASE CheckWaiting(c)
  <2>1. CASE Return(c)
    BY <1>2, <1>4, <2>1 DEF CheckWaiting
  <2>2. CASE Go(c, "resume") /\ UNCHANGED res
    <3>1. ProcTypes' /\ WorksOnJob'
      BY <1>4, <2>2, GoTypes, StillWorks DEF CheckWaiting, Labels
    <3>2. QED BY <1>4, <3>1 DEF CheckWaiting, EngineTypes, InputTypes
  <2>3. QED BY <1>4, <2>1, <2>2 DEF CheckWaiting
<1>5. CASE Resume(c)
  <2>1. CASE Dispatch(c)
    BY <1>1, <1>5, <2>1 DEF Resume
  <2>2. CASE Return(c) /\ UNCHANGED queue
    BY <1>2, <1>5, <2>2 DEF Resume
  <2>3. QED BY <1>5, <2>1, <2>2 DEF Resume
<1>6. CASE CancelMode(c)
  <2>1. ProcTypes' /\ WorksOnJob'
    <3>1. CASE Go(c, "cancelled") /\ UNCHANGED res
      BY <1>6, <3>1, GoTypes, StillWorks DEF CancelMode, Labels, CancelLabels
    <3>2. CASE Go(c, "apply") /\ Yield(c, "CANCELLED", FALSE)
      BY <1>6, <3>2, GoTypes, StillWorks
      DEF CancelMode, Labels, CancelLabels, Status, Terminal
    <3>3. QED BY <1>6, <3>1, <3>2 DEF CancelMode
  <2>2. QED BY <1>6, <2>1 DEF CancelMode, EngineTypes, InputTypes
<1>7. CASE CallEnds(c)
  BY <1>2, <1>7 DEF CallEnds
<1>8. QED BY <1>3, <1>4, <1>5, <1>6, <1>7 DEF CallerStep

\* New calls.
LEMMA TypeNewCall ==
  ASSUME TypeInv, NEW c \in Callers, NewCall(c)
  PROVE  TypeInv'
<1> USE DEF TypeInv, TypeOK, engineVars, inputVars
<1> c \in Procs
  BY DEF Procs
<1>1. ASSUME NEW j \in Jobs, NEW l \in {"submit", "refused", "check", "cancel"},
             Call(c, j, l), UNCHANGED res, jobs \subseteq jobs',
             l # "refused" => j \in jobs'
      PROVE  ProcTypes' /\ WorksOnJob'
  <2>1. l \in Labels
    BY <1>1 DEF Labels, CancelLabels
  <2>2. ProcTypes'
    BY <1>1, <2>1, CallTypes
  <2>3. WorksOnJob'
    BY <1>1 DEF Call, WorksOnJob, ProcTypes
  <2>4. QED BY <2>2, <2>3
<1>2. ASSUME NEW j \in Jobs, Register(c, j) PROVE TypeInv'
  <2>1. ProcTypes' /\ WorksOnJob'
    BY <1>1, <1>2 DEF Register
  <2>2. QED BY <1>2, <2>1 DEF Register, EngineTypes, InputTypes
<1>3. ASSUME NEW j \in Jobs, Refuse(c, j) PROVE TypeInv'
  <2>1. ProcTypes' /\ WorksOnJob'
    BY <1>1, <1>3 DEF Refuse
  <2>2. QED BY <1>3, <2>1 DEF Refuse, EngineTypes, InputTypes
<1>4. ASSUME NEW j \in Jobs, Deliver(c, j) PROVE TypeInv'
  <2>1. ProcTypes' /\ WorksOnJob'
    BY <1>1, <1>4 DEF Deliver
  <2>2. InputTypes'
    BY <1>4, BoundAssumption DEF Deliver, InputTypes
  <2>3. QED BY <1>4, <2>1, <2>2 DEF Deliver, EngineTypes
<1>5. ASSUME NEW j \in Jobs, Cancel(c, j) PROVE TypeInv'
  <2>1. ProcTypes' /\ WorksOnJob'
    BY <1>1, <1>5 DEF Cancel
  <2>2. QED BY <1>5, <2>1 DEF Cancel, EngineTypes, InputTypes
<1>6. QED BY <1>2, <1>3, <1>4, <1>5 DEF NewCall

\* A worker takes the next work item: its job is registered.
LEMMA TypeGet ==
  ASSUME TypeInv, NEW w \in Workers, Get(w)
  PROVE  TypeInv'
<1> USE DEF TypeInv, TypeOK, engineVars, inputVars
<1> w \in Procs
  BY DEF Procs
<1>1. queue' \in Seq(jobs) /\ Head(queue) \in jobs /\ UNCHANGED res
  BY DEF Get
<1>2. CASE UNCHANGED <<pc, cur>>
  BY <1>1, <1>2 DEF Get, EngineTypes, InputTypes, ProcTypes, WorksOnJob
<1>3. CASE Call(w, Head(queue), "claim")
  <2>1. "claim" \in Labels /\ Head(queue) \in Jobs
    BY <1>1 DEF Labels, EngineTypes
  <2>2. ProcTypes'
    BY <1>1, <1>3, <2>1, CallTypes
  <2>3. WorksOnJob'
    BY <1>1, <1>3 DEF Get, Call, WorksOnJob, ProcTypes
  <2>4. QED BY <1>1, <2>2, <2>3 DEF Get, EngineTypes, InputTypes
<1>4. QED BY <1>2, <1>3 DEF Get

LEMMA TypeStep == TypeInv /\ [Next]_vars => TypeInv'
<1>1. CASE UNCHANGED vars
  BY <1>1 DEF vars, engineVars, inputVars, procVars, TypeInv, TypeOK,
              EngineTypes, InputTypes, ProcTypes, WorksOnJob
<1>2. QED
  BY <1>1, TypeGet, TypeDrive, TypeCaller, TypeNewCall DEF Next

\* The membership map, the claims, the queue and every thread's locals keep
\* their types, and a queued job is a registered one: no thread ever works for
\* a job the engine does not know.
THEOREM TypeCorrect == Spec => []TypeOK
<1>1. Spec => []TypeInv
  BY TypeInit, TypeStep, PTL DEF Spec
<1>2. TypeInv => TypeOK
  BY DEF TypeInv
<1>3. QED BY <1>1, <1>2, PTL

-----------------------------------------------------------------------------
(* The claim, the results in flight and the published outcomes. *)

LEMMA DriveInit == Init => DriveInv
  BY ProcsAssumption
  DEF Init, DriveInv, OwnerIsDriving, DriverIsOwner, WorksOnJob, ResultInFlight,
      CompletionIsTerminal, OutcomeInFlight, Procs, Terminal

\* Steps of a drive slice.
LEMMA DriveDrive ==
  ASSUME TypeInv, DriveInv, NEW p \in Procs, Step(p)
  PROVE  DriveInv'
<1> USE DEF TypeInv, TypeOK, EngineTypes, ProcTypes, engineVars, inputVars
<1>0. WorksOnJob'
  BY TypeDrive
<1> cur[p] \in jobs /\ cur[p] \in Jobs
  BY DEF Step, Claim, ClaimWhen, BeforeDrive, EnterRunner, ConsumeInput, EndRun,
         ApplyResult, PublishStatus, PublishCompleted, EndDrive, WorksOnJob
<1>1. CASE Claim(p)
  <2>1. CASE /\ pc[p] = "claim"
             /\ status[cur[p]] \notin Terminal /\ driving[cur[p]] = None
             /\ driving' = [driving EXCEPT ![cur[p]] = p]
             /\ Go(p, "before") /\ UNCHANGED <<res, status, completed>>
    <3>1. OwnerIsDriving'
      BY <2>1, ProcsAssumption DEF DriveInv, OwnerIsDriving, Go, DriveLabels
    <3>2. DriverIsOwner'
      BY <2>1, ProcsAssumption DEF DriveInv, DriverIsOwner, Go, DriveLabels
    <3>3. ResultInFlight'
      BY <2>1, ProcsAssumption DEF DriveInv, ResultInFlight, Go, DriveLabels
    <3>4. CompletionIsTerminal'
      BY <2>1, ProcsAssumption DEF DriveInv, CompletionIsTerminal, Go, DriveLabels
    <3>5. OutcomeInFlight'
      BY <2>1, ProcsAssumption DEF DriveInv, OutcomeInFlight, Go, DriveLabels, Terminal
    <3>6. QED BY <1>0, <3>1, <3>2, <3>3, <3>4, <3>5 DEF DriveInv
  <2>2. CASE Return(p) /\ UNCHANGED <<driving, status, completed>>
    <3>1. OwnerIsDriving'
      BY <1>1, <2>2 DEF Claim, ClaimWhen, DriveInv, OwnerIsDriving, Return, Leave, Call, DriveLabels
    <3>2. DriverIsOwner'
      BY <1>1, <2>2 DEF Claim, ClaimWhen, DriveInv, DriverIsOwner, Return, Leave, Call, DriveLabels
    <3>3. ResultInFlight'
      BY <1>1, <2>2 DEF Claim, ClaimWhen, DriveInv, ResultInFlight, Return, Leave, Call, DriveLabels
    <3>4. CompletionIsTerminal'
      BY <1>1, <2>2 DEF Claim, ClaimWhen, DriveInv, CompletionIsTerminal, Return, Leave, Call, DriveLabels
    <3>5. OutcomeInFlight'
      BY <1>1, <2>2 DEF Claim, ClaimWhen, DriveInv, OutcomeInFlight, Return, Leave, Call, DriveLabels
    <3>6. QED BY <1>0, <3>1, <3>2, <3>3, <3>4, <3>5 DEF DriveInv
  <2>3. QED BY <1>1, <2>1, <2>2 DEF Claim, ClaimWhen
<1>2. CASE BeforeDrive(p)
  <2>1. OwnerIsDriving'
    BY <1>2 DEF DriveInv, OwnerIsDriving,
                BeforeDrive, Go, Yield, DriveLabels
  <2>2. DriverIsOwner'
    BY <1>2 DEF DriveInv, DriverIsOwner,
                BeforeDrive, Go, Yield, DriveLabels
  <2>3. ResultInFlight'
    BY <1>2 DEF DriveInv, ResultInFlight, DriverIsOwner,
                BeforeDrive, Go, Yield, DriveLabels
  <2>4. CompletionIsTerminal'
    BY <1>2 DEF DriveInv, CompletionIsTerminal,
                BeforeDrive, Go, Yield, DriveLabels
  <2>5. OutcomeInFlight'
    BY <1>2 DEF DriveInv, OutcomeInFlight,
                BeforeDrive, Go, Yield, DriveLabels
  <2>6. QED BY <1>0, <2>1, <2>2, <2>3, <2>4, <2>5 DEF DriveInv
<1>3. CASE EnterRunner(p)
  <2>1. OwnerIsDriving'
    BY <1>3 DEF DriveInv, OwnerIsDriving,
                EnterRunner, Go, Yield, DriveLabels
  <2>2. DriverIsOwner'
    BY <1>3 DEF DriveInv, DriverIsOwner,
                EnterRunner, Go, Yield, DriveLabels
  <2>3. ResultInFlight'
    BY <1>3 DEF DriveInv, ResultInFlight, DriverIsOwner, Terminal,
                EnterRunner, Go, Yield, DriveLabels
  <2>4. CompletionIsTerminal'
    BY <1>3 DEF DriveInv, CompletionIsTerminal,
                EnterRunner, Go, Yield, DriveLabels
  <2>5. OutcomeInFlight'
    BY <1>3 DEF DriveInv, OutcomeInFlight,
                EnterRunner, Go, Yield, DriveLabels
  <2>6. QED BY <1>0, <2>1, <2>2, <2>3, <2>4, <2>5 DEF DriveInv
<1>4. CASE ConsumeInput(p)
  <2>1. OwnerIsDriving'
    BY <1>4 DEF DriveInv, OwnerIsDriving,
                ConsumeInput, procVars
  <2>2. DriverIsOwner'
    BY <1>4 DEF DriveInv, DriverIsOwner,
                ConsumeInput, procVars
  <2>3. ResultInFlight'
    BY <1>4 DEF DriveInv, ResultInFlight,
                ConsumeInput, procVars
  <2>4. CompletionIsTerminal'
    BY <1>4 DEF DriveInv, CompletionIsTerminal,
                ConsumeInput, procVars
  <2>5. OutcomeInFlight'
    BY <1>4 DEF DriveInv, OutcomeInFlight,
                ConsumeInput, procVars
  <2>6. QED BY <1>0, <2>1, <2>2, <2>3, <2>4, <2>5 DEF DriveInv
<1>5. CASE EndRun(p)
  <2>1. OwnerIsDriving'
    BY <1>5 DEF DriveInv, OwnerIsDriving,
                EndRun, Go, Yield, DriveLabels
  <2>2. DriverIsOwner'
    BY <1>5 DEF DriveInv, DriverIsOwner,
                EndRun, Go, Yield, DriveLabels
  <2>3. ResultInFlight'
    BY <1>5 DEF DriveInv, ResultInFlight, DriverIsOwner,
                EndRun, Go, Yield, DriveLabels
  <2>4. CompletionIsTerminal'
    BY <1>5 DEF DriveInv, CompletionIsTerminal,
                EndRun, Go, Yield, DriveLabels
  <2>5. OutcomeInFlight'
    BY <1>5 DEF DriveInv, OutcomeInFlight,
                EndRun, Go, Yield, DriveLabels
  <2>6. QED BY <1>0, <2>1, <2>2, <2>3, <2>4, <2>5 DEF DriveInv
<1>6. CASE ApplyResult(p)
  <2>1. OwnerIsDriving'
    BY <1>6 DEF DriveInv, OwnerIsDriving,
                ApplyResult, AfterApply, Go, Yield, DriveLabels, Terminal
  <2>2. DriverIsOwner'
    BY <1>6 DEF DriveInv, DriverIsOwner,
                ApplyResult, AfterApply, Go, Yield, DriveLabels, Terminal
  <2>3. ResultInFlight'
    <3>1. CASE UNCHANGED <<status, driving>> /\ Go(p, AfterApply(p))
      BY <1>6, <3>1 DEF ApplyResult, DriveInv, ResultInFlight, AfterApply, Go, Yield
    <3>2. CASE /\ pc[p] = "apply" /\ Go(p, "publish")
               /\ status[cur[p]] \in Terminal => res[p].status = status[cur[p]]
               /\ status' = [status EXCEPT ![cur[p]] = res[p].status]
               /\ UNCHANGED <<driving, res>>
      BY <3>2 DEF DriveInv, ResultInFlight, Go, Terminal
    <3>3. QED BY <1>6, <3>1, <3>2 DEF ApplyResult
  <2>4. CompletionIsTerminal'
    BY <1>6 DEF DriveInv, CompletionIsTerminal,
                ApplyResult, AfterApply, Go, Yield, DriveLabels, Terminal
  <2>5. OutcomeInFlight'
    BY <1>6 DEF DriveInv, OutcomeInFlight, ResultInFlight, CompletionIsTerminal, OwnerIsDriving,
                ApplyResult, AfterApply, Go, Yield, DriveLabels, Terminal
  <2>6. QED BY <1>0, <2>1, <2>2, <2>3, <2>4, <2>5 DEF DriveInv
<1>7. CASE PublishStatus(p)
  <2>1. OwnerIsDriving'
    BY <1>7 DEF DriveInv, OwnerIsDriving,
                PublishStatus, AfterApply, Go, DriveLabels, Terminal
  <2>2. DriverIsOwner'
    BY <1>7 DEF DriveInv, DriverIsOwner,
                PublishStatus, AfterApply, Go, DriveLabels, Terminal
  <2>3. ResultInFlight'
    BY <1>7 DEF DriveInv, ResultInFlight,
                PublishStatus, AfterApply, Go, DriveLabels, Terminal
  <2>4. CompletionIsTerminal'
    BY <1>7 DEF DriveInv, CompletionIsTerminal,
                PublishStatus, AfterApply, Go, DriveLabels, Terminal
  <2>5. OutcomeInFlight'
    BY <1>7 DEF DriveInv, OutcomeInFlight, OwnerIsDriving,
                PublishStatus, AfterApply, Go, DriveLabels, Terminal
  <2>6. QED BY <1>0, <2>1, <2>2, <2>3, <2>4, <2>5 DEF DriveInv
<1>8. CASE PublishCompleted(p)
  <2>1. OwnerIsDriving'
    BY <1>8 DEF DriveInv, OwnerIsDriving,
                PublishCompleted, AfterApply, Go, DriveLabels
  <2>2. DriverIsOwner'
    BY <1>8 DEF DriveInv, DriverIsOwner,
                PublishCompleted, AfterApply, Go, DriveLabels
  <2>3. ResultInFlight'
    BY <1>8 DEF DriveInv, ResultInFlight,
                PublishCompleted, AfterApply, Go, DriveLabels
  <2>4. CompletionIsTerminal'
    BY <1>8 DEF DriveInv, CompletionIsTerminal, ResultInFlight,
                PublishCompleted, AfterApply, Go, DriveLabels
  <2>5. OutcomeInFlight'
    BY <1>8 DEF DriveInv, OutcomeInFlight, ResultInFlight, OwnerIsDriving, CompletionIsTerminal,
                PublishCompleted, AfterApply, Go, DriveLabels
  <2>6. QED BY <1>0, <2>1, <2>2, <2>3, <2>4, <2>5 DEF DriveInv
<1>9. CASE EndDrive(p)
  <2>1. OwnerIsDriving'
    BY <1>9, ProcsAssumption DEF DriveInv, OwnerIsDriving,
                                 EndDrive, Return, Leave, Call, DriveLabels
  <2>2. DriverIsOwner'
    BY <1>9, ProcsAssumption DEF DriveInv, DriverIsOwner,
                                 EndDrive, Return, Leave, Call, DriveLabels
  <2>3. ResultInFlight'
    BY <1>9, ProcsAssumption DEF DriveInv, ResultInFlight, DriverIsOwner,
                                 EndDrive, Return, Leave, Call, DriveLabels
  <2>4. CompletionIsTerminal'
    BY <1>9, ProcsAssumption DEF DriveInv, CompletionIsTerminal,
                                 EndDrive, Return, Leave, Call, DriveLabels
  <2>5. OutcomeInFlight'
    BY <1>9, ProcsAssumption DEF DriveInv, OutcomeInFlight, DriverIsOwner, OwnerIsDriving,
                                 EndDrive, Return, Leave, Call, DriveLabels
  <2>6. QED BY <1>0, <2>1, <2>2, <2>3, <2>4, <2>5 DEF DriveInv
<1>10. QED BY <1>1, <1>2, <1>3, <1>4, <1>5, <1>6, <1>7, <1>8, <1>9 DEF Step


\* A thread outside any slice does not disturb the invariant as long as it
\* neither enters one nor has a result of its own to apply but CANCELLED.
LEMMA OutsideSlice ==
  ASSUME TypeInv, DriveInv, NEW p \in Procs, pc[p] \notin DriveLabels,
         UNCHANGED <<status, driving, completed>>, NEW l, NEW k, NEW r,
         pc' = [pc EXCEPT ![p] = l], cur' = [cur EXCEPT ![p] = k],
         res' = [res EXCEPT ![p] = r],
         l \notin DriveLabels \ {"apply"}, l = "apply" => r.status = "CANCELLED",
         WorksOnJob'
  PROVE  DriveInv'
<1> USE DEF TypeInv, TypeOK, ProcTypes
<1>1. OwnerIsDriving'
  BY DEF DriveInv, OwnerIsDriving
<1>2. DriverIsOwner'
  BY DEF DriveInv, DriverIsOwner, DriveLabels
<1>3. ResultInFlight'
  BY DEF DriveInv, ResultInFlight, DriveLabels
<1>4. CompletionIsTerminal'
  BY DEF DriveInv, CompletionIsTerminal
<1>5. OutcomeInFlight'
  BY DEF DriveInv, OwnerIsDriving, OutcomeInFlight
<1>6. QED BY <1>1, <1>2, <1>3, <1>4, <1>5 DEF DriveInv

LEMMA DriveCaller ==
  ASSUME TypeInv, DriveInv, NEW c \in Callers, CallerStep(c)
  PROVE  DriveInv'
<1> USE DEF engineVars, inputVars
<1> c \in Procs
  BY DEF Procs
<1> DEFINE l == pc'[c]
           k == cur'[c]
           r == res'[c]
<1>1. TypeInv' /\ WorksOnJob'
  BY TypeCaller DEF TypeInv
<1>2. /\ pc[c] \notin DriveLabels
      /\ UNCHANGED <<status, driving, completed>>
  BY DEF CallerStep, Submit, CheckWaiting, Resume, CancelMode, CallEnds, DriveLabels
<1>3. /\ pc' = [pc EXCEPT ![c] = l] /\ cur' = [cur EXCEPT ![c] = k]
      /\ res' = [res EXCEPT ![c] = r]
  BY DEF CallerStep, Submit, CheckWaiting, Resume, CancelMode, CallEnds, Dispatch,
         Go, Return, Leave, Call, Yield, TypeInv, TypeOK, ProcTypes
<1>4. /\ l \notin DriveLabels \ {"apply"}
      /\ l = "apply" => r.status = "CANCELLED"
  BY DEF CallerStep, Submit, CheckWaiting, Resume, CancelMode, CallEnds, Dispatch,
         Go, Return, Leave, Call, Yield, TypeInv, TypeOK, ProcTypes, DriveLabels
<1> HIDE DEF l, k, r
<1>5. QED BY <1>1, <1>2, <1>3, <1>4, OutsideSlice

LEMMA DriveNewCall ==
  ASSUME TypeInv, DriveInv, NEW c \in Callers, NewCall(c)
  PROVE  DriveInv'
<1> USE DEF engineVars, inputVars
<1> c \in Procs
  BY DEF Procs
<1>1. PICK j \in Jobs : Register(c, j) \/ Refuse(c, j) \/ Deliver(c, j) \/ Cancel(c, j)
  BY DEF NewCall
<1>2. PICK l \in {"submit", "refused", "check", "cancel"} :
        Call(c, j, l) /\ pc[c] = "idle" /\ UNCHANGED <<status, driving, completed, res>>
  BY <1>1 DEF Register, Refuse, Deliver, Cancel
<1>3. WorksOnJob'
  BY TypeNewCall DEF TypeInv
<1>4. res' = [res EXCEPT ![c] = res[c]]
  BY <1>2 DEF TypeInv, TypeOK, ProcTypes
<1>5. QED BY <1>2, <1>3, <1>4, OutsideSlice DEF Call, DriveLabels

LEMMA DriveGet ==
  ASSUME TypeInv, DriveInv, NEW w \in Workers, Get(w)
  PROVE  DriveInv'
<1> USE DEF engineVars, inputVars
<1> w \in Procs
  BY DEF Procs
<1>1. pc[w] = "get" /\ UNCHANGED <<status, driving, completed, res>>
  BY DEF Get
<1>2. WorksOnJob'
  BY TypeGet DEF TypeInv
<1>3. res' = [res EXCEPT ![w] = res[w]]
  BY <1>1 DEF TypeInv, TypeOK, ProcTypes
<1>4. CASE UNCHANGED <<pc, cur>>
  <2>1. pc' = [pc EXCEPT ![w] = "get"] /\ cur' = [cur EXCEPT ![w] = cur[w]]
    BY <1>1, <1>4 DEF TypeInv, TypeOK, ProcTypes
  <2>2. QED BY <1>1, <1>2, <1>3, <2>1, OutsideSlice DEF DriveLabels
<1>5. CASE Call(w, Head(queue), "claim")
  BY <1>1, <1>2, <1>3, <1>5, OutsideSlice DEF Call, DriveLabels
<1>6. QED BY <1>4, <1>5 DEF Get

LEMMA DriveStep == TypeInv /\ DriveInv /\ [Next]_vars => DriveInv'
<1>1. CASE UNCHANGED vars
  BY <1>1 DEF vars, engineVars, inputVars, procVars, DriveInv, OwnerIsDriving,
              DriverIsOwner, WorksOnJob, ResultInFlight, CompletionIsTerminal,
              OutcomeInFlight
<1>2. QED
  BY <1>1, DriveGet, DriveDrive, DriveCaller, DriveNewCall DEF Next

-----------------------------------------------------------------------------
(* What follows from the invariant *)

LEMMA InvariantHolds == Spec => [](TypeInv /\ DriveInv)
<1>1. TypeInv /\ DriveInv /\ [Next]_vars => (TypeInv /\ DriveInv)'
  BY TypeStep, DriveStep
<1>2. QED BY TypeInit, DriveInit, <1>1, PTL DEF Spec

\* The claim on a job and the program counter of its driver agree, results and
\* publications in flight come from the owner or are cancels, in every
\* reachable state.
THEOREM DriveInvariant == Spec => []DriveInv
  BY InvariantHolds, PTL

\* begin_drive / end_drive: no two threads are ever inside the same job.
THEOREM DriveIsExclusive == Spec => []ExclusiveDrive
<1>1. DriveInv => ExclusiveDrive
  BY DEF DriveInv, DriverIsOwner, ExclusiveDrive, InSlice
<1>2. QED BY <1>1, InvariantHolds, PTL

\* flow.session.succeeded / failed go out at most once per job, from the slice
\* that ended it, however cancels and other drivers race with it.
THEOREM OutcomePublishedOnce == Spec => []OutcomeIsPublishedOnce
<1>1. TypeInv /\ DriveInv => OutcomeIsPublishedOnce
  BY DEF TypeInv, TypeOK, EngineTypes, DriveInv, CompletionIsTerminal,
         OutcomeInFlight, OutcomeIsPublishedOnce, Terminal
<1>2. QED BY <1>1, InvariantHolds, PTL

\* JOB_COMPLETED is not published before the job is terminal.
THEOREM CompletedIsTerminal == Spec => []CompletionIsTerminal
<1>1. DriveInv => CompletionIsTerminal
  BY DEF DriveInv
<1>2. QED BY <1>1, InvariantHolds, PTL

\* apply_result never has to raise InvalidJobTransitionError.
THEOREM TransitionsValid == Spec => []TransitionsAreValid
<1>1. TypeInv /\ DriveInv => TransitionsAreValid
  BY DEF TypeInv, TypeOK, EngineTypes, ProcTypes, DriveInv, WorksOnJob, ResultInFlight,
         TransitionsAreValid, ValidTransition, Results, Status, Terminal
<1>2. QED BY <1>1, InvariantHolds, PTL

\* Terminal wins: no step of any thread changes a terminal status.
THEOREM TerminalFinal == Spec => TerminalIsFinal
<1> DEFINE Kept == \A j \in Jobs : status[j] \in Terminal => status'[j] = status[j]
<1>1. TypeInv /\ [Next]_vars => [Kept]_vars
  <2> SUFFICES ASSUME TypeInv, [Next]_vars PROVE Kept
    OBVIOUS
  <2> USE DEF engineVars, inputVars
  <2>1. ASSUME NEW p \in Procs, ApplyResult(p) PROVE Kept
    BY <2>1 DEF ApplyResult, TypeInv, TypeOK, EngineTypes
  <2>2. ASSUME UNCHANGED status PROVE Kept
    BY <2>2
  <2>3. ASSUME NEW p \in Procs, Step(p) PROVE UNCHANGED status \/ ApplyResult(p)
    BY <2>3 DEF Step, Claim, ClaimWhen, BeforeDrive, EnterRunner, ConsumeInput, EndRun,
                PublishStatus, PublishCompleted, EndDrive
  <2>4. ASSUME NEW w \in Workers, Get(w) PROVE UNCHANGED status
    BY <2>4 DEF Get
  <2>5. ASSUME NEW c \in Callers, CallerStep(c) \/ NewCall(c) PROVE UNCHANGED status
    BY <2>5 DEF CallerStep, Submit, CheckWaiting, Resume, CancelMode, CallEnds,
                NewCall, Register, Refuse, Deliver, Cancel
  <2>6. QED BY <2>1, <2>2, <2>3, <2>4, <2>5 DEF Next, vars
<1>2. QED BY <1>1, InvariantHolds, PTL DEF Spec, TerminalIsFinal

-----------------------------------------------------------------------------
(* The engine implements the job lifecycle. *)

LEMMA LifecycleInit == Init => Lifecycle!Init
<1> SUFFICES ASSUME Init PROVE Lifecycle!Init
  OBVIOUS
<1>1. \A j \in Jobs : (completed[j] > 0) = FALSE
  BY DEF Init
<1>2. [j \in Jobs |-> completed[j] > 0] = [j \in Jobs |-> FALSE]
  BY <1>1, Zenon
<1>3. QED BY <1>2 DEF Init, Lifecycle!Init

\* A step of the engine is one of the lifecycle's, or leaves it alone.
LEMMA LifecycleStep ==
  TypeInv /\ DriveInv /\ [Next]_vars => [Lifecycle!Next]_(Lifecycle!vars)
<1> SUFFICES ASSUME TypeInv, DriveInv, [Next]_vars
             PROVE  Lifecycle!Next \/ UNCHANGED Lifecycle!vars
  OBVIOUS
<1> USE DEF TypeInv, TypeOK, EngineTypes, ProcTypes, engineVars, inputVars
<1>1. ASSUME UNCHANGED <<status, driving, completed>>
      PROVE  UNCHANGED Lifecycle!vars
  BY <1>1 DEF Lifecycle!vars
<1>2. ASSUME NEW p \in Procs, Step(p)
      PROVE  Lifecycle!Next \/ UNCHANGED Lifecycle!vars
  <2> cur[p] \in Jobs
    BY <1>2 DEF Step, Claim, ClaimWhen, BeforeDrive, EnterRunner, ConsumeInput, EndRun,
                ApplyResult, PublishStatus, PublishCompleted, EndDrive, WorksOnJob
  <2>1. CASE Claim(p)
    <3>1. CASE driving' = [driving EXCEPT ![cur[p]] = p]
               /\ driving[cur[p]] = None /\ status[cur[p]] \notin Terminal
      <4>1. Lifecycle!StartSlice(cur[p], p)
        BY <2>1, <3>1 DEF Claim, ClaimWhen, Lifecycle!StartSlice, Lifecycle!Terminal, Terminal
      <4>2. QED BY <4>1 DEF Lifecycle!Next
    <3>2. CASE UNCHANGED driving
      BY <1>1, <2>1, <3>2 DEF Claim, ClaimWhen
    <3>3. QED BY <2>1, <3>1, <3>2 DEF Claim, ClaimWhen
  <2>2. CASE ApplyResult(p)
    <3>1. CASE UNCHANGED status
      BY <1>1, <2>2, <3>1 DEF ApplyResult
    <3>2. CASE /\ status[cur[p]] \notin Terminal
               /\ status' = [status EXCEPT ![cur[p]] = res[p].status]
      <4>1. CASE res[p].status = "CANCELLED"
        <5>1. Lifecycle!Cancel(cur[p])
          BY <2>2, <3>2, <4>1 DEF ApplyResult, Lifecycle!Cancel, Lifecycle!Terminal, Terminal
        <5>2. QED BY <5>1 DEF Lifecycle!Next
      <4>2. CASE res[p].status # "CANCELLED"
        <5>1. driving[cur[p]] = p /\ res[p].status # "PENDING"
          BY <2>2, <4>2 DEF ApplyResult, DriveInv, ResultInFlight
        <5>2. res[p].status \in {"RUNNING", "WAITING_FOR_INPUT", "SUCCEEDED", "FAILED"}
          BY <4>2, <5>1 DEF Results, Status, Terminal
        <5>3. Lifecycle!Outcome(cur[p])
          BY <2>2, <3>2, <5>1, <5>2, ProcsAssumption
          DEF ApplyResult, Lifecycle!Outcome, Lifecycle!Terminal, Terminal
        <5>4. QED BY <5>3 DEF Lifecycle!Next
      <4>3. QED BY <4>1, <4>2
    <3>3. QED BY <2>2, <3>1, <3>2 DEF ApplyResult
  <2>3. CASE PublishCompleted(p)
    <3>1. status[cur[p]] \in Terminal
      BY <2>3 DEF PublishCompleted, DriveInv, ResultInFlight
    <3>2. /\ \A j \in Jobs : j # cur[p] => completed'[j] = completed[j]
          /\ completed'[cur[p]] > 0
      BY <2>3 DEF PublishCompleted
    <3>3. [j \in Jobs |-> completed'[j] > 0]
            = [[j \in Jobs |-> completed[j] > 0] EXCEPT ![cur[p]] = TRUE]
      BY <3>2, Zenon
    <3>4. \E j \in Jobs : Lifecycle!Complete(j)
      BY <2>3, <3>1, <3>3
      DEF PublishCompleted, Lifecycle!Complete, Lifecycle!Terminal, Terminal
    <3>5. QED BY <3>4 DEF Lifecycle!Next
  <2>4. CASE EndDrive(p)
    <3>1. driving[cur[p]] = p
      BY <2>4 DEF EndDrive, DriveInv, DriverIsOwner
    <3>2. Lifecycle!EndSlice(cur[p])
      BY <2>4, <3>1, ProcsAssumption DEF EndDrive, Lifecycle!EndSlice
    <3>3. QED BY <3>2 DEF Lifecycle!Next
  <2>5. CASE BeforeDrive(p) \/ EnterRunner(p) \/ ConsumeInput(p) \/ EndRun(p) \/ PublishStatus(p)
    BY <1>1, <2>5 DEF BeforeDrive, EnterRunner, ConsumeInput, EndRun, PublishStatus
  <2>6. QED BY <1>2, <2>1, <2>2, <2>3, <2>4, <2>5 DEF Step
<1>3. ASSUME NEW w \in Workers, Get(w) PROVE UNCHANGED Lifecycle!vars
  BY <1>1, <1>3 DEF Get
<1>4. ASSUME NEW c \in Callers, CallerStep(c) \/ NewCall(c)
      PROVE  UNCHANGED Lifecycle!vars
  BY <1>1, <1>4 DEF CallerStep, Submit, CheckWaiting, Resume, CancelMode, CallEnds,
                    NewCall, Register, Refuse, Deliver, Cancel
<1>5. CASE UNCHANGED vars
  BY <1>1, <1>5 DEF vars
<1>6. QED BY <1>2, <1>3, <1>4, <1>5 DEF Next

\* With threads, queue and results in flight forgotten, every behaviour of the
\* engine is a behaviour of the job lifecycle.
THEOREM EngineImplementsLifecycle == Spec => ImplementsLifecycle
<1>1. Spec => [](TypeInv /\ DriveInv)
  BY InvariantHolds
<1>2. QED
  BY <1>1, LifecycleInit, LifecycleStep, PTL DEF Spec, ImplementsLifecycle, Lifecycle!Spec

=============================================================================
