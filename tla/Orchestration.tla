--------------------------- MODULE Orchestration ---------------------------
(***************************************************************************)
(* The orchestration engine of palm/core/orchestration: registration,      *)
(* lifecycle and exclusive driving of jobs, under InlineScheduler (the     *)
(* caller drives) or QueuedScheduler (a pool of worker threads drives).    *)
(*                                                                         *)
(* A process is a worker thread or a caller of the engine.  An action is   *)
(* what a process does between two points where another may run: one       *)
(* section under OrchestrationEngine._lock, one queue operation, one read  *)
(* of job.status made without the lock, one tick of the executable.        *)
(*                                                                         *)
(* The executable is any InputCapable pattern: it consumes the unread      *)
(* input it finds in job.state, parks when it finds none, and may end,     *)
(* exhaust its tick budget or raise at any tick.  The pool is running      *)
(* throughout; module WorkerPool has its start, shutdown and restart.      *)
(***************************************************************************)
EXTENDS Naturals, Sequences, FiniteSets

CONSTANTS
  Jobs,       \* job ids
  Workers,    \* worker threads of QueuedScheduler ({} under InlineScheduler)
  Callers,    \* threads that call submit, provide_input and cancel_job
  Inline,     \* TRUE: InlineScheduler, FALSE: QueuedScheduler
  Raising,    \* jobs whose executable may raise (RunResult.propagate)
  Spinning,   \* jobs whose executable may exhaust its tick budget
  MaxJobs,    \* OrchestrationEngine.max_concurrent_jobs
  MaxInputs,  \* bound: inputs delivered to one job in a behaviour
  None        \* no job, no drive owner

Procs == Workers \cup Callers

ASSUME ProcsAssumption == /\ Workers \cap Callers = {}
                          /\ None \notin Procs \cup Jobs
ASSUME ModeAssumption  == /\ Inline \in BOOLEAN
                          /\ Raising \subseteq Jobs
                          /\ Spinning \subseteq Jobs
ASSUME BoundAssumption == MaxJobs \in Nat /\ MaxInputs \in Nat

Terminal == {"SUCCEEDED", "FAILED", "CANCELLED"}
Status   == {"PENDING", "RUNNING", "WAITING_FOR_INPUT"} \cup Terminal

\* Points at which a process can be interrupted.
DriveLabels  == {"before", "enter", "tick", "apply", "publish", "complete",
                 "release"}
CancelLabels == {"cancel", "apply", "publish", "complete", "cancelled"}
Labels == {"get", "dead", "idle", "refused", "submit", "check", "resume",
           "claim"} \cup DriveLabels \cup CancelLabels

Results  == [status : Status, propagate : BOOLEAN]
NoResult == [status |-> "PENDING", propagate |-> FALSE]

VARIABLES
  jobs,       \* keys of _jobs
  status,     \* job.status
  unread,     \* job.state holds input the executable has not consumed
  sent,       \* how many inputs callers delivered (bounded by MaxInputs)
  driving,    \* _driving: the drive owner of each job
  queue,      \* QueuedScheduler._queue
  pc,         \* where each process is
  cur,        \* the job it is working on
  res,        \* the RunResult it is about to apply
  completed   \* JOB_COMPLETED events published for the job, counted up to 2

engineVars == <<jobs, status, driving, completed>>
inputVars  == <<unread, sent>>
procVars   == <<pc, cur, res>>
vars == <<engineVars, inputVars, queue, procVars>>

\* Fault: a waiting job cannot be cancelled.
ValidTransitionNoCancel(old, new) ==
  \/ old \in {"PENDING", "RUNNING"} /\ new # "PENDING"
  \/ old = "WAITING_FOR_INPUT" /\ new \in {"RUNNING", "SUCCEEDED", "FAILED"}

\* Job._is_valid_transition for two different statuses.
ValidTransition(old, new) ==
  \/ old \in {"PENDING", "RUNNING"} /\ new # "PENDING"
  \/ old = "WAITING_FOR_INPUT" /\ new \in {"RUNNING"} \cup Terminal

Init ==
  /\ jobs = {}
  /\ status = [j \in Jobs |-> "PENDING"]
  /\ unread = [j \in Jobs |-> FALSE]
  /\ sent = [j \in Jobs |-> 0]
  /\ driving = [j \in Jobs |-> None]
  /\ queue = <<>>
  /\ pc = [p \in Procs |-> IF p \in Workers THEN "get" ELSE "idle"]
  /\ cur = [p \in Procs |-> None]
  /\ res = [p \in Procs |-> NoResult]
  /\ completed = [j \in Jobs |-> 0]

Go(p, label) == pc' = [pc EXCEPT ![p] = label] /\ UNCHANGED cur
Call(c, j, label) ==
  pc' = [pc EXCEPT ![c] = label] /\ cur' = [cur EXCEPT ![c] = j]
Yield(p, s, raise) ==
  res' = [res EXCEPT ![p] = [status |-> s, propagate |-> raise]]

\* The process is done with its job and forgets its locals.
Leave(p, label) == Call(p, None, label) /\ res' = [res EXCEPT ![p] = NoResult]
Return(p)       == Leave(p, IF p \in Workers THEN "get" ELSE "idle")

\* Hand the caller's job to the scheduler: put it on the queue, or drive it.
Dispatch(c) ==
  IF Inline THEN Go(c, "claim") /\ UNCHANGED <<queue, res>>
            ELSE Return(c) /\ queue' = Append(queue, cur[c])

-----------------------------------------------------------------------------
(* Callers *)

\* submit, the section under the lock: the job enters the membership map.
Register(c, j) ==
  /\ pc[c] = "idle" /\ j \notin jobs
  /\ Cardinality(jobs) < MaxJobs
  /\ jobs' = jobs \cup {j}
  /\ Call(c, j, "submit")
  /\ UNCHANGED <<status, driving, completed, inputVars, queue, res>>

\* submit raises OrchestratorError: the membership map is full.
Refuse(c, j) ==
  /\ pc[c] = "idle" /\ j \notin jobs
  /\ Cardinality(jobs) >= MaxJobs
  /\ Call(c, j, "refused")
  /\ UNCHANGED <<engineVars, inputVars, queue, res>>

\* submit, after the event: mode.submit_job.
Submit(c) ==
  /\ pc[c] = "submit"
  /\ Dispatch(c)
  /\ UNCHANGED <<engineVars, inputVars>>

\* provide_input / deliver_input write into job.state whatever the status.
Deliver(c, j) ==
  /\ pc[c] = "idle" /\ j \in jobs
  /\ sent[j] < MaxInputs
  /\ unread' = [unread EXCEPT ![j] = TRUE]
  /\ sent' = [sent EXCEPT ![j] = @ + 1]
  /\ Call(c, j, "check")
  /\ UNCHANGED <<engineVars, queue, res>>

\* provide_input then looks at the status without the lock.
CheckWaiting(c) ==
  /\ pc[c] = "check"
  /\ IF status[cur[c]] = "WAITING_FOR_INPUT"
       THEN Go(c, "resume") /\ UNCHANGED res
       ELSE Return(c)
  /\ UNCHANGED <<engineVars, inputVars, queue>>

\* Fault: resume_job only dispatches a job that runs.
ResumeRunningOnly(c) ==
  /\ pc[c] = "resume"
  /\ IF status[cur[c]] = "RUNNING"
       THEN Dispatch(c)
       ELSE Return(c) /\ UNCHANGED queue
  /\ UNCHANGED <<engineVars, inputVars>>

\* mode.resume_job looks again and dispatches a job that still waits.
Resume(c) ==
  /\ pc[c] = "resume"
  /\ IF status[cur[c]] = "WAITING_FOR_INPUT"
       THEN Dispatch(c)
       ELSE Return(c) /\ UNCHANGED queue
  /\ UNCHANGED <<engineVars, inputVars>>

\* cancel_job of a job that is not terminal when it looks.
Cancel(c, j) ==
  /\ pc[c] = "idle" /\ j \in jobs
  /\ status[j] \notin Terminal
  /\ Call(c, j, "cancel")
  /\ UNCHANGED <<engineVars, inputVars, queue, res>>

\* mode.cancel_job looks again before it applies CANCELLED.
CancelMode(c) ==
  /\ pc[c] = "cancel"
  /\ IF status[cur[c]] \in Terminal
       THEN Go(c, "cancelled") /\ UNCHANGED res
       ELSE Go(c, "apply") /\ Yield(c, "CANCELLED", FALSE)
  /\ UNCHANGED <<engineVars, inputVars, queue>>

\* The call ends: cancel_job emits JOB_CANCELLED and returns True, a refused
\* submit raises.
CallEnds(c) ==
  /\ pc[c] \in {"cancelled", "refused"}
  /\ Return(c)
  /\ UNCHANGED <<engineVars, inputVars, queue>>

-----------------------------------------------------------------------------
(* Drive *)

\* QueuedScheduler._worker takes the head of the queue, and lets it go when
\* its job is already terminal.
Get(w) ==
  /\ pc[w] = "get" /\ queue # <<>>
  /\ queue' = Tail(queue)
  /\ IF status[Head(queue)] \in Terminal
       THEN UNCHANGED <<pc, cur>>
       ELSE Call(w, Head(queue), "claim")
  /\ UNCHANGED <<engineVars, inputVars, res>>

\* begin_drive, granting the claim when Grant holds, to Owner.
ClaimWhen(p, Grant, Owner) ==
  /\ pc[p] = "claim"
  /\ IF Grant
       THEN /\ driving' = [driving EXCEPT ![cur[p]] = Owner]
            /\ Go(p, "before") /\ UNCHANGED res
       ELSE Return(p) /\ UNCHANGED driving
  /\ UNCHANGED <<jobs, status, completed, inputVars, queue>>

\* Faults: no ownership check, no terminal check, a token that is not the
\* driver's.
ClaimOwned(p)    == ClaimWhen(p, status[cur[p]] \notin Terminal, p)
ClaimTerminal(p) == ClaimWhen(p, driving[cur[p]] = None, p)
ClaimByJob(p)    == ClaimWhen(p, driving[cur[p]] = None, cur[p])

\* begin_drive; on False drive_job returns and the item is gone.
Claim(p) ==
  LET j == cur[p] IN
    ClaimWhen(p, j \in jobs /\ status[j] \notin Terminal /\ driving[j] = None, p)

\* Fault: a denied slice returns without its finally.
BeforeDriveNoFinally(p) ==
  /\ pc[p] = "before"
  /\ \/ Go(p, "enter") /\ UNCHANGED res
     \/ Return(p)
  /\ UNCHANGED <<engineVars, inputVars, queue>>

\* notify_before_drive: a hook allows the slice, or denies it with
\* JobAuthorizationError, which fails the job.
BeforeDrive(p) ==
  /\ pc[p] = "before"
  /\ \/ Go(p, "enter") /\ UNCHANGED res
     \/ Go(p, "apply") /\ Yield(p, "FAILED", FALSE)
  /\ UNCHANGED <<engineVars, inputVars, queue>>

\* BehaviorTreeRunner.run: a job that is terminal by now is handed back.
EnterRunner(p) ==
  /\ pc[p] = "enter"
  /\ IF status[cur[p]] \in Terminal
       THEN Go(p, "apply") /\ Yield(p, status[cur[p]], FALSE)
       ELSE Go(p, "tick") /\ UNCHANGED res
  /\ UNCHANGED <<engineVars, inputVars, queue>>

\* One tick consumes the unread input.
ConsumeInput(p) ==
  /\ pc[p] = "tick" /\ unread[cur[p]]
  /\ unread' = [unread EXCEPT ![cur[p]] = FALSE]
  /\ UNCHANGED <<engineVars, sent, queue, procVars>>

\* The run ends; it parks or exhausts its budget only with nothing to read.
EndRun(p) ==
  /\ pc[p] = "tick"
  /\ \/ Yield(p, "SUCCEEDED", FALSE)
     \/ Yield(p, "FAILED", FALSE)
     \/ cur[p] \in Raising /\ Yield(p, "FAILED", TRUE)
     \/ ~unread[cur[p]] /\ Yield(p, "WAITING_FOR_INPUT", FALSE)
     \/ ~unread[cur[p]] /\ cur[p] \in Spinning /\ Yield(p, "RUNNING", FALSE)
  /\ Go(p, "apply")
  /\ UNCHANGED <<engineVars, inputVars, queue>>

\* A process that drives goes on to release its claim, one that cancels to
\* emit JOB_CANCELLED.
AfterApply(p) == IF driving[cur[p]] = p THEN "release" ELSE "cancelled"

\* Fault: the last result wins.
ApplyLastWins(p) ==
  /\ pc[p] = "apply"
  /\ status' = [status EXCEPT ![cur[p]] = res[p].status]
  /\ Go(p, "publish")
  /\ UNCHANGED <<jobs, driving, completed, inputVars, queue, res>>

\* Fault: an error is raised before the status is published.
ApplyRaisesFirst(p) ==
  /\ pc[p] = "apply"
  /\ status' = IF status[cur[p]] \in Terminal THEN status
               ELSE [status EXCEPT ![cur[p]] = res[p].status]
  /\ Go(p, IF res[p].propagate THEN AfterApply(p) ELSE "publish")
  /\ UNCHANGED <<jobs, driving, completed, inputVars, queue, res>>

\* apply_result, the section under the lock.  Terminal wins: a late result
\* is dropped, with its error.
ApplyResult(p) ==
  /\ pc[p] = "apply"
  /\ LET j == cur[p]
         new == res[p].status
     IN  IF status[j] \in Terminal /\ new # status[j]
           THEN /\ Go(p, AfterApply(p))
                /\ Yield(p, new, FALSE)
                /\ UNCHANGED status
           ELSE /\ new # status[j] => ValidTransition(status[j], new)
                /\ status' = [status EXCEPT ![j] = new]
                /\ Go(p, "publish")
                /\ UNCHANGED res
  /\ UNCHANGED <<jobs, driving, completed, inputVars, queue>>

\* _publish_job_status reads the status when it publishes, not when it applied.
PublishStatus(p) ==
  /\ pc[p] = "publish"
  /\ Go(p, IF status[cur[p]] \in Terminal THEN "complete" ELSE AfterApply(p))
  /\ UNCHANGED <<engineVars, inputVars, queue, res>>

\* JOB_COMPLETED and flow.session.succeeded / failed.
PublishCompleted(p) ==
  /\ pc[p] = "complete"
  /\ completed' = [completed EXCEPT ![cur[p]] = IF @ = 0 THEN 1 ELSE 2]
  /\ Go(p, AfterApply(p))
  /\ UNCHANGED <<jobs, status, driving, inputVars, queue, res>>

\* end_drive in drive_job's finally.  A propagated error then leaves the
\* worker's loop, which has no handler, and ends its thread; a caller gets it.
EndDrive(p) ==
  /\ pc[p] = "release"
  /\ driving' = [driving EXCEPT ![cur[p]] = None]
  /\ IF res[p].propagate /\ p \in Workers THEN Leave(p, "dead") ELSE Return(p)
  /\ UNCHANGED <<jobs, status, completed, inputVars, queue>>

-----------------------------------------------------------------------------
\* A step of a call or a slice already begun.
Step(p) ==
  \/ Claim(p) \/ BeforeDrive(p) \/ EnterRunner(p) \/ ConsumeInput(p)
  \/ EndRun(p) \/ ApplyResult(p) \/ PublishStatus(p) \/ PublishCompleted(p)
  \/ EndDrive(p)

CallerStep(c) ==
  \/ Submit(c) \/ CheckWaiting(c) \/ Resume(c) \/ CancelMode(c) \/ CallEnds(c)

\* A new call, which nothing obliges a caller to make.
NewCall(c) ==
  \E j \in Jobs : Register(c, j) \/ Refuse(c, j) \/ Deliver(c, j) \/ Cancel(c, j)

Next ==
  \/ \E w \in Workers : Get(w)
  \/ \E p \in Procs : Step(p)
  \/ \E c \in Callers : CallerStep(c) \/ NewCall(c)

Spec == Init /\ [][Next]_vars

\* Threads are scheduled: none stops in the middle of a call or a slice, and
\* an idle worker takes the next item.
FairSpec ==
  /\ Spec
  /\ \A w \in Workers : WF_vars(Get(w))
  /\ \A p \in Procs : WF_vars(Step(p))
  /\ \A c \in Callers : WF_vars(CallerStep(c))

-----------------------------------------------------------------------------
(* Properties *)

EngineTypes ==
  /\ jobs \subseteq Jobs
  /\ status \in [Jobs -> Status]
  /\ driving \in [Jobs -> Procs \cup {None}]
  /\ completed \in [Jobs -> 0..2]
InputTypes ==
  /\ unread \in [Jobs -> BOOLEAN]
  /\ sent \in [Jobs -> 0..MaxInputs]
ProcTypes ==
  /\ pc \in [Procs -> Labels]
  /\ cur \in [Procs -> Jobs \cup {None}]
  /\ res \in [Procs -> Results]
TypeOK == EngineTypes /\ InputTypes /\ ProcTypes /\ queue \in Seq(jobs)

\* At most one thread at a time is inside the executable of a job, its hooks
\* and its state, however many work items the job has on the queue
\* (engine.py: "cannot double-drive the same job").
InSlice(p, j) == cur[p] = j /\ pc[p] \in {"before", "enter", "tick"}
ExclusiveDrive ==
  \A j \in Jobs : \A p, q \in Procs : InSlice(p, j) /\ InSlice(q, j) => p = q

\* A terminal status is never changed: a driver's late result does not undo a
\* cancel, nor a cancel a result (apply_result, "terminal wins").
TerminalIsFinal ==
  [][\A j \in Jobs : status[j] \in Terminal => status'[j] = status[j]]_vars

\* apply_result never raises InvalidJobTransitionError, whatever runs between
\* the runner's choice of an outcome and its application.
TransitionsAreValid ==
  \A p \in Procs : pc[p] = "apply" =>
    LET old == status[cur[p]] IN
      \/ old \in Terminal \/ old = res[p].status
      \/ ValidTransition(old, res[p].status)

\* JOB_COMPLETED is only ever published for a job that is terminal and stays so.
CompletionIsTerminal ==
  \A j \in Jobs : completed[j] > 0 => status[j] \in Terminal

\* The outcome of a job that was not cancelled is published at most once: the
\* triggers on flow.session.succeeded / failed start flows from it.
OutcomeIsPublishedOnce ==
  \A j \in Jobs : completed[j] > 1 => status[j] = "CANCELLED"

\* Every claim on a job is released: by a slice that ends, is denied by a hook
\* or raises (drive_job's finally).
ClaimIsReleased ==
  \A j \in Jobs, p \in Procs : driving[j] = p ~> driving[j] # p

\* Every job that becomes terminal has its completion published, whoever won
\* the race to end it; waiters and triggers listen for that event.
CompletionIsPublished ==
  \A j \in Jobs : status[j] \in Terminal ~> completed[j] > 0

\* Every registered job is driven or cancelled: it does not stay PENDING
\* (QueuedScheduler: "Enqueue submitted and resumed jobs for background
\* worker(s) to drive").
SubmittedIsDriven ==
  \A j \in Jobs : j \in jobs /\ status[j] = "PENDING" ~> status[j] # "PENDING"

\* An input whose delivery found the job waiting is read by the executable,
\* unless the job ends first.
InputIsRead ==
  \A c \in Callers, j \in Jobs :
    pc[c] = "resume" /\ cur[c] = j /\ status[j] = "WAITING_FOR_INPUT" /\ unread[j]
      ~> ~unread[j] \/ status[j] \in Terminal

-----------------------------------------------------------------------------
(* The inductive invariant behind the properties *)

\* The claim and the program counter agree.
OwnerIsDriving ==
  \A j \in Jobs, p \in Procs :
    driving[j] = p => cur[p] = j /\ pc[p] \in DriveLabels
DriverIsOwner ==
  \A p \in Procs :
    pc[p] \in {"before", "enter", "tick", "release"} => driving[cur[p]] = p

\* A process between two steps of a call has a registered job.
WorksOnJob ==
  \A p \in Procs :
    /\ pc[p] \notin {"get", "idle", "dead", "refused"} => cur[p] \in jobs
    /\ pc[p] = "refused" => cur[p] \in Jobs

\* What is about to be applied or published, and by whom.
ResultInFlight ==
  \A p \in Procs :
    /\ pc[p] = "apply" => res[p].status # "PENDING"
    /\ pc[p] = "apply" /\ driving[cur[p]] # p => res[p].status = "CANCELLED"
    /\ pc[p] \in {"publish", "complete"} /\ driving[cur[p]] # p
         => status[cur[p]] = "CANCELLED"
    /\ pc[p] = "complete" => status[cur[p]] \in Terminal

\* An outcome other than CANCELLED comes from the owner, which publishes it
\* once and then releases the job.
OutcomeInFlight ==
  \A j \in Jobs : status[j] \in {"SUCCEEDED", "FAILED"} =>
    /\ completed[j] <= 1
    /\ \A p \in Procs : driving[j] = p =>
         \/ pc[p] \in {"publish", "complete"} /\ completed[j] = 0
         \/ pc[p] = "release"

DriveInv ==
  /\ OwnerIsDriving /\ DriverIsOwner /\ WorksOnJob
  /\ ResultInFlight /\ CompletionIsTerminal /\ OutcomeInFlight

-----------------------------------------------------------------------------
\* Forgetting threads, queue and results in flight, the engine is a job
\* lifecycle: at most one slice, moved only by its slice or to CANCELLED, final
\* once terminal, completed only when terminal (engine.py, "Concurrency law").
Lifecycle == INSTANCE JobLifecycle
               WITH owner <- driving,
                    published <- [j \in Jobs |-> completed[j] > 0]
ImplementsLifecycle == Lifecycle!Spec

=============================================================================
