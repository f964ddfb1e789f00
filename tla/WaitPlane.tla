----------------------------- MODULE WaitPlane -----------------------------
(***************************************************************************)
(* The continue plane of palm: a wizard's resource step submits a child    *)
(* job, parks its owner on it with a wait interest, and WaitMatcher        *)
(* resumes or fails the owner when the child's completion is published.    *)
(*                                                                         *)
(* Events are delivered in the publishing thread, and one signal is        *)
(* handled under the matcher's lock from end to end; the slices of the     *)
(* jobs involved do not take that lock and interleave with each of its     *)
(* steps.  Failing an owner publishes its own completion, which the same   *)
(* thread handles before it goes on (the lock is re-entrant): frame[t] is  *)
(* the handling of one signal of t, suspended while a nested one runs.     *)
(*                                                                         *)
(* Module Orchestration has the claim, the queue and apply_result in       *)
(* detail; here a slice is exclusive, an item taken while a slice runs is  *)
(* dropped, a terminal status is kept and its completion published once.   *)
(***************************************************************************)
EXTENDS Naturals, FiniteSets

CONSTANTS
  Jobs,        \* job ids
  Children,    \* the jobs each job may come to submit from a resource step
  MaxAnswers,  \* bound: human inputs given to each job
  None         \* no job

Roots == {j \in Jobs : \A o \in Jobs : j \notin Children[o]}

ASSUME ChildrenAssumption == Children \in [Jobs -> SUBSET Jobs] /\ None \notin Jobs
ASSUME AnswersAssumption  == MaxAnswers \in [Jobs -> Nat]

Terminal == {"SUCCEEDED", "FAILED", "CANCELLED"}
Status   == {"PENDING", "WAITING_FOR_INPUT"} \cup Terminal

\* Where the slice of a job is ("none": nobody drives it), and where the
\* handling of a signal is.
SlicePoints == {"none", "tick", "call", "open", "index", "apply", "release"}
Phases      == {"idle", "match", "resume", "drop", "wake", "fail", "nested",
                "close"}
Frames      == [phase : Phases, todo : SUBSET Jobs, owner : Jobs \cup {None}]

VARIABLES
  jobs,     \* keys of OrchestrationEngine._jobs
  status,   \* job.status
  items,    \* work items of the job on the scheduler's queue
  slice,    \* where the slice that drives the job is
  outcome,  \* the status that slice is about to apply
  answers,  \* human inputs given (bounded by MaxAnswers)
  child,    \* the child of the resource step the job is at
  waits,    \* targets of the open interests in job.state
  output,   \* children whose result the plane wrote into job.state
  index,    \* WaitOwnerIndex: target -> owners
  signals,  \* completion events of the job still to be published
  frame,    \* the signal of the job being handled
  acted,    \* WaitMatcher._acted_keys
  able      \* WaitPlaneService.is_able()

jobVars   == <<jobs, status, items, answers>>
sliceVars == <<slice, outcome, child>>
waitVars  == <<waits, output, index>>
matchVars == <<frame, acted, able>>
vars == <<jobVars, sliceVars, waitVars, signals, matchVars>>

Idle == [phase |-> "idle", todo |-> {}, owner |-> None]

Init ==
  /\ jobs = {}
  /\ status = [j \in Jobs |-> "PENDING"]
  /\ items = [j \in Jobs |-> 0]
  /\ slice = [j \in Jobs |-> "none"]
  /\ outcome = [j \in Jobs |-> "PENDING"]
  /\ answers = [j \in Jobs |-> 0]
  /\ child = [j \in Jobs |-> None]
  /\ waits = [j \in Jobs |-> {}]
  /\ output = [j \in Jobs |-> {}]
  /\ index = [t \in Jobs |-> {}]
  /\ signals = [t \in Jobs |-> 0]
  /\ frame = [t \in Jobs |-> Idle]
  /\ acted = {}
  /\ able = TRUE

Go(o, point) == slice' = [slice EXCEPT ![o] = point]
Enqueue(j)   == items' = [items EXCEPT ![j] = @ + 1]

\* submit: the job is registered and handed to the scheduler.
Register(j) == jobs' = jobs \cup {j} /\ Enqueue(j)

\* apply_result of a terminal status: status_changed, job.completed and, unless
\* cancelled, flow.session.succeeded / failed are to be published.
Finish(j, s) ==
  /\ status' = [status EXCEPT ![j] = s]
  /\ signals' = [signals EXCEPT ![j] = IF s = "CANCELLED" THEN 2 ELSE 3]

\* Fault: a status change that ends nothing is taken for a completion.
SettleNoisily(j, s) ==
  /\ status' = [status EXCEPT ![j] = s]
  /\ signals' = [signals EXCEPT ![j] = 1]

\* apply_result of any outcome.
Settle(j, s) ==
  IF s \in Terminal THEN Finish(j, s)
  ELSE status' = [status EXCEPT ![j] = s] /\ UNCHANGED signals

\* Interest and index entry of o for t.
Unindex(t, o) == index' = [index EXCEPT ![t] = @ \ {o}]
Forget(t, o)  == waits' = [waits EXCEPT ![o] = @ \ {t}] /\ Unindex(t, o)

-----------------------------------------------------------------------------
(* Callers and admission *)

Submit(j) ==
  /\ j \in Roots \ jobs
  /\ Register(j)
  /\ UNCHANGED <<status, answers, sliceVars, waitVars, signals, matchVars>>

\* Human input to a job that waits, whatever it waits for.
Answer(j) ==
  /\ j \in jobs /\ status[j] = "WAITING_FOR_INPUT"
  /\ answers[j] < MaxAnswers[j]
  /\ answers' = [answers EXCEPT ![j] = @ + 1]
  /\ Enqueue(j)
  /\ UNCHANGED <<jobs, status, sliceVars, waitVars, signals, matchVars>>

Cancel(j) ==
  /\ j \in jobs /\ status[j] \notin Terminal
  /\ Finish(j, "CANCELLED")
  /\ UNCHANGED <<jobs, items, answers, sliceVars, waitVars, matchVars>>

\* Admission to run business opens or closes.
Admit ==
  /\ able' = ~able
  /\ UNCHANGED <<jobVars, sliceVars, waitVars, signals, frame, acted>>

-----------------------------------------------------------------------------
(* Slices *)

\* Fault: one slice uses up two items.
TakeTwice(j) ==
  /\ items[j] > 0
  /\ items' = [items EXCEPT ![j] = @ - 2]
  /\ Go(j, "tick")
  /\ UNCHANGED <<jobs, status, answers, outcome, child, waitVars, signals,
                 matchVars>>

\* A worker takes an item; a job that is driven already, or over, drops it.
Take(j) ==
  /\ items[j] > 0
  /\ items' = [items EXCEPT ![j] = @ - 1]
  /\ IF slice[j] = "none" /\ status[j] \notin Terminal
       THEN Go(j, "tick") ELSE UNCHANGED slice
  /\ UNCHANGED <<jobs, status, answers, outcome, child, waitVars, signals,
                 matchVars>>

\* The thread that waits for its child drives a child still pending, so that
\* a pool whose workers all wait does not deadlock.
DriveChild(o) ==
  LET c == child[o] IN
  /\ slice[o] = "call" /\ status[c] = "PENDING" /\ slice[c] = "none"
  /\ Go(c, "tick")
  /\ UNCHANGED <<jobVars, outcome, child, waitVars, signals, matchVars>>

Yield(o, s) == Go(o, "apply") /\ outcome' = [outcome EXCEPT ![o] = s]

\* The step's interest is open and nothing was delivered: stay parked.
HoldPark(o) ==
  /\ slice[o] = "tick"
  /\ child[o] \in waits[o] \ output[o]
  /\ Yield(o, "WAITING_FOR_INPUT")
  /\ UNCHANGED <<jobVars, child, waitVars, signals, matchVars>>

\* The plane delivered the child's result: the step is done.
FinishStep(o) ==
  /\ slice[o] = "tick" /\ child[o] \in output[o]
  /\ Forget(child[o], o)
  /\ child' = [child EXCEPT ![o] = None]
  /\ UNCHANGED <<jobVars, slice, outcome, output, signals, matchVars>>

\* No step is parked.  A step whose interest was closed without a result (its
\* owner was failed under it) is entered again.
Unparked(o) == child[o] \notin waits[o] \cup output[o]

\* A resource step submits its child and waits for it to park or end.
Invoke(o, c) ==
  /\ slice[o] = "tick" /\ Unparked(o)
  /\ c \in Children[o] \ jobs
  /\ Register(c)
  /\ child' = [child EXCEPT ![o] = c]
  /\ Go(o, "call")
  /\ UNCHANGED <<status, answers, outcome, waitVars, signals, matchVars>>

\* Every other step of the pattern: it asks the human, or the run ends.
OtherStep(o) ==
  /\ slice[o] = "tick" /\ Unparked(o)
  /\ \E s \in {"WAITING_FOR_INPUT", "SUCCEEDED", "FAILED"} : Yield(o, s)
  /\ UNCHANGED <<jobVars, child, waitVars, signals, matchVars>>

\* The child is found waiting: the step is to park on it.
ReadChild(o) ==
  /\ slice[o] = "call" /\ status[child[o]] = "WAITING_FOR_INPUT"
  /\ Go(o, "open")
  /\ UNCHANGED <<jobVars, outcome, child, waitVars, signals, matchVars>>

\* The child is found over, or the wait timed out: the step is done, with a
\* result or a failure, without a park.
CallEnds(o) ==
  /\ slice[o] = "call"
  /\ Go(o, "tick")
  /\ child' = [child EXCEPT ![o] = None]
  /\ UNCHANGED <<jobVars, outcome, waitVars, signals, matchVars>>

\* open_on_job: the interest enters job.state ...
OpenInterest(o) ==
  /\ slice[o] = "open"
  /\ waits' = [waits EXCEPT ![o] = @ \cup {child[o]}]
  /\ Go(o, "index")
  /\ UNCHANGED <<jobVars, outcome, child, output, index, signals, matchVars>>

\* Fault: the owner is never registered.
RegisterNobody(o) ==
  /\ slice[o] = "index"
  /\ Yield(o, "WAITING_FOR_INPUT")
  /\ UNCHANGED <<jobVars, child, waitVars, signals, matchVars>>

\* ... and then the index; the step parks.
RegisterOwner(o) ==
  /\ slice[o] = "index"
  /\ index' = [index EXCEPT ![child[o]] = @ \cup {o}]
  /\ Yield(o, "WAITING_FOR_INPUT")
  /\ UNCHANGED <<jobVars, child, waits, output, signals, matchVars>>

\* apply_result: terminal wins.
Apply(o) ==
  /\ slice[o] = "apply"
  /\ IF status[o] \in Terminal THEN UNCHANGED <<status, signals>>
                               ELSE Settle(o, outcome[o])
  /\ Go(o, "release")
  /\ outcome' = [outcome EXCEPT ![o] = "PENDING"]
  /\ UNCHANGED <<jobs, items, answers, child, waitVars, matchVars>>

EndDrive(o) ==
  /\ slice[o] = "release"
  /\ Go(o, "none")
  /\ UNCHANGED <<jobVars, outcome, child, waitVars, signals, matchVars>>

-----------------------------------------------------------------------------
(* The matcher *)

LockFree == \A t \in Jobs : frame[t] = Idle
NestedIn(u, t) == frame[u].phase = "nested" /\ frame[u].owner = t
Enter(t, phase) == frame' = [frame EXCEPT ![t].phase = phase]

\* Owners by the index and by the scan of the registered jobs.
OwnersOf(t) == index[t] \cup {o \in jobs : t \in waits[o]}

\* Fault: any end of the target counts as a success.
ActionAnyEnd(t) == "resume"

\* resolve_wait_action for the default policy; the signal's outcome is the
\* final status of t.
ActionFor(t) == IF status[t] = "SUCCEEDED" THEN "resume" ELSE "fail"

\* One event less to publish, its handling begun.
Begin(t) ==
  /\ signals' = [signals EXCEPT ![t] = @ - 1]
  /\ frame' = [frame EXCEPT ![t] =
                 IF OwnersOf(t) = {} THEN Idle
                 ELSE [phase |-> "match", todo |-> OwnersOf(t), owner |-> None]]

\* Fault: a lock that its holder cannot take again.
SignalNotReentrant(t) ==
  /\ signals[t] > 0 /\ frame[t] = Idle
  /\ LockFree
  /\ Begin(t)
  /\ UNCHANGED <<jobVars, sliceVars, waitVars, acted, able>>

\* The next event of t is published and enters handle_signal: by the thread
\* that holds the lock while it fails t, by any other when the lock is free.
Signal(t) ==
  /\ signals[t] > 0 /\ frame[t] = Idle
  /\ LockFree \/ \E u \in Jobs : NestedIn(u, t)
  /\ Begin(t)
  /\ UNCHANGED <<jobVars, sliceVars, waitVars, acted, able>>

\* The frame once it is done with o.
Rest(t, o) ==
  IF frame[t].todo \ {o} = {} THEN Idle
  ELSE [phase |-> "match", todo |-> frame[t].todo \ {o}, owner |-> None]

\* _match_one_owner: a stale index entry goes, an action already applied to
\* this owner is not repeated, any other is begun.
Match(t, o) ==
  LET key == <<o, t, ActionFor(t)>> IN
  /\ frame[t].phase = "match" /\ o \in frame[t].todo
  /\ IF t \notin waits[o]
       THEN Unindex(t, o) /\ UNCHANGED acted
       ELSE acted' = acted \cup {key} /\ UNCHANGED index
  /\ frame' = [frame EXCEPT ![t] =
                 IF t \notin waits[o] \/ key \in acted THEN Rest(t, o)
                 ELSE [phase |-> ActionFor(t), todo |-> @.todo, owner |-> o]]
  /\ UNCHANGED <<jobVars, sliceVars, waits, output, signals, able>>

\* resume_owner writes the child's result into job.state, ...
Deliver(t) ==
  LET o == frame[t].owner IN
  /\ frame[t].phase = "resume" /\ able
  /\ output' = [output EXCEPT ![o] = @ \cup {t}]
  /\ Enter(t, "drop")
  /\ UNCHANGED <<jobVars, sliceVars, waits, index, signals, acted, able>>

\* ... closes the interest ...
Drop(t) ==
  /\ frame[t].phase = "drop"
  /\ Forget(t, frame[t].owner)
  /\ Enter(t, "wake")
  /\ UNCHANGED <<jobVars, sliceVars, output, signals, acted, able>>

\* Fault: the owner is left to be driven by its next input.
WakeNobody(t) ==
  /\ frame[t].phase = "wake"
  /\ Enter(t, "close")
  /\ UNCHANGED <<jobVars, sliceVars, waitVars, signals, acted, able>>

\* ... and then resumes the owner if it finds it waiting.
Wake(t) ==
  LET o == frame[t].owner IN
  /\ frame[t].phase = "wake"
  /\ IF status[o] = "WAITING_FOR_INPUT" THEN Enqueue(o) ELSE UNCHANGED items
  /\ Enter(t, "close")
  /\ UNCHANGED <<jobs, status, answers, sliceVars, waitVars, signals, acted, able>>

\* fail_owner, or resume_owner while business is not admitted: the owner fails
\* and its completion is published, unless it is over already.
FailOwner(t) ==
  LET o == frame[t].owner IN
  /\ \/ frame[t].phase = "fail"
     \/ frame[t].phase = "resume" /\ ~able
  /\ IF status[o] \in Terminal
       THEN Enter(t, "close") /\ UNCHANGED <<status, signals>>
       ELSE Enter(t, "nested") /\ Finish(o, "FAILED")
  /\ UNCHANGED <<jobs, items, answers, sliceVars, waitVars, acted, able>>

\* apply_result returns: every event of the owner has been handled.
Unnest(t) ==
  LET o == frame[t].owner IN
  /\ frame[t].phase = "nested" /\ signals[o] = 0 /\ frame[o] = Idle
  /\ Enter(t, "close")
  /\ UNCHANGED <<jobVars, sliceVars, waitVars, signals, acted, able>>

\* Fault: only the index entry is dropped.
CloseIndexOnly(t) ==
  LET o == frame[t].owner IN
  /\ frame[t].phase = "close"
  /\ Unindex(t, o)
  /\ frame' = [frame EXCEPT ![t] = Rest(t, o)]
  /\ UNCHANGED <<jobVars, sliceVars, waits, output, signals, acted, able>>

\* _close_interest, after the side effects; then the next owner.
Close(t) ==
  LET o == frame[t].owner IN
  /\ frame[t].phase = "close"
  /\ Forget(t, o)
  /\ frame' = [frame EXCEPT ![t] = Rest(t, o)]
  /\ UNCHANGED <<jobVars, sliceVars, output, signals, acted, able>>

-----------------------------------------------------------------------------
Drive(o) ==
  \/ DriveChild(o) \/ HoldPark(o) \/ FinishStep(o) \/ OtherStep(o)
  \/ (\E c \in Jobs : Invoke(o, c))
  \/ ReadChild(o) \/ CallEnds(o) \/ OpenInterest(o) \/ RegisterOwner(o)
  \/ Apply(o) \/ EndDrive(o)

Handle(t) ==
  \/ Signal(t) \/ (\E o \in Jobs : Match(t, o))
  \/ Deliver(t) \/ Drop(t) \/ Wake(t) \/ FailOwner(t) \/ Unnest(t) \/ Close(t)

Next ==
  \/ \E j \in Jobs : Submit(j) \/ Answer(j) \/ Cancel(j)
  \/ Admit
  \/ \E j \in Jobs : Take(j) \/ Drive(j) \/ Handle(j)

Spec == Init /\ [][Next]_vars

\* Workers take items, and no thread stops inside a slice or a signal.  Nothing
\* obliges a human to answer, cancel or submit.
FairSpec ==
  /\ Spec
  /\ \A j \in Jobs : WF_vars(Take(j)) /\ WF_vars(Drive(j)) /\ WF_vars(Handle(j))

-----------------------------------------------------------------------------
(* Properties *)

TypeOK ==
  /\ jobs \subseteq Jobs
  /\ status \in [Jobs -> Status]
  /\ items \in [Jobs -> Nat]
  /\ slice \in [Jobs -> SlicePoints]
  /\ outcome \in [Jobs -> Status]
  /\ answers \in [Jobs -> Nat]
  /\ child \in [Jobs -> Jobs \cup {None}]
  /\ waits \in [Jobs -> SUBSET Jobs]
  /\ output \in [Jobs -> SUBSET Jobs]
  /\ index \in [Jobs -> SUBSET Jobs]
  /\ signals \in [Jobs -> 0..3]
  /\ frame \in [Jobs -> Frames]
  /\ acted \subseteq Jobs \X Jobs \X {"resume", "fail"}
  /\ able \in BOOLEAN

\* An interest is closed only when its target has ended: no signal, and no
\* input, takes an owner out of a park early (resolve_wait_action).
UnparkedByTarget ==
  [][\A o, t \in Jobs :
       t \in waits[o] /\ t \notin waits'[o] => status[t] \in Terminal]_vars

\* A result the plane delivers into an owner is that of a target that
\* succeeded (deliver_nested_wizard_completion).
OutputIsSuccess ==
  \A o, t \in Jobs : t \in output[o] => status[t] = "SUCCEEDED"

\* An interest the matcher has acted on is closed before its signal is done.
\* If one were left open its acted key would swallow every later signal and
\* the owner would stay parked.
ActedIsClosed ==
  \A o, t \in Jobs, a \in {"resume", "fail"} :
    <<o, t, a>> \in acted /\ t \in waits[o] => frame[t].owner = o

\* But for the interest whose owner stands between the two writes of
\* open_on_job, the index names every owner of an open interest (plane.py,
\* attach: "index is load-bearing").
IndexCoversWaits ==
  \A o, t \in Jobs :
    t \in waits[o] => o \in index[t] \/ (slice[o] = "index" /\ child[o] = t)

\* An owner that was parked and at rest when its target ended is resumed or
\* failed, unless somebody answers it meanwhile, which starts a slice the
\* resume can collide with.
AtRest(o) ==
  status[o] = "WAITING_FOR_INPUT" /\ slice[o] = "none" /\ items[o] = 0
Continues(o) == slice[o] # "none" \/ status[o] \in Terminal
Unheard(t) ==
  status[t] \in Terminal /\ signals[t] = IF status[t] = "CANCELLED" THEN 2 ELSE 3
RestingOwnerContinues ==
  \A o, t \in Jobs :
    AtRest(o) /\ answers[o] = 0 /\ t \in waits[o] /\ Unheard(t)
      ~> Continues(o) \/ answers[o] > 0

\* The lock is released after each signal, however long the chain of owners it
\* fails.
SignalIsHandled == \A t \in Jobs : frame[t] # Idle ~> frame[t] = Idle

\* Every owner parked on a child that ended is resumed or failed ("Matcher
\* finds interest by target and resumes or fails the owner",
\* docs/adr/025-reactive-interests.md).
EndedPark(o) ==
  AtRest(o) /\ child[o] # None /\ status[child[o]] \in Terminal
EveryParkEnds == \A o \in Jobs : EndedPark(o) ~> Continues(o)

-----------------------------------------------------------------------------
(* The inductive invariant behind the properties *)

\* Events are published of ended jobs only, and handled with their outcome.
SignalsOfEnded ==
  \A t \in Jobs :
    /\ (signals[t] > 0 \/ frame[t].phase # "idle") => status[t] \in Terminal
    /\ frame[t].phase = "resume" => status[t] = "SUCCEEDED"
    /\ frame[t].phase \notin {"idle", "match"} => frame[t].owner \in Jobs

\* A child is registered before its owner waits for it, and its interest is
\* neither open nor acted on before the step opens it.
ChildOfStep ==
  \A o \in Jobs :
    /\ waits[o] \subseteq jobs
    /\ slice[o] \in {"call", "open", "index"} => child[o] \in jobs
    /\ slice[o] \in {"call", "open"} =>
         /\ child[o] \notin waits[o]
         /\ \A a \in {"resume", "fail"} : <<o, child[o], a>> \notin acted

\* The owner of an interest acted on and still open is the one the frame of
\* its target is busy with.
ActedInFrame ==
  \A o, t \in Jobs, a \in {"resume", "fail"} :
    <<o, t, a>> \in acted =>
      /\ t \in jobs
      /\ t \in waits[o] =>
           frame[t].owner = o /\ frame[t].phase \notin {"idle", "match"}

MatchInv ==
  /\ SignalsOfEnded /\ OutputIsSuccess /\ ChildOfStep /\ ActedInFrame
  /\ IndexCoversWaits

\* A frame that acts does so on a key taken for it; what it has delivered stays
\* in the owner's state, and it closes no interest that is not answered.
FrameAnswers ==
  \A t \in Jobs :
    LET o == frame[t].owner IN
    /\ frame[t].phase \notin {"idle", "match"} =>
         \E a \in {"resume", "fail"} : <<o, t, a>> \in acted
    /\ frame[t].phase = "resume" => t \in waits[o] \ output[o]
    /\ frame[t].phase \in {"drop", "wake"} => t \in output[o]
    /\ frame[t].phase \in {"nested", "close"} =>
         t \in output[o] \/ status[o] \in Terminal

\* A result is delivered under a key taken for it.
OutputIsActed ==
  \A o, t \in Jobs :
    t \in output[o] => \E a \in {"resume", "fail"} : <<o, t, a>> \in acted

ParkInv == MatchInv /\ FrameAnswers /\ OutputIsActed

-----------------------------------------------------------------------------
\* Forgetting slices, signals, frames and index, the plane is a registry of wait
\* interests: a result is delivered once and into an open interest, an interest
\* closes when it is answered (matcher.py, plane.py, nested.py).
Verdict(j) == IF status[j] = "SUCCEEDED" THEN "ok"
              ELSE IF status[j] \in Terminal THEN "failed" ELSE "running"
Registry == INSTANCE WaitRegistry
              WITH verdict <- [j \in Jobs |-> Verdict(j)],
                   open <- waits, got <- output
ImplementsRegistry == Registry!Spec
=============================================================================
