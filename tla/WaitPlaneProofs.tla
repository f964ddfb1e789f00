-------------------------- MODULE WaitPlaneProofs --------------------------
(***************************************************************************)
(* What the continue plane keeps for any number of jobs, however deep the  *)
(* flows nest and however many owners wait for one target: interests are   *)
(* closed by their target's end only, results delivered are of targets     *)
(* that succeeded, no interest acted on stays open, and the plane          *)
(* implements WaitRegistry.                                                *)
(***************************************************************************)
EXTENDS WaitPlane, TLAPS

USE ChildrenAssumption, AnswersAssumption

\* Type correctness rests on MatchInv: a step that waits for a child has one, and
\* a frame that acts has an owner.
LEMMA TypeSubmit ==
  ASSUME TypeOK, NEW j \in Jobs, Submit(j) \/ Answer(j) \/ Cancel(j) \/ Take(j)
  PROVE  TypeOK'
<1>1. CASE Submit(j)
  BY <1>1 DEF TypeOK, Submit, Register, Enqueue, sliceVars, waitVars, matchVars
<1>2. CASE Answer(j)
  BY <1>2 DEF TypeOK, Answer, Enqueue, sliceVars, waitVars, matchVars
<1>3. CASE Cancel(j)
  BY <1>3 DEF TypeOK, Cancel, Finish, Terminal, Status, sliceVars, waitVars,
              matchVars
<1>4. CASE Take(j)
  BY <1>4 DEF TypeOK, Take, Go, SlicePoints, waitVars, matchVars
<1> QED BY <1>1, <1>2, <1>3, <1>4

LEMMA TypeDrive ==
  ASSUME TypeOK, ChildOfStep, NEW o \in Jobs, Drive(o)
  PROVE  TypeOK'
<1>0. slice[o] \in {"call", "open", "index"} => child[o] \in Jobs
  BY DEF TypeOK, ChildOfStep
<1> USE DEF Go, SlicePoints, Status
<1>1. CASE DriveChild(o)
  BY <1>0, <1>1 DEF TypeOK, DriveChild, jobVars, waitVars, matchVars
<1>2. CASE HoldPark(o) \/ OtherStep(o)
  BY <1>2 DEF TypeOK, HoldPark, OtherStep, Yield, Terminal, jobVars, waitVars,
              matchVars
<1>3. CASE FinishStep(o)
  BY <1>3 DEF TypeOK, FinishStep, Forget, Unindex, jobVars, matchVars
<1>4. ASSUME NEW c \in Jobs, Invoke(o, c) PROVE TypeOK'
  BY <1>4 DEF TypeOK, Invoke, Register, Enqueue, waitVars, matchVars
<1>5. CASE ReadChild(o) \/ CallEnds(o)
  BY <1>5 DEF TypeOK, ReadChild, CallEnds, jobVars, waitVars, matchVars
<1>6. CASE OpenInterest(o)
  BY <1>0, <1>6 DEF TypeOK, OpenInterest, jobVars, matchVars
<1>7. CASE RegisterOwner(o)
  BY <1>7 DEF TypeOK, RegisterOwner, Yield, jobVars, matchVars
<1>8. CASE Apply(o)
  BY <1>8 DEF TypeOK, Apply, Settle, Finish, Terminal, waitVars, matchVars
<1>9. CASE EndDrive(o)
  BY <1>9 DEF TypeOK, EndDrive, jobVars, waitVars, matchVars
<1> QED BY <1>1, <1>2, <1>3, <1>4, <1>5, <1>6, <1>7, <1>8, <1>9 DEF Drive

\* Enter moves one frame and keeps whom it deals with.
LEMMA EnterFrame ==
  ASSUME TypeOK, NEW t \in Jobs, NEW phase \in Phases, Enter(t, phase)
  PROVE  /\ frame' \in [Jobs -> Frames]
         /\ frame'[t].phase = phase /\ frame'[t].owner = frame[t].owner
         /\ \A u \in Jobs : u # t => frame'[u] = frame[u]
<1>1. frame[t] \in Frames /\ frame \in [Jobs -> Frames]
  BY DEF TypeOK
<1>2. [frame[t] EXCEPT !.phase = phase] \in Frames
  BY <1>1 DEF Frames
<1>3. frame' = [frame EXCEPT ![t] = [frame[t] EXCEPT !.phase = phase]]
  BY DEF Enter
<1>4. [frame[t] EXCEPT !.phase = phase].phase = phase
  BY <1>1 DEF Frames
<1>5. [frame[t] EXCEPT !.phase = phase].owner = frame[t].owner
  BY <1>1 DEF Frames
<1> QED BY <1>1, <1>2, <1>3, <1>4, <1>5

LEMMA TypeHandle ==
  ASSUME TypeOK, SignalsOfEnded, NEW t \in Jobs, Handle(t)
  PROVE  TypeOK'
<1> DEFINE o == frame[t].owner
<1>0. frame[t].phase \notin {"idle", "match"} => o \in Jobs
  BY DEF SignalsOfEnded
<1>a. Idle \in Frames /\ \A j \in Jobs : Rest(t, j) \in Frames
  BY DEF TypeOK, Idle, Rest, Phases, Frames
<1>b. {"drop", "wake", "close", "nested"} \subseteq Phases
  BY DEF Phases
<1>1. CASE Signal(t)
  <2>1. OwnersOf(t) \subseteq Jobs
    BY DEF TypeOK, OwnersOf
  <2>2. [phase |-> "match", todo |-> OwnersOf(t), owner |-> None] \in Frames
    BY <2>1 DEF Frames, Phases
  <2> QED BY <1>1, <1>a, <2>2 DEF TypeOK, Signal, Begin, jobVars, sliceVars, waitVars
<1>2. ASSUME NEW j \in Jobs, Match(t, j) PROVE TypeOK'
  <2>1. [phase |-> ActionFor(t), todo |-> frame[t].todo, owner |-> j] \in Frames
    BY DEF TypeOK, Frames, Phases, ActionFor
  <2> QED BY <1>2, <1>a, <2>1 DEF TypeOK, Match, ActionFor, Unindex, jobVars, sliceVars
<1>3. CASE Deliver(t) \/ Drop(t)
  BY <1>0, <1>3, <1>b, EnterFrame DEF TypeOK, Deliver, Drop, Forget, Unindex, jobVars,
                                     sliceVars
<1>4. CASE Wake(t)
  BY <1>0, <1>4, <1>b, EnterFrame DEF TypeOK, Wake, Enqueue, sliceVars, waitVars
<1>5. CASE FailOwner(t)
  BY <1>0, <1>5, <1>b, EnterFrame DEF TypeOK, FailOwner, Finish, Status, Terminal,
                                     sliceVars, waitVars
<1>6. CASE Unnest(t)
  BY <1>6, <1>b, EnterFrame DEF TypeOK, Unnest, jobVars, sliceVars, waitVars
<1>7. CASE Close(t)
  BY <1>0, <1>7, <1>a DEF TypeOK, Close, Forget, Unindex, jobVars, sliceVars
<1> QED BY <1>1, <1>2, <1>3, <1>4, <1>5, <1>6, <1>7 DEF Handle

LEMMA TypeStep ==
  ASSUME TypeOK, MatchInv, [Next]_vars
  PROVE  TypeOK'
<1>1. CASE Admit \/ UNCHANGED vars
  BY <1>1 DEF TypeOK, Admit, vars, jobVars, sliceVars, waitVars, matchVars
<1> QED BY <1>1, TypeSubmit, TypeDrive, TypeHandle DEF Next, MatchInv

\* apply_result keeps a terminal status, and so does every other writer.
LEMMA EndedStays ==
  ASSUME TypeOK, MatchInv, [Next]_vars, NEW t \in Jobs, status[t] \in Terminal
  PROVE  status'[t] = status[t]
<1>1. ASSUME NEW j \in Jobs, Drive(j) PROVE status'[t] = status[t]
  BY <1>1 DEF TypeOK, Drive, DriveChild, HoldPark, OtherStep, FinishStep, Invoke,
       ReadChild, CallEnds, OpenInterest, RegisterOwner, Apply, Settle, Finish,
       EndDrive, jobVars
<1>2. ASSUME NEW j \in Jobs, Handle(j) PROVE status'[t] = status[t]
  BY <1>2 DEF TypeOK, MatchInv, SignalsOfEnded, Handle, Signal, Match, Deliver, Drop,
       Wake, FailOwner, Finish, Unnest, Close, jobVars
<1>3. ASSUME NEW j \in Jobs, Submit(j) \/ Answer(j) \/ Cancel(j) \/ Take(j)
      PROVE  status'[t] = status[t]
  BY <1>3 DEF TypeOK, Submit, Answer, Cancel, Finish, Take
<1>4. CASE Admit \/ UNCHANGED vars
  BY <1>4 DEF Admit, vars, jobVars
<1> QED BY <1>1, <1>2, <1>3, <1>4 DEF Next

-----------------------------------------------------------------------------
\* A handler's step on the frames: only frame[t] moves.
LEMMA OtherFramesStay ==
  ASSUME TypeOK, NEW t \in Jobs, Handle(t), NEW u \in Jobs, u # t
  PROVE  frame'[u] = frame[u]
BY DEF TypeOK, Handle, Signal, Begin, Match, Deliver, Drop, Wake, FailOwner, Unnest,
       Close, Enter

LEMMA StepSignals ==
  ASSUME TypeOK, MatchInv, [Next]_vars
  PROVE  SignalsOfEnded'
<1> USE DEF SignalsOfEnded
<1>0. \A t \in Jobs : status[t] \in Terminal => status'[t] = status[t]
  BY EndedStays
<1>a. "SUCCEEDED" \in Terminal /\ "CANCELLED" \in Terminal /\ "FAILED" \in Terminal
  BY DEF Terminal
<1>1. CASE UNCHANGED <<status, signals, frame>>
  BY <1>1 DEF MatchInv
<1>2. ASSUME NEW j \in Jobs, NEW s \in Terminal, status[j] \notin Terminal,
             Finish(j, s), UNCHANGED frame
      PROVE  SignalsOfEnded'
  BY <1>2, <1>0, <1>a DEF MatchInv, Finish, TypeOK
<1>3. ASSUME NEW j \in Jobs, Cancel(j) PROVE SignalsOfEnded'
  BY <1>2, <1>3, <1>a DEF Cancel, matchVars
<1>4. ASSUME NEW j \in Jobs, Apply(j) PROVE SignalsOfEnded'
  <2>1. CASE status[j] \in Terminal
    BY <1>1, <1>4, <2>1 DEF Apply, matchVars
  <2>2. CASE status[j] \notin Terminal /\ outcome[j] \in Terminal
    BY <1>2, <1>4, <2>2 DEF Apply, Settle, matchVars
  <2>3. CASE status[j] \notin Terminal /\ outcome[j] \notin Terminal
    BY <1>4, <2>3, <1>0, <1>a DEF Apply, Settle, matchVars, MatchInv, TypeOK
  <2> QED BY <2>1, <2>2, <2>3
<1>5. ASSUME NEW t \in Jobs, Handle(t) PROVE SignalsOfEnded'
  <2>0. \A u \in Jobs : u # t => frame'[u] = frame[u]
    BY <1>5, OtherFramesStay
  <2> DEFINE o == frame[t].owner
  <2>a. {"drop", "wake", "close", "nested"} \subseteq Phases
    BY DEF Phases
  <2>b. \A j \in Jobs : Rest(t, j).phase \in {"idle", "match"}
    BY DEF Rest, Idle
  <2>1. CASE Signal(t)
    <3>1. frame'[t].phase \in {"idle", "match"}
      BY <2>1 DEF Signal, Begin, Idle, TypeOK
    <3> QED BY <2>0, <2>1, <3>1, <1>0 DEF Signal, Begin, MatchInv, TypeOK, jobVars
  <2>2. ASSUME NEW j \in Jobs, Match(t, j) PROVE SignalsOfEnded'
    <3>1. CASE t \notin waits[j] \/ <<j, t, ActionFor(t)>> \in acted
      <4>1. frame'[t].phase \in {"idle", "match"} /\ frame[t].phase = "match"
        BY <2>2, <2>b, <3>1 DEF Match, TypeOK
      <4> QED BY <2>0, <2>2, <4>1, <1>0 DEF Match, MatchInv, TypeOK, jobVars
    <3>2. CASE ~(t \notin waits[j] \/ <<j, t, ActionFor(t)>> \in acted)
      <4>1. /\ frame'[t].phase = ActionFor(t) /\ frame'[t].owner = j
            /\ frame[t].phase = "match"
        BY <2>2, <3>2 DEF Match, TypeOK
      <4> QED BY <2>0, <2>2, <4>1, <1>0 DEF Match, ActionFor, MatchInv, TypeOK, jobVars
    <3> QED BY <3>1, <3>2
  <2>3. CASE Deliver(t) \/ Drop(t)
    BY <2>0, <2>3, <2>a, EnterFrame, <1>0 DEF Deliver, Drop, MatchInv, jobVars
  <2>4. CASE Wake(t)
    BY <2>0, <2>4, <2>a, EnterFrame, <1>0 DEF Wake, MatchInv
  <2>5. CASE FailOwner(t)
    <3>1. CASE status[o] \in Terminal
      BY <2>0, <2>5, <2>a, <3>1, EnterFrame DEF FailOwner, MatchInv
    <3>2. CASE status[o] \notin Terminal
      <4>1. o \in Jobs /\ Finish(o, "FAILED") /\ Enter(t, "nested")
        BY <2>5, <3>2 DEF FailOwner, MatchInv
      <4>2. frame'[t].phase = "nested" /\ frame'[t].owner = o
        BY <4>1, <2>a, EnterFrame
      <4>3. status'[o] = "FAILED" /\ \A u \in Jobs : u # o => signals'[u] = signals[u]
        BY <4>1 DEF Finish, TypeOK
      <4>4. frame[t].phase # "idle"
        BY <2>5 DEF FailOwner
      <4> QED BY <2>0, <4>1, <4>2, <4>3, <4>4, <1>0, <1>a DEF MatchInv
    <3> QED BY <3>1, <3>2
  <2>6. CASE Unnest(t)
    BY <2>0, <2>6, <2>a, EnterFrame DEF Unnest, MatchInv, jobVars
  <2>7. CASE Close(t)
    <3>1. frame'[t].phase \in {"idle", "match"}
      BY <2>7, <2>b DEF Close, MatchInv, TypeOK
    <3> QED BY <2>0, <2>7, <3>1, <1>0 DEF Close, MatchInv, jobVars
  <2> QED BY <1>5, <2>1, <2>2, <2>3, <2>4, <2>5, <2>6, <2>7 DEF Handle
<1>6. ASSUME NEW j \in Jobs, Drive(j), ~Apply(j) PROVE SignalsOfEnded'
  BY <1>1, <1>6 DEF Drive, DriveChild, HoldPark, OtherStep, FinishStep, Invoke,
       ReadChild, CallEnds, OpenInterest, RegisterOwner, EndDrive, jobVars, matchVars
<1>7. CASE Admit \/ UNCHANGED vars
  BY <1>1, <1>7 DEF Admit, vars, jobVars, matchVars
<1>8. ASSUME NEW j \in Jobs, Submit(j) \/ Answer(j) \/ Take(j) PROVE SignalsOfEnded'
  BY <1>1, <1>8 DEF Submit, Answer, Take, matchVars
<1> QED BY <1>3, <1>4, <1>5, <1>6, <1>7, <1>8 DEF Next

\* Only Deliver adds a result, of a target whose signal it resumes on.
LEMMA StepOutput ==
  ASSUME TypeOK, MatchInv, [Next]_vars
  PROVE  OutputIsSuccess'
<1> USE DEF OutputIsSuccess
<1>0. \A t \in Jobs : status[t] = "SUCCEEDED" => status'[t] = "SUCCEEDED"
  BY EndedStays DEF Terminal
<1>1. CASE UNCHANGED output
  BY <1>0, <1>1 DEF MatchInv
<1>2. ASSUME NEW u \in Jobs, Deliver(u) PROVE OutputIsSuccess'
  <2>1. status[u] = "SUCCEEDED"
    BY <1>2 DEF Deliver, MatchInv, SignalsOfEnded
  <2>2. \A o, t \in Jobs : t \in output'[o] => t \in output[o] \/ t = u
    BY <1>2 DEF Deliver, TypeOK
  <2> QED BY <2>1, <2>2, <1>0 DEF MatchInv
<1>3. ASSUME NEW j \in Jobs, Drive(j) PROVE UNCHANGED output
  BY <1>3 DEF Drive, DriveChild, HoldPark, OtherStep, FinishStep, Invoke, ReadChild,
       CallEnds, OpenInterest, RegisterOwner, Apply, EndDrive, waitVars
<1>4. ASSUME NEW t \in Jobs, Handle(t), ~Deliver(t) PROVE UNCHANGED output
  BY <1>4 DEF Handle, Signal, Match, Drop, Wake, FailOwner, Unnest, Close, waitVars
<1>5. ASSUME NEW j \in Jobs, Submit(j) \/ Answer(j) \/ Cancel(j) \/ Take(j)
      PROVE  UNCHANGED output
  BY <1>5 DEF Submit, Answer, Cancel, Take, waitVars
<1>6. CASE Admit \/ UNCHANGED vars
  BY <1>1, <1>6 DEF Admit, vars, waitVars
<1> QED BY <1>1, <1>2, <1>3, <1>4, <1>5, <1>6 DEF Next

\* A step waits for the child it has just submitted, so nothing is known of it
\* before its interest opens.
LEMMA StepChild ==
  ASSUME TypeOK, MatchInv, [Next]_vars
  PROVE  ChildOfStep'
<1> USE DEF ChildOfStep, MatchInv
<1>1. CASE UNCHANGED <<jobs, waits, slice, child, acted>>
  BY <1>1
<1>2. ASSUME NEW o \in Jobs, NEW c \in Jobs, Invoke(o, c) PROVE ChildOfStep'
  <2>1. /\ c \notin jobs /\ jobs' = jobs \cup {c} /\ UNCHANGED <<waits, acted>>
        /\ child'[o] = c
        /\ \A u \in Jobs : u # o => slice'[u] = slice[u] /\ child'[u] = child[u]
    BY <1>2 DEF Invoke, Register, Go, waitVars, matchVars, TypeOK
  <2>2. c \notin waits[o] /\ \A a \in {"resume", "fail"} : <<o, c, a>> \notin acted
    BY <2>1 DEF ActedInFrame
  <2> QED BY <2>1, <2>2
<1>3. ASSUME NEW o \in Jobs, OpenInterest(o) PROVE ChildOfStep'
  BY <1>3 DEF OpenInterest, Go, jobVars, matchVars, TypeOK
<1>4. ASSUME NEW o \in Jobs, Drive(o), ~OpenInterest(o), \A c \in Jobs : ~Invoke(o, c)
      PROVE  ChildOfStep'
  <2>1. CASE DriveChild(o)
    BY <2>1 DEF DriveChild, Go, jobVars, waitVars, matchVars, TypeOK
  <2>2. CASE FinishStep(o)
    BY <2>2 DEF FinishStep, Forget, jobVars, matchVars, TypeOK
  <2>3. CASE CallEnds(o)
    BY <2>3 DEF CallEnds, Go, jobVars, waitVars, matchVars, TypeOK
  <2>4. CASE ReadChild(o)
    BY <2>4 DEF ReadChild, Go, jobVars, waitVars, matchVars, TypeOK
  <2>5. CASE HoldPark(o) \/ OtherStep(o) \/ RegisterOwner(o) \/ Apply(o) \/ EndDrive(o)
    BY <2>5 DEF HoldPark, OtherStep, RegisterOwner, Apply, EndDrive, Yield, Go, jobVars,
         waitVars, matchVars, TypeOK
  <2> QED BY <1>4, <2>1, <2>2, <2>3, <2>4, <2>5 DEF Drive
<1>5. ASSUME NEW t \in Jobs, NEW o \in Jobs, Match(t, o) PROVE ChildOfStep'
  <2>1. CASE t \notin waits[o]
    BY <1>1, <1>5, <2>1 DEF Match, jobVars, sliceVars
  <2>2. CASE t \in waits[o]
    <3>1. \A u, v, a : <<u, v, a>> \in acted' =>
             <<u, v, a>> \in acted \/ (u = o /\ v = t)
      BY <1>5, <2>2 DEF Match
    <3> QED BY <1>5, <2>2, <3>1 DEF Match, jobVars, sliceVars
  <2> QED BY <2>1, <2>2
<1>6. ASSUME NEW t \in Jobs, Drop(t) \/ Close(t) PROVE ChildOfStep'
  <2>1. UNCHANGED <<jobs, slice, child, acted>>
    BY <1>6 DEF Drop, Close, jobVars, sliceVars
  <2>2. \A o \in Jobs : waits'[o] \subseteq waits[o]
    BY <1>6 DEF Drop, Close, Forget, TypeOK
  <2> QED BY <2>1, <2>2
<1>7. ASSUME NEW t \in Jobs,
             Signal(t) \/ Deliver(t) \/ Wake(t) \/ FailOwner(t) \/ Unnest(t)
      PROVE  ChildOfStep'
  BY <1>1, <1>7 DEF Signal, Deliver, Wake, FailOwner, Unnest, jobVars, sliceVars, waitVars
<1>8. ASSUME NEW j \in Jobs, Submit(j) \/ Answer(j) \/ Cancel(j) \/ Take(j)
      PROVE  ChildOfStep'
  <2>1. CASE Submit(j)
    BY <2>1 DEF Submit, Register, sliceVars, waitVars, matchVars
  <2>2. CASE Answer(j) \/ Cancel(j)
    BY <1>1, <2>2 DEF Answer, Cancel, sliceVars, waitVars, matchVars
  <2>3. CASE Take(j)
    BY <2>3 DEF Take, Go, waitVars, matchVars, TypeOK
  <2> QED BY <1>8, <2>1, <2>2, <2>3
<1>9. CASE Admit \/ UNCHANGED vars
  BY <1>1, <1>9 DEF Admit, vars, jobVars, sliceVars, waitVars, matchVars
<1> QED BY <1>2, <1>3, <1>4, <1>5, <1>6, <1>7, <1>8, <1>9 DEF Next, Handle

\* Match takes the key of an interest that is open and turns its frame to the
\* owner; Close, or Drop before it, closes the interest under that frame.
LEMMA StepActed ==
  ASSUME TypeOK, MatchInv, [Next]_vars
  PROVE  ActedInFrame'
<1> USE DEF ActedInFrame, MatchInv
<1>1. CASE UNCHANGED <<jobs, waits, acted, frame>>
  BY <1>1
<1>2. ASSUME jobs \subseteq jobs', \A o \in Jobs : waits'[o] \subseteq waits[o],
             UNCHANGED <<acted, frame>>
      PROVE  ActedInFrame'
  BY <1>2
<1>3. ASSUME NEW o \in Jobs, OpenInterest(o) PROVE ActedInFrame'
  <2>1. /\ UNCHANGED <<jobs, acted, frame>>
        /\ \A u \in Jobs : waits'[u] \subseteq waits[u] \cup {child[u]}
        /\ \A u \in Jobs : u # o => waits'[u] = waits[u]
    BY <1>3 DEF OpenInterest, jobVars, matchVars, TypeOK
  <2>2. \A a \in {"resume", "fail"} : <<o, child[o], a>> \notin acted
    BY <1>3 DEF OpenInterest, ChildOfStep
  <2> QED BY <2>1, <2>2
<1>4. ASSUME NEW o \in Jobs, Drive(o), ~OpenInterest(o) PROVE ActedInFrame'
  <2>1. ASSUME NEW c \in Jobs, Invoke(o, c) PROVE ActedInFrame'
    BY <1>2, <2>1 DEF Invoke, Register, waitVars, matchVars
  <2>2. CASE FinishStep(o)
    BY <1>2, <2>2 DEF FinishStep, Forget, jobVars, matchVars, TypeOK
  <2> QED BY <1>1, <1>4, <2>1, <2>2 DEF Drive, DriveChild, HoldPark, OtherStep,
       ReadChild, CallEnds, RegisterOwner, Apply, EndDrive, jobVars, waitVars, matchVars
<1>5. ASSUME NEW t \in Jobs, Handle(t) PROVE ActedInFrame'
  <2>0. \A u \in Jobs : u # t => frame'[u] = frame[u]
    BY <1>5, OtherFramesStay
  <2>a. {"drop", "wake", "close", "nested"} \subseteq Phases
    BY DEF Phases
  <2>b. ASSUME UNCHANGED <<jobs, acted>>, \A o \in Jobs : waits'[o] \subseteq waits[o],
               \A o \in Jobs, a \in {"resume", "fail"} :
                 <<o, t, a>> \in acted /\ t \in waits'[o] =>
                   frame'[t].owner = o /\ frame'[t].phase \notin {"idle", "match"}
        PROVE  ActedInFrame'
    <3> TAKE o \in Jobs, u \in Jobs, a \in {"resume", "fail"}
    <3> HAVE <<o, u, a>> \in acted'
    <3>1. u \in jobs'
      BY <2>b
    <3>2. CASE u = t
      BY <2>b, <3>1, <3>2
    <3>3. CASE u # t
      BY <2>0, <2>b, <3>1, <3>3
    <3> QED BY <3>2, <3>3
  <2>1. CASE Signal(t)
    <3>1. frame[t].phase = "idle" /\ UNCHANGED <<jobs, waits, acted>>
      BY <2>1 DEF Signal, Idle, jobVars, sliceVars, waitVars
    <3> QED BY <2>b, <3>1
  <2>2. ASSUME NEW o \in Jobs, Match(t, o) PROVE ActedInFrame'
    <3>0. frame[t].phase = "match" /\ UNCHANGED <<jobs, waits>>
      BY <2>2 DEF Match, jobVars
    <3>1. CASE t \notin waits[o]
      <4>1. \A u \in Jobs, a \in {"resume", "fail"} :
              <<u, t, a>> \in acted => t \notin waits[u]
        BY <3>0
      <4> QED BY <2>2, <2>b, <3>0, <3>1, <4>1 DEF Match
    <3>2. CASE t \in waits[o]
      <4>1. <<o, t, ActionFor(t)>> \notin acted
        BY <3>0, <3>2 DEF ActionFor
      <4>2. frame'[t].owner = o /\ frame'[t].phase \notin {"idle", "match"}
        BY <2>2, <3>2, <4>1 DEF Match, ActionFor, TypeOK
      <4>3. acted' = acted \cup {<<o, t, ActionFor(t)>>} /\ t \in jobs
        BY <2>2, <3>2 DEF Match, ChildOfStep
      <4> TAKE u \in Jobs, v \in Jobs, a \in {"resume", "fail"}
      <4> HAVE <<u, v, a>> \in acted'
      <4>4. CASE <<u, v, a>> \in acted
        <5>1. CASE v = t
          BY <3>0, <4>4, <5>1
        <5>2. CASE v # t
          BY <2>0, <3>0, <4>4, <5>2
        <5> QED BY <5>1, <5>2
      <4>5. CASE u = o /\ v = t
        BY <3>0, <4>2, <4>3, <4>5
      <4> QED BY <4>3, <4>4, <4>5
    <3> QED BY <3>1, <3>2
  <2>3. CASE Deliver(t) \/ Drop(t)
    <3>1. /\ UNCHANGED <<jobs, acted>> /\ \A o \in Jobs : waits'[o] \subseteq waits[o]
          /\ frame'[t].phase \in {"drop", "wake"} /\ frame'[t].owner = frame[t].owner
      BY <2>3, <2>a, EnterFrame DEF Deliver, Drop, Forget, jobVars, TypeOK
    <3> QED BY <2>b, <3>1
  <2>4. CASE Wake(t)
    <3>1. /\ UNCHANGED <<jobs, acted, waits>>
          /\ frame'[t].phase = "close" /\ frame'[t].owner = frame[t].owner
      BY <2>4, <2>a, EnterFrame DEF Wake, waitVars
    <3> QED BY <2>b, <3>1
  <2>5. CASE FailOwner(t)
    <3>1. /\ UNCHANGED <<jobs, acted, waits>>
          /\ frame'[t].phase \in {"nested", "close"}
          /\ frame'[t].owner = frame[t].owner
      BY <2>5, <2>a, EnterFrame DEF FailOwner, waitVars
    <3> QED BY <2>b, <3>1
  <2>6. CASE Unnest(t)
    <3>1. /\ UNCHANGED <<jobs, acted, waits>>
          /\ frame'[t].phase = "close" /\ frame'[t].owner = frame[t].owner
      BY <2>6, <2>a, EnterFrame DEF Unnest, jobVars, waitVars
    <3> QED BY <2>b, <3>1
  <2>7. CASE Close(t)
    <3>1. UNCHANGED <<jobs, acted>> /\ frame[t].owner \in Jobs
      BY <2>7 DEF Close, SignalsOfEnded, jobVars
    <3>2. waits' = [waits EXCEPT ![frame[t].owner] = @ \ {t}]
      BY <2>7 DEF Close, Forget
    <3>3. t \notin waits'[frame[t].owner] /\ \A o \in Jobs : waits'[o] \subseteq waits[o]
      BY <3>1, <3>2 DEF TypeOK
    <3>4. \A o \in Jobs, a \in {"resume", "fail"} :
            <<o, t, a>> \in acted => t \notin waits'[o]
      BY <3>3
    <3> QED BY <2>b, <3>1, <3>3, <3>4
  <2> QED BY <1>5, <2>1, <2>2, <2>3, <2>4, <2>5, <2>6, <2>7 DEF Handle
<1>6. ASSUME NEW j \in Jobs, Submit(j) PROVE ActedInFrame'
  BY <1>2, <1>6 DEF Submit, Register, waitVars, matchVars
<1>7. ASSUME NEW j \in Jobs, Answer(j) \/ Cancel(j) \/ Take(j) PROVE ActedInFrame'
  BY <1>1, <1>7 DEF Answer, Cancel, Take, waitVars, matchVars
<1>8. CASE Admit \/ UNCHANGED vars
  BY <1>1, <1>8 DEF Admit, vars, jobVars, waitVars, matchVars
<1> QED BY <1>3, <1>4, <1>5, <1>6, <1>7, <1>8 DEF Next

\* The index loses an entry only with its interest, or when there is none.
LEMMA StepIndex ==
  ASSUME TypeOK, MatchInv, [Next]_vars
  PROVE  IndexCoversWaits'
<1> USE DEF IndexCoversWaits, MatchInv
<1>1. CASE UNCHANGED <<waits, index, slice, child>>
  BY <1>1
<1>2. ASSUME NEW t \in Jobs, NEW o \in Jobs, Forget(t, o), UNCHANGED slice,
             \A u \in Jobs : slice[u] = "index" => child'[u] = child[u]
      PROVE  IndexCoversWaits'
  <2>1. waits' = [waits EXCEPT ![o] = @ \ {t}] /\ index' = [index EXCEPT ![t] = @ \ {o}]
    BY <1>2 DEF Forget, Unindex
  <2> QED BY <1>2, <2>1 DEF TypeOK
<1>3. ASSUME NEW o \in Jobs, Drive(o) PROVE IndexCoversWaits'
  <2>1. CASE OpenInterest(o)
    <3>1. /\ slice[o] = "open" /\ slice'[o] = "index" /\ UNCHANGED <<index, child>>
          /\ \A u \in Jobs : u # o => slice'[u] = slice[u] /\ waits'[u] = waits[u]
          /\ waits'[o] = waits[o] \cup {child[o]}
      BY <2>1 DEF OpenInterest, Go, TypeOK
    <3> QED BY <3>1
  <2>2. CASE RegisterOwner(o)
    <3>1. slice[o] = "index" /\ UNCHANGED <<waits, child>>
      BY <2>2 DEF RegisterOwner
    <3>2. child[o] \in Jobs
      BY <3>1 DEF ChildOfStep, TypeOK
    <3>3. \A u \in Jobs : u # o => slice'[u] = slice[u]
      BY <2>2 DEF RegisterOwner, Yield, Go, TypeOK
    <3>4. o \in index'[child[o]] /\ \A u \in Jobs : index[u] \subseteq index'[u]
      BY <2>2, <3>2 DEF RegisterOwner, TypeOK
    <3> QED BY <3>1, <3>3, <3>4
  <2>3. CASE FinishStep(o)
    <3>1. slice[o] = "tick" /\ child[o] \in Jobs /\ Forget(child[o], o)
      BY <2>3 DEF FinishStep, TypeOK
    <3>2. UNCHANGED slice /\ \A u \in Jobs : u # o => child'[u] = child[u]
      BY <2>3 DEF FinishStep, TypeOK
    <3> QED BY <1>2, <3>1, <3>2
  <2>4. ASSUME NEW v \in Jobs, slice[v] # "index", UNCHANGED <<waits, index>>,
               \A u \in Jobs : u # v => slice'[u] = slice[u] /\ child'[u] = child[u]
        PROVE  IndexCoversWaits'
    BY <2>4
  <2>5. CASE DriveChild(o)
    <3>1. child[o] \in Jobs
      BY <2>5 DEF DriveChild, ChildOfStep, TypeOK
    <3> QED BY <2>4, <2>5, <3>1 DEF DriveChild, Go, waitVars, TypeOK
  <2>6. ASSUME NEW c \in Jobs, Invoke(o, c) PROVE IndexCoversWaits'
    BY <2>4, <2>6 DEF Invoke, Go, waitVars, TypeOK
  <2>7. CASE HoldPark(o) \/ OtherStep(o) \/ Apply(o) \/ EndDrive(o)
    BY <2>4, <2>7 DEF HoldPark, OtherStep, Apply, EndDrive, Yield, Go, waitVars, TypeOK
  <2>8. CASE ReadChild(o) \/ CallEnds(o)
    BY <2>4, <2>8 DEF ReadChild, CallEnds, Go, waitVars, TypeOK
  <2> QED BY <1>3, <2>1, <2>2, <2>3, <2>5, <2>6, <2>7, <2>8 DEF Drive
<1>4. ASSUME NEW t \in Jobs, Drop(t) \/ Close(t) PROVE IndexCoversWaits'
  <2>1. frame[t].owner \in Jobs
    BY <1>4 DEF Drop, Close, SignalsOfEnded
  <2> QED BY <1>2, <1>4, <2>1 DEF Drop, Close, sliceVars
<1>5. ASSUME NEW t \in Jobs, NEW o \in Jobs, Match(t, o) PROVE IndexCoversWaits'
  <2>1. UNCHANGED <<waits, slice, child>> /\
        (UNCHANGED index \/ (t \notin waits[o] /\ Unindex(t, o)))
    BY <1>5 DEF Match, sliceVars
  <2> QED BY <2>1 DEF Unindex, TypeOK
<1>6. ASSUME NEW t \in Jobs,
             Signal(t) \/ Deliver(t) \/ Wake(t) \/ FailOwner(t) \/ Unnest(t)
      PROVE  IndexCoversWaits'
  BY <1>1, <1>6 DEF Signal, Deliver, Wake, FailOwner, Unnest, sliceVars, waitVars
<1>7. ASSUME NEW j \in Jobs, Submit(j) \/ Answer(j) \/ Cancel(j) PROVE IndexCoversWaits'
  BY <1>1, <1>7 DEF Submit, Answer, Cancel, sliceVars, waitVars
<1>8. ASSUME NEW j \in Jobs, Take(j) PROVE IndexCoversWaits'
  <2>1. /\ UNCHANGED <<waits, index, child>>
        /\ \A u \in Jobs : slice[u] = "index" => slice'[u] = "index"
    BY <1>8 DEF Take, Go, waitVars, TypeOK
  <2> QED BY <2>1
<1>9. CASE Admit \/ UNCHANGED vars
  BY <1>1, <1>9 DEF Admit, vars, sliceVars, waitVars
<1> QED BY <1>3, <1>4, <1>5, <1>6, <1>7, <1>8, <1>9 DEF Next, Handle

-----------------------------------------------------------------------------
LEMMA InitInv ==
  ASSUME Init
  PROVE  TypeOK /\ MatchInv
<1>1. TypeOK
  BY DEF Init, TypeOK, Status, SlicePoints, Idle, Frames, Phases
<1>2. MatchInv
  BY DEF Init, MatchInv, SignalsOfEnded, OutputIsSuccess, ChildOfStep, ActedInFrame,
     IndexCoversWaits, Idle
<1> QED BY <1>1, <1>2

LEMMA StepInv ==
  ASSUME TypeOK, MatchInv, [Next]_vars
  PROVE  TypeOK' /\ MatchInv'
BY TypeStep, StepSignals, StepOutput, StepChild, StepActed, StepIndex DEF MatchInv

LEMMA MatchInvariant == Spec => [](TypeOK /\ MatchInv)
BY InitInv, StepInv, PTL DEF Spec

\* Every value the engine, the slices and the matcher keep has its type, at any
\* depth of nesting.
THEOREM TypeCorrect == Spec => []TypeOK
BY MatchInvariant, PTL

\* deliver_nested_wizard_completion writes a child's result into its owner only
\* when the child succeeded.
THEOREM DeliveredOnSuccess == Spec => []OutputIsSuccess
<1>1. MatchInv => OutputIsSuccess
  BY DEF MatchInv
<1> QED BY <1>1, MatchInvariant, PTL

\* _match_one_owner takes the acted key before the side effects; the interest is
\* closed by the same signal, so no later signal is swallowed by the key.
THEOREM ActedInterestCloses == Spec => []ActedIsClosed
<1>1. MatchInv => ActedIsClosed
  BY DEF MatchInv, ActedInFrame, ActedIsClosed
<1> QED BY <1>1, MatchInvariant, PTL

\* open_on_job, close_on_job and the matcher's clean-up of stale entries keep
\* every owner of an open interest in WaitOwnerIndex, but for the one that is
\* between the two writes of its open.
THEOREM IndexIsComplete == Spec => []IndexCoversWaits
<1>1. MatchInv => IndexCoversWaits
  BY DEF MatchInv
<1> QED BY <1>1, MatchInvariant, PTL

\* Who closes an interest: the owner's slice that has the result, or the frame of
\* its target.
LEMMA WhoCloses ==
  ASSUME TypeOK, MatchInv, [Next]_vars, NEW o \in Jobs, NEW t \in Jobs,
         t \in waits[o], t \notin waits'[o]
  PROVE  \/ FinishStep(o) /\ t \in output[o]
         \/ /\ Drop(t) \/ Close(t)
            /\ frame[t].owner = o
<1>0. UNCHANGED waits => FALSE
  OBVIOUS
<1>1. ASSUME NEW j \in Jobs, FinishStep(j) PROVE FinishStep(o) /\ t \in output[o]
  <2>1. t = child[j] /\ j = o
    BY <1>1 DEF FinishStep, Forget, TypeOK
  <2> QED BY <1>1, <2>1 DEF FinishStep
<1>2. ASSUME NEW u \in Jobs, Drop(u) \/ Close(u)
      PROVE  (Drop(t) \/ Close(t)) /\ frame[t].owner = o
  <2>1. waits' = [waits EXCEPT ![frame[u].owner] = @ \ {u}]
    BY <1>2 DEF Drop, Close, Forget
  <2>2. frame[u].owner = o /\ u = t
    BY <2>1 DEF TypeOK
  <2> QED BY <1>2, <2>2
<1>3. ASSUME NEW j \in Jobs, Drive(j), ~FinishStep(j) PROVE FALSE
  <2>1. CASE OpenInterest(j)
    BY <2>1 DEF OpenInterest, TypeOK
  <2> QED BY <1>0, <1>3, <2>1 DEF Drive, DriveChild, HoldPark, OtherStep, Invoke,
       ReadChild, CallEnds, RegisterOwner, Apply, EndDrive, waitVars
<1>4. ASSUME NEW u \in Jobs, Handle(u), ~Drop(u), ~Close(u) PROVE FALSE
  BY <1>0, <1>4 DEF Handle, Signal, Match, Deliver, Wake, FailOwner, Unnest, waitVars
<1>5. ASSUME NEW j \in Jobs, Submit(j) \/ Answer(j) \/ Cancel(j) \/ Take(j) PROVE FALSE
  BY <1>0, <1>5 DEF Submit, Answer, Cancel, Take, waitVars
<1>6. CASE Admit \/ UNCHANGED vars
  BY <1>0, <1>6 DEF Admit, vars, waitVars
<1> QED BY <1>1, <1>2, <1>3, <1>4, <1>5, <1>6 DEF Next

\* The interest of a parked owner is closed, by the matcher or by its own slice,
\* only when its target has ended.
LEMMA UnparkStep ==
  ASSUME TypeOK, MatchInv, [Next]_vars, NEW o \in Jobs, NEW t \in Jobs,
         t \in waits[o], t \notin waits'[o]
  PROVE  status[t] \in Terminal
BY WhoCloses DEF MatchInv, OutputIsSuccess, SignalsOfEnded, Terminal, Drop, Close

\* Neither a signal of an unfinished child nor an input of the human takes an
\* owner out of its park (resolve_wait_action, _tick_impl).
THEOREM OnlyTargetUnparks == Spec => UnparkedByTarget
<1>1. TypeOK /\ MatchInv /\ [Next]_vars =>
        [\A o, t \in Jobs :
           t \in waits[o] /\ t \notin waits'[o] => status[t] \in Terminal]_vars
  BY UnparkStep
<1> QED BY <1>1, MatchInvariant, PTL DEF Spec, UnparkedByTarget

-----------------------------------------------------------------------------
(* The plane implements the registry *)

\* Who gives an owner a result.
LEMMA WhoDelivers ==
  ASSUME [Next]_vars
  PROVE  output' = output \/ \E t \in Jobs : Deliver(t)
<1>1. ASSUME NEW j \in Jobs, Drive(j) PROVE UNCHANGED output
  BY <1>1 DEF Drive, DriveChild, HoldPark, OtherStep, FinishStep, Invoke, ReadChild,
       CallEnds, OpenInterest, RegisterOwner, Apply, EndDrive, waitVars
<1>2. ASSUME NEW t \in Jobs, Handle(t), ~Deliver(t) PROVE UNCHANGED output
  BY <1>2 DEF Handle, Signal, Match, Drop, Wake, FailOwner, Unnest, Close, waitVars
<1>3. ASSUME NEW j \in Jobs, Submit(j) \/ Answer(j) \/ Cancel(j) \/ Take(j)
      PROVE  UNCHANGED output
  BY <1>3 DEF Submit, Answer, Cancel, Take, waitVars
<1>4. CASE Admit \/ UNCHANGED vars
  BY <1>4 DEF Admit, vars, waitVars
<1> QED BY <1>1, <1>2, <1>3, <1>4 DEF Next

\* Results and keys are kept.
LEMMA AnswersStay ==
  ASSUME TypeOK, [Next]_vars
  PROVE  /\ acted \subseteq acted'
         /\ \A o \in Jobs : output[o] \subseteq output'[o]
<1>1. \A o \in Jobs : output[o] \subseteq output'[o]
  <2>1. ASSUME NEW t \in Jobs, Deliver(t)
        PROVE  \A o \in Jobs : output[o] \subseteq output'[o]
    BY <2>1 DEF Deliver, TypeOK
  <2> QED BY <2>1, WhoDelivers
<1>2. ASSUME NEW j \in Jobs, Drive(j) PROVE acted' = acted
  BY <1>2 DEF Drive, DriveChild, HoldPark, OtherStep, FinishStep, Invoke, ReadChild,
       CallEnds, OpenInterest, RegisterOwner, Apply, EndDrive, matchVars
<1>3. ASSUME NEW t \in Jobs, Handle(t) PROVE acted \subseteq acted'
  BY <1>3 DEF Handle, Signal, Match, Deliver, Drop, Wake, FailOwner, Unnest, Close
<1>4. ASSUME NEW j \in Jobs, Submit(j) \/ Answer(j) \/ Cancel(j) \/ Take(j)
      PROVE  acted' = acted
  BY <1>4 DEF Submit, Answer, Cancel, Take, matchVars
<1>5. CASE Admit \/ UNCHANGED vars
  BY <1>1, <1>5 DEF Admit, vars, matchVars
<1> QED BY <1>1, <1>2, <1>3, <1>4, <1>5 DEF Next

LEMMA OnlyHandlersMoveFrames ==
  ASSUME [Next]_vars
  PROVE  frame' = frame \/ \E t \in Jobs : Handle(t)
<1>1. ASSUME NEW j \in Jobs, Drive(j) PROVE frame' = frame
  BY <1>1 DEF Drive, DriveChild, HoldPark, OtherStep, FinishStep, Invoke, ReadChild,
       CallEnds, OpenInterest, RegisterOwner, Apply, EndDrive, matchVars
<1>2. ASSUME NEW j \in Jobs, Submit(j) \/ Answer(j) \/ Cancel(j) \/ Take(j)
      PROVE  frame' = frame
  BY <1>2 DEF Submit, Answer, Cancel, Take, matchVars
<1>3. CASE Admit \/ UNCHANGED vars
  BY <1>3 DEF Admit, vars, matchVars
<1> QED BY <1>1, <1>2, <1>3 DEF Next

\* What FrameAnswers says of one frame, t's, that deals with o.
Answers(t, o, phase) ==
  /\ phase \notin {"idle", "match"} => \E a \in {"resume", "fail"} : <<o, t, a>> \in acted
  /\ phase = "resume" => t \in waits[o] \ output[o]
  /\ phase \in {"drop", "wake"} => t \in output[o]
  /\ phase \in {"nested", "close"} => t \in output[o] \/ status[o] \in Terminal

\* A frame the step does not move stays so.
LEMMA RestingFrame ==
  ASSUME TypeOK, MatchInv, [Next]_vars, NEW t \in Jobs, frame'[t] = frame[t],
         NEW o, NEW phase, frame[t].owner = o, frame[t].phase = phase,
         Answers(t, o, phase)
  PROVE  Answers(t, o, phase)'
<1>1. CASE phase \in {"idle", "match"}
  BY <1>1 DEF Answers
<1>2. CASE phase \notin {"idle", "match"}
  <2>1. o \in Jobs
    BY <1>2 DEF MatchInv, SignalsOfEnded
  <2>2. acted \subseteq acted' /\ output[o] \subseteq output'[o]
    BY <2>1, AnswersStay
  <2>3. status[o] \in Terminal => status'[o] \in Terminal
    BY <2>1, EndedStays
  <2>4. ASSUME phase = "resume" PROVE t \in waits'[o] \ output'[o]
    <3>1. t \in waits[o] \ output[o]
      BY <2>4 DEF Answers
    <3>2. t \in waits'[o]
      BY <2>1, <2>4, <3>1, WhoCloses DEF Drop, Close
    <3>3. ASSUME NEW u \in Jobs, Deliver(u) PROVE t \notin output'[o]
      <4>1. u # t
        <5>1. "drop" \in Phases
          BY DEF Phases
        <5>2. frame'[u].phase = "drop"
          BY <3>3, <5>1, EnterFrame DEF Deliver
        <5> QED BY <2>4, <5>2
      <4> QED BY <2>1, <3>1, <3>3, <4>1 DEF Deliver, TypeOK
    <3>4. t \notin output'[o]
      BY <3>1, <3>3, WhoDelivers
    <3> QED BY <3>2, <3>4
  <2> QED BY <1>2, <2>2, <2>3, <2>4 DEF Answers
<1> QED BY <1>1, <1>2

\* The frame a handler moves.
LEMMA MovedFrame ==
  ASSUME TypeOK, MatchInv, FrameAnswers, OutputIsActed, NEW t \in Jobs, Handle(t)
  PROVE  \/ frame'[t].phase \in {"idle", "match"}
         \/ Answers(t, frame[t].owner, frame[t].phase)'
<1> DEFINE o == frame[t].owner
<1>0. frame[t].phase \notin {"idle", "match"} => o \in Jobs
  BY DEF MatchInv, SignalsOfEnded
<1>a. {"drop", "wake", "close", "nested"} \subseteq Phases
  BY DEF Phases
<1>b. \A j \in Jobs : Rest(t, j).phase \in {"idle", "match"}
  BY DEF Rest, Idle
<1>c. Answers(t, o, frame[t].phase)
  BY DEF FrameAnswers, Answers
<1>1. CASE Signal(t)
  BY <1>1 DEF Signal, Begin, Idle, TypeOK
<1>2. ASSUME NEW j \in Jobs, Match(t, j), frame'[t].phase \notin {"idle", "match"}
      PROVE  Answers(t, frame[t].owner, frame[t].phase)'
  <2>1. t \in waits[j] /\ <<j, t, ActionFor(t)>> \notin acted
    BY <1>2, <1>b DEF Match, TypeOK
  <2>2. /\ frame'[t].phase = ActionFor(t) /\ frame'[t].owner = j
        /\ frame[t].phase = "match"
    BY <1>2, <2>1 DEF Match, TypeOK
  <2>3. /\ <<j, t, ActionFor(t)>> \in acted' /\ UNCHANGED <<waits, output>>
        /\ ActionFor(t) \in {"resume", "fail"}
    BY <1>2, <2>1 DEF Match, ActionFor
  <2>4. t \notin output[j]
    BY <2>1, <2>2 DEF OutputIsActed, MatchInv, ActedInFrame
  <2> QED BY <2>1, <2>2, <2>3, <2>4 DEF Answers
<1>3. CASE Deliver(t)
  <2>1. /\ frame'[t].phase = "drop" /\ frame'[t].owner = o /\ o \in Jobs
        /\ frame[t].phase = "resume" /\ acted' = acted
    BY <1>0, <1>a, <1>3, EnterFrame DEF Deliver
  <2>2. t \in output'[o]
    BY <1>3, <2>1 DEF Deliver, TypeOK
  <2> QED BY <1>c, <2>1, <2>2 DEF Answers
<1>4. CASE Drop(t)
  <2>1. /\ frame'[t].phase = "wake" /\ frame'[t].owner = o
        /\ frame[t].phase = "drop" /\ UNCHANGED <<acted, output>>
    BY <1>a, <1>4, EnterFrame DEF Drop
  <2> QED BY <1>c, <2>1 DEF Answers
<1>5. CASE Wake(t)
  <2>1. /\ frame'[t].phase = "close" /\ frame'[t].owner = o
        /\ frame[t].phase = "wake" /\ UNCHANGED <<acted, output>>
    BY <1>a, <1>5, EnterFrame DEF Wake, waitVars
  <2> QED BY <1>c, <2>1 DEF Answers
<1>6. CASE FailOwner(t)
  <2>1. /\ frame'[t].phase \in {"nested", "close"} /\ frame'[t].owner = o
        /\ frame[t].phase \in {"fail", "resume"} /\ acted' = acted /\ o \in Jobs
    BY <1>0, <1>a, <1>6, EnterFrame DEF FailOwner
  <2>2. status'[o] \in Terminal
    BY <1>6, <2>1 DEF FailOwner, Finish, Terminal, TypeOK
  <2> QED BY <1>c, <2>1, <2>2 DEF Answers
<1>7. CASE Unnest(t)
  <2>1. /\ frame'[t].phase = "close" /\ frame'[t].owner = o
        /\ frame[t].phase = "nested" /\ UNCHANGED <<acted, output, status>>
    BY <1>a, <1>7, EnterFrame DEF Unnest, jobVars, waitVars
  <2> QED BY <1>c, <2>1 DEF Answers
<1>8. CASE Close(t)
  BY <1>0, <1>8, <1>b DEF Close, TypeOK
<1> QED BY <1>1, <1>2, <1>3, <1>4, <1>5, <1>6, <1>7, <1>8 DEF Handle

LEMMA StepAnswers ==
  ASSUME TypeOK, MatchInv, FrameAnswers, OutputIsActed, [Next]_vars
  PROVE  FrameAnswers' /\ OutputIsActed'
<1>1. FrameAnswers'
  <2> SUFFICES ASSUME NEW t \in Jobs
               PROVE  Answers(t, frame[t].owner, frame[t].phase)'
    BY DEF FrameAnswers, Answers
  <2>1. CASE Handle(t)
    BY <2>1, MovedFrame DEF Answers
  <2>2. CASE frame'[t] = frame[t]
    <3>1. Answers(t, frame[t].owner, frame[t].phase)
      BY DEF FrameAnswers, Answers
    <3>2. Answers(t, frame[t].owner, frame[t].phase) =>
            \A o, phase : o = frame[t].owner /\ phase = frame[t].phase =>
               Answers(t, o, phase)'
      BY <2>2, RestingFrame
    <3> QED BY <2>2, <3>1, <3>2
  <2> QED BY <2>1, <2>2, OnlyHandlersMoveFrames, OtherFramesStay
<1>2. OutputIsActed'
  <2>1. ASSUME NEW u \in Jobs, Deliver(u) PROVE OutputIsActed'
    <3>1. \E a \in {"resume", "fail"} : <<frame[u].owner, u, a>> \in acted
      BY <2>1 DEF Deliver, FrameAnswers
    <3>2. \A o, t \in Jobs :
            t \in output'[o] => t \in output[o] \/ (o = frame[u].owner /\ t = u)
      BY <2>1 DEF Deliver, TypeOK
    <3> QED BY <2>1, <3>1, <3>2 DEF Deliver, OutputIsActed
  <2>2. CASE output' = output
    BY <2>2, AnswersStay DEF OutputIsActed
  <2> QED BY <2>1, <2>2, WhoDelivers
<1> QED BY <1>1, <1>2

LEMMA ParkInvariant == Spec => [](TypeOK /\ MatchInv /\ ParkInv)
<1>1. Init => FrameAnswers /\ OutputIsActed
  BY DEF Init, FrameAnswers, OutputIsActed, Idle
<1>2. MatchInv /\ FrameAnswers /\ OutputIsActed <=> ParkInv
  BY DEF ParkInv
<1> QED BY <1>1, <1>2, InitInv, StepInv, StepAnswers, PTL DEF Spec

\* WaitMatcher, the plane and the parked steps: a frame acts under a key taken for
\* its owner and target, delivers into an open interest and closes nothing it has
\* not answered; index, signals and steps know of each other what they rely on.
THEOREM ParkIsKept == Spec => []ParkInv
BY ParkInvariant, PTL

LEMMA RegistryInit == Init => Registry!Init
<1> SUFFICES ASSUME Init PROVE Registry!Init
  OBVIOUS
<1>1. \A j \in Jobs : Verdict(j) = "running"
  BY DEF Init, Verdict, Terminal
<1>2. [j \in Jobs |-> Verdict(j)] = [j \in Jobs |-> "running"]
  BY <1>1, Zenon
<1> QED BY <1>2 DEF Init, Registry!Init

\* Verdicts follow the statuses that end.
LEMMA VerdictsStay ==
  ASSUME \A j \in Jobs : \/ status'[j] = status[j]
                         \/ status[j] \notin Terminal /\ status'[j] \notin Terminal
  PROVE  [j \in Jobs |-> Verdict(j)]' = [j \in Jobs |-> Verdict(j)]
<1>1. \A j \in Jobs : Verdict(j)' = Verdict(j)
  BY DEF Verdict, Terminal
<1> QED BY <1>1, Zenon

LEMMA FinishEnds ==
  ASSUME TypeOK, NEW j \in Jobs, NEW s \in Terminal, status[j] \notin Terminal,
         Finish(j, s), UNCHANGED <<waits, output>>
  PROVE  Registry!Next
<1> DEFINE old == [i \in Jobs |-> Verdict(i)]
           v == IF s = "SUCCEEDED" THEN "ok" ELSE "failed"
<1>1. \A i \in Jobs : Verdict(i)' = IF i = j THEN v ELSE Verdict(i)
  BY DEF Finish, TypeOK, Verdict
<1> HIDE DEF v
<1>2. [i \in Jobs |-> Verdict(i)]' = [i \in Jobs |-> IF i = j THEN v ELSE Verdict(i)]
  BY <1>1, Zenon
<1>3. [i \in Jobs |-> Verdict(i)]' = [old EXCEPT ![j] = v]
  BY <1>2
<1>4. ~(old[j] # "running") /\ v \in {"ok", "failed"}
  BY DEF Verdict, Terminal, v
<1>5. Registry!End(j)
  BY <1>3, <1>4 DEF Registry!End, Registry!Over
<1> QED BY <1>5 DEF Registry!Next

\* An interest is closed when it is answered.
LEMMA ForgetCloses ==
  ASSUME TypeOK, NEW o \in Jobs, NEW t \in Jobs, Forget(t, o),
         UNCHANGED <<status, output>>, status[t] \in Terminal,
         t \in output[o] \/ status[o] \in Terminal
  PROVE  Registry!Next \/ UNCHANGED Registry!vars
<1>1. /\ [j \in Jobs |-> Verdict(j)]' = [j \in Jobs |-> Verdict(j)]
      /\ waits' = [waits EXCEPT ![o] = waits[o] \ {t}]
  BY VerdictsStay DEF Forget
<1>2. CASE t \notin waits[o]
  <2>1. waits' = waits
    BY <1>1, <1>2 DEF TypeOK
  <2> QED BY <1>1, <2>1 DEF Registry!vars
<1>3. CASE t \in waits[o]
  <2>1. \A j \in Jobs : status[j] \in Terminal => [i \in Jobs |-> Verdict(i)][j] # "running"
    BY DEF Verdict
  <2>2. Registry!Close(o, t)
    BY <1>1, <1>3, <2>1 DEF Registry!Close, Registry!Over
  <2> QED BY <2>2 DEF Registry!Next
<1> QED BY <1>2, <1>3

LEMMA RegistryStep ==
  ASSUME TypeOK, MatchInv, ParkInv, [Next]_vars
  PROVE  [Registry!Next]_(Registry!vars)
<1> SUFFICES Registry!Next \/ UNCHANGED Registry!vars
  OBVIOUS
<1>a. FrameAnswers /\ OutputIsActed
  BY DEF ParkInv
<1>0. ASSUME UNCHANGED <<status, waits, output>> PROVE UNCHANGED Registry!vars
  BY <1>0, VerdictsStay DEF Registry!vars
<1>1. ASSUME NEW j \in Jobs, Submit(j) \/ Answer(j) \/ Take(j)
      PROVE  UNCHANGED Registry!vars
  BY <1>0, <1>1 DEF Submit, Answer, Take, waitVars
<1>2. ASSUME NEW j \in Jobs, Cancel(j) PROVE Registry!Next
  BY <1>2, FinishEnds DEF Cancel, waitVars, Terminal
<1>3. ASSUME NEW j \in Jobs, Apply(j) PROVE Registry!Next \/ UNCHANGED Registry!vars
  <2>1. CASE status[j] \notin Terminal /\ outcome[j] \in Terminal
    BY <1>3, <2>1, FinishEnds DEF Apply, Settle, waitVars
  <2>2. CASE status[j] \in Terminal
    BY <1>0, <1>3, <2>2 DEF Apply, waitVars
  <2>3. CASE status[j] \notin Terminal /\ outcome[j] \notin Terminal
    <3>1. /\ UNCHANGED <<waits, output>>
          /\ \A i \in Jobs : \/ status'[i] = status[i]
                             \/ status[i] \notin Terminal /\ status'[i] \notin Terminal
      BY <1>3, <2>3 DEF Apply, Settle, waitVars, TypeOK
    <3> QED BY <3>1, VerdictsStay DEF Registry!vars
  <2> QED BY <2>1, <2>2, <2>3
<1>4. ASSUME NEW o \in Jobs, OpenInterest(o) PROVE Registry!Next
  <2> DEFINE t == child[o]
  <2>1. /\ t \in Jobs /\ t \notin waits[o] \cup output[o]
        /\ UNCHANGED <<status, output>>
        /\ waits' = [waits EXCEPT ![o] = waits[o] \cup {t}]
    BY <1>4, <1>a DEF OpenInterest, MatchInv, ChildOfStep, TypeOK, OutputIsActed,
                jobVars
  <2>2. Registry!Open(o, t)
    BY <2>1, VerdictsStay DEF Registry!Open
  <2> QED BY <2>1, <2>2 DEF Registry!Next
<1>5. ASSUME NEW o \in Jobs, FinishStep(o) PROVE Registry!Next \/ UNCHANGED Registry!vars
  <2>1. /\ child[o] \in Jobs /\ child[o] \in output[o] /\ Forget(child[o], o)
        /\ UNCHANGED <<status, output>>
    BY <1>5 DEF FinishStep, TypeOK, jobVars
  <2>2. status[child[o]] \in Terminal
    BY <2>1 DEF MatchInv, OutputIsSuccess, Terminal
  <2> QED BY <2>1, <2>2, ForgetCloses
<1>6. ASSUME NEW o \in Jobs, Drive(o), ~Apply(o), ~OpenInterest(o), ~FinishStep(o)
      PROVE  UNCHANGED Registry!vars
  BY <1>0, <1>6 DEF Drive, DriveChild, HoldPark, OtherStep, Invoke, ReadChild, CallEnds,
       RegisterOwner, EndDrive, jobVars, waitVars
<1>7. ASSUME NEW t \in Jobs, Deliver(t) PROVE Registry!Next
  <2> DEFINE o == frame[t].owner
  <2>1. /\ o \in Jobs /\ t \in waits[o] \ output[o] /\ status[t] = "SUCCEEDED"
        /\ UNCHANGED <<status, waits>>
        /\ output' = [output EXCEPT ![o] = output[o] \cup {t}]
    BY <1>7, <1>a DEF Deliver, MatchInv, SignalsOfEnded, FrameAnswers, jobVars
  <2>2. [j \in Jobs |-> Verdict(j)][t] = "ok"
    BY <2>1 DEF Verdict
  <2>3. Registry!Deliver(o, t)
    BY <2>1, <2>2, VerdictsStay DEF Registry!Deliver
  <2> QED BY <2>1, <2>3 DEF Registry!Next
<1>8. ASSUME NEW t \in Jobs, Drop(t) \/ Close(t)
      PROVE  Registry!Next \/ UNCHANGED Registry!vars
  <2> DEFINE o == frame[t].owner
  <2>1. /\ frame[t].phase \in {"drop", "close"} /\ Forget(t, o)
        /\ UNCHANGED <<status, output>>
    BY <1>8 DEF Drop, Close, jobVars
  <2>2. /\ o \in Jobs /\ status[t] \in Terminal
        /\ t \in output[o] \/ status[o] \in Terminal
    BY <2>1, <1>a DEF MatchInv, SignalsOfEnded, FrameAnswers
  <2> QED BY <2>1, <2>2, ForgetCloses
<1>9. ASSUME NEW t \in Jobs, FailOwner(t) PROVE Registry!Next \/ UNCHANGED Registry!vars
  <2> DEFINE o == frame[t].owner
  <2>1. o \in Jobs /\ UNCHANGED <<waits, output>>
    BY <1>9 DEF FailOwner, MatchInv, SignalsOfEnded, waitVars
  <2>2. CASE status[o] \in Terminal
    BY <1>0, <1>9, <2>1, <2>2 DEF FailOwner
  <2>3. CASE status[o] \notin Terminal
    BY <1>9, <2>1, <2>3, FinishEnds DEF FailOwner, Terminal
  <2> QED BY <2>2, <2>3
<1>10. ASSUME NEW t \in Jobs, Handle(t), ~Deliver(t), ~Drop(t), ~Close(t), ~FailOwner(t)
       PROVE  UNCHANGED Registry!vars
  BY <1>0, <1>10 DEF Handle, Signal, Match, Wake, Unnest, jobVars, waitVars
<1>11. CASE Admit \/ UNCHANGED vars
  BY <1>0, <1>11 DEF Admit, vars, jobVars, waitVars
<1> QED
  BY <1>1, <1>2, <1>3, <1>4, <1>5, <1>6, <1>7, <1>8, <1>9, <1>10, <1>11 DEF Next

\* matcher.py, plane.py and nested.py, whatever the slices, the humans and the
\* cancels do meanwhile: every behaviour of the wait plane is one of the registry.
THEOREM PlaneImplementsRegistry == Spec => ImplementsRegistry
<1>1. TypeOK /\ MatchInv /\ ParkInv /\ [Next]_vars => [Registry!Next]_(Registry!vars)
  BY RegistryStep
<1> QED
  BY <1>1, ParkInvariant, RegistryInit, PTL
  DEF Spec, ImplementsRegistry, Registry!Spec
=============================================================================
