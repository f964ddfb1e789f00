--------------------------- MODULE StructureProofs ---------------------------
(***************************************************************************)
(* Proofs about the workload engine, and about the structure that assembles *)
(* itself on it.                                                           *)
(*                                                                         *)
(* The book first: its invariants are inductive once they say that a row   *)
(* that was stopped has ended.  The structure then uses the book only by   *)
(* steps of the book, so it inherits them; its own invariants are kept by  *)
(* what the assembly knows at each of its points.                          *)
(***************************************************************************)
EXTENDS Structure, TLAPS

-----------------------------------------------------------------------------
(* What a row may become *)

LEMMA ReachableStatus ==
  ASSUME NEW s \in Status \ {"PENDING"}
  PROVE  Reachable(s) \subseteq Status \ {"PENDING"}
  BY DEF Reachable, Allowed, Status, Terminal

LEMMA FoldedStatus ==
  ASSUME NEW s \in Status \ {"PENDING"}, NEW outcome
  PROVE  Folded(s, outcome) \in Status \ {"PENDING"}
  BY ReachableStatus DEF Folded, Status

\* What has ended may become nothing else.
LEMMA SettleKeeps ==
  ASSUME WorkloadTypeOK, EndAnnouncedOnce,
         NEW w \in Ids, NEW s \in Status \ {"PENDING"},
         status[w] \notin Terminal, Settle(w, s)
  PROVE  /\ status' \in [Ids -> (Status \ {"PENDING"}) \cup {"absent"}]
         /\ announced' \in [Ids -> Nat]
         /\ EndAnnouncedOnce'
         /\ status'[w] = s
         /\ \A v \in Ids \ {w} : status'[v] = status[v]
  BY DEF Settle, WorkloadTypeOK, EndAnnouncedOnce

-----------------------------------------------------------------------------
(* The invariant of the book *)

\* A row that was stopped has ended: so it is never started, and given a body,
\* again.
StoppedHasEnded == \A w \in stopped : status[w] \in Terminal

\* An allocation is of a row that has a runtime.
BodyIsBound == body \subseteq bound

BookInv ==
  /\ WorkloadTypeOK
  /\ EndAnnouncedOnce
  /\ StopIsAccounted
  /\ StoppedHasEnded
  /\ BodyIsBound

LEMMA BookInit == WorkloadInit => BookInv
  BY DEF WorkloadInit, BookInv, WorkloadTypeOK, EndAnnouncedOnce,
         StoppedHasEnded, StopIsAccounted, BodyIsBound, Terminal

\* A step that settles one live or absent row and stops nothing.
LEMMA SettleKeepsBook ==
  ASSUME BookInv, NEW w \in Ids, NEW s \in Status \ {"PENDING"},
         status[w] \notin Terminal, Settle(w, s),
         bound' \in {bound, bound \cup {w}}, body' \in {body, body \cup {w}},
         body' \subseteq body \cup bound',
         UNCHANGED <<leaked, sweep, stopped>>
  PROVE  BookInv'
<1>1. /\ status' \in [Ids -> (Status \ {"PENDING"}) \cup {"absent"}]
      /\ announced' \in [Ids -> Nat]
      /\ EndAnnouncedOnce'
      /\ status'[w] = s
      /\ \A v \in Ids \ {w} : status'[v] = status[v]
  BY SettleKeeps DEF BookInv
<1>2. w \notin stopped
  BY DEF BookInv, StoppedHasEnded
<1>3. StopIsAccounted' /\ StoppedHasEnded' /\ BodyIsBound'
  BY <1>1, <1>2
  DEF BookInv, WorkloadTypeOK, StoppedHasEnded, StopIsAccounted, BodyIsBound
<1>4. WorkloadTypeOK'
  BY <1>1 DEF BookInv, WorkloadTypeOK
<1> QED
  BY <1>1, <1>3, <1>4 DEF BookInv

LEMMA HaltKeepsBook ==
  ASSUME BookInv, NEW w \in Ids, Live(w), Halt(w), stopped' = stopped \cup {w},
         bound' = bound, sweep' \subseteq Ids
  PROVE  BookInv'
<1>1. status[w] \notin Terminal
  BY DEF Live
<1>2. PICK s \in Terminal : Settle(w, s)
  BY DEF Halt, Terminal
<1>3. Terminal \subseteq Status \ {"PENDING"}
  BY DEF Terminal, Status
<1>4. /\ status' \in [Ids -> (Status \ {"PENDING"}) \cup {"absent"}]
      /\ announced' \in [Ids -> Nat]
      /\ EndAnnouncedOnce'
      /\ status'[w] = s
      /\ \A v \in Ids \ {w} : status'[v] = status[v]
  BY <1>1, <1>2, <1>3, SettleKeeps DEF BookInv
<1>5. /\ leaked' \subseteq Ids /\ body' \subseteq Ids
      /\ StopIsAccounted' /\ BodyIsBound'
  <2>1. CASE w \notin bound
    BY <2>1 DEF Halt, BookInv, WorkloadTypeOK, StopIsAccounted, BodyIsBound
  <2>2. CASE w \in bound
    BY <2>2 DEF Halt, BookInv, WorkloadTypeOK, StopIsAccounted, BodyIsBound
  <2> QED BY <2>1, <2>2
<1>6. StoppedHasEnded'
  BY <1>2, <1>4 DEF BookInv, WorkloadTypeOK, StoppedHasEnded
<1> QED
  BY <1>4, <1>5, <1>6 DEF BookInv, WorkloadTypeOK

LEMMA BookStep == BookInv /\ [WorkloadNext]_workload => BookInv'
<1> SUFFICES ASSUME BookInv, [WorkloadNext]_workload
             PROVE  BookInv'
  OBVIOUS
<1> USE DEF BookInv
<1>1. ASSUME NEW w \in Ids, Start(w)
      PROVE  BookInv'
  <2>1. PICK outcome \in Outcomes : Settle(w, Folded("STARTING", outcome))
    BY <1>1 DEF Start
  <2>2. Folded("STARTING", outcome) \in Status \ {"PENDING"}
    BY FoldedStatus DEF Status
  <2>3. status[w] \notin Terminal
    BY <1>1 DEF Start, Terminal
  <2> QED
    BY <1>1, <2>1, <2>2, <2>3, SettleKeepsBook DEF Start
<1>2. ASSUME NEW w \in Ids, Adopt(w)
      PROVE  BookInv'
  <2>1. "READY" \in Status \ {"PENDING"} /\ status[w] \notin Terminal
    BY <1>2 DEF Adopt, Status, Terminal
  <2> QED
    BY <1>2, <2>1, SettleKeepsBook DEF Adopt
<1>3. ASSUME NEW w \in Ids, Exec(w)
      PROVE  BookInv'
  <2>1. "FAILED" \in Status \ {"PENDING"} /\ status[w] \notin Terminal
    BY <1>3 DEF Exec, Status, Terminal
  <2> QED
    BY <1>3, <2>1, SettleKeepsBook DEF Exec
<1>4. ASSUME NEW w \in Ids, Refresh(w)
      PROVE  BookInv'
  <2>1. status[w] \in Status \ {"PENDING"} /\ status[w] \notin Terminal
    BY <1>4 DEF Refresh, Live, WorkloadTypeOK
  <2>2. PICK outcome : Settle(w, Folded(status[w], outcome))
    BY <1>4 DEF Refresh
  <2>3. Folded(status[w], outcome) \in Status \ {"PENDING"}
    BY <2>1, FoldedStatus
  <2> QED
    BY <1>4, <2>1, <2>2, <2>3, SettleKeepsBook DEF Refresh
<1>5. ASSUME NEW w \in Ids, Stop(w)
      PROVE  BookInv'
  BY <1>5, HaltKeepsBook DEF Stop, WorkloadTypeOK
<1>6. ASSUME NEW w \in Ids, Sweep(w)
      PROVE  BookInv'
  <2>1. sweep' \subseteq Ids /\ bound' = bound
    BY <1>6 DEF Sweep, WorkloadTypeOK
  <2>2. CASE Live(w)
    BY <1>6, <2>1, <2>2, HaltKeepsBook DEF Sweep
  <2>3. CASE ~Live(w)
    BY <1>6, <2>1, <2>3
    DEF Sweep, WorkloadTypeOK, EndAnnouncedOnce, StopIsAccounted,
        StoppedHasEnded, BodyIsBound
  <2> QED BY <2>2, <2>3
<1>7. ASSUME NEW W \in SUBSET Ids, StopOwned(W)
      PROVE  BookInv'
  BY <1>7
  DEF StopOwned, book, WorkloadTypeOK, EndAnnouncedOnce, StopIsAccounted,
      StoppedHasEnded, BodyIsBound
<1>8. CASE UNCHANGED workload
  BY <1>8
  DEF workload, book, WorkloadTypeOK, EndAnnouncedOnce, StopIsAccounted,
      StoppedHasEnded, BodyIsBound
<1> QED
  BY <1>1, <1>2, <1>3, <1>4, <1>5, <1>6, <1>7, <1>8 DEF WorkloadNext

\* The engine on its own keeps its invariant, whatever its runtimes return and
\* whatever its callers and handlers do between its operations.
THEOREM WorkloadBook == WorkloadSpec => []BookInv
<1>1. WorkloadInit => BookInv
  BY BookInit
<1>2. BookInv /\ [WorkloadNext]_workload => BookInv'
  BY BookStep
<1> QED
  BY <1>1, <1>2, PTL DEF WorkloadSpec

-----------------------------------------------------------------------------
(* The structure uses the book by its own steps *)

LEMMA StepOfTheBook == [Next]_vars => [WorkloadNext]_workload
<1> SUFFICES ASSUME [Next]_vars
             PROVE  [WorkloadNext]_workload
  OBVIOUS
<1>1. ASSUME NEW d \in Definitions, NEW f \in BOOLEAN, NEW r \in BOOLEAN,
             Assemble(d, f, r)
      PROVE  UNCHANGED workload
  BY <1>1 DEF Assemble
<1>2. CASE Receive \/ Refuse \/ Tick \/ Decide \/ Again
  BY <1>2 DEF Receive, Refuse, Tick, Decide, Again
<1>3. ASSUME NEW p \in Ids, Look(p) \/ Ensure(p) \/ Miss(p)
      PROVE  UNCHANGED workload
  BY <1>3 DEF Look, Ensure, Miss
<1>4. ASSUME NEW p \in Ids, Launch(p)
      PROVE  [WorkloadNext]_workload
  BY <1>4 DEF Launch, WorkloadNext
<1>5. CASE HomeDown \/ HomeUp \/ Failed \/ Repaired \/ Gone \/ Invalidate
  BY <1>5 DEF HomeDown, HomeUp, Failed, Repaired, Gone, Invalidate, Fold
<1>6. CASE UseWorkloads
  BY <1>6 DEF UseWorkloads
<1>7. CASE UNCHANGED vars
  BY <1>7 DEF vars
<1> QED
  BY <1>1, <1>2, <1>3, <1>4, <1>5, <1>6, <1>7 DEF Next

\* The structure implements the workload engine: assembling, launching and
\* losing places never takes a row through a step the engine does not have.
THEOREM StructureUsesWorkloads == Spec => WorkloadSpec
<1>1. Init => WorkloadInit
  BY DEF Init
<1>2. [Next]_vars => [WorkloadNext]_workload
  BY StepOfTheBook
<1> QED
  BY <1>1, <1>2, PTL DEF Spec, WorkloadSpec

\* A row announces its end once and only then, in the engine ...
THEOREM WorkloadEndAnnouncedOnce == WorkloadSpec => []EndAnnouncedOnce
<1>1. BookInv => EndAnnouncedOnce
  BY DEF BookInv
<1> QED
  BY <1>1, WorkloadBook, PTL

\* ... and so under the structure; and there, what was stopped either gave its
\* allocation back or is a leak on record.
THEOREM StructureEndAnnouncedOnce == Spec => []EndAnnouncedOnce
  BY StructureUsesWorkloads, WorkloadEndAnnouncedOnce, PTL

THEOREM StructureStopIsAccounted == Spec => []StopIsAccounted
<1>1. BookInv => StopIsAccounted
  BY DEF BookInv
<1> QED
  BY <1>1, WorkloadBook, StructureUsesWorkloads, PTL

-----------------------------------------------------------------------------
(* What a step of the book may do to a row *)

\* A row that was there stays in the book; one that is no longer live ended.
LEMMA LiveOrEnded ==
  ASSUME WorkloadTypeOK, WorkloadTypeOK', [WorkloadNext]_workload,
         NEW w \in Ids, Live(w)
  PROVE  Live(w)' \/ status'[w] \in Terminal
<1>1. status[w] # "absent"
  BY DEF Live
<1>2. SUFFICES status'[w] # "absent"
  BY DEF Live
<1>3. ASSUME NEW v \in Ids, NEW s \in Status, Settle(v, s)
      PROVE  status'[w] # "absent"
  BY <1>1, <1>3 DEF Settle, WorkloadTypeOK, Status
<1>4. Terminal \subseteq Status /\ "READY" \in Status /\ "STARTING" \in Status
  BY DEF Terminal, Status
<1>5. \A v \in Ids, outcome \in Outcomes :
        Live(v) => Folded(status[v], outcome) \in Status
  BY FoldedStatus DEF Live, WorkloadTypeOK
<1>6. \A outcome \in Outcomes : Folded("STARTING", outcome) \in Status
  BY FoldedStatus DEF Status
<1>7. ASSUME NEW v \in Ids, Start(v) \/ Adopt(v) \/ Exec(v) \/ Refresh(v)
      PROVE  status'[w] # "absent"
  BY <1>3, <1>4, <1>5, <1>6, <1>7 DEF Start, Adopt, Exec, Refresh, Terminal
<1>8. ASSUME NEW v \in Ids, Halt(v)
      PROVE  status'[w] # "absent"
  BY <1>3, <1>4, <1>8 DEF Halt, Terminal
<1>9. ASSUME NEW v \in Ids, Stop(v) \/ Sweep(v)
      PROVE  status'[w] # "absent"
  BY <1>1, <1>8, <1>9 DEF Stop, Sweep
<1>10. CASE UNCHANGED workload \/ \E W \in SUBSET Ids : StopOwned(W)
  BY <1>1, <1>10 DEF workload, book, StopOwned
<1> QED
  BY <1>7, <1>9, <1>10 DEF WorkloadNext

-----------------------------------------------------------------------------
(* Type correctness of the structure *)

SeatTypeOK ==
  /\ definition \in Definitions \cup {None} /\ phase \in Phases
  /\ reasons \subseteq Reasons /\ homeUp \in BOOLEAN /\ pending \subseteq Ids
  /\ pc \in Points /\ wanted \in Definitions \cup {None}
  /\ force \in BOOLEAN /\ refused \in BOOLEAN /\ ticks \in 0 .. MaxTicks
  /\ todo \subseteq Ids /\ work \subseteq Ids
  /\ home \in BOOLEAN /\ forgotten \in BOOLEAN /\ fell \subseteq Ids

\* A tick is made of a definition, and with a tick left.
AtWork ==
  /\ pc \in {"receive", "refuse", "tick", "look", "apply", "launch"}
       => wanted \in Definitions
  /\ pc \in {"refuse", "tick", "look", "apply", "launch"} \/ phase = "ready"
       => definition \in Definitions
  /\ pc \in {"receive", "refuse", "tick"} => ticks # 0

LEMMA SeatInit == Init => SeatTypeOK /\ AtWork
<1> SUFFICES ASSUME Init
             PROVE  SeatTypeOK /\ AtWork
  OBVIOUS
<1>1. homeUp \in BOOLEAN /\ force \in BOOLEAN /\ refused \in BOOLEAN
        /\ home \in BOOLEAN /\ forgotten \in BOOLEAN
  BY Zenon DEF Init
<1>2. ticks \in 0 .. MaxTicks
  BY TicksAssumption DEF Init
<1>3. AtWork
  BY DEF Init, AtWork
<1> QED
  BY <1>1, <1>2, <1>3 DEF Init, SeatTypeOK, Phases, Points

LEMMA SeatStep ==
  ASSUME SeatTypeOK, AtWork, [Next]_vars
  PROVE  SeatTypeOK' /\ AtWork'
<1> USE TicksAssumption, NoneAssumption, PlacesAssumption
    DEF SeatTypeOK, AtWork, Phases, Reasons, Causes, Points, seat, engine,
        assembly, request, facts
<1>1. ASSUME NEW d \in Definitions, NEW f \in BOOLEAN, NEW r \in BOOLEAN,
             Assemble(d, f, r)
      PROVE  SeatTypeOK' /\ AtWork'
  BY <1>1 DEF Assemble
<1>2. CASE Receive
  BY <1>2 DEF Receive, Same
<1>3. CASE Refuse
  BY <1>3 DEF Refuse
<1>4. CASE Tick
  <2>1. definition \in Definitions /\ PlacesOf[definition] \subseteq Ids
    BY <1>4 DEF Tick
  <2>2. reasons' \subseteq Reasons /\ phase' \in Phases
    BY <1>4 DEF Tick
  <2>3. UNCHANGED <<definition, homeUp, pending, wanted, force, refused, home,
                    forgotten>>
    BY <1>4 DEF Tick
  <2>4. CASE Stuck(reasons \ {"truth_home_down"})
    <3>1. /\ pc' = "idle" /\ ticks' = 0 /\ phase' = "blocked"
          /\ UNCHANGED <<todo, work, fell>>
      BY <1>4, <2>4 DEF Tick
    <3> QED BY <2>2, <2>3, <3>1
  <2>5. CASE ~Stuck(reasons \ {"truth_home_down"})
    <3>1. /\ pc' = "look" /\ ticks' = ticks - 1 /\ todo' = PlacesOf[definition]
          /\ work' = {} /\ fell' = {} /\ wanted \in Definitions /\ ticks # 0
      BY <1>4, <2>5 DEF Tick
    <3> QED BY <2>1, <2>2, <2>3, <3>1
  <2> QED BY <2>4, <2>5
<1>5. CASE Decide
  BY <1>5 DEF Decide
<1>6. CASE Again
  BY <1>6 DEF Again
<1>7. ASSUME NEW p \in Ids, Look(p)
      PROVE  SeatTypeOK' /\ AtWork'
  BY <1>7 DEF Look
<1>8. ASSUME NEW p \in Ids, Ensure(p)
      PROVE  SeatTypeOK' /\ AtWork'
  BY <1>8 DEF Ensure, PlaceReady, PlaceFailed
<1>9. ASSUME NEW p \in Ids, Miss(p)
      PROVE  SeatTypeOK' /\ AtWork'
  BY <1>9 DEF Miss
<1>10. ASSUME NEW p \in Ids, Launch(p)
       PROVE  SeatTypeOK' /\ AtWork'
  BY <1>10 DEF Launch, PlaceReady, PlaceFailed
<1>11. CASE HomeDown \/ HomeUp
  BY <1>11 DEF HomeDown, HomeUp, Fold, Unready
<1>12. CASE Failed \/ Repaired \/ Gone \/ Invalidate
  <2>1. PICK more \in {{}, {"failed"}}, less \in {{}, {"failed"}},
             next \in {"blocked", "invalidated", phase} :
          Fold(more, less, next)
    BY <1>12 DEF Failed, Repaired, Gone, Invalidate, Unready
  <2>2. UNCHANGED <<homeUp, facts>>
    BY <1>12 DEF Failed, Repaired, Gone, Invalidate
  <2>3. /\ reasons' \subseteq Reasons /\ phase' \in Phases /\ fell' \subseteq Ids
        /\ phase' = "ready" => phase = "ready"
    BY <2>1 DEF Fold
  <2>4. UNCHANGED <<definition, pending, assembly>>
    BY <2>1 DEF Fold
  <2>5. UNCHANGED <<definition, pending, pc, wanted, force, refused, ticks, todo,
                    work, homeUp, home, forgotten>>
    BY <2>4, <2>2
  <2> QED
    BY <2>3, <2>5
<1>13. CASE UseWorkloads
  BY <1>13 DEF UseWorkloads
<1>14. CASE UNCHANGED vars
  BY <1>14 DEF vars
<1> QED
  BY <1>1, <1>2, <1>3, <1>4, <1>5, <1>6, <1>7, <1>8, <1>9, <1>10, <1>11, <1>12,
     <1>13, <1>14
  DEF Next

\* Shape of the state, of the book and of the seat.
TypeInv == TypeOK /\ BookInv /\ AtWork

LEMMA TypeInvInit == Init => TypeInv
  BY BookInit, SeatInit DEF Init, TypeInv, TypeOK, SeatTypeOK, BookInv

LEMMA TypeInvStep == TypeInv /\ [Next]_vars => TypeInv'
<1> SUFFICES ASSUME TypeInv, [Next]_vars
             PROVE  TypeInv'
  OBVIOUS
<1>1. BookInv'
  BY StepOfTheBook, BookStep DEF TypeInv
<1>2. SeatTypeOK' /\ AtWork'
  BY SeatStep DEF TypeInv, TypeOK, SeatTypeOK
<1> QED
  BY <1>1, <1>2 DEF TypeInv, TypeOK, SeatTypeOK, BookInv

\* Type correctness of the structure on its book.
THEOREM StructureTypeCorrect == Spec => []TypeOK
<1>1. TypeInv => TypeOK
  BY DEF TypeInv
<1> QED
  BY <1>1, TypeInvInit, TypeInvStep, PTL DEF Spec

-----------------------------------------------------------------------------
(* A refused definition *)

\* From its observation on, and past every tick and fact, a refusal is among
\* the reasons.
RefusalNoted ==
  refused /\ pc \in {"tick", "look", "apply", "launch", "idle"}
    => "refuse" \in reasons

LEMMA RefusalStep ==
  ASSUME TypeOK, RefusalNoted, [Next]_vars
  PROVE  RefusalNoted'
<1> USE DEF RefusalNoted, seat, engine, assembly, request, facts
<1>1. ASSUME NEW d \in Definitions, NEW f \in BOOLEAN, NEW r \in BOOLEAN,
             Assemble(d, f, r)
      PROVE  RefusalNoted'
  BY <1>1 DEF Assemble
<1>2. CASE Receive \/ Refuse
  BY <1>2 DEF Receive, Refuse
<1>3. CASE Tick \/ Decide \/ Again
  BY <1>3 DEF Tick, Decide, Again
<1>4. ASSUME NEW p \in Ids, Look(p) \/ Miss(p)
      PROVE  RefusalNoted'
  BY <1>4 DEF Look, Miss
<1>5. ASSUME NEW p \in Ids, Ensure(p) \/ Launch(p)
      PROVE  RefusalNoted'
  <2>1. p # "refuse"
    BY ReasonAssumption
  <2>2. reasons' \in {reasons \ {p}, reasons \cup {p}}
    BY <1>5 DEF Ensure, Launch, PlaceReady, PlaceFailed
  <2>3. refused' = refused /\ pc \in {"apply", "launch"}
    BY <1>5 DEF Ensure, Launch
  <2> QED BY <2>1, <2>2, <2>3
<1>6. CASE HomeDown \/ HomeUp
  BY <1>6 DEF HomeDown, HomeUp, Fold
<1>7. CASE Failed \/ Repaired \/ Gone \/ Invalidate
  BY <1>7 DEF Failed, Repaired, Gone, Invalidate, Fold
<1>8. CASE UseWorkloads \/ UNCHANGED vars
  BY <1>8 DEF UseWorkloads, vars
<1> QED
  BY <1>1, <1>2, <1>3, <1>4, <1>5, <1>6, <1>7, <1>8 DEF Next

\* However facts come and go after the assembly, a refused definition runs no
\* business.
THEOREM StructureRefusalHolds == Spec => []RefusalHolds
<1>1. Init => RefusalNoted
  BY DEF Init, RefusalNoted
<1>2. TypeInv /\ RefusalNoted /\ [Next]_vars => RefusalNoted'
  BY RefusalStep DEF TypeInv
<1>3. RefusalNoted => RefusalHolds
  BY DEF RefusalNoted, RefusalHolds, MayRun
<1> QED
  BY <1>1, <1>2, <1>3, TypeInvInit, TypeInvStep, PTL DEF Spec

-----------------------------------------------------------------------------
(* The truth home *)

\* What the engine holds of the truth home is what it was told, unless a
\* definition received since made it forget.
HomeKnown == homeUp => home \/ forgotten

LEMMA HomeStep ==
  ASSUME HomeKnown, [Next]_vars
  PROVE  HomeKnown'
<1> USE DEF HomeKnown, seat, engine, assembly, request, facts
<1>1. ASSUME NEW d \in Definitions, NEW f \in BOOLEAN, NEW r \in BOOLEAN,
             Assemble(d, f, r)
      PROVE  HomeKnown'
  BY <1>1 DEF Assemble
<1>2. CASE Receive
  BY <1>2 DEF Receive
<1>3. CASE Refuse \/ Tick \/ Decide \/ Again
  BY <1>3 DEF Refuse, Tick, Decide, Again
<1>4. ASSUME NEW p \in Ids, Look(p) \/ Ensure(p) \/ Miss(p) \/ Launch(p)
      PROVE  HomeKnown'
  BY <1>4 DEF Look, Ensure, Miss, Launch
<1>5. CASE HomeDown \/ HomeUp
  BY <1>5 DEF HomeDown, HomeUp
<1>6. CASE Failed \/ Repaired \/ Gone \/ Invalidate
  BY <1>6 DEF Failed, Repaired, Gone, Invalidate
<1>7. CASE UseWorkloads \/ UNCHANGED vars
  BY <1>7 DEF UseWorkloads, vars
<1> QED
  BY <1>1, <1>2, <1>3, <1>4, <1>5, <1>6, <1>7 DEF Next

\* No business on a truth home that is down, a definition received in the
\* meantime excepted.
THEOREM StructureTruthHomeBlocks == Spec => []TruthHomeBlocks
<1>1. Init => HomeKnown
  BY DEF Init, HomeKnown
<1>2. HomeKnown /\ [Next]_vars => HomeKnown'
  BY HomeStep
<1>3. HomeKnown => TruthHomeBlocks
  BY DEF HomeKnown, TruthHomeBlocks, MayRun
<1> QED
  BY <1>1, <1>2, <1>3, PTL DEF Spec

-----------------------------------------------------------------------------
(* The ground *)

Grounded(P) == \A p \in P \ fell : Live(p)

\* What the assembly knows of the places: those the tick has asked about and
\* did not miss, and all of them once it is ready.
GroundKnown ==
  /\ pc = "look" => Grounded(PlacesOf[definition] \ (todo \cup work))
  /\ phase = "ready" /\ pc # "look" => Grounded(PlacesOf[definition])

\* The book moves under the assembly: what is no longer live is noted in fell.
LEMMA GroundMoves ==
  ASSUME TypeOK, TypeOK', UseWorkloads, NEW P, P \subseteq Ids, Grounded(P)
  PROVE  Grounded(P)'
<1>1. SUFFICES ASSUME NEW p \in P, p \notin fell'
               PROVE  Live(p)'
  BY DEF Grounded
<1>2. p \in Ids /\ p \notin fell /\ (status'[p] \notin Terminal \/ ~Live(p))
  BY <1>1 DEF UseWorkloads
<1>3. Live(p)
  BY <1>1 DEF Grounded, UseWorkloads
<1> QED
  BY <1>1, <1>2, <1>3, LiveOrEnded DEF UseWorkloads, TypeOK

LEMMA GroundStep ==
  ASSUME TypeInv, TypeInv', GroundKnown, [Next]_vars
  PROVE  GroundKnown'
<1>0. TypeOK /\ TypeOK'
  BY DEF TypeInv
<1>1. ASSUME NEW d \in Definitions, NEW f \in BOOLEAN, NEW r \in BOOLEAN,
             Assemble(d, f, r)
      PROVE  GroundKnown'
  BY <1>1 DEF Assemble, GroundKnown, Grounded, Live, workload, book
<1>2. CASE Receive
  BY <1>2 DEF Receive, GroundKnown, Grounded, Live, workload, book, engine
<1>3. CASE Refuse \/ Again
  BY <1>3
  DEF Refuse, Again, GroundKnown, Grounded, Live, workload, book, engine
<1>4. CASE Tick
  <2>1. CASE Stuck(reasons \ {"truth_home_down"})
    BY <1>4, <2>1 DEF Tick, GroundKnown
  <2>2. CASE ~Stuck(reasons \ {"truth_home_down"})
    <3>1. pc' = "look" /\ todo' = PlacesOf[definition]' /\ work' = {}
      BY <1>4, <2>2 DEF Tick
    <3> QED BY <3>1 DEF GroundKnown, Grounded
  <2> QED BY <2>1, <2>2
<1>5. ASSUME NEW p \in Ids, Look(p)
      PROVE  GroundKnown'
  BY <1>5 DEF Look, Ready, GroundKnown, Grounded, Live, workload, book, engine
<1>6. CASE Decide
  BY <1>6 DEF Decide, GroundKnown, Grounded, Live, workload, book
<1>7. ASSUME NEW p \in Ids, Ensure(p)
      PROVE  GroundKnown'
  BY <1>7
  DEF Ensure, PlaceReady, PlaceFailed, GroundKnown, Grounded, Live, workload,
      book
<1>8. ASSUME NEW p \in Ids, Miss(p)
      PROVE  GroundKnown'
  BY <1>8 DEF Miss, GroundKnown, Grounded, Live, workload, book, engine
<1>9. ASSUME NEW p \in Ids, Launch(p)
      PROVE  GroundKnown'
  <2>1. pc = "launch" /\ pc' = "apply" /\ UNCHANGED <<definition, fell>>
    BY <1>9 DEF Launch
  <2>2. CASE phase' = "blocked"
    BY <2>1, <2>2 DEF GroundKnown
  <2>3. CASE phase' # "blocked"
    <3>1. Start(p) /\ UNCHANGED phase
      BY <1>9, <2>3 DEF Launch, PlaceReady, PlaceFailed
    <3>2. \A v \in Ids : Live(v) => Live(v)'
      BY <3>1, <1>0 DEF Start, Settle, Live, TypeOK, WorkloadTypeOK
    <3>3. PlacesOf[definition] \subseteq Ids
      BY <2>1, PlacesAssumption DEF TypeInv, AtWork
    <3> QED
      BY <2>1, <3>1, <3>2, <3>3 DEF GroundKnown, Grounded
  <2> QED BY <2>2, <2>3
<1>10. CASE HomeDown \/ HomeUp
  BY <1>10
  DEF HomeDown, HomeUp, Fold, Unready, GroundKnown, Grounded, Live, workload,
      book, assembly
<1>11. CASE Failed \/ Repaired \/ Gone \/ Invalidate
  BY <1>11
  DEF Failed, Repaired, Gone, Invalidate, Fold, Unready, GroundKnown, Grounded,
      Live, workload, book, assembly
<1>12. CASE UseWorkloads
  <2>1. UNCHANGED <<pc, phase, definition, todo, work>>
    BY <1>12 DEF UseWorkloads, seat, engine, assembly
  <2>2. ASSUME pc = "look" \/ phase = "ready"
        PROVE  PlacesOf[definition] \subseteq Ids
    BY <2>2, PlacesAssumption DEF TypeInv, AtWork
  <2>3. CASE pc = "look"
    <3>1. Grounded(PlacesOf[definition] \ (todo \cup work))'
      BY <1>0, <1>12, <2>1, <2>2, <2>3, GroundMoves DEF GroundKnown
    <3> QED BY <2>1, <2>3, <3>1 DEF GroundKnown
  <2>4. CASE pc # "look" /\ phase = "ready"
    <3>1. Grounded(PlacesOf[definition])'
      BY <1>0, <1>12, <2>1, <2>2, <2>4, GroundMoves DEF GroundKnown
    <3> QED BY <2>1, <2>4, <3>1 DEF GroundKnown
  <2>5. CASE pc # "look" /\ phase # "ready"
    BY <2>1, <2>5 DEF GroundKnown
  <2> QED BY <2>3, <2>4, <2>5
<1>13. CASE UNCHANGED vars
  BY <1>13
  DEF vars, seat, engine, assembly, GroundKnown, Grounded, Live, workload, book
<1> QED
  BY <1>1, <1>2, <1>3, <1>4, <1>5, <1>6, <1>7, <1>8, <1>9, <1>10, <1>11, <1>12,
     <1>13
  DEF Next

\* Admission opens on ground that is there, or was lost only since.
THEOREM StructureReadyIsGrounded == Spec => []ReadyIsGrounded
<1>1. Init => GroundKnown
  BY DEF Init, GroundKnown
<1>2. TypeInv /\ TypeInv' /\ GroundKnown /\ [Next]_vars => GroundKnown'
  BY GroundStep
<1>3. GroundKnown => ReadyIsGrounded
  BY DEF GroundKnown, Grounded, ReadyIsGrounded, MayRun
<1> QED
  BY <1>1, <1>2, <1>3, TypeInvInit, TypeInvStep, PTL DEF Spec

=============================================================================
