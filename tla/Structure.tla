------------------------------ MODULE Structure ------------------------------
(***************************************************************************)
(* The structure of the organism: a seat assembles the definition it is    *)
(* given - which places the organism requires - and admission tells the    *)
(* business planes whether they may run.                                   *)
(*                                                                         *)
(* A place is a row of the workload book, and readiness is asked of the    *)
(* book only.  One thread assembles; its steps are those of the engine's   *)
(* lock, but for a tick, which holds the lock and asks the book place by   *)
(* place.  Other threads use the workload engine and report facts.         *)
(***************************************************************************)
EXTENDS Workload, FiniteSets

CONSTANTS
  Definitions,   \* structure definitions, id and version
  PlacesOf,      \* the places each one requires
  MaxTicks,      \* bound: ticks of an assembly
  None           \* no definition

ASSUME PlacesAssumption == PlacesOf \in [Definitions -> SUBSET Ids]
ASSUME TicksAssumption  == MaxTicks \in Nat \ {0}
ASSUME NoneAssumption   == None \notin Definitions
ASSUME ReasonAssumption == Ids \cap {"truth_home_down", "failed", "refuse"} = {}

Phases == {"empty", "received", "assembling", "ready", "blocked", "invalidated"}

\* Block reasons; a place stands for place_failed:<place>.
Causes  == {"truth_home_down", "failed", "refuse"}
Reasons == Causes \cup Ids

Points == {"idle", "receive", "refuse", "tick", "look", "apply", "launch"}

VARIABLES
  definition,   \* what the engine holds
  phase,
  reasons,      \* _block_reasons
  homeUp,       \* _truth_home_up
  pending,      \* _pending_ensure
  pc,           \* where the assembly is
  wanted,       \* the definition it loads
  force,        \* and whether it voids a ready one
  refused,      \* its surfaces violate the definition
  ticks,        \* ticks left
  todo,         \* places the tick has still to ask about
  work,         \* places it misses; then intents still to apply
  home,         \* fact: the truth home is up
  forgotten,    \* history: a definition was received while it was known down
  fell          \* history: rows that ended since the tick began to look

engine   == <<definition, phase, reasons, homeUp, pending>>
request  == <<wanted, force, refused>>
assembly == <<pc, request, ticks, todo, work>>
facts    == <<home, forgotten>>
seat     == <<engine, assembly, facts>>
vars     == <<workload, seat, fell>>

Init ==
  /\ WorkloadInit
  /\ definition = None /\ phase = "empty" /\ reasons = {} /\ homeUp = TRUE
  /\ pending = {} /\ pc = "idle" /\ wanted = None /\ force = FALSE
  /\ refused = FALSE /\ ticks = 0 /\ todo = {} /\ work = {}
  /\ home = TRUE /\ forgotten = FALSE /\ fell = {}

\* Fault: what was once ensured is ready.
ReadyOnceEnsured(p) == status[p] # "absent"

\* The readiness hand: the book has a row for the place that has not ended.
Ready(p) == Live(p)

\* Fault: the phase alone admits.
AdmittedByPhase == phase = "ready"

\* Admission: may business run?
MayRun == phase = "ready" /\ reasons = {} /\ homeUp

-----------------------------------------------------------------------------
(* StructureSeat.assemble *)

\* assemble first takes back earlier refusals.
Assemble(d, f, r) ==
  /\ pc = "idle"
  /\ wanted' = d /\ force' = f /\ refused' = r
  /\ reasons' = reasons \ {"refuse"}
  /\ ticks' = MaxTicks
  /\ pc' = "receive"
  /\ UNCHANGED <<workload, definition, phase, homeUp, pending, todo, work, facts,
                 fell>>

Same == ~force /\ definition = wanted /\ phase = "ready"

\* A new definition starts from nothing, the facts included; the one that is
\* ready already is left alone.
Receive ==
  /\ pc = "receive"
  /\ force' = FALSE
  /\ pc' = IF refused THEN "refuse" ELSE "tick"
  /\ IF Same
       THEN UNCHANGED <<engine, forgotten>>
       ELSE /\ definition' = wanted
            /\ phase' = IF phase = "ready" THEN "invalidated" ELSE "received"
            /\ reasons' = {} /\ homeUp' = TRUE /\ pending' = {}
            /\ forgotten' = ~home
  /\ UNCHANGED <<workload, wanted, refused, ticks, todo, work, home, fell>>

\* The violations are observed: blocked.
Refuse ==
  /\ pc = "refuse"
  /\ reasons' = reasons \cup {"refuse"}
  /\ phase' = "blocked"
  /\ pc' = "tick"
  /\ UNCHANGED <<workload, definition, homeUp, pending, request, ticks, todo,
                 work, facts, fell>>

\* A tick that cannot go on: the truth home is down, or another reason blocks.
Stuck(others) == ~homeUp \/ (phase = "blocked" /\ others # {})

Tick ==
  /\ pc = "tick"
  /\ LET others == reasons \ {"truth_home_down"} IN
       IF Stuck(others)
         THEN /\ phase' = "blocked"
              /\ reasons' = IF homeUp THEN others
                                      ELSE reasons \cup {"truth_home_down"}
              /\ pc' = "idle" /\ ticks' = 0
              /\ UNCHANGED <<todo, work, fell>>
         ELSE /\ reasons' = others /\ ticks' = ticks - 1 /\ UNCHANGED phase
              /\ todo' = PlacesOf[definition] /\ work' = {} /\ fell' = {}
              /\ pc' = "look"
  /\ UNCHANGED <<workload, definition, homeUp, pending, request, facts>>

Look(p) ==
  /\ pc = "look" /\ p \in todo
  /\ todo' = todo \ {p}
  /\ work' = IF Ready(p) THEN work ELSE work \cup {p}
  /\ UNCHANGED <<workload, engine, pc, request, ticks, facts, fell>>

\* Nothing missing: ready.  Else the missing places not asked for yet are; an
\* assembly that neither asks nor changes anything gives up.
Decide ==
  /\ pc = "look" /\ todo = {}
  /\ IF work = {}
       THEN /\ phase' = "ready" /\ pending' = {} /\ UNCHANGED work
            /\ pc' = "idle" /\ ticks' = 0
       ELSE /\ phase' = "assembling"
            /\ pending' = pending \cup work
            /\ work' = work \ pending
            /\ IF work \subseteq pending /\ phase = "assembling"
                 THEN pc' = "idle" /\ ticks' = 0
                 ELSE pc' = "apply" /\ UNCHANGED ticks
  /\ UNCHANGED <<workload, definition, reasons, homeUp, request, todo, facts,
                 fell>>

-----------------------------------------------------------------------------
(* Effects: PlaceEffectPort and WorkloadPlaceSpawn *)

\* observe of PLACE_READY and PLACE_FAILED.  The step before has read the row;
\* nothing can turn a failed row, or bring a started one back.
PlaceReady(p) ==
  /\ pending' = pending \ {p} /\ reasons' = reasons \ {p} /\ UNCHANGED phase

PlaceFailed(p) ==
  /\ reasons' = reasons \cup {p} /\ phase' = "blocked" /\ UNCHANGED pending

\* ensure finds a row: live or stopped it will do, a failed one will not.
Ensure(p) ==
  /\ pc = "apply" /\ p \in work /\ status[p] # "absent"
  /\ work' = work \ {p}
  /\ IF status[p] = "FAILED" THEN PlaceFailed(p) ELSE PlaceReady(p)
  /\ UNCHANGED <<workload, definition, homeUp, pc, request, ticks, todo, facts,
                 fell>>

\* ensure finds none and goes on to start one.
Miss(p) ==
  /\ pc = "apply" /\ p \in work /\ status[p] = "absent"
  /\ todo' = {p}
  /\ pc' = "launch"
  /\ UNCHANGED <<workload, engine, request, ticks, work, facts, fell>>

\* start raises if no runtime takes the place, or another caller took its id
\* meanwhile.
Launch(p) ==
  /\ pc = "launch" /\ p \in todo
  /\ \/ /\ Start(p)
        /\ IF status'[p] = "FAILED" THEN PlaceFailed(p) ELSE PlaceReady(p)
     \/ PlaceFailed(p) /\ UNCHANGED workload
  /\ todo' = {} /\ work' = work \ {p}
  /\ pc' = "apply"
  /\ UNCHANGED <<definition, homeUp, request, ticks, facts, fell>>

\* All intents are applied: the next tick, if there is one left.
Again ==
  /\ pc = "apply" /\ work = {}
  /\ pc' = IF ticks = 0 THEN "idle" ELSE "tick"
  /\ UNCHANGED <<workload, engine, request, ticks, todo, work, facts, fell>>

-----------------------------------------------------------------------------
(* Other threads *)

\* A fact is folded into the engine when no tick has the lock.
Fold(more, less, next) ==
  /\ pc # "look"
  /\ reasons' = (reasons \cup more) \ less
  /\ phase' = next
  /\ UNCHANGED <<workload, definition, pending, assembly, fell>>

Unready(next) == IF phase = "ready" THEN next ELSE phase

\* Fault: only the reason is noted.
HomeDownNoted ==
  /\ home' = FALSE /\ forgotten' = FALSE /\ UNCHANGED homeUp
  /\ Fold({"truth_home_down"}, {}, Unready("blocked"))

HomeDown ==
  /\ home' = FALSE /\ forgotten' = FALSE /\ homeUp' = FALSE
  /\ Fold({"truth_home_down"}, {}, Unready("blocked"))

HomeUp ==
  /\ home' = TRUE /\ forgotten' = FALSE /\ homeUp' = TRUE
  /\ Fold({}, {"truth_home_down"}, phase)

\* A projection has failed or was loaded, the structure seed has failed or is
\* finished.
Failed ==
  /\ UNCHANGED <<homeUp, facts>>
  /\ \E next \in {"blocked", Unready("blocked")} : Fold({"failed"}, {}, next)

Repaired ==
  /\ UNCHANGED <<homeUp, facts>>
  /\ Fold({}, {"failed"}, phase)

\* PLACE_GONE, and invalidate.
Gone ==
  /\ UNCHANGED <<homeUp, facts>>
  /\ Fold({}, {}, Unready("invalidated"))

Invalidate ==
  /\ definition # None
  /\ UNCHANGED <<homeUp, facts>>
  /\ Fold({}, {}, "invalidated")

\* Anyone uses the workload engine.
UseWorkloads ==
  /\ WorkloadNext
  /\ fell' = fell \cup {w \in Ids : Live(w) /\ status'[w] \in Terminal}
  /\ UNCHANGED seat

Next ==
  \/ \E d \in Definitions, f, r \in BOOLEAN : Assemble(d, f, r)
  \/ Receive \/ Refuse \/ Tick \/ Decide \/ Again
  \/ \E p \in Ids : Look(p) \/ Ensure(p) \/ Miss(p) \/ Launch(p)
  \/ HomeDown \/ HomeUp \/ Failed \/ Repaired \/ Gone \/ Invalidate
  \/ UseWorkloads

Spec == Init /\ [][Next]_vars

-----------------------------------------------------------------------------
(* Properties *)

\* Shape of the state.
TypeOK ==
  /\ WorkloadTypeOK
  /\ definition \in Definitions \cup {None} /\ phase \in Phases
  /\ reasons \subseteq Reasons /\ homeUp \in BOOLEAN /\ pending \subseteq Ids
  /\ pc \in Points /\ wanted \in Definitions \cup {None}
  /\ force \in BOOLEAN /\ refused \in BOOLEAN /\ ticks \in 0 .. MaxTicks
  /\ todo \subseteq Ids /\ work \subseteq Ids
  /\ home \in BOOLEAN /\ forgotten \in BOOLEAN /\ fell \subseteq Ids

\* A definition whose refusal the last assembly found runs no business, however
\* the facts come and go afterwards: a reason outlives every change of phase.
RefusalHolds == pc = "idle" /\ refused => ~MayRun

\* No business while the truth home is down - unless a definition received in
\* the meantime made the engine forget it.
TruthHomeBlocks == MayRun => home \/ forgotten

\* Business on lost ground is business on ground lost since: a place that is
\* not ready under an open admission has ended after the tick began to look.
\* (A tick that looks has the lock: nobody reads the admission.)
ReadyIsGrounded ==
  MayRun /\ pc # "look" =>
    \A p \in PlacesOf[definition] \ fell : Live(p)

=============================================================================
