---------------------------- MODULE SessionPlane ----------------------------
(***************************************************************************)
(* The session plane: sessions of outside subjects, the instances attached *)
(* to each, and the one that has the focus.                                *)
(*                                                                         *)
(* Surfaces in their own threads and the ownership hook in the workers     *)
(* call it, and neither the plane nor its store has a lock: an operation   *)
(* reads a record, decides, and puts the whole record back; the index of   *)
(* sessions and the reverse index from instances to sessions follow, one   *)
(* storage key after the other.  A step is one such access.                *)
(***************************************************************************)
EXTENDS FiniteSets, Naturals, SequencesExt

CONSTANTS
  Sessions,    \* session ids
  Instances,   \* process instances
  Threads,     \* callers of the plane
  MaxCrashes,  \* bound: ends of the process
  None         \* no instance, no session

ASSUME NoneAssumption  == None \notin Sessions \cup Instances
ASSUME CrashAssumption == MaxCrashes \in Nat

Status == {"open", "active", "closed"}

\* A record: its attach list repeats nothing and its focus is on the list.
Attached(r) == Range(r.ids)
WellFormed(r) == IsInjective(r.ids) /\ r.focus \in Attached(r) \cup {None}

Absent  == [status |-> "absent", ids |-> <<>>, focus |-> None]
Records == {r \in [status : Status, ids : Seq(Instances),
                   focus : Instances \cup {None}] : WellFormed(r)}

\* What a thread does next: check the owner of the instance it attaches, write
\* the record, the index of sessions, the entries of the reverse index.
Points == {"idle", "owner", "put", "index", "index_save", "owners", "clear"}

VARIABLES
  entry,      \* palm:session:entry:<session>
  listed,     \* palm:session:index
  owner,      \* palm:session:by_instance:<instance>
  pc,         \* where each thread is
  sid,        \* the session it works on
  inst,       \* the instance it attaches, or clears the owner of
  rec,        \* the record it has read, and is about to write
  seen,       \* the index it has read
  gone,       \* instances its write removed, owner still to be cleared
  held,       \* instances its write lists, owner still to be set
  stale,      \* history: threads that have read what another wrote since
  overtaken,  \* history: a stale thread has written
  cut,        \* history: sessions and instances the process ended in between
  crashes

stored  == <<entry, listed, owner>>
locals  == <<sid, inst, rec, seen, gone, held>>
history == <<stale, overtaken, cut, crashes>>
vars    == <<stored, pc, locals, history>>

AtRest ==
  /\ pc = [t \in Threads |-> "idle"]
  /\ sid = [t \in Threads |-> None]
  /\ inst = [t \in Threads |-> None]
  /\ rec = [t \in Threads |-> Absent]
  /\ seen = [t \in Threads |-> {}]
  /\ gone = [t \in Threads |-> {}]
  /\ held = [t \in Threads |-> {}]
  /\ stale = {}

Init ==
  /\ entry = [s \in Sessions |-> Absent]
  /\ listed = {}
  /\ owner = [i \in Instances |-> None]
  /\ AtRest
  /\ overtaken = FALSE /\ cut = {} /\ crashes = 0

Go(t, point) == pc' = [pc EXCEPT ![t] = point]

\* The operation of t is over.
Leave(t) ==
  /\ Go(t, "idle")
  /\ sid' = [sid EXCEPT ![t] = None]
  /\ inst' = [inst EXCEPT ![t] = None]
  /\ stale' = stale \ {t}

Known(s) == entry[s].status # "absent"
Open(s)  == entry[s].status \in {"open", "active"}

\* t has read s, decided on r, and will write it.
Prepare(t, s, r) ==
  /\ pc[t] = "idle"
  /\ sid' = [sid EXCEPT ![t] = s]
  /\ inst' = [inst EXCEPT ![t] = None]
  /\ rec' = [rec EXCEPT ![t] = r]
  /\ Go(t, "put")
  /\ UNCHANGED <<stored, seen, gone, held, history>>

\* Operations under way that have read the record of s, or depend on the owner
\* of i.
ReadersOf(t, s) == {u \in Threads \ {t} : pc[u] # "idle" /\ sid[u] = s}
TakersOf(t, i)  ==
  {u \in Threads \ {t} : pc[u] # "idle" /\ i \in held[u] \cup {inst[u]}}

-----------------------------------------------------------------------------
(* Operations up to the write: read, check, decide *)

\* Fault: a closed session is opened again.
BeginReopening(t, s) ==
  /\ ~Open(s)
  /\ Prepare(t, s, [status |-> "open", ids |-> <<>>, focus |-> None])

\* open, bind and ensure_service_session of an id nobody has used.
Begin(t, s) ==
  /\ ~Known(s)
  /\ Prepare(t, s, [status |-> "open", ids |-> <<>>, focus |-> None])

\* bind, merge_metadata, replace_metadata, stamp, replace: only the context map
\* changes, but the record that was read is written back as a whole.
Touch(t, s) == Open(s) /\ Prepare(t, s, entry[s])

Close(t, s) == Open(s) /\ Prepare(t, s, [entry[s] EXCEPT !.status = "closed"])

\* attach_instance, up to its look at the reverse index.
Attach(t, s, i) ==
  /\ pc[t] = "idle" /\ Open(s)
  /\ sid' = [sid EXCEPT ![t] = s]
  /\ inst' = [inst EXCEPT ![t] = i]
  /\ rec' = [rec EXCEPT ![t] = entry[s]]
  /\ Go(t, "owner")
  /\ UNCHANGED <<stored, seen, gone, held, history>>

\* The record after attaching i; a listed one only gives a missing focus.
WithInstance(r, i) ==
  IF i \in Attached(r)
    THEN [r EXCEPT !.focus = IF @ = None THEN i ELSE @]
    ELSE [status |-> "active", ids |-> Append(r.ids, i), focus |-> i]

\* Fault: the owner is not looked at.
CheckOwnerBlindly(t) ==
  /\ pc[t] = "owner"
  /\ rec' = [rec EXCEPT ![t] = WithInstance(@, inst[t])]
  /\ Go(t, "put")
  /\ UNCHANGED <<stored, sid, inst, seen, gone, held, history>>

\* Refuses an instance of another session; else the new record is made.
CheckOwner(t) ==
  /\ pc[t] = "owner"
  /\ LET new == WithInstance(rec[t], inst[t]) IN
       IF owner[inst[t]] \in {None, sid[t]} /\ new # rec[t]
         THEN /\ rec' = [rec EXCEPT ![t] = new]
              /\ Go(t, "put")
              /\ UNCHANGED <<sid, inst, stale>>
         ELSE rec' = [rec EXCEPT ![t] = Absent] /\ Leave(t)
  /\ UNCHANGED <<stored, seen, gone, held, overtaken, cut, crashes>>

\* Fault: the focus stays on the instance that leaves.
DetachKeepingFocus(t, s, i) ==
  /\ Known(s) /\ i \in Attached(entry[s])
  /\ Prepare(t, s, [entry[s] EXCEPT !.ids = RemoveFirst(@, i)])

\* detach_instance, also of a closed session; the last one left gets the focus.
Detach(t, s, i) ==
  /\ Known(s) /\ i \in Attached(entry[s])
  /\ LET left == RemoveFirst(entry[s].ids, i)
         next == IF left = <<>> THEN None ELSE Last(left)
     IN Prepare(t, s, [status |-> entry[s].status, ids |-> left,
                       focus |-> IF entry[s].focus = i THEN next
                                                       ELSE entry[s].focus])

\* set_active_instance and clear_active_instance.
Focus(t, s, i) ==
  /\ Open(s) /\ i \in Attached(entry[s]) \ {entry[s].focus}
  /\ Prepare(t, s, [entry[s] EXCEPT !.focus = i])

Unfocus(t, s) ==
  /\ Open(s) /\ entry[s].focus # None
  /\ Prepare(t, s, [entry[s] EXCEPT !.focus = None])

-----------------------------------------------------------------------------
(* SessionStore.put *)

Written(t, readers) ==
  /\ overtaken' = (overtaken \/ t \in stale)
  /\ stale' = stale \cup readers

\* put reads the record once more to see what it removes, and writes it.  A
\* write of another thread between the two is one that made t stale.
PutEntry(t) ==
  /\ pc[t] = "put"
  /\ entry' = [entry EXCEPT ![sid[t]] = rec[t]]
  /\ gone' = [gone EXCEPT ![t] = Attached(entry[sid[t]]) \ Attached(rec[t])]
  /\ held' = [held EXCEPT ![t] = Attached(rec[t])]
  /\ inst' = [inst EXCEPT ![t] = None]
  /\ rec' = [rec EXCEPT ![t] = Absent]
  /\ Written(t, ReadersOf(t, sid[t]))
  /\ Go(t, "index")
  /\ UNCHANGED <<listed, owner, sid, seen, cut, crashes>>

IndexLoad(t) ==
  /\ pc[t] = "index"
  /\ IF sid[t] \in listed
       THEN Go(t, "owners") /\ UNCHANGED seen
       ELSE Go(t, "index_save") /\ seen' = [seen EXCEPT ![t] = listed]
  /\ UNCHANGED <<stored, sid, inst, rec, gone, held, history>>

IndexSave(t) ==
  /\ pc[t] = "index_save"
  /\ listed' = seen[t] \cup {sid[t]}
  /\ overtaken' = (overtaken \/ t \in stale \/ listed # seen[t])
  /\ seen' = [seen EXCEPT ![t] = {}]
  /\ Go(t, "owners")
  /\ UNCHANGED <<entry, owner, sid, inst, rec, gone, held, stale, cut, crashes>>

\* _clear_instance_owner looks whose the instance is ...
FindGone(t, i) ==
  /\ pc[t] = "owners" /\ i \in gone[t]
  /\ gone' = [gone EXCEPT ![t] = @ \ {i}]
  /\ IF owner[i] \in {None, sid[t]}
       THEN Go(t, "clear") /\ inst' = [inst EXCEPT ![t] = i]
       ELSE UNCHANGED <<pc, inst>>
  /\ UNCHANGED <<stored, sid, rec, seen, held, history>>

\* ... and deletes the key.
ClearOwner(t) ==
  /\ pc[t] = "clear"
  /\ owner' = [owner EXCEPT ![inst[t]] = None]
  /\ inst' = [inst EXCEPT ![t] = None]
  /\ Written(t, TakersOf(t, inst[t]))
  /\ Go(t, "owners")
  /\ UNCHANGED <<entry, listed, sid, rec, seen, gone, held, cut, crashes>>

\* _set_instance_owner of a listed instance, whoever has it.
SetOwner(t, i) ==
  /\ pc[t] = "owners" /\ gone[t] = {} /\ i \in held[t]
  /\ owner' = [owner EXCEPT ![i] = sid[t]]
  /\ held' = [held EXCEPT ![t] = @ \ {i}]
  /\ Written(t, TakersOf(t, i))
  /\ UNCHANGED <<entry, listed, pc, sid, inst, rec, seen, gone, cut, crashes>>

Return(t) ==
  /\ pc[t] = "owners" /\ gone[t] = {} /\ held[t] = {}
  /\ Leave(t)
  /\ UNCHANGED <<stored, rec, seen, gone, held, overtaken, cut, crashes>>

-----------------------------------------------------------------------------
\* Keys of the put of t that are not written yet.
Unwritten(t) ==
  gone[t] \cup held[t]
    \cup (IF pc[t] = "clear" THEN {inst[t]} ELSE {})
    \cup (IF pc[t] \in {"index", "index_save"} THEN {sid[t]} ELSE {})

\* The process ends; the storage stays.
Crash ==
  /\ crashes < MaxCrashes
  /\ crashes' = crashes + 1
  /\ cut' = cut \cup UNION {Unwritten(t) : t \in Threads}
  /\ pc' = [t \in Threads |-> "idle"]
  /\ sid' = [t \in Threads |-> None]
  /\ inst' = [t \in Threads |-> None]
  /\ rec' = [t \in Threads |-> Absent]
  /\ seen' = [t \in Threads |-> {}]
  /\ gone' = [t \in Threads |-> {}]
  /\ held' = [t \in Threads |-> {}]
  /\ stale' = {}
  /\ UNCHANGED <<stored, overtaken>>

Call(t) ==
  \E s \in Sessions :
    \/ Begin(t, s) \/ Touch(t, s) \/ Close(t, s) \/ Unfocus(t, s)
    \/ \E i \in Instances : Attach(t, s, i) \/ Detach(t, s, i) \/ Focus(t, s, i)

Continue(t) ==
  \/ CheckOwner(t) \/ PutEntry(t) \/ IndexLoad(t) \/ IndexSave(t)
  \/ ClearOwner(t) \/ Return(t)
  \/ \E i \in Instances : FindGone(t, i) \/ SetOwner(t, i)

Next == (\E t \in Threads : Call(t) \/ Continue(t)) \/ Crash

Spec == Init /\ [][Next]_vars

-----------------------------------------------------------------------------
(* Properties *)

\* Shape of the state.  Whatever threads do to each other, a stored record is
\* well formed: its focus is one of its own instances.
TypeOK ==
  /\ entry \in [Sessions -> Records \cup {Absent}]
  /\ listed \subseteq Sessions
  /\ owner \in [Instances -> Sessions \cup {None}]
  /\ pc \in [Threads -> Points]
  /\ sid \in [Threads -> Sessions \cup {None}]
  /\ inst \in [Threads -> Instances \cup {None}]
  /\ rec \in [Threads -> Records \cup {Absent}]
  /\ seen \in [Threads -> SUBSET Sessions]
  /\ gone \in [Threads -> SUBSET Instances]
  /\ held \in [Threads -> SUBSET Instances]
  /\ stale \subseteq Threads /\ overtaken \in BOOLEAN
  /\ cut \subseteq Sessions \cup Instances /\ crashes \in Nat

\* An instance belongs to exactly the session that lists it, so to one at most,
\* and every session is found by a listing - but for keys some put has still to
\* write or the process ended before, and as long as no thread writes what it
\* decided on a record or an owner that another has changed since.
IndexesAgree ==
  overtaken \/ LET spared == cut \cup UNION {Unwritten(t) : t \in Threads} IN
    /\ \A i \in Instances \ spared, s \in Sessions :
         i \in Attached(entry[s]) <=> owner[i] = s
    /\ \A s \in Sessions \ spared : Known(s) => s \in listed

\* bind never silently reopens: a closed session stays closed, unless a thread
\* writes back the record it read before the close.
ClosedIsFinal ==
  [][\A s \in Sessions : entry[s].status = "closed"
       => entry'[s].status = "closed" \/ overtaken']_vars

=============================================================================
