------------------------- MODULE SessionPlaneProofs -------------------------
(***************************************************************************)
(* Proofs about the session plane, for any number of sessions, instances   *)
(* and callers.                                                            *)
(*                                                                         *)
(* As long as no thread has written what it decided on a value changed     *)
(* since, a thread that is not stale knows what it needs of the record and *)
(* of the owners (Fit), and what the keys disagree about is still on some  *)
(* thread's list - or the owner is about to be written by a stale thread.  *)
(***************************************************************************)
EXTENDS SessionPlane, IndexLemmas

-----------------------------------------------------------------------------
(* Records *)

LEMMA AttachedType ==
  ASSUME NEW r \in Records \cup {Absent}
  PROVE  Attached(r) \subseteq Instances
<1>1. CASE r \in Records
  BY <1>1 DEF Records, Attached, Range
<1>2. CASE r = Absent
  <2>1. r.ids = <<>>
    BY <1>2 DEF Absent
  <2> QED BY <2>1, EmptySeq DEF Attached, Range
<1> QED
  BY <1>1, <1>2

LEMMA EmptyRecord ==
  LET r == [status |-> "open", ids |-> <<>>, focus |-> None]
  IN  r \in Records /\ Attached(r) = {}
  BY EmptySeq DEF Records, WellFormed, Attached, IsInjective, Range, Status

LEMMA StatusRecord ==
  ASSUME NEW r \in Records, NEW s \in Status
  PROVE  LET new == [r EXCEPT !.status = s]
         IN  new \in Records /\ Attached(new) = Attached(r) /\ new.status = s
  BY DEF Records, WellFormed, Attached

LEMMA FocusRecord ==
  ASSUME NEW r \in Records, NEW f \in Attached(r) \cup {None}
  PROVE  LET new == [r EXCEPT !.focus = f]
         IN  /\ new \in Records /\ Attached(new) = Attached(r)
             /\ new.status = r.status
<1>1. f \in Instances \cup {None}
  BY AttachedType
<1> QED
  BY <1>1 DEF Records, WellFormed, Attached

LEMMA WithInstanceRecord ==
  ASSUME NEW r \in Records, NEW i \in Instances
  PROVE  /\ WithInstance(r, i) \in Records
         /\ Attached(WithInstance(r, i)) \subseteq Attached(r) \cup {i}
<1>1. CASE i \in Attached(r)
  <2>1. \E f \in Attached(r) \cup {None} : WithInstance(r, i) = [r EXCEPT !.focus = f]
    BY <1>1 DEF WithInstance, Records, WellFormed
  <2> QED BY <2>1, FocusRecord
<1>2. CASE i \notin Attached(r)
  <2>1. r.ids \in Seq(Instances) /\ IsInjective(r.ids) /\ i \notin Range(r.ids)
    BY <1>2 DEF Records, WellFormed, Attached
  <2>2. /\ Append(r.ids, i) \in Seq(Instances) /\ IsInjective(Append(r.ids, i))
        /\ Range(Append(r.ids, i)) = Range(r.ids) \cup {i}
    BY <2>1, AppendNew
  <2>3. WithInstance(r, i) = [status |-> "active", ids |-> Append(r.ids, i), focus |-> i]
    BY <1>2 DEF WithInstance
  <2> DEFINE ids == Append(r.ids, i)
  <2> HIDE DEF ids
  <2>4. ids \in Seq(Instances) /\ IsInjective(ids) /\ Range(ids) = Range(r.ids) \cup {i}
    BY <2>2 DEF ids
  <2>5. WithInstance(r, i) = [status |-> "active", ids |-> ids, focus |-> i]
    BY <2>3 DEF ids
  <2> QED
    BY <2>4, <2>5 DEF Records, WellFormed, Attached, Status
<1> QED BY <1>1, <1>2

LEMMA DetachRecord ==
  ASSUME NEW r \in Records, NEW i
  PROVE  LET left == RemoveFirst(r.ids, i)
             next == IF left = <<>> THEN None ELSE Last(left)
             new  == [status |-> r.status, ids |-> left,
                      focus |-> IF r.focus = i THEN next ELSE r.focus]
         IN  /\ new \in Records /\ Attached(new) = Attached(r) \ {i}
             /\ new.status = r.status
<1> DEFINE left == RemoveFirst(r.ids, i)
           next == IF left = <<>> THEN None ELSE Last(left)
           new  == [status |-> r.status, ids |-> left,
                    focus |-> IF r.focus = i THEN next ELSE r.focus]
<1>1. /\ r.ids \in Seq(Instances) /\ IsInjective(r.ids) /\ r.status \in Status
      /\ r.focus \in Range(r.ids) \cup {None}
  BY DEF Records, WellFormed, Attached
<1>2. /\ left \in Seq(Instances) /\ IsInjective(left)
      /\ Range(left) = Range(r.ids) \ {i}
  BY <1>1, RemoveFromDistinct
<1> HIDE DEF left
<1>3. left # <<>> => Last(left) \in Range(left)
  <2>1. left # <<>> => Len(left) \in 1 .. Len(left)
    BY <1>2, EmptySeq
  <2> QED BY <1>2, <2>1 DEF Last, Range
<1>4. new.focus \in Range(left) \cup {None}
  BY <1>1, <1>2, <1>3
<1>5. Range(left) \subseteq Instances
  BY <1>2 DEF Range
<1>6. new \in Records /\ Attached(new) = Range(left) /\ new.status = r.status
  BY <1>1, <1>2, <1>4, <1>5 DEF Records, WellFormed, Attached
<1> QED
  BY <1>1, <1>2, <1>6 DEF left, Attached

LEMMA KnownRecord ==
  ASSUME TypeOK, NEW s \in Sessions, Known(s)
  PROVE  entry[s] \in Records
  BY DEF TypeOK, Known, Absent

-----------------------------------------------------------------------------
(* Type correctness *)

\* What each point relies on.
Working ==
  \A t \in Threads :
    /\ pc[t] # "idle" => sid[t] \in Sessions
    /\ pc[t] \in {"owner", "clear"} => inst[t] \in Instances
    /\ pc[t] \in {"idle", "owner", "put"} => gone[t] = {} /\ held[t] = {}
    /\ pc[t] \in {"owner", "put"} => rec[t] \in Records
    /\ t \in stale => pc[t] # "idle"

TypeInv == TypeOK /\ Working

LEMMA TypeInit == Init => TypeInv
<1> SUFFICES ASSUME Init PROVE TypeInv
  OBVIOUS
<1>1. pc \in [Threads -> Points] /\ \A t \in Threads : pc[t] = "idle"
  BY DEF Init, AtRest, Points
<1>2. /\ rec \in [Threads -> Records \cup {Absent}]
      /\ entry \in [Sessions -> Records \cup {Absent}]
  BY DEF Init, AtRest
<1>3. \A t \in Threads : gone[t] = {} /\ held[t] = {}
  BY DEF Init, AtRest
<1>4. /\ gone \in [Threads -> SUBSET Instances]
      /\ held \in [Threads -> SUBSET Instances]
      /\ seen \in [Threads -> SUBSET Sessions]
      /\ sid \in [Threads -> Sessions \cup {None}]
      /\ inst \in [Threads -> Instances \cup {None}]
      /\ owner \in [Instances -> Sessions \cup {None}]
  BY DEF Init, AtRest
<1> QED
  BY <1>1, <1>2, <1>3, <1>4 DEF Init, AtRest, TypeInv, TypeOK, Working

\* An operation that has decided.
LEMMA PrepareTypes ==
  ASSUME TypeInv, NEW t \in Threads, NEW s \in Sessions, NEW r \in Records,
         Prepare(t, s, r)
  PROVE  TypeInv'
  BY DEF Prepare, Go, TypeInv, TypeOK, Working, Points, stored, history

\* What an operation has decided: a record of the session that lists nothing
\* new, and is closed if the session is.
LEMMA CallPrepares ==
  ASSUME TypeInv, NEW t \in Threads, NEW s \in Sessions,
         \/ Begin(t, s) \/ Touch(t, s) \/ Close(t, s) \/ Unfocus(t, s)
         \/ \E i \in Instances : Detach(t, s, i) \/ Focus(t, s, i)
  PROVE  \E r \in Records :
           /\ Prepare(t, s, r)
           /\ Attached(r) \subseteq Attached(entry[s])
           /\ entry[s].status = "closed" => r.status = "closed"
<1> USE DEF Open
<1>1. Known(s) => entry[s] \in Records
  BY KnownRecord DEF TypeInv
<1>2. CASE Begin(t, s)
  <2>1. entry[s].status # "closed"
    BY <1>2 DEF Begin, Known
  <2> QED BY <1>2, <2>1, EmptyRecord DEF Begin
<1>3. CASE Touch(t, s)
  BY <1>1, <1>3 DEF Touch, Known
<1>4. CASE Close(t, s)
  BY <1>1, <1>4, StatusRecord DEF Close, Known, Status
<1>5. CASE Unfocus(t, s)
  BY <1>1, <1>5, FocusRecord DEF Unfocus, Known
<1>6. ASSUME NEW i \in Instances, Detach(t, s, i)
      PROVE  \E r \in Records :
               /\ Prepare(t, s, r)
               /\ Attached(r) \subseteq Attached(entry[s])
               /\ entry[s].status = "closed" => r.status = "closed"
  <2> DEFINE left == RemoveFirst(entry[s].ids, i)
             next == IF left = <<>> THEN None ELSE Last(left)
             new  == [status |-> entry[s].status, ids |-> left,
                      focus |-> IF entry[s].focus = i THEN next
                                                      ELSE entry[s].focus]
  <2>1. Prepare(t, s, new) /\ entry[s] \in Records
    BY <1>1, <1>6 DEF Detach
  <2>2. /\ new \in Records /\ Attached(new) = Attached(entry[s]) \ {i}
        /\ new.status = entry[s].status
    BY <2>1, DetachRecord
  <2> HIDE DEF new
  <2> QED BY <2>1, <2>2
<1>7. ASSUME NEW i \in Instances, Focus(t, s, i)
      PROVE  \E r \in Records :
               /\ Prepare(t, s, r)
               /\ Attached(r) \subseteq Attached(entry[s])
               /\ entry[s].status = "closed" => r.status = "closed"
  BY <1>1, <1>7, FocusRecord DEF Focus, Known
<1> QED
  BY <1>2, <1>3, <1>4, <1>5, <1>6, <1>7

LEMMA TypeStep == TypeInv /\ [Next]_vars => TypeInv'
<1> SUFFICES ASSUME TypeInv, [Next]_vars
             PROVE  TypeInv'
  OBVIOUS
<1> USE DEF TypeInv, TypeOK, Working, Points, Go, stored, locals, history
<1>1. ASSUME NEW t \in Threads, NEW s \in Sessions,
             \/ Begin(t, s) \/ Touch(t, s) \/ Close(t, s) \/ Unfocus(t, s)
             \/ \E i \in Instances : Detach(t, s, i) \/ Focus(t, s, i)
      PROVE  TypeInv'
  BY <1>1, CallPrepares, PrepareTypes
<1>2. ASSUME NEW t \in Threads, NEW s \in Sessions, NEW i \in Instances,
             Attach(t, s, i)
      PROVE  TypeInv'
  <2>1. entry[s] \in Records
    BY <1>2, KnownRecord DEF Attach, Open, Known
  <2> QED BY <1>2, <2>1 DEF Attach
<1>3. ASSUME NEW t \in Threads, CheckOwner(t)
      PROVE  TypeInv'
  <2>1. WithInstance(rec[t], inst[t]) \in Records
    BY <1>3, WithInstanceRecord DEF CheckOwner
  <2> DEFINE new == WithInstance(rec[t], inst[t])
  <2> HIDE DEF new
  <2>2. CASE rec' = [rec EXCEPT ![t] = new] /\ Go(t, "put") /\ UNCHANGED <<sid, inst, stale>>
    BY <1>3, <2>1, <2>2 DEF CheckOwner, new
  <2>3. CASE rec' = [rec EXCEPT ![t] = Absent] /\ Leave(t)
    BY <1>3, <2>3 DEF CheckOwner, Leave
  <2> QED BY <1>3, <2>2, <2>3 DEF CheckOwner, new
<1>4. ASSUME NEW t \in Threads, PutEntry(t)
      PROVE  TypeInv'
  <2>1. /\ Attached(rec[t]) \subseteq Instances
        /\ Attached(entry[sid[t]]) \subseteq Instances
    BY <1>4, AttachedType DEF PutEntry
  <2>2. stale' = stale \cup ReadersOf(t, sid[t])
    BY <1>4 DEF PutEntry, Written
  <2>3. pc[t] = "put" /\ pc' = [pc EXCEPT ![t] = "index"]
    BY <1>4 DEF PutEntry
  <2>4. overtaken' \in BOOLEAN
    BY <1>4 DEF PutEntry, Written
  <2>5. stale' \subseteq Threads /\ \A u \in stale' : pc'[u] # "idle"
    BY <2>2, <2>3 DEF ReadersOf
  <2>6. entry' = [entry EXCEPT ![sid[t]] = rec[t]] /\ rec[t] \in Records
        /\ sid[t] \in Sessions
    BY <1>4 DEF PutEntry
  <2> QED BY <1>4, <2>1, <2>3, <2>4, <2>5, <2>6 DEF PutEntry
<1>5. ASSUME NEW t \in Threads, IndexLoad(t)
      PROVE  TypeInv'
  BY <1>5 DEF IndexLoad
<1>6. ASSUME NEW t \in Threads, IndexSave(t)
      PROVE  TypeInv'
  BY <1>6 DEF IndexSave
<1>7. ASSUME NEW t \in Threads, NEW i \in Instances, FindGone(t, i)
      PROVE  TypeInv'
  BY <1>7 DEF FindGone
<1>8. ASSUME NEW t \in Threads, ClearOwner(t)
      PROVE  TypeInv'
  <2>1. stale' = stale \cup TakersOf(t, inst[t]) /\ overtaken' \in BOOLEAN
    BY <1>8 DEF ClearOwner, Written
  <2>2. pc[t] = "clear" /\ pc' = [pc EXCEPT ![t] = "owners"]
    BY <1>8 DEF ClearOwner
  <2>3. stale' \subseteq Threads /\ \A u \in stale' : pc'[u] # "idle"
    BY <2>1, <2>2 DEF TakersOf
  <2> QED BY <1>8, <2>1, <2>2, <2>3 DEF ClearOwner
<1>9. ASSUME NEW t \in Threads, NEW i \in Instances, SetOwner(t, i)
      PROVE  TypeInv'
  <2>1. stale' = stale \cup TakersOf(t, i) /\ overtaken' \in BOOLEAN
    BY <1>9 DEF SetOwner, Written
  <2>2. stale' \subseteq Threads /\ \A u \in stale' : pc'[u] # "idle"
    BY <1>9, <2>1 DEF SetOwner, TakersOf
  <2> QED BY <1>9, <2>1, <2>2 DEF SetOwner
<1>10. ASSUME NEW t \in Threads, Return(t)
       PROVE  TypeInv'
  BY <1>10 DEF Return, Leave
<1>11. CASE Crash
  <2>1. UNION {Unwritten(t) : t \in Threads} \subseteq Sessions \cup Instances
    BY DEF Unwritten
  <2> QED BY <1>11, <2>1, CrashAssumption DEF Crash
<1>12. CASE UNCHANGED vars
  BY <1>12 DEF vars
<1> QED
  BY <1>1, <1>2, <1>3, <1>4, <1>5, <1>6, <1>7, <1>8, <1>9, <1>10, <1>11, <1>12
  DEF Next, Call, Continue

\* Whatever threads do to each other, a stored record is well formed.
THEOREM SessionTypeCorrect == Spec => []TypeOK
<1>1. TypeInv => TypeOK
  BY DEF TypeInv
<1> QED
  BY <1>1, TypeInit, TypeStep, PTL DEF Spec

-----------------------------------------------------------------------------
(* The indexes *)

\* A stale thread is about to write the owner of i.
Doomed(i) ==
  \E u \in stale : i \in held[u] \/ (pc[u] = "clear" /\ inst[u] = i)

Free(t, i) == owner[i] \in {None, sid[t]} \/ Doomed(i)

Holds(t, s, i)  == sid[t] = s /\ i \in held[t]
Drops(t, s, i)  == sid[t] = s /\ (i \in gone[t] \/ (pc[t] = "clear" /\ inst[t] = i))
Enters(t, s)    == sid[t] = s /\ pc[t] \in {"index", "index_save"}

ListedIsOwned ==
  \A i \in Instances \ cut, s \in Sessions :
    i \in Attached(entry[s])
      => owner[i] = s \/ Doomed(i) \/ \E t \in Threads : Holds(t, s, i)

OwnedIsListed ==
  \A i \in Instances \ cut, s \in Sessions :
    owner[i] = s
      => i \in Attached(entry[s]) \/ Doomed(i) \/ \E t \in Threads : Drops(t, s, i)

AllListed ==
  \A s \in Sessions \ cut :
    Known(s) => s \in listed \/ \E t \in Threads : Enters(t, s)

\* What a thread that is not stale knows.
Fit(t) ==
  /\ pc[t] = "owner" => rec[t] = entry[sid[t]] /\ entry[sid[t]].status # "closed"
  /\ pc[t] = "put" =>
       /\ entry[sid[t]].status = "closed" => rec[t].status = "closed"
       /\ \A i \in Attached(rec[t]) : /\ i \in cut \/ Free(t, i)
                                      /\ i \in Attached(entry[sid[t]]) \/ i = inst[t]
  /\ \A i \in gone[t] : i \notin Attached(entry[sid[t]])
  /\ pc[t] = "clear" => /\ inst[t] \notin Attached(entry[sid[t]])
                        /\ inst[t] \in cut \/ owner[inst[t]] \in {None, sid[t]}
  /\ \A i \in held[t] : i \in Attached(entry[sid[t]]) /\ (i \in cut \/ Free(t, i))

AllFit == \A t \in Threads \ stale : Fit(t)

Agreed == ListedIsOwned /\ OwnedIsListed /\ AllListed /\ AllFit

\* A step of t leaves the others what they know of, and stale if they are.
OthersKeep(t) ==
  \A u \in Threads \ {t} :
    /\ pc'[u] = pc[u] /\ sid'[u] = sid[u] /\ inst'[u] = inst[u]
    /\ rec'[u] = rec[u] /\ gone'[u] = gone[u] /\ held'[u] = held[u]
    /\ u \in stale => u \in stale'

LEMMA DoomedStays ==
  ASSUME TypeInv, NEW t \in Threads, OthersKeep(t), NEW i, Doomed(i),
         \/ t \notin stale
         \/ /\ pc[t] # "clear" /\ held'[t] = held[t]
            /\ t \in stale' \/ held[t] = {}
  PROVE  Doomed(i)'
<1>1. PICK u \in stale : i \in held[u] \/ (pc[u] = "clear" /\ inst[u] = i)
  BY DEF Doomed
<1>2. u \in Threads
  BY DEF TypeInv, TypeOK
<1>3. CASE u # t
  BY <1>1, <1>2, <1>3 DEF OthersKeep, Doomed
<1>4. CASE u = t
  BY <1>1, <1>4 DEF Doomed
<1> QED BY <1>3, <1>4

\* What a record lists may be attached by whoever works on it.
LEMMA ListedIsFree ==
  ASSUME TypeInv, Agreed, NEW s \in Sessions, NEW i \in Attached(entry[s])
  PROVE  i \in cut \/ owner[i] \in {None, s} \/ Doomed(i)
<1>1. i \in Instances
  BY AttachedType DEF TypeInv, TypeOK
<1>2. ASSUME NEW t \in Threads, Holds(t, s, i)
      PROVE  i \in cut \/ owner[i] \in {None, s} \/ Doomed(i)
  <2>1. CASE t \in stale
    BY <1>2, <2>1 DEF Holds, Doomed
  <2>2. CASE t \notin stale
    BY <1>2, <2>2 DEF Agreed, AllFit, Fit, Free, Holds
  <2> QED BY <2>1, <2>2
<1> QED
  BY <1>1, <1>2 DEF Agreed, ListedIsOwned

\* Steps that write nothing.
Calm(t) ==
  /\ UNCHANGED <<entry, listed, owner, cut>>
  /\ OthersKeep(t)
  /\ pc[t] # "clear"
  /\ held'[t] = held[t]
  /\ t \in stale => t \in stale' \/ held[t] = {}
  /\ held[t] # {} => sid'[t] = sid[t]
  /\ \A i \in gone[t] :
       owner[i] = sid[t]
         => sid'[t] = sid[t] /\ (i \in gone'[t] \/ (pc'[t] = "clear" /\ inst'[t] = i))
  /\ pc[t] \in {"index", "index_save"}
       => sid[t] \in listed \/ (sid'[t] = sid[t] /\ pc'[t] = "index_save")

LEMMA CalmStep ==
  ASSUME TypeInv, Agreed, NEW t \in Threads, Calm(t), t \notin stale' => Fit(t)'
  PROVE  Agreed'
<1>1. ASSUME NEW i, Doomed(i) PROVE Doomed(i)'
  BY <1>1, DoomedStays DEF Calm
<1>2. ListedIsOwned'
  <2>1. ASSUME NEW u \in Threads, NEW s, NEW i, Holds(u, s, i)
        PROVE  Holds(u, s, i)'
    BY <2>1 DEF Holds, Calm, OthersKeep
  <2> QED BY <1>1, <2>1 DEF Agreed, ListedIsOwned, Calm
<1>3. OwnedIsListed'
  <2>1. ASSUME NEW u \in Threads, NEW s, NEW i, owner[i] = s, Drops(u, s, i)
        PROVE  Drops(u, s, i)'
    BY <2>1 DEF Drops, Calm, OthersKeep
  <2> QED BY <1>1, <2>1 DEF Agreed, OwnedIsListed, Calm
<1>4. AllListed'
  <2>1. ASSUME NEW u \in Threads, NEW s, s \notin listed, Enters(u, s)
        PROVE  Enters(u, s)'
    BY <2>1 DEF Enters, Calm, OthersKeep
  <2> QED BY <2>1 DEF Agreed, AllListed, Calm, Known
<1>5. ASSUME NEW u \in Threads \ stale', u # t
      PROVE  Fit(u)'
  <2>1. Fit(u)
    BY <1>5 DEF Agreed, AllFit, Calm, OthersKeep
  <2>2. ASSUME NEW i, Free(u, i) PROVE Free(u, i)'
    BY <1>1, <1>5, <2>2 DEF Free, Calm, OthersKeep
  <2> QED BY <1>5, <2>1, <2>2 DEF Fit, Calm, OthersKeep
<1> QED
  BY <1>2, <1>3, <1>4, <1>5 DEF Agreed, AllFit

LEMMA PrepareAgrees ==
  ASSUME TypeInv, Agreed, NEW t \in Threads, NEW s \in Sessions, NEW r \in Records,
         Prepare(t, s, r), Attached(r) \subseteq Attached(entry[s]),
         entry[s].status = "closed" => r.status = "closed"
  PROVE  Agreed'
<1>1. /\ pc' = [pc EXCEPT ![t] = "put"] /\ sid' = [sid EXCEPT ![t] = s]
      /\ inst' = [inst EXCEPT ![t] = None] /\ rec' = [rec EXCEPT ![t] = r]
      /\ UNCHANGED <<entry, listed, owner, gone, held, stale, cut>>
      /\ pc[t] = "idle" /\ gone[t] = {} /\ held[t] = {} /\ t \notin stale
  BY DEF Prepare, Go, stored, history, TypeInv, Working
<1>2. Calm(t)
  BY <1>1 DEF Calm, OthersKeep, TypeInv, TypeOK
<1>3. ASSUME NEW i \in Attached(r)
      PROVE  i \in cut \/ Free(t, i)'
  <2>1. i \in cut \/ owner[i] \in {None, s} \/ Doomed(i)
    BY ListedIsFree
  <2>2. Doomed(i) => Doomed(i)'
    BY <1>1, <1>2, DoomedStays DEF Calm
  <2> QED BY <1>1, <2>1, <2>2 DEF Free, TypeInv, TypeOK
<1>4. Fit(t)'
  BY <1>1, <1>3 DEF Fit, TypeInv, TypeOK
<1> QED BY <1>2, <1>4, CalmStep

LEMMA AttachAgrees ==
  ASSUME TypeInv, Agreed, NEW t \in Threads, NEW s \in Sessions,
         NEW i \in Instances, Attach(t, s, i)
  PROVE  Agreed'
<1>1. /\ pc' = [pc EXCEPT ![t] = "owner"] /\ sid' = [sid EXCEPT ![t] = s]
      /\ inst' = [inst EXCEPT ![t] = i] /\ rec' = [rec EXCEPT ![t] = entry[s]]
      /\ UNCHANGED <<entry, listed, owner, gone, held, stale, cut>>
      /\ pc[t] = "idle" /\ gone[t] = {} /\ held[t] = {} /\ t \notin stale
  BY DEF Attach, Go, stored, history, TypeInv, Working
<1>2. Calm(t)
  BY <1>1 DEF Calm, OthersKeep, TypeInv, TypeOK
<1>3. Fit(t)'
  BY <1>1 DEF Fit, TypeInv, TypeOK, Attach, Open
<1> QED BY <1>2, <1>3, CalmStep

LEMMA CheckOwnerAgrees ==
  ASSUME TypeInv, Agreed, NEW t \in Threads, CheckOwner(t)
  PROVE  Agreed'
<1> DEFINE new == WithInstance(rec[t], inst[t])
<1>0. /\ pc[t] = "owner" /\ sid[t] \in Sessions /\ inst[t] \in Instances
      /\ rec[t] \in Records /\ gone[t] = {} /\ held[t] = {}
      /\ UNCHANGED <<entry, listed, owner, gone, held, cut>>
  BY DEF CheckOwner, TypeInv, Working, stored
<1>1. CASE /\ owner[inst[t]] \in {None, sid[t]}
           /\ rec' = [rec EXCEPT ![t] = new] /\ Go(t, "put")
           /\ UNCHANGED <<sid, inst, stale>>
  <2>1. Attached(new) \subseteq Attached(rec[t]) \cup {inst[t]}
    BY <1>0, WithInstanceRecord
  <2> HIDE DEF new
  <2>2. pc' = [pc EXCEPT ![t] = "put"]
    BY <1>1 DEF Go
  <2>3. Calm(t)
    BY <1>0, <1>1, <2>2 DEF Calm, OthersKeep, TypeInv, TypeOK
  <2>4. CASE t \in stale
    BY <1>1, <2>3, <2>4, CalmStep
  <2>5. CASE t \notin stale
    <3>1. rec[t] = entry[sid[t]] /\ entry[sid[t]].status # "closed"
      BY <1>0, <2>5 DEF Agreed, AllFit, Fit
    <3>2. ASSUME NEW i \in Attached(new)
          PROVE  /\ i \in cut \/ Free(t, i)'
                 /\ i \in Attached(entry[sid[t]]) \/ i = inst[t]
      <4>1. i = inst[t] \/ i \in Attached(entry[sid[t]])
        BY <2>1, <3>1
      <4>2. i \in cut \/ owner[i] \in {None, sid[t]} \/ Doomed(i)
        BY <1>0, <1>1, <4>1, ListedIsFree
      <4>3. Doomed(i) => Doomed(i)'
        BY <2>3, <2>5, DoomedStays DEF Calm
      <4> QED BY <1>0, <1>1, <4>1, <4>2, <4>3 DEF Free
    <3>3. Fit(t)'
      BY <1>0, <1>1, <2>2, <3>1, <3>2 DEF Fit, TypeInv, TypeOK
    <3> QED BY <2>3, <3>3, CalmStep
  <2> QED BY <2>4, <2>5
<1>2. CASE Leave(t) /\ rec' = [rec EXCEPT ![t] = Absent]
  <2>1. /\ pc' = [pc EXCEPT ![t] = "idle"] /\ sid' = [sid EXCEPT ![t] = None]
        /\ inst' = [inst EXCEPT ![t] = None] /\ stale' = stale \ {t}
    BY <1>2 DEF Leave, Go
  <2>2. Calm(t)
    BY <1>0, <1>2, <2>1 DEF Calm, OthersKeep, TypeInv, TypeOK
  <2>3. Fit(t)'
    BY <1>0, <2>1 DEF Fit, TypeInv, TypeOK
  <2> QED BY <2>2, <2>3, CalmStep
<1> QED BY <1>1, <1>2 DEF CheckOwner

LEMMA IndexLoadAgrees ==
  ASSUME TypeInv, Agreed, NEW t \in Threads, IndexLoad(t)
  PROVE  Agreed'
<1>1. /\ pc[t] = "index"
      /\ \/ sid[t] \in listed /\ pc' = [pc EXCEPT ![t] = "owners"]
         \/ pc' = [pc EXCEPT ![t] = "index_save"]
      /\ UNCHANGED <<entry, listed, owner, sid, inst, rec, gone, held, stale, cut>>
  BY DEF IndexLoad, Go, stored, history
<1>2. Calm(t)
  BY <1>1 DEF Calm, OthersKeep, TypeInv, TypeOK
<1>3. ASSUME t \notin stale' PROVE Fit(t)'
  <2>1. Fit(t)
    BY <1>1, <1>3 DEF Agreed, AllFit
  <2>2. ASSUME NEW i, Free(t, i) PROVE Free(t, i)'
    BY <1>1, <1>2, <1>3, <2>2, DoomedStays DEF Free, Calm
  <2> QED BY <1>1, <2>1, <2>2 DEF Fit, TypeInv, TypeOK
<1> QED BY <1>2, <1>3, CalmStep

LEMMA FindGoneAgrees ==
  ASSUME TypeInv, Agreed, NEW t \in Threads, NEW i \in Instances, FindGone(t, i)
  PROVE  Agreed'
<1>1. /\ pc[t] = "owners" /\ i \in gone[t]
      /\ gone' = [gone EXCEPT ![t] = gone[t] \ {i}]
      /\ \/ /\ owner[i] \in {None, sid[t]} /\ pc' = [pc EXCEPT ![t] = "clear"]
            /\ inst' = [inst EXCEPT ![t] = i]
         \/ owner[i] # sid[t] /\ UNCHANGED <<pc, inst>>
      /\ UNCHANGED <<entry, listed, owner, sid, rec, held, stale, cut>>
  BY DEF FindGone, Go, stored, history
<1>2. Calm(t)
  <2>1. \A j \in gone[t] :
          owner[j] = sid[t]
            => j \in gone'[t] \/ (pc'[t] = "clear" /\ inst'[t] = j)
    BY <1>1 DEF TypeInv, TypeOK
  <2> QED BY <1>1, <2>1 DEF Calm, OthersKeep, TypeInv, TypeOK
<1>3. ASSUME t \notin stale' PROVE Fit(t)'
  <2>1. Fit(t)
    BY <1>1, <1>3 DEF Agreed, AllFit
  <2>2. ASSUME NEW j, Free(t, j) PROVE Free(t, j)'
    BY <1>1, <1>2, <1>3, <2>2, DoomedStays DEF Free, Calm
  <2> QED BY <1>1, <2>1, <2>2 DEF Fit, TypeInv, TypeOK
<1> QED BY <1>2, <1>3, CalmStep

LEMMA ReturnAgrees ==
  ASSUME TypeInv, Agreed, NEW t \in Threads, Return(t)
  PROVE  Agreed'
<1>1. /\ pc[t] = "owners" /\ gone[t] = {} /\ held[t] = {}
      /\ pc' = [pc EXCEPT ![t] = "idle"] /\ sid' = [sid EXCEPT ![t] = None]
      /\ inst' = [inst EXCEPT ![t] = None] /\ stale' = stale \ {t}
      /\ UNCHANGED <<entry, listed, owner, rec, gone, held, cut>>
  BY DEF Return, Leave, Go, stored
<1>2. Calm(t)
  BY <1>1 DEF Calm, OthersKeep, TypeInv, TypeOK
<1>3. Fit(t)'
  BY <1>1 DEF Fit, TypeInv, TypeOK
<1> QED BY <1>2, <1>3, CalmStep

\* A step of another leaves a thread that stays up to date what it knows, if
\* the record it works on and the owners it counts on stay.
LEMMA FitStays ==
  ASSUME TypeInv, Agreed, NEW t \in Threads, OthersKeep(t),
         NEW u \in Threads \ (stale' \cup {t}),
         cut' = cut,
         pc[u] # "idle" => entry'[sid[u]] = entry[sid[u]],
         \A i \in Instances : i \in cut \/ Free(u, i)' \/ ~Free(u, i)
            \/ (i \notin held[u] /\ ~(pc[u] = "put" /\ i \in Attached(rec[u]))),
         pc[u] = "clear" => owner'[inst[u]] \in {None, owner[inst[u]]}
  PROVE  Fit(u)'
<1>1. Fit(u)
  BY DEF Agreed, AllFit, OthersKeep
<1>2. /\ pc'[u] = pc[u] /\ sid'[u] = sid[u] /\ inst'[u] = inst[u]
      /\ rec'[u] = rec[u] /\ gone'[u] = gone[u] /\ held'[u] = held[u]
  BY DEF OthersKeep
<1>3. held[u] \subseteq Instances /\ Attached(rec[u]) \subseteq Instances
  BY AttachedType DEF TypeInv, TypeOK
<1>4. CASE pc[u] = "idle"
  BY <1>2, <1>4 DEF Fit, TypeInv, Working
<1>5. CASE pc[u] # "idle"
  BY <1>1, <1>2, <1>3, <1>5 DEF Fit
<1> QED BY <1>4, <1>5

LEMMA PutEntryAgrees ==
  ASSUME TypeInv, Agreed, NEW t \in Threads, PutEntry(t), t \notin stale
  PROVE  Agreed'
<1> DEFINE s == sid[t]
           r == rec[t]
<1>1. /\ pc[t] = "put" /\ s \in Sessions /\ r \in Records
      /\ gone[t] = {} /\ held[t] = {}
      /\ pc' = [pc EXCEPT ![t] = "index"]
      /\ entry' = [entry EXCEPT ![s] = r]
      /\ gone' = [gone EXCEPT ![t] = Attached(entry[s]) \ Attached(r)]
      /\ held' = [held EXCEPT ![t] = Attached(r)]
      /\ inst' = [inst EXCEPT ![t] = None] /\ rec' = [rec EXCEPT ![t] = Absent]
      /\ stale' = stale \cup ReadersOf(t, s)
      /\ UNCHANGED <<listed, owner, sid, cut>>
  BY DEF PutEntry, Written, Go, TypeInv, Working
<1> HIDE DEF s, r
<1>2. OthersKeep(t)
  BY <1>1 DEF OthersKeep, TypeInv, TypeOK
<1>3. ASSUME NEW i, Doomed(i) PROVE Doomed(i)'
  BY <1>2, <1>3, DoomedStays
<1>4. entry'[s] = r /\ \A z \in Sessions \ {s} : entry'[z] = entry[z]
  BY <1>1 DEF TypeInv, TypeOK
<1>5. /\ pc'[t] = "index" /\ sid'[t] = s
      /\ gone'[t] = Attached(entry[s]) \ Attached(r) /\ held'[t] = Attached(r)
  BY <1>1 DEF s, TypeInv, TypeOK
<1>6. ASSUME NEW u \in Threads \ {t}, NEW z, NEW i
      PROVE  /\ Holds(u, z, i) => Holds(u, z, i)'
             /\ Drops(u, z, i) => Drops(u, z, i)'
             /\ Enters(u, z) => Enters(u, z)'
  BY <1>2 DEF OthersKeep, Holds, Drops, Enters
<1>7. ListedIsOwned'
  <2> SUFFICES ASSUME NEW i \in Instances \ cut, NEW z \in Sessions,
                      i \in Attached(entry'[z]), owner[i] # z, ~Doomed(i)'
               PROVE  \E u \in Threads : Holds(u, z, i)'
    BY <1>1 DEF ListedIsOwned
  <2>1. CASE z = s
    BY <1>4, <1>5, <2>1 DEF Holds
  <2>2. CASE z # s
    <3>1. PICK u \in Threads : Holds(u, z, i)
      BY <1>3, <1>4, <2>2 DEF Agreed, ListedIsOwned
    <3> QED BY <1>6, <2>2, <3>1 DEF Holds, s
  <2> QED BY <2>1, <2>2
<1>8. OwnedIsListed'
  <2> SUFFICES ASSUME NEW i \in Instances \ cut, NEW z \in Sessions,
                      i \notin Attached(entry'[z]), owner[i] = z, ~Doomed(i)'
               PROVE  \E u \in Threads : Drops(u, z, i)'
    BY <1>1 DEF OwnedIsListed
  <2>1. CASE z = s /\ i \in Attached(entry[s])
    BY <1>4, <1>5, <2>1 DEF Drops
  <2>2. CASE ~(z = s /\ i \in Attached(entry[s]))
    <3>1. PICK u \in Threads : Drops(u, z, i)
      BY <1>3, <1>4, <2>2 DEF Agreed, OwnedIsListed
    <3>2. u # t
      BY <1>1, <3>1 DEF Drops
    <3> QED BY <1>6, <3>1, <3>2
  <2> QED BY <2>1, <2>2
<1>9. AllListed'
  <2> SUFFICES ASSUME NEW z \in Sessions \ cut, Known(z)', z \notin listed
               PROVE  \E u \in Threads : Enters(u, z)'
    BY <1>1 DEF AllListed
  <2>1. CASE z = s
    BY <1>5, <2>1 DEF Enters
  <2>2. CASE z # s
    <3>1. PICK u \in Threads : Enters(u, z)
      BY <1>4, <2>2 DEF Agreed, AllListed, Known
    <3> QED BY <1>6, <2>2, <3>1 DEF Enters, s
  <2> QED BY <2>1, <2>2
<1>10. ASSUME NEW u \in Threads \ (stale' \cup {t}) PROVE Fit(u)'
  <2>1. pc[u] # "idle" => sid[u] \in Sessions \ {s}
    BY <1>1 DEF ReadersOf, s, TypeInv, Working
  <2>2. \A i \in Instances : Free(u, i) => Free(u, i)'
    BY <1>1, <1>2, <1>3 DEF Free, OthersKeep
  <2> QED BY <1>1, <1>2, <1>4, <2>1, <2>2, FitStays
<1>11. Fit(t)'
  <2>1. Fit(t)
    BY DEF Agreed, AllFit
  <2>2. \A i \in Instances : Free(t, i) => Free(t, i)'
    BY <1>1, <1>3 DEF Free, s
  <2>3. \A i \in Attached(r) : i \in Instances /\ (i \in cut \/ Free(t, i))
    BY <1>1, <2>1, AttachedType DEF Fit, r
  <2> QED BY <1>1, <1>4, <1>5, <2>2, <2>3 DEF Fit
<1> QED BY <1>7, <1>8, <1>9, <1>10, <1>11 DEF Agreed, AllFit

LEMMA IndexSaveAgrees ==
  ASSUME TypeInv, Agreed, NEW t \in Threads, IndexSave(t), listed = seen[t],
         t \notin stale
  PROVE  Agreed'
<1>1. /\ pc[t] = "index_save" /\ pc' = [pc EXCEPT ![t] = "owners"]
      /\ listed' = listed \cup {sid[t]}
      /\ UNCHANGED <<entry, owner, sid, inst, rec, gone, held, stale, cut>>
  BY DEF IndexSave, Go
<1>2. OthersKeep(t)
  BY <1>1 DEF OthersKeep, TypeInv, TypeOK
<1>3. ASSUME NEW i, Doomed(i) PROVE Doomed(i)'
  BY <1>2, <1>3, DoomedStays
<1>4. pc[t] # "clear"
  BY <1>1
<1>5. ListedIsOwned' /\ OwnedIsListed'
  <2>1. ASSUME NEW u \in Threads, NEW z, NEW i
        PROVE  /\ Holds(u, z, i) => Holds(u, z, i)'
               /\ Drops(u, z, i) => Drops(u, z, i)'
    BY <1>1, <1>2, <1>4 DEF OthersKeep, Holds, Drops
  <2>2. ListedIsOwned'
    BY <1>1, <1>3, <2>1 DEF Agreed, ListedIsOwned
  <2>3. OwnedIsListed'
    BY <1>1, <1>3, <2>1 DEF Agreed, OwnedIsListed
  <2> QED BY <2>2, <2>3
<1>6. AllListed'
  <2>1. ASSUME NEW u \in Threads \ {t}, NEW z, Enters(u, z) PROVE Enters(u, z)'
    BY <1>2, <2>1 DEF OthersKeep, Enters
  <2> QED BY <1>1, <2>1 DEF Agreed, AllListed, Known, Enters
<1>7. ASSUME NEW u \in Threads \ (stale' \cup {t}) PROVE Fit(u)'
  <2>1. \A i \in Instances : Free(u, i) => Free(u, i)'
    BY <1>1, <1>2, <1>3 DEF Free, OthersKeep
  <2> QED BY <1>1, <1>2, <2>1, FitStays
<1>8. Fit(t)'
  <2>1. Fit(t)
    BY DEF Agreed, AllFit
  <2>2. \A i : Free(t, i) => Free(t, i)'
    BY <1>1, <1>3 DEF Free
  <2> QED BY <1>1, <2>1, <2>2 DEF Fit, TypeInv, TypeOK
<1> QED BY <1>5, <1>6, <1>7, <1>8 DEF Agreed, AllFit

LEMMA ClearOwnerAgrees ==
  ASSUME TypeInv, Agreed, NEW t \in Threads, ClearOwner(t), t \notin stale
  PROVE  Agreed'
<1> DEFINE s == sid[t]
           j == inst[t]
<1>1. /\ pc[t] = "clear" /\ pc' = [pc EXCEPT ![t] = "owners"]
      /\ s \in Sessions /\ j \in Instances
      /\ owner' = [owner EXCEPT ![j] = None]
      /\ inst' = [inst EXCEPT ![t] = None]
      /\ stale' = stale \cup TakersOf(t, j)
      /\ UNCHANGED <<entry, listed, sid, rec, gone, held, cut>>
  BY DEF ClearOwner, Written, Go, TypeInv, Working
<1>2. OthersKeep(t)
  BY <1>1 DEF OthersKeep, TypeInv, TypeOK
<1>3. ASSUME NEW i, Doomed(i) PROVE Doomed(i)'
  BY <1>2, <1>3, DoomedStays
<1>4. j \notin Attached(entry[s]) /\ (j \in cut \/ owner[j] \in {None, s})
  BY <1>1 DEF Agreed, AllFit, Fit
<1> HIDE DEF s, j
<1>5. owner'[j] = None /\ \A i \in Instances \ {j} : owner'[i] = owner[i]
  BY <1>1 DEF TypeInv, TypeOK
<1>6. ListedIsOwned'
  <2> SUFFICES ASSUME NEW i \in Instances \ cut, NEW z \in Sessions,
                      i \in Attached(entry[z]), owner'[i] # z, ~Doomed(i)'
               PROVE  \E u \in Threads : Holds(u, z, i)'
    BY <1>1 DEF ListedIsOwned
  <2>1. owner[i] # z
    BY <1>4, <1>5, NoneAssumption
  <2>2. PICK u \in Threads : Holds(u, z, i)
    BY <1>3, <2>1 DEF Agreed, ListedIsOwned
  <2> QED BY <1>1, <2>2 DEF Holds
<1>7. OwnedIsListed'
  <2> SUFFICES ASSUME NEW i \in Instances \ cut, NEW z \in Sessions,
                      i \notin Attached(entry[z]), owner'[i] = z, ~Doomed(i)'
               PROVE  \E u \in Threads : Drops(u, z, i)'
    BY <1>1 DEF OwnedIsListed
  <2>1. i # j /\ owner[i] = z
    BY <1>5, NoneAssumption
  <2>2. PICK u \in Threads : Drops(u, z, i)
    BY <1>3, <2>1 DEF Agreed, OwnedIsListed
  <2> QED BY <1>1, <1>2, <2>1, <2>2 DEF Drops, OthersKeep, j
<1>8. AllListed'
  <2>1. ASSUME NEW u \in Threads, NEW z, Enters(u, z) PROVE Enters(u, z)'
    BY <1>1, <1>2, <2>1 DEF OthersKeep, Enters
  <2> QED BY <1>1, <2>1 DEF Agreed, AllListed, Known
<1>9. ASSUME NEW u \in Threads, NEW i \in Instances, Free(u, i)
      PROVE  Free(u, i)'
  BY <1>1, <1>3, <1>5, <1>9 DEF Free
<1>10. ASSUME NEW u \in Threads \ (stale' \cup {t}) PROVE Fit(u)'
  <2>1. pc[u] = "clear" => owner'[inst[u]] \in {None, owner[inst[u]]}
    BY <1>5 DEF TypeInv, Working
  <2> QED BY <1>1, <1>2, <1>9, <2>1, FitStays
<1>11. Fit(t)'
  <2>1. Fit(t)
    BY DEF Agreed, AllFit
  <2>2. held[t] \subseteq Instances
    BY DEF TypeInv, TypeOK
  <2> QED BY <1>1, <1>9, <2>1, <2>2 DEF Fit, TypeInv, TypeOK
<1> QED BY <1>6, <1>7, <1>8, <1>10, <1>11 DEF Agreed, AllFit

LEMMA SetOwnerAgrees ==
  ASSUME TypeInv, Agreed, NEW t \in Threads, NEW j \in Instances, SetOwner(t, j),
         t \notin stale
  PROVE  Agreed'
<1> DEFINE s == sid[t]
<1>1. /\ pc[t] = "owners" /\ s \in Sessions /\ j \in held[t] /\ gone[t] = {}
      /\ owner' = [owner EXCEPT ![j] = s]
      /\ held' = [held EXCEPT ![t] = held[t] \ {j}]
      /\ stale' = stale \cup TakersOf(t, j)
      /\ UNCHANGED <<entry, listed, pc, sid, inst, rec, gone, cut>>
  BY DEF SetOwner, Written, TypeInv, Working
<1>2. OthersKeep(t)
  BY <1>1 DEF OthersKeep, TypeInv, TypeOK
<1>3. ASSUME NEW i, Doomed(i) PROVE Doomed(i)'
  BY <1>2, <1>3, DoomedStays
<1>4. /\ j \in Attached(entry[s])
      /\ j \in cut \/ owner[j] \in {None, s} \/ Doomed(j)
  BY <1>1 DEF Agreed, AllFit, Fit, Free
<1> HIDE DEF s
<1>5. owner'[j] = s /\ \A i \in Instances \ {j} : owner'[i] = owner[i]
  BY <1>1 DEF TypeInv, TypeOK
\* Who else works on a record that lists j: its thread has seen the owner go.
<1>6. ASSUME NEW z \in Sessions \ {s}, j \in Attached(entry[z]), j \notin cut
      PROVE  Doomed(j)'
  <2>1. ASSUME NEW u \in Threads, Holds(u, z, j) PROVE Doomed(j)'
    <3>1. u # t
      BY <2>1 DEF Holds, s
    <3>2. pc[u] # "idle"
      BY <2>1 DEF Holds, TypeInv, Working
    <3>3. u \in TakersOf(t, j)
      BY <2>1, <3>1, <3>2 DEF Holds, TakersOf
    <3> QED BY <1>1, <1>2, <2>1, <3>1, <3>3 DEF Doomed, Holds, OthersKeep
  <2>2. owner[j] = z \/ Doomed(j) \/ \E u \in Threads : Holds(u, z, j)
    BY <1>6 DEF Agreed, ListedIsOwned
  <2>3. owner[j] = z => Doomed(j)
    BY <1>4, <1>6, NoneAssumption
  <2> QED BY <1>3, <2>1, <2>2, <2>3
<1>7. ListedIsOwned'
  <2> SUFFICES ASSUME NEW i \in Instances \ cut, NEW z \in Sessions,
                      i \in Attached(entry[z]), owner'[i] # z, ~Doomed(i)'
               PROVE  \E u \in Threads : Holds(u, z, i)'
    BY <1>1 DEF ListedIsOwned
  <2>1. i # j
    BY <1>5, <1>6
  <2>2. PICK u \in Threads : Holds(u, z, i)
    BY <1>3, <1>5, <2>1 DEF Agreed, ListedIsOwned
  <2> QED BY <1>1, <2>1, <2>2 DEF Holds, TypeInv, TypeOK
<1>8. OwnedIsListed'
  <2> SUFFICES ASSUME NEW i \in Instances \ cut, NEW z \in Sessions,
                      i \notin Attached(entry[z]), owner'[i] = z, ~Doomed(i)'
               PROVE  \E u \in Threads : Drops(u, z, i)'
    BY <1>1 DEF OwnedIsListed
  <2>1. i # j
    BY <1>4, <1>5
  <2>2. PICK u \in Threads : Drops(u, z, i)
    BY <1>3, <1>5, <2>1 DEF Agreed, OwnedIsListed
  <2> QED BY <1>1, <2>2 DEF Drops
<1>9. AllListed'
  <2>1. ASSUME NEW u \in Threads, NEW z, Enters(u, z) PROVE Enters(u, z)'
    BY <1>1, <2>1 DEF Enters
  <2> QED BY <1>1, <2>1 DEF Agreed, AllListed, Known
<1>10. ASSUME NEW u \in Threads, NEW i \in Instances \ {j}, Free(u, i)
       PROVE  Free(u, i)'
  BY <1>1, <1>3, <1>5, <1>10 DEF Free
<1>11. ASSUME NEW u \in Threads \ (stale' \cup {t}) PROVE Fit(u)'
  <2>1. Fit(u)
    BY <1>11, <1>2 DEF Agreed, AllFit, OthersKeep
  <2>2. pc[u] # "idle" => j \notin held[u] /\ inst[u] # j
    BY <1>1, <1>11 DEF TakersOf
  <2>3. j \notin held[u]
    BY <2>2 DEF TypeInv, Working
  <2>4. pc[u] = "put" /\ j \in Attached(rec[u]) => j \in cut \/ Free(u, j)'
    <3> SUFFICES ASSUME pc[u] = "put", j \in Attached(rec[u]), j \notin cut
                 PROVE  Free(u, j)'
      OBVIOUS
    <3>1. j \in Attached(entry[sid[u]]) /\ sid[u] \in Sessions
      BY <2>1, <2>2 DEF Fit, TypeInv, Working
    <3>2. CASE sid[u] = s
      BY <1>1, <1>5, <3>2 DEF Free
    <3>3. CASE sid[u] # s
      BY <1>6, <3>1, <3>3 DEF Free
    <3> QED BY <3>2, <3>3
  <2>5. pc[u] = "clear" => owner'[inst[u]] \in {None, owner[inst[u]]}
    BY <1>5, <2>2 DEF TypeInv, Working
  <2>6. \A i \in Instances : i \in cut \/ Free(u, i)' \/ ~Free(u, i)
           \/ (i \notin held[u] /\ ~(pc[u] = "put" /\ i \in Attached(rec[u])))
    BY <1>10, <2>3, <2>4
  <2> QED BY <1>1, <1>2, <2>5, <2>6, FitStays
<1>12. Fit(t)'
  <2>1. Fit(t)
    BY DEF Agreed, AllFit
  <2>2. held[t] \subseteq Instances /\ held'[t] = held[t] \ {j}
    BY <1>1 DEF TypeInv, TypeOK
  <2> QED BY <1>1, <1>10, <2>1, <2>2 DEF Fit
<1> QED BY <1>7, <1>8, <1>9, <1>11, <1>12 DEF Agreed, AllFit

LEMMA CrashAgrees ==
  ASSUME TypeInv, Agreed, Crash
  PROVE  Agreed'
<1>1. /\ cut' = cut \cup UNION {Unwritten(t) : t \in Threads}
      /\ stale' = {} /\ UNCHANGED <<entry, listed, owner>>
  BY DEF Crash, stored
<1>2. ASSUME NEW i \in (Instances \cup Sessions) \ cut', NEW t \in Threads
      PROVE  i \notin cut /\ i \notin Unwritten(t)
  BY <1>1, <1>2
<1>3. ASSUME NEW i \in Instances \ cut'
      PROVE  /\ ~Doomed(i)
             /\ \A t \in Threads : \A z : ~Holds(t, z, i) /\ ~Drops(t, z, i)
  BY <1>2, <1>3 DEF Unwritten, Doomed, Holds, Drops, TypeInv, TypeOK
<1>4. ASSUME NEW z \in Sessions \ cut'
      PROVE  \A t \in Threads : ~Enters(t, z)
  BY <1>2, <1>4 DEF Unwritten, Enters
<1>5. ListedIsOwned'
  BY <1>1, <1>3 DEF Agreed, ListedIsOwned
<1>6. OwnedIsListed'
  BY <1>1, <1>3 DEF Agreed, OwnedIsListed
<1>7. AllListed'
  BY <1>1, <1>4 DEF Agreed, AllListed, Known
<1>8. ASSUME NEW t \in Threads PROVE Fit(t)'
  BY DEF Crash, Fit
<1> QED BY <1>5, <1>6, <1>7, <1>8 DEF Agreed, AllFit

-----------------------------------------------------------------------------
(* The invariant of the specification *)

IndexInv == TypeInv /\ (overtaken \/ Agreed)

\* A write by a thread that is not stale, and no other, lets the keys agree.
LEMMA WriteInTime ==
  ASSUME NEW t \in Threads, NEW readers, Written(t, readers), ~overtaken'
  PROVE  ~overtaken /\ t \notin stale
  BY DEF Written

LEMMA AgreedInit == Init => Agreed
<1> SUFFICES ASSUME Init PROVE Agreed
  OBVIOUS
<1>1. \A s \in Sessions : ~Known(s) /\ Attached(entry[s]) = {}
  BY EmptySeq DEF Init, Known, Absent, Attached, Range
<1>2. \A i \in Instances : owner[i] \notin Sessions
  BY NoneAssumption DEF Init
<1>3. \A t \in Threads : pc[t] = "idle" /\ gone[t] = {} /\ held[t] = {}
  BY DEF Init, AtRest
<1> QED
  BY <1>1, <1>2, <1>3
  DEF Agreed, ListedIsOwned, OwnedIsListed, AllListed, AllFit, Fit

LEMMA IndexStep == IndexInv /\ [Next]_vars => IndexInv'
<1> SUFFICES ASSUME IndexInv, [Next]_vars
             PROVE  IndexInv'
  OBVIOUS
<1>1. TypeInv /\ TypeInv'
  BY TypeStep DEF IndexInv
<1>2. SUFFICES ASSUME ~overtaken' PROVE Agreed'
  BY <1>1 DEF IndexInv
<1>3. ASSUME NEW t \in Threads, NEW s \in Sessions,
             \/ Begin(t, s) \/ Touch(t, s) \/ Close(t, s) \/ Unfocus(t, s)
             \/ \E i \in Instances : Detach(t, s, i) \/ Focus(t, s, i)
      PROVE  Agreed'
  <2>1. PICK r \in Records :
          /\ Prepare(t, s, r)
          /\ Attached(r) \subseteq Attached(entry[s])
          /\ entry[s].status = "closed" => r.status = "closed"
    BY <1>1, <1>3, CallPrepares
  <2>2. Agreed
    BY <1>2, <2>1 DEF IndexInv, Prepare, history
  <2> QED BY <1>1, <2>1, <2>2, PrepareAgrees
<1>4. ASSUME NEW t \in Threads, NEW s \in Sessions, NEW i \in Instances,
             Attach(t, s, i)
      PROVE  Agreed'
  <2>1. Agreed
    BY <1>2, <1>4 DEF IndexInv, Attach, history
  <2> QED BY <1>1, <1>4, <2>1, AttachAgrees
<1>5. ASSUME NEW t \in Threads, CheckOwner(t) PROVE Agreed'
  <2>1. Agreed
    BY <1>2, <1>5 DEF IndexInv, CheckOwner
  <2> QED BY <1>1, <1>5, <2>1, CheckOwnerAgrees
<1>6. ASSUME NEW t \in Threads, PutEntry(t) PROVE Agreed'
  <2>1. Agreed /\ t \notin stale
    BY <1>2, <1>6, WriteInTime DEF IndexInv, PutEntry
  <2> QED BY <1>1, <1>6, <2>1, PutEntryAgrees
<1>7. ASSUME NEW t \in Threads, IndexLoad(t) PROVE Agreed'
  <2>1. Agreed
    BY <1>2, <1>7 DEF IndexInv, IndexLoad, history
  <2> QED BY <1>1, <1>7, <2>1, IndexLoadAgrees
<1>8. ASSUME NEW t \in Threads, IndexSave(t) PROVE Agreed'
  <2>1. Agreed /\ t \notin stale /\ listed = seen[t]
    BY <1>2, <1>8 DEF IndexInv, IndexSave
  <2> QED BY <1>1, <1>8, <2>1, IndexSaveAgrees
<1>9. ASSUME NEW t \in Threads, NEW i \in Instances, FindGone(t, i)
      PROVE  Agreed'
  <2>1. Agreed
    BY <1>2, <1>9 DEF IndexInv, FindGone, history
  <2> QED BY <1>1, <1>9, <2>1, FindGoneAgrees
<1>10. ASSUME NEW t \in Threads, ClearOwner(t) PROVE Agreed'
  <2>1. Agreed /\ t \notin stale
    BY <1>2, <1>10, WriteInTime DEF IndexInv, ClearOwner
  <2> QED BY <1>1, <1>10, <2>1, ClearOwnerAgrees
<1>11. ASSUME NEW t \in Threads, NEW i \in Instances, SetOwner(t, i)
       PROVE  Agreed'
  <2>1. Agreed /\ t \notin stale
    BY <1>2, <1>11, WriteInTime DEF IndexInv, SetOwner
  <2> QED BY <1>1, <1>11, <2>1, SetOwnerAgrees
<1>12. ASSUME NEW t \in Threads, Return(t) PROVE Agreed'
  <2>1. Agreed
    BY <1>2, <1>12 DEF IndexInv, Return
  <2> QED BY <1>1, <1>12, <2>1, ReturnAgrees
<1>13. CASE Crash
  <2>1. Agreed
    BY <1>2, <1>13 DEF IndexInv, Crash
  <2> QED BY <1>1, <1>13, <2>1, CrashAgrees
<1>14. CASE UNCHANGED vars
  <2>1. Agreed
    BY <1>2, <1>14 DEF IndexInv, vars, history
  <2> QED
    BY <1>14, <2>1
    DEF vars, stored, locals, history, Agreed, ListedIsOwned, OwnedIsListed,
        AllListed, AllFit, Fit, Free, Doomed, Holds, Drops, Enters, Known
<1> QED
  BY <1>3, <1>4, <1>5, <1>6, <1>7, <1>8, <1>9, <1>10, <1>11, <1>12, <1>13, <1>14
  DEF Next, Call, Continue

LEMMA IndexInvAlways == Spec => []IndexInv
<1>1. Init => IndexInv
  BY TypeInit, AgreedInit DEF IndexInv
<1> QED
  BY <1>1, IndexStep, PTL DEF Spec

\* An instance belongs to exactly the session that lists it, and every session
\* is found by a listing, as long as no caller writes what it decided on a
\* record or an owner another has changed since.
THEOREM SessionIndexesAgree == Spec => []IndexesAgree
<1>1. IndexInv => IndexesAgree
  <2> SUFFICES ASSUME TypeInv, Agreed PROVE IndexesAgree
    BY DEF IndexInv, IndexesAgree
  <2> DEFINE spared == cut \cup UNION {Unwritten(t) : t \in Threads}
  <2>1. ASSUME NEW i \in (Instances \cup Sessions) \ spared, NEW t \in Threads
        PROVE  i \notin cut /\ i \notin Unwritten(t)
    BY <2>1
  <2>2. ASSUME NEW i \in Instances \ spared, NEW s \in Sessions
        PROVE  i \in Attached(entry[s]) <=> owner[i] = s
    <3>1. \A t \in Threads : ~Holds(t, s, i) /\ ~Drops(t, s, i)
      BY <2>1, <2>2 DEF Unwritten, Holds, Drops
    <3>2. ~Doomed(i)
      BY <2>1, <2>2 DEF Unwritten, Doomed, TypeInv, TypeOK
    <3>3. i \notin cut
      BY <2>2
    <3> QED BY <3>1, <3>2, <3>3 DEF Agreed, ListedIsOwned, OwnedIsListed
  <2>3. ASSUME NEW s \in Sessions \ spared, Known(s)
        PROVE  s \in listed
    <3>1. \A t \in Threads : ~Enters(t, s)
      BY <2>1, <2>3 DEF Unwritten, Enters
    <3>2. s \notin cut
      BY <2>3
    <3> QED BY <2>3, <3>1, <3>2 DEF Agreed, AllListed
  <2> HIDE DEF spared
  <2>4. \A i \in Instances \ spared, s \in Sessions :
          i \in Attached(entry[s]) <=> owner[i] = s
    BY <2>2
  <2>5. \A s \in Sessions \ spared : Known(s) => s \in listed
    BY <2>3
  <2> QED BY <2>4, <2>5 DEF IndexesAgree, spared
<1> QED BY <1>1, IndexInvAlways, PTL

\* A closed session stays closed, unless a caller writes back the record it read
\* before the close.
THEOREM SessionClosedIsFinal == Spec => ClosedIsFinal
<1> DEFINE Final == \A s \in Sessions : entry[s].status = "closed"
                      => entry'[s].status = "closed" \/ overtaken'
<1>1. IndexInv /\ [Next]_vars => [Final]_vars
  <2> SUFFICES ASSUME IndexInv, [Next]_vars, NEW s \in Sessions,
                      entry[s].status = "closed", ~overtaken'
               PROVE  entry'[s].status = "closed"
    BY Zenon
  <2>1. CASE entry' = entry
    BY <2>1
  <2>2. ASSUME NEW t \in Threads, PutEntry(t)
        PROVE  entry'[s].status = "closed"
    <3>1. Agreed /\ t \notin stale
      BY <2>2, WriteInTime DEF IndexInv, PutEntry
    <3>2. pc[t] = "put" /\ entry' = [entry EXCEPT ![sid[t]] = rec[t]]
      BY <2>2 DEF PutEntry
    <3>3. entry[sid[t]].status = "closed" => rec[t].status = "closed"
      BY <3>1, <3>2 DEF Agreed, AllFit, Fit
    <3> QED BY <3>2, <3>3 DEF IndexInv, TypeInv, TypeOK
  <2>3. \/ entry' = entry
        \/ \E t \in Threads : PutEntry(t)
    BY DEF Next, Call, Continue, vars, stored, Begin, Touch, Close, Unfocus,
           Attach, Detach, Focus, Prepare, CheckOwner, IndexLoad, IndexSave,
           FindGone, ClearOwner, SetOwner, Return, Crash
  <2> QED BY <2>1, <2>2, <2>3
<1> QED BY <1>1, IndexInvAlways, PTL DEF Spec, ClosedIsFinal

=============================================================================
