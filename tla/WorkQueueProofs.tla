-------------------------- MODULE WorkQueueProofs --------------------------
(***************************************************************************)
(* That the work plane is a work queue, for any number of intents, keys    *)
(* and drain threads, with leases that lapse and with ends of the process  *)
(* inside and between the operations of the store.                         *)
(*                                                                         *)
(* The index may list what is settled, after a crash, and a batch may hold *)
(* what another thread has settled, after a lapse; the invariants here say *)
(* that never both are true of one intent.                                 *)
(***************************************************************************)
EXTENDS WorkPlaneProofs

----------------------------------------------------------------------------
(* What Claim hands out, and what a thread keeps when it is through with one *)

HandsOut(w, taken, got) ==
  /\ \A i \in taken : status[i] = "pending"
  /\ Range(got) = taken /\ IsInjective(got)
  /\ status' = [i \in Intents |-> IF i \in taken THEN "claimed" ELSE status[i]]
  /\ owner' = [i \in Intents |-> IF i \in taken THEN ClaimerOf[w] ELSE owner[i]]
  /\ lapsed' = lapsed \ taken
  /\ batch' = [batch EXCEPT ![w] = got]
  /\ holds' = [holds EXCEPT ![w] = taken]
  /\ pc' = [pc EXCEPT ![w] = IF taken = {} THEN "idle" ELSE "submit"]
  /\ UNCHANGED <<index, latest, fate, ran, counts>>

LEMMA ClaimHandsOut ==
  ASSUME TypeInv, NEW w \in Workers, Claim(w)
  PROVE  \E taken \in SUBSET (Range(index) \cap Intents), got \in Seq(Intents) :
           HandsOut(w, taken, got)
<1> DEFINE ahead(n) == {m \in 1..(n - 1) : Claimable(index[m])}
           first == {n \in 1..Len(index) : /\ Claimable(index[n])
                                           /\ Cardinality(ahead(n)) < Batch}
           taken == {index[n] : n \in first}
<1>1. index \in Seq(Intents) /\ IsInjective(index) /\ DOMAIN index = 1..Len(index)
  BY DEF TypeInv, TypeOK, ListInv
<1>2. /\ taken \subseteq Range(index) /\ Range(index) \subseteq Intents
      /\ \A i \in taken : status[i] = "pending"
  <2>1. \A n \in first : index[n] \in Range(index) /\ status[index[n]] = "pending"
    <3>1. \A n \in first : n \in 1..Len(index) /\ Claimable(index[n])
      OBVIOUS
    <3> HIDE DEF first
    <3> QED BY <1>1, <3>1 DEF Claimable, Range
  <2> HIDE DEF first
  <2> QED BY <1>1, <2>1 DEF Range
<1>3. IsFiniteSet(taken)
  <2>1. IsFiniteSet(1..Len(index))
    BY <1>1, FS_Interval
  <2>2. first \subseteq 1..Len(index)
    OBVIOUS
  <2> HIDE DEF first
  <2>3. IsFiniteSet(first)
    BY <2>1, <2>2, FS_Subset
  <2> DEFINE at == [n \in first |-> index[n]]
  <2>4. at \in Surjection(first, taken)
    BY DEF Surjection
  <2> HIDE DEF at, taken
  <2> QED BY <2>3, <2>4, FS_Surjection
<1>4. /\ \E got \in [1..Cardinality(taken) -> taken] :
           InIndexOrder(got, taken) /\ batch' = [batch EXCEPT ![w] = got]
      /\ status' = [i \in Intents |-> IF i \in taken THEN "claimed" ELSE status[i]]
      /\ owner' = [i \in Intents |-> IF i \in taken THEN ClaimerOf[w] ELSE owner[i]]
      /\ lapsed' = lapsed \ taken
      /\ holds' = [holds EXCEPT ![w] = taken]
      /\ pc' = [pc EXCEPT ![w] = IF taken = {} THEN "idle" ELSE "submit"]
      /\ UNCHANGED <<index, latest, fate, ran, counts>>
  BY DEF Claim
<1> HIDE DEF taken
<1>5. PICK got \in [1..Cardinality(taken) -> taken] :
        InIndexOrder(got, taken) /\ batch' = [batch EXCEPT ![w] = got]
  BY <1>4
<1>6. Cardinality(taken) \in Nat
  BY <1>3, FS_CardinalityType
<1>7. got \in Seq(Intents) /\ Range(got) = taken
  BY <1>2, <1>5, <1>6 DEF InIndexOrder
<1>8. IsInjective(got)
  <2>1. \A m, n \in DOMAIN got : m < n => got[m] # got[n]
    BY <1>1, <1>5 DEF InIndexOrder, IsInjective
  <2>2. DOMAIN got \subseteq Nat
    BY <1>5, <1>6
  <2> QED BY <2>1, <2>2 DEF IsInjective
<1>9. HandsOut(w, taken, got)
  BY <1>2, <1>4, <1>5, <1>7, <1>8 DEF HandsOut
<1> QED BY <1>2, <1>7, <1>9

\* The batch of a thread in the middle of one, and what Advance leaves of it.
LEMMA BatchOf ==
  ASSUME TypeInv, BatchInv, NEW w \in Workers, pc[w] \in {"submit", "ack", "fail"}
  PROVE  /\ batch[w] # <<>> /\ batch[w] \in Seq(Intents)
         /\ Head(batch[w]) \in Intents /\ Head(batch[w]) \in Range(batch[w])
         /\ Tail(batch[w]) \in Seq(Intents) /\ IsInjective(Tail(batch[w]))
         /\ Range(Tail(batch[w])) = Range(batch[w]) \ {Head(batch[w])}
<1>1. batch[w] # <<>> /\ batch[w] \in Seq(Intents) /\ IsInjective(batch[w])
  BY DEF TypeInv, TypeOK, BatchInv
<1> QED BY <1>1, HeadAndTail, TailOfDistinct

LEMMA AdvanceLeaves ==
  ASSUME TypeInv, BatchInv, NEW w \in Workers, pc[w] \in {"submit", "ack", "fail"},
         Advance(w)
  PROVE  \A v \in Workers :
           /\ IsInjective(batch'[v])
           /\ Range(batch'[v]) = IF v = w THEN Range(batch[v]) \ {Head(batch[w])}
                                          ELSE Range(batch[v])
           /\ v # w => batch'[v] = batch[v]
<1>1. /\ batch' = [batch EXCEPT ![w] = Tail(batch[w])]
      /\ batch \in [Workers -> Seq(Intents)]
  BY DEF Advance, TypeInv, TypeOK
<1>2. \A v \in Workers : batch'[v] = IF v = w THEN Tail(batch[w]) ELSE batch[v]
  BY <1>1
<1>3. /\ IsInjective(Tail(batch[w]))
      /\ Range(Tail(batch[w])) = Range(batch[w]) \ {Head(batch[w])}
  BY BatchOf
<1> QED BY <1>2, <1>3 DEF BatchInv

LEMMA RestartLeaves ==
  ASSUME Restart
  PROVE  \A v \in Workers : batch'[v] = <<>> /\ Range(batch'[v]) = {} /\ IsInjective(batch'[v])
<1>1. \A v \in Workers : batch'[v] = <<>>
  BY DEF Restart
<1>2. Range(<<>>) = {} /\ IsInjective(<<>>)
  BY DEF Range, IsInjective
<1> QED BY <1>1, <1>2

----------------------------------------------------------------------------
(* Batches *)

\* What a step does to batches and to entries in them, when it only takes away.
LEMMA BatchShrinks ==
  ASSUME BatchInv, \A w \in Workers : /\ IsInjective(batch'[w])
                                      /\ Range(batch'[w]) \subseteq Range(batch[w]),
         \A w \in Workers : \A i \in Range(batch[w]) : status'[i] # "none"
  PROVE  BatchInv'
  BY DEF BatchInv

\* Nothing stored is forgotten.
LEMMA StoredStays ==
  ASSUME TypeInv, [Next]_vars, NEW j \in Intents, status[j] # "none"
  PROVE  status'[j] # "none"
<1> USE DEF TypeInv, TypeOK
<1>1. ASSUME NEW i \in Intents, Enqueue(i) \/ EnqueueCut(i) PROVE status'[j] # "none"
  BY <1>1 DEF Enqueue, EnqueueCut, EnqueueWrites
<1>2. ASSUME NEW w \in Workers, Claim(w) PROVE status'[j] # "none"
  <2>1. PICK taken \in SUBSET (Range(index) \cap Intents), got \in Seq(Intents) :
          HandsOut(w, taken, got)
    BY <1>2, ClaimHandsOut
  <2> QED BY <2>1 DEF HandsOut
<1>3. ASSUME NEW w \in Workers, Ack(w) \/ Fail(w) \/ SettleCut(w)
      PROVE  status'[j] # "none"
  BY <1>3 DEF Ack, Fail, SettleCut, AckWrites, FailWrites, store
<1>4. ASSUME NEW w \in Workers, Reclaim(w) \/ Submit(w) PROVE status'[j] # "none"
  BY <1>4 DEF Reclaim, Submit, store
<1>5. ASSUME NEW i \in Intents, FallDue(i) \/ Lapse(i) PROVE status'[j] # "none"
  BY <1>5 DEF FallDue, Lapse
<1>6. CASE Gate \/ Crash \/ UNCHANGED vars
  BY <1>6 DEF Gate, Crash, vars, store
<1> QED BY <1>1, <1>2, <1>3, <1>4, <1>5, <1>6 DEF Next, Drain

LEMMA StepBatch ==
  ASSUME TypeInv, BatchInv, [Next]_vars
  PROVE  BatchInv'
<1>0. \A w \in Workers : Range(batch[w]) \subseteq Intents
  BY DEF TypeInv, TypeOK, Range
<1>a. \A w \in Workers : \A i \in Range(batch[w]) : status'[i] # "none"
  BY <1>0, StoredStays DEF BatchInv
<1>1. CASE batch' = batch
  BY <1>1, <1>a, BatchShrinks DEF BatchInv
<1>2. CASE Restart
  BY <1>2, <1>a, RestartLeaves, BatchShrinks
<1>3. ASSUME NEW w \in Workers, Ack(w) \/ Fail(w) PROVE BatchInv'
  <2>1. Advance(w) /\ pc[w] \in {"submit", "ack", "fail"}
    BY <1>3 DEF Ack, Fail
  <2> QED BY <1>a, <2>1, AdvanceLeaves, BatchShrinks
<1>4. ASSUME NEW w \in Workers, Claim(w) PROVE BatchInv'
  <2>1. PICK taken \in SUBSET (Range(index) \cap Intents), got \in Seq(Intents) :
          HandsOut(w, taken, got)
    BY <1>4, ClaimHandsOut
  <2>2. /\ Range(got) = taken /\ IsInjective(got)
        /\ \A i \in Range(got) : status'[i] # "none"
    BY <2>1 DEF HandsOut
  <2>3. batch \in [Workers -> Seq(Intents)] /\ batch' = [batch EXCEPT ![w] = got]
    BY <2>1 DEF HandsOut, TypeInv, TypeOK
  <2>4. \A v \in Workers : batch'[v] = IF v = w THEN got ELSE batch[v]
    BY <2>3
  <2> QED BY <1>a, <2>2, <2>4 DEF BatchInv
<1>5. batch' = batch \/ Restart \/ \E w \in Workers : Claim(w) \/ Ack(w) \/ Fail(w)
  BY DEF Next, Drain, vars, threads, Enqueue, EnqueueCut, FallDue, Lapse, Reclaim,
         Submit, SettleCut, Gate, Crash
<1> QED BY <1>1, <1>2, <1>3, <1>4, <1>5

----------------------------------------------------------------------------
(* What is listed is open *)

\* A step that settles nothing, and hands out what is pending only.
LEMMA OpenKept ==
  ASSUME TypeInv, OpenInv, index' = index, fate' = fate,
         \A i \in Intents : /\ status'[i] = "none" => status[i] = "none"
                            /\ status[i] \in {"done", "failed"} => status'[i] = status[i],
         \A w \in Workers :
           Range(batch'[w]) \subseteq Range(batch[w]) \cup {i \in Intents : status[i] = "pending"}
  PROVE  OpenInv'
<1>1. Range(index) \subseteq Intents
  BY DEF TypeInv, ListInv, Range
<1> QED BY <1>1 DEF OpenInv

\* i is taken off the list, or it stays on it open: whatever becomes of its entry.
LEMMA OpenSettled ==
  ASSUME TypeInv, OpenInv, NEW i \in Intents, status'[i] # "none",
         \A j \in Intents \ {i} : status'[j] = status[j] /\ fate'[j] = fate[j],
         \/ Range(index') = Range(index) \ {i}
         \/ Range(index') = Range(index) /\ (i \in Range(index) => fate'[i] \in Open)
         \/ /\ Range(index') = Range(index) /\ status'[i] \in {"done", "failed"}
            /\ \A w \in Workers : i \notin Range(batch'[w]),
         \A w \in Workers : Range(batch'[w]) \subseteq Range(batch[w])
  PROVE  OpenInv'
<1>1. Range(index) \subseteq Intents
  BY DEF TypeInv, ListInv, Range
<1>2. \A j \in Intents : status'[j] = "none" => fate'[j] = "new"
  BY DEF OpenInv
<1>3. ASSUME NEW j \in Range(index'), fate'[j] \notin Open
      PROVE  /\ status'[j] \in {"done", "failed"}
             /\ \A w \in Workers : j \notin Range(batch'[w])
  BY <1>1, <1>3 DEF OpenInv
<1> QED BY <1>2, <1>3 DEF OpenInv

LEMMA EnqueueOpen ==
  ASSUME TypeInv, OpenInv, NEW i \in Intents, NEW n \in 1..4, EnqueueWrites(i, n),
         \A w \in Workers : Range(batch'[w]) \subseteq Range(batch[w])
  PROVE  OpenInv'
<1>1. /\ ListInv /\ status[i] = "none" /\ i \notin Range(index) /\ fate[i] = "new"
      /\ Range(index) \subseteq Intents /\ status \in [Intents -> Statuses]
  BY DEF EnqueueWrites, OpenInv, TypeInv, ListInv, Range
<1>2. /\ Range(index') = (Range(index) \ {Existing(i)})
                            \cup (IF n < 3 THEN {} ELSE {i})
      /\ status' = IF n < 2 THEN status ELSE [status EXCEPT ![i] = "pending"]
  BY <1>1, EnqueueList DEF EnqueueWrites
<1>3. fate' = [j \in Intents |->
                IF j \in Range(index) /\ j = Existing(i) /\ fate[j] \in Open /\ n >= 3
                  THEN "superseded"
                ELSE IF j = i /\ n >= 4 THEN "accepted" ELSE fate[j]]
  BY DEF EnqueueWrites
<1>4. ASSUME NEW j \in Intents, status'[j] = "none" PROVE fate'[j] = "new"
  <2>1. status[j] = "none"
    BY <1>1, <1>2, <1>4
  <2>2. j \notin Range(index) /\ fate[j] = "new"
    BY <1>1, <2>1 DEF ListInv, OpenInv
  <2>3. ~(j = i /\ n >= 4)
    BY <1>1, <1>2, <1>4
  <2> QED BY <1>3, <2>2, <2>3
<1>5. ASSUME NEW j \in Range(index'), fate'[j] \notin Open
      PROVE  /\ status'[j] \in {"done", "failed"}
             /\ \A w \in Workers : j \notin Range(batch'[w])
  <2>1. j \in Intents /\ (j = i \/ (j \in Range(index) /\ j # Existing(i)))
    BY <1>1, <1>2
  <2>2. CASE j = i
    <3>1. fate'[i] \in {"new", "accepted"}
      BY <1>1, <1>3
    <3> QED BY <1>5, <2>2, <3>1 DEF Open
  <2>3. CASE j # i
    <3>1. j \in Range(index) /\ fate'[j] = fate[j] /\ status'[j] = status[j]
      BY <1>1, <1>2, <1>3, <2>1, <2>3
    <3> QED BY <1>5, <3>1 DEF OpenInv
  <2> QED BY <2>2, <2>3
<1> QED BY <1>4, <1>5 DEF OpenInv

LEMMA StepOpen ==
  ASSUME TypeInv, BatchInv, OpenInv, [Next]_vars
  PROVE  OpenInv'
<1>0. /\ status \in [Intents -> Statuses] /\ Range(index) \subseteq Intents /\ ListInv
      /\ fate \in [Intents -> {"new", "accepted", "superseded", "acked", "failed"}]
  BY DEF TypeInv, TypeOK, ListInv, Range
<1>1. ASSUME NEW i \in Intents, Enqueue(i) PROVE OpenInv'
  <2>1. EnqueueWrites(i, 4) /\ batch' = batch
    BY <1>1 DEF Enqueue, threads
  <2> QED BY <2>1, EnqueueOpen
<1>2. ASSUME NEW i \in Intents, EnqueueCut(i) PROVE OpenInv'
  <2>1. PICK n \in 1..3 : EnqueueWrites(i, n) /\ Restart
    BY <1>2 DEF EnqueueCut
  <2>2. \A w \in Workers : Range(batch'[w]) = {}
    BY <2>1, RestartLeaves
  <2>3. n \in 1..4
    OBVIOUS
  <2> QED BY <2>1, <2>2, <2>3, EnqueueOpen
<1>3. ASSUME NEW i \in Intents, FallDue(i) \/ Lapse(i) PROVE OpenInv'
  BY <1>3, OpenKept DEF FallDue, Lapse, threads
<1>4. ASSUME NEW w \in Workers, Reclaim(w) PROVE OpenInv'
  <2>1. /\ index' = index /\ fate' = fate /\ batch' = batch
        /\ \A i \in Intents : \/ status'[i] = status[i]
                              \/ status[i] = "claimed" /\ status'[i] = "pending"
    BY <1>4 DEF Reclaim, MayReturn
  <2> QED BY <2>1, OpenKept
<1>5. ASSUME NEW w \in Workers, Claim(w) PROVE OpenInv'
  <2>1. PICK taken \in SUBSET (Range(index) \cap Intents), got \in Seq(Intents) :
          HandsOut(w, taken, got)
    BY <1>5, ClaimHandsOut
  <2>2. batch \in [Workers -> Seq(Intents)] /\ batch' = [batch EXCEPT ![w] = got]
    BY <2>1 DEF HandsOut, TypeInv, TypeOK
  <2>3. \A v \in Workers : batch'[v] = IF v = w THEN got ELSE batch[v]
    BY <2>2
  <2>4. /\ Range(got) = taken /\ index' = index /\ fate' = fate
        /\ \A i \in taken : status[i] = "pending"
        /\ status' = [i \in Intents |-> IF i \in taken THEN "claimed" ELSE status[i]]
    BY <2>1 DEF HandsOut
  <2>5. \A v \in Workers : Range(batch'[v]) \subseteq
          Range(batch[v]) \cup {i \in Intents : status[i] = "pending"}
    BY <2>3, <2>4
  <2> QED BY <2>4, <2>5, OpenKept
<1>6. ASSUME NEW w \in Workers, Submit(w) PROVE OpenInv'
  BY <1>6, OpenKept DEF Submit, store
<1>7. ASSUME NEW w \in Workers, Ack(w) \/ Fail(w) PROVE OpenInv'
  <2> DEFINE i == Head(batch[w])
  <2>1. Advance(w) /\ pc[w] \in {"submit", "ack", "fail"}
    BY <1>7 DEF Ack, Fail
  <2>2. \A v \in Workers : Range(batch'[v]) \subseteq Range(batch[v])
    BY <2>1, AdvanceLeaves
  <2>3. i \in Intents /\ i \in Range(batch[w])
    BY <2>1, BatchOf
  <2> HIDE DEF i
  <2>4. CASE AckWrites(i, 3)
    <3>1. Range(index') = Range(index) \ {i}
      BY <1>0, <2>4, AckList
    <3> QED BY <1>0, <2>2, <2>3, <2>4, <3>1, OpenSettled DEF AckWrites
  <2>5. CASE FailWrites(i, 2)
    <3>a. Range(index') = IF LastAttempt(i) THEN Range(index) \ {i} ELSE Range(index)
      BY <1>0, <2>5, FailList
    <3>b. ~LastAttempt(i) => fate'[i] = fate[i]
      BY <1>0, <2>3, <2>5 DEF FailWrites
    <3>1. \/ Range(index') = Range(index) \ {i}
          \/ Range(index') = Range(index) /\ fate'[i] = fate[i]
      BY <3>a, <3>b
    <3>2. i \in Range(index) => fate[i] \in Open
      BY <2>3 DEF OpenInv
    <3>3. /\ status'[i] # "none"
          /\ \A j \in Intents \ {i} : status'[j] = status[j] /\ fate'[j] = fate[j]
      BY <1>0, <2>3, <2>5 DEF FailWrites
    <3> QED BY <2>2, <2>3, <3>1, <3>2, <3>3, OpenSettled
  <2>6. CASE UNCHANGED <<store, fate>>
    BY <2>2, <2>6, OpenKept DEF store
  <2> QED BY <1>7, <2>4, <2>5, <2>6 DEF Ack, Fail, i
<1>8. ASSUME NEW w \in Workers, SettleCut(w) PROVE OpenInv'
  <2> DEFINE i == Head(batch[w])
  <2>1. i \in Intents /\ i \in Range(batch[w])
    BY <1>8, BatchOf DEF SettleCut
  <2>2. \A v \in Workers : Range(batch'[v]) = {}
    BY <1>8, RestartLeaves DEF SettleCut
  <2> HIDE DEF i
  <2>3. ASSUME NEW n \in 1..2, AckWrites(i, n) PROVE OpenInv'
    <3>1. Range(index') = Range(index)
      BY <1>0, <2>3, AckList
    <3> QED BY <1>0, <2>1, <2>2, <2>3, <3>1, OpenSettled DEF AckWrites
  <2>4. CASE FailWrites(i, 1)
    <3>1. /\ Range(index') = Range(index)
          /\ status'[i] = IF LastAttempt(i) THEN "failed" ELSE "pending"
          /\ ~LastAttempt(i) => fate'[i] = fate[i]
          /\ \A j \in Intents \ {i} : status'[j] = status[j] /\ fate'[j] = fate[j]
      BY <1>0, <2>1, <2>4, FailList DEF FailWrites
    <3>2. i \in Range(index) => fate[i] \in Open
      BY <2>1 DEF OpenInv
    <3> QED BY <2>1, <2>2, <3>1, <3>2, OpenSettled
  <2> QED BY <1>8, <2>3, <2>4 DEF SettleCut, i
<1>9. CASE Crash
  BY <1>9, RestartLeaves, OpenKept DEF Crash, store
<1>10. CASE Gate \/ UNCHANGED vars
  BY <1>10, OpenKept DEF Gate, vars, store, threads
<1> QED
  BY <1>1, <1>2, <1>3, <1>4, <1>5, <1>6, <1>7, <1>8, <1>9, <1>10 DEF Next, Drain

----------------------------------------------------------------------------
(* The coalesce map *)

LEMMA StepLatest ==
  ASSUME TypeInv, LatestInv, [Next]_vars
  PROVE  LatestInv'
<1>0. latest \in [Keys -> Intents \cup {None}]
  BY DEF TypeInv, TypeOK
<1>1. ASSUME NEW i \in Intents, Enqueue(i) \/ EnqueueCut(i) PROVE LatestInv'
  <2>1. \/ latest' = latest
        \/ KeyOf[i] \in Keys /\ latest' = [latest EXCEPT ![KeyOf[i]] = i]
    BY <1>1 DEF Enqueue, EnqueueCut, EnqueueWrites
  <2> QED BY <1>0, <2>1 DEF LatestInv
<1>2. ASSUME NEW w \in Workers, Ack(w) \/ Fail(w) \/ SettleCut(w) PROVE LatestInv'
  <2>1. \/ latest' = latest
        \/ latest' = [k \in Keys |-> IF k = KeyOf[Head(batch[w])]
                                        /\ latest[k] = Head(batch[w])
                                     THEN None ELSE latest[k]]
    BY <1>2 DEF Ack, Fail, SettleCut, AckWrites, FailWrites, store
  <2> QED BY <1>0, <2>1 DEF LatestInv
<1>3. CASE latest' = latest
  BY <1>3 DEF LatestInv
<1>4. \/ latest' = latest
      \/ \E i \in Intents : Enqueue(i) \/ EnqueueCut(i)
      \/ \E w \in Workers : Ack(w) \/ Fail(w) \/ SettleCut(w)
  BY DEF Next, Drain, vars, store, FallDue, Lapse, Reclaim, Claim, Submit, Gate, Crash
<1> QED BY <1>1, <1>2, <1>3, <1>4

----------------------------------------------------------------------------
(* Runs, as long as nothing lapsed or crashed *)

LEMMA StepRun ==
  ASSUME TypeInv, BatchInv, RunInv, [Next]_vars
  PROVE  RunInv'
<1> SUFFICES ASSUME lapses' = 0, crashes' = 0 PROVE RunInv'
  BY DEF RunInv
<1>0. /\ lapses \in Nat /\ crashes \in Nat
      /\ status \in [Intents -> Statuses] /\ holds \in [Workers -> SUBSET Intents]
      /\ pc \in [Workers -> {"idle", "claim", "submit", "ack", "fail"}]
      /\ batch \in [Workers -> Seq(Intents)]
      /\ owner \in [Intents -> Claimers \cup {None}] /\ ran \subseteq Intents
      /\ \A w \in Workers : holds[w] \subseteq Intents
  BY DEF TypeInv, TypeOK, Statuses
<1>a. ~Restart /\ lapses = 0 /\ crashes = 0
  <2>1. crashes' = crashes \/ crashes' = crashes + 1
    BY DEF Next, Drain, Enqueue, EnqueueCut, FallDue, Lapse, Reclaim, Claim, Submit, Ack,
           Fail, SettleCut, Gate, Crash, Restart, Advance, counts, vars
  <2>2. lapses' = lapses \/ lapses' = lapses + 1
    BY DEF Next, Drain, Enqueue, EnqueueCut, FallDue, Lapse, Reclaim, Claim, Submit, Ack,
           Fail, SettleCut, Gate, Crash, Restart, Advance, counts, vars
  <2>3. Restart => crashes' = crashes + 1
    BY DEF Restart
  <2> QED BY <1>0, <2>1, <2>2, <2>3
<1>b. /\ \A w \in Workers : holds[w] = Range(batch[w])
      /\ \A v, w \in Workers : v # w => holds[v] \cap holds[w] = {}
      /\ \A w \in Workers : \A i \in holds[w] :
           status[i] = "claimed" /\ owner[i] = ClaimerOf[w] /\ i \notin lapsed
      /\ \A i \in ran :
           status[i] = "done" \/ \E w \in Workers : pc[w] = "ack" /\ Head(batch[w]) = i
  BY <1>a DEF RunInv
<1>1. ASSUME NEW i \in Intents, Enqueue(i) PROVE RunInv'
  <2>1. /\ UNCHANGED <<holds, batch, pc, owner, lapsed, ran>> /\ status[i] = "none"
        /\ status' = [status EXCEPT ![i] = "pending"]
    BY <1>1 DEF Enqueue, EnqueueWrites, threads
  <2> QED BY <1>0, <1>b, <2>1 DEF RunInv
<1>2. ASSUME NEW i \in Intents, FallDue(i) PROVE RunInv'
  BY <1>2, <1>b DEF FallDue, threads, RunInv
<1>3. ASSUME NEW i \in Intents, Lapse(i) PROVE RunInv'
  <2>1. ~Held(i)
    BY <1>0, <1>a, <1>3 DEF Lapse
  <2>2. \A w \in Workers : holds'[w] = holds[w] /\ i \notin holds[w]
    BY <1>3, <2>1 DEF Lapse, Held
  <2> QED BY <1>3, <1>b, <2>2 DEF Lapse, RunInv
<1>4. ASSUME NEW w \in Workers, Reclaim(w) PROVE RunInv'
  <2>1. /\ UNCHANGED <<holds, batch, ran>> /\ pc[w] = "idle"
        /\ pc' = [pc EXCEPT ![w] = "claim"] /\ lapsed' \subseteq lapsed
        /\ \A i \in Intents : \/ status'[i] = status[i] /\ owner'[i] = owner[i]
                              \/ status[i] = "claimed" /\ i \in lapsed
    BY <1>4 DEF Reclaim, MayReturn
  <2>2. \A v \in Workers : pc[v] = "ack" => pc'[v] = "ack"
    BY <1>0, <2>1
  <2> QED BY <1>0, <1>b, <2>1, <2>2 DEF RunInv
<1>5. ASSUME NEW w \in Workers, Claim(w) PROVE RunInv'
  <2>1. PICK taken \in SUBSET (Range(index) \cap Intents), got \in Seq(Intents) :
          HandsOut(w, taken, got)
    BY <1>5, ClaimHandsOut
  <2>2. /\ \A i \in taken : status[i] = "pending"
        /\ taken \subseteq Intents /\ Range(got) = taken
        /\ \A i \in Intents : /\ status'[i] = IF i \in taken THEN "claimed" ELSE status[i]
                              /\ owner'[i] = IF i \in taken THEN ClaimerOf[w] ELSE owner[i]
        /\ lapsed' = lapsed \ taken /\ ran' = ran
    BY <2>1 DEF HandsOut
  <2>3. \A v \in Workers : /\ batch'[v] = IF v = w THEN got ELSE batch[v]
                           /\ holds'[v] = IF v = w THEN taken ELSE holds[v]
                           /\ pc[v] = "ack" => pc'[v] = "ack" /\ v # w
    BY <1>0, <1>5, <2>1 DEF HandsOut, Claim
  <2>4. \A v \in Workers : holds'[v] = Range(batch'[v])
    BY <1>b, <2>2, <2>3
  <2>5. \A v \in Workers : \A i \in holds[v] : i \notin taken
    BY <1>b, <2>2
  <2>6. \A u, v \in Workers : u # v => holds'[u] \cap holds'[v] = {}
    BY <1>b, <2>3, <2>5
  <2>7. \A v \in Workers : \A i \in holds'[v] :
          status'[i] = "claimed" /\ owner'[i] = ClaimerOf[v] /\ i \notin lapsed'
    BY <1>0, <1>b, <2>2, <2>3, <2>5
  <2>8. \A i \in ran : \/ status'[i] = "done"
                       \/ \E v \in Workers : pc'[v] = "ack" /\ Head(batch'[v]) = i
    <3>1. \A i \in Intents : status[i] = "done" => status'[i] = "done"
      BY <2>2
    <3>2. \A v \in Workers : pc[v] = "ack" => pc'[v] = "ack" /\ batch'[v] = batch[v]
      BY <2>3
    <3>3. \A i \in ran :
            status[i] = "done" \/ \E v \in Workers : pc[v] = "ack" /\ Head(batch[v]) = i
      BY <1>b
    <3>4. ran \subseteq Intents
      BY <1>0
    <3> QED BY <3>1, <3>2, <3>3, <3>4
  <2> QED BY <2>2, <2>4, <2>6, <2>7, <2>8 DEF RunInv
<1>6. ASSUME NEW w \in Workers, Submit(w) PROVE RunInv'
  <2>1. /\ UNCHANGED <<holds, batch, status, owner, lapsed>> /\ pc[w] = "submit"
        /\ \/ pc'[w] = "ack" /\ ran' = ran \cup {Head(batch[w])}
           \/ ran' = ran
        /\ \A v \in Workers \ {w} : pc'[v] = pc[v]
    BY <1>0, <1>6 DEF Submit, store
  <2> QED BY <1>0, <1>b, <2>1 DEF RunInv
<1>7. ASSUME NEW w \in Workers, Ack(w) \/ Fail(w) PROVE RunInv'
  <2> DEFINE i == Head(batch[w])
  <2>1. Advance(w) /\ pc[w] \in {"submit", "ack", "fail"}
    BY <1>7 DEF Ack, Fail
  <2>2. i \in Intents /\ i \in holds[w]
    BY <1>b, <2>1, BatchOf
  <2>3. MaySettle(i, w)
    BY <1>b, <2>2 DEF MaySettle
  <2>4. \/ pc[w] = "ack" /\ AckWrites(i, 3)
        \/ pc[w] = "fail" /\ FailWrites(i, 2)
    BY <1>7, <2>3 DEF Ack, Fail
  <2>5. \A v \in Workers :
          /\ Range(batch'[v]) = IF v = w THEN Range(batch[v]) \ {i} ELSE Range(batch[v])
          /\ v # w => batch'[v] = batch[v]
    BY <2>1, AdvanceLeaves
  <2>6. /\ \A v \in Workers : /\ holds'[v] = IF v = w THEN holds[v] \ {i} ELSE holds[v]
                              /\ v # w => pc'[v] = pc[v]
        /\ ran' = ran
    BY <1>0, <2>1 DEF Advance
  <2> HIDE DEF i
  <2>7. /\ \A j \in Intents \ {i} : status'[j] = status[j] /\ owner'[j] = owner[j]
        /\ lapsed' \subseteq lapsed
        /\ pc[w] = "ack" => status'[i] = "done"
    BY <1>0, <2>2, <2>4 DEF AckWrites, FailWrites
  <2>8. \A v \in Workers : holds'[v] = Range(batch'[v]) /\ i \notin holds'[v]
                             /\ holds'[v] \subseteq holds[v]
    BY <1>b, <2>2, <2>5, <2>6
  <2>9. \A u, v \in Workers : u # v => holds'[u] \cap holds'[v] = {}
    BY <1>b, <2>8
  <2>10. \A v \in Workers : \A j \in holds'[v] :
           status'[j] = "claimed" /\ owner'[j] = ClaimerOf[v] /\ j \notin lapsed'
    BY <1>0, <1>b, <2>7, <2>8
  <2>11. ASSUME NEW j \in ran
         PROVE  \/ status'[j] = "done"
                \/ \E v \in Workers : pc'[v] = "ack" /\ Head(batch'[v]) = j
    <3>1. CASE status[j] = "done"
      BY <1>0, <1>b, <2>2, <2>7, <3>1
    <3>2. ASSUME NEW v \in Workers, pc[v] = "ack", Head(batch[v]) = j
          PROVE  \/ status'[j] = "done"
                 \/ \E u \in Workers : pc'[u] = "ack" /\ Head(batch'[u]) = j
      <4>1. CASE v = w
        BY <2>7, <3>2, <4>1 DEF i
      <4>2. CASE v # w
        BY <2>5, <2>6, <3>2, <4>2
      <4> QED BY <4>1, <4>2
    <3> QED BY <1>b, <3>1, <3>2
  <2> QED BY <2>6, <2>8, <2>9, <2>10, <2>11 DEF RunInv
<1>8. CASE Gate \/ UNCHANGED vars
  BY <1>b, <1>8 DEF Gate, vars, store, threads, RunInv
<1> QED
  BY <1>a, <1>1, <1>2, <1>3, <1>4, <1>5, <1>6, <1>7, <1>8
  DEF Next, Drain, EnqueueCut, SettleCut, Crash

----------------------------------------------------------------------------
(* The invariant, and what follows of it for a step *)

LEMMA InitQueueInv == Init => QueueInv
<1> SUFFICES ASSUME Init PROVE QueueInv
  OBVIOUS
<1>1. Range(<<>>) = {} /\ IsInjective(<<>>)
  BY DEF Range, IsInjective
<1>2. BatchInv /\ OpenInv
  BY <1>1 DEF Init, BatchInv, OpenInv
<1>3. LatestInv /\ RunInv
  BY <1>1 DEF Init, LatestInv, RunInv
<1> QED BY <1>2, <1>3 DEF QueueInv

LEMMA QueueInvariant == Spec => [](TypeInv /\ QueueInv)
<1>1. TypeInv /\ QueueInv /\ [Next]_vars => TypeInv' /\ QueueInv'
  BY StepTypes, StepBatch, StepOpen, StepLatest, StepRun DEF QueueInv
<1> QED BY <1>1, InitTypes, InitQueueInv, PTL DEF Spec

\* WorkPlane and its store: no thread's batch repeats an intent; an intent the
\* index lists is open, or was settled by a call that was cut off; and while no
\* lease lapses and nothing crashes, what ran is acknowledged or about to be.
THEOREM QueueInvHolds == Spec => []QueueInv
BY QueueInvariant, PTL

\* WorkIntentStore.claim_due, with crashes and lapses: what it hands out was
\* never acknowledged, failed for good or replaced.
THEOREM OpenClaims == Spec => ClaimsAreOpen
<1> DEFINE Kept == \A w \in Workers : \A i \in Range(batch'[w]) \ Range(batch[w]) :
                     fate[i] \in Open
<1>1. TypeInv /\ QueueInv /\ [Next]_vars => [Kept]_vars
  <2> SUFFICES ASSUME TypeInv, QueueInv, [Next]_vars PROVE Kept
    OBVIOUS
  <2>1. BatchInv /\ OpenInv
    BY DEF QueueInv
  <2>2. ASSUME NEW w \in Workers, Claim(w) PROVE Kept
    <3>1. PICK taken \in SUBSET (Range(index) \cap Intents), got \in Seq(Intents) :
            HandsOut(w, taken, got)
      BY <2>2, ClaimHandsOut
    <3>2. /\ batch \in [Workers -> Seq(Intents)] /\ batch' = [batch EXCEPT ![w] = got]
          /\ Range(got) = taken /\ \A i \in taken : status[i] = "pending"
      BY <3>1 DEF HandsOut, TypeInv, TypeOK
    <3>3. \A v \in Workers : batch'[v] = IF v = w THEN got ELSE batch[v]
      BY <3>2
    <3>4. \A i \in taken : fate[i] \in Open
      BY <2>1, <3>2 DEF OpenInv
    <3> QED BY <3>2, <3>3, <3>4
  <2>3. ASSUME NEW w \in Workers, Ack(w) \/ Fail(w) PROVE Kept
    <3>1. Advance(w) /\ pc[w] \in {"submit", "ack", "fail"}
      BY <2>3 DEF Ack, Fail
    <3>2. \A v \in Workers : Range(batch'[v]) \subseteq Range(batch[v])
      BY <2>1, <3>1, AdvanceLeaves
    <3> QED BY <3>2
  <2>4. CASE Restart
    BY <2>4, RestartLeaves
  <2>5. CASE batch' = batch
    BY <2>5
  <2>6. batch' = batch \/ Restart \/ \E w \in Workers : Claim(w) \/ Ack(w) \/ Fail(w)
    BY DEF Next, Drain, vars, threads, Enqueue, EnqueueCut, FallDue, Lapse, Reclaim,
           Submit, SettleCut, Gate, Crash
  <2> QED BY <2>2, <2>3, <2>4, <2>5, <2>6
<1> QED BY <1>1, QueueInvariant, PTL DEF Spec, ClaimsAreOpen

\* WorkPlane.tick: where no lease lapses and nothing crashes, no intent's flow is
\* submitted again once its submit_flow has returned.
THEOREM EachRunsOnce == Spec => RunsOnce
<1> DEFINE Kept == \A w \in Workers :
              pc[w] = "submit" /\ pc'[w] # "submit" /\ lapses = 0 /\ crashes' = 0
                => Head(batch[w]) \notin ran
<1>1. TypeInv /\ QueueInv /\ [Next]_vars => [Kept]_vars
  <2> SUFFICES ASSUME TypeInv, QueueInv, [Next]_vars, NEW w \in Workers,
                      pc[w] = "submit", lapses = 0, crashes' = 0, Head(batch[w]) \in ran
               PROVE  FALSE
    OBVIOUS
  <2> DEFINE i == Head(batch[w])
  <2>1. crashes' = crashes \/ crashes' = crashes + 1
    BY DEF Next, Drain, Enqueue, EnqueueCut, FallDue, Lapse, Reclaim, Claim, Submit, Ack,
           Fail, SettleCut, Gate, Crash, Restart, Advance, counts, vars
  <2>2. crashes = 0 /\ RunInv /\ BatchInv
    BY <2>1 DEF TypeInv, TypeOK, QueueInv
  <2>3. i \in holds[w] /\ status[i] = "claimed"
    BY <2>2, BatchOf DEF RunInv
  <2>4. PICK v \in Workers : pc[v] = "ack" /\ Head(batch[v]) = i
    BY <2>2, <2>3 DEF RunInv
  <2>5. v # w /\ i \in holds[v]
    BY <2>2, <2>4, BatchOf DEF RunInv
  <2> QED BY <2>2, <2>3, <2>5 DEF RunInv
<1> QED BY <1>1, QueueInvariant, PTL DEF Spec, RunsOnce

----------------------------------------------------------------------------
(* The plane implements the queue *)

LEMMA QueueInit == Init => Queue!Init
<1> SUFFICES ASSUME Init PROVE Queue!Init
  OBVIOUS
<1>1. Range(<<>>) = {}
  BY DEF Range
<1>2. \A w \in Workers : Range(batch[w]) = {}
  BY <1>1 DEF Init
<1>3. [w \in Workers |-> Range(batch[w])] = [w \in Workers |-> {}]
  BY <1>2, Zenon
<1> QED BY <1>3 DEF Init, Queue!Init

LEMMA QueueUntouched ==
  ASSUME UNCHANGED <<batch, holds, fate>>
  PROVE  UNCHANGED Queue!vars
BY DEF Queue!vars, Queue!hands

LEMMA RestartLosesAll ==
  ASSUME Restart
  PROVE  Queue!Lost
<1>1. \A w \in Workers : Range(batch'[w]) = {}
  BY RestartLeaves
<1>2. [w \in Workers |-> Range(batch'[w])] = [w \in Workers |-> {}]
  BY <1>1, Zenon
<1> QED BY <1>2 DEF Restart, Queue!Lost

LEMMA RestartEnds ==
  ASSUME Restart, fate' = fate
  PROVE  Queue!Next
BY RestartLosesAll DEF Queue!End, Queue!Next

LEMMA AdvanceFinishes ==
  ASSUME TypeInv, BatchInv, NEW w \in Workers, pc[w] \in {"submit", "ack", "fail"},
         Advance(w)
  PROVE  Queue!Finished(w, Head(batch[w]))
<1> DEFINE i == Head(batch[w])
           work == [v \in Workers |-> Range(batch[v])]
<1>1. \A v \in Workers :
        Range(batch'[v]) = IF v = w THEN Range(batch[v]) \ {i} ELSE Range(batch[v])
  BY AdvanceLeaves
<1>2. holds' = [holds EXCEPT ![w] = holds[w] \ {i}]
  BY DEF Advance
<1> HIDE DEF i
<1>3. [v \in Workers |-> Range(batch'[v])]
        = [v \in Workers |-> IF v = w THEN Range(batch[v]) \ {i} ELSE Range(batch[v])]
  BY <1>1, Zenon
<1>4. [v \in Workers |-> Range(batch'[v])] = [work EXCEPT ![w] = work[w] \ {i}]
  BY <1>3
<1> QED BY <1>2, <1>4 DEF Queue!Finished, i

\* What an enqueue does to fates, cut off or not.
LEMMA EnqueueAccepts ==
  ASSUME TypeInv, OpenInv, LatestInv, NEW i \in Intents, NEW n \in 1..4,
         EnqueueWrites(i, n)
  PROVE  \/ fate' = fate /\ n < 4
         \/ \E old \in Intents \cup {None} :
              /\ n >= 3 /\ fate[i] = "new"
              /\ old # None => /\ old # i /\ fate[old] \in Open
                               /\ KeyOf[i] \in Keys /\ KeyOf[old] = KeyOf[i]
              /\ fate' = [j \in Intents |-> IF j = old THEN "superseded"
                                            ELSE IF j = i /\ n >= 4 THEN "accepted"
                                            ELSE fate[j]]
<1>0. /\ status[i] = "none" /\ fate[i] = "new" /\ i \notin Range(index)
      /\ fate \in [Intents -> {"new", "accepted", "superseded", "acked", "failed"}]
      /\ latest \in [Keys -> Intents \cup {None}]
      /\ Range(index) \subseteq Intents /\ None \notin Intents
  BY ClaimAssumption DEF EnqueueWrites, OpenInv, TypeInv, TypeOK, ListInv, Range
<1>1. fate' = [j \in Intents |->
                IF j \in Range(index) /\ j = Existing(i) /\ fate[j] \in Open /\ n >= 3
                  THEN "superseded"
                ELSE IF j = i /\ n >= 4 THEN "accepted" ELSE fate[j]]
  BY DEF EnqueueWrites
<1>2. CASE Existing(i) \in Range(index) /\ fate[Existing(i)] \in Open /\ n >= 3
  <2> DEFINE old == Existing(i)
  <2>1. /\ old \in Intents /\ old # i /\ fate[old] \in Open
        /\ KeyOf[i] \in Keys /\ KeyOf[old] = KeyOf[i]
    BY <1>0, <1>2 DEF Existing, LatestInv
  <2>2. \A j \in Intents :
          (j \in Range(index) /\ j = old /\ fate[j] \in Open /\ n >= 3) <=> j = old
    BY <1>2
  <2> HIDE DEF old
  <2>3. fate' = [j \in Intents |-> IF j = old THEN "superseded"
                                   ELSE IF j = i /\ n >= 4 THEN "accepted" ELSE fate[j]]
    BY <1>1, <2>2 DEF old
  <2> QED BY <1>0, <1>2, <2>1, <2>3
<1>3. CASE ~(Existing(i) \in Range(index) /\ fate[Existing(i)] \in Open /\ n >= 3)
  <2>1. fate' = [j \in Intents |-> IF j = i /\ n >= 4 THEN "accepted" ELSE fate[j]]
    BY <1>1, <1>3
  <2>2. CASE n < 4
    BY <1>0, <2>1, <2>2
  <2>3. CASE n >= 4
    <3>1. fate' = [j \in Intents |-> IF j = None THEN "superseded"
                                     ELSE IF j = i /\ n >= 4 THEN "accepted" ELSE fate[j]]
      BY <1>0, <2>1
    <3> QED BY <1>0, <2>3, <3>1
  <2> QED BY <2>2, <2>3
<1> QED BY <1>2, <1>3

\* A settlement the plane allows is one of the queue's: nobody else's lease runs.
LEMMA SettlementIsFree ==
  ASSUME OwnClaimerIds, TypeInv, BatchInv, LeaseInv, NEW w \in Workers,
         pc[w] \in {"ack", "fail"}, MaySettle(Head(batch[w]), w),
         Queue!Finished(w, Head(batch[w])) \/ Queue!Lost,
         LET i == Head(batch[w])
         IN  \/ \E n \in 1..3 : AckWrites(i, n)
             \/ \E n \in 1..2 : FailWrites(i, n)
  PROVE  Queue!Next
<1> DEFINE i == Head(batch[w])
<1>1. /\ i \in Intents /\ i \in Range(batch[w])
      /\ fate \in [Intents -> {"new", "accepted", "superseded", "acked", "failed"}]
  BY BatchOf DEF TypeInv, TypeOK
<1>2. \A v \in Workers \ {w} : i \notin holds[v]
  BY ClaimAssumption DEF LeaseInv, OwnClaimerIds, MaySettle
<1> HIDE DEF i
<1>3. \/ fate' = [fate EXCEPT ![i] = "acked"]
      \/ fate[i] # "acked" /\ fate' = [fate EXCEPT ![i] = "failed"]
      \/ fate' = fate
  <2>1. CASE \E n \in 1..3 : AckWrites(i, n)
    BY <2>1 DEF AckWrites
  <2>2. CASE \E n \in 1..2 : FailWrites(i, n)
    <3>1. fate' = [fate EXCEPT ![i] = IF LastAttempt(i) /\ fate[i] # "acked"
                                      THEN "failed" ELSE fate[i]]
      BY <2>2 DEF FailWrites
    <3>2. CASE LastAttempt(i) /\ fate[i] # "acked"
      BY <3>1, <3>2
    <3>3. CASE ~(LastAttempt(i) /\ fate[i] # "acked")
      BY <1>1, <3>1, <3>3
    <3> QED BY <3>2, <3>3
  <2> QED BY <2>1, <2>2 DEF i
<1>4. i \in [v \in Workers |-> Range(batch[v])][w]
  BY <1>1
<1>5. Queue!Settle(w, i)
  BY <1>2, <1>3, <1>4 DEF Queue!Settle, i
<1> QED BY <1>1, <1>5 DEF Queue!Next

LEMMA QueueStep ==
  ASSUME OwnClaimerIds, TypeInv, QueueInv, LeaseInv, [Next]_vars
  PROVE  [Queue!Next]_(Queue!vars)
<1> SUFFICES Queue!Next \/ UNCHANGED Queue!vars
  OBVIOUS
<1>0. BatchInv /\ OpenInv /\ LatestInv
  BY DEF QueueInv
<1>1. ASSUME NEW i \in Intents, Enqueue(i) PROVE Queue!Next
  <2>1. EnqueueWrites(i, 4) /\ UNCHANGED <<batch, holds>> /\ 4 \in 1..4
    BY <1>1 DEF Enqueue, threads
  <2>2. PICK old \in Intents \cup {None} :
          /\ fate[i] = "new"
          /\ old # None => /\ old # i /\ fate[old] \in Open
                           /\ KeyOf[i] \in Keys /\ KeyOf[old] = KeyOf[i]
          /\ fate' = [j \in Intents |-> IF j = old THEN "superseded"
                                        ELSE IF j = i /\ TRUE THEN "accepted"
                                        ELSE fate[j]]
    BY <1>0, <2>1, EnqueueAccepts
  <2>3. UNCHANGED Queue!hands
    BY <2>1 DEF Queue!hands
  <2>4. Queue!Accept(i, old)
    BY <2>2, <2>3 DEF Queue!Accept, Queue!Open, Open
  <2> QED BY <2>4 DEF Queue!Next
<1>2. ASSUME NEW i \in Intents, EnqueueCut(i) PROVE Queue!Next
  <2>1. PICK n \in 1..3 : EnqueueWrites(i, n) /\ Restart
    BY <1>2 DEF EnqueueCut
  <2>2. n \in 1..4 /\ ~(n >= 4)
    OBVIOUS
  <2>3. CASE fate' = fate
    BY <2>1, <2>3, RestartEnds
  <2>4. ASSUME NEW old \in Intents \cup {None},
               fate[i] = "new",
               old # None => /\ old # i /\ fate[old] \in Open
                             /\ KeyOf[i] \in Keys /\ KeyOf[old] = KeyOf[i],
               fate' = [j \in Intents |-> IF j = old THEN "superseded"
                                          ELSE IF j = i /\ FALSE THEN "accepted"
                                          ELSE fate[j]]
        PROVE  Queue!Next
    <3>1. Queue!Lost
      BY <2>1, RestartLosesAll
    <3>2. Queue!Accept(i, old)
      BY <2>4, <3>1 DEF Queue!Accept, Queue!Open, Open
    <3> QED BY <3>2 DEF Queue!Next
  <2> QED BY <1>0, <2>1, <2>2, <2>3, <2>4, EnqueueAccepts
<1>3. ASSUME NEW i \in Intents, Lapse(i) PROVE Queue!Next
  <2>1. Queue!Lapse(i)
    BY <1>3 DEF Lapse, Queue!Lapse
  <2> QED BY <2>1 DEF Queue!Next
<1>4. ASSUME NEW w \in Workers, Claim(w) PROVE Queue!Next
  <2>1. PICK taken \in SUBSET (Range(index) \cap Intents), got \in Seq(Intents) :
          HandsOut(w, taken, got)
    BY <1>4, ClaimHandsOut
  <2>2. /\ \A i \in taken : status[i] = "pending" /\ i \in Range(index)
        /\ taken \subseteq Intents /\ Range(got) = taken
        /\ batch' = [batch EXCEPT ![w] = got] /\ holds' = [holds EXCEPT ![w] = taken]
        /\ fate' = fate /\ batch \in [Workers -> Seq(Intents)]
    BY <2>1 DEF HandsOut, TypeInv, TypeOK
  <2>3. \A i \in taken : fate[i] \in Open /\ \A v \in Workers : i \notin holds[v]
    BY <1>0, <2>2 DEF OpenInv, LeaseInv
  <2> DEFINE work == [v \in Workers |-> Range(batch[v])]
  <2>4. work[w] = {}
    <3>1. batch[w] = <<>>
      BY <1>4 DEF Claim, TypeInv, TypeOK
    <3> QED BY <3>1 DEF Range
  <2>5. \A v \in Workers : Range(batch'[v]) = IF v = w THEN taken ELSE Range(batch[v])
    BY <2>2
  <2>6. [v \in Workers |-> Range(batch'[v])]
          = [v \in Workers |-> IF v = w THEN taken ELSE Range(batch[v])]
    BY <2>5, Zenon
  <2>7. [v \in Workers |-> Range(batch'[v])] = [work EXCEPT ![w] = taken]
    BY <2>6
  <2>8. Queue!HandOut(w, taken)
    BY <2>2, <2>3, <2>4, <2>7 DEF Queue!HandOut, Queue!Open, Open
  <2> QED BY <2>2, <2>8 DEF Queue!Next
<1>5. ASSUME NEW w \in Workers, Ack(w) \/ Fail(w) PROVE Queue!Next
  <2>1. Advance(w) /\ pc[w] \in {"ack", "fail"}
    BY <1>5 DEF Ack, Fail
  <2>2. Queue!Finished(w, Head(batch[w]))
    BY <1>0, <2>1, AdvanceFinishes
  <2>3. CASE MaySettle(Head(batch[w]), w)
    BY <1>0, <1>5, <2>1, <2>2, <2>3, SettlementIsFree DEF Ack, Fail
  <2>4. CASE ~MaySettle(Head(batch[w]), w)
    <3>1. fate' = fate
      BY <1>5, <2>4 DEF Ack, Fail
    <3>2. Head(batch[w]) \in Intents /\ Head(batch[w]) \in Range(batch[w])
      BY <1>0, <2>1, BatchOf
    <3>3. Queue!Refuse(w, Head(batch[w]))
      BY <2>2, <3>1, <3>2 DEF Queue!Refuse
    <3> QED BY <3>2, <3>3 DEF Queue!Next
  <2> QED BY <2>3, <2>4
<1>6. ASSUME NEW w \in Workers, SettleCut(w) PROVE Queue!Next
  <2>1. Queue!Lost
    BY <1>6, RestartLosesAll DEF SettleCut
  <2> QED BY <1>0, <1>6, <2>1, SettlementIsFree DEF SettleCut
<1>7. CASE Crash
  BY <1>7, RestartEnds DEF Crash
<1>8. CASE UNCHANGED <<batch, holds, fate>>
  BY <1>8, QueueUntouched
<1>9. \/ UNCHANGED <<batch, holds, fate>> \/ Crash
      \/ \E i \in Intents : Enqueue(i) \/ EnqueueCut(i) \/ Lapse(i)
      \/ \E w \in Workers : Claim(w) \/ Ack(w) \/ Fail(w) \/ SettleCut(w)
  BY DEF Next, Drain, vars, threads, FallDue, Reclaim, Submit, Gate
<1> QED BY <1>1, <1>2, <1>3, <1>4, <1>5, <1>6, <1>7, <1>8, <1>9

\* store.py and plane.py, with crashes inside and between the operations and with
\* leases that lapse: when every thread has a claimer id of its own, every
\* behaviour of the work plane is one of the work queue.
THEOREM PlaneImplementsQueue ==
  ASSUME OwnClaimerIds
  PROVE  Spec => ImplementsQueue
<1>1. LeaseInv /\ TypeInv /\ [Next]_vars => LeaseInv'
  BY StepLease DEF TypeInv
<1>2. TypeInv /\ QueueInv /\ LeaseInv /\ [Next]_vars => [Queue!Next]_(Queue!vars)
  BY QueueStep
<1> QED
  BY <1>1, <1>2, QueueInvariant, InitLease, QueueInit, PTL
  DEF Spec, ImplementsQueue, Queue!Spec
=============================================================================
