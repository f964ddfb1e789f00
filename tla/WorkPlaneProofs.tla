-------------------------- MODULE WorkPlaneProofs --------------------------
(***************************************************************************)
(* What WorkIntentStore keeps for any number of intents, keys and drain    *)
(* threads.  While the process does not crash: one intent per coalesce     *)
(* key, no accepted intent forgotten; both follow from IndexInv.  With     *)
(* crashes too: the index repeats nothing (ListInv), batches and leases    *)
(* are what their threads rely on (TypeInv), and a running lease belongs   *)
(* to one thread (LeaseInv).                                               *)
(***************************************************************************)
EXTENDS WorkPlane, IndexLemmas, FiniteSetTheorems

----------------------------------------------------------------------------
(* The pending index, crashes included *)

Statuses == {"none", "pending", "claimed", "done", "failed"}

\* The index repeats nothing and lists stored intents only: enqueue appends a
\* new one, remove takes out the only one.
ListInv ==
  /\ status \in [Intents -> Statuses]
  /\ index \in Seq(Intents)
  /\ IsInjective(index)
  /\ \A i \in Range(index) : status[i] # "none"

LEMMA InitList == Init => ListInv
BY DEF Init, ListInv, Statuses, IsInjective, Range

\* A step that adds nothing to the index and takes no intent out of the store.
LEMMA ListShrinks ==
  ASSUME ListInv, index' \in Seq(Intents), IsInjective(index'),
         Range(index') \subseteq Range(index),
         status' \in [Intents -> Statuses],
         \A i \in Intents : status'[i] = "none" => status[i] = "none"
  PROVE  ListInv'
<1>1. Range(index') \subseteq Intents
  BY DEF Range
<1>2. \A i \in Range(index') : status'[i] # "none"
  BY <1>1 DEF ListInv
<1> QED BY <1>2 DEF ListInv

\* What the first n writes of enqueue, ack and fail leave in the index.
LEMMA EnqueueList ==
  ASSUME ListInv, NEW i \in Intents, NEW n \in 1..4, EnqueueWrites(i, n)
  PROVE  /\ ListInv'
         /\ Range(index') = (Range(index) \ {Existing(i)})
                               \cup (IF n < 3 THEN {} ELSE {i})
<1> DEFINE kept == RemoveFirst(index, Existing(i))
<1>1. /\ kept \in Seq(Intents) /\ IsInjective(kept)
      /\ Range(kept) = Range(index) \ {Existing(i)}
  BY RemoveFromDistinct DEF ListInv
<1>2. i \notin Range(index) /\ index' = IF n < 3 THEN kept ELSE Append(kept, i)
  BY DEF ListInv, EnqueueWrites
<1>3. status' = IF n < 2 THEN status ELSE [status EXCEPT ![i] = "pending"]
  BY DEF EnqueueWrites
<1> HIDE DEF kept
<1>4. CASE n < 3
  BY <1>1, <1>2, <1>3, <1>4 DEF ListInv, Statuses
<1>5. CASE n >= 3
  <2>1. i \notin Range(kept) /\ index' = Append(kept, i)
    BY <1>1, <1>2, <1>5
  <2>2. /\ index' \in Seq(Intents) /\ IsInjective(index')
        /\ Range(index') = Range(kept) \cup {i}
    BY <1>1, <2>1, AppendNew
  <2> QED BY <1>1, <1>3, <1>5, <2>2 DEF ListInv, Statuses
<1> QED BY <1>4, <1>5

LEMMA AckList ==
  ASSUME ListInv, NEW i, NEW n \in 1..3, AckWrites(i, n)
  PROVE  /\ ListInv'
         /\ Range(index') = IF n < 3 THEN Range(index) ELSE Range(index) \ {i}
<1>1. /\ index' = IF n < 3 THEN index ELSE RemoveFirst(index, i)
      /\ status' = [status EXCEPT ![i] = "done"]
  BY DEF AckWrites
<1>2. CASE n < 3
  <2>1. status' \in [Intents -> Statuses]
    BY <1>1 DEF ListInv, Statuses
  <2>2. \A j \in Intents : status'[j] = "none" => status[j] = "none"
    BY <1>1 DEF ListInv
  <2>3. index' = index
    BY <1>1, <1>2
  <2> QED BY <1>2, <2>1, <2>2, <2>3, ListShrinks DEF ListInv
<1>3. CASE n >= 3
  <2>1. /\ index' \in Seq(Intents) /\ IsInjective(index')
        /\ Range(index') = Range(index) \ {i}
    BY <1>1, <1>3, RemoveFromDistinct DEF ListInv
  <2>2. status' \in [Intents -> Statuses]
    BY <1>1 DEF ListInv, Statuses
  <2>3. \A j \in Intents : status'[j] = "none" => status[j] = "none"
    BY <1>1 DEF ListInv
  <2>4. Range(index') \subseteq Range(index)
    BY <2>1
  <2>5. ListInv'
    BY <2>1, <2>2, <2>3, <2>4, ListShrinks
  <2> QED BY <1>3, <2>1, <2>5
<1> QED BY <1>2, <1>3

LEMMA FailList ==
  ASSUME ListInv, NEW i, NEW n \in 1..2, FailWrites(i, n)
  PROVE  /\ ListInv'
         /\ Range(index') = IF LastAttempt(i) /\ n >= 2
                            THEN Range(index) \ {i} ELSE Range(index)
<1>1. /\ index' = IF LastAttempt(i) /\ n >= 2 THEN RemoveFirst(index, i) ELSE index
      /\ status' = [status EXCEPT ![i] =
                      IF LastAttempt(i) THEN "failed" ELSE "pending"]
  BY DEF FailWrites
<1>a. status' \in [Intents -> Statuses]
  BY <1>1 DEF ListInv, Statuses
<1>b. \A j \in Intents : status'[j] = "none" => status[j] = "none"
  BY <1>1 DEF ListInv
<1>2. CASE LastAttempt(i) /\ n >= 2
  <2>1. /\ index' \in Seq(Intents) /\ IsInjective(index')
        /\ Range(index') = Range(index) \ {i}
    BY <1>1, <1>2, RemoveFromDistinct DEF ListInv
  <2>2. Range(index') \subseteq Range(index)
    BY <2>1
  <2>3. ListInv'
    BY <1>a, <1>b, <2>1, <2>2, ListShrinks
  <2> QED BY <1>2, <2>1, <2>3
<1>3. CASE ~(LastAttempt(i) /\ n >= 2)
  <2>1. index' = index
    BY <1>1, <1>3
  <2>2. ListInv'
    BY <1>a, <1>b, <2>1, ListShrinks DEF ListInv
  <2> QED BY <1>3, <2>1, <2>2
<1> QED BY <1>2, <1>3

\* What Claim takes: pending intents of the index.
LEMMA ClaimTakes ==
  ASSUME ListInv, NEW w \in Workers, Claim(w)
  PROVE  \E taken \in SUBSET Intents :
           /\ \A i \in taken : status[i] = "pending"
           /\ status' = [i \in Intents |->
                          IF i \in taken THEN "claimed" ELSE status[i]]
           /\ owner' = [i \in Intents |->
                          IF i \in taken THEN ClaimerOf[w] ELSE owner[i]]
           /\ lapsed' = lapsed \ taken
           /\ holds' = [holds EXCEPT ![w] = taken]
           /\ UNCHANGED <<index, latest, fate, crashes>>
<1> DEFINE ahead(n) == {m \in 1..(n - 1) : Claimable(index[m])}
           first == {n \in 1..Len(index) : /\ Claimable(index[n])
                                           /\ Cardinality(ahead(n)) < Batch}
           taken == {index[n] : n \in first}
<1>1. taken \in SUBSET Intents /\ \A i \in taken : status[i] = "pending"
  <2>1. \A n \in first : index[n] \in Intents /\ status[index[n]] = "pending"
    <3>1. \A n \in 1..Len(index) : index[n] \in Intents
      BY DEF ListInv
    <3>2. \A n \in first : n \in 1..Len(index) /\ Claimable(index[n])
      OBVIOUS
    <3> QED BY <3>1, <3>2 DEF Claimable
  <2> HIDE DEF first
  <2> QED BY <2>1
<1>2. /\ status' = [i \in Intents |-> IF i \in taken THEN "claimed" ELSE status[i]]
      /\ owner' = [i \in Intents |-> IF i \in taken THEN ClaimerOf[w] ELSE owner[i]]
      /\ lapsed' = lapsed \ taken
      /\ holds' = [holds EXCEPT ![w] = taken]
      /\ UNCHANGED <<index, latest, fate, crashes>>
  BY DEF Claim, counts
<1> HIDE DEF taken
<1> QED BY <1>1, <1>2

LEMMA StepList ==
  ASSUME ListInv, [Next]_vars
  PROVE  ListInv'
<1>1. ASSUME NEW i \in Intents, Enqueue(i) \/ EnqueueCut(i) PROVE ListInv'
  BY <1>1, EnqueueList DEF Enqueue, EnqueueCut
<1>2. ASSUME NEW i \in Intents, FallDue(i) \/ Lapse(i) PROVE ListInv'
  BY <1>2 DEF FallDue, Lapse, ListInv
<1>3. ASSUME NEW w \in Workers, Reclaim(w) PROVE ListInv'
  <2>1. status' \in [Intents -> Statuses]
    BY <1>3 DEF Reclaim, ListInv, Statuses
  <2>2. \A i \in Intents : status'[i] = "none" => status[i] = "none"
    BY <1>3 DEF Reclaim
  <2>3. index' = index
    BY <1>3 DEF Reclaim
  <2> QED BY <2>1, <2>2, <2>3, ListShrinks DEF ListInv
<1>4. ASSUME NEW w \in Workers, Claim(w) PROVE ListInv'
  <2>1. PICK taken \in SUBSET Intents :
          /\ status' = [i \in Intents |->
                          IF i \in taken THEN "claimed" ELSE status[i]]
          /\ index' = index
    BY <1>4, ClaimTakes
  <2>2. status' \in [Intents -> Statuses]
    BY <2>1 DEF ListInv, Statuses
  <2>3. \A i \in Intents : status'[i] = "none" => status[i] = "none"
    BY <2>1
  <2> QED BY <2>1, <2>2, <2>3, ListShrinks DEF ListInv
<1>5. ASSUME NEW w \in Workers, Submit(w) PROVE ListInv'
  BY <1>5 DEF Submit, ListInv, store
<1>6. ASSUME NEW w \in Workers, Ack(w) \/ Fail(w) \/ SettleCut(w) PROVE ListInv'
  <2>1. CASE \E n \in 1..3 : AckWrites(Head(batch[w]), n)
    BY <2>1, AckList
  <2>2. CASE \E n \in 1..2 : FailWrites(Head(batch[w]), n)
    BY <2>2, FailList
  <2>3. CASE UNCHANGED <<store, fate>>
    BY <2>3 DEF ListInv, store
  <2> QED BY <1>6, <2>1, <2>2, <2>3 DEF Ack, Fail, SettleCut
<1>7. CASE Gate \/ Crash \/ UNCHANGED vars
  BY <1>7 DEF Gate, Crash, vars, ListInv, store
<1> QED BY <1>1, <1>2, <1>3, <1>4, <1>5, <1>6, <1>7 DEF Next, Drain

----------------------------------------------------------------------------
(* Type correctness *)

\* What Claim gives the thread: a batch of what it takes.
LEMMA ClaimBatches ==
  ASSUME TypeOK, NEW w \in Workers, Claim(w)
  PROVE  \E taken \in SUBSET Intents, got \in Seq(Intents) :
           /\ Range(got) = taken
           /\ batch' = [batch EXCEPT ![w] = got]
           /\ holds' = [holds EXCEPT ![w] = taken]
           /\ pc' = [pc EXCEPT ![w] = IF taken = {} THEN "idle" ELSE "submit"]
           /\ UNCHANGED <<due, attempt, index, latest, able, fate, ran, counts>>
<1> DEFINE ahead(n) == {m \in 1..(n - 1) : Claimable(index[m])}
           first == {n \in 1..Len(index) : /\ Claimable(index[n])
                                           /\ Cardinality(ahead(n)) < Batch}
           taken == {index[n] : n \in first}
<1>1. taken \subseteq Intents
  <2>1. \A n \in 1..Len(index) : index[n] \in Intents
    BY DEF TypeOK
  <2>2. first \subseteq 1..Len(index)
    OBVIOUS
  <2> HIDE DEF first
  <2> QED BY <2>1, <2>2
<1>2. IsFiniteSet(taken)
  <2>1. IsFiniteSet(1..Len(index))
    BY FS_Interval DEF TypeOK
  <2>2. first \subseteq 1..Len(index)
    OBVIOUS
  <2> HIDE DEF first
  <2>3. IsFiniteSet(first)
    BY <2>1, <2>2, FS_Subset
  <2> DEFINE at == [n \in first |-> index[n]]
  <2>4. at \in Surjection(first, taken)
    BY DEF Surjection
  <2> HIDE DEF at, taken
  <2> QED BY <2>3, <2>4, FS_Surjection
<1>3. /\ \E got \in [1..Cardinality(taken) -> taken] :
           InIndexOrder(got, taken) /\ batch' = [batch EXCEPT ![w] = got]
      /\ holds' = [holds EXCEPT ![w] = taken]
      /\ pc' = [pc EXCEPT ![w] = IF taken = {} THEN "idle" ELSE "submit"]
      /\ UNCHANGED <<due, attempt, index, latest, able, fate, ran, counts>>
  BY DEF Claim
<1> HIDE DEF taken
<1>4. Cardinality(taken) \in Nat
  BY <1>2, FS_CardinalityType
<1>5. PICK got \in [1..Cardinality(taken) -> taken] :
        Range(got) = taken /\ batch' = [batch EXCEPT ![w] = got]
  BY <1>3 DEF InIndexOrder
<1>6. got \in Seq(Intents)
  BY <1>1, <1>4
<1> QED BY <1>1, <1>3, <1>5, <1>6

\* What a thread keeps of its batch, and of its leases on it.
LEMMA RestOfBatch ==
  ASSUME NEW s \in Seq(Intents), s # <<>>, NEW H \in SUBSET Range(s)
  PROVE  /\ Head(s) \in Intents /\ Tail(s) \in Seq(Intents)
         /\ H \ {Head(s)} \subseteq Range(Tail(s))
<1>1. /\ Head(s) = s[1] /\ Head(s) \in Intents /\ Tail(s) \in Seq(Intents)
      /\ Len(Tail(s)) = Len(s) - 1 /\ \A m \in 1..Len(Tail(s)) : Tail(s)[m] = s[m + 1]
  BY HeadTailProperties, HeadAndTail
<1>2. ASSUME NEW n \in 1..Len(s), s[n] # Head(s)
      PROVE  s[n] \in Range(Tail(s))
  <2>1. n # 1
    BY <1>1, <1>2
  <2>2. n - 1 \in 1..Len(Tail(s)) /\ (n - 1) + 1 = n
    BY <1>1, <2>1
  <2>3. Tail(s)[n - 1] = s[n]
    BY <1>1, <2>2
  <2>4. DOMAIN Tail(s) = 1..Len(Tail(s))
    BY <1>1
  <2> DEFINE rest == Tail(s)
  <2> HIDE DEF rest
  <2>5. n - 1 \in DOMAIN rest /\ rest[n - 1] = s[n]
    BY <2>2, <2>3, <2>4 DEF rest
  <2>6. s[n] \in Range(rest)
    BY <2>5 DEF Range
  <2> QED BY <2>6 DEF rest
<1> QED BY <1>1, <1>2 DEF Range

TypeInv == TypeOK /\ ListInv /\ holds \in [Workers -> SUBSET Intents]

\* What the writes of enqueue, ack and fail leave of the types of the store.
StoreTypes ==
  /\ status \in [Intents -> Statuses]
  /\ owner \in [Intents -> Claimers \cup {None}]
  /\ lapsed \subseteq {i \in Intents : status[i] = "claimed"}
  /\ due \subseteq Intents
  /\ attempt \in [Intents -> Nat]
  /\ index \in Seq(Intents)
  /\ latest \in [Keys -> Intents \cup {None}]
  /\ fate \in [Intents -> {"new", "accepted", "superseded", "acked", "failed"}]

ThreadTypes ==
  /\ able \in BOOLEAN
  /\ pc \in [Workers -> {"idle", "claim", "submit", "ack", "fail"}]
  /\ batch \in [Workers -> Seq(Intents)]
  /\ \A w \in Workers : pc[w] \in {"submit", "ack", "fail"} <=> batch[w] # <<>>
  /\ \A w \in Workers : holds[w] \subseteq Range(batch[w])
  /\ holds \in [Workers -> SUBSET Intents]
  /\ ran \subseteq Intents
  /\ lapses \in 0..MaxLapses /\ crashes \in 0..MaxCrashes

LEMMA Types == TypeInv <=> StoreTypes /\ ThreadTypes /\ ListInv
  BY DEF TypeInv, TypeOK, StoreTypes, ThreadTypes, Statuses

LEMMA TypesNext == TypeInv' <=> StoreTypes' /\ ThreadTypes' /\ ListInv'
  BY DEF TypeInv, TypeOK, StoreTypes, ThreadTypes, Statuses

LEMMA EnqueueTypes ==
  ASSUME StoreTypes, ListInv, NEW i \in Intents, NEW n \in 1..4, EnqueueWrites(i, n)
  PROVE  StoreTypes'
<1>1. status[i] = "none" /\ UNCHANGED <<owner, lapsed, due, attempt>>
  BY DEF EnqueueWrites
<1>2. index' \in Seq(Intents)
  BY EnqueueList DEF ListInv
<1>3. /\ status' \in [Intents -> Statuses]
      /\ \A j \in Intents : status[j] = "claimed" => status'[j] = "claimed"
  BY <1>1 DEF EnqueueWrites, StoreTypes, Statuses
<1>4. latest' \in [Keys -> Intents \cup {None}]
  BY DEF EnqueueWrites, StoreTypes
<1>5. fate' \in [Intents -> {"new", "accepted", "superseded", "acked", "failed"}]
  BY DEF EnqueueWrites, StoreTypes
<1> QED BY <1>1, <1>2, <1>3, <1>4, <1>5 DEF StoreTypes

LEMMA AckTypes ==
  ASSUME StoreTypes, ListInv, NEW i \in Intents, NEW n \in 1..3, AckWrites(i, n)
  PROVE  StoreTypes'
<1>1. index' \in Seq(Intents)
  BY AckList DEF ListInv
<1>2. latest' \in [Keys -> Intents \cup {None}]
  BY DEF AckWrites, StoreTypes
<1> QED BY <1>1, <1>2 DEF AckWrites, StoreTypes, Statuses

LEMMA FailTypes ==
  ASSUME StoreTypes, ListInv, NEW i \in Intents, NEW n \in 1..2, FailWrites(i, n)
  PROVE  StoreTypes'
<1>1. index' \in Seq(Intents)
  BY FailList DEF ListInv
<1>2. /\ status' = [status EXCEPT ![i] = IF LastAttempt(i) THEN "failed" ELSE "pending"]
      /\ owner' = [owner EXCEPT ![i] = None] /\ lapsed' = lapsed \ {i}
      /\ attempt' = [attempt EXCEPT ![i] = attempt[i] + 1]
      /\ fate' = [fate EXCEPT ![i] = IF LastAttempt(i) /\ fate[i] # "acked"
                                     THEN "failed" ELSE fate[i]]
      /\ UNCHANGED <<due, latest>>
  BY DEF FailWrites
<1> QED BY <1>1, <1>2 DEF StoreTypes, Statuses

LEMMA RestartTypes ==
  ASSUME ThreadTypes, Restart
  PROVE  ThreadTypes'
<1>1. \A w \in Workers : batch'[w] = <<>> /\ holds'[w] = {} /\ pc'[w] = "idle"
  BY DEF Restart
<1>2. crashes' \in 0..MaxCrashes
  BY LimitAssumption DEF Restart, ThreadTypes
<1>3. /\ pc' \in [Workers -> {"idle"}] /\ batch' \in [Workers -> Seq(Intents)]
      /\ holds' \in [Workers -> SUBSET Intents]
  BY EmptySeq DEF Restart
<1>4. able' \in BOOLEAN /\ UNCHANGED <<ran, lapses>>
  BY DEF Restart
<1> QED BY <1>1, <1>2, <1>3, <1>4 DEF ThreadTypes

LEMMA AdvanceTypes ==
  ASSUME ThreadTypes, NEW w \in Workers, batch[w] # <<>>, Advance(w)
  PROVE  ThreadTypes'
<1>1. /\ Tail(batch[w]) \in Seq(Intents)
      /\ holds[w] \ {Head(batch[w])} \subseteq Range(Tail(batch[w]))
  BY RestOfBatch DEF ThreadTypes
<1> DEFINE rest == Tail(batch[w])
           kept == holds[w] \ {Head(batch[w])}
<1>2. /\ batch' = [batch EXCEPT ![w] = rest] /\ holds' = [holds EXCEPT ![w] = kept]
      /\ pc' = [pc EXCEPT ![w] = IF rest = <<>> THEN "idle" ELSE "submit"]
      /\ UNCHANGED <<able, ran, lapses, crashes>>
  BY DEF Advance, counts
<1>3. kept \in SUBSET Intents
  BY DEF ThreadTypes
<1> HIDE DEF rest, kept
<1>4. /\ batch' \in [Workers -> Seq(Intents)] /\ holds' \in [Workers -> SUBSET Intents]
      /\ pc' \in [Workers -> {"idle", "claim", "submit", "ack", "fail"}]
  BY <1>1, <1>2, <1>3 DEF ThreadTypes, rest
<1>5. ASSUME NEW v \in Workers
      PROVE  /\ pc'[v] \in {"submit", "ack", "fail"} <=> batch'[v] # <<>>
             /\ holds'[v] \subseteq Range(batch'[v])
  BY <1>1, <1>2 DEF ThreadTypes, rest, kept
<1> QED BY <1>2, <1>4, <1>5 DEF ThreadTypes

LEMMA ClaimStoreTypes ==
  ASSUME StoreTypes, ListInv, NEW w \in Workers, Claim(w)
  PROVE  StoreTypes'
<1>1. PICK taken \in SUBSET Intents :
        /\ status' = [i \in Intents |-> IF i \in taken THEN "claimed" ELSE status[i]]
        /\ owner' = [i \in Intents |-> IF i \in taken THEN ClaimerOf[w] ELSE owner[i]]
        /\ lapsed' = lapsed \ taken
        /\ UNCHANGED <<index, latest, fate>>
  BY ClaimTakes
<1>2. UNCHANGED <<due, attempt>>
  BY DEF Claim
<1>3. status' \in [Intents -> Statuses] /\ owner' \in [Intents -> Claimers \cup {None}]
  BY <1>1 DEF StoreTypes, Statuses, Claimers
<1> QED BY <1>1, <1>2, <1>3 DEF StoreTypes

LEMMA StepTypes ==
  ASSUME TypeInv, [Next]_vars
  PROVE  TypeInv'
<1>0. /\ TypeOK /\ ListInv /\ StoreTypes /\ ThreadTypes /\ ListInv'
  BY Types, StepList DEF TypeInv
<1>a. \A w \in Workers : pc[w] \in {"submit", "ack", "fail"}
        => batch[w] # <<>> /\ Head(batch[w]) \in Intents
  BY <1>0, HeadAndTail DEF ThreadTypes
<1> SUFFICES StoreTypes' /\ ThreadTypes'
  BY <1>0, TypesNext
<1>1. ASSUME NEW i \in Intents, Enqueue(i) PROVE StoreTypes' /\ ThreadTypes'
  BY <1>0, <1>1, EnqueueTypes DEF Enqueue, ThreadTypes, threads, counts
<1>2. ASSUME NEW i \in Intents, EnqueueCut(i) PROVE StoreTypes' /\ ThreadTypes'
  BY <1>0, <1>2, EnqueueTypes, RestartTypes DEF EnqueueCut
<1>3. ASSUME NEW i \in Intents, FallDue(i) PROVE StoreTypes' /\ ThreadTypes'
  BY <1>0, <1>3 DEF FallDue, StoreTypes, ThreadTypes, threads, counts
<1>4. ASSUME NEW i \in Intents, Lapse(i) PROVE StoreTypes' /\ ThreadTypes'
  <2>1. StoreTypes'
    BY <1>0, <1>4 DEF Lapse, StoreTypes
  <2>2. lapses' \in 0..MaxLapses
    BY <1>0, <1>4, LimitAssumption DEF Lapse, ThreadTypes
  <2>3. ThreadTypes'
    BY <1>0, <1>4, <2>2 DEF Lapse, ThreadTypes
  <2> QED BY <2>1, <2>3
<1>5. ASSUME NEW w \in Workers, Reclaim(w) PROVE StoreTypes' /\ ThreadTypes'
  <2>1. StoreTypes'
    <3> DEFINE expired == {i \in Range(index) : MayReturn(i)}
    <3>1. /\ status' = [i \in Intents |-> IF i \in expired THEN "pending" ELSE status[i]]
          /\ owner' = [i \in Intents |-> IF i \in expired THEN None ELSE owner[i]]
          /\ lapsed' = lapsed \ expired
          /\ UNCHANGED <<due, attempt, index, latest, fate>>
      BY <1>5 DEF Reclaim
    <3> HIDE DEF expired
    <3> QED BY <1>0, <3>1 DEF StoreTypes, Statuses
  <2>2. ThreadTypes'
    BY <1>0, <1>5 DEF Reclaim, ThreadTypes, counts
  <2> QED BY <2>1, <2>2
<1>6. ASSUME NEW w \in Workers, Claim(w) PROVE StoreTypes' /\ ThreadTypes'
  <2>1. PICK taken \in SUBSET Intents, got \in Seq(Intents) :
          /\ Range(got) = taken
          /\ batch' = [batch EXCEPT ![w] = got]
          /\ holds' = [holds EXCEPT ![w] = taken]
          /\ pc' = [pc EXCEPT ![w] = IF taken = {} THEN "idle" ELSE "submit"]
          /\ UNCHANGED <<able, ran, counts>>
    BY <1>0, <1>6, ClaimBatches
  <2>2. taken = {} <=> got = <<>>
    BY <2>1, EmptySeq DEF Range
  <2>3. pc[w] = "claim" /\ pc[w] \in {"idle", "claim", "submit", "ack", "fail"}
    BY <1>0, <1>6 DEF Claim
  <2>4. ThreadTypes'
    BY <1>0, <2>1, <2>2, <2>3 DEF ThreadTypes, counts
  <2> QED BY <1>0, <1>6, <2>4, ClaimStoreTypes
<1>7. ASSUME NEW w \in Workers, Submit(w) PROVE StoreTypes' /\ ThreadTypes'
  BY <1>0, <1>a, <1>7 DEF Submit, StoreTypes, ThreadTypes, store, counts
<1>8. ASSUME NEW w \in Workers, Ack(w) PROVE StoreTypes' /\ ThreadTypes'
  <2>1. batch[w] # <<>> /\ Head(batch[w]) \in Intents
    BY <1>a, <1>8 DEF Ack
  <2>2. AckWrites(Head(batch[w]), 3) \/ UNCHANGED <<store, fate>>
    BY <1>8 DEF Ack
  <2>3. StoreTypes'
    <3>1. CASE AckWrites(Head(batch[w]), 3)
      <4>1. PICK i \in Intents, n \in 1..3 : i = Head(batch[w]) /\ AckWrites(i, n)
        BY <2>1, <3>1
      <4> QED BY <1>0, <4>1, AckTypes
    <3>2. CASE UNCHANGED <<store, fate>>
      BY <1>0, <3>2 DEF StoreTypes, store
    <3> QED BY <2>2, <3>1, <3>2
  <2> QED BY <1>0, <1>8, <2>1, <2>3, AdvanceTypes DEF Ack
<1>9. ASSUME NEW w \in Workers, Fail(w) PROVE StoreTypes' /\ ThreadTypes'
  <2>1. batch[w] # <<>> /\ Head(batch[w]) \in Intents
    BY <1>a, <1>9 DEF Fail
  <2>2. FailWrites(Head(batch[w]), 2) \/ UNCHANGED <<store, fate>>
    BY <1>9 DEF Fail
  <2>3. StoreTypes'
    <3>1. CASE FailWrites(Head(batch[w]), 2)
      <4>1. PICK i \in Intents, n \in 1..2 : i = Head(batch[w]) /\ FailWrites(i, n)
        BY <2>1, <3>1
      <4> QED BY <1>0, <4>1, FailTypes
    <3>2. CASE UNCHANGED <<store, fate>>
      BY <1>0, <3>2 DEF StoreTypes, store
    <3> QED BY <2>2, <3>1, <3>2
  <2> QED BY <1>0, <1>9, <2>1, <2>3, AdvanceTypes DEF Fail
<1>10. ASSUME NEW w \in Workers, SettleCut(w) PROVE StoreTypes' /\ ThreadTypes'
  <2>1. Head(batch[w]) \in Intents
    BY <1>a, <1>10 DEF SettleCut
  <2>2. (\E n \in 1..2 : AckWrites(Head(batch[w]), n)) \/ FailWrites(Head(batch[w]), 1)
    BY <1>10 DEF SettleCut
  <2>3. StoreTypes'
    BY <1>0, <2>1, <2>2, AckTypes, FailTypes
  <2> QED BY <1>0, <1>10, <2>3, RestartTypes DEF SettleCut
<1>11. CASE Gate
  BY <1>0, <1>11 DEF Gate, StoreTypes, ThreadTypes, store, threads, counts
<1>12. CASE Crash
  BY <1>0, <1>12, RestartTypes DEF Crash, StoreTypes, store
<1>13. CASE UNCHANGED vars
  BY <1>0, <1>13 DEF vars, StoreTypes, ThreadTypes, store, threads, counts
<1> QED
  BY <1>1, <1>2, <1>3, <1>4, <1>5, <1>6, <1>7, <1>8, <1>9, <1>10, <1>11, <1>12, <1>13
  DEF Next, Drain

LEMMA InitTypes == Init => TypeInv
<1> SUFFICES ASSUME Init PROVE TypeInv
  OBVIOUS
<1>1. StoreTypes
  BY EmptySeq DEF Init, StoreTypes, Statuses
<1>2. 0 \in 0..MaxLapses /\ 0 \in 0..MaxCrashes
  BY LimitAssumption
<1>3. \A w \in Workers : pc[w] = "idle" /\ batch[w] = <<>> /\ holds[w] = {}
  BY DEF Init
<1>4. /\ batch \in [Workers -> Seq(Intents)] /\ holds \in [Workers -> SUBSET Intents]
      /\ pc \in [Workers -> {"idle"}]
  BY EmptySeq DEF Init
<1>5. ThreadTypes
  BY <1>2, <1>3, <1>4 DEF Init, ThreadTypes
<1> QED BY <1>1, <1>5, InitList, Types

\* WorkIntentStore and its drain threads: a lapsed lease is of a claimed intent,
\* a thread holds leases only on what it still has in its batch.
THEOREM WorkTypeCorrect == Spec => []TypeOK
<1>1. TypeInv => TypeOK
  BY DEF TypeInv
<1> QED BY <1>1, InitTypes, StepTypes, PTL DEF Spec

----------------------------------------------------------------------------
(* The coalesce map and the fate of intents, without a crash *)

IndexTypes ==
  /\ latest \in [Keys -> Intents \cup {None}]
  /\ fate \in [Intents -> {"new", "accepted", "superseded", "acked", "failed"}]
  /\ crashes \in Nat

IndexInv == IndexTypes /\ CoalesceOne /\ NothingForgotten

LEMMA InitIndex == Init => IndexInv
BY DEF Init, IndexInv, IndexTypes, CoalesceOne, NothingForgotten, Range

LEMMA IndexUntouched ==
  ASSUME IndexInv, UNCHANGED <<index, latest, fate, crashes>>
  PROVE  IndexInv'
BY DEF IndexInv, IndexTypes, CoalesceOne, NothingForgotten, Range

LEMMA StepIndex ==
  ASSUME MaxCrashes = 0, ListInv, IndexInv, [Next]_vars
  PROVE  IndexInv'
<1>0. ~ Restart
  BY DEF Restart, IndexInv, IndexTypes
<1>1. ASSUME NEW i \in Intents, Enqueue(i) PROVE IndexInv'
  <2>1. EnqueueWrites(i, 4) /\ crashes' = crashes
    BY <1>1 DEF Enqueue, counts
  <2>2. Range(index') = (Range(index) \ {Existing(i)}) \cup {i}
    BY <2>1, EnqueueList
  <2>3. IndexTypes'
    BY <2>1, KeyAssumption DEF IndexInv, IndexTypes, EnqueueWrites
  <2>4. CoalesceOne'
    BY <2>1, <2>2 DEF IndexInv, IndexTypes, EnqueueWrites, CoalesceOne, Existing
  <2>5. NothingForgotten'
    BY <2>1, <2>2 DEF IndexInv, IndexTypes, EnqueueWrites, NothingForgotten, Open
  <2> QED BY <2>3, <2>4, <2>5 DEF IndexInv
<1>2. ASSUME NEW w \in Workers, Ack(w) PROVE IndexInv'
  <2> DEFINE i == Head(batch[w])
  <2>1. crashes' = crashes
    BY <1>2 DEF Ack, Advance, counts
  <2>2. CASE AckWrites(i, 3)
    <3>1. Range(index') = Range(index) \ {i}
      BY <2>2, AckList
    <3>2. IndexTypes'
      BY <2>1, <2>2 DEF IndexInv, IndexTypes, AckWrites
    <3>3. CoalesceOne'
      BY <2>2, <3>1 DEF IndexInv, IndexTypes, AckWrites, CoalesceOne
    <3>4. NothingForgotten'
      BY <2>2, <3>1 DEF IndexInv, IndexTypes, AckWrites, NothingForgotten
    <3> QED BY <3>2, <3>3, <3>4 DEF IndexInv
  <2>3. CASE UNCHANGED <<store, fate>>
    BY <2>1, <2>3, IndexUntouched DEF store
  <2> QED BY <1>2, <2>2, <2>3 DEF Ack
<1>3. ASSUME NEW w \in Workers, Fail(w) PROVE IndexInv'
  <2> DEFINE i == Head(batch[w])
  <2>1. crashes' = crashes
    BY <1>3 DEF Fail, Advance, counts
  <2>2. CASE FailWrites(i, 2)
    <3>1. Range(index') = IF LastAttempt(i) THEN Range(index) \ {i} ELSE Range(index)
      BY <2>2, FailList
    <3>2. IndexTypes'
      BY <2>1, <2>2 DEF IndexInv, IndexTypes, FailWrites
    <3>3. CoalesceOne'
      BY <2>2, <3>1 DEF IndexInv, IndexTypes, FailWrites, CoalesceOne
    <3>4. NothingForgotten'
      BY <2>2, <3>1 DEF IndexInv, IndexTypes, FailWrites, NothingForgotten
    <3> QED BY <3>2, <3>3, <3>4 DEF IndexInv
  <2>3. CASE UNCHANGED <<store, fate>>
    BY <2>1, <2>3, IndexUntouched DEF store
  <2> QED BY <1>3, <2>2, <2>3 DEF Fail
<1>4. ASSUME NEW w \in Workers, Claim(w) PROVE IndexInv'
  BY <1>4, ClaimTakes, IndexUntouched
<1>5. ASSUME NEW w \in Workers, Reclaim(w) \/ Submit(w) PROVE IndexInv'
  BY <1>5, IndexUntouched DEF Reclaim, Submit, counts, store
<1>6. ASSUME NEW i \in Intents, FallDue(i) \/ Lapse(i) PROVE IndexInv'
  BY <1>6, IndexUntouched DEF FallDue, Lapse, counts
<1>7. CASE Gate \/ UNCHANGED vars
  BY <1>7, IndexUntouched DEF Gate, vars, counts, store
<1> QED
  BY <1>0, <1>1, <1>2, <1>3, <1>4, <1>5, <1>6, <1>7
  DEF Next, Drain, EnqueueCut, SettleCut, Crash

\* WorkIntentStore, without a crash: at most one intent per coalesce key is in the
\* index, the one the coalesce map names.
THEOREM OnePerKey ==
  ASSUME MaxCrashes = 0
  PROVE  Spec => []CoalesceOne
<1>1. IndexInv => CoalesceOne
  BY DEF IndexInv
<1> QED BY InitList, StepList, InitIndex, StepIndex, <1>1, PTL DEF Spec

\* WorkIntentStore, without a crash: an accepted intent stays in the index until
\* it is done, failed for good or replaced.
THEOREM NoneForgotten ==
  ASSUME MaxCrashes = 0
  PROVE  Spec => []NothingForgotten
<1>1. IndexInv => NothingForgotten
  BY DEF IndexInv
<1> QED BY InitList, StepList, InitIndex, StepIndex, <1>1, PTL DEF Spec

----------------------------------------------------------------------------
(* Leases *)

LeaseTypes ==
  /\ status \in [Intents -> Statuses]
  /\ owner \in [Intents -> Claimers \cup {None}]
  /\ holds \in [Workers -> SUBSET Intents]

\* The inductive invariant: the entry of an intent held under a running lease
\* says so, and names its holder.
LeaseInv ==
  /\ LeaseTypes
  /\ \A w \in Workers : \A i \in holds[w] :
       status[i] = "claimed" /\ owner[i] = ClaimerOf[w] /\ i \notin lapsed

OwnClaimerIds == \A v, w \in Workers : v # w => ClaimerOf[v] # ClaimerOf[w]

LEMMA InitLease == Init => LeaseInv
BY DEF Init, LeaseInv, LeaseTypes, Statuses

\* A settlement a thread's claimer id allows touches no other thread's lease.
LEMMA SettleKeepsLease ==
  ASSUME OwnClaimerIds, LeaseInv, NEW w \in Workers,
         AckWrites(Head(batch[w]), 3) \/ FailWrites(Head(batch[w]), 2),
         MaySettle(Head(batch[w]), w), Advance(w)
  PROVE  LeaseInv'
<1> DEFINE i == Head(batch[w])
<1> HIDE DEF i
<1>1. \E s \in {"done", "failed", "pending"} :
        /\ status' = [status EXCEPT ![i] = s]
        /\ owner' = [owner EXCEPT ![i] = None]
        /\ lapsed' = lapsed \ {i}
  BY DEF AckWrites, FailWrites, i
<1>2. holds' = [holds EXCEPT ![w] = holds[w] \ {i}]
  BY DEF Advance, i
<1>3. LeaseTypes'
  BY <1>1, <1>2 DEF LeaseInv, LeaseTypes, Statuses
<1>4. \A v \in Workers : i \notin holds'[v]
  BY <1>2, ClaimAssumption DEF OwnClaimerIds, LeaseInv, LeaseTypes, Statuses, MaySettle, i
<1>5. \A v \in Workers : holds'[v] \subseteq holds[v]
  BY <1>2 DEF LeaseInv, LeaseTypes, Statuses
<1> QED BY <1>1, <1>3, <1>4, <1>5 DEF LeaseInv, LeaseTypes, Statuses

LEMMA StepLease ==
  ASSUME OwnClaimerIds, ListInv, LeaseInv, [Next]_vars
  PROVE  LeaseInv'
<1>0. ASSUME NEW i \in Intents, NEW n \in 1..4, EnqueueWrites(i, n),
             holds' = holds \/ Restart
      PROVE  LeaseInv'
  BY <1>0 DEF EnqueueWrites, Restart, LeaseInv, LeaseTypes, Statuses
<1>1. ASSUME NEW i \in Intents, Enqueue(i) PROVE LeaseInv'
  BY <1>0, <1>1 DEF Enqueue, threads
<1>2. ASSUME NEW i \in Intents, EnqueueCut(i) PROVE LeaseInv'
  BY <1>0, <1>2 DEF EnqueueCut
<1>3. ASSUME NEW i \in Intents, FallDue(i) PROVE LeaseInv'
  BY <1>3 DEF FallDue, LeaseInv, LeaseTypes, threads
<1>4. ASSUME NEW i \in Intents, Lapse(i) PROVE LeaseInv'
  BY <1>4 DEF Lapse, LeaseInv, LeaseTypes, Statuses
<1>5. ASSUME NEW w \in Workers, Reclaim(w) PROVE LeaseInv'
  BY <1>5 DEF Reclaim, MayReturn, LeaseInv, LeaseTypes, Statuses
<1>6. ASSUME NEW w \in Workers, Claim(w) PROVE LeaseInv'
  BY <1>6, ClaimTakes DEF LeaseInv, LeaseTypes, Statuses, Claimers
<1>7. ASSUME NEW w \in Workers, Submit(w) PROVE LeaseInv'
  BY <1>7 DEF Submit, LeaseInv, LeaseTypes, store
<1>8. ASSUME NEW w \in Workers, Ack(w) \/ Fail(w) PROVE LeaseInv'
  <2>1. CASE UNCHANGED <<store, fate>> /\ Advance(w)
    BY <2>1 DEF Advance, LeaseInv, LeaseTypes, store
  <2> QED BY <1>8, <2>1, SettleKeepsLease DEF Ack, Fail
<1>9. ASSUME NEW w \in Workers, SettleCut(w) PROVE LeaseInv'
  <2>1. \E s \in {"done", "failed", "pending"} :
          /\ status' = [status EXCEPT ![Head(batch[w])] = s]
          /\ owner' = [owner EXCEPT ![Head(batch[w])] = None]
    BY <1>9 DEF SettleCut, AckWrites, FailWrites
  <2> QED BY <1>9, <2>1 DEF SettleCut, Restart, LeaseInv, LeaseTypes, Statuses
<1>10. CASE Gate \/ Crash \/ UNCHANGED vars
  BY <1>10 DEF Gate, Crash, Restart, vars, LeaseInv, LeaseTypes, store, threads
<1> QED
  BY <1>1, <1>2, <1>3, <1>4, <1>5, <1>6, <1>7, <1>8, <1>9, <1>10 DEF Next, Drain

\* WorkIntentStore.claim_due, with crashes and lapses: when every thread has a
\* claimer id of its own, no two hold a running lease on the same intent.
THEOREM LeaseIsExclusive ==
  ASSUME OwnClaimerIds
  PROVE  Spec => []ExclusiveLease
<1>1. LeaseInv => ExclusiveLease
  BY DEF LeaseInv, LeaseTypes, ExclusiveLease, OwnClaimerIds
<1> QED BY InitList, StepList, InitLease, StepLease, <1>1, PTL DEF Spec
=============================================================================
