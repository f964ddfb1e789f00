----------------------------- MODULE WorkPlane -----------------------------
(***************************************************************************)
(* The deferred-work queue of palm: WorkIntentStore, whose operations run  *)
(* under the store lock over a persistent StorageEngine, and the drain     *)
(* threads of WorkPlane, which reclaim expired leases, claim a batch,      *)
(* submit each intent's flow and settle it.                                *)
(*                                                                         *)
(* An operation of the store is one step, because of the lock, but it      *)
(* makes several storage writes: a crash may keep any prefix of them.  A   *)
(* crash loses the drain threads' batches and keeps the storage.  Time is  *)
(* abstracted to two events: an intent falls due, a lease lapses.          *)
(***************************************************************************)
EXTENDS Naturals, Sequences, FiniteSets, SequencesExt

CONSTANTS
  Intents,      \* intent ids; each is enqueued once
  Delayed,      \* intents enqueued with a not_before still ahead
  Keys,         \* coalesce keys
  KeyOf,        \* the coalesce key of an intent, NoKey when it has none
  NoKey,
  Workers,      \* threads that call WorkPlane.tick
  ClaimerOf,    \* the claimer id each of them uses
  Batch,        \* WorkPlane._batch_size, or the limit of an explicit tick
  MaxAttempts,  \* 5 in WorkIntentStore.fail
  MaxLapses,    \* bound: leases that lapse while their holder still works
  MaxCrashes,   \* bound: crashes of the process in a behaviour
  None          \* no intent, no claimer

ASSUME KeyAssumption   == /\ NoKey \notin Keys
                          /\ KeyOf \in [Intents -> Keys \cup {NoKey}]
                          /\ Delayed \subseteq Intents
ASSUME ClaimAssumption == /\ None \notin Intents
                          /\ \A w \in Workers : ClaimerOf[w] # None
ASSUME LimitAssumption == /\ Batch \in Nat \ {0}
                          /\ MaxAttempts \in Nat \ {0}
                          /\ MaxLapses \in Nat /\ MaxCrashes \in Nat

VARIABLES
  status,   \* the entry's status; "none" before it is stored
  owner,    \* claimed_by
  lapsed,   \* claimed intents whose lease_until is past
  due,      \* intents whose not_before is past
  attempt,  \* attempt
  index,    \* the pending index
  latest,   \* the coalesce map: key -> intent id
  able,     \* WorkPlane.is_able()
  pc,       \* where each drain thread is
  batch,    \* the claimed intents it has not settled
  fate,     \* history: what became of each intent
  holds,    \* history: intents a thread claimed and whose lease is running
  ran,      \* history: intents whose submit_flow returned
  lapses, crashes  \* bounded counters

store   == <<status, owner, lapsed, due, attempt, index, latest>>
threads == <<pc, batch, holds>>
counts  == <<lapses, crashes>>
vars    == <<store, able, threads, fate, ran, counts>>

Claimers == {ClaimerOf[w] : w \in Workers}

TypeOK ==
  /\ status \in [Intents -> {"none", "pending", "claimed", "done", "failed"}]
  /\ owner \in [Intents -> Claimers \cup {None}]
  /\ lapsed \subseteq {i \in Intents : status[i] = "claimed"}
  /\ due \subseteq Intents
  /\ attempt \in [Intents -> Nat]
  /\ index \in Seq(Intents)
  /\ latest \in [Keys -> Intents \cup {None}]
  /\ able \in BOOLEAN
  /\ pc \in [Workers -> {"idle", "claim", "submit", "ack", "fail"}]
  /\ batch \in [Workers -> Seq(Intents)]
  /\ \A w \in Workers : pc[w] \in {"submit", "ack", "fail"} <=> batch[w] # <<>>
  /\ fate \in [Intents -> {"new", "accepted", "superseded", "acked", "failed"}]
  /\ \A w \in Workers : holds[w] \subseteq Range(batch[w])
  /\ ran \subseteq Intents
  /\ lapses \in 0..MaxLapses /\ crashes \in 0..MaxCrashes

Init ==
  /\ status = [i \in Intents |-> "none"]
  /\ owner = [i \in Intents |-> None]
  /\ lapsed = {} /\ due = Intents \ Delayed
  /\ attempt = [i \in Intents |-> 0]
  /\ index = <<>> /\ latest = [k \in Keys |-> None]
  /\ able = FALSE
  /\ pc = [w \in Workers |-> "idle"]
  /\ batch = [w \in Workers |-> <<>>]
  /\ fate = [i \in Intents |-> "new"]
  /\ holds = [w \in Workers |-> {}]
  /\ ran = {} /\ lapses = 0 /\ crashes = 0

----------------------------------------------------------------------------
(* The process *)

\* The process dies and starts again over the same storage.
Restart ==
  /\ crashes < MaxCrashes
  /\ crashes' = crashes + 1
  /\ able' = FALSE
  /\ pc' = [w \in Workers |-> "idle"]
  /\ batch' = [w \in Workers |-> <<>>]
  /\ holds' = [w \in Workers |-> {}]
  /\ UNCHANGED <<ran, lapses>>

Crash == Restart /\ UNCHANGED <<store, fate>>

\* Admission and the work_drain membership open and close.
Gate == able' = ~able /\ UNCHANGED <<store, threads, fate, ran, counts>>

FallDue(i) ==
  /\ i \notin due
  /\ due' = due \cup {i}
  /\ UNCHANGED <<status, owner, lapsed, attempt, index, latest, able, threads,
                 fate, ran, counts>>

\* lease_until passes, under a working thread or after a crash.
Held(i) == \E w \in Workers : i \in holds[w]

Lapse(i) ==
  /\ status[i] = "claimed" /\ i \notin lapsed
  /\ Held(i) => lapses < MaxLapses
  /\ lapses' = IF Held(i) THEN lapses + 1 ELSE lapses
  /\ lapsed' = lapsed \cup {i}
  /\ holds' = [w \in Workers |-> holds[w] \ {i}]
  /\ UNCHANGED <<status, owner, due, attempt, index, latest, able, pc, batch,
                 fate, ran, crashes>>

----------------------------------------------------------------------------
(* WorkIntentStore: the first n storage writes of each operation *)

\* The intent the coalesce map names for i's key.
Existing(i) == IF KeyOf[i] \in Keys THEN latest[KeyOf[i]] ELSE None

\* The fates of intents that may still run; "new" is also one whose enqueue was
\* cut off.
Open == {"new", "accepted"}

\* Index without the superseded intent, entry, index, coalesce key.
EnqueueWrites(i, n) ==
  LET kept == RemoveFirst(index, Existing(i))
      replaced == {j \in Range(index) : j = Existing(i)}
  IN  /\ status[i] = "none"
      /\ status' = IF n < 2 THEN status ELSE [status EXCEPT ![i] = "pending"]
      /\ index' = IF n < 3 THEN kept ELSE Append(kept, i)
      /\ latest' = IF n < 4 \/ KeyOf[i] \notin Keys THEN latest
                                         ELSE [latest EXCEPT ![KeyOf[i]] = i]
      /\ fate' = [j \in Intents |->
           IF j \in replaced /\ fate[j] \in Open /\ n >= 3 THEN "superseded"
           ELSE IF j = i /\ n >= 4 THEN "accepted" ELSE fate[j]]
      /\ UNCHANGED <<owner, lapsed, due, attempt>>

AckForgettingSuccessor(i, n) ==
  /\ status' = [status EXCEPT ![i] = "done"]
  /\ owner' = [owner EXCEPT ![i] = None]
  /\ lapsed' = lapsed \ {i}
  /\ latest' = IF n < 2 \/ KeyOf[i] \notin Keys THEN latest
                                     ELSE [latest EXCEPT ![KeyOf[i]] = None]
  /\ index' = IF n < 3 THEN index ELSE RemoveFirst(index, i)
  /\ fate' = [fate EXCEPT ![i] = "acked"]
  /\ UNCHANGED <<due, attempt>>

\* Entry, coalesce key when it still names i, index.
AckWrites(i, n) ==
  /\ status' = [status EXCEPT ![i] = "done"]
  /\ owner' = [owner EXCEPT ![i] = None]
  /\ lapsed' = lapsed \ {i}
  /\ latest' = IF n < 2 THEN latest
               ELSE [k \in Keys |-> IF k = KeyOf[i] /\ latest[k] = i
                                    THEN None ELSE latest[k]]
  /\ index' = IF n < 3 THEN index ELSE RemoveFirst(index, i)
  /\ fate' = [fate EXCEPT ![i] = "acked"]
  /\ UNCHANGED <<due, attempt>>

LastAttempt(i) == attempt[i] + 1 >= MaxAttempts

FailForgettingRetry(i, n) ==
  /\ attempt' = [attempt EXCEPT ![i] = @ + 1]
  /\ status' = [status EXCEPT ![i] =
                  IF LastAttempt(i) THEN "failed" ELSE "pending"]
  /\ owner' = [owner EXCEPT ![i] = None]
  /\ lapsed' = lapsed \ {i}
  /\ index' = IF n < 2 THEN index ELSE RemoveFirst(index, i)
  /\ fate' = [fate EXCEPT ![i] = IF LastAttempt(i) /\ @ # "acked"
                                 THEN "failed" ELSE @]
  /\ UNCHANGED <<due, latest>>

FailKeepingLease(i, n) ==
  /\ attempt' = [attempt EXCEPT ![i] = @ + 1]
  /\ status' = [status EXCEPT ![i] =
                  IF LastAttempt(i) THEN "failed" ELSE "pending"]
  /\ index' = IF LastAttempt(i) /\ n >= 2 THEN RemoveFirst(index, i) ELSE index
  /\ fate' = [fate EXCEPT ![i] = IF LastAttempt(i) /\ @ # "acked"
                                 THEN "failed" ELSE @]
  /\ UNCHANGED <<owner, lapsed, due, latest>>

\* Entry, then the index when no attempt is left.
FailWrites(i, n) ==
  /\ attempt' = [attempt EXCEPT ![i] = @ + 1]
  /\ status' = [status EXCEPT ![i] =
                  IF LastAttempt(i) THEN "failed" ELSE "pending"]
  /\ owner' = [owner EXCEPT ![i] = None]
  /\ lapsed' = lapsed \ {i}
  /\ index' = IF LastAttempt(i) /\ n >= 2 THEN RemoveFirst(index, i) ELSE index
  /\ fate' = [fate EXCEPT ![i] = IF LastAttempt(i) /\ @ # "acked"
                                 THEN "failed" ELSE @]
  /\ UNCHANGED <<due, latest>>

----------------------------------------------------------------------------
(* Producers: triggers, inbound events and schedules *)

Enqueue(i) ==
  EnqueueWrites(i, 4) /\ UNCHANGED <<able, threads, ran, counts>>

EnqueueCut(i) == \E n \in 1..3 : EnqueueWrites(i, n) /\ Restart

----------------------------------------------------------------------------
(* Drain threads: WorkPlane.tick *)

MayReturnNever(i) == FALSE
MayReturnEarly(i) == status[i] = "claimed"
MayReturn(i) == status[i] = "claimed" /\ i \in lapsed

\* The gate, then store.reclaim_expired.
Reclaim(w) ==
  LET expired == {i \in Range(index) : MayReturn(i)}
  IN  /\ pc[w] = "idle" /\ able
      /\ status' = [i \in Intents |->
                      IF i \in expired THEN "pending" ELSE status[i]]
      /\ owner' = [i \in Intents |-> IF i \in expired THEN None ELSE owner[i]]
      /\ lapsed' = lapsed \ expired
      /\ pc' = [pc EXCEPT ![w] = "claim"]
      /\ UNCHANGED <<due, attempt, index, latest, able, batch, holds, fate, ran,
                     counts>>

ClaimableUnchecked(i) == i \in due
Claimable(i) == status[i] = "pending" /\ i \in due

\* got lists the ids of S in the order of the index.
InIndexOrder(got, S) ==
  /\ Range(got) = S
  /\ \A m, n \in DOMAIN got : m < n =>
       \E a, b \in DOMAIN index : a < b /\ index[a] = got[m] /\ index[b] = got[n]

\* store.claim_due: the first Batch claimable intents of the index.
Claim(w) ==
  LET ahead(n) == {m \in 1..(n - 1) : Claimable(index[m])}
      first == {n \in 1..Len(index) : /\ Claimable(index[n])
                                      /\ Cardinality(ahead(n)) < Batch}
      taken == {index[n] : n \in first}
  IN  /\ pc[w] = "claim"
      /\ status' = [i \in Intents |->
                      IF i \in taken THEN "claimed" ELSE status[i]]
      /\ owner' = [i \in Intents |->
                     IF i \in taken THEN ClaimerOf[w] ELSE owner[i]]
      /\ lapsed' = lapsed \ taken
      /\ \E got \in [1..Cardinality(taken) -> taken] :
           InIndexOrder(got, taken) /\ batch' = [batch EXCEPT ![w] = got]
      /\ holds' = [holds EXCEPT ![w] = taken]
      /\ pc' = [pc EXCEPT ![w] = IF taken = {} THEN "idle" ELSE "submit"]
      /\ UNCHANGED <<due, attempt, index, latest, able, fate, ran, counts>>

\* submit_flow returns or raises.
Submit(w) ==
  /\ pc[w] = "submit"
  /\ \/ pc' = [pc EXCEPT ![w] = "ack"] /\ ran' = ran \cup {Head(batch[w])}
     \/ pc' = [pc EXCEPT ![w] = "fail"] /\ UNCHANGED ran
  /\ UNCHANGED <<store, able, batch, holds, fate, counts>>

\* On to the next intent of the batch.
Advance(w) ==
  /\ batch' = [batch EXCEPT ![w] = Tail(@)]
  /\ holds' = [holds EXCEPT ![w] = @ \ {Head(batch[w])}]
  /\ pc' = [pc EXCEPT ![w] = IF Tail(batch[w]) = <<>> THEN "idle" ELSE "submit"]
  /\ UNCHANGED <<able, ran, counts>>

MaySettleAny(i, w) == status[i] \in {"pending", "claimed"}
MaySettle(i, w) == owner[i] \in {None, ClaimerOf[w]}

\* A refusal changes nothing in the store.
Ack(w) ==
  LET i == Head(batch[w])
  IN  /\ pc[w] = "ack"
      /\ \/ MaySettle(i, w) /\ AckWrites(i, 3)
         \/ ~MaySettle(i, w) /\ UNCHANGED <<store, fate>>
      /\ Advance(w)

Fail(w) ==
  LET i == Head(batch[w])
  IN  /\ pc[w] = "fail"
      /\ \/ MaySettle(i, w) /\ FailWrites(i, 2)
         \/ ~MaySettle(i, w) /\ UNCHANGED <<store, fate>>
      /\ Advance(w)

\* A crash inside ack or fail.
SettleCut(w) ==
  LET i == Head(batch[w])
  IN  /\ pc[w] \in {"ack", "fail"} /\ MaySettle(i, w)
      /\ \/ pc[w] = "ack" /\ \E n \in 1..2 : AckWrites(i, n)
         \/ pc[w] = "fail" /\ FailWrites(i, 1)
      /\ Restart

Drain(w) == Reclaim(w) \/ Claim(w) \/ Submit(w) \/ Ack(w) \/ Fail(w)

Next ==
  \/ \E i \in Intents : Enqueue(i) \/ EnqueueCut(i) \/ FallDue(i) \/ Lapse(i)
  \/ \E w \in Workers : Drain(w) \/ SettleCut(w)
  \/ Gate \/ Crash

Spec == Init /\ [][Next]_vars

\* Poll loops keep polling and time passes; the gate, crashes and the lapse of
\* a running lease are up to the environment.
Fairness ==
  /\ \A w \in Workers : WF_vars(Drain(w))
  /\ \A i \in Intents : WF_vars(FallDue(i)) /\ WF_vars(~Held(i) /\ Lapse(i))

FairSpec == Spec /\ Fairness

----------------------------------------------------------------------------
(* Properties *)

\* No two threads hold a running lease on the same intent
\* (claim_due: concurrent claimers never receive the same intent).
ExclusiveLease ==
  \A v, w \in Workers : v # w => holds[v] \cap holds[w] = {}

\* The pending index never holds two intents with the same coalesce key, and the
\* one it holds is the one the coalesce map names (enqueue, ack): a later enqueue
\* would otherwise leave the earlier intent to run too.
CoalesceOne ==
  \A i \in Range(index) : KeyOf[i] \in Keys => latest[KeyOf[i]] = i

\* An intent whose enqueue returned stays in the index until it is acknowledged,
\* fails its last attempt or is replaced by a stored intent with its key.
NothingForgotten ==
  \A i \in Intents : fate[i] = "accepted" => i \in Range(index)

\* claim_due never hands out an intent that was acknowledged, failed for good or
\* replaced, whatever a crash or a late settlement wrote.
ClaimsAreOpen ==
  [][\A w \in Workers : \A i \in Range(batch'[w]) \ Range(batch[w]) :
       fate[i] \in Open]_vars

\* Where no lease lapses and nothing crashes, no flow is submitted again once its
\* submit_flow has returned (WorkPlane.tick).
RunsOnce ==
  [][\A w \in Workers :
       pc[w] = "submit" /\ pc'[w] # "submit" /\ lapses = 0 /\ crashes' = 0
         => Head(batch[w]) \notin ran]_vars

\* While the plane stays able, every intent in the index is in the end done,
\* failed for good or replaced, though leases lapse and the process crashes.
EveryIntentSettles ==
  \A i \in Intents :
    <>[]able => (i \in Range(index) ~> (status[i] \in {"done", "failed"}
                                          \/ i \notin Range(index)))

----------------------------------------------------------------------------
(* The inductive invariants behind the properties *)

\* A batch repeats nothing and is of stored intents.
BatchInv ==
  \A w \in Workers :
    IsInjective(batch[w]) /\ \A i \in Range(batch[w]) : status[i] # "none"

\* What is listed is open, or an ack or fail of it was cut off: then its entry
\* says so, and no thread has it any more that could take that back.
OpenInv ==
  /\ \A i \in Intents : status[i] = "none" => fate[i] = "new"
  /\ \A i \in Range(index) : fate[i] \notin Open =>
       /\ status[i] \in {"done", "failed"}
       /\ \A w \in Workers : i \notin Range(batch[w])

\* The coalesce map names intents of its keys.
LatestInv ==
  \A k \in Keys : latest[k] # None => KeyOf[latest[k]] = k

\* As long as nothing lapsed or crashed, batches are what their threads hold,
\* share nothing, and an intent that ran is done or about to be acknowledged.
RunInv ==
  lapses = 0 /\ crashes = 0 =>
    /\ \A w \in Workers : holds[w] = Range(batch[w])
    /\ \A v, w \in Workers : v # w => holds[v] \cap holds[w] = {}
    /\ \A w \in Workers : \A i \in holds[w] :
         status[i] = "claimed" /\ owner[i] = ClaimerOf[w] /\ i \notin lapsed
    /\ \A i \in ran :
         status[i] = "done" \/ \E w \in Workers : pc[w] = "ack" /\ Head(batch[w]) = i

QueueInv == BatchInv /\ OpenInv /\ LatestInv /\ RunInv

----------------------------------------------------------------------------
\* Forgetting entries, index, attempts and time, the plane is a work queue: open
\* intents are handed out to one thread at a time, settled by a thread they were
\* handed to and under nobody else's lease (store.py, claim_due, ack, fail).
Queue == INSTANCE WorkQueue
           WITH work <- [w \in Workers |-> Range(batch[w])],
                lease <- holds
ImplementsQueue == Queue!Spec
=============================================================================
