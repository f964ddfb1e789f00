------------------------------- MODULE Outbox -------------------------------
(***************************************************************************)
(* The transactional outbox: critical events are stored by the thread that *)
(* publishes them, and drained by the poll loop and by a hook that runs    *)
(* after every job status change, in whatever thread changes it.           *)
(*                                                                         *)
(* OutboxStore has no lock.  An entry is one storage key, the list of the  *)
(* pending ones another, and every change reads a key and writes it back:  *)
(* each read and each write is a step here, the unit another thread, or    *)
(* the end of the process, can come between.                               *)
(***************************************************************************)
EXTENDS Naturals, FiniteSets, SequencesExt

CONSTANTS
  Events,       \* ids of the critical events
  Failing,      \* events whose hand-over may raise
  Threads,      \* threads that publish, and drain from the status hook
  Pollers,      \* those that run the poll loop
  Limit,        \* size of a batch
  MaxAttempts,  \* hand-overs before an entry is given up (5 in the code)
  MaxCrashes,   \* bound: ends of the process
  NoEvent

ASSUME EventsAssumption == NoEvent \notin Events /\ Failing \subseteq Events
ASSUME ThreadsAssumption == IsFiniteSet(Threads) /\ Pollers \subseteq Threads
ASSUME LimitAssumption  == Limit \in Nat \ {0}
ASSUME AttemptsAssumption == MaxAttempts \in Nat \ {0} /\ MaxCrashes \in Nat

Settled == {"published", "failed"}
Entries == [status : {"none", "pending"} \cup Settled, attempts : Nat]

\* Program counters are named for the storage operation that comes next.
Points == {"idle", "enqueue_load", "enqueue_save", "look", "hand",
           "publish_read", "publish_write", "publish_load", "publish_save",
           "fail_read", "fail_load", "fail_save", "fail_write"}

VARIABLES
  entry,      \* palm:outbox:entry:<id>
  index,      \* palm:outbox:pending_index
  pc,         \* where each thread is
  ev,         \* the event it handles
  seen,       \* the index it has read
  copy,       \* the entry it has read
  todo,       \* ids list_pending still has to look at
  batch,      \* pending entries it found and has not handled
  handed,     \* history: events handed over without an error
  failures,   \* history: hand-overs of each event that raised
  overtaken,  \* history: a key was written over a value its writer never read
  cut,        \* history: events the process ended in the middle of
  crashes

stored  == <<entry, index>>
locals  == <<ev, seen, copy, todo, batch>>
history == <<handed, failures, overtaken, cut, crashes>>
vars    == <<stored, pc, locals, history>>

Absent == [status |-> "none", attempts |-> 0]

Init ==
  /\ entry = [e \in Events |-> Absent]
  /\ index = <<>>
  /\ pc = [t \in Threads |-> "idle"]
  /\ ev = [t \in Threads |-> NoEvent]
  /\ seen = [t \in Threads |-> <<>>]
  /\ copy = [t \in Threads |-> Absent]
  /\ todo = [t \in Threads |-> <<>>]
  /\ batch = [t \in Threads |-> <<>>]
  /\ handed = {} /\ cut = {}
  /\ failures = [e \in Events |-> 0]
  /\ overtaken = FALSE /\ crashes = 0

Go(t, point) == pc' = [pc EXCEPT ![t] = point]

\* After an entry: the next of the batch, if any.
GoOn(t) == Go(t, IF batch[t] = <<>> THEN "idle" ELSE "hand")

\* A read of the index.
Load(t) == seen' = [seen EXCEPT ![t] = index]

\* Writes of the index and of an entry, from values read before.
SaveIndex(t, new) ==
  /\ index' = new
  /\ overtaken' = (overtaken \/ index # seen[t])
SaveEntry(t, new) ==
  /\ entry' = [entry EXCEPT ![ev[t]] = new]
  /\ overtaken' = (overtaken \/ entry[ev[t]] # copy[t])

\* Fault: the attempt is counted twice.
ExhaustedEarly(t) == copy[t].attempts + 2 >= MaxAttempts

\* The entry of the event in hand is to be given up.
Exhausted(t) == copy[t].attempts + 1 >= MaxAttempts

-----------------------------------------------------------------------------
(* enqueue *)

\* A critical event is published: the interceptor stores its entry.
Publish(t, e) ==
  /\ pc[t] = "idle" /\ entry[e].status = "none"
  /\ entry' = [entry EXCEPT ![e] = [status |-> "pending", attempts |-> 0]]
  /\ ev' = [ev EXCEPT ![t] = e]
  /\ Go(t, "enqueue_load")
  /\ UNCHANGED <<index, seen, copy, todo, batch, history>>

EnqueueLoad(t) ==
  /\ pc[t] = "enqueue_load"
  /\ Load(t)
  /\ Go(t, IF ev[t] \in Range(index) THEN "idle" ELSE "enqueue_save")
  /\ UNCHANGED <<stored, ev, copy, todo, batch, history>>

EnqueueSave(t) ==
  /\ pc[t] = "enqueue_save"
  /\ SaveIndex(t, Append(seen[t], ev[t]))
  /\ Go(t, "idle")
  /\ UNCHANGED <<entry, locals, handed, failures, cut, crashes>>

-----------------------------------------------------------------------------
(* process_batch *)

\* Fault: the slice stops one short.
PrefixShort(s) == SubSeq(s, 1, IF Len(s) < Limit THEN Len(s) ELSE Limit - 1)

\* index[:limit]
Prefix(s) == SubSeq(s, 1, IF Len(s) < Limit THEN Len(s) ELSE Limit)

\* list_pending reads the index.
List(t) ==
  /\ pc[t] = "idle" /\ index # <<>>
  /\ todo' = [todo EXCEPT ![t] = Prefix(index)]
  /\ Go(t, "look")
  /\ UNCHANGED <<stored, ev, seen, copy, batch, history>>

\* list_pending reads one entry and keeps it if it is pending.
Look(t) ==
  /\ pc[t] = "look"
  /\ IF todo[t] = <<>>
       THEN GoOn(t) /\ UNCHANGED <<todo, batch>>
       ELSE /\ todo' = [todo EXCEPT ![t] = Tail(@)]
            /\ batch' = IF entry[Head(todo[t])].status = "pending"
                          THEN [batch EXCEPT ![t] = Append(@, Head(todo[t]))]
                          ELSE batch
            /\ UNCHANGED pc
  /\ UNCHANGED <<stored, ev, seen, copy, history>>

\* The event is handed over: to_event, on_before_publish, publish.
Hand(t) ==
  /\ pc[t] = "hand"
  /\ ev' = [ev EXCEPT ![t] = Head(batch[t])]
  /\ batch' = [batch EXCEPT ![t] = Tail(@)]
  /\ \/ /\ handed' = handed \cup {Head(batch[t])}
        /\ Go(t, "publish_read")
        /\ UNCHANGED failures
     \/ /\ Head(batch[t]) \in Failing
        /\ failures' = [failures EXCEPT ![Head(batch[t])] = @ + 1]
        /\ Go(t, "fail_read")
        /\ UNCHANGED handed
  /\ UNCHANGED <<stored, seen, copy, todo, overtaken, cut, crashes>>

-----------------------------------------------------------------------------
(* mark_published: the entry, then the index *)

PublishRead(t) ==
  /\ pc[t] = "publish_read"
  /\ copy' = [copy EXCEPT ![t] = entry[ev[t]]]
  /\ Go(t, "publish_write")
  /\ UNCHANGED <<stored, ev, seen, todo, batch, history>>

PublishWrite(t) ==
  /\ pc[t] = "publish_write"
  /\ SaveEntry(t, [status |-> "published", attempts |-> copy[t].attempts])
  /\ Go(t, "publish_load")
  /\ UNCHANGED <<index, locals, handed, failures, cut, crashes>>

PublishLoad(t) ==
  /\ pc[t] = "publish_load"
  /\ Load(t)
  /\ IF ev[t] \in Range(index) THEN Go(t, "publish_save") ELSE GoOn(t)
  /\ UNCHANGED <<stored, ev, copy, todo, batch, history>>

\* Fault: the entry is not taken out.
PublishSaveKeeping(t) ==
  /\ pc[t] = "publish_save"
  /\ SaveIndex(t, seen[t])
  /\ GoOn(t)
  /\ UNCHANGED <<entry, locals, handed, failures, cut, crashes>>

PublishSave(t) ==
  /\ pc[t] = "publish_save"
  /\ SaveIndex(t, RemoveFirst(seen[t], ev[t]))
  /\ GoOn(t)
  /\ UNCHANGED <<entry, locals, handed, failures, cut, crashes>>

-----------------------------------------------------------------------------
(* mark_failed: for the last attempt the index, then the entry *)

FailRead(t) ==
  /\ pc[t] = "fail_read"
  /\ copy' = [copy EXCEPT ![t] = entry[ev[t]]]
  /\ Go(t, IF entry[ev[t]].attempts + 1 >= MaxAttempts
             THEN "fail_load" ELSE "fail_write")
  /\ UNCHANGED <<stored, ev, seen, todo, batch, history>>

FailLoad(t) ==
  /\ pc[t] = "fail_load"
  /\ Load(t)
  /\ Go(t, IF ev[t] \in Range(index) THEN "fail_save" ELSE "fail_write")
  /\ UNCHANGED <<stored, ev, copy, todo, batch, history>>

FailSave(t) ==
  /\ pc[t] = "fail_save"
  /\ SaveIndex(t, RemoveFirst(seen[t], ev[t]))
  /\ Go(t, "fail_write")
  /\ UNCHANGED <<entry, locals, handed, failures, cut, crashes>>

\* Fault: an attempt that is not the last one makes the entry pending.
FailWriteReopens(t) ==
  /\ pc[t] = "fail_write"
  /\ SaveEntry(t, [status |-> IF Exhausted(t) THEN "failed" ELSE "pending",
                   attempts |-> copy[t].attempts + 1])
  /\ GoOn(t)
  /\ UNCHANGED <<index, locals, handed, failures, cut, crashes>>

FailWrite(t) ==
  /\ pc[t] = "fail_write"
  /\ SaveEntry(t, [status |-> IF Exhausted(t) THEN "failed" ELSE copy[t].status,
                   attempts |-> copy[t].attempts + 1])
  /\ GoOn(t)
  /\ UNCHANGED <<index, locals, handed, failures, cut, crashes>>

-----------------------------------------------------------------------------
(* The end of the process *)

\* The writes of t's operation on its event are not all done.
Between(t) ==
  \/ pc[t] \in {"enqueue_load", "enqueue_save", "publish_load", "publish_save"}
  \/ pc[t] = "fail_write" /\ Exhausted(t)

\* Fault: the next process lists what was cut off, listed or not.
CrashRelisting ==
  /\ crashes < MaxCrashes
  /\ crashes' = crashes + 1
  /\ cut' = cut \cup {ev[t] : t \in {u \in Threads : Between(u)}}
  /\ index' = index \o SetToSeq(cut')
  /\ pc' = [t \in Threads |-> "idle"]
  /\ ev' = [t \in Threads |-> NoEvent]
  /\ seen' = [t \in Threads |-> <<>>]
  /\ copy' = [t \in Threads |-> Absent]
  /\ todo' = [t \in Threads |-> <<>>]
  /\ batch' = [t \in Threads |-> <<>>]
  /\ UNCHANGED <<entry, handed, failures, overtaken>>

\* Threads and their locals are gone; the storage stays.  The poll loop of the
\* next process begins with recover_pending, which is batches too.
Crash ==
  /\ crashes < MaxCrashes
  /\ crashes' = crashes + 1
  /\ cut' = cut \cup {ev[t] : t \in {u \in Threads : Between(u)}}
  /\ pc' = [t \in Threads |-> "idle"]
  /\ ev' = [t \in Threads |-> NoEvent]
  /\ seen' = [t \in Threads |-> <<>>]
  /\ copy' = [t \in Threads |-> Absent]
  /\ todo' = [t \in Threads |-> <<>>]
  /\ batch' = [t \in Threads |-> <<>>]
  /\ UNCHANGED <<stored, handed, failures, overtaken>>

\* What a thread does once it has begun.
Continue(t) ==
  \/ EnqueueLoad(t) \/ EnqueueSave(t)
  \/ Look(t) \/ Hand(t)
  \/ PublishRead(t) \/ PublishWrite(t) \/ PublishLoad(t) \/ PublishSave(t)
  \/ FailRead(t) \/ FailLoad(t) \/ FailSave(t) \/ FailWrite(t)

Next ==
  \/ \E t \in Threads : Continue(t) \/ List(t) \/ \E e \in Events : Publish(t, e)
  \/ Crash

Spec == Init /\ [][Next]_vars

\* Threads run, and the poll loops poll.  Nobody has to publish.
FairSpec ==
  /\ Spec
  /\ \A t \in Threads : WF_vars(Continue(t))
  /\ \A t \in Pollers : WF_vars(List(t))

-----------------------------------------------------------------------------
(* Properties *)

\* Shape of the state: the stored index repeats no id and neither does any
\* copy of it a thread may write back.
TypeOK ==
  /\ entry \in [Events -> Entries]
  /\ index \in Seq(Events) /\ IsInjective(index)
  /\ pc \in [Threads -> Points]
  /\ ev \in [Threads -> Events \cup {NoEvent}]
  /\ seen \in [Threads -> Seq(Events)] /\ \A t \in Threads : IsInjective(seen[t])
  /\ copy \in [Threads -> Entries]
  /\ todo \in [Threads -> Seq(Events)] /\ batch \in [Threads -> Seq(Events)]
  /\ handed \subseteq Events /\ cut \subseteq Events
  /\ failures \in [Events -> Nat] /\ crashes \in Nat /\ overtaken \in BOOLEAN

\* Every pending entry is listed, so a drain will find it, and only pending
\* ones take up places of a batch, unless a thread is between the two writes
\* for it (enqueue, mark_published, mark_failed), the process ended there, or
\* some key was written over a value its writer had not read.  These are the
\* only ways the unlocked store loses an event.
IndexAgrees ==
  overtaken \/ \A e \in Events \ cut :
    \/ \E t \in Threads : ev[t] = e /\ Between(t)
    \/ e \in Range(index) <=> entry[e].status = "pending"

\* However drains of one event race, and whatever attempts they forget, an
\* entry is marked published only if the event was handed over, and given up
\* only after MaxAttempts hand-overs raised.
SettledForCause ==
  \A e \in Events :
    /\ entry[e].status = "published" => e \in handed
    /\ entry[e].status = "failed" => failures[e] >= MaxAttempts

\* With poll loops that run, a listed entry is published or given up, also
\* behind entries that fail, and across an end of the process.  It may not be
\* if the process ended in the middle of it, if a key was overtaken, or if a
\* whole batch of the index is taken by entries cut off that no drain removes.
EveryEntrySettles ==
  \A e \in Events :
    (entry[e].status = "pending" /\ e \in Range(index))
      ~> (\/ entry[e].status \in Settled
          \/ e \in cut \/ overtaken \/ Cardinality(cut) >= Limit)

\* What the storage says of each event.
Fate == [e \in Events |-> entry[e].status]

Delivery == INSTANCE EventDelivery WITH fate <- Fate, raced <- overtaken

\* The unlocked store delivers, whatever drains race and wherever the process
\* ends: outcomes have their causes, nothing unknown is handed over, and a
\* settled event turns pending again only by a writer that overtook another
\* and had seen a hand-over of it raise.
ImplementsDelivery == Delivery!Spec

=============================================================================
