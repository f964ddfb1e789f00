---------------------------- MODULE OutboxProofs ----------------------------
(***************************************************************************)
(* Proofs about the outbox, for any number of events and threads.          *)
(*                                                                         *)
(* That entries are settled for cause needs a count: the attempts on an    *)
(* entry, with the threads on their way to add one, are never more than    *)
(* the hand-overs that raised.  That the index agrees with the entries     *)
(* needs to know who can have got hold of an id, and when: nobody before   *)
(* its enqueue has put it on the index.  That it delivers (EventDelivery)  *)
(* needs the part of this that no race can break.                          *)
(***************************************************************************)
EXTENDS Outbox, IndexLemmas, FiniteSetTheorems

Enqueuing  == {"enqueue_load", "enqueue_save"}
Publishing == {"publish_read", "publish_write", "publish_load", "publish_save"}
FailingAt  == {"fail_read", "fail_load", "fail_save", "fail_write"}
Handling   == Enqueuing \cup Publishing \cup FailingAt

-----------------------------------------------------------------------------
(* Type correctness *)

\* What each point relies on: a batch to hand over from, an event in hand, and
\* an id the index that was read did not have.
Placed ==
  \A t \in Threads :
    /\ pc[t] = "hand" => batch[t] # <<>>
    /\ pc[t] \in Handling => ev[t] \in Events
    /\ pc[t] = "enqueue_save" => ev[t] \notin Range(seen[t])

TypeInv == TypeOK /\ Placed

LEMMA TypeInit == Init => TypeInv
<1> SUFFICES ASSUME Init
             PROVE  TypeInv
  OBVIOUS
<1>1. Absent \in Entries
  BY DEF Absent, Entries
<1>2. <<>> \in Seq(Events) /\ IsInjective(<<>>)
  BY EmptySeq DEF IsInjective
<1> QED
  BY <1>1, <1>2
  DEF Init, TypeInv, TypeOK, Placed, Points, Handling, Enqueuing, Publishing,
      FailingAt

\* What the writes of a thread leave in the storage.
LEMMA SaveIndexType ==
  ASSUME TypeInv, NEW t \in Threads, NEW new \in Seq(Events), IsInjective(new),
         SaveIndex(t, new)
  PROVE  index' \in Seq(Events) /\ IsInjective(index') /\ overtaken' \in BOOLEAN
  BY DEF SaveIndex, TypeInv, TypeOK

LEMMA SaveEntryType ==
  ASSUME TypeInv, NEW t \in Threads, ev[t] \in Events, NEW new \in Entries,
         SaveEntry(t, new)
  PROVE  entry' \in [Events -> Entries] /\ overtaken' \in BOOLEAN
  BY DEF SaveEntry, TypeInv, TypeOK

\* A step after which a thread goes to a point that is the next entry of its
\* batch, or none.
LEMMA GoOnPlaced ==
  ASSUME TypeInv, NEW t \in Threads, GoOn(t), UNCHANGED <<batch, ev, seen>>
  PROVE  pc' \in [Threads -> Points] /\ Placed'
  BY DEF GoOn, Go, TypeInv, TypeOK, Placed, Points, Handling, Enqueuing,
         Publishing, FailingAt

LEMMA TypeStep == TypeInv /\ [Next]_vars => TypeInv'
<1> SUFFICES ASSUME TypeInv, [Next]_vars
             PROVE  TypeInv'
  OBVIOUS
<1> USE DEF Points, Handling, Enqueuing, Publishing, FailingAt, history, locals,
            stored
<1>1. ASSUME NEW t \in Threads, NEW e \in Events, Publish(t, e)
      PROVE  TypeInv'
  <2>1. [status |-> "pending", attempts |-> 0] \in Entries
    BY DEF Entries
  <2>2. entry' \in [Events -> Entries]
    BY <1>1, <2>1 DEF Publish, TypeInv, TypeOK
  <2> QED
    BY <1>1, <2>2 DEF Publish, Go, TypeInv, TypeOK, Placed
<1>2. ASSUME NEW t \in Threads, EnqueueLoad(t)
      PROVE  TypeInv'
  BY <1>2 DEF EnqueueLoad, Load, Go, TypeInv, TypeOK, Placed
<1>3. ASSUME NEW t \in Threads, EnqueueSave(t)
      PROVE  TypeInv'
  <2>1. /\ Append(seen[t], ev[t]) \in Seq(Events)
        /\ IsInjective(Append(seen[t], ev[t]))
    BY <1>3, AppendNew DEF EnqueueSave, TypeInv, TypeOK, Placed
  <2>2. index' \in Seq(Events) /\ IsInjective(index') /\ overtaken' \in BOOLEAN
    BY <1>3, <2>1, SaveIndexType DEF EnqueueSave
  <2> QED
    BY <1>3, <2>2 DEF EnqueueSave, Go, TypeInv, TypeOK, Placed
<1>4. ASSUME NEW t \in Threads, List(t)
      PROVE  TypeInv'
  <2>1. Prefix(index) \in Seq(Events)
    BY SliceOfList, LimitAssumption DEF Prefix, TypeInv, TypeOK
  <2> QED
    BY <1>4, <2>1 DEF List, Go, TypeInv, TypeOK, Placed
<1>5. ASSUME NEW t \in Threads, Look(t)
      PROVE  TypeInv'
  <2>1. CASE todo[t] = <<>>
    BY <1>5, <2>1, GoOnPlaced DEF Look, TypeInv, TypeOK
  <2>2. CASE todo[t] # <<>>
    <3>1. Head(todo[t]) \in Events /\ Tail(todo[t]) \in Seq(Events)
      BY <2>2, HeadAndTail DEF TypeInv, TypeOK
    <3>2. Append(batch[t], Head(todo[t])) \in Seq(Events)
      BY <3>1, AppendSome DEF TypeInv, TypeOK
    <3>3. /\ todo' \in [Threads -> Seq(Events)]
          /\ batch' \in [Threads -> Seq(Events)]
      BY <1>5, <2>2, <3>1, <3>2 DEF Look, TypeInv, TypeOK
    <3>4. pc[t] = "look" /\ \A u \in Threads \ {t} : batch'[u] = batch[u]
      BY <1>5, <2>2 DEF Look, TypeInv, TypeOK
    <3> QED
      BY <1>5, <2>2, <3>3, <3>4 DEF Look, TypeInv, TypeOK, Placed
  <2> QED BY <2>1, <2>2
<1>6. ASSUME NEW t \in Threads, Hand(t)
      PROVE  TypeInv'
  <2>1. Head(batch[t]) \in Events /\ Tail(batch[t]) \in Seq(Events)
    BY <1>6, HeadAndTail DEF Hand, TypeInv, TypeOK, Placed
  <2>2. handed' \subseteq Events /\ failures' \in [Events -> Nat]
    <3>1. \A e \in Events : failures[e] + 1 \in Nat
      BY DEF TypeInv, TypeOK
    <3> QED BY <1>6, <2>1, <3>1 DEF Hand, TypeInv, TypeOK
  <2>3. \E point \in {"publish_read", "fail_read"} : Go(t, point)
    BY <1>6 DEF Hand
  <2> QED
    BY <1>6, <2>1, <2>2, <2>3 DEF Hand, Go, TypeInv, TypeOK, Placed
<1>7. ASSUME NEW t \in Threads, PublishRead(t) \/ FailRead(t)
      PROVE  TypeInv'
  <2>1. copy' \in [Threads -> Entries] /\ ev[t] \in Events
    BY <1>7 DEF PublishRead, FailRead, TypeInv, TypeOK, Placed
  <2>2. \E point \in {"publish_write", "fail_load", "fail_write"} : Go(t, point)
    BY <1>7 DEF PublishRead, FailRead
  <2> QED
    BY <1>7, <2>1, <2>2
    DEF PublishRead, FailRead, Go, TypeInv, TypeOK, Placed
<1>8. ASSUME NEW t \in Threads, PublishWrite(t)
      PROVE  TypeInv'
  <2>1. [status |-> "published", attempts |-> copy[t].attempts] \in Entries
    BY DEF TypeInv, TypeOK, Entries, Settled
  <2>2. entry' \in [Events -> Entries] /\ overtaken' \in BOOLEAN
    BY <1>8, <2>1, SaveEntryType DEF PublishWrite, TypeInv, Placed
  <2> QED
    BY <1>8, <2>2 DEF PublishWrite, Go, TypeInv, TypeOK, Placed
<1>9. ASSUME NEW t \in Threads, PublishLoad(t)
      PROVE  TypeInv'
  <2>1. seen' = [seen EXCEPT ![t] = index] /\ pc[t] = "publish_load"
    BY <1>9 DEF PublishLoad, Load
  <2>2. \E point \in {"publish_save", "idle", "hand"} :
          Go(t, point) /\ (point = "hand" => batch[t] # <<>>)
    BY <1>9 DEF PublishLoad, GoOn
  <2> QED
    BY <1>9, <2>1, <2>2 DEF PublishLoad, Go, TypeInv, TypeOK, Placed
<1>10. ASSUME NEW t \in Threads, PublishSave(t)
       PROVE  TypeInv'
  <2>1. /\ RemoveFirst(seen[t], ev[t]) \in Seq(Events)
        /\ IsInjective(RemoveFirst(seen[t], ev[t]))
    BY RemoveFromDistinct DEF TypeInv, TypeOK
  <2>2. index' \in Seq(Events) /\ IsInjective(index') /\ overtaken' \in BOOLEAN
    BY <1>10, <2>1, SaveIndexType DEF PublishSave
  <2>3. pc' \in [Threads -> Points] /\ Placed'
    BY <1>10, GoOnPlaced DEF PublishSave
  <2> QED
    BY <1>10, <2>2, <2>3 DEF PublishSave, TypeInv, TypeOK
<1>11. ASSUME NEW t \in Threads, FailLoad(t)
       PROVE  TypeInv'
  <2>1. \E point \in {"fail_save", "fail_write"} : Go(t, point)
    BY <1>11 DEF FailLoad
  <2> QED
    BY <1>11, <2>1 DEF FailLoad, Load, Go, TypeInv, TypeOK, Placed
<1>12. ASSUME NEW t \in Threads, FailSave(t)
       PROVE  TypeInv'
  <2>1. /\ RemoveFirst(seen[t], ev[t]) \in Seq(Events)
        /\ IsInjective(RemoveFirst(seen[t], ev[t]))
    BY RemoveFromDistinct DEF TypeInv, TypeOK
  <2>2. index' \in Seq(Events) /\ IsInjective(index') /\ overtaken' \in BOOLEAN
    BY <1>12, <2>1, SaveIndexType DEF FailSave
  <2> QED
    BY <1>12, <2>2 DEF FailSave, Go, TypeInv, TypeOK, Placed
<1>13. ASSUME NEW t \in Threads, FailWrite(t)
       PROVE  TypeInv'
  <2>1. \E new \in Entries : SaveEntry(t, new)
    <3>1. /\ copy[t].status \in {"none", "pending"} \cup Settled
          /\ copy[t].attempts + 1 \in Nat
      BY DEF TypeInv, TypeOK, Entries
    <3>2. \A s \in {"none", "pending"} \cup Settled :
            [status |-> s, attempts |-> copy[t].attempts + 1] \in Entries
      BY <3>1 DEF Entries
    <3> QED BY <1>13, <3>1, <3>2 DEF FailWrite, Settled
  <2>2. entry' \in [Events -> Entries] /\ overtaken' \in BOOLEAN
    BY <1>13, <2>1, SaveEntryType DEF FailWrite, TypeInv, Placed
  <2>3. pc' \in [Threads -> Points] /\ Placed'
    BY <1>13, GoOnPlaced DEF FailWrite
  <2> QED
    BY <1>13, <2>2, <2>3 DEF FailWrite, TypeInv, TypeOK
<1>14. CASE Crash
  <2>1. Absent \in Entries /\ <<>> \in Seq(Events) /\ IsInjective(<<>>)
    BY EmptySeq DEF Absent, Entries, IsInjective
  <2>2. cut' \subseteq Events /\ crashes' \in Nat
    BY <1>14 DEF Crash, Between, TypeInv, TypeOK, Placed
  <2> QED
    BY <1>14, <2>1, <2>2 DEF Crash, TypeInv, TypeOK, Placed
<1>15. CASE UNCHANGED vars
  BY <1>15 DEF vars, TypeInv, TypeOK, Placed
<1> QED
  BY <1>1, <1>2, <1>3, <1>4, <1>5, <1>6, <1>7, <1>8, <1>9, <1>10, <1>11, <1>12,
     <1>13, <1>14, <1>15
  DEF Next, Continue

\* The stored index, and every copy of it a thread may write back, repeats no id.
THEOREM OutboxTypeCorrect == Spec => []TypeOK
<1>1. TypeInv => TypeOK
  BY DEF TypeInv
<1> QED
  BY <1>1, TypeInit, TypeStep, PTL DEF Spec

-----------------------------------------------------------------------------
(* Causes *)

\* Threads whose hand-over of e raised and that have not noted it yet.
Failers(e) == {t \in Threads : pc[t] \in FailingAt /\ ev[t] = e}

\* Hand-overs of each event that raised and have been noted.
noted == [e \in Events |-> failures[e] - Cardinality(Failers(e))]

CauseInv ==
  /\ SettledForCause
  /\ \A t \in Threads :
       pc[t] \in {"publish_read", "publish_write"} => ev[t] \in handed
  /\ \A t \in Threads :
       pc[t] \in {"fail_load", "fail_save", "fail_write"} =>
         /\ copy[t].status = "published" => ev[t] \in handed
         /\ copy[t].status = "failed" => failures[ev[t]] >= MaxAttempts
  /\ \A e \in Events : entry[e].attempts <= noted[e]
  /\ \A t \in Threads :
       pc[t] \in {"publish_write", "fail_load", "fail_save", "fail_write"} =>
         copy[t].attempts <= noted[ev[t]]

LEMMA FailersCount ==
  ASSUME NEW e
  PROVE  IsFiniteSet(Failers(e)) /\ Cardinality(Failers(e)) \in Nat
  BY ThreadsAssumption, FS_Subset, FS_CardinalityType DEF Failers

LEMMA NotedType ==
  TypeInv => /\ noted \in [Events -> Int]
             /\ \A e \in Events : noted[e] <= failures[e] /\ failures[e] \in Nat
  BY FailersCount DEF noted, TypeInv, TypeOK

LEMMA NotedTypeNext == TypeInv' => noted' \in [Events -> Int]
<1>1. \A e : Cardinality(Failers(e)') \in Nat
  BY ThreadsAssumption, FS_Subset, FS_CardinalityType DEF Failers
<1> QED
  BY <1>1 DEF noted, TypeInv, TypeOK

LEMMA CauseInit == Init => CauseInv
<1> SUFFICES ASSUME Init
             PROVE  CauseInv
  OBVIOUS
<1>1. \A e \in Events : Failers(e) = {}
  BY DEF Init, Failers, FailingAt
<1>2. \A e \in Events : failures[e] = 0 /\ Cardinality(Failers(e)) = 0
  BY <1>1, FS_EmptySet DEF Init
<1>4. \A e \in Events : noted[e] = 0
  BY <1>2 DEF noted
<1>3. /\ \A e \in Events : entry[e].status = "none" /\ entry[e].attempts = 0
      /\ \A t \in Threads : pc[t] = "idle"
  BY DEF Init, Absent
<1> QED
  BY <1>3, <1>4 DEF CauseInv, SettledForCause

\* Attempts are on the safe side as long as no count of the noted ones falls
\* below what a thread or an entry has: the step changes an entry, or the copy a
\* thread has read, only to values the counts allow.
LEMMA CauseKept ==
  ASSUME TypeInv, TypeInv', CauseInv,
         \A e \in Events : noted'[e] >= noted[e] /\ failures'[e] >= failures[e],
         handed \subseteq handed',
         \A e \in Events :
           \/ entry'[e] = entry[e]
           \/ /\ entry'[e].attempts <= noted'[e]
              /\ entry'[e].status = "published" => e \in handed'
              /\ entry'[e].status = "failed" => failures'[e] >= MaxAttempts,
         \A t \in Threads :
           \/ ev'[t] = ev[t] /\ copy'[t] = copy[t] /\ pc'[t] = pc[t]
           \/ pc'[t] \notin {"publish_read", "publish_write", "fail_load",
                             "fail_save", "fail_write"}
           \/ pc'[t] = "publish_read" /\ ev'[t] \in handed'
           \/ /\ pc'[t] = "publish_write" /\ ev'[t] \in handed'
              /\ copy'[t] = entry[ev'[t]]
           \/ /\ pc'[t] \in {"fail_load", "fail_write"}
              /\ copy'[t] = entry[ev'[t]]
           \/ /\ pc[t] \in {"fail_load", "fail_save"}
              /\ pc'[t] \in {"fail_save", "fail_write"}
              /\ ev'[t] = ev[t] /\ copy'[t] = copy[t]
  PROVE  CauseInv'
<1> USE AttemptsAssumption DEF Handling, Publishing, FailingAt
<1>1. /\ \A e \in Events : /\ noted[e] \in Int /\ noted'[e] \in Int
                           /\ failures[e] \in Nat /\ failures'[e] \in Nat
                           /\ entry[e].attempts \in Nat
      /\ \A t \in Threads : copy[t].attempts \in Nat
  BY NotedType, NotedTypeNext DEF TypeInv, TypeOK, Entries
<1>2. /\ \A t \in Threads : pc[t] \in Handling => ev[t] \in Events
      /\ \A t \in Threads : pc'[t] \in Handling => ev'[t] \in Events
  BY DEF TypeInv, Placed
<1> HIDE DEF noted
<1>3. SettledForCause'
  BY <1>1 DEF CauseInv, SettledForCause
<1>4. \A e \in Events : entry'[e].attempts <= noted'[e]
  BY <1>1 DEF CauseInv
<1>5. \A t \in Threads :
        pc'[t] \in {"publish_read", "publish_write"} => ev'[t] \in handed'
  BY DEF CauseInv
<1>6. \A t \in Threads :
        pc'[t] \in {"fail_load", "fail_save", "fail_write"} =>
          /\ copy'[t].status = "published" => ev'[t] \in handed'
          /\ copy'[t].status = "failed" => failures'[ev'[t]] >= MaxAttempts
  BY <1>1, <1>2 DEF CauseInv, SettledForCause
<1>7. \A t \in Threads :
        pc'[t] \in {"publish_write", "fail_load", "fail_save", "fail_write"} =>
          copy'[t].attempts <= noted'[ev'[t]]
  BY <1>1, <1>2 DEF CauseInv
<1> QED
  BY <1>3, <1>4, <1>5, <1>6, <1>7 DEF CauseInv

\* A step after which the same threads fail on the same events.
LEMMA NotedKept ==
  ASSUME TypeInv, UNCHANGED failures,
         \A t \in Threads :
           \/ ev'[t] = ev[t] /\ (pc[t] \in FailingAt <=> pc'[t] \in FailingAt)
           \/ pc[t] \notin FailingAt /\ pc'[t] \notin FailingAt
  PROVE  \A e \in Events : noted'[e] >= noted[e] /\ failures'[e] >= failures[e]
<1>1. \A e : Failers(e)' = Failers(e)
  BY DEF Failers
<1>2. \A e \in Events : noted'[e] = noted[e]
  BY <1>1 DEF noted
<1> QED
  BY <1>2, NotedType

LEMMA CauseStep ==
  ASSUME TypeInv, TypeInv', CauseInv, [Next]_vars
  PROVE  CauseInv'
<1> USE DEF history, locals, stored
<1>1. ASSUME NEW t \in Threads, NEW e \in Events, Publish(t, e)
      PROVE  CauseInv'
  <2>1. /\ UNCHANGED <<copy, handed, failures>>
        /\ \A u \in Threads : \/ ev'[u] = ev[u] /\ pc'[u] = pc[u]
                              \/ pc[u] = "idle" /\ pc'[u] = "enqueue_load"
    BY <1>1 DEF Publish, Go, TypeInv, TypeOK
  <2>2. \A a \in Events : noted'[a] >= noted[a] /\ failures'[a] >= failures[a]
    BY <2>1, NotedKept DEF FailingAt
  <2>3. entry[e].attempts <= noted[e] /\ entry[e].attempts \in Nat
    BY DEF CauseInv, TypeInv, TypeOK, Entries
  <2>4. 0 <= noted'[e]
    <3>1. noted[e] \in Int /\ noted'[e] \in Int
      BY NotedType, NotedTypeNext
    <3> HIDE DEF noted
    <3> QED BY <2>2, <2>3, <3>1
  <2>5. entry' = [entry EXCEPT ![e] = [status |-> "pending", attempts |-> 0]]
    BY <1>1 DEF Publish
  <2>6. \A a \in Events : entry'[a] = entry[a]
          \/ (a = e /\ entry'[a].status = "pending" /\ entry'[a].attempts = 0)
    BY <2>5 DEF TypeInv, TypeOK
  <2> HIDE DEF noted
  <2> QED
    BY <2>1, <2>2, <2>4, <2>6, CauseKept
<1>2. ASSUME NEW t \in Threads,
             EnqueueLoad(t) \/ EnqueueSave(t) \/ List(t) \/ Look(t)
               \/ PublishLoad(t) \/ PublishSave(t)
      PROVE  CauseInv'
  <2>1. UNCHANGED <<ev, entry, copy, handed, failures>>
    BY <1>2 DEF EnqueueLoad, EnqueueSave, List, Look, PublishLoad, PublishSave,
                Load
  <2>2. \/ UNCHANGED pc
        \/ /\ pc[t] \notin FailingAt
           /\ \E point \in {"idle", "enqueue_save", "look", "hand",
                            "publish_save"} : Go(t, point)
    BY <1>2 DEF EnqueueLoad, EnqueueSave, List, Look, PublishLoad, PublishSave,
                GoOn, FailingAt
  <2>3. \A u \in Threads :
          \/ pc'[u] = pc[u]
          \/ /\ pc[u] \notin FailingAt
             /\ pc'[u] \in {"idle", "enqueue_save", "look", "hand", "publish_save"}
    BY <2>2 DEF Go, TypeInv, TypeOK
  <2>4. \A a \in Events : noted'[a] >= noted[a] /\ failures'[a] >= failures[a]
    BY <2>1, <2>3, NotedKept DEF FailingAt
  <2> QED
    BY <2>1, <2>3, <2>4, CauseKept
<1>3. ASSUME NEW t \in Threads, Hand(t)
      PROVE  CauseInv'
  <2>1. PICK e \in Events : e = Head(batch[t])
    BY <1>3, HeadAndTail DEF Hand, TypeInv, TypeOK, Placed
  <2>2. ev' = [ev EXCEPT ![t] = e] /\ UNCHANGED <<entry, copy>> /\ pc[t] = "hand"
    BY <1>3, <2>1 DEF Hand
  <2>3. CASE handed' = handed \cup {e} /\ Go(t, "publish_read") /\ UNCHANGED failures
    <3>1. \A u \in Threads :
            \/ pc'[u] = pc[u] /\ ev'[u] = ev[u]
            \/ pc[u] = "hand" /\ pc'[u] = "publish_read" /\ ev'[u] = e
      BY <2>2, <2>3 DEF Go, TypeInv, TypeOK
    <3>2. \A a \in Events : noted'[a] >= noted[a] /\ failures'[a] >= failures[a]
      BY <2>3, <3>1, NotedKept DEF FailingAt
    <3> QED
      BY <2>2, <2>3, <3>1, <3>2, CauseKept
  <2>4. CASE /\ failures' = [failures EXCEPT ![e] = @ + 1] /\ Go(t, "fail_read")
             /\ UNCHANGED handed
    <3>1. t \notin Failers(e)
      BY <2>2 DEF Failers, FailingAt
    <3>2. /\ Failers(e)' = Failers(e) \cup {t}
          /\ \A a \in Events \ {e} : Failers(a)' = Failers(a)
      <4>1. /\ pc[t] \notin FailingAt /\ pc'[t] \in FailingAt /\ ev'[t] = e
            /\ \A u \in Threads \ {t} : pc'[u] = pc[u] /\ ev'[u] = ev[u]
        BY <2>2, <2>4 DEF Go, FailingAt, TypeInv, TypeOK
      <4> QED BY <4>1 DEF Failers
    <3>3. Cardinality(Failers(e)') = Cardinality(Failers(e)) + 1
      BY <3>1, <3>2, FailersCount, FS_AddElement
    <3>4. /\ failures'[e] = failures[e] + 1
          /\ \A a \in Events \ {e} : failures'[a] = failures[a]
          /\ \A a \in Events : failures[a] \in Nat
      BY <2>1, <2>4 DEF TypeInv, TypeOK
    <3>5. \A a \in Events : failures'[a] >= failures[a]
      BY <3>4
    <3>6. noted'[e] = noted[e]
      <4>1. /\ noted[e] = failures[e] - Cardinality(Failers(e))
            /\ noted'[e] = failures'[e] - Cardinality(Failers(e)')
        BY DEF noted
      <4> QED BY <3>3, <3>4, <4>1, FailersCount
    <3>7. \A a \in Events \ {e} : noted'[a] = noted[a]
      BY <3>2, <3>4 DEF noted
    <3>8. \A a \in Events : noted'[a] >= noted[a]
      <4>1. \A a \in Events : noted[a] \in Int
        BY NotedType
      <4> HIDE DEF noted
      <4> QED BY <3>6, <3>7, <4>1
    <3>9. \A u \in Threads :
            (pc'[u] = pc[u] /\ ev'[u] = ev[u]) \/ pc'[u] = "fail_read"
      BY <2>2, <2>4 DEF Go, TypeInv, TypeOK
    <3> QED
      BY <2>2, <2>4, <3>5, <3>8, <3>9, CauseKept
  <2> QED
    BY <1>3, <2>1, <2>3, <2>4 DEF Hand
<1>4. ASSUME NEW t \in Threads, PublishRead(t) \/ FailRead(t)
      PROVE  CauseInv'
  <2>1. /\ copy' = [copy EXCEPT ![t] = entry[ev[t]]]
        /\ UNCHANGED <<ev, entry, handed, failures>>
    BY <1>4 DEF PublishRead, FailRead
  <2>2. \/ pc[t] = "publish_read" /\ Go(t, "publish_write")
        \/ /\ pc[t] = "fail_read"
           /\ \E point \in {"fail_load", "fail_write"} : Go(t, point)
    BY <1>4 DEF PublishRead, FailRead
  <2>3. \A u \in Threads :
          \/ pc'[u] = pc[u] /\ copy'[u] = copy[u]
          \/ /\ pc[u] = "publish_read" /\ pc'[u] = "publish_write"
             /\ copy'[u] = entry[ev[u]]
          \/ /\ pc[u] = "fail_read" /\ pc'[u] \in {"fail_load", "fail_write"}
             /\ copy'[u] = entry[ev[u]]
    BY <2>1, <2>2 DEF Go, TypeInv, TypeOK
  <2>4. \A a \in Events : noted'[a] >= noted[a] /\ failures'[a] >= failures[a]
    BY <2>1, <2>3, NotedKept DEF FailingAt
  <2>5. \A u \in Threads : pc[u] = "publish_read" => ev[u] \in handed
    BY DEF CauseInv
  <2> QED
    BY <2>1, <2>3, <2>4, <2>5, CauseKept
<1>5. ASSUME NEW t \in Threads, FailLoad(t) \/ FailSave(t)
      PROVE  CauseInv'
  <2>1. UNCHANGED <<ev, entry, copy, handed, failures>>
    BY <1>5 DEF FailLoad, FailSave, Load
  <2>2. /\ pc[t] \in {"fail_load", "fail_save"}
        /\ \E point \in {"fail_save", "fail_write"} : Go(t, point)
    BY <1>5 DEF FailLoad, FailSave
  <2>3. \A u \in Threads :
          \/ pc'[u] = pc[u]
          \/ /\ pc[u] \in {"fail_load", "fail_save"}
             /\ pc'[u] \in {"fail_save", "fail_write"}
    BY <2>2 DEF Go, TypeInv, TypeOK
  <2>4. \A a \in Events : noted'[a] >= noted[a] /\ failures'[a] >= failures[a]
    BY <2>1, <2>3, NotedKept DEF FailingAt
  <2> QED
    BY <2>1, <2>3, <2>4, CauseKept
<1>6. ASSUME NEW t \in Threads, PublishWrite(t)
      PROVE  CauseInv'
  <2>1. /\ entry' = [entry EXCEPT ![ev[t]] = [status |-> "published",
                                             attempts |-> copy[t].attempts]]
        /\ UNCHANGED <<ev, copy, handed, failures>>
    BY <1>6 DEF PublishWrite, SaveEntry
  <2>2. pc[t] = "publish_write" /\ Go(t, "publish_load") /\ ev[t] \in Events
    BY <1>6 DEF PublishWrite, TypeInv, Placed, Handling, Publishing
  <2>3. \A u \in Threads :
          \/ pc'[u] = pc[u]
          \/ pc[u] = "publish_write" /\ pc'[u] = "publish_load"
    BY <2>2 DEF Go, TypeInv, TypeOK
  <2>4. \A a \in Events : noted'[a] >= noted[a] /\ failures'[a] >= failures[a]
    BY <2>1, <2>3, NotedKept DEF FailingAt
  <2>5. /\ entry'[ev[t]] = [status |-> "published", attempts |-> copy[t].attempts]
        /\ \A a \in Events \ {ev[t]} : entry'[a] = entry[a]
    BY <2>1, <2>2 DEF TypeInv, TypeOK
  <2>6. ev[t] \in handed /\ copy[t].attempts <= noted[ev[t]]
    BY <2>2 DEF CauseInv
  <2>7. copy[t].attempts <= noted'[ev[t]]
    <3>1. /\ noted[ev[t]] \in Int /\ copy[t].attempts \in Nat
      BY <2>2, NotedType DEF TypeInv, TypeOK, Entries
    <3>2. PICK e \in Events : e = ev[t]
      BY <2>2
    <3>3. noted'[e] \in Int /\ noted'[e] >= noted[e]
      BY <2>4, NotedTypeNext
    <3> HIDE DEF noted
    <3> QED BY <2>6, <3>1, <3>2, <3>3
  <2>8. \A a \in Events :
          \/ entry'[a] = entry[a]
          \/ /\ entry'[a].attempts <= noted'[a]
             /\ entry'[a].status = "published" /\ a \in handed
    <3>1. PICK e \in Events : e = ev[t]
      BY <2>2
    <3>2. entry'[e].attempts <= noted'[e]
      BY <2>5, <2>7, <3>1
    <3> HIDE DEF noted
    <3> QED BY <2>5, <2>6, <3>1, <3>2
  <2> QED
    BY <2>1, <2>3, <2>4, <2>8, CauseKept
<1>7. ASSUME NEW t \in Threads, FailWrite(t)
      PROVE  CauseInv'
  <2>1. PICK e \in Events : e = ev[t]
    BY <1>7 DEF FailWrite, TypeInv, Placed, Handling, FailingAt
  <2> DEFINE new == [status |-> IF Exhausted(t) THEN "failed" ELSE copy[t].status,
                     attempts |-> copy[t].attempts + 1]
  <2>2. /\ entry' = [entry EXCEPT ![e] = new]
        /\ UNCHANGED <<ev, copy, handed, failures>>
    BY <1>7, <2>1 DEF FailWrite, SaveEntry
  <2>3. /\ pc[t] = "fail_write"
        /\ \E point \in {"idle", "hand"} : Go(t, point)
    BY <1>7 DEF FailWrite, GoOn
  <2>4. /\ t \in Failers(e)
        /\ Failers(e)' = Failers(e) \ {t}
        /\ \A a \in Events \ {e} : Failers(a)' = Failers(a)
    BY <2>1, <2>2, <2>3 DEF Go, Failers, FailingAt, TypeInv, TypeOK
  <2>5. /\ Cardinality(Failers(e)') = Cardinality(Failers(e)) - 1
        /\ Cardinality(Failers(e)) # 0
    BY <2>4, FailersCount, FS_RemoveElement, FS_EmptySet
  <2>6. failures[e] \in Nat /\ failures' = failures
    BY <2>2 DEF TypeInv, TypeOK
  <2>7. noted'[e] = noted[e] + 1 /\ noted[e] + 1 <= failures[e] /\ noted[e] \in Int
    BY <2>5, <2>6, FailersCount DEF noted
  <2>8. \A a \in Events \ {e} : noted'[a] = noted[a]
    BY <2>2, <2>4 DEF noted
  <2>9. copy[t].attempts <= noted[e] /\ copy[t].attempts \in Nat
    BY <2>1, <2>3 DEF CauseInv, TypeInv, TypeOK, Entries
  <2> HIDE DEF noted
  <2>10. \A a \in Events : noted'[a] >= noted[a] /\ failures'[a] >= failures[a]
    BY <2>2, <2>7, <2>8, NotedType
  <2>11. new.attempts <= noted'[e]
    BY <2>7, <2>9
  <2>12. /\ new.status = "published" => e \in handed
         /\ new.status = "failed" => failures[e] >= MaxAttempts
    <3>1. CASE Exhausted(t)
      <4>1. new.status = "failed"
        BY <3>1
      <4>2. failures[e] >= MaxAttempts
        BY <2>6, <2>7, <2>9, <3>1, AttemptsAssumption DEF Exhausted
      <4> QED BY <4>1, <4>2
    <3>2. CASE ~Exhausted(t)
      <4>1. new.status = copy[t].status
        BY <3>2
      <4> QED BY <2>1, <2>3, <4>1 DEF CauseInv
    <3> QED BY <3>1, <3>2
  <2> HIDE DEF new
  <2>13. entry'[e] = new /\ \A a \in Events \ {e} : entry'[a] = entry[a]
    BY <2>2 DEF TypeInv, TypeOK
  <2>14. \A u \in Threads : pc'[u] = pc[u] \/ pc'[u] \in {"idle", "hand"}
    BY <2>3 DEF Go, TypeInv, TypeOK
  <2> QED
    BY <2>2, <2>10, <2>11, <2>12, <2>13, <2>14, CauseKept
<1>8. CASE Crash
  <2>1. /\ UNCHANGED <<entry, handed, failures>>
        /\ \A u \in Threads : pc'[u] = "idle"
    BY <1>8 DEF Crash
  <2>2. \A a \in Events : Failers(a)' = {}
    BY <2>1 DEF Failers, FailingAt
  <2>3. \A a \in Events : noted'[a] = failures[a] - 0
    BY <2>1, <2>2, FS_EmptySet DEF noted
  <2>4. \A a \in Events : noted'[a] >= noted[a] /\ failures'[a] >= failures[a]
    <3>1. \A a \in Events :
            noted[a] \in Int /\ noted[a] <= failures[a] /\ failures[a] \in Nat
      BY NotedType
    <3> HIDE DEF noted
    <3> QED BY <2>1, <2>3, <3>1
  <2> QED
    BY <2>1, <2>4, CauseKept
<1>9. CASE UNCHANGED vars
  <2>1. UNCHANGED <<pc, ev, entry, copy, handed, failures>>
    BY <1>9 DEF vars
  <2>2. \A a \in Events : noted'[a] >= noted[a] /\ failures'[a] >= failures[a]
    BY <2>1, NotedKept
  <2> QED
    BY <2>1, <2>2, CauseKept
<1> QED
  BY <1>1, <1>2, <1>3, <1>4, <1>5, <1>6, <1>7, <1>8, <1>9 DEF Next, Continue

\* Whatever drains and ends of the process race, what is marked published was
\* handed over, and what is given up failed MaxAttempts times.
THEOREM OutboxSettledForCause == Spec => []SettledForCause
<1>1. TypeInv /\ TypeInv' /\ CauseInv /\ [Next]_vars => CauseInv'
  BY CauseStep
<1>2. CauseInv => SettledForCause
  BY DEF CauseInv
<1> QED
  BY <1>1, <1>2, TypeInit, TypeStep, CauseInit, PTL DEF Spec

-----------------------------------------------------------------------------
(* The index *)

Handles(t, e) == ev[t] = e /\ pc[t] \in Handling
Lists(t, e)   == e \in Range(todo[t]) \cup Range(batch[t])

\* Nobody but t can have got hold of e.
Unknown(e, t) ==
  /\ e \notin Range(index)
  /\ \A u \in Threads : ~Lists(u, e) /\ (u # t => ~Handles(u, e))

Agrees(e) == e \in Range(index) <=> entry[e].status = "pending"

\* Before it is published nobody knows an event ...
Fresh ==
  \A e \in Events, t \in Threads :
    entry[e].status = "none" => Unknown(e, t) /\ ~Handles(t, e)

\* ... and until its enqueue has put it on the index only its publisher does.
Entering ==
  \A t \in Threads :
    pc[t] \in Enqueuing => entry[ev[t]].status = "pending" /\ Unknown(ev[t], t)

\* What has been written of an entry that is being settled.
Leaving ==
  \A t \in Threads :
    /\ pc[t] \in {"publish_load", "publish_save"} => entry[ev[t]].status \in Settled
    /\ pc[t] \in {"fail_load", "fail_save"} => Exhausted(t)
    /\ pc[t] = "fail_write" /\ Exhausted(t) => ev[t] \notin Range(index)

Listed ==
  \A e \in Events \ cut :
    Agrees(e) \/ \E t \in Threads : Handles(t, e) /\ Between(t)

IndexKnown == Fresh /\ Entering /\ Leaving /\ Listed

IndexInv == overtaken \/ IndexKnown

LEMMA IndexInit == Init => IndexInv
<1> SUFFICES ASSUME Init
             PROVE  IndexKnown
  BY DEF IndexInv
<1>1. Range(<<>>) = {}
  BY DEF Range
<1> QED
  BY <1>1
  DEF Init, IndexKnown, Fresh, Entering, Leaving, Listed, Unknown, Lists,
      Handles, Handling, Enqueuing, Publishing, FailingAt, Agrees, Absent

\* A step of t that reads: ids travel from the index to a list of t, and from a
\* list of t into its hand.
LEMMA ReadKeepsIndex ==
  ASSUME TypeInv, TypeInv', IndexKnown, NEW t \in Threads,
         UNCHANGED <<index, entry, cut>>,
         \A u \in Threads \ {t} : /\ pc'[u] = pc[u] /\ ev'[u] = ev[u]
                                  /\ todo'[u] = todo[u] /\ batch'[u] = batch[u]
                                  /\ copy'[u] = copy[u],
         \A e \in Events : Lists(t, e)' => Lists(t, e) \/ e \in Range(index),
         \A e \in Events : Handles(t, e)' => Handles(t, e) \/ Lists(t, e),
         pc'[t] \in Enqueuing => pc[t] \in Enqueuing /\ ev'[t] = ev[t],
         pc'[t] \in {"publish_load", "publish_save"} =>
           entry[ev'[t]].status \in Settled,
         pc'[t] \in {"fail_load", "fail_save"} => Exhausted(t)',
         pc'[t] = "fail_write" /\ Exhausted(t)' => ev'[t] \notin Range(index),
         \A e \in Events : Handles(t, e) /\ Between(t)
                             => (Handles(t, e) /\ Between(t))' \/ Agrees(e)
  PROVE  IndexKnown'
<1>1. /\ \A u \in Threads : pc[u] \in Handling => ev[u] \in Events
      /\ \A u \in Threads : pc'[u] \in Handling => ev'[u] \in Events
  BY DEF TypeInv, Placed
<1>2. \A u \in Threads \ {t}, e \in Events :
        /\ Lists(u, e)' <=> Lists(u, e)
        /\ Handles(u, e)' <=> Handles(u, e)
        /\ Between(u)' <=> Between(u)
        /\ Exhausted(u)' <=> Exhausted(u)
  BY DEF Lists, Handles, Between, Exhausted
<1>3. Fresh'
  BY <1>2 DEF IndexKnown, Fresh, Unknown
<1>4. Entering'
  <2> SUFFICES ASSUME NEW u \in Threads, pc'[u] \in Enqueuing
               PROVE  entry'[ev'[u]].status = "pending" /\ Unknown(ev[u], u)'
    BY DEF Entering
  <2>1. pc[u] \in Enqueuing /\ ev'[u] = ev[u]
    OBVIOUS
  <2>2. PICK e \in Events : e = ev[u]
    BY <1>1, <2>1 DEF Handling
  <2>3. entry[e].status = "pending" /\ Unknown(e, u)
    BY <2>1, <2>2 DEF IndexKnown, Entering
  <2>4. Unknown(e, u)'
    BY <1>2, <2>3 DEF Unknown
  <2> QED BY <2>1, <2>2, <2>3, <2>4 DEF Unknown, Lists, Handles
<1>5. Leaving'
  BY <1>2 DEF IndexKnown, Leaving, Exhausted
<1>6. Listed'
  BY <1>2 DEF IndexKnown, Listed, Agrees
<1> QED
  BY <1>3, <1>4, <1>5, <1>6 DEF IndexKnown

\* A step of t that writes, the index or the entry of its event a: the lists of
\* the threads and what they have in hand stay, but t may be done with a.
LEMMA WriteKeepsIndex ==
  ASSUME TypeInv, TypeInv', IndexKnown, NEW t \in Threads, NEW a \in Events,
         UNCHANGED <<ev, todo, batch, copy, cut>>, Handles(t, a),
         \A u \in Threads \ {t} : pc'[u] = pc[u],
         pc'[t] \notin Enqueuing,
         \A e \in Events \ {a} : /\ entry'[e] = entry[e]
                                 /\ e \in Range(index') <=> e \in Range(index),
         \/ Range(index') \subseteq Range(index)
         \/ pc[t] \in Enqueuing,
         entry[a].status \in Settled => entry'[a].status \in Settled,
         entry'[a].status # "none",
         entry[a].status = entry'[a].status \/ pc[t] \notin Enqueuing,
         pc'[t] \in {"publish_load", "publish_save"} => entry'[a].status \in Settled,
         pc'[t] \notin {"fail_load", "fail_save"},
         pc'[t] = "fail_write" => Exhausted(t) /\ a \notin Range(index'),
         a \notin cut =>
           \/ Agrees(a)' \/ Between(t)'
           \/ ~Between(t) /\ UNCHANGED <<index, entry[a].status>>
  PROVE  IndexKnown'
<1>1. /\ \A u \in Threads : pc[u] \in Handling => ev[u] \in Events
      /\ \A u \in Threads : pc'[u] \in Handling => ev'[u] \in Events
  BY DEF TypeInv, Placed
<1>2. \A u \in Threads, e \in Events :
        /\ Lists(u, e)' <=> Lists(u, e)
        /\ Handles(u, e)' => Handles(u, e)
        /\ u # t => /\ Handles(u, e)' <=> Handles(u, e)
                    /\ Between(u)' <=> Between(u)
        /\ Exhausted(u)' <=> Exhausted(u)
  BY DEF Lists, Handles, Between, Exhausted
<1>3. \A u \in Threads \ {t} : pc[u] \in Enqueuing => ev[u] # a
  BY DEF IndexKnown, Entering, Unknown
<1>4. pc[t] \in Enqueuing => \A u \in Threads \ {t} : ~Handles(u, a)
  BY DEF IndexKnown, Entering, Unknown, Handles
<1>5. ev[t] = a
  BY DEF Handles
<1>6. Fresh'
  <2> SUFFICES ASSUME NEW e \in Events, entry'[e].status = "none"
               PROVE  /\ e \notin Range(index')
                      /\ \A u \in Threads : ~Lists(u, e)' /\ ~Handles(u, e)'
    BY DEF Fresh, Unknown
  <2>1. e # a /\ entry[e].status = "none"
    OBVIOUS
  <2> QED BY <1>2, <2>1 DEF IndexKnown, Fresh, Unknown
<1>7. Entering'
  <2> SUFFICES ASSUME NEW u \in Threads, pc'[u] \in Enqueuing
               PROVE  entry'[ev'[u]].status = "pending" /\ Unknown(ev[u], u)'
    BY DEF Entering
  <2>1. u # t /\ pc[u] \in Enqueuing /\ ev'[u] = ev[u]
    OBVIOUS
  <2>2. PICK e \in Events \ {a} : e = ev[u]
    BY <1>1, <1>3, <2>1 DEF Handling
  <2>3. entry[e].status = "pending" /\ Unknown(e, u)
    BY <2>1, <2>2 DEF IndexKnown, Entering
  <2>4. Unknown(e, u)'
    BY <1>2, <2>2, <2>3 DEF Unknown
  <2> QED BY <2>1, <2>2, <2>3, <2>4 DEF Unknown, Lists, Handles
<1>8. Leaving'
  <2> SUFFICES ASSUME NEW u \in Threads
               PROVE  /\ pc'[u] \in {"publish_load", "publish_save"} =>
                           entry'[ev[u]].status \in Settled
                      /\ pc'[u] \in {"fail_load", "fail_save"} => Exhausted(u)
                      /\ pc'[u] = "fail_write" /\ Exhausted(u) =>
                           ev[u] \notin Range(index')
    BY <1>2 DEF Leaving, Exhausted
  <2>1. CASE u = t
    BY <1>5, <2>1
  <2>2. CASE u # t
    <3>1. /\ pc[u] \in {"publish_load", "publish_save"} =>
               entry[ev[u]].status \in Settled
          /\ pc[u] \in {"fail_load", "fail_save"} => Exhausted(u)
          /\ pc[u] = "fail_write" /\ Exhausted(u) => ev[u] \notin Range(index)
      BY DEF IndexKnown, Leaving
    <3>2. pc[u] \in Publishing \cup FailingAt => ev[u] \in Events
      BY <1>1 DEF Handling
    <3>3. pc[t] \in Enqueuing /\ pc[u] \in Handling => ev[u] # a
      BY <1>4, <2>2 DEF Handles
    <3> QED
      BY <2>2, <3>1, <3>2, <3>3 DEF Handling, Publishing, FailingAt
  <2> QED BY <2>1, <2>2
<1>9. Listed'
  <2> SUFFICES ASSUME NEW e \in Events \ cut
               PROVE  Agrees(e)' \/ \E u \in Threads : Handles(u, e)' /\ Between(u)'
    BY DEF Listed
  <2>1. Agrees(e) \/ \E u \in Threads : Handles(u, e) /\ Between(u)
    BY DEF IndexKnown, Listed
  <2>2. CASE e # a
    <3>1. Agrees(e)' <=> Agrees(e)
      BY <2>2 DEF Agrees
    <3>2. ~Handles(t, e)
      BY <1>5, <2>2 DEF Handles
    <3> QED BY <1>2, <2>1, <3>1, <3>2
  <2>3. CASE e = a
    <3>1. CASE Between(t)'
      <4>1. Handles(t, a)'
        BY <1>5, <3>1
        DEF Between, Handles, Handling, Enqueuing, Publishing, FailingAt
      <4> QED BY <2>3, <3>1, <4>1
    <3>2. CASE ~Between(t) /\ UNCHANGED <<index, entry[a].status>>
      <4>1. Agrees(a)' <=> Agrees(a)
        BY <3>2 DEF Agrees
      <4> QED BY <1>2, <2>1, <2>3, <3>2, <4>1
    <3> QED BY <2>3, <3>1, <3>2
  <2> QED BY <2>2, <2>3
<1> QED
  BY <1>6, <1>7, <1>8, <1>9 DEF IndexKnown

LEMMA PublishKeepsIndex ==
  ASSUME TypeInv, TypeInv', IndexKnown, NEW t \in Threads, NEW a \in Events,
         Publish(t, a)
  PROVE  IndexKnown'
<1>1. /\ pc[t] = "idle" /\ pc' = [pc EXCEPT ![t] = "enqueue_load"]
      /\ ev' = [ev EXCEPT ![t] = a]
      /\ entry[a].status = "none"
      /\ entry' = [entry EXCEPT ![a] = [status |-> "pending", attempts |-> 0]]
      /\ UNCHANGED <<index, todo, batch, copy, cut>>
  BY DEF Publish, Go, history
<1>2. /\ entry'[a].status = "pending"
      /\ \A e \in Events \ {a} : entry'[e] = entry[e]
      /\ pc'[t] = "enqueue_load" /\ ev'[t] = a
      /\ \A u \in Threads \ {t} : pc'[u] = pc[u] /\ ev'[u] = ev[u]
  BY <1>1 DEF TypeInv, TypeOK
<1>3. \A u \in Threads : pc[u] \in Handling => ev[u] \in Events
  BY DEF TypeInv, Placed
<1>4. \A u \in Threads, e \in Events :
        /\ Lists(u, e)' <=> Lists(u, e)
        /\ u # t => /\ Handles(u, e)' <=> Handles(u, e)
                    /\ Between(u)' <=> Between(u)
        /\ Handles(t, e)' => e = a
        /\ Exhausted(u)' <=> Exhausted(u)
  BY <1>1, <1>2 DEF Lists, Handles, Between, Exhausted
<1>5. a \notin Range(index) /\ \A u \in Threads : ~Lists(u, a) /\ ~Handles(u, a)
  BY <1>1 DEF IndexKnown, Fresh, Unknown
<1>6. Fresh'
  BY <1>1, <1>2, <1>4 DEF IndexKnown, Fresh, Unknown
<1>7. Entering'
  <2> SUFFICES ASSUME NEW u \in Threads, pc'[u] \in Enqueuing
               PROVE  entry'[ev'[u]].status = "pending" /\ Unknown(ev[u], u)'
    BY DEF Entering
  <2>1. CASE u = t
    <3>1. Unknown(a, t)'
      BY <1>1, <1>4, <1>5 DEF Unknown
    <3> QED BY <1>2, <2>1, <3>1 DEF Unknown, Lists, Handles
  <2>2. CASE u # t
    <3>1. pc[u] \in Enqueuing /\ ev'[u] = ev[u]
      BY <1>2, <2>2
    <3>2. PICK e \in Events \ {a} : e = ev[u]
      BY <1>3, <1>5, <3>1 DEF Handles, Handling
    <3>3. entry[e].status = "pending" /\ Unknown(e, u)
      BY <3>1, <3>2 DEF IndexKnown, Entering
    <3>4. Unknown(e, u)'
      BY <1>1, <1>4, <3>2, <3>3 DEF Unknown
    <3> QED BY <1>2, <3>1, <3>2, <3>3, <3>4 DEF Unknown, Lists, Handles
  <2> QED BY <2>1, <2>2
<1>8. Leaving'
  <2>1. \A u \in Threads : pc[u] \in Publishing => ev[u] \in Events \ {a}
    BY <1>3, <1>5 DEF Handles, Handling
  <2> QED
    BY <1>1, <1>2, <1>4, <2>1 DEF IndexKnown, Leaving, Exhausted, Publishing
<1>9. Listed'
  <2>1. Handles(t, a)' /\ Between(t)'
    BY <1>2 DEF Handles, Handling, Enqueuing, Between
  <2>2. \A e \in Events \ {a} : Agrees(e)' <=> Agrees(e)
    BY <1>1, <1>2 DEF Agrees
  <2>3. ~Between(t)
    BY <1>1 DEF Between
  <2>4. \A e \in Events \ cut : e # a => Agrees(e)' \/ \E u \in Threads : Handles(u, e)' /\ Between(u)'
    BY <1>4, <2>2, <2>3 DEF IndexKnown, Listed
  <2> QED BY <1>1, <2>1, <2>4 DEF Listed
<1> QED
  BY <1>6, <1>7, <1>8, <1>9 DEF IndexKnown

LEMMA CrashKeepsIndex ==
  ASSUME TypeInv, TypeInv', IndexKnown, Crash
  PROVE  IndexKnown'
<1>1. /\ \A u \in Threads : /\ pc'[u] = "idle"
                            /\ todo'[u] = <<>> /\ batch'[u] = <<>>
      /\ UNCHANGED <<entry, index>>
      /\ cut' = cut \cup {ev[t] : t \in {u \in Threads : Between(u)}}
  BY DEF Crash, stored
<1>2. Range(<<>>) = {}
  BY DEF Range
<1>3. \A u \in Threads, e \in Events : ~Lists(u, e)' /\ ~Handles(u, e)'
  BY <1>1, <1>2
  DEF Lists, Handles, Handling, Enqueuing, Publishing, FailingAt
<1>4. Fresh'
  BY <1>1, <1>3 DEF IndexKnown, Fresh, Unknown
<1>5. Entering' /\ Leaving'
  BY <1>1 DEF Entering, Leaving, Enqueuing
<1>6. \A e \in Events \ cut' : ~ \E t \in Threads : Handles(t, e) /\ Between(t)
  BY <1>1 DEF Handles
<1>7. \A e \in Events : Agrees(e)' <=> Agrees(e)
  BY <1>1 DEF Agrees
<1>8. Listed'
  BY <1>1, <1>6, <1>7 DEF IndexKnown, Listed
<1> QED
  BY <1>4, <1>5, <1>8 DEF IndexKnown

LEMMA IndexStep ==
  ASSUME TypeInv, TypeInv', IndexInv, [Next]_vars
  PROVE  IndexInv'
<1> SUFFICES ASSUME ~overtaken', IndexKnown, TypeInv, TypeInv', [Next]_vars
             PROVE  IndexKnown'
  <2>1. overtaken => overtaken'
    BY DEF Next, Continue, Publish, EnqueueLoad, EnqueueSave, List, Look, Hand,
           PublishRead, PublishWrite, PublishLoad, PublishSave, FailRead,
           FailLoad, FailSave, FailWrite, Crash, SaveIndex, SaveEntry, vars,
           history
  <2> QED BY <2>1 DEF IndexInv
<1> USE DEF history, locals, stored
<1>0. \A t \in Threads : pc[t] \in Handling => ev[t] \in Events /\ Handles(t, ev[t])
  BY DEF TypeInv, Placed, Handles
<1>1. ASSUME NEW t \in Threads, NEW e \in Events, Publish(t, e)
      PROVE  IndexKnown'
  BY <1>1, PublishKeepsIndex
<1>2. ASSUME NEW t \in Threads, EnqueueLoad(t)
      PROVE  IndexKnown'
  <2>1. PICK a \in Events : a = ev[t]
    BY <1>0, <1>2 DEF EnqueueLoad, Handling, Enqueuing
  <2>2. a \notin Range(index)
    BY <1>2, <2>1 DEF EnqueueLoad, Enqueuing, IndexKnown, Entering, Unknown
  <2>3. /\ pc[t] = "enqueue_load" /\ pc' = [pc EXCEPT ![t] = "enqueue_save"]
        /\ UNCHANGED <<index, entry, ev, todo, batch, copy, cut>>
    BY <1>2, <2>1, <2>2 DEF EnqueueLoad, Go
  <2>4. pc'[t] = "enqueue_save" /\ \A u \in Threads \ {t} : pc'[u] = pc[u]
    BY <2>3 DEF TypeInv, TypeOK
  <2> QED
    BY <2>3, <2>4, ReadKeepsIndex
    DEF Lists, Handles, Handling, Enqueuing, Between
<1>3. ASSUME NEW t \in Threads, EnqueueSave(t)
      PROVE  IndexKnown'
  <2>1. PICK a \in Events : a = ev[t]
    BY <1>0, <1>3 DEF EnqueueSave, Handling, Enqueuing
  <2>2. pc[t] = "enqueue_save" /\ Handles(t, a)
    BY <1>0, <1>3, <2>1 DEF EnqueueSave, Handling, Enqueuing
  <2>3. index' = Append(index, a)
    BY <1>3, <2>1 DEF EnqueueSave, SaveIndex
  <2>4. Range(index') = Range(index) \cup {a}
    BY <2>3, AppendSome DEF TypeInv, TypeOK
  <2>5. entry[a].status = "pending"
    BY <2>1, <2>2 DEF IndexKnown, Entering, Enqueuing
  <2>6. /\ UNCHANGED <<entry, ev, todo, batch, copy, cut>>
        /\ pc'[t] = "idle" /\ \A u \in Threads \ {t} : pc'[u] = pc[u]
    BY <1>3 DEF EnqueueSave, Go, TypeInv, TypeOK
  <2>7. Agrees(a)'
    BY <2>4, <2>5, <2>6 DEF Agrees
  <2> QED
    BY <2>2, <2>4, <2>5, <2>6, <2>7, WriteKeepsIndex DEF Enqueuing
<1>4. ASSUME NEW t \in Threads, List(t)
      PROVE  IndexKnown'
  <2>1. Range(Prefix(index)) \subseteq Range(index)
    <3> DEFINE n == IF Len(index) < Limit THEN Len(index) ELSE Limit
    <3>1. n \in Nat /\ n <= Len(index) /\ index \in Seq(Events)
      BY LimitAssumption, LenProperties DEF TypeInv, TypeOK
    <3>2. Prefix(index) = SubSeq(index, 1, n)
      BY DEF Prefix
    <3> HIDE DEF n
    <3> QED BY <3>1, <3>2, SliceOfList
  <2>2. /\ pc[t] = "idle" /\ pc'[t] = "look" /\ todo'[t] = Prefix(index)
        /\ UNCHANGED <<index, entry, ev, batch, copy, cut>>
        /\ \A u \in Threads \ {t} : pc'[u] = pc[u] /\ todo'[u] = todo[u]
    BY <1>4 DEF List, Go, TypeInv, TypeOK
  <2>3. \A e \in Events : Lists(t, e)' => Lists(t, e) \/ e \in Range(index)
    BY <2>1, <2>2 DEF Lists
  <2> QED
    BY <2>2, <2>3, ReadKeepsIndex
    DEF Handles, Handling, Enqueuing, Publishing, FailingAt, Between
<1>5. ASSUME NEW t \in Threads, Look(t)
      PROVE  IndexKnown'
  <2>1. /\ pc[t] = "look" /\ pc'[t] \in {"look", "idle", "hand"}
        /\ UNCHANGED <<index, entry, ev, copy, cut>>
        /\ \A u \in Threads \ {t} : /\ pc'[u] = pc[u] /\ todo'[u] = todo[u]
                                    /\ batch'[u] = batch[u]
    BY <1>5 DEF Look, GoOn, Go, TypeInv, TypeOK
  <2>2. \A e \in Events : Lists(t, e)' => Lists(t, e)
    <3>1. CASE todo[t] = <<>>
      BY <1>5, <3>1 DEF Look, Lists
    <3>2. CASE todo[t] # <<>>
      <4>1. /\ Head(todo[t]) \in Range(todo[t]) /\ Head(todo[t]) \in Events
            /\ Range(Tail(todo[t])) \subseteq Range(todo[t])
        BY <3>2, HeadAndTail DEF TypeInv, TypeOK
      <4>2. Range(Append(batch[t], Head(todo[t])))
              = Range(batch[t]) \cup {Head(todo[t])}
        BY <4>1, AppendSome DEF TypeInv, TypeOK
      <4>3. /\ todo'[t] = Tail(todo[t])
            /\ batch'[t] \in {batch[t], Append(batch[t], Head(todo[t]))}
        BY <1>5, <3>2 DEF Look, TypeInv, TypeOK
      <4> QED BY <4>1, <4>2, <4>3 DEF Lists
    <3> QED BY <3>1, <3>2
  <2> QED
    BY <2>1, <2>2, ReadKeepsIndex
    DEF Handles, Handling, Enqueuing, Publishing, FailingAt, Between
<1>6. ASSUME NEW t \in Threads, Hand(t)
      PROVE  IndexKnown'
  <2>1. /\ Head(batch[t]) \in Range(batch[t])
        /\ Range(Tail(batch[t])) \subseteq Range(batch[t])
    BY <1>6, HeadAndTail DEF Hand, TypeInv, TypeOK, Placed
  <2>2. /\ pc[t] = "hand" /\ pc'[t] \in {"publish_read", "fail_read"}
        /\ ev'[t] = Head(batch[t]) /\ batch'[t] = Tail(batch[t])
        /\ UNCHANGED <<index, entry, todo, copy, cut>>
        /\ \A u \in Threads \ {t} : /\ pc'[u] = pc[u] /\ ev'[u] = ev[u]
                                    /\ batch'[u] = batch[u]
    BY <1>6 DEF Hand, Go, TypeInv, TypeOK
  <2>3. /\ \A e \in Events : Lists(t, e)' => Lists(t, e)
        /\ \A e \in Events : Handles(t, e)' => Lists(t, e)
    BY <2>1, <2>2 DEF Lists, Handles
  <2> QED
    BY <2>2, <2>3, ReadKeepsIndex
    DEF Handles, Handling, Enqueuing, Publishing, FailingAt, Between
<1>7. ASSUME NEW t \in Threads, PublishRead(t) \/ FailRead(t)
      PROVE  IndexKnown'
  <2>1. ev[t] \in Events
    BY <1>0, <1>7 DEF PublishRead, FailRead, Handling, Publishing, FailingAt
  <2>2. /\ UNCHANGED <<index, entry, ev, todo, batch, cut>>
        /\ \A u \in Threads \ {t} : pc'[u] = pc[u] /\ copy'[u] = copy[u]
        /\ copy'[t] = entry[ev[t]]
    BY <1>7 DEF PublishRead, FailRead, Go, TypeInv, TypeOK
  <2>3. \/ pc[t] = "publish_read" /\ pc'[t] = "publish_write"
        \/ /\ pc[t] = "fail_read"
           /\ pc'[t] = IF entry[ev[t]].attempts + 1 >= MaxAttempts
                         THEN "fail_load" ELSE "fail_write"
    BY <1>7 DEF PublishRead, FailRead, Go, TypeInv, TypeOK
  <2>4. /\ pc'[t] = "fail_load" => Exhausted(t)'
        /\ pc'[t] = "fail_write" => ~Exhausted(t)'
    BY <2>2, <2>3 DEF Exhausted
  <2> QED
    BY <2>2, <2>3, <2>4, ReadKeepsIndex
    DEF Lists, Handles, Handling, Enqueuing, Publishing, FailingAt, Between
<1>8. ASSUME NEW t \in Threads, PublishWrite(t)
      PROVE  IndexKnown'
  <2>1. PICK a \in Events : a = ev[t]
    BY <1>0, <1>8 DEF PublishWrite, Handling, Publishing
  <2>2. pc[t] = "publish_write" /\ Handles(t, a)
    BY <1>0, <1>8, <2>1 DEF PublishWrite, Handling, Publishing
  <2>3. /\ entry' = [entry EXCEPT ![a] = [status |-> "published",
                                         attempts |-> copy[t].attempts]]
        /\ UNCHANGED <<index, ev, todo, batch, copy, cut>>
    BY <1>8, <2>1 DEF PublishWrite, SaveEntry
  <2>4. /\ entry'[a].status = "published"
        /\ \A e \in Events \ {a} : entry'[e] = entry[e]
    BY <2>3 DEF TypeInv, TypeOK
  <2>5. pc'[t] = "publish_load" /\ \A u \in Threads \ {t} : pc'[u] = pc[u]
    BY <1>8 DEF PublishWrite, Go, TypeInv, TypeOK
  <2> QED
    BY <2>2, <2>3, <2>4, <2>5, WriteKeepsIndex DEF Enqueuing, Between, Settled
<1>9. ASSUME NEW t \in Threads, PublishLoad(t)
      PROVE  IndexKnown'
  <2>1. PICK a \in Events : a = ev[t]
    BY <1>0, <1>9 DEF PublishLoad, Handling, Publishing
  <2>2. /\ pc[t] = "publish_load"
        /\ UNCHANGED <<index, entry, ev, todo, batch, copy, cut>>
        /\ pc'[t] \in {"publish_save", "idle", "hand"}
        /\ \A u \in Threads \ {t} : pc'[u] = pc[u]
        /\ a \in Range(index) => pc'[t] = "publish_save"
    BY <1>9, <2>1 DEF PublishLoad, GoOn, Go, TypeInv, TypeOK
  <2>3. entry[a].status \in Settled
    BY <2>1, <2>2 DEF IndexKnown, Leaving
  <2>4. a \notin Range(index) => Agrees(a)
    BY <2>3 DEF Agrees, Settled
  <2>5. \A e \in Events : Handles(t, e) /\ Between(t)
                            => (Handles(t, e) /\ Between(t))' \/ Agrees(e)
    BY <2>1, <2>2, <2>4 DEF Handles, Handling, Publishing, Between
  <2> QED
    BY <2>1, <2>2, <2>3, <2>5, ReadKeepsIndex
    DEF Lists, Handles, Handling, Enqueuing, Publishing, FailingAt
<1>10. ASSUME NEW t \in Threads, PublishSave(t) \/ FailSave(t)
       PROVE  IndexKnown'
  <2>1. PICK a \in Events : a = ev[t]
    BY <1>0, <1>10 DEF PublishSave, FailSave, Handling, Publishing, FailingAt
  <2>2. pc[t] \in {"publish_save", "fail_save"} /\ Handles(t, a)
    BY <1>0, <1>10, <2>1
    DEF PublishSave, FailSave, Handling, Publishing, FailingAt
  <2>3. index' = RemoveFirst(index, a)
    BY <1>10, <2>1 DEF PublishSave, FailSave, SaveIndex
  <2>4. Range(index') = Range(index) \ {a}
    BY <2>3, RemoveFromDistinct DEF TypeInv, TypeOK
  <2>5. /\ UNCHANGED <<entry, ev, todo, batch, copy, cut>>
        /\ \A u \in Threads \ {t} : pc'[u] = pc[u]
        /\ pc[t] = "publish_save" => pc'[t] \in {"idle", "hand"}
        /\ pc[t] = "fail_save" => pc'[t] = "fail_write"
    BY <1>10 DEF PublishSave, FailSave, GoOn, Go, TypeInv, TypeOK
  <2>6. /\ pc[t] = "publish_save" => entry[a].status \in Settled
        /\ pc[t] = "fail_save" => Exhausted(t)
        /\ entry[a].status # "none"
    BY <2>1, <2>2 DEF IndexKnown, Leaving, Fresh
  <2>7. Agrees(a)' \/ Between(t)'
    <3>1. CASE pc[t] = "publish_save"
      BY <2>4, <2>5, <2>6, <3>1 DEF Agrees, Settled
    <3>2. CASE pc[t] = "fail_save"
      BY <2>5, <2>6, <3>2 DEF Between, Exhausted
    <3> QED BY <2>2, <3>1, <3>2
  <2> QED
    BY <2>2, <2>4, <2>5, <2>6, <2>7, WriteKeepsIndex DEF Enqueuing
<1>11. ASSUME NEW t \in Threads, FailLoad(t)
       PROVE  IndexKnown'
  <2>1. /\ pc[t] = "fail_load"
        /\ UNCHANGED <<index, entry, ev, todo, batch, copy, cut>>
        /\ pc'[t] \in {"fail_save", "fail_write"}
        /\ \A u \in Threads \ {t} : pc'[u] = pc[u]
        /\ pc'[t] = "fail_write" => ev[t] \notin Range(index)
    BY <1>11 DEF FailLoad, Go, TypeInv, TypeOK
  <2>2. Exhausted(t) /\ Exhausted(t)'
    BY <2>1 DEF IndexKnown, Leaving, Exhausted
  <2> QED
    BY <2>1, <2>2, ReadKeepsIndex
    DEF Lists, Handles, Handling, Enqueuing, Publishing, FailingAt, Between
<1>12. ASSUME NEW t \in Threads, FailWrite(t)
       PROVE  IndexKnown'
  <2>1. PICK a \in Events : a = ev[t]
    BY <1>0, <1>12 DEF FailWrite, Handling, FailingAt
  <2>2. pc[t] = "fail_write" /\ Handles(t, a)
    BY <1>0, <1>12, <2>1 DEF FailWrite, Handling, FailingAt
  <2>3. /\ entry' = [entry EXCEPT ![a] =
                      [status |-> IF Exhausted(t) THEN "failed" ELSE copy[t].status,
                       attempts |-> copy[t].attempts + 1]]
        /\ entry[a] = copy[t]
        /\ UNCHANGED <<index, ev, todo, batch, copy, cut>>
    BY <1>12, <2>1 DEF FailWrite, SaveEntry
  <2>4. /\ entry'[a].status = IF Exhausted(t) THEN "failed" ELSE entry[a].status
        /\ \A e \in Events \ {a} : entry'[e] = entry[e]
    BY <2>3 DEF TypeInv, TypeOK
  <2>5. /\ pc'[t] \in {"idle", "hand"}
        /\ \A u \in Threads \ {t} : pc'[u] = pc[u]
    BY <1>12 DEF FailWrite, GoOn, Go, TypeInv, TypeOK
  <2>6. /\ entry[a].status # "none"
        /\ Exhausted(t) => a \notin Range(index)
    BY <2>1, <2>2 DEF IndexKnown, Leaving, Fresh
  <2>7. \/ Agrees(a)'
        \/ ~Between(t) /\ UNCHANGED <<index, entry[a].status>>
    BY <2>2, <2>3, <2>4, <2>6 DEF Agrees, Between
  <2> QED
    BY <2>2, <2>3, <2>4, <2>5, <2>6, <2>7, WriteKeepsIndex
    DEF Enqueuing, Settled
<1>13. CASE Crash
  BY <1>13, CrashKeepsIndex
<1>14. CASE UNCHANGED vars
  BY <1>14
  DEF vars, IndexKnown, Fresh, Entering, Leaving, Listed, Unknown, Lists,
      Handles, Agrees, Between, Exhausted
<1> QED
  BY <1>1, <1>2, <1>3, <1>4, <1>5, <1>6, <1>7, <1>8, <1>9, <1>10, <1>11, <1>12,
     <1>13, <1>14
  DEF Next, Continue

\* As long as no key is written over a value its writer has not read, and but
\* for events in the middle of two writes, or cut off there, the index lists
\* exactly the pending entries.
THEOREM OutboxIndexAgrees == Spec => []IndexAgrees
<1>1. TypeInv /\ TypeInv' /\ IndexInv /\ [Next]_vars => IndexInv'
  BY IndexStep
<1>2. IndexInv => IndexAgrees
  BY DEF IndexInv, IndexKnown, Listed, IndexAgrees, Agrees, Handles
<1> QED
  BY <1>1, <1>2, TypeInit, TypeStep, IndexInit, PTL DEF Spec

-----------------------------------------------------------------------------
(* The outbox delivers: refinement of EventDelivery *)

Known == {e \in Events : entry[e].status # "none"}

\* What a thread has got hold of, by whatever races, has been stored, and it
\* fails only what a hand-over has raised for.
Holds(t) ==
  /\ Range(seen[t]) \subseteq Known
  /\ Range(todo[t]) \cup Range(batch[t]) \subseteq Known
  /\ pc[t] \in Handling => ev[t] \in Known
  /\ pc[t] \in {"publish_write", "fail_load", "fail_save", "fail_write"} =>
       copy[t].status # "none"
  /\ pc[t] \in FailingAt => failures[ev[t]] # 0

KnownInv == Range(index) \subseteq Known /\ \A t \in Threads : Holds(t)

LEMMA KnownInit == Init => KnownInv
<1>1. Range(<<>>) = {}
  BY DEF Range
<1> QED
  BY <1>1
  DEF Init, KnownInv, Holds, Handling, Enqueuing, Publishing, FailingAt

\* A step of one thread that leaves what is stored stored.
LEMMA KnownKept ==
  ASSUME TypeInv, KnownInv, NEW t \in Threads,
         Known \subseteq Known', \A e \in Events : failures[e] # 0 => failures'[e] # 0,
         Range(index') \subseteq Known', Holds(t)',
         \A u \in Threads \ {t} :
           /\ pc'[u] = pc[u] /\ ev'[u] = ev[u] /\ copy'[u] = copy[u]
           /\ seen'[u] = seen[u] /\ todo'[u] = todo[u] /\ batch'[u] = batch[u]
  PROVE  KnownInv'
<1> SUFFICES ASSUME NEW u \in Threads \ {t}
             PROVE  Holds(u)'
  BY DEF KnownInv
<1>1. Holds(u) /\ (pc[u] \in FailingAt => ev[u] \in Events)
  BY DEF KnownInv, TypeInv, Placed, Handling
<1> QED
  BY <1>1 DEF Holds

\* A write of one entry that is not lost by it.
LEMMA WriteKnown ==
  ASSUME TypeInv, NEW a \in Events, NEW new, new.status # "none",
         entry' = [entry EXCEPT ![a] = new]
  PROVE  Known' = Known \cup {a}
<1>1. entry'[a] = new /\ \A e \in Events \ {a} : entry'[e] = entry[e]
  BY DEF TypeInv, TypeOK
<1> QED
  BY <1>1 DEF Known

\* A thread goes from a handled entry to the next of its batch, or is done.
LEMMA GoOnHolds ==
  ASSUME TypeInv, NEW t \in Threads, Holds(t), Known \subseteq Known', GoOn(t),
         UNCHANGED <<seen, todo, batch>>
  PROVE  Holds(t)'
<1>1. pc'[t] \in {"idle", "hand"}
  BY DEF GoOn, Go, TypeInv, TypeOK
<1> QED
  BY <1>1 DEF Holds, Handling, Enqueuing, Publishing, FailingAt

LEMMA KnownStep ==
  ASSUME TypeInv, TypeInv', KnownInv, [Next]_vars
  PROVE  KnownInv'
<1> USE DEF history, locals, stored, Handling, Enqueuing, Publishing, FailingAt
<1>0. Range(index) \subseteq Known /\ \A t \in Threads : Holds(t)
  BY DEF KnownInv
<1>1. ASSUME NEW t \in Threads, NEW e \in Events, Publish(t, e)
      PROVE  KnownInv'
  <2>1. Known' = Known \cup {e}
    BY <1>1, WriteKnown DEF Publish
  <2>2. Holds(t) /\ pc'[t] = "enqueue_load" /\ ev'[t] = e
    BY <1>0, <1>1 DEF Publish, Go, TypeInv, TypeOK
  <2>3. Holds(t)'
    BY <1>1, <2>1, <2>2 DEF Publish, Holds
  <2> QED
    BY <1>0, <1>1, <2>1, <2>3, KnownKept DEF Publish, Go, TypeInv, TypeOK
<1>2. ASSUME NEW t \in Threads, EnqueueLoad(t) \/ PublishLoad(t) \/ FailLoad(t)
      PROVE  KnownInv'
  <2>1. /\ UNCHANGED <<entry, index, ev, copy, todo, batch, failures>>
        /\ seen' = [seen EXCEPT ![t] = index]
    BY <1>2 DEF EnqueueLoad, PublishLoad, FailLoad, Load
  <2>2. \/ pc[t] = "enqueue_load" /\ \E p \in {"idle", "enqueue_save"} : Go(t, p)
        \/ /\ pc[t] = "publish_load"
           /\ \E p \in {"idle", "hand", "publish_save"} : Go(t, p)
        \/ pc[t] = "fail_load" /\ \E p \in {"fail_save", "fail_write"} : Go(t, p)
    BY <1>2 DEF EnqueueLoad, PublishLoad, FailLoad, GoOn
  <2>3. Known' = Known
    BY <2>1 DEF Known
  <2>4. Holds(t)'
    BY <1>0, <2>1, <2>2, <2>3 DEF Holds, Go, TypeInv, TypeOK
  <2> QED
    BY <1>0, <2>1, <2>2, <2>3, <2>4, KnownKept DEF Go, TypeInv, TypeOK
<1>3. ASSUME NEW t \in Threads, EnqueueSave(t)
      PROVE  KnownInv'
  <2>1. Range(index') \subseteq Known
    <3>1. Range(Append(seen[t], ev[t])) = Range(seen[t]) \cup {ev[t]}
      BY <1>3, AppendSome DEF EnqueueSave, TypeInv, TypeOK, Placed
    <3> QED BY <1>0, <1>3, <3>1 DEF EnqueueSave, SaveIndex, Holds
  <2>2. Known' = Known
    BY <1>3 DEF EnqueueSave, Known
  <2>3. Holds(t)'
    BY <1>0, <1>3, <2>2 DEF EnqueueSave, Go, Holds, TypeInv, TypeOK
  <2> QED
    BY <1>3, <2>1, <2>2, <2>3, KnownKept DEF EnqueueSave, Go, TypeInv, TypeOK
<1>4. ASSUME NEW t \in Threads, List(t)
      PROVE  KnownInv'
  <2>1. Range(Prefix(index)) \subseteq Range(index)
    <3> DEFINE n == IF Len(index) < Limit THEN Len(index) ELSE Limit
    <3>1. n \in Nat /\ n <= Len(index) /\ index \in Seq(Events)
      BY LimitAssumption, LenProperties DEF TypeInv, TypeOK
    <3>2. Prefix(index) = SubSeq(index, 1, n)
      BY DEF Prefix
    <3> HIDE DEF n
    <3> QED BY <3>1, <3>2, SliceOfList
  <2>2. Known' = Known
    BY <1>4 DEF List, Known
  <2>3. Holds(t)'
    BY <1>0, <1>4, <2>1, <2>2 DEF List, Go, Holds, TypeInv, TypeOK
  <2> QED
    BY <1>0, <1>4, <2>2, <2>3, KnownKept DEF List, Go, TypeInv, TypeOK
<1>5. ASSUME NEW t \in Threads, Look(t)
      PROVE  KnownInv'
  <2>1. Known' = Known
    BY <1>5 DEF Look, Known
  <2>2. Holds(t)'
    <3>1. CASE todo[t] = <<>>
      BY <1>0, <1>5, <2>1, <3>1, GoOnHolds DEF Look
    <3>2. CASE todo[t] # <<>>
      <4>1. /\ Head(todo[t]) \in Range(todo[t]) /\ Head(todo[t]) \in Events
            /\ Range(Tail(todo[t])) \subseteq Range(todo[t])
        BY <3>2, HeadAndTail DEF TypeInv, TypeOK
      <4>2. Range(Append(batch[t], Head(todo[t])))
              = Range(batch[t]) \cup {Head(todo[t])}
        BY <4>1, AppendSome DEF TypeInv, TypeOK
      <4>3. /\ todo'[t] = Tail(todo[t]) /\ pc'[t] = "look"
            /\ batch'[t] \in {batch[t], Append(batch[t], Head(todo[t]))}
        BY <1>5, <3>2 DEF Look, TypeInv, TypeOK
      <4>4. UNCHANGED seen /\ Holds(t)
        BY <1>0, <1>5 DEF Look
      <4>5. Range(todo'[t]) \cup Range(batch'[t]) \subseteq Known
        BY <4>1, <4>2, <4>3, <4>4 DEF Holds
      <4> QED BY <2>1, <4>3, <4>4, <4>5 DEF Holds
    <3> QED BY <3>1, <3>2
  <2> QED
    BY <1>0, <1>5, <2>1, <2>2, KnownKept DEF Look, GoOn, Go, TypeInv, TypeOK
<1>6. ASSUME NEW t \in Threads, Hand(t)
      PROVE  KnownInv'
  <2>1. PICK e \in Events : e = Head(batch[t])
    BY <1>6, HeadAndTail DEF Hand, TypeInv, TypeOK, Placed
  <2>2. e \in Range(batch[t]) /\ Range(Tail(batch[t])) \subseteq Range(batch[t])
    BY <1>6, <2>1, HeadAndTail DEF Hand, TypeInv, TypeOK, Placed
  <2>3. Known' = Known
    BY <1>6 DEF Hand, Known
  <2>4. /\ ev'[t] = e /\ batch'[t] = Tail(batch[t])
        /\ UNCHANGED <<seen, copy, todo, index>>
        /\ \/ pc'[t] = "publish_read" /\ UNCHANGED failures
           \/ pc'[t] = "fail_read" /\ failures' = [failures EXCEPT ![e] = @ + 1]
    BY <1>6, <2>1 DEF Hand, Go, TypeInv, TypeOK
  <2>5. /\ \A a \in Events : failures[a] # 0 => failures'[a] # 0
        /\ pc'[t] = "fail_read" => failures'[e] # 0
    <3>1. \A a \in Events : failures[a] \in Nat
      BY DEF TypeInv, TypeOK
    <3> QED BY <2>4, <3>1 DEF TypeInv, TypeOK
  <2>6. Holds(t)'
    BY <1>0, <2>2, <2>3, <2>4, <2>5 DEF Holds
  <2> QED
    BY <1>0, <1>6, <2>3, <2>4, <2>5, <2>6, KnownKept DEF Hand, Go, TypeInv, TypeOK
<1>7. ASSUME NEW t \in Threads, PublishRead(t) \/ FailRead(t)
      PROVE  KnownInv'
  <2>1. /\ UNCHANGED <<entry, index, ev, seen, todo, batch, failures>>
        /\ copy' = [copy EXCEPT ![t] = entry[ev[t]]]
    BY <1>7 DEF PublishRead, FailRead
  <2>2. \/ pc[t] = "publish_read" /\ Go(t, "publish_write")
        \/ /\ pc[t] = "fail_read"
           /\ \E p \in {"fail_load", "fail_write"} : Go(t, p)
    BY <1>7 DEF PublishRead, FailRead
  <2>3. Known' = Known
    BY <2>1 DEF Known
  <2>4. Holds(t)'
    BY <1>0, <2>1, <2>2, <2>3 DEF Holds, Known, Go, TypeInv, TypeOK
  <2> QED
    BY <1>0, <2>1, <2>2, <2>3, <2>4, KnownKept DEF Go, TypeInv, TypeOK
<1>8. ASSUME NEW t \in Threads, PublishWrite(t)
      PROVE  KnownInv'
  <2>1. ev[t] \in Known /\ Known \subseteq Events
    BY <1>0, <1>8 DEF PublishWrite, Holds, Known
  <2> DEFINE new == [status |-> "published", attempts |-> copy[t].attempts]
  <2>2. Known' = Known
    <3>1. PICK a \in Events : a = ev[t]
      BY <2>1
    <3>2. entry' = [entry EXCEPT ![a] = new] /\ new.status # "none"
      BY <1>8, <3>1 DEF PublishWrite, SaveEntry
    <3> HIDE DEF new
    <3>3. Known' = Known \cup {a}
      BY <3>2, WriteKnown
    <3> QED BY <2>1, <3>1, <3>3
  <2>3. Holds(t)'
    BY <1>0, <1>8, <2>2 DEF PublishWrite, Go, Holds, TypeInv, TypeOK
  <2> QED
    BY <1>0, <1>8, <2>2, <2>3, KnownKept DEF PublishWrite, Go, TypeInv, TypeOK
<1>9. ASSUME NEW t \in Threads, PublishSave(t) \/ FailSave(t)
      PROVE  KnownInv'
  <2>1. Range(index') \subseteq Known
    <3>1. Range(RemoveFirst(seen[t], ev[t])) \subseteq Range(seen[t])
      BY RemoveFromDistinct DEF TypeInv, TypeOK
    <3> QED BY <1>0, <1>9, <3>1 DEF PublishSave, FailSave, SaveIndex, Holds
  <2>2. Known' = Known
    BY <1>9 DEF PublishSave, FailSave, Known
  <2>3. Holds(t)'
    BY <1>0, <1>9, <2>2, GoOnHolds
    DEF PublishSave, FailSave, Go, Holds, TypeInv, TypeOK
  <2> QED
    BY <1>9, <2>1, <2>2, <2>3, KnownKept
    DEF PublishSave, FailSave, GoOn, Go, TypeInv, TypeOK
<1>10. ASSUME NEW t \in Threads, FailWrite(t)
       PROVE  KnownInv'
  <2>1. ev[t] \in Known /\ Known \subseteq Events /\ copy[t].status # "none"
    BY <1>0, <1>10 DEF FailWrite, Holds, Known
  <2> DEFINE new == [status |-> IF Exhausted(t) THEN "failed" ELSE copy[t].status,
                     attempts |-> copy[t].attempts + 1]
  <2>2. Known' = Known
    <3>1. PICK a \in Events : a = ev[t]
      BY <2>1
    <3>2. entry' = [entry EXCEPT ![a] = new] /\ new.status # "none"
      BY <1>10, <2>1, <3>1 DEF FailWrite, SaveEntry
    <3> HIDE DEF new
    <3>3. Known' = Known \cup {a}
      BY <3>2, WriteKnown
    <3> QED BY <2>1, <3>1, <3>3
  <2>3. Holds(t)'
    BY <1>0, <1>10, <2>2, GoOnHolds DEF FailWrite
  <2> QED
    BY <1>0, <1>10, <2>2, <2>3, KnownKept DEF FailWrite, GoOn, Go, TypeInv, TypeOK
<1>11. CASE Crash
  <2>1. Range(<<>>) = {}
    BY DEF Range
  <2>2. Known' = Known
    BY <1>11 DEF Crash, Known
  <2> QED
    BY <1>0, <1>11, <2>1, <2>2 DEF Crash, KnownInv, Holds
<1>12. CASE UNCHANGED vars
  BY <1>12 DEF vars, KnownInv, Holds, Known
<1> QED
  BY <1>1, <1>2, <1>3, <1>4, <1>5, <1>6, <1>7, <1>8, <1>9, <1>10, <1>11, <1>12
  DEF Next, Continue

\* One write of an entry is one change of the outcome on record.
LEMMA FateOfWrite ==
  ASSUME TypeInv, NEW a \in Events, NEW new, entry' = [entry EXCEPT ![a] = new]
  PROVE  Fate' = [Fate EXCEPT ![a] = new.status]
<1>1. entry'[a] = new /\ \A e \in Events \ {a} : entry'[e] = entry[e]
  BY DEF TypeInv, TypeOK
<1>2. \A e \in Events :
        entry'[e].status = IF e = a THEN new.status ELSE entry[e].status
  BY <1>1
<1>3. [e \in Events |-> entry[e].status]'
        = [e \in Events |-> IF e = a THEN new.status ELSE entry[e].status]
  BY <1>2, Zenon
<1> QED
  BY <1>3 DEF Fate

LEMMA DeliveryInit == Init => Delivery!Init
BY DEF Init, Absent, Fate, Delivery!Init

\* A write that races, or not.
LEMMA SavesMayRace ==
  ASSUME TypeInv, NEW t \in Threads, NEW new, SaveIndex(t, new) \/ SaveEntry(t, new)
  PROVE  Delivery!MayRace
BY DEF SaveIndex, SaveEntry, TypeInv, TypeOK, Delivery!MayRace

LEMMA DeliveryStep ==
  ASSUME TypeInv, CauseInv, CauseInv', KnownInv, [Next]_vars
  PROVE  [Delivery!Next]_(Delivery!vars)
<1> SUFFICES Delivery!Next \/ UNCHANGED Delivery!vars
  OBVIOUS
<1> USE DEF history, locals, stored
<1>0. /\ UNCHANGED entry => UNCHANGED Fate
      /\ \A e \in Events : Fate[e] = entry[e].status
  BY DEF Fate
<1>1. ASSUME NEW t \in Threads, NEW e \in Events, Publish(t, e)
      PROVE  Delivery!Next
  <2> DEFINE new == [status |-> "pending", attempts |-> 0]
  <2>1. Fate' = [Fate EXCEPT ![e] = "pending"]
    <3>1. entry' = [entry EXCEPT ![e] = new] /\ new.status = "pending"
      BY <1>1 DEF Publish
    <3> HIDE DEF new
    <3> QED BY <3>1, FateOfWrite
  <2> QED BY <1>0, <1>1, <2>1 DEF Publish, Delivery!Store, Delivery!Next
<1>2. ASSUME NEW t \in Threads,
             \/ EnqueueLoad(t) \/ List(t) \/ Look(t) \/ PublishRead(t)
             \/ PublishLoad(t) \/ FailRead(t) \/ FailLoad(t)
      PROVE  UNCHANGED Delivery!vars
  BY <1>0, <1>2 DEF EnqueueLoad, List, Look, PublishRead, PublishLoad, FailRead,
                    FailLoad, Delivery!vars
<1>3. ASSUME NEW t \in Threads, EnqueueSave(t) \/ PublishSave(t) \/ FailSave(t)
      PROVE  Delivery!Next
  <2>1. /\ UNCHANGED <<entry, handed, failures>>
        /\ \E new : SaveIndex(t, new)
    BY <1>3 DEF EnqueueSave, PublishSave, FailSave
  <2> QED BY <1>0, <2>1, SavesMayRace DEF Delivery!Race, Delivery!Next
<1>4. ASSUME NEW t \in Threads, Hand(t)
      PROVE  Delivery!Next
  <2>1. PICK e \in Events : e = Head(batch[t]) /\ e \in Known
    BY <1>4, HeadAndTail DEF Hand, TypeInv, TypeOK, Placed, KnownInv, Holds
  <2>2. Fate[e] # "none"
    BY <2>1 DEF Known, Fate
  <2>3. Delivery!HandOver(e)
    BY <1>0, <1>4, <2>1, <2>2 DEF Hand, Delivery!HandOver
  <2> QED BY <2>1, <2>3 DEF Delivery!Next
<1>5. ASSUME NEW t \in Threads, PublishWrite(t)
      PROVE  Delivery!Next
  <2>1. PICK a \in Events : a = ev[t] /\ a \in Known /\ a \in handed
    BY <1>5 DEF PublishWrite, CauseInv, KnownInv, Holds, Known, Handling, Publishing
  <2> DEFINE new == [status |-> "published", attempts |-> copy[t].attempts]
  <2>2. Fate' = [Fate EXCEPT ![a] = "published"]
    <3>1. entry' = [entry EXCEPT ![a] = new] /\ new.status = "published"
      BY <1>5, <2>1 DEF PublishWrite, SaveEntry
    <3> HIDE DEF new
    <3> QED BY <3>1, FateOfWrite
  <2>3. Delivery!MayRace
    BY <1>5, SavesMayRace DEF PublishWrite
  <2>4. Delivery!Record(a, "published")
    BY <1>0, <1>5, <2>1, <2>2, <2>3 DEF PublishWrite, Known, Delivery!Record
  <2> QED BY <2>1, <2>4 DEF Delivery!Next
<1>6. ASSUME NEW t \in Threads, FailWrite(t)
      PROVE  Delivery!Next
  <2>1. PICK a \in Events : a = ev[t] /\ a \in Known /\ failures[a] # 0
    BY <1>6 DEF FailWrite, KnownInv, Holds, Known, Handling, FailingAt
  <2> DEFINE outcome == IF Exhausted(t) THEN "failed" ELSE copy[t].status
             new == [status |-> outcome, attempts |-> copy[t].attempts + 1]
  <2>2. /\ entry' = [entry EXCEPT ![a] = new]
        /\ overtaken' = (overtaken \/ entry[a] # copy[t])
        /\ UNCHANGED <<handed, failures>>
    BY <1>6, <2>1 DEF FailWrite, SaveEntry
  <2>3. outcome \in {"published", "failed", "pending"}
    <3>1. copy[t].status \in {"published", "failed", "pending"}
      BY <1>6 DEF FailWrite, KnownInv, Holds, TypeInv, TypeOK, Entries, Settled
    <3> QED BY <3>1
  <2>4. new.status = outcome
    OBVIOUS
  <2>5. outcome = "pending" => copy[t].status = "pending"
    OBVIOUS
  <2> HIDE DEF new, outcome
  <2>6. Fate' = [Fate EXCEPT ![a] = outcome]
    BY <2>2, <2>4, FateOfWrite
  <2>7. entry'[a].status = outcome
    BY <2>2, <2>4 DEF TypeInv, TypeOK
  <2>8. /\ outcome = "published" => a \in handed
        /\ outcome = "failed" => failures[a] >= MaxAttempts
    BY <2>2, <2>7 DEF CauseInv, SettledForCause
  <2>9. outcome = "pending" /\ Fate[a] # "pending" => overtaken'
    BY <1>0, <2>2, <2>5
  <2>10. Delivery!MayRace
    BY <1>6, SavesMayRace DEF FailWrite
  <2>11. Delivery!Record(a, outcome)
    BY <1>0, <2>1, <2>2, <2>3, <2>6, <2>8, <2>9, <2>10 DEF Known, Delivery!Record
  <2> QED BY <2>3, <2>11 DEF Delivery!Next
<1>7. CASE Crash \/ UNCHANGED vars
  BY <1>0, <1>7 DEF Crash, vars, Delivery!vars
<1> QED
  BY <1>1, <1>2, <1>3, <1>4, <1>5, <1>6, <1>7 DEF Next, Continue

\* OutboxStore without a lock, drained by any threads that race and end
\* anywhere: every behaviour of it is one of the deliveries it promises.
THEOREM OutboxDelivers == Spec => ImplementsDelivery
<1>1. TypeInv /\ TypeInv' /\ CauseInv /\ [Next]_vars => CauseInv'
  BY CauseStep
<1>2. TypeInv /\ TypeInv' /\ KnownInv /\ [Next]_vars => KnownInv'
  BY KnownStep
<1>3. TypeInv /\ CauseInv /\ CauseInv' /\ KnownInv /\ [Next]_vars
        => [Delivery!Next]_(Delivery!vars)
  BY DeliveryStep
<1> QED
  BY <1>1, <1>2, <1>3, TypeInit, TypeStep, CauseInit, KnownInit, DeliveryInit, PTL
  DEF Spec, ImplementsDelivery, Delivery!Spec

=============================================================================
