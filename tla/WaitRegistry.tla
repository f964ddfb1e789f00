---------------------------- MODULE WaitRegistry ----------------------------
(***************************************************************************)
(* What the wait plane promises the owners of interests, without matcher,  *)
(* index, signals or slices: a result is delivered once, into an open      *)
(* interest, when its target has succeeded; an interest is closed when its *)
(* target has ended and its owner has the result, or is over itself.       *)
(***************************************************************************)
CONSTANT Jobs

VARIABLES
  verdict,  \* how each job ended, or "running"
  open,     \* the targets of each owner's open interests
  got       \* the targets whose result it was given

vars == <<verdict, open, got>>

Over(j) == verdict[j] # "running"

Init ==
  /\ verdict = [j \in Jobs |-> "running"]
  /\ open = [j \in Jobs |-> {}]
  /\ got = [j \in Jobs |-> {}]

End(j) ==
  /\ ~Over(j)
  /\ \E v \in {"ok", "failed"} : verdict' = [verdict EXCEPT ![j] = v]
  /\ UNCHANGED <<open, got>>

\* open_on_job; the target may have ended meanwhile.
Open(o, t) ==
  /\ t \notin open[o] \cup got[o]
  /\ open' = [open EXCEPT ![o] = @ \cup {t}]
  /\ UNCHANGED <<verdict, got>>

\* resume_owner.
Deliver(o, t) ==
  /\ t \in open[o] \ got[o] /\ verdict[t] = "ok"
  /\ got' = [got EXCEPT ![o] = @ \cup {t}]
  /\ UNCHANGED <<verdict, open>>

\* close_on_job.
Close(o, t) ==
  /\ t \in open[o] /\ Over(t)
  /\ t \in got[o] \/ Over(o)
  /\ open' = [open EXCEPT ![o] = @ \ {t}]
  /\ UNCHANGED <<verdict, got>>

Next ==
  \/ \E j \in Jobs : End(j)
  \/ \E o, t \in Jobs : Open(o, t) \/ Deliver(o, t) \/ Close(o, t)

Spec == Init /\ [][Next]_vars
=============================================================================
