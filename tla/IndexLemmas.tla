----------------------------- MODULE IndexLemmas -----------------------------
(***************************************************************************)
(* Lemmas about the lists of ids that the stores keep under one storage    *)
(* key: what list.remove, append, slices and iteration leave of them.      *)
(***************************************************************************)
EXTENDS Naturals, SequencesExt, SequenceTheorems, TLAPS

\* list.remove on an index without repetitions: what is left, and in what order.
LEMMA RemoveFromDistinct ==
  ASSUME NEW S, NEW s \in Seq(S), IsInjective(s), NEW e
  PROVE  /\ RemoveFirst(s, e) \in Seq(S)
         /\ IsInjective(RemoveFirst(s, e))
         /\ Range(RemoveFirst(s, e)) = Range(s) \ {e}
<1>1. CASE e \notin Range(s)
  <2>1. ~ \E n \in 1..Len(s) : s[n] = e
    BY <1>1 DEF Range
  <2>2. RemoveFirst(s, e) = s
    BY <2>1 DEF RemoveFirst
  <2> QED BY <1>1, <2>2
<1>2. CASE e \in Range(s)
  <2>1. PICK n \in 1..Len(s) : s[n] = e
    BY <1>2 DEF Range
  <2>2. {m \in 1..Len(s) : s[m] = e} = {n}
    BY <2>1 DEF IsInjective
  <2>3. SelectInSeq(s, LAMBDA v : v = e) = n
    <3>1. Min({n}) = n
      BY <2>1 DEF Min
    <3> QED BY <2>2, <3>1 DEF SelectInSeq
  <2>4. RemoveFirst(s, e) = RemoveAt(s, n)
    BY <2>1, <2>3 DEF RemoveFirst
  <2> DEFINE r == RemoveAt(s, n)
  <2>5. /\ r \in Seq(S) /\ Len(r) = Len(s) - 1
        /\ \A m \in 1..Len(r) : r[m] = IF m < n THEN s[m] ELSE s[m + 1]
    <3>1. /\ SubSeq(s, 1, n - 1) \in Seq(S) /\ Len(SubSeq(s, 1, n - 1)) = n - 1
          /\ \A m \in 1..(n - 1) : SubSeq(s, 1, n - 1)[m] = s[m]
      BY <2>1, SubSeqProperties
    <3>2. /\ SubSeq(s, n + 1, Len(s)) \in Seq(S)
          /\ Len(SubSeq(s, n + 1, Len(s))) = Len(s) - n
          /\ \A m \in 1..(Len(s) - n) : SubSeq(s, n + 1, Len(s))[m] = s[m + n]
      BY <2>1, SubSeqProperties
    <3> DEFINE a == SubSeq(s, 1, n - 1)
               b == SubSeq(s, n + 1, Len(s))
    <3>3. r = a \o b
      BY DEF RemoveAt
    <3>4. Len(s) \in Nat
      OBVIOUS
    <3> HIDE DEF a, b, r
    <3>5. /\ r \in Seq(S) /\ Len(r) = Len(a) + Len(b)
          /\ \A m \in 1..(Len(a) + Len(b)) :
               r[m] = IF m <= Len(a) THEN a[m] ELSE b[m - Len(a)]
      BY <3>1, <3>2, <3>3, ConcatProperties DEF a, b
    <3>6. Len(a) = n - 1 /\ Len(b) = Len(s) - n
      BY <3>1, <3>2 DEF a, b
    <3>7. ASSUME NEW m \in 1..Len(r), m >= n PROVE r[m] = s[m + 1]
      <4>1. r[m] = b[m - (n - 1)] /\ m - (n - 1) \in 1..(Len(s) - n)
        BY <2>1, <3>4, <3>5, <3>6, <3>7
      <4>2. (m - (n - 1)) + n = m + 1
        BY <2>1
      <4>3. b[m - (n - 1)] = s[(m - (n - 1)) + n]
        BY <3>2, <4>1 DEF b
      <4> QED BY <4>1, <4>2, <4>3
    <3>8. ASSUME NEW m \in 1..Len(r), m < n PROVE r[m] = s[m]
      BY <2>1, <3>1, <3>4, <3>5, <3>6, <3>8 DEF a
    <3> QED BY <2>1, <3>4, <3>5, <3>6, <3>7, <3>8
  <2>6. IsInjective(r)
    BY <2>1, <2>5 DEF IsInjective
  <2>7. Range(r) \subseteq Range(s) \ {e}
    BY <2>1, <2>5 DEF IsInjective, Range
  <2>8. Range(s) \ {e} \subseteq Range(r)
    <3> SUFFICES ASSUME NEW m \in 1..Len(s), s[m] # e PROVE s[m] \in Range(r)
      BY DEF Range
    <3>1. CASE m < n
      <4>1. m \in 1..Len(r) /\ r[m] = s[m]
        BY <2>1, <2>5, <3>1
      <4> QED BY <4>1, <2>5 DEF Range
    <3>2. CASE m > n
      <4>1. m - 1 \in 1..Len(r) /\ r[m - 1] = s[m]
        BY <2>1, <2>5, <3>2
      <4> QED BY <4>1, <2>5 DEF Range
    <3> QED BY <2>1, <3>1, <3>2
  <2> QED BY <2>4, <2>5, <2>6, <2>7, <2>8
<1> QED BY <1>1, <1>2

\* append of an id the list may have already ...
LEMMA AppendSome ==
  ASSUME NEW S, NEW s \in Seq(S), NEW e \in S
  PROVE  /\ Append(s, e) \in Seq(S)
         /\ Range(Append(s, e)) = Range(s) \cup {e}
<1>1. /\ Append(s, e) \in Seq(S) /\ Len(Append(s, e)) = Len(s) + 1
      /\ Append(s, e)[Len(s) + 1] = e
      /\ \A m \in 1..Len(s) : Append(s, e)[m] = s[m]
  BY AppendProperties
<1> QED
  BY <1>1 DEF Range

\* ... and of a new one.
LEMMA AppendNew ==
  ASSUME NEW S, NEW s \in Seq(S), IsInjective(s), NEW e \in S, e \notin Range(s)
  PROVE  /\ Append(s, e) \in Seq(S)
         /\ IsInjective(Append(s, e))
         /\ Range(Append(s, e)) = Range(s) \cup {e}
<1>1. /\ Append(s, e) \in Seq(S) /\ Len(Append(s, e)) = Len(s) + 1
      /\ Append(s, e)[Len(s) + 1] = e
      /\ \A m \in 1..Len(s) : Append(s, e)[m] = s[m]
  BY AppendProperties
<1>2. IsInjective(Append(s, e))
  BY <1>1 DEF IsInjective, Range
<1> QED
  BY <1>1, <1>2, AppendSome

\* The first of a list, and the others.
LEMMA HeadAndTail ==
  ASSUME NEW S, NEW s \in Seq(S), s # <<>>
  PROVE  /\ Head(s) \in S /\ Head(s) \in Range(s)
         /\ Tail(s) \in Seq(S) /\ Range(Tail(s)) \subseteq Range(s)
<1>1. Len(s) \in Nat /\ Len(s) # 0
  BY EmptySeq
<1>2. Head(s) = s[1] /\ 1 \in 1..Len(s)
  BY <1>1, HeadTailProperties
<1>3. /\ Tail(s) \in Seq(S) /\ Len(Tail(s)) = Len(s) - 1
      /\ \A m \in 1..Len(Tail(s)) : Tail(s)[m] = s[m + 1]
  BY HeadTailProperties
<1>4. Range(Tail(s)) \subseteq Range(s)
  BY <1>1, <1>3 DEF Range
<1> QED
  BY <1>2, <1>3, <1>4 DEF Range

\* A list without repetitions loses its head with its tail.
LEMMA TailOfDistinct ==
  ASSUME NEW S, NEW s \in Seq(S), s # <<>>, IsInjective(s)
  PROVE  IsInjective(Tail(s)) /\ Range(Tail(s)) = Range(s) \ {Head(s)}
<1> DEFINE rest == Tail(s)
<1>1. Len(s) \in Nat /\ Len(s) # 0 /\ DOMAIN s = 1..Len(s)
  BY EmptySeq
<1>2. /\ Head(s) = s[1] /\ rest \in Seq(S) /\ Len(rest) = Len(s) - 1
      /\ \A m \in 1..Len(rest) : rest[m] = s[m + 1]
  BY HeadTailProperties
<1> HIDE DEF rest
<1>3. DOMAIN rest = 1..Len(rest)
  BY <1>2
<1>4. IsInjective(rest)
  <2> SUFFICES ASSUME NEW m \in DOMAIN rest, NEW n \in DOMAIN rest, rest[m] = rest[n]
               PROVE  m = n
    BY DEF IsInjective
  <2>1. m + 1 \in DOMAIN s /\ n + 1 \in DOMAIN s
    BY <1>1, <1>2, <1>3
  <2>2. s[m + 1] = s[n + 1]
    BY <1>2, <1>3
  <2>3. m + 1 = n + 1
    BY <2>1, <2>2 DEF IsInjective
  <2> QED BY <1>3, <2>3
<1>5. ASSUME NEW m \in DOMAIN rest PROVE rest[m] \in Range(s) \ {Head(s)}
  <2>1. m + 1 \in DOMAIN s /\ m + 1 # 1 /\ 1 \in DOMAIN s /\ rest[m] = s[m + 1]
    BY <1>1, <1>2, <1>3
  <2> QED BY <1>2, <2>1 DEF IsInjective, Range
<1>6. ASSUME NEW n \in DOMAIN s, s[n] # Head(s) PROVE s[n] \in Range(rest)
  <2>1. n - 1 \in DOMAIN rest /\ (n - 1) + 1 = n
    BY <1>1, <1>2, <1>3, <1>6
  <2>2. rest[n - 1] = s[n]
    BY <1>2, <1>3, <2>1
  <2> QED BY <2>1, <2>2 DEF Range
<1> QED
  BY <1>4, <1>5, <1>6 DEF Range, rest

\* A slice from the start.
LEMMA SliceOfList ==
  ASSUME NEW S, NEW s \in Seq(S), NEW n \in Nat, n <= Len(s)
  PROVE  /\ SubSeq(s, 1, n) \in Seq(S)
         /\ Range(SubSeq(s, 1, n)) \subseteq Range(s)
<1>1. /\ SubSeq(s, 1, n) \in Seq(S) /\ Len(SubSeq(s, 1, n)) = n
      /\ \A m \in 1..n : SubSeq(s, 1, n)[m] = s[m]
  BY SubSeqProperties
<1> QED
  BY <1>1 DEF Range

=============================================================================
