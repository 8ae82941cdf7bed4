---------------------------- MODULE AsyncLockProofs ----------------------------
(***************************************************************************)
(* Lemmas about the operations of asyncio.Lock, for every set of tasks.    *)
(***************************************************************************)
EXTENDS AsyncLock, TLAPS

-----------------------------------------------------------------------------
(* The lock operators keep the type of a lock.                             *)

(* Removing one element leaves a sequence over the same set.               *)
LEMMA WithoutPlaceType ==
    ASSUME NEW S, NEW s \in Seq(S), NEW i
    PROVE  WithoutPlace(s, i) \in Seq(S)
<1> DEFINE f == WithoutPlace(s, i)
<1>1. CASE Len(s) = 0
  <2>1. 1 .. Len(s) - 1 = 1 .. 0
    BY <1>1
  <2>2. f \in [1 .. 0 -> S]
    BY <2>1 DEF WithoutPlace
  <2> QED
    BY <2>2
<1>2. CASE Len(s) # 0
  <2>1. Len(s) - 1 \in Nat
    BY <1>2
  <2>2. \A j \in 1 .. Len(s) - 1 : s[j] \in S /\ s[j + 1] \in S
    OBVIOUS
  <2>3. f \in [1 .. Len(s) - 1 -> S]
    BY <2>2 DEF WithoutPlace
  <2> QED
    BY <2>1, <2>3
<1> QED
  BY <1>1, <1>2

(* Every operation of asyncio.Lock on a well-typed lock gives one.         *)
LEMMA LockTypes ==
    ASSUME NEW tasks, NEW l \in Locks(tasks), NEW t \in tasks
    PROVE  /\ Taken(l, t) \in Locks(tasks)
           /\ Queued(l, t) \in Locks(tasks)
           /\ Released(l) \in Locks(tasks)
           /\ Abandoned(l, t) \in Locks(tasks)
           /\ l.waiters # << >> => Granted(l, t) \in Locks(tasks)
<1>1. \A i : WithoutPlace(l.waiters, i) \in Seq(tasks)
  BY WithoutPlaceType DEF Locks
<1>2. Abandoned(l, t) \in Locks(tasks)
  BY <1>1 DEF Locks, Abandoned
<1>3. Taken(l, t) \in Locks(tasks) /\ Released(l) \in Locks(tasks)
  BY DEF Locks, Taken, Released
<1>4. Queued(l, t) \in Locks(tasks)
  BY DEF Locks, Queued
<1>5. l.waiters # << >> => Granted(l, t) \in Locks(tasks)
  BY DEF Locks, Granted
<1> QED
  BY <1>2, <1>3, <1>4, <1>5

-----------------------------------------------------------------------------
(* What a sequence of distinct waiters holds.                              *)
Among(u, s) == \E i \in 1 .. Len(s) : s[i] = u
Distinct(s) == \A i, j \in 1 .. Len(s) : s[i] = s[j] => i = j

LEMMA AppendWaiter ==
    ASSUME NEW S, NEW s \in Seq(S), NEW t \in S, Distinct(s), ~Among(t, s)
    PROVE  /\ Distinct(Append(s, t))
           /\ \A u : Among(u, Append(s, t)) <=> u = t \/ Among(u, s)
<1> DEFINE a == Append(s, t)
<1>1. /\ Len(a) = Len(s) + 1
      /\ \A i \in 1 .. Len(s) : a[i] = s[i]
      /\ a[Len(s) + 1] = t
  OBVIOUS
<1> HIDE DEF a
<1>2. Distinct(a)
  BY <1>1 DEF Distinct, Among
<1>3. ASSUME NEW u
      PROVE  Among(u, a) <=> u = t \/ Among(u, s)
  BY <1>1 DEF Among
<1> QED
  BY <1>2, <1>3 DEF a

LEMMA RemoveHead ==
    ASSUME NEW S, NEW s \in Seq(S), s # << >>, Distinct(s)
    PROVE  /\ Distinct(Tail(s))
           /\ \A u : Among(u, Tail(s)) <=> u # Head(s) /\ Among(u, s)
<1> DEFINE b == Tail(s)
<1>1. /\ Len(b) = Len(s) - 1 /\ Len(s) \in Nat \ {0}
      /\ \A i \in 1 .. Len(b) : b[i] = s[i + 1]
      /\ Head(s) = s[1]
  OBVIOUS
<1> HIDE DEF b
<1>2. Distinct(b)
  BY <1>1 DEF Distinct
<1>3. ASSUME NEW u
      PROVE  Among(u, b) <=> u # Head(s) /\ Among(u, s)
  <2>1. ASSUME Among(u, b) PROVE u # Head(s) /\ Among(u, s)
    <3>1. PICK i \in 1 .. Len(b) : b[i] = u
      BY <2>1 DEF Among
    <3>2. i + 1 \in 1 .. Len(s) /\ s[i + 1] = u /\ i + 1 # 1
      BY <1>1, <3>1
    <3>3. 1 \in 1 .. Len(s)
      BY <1>1
    <3> QED
      BY <1>1, <3>2, <3>3 DEF Among, Distinct
  <2>2. ASSUME u # Head(s), Among(u, s) PROVE Among(u, b)
    <3>1. PICK i \in 1 .. Len(s) : s[i] = u
      BY <2>2 DEF Among
    <3>2. i - 1 \in 1 .. Len(b) /\ b[i - 1] = s[i]
      BY <1>1, <2>2, <3>1
    <3> QED
      BY <3>1, <3>2 DEF Among
  <2> QED
    BY <2>1, <2>2
<1> QED
  BY <1>2, <1>3 DEF b

LEMMA RemoveWaiter ==
    ASSUME NEW S, NEW s \in Seq(S), NEW k \in 1 .. Len(s), Distinct(s)
    PROVE  /\ Distinct(WithoutPlace(s, k))
           /\ \A u : Among(u, WithoutPlace(s, k)) <=> u # s[k] /\ Among(u, s)
<1> DEFINE w == WithoutPlace(s, k)
<1>1. Len(s) - 1 \in Nat
  OBVIOUS
<1>2. /\ Len(w) = Len(s) - 1
      /\ \A i \in 1 .. Len(w) : w[i] = IF i < k THEN s[i] ELSE s[i + 1]
  BY <1>1 DEF WithoutPlace
<1> HIDE DEF w
<1>3. Distinct(w)
  BY <1>1, <1>2 DEF Distinct
<1>4. ASSUME NEW u
      PROVE  Among(u, w) <=> u # s[k] /\ Among(u, s)
  <2>1. ASSUME Among(u, w) PROVE u # s[k] /\ Among(u, s)
    <3>1. PICK i \in 1 .. Len(w) : w[i] = u
      BY <2>1 DEF Among
    <3>2. PICK j \in 1 .. Len(s) : j # k /\ s[j] = u
      BY <1>1, <1>2, <3>1
    <3> QED
      BY <3>2 DEF Among, Distinct
  <2>2. ASSUME u # s[k], Among(u, s) PROVE Among(u, w)
    <3>1. PICK j \in 1 .. Len(s) : s[j] = u
      BY <2>2 DEF Among
    <3>2. CASE j < k
      <4>1. j \in 1 .. Len(w) /\ w[j] = u
        BY <1>1, <1>2, <3>1, <3>2
      <4> QED
        BY <4>1 DEF Among
    <3>3. CASE j > k
      <4>1. j - 1 \in 1 .. Len(w) /\ w[j - 1] = u
        BY <1>1, <1>2, <3>1, <3>3
      <4> QED
        BY <4>1 DEF Among
    <3> QED
      BY <2>2, <3>1, <3>2, <3>3
  <2> QED
    BY <2>1, <2>2
<1> QED
  BY <1>3, <1>4 DEF w

-----------------------------------------------------------------------------
(* The order of the waiters.                                               *)

(* t waits before u in the queue s.                                        *)
Ahead(t, u, s) ==
    \E i, j \in 1 .. Len(s) : i < j /\ s[i] = t /\ s[j] = u

(* A newcomer joins behind everybody, and everybody else keeps his place.  *)
LEMMA AppendOrder ==
    ASSUME NEW S, NEW s \in Seq(S), NEW x \in S
    PROVE  \A t, u : Ahead(t, u, Append(s, x))
                        => Ahead(t, u, s) \/ (u = x /\ Among(t, s))
<1> DEFINE a == Append(s, x)
<1>1. /\ Len(a) = Len(s) + 1
      /\ \A i \in 1 .. Len(s) : a[i] = s[i]
      /\ a[Len(s) + 1] = x
  OBVIOUS
<1> HIDE DEF a
<1> SUFFICES ASSUME NEW t, NEW u, Ahead(t, u, a)
             PROVE  Ahead(t, u, s) \/ (u = x /\ Among(t, s))
  BY DEF a
<1>2. PICK i, j \in 1 .. Len(a) : i < j /\ a[i] = t /\ a[j] = u
  BY DEF Ahead
<1>3. i \in 1 .. Len(s) /\ s[i] = t
  BY <1>1, <1>2
<1>4. CASE j = Len(s) + 1
  BY <1>1, <1>2, <1>3, <1>4 DEF Among
<1>5. CASE j # Len(s) + 1
  <2>1. j \in 1 .. Len(s) /\ s[j] = u
    BY <1>1, <1>2, <1>5
  <2> QED
    BY <1>2, <1>3, <2>1 DEF Ahead
<1> QED
  BY <1>4, <1>5

(* Whoever is left when the first waiter goes was behind him.              *)
LEMMA TailOrder ==
    ASSUME NEW S, NEW s \in Seq(S), s # << >>
    PROVE  /\ \A t, u : Ahead(t, u, Tail(s)) => Ahead(t, u, s)
           /\ \A u : Among(u, Tail(s)) => Ahead(Head(s), u, s)
<1> DEFINE b == Tail(s)
<1>1. /\ Len(b) = Len(s) - 1 /\ Len(s) \in Nat \ {0}
      /\ \A i \in 1 .. Len(b) : b[i] = s[i + 1]
      /\ Head(s) = s[1]
  OBVIOUS
<1> HIDE DEF b
<1>2. ASSUME NEW t, NEW u, Ahead(t, u, b)
      PROVE  Ahead(t, u, s)
  <2>1. PICK i, j \in 1 .. Len(b) : i < j /\ b[i] = t /\ b[j] = u
    BY <1>2 DEF Ahead
  <2>2. /\ i + 1 \in 1 .. Len(s) /\ j + 1 \in 1 .. Len(s) /\ i + 1 < j + 1
        /\ s[i + 1] = t /\ s[j + 1] = u
    BY <1>1, <2>1
  <2> QED
    BY <2>2 DEF Ahead
<1>3. ASSUME NEW u, Among(u, b)
      PROVE  Ahead(Head(s), u, s)
  <2>1. PICK i \in 1 .. Len(b) : b[i] = u
    BY <1>3 DEF Among
  <2>2. /\ 1 \in 1 .. Len(s) /\ i + 1 \in 1 .. Len(s) /\ 1 < i + 1
        /\ s[1] = Head(s) /\ s[i + 1] = u
    BY <1>1, <2>1
  <2> QED
    BY <2>2 DEF Ahead
<1> QED
  BY <1>2, <1>3 DEF b

(* A waiter that gives up changes the order of no other two.               *)
LEMMA RemoveOrder ==
    ASSUME NEW S, NEW s \in Seq(S), NEW k \in 1 .. Len(s)
    PROVE  \A t, u : Ahead(t, u, WithoutPlace(s, k)) => Ahead(t, u, s)
<1> DEFINE w == WithoutPlace(s, k)
<1>1. Len(s) - 1 \in Nat
  OBVIOUS
<1>2. /\ Len(w) = Len(s) - 1
      /\ \A i \in 1 .. Len(w) : w[i] = IF i < k THEN s[i] ELSE s[i + 1]
  BY <1>1 DEF WithoutPlace
<1> HIDE DEF w
<1> SUFFICES ASSUME NEW t, NEW u, Ahead(t, u, w)
             PROVE  Ahead(t, u, s)
  BY DEF w
<1>3. PICK i, j \in 1 .. Len(w) : i < j /\ w[i] = t /\ w[j] = u
  BY DEF Ahead
<1> DEFINE p == IF i < k THEN i ELSE i + 1
           q == IF j < k THEN j ELSE j + 1
<1>4. p \in 1 .. Len(s) /\ q \in 1 .. Len(s) /\ p < q
  BY <1>1, <1>2, <1>3
<1>5. s[p] = t /\ s[q] = u
  BY <1>1, <1>2, <1>3
<1> HIDE DEF p, q
<1> QED
  BY <1>4, <1>5 DEF Ahead

=============================================================================
