------------------------------ MODULE AsyncLock ------------------------------
(***************************************************************************)
(* asyncio.Lock, as the sender lock, the input operation lock and the      *)
(* lifecycle lock of swbt use it (the library itself is external).         *)
(*                                                                         *)
(* A lock is taken at once only when nobody holds it and nobody waits for  *)
(* it; otherwise the caller joins the end of the waiters.  Releasing the   *)
(* lock only wakes the first waiter, which takes the lock when its task is *)
(* next scheduled: until then the lock is free, yet a newcomer still       *)
(* queues behind the waiters.  A cancelled waiter leaves the queue.        *)
(***************************************************************************)
EXTENDS Naturals, Sequences

CONSTANT NoTask                 \* "no task holds the lock"

(* The locks of a set of tasks.                                            *)
Locks(tasks) == [holder : tasks \cup {NoTask}, waiters : Seq(tasks)]

FreeLock == [holder |-> NoTask, waiters |-> << >>]

Contended(lock) == lock.holder # NoTask \/ lock.waiters # << >>

Taken(lock, t) == [lock EXCEPT !.holder = t]

Queued(lock, t) == [lock EXCEPT !.waiters = Append(@, t)]

(* t is the task the release of the lock has woken.                        *)
Woken(lock, t) ==
    /\ lock.holder = NoTask
    /\ lock.waiters # << >>
    /\ t = Head(lock.waiters)

Granted(lock, t) == [holder |-> t, waiters |-> Tail(lock.waiters)]

Released(lock) == [lock EXCEPT !.holder = NoTask]

(* The queue without its element at position i.                            *)
WithoutPlace(s, i) ==
    [j \in 1 .. Len(s) - 1 |-> IF j < i THEN s[j] ELSE s[j + 1]]

(* The lock after its waiter t is cancelled (t waits at most once).        *)
Abandoned(lock, t) ==
    LET i == CHOOSE k \in 1 .. Len(lock.waiters) : lock.waiters[k] = t
    IN  [lock EXCEPT !.waiters = WithoutPlace(@, i)]

=============================================================================
