------------------------- MODULE ReportSenderProofs --------------------------
(***************************************************************************)
(* Theorems about ReportSender, for every set of tasks, every choice of    *)
(* subcommands and input operations, and every value of the bounds.        *)
(***************************************************************************)
EXTENDS ReportSender, AsyncLockProofs, TLAPS

-----------------------------------------------------------------------------
(* The session operators keep the type of a session.                       *)

LEMMA SessionTypes ==
    ASSUME NEW s \in Sessions, NEW sub \in Subcommands
    PROVE  /\ Transition(s, sub) \in Sessions
           /\ Encoded(s) \in Sessions
           /\ Observing(s, sub) \in Sessions
<1>1. Transition(s, sub) \in Sessions
  BY DEF Transition, Sessions, ImuModes
<1>2. Encoded(s) \in Sessions
  BY DEF Encoded, Sessions
<1>3. Observing(s, sub) \in Sessions
  BY DEF Observing, Sessions
<1> QED
  BY <1>1, <1>2, <1>3

-----------------------------------------------------------------------------
(* Type correctness.                                                       *)

PcValues == {"idle", "waiting", "sending", "sleeping"}

LEMMA NoOpType == NoOp \in Ops /\ NewSession \in Sessions
<1>1. NewSession \in Sessions
  BY DEF NewSession, Sessions, ImuModes
<1>2. NoOp \in Ops
  BY <1>1, BoundAssumption DEF NoOp, Ops, Inputs, Neutral
<1> QED
  BY <1>1, <1>2

(* The critical section leaves well-typed task, lock and session states.   *)
LEMMA CriticalTypes ==
    ASSUME TypeOK, NEW t \in Tasks, NEW o \in Ops, NEW l \in Locks(Tasks),
           NEW s \in Sessions, Critical(t, o, l, s)
    PROVE  /\ pc' \in [Tasks -> PcValues]
           /\ op' \in [Tasks -> Ops]
           /\ lock' \in Locks(Tasks)
           /\ session' \in Sessions
<1>1. Released(l) \in Locks(Tasks)
  BY LockTypes
<1>2. ASSUME Leave(t, l)
      PROVE  pc' \in [Tasks -> PcValues] /\ op' \in [Tasks -> Ops]
             /\ lock' \in Locks(Tasks)
  BY <1>1, <1>2, NoOpType DEF Leave, TypeOK, PcValues
<1>3. ASSUME NEW state \in Inputs, Submit(t, o, l, state)
      PROVE  pc' \in [Tasks -> PcValues] /\ op' \in [Tasks -> Ops]
             /\ lock' \in Locks(Tasks)
  <2>1. [o EXCEPT !.state = state, !.stamp = timer] \in Ops
    BY DEF Ops, TypeOK
  <2> QED
    BY <1>3, <2>1 DEF Submit, TypeOK, PcValues
<1>4. CASE SkipHeldOff(t, o, l, s)
  BY <1>2, <1>4 DEF SkipHeldOff
<1>5. CASE SubmitInput(t, o, l, s)
  <2>1. (IF o.kind = "current" THEN store ELSE o.state) \in Inputs
    BY DEF Ops, TypeOK
  <2>2. Encoded(s) \in Sessions
    BY DEF Encoded, Sessions
  <2> QED
    BY <1>3, <1>5, <2>1, <2>2 DEF SubmitInput
<1>6. CASE SubmitReply(t, o, l, s)
  <2>1. (IF ProtocolReady(s) THEN store ELSE Neutral) \in Inputs
    BY BoundAssumption DEF Inputs, Neutral, TypeOK
  <2>2. Transition(s, o.sub) \in Sessions
    BY DEF Transition, Sessions, ImuModes
  <2> QED
    BY <1>3, <1>6, <2>1, <2>2 DEF SubmitReply
<1>7. CASE RejectReply(t, o, l, s)
  BY <1>2, <1>7 DEF RejectReply, Ops
<1>8. CASE LookAtHoldoff(t, o, l, s)
  <2>1. [o EXCEPT !.left = holdoff] \in Ops
    BY DEF Ops, TypeOK
  <2> QED
    BY <1>1, <1>2, <1>8, <2>1 DEF LookAtHoldoff, TypeOK, PcValues
<1> QED
  BY <1>4, <1>5, <1>6, <1>7, <1>8 DEF Critical

(* So does asking for the lock.                                            *)
LEMMA AskForLockTypes ==
    ASSUME TypeOK, NEW t \in Tasks, NEW o \in Ops, NEW s \in Sessions,
           AskForLock(t, o, s)
    PROVE  /\ pc' \in [Tasks -> PcValues]
           /\ op' \in [Tasks -> Ops]
           /\ lock' \in Locks(Tasks)
           /\ session' \in Sessions
<1>1. Taken(lock, t) \in Locks(Tasks) /\ Queued(lock, t) \in Locks(Tasks)
  BY LockTypes DEF TypeOK
<1>2. CASE Critical(t, o, Taken(lock, t), s)
  BY <1>1, <1>2, CriticalTypes
<1>3. CASE /\ pc' = [pc EXCEPT ![t] = "waiting"]
           /\ op' = [op EXCEPT ![t] = o]
           /\ lock' = Queued(lock, t)
           /\ session' = s
  BY <1>1, <1>3 DEF TypeOK, PcValues
<1> QED
  BY <1>2, <1>3 DEF AskForLock

LEMMA TypeInit == Init => TypeOK
<1> SUFFICES ASSUME Init PROVE TypeOK
  OBVIOUS
<1>1. lock \in Locks(Tasks)
  BY DEF Init, FreeLock, Locks
<1>2. wire \in 0 .. TimerModulus - 1
  BY BoundAssumption DEF Init
<1> QED
  BY <1>1, <1>2, NoOpType, BoundAssumption DEF Init, TypeOK, Inputs, Neutral

LEMMA TypeStep == TypeOK /\ [Next]_vars => TypeOK'
<1> SUFFICES ASSUME TypeOK, [Next]_vars PROVE TypeOK'
  OBVIOUS
<1> USE DEF TypeOK
<1>1. ASSUME NEW t \in ReplyTasks, NEW sub \in Subcommands, Dispatch(t, sub)
      PROVE  TypeOK'
  <2> DEFINE s == Observing(session, sub)
             o == [NoOp EXCEPT !.kind = "reply", !.sub = sub, !.before = s]
  <2>1. s \in Sessions
    BY SessionTypes
  <2>2. o \in Ops
    BY <2>1, NoOpType DEF Ops
  <2>3. AskForLock(t, o, s) /\ t \in Tasks
    BY <1>1 DEF Dispatch, Tasks
  <2> HIDE DEF s, o
  <2>4. /\ pc' \in [Tasks -> PcValues] /\ op' \in [Tasks -> Ops]
        /\ lock' \in Locks(Tasks) /\ session' \in Sessions
    BY <2>1, <2>2, <2>3, AskForLockTypes
  <2> QED
    BY <1>1, <2>4, BoundAssumption
    DEF Dispatch, historyVars, PcValues
<1>2. ASSUME NEW t \in InputTasks, NEW kind \in InputKinds, StartInput(t, kind)
      PROVE  TypeOK'
  <2> DEFINE state == IF kind \in {"input", "periodic"} THEN store ELSE Neutral
             o == [NoOp EXCEPT !.kind = kind, !.state = state]
  <2>1. state \in Inputs
    BY BoundAssumption DEF Inputs, Neutral
  <2>2. o \in Ops
    BY <2>1, NoOpType DEF Ops
  <2>3. AskForLock(t, o, session) /\ t \in Tasks
    BY <1>2 DEF StartInput, Tasks
  <2> HIDE DEF o
  <2>4. /\ pc' \in [Tasks -> PcValues] /\ op' \in [Tasks -> Ops]
        /\ lock' \in Locks(Tasks) /\ session' \in Sessions
    BY <2>2, <2>3, AskForLockTypes
  <2> QED
    BY <1>2, <2>4, BoundAssumption
    DEF StartInput, historyVars, PcValues
<1>3. ASSUME NEW t \in InputTasks, StartDirect(t)
      PROVE  TypeOK'
  <2> DEFINE o == [NoOp EXCEPT !.kind = "direct", !.state = edits + 1]
  <2>1. edits + 1 \in Inputs
    BY <1>3, BoundAssumption DEF StartDirect, Inputs
  <2>2. o \in Ops
    BY <1>3, <2>1, NoOpType DEF Ops, StartDirect
  <2>3. AskForLock(t, o, session) /\ t \in Tasks
    BY <1>3 DEF StartDirect, Tasks
  <2> HIDE DEF o
  <2>4. /\ pc' \in [Tasks -> PcValues] /\ op' \in [Tasks -> Ops]
        /\ lock' \in Locks(Tasks) /\ session' \in Sessions
    BY <2>2, <2>3, AskForLockTypes
  <2> QED
    BY <1>3, <2>1, <2>4, BoundAssumption
    DEF StartDirect, historyVars, PcValues
<1>4. CASE Edit
  BY <1>4, BoundAssumption DEF Edit, historyVars, Inputs
<1>5. ASSUME NEW t \in Tasks, Wake(t)
      PROVE  TypeOK'
  <2>1. Granted(lock, t) \in Locks(Tasks)
    BY <1>5, LockTypes DEF Wake, Woken
  <2>2. /\ pc' \in [Tasks -> PcValues] /\ op' \in [Tasks -> Ops]
        /\ lock' \in Locks(Tasks) /\ session' \in Sessions
    BY <1>5, <2>1, CriticalTypes DEF Wake
  <2> QED
    BY <1>5, <2>2 DEF Wake, boundVars, historyVars, PcValues
<1>6. ASSUME NEW t \in InputTasks, EndSleep(t)
      PROVE  TypeOK'
  <2>1. /\ pc' \in [Tasks -> PcValues] /\ op' \in [Tasks -> Ops]
        /\ lock' \in Locks(Tasks) /\ session' \in Sessions
    BY <1>6, AskForLockTypes DEF EndSleep, Tasks
  <2> QED
    BY <1>6, <2>1 DEF EndSleep, boundVars, historyVars, PcValues
<1>7. ASSUME NEW t \in Tasks, Leave(t, lock)
      PROVE  /\ pc' \in [Tasks -> PcValues] /\ op' \in [Tasks -> Ops]
             /\ lock' \in Locks(Tasks)
  BY <1>7, LockTypes, NoOpType DEF Leave, PcValues
<1>8. NextTimer \in 0 .. TimerModulus - 1
  BY BoundAssumption DEF NextTimer
<1>n. \A t \in Tasks : Newer(shown, op[t].state) \in Inputs
  <2>1. \A t \in Tasks : op[t].state \in Inputs
    BY DEF Ops
  <2> QED
    BY <2>1 DEF Newer
<1>9. ASSUME NEW t \in Tasks, InputAccepted(t)
      PROVE  TypeOK'
  BY <1>7, <1>8, <1>9, <1>n DEF InputAccepted, boundVars, PcValues, Ops
<1>10. ASSUME NEW t \in Tasks, ReplyAccepted(t)
       PROVE  TypeOK'
  <2>1. Transition(granted, op[t].sub) \in Sessions
    BY DEF Transition, Sessions, ImuModes
  <2> QED
    BY <1>7, <1>8, <1>10, <1>n, <2>1, BoundAssumption
    DEF ReplyAccepted, boundVars, PcValues, Ops
<1>11. ASSUME NEW t \in Tasks, SendFails(t)
       PROVE  TypeOK'
  BY <1>7, <1>11 DEF SendFails, boundVars, historyVars, PcValues, Ops
<1>12. ASSUME NEW t \in InputTasks, CancelWaiting(t)
       PROVE  TypeOK'
  <2>1. t \in Tasks
    BY DEF Tasks
  <2>2. Abandoned(lock, t) \in Locks(Tasks)
    BY <2>1, LockTypes
  <2> QED
    BY <1>12, <2>1, <2>2, NoOpType DEF CancelWaiting, boundVars, historyVars
<1>13. CASE Tick
  <2>1. \A left \in 0 .. Holdoff : Elapsed(left) \in 0 .. Holdoff
    BY BoundAssumption DEF Elapsed
  <2>2. op' \in [Tasks -> Ops]
    BY <1>13, <2>1 DEF Tick, Ops
  <2> QED
    BY <1>13, <2>1, <2>2, BoundAssumption DEF Tick, boundVars
<1>14. CASE Exhausted
  BY <1>14 DEF Exhausted, vars
<1>15. CASE UNCHANGED vars
  BY <1>15 DEF vars
<1> QED
  BY <1>1, <1>2, <1>3, <1>4, <1>5, <1>6, <1>9, <1>10, <1>11, <1>12, <1>13,
     <1>14, <1>15 DEF Next

(* Every variable keeps its type, in every behaviour of the sender.        *)
THEOREM TypeCorrect == Spec => []TypeOK
BY TypeInit, TypeStep, PTL DEF Spec

-----------------------------------------------------------------------------
(* The sender lock.                                                        *)

(* LockOwnership, in the terms of the lemmas.                              *)
LEMMA OwnershipForm ==
    LockOwnership <=>
        /\ \A t \in Tasks : pc[t] = "sending" <=> lock.holder = t
        /\ \A t \in Tasks : pc[t] = "waiting" <=> Among(t, lock.waiters)
        /\ Distinct(lock.waiters)
BY DEF LockOwnership, Among, Distinct

(* t has the lock l, and everybody else is as LockOwnership has it.        *)
OwnedBy(t, l) ==
    /\ l.holder = t
    /\ \A u \in Tasks \ {t} :
          pc[u] # "sending" /\ (pc[u] = "waiting" <=> Among(u, l.waiters))
    /\ ~Among(t, l.waiters)
    /\ Distinct(l.waiters)

LEMMA CriticalOwnership ==
    ASSUME TypeOK, NEW t \in Tasks, NEW o, NEW l \in Locks(Tasks), NEW s,
           OwnedBy(t, l), Critical(t, o, l, s)
    PROVE  LockOwnership'
<1>1. /\ lock'.waiters = l.waiters
      /\ pc'[t] # "waiting"
      /\ \A u \in Tasks \ {t} : pc'[u] = pc[u]
      /\ \/ pc'[t] = "sending" /\ lock'.holder = t
         \/ pc'[t] # "sending" /\ lock'.holder = NoTask
  BY DEF Critical, SkipHeldOff, SubmitInput, SubmitReply, RejectReply,
         LookAtHoldoff, Leave, Submit, Released, TypeOK, Locks, OwnedBy
<1> QED
  BY <1>1, OwnershipForm, TaskAssumption DEF OwnedBy, LockOwnership, Among, Distinct

LEMMA AskForLockOwnership ==
    ASSUME TypeOK, LockOwnership, NEW t \in Tasks, NEW o, NEW s,
           pc[t] \in {"idle", "sleeping"}, AskForLock(t, o, s)
    PROVE  LockOwnership'
<1>1. lock.waiters \in Seq(Tasks)
  BY DEF TypeOK, Locks
<1>2. ~Among(t, lock.waiters) /\ lock.holder # t /\ Distinct(lock.waiters)
  BY OwnershipForm
<1>3. CASE ~Contended(lock) /\ Critical(t, o, Taken(lock, t), s)
  <2>1. Taken(lock, t) \in Locks(Tasks)
    BY LockTypes DEF TypeOK
  <2>2. OwnedBy(t, Taken(lock, t))
    BY <1>1, <1>2, <1>3, OwnershipForm, TaskAssumption
    DEF OwnedBy, Taken, Contended, TypeOK, Locks
  <2> QED
    BY <1>3, <2>1, <2>2, CriticalOwnership
<1>4. CASE /\ pc' = [pc EXCEPT ![t] = "waiting"]
           /\ lock' = Queued(lock, t)
  <2>1. lock'.waiters = Append(lock.waiters, t) /\ lock'.holder = lock.holder
    BY <1>4 DEF Queued, TypeOK, Locks
  <2>2. /\ Distinct(lock'.waiters)
        /\ \A u : Among(u, lock'.waiters) <=> u = t \/ Among(u, lock.waiters)
    BY <1>1, <1>2, <2>1, AppendWaiter
  <2>3. \A u \in Tasks : pc'[u] = IF u = t THEN "waiting" ELSE pc[u]
    BY <1>4 DEF TypeOK
  <2> QED
    BY <1>2, <2>1, <2>2, <2>3, OwnershipForm
    DEF LockOwnership, Among, Distinct
<1> QED
  BY <1>3, <1>4 DEF AskForLock

LEMMA OwnershipStep ==
    TypeOK /\ LockOwnership /\ [Next]_vars => LockOwnership'
<1> SUFFICES ASSUME TypeOK, LockOwnership, [Next]_vars PROVE LockOwnership'
  OBVIOUS
<1>w. lock.waiters \in Seq(Tasks) /\ Distinct(lock.waiters)
  BY OwnershipForm DEF TypeOK, Locks
<1>1. ASSUME NEW t \in ReplyTasks, NEW sub \in Subcommands, Dispatch(t, sub)
      PROVE  LockOwnership'
  BY <1>1, AskForLockOwnership DEF Dispatch, Tasks
<1>2. ASSUME NEW t \in InputTasks, NEW kind \in InputKinds, StartInput(t, kind)
      PROVE  LockOwnership'
  BY <1>2, AskForLockOwnership DEF StartInput, Tasks
<1>3. ASSUME NEW t \in InputTasks, StartDirect(t)
      PROVE  LockOwnership'
  BY <1>3, AskForLockOwnership DEF StartDirect, Tasks
<1>4. CASE UNCHANGED <<pc, lock>>
  BY <1>4 DEF LockOwnership
<1>5. ASSUME NEW t \in Tasks, Wake(t)
      PROVE  LockOwnership'
  <2>1. /\ lock.holder = NoTask /\ lock.waiters # << >>
        /\ t = Head(lock.waiters)
    BY <1>5 DEF Wake, Woken
  <2>2. Granted(lock, t) \in Locks(Tasks)
    BY <2>1, LockTypes DEF TypeOK
  <2>3. /\ Distinct(Tail(lock.waiters))
        /\ \A u : Among(u, Tail(lock.waiters))
                    <=> u # t /\ Among(u, lock.waiters)
    BY <1>w, <2>1, RemoveHead
  <2>4. OwnedBy(t, Granted(lock, t))
    BY <2>1, <2>3, OwnershipForm, TaskAssumption DEF OwnedBy, Granted
  <2> QED
    BY <1>5, <2>2, <2>4, CriticalOwnership DEF Wake
<1>6. ASSUME NEW t \in InputTasks, EndSleep(t)
      PROVE  LockOwnership'
  BY <1>6, AskForLockOwnership DEF EndSleep, Tasks
<1>7. ASSUME NEW t \in Tasks, pc[t] = "sending", Leave(t, lock)
      PROVE  LockOwnership'
  <2>1. /\ lock'.waiters = lock.waiters /\ lock'.holder = NoTask
        /\ \A u \in Tasks : pc'[u] = IF u = t THEN "idle" ELSE pc[u]
    BY <1>7 DEF Leave, Released, TypeOK, Locks
  <2> QED
    BY <1>7, <2>1, OwnershipForm, TaskAssumption
    DEF LockOwnership, Among, Distinct
<1>8. ASSUME NEW t \in Tasks, InputAccepted(t) \/ ReplyAccepted(t) \/ SendFails(t)
      PROVE  LockOwnership'
  BY <1>7, <1>8 DEF InputAccepted, ReplyAccepted, SendFails
<1>9. ASSUME NEW t \in InputTasks, CancelWaiting(t)
      PROVE  LockOwnership'
  <2> t \in Tasks
    BY DEF Tasks
  <2>0. \A u \in Tasks : pc'[u] = IF u = t THEN "idle" ELSE pc[u]
    BY <1>9 DEF CancelWaiting, TypeOK
  <2>1. CASE pc[t] = "waiting" /\ lock' = Abandoned(lock, t)
    <3> DEFINE k == CHOOSE i \in 1 .. Len(lock.waiters) : lock.waiters[i] = t
    <3>1. k \in 1 .. Len(lock.waiters) /\ lock.waiters[k] = t
      BY <2>1, OwnershipForm DEF Among
    <3>2. /\ lock'.waiters = WithoutPlace(lock.waiters, k)
          /\ lock'.holder = lock.holder
      BY <2>1 DEF Abandoned, TypeOK, Locks
    <3> HIDE DEF k
    <3>3. /\ Distinct(lock'.waiters)
          /\ \A u : Among(u, lock'.waiters) <=> u # t /\ Among(u, lock.waiters)
      BY <1>w, <3>1, <3>2, RemoveWaiter
    <3>4. \A u \in Tasks : pc'[u] = "sending" <=> lock'.holder = u
      BY <2>0, <2>1, <3>2, OwnershipForm
    <3>5. \A u \in Tasks : pc'[u] = "waiting" <=> Among(u, lock'.waiters)
      BY <2>0, <3>3, OwnershipForm
    <3> QED
      BY <3>3, <3>4, <3>5 DEF LockOwnership, Among, Distinct
  <2>2. CASE pc[t] = "sleeping" /\ lock' = lock
    BY <2>0, <2>2 DEF LockOwnership
  <2> QED
    BY <1>9, <2>1, <2>2 DEF CancelWaiting
<1> QED
  BY <1>1, <1>2, <1>3, <1>4, <1>5, <1>6, <1>8, <1>9
  DEF Next, Edit, Tick, Exhausted, vars

(* Only the holder of the sender lock is inside send_interrupt, and the    *)
(* queue of the lock holds each waiting task exactly once.                 *)
THEOREM LockOwned == Spec => []LockOwnership
<1>1. Init => LockOwnership
  BY TaskAssumption DEF Init, LockOwnership, FreeLock
<1>2. TypeOK /\ LockOwnership /\ [Next]_vars => LockOwnership'
  BY OwnershipStep
<1> QED
  BY <1>1, <1>2, TypeCorrect, PTL DEF Spec

-----------------------------------------------------------------------------
(* The report timer.                                                       *)

LEMMA CriticalTimer ==
    ASSUME TypeOK, NEW t \in Tasks, NEW o \in Ops, NEW l, NEW s,
           Critical(t, o, l, s)
    PROVE  /\ pc'[t] = "sending" => op'[t].stamp = timer
           /\ \A u \in Tasks \ {t} : pc'[u] = pc[u] /\ op'[u] = op[u]
<1>1. ASSUME NEW state, Submit(t, o, l, state)
      PROVE  /\ op'[t].stamp = timer
             /\ \A u \in Tasks \ {t} : pc'[u] = pc[u] /\ op'[u] = op[u]
  BY <1>1 DEF Submit, TypeOK, Ops
<1>2. ASSUME Leave(t, l)
      PROVE  /\ pc'[t] = "idle"
             /\ \A u \in Tasks \ {t} : pc'[u] = pc[u] /\ op'[u] = op[u]
  BY <1>2 DEF Leave, TypeOK
<1>3. CASE SubmitInput(t, o, l, s) \/ SubmitReply(t, o, l, s)
  BY <1>1, <1>3 DEF SubmitInput, SubmitReply
<1>4. CASE SkipHeldOff(t, o, l, s) \/ RejectReply(t, o, l, s)
  BY <1>2, <1>4 DEF SkipHeldOff, RejectReply
<1>5. CASE LookAtHoldoff(t, o, l, s)
  BY <1>2, <1>5 DEF LookAtHoldoff, TypeOK
<1> QED
  BY <1>3, <1>4, <1>5 DEF Critical

LEMMA AskForLockTimer ==
    ASSUME TypeOK, NEW t \in Tasks, NEW o \in Ops, NEW s, AskForLock(t, o, s)
    PROVE  /\ pc'[t] = "sending" => op'[t].stamp = timer
           /\ \A u \in Tasks \ {t} : pc'[u] = pc[u] /\ op'[u] = op[u]
<1>1. CASE Critical(t, o, Taken(lock, t), s)
  BY <1>1, CriticalTimer
<1>2. CASE /\ pc' = [pc EXCEPT ![t] = "waiting"]
           /\ op' = [op EXCEPT ![t] = o]
  BY <1>2 DEF TypeOK
<1> QED
  BY <1>1, <1>2 DEF AskForLock

LEMMA TimerStep ==
    TypeOK /\ LockOwnership /\ TimerFollowsWire /\ [Next]_vars
        => TimerFollowsWire'
<1> SUFFICES ASSUME TypeOK, LockOwnership, TimerFollowsWire, [Next]_vars
             PROVE  TimerFollowsWire'
  OBVIOUS
<1>1. ASSUME NEW t \in Tasks, NEW o \in Ops, NEW s, AskForLock(t, o, s),
             UNCHANGED <<timer, wire>>
      PROVE  TimerFollowsWire'
  BY <1>1, AskForLockTimer DEF TimerFollowsWire
<1>2. ASSUME NEW t \in ReplyTasks, NEW sub \in Subcommands, Dispatch(t, sub)
      PROVE  TimerFollowsWire'
  <2> DEFINE s == Observing(session, sub)
             o == [NoOp EXCEPT !.kind = "reply", !.sub = sub, !.before = s]
  <2>1. s \in Sessions
    BY SessionTypes DEF TypeOK
  <2>2. o \in Ops
    BY <2>1, NoOpType DEF Ops
  <2>3. AskForLock(t, o, s) /\ t \in Tasks /\ UNCHANGED <<timer, wire>>
    BY <1>2 DEF Dispatch, Tasks, historyVars
  <2> HIDE DEF s, o
  <2> QED
    BY <1>1, <2>2, <2>3
<1>3. ASSUME NEW t \in InputTasks, NEW kind \in InputKinds, StartInput(t, kind)
      PROVE  TimerFollowsWire'
  <2> DEFINE state == IF kind \in {"input", "periodic"} THEN store ELSE Neutral
             o == [NoOp EXCEPT !.kind = kind, !.state = state]
  <2>1. state \in Inputs
    BY BoundAssumption DEF Inputs, Neutral, TypeOK
  <2>2. o \in Ops
    BY <2>1, NoOpType DEF Ops
  <2>3. AskForLock(t, o, session) /\ t \in Tasks /\ UNCHANGED <<timer, wire>>
    BY <1>3 DEF StartInput, Tasks, historyVars
  <2> HIDE DEF o
  <2> QED
    BY <1>1, <2>2, <2>3
<1>4. ASSUME NEW t \in InputTasks, StartDirect(t)
      PROVE  TimerFollowsWire'
  <2> DEFINE o == [NoOp EXCEPT !.kind = "direct", !.state = edits + 1]
  <2>1. edits + 1 \in Inputs
    BY <1>4, BoundAssumption DEF StartDirect, Inputs, TypeOK
  <2>2. o \in Ops
    BY <1>4, <2>1, NoOpType DEF Ops, StartDirect
  <2>3. AskForLock(t, o, session) /\ t \in Tasks /\ UNCHANGED <<timer, wire>>
    BY <1>4 DEF StartDirect, Tasks, historyVars
  <2> HIDE DEF o
  <2> QED
    BY <1>1, <2>2, <2>3
<1>5. ASSUME NEW t \in Tasks, Wake(t)
      PROVE  TimerFollowsWire'
  <2>1. /\ pc'[t] = "sending" => op'[t].stamp = timer
        /\ \A u \in Tasks \ {t} : pc'[u] = pc[u] /\ op'[u] = op[u]
    BY <1>5, CriticalTimer DEF Wake, TypeOK
  <2> QED
    BY <1>5, <2>1 DEF Wake, TimerFollowsWire, historyVars
<1>6. ASSUME NEW t \in InputTasks, EndSleep(t)
      PROVE  TimerFollowsWire'
  BY <1>1, <1>6 DEF EndSleep, Tasks, TypeOK, historyVars
<1>7. ASSUME NEW t \in Tasks, pc[t] = "sending"
      PROVE  \A u \in Tasks \ {t} : pc[u] # "sending"
  BY <1>7 DEF LockOwnership
<1>8. ASSUME NEW t \in Tasks, InputAccepted(t) \/ ReplyAccepted(t)
      PROVE  TimerFollowsWire'
  <2>1. /\ pc[t] = "sending" /\ Leave(t, lock)
        /\ timer' = NextTimer /\ wire' = op[t].stamp
    BY <1>8 DEF InputAccepted, ReplyAccepted
  <2>2. \A u \in Tasks : pc'[u] # "sending"
    BY <1>7, <2>1 DEF Leave, TypeOK
  <2> QED
    BY <2>1, <2>2 DEF TimerFollowsWire, NextTimer
<1>9. ASSUME NEW t \in Tasks, SendFails(t)
      PROVE  TimerFollowsWire'
  BY <1>9 DEF SendFails, Leave, TimerFollowsWire, TypeOK, historyVars
<1>10. ASSUME NEW t \in InputTasks, CancelWaiting(t)
       PROVE  TimerFollowsWire'
  BY <1>10 DEF CancelWaiting, TimerFollowsWire, TypeOK, historyVars, Tasks
<1>11. CASE Tick
  BY <1>11 DEF Tick, TimerFollowsWire, TypeOK, Ops
<1>12. CASE UNCHANGED <<pc, op, timer, wire>>
  BY <1>12 DEF TimerFollowsWire
<1> QED
  BY <1>2, <1>3, <1>4, <1>5, <1>6, <1>8, <1>9, <1>10, <1>11, <1>12
  DEF Next, Edit, Exhausted, vars, historyVars

(* Input reports and replies count on one timer: a report in flight        *)
(* carries the successor, modulo TimerModulus, of the last accepted one's. *)
THEOREM TimerConsecutive == Spec => []TimerFollowsWire
<1>1. Init => TimerFollowsWire
  BY BoundAssumption DEF Init, TimerFollowsWire
<1>2. TypeOK /\ LockOwnership /\ TimerFollowsWire /\ [Next]_vars
        => TimerFollowsWire'
  BY TimerStep
<1> QED
  BY <1>1, <1>2, TypeCorrect, LockOwned, PTL DEF Spec

-----------------------------------------------------------------------------
(* The shape of a step: what asking for the sender lock, and running the   *)
(* critical section, can do to the task t with the operation o that finds  *)
(* the session s.                                                          *)

(* The operation ends without a report: held off, or refused by the        *)
(* responder, or awaited no longer.                                        *)
Ended(t, o, s) ==
    /\ pc'[t] = "idle" /\ op'[t] = NoOp
    /\ session' = IF o.kind = "reply" THEN o.before ELSE s

(* It sleeps until the end of the holdoff.                                 *)
Slept(t, o, s) ==
    /\ pc'[t] = "sleeping" /\ op'[t] = [o EXCEPT !.left = holdoff]
    /\ o.kind = "await"
    /\ session' = s

(* Its input report is with the transport.                                 *)
SentInput(t, o, s) ==
    /\ o.kind \notin {"reply", "await", "none"}
    /\ o.kind \in Automatic => ~HeldOff
    /\ pc'[t] = "sending"
    /\ op'[t] = [o EXCEPT !.state = IF o.kind = "current" THEN store ELSE o.state,
                          !.stamp = timer]
    /\ session' = Encoded(s)

(* Its reply is with the transport.                                        *)
SentReply(t, o, s) ==
    /\ o.kind = "reply"
    /\ pc'[t] = "sending"
    /\ op'[t] = [o EXCEPT !.state = IF ProtocolReady(s) THEN store ELSE Neutral,
                          !.stamp = timer]
    /\ session' = Transition(s, o.sub)

Others(t) == \A u \in Tasks \ {t} : pc'[u] = pc[u] /\ op'[u] = op[u]

Outcome(t, o, s) ==
    /\ Others(t)
    /\ \/ Ended(t, o, s)
       \/ Slept(t, o, s)
       \/ SentInput(t, o, s)
       \/ SentReply(t, o, s)

(* It waits for the lock.                                                  *)
Enqueued(t, o, s) ==
    /\ Others(t)
    /\ Contended(lock)
    /\ pc'[t] = "waiting" /\ op'[t] = o
    /\ lock' = Queued(lock, t)
    /\ session' = s

LEMMA CriticalShape ==
    ASSUME TypeOK, NEW t \in Tasks, NEW o \in Ops, NEW l, NEW s,
           Critical(t, o, l, s)
    PROVE  Outcome(t, o, s)
<1>1. ASSUME NEW state, Submit(t, o, l, state)
      PROVE  /\ pc'[t] = "sending"
             /\ op'[t] = [o EXCEPT !.state = state, !.stamp = timer]
             /\ Others(t)
  BY <1>1 DEF Submit, TypeOK, Others
<1>2. ASSUME Leave(t, l)
      PROVE  pc'[t] = "idle" /\ op'[t] = NoOp /\ Others(t)
  BY <1>2 DEF Leave, TypeOK, Others
<1>3. CASE SubmitInput(t, o, l, s)
  BY <1>1, <1>3 DEF SubmitInput, Outcome, SentInput, Automatic
<1>4. CASE SubmitReply(t, o, l, s)
  BY <1>1, <1>4 DEF SubmitReply, Outcome, SentReply
<1>5. CASE SkipHeldOff(t, o, l, s)
  BY <1>2, <1>5 DEF SkipHeldOff, Outcome, Ended, Automatic
<1>6. CASE RejectReply(t, o, l, s)
  BY <1>2, <1>6 DEF RejectReply, Outcome, Ended
<1>7. CASE LookAtHoldoff(t, o, l, s)
  <2>1. CASE HeldOff
    BY <1>7, <2>1 DEF LookAtHoldoff, TypeOK, Others, Outcome, Slept
  <2>2. CASE ~HeldOff
    BY <1>2, <1>7, <2>2 DEF LookAtHoldoff, Outcome, Ended
  <2> QED
    BY <2>1, <2>2
<1> QED
  BY <1>3, <1>4, <1>5, <1>6, <1>7 DEF Critical

LEMMA AskForLockShape ==
    ASSUME TypeOK, NEW t \in Tasks, NEW o \in Ops, NEW s, AskForLock(t, o, s)
    PROVE  \/ Outcome(t, o, s) /\ ~Contended(lock)
           \/ Enqueued(t, o, s)
<1>1. CASE ~Contended(lock) /\ Critical(t, o, Taken(lock, t), s)
  BY <1>1, CriticalShape
<1>2. CASE /\ Contended(lock)
           /\ pc' = [pc EXCEPT ![t] = "waiting"]
           /\ op' = [op EXCEPT ![t] = o]
           /\ lock' = Queued(lock, t)
           /\ session' = s
  BY <1>2 DEF TypeOK, Enqueued, Others
<1> QED
  BY <1>1, <1>2 DEF AskForLock

(* The operations as they arrive at the lock.                              *)
ReplyOp(sub) == [NoOp EXCEPT !.kind = "reply", !.sub = sub,
                             !.before = Observing(session, sub)]

InputOp(kind) ==
    [NoOp EXCEPT !.kind = kind,
                 !.state = IF kind \in {"input", "periodic"}
                           THEN store ELSE Neutral]

DirectOp == [NoOp EXCEPT !.kind = "direct", !.state = edits + 1]

(* A task asks for the lock; the queue only grows at its end.              *)
Arrived(t, o, s) ==
    \/ Outcome(t, o, s) /\ ~Contended(lock) /\ lock'.waiters = lock.waiters
    \/ Enqueued(t, o, s)

(* The first waiter has been given the lock.                               *)
Served(t) ==
    /\ Outcome(t, op[t], session)
    /\ pc[t] = "waiting" /\ Woken(lock, t)
    /\ lock'.waiters = Tail(lock.waiters)

LEMMA CriticalWaiters ==
    ASSUME NEW t \in Tasks, NEW o, NEW l \in Locks(Tasks), NEW s,
           Critical(t, o, l, s)
    PROVE  lock'.waiters = l.waiters
BY DEF Critical, SkipHeldOff, SubmitInput, SubmitReply, RejectReply,
       LookAtHoldoff, Leave, Submit, Released, Locks

LEMMA ArrivedShape ==
    ASSUME TypeOK, NEW t \in Tasks, NEW o \in Ops, NEW s, AskForLock(t, o, s)
    PROVE  Arrived(t, o, s)
<1>1. CASE Outcome(t, o, s) /\ Critical(t, o, Taken(lock, t), s)
           /\ ~Contended(lock)
  <2>1. Taken(lock, t) \in Locks(Tasks)
    BY LockTypes DEF TypeOK
  <2>2. Taken(lock, t).waiters = lock.waiters
    BY DEF Taken, TypeOK, Locks
  <2> QED
    BY <1>1, <2>1, <2>2, CriticalWaiters DEF Arrived
<1>2. CASE Enqueued(t, o, s)
  BY <1>2 DEF Arrived
<1>3. CASE Critical(t, o, Taken(lock, t), s) /\ ~Contended(lock)
  BY <1>1, <1>3, CriticalShape
<1> QED
  BY <1>2, <1>3, AskForLockShape DEF AskForLock, Enqueued, Outcome

LEMMA ServedShape ==
    ASSUME TypeOK, NEW t \in Tasks, Wake(t)
    PROVE  Served(t)
<1>1. Granted(lock, t) \in Locks(Tasks)
  BY LockTypes DEF TypeOK, Wake, Woken
<1>2. lock'.waiters = Tail(lock.waiters)
  BY <1>1, CriticalWaiters DEF Wake, Granted
<1>3. op[t] \in Ops
  BY DEF TypeOK
<1>4. Outcome(t, op[t], session)
  BY <1>3, CriticalShape DEF Wake
<1> QED
  BY <1>2, <1>4 DEF Served, Wake

LEMMA ArrivalTypes ==
    ASSUME TypeOK
    PROVE  /\ \A sub \in Subcommands :
                ReplyOp(sub) \in Ops /\ Observing(session, sub) \in Sessions
           /\ \A kind \in InputKinds : InputOp(kind) \in Ops
           /\ edits < MaxEdits /\ "direct" \in InputKinds => DirectOp \in Ops
<1>1. ASSUME NEW sub \in Subcommands
      PROVE  ReplyOp(sub) \in Ops /\ Observing(session, sub) \in Sessions
  <2>1. Observing(session, sub) \in Sessions
    BY SessionTypes DEF TypeOK
  <2> QED
    BY <2>1, NoOpType DEF Ops, ReplyOp
<1>2. ASSUME NEW kind \in InputKinds
      PROVE  InputOp(kind) \in Ops
  <2>1. (IF kind \in {"input", "periodic"} THEN store ELSE Neutral) \in Inputs
    BY BoundAssumption DEF Inputs, Neutral, TypeOK
  <2> QED
    BY <2>1, NoOpType DEF Ops, InputOp
<1>3. ASSUME edits < MaxEdits, "direct" \in InputKinds
      PROVE  DirectOp \in Ops
  <2>1. edits + 1 \in Inputs
    BY <1>3, BoundAssumption DEF Inputs, TypeOK
  <2> QED
    BY <1>3, <2>1, NoOpType DEF Ops, DirectOp
<1> QED
  BY <1>1, <1>2, <1>3

(* The four ways to arrive at the lock.                                    *)
LEMMA Arrivals ==
    ASSUME TypeOK
    PROVE  /\ \A t \in ReplyTasks, sub \in Subcommands : Dispatch(t, sub) =>
                Arrived(t, ReplyOp(sub), Observing(session, sub))
           /\ \A t \in InputTasks, kind \in InputKinds : StartInput(t, kind) =>
                Arrived(t, InputOp(kind), session)
           /\ \A t \in InputTasks : StartDirect(t) =>
                Arrived(t, DirectOp, session)
           /\ \A t \in InputTasks : EndSleep(t) =>
                Arrived(t, op[t], session)
<1> ReplyTasks \subseteq Tasks /\ InputTasks \subseteq Tasks
  BY DEF Tasks
<1>1. ASSUME NEW t \in ReplyTasks, NEW sub \in Subcommands, Dispatch(t, sub)
      PROVE  Arrived(t, ReplyOp(sub), Observing(session, sub))
  <2>1. AskForLock(t, ReplyOp(sub), Observing(session, sub))
    BY <1>1 DEF Dispatch, ReplyOp
  <2> QED
    BY <2>1, ArrivalTypes, ArrivedShape
<1>2. ASSUME NEW t \in InputTasks, NEW kind \in InputKinds, StartInput(t, kind)
      PROVE  Arrived(t, InputOp(kind), session)
  <2>1. AskForLock(t, InputOp(kind), session)
    BY <1>2 DEF StartInput, InputOp
  <2> QED
    BY <2>1, ArrivalTypes, ArrivedShape
<1>3. ASSUME NEW t \in InputTasks, StartDirect(t)
      PROVE  Arrived(t, DirectOp, session)
  <2>1. AskForLock(t, DirectOp, session)
    BY <1>3 DEF StartDirect, DirectOp
  <2> QED
    BY <1>3, <2>1, ArrivalTypes, ArrivedShape DEF StartDirect
<1>4. ASSUME NEW t \in InputTasks, EndSleep(t)
      PROVE  Arrived(t, op[t], session)
  <2>1. op[t] \in Ops
    BY DEF TypeOK
  <2> QED
    BY <1>4, <2>1, ArrivedShape DEF EndSleep
<1> QED
  BY <1>1, <1>2, <1>3, <1>4

-----------------------------------------------------------------------------
(* The holdoff of automatic input.                                         *)

(* The deadline is the last accepted reply plus the holdoff, all the time. *)
Paced == quiet + holdoff = Holdoff

LEMMA PacedStep == TypeOK /\ Paced /\ [Next]_vars => Paced'
<1> SUFFICES ASSUME TypeOK, Paced, [Next]_vars PROVE Paced'
  OBVIOUS
<1>1. CASE UNCHANGED <<quiet, holdoff>>
  BY <1>1 DEF Paced
<1>2. ASSUME NEW t \in Tasks, ReplyAccepted(t)
      PROVE  Paced'
  BY <1>2, BoundAssumption DEF ReplyAccepted, Paced
<1>3. CASE Tick
  BY <1>3, BoundAssumption DEF Tick, Paced, Elapsed, TypeOK
<1> QED
  BY <1>1, <1>2, <1>3
  DEF Next, Dispatch, StartInput, StartDirect, Edit, Wake, EndSleep,
      InputAccepted, SendFails, CancelWaiting, Exhausted, vars, historyVars

(* No step hands an automatic report to the transport before the end of    *)
(* the holdoff.                                                            *)
LEMMA HoldoffStep ==
    TypeOK /\ Paced /\ [Next]_vars =>
        \A t \in Tasks :
            /\ pc[t] # "sending" /\ pc'[t] = "sending"
            /\ op'[t].kind \in Automatic
            => quiet = Holdoff
<1> SUFFICES ASSUME TypeOK, Paced, [Next]_vars, NEW t \in Tasks,
                    pc[t] # "sending", pc'[t] = "sending",
                    op'[t].kind \in Automatic
             PROVE  quiet = Holdoff
  OBVIOUS
<1>1. ~HeldOff => quiet = Holdoff
  BY BoundAssumption DEF HeldOff, Paced, TypeOK
<1>2. ASSUME NEW u \in Tasks, NEW o \in Ops, NEW s, Outcome(u, o, s)
      PROVE  ~HeldOff
  <2>1. u = t
    BY <1>2 DEF Outcome, Others
  <2>2. "reply" \notin Automatic
    BY DEF Automatic
  <2>3. CASE SentInput(t, o, s)
    BY <2>3 DEF SentInput, Ops
  <2>4. CASE SentReply(t, o, s)
    BY <2>2, <2>4 DEF SentReply, Ops
  <2> QED
    BY <1>2, <2>1, <2>3, <2>4 DEF Outcome, Ended, Slept
<1>3. ASSUME NEW u \in Tasks, NEW o \in Ops, NEW s, Arrived(u, o, s)
      PROVE  ~HeldOff
  BY <1>2, <1>3 DEF Arrived, Enqueued, Others
<1>t. ReplyTasks \subseteq Tasks /\ InputTasks \subseteq Tasks
  BY DEF Tasks
<1>4. ASSUME NEW u \in ReplyTasks, NEW sub \in Subcommands, Dispatch(u, sub)
      PROVE  ~HeldOff
  BY <1>3, <1>4, <1>t, Arrivals, ArrivalTypes
<1>5. ASSUME NEW u \in InputTasks, NEW kind \in InputKinds, StartInput(u, kind)
      PROVE  ~HeldOff
  BY <1>3, <1>5, <1>t, Arrivals, ArrivalTypes
<1>6. ASSUME NEW u \in InputTasks, StartDirect(u)
      PROVE  ~HeldOff
  <2>1. DirectOp \in Ops
    BY <1>6, ArrivalTypes DEF StartDirect
  <2> QED
    BY <1>3, <1>6, <1>t, <2>1, Arrivals
<1>7. ASSUME NEW u \in Tasks, Wake(u)
      PROVE  ~HeldOff
  <2>1. op[u] \in Ops
    BY DEF TypeOK
  <2> QED
    BY <1>2, <1>7, <2>1, ServedShape DEF Served
<1>8. ASSUME NEW u \in InputTasks, EndSleep(u)
      PROVE  ~HeldOff
  <2>1. u \in Tasks /\ op[u] \in Ops
    BY <1>t DEF TypeOK
  <2> QED
    BY <1>3, <1>8, <2>1, Arrivals
<1>9. ASSUME NEW u \in Tasks, pc' = [pc EXCEPT ![u] = "idle"]
      PROVE  FALSE
  BY <1>9 DEF TypeOK
<1>10. ASSUME NEW u \in Tasks,
              InputAccepted(u) \/ ReplyAccepted(u) \/ SendFails(u)
       PROVE  FALSE
  BY <1>9, <1>10 DEF InputAccepted, ReplyAccepted, SendFails, Leave
<1>11. ASSUME NEW u \in InputTasks, CancelWaiting(u)
       PROVE  FALSE
  BY <1>9, <1>11, <1>t DEF CancelWaiting
<1>12. ~(UNCHANGED pc)
  OBVIOUS
<1> QED
  BY <1>1, <1>4, <1>5, <1>6, <1>7, <1>8, <1>10, <1>11, <1>12
  DEF Next, Edit, Tick, Exhausted, vars

(* No automatic report is handed to the transport before the holdoff since *)
(* the last accepted reply is over, also when that reply was accepted      *)
(* while the report was waiting for the sender lock.                       *)
THEOREM HoldoffKept == Spec => HoldoffRespected
<1>1. Init => Paced
  BY BoundAssumption DEF Init, Paced
<1>2. TypeOK /\ Paced /\ [Next]_vars => Paced'
  BY PacedStep
<1>3. TypeOK /\ Paced /\ [Next]_vars
        => [\A t \in Tasks :
               /\ pc[t] # "sending" /\ pc'[t] = "sending"
               /\ op'[t].kind \in Automatic
               => quiet = Holdoff]_vars
  BY HoldoffStep
<1> QED
  BY <1>1, <1>2, <1>3, TypeCorrect, PTL DEF Spec, HoldoffRespected

-----------------------------------------------------------------------------
(* What tasks run.                                                         *)

(* An operation that t may run: only the tasks of the host send replies.   *)
Suits(t, o) == o.kind # "none" /\ (o.kind = "reply" <=> t \in ReplyTasks)

(* An idle task has no operation, and only the readiness wait sleeps.      *)
Roles ==
    \A t \in Tasks :
        /\ pc[t] = "idle" => op[t] = NoOp
        /\ pc[t] # "idle" => Suits(t, op[t])
        /\ pc[t] = "sleeping" => op[t].kind = "await"

LEMMA OutcomeRoles ==
    ASSUME TypeOK, Roles, NEW t \in Tasks, NEW o \in Ops, NEW s, Suits(t, o),
           Outcome(t, o, s)
    PROVE  Roles'
<1>1. /\ pc'[t] = "idle" => op'[t] = NoOp
      /\ pc'[t] # "idle" => op'[t].kind = o.kind
      /\ pc'[t] = "sleeping" => op'[t].kind = "await"
  BY DEF Outcome, Ended, Slept, SentInput, SentReply, Ops
<1> QED
  BY <1>1 DEF Roles, Suits, Outcome, Others

LEMMA ArrivedRoles ==
    ASSUME TypeOK, Roles, NEW t \in Tasks, NEW o \in Ops, NEW s, Suits(t, o),
           Arrived(t, o, s)
    PROVE  Roles'
<1>1. CASE Enqueued(t, o, s)
  BY <1>1 DEF Enqueued, Others, Roles
<1> QED
  BY <1>1, OutcomeRoles DEF Arrived

(* Whatever arrives at the lock suits the task that brings it.             *)
LEMMA ArrivalSuits ==
    /\ \A t \in ReplyTasks, sub \in Subcommands : Suits(t, ReplyOp(sub))
    /\ \A t \in InputTasks, kind \in InputKinds : Suits(t, InputOp(kind))
    /\ \A t \in InputTasks : Suits(t, DirectOp)
<1>1. /\ \A sub : ReplyOp(sub).kind = "reply"
      /\ \A kind : InputOp(kind).kind = kind
      /\ DirectOp.kind = "direct"
  BY DEF ReplyOp, InputOp, DirectOp, NoOp
<1>2. \A kind \in InputKinds : kind # "reply" /\ kind # "none"
  BY KindAssumption DEF AllInputKinds
<1> QED
  BY <1>1, <1>2, TaskAssumption DEF Suits

(* Time passes for what a task still sleeps, and for nothing else of it.   *)
LEMMA TickOps ==
    ASSUME TypeOK, Tick
    PROVE  \A t \in Tasks :
              /\ op'[t] = [op[t] EXCEPT !.left = Elapsed(@)]
              /\ op'[t].kind = op[t].kind /\ op'[t].state = op[t].state
              /\ op'[t].sub = op[t].sub /\ op'[t].before = op[t].before
<1> TAKE t \in Tasks
<1>1. op[t] \in Ops
  BY DEF TypeOK
<1>2. op'[t] = [op[t] EXCEPT !.left = Elapsed(@)]
  BY DEF Tick
<1> QED
  BY <1>1, <1>2 DEF Ops

LEMMA RolesStep == TypeOK /\ Roles /\ [Next]_vars => Roles'
<1> SUFFICES ASSUME TypeOK, Roles, [Next]_vars PROVE Roles'
  OBVIOUS
<1>t. ReplyTasks \subseteq Tasks /\ InputTasks \subseteq Tasks
  BY DEF Tasks
<1>1. ASSUME NEW t \in ReplyTasks, NEW sub \in Subcommands, Dispatch(t, sub)
      PROVE  Roles'
  BY <1>1, <1>t, Arrivals, ArrivalTypes, ArrivalSuits, ArrivedRoles
<1>2. ASSUME NEW t \in InputTasks, NEW kind \in InputKinds, StartInput(t, kind)
      PROVE  Roles'
  BY <1>2, <1>t, Arrivals, ArrivalTypes, ArrivalSuits, ArrivedRoles
<1>3. ASSUME NEW t \in InputTasks, StartDirect(t)
      PROVE  Roles'
  <2>1. DirectOp \in Ops
    BY <1>3, ArrivalTypes DEF StartDirect
  <2> QED
    BY <1>3, <1>t, <2>1, Arrivals, ArrivalSuits, ArrivedRoles
<1>4. ASSUME NEW t \in Tasks, Wake(t)
      PROVE  Roles'
  <2>1. op[t] \in Ops /\ Suits(t, op[t])
    BY <1>4 DEF TypeOK, Wake, Roles
  <2> QED
    BY <1>4, <2>1, ServedShape, OutcomeRoles DEF Served
<1>5. ASSUME NEW t \in InputTasks, EndSleep(t)
      PROVE  Roles'
  <2>1. t \in Tasks /\ op[t] \in Ops /\ Suits(t, op[t])
    BY <1>5, <1>t DEF TypeOK, EndSleep, Roles
  <2> QED
    BY <1>5, <2>1, Arrivals, ArrivedRoles
<1>6. ASSUME NEW t \in Tasks, pc' = [pc EXCEPT ![t] = "idle"],
             op' = [op EXCEPT ![t] = NoOp]
      PROVE  Roles'
  BY <1>6 DEF Roles, TypeOK
<1>7. ASSUME NEW t \in Tasks, InputAccepted(t) \/ ReplyAccepted(t) \/ SendFails(t)
      PROVE  Roles'
  BY <1>6, <1>7 DEF InputAccepted, ReplyAccepted, SendFails, Leave
<1>8. ASSUME NEW t \in InputTasks, CancelWaiting(t)
      PROVE  Roles'
  BY <1>6, <1>8, <1>t DEF CancelWaiting
<1>9. CASE Tick
  <2>1. \A t \in Tasks : op'[t] = [op[t] EXCEPT !.left = Elapsed(@)]
    BY <1>9 DEF Tick
  <2>2. \A t \in Tasks : op'[t].kind = op[t].kind
    BY <1>9, TickOps
  <2>3. \A t \in Tasks : op[t] = NoOp => op'[t] = NoOp
    BY <2>1 DEF NoOp, Elapsed
  <2> QED
    BY <1>9, <2>2, <2>3 DEF Tick, Roles, Suits
<1>10. CASE UNCHANGED <<pc, op>>
  BY <1>10 DEF Roles
<1> QED
  BY <1>1, <1>2, <1>3, <1>4, <1>5, <1>7, <1>8, <1>9, <1>10
  DEF Next, Edit, Exhausted, vars

LEMMA RolesInit == Init => Roles
BY DEF Init, Roles

(* TypeOK, LockOwnership and Roles together hold all the time.             *)
Base == TypeOK /\ LockOwnership /\ Roles

LEMMA BaseInit == Init => Base
<1>1. Init => LockOwnership
  BY TaskAssumption DEF Init, LockOwnership, FreeLock
<1> QED
  BY <1>1, TypeInit, RolesInit DEF Base

LEMMA BaseStep == Base /\ [Next]_vars => Base'
BY TypeStep, OwnershipStep, RolesStep DEF Base

-----------------------------------------------------------------------------
(* Direct controllers.                                                     *)

(* A controller is built for direct input, without the report loop and the *)
(* taps that read the store, or for periodic input.                        *)
DirectController ==
    "direct" \in InputKinds /\ InputKinds \cap {"input", "periodic"} = {}

PeriodicController == "direct" \notin InputKinds

LEMMA OutcomeDirect ==
    ASSUME TypeOK, DirectInputIsAccepted, NEW t \in Tasks, NEW o \in Ops, NEW s,
           Outcome(t, o, s), UNCHANGED <<store, sent>>
    PROVE  DirectInputIsAccepted'
<1>1. pc'[t] = "sending" /\ op'[t].kind = "reply" => op'[t].state \in {Neutral, sent}
  BY DEF Outcome, Ended, Slept, SentInput, SentReply, Ops, DirectInputIsAccepted
<1> QED
  BY <1>1 DEF DirectInputIsAccepted, Outcome, Others

LEMMA ArrivedDirect ==
    ASSUME TypeOK, DirectInputIsAccepted, NEW t \in Tasks, NEW o \in Ops, NEW s,
           Arrived(t, o, s), UNCHANGED <<store, sent>>
    PROVE  DirectInputIsAccepted'
<1>1. CASE Enqueued(t, o, s)
  BY <1>1 DEF Enqueued, Others, DirectInputIsAccepted
<1> QED
  BY <1>1, OutcomeDirect DEF Arrived

LEMMA DirectStep ==
    DirectController /\ Base /\ DirectInputIsAccepted /\ [Next]_vars
        => DirectInputIsAccepted'
<1> SUFFICES ASSUME DirectController, Base, DirectInputIsAccepted, [Next]_vars
             PROVE  DirectInputIsAccepted'
  OBVIOUS
<1> TypeOK /\ LockOwnership
  BY DEF Base
<1>t. ReplyTasks \subseteq Tasks /\ InputTasks \subseteq Tasks
  BY DEF Tasks
<1>1. ASSUME NEW t \in ReplyTasks, NEW sub \in Subcommands, Dispatch(t, sub)
      PROVE  DirectInputIsAccepted'
  <2>1. UNCHANGED <<store, sent>>
    BY <1>1 DEF Dispatch, historyVars
  <2> QED
    BY <1>1, <1>t, <2>1, Arrivals, ArrivalTypes, ArrivedDirect
<1>2. ASSUME NEW t \in InputTasks, NEW kind \in InputKinds, StartInput(t, kind)
      PROVE  DirectInputIsAccepted'
  <2>1. UNCHANGED <<store, sent>>
    BY <1>2 DEF StartInput, historyVars
  <2> QED
    BY <1>2, <1>t, <2>1, Arrivals, ArrivalTypes, ArrivedDirect
<1>3. ASSUME NEW t \in InputTasks, StartDirect(t)
      PROVE  DirectInputIsAccepted'
  <2>1. UNCHANGED <<store, sent>>
    BY <1>3 DEF StartDirect, historyVars
  <2>2. DirectOp \in Ops
    BY <1>3, ArrivalTypes DEF StartDirect
  <2> QED
    BY <1>3, <1>t, <2>1, <2>2, Arrivals, ArrivedDirect
<1>4. ASSUME NEW t \in Tasks, Wake(t)
      PROVE  DirectInputIsAccepted'
  <2>1. UNCHANGED <<store, sent>> /\ op[t] \in Ops
    BY <1>4 DEF Wake, historyVars, TypeOK
  <2> QED
    BY <1>4, <2>1, ServedShape, OutcomeDirect DEF Served
<1>5. ASSUME NEW t \in InputTasks, EndSleep(t)
      PROVE  DirectInputIsAccepted'
  <2>1. UNCHANGED <<store, sent>> /\ t \in Tasks /\ op[t] \in Ops
    BY <1>5, <1>t DEF EndSleep, historyVars, TypeOK
  <2> QED
    BY <1>5, <2>1, Arrivals, ArrivedDirect
<1>6. ASSUME NEW t \in Tasks, InputAccepted(t)
      PROVE  DirectInputIsAccepted'
  <2>1. pc[t] = "sending" /\ Leave(t, lock)
    BY <1>6 DEF InputAccepted
  <2>2. \A u \in Tasks : pc'[u] # "sending"
    BY <2>1 DEF Leave, LockOwnership, TypeOK
  <2>3. op[t].kind = "direct" \/ op[t].kind \notin {"input", "periodic", "direct"}
    BY DEF DirectController, TypeOK, Ops
  <2>4. store' = sent'
    BY <1>6, <2>3 DEF InputAccepted, DirectInputIsAccepted
  <2> QED
    BY <2>2, <2>4 DEF DirectInputIsAccepted
<1>7. ASSUME NEW t \in Tasks, ReplyAccepted(t) \/ SendFails(t)
      PROVE  DirectInputIsAccepted'
  <2>1. UNCHANGED <<store, sent>> /\ Leave(t, lock)
    BY <1>7 DEF ReplyAccepted, SendFails, historyVars
  <2> QED
    BY <2>1 DEF DirectInputIsAccepted, Leave, TypeOK
<1>8. ASSUME NEW t \in InputTasks, CancelWaiting(t)
      PROVE  DirectInputIsAccepted'
  BY <1>8, <1>t DEF CancelWaiting, historyVars, DirectInputIsAccepted, TypeOK
<1>9. CASE Tick
  BY <1>9 DEF Tick, DirectInputIsAccepted, TypeOK, Ops
<1>10. CASE Edit
  BY <1>10 DEF Edit, DirectController
<1>11. CASE UNCHANGED vars
  BY <1>11 DEF vars, DirectInputIsAccepted
<1> QED
  BY <1>1, <1>2, <1>3, <1>4, <1>5, <1>6, <1>7, <1>8, <1>9, <1>10, <1>11
  DEF Next, Exhausted

(* On a direct controller the stored input is the last one the transport   *)
(* accepted, and no reply shows a candidate that is still in flight or was *)
(* refused.                                                                *)
THEOREM DirectShown == DirectController => (Spec => []DirectInputIsAccepted)
<1> SUFFICES ASSUME DirectController PROVE Spec => []DirectInputIsAccepted
  OBVIOUS
<1>1. Init => DirectInputIsAccepted
  BY DEF Init, DirectInputIsAccepted
<1>2. Base /\ DirectInputIsAccepted /\ [Next]_vars => DirectInputIsAccepted'
  BY DirectStep
<1> QED
  BY BaseInit, BaseStep, <1>1, <1>2, PTL DEF Spec

-----------------------------------------------------------------------------
(* The order of the user input.                                            *)

OneMode == PeriodicController \/ DirectController

CarriedKinds == {"input", "periodic", "direct"}

(* The task has the user input of some moment for the host to see.         *)
Carries(t) == op[t].kind \in CarriedKinds

(* The states the tasks carry are in the order in which the lock serves    *)
(* the tasks, none is older than what the host has seen, and none is newer *)
(* than the newest edit.                                                   *)
InOrder ==
    /\ sent <= edits /\ store <= edits
    /\ PeriodicController => store = edits
    /\ \A t \in Tasks : Carries(t) => sent <= op[t].state /\ op[t].state <= edits
    /\ \A t, u \in Tasks : Carries(t) /\ op[u].kind = "direct" => t = u
    /\ \A t, u \in Tasks :
          pc[t] = "sending" /\ Carries(t) /\ Carries(u)
              => op[t].state <= op[u].state
    /\ \A t, u \in Tasks :
          Ahead(t, u, lock.waiters) /\ Carries(t) /\ Carries(u)
              => op[t].state <= op[u].state

(* What t brings is the newest of all.                                     *)
Newest(t, o) ==
    /\ sent <= o.state /\ o.state <= edits'
    /\ \A u \in Tasks \ {t} :
          Carries(u) => /\ op[u].state <= o.state
                        /\ o.kind # "direct" /\ op[u].kind # "direct"

(* Whoever carries user input is in the queue or with the transport.       *)
LEMMA CarriersQueue ==
    ASSUME Base, NEW u \in Tasks, Carries(u)
    PROVE  \/ pc[u] = "waiting" /\ Among(u, lock.waiters)
           \/ pc[u] = "sending" /\ lock.holder = u
<1>1. pc[u] # "idle" /\ pc[u] # "sleeping"
  BY DEF Base, Roles, Carries, CarriedKinds, NoOp
<1>2. pc[u] = "waiting" \/ pc[u] = "sending"
  BY <1>1 DEF Base, TypeOK
<1> QED
  BY <1>2, OwnershipForm DEF Base

LEMMA StateTypes ==
    ASSUME TypeOK
    PROVE  /\ sent \in Int /\ store \in Int /\ edits \in Int
           /\ \A t \in Tasks : op[t].state \in Int
BY BoundAssumption DEF TypeOK, Ops, Inputs

(* The critical section does not change the input state of a carrier.      *)
LEMMA OutcomeCarried ==
    ASSUME NEW t \in Tasks, NEW o \in Ops, NEW s, Outcome(t, o, s)
    PROVE  op'[t].kind \in CarriedKinds
               => op'[t].kind = o.kind /\ op'[t].state = o.state
<1>1. NoOp.kind \notin CarriedKinds
  BY DEF NoOp, CarriedKinds
<1> QED
  BY <1>1 DEF Outcome, Ended, Slept, SentInput, SentReply, Ops, CarriedKinds

LEMMA EndedOrder ==
    ASSUME Base, InOrder, NEW t \in Tasks, op'[t] = NoOp, Others(t),
           \A u, v \in Tasks \ {t} : Ahead(u, v, lock'.waiters)
                                        => Ahead(u, v, lock.waiters),
           UNCHANGED <<store, sent, edits>>
    PROVE  InOrder'
<1>1. ~Carries(t)' /\ op'[t].kind # "direct"
  BY DEF Carries, CarriedKinds, NoOp
<1>2. \A u \in Tasks : Carries(u)' => u # t /\ Carries(u) /\ op'[u] = op[u] /\ pc'[u] = pc[u]
  BY <1>1 DEF Carries, Others
<1>3. \A u \in Tasks : op'[u].kind = "direct" => u # t /\ op[u].kind = "direct"
  BY <1>1 DEF Others
<1> QED
  BY <1>2, <1>3 DEF InOrder

LEMMA ArrivedOrder ==
    ASSUME Base, InOrder, NEW t \in Tasks, NEW o \in Ops, NEW s,
           Arrived(t, o, s), pc[t] \in {"idle", "sleeping"},
           UNCHANGED <<store, sent>>, edits' \in Int, edits <= edits',
           PeriodicController => edits' = edits,
           o.kind \in CarriedKinds => Newest(t, o)
    PROVE  InOrder'
<1> TypeOK
  BY DEF Base
<1>w. lock.waiters \in Seq(Tasks)
  BY DEF TypeOK, Locks
<1>q. ~Among(t, lock.waiters)
  BY OwnershipForm DEF Base
<1>i. /\ sent \in Int /\ store \in Int /\ edits \in Int
      /\ \A u \in Tasks : op[u].state \in Int
  BY StateTypes
<1>1. /\ Others(t)
      /\ op'[t].kind \in CarriedKinds
             => op'[t].kind = o.kind /\ op'[t].state = o.state
  BY OutcomeCarried DEF Arrived, Outcome, Enqueued
<1>2. \A u \in Tasks \ {t} : /\ Carries(u)' <=> Carries(u)
                             /\ op'[u] = op[u] /\ pc'[u] = pc[u]
  BY <1>1 DEF Others, Carries
<1>3. Carries(t)' => /\ o.kind \in CarriedKinds /\ Newest(t, o)
                     /\ op'[t].kind = o.kind /\ op'[t].state = o.state
  BY <1>1 DEF Carries
<1>4. sent' <= edits' /\ store' <= edits' /\ (PeriodicController => store' = edits')
  BY <1>i DEF InOrder
<1>5. \A u \in Tasks : Carries(u)' => sent' <= op'[u].state /\ op'[u].state <= edits'
  BY <1>2, <1>3, <1>i DEF InOrder, Newest
<1>6. ASSUME NEW u \in Tasks, NEW v \in Tasks, Carries(u)', op'[v].kind = "direct"
      PROVE  u = v
  <2>1. Carries(v)'
    BY <1>6 DEF Carries, CarriedKinds
  <2>2. CASE u # t /\ v # t
    BY <1>2, <1>6, <2>2 DEF InOrder
  <2>3. CASE u = t /\ v # t
    BY <1>2, <1>3, <1>6, <2>1, <2>3 DEF Newest
  <2>4. CASE u # t /\ v = t
    BY <1>2, <1>3, <1>6, <2>1, <2>4 DEF Newest
  <2> QED
    BY <2>2, <2>3, <2>4
<1>7. CASE Outcome(t, o, s) /\ ~Contended(lock) /\ lock'.waiters = lock.waiters
  <2>1. \A u \in Tasks : ~Among(u, lock.waiters)
    BY <1>7, <1>w DEF Contended, Among
  <2>2. \A u \in Tasks \ {t} : ~Carries(u)'
    BY <1>2, <1>7, <2>1, CarriersQueue, TaskAssumption DEF Contended
  <2>3. \A u, v \in Tasks : Carries(u)' /\ Carries(v)' => u = v
    BY <2>2
  <2>4. \A u \in Tasks : Carries(u)' => op'[u].state \in Int
    BY <1>1, <2>2, <1>i DEF Carries, Ops, Inputs
  <2>5. \A u, v \in Tasks : Carries(u)' /\ Carries(v)' => op'[u].state <= op'[v].state
    BY <2>3, <2>4
  <2> QED
    BY <1>4, <1>5, <1>6, <2>5 DEF InOrder
<1>8. CASE Enqueued(t, o, s)
  <2>1. pc'[t] = "waiting" /\ lock'.waiters = Append(lock.waiters, t)
    BY <1>8 DEF Enqueued, Queued, TypeOK, Locks
  <2>2. \A u, v : Ahead(u, v, lock'.waiters)
             => Ahead(u, v, lock.waiters) \/ (v = t /\ Among(u, lock.waiters))
    BY <1>w, <2>1, AppendOrder
  <2>3. \A u, v : Ahead(u, v, lock.waiters) => u # t /\ v # t
    BY <1>q DEF Ahead, Among
  <2>4. ASSUME NEW u \in Tasks, NEW v \in Tasks, Carries(u)', Carries(v)',
               pc'[u] = "sending" \/ Ahead(u, v, lock'.waiters)
        PROVE  op'[u].state <= op'[v].state
    <3>1. u # t
      BY <1>q, <2>1, <2>2, <2>3, <2>4
    <3>2. CASE v = t
      BY <1>2, <1>3, <2>4, <3>1, <3>2 DEF Newest
    <3>3. CASE v # t
      BY <1>2, <2>2, <2>4, <3>1, <3>3 DEF InOrder
    <3> QED
      BY <3>2, <3>3
  <2> QED
    BY <1>4, <1>5, <1>6, <2>4 DEF InOrder
<1> QED
  BY <1>7, <1>8 DEF Arrived

(* The first waiter has the oldest input of all that wait.                 *)
LEMMA ServedOrder ==
    ASSUME Base, InOrder, NEW t \in Tasks, Served(t),
           UNCHANGED <<store, sent, edits>>
    PROVE  InOrder'
<1> TypeOK
  BY DEF Base
<1>w. lock.waiters \in Seq(Tasks) /\ Distinct(lock.waiters)
  BY OwnershipForm DEF Base, TypeOK, Locks
<1>1. /\ lock.holder = NoTask /\ lock.waiters # << >> /\ t = Head(lock.waiters)
      /\ lock'.waiters = Tail(lock.waiters)
      /\ Outcome(t, op[t], session) /\ op[t] \in Ops
  BY DEF Served, Woken, TypeOK
<1>2. /\ Others(t)
      /\ op'[t].kind \in CarriedKinds
             => op'[t].kind = op[t].kind /\ op'[t].state = op[t].state
  BY <1>1, OutcomeCarried DEF Outcome
<1>3. \A u \in Tasks : Carries(u)' => /\ Carries(u)
                                      /\ op'[u].kind = op[u].kind
                                      /\ op'[u].state = op[u].state
  BY <1>2 DEF Others, Carries
<1>4. /\ \A u, v : Ahead(u, v, lock'.waiters) => Ahead(u, v, lock.waiters)
      /\ \A u : Among(u, Tail(lock.waiters)) => Ahead(t, u, lock.waiters)
      /\ \A u : Among(u, Tail(lock.waiters)) <=> u # t /\ Among(u, lock.waiters)
  BY <1>w, <1>1, TailOrder, RemoveHead
<1>5. ASSUME NEW u \in Tasks, NEW v \in Tasks, Carries(u)', Carries(v)',
             pc'[u] = "sending"
      PROVE  op'[u].state <= op'[v].state
  <2>1. u = t
    BY <1>1, <1>2, <1>3, <1>5, CarriersQueue, TaskAssumption DEF Others
  <2>2. CASE v = t
    BY <1>3, <1>5, <2>1, <2>2, StateTypes
  <2>3. CASE v # t
    <3>1. Among(v, lock.waiters)
      BY <1>1, <1>3, <1>5, CarriersQueue, TaskAssumption
    <3>2. Ahead(t, v, lock.waiters)
      BY <1>4, <2>3, <3>1
    <3> QED
      BY <1>3, <1>5, <2>1, <3>2 DEF InOrder
  <2> QED
    BY <2>2, <2>3
<1>6. ASSUME NEW u \in Tasks, NEW v \in Tasks, Carries(u)', op'[v].kind = "direct"
      PROVE  u = v
  <2>1. Carries(v)'
    BY <1>6 DEF Carries, CarriedKinds
  <2> QED
    BY <1>3, <1>6, <2>1 DEF InOrder
<1>7. \A u, v \in Tasks :
         Ahead(u, v, lock'.waiters) /\ Carries(u)' /\ Carries(v)'
             => op'[u].state <= op'[v].state
  BY <1>3, <1>4 DEF InOrder
<1>8. \A u \in Tasks : Carries(u)' => sent' <= op'[u].state /\ op'[u].state <= edits'
  BY <1>3 DEF InOrder
<1> QED
  BY <1>5, <1>6, <1>7, <1>8 DEF InOrder

LEMMA OrderStep ==
    OneMode /\ Base /\ InOrder /\ [Next]_vars
        => InOrder' /\ [sent' >= sent]_vars
<1> SUFFICES ASSUME OneMode, Base, InOrder, [Next]_vars
             PROVE  InOrder' /\ sent' >= sent
  OBVIOUS
<1> TypeOK /\ LockOwnership /\ Roles
  BY DEF Base
<1>t. ReplyTasks \subseteq Tasks /\ InputTasks \subseteq Tasks
  BY DEF Tasks
<1>i. /\ sent \in Int /\ store \in Int /\ edits \in Int
      /\ \A u \in Tasks : op[u].state \in Int
  BY StateTypes
<1>k. \A u \in Tasks : op[u].kind \in InputKinds \cup {"reply", "none"}
  BY DEF TypeOK, Ops
<1>1. ASSUME NEW t \in ReplyTasks, NEW sub \in Subcommands, Dispatch(t, sub)
      PROVE  InOrder' /\ sent' >= sent
  <2>1. UNCHANGED <<store, sent, edits>> /\ pc[t] = "idle"
    BY <1>1 DEF Dispatch, historyVars
  <2>2. ReplyOp(sub).kind \notin CarriedKinds
    BY DEF ReplyOp, NoOp, CarriedKinds
  <2>3. edits' \in Int /\ edits <= edits' /\ edits' = edits
    BY <1>i, <2>1
  <2>4. Arrived(t, ReplyOp(sub), Observing(session, sub)) /\ ReplyOp(sub) \in Ops
    BY <1>1, <1>t, Arrivals, ArrivalTypes
  <2>5. InOrder'
    BY <1>t, <2>1, <2>2, <2>3, <2>4, ArrivedOrder
  <2> QED
    BY <1>i, <2>1, <2>5
<1>2. ASSUME NEW t \in InputTasks, NEW kind \in InputKinds, StartInput(t, kind)
      PROVE  InOrder' /\ sent' >= sent
  <2>1. UNCHANGED <<store, sent, edits>> /\ pc[t] = "idle" /\ kind # "direct"
    BY <1>2 DEF StartInput, historyVars
  <2>2. InputOp(kind).kind = kind
        /\ (kind \in {"input", "periodic"} => InputOp(kind).state = store)
    BY DEF InputOp, NoOp
  <2>3. edits' \in Int /\ edits <= edits' /\ edits' = edits
    BY <1>i, <2>1
  <2>4. Arrived(t, InputOp(kind), session) /\ InputOp(kind) \in Ops
    BY <1>2, <1>t, Arrivals, ArrivalTypes
  <2>5. ASSUME InputOp(kind).kind \in CarriedKinds
        PROVE  Newest(t, InputOp(kind))
    <3>1. kind \in {"input", "periodic"}
      BY <2>1, <2>2, <2>5 DEF CarriedKinds
    <3>2. PeriodicController
      BY <3>1 DEF OneMode, DirectController
    <3>3. InputOp(kind).state = edits
      BY <2>2, <3>1, <3>2 DEF InOrder
    <3>4. \A u \in Tasks : op[u].kind # "direct"
      BY <1>k, <3>2 DEF PeriodicController
    <3> QED
      BY <1>i, <2>1, <2>2, <3>3, <3>4 DEF Newest, InOrder
  <2>6. InOrder'
    BY <1>t, <2>1, <2>3, <2>4, <2>5, ArrivedOrder
  <2> QED
    BY <1>i, <2>1, <2>6
<1>3. ASSUME NEW t \in InputTasks, StartDirect(t)
      PROVE  InOrder' /\ sent' >= sent
  <2>1. /\ UNCHANGED <<store, sent>> /\ pc[t] = "idle"
        /\ edits' = edits + 1 /\ "direct" \in InputKinds
        /\ \A u \in Tasks : op[u].kind # "direct"
    BY <1>3 DEF StartDirect, historyVars
  <2>2. edits' \in Int /\ edits <= edits' /\ ~PeriodicController
    BY <1>i, <2>1 DEF PeriodicController
  <2>3. Arrived(t, DirectOp, session) /\ DirectOp \in Ops
    BY <1>3, <1>t, Arrivals, ArrivalTypes DEF StartDirect
  <2>4. \A u \in Tasks : ~Carries(u)
    BY <1>k, <2>1, <2>2 DEF OneMode, DirectController, Carries, CarriedKinds
  <2>5. Newest(t, DirectOp)
    <3>1. DirectOp.state = edits + 1
      BY DEF DirectOp, NoOp
    <3> QED
      BY <1>i, <2>1, <2>4, <3>1 DEF Newest, InOrder
  <2>6. InOrder'
    BY <1>t, <2>1, <2>2, <2>3, <2>5, ArrivedOrder
  <2> QED
    BY <1>i, <2>1, <2>6
<1>4. CASE Edit
  <2>1. /\ UNCHANGED <<pc, op, lock, sent>>
        /\ edits' = edits + 1 /\ store' = edits + 1
    BY <1>4 DEF Edit, historyVars
  <2>2. InOrder'
    BY <1>i, <2>1 DEF InOrder, Carries
  <2> QED
    BY <1>i, <2>1, <2>2
<1>5. ASSUME NEW t \in Tasks, Wake(t)
      PROVE  InOrder' /\ sent' >= sent
  <2>1. UNCHANGED <<store, sent, edits>>
    BY <1>5 DEF Wake, boundVars, historyVars
  <2> QED
    BY <1>5, <1>i, <2>1, ServedShape, ServedOrder
<1>6. ASSUME NEW t \in InputTasks, EndSleep(t)
      PROVE  InOrder' /\ sent' >= sent
  <2>1. UNCHANGED <<store, sent, edits>> /\ pc[t] = "sleeping" /\ t \in Tasks
    BY <1>6, <1>t DEF EndSleep, boundVars, historyVars
  <2>2. op[t].kind \notin CarriedKinds /\ op[t] \in Ops
    BY <2>1 DEF Roles, CarriedKinds, TypeOK
  <2>3. edits' \in Int /\ edits <= edits' /\ edits' = edits
    BY <1>i, <2>1
  <2>4. InOrder'
    BY <1>6, <2>1, <2>2, <2>3, Arrivals, ArrivedOrder
  <2> QED
    BY <1>i, <2>1, <2>4
<1>7. ASSUME NEW t \in Tasks, Leave(t, lock)
      PROVE  op'[t] = NoOp /\ Others(t) /\ lock'.waiters = lock.waiters
  BY <1>7 DEF Leave, Released, Others, TypeOK, Locks
<1>8. ASSUME NEW t \in Tasks, InputAccepted(t)
      PROVE  InOrder' /\ sent' >= sent
  <2>1. /\ pc[t] = "sending" /\ UNCHANGED edits
        /\ op'[t] = NoOp /\ Others(t) /\ lock'.waiters = lock.waiters
        /\ store' = IF op[t].kind = "direct" THEN op[t].state ELSE store
        /\ sent' = IF Carries(t) THEN op[t].state ELSE sent
    BY <1>7, <1>8 DEF InputAccepted, boundVars, Carries, CarriedKinds
  <2>2. \A u \in Tasks : Carries(u)' => /\ u # t /\ Carries(u)
                                        /\ op'[u] = op[u] /\ pc'[u] = pc[u]
    BY <2>1 DEF Carries, CarriedKinds, NoOp, Others
  <2>3. \A u \in Tasks : op'[u].kind = "direct" => Carries(u)'
    BY DEF Carries, CarriedKinds
  <2>4. sent <= sent' /\ sent' <= edits' /\ store' <= edits'
    BY <1>i, <2>1 DEF InOrder, Carries, CarriedKinds
  <2>5. PeriodicController => store' = edits'
    BY <1>k, <2>1 DEF InOrder, PeriodicController
  <2>6. \A u \in Tasks : Carries(u)' => sent' <= op'[u].state
    BY <1>i, <2>1, <2>2 DEF InOrder
  <2>7. \A u \in Tasks : Carries(u)' => op'[u].state <= edits'
    BY <2>1, <2>2 DEF InOrder
  <2>8. \A u, v \in Tasks :
           Carries(u)' /\ Carries(v)' /\ (pc'[u] = "sending" \/ Ahead(u, v, lock'.waiters))
               => op'[u].state <= op'[v].state
    BY <2>1, <2>2 DEF InOrder
  <2>9. \A u, v \in Tasks : Carries(u)' /\ op'[v].kind = "direct" => u = v
    BY <2>2, <2>3 DEF InOrder
  <2> QED
    BY <1>i, <2>1, <2>4, <2>5, <2>6, <2>7, <2>8, <2>9 DEF InOrder
<1>9. ASSUME NEW t \in Tasks, ReplyAccepted(t) \/ SendFails(t)
      PROVE  InOrder' /\ sent' >= sent
  <2>1. UNCHANGED <<store, sent, edits>> /\ Leave(t, lock)
    BY <1>9 DEF ReplyAccepted, SendFails, boundVars, historyVars
  <2>2. InOrder'
    BY <1>7, <2>1, EndedOrder
  <2> QED
    BY <1>i, <2>1, <2>2
<1>10. ASSUME NEW t \in InputTasks, CancelWaiting(t)
       PROVE  InOrder' /\ sent' >= sent
  <2>1. /\ UNCHANGED <<store, sent, edits>> /\ t \in Tasks
        /\ op'[t] = NoOp /\ Others(t)
    BY <1>10, <1>t DEF CancelWaiting, boundVars, historyVars, Others, TypeOK
  <2>2. ASSUME pc[t] = "waiting", lock' = Abandoned(lock, t)
        PROVE  \A u, v : Ahead(u, v, lock'.waiters) => Ahead(u, v, lock.waiters)
    <3> DEFINE k == CHOOSE i \in 1 .. Len(lock.waiters) : lock.waiters[i] = t
    <3>1. k \in 1 .. Len(lock.waiters)
      BY <2>1, <2>2, OwnershipForm DEF Among
    <3>2. lock'.waiters = WithoutPlace(lock.waiters, k)
      BY <2>2 DEF Abandoned, TypeOK, Locks
    <3> HIDE DEF k
    <3>3. lock.waiters \in Seq(Tasks)
      BY DEF TypeOK, Locks
    <3>4. \A u, v : Ahead(u, v, lock'.waiters) => Ahead(u, v, lock.waiters)
      BY <3>1, <3>2, <3>3, RemoveOrder
    <3> QED
      BY <3>4
  <2>3. \A u, v : Ahead(u, v, lock'.waiters) => Ahead(u, v, lock.waiters)
    BY <1>10, <2>2 DEF CancelWaiting
  <2>4. InOrder'
    BY <2>1, <2>3, EndedOrder
  <2> QED
    BY <1>i, <2>1, <2>4
<1>11. CASE Tick
  <2>1. UNCHANGED <<pc, lock, store, sent, edits>>
    BY <1>11 DEF Tick, boundVars
  <2>3. \A u \in Tasks : op'[u].kind = op[u].kind /\ op'[u].state = op[u].state
    BY <1>11, TickOps
  <2>4. InOrder'
    BY <2>1, <2>3 DEF InOrder, Carries
  <2> QED
    BY <1>i, <2>1, <2>4
<1>12. CASE UNCHANGED vars
  <2>1. InOrder'
    BY <1>12 DEF vars, InOrder, Carries
  <2> QED
    BY <1>12, <1>i, <2>1 DEF vars
<1> QED
  BY <1>1, <1>2, <1>3, <1>4, <1>5, <1>6, <1>8, <1>9, <1>10, <1>11, <1>12
  DEF Next, Exhausted

(* The neutral reports of the handshake carry no input.                    *)
Blank(o) == o.kind \in {"handshake", "await"} => o.state = Neutral

(* What the tasks read under the lock is up to date: nothing newer than the*)
(* store has been seen, and the reply or trailing neutral with the         *)
(* transport shows the input the store has had since, or none.             *)
UpToDate ==
    /\ shown <= store
    /\ \A t \in Tasks : Blank(op[t])
    /\ \A t \in Tasks :
          pc[t] = "sending" /\ op[t].kind \in {"reply", "current"}
              => /\ op[t].state <= store
                 /\ op[t].state # Neutral => shown <= op[t].state

LEMMA OutcomeUpToDate ==
    ASSUME Base, UpToDate, NEW t \in Tasks, NEW o \in Ops, NEW s,
           Outcome(t, o, s), UNCHANGED <<store, shown>>, store >= Neutral,
           Blank(o)
    PROVE  UpToDate'
<1> store \in Int /\ shown \in Int
  BY BoundAssumption DEF Base, TypeOK, Inputs
<1>1. \A u \in Tasks \ {t} : pc'[u] = pc[u] /\ op'[u] = op[u]
  BY DEF Outcome, Others
<1>2. Blank(op'[t])
  <2>1. CASE Ended(t, o, s)
    BY <2>1 DEF Ended, NoOp, Blank
  <2>2. CASE Slept(t, o, s)
    BY <2>2 DEF Slept, Ops, Blank
  <2>3. CASE SentInput(t, o, s)
    BY <2>3 DEF SentInput, Ops, Blank
  <2>4. CASE SentReply(t, o, s)
    BY <2>4 DEF SentReply, Ops, Blank
  <2> QED
    BY <2>1, <2>2, <2>3, <2>4 DEF Outcome
<1>3. pc'[t] = "sending" /\ op'[t].kind \in {"reply", "current"}
          => op'[t].state \in {store, Neutral}
  BY DEF Outcome, Ended, Slept, SentInput, SentReply, Ops
<1>4. pc'[t] = "sending" /\ op'[t].kind \in {"reply", "current"}
          => /\ op'[t].state <= store'
             /\ op'[t].state # Neutral => shown' <= op'[t].state
  BY <1>3 DEF UpToDate, Neutral
<1> QED
  BY <1>1, <1>2, <1>4 DEF UpToDate

LEMMA ArrivedUpToDate ==
    ASSUME Base, UpToDate, NEW t \in Tasks, NEW o \in Ops, NEW s,
           Arrived(t, o, s), UNCHANGED <<store, shown>>, store >= Neutral,
           Blank(o)
    PROVE  UpToDate'
<1>1. CASE Enqueued(t, o, s)
  BY <1>1 DEF Enqueued, Others, UpToDate
<1> QED
  BY <1>1, OutcomeUpToDate DEF Arrived

(* A task ends its report, and nothing was sent.                           *)
LEMMA EndedUpToDate ==
    ASSUME UpToDate, NEW t \in Tasks, op'[t] = NoOp, pc'[t] = "idle", Others(t),
           UNCHANGED <<store, shown>>
    PROVE  UpToDate'
BY DEF UpToDate, Others, NoOp, Blank

LEMMA UpToDateStep ==
    /\ OneMode /\ Base /\ InOrder /\ UpToDate /\ [Next]_vars
    /\ DirectController => DirectInputIsAccepted
    => UpToDate'
<1> SUFFICES ASSUME OneMode, Base, InOrder, UpToDate, [Next]_vars,
                    DirectController => DirectInputIsAccepted
             PROVE  UpToDate'
  OBVIOUS
<1> TypeOK /\ LockOwnership /\ Roles
  BY DEF Base
<1>t. ReplyTasks \subseteq Tasks /\ InputTasks \subseteq Tasks
  BY DEF Tasks
<1>i. /\ shown \in Int /\ store \in Int /\ edits \in Int /\ store >= Neutral
      /\ \A u \in Tasks : op[u].state \in Int
  BY BoundAssumption DEF TypeOK, Ops, Inputs, Neutral
<1>k. \A u \in Tasks : op[u].kind \in InputKinds \cup {"reply", "none"}
  BY DEF TypeOK, Ops
<1>1. ASSUME NEW t \in ReplyTasks, NEW sub \in Subcommands, Dispatch(t, sub)
      PROVE  UpToDate'
  <2>1. UNCHANGED <<store, shown>> /\ Blank(ReplyOp(sub))
    BY <1>1 DEF Dispatch, historyVars, ReplyOp, NoOp, Blank
  <2> QED
    BY <1>1, <1>t, <1>i, <2>1, Arrivals, ArrivalTypes, ArrivedUpToDate
<1>2. ASSUME NEW t \in InputTasks, NEW kind \in InputKinds, StartInput(t, kind)
      PROVE  UpToDate'
  <2>1. /\ UNCHANGED <<store, shown>>
        /\ Blank(InputOp(kind))
    BY <1>2 DEF StartInput, historyVars, InputOp, NoOp, Blank
  <2> QED
    BY <1>2, <1>t, <1>i, <2>1, Arrivals, ArrivalTypes, ArrivedUpToDate
<1>3. ASSUME NEW t \in InputTasks, StartDirect(t)
      PROVE  UpToDate'
  <2>1. UNCHANGED <<store, shown>> /\ Blank(DirectOp)
    BY <1>3 DEF StartDirect, historyVars, DirectOp, NoOp, Blank
  <2>2. DirectOp \in Ops
    BY <1>3, ArrivalTypes DEF StartDirect
  <2> QED
    BY <1>3, <1>t, <1>i, <2>1, <2>2, Arrivals, ArrivedUpToDate
<1>4. CASE Edit
  <2>1. UNCHANGED <<pc, op, shown>> /\ store' = edits + 1
    BY <1>4 DEF Edit, historyVars
  <2>2. store <= store'
    BY <1>i, <2>1 DEF InOrder
  <2>3. store' \in Int
    BY <1>i, <2>1
  <2> QED
    BY <1>i, <2>1, <2>2, <2>3 DEF UpToDate
<1>5. ASSUME NEW t \in Tasks, Wake(t)
      PROVE  UpToDate'
  <2>1. UNCHANGED <<store, shown>> /\ op[t] \in Ops
    BY <1>5 DEF Wake, historyVars, TypeOK
  <2> QED
    BY <1>5, <1>i, <2>1, ServedShape, OutcomeUpToDate DEF Served, UpToDate
<1>6. ASSUME NEW t \in InputTasks, EndSleep(t)
      PROVE  UpToDate'
  <2>1. UNCHANGED <<store, shown>> /\ t \in Tasks /\ op[t] \in Ops
    BY <1>6, <1>t DEF EndSleep, historyVars, TypeOK
  <2> QED
    BY <1>6, <1>i, <2>1, Arrivals, ArrivedUpToDate DEF UpToDate
<1>7. ASSUME NEW t \in Tasks, Leave(t, lock)
      PROVE  op'[t] = NoOp /\ pc'[t] = "idle" /\ Others(t)
  BY <1>7 DEF Leave, Others, TypeOK
<1>8. ASSUME NEW t \in Tasks, InputAccepted(t) \/ ReplyAccepted(t)
      PROVE  UpToDate'
  <2>1. /\ pc[t] = "sending" /\ Leave(t, lock)
        /\ store' = IF op[t].kind = "direct" THEN op[t].state ELSE store
        /\ shown' = Newer(shown, op[t].state)
    BY <1>8 DEF InputAccepted, ReplyAccepted
  <2>2. \A u \in Tasks : pc'[u] # "sending"
    BY <2>1 DEF Leave, LockOwnership, TypeOK
  <2>3. \A u \in Tasks : Blank(op'[u])
    BY <1>7, <2>1 DEF UpToDate, Others, NoOp, Blank
  <2>4. op[t].kind \in {"input", "periodic", "direct", "handshake",
                         "current", "reply", "await"}
        \/ op[t].kind = "none"
    BY <1>k, KindAssumption DEF AllInputKinds
  <2>5. op[t].state <= store'
    <3>1. CASE op[t].kind \in {"reply", "current"}
      BY <2>1, <3>1 DEF UpToDate
    <3>2. CASE op[t].kind \in {"handshake", "await"}
      BY <1>i, <2>1, <3>2 DEF UpToDate, Blank
    <3>3. CASE op[t].kind = "direct"
      BY <1>i, <2>1, <3>3
    <3>4. CASE op[t].kind \in {"input", "periodic"}
      <4>1. PeriodicController
        BY <1>k, <3>4 DEF OneMode, DirectController
      <4> QED
        BY <2>1, <3>4, <4>1 DEF InOrder, Carries, CarriedKinds
    <3>5. op[t].kind # "none"
      BY <2>1 DEF Roles, Suits
    <3> QED
      BY <2>4, <3>1, <3>2, <3>3, <3>4, <3>5
  <2>6. shown <= store'
    <3>1. CASE op[t].kind = "direct"
      <4>1. DirectController
        BY <1>k, <3>1 DEF OneMode, PeriodicController
      <4>2. store = sent
        BY <4>1 DEF DirectInputIsAccepted
      <4>3. sent <= op[t].state /\ sent \in Int
        BY <3>1 DEF InOrder, Carries, CarriedKinds, TypeOK, Inputs
      <4> QED
        BY <1>i, <2>1, <3>1, <4>2, <4>3 DEF UpToDate
    <3> QED
      BY <2>1, <3>1 DEF UpToDate
  <2>7. shown' <= store'
    BY <2>1, <2>5, <2>6 DEF Newer
  <2> QED
    BY <2>2, <2>3, <2>7 DEF UpToDate
<1>9. ASSUME NEW t \in Tasks, SendFails(t)
      PROVE  UpToDate'
  BY <1>7, <1>9, EndedUpToDate DEF SendFails, historyVars
<1>10. ASSUME NEW t \in InputTasks, CancelWaiting(t)
       PROVE  UpToDate'
  <2>1. /\ UNCHANGED <<store, shown>> /\ t \in Tasks
        /\ op'[t] = NoOp /\ pc'[t] = "idle" /\ Others(t)
    BY <1>10, <1>t DEF CancelWaiting, historyVars, Others, TypeOK
  <2> QED
    BY <2>1, EndedUpToDate
<1>11. CASE Tick
  <2>1. UNCHANGED <<pc, store, shown>>
    BY <1>11 DEF Tick
  <2>3. \A u \in Tasks : op'[u].kind = op[u].kind /\ op'[u].state = op[u].state
    BY <1>11, TickOps
  <2> QED
    BY <2>1, <2>3 DEF UpToDate, Blank
<1>12. CASE UNCHANGED vars
  BY <1>12 DEF vars, UpToDate
<1> QED
  BY <1>1, <1>2, <1>3, <1>4, <1>5, <1>6, <1>8, <1>9, <1>10, <1>11, <1>12
  DEF Next, Exhausted

(* The lock serves the tasks in the order in which they read the store     *)
(* before they asked for it, and what is read under the lock is not older  *)
(* than anything the host has seen.                                        *)
THEOREM OrderedInput == OneMode => (Spec => InputInOrder)
<1> SUFFICES ASSUME OneMode PROVE Spec => InputInOrder
  OBVIOUS
<1>1. Init => InOrder /\ UpToDate
  <2> SUFFICES ASSUME Init PROVE InOrder /\ UpToDate
    OBVIOUS
  <2>1. \A t \in Tasks : ~Carries(t) /\ op[t].kind # "direct"
    BY DEF Init, Carries, CarriedKinds, NoOp
  <2>2. InOrder
    BY <2>1 DEF Init, InOrder, Neutral
  <2> QED
    BY <2>2 DEF Init, UpToDate, Neutral, NoOp, Blank
<1>2. Base /\ InOrder /\ [Next]_vars => InOrder' /\ [sent' >= sent]_vars
  BY OrderStep
<1>d. /\ Init => (DirectController => DirectInputIsAccepted)
      /\ /\ Base /\ (DirectController => DirectInputIsAccepted) /\ [Next]_vars
         => (DirectController => DirectInputIsAccepted)'
  BY DirectStep DEF Init, DirectInputIsAccepted, DirectController
<1>3. /\ Base /\ InOrder /\ UpToDate /\ [Next]_vars
      /\ DirectController => DirectInputIsAccepted
      => UpToDate'
  BY UpToDateStep
<1>4. Base /\ UpToDate => \A t \in Tasks :
             /\ pc[t] = "sending" /\ op[t].kind \in {"reply", "current"}
             /\ op[t].state # Neutral
             => op[t].state >= shown
  BY StateTypes DEF Base, UpToDate, TypeOK, Inputs
<1> QED
  BY BaseInit, BaseStep, <1>1, <1>2, <1>3, <1>4, <1>d, PTL DEF Spec, InputInOrder

-----------------------------------------------------------------------------
(* The session and the replies, with a host that waits for its answers.    *)

(* The host sends a subcommand when its last one has been answered, so     *)
(* that one task at a time dispatches.  Without this a second dispatch can *)
(* remember, and restore, what the first one was refused.                  *)
OneRequest == \A t, u \in ReplyTasks : t = u

Replying(t) == pc[t] = "sending" /\ op[t].kind = "reply"

(* What a request falls back to is what the host has been told; while its  *)
(* reply is in flight the session is one transition ahead of that.         *)
Told ==
    /\ SessionMatchesReplies
    /\ UserInputAfterReadiness
    /\ \A t \in Tasks :
          op[t].kind = "reply" => Requested(op[t].before) = Requested(granted)
    /\ \A t \in Tasks :
          Replying(t)
              => Requested(session) = Requested(Transition(granted, op[t].sub))

(* The encoding state and the diagnostics do not touch what is requested;  *)
(* the responder and the readiness depend on nothing else.                 *)
LEMMA RequestedOps ==
    ASSUME NEW s \in Sessions
    PROVE  /\ Requested(Encoded(s)) = Requested(s)
           /\ \A sub : Requested(Observing(s, sub)) = Requested(s)
           /\ \A g \in Sessions : Requested(s) = Requested(g) =>
                 /\ ProtocolReady(s) <=> ProtocolReady(g)
                 /\ \A sub : Requested(Transition(s, sub)) = Requested(Transition(g, sub))
<1>1. Requested(Encoded(s)) = Requested(s)
  BY DEF Requested, Encoded, Sessions
<1>2. \A sub : Requested(Observing(s, sub)) = Requested(s)
  BY DEF Requested, Observing, Sessions
<1>3. ASSUME NEW g \in Sessions, Requested(s) = Requested(g)
      PROVE  /\ ProtocolReady(s) <=> ProtocolReady(g)
             /\ \A sub : Requested(Transition(s, sub)) = Requested(Transition(g, sub))
  <2>1. /\ s.supported = g.supported /\ s.lit = g.lit
        /\ s.imu = g.imu /\ s.vibration = g.vibration
    BY <1>3 DEF Requested
  <2>2. ProtocolReady(s) <=> ProtocolReady(g)
    BY <2>1 DEF ProtocolReady
  <2>3. ASSUME NEW sub
        PROVE  Requested(Transition(s, sub)) = Requested(Transition(g, sub))
    BY <2>1 DEF Requested, Transition, Sessions
  <2> QED
    BY <2>2, <2>3
<1> QED
  BY <1>1, <1>2, <1>3

LEMMA OutcomeTold ==
    ASSUME Base, Told, NEW t \in Tasks, NEW o \in Ops, NEW s \in Sessions,
           Outcome(t, o, s), \A u \in Tasks : pc[u] # "sending",
           Requested(s) = Requested(session), UNCHANGED granted,
           o.kind = "reply" => Requested(o.before) = Requested(granted)
    PROVE  Told'
<1> TypeOK
  BY DEF Base
<1>1. Requested(s) = Requested(granted) /\ granted \in Sessions
  BY DEF Told, SessionMatchesReplies, TypeOK
<1>2. ProtocolReady(s) <=> ProtocolReady(granted)
  BY <1>1, RequestedOps
<1>3. \A u \in Tasks \ {t} : op'[u] = op[u] /\ pc'[u] # "sending"
  BY DEF Outcome, Others
<1>4. CASE Ended(t, o, s)
  <2>1. op'[t].kind # "reply" /\ pc'[t] # "sending"
    BY <1>4 DEF Ended, NoOp
  <2>2. Requested(session') = Requested(granted)
    BY <1>1, <1>4 DEF Ended
  <2> QED
    BY <1>3, <2>1, <2>2
    DEF Told, SessionMatchesReplies, UserInputAfterReadiness, Replying
<1>5. CASE Slept(t, o, s)
  <2>1. op'[t].kind # "reply" /\ pc'[t] # "sending"
    BY <1>5 DEF Slept, Ops
  <2> QED
    BY <1>1, <1>3, <1>5, <2>1
    DEF Slept, Told, SessionMatchesReplies, UserInputAfterReadiness, Replying
<1>6. CASE SentInput(t, o, s)
  <2>1. op'[t].kind # "reply"
    BY <1>6 DEF SentInput, Ops
  <2>2. Requested(session') = Requested(granted)
    BY <1>1, <1>6, RequestedOps DEF SentInput
  <2> QED
    BY <1>3, <2>1, <2>2
    DEF Told, SessionMatchesReplies, UserInputAfterReadiness, Replying
<1>7. CASE SentReply(t, o, s)
  <2>1. /\ pc'[t] = "sending" /\ op'[t].kind = "reply"
        /\ op'[t].sub = o.sub /\ op'[t].before = o.before
        /\ op'[t].state # Neutral => ProtocolReady(granted)
    BY <1>2, <1>7 DEF SentReply, Ops
  <2>2. Requested(session') = Requested(Transition(granted, o.sub))
    BY <1>1, <1>7, RequestedOps DEF SentReply
  <2>3. Requested(op'[t].before) = Requested(granted)
    BY <1>7, <2>1 DEF SentReply
  <2> QED
    BY <1>3, <2>1, <2>2, <2>3
    DEF Told, SessionMatchesReplies, UserInputAfterReadiness, Replying
<1> QED
  BY <1>4, <1>5, <1>6, <1>7 DEF Outcome

LEMMA ArrivedTold ==
    ASSUME Base, Told, NEW t \in Tasks, NEW o \in Ops, NEW s \in Sessions,
           Arrived(t, o, s), pc[t] \in {"idle", "sleeping"},
           Requested(s) = Requested(session), UNCHANGED granted,
           o.kind = "reply" => Requested(o.before) = Requested(granted)
    PROVE  Told'
<1>1. CASE Outcome(t, o, s) /\ ~Contended(lock)
  <2>1. \A u \in Tasks : pc[u] # "sending"
    BY <1>1, TaskAssumption DEF Base, LockOwnership, Contended
  <2> QED
    BY <1>1, <2>1, OutcomeTold
<1>2. CASE Enqueued(t, o, s)
  <2>1. /\ \A u \in Tasks \ {t} : pc'[u] = pc[u] /\ op'[u] = op[u]
        /\ pc'[t] = "waiting" /\ op'[t] = o /\ session' = s
    BY <1>2 DEF Enqueued, Others
  <2>2. \A u \in Tasks : Replying(u)' => Replying(u) /\ op'[u] = op[u]
    BY <2>1 DEF Replying
  <2>3. \A u \in Tasks : Replying(u) => Replying(u)' /\ u # t
    BY <2>1 DEF Replying
  <2>4. SessionMatchesReplies'
    BY <2>1, <2>3 DEF Told, SessionMatchesReplies, Replying
  <2>5. UserInputAfterReadiness'
    BY <2>1 DEF Told, UserInputAfterReadiness
  <2> QED
    BY <2>1, <2>2, <2>4, <2>5 DEF Told
<1> QED
  BY <1>1, <1>2 DEF Arrived

(* The task ends whatever it was doing, and the host is told nothing.      *)
LEMMA DroppedTold ==
    ASSUME Base, Told, NEW t \in Tasks, pc'[t] = "idle", op'[t] = NoOp, Others(t),
           session' = IF Replying(t) THEN op[t].before ELSE session,
           UNCHANGED granted
    PROVE  Told'
<1>1. op'[t].kind # "reply"
  BY DEF NoOp
<1>2. \A u \in Tasks : Replying(u)' => u # t /\ Replying(u) /\ op'[u] = op[u]
  BY <1>1 DEF Replying, Others
<1>3. UserInputAfterReadiness'
  BY <1>1 DEF Others, Told, UserInputAfterReadiness
<1>4. CASE Replying(t)
  <2>1. \A u \in Tasks : ~Replying(u)'
    BY <1>2, <1>4 DEF Replying, Base, LockOwnership
  <2>2. Requested(session') = Requested(granted)
    BY <1>4 DEF Told, Replying
  <2> QED
    BY <1>1, <1>3, <2>1, <2>2 DEF Told, SessionMatchesReplies, Others
<1>5. CASE ~Replying(t)
  <2>1. \A u \in Tasks : Replying(u) => Replying(u)'
    BY <1>5 DEF Replying, Others
  <2>2. SessionMatchesReplies'
    BY <1>5, <2>1 DEF Told, SessionMatchesReplies, Replying
  <2> QED
    BY <1>1, <1>2, <1>3, <1>5, <2>2 DEF Told, Others
<1> QED
  BY <1>4, <1>5

LEMMA ToldStep == OneRequest /\ Base /\ Told /\ [Next]_vars => Told'
<1> SUFFICES ASSUME OneRequest, Base, Told, [Next]_vars
             PROVE  Told'
  OBVIOUS
<1> TypeOK /\ LockOwnership /\ Roles
  BY DEF Base
<1>t. ReplyTasks \subseteq Tasks /\ InputTasks \subseteq Tasks
  BY DEF Tasks
<1>s. session \in Sessions /\ granted \in Sessions
  BY DEF TypeOK
<1>o. \A u \in Tasks : op[u].kind = "reply" => u \in ReplyTasks
  BY DEF Roles, Suits, NoOp
<1>1. ASSUME NEW t \in ReplyTasks, NEW sub \in Subcommands, Dispatch(t, sub)
      PROVE  Told'
  <2>1. UNCHANGED granted /\ pc[t] = "idle"
    BY <1>1 DEF Dispatch, historyVars
  <2>2. \A u \in Tasks : ~(pc[u] = "sending" /\ op[u].kind = "reply")
    BY <1>o, <2>1 DEF OneRequest
  <2>3. Requested(session) = Requested(granted)
    BY <2>2 DEF Told, SessionMatchesReplies
  <2>4. Requested(Observing(session, sub)) = Requested(session)
    BY <1>s, RequestedOps
  <2>5. /\ Arrived(t, ReplyOp(sub), Observing(session, sub))
        /\ ReplyOp(sub) \in Ops /\ Observing(session, sub) \in Sessions
    BY <1>1, <1>t, Arrivals, ArrivalTypes
  <2>6. Requested(ReplyOp(sub).before) = Requested(granted)
    BY <2>3, <2>4 DEF ReplyOp, NoOp
  <2> QED
    BY <1>t, <2>1, <2>4, <2>5, <2>6, ArrivedTold
<1>2. ASSUME NEW t \in InputTasks, NEW kind \in InputKinds, StartInput(t, kind)
      PROVE  Told'
  <2>1. UNCHANGED granted /\ pc[t] = "idle"
    BY <1>2 DEF StartInput, historyVars
  <2>2. Arrived(t, InputOp(kind), session) /\ InputOp(kind) \in Ops
    BY <1>2, <1>t, Arrivals, ArrivalTypes
  <2>3. InputOp(kind).kind # "reply"
    BY ArrivalSuits, TaskAssumption DEF Suits
  <2> QED
    BY <1>s, <1>t, <2>1, <2>2, <2>3, ArrivedTold
<1>3. ASSUME NEW t \in InputTasks, StartDirect(t)
      PROVE  Told'
  <2>1. UNCHANGED granted /\ pc[t] = "idle"
    BY <1>3 DEF StartDirect, historyVars
  <2>2. Arrived(t, DirectOp, session) /\ DirectOp \in Ops
    BY <1>3, <1>t, Arrivals, ArrivalTypes DEF StartDirect
  <2>3. DirectOp.kind # "reply"
    BY DEF DirectOp, NoOp
  <2> QED
    BY <1>s, <1>t, <2>1, <2>2, <2>3, ArrivedTold
<1>4. CASE Edit
  BY <1>4 DEF Edit, historyVars, Told, SessionMatchesReplies,
              UserInputAfterReadiness, Replying
<1>5. ASSUME NEW t \in Tasks, Wake(t)
      PROVE  Told'
  <2>1. UNCHANGED granted /\ op[t] \in Ops
    BY <1>5 DEF Wake, historyVars, TypeOK
  <2>2. \A u \in Tasks : pc[u] # "sending"
    BY <1>5, TaskAssumption DEF Wake, Woken, LockOwnership
  <2>3. op[t].kind = "reply" => Requested(op[t].before) = Requested(granted)
    BY DEF Told
  <2> QED
    BY <1>5, <1>s, <2>1, <2>2, <2>3, ServedShape, OutcomeTold DEF Served
<1>6. ASSUME NEW t \in InputTasks, EndSleep(t)
      PROVE  Told'
  <2>1. /\ UNCHANGED granted /\ pc[t] = "sleeping" /\ t \in Tasks
        /\ op[t] \in Ops
    BY <1>6, <1>t DEF EndSleep, historyVars, TypeOK
  <2>2. op[t].kind # "reply"
    BY <2>1 DEF Roles
  <2> QED
    BY <1>6, <1>s, <2>1, <2>2, Arrivals, ArrivedTold
<1>7. ASSUME NEW t \in Tasks, Leave(t, lock)
      PROVE  pc'[t] = "idle" /\ op'[t] = NoOp /\ Others(t)
  BY <1>7 DEF Leave, Others, TypeOK
<1>8. ASSUME NEW t \in Tasks, InputAccepted(t)
      PROVE  Told'
  <2>1. Leave(t, lock) /\ UNCHANGED <<session, granted>> /\ ~Replying(t)
    BY <1>8 DEF InputAccepted, Replying
  <2> QED
    BY <1>7, <2>1, DroppedTold
<1>9. ASSUME NEW t \in Tasks, ReplyAccepted(t)
      PROVE  Told'
  <2>1. /\ Replying(t) /\ UNCHANGED session
        /\ op'[t] = NoOp /\ pc'[t] = "idle" /\ Others(t)
        /\ granted' = Transition(granted, op[t].sub)
    BY <1>7, <1>9 DEF ReplyAccepted, Replying
  <2>2. \A u \in Tasks : op'[u].kind # "reply"
    BY <1>o, <2>1 DEF Replying, Others, OneRequest, NoOp
  <2>3. Requested(session') = Requested(granted')
    BY <2>1 DEF Told
  <2> QED
    BY <2>2, <2>3
    DEF Told, SessionMatchesReplies, UserInputAfterReadiness, Replying
<1>10. ASSUME NEW t \in Tasks, SendFails(t)
       PROVE  Told'
  <2>1. /\ Leave(t, lock) /\ UNCHANGED granted
        /\ session' = IF Replying(t) THEN op[t].before ELSE session
    BY <1>10 DEF SendFails, historyVars, Replying
  <2> QED
    BY <1>7, <2>1, DroppedTold
<1>11. ASSUME NEW t \in InputTasks, CancelWaiting(t)
       PROVE  Told'
  <2>1. /\ t \in Tasks /\ pc'[t] = "idle" /\ op'[t] = NoOp /\ Others(t)
        /\ UNCHANGED <<session, granted>> /\ ~Replying(t)
    BY <1>11, <1>t DEF CancelWaiting, historyVars, Replying, Others, TypeOK
  <2> QED
    BY <2>1, DroppedTold
<1>12. CASE Tick
  <2>1. UNCHANGED <<pc, session, granted>>
    BY <1>12 DEF Tick
  <2>3. \A u \in Tasks : op'[u].kind = op[u].kind /\ op'[u].state = op[u].state
    BY <1>12, TickOps
  <2>4. \A u \in Tasks : op'[u].sub = op[u].sub /\ op'[u].before = op[u].before
    BY <1>12, TickOps
  <2> QED
    BY <2>1, <2>3, <2>4
    DEF Told, SessionMatchesReplies, UserInputAfterReadiness, Replying
<1>13. CASE UNCHANGED vars
  BY <1>13 DEF vars, Told, SessionMatchesReplies, UserInputAfterReadiness, Replying
<1> QED
  BY <1>1, <1>2, <1>3, <1>4, <1>5, <1>6, <1>8, <1>9, <1>10, <1>11, <1>12, <1>13
  DEF Next, Exhausted

LEMMA ToldInit == Init => Told
BY DEF Init, Told, SessionMatchesReplies, UserInputAfterReadiness, Replying, NoOp

(* With a host that waits for its answers, the modes the session has are   *)
(* those of the accepted replies unless one is in flight, whatever the     *)
(* transport refuses and the responder rejects.                            *)
THEOREM SessionTold == OneRequest => (Spec => []SessionMatchesReplies)
<1> SUFFICES ASSUME OneRequest PROVE Spec => []SessionMatchesReplies
  OBVIOUS
<1>1. Told => SessionMatchesReplies
  BY DEF Told
<1>2. Base /\ Told /\ [Next]_vars => Told'
  BY ToldStep
<1> QED
  BY BaseInit, BaseStep, ToldInit, <1>1, <1>2, PTL DEF Spec

(* And a reply shows user input only when the host has been told of the    *)
(* report mode and of the player lights.                                   *)
THEOREM InputAfterReadiness == OneRequest => (Spec => []UserInputAfterReadiness)
<1> SUFFICES ASSUME OneRequest PROVE Spec => []UserInputAfterReadiness
  OBVIOUS
<1>1. Told => UserInputAfterReadiness
  BY DEF Told
<1>2. Base /\ Told /\ [Next]_vars => Told'
  BY ToldStep
<1> QED
  BY BaseInit, BaseStep, ToldInit, <1>1, <1>2, PTL DEF Spec

=============================================================================
