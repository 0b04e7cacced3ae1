---------------------------- MODULE Coroutines_proof ----------------------------
(* Proofs of the safety properties of the coroutine layer: of AsyncRuntime,  *)
(* for any number of waits and descriptors, and of TaskPromise, for any set  *)
(* of tasks.                                                                 *)
EXTENDS AsyncRuntime, TaskPromise, FiniteSetTheorems, TLAPS

\* The runtime thread is in ResumeReady, for the wait `current'.
Resuming == pc \in {"check", "complete", "resume"}
Current == IF Resuming THEN {current} ELSE {}

\* The runtime's places have no wait in common.
Disjoint ==
    /\ pending \cap pending_items = {} /\ pending \cap registrations = {}
    /\ pending \cap expired = {} /\ pending \cap Current = {}
    /\ pending_items \cap registrations = {} /\ pending_items \cap expired = {}
    /\ pending_items \cap Current = {} /\ registrations \cap expired = {}
    /\ registrations \cap Current = {} /\ expired \cap Current = {}

Kept == pending \cup pending_items \cup registrations \cup expired \cup Current

\* What a place keeps has suspended and not been resumed, and what is suspended is kept.
\* A wait is cancelled only when its coroutine has gone on or is gone.
FramesOK ==
    /\ \A w \in Kept : frame[w] \in {"suspended", "destroyed"}
    /\ \A w \in Waits : frame[w] = "suspended" => w \in Kept
    /\ \A w \in Waits : frame[w] \in {"new", "suspended"} => w \notin cancelled
    /\ \A w \in Waits : canceller[w] # "none" => frame[w] = "destroyed"
    /\ \A w \in Waits : frame[w] # "new" => fd[w] \in Fds

\* The local vectors are empty where the thread fills them again: a vector holds waits
\* only in its own loop, and while ResumeReady runs on behalf of that loop.
LocalsOK ==
    /\ Resuming => current \in Waits
    /\ pending_items # {} => pc \in {"register", "crashed"} \/ (Resuming /\ resume_ret = "register")
    /\ expired # {} => pc \in {"expire", "crashed"} \/ (Resuming /\ resume_ret = "expire")

Inv == TypeOK /\ Disjoint /\ FramesOK /\ LocalsOK

\* Before the first co_await the runtime keeps nothing.
LEMMA InitInv == Init => Inv
<1> SUFFICES ASSUME Init PROVE Inv
  OBVIOUS
<1> USE DEF Init
<1>1. TypeOK
  BY DEF TypeOK
<1>2. Disjoint /\ FramesOK /\ LocalsOK
  BY DEF Disjoint, FramesOK, LocalsOK, Kept, Current, Resuming
<1> QED BY <1>1, <1>2 DEF Inv

\* The steps of the runtime thread keep the types.
LEMMA RuntimeType ==
    ASSUME TypeOK, LocalsOK, RuntimeStep
    PROVE  TypeOK'
<1> USE DEF TypeOK, stateVars, queueVars, envVars, localVars, resumeVars, coroVars
<1>1. CASE LoopTop
  BY <1>1 DEF LoopTop
<1>2. CASE TakePending
  BY <1>2 DEF TakePending
<1>3. CASE RegisterDone
  BY <1>3 DEF RegisterDone
<1>4. CASE EpollWait
  BY <1>4 DEF EpollWait
<1>5. CASE DispatchWake
  BY <1>5 DEF DispatchWake
<1>6. CASE Expire
  BY <1>6 DEF Expire
<1>7. CASE ExpireDone
  BY <1>7 DEF ExpireDone
<1>8. CASE CheckCancelled
  BY <1>8 DEF CheckCancelled, ResumeReturns, LocalsOK, Resuming
<1>9. CASE Complete
  BY <1>9 DEF Complete, LocalsOK, Resuming
<1>10. CASE Resume
  BY <1>10 DEF Resume, ResumeReturns, LocalsOK, Resuming
<1>11. CASE ResumeFreed
  BY <1>11 DEF ResumeFreed, ResumeReturns
<1>12. ASSUME NEW w \in Waits, Register(w) PROVE TypeOK'
  BY <1>12 DEF Register
<1>13. ASSUME NEW w \in Waits, RegisterFails(w) PROVE TypeOK'
  BY <1>13 DEF RegisterFails, ResumeReady
<1>14. ASSUME NEW w \in Waits, DispatchToken(w) PROVE TypeOK'
  BY <1>14 DEF DispatchToken, ResumeReady
<1>15. ASSUME NEW w \in Waits, ExpireOne(w) PROVE TypeOK'
  BY <1>15 DEF ExpireOne, ResumeReady
<1> QED BY <1>1, <1>2, <1>3, <1>4, <1>5, <1>6, <1>7, <1>8, <1>9, <1>10, <1>11, <1>12, <1>13,
           <1>14, <1>15 DEF RuntimeStep

\* So do those of the threads that suspend, destroy and cancel, and of the environment.
LEMMA OthersType ==
    ASSUME TypeOK, (\E w \in Waits : CancelStep(w)) \/ Environment
    PROVE  TypeOK'
<1> USE DEF TypeOK, stateVars, queueVars, envVars, localVars, resumeVars, coroVars
<1>1. ASSUME NEW w \in Waits, CheckToken(w) \/ CancelPending(w) PROVE TypeOK'
  BY <1>1 DEF CheckToken, CancelPending
<1>2. ASSUME NEW w \in Waits, CancelRegistration(w) PROVE TypeOK'
  BY <1>2 DEF CancelRegistration
<1>3. ASSUME NEW w \in Waits, Suspend(w) PROVE TypeOK'
  BY <1>3 DEF Suspend
<1>4. ASSUME NEW w \in Waits, DestroyFrame(w) \/ DeadlinePasses(w) PROVE TypeOK'
  BY <1>4 DEF DestroyFrame, DeadlinePasses
<1>5. ASSUME NEW f \in Fds, FdChanges(f) PROVE TypeOK'
  BY <1>5 DEF FdChanges
<1>6. CASE EpollWaitFails \/ Shutdown
  BY <1>6 DEF EpollWaitFails, Shutdown
<1> QED BY <1>1, <1>2, <1>3, <1>4, <1>5, <1>6 DEF CancelStep, Environment

\* The steps of the runtime thread move a wait from one place to the next, or out of the
\* last when its coroutine goes on or is gone.
LEMMA RuntimePlaces ==
    ASSUME Inv, RuntimeStep
    PROVE  (Disjoint /\ FramesOK /\ LocalsOK)'
<1> USE DEF Inv, TypeOK, Disjoint, FramesOK, LocalsOK, Kept, Current, Resuming,
            stateVars, queueVars, envVars, localVars, resumeVars, coroVars
<1>1. CASE LoopTop
  BY <1>1 DEF LoopTop
<1>2. CASE TakePending
  BY <1>2 DEF TakePending
<1>3. CASE RegisterDone
  BY <1>3 DEF RegisterDone
<1>4. CASE EpollWait
  BY <1>4 DEF EpollWait
<1>5. CASE DispatchWake
  BY <1>5 DEF DispatchWake
<1>6. CASE Expire
  BY <1>6 DEF Expire
<1>7. CASE ExpireDone
  BY <1>7 DEF ExpireDone
<1>8. CASE CheckCancelled
  BY <1>8 DEF CheckCancelled, ResumeReturns
<1>9. CASE Complete
  BY <1>9 DEF Complete
<1>10. CASE Resume
  BY <1>10 DEF Resume, ResumeReturns
<1>11. CASE ResumeFreed
  BY <1>11 DEF ResumeFreed, ResumeReturns
<1>12. ASSUME NEW w \in Waits, Register(w) PROVE (Disjoint /\ FramesOK /\ LocalsOK)'
  BY <1>12 DEF Register
<1>13. ASSUME NEW w \in Waits, RegisterFails(w) PROVE (Disjoint /\ FramesOK /\ LocalsOK)'
  BY <1>13 DEF RegisterFails, ResumeReady
<1>14. ASSUME NEW w \in Waits, DispatchToken(w) PROVE (Disjoint /\ FramesOK /\ LocalsOK)'
  BY <1>14 DEF DispatchToken, ResumeReady
<1>15. ASSUME NEW w \in Waits, ExpireOne(w) PROVE (Disjoint /\ FramesOK /\ LocalsOK)'
  BY <1>15 DEF ExpireOne, ResumeReady
<1> QED BY <1>1, <1>2, <1>3, <1>4, <1>5, <1>6, <1>7, <1>8, <1>9, <1>10, <1>11, <1>12, <1>13,
           <1>14, <1>15 DEF RuntimeStep

\* So do the steps of the other threads: a cancel takes out only what is destroyed.
LEMMA OthersPlaces ==
    ASSUME Inv, (\E w \in Waits : CancelStep(w)) \/ Environment
    PROVE  (Disjoint /\ FramesOK /\ LocalsOK)'
<1> USE DEF Inv, TypeOK, Disjoint, FramesOK, LocalsOK, Kept, Current, Resuming,
            stateVars, queueVars, envVars, localVars, resumeVars, coroVars
<1>1. ASSUME NEW w \in Waits, CheckToken(w) PROVE (Disjoint /\ FramesOK /\ LocalsOK)'
  BY <1>1 DEF CheckToken
<1>2. ASSUME NEW w \in Waits, CancelPending(w) PROVE (Disjoint /\ FramesOK /\ LocalsOK)'
  BY <1>2 DEF CancelPending
<1>3. ASSUME NEW w \in Waits, CancelRegistration(w) PROVE (Disjoint /\ FramesOK /\ LocalsOK)'
  BY <1>3 DEF CancelRegistration
<1>4. ASSUME NEW w \in Waits, Suspend(w) PROVE (Disjoint /\ FramesOK /\ LocalsOK)'
  BY <1>4 DEF Suspend
<1>5. ASSUME NEW w \in Waits, DestroyFrame(w) PROVE (Disjoint /\ FramesOK /\ LocalsOK)'
  BY <1>5 DEF DestroyFrame
<1>6. ASSUME NEW w \in Waits, DeadlinePasses(w) PROVE (Disjoint /\ FramesOK /\ LocalsOK)'
  BY <1>6 DEF DeadlinePasses
<1>7. ASSUME NEW f \in Fds, FdChanges(f) PROVE (Disjoint /\ FramesOK /\ LocalsOK)'
  BY <1>7 DEF FdChanges
<1>8. CASE EpollWaitFails \/ Shutdown
  BY <1>8 DEF EpollWaitFails, Shutdown
<1> QED BY <1>1, <1>2, <1>3, <1>4, <1>5, <1>6, <1>7, <1>8 DEF CancelStep, Environment

\* Every step keeps the invariant.
LEMMA NextInv == Inv /\ [Next]_vars => Inv'
<1> SUFFICES ASSUME Inv, [Next]_vars PROVE Inv'
  OBVIOUS
<1>1. CASE RuntimeStep
  BY <1>1, RuntimeType, RuntimePlaces DEF Inv
<1>2. CASE (\E w \in Waits : CancelStep(w)) \/ Environment
  BY <1>2, OthersType, OthersPlaces DEF Inv
<1>3. CASE UNCHANGED vars
  <2> USE <1>3 DEF vars, stateVars, queueVars, envVars, localVars, resumeVars, coroVars, Inv
  <2>1. TypeOK'
    BY DEF TypeOK
  <2>2. Disjoint' /\ LocalsOK'
    BY DEF Disjoint, LocalsOK, Current, Resuming
  <2>3. FramesOK'
    BY DEF FramesOK, Kept, Current, Resuming
  <2> QED BY <2>1, <2>2, <2>3
<1> QED BY <1>1, <1>2, <1>3 DEF Next

\* The inductive invariant holds in every reachable state.
THEOREM Invariance == Spec => []Inv
BY InitInv, NextInv, PTL DEF Spec

\* Which places Places names.
LEMMA PlacesMembers ==
    ASSUME NEW w
    PROVE  /\ "pending" \in Places(w) <=> w \in pending
           /\ "items" \in Places(w) <=> w \in pending_items
           /\ "registrations" \in Places(w) <=> w \in registrations
           /\ "expired" \in Places(w) <=> w \in expired
           /\ "current" \in Places(w) <=> w \in Current
           /\ Places(w) \subseteq {"pending", "items", "registrations", "expired", "current"}
BY DEF Places, Current, Resuming

\* A suspended coroutine is in exactly one place of the runtime at every moment, whatever
\* its thread, the runtime thread and the threads that destroy coroutines do: it is
\* neither lost nor resumed twice.
THEOREM EachInOnePlace == Spec => []InOnePlace
<1>1. Inv => InOnePlace
  <2> SUFFICES ASSUME Inv, NEW w \in Waits
               PROVE  /\ frame[w] = "suspended" => Cardinality(Places(w)) = 1
                      /\ frame[w] \in {"new", "resumed"} => Places(w) = {}
                      /\ Cardinality(Places(w)) <= 1
    BY DEF InOnePlace
  <2>1. CASE w \in Kept
    <3>1. \E p : Places(w) = {p}
      <4> USE PlacesMembers DEF Inv, Disjoint
      <4>1. ASSUME w \in pending PROVE Places(w) = {"pending"}
        BY <4>1
      <4>2. ASSUME w \in pending_items PROVE Places(w) = {"items"}
        BY <4>2
      <4>3. ASSUME w \in registrations PROVE Places(w) = {"registrations"}
        BY <4>3
      <4>4. ASSUME w \in expired PROVE Places(w) = {"expired"}
        BY <4>4
      <4>5. ASSUME w \in Current PROVE Places(w) = {"current"}
        BY <4>5
      <4> QED BY <2>1, <4>1, <4>2, <4>3, <4>4, <4>5 DEF Kept
    <3>2. Cardinality(Places(w)) = 1
      BY <3>1, FS_Singleton
    <3>3. frame[w] \in {"suspended", "destroyed"}
      BY <2>1 DEF Inv, FramesOK
    <3> QED BY <3>2, <3>3
  <2>2. CASE w \notin Kept
    <3>1. Places(w) = {}
      BY <2>2, PlacesMembers DEF Kept
    <3>2. Cardinality(Places(w)) = 0
      BY <3>1, FS_EmptySet
    <3>3. frame[w] # "suspended"
      BY <2>2 DEF Inv, FramesOK
    <3> QED BY <3>1, <3>2, <3>3
  <2> QED BY <2>1, <2>2
<1> QED BY <1>1, Invariance, PTL

\* A wait is silenced in epoll before its event only by another wait that is in the
\* runtime for the same descriptor at that moment.
THEOREM RegistrationsStayArmed == Spec => StaysArmed
<1>1. ASSUME Inv, [Next]_vars
      PROVE  [\A w \in registrations \cap registrations' :
                armed[fd[w]] = w =>
                  \/ armed'[fd[w]] = w \/ w \in events'
                  \/ \E v \in Waits \ {w} : fd[v] = fd[w] /\ Places(v) # {}]_vars
  <2> SUFFICES ASSUME Next, NEW w \in registrations, w \in registrations', armed[fd[w]] = w
               PROVE  \/ armed'[fd[w]] = w \/ w \in events'
                      \/ \E v \in Waits \ {w} : fd[v] = fd[w] /\ Places(v) # {}
    BY <1>1
  <2>0. /\ TypeOK /\ w \in Waits /\ fd[w] \in Fds
        /\ armed \in [Fds -> Waits \cup {None}]
    BY <1>1 DEF Inv, TypeOK, FramesOK, Kept
  <2>1. ASSUME NEW v \in Waits, Register(v)
        PROVE  armed'[fd[w]] = w \/ (v # w /\ fd[v] = fd[w] /\ Places(v) # {})
    BY <2>0, <2>1, PlacesMembers DEF Register
  <2>2. ASSUME NEW v \in Waits, CancelRegistration(v) \/ DispatchToken(v)
        PROVE  armed'[fd[w]] = w \/ (v # w /\ fd[v] = fd[w] /\ Places(v) # {})
    BY <2>0, <2>2, PlacesMembers DEF CancelRegistration, DispatchToken
  <2>3. CASE EpollWait
    BY <2>0, <2>3 DEF EpollWait
  <2>4. CASE Expire
    <3>1. CASE \E v \in registrations \cap due : fd[v] = fd[w]
      <4>1. PICK v \in registrations \cap due : fd[v] = fd[w]
        BY <3>1
      <4>2. v \in Waits /\ v # w /\ Places(v) # {}
        BY <2>0, <2>4, <4>1, PlacesMembers DEF Expire, TypeOK
      <4> QED BY <4>1, <4>2
    <3>2. CASE ~\E v \in registrations \cap due : fd[v] = fd[w]
      BY <2>0, <2>4, <3>2 DEF Expire
    <3> QED BY <3>1, <3>2
  <2>5. CASE UNCHANGED armed
    BY <2>5
  <2>6. \/ \E v \in Waits : Register(v) \/ CancelRegistration(v) \/ DispatchToken(v)
        \/ EpollWait \/ Expire \/ UNCHANGED armed
    <3> USE DEF queueVars
    <3>1. ASSUME RuntimeStep
          PROVE  \/ \E v \in Waits : Register(v) \/ DispatchToken(v)
                 \/ EpollWait \/ Expire \/ UNCHANGED armed
      BY <3>1 DEF RuntimeStep, LoopTop, TakePending, RegisterDone, DispatchWake, ExpireDone,
           CheckCancelled, Complete, Resume, ResumeFreed, RegisterFails, ExpireOne
    <3> QED BY <3>1 DEF Next, CancelStep, Environment, CheckToken, CancelPending,
           Suspend, DestroyFrame, DeadlinePasses, FdChanges, EpollWaitFails, Shutdown
  <2> QED BY <2>1, <2>2, <2>3, <2>4, <2>5, <2>6
<1> QED BY <1>1, Invariance, PTL DEF Spec, StaysArmed

-----------------------------------------------------------------------------
(* The promise of a Task *)

Past == {"notify", "continue", "end"}   \* FinalAwaiter has set done

\* The promise of one task: done says how far the coroutine has got, the result is
\* there by then, and the mutex is the owner's between GetLock and GetSleep.
PromiseOK(k) ==
    /\ done[k] <=> step[k] \in Past
    /\ step[k] \in Past \cup {"final"} => result[k] \in Results
    /\ mutex[k] <=> owner[k] \in {"check", "falling_asleep"}

\* The frame of one task: it ends when the last step is done, and is destroyed by
\* its owner alone.
FrameOK(k) ==
    /\ owner[k] = "start" => step[k] = "body" /\ task_frame[k] = "none"
    /\ step[k] = "end" => task_frame[k] \in {"final", "destroyed"}
    /\ task_frame[k] = "final" => step[k] = "end"
    /\ task_frame[k] = "destroyed" <=> owner[k] = "end"

\* The owner of one task: one that falls asleep holds the mutex, so done is still
\* to come; one that sleeps has its notification to come; one that awaits is the
\* continuation; one that goes on has a result.
OwnerOK(k) ==
    /\ owner[k] = "falling_asleep" => ~done[k]
    /\ owner[k] = "sleep" => step[k] \notin {"continue", "end"}
    /\ owner[k] = "awaiting" => continuation[k] /\ step[k] # "end"
    /\ continuation[k] => owner[k] \in {"awaiting", "await_resume", "got", "end"}
    /\ owner[k] = "await_resume" => done[k]
    /\ owner[k] \in {"got", "end"} => returned[k] \in Results

TaskInv == TaskTypeOK /\ \A k \in Tasks : PromiseOK(k) /\ FrameOK(k) /\ OwnerOK(k)

\* Before a task is created its promise is empty.
LEMMA TaskInitInv == TaskInit => TaskInv
<1> SUFFICES ASSUME TaskInit PROVE TaskInv
  OBVIOUS
<1>1. TaskTypeOK
  BY DEF TaskInit, TaskTypeOK, Results
<1>2. ASSUME NEW k \in Tasks PROVE PromiseOK(k) /\ FrameOK(k) /\ OwnerOK(k)
  BY DEF TaskInit, PromiseOK, FrameOK, OwnerOK, Past, Results
<1> QED BY <1>1, <1>2 DEF TaskInv

\* Every step of coroutine, owner and runtime keeps the types.
LEMMA TaskTypeStep == TaskTypeOK /\ [TaskNext]_taskVars => TaskTypeOK'
<1> SUFFICES ASSUME TaskTypeOK, [TaskNext]_taskVars PROVE TaskTypeOK'
  OBVIOUS
<1> USE DEF TaskTypeOK, Results, Goto, Run, Leave, promiseVars,
            runVars, ownerVars
<1>1. ASSUME NEW k \in Tasks, SuspendTask(k) \/ RuntimeResume(k) \/ ReturnResult(k)
      PROVE  TaskTypeOK'
  BY <1>1 DEF SuspendTask, RuntimeResume, ReturnResult
<1>2. ASSUME NEW k \in Tasks, FinalDone(k) \/ FinalNotify(k) PROVE TaskTypeOK'
  BY <1>2 DEF FinalDone, FinalNotify
<1>3. ASSUME NEW k \in Tasks, FinalContinue(k) \/ FinalFreed(k) PROVE TaskTypeOK'
  BY <1>3 DEF FinalContinue, FinalFreed
<1>4. ASSUME NEW k \in Tasks, Create(k) \/ Destroy(k) PROVE TaskTypeOK'
  BY <1>4 DEF Create, Destroy
<1>5. ASSUME NEW k \in Tasks, Get(k) \/ GetLock(k) \/ GetDone(k) PROVE TaskTypeOK'
  BY <1>5 DEF Get, GetLock, GetDone
<1>6. ASSUME NEW k \in Tasks, GetNotDone(k) \/ GetSleep(k) \/ GetSpuriousWakeup(k)
      PROVE  TaskTypeOK'
  BY <1>6 DEF GetNotDone, GetSleep, GetSpuriousWakeup
<1>7. ASSUME NEW k \in Tasks, AwaitReady(k) \/ AwaitResume(k) PROVE TaskTypeOK'
  BY <1>7 DEF AwaitReady, AwaitResume
<1>8. ASSUME NEW k \in Tasks, AwaitSuspend(k) \/ AwaitSuspendUndefined(k)
      PROVE  TaskTypeOK'
  BY <1>8 DEF AwaitSuspend, AwaitSuspendUndefined
<1>9. CASE UNCHANGED taskVars
  BY <1>9 DEF taskVars
<1> QED BY <1>1, <1>2, <1>3, <1>4, <1>5, <1>6, <1>7, <1>8, <1>9 DEF TaskNext, Over,
                                                                    Coroutine, Owner

\* Every step of one task keeps its promise, frame and owner consistent, and does
\* not touch those of another.
LEMMA TaskStep ==
    ASSUME TaskInv, NEW k \in Tasks, Coroutine(k) \/ Owner(k) \/ GetSpuriousWakeup(k)
    PROVE  \A j \in Tasks : (PromiseOK(j) /\ FrameOK(j) /\ OwnerOK(j))'
<1> SUFFICES ASSUME NEW j \in Tasks PROVE (PromiseOK(j) /\ FrameOK(j) /\ OwnerOK(j))'
  OBVIOUS
<1>0. TaskTypeOK /\ PromiseOK(j) /\ FrameOK(j) /\ OwnerOK(j)
  BY DEF TaskInv
<1> USE <1>0 DEF TaskTypeOK, PromiseOK, FrameOK, OwnerOK, Past, Results, Goto,
                 Run, Leave,
                 promiseVars, runVars, ownerVars
<1>1. CASE SuspendTask(k)
  BY <1>1 DEF SuspendTask
<1>2. CASE RuntimeResume(k)
  BY <1>2 DEF RuntimeResume
<1>3. CASE ReturnResult(k)
  BY <1>3 DEF ReturnResult
<1>4. CASE FinalDone(k)
  BY <1>4 DEF FinalDone
<1>5. CASE FinalNotify(k)
  BY <1>5 DEF FinalNotify
<1>6. CASE FinalContinue(k)
  <2>1. CASE continuation[k]
    BY <1>6, <2>1 DEF FinalContinue
  <2>2. CASE ~continuation[k]
    BY <1>6, <2>2 DEF FinalContinue
  <2> QED BY <2>1, <2>2
<1>7. CASE FinalFreed(k)
  BY <1>7 DEF FinalFreed
<1>8. CASE Create(k)
  BY <1>8 DEF Create
<1>9. CASE Destroy(k)
  BY <1>9 DEF Destroy
<1>10. CASE Get(k) \/ GetLock(k) \/ GetDone(k) \/ GetSpuriousWakeup(k)
  BY <1>10 DEF Get, GetLock, GetDone, GetSpuriousWakeup
<1>11. CASE GetNotDone(k) \/ GetSleep(k)
  BY <1>11 DEF GetNotDone, GetSleep
<1>12. CASE AwaitReady(k) \/ AwaitResume(k)
  BY <1>12 DEF AwaitReady, AwaitResume
<1>13. CASE AwaitSuspend(k) \/ AwaitSuspendUndefined(k)
  BY <1>13 DEF AwaitSuspend, AwaitSuspendUndefined
<1> QED BY <1>1, <1>2, <1>3, <1>4, <1>5, <1>6, <1>7, <1>8, <1>9, <1>10, <1>11, <1>12, <1>13
           DEF Coroutine, Owner

\* The invariant holds in every reachable state, whatever threads the tasks end in.
THEOREM TaskInvariance == TaskSpec => []TaskInv
<1>1. TaskInv /\ [TaskNext]_taskVars => TaskInv'
  <2> SUFFICES ASSUME TaskInv, [TaskNext]_taskVars PROVE TaskInv'
    OBVIOUS
  <2>1. TaskTypeOK'
    BY TaskTypeStep DEF TaskInv
  <2>2. CASE UNCHANGED taskVars
    BY <2>1, <2>2 DEF TaskInv, taskVars, promiseVars, runVars, ownerVars,
                      PromiseOK, FrameOK, OwnerOK
  <2>3. ASSUME NEW k \in Tasks, Coroutine(k) \/ Owner(k) \/ GetSpuriousWakeup(k)
        PROVE  TaskInv'
    BY <2>1, <2>3, TaskStep DEF TaskInv
  <2> QED BY <2>2, <2>3 DEF TaskNext, Over
<1> QED BY TaskInitInv, <1>1, PTL DEF TaskSpec

\* Every variable of the promise, the coroutine and the owner stays in its type.
THEOREM TaskTypes == TaskSpec => []TaskTypeOK
<1>1. TaskInv => TaskTypeOK
  BY DEF TaskInv
<1> QED BY <1>1, TaskInvariance, PTL

\* Whichever thread ends a coroutine, and however that falls between the steps of Get
\* or co_await, nobody sleeps on or waits for a coroutine that has ended.
THEOREM NobodySleepsThroughTheEnd == TaskSpec => []NobodyLeftWaiting
<1>1. TaskInv => NobodyLeftWaiting
  BY DEF TaskInv, NobodyLeftWaiting, PromiseOK, FrameOK, OwnerOK, Past
<1> QED BY <1>1, TaskInvariance, PTL

\* Get and co_await return what the body has produced.
THEOREM ResultsAreDelivered == TaskSpec => []ResultDelivered
<1>1. TaskInv => ResultDelivered
  BY DEF TaskInv, ResultDelivered, OwnerOK
<1> QED BY <1>1, TaskInvariance, PTL
=============================================================================
