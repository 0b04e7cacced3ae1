------------------------------ MODULE TaskPromise ------------------------------
(***************************************************************************)
(* Task<T> (src/include/task.h): the promise of a coroutine that starts in *)
(* its owner's thread, may suspend in co_awaits of AsyncRuntime and goes   *)
(* on in the runtime's thread, while the owner calls Get or awaits the     *)
(* Task in a coroutine of its own, and destroys the Task afterwards.       *)
(*                                                                         *)
(* Each task has an owner thread; all share the one runtime thread.  The   *)
(* runtime is external here: it resumes a suspended coroutine once, at the *)
(* event it waits for (AsyncRuntime models it).                            *)
(***************************************************************************)
EXTENDS Integers, FiniteSets

CONSTANTS
    Tasks,
    NoThread   \* no thread

ASSUME NoThreadAssumption == NoThread \notin {"owner", "runtime"}

VARIABLES
    task_frame,    \* the coroutine frame, with its promise
    runner,        \* the thread that is running the coroutine, or NoThread
    step,          \* where the coroutine is
    mutex,         \* promise.mutex: held by the owner across a step?
    done,          \* promise.done
    continuation,  \* promise.continuation is set
    result,        \* promise.value or promise.exception
    owner,         \* where the owner is
    returned,      \* what Get or await_resume returned
    crashed        \* the process is gone

promiseVars == <<mutex, done, continuation, result>>
runVars == <<task_frame, runner, step>>
ownerVars == <<owner, returned>>
taskVars == <<promiseVars, runVars, ownerVars, crashed>>

Results == {"value", "exception"}

TaskInit ==
    /\ task_frame = [k \in Tasks |-> "none"] /\ runner = [k \in Tasks |-> NoThread]
    /\ step = [k \in Tasks |-> "body"]
    /\ mutex = [k \in Tasks |-> FALSE] /\ done = [k \in Tasks |-> FALSE]
    /\ continuation = [k \in Tasks |-> FALSE] /\ result = [k \in Tasks |-> "none"]
    /\ owner = [k \in Tasks |-> "start"] /\ returned = [k \in Tasks |-> "none"]
    /\ crashed = FALSE

-----------------------------------------------------------------------------
Goto(k, loc) == owner' = [owner EXCEPT ![k] = loc]
Run(k, thread) ==
    /\ task_frame' = [task_frame EXCEPT ![k] = "running"]
    /\ runner' = [runner EXCEPT ![k] = thread]

\* The coroutine stops running in state f, and its thread does something else:
\* in the owner's thread the call that started or resumed it returns.
Leave(k, f) ==
    /\ task_frame' = [task_frame EXCEPT ![k] = f]
    /\ runner' = [runner EXCEPT ![k] = NoThread]
    /\ owner' = IF owner[k] = "in_call" THEN [owner EXCEPT ![k] = "has_task"] ELSE owner

-----------------------------------------------------------------------------
(* The coroutine *)

\* initial_suspend never suspends: the body starts in the owner's call.
Create(k) ==
    /\ owner[k] = "start"
    /\ Run(k, "owner") /\ Goto(k, "in_call")
    /\ UNCHANGED <<promiseVars, step, returned, crashed>>

\* A co_await of the runtime in the body, as often as it likes and in any thread.
SuspendTask(k) ==
    /\ task_frame[k] = "running" /\ step[k] = "body"
    /\ Leave(k, "suspended")
    /\ UNCHANGED <<promiseVars, step, returned, crashed>>

\* The runtime's thread resumes it, when it is not running another coroutine.
RuntimeResume(k) ==
    /\ task_frame[k] = "suspended" /\ \A j \in Tasks : runner[j] # "runtime"
    /\ Run(k, "runtime")
    /\ UNCHANGED <<promiseVars, step, ownerVars, crashed>>

\* return_value or unhandled_exception, then final_suspend.
ReturnResult(k) ==
    /\ task_frame[k] = "running" /\ step[k] = "body"
    /\ \E r \in Results : result' = [result EXCEPT ![k] = r]
    /\ step' = [step EXCEPT ![k] = "final"]
    /\ UNCHANGED <<mutex, done, continuation, task_frame, runner, ownerVars, crashed>>

\* Mutant: done is set without the lock.
FinalDone_Unlocked(k) ==
    /\ step[k] = "final"
    /\ done' = [done EXCEPT ![k] = TRUE]
    /\ step' = [step EXCEPT ![k] = "notify"]
    /\ UNCHANGED <<mutex, continuation, result, task_frame, runner, ownerVars, crashed>>

\* FinalAwaiter::await_suspend: done is set under the lock,
FinalDone(k) ==
    /\ step[k] = "final" /\ ~mutex[k]
    /\ done' = [done EXCEPT ![k] = TRUE]
    /\ step' = [step EXCEPT ![k] = "notify"]
    /\ UNCHANGED <<mutex, continuation, result, task_frame, runner, ownerVars, crashed>>

\* then notify_all,
FinalNotify(k) ==
    /\ step[k] = "notify" /\ task_frame[k] = "running"
    /\ owner' = IF owner[k] = "sleep" THEN [owner EXCEPT ![k] = "get"] ELSE owner
    /\ step' = [step EXCEPT ![k] = "continue"]
    /\ UNCHANGED <<promiseVars, task_frame, runner, returned, crashed>>

\* Mutant: the continuation is not resumed.
FinalContinue_Forgets(k) ==
    /\ step[k] = "continue" /\ task_frame[k] = "running"
    /\ step' = [step EXCEPT ![k] = "end"]
    /\ Leave(k, "final")
    /\ UNCHANGED <<promiseVars, returned, crashed>>

\* then the continuation goes on in this thread, if there is one.
FinalContinue(k) ==
    /\ step[k] = "continue" /\ task_frame[k] = "running"
    /\ step' = [step EXCEPT ![k] = "end"]
    /\ \/ ~continuation[k] /\ Leave(k, "final")
       \/ /\ continuation[k]
          /\ task_frame' = [task_frame EXCEPT ![k] = "final"]
          /\ runner' = [runner EXCEPT ![k] = NoThread]
          /\ Goto(k, "await_resume")
    /\ UNCHANGED <<promiseVars, returned, crashed>>

\* The same on a promise that has been destroyed: it may appear to do nothing,
\* or the process crashes.
FinalFreed(k) ==
    /\ step[k] \in {"notify", "continue"} /\ task_frame[k] = "destroyed"
    /\ step' = [step EXCEPT ![k] = "end"]
    /\ runner' = [runner EXCEPT ![k] = NoThread]
    /\ crashed' \in BOOLEAN
    /\ UNCHANGED <<promiseVars, task_frame, ownerVars>>

-----------------------------------------------------------------------------
(* The owner: Get *)

Get(k) ==
    /\ owner[k] = "has_task"
    /\ Goto(k, "get")
    /\ UNCHANGED <<promiseVars, runVars, returned, crashed>>

GetLock(k) ==
    /\ owner[k] = "get" /\ ~mutex[k]
    /\ mutex' = [mutex EXCEPT ![k] = TRUE]
    /\ Goto(k, "check")
    /\ UNCHANGED <<done, continuation, result, runVars, returned, crashed>>

\* The predicate of cv.wait holds: the result is moved out of the promise.
GetDone(k) ==
    /\ owner[k] = "check" /\ done[k]
    /\ mutex' = [mutex EXCEPT ![k] = FALSE]
    /\ returned' = [returned EXCEPT ![k] = result[k]]
    /\ Goto(k, "got")
    /\ UNCHANGED <<done, continuation, result, runVars, crashed>>

\* It does not: cv.wait goes to sleep, and unlocks as it does.
GetNotDone(k) ==
    /\ owner[k] = "check" /\ ~done[k]
    /\ Goto(k, "falling_asleep")
    /\ UNCHANGED <<promiseVars, runVars, returned, crashed>>
GetSleep(k) ==
    /\ owner[k] = "falling_asleep"
    /\ mutex' = [mutex EXCEPT ![k] = FALSE]
    /\ Goto(k, "sleep")
    /\ UNCHANGED <<done, continuation, result, runVars, returned, crashed>>

\* cv.wait may wake up for no reason; it tests the predicate again.
GetSpuriousWakeup(k) ==
    /\ owner[k] = "sleep"
    /\ Goto(k, "get")
    /\ UNCHANGED <<promiseVars, runVars, returned, crashed>>

-----------------------------------------------------------------------------
(* The owner: co_await *)

\* Mutant: every task is taken for ready.
AwaitReady_Always(k) ==
    /\ owner[k] = "has_task"
    /\ Goto(k, "await_resume")
    /\ UNCHANGED <<promiseVars, runVars, returned, crashed>>

\* await_ready reads done without the lock.
AwaitReady(k) ==
    /\ owner[k] = "has_task"
    /\ Goto(k, IF done[k] THEN "await_resume" ELSE "await_suspend")
    /\ UNCHANGED <<promiseVars, runVars, returned, crashed>>

\* await_suspend writes the continuation and returns the task's handle, which
\* resumes the task's coroutine in this thread.
AwaitSuspend(k) ==
    /\ owner[k] = "await_suspend" /\ task_frame[k] = "suspended"
    /\ continuation' = [continuation EXCEPT ![k] = TRUE]
    /\ Run(k, "owner") /\ Goto(k, "awaiting")
    /\ UNCHANGED <<mutex, done, result, step, returned, crashed>>

\* The same when the coroutine is running in the runtime's thread or has ended
\* since: resuming it is undefined, and ends the process or goes wrong later.
AwaitSuspendUndefined(k) ==
    /\ owner[k] = "await_suspend" /\ task_frame[k] \in {"running", "final"}
    /\ crashed' = TRUE
    /\ UNCHANGED <<promiseVars, runVars, ownerVars>>

AwaitResume(k) ==
    /\ owner[k] = "await_resume"
    /\ returned' = [returned EXCEPT ![k] = result[k]]
    /\ Goto(k, "got")
    /\ UNCHANGED <<promiseVars, runVars, crashed>>

\* ~Task, or ~Awaiter of an rvalue co_await: the frame is destroyed.
Destroy(k) ==
    /\ owner[k] = "got"
    /\ task_frame' = [task_frame EXCEPT ![k] = "destroyed"]
    /\ Goto(k, "end")
    /\ UNCHANGED <<promiseVars, runner, step, returned, crashed>>

-----------------------------------------------------------------------------
Coroutine(k) ==
    \/ SuspendTask(k) \/ RuntimeResume(k) \/ ReturnResult(k)
    \/ FinalDone(k) \/ FinalNotify(k) \/ FinalContinue(k) \/ FinalFreed(k)
Owner(k) ==
    \/ Create(k) \/ Destroy(k)
    \/ Get(k) \/ GetLock(k) \/ GetDone(k) \/ GetNotDone(k) \/ GetSleep(k)
    \/ AwaitReady(k) \/ AwaitSuspend(k) \/ AwaitSuspendUndefined(k) \/ AwaitResume(k)

Over == (crashed \/ \A k \in Tasks : owner[k] = "end" /\ step[k] = "end") /\ UNCHANGED taskVars

TaskNext ==
    \/ ~crashed /\ \E k \in Tasks : Coroutine(k) \/ Owner(k) \/ GetSpuriousWakeup(k)
    \/ Over

\* Threads run, the runtime resumes every suspended coroutine in the end, and the
\* body does not wait for ever: each wait moves it on or times out.
TaskFairness == \A k \in Tasks :
    /\ WF_taskVars(~crashed /\ Coroutine(k)) /\ WF_taskVars(~crashed /\ Owner(k))
    /\ SF_taskVars(~crashed /\ RuntimeResume(k)) /\ SF_taskVars(~crashed /\ ReturnResult(k))
    /\ SF_taskVars(~crashed /\ FinalDone(k))

TaskSpec == TaskInit /\ [][TaskNext]_taskVars
TaskFairSpec == TaskSpec /\ TaskFairness

-----------------------------------------------------------------------------
(* Properties *)

\* Every variable stays in its type.
TaskTypeOK ==
    /\ task_frame \in [Tasks -> {"none", "running", "suspended", "final", "destroyed"}]
    /\ runner \in [Tasks -> {"owner", "runtime", NoThread}]
    /\ step \in [Tasks -> {"body", "final", "notify", "continue", "end"}]
    /\ mutex \in [Tasks -> BOOLEAN] /\ done \in [Tasks -> BOOLEAN]
    /\ continuation \in [Tasks -> BOOLEAN]
    /\ result \in [Tasks -> Results \cup {"none"}]
    /\ returned \in [Tasks -> Results \cup {"none"}]
    /\ owner \in [Tasks -> {"start", "in_call", "has_task", "get", "check", "falling_asleep",
                            "sleep", "await_suspend", "awaiting", "await_resume", "got", "end"}]
    /\ crashed \in BOOLEAN

\* Whichever thread ends the coroutine, and whether the owner sleeps in Get or
\* has become its continuation: a coroutine that has ended leaves nobody waiting.
NobodyLeftWaiting ==
    \A k \in Tasks :
        task_frame[k] = "final" => owner[k] \notin {"falling_asleep", "sleep", "awaiting"}

\* Get and co_await return the result the body produced, never an empty one.
ResultDelivered == \A k \in Tasks : owner[k] \in {"got", "end"} => returned[k] \in Results

\* Get and co_await return, also when the coroutine ends in another thread.
OwnerGoesOn ==
    \A k \in Tasks : owner[k] = "has_task" ~> owner[k] = "end" \/ crashed
=============================================================================
