------------------------------ MODULE AsyncRuntime ------------------------------
(***************************************************************************)
(* AsyncRuntime (src/async_runtime.cc): one thread waits with epoll on     *)
(* behalf of suspended coroutines and resumes each when its descriptor is  *)
(* ready or its deadline has passed.  Coroutines suspend in any thread,    *)
(* and any thread may destroy one that is suspended (~Task), which runs    *)
(* ~FdAwaiter and Cancel there.                                            *)
(*                                                                         *)
(* A wait is one co_await of an FdAwaiter: its WaitState, WaitRegistration *)
(* and token have the same life, so a wait stands for all three.  Sets     *)
(* replace the vectors pending_, pending_items and expired: a step may     *)
(* take their members in any order.                                        *)
(***************************************************************************)
EXTENDS Integers, FiniteSets

CONSTANTS
    Waits,       \* the co_await expressions of one behaviour
    Fds,         \* file descriptors
    Wake,        \* token 0, the eventfd
    None

ASSUME NamesAssumption == Wake \notin Waits /\ None \notin Waits \cup Fds \cup {Wake}

VARIABLES
    frame,          \* the coroutine of each wait
    fd,             \* WaitRegistration::fd
    due,            \* the waits whose deadline has passed
    token,          \* the waits whose WaitState::token is not 0
    completed,      \* the waits with WaitState::completed
    cancelled,      \* the waits with WaitState::cancelled
    timed_out,      \* the waits with WaitState::timed_out
    pending,        \* pending_
    registrations,  \* registrations_
    armed,          \* descriptor -> the wait epoll reports for it, None if disabled
    ready,          \* descriptors that are readable or writable
    wake,           \* the eventfd is readable
    running,        \* running_
    pc,             \* where the runtime thread is
    register_ret,   \* where RegisterPending returns to
    resume_ret,     \* where ResumeReady returns to
    pending_items,  \* RegisterPending's local vector
    events,         \* tokens epoll_wait has reported, not handled yet
    expired,        \* ExpireTimedOut's local vector
    current,        \* ResumeReady's registration
    reason,         \* ResumeReady's timed_out argument
    canceller       \* where ~FdAwaiter is, for a coroutine being destroyed

stateVars == <<token, completed, cancelled, timed_out>>
queueVars == <<pending, registrations, armed>>
envVars == <<due, ready, wake, running>>
localVars == <<register_ret, pending_items, events, expired>>
resumeVars == <<resume_ret, current, reason>>
coroVars == <<frame, canceller>>
vars == <<stateVars, fd, queueVars, envVars, pc, localVars, resumeVars, coroVars>>

Init ==
    /\ frame = [w \in Waits |-> "new"] /\ canceller = [w \in Waits |-> "none"]
    /\ fd = [w \in Waits |-> None]
    /\ token = {} /\ completed = {} /\ cancelled = {} /\ timed_out = {}
    /\ pending = {} /\ registrations = {} /\ armed = [f \in Fds |-> None]
    /\ due = {} /\ ready = {} /\ wake = FALSE /\ running = TRUE
    /\ pc = "loop" /\ register_ret = "wait" /\ pending_items = {} /\ events = {}
    /\ expired = {}
    /\ resume_ret = "dispatch" /\ current = None /\ reason = "event"

-----------------------------------------------------------------------------
(* Coroutines, in any thread *)

\* await_suspend and Enqueue.  The deadline is now + timeout_ms: it has passed
\* already when timeout_ms is negative.
Suspend(w) ==
    /\ frame[w] = "new"
    /\ \E f \in Fds : fd' = [fd EXCEPT ![w] = f]
    /\ due' \in {due, due \cup {w}}
    /\ frame' = [frame EXCEPT ![w] = "suspended"]
    /\ token' = token \cup {w}
    /\ pending' = pending \cup {w}
    /\ wake' = TRUE
    /\ UNCHANGED <<completed, cancelled, timed_out, registrations, armed, ready, running, pc,
                   localVars, resumeVars, canceller>>

\* The coroutine is destroyed while suspended.  ~FdAwaiter: cancelled = true,
DestroyFrame(w) ==
    /\ frame[w] = "suspended"
    /\ frame' = [frame EXCEPT ![w] = "destroyed"]
    /\ cancelled' = cancelled \cup {w}
    /\ canceller' = [canceller EXCEPT ![w] = "check"]
    /\ UNCHANGED <<token, completed, timed_out, fd, queueVars, envVars, pc, localVars,
                   resumeVars>>

\* then Cancel, if the wait has a token and is not completed:
CheckToken(w) ==
    /\ canceller[w] = "check"
    /\ canceller' = [canceller EXCEPT
         ![w] = IF w \in token /\ w \notin completed THEN "pending" ELSE "done"]
    /\ UNCHANGED <<frame, stateVars, fd, queueVars, envVars, pc, localVars, resumeVars>>

\* Cancel removes it from pending_, under pending_mutex_,
CancelPending(w) ==
    /\ canceller[w] = "pending"
    /\ canceller' = [canceller EXCEPT ![w] = "registrations"]
    /\ pending' = pending \ {w}
    /\ completed' = completed \cup (pending \cap {w})
    /\ token' = token \ (pending \cap {w})
    /\ UNCHANGED <<frame, cancelled, timed_out, fd, registrations, armed, envVars, pc,
                   localVars, resumeVars>>

\* and from registrations_ and epoll, under registrations_mutex_.
CancelRegistration(w) ==
    /\ canceller[w] = "registrations"
    /\ canceller' = [canceller EXCEPT ![w] = "done"]
    /\ registrations' = registrations \ {w}
    /\ armed' = IF w \in registrations THEN [armed EXCEPT ![fd[w]] = None] ELSE armed
    /\ completed' = completed \cup (registrations \cap {w})
    /\ token' = token \ (registrations \cap {w})
    /\ UNCHANGED <<frame, cancelled, timed_out, fd, pending, envVars, pc, localVars,
                   resumeVars>>

-----------------------------------------------------------------------------
(* The runtime thread: Run *)

\* while (running_)
LoopTop ==
    /\ pc = "loop"
    /\ pc' = IF running THEN "take" ELSE "exit"
    /\ UNCHANGED <<stateVars, fd, queueVars, envVars, localVars, resumeVars, coroVars>>

\* Mutant: pending_ is copied instead of swapped out.
TakePending_Copies ==
    /\ pc = "take"
    /\ pending_items' = pending
    /\ pc' = "register"
    /\ UNCHANGED <<stateVars, fd, queueVars, envVars, register_ret, events, expired,
                   resumeVars, coroVars>>

\* RegisterPending swaps pending_ out
TakePending ==
    /\ pc = "take"
    /\ pending_items' = pending
    /\ pending' = {}
    /\ pc' = "register"
    /\ UNCHANGED <<stateVars, fd, registrations, armed, envVars, register_ret, events,
                   expired, resumeVars, coroVars>>

\* and registers each item with EPOLLONESHOT.  EPOLL_CTL_MOD takes over a
\* descriptor that is still registered.
Register(w) ==
    /\ pc = "register" /\ w \in pending_items
    /\ pending_items' = pending_items \ {w}
    /\ armed' = [armed EXCEPT ![fd[w]] = w]
    /\ registrations' = registrations \cup {w}
    /\ UNCHANGED <<stateVars, fd, pending, envVars, pc, register_ret, events, expired,
                   resumeVars, coroVars>>

ResumeReady(w, why, ret) ==
    /\ current' = w /\ reason' = why /\ resume_ret' = ret
    /\ pc' = "check"

\* ResumeReady returns: its arguments are gone.
ResumeReturns(loc) ==
    /\ pc' = loc
    /\ current' = None /\ reason' = "event" /\ resume_ret' = "dispatch"

\* Mutant: an item that cannot be registered is only logged.
RegisterFails_Drops(w) ==
    /\ pc = "register" /\ w \in pending_items
    /\ pending_items' = pending_items \ {w}
    /\ UNCHANGED <<stateVars, fd, queueVars, envVars, pc, register_ret, events, expired,
                   resumeVars, coroVars>>

\* epoll_ctl fails, for instance because the descriptor was closed: as a timeout.
RegisterFails(w) ==
    /\ pc = "register" /\ w \in pending_items
    /\ pending_items' = pending_items \ {w}
    /\ ResumeReady(w, "timeout", "register")
    /\ UNCHANGED <<stateVars, fd, queueVars, envVars, register_ret, events, expired,
                   coroVars>>

RegisterDone ==
    /\ pc = "register" /\ pending_items = {}
    /\ pc' = register_ret /\ register_ret' = "wait"
    /\ UNCHANGED <<stateVars, fd, queueVars, envVars, pending_items, events, expired,
                   resumeVars, coroVars>>

\* epoll_wait returns after at most 50 ms, with the ready descriptors that are
\* armed; EPOLLONESHOT disarms them.
EpollWait ==
    LET reported == {f \in ready : armed[f] # None} IN
    /\ pc = "wait"
    /\ events' = {armed[f] : f \in reported} \cup (IF wake THEN {Wake} ELSE {})
    /\ armed' = [f \in Fds |-> IF f \in reported THEN None ELSE armed[f]]
    /\ pc' = "dispatch"
    /\ UNCHANGED <<stateVars, fd, pending, registrations, envVars, register_ret,
                   pending_items, expired, resumeVars, coroVars>>

\* epoll_wait fails or is interrupted.
EpollWaitFails ==
    /\ pc = "wait"
    /\ pc' = "loop"
    /\ UNCHANGED <<stateVars, fd, queueVars, envVars, localVars, resumeVars, coroVars>>

DispatchWake ==
    /\ pc = "dispatch" /\ Wake \in events
    /\ events' = events \ {Wake}
    /\ wake' = FALSE
    /\ register_ret' = "dispatch"
    /\ pc' = "take"
    /\ UNCHANGED <<stateVars, fd, queueVars, due, ready, running, pending_items, expired,
                   resumeVars, coroVars>>

\* The wait of a token leaves registrations_ and epoll and is resumed; a
\* token that was cancelled meanwhile is skipped.
DispatchToken(w) ==
    /\ pc = "dispatch" /\ w \in events
    /\ events' = events \ {w}
    /\ \/ /\ w \in registrations
          /\ registrations' = registrations \ {w}
          /\ armed' = [armed EXCEPT ![fd[w]] = None]
          /\ ResumeReady(w, "event", "dispatch")
       \/ /\ w \notin registrations
          /\ UNCHANGED <<registrations, armed, pc, resumeVars>>
    /\ UNCHANGED <<stateVars, fd, pending, envVars, register_ret, pending_items, expired,
                   coroVars>>

\* Mutant: EPOLL_CTL_DEL comes before the deadline is compared.
Expire_DisarmsAll ==
    LET late == registrations \cap due IN
    /\ pc = "dispatch" /\ events = {}
    /\ expired' = late
    /\ registrations' = registrations \ late
    /\ armed' = [f \in Fds |-> None]
    /\ pc' = "expire"
    /\ UNCHANGED <<stateVars, fd, pending, envVars, register_ret, pending_items, events,
                   resumeVars, coroVars>>

\* Mutant: cancelled waits are left to Cancel.
Expire_SkipsCancelled ==
    LET late == (registrations \cap due) \ cancelled IN
    /\ pc = "dispatch" /\ events = {}
    /\ expired' = late
    /\ registrations' = registrations \ late
    /\ armed' = [f \in Fds |-> IF \E w \in late : fd[w] = f THEN None ELSE armed[f]]
    /\ pc' = "expire"
    /\ UNCHANGED <<stateVars, fd, pending, envVars, register_ret, pending_items, events,
                   resumeVars, coroVars>>

\* ExpireTimedOut, after the last event
Expire ==
    LET late == registrations \cap due IN
    /\ pc = "dispatch" /\ events = {}
    /\ expired' = late
    /\ registrations' = registrations \ late
    /\ armed' = [f \in Fds |-> IF \E w \in late : fd[w] = f THEN None ELSE armed[f]]
    /\ pc' = "expire"
    /\ UNCHANGED <<stateVars, fd, pending, envVars, register_ret, pending_items, events,
                   resumeVars, coroVars>>

ExpireOne(w) ==
    /\ pc = "expire" /\ w \in expired
    /\ expired' = expired \ {w}
    /\ ResumeReady(w, "timeout", "expire")
    /\ UNCHANGED <<stateVars, fd, queueVars, envVars, register_ret, pending_items, events,
                   coroVars>>

ExpireDone ==
    /\ pc = "expire" /\ expired = {}
    /\ pc' = "loop"
    /\ UNCHANGED <<stateVars, fd, queueVars, envVars, localVars, resumeVars, coroVars>>

\* ResumeReady: a wait that is cancelled by now is only marked;
CheckCancelled ==
    /\ pc = "check"
    /\ \/ /\ current \in cancelled
          /\ completed' = completed \cup {current}
          /\ token' = token \ {current}
          /\ ResumeReturns(resume_ret)
       \/ /\ current \notin cancelled
          /\ pc' = "complete"
          /\ UNCHANGED <<completed, token, resumeVars>>
    /\ UNCHANGED <<timed_out, cancelled, fd, queueVars, envVars, localVars, coroVars>>

\* otherwise its flags are set,
Complete ==
    /\ pc = "complete"
    /\ timed_out' = IF reason = "timeout" THEN timed_out \cup {current} ELSE timed_out
    /\ completed' = completed \cup {current}
    /\ token' = token \ {current}
    /\ pc' = "resume"
    /\ UNCHANGED <<cancelled, fd, queueVars, envVars, localVars, resumeVars, coroVars>>

\* and the coroutine goes on in the runtime thread.  Its FdAwaiter is destroyed
\* at the end of the co_await expression.
Resume ==
    /\ pc = "resume" /\ frame[current] = "suspended"
    /\ frame' = [frame EXCEPT ![current] = "resumed"]
    /\ cancelled' = cancelled \cup {current}
    /\ ResumeReturns(resume_ret)
    /\ UNCHANGED <<token, completed, timed_out, fd, queueVars, envVars, localVars, canceller>>

\* resume() of a coroutine destroyed after the check: it may appear to do
\* nothing, or the process crashes.
ResumeFreed ==
    /\ pc = "resume" /\ frame[current] = "destroyed"
    /\ \E loc \in {resume_ret, "crashed"} : ResumeReturns(loc)
    /\ UNCHANGED <<stateVars, fd, queueVars, envVars, localVars, frame, canceller>>

-----------------------------------------------------------------------------
(* The environment *)

\* A descriptor becomes readable or writable, or no longer is.
FdChanges(f) ==
    /\ ready' = IF f \in ready THEN ready \ {f} ELSE ready \cup {f}
    /\ UNCHANGED <<stateVars, fd, queueVars, due, wake, running, pc, localVars, resumeVars,
                   coroVars>>

\* The deadline of a wait that the runtime may still look at.
DeadlinePasses(w) ==
    /\ w \in pending \cup pending_items \cup registrations /\ w \notin due
    /\ due' = due \cup {w}
    /\ UNCHANGED <<stateVars, fd, queueVars, ready, wake, running, pc, localVars,
                   resumeVars, coroVars>>

\* ~AsyncRuntime at process exit: running_ = false, then WakeLoop and join.
Shutdown ==
    /\ running
    /\ running' = FALSE /\ wake' = TRUE
    /\ UNCHANGED <<stateVars, fd, queueVars, due, ready, pc, localVars, resumeVars, coroVars>>

-----------------------------------------------------------------------------
RuntimeStep ==
    \/ LoopTop \/ TakePending \/ RegisterDone \/ EpollWait \/ DispatchWake \/ Expire \/ ExpireDone
    \/ CheckCancelled \/ Complete \/ Resume \/ ResumeFreed
    \/ \E w \in Waits : Register(w) \/ RegisterFails(w) \/ DispatchToken(w) \/ ExpireOne(w)
CancelStep(w) == CheckToken(w) \/ CancelPending(w) \/ CancelRegistration(w)
Environment ==
    \/ \E w \in Waits : Suspend(w) \/ DestroyFrame(w) \/ DeadlinePasses(w)
    \/ \E f \in Fds : FdChanges(f)
    \/ EpollWaitFails \/ Shutdown

Next == RuntimeStep \/ (\E w \in Waits : CancelStep(w)) \/ Environment

\* The threads run, deadlines pass, and epoll_wait does not fail for ever.
Fairness ==
    /\ WF_vars(RuntimeStep) /\ SF_vars(EpollWait)
    /\ \A w \in Waits : WF_vars(CancelStep(w)) /\ WF_vars(DeadlinePasses(w))

Spec == Init /\ [][Next]_vars
FairSpec == Spec /\ Fairness

-----------------------------------------------------------------------------
(* Properties *)

\* Every variable stays in its type.
TypeOK ==
    /\ frame \in [Waits -> {"new", "suspended", "resumed", "destroyed"}]
    /\ canceller \in [Waits -> {"none", "check", "pending", "registrations", "done"}]
    /\ fd \in [Waits -> Fds \cup {None}]
    /\ token \subseteq Waits /\ completed \subseteq Waits /\ cancelled \subseteq Waits
    /\ timed_out \subseteq Waits /\ due \subseteq Waits /\ pending \subseteq Waits
    /\ pending_items \subseteq Waits /\ registrations \subseteq Waits /\ expired \subseteq Waits
    /\ armed \in [Fds -> Waits \cup {None}] /\ ready \subseteq Fds
    /\ wake \in BOOLEAN /\ running \in BOOLEAN
    /\ pc \in {"loop", "take", "register", "wait", "dispatch", "expire", "check",
               "complete", "resume", "exit", "crashed"}
    /\ register_ret \in {"wait", "dispatch"} /\ resume_ret \in {"register", "dispatch", "expire"}
    /\ events \subseteq Waits \cup {Wake}
    /\ current \in Waits \cup {None} /\ reason \in {"event", "timeout"}

\* Where the runtime keeps a wait until it has resumed it.
Places(w) ==
    {p \in {"pending", "items", "registrations", "expired", "current"} :
        \/ p = "pending" /\ w \in pending
        \/ p = "items" /\ w \in pending_items
        \/ p = "registrations" /\ w \in registrations
        \/ p = "expired" /\ w \in expired
        \/ p = "current" /\ w = current /\ pc \in {"check", "complete", "resume"}}

\* A suspended coroutine is in exactly one of the runtime's places, so it is
\* neither forgotten nor resumed twice; one that has gone on is in none.
InOnePlace ==
    pc # "crashed" => \A w \in Waits :
        /\ frame[w] = "suspended" => Cardinality(Places(w)) = 1
        /\ frame[w] \in {"new", "resumed"} => Places(w) = {}
        /\ Cardinality(Places(w)) <= 1

\* A registered wait stays armed in epoll until its event is reported: the
\* cancel, expiry, event or registration of another wait silences it only if
\* that one is for the same descriptor and in the runtime at the same time.
StaysArmed ==
    [][\A w \in registrations \cap registrations' :
         armed[fd[w]] = w =>
             \/ armed'[fd[w]] = w \/ w \in events'
             \/ \E v \in Waits \ {w} : fd[v] = fd[w] /\ Places(v) # {}]_vars

\* Every suspended coroutine goes on, unless the process ends first.
WaitsComplete ==
    \A w \in Waits : frame[w] = "suspended" ~> frame[w] # "suspended" \/ ~running \/ pc = "crashed"

\* A destroyed coroutine's registration does not stay in the runtime.
NothingLingers ==
    \A w \in Waits : frame[w] = "destroyed" ~> Places(w) = {} \/ ~running \/ pc = "crashed"
=============================================================================
