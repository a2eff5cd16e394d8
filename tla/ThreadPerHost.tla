---------------------------- MODULE ThreadPerHost ----------------------------
(***************************************************************************)
(* The thread-per-host scheduler of src/main/core/scheduler/              *)
(* thread_per_host.rs (ThreadPerHostSched, SchedulerScope, HostIter).     *)
(*                                                                         *)
(* The pool has one worker thread per host.  new() runs a first scope in  *)
(* which thread t moves hosts[t] from a mutex-guarded vec into its        *)
(* thread-local slot; join() runs a last scope that moves it back.  In    *)
(* between, a run_with_hosts/run_with_data task takes the host out of the *)
(* slot into a HostIter, runs the closure (which may call for_each any    *)
(* number of times), and puts it back.  Host h is hosts[h] and thread h   *)
(* is the thread with thread_idx h.                                        *)
(*                                                                         *)
(* The bounded pool (pools/bounded.rs, not in this repository) is modelled *)
(* from spec section 4.1: one task per thread per scope, a task runs only  *)
(* on a free logical processor, and the scope returns at the barrier.     *)
(***************************************************************************)
EXTENDS Integers, FiniteSets

CONSTANTS
    NumHosts,    \* hosts.len(), also the number of pool threads
    NumProcs,    \* logical processors of the pool (cpu_ids)
    MaxScopes,   \* bound: scopes the driver opens between new and join
    MaxForEach   \* bound: for_each calls a closure makes in one task

ASSUME NumHosts \in Nat \ {0} /\ NumProcs \in Nat \ {0}
ASSUME MaxScopes \in Nat /\ MaxForEach \in Nat

Threads == 0..NumHosts-1
Hosts == Threads
Procs == 0..NumProcs-1
None == -1

VARIABLES
    phase,     \* driver: "new", "running", "idle", "scoped", "joined", "failed"
    kind,      \* task of the pool scope: "init", "plain", "hosts", "data", "collect"
    vec,       \* hosts: Vec<Mutex<Option<Box<Host>>>> of new() or join()
    slot,      \* host_storage, the thread-local slot of each thread
    iter,      \* HostIter.host of each thread's task
    lent,      \* the host a for_each closure currently owns
    tpc,       \* per thread: "idle", "ready", "run", "user", "foreach", "done"
    proc,      \* the logical processor running the thread's task, or None
    calls,     \* for_each calls made by the current task
    panicked,  \* a task panicked; the pool re-raises it at the barrier
    scopes,    \* scopes opened so far
    freed      \* hosts dropped by join

vars == <<phase, kind, vec, slot, iter, lent, tpc, proc, calls, panicked,
          scopes, freed>>

NoHosts == [t \in Threads |-> None]

-----------------------------------------------------------------------------
(* The pool (spec section 4.1) *)

\* runner.run(): the task is handed to every thread.
Dispatch(k) ==
    /\ phase' = "running"
    /\ kind' = k
    /\ tpc' = [t \in Threads |-> "ready"]
    /\ calls' = [t \in Threads |-> 0]

\* Thread t starts its task on logical processor p, which runs nothing else.
Start(t, p) ==
    /\ phase = "running" /\ tpc[t] = "ready"
    /\ \A u \in Threads : proc[u] # p
    /\ proc' = [proc EXCEPT ![t] = p]
    /\ tpc' = [tpc EXCEPT ![t] = "run"]
    /\ UNCHANGED <<phase, kind, vec, slot, iter, lent, calls, panicked, scopes, freed>>

\* The task of thread t returns and frees its processor.
Finish(t) ==
    /\ tpc' = [tpc EXCEPT ![t] = "done"]
    /\ proc' = [proc EXCEPT ![t] = None]

-----------------------------------------------------------------------------
(* Driver *)

\* Faulty variant of New: the vec is filled from 1-based host indices, so
\* thread t takes the host meant for thread t+1.
NewOffByOne ==
    /\ phase = "new"
    /\ vec' = [t \in Threads |-> t + 1]
    /\ Dispatch("init")
    /\ UNCHANGED <<slot, iter, lent, proc, panicked, scopes, freed>>

\* new(): build the vec of hosts and run the hand-off scope (lines 34-50).
New ==
    /\ phase = "new"
    /\ vec' = [t \in Threads |-> t]
    /\ Dispatch("init")
    /\ UNCHANGED <<slot, iter, lent, proc, panicked, scopes, freed>>

\* scope(): enter the pool's scope (lines 61-74).
Scope ==
    /\ phase = "idle" /\ scopes < MaxScopes
    /\ phase' = "scoped"
    /\ scopes' = scopes + 1
    /\ UNCHANGED <<kind, vec, slot, iter, lent, tpc, proc, calls, panicked, freed>>

\* SchedulerScope::run, run_with_hosts, run_with_data (lines 106-163).
RunTasks(k) ==
    /\ phase = "scoped"
    /\ Dispatch(k)
    /\ UNCHANGED <<vec, slot, iter, lent, proc, panicked, scopes, freed>>

\* join(): an empty vec, then the collecting scope (lines 78-90).
Join ==
    /\ phase = "idle"
    /\ vec' = NoHosts
    /\ Dispatch("collect")
    /\ UNCHANGED <<slot, iter, lent, proc, panicked, scopes, freed>>

\* Faulty variant of EndScope: the pool's scope returns without waiting at
\* the barrier for every task.
EndScopeNoBarrier ==
    /\ \/ phase = "scoped"
       \/ phase = "running"
    /\ phase' = IF panicked THEN "failed"
                ELSE IF phase = "running" /\ kind = "collect" THEN "joined"
                ELSE "idle"
    /\ freed' = IF phase = "running" /\ kind = "collect" /\ ~panicked
                   THEN {vec[t] : t \in Threads} \ {None} ELSE freed
    /\ tpc' = [t \in Threads |-> "idle"]
    /\ UNCHANGED <<kind, vec, slot, iter, lent, proc, calls, panicked, scopes>>

\* The pool's scope returns at the barrier, once every task is done, and
\* re-raises a task's panic (fatal).  The scope of join() is followed by
\* pool.join() and the drop of the collected hosts (line 92).
EndScope ==
    /\ \/ phase = "scoped"
       \/ phase = "running" /\ \A t \in Threads : tpc[t] = "done"
    /\ phase' = IF panicked THEN "failed"
                ELSE IF phase = "running" /\ kind = "collect" THEN "joined"
                ELSE "idle"
    /\ freed' = IF phase = "running" /\ kind = "collect" /\ ~panicked
                   THEN {vec[t] : t \in Threads} \ {None} ELSE freed
    /\ tpc' = [t \in Threads |-> "idle"]
    /\ UNCHANGED <<kind, vec, slot, iter, lent, proc, calls, panicked, scopes>>

-----------------------------------------------------------------------------
(* Tasks *)

\* Faulty variant of InitTake: the host is cloned out of the vec instead of
\* taken.
InitTakeCopy(t) ==
    /\ tpc[t] = "run" /\ kind = "init"
    /\ slot' = [slot EXCEPT ![t] = vec[t]]
    /\ Finish(t)
    /\ UNCHANGED <<phase, kind, vec, iter, lent, calls, panicked, scopes, freed>>

\* The hand-off task of new() (lines 44-48): the slot is empty (the assert
\* holds) and hosts[thread_idx] still holds the host (the unwrap holds).
InitTake(t) ==
    /\ tpc[t] = "run" /\ kind = "init"
    /\ slot' = [slot EXCEPT ![t] = vec[t]]
    /\ vec' = [vec EXCEPT ![t] = None]
    /\ Finish(t)
    /\ UNCHANGED <<phase, kind, iter, lent, calls, panicked, scopes, freed>>

\* A `run` task sets the core affinity and calls the closure (lines 107-114).
PlainTask(t) ==
    /\ tpc[t] = "run" /\ kind = "plain"
    /\ Finish(t)
    /\ UNCHANGED <<phase, kind, vec, slot, iter, lent, calls, panicked, scopes, freed>>

\* HostIter { host: host.take() } under the slot's borrow_mut (lines 125-128
\* and 153-156).
TakeSlot(t) ==
    /\ tpc[t] = "run" /\ kind \in {"hosts", "data"}
    /\ iter' = [iter EXCEPT ![t] = slot[t]]
    /\ slot' = [slot EXCEPT ![t] = None]
    /\ tpc' = [tpc EXCEPT ![t] = "user"]
    /\ UNCHANGED <<phase, kind, vec, lent, proc, calls, panicked, scopes, freed>>

\* The closure calls host_iter.for_each (line 178): the host is taken out
\* of the HostIter and moved into the inner closure.
ForEach(t) ==
    /\ tpc[t] = "user" /\ calls[t] < MaxForEach
    /\ lent' = [lent EXCEPT ![t] = iter[t]]
    /\ iter' = [iter EXCEPT ![t] = None]
    /\ calls' = [calls EXCEPT ![t] = @ + 1]
    /\ tpc' = [tpc EXCEPT ![t] = "foreach"]
    /\ UNCHANGED <<phase, kind, vec, slot, proc, panicked, scopes, freed>>

\* The inner closure returns its host, which goes back into the HostIter
\* (line 179).
ForEachReturns(t) ==
    /\ tpc[t] = "foreach"
    /\ iter' = [iter EXCEPT ![t] = lent[t]]
    /\ lent' = [lent EXCEPT ![t] = None]
    /\ tpc' = [tpc EXCEPT ![t] = "user"]
    /\ UNCHANGED <<phase, kind, vec, slot, proc, calls, panicked, scopes, freed>>

\* The closure panics, inside or outside for_each: unwinding drops the
\* HostIter or the moved Box<Host>, so the host is destroyed, the slot stays
\* empty, and the task ends with a panic.
ClosurePanics(t) ==
    /\ tpc[t] \in {"user", "foreach"}
    /\ iter' = [iter EXCEPT ![t] = None]
    /\ lent' = [lent EXCEPT ![t] = None]
    /\ panicked' = TRUE
    /\ Finish(t)
    /\ UNCHANGED <<phase, kind, vec, slot, calls, scopes, freed>>

\* Faulty variant of UserReturns: the host stays in the HostIter, which is
\* dropped with it.
UserReturnsNoRestore(t) ==
    /\ tpc[t] = "user"
    /\ iter' = [iter EXCEPT ![t] = None]
    /\ Finish(t)
    /\ UNCHANGED <<phase, kind, vec, slot, lent, calls, panicked, scopes, freed>>

\* The closure returns: host.replace(host_iter.host.take().unwrap())
\* (lines 132 and 160).
UserReturns(t) ==
    /\ tpc[t] = "user"
    /\ slot' = [slot EXCEPT ![t] = iter[t]]
    /\ iter' = [iter EXCEPT ![t] = None]
    /\ Finish(t)
    /\ UNCHANGED <<phase, kind, vec, lent, calls, panicked, scopes, freed>>

\* The collecting task of join() (lines 85-88).
Collect(t) ==
    /\ tpc[t] = "run" /\ kind = "collect"
    /\ vec' = [vec EXCEPT ![t] = slot[t]]
    /\ slot' = [slot EXCEPT ![t] = None]
    /\ Finish(t)
    /\ UNCHANGED <<phase, kind, iter, lent, calls, panicked, scopes, freed>>

\* The program has ended: after join, or on a fatal panic.
Terminated ==
    /\ phase \in {"joined", "failed"}
    /\ UNCHANGED vars

-----------------------------------------------------------------------------

Init ==
    /\ phase = "new"
    /\ kind = "init"
    /\ vec = NoHosts
    /\ slot = NoHosts
    /\ iter = NoHosts
    /\ lent = NoHosts
    /\ tpc = [t \in Threads |-> "idle"]
    /\ proc = NoHosts
    /\ calls = [t \in Threads |-> 0]
    /\ panicked = FALSE
    /\ scopes = 0
    /\ freed = {}

TaskStep(t) ==
    \/ InitTake(t) \/ PlainTask(t) \/ TakeSlot(t) \/ ForEach(t)
    \/ ForEachReturns(t) \/ ClosurePanics(t) \/ UserReturns(t) \/ Collect(t)

Next ==
    \/ New \/ Scope \/ Join \/ EndScope \/ Terminated
    \/ \E k \in {"plain", "hosts", "data"} : RunTasks(k)
    \/ \E t \in Threads : (\E p \in Procs : Start(t, p)) \/ TaskStep(t)

\* The pool gives every ready thread a processor, tasks run to completion
\* (a closure makes finitely many for_each calls), and the barrier releases the
\* driver.  Nothing forces the driver to call join.
Fairness ==
    /\ \A t \in Threads : WF_vars(\E p \in Procs : Start(t, p))
    /\ \A t \in Threads : WF_vars(TaskStep(t))
    /\ WF_vars(EndScope)

Spec == Init /\ [][Next]_vars
FairSpec == Spec /\ Fairness

-----------------------------------------------------------------------------
(* Properties *)

TypeOK ==
    /\ phase \in {"new", "running", "idle", "scoped", "joined", "failed"}
    /\ kind \in {"init", "plain", "hosts", "data", "collect"}
    /\ \A f \in {vec, slot, iter, lent} : f \in [Threads -> Hosts \cup {None}]
    /\ tpc \in [Threads -> {"idle", "ready", "run", "user", "foreach", "done"}]
    /\ proc \in [Threads -> Procs \cup {None}]
    /\ calls \in [Threads -> 0..MaxForEach]
    /\ panicked \in BOOLEAN
    /\ scopes \in 0..MaxScopes
    /\ freed \subseteq Hosts

Places(h) == {<<f, t>> \in {"vec", "slot", "iter", "lent"} \X Threads :
                 [vec |-> vec, slot |-> slot, iter |-> iter, lent |-> lent][f][t] = h}

\* Host conservation (spec sections 3 and 8): until a task panics, every
\* host handed to new() is in exactly one place -- the vec, one thread's
\* slot, one task's HostIter or one for_each closure -- from the hand-off
\* scope to the end of join's collecting scope.
HostsConserved ==
    (~panicked /\ phase \in {"running", "idle", "scoped"}) =>
        \A h \in Hosts : Cardinality(Places(h)) = 1

\* ThreadLocalHostSlot (spec section 3): between scopes, after the hand-off
\* and before join, thread t's slot holds host t and nothing else holds a
\* host, so every run_with_hosts task starts with its own host.
SlotPopulatedBetweenScopes ==
    (phase \in {"idle", "scoped"}) =>
        /\ slot = [t \in Threads |-> t]
        /\ iter = NoHosts /\ lent = NoHosts /\ vec = NoHosts

=============================================================================
