---------------------------- MODULE NewScheduler ----------------------------
(***************************************************************************)
(* The thread-per-core host scheduler of src/main/core/scheduler/          *)
(* scheduler.rs (NewScheduler, SchedScope, HostIter).                      *)
(*                                                                         *)
(* Each worker thread i owns two ArrayQueues: from[i] (thread_hosts) and   *)
(* to[i] (thread_hosts_processed).  During run_with_hosts every thread     *)
(* walks the "from" queues starting at its own, popping hosts (work       *)
(* stealing), and pushes each host it is done with into its own "to"      *)
(* queue.  The next scope swaps the two vectors.  The worker pool's        *)
(* scope is the barrier: the driver's scope ends when all tasks are done. *)
(*                                                                         *)
(* Hosts are 0..NumHosts-1 in construction order; threads are            *)
(* 0..NumThreads-1.  The user closure is arbitrary: it may call next()     *)
(* again or return at any point, which exercises the end-of-task checks.   *)
(***************************************************************************)
EXTENDS Integers, Sequences, FiniteSets, SequencesExt

CONSTANTS
    NumThreads, \* num_threads given to NewScheduler::new
    NumHosts,   \* number of hosts given to NewScheduler::new
    MaxScopes   \* bound: number of scopes the driver opens

ASSUME NumThreads \in Nat \ {0} /\ NumHosts \in Nat /\ MaxScopes \in Nat

Threads == 0..NumThreads-1
Hosts == 0..NumHosts-1
NoHost == -1

VARIABLES
    phase,     \* driver: "new", "idle", "scoped", "running", "joined", "failed"
    kind,      \* task of the current scope: "plain" (run) or "hosts" (run_with_hosts/_data)
    from,      \* thread_hosts: per thread, queue of hosts, head first
    to,        \* thread_hosts_processed
    needSwap,  \* hosts_need_swap
    tpc,       \* per thread: "idle", "user", "scan", "final", "done"
    offset,    \* HostIter.thread_index_iter_offset
    current,   \* HostIter.current_host, or NoHost
    panicked,  \* a task panicked; the pool re-raises it at the end of the scope
    scopes,    \* number of scopes opened so far
    visits,    \* per host: times next() handed it to a task in this run
    freed,     \* hosts released with host_unref by join
    before     \* history: the "from" queues as the last run_with_hosts found them

vars == <<phase, kind, from, to, needSwap, tpc, offset, current, panicked,
          scopes, visits, freed, before>>

-----------------------------------------------------------------------------

\* Round-robin assignment of hosts to the "from" queues (lines 33-36).
RoundRobin == [i \in Threads |-> SelectSeq([k \in 1..NumHosts |-> k - 1],
                                           LAMBDA h : h % NumThreads = i)]

\* Faulty variant of ReturnCurrentHost: the host is pushed but not taken
\* out of current_host (a clone instead of Option::take).
ReturnCurrentHostKeep(i) ==
    /\ to' = IF current[i] # NoHost THEN [to EXCEPT ![i] = Append(@, current[i])] ELSE to
    /\ current' = current

\* Faulty variant of ReturnCurrentHost: the host goes to the front of the
\* processed queue (a LIFO deque instead of the FIFO ArrayQueue).
ReturnCurrentHostFront(i) ==
    /\ to' = IF current[i] # NoHost THEN [to EXCEPT ![i] = <<current[i]>> \o @] ELSE to
    /\ current' = [current EXCEPT ![i] = NoHost]

\* HostIter::return_current_host (lines 369-373), as the update of to and current.
ReturnCurrentHost(i) ==
    /\ to' = IF current[i] # NoHost THEN [to EXCEPT ![i] = Append(@, current[i])] ELSE to
    /\ current' = [current EXCEPT ![i] = NoHost]

AllDone == \A i \in Threads : tpc[i] = "done"

-----------------------------------------------------------------------------
(* Driver *)

\* NewScheduler::new (lines 16-45).  ArrayQueue::new(hosts.len()) panics
\* when there are no hosts (crossbeam rejects a zero capacity).
New ==
    /\ phase = "new"
    /\ IF NumHosts = 0
          THEN /\ phase' = "failed"
               /\ UNCHANGED from
          ELSE /\ phase' = "idle"
               /\ from' = RoundRobin
    /\ UNCHANGED <<kind, to, needSwap, tpc, offset, current, panicked, scopes, visits, freed, before>>

\* Faulty variant of Scope: hosts_need_swap is not reset after the swap.
ScopeKeepsSwapFlag ==
    /\ phase = "idle"
    /\ scopes < MaxScopes
    /\ IF needSwap
          THEN /\ from' = to
               /\ to' = from
          ELSE UNCHANGED <<from, to>>
    /\ phase' = "scoped"
    /\ scopes' = scopes + 1
    /\ UNCHANGED <<kind, tpc, offset, current, panicked, visits, freed, needSwap, before>>

\* Faulty variant of Scope: the queue vectors are never swapped.
ScopeNoSwap ==
    /\ phase = "idle"
    /\ scopes < MaxScopes
    /\ needSwap' = FALSE
    /\ phase' = "scoped"
    /\ scopes' = scopes + 1
    /\ UNCHANGED <<kind, tpc, offset, current, panicked, visits, freed, from, to, before>>

\* scope(): swap the queue vectors if the last scope processed hosts, then
\* enter the pool's scope (lines 54-88).
Scope ==
    /\ phase = "idle"
    /\ scopes < MaxScopes
    /\ IF needSwap
          THEN /\ from' = to
               /\ to' = from
          ELSE UNCHANGED <<from, to>>
    /\ needSwap' = FALSE
    /\ phase' = "scoped"
    /\ scopes' = scopes + 1
    /\ UNCHANGED <<kind, tpc, offset, current, panicked, visits, freed, before>>

\* SchedScope::run (lines 259-261): the closure gets no hosts.
Run ==
    /\ phase = "scoped"
    /\ phase' = "running"
    /\ kind' = "plain"
    /\ tpc' = [i \in Threads |-> "user"]
    /\ UNCHANGED <<from, to, needSwap, offset, current, panicked, scopes, visits, freed, before>>

\* SchedScope::run_with_hosts / run_with_data (lines 267-324): each task
\* gets a fresh HostIter starting at its own queue.
RunWithHosts ==
    /\ phase = "scoped"
    /\ phase' = "running"
    /\ kind' = "hosts"
    /\ tpc' = [i \in Threads |-> "user"]
    /\ offset' = [i \in Threads |-> 0]
    /\ current' = [i \in Threads |-> NoHost]
    /\ visits' = [h \in Hosts |-> 0]
    /\ before' = from
    /\ UNCHANGED <<from, to, needSwap, panicked, scopes, freed>>

\* The closure passed to scope() returns: immediately if it ran no task,
\* else once the pool's barrier has seen every task finish; a task panic is
\* re-raised here and is fatal.  run_with_hosts marks hosts_need_swap.
EndScope ==
    /\ \/ phase = "scoped"
       \/ phase = "running" /\ AllDone
    /\ phase' = IF panicked THEN "failed" ELSE "idle"
    /\ needSwap' = (needSwap \/ (phase = "running" /\ kind = "hosts"))
    /\ tpc' = [i \in Threads |-> "idle"]
    /\ UNCHANGED <<kind, from, to, offset, current, panicked, scopes, visits, freed, before>>

\* join(): join the pool, then host_unref every host left in thread_hosts
\* (lines 91-101).
Join ==
    /\ phase = "idle"
    /\ freed' = UNION {ToSet(from[i]) : i \in Threads}
    /\ from' = [i \in Threads |-> <<>>]
    /\ phase' = "joined"
    /\ UNCHANGED <<kind, to, needSwap, tpc, offset, current, panicked, scopes, visits, before>>

-----------------------------------------------------------------------------
(* Tasks: one per worker thread *)

\* A `run` task calls the closure with its thread index.
PlainTask(i) ==
    /\ phase = "running" /\ kind = "plain"
    /\ tpc[i] = "user"
    /\ tpc' = [tpc EXCEPT ![i] = "done"]
    /\ UNCHANGED <<phase, kind, from, to, needSwap, offset, current, panicked, scopes, visits, freed, before>>

\* The closure calls host_iter.next(): the current host goes back to this
\* thread's "to" queue (line 347).  A closure that saw None stops calling.
UserCallsNext(i) ==
    /\ phase = "running" /\ kind = "hosts"
    /\ tpc[i] = "user"
    /\ offset[i] < NumThreads
    /\ ReturnCurrentHost(i)
    /\ tpc' = [tpc EXCEPT ![i] = "scan"]
    /\ UNCHANGED <<phase, kind, from, needSwap, offset, panicked, scopes, visits, freed, before>>

\* Faulty variant of ScanStep: the loop runs while offset <= num_threads.
ScanStepOffByOne(i) ==
    /\ phase = "running" /\ kind = "hosts"
    /\ tpc[i] \in {"scan", "final"}
    /\ IF offset[i] <= NumThreads
          THEN LET q == (i + offset[i]) % NumThreads IN
               IF from[q] # <<>>
                  THEN /\ from' = [from EXCEPT ![q] = Tail(@)]
                       /\ IF tpc[i] = "scan"
                             THEN /\ current' = [current EXCEPT ![i] = Head(from[q])]
                                  /\ visits' = [visits EXCEPT ![Head(from[q])] = @ + 1]
                                  /\ tpc' = [tpc EXCEPT ![i] = "user"]
                                  /\ UNCHANGED <<to, panicked>>
                             ELSE /\ to' = [to EXCEPT ![i] = Append(@, Head(from[q]))]
                                  /\ panicked' = TRUE
                                  /\ tpc' = [tpc EXCEPT ![i] = "done"]
                                  /\ UNCHANGED <<current, visits>>
                       /\ UNCHANGED offset
                  ELSE /\ offset' = [offset EXCEPT ![i] = @ + 1]
                       /\ UNCHANGED <<from, to, tpc, current, panicked, visits>>
          ELSE /\ tpc' = [tpc EXCEPT ![i] = IF @ = "scan" THEN "user" ELSE "done"]
               /\ UNCHANGED <<from, to, offset, current, panicked, visits>>
    /\ UNCHANGED <<phase, kind, needSwap, scopes, freed, before>>

\* Faulty variant of ScanStep: an empty queue does not advance the offset,
\* so the loop spins on it.
ScanStepNoAdvance(i) ==
    /\ phase = "running" /\ kind = "hosts"
    /\ tpc[i] \in {"scan", "final"}
    /\ IF offset[i] < NumThreads
          THEN LET q == (i + offset[i]) % NumThreads IN
               IF from[q] # <<>>
                  THEN /\ from' = [from EXCEPT ![q] = Tail(@)]
                       /\ IF tpc[i] = "scan"
                             THEN /\ current' = [current EXCEPT ![i] = Head(from[q])]
                                  /\ visits' = [visits EXCEPT ![Head(from[q])] = @ + 1]
                                  /\ tpc' = [tpc EXCEPT ![i] = "user"]
                                  /\ UNCHANGED <<to, panicked>>
                             ELSE /\ to' = [to EXCEPT ![i] = Append(@, Head(from[q]))]
                                  /\ panicked' = TRUE
                                  /\ tpc' = [tpc EXCEPT ![i] = "done"]
                                  /\ UNCHANGED <<current, visits>>
                       /\ UNCHANGED offset
                  ELSE UNCHANGED <<from, to, tpc, current, panicked, visits, offset>>
          ELSE /\ tpc' = [tpc EXCEPT ![i] = IF @ = "scan" THEN "user" ELSE "done"]
               /\ UNCHANGED <<from, to, offset, current, panicked, visits>>
    /\ UNCHANGED <<phase, kind, needSwap, scopes, freed, before>>

\* One iteration of the loop in next() (lines 349-365): pop queue
\* (i + offset) % n, or move on to the next queue.  In "scan" a popped host
\* is yielded to the closure; in "final" (the post-task
\* assert!(host_iter.next().is_none())) a popped host fails the assertion,
\* and the HostIter's drop returns it to this thread's "to" queue.
ScanStep(i) ==
    /\ phase = "running" /\ kind = "hosts"
    /\ tpc[i] \in {"scan", "final"}
    /\ IF offset[i] < NumThreads
          THEN LET q == (i + offset[i]) % NumThreads IN
               IF from[q] # <<>>
                  THEN /\ from' = [from EXCEPT ![q] = Tail(@)]
                       /\ IF tpc[i] = "scan"
                             THEN /\ current' = [current EXCEPT ![i] = Head(from[q])]
                                  /\ visits' = [visits EXCEPT ![Head(from[q])] = @ + 1]
                                  /\ tpc' = [tpc EXCEPT ![i] = "user"]
                                  /\ UNCHANGED <<to, panicked>>
                             ELSE /\ to' = [to EXCEPT ![i] = Append(@, Head(from[q]))]
                                  /\ panicked' = TRUE
                                  /\ tpc' = [tpc EXCEPT ![i] = "done"]
                                  /\ UNCHANGED <<current, visits>>
                       /\ UNCHANGED offset
                  ELSE /\ offset' = [offset EXCEPT ![i] = @ + 1]
                       /\ UNCHANGED <<from, to, tpc, current, panicked, visits>>
          ELSE /\ tpc' = [tpc EXCEPT ![i] = IF @ = "scan" THEN "user" ELSE "done"]
               /\ UNCHANGED <<from, to, offset, current, panicked, visits>>
    /\ UNCHANGED <<phase, kind, needSwap, scopes, freed, before>>

\* The closure returns (lines 279-282): assert!(current_host.is_none())
\* panics if it kept a host, the drop of the HostIter then returning it;
\* otherwise the final next() call starts.
UserReturns(i) ==
    /\ phase = "running" /\ kind = "hosts"
    /\ tpc[i] = "user"
    /\ IF current[i] # NoHost
          THEN /\ ReturnCurrentHost(i)
               /\ panicked' = TRUE
               /\ tpc' = [tpc EXCEPT ![i] = "done"]
          ELSE /\ tpc' = [tpc EXCEPT ![i] = "final"]
               /\ UNCHANGED <<to, current, panicked>>
    /\ UNCHANGED <<phase, kind, from, needSwap, offset, scopes, visits, freed, before>>

\* The program has ended: after join, or on a fatal panic.
Terminated ==
    /\ phase \in {"joined", "failed"}
    /\ UNCHANGED vars

-----------------------------------------------------------------------------

Init ==
    /\ phase = "new"
    /\ kind = "plain"
    /\ from = [i \in Threads |-> <<>>]
    /\ to = [i \in Threads |-> <<>>]
    /\ needSwap = FALSE
    /\ tpc = [i \in Threads |-> "idle"]
    /\ offset = [i \in Threads |-> 0]
    /\ current = [i \in Threads |-> NoHost]
    /\ panicked = FALSE
    /\ scopes = 0
    /\ visits = [h \in Hosts |-> 0]
    /\ freed = {}
    /\ before = [i \in Threads |-> <<>>]

TaskStep(i) == PlainTask(i) \/ UserCallsNext(i) \/ ScanStep(i) \/ UserReturns(i)

Next ==
    \/ New \/ Scope \/ Run \/ RunWithHosts \/ EndScope \/ Join
    \/ \E i \in Threads : TaskStep(i)
    \/ Terminated

\* Worker threads run their task to completion (the closure is assumed to
\* terminate), and the driver's scope returns once the barrier is reached.
Fairness ==
    /\ \A i \in Threads : WF_vars(TaskStep(i))
    /\ WF_vars(EndScope)

Spec == Init /\ [][Next]_vars
FairSpec == Spec /\ Fairness

-----------------------------------------------------------------------------
(* Properties *)

TypeOK ==
    /\ phase \in {"new", "idle", "scoped", "running", "joined", "failed"}
    /\ kind \in {"plain", "hosts"}
    /\ from \in [Threads -> Seq(Hosts)]
    /\ to \in [Threads -> Seq(Hosts)]
    /\ needSwap \in BOOLEAN
    /\ tpc \in [Threads -> {"idle", "user", "scan", "final", "done"}]
    /\ offset \in [Threads -> 0..NumThreads]
    /\ current \in [Threads -> Hosts \cup {NoHost}]
    /\ panicked \in BOOLEAN
    /\ scopes \in 0..MaxScopes
    /\ visits \in [Hosts -> Nat]
    /\ freed \subseteq Hosts
    /\ before \in [Threads -> Seq(Hosts)]

Occurrences(s, h) == Cardinality({k \in 1..Len(s) : s[k] = h})

Holders(h) == {i \in Threads : current[i] = h}

\* Host conservation and exclusive ownership (spec sections 3 and 8): from
\* construction until join, every host sits in exactly one place: one slot
\* of one "from" or "to" queue, or one task's HostIter.  So no host is lost
\* or duplicated, and no two tasks hold the same host.
HostsConserved ==
    phase \in {"idle", "scoped", "running"} =>
        \A h \in Hosts :
            Cardinality(Holders(h))
            + MapThenSumSet(LAMBDA i : Occurrences(from[i], h) + Occurrences(to[i], h), Threads)
            = 1

\* A run_with_hosts scope that ends without a panic handed every host to a
\* task exactly once, whatever the stealing order.
EachHostVisitedOnce ==
    [][(phase = "running" /\ kind = "hosts" /\ phase' = "idle") =>
          \A h \in Hosts : visits[h] = 1]_vars

\* The debug assertion of scope() (lines 61-64): when the queues are about
\* to be swapped, every "from" queue has been drained.
DrainedBeforeSwap ==
    (phase = "idle" /\ needSwap) => \A i \in Threads : from[i] = <<>>

\* Spec section 8, scenario 2: after a run_with_hosts in which every host
\* went back to the queue of the thread it started on (no task stole a
\* host), the swap in scope() (lines 66-72) restores the partition the run
\* started from, queue by queue and in the same order, because the "from"
\* queues are popped and the "to" queues pushed first-in first-out.
PartitionKeptWithoutStealing ==
    [][(phase = "idle" /\ needSwap /\ phase' = "scoped"
        /\ \A i \in Threads : ToSet(to[i]) \subseteq ToSet(before[i]))
          => from' = before]_vars

\* A task run always ends: the driver's scope returns or fails.
ScopesComplete ==
    (phase = "running") ~> (phase \in {"idle", "failed"})

\* An empty host set is legal and gives no-op tasks (spec section 4.2.b):
\* constructing the scheduler never fails.
ConstructionSucceeds ==
    ~(phase = "failed" /\ ~panicked)

\* Hosts are cleaned up on scheduler join (spec section 3): join releases
\* every host with host_unref.
JoinReleasesAllHosts ==
    (phase = "joined") => (freed = Hosts)

=============================================================================
