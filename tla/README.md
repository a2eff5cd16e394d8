# TLA+ models of the schedulers, logger, child-pid watcher and syscall formatting

This directory holds TLA+ specifications of the concurrent parts of the
simulator fragment under `src/`. It also holds the TLC configurations that
check them. Every action is translated from the Rust source. `PROJECT.json`
maps each definition to the source lines it models, and lists every run,
mutant, finding and hazard.

## 1. The system and its parts

| Part | Source | State it owns | Operations |
|---|---|---|---|
| Logger facade | `core/logger/shadow_logger.rs` | the SegQueue `records`, the `buffering_enabled` flag, each thread's cached `Sender` | `log` (push, then the flush policy), `flush`, `flush_sync`, `flush_async`, `set_buffering_enabled`, the panic hook |
| Writer thread | same file | the command `Receiver`, a `BufWriter` over locked stdout | `logger_thread_fn` (recv with a 10 s timeout), `flush_records` |
| Time decomposition | same file, `TimeParts::from_nanos` | none (pure) | nanoseconds to h/m/s/ns |
| Thread-per-core scheduler | `core/scheduler/scheduler.rs` | per thread, two `ArrayQueue<Host>` ("from" = `thread_hosts`, "to" = `thread_hosts_processed`); `hosts_need_swap` | `new`, `scope`, `run`, `run_with_hosts`, `run_with_data`, `join`; `HostIter::next`, `HostIter` drop |
| Thread-per-host scheduler | `core/scheduler/thread_per_host.rs` | one thread-local host slot per thread | `new`, `scope`, `run`, `run_with_hosts`, `run_with_data`, `join`, `HostIter::for_each` |
| Worker pool | not under `src/` (spec section 4.1) | worker threads, the scope barrier | `scope`, `run`, `join` |
| Child pid watcher | `utility/childpid_watcher.rs` | worker thread: pid table, `next_handle`, `cancelled`, epoll set; shared: mpsc command channel, eventfd | `new`, `run_command`, `thread_loop`, `fork_watchable`, `register_pid`, `unregister_pid`, `register_callback`, `unregister_callback`, drop |
| Syscall dispatcher | `host/syscall/handler/mod.rs` | none | `SyscallHandler::syscall`: a match from syscall number to a handler, ENOSYS, native passthrough or panic |
| Context plumbing | `host/context.rs` | none | borrow-splitting wrappers |
| Argument formatting | `host/syscall/type_formatting.rs` | none (pure) | the `SyscallPtrDisplay` impls: a pointer to a value, to an array, an opaque pointer, a C string; each under `FmtOptions::Standard` or `Deterministic` |

How the parts interact:

* **Scheduler.** A driver thread opens a scope on a scheduler. The worker pool runs one task per worker thread and returns when all tasks are done (its barrier). Tasks pull hosts from the scheduler's queues or slot and hand them back.
* **Logger.** Worker threads log through the logger facade. The writer thread drains the queue to stdout.
* **Panic hook.** A panic on any thread runs the logger's panic hook. The hook drains the queue on that thread itself, concurrently with the writer.
* **Watcher.** The watcher's worker thread serves API callers through the command channel plus the eventfd. It runs callbacks when children exit.

## 2. What makes them hard

* **Logger.**
  * Many producers push while the writer drains, and the queue length is read at three places that do not hold a lock: lines 175, 314 and 321.
  * A panic hook can drain at the same time as the writer.
  * The reply to a synchronous flush is ordered against the BufWriter's flush.
  * The timeout is what guarantees progress when nothing else triggers a flush.
* **Thread-per-core scheduler.**
  * Work stealing across the "from" queues.
  * Closures may stop early; the end-of-task asserts must catch that.
  * A panic inside a task must still return the held host (HostIter drop).
  * The swap of "from" and "to" happens on the *next* scope, which interacts with `join`.
* **Thread-per-host scheduler.**
  * Hosts move from a vec into thread-local slots in one pool scope and back in another, and out of the slot into a HostIter and a `for_each` closure in between.
  * Threads outnumber logical processors, so tasks wait for a processor.
  * A closure panic drops the host it holds.
* **Time decomposition.** Carries at exact multiples, and a `u32` conversion that can fail.
* **Watcher.**
  * Wakeups travel through an eventfd that the worker resets *after* draining the channel.
  * A child's exit event races `register_callback` and `unregister_callback`.
  * Entries are removed by whichever of three events comes last.

## 3. Modules

### `ShadowLogger.tla` (and `MC_ShadowLogger.tla`)

* **State.**
  * `records` is the SegQueue; `output` is what reached stdout.
  * `commands` is the mpsc channel. Each entry is the waiting producer, or `NoReply` for `Flush(None)`.
  * `acked` is each producer's reply channel.
  * `buffering`, plus per producer the program counter `pc` and `nextSeq`.
  * `frames` is each thread's stack of `flush_records` activations. A stack, because the writer can panic inside a drain and run the hook's drain on top of it.
  * A record is `<<producer, n>>`. Text, timestamps and formatting are abstracted away.
  * Each frame also carries a history field, `queued`. For a drain started by the panic hook (`HookFrame`, lines 92-100), it holds the records in the queue at the moment of the panic. For any other frame it is empty.
  * A second history field, `sampled`, holds the records in the queue when the frame read `records.len()` (`Sample`). `FlushesOnlyQueuedRecords` compares each pop against it.
* **Producer actions.**
  * `Log` models lines 286-312.
  * `SyncCheck` is the first length read and the error test (314-320). It sends `Flush(Some)` and blocks.
  * `AsyncCheck` is the second, separate length read plus the buffering flag (321-325).
  * `SyncFlushReturn` is `recv` returning an ack, or failing because the sender was dropped. Failure panics, which runs the hook.
  * `Flush` (`Log::flush`), `Panic` (an idle producer panics and its hook drains), `SetBufferingEnabled`.
* **Writer actions.**
  * `WriterRecv` and `WriterTimeout` model `recv_timeout`.
* **Drain steps** (a writer or a hook runs them):
  * `Sample`: `toflush = records.len()`.
  * `Lock`: the stdout reentrant lock. Two threads never hold it at once.
  * `Pop`: pop into the BufWriter. It may also spill the BufWriter to stdout first, as a full 8 KiB buffer does.
  * `PopEmpty`: `pop().unwrap()` on an empty queue. On the writer this runs the hook on top of the current drain; on a hook thread it is a double panic, and the process aborts (`halted`).
  * `FinishDrain`: the ack.
  * `DropWriter`: the BufWriter drop at function exit.
  * `Unwind`: the crashed writer unwinds, flushing its BufWriter and dropping its `done_sender`.
* **Scale.** The thresholds are constants. The code's 100 000 and 10 000 lines are scaled down to 2 and 1 (or 1 and 0), so the boundary cases are reached with a handful of records.

### `NewScheduler.tla`

* **State.**
  * `from`/`to`: per thread, a sequence of hosts.
  * `needSwap`.
  * The driver `phase`, and the task `kind` (`run`, or `run_with_hosts`/`run_with_data`).
  * Per thread: `tpc`, `offset` (the HostIter's `thread_index_iter_offset`) and `current`.
  * `panicked`, `visits` (hosts handed out in the current run) and `freed` (hosts unref'd by join).
  * `before` is a history variable, the `from` queues as the last `RunWithHosts` found them. The code has no such field; only `PartitionKeptWithoutStealing` reads it.
* **Actions.**
  * `New` is lines 16-45, including the zero-capacity panic.
  * `Scope` is 54-88, including the swap.
  * `Run`, `RunWithHosts` and `EndScope`. `EndScope` is the pool barrier, the re-raise of a task panic, and `hosts_need_swap = true`.
  * `Join` is 91-101.
  * Per task: `PlainTask`; `UserCallsNext` (the closure calls `next()`, which first returns the current host); `ScanStep` (one iteration of the loop at 349-365); `UserReturns` (the asserts at 281-282 and 319-320).
  * A popped host in the final `next()` fails the assert. The HostIter drop then returns it to "to".
* **The closure.** It is arbitrary: it may call `next()` again or return at any point.
* **What is not separate.** `run_with_data` differs from `run_with_hosts` only in the data slice it passes, so one action models both. The commented-out code after line 103 is not modelled.

### `ThreadPerHost.tla` (and `MC_ThreadPerHost.tla`)

* **State.**
  * `vec`: the `Vec<Mutex<Option<Box<Host>>>>` of `new` (filled) or `join` (collecting).
  * `slot`: each thread's `host_storage`. `iter`: each task's `HostIter.host`. `lent`: the host a `for_each` closure owns.
  * The driver `phase` and the pool-scope `kind` (`init` for `new`'s hand-off, `plain`, `hosts`, `data`, `collect` for `join`).
  * Per thread: `tpc`, `proc` (the logical processor running its task) and `calls` (`for_each` calls so far).
  * `panicked`, `scopes` and `freed` (hosts dropped after `pool.join`).
  * Host `h` is `hosts[h]`, which `new` hands to the thread with `thread_idx` `h`.
* **Pool actions** (from spec section 4.1, since the pool is not in this repository): `Dispatch` (`runner.run` gives every thread the task), `Start` (a ready thread gets a free logical processor), `Finish` (the task returns and frees it).
* **Driver actions.** `New` (lines 34-50), `Scope` (61-74), `RunTasks` (`run`, `run_with_hosts`, `run_with_data`), `Join` (78-83) and `EndScope` (the barrier, the re-raise of a task panic, and after `join`'s scope the `pool.join` and the drop of the hosts).
* **Task actions.** `InitTake` (44-48), `PlainTask`, `TakeSlot` (125-128), `ForEach` and `ForEachReturns` (178-179), `ClosurePanics` (unwinding drops the HostIter or the moved host), `UserReturns` (132/160) and `Collect` (85-88).

### `HostScheduler.tla`, `NewSchedulerRefinement.tla`

* **`HostScheduler`** is what both schedulers promise (spec section 4.2).
  * The driver runs rounds: `plain` or `hosts`.
  * In a `hosts` round, a worker `Acquire`s a host that nobody holds and that it has not been lent this round. It holds at most one host at a time, and `Release`s it.
  * `EndRound` needs every host released and, in a `hosts` round, every host lent. `Finish` is `join`; `Fail` is a fatal panic.
* **`NewSchedulerRefinement`** maps `NewScheduler` onto it:
  * a host is held by task `i` while it is `current[i]`;
  * the lent set is the hosts with `visits > 0` in a running `hosts` round.
* **`MC_ThreadPerHost`** maps `ThreadPerHost` onto it:
  * a host is held by thread `t` while it is in `t`'s HostIter or `for_each` closure;
  * the lent set is the threads whose task has taken the host out of the slot;
  * `new`'s hand-off scope is an idle stretch, and `join`'s collecting scope is `Finish`.
* Both check `Abs!Spec` as a `PROPERTY`.

### `TimeParts.tla`

* `FromNanos(n)` is `TimeParts::from_nanos`. Its result record carries `panics`, which is true when a `try_from` fails.
* The constants are:
  * `NanosPerSec`, standing for 10^9;
  * `SecsBits` and `MinsBits`, standing for the 64 and 32 bits of the two conversions.
* The reference is the RECURSIVE mixed-radix decomposition `Digits(n, <<NanosPerSec, 60, 60>>)`.
* A counter `n` enumerates the inputs from 0 to `MaxN`.

### `SyscallFormatting.tla`

* **Bytes** are abstracted to their class: `"nul"`, `"graphic"` (ASCII graphic) or `"other"`. The memory behind a pointer is the sequence of its readable bytes.
* **Memory manager.** It is not in this repository. `MemoryRefOk(mem, n)` (`memory_ref` succeeds) and `MemoryRefPrefix(mem, n)` (the readable part of the first `n` bytes) are modelled from how this file uses them.
* **The impls.**
  * `ValueFmt` is the `(options, memory_ref)` match of `simple_pointer_impl` (n = 1) and `simple_array_impl` (n = K).
  * `OpaqueFmt` is `safe_pointer_impl`.
  * `CStrFmt` is the C-string impl. `Collect` is its iterator chain, written as a RECURSIVE operator: bytes are taken until a NUL, and the non-graphic budget is decremented before its `> 0` test.
* **Output.** The output is a record: what is shown (the placeholder, the address, a value or a string), the bytes shown and whether `...` follows.
* **Reference.** `CString` is the bytes before the first NUL in the window of `DISPLAY_LEN + 1` bytes.
* **Enumeration.** Each step formats any impl under any option. The memory grows by one byte per step up to `MaxMem`, then starts again empty, so every memory up to `MaxMem` bytes is checked.

### `ChildPidWatcher.tla`

* **State.**
  * Worker: `pids`, a function from registered pid to `[fd, unregistered, callbacks]`; `nextHandle`; `cancelled`; `wpc`; and `batch`, the exits one `epoll_wait` reported.
  * Shared: `chan`, the command channel, and `notifier`, the eventfd counter.
  * Caller: `cpc`, `pending` and `reply`; `view`, `owned` and `retired`, which record what the API has told the caller.
  * Environment: `child`, the real process state.
  * Ghost: `ran` and `cbPid`.
* **Worker actions** follow `thread_loop` step by step: `EpollWait`, `RunExitEvents`, `RunCommand` (one `try_recv`), `CommandsDrained`, `ReadNotifier`.
* **Command closures.** `RunCommand` runs the closure of the command: `RegisterPidCmd`, `UnregisterPidCmd`, `RegisterCallbackCmd`, `UnregisterCallbackCmd` or `CancelCmd`.
* **Caller actions.**
  * `run_command` is split into its three steps: `Send` (under the mutex), `Notify` (the eventfd write) and `ReplyReceived`.
  * The API calls (`ForkWatchable`, `UnregisterPid`, `RegisterCallback`, `UnregisterCallback`, `DropWatcher`) each start a `Send`.
  * `ChildExits` is the operating system.
  * `Reap` is the caller's `waitpid`, after which a later `ForkWatchable` may get the same pid back. It follows the contract the module's tests keep: reap only once `unregister_pid` has returned and each callback registered for the pid has run or been unregistered. The caller reaps between API calls, since it is one thread.
  * `RegisterPidCmd` models `HashMap::insert`, which replaces an old entry. `assert!(prev.is_none())` after the insert, and `get_mut(&pid).unwrap()` and `assert!(!unregistered)` in `RegisterCallbackCmd`, panic the worker thread (`wpc = "panicked"`). `WorkerNeverPanics` checks that a caller keeping the API contract never makes this happen.
  * `UnregisterPid` may be called again after it has returned, which the doc comment allows ("safe to call multiple times").
* **One caller.** A single caller thread drives the API.

## 4. Runs

| Run | Bounds | Checks | Result |
|---|---|---|---|
| `logger_safety` | 2 producers, 2 records each, async/sync thresholds 1/2, no panic, writer fairness | `TypeOK`, `RecordsConserved`, `PerProducerFifo`, `RecordsEventuallyWritten`, `SyncFlushReturns`, `FlushesOnlyQueuedRecords` | pass (411 k states, about 2 min) |
| `logger_panic` | 2 producers, 2 records, thresholds 0/1, one panic, writer and producer fairness | `RecordsConserved`, `QueueBounded`, `PanicDrainComplete`, `SyncFlushReleased` | pass (1.25 M states, about 2 min) |
| `logger_drain_race` | as `logger_panic` | `WriterNeverCrashes` | **violation** (finding 1) |
| `logger_sync_durability` | 2 producers, 2 records, no panic | `SyncFlushDurable` | **violation** (finding 2) |
| `sched_safety` | 3 threads, 4 hosts, 2 scopes | `TypeOK`, `HostsConserved`, `DrainedBeforeSwap`, `EachHostVisitedOnce`, `ScopesComplete`, `RefinesHostScheduler` (`NewScheduler` implements `HostScheduler`), `PartitionKeptWithoutStealing` | pass (1.04 M states) |
| `sched_join` | 2 threads, 2 hosts, 1 scope | `JoinReleasesAllHosts` | **violation** (finding 3) |
| `sched_no_hosts` | 2 threads, 0 hosts | `ConstructionSucceeds` | **violation** (finding 4) |
| `watcher_safety` | 2 children, 2 handles, 8 API calls | `TypeOK`, `CallbackAfterExit`, `NoStaleEntry`, `UnregisteredCallbackNeverRuns`, `CallbackEventuallyRuns`, `WorkerNeverPanics` | pass (2.6 M states, about 2 min) |
| `watcher_lost_wakeup` | 1 child, 1 handle, 3 calls | `NoLostWakeup` | **violation** (finding 5) |
| `tph_safety` | 3 hosts/threads, 2 logical processors, 2 scopes, 2 `for_each` calls per task | `TypeOK`, `HostsConserved`, `SlotPopulatedBetweenScopes`, `RefinesHostScheduler` | pass (15.7 k states) |
| `timeparts_correct` | 1 s = 3 ns, n ≤ 22 000 (just over 2 h), wide widths | `DecompositionCorrect` | pass |
| `fmt_correct` | `DISPLAY_LEN` = 6 (escape budget 2), K = 3, every memory of up to 7 readable bytes | `CStrEllipsisExact` | pass (26 k states) |

Why the bounds are enough:

* **Logger.** Two producers and a writer give every pairwise interleaving of push, sample, lock and pop.
  * Two records per producer, with thresholds 1 and 2, reach both flush policies, a drain that samples fewer records than are queued, and a lone buffered record that only the timeout flush writes. Three records per producer give 1.6 M states and more under fairness, past the time budget. With two records each the queue cannot pass `SyncThreshold + 2`, so backpressure (`QueueBounded`) is checked by `logger_panic`, whose thresholds 0/1 let four records exceed its bound of three.
  * One panic is enough for a hook drain to race the writer. In `logger_panic`, `PanicDrainComplete` checks that the hook's drain pops off its stack only after every record queued before the panic is on stdout. This includes records the writer had already popped into its own BufWriter: the hook waits for the writer at the stdout lock, which the writer releases only after its `BufWriter` drop.
  * `SyncFlushReleased` is the liveness of `flush_sync` once the writer can die. A producer waiting on the Flush the dying writer was serving is woken by the `RecvError` when the writer drops its `done_sender` while unwinding; it then panics and runs its own hook. A producer whose Flush is still in the channel blocks forever: the receiver lives on in the static `SHADOW_LOGGER`, so `send` succeeds, but no thread reads it. The property exempts exactly that case and an aborted process.
  * `FlushesOnlyQueuedRecords` is the drain-exact-N property of spec section 8. It is checked without panics. With a panic, a hook drain can take the records the writer sampled, and the writer then pops later ones; that is the same race as finding 1.
* **Scheduler.** Three threads and four hosts make the queues uneven (1 thread owns 2 hosts), so stealing happens. Two scopes swap the queues once, after a `run_with_hosts` scope, and the refinement is checked through that swap.
* **Thread-per-host.** Three threads on two processors make one thread wait for a processor.
  * Two scopes put a `run_with_hosts` or `run_with_data` round between the hand-off and the collection.
  * Two `for_each` calls per task reach a host that leaves and re-enters the HostIter twice.
* **TimeParts.** Scaling one second to 3 ns keeps every carry: nanos to secs every 3, secs to mins every 180, mins to hours every 10 800. It also lets every input up to two hours be enumerated.
* **Formatting.** `DISPLAY_LEN` = 6 keeps the code's shape: the budget `6 / 3 = 2` still lets one escape through before the ellipsis.
  * Seven bytes are enough to reach every path: a full window of `DISPLAY_LEN + 1` bytes, a string of exactly `DISPLAY_LEN` bytes followed by NUL, and budget exhaustion before the length limit.
  * They also reach memory that ends before any NUL, and memory that is not readable at all.
* **Watcher.** Two children and eight calls cover:
  * registering a callback before and after the exit;
  * unregistering a callback and a pid in both orders;
  * dropping the watcher with work pending.
  * reaping a child and forking again with the same pid. Three calls (fork, `unregister_pid`, fork) reach the reuse; with callbacks, it takes up to six.

**Mutants.** Every property of every passing run is shown to detect a plausible bug: the module defines a faulty variant of an action (`…LoopGeq`, `…NoFlush`, `…OffByOne`, `…NoSwap`, …) just before the action. `PROJECT.json` "mutants" lists them. TLC reports the property violated when the variant replaces the action.

## 5. Fairness

* **Logger.** `WF` on the writer's step: `logger_thread_fn` loops forever and `recv_timeout` always returns within 10 s. `WF` on each producer's non-optional steps: a thread inside `log` or `flush_sync` is not descheduled forever. Logging itself, explicit flushes, panics and the buffering toggle are optional. `logger_safety` and `logger_panic` run under this fairness, without symmetry, which TLC does not support for liveness. A dead writer's step is never enabled again, so its fairness asks nothing of it.
* **Scheduler.** `WF` on each task: the closure is assumed to terminate, which the spec requires of user closures. `WF` on `EndScope`: the pool's barrier releases the driver.
* **Thread-per-host.** `WF` on each thread's `Start`: the pool gives a ready thread a processor once one stays free. `WF` on each thread's task step: closures terminate, and they make at most `MaxForEach` `for_each` calls. `WF` on `EndScope`: the barrier. Nothing forces the driver to call `join`.
* **Watcher.** `WF` on the worker step: the thread loops. `WF` on `Notify ∨ ReplyReceived`: a caller inside `run_command` completes its steps. API calls are optional.

## 6. Findings

1. **Drain race** (`logger_drain_race`, shadow_logger.rs:175/181).
   * The hook's drain can empty the queue between the writer's length sample and its lock. `pop().unwrap()` then panics, and the writer thread dies.
   * After that, every `flush_sync` hangs.
   * On a hook thread the same race is a panic in the panic hook, which aborts the process.
2. **Ack before flush** (`logger_sync_durability`, shadow_logger.rs:236-242). `flush_sync` returns before the records are written, because the BufWriter is flushed only when it is dropped at function exit.
3. **join leaks hosts** (`sched_join`, scheduler.rs:95). After a `run_with_hosts`, the hosts are in `thread_hosts_processed`. `join` only unrefs `thread_hosts`, so no host is released.
4. **Zero hosts** (`sched_no_hosts`, scheduler.rs:27). `ArrayQueue::new(0)` panics, but the spec says an empty host set is legal.
5. **Lost wakeup** (`watcher_lost_wakeup`, childpid_watcher.rs:195-203). The eventfd is reset after the channel is drained. A command sent in between is stranded, and its caller blocks.

Two remarks that are not findings.

* **TimeParts is partial.** `TimeParts::from_nanos` is partial (shadow_logger.rs:43). `u32::try_from(whole_secs / 60).unwrap()` panics from 2^32 minutes on, about 8171 years, although the spec states the decomposition for every `n >= 0`. `FromNanos` keeps the width as `MinsBits`: with `MinsBits = 7`, `panics` becomes true at n = 128·60·`NanosPerSec`. No run checks this, because no realistic wall or simulated time reaches it.
* **Partition kept across scopes.** `PartitionKeptWithoutStealing` is spec section 8, scenario 2. When no task stole a host in a `run_with_hosts` round, every host went back to the "to" queue of its own thread. The swap at the next `scope()` must then give back the round's starting partition, queue by queue and in the same order. This holds only because both ArrayQueues are FIFO. A LIFO push in `return_current_host` (the mutant `ReturnCurrentHostFront`) reverses queue 0 = [0, 3], so the run needs a queue of two hosts. With 4 hosts over 3 threads it has one, and rounds both with and without stealing are reached.
* **A debug assertion does not compile.** the debug assertion at scheduler.rs:61-64 iterates `self.thread_hosts` by value through `&mut self`, so it does not compile with debug assertions. The model checks the property it meant to assert (`DrainedBeforeSwap`).

## 7. Not modelled, and why

* The syscall dispatch table (`handler/mod.rs`) is a constant match with no state and no concurrency. A model would restate the table, and the handlers it calls are not in this repository.
  * By reading, it agrees with spec section 6, including the three custom `SYS_shadow_*` numbers.
  * It calls `ThreadContextObjs::from_syscallhandler(host, csys)` and `objs.with_ctx`. In `context.rs`, `from_syscallhandler` takes one argument and the type offers `borrow()`. The two files do not compile together as they stand. This does not affect any model.
* A callback that calls back into the `ChildPidWatcher` runs on the worker thread and deadlocks it: its command waits for a reply only the worker could send. The model's callbacks make no calls, so this is listed as a hazard without a property.
* The worker pool is not under `src/`. It is modelled from the spec: the barrier, and in `ThreadPerHost` the one-task-per-processor rule.
  * `run_with_data`'s guarantee that no two tasks share `data[processor_idx]` rests on that rule alone, so it is not checked as a property of this repository's code.
* `ThreadPerHostSched`'s core affinity and the panic of the `new` assertion (the slot is always empty there) are left out.
* `context.rs` has no state transitions.
* In `type_formatting.rs`, `simple_display_impl`, `simple_debug_impl` and the `TryFromSyscallReg` conversions only delegate to `Display`, `Debug` or `from_bits`. The escaping done by `CString`'s `Debug` is layout, and no property is about it.
* The C FFI wrappers at the end of `childpid_watcher.rs` call the modelled methods and nothing else.
* The fork failure path (`raw_pid < 0`) only returns an error before anything is registered.
* Record formatting, level filtering (`enabled`), CPU affinity and I/O errors on stdout are left out. No property distinguishes them.

## 8. Decided against, and left open

1. An abstract logger (one FIFO channel per producer into stdout) was dropped. A refinement to it would only restate `RecordsConserved` and `PerProducerFifo`.
2. Commands sent after the cancel command are not a hazard. `Drop` takes `&mut self`, so no other caller can hold the watcher then. Several concurrent callers would add only interleavings of `Send` and `Notify` that `NoLostWakeup` already covers with one caller.
3. No liveness property says that `ThreadPerHost::join` eventually frees every host. Dropping a `Box<Host>` frees it whether or not the collecting task stored it in the vec. What is left is host conservation (`HostsConserved`) plus the fairness of the pool, which is modelled from the spec. `freed` is kept as the state `EndScope` produces.
4. No property restates the `FmtOptions::Deterministic` arms of `type_formatting.rs`. Each one prints the literal placeholder, whatever the memory holds.
5. The type invariants state the ranges the code guarantees, not only the types:
   * in `ShadowLogger`, a drain's `toflush` is a usize that counts down from the sampled length, and its mutant `PopLoopGeq` writes the loop test as `toflush >= 0`;
   * in `ChildPidWatcher`, a `register_callback` reply is a non-zero handle (line 321), and its mutant `InitWorkerHandleZero` starts `next_handle` at 0.
6. Left open: a liveness check of `ThreadPerHost` rounds under a driver that does not stop, and a `ThreadPerHost` run with as many processors as threads. The bounded driver already ends every round, and the current processor count is the one that makes the pool's one-task-per-processor rule bite.
