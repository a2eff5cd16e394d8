--------------------------- MODULE ChildPidWatcher ---------------------------
(***************************************************************************)
(* The child-pid watcher of src/main/utility/childpid_watcher.rs.          *)
(*                                                                         *)
(* A worker thread owns the pid table and an epoll set watching the       *)
(* command eventfd and, per pid, the read end of a pipe that becomes      *)
(* readable (HUP) when the child exits.  A caller's run_command sends a   *)
(* closure on an mpsc channel, writes 1 to the eventfd, and blocks on a   *)
(* reply channel.  The worker loop: epoll_wait; run the callbacks of       *)
(* exited pids; run every queued command (try_recv until empty); read the  *)
(* eventfd to reset it.                                                    *)
(*                                                                         *)
(* One caller thread drives the API (fork_watchable, unregister_pid,       *)
(* register_callback, unregister_callback, drop); the operating system     *)
(* ends children at any time.  Callbacks are named by their WatchHandle.   *)
(***************************************************************************)
EXTENDS Integers, Sequences, FiniteSets, TLC

CONSTANTS
    Pids,       \* children the caller may fork
    MaxHandles, \* bound: register_callback calls
    MaxOps      \* bound: API calls by the caller

ASSUME MaxHandles \in Nat \ {0} /\ MaxOps \in Nat \ {0}

Handles == 1..MaxHandles
NoPid == "nopid"
NoReply == -1

Cmd == [op: {"register_pid", "unregister_pid", "register_callback", "cancel"}, pid: Pids \cup {NoPid}]
       \cup [op: {"unregister_callback"}, pid: Pids, handle: Handles]

VARIABLES
    child,       \* per pid: "none", "alive" or "exited" (the real process)
    pids,        \* WorkerData.pids: the PidData of each registered pid
    nextHandle,  \* WorkerData.next_handle
    cancelled,   \* WorkerData.cancelled
    chan,        \* the command channel, head first
    notifier,    \* the eventfd counter
    wpc,         \* worker: "wait", "events", "cmds", "read", "exited", "panicked"
    batch,       \* pids whose exit epoll_wait reported in this iteration
    cpc,         \* caller: "idle", "notify", "await", "gone"
    pending,     \* the command the caller is running
    reply,       \* its reply: NoReply until sent, then 0 or the new handle
    view,        \* caller's view of each pid: "none", "registered", "unregistered"
    owned,       \* callbacks the caller registered and has not unregistered: <<pid, handle>>
    retired,     \* handles whose unregister_callback has returned
    ran,         \* handles whose callback has run
    cbPid,       \* the pid each handle was registered for
    ops          \* API calls made

vars == <<child, pids, nextHandle, cancelled, chan, notifier, wpc, batch,
          cpc, pending, reply, view, owned, retired, ran, cbPid, ops>>

PidData == [fd: BOOLEAN, unregistered: BOOLEAN, callbacks: SUBSET Handles]

Registered == DOMAIN pids

-----------------------------------------------------------------------------
(* WorkerData helpers (lines 63-98), on a pid table *)

\* maybe_remove_pid: remove_pid (unwatch, closing the fd) once the pid is
\* unregistered and has no callbacks left.
MaybeRemovePid(tbl, pid) ==
    IF tbl[pid].unregistered /\ tbl[pid].callbacks = {}
       THEN [q \in DOMAIN tbl \ {pid} |-> tbl[q]]
       ELSE tbl

\* Faulty variant of ExitedPid: maybe_remove_pid is not called.
ExitedPidNoRemove(tbl, pid) ==
    [tbl EXCEPT ![pid] = [@ EXCEPT !.fd = FALSE, !.callbacks = {}]]

\* The exit of pid seen by the worker: unwatch_pid, run_callbacks_for_pid
\* (drain), maybe_remove_pid (lines 187-191).
ExitedPid(tbl, pid) ==
    MaybeRemovePid([tbl EXCEPT ![pid] = [@ EXCEPT !.fd = FALSE, !.callbacks = {}]], pid)

RECURSIVE ExitAll(_, _)
ExitAll(tbl, S) ==
    IF S = {} THEN tbl
    ELSE LET pid == CHOOSE q \in S : TRUE IN ExitAll(ExitedPid(tbl, pid), S \ {pid})

CallbacksOf(tbl, S) == UNION {tbl[pid].callbacks : pid \in S}

-----------------------------------------------------------------------------
(* The worker thread: thread_loop (lines 146-212) *)

\* epoll_wait returns once the eventfd is non-zero or a watched pipe hung up.
EpollWait ==
    LET exited == {pid \in Registered : pids[pid].fd /\ child[pid] = "exited"}
    IN  /\ wpc = "wait"
        /\ notifier > 0 \/ exited # {}
        /\ batch' = exited
        /\ wpc' = "events"
        /\ UNCHANGED <<child, pids, nextHandle, cancelled, chan, notifier, cpc,
                       pending, reply, view, owned, retired, ran, cbPid, ops>>

\* Faulty variant of RunExitEvents: callbacks are drained without being called.
RunExitEventsNoRun ==
    /\ wpc = "events"
    /\ pids' = ExitAll(pids, batch)
    /\ wpc' = "cmds"
    /\ UNCHANGED <<child, nextHandle, cancelled, chan, notifier, batch, cpc,
                   pending, reply, view, owned, retired, ran, cbPid, ops>>

\* Run callbacks for the processes that exited (lines 182-192).
RunExitEvents ==
    /\ wpc = "events"
    /\ ran' = ran \cup CallbacksOf(pids, batch)
    /\ pids' = ExitAll(pids, batch)
    /\ wpc' = "cmds"
    /\ UNCHANGED <<child, nextHandle, cancelled, chan, notifier, batch, cpc,
                   pending, reply, view, owned, retired, cbPid, ops>>

\* The closure of register_pid (lines 274-293): insert a fresh PidData
\* watching the pipe; assert!(prev.is_none()) panics the worker when the
\* pid already had an entry.
RegisterPidCmd(c) ==
    /\ pids' = (c.pid :> [fd |-> TRUE, unregistered |-> FALSE, callbacks |-> {}]) @@ pids
    /\ wpc' = IF c.pid \in Registered THEN "panicked" ELSE wpc
    /\ UNCHANGED <<nextHandle, cancelled, ran, cbPid>>

\* Faulty variant of UnregisterPidCmd: maybe_remove_pid is not called.
UnregisterPidCmdNoRemove(c) ==
    /\ pids' = IF c.pid \in Registered
                 THEN [pids EXCEPT ![c.pid].unregistered = TRUE]
                 ELSE pids
    /\ UNCHANGED <<nextHandle, cancelled, ran, cbPid, wpc>>

\* The closure of unregister_pid (lines 308-313).
UnregisterPidCmd(c) ==
    /\ pids' = IF c.pid \in Registered
                 THEN MaybeRemovePid([pids EXCEPT ![c.pid].unregistered = TRUE], c.pid)
                 ELSE pids
    /\ UNCHANGED <<nextHandle, cancelled, ran, cbPid, wpc>>

\* Faulty variant of RegisterCallbackCmd: the dead-pid test is inverted.
RegisterCallbackCmdInverted(c) ==
    /\ nextHandle' = nextHandle + 1
    /\ cbPid' = [cbPid EXCEPT ![nextHandle] = c.pid]
    /\ IF c.pid \notin Registered \/ pids[c.pid].unregistered
          THEN /\ wpc' = "panicked"
               /\ UNCHANGED <<pids, ran>>
       ELSE IF ~pids[c.pid].fd
          THEN /\ pids' = [pids EXCEPT ![c.pid].callbacks = @ \cup {nextHandle}]
               /\ UNCHANGED <<ran, wpc>>
          ELSE /\ ran' = ran \cup {nextHandle}
               /\ UNCHANGED <<pids, wpc>>
    /\ UNCHANGED cancelled

\* The closure of register_callback (lines 330-342): take a fresh handle;
\* get_mut(&pid).unwrap() and assert!(!unregistered) panic the worker when
\* the entry is gone or unregistered; otherwise run the callback at once if
\* the pid's fd is already gone (the child exited), else store it.
RegisterCallbackCmd(c) ==
    /\ nextHandle' = nextHandle + 1
    /\ cbPid' = [cbPid EXCEPT ![nextHandle] = c.pid]
    /\ IF c.pid \notin Registered \/ pids[c.pid].unregistered
          THEN /\ wpc' = "panicked"
               /\ UNCHANGED <<pids, ran>>
       ELSE IF pids[c.pid].fd
          THEN /\ pids' = [pids EXCEPT ![c.pid].callbacks = @ \cup {nextHandle}]
               /\ UNCHANGED <<ran, wpc>>
          ELSE /\ ran' = ran \cup {nextHandle}
               /\ UNCHANGED <<pids, wpc>>
    /\ UNCHANGED cancelled

\* Faulty variant of UnregisterCallbackCmd: the callback is not removed.
UnregisterCallbackCmdKeep(c) ==
    /\ pids' = IF c.pid \in Registered THEN MaybeRemovePid(pids, c.pid) ELSE pids
    /\ UNCHANGED <<nextHandle, cancelled, ran, cbPid, wpc>>

\* The closure of unregister_callback (lines 354-359).
UnregisterCallbackCmd(c) ==
    /\ pids' = IF c.pid \in Registered
                 THEN MaybeRemovePid([pids EXCEPT ![c.pid].callbacks = @ \ {c.handle}], c.pid)
                 ELSE pids
    /\ UNCHANGED <<nextHandle, cancelled, ran, cbPid, wpc>>

\* The closure sent by Drop (lines 373-375).
CancelCmd(c) ==
    /\ cancelled' = TRUE
    /\ UNCHANGED <<pids, nextHandle, ran, cbPid, wpc>>

\* try_recv returned a command (lines 195-197): run its closure, which then
\* sends the reply (the handle for register_callback, () otherwise).
RunCommand ==
    LET c == Head(chan) IN
    /\ wpc = "cmds"
    /\ chan # <<>>
    /\ chan' = Tail(chan)
    /\ reply' = IF c.op = "register_callback" THEN nextHandle ELSE 0
    /\ CASE c.op = "register_pid" -> RegisterPidCmd(c)
         [] c.op = "unregister_pid" -> UnregisterPidCmd(c)
         [] c.op = "register_callback" -> RegisterCallbackCmd(c)
         [] c.op = "unregister_callback" -> UnregisterCallbackCmd(c)
         [] c.op = "cancel" -> CancelCmd(c)
    /\ UNCHANGED <<child, notifier, batch, cpc, pending, view, owned, retired, ops>>

\* try_recv found the channel empty.
CommandsDrained ==
    /\ wpc = "cmds"
    /\ chan = <<>>
    /\ wpc' = "read"
    /\ UNCHANGED <<child, pids, nextHandle, cancelled, chan, notifier, batch, cpc,
                   pending, reply, view, owned, retired, ran, cbPid, ops>>

\* read(command_notifier) resets the eventfd (lines 199-210); the loop
\* condition `while !worker_data.cancelled` is then tested.
ReadNotifier ==
    /\ wpc = "read"
    /\ notifier' = 0
    /\ wpc' = IF cancelled THEN "exited" ELSE "wait"
    /\ UNCHANGED <<child, pids, nextHandle, cancelled, chan, batch, cpc,
                   pending, reply, view, owned, retired, ran, cbPid, ops>>

-----------------------------------------------------------------------------
(* The caller: run_command (lines 128-144) split into its three steps *)

\* command_sender.send(closure), under the sender mutex.
Send(c) ==
    /\ cpc = "idle"
    /\ ops < MaxOps
    /\ chan' = Append(chan, c)
    /\ ops' = ops + 1
    /\ pending' = c
    /\ reply' = NoReply
    /\ cpc' = "notify"
    /\ UNCHANGED <<pids, nextHandle, cancelled, notifier, wpc, batch, view,
                   owned, retired, ran, cbPid>>

\* fork_watchable: fork a child, then register_pid(pid, read_fd) (lines 214-243, 273-295).
ForkWatchable(pid) ==
    /\ child[pid] = "none"
    /\ child' = [child EXCEPT ![pid] = "alive"]
    /\ Send([op |-> "register_pid", pid |-> pid])

\* unregister_pid (lines 307-315), "safe to call multiple times".
UnregisterPid(pid) ==
    /\ view[pid] \in {"registered", "unregistered"}
    /\ Send([op |-> "unregister_pid", pid |-> pid])
    /\ UNCHANGED child

\* register_callback (lines 324-346); only for a pid still registered.
RegisterCallback(pid) ==
    /\ view[pid] = "registered"
    /\ nextHandle <= MaxHandles
    /\ Send([op |-> "register_callback", pid |-> pid])
    /\ UNCHANGED child

\* unregister_callback (lines 353-361).
UnregisterCallback(pid, h) ==
    /\ <<pid, h>> \in owned
    /\ Send([op |-> "unregister_callback", pid |-> pid, handle |-> h])
    /\ UNCHANGED child

\* Drop for ChildPidWatcher (lines 370-380): send the cancel command.
DropWatcher ==
    /\ Send([op |-> "cancel", pid |-> NoPid])
    /\ UNCHANGED child

\* nix::unistd::write(command_notifier, 1).
Notify ==
    /\ cpc = "notify"
    /\ notifier' = notifier + 1
    /\ cpc' = "await"
    /\ UNCHANGED <<child, pids, nextHandle, cancelled, chan, wpc, batch,
                   pending, reply, view, owned, retired, ran, cbPid, ops>>

\* receiver.recv() returns; after the drop's join the caller is gone.
ReplyReceived ==
    LET c == pending IN
    /\ cpc = "await"
    /\ reply # NoReply
    /\ view' = CASE c.op = "register_pid" -> [view EXCEPT ![c.pid] = "registered"]
                 [] c.op = "unregister_pid" -> [view EXCEPT ![c.pid] = "unregistered"]
                 [] OTHER -> view
    /\ owned' = CASE c.op = "register_callback" -> owned \cup {<<c.pid, reply>>}
                  [] c.op = "unregister_callback" -> owned \ {<<c.pid, c.handle>>}
                  [] OTHER -> owned
    /\ retired' = IF c.op = "unregister_callback" THEN retired \cup {c.handle} ELSE retired
    /\ cpc' = IF c.op = "cancel" THEN "gone" ELSE "idle"
    /\ UNCHANGED <<child, pids, nextHandle, cancelled, chan, notifier, wpc, batch,
                   pending, reply, ran, cbPid, ops>>

\* The operating system ends a child; its pipe's write end closes.
ChildExits(pid) ==
    /\ child[pid] = "alive"
    /\ child' = [child EXCEPT ![pid] = "exited"]
    /\ UNCHANGED <<pids, nextHandle, cancelled, chan, notifier, wpc, batch, cpc,
                   pending, reply, view, owned, retired, ran, cbPid, ops>>

\* The caller reaps an exited child with waitpid, after which the kernel
\* may give its pid to a new fork.  As in the module's tests, it does so
\* only once unregister_pid has returned and each callback it registered
\* for the pid has run or been unregistered.  The caller thread is not
\* inside another API call.
Reap(pid) ==
    /\ cpc = "idle"
    /\ child[pid] = "exited" /\ view[pid] = "unregistered"
    /\ \A o \in owned : o[1] = pid => o[2] \in ran
    /\ child' = [child EXCEPT ![pid] = "none"]
    /\ view' = [view EXCEPT ![pid] = "none"]
    /\ owned' = {o \in owned : o[1] # pid}
    /\ UNCHANGED <<pids, nextHandle, cancelled, chan, notifier, wpc, batch, cpc,
                   pending, reply, retired, ran, cbPid, ops>>

\* The watcher has been dropped and its thread joined.
Terminated ==
    /\ cpc = "gone" /\ wpc = "exited"
    /\ UNCHANGED vars

-----------------------------------------------------------------------------

\* ChildPidWatcher::new (lines 109-123): an eventfd at 0, an empty channel,
\* and the worker thread spawned; no caller is inside run_command.
InitWatcher ==
    /\ chan = <<>>
    /\ notifier = 0
    /\ cpc = "idle"
    /\ pending = [op |-> "cancel", pid |-> NoPid]
    /\ reply = NoReply

\* Faulty variant of InitWorker: the handle counter starts at 0, so the
\* first register_callback returns handle 0.
InitWorkerHandleZero ==
    /\ pids = <<>>
    /\ nextHandle = 0
    /\ cancelled = FALSE
    /\ wpc = "wait"
    /\ batch = {}

\* thread_loop's set-up (lines 146-170): an empty WorkerData (no pids, first
\* handle 1, not cancelled) and the first epoll_wait ahead.
InitWorker ==
    /\ pids = <<>>
    /\ nextHandle = 1
    /\ cancelled = FALSE
    /\ wpc = "wait"
    /\ batch = {}

Init ==
    /\ InitWatcher
    /\ InitWorker
    /\ child = [pid \in Pids |-> "none"]
    /\ view = [pid \in Pids |-> "none"]
    /\ owned = {}
    /\ retired = {}
    /\ ran = {}
    /\ cbPid = [h \in Handles |-> NoPid]
    /\ ops = 0

WorkerStep == EpollWait \/ RunExitEvents \/ RunCommand \/ CommandsDrained \/ ReadNotifier

CallerStep ==
    \/ \E pid \in Pids : ForkWatchable(pid) \/ UnregisterPid(pid) \/ RegisterCallback(pid)
    \/ \E o \in owned : UnregisterCallback(o[1], o[2])
    \/ DropWatcher
    \/ Notify \/ ReplyReceived

Next ==
    \/ WorkerStep
    \/ CallerStep
    \/ \E pid \in Pids : ChildExits(pid) \/ Reap(pid)
    \/ Terminated

\* The worker thread always runs when it has something to do, and a caller
\* inside run_command finishes it; nobody is obliged to call the API.
Fairness ==
    /\ WF_vars(WorkerStep)
    /\ WF_vars(Notify \/ ReplyReceived)

Spec == Init /\ [][Next]_vars
FairSpec == Spec /\ Fairness

-----------------------------------------------------------------------------
(* Properties *)

\* Types, with the documented range of handles: a handle returned by
\* register_callback is "guaranteed to be non-zero" (line 321).
TypeOK ==
    /\ child \in [Pids -> {"none", "alive", "exited"}]
    /\ Registered \subseteq Pids /\ \A pid \in Registered : pids[pid] \in PidData
    /\ nextHandle \in 1..MaxHandles + 1
    /\ cancelled \in BOOLEAN
    /\ chan \in Seq(Cmd)
    /\ notifier \in Nat
    /\ wpc \in {"wait", "events", "cmds", "read", "exited", "panicked"}
    /\ batch \subseteq Pids
    /\ cpc \in {"idle", "notify", "await", "gone"}
    /\ pending \in Cmd
    /\ reply \in {NoReply} \cup IF pending.op = "register_callback" THEN Handles ELSE {0}
    /\ view \in [Pids -> {"none", "registered", "unregistered"}]
    /\ owned \subseteq Pids \X Handles
    /\ retired \subseteq Handles /\ ran \subseteq Handles
    /\ cbPid \in [Handles -> Pids \cup {NoPid}]
    /\ ops \in 0..MaxOps

\* No lost wakeup: while the worker sleeps in epoll_wait, every command in
\* the channel has its eventfd write either done (counter non-zero) or still
\* to come from its caller; otherwise the caller blocks until some child
\* happens to exit.
NoLostWakeup ==
    (wpc = "wait" /\ chan # <<>>) => (notifier > 0 \/ cpc = "notify")

\* A callback runs only once its child has exited (register_callback on an
\* already-dead pid runs it at once; otherwise the exit event does).
CallbackAfterExit ==
    [][\A h \in ran' \ ran : child[cbPid'[h]] = "exited"]_vars

\* The worker's asserts never fail for a caller that keeps the API's
\* contract: register_pid's assert!(prev.is_none()) (line 284), even when
\* a reaped pid comes back from a new fork, because whichever of
\* unregister_pid, unregister_callback or the exit event came last removed
\* the old PidData; and register_callback's get_mut(&pid).unwrap() and
\* assert!(!unregistered) (lines 333-334), even for a child that has
\* already exited, because the exit keeps the entry until unregister_pid.
WorkerNeverPanics ==
    wpc # "panicked"

\* The guarantee of unregister_callback (lines 348-350): once it has
\* returned, the callback has either already run or never will.
UnregisteredCallbackNeverRuns ==
    [][\A h \in retired \ ran : h \notin ran']_vars

\* A PidData entry is removed as soon as the pid is unregistered and has no
\* callbacks left (lines 44-46); the table does not leak entries.
NoStaleEntry ==
    \A pid \in Registered : ~(pids[pid].unregistered /\ pids[pid].callbacks = {})

\* A callback registered for a child that exits eventually runs, unless it
\* is unregistered or the watcher is dropped first.
CallbackEventuallyRuns ==
    \A h \in Handles :
        (\E pid \in Registered : h \in pids[pid].callbacks /\ child[pid] = "exited")
            ~> (h \in ran \/ h \in retired \/ cancelled)

=============================================================================
