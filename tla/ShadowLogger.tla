---------------------------- MODULE ShadowLogger ----------------------------
(***************************************************************************)
(* The asynchronous logger of src/main/core/logger/shadow_logger.rs.       *)
(*                                                                         *)
(* Producer threads push records into the lock-free queue `records`       *)
(* (a SegQueue) and then apply the flush policy: a synchronous flush       *)
(* (send Flush(reply) and block for the ack) on an error record or when    *)
(* the queue is past SyncThreshold, an asynchronous flush (send Flush(None))*)
(* past AsyncThreshold or when buffering is disabled.  The writer thread   *)
(* loops on recv_timeout over the command channel and drains the queue.   *)
(* Any thread that panics runs the panic hook, which drains the queue on  *)
(* the panicking thread itself.                                            *)
(*                                                                         *)
(* A drain (flush_records) is a frame with four stages, one per atomic     *)
(* step of the code: "sample" (read records.len()), "lock" (take the       *)
(* reentrant stdout lock), "pop" (pop toflush records into the BufWriter), *)
(* then "drop" (the ack has been sent; the BufWriter and the lock are      *)
(* dropped at function exit).  A thread's frames form a stack because the *)
(* writer may panic inside a drain and run the hook's drain on top of it;  *)
(* the interrupted frame then waits in stage "unwind".                     *)
(*                                                                         *)
(* A record is <<producer, n>>: the n-th record that producer logged.      *)
(* Message text, timestamps and formatting are not modelled.               *)
(***************************************************************************)
EXTENDS Integers, Sequences, FiniteSets, SequencesExt

CONSTANTS
    Producers,      \* threads that log (simulation workers)
    Writer,         \* the "shadow-logger" thread
    NoReply,        \* Flush(None): a flush nobody waits for
    MaxLogs,        \* bound: records logged per producer
    AsyncThreshold, \* ASYNC_FLUSH_QD_LINES_THRESHOLD, scaled down
    SyncThreshold,  \* SYNC_FLUSH_QD_LINES_THRESHOLD, scaled down
    MaxPanics       \* bound: producer panics (each runs the panic hook)

ASSUME /\ Producers # {} /\ Writer \notin Producers /\ NoReply \notin Producers
       /\ MaxLogs \in Nat \ {0} /\ MaxPanics \in Nat
       /\ AsyncThreshold \in Nat /\ SyncThreshold \in Nat
       /\ AsyncThreshold < SyncThreshold

VARIABLES
    records,    \* the SegQueue of log records, head first
    output,     \* what has reached stdout, in order
    commands,   \* the mpsc command channel: Flush(reply) with reply a waiter or NoReply
    acked,      \* per producer: state of its sync-flush reply channel
    buffering,  \* the buffering_enabled RwLock<bool>
    level,      \* level of the record a producer is applying the policy to
    nextSeq,    \* per producer: number of records logged so far
    pc,         \* control state of every thread
    frames,     \* per thread: stack of flush_records activations
    panics,     \* number of producer panics so far
    halted      \* the process aborted (a panic inside the panic hook)

vars == <<records, output, commands, acked, buffering, level, nextSeq,
          pc, frames, panics, halted>>

Threads == Producers \cup {Writer}
Levels == {"error", "info"}
Rec == Producers \X (1..MaxLogs)
Stages == {"sample", "lock", "pop", "drop", "unwind"}
Frame == [reply: Producers \cup {NoReply}, stage: Stages,
          toflush: 0..Cardinality(Rec), buf: Seq(Rec), queued: SUBSET Rec,
          sampled: SUBSET Rec]

-----------------------------------------------------------------------------
(* Helpers *)

\* A fresh activation of flush_records(done_sender).  `queued` and
\* `sampled` are history only: for the panic hook's activation, the records
\* queued when the thread panicked (empty for every other activation); and
\* the records queued when the activation read records.len().
NewFrame(reply) == [reply |-> reply, stage |-> "sample", toflush |-> 0, buf |-> <<>>,
                    queued |-> {}, sampled |-> {}]

\* The activation the panic hook starts on a producer that panics now.
HookFrame == [NewFrame(NoReply) EXCEPT !.queued = ToSet(records)]

Top(t) == frames[t][Len(frames[t])]

\* Replace the innermost activation of thread t.
SetTop(t, f) == frames' = [frames EXCEPT ![t][Len(frames[t])] = f]

\* The stdout ReentrantMutex is held by t while one of its activations is
\* between `stdout_unlocked.lock()` and the end of flush_records.
HoldsStdout(t) == \E i \in 1..Len(frames[t]) : frames[t][i].stage \in {"pop", "drop", "unwind"}

\* Ends the last activation of a thread: a writer flush returns to its loop,
\* a panic hook returns to the default handler and the thread dies.
AfterFrames(t, rest) ==
    pc' = [pc EXCEPT ![t] = IF rest # <<>> THEN @
                            ELSE IF @ = "flush" THEN "recv" ELSE "dead"]

-----------------------------------------------------------------------------
(* Producers: ShadowLogger::log, flush_sync, and the panic hook *)

\* log(): format, enrich and push the record (lines 286-312).
Log(p, lvl) ==
    /\ ~halted
    /\ pc[p] = "idle"
    /\ nextSeq[p] < MaxLogs
    /\ records' = Append(records, <<p, nextSeq[p] + 1>>)
    /\ nextSeq' = [nextSeq EXCEPT ![p] = @ + 1]
    /\ level' = [level EXCEPT ![p] = lvl]
    /\ pc' = [pc EXCEPT ![p] = "sync_check"]
    /\ UNCHANGED <<output, commands, acked, buffering, frames, panics, halted>>

\* Faulty variant of SyncCheck: only error records flush synchronously,
\* the queue-length ceiling is forgotten.
SyncCheckErrorOnly(p) ==
    /\ ~halted
    /\ pc[p] = "sync_check"
    /\ \/ /\ level[p] = "error"
          /\ commands' = Append(commands, p)
          /\ pc' = [pc EXCEPT ![p] = "wait"]
       \/ /\ level[p] # "error"
          /\ pc' = [pc EXCEPT ![p] = "async_check"]
          /\ UNCHANGED commands
    /\ UNCHANGED <<records, output, acked, buffering, level, nextSeq, frames, panics, halted>>

\* First read of records.len(): error level or past the hard ceiling sends
\* Flush(Some(done_sender)) and blocks on done_receiver (lines 314-320, 258-262).
SyncCheck(p) ==
    /\ ~halted
    /\ pc[p] = "sync_check"
    /\ \/ /\ level[p] = "error" \/ Len(records) > SyncThreshold
          /\ commands' = Append(commands, p)
          /\ pc' = [pc EXCEPT ![p] = "wait"]
       \/ /\ ~(level[p] = "error" \/ Len(records) > SyncThreshold)
          /\ pc' = [pc EXCEPT ![p] = "async_check"]
          /\ UNCHANGED commands
    /\ UNCHANGED <<records, output, acked, buffering, level, nextSeq, frames, panics, halted>>

\* Second, separate read of records.len() and of the buffering flag
\* (lines 321-325): sends Flush(None) without waiting.
AsyncCheck(p) ==
    /\ ~halted
    /\ pc[p] = "async_check"
    /\ IF Len(records) > AsyncThreshold \/ ~buffering
          THEN commands' = Append(commands, NoReply)
          ELSE UNCHANGED commands
    /\ pc' = [pc EXCEPT ![p] = "idle"]
    /\ UNCHANGED <<records, output, acked, buffering, level, nextSeq, frames, panics, halted>>

\* done_receiver.recv().unwrap() (line 261): returns on the ack; panics
\* (and so runs the panic hook) when the writer dropped done_sender.
SyncFlushReturn(p) ==
    /\ ~halted
    /\ pc[p] = "wait"
    /\ acked[p] # "none"
    /\ acked' = [acked EXCEPT ![p] = "none"]
    /\ IF acked[p] = "ack"
          THEN /\ pc' = [pc EXCEPT ![p] = "idle"]
               /\ UNCHANGED frames
          ELSE /\ pc' = [pc EXCEPT ![p] = "hook"]
               /\ frames' = [frames EXCEPT ![p] = <<HookFrame>>]
    /\ UNCHANGED <<records, output, commands, buffering, level, nextSeq, panics, halted>>

\* Log::flush (lines 328-330): an explicit flush_sync by an idle producer.
Flush(p) ==
    /\ ~halted
    /\ pc[p] = "idle"
    /\ commands' = Append(commands, p)
    /\ pc' = [pc EXCEPT ![p] = "wait"]
    /\ UNCHANGED <<records, output, acked, buffering, level, nextSeq, frames, panics, halted>>

\* An idle producer panics; the hook calls flush_records(None) on this
\* thread (lines 92-100).
Panic(p) ==
    /\ ~halted
    /\ pc[p] = "idle"
    /\ panics < MaxPanics
    /\ panics' = panics + 1
    /\ frames' = [frames EXCEPT ![p] = <<HookFrame>>]
    /\ pc' = [pc EXCEPT ![p] = "hook"]
    /\ UNCHANGED <<records, output, commands, acked, buffering, level, nextSeq, halted>>

\* set_buffering_enabled (lines 247-250), from any administrative path.
SetBufferingEnabled(b) ==
    /\ ~halted
    /\ buffering' = b
    /\ UNCHANGED <<records, output, commands, acked, level, nextSeq, pc, frames, panics, halted>>

-----------------------------------------------------------------------------
(* The writer thread: logger_thread_fn (lines 148-162) *)

\* recv_timeout returns Ok(Flush(done_sender)).
WriterRecv ==
    /\ ~halted
    /\ pc[Writer] = "recv"
    /\ commands # <<>>
    /\ frames' = [frames EXCEPT ![Writer] = <<NewFrame(Head(commands))>>]
    /\ commands' = Tail(commands)
    /\ pc' = [pc EXCEPT ![Writer] = "flush"]
    /\ UNCHANGED <<records, output, acked, buffering, level, nextSeq, panics, halted>>

\* Faulty variant of WriterTimeout: a timeout does not flush.
WriterTimeoutIdle ==
    /\ ~halted
    /\ pc[Writer] = "recv"
    /\ commands = <<>>
    /\ UNCHANGED vars

\* recv_timeout returns Err(Timeout) after MIN_FLUSH_FREQUENCY with no command.
WriterTimeout ==
    /\ ~halted
    /\ pc[Writer] = "recv"
    /\ commands = <<>>
    /\ frames' = [frames EXCEPT ![Writer] = <<NewFrame(NoReply)>>]
    /\ pc' = [pc EXCEPT ![Writer] = "flush"]
    /\ UNCHANGED <<records, output, commands, acked, buffering, level, nextSeq, panics, halted>>

-----------------------------------------------------------------------------
(* flush_records (lines 167-242), on the writer or in a panic hook *)

\* let mut toflush = self.records.len(), read before the stdout lock.
Sample(t) ==
    /\ ~halted
    /\ frames[t] # <<>>
    /\ Top(t).stage = "sample"
    /\ SetTop(t, [Top(t) EXCEPT !.toflush = Len(records), !.stage = "lock",
                                 !.sampled = ToSet(records)])
    /\ UNCHANGED <<records, output, commands, acked, buffering, level, nextSeq, pc, panics, halted>>

\* Faulty variant of Lock: the queue length is read again once the lock is
\* held, so records pushed meanwhile join this drain.
LockResample(t) ==
    /\ ~halted
    /\ frames[t] # <<>>
    /\ Top(t).stage = "lock"
    /\ \A u \in Threads \ {t} : ~HoldsStdout(u)
    /\ SetTop(t, [Top(t) EXCEPT !.stage = "pop", !.toflush = Len(records)])
    /\ UNCHANGED <<records, output, commands, acked, buffering, level, nextSeq, pc, panics, halted>>

\* Faulty variant of Lock: a drain with nothing to write skips the lock.
LockNotExclusive(t) ==
    /\ ~halted
    /\ frames[t] # <<>>
    /\ Top(t).stage = "lock"
    /\ Top(t).toflush > 0 => \A u \in Threads \ {t} : ~HoldsStdout(u)
    /\ SetTop(t, [Top(t) EXCEPT !.stage = "pop"])
    /\ UNCHANGED <<records, output, commands, acked, buffering, level, nextSeq, pc, panics, halted>>

\* stdout().lock(): a ReentrantMutex, so a thread may take it again.
Lock(t) ==
    /\ ~halted
    /\ frames[t] # <<>>
    /\ Top(t).stage = "lock"
    /\ \A u \in Threads \ {t} : ~HoldsStdout(u)
    /\ SetTop(t, [Top(t) EXCEPT !.stage = "pop"])
    /\ UNCHANGED <<records, output, commands, acked, buffering, level, nextSeq, pc, panics, halted>>

\* Faulty variant of Pop: a record too large for the buffer is written
\* straight to stdout ahead of what is still buffered.
PopBypassBuffer(t) ==
    /\ ~halted
    /\ frames[t] # <<>>
    /\ Top(t).stage = "pop"
    /\ Top(t).toflush > 0
    /\ records # <<>>
    /\ records' = Tail(records)
    /\ \/ /\ SetTop(t, [Top(t) EXCEPT !.toflush = @ - 1, !.buf = Append(@, Head(records))])
          /\ UNCHANGED output
       \/ /\ Top(t).buf # <<>>
          /\ output' = Append(output, Head(records))
          /\ SetTop(t, [Top(t) EXCEPT !.toflush = @ - 1])
    /\ UNCHANGED <<commands, acked, buffering, level, nextSeq, pc, panics, halted>>

\* Faulty variant of Pop: the loop test is written `while toflush >= 0`
\* (always true for a usize), so the drain pops one record more than it
\* sampled and `toflush -= 1` underflows.
PopLoopGeq(t) ==
    /\ ~halted
    /\ frames[t] # <<>>
    /\ Top(t).stage = "pop"
    /\ Top(t).toflush >= 0
    /\ records # <<>>
    /\ records' = Tail(records)
    /\ \/ /\ SetTop(t, [Top(t) EXCEPT !.toflush = @ - 1, !.buf = Append(@, Head(records))])
          /\ UNCHANGED output
       \/ /\ Top(t).buf # <<>>
          /\ output' = output \o Top(t).buf
          /\ SetTop(t, [Top(t) EXCEPT !.toflush = @ - 1, !.buf = <<Head(records)>>])
    /\ UNCHANGED <<commands, acked, buffering, level, nextSeq, pc, panics, halted>>

\* records.pop().unwrap() and write! into the BufWriter, which first spills
\* its contents to stdout when the record does not fit.
Pop(t) ==
    /\ ~halted
    /\ frames[t] # <<>>
    /\ Top(t).stage = "pop"
    /\ Top(t).toflush > 0
    /\ records # <<>>
    /\ records' = Tail(records)
    /\ \/ /\ SetTop(t, [Top(t) EXCEPT !.toflush = @ - 1, !.buf = Append(@, Head(records))])
          /\ UNCHANGED output
       \/ /\ Top(t).buf # <<>>
          /\ output' = output \o Top(t).buf
          /\ SetTop(t, [Top(t) EXCEPT !.toflush = @ - 1, !.buf = <<Head(records)>>])
    /\ UNCHANGED <<commands, acked, buffering, level, nextSeq, pc, panics, halted>>

\* records.pop() returned None: unwrap panics.  On the writer the panic hook
\* drains on top of the interrupted activation; inside a panic hook it is a
\* panic while panicking, and the process aborts.
PopEmpty(t) ==
    /\ ~halted
    /\ frames[t] # <<>>
    /\ Top(t).stage = "pop"
    /\ Top(t).toflush > 0
    /\ records = <<>>
    /\ \/ /\ pc[t] = "flush"
          /\ frames' = [frames EXCEPT ![t] = Append([@ EXCEPT ![Len(@)].stage = "unwind"],
                                                    HookFrame)]
          /\ pc' = [pc EXCEPT ![t] = "hook"]
          /\ UNCHANGED halted
       \/ /\ pc[t] = "hook"
          /\ halted' = TRUE
          /\ UNCHANGED <<frames, pc>>
    /\ UNCHANGED <<records, output, commands, acked, buffering, level, nextSeq, panics>>

\* Faulty variant of FinishDrain: the reply is never sent.
FinishDrainNoAck(t) ==
    /\ ~halted
    /\ frames[t] # <<>>
    /\ Top(t).stage = "pop"
    /\ Top(t).toflush = 0
    /\ SetTop(t, [Top(t) EXCEPT !.stage = "drop"])
    /\ UNCHANGED <<records, output, commands, acked, buffering, level, nextSeq, pc, panics, halted>>

\* toflush reached 0: done_sender.send(()) (lines 236-240), before the
\* BufWriter has been flushed.
FinishDrain(t) ==
    /\ ~halted
    /\ frames[t] # <<>>
    /\ Top(t).stage = "pop"
    /\ Top(t).toflush = 0
    /\ acked' = IF Top(t).reply # NoReply THEN [acked EXCEPT ![Top(t).reply] = "ack"] ELSE acked
    /\ SetTop(t, [Top(t) EXCEPT !.stage = "drop"])
    /\ UNCHANGED <<records, output, commands, buffering, level, nextSeq, pc, panics, halted>>

\* Faulty variant of DropWriter: the BufWriter is discarded unflushed.
DropWriterNoFlush(t) ==
    /\ ~halted
    /\ frames[t] # <<>>
    /\ Top(t).stage = "drop"
    /\ frames' = [frames EXCEPT ![t] = Front(@)]
    /\ AfterFrames(t, Front(frames[t]))
    /\ UNCHANGED <<records, output, commands, acked, buffering, level, nextSeq, panics, halted>>

\* Function exit: the BufWriter is dropped (flushed to stdout), then the lock.
DropWriter(t) ==
    /\ ~halted
    /\ frames[t] # <<>>
    /\ Top(t).stage = "drop"
    /\ output' = output \o Top(t).buf
    /\ frames' = [frames EXCEPT ![t] = Front(@)]
    /\ AfterFrames(t, Front(frames[t]))
    /\ UNCHANGED <<records, commands, acked, buffering, level, nextSeq, panics, halted>>

\* Faulty variant of Unwind: unwinding discards the buffered records.
UnwindNoFlush(t) ==
    /\ ~halted
    /\ frames[t] # <<>>
    /\ Top(t).stage = "unwind"
    /\ acked' = IF Top(t).reply # NoReply THEN [acked EXCEPT ![Top(t).reply] = "dropped"] ELSE acked
    /\ frames' = [frames EXCEPT ![t] = Front(@)]
    /\ pc' = [pc EXCEPT ![t] = "dead"]
    /\ UNCHANGED <<records, output, commands, buffering, level, nextSeq, panics, halted>>

\* Faulty variant of Unwind: the done_sender outlives the dead writer, so
\* its waiter is never told.
UnwindKeepSender(t) ==
    /\ ~halted
    /\ frames[t] # <<>>
    /\ Top(t).stage = "unwind"
    /\ output' = output \o Top(t).buf
    /\ frames' = [frames EXCEPT ![t] = Front(@)]
    /\ pc' = [pc EXCEPT ![t] = "dead"]
    /\ UNCHANGED <<records, commands, acked, buffering, level, nextSeq, panics, halted>>

\* After the hook, the panicking writer unwinds out of the interrupted
\* activation: its BufWriter is flushed and its done_sender dropped, which
\* makes a waiting producer's recv() fail.  The writer thread is gone.
Unwind(t) ==
    /\ ~halted
    /\ frames[t] # <<>>
    /\ Top(t).stage = "unwind"
    /\ output' = output \o Top(t).buf
    /\ acked' = IF Top(t).reply # NoReply THEN [acked EXCEPT ![Top(t).reply] = "dropped"] ELSE acked
    /\ frames' = [frames EXCEPT ![t] = Front(@)]
    /\ pc' = [pc EXCEPT ![t] = "dead"]
    /\ UNCHANGED <<records, commands, buffering, level, nextSeq, panics, halted>>

-----------------------------------------------------------------------------

Init ==
    /\ records = <<>>
    /\ output = <<>>
    /\ commands = <<>>
    /\ acked = [p \in Producers |-> "none"]
    /\ buffering = FALSE
    /\ level = [p \in Producers |-> "info"]
    /\ nextSeq = [p \in Producers |-> 0]
    /\ pc = [t \in Threads |-> IF t = Writer THEN "recv" ELSE "idle"]
    /\ frames = [t \in Threads |-> <<>>]
    /\ panics = 0
    /\ halted = FALSE

DrainStep(t) ==
    Sample(t) \/ Lock(t) \/ Pop(t) \/ PopEmpty(t) \/ FinishDrain(t) \/ DropWriter(t) \/ Unwind(t)

WriterStep == WriterRecv \/ WriterTimeout \/ DrainStep(Writer)

ProducerStep(p) ==
    \/ \E lvl \in Levels : Log(p, lvl)
    \/ SyncCheck(p) \/ AsyncCheck(p) \/ SyncFlushReturn(p) \/ Flush(p) \/ Panic(p)
    \/ DrainStep(p)

\* No thread takes a step once the process has aborted (halted).
Next ==
    \/ WriterStep
    \/ \E p \in Producers : ProducerStep(p)
    \/ \E b \in BOOLEAN : SetBufferingEnabled(b)

\* The writer loops forever and a running producer is not descheduled for
\* good; only logging itself (Log), explicit flushes, panics and the toggle
\* are optional.
Fairness ==
    /\ WF_vars(WriterStep)
    /\ \A p \in Producers :
          WF_vars(SyncCheck(p) \/ AsyncCheck(p) \/ SyncFlushReturn(p) \/ DrainStep(p))

Spec == Init /\ [][Next]_vars
FairSpec == Spec /\ Fairness

-----------------------------------------------------------------------------
(* Properties *)

\* Types; a drain's toflush is a usize that counts down from the sampled
\* queue length (lines 175-182) and never leaves 0..|records|.
TypeOK ==
    /\ records \in Seq(Rec)
    /\ output \in Seq(Rec)
    /\ commands \in Seq(Producers \cup {NoReply})
    /\ acked \in [Producers -> {"none", "ack", "dropped"}]
    /\ buffering \in BOOLEAN
    /\ level \in [Producers -> Levels]
    /\ nextSeq \in [Producers -> 0..MaxLogs]
    /\ pc \in [Threads -> {"idle", "sync_check", "async_check", "wait", "hook",
                           "recv", "flush", "dead"}]
    /\ frames \in [Threads -> Seq(Frame)]
    /\ panics \in 0..MaxPanics
    /\ halted \in BOOLEAN

Logged == {r \in Rec : r[2] <= nextSeq[r[1]]}

Occurrences(s, r) == Cardinality({i \in 1..Len(s) : s[i] = r})

\* Copies of r in the queue, on stdout and in every BufWriter of every activation.
Copies(r) ==
    Occurrences(records, r) + Occurrences(output, r)
    + MapThenSumSet(LAMBDA ti : Occurrences(frames[ti[1]][ti[2]].buf, r),
                    {ti \in Threads \X (1..2) : ti[2] <= Len(frames[ti[1]])})

\* Record conservation: however the writer, the panic hooks and the
\* producers interleave, every logged record is held in exactly one place
\* (the queue, one BufWriter, or stdout): a drain never loses or repeats one.
RecordsConserved ==
    \A r \in Rec : Copies(r) = IF r \in Logged THEN 1 ELSE 0

\* Order per producer (spec section 5): the records of one producer reach
\* stdout in the order it logged them, with none skipped.
PerProducerFifo ==
    \A p \in Producers :
        LET mine == SelectSeq(output, LAMBDA r : r[1] = p)
        IN  mine = [i \in 1..Len(mine) |-> <<p, i>>]

\* Backpressure (spec section 8): because a producer that sees the queue
\* past SYNC_FLUSH_QD_LINES_THRESHOLD blocks until the writer drains, the
\* queue never exceeds the threshold by more than one record per producer.
QueueBounded ==
    Len(records) <= SyncThreshold + Cardinality(Producers)

\* The writer thread never dies and no drain aborts the process: the only
\* failure of flush_records the spec admits is an I/O error (section 7).
WriterNeverCrashes ==
    ~halted /\ pc[Writer] \in {"recv", "flush"}

\* Synchronous-flush durability (spec section 8): when flush_sync returns
\* to a producer, every record that producer logged is already on stdout.
SyncFlushDurable ==
    [][\A p \in Producers :
          (pc[p] = "wait" /\ pc'[p] = "idle") =>
              \A n \in 1..nextSeq[p] : <<p, n>> \in ToSet(output')]_vars

\* Panic-path drain (spec section 8, scenario 6; panic hook lines 92-100):
\* when the hook's flush_records returns and the default handler is about
\* to run, every record that was queued when the thread panicked is on
\* stdout -- including records the writer popped into its own BufWriter
\* after the panic, which the hook's stdout lock makes it wait for.
PanicDrainComplete ==
    [][\A t \in Threads :
          (frames[t] # <<>> /\ Top(t).stage = "drop" /\ Len(frames'[t]) < Len(frames[t]))
              => Top(t).queued \subseteq ToSet(output')]_vars

\* Drain-exact-N (spec section 8; the comment of flush_records, lines
\* 170-174): a drain writes only records that were already in the queue
\* when it read records.len(), never one pushed while it is flushing, so a
\* synchronous flush is not held up by later producers.
FlushesOnlyQueuedRecords ==
    [][\A t \in Threads :
          (/\ frames[t] # <<>> /\ Top(t).stage = "pop" /\ records # <<>>
           /\ Len(frames'[t]) = Len(frames[t])
           /\ frames'[t][Len(frames[t])].toflush < Top(t).toflush)
              => Head(records) \in Top(t).sampled]_vars

\* Every logged record eventually reaches stdout (the 10 s timeout flush).
RecordsEventuallyWritten ==
    \A r \in Rec : (r \in Logged) ~> (r \in ToSet(output))

\* Writer crash (drain race of logger_drain_race): a producer blocked in
\* flush_sync is still eventually released -- acked, or woken by the
\* RecvError when the dying writer drops the done_sender of the command it
\* was serving -- unless its Flush command is still in the channel when
\* the writer is gone (the receiver lives on in the static logger and no
\* one reads it) or the process aborted.
SyncFlushReleased ==
    \A p \in Producers :
        (pc[p] = "wait")
            ~> (\/ pc[p] # "wait" \/ halted
                \/ pc[Writer] = "dead" /\ p \in ToSet(commands))

\* A producer blocked in flush_sync is eventually released.
SyncFlushReturns ==
    \A p \in Producers : (pc[p] = "wait") ~> (pc[p] = "idle")

=============================================================================
