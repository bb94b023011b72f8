------------------------------- MODULE TraceLog -------------------------------
(***************************************************************************)
(* The usage trace of the FUSE client (iFuseLib.Logging, iFuseLib.Http and *)
(* iFuseLib.Trace): worker threads append lines to the current log under a *)
(* read lock; a rollover thread swaps logs and queues the old one; a sync  *)
(* thread sends queued logs to the log server; trace_end stops both        *)
(* threads and then rolls over and sends what is left by itself.           *)
(*                                                                         *)
(* A write-locked section is one step that needs the lock to be free.  A   *)
(* log is the set of the lines in it.  The counter num_lines is updated by *)
(* several threads that hold the lock for reading: the update is a load    *)
(* and a store.                                                            *)
(***************************************************************************)
EXTENDS Integers, FiniteSets, Sequences, SequencesExt

CONSTANTS
  Loggers,        \* FUSE worker threads
  Roll, Sync, Main,   \* the rollover thread, the sync thread, main
  max_lines,      \* lines after which the rollover thread is woken
  ConnectErrors,  \* TRUE: http_connect may fail
  UploadErrors,   \* TRUE: http_upload may fail after the connection is made
  OpenErrors,     \* TRUE: log_open may fail
  MaxLines        \* bound: lines logged before trace_end, trace_begin's included

ASSUME TraceAssumption ==
  /\ Roll # Sync /\ Roll # Main /\ Sync # Main
  /\ {Roll, Sync, Main} \cap Loggers = {} /\ IsFiniteSet(Loggers)
  /\ max_lines \in Nat \ {0} /\ MaxLines \in Nat \ {0}
  /\ {ConnectErrors, UploadErrors, OpenErrors} \subseteq BOOLEAN

VARIABLES
  logs,       \* all logs ever opened; the last one is the current one
  closed,     \* those whose pipe was closed
  num_lines,
  readers,    \* threads that hold ctx->lock for reading
  rollover_sem, sync_sem,
  sync_buf,   \* logs to be sent
  sent,       \* logs the server has
  unlinked,   \* logs whose local file was deleted
  refused,    \* history: logs that http_connect failed for
  running,
  cancelled,  \* threads that pthread_cancel was called on
  pc,         \* where each thread is
  at,         \* the log whose pipe a thread has picked up
  tmp,        \* the value of num_lines a thread has loaded
  batch, failed,   \* compressed_logs and failed of http_sync_all_logs
  lines       \* lines logged, against MaxLines

logVars  == <<logs, closed, num_lines>>
semVars  == <<rollover_sem, sync_sem>>
endVars  == <<sent, unlinked, refused>>
queVars  == <<semVars, sync_buf, endVars>>
stopVars == <<running, cancelled>>
thrVars  == <<at, tmp, batch, failed, lines>>
vars == <<logVars, readers, queVars, stopVars, pc, thrVars>>

Threads == Loggers \cup {Roll, Sync, Main}
Cur == Len(logs)

PCs == {"idle", "print", "load", "store", "test", "run", "stop", "joinRoll", "joinSync",
        "wait", "rdlock", "peek", "swap", "close", "push", "post", "take", "send",
        "putBack", "loop", "exit", "dead", "spin", "free", "finished"}

\* The types of the variables; a log is queued only when another is current,
\* and sent or deleted only after its pipe was closed (log_swap); the current
\* one is closed by log_free only.
TypeOK ==
  /\ logs \in Seq(SUBSET (1..MaxLines + 1)) /\ logs # <<>>
  /\ closed \subseteq 1..(IF pc[Main] = "finished" THEN Cur ELSE Cur - 1)
  /\ num_lines \in 0..MaxLines + 1
  /\ readers \subseteq Threads
  /\ rollover_sem \in Nat /\ sync_sem \in Nat
  /\ \A q \in {sync_buf, batch, failed} : q \in Seq(1..Cur - 1)
  /\ sent \cup unlinked \cup refused \subseteq closed
  /\ running \in BOOLEAN
  /\ cancelled \subseteq {Roll, Sync}
  /\ pc \in [Threads -> PCs]
  /\ at \in [Threads -> 0..Cur]
  /\ tmp \in [Threads -> 0..MaxLines + 1]
  /\ lines \in 0..MaxLines + 1

\* trace_begin: log_init, log_start_threads and a first line.
Init ==
  /\ logs = <<{1}>>
  /\ closed = {}
  /\ num_lines = 1
  /\ readers = {}
  /\ rollover_sem = 0 /\ sync_sem = 0
  /\ sync_buf = <<>> /\ sent = {} /\ unlinked = {} /\ refused = {}
  /\ running = TRUE /\ cancelled = {}
  /\ pc = [t \in Threads |-> IF t \in Loggers THEN "idle"
                            ELSE IF t = Main THEN "run" ELSE "wait"]
  /\ at = [t \in Threads |-> 0]
  /\ tmp = [t \in Threads |-> 0]
  /\ batch = <<>> /\ failed = <<>>
  /\ lines = 1

Goto(t, l) == pc' = [pc EXCEPT ![t] = l]

-------------------------------------------------------------------------------
(***************************************************************************)
(* logmsg: before and after every traced handler, and in trace_end, which  *)
(* main calls when fuse_main has returned.                                 *)
(***************************************************************************)
MayLog(t) ==
  \/ /\ t \in Loggers /\ pc[t] = "idle" /\ pc[Main] = "run"
     /\ lines + Cardinality({u \in Loggers : pc[u] = "print"}) < MaxLines
  \/ t = Main /\ pc[Main] = "run" /\ \A u \in Loggers : pc[u] = "idle"

\* Fault: the lock is not taken.
LogEnterUnlocked(t) ==
  /\ MayLog(t)
  /\ at' = [at EXCEPT ![t] = Cur]
  /\ Goto(t, "print")
  /\ UNCHANGED <<logVars, readers, queVars, stopVars, tmp, batch, failed, lines>>

\* rdlock and the argument of fprintf.
LogEnter(t) ==
  /\ MayLog(t)
  /\ readers' = readers \cup {t}
  /\ at' = [at EXCEPT ![t] = Cur]
  /\ Goto(t, "print")
  /\ UNCHANGED <<logVars, queVars, stopVars, tmp, batch, failed, lines>>

LogPrint(t) ==
  /\ pc[t] = "print"
  /\ lines' = lines + 1
  /\ logs' = [logs EXCEPT ![at[t]] = @ \cup {lines + 1}]
  /\ Goto(t, "load")
  /\ UNCHANGED <<closed, num_lines, readers, queVars, stopVars, at, tmp, batch,
                 failed>>

\* log_maybe_signal_rollover: num_lines++ ...
LogLoad(t) ==
  /\ pc[t] = "load"
  /\ tmp' = [tmp EXCEPT ![t] = num_lines]
  /\ Goto(t, "store")
  /\ UNCHANGED <<logVars, readers, queVars, stopVars, at, batch, failed, lines>>

LogStore(t) ==
  /\ pc[t] = "store"
  /\ num_lines' = tmp[t] + 1
  /\ Goto(t, "test")
  /\ UNCHANGED <<logs, closed, readers, queVars, stopVars, thrVars>>

\* ... the test, and the unlock.
LogTest(t) ==
  /\ pc[t] = "test"
  /\ IF num_lines > max_lines
       THEN num_lines' = 0 /\ rollover_sem' = rollover_sem + 1
       ELSE UNCHANGED <<num_lines, rollover_sem>>
  /\ readers' = readers \ {t}
  /\ at' = [at EXCEPT ![t] = 0]
  /\ tmp' = [tmp EXCEPT ![t] = 0]
  /\ Goto(t, IF t = Main THEN "stop" ELSE "idle")
  /\ UNCHANGED <<logs, closed, sync_sem, sync_buf, endVars, stopVars, batch, failed,
                 lines>>

-------------------------------------------------------------------------------
(***************************************************************************)
(* log_rollover_thread; log_rollover is called by main as well.            *)
(***************************************************************************)
\* sem_timedwait: the semaphore, or sync_delay has passed.
RollWake ==
  /\ pc[Roll] = "wait"
  /\ rollover_sem' \in {rollover_sem - 1, rollover_sem} \cap Nat
  /\ Goto(Roll, IF running THEN "rdlock" ELSE "exit")
  /\ UNCHANGED <<logVars, readers, sync_sem, sync_buf, endVars, stopVars, thrVars>>

RollRdlock ==
  /\ pc[Roll] = "rdlock"
  /\ readers' = readers \cup {Roll}
  /\ Goto(Roll, "peek")
  /\ UNCHANGED <<logVars, queVars, stopVars, thrVars>>

\* "don't even bother swapping if there's no new data"
RollPeek ==
  /\ pc[Roll] = "peek"
  /\ readers' = readers \ {Roll}
  /\ Goto(Roll, IF num_lines > 0 THEN "swap" ELSE IF running THEN "wait" ELSE "exit")
  /\ UNCHANGED <<logVars, queVars, stopVars, thrVars>>

\* Fault: the old pipe is not closed.
SwapNoClose(t) ==
  /\ pc[t] = "swap" /\ readers = {}
  /\ at' = [at EXCEPT ![t] = Cur]
  /\ logs' = Append(logs, {})
  /\ num_lines' = 0
  /\ Goto(t, "push")
  /\ UNCHANGED <<closed, readers, queVars, stopVars, tmp, batch, failed, lines>>

\* log_swap up to its unlock.
Swap(t) ==
  /\ pc[t] = "swap" /\ readers = {}
  /\ at' = [at EXCEPT ![t] = Cur]
  /\ logs' = Append(logs, {})
  /\ num_lines' = 0
  /\ Goto(t, "close")
  /\ UNCHANGED <<closed, readers, queVars, stopVars, tmp, batch, failed, lines>>

\* log_open fails: the rollover thread ends, main goes on.
SwapFail(t) ==
  /\ OpenErrors
  /\ pc[t] = "swap" /\ readers = {}
  /\ Goto(t, IF t = Main THEN "take" ELSE "exit")
  /\ UNCHANGED <<logVars, readers, queVars, stopVars, thrVars>>

\* pclose waits for gzip.
ClosePipe(t) ==
  /\ pc[t] = "close"
  /\ closed' = closed \cup {at[t]}
  /\ Goto(t, "push")
  /\ UNCHANGED <<logs, num_lines, readers, queVars, stopVars, thrVars>>

\* "success! give it to the sync thread"
Push(t) ==
  /\ pc[t] = "push" /\ readers = {}
  /\ sync_buf' = Append(sync_buf, at[t])
  /\ at' = [at EXCEPT ![t] = 0]
  /\ Goto(t, IF t = Main THEN "take" ELSE "post")
  /\ UNCHANGED <<logVars, readers, semVars, endVars, stopVars, tmp, batch, failed,
                 lines>>

\* Fault: the sync thread is not woken up.
RollPostNot ==
  /\ pc[Roll] = "post"
  /\ Goto(Roll, IF running THEN "wait" ELSE "exit")
  /\ UNCHANGED <<logVars, readers, queVars, stopVars, thrVars>>

\* "wake up the HTTP uploader"
RollPost ==
  /\ pc[Roll] = "post"
  /\ sync_sem' = sync_sem + 1
  /\ Goto(Roll, IF running THEN "wait" ELSE "exit")
  /\ UNCHANGED <<logVars, readers, rollover_sem, sync_buf, endVars, stopVars, thrVars>>

-------------------------------------------------------------------------------
(***************************************************************************)
(* http_sync_log_thread; http_sync_all_logs is called by main as well.     *)
(***************************************************************************)
SyncWake ==
  /\ pc[Sync] = "wait" /\ sync_sem > 0
  /\ sync_sem' = sync_sem - 1
  /\ Goto(Sync, "take")
  /\ UNCHANGED <<logVars, readers, rollover_sem, sync_buf, endVars, stopVars, thrVars>>

\* Fault: the list stays in the context.
TakeKeeps(t) ==
  /\ pc[t] = "take" /\ readers = {}
  /\ batch' = sync_buf
  /\ Goto(t, "send")
  /\ UNCHANGED <<logVars, readers, queVars, stopVars, at, tmp, failed, lines>>

\* "get the list of paths we're going to sync"
Take(t) ==
  /\ pc[t] = "take" /\ readers = {}
  /\ batch' = sync_buf
  /\ sync_buf' = <<>>
  /\ Goto(t, "send")
  /\ UNCHANGED <<logVars, readers, semVars, endVars, stopVars, at, tmp, failed, lines>>

\* http_send_log returns 0: the log is unlinked.
SendOk(t) ==
  /\ pc[t] = "send" /\ batch # <<>>
  /\ sent' = sent \cup {Head(batch)}
  /\ unlinked' = unlinked \cup {Head(batch)}
  /\ batch' = Tail(batch)
  /\ UNCHANGED <<logVars, readers, semVars, sync_buf, refused, stopVars, pc, at, tmp,
                 failed, lines>>

\* Fault: a log that could not be sent is forgotten.
SendNoConnForgets(t) ==
  /\ ConnectErrors
  /\ pc[t] = "send" /\ batch # <<>>
  /\ refused' = refused \cup {Head(batch)}
  /\ batch' = Tail(batch)
  /\ UNCHANGED <<logVars, readers, semVars, sync_buf, sent, unlinked, stopVars, pc, at,
                 tmp, failed, lines>>

\* http_connect or fopen fails, and http_send_log says so.
SendNoConn(t) ==
  /\ ConnectErrors
  /\ pc[t] = "send" /\ batch # <<>>
  /\ failed' = Append(failed, Head(batch))
  /\ refused' = refused \cup {Head(batch)}
  /\ batch' = Tail(batch)
  /\ UNCHANGED <<logVars, readers, semVars, sync_buf, sent, unlinked, stopVars, pc, at,
                 tmp, lines>>

\* stat or http_upload fails, or the server refuses: the result is kept in
\* an inner rc that hides the one http_send_log returns, so the log is
\* unlinked.  So it is if the host has no address and errno happens to be 0.
SendFail(t) ==
  /\ UploadErrors
  /\ pc[t] = "send" /\ batch # <<>>
  /\ unlinked' = unlinked \cup {Head(batch)}
  /\ batch' = Tail(batch)
  /\ UNCHANGED <<logVars, readers, semVars, sync_buf, sent, refused, stopVars, pc, at,
                 tmp, failed, lines>>

\* The server closes the connection without an answer: recv returns 0 to
\* http_upload_get_status for ever.
SendSpin(t) ==
  /\ UploadErrors
  /\ pc[t] = "send" /\ batch # <<>>
  /\ Goto(t, "spin")
  /\ UNCHANGED <<logVars, readers, queVars, stopVars, thrVars>>

SendDone(t) ==
  /\ pc[t] = "send" /\ batch = <<>>
  /\ Goto(t, IF failed = <<>> THEN "loop" ELSE "putBack")
  /\ UNCHANGED <<logVars, readers, queVars, stopVars, thrVars>>

\* "try these again"
PutBack(t) ==
  /\ pc[t] = "putBack" /\ readers = {}
  /\ sync_buf' = sync_buf \o failed
  /\ failed' = <<>>
  /\ Goto(t, "loop")
  /\ UNCHANGED <<logVars, readers, semVars, endVars, stopVars, at, tmp, batch, lines>>

SyncLoop(t) ==
  /\ pc[t] = "loop"
  /\ Goto(t, CASE t = Main -> "free"
               [] t = Sync /\ running -> "wait"
               [] t = Sync /\ ~running -> "exit")
  /\ UNCHANGED <<logVars, readers, queVars, stopVars, thrVars>>

-------------------------------------------------------------------------------
(***************************************************************************)
(* log_stop_threads                                                        *)
(***************************************************************************)
StopRoll ==
  /\ pc[Main] = "stop"
  /\ running' = FALSE
  /\ cancelled' = cancelled \cup {Roll}
  /\ Goto(Main, "joinRoll")
  /\ UNCHANGED <<logVars, readers, queVars, thrVars>>

StopSync ==
  /\ pc[Main] = "joinRoll" /\ pc[Roll] \in {"exit", "dead"}
  /\ cancelled' = cancelled \cup {Sync}
  /\ Goto(Main, "joinSync")
  /\ UNCHANGED <<logVars, readers, queVars, running, thrVars>>

\* Fault: main does not wait for the sync thread.
StoppedEarly ==
  /\ pc[Main] = "joinSync"
  /\ Goto(Main, "swap")
  /\ UNCHANGED <<logVars, readers, queVars, stopVars, thrVars>>

\* "sync the last of the logs"
Stopped ==
  /\ pc[Main] = "joinSync" /\ pc[Sync] \in {"exit", "dead"}
  /\ Goto(Main, "swap")
  /\ UNCHANGED <<logVars, readers, queVars, stopVars, thrVars>>

\* log_free, the end of trace_end: the queue is freed, with the logs that were
\* put back, and the pipe of the current log is closed.
LogFree ==
  /\ pc[Main] = "free"
  /\ sync_buf' = <<>>
  /\ closed' = closed \cup {Cur}
  /\ Goto(Main, "finished")
  /\ UNCHANGED <<logs, num_lines, readers, semVars, endVars, stopVars, thrVars>>

\* Asynchronous cancellation, anywhere but in log_rollover and
\* http_sync_all_logs.  What the thread holds it keeps.
Die(t) ==
  /\ t \in cancelled
  /\ pc[t] \in {"wait", "rdlock", "peek", "post", "loop"}
  /\ Goto(t, "dead")
  /\ UNCHANGED <<logVars, readers, queVars, stopVars, thrVars>>

-------------------------------------------------------------------------------
LogStep(t) == LogPrint(t) \/ LogLoad(t) \/ LogStore(t) \/ LogTest(t)

RolloverStep(t) == Swap(t) \/ SwapFail(t) \/ ClosePipe(t) \/ Push(t)

SendAllStep(t) ==
  \/ Take(t) \/ SendOk(t) \/ SendNoConn(t) \/ SendFail(t) \/ SendSpin(t)
  \/ SendDone(t) \/ PutBack(t) \/ SyncLoop(t)

RollStep == RollWake \/ RollRdlock \/ RollPeek \/ RolloverStep(Roll) \/ RollPost

SyncStep == SyncWake \/ SendAllStep(Sync)

MainStep ==
  \/ StopRoll \/ StopSync \/ Stopped \/ RolloverStep(Main) \/ SendAllStep(Main)
  \/ LogFree

Next ==
  \/ \E t \in Loggers \cup {Main} : LogEnter(t) \/ LogStep(t)
  \/ RollStep \/ SyncStep \/ MainStep
  \/ \E t \in {Roll, Sync} : Die(t)

Spec == Init /\ [][Next]_vars

(***************************************************************************)
(* Threads keep running, sem_timedwait ends after sync_delay, a cancelled  *)
(* thread dies, and a log server that is asked again and again answers.    *)
(* The sync thread gets the write lock that is free again and again: the   *)
(* rollover thread holds it for an instant once per sync_delay.  Nobody    *)
(* has to log a line or to unmount.                                        *)
(***************************************************************************)
FairSpec ==
  /\ Spec
  /\ \A t \in Loggers \cup {Main} : WF_vars(LogStep(t))
  /\ WF_vars(RollStep) /\ SF_vars(SyncStep) /\ WF_vars(MainStep)
  /\ \A t \in {Roll, Sync} : WF_vars(Die(t)) /\ SF_vars(SendOk(t))

-------------------------------------------------------------------------------
(***************************************************************************)
(* Properties.                                                             *)
(***************************************************************************)
\* No thread prints to a pipe that log_swap has closed: the swap, and with
\* it the pclose, waits for the threads that picked up the old pipe.
NoPrintToClosed == \A t \in Threads : pc[t] = "print" => at[t] \notin closed

\* Logs that somebody still has to send: queued, or on their way into or
\* out of the queue.
Pending == ToSet(sync_buf) \cup ToSet(batch) \cup ToSet(failed)
             \cup {at[t] : t \in {u \in Threads : pc[u] \in {"close", "push"}}}

\* No log is forgotten before trace_end returns: until then one that was rolled
\* over and is still on the disk is in a queue or in the hands of a thread,
\* whatever failed and whichever thread was cancelled while it had the log.
\* log_free forgets only logs that the server could not be reached for.
LogsQueued ==
  LET left == (1..Cur - 1) \ unlinked IN
    left \subseteq IF pc[Main] = "finished" THEN refused ELSE Pending

\* "remove from the sync_buf all logs that were successfully uploaded, and
\* preserve the ones that were not": a log is deleted only when the server
\* has it.
LogsPreserved == unlinked \subseteq sent

\* No log is sent twice: it is in one queue, once, until it is sent.
SentOnce ==
  LET all == sync_buf \o batch \o failed IN
    /\ IsInjective(all)
    /\ ToSet(all) \cap sent = {}

\* A line that was logged is at the server in the end, unless the file
\* system is unmounted first.
LineSent(n) == \E i \in sent : n \in logs[i]
LinesReachServer ==
  \A n \in 1..MaxLines : lines >= n ~> (LineSent(n) \/ ~running)

\* trace_end has sent every line when it returns, wherever the two threads
\* were when it stopped them.
EndSendsAll == pc[Main] = "finished" => \A n \in 1..lines : LineSent(n)

===============================================================================
