--------------------------- MODULE TraceQueueProofs ---------------------------
(***************************************************************************)
(* Proofs about the queue of rolled-over logs of the usage trace: its      *)
(* types, that no log is forgotten or sent twice, and that trace_end sends *)
(* every line if nothing fails.                                            *)
(***************************************************************************)
EXTENDS TraceLogProofs, CollectionLemmas

(***************************************************************************)
(* The inductive invariant of TypeOK, SentOnce and LogsQueued: TraceInv    *)
(* and these parts.                                                        *)
(***************************************************************************)
Rolling == {t \in Threads : pc[t] \in {"close", "push"}}
Sending == \E t \in {Sync, Main} : pc[t] \in {"send", "spin"}
Putting == \E t \in {Sync, Main} : pc[t] = "putBack"

\* The logs that were closed, in which queue they are, and which were deleted.
QueueInv ==
  /\ sync_buf \in Seq(Nat) /\ batch \in Seq(Nat) /\ failed \in Seq(Nat)
  /\ IsInjective(sync_buf) /\ IsInjective(batch) /\ IsInjective(failed)
  /\ ToSet(sync_buf) \cap ToSet(batch) = {}
  /\ ToSet(sync_buf) \cap ToSet(failed) = {}
  /\ ToSet(batch) \cap ToSet(failed) = {}
  /\ ToSet(sync_buf) \cup ToSet(batch) \cup ToSet(failed) \subseteq closed \ unlinked
  /\ sent \subseteq unlinked /\ unlinked \subseteq closed /\ closed \subseteq 1..Cur - 1
  /\ ~Sending => batch = <<>>
  /\ ~Sending /\ ~Putting => failed = <<>>

\* A log on its way into the queue is in no queue yet, and nobody else has it.
RollInv ==
  /\ \A t \in Rolling : at[t] \in 1..Cur - 1
  /\ \A t \in Threads : pc[t] = "push" => at[t] \in closed
  /\ \A t \in Rolling : at[t] \notin ToSet(sync_buf) \cup ToSet(batch) \cup ToSet(failed)
                                       \cup unlinked
  /\ \A t, u \in Rolling : at[t] = at[u] => t = u

\* What is put back is a log that the server could not be reached for; from the
\* moment main has taken the list, nothing else is added to the queue.
RefusedInv ==
  /\ refused \subseteq closed
  /\ ToSet(failed) \subseteq refused
  /\ pc[Main] \in {"send", "spin", "putBack"} => sync_buf = <<>>
  /\ pc[Main] \in {"loop", "free"} => ToSet(sync_buf) \subseteq refused

\* Updates of num_lines are lost, never made up: a thread that has still to add
\* its line leaves room for it.
Counting == {t \in Threads : pc[t] \in {"load", "store"}}
Printing == {t \in Loggers : pc[t] = "print"}

NumInv ==
  /\ num_lines \in Nat /\ lines \in Nat /\ tmp \in [Threads -> Nat]
  /\ num_lines + Cardinality(Counting) <= lines
  /\ \A t \in Threads : tmp[t] <= MaxLines + 1
  /\ \A t \in Threads : pc[t] = "store" => tmp[t] + Cardinality(Counting) <= lines

\* The bound on the lines; trace_end's line may be one more.
LineInv ==
  /\ pc[Main] \in {"run", "print"} => lines + Cardinality(Printing) <= MaxLines
  /\ lines <= MaxLines + 1

\* Which lines and logs there are.
ShapeInv ==
  /\ logs \in Seq(SUBSET (1..MaxLines + 1))
  /\ \A t \in Threads : at[t] <= Cur

\* The rest of the types.
RestInv ==
  /\ readers \subseteq Threads /\ rollover_sem \in Nat /\ sync_sem \in Nat
  /\ running \in BOOLEAN /\ cancelled \subseteq {Roll, Sync}

NoErrors == ~ConnectErrors /\ ~UploadErrors /\ ~OpenErrors

\* Without errors nothing is put back or deleted without being sent.
NothingFailed == unlinked = sent /\ failed = <<>>

\* A line that was logged stays in its log.
AllLogged == \A n \in 1..lines : \E i \in 1..Cur : n \in logs[i]

\* From main's own rollover on nothing is added to a log, and from the moment it
\* has taken the list nothing is added to the queue.
MainDrains ==
  /\ pc[Main] \in {"close", "push", "take", "send", "spin", "putBack", "loop", "free"} =>
       logs[Cur] = {}
  /\ pc[Main] \in {"send", "spin", "putBack", "loop", "free"} => sync_buf = <<>>

EndInv == NothingFailed /\ AllLogged /\ MainDrains

-------------------------------------------------------------------------------
(***************************************************************************)
(* The queue.                                                              *)
(***************************************************************************)
\* LogsQueued, until log_free.
Queued == (1..Cur - 1) \ unlinked \subseteq Pending

QueueParts == QueueInv /\ RollInv /\ Queued

\* Most steps move a thread that has no log in hand, and no log.
Idle(l) == l \notin {"close", "push", "send", "spin", "putBack"}

LEMMA NeutralKeeps ==
  ASSUME LogType, QueueParts, NEW t \in Threads, NEW l \in PCs, Idle(pc[t]), Idle(l),
         pc' = [pc EXCEPT ![t] = l],
         \A u \in Threads \ {t} : at'[u] = at[u],
         Len(logs') = Len(logs),
         UNCHANGED <<closed, sync_buf, batch, failed, sent, unlinked>>
  PROVE  QueueParts'
<1>1. pc' \in [Threads -> PCs] /\ pc'[t] = l /\ \A u \in Threads \ {t} : pc'[u] = pc[u]
  BY DEF LogType
<1>2. Rolling' = Rolling /\ t \notin Rolling /\ Cur' = Cur
  BY <1>1 DEF Rolling, Cur, Idle
<1>3. (Sending' <=> Sending) /\ (Putting' <=> Putting)
  <2>1. \A u \in Threads : /\ pc'[u] \in {"send", "spin"} <=> pc[u] \in {"send", "spin"}
                           /\ pc'[u] = "putBack" <=> pc[u] = "putBack"
    BY <1>1 DEF Idle
  <2>2. Sync \in Threads /\ Main \in Threads
    BY DEF Threads
  <2> QED
    BY <2>1, <2>2 DEF Sending, Putting
<1>4. QueueInv'
  BY <1>2, <1>3 DEF QueueParts, QueueInv
<1>5. RollInv'
  <2>1. \A u \in Rolling : at'[u] = at[u]
    BY <1>2 DEF Rolling
  <2>2. \A u \in Threads : pc'[u] = "push" => u # t /\ pc[u] = "push"
    BY <1>1 DEF Idle
  <2> QED
    BY <1>2, <2>1, <2>2 DEF QueueParts, RollInv
<1>6. Queued'
  <2>1. {at'[u] : u \in {v \in Threads : pc'[v] \in {"close", "push"}}}
          = {at[u] : u \in {v \in Threads : pc[v] \in {"close", "push"}}}
    BY <1>2 DEF Rolling
  <2>2. Pending' = Pending
    BY <2>1 DEF Pending
  <2> QED
    BY <1>2, <2>2 DEF QueueParts, Queued
<1> QED
  BY <1>4, <1>5, <1>6 DEF QueueParts

\* log_swap: the old log is now somebody's, and there is one more.
LEMMA SwapKeepsQueue ==
  ASSUME TraceInv, QueueParts, NEW t \in Threads, Swap(t)
  PROVE  QueueParts'
<1>1. /\ logs \in Seq(SUBSET Nat) /\ Len(logs) \in Nat \ {0} /\ pc[t] = "swap"
      /\ Cur = Len(logs) /\ Cur' = Cur + 1
  BY DEF TraceInv, LogType, Swap, Cur
<1>2. /\ pc'[t] = "close" /\ \A u \in Threads \ {t} : pc'[u] = pc[u]
      /\ at'[t] = Cur /\ \A u \in Threads \ {t} : at'[u] = at[u]
      /\ UNCHANGED <<closed, sync_buf, batch, failed, sent, unlinked>>
  BY DEF TraceInv, LogType, Swap, Goto, queVars, endVars
<1>3. Rolling' = Rolling \cup {t} /\ t \notin Rolling
  BY <1>1, <1>2 DEF Rolling
<1>4. (Sending' <=> Sending) /\ (Putting' <=> Putting)
  <2>1. Sync \in Threads /\ Main \in Threads
    BY DEF Threads
  <2> QED
    BY <1>1, <1>2, <2>1 DEF Sending, Putting
<1>5. QueueInv'
  <2>1. closed' \subseteq 1..Cur' - 1
    BY <1>1, <1>2 DEF QueueParts, QueueInv
  <2> QED
    BY <1>2, <1>4, <2>1 DEF QueueParts, QueueInv
<1>6. Cur \notin closed /\ \A u \in Rolling : at[u] \in 1..Cur - 1
  BY <1>1 DEF QueueParts, QueueInv, RollInv
<1>7. RollInv'
  <2>3. \A u \in Rolling : u # t /\ at'[u] = at[u]
    BY <1>2, <1>3 DEF Rolling
  <2>1. \A u \in Rolling' : at'[u] \in 1..Cur' - 1
    BY <1>1, <1>2, <1>3, <1>6, <2>3
  <2>2. \A u \in Threads : pc'[u] = "push" => at'[u] \in closed'
    BY <1>2 DEF QueueParts, RollInv
  <2>4. ASSUME NEW u \in Rolling'
        PROVE  at'[u] \notin ToSet(sync_buf) \cup ToSet(batch) \cup ToSet(failed) \cup unlinked
    BY <1>2, <1>3, <1>6, <2>3 DEF QueueParts, QueueInv, RollInv
  <2>5. \A u, v \in Rolling' : at'[u] = at'[v] => u = v
    BY <1>1, <1>2, <1>3, <1>6, <2>3 DEF QueueParts, RollInv
  <2> QED
    BY <1>2, <2>1, <2>2, <2>4, <2>5 DEF RollInv
<1>8. Queued'
  <2> SUFFICES ASSUME NEW i \in 1..Cur' - 1, i \notin unlinked' PROVE i \in Pending'
    BY DEF Queued
  <2>1. CASE i = Cur
    BY <1>2, <2>1 DEF Pending
  <2>2. CASE i # Cur
    <3>1. i \in Pending
      BY <1>1, <1>2, <2>2 DEF QueueParts, Queued
    <3>2. ASSUME NEW u \in Threads, pc[u] \in {"close", "push"}, at[u] = i PROVE i \in Pending'
      BY <1>1, <1>2, <3>2 DEF Pending
    <3> QED
      BY <1>2, <3>1, <3>2 DEF Pending
  <2> QED
    BY <2>1, <2>2
<1> QED
  BY <1>5, <1>7, <1>8 DEF QueueParts

\* The old pipe is closed.
LEMMA CloseKeepsQueue ==
  ASSUME TraceInv, QueueParts, NEW t \in Threads, ClosePipe(t)
  PROVE  QueueParts'
<1>1. /\ pc[t] = "close" /\ pc'[t] = "push" /\ \A u \in Threads \ {t} : pc'[u] = pc[u]
      /\ at' = at /\ logs' = logs /\ Cur' = Cur /\ closed' = closed \cup {at[t]}
      /\ UNCHANGED <<sync_buf, batch, failed, sent, unlinked>>
  BY DEF TraceInv, LogType, ClosePipe, Goto, queVars, endVars, thrVars, Cur
<1>2. Rolling' = Rolling /\ t \in Rolling
  BY <1>1 DEF Rolling
<1>3. (Sending' <=> Sending) /\ (Putting' <=> Putting)
  <2>1. Sync \in Threads /\ Main \in Threads
    BY DEF Threads
  <2> QED
    BY <1>1, <2>1 DEF Sending, Putting
<1>4. QueueInv'
  <2>1. closed' \subseteq 1..Cur' - 1
    BY <1>1, <1>2 DEF QueueParts, QueueInv, RollInv
  <2> QED
    BY <1>1, <1>3, <2>1 DEF QueueParts, QueueInv
<1>5. RollInv'
  BY <1>1, <1>2 DEF QueueParts, RollInv
<1>6. Queued'
  <2>1. {v \in Threads : pc'[v] \in {"close", "push"}} = {v \in Threads : pc[v] \in {"close", "push"}}
    BY <1>1
  <2>2. Pending' = Pending
    BY <1>1, <2>1 DEF Pending
  <2> QED
    BY <1>1, <2>2 DEF QueueParts, Queued
<1> QED
  BY <1>4, <1>5, <1>6 DEF QueueParts

\* The log is given to the sync thread.
LEMMA PushKeepsQueue ==
  ASSUME TraceInv, QueueParts, NEW t \in Threads, Push(t)
  PROVE  QueueParts'
<1>1. /\ pc[t] = "push" /\ Idle(pc'[t]) /\ \A u \in Threads \ {t} : pc'[u] = pc[u]
      /\ \A u \in Threads \ {t} : at'[u] = at[u]
      /\ logs' = logs /\ Cur' = Cur /\ closed' = closed
      /\ UNCHANGED <<batch, failed, sent, unlinked>>
  BY DEF TraceInv, LogType, Push, Goto, logVars, endVars, Cur, Idle
<1>2. Rolling' = Rolling \ {t} /\ t \in Rolling
  BY <1>1 DEF Rolling, Idle
<1>3. (Sending' <=> Sending) /\ (Putting' <=> Putting)
  <2>1. \A u \in Threads : /\ pc'[u] \in {"send", "spin"} <=> pc[u] \in {"send", "spin"}
                           /\ pc'[u] = "putBack" <=> pc[u] = "putBack"
    BY <1>1 DEF Idle
  <2>2. Sync \in Threads /\ Main \in Threads
    BY DEF Threads
  <2> QED
    BY <2>1, <2>2 DEF Sending, Putting
<1>4. /\ at[t] \in Nat /\ at[t] \in closed
      /\ at[t] \notin ToSet(sync_buf) \cup ToSet(batch) \cup ToSet(failed) \cup unlinked
  BY <1>1, <1>2 DEF TraceInv, LogType, QueueParts, RollInv
<1>5. /\ sync_buf' \in Seq(Nat) /\ IsInjective(sync_buf')
      /\ ToSet(sync_buf') = ToSet(sync_buf) \cup {at[t]}
  <2>1. sync_buf' = Append(sync_buf, at[t]) /\ sync_buf \in Seq(Nat) /\ IsInjective(sync_buf)
    BY DEF Push, QueueParts, QueueInv
  <2> QED
    BY <1>4, <2>1, AppendElements
<1>6. QueueInv'
  BY <1>1, <1>3, <1>4, <1>5 DEF QueueParts, QueueInv
<1>7. \A u \in Rolling' : u \in Rolling /\ u \in Threads /\ u # t /\ at'[u] = at[u] /\ at[u] # at[t]
  BY <1>1, <1>2 DEF QueueParts, RollInv, Rolling
<1>8. RollInv'
  <2>1. \A u \in Rolling' : at'[u] \in 1..Cur' - 1
    BY <1>1, <1>7 DEF QueueParts, RollInv
  <2>2. \A u \in Threads : pc'[u] = "push" => at'[u] \in closed'
    BY <1>1 DEF QueueParts, RollInv, Idle
  <2>3. \A u \in Rolling' : at'[u] \notin ToSet(sync_buf') \cup ToSet(batch') \cup ToSet(failed')
                                             \cup unlinked'
    BY <1>1, <1>5, <1>7 DEF QueueParts, RollInv
  <2>4. \A u, v \in Rolling' : at'[u] = at'[v] => u = v
    BY <1>7 DEF QueueParts, RollInv
  <2> QED
    BY <2>1, <2>2, <2>3, <2>4 DEF RollInv
<1>9. Queued'
  <2> SUFFICES ASSUME NEW i \in 1..Cur' - 1, i \notin unlinked' PROVE i \in Pending'
    BY DEF Queued
  <2>1. i \in Pending
    BY <1>1 DEF QueueParts, Queued
  <2>2. ASSUME NEW u \in Threads, pc[u] \in {"close", "push"}, at[u] = i PROVE i \in Pending'
    BY <1>1, <1>5, <2>2 DEF Pending
  <2> QED
    BY <1>1, <1>5, <2>1, <2>2 DEF Pending
<1> QED
  BY <1>6, <1>8, <1>9 DEF QueueParts

\* Only one of the sync thread and main sends at a time.
LEMMA OneSender ==
  ASSUME LogType, CtrlInv, NEW t \in {Sync, Main}, NEW l \in PCs,
         pc[t] \in {"take", "send", "putBack", "loop"}, pc' = [pc EXCEPT ![t] = l],
         l \in {"send", "spin", "putBack", "loop"}
  PROVE  /\ Sending <=> pc[t] = "send"
         /\ Putting <=> pc[t] = "putBack"
         /\ Sending' <=> l \in {"send", "spin"}
         /\ Putting' <=> l = "putBack"
         /\ Rolling' = Rolling
         /\ \A u \in Threads : pc'[u] = "push" <=> pc[u] = "push"
<1>1. /\ t \in Threads /\ Sync # Main /\ Sync \in Threads /\ Main \in Threads
      /\ \A u \in {Sync, Main} \ {t} : pc[u] \notin {"send", "spin", "putBack"}
  BY TraceAssumption DEF TraceAssumption, Threads, CtrlInv
<1>2. pc'[t] = l /\ \A u \in Threads \ {t} : pc'[u] = pc[u]
  BY <1>1 DEF LogType
<1>3. (Sending <=> pc[t] = "send") /\ (Putting <=> pc[t] = "putBack")
  BY <1>1 DEF Sending, Putting
<1>4. (Sending' <=> l \in {"send", "spin"}) /\ (Putting' <=> l = "putBack")
  BY <1>1, <1>2 DEF Sending, Putting
<1>5. Rolling' = Rolling
  BY <1>1, <1>2 DEF Rolling
<1> QED
  BY <1>1, <1>2, <1>3, <1>4, <1>5

\* The queues are rearranged, or a log is deleted, by the thread that sends.
LEMMA SenderKeepsQueue ==
  ASSUME LogType, CtrlInv, QueueParts, NEW t \in {Sync, Main}, NEW l \in PCs,
         pc[t] \in {"take", "send", "putBack", "loop"}, pc' = [pc EXCEPT ![t] = l],
         l \in {"send", "spin", "putBack", "loop"},
         at' = at, logs' = logs, closed' = closed,
         QueueInv',
         ToSet(sync_buf) \cup ToSet(batch) \cup ToSet(failed) \cup unlinked
           = ToSet(sync_buf') \cup ToSet(batch') \cup ToSet(failed') \cup unlinked'
  PROVE  QueueParts'
<1>1. Rolling' = Rolling /\ \A u \in Threads : pc'[u] = "push" <=> pc[u] = "push"
  BY OneSender
<1>2. RollInv'
  BY <1>1 DEF QueueParts, RollInv, Cur
<1>3. Queued'
  <2>1. {at'[u] : u \in {v \in Threads : pc'[v] \in {"close", "push"}}}
          = {at[u] : u \in {v \in Threads : pc[v] \in {"close", "push"}}}
    BY <1>1 DEF Rolling
  <2> QED
    BY <2>1 DEF QueueParts, Queued, Pending, Cur
<1> QED
  BY <1>2, <1>3 DEF QueueParts

LEMMA SendKeepsQueue ==
  ASSUME TraceInv, CtrlInv, QueueParts, NEW t \in {Sync, Main}, SendAllStep(t), ~SyncLoop(t)
  PROVE  QueueParts'
<1>0. LogType /\ QueueInv /\ t \in Threads /\ pc \in [Threads -> PCs]
  BY DEF TraceInv, LogType, QueueParts, Threads
<1>1. /\ at' = at /\ logs' = logs /\ closed' = closed
      /\ pc[t] \in {"take", "send", "putBack"}
  BY DEF SendAllStep, Take, SendOk, SendNoConn, SendFail, SendSpin, SendDone, PutBack, thrVars,
         logVars
<1>2. CASE Take(t)
  <2>1. /\ pc[t] = "take" /\ pc' = [pc EXCEPT ![t] = "send"] /\ "send" \in PCs
        /\ batch' = sync_buf /\ sync_buf' = <<>>
        /\ UNCHANGED <<failed, sent, unlinked>>
    BY <1>2 DEF Take, Goto, endVars, PCs
  <2>2. ~Sending /\ ~Putting /\ Sending'
    BY <1>0, <2>1, OneSender
  <2>3. batch = <<>> /\ failed = <<>>
    BY <1>0, <2>2 DEF QueueInv
  <2>4. QueueInv'
    BY <1>0, <1>1, <2>1, <2>2, <2>3, EmptyElements DEF QueueInv, Cur
  <2>5. ToSet(sync_buf') = {} /\ ToSet(batch) = {} /\ ToSet(batch') = ToSet(sync_buf)
    BY <2>1, <2>3, EmptyElements
  <2> QED
    BY <1>0, <1>1, <2>1, <2>4, <2>5, SenderKeepsQueue
<1>3. ASSUME pc[t] = "send", pc' = pc, batch # <<>>, batch' = Tail(batch), sync_buf' = sync_buf,
             \/ /\ failed' = failed /\ unlinked' = unlinked \cup {Head(batch)}
                /\ sent' \in {sent, sent \cup {Head(batch)}}
             \/ /\ failed' = Append(failed, Head(batch))
                /\ unlinked' = unlinked /\ sent' = sent
      PROVE  QueueParts'
  <2>0. pc' = [pc EXCEPT ![t] = "send"] /\ "send" \in PCs
    BY <1>0, <1>3 DEF PCs
  <2>1. Sending' /\ Sending
    BY <1>0, <1>3, <2>0, OneSender
  <2>2. /\ Tail(batch) \in Seq(Nat) /\ Head(batch) \in Nat /\ IsInjective(Tail(batch))
        /\ ToSet(batch) = ToSet(Tail(batch)) \cup {Head(batch)}
        /\ Head(batch) \notin ToSet(Tail(batch))
    BY <1>0, <1>3, TailElements DEF QueueInv
  <2>3. CASE /\ failed' = failed /\ unlinked' = unlinked \cup {Head(batch)}
             /\ sent' \in {sent, sent \cup {Head(batch)}}
    <3>1. QueueInv'
      BY <1>0, <1>1, <1>3, <2>1, <2>2, <2>3 DEF QueueInv, Cur
    <3> QED
      BY <1>0, <1>1, <1>3, <2>0, <2>2, <2>3, <3>1, SenderKeepsQueue
  <2>4. CASE /\ failed' = Append(failed, Head(batch)) /\ unlinked' = unlinked /\ sent' = sent
    <3>1. Head(batch) \notin ToSet(failed)
      BY <1>0, <2>2 DEF QueueInv
    <3>2. /\ failed' \in Seq(Nat) /\ IsInjective(failed')
          /\ ToSet(failed') = ToSet(failed) \cup {Head(batch)}
      BY <1>0, <2>2, <2>4, <3>1, AppendElements DEF QueueInv
    <3>3. QueueInv'
      BY <1>0, <1>1, <1>3, <2>1, <2>2, <2>4, <3>2 DEF QueueInv, Cur
    <3> QED
      BY <1>0, <1>1, <1>3, <2>0, <2>2, <2>4, <3>2, <3>3, SenderKeepsQueue
  <2> QED
    BY <1>3, <2>3, <2>4
<1>4. CASE SendOk(t)
  BY <1>3, <1>4 DEF SendOk
<1>5. CASE SendFail(t)
  BY <1>3, <1>5 DEF SendFail
<1>6. CASE SendNoConn(t)
  BY <1>3, <1>6 DEF SendNoConn, queVars, endVars
<1>7. CASE SendSpin(t) \/ SendDone(t)
  <2>1. UNCHANGED <<batch, sync_buf, failed, sent, unlinked>>
    BY <1>7 DEF SendSpin, SendDone, queVars, endVars, thrVars
  <2>2. PICK l \in PCs : /\ pc[t] = "send" /\ pc' = [pc EXCEPT ![t] = l]
                         /\ \/ l = "spin"
                            \/ l = "loop" /\ batch = <<>> /\ failed = <<>>
                            \/ l = "putBack" /\ batch = <<>>
    BY <1>7 DEF SendSpin, SendDone, Goto, PCs
  <2>3. (Sending' <=> l \in {"send", "spin"}) /\ (Putting' <=> l = "putBack")
    BY <1>0, <2>2, OneSender
  <2>4. QueueInv'
    BY <1>0, <1>1, <2>1, <2>2, <2>3 DEF QueueInv, Cur
  <2> QED
    BY <1>0, <1>1, <2>1, <2>2, <2>4, SenderKeepsQueue
<1>8. CASE PutBack(t)
  <2>1. /\ pc[t] = "putBack" /\ pc' = [pc EXCEPT ![t] = "loop"] /\ "loop" \in PCs
        /\ sync_buf' = sync_buf \o failed /\ failed' = <<>>
        /\ UNCHANGED <<batch, sent, unlinked>>
    BY <1>8 DEF PutBack, Goto, endVars, PCs
  <2>2. ~Sending /\ ~Sending' /\ ~Putting'
    BY <1>0, <2>1, OneSender
  <2>3. /\ sync_buf' \in Seq(Nat) /\ IsInjective(sync_buf')
        /\ ToSet(sync_buf') = ToSet(sync_buf) \cup ToSet(failed)
    BY <1>0, <2>1, ConcatElements DEF QueueInv
  <2>4. ToSet(failed') = {} /\ IsInjective(failed') /\ failed' \in Seq(Nat)
    BY <2>1, EmptyElements
  <2>5. QueueInv'
    BY <1>0, <1>1, <2>1, <2>2, <2>3, <2>4 DEF QueueInv, Cur
  <2> QED
    BY <1>0, <1>1, <2>1, <2>3, <2>4, <2>5, SenderKeepsQueue
<1> QED
  BY <1>2, <1>4, <1>5, <1>6, <1>7, <1>8 DEF SendAllStep

\* A line is added to a log: there are as many logs as before.
LEMMA PrintKeepsLen ==
  ASSUME TraceInv, NEW t \in Threads, LogPrint(t)
  PROVE  Len(logs') = Len(logs)
BY DEF TraceInv, LogType, LogPrint

LEMMA QueueStep ==
  TraceInv /\ CtrlInv /\ QueueParts /\ [Next]_vars /\ ~LogFree => QueueParts'
<1> SUFFICES ASSUME TraceInv, CtrlInv, QueueParts, [Next]_vars, ~LogFree PROVE QueueParts'
  OBVIOUS
<1>0. LogType /\ {Roll, Sync, Main} \subseteq Threads /\ Loggers \subseteq Threads
  BY DEF TraceInv, Threads
<1>1. ASSUME NEW t \in Loggers \cup {Main}, LogEnter(t) \/ LogStep(t) PROVE QueueParts'
  <2>1. t \in Threads
    BY <1>0
  <2>2. /\ UNCHANGED <<closed, sync_buf, batch, failed, sent, unlinked>>
        /\ \A u \in Threads \ {t} : at'[u] = at[u]
        /\ Idle(pc[t]) /\ \E l \in PCs : Idle(l) /\ pc' = [pc EXCEPT ![t] = l]
    <3>1. CASE LogEnter(t)
      <4>1. Idle(pc[t])
        BY <3>1, TraceAssumption DEF LogEnter, MayLog, Idle
      <4> QED
        BY <1>0, <2>1, <3>1, <4>1 DEF LogEnter, Goto, LogType, Idle, PCs, logVars, queVars, endVars
    <3>2. CASE LogPrint(t)
      BY <3>2 DEF LogPrint, Goto, Idle, PCs, queVars, endVars
    <3>3. CASE LogLoad(t)
      BY <3>3 DEF LogLoad, Goto, Idle, PCs, logVars, queVars, endVars
    <3>4. CASE LogStore(t)
      BY <3>4 DEF LogStore, Goto, Idle, PCs, queVars, endVars, thrVars
    <3>5. CASE LogTest(t)
      BY <1>0, <2>1, <3>5 DEF LogTest, Goto, LogType, Idle, PCs, endVars
    <3> QED
      BY <1>1, <3>1, <3>2, <3>3, <3>4, <3>5 DEF LogStep
  <2>3. Len(logs') = Len(logs)
    BY <1>1, <2>1, PrintKeepsLen DEF LogEnter, LogStep, LogLoad, LogStore, LogTest, logVars
  <2> QED
    BY <1>0, <2>1, <2>2, <2>3, NeutralKeeps
<1>2. ASSUME NEW t \in Threads, RolloverStep(t) PROVE QueueParts'
  <2>1. CASE SwapFail(t)
    BY <1>0, <2>1, NeutralKeeps DEF SwapFail, Goto, Idle, PCs, logVars, queVars, endVars, thrVars
  <2> QED
    BY <1>2, <2>1, SwapKeepsQueue, CloseKeepsQueue, PushKeepsQueue DEF RolloverStep
<1>3. ASSUME NEW t \in {Sync, Main}, SyncLoop(t) PROVE QueueParts'
  <2>1. PICK l \in PCs : Idle(l) /\ pc' = [pc EXCEPT ![t] = l]
    BY <1>3, TraceAssumption DEF TraceAssumption, SyncLoop, Goto, Idle, PCs
  <2>2. /\ UNCHANGED <<closed, sync_buf, batch, failed, sent, unlinked>>
        /\ at' = at /\ logs' = logs /\ Idle(pc[t])
    BY <1>3 DEF SyncLoop, logVars, queVars, endVars, thrVars, Idle
  <2> QED
    BY <1>0, <2>1, <2>2, NeutralKeeps
<1>4. ASSUME NEW t \in {Sync, Main}, SendAllStep(t) PROVE QueueParts'
  BY <1>3, <1>4, SendKeepsQueue
<1>5. ASSUME \/ RollWake \/ RollRdlock \/ RollPeek \/ RollPost
      PROVE  QueueParts'
  BY <1>0, <1>5, NeutralKeeps
  DEF RollWake, RollRdlock, RollPeek, RollPost, Goto, Idle, PCs, logVars, queVars, endVars, thrVars
<1>6. ASSUME SyncWake \/ StopRoll \/ StopSync \/ Stopped \/ \E t \in {Roll, Sync} : Die(t)
      PROVE  QueueParts'
  <2> USE <1>0, NeutralKeeps DEF Goto, Idle, PCs, logVars, queVars, endVars, thrVars
  <2>1. CASE SyncWake
    BY <2>1 DEF SyncWake
  <2>2. CASE StopRoll
    BY <2>2 DEF StopRoll
  <2>3. CASE StopSync
    BY <2>3 DEF StopSync
  <2>4. CASE Stopped
    BY <2>4 DEF Stopped
  <2>5. ASSUME NEW t \in {Roll, Sync}, Die(t) PROVE QueueParts'
    <3>1. t \in Threads /\ Idle(pc[t]) /\ pc' = [pc EXCEPT ![t] = "dead"] /\ at' = at
      BY <2>5 DEF Die
    <3> QED
      BY <2>5, <3>1 DEF Die
  <2> QED
    BY <1>6, <2>1, <2>2, <2>3, <2>4, <2>5
<1>7. CASE UNCHANGED vars
  BY <1>7 DEF vars, logVars, queVars, endVars, thrVars, QueueParts, QueueInv, RollInv, Queued,
              Pending, Rolling, Sending, Putting, Cur
<1> QED
  BY <1>0, <1>1, <1>2, <1>4, <1>5, <1>6, <1>7 DEF Next, RollStep, SyncStep, MainStep

LEMMA InitQueue == Init => CtrlInv /\ QueueParts
<1> SUFFICES ASSUME Init PROVE CtrlInv /\ QueueParts
  OBVIOUS
<1> USE TraceAssumption DEF TraceAssumption
<1>1. /\ \A t \in Loggers : pc[t] = "idle"
      /\ pc[Roll] = "wait" /\ pc[Sync] = "wait" /\ pc[Main] = "run"
  BY DEF Init, Threads
<1>2. CtrlInv
  BY <1>1 DEF CtrlInv
<1>3. Rolling = {} /\ ~Sending /\ ~Putting
  BY <1>1 DEF Rolling, Sending, Putting, Threads
<1>4. Cur = 1 /\ closed = {} /\ unlinked = {} /\ sent = {}
  BY DEF Init, Cur
<1>5. sync_buf = <<>> /\ batch = <<>> /\ failed = <<>>
  BY DEF Init
<1>6. QueueInv
  BY <1>3, <1>4, <1>5, EmptyElements DEF QueueInv
<1>7. RollInv
  BY <1>3 DEF RollInv, Rolling
<1>8. Queued
  BY <1>4 DEF Queued
<1> QED
  BY <1>2, <1>6, <1>7, <1>8 DEF QueueParts

LEMMA RefusedStep ==
  TraceInv /\ CtrlInv /\ QueueParts /\ RefusedInv /\ [Next]_vars /\ ~LogFree => RefusedInv'
<1> SUFFICES ASSUME TraceInv, CtrlInv, QueueParts, RefusedInv, [Next]_vars, ~LogFree
             PROVE  RefusedInv'
  OBVIOUS
<1>0. /\ {Roll, Sync, Main} \subseteq Threads /\ Loggers \subseteq Threads
      /\ pc \in [Threads -> PCs]
      /\ Roll # Main /\ Sync # Main /\ Main \notin Loggers
  BY TraceAssumption DEF TraceAssumption, TraceInv, LogType, Threads
<1> DEFINE Late == {"send", "spin", "putBack", "loop", "free"}
           Same == refused' = refused /\ failed' = failed
<1>1. ASSUME Same, closed \subseteq closed', pc'[Main] \notin Late PROVE RefusedInv'
  BY <1>1 DEF RefusedInv
<1>2. ASSUME Same, closed' = closed, sync_buf' = sync_buf, pc'[Main] = pc[Main]
      PROVE  RefusedInv'
  BY <1>2 DEF RefusedInv
<1>3. \A u \in Threads, l \in PCs : Goto(u, l) =>
         pc'[u] = l /\ \A v \in Threads \ {u} : pc'[v] = pc[v]
  BY <1>0 DEF Goto
<1>4. ASSUME NEW t \in Loggers \cup {Main}, LogEnter(t) \/ LogStep(t) PROVE RefusedInv'
  <2>1. \E l \in PCs : l \notin Late /\ Goto(t, l)
    BY <1>4 DEF LogEnter, LogStep, LogPrint, LogLoad, LogStore, LogTest, PCs
  <2>2. t # Main => pc[Main] = "run"
    BY <1>4 DEF CtrlInv, LogEnter, MayLog, LogStep, LogPrint, LogLoad, LogStore, LogTest
  <2>3. pc'[Main] \notin Late
    BY <1>0, <1>3, <2>1, <2>2
  <2>4. Same /\ closed' = closed
    BY <1>4 DEF LogEnter, LogStep, LogPrint, LogLoad, LogStore, LogTest, logVars, queVars,
                endVars, thrVars
  <2> QED
    BY <1>1, <2>3, <2>4
<1>5. ASSUME NEW t \in {Roll, Main}, RolloverStep(t) PROVE RefusedInv'
  <2>1. Same /\ closed \subseteq closed'
    BY <1>5 DEF RolloverStep, Swap, SwapFail, ClosePipe, Push, logVars, queVars, endVars, thrVars
  <2>2. /\ pc[t] \notin {"exit", "dead"}
        /\ \E l \in PCs : l \in {"close", "push", "take", "post", "exit"} /\ Goto(t, l)
    BY <1>5 DEF RolloverStep, Swap, SwapFail, ClosePipe, Push, PCs
  <2>3. t # Main => pc[Main] \notin Late
    BY <2>2 DEF CtrlInv
  <2>4. pc'[Main] \notin Late
    BY <1>0, <1>3, <2>2, <2>3
  <2> QED
    BY <1>1, <2>1, <2>4
<1>6. CASE RollWake \/ RollRdlock \/ RollPeek \/ RollPost \/ SyncWake
  <2>1. Same /\ closed' = closed /\ sync_buf' = sync_buf
    BY <1>6 DEF RollWake, RollRdlock, RollPeek, RollPost, SyncWake, logVars, queVars, endVars,
                thrVars
  <2>2. \E u \in {Roll, Sync}, l \in PCs : Goto(u, l)
    BY <1>6 DEF RollWake, RollRdlock, RollPeek, RollPost, SyncWake, PCs
  <2>3. pc'[Main] = pc[Main]
    BY <1>0, <1>3, <2>2
  <2> QED
    BY <1>2, <2>1, <2>3
<1>7. CASE StopRoll \/ StopSync \/ Stopped
  <2>1. Same /\ closed' = closed
    BY <1>7 DEF StopRoll, StopSync, Stopped, logVars, queVars, endVars, thrVars
  <2>2. \E l \in PCs : l \notin Late /\ Goto(Main, l)
    BY <1>7 DEF StopRoll, StopSync, Stopped, PCs
  <2>3. pc'[Main] \notin Late
    BY <1>0, <1>3, <2>2
  <2> QED
    BY <1>1, <2>1, <2>3
<1>8. ASSUME NEW t \in {Roll, Sync}, Die(t) PROVE RefusedInv'
  <2>1. Same /\ closed' = closed /\ sync_buf' = sync_buf /\ Goto(t, "dead")
    BY <1>8 DEF Die, logVars, queVars, endVars, thrVars
  <2>2. pc'[Main] = pc[Main]
    BY <1>0, <2>1 DEF Goto
  <2> QED
    BY <1>2, <2>1, <2>2
<1>9. ASSUME NEW t \in {Sync, Main}, SendAllStep(t) PROVE RefusedInv'
  <2>0. t = Sync => pc'[Main] = pc[Main] /\ pc[Main] \notin Late
    <3> HAVE t = Sync
    <3>1. pc[Sync] \notin {"exit", "dead"}
      BY <1>9 DEF SendAllStep, Take, SendOk, SendNoConn, SendFail, SendSpin, SendDone, PutBack,
                  SyncLoop
    <3>2. pc' = pc \/ \E l \in PCs : Goto(Sync, l)
      <4>1. CASE SyncLoop(Sync)
        BY <1>0, <4>1 DEF SyncLoop, PCs
      <4> QED
        BY <1>9, <4>1 DEF SendAllStep, Take, SendOk, SendNoConn, SendFail, SendSpin, SendDone,
                          PutBack, PCs
    <3> QED
      BY <1>0, <1>3, <3>1, <3>2 DEF CtrlInv
  <2>1. closed' = closed
    BY <1>9 DEF SendAllStep, Take, SendOk, SendNoConn, SendFail, SendSpin, SendDone, PutBack,
                SyncLoop, logVars
  <2>2. CASE Take(t)
    <3>1. Same /\ sync_buf' = <<>> /\ (t = Main => pc'[Main] = "send")
      BY <1>0, <2>2 DEF Take, endVars, Goto
    <3> QED
      BY <2>0, <2>1, <3>1 DEF RefusedInv
  <2>3. CASE SendOk(t) \/ SendFail(t)
    <3>1. Same /\ sync_buf' = sync_buf /\ pc' = pc
      BY <2>3 DEF SendOk, SendFail
    <3> QED
      BY <1>2, <2>1, <3>1
  <2>4. CASE SendNoConn(t)
    <3>1. /\ failed' = Append(failed, Head(batch)) /\ refused' = refused \cup {Head(batch)}
          /\ sync_buf' = sync_buf /\ pc' = pc /\ batch # <<>>
      BY <2>4 DEF SendNoConn
    <3>2. /\ failed \in Seq(Nat) /\ IsInjective(failed) /\ batch \in Seq(Nat)
          /\ IsInjective(batch) /\ ToSet(batch) \cap ToSet(failed) = {}
          /\ ToSet(batch) \subseteq closed
      BY DEF QueueParts, QueueInv
    <3>3. Head(batch) \in Nat /\ Head(batch) \in ToSet(batch)
      BY <3>1, <3>2, TailElements
    <3>4. Head(batch) \notin ToSet(failed)
      BY <3>2, <3>3
    <3>5. ToSet(failed') = ToSet(failed) \cup {Head(batch)}
      BY <3>1, <3>2, <3>3, <3>4, AppendElements
    <3>6. pc[Main] \in {"send", "spin", "putBack"} => sync_buf' = <<>>
      BY <3>1 DEF RefusedInv
    <3> QED
      BY <2>1, <3>1, <3>2, <3>3, <3>5, <3>6 DEF RefusedInv
  <2>5. CASE SendSpin(t)
    <3>1. Same /\ sync_buf' = sync_buf /\ (t = Main => pc[Main] = "send" /\ pc'[Main] = "spin")
      BY <1>0, <2>5 DEF SendSpin, queVars, endVars, thrVars, Goto
    <3> QED
      BY <2>0, <2>1, <3>1 DEF RefusedInv
  <2>6. CASE SendDone(t)
    <3>1. /\ Same /\ sync_buf' = sync_buf
          /\ t = Main => pc[Main] = "send" /\ pc'[Main] \in {"loop", "putBack"}
      BY <1>0, <2>6 DEF SendDone, queVars, endVars, thrVars, Goto
    <3>2. t = Main => sync_buf = <<>> /\ ToSet(sync_buf) = {}
      BY <3>1, EmptyElements DEF RefusedInv
    <3> QED
      BY <2>0, <2>1, <3>1, <3>2 DEF RefusedInv
  <2>7. CASE PutBack(t)
    <3>1. /\ refused' = refused /\ failed' = <<>> /\ sync_buf' = sync_buf \o failed
          /\ t = Main => pc[Main] = "putBack" /\ pc'[Main] = "loop"
      BY <1>0, <2>7 DEF PutBack, endVars, Goto
    <3>2. ToSet(failed') = {}
      BY <3>1, EmptyElements
    <3>3. t = Main => sync_buf = <<>>
      BY <3>1 DEF RefusedInv
    <3>4. failed \in Seq(Nat)
      BY DEF QueueParts, QueueInv
    <3>5. <<>> \o failed = failed
      BY <3>4
    <3>6. t = Main => sync_buf' = failed
      BY <3>1, <3>3, <3>5
    <3> QED
      BY <2>0, <2>1, <3>1, <3>2, <3>6 DEF RefusedInv
  <2>8. CASE SyncLoop(t)
    <3>1. Same /\ sync_buf' = sync_buf /\ (t = Main => pc[Main] = "loop" /\ pc'[Main] = "free")
      BY <1>0, <2>8 DEF SyncLoop, queVars, endVars, thrVars, Goto
    <3> QED
      BY <2>0, <2>1, <3>1 DEF RefusedInv
  <2> QED
    BY <1>9, <2>2, <2>3, <2>4, <2>5, <2>6, <2>7, <2>8 DEF SendAllStep
<1>10. CASE UNCHANGED vars
  BY <1>2, <1>10 DEF vars, logVars, queVars, endVars, thrVars
<1> QED
  BY <1>4, <1>5, <1>6, <1>7, <1>8, <1>9, <1>10 DEF Next, RollStep, SyncStep, MainStep

\* The queue until log_free, and what log_free leaves.
QueueRuns == TraceInv /\ CtrlInv /\ QueueParts /\ RefusedInv

LEMMA QueueRunsStep == QueueRuns /\ [Next]_vars /\ ~LogFree => QueueRuns'
BY NextTraceInv, CtrlStep, QueueStep, RefusedStep DEF QueueRuns

LEMMA InitQueueRuns == Init => QueueRuns
<1> SUFFICES ASSUME Init PROVE RefusedInv
  BY InitTraceInv, InitQueue DEF QueueRuns
<1>1. pc[Main] = "run" /\ failed = <<>> /\ refused = {}
  BY TraceAssumption DEF TraceAssumption, Init, Threads
<1> QED
  BY <1>1, EmptyElements DEF RefusedInv

\* When log_free is called only logs the server could not be reached for are left.
LEMMA FreeLeaves ==
  ASSUME QueueRuns, pc[Main] = "free"
  PROVE  /\ batch = <<>> /\ failed = <<>>
         /\ (1..Cur - 1) \ unlinked \subseteq ToSet(sync_buf)
         /\ (1..Cur - 1) \ unlinked \subseteq refused
<1>1. ~Sending /\ ~Putting /\ \A t \in Threads : pc[t] \notin {"close", "push"}
  BY TraceAssumption DEF TraceAssumption, QueueRuns, CtrlInv, Sending, Putting, Threads
<1>2. batch = <<>> /\ failed = <<>>
  BY <1>1 DEF QueueRuns, QueueParts, QueueInv
<1>3. Pending = ToSet(sync_buf)
  BY <1>1, <1>2, EmptyElements DEF Pending
<1> QED
  BY <1>2, <1>3 DEF QueueRuns, QueueParts, Queued, RefusedInv

LEMMA FreeQueue == QueueRuns /\ LogFree => (Ended /\ LogsQueued /\ SentOnce)'
<1> SUFFICES ASSUME QueueRuns, LogFree PROVE (Ended /\ LogsQueued /\ SentOnce)'
  OBVIOUS
<1>1. Ended'
  BY FreeEnds DEF QueueRuns
<1>2. /\ pc[Main] = "free" /\ sync_buf' = <<>> /\ logs' = logs
      /\ UNCHANGED <<batch, failed, sent, unlinked, refused>>
  BY DEF LogFree, endVars, thrVars
<1>3. batch = <<>> /\ failed = <<>> /\ (1..Cur - 1) \ unlinked \subseteq refused
  BY <1>2, FreeLeaves
<1>4. LogsQueued'
  BY <1>1, <1>2, <1>3 DEF LogsQueued, Ended, Cur
<1>5. SentOnce'
  <2>1. sync_buf' \o batch' \o failed' = <<>>
    BY <1>2, <1>3
  <2> QED
    BY <2>1, EmptyElements DEF SentOnce
<1> QED
  BY <1>1, <1>4, <1>5

LEMMA EndedQueueStays ==
  Ended /\ LogsQueued /\ SentOnce /\ [Next]_vars => (Ended /\ LogsQueued /\ SentOnce)'
BY EndedStays
DEF Ended, vars, logVars, queVars, endVars, thrVars, LogsQueued, Pending, SentOnce, Cur

LEMMA QueueRunsQueued == QueueRuns => LogsQueued
BY DEF QueueRuns, CtrlInv, QueueParts, Queued, LogsQueued

LEMMA QueueRunsOnce == QueueRuns => SentOnce
<1> SUFFICES ASSUME QueueInv PROVE SentOnce
  BY DEF QueueRuns, QueueParts
<1> DEFINE two == sync_buf \o batch
           all == two \o failed
<1>1. two \in Seq(Nat) /\ IsInjective(two) /\ ToSet(two) = ToSet(sync_buf) \cup ToSet(batch)
  BY ConcatElements DEF QueueInv
<1> HIDE DEF two
<1>2. IsInjective(all) /\ ToSet(all) = ToSet(two) \cup ToSet(failed)
  BY <1>1, ConcatElements DEF QueueInv
<1>3. ToSet(all) \cap sent = {}
  BY <1>1, <1>2 DEF QueueInv
<1> QED
  BY <1>2, <1>3 DEF SentOnce, two

LEMMA QueueInvariant == Spec => [](LogsQueued /\ SentOnce)
<1> DEFINE Inv == QueueRuns \/ (Ended /\ LogsQueued /\ SentOnce)
<1>1. Inv /\ [Next]_vars => Inv'
  BY QueueRunsStep, FreeQueue, EndedQueueStays
<1>2. Inv => LogsQueued /\ SentOnce
  BY QueueRunsQueued, QueueRunsOnce
<1>3. Init => Inv
  BY InitQueueRuns
<1> HIDE DEF Inv
<1> QED
  BY <1>1, <1>2, <1>3, PTL DEF Spec

\* No log is forgotten (http_sync_all_logs, log_rollover, log_free): until
\* trace_end returns, one that was rolled over and is still on the disk is
\* queued, or in the hands of a thread that cannot be cancelled; after it, it is
\* one that the server could not be reached for.  For any number of logging
\* threads and whatever fails.
THEOREM NoLogForgotten == Spec => []LogsQueued
BY QueueInvariant, PTL

\* No log is sent twice: the queue, the list being sent and the list to try
\* again are disjoint and without duplicates, and no log that the server has is
\* in them (http_sync_all_logs).
THEOREM NoLogSentTwice == Spec => []SentOnce
BY QueueInvariant, PTL

-------------------------------------------------------------------------------
(***************************************************************************)
(* The types: how many lines there are, and what num_lines can be.         *)
(***************************************************************************)
FullInv ==
  QueueRuns /\ NumInv /\ LineInv /\ ShapeInv /\ RestInv

LEMMA FiniteThreads ==
  /\ IsFiniteSet(Threads)
  /\ IsFiniteSet(Counting) /\ Cardinality(Counting) \in Nat
  /\ IsFiniteSet(Printing) /\ Cardinality(Printing) \in Nat
<1>1. IsFiniteSet({Roll}) /\ IsFiniteSet({Sync}) /\ IsFiniteSet({Main})
  BY FS_Singleton
<1>2. IsFiniteSet({Sync} \cup {Main})
  BY <1>1, FS_Union
<1>3. IsFiniteSet({Roll} \cup ({Sync} \cup {Main}))
  BY <1>1, <1>2, FS_Union
<1>4. IsFiniteSet(Loggers)
  BY TraceAssumption DEF TraceAssumption
<1>5. IsFiniteSet(Loggers \cup ({Roll} \cup ({Sync} \cup {Main})))
  BY <1>3, <1>4, FS_Union
<1>6. Threads = Loggers \cup ({Roll} \cup ({Sync} \cup {Main}))
  BY DEF Threads
<1>7. IsFiniteSet(Threads)
  BY <1>5, <1>6
<1>8. IsFiniteSet(Counting) /\ IsFiniteSet(Printing)
  BY <1>4, <1>7, FS_Subset DEF Counting, Printing
<1> QED
  BY <1>7, <1>8, FS_CardinalityType

\* Steps that neither print nor count a line.
LEMMA PlainKeeps ==
  ASSUME LogType, NumInv, LineInv, ShapeInv, NEW t \in Threads, NEW l \in PCs,
         pc[t] \notin {"load", "store", "print"},
         l \notin {"load", "store", "print", "run"},
         pc' = [pc EXCEPT ![t] = l],
         lines' = lines, num_lines' \in {0, num_lines},
         tmp' \in {tmp, [tmp EXCEPT ![t] = 0]},
         logs' \in {logs, Append(logs, {})},
         at'[t] \in {at[t]} \cup 0..Cur, \A u \in Threads \ {t} : at'[u] = at[u]
  PROVE  (NumInv /\ LineInv /\ ShapeInv)'
<1>1. pc'[t] = l /\ \A u \in Threads \ {t} : pc'[u] = pc[u]
  BY DEF LogType
<1>2. Counting' = Counting
  BY <1>1 DEF Counting
<1>3. Printing' \subseteq Printing /\ Printing \subseteq Printing'
  BY <1>1 DEF Printing
<1>4. /\ tmp' \in [Threads -> Nat] /\ \A u \in Threads \ {t} : tmp'[u] = tmp[u]
      /\ tmp'[t] \in {0, tmp[t]}
  BY DEF NumInv
<1>5. MaxLines \in Nat /\ Cardinality(Counting) \in Nat
  BY TraceAssumption, FiniteThreads DEF TraceAssumption
<1>6. NumInv'
  <2>1. num_lines' + Cardinality(Counting) <= lines
    BY <1>5 DEF NumInv
  <2>2. \A u \in Threads : tmp'[u] <= MaxLines + 1
    BY <1>4, <1>5 DEF NumInv
  <2>3. \A u \in Threads : pc'[u] = "store" => u # t /\ tmp'[u] + Cardinality(Counting) <= lines
    BY <1>1, <1>4 DEF NumInv
  <2> QED
    BY <1>2, <1>4, <2>1, <2>2, <2>3 DEF NumInv
<1>7. LineInv'
  <2>1. pc'[Main] \in {"run", "print"} => pc[Main] \in {"run", "print"}
    BY <1>1 DEF Threads
  <2>2. Printing' = Printing
    BY <1>3
  <2> QED
    BY <2>1, <2>2 DEF LineInv
<1>8. ShapeInv'
  <2>1. logs' \in Seq(SUBSET (1..MaxLines + 1)) /\ Len(logs) \in Nat /\ Cur' \in {Cur, Cur + 1}
    BY DEF ShapeInv, Cur
  <2>2. \A u \in Threads : at[u] \in Nat /\ at[u] <= Cur'
    BY <2>1 DEF LogType, ShapeInv, Cur
  <2>3. at'[t] <= Cur'
    BY <2>1, <2>2 DEF Cur
  <2> QED
    BY <2>1, <2>2, <2>3 DEF ShapeInv
<1> QED
  BY <1>6, <1>7, <1>8

\* A line is printed, counted, or about to be printed.
LEMMA CountKeeps ==
  ASSUME TraceInv, CtrlInv, NumInv, LineInv, ShapeInv, NEW t \in Loggers \cup {Main},
         LogEnter(t) \/ LogStep(t)
  PROVE  (NumInv /\ LineInv /\ ShapeInv)'
<1>0. /\ LogType /\ t \in Threads /\ Main \in Threads /\ Main \notin Loggers
      /\ Loggers \subseteq Threads /\ MaxLines \in Nat
      /\ IsFiniteSet(Counting) /\ Cardinality(Counting) \in Nat
      /\ IsFiniteSet(Printing) /\ Cardinality(Printing) \in Nat
      /\ Cur \in Nat
  BY TraceAssumption, FiniteThreads DEF TraceAssumption, TraceInv, LogType, Threads, Cur
<1>1. \A l \in PCs : pc' = [pc EXCEPT ![t] = l] =>
                        pc'[t] = l /\ \A u \in Threads \ {t} : pc'[u] = pc[u]
  BY <1>0 DEF LogType
<1>2. CASE LogTest(t)
  <2>1. PICK l \in PCs : l \in {"idle", "stop"} /\ pc' = [pc EXCEPT ![t] = l]
    BY <1>2 DEF LogTest, Goto, PCs
  <2>2. /\ pc[t] = "test" /\ lines' = lines /\ num_lines' \in {0, num_lines}
        /\ tmp' = [tmp EXCEPT ![t] = 0] /\ logs' = logs
        /\ at'[t] = 0 /\ \A u \in Threads \ {t} : at'[u] = at[u]
    BY <1>0, <1>2 DEF LogTest, LogType
  <2>3. at'[t] \in 0..Cur
    BY <1>0, <2>2
  <2> QED
    BY <1>0, <2>1, <2>2, <2>3, PlainKeeps
<1>3. CASE LogEnter(t)
  <2>1. /\ pc'[t] = "print" /\ \A u \in Threads \ {t} : pc'[u] = pc[u]
        /\ pc[t] \in {"idle", "run"} /\ pc[Main] = "run"
        /\ UNCHANGED <<num_lines, lines, tmp, logs>>
        /\ at'[t] = Cur /\ \A u \in Threads \ {t} : at'[u] = at[u]
    BY <1>0, <1>1, <1>3 DEF LogEnter, MayLog, Goto, PCs, logVars, LogType
  <2>2. Counting' = Counting
    BY <2>1 DEF Counting
  <2>3. NumInv'
    BY <2>1, <2>2 DEF NumInv
  <2>4. LineInv'
    <3>1. CASE t = Main
      <4>1. Printing' = {}
        BY <1>0, <1>3, <2>1, <3>1 DEF Printing, LogEnter, MayLog
      <4>2. Cardinality(Printing') = 0
        BY <4>1, FS_EmptySet
      <4>3. lines <= MaxLines
        BY <1>0, <2>1 DEF LineInv, NumInv
      <4> QED
        BY <1>0, <2>1, <4>2, <4>3 DEF LineInv, NumInv
    <3>2. CASE t \in Loggers
      <4>1. Printing' = Printing \cup {t} /\ t \notin Printing
        BY <1>0, <2>1, <3>2 DEF Printing
      <4>2. Cardinality(Printing') = Cardinality(Printing) + 1
        BY <1>0, <4>1, FS_AddElement
      <4>3. lines + Cardinality(Printing) < MaxLines
        BY <1>0, <1>3, <3>2 DEF LogEnter, MayLog, Printing
      <4> QED
        BY <1>0, <2>1, <4>2, <4>3 DEF LineInv, NumInv
    <3> QED
      BY <3>1, <3>2
  <2>5. ShapeInv'
    BY <1>0, <2>1 DEF ShapeInv, Cur
  <2> QED
    BY <2>3, <2>4, <2>5
<1>4. CASE LogPrint(t)
  <2>1. /\ pc[t] = "print" /\ pc'[t] = "load" /\ \A u \in Threads \ {t} : pc'[u] = pc[u]
        /\ UNCHANGED <<num_lines, tmp, at>> /\ lines' = lines + 1
        /\ logs' = [logs EXCEPT ![at[t]] = @ \cup {lines + 1}]
    BY <1>0, <1>1, <1>4 DEF LogPrint, Goto, PCs
  <2>2. Counting' = Counting \cup {t} /\ t \notin Counting
    BY <1>0, <1>4, <2>1 DEF Counting, LogPrint
  <2>3. Cardinality(Counting') = Cardinality(Counting) + 1
    BY <1>0, <2>2, FS_AddElement
  <2>4. NumInv'
    <3>1. \A u \in Threads : pc'[u] = "store" => pc[u] = "store"
      BY <2>1
    <3> QED
      BY <1>0, <2>1, <2>3, <3>1 DEF NumInv
  <2>5. LineInv' /\ lines + 1 \in 1..MaxLines + 1
    <3>1. CASE t = Main
      BY <1>0, <1>4, <2>1, <3>1 DEF LineInv, NumInv, LogPrint
    <3>2. CASE t \in Loggers
      <4>1. pc[Main] = "run" /\ pc'[Main] = "run"
        BY <1>0, <1>4, <2>1, <3>2 DEF CtrlInv, LogPrint
      <4>2. Printing' = Printing \ {t} /\ t \in Printing
        BY <1>0, <1>4, <2>1, <3>2 DEF Printing, LogPrint
      <4>3. Cardinality(Printing') = Cardinality(Printing) - 1
        BY <1>0, <4>2, FS_RemoveElement
      <4> QED
        BY <1>0, <2>1, <4>1, <4>3, FiniteThreads DEF LineInv, NumInv
    <3> QED
      BY <3>1, <3>2
  <2>6. ShapeInv'
    <3>1. at[t] = Len(logs) /\ Len(logs) \in Nat \ {0}
      BY <1>0, <1>4 DEF TraceInv, LogType, PrintsCurrent, LogPrint, Cur
    <3>2. logs[at[t]] \cup {lines + 1} \in SUBSET (1..MaxLines + 1)
      BY <2>5, <3>1 DEF ShapeInv
    <3>3. logs' \in Seq(SUBSET (1..MaxLines + 1)) /\ Len(logs') = Len(logs)
      BY <2>1, <3>1, <3>2 DEF ShapeInv
    <3> QED
      BY <2>1, <3>3 DEF ShapeInv, Cur
  <2> QED
    BY <2>4, <2>5, <2>6
<1>5. CASE LogLoad(t)
  <2>1. /\ pc[t] = "load" /\ pc'[t] = "store" /\ \A u \in Threads \ {t} : pc'[u] = pc[u]
        /\ UNCHANGED <<num_lines, lines, at, logs>>
        /\ tmp' = [tmp EXCEPT ![t] = num_lines]
    BY <1>0, <1>1, <1>5 DEF LogLoad, Goto, PCs, logVars
  <2>2. Counting' = Counting /\ Printing' = Printing
    BY <1>0, <1>5, <2>1 DEF Counting, Printing, LogLoad
  <2>3. /\ tmp' \in [Threads -> Nat] /\ tmp'[t] = num_lines
        /\ \A u \in Threads \ {t} : tmp'[u] = tmp[u]
    BY <1>0, <2>1 DEF NumInv
  <2>4. NumInv'
    BY <1>0, <2>1, <2>2, <2>3 DEF NumInv, LineInv
  <2>5. LineInv'
    BY <1>0, <1>5, <2>1, <2>2 DEF LineInv, LogLoad
  <2>6. ShapeInv'
    BY <2>1 DEF ShapeInv, Cur
  <2> QED
    BY <2>4, <2>5, <2>6
<1>6. CASE LogStore(t)
  <2>1. /\ pc[t] = "store" /\ pc'[t] = "test" /\ \A u \in Threads \ {t} : pc'[u] = pc[u]
        /\ UNCHANGED <<tmp, lines, at, logs>>
        /\ num_lines' = tmp[t] + 1
    BY <1>0, <1>1, <1>6 DEF LogStore, Goto, PCs, thrVars
  <2>2. Counting' = Counting \ {t} /\ t \in Counting /\ Printing' = Printing
    BY <1>0, <1>6, <2>1 DEF Counting, Printing, LogStore
  <2>3. Cardinality(Counting') = Cardinality(Counting) - 1
    BY <1>0, <2>2, FS_RemoveElement
  <2>4. NumInv'
    <3>1. \A u \in Threads : pc'[u] = "store" => pc[u] = "store"
      BY <2>1
    <3>2. tmp[t] \in Nat /\ tmp[t] + Cardinality(Counting) <= lines
      BY <1>0, <1>6 DEF NumInv, LogStore
    <3> QED
      BY <1>0, <2>1, <2>3, <3>1, <3>2 DEF NumInv
  <2>5. LineInv'
    BY <1>0, <1>6, <2>1, <2>2 DEF LineInv, LogStore
  <2>6. ShapeInv'
    BY <2>1 DEF ShapeInv, Cur
  <2> QED
    BY <2>4, <2>5, <2>6
<1> QED
  BY <1>2, <1>3, <1>4, <1>5, <1>6 DEF LogStep

\* The rest of the types.
LEMMA RestStep == RestInv /\ [Next]_vars => RestInv'
<1> SUFFICES ASSUME RestInv, [Next]_vars PROVE RestInv'
  OBVIOUS
<1>0. {Roll, Sync, Main} \subseteq Threads /\ Loggers \subseteq Threads
  BY DEF Threads
<1> USE DEF RestInv, logVars, semVars, endVars, queVars, stopVars, thrVars
<1>1. ASSUME NEW t \in Loggers \cup {Main}, LogEnter(t) \/ LogStep(t) PROVE RestInv'
  <2>1. CASE LogTest(t)
    <3>1. readers' \subseteq readers /\ rollover_sem' \in {rollover_sem, rollover_sem + 1}
          /\ UNCHANGED <<sync_sem, running, cancelled>>
      BY <2>1 DEF LogTest
    <3> QED
      BY <3>1
  <2> QED
    BY <1>0, <1>1, <2>1 DEF LogEnter, LogStep, LogPrint, LogLoad, LogStore
<1>2. ASSUME NEW t \in Threads, RolloverStep(t) PROVE RestInv'
  BY <1>2 DEF RolloverStep, Swap, SwapFail, ClosePipe, Push
<1>3. ASSUME NEW t \in {Sync, Main}, SendAllStep(t) PROVE RestInv'
  BY <1>3 DEF SendAllStep, Take, SendOk, SendNoConn, SendFail, SendSpin, SendDone, PutBack,
              SyncLoop
<1>4. CASE RollStep
  BY <1>0, <1>2, <1>4 DEF RollStep, RollWake, RollRdlock, RollPeek, RollPost
<1>5. CASE SyncStep
  BY <1>3, <1>5 DEF SyncStep, SyncWake
<1>6. CASE MainStep
  BY <1>0, <1>2, <1>3, <1>6 DEF MainStep, StopRoll, StopSync, Stopped, LogFree
<1>7. CASE \E t \in {Roll, Sync} : Die(t)
  BY <1>7 DEF Die
<1>8. CASE UNCHANGED vars
  BY <1>8 DEF vars
<1> QED
  BY <1>1, <1>4, <1>5, <1>6, <1>7, <1>8 DEF Next

LEMMA CountStep ==
  TraceInv /\ CtrlInv /\ NumInv /\ LineInv /\ ShapeInv /\ [Next]_vars /\ ~LogFree
    => (NumInv /\ LineInv /\ ShapeInv)'
<1> SUFFICES ASSUME TraceInv, CtrlInv, NumInv, LineInv, ShapeInv, [Next]_vars, ~LogFree
             PROVE  (NumInv /\ LineInv /\ ShapeInv)'
  OBVIOUS
<1>0. LogType /\ {Roll, Sync, Main} \subseteq Threads /\ Cur \in Nat
  BY DEF TraceInv, LogType, Threads, Cur
<1> USE DEF Goto, PCs, logVars, thrVars
<1>1. ASSUME NEW t \in Threads, RolloverStep(t) PROVE (NumInv /\ LineInv /\ ShapeInv)'
  <2>1. CASE Swap(t)
    <3>1. /\ num_lines' = 0 /\ lines' = lines /\ tmp' = tmp /\ logs' = Append(logs, {})
          /\ at'[t] \in 0..Cur /\ \A u \in Threads \ {t} : at'[u] = at[u]
          /\ pc[t] = "swap" /\ pc' = [pc EXCEPT ![t] = "close"]
      BY <1>0, <2>1 DEF Swap, LogType
    <3> QED
      BY <1>0, <3>1, PlainKeeps
  <2>2. CASE Push(t)
    <3>1. /\ UNCHANGED <<num_lines, lines, tmp, logs>>
          /\ at'[t] \in 0..Cur /\ \A u \in Threads \ {t} : at'[u] = at[u]
      BY <1>0, <2>2 DEF Push, LogType
    <3>2. pc[t] = "push" /\ \E l \in {"take", "post"} : pc' = [pc EXCEPT ![t] = l]
      BY <2>2 DEF Push
    <3> QED
      BY <1>0, <3>1, <3>2, PlainKeeps
  <2>3. CASE SwapFail(t)
    BY <1>0, <2>3, PlainKeeps DEF SwapFail
  <2>4. CASE ClosePipe(t)
    BY <1>0, <2>4, PlainKeeps DEF ClosePipe
  <2> QED
    BY <1>1, <2>1, <2>2, <2>3, <2>4 DEF RolloverStep
<1>2. ASSUME NEW t \in {Sync, Main}, SendAllStep(t) PROVE (NumInv /\ LineInv /\ ShapeInv)'
  <2>1. UNCHANGED <<num_lines, lines, tmp, logs, at>>
    BY <1>2 DEF SendAllStep, Take, SendOk, SendNoConn, SendFail, SendSpin, SendDone, PutBack,
                SyncLoop
  <2>2. /\ pc[t] \in {"take", "send", "putBack", "loop"}
        /\ \E l \in {"send", "spin", "loop", "putBack", "wait", "exit", "free"} :
             pc' = [pc EXCEPT ![t] = l]
    <3>1. CASE SyncLoop(t)
      BY <3>1, TraceAssumption DEF TraceAssumption, SyncLoop
    <3>2. CASE pc' = pc /\ pc[t] = "send"
      BY <1>0, <3>2 DEF LogType
    <3>3. CASE Take(t) \/ SendSpin(t) \/ SendDone(t) \/ PutBack(t)
      BY <3>3 DEF Take, SendSpin, SendDone, PutBack
    <3> QED
      BY <1>2, <3>1, <3>2, <3>3 DEF SendAllStep, SendOk, SendNoConn, SendFail
  <2> QED
    BY <1>0, <2>1, <2>2, PlainKeeps
<1>3. CASE RollWake \/ RollRdlock \/ RollPeek \/ RollPost
  BY <1>0, <1>3, PlainKeeps DEF RollWake, RollRdlock, RollPeek, RollPost
<1>4. CASE SyncWake
  BY <1>0, <1>4, PlainKeeps DEF SyncWake
<1>5. CASE StopRoll \/ StopSync \/ Stopped
  BY <1>0, <1>5, PlainKeeps DEF StopRoll, StopSync, Stopped
<1>6. ASSUME NEW t \in {Roll, Sync}, Die(t) PROVE (NumInv /\ LineInv /\ ShapeInv)'
  <2>1. /\ pc[t] \notin {"load", "store", "print"} /\ pc' = [pc EXCEPT ![t] = "dead"]
        /\ UNCHANGED <<num_lines, lines, tmp, logs, at>>
    BY <1>6 DEF Die
  <2> QED
    BY <1>0, <2>1, PlainKeeps
<1>7. CASE UNCHANGED vars
  BY <1>7 DEF vars, NumInv, LineInv, ShapeInv, Counting, Printing, Cur
<1> QED
  BY <1>0, <1>1, <1>2, <1>3, <1>4, <1>5, <1>6, <1>7, CountKeeps
  DEF Next, RollStep, SyncStep, MainStep

LEMMA InitCount == Init => NumInv /\ LineInv /\ ShapeInv /\ RestInv
<1> SUFFICES ASSUME Init PROVE NumInv /\ LineInv /\ ShapeInv /\ RestInv
  OBVIOUS
<1>1. \A t \in Threads : pc[t] \in {"idle", "run", "wait"} /\ tmp[t] = 0 /\ at[t] = 0
  BY DEF Init
<1>2. Counting = {} /\ Printing = {}
  BY <1>1 DEF Counting, Printing, Threads
<1>3. Cardinality(Counting) = 0 /\ Cardinality(Printing) = 0
  BY <1>2, FS_EmptySet
<1>4. MaxLines \in Nat \ {0}
  BY TraceAssumption DEF TraceAssumption
<1>5. NumInv
  BY <1>1, <1>3, <1>4 DEF Init, NumInv
<1>6. LineInv
  BY <1>3, <1>4 DEF Init, LineInv
<1>7. ShapeInv
  <2>1. {1} \in SUBSET (1..MaxLines + 1)
    BY <1>4
  <2>2. logs \in Seq(SUBSET (1..MaxLines + 1)) /\ Cur = 1
    BY <2>1 DEF Init, Cur
  <2> QED
    BY <1>1, <2>2 DEF ShapeInv
<1>8. RestInv
  BY DEF Init, RestInv
<1> QED
  BY <1>5, <1>6, <1>7, <1>8

LEMMA FullTypes == FullInv => TypeOK
<1> SUFFICES ASSUME FullInv PROVE TypeOK
  OBVIOUS
<1>1. /\ Cur \in Nat \ {0} /\ MaxLines \in Nat /\ logs # <<>>
      /\ Cardinality(Counting) \in Nat
  BY TraceAssumption, FiniteThreads DEF TraceAssumption, FullInv, QueueRuns, TraceInv, LogType, Cur
<1>2. ASSUME NEW q \in Seq(Nat), ToSet(q) \subseteq closed PROVE q \in Seq(1..Cur - 1)
  BY <1>2, SeqOfElements DEF FullInv, QueueRuns, QueueParts, QueueInv
<1>3. \A q \in {sync_buf, batch, failed} : q \in Seq(1..Cur - 1)
  BY <1>2 DEF FullInv, QueueRuns, QueueParts, QueueInv
<1>4. num_lines \in 0..MaxLines + 1 /\ lines \in 0..MaxLines + 1
  BY <1>1 DEF FullInv, NumInv, LineInv
<1>5. tmp \in [Threads -> 0..MaxLines + 1]
  <2>1. \A t \in Threads : tmp[t] \in 0..MaxLines + 1
    BY <1>1 DEF FullInv, NumInv
  <2> QED
    BY <2>1 DEF FullInv, NumInv
<1>6. at \in [Threads -> 0..Cur]
  <2>1. \A t \in Threads : at[t] \in 0..Cur
    BY <1>1 DEF FullInv, QueueRuns, TraceInv, LogType, ShapeInv
  <2> QED
    BY <2>1 DEF FullInv, QueueRuns, TraceInv, LogType
<1>7. /\ closed \subseteq 1..Cur - 1 /\ sent \cup unlinked \cup refused \subseteq closed
      /\ pc[Main] # "finished"
  BY DEF FullInv, QueueRuns, QueueParts, QueueInv, RefusedInv, CtrlInv
<1>8. logs \in Seq(SUBSET (1..MaxLines + 1)) /\ pc \in [Threads -> PCs]
  BY DEF FullInv, ShapeInv, QueueRuns, TraceInv, LogType
<1> QED
  BY <1>1, <1>3, <1>4, <1>5, <1>6, <1>7, <1>8 DEF TypeOK, FullInv, RestInv

\* log_free closes the current log's pipe and empties the queue.
LEMMA FreeTypes == FullInv /\ LogFree => (Ended /\ TypeOK)'
<1> SUFFICES ASSUME FullInv, LogFree PROVE (Ended /\ TypeOK)'
  OBVIOUS
<1>1. Ended' /\ TypeOK
  BY FreeEnds, FullTypes DEF FullInv, QueueRuns
<1>2. /\ pc[Main] = "free" /\ sync_buf' = <<>> /\ closed' = closed \cup {Cur} /\ Cur' = Cur
      /\ UNCHANGED <<logs, num_lines, readers, rollover_sem, sync_sem, sent, unlinked, refused,
                     running, cancelled, at, tmp, batch, failed, lines>>
  BY DEF LogFree, semVars, endVars, stopVars, thrVars, Cur
<1>3. Main \in Threads /\ "finished" \in PCs /\ pc' = [pc EXCEPT ![Main] = "finished"]
  BY DEF Threads, PCs, LogFree, Goto
<1>4. pc' \in [Threads -> PCs] /\ pc'[Main] = "finished"
  BY <1>1, <1>3 DEF TypeOK
<1>5. Cur \in Nat \ {0}
  BY <1>1 DEF TypeOK, Cur
<1>6. closed' \subseteq 1..Cur'
  BY <1>1, <1>2, <1>5 DEF TypeOK
<1>7. \A s \in {sync_buf', batch', failed'} : s \in Seq(1..Cur' - 1)
  <2>1. batch \in Seq(1..Cur - 1) /\ failed \in Seq(1..Cur - 1)
    BY <1>1 DEF TypeOK
  <2>2. <<>> \in Seq(1..Cur - 1)
    OBVIOUS
  <2> QED
    BY <1>2, <2>1, <2>2
<1>8. (sent \cup unlinked \cup refused)' \subseteq closed'
  BY <1>1, <1>2 DEF TypeOK
<1> QED
  BY <1>1, <1>2, <1>4, <1>6, <1>7, <1>8 DEF TypeOK

LEMMA EndedTypesStay == Ended /\ TypeOK /\ [Next]_vars => (Ended /\ TypeOK)'
BY EndedStays
DEF Ended, vars, logVars, semVars, queVars, endVars, stopVars, thrVars, TypeOK, Cur

\* The variables keep their types, whatever is lost of the unprotected counter
\* num_lines: it never exceeds the number of lines, a queued log is never the
\* current one, and only a log whose pipe was closed is sent or deleted
\* (log_maybe_signal_rollover, log_swap, http_sync_all_logs).
THEOREM TraceTypes == Spec => []TypeOK
<1> DEFINE Inv == FullInv \/ (Ended /\ TypeOK)
<1>1. Init => Inv
  BY InitQueueRuns, InitCount DEF FullInv
<1>2. FullInv /\ [Next]_vars /\ ~LogFree => FullInv'
  BY QueueRunsStep, CountStep, RestStep DEF FullInv, QueueRuns
<1>3. Inv /\ [Next]_vars => Inv'
  BY <1>2, FreeTypes, EndedTypesStay
<1>4. Inv => TypeOK
  BY FullTypes
<1> HIDE DEF Inv
<1> QED
  BY <1>1, <1>3, <1>4, PTL DEF Spec

-------------------------------------------------------------------------------
(***************************************************************************)
(* What trace_end has done when it returns, if nothing fails.              *)
(***************************************************************************)
LEMMA NothingFailedStep ==
  ASSUME NoErrors, NothingFailed, [Next]_vars
  PROVE  NothingFailed'
<1> USE DEF NothingFailed, endVars, queVars, thrVars
<1>1. ASSUME NEW t, SendAllStep(t) PROVE NothingFailed'
  BY <1>1 DEF NoErrors, SendAllStep, Take, SendOk, SendNoConn, SendFail, SendSpin, SendDone,
              PutBack, SyncLoop
<1>2. ASSUME NEW t, RolloverStep(t) PROVE NothingFailed'
  BY <1>2 DEF RolloverStep, Swap, SwapFail, ClosePipe, Push
<1>3. ASSUME NEW t, LogEnter(t) \/ LogStep(t) PROVE NothingFailed'
  BY <1>3 DEF LogEnter, LogStep, LogPrint, LogLoad, LogStore, LogTest
<1>4. CASE RollStep
  BY <1>2, <1>4 DEF RollStep, RollWake, RollRdlock, RollPeek, RollPost
<1>5. CASE SyncStep
  BY <1>1, <1>5 DEF SyncStep, SyncWake
<1>6. CASE MainStep
  BY <1>1, <1>2, <1>6 DEF MainStep, StopRoll, StopSync, Stopped, LogFree
<1>7. CASE \E t \in {Roll, Sync} : Die(t)
  BY <1>7 DEF Die
<1>8. CASE UNCHANGED vars
  BY <1>8 DEF vars
<1> QED
  BY <1>3, <1>4, <1>5, <1>6, <1>7, <1>8 DEF Next

\* What becomes of the logs in a step.
LEMMA LogsGrow ==
  ASSUME [Next]_vars
  PROVE  \/ logs' = logs /\ lines' = lines
         \/ \E t \in Loggers \cup {Main} : LogPrint(t)
         \/ \E t \in {Roll, Main} : Swap(t)
<1> DEFINE Same == logs' = logs /\ lines' = lines
<1> USE DEF logVars, thrVars
<1>1. ASSUME NEW t, SendAllStep(t) PROVE Same
  BY <1>1 DEF SendAllStep, Take, SendOk, SendNoConn, SendFail, SendSpin, SendDone,
              PutBack, SyncLoop
<1>2. ASSUME NEW t, RolloverStep(t), ~Swap(t) PROVE Same
  BY <1>2 DEF RolloverStep, SwapFail, ClosePipe, Push
<1>3. ASSUME NEW t, LogEnter(t) \/ LogStep(t), ~LogPrint(t) PROVE Same
  BY <1>3 DEF LogEnter, LogStep, LogLoad, LogStore, LogTest
<1>4. CASE RollStep
  BY <1>2, <1>4 DEF RollStep, RollWake, RollRdlock, RollPeek, RollPost
<1>5. CASE SyncStep
  BY <1>1, <1>5 DEF SyncStep, SyncWake
<1>6. CASE MainStep
  BY <1>1, <1>2, <1>6 DEF MainStep, StopRoll, StopSync, Stopped, LogFree
<1>7. CASE \E t \in {Roll, Sync} : Die(t)
  BY <1>7 DEF Die
<1>8. CASE UNCHANGED vars
  BY <1>8 DEF vars
<1> QED
  BY <1>3, <1>4, <1>5, <1>6, <1>7, <1>8 DEF Next

LEMMA AllLoggedStep ==
  ASSUME TraceInv, AllLogged, [Next]_vars
  PROVE  AllLogged'
<1>0. logs \in Seq(SUBSET Nat) /\ Len(logs) \in Nat \ {0} /\ lines \in Nat /\ Cur = Len(logs)
  BY DEF TraceInv, LogType, Cur
<1>1. CASE logs' = logs /\ lines' = lines
  BY <1>1 DEF AllLogged, Cur
<1>2. ASSUME NEW t \in Loggers \cup {Main}, LogPrint(t) PROVE AllLogged'
  <2>1. /\ at[t] = Cur /\ lines' = lines + 1 /\ Cur' = Cur
        /\ \A i \in 1..Cur : logs'[i] = IF i = Cur THEN logs[i] \cup {lines + 1} ELSE logs[i]
    <3>1. at[t] = Cur /\ lines' = lines + 1
      BY <1>2 DEF LogPrint, TraceInv, PrintsCurrent, Threads
    <3>2. logs' = [logs EXCEPT ![Cur] = @ \cup {lines + 1}]
      BY <1>2, <3>1 DEF LogPrint
    <3>3. Len(logs') = Len(logs) /\ \A i \in 1..Len(logs) : logs'[i] =
                                       IF i = Cur THEN logs[i] \cup {lines + 1} ELSE logs[i]
      <4> DEFINE e == logs[Cur] \cup {lines + 1}
      <4>1. Cur \in 1..Len(logs) /\ e \in SUBSET Nat
        BY <1>0
      <4>2. logs' = [logs EXCEPT ![Cur] = e]
        BY <3>2
      <4> HIDE DEF e
      <4>3. /\ Len(logs') = Len(logs)
            /\ \A i \in 1..Len(logs) : logs'[i] = IF i = Cur THEN e ELSE logs[i]
        BY <1>0, <4>1, <4>2, ExceptSeq
      <4> QED
        BY <4>3 DEF e
    <3> QED
      BY <3>1, <3>3 DEF Cur
  <2> SUFFICES ASSUME NEW n \in 1..lines + 1 PROVE \E i \in 1..Cur : n \in logs'[i]
    BY <2>1 DEF AllLogged
  <2>2. CASE n = lines + 1
    <3>1. Cur \in 1..Cur
      BY <1>0
    <3>2. n \in logs'[Cur]
      BY <2>1, <2>2, <3>1
    <3> QED
      BY <3>1, <3>2
  <2>3. CASE n # lines + 1
    <3>1. n \in 1..lines
      BY <1>0, <2>3
    <3>2. PICK i \in 1..Cur : n \in logs[i]
      BY <3>1 DEF AllLogged
    <3> QED
      BY <2>1, <3>2
  <2> QED
    BY <2>2, <2>3
<1>3. ASSUME NEW t \in {Roll, Main}, Swap(t) PROVE AllLogged'
  <2>1. /\ lines' = lines /\ Cur' = Cur + 1 /\ \A i \in 1..Cur : logs'[i] = logs[i]
    BY <1>0, <1>3 DEF Swap, Cur
  <2> SUFFICES ASSUME NEW n \in 1..lines PROVE \E i \in 1..Cur + 1 : n \in logs'[i]
    BY <2>1 DEF AllLogged
  <2>2. PICK i \in 1..Cur : n \in logs[i]
    BY DEF AllLogged
  <2>3. i \in 1..Cur + 1
    BY <1>0
  <2> QED
    BY <2>1, <2>2, <2>3
<1> QED
  BY <1>1, <1>2, <1>3, LogsGrow

LEMMA MainDrainsStep ==
  ASSUME NoErrors, TraceInv, CtrlInv, NothingFailed, MainDrains, [Next]_vars, ~LogFree
  PROVE  MainDrains'
<1>0. /\ {Roll, Sync, Main} \subseteq Threads /\ Loggers \subseteq Threads
      /\ pc \in [Threads -> PCs]
      /\ Roll # Main /\ Sync # Main /\ Main \notin Loggers
      /\ logs \in Seq(SUBSET Nat) /\ Len(logs) \in Nat \ {0}
  BY TraceAssumption DEF TraceAssumption, TraceInv, LogType, Threads
<1> DEFINE Late == {"close", "push", "take", "send", "spin", "putBack", "loop", "free"}
<1>1. ASSUME pc'[Main] \notin Late PROVE MainDrains'
  BY <1>1 DEF MainDrains
<1>2. ASSUME pc'[Main] = pc[Main], logs' = logs, sync_buf' = sync_buf PROVE MainDrains'
  BY <1>2 DEF MainDrains, Cur
<1>3. \A u \in Threads, l \in PCs : Goto(u, l) =>
         pc'[u] = l /\ \A v \in Threads \ {u} : pc'[v] = pc[v]
  BY <1>0 DEF Goto
<1>4. ASSUME NEW u \in {Roll, Sync}, pc[u] \notin {"exit", "dead"}, pc'[Main] = pc[Main]
      PROVE  MainDrains'
  BY <1>1, <1>4 DEF CtrlInv
<1>5. ASSUME NEW t \in Loggers \cup {Main}, LogEnter(t) \/ LogStep(t) PROVE MainDrains'
  <2>1. \E l \in PCs : l \notin Late /\ Goto(t, l)
    BY <1>5 DEF LogEnter, LogStep, LogPrint, LogLoad, LogStore, LogTest, PCs
  <2>2. t # Main => pc[Main] = "run"
    BY <1>5 DEF CtrlInv, LogEnter, MayLog, LogStep, LogPrint, LogLoad, LogStore, LogTest
  <2>3. pc'[Main] \notin Late
    BY <1>0, <1>3, <2>1, <2>2
  <2> QED
    BY <1>1, <2>3
<1>6. CASE RollStep
  <2>1. pc[Roll] \notin {"exit", "dead"} /\ \E l \in PCs : Goto(Roll, l)
    BY <1>6 DEF RollStep, RollWake, RollRdlock, RollPeek, RollPost, RolloverStep, Swap, SwapFail,
                ClosePipe, Push, PCs
  <2> QED
    BY <1>0, <1>3, <1>4, <2>1
<1>7. CASE SyncStep
  <2>1. pc[Sync] \notin {"exit", "dead"}
    BY <1>7 DEF SyncStep, SyncWake, SendAllStep, Take, SendOk, SendNoConn, SendFail, SendSpin,
                SendDone, PutBack, SyncLoop
  <2>2. pc' = pc \/ \E l \in PCs : Goto(Sync, l)
    <3>1. CASE SyncLoop(Sync)
      BY <1>0, <3>1 DEF SyncLoop, PCs
    <3> QED
      BY <1>7, <3>1 DEF SyncStep, SyncWake, SendAllStep, Take, SendOk, SendNoConn, SendFail,
                        SendSpin, SendDone, PutBack, PCs
  <2> QED
    BY <1>0, <1>3, <1>4, <2>1, <2>2
<1>8. CASE StopRoll \/ StopSync \/ Stopped
  <2>1. \E l \in PCs : l \notin Late /\ Goto(Main, l)
    BY <1>8 DEF StopRoll, StopSync, Stopped, PCs
  <2> QED
    BY <1>0, <1>1, <1>3, <2>1
<1>9. CASE RolloverStep(Main)
  <2>1. CASE Swap(Main)
    <3>1. pc'[Main] = "close" /\ logs' = Append(logs, {})
      BY <1>0, <2>1 DEF Swap, Goto
    <3>2. logs'[Cur'] = {}
      BY <1>0, <3>1 DEF Cur
    <3> QED
      BY <3>1, <3>2 DEF MainDrains
  <2>2. CASE ClosePipe(Main)
    <3>1. pc[Main] = "close" /\ pc'[Main] = "push" /\ logs' = logs
      BY <1>0, <2>2 DEF ClosePipe, Goto
    <3> QED
      BY <3>1 DEF MainDrains, Cur
  <2>3. CASE Push(Main)
    <3>1. pc[Main] = "push" /\ pc'[Main] = "take" /\ logs' = logs
      BY <1>0, <2>3 DEF Push, Goto, logVars
    <3> QED
      BY <3>1 DEF MainDrains, Cur
  <2> QED
    BY <1>9, <2>1, <2>2, <2>3 DEF RolloverStep, SwapFail, NoErrors
<1>10. CASE SendAllStep(Main)
  <2>1. logs' = logs /\ pc[Main] \in Late
    BY <1>10 DEF SendAllStep, Take, SendOk, SendNoConn, SendFail, SendSpin, SendDone,
                 PutBack, SyncLoop, logVars
  <2>2. sync_buf' = <<>>
    <3>1. CASE Take(Main)
      BY <3>1 DEF Take
    <3>2. CASE PutBack(Main)
      BY <3>2 DEF PutBack, MainDrains, NothingFailed
    <3> QED
      BY <1>10, <3>1, <3>2
      DEF SendAllStep, SendOk, SendNoConn, SendFail, SendSpin, SendDone, SyncLoop, MainDrains,
          queVars
  <2> QED
    BY <2>1, <2>2 DEF MainDrains, Cur
<1>11. ASSUME NEW t \in {Roll, Sync}, Die(t) PROVE MainDrains'
  <2>1. Goto(t, "dead") /\ logs' = logs /\ sync_buf' = sync_buf
    BY <1>11 DEF Die, logVars, queVars
  <2>2. pc'[Main] = pc[Main]
    BY <1>0, <2>1 DEF Goto
  <2> QED
    BY <1>2, <2>1, <2>2
<1>12. CASE UNCHANGED vars
  BY <1>2, <1>12 DEF vars, logVars, queVars
<1> QED
  BY <1>5, <1>6, <1>7, <1>8, <1>9, <1>10, <1>11, <1>12 DEF Next, MainStep

\* trace_end has sent every line when it returns, wherever the rollover thread
\* and the sync thread were when it cancelled them, provided that log_open, the
\* connection and the upload succeed; trace_upload_error shows why that is asked.
THEOREM EndSendsEveryLine ==
  ASSUME NoErrors
  PROVE  Spec => []EndSendsAll
<1> DEFINE Runs == QueueRuns /\ EndInv
           Inv == Runs \/ (Ended /\ EndSendsAll)
<1>1. Init => Runs
  <2> SUFFICES ASSUME Init PROVE EndInv
    BY InitQueueRuns
  <2>1. NothingFailed
    BY DEF Init, NothingFailed
  <2>2. AllLogged
    <3>1. Cur = 1 /\ logs[1] = {1} /\ lines = 1
      BY DEF Init, Cur
    <3> QED
      BY <3>1 DEF AllLogged
  <2>3. MainDrains
    BY TraceAssumption DEF TraceAssumption, Init, MainDrains, Threads
  <2> QED
    BY <2>1, <2>2, <2>3 DEF EndInv
<1>2. Runs /\ [Next]_vars /\ ~LogFree => Runs'
  BY QueueRunsStep, NothingFailedStep, AllLoggedStep, MainDrainsStep DEF QueueRuns, EndInv
<1>3. Runs /\ LogFree => (Ended /\ EndSendsAll)'
  <2> SUFFICES ASSUME Runs, LogFree PROVE (Ended /\ EndSendsAll)'
    OBVIOUS
  <2>a. Ended' /\ sent' = sent /\ lines' = lines /\ logs' = logs
    BY FreeEnds DEF LogFree, endVars, thrVars, QueueRuns
  <2> SUFFICES ASSUME NEW n \in 1..lines PROVE \E i \in sent : n \in logs[i]
    BY <2>a DEF EndSendsAll, LineSent
  <2>0. pc[Main] = "free"
    BY DEF LogFree
  <2>1. PICK i \in 1..Cur : n \in logs[i]
    BY DEF EndInv, AllLogged
  <2>2. i \in 1..Cur - 1
    <3>1. i # Cur /\ Cur \in Nat
      BY <2>0, <2>1 DEF EndInv, MainDrains, QueueRuns, TraceInv, LogType, Cur
    <3> QED
      BY <3>1
  <2>3. ToSet(sync_buf) = {} /\ (1..Cur - 1) \ unlinked \subseteq ToSet(sync_buf)
    BY <2>0, FreeLeaves, EmptyElements DEF EndInv, MainDrains
  <2>4. i \in sent
    BY <2>2, <2>3 DEF EndInv, NothingFailed
  <2> QED
    BY <2>1, <2>4
<1>4. Ended /\ EndSendsAll /\ [Next]_vars => (Ended /\ EndSendsAll)'
  BY EndedStays DEF Ended, EndSendsAll, LineSent, vars, logVars, queVars, endVars, thrVars
<1>5. Runs => EndSendsAll
  BY DEF QueueRuns, CtrlInv, EndSendsAll
<1>6. Inv /\ [Next]_vars => Inv'
  BY <1>2, <1>3, <1>4
<1>7. Inv => EndSendsAll
  BY <1>5
<1>8. Init => Inv
  BY <1>1
<1> HIDE DEF Inv
<1> QED
  BY <1>6, <1>7, <1>8, PTL DEF Spec

===============================================================================
