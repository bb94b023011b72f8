---------------------------- MODULE TraceLogProofs ----------------------------
(***************************************************************************)
(* Proofs about the usage trace, for any number of threads that log, any   *)
(* max_lines and with every kind of failure.                               *)
(***************************************************************************)
EXTENDS TraceLog, TLAPS

(***************************************************************************)
(* The inductive invariant of NoPrintToClosed, in parts.                   *)
(***************************************************************************)
\* What the proof needs of the types.
LogType ==
  /\ logs \in Seq(SUBSET Nat) /\ Len(logs) > 0
  /\ closed \subseteq Nat /\ lines \in Nat
  /\ pc \in [Threads -> PCs]
  /\ at \in [Threads -> Nat]

\* Only logs before the current one are closed, and a thread about to close
\* one has picked up such a log.
ClosedOld ==
  /\ \A i \in closed : i < Cur
  /\ \A t \in Threads : pc[t] = "close" => at[t] < Cur

\* A thread about to print holds the lock, so that no swap has happened since
\* it picked up the pipe.
PrintsCurrent ==
  \A t \in Threads : pc[t] = "print" => t \in readers /\ at[t] = Cur

TraceInv == LogType /\ ClosedOld /\ PrintsCurrent

-------------------------------------------------------------------------------
LEMMA InitTraceInv == Init => TraceInv
<1> SUFFICES ASSUME Init PROVE TraceInv
  OBVIOUS
<1>1. logs \in Seq(SUBSET Nat) /\ Len(logs) = 1
  BY DEF Init
<1>2. \A t \in Threads : pc[t] \in {"idle", "wait", "run"}
  BY DEF Init
<1>3. pc \in [Threads -> PCs] /\ at \in [Threads -> Nat]
  BY DEF Init, PCs
<1>4. lines \in Nat /\ closed = {}
  BY DEF Init
<1> QED
  BY <1>1, <1>2, <1>3, <1>4 DEF TraceInv, LogType, ClosedOld, PrintsCurrent

\* Most steps move one thread to a place where it neither prints nor closes,
\* and leave the logs and what the other threads have.
LEMMA MoveKeepsInv ==
  ASSUME TraceInv, NEW t \in Threads, NEW l \in PCs \ {"print", "close"},
         pc' = [pc EXCEPT ![t] = l],
         logs' = logs, closed' = closed, lines' \in Nat,
         at' \in [Threads -> Nat],
         \A u \in Threads \ {t} : at'[u] = at[u],
         readers \ {t} \subseteq readers'
  PROVE  TraceInv'
<1>1. pc' \in [Threads -> PCs] /\ pc'[t] = l /\ \A u \in Threads \ {t} : pc'[u] = pc[u]
  BY DEF TraceInv, LogType
<1>2. LogType'
  BY <1>1 DEF TraceInv, LogType
<1>3. ClosedOld'
  BY <1>1 DEF TraceInv, ClosedOld, Cur
<1>4. PrintsCurrent'
  BY <1>1 DEF TraceInv, PrintsCurrent, Cur
<1> QED
  BY <1>2, <1>3, <1>4 DEF TraceInv

\* A line is added to the current log, which stays the last one.
LEMMA PrintKeepsInv ==
  ASSUME TraceInv, NEW t \in Threads, LogPrint(t)
  PROVE  TraceInv'
<1>1. at[t] = Len(logs) /\ Len(logs) \in Nat \ {0} /\ logs \in Seq(SUBSET Nat)
  BY DEF TraceInv, LogType, PrintsCurrent, LogPrint, Cur
<1>2. logs' \in Seq(SUBSET Nat) /\ Len(logs') = Len(logs)
  <2>1. lines + 1 \in Nat
    BY DEF TraceInv, LogType
  <2>2. logs[at[t]] \cup {lines + 1} \in SUBSET Nat
    BY <1>1, <2>1
  <2> QED
    BY <1>1, <2>2 DEF LogPrint
<1>3. /\ pc' \in [Threads -> PCs]
      /\ pc'[t] = "load" /\ \A u \in Threads \ {t} : pc'[u] = pc[u]
  BY DEF TraceInv, LogType, LogPrint, Goto, PCs
<1>4. LogType'
  BY <1>1, <1>2, <1>3 DEF TraceInv, LogType, LogPrint
<1>5. ClosedOld'
  BY <1>2, <1>3 DEF TraceInv, ClosedOld, LogPrint, Cur
<1>6. PrintsCurrent'
  BY <1>2, <1>3 DEF TraceInv, PrintsCurrent, LogPrint, Cur
<1> QED
  BY <1>4, <1>5, <1>6 DEF TraceInv

\* The steps of logmsg before and after the line is printed.
LEMMA LogKeepsInv ==
  ASSUME TraceInv, NEW t \in Loggers \cup {Main},
         LogEnter(t) \/ LogLoad(t) \/ LogStore(t) \/ LogTest(t)
  PROVE  TraceInv'
<1>1. t \in Threads /\ at \in [Threads -> Nat] /\ lines \in Nat
  BY DEF TraceInv, LogType, Threads
<1>2. CASE LogEnter(t)
  <2>1. /\ pc' \in [Threads -> PCs]
        /\ pc'[t] = "print" /\ \A u \in Threads \ {t} : pc'[u] = pc[u]
    BY <1>1, <1>2 DEF TraceInv, LogType, LogEnter, Goto, PCs
  <2>2. Cur \in Nat
    BY DEF TraceInv, LogType, Cur
  <2>3. /\ at' \in [Threads -> Nat]
        /\ at'[t] = Cur /\ \A u \in Threads \ {t} : at'[u] = at[u]
    BY <1>1, <1>2, <2>2 DEF LogEnter
  <2>4. logs' = logs /\ closed' = closed /\ lines' = lines /\ readers' = readers \cup {t}
    BY <1>2 DEF LogEnter, logVars
  <2>5. LogType'
    BY <2>1, <2>3, <2>4 DEF TraceInv, LogType
  <2>6. ClosedOld'
    BY <2>1, <2>3, <2>4 DEF TraceInv, ClosedOld, Cur
  <2>7. PrintsCurrent'
    BY <2>1, <2>3, <2>4 DEF TraceInv, PrintsCurrent, Cur
  <2> QED
    BY <2>5, <2>6, <2>7 DEF TraceInv
<1>3. CASE LogLoad(t)
  BY <1>1, <1>3, MoveKeepsInv DEF LogLoad, Goto, PCs, logVars
<1>4. CASE LogStore(t)
  BY <1>1, <1>4, MoveKeepsInv DEF LogStore, Goto, PCs, thrVars
<1>5. CASE LogTest(t)
  <2>1. at' \in [Threads -> Nat] /\ \A u \in Threads \ {t} : at'[u] = at[u]
    BY <1>1, <1>5 DEF LogTest
  <2> QED
    BY <1>1, <1>5, <2>1, MoveKeepsInv DEF LogTest, Goto, PCs
<1> QED
  BY <1>2, <1>3, <1>4, <1>5

\* A rollover: the swap finds no reader, hence nobody about to print.
LEMMA RolloverKeepsInv ==
  ASSUME TraceInv, NEW t \in Threads, RolloverStep(t)
  PROVE  TraceInv'
<1>1. /\ at \in [Threads -> Nat] /\ lines \in Nat
      /\ logs \in Seq(SUBSET Nat) /\ Len(logs) \in Nat \ {0}
  BY DEF TraceInv, LogType
<1>2. CASE Swap(t)
  <2>1. logs' \in Seq(SUBSET Nat) /\ Len(logs') = Len(logs) + 1
    BY <1>1, <1>2 DEF Swap
  <2>2. \A u \in Threads : pc[u] # "print"
    BY <1>2 DEF Swap, TraceInv, PrintsCurrent
  <2>3. /\ pc' \in [Threads -> PCs]
        /\ pc'[t] = "close" /\ \A u \in Threads \ {t} : pc'[u] = pc[u]
    BY <1>2 DEF TraceInv, LogType, Swap, Goto, PCs
  <2>4. /\ at' \in [Threads -> Nat]
        /\ at'[t] = Len(logs) /\ \A u \in Threads \ {t} : at'[u] = at[u]
    BY <1>1, <1>2 DEF Swap, Cur
  <2>5. LogType'
    BY <1>1, <1>2, <2>1, <2>3, <2>4 DEF TraceInv, LogType, Swap
  <2>6. ClosedOld'
    <3>1. \A i \in closed' : i < Cur'
      <4> SUFFICES ASSUME NEW i \in closed PROVE i < Cur'
        BY <1>2 DEF Swap
      <4> QED
        BY <1>1, <2>1 DEF TraceInv, LogType, ClosedOld, Cur
    <3>2. ASSUME NEW u \in Threads, pc'[u] = "close" PROVE at'[u] < Cur'
      <4>1. CASE u = t
        BY <1>1, <2>1, <2>4, <4>1 DEF Cur
      <4>2. CASE u # t
        <5>1. at[u] < Len(logs) /\ at[u] \in Nat
          BY <1>1, <2>3, <3>2, <4>2 DEF TraceInv, ClosedOld, Cur
        <5> QED
          BY <1>1, <2>1, <2>4, <4>2, <5>1 DEF Cur
      <4> QED
        BY <4>1, <4>2
    <3> QED
      BY <3>1, <3>2 DEF ClosedOld
  <2>7. PrintsCurrent'
    BY <2>2, <2>3 DEF PrintsCurrent
  <2> QED
    BY <2>5, <2>6, <2>7 DEF TraceInv
<1>3. CASE SwapFail(t)
  BY <1>1, <1>3, MoveKeepsInv DEF SwapFail, Goto, PCs, logVars, thrVars
<1>4. CASE ClosePipe(t)
  <2>1. /\ pc' \in [Threads -> PCs]
        /\ pc'[t] = "push" /\ \A u \in Threads \ {t} : pc'[u] = pc[u]
    BY <1>4 DEF TraceInv, LogType, ClosePipe, Goto, PCs
  <2>2. /\ logs' = logs /\ at' = at /\ lines' = lines /\ readers' = readers
        /\ closed' = closed \cup {at[t]} /\ pc[t] = "close"
    BY <1>4 DEF ClosePipe, thrVars
  <2>3. LogType'
    BY <2>1, <2>2 DEF TraceInv, LogType
  <2>4. ClosedOld'
    BY <2>1, <2>2 DEF TraceInv, ClosedOld, Cur
  <2>5. PrintsCurrent'
    BY <2>1, <2>2 DEF TraceInv, PrintsCurrent, Cur
  <2> QED
    BY <2>3, <2>4, <2>5 DEF TraceInv
<1>5. CASE Push(t)
  <2>1. at' \in [Threads -> Nat] /\ \A u \in Threads \ {t} : at'[u] = at[u]
    BY <1>1, <1>5 DEF Push
  <2> QED
    BY <1>1, <1>5, <2>1, MoveKeepsInv DEF Push, Goto, PCs, logVars
<1> QED
  BY <1>2, <1>3, <1>4, <1>5 DEF RolloverStep

\* An upload touches neither the logs nor the lock.
LEMMA SendKeepsInv ==
  ASSUME TraceInv, NEW t \in {Sync, Main}, SendAllStep(t)
  PROVE  TraceInv'
<1>1. /\ logs' = logs /\ closed' = closed /\ readers' = readers /\ at' = at
      /\ lines' = lines
  BY DEF SendAllStep, Take, SendOk, SendNoConn, SendFail, SendSpin, SendDone, PutBack,
         SyncLoop, logVars, thrVars
<1>2. \E l \in PCs \ {"print", "close"} : pc' = [pc EXCEPT ![t] = l]
  <2>1. CASE SyncLoop(t)
    BY <2>1, TraceAssumption DEF SyncLoop, Goto, PCs
  <2>2. CASE pc' = pc /\ pc[t] = "send"
    BY <2>2 DEF TraceInv, LogType, PCs
  <2>3. CASE Take(t) \/ SendSpin(t) \/ SendDone(t) \/ PutBack(t)
    BY <2>3 DEF Take, SendSpin, SendDone, PutBack, Goto, PCs
  <2> QED
    BY <2>1, <2>2, <2>3 DEF SendAllStep, SendOk, SendNoConn, SendFail
<1>3. t \in Threads /\ at \in [Threads -> Nat] /\ lines \in Nat
  BY DEF TraceInv, LogType, Threads
<1> QED
  BY <1>1, <1>2, <1>3, MoveKeepsInv

\* The steps of the rollover thread around log_rollover, the sync thread's
\* wake-up, and the stopping of both.
LEMMA ControlKeepsInv ==
  ASSUME TraceInv,
         \/ RollWake \/ RollRdlock \/ RollPeek \/ RollPost \/ SyncWake
         \/ StopRoll \/ StopSync \/ Stopped
         \/ \E t \in {Roll, Sync} : Die(t)
  PROVE  TraceInv'
<1>1. {Roll, Sync, Main} \subseteq Threads /\ at \in [Threads -> Nat] /\ lines \in Nat
  BY DEF TraceInv, LogType, Threads
<1> USE DEF Goto, PCs, logVars, thrVars
<1>2. CASE RollWake
  BY <1>1, <1>2, MoveKeepsInv DEF RollWake
<1>3. CASE RollRdlock
  BY <1>1, <1>3, MoveKeepsInv DEF RollRdlock
<1>4. CASE RollPeek
  BY <1>1, <1>4, MoveKeepsInv DEF RollPeek
<1>5. CASE RollPost
  BY <1>1, <1>5, MoveKeepsInv DEF RollPost
<1>6. CASE SyncWake
  BY <1>1, <1>6, MoveKeepsInv DEF SyncWake
<1>7. CASE StopRoll
  BY <1>1, <1>7, MoveKeepsInv DEF StopRoll
<1>8. CASE StopSync
  BY <1>1, <1>8, MoveKeepsInv DEF StopSync
<1>9. CASE Stopped
  BY <1>1, <1>9, MoveKeepsInv DEF Stopped
<1>10. CASE \E t \in {Roll, Sync} : Die(t)
  BY <1>1, <1>10, MoveKeepsInv DEF Die
<1> QED
  BY <1>2, <1>3, <1>4, <1>5, <1>6, <1>7, <1>8, <1>9, <1>10

LEMMA NextTraceInv == TraceInv /\ [Next]_vars /\ ~LogFree => TraceInv'
<1> SUFFICES ASSUME TraceInv, [Next]_vars, ~LogFree PROVE TraceInv'
  OBVIOUS
<1>1. CASE \E t \in Loggers \cup {Main} : LogEnter(t) \/ LogStep(t)
  <2> PICK t \in Loggers \cup {Main} : LogEnter(t) \/ LogStep(t)
    BY <1>1
  <2>1. CASE LogPrint(t)
    BY <2>1, PrintKeepsInv DEF Threads
  <2>2. CASE ~LogPrint(t)
    BY <2>2, LogKeepsInv DEF LogStep
  <2> QED
    BY <2>1, <2>2
<1>2. CASE RollStep
  BY <1>2, RolloverKeepsInv, ControlKeepsInv DEF RollStep, Threads
<1>3. CASE SyncStep
  BY <1>3, SendKeepsInv, ControlKeepsInv DEF SyncStep
<1>4. CASE MainStep
  BY <1>4, RolloverKeepsInv, SendKeepsInv, ControlKeepsInv DEF MainStep, Threads
<1>5. CASE \E t \in {Roll, Sync} : Die(t)
  BY <1>5, ControlKeepsInv
<1>6. CASE UNCHANGED vars
  BY <1>6 DEF vars, logVars, thrVars, TraceInv, LogType, ClosedOld, PrintsCurrent, Cur
<1> QED
  BY <1>1, <1>2, <1>3, <1>4, <1>5, <1>6 DEF Next

-------------------------------------------------------------------------------
(***************************************************************************)
(* Where the threads are, until main calls log_free and after it.          *)
(***************************************************************************)
\* Where the threads may be: main stops the workers, then the rollover thread,
\* then the sync thread, and only then rolls over and sends by itself.
CtrlInv ==
  /\ \A t \in Loggers : pc[t] \in {"idle", "print", "load", "store", "test"}
  /\ pc[Roll] \in {"wait", "rdlock", "peek", "swap", "close", "push", "post", "exit", "dead"}
  /\ pc[Sync] \in {"wait", "take", "send", "spin", "putBack", "loop", "exit", "dead"}
  /\ pc[Main] \in {"run", "print", "load", "store", "test", "stop", "joinRoll", "joinSync",
                   "swap", "close", "push", "take", "send", "spin", "putBack", "loop",
                   "free"}
  /\ pc[Main] # "run" => \A t \in Loggers : pc[t] = "idle"
  /\ pc[Main] \in {"swap", "close", "push", "take", "send", "spin", "putBack", "loop",
                   "free"} => pc[Sync] \in {"exit", "dead"}
  /\ pc[Main] \in {"joinSync", "swap", "close", "push", "take", "send", "spin", "putBack",
                   "loop", "free"} => pc[Roll] \in {"exit", "dead"}

LEMMA CtrlStep == TraceInv /\ CtrlInv /\ [Next]_vars /\ ~LogFree => CtrlInv'
<1> SUFFICES ASSUME TraceInv, CtrlInv, [Next]_vars, ~LogFree PROVE CtrlInv'
  OBVIOUS
<1> USE TraceAssumption DEF TraceAssumption
<1>0. pc \in [Threads -> PCs] /\ Threads = Loggers \cup {Roll, Sync, Main}
  BY DEF TraceInv, LogType, Threads
<1>1. ASSUME NEW t \in Loggers, NEW l \in {"idle", "print", "load", "store", "test"},
             pc[Main] = "run", Goto(t, l)
      PROVE  CtrlInv'
  <2>1. pc'[t] = l /\ \A u \in Threads \ {t} : pc'[u] = pc[u]
    BY <1>0, <1>1 DEF Goto
  <2> QED
    BY <1>0, <1>1, <2>1 DEF CtrlInv
<1>2. ASSUME NEW t \in Loggers, LogEnter(t) \/ LogStep(t) PROVE CtrlInv'
  <2>1. pc[Main] = "run"
    BY <1>2 DEF CtrlInv, LogEnter, MayLog, LogStep, LogPrint, LogLoad, LogStore, LogTest
  <2> QED
    BY <1>1, <1>2, <2>1 DEF LogEnter, LogStep, LogPrint, LogLoad, LogStore, LogTest
<1>3. ASSUME NEW l \in {"wait", "rdlock", "peek", "swap", "close", "push", "post", "exit", "dead"},
             Goto(Roll, l), pc[Roll] \notin {"exit", "dead"}
      PROVE  CtrlInv'
  <2>1. pc'[Roll] = l /\ \A u \in Threads \ {Roll} : pc'[u] = pc[u]
    BY <1>0, <1>3 DEF Goto
  <2> QED
    BY <1>0, <1>3, <2>1 DEF CtrlInv
<1>4. ASSUME NEW l \in {"wait", "take", "send", "spin", "putBack", "loop", "exit", "dead"},
             Goto(Sync, l), pc[Sync] \notin {"exit", "dead"}
      PROVE  CtrlInv'
  <2>1. pc'[Sync] = l /\ \A u \in Threads \ {Sync} : pc'[u] = pc[u]
    BY <1>0, <1>4 DEF Goto
  <2> QED
    BY <1>0, <1>4, <2>1 DEF CtrlInv
<1>5. ASSUME NEW l \in {"print", "load", "store", "test", "stop", "joinRoll"}, Goto(Main, l),
             \A t \in Loggers : pc[t] = "idle"
      PROVE  CtrlInv'
  <2>1. pc'[Main] = l /\ \A u \in Threads \ {Main} : pc'[u] = pc[u]
    BY <1>0, <1>5 DEF Goto
  <2> QED
    BY <1>0, <1>5, <2>1 DEF CtrlInv
<1>6. ASSUME NEW l \in {"swap", "close", "push", "take", "send", "spin", "putBack", "loop",
                        "free"},
             Goto(Main, l), \A t \in Loggers : pc[t] = "idle",
             pc[Sync] \in {"exit", "dead"}, pc[Roll] \in {"exit", "dead"}
      PROVE  CtrlInv'
  <2>1. pc'[Main] = l /\ \A u \in Threads \ {Main} : pc'[u] = pc[u]
    BY <1>0, <1>6 DEF Goto
  <2> QED
    BY <1>0, <1>6, <2>1 DEF CtrlInv
<1>7. CASE LogEnter(Main) \/ LogStep(Main)
  BY <1>5, <1>7 DEF CtrlInv, LogEnter, MayLog, LogStep, LogPrint, LogLoad, LogStore, LogTest
<1>8. CASE RollStep
  BY <1>3, <1>8
  DEF RollStep, RollWake, RollRdlock, RollPeek, RolloverStep, Swap, SwapFail, ClosePipe, Push,
      RollPost
<1>9. CASE SyncStep
  <2>1. CASE SyncLoop(Sync)
    <3>1. Goto(Sync, IF running THEN "wait" ELSE "exit")
      BY <2>1 DEF SyncLoop
    <3> QED
      BY <1>4, <2>1, <3>1 DEF SyncLoop
  <2>2. CASE SendOk(Sync) \/ SendNoConn(Sync) \/ SendFail(Sync)
    BY <2>2 DEF SendOk, SendNoConn, SendFail, CtrlInv
  <2> QED
    BY <1>4, <1>9, <2>1, <2>2
    DEF SyncStep, SyncWake, SendAllStep, Take, SendSpin, SendDone, PutBack
<1>10. CASE MainStep
  <2>1. CASE SyncLoop(Main)
    <3>1. Goto(Main, "free")
      BY <2>1 DEF SyncLoop
    <3> QED
      BY <1>6, <2>1, <3>1 DEF SyncLoop, CtrlInv
  <2>2. CASE SendOk(Main) \/ SendNoConn(Main) \/ SendFail(Main)
    BY <2>2 DEF SendOk, SendNoConn, SendFail, CtrlInv
  <2>3. CASE Take(Main) \/ SendSpin(Main) \/ SendDone(Main) \/ PutBack(Main)
    BY <1>6, <2>3 DEF Take, SendSpin, SendDone, PutBack, CtrlInv
  <2>4. CASE RolloverStep(Main)
    BY <1>6, <2>4 DEF RolloverStep, Swap, SwapFail, ClosePipe, Push, CtrlInv
  <2>5. CASE StopRoll
    BY <1>5, <2>5 DEF StopRoll, CtrlInv
  <2>6. CASE StopSync
    <3>1. pc'[Main] = "joinSync" /\ \A u \in Threads \ {Main} : pc'[u] = pc[u]
      BY <1>0, <2>6 DEF StopSync, Goto
    <3> QED
      BY <1>0, <2>6, <3>1 DEF StopSync, CtrlInv
  <2>7. CASE Stopped
    BY <1>6, <2>7 DEF Stopped, CtrlInv
  <2> QED
    BY <1>10, <2>1, <2>2, <2>3, <2>4, <2>5, <2>6, <2>7 DEF MainStep, SendAllStep
<1>11. CASE \E t \in {Roll, Sync} : Die(t)
  BY <1>3, <1>4, <1>11 DEF Die
<1>12. CASE UNCHANGED vars
  BY <1>12 DEF vars, CtrlInv
<1> QED
  BY <1>2, <1>7, <1>8, <1>9, <1>10, <1>11, <1>12 DEF Next

LEMMA InitCtrl == Init => CtrlInv
<1> SUFFICES ASSUME Init PROVE CtrlInv
  OBVIOUS
<1>1. /\ \A t \in Loggers : pc[t] = "idle"
      /\ pc[Roll] = "wait" /\ pc[Sync] = "wait" /\ pc[Main] = "run"
  BY TraceAssumption DEF TraceAssumption, Init, Threads
<1> QED
  BY <1>1 DEF CtrlInv

\* log_free was the last step: the workers are idle, both threads are gone.
Ended ==
  /\ pc[Main] = "finished"
  /\ pc[Roll] \in {"exit", "dead"} /\ pc[Sync] \in {"exit", "dead"}
  /\ \A t \in Loggers : pc[t] = "idle"

LEMMA FreeEnds == TraceInv /\ CtrlInv /\ LogFree => Ended'
<1> SUFFICES ASSUME TraceInv, CtrlInv, LogFree PROVE Ended'
  OBVIOUS
<1>1. /\ pc[Main] = "free" /\ pc'[Main] = "finished"
      /\ \A u \in Threads \ {Main} : pc'[u] = pc[u]
  BY DEF TraceInv, LogType, LogFree, Goto, Threads
<1>2. {Roll, Sync} \cup Loggers \subseteq Threads \ {Main}
  BY TraceAssumption DEF TraceAssumption, Threads
<1> QED
  BY <1>1, <1>2 DEF CtrlInv, Ended

LEMMA EndedStays == Ended /\ [Next]_vars => UNCHANGED vars
<1> SUFFICES ASSUME Ended, Next PROVE FALSE
  OBVIOUS
<1>1. ASSUME NEW t \in Loggers \cup {Main}, LogEnter(t) \/ LogStep(t) PROVE FALSE
  BY <1>1 DEF Ended, LogEnter, MayLog, LogStep, LogPrint, LogLoad, LogStore, LogTest
<1>2. ASSUME NEW t \in {Roll, Main}, RolloverStep(t) PROVE FALSE
  BY <1>2 DEF Ended, RolloverStep, Swap, SwapFail, ClosePipe, Push
<1>3. ASSUME NEW t \in {Sync, Main}, SendAllStep(t) PROVE FALSE
  BY <1>3 DEF Ended, SendAllStep, Take, SendOk, SendNoConn, SendFail, SendSpin, SendDone,
              PutBack, SyncLoop
<1>4. CASE RollStep
  BY <1>2, <1>4 DEF Ended, RollStep, RollWake, RollRdlock, RollPeek, RollPost
<1>5. CASE SyncStep
  BY <1>3, <1>5 DEF Ended, SyncStep, SyncWake
<1>6. CASE MainStep
  BY <1>2, <1>3, <1>6 DEF Ended, MainStep, StopRoll, StopSync, Stopped, LogFree
<1>7. CASE \E t \in {Roll, Sync} : Die(t)
  BY <1>7 DEF Ended, Die
<1> QED
  BY <1>1, <1>4, <1>5, <1>6, <1>7 DEF Next

\* No thread prints to a pipe that log_swap or log_free has closed, however many
\* threads log, whatever fails and wherever the two threads are cancelled
\* (logmsg, log_swap, log_free).
THEOREM PrintsToOpenPipe == Spec => []NoPrintToClosed
<1> DEFINE Inv == (TraceInv /\ CtrlInv) \/ Ended
<1>1. TraceInv => NoPrintToClosed
  <2> SUFFICES ASSUME TraceInv, NEW t \in Threads, pc[t] = "print"
               PROVE  at[t] \notin closed
    BY DEF NoPrintToClosed
  <2>1. at[t] = Cur /\ Cur \in Nat
    BY DEF TraceInv, LogType, PrintsCurrent, Cur
  <2> QED
    BY <2>1 DEF TraceInv, ClosedOld
<1>2. Ended => NoPrintToClosed
  BY DEF Ended, NoPrintToClosed, Threads
<1>3. TraceInv /\ CtrlInv /\ [Next]_vars => Inv'
  BY NextTraceInv, CtrlStep, FreeEnds
<1>4. Ended /\ [Next]_vars => Ended'
  BY EndedStays DEF Ended, vars
<1>5. Inv /\ [Next]_vars => Inv'
  BY <1>3, <1>4
<1>6. Inv => NoPrintToClosed
  BY <1>1, <1>2
<1>7. Init => Inv
  BY InitTraceInv, InitCtrl
<1> QED
  BY <1>5, <1>6, <1>7, PTL DEF Spec

===============================================================================
