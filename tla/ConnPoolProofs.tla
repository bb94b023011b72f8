---------------------------- MODULE ConnPoolProofs ----------------------------
(***************************************************************************)
(* Proofs about the connection pool, for any number of threads,            *)
(* connections and descriptors and any limits.                             *)
(***************************************************************************)
EXTENDS ConnPool, FiniteSetTheorems, TLAPS

(***************************************************************************)
(* The operators the actions are built from.                               *)
(***************************************************************************)
LEMMA MaxMinType ==
  ASSUME NEW a \in Int, NEW b \in Int
  PROVE  Max({a, b}) \in Int /\ Min({a, b}) \in Int
<1>1. \E x \in {a, b} : \A y \in {a, b} : x >= y
  <2>1. CASE a >= b  BY <2>1
  <2>2. CASE b >= a  BY <2>2
  <2> QED  BY <2>1, <2>2
<1>2. \E x \in {a, b} : \A y \in {a, b} : x =< y
  <2>1. CASE a =< b  BY <2>1
  <2>2. CASE b =< a  BY <2>2
  <2> QED  BY <2>1, <2>2
<1> QED  BY <1>1, <1>2 DEF Max, Min


LEMMA HighType == HIGH_NUM_CONN \in Nat
BY PoolAssumption

(***************************************************************************)
(* Type correctness.                                                       *)
(***************************************************************************)
LEMMA StepType ==
  ASSUME TypeOK, NEW t \in Threads, Step(t)
  PROVE  TypeOK'
<1> USE DEF TypeOK, Goto, connVars, descVars, waitVars, thrVars, mgrVars
<1>1. CASE ByPathMatch(t)
  <2>1. ConnType'
    BY <1>1 DEF ByPathMatch, Holds, Compared, HasConn, ConnType, ThrType, PCs, ConnPCs
  <2>2. DescType'
    BY <1>1 DEF ByPathMatch, Holds, Compared, HasConn, DescType, ThrType
  <2>3. WaitType'
    BY <1>1 DEF ByPathMatch, Holds, Compared, HasConn, WaitType
  <2>4. ThrType'
    BY <1>1 DEF ByPathMatch, Holds, Compared, HasConn, ThrType, ConnType, DescType, PCs, ConnPCs
  <2>5. MgrType'
    BY <1>1 DEF ByPathMatch, Holds, Compared, HasConn, MgrType
  <2> QED  BY <2>1, <2>2, <2>3, <2>4, <2>5
<1>2. CASE ByPathNone(t)
  BY <1>2 DEF ByPathNone, ConnType, DescType, WaitType, ThrType, MgrType, PCs,
      ConnPCs
<1>3. CASE ByPathConn(t)
  BY <1>3 DEF ByPathConn, ConnType, DescType, WaitType, ThrType, MgrType, PCs,
      ConnPCs
<1>4. CASE UseEnter(t)
  BY <1>4 DEF UseEnter, ConnType, DescType, WaitType, ThrType, MgrType, PCs,
      ConnPCs
<1>5. CASE UseBody(t)
  <2>1. ConnType'
    BY <1>5 DEF UseBody, Pend, ConnType, ThrType, PCs, ConnPCs
  <2>2. DescType'
    BY <1>5 DEF UseBody, Pend, DescType, ThrType
  <2>3. WaitType'
    BY <1>5 DEF UseBody, Pend, WaitType
  <2>4. ThrType'
    BY <1>5 DEF UseBody, Pend, ThrType, ConnType, DescType, PCs, ConnPCs
  <2>5. MgrType'
    BY <1>5 DEF UseBody, Pend, MgrType
  <2> QED  BY <2>1, <2>2, <2>3, <2>4, <2>5
<1>6. CASE LockPend(t)
  BY <1>6 DEF LockPend, ConnType, DescType, WaitType, ThrType, MgrType, PCs,
      ConnPCs
<1>7. CASE PendIn(t)
  <2>1. ConnType'
    BY <1>7 DEF PendIn, ConnType, ThrType, PCs, ConnPCs
  <2>2. DescType'
    BY <1>7 DEF PendIn, DescType, ThrType
  <2>3. WaitType'
    BY <1>7 DEF PendIn, WaitType
  <2>4. ThrType'
    BY <1>7 DEF PendIn, ThrType, ConnType, DescType, PCs, ConnPCs
  <2>5. MgrType'
    BY <1>7 DEF PendIn, MgrType
  <2> QED  BY <2>1, <2>2, <2>3, <2>4, <2>5
<1>8. CASE GetConnLock(t)
  BY <1>8 DEF GetConnLock, ConnType, DescType, WaitType, ThrType, MgrType,
      PCs, ConnPCs
<1>9. CASE ScanFree(t)
  BY <1>9 DEF ScanFree, Holds, FreeConns, ConnType, DescType, WaitType,
      ThrType, MgrType, PCs, ConnPCs
<1>10. CASE LockFree(t)
  BY <1>10 DEF LockFree, ConnType, DescType, WaitType, ThrType, MgrType, PCs,
      ConnPCs
<1>11. CASE ScanIdle(t)
  BY <1>11 DEF ScanIdle, Pend, Holds, IdleConns, ConnType, DescType, WaitType,
      ThrType, MgrType, PCs, ConnPCs
<1>12. CASE ScanWait(t)
  BY <1>12 DEF ScanWait, ConnType, DescType, WaitType, ThrType, MgrType, PCs,
      ConnPCs
<1>13. CASE ScanMake(t)
  BY <1>13 DEF ScanMake, ConnType, DescType, WaitType, ThrType, MgrType, PCs,
      ConnPCs
<1>14. CASE WaitReturn(t)
  BY <1>14 DEF WaitReturn, ConnType, DescType, WaitType, ThrType, MgrType,
      PCs, ConnPCs
<1>15. CASE WaitAgain(t)
  BY <1>15 DEF WaitAgain, ConnType, DescType, WaitType, ThrType, MgrType, PCs,
      ConnPCs
<1>16. CASE Connect(t)
  BY <1>16 DEF Connect, Holds, ConnType, DescType, WaitType, ThrType, MgrType,
      PCs, ConnPCs
<1>17. CASE ConnectFail(t)
  <2>1. ConnType'
    BY <1>17 DEF ConnectFail, Return, ConnType, ThrType, PCs, ConnPCs
  <2>2. DescType'
    BY <1>17 DEF ConnectFail, Return, DescType, ThrType
  <2>3. WaitType'
    BY <1>17 DEF ConnectFail, Return, WaitType
  <2>4. ThrType'
    BY <1>17 DEF ConnectFail, Return, ThrType, ConnType, DescType, PCs, ConnPCs
  <2>5. MgrType'
    BY <1>17 DEF ConnectFail, Return, MgrType
  <2> QED  BY <2>1, <2>2, <2>3, <2>4, <2>5
<1>18. CASE Push(t)
  <2>1. ConnType'
    BY <1>18 DEF Push, ConnType, ThrType, PCs, ConnPCs
  <2>2. DescType'
    BY <1>18 DEF Push, DescType, ThrType
  <2>3. WaitType'
    BY <1>18 DEF Push, WaitType
  <2>4. ThrType'
    BY <1>18 DEF Push, ThrType, ConnType, DescType, PCs, ConnPCs
  <2>5. MgrType'
    BY <1>18, HighType DEF Push, MgrType
  <2> QED  BY <2>1, <2>2, <2>3, <2>4, <2>5
<1>19. CASE Rpc(t)
  <2>1. ConnType'
    BY <1>19 DEF Rpc, ConnType, ThrType, PCs, ConnPCs
  <2>2. DescType'
    BY <1>19 DEF Rpc, DescType, ThrType
  <2>3. WaitType'
    BY <1>19 DEF Rpc, WaitType
  <2>4. ThrType'
    BY <1>19 DEF Rpc, ThrType, ConnType, DescType, PCs, ConnPCs
  <2>5. MgrType'
    BY <1>19 DEF Rpc, MgrType
  <2> QED  BY <2>1, <2>2, <2>3, <2>4, <2>5
<1>20. CASE RpcReadMsgError(t)
  BY <1>20 DEF RpcReadMsgError, ConnType, DescType, WaitType, ThrType,
      MgrType, PCs, ConnPCs
<1>21. CASE Reconnect(t)
  <2>1. ConnType'
    BY <1>21 DEF Reconnect, ConnType, ThrType, PCs, ConnPCs
  <2>2. DescType'
    BY <1>21 DEF Reconnect, DescType, ThrType
  <2>3. WaitType'
    BY <1>21 DEF Reconnect, WaitType
  <2>4. ThrType'
    BY <1>21 DEF Reconnect, ThrType, ConnType, DescType, PCs, ConnPCs
  <2>5. MgrType'
    BY <1>21 DEF Reconnect, MgrType
  <2> QED  BY <2>1, <2>2, <2>3, <2>4, <2>5
<1>22. CASE Attach(t)
  <2>1. ConnType'
    BY <1>22 DEF Attach, FreeDescs, ConnType, ThrType, PCs, ConnPCs
  <2>2. DescType'
    BY <1>22 DEF Attach, FreeDescs, DescType, ThrType
  <2>3. WaitType'
    BY <1>22 DEF Attach, FreeDescs, WaitType
  <2>4. ThrType'
    BY <1>22 DEF Attach, FreeDescs, ThrType, ConnType, DescType, PCs, ConnPCs
  <2>5. MgrType'
    BY <1>22 DEF Attach, FreeDescs, MgrType
  <2> QED  BY <2>1, <2>2, <2>3, <2>4, <2>5
<1>23. CASE FillConn(t)
  BY <1>23 DEF FillConn, ConnType, DescType, WaitType, ThrType, MgrType, PCs,
      ConnPCs
<1>24. CASE FillPath(t)
  BY <1>24 DEF FillPath, ConnType, DescType, WaitType, ThrType, MgrType, PCs,
      ConnPCs
<1>25. CASE UnuseNull(t)
  <2>1. ConnType'
    BY <1>25 DEF UnuseNull, Unused, Return, ConnType, ThrType, PCs, ConnPCs
  <2>2. DescType'
    BY <1>25 DEF UnuseNull, Unused, Return, DescType, ThrType
  <2>3. WaitType'
    BY <1>25 DEF UnuseNull, Unused, Return, WaitType
  <2>4. ThrType'
    BY <1>25 DEF UnuseNull, Unused, Return, ThrType, ConnType, DescType, PCs, ConnPCs
  <2>5. MgrType'
    BY <1>25 DEF UnuseNull, Unused, Return, MgrType
  <2> QED  BY <2>1, <2>2, <2>3, <2>4, <2>5
<1>26. CASE Unuse(t)
  <2>1. ConnType'
    BY <1>26 DEF Unuse, ConnType, ThrType, PCs, ConnPCs
  <2>2. DescType'
    BY <1>26 DEF Unuse, DescType, ThrType
  <2>3. WaitType'
    BY <1>26 DEF Unuse, WaitType
  <2>4. ThrType'
    BY <1>26 DEF Unuse, ThrType, ConnType, DescType, PCs, ConnPCs
  <2>5. MgrType'
    BY <1>26 DEF Unuse, MgrType
  <2> QED  BY <2>1, <2>2, <2>3, <2>4, <2>5
<1>27. CASE Unlock(t)
  <2>1. ConnType'
    BY <1>27 DEF Unlock, Unused, Return, ConnType, ThrType, PCs, ConnPCs
  <2>2. DescType'
    BY <1>27 DEF Unlock, Unused, Return, DescType, ThrType
  <2>3. WaitType'
    BY <1>27 DEF Unlock, Unused, Return, WaitType
  <2>4. ThrType'
    BY <1>27 DEF Unlock, Unused, Return, ThrType, ConnType, DescType, PCs, ConnPCs
  <2>5. MgrType'
    BY <1>27 DEF Unlock, Unused, Return, MgrType
  <2> QED  BY <2>1, <2>2, <2>3, <2>4, <2>5
<1>28. CASE FreeDesc(t)
  <2>1. ConnType'
    BY <1>28 DEF FreeDesc, ConnType, ThrType, PCs, ConnPCs
  <2>2. DescType'
    BY <1>28 DEF FreeDesc, DescType, ThrType
  <2>3. WaitType'
    BY <1>28 DEF FreeDesc, WaitType
  <2>4. ThrType'
    BY <1>28 DEF FreeDesc, ThrType, ConnType, DescType, PCs, ConnPCs
  <2>5. MgrType'
    BY <1>28 DEF FreeDesc, MgrType
  <2> QED  BY <2>1, <2>2, <2>3, <2>4, <2>5
<1>29. CASE Rel(t)
  <2>1. ConnType'
    BY <1>29 DEF Rel, Released, Return, ConnType, ThrType, PCs, ConnPCs
  <2>2. DescType'
    BY <1>29 DEF Rel, Released, Return, DescType, ThrType
  <2>3. WaitType'
    BY <1>29 DEF Rel, Released, Return, WaitType
  <2>4. ThrType'
    BY <1>29 DEF Rel, Released, Return, ThrType, ConnType, DescType, PCs, ConnPCs
  <2>5. MgrType'
    BY <1>29 DEF Rel, Released, Return, MgrType
  <2> QED  BY <2>1, <2>2, <2>3, <2>4, <2>5
<1>30. CASE ChkInuse(t)
  <2>1. ConnType'
    BY <1>30 DEF ChkInuse, Released, Return, ConnType, ThrType, PCs, ConnPCs
  <2>2. DescType'
    BY <1>30 DEF ChkInuse, Released, Return, DescType, ThrType
  <2>3. WaitType'
    BY <1>30 DEF ChkInuse, Released, Return, WaitType
  <2>4. ThrType'
    BY <1>30 DEF ChkInuse, Released, Return, ThrType, ConnType, DescType, PCs, ConnPCs
  <2>5. MgrType'
    BY <1>30 DEF ChkInuse, Released, Return, MgrType
  <2> QED  BY <2>1, <2>2, <2>3, <2>4, <2>5
<1>31. CASE SetFree(t)
  <2>1. ConnType'
    BY <1>31 DEF SetFree, Released, Return, ConnType, ThrType, PCs, ConnPCs
  <2>2. DescType'
    BY <1>31 DEF SetFree, Released, Return, DescType, ThrType
  <2>3. WaitType'
    BY <1>31 DEF SetFree, Released, Return, WaitType
  <2>4. ThrType'
    BY <1>31 DEF SetFree, Released, Return, ThrType, ConnType, DescType, PCs, ConnPCs
  <2>5. MgrType'
    BY <1>31 DEF SetFree, Released, Return, MgrType
  <2> QED  BY <2>1, <2>2, <2>3, <2>4, <2>5
<1>32. CASE UseEnterNull(t)
  BY <1>32 DEF UseEnterNull, ConnType, DescType, WaitType, ThrType, MgrType, PCs,
      ConnPCs
<1>33. CASE EnterWait(t)
  BY <1>33 DEF EnterWait, ConnType, DescType, WaitType, ThrType, MgrType, PCs,
      ConnPCs
<1> QED  BY <1>1, <1>2, <1>3, <1>4, <1>5, <1>6, <1>7, <1>8, <1>9, <1>10,
  <1>11, <1>12, <1>13, <1>14, <1>15, <1>16, <1>17, <1>18, <1>19, <1>20, <1>21,
  <1>22, <1>23, <1>24, <1>25, <1>26, <1>27, <1>28, <1>29, <1>30, <1>31,
  <1>32, <1>33
  DEF Step

LEMMA StartType ==
  ASSUME TypeOK, NEW t \in Threads, Start(t)
  PROVE  TypeOK'
<1> USE DEF TypeOK, ConnType, DescType, WaitType, ThrType, MgrType, PCs, ConnPCs,
            Goto, Begin, Holds, HasConn, connVars, descVars, waitVars, thrVars, mgrVars
<1>1. CASE StartCall(t)
  BY <1>1 DEF StartCall
<1>2. CASE \E p \in Paths : StartOpen(t, p)
  BY <1>2 DEF StartOpen
<1>3. CASE \E d \in Descs : StartIo(t, d)
  BY <1>3 DEF StartIo
<1>4. CASE \E d \in Descs : StartRelease(t, d)
  BY <1>4 DEF StartRelease
<1> QED  BY <1>1, <1>2, <1>3, <1>4 DEF Start

LEMMA MgrStepType ==
  ASSUME TypeOK, MgrStep
  PROVE  TypeOK'
<1> USE DEF TypeOK, ConnType, DescType, WaitType, ThrType, MgrType, connVars,
            descVars, waitVars, thrVars, mgrVars
<1>1. CASE MgrEnter
  BY <1>1 DEF MgrEnter
<1>2. CASE MgrSweep
  <2>0. PICK timedOut \in SUBSET FreeIn(ConnHead) :
          \E trimmed \in Trims(ConnHead \ timedOut) : Drop(timedOut, trimmed)
    BY <1>2 DEF MgrSweep
  <2>1. PICK trimmed \in Trims(ConnHead \ timedOut) : Drop(timedOut, trimmed)
    BY <2>0
  <2>2. ConnType' /\ DescType' /\ WaitType' /\ ThrType'
    BY <1>2, <2>1 DEF MgrSweep, Drop, PCs
  <2>3. /\ Cardinality(FreeIn(ConnHead)) \in Nat
        /\ Cardinality(ConnHead \ timedOut) \in Nat
    <3>1. FreeIn(ConnHead) \in SUBSET Conns /\ ConnHead \ timedOut \in SUBSET Conns
      BY DEF FreeIn
    <3> QED  BY <3>1, FiniteAssumption, FS_Subset, FS_CardinalityType
  <2> DEFINE n == Max({freeCnt + Cardinality(FreeIn(ConnHead)),
                       MAX_NUM_CONN - Cardinality(ConnHead \ timedOut)})
  <2>n. n \in Int
    <3>1. /\ freeCnt + Cardinality(FreeIn(ConnHead)) \in Int
          /\ MAX_NUM_CONN - Cardinality(ConnHead \ timedOut) \in Int
      BY <2>3, PoolAssumption
    <3> QED  BY <3>1, MaxMinType
  <2>4. freeCnt' \in Int
    <3>1. freeCnt' = Min({FreeCntCap, n}) /\ FreeCntCap \in Int
      BY <2>1, PoolAssumption DEF Drop
    <3> HIDE DEF n
    <3> QED  BY <3>1, <2>n, MaxMinType
  <2>5. broken' \in BOOLEAN
    BY <2>1 DEF Drop
  <2> QED  BY <1>2, <2>2, <2>4, <2>5 DEF MgrSweep
<1>3. CASE MgrWake
  BY <1>3 DEF MgrWake
<1>4. CASE MgrSignal
  <2>1. broken' \in BOOLEAN
    BY <1>4 DEF MgrSignal
  <2>2. signalled' \in SUBSET Threads
    BY <1>4 DEF MgrSignal
  <2> QED  BY <1>4, <2>1, <2>2 DEF MgrSignal
<1>5. CASE MgrRelock
  BY <1>5 DEF MgrRelock
<1>6. CASE MgrSleep
  BY <1>6 DEF MgrSleep
<1> QED  BY <1>1, <1>2, <1>3, <1>4, <1>5, <1>6 DEF MgrStep

LEMMA TypeInit == Init => TypeOK
<1> SUFFICES ASSUME Init PROVE TypeOK
  OBVIOUS
<1>1. ConnType
  BY DEF Init, ConnType
<1>2. DescType
  BY DEF Init, DescType
<1>3. WaitType
  BY DEF Init, WaitType
<1>4. ThrType
  BY DEF Init, ThrType, PCs, ConnPCs
<1>5. MgrType
  <2>1. broken \in BOOLEAN
    BY DEF Init
  <2> QED  BY <2>1, HighType DEF Init, MgrType
<1> QED  BY <1>1, <1>2, <1>3, <1>4, <1>5 DEF TypeOK

LEMMA TypeNext == TypeOK /\ [Next]_vars => TypeOK'
<1> SUFFICES ASSUME TypeOK, [Next]_vars PROVE TypeOK'
  OBVIOUS
<1>1. CASE \E t \in Threads : Start(t) \/ Step(t)
  BY <1>1, StartType, StepType
<1>2. CASE MgrStep
  BY <1>2, MgrStepType
<1>3. CASE UNCHANGED vars
  BY <1>3 DEF TypeOK, ConnType, DescType, WaitType, ThrType, MgrType, vars,
              connVars, descVars, waitVars, thrVars, mgrVars
<1> QED  BY <1>1, <1>2, <1>3 DEF Next

\* Every variable keeps its type: the counters stay integers, the locks are
\* owned by threads, and pointers point to connections and descriptors.
THEOREM TypeCorrect == Spec => []TypeOK
<1> QED  BY TypeInit, TypeNext, PTL DEF Spec

(***************************************************************************)
(* Mutual exclusion of RPCs.  A step starts where nothing is broken, so    *)
(* all of PoolInv holds there.                                             *)
(***************************************************************************)
LEMMA StepInv ==
  ASSUME TypeOK, TypeOK', ~NetErrors,
         NoErrorInv, LiveInv, PrivateInv, MutexInv,
         NEW t \in Threads, Step(t)
  PROVE  NoErrorInv' /\ LiveInv' /\ PrivateInv' /\ MutexInv'
<1> USE PoolAssumption DEF TypeOK, ConnType, DescType, ThrType, PCs, ConnPCs,
        NoErrorInv, Goto, connVars, descVars, waitVars, thrVars, mgrVars
<1>1. CASE ByPathMatch(t)
  BY <1>1 DEF ByPathMatch, Holds, Compared, HasConn, LiveInv, PrivateInv,
      MutexInv, MutexPCs
<1>2. CASE ByPathNone(t)
  BY <1>2 DEF ByPathNone, LiveInv, PrivateInv, MutexInv, MutexPCs
<1>3. CASE ByPathConn(t)
  BY <1>3 DEF ByPathConn, LiveInv, PrivateInv, MutexInv, MutexPCs
<1>4. CASE UseEnter(t)
  BY <1>4 DEF UseEnter, LiveInv, PrivateInv, MutexInv, MutexPCs
<1>5. CASE UseBody(t)
  BY <1>5 DEF UseBody, Pend, LiveInv, PrivateInv, MutexInv, MutexPCs
<1>6. CASE LockPend(t)
  BY <1>6 DEF LockPend, LiveInv, PrivateInv, MutexInv, MutexPCs
<1>7. CASE PendIn(t)
  BY <1>7 DEF PendIn, LiveInv, PrivateInv, MutexInv, MutexPCs
<1>8. CASE GetConnLock(t)
  BY <1>8 DEF GetConnLock, LiveInv, PrivateInv, MutexInv, MutexPCs
<1>9. CASE ScanFree(t)
  BY <1>9 DEF ScanFree, Holds, FreeConns, LiveInv, PrivateInv, MutexInv,
      MutexPCs
<1>10. CASE LockFree(t)
  BY <1>10 DEF LockFree, LiveInv, PrivateInv, MutexInv, MutexPCs
<1>11. CASE ScanIdle(t)
  BY <1>11 DEF ScanIdle, Pend, Holds, IdleConns, LiveInv, PrivateInv,
      MutexInv, MutexPCs
<1>12. CASE ScanWait(t)
  BY <1>12 DEF ScanWait, LiveInv, PrivateInv, MutexInv, MutexPCs
<1>13. CASE ScanMake(t)
  BY <1>13 DEF ScanMake, LiveInv, PrivateInv, MutexInv, MutexPCs
<1>14. CASE WaitReturn(t)
  BY <1>14 DEF WaitReturn, LiveInv, PrivateInv, MutexInv, MutexPCs
<1>15. CASE WaitAgain(t)
  BY <1>15 DEF WaitAgain, LiveInv, PrivateInv, MutexInv, MutexPCs
<1>16. CASE Connect(t)
  BY <1>16 DEF Connect, Holds, LiveInv, PrivateInv, MutexInv, MutexPCs
<1>17. CASE ConnectFail(t)
  BY <1>17 DEF ConnectFail, Return, LiveInv, PrivateInv, MutexInv, MutexPCs
<1>18. CASE Push(t)
  BY <1>18 DEF Push, LiveInv, PrivateInv, MutexInv, MutexPCs
<1>19. CASE Rpc(t)
  BY <1>19 DEF Rpc, LiveInv, PrivateInv, MutexInv, MutexPCs
<1>20. CASE RpcReadMsgError(t)
  BY <1>20 DEF RpcReadMsgError, LiveInv, PrivateInv, MutexInv, MutexPCs
<1>21. CASE Reconnect(t)
  BY <1>21 DEF Reconnect, LiveInv, PrivateInv, MutexInv, MutexPCs
<1>22. CASE Attach(t)
  BY <1>22 DEF Attach, FreeDescs, LiveInv, PrivateInv, MutexInv, MutexPCs
<1>23. CASE FillConn(t)
  BY <1>23 DEF FillConn, LiveInv, PrivateInv, MutexInv, MutexPCs
<1>24. CASE FillPath(t)
  BY <1>24 DEF FillPath, LiveInv, PrivateInv, MutexInv, MutexPCs
<1>25. CASE UnuseNull(t)
  BY <1>25 DEF UnuseNull, Unused, Return, LiveInv, PrivateInv, MutexInv,
      MutexPCs
<1>26. CASE Unuse(t)
  BY <1>26 DEF Unuse, LiveInv, PrivateInv, MutexInv, MutexPCs
<1>27. CASE Unlock(t)
  <2>1. CASE op[t] = "io"
    BY <1>27, <2>1 DEF Unlock, Unused, Return, LiveInv, PrivateInv, MutexInv,
        MutexPCs
  <2>2. CASE op[t] = "release"
    BY <1>27, <2>2 DEF Unlock, Unused, LiveInv, PrivateInv, MutexInv, MutexPCs
  <2>3. CASE op[t] \notin {"io", "release"}
    BY <1>27, <2>3 DEF Unlock, Unused, LiveInv, PrivateInv, MutexInv, MutexPCs
  <2> QED  BY <2>1, <2>2, <2>3
<1>28. CASE FreeDesc(t)
  BY <1>28 DEF FreeDesc, LiveInv, PrivateInv, MutexInv, MutexPCs
<1>29. CASE Rel(t)
  BY <1>29 DEF Rel, Released, Return, LiveInv, PrivateInv, MutexInv, MutexPCs
<1>30. CASE ChkInuse(t)
  BY <1>30 DEF ChkInuse, Released, Return, LiveInv, PrivateInv, MutexInv,
      MutexPCs
<1>31. CASE SetFree(t)
  BY <1>31 DEF SetFree, Released, Return, LiveInv, PrivateInv, MutexInv,
      MutexPCs
<1>32. CASE UseEnterNull(t)
  BY <1>32 DEF UseEnterNull, LiveInv, PrivateInv, MutexInv, MutexPCs
<1>33. CASE EnterWait(t)
  BY <1>33 DEF EnterWait, LiveInv, PrivateInv, MutexInv, MutexPCs
<1> QED  BY <1>1, <1>2, <1>3, <1>4, <1>5, <1>6, <1>7, <1>8, <1>9, <1>10,
  <1>11, <1>12, <1>13, <1>14, <1>15, <1>16, <1>17, <1>18, <1>19, <1>20, <1>21,
  <1>22, <1>23, <1>24, <1>25, <1>26, <1>27, <1>28, <1>29, <1>30, <1>31,
  <1>32, <1>33
  DEF Step

LEMMA StartInv ==
  ASSUME TypeOK, TypeOK', NoErrorInv, LiveInv, PrivateInv, MutexInv,
         NEW t \in Threads, Start(t)
  PROVE  NoErrorInv' /\ LiveInv' /\ PrivateInv' /\ MutexInv'
<1> USE PoolAssumption DEF TypeOK, ConnType, DescType, ThrType, PCs, ConnPCs,
        NoErrorInv, LiveInv, PrivateInv, MutexInv, MutexPCs, Goto, Begin, Holds,
        HasConn, connVars, descVars, waitVars, thrVars, mgrVars
<1>1. CASE StartCall(t)
  BY <1>1 DEF StartCall
<1>2. CASE \E p \in Paths : StartOpen(t, p)
  BY <1>2 DEF StartOpen
<1>3. CASE \E d \in Descs : StartIo(t, d)
  BY <1>3 DEF StartIo
<1>4. CASE \E d \in Descs : StartRelease(t, d)
  BY <1>4 DEF StartRelease
<1> QED  BY <1>1, <1>2, <1>3, <1>4 DEF Start

LEMMA MgrInv ==
  ASSUME TypeOK, NoErrorInv, LiveInv, PrivateInv, MutexInv, MgrStep
  PROVE  PoolInv'
<1> USE DEF NoErrorInv, LiveInv, PrivateInv, MutexInv, connVars, descVars,
            waitVars, thrVars, mgrVars
<1>1. CASE MgrEnter
  BY <1>1 DEF MgrEnter, PoolInv
<1>2. CASE MgrSweep
  <2>1. PICK timedOut \in SUBSET FreeIn(ConnHead) :
          \E trimmed \in Trims(ConnHead \ timedOut) : Drop(timedOut, trimmed)
    BY <1>2 DEF MgrSweep
  <2>2. PICK trimmed \in Trims(ConnHead \ timedOut) : Drop(timedOut, trimmed)
    BY <2>1
  <2> DEFINE gone == timedOut \cup trimmed
  <2>3. ~broken' => /\ \A u \in Threads : cn[u] \notin gone
                    /\ \A d \in Descs : descConn[d] \notin gone
    BY <2>2 DEF Drop, Referred
  <2>4. /\ ConnHead' = ConnHead \ gone
        /\ alloc' = alloc \ gone
        /\ conn' = conn \ gone
        /\ UNCHANGED <<pc, op, cn, descConn, lock>>
    BY <1>2, <2>2 DEF Drop, MgrSweep
  <2> HIDE DEF gone
  <2> QED  BY <2>3, <2>4 DEF PoolInv
<1>3. CASE MgrWake
  BY <1>3 DEF MgrWake, PoolInv
<1>4. CASE MgrSignal
  BY <1>4 DEF MgrSignal, PoolInv
<1>5. CASE MgrRelock
  BY <1>5 DEF MgrRelock, PoolInv
<1>6. CASE MgrSleep
  BY <1>6 DEF MgrSleep, PoolInv
<1> QED  BY <1>1, <1>2, <1>3, <1>4, <1>5, <1>6 DEF MgrStep

LEMMA PoolInvInit == Init => PoolInv
BY PoolAssumption DEF Init, PoolInv, NoErrorInv, LiveInv, PrivateInv, MutexInv,
                      MutexPCs

LEMMA PoolInvNext ==
  ASSUME ~NetErrors
  PROVE  TypeOK /\ TypeOK' /\ PoolInv /\ [Next]_vars => PoolInv'
<1> SUFFICES ASSUME TypeOK, TypeOK', PoolInv, [Next]_vars PROVE PoolInv'
  OBVIOUS
<1>1. CASE ~broken /\ \E t \in Threads : Start(t) \/ Step(t)
  BY <1>1, StartInv, StepInv DEF PoolInv
<1>2. CASE ~broken /\ MgrStep
  BY <1>2, MgrInv DEF PoolInv
<1>3. CASE UNCHANGED vars
  BY <1>3 DEF PoolInv, NoErrorInv, LiveInv, PrivateInv, MutexInv, vars, connVars,
              descVars, thrVars
<1> QED  BY <1>1, <1>2, <1>3 DEF Next

\* As long as connections do not fail, two threads never run RPCs on the same
\* server connection: a thread gets past useFreeIFuseConn or _useIFuseConn
\* only as the owner of the mutex of an allocated connection.
THEOREM RpcExclusion ==
  ASSUME ~NetErrors
  PROVE  Spec => []RpcExclusive
<1>1. PoolInv => RpcExclusive
  BY DEF PoolInv, MutexInv, MutexPCs, RpcExclusive
<1> QED
  BY <1>1, TypeInit, TypeNext, PoolInvInit, PoolInvNext, PTL DEF Spec

-------------------------------------------------------------------------------
(***************************************************************************)
(* ConnLock.  The manager's critical section is part of the argument: a    *)
(* lock that another owns is released by nobody.                           *)
(***************************************************************************)
LockInv == /\ \A t \in Threads : pc[t] \in {"scan", "useBody"} => connLock = t
           /\ mpc \in {"sweep", "wake"} => connLock = Manager

LEMMA LockStep ==
  ASSUME TypeOK, ~WaitTimeouts, ~NetErrors, LiveInv, LockInv, NEW t \in Threads,
         Start(t) \/ Step(t)
  PROVE  LockInv'
<1>0. /\ Null \notin Threads /\ Null # Manager /\ Manager \notin Threads
      /\ pc \in [Threads -> PCs] /\ mpc' = mpc
  <2>1. mpc' = mpc
    BY DEF Start, StartCall, StartOpen, StartIo, StartRelease, Step, ByPathMatch, ByPathNone,
           ByPathConn, UseEnterNull, UseEnter, UseBody, LockPend, PendIn, GetConnLock, ScanFree, LockFree,
           ScanIdle, ScanWait, ScanMake, EnterWait, WaitReturn, WaitAgain, Connect, ConnectFail, Push,
           Rpc, RpcReadMsgError, Reconnect, Attach, FillConn, FillPath, UnuseNull, Unuse,
           Unlock, FreeDesc, Rel, ChkInuse, SetFree, mgrVars
  <2> QED  BY <2>1, PoolAssumption DEF TypeOK, ThrType
<1>1. \A u \in Threads \ {t} : pc'[u] = pc[u]
  BY <1>0 DEF Start, StartCall, StartOpen, StartIo, StartRelease, Begin, Step, ByPathMatch,
         ByPathNone, ByPathConn, UseEnterNull, UseEnter, UseBody, LockPend, PendIn, GetConnLock, ScanFree,
         LockFree, ScanIdle, ScanWait, ScanMake, EnterWait, WaitReturn, WaitAgain, Connect, ConnectFail,
         Push, Rpc, RpcReadMsgError, Reconnect, Attach, FillConn, FillPath, UnuseNull, Unuse,
         Unlock, FreeDesc, Rel, ChkInuse, SetFree, Goto, Pend, Released, Unused, Return
\* t takes the lock, gives it up, or leaves it alone outside of its sections.
<1>2. \/ connLock = Null /\ connLock' = t
      \/ /\ pc[t] \in {"scan", "useBody"} /\ connLock' = Null
         /\ pc'[t] \notin {"scan", "useBody"}
      \/ connLock' = connLock /\ pc'[t] \notin {"scan", "useBody"}
  <2> USE <1>0 DEF Goto
  <2>1. CASE Start(t)
    BY <2>1 DEF Start, StartCall, StartOpen, StartIo, StartRelease, Begin
  <2>2. CASE ByPathMatch(t) \/ ByPathNone(t) \/ ByPathConn(t) \/ UseEnterNull(t) \/ UseEnter(t)
    BY <2>2 DEF ByPathMatch, ByPathNone, ByPathConn, UseEnterNull, UseEnter
  <2>3. CASE UseBody(t)
    <3>1. cn[t] \in conn
      <4>1. pc[t] \in ConnPCs /\ cn[t] \in Conns
        BY <2>3 DEF UseBody, TypeOK, ThrType, ConnPCs, PCs
      <4> QED  BY <4>1, PoolAssumption DEF LiveInv
    <3> QED  BY <2>3, <3>1 DEF UseBody, Pend
  <2>4. CASE LockPend(t) \/ PendIn(t) \/ GetConnLock(t) \/ ScanFree(t) \/ LockFree(t)
    BY <2>4 DEF LockPend, PendIn, GetConnLock, ScanFree, LockFree
  <2>5. CASE ScanIdle(t) \/ ScanWait(t) \/ ScanMake(t)
    BY <2>5 DEF ScanIdle, ScanWait, ScanMake, Pend
  <2>6. CASE EnterWait(t) \/ WaitReturn(t) \/ WaitAgain(t) \/ Connect(t) \/ ConnectFail(t) \/ Push(t)
    BY <2>6 DEF EnterWait, WaitReturn, WaitAgain, Connect, ConnectFail, Push
  <2>7. CASE Rpc(t) \/ RpcReadMsgError(t) \/ Reconnect(t) \/ Attach(t)
    BY <2>7 DEF Rpc, RpcReadMsgError, Reconnect, Attach
  <2>8. CASE FillConn(t) \/ FillPath(t) \/ FreeDesc(t)
    BY <2>8 DEF FillConn, FillPath, FreeDesc
  <2>9. CASE UnuseNull(t) \/ Unuse(t) \/ Unlock(t)
    BY <2>9 DEF UnuseNull, Unuse, Unlock, Unused, Return
  <2>10. CASE Rel(t) \/ ChkInuse(t) \/ SetFree(t)
    BY <2>10 DEF Rel, ChkInuse, SetFree, Released, Return
  <2> QED  BY <2>1, <2>2, <2>3, <2>4, <2>5, <2>6, <2>7, <2>8, <2>9, <2>10 DEF Step
<1> QED  BY <1>0, <1>1, <1>2 DEF LockInv

LEMMA LockMgr ==
  ASSUME LockInv, MgrStep
  PROVE  LockInv'
<1>0. Null \notin Threads /\ Null # Manager /\ Manager \notin Threads /\ pc' = pc
  BY PoolAssumption DEF MgrStep, MgrEnter, MgrSweep, MgrWake, MgrSignal, MgrRelock, MgrSleep
<1>1. CASE MgrEnter \/ MgrRelock
  BY <1>0, <1>1 DEF MgrEnter, MgrRelock, LockInv
<1>2. CASE MgrSweep
  BY <1>0, <1>2 DEF MgrSweep, LockInv
<1>3. CASE MgrSignal
  BY <1>0, <1>3 DEF MgrSignal, LockInv
<1>4. CASE MgrWake \/ MgrSleep
  BY <1>0, <1>4 DEF MgrWake, MgrSleep, LockInv
<1> QED  BY <1>1, <1>2, <1>3, <1>4 DEF MgrStep

\* The sections that say "lock ConnLock before calling" run with ConnLock held by
\* their own thread, as long as connections do not fail and no wait times out: with
\* either, _useIFuseConn or the loop of getIFuseConn unlocks what it does not hold.
THEOREM SectionsHoldConnLock ==
  ASSUME ~NetErrors, ~WaitTimeouts
  PROVE  Spec => []ConnLockHeld
<1> DEFINE Inv == PoolInv /\ (~broken => LockInv)
<1>1. Init => Inv
  BY PoolInvInit DEF Init, LockInv
<1>2. TypeOK /\ TypeOK' /\ Inv /\ [Next]_vars => Inv'
  <2> SUFFICES ASSUME TypeOK, TypeOK', Inv, [Next]_vars PROVE Inv'
    OBVIOUS
  <2>1. PoolInv'
    BY PoolInvNext
  <2>2. CASE ~broken /\ \E t \in Threads : Start(t) \/ Step(t)
    BY <2>1, <2>2, LockStep DEF PoolInv
  <2>3. CASE ~broken /\ MgrStep
    BY <2>1, <2>3, LockMgr
  <2>4. CASE UNCHANGED vars
    BY <2>1, <2>4 DEF vars, LockInv, mgrVars
  <2> QED  BY <2>2, <2>3, <2>4 DEF Next
<1>3. Inv => ConnLockHeld
  BY DEF LockInv, ConnLockHeld
<1> QED
  BY <1>1, <1>2, <1>3, TypeInit, TypeNext, PTL DEF Spec


-------------------------------------------------------------------------------
(***************************************************************************)
(* Counting threads: a step moves one of them.                             *)
(***************************************************************************)
One(b) == IF b THEN 1 ELSE 0

LEMMA MoveCount ==
  ASSUME NEW S, NEW T, NEW t, IsFiniteSet(S), S \ {t} = T \ {t}
  PROVE  /\ Cardinality(S) \in Nat /\ Cardinality(T) \in Nat
         /\ Cardinality(T) = Cardinality(S) - One(t \in S) + One(t \in T)
<1> DEFINE R == S \ {t}
<1>1. /\ IsFiniteSet(R)
      /\ Cardinality(R) = IF t \in S THEN Cardinality(S) - 1 ELSE Cardinality(S)
  BY FS_RemoveElement
<1>2. Cardinality(S) \in Nat /\ Cardinality(R) \in Nat
  BY <1>1, FS_CardinalityType
<1>3. CASE t \notin T
  <2>1. T = R
    BY <1>3
  <2> HIDE DEF R
  <2> QED  BY <1>1, <1>2, <1>3, <2>1 DEF One
<1>4. CASE t \in T
  <2>1. T = R \cup {t} /\ t \notin R
    BY <1>4
  <2> HIDE DEF R
  <2>2. Cardinality(T) = Cardinality(R) + 1
    BY <1>1, <2>1, FS_AddElement
  <2> QED  BY <1>1, <1>2, <1>4, <2>2 DEF One
<1> QED  BY <1>3, <1>4

\* inuseCnt and pendingCnt follow the threads, also of a connection that is not in
\* the list yet.
CountsInv ==
  \A c \in alloc : /\ inuseCnt[c] = Cardinality(At(c, InusePCs))
                   /\ pendingCnt[c] = Cardinality(At(c, PendPCs))

In(t, c, S) == One(cn[t] = c /\ pc[t] \in S)

\* What a step of t does to the counts is what it does to the threads that are counted.
Follows(t) ==
  \A c \in alloc' \cap alloc :
    /\ inuseCnt'[c] = inuseCnt[c] - In(t, c, InusePCs) + In(t, c, InusePCs)'
    /\ pendingCnt'[c] = pendingCnt[c] - In(t, c, PendPCs) + In(t, c, PendPCs)'

LEMMA AtMoves ==
  ASSUME NEW t \in Threads, \A u \in Threads \ {t} : pc'[u] = pc[u] /\ cn'[u] = cn[u],
         NEW c, NEW S
  PROVE  /\ Cardinality(At(c, S)) \in Nat /\ Cardinality({u \in Threads : cn'[u] = c /\ pc'[u] \in S}) \in Nat
         /\ Cardinality({u \in Threads : cn'[u] = c /\ pc'[u] \in S})
              = Cardinality(At(c, S)) - In(t, c, S) + One(cn'[t] = c /\ pc'[t] \in S)
<1> DEFINE A == At(c, S)
           B == {u \in Threads : cn'[u] = c /\ pc'[u] \in S}
<1>1. IsFiniteSet(A)
  BY FiniteAssumption, FS_Subset DEF At
<1>2. A \ {t} = B \ {t}
  BY DEF At
<1>3. (t \in A) = (cn[t] = c /\ pc[t] \in S) /\ (t \in B) = (cn'[t] = c /\ pc'[t] \in S)
  BY DEF At
<1> HIDE DEF A, B
<1>4. /\ Cardinality(A) \in Nat /\ Cardinality(B) \in Nat
      /\ Cardinality(B) = Cardinality(A) - One(t \in A) + One(t \in B)
  BY <1>1, <1>2, MoveCount
<1> QED  BY <1>3, <1>4 DEF A, B, In

LEMMA CountsFollow ==
  ASSUME CountsInv, NEW t \in Threads,
         \A u \in Threads \ {t} : pc'[u] = pc[u] /\ cn'[u] = cn[u],
         alloc' \subseteq alloc, Follows(t)
  PROVE  CountsInv'
<1> SUFFICES ASSUME NEW c \in alloc'
             PROVE  /\ inuseCnt'[c] = Cardinality(At(c, InusePCs)')
                    /\ pendingCnt'[c] = Cardinality(At(c, PendPCs)')
  BY DEF CountsInv
<1>1. \A S : At(c, S)' = {u \in Threads : cn'[u] = c /\ pc'[u] \in S}
  BY DEF At
<1>2. \A S : In(t, c, S)' = One(cn'[t] = c /\ pc'[t] \in S)
  BY DEF In
<1>3. \A S : Cardinality({u \in Threads : cn'[u] = c /\ pc'[u] \in S})
              = Cardinality(At(c, S)) - In(t, c, S) + One(cn'[t] = c /\ pc'[t] \in S)
  BY AtMoves
<1>4. /\ inuseCnt[c] = Cardinality(At(c, InusePCs))
      /\ pendingCnt[c] = Cardinality(At(c, PendPCs))
  BY DEF CountsInv
<1>5. /\ inuseCnt'[c] = inuseCnt[c] - In(t, c, InusePCs) + One(cn'[t] = c /\ pc'[t] \in InusePCs)
      /\ pendingCnt'[c] = pendingCnt[c] - In(t, c, PendPCs) + One(cn'[t] = c /\ pc'[t] \in PendPCs)
  BY <1>2 DEF Follows, InusePCs, PendPCs
<1> QED  BY <1>1, <1>3, <1>4, <1>5, Zenon DEF InusePCs, PendPCs


LEMMA StepCounts ==
  ASSUME TypeOK, ~NetErrors, NoErrorInv, LiveInv, CountsInv, NEW t \in Threads,
         Start(t) \/ Step(t)
  PROVE  CountsInv'
<1>0. /\ Null \notin Conns /\ pc \in [Threads -> PCs] /\ cn \in [Threads -> Conns \cup {Null}]
      /\ inuseCnt \in [Conns -> Int] /\ pendingCnt \in [Conns -> Int] /\ alloc \subseteq Conns
      /\ pc[t] \in ConnPCs => cn[t] \in Conns /\ cn[t] \in conn
  BY PoolAssumption DEF TypeOK, ConnType, ThrType, LiveInv
<1>1. \A u \in Threads \ {t} : pc'[u] = pc[u] /\ cn'[u] = cn[u]
  <2> USE <1>0 DEF Goto, Holds, thrVars
  <2>1. CASE Start(t)
    BY <2>1 DEF Start, StartCall, StartOpen, StartIo, StartRelease, Begin
  <2>2. CASE ByPathMatch(t) \/ ByPathNone(t) \/ ByPathConn(t) \/ UseEnterNull(t) \/ UseEnter(t)
    BY <2>2 DEF ByPathMatch, ByPathNone, ByPathConn, UseEnterNull, UseEnter
  <2>3. CASE UseBody(t) \/ LockPend(t) \/ PendIn(t) \/ GetConnLock(t) \/ ScanFree(t)
    BY <2>3 DEF UseBody, Pend, LockPend, PendIn, GetConnLock, ScanFree
  <2>4. CASE LockFree(t) \/ ScanIdle(t) \/ ScanWait(t) \/ ScanMake(t)
    BY <2>4 DEF LockFree, ScanIdle, ScanWait, ScanMake, Pend
  <2>5. CASE EnterWait(t) \/ WaitReturn(t) \/ WaitAgain(t) \/ Connect(t) \/ ConnectFail(t) \/ Push(t)
    BY <2>5 DEF EnterWait, WaitReturn, WaitAgain, Connect, ConnectFail, Push, Return
  <2>6. CASE Rpc(t) \/ RpcReadMsgError(t) \/ Reconnect(t) \/ Attach(t)
    BY <2>6 DEF Rpc, RpcReadMsgError, Reconnect, Attach
  <2>7. CASE FillConn(t) \/ FillPath(t) \/ FreeDesc(t)
    BY <2>7 DEF FillConn, FillPath, FreeDesc
  <2>8. CASE UnuseNull(t) \/ Unuse(t) \/ Unlock(t)
    BY <2>8 DEF UnuseNull, Unuse, Unlock, Unused, Return
  <2>9. CASE Rel(t) \/ ChkInuse(t) \/ SetFree(t)
    BY <2>9 DEF Rel, ChkInuse, SetFree, Released, Return
  <2> QED  BY <2>1, <2>2, <2>3, <2>4, <2>5, <2>6, <2>7, <2>8, <2>9 DEF Step
\* A connection that did not exist is known to no other thread.
<1>2. CASE Connect(t)
  <2>1. PICK c \in Conns \ alloc :
          /\ alloc' = alloc \cup {c}
          /\ inuseCnt' = [inuseCnt EXCEPT ![c] = 0]
          /\ pendingCnt' = [pendingCnt EXCEPT ![c] = 0]
          /\ cn' = [cn EXCEPT ![t] = c] /\ pc' = [pc EXCEPT ![t] = "push"] /\ pc[t] = "connect"
    BY <1>2 DEF Connect, Holds, Goto
  <2>2. \A u \in Threads : cn[u] # c
    BY <1>0, <2>1 DEF LiveInv
  <2>3. ASSUME NEW S \in {InusePCs, PendPCs} PROVE At(c, S)' = {}
    BY <1>0, <2>1, <2>2 DEF At, InusePCs, PendPCs
  <2>4. ASSUME NEW S \in {InusePCs, PendPCs}, NEW d \in alloc PROVE At(d, S)' = At(d, S)
    <3>1. {"push", "connect"} \cap S = {} /\ d # c
      BY <2>1 DEF InusePCs, PendPCs
    <3> QED  BY <1>0, <2>1, <3>1 DEF At
  <2>5. \A d \in alloc : inuseCnt'[d] = inuseCnt[d] /\ pendingCnt'[d] = pendingCnt[d]
    BY <1>0, <2>1
  <2>6. inuseCnt'[c] = 0 /\ pendingCnt'[c] = 0
    BY <1>0, <2>1
  <2> QED  BY <2>1, <2>3, <2>4, <2>5, <2>6, FS_EmptySet DEF CountsInv
<1>3. CASE ~Connect(t)
  <2>1. alloc' = alloc
    BY <1>3 DEF Start, StartCall, StartOpen, StartIo, StartRelease, Step, ByPathMatch, ByPathNone,
           ByPathConn, UseEnterNull, UseEnter, UseBody, LockPend, PendIn, GetConnLock, ScanFree, LockFree,
           ScanIdle, ScanWait, ScanMake, EnterWait, WaitReturn, WaitAgain, ConnectFail, Push,
           Rpc, RpcReadMsgError, Reconnect, Attach, FillConn, FillPath, UnuseNull, Unuse,
           Unlock, FreeDesc, Rel, ChkInuse, SetFree, connVars, Pend
  <2>2. Follows(t)
    <3> USE <1>0 DEF Follows, In, One, InusePCs, PendPCs, ConnPCs, PCs, Goto, Holds, connVars,
                     thrVars
    <3>1. CASE Start(t)
      BY <3>1 DEF Start, StartCall, StartOpen, StartIo, StartRelease, Begin
    <3>2. CASE ByPathMatch(t)
      BY <3>2 DEF ByPathMatch
    <3>3. CASE ByPathNone(t) \/ ByPathConn(t) \/ UseEnterNull(t) \/ UseEnter(t)
      BY <3>3 DEF ByPathNone, ByPathConn, UseEnterNull, UseEnter
    <3>4. CASE UseBody(t)
      BY <3>4 DEF UseBody, Pend
    <3>5. CASE LockPend(t)
      BY <3>5 DEF LockPend
    <3>6. CASE PendIn(t)
      BY <3>6 DEF PendIn
    <3>7. CASE GetConnLock(t) \/ ScanWait(t) \/ ScanMake(t) \/ EnterWait(t) \/ WaitReturn(t) \/ WaitAgain(t)
      BY <3>7 DEF GetConnLock, ScanWait, ScanMake, EnterWait, WaitReturn, WaitAgain
    <3>8. CASE ScanFree(t)
      BY <3>8 DEF ScanFree, FreeConns
    <3>9. CASE LockFree(t)
      BY <3>9 DEF LockFree
    <3>10. CASE ScanIdle(t)
      BY <3>10 DEF ScanIdle, Pend, IdleConns
    <3>11. CASE ConnectFail(t) \/ RpcReadMsgError(t) \/ Reconnect(t)
      BY <3>11 DEF ConnectFail, RpcReadMsgError, Reconnect, NoErrorInv
    <3>12. CASE Push(t)
      BY <3>12 DEF Push
    <3>13. CASE Rpc(t)
      BY <3>13 DEF Rpc
    <3>14. CASE Attach(t)
      BY <3>14 DEF Attach
    <3>15. CASE FillConn(t) \/ FillPath(t) \/ FreeDesc(t)
      BY <3>15 DEF FillConn, FillPath, FreeDesc
    <3>16. CASE UnuseNull(t)
      BY <3>16 DEF UnuseNull
    <3>17. CASE Unuse(t)
      BY <3>17 DEF Unuse
    <3>18. CASE Unlock(t)
      BY <3>18 DEF Unlock, Unused, Return
    <3>19. CASE Rel(t)
      BY <3>19 DEF Rel, Released, Return, NoErrorInv
    <3>20. CASE ChkInuse(t)
      BY <3>20 DEF ChkInuse, Released, Return, NoErrorInv
    <3>21. CASE SetFree(t)
      BY <3>21 DEF SetFree, Released, Return, NoErrorInv
    <3> QED  BY <1>3, <3>1, <3>2, <3>3, <3>4, <3>5, <3>6, <3>7, <3>8, <3>9, <3>10, <3>11,
                <3>12, <3>13, <3>14, <3>15, <3>16, <3>17, <3>18, <3>19, <3>20, <3>21 DEF Step
  <2> QED  BY <1>1, <2>1, <2>2, CountsFollow
<1> QED  BY <1>2, <1>3

LEMMA MgrCounts ==
  ASSUME CountsInv, MgrStep
  PROVE  CountsInv'
<1>1. UNCHANGED <<pc, cn, inuseCnt, pendingCnt>>
  BY DEF MgrStep, MgrEnter, MgrSweep, MgrWake, MgrSignal, MgrRelock, MgrSleep, connVars, thrVars
<1>2. alloc' \subseteq alloc
  BY DEF MgrStep, MgrEnter, MgrSweep, Drop, MgrWake, MgrSignal, MgrRelock, MgrSleep, connVars
<1>3. \A c, S : At(c, S)' = At(c, S)
  BY <1>1 DEF At
<1>4. \A c \in alloc : /\ At(c, InusePCs)' = At(c, InusePCs)
                       /\ At(c, PendPCs)' = At(c, PendPCs)
  BY <1>3 DEF InusePCs, PendPCs
<1> QED  BY <1>1, <1>2, <1>4 DEF CountsInv

\* The counts that _relIFuseConn and getIFuseConn take for the truth are exact, as long
\* as connections do not fail; with an error unuseIFuseConn leaves a count behind.
THEOREM CountsStayExact ==
  ASSUME ~NetErrors
  PROVE  Spec => []CountsExact
<1> DEFINE Inv == PoolInv /\ (~broken => CountsInv)
<1>1. Init => Inv
  BY PoolInvInit DEF Init, CountsInv
<1>2. TypeOK /\ TypeOK' /\ Inv /\ [Next]_vars => Inv'
  <2> SUFFICES ASSUME TypeOK, TypeOK', Inv, [Next]_vars PROVE Inv'
    OBVIOUS
  <2>1. PoolInv'
    BY PoolInvNext
  <2>2. CASE ~broken /\ \E t \in Threads : Start(t) \/ Step(t)
    BY <2>1, <2>2, StepCounts DEF PoolInv
  <2>3. CASE ~broken /\ MgrStep
    BY <2>1, <2>3, MgrCounts
  <2>4. CASE UNCHANGED vars
    BY <2>1, <2>4 DEF vars, CountsInv, At, connVars, thrVars
  <2> QED  BY <2>2, <2>3, <2>4 DEF Next
<1>3. Inv => CountsExact
  BY DEF PoolInv, LiveInv, CountsInv, CountsExact
<1> QED
  BY <1>1, <1>2, <1>3, TypeInit, TypeNext, PTL DEF Spec


-------------------------------------------------------------------------------
(***************************************************************************)
(* The number of connections.  A thread that has decided to make one is    *)
(* counted with those in the list; nothing is assumed about failures.      *)
(***************************************************************************)
Makers == {t \in Threads : pc[t] \in {"connect", "push"}}

MakeInv ==
  Cardinality(ConnHead) + Cardinality(Makers) <= MAX_NUM_CONN - 1 + Cardinality(Threads)

LEMMA PoolSizes ==
  ASSUME TypeOK
  PROVE  /\ IsFiniteSet(ConnHead) /\ IsFiniteSet(Makers)
         /\ Cardinality(ConnHead) \in Nat /\ Cardinality(Makers) \in Nat
         /\ Cardinality(Makers) <= Cardinality(Threads)
         /\ Cardinality(Threads) \in Nat /\ MAX_NUM_CONN \in Nat
<1>1. ConnHead \in SUBSET Conns /\ Makers \in SUBSET Threads
  BY DEF TypeOK, ConnType, Makers
<1>2. IsFiniteSet(ConnHead) /\ IsFiniteSet(Makers) /\ Cardinality(Makers) <= Cardinality(Threads)
  BY <1>1, FiniteAssumption, FS_Subset
<1> QED  BY <1>2, FiniteAssumption, FS_CardinalityType, PoolAssumption

LEMMA StepMake ==
  ASSUME TypeOK, TypeOK', MakeInv, NEW t \in Threads, Start(t) \/ Step(t)
  PROVE  MakeInv'
<1>0. pc \in [Threads -> PCs]
  BY DEF TypeOK, ThrType
<1>1. /\ IsFiniteSet(ConnHead) /\ IsFiniteSet(Makers)
      /\ Cardinality(ConnHead) \in Nat /\ Cardinality(Makers) \in Nat
      /\ Cardinality(Threads) \in Nat /\ MAX_NUM_CONN \in Nat
  BY PoolSizes
<1>2. /\ IsFiniteSet(Makers') /\ Cardinality(ConnHead') \in Nat
      /\ Cardinality(Makers') \in Nat /\ Cardinality(Makers') <= Cardinality(Threads)
  <2>1. ConnHead' \in SUBSET Conns /\ Makers' \in SUBSET Threads
    BY DEF TypeOK, ConnType, Makers
  <2>2. /\ IsFiniteSet(ConnHead') /\ IsFiniteSet(Makers')
        /\ Cardinality(Makers') <= Cardinality(Threads)
    BY <2>1, FiniteAssumption, FS_Subset
  <2> QED  BY <2>2, FS_CardinalityType
<1>3. CASE ScanMake(t)
  <2>1. ConnHead' = ConnHead /\ Cardinality(ConnHead) < MAX_NUM_CONN
    BY <1>3 DEF ScanMake, NumConn, connVars
  <2> QED  BY <1>1, <1>2, <2>1 DEF MakeInv
<1>4. CASE Push(t)
  <2>1. ConnHead' = ConnHead \cup {cn[t]} /\ Makers' = Makers \ {t} /\ t \in Makers
    BY <1>0, <1>4 DEF Push, Goto, Makers
  <2>2. Cardinality(ConnHead') <= Cardinality(ConnHead) + 1
    <3>1. Cardinality(ConnHead') = IF cn[t] \in ConnHead THEN Cardinality(ConnHead)
                                                        ELSE Cardinality(ConnHead) + 1
      BY <1>1, <2>1, FS_AddElement
    <3> QED  BY <1>1, <3>1
  <2>3. Cardinality(Makers') = Cardinality(Makers) - 1
    BY <1>1, <2>1, FS_RemoveElement
  <2> QED  BY <1>1, <1>2, <2>2, <2>3 DEF MakeInv
<1>5. CASE ~ScanMake(t) /\ ~Push(t)
  <2>1. ConnHead' = ConnHead
    BY <1>5 DEF Start, StartCall, StartOpen, StartIo, StartRelease, Step, ByPathMatch, ByPathNone,
           ByPathConn, UseEnterNull, UseEnter, UseBody, LockPend, PendIn, GetConnLock, ScanFree, LockFree,
           ScanIdle, ScanWait, EnterWait, WaitReturn, WaitAgain, Connect, ConnectFail,
           Rpc, RpcReadMsgError, Reconnect, Attach, FillConn, FillPath, UnuseNull, Unuse,
           Unlock, FreeDesc, Rel, ChkInuse, SetFree, connVars, Pend
  <2>2. Makers' \subseteq Makers
    <3> USE <1>0 DEF Makers, Goto
    <3>1. CASE Start(t)
      BY <3>1 DEF Start, StartCall, StartOpen, StartIo, StartRelease, Begin
    <3>2. CASE ByPathMatch(t) \/ ByPathNone(t) \/ ByPathConn(t) \/ UseEnterNull(t) \/ UseEnter(t)
      BY <3>2 DEF ByPathMatch, ByPathNone, ByPathConn, UseEnterNull, UseEnter
    <3>3. CASE UseBody(t) \/ LockPend(t) \/ PendIn(t) \/ GetConnLock(t) \/ ScanFree(t)
      BY <3>3 DEF UseBody, Pend, LockPend, PendIn, GetConnLock, ScanFree
    <3>4. CASE LockFree(t) \/ ScanIdle(t) \/ ScanWait(t)
      BY <3>4 DEF LockFree, ScanIdle, ScanWait, Pend
    <3>5. CASE EnterWait(t) \/ WaitReturn(t) \/ WaitAgain(t) \/ Connect(t) \/ ConnectFail(t)
      BY <3>5 DEF EnterWait, WaitReturn, WaitAgain, Connect, ConnectFail, Return
    <3>6. CASE Rpc(t) \/ RpcReadMsgError(t) \/ Reconnect(t) \/ Attach(t)
      BY <3>6 DEF Rpc, RpcReadMsgError, Reconnect, Attach
    <3>7. CASE FillConn(t) \/ FillPath(t) \/ FreeDesc(t)
      BY <3>7 DEF FillConn, FillPath, FreeDesc
    <3>8. CASE UnuseNull(t) \/ Unuse(t) \/ Unlock(t)
      BY <3>8 DEF UnuseNull, Unuse, Unlock, Unused, Return
    <3>9. CASE Rel(t) \/ ChkInuse(t) \/ SetFree(t)
      BY <3>9 DEF Rel, ChkInuse, SetFree, Released, Return
    <3> QED  BY <1>5, <3>1, <3>2, <3>3, <3>4, <3>5, <3>6, <3>7, <3>8, <3>9 DEF Step
  <2>3. Cardinality(Makers') <= Cardinality(Makers)
    BY <1>1, <2>2, FS_Subset
  <2> QED  BY <1>1, <1>2, <2>1, <2>3 DEF MakeInv
<1> QED  BY <1>3, <1>4, <1>5

LEMMA MgrMake ==
  ASSUME TypeOK, MakeInv, MgrStep
  PROVE  MakeInv'
<1>1. pc' = pc /\ ConnHead' \subseteq ConnHead
  BY DEF MgrStep, MgrEnter, MgrSweep, Drop, MgrWake, MgrSignal, MgrRelock, MgrSleep, connVars
<1>2. Makers' = Makers
  BY <1>1 DEF Makers
<1>3. /\ IsFiniteSet(ConnHead) /\ Cardinality(ConnHead) \in Nat /\ Cardinality(Makers) \in Nat
      /\ Cardinality(Threads) \in Nat /\ MAX_NUM_CONN \in Nat
  BY PoolSizes
<1>4. Cardinality(ConnHead') <= Cardinality(ConnHead) /\ Cardinality(ConnHead') \in Nat
  BY <1>1, <1>3, FS_Subset, FS_CardinalityType
<1> QED  BY <1>2, <1>3, <1>4 DEF MakeInv

\* getIFuseConn makes its connection outside ConnLock, after it has counted: the list
\* may outgrow MAX_NUM_CONN, but by less than one connection for each thread, whatever
\* fails or times out.
THEOREM ConnsBounded == Spec => []ConnBound
<1>1. Init => MakeInv
  <2> SUFFICES ASSUME Init PROVE MakeInv
    OBVIOUS
  <2>1. Makers = {} /\ ConnHead = {}
    BY DEF Init, Makers
  <2>2. Cardinality(Threads) \in Nat /\ MAX_NUM_CONN \in Nat \ {0}
    BY FiniteAssumption, FS_CardinalityType, PoolAssumption
  <2> QED  BY <2>1, <2>2, FS_EmptySet DEF MakeInv
<1>2. TypeOK /\ TypeOK' /\ MakeInv /\ [Next]_vars => MakeInv'
  <2> SUFFICES ASSUME TypeOK, TypeOK', MakeInv, [Next]_vars PROVE MakeInv'
    OBVIOUS
  <2>1. CASE \E t \in Threads : Start(t) \/ Step(t)
    BY <2>1, StepMake
  <2>2. CASE MgrStep
    BY <2>2, MgrMake
  <2>3. CASE UNCHANGED vars
    <3>1. ConnHead' = ConnHead /\ Makers' = Makers
      BY <2>3 DEF vars, connVars, Makers
    <3> QED  BY <3>1 DEF MakeInv
  <2> QED  BY <2>1, <2>2, <2>3 DEF Next
<1>3. TypeOK /\ MakeInv => ConnBound
  <2> SUFFICES ASSUME TypeOK, MakeInv PROVE ConnBound
    OBVIOUS
  <2>1. /\ Cardinality(ConnHead) \in Nat /\ Cardinality(Makers) \in Nat
        /\ Cardinality(Threads) \in Nat /\ MAX_NUM_CONN \in Nat
    BY PoolSizes
  <2> QED  BY <2>1 DEF MakeInv, ConnBound, NumConn
<1> QED
  BY <1>1, <1>2, <1>3, TypeInit, TypeNext, PTL DEF Spec

===============================================================================
