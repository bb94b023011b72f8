------------------------------- MODULE ConnPool -------------------------------
(***************************************************************************)
(* The pool of iRODS connections and the table of open descriptors of the  *)
(* FUSE client (clients/fuse/src/iFuseLib.c).  FUSE worker threads take a  *)
(* connection, run one RPC on it while holding its mutex, and give it      *)
(* back; open files pin the connection they were opened on; a manager      *)
(* thread drops idle connections and wakes the threads that wait for one.  *)
(*                                                                         *)
(* A critical section of ConnLock that other sections can meet half way is *)
(* an acquiring step and a step that works and releases; the short ones    *)
(* are one step that needs the lock to be free.  pthread_mutex_unlock is   *)
(* modelled as the default Linux mutex does it: the lock becomes free      *)
(* whoever held it.  When memory that is still referred to is freed, or a  *)
(* NULL pointer is followed, `broken' becomes TRUE and nothing more is     *)
(* said of the process.  The list of connections is a set, and so is the   *)
(* table of descriptors: which of several that fit a search finds first is *)
(* left open.                                                              *)
(***************************************************************************)
EXTENDS Integers, FiniteSets, Sequences, FiniteSetsExt

CONSTANTS
  Threads,        \* FUSE worker threads
  Conns,          \* addresses malloc can return for an iFuseConn_t
  Descs,          \* the slots of IFuseDesc
  Paths,          \* local path names
  Null,           \* NULL, and the owner of a free lock
  Manager,        \* the connManager thread, as the owner of ConnLock
  MAX_NUM_CONN,   \* connections above which getIFuseConn queues
  HIGH_NUM_CONN,  \* high water mark: the manager trims down to it
  NetErrors,      \* TRUE: connects and RPCs may fail with a network error
  WaitTimeouts,   \* TRUE: a queued wait may also last CONN_REQ_SLEEP_TIME
                  \* before its signal is sent
  FreeCntCap,     \* bound: the manager's freeCnt saturates here
  MaxOps          \* bound: calls made in all

ASSUME PoolAssumption ==
  /\ Null \notin Threads \cup Conns \cup Descs \cup Paths \cup {Manager}
  /\ Manager \notin Threads
  /\ MAX_NUM_CONN \in Nat \ {0}
  /\ HIGH_NUM_CONN \in Nat \ {0}
  /\ FreeCntCap \in Nat
  /\ MaxOps \in Nat
  /\ NetErrors \in BOOLEAN
  /\ WaitTimeouts \in BOOLEAN

ASSUME FiniteAssumption ==
  IsFiniteSet(Threads) /\ IsFiniteSet(Conns)

VARIABLES
  connLock,    \* owner of ConnLock
  descLock,    \* owner of DescLock
  alloc,       \* the connections that malloc returned and free has not taken
  ConnHead,    \* the connections in the list, in any order
  conn,        \* the connections whose c->conn is not NULL
  status,      \* c->status
  inuseCnt,    \* c->inuseCnt
  pendingCnt,  \* c->pendingCnt
  lock,        \* owner of c->lock
  desc,        \* the slots of IFuseDesc whose inuseFlag is IRODS_INUSE
  descConn, descPath,  \* their iFuseConn and localPath
  handles,     \* descriptors that FUSE knows: opened and not yet released
  ConnReqWaitQue,      \* threads in the wait queue, the oldest first
  state,       \* the waiting threads whose myConnReqWait.state is 1
  signalled,   \* those whose condition variable was signalled in the wait
  pc, op, cn, fd, arg, \* where a thread is, its call, its pointers
  ops,         \* calls made, against MaxOps
  mpc, mwaiter, freeCnt, started,  \* the manager thread
  broken       \* the process followed a dangling or a NULL pointer

connVars == <<alloc, ConnHead, conn, status, inuseCnt, pendingCnt, lock>>
descVars == <<desc, descConn, descPath, handles>>
waitVars == <<ConnReqWaitQue, state, signalled>>
thrVars  == <<op, cn, fd, arg, ops>>
mgrVars  == <<mpc, mwaiter, freeCnt, started>>
vars == <<connLock, descLock, connVars, descVars, waitVars, pc, thrVars,
          mgrVars, broken>>

PCs == {"idle", "byPath", "byPathConn", "useEnter", "useBody", "get", "scan",
        "enterWait", "wait", "connect", "push", "lockFree", "lockPend",
        "pendIn", "rpc", "reconnect", "attach", "fillConn", "fillPath",
        "unuse", "unlock", "rel", "chkInuse", "setFree", "freeDesc"}

\* Where a thread has a connection.
ConnPCs == PCs \ {"idle", "byPath", "get", "scan", "enterWait", "wait", "connect",
                 "freeDesc"}

ConnType ==
  /\ alloc \in SUBSET Conns
  /\ ConnHead \in SUBSET Conns
  /\ conn \in SUBSET Conns
  /\ status \in [Conns -> {"FREE", "INUSE"}]
  /\ inuseCnt \in [Conns -> Int]
  /\ pendingCnt \in [Conns -> Int]
  /\ lock \in [Conns -> Threads \cup {Null}]

DescType ==
  /\ desc \in SUBSET Descs
  /\ descConn \in [Descs -> Conns \cup {Null}]
  /\ descPath \in [Descs -> Paths \cup {Null}]
  /\ handles \in SUBSET Descs

WaitType ==
  /\ connLock \in Threads \cup {Null, Manager}
  /\ descLock \in Threads \cup {Null}
  /\ ConnReqWaitQue \in Seq(Threads)
  /\ state \in SUBSET Threads
  /\ signalled \in SUBSET Threads

ThrType ==
  /\ pc \in [Threads -> PCs]
  /\ op \in [Threads -> {"none", "call", "open", "reopen", "io", "release"}]
  /\ cn \in [Threads -> Conns \cup {Null}]
  /\ fd \in [Threads -> Descs \cup {Null}]
  /\ arg \in [Threads -> Paths \cup {Null}]
  /\ ops \in Nat
  /\ \A t \in Threads : pc[t] \in ConnPCs => cn[t] \in Conns

MgrType ==
  /\ mpc \in {"sleep", "sweep", "wake", "signal", "relock"}
  /\ mwaiter \in Threads \cup {Null}
  /\ mpc = "signal" => mwaiter \in Threads
  /\ freeCnt \in Int
  /\ started \in 0..HIGH_NUM_CONN
  /\ broken \in BOOLEAN

\* The types of the variables; a thread in a step that uses its connection has
\* one, and the manager signals a thread (getIFuseConn, connManager).
TypeOK == ConnType /\ DescType /\ WaitType /\ ThrType /\ MgrType

Init ==
  /\ connLock = Null /\ descLock = Null
  /\ alloc = {} /\ ConnHead = {}
  /\ conn = {}
  /\ status = [c \in Conns |-> "FREE"]
  /\ inuseCnt = [c \in Conns |-> 0]
  /\ pendingCnt = [c \in Conns |-> 0]
  /\ lock = [c \in Conns |-> Null]
  /\ desc = {}
  /\ descConn = [d \in Descs |-> Null]
  /\ descPath = [d \in Descs |-> Null]
  /\ handles = {}
  /\ ConnReqWaitQue = <<>>
  /\ state = {}
  /\ signalled = {}
  /\ pc = [t \in Threads |-> "idle"]
  /\ op = [t \in Threads |-> "none"]
  /\ cn = [t \in Threads |-> Null]
  /\ fd = [t \in Threads |-> Null]
  /\ arg = [t \in Threads |-> Null]
  /\ ops = 0
  /\ mpc = "sleep" /\ mwaiter = Null /\ freeCnt = 0 /\ started = 0
  /\ broken = FALSE

-------------------------------------------------------------------------------
(***************************************************************************)
(* Threads: control flow helpers.                                          *)
(***************************************************************************)
Goto(t, l) == pc' = [pc EXCEPT ![t] = l]

Holds(t, c) == cn' = [cn EXCEPT ![t] = c]

\* The call of t returns to FUSE; an open hands out its descriptor.
Return(t) ==
  /\ Goto(t, "idle")
  /\ op' = [op EXCEPT ![t] = "none"]
  /\ cn' = [cn EXCEPT ![t] = Null]
  /\ fd' = [fd EXCEPT ![t] = Null]
  /\ arg' = [arg EXCEPT ![t] = Null]
  /\ handles' = IF op[t] = "open" /\ fd[t] # Null THEN handles \cup {fd[t]}
                                                  ELSE handles
  /\ UNCHANGED <<desc, descConn, descPath, ops>>

\* relIFuseConn has returned.  irodsOpen releases its connection once after
\* a retried rcDataObjOpen and goes on with the descriptor all the same.
Released(t) ==
  IF op[t] = "reopen"
    THEN /\ Goto(t, "attach")
         /\ op' = [op EXCEPT ![t] = "open"]
         /\ UNCHANGED <<cn, fd, arg, ops, descVars>>
    ELSE Return(t)

\* unuseIFuseConn has returned.
Unused(t) ==
  CASE op[t] = "io" -> Return(t)
    [] op[t] = "release" -> Goto(t, "freeDesc") /\ UNCHANGED <<thrVars, descVars>>
    [] OTHER -> Goto(t, "rel") /\ UNCHANGED <<thrVars, descVars>>

\* Some thread or descriptor still has the address of c.
Referred(c) == \/ \E t \in Threads : cn[t] = c
               \/ \E d \in Descs : descConn[d] = c

\* getNumConn
NumConn == Cardinality(ConnHead)

-------------------------------------------------------------------------------
(***************************************************************************)
(* The calls FUSE makes.  A "call" is an operation on a path (getattr,     *)
(* readdir, mkdir, unlink, rename, ...): it takes any connection.  "open"  *)
(* prefers the connection of a descriptor that is open on the same path.   *)
(* "io" and "release" use the connection of their descriptor; lockDesc     *)
(* serialises them, and FUSE releases a descriptor once, after its last    *)
(* read or write.                                                          *)
(***************************************************************************)
Begin(t, o, l) ==
  /\ pc[t] = "idle" /\ ops < MaxOps
  /\ op' = [op EXCEPT ![t] = o]
  /\ ops' = ops + 1
  /\ Goto(t, l)

StartCall(t) ==
  /\ Begin(t, "call", "get")
  /\ UNCHANGED <<connLock, descLock, connVars, descVars, waitVars, cn, fd, arg,
                 mgrVars, broken>>

StartOpen(t, p) ==
  /\ Begin(t, "open", "byPath")
  /\ arg' = [arg EXCEPT ![t] = p]
  /\ UNCHANGED <<connLock, descLock, connVars, descVars, waitVars, cn, fd,
                 mgrVars, broken>>

\* lockDesc: no other thread works on d.
DescFree(d) == d \in handles /\ \A u \in Threads : fd[u] # d

HasConn(d) == descConn[d] # Null /\ descConn[d] \in conn

\* ifuseRead, ifuseWrite, ifuseLseek; without a connection they only fail.
StartIo(t, d) ==
  /\ DescFree(d) /\ HasConn(d)
  /\ Begin(t, "io", "useEnter")
  /\ fd' = [fd EXCEPT ![t] = d]
  /\ Holds(t, descConn[d])
  /\ UNCHANGED <<connLock, descLock, connVars, descVars, waitVars, arg, mgrVars,
                 broken>>

\* irodsRelease: ifuseClose, under the connection if there still is one.
StartRelease(t, d) ==
  /\ DescFree(d)
  /\ Begin(t, "release", IF HasConn(d) THEN "useEnter" ELSE "freeDesc")
  /\ fd' = [fd EXCEPT ![t] = d]
  /\ Holds(t, descConn[d])
  /\ handles' = handles \ {d}
  /\ UNCHANGED <<connLock, descLock, connVars, desc, descConn, descPath, waitVars,
                 arg, mgrVars, broken>>

-------------------------------------------------------------------------------
(***************************************************************************)
(* getIFuseConnByPath: look for an open descriptor of the same path under  *)
(* DescLock.  strcmp of a localPath that fillIFuseDesc has not stored yet  *)
(* follows a NULL pointer.                                                 *)
(***************************************************************************)
Compared(t) == {d \in desc : HasConn(d)
                                /\ descPath[d] \in {arg[t], Null}}

ByPathMatch(t) ==
  /\ pc[t] = "byPath" /\ descLock = Null
  /\ \E d \in Compared(t) :
       IF descPath[d] = Null
         THEN /\ broken' = TRUE
              /\ UNCHANGED <<descLock, pc, cn>>
         ELSE /\ Holds(t, descConn[d])
              /\ descLock' = t
              /\ Goto(t, "byPathConn")
              /\ UNCHANGED broken
  /\ UNCHANGED <<connLock, connVars, descVars, waitVars, op, fd, arg, ops,
                 mgrVars>>

ByPathNone(t) ==
  /\ pc[t] = "byPath" /\ descLock = Null
  /\ Compared(t) = {}
  /\ Goto(t, "get")
  /\ UNCHANGED <<connLock, descLock, connVars, descVars, waitVars, thrVars,
                 mgrVars, broken>>

\* Fault: _useIFuseConn is called without ConnLock.
ByPathConnNoLock(t) ==
  /\ pc[t] = "byPathConn" /\ connLock = Null
  /\ descLock' = Null
  /\ Goto(t, "useBody")
  /\ UNCHANGED <<connLock, connVars, descVars, waitVars, thrVars, mgrVars, broken>>

\* ConnLock is taken inside DescLock; then DescLock is given up.
ByPathConn(t) ==
  /\ pc[t] = "byPathConn" /\ connLock = Null
  /\ connLock' = t
  /\ descLock' = Null
  /\ Goto(t, "useBody")
  /\ UNCHANGED <<connVars, descVars, waitVars, thrVars, mgrVars, broken>>

\* useIFuseConn looks at c->conn without ConnLock first; no caller looks at
\* the error it returns.
UseEnterNull(t) ==
  /\ pc[t] = "useEnter" /\ cn[t] \notin conn
  /\ Goto(t, "rpc")
  /\ UNCHANGED <<connLock, descLock, connVars, descVars, waitVars, thrVars, mgrVars,
                 broken>>

UseEnter(t) ==
  /\ pc[t] = "useEnter" /\ cn[t] \in conn /\ connLock = Null
  /\ connLock' = t
  /\ Goto(t, "useBody")
  /\ UNCHANGED <<descLock, connVars, descVars, waitVars, thrVars, mgrVars,
                 broken>>

\* The part of _useIFuseConn under ConnLock, for a connection that is there.
Pend(t, c) ==
  /\ status' = [status EXCEPT ![c] = "INUSE"]
  /\ pendingCnt' = [pendingCnt EXCEPT ![c] = @ + 1]
  /\ connLock' = Null
  /\ Goto(t, "lockPend")
  /\ UNCHANGED <<alloc, ConnHead, conn, inuseCnt, lock>>

\* _useIFuseConn.  When c->conn has become NULL since the caller looked, it
\* returns with ConnLock held, and no caller looks at what it returns.
UseBody(t) ==
  /\ pc[t] = "useBody"
  /\ IF cn[t] \in conn
       THEN Pend(t, cn[t])
       ELSE Goto(t, "rpc") /\ UNCHANGED <<connLock, connVars>>
  /\ UNCHANGED <<descLock, descVars, waitVars, thrVars, mgrVars, broken>>

\* Fault: the lock is taken for granted.
LockPendNoWait(t) ==
  /\ pc[t] = "lockPend"
  /\ lock' = [lock EXCEPT ![cn[t]] = t]
  /\ Goto(t, "pendIn")
  /\ UNCHANGED <<connLock, descLock, alloc, ConnHead, conn, status, inuseCnt,
                 pendingCnt, descVars, waitVars, thrVars, mgrVars, broken>>

LockPend(t) ==
  /\ pc[t] = "lockPend" /\ lock[cn[t]] = Null
  /\ lock' = [lock EXCEPT ![cn[t]] = t]
  /\ Goto(t, "pendIn")
  /\ UNCHANGED <<connLock, descLock, alloc, ConnHead, conn, status, inuseCnt,
                 pendingCnt, descVars, waitVars, thrVars, mgrVars, broken>>

\* Fault: pendingCnt-- is forgotten.
PendInLeaks(t) ==
  /\ pc[t] = "pendIn" /\ connLock = Null
  /\ inuseCnt' = [inuseCnt EXCEPT ![cn[t]] = @ + 1]
  /\ Goto(t, "rpc")
  /\ UNCHANGED <<connLock, descLock, alloc, ConnHead, conn, status, pendingCnt,
                 lock, descVars, waitVars, thrVars, mgrVars, broken>>

PendIn(t) ==
  /\ pc[t] = "pendIn" /\ connLock = Null
  /\ inuseCnt' = [inuseCnt EXCEPT ![cn[t]] = @ + 1]
  /\ pendingCnt' = [pendingCnt EXCEPT ![cn[t]] = @ - 1]
  /\ Goto(t, "rpc")
  /\ UNCHANGED <<connLock, descLock, alloc, ConnHead, conn, status, lock,
                 descVars, waitVars, thrVars, mgrVars, broken>>

-------------------------------------------------------------------------------
(***************************************************************************)
(* getIFuseConn.                                                           *)
(***************************************************************************)
GetConnLock(t) ==
  /\ pc[t] = "get" /\ connLock = Null
  /\ connLock' = t
  /\ Goto(t, "scan")
  /\ UNCHANGED <<descLock, connVars, descVars, waitVars, thrVars, mgrVars,
                 broken>>

FreeConns == {c \in ConnHead : status[c] = "FREE" /\ c \in conn}
IdleConns == {c \in ConnHead : inuseCnt[c] = 0 /\ pendingCnt[c] = 0
                                        /\ c \in conn}

\* A free connection, with useFreeIFuseConn.
ScanFree(t) ==
  /\ pc[t] = "scan"
  /\ \E c \in FreeConns :
       /\ status' = [status EXCEPT ![c] = "INUSE"]
       /\ inuseCnt' = [inuseCnt EXCEPT ![c] = @ + 1]
       /\ Holds(t, c)
  /\ connLock' = Null
  /\ Goto(t, "lockFree")
  /\ UNCHANGED <<descLock, alloc, ConnHead, conn, pendingCnt, lock, descVars,
                 waitVars, op, fd, arg, ops, mgrVars, broken>>

LockFree(t) ==
  /\ pc[t] = "lockFree" /\ lock[cn[t]] = Null
  /\ lock' = [lock EXCEPT ![cn[t]] = t]
  /\ Goto(t, "rpc")
  /\ UNCHANGED <<connLock, descLock, alloc, ConnHead, conn, status, inuseCnt,
                 pendingCnt, descVars, waitVars, thrVars, mgrVars, broken>>

\* None is free and there are enough: "find one that is not in use".
ScanIdle(t) ==
  /\ pc[t] = "scan" /\ FreeConns = {}
  /\ NumConn >= MAX_NUM_CONN
  /\ \E c \in IdleConns : Pend(t, c) /\ Holds(t, c)
  /\ UNCHANGED <<descLock, descVars, waitVars, op, fd, arg, ops, mgrVars, broken>>

\* "have to wait": the thread queues and gives up ConnLock ...
ScanWait(t) ==
  /\ pc[t] = "scan" /\ FreeConns = {}
  /\ NumConn >= MAX_NUM_CONN
  /\ IdleConns = {}
  /\ ConnReqWaitQue' = Append(ConnReqWaitQue, t)
  /\ state' = state \ {t}
  /\ signalled' = signalled \ {t}
  /\ connLock' = Null
  /\ Goto(t, "enterWait")
  /\ UNCHANGED <<descLock, connVars, descVars, thrVars, mgrVars, broken>>

\* ... and only then takes its own mutex and waits, without another look at
\* state: a signal that was sent in between is lost.
EnterWait(t) ==
  /\ pc[t] = "enterWait"
  /\ Goto(t, "wait")
  /\ UNCHANGED <<connLock, descLock, connVars, descVars, waitVars, thrVars, mgrVars,
                 broken>>

\* Fault: the number of connections is not looked at.
ScanMakeAlways(t) ==
  /\ pc[t] = "scan" /\ FreeConns = {}
  /\ connLock' = Null
  /\ Goto(t, "connect")
  /\ UNCHANGED <<descLock, connVars, descVars, waitVars, thrVars, mgrVars, broken>>

\* "get here when nothing free. make one", outside ConnLock.
ScanMake(t) ==
  /\ pc[t] = "scan" /\ FreeConns = {}
  /\ NumConn < MAX_NUM_CONN
  /\ connLock' = Null
  /\ Goto(t, "connect")
  /\ UNCHANGED <<descLock, connVars, descVars, waitVars, thrVars, mgrVars, broken>>

\* The timed wait ends with state = 1: "start from begining".  It ends by the
\* signal, or after CONN_REQ_SLEEP_TIME if the signal came before the wait.
WaitReturn(t) ==
  /\ pc[t] = "wait" /\ t \in state
  /\ t \in signalled \/ WaitTimeouts \/ ~(mpc = "signal" /\ mwaiter = t)
  /\ Goto(t, "get")
  /\ UNCHANGED <<connLock, descLock, connVars, descVars, waitVars, thrVars,
                 mgrVars, broken>>

\* The timed wait ends with state = 0: the loop body runs again and unlocks
\* ConnLock, which this thread gave up before it first waited.
WaitAgain(t) ==
  /\ WaitTimeouts
  /\ pc[t] = "wait" /\ t \notin state
  /\ connLock' = Null
  /\ Goto(t, "enterWait")
  /\ UNCHANGED <<descLock, connVars, descVars, waitVars, thrVars, mgrVars, broken>>

\* malloc, bzero and ifuseConnect.
Connect(t) ==
  /\ pc[t] = "connect"
  /\ \E c \in Conns \ alloc :
       /\ alloc' = alloc \cup {c}
       /\ conn' = conn \cup {c}
       /\ status' = [status EXCEPT ![c] = "FREE"]
       /\ inuseCnt' = [inuseCnt EXCEPT ![c] = 0]
       /\ pendingCnt' = [pendingCnt EXCEPT ![c] = 0]
       /\ lock' = [lock EXCEPT ![c] = Null]
       /\ Holds(t, c)
  /\ Goto(t, "push")
  /\ UNCHANGED <<connLock, descLock, ConnHead, descVars, waitVars, op, fd, arg,
                 ops, mgrVars, broken>>

\* rcConnect fails twice, or clientLogin fails: the caller is left with a
\* NULL connection, which every handler follows except irodsGetattr of a
\* path whose attributes are cached.
ConnectFail(t) ==
  /\ NetErrors
  /\ pc[t] = "connect"
  /\ \/ op[t] = "call" /\ Return(t) /\ UNCHANGED broken
     \/ broken' = TRUE /\ UNCHANGED <<pc, thrVars, descVars>>
  /\ UNCHANGED <<connLock, descLock, connVars, waitVars, mgrVars>>

\* Fault: ConnManagerStarted runs past HIGH_NUM_CONN.
PushCountsOn(t) ==
  /\ pc[t] = "push" /\ connLock = Null
  /\ status' = [status EXCEPT ![cn[t]] = "INUSE"]
  /\ inuseCnt' = [inuseCnt EXCEPT ![cn[t]] = @ + 1]
  /\ lock' = [lock EXCEPT ![cn[t]] = t]
  /\ ConnHead' = ConnHead \cup {cn[t]}
  /\ started' = started + 1
  /\ Goto(t, "rpc")
  /\ UNCHANGED <<connLock, descLock, alloc, conn, pendingCnt, descVars, waitVars,
                 thrVars, mpc, mwaiter, freeCnt, broken>>

\* useIFuseConn of the new connection, which nobody else has seen, "queue it
\* on top", and count towards the start of the manager.
Push(t) ==
  /\ pc[t] = "push" /\ connLock = Null
  /\ status' = [status EXCEPT ![cn[t]] = "INUSE"]
  /\ inuseCnt' = [inuseCnt EXCEPT ![cn[t]] = @ + 1]
  /\ lock' = [lock EXCEPT ![cn[t]] = t]
  /\ ConnHead' = ConnHead \cup {cn[t]}
  /\ started' = IF started < HIGH_NUM_CONN THEN started + 1 ELSE started
  /\ Goto(t, "rpc")
  /\ UNCHANGED <<connLock, descLock, alloc, conn, pendingCnt, descVars, waitVars,
                 thrVars, mpc, mwaiter, freeCnt, broken>>

-------------------------------------------------------------------------------
(***************************************************************************)
(* The RPC, the descriptor of an open, and ifuseReconnect.                 *)
(***************************************************************************)
Rpc(t) ==
  /\ pc[t] = "rpc"
  /\ \/ Goto(t, "unuse")
     \/ op[t] = "open" /\ cn[t] \in conn /\ Goto(t, "attach")
  /\ UNCHANGED <<connLock, descLock, connVars, descVars, waitVars, thrVars,
                 mgrVars, broken>>

\* isReadMsgError: ifuseReconnect disconnects, c->conn is NULL.
RpcReadMsgError(t) ==
  /\ NetErrors
  /\ pc[t] = "rpc" /\ op[t] \in {"call", "open"} /\ cn[t] \in conn
  /\ conn' = conn \ {cn[t]}
  /\ Goto(t, "reconnect")
  /\ UNCHANGED <<connLock, descLock, alloc, ConnHead, status, inuseCnt,
                 pendingCnt, lock, descVars, waitVars, thrVars, mgrVars, broken>>

\* ... connects again, or fails to; then the RPC is tried once more.
Reconnect(t) ==
  /\ pc[t] = "reconnect"
  /\ \E ok \in BOOLEAN :
       /\ conn' = IF ok THEN conn \cup {cn[t]} ELSE conn
       /\ \/ UNCHANGED op
          \/ ok /\ op[t] = "open" /\ op' = [op EXCEPT ![t] = "reopen"]
  /\ Goto(t, "unuse")
  /\ UNCHANGED <<connLock, descLock, alloc, ConnHead, status, inuseCnt,
                 pendingCnt, lock, descVars, waitVars, cn, fd, arg, ops, mgrVars,
                 broken>>

FreeDescs == Descs \ desc

\* allocIFuseDesc
Attach(t) ==
  /\ pc[t] = "attach" /\ descLock = Null
  /\ \/ /\ FreeDescs = {}
        /\ Goto(t, "unuse")
        /\ UNCHANGED <<desc, fd>>
     \/ \E d \in FreeDescs :
          /\ desc' = desc \cup {d}
          /\ fd' = [fd EXCEPT ![t] = d]
          /\ Goto(t, "fillConn")
  /\ UNCHANGED <<connLock, descLock, connVars, descConn, descPath, handles,
                 waitVars, op, cn, arg, ops, mgrVars, broken>>

\* fillIFuseDesc, without DescLock: first the connection, then the path.
FillConn(t) ==
  /\ pc[t] = "fillConn"
  /\ descConn' = [descConn EXCEPT ![fd[t]] = cn[t]]
  /\ Goto(t, "fillPath")
  /\ UNCHANGED <<connLock, descLock, connVars, desc, descPath, handles, waitVars,
                 thrVars, mgrVars, broken>>

FillPath(t) ==
  /\ pc[t] = "fillPath"
  /\ descPath' = [descPath EXCEPT ![fd[t]] = arg[t]]
  /\ Goto(t, "unuse")
  /\ UNCHANGED <<connLock, descLock, connVars, desc, descConn, handles, waitVars,
                 thrVars, mgrVars, broken>>

-------------------------------------------------------------------------------
(***************************************************************************)
(* relIFuseConn and freeIFuseDesc.                                         *)
(***************************************************************************)
\* unuseIFuseConn does nothing for a connection that is NULL.
UnuseNull(t) ==
  /\ pc[t] = "unuse" /\ cn[t] \notin conn
  /\ Unused(t)
  /\ UNCHANGED <<connLock, descLock, connVars, waitVars, mgrVars, broken>>

Unuse(t) ==
  /\ pc[t] = "unuse" /\ cn[t] \in conn /\ connLock = Null
  /\ inuseCnt' = [inuseCnt EXCEPT ![cn[t]] = @ - 1]
  /\ Goto(t, "unlock")
  /\ UNCHANGED <<connLock, descLock, alloc, ConnHead, conn, status, pendingCnt,
                 lock, descVars, waitVars, thrVars, mgrVars, broken>>

Unlock(t) ==
  /\ pc[t] = "unlock"
  /\ lock' = [lock EXCEPT ![cn[t]] = Null]
  /\ Unused(t)
  /\ UNCHANGED <<connLock, descLock, alloc, ConnHead, conn, status, inuseCnt,
                 pendingCnt, waitVars, mgrVars, broken>>

\* freeIFuseDesc, which calls _relIFuseConn after it has given up DescLock.
FreeDesc(t) ==
  /\ pc[t] = "freeDesc" /\ descLock = Null
  /\ desc' = desc \ {fd[t]}
  /\ descConn' = [descConn EXCEPT ![fd[t]] = Null]
  /\ descPath' = [descPath EXCEPT ![fd[t]] = Null]
  /\ fd' = [fd EXCEPT ![t] = Null]
  /\ IF cn[t] = Null
       THEN Goto(t, "idle") /\ op' = [op EXCEPT ![t] = "none"]
       ELSE Goto(t, "rel") /\ UNCHANGED op
  /\ UNCHANGED <<connLock, descLock, connVars, handles, waitVars, cn, arg, ops,
                 mgrVars, broken>>

\* _relIFuseConn: nobody uses c, as far as ConnLock can tell ...
Rel(t) ==
  /\ pc[t] = "rel" /\ connLock = Null
  /\ IF cn[t] \notin conn \/ pendingCnt[cn[t]] + inuseCnt[cn[t]] <= 0
       THEN Goto(t, "chkInuse") /\ UNCHANGED <<thrVars, descVars>>
       ELSE Released(t)
  /\ UNCHANGED <<connLock, descLock, connVars, waitVars, mgrVars, broken>>

\* ... ConnLock is given up for iFuseConnInuse, which takes DescLock ...
ChkInuse(t) ==
  /\ pc[t] = "chkInuse" /\ descLock = Null
  /\ IF \E d \in desc : descConn[d] = cn[t]
       THEN Released(t)
       ELSE Goto(t, "setFree") /\ UNCHANGED <<thrVars, descVars>>
  /\ UNCHANGED <<connLock, descLock, connVars, waitVars, mgrVars, broken>>

\* ... and taken again to mark c free, whatever happened to c in between.
SetFree(t) ==
  /\ pc[t] = "setFree" /\ connLock = Null
  /\ status' = [status EXCEPT ![cn[t]] = "FREE"]
  /\ Released(t)
  /\ UNCHANGED <<connLock, descLock, alloc, ConnHead, conn, inuseCnt, pendingCnt,
                 lock, waitVars, mgrVars, broken>>

-------------------------------------------------------------------------------
(***************************************************************************)
(* connManager.  signalConnManager only shortens its timed wait, which can *)
(* end at any moment.                                                      *)
(***************************************************************************)
MgrEnter ==
  /\ mpc = "sleep" /\ started = HIGH_NUM_CONN /\ connLock = Null
  /\ connLock' = Manager
  /\ mpc' = "sweep"
  /\ UNCHANGED <<descLock, connVars, descVars, waitVars, pc, thrVars, mwaiter,
                 freeCnt, started, broken>>

FreeIn(S) == {c \in S : status[c] = "FREE"}

\* The sets of connections of the list S that go because the list is longer
\* than the high water mark: free ones, as many as it takes.
Trims(S) ==
  {T \in SUBSET FreeIn(S) :
     Cardinality(T) = Min({Cardinality(FreeIn(S)),
                           Max({Cardinality(S) - HIGH_NUM_CONN, 0})})}

\* The connections of timedOut and trimmed are disconnected and freed.
\* freeCnt lives as long as the thread and adds up from round to round.
Drop(timedOut, trimmed) ==
  LET gone == timedOut \cup trimmed IN
    /\ ConnHead' = ConnHead \ gone
    /\ alloc' = alloc \ gone
    /\ conn' = conn \ gone
    /\ freeCnt' = Min({FreeCntCap,
                       Max({freeCnt + Cardinality(FreeIn(ConnHead)),
                            MAX_NUM_CONN - Cardinality(ConnHead \ timedOut)})})
    /\ broken' = (\E c \in gone : Referred(c))

\* The free connections that timed out go, then those above the high water
\* mark.
MgrSweep ==
  /\ mpc = "sweep"
  /\ \E timedOut \in SUBSET FreeIn(ConnHead) :
       \E trimmed \in Trims(ConnHead \ timedOut) : Drop(timedOut, trimmed)
  /\ mpc' = "wake"
  /\ UNCHANGED <<connLock, descLock, status, inuseCnt, pendingCnt, lock, descVars,
                 waitVars, pc, thrVars, mwaiter, started>>

\* Fault: the thread is taken from the queue with its state left at 0.
MgrWakeNoState ==
  /\ mpc = "wake" /\ freeCnt > 0 /\ ConnReqWaitQue # <<>>
  /\ mwaiter' = Head(ConnReqWaitQue)
  /\ ConnReqWaitQue' = Tail(ConnReqWaitQue)
  /\ connLock' = Null
  /\ mpc' = "signal"
  /\ UNCHANGED <<descLock, connVars, descVars, state, signalled, pc, thrVars, freeCnt,
                 started, broken>>

MgrWake ==
  /\ mpc = "wake" /\ freeCnt > 0 /\ ConnReqWaitQue # <<>>
  /\ mwaiter' = Head(ConnReqWaitQue)
  /\ state' = state \cup {Head(ConnReqWaitQue)}
  /\ ConnReqWaitQue' = Tail(ConnReqWaitQue)
  /\ connLock' = Null
  /\ mpc' = "signal"
  /\ UNCHANGED <<descLock, connVars, descVars, signalled, pc, thrVars, freeCnt,
                 started, broken>>

\* The mutex and the condition variable are on the stack of the waiter, and a
\* signal reaches it only in its wait.
MgrSignal ==
  /\ mpc = "signal"
  /\ signalled' = IF pc[mwaiter] = "wait" THEN signalled \cup {mwaiter} ELSE signalled
  /\ broken' = (pc[mwaiter] \notin {"enterWait", "wait"})
  /\ mpc' = "relock"
  /\ UNCHANGED <<connLock, descLock, connVars, descVars, ConnReqWaitQue, state,
                 pc, thrVars, mwaiter, freeCnt, started>>

MgrRelock ==
  /\ mpc = "relock" /\ connLock = Null
  /\ connLock' = Manager
  /\ freeCnt' = freeCnt - 1
  /\ mwaiter' = Null
  /\ mpc' = "wake"
  /\ UNCHANGED <<descLock, connVars, descVars, waitVars, pc, thrVars, started,
                 broken>>

MgrSleep ==
  /\ mpc = "wake" /\ ~(freeCnt > 0 /\ ConnReqWaitQue # <<>>)
  /\ connLock' = Null
  /\ mpc' = "sleep"
  /\ UNCHANGED <<descLock, connVars, descVars, waitVars, pc, thrVars, mwaiter,
                 freeCnt, started, broken>>

-------------------------------------------------------------------------------
\* A call in progress takes its next step.
Step(t) ==
  \/ ByPathMatch(t) \/ ByPathNone(t) \/ ByPathConn(t)
  \/ UseEnterNull(t) \/ UseEnter(t) \/ UseBody(t) \/ LockPend(t) \/ PendIn(t)
  \/ GetConnLock(t) \/ ScanFree(t) \/ LockFree(t) \/ ScanIdle(t)
  \/ ScanWait(t) \/ EnterWait(t) \/ WaitReturn(t) \/ WaitAgain(t) \/ ScanMake(t)
  \/ Connect(t) \/ ConnectFail(t) \/ Push(t)
  \/ Rpc(t) \/ RpcReadMsgError(t) \/ Reconnect(t)
  \/ Attach(t) \/ FillConn(t) \/ FillPath(t)
  \/ UnuseNull(t) \/ Unuse(t) \/ Unlock(t) \/ FreeDesc(t)
  \/ Rel(t) \/ ChkInuse(t) \/ SetFree(t)

Start(t) ==
  \/ StartCall(t)
  \/ \E p \in Paths : StartOpen(t, p)
  \/ \E d \in Descs : StartIo(t, d) \/ StartRelease(t, d)

MgrStep == MgrEnter \/ MgrSweep \/ MgrWake \/ MgrSignal \/ MgrRelock \/ MgrSleep

Next ==
  \/ /\ ~broken
     /\ \/ \E t \in Threads : Start(t) \/ Step(t)
        \/ MgrStep
  \/ broken /\ UNCHANGED vars

Spec == Init /\ [][Next]_vars

(***************************************************************************)
(* A thread in a call and the manager keep running, and a lock that is     *)
(* free again and again is obtained in the end; nobody has to start a      *)
(* call, in particular nobody has to release a file.                       *)
(***************************************************************************)
FairSpec ==
  /\ Spec
  /\ \A t \in Threads : SF_vars(~broken /\ Step(t))
  /\ WF_vars(~broken /\ MgrStep)

-------------------------------------------------------------------------------
(***************************************************************************)
(* Properties.                                                             *)
(***************************************************************************)
\* Where a thread owns the mutex of its connection, is counted in its
\* inuseCnt, and is counted in its pendingCnt.
MutexPCs == {"pendIn", "rpc", "reconnect", "attach", "fillConn", "fillPath",
             "unuse", "unlock"}
InusePCs == {"lockFree", "rpc", "reconnect", "attach", "fillConn", "fillPath",
             "unuse"}
PendPCs  == {"lockPend", "pendIn"}

At(c, S) == {t \in Threads : cn[t] = c /\ pc[t] \in S}

\* Two threads never run RPCs on the same server connection at the same
\* time: _useIFuseConn and useFreeIFuseConn return with the mutex of the
\* connection held, whichever way the thread came by it.
RpcExclusive ==
  ~broken => \A t, u \in Threads :
               pc[t] = "rpc" /\ pc[u] = "rpc" /\ cn[t] = cn[u] => t = u

\* inuseCnt and pendingCnt of a listed connection are the number of threads
\* that use it and that wait for its mutex: the counts that _relIFuseConn and
\* getIFuseConn take for the truth are neither lost nor counted twice.
CountsExact ==
  ~broken => \A c \in ConnHead :
               /\ inuseCnt[c] = Cardinality(At(c, InusePCs))
               /\ pendingCnt[c] = Cardinality(At(c, PendPCs))

\* getIFuseConn makes connections outside ConnLock, so MAX_NUM_CONN is not
\* the limit; one less, plus a connection for each thread, is.
ConnBound == NumConn <= MAX_NUM_CONN - 1 + Cardinality(Threads)

\* A connection marked IRODS_FREE "can be disconnected" (connManager): no
\* thread has it and no descriptor is open on it.
FreeIsIdle ==
  \A c \in ConnHead : status[c] = "FREE" => ~Referred(c)

\* _useIFuseConn and the scan of getIFuseConn run with ConnLock held by the
\* thread that runs them ("lock ConnLock before calling").
ConnLockHeld ==
  ~broken => /\ \A t \in Threads : pc[t] \in {"scan", "useBody"} => connLock = t
             /\ mpc \in {"sweep", "wake"} => connLock = Manager

\* Every call that FUSE starts returns, unless it waits for a connection
\* while open files pin all of them, or the process has broken: ConnLock,
\* DescLock and the mutexes of connections do not deadlock, and a thread that
\* getIFuseConn has queued goes on although the manager's signal can be lost
\* and its own timeouts unlock ConnLock under other threads.
Pinned == NumConn >= MAX_NUM_CONN
            /\ \A c \in ConnHead : \E d \in Descs : descConn[d] = c
EveryCallReturns ==
  \A t \in Threads :
    pc[t] # "idle" ~> (pc[t] = "idle" \/ broken \/ (pc[t] \in {"enterWait", "wait"} /\ Pinned))

-------------------------------------------------------------------------------
(***************************************************************************)
(* The inductive invariant behind RpcExclusive, when there are no network  *)
(* errors.                                                                 *)
(***************************************************************************)
\* Every pointer to a connection points to memory that is allocated, and
\* every allocated connection is connected.
LiveInv ==
  /\ ConnHead \subseteq alloc
  /\ alloc \subseteq conn
  /\ \A t \in Threads : cn[t] # Null => cn[t] \in alloc
  /\ \A d \in Descs : descConn[d] # Null => descConn[d] \in alloc

\* A connection that is not in the list yet is known to its maker only.
PrivateInv ==
  \A t \in Threads :
    pc[t] = "push" => /\ cn[t] \notin ConnHead
                      /\ \A u \in Threads : cn[u] = cn[t] => u = t
                      /\ \A d \in Descs : descConn[d] # cn[t]

\* A thread between lock and unlock of its connection owns the mutex.
MutexInv == \A t \in Threads : pc[t] \in MutexPCs => lock[cn[t]] = t

NoErrorInv == \A t \in Threads : pc[t] # "reconnect" /\ op[t] # "reopen"

PoolInv == NoErrorInv /\ (~broken => LiveInv /\ PrivateInv /\ MutexInv)

===============================================================================
