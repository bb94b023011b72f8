------------------------------ MODULE Reconnect ------------------------------
(***************************************************************************)
(* The renewal of the socket between an iRODS client and its agent.  A     *)
(* connection opened with RECONN_TIMEOUT, as the transfers of Preload and  *)
(* of LazyUpload open theirs, gets a second thread on each side: the       *)
(* client's manager (cliReconnManager, lib/core/src/rcConnect.c) connects  *)
(* anew every RECONN_TIMEOUT_TIME seconds, the agent's (reconnManager,     *)
(* server/core/src/miscServerFunct.c) accepts, the two tell each other     *)
(* whether their side is sending or receiving, and each side moves to the  *)
(* new socket when it safely can.  The threads that use the connection go  *)
(* on calling: sendApiRequest and readAndProcApiReply on the client        *)
(* (lib/core/src/procApiRequest.c), readAndProcClientMsg and sendApiReply  *)
(* on the agent (server/core/src/rsApiHandler.c).                          *)
(*                                                                         *)
(* The build is the default one, with pthreads.  The agent's critical      *)
(* sections do not block, so each is one step; the client's manager keeps  *)
(* the lock while it connects and reads, so that lock is a variable.       *)
(***************************************************************************)
EXTENDS Naturals, Sequences

CONSTANTS
    MaxSocks,    \* sockets made in a session, the first one included
    MaxCalls,    \* API calls of the client
    MaxFaults    \* failures of the network and of the agent's manager

ASSUME BoundsAssumption ==
    MaxSocks \in Nat \ {0} /\ MaxCalls \in Nat /\ MaxFaults \in Nat

Socks == 1 .. MaxSocks
Ends == {"cli", "svr"}
Peer(end) == IF end = "cli" THEN "svr" ELSE "cli"

\* procState_t
ProcStates == {"PROCESSING", "RECEIVING", "SENDING"}

NoSock == 0

\* Messages: n is the number of the call in a request and in its reply, state
\* the procState of a RECONNECT message.
Msg(type, n, state) == [type |-> type, n |-> n, state |-> state]
ApiReq(n) == Msg("API_REQ", n, "PROCESSING")
ApiReply(n) == Msg("API_REPLY", n, "PROCESSING")
Disconn == Msg("DISCONNECT", 0, "PROCESSING")
Reconn(state) == Msg("RECONNECT", 0, state)
Msgs == [type : {"API_REQ", "API_REPLY", "DISCONNECT", "RECONNECT"},
         n : 0 .. MaxCalls, state : ProcStates]

VARIABLES
    conn,       \* rcComm_t: sock, reconnectedSock, the two states, reconnThrState
    locked,     \* conn->lock is held by the client's manager
    comm,       \* rsComm_t: the same fields, state being agentState
    net,        \* the sockets: what is on its way to each end, who has it open
    listenQ,    \* connections not accepted yet, in order
    reconnSock, \* the agent listens for them
    newSock,    \* local variable of reconnManager
    made,       \* how many sockets were made
    inMsg,      \* the message readAndProcClientMsg has read
    call,       \* the number of the client's last call
    result,     \* what that call returned
    replied,    \* the number in the reply it returned
    unread,     \* history: a call has returned without reading its reply
    faults,     \* failures so far
    pc          \* where each of the four threads is

vars == <<conn, locked, comm, net, listenQ, reconnSock, newSock, made, inMsg,
          call, result, replied, unread, faults, pc>>

client == <<conn, locked, call, result, replied, unread>>
agent == <<comm, inMsg, newSock, reconnSock>>

Labels == [api : {"idle", "sendStart", "sendWait", "sendWoken", "sending",
                  "resend", "readStart", "reading", "reread", "rereading", "readEnd",
                  "readWait", "readWoken", "closed"},
           cliMgr : {"sleep", "wait", "woken", "connect", "read", "gone",
                     "cancelled"},
           agent : {"readStart", "reading", "reread", "rereading", "readEnd",
                    "handle", "sending", "resend", "sendEnd", "gone"},
           svrMgr : {"select", "recv", "wait", "woken", "gone"}]

CommType == [sock : Socks, reconnectedSock : Socks \cup {NoSock},
             state : ProcStates, peerState : ProcStates,
             thrState : {"PROCESSING", "CONN_WAIT"}]

\* The types of the variables, and a lock that only the manager in its
\* handshake holds (pthread_mutex_lock of conn->lock in cliReconnManager).
TypeOK ==
    /\ conn \in CommType /\ comm \in CommType
    /\ locked \in BOOLEAN /\ reconnSock \in BOOLEAN
    /\ DOMAIN net = Socks
    /\ \A s \in Socks : /\ net[s].ends \subseteq Ends
                        /\ net[s].up \in BOOLEAN
                        /\ \A e \in Ends : net[s].to[e] \in Seq(Msgs)
    /\ listenQ \in Seq(Socks)
    /\ newSock \in Socks \cup {NoSock}
    /\ made \in Socks
    /\ inMsg \in Msgs
    /\ call \in 0 .. MaxCalls /\ replied \in 0 .. MaxCalls /\ unread \in BOOLEAN
    /\ result \in {"none", "ok", "error", "input"}
    /\ faults \in 0 .. MaxFaults
    /\ pc \in Labels
    /\ locked => pc.cliMgr \in {"connect", "read", "gone", "cancelled"}

(***************************************************************************)
(* The network (external): TCP sockets.  A message sent to an end that has *)
(* closed the socket, or over a broken one, is lost and the sender may or  *)
(* may not be told.  A read waits for a message and fails when none is     *)
(* left and none can come.                                                 *)
(***************************************************************************)
Carries(N, s) == N[s].up /\ N[s].ends = Ends

Put(N, s, end, m) ==
    IF Carries(N, s)
    THEN [N EXCEPT ![s].to[Peer(end)] = Append(@, m)]
    ELSE N

SendStatuses(N, s, end) ==
    CASE Carries(N, s) -> {TRUE}
      [] end \notin N[s].ends -> {FALSE}
      [] OTHER -> BOOLEAN

Take(N, s, end) == [N EXCEPT ![s].to[end] = Tail(@)]
Close(N, s, end) == [N EXCEPT ![s].ends = @ \ {end}]

HasMsg(s, end) == net[s].to[end] # <<>>
ReadFails(s, end) == net[s].to[end] = <<>> /\ ~Carries(net, s)

Fault == faults < MaxFaults /\ faults' = faults + 1

(***************************************************************************)
(* Init: the session is established on socket 1; the agent's manager waits *)
(* in select and the client's manager sleeps until reconnTime.             *)
(***************************************************************************)
InitComm == [sock |-> 1, reconnectedSock |-> NoSock, state |-> "PROCESSING",
             peerState |-> "PROCESSING", thrState |-> "PROCESSING"]

Init ==
    /\ conn = InitComm
    /\ comm = InitComm
    /\ locked = FALSE
    /\ net = [s \in Socks |-> [to |-> [e \in Ends |-> <<>>],
                               ends |-> IF s = 1 THEN Ends ELSE {},
                               up |-> s = 1]]
    /\ listenQ = <<>>
    /\ reconnSock = TRUE
    /\ newSock = NoSock
    /\ made = 1
    /\ inMsg = Disconn
    /\ call = 0 /\ result = "none" /\ replied = 0 /\ unread = FALSE
    /\ faults = 0
    /\ pc = [api |-> "idle", cliMgr |-> "sleep",
             agent |-> "readStart", svrMgr |-> "select"]

(***************************************************************************)
(* cliSwitchConnect and svrSwitchConnect: move to the new socket, if there *)
(* is one.  A peer known to be receiving on the old socket is told first.  *)
(***************************************************************************)
Switches(C) == C.reconnectedSock # NoSock

\* Fault: the test for a new socket is missing.
switchConnectBlind(C) ==
    [C EXCEPT !.sock = C.reconnectedSock, !.reconnectedSock = NoSock]

\* Fault: the new socket is still taken for a new one after the move.
switchConnectKeeps(C) ==
    IF Switches(C)
    THEN [C EXCEPT !.sock = C.reconnectedSock,
                   !.peerState = IF @ = "RECEIVING" THEN "PROCESSING" ELSE @]
    ELSE C

switchConnect(C) ==
    IF Switches(C)
    THEN [C EXCEPT !.sock = C.reconnectedSock,
                   !.reconnectedSock = NoSock,
                   !.peerState = IF @ = "RECEIVING" THEN "PROCESSING" ELSE @]
    ELSE C

\* Fault: the peer that reads on the old socket is not told.
switchNetUntold(N, C, end) ==
    IF Switches(C) THEN Close(N, C.sock, end) ELSE N

switchNet(N, C, end) ==
    IF Switches(C)
    THEN Close(IF C.peerState = "RECEIVING"
               THEN Put(N, C.sock, end, Reconn("PROCESSING")) ELSE N,
               C.sock, end)
    ELSE N

(***************************************************************************)
(* The client's API thread                                                 *)
(***************************************************************************)
\* pthread_cond_signal of conn->cond, sent by the API thread to the manager
\* and by the manager to the API thread: at most one of them waits.
SignalMgr(p) == IF p.cliMgr = "wait" THEN [p EXCEPT !.cliMgr = "woken"] ELSE p

SignalApi(p) ==
    CASE p.api = "sendWait" -> [p EXCEPT !.api = "sendWoken"]
      [] p.api = "readWait" -> [p EXCEPT !.api = "readWoken"]
      [] OTHER -> p

\* A client that met an error does not call again.
procApiRequest ==
    /\ pc.api = "idle"
    /\ result # "error"
    /\ call < MaxCalls
    /\ call' = call + 1
    /\ result' = "none"
    /\ pc' = [pc EXCEPT !.api = "sendStart"]
    /\ UNCHANGED <<conn, locked, replied, unread, agent, net, listenQ, made, faults>>

\* sendApiRequest: cliChkReconnAtSendStart.  A manager that waits for the end
\* of an earlier call is let go first, and waited for.
cliChkReconnAtSendStart ==
    /\ pc.api = "sendStart" /\ ~locked
    /\ IF conn.thrState = "CONN_WAIT"
       THEN /\ conn' = [conn EXCEPT !.state = "PROCESSING"]
            /\ pc' = [SignalMgr(pc) EXCEPT !.api = "sendWait"]
       ELSE /\ conn' = [conn EXCEPT !.state = "SENDING"]
            /\ pc' = [pc EXCEPT !.api = "sending"]
    /\ UNCHANGED <<locked, call, result, replied, unread, agent, net, listenQ, made, faults>>

SendStartWoken ==
    /\ pc.api = "sendWoken" /\ ~locked
    /\ conn' = [conn EXCEPT !.state = "SENDING"]
    /\ pc' = [pc EXCEPT !.api = "sending"]
    /\ UNCHANGED <<locked, call, result, replied, unread, agent, net, listenQ, made, faults>>

\* The input cannot be packed: cliChkReconnAtSendEnd, and the call returns.
cliChkReconnAtSendEnd ==
    /\ pc.api = "sending" /\ ~locked
    /\ conn' = [conn EXCEPT !.state = "PROCESSING"]
    /\ result' = "input"
    /\ pc' = [IF conn.thrState = "CONN_WAIT" THEN SignalMgr(pc) ELSE pc
                 EXCEPT !.api = "idle"]
    /\ UNCHANGED <<locked, call, replied, unread, agent, net, listenQ, made, faults>>

\* sendRodsMsg of the request; a failure is tried again on a new socket.
sendApiRequest ==
    /\ pc.api = "sending"
    /\ \E ok \in SendStatuses(net, conn.sock, "cli") :
          /\ net' = Put(net, conn.sock, "cli", ApiReq(call))
          /\ pc' = [pc EXCEPT !.api = IF ok THEN "readStart" ELSE "resend"]
    /\ UNCHANGED <<client, agent, listenQ, made, faults>>

resendApiRequest ==
    /\ pc.api = "resend" /\ ~locked
    /\ LET C == switchConnect(conn)
           N == switchNet(net, conn, "cli")
       IN  /\ conn' = C
           /\ \E ok \in IF Switches(conn) THEN SendStatuses(N, C.sock, "cli")
                                          ELSE {FALSE} :
                 /\ net' = IF Switches(conn) THEN Put(N, C.sock, "cli", ApiReq(call))
                                             ELSE N
                 /\ result' = IF ok THEN result ELSE "error"
                 /\ pc' = [pc EXCEPT !.api = IF ok THEN "readStart" ELSE "idle"]
    /\ UNCHANGED <<locked, call, replied, unread, agent, listenQ, made, faults>>

\* readAndProcApiReply: cliChkReconnAtReadStart
cliChkReconnAtReadStart ==
    /\ pc.api = "readStart" /\ ~locked
    /\ conn' = [conn EXCEPT !.state = "RECEIVING"]
    /\ pc' = [pc EXCEPT !.api = "reading"]
    /\ UNCHANGED <<locked, call, result, replied, unread, agent, net, listenQ, made, faults>>

\* There is no place for the output: the call returns, and the reply to the request
\* that was sent is left for whoever reads next.
readApiReplyRejected ==
    /\ pc.api = "reading"
    /\ result' = "input"
    /\ unread' = TRUE
    /\ pc' = [pc EXCEPT !.api = "readEnd"]
    /\ UNCHANGED <<conn, locked, call, replied, agent, net, listenQ, made, faults>>

\* readMsgHeader and readMsgBody.  Only an API_REPLY is processed: any other
\* message leaves the call with a good status and no reply.
readApiReply ==
    /\ pc.api \in {"reading", "rereading"}
    /\ HasMsg(conn.sock, "cli")
    /\ LET m == Head(net[conn.sock].to["cli"])
       IN  replied' = IF m.type = "API_REPLY" THEN m.n ELSE 0
    /\ result' = "ok"
    /\ net' = Take(net, conn.sock, "cli")
    /\ pc' = [pc EXCEPT !.api = "readEnd"]
    /\ UNCHANGED <<conn, locked, call, unread, agent, listenQ, made, faults>>

\* A header that cannot be read is tried once more; a socket that breaks between
\* the header and the body ends the call.
readApiReplyFails ==
    /\ ReadFails(conn.sock, "cli")
    /\ \/ /\ pc.api = "reading"
          /\ pc' = [pc EXCEPT !.api = "reread"]
          /\ UNCHANGED result
       \/ /\ \/ pc.api = "rereading"
             \/ pc.api = "reading" /\ ~net[conn.sock].up
          /\ result' = "error"
          /\ pc' = [pc EXCEPT !.api = "readEnd"]
    /\ UNCHANGED <<conn, locked, call, replied, unread, agent, net, listenQ, made, faults>>

rereadApiReply ==
    /\ pc.api = "reread" /\ ~locked
    /\ conn' = switchConnect(conn)
    /\ net' = switchNet(net, conn, "cli")
    /\ pc' = [pc EXCEPT !.api = "rereading"]
    /\ UNCHANGED <<locked, call, result, replied, unread, agent, listenQ, made, faults>>

\* cliChkReconnAtReadEnd: lets a waiting manager go and waits for it to end.
cliChkReconnAtReadEnd ==
    /\ pc.api = "readEnd" /\ ~locked
    /\ conn' = [conn EXCEPT !.state = "PROCESSING"]
    /\ pc' = IF conn.thrState = "CONN_WAIT"
             THEN [SignalMgr(pc) EXCEPT !.api = "readWait"]
             ELSE [pc EXCEPT !.api = "idle"]
    /\ UNCHANGED <<locked, call, result, replied, unread, agent, net, listenQ, made, faults>>

ReadEndWoken ==
    /\ pc.api = "readWoken" /\ ~locked
    /\ pc' = [pc EXCEPT !.api = "idle"]
    /\ UNCHANGED <<client, agent, net, listenQ, made, faults>>

\* rcDisconnect, which takes no lock: the manager is cancelled where it sleeps,
\* waits or reads, and a socket it was about to switch to stays open.
rcDisconnect ==
    /\ pc.api = "idle"
    /\ pc.cliMgr \in {"sleep", "wait", "read", "gone"}
    /\ net' = Close(Put(net, conn.sock, "cli", Disconn), conn.sock, "cli")
    /\ pc' = [pc EXCEPT !.api = "closed", !.cliMgr = "cancelled"]
    /\ UNCHANGED <<client, agent, listenQ, made, faults>>

(***************************************************************************)
(* The client's manager                                                    *)
(***************************************************************************)
\* Fault: the manager does not look at what the API thread does.
cliMgrTurnAtOnce ==
    /\ conn' = [conn EXCEPT !.thrState = "PROCESSING"]
    /\ pc' = [pc EXCEPT !.cliMgr = "connect"]
    /\ locked' = TRUE

\* reconnTime has come: wait until the API thread neither sends nor receives,
\* then keep the lock.
cliMgrTurn ==
    IF conn.state # "PROCESSING"
    THEN /\ conn' = [conn EXCEPT !.thrState = "CONN_WAIT"]
         /\ pc' = [pc EXCEPT !.cliMgr = "wait"]
         /\ UNCHANGED locked
    ELSE /\ conn' = [conn EXCEPT !.thrState = "PROCESSING"]
         /\ pc' = [pc EXCEPT !.cliMgr = "connect"]
         /\ locked' = TRUE

cliReconnManager ==
    /\ \/ pc.cliMgr = "sleep" /\ made < MaxSocks
       \/ pc.cliMgr = "woken"
    /\ ~locked
    /\ cliMgrTurn
    /\ UNCHANGED <<call, result, replied, unread, agent, net, listenQ, made, faults>>


\* The attempt is given up: signal, unlock, and sleep before the next one.
cliMgrGivesUp(p) == [SignalApi(p) EXCEPT !.cliMgr = "sleep"]

\* gethostbyname fails: the manager returns, with the lock.
cliMgrNoHost ==
    /\ pc.cliMgr = "connect"
    /\ Fault
    /\ pc' = [pc EXCEPT !.cliMgr = "gone"]
    /\ UNCHANGED <<client, agent, net, listenQ, made>>

\* connectToRhostWithRaddr and sendReconnMsg of clientState.
cliMgrConnect ==
    /\ pc.cliMgr = "connect"
    /\ made < MaxSocks
    /\ reconnSock
    /\ made' = made + 1
    /\ net' = [net EXCEPT ![made + 1] =
                 [to |-> [e \in Ends |-> IF e = "svr" THEN <<Reconn(conn.state)>> ELSE <<>>],
                  ends |-> Ends, up |-> TRUE]]
    /\ listenQ' = Append(listenQ, made + 1)
    /\ conn' = [conn EXCEPT !.reconnectedSock = made + 1]
    /\ pc' = [pc EXCEPT !.cliMgr = "read"]
    /\ UNCHANGED <<locked, call, result, replied, unread, agent, faults>>

\* The connection is refused, or fails before the message is sent.
cliMgrConnectFails ==
    /\ pc.cliMgr = "connect"
    /\ IF reconnSock THEN Fault ELSE UNCHANGED faults
    /\ locked' = FALSE
    /\ conn' = [conn EXCEPT !.reconnectedSock = NoSock]
    /\ pc' = cliMgrGivesUp(pc)
    /\ UNCHANGED <<call, result, replied, unread, agent, net, listenQ, made>>

\* readReconMsg of the agent's state, then cliSwitchConnect.
cliMgrRead ==
    /\ pc.cliMgr = "read"
    /\ HasMsg(conn.reconnectedSock, "cli")
    /\ LET s == conn.reconnectedSock
           C == [conn EXCEPT !.peerState = Head(net[s].to["cli"]).state]
           N == Take(net, s, "cli")
       IN  IF C.state = "PROCESSING"
           THEN conn' = switchConnect(C) /\ net' = switchNet(N, C, "cli")
           ELSE conn' = C /\ net' = N
    /\ locked' = FALSE
    /\ pc' = [SignalApi(pc) EXCEPT !.cliMgr = "sleep"]
    /\ UNCHANGED <<call, result, replied, unread, agent, listenQ, made, faults>>

cliMgrReadFails ==
    /\ pc.cliMgr = "read"
    /\ ReadFails(conn.reconnectedSock, "cli")
    /\ net' = Close(net, conn.reconnectedSock, "cli")
    /\ conn' = [conn EXCEPT !.reconnectedSock = NoSock]
    /\ locked' = FALSE
    /\ pc' = cliMgrGivesUp(pc)
    /\ UNCHANGED <<call, result, replied, unread, agent, listenQ, made, faults>>

\* A condition wait may end without a signal; only the manager tests again.
SpuriousWakeup ==
    /\ \/ pc.cliMgr = "wait" /\ pc' = SignalMgr(pc)
       \/ pc.api \in {"sendWait", "readWait"} /\ pc' = SignalApi(pc)
       \/ pc.svrMgr = "wait" /\ pc' = [pc EXCEPT !.svrMgr = "woken"]
    /\ UNCHANGED <<client, agent, net, listenQ, made, faults>>

(***************************************************************************)
(* The agent's API thread                                                  *)
(***************************************************************************)
SignalSvrMgr(p) ==
    IF comm.thrState = "CONN_WAIT" /\ p.svrMgr = "wait"
    THEN [p EXCEPT !.svrMgr = "woken"] ELSE p

\* The start of a read or of a send: let a waiting manager go, take the new
\* socket if there is one, and enter the state.
svrChkReconnAtStart(state, label) ==
    /\ pc' = [IF reconnSock THEN SignalSvrMgr(pc) ELSE pc EXCEPT !.agent = label]
    /\ IF reconnSock
       THEN /\ comm' = [switchConnect(comm) EXCEPT !.state = state]
            /\ net' = switchNet(net, comm, "svr")
       ELSE UNCHANGED <<comm, net>>

svrChkReconnAtEnd(label) ==
    /\ pc' = [IF reconnSock THEN SignalSvrMgr(pc) ELSE pc EXCEPT !.agent = label]
    /\ comm' = IF reconnSock THEN [comm EXCEPT !.state = "PROCESSING"] ELSE comm

\* readAndProcClientMsg: svrChkReconnAtReadStart
agentReadStart ==
    /\ pc.agent = "readStart"
    /\ svrChkReconnAtStart("RECEIVING", "reading")
    /\ UNCHANGED <<client, inMsg, newSock, reconnSock, listenQ, made, faults>>

agentRead ==
    /\ pc.agent \in {"reading", "rereading"}
    /\ HasMsg(comm.sock, "svr")
    /\ inMsg' = Head(net[comm.sock].to["svr"])
    /\ net' = Take(net, comm.sock, "svr")
    /\ pc' = [pc EXCEPT !.agent = "readEnd"]
    /\ UNCHANGED <<client, comm, newSock, reconnSock, listenQ, made, faults>>

\* The agent process ends: every socket of it is closed, and connections that
\* wait to be accepted are reset.
agentExits ==
    /\ net' = [s \in Socks |-> Close(net, s, "svr")[s]]
    /\ listenQ' = <<>>
    /\ reconnSock' = FALSE
    /\ pc' = [pc EXCEPT !.agent = "gone", !.svrMgr = "gone"]

\* Fault: the read is tried again for ever.
agentReadFailsRetries ==
    /\ pc.agent \in {"reading", "rereading"}
    /\ ReadFails(comm.sock, "svr")
    /\ pc' = [pc EXCEPT !.agent = "reread"]
    /\ UNCHANGED <<client, agent, net, listenQ, made, faults>>

\* A header that cannot be read is tried once more, on the new socket if there is
\* one.  When that fails as well, or the body does, agentMain leaves its loop.
agentReadFails ==
    /\ ReadFails(comm.sock, "svr")
    /\ \/ /\ pc.agent = "reading"
          /\ reconnSock
          /\ pc' = [pc EXCEPT !.agent = "reread"]
          /\ UNCHANGED <<net, listenQ, reconnSock>>
       \/ /\ \/ pc.agent = "rereading"
             \/ pc.agent = "reading" /\ (reconnSock => ~net[comm.sock].up)
          /\ agentExits
    /\ UNCHANGED <<client, comm, inMsg, newSock, made, faults>>

agentReread ==
    /\ pc.agent = "reread"
    /\ comm' = switchConnect(comm)
    /\ net' = switchNet(net, comm, "svr")
    /\ pc' = [pc EXCEPT !.agent = "rereading"]
    /\ UNCHANGED <<client, inMsg, newSock, reconnSock, listenQ, made, faults>>

\* READ_HEADER_TIMEOUT: nothing came for READ_HEADER_TIMEOUT_IN_SEC.  With a
\* client that is still there this is counted as a failure.
agentReadTimeout ==
    /\ pc.agent = "reading"
    /\ ~HasMsg(comm.sock, "svr") /\ ~ReadFails(comm.sock, "svr")
    /\ IF pc.api = "closed" THEN UNCHANGED faults ELSE Fault
    /\ agentExits
    /\ UNCHANGED <<client, comm, inMsg, newSock, made>>

\* svrChkReconnAtReadEnd and the switch on the type of the message: a request
\* is handled, a RECONNECT makes the function call itself.
agentReadEnd ==
    /\ pc.agent = "readEnd"
    /\ inMsg.type # "DISCONNECT"
    /\ svrChkReconnAtEnd(IF inMsg.type = "API_REQ" THEN "handle" ELSE "readStart")
    /\ UNCHANGED <<client, inMsg, newSock, reconnSock, net, listenQ, made, faults>>

agentDisconnected ==
    /\ pc.agent = "readEnd"
    /\ inMsg.type = "DISCONNECT"
    /\ agentExits
    /\ UNCHANGED <<client, comm, inMsg, newSock, made, faults>>

\* The handler has run: sendApiReply, from svrChkReconnAtSendStart ...
agentSendStart ==
    /\ pc.agent = "handle"
    /\ svrChkReconnAtStart("SENDING", "sending")
    /\ UNCHANGED <<client, inMsg, newSock, reconnSock, listenQ, made, faults>>

sendApiReply ==
    /\ pc.agent = "sending"
    /\ \E ok \in SendStatuses(net, comm.sock, "svr") :
          /\ net' = Put(net, comm.sock, "svr", ApiReply(inMsg.n))
          /\ pc' = [pc EXCEPT !.agent = IF ok THEN "sendEnd" ELSE "resend"]
    /\ UNCHANGED <<client, agent, listenQ, made, faults>>

resendApiReply ==
    /\ pc.agent = "resend"
    /\ LET moves == reconnSock /\ Switches(comm)
           C == IF moves THEN switchConnect(comm) ELSE comm
           N == IF moves THEN switchNet(net, comm, "svr") ELSE net
       IN  /\ comm' = C
           /\ net' = IF moves THEN Put(N, C.sock, "svr", ApiReply(inMsg.n)) ELSE N
    /\ pc' = [pc EXCEPT !.agent = "sendEnd"]
    /\ UNCHANGED <<client, inMsg, newSock, reconnSock, listenQ, made, faults>>

\* ... to svrChkReconnAtSendEnd; agentMain reads the next message.
agentSendEnd ==
    /\ pc.agent = "sendEnd"
    /\ svrChkReconnAtEnd("readStart")
    /\ UNCHANGED <<client, inMsg, newSock, reconnSock, net, listenQ, made, faults>>

(***************************************************************************)
(* The agent's manager: reconnManager                                      *)
(***************************************************************************)
svrMgrAccept ==
    /\ pc.svrMgr = "select"
    /\ listenQ # <<>>
    /\ newSock' = Head(listenQ)
    /\ listenQ' = Tail(listenQ)
    /\ pc' = [pc EXCEPT !.svrMgr = "recv"]
    /\ UNCHANGED <<client, comm, inMsg, reconnSock, net, made, faults>>

\* select or accept fails for good: the manager stops listening and returns.
svrMgrFails ==
    /\ pc.svrMgr = "select"
    /\ Fault
    /\ reconnSock' = FALSE
    /\ listenQ' = <<>>
    /\ net' = [s \in Socks |-> IF \E i \in 1 .. Len(listenQ) : listenQ[i] = s
                               THEN Close(net, s, "svr")[s] ELSE net[s]]
    /\ pc' = [pc EXCEPT !.svrMgr = "gone"]
    /\ UNCHANGED <<client, comm, inMsg, newSock, made>>

\* sendReconnMsg of agentState, then svrSwitchConnect unless the agent reads:
\* it moves by itself when it reads the client's RECONNECT message.
svrMgrReply(C, N) ==
    \E ok \in SendStatuses(N, newSock, "svr") :
       /\ IF ok
          THEN LET sent == Put(N, newSock, "svr", Reconn(C.state))
               IN  /\ comm' = IF C.state = "PROCESSING" THEN switchConnect(C) ELSE C
                   /\ net' = IF C.state = "PROCESSING"
                             THEN switchNet(sent, C, "svr") ELSE sent
          ELSE /\ comm' = [C EXCEPT !.reconnectedSock = NoSock]
               /\ net' = Close(N, newSock, "svr")
       /\ pc' = [pc EXCEPT !.svrMgr = "select"]

\* With the lock held: wait while the agent is sending, then reply.
svrMgrTurn(C, N) ==
    IF C.state = "SENDING"
    THEN /\ comm' = [C EXCEPT !.thrState = "CONN_WAIT"]
         /\ net' = N
         /\ pc' = [pc EXCEPT !.svrMgr = "wait"]
    ELSE svrMgrReply([C EXCEPT !.thrState = "PROCESSING"], N)

\* readReconMsg, then the lock: the client's state and the socket are noted.
svrMgrRecv ==
    /\ pc.svrMgr = "recv"
    /\ HasMsg(newSock, "svr")
    /\ svrMgrTurn([comm EXCEPT !.peerState = Head(net[newSock].to["svr"]).state,
                               !.reconnectedSock = newSock],
                  Take(net, newSock, "svr"))
    /\ UNCHANGED <<client, inMsg, newSock, reconnSock, listenQ, made, faults>>

svrMgrRecvFails ==
    /\ pc.svrMgr = "recv"
    /\ ReadFails(newSock, "svr")
    /\ net' = Close(net, newSock, "svr")
    /\ pc' = [pc EXCEPT !.svrMgr = "select"]
    /\ UNCHANGED <<client, agent, listenQ, made, faults>>

svrMgrWoken ==
    /\ pc.svrMgr = "woken"
    /\ svrMgrTurn(comm, net)
    /\ UNCHANGED <<client, inMsg, newSock, reconnSock, listenQ, made, faults>>

(***************************************************************************)
(* The environment: a socket breaks, and what is on its way over it is     *)
(* lost.                                                                   *)
(***************************************************************************)
Break ==
    /\ Fault
    /\ \E s \in Socks :
          /\ net[s].up /\ net[s].ends # {}
          /\ net' = [net EXCEPT ![s].up = FALSE, ![s].to = [e \in Ends |-> <<>>]]
    /\ UNCHANGED <<client, agent, listenQ, made, pc>>

\* The client's process ends, and with it what rcDisconnect left open.
clientExits ==
    /\ pc.api = "closed"
    /\ \E s \in Socks : "cli" \in net[s].ends
    /\ net' = [s \in Socks |-> Close(net, s, "cli")[s]]
    /\ UNCHANGED <<client, agent, listenQ, made, faults, pc>>

\* Client and agent have ended, or a call waits for the lock of a manager that has.
Ended ==
    /\ \/ pc.api = "closed" /\ pc.agent = "gone"
       \/ pc.api \notin {"idle", "closed"} /\ pc.cliMgr = "gone"
    /\ UNCHANGED vars

Api ==
    \/ procApiRequest \/ cliChkReconnAtSendStart \/ SendStartWoken
    \/ cliChkReconnAtSendEnd \/ sendApiRequest \/ resendApiRequest
    \/ cliChkReconnAtReadStart \/ readApiReplyRejected \/ readApiReply
    \/ readApiReplyFails \/ rereadApiReply
    \/ cliChkReconnAtReadEnd \/ ReadEndWoken \/ rcDisconnect

CliMgr ==
    \/ cliReconnManager \/ cliMgrNoHost \/ cliMgrConnect \/ cliMgrConnectFails
    \/ cliMgrRead \/ cliMgrReadFails

Agent ==
    \/ agentReadStart \/ agentRead \/ agentReadFails \/ agentReread
    \/ agentReadTimeout \/ agentReadEnd \/ agentDisconnected
    \/ agentSendStart \/ sendApiReply \/ resendApiReply \/ agentSendEnd

SvrMgr ==
    \/ svrMgrAccept \/ svrMgrFails \/ svrMgrRecv \/ svrMgrRecvFails
    \/ svrMgrWoken

Next == Api \/ CliMgr \/ Agent \/ SvrMgr \/ SpuriousWakeup \/ Break \/ clientExits
        \/ Ended

Spec == Init /\ [][Next]_vars

\* Each thread runs on: a call that was begun is carried through, a manager
\* that holds its lock or was woken goes on, the agent works on what it reads
\* and, once its client is gone, waits no longer than its timeout.  The API
\* thread gets the lock in the end (strong fairness): between two attempts the
\* manager sleeps, RECONNECT_SLEEP_TIME seconds at least, without it.  Nothing
\* makes the client call or disconnect, the manager wake, or a failure happen.
Fairness ==
    /\ SF_vars(Api /\ pc.api # "idle")
    /\ WF_vars(CliMgr /\ pc.cliMgr # "sleep")
    /\ WF_vars(Agent /\ (pc.agent = "reading" /\ ~HasMsg(comm.sock, "svr")
                            /\ ~ReadFails(comm.sock, "svr") => pc.api = "closed"))
    /\ WF_vars(SvrMgr /\ (pc.svrMgr = "select" => listenQ # <<>>))

FairSpec == Spec /\ Fairness

(***************************************************************************)
(* Properties                                                              *)
(***************************************************************************)

\* A call that returns a good status returns the reply to its own request: no
\* reply is repeated, and no RECONNECT message is taken for one, whatever breaks
\* and whatever is sent or read again on a new socket (readAndProcApiReply,
\* sendApiReply with its second try).  This ends with the first call that returns
\* USER_API_INPUT_ERR from readAndProcApiReply, after its request was sent: the
\* reply stays on the socket, and the next call takes it for its own.
OwnReply == result = "ok" /\ ~unread => replied = call

\* As long as no failure happened the renewal is invisible: no call returns an
\* error, wherever the two sides were when the handshake ran.
InvisibleRenewal == faults = 0 => result # "error"

\* While no failure happened and no handshake is under way, the two sides use
\* the same socket, or the client has moved ahead and the agent is on its way: it
\* has the new socket and is not waiting on the old one, where a RECONNECT or a
\* request sent before is in its queue or in its hands (cliSwitchConnect,
\* svrSwitchConnect, svrChkReconnAtReadStart).
OneSocket ==
    faults = 0 /\ ~locked /\ pc.api # "closed" =>
       \/ conn.sock = comm.sock
       \/ /\ comm.reconnectedSock = conn.sock
          /\ \/ pc.agent \in {"readStart", "readEnd", "handle"}
             \/ pc.agent = "reading" /\ HasMsg(comm.sock, "svr")


\* An agent whose client has disconnected ends, if only by its timeout.  A
\* disconnect in the middle of a handshake is left out: the socket the cancelled
\* manager leaves open can hold the agent for as long as the client's process
\* lives (rcDisconnect, readAndProcClientMsg).
AgentEnds ==
    pc.api = "closed" /\ conn.reconnectedSock = NoSock ~> pc.agent = "gone"
=============================================================================
