--------------------------- MODULE ReconnectProofs ---------------------------
(***************************************************************************)
(* Theorems about Reconnect, for every number of sockets, calls and        *)
(* failures.  The argument has three layers.  TypeInv and ControlInv say   *)
(* where each thread is when the lock is held; SockInv and WireInv say     *)
(* which sockets are whose and what may be in a queue.  On them rest Owned,*)
(* which gives OwnReply, and QuietInv, which gives InvisibleRenewal and    *)
(* OneSocket and does not need Owned: both hold with replies left unread.  *)
(***************************************************************************)
EXTENDS Reconnect, CollectionLemmas

Network == [Socks -> [to : [Ends -> Seq(Msgs)], ends : SUBSET Ends, up : BOOLEAN]]

TypeInv ==
  /\ conn \in CommType /\ comm \in CommType
  /\ locked \in BOOLEAN /\ reconnSock \in BOOLEAN
  /\ net \in Network /\ listenQ \in Seq(Socks)
  /\ newSock \in Socks \cup {NoSock} /\ made \in Socks
  /\ inMsg \in Msgs
  /\ call \in 0..MaxCalls /\ replied \in 0..MaxCalls /\ unread \in BOOLEAN
  /\ result \in {"none", "ok", "error", "input"}
  /\ faults \in 0..MaxFaults
  /\ pc \in Labels

\* The API thread between the start of its send and the end of its read; the
\* part of it that waits for the reply; the agent's manager with an accepted
\* socket in hand; the agent between a request and its reply.
InCall == {"sending", "resend", "readStart", "reading", "reread", "rereading", "readEnd"}
Awaiting == {"readStart", "reading", "reread", "rereading"}
Greeting == {"recv", "wait", "woken"}
Replying == {"handle", "sending", "resend"}

\* The client's manager holds the lock for its whole handshake and only then,
\* and finds the API thread in PROCESSING; a new socket that is not switched to
\* is the manager's; the API thread leaves PROCESSING before it sends.
ControlInv ==
  /\ pc.cliMgr \in {"connect", "read"} => locked /\ conn.state = "PROCESSING"
  /\ locked => pc.cliMgr \in {"connect", "read", "gone", "cancelled"}
  /\ pc.cliMgr = "cancelled" <=> pc.api = "closed"
  /\ conn.reconnectedSock # NoSock => pc.cliMgr \in {"read", "cancelled"}
  /\ pc.cliMgr = "read" => conn.reconnectedSock # NoSock
  /\ pc.svrMgr \in Greeting => newSock # NoSock
  /\ pc.api \in InCall => conn.state # "PROCESSING"
  /\ pc.api \in (InCall \ {"readEnd"}) \cup {"sendStart", "sendWait", "sendWoken"} => result = "none"

\* Every socket in use has been made, a connection waits in the listen queue at
\* most once, and the client has closed its end of all but its two sockets.
SockInv ==
  /\ IsInjective(listenQ) /\ ToSet(listenQ) \subseteq 1..made
  /\ newSock <= made /\ conn.sock <= made /\ conn.reconnectedSock <= made
  /\ conn.reconnectedSock # conn.sock
  /\ pc.svrMgr \in Greeting => newSock \notin ToSet(listenQ)
  /\ \A s \in Socks : "cli" \in net[s].ends => s \in {conn.sock, conn.reconnectedSock}

\* What may be on its way to each end: the client sends its requests and
\* RECONNECTs in PROCESSING, and says DISCONNECT only when it closes.
WireMsg(e, m) ==
  IF e = "svr" THEN /\ m.state = "PROCESSING" /\ m.type # "API_REPLY"
                    /\ pc.api # "closed" => m.type # "DISCONNECT"
  ELSE m.type \in {"API_REPLY", "RECONNECT"}

WireInv ==
  /\ comm.peerState = "PROCESSING"
  /\ \A s \in Socks, e \in Ends : \A m \in ToSet(net[s].to[e]) : WireMsg(e, m)
  /\ inMsg.type # "API_REPLY"
  /\ pc.api # "closed" /\ pc.agent = "readEnd" => inMsg.type # "DISCONNECT"
  /\ pc.agent \in Replying => inMsg.type = "API_REQ"

\* A connection that the agent's manager has not answered.
Pending(s) == s \in ToSet(listenQ) \/ (newSock = s /\ pc.svrMgr \in Greeting)

\* The client has met no error, has read every reply and has not disconnected.
Going == result # "error" /\ pc.api # "closed" /\ ~unread

\* A request and its reply are one token: a call puts it on the wire and its
\* reader takes it off.  Clear, a queue without it; Single, with that of call n
\* and no other; Busy, the token in the agent's hands.
Token(m) == m.type \in {"API_REQ", "API_REPLY"}
Clear(q) == \A i \in 1..Len(q) : ~Token(q[i])
Single(q, n) == \E i \in 1..Len(q) : /\ Token(q[i]) /\ q[i].n = n
                                     /\ \A j \in 1..Len(q) : j # i => ~Token(q[j])
Busy == inMsg.type = "API_REQ" /\ pc.agent \in {"readEnd", "handle", "sending", "resend"}
AllClear == \A s \in Socks, e \in Ends : Clear(net[s].to[e])

\* There is at most one token, in the agent's hands or on one queue; it is that
\* of the call under way, and then the API thread is waiting for it.
TokenInv ==
  \/ ~Busy /\ AllClear
  \/ Busy /\ inMsg.n = call /\ AllClear /\ pc.api \in Awaiting
  \/ /\ ~Busy /\ pc.api \in Awaiting
     /\ \E s \in Socks, e \in Ends :
          /\ Single(net[s].to[e], call)
          /\ \A t \in Socks, f \in Ends : <<t, f>> # <<s, e>> => Clear(net[t].to[f])

\* The client's socket carries replies to it and no RECONNECT, and has been
\* answered; the socket of a handshake carries at most the manager's answer.
ReadInv ==
  /\ \A m \in ToSet(net[conn.sock].to["cli"]) : m.type = "API_REPLY"
  /\ ~Pending(conn.sock)
  /\ pc.cliMgr = "read" =>
       /\ Len(net[conn.reconnectedSock].to["cli"]) <= 1
       /\ Pending(conn.reconnectedSock) => net[conn.reconnectedSock].to["cli"] = <<>>

\* After an error the socket may keep a reply that nobody reads: the client does
\* not call again, so both hold as long as it is Going.
Owned == Going => TokenInv /\ ReadInv

\* The agent will look at its new socket before it waits for a message: it is at
\* the check, or a RECONNECT or a request makes it return to the check.
Told ==
  \/ pc.agent \in {"readStart", "readEnd", "handle"}
  \/ pc.agent = "reading" /\ HasMsg(comm.sock, "svr")

\* The agent uses socket s, or is bound to.
Bound(s) ==
  \/ comm.sock = s /\ comm.reconnectedSock = NoSock
  \/ comm.sock # s /\ comm.reconnectedSock = s /\ Told

\* The agent is in none of its second tries, and its state says where it is.
AgentCalm ==
  \/ pc.agent \in {"readStart", "handle"} /\ comm.state = "PROCESSING"
  \/ pc.agent \in {"reading", "readEnd"} /\ comm.state = "RECEIVING"
  \/ pc.agent \in {"sending", "sendEnd"} /\ comm.state = "SENDING"

\* Nothing has gone wrong: both renewals are on, no thread is in a second try
\* and every connection is up.
Calm ==
  /\ reconnSock /\ pc.svrMgr # "gone" /\ result # "error" /\ AgentCalm
  /\ pc.api \notin {"resend", "reread", "rereading"}
  /\ \A s \in 1..made : net[s].up

\* Before the agent's manager has answered, the agent uses the client's socket
\* and the new connection, if any, waits with the client's RECONNECT in it.
Before ==
  /\ Carries(net, conn.sock) /\ Bound(conn.sock)
  /\ IF pc.cliMgr # "read" THEN listenQ = <<>> /\ pc.svrMgr = "select"
     ELSE /\ Carries(net, conn.reconnectedSock) /\ comm.sock # conn.reconnectedSock
          /\ net[conn.reconnectedSock].to["svr"] = <<Reconn("PROCESSING")>>
          /\ net[conn.reconnectedSock].to["cli"] = <<>>
          /\ \/ listenQ = <<conn.reconnectedSock>> /\ pc.svrMgr = "select"
             \/ listenQ = <<>> /\ pc.svrMgr = "recv" /\ newSock = conn.reconnectedSock

\* Once it has noted the new socket, the agent is bound to that socket: it finishes
\* a send on the client's one, and then moves while the manager wakes; or the manager
\* has answered.  An agent that still reads the client's socket when it does says so
\* in the answer (RECEIVING), for the client's manager to send a RECONNECT there.
During ==
  LET s == conn.reconnectedSock IN
  /\ pc.cliMgr = "read" /\ listenQ = <<>> /\ Carries(net, s)
  /\ \/ /\ pc.svrMgr \in {"wait", "woken"} /\ newSock = s
        /\ net[s].to["cli"] = <<>> /\ net[s].to["svr"] = <<>>
        /\ \/ comm.sock = s /\ comm.reconnectedSock = NoSock /\ pc.agent = "reading"
           \/ comm.sock # s /\ comm.reconnectedSock = s /\ pc.agent = "readStart"
           \/ /\ comm.sock = conn.sock /\ comm.reconnectedSock = s
              /\ pc.agent \in {"sending", "sendEnd"} /\ Carries(net, conn.sock)
     \/ /\ pc.svrMgr = "select" /\ net[s].to["cli"] # <<>>
        /\ \/ Bound(s)
           \/ /\ comm.sock = conn.sock /\ comm.reconnectedSock = s /\ pc.agent = "reading"
              /\ Carries(net, conn.sock)
              /\ Head(net[s].to["cli"]).state = "RECEIVING"

\* Before the first failure and the disconnection, every state is one of these.
Still == faults = 0 /\ pc.api # "closed"
Quiet == Calm /\ (Before \/ During)
QuietInv == Still => Quiet

\* The agent's sockets have been made.
AgentSocks == comm.sock <= made /\ comm.reconnectedSock <= made


-------------------------------------------------------------------------------
LEMMA Constants ==
  /\ 1 \in Socks /\ Socks \subseteq Nat /\ NoSock \notin Socks /\ MaxSocks \in Nat
  /\ Ends = {"cli", "svr"} /\ Peer("cli") = "svr" /\ Peer("svr") = "cli"
BY BoundsAssumption DEF Socks, NoSock, Ends, Peer

LEMMA Messages ==
  /\ \A n \in 0..MaxCalls : ApiReq(n) \in Msgs /\ ApiReply(n) \in Msgs
  /\ Disconn \in Msgs /\ \A st \in ProcStates : Reconn(st) \in Msgs
BY BoundsAssumption DEF ApiReq, ApiReply, Disconn, Reconn, Msg, Msgs, ProcStates

LEMMA PutNet ==
  ASSUME NEW N \in Network, NEW s \in Socks, NEW end \in Ends, NEW m \in Msgs
  PROVE  /\ Put(N, s, end, m) \in Network
         /\ \A t \in Socks :
              /\ Put(N, s, end, m)[t].ends = N[t].ends /\ Put(N, s, end, m)[t].up = N[t].up
              /\ \A e \in Ends : Put(N, s, end, m)[t].to[e] =
                   IF t = s /\ e = Peer(end) /\ Carries(N, s) THEN Append(N[t].to[e], m)
                   ELSE N[t].to[e]
<1>1. CASE ~Carries(N, s)
  BY <1>1 DEF Put
<1>2. CASE Carries(N, s)
  <2> DEFINE p == Peer(end)
             q == Append(N[s].to[p], m)
             P == [N EXCEPT ![s].to[p] = q]
  <2>1. p \in Ends
    BY Constants DEF Ends
  <2>2. N[s] \in [to : [Ends -> Seq(Msgs)], ends : SUBSET Ends, up : BOOLEAN]
    BY DEF Network
  <2>3. q \in Seq(Msgs)
    BY <2>1, <2>2, AppendProperties
  <2>4. Put(N, s, end, m) = P
    BY <1>2 DEF Put
  <2> HIDE DEF p, q
  <2>5. P \in Network
    BY <2>1, <2>2, <2>3 DEF Network
  <2>6. \A t \in Socks : /\ P[t].ends = N[t].ends /\ P[t].up = N[t].up
                         /\ \A e \in Ends : P[t].to[e] = IF t = s /\ e = p THEN q ELSE N[t].to[e]
    BY <2>1, <2>2 DEF Network
  <2> HIDE DEF P
  <2> QED  BY <1>2, <2>4, <2>5, <2>6 DEF p, q
<1> QED  BY <1>1, <1>2

LEMMA CloseNet ==
  ASSUME NEW N \in Network, NEW s \in Socks, NEW end \in Ends
  PROVE  /\ Close(N, s, end) \in Network
         /\ \A t \in Socks :
              /\ \A x : x \in Close(N, s, end)[t].ends <=> x \in N[t].ends /\ ~(t = s /\ x = end)
              /\ Close(N, s, end)[t].up = N[t].up /\ Close(N, s, end)[t].to = N[t].to
<1>1. N[s] \in [to : [Ends -> Seq(Msgs)], ends : SUBSET Ends, up : BOOLEAN]
  BY DEF Network
<1> QED  BY <1>1 DEF Close, Network

LEMMA TakeNet ==
  ASSUME NEW N \in Network, NEW s \in Socks, NEW end \in Ends, N[s].to[end] # <<>>
  PROVE  /\ Take(N, s, end) \in Network
         /\ \A t \in Socks :
              /\ Take(N, s, end)[t].ends = N[t].ends /\ Take(N, s, end)[t].up = N[t].up
              /\ \A e \in Ends : Take(N, s, end)[t].to[e] =
                   IF t = s /\ e = end THEN Tail(N[t].to[e]) ELSE N[t].to[e]
<1> DEFINE q == Tail(N[s].to[end])
           P == [N EXCEPT ![s].to[end] = q]
<1>1. N[s] \in [to : [Ends -> Seq(Msgs)], ends : SUBSET Ends, up : BOOLEAN]
  BY DEF Network
<1>2. q \in Seq(Msgs)
  BY <1>1, TailElements
<1>3. Take(N, s, end) = P
  BY DEF Take
<1> HIDE DEF q
<1>4. P \in Network
  BY <1>1, <1>2 DEF Network
<1>5. \A t \in Socks : /\ P[t].ends = N[t].ends /\ P[t].up = N[t].up
                       /\ \A e \in Ends : P[t].to[e] = IF t = s /\ e = end THEN q ELSE N[t].to[e]
  BY <1>1 DEF Network
<1> HIDE DEF P
<1> QED  BY <1>3, <1>4, <1>5 DEF q

LEMMA HeadMsg ==
  ASSUME NEW N \in Network, NEW s \in Socks, NEW end \in Ends, N[s].to[end] # <<>>
  PROVE  /\ Head(N[s].to[end]) \in Msgs /\ Head(N[s].to[end]) = N[s].to[end][1]
         /\ 1 \in 1..Len(N[s].to[end])
<1>1. N[s].to[end] \in Seq(Msgs)
  BY DEF Network
<1> QED  BY <1>1, HeadTailProperties

LEMMA SwitchType ==
  ASSUME NEW C \in CommType
  PROVE  switchConnect(C) \in CommType
BY DEF switchConnect, Switches, CommType, ProcStates, NoSock

LEMMA SwitchNet ==
  ASSUME NEW C \in CommType, NEW N \in Network, NEW end \in Ends
  PROVE  switchNet(N, C, end) \in Network
<1>1. C.sock \in Socks /\ Reconn("PROCESSING") \in Msgs
  BY Messages DEF CommType, ProcStates
<1>2. Put(N, C.sock, end, Reconn("PROCESSING")) \in Network
  BY <1>1, PutNet
<1> QED  BY <1>1, <1>2, CloseNet DEF switchNet

-------------------------------------------------------------------------------
LEMMA TypeInit == Init => TypeInv /\ ControlInv
<1>1. /\ InitComm \in CommType /\ Disconn \in Msgs /\ 0 \in 0..MaxCalls /\ 0 \in 0..MaxFaults
      /\ 1 \in Socks
  BY Constants, Messages, BoundsAssumption DEF InitComm, CommType, ProcStates, NoSock
<1>2. [s \in Socks |-> [to |-> [e \in Ends |-> <<>>], ends |-> IF s = 1 THEN Ends ELSE {},
                        up |-> s = 1]] \in Network
  BY DEF Network
<1>3. Init => TypeInv
  <2>1. [api |-> "idle", cliMgr |-> "sleep", agent |-> "readStart", svrMgr |-> "select"] \in Labels
    BY DEF Labels
  <2>2. <<>> \in Seq(Socks)
    OBVIOUS
  <2> QED  BY <1>1, <1>2, <2>1, <2>2 DEF Init, TypeInv
<1>4. Init => ControlInv
  BY DEF Init, ControlInv, InCall, Greeting, InitComm
<1> QED  BY <1>3, <1>4

\* pthread_cond_signal wakes the API thread or nobody.
LEMMA SignalApiGives ==
  ASSUME NEW p \in Labels
  PROVE  /\ SignalApi(p) \in Labels /\ SignalApi(p).cliMgr = p.cliMgr
         /\ SignalApi(p).agent = p.agent /\ SignalApi(p).svrMgr = p.svrMgr
         /\ SignalApi(p).api = CASE p.api = "sendWait" -> "sendWoken"
                                [] p.api = "readWait" -> "readWoken" [] OTHER -> p.api
<1>1. CASE p.api = "sendWait"
  BY <1>1 DEF SignalApi, Labels
<1>2. CASE p.api = "readWait"
  BY <1>2 DEF SignalApi, Labels
<1>3. CASE p.api # "sendWait" /\ p.api # "readWait"
  BY <1>3 DEF SignalApi, Labels
<1> QED  BY <1>1, <1>2, <1>3

Types == TypeInv /\ ControlInv

LEMMA ApiTypes ==
  ASSUME Types, Api
  PROVE  Types'
<1> USE DEF Types
<1>0. /\ conn \in CommType /\ pc \in Labels /\ net \in Network /\ conn.sock \in Socks
      /\ switchConnect(conn) \in CommType /\ switchNet(net, conn, "cli") \in Network
      /\ "cli" \in Ends /\ Disconn \in Msgs /\ call \in 0..MaxCalls
      /\ ApiReq(call) \in Msgs
  BY SwitchType, SwitchNet, Constants, Messages DEF TypeInv, CommType
<1>1. CASE cliChkReconnAtSendStart
  BY <1>1 DEF TypeInv, ControlInv, cliChkReconnAtSendStart, agent, SignalMgr, InCall, Greeting,
       CommType, ProcStates, Labels
<1>2. CASE SendStartWoken \/ cliChkReconnAtSendEnd
  BY <1>2 DEF TypeInv, ControlInv, SendStartWoken, cliChkReconnAtSendEnd, agent, SignalMgr, InCall,
       Greeting, CommType, ProcStates, Labels
<1>3. CASE sendApiRequest
  <2>1. Put(net, conn.sock, "cli", ApiReq(call)) \in Network
    BY <1>0, PutNet
  <2> QED  BY <1>3, <2>1 DEF TypeInv, ControlInv, sendApiRequest, agent, client, InCall, Greeting, Labels
<1>4. CASE resendApiRequest
  <2>1. ~Switches(conn)
    BY <1>4, <1>0 DEF resendApiRequest, ControlInv, Switches, Labels
  <2>2. conn' = conn /\ net' = net
    BY <1>4, <2>1 DEF resendApiRequest, switchConnect, switchNet
  <2> QED  BY <1>4, <2>1, <2>2 DEF TypeInv, ControlInv, resendApiRequest, agent, InCall, Greeting, Labels
<1>5. CASE cliChkReconnAtReadStart \/ cliChkReconnAtReadEnd \/ ReadEndWoken
  BY <1>5 DEF TypeInv, ControlInv, cliChkReconnAtReadStart, cliChkReconnAtReadEnd, ReadEndWoken, agent,
       client, SignalMgr, InCall, Greeting, CommType, ProcStates, Labels
<1>6. CASE readApiReply
  <2>1. Take(net, conn.sock, "cli") \in Network /\ Head(net[conn.sock].to["cli"]) \in Msgs
    BY <1>0, <1>6, TakeNet, HeadMsg DEF readApiReply, HasMsg
  <2>2. replied' \in 0..MaxCalls
    BY <1>6, <2>1, BoundsAssumption DEF readApiReply, Msgs
  <2> QED  BY <1>6, <2>1, <2>2 DEF TypeInv, ControlInv, readApiReply, agent, InCall, Greeting, Labels
<1>7. CASE readApiReplyFails
  BY <1>7 DEF TypeInv, ControlInv, readApiReplyFails, agent, InCall, Greeting, Labels
<1>8. CASE rereadApiReply
  <2>1. ~Switches(conn)
    BY <1>8, <1>0 DEF rereadApiReply, ControlInv, Switches, Labels
  <2>2. conn' = conn /\ net' = net
    BY <1>8, <2>1 DEF rereadApiReply, switchConnect, switchNet
  <2> QED  BY <1>8, <2>2 DEF TypeInv, ControlInv, rereadApiReply, agent, InCall, Greeting, Labels
<1>9. CASE rcDisconnect
  <2>1. Close(Put(net, conn.sock, "cli", Disconn), conn.sock, "cli") \in Network
    BY <1>0, PutNet, CloseNet
  <2> QED  BY <1>9, <2>1 DEF TypeInv, ControlInv, rcDisconnect, agent, client, InCall, Greeting, Labels
<1>10. CASE procApiRequest
  <2>1. call' \in 0..MaxCalls
    BY <1>10, BoundsAssumption DEF TypeInv, procApiRequest
  <2> QED  BY <1>10, <2>1 DEF TypeInv, ControlInv, procApiRequest, agent, InCall, Greeting, Labels
<1>11. CASE readApiReplyRejected
  BY <1>11 DEF TypeInv, ControlInv, readApiReplyRejected, agent, InCall, Greeting, Labels
<1> QED  BY <1>1, <1>2, <1>3, <1>4, <1>5, <1>6, <1>7, <1>8, <1>9, <1>10, <1>11 DEF Api

LEMMA CliMgrTypes ==
  ASSUME Types, CliMgr
  PROVE  Types'
<1> USE DEF Types
<1>0. /\ conn \in CommType /\ pc \in Labels /\ net \in Network /\ conn.sock \in Socks
      /\ "cli" \in Ends /\ conn.state \in ProcStates
      /\ pc.cliMgr = "read" => conn.reconnectedSock \in Socks
      /\ pc.cliMgr # "read" => pc.cliMgr = "cancelled" \/ conn.reconnectedSock = NoSock
  BY Constants DEF TypeInv, CommType, ControlInv, Labels
<1>1. CASE cliReconnManager
  <2>1. pc.cliMgr \in {"sleep", "woken"} /\ ~locked
        /\ UNCHANGED <<call, result, replied, unread, agent, net, listenQ, made, faults>>
    BY <1>1 DEF cliReconnManager
  <2>2. CASE conn.state # "PROCESSING"
    <3>1. /\ conn' = [conn EXCEPT !.thrState = "CONN_WAIT"] /\ pc' = [pc EXCEPT !.cliMgr = "wait"]
          /\ locked' = locked
      BY <1>1, <2>2 DEF cliReconnManager, cliMgrTurn
    <3> QED  BY <1>0, <2>1, <3>1 DEF TypeInv, ControlInv, agent, InCall, Greeting, CommType, Labels
  <2>3. CASE conn.state = "PROCESSING"
    <3>1. /\ conn' = [conn EXCEPT !.thrState = "PROCESSING"] /\ pc' = [pc EXCEPT !.cliMgr = "connect"]
          /\ locked' = TRUE
      BY <1>1, <2>3 DEF cliReconnManager, cliMgrTurn
    <3> QED  BY <1>0, <2>1, <2>3, <3>1 DEF TypeInv, ControlInv, agent, InCall, Greeting, CommType, Labels
  <2> QED  BY <2>2, <2>3
<1>2. CASE cliMgrConnect
  <2> DEFINE q == [e \in Ends |-> IF e = "svr" THEN <<Reconn(conn.state)>> ELSE <<>>]
  <2>1. made \in Socks /\ made < MaxSocks
    BY <1>2 DEF TypeInv, cliMgrConnect
  <2>2. made + 1 \in Socks
    BY <2>1, BoundsAssumption DEF Socks
  <2>3. Reconn(conn.state) \in Msgs
    BY <1>0, Messages
  <2>4. q \in [Ends -> Seq(Msgs)]
    BY <2>3
  <2> HIDE DEF q
  <2>5. net' \in Network
    <3>1. net' = [net EXCEPT ![made + 1] = [to |-> q, ends |-> Ends, up |-> TRUE]]
      BY <1>2 DEF cliMgrConnect, q
    <3> QED  BY <1>0, <2>2, <2>4, <3>1 DEF Network
  <2>6. listenQ' \in Seq(Socks)
    BY <1>2, <2>2, AppendProperties DEF TypeInv, cliMgrConnect
  <2> QED  BY <1>0, <1>2, <2>2, <2>5, <2>6, Constants DEF TypeInv, ControlInv, cliMgrConnect, agent, InCall,
              Greeting, CommType, Labels
<1>3. CASE cliMgrConnectFails
  <2>1. faults' \in 0..MaxFaults
    BY <1>3, BoundsAssumption DEF TypeInv, cliMgrConnectFails, Fault
  <2>2. /\ pc' = [SignalApi(pc) EXCEPT !.cliMgr = "sleep"] /\ locked' = FALSE
        /\ conn' = [conn EXCEPT !.reconnectedSock = NoSock]
        /\ UNCHANGED <<call, result, replied, unread, agent, net, listenQ, made>>
    BY <1>3 DEF cliMgrConnectFails, cliMgrGivesUp
  <2>3. conn.state = "PROCESSING" /\ pc.api # "closed"
    BY <1>3 DEF cliMgrConnectFails, ControlInv
  <2>4. conn' \in CommType /\ pc' \in Labels
    BY <1>0, <2>2, SignalApiGives DEF CommType, Labels
  <2>5. TypeInv'
    BY <2>1, <2>2, <2>4 DEF TypeInv, agent
  <2> QED  BY <1>0, <2>2, <2>3, <2>5, SignalApiGives DEF ControlInv, agent, InCall, Greeting, CommType, Labels
<1>4. CASE cliMgrRead
  <2> DEFINE s == conn.reconnectedSock
             C == [conn EXCEPT !.peerState = Head(net[s].to["cli"]).state]
             N == Take(net, s, "cli")
  <2>1. s \in Socks /\ net[s].to["cli"] # <<>> /\ conn.state = "PROCESSING"
    BY <1>0, <1>4 DEF cliMgrRead, HasMsg, ControlInv
  <2>2. N \in Network /\ Head(net[s].to["cli"]).state \in ProcStates
    BY <1>0, <2>1, TakeNet, HeadMsg DEF Msgs
  <2>3. C \in CommType /\ C.state = "PROCESSING" /\ C.reconnectedSock = s
    BY <1>0, <2>1, <2>2 DEF CommType
  <2>4. conn' = switchConnect(C) /\ net' = switchNet(N, C, "cli")
    BY <1>4, <2>3 DEF cliMgrRead
  <2> HIDE DEF C, N
  <2>5. conn' \in CommType /\ net' \in Network
    BY <1>0, <2>2, <2>3, <2>4, SwitchType, SwitchNet
  <2>6. conn'.state = "PROCESSING" /\ conn'.reconnectedSock = NoSock
    BY <2>1, <2>3, <2>4, Constants DEF switchConnect, Switches, CommType
  <2>7. /\ pc' = [SignalApi(pc) EXCEPT !.cliMgr = "sleep"] /\ locked' = FALSE /\ pc.cliMgr = "read"
        /\ UNCHANGED <<call, result, replied, unread, agent, listenQ, made, faults>>
    BY <1>4 DEF cliMgrRead
  <2>8. pc' \in Labels
    BY <1>0, <2>7, SignalApiGives DEF Labels
  <2>9. TypeInv'
    BY <2>5, <2>7, <2>8 DEF TypeInv, agent
  <2> QED  BY <1>0, <2>1, <2>6, <2>7, <2>9, SignalApiGives DEF ControlInv, agent, InCall, Greeting, Labels
<1>5. CASE cliMgrReadFails
  <2>1. net' \in Network
    BY <1>0, <1>5, CloseNet DEF cliMgrReadFails
  <2>2. /\ pc' = [SignalApi(pc) EXCEPT !.cliMgr = "sleep"] /\ locked' = FALSE /\ pc.cliMgr = "read"
        /\ conn' = [conn EXCEPT !.reconnectedSock = NoSock]
        /\ UNCHANGED <<call, result, replied, unread, agent, listenQ, made, faults>>
    BY <1>5 DEF cliMgrReadFails, cliMgrGivesUp
  <2>3. conn' \in CommType /\ pc' \in Labels
    BY <1>0, <2>2, SignalApiGives DEF CommType, Labels
  <2>4. TypeInv'
    BY <2>1, <2>2, <2>3 DEF TypeInv, agent
  <2> QED  BY <1>0, <2>2, <2>4, SignalApiGives DEF ControlInv, agent, InCall, Greeting, CommType, Labels
<1>6. CASE cliMgrNoHost
  <2>1. faults' \in 0..MaxFaults
    BY <1>6, BoundsAssumption DEF TypeInv, cliMgrNoHost, Fault
  <2> QED  BY <1>0, <1>6, <2>1 DEF TypeInv, ControlInv, cliMgrNoHost, client, agent, InCall, Greeting, Labels
<1> QED  BY <1>1, <1>2, <1>3, <1>4, <1>5, <1>6 DEF CliMgr

\* The steps of the agent and of the environment leave the client alone.
OtherSide ==
  /\ UNCHANGED client /\ pc' \in Labels /\ pc'.api = pc.api /\ pc'.cliMgr = pc.cliMgr

LEMMA OtherSideControl ==
  ASSUME ControlInv, OtherSide, pc'.svrMgr \in Greeting => newSock' # NoSock
  PROVE  ControlInv'
BY DEF ControlInv, OtherSide, client

LEMMA SignalSvrGives ==
  ASSUME NEW p \in Labels, NEW l, l \in {"readStart", "reading", "reread", "rereading", "readEnd",
                    "handle", "sending", "resend", "sendEnd", "gone"}
  PROVE  LET r == [IF reconnSock THEN SignalSvrMgr(p) ELSE p EXCEPT !.agent = l] IN
         /\ r \in Labels /\ r.cliMgr = p.cliMgr /\ r.api = p.api /\ r.agent = l
         /\ r.svrMgr = p.svrMgr \/ (p.svrMgr = "wait" /\ r.svrMgr = "woken")
BY DEF SignalSvrMgr, Labels

LEMMA AgentTypes ==
  ASSUME Types, Agent
  PROVE  Types'
<1> USE DEF Types
<1>0. /\ comm \in CommType /\ pc \in Labels /\ net \in Network /\ comm.sock \in Socks
      /\ switchConnect(comm) \in CommType /\ switchNet(net, comm, "svr") \in Network
      /\ "svr" \in Ends /\ inMsg \in Msgs /\ ApiReply(inMsg.n) \in Msgs
  BY SwitchType, SwitchNet, Constants, Messages DEF TypeInv, CommType, Msgs
<1> USE <1>0
<1>1. ASSUME agentExits PROVE /\ net' \in Network /\ listenQ' \in Seq(Socks) /\ reconnSock' \in BOOLEAN
                              /\ pc' \in Labels /\ pc'.api = pc.api /\ pc'.cliMgr = pc.cliMgr
                              /\ pc'.svrMgr \notin Greeting
  <2>1. \A s \in Socks : Close(net, s, "svr") \in Network
    BY CloseNet
  <2>2. net' \in Network
    BY <1>1, <2>1 DEF agentExits, Network
  <2>3. /\ listenQ' = <<>> /\ reconnSock' = FALSE
        /\ pc' = [pc EXCEPT !.agent = "gone", !.svrMgr = "gone"]
    BY <1>1 DEF agentExits
  <2>4. listenQ' \in Seq(Socks)
    BY <2>3, EmptyElements
  <2>5. pc' \in Labels /\ pc'.api = pc.api /\ pc'.cliMgr = pc.cliMgr /\ pc'.svrMgr \notin Greeting
    BY <2>3 DEF Labels, Greeting
  <2> QED  BY <2>2, <2>3, <2>4, <2>5
<1>2. ASSUME NEW st \in ProcStates, NEW l, svrChkReconnAtStart(st, l),
             l \in {"reading", "sending"}
      PROVE  /\ comm' \in CommType /\ net' \in Network /\ pc' \in Labels /\ pc'.api = pc.api
             /\ pc'.cliMgr = pc.cliMgr /\ (pc'.svrMgr \in Greeting => pc.svrMgr \in Greeting)
  <2>1. comm' \in CommType /\ net' \in Network
    BY <1>2 DEF svrChkReconnAtStart, CommType
  <2>2. /\ pc' \in Labels /\ pc'.api = pc.api /\ pc'.cliMgr = pc.cliMgr
        /\ pc'.svrMgr = pc.svrMgr \/ pc.svrMgr = "wait"
    BY <1>2, SignalSvrGives DEF svrChkReconnAtStart
  <2> QED  BY <2>1, <2>2 DEF Greeting
<1>3. ASSUME NEW l, svrChkReconnAtEnd(l), l \in {"readStart", "handle"}
      PROVE  /\ comm' \in CommType /\ pc' \in Labels /\ pc'.api = pc.api
             /\ pc'.cliMgr = pc.cliMgr /\ (pc'.svrMgr \in Greeting => pc.svrMgr \in Greeting)
  <2>1. comm' \in CommType
    BY <1>3 DEF svrChkReconnAtEnd, CommType, ProcStates
  <2>2. /\ pc' \in Labels /\ pc'.api = pc.api /\ pc'.cliMgr = pc.cliMgr
        /\ pc'.svrMgr = pc.svrMgr \/ pc.svrMgr = "wait"
    BY <1>3, SignalSvrGives DEF svrChkReconnAtEnd
  <2> QED  BY <2>1, <2>2 DEF Greeting
<1>4. CASE agentReadStart \/ agentSendStart
  <2>1. /\ UNCHANGED <<client, inMsg, newSock, reconnSock, listenQ, made, faults>>
        /\ \E st \in ProcStates, l \in {"reading", "sending"} : svrChkReconnAtStart(st, l)
    BY <1>4 DEF agentReadStart, agentSendStart, ProcStates
  <2>2. TypeInv'
    BY <1>2, <2>1 DEF TypeInv, client
  <2> QED  BY <1>2, <2>1, <2>2, OtherSideControl DEF OtherSide, ControlInv
<1>5. CASE agentReadEnd \/ agentSendEnd
  <2>1. /\ UNCHANGED <<client, inMsg, newSock, reconnSock, net, listenQ, made, faults>>
        /\ \E l \in {"readStart", "handle"} : svrChkReconnAtEnd(l)
    BY <1>5 DEF agentReadEnd, agentSendEnd
  <2>2. TypeInv'
    BY <1>3, <2>1 DEF TypeInv, client
  <2> QED  BY <1>3, <2>1, <2>2, OtherSideControl DEF OtherSide, ControlInv
<1>6. CASE agentRead
  <2>1. Take(net, comm.sock, "svr") \in Network /\ Head(net[comm.sock].to["svr"]) \in Msgs
    BY <1>6, TakeNet, HeadMsg DEF agentRead, HasMsg
  <2>2. TypeInv' /\ OtherSide /\ pc'.svrMgr = pc.svrMgr
    BY <1>6, <2>1 DEF TypeInv, agentRead, OtherSide, Labels, client
  <2> QED  BY <1>6, <2>2, OtherSideControl DEF ControlInv, agentRead
<1>7. CASE agentReadFails
  <2>1. CASE agentExits
    <3>1. TypeInv' /\ OtherSide
      BY <1>1, <1>7, <2>1 DEF TypeInv, agentReadFails, OtherSide, client
    <3> QED  BY <1>1, <2>1, <3>1, OtherSideControl
  <2>2. CASE pc' = [pc EXCEPT !.agent = "reread"] /\ UNCHANGED <<net, listenQ, reconnSock>>
    <3>1. TypeInv' /\ OtherSide /\ pc'.svrMgr = pc.svrMgr /\ newSock' = newSock
      BY <1>7, <2>2 DEF TypeInv, agentReadFails, OtherSide, client, Labels
    <3> QED  BY <3>1, OtherSideControl DEF ControlInv
  <2> QED  BY <1>7, <2>1, <2>2 DEF agentReadFails
<1>8. CASE agentReadTimeout \/ agentDisconnected
  <2>1. faults' \in 0..MaxFaults
    BY <1>8, BoundsAssumption DEF TypeInv, agentReadTimeout, agentDisconnected, Fault
  <2>2. agentExits /\ UNCHANGED <<client, comm, inMsg, newSock, made>>
    BY <1>8 DEF agentReadTimeout, agentDisconnected
  <2>3. TypeInv' /\ OtherSide
    BY <1>1, <2>1, <2>2 DEF TypeInv, OtherSide, client
  <2> QED  BY <1>1, <2>2, <2>3, OtherSideControl
<1>9. CASE agentReread
  <2>1. TypeInv' /\ OtherSide /\ pc'.svrMgr = pc.svrMgr /\ newSock' = newSock
    BY <1>9 DEF TypeInv, agentReread, OtherSide, client, Labels
  <2> QED  BY <2>1, OtherSideControl DEF ControlInv
<1>10. CASE sendApiReply
  <2>1. net' \in Network
    BY <1>10, PutNet DEF sendApiReply
  <2>2. TypeInv' /\ OtherSide /\ pc'.svrMgr = pc.svrMgr /\ newSock' = newSock
    BY <1>10, <2>1 DEF TypeInv, sendApiReply, OtherSide, agent, client, Labels
  <2> QED  BY <2>2, OtherSideControl DEF ControlInv
<1>11. CASE resendApiReply
  <2>1. switchConnect(comm).sock \in Socks
    BY DEF CommType
  <2>2. Put(switchNet(net, comm, "svr"), switchConnect(comm).sock, "svr", ApiReply(inMsg.n)) \in Network
    BY <2>1, PutNet
  <2>3. TypeInv' /\ OtherSide /\ pc'.svrMgr = pc.svrMgr /\ newSock' = newSock
    BY <1>11, <2>2 DEF TypeInv, resendApiReply, OtherSide, client, Labels
  <2> QED  BY <2>3, OtherSideControl DEF ControlInv
<1> QED  BY <1>4, <1>5, <1>6, <1>7, <1>8, <1>9, <1>10, <1>11 DEF Agent

LEMMA TurnTypes ==
  ASSUME Types, NEW C \in CommType, NEW N \in Network, newSock \in Socks, svrMgrTurn(C, N)
  PROVE  /\ comm' \in CommType /\ net' \in Network
         /\ pc' = [pc EXCEPT !.svrMgr = pc'.svrMgr] /\ pc'.svrMgr \in {"select", "wait"}
<1> USE DEF Types
<1>0. pc \in Labels /\ "svr" \in Ends
  BY Constants DEF TypeInv
<1>1. CASE C.state = "SENDING"
  <2>1. /\ comm' = [C EXCEPT !.thrState = "CONN_WAIT"] /\ net' = N
        /\ pc' = [pc EXCEPT !.svrMgr = "wait"]
    BY <1>1 DEF svrMgrTurn
  <2> QED  BY <1>0, <2>1 DEF CommType, Labels
<1>2. CASE C.state # "SENDING"
  <2> DEFINE D == [C EXCEPT !.thrState = "PROCESSING"]
             sent == Put(N, newSock, "svr", Reconn(D.state))
  <2>1. svrMgrReply(D, N)
    BY <1>2 DEF svrMgrTurn
  <2>2. D \in CommType
    BY DEF CommType
  <2>3. Reconn(D.state) \in Msgs
    BY <2>2, Messages DEF CommType
  <2>4. sent \in Network /\ Close(N, newSock, "svr") \in Network
    BY <1>0, <2>3, PutNet, CloseNet
  <2>5. pc' = [pc EXCEPT !.svrMgr = "select"]
    BY <2>1 DEF svrMgrReply
  <2>6. \/ /\ comm' = IF D.state = "PROCESSING" THEN switchConnect(D) ELSE D
           /\ net' = IF D.state = "PROCESSING" THEN switchNet(sent, D, "svr") ELSE sent
        \/ comm' = [D EXCEPT !.reconnectedSock = NoSock] /\ net' = Close(N, newSock, "svr")
    BY <2>1 DEF svrMgrReply
  <2> HIDE DEF D, sent
  <2>7. comm' \in CommType /\ net' \in Network
    <3>1. switchConnect(D) \in CommType /\ switchNet(sent, D, "svr") \in Network
          /\ [D EXCEPT !.reconnectedSock = NoSock] \in CommType
      BY <1>0, <2>2, <2>4, SwitchType, SwitchNet DEF CommType
    <3> QED  BY <2>2, <2>4, <2>6, <3>1
  <2> QED  BY <1>0, <2>5, <2>7 DEF Labels
<1> QED  BY <1>1, <1>2

LEMMA SvrMgrTypes ==
  ASSUME Types, SvrMgr
  PROVE  Types'
<1> USE DEF Types
<1>0. /\ comm \in CommType /\ pc \in Labels /\ net \in Network /\ "svr" \in Ends
      /\ pc.svrMgr \in Greeting => newSock \in Socks
  BY Constants DEF TypeInv, ControlInv
<1> USE <1>0
<1>1. CASE svrMgrAccept
  <2>1. Head(listenQ) \in Socks /\ Tail(listenQ) \in Seq(Socks)
    BY <1>1, TailElements DEF svrMgrAccept, TypeInv
  <2>2. TypeInv' /\ OtherSide /\ newSock' # NoSock
    BY <1>1, <2>1, Constants DEF TypeInv, svrMgrAccept, OtherSide, client, Labels
  <2> QED  BY <2>2, OtherSideControl
<1>2. CASE svrMgrFails
  <2>1. \A s \in Socks : Close(net, s, "svr") \in Network
    BY CloseNet
  <2>2. net' \in Network
    BY <1>2, <2>1 DEF svrMgrFails, Network
  <2>3. faults' \in 0..MaxFaults
    BY <1>2, BoundsAssumption DEF TypeInv, svrMgrFails, Fault
  <2>4. TypeInv' /\ OtherSide /\ pc'.svrMgr = "gone"
    <3>1. /\ listenQ' = <<>> /\ reconnSock' = FALSE /\ pc' = [pc EXCEPT !.svrMgr = "gone"]
          /\ UNCHANGED <<client, comm, inMsg, newSock, made>>
      BY <1>2 DEF svrMgrFails
    <3>2. pc' \in Labels /\ pc'.api = pc.api /\ pc'.cliMgr = pc.cliMgr /\ pc'.svrMgr = "gone"
      BY <3>1 DEF Labels
    <3>3. listenQ' \in Seq(Socks)
      BY <3>1, EmptyElements
    <3> QED  BY <2>2, <2>3, <3>1, <3>2, <3>3 DEF TypeInv, OtherSide, client
  <2> QED  BY <2>4, OtherSideControl DEF Greeting
<1>3. CASE svrMgrRecv
  <2> DEFINE m == Head(net[newSock].to["svr"])
             C == [comm EXCEPT !.peerState = m.state, !.reconnectedSock = newSock]
             N == Take(net, newSock, "svr")
  <2>1. newSock \in Socks /\ net[newSock].to["svr"] # <<>>
    BY <1>3 DEF svrMgrRecv, HasMsg, Greeting
  <2>2. N \in Network /\ m \in Msgs
    BY <2>1, TakeNet, HeadMsg
  <2>3. C \in CommType
    BY <2>1, <2>2 DEF CommType, Msgs
  <2>4. svrMgrTurn(C, N) /\ UNCHANGED <<client, inMsg, newSock, reconnSock, listenQ, made, faults>>
    BY <1>3 DEF svrMgrRecv
  <2> HIDE DEF C, N
  <2>5. /\ comm' \in CommType /\ net' \in Network
        /\ pc' = [pc EXCEPT !.svrMgr = pc'.svrMgr] /\ pc'.svrMgr \in {"select", "wait"}
    BY <2>1, <2>2, <2>3, <2>4, TurnTypes
  <2>6. TypeInv' /\ OtherSide /\ newSock' # NoSock
    BY <2>1, <2>4, <2>5, Constants DEF TypeInv, OtherSide, client, Labels
  <2> QED  BY <2>6, OtherSideControl
<1>4. CASE svrMgrRecvFails
  <2>1. net' \in Network
    BY <1>4, CloseNet DEF svrMgrRecvFails, Greeting
  <2>2. TypeInv' /\ OtherSide /\ pc'.svrMgr = "select"
    BY <1>4, <2>1 DEF TypeInv, svrMgrRecvFails, OtherSide, client, agent, Labels
  <2> QED  BY <2>2, OtherSideControl DEF Greeting
<1>5. CASE svrMgrWoken
  <2>1. /\ newSock \in Socks /\ svrMgrTurn(comm, net)
        /\ UNCHANGED <<client, inMsg, newSock, reconnSock, listenQ, made, faults>>
    BY <1>5 DEF svrMgrWoken, Greeting
  <2>2. /\ comm' \in CommType /\ net' \in Network
        /\ pc' = [pc EXCEPT !.svrMgr = pc'.svrMgr] /\ pc'.svrMgr \in {"select", "wait"}
    BY <2>1, TurnTypes
  <2>3. TypeInv' /\ OtherSide /\ newSock' # NoSock
    BY <2>1, <2>2, Constants DEF TypeInv, OtherSide, client, Labels
  <2> QED  BY <2>3, OtherSideControl
<1> QED  BY <1>1, <1>2, <1>3, <1>4, <1>5 DEF SvrMgr

LEMMA RestTypes ==
  ASSUME Types, SpuriousWakeup \/ Break \/ clientExits \/ UNCHANGED vars
  PROVE  Types'
<1> USE DEF Types
<1>0. pc \in Labels /\ net \in Network /\ "cli" \in Ends
  BY Constants DEF TypeInv
<1>1. CASE SpuriousWakeup
  <2>1. /\ UNCHANGED <<client, agent, net, listenQ, made, faults>>
        /\ pc' \in Labels
        /\ pc'.svrMgr = pc.svrMgr \/ (pc.svrMgr = "wait" /\ pc'.svrMgr = "woken")
        /\ pc'.cliMgr = pc.cliMgr \/ (pc.cliMgr = "wait" /\ pc'.cliMgr = "woken")
        /\ \/ pc'.api = pc.api \/ (pc.api = "sendWait" /\ pc'.api = "sendWoken")
           \/ (pc.api = "readWait" /\ pc'.api = "readWoken")
    BY <1>0, <1>1, SignalApiGives DEF SpuriousWakeup, SignalMgr, Labels
  <2>2. TypeInv'
    BY <2>1 DEF TypeInv, client, agent
  <2> QED  BY <2>1, <2>2 DEF ControlInv, client, agent, InCall, Greeting
<1>2. CASE Break
  <2>1. faults' \in 0..MaxFaults
    BY <1>2, BoundsAssumption DEF TypeInv, Break, Fault
  <2>2. PICK s \in Socks : net' = [net EXCEPT ![s].up = FALSE, ![s].to = [e \in Ends |-> <<>>]]
    BY <1>2 DEF Break
  <2>3. [e \in Ends |-> <<>>] \in [Ends -> Seq(Msgs)]
    OBVIOUS
  <2>4. net' \in Network
    BY <1>0, <2>2, <2>3 DEF Network
  <2> QED  BY <1>2, <2>1, <2>4 DEF Break, TypeInv, ControlInv, client, agent
<1>3. CASE clientExits
  <2>1. \A s \in Socks : Close(net, s, "cli") \in Network
    BY <1>0, CloseNet
  <2>2. net' \in Network
    BY <1>3, <2>1 DEF clientExits, Network
  <2> QED  BY <1>3, <2>2 DEF clientExits, TypeInv, ControlInv, client, agent
<1>4. CASE UNCHANGED vars
  BY <1>4 DEF vars, TypeInv, ControlInv
<1> QED  BY <1>1, <1>2, <1>3, <1>4

LEMMA TypesAlways == Spec => []Types
<1>1. Types /\ [Next]_vars => Types'
  BY ApiTypes, CliMgrTypes, AgentTypes, SvrMgrTypes, RestTypes DEF Next, Ended
<1> QED  BY <1>1, TypeInit, PTL DEF Spec, Types

\* TypeOK holds for every number of sockets, calls and failures: in particular
\* the lock is held by the manager in its handshake, or by one that was cancelled
\* in it or returned from it, and by nobody else (cliReconnManager, from
\* pthread_mutex_lock to its unlock).
THEOREM ReconnectTypes == Spec => []TypeOK
<1>1. Types => TypeOK
  BY DEF Types, TypeInv, ControlInv, TypeOK, Network
<1> QED  BY <1>1, TypesAlways, PTL

-------------------------------------------------------------------------------
LEMMA NetQueue ==
  ASSUME NEW N \in Network, NEW t \in Socks, NEW e \in Ends
  PROVE  N[t].to[e] \in Seq(Msgs)
BY DEF Network

LEMMA PutSets ==
  ASSUME NEW N \in Network, NEW s \in Socks, NEW end \in Ends, NEW m \in Msgs,
         NEW t \in Socks, NEW e \in Ends
  PROVE  /\ \A x \in ToSet(Put(N, s, end, m)[t].to[e]) : x \in ToSet(N[t].to[e]) \/ x = m
         /\ e # Peer(end) \/ t # s => Put(N, s, end, m)[t].to[e] = N[t].to[e]
<1>1. Put(N, s, end, m)[t].to[e] = IF t = s /\ e = Peer(end) /\ Carries(N, s)
                                   THEN Append(N[t].to[e], m) ELSE N[t].to[e]
  BY PutNet
<1>2. ToSet(Append(N[t].to[e], m)) = ToSet(N[t].to[e]) \cup {m}
  BY NetQueue, AppendElements
<1> QED  BY <1>1, <1>2

LEMMA TakeSets ==
  ASSUME NEW N \in Network, NEW s \in Socks, NEW end \in Ends, N[s].to[end] # <<>>,
         NEW t \in Socks, NEW e \in Ends
  PROVE  /\ \A x \in ToSet(Take(N, s, end)[t].to[e]) : x \in ToSet(N[t].to[e])
         /\ Head(N[s].to[end]) \in ToSet(N[s].to[end])
<1>1. Take(N, s, end)[t].to[e] = IF t = s /\ e = end THEN Tail(N[t].to[e]) ELSE N[t].to[e]
  BY TakeNet
<1>2. ToSet(N[s].to[end]) = ToSet(Tail(N[s].to[end])) \cup {Head(N[s].to[end])}
  BY NetQueue, TailElements
<1> QED  BY <1>1, <1>2

\* What svrSwitchConnect and cliSwitchConnect do to the sockets.
LEMMA SwitchGives ==
  ASSUME NEW C \in CommType, NEW N \in Network, NEW end \in Ends, NEW t \in Socks, NEW e \in Ends
  PROVE  /\ \A x : x \in switchNet(N, C, end)[t].ends <=>
                     x \in N[t].ends /\ ~(Switches(C) /\ t = C.sock /\ x = end)
         /\ switchNet(N, C, end)[t].up = N[t].up
         /\ switchNet(N, C, end)[t].to[e] =
              IF Switches(C) /\ C.peerState = "RECEIVING" /\ t = C.sock /\ e = Peer(end)
                   /\ Carries(N, C.sock)
              THEN Append(N[t].to[e], Reconn("PROCESSING")) ELSE N[t].to[e]
<1> DEFINE M == Put(N, C.sock, end, Reconn("PROCESSING"))
<1>1. C.sock \in Socks /\ Reconn("PROCESSING") \in Msgs
  BY Messages DEF CommType, ProcStates
<1>2. M \in Network /\ M[t].ends = N[t].ends /\ M[t].up = N[t].up
      /\ M[t].to[e] = IF t = C.sock /\ e = Peer(end) /\ Carries(N, C.sock)
                      THEN Append(N[t].to[e], Reconn("PROCESSING")) ELSE N[t].to[e]
  BY <1>1, PutNet
<1> HIDE DEF M
<1>3. CASE ~Switches(C)
  BY <1>3 DEF switchNet
<1>4. CASE Switches(C) /\ C.peerState = "RECEIVING"
  <2>1. switchNet(N, C, end) = Close(M, C.sock, end)
    BY <1>4 DEF switchNet, M
  <2>2. M \in Network
    BY <1>2
  <2>3. /\ \A x : x \in Close(M, C.sock, end)[t].ends <=> x \in M[t].ends /\ ~(t = C.sock /\ x = end)
        /\ Close(M, C.sock, end)[t].up = M[t].up /\ Close(M, C.sock, end)[t].to = M[t].to
    BY <1>1, <2>2, CloseNet
  <2> QED  BY <1>2, <1>4, <2>1, <2>3
<1>5. CASE Switches(C) /\ C.peerState # "RECEIVING"
  <2>1. switchNet(N, C, end) = Close(N, C.sock, end)
    BY <1>5 DEF switchNet
  <2>2. /\ \A x : x \in Close(N, C.sock, end)[t].ends <=> x \in N[t].ends /\ ~(t = C.sock /\ x = end)
        /\ Close(N, C.sock, end)[t].up = N[t].up /\ Close(N, C.sock, end)[t].to = N[t].to
    BY <1>1, CloseNet
  <2> QED  BY <1>5, <2>1, <2>2
<1> QED  BY <1>3, <1>4, <1>5

LEMMA SwitchSets ==
  ASSUME NEW C \in CommType, NEW N \in Network, NEW end \in Ends, NEW t \in Socks, NEW e \in Ends
  PROVE  /\ \A x \in ToSet(switchNet(N, C, end)[t].to[e]) :
              x \in ToSet(N[t].to[e]) \/ x = Reconn("PROCESSING")
         /\ e # Peer(end) \/ t # C.sock \/ C.peerState # "RECEIVING" =>
              switchNet(N, C, end)[t].to[e] = N[t].to[e]
<1>1. ToSet(Append(N[t].to[e], Reconn("PROCESSING"))) = ToSet(N[t].to[e]) \cup {Reconn("PROCESSING")}
  BY NetQueue, AppendElements, Messages DEF ProcStates
<1> QED  BY <1>1, SwitchGives

-------------------------------------------------------------------------------
\* What a step may do to the sockets without disturbing what is known of them.
Fewer == \A t \in Socks : net'[t].ends \subseteq net[t].ends
Fitting == \A t \in Socks, e \in Ends : \A m \in ToSet(net'[t].to[e]) :
             m \in ToSet(net[t].to[e]) \/ WireMsg(e, m)

LEMMA SockKeeps ==
  ASSUME SockInv, Fewer, conn'.sock = conn.sock, conn'.reconnectedSock = conn.reconnectedSock,
         listenQ' = listenQ, newSock' = newSock, made' = made,
         pc'.svrMgr \in Greeting => pc.svrMgr \in Greeting
  PROVE  SockInv'
BY DEF SockInv, Fewer

LEMMA WireKeeps ==
  ASSUME WireInv, Fitting, comm'.peerState = comm.peerState, inMsg' = inMsg,
         pc'.agent = "readEnd" => pc.agent = "readEnd",
         pc'.agent \in Replying => pc.agent \in Replying \/ inMsg.type = "API_REQ", pc.api = "closed" => pc'.api = "closed"
  PROVE  WireInv'
<1>1. \A e \in Ends : \A m : WireMsg(e, m) => WireMsg(e, m)'
  BY DEF WireMsg
<1> QED  BY <1>1 DEF WireInv, Fitting

Wired == Types /\ SockInv /\ WireInv

LEMMA SameNet ==
  ASSUME net' = net
  PROVE  Fewer /\ Fitting
BY DEF Fewer, Fitting

LEMMA WireMessages ==
  /\ \A n : WireMsg("svr", ApiReq(n)) /\ WireMsg("cli", ApiReply(n))
  /\ \A st : WireMsg("cli", Reconn(st))
  /\ WireMsg("svr", Reconn("PROCESSING"))
BY DEF WireMsg, ApiReq, ApiReply, Reconn, Msg

LEMMA WiredInit == Init => SockInv /\ WireInv
<1> SUFFICES ASSUME Init PROVE SockInv /\ WireInv
  OBVIOUS
<1>1. \A s \in Socks : net[s].ends = (IF s = 1 THEN Ends ELSE {}) /\ \A e \in Ends : net[s].to[e] = <<>>
  BY DEF Init
<1>2. /\ conn.sock = 1 /\ conn.reconnectedSock = 0 /\ comm.peerState = "PROCESSING"
      /\ listenQ = <<>> /\ newSock = 0 /\ made = 1 /\ pc.svrMgr = "select" /\ inMsg = Disconn
      /\ pc.agent = "readStart"
  BY DEF Init, InitComm, NoSock
<1>3. ToSet(<<>>) = {} /\ IsInjective(<<>>)
  BY EmptyElements
<1>4. SockInv
  BY <1>1, <1>2, <1>3 DEF SockInv, Greeting
<1>5. WireInv
  BY <1>1, <1>2, <1>3 DEF WireInv, Disconn, Msg, Replying
<1> QED  BY <1>4, <1>5

LEMMA ApiWired ==
  ASSUME Wired, Api
  PROVE  SockInv' /\ WireInv'
<1> USE DEF Wired, Types
<1>0. /\ conn \in CommType /\ pc \in Labels /\ net \in Network /\ conn.sock \in Socks
      /\ "cli" \in Ends /\ "svr" \in Ends /\ Disconn \in Msgs /\ ApiReq(call) \in Msgs
      /\ Peer("cli") = "svr"
  BY Constants, Messages DEF TypeInv, CommType
<1>1. /\ UNCHANGED <<comm, inMsg, newSock, reconnSock, listenQ, made, faults>>
      /\ pc.api # "closed" /\ pc'.svrMgr = pc.svrMgr /\ pc'.agent = pc.agent
      /\ pc'.cliMgr = pc.cliMgr \/ pc'.cliMgr \in {"woken", "cancelled"}
  BY <1>0 DEF Api, procApiRequest, readApiReplyRejected, cliChkReconnAtSendStart, SendStartWoken, cliChkReconnAtSendEnd, sendApiRequest,
       resendApiRequest, cliChkReconnAtReadStart, readApiReply, readApiReplyFails, rereadApiReply,
       cliChkReconnAtReadEnd, ReadEndWoken, rcDisconnect, agent, SignalMgr, Labels
<1>2. conn'.sock = conn.sock /\ conn'.reconnectedSock = conn.reconnectedSock
  <2>1. CASE resendApiRequest \/ rereadApiReply
    <3>1. ~Switches(conn)
      BY <1>0, <2>1 DEF resendApiRequest, rereadApiReply, ControlInv, Switches, Labels
    <3> QED  BY <2>1, <3>1 DEF resendApiRequest, rereadApiReply, switchConnect
  <2>2. CASE ~(resendApiRequest \/ rereadApiReply)
    BY <1>0, <2>2 DEF Api, procApiRequest, readApiReplyRejected, cliChkReconnAtSendStart, SendStartWoken, cliChkReconnAtSendEnd, sendApiRequest,
       cliChkReconnAtReadStart, readApiReply, readApiReplyFails, cliChkReconnAtReadEnd, ReadEndWoken,
       rcDisconnect, client, CommType
  <2> QED  BY <2>1, <2>2
<1>3. CASE sendApiRequest
  <2>1. net' = Put(net, conn.sock, "cli", ApiReq(call))
    BY <1>3 DEF sendApiRequest
  <2>2. Fewer
    BY <1>0, <2>1, PutNet DEF Fewer
  <2>3. Fitting
    <3>1. ASSUME NEW t \in Socks, NEW e \in Ends, NEW m \in ToSet(net'[t].to[e])
          PROVE  m \in ToSet(net[t].to[e]) \/ (m = ApiReq(call) /\ e = "svr")
      BY <1>0, <2>1, PutSets
    <3> QED  BY <3>1, WireMessages DEF Fitting
  <2> QED  BY <1>1, <1>2, <2>2, <2>3, SockKeeps, WireKeeps
<1>4. CASE readApiReply
  <2>1. net' = Take(net, conn.sock, "cli") /\ net[conn.sock].to["cli"] # <<>>
    BY <1>4 DEF readApiReply, HasMsg
  <2>2. Fewer
    BY <1>0, <2>1, TakeNet DEF Fewer
  <2>3. Fitting
    BY <1>0, <2>1, TakeSets DEF Fitting
  <2> QED  BY <1>1, <1>2, <2>2, <2>3, SockKeeps, WireKeeps
<1>5. CASE rcDisconnect
  <2> DEFINE N == Put(net, conn.sock, "cli", Disconn)
  <2>1. N \in Network /\ net' = Close(N, conn.sock, "cli") /\ pc'.api = "closed"
    BY <1>0, <1>5, PutNet DEF rcDisconnect, Labels
  <2>2. \A t \in Socks : /\ N[t].ends = net[t].ends
                         /\ \A e \in Ends : /\ \A x \in ToSet(N[t].to[e]) : x \in ToSet(net[t].to[e]) \/ x = Disconn
                                            /\ e # "svr" => N[t].to[e] = net[t].to[e]
    <3>1. ASSUME NEW t \in Socks, NEW e \in Ends
          PROVE  /\ \A x \in ToSet(N[t].to[e]) : x \in ToSet(net[t].to[e]) \/ x = Disconn
                 /\ e # "svr" => N[t].to[e] = net[t].to[e]
      <4>1. \A x \in ToSet(N[t].to[e]) : x \in ToSet(net[t].to[e]) \/ x = Disconn
        BY <1>0, PutSets
      <4>2. e # Peer("cli") => N[t].to[e] = net[t].to[e]
        BY <1>0, PutSets
      <4> QED  BY <1>0, <4>1, <4>2
    <3>2. \A t \in Socks : N[t].ends = net[t].ends
      BY <1>0, PutNet
    <3> HIDE DEF N
    <3> QED  BY <3>1, <3>2
  <2> HIDE DEF N
  <2>3. \A t \in Socks : net'[t].ends \subseteq N[t].ends /\ net'[t].to = N[t].to
    BY <1>0, <2>1, CloseNet
  <2>4. SockInv'
    <3>1. Fewer
      BY <2>2, <2>3 DEF Fewer
    <3> QED  BY <1>1, <1>2, <3>1, SockKeeps
  <2>5. ASSUME NEW t \in Socks, NEW e \in Ends, NEW m \in ToSet(net'[t].to[e])
        PROVE  WireMsg(e, m)'
    <3>1. m \in ToSet(net[t].to[e]) \/ (m = Disconn /\ e = "svr")
      BY <2>2, <2>3, <2>5
    <3>2. CASE m \in ToSet(net[t].to[e])
      BY <2>1, <3>2 DEF WireInv, WireMsg
    <3>3. CASE m = Disconn /\ e = "svr"
      BY <2>1, <3>3 DEF WireMsg, Disconn, Msg
    <3> QED  BY <3>1, <3>2, <3>3
  <2> QED  BY <1>1, <2>1, <2>4, <2>5 DEF WireInv
<1>6. CASE ~(sendApiRequest \/ readApiReply \/ rcDisconnect)
  <2>1. net' = net
    <3>1. CASE resendApiRequest \/ rereadApiReply
      <4>1. ~Switches(conn)
        BY <1>0, <3>1 DEF resendApiRequest, rereadApiReply, ControlInv, Switches, Labels
      <4> QED  BY <3>1, <4>1 DEF resendApiRequest, rereadApiReply, switchNet
    <3>2. CASE ~(resendApiRequest \/ rereadApiReply)
      BY <1>6, <3>2 DEF Api, procApiRequest, readApiReplyRejected, cliChkReconnAtSendStart, SendStartWoken, cliChkReconnAtSendEnd,
           cliChkReconnAtReadStart, readApiReplyFails, cliChkReconnAtReadEnd, ReadEndWoken
    <3> QED  BY <3>1, <3>2
  <2> QED  BY <1>1, <1>2, <2>1, SameNet, SockKeeps, WireKeeps
<1> QED  BY <1>3, <1>4, <1>5, <1>6

LEMMA CliMgrWired ==
  ASSUME Wired, CliMgr
  PROVE  SockInv' /\ WireInv'
<1> USE DEF Wired, Types
<1>0. /\ conn \in CommType /\ pc \in Labels /\ net \in Network /\ conn.sock \in Socks
      /\ "cli" \in Ends /\ "svr" \in Ends /\ Peer("cli") = "svr"
      /\ pc.cliMgr = "read" => conn.reconnectedSock \in Socks
      /\ made \in Nat /\ listenQ \in Seq(Socks) /\ conn.sock \in Nat
      /\ conn.reconnectedSock \in Nat /\ newSock \in Nat /\ \A s \in Socks : s \in Nat
      /\ NoSock = 0 /\ 0 \notin Socks
  <2>1. Socks \subseteq Nat /\ NoSock = 0 /\ 0 \notin Socks
    BY Constants DEF NoSock
  <2>2. /\ conn.sock \in Nat /\ conn.reconnectedSock \in Nat /\ newSock \in Nat /\ made \in Nat
    <3>1. \A s \in Socks \cup {NoSock} : s \in Nat
      BY <2>1
    <3>2. /\ conn.sock \in Socks /\ conn.reconnectedSock \in Socks \cup {NoSock}
          /\ newSock \in Socks \cup {NoSock} /\ made \in Socks
      BY DEF TypeInv, CommType
    <3> QED  BY <3>1, <3>2
  <2>3. pc.cliMgr = "read" => conn.reconnectedSock \in Socks
    BY DEF TypeInv, CommType, ControlInv
  <2> QED  BY <2>1, <2>2, <2>3, Constants DEF TypeInv, CommType
<1>1. /\ UNCHANGED <<comm, inMsg, newSock>> /\ pc'.svrMgr = pc.svrMgr /\ pc'.agent = pc.agent
      /\ pc.api # "closed"
  <2>1. UNCHANGED <<comm, inMsg, newSock>> /\ pc.cliMgr # "cancelled"
    BY DEF CliMgr, cliMgrNoHost, client, cliReconnManager, cliMgrConnect, cliMgrConnectFails, cliMgrRead, cliMgrReadFails, agent
  <2>2. pc'.svrMgr = pc.svrMgr /\ pc'.agent = pc.agent
    BY <1>0, SignalApiGives DEF CliMgr, cliMgrNoHost, client, cliReconnManager, cliMgrTurn, cliMgrConnect, cliMgrConnectFails,
       cliMgrRead, cliMgrReadFails, cliMgrGivesUp, Labels
  <2> QED  BY <2>1, <2>2 DEF ControlInv
<1>2. CASE cliReconnManager \/ cliMgrNoHost \/ cliMgrConnectFails
  <2>1. /\ net' = net /\ listenQ' = listenQ /\ made' = made
        /\ conn'.sock = conn.sock /\ conn'.reconnectedSock = conn.reconnectedSock
    BY <1>0, <1>2 DEF cliReconnManager, cliMgrTurn, cliMgrNoHost, client, cliMgrConnectFails, ControlInv, CommType
  <2> QED  BY <1>1, <2>1, SameNet, SockKeeps, WireKeeps
<1>3. CASE cliMgrConnect
  <2> DEFINE q == [e \in Ends |-> IF e = "svr" THEN <<Reconn(conn.state)>> ELSE <<>>]
             s == made + 1
  <2>1. made \in Socks /\ made < MaxSocks /\ conn.state = "PROCESSING"
    BY <1>3 DEF TypeInv, cliMgrConnect, ControlInv
  <2>2. s \in Socks /\ s \in Nat /\ s > made
    BY <2>1, BoundsAssumption DEF Socks
  <2>3. /\ \A t \in Socks \ {s} : net'[t] = net[t]
        /\ net'[s] = [to |-> q, ends |-> Ends, up |-> TRUE]
        /\ listenQ' = Append(listenQ, s) /\ made' = s
        /\ conn' = [conn EXCEPT !.reconnectedSock = s]
    BY <1>0, <1>3, <2>2 DEF cliMgrConnect, Network
  <2>4. conn'.sock = conn.sock /\ conn'.reconnectedSock = s
    BY <1>0, <2>3 DEF CommType
  <2>5. net'[s].to["svr"] = <<Reconn("PROCESSING")>> /\ net'[s].to["cli"] = <<>>
    BY <1>0, <2>1, <2>3
  <2> HIDE DEF q, s
  <2>6. /\ ToSet(listenQ') = ToSet(listenQ) \cup {s}
        /\ IsInjective(listenQ) /\ s \notin ToSet(listenQ) => IsInjective(listenQ')
    BY <1>0, <2>2, <2>3, AppendElements
  <2>7. s \notin ToSet(listenQ) /\ ~(s <= made)
    BY <1>0, <2>2 DEF SockInv
  <2>8. SockInv'
    <3>1. IsInjective(listenQ') /\ ToSet(listenQ') \subseteq 1..s
      <4>1. 1..made \subseteq 1..s /\ s \in 1..s
        BY <1>0, <2>1, <2>2 DEF Socks
      <4> QED  BY <2>6, <2>7, <4>1 DEF SockInv
    <3>2. newSock <= s /\ conn.sock <= s /\ s <= s /\ s # conn.sock /\ s # newSock
      BY <1>0, <2>2 DEF SockInv
    <3>3. pc.svrMgr \in Greeting => newSock \notin ToSet(listenQ')
      BY <2>6, <3>2 DEF SockInv
    <3>4. \A t \in Socks : "cli" \in net'[t].ends => t \in {conn.sock, s}
      <4>1. conn.reconnectedSock = NoSock
        BY <1>3 DEF cliMgrConnect, ControlInv
      <4> QED  BY <1>0, <2>3, <4>1 DEF SockInv
    <3> QED  BY <1>1, <2>3, <2>4, <3>1, <3>2, <3>3, <3>4 DEF SockInv
  <2>9. Fitting
    <3>1. ToSet(<<Reconn("PROCESSING")>>) = {Reconn("PROCESSING")} /\ ToSet(<<>>) = {}
      BY EmptyElements DEF ToSet
    <3>2. \A e \in Ends : \A m \in ToSet(net'[s].to[e]) : WireMsg(e, m)
      BY <2>5, <3>1, WireMessages, Constants
    <3> QED  BY <2>3, <3>2 DEF Fitting
  <2> QED  BY <1>1, <2>8, <2>9, WireKeeps
<1>4. CASE cliMgrRead
  <2> DEFINE s == conn.reconnectedSock
             C == [conn EXCEPT !.peerState = Head(net[s].to["cli"]).state]
             N == Take(net, s, "cli")
  <2>1. s \in Socks /\ net[s].to["cli"] # <<>> /\ conn.state = "PROCESSING"
    BY <1>0, <1>4 DEF cliMgrRead, HasMsg, ControlInv
  <2>2. N \in Network /\ Head(net[s].to["cli"]).state \in ProcStates
    BY <1>0, <2>1, TakeNet, HeadMsg DEF Msgs
  <2>3. C \in CommType /\ C.state = "PROCESSING" /\ C.reconnectedSock = s /\ C.sock = conn.sock
    BY <1>0, <2>1, <2>2 DEF CommType
  <2>4. /\ conn' = switchConnect(C) /\ net' = switchNet(N, C, "cli")
        /\ UNCHANGED <<listenQ, made>>
    BY <1>4, <2>3 DEF cliMgrRead
  <2>5. \A t \in Socks : N[t].ends = net[t].ends
    BY <1>0, <2>1, TakeNet
  <2>6. \A t \in Socks, e \in Ends : \A x \in ToSet(N[t].to[e]) : x \in ToSet(net[t].to[e])
    BY <1>0, <2>1, TakeSets
  <2> HIDE DEF C, N
  <2>7. Switches(C)
    BY <1>0, <2>1, <2>3 DEF Switches
  <2>8. conn'.sock = s /\ conn'.reconnectedSock = NoSock
    BY <2>3, <2>4, <2>7 DEF switchConnect, CommType
  <2>9. SockInv'
    <3>1. \A t \in Socks : \A x : x \in net'[t].ends <=> x \in N[t].ends /\ ~(t = conn.sock /\ x = "cli")
      BY <1>0, <2>2, <2>3, <2>4, <2>7, SwitchGives
    <3>2. \A t \in Socks : "cli" \in net'[t].ends => t \in {s, NoSock}
      BY <2>5, <3>1 DEF SockInv
    <3> QED  BY <1>0, <1>1, <2>1, <2>4, <2>8, <3>2 DEF SockInv
  <2>10. Fitting
    <3>1. ASSUME NEW t \in Socks, NEW e \in Ends, NEW m \in ToSet(net'[t].to[e])
          PROVE  m \in ToSet(net[t].to[e]) \/ WireMsg(e, m)
      <4>1. m \in ToSet(N[t].to[e]) \/ (m = Reconn("PROCESSING") /\ e = "svr")
        BY <1>0, <2>2, <2>3, <2>4, SwitchSets
      <4> QED  BY <2>6, <4>1, WireMessages
    <3> QED  BY <3>1 DEF Fitting
  <2> QED  BY <1>1, <2>9, <2>10, WireKeeps
<1>5. CASE cliMgrReadFails
  <2>1. /\ net' = Close(net, conn.reconnectedSock, "cli") /\ conn.reconnectedSock \in Socks
        /\ conn'.sock = conn.sock /\ conn'.reconnectedSock = NoSock /\ UNCHANGED <<listenQ, made>>
    BY <1>0, <1>5 DEF cliMgrReadFails, CommType
  <2>2. \A t \in Socks : /\ \A x : x \in net'[t].ends <=> x \in net[t].ends /\ ~(t = conn.reconnectedSock /\ x = "cli")
                         /\ net'[t].to = net[t].to
    BY <1>0, <2>1, CloseNet
  <2>3. SockInv'
    BY <1>0, <1>1, <2>1, <2>2 DEF SockInv
  <2>4. Fitting
    BY <2>2 DEF Fitting
  <2> QED  BY <1>1, <2>3, <2>4, WireKeeps
<1> QED  BY <1>2, <1>3, <1>4, <1>5 DEF CliMgr

\* A turn of reconnManager with the lock: it waits, it answers and moves, or its answer fails.
TurnWaits(C, N) ==
  /\ C.state = "SENDING" /\ pc'.svrMgr = "wait" /\ net' = N
  /\ comm'.sock = C.sock /\ comm'.reconnectedSock = C.reconnectedSock

TurnAnswers(C, N) ==
  /\ C.state # "SENDING" /\ pc'.svrMgr = "select" /\ TRUE \in SendStatuses(N, newSock, "svr")
  /\ \A t \in Socks :
       /\ \A x : x \in net'[t].ends <=> x \in N[t].ends
                   /\ ~(C.state = "PROCESSING" /\ Switches(C) /\ t = C.sock /\ x = "svr")
       /\ net'[t].up = N[t].up
       /\ \A e \in Ends : net'[t].to[e] = IF t = newSock /\ e = "cli" /\ Carries(N, newSock)
                                          THEN Append(N[t].to[e], Reconn(C.state)) ELSE N[t].to[e]
  /\ comm'.sock = IF C.state = "PROCESSING" /\ Switches(C) THEN C.reconnectedSock ELSE C.sock
  /\ comm'.reconnectedSock = IF C.state = "PROCESSING" /\ Switches(C) THEN NoSock
                             ELSE C.reconnectedSock

TurnFails(C, N) ==
  /\ C.state # "SENDING" /\ pc'.svrMgr = "select" /\ FALSE \in SendStatuses(N, newSock, "svr")
  /\ comm'.sock = C.sock /\ comm'.reconnectedSock = NoSock
  /\ \A t \in Socks :
       /\ \A x : x \in net'[t].ends <=> x \in N[t].ends /\ ~(t = newSock /\ x = "svr")
       /\ net'[t].up = N[t].up /\ net'[t].to = N[t].to

LEMMA TurnGives ==
  ASSUME Types, NEW C \in CommType, NEW N \in Network, newSock \in Socks, svrMgrTurn(C, N),
         C.peerState = "PROCESSING"
  PROVE  /\ TurnWaits(C, N) \/ TurnAnswers(C, N) \/ TurnFails(C, N)
         /\ comm'.peerState = "PROCESSING" /\ comm'.state = C.state
<1> USE DEF Types
<1>0. pc \in Labels /\ "svr" \in Ends /\ Peer("svr") = "cli"
  BY Constants DEF TypeInv
<1>1. CASE C.state = "SENDING"
  <2>1. /\ comm' = [C EXCEPT !.thrState = "CONN_WAIT"] /\ net' = N
        /\ pc' = [pc EXCEPT !.svrMgr = "wait"]
    BY <1>1 DEF svrMgrTurn
  <2>2. comm'.sock = C.sock /\ comm'.reconnectedSock = C.reconnectedSock
        /\ comm'.peerState = C.peerState /\ comm'.state = C.state
    BY <2>1 DEF CommType
  <2> QED  BY <1>0, <1>1, <2>1, <2>2 DEF TurnWaits, Labels
<1>2. CASE C.state # "SENDING"
  <2> DEFINE D == [C EXCEPT !.thrState = "PROCESSING"]
             sent == Put(N, newSock, "svr", Reconn(D.state))
  <2>1. svrMgrReply(D, N)
    BY <1>2 DEF svrMgrTurn
  <2>2. /\ D \in CommType /\ D.sock = C.sock /\ D.reconnectedSock = C.reconnectedSock
        /\ D.peerState = "PROCESSING" /\ D.state = C.state
    BY DEF CommType
  <2>3. Reconn(D.state) \in Msgs
    BY <2>2, Messages DEF CommType
  <2>4. /\ sent \in Network
        /\ \A t \in Socks :
              /\ sent[t].ends = N[t].ends /\ sent[t].up = N[t].up
              /\ \A e \in Ends : sent[t].to[e] =
                   IF t = newSock /\ e = "cli" /\ Carries(N, newSock) THEN Append(N[t].to[e], Reconn(C.state))
                   ELSE N[t].to[e]
    BY <1>0, <2>2, <2>3, PutNet
  <2>5. pc'.svrMgr = "select"
    BY <1>0, <2>1 DEF svrMgrReply, Labels
  <2>6. \/ /\ TRUE \in SendStatuses(N, newSock, "svr")
           /\ comm' = IF D.state = "PROCESSING" THEN switchConnect(D) ELSE D
           /\ net' = IF D.state = "PROCESSING" THEN switchNet(sent, D, "svr") ELSE sent
        \/ /\ FALSE \in SendStatuses(N, newSock, "svr")
           /\ comm' = [D EXCEPT !.reconnectedSock = NoSock] /\ net' = Close(N, newSock, "svr")
    <3>1. PICK ok \in SendStatuses(N, newSock, "svr") :
            IF ok
            THEN /\ comm' = IF D.state = "PROCESSING" THEN switchConnect(D) ELSE D
                 /\ net' = IF D.state = "PROCESSING" THEN switchNet(sent, D, "svr") ELSE sent
            ELSE /\ comm' = [D EXCEPT !.reconnectedSock = NoSock]
                 /\ net' = Close(N, newSock, "svr")
      BY <2>1 DEF svrMgrReply
    <3>2. ok \in BOOLEAN
      BY <3>1 DEF SendStatuses
    <3> QED  BY <3>1, <3>2
  <2>7. Switches(D) <=> Switches(C)
    BY <2>2 DEF Switches
  <2> HIDE DEF D, sent
  <2>8. CASE /\ FALSE \in SendStatuses(N, newSock, "svr")
             /\ comm' = [D EXCEPT !.reconnectedSock = NoSock] /\ net' = Close(N, newSock, "svr")
    <3>1. \A t \in Socks :
            /\ \A x : x \in net'[t].ends <=> x \in N[t].ends /\ ~(t = newSock /\ x = "svr")
            /\ net'[t].up = N[t].up /\ net'[t].to = N[t].to
      BY <1>0, <2>8, CloseNet
    <3>2. comm'.sock = C.sock /\ comm'.reconnectedSock = NoSock /\ comm'.peerState = "PROCESSING"
          /\ comm'.state = C.state
      BY <2>2, <2>8 DEF CommType
    <3> QED  BY <1>2, <2>5, <2>8, <3>1, <3>2 DEF TurnFails
  <2>9. CASE /\ TRUE \in SendStatuses(N, newSock, "svr")
             /\ comm' = IF D.state = "PROCESSING" THEN switchConnect(D) ELSE D
             /\ net' = IF D.state = "PROCESSING" THEN switchNet(sent, D, "svr") ELSE sent
    <3>1. CASE C.state = "PROCESSING"
      <4>1. /\ comm'.sock = IF Switches(C) THEN C.reconnectedSock ELSE C.sock
            /\ comm'.reconnectedSock = IF Switches(C) THEN NoSock ELSE C.reconnectedSock
            /\ comm'.peerState = "PROCESSING" /\ comm'.state = C.state
        BY <2>2, <2>7, <2>9, <3>1 DEF switchConnect, CommType
      <4>2. \A t \in Socks :
              /\ \A x : x \in net'[t].ends <=> x \in sent[t].ends /\ ~(Switches(D) /\ t = D.sock /\ x = "svr")
              /\ net'[t].up = sent[t].up
              /\ \A e \in Ends : net'[t].to[e] = sent[t].to[e]
        <5>1. net' = switchNet(sent, D, "svr") /\ sent \in Network /\ D.peerState # "RECEIVING"
          BY <2>2, <2>4, <2>9, <3>1
        <5> QED  BY <1>0, <2>2, <5>1, SwitchGives
      <4>3. \A t \in Socks : \A x : x \in net'[t].ends <=> x \in N[t].ends
                   /\ ~(C.state = "PROCESSING" /\ Switches(C) /\ t = C.sock /\ x = "svr")
        BY <2>2, <2>4, <2>7, <3>1, <4>2
      <4>4. \A t \in Socks : net'[t].up = N[t].up
        BY <2>4, <4>2
      <4>5. \A t \in Socks, e \in Ends :
              net'[t].to[e] = IF t = newSock /\ e = "cli" /\ Carries(N, newSock)
                              THEN Append(N[t].to[e], Reconn(C.state)) ELSE N[t].to[e]
        BY <2>4, <4>2
      <4>6. TRUE \in SendStatuses(N, newSock, "svr")
        BY <2>9
      <4> QED  BY <1>2, <2>5, <3>1, <4>1, <4>3, <4>4, <4>5, <4>6 DEF TurnAnswers
    <3>2. CASE C.state # "PROCESSING"
      BY <1>2, <2>2, <2>4, <2>5, <2>9, <3>2 DEF TurnAnswers
    <3> QED  BY <3>1, <3>2
  <2> QED  BY <2>6, <2>8, <2>9
<1> QED  BY <1>1, <1>2

\* The agent's moves, when the client is known to be neither sending nor receiving.
LEMMA MoveGives ==
  ASSUME Types, WireInv
  PROVE  LET C == switchConnect(comm)
             N == switchNet(net, comm, "svr")
         IN /\ C \in CommType /\ C.peerState = "PROCESSING" /\ C.state = comm.state
            /\ C.sock = IF Switches(comm) THEN comm.reconnectedSock ELSE comm.sock
            /\ C.reconnectedSock = NoSock
            /\ N \in Network
            /\ \A t \in Socks :
                 /\ \A x : x \in N[t].ends <=> x \in net[t].ends /\ ~(Switches(comm) /\ t = comm.sock /\ x = "svr")
                 /\ N[t].up = net[t].up
                 /\ \A e \in Ends : N[t].to[e] = net[t].to[e]
<1>1. comm \in CommType /\ net \in Network /\ "svr" \in Ends /\ comm.peerState = "PROCESSING"
  BY Constants DEF Types, TypeInv, WireInv
<1>2. switchConnect(comm) \in CommType /\ switchNet(net, comm, "svr") \in Network
  BY <1>1, SwitchType, SwitchNet
<1>3. /\ switchConnect(comm).peerState = "PROCESSING" /\ switchConnect(comm).state = comm.state
      /\ switchConnect(comm).sock = IF Switches(comm) THEN comm.reconnectedSock ELSE comm.sock
      /\ switchConnect(comm).reconnectedSock = NoSock
  BY <1>1 DEF switchConnect, CommType, Switches
<1>4. \A t \in Socks :
        /\ \A x : x \in switchNet(net, comm, "svr")[t].ends <=>
                  x \in net[t].ends /\ ~(Switches(comm) /\ t = comm.sock /\ x = "svr")
        /\ switchNet(net, comm, "svr")[t].up = net[t].up
        /\ \A e \in Ends : switchNet(net, comm, "svr")[t].to[e] = net[t].to[e]
  BY <1>1, SwitchGives
<1> QED  BY <1>2, <1>3, <1>4


\* What the steps of the agent do, socket by socket.
SameQueues == \A t \in Socks, e \in Ends : net'[t].to[e] = net[t].to[e]
SameUp == \A t \in Socks : net'[t].up = net[t].up

Moved ==
  /\ comm'.sock = IF Switches(comm) THEN comm.reconnectedSock ELSE comm.sock
  /\ comm'.reconnectedSock = NoSock /\ comm'.peerState = "PROCESSING"
  /\ \A t \in Socks : \A x : x \in net'[t].ends <=>
       x \in net[t].ends /\ ~(Switches(comm) /\ t = comm.sock /\ x = "svr")
  /\ SameUp /\ SameQueues

LEMMA StartGives ==
  ASSUME Types, WireInv, NEW st \in ProcStates, NEW l, l \in {"reading", "sending"},
         svrChkReconnAtStart(st, l)
  PROVE  /\ reconnSock => Moved /\ comm'.state = st
         /\ ~reconnSock => comm' = comm /\ net' = net
         /\ pc' \in Labels /\ pc'.agent = l /\ pc'.api = pc.api /\ pc'.cliMgr = pc.cliMgr
         /\ pc'.svrMgr = pc.svrMgr \/ (pc.svrMgr = "wait" /\ pc'.svrMgr = "woken")
<1>1. pc \in Labels
  BY DEF Types, TypeInv
<1>2. /\ pc' \in Labels /\ pc'.agent = l /\ pc'.api = pc.api /\ pc'.cliMgr = pc.cliMgr
      /\ pc'.svrMgr = pc.svrMgr \/ (pc.svrMgr = "wait" /\ pc'.svrMgr = "woken")
  BY <1>1, SignalSvrGives DEF svrChkReconnAtStart
<1>3. ~reconnSock => comm' = comm /\ net' = net
  BY DEF svrChkReconnAtStart
<1>4. ASSUME reconnSock PROVE Moved /\ comm'.state = st
  <2> DEFINE C == switchConnect(comm)
             N == switchNet(net, comm, "svr")
  <2>1. comm' = [C EXCEPT !.state = st] /\ net' = N
    BY <1>4 DEF svrChkReconnAtStart
  <2>2. C \in CommType /\ C.peerState = "PROCESSING"
        /\ C.sock = (IF Switches(comm) THEN comm.reconnectedSock ELSE comm.sock)
        /\ C.reconnectedSock = NoSock
    BY MoveGives
  <2>3. \A t \in Socks :
                 /\ \A x : x \in N[t].ends <=> x \in net[t].ends /\ ~(Switches(comm) /\ t = comm.sock /\ x = "svr")
                 /\ N[t].up = net[t].up
                 /\ \A e \in Ends : N[t].to[e] = net[t].to[e]
    BY MoveGives
  <2> HIDE DEF C, N
  <2>4. comm'.sock = C.sock /\ comm'.reconnectedSock = C.reconnectedSock
        /\ comm'.peerState = C.peerState /\ comm'.state = st
    BY <2>1, <2>2 DEF CommType
  <2> QED  BY <2>1, <2>2, <2>3, <2>4 DEF Moved, SameUp, SameQueues
<1> QED  BY <1>2, <1>3, <1>4

LEMMA EndGives ==
  ASSUME Types, NEW l, l \in {"readStart", "handle"}, svrChkReconnAtEnd(l)
  PROVE  /\ comm'.sock = comm.sock /\ comm'.reconnectedSock = comm.reconnectedSock
         /\ comm'.peerState = comm.peerState /\ (reconnSock => comm'.state = "PROCESSING")
         /\ pc' \in Labels /\ pc'.agent = l /\ pc'.api = pc.api /\ pc'.cliMgr = pc.cliMgr
         /\ pc'.svrMgr = pc.svrMgr \/ (pc.svrMgr = "wait" /\ pc'.svrMgr = "woken")
<1>1. pc \in Labels /\ comm \in CommType
  BY DEF Types, TypeInv
<1>2. /\ pc' \in Labels /\ pc'.agent = l /\ pc'.api = pc.api /\ pc'.cliMgr = pc.cliMgr
      /\ pc'.svrMgr = pc.svrMgr \/ (pc.svrMgr = "wait" /\ pc'.svrMgr = "woken")
  BY <1>1, SignalSvrGives DEF svrChkReconnAtEnd
<1>3. /\ comm'.sock = comm.sock /\ comm'.reconnectedSock = comm.reconnectedSock
      /\ comm'.peerState = comm.peerState /\ (reconnSock => comm'.state = "PROCESSING")
  BY <1>1 DEF svrChkReconnAtEnd, CommType
<1> QED  BY <1>2, <1>3

LEMMA ExitGives ==
  ASSUME Types, agentExits
  PROVE  /\ listenQ' = <<>> /\ reconnSock' = FALSE
         /\ pc' \in Labels /\ pc'.agent = "gone" /\ pc'.svrMgr = "gone"
         /\ pc'.api = pc.api /\ pc'.cliMgr = pc.cliMgr
         /\ \A t \in Socks : \A x : x \in net'[t].ends <=> x \in net[t].ends /\ x # "svr"
         /\ SameUp /\ SameQueues
<1>1. pc \in Labels /\ net \in Network /\ "svr" \in Ends
  BY Constants DEF Types, TypeInv
<1>2. /\ listenQ' = <<>> /\ reconnSock' = FALSE
      /\ pc' = [pc EXCEPT !.agent = "gone", !.svrMgr = "gone"]
      /\ \A s \in Socks : net'[s] = Close(net, s, "svr")[s]
  BY DEF agentExits
<1>3. pc' \in Labels /\ pc'.agent = "gone" /\ pc'.svrMgr = "gone"
      /\ pc'.api = pc.api /\ pc'.cliMgr = pc.cliMgr
  BY <1>1, <1>2 DEF Labels
<1>4. \A s \in Socks :
        /\ \A x : x \in Close(net, s, "svr")[s].ends <=> x \in net[s].ends /\ x # "svr"
        /\ Close(net, s, "svr")[s].up = net[s].up /\ Close(net, s, "svr")[s].to = net[s].to
  BY <1>1, CloseNet
<1> QED  BY <1>2, <1>3, <1>4 DEF SameUp, SameQueues

\* agentReread is a move whether or not the manager still listens.
LEMMA RereadGives ==
  ASSUME Types, WireInv, agentReread
  PROVE  Moved /\ comm'.state = comm.state
<1>1. comm' = switchConnect(comm) /\ net' = switchNet(net, comm, "svr")
  BY DEF agentReread
<1> QED  BY <1>1, MoveGives DEF Moved, SameUp, SameQueues

\* The second try of sendApiReply: on the new socket, or not at all.
LEMMA ResendGives ==
  ASSUME Types, WireInv, resendApiReply
  PROVE  \/ comm' = comm /\ net' = net
         \/ /\ reconnSock /\ Switches(comm)
            /\ comm'.sock = comm.reconnectedSock /\ comm'.reconnectedSock = NoSock
            /\ comm'.peerState = "PROCESSING"
            /\ \A t \in Socks :
                 /\ \A x : x \in net'[t].ends <=> x \in net[t].ends /\ ~(t = comm.sock /\ x = "svr")
                 /\ net'[t].up = net[t].up
                 /\ net'[t].to["svr"] = net[t].to["svr"]
                 /\ \/ net'[t].to["cli"] = net[t].to["cli"]
                    \/ /\ t = comm.reconnectedSock
                       /\ net'[t].to["cli"] = Append(net[t].to["cli"], ApiReply(inMsg.n))
<1> DEFINE C == switchConnect(comm)
           N == switchNet(net, comm, "svr")
<1>1. CASE ~(reconnSock /\ Switches(comm))
  BY <1>1 DEF resendApiReply
<1>2. CASE reconnSock /\ Switches(comm)
  <2>1. comm' = C /\ net' = Put(N, C.sock, "svr", ApiReply(inMsg.n))
    BY <1>2 DEF resendApiReply
  <2>2. C \in CommType /\ C.peerState = "PROCESSING"
        /\ C.sock = (IF Switches(comm) THEN comm.reconnectedSock ELSE comm.sock)
        /\ C.reconnectedSock = NoSock /\ N \in Network
    BY MoveGives
  <2>3. \A t \in Socks :
                 /\ \A x : x \in N[t].ends <=> x \in net[t].ends /\ ~(Switches(comm) /\ t = comm.sock /\ x = "svr")
                 /\ N[t].up = net[t].up
                 /\ \A e \in Ends : N[t].to[e] = net[t].to[e]
    BY MoveGives
  <2> HIDE DEF C, N
  <2>4. C.sock \in Socks /\ ApiReply(inMsg.n) \in Msgs /\ "svr" \in Ends /\ "cli" \in Ends
        /\ Peer("svr") = "cli"
    BY <2>2, Messages, Constants DEF Types, TypeInv, CommType, Msgs
  <2>5. \A t \in Socks :
          /\ net'[t].ends = N[t].ends /\ net'[t].up = N[t].up
          /\ \A e \in Ends : net'[t].to[e] =
                   IF t = C.sock /\ e = "cli" /\ Carries(N, C.sock) THEN Append(N[t].to[e], ApiReply(inMsg.n))
                   ELSE N[t].to[e]
    BY <2>1, <2>2, <2>4, PutNet
  <2>6. \A t \in Socks :
                 /\ net'[t].to["svr"] = net[t].to["svr"]
                 /\ \/ net'[t].to["cli"] = net[t].to["cli"]
                    \/ /\ t = comm.reconnectedSock
                       /\ net'[t].to["cli"] = Append(net[t].to["cli"], ApiReply(inMsg.n))
    <3>1. \A t \in Socks : net'[t].to["svr"] = N[t].to["svr"] /\ N[t].to["svr"] = net[t].to["svr"]
                           /\ N[t].to["cli"] = net[t].to["cli"]
      BY <2>3, <2>4, <2>5
    <3>2. \A t \in Socks : net'[t].to["cli"] = N[t].to["cli"]
             \/ (t = C.sock /\ net'[t].to["cli"] = Append(N[t].to["cli"], ApiReply(inMsg.n)))
      BY <2>4, <2>5
    <3> QED  BY <1>2, <2>2, <3>1, <3>2
  <2> QED  BY <1>2, <2>1, <2>2, <2>3, <2>5, <2>6
<1> QED  BY <1>1, <1>2

LEMMA AgentWired ==
  ASSUME Wired, Agent
  PROVE  SockInv' /\ WireInv'
<1> USE DEF Wired, Types
<1>0. /\ comm \in CommType /\ pc \in Labels /\ net \in Network /\ comm.sock \in Socks
      /\ "cli" \in Ends /\ "svr" \in Ends /\ Peer("svr") = "cli" /\ ApiReply(inMsg.n) \in Msgs
  BY Constants, Messages DEF TypeInv, CommType, Msgs
<1>1. ASSUME Moved, UNCHANGED <<client, inMsg, newSock, listenQ, made>>,
             pc'.svrMgr \in Greeting => pc.svrMgr \in Greeting, pc'.api = pc.api,
             pc'.agent # "readEnd", pc'.agent \in Replying => pc.agent \in Replying
      PROVE  SockInv' /\ WireInv'
  <2>1. Fewer
    BY <1>1 DEF Fewer, Moved
  <2>2. Fitting
    BY <1>1 DEF Fitting, Moved, SameQueues
  <2>3. comm'.peerState = comm.peerState
    BY <1>1 DEF Moved, WireInv
  <2> QED  BY <1>1, <2>1, <2>2, <2>3, SockKeeps, WireKeeps DEF client
<1>2. ASSUME agentExits, UNCHANGED <<client, comm, inMsg, newSock, made>>
      PROVE  SockInv' /\ WireInv'
  <2>1. /\ listenQ' = <<>> /\ pc'.agent = "gone" /\ pc'.svrMgr = "gone" /\ pc'.api = pc.api
        /\ Fewer /\ Fitting
    BY <1>2, ExitGives DEF Fewer, Fitting, SameQueues
  <2>2. ToSet(listenQ') = {} /\ IsInjective(listenQ')
    BY <2>1, EmptyElements
  <2>3. SockInv'
    <3>1. \A s \in Socks : "cli" \in net'[s].ends => s \in {conn.sock, conn.reconnectedSock}
      BY <2>1 DEF Fewer, SockInv
    <3>2. conn' = conn /\ newSock' = newSock /\ made' = made
      BY <1>2 DEF client
    <3> QED  BY <2>1, <2>2, <3>1, <3>2 DEF SockInv, Greeting
  <2>4. WireInv'
    BY <1>2, <2>1, WireKeeps DEF Replying
  <2> QED  BY <2>3, <2>4
<1>3. ASSUME net' = net, UNCHANGED <<client, inMsg, newSock, listenQ, made>>,
             comm'.peerState = comm.peerState,
             pc'.svrMgr \in Greeting => pc.svrMgr \in Greeting, pc'.api = pc.api,
             pc'.agent # "readEnd",
             pc'.agent \in Replying => pc.agent \in Replying \/ inMsg.type = "API_REQ"
      PROVE  SockInv' /\ WireInv'
  BY <1>3, SameNet, SockKeeps, WireKeeps DEF client
<1>4. CASE agentReadStart \/ agentSendStart
  <2>1. /\ UNCHANGED <<client, inMsg, newSock, reconnSock, listenQ, made, faults>>
        /\ \/ svrChkReconnAtStart("RECEIVING", "reading") /\ pc.agent = "readStart"
           \/ svrChkReconnAtStart("SENDING", "sending") /\ pc.agent = "handle"
    BY <1>4 DEF agentReadStart, agentSendStart
  <2>2. /\ reconnSock => Moved
        /\ ~reconnSock => comm' = comm /\ net' = net
        /\ pc'.agent = "reading" \/ (pc'.agent = "sending" /\ pc.agent = "handle")
        /\ pc'.api = pc.api
        /\ pc'.svrMgr = pc.svrMgr \/ (pc.svrMgr = "wait" /\ pc'.svrMgr = "woken")
    BY <2>1, StartGives DEF ProcStates
  <2>3. /\ pc'.svrMgr \in Greeting => pc.svrMgr \in Greeting
        /\ pc'.agent # "readEnd" /\ (pc'.agent \in Replying => pc.agent \in Replying)
    BY <2>2 DEF Greeting, Replying
  <2> QED  BY <1>1, <1>3, <2>1, <2>2, <2>3 DEF TypeInv
<1>5. CASE agentReadEnd \/ agentSendEnd
  <2>1. /\ UNCHANGED <<client, inMsg, newSock, reconnSock, net, listenQ, made, faults>>
        /\ \E l \in {"readStart", "handle"} : svrChkReconnAtEnd(l) /\ (l = "handle" => inMsg.type = "API_REQ")
    BY <1>5 DEF agentReadEnd, agentSendEnd
  <2>2. /\ comm'.peerState = comm.peerState /\ pc'.api = pc.api
        /\ pc'.agent = "readStart" \/ (pc'.agent = "handle" /\ inMsg.type = "API_REQ")
        /\ pc'.svrMgr = pc.svrMgr \/ (pc.svrMgr = "wait" /\ pc'.svrMgr = "woken")
    BY <2>1, EndGives
  <2>3. /\ pc'.svrMgr \in Greeting => pc.svrMgr \in Greeting
        /\ pc'.agent # "readEnd" /\ (pc'.agent \in Replying => inMsg.type = "API_REQ")
    BY <2>2 DEF Greeting, Replying
  <2> QED  BY <1>3, <2>1, <2>2, <2>3
<1>6. CASE agentRead
  <2> DEFINE h == Head(net[comm.sock].to["svr"])
  <2>1. /\ net' = Take(net, comm.sock, "svr") /\ net[comm.sock].to["svr"] # <<>>
        /\ inMsg' = h /\ UNCHANGED <<client, comm, newSock, listenQ, made>>
        /\ pc' = [pc EXCEPT !.agent = "readEnd"]
    BY <1>6 DEF agentRead, HasMsg
  <2>2. Fewer
    BY <1>0, <2>1, TakeNet DEF Fewer
  <2>3. Fitting /\ h \in ToSet(net[comm.sock].to["svr"])
    BY <1>0, <2>1, TakeSets DEF Fitting
  <2>4. pc'.agent = "readEnd" /\ pc'.api = pc.api /\ pc'.svrMgr = pc.svrMgr
    BY <1>0, <2>1 DEF Labels
  <2>5. SockInv'
    BY <2>1, <2>2, <2>4, SockKeeps DEF client
  <2>6. WireMsg("svr", h)
    BY <1>0, <2>3 DEF WireInv
  <2> HIDE DEF h
  <2>7. ASSUME NEW t \in Socks, NEW e \in Ends, NEW m \in ToSet(net'[t].to[e])
        PROVE  WireMsg(e, m)'
    <3>1. WireMsg(e, m)
      BY <2>3, <2>7 DEF Fitting, WireInv
    <3> QED  BY <2>4, <3>1 DEF WireMsg
  <2> QED  BY <2>1, <2>4, <2>5, <2>6, <2>7 DEF WireInv, WireMsg, Replying
<1>7. CASE agentReadFails
  <2>1. UNCHANGED <<client, comm, inMsg, newSock, made>>
    BY <1>7 DEF agentReadFails
  <2>2. CASE agentExits
    BY <1>2, <2>1, <2>2
  <2>3. CASE pc' = [pc EXCEPT !.agent = "reread"] /\ UNCHANGED <<net, listenQ, reconnSock>>
    <3>1. pc'.agent = "reread" /\ pc'.api = pc.api /\ pc'.svrMgr = pc.svrMgr
      BY <1>0, <2>3 DEF Labels
    <3> QED  BY <1>3, <2>1, <2>3, <3>1 DEF Replying
  <2> QED  BY <1>7, <2>2, <2>3 DEF agentReadFails
<1>8. CASE agentReadTimeout \/ agentDisconnected
  BY <1>2, <1>8 DEF agentReadTimeout, agentDisconnected
<1>9. CASE agentReread
  <2>1. /\ UNCHANGED <<client, inMsg, newSock, listenQ, made>>
        /\ pc'.agent = "rereading" /\ pc'.api = pc.api /\ pc'.svrMgr = pc.svrMgr
    BY <1>0, <1>9 DEF agentReread, Labels
  <2> QED  BY <1>1, <1>9, <2>1, RereadGives DEF Replying
<1>10. CASE sendApiReply
  <2>1. net' = Put(net, comm.sock, "svr", ApiReply(inMsg.n))
    BY <1>10 DEF sendApiReply
  <2>2. Fewer
    BY <1>0, <2>1, PutNet DEF Fewer
  <2>3. Fitting
    <3>1. ASSUME NEW t \in Socks, NEW e \in Ends, NEW m \in ToSet(net'[t].to[e])
          PROVE  m \in ToSet(net[t].to[e]) \/ (m = ApiReply(inMsg.n) /\ e = "cli")
      BY <1>0, <2>1, PutSets
    <3> QED  BY <3>1, WireMessages DEF Fitting
  <2>4. /\ UNCHANGED <<client, agent, listenQ, made>> /\ pc.agent = "sending"
        /\ pc'.agent \in {"sendEnd", "resend"} /\ pc'.api = pc.api /\ pc'.svrMgr = pc.svrMgr
    BY <1>0, <1>10 DEF sendApiReply, Labels
  <2> QED  BY <2>2, <2>3, <2>4, SockKeeps, WireKeeps DEF client, agent, Replying
<1>11. CASE resendApiReply
  <2>1. /\ UNCHANGED <<client, inMsg, newSock, reconnSock, listenQ, made, faults>>
        /\ pc'.agent = "sendEnd" /\ pc'.api = pc.api /\ pc'.svrMgr = pc.svrMgr
    BY <1>0, <1>11 DEF resendApiReply, Labels
  <2>2. CASE comm' = comm /\ net' = net
    BY <1>3, <2>1, <2>2 DEF Replying
  <2>3. CASE net' # net
    <3>1. /\ comm'.peerState = "PROCESSING"
          /\ \A t \in Socks :
               /\ \A x : x \in net'[t].ends => x \in net[t].ends
               /\ net'[t].to["svr"] = net[t].to["svr"]
               /\ \/ net'[t].to["cli"] = net[t].to["cli"]
                  \/ net'[t].to["cli"] = Append(net[t].to["cli"], ApiReply(inMsg.n))
      BY <1>11, <2>3, ResendGives
    <3>2. Fewer
      BY <3>1 DEF Fewer
    <3>3. \A t \in Socks : ToSet(Append(net[t].to["cli"], ApiReply(inMsg.n))) =
                           ToSet(net[t].to["cli"]) \cup {ApiReply(inMsg.n)}
      BY <1>0, NetQueue, AppendElements
    <3>4. Fitting
      <4>1. ASSUME NEW t \in Socks, NEW e \in Ends, NEW m \in ToSet(net'[t].to[e])
            PROVE  m \in ToSet(net[t].to[e]) \/ (m = ApiReply(inMsg.n) /\ e = "cli")
        <5>1. CASE e = "svr"
          BY <3>1, <4>1, <5>1
        <5>2. CASE e = "cli"
          BY <3>1, <3>3, <4>1, <5>2
        <5> QED  BY <5>1, <5>2, Constants
      <4> QED  BY <4>1, WireMessages DEF Fitting
    <3>5. comm'.peerState = comm.peerState
      BY <3>1 DEF WireInv
    <3> QED  BY <2>1, <3>2, <3>4, <3>5, SockKeeps, WireKeeps DEF client, Replying
  <2>4. CASE net' = net /\ comm' # comm
    <3>1. comm'.peerState = "PROCESSING"
      BY <1>11, <2>4, ResendGives
    <3> QED  BY <1>3, <2>1, <2>4, <3>1 DEF Replying, WireInv
  <2> QED  BY <2>2, <2>3, <2>4
<1> QED  BY <1>4, <1>5, <1>6, <1>7, <1>8, <1>9, <1>10, <1>11 DEF Agent

\* A turn starts from what readReconMsg has left, or from where the manager waited.
Taken(N) ==
  /\ \A t \in Socks :
       /\ N[t].ends = net[t].ends /\ N[t].up = net[t].up
       /\ N[t].to["cli"] = net[t].to["cli"]
       /\ N[t].to["svr"] = IF t = newSock THEN Tail(net[t].to["svr"]) ELSE net[t].to["svr"]
  /\ net[newSock].to["svr"] # <<>>

LEMMA TurnStep ==
  ASSUME Wired, svrMgrRecv \/ svrMgrWoken
  PROVE  /\ newSock \in Socks /\ OtherSide /\ pc'.agent = pc.agent
         /\ UNCHANGED <<inMsg, newSock, reconnSock, listenQ, made, faults>>
         /\ comm'.peerState = "PROCESSING" /\ comm'.state = comm.state
         /\ \E C \in CommType, N \in Network :
              /\ C.sock = comm.sock /\ C.state = comm.state
              /\ \/ pc.svrMgr = "recv" /\ C.reconnectedSock = newSock /\ Taken(N)
                 \/ pc.svrMgr = "woken" /\ C.reconnectedSock = comm.reconnectedSock /\ N = net
              /\ TurnWaits(C, N) \/ TurnAnswers(C, N) \/ TurnFails(C, N)
<1> USE DEF Wired, Types
<1>0. /\ comm \in CommType /\ pc \in Labels /\ net \in Network
      /\ "svr" \in Ends /\ "cli" \in Ends /\ comm.peerState = "PROCESSING"
  BY Constants DEF TypeInv, WireInv
<1>1. /\ newSock \in Socks /\ pc.svrMgr \in {"recv", "woken"}
      /\ UNCHANGED <<client, inMsg, newSock, reconnSock, listenQ, made, faults>>
  BY DEF svrMgrRecv, svrMgrWoken, TypeInv, ControlInv, Greeting
<1>2. CASE svrMgrWoken
  <2>1. svrMgrTurn(comm, net) /\ pc.svrMgr = "woken"
    BY <1>2 DEF svrMgrWoken
  <2>2. /\ TurnWaits(comm, net) \/ TurnAnswers(comm, net) \/ TurnFails(comm, net)
        /\ comm'.peerState = "PROCESSING" /\ comm'.state = comm.state
    BY <1>0, <1>1, <2>1, TurnGives
  <2>3. pc' = [pc EXCEPT !.svrMgr = pc'.svrMgr] /\ pc'.svrMgr \in {"select", "wait"}
    BY <1>0, <1>1, <2>1, TurnTypes
  <2>4. pc' \in Labels /\ pc'.api = pc.api /\ pc'.cliMgr = pc.cliMgr /\ pc'.agent = pc.agent
    BY <1>0, <2>3 DEF Labels
  <2> QED  BY <1>0, <1>1, <2>1, <2>2, <2>4 DEF OtherSide
<1>3. CASE svrMgrRecv
  <2> DEFINE h == Head(net[newSock].to["svr"])
             C == [comm EXCEPT !.peerState = h.state, !.reconnectedSock = newSock]
             N == Take(net, newSock, "svr")
  <2>1. /\ svrMgrTurn(C, N) /\ pc.svrMgr = "recv" /\ net[newSock].to["svr"] # <<>>
    BY <1>3 DEF svrMgrRecv, HasMsg
  <2>2. h \in ToSet(net[newSock].to["svr"])
    BY <1>0, <1>1, <2>1, TakeSets
  <2>3. h.state = "PROCESSING"
    BY <1>0, <1>1, <2>2 DEF WireInv, WireMsg
  <2> HIDE DEF h
  <2>4. /\ C \in CommType /\ C.peerState = "PROCESSING" /\ C.reconnectedSock = newSock
        /\ C.sock = comm.sock /\ C.state = comm.state
    BY <1>0, <1>1, <2>3 DEF CommType, ProcStates
  <2>5. N \in Network /\ Taken(N)
    BY <1>0, <1>1, <2>1, TakeNet DEF Taken
  <2> HIDE DEF C, N
  <2>6. /\ TurnWaits(C, N) \/ TurnAnswers(C, N) \/ TurnFails(C, N)
        /\ comm'.peerState = "PROCESSING" /\ comm'.state = C.state
    BY <1>1, <2>1, <2>4, <2>5, TurnGives
  <2>7. pc' = [pc EXCEPT !.svrMgr = pc'.svrMgr] /\ pc'.svrMgr \in {"select", "wait"}
    BY <1>1, <2>1, <2>4, <2>5, TurnTypes
  <2>8. pc' \in Labels /\ pc'.api = pc.api /\ pc'.cliMgr = pc.cliMgr /\ pc'.agent = pc.agent
    BY <1>0, <2>7 DEF Labels
  <2> QED  BY <1>1, <2>1, <2>4, <2>5, <2>6, <2>8 DEF OtherSide
<1> QED  BY <1>2, <1>3

\* svrMgrFails resets the connections that nobody has accepted.
LEMMA FailsGives ==
  ASSUME Types, svrMgrFails
  PROVE  /\ pc.svrMgr = "select" /\ pc' \in Labels /\ pc'.svrMgr = "gone" /\ pc'.agent = pc.agent
         /\ pc'.api = pc.api /\ pc'.cliMgr = pc.cliMgr
         /\ listenQ' = <<>> /\ reconnSock' = FALSE /\ faults' = faults + 1
         /\ UNCHANGED <<client, comm, inMsg, newSock, made>>
         /\ \A t \in Socks : \A x : x \in net'[t].ends => x \in net[t].ends
         /\ SameUp /\ SameQueues
<1>1. pc \in Labels /\ net \in Network /\ "svr" \in Ends
  BY Constants DEF Types, TypeInv
<1>2. /\ listenQ' = <<>> /\ reconnSock' = FALSE /\ faults' = faults + 1 /\ pc.svrMgr = "select"
      /\ UNCHANGED <<client, comm, inMsg, newSock, made>>
      /\ pc' = [pc EXCEPT !.svrMgr = "gone"]
  BY DEF svrMgrFails, Fault
<1>3. \A s \in Socks : net'[s] = Close(net, s, "svr")[s] \/ net'[s] = net[s]
  BY DEF svrMgrFails
<1>4. pc' \in Labels /\ pc'.agent = pc.agent /\ pc'.svrMgr = "gone"
      /\ pc'.api = pc.api /\ pc'.cliMgr = pc.cliMgr
  BY <1>1, <1>2 DEF Labels
<1>5. \A s \in Socks :
        /\ \A x : x \in Close(net, s, "svr")[s].ends => x \in net[s].ends
        /\ Close(net, s, "svr")[s].up = net[s].up /\ Close(net, s, "svr")[s].to = net[s].to
  BY <1>1, CloseNet
<1> QED  BY <1>2, <1>3, <1>4, <1>5 DEF SameUp, SameQueues

LEMMA SvrMgrWired ==
  ASSUME Wired, SvrMgr
  PROVE  SockInv' /\ WireInv'
<1> USE DEF Wired, Types
<1>0. /\ comm \in CommType /\ pc \in Labels /\ net \in Network /\ listenQ \in Seq(Socks)
      /\ "cli" \in Ends /\ "svr" \in Ends /\ Ends = {"cli", "svr"}
  BY Constants DEF TypeInv
<1>1. CASE svrMgrAccept
  <2>1. /\ newSock' = Head(listenQ) /\ listenQ' = Tail(listenQ) /\ listenQ # <<>>
        /\ UNCHANGED <<client, comm, inMsg, net, made>>
        /\ pc' = [pc EXCEPT !.svrMgr = "recv"]
    BY <1>1 DEF svrMgrAccept
  <2>2. pc'.svrMgr = "recv" /\ pc'.api = pc.api /\ pc'.agent = pc.agent
    BY <1>0, <2>1 DEF Labels
  <2>3. /\ ToSet(listenQ) = ToSet(listenQ') \cup {newSock'} /\ newSock' \notin ToSet(listenQ')
        /\ IsInjective(listenQ')
    BY <1>0, <2>1, TailElements DEF SockInv
  <2>4. newSock' <= made
    <3>1. newSock' \in 1..made
      BY <2>3 DEF SockInv
    <3> QED  BY <3>1 DEF TypeInv, Socks
  <2>5. SockInv'
    BY <2>1, <2>3, <2>4 DEF SockInv, client
  <2>6. WireInv'
    BY <2>1, <2>2, SameNet, WireKeeps
  <2> QED  BY <2>5, <2>6
<1>2. CASE svrMgrFails
  <2>1. Fewer /\ Fitting
    BY <1>2, FailsGives DEF Fewer, Fitting, SameQueues
  <2>2. /\ listenQ' = <<>> /\ pc'.svrMgr = "gone" /\ pc'.api = pc.api /\ pc'.agent = pc.agent
        /\ UNCHANGED <<client, comm, inMsg, newSock, made>>
    BY <1>2, FailsGives
  <2>3. ToSet(listenQ') = {} /\ IsInjective(listenQ')
    BY <2>2, EmptyElements
  <2>4. SockInv'
    <3>1. \A s \in Socks : "cli" \in net'[s].ends => s \in {conn.sock, conn.reconnectedSock}
      BY <2>1 DEF Fewer, SockInv
    <3> QED  BY <2>2, <2>3, <3>1 DEF SockInv, Greeting, client
  <2> QED  BY <2>1, <2>2, <2>4, WireKeeps
<1>3. CASE svrMgrRecvFails
  <2>1. /\ net' = Close(net, newSock, "svr") /\ UNCHANGED <<client, agent, listenQ, made>>
        /\ pc' = [pc EXCEPT !.svrMgr = "select"] /\ newSock \in Socks
    BY <1>3 DEF svrMgrRecvFails, ControlInv, TypeInv, Greeting
  <2>2. pc'.svrMgr = "select" /\ pc'.api = pc.api /\ pc'.agent = pc.agent
    BY <1>0, <2>1 DEF Labels
  <2>3. \A t \in Socks : (\A x : x \in net'[t].ends => x \in net[t].ends) /\ net'[t].to = net[t].to
    BY <1>0, <2>1, CloseNet
  <2>4. Fewer /\ Fitting
    BY <2>3 DEF Fewer, Fitting
  <2> QED  BY <2>1, <2>2, <2>4, SockKeeps, WireKeeps DEF Greeting, client, agent
<1>4. CASE svrMgrRecv \/ svrMgrWoken
  <2>1. /\ newSock \in Socks /\ OtherSide /\ pc'.agent = pc.agent
        /\ UNCHANGED <<inMsg, newSock, reconnSock, listenQ, made, faults>>
        /\ comm'.peerState = "PROCESSING"
    BY <1>4, TurnStep
  <2>2. PICK C \in CommType, N \in Network :
              /\ \/ pc.svrMgr = "recv" /\ C.reconnectedSock = newSock /\ Taken(N)
                 \/ pc.svrMgr = "woken" /\ C.reconnectedSock = comm.reconnectedSock /\ N = net
              /\ TurnWaits(C, N) \/ TurnAnswers(C, N) \/ TurnFails(C, N)
    BY <1>4, TurnStep
  <2>3. \A t \in Socks, e \in Ends : \A m \in ToSet(N[t].to[e]) : m \in ToSet(net[t].to[e])
    <3>1. CASE Taken(N)
      <4>1. ToSet(net[newSock].to["svr"]) =
              ToSet(Tail(net[newSock].to["svr"])) \cup {Head(net[newSock].to["svr"])}
        BY <1>0, <2>1, <3>1, NetQueue, TailElements DEF Taken
      <4> QED  BY <1>0, <3>1, <4>1 DEF Taken
    <3> QED  BY <2>2, <3>1
  <2>4. \A t \in Socks : N[t].ends = net[t].ends
    BY <2>2 DEF Taken
  <2>5. Fewer
    BY <2>2, <2>4 DEF Fewer, TurnWaits, TurnAnswers, TurnFails
  <2>6. Fitting
    <3>1. ASSUME NEW t \in Socks, NEW e \in Ends, NEW m \in ToSet(net'[t].to[e])
          PROVE  m \in ToSet(N[t].to[e]) \/ WireMsg(e, m)
      <4>1. CASE net'[t].to[e] = N[t].to[e]
        BY <3>1, <4>1
      <4>2. CASE e = "cli" /\ net'[t].to[e] = Append(N[t].to[e], Reconn(C.state))
        <5>1. Reconn(C.state) \in Msgs /\ N[t].to[e] \in Seq(Msgs)
          BY Messages, NetQueue DEF CommType
        <5>2. ToSet(net'[t].to[e]) = ToSet(N[t].to[e]) \cup {Reconn(C.state)}
          BY <4>2, <5>1, AppendElements
        <5> QED  BY <3>1, <4>2, <5>2, WireMessages
      <4> QED  BY <2>2, <4>1, <4>2 DEF TurnWaits, TurnAnswers, TurnFails
    <3> QED  BY <2>3, <3>1 DEF Fitting
  <2>7. pc.svrMgr \in Greeting
    BY <2>2 DEF Greeting
  <2> QED  BY <2>1, <2>5, <2>6, <2>7, SockKeeps, WireKeeps DEF OtherSide, client, WireInv
<1> QED  BY <1>1, <1>2, <1>3, <1>4 DEF SvrMgr

\* A wake-up changes nothing but who waits.
LEMMA WakeGives ==
  ASSUME Types, SpuriousWakeup
  PROVE  /\ UNCHANGED <<client, agent, net, listenQ, made, faults>>
         /\ pc' \in Labels /\ pc'.agent = pc.agent
         /\ pc'.svrMgr = pc.svrMgr \/ (pc.svrMgr = "wait" /\ pc'.svrMgr = "woken")
         /\ pc'.cliMgr = pc.cliMgr \/ (pc.cliMgr = "wait" /\ pc'.cliMgr = "woken")
         /\ \/ pc'.api = pc.api \/ (pc.api = "sendWait" /\ pc'.api = "sendWoken")
            \/ (pc.api = "readWait" /\ pc'.api = "readWoken")
<1>1. pc \in Labels
  BY DEF Types, TypeInv
<1> QED  BY <1>1, SignalApiGives DEF SpuriousWakeup, SignalMgr, Labels

LEMMA BreakGives ==
  ASSUME Types, Break
  PROVE  /\ UNCHANGED <<client, agent, listenQ, made, pc>> /\ faults' = faults + 1
         /\ \A t \in Socks :
              /\ net'[t].ends = net[t].ends
              /\ \A e \in Ends : net'[t].to[e] = net[t].to[e] \/ net'[t].to[e] = <<>>
<1>1. UNCHANGED <<client, agent, listenQ, made, pc>> /\ faults' = faults + 1 /\ net \in Network
  BY DEF Break, Fault, Types, TypeInv
<1>2. PICK s \in Socks : net' = [net EXCEPT ![s].up = FALSE, ![s].to = [e \in Ends |-> <<>>]]
  BY DEF Break
<1> QED  BY <1>1, <1>2 DEF Network

LEMMA ClientExitGives ==
  ASSUME Types, clientExits
  PROVE  /\ UNCHANGED <<client, agent, listenQ, made, faults, pc>> /\ pc.api = "closed"
         /\ \A t \in Socks : \A x : x \in net'[t].ends => x \in net[t].ends
         /\ SameQueues
<1>1. UNCHANGED <<client, agent, listenQ, made, faults, pc>> /\ pc.api = "closed"
      /\ net \in Network /\ "cli" \in Ends
  BY Constants DEF clientExits, Types, TypeInv
<1>2. \A s \in Socks : net'[s] = Close(net, s, "cli")[s]
  BY DEF clientExits
<1>3. \A s \in Socks :
        /\ \A x : x \in Close(net, s, "cli")[s].ends => x \in net[s].ends
        /\ Close(net, s, "cli")[s].to = net[s].to
  BY <1>1, CloseNet
<1> QED  BY <1>1, <1>2, <1>3 DEF SameQueues

LEMMA RestWired ==
  ASSUME Wired, SpuriousWakeup \/ Break \/ clientExits \/ UNCHANGED vars
  PROVE  SockInv' /\ WireInv'
<1> USE DEF Wired
<1>1. CASE SpuriousWakeup
  <2>1. /\ UNCHANGED <<client, agent, net, listenQ, made, faults>> /\ pc'.agent = pc.agent
        /\ pc'.svrMgr \in Greeting => pc.svrMgr \in Greeting
        /\ pc.api = "closed" => pc'.api = "closed"
    BY <1>1, WakeGives DEF Greeting
  <2> QED  BY <2>1, SameNet, SockKeeps, WireKeeps DEF client, agent
<1>2. CASE Break
  <2>1. UNCHANGED <<client, agent, listenQ, made, pc>>
    BY <1>2, BreakGives
  <2>2. \A t \in Socks :
              /\ net'[t].ends = net[t].ends
              /\ \A e \in Ends : net'[t].to[e] = net[t].to[e] \/ net'[t].to[e] = <<>>
    BY <1>2, BreakGives
  <2>3. Fewer /\ Fitting
    BY <2>2, EmptyElements DEF Fewer, Fitting
  <2> QED  BY <2>1, <2>3, SockKeeps, WireKeeps DEF client, agent
<1>3. CASE clientExits
  <2>1. UNCHANGED <<client, agent, listenQ, made, faults, pc>>
    BY <1>3, ClientExitGives
  <2>2. Fewer /\ Fitting
    BY <1>3, ClientExitGives DEF Fewer, Fitting, SameQueues
  <2> QED  BY <2>1, <2>2, SockKeeps, WireKeeps DEF client, agent
<1>4. CASE UNCHANGED vars
  BY <1>4, SameNet, SockKeeps, WireKeeps DEF vars
<1> QED  BY <1>1, <1>2, <1>3, <1>4

LEMMA WiredStep == Wired /\ [Next]_vars => Wired'
<1>1. Types /\ [Next]_vars => Types'
  BY ApiTypes, CliMgrTypes, AgentTypes, SvrMgrTypes, RestTypes DEF Next, Ended
<1>2. Wired /\ [Next]_vars => SockInv' /\ WireInv'
  BY ApiWired, CliMgrWired, AgentWired, SvrMgrWired, RestWired DEF Next, Ended
<1> QED  BY <1>1, <1>2 DEF Wired

-------------------------------------------------------------------------------
LEMMA AppendTokens ==
  ASSUME NEW q \in Seq(Msgs), NEW m \in Msgs
  PROVE  /\ Clear(q) /\ ~Token(m) => Clear(Append(q, m))
         /\ Clear(q) /\ Token(m) => Single(Append(q, m), m.n)
         /\ \A n : Single(q, n) /\ ~Token(m) => Single(Append(q, m), n)
<1>1. /\ Len(q) \in Nat /\ Len(Append(q, m)) = Len(q) + 1
      /\ \A i \in 1..Len(q) : Append(q, m)[i] = q[i]
      /\ Append(q, m)[Len(q) + 1] = m
  BY AppendProperties, LenProperties
<1>2. \A i \in 1..Len(q) + 1 : i \in 1..Len(q) \/ i = Len(q) + 1
  BY <1>1
<1>3. \A i \in 1..Len(q) : i \in 1..Len(q) + 1 /\ i # Len(q) + 1
  BY <1>1
<1>4. Len(q) + 1 \in 1..Len(q) + 1
  BY <1>1
<1> DEFINE r == Append(q, m)
           k == Len(q) + 1
<1>5. /\ Len(r) = k /\ \A i \in 1..Len(q) : r[i] = q[i] /\ i \in 1..k /\ i # k
      /\ r[k] = m /\ k \in 1..k /\ \A i \in 1..k : i \in 1..Len(q) \/ i = k
  BY <1>1, <1>2, <1>3, <1>4
<1> HIDE DEF r, k
<1>6. Clear(q) /\ ~Token(m) => Clear(r)
  BY <1>5 DEF Clear
<1>7. ASSUME Clear(q), Token(m) PROVE Single(r, m.n)
  <2>1. Token(r[k]) /\ r[k].n = m.n
    BY <1>5, <1>7
  <2>2. \A j \in 1..k : j # k => ~Token(r[j])
    BY <1>5, <1>7 DEF Clear
  <2> QED  BY <1>5, <2>1, <2>2 DEF Single
<1>8. ASSUME NEW n, Single(q, n), ~Token(m) PROVE Single(r, n)
  <2>1. PICK i \in 1..Len(q) : /\ Token(q[i]) /\ q[i].n = n
                               /\ \A j \in 1..Len(q) : j # i => ~Token(q[j])
    BY <1>8 DEF Single
  <2>2. Token(r[i]) /\ r[i].n = n /\ i \in 1..k
    BY <1>5, <2>1
  <2>3. \A j \in 1..k : j # i => ~Token(r[j])
    BY <1>5, <1>8, <2>1
  <2> QED  BY <1>5, <2>2, <2>3 DEF Single
<1> QED  BY <1>6, <1>7, <1>8 DEF r

LEMMA TailTokens ==
  ASSUME NEW q \in Seq(Msgs), q # <<>>
  PROVE  /\ Clear(q) => Clear(Tail(q)) /\ ~Token(Head(q))
         /\ \A n : Single(q, n) => IF Token(Head(q)) THEN Head(q).n = n /\ Clear(Tail(q))
                                   ELSE Single(Tail(q), n)
<1> DEFINE r == Tail(q)
           k == Len(r)
<1>1. /\ Len(q) \in Nat \ {0} /\ Head(q) = q[1] /\ Len(r) = Len(q) - 1
      /\ \A i \in 1..Len(q) - 1 : r[i] = q[i + 1]
  BY HeadTailProperties, LenProperties
<1>2. /\ k \in Nat /\ Len(q) = k + 1 /\ 1 \in 1..k + 1
      /\ \A i \in 1..k : i + 1 \in 1..k + 1 /\ i + 1 # 1 /\ r[i] = q[i + 1]
      /\ \A i \in 1..k + 1 : i = 1 \/ (i - 1 \in 1..k /\ i = (i - 1) + 1)
      /\ \A i, j \in 1..k : i # j => i + 1 # j + 1
  BY <1>1
<1> HIDE DEF r, k
<1>3. Clear(q) => Clear(r) /\ ~Token(Head(q))
  BY <1>1, <1>2 DEF Clear, k
<1>4. ASSUME NEW n, Single(q, n), Token(Head(q)) PROVE Head(q).n = n /\ Clear(r)
  <2>1. PICK i \in 1..Len(q) : /\ Token(q[i]) /\ q[i].n = n
                               /\ \A j \in 1..Len(q) : j # i => ~Token(q[j])
    BY <1>4 DEF Single
  <2>2. i = 1
    BY <1>1, <1>2, <1>4, <2>1
  <2> QED  BY <1>1, <1>2, <2>1, <2>2 DEF Clear, k
<1>5. ASSUME NEW n, Single(q, n), ~Token(Head(q)) PROVE Single(r, n)
  <2>1. PICK i \in 1..Len(q) : /\ Token(q[i]) /\ q[i].n = n
                               /\ \A j \in 1..Len(q) : j # i => ~Token(q[j])
    BY <1>5 DEF Single
  <2>2. i # 1
    BY <1>1, <1>5, <2>1
  <2>3. i - 1 \in 1..k /\ i = (i - 1) + 1
    BY <1>2, <2>1, <2>2
  <2>4. PICK h \in 1..k : i = h + 1
    BY <2>3
  <2>5. Token(r[h]) /\ r[h].n = n
    BY <1>2, <2>1, <2>4
  <2>6. \A j \in 1..k : j # h => ~Token(r[j])
    BY <1>2, <2>1, <2>4
  <2> QED  BY <2>4, <2>5, <2>6 DEF Single, k
<1> QED  BY <1>3, <1>4, <1>5 DEF r

\* A queue that may lose its token and gets none.
Milder(q, r) ==
  /\ Clear(q) => Clear(r)
  /\ \A n : Single(q, n) => Single(r, n) \/ Clear(r)
Calmer == \A t \in Socks, e \in Ends : Milder(net[t].to[e], net'[t].to[e])

\* A queue to the client that gets nothing.
Lesser(q, r) ==
  /\ \A m \in ToSet(r) : m \in ToSet(q)
  /\ Len(r) <= 1 \/ Len(q) > 1
  /\ q = <<>> => r = <<>>
Lessened == \A t \in Socks : Lesser(net[t].to["cli"], net'[t].to["cli"])

LEMMA QueueSteps ==
  ASSUME NEW q \in Seq(Msgs)
  PROVE  /\ Milder(q, q) /\ Lesser(q, q) /\ Milder(q, <<>>) /\ Lesser(q, <<>>)
         /\ q # <<>> => Milder(q, Tail(q)) /\ Lesser(q, Tail(q))
         /\ \A m \in Msgs : ~Token(m) => Milder(q, Append(q, m))
<1>0. Len(q) \in Nat /\ (q # <<>> => Len(Tail(q)) = Len(q) - 1)
  BY LenProperties, TailElements
<1>1. Milder(q, q) /\ Lesser(q, q)
  BY <1>0 DEF Milder, Lesser
<1>2. Milder(q, <<>>) /\ Lesser(q, <<>>)
  BY EmptyElements DEF Milder, Lesser, Clear
<1>3. ASSUME q # <<>> PROVE Milder(q, Tail(q)) /\ Lesser(q, Tail(q))
  <2>1. Milder(q, Tail(q))
    BY <1>3, TailTokens DEF Milder
  <2>2. ToSet(q) = ToSet(Tail(q)) \cup {Head(q)}
    BY <1>3, TailElements
  <2>3. Len(Tail(q)) <= 1 \/ Len(q) > 1
    BY <1>0, <1>3
  <2> QED  BY <1>3, <2>1, <2>2, <2>3 DEF Lesser
<1>4. \A m \in Msgs : ~Token(m) => Milder(q, Append(q, m))
  BY AppendTokens DEF Milder
<1> QED  BY <1>1, <1>2, <1>3, <1>4

LEMMA SameQueuesCalm ==
  ASSUME Types, SameQueues
  PROVE  Calmer /\ Lessened
<1>1. \A t \in Socks, e \in Ends : net[t].to[e] \in Seq(Msgs)
  BY NetQueue DEF Types, TypeInv
<1> QED  BY <1>1, QueueSteps, Constants DEF SameQueues, Calmer, Lessened

LEMMA TokenKeeps ==
  ASSUME TokenInv, Calmer, call' = call, inMsg' = inMsg, Busy' => Busy,
         pc.api \in Awaiting => pc'.api \in Awaiting
  PROVE  TokenInv'
<1>1. ASSUME AllClear PROVE AllClear'
  BY <1>1 DEF AllClear, Calmer, Milder
<1>2. CASE AllClear
  BY <1>1, <1>2 DEF TokenInv
<1>3. CASE ~AllClear
  <2>1. /\ ~Busy /\ pc.api \in Awaiting
        /\ \E s \in Socks, e \in Ends :
          /\ Single(net[s].to[e], call)
          /\ \A t \in Socks, f \in Ends : <<t, f>> # <<s, e>> => Clear(net[t].to[f])
    BY <1>3 DEF TokenInv
  <2>2. PICK s \in Socks, e \in Ends :
          /\ Single(net[s].to[e], call)
          /\ \A t \in Socks, f \in Ends : <<t, f>> # <<s, e>> => Clear(net[t].to[f])
    BY <2>1
  <2>3. \A t \in Socks, f \in Ends : <<t, f>> # <<s, e>> => Clear(net'[t].to[f])
    BY <2>2 DEF Calmer, Milder
  <2>4. Single(net'[s].to[e], call) \/ Clear(net'[s].to[e])
    BY <2>2 DEF Calmer, Milder
  <2>5. CASE Clear(net'[s].to[e])
    BY <2>1, <2>3, <2>5 DEF TokenInv, AllClear
  <2>6. CASE Single(net'[s].to[e], call)
    BY <2>1, <2>3, <2>6 DEF TokenInv
  <2> QED  BY <2>4, <2>5, <2>6
<1> QED  BY <1>2, <1>3

LEMMA ReadKeeps ==
  ASSUME Types, Types', ReadInv, Lessened, conn'.sock = conn.sock,
         pc'.cliMgr = "read" => pc.cliMgr = "read" /\ conn'.reconnectedSock = conn.reconnectedSock,
         \A s \in Socks : Pending(s)' => Pending(s)
  PROVE  ReadInv'
<1>1. conn.sock \in Socks /\ (pc.cliMgr = "read" => conn.reconnectedSock \in Socks)
  BY DEF Types, TypeInv, CommType, ControlInv
<1>2. \A m \in ToSet(net'[conn.sock].to["cli"]) : m.type = "API_REPLY"
  BY <1>1 DEF ReadInv, Lessened, Lesser
<1>3. ~Pending(conn.sock)'
  <2>1. ~Pending(conn.sock) /\ (Pending(conn.sock)' => conn'.sock \in Socks /\ \A s \in Socks : s = conn'.sock => Pending(s)')
    BY <1>1 DEF ReadInv, Pending
  <2> QED  BY <1>1, <2>1
<1>4. ASSUME pc'.cliMgr = "read"
      PROVE  /\ Len(net'[conn.reconnectedSock].to["cli"]) <= 1
             /\ Pending(conn.reconnectedSock)' => net'[conn.reconnectedSock].to["cli"] = <<>>
  <2> DEFINE s == conn.reconnectedSock
  <2>1. s \in Socks /\ conn'.reconnectedSock = s
        /\ Len(net[s].to["cli"]) <= 1 /\ (Pending(s) => net[s].to["cli"] = <<>>)
    BY <1>1, <1>4 DEF ReadInv
  <2>2. Lesser(net[s].to["cli"], net'[s].to["cli"])
    BY <2>1 DEF Lessened
  <2>3. Len(net[s].to["cli"]) \in Nat
    BY <2>1, NetQueue, LenProperties, Constants DEF Types, TypeInv
  <2>4. Len(net'[s].to["cli"]) <= 1
    BY <2>1, <2>2, <2>3 DEF Lesser
  <2>5. Pending(conn.reconnectedSock)' => Pending(s)
    <3>1. Pending(conn.reconnectedSock)' => \A u \in Socks : u = conn'.reconnectedSock => Pending(u)'
      BY DEF Pending
    <3> QED  BY <2>1, <3>1
  <2> QED  BY <2>1, <2>2, <2>4, <2>5 DEF Lesser
<1> QED  BY <1>2, <1>3, <1>4 DEF ReadInv

LEMMA GoKeeps ==
  ASSUME Types, Types', Owned, Going' => Going, Calmer, Lessened, call' = call, inMsg' = inMsg,
         Busy' => Busy, pc.api \in Awaiting => pc'.api \in Awaiting,
         conn'.sock = conn.sock,
         pc'.cliMgr = "read" => pc.cliMgr = "read" /\ conn'.reconnectedSock = conn.reconnectedSock,
         \A s \in Socks : Pending(s)' => Pending(s)
  PROVE  Owned'
<1>1. ASSUME Going' PROVE TokenInv' /\ ReadInv'
  BY <1>1, TokenKeeps, ReadKeeps DEF Owned
<1> QED  BY <1>1 DEF Owned

LEMMA OwnedInit == Init => OwnReply /\ Owned
<1> SUFFICES ASSUME Init PROVE OwnReply /\ Owned
  OBVIOUS
<1>1. \A s \in Socks : \A e \in Ends : net[s].to[e] = <<>>
  BY DEF Init
<1>2. /\ conn.sock = 1 /\ listenQ = <<>> /\ newSock = 0 /\ pc.svrMgr = "select"
      /\ pc.agent = "readStart" /\ pc.cliMgr = "sleep" /\ result = "none"
  BY DEF Init, InitComm, NoSock
<1>3. ToSet(<<>>) = {} /\ Clear(<<>>)
  BY EmptyElements DEF Clear
<1>4. TokenInv
  BY <1>1, <1>2, <1>3 DEF TokenInv, AllClear, Busy
<1>5. ReadInv
  BY <1>1, <1>2, <1>3, Constants DEF ReadInv, Pending, Greeting
<1> QED  BY <1>2, <1>4, <1>5 DEF Owned, OwnReply

\* With no new socket at hand the second tries of the client change no socket.
LEMMA NoSecondSocket ==
  ASSUME Types, resendApiRequest \/ rereadApiReply
  PROVE  /\ ~Switches(conn) /\ conn' = conn /\ net' = net
         /\ resendApiRequest => result' = "error"
<1>1. ~Switches(conn)
  BY DEF resendApiRequest, rereadApiReply, Types, TypeInv, ControlInv, Switches, Labels
<1> QED  BY <1>1 DEF resendApiRequest, rereadApiReply, switchConnect, switchNet

\* What the steps of the client's API thread leave alone.
LEMMA ApiGives ==
  ASSUME Types, Api
  PROVE  /\ UNCHANGED <<comm, inMsg, newSock, reconnSock, listenQ, made, faults>>
         /\ pc.api # "closed" /\ pc'.svrMgr = pc.svrMgr /\ pc'.agent = pc.agent
         /\ pc'.cliMgr = pc.cliMgr \/ pc'.cliMgr \in {"woken", "cancelled"}
         /\ conn'.sock = conn.sock /\ conn'.reconnectedSock = conn.reconnectedSock
         /\ (Busy' <=> Busy) /\ \A s \in Socks : Pending(s)' <=> Pending(s)
<1>0. conn \in CommType /\ pc \in Labels
  BY DEF Types, TypeInv
<1>1. /\ UNCHANGED <<comm, inMsg, newSock, reconnSock, listenQ, made, faults>>
      /\ pc.api # "closed" /\ pc'.svrMgr = pc.svrMgr /\ pc'.agent = pc.agent
      /\ pc'.cliMgr = pc.cliMgr \/ pc'.cliMgr \in {"woken", "cancelled"}
  BY <1>0 DEF Api, procApiRequest, readApiReplyRejected, cliChkReconnAtSendStart, SendStartWoken, cliChkReconnAtSendEnd, sendApiRequest,
       resendApiRequest, cliChkReconnAtReadStart, readApiReply, readApiReplyFails, rereadApiReply,
       cliChkReconnAtReadEnd, ReadEndWoken, rcDisconnect, agent, SignalMgr, Labels
<1>2. conn'.sock = conn.sock /\ conn'.reconnectedSock = conn.reconnectedSock
  <2>1. CASE resendApiRequest \/ rereadApiReply
    BY <2>1, NoSecondSocket
  <2>2. CASE ~(resendApiRequest \/ rereadApiReply)
    BY <1>0, <2>2 DEF Api, procApiRequest, readApiReplyRejected, cliChkReconnAtSendStart, SendStartWoken, cliChkReconnAtSendEnd, sendApiRequest,
       cliChkReconnAtReadStart, readApiReply, readApiReplyFails, cliChkReconnAtReadEnd, ReadEndWoken,
       rcDisconnect, client, CommType
  <2> QED  BY <2>1, <2>2
<1>3. (Busy' <=> Busy) /\ \A s \in Socks : Pending(s)' <=> Pending(s)
  BY <1>1 DEF Busy, Pending
<1> QED  BY <1>1, <1>2, <1>3

LEMMA ApiOwned ==
  ASSUME Wired, Wired', OwnReply, Owned, Api
  PROVE  OwnReply' /\ Owned'
<1> USE DEF Wired
<1>0. /\ pc \in Labels /\ net \in Network /\ conn.sock \in Socks
      /\ "cli" \in Ends /\ "svr" \in Ends /\ ApiReq(call) \in Msgs /\ Peer("cli") = "svr"
  BY Constants, Messages DEF Types, TypeInv, CommType
<1>1. /\ UNCHANGED <<comm, inMsg, newSock, reconnSock, listenQ, made, faults>>
      /\ pc.api # "closed" /\ pc'.svrMgr = pc.svrMgr /\ pc'.agent = pc.agent
      /\ pc'.cliMgr = "read" => pc.cliMgr = "read" /\ conn'.reconnectedSock = conn.reconnectedSock
      /\ conn'.sock = conn.sock
      /\ (Busy' <=> Busy) /\ \A s \in Socks : Pending(s)' <=> Pending(s)
  BY ApiGives
<1>2. ASSUME net' = net PROVE Calmer /\ Lessened
  BY <1>2, SameQueuesCalm DEF SameQueues
<1>3. ASSUME ~Going', result' # "ok" PROVE OwnReply' /\ Owned'
  BY <1>3 DEF OwnReply, Owned
<1>13. CASE unread'
  BY <1>13 DEF OwnReply, Owned, Going
<1> SUFFICES ASSUME ~unread' PROVE OwnReply' /\ Owned'
  BY <1>13
<1>14. ~unread
  BY DEF Api, procApiRequest, cliChkReconnAtSendStart, SendStartWoken, cliChkReconnAtSendEnd,
       sendApiRequest, resendApiRequest, cliChkReconnAtReadStart, readApiReplyRejected, readApiReply,
       readApiReplyFails, rereadApiReply, cliChkReconnAtReadEnd, ReadEndWoken, rcDisconnect, client
<1>4. CASE procApiRequest
  <2>1. /\ net' = net /\ result' = "none" /\ result # "error" /\ pc.api = "idle"
    BY <1>4 DEF procApiRequest
  <2>2. TokenInv /\ ReadInv
    BY <1>14, <2>1 DEF Going, Owned
  <2>3. ~Busy /\ AllClear
    BY <2>1, <2>2 DEF TokenInv, Awaiting
  <2>4. ~Busy' /\ AllClear'
    BY <1>1, <2>1, <2>3 DEF AllClear
  <2>5. ReadInv'
    BY <1>1, <1>2, <2>1, <2>2, ReadKeeps
  <2> QED  BY <2>1, <2>4, <2>5 DEF OwnReply, Owned, TokenInv
<1>5. CASE cliChkReconnAtSendStart \/ SendStartWoken \/ cliChkReconnAtReadStart \/ cliChkReconnAtReadEnd \/ ReadEndWoken
  <2>1. net' = net /\ UNCHANGED <<call, result, replied, unread>>
    BY <1>5 DEF cliChkReconnAtSendStart, SendStartWoken, cliChkReconnAtReadStart, cliChkReconnAtReadEnd, ReadEndWoken, client
  <2>2. pc.api \in Awaiting => pc'.api \in Awaiting
    BY <1>0, <1>5 DEF cliChkReconnAtSendStart, SendStartWoken, cliChkReconnAtReadStart,
         cliChkReconnAtReadEnd, ReadEndWoken, SignalMgr,
         Awaiting, Labels
  <2>3. Going' => Going
    BY <1>1, <2>1 DEF Going
  <2>4. Owned'
    BY <1>1, <1>2, <2>1, <2>2, <2>3, GoKeeps
  <2> QED  BY <2>1, <2>4 DEF OwnReply
<1>6. CASE cliChkReconnAtSendEnd
  <2>1. net' = net /\ UNCHANGED <<call, replied, unread>> /\ result' = "input" /\ pc.api = "sending"
    BY <1>6 DEF cliChkReconnAtSendEnd
  <2>2. Going
    BY <1>1, <1>14, <2>1 DEF Going, Types, ControlInv, InCall
  <2>3. pc.api \notin Awaiting
    BY <2>1 DEF Awaiting
  <2>4. Owned'
    BY <1>1, <1>2, <2>1, <2>2, <2>3, GoKeeps
  <2> QED  BY <2>1, <2>4 DEF OwnReply
<1>7. CASE sendApiRequest
  <2>1. /\ net' = Put(net, conn.sock, "cli", ApiReq(call)) /\ pc.api = "sending"
        /\ UNCHANGED <<call, result, replied, unread>>
    BY <1>7 DEF sendApiRequest, client
  <2>2. Going
    BY <1>1, <1>14, <2>1 DEF Going, Types, ControlInv, InCall
  <2>3. ReadInv /\ ~Busy /\ AllClear
    BY <2>1, <2>2 DEF Owned, TokenInv, Awaiting
  <2>4. \A t \in Socks, e \in Ends : net'[t].to[e] =
                   IF t = conn.sock /\ e = "svr" /\ Carries(net, conn.sock) THEN Append(net[t].to[e], ApiReq(call))
                   ELSE net[t].to[e]
    BY <1>0, <2>1, PutNet
  <2>5. TokenInv'
    <3>1. CASE ~Carries(net, conn.sock)
      <4>1. AllClear'
        BY <2>3, <2>4, <3>1 DEF AllClear
      <4> QED  BY <1>1, <2>3, <4>1 DEF TokenInv
    <3>2. CASE Carries(net, conn.sock)
      <4>1. pc'.api = "readStart"
        <5>1. SendStatuses(net, conn.sock, "cli") = {TRUE}
          BY <3>2 DEF SendStatuses, Carries, Ends
        <5>2. pc' = [pc EXCEPT !.api = "readStart"]
          BY <1>7, <5>1 DEF sendApiRequest
        <5> QED  BY <1>0, <5>2 DEF Labels
      <4>2. \A t \in Socks, e \in Ends : <<t, e>> # <<conn.sock, "svr">> => Clear(net'[t].to[e])
        BY <2>3, <2>4 DEF AllClear
      <4>3. Token(ApiReq(call)) /\ ApiReq(call).n = call
        BY DEF Token, ApiReq, Msg
      <4>4. net[conn.sock].to["svr"] \in Seq(Msgs) /\ Clear(net[conn.sock].to["svr"])
        BY <1>0, <2>3, NetQueue DEF AllClear
      <4>5. Single(Append(net[conn.sock].to["svr"], ApiReq(call)), ApiReq(call).n)
        BY <1>0, <4>3, <4>4, AppendTokens
      <4>6. Single(net'[conn.sock].to["svr"], call')
        BY <1>0, <2>1, <2>4, <3>2, <4>3, <4>5
      <4> QED  BY <1>0, <1>1, <2>3, <4>1, <4>2, <4>6 DEF TokenInv, Awaiting
    <3> QED  BY <3>1, <3>2
  <2>6. ReadInv'
    <3>1. \A t \in Socks : net'[t].to["cli"] = net[t].to["cli"]
      BY <1>0, <2>4
    <3>2. Lessened
      BY <1>0, <3>1, NetQueue, QueueSteps DEF Lessened
    <3> QED  BY <1>1, <2>3, <3>2, ReadKeeps
  <2> QED  BY <2>1, <2>5, <2>6 DEF OwnReply, Owned
<1>8. CASE resendApiRequest
  BY <1>3, <1>8, NoSecondSocket DEF Going
<1>9. CASE readApiReply
  <2> DEFINE q == net[conn.sock].to["cli"]
  <2>1. /\ net' = Take(net, conn.sock, "cli") /\ q # <<>> /\ pc.api \in {"reading", "rereading"}
        /\ replied' = (IF Head(q).type = "API_REPLY" THEN Head(q).n ELSE 0) /\ call' = call
    BY <1>9 DEF readApiReply, HasMsg
  <2>2. Going
    BY <1>1, <1>14, <2>1 DEF Going, Types, ControlInv, InCall
  <2>3. TokenInv /\ ReadInv
    BY <2>2 DEF Owned
  <2>4. Head(q).type = "API_REPLY" /\ q \in Seq(Msgs)
    <3>1. Head(q) \in ToSet(q)
      BY <1>0, <2>1, TakeSets
    <3> QED  BY <1>0, <2>3, <3>1, NetQueue DEF ReadInv
  <2>5. Token(Head(q))
    BY <2>4 DEF Token
  <2>6. ~Clear(q)
    BY <2>1, <2>4, <2>5, TailTokens
  <2>7. PICK s \in Socks, e \in Ends :
          /\ ~Busy /\ Single(net[s].to[e], call)
          /\ \A t \in Socks, f \in Ends : <<t, f>> # <<s, e>> => Clear(net[t].to[f])
    BY <1>0, <2>3, <2>6 DEF TokenInv, AllClear
  <2>8. s = conn.sock /\ e = "cli"
    BY <1>0, <2>6, <2>7
  <2>9. Single(q, call)
    BY <2>7, <2>8
  <2>10. Head(q).n = call /\ Clear(Tail(q))
    BY <2>1, <2>4, <2>5, <2>9, TailTokens
  <2>11. \A t \in Socks, f \in Ends : net'[t].to[f] =
            IF t = conn.sock /\ f = "cli" THEN Tail(net[t].to[f]) ELSE net[t].to[f]
    BY <1>0, <2>1, TakeNet
  <2>12. AllClear'
    <3>1. ASSUME NEW t \in Socks, NEW f \in Ends PROVE Clear(net'[t].to[f])
      <4>1. CASE t = conn.sock /\ f = "cli"
        BY <2>10, <2>11, <4>1
      <4>2. CASE ~(t = conn.sock /\ f = "cli")
        BY <2>7, <2>8, <2>11, <4>2
      <4> QED  BY <4>1, <4>2
    <3> QED  BY <3>1 DEF AllClear
  <2>13. Lessened
    BY <1>0, <2>1, <2>4, <2>11, NetQueue, QueueSteps DEF Lessened
  <2>14. ReadInv'
    BY <1>1, <2>3, <2>13, ReadKeeps
  <2> QED  BY <1>1, <2>1, <2>4, <2>7, <2>10, <2>12, <2>14 DEF OwnReply, Owned, TokenInv
<1>10. CASE readApiReplyFails
  <2>1. CASE result' = "error"
    BY <1>3, <2>1 DEF Going
  <2>2. CASE result' # "error"
    <3>1. net' = net /\ UNCHANGED <<call, result, replied, unread>> /\ pc'.api = "reread"
      BY <1>0, <1>10, <2>2 DEF readApiReplyFails, Labels
    <3>2. Going' => Going
      BY <1>1, <3>1 DEF Going
    <3>3. Owned'
      BY <1>1, <1>2, <3>1, <3>2, GoKeeps DEF Awaiting
    <3> QED  BY <3>1, <3>3 DEF OwnReply
  <2> QED  BY <2>1, <2>2
<1>11. CASE rereadApiReply
  <2>1. net' = net /\ UNCHANGED <<call, result, replied, unread>> /\ pc'.api = "rereading"
    BY <1>0, <1>11, NoSecondSocket DEF rereadApiReply, Labels
  <2>2. Going' => Going
    BY <1>1, <2>1 DEF Going
  <2>3. Owned'
    BY <1>1, <1>2, <2>1, <2>2, GoKeeps DEF Awaiting
  <2> QED  BY <2>1, <2>3 DEF OwnReply
<1>12. CASE rcDisconnect
  <2>1. pc'.api = "closed" /\ UNCHANGED <<call, result, replied, unread>>
    BY <1>0, <1>12 DEF rcDisconnect, client, Labels
  <2> QED  BY <2>1 DEF Owned, Going, OwnReply
<1>15. ~readApiReplyRejected
  BY DEF readApiReplyRejected
<1> QED  BY <1>4, <1>5, <1>6, <1>7, <1>8, <1>9, <1>10, <1>11, <1>12, <1>15 DEF Api

LEMMA CliMgrOwned ==
  ASSUME Wired, Wired', OwnReply, Owned, CliMgr
  PROVE  OwnReply' /\ Owned'
<1> USE DEF Wired
<1>0. /\ conn \in CommType /\ pc \in Labels /\ net \in Network /\ conn.sock \in Socks
      /\ "cli" \in Ends /\ "svr" \in Ends /\ Peer("cli") = "svr" /\ listenQ \in Seq(Socks)
      /\ pc.cliMgr = "read" => conn.reconnectedSock \in Socks
  BY Constants DEF Types, TypeInv, CommType, ControlInv
<1>1. /\ UNCHANGED <<comm, inMsg, newSock, call, result, replied, unread>>
      /\ pc'.svrMgr = pc.svrMgr /\ pc'.agent = pc.agent
      /\ pc.api # "closed" /\ pc'.api # "closed" /\ (pc.api \in Awaiting => pc'.api \in Awaiting)
  <2>1. UNCHANGED <<comm, inMsg, newSock, call, result, replied, unread>> /\ pc.cliMgr # "cancelled"
    BY DEF CliMgr, cliMgrNoHost, client, cliReconnManager, cliMgrConnect, cliMgrConnectFails, cliMgrRead, cliMgrReadFails, agent
  <2>2. pc.api # "closed"
    BY <2>1 DEF Types, ControlInv
  <2>3. pc'.svrMgr = pc.svrMgr /\ pc'.agent = pc.agent /\ (pc'.api = pc.api \/ pc'.api = SignalApi(pc).api)
    BY <1>0, SignalApiGives DEF CliMgr, cliMgrNoHost, client, cliReconnManager, cliMgrTurn, cliMgrConnect, cliMgrConnectFails,
       cliMgrRead, cliMgrReadFails, cliMgrGivesUp, Labels
  <2>4. SignalApi(pc).api = CASE pc.api = "sendWait" -> "sendWoken"
                                [] pc.api = "readWait" -> "readWoken" [] OTHER -> pc.api
    BY <1>0, SignalApiGives
  <2> QED  BY <2>1, <2>2, <2>3, <2>4 DEF Awaiting
<1>2. (Going' <=> Going) /\ (Busy' <=> Busy) /\ OwnReply'
  BY <1>1 DEF Going, Busy, OwnReply
<1>3. CASE cliReconnManager \/ cliMgrNoHost \/ cliMgrConnectFails \/ cliMgrReadFails
  <2>1. listenQ' = listenQ /\ conn'.sock = conn.sock /\ pc'.cliMgr # "read"
    BY <1>0, <1>3, SignalApiGives DEF cliReconnManager, cliMgrTurn, cliMgrNoHost, client,
         cliMgrConnectFails, cliMgrReadFails, cliMgrGivesUp, Labels, CommType
  <2>2. SameQueues
    <3>1. CASE cliReconnManager \/ cliMgrNoHost \/ cliMgrConnectFails
      BY <3>1 DEF cliReconnManager, cliMgrNoHost, cliMgrConnectFails, SameQueues
    <3>2. CASE cliMgrReadFails
      <4>1. net' = Close(net, conn.reconnectedSock, "cli") /\ conn.reconnectedSock \in Socks
        BY <1>0, <3>2 DEF cliMgrReadFails
      <4>2. \A t \in Socks : (\A x : x \in net'[t].ends => x \in net[t].ends) /\ net'[t].to = net[t].to
        BY <1>0, <4>1, CloseNet
      <4> QED  BY <4>2 DEF SameQueues
    <3> QED  BY <1>3, <3>1, <3>2
  <2>3. \A s \in Socks : Pending(s)' => Pending(s)
    BY <1>1, <2>1 DEF Pending
  <2>4. Calmer /\ Lessened
    BY <2>2, SameQueuesCalm
  <2> QED  BY <1>1, <1>2, <2>1, <2>3, <2>4, GoKeeps
<1>4. CASE cliMgrConnect
  <2> DEFINE s == made + 1
             q == [e \in Ends |-> IF e = "svr" THEN <<Reconn(conn.state)>> ELSE <<>>]
  <2>1. made \in Socks /\ made < MaxSocks /\ conn.state \in ProcStates
    BY <1>0, <1>4 DEF Types, TypeInv, cliMgrConnect, CommType
  <2>2. s \in Socks /\ s > made /\ s # conn.sock
    BY <1>0, <2>1, BoundsAssumption DEF Socks, SockInv
  <2>3. /\ \A t \in Socks \ {s} : net'[t] = net[t]
        /\ net'[s] = [to |-> q, ends |-> Ends, up |-> TRUE]
        /\ listenQ' = Append(listenQ, s)
        /\ conn' = [conn EXCEPT !.reconnectedSock = s]
    BY <1>0, <1>4, <2>2 DEF cliMgrConnect, Network
  <2>4. conn'.sock = conn.sock /\ conn'.reconnectedSock = s
    BY <1>0, <2>3 DEF CommType
  <2>5. net'[s].to["svr"] = <<Reconn(conn.state)>> /\ net'[s].to["cli"] = <<>>
    BY <1>0, <2>3
  <2> HIDE DEF q, s
  <2>6. ToSet(listenQ') = ToSet(listenQ) \cup {s}
    BY <1>0, <2>2, <2>3, AppendElements
  <2>7. Clear(<<Reconn(conn.state)>>) /\ Clear(<<>>)
    BY DEF Clear, Token, Reconn, Msg
  <2>8. Calmer
    <3>1. ASSUME NEW t \in Socks, NEW e \in Ends PROVE Milder(net[t].to[e], net'[t].to[e])
      <4>1. CASE t = s
        <5>1. Clear(net'[t].to[e])
          BY <2>5, <2>7, <4>1, Constants
        <5> QED  BY <5>1 DEF Milder
      <4>2. CASE t # s
        BY <1>0, <2>3, <4>2, NetQueue, QueueSteps
      <4> QED  BY <4>1, <4>2
    <3> QED  BY <3>1 DEF Calmer
  <2>9. ASSUME Going PROVE ReadInv'
    <3>1. ReadInv
      BY <2>9 DEF Owned
    <3>2. net'[conn.sock] = net[conn.sock]
      BY <1>0, <2>2, <2>3
    <3>3. ~Pending(conn.sock)'
      <4>1. conn.sock \notin ToSet(listenQ')
        BY <2>2, <2>6, <3>1 DEF ReadInv, Pending
      <4> QED  BY <1>1, <2>4, <3>1, <4>1 DEF ReadInv, Pending
    <3> QED  BY <2>4, <2>5, <3>1, <3>2, <3>3 DEF ReadInv
  <2>10. ASSUME Going PROVE TokenInv'
    BY <1>1, <1>2, <2>8, <2>10, TokenKeeps DEF Owned
  <2> QED  BY <1>2, <2>9, <2>10 DEF Owned
<1>5. CASE cliMgrRead
  <2> DEFINE s == conn.reconnectedSock
             C == [conn EXCEPT !.peerState = Head(net[s].to["cli"]).state]
             N == Take(net, s, "cli")
  <2>1. s \in Socks /\ net[s].to["cli"] # <<>> /\ conn.state = "PROCESSING" /\ pc.cliMgr = "read"
        /\ s # conn.sock
    BY <1>0, <1>5 DEF cliMgrRead, HasMsg, Types, ControlInv, SockInv
  <2>2. N \in Network /\ Head(net[s].to["cli"]).state \in ProcStates
    BY <1>0, <2>1, TakeNet, HeadMsg DEF Msgs
  <2>3. C \in CommType /\ C.state = "PROCESSING" /\ C.reconnectedSock = s /\ C.sock = conn.sock
    BY <1>0, <2>1, <2>2 DEF CommType
  <2>4. /\ conn' = switchConnect(C) /\ net' = switchNet(N, C, "cli") /\ listenQ' = listenQ
    BY <1>5, <2>3 DEF cliMgrRead
  <2>5. \A t \in Socks, e \in Ends : N[t].to[e] = IF t = s /\ e = "cli" THEN Tail(net[t].to[e]) ELSE net[t].to[e]
    BY <1>0, <2>1, TakeNet
  <2> HIDE DEF C, N
  <2>6. Switches(C)
    BY <2>1, <2>3, Constants DEF Switches
  <2>7. conn'.sock = s
    BY <2>3, <2>4, <2>6 DEF switchConnect, CommType
  <2>8. pc'.cliMgr = "sleep"
    BY <1>0, <1>5, SignalApiGives DEF cliMgrRead, Labels
  <2>9. \A t \in Socks, e \in Ends : net'[t].to[e] =
              IF C.peerState = "RECEIVING" /\ t = conn.sock /\ e = "svr" /\ Carries(N, C.sock)
              THEN Append(N[t].to[e], Reconn("PROCESSING")) ELSE N[t].to[e]
    BY <1>0, <2>2, <2>3, <2>4, <2>6, SwitchGives
  <2>10. Calmer
    <3>1. ASSUME NEW t \in Socks, NEW e \in Ends PROVE Milder(net[t].to[e], net'[t].to[e])
      <4>1. net[t].to[e] \in Seq(Msgs)
        BY <1>0, NetQueue
      <4>2. CASE t = s /\ e = "cli"
        <5>1. net'[t].to[e] = Tail(net[t].to[e]) /\ net[t].to[e] # <<>>
          BY <2>1, <2>5, <2>9, <4>2
        <5> QED  BY <4>1, <5>1, QueueSteps
      <4>3. CASE ~(t = s /\ e = "cli")
        <5>1. N[t].to[e] = net[t].to[e]
          BY <2>5, <4>3
        <5>2. Reconn("PROCESSING") \in Msgs /\ ~Token(Reconn("PROCESSING"))
          BY Messages DEF ProcStates, Token, Reconn, Msg
        <5>3. net'[t].to[e] = net[t].to[e] \/ net'[t].to[e] = Append(net[t].to[e], Reconn("PROCESSING"))
          BY <2>9, <5>1
        <5> QED  BY <4>1, <5>2, <5>3, QueueSteps
      <4> QED  BY <4>2, <4>3
    <3> QED  BY <3>1 DEF Calmer
  <2>11. ASSUME Going PROVE ReadInv'
    <3>1. Len(net[s].to["cli"]) <= 1 /\ ~Pending(s)
      BY <2>1, <2>11 DEF Owned, ReadInv
    <3>2. net[s].to["cli"] \in Seq(Msgs) /\ net'[s].to["cli"] = Tail(net[s].to["cli"])
      BY <1>0, <2>1, <2>5, <2>9, NetQueue
    <3>3. net'[s].to["cli"] = <<>>
      <4>1. Len(net[s].to["cli"]) \in Nat \ {0} /\ Tail(net[s].to["cli"]) \in Seq(Msgs)
            /\ Len(Tail(net[s].to["cli"])) = Len(net[s].to["cli"]) - 1
        BY <2>1, <3>2, TailElements, EmptySeq
      <4>2. ASSUME NEW n \in Nat \ {0}, n <= 1 PROVE n - 1 = 0
        BY <4>2
      <4>3. Len(Tail(net[s].to["cli"])) = 0
        BY <3>1, <4>1, <4>2
      <4> QED  BY <3>2, <4>1, <4>3, EmptySeq
    <3>4. ~Pending(conn.sock)'
      BY <1>1, <2>4, <2>7, <3>1 DEF Pending
    <3> QED  BY <2>7, <2>8, <3>3, <3>4, EmptyElements DEF ReadInv
  <2>12. ASSUME Going PROVE TokenInv'
    BY <1>1, <1>2, <2>10, <2>12, TokenKeeps DEF Owned
  <2> QED  BY <1>2, <2>11, <2>12 DEF Owned
<1> QED  BY <1>3, <1>4, <1>5 DEF CliMgr

\* A reply put on a socket is the token of the call; one that is lost is no token.
LEMMA ReplyPut ==
  ASSUME Wired, TokenInv, pc.agent \in {"sending", "resend"}, call' = call,
         pc'.agent \notin {"readEnd", "handle", "sending", "resend"}, pc'.api = pc.api,
         \A t \in Socks : net'[t].to["svr"] = net[t].to["svr"],
         NEW s \in Socks,
         \A t \in Socks : t # s => net'[t].to["cli"] = net[t].to["cli"],
         \/ net'[s].to["cli"] = net[s].to["cli"]
         \/ net'[s].to["cli"] = Append(net[s].to["cli"], ApiReply(inMsg.n))
  PROVE  TokenInv' /\ pc.api \in Awaiting
<1>0. ApiReply(inMsg.n) \in Msgs /\ net \in Network /\ Ends = {"cli", "svr"}
  BY Messages, Constants DEF Wired, Types, TypeInv, Msgs
<1>1. inMsg.type = "API_REQ"
  BY DEF Wired, WireInv, Replying
<1>2. Busy
  BY <1>1 DEF Busy
<1>3. inMsg.n = call /\ AllClear /\ pc.api \in Awaiting /\ ~Busy'
  BY <1>2 DEF TokenInv, Busy
<1>4. \A t \in Socks, e \in Ends : <<t, e>> # <<s, "cli">> => Clear(net'[t].to[e])
  BY <1>0, <1>3 DEF AllClear
<1>5. net[s].to["cli"] \in Seq(Msgs) /\ Clear(net[s].to["cli"])
  BY <1>0, <1>3, NetQueue DEF AllClear
<1>6. CASE net'[s].to["cli"] = net[s].to["cli"]
  <2>1. AllClear'
    BY <1>4, <1>5, <1>6 DEF AllClear
  <2> QED  BY <1>3, <2>1 DEF TokenInv
<1>7. CASE net'[s].to["cli"] = Append(net[s].to["cli"], ApiReply(inMsg.n))
  <2>1. Token(ApiReply(inMsg.n)) /\ ApiReply(inMsg.n).n = call
    BY <1>3 DEF Token, ApiReply, Msg
  <2>2. Single(net'[s].to["cli"], call)
    BY <1>0, <1>5, <1>7, <2>1, AppendTokens
  <2> QED  BY <1>0, <1>3, <1>4, <2>2 DEF TokenInv
<1> QED  BY <1>3, <1>6, <1>7

\* A reply does no harm to the reading client: its manager is not in a handshake.
LEMMA ReplyRead ==
  ASSUME Wired, Wired', ReadInv, pc.api \in Awaiting, UNCHANGED <<conn, newSock, listenQ>>,
         pc'.cliMgr = pc.cliMgr, pc'.svrMgr = pc.svrMgr,
         \A t \in Socks : \/ net'[t].to["cli"] = net[t].to["cli"]
                          \/ net'[t].to["cli"] = Append(net[t].to["cli"], ApiReply(inMsg.n))
  PROVE  ReadInv'
<1>0. /\ ApiReply(inMsg.n) \in Msgs /\ net \in Network /\ conn.sock \in Socks /\ "cli" \in Ends
      /\ ApiReply(inMsg.n).type = "API_REPLY"
  BY Messages, Constants DEF Wired, Types, TypeInv, CommType, Msgs, ApiReply, Msg
<1>1. pc.cliMgr # "read"
  BY DEF Wired, Types, ControlInv, Awaiting, InCall
<1>2. net[conn.sock].to["cli"] \in Seq(Msgs)
  BY <1>0, NetQueue
<1>3. ToSet(Append(net[conn.sock].to["cli"], ApiReply(inMsg.n))) =
        ToSet(net[conn.sock].to["cli"]) \cup {ApiReply(inMsg.n)}
  BY <1>0, <1>2, AppendElements
<1>4. \A m \in ToSet(net'[conn.sock].to["cli"]) : m.type = "API_REPLY"
  BY <1>0, <1>3 DEF ReadInv
<1>5. ~Pending(conn.sock)'
  BY DEF ReadInv, Pending
<1> QED  BY <1>1, <1>4, <1>5 DEF ReadInv

LEMMA AgentOwned ==
  ASSUME Wired, Wired', OwnReply, Owned, Agent
  PROVE  OwnReply' /\ Owned'
<1> USE DEF Wired
<1>0. /\ comm \in CommType /\ pc \in Labels /\ net \in Network /\ comm.sock \in Socks
      /\ "cli" \in Ends /\ "svr" \in Ends /\ Peer("svr") = "cli" /\ ApiReply(inMsg.n) \in Msgs
  BY Constants, Messages DEF Types, TypeInv, CommType, Msgs
<1>1. ASSUME UNCHANGED <<client, inMsg>>, pc'.api = pc.api, pc'.cliMgr = pc.cliMgr,
             Calmer, Lessened, Busy' => Busy, \A s \in Socks : Pending(s)' => Pending(s)
      PROVE  OwnReply' /\ Owned'
  <2>1. OwnReply' /\ (Going' => Going)
    BY <1>1 DEF OwnReply, Going, client
  <2> QED  BY <1>1, <2>1, GoKeeps DEF client
<1>2. ASSUME agentExits, UNCHANGED <<client, comm, inMsg, newSock, made>>
      PROVE  OwnReply' /\ Owned'
  <2>1. /\ listenQ' = <<>> /\ pc'.agent = "gone" /\ pc'.svrMgr = "gone"
        /\ pc'.api = pc.api /\ pc'.cliMgr = pc.cliMgr /\ SameQueues
    BY <1>2, ExitGives
  <2>2. ~Busy' /\ \A s \in Socks : ~Pending(s)'
    BY <2>1, EmptyElements DEF Busy, Pending, Greeting
  <2> QED  BY <1>1, <1>2, <2>1, <2>2, SameQueuesCalm
<1>3. ASSUME SameQueues, UNCHANGED <<client, inMsg, newSock, listenQ>>,
             pc'.svrMgr = pc.svrMgr \/ (pc.svrMgr = "wait" /\ pc'.svrMgr = "woken"),
             pc'.api = pc.api, pc'.cliMgr = pc.cliMgr, Busy' => Busy
      PROVE  OwnReply' /\ Owned'
  <2>1. \A s \in Socks : Pending(s)' => Pending(s)
    BY <1>3 DEF Pending, Greeting
  <2> QED  BY <1>1, <1>3, <2>1, SameQueuesCalm
<1>4. CASE agentReadStart \/ agentSendStart
  <2>1. /\ UNCHANGED <<client, inMsg, newSock, reconnSock, listenQ, made, faults>>
        /\ \/ svrChkReconnAtStart("RECEIVING", "reading") /\ pc.agent = "readStart"
           \/ svrChkReconnAtStart("SENDING", "sending") /\ pc.agent = "handle"
    BY <1>4 DEF agentReadStart, agentSendStart
  <2>2. /\ reconnSock => Moved
        /\ ~reconnSock => net' = net
        /\ pc'.agent = "reading" \/ (pc'.agent = "sending" /\ pc.agent = "handle")
        /\ pc'.api = pc.api /\ pc'.cliMgr = pc.cliMgr
        /\ pc'.svrMgr = pc.svrMgr \/ (pc.svrMgr = "wait" /\ pc'.svrMgr = "woken")
    BY <2>1, StartGives DEF ProcStates
  <2>3. SameQueues
    BY <2>2 DEF Moved, SameQueues, Types, TypeInv
  <2>4. Busy' => Busy
    BY <2>1, <2>2 DEF Busy
  <2> QED  BY <1>3, <2>1, <2>2, <2>3, <2>4
<1>5. CASE agentReadEnd \/ agentSendEnd
  <2>1. /\ UNCHANGED <<client, inMsg, newSock, reconnSock, net, listenQ, made, faults>>
        /\ \/ pc.agent = "readEnd" /\ svrChkReconnAtEnd(IF inMsg.type = "API_REQ" THEN "handle" ELSE "readStart")
           \/ svrChkReconnAtEnd("readStart")
    BY <1>5 DEF agentReadEnd, agentSendEnd
  <2>2. /\ pc'.api = pc.api /\ pc'.cliMgr = pc.cliMgr
        /\ pc'.agent = "readStart" \/ (pc'.agent = "handle" /\ pc.agent = "readEnd")
        /\ pc'.svrMgr = pc.svrMgr \/ (pc.svrMgr = "wait" /\ pc'.svrMgr = "woken")
    BY <2>1, EndGives
  <2>3. SameQueues /\ (Busy' => Busy)
    BY <2>1, <2>2 DEF SameQueues, Busy
  <2> QED  BY <1>3, <2>1, <2>2, <2>3
<1>6. CASE agentRead
  <2> DEFINE q == net[comm.sock].to["svr"]
  <2>1. /\ net' = Take(net, comm.sock, "svr") /\ q # <<>> /\ inMsg' = Head(q)
        /\ UNCHANGED <<client, comm, newSock, listenQ>> /\ pc.agent \in {"reading", "rereading"}
        /\ pc' = [pc EXCEPT !.agent = "readEnd"]
    BY <1>6 DEF agentRead, HasMsg
  <2>2. pc'.agent = "readEnd" /\ pc'.api = pc.api /\ pc'.svrMgr = pc.svrMgr /\ pc'.cliMgr = pc.cliMgr
    BY <1>0, <2>1 DEF Labels
  <2>3. \A t \in Socks, f \in Ends : net'[t].to[f] =
            IF t = comm.sock /\ f = "svr" THEN Tail(net[t].to[f]) ELSE net[t].to[f]
    BY <1>0, <2>1, TakeNet
  <2>4. OwnReply' /\ (Going' => Going)
    BY <2>1, <2>2 DEF OwnReply, Going, client
  <2>5. q \in Seq(Msgs)
    BY <1>0, NetQueue
  <2>6. ASSUME Going PROVE ReadInv'
    <3>1. \A t \in Socks : net'[t].to["cli"] = net[t].to["cli"] /\ net[t].to["cli"] \in Seq(Msgs)
      BY <1>0, <2>3, NetQueue
    <3>2. Lessened
      BY <3>1, QueueSteps DEF Lessened
    <3>3. \A s \in Socks : Pending(s)' => Pending(s)
      BY <2>1, <2>2 DEF Pending
    <3> QED  BY <2>1, <2>2, <2>6, <3>2, <3>3, ReadKeeps DEF Owned, client
  <2>7. ASSUME Going PROVE TokenInv'
    <3>1. TokenInv /\ ~Busy
      BY <2>1, <2>7 DEF Owned, Busy
    <3>2. \A t \in Socks, f \in Ends : ~(t = comm.sock /\ f = "svr") => net'[t].to[f] = net[t].to[f]
      BY <2>3
    <3>3. net'[comm.sock].to["svr"] = Tail(q)
      BY <1>0, <2>3
    <3> HIDE DEF q
    <3>4. CASE AllClear
      <4>1. Clear(q)
        BY <1>0, <3>4 DEF AllClear, q
      <4>2. Clear(Tail(q)) /\ ~Token(Head(q))
        BY <2>1, <2>5, <4>1, TailTokens
      <4>3. AllClear'
        BY <3>2, <3>3, <3>4, <4>2 DEF AllClear
      <4>4. ~Busy'
        BY <2>1, <4>2 DEF Busy, Token
      <4> QED  BY <4>3, <4>4 DEF TokenInv
    <3>5. CASE ~AllClear
      <4>1. pc.api \in Awaiting
        BY <3>1, <3>5 DEF TokenInv
      <4>2. PICK s \in Socks, e \in Ends :
              /\ Single(net[s].to[e], call)
              /\ \A t \in Socks, f \in Ends : <<t, f>> # <<s, e>> => Clear(net[t].to[f])
        BY <3>1, <3>5 DEF TokenInv
      <4>3. CASE s = comm.sock /\ e = "svr" /\ Token(Head(q))
        <5>1. Head(q).n = call /\ Clear(Tail(q))
          BY <2>1, <2>5, <4>2, <4>3, TailTokens DEF q
        <5>2. AllClear'
          BY <3>2, <3>3, <4>2, <4>3, <5>1 DEF AllClear
        <5>3. inMsg'.type = "API_REQ" /\ inMsg'.n = call'
          <6>1. inMsg'.type # "API_REPLY"
            BY DEF WireInv
          <6> QED  BY <2>1, <4>3, <5>1, <6>1 DEF Token, client
        <5>4. Busy'
          BY <2>2, <5>3 DEF Busy
        <5> QED  BY <2>2, <4>1, <5>2, <5>3, <5>4 DEF TokenInv
      <4>4. CASE ~(s = comm.sock /\ e = "svr" /\ Token(Head(q)))
        <5>1. ~Token(Head(q)) /\ Milder(q, Tail(q))
          <6>1. CASE s = comm.sock /\ e = "svr"
            BY <2>1, <2>5, <4>4, <6>1, QueueSteps
          <6>2. CASE ~(s = comm.sock /\ e = "svr")
            <7>1. Clear(q)
              BY <1>0, <4>2, <6>2 DEF q
            <7> QED  BY <2>1, <2>5, <7>1, TailTokens, QueueSteps
          <6> QED  BY <6>1, <6>2
        <5>2. ~Busy'
          BY <2>1, <5>1 DEF Busy, Token
        <5>3. CASE s = comm.sock /\ e = "svr"
          <6>1. Single(Tail(q), call) \/ Clear(Tail(q))
            BY <4>2, <5>1, <5>3 DEF Milder, q
          <6>2. \A t \in Socks, f \in Ends : <<t, f>> # <<s, e>> => Clear(net'[t].to[f])
            BY <3>2, <4>2, <5>3
          <6>3. CASE Clear(Tail(q))
            <7>1. AllClear'
              BY <3>3, <5>3, <6>2, <6>3 DEF AllClear
            <7> QED  BY <5>2, <7>1 DEF TokenInv
          <6>4. CASE Single(Tail(q), call)
            <7>1. Single(net'[s].to[e], call') /\ pc'.api \in Awaiting
              BY <2>1, <2>2, <3>3, <4>1, <5>3, <6>4 DEF client
            <7> QED  BY <5>2, <6>2, <7>1 DEF TokenInv
          <6> QED  BY <6>1, <6>3, <6>4
        <5>4. CASE ~(s = comm.sock /\ e = "svr")
          <6>1. Clear(Tail(q))
            <7>1. Clear(q)
              BY <1>0, <4>2, <5>4 DEF q
            <7> QED  BY <2>1, <2>5, <7>1, TailTokens
          <6>2. \A t \in Socks, f \in Ends : <<t, f>> # <<s, e>> => Clear(net'[t].to[f])
            BY <3>2, <3>3, <4>2, <6>1
          <6>3. Single(net'[s].to[e], call') /\ pc'.api \in Awaiting
            BY <2>1, <2>2, <3>2, <4>1, <4>2, <5>4 DEF client
          <6> QED  BY <5>2, <6>2, <6>3 DEF TokenInv
        <5> QED  BY <5>3, <5>4
      <4> QED  BY <4>3, <4>4
    <3> QED  BY <3>4, <3>5
  <2> QED  BY <2>4, <2>6, <2>7 DEF Owned
<1>7. CASE agentReadFails
  <2>1. UNCHANGED <<client, comm, inMsg, newSock, made>>
    BY <1>7 DEF agentReadFails
  <2>2. CASE agentExits
    BY <1>2, <2>1, <2>2
  <2>3. CASE pc' = [pc EXCEPT !.agent = "reread"] /\ UNCHANGED <<net, listenQ, reconnSock>>
    <3>1. pc'.agent = "reread" /\ pc'.api = pc.api /\ pc'.svrMgr = pc.svrMgr /\ pc'.cliMgr = pc.cliMgr
      BY <1>0, <2>3 DEF Labels
    <3> QED  BY <1>3, <2>1, <2>3, <3>1 DEF Busy, SameQueues
  <2> QED  BY <1>7, <2>2, <2>3 DEF agentReadFails
<1>8. CASE agentReadTimeout \/ agentDisconnected
  BY <1>2, <1>8 DEF agentReadTimeout, agentDisconnected
<1>9. CASE agentReread
  <2>1. /\ UNCHANGED <<client, inMsg, newSock, listenQ, made>> /\ pc'.cliMgr = pc.cliMgr
        /\ pc'.agent = "rereading" /\ pc'.api = pc.api /\ pc'.svrMgr = pc.svrMgr
    BY <1>0, <1>9 DEF agentReread, Labels
  <2> QED  BY <1>3, <1>9, <2>1, RereadGives DEF Busy, Moved
<1>10. CASE sendApiReply
  <2>1. net' = Put(net, comm.sock, "svr", ApiReply(inMsg.n))
    BY <1>10 DEF sendApiReply
  <2>2. /\ UNCHANGED <<client, agent, listenQ, made>> /\ pc.agent = "sending"
        /\ pc'.agent \in {"sendEnd", "resend"} /\ pc'.api = pc.api /\ pc'.svrMgr = pc.svrMgr
        /\ pc'.cliMgr = pc.cliMgr
    BY <1>0, <1>10 DEF sendApiReply, Labels
  <2>3. OwnReply' /\ (Going' => Going)
    BY <2>2 DEF OwnReply, Going, client
  <2>4. \A t \in Socks, e \in Ends : net'[t].to[e] =
                   IF t = comm.sock /\ e = "cli" /\ Carries(net, comm.sock)
                   THEN Append(net[t].to[e], ApiReply(inMsg.n)) ELSE net[t].to[e]
    BY <1>0, <2>1, PutNet
  <2>5. CASE Carries(net, comm.sock)
    <3>1. pc'.agent = "sendEnd"
      <4>1. SendStatuses(net, comm.sock, "svr") = {TRUE}
        BY <2>5 DEF SendStatuses, Carries, Ends
      <4>2. pc' = [pc EXCEPT !.agent = "sendEnd"]
        BY <1>10, <4>1 DEF sendApiReply
      <4> QED  BY <1>0, <4>2 DEF Labels
    <3>2. /\ \A t \in Socks : net'[t].to["svr"] = net[t].to["svr"]
          /\ \A t \in Socks : t # comm.sock => net'[t].to["cli"] = net[t].to["cli"]
          /\ net'[comm.sock].to["cli"] = Append(net[comm.sock].to["cli"], ApiReply(inMsg.n))
      BY <1>0, <2>4, <2>5
    <3>3. ASSUME Going PROVE TokenInv' /\ pc.api \in Awaiting
      <4>1. TokenInv /\ call' = call
        BY <2>2, <3>3 DEF Owned, client
      <4> QED  BY <1>0, <2>2, <3>1, <3>2, <4>1, ReplyPut
    <3>4. ASSUME Going PROVE ReadInv'
      <4>1. ReadInv /\ UNCHANGED <<conn, newSock, listenQ>>
        BY <2>2, <3>4 DEF Owned, client, agent
      <4> QED  BY <2>2, <3>2, <3>3, <3>4, <4>1, ReplyRead
    <3> QED  BY <2>3, <3>3, <3>4 DEF Owned
  <2>6. CASE ~Carries(net, comm.sock)
    <3>1. SameQueues
      BY <2>4, <2>6 DEF SameQueues
    <3>2. Busy' => Busy
      BY <2>2 DEF Busy, agent
    <3> QED  BY <1>3, <2>2, <3>1, <3>2 DEF agent
  <2> QED  BY <2>5, <2>6
<1>11. CASE resendApiReply
  <2>1. /\ UNCHANGED <<client, inMsg, newSock, reconnSock, listenQ, made, faults>>
        /\ pc.agent = "resend" /\ pc'.agent = "sendEnd" /\ pc'.api = pc.api /\ pc'.svrMgr = pc.svrMgr
        /\ pc'.cliMgr = pc.cliMgr
    BY <1>0, <1>11 DEF resendApiReply, Labels
  <2>2. CASE net' = net
    BY <1>3, <2>1, <2>2 DEF Busy, SameQueues
  <2>3. CASE net' # net
    <3>1. /\ Switches(comm)
          /\ \A t \in Socks :
               /\ net'[t].to["svr"] = net[t].to["svr"]
               /\ \/ net'[t].to["cli"] = net[t].to["cli"]
                  \/ /\ t = comm.reconnectedSock
                     /\ net'[t].to["cli"] = Append(net[t].to["cli"], ApiReply(inMsg.n))
      BY <1>11, <2>3, ResendGives
    <3>2. comm.reconnectedSock \in Socks
      BY <1>0, <3>1 DEF Switches, CommType
    <3>3. OwnReply' /\ (Going' => Going)
      BY <2>1 DEF OwnReply, Going, client
    <3>4. ASSUME Going PROVE TokenInv' /\ pc.api \in Awaiting
      <4>1. TokenInv /\ call' = call
        BY <2>1, <3>4 DEF Owned, client
      <4>2. /\ pc.agent \in {"sending", "resend"}
            /\ pc'.agent \notin {"readEnd", "handle", "sending", "resend"} /\ pc'.api = pc.api
        BY <2>1
      <4> QED  BY <3>1, <3>2, <4>1, <4>2, ReplyPut
    <3>5. ASSUME Going PROVE ReadInv'
      <4>1. ReadInv /\ UNCHANGED <<conn, newSock, listenQ>>
        BY <2>1, <3>5 DEF Owned, client
      <4> QED  BY <2>1, <3>1, <3>4, <3>5, <4>1, ReplyRead
    <3> QED  BY <3>3, <3>4, <3>5 DEF Owned
  <2> QED  BY <2>2, <2>3
<1> QED  BY <1>4, <1>5, <1>6, <1>7, <1>8, <1>9, <1>10, <1>11 DEF Agent

LEMMA SvrMgrOwned ==
  ASSUME Wired, Wired', OwnReply, Owned, SvrMgr
  PROVE  OwnReply' /\ Owned'
<1> USE DEF Wired
<1>0. /\ comm \in CommType /\ pc \in Labels /\ net \in Network /\ listenQ \in Seq(Socks)
      /\ "cli" \in Ends /\ "svr" \in Ends /\ Ends = {"cli", "svr"} /\ conn.sock \in Socks
      /\ pc.cliMgr = "read" => conn.reconnectedSock \in Socks
  BY Constants DEF Types, TypeInv, CommType, ControlInv
<1>1. ASSUME UNCHANGED <<client, inMsg>>, pc'.api = pc.api, pc'.cliMgr = pc.cliMgr,
             pc'.agent = pc.agent
      PROVE  OwnReply' /\ (Going' <=> Going) /\ (Busy' <=> Busy)
  BY <1>1 DEF OwnReply, Going, client, Busy
<1>2. ASSUME UNCHANGED <<client, inMsg>>, pc'.api = pc.api, pc'.cliMgr = pc.cliMgr,
             pc'.agent = pc.agent, SameQueues, \A s \in Socks : Pending(s)' => Pending(s)
      PROVE  OwnReply' /\ Owned'
  BY <1>1, <1>2, SameQueuesCalm, GoKeeps DEF client
<1>3. CASE svrMgrAccept
  <2>1. /\ newSock' = Head(listenQ) /\ listenQ' = Tail(listenQ) /\ listenQ # <<>>
        /\ UNCHANGED <<client, inMsg, net>> /\ pc.svrMgr = "select"
        /\ pc' = [pc EXCEPT !.svrMgr = "recv"]
    BY <1>3 DEF svrMgrAccept
  <2>2. pc'.api = pc.api /\ pc'.agent = pc.agent /\ pc'.cliMgr = pc.cliMgr
    BY <1>0, <2>1 DEF Labels
  <2>3. ToSet(listenQ) = ToSet(listenQ') \cup {newSock'}
    BY <1>0, <2>1, TailElements
  <2>4. \A s \in Socks : Pending(s)' => Pending(s)
    BY <2>3 DEF Pending
  <2> QED  BY <1>2, <2>1, <2>2, <2>4 DEF SameQueues
<1>4. CASE svrMgrFails
  <2>1. /\ listenQ' = <<>> /\ pc'.svrMgr = "gone" /\ pc'.api = pc.api /\ pc'.agent = pc.agent
        /\ pc'.cliMgr = pc.cliMgr /\ UNCHANGED <<client, comm, inMsg, newSock, made>> /\ SameQueues
    BY <1>4, FailsGives
  <2>2. \A s \in Socks : ~Pending(s)'
    BY <2>1, EmptyElements DEF Pending, Greeting
  <2> QED  BY <1>2, <2>1, <2>2
<1>5. CASE svrMgrRecvFails
  <2>1. /\ net' = Close(net, newSock, "svr") /\ UNCHANGED <<client, agent, listenQ, made>>
        /\ pc' = [pc EXCEPT !.svrMgr = "select"] /\ newSock \in Socks
    BY <1>5 DEF svrMgrRecvFails, Types, ControlInv, TypeInv, Greeting
  <2>2. pc'.svrMgr = "select" /\ pc'.api = pc.api /\ pc'.agent = pc.agent /\ pc'.cliMgr = pc.cliMgr
    BY <1>0, <2>1 DEF Labels
  <2>3. \A t \in Socks : (\A x : x \in net'[t].ends => x \in net[t].ends) /\ net'[t].to = net[t].to
    <3>1. net \in Network /\ "svr" \in Ends /\ newSock \in Socks /\ net' = Close(net, newSock, "svr")
      BY <1>0, <2>1
    <3> QED  BY <3>1, CloseNet
  <2>4. SameQueues
    BY <2>3 DEF SameQueues
  <2>5. \A s \in Socks : Pending(s)' => Pending(s)
    BY <2>1, <2>2 DEF Pending, Greeting
  <2> QED  BY <1>2, <2>1, <2>2, <2>4, <2>5 DEF agent
<1>6. CASE svrMgrRecv \/ svrMgrWoken
  <2>1. /\ newSock \in Socks /\ UNCHANGED <<client, inMsg, newSock, listenQ>>
        /\ pc'.agent = pc.agent /\ pc'.api = pc.api /\ pc'.cliMgr = pc.cliMgr
    BY <1>6, TurnStep DEF OtherSide
  <2>2. PICK C \in CommType, N \in Network :
              /\ \/ pc.svrMgr = "recv" /\ C.reconnectedSock = newSock /\ Taken(N)
                 \/ pc.svrMgr = "woken" /\ C.reconnectedSock = comm.reconnectedSock /\ N = net
              /\ TurnWaits(C, N) \/ TurnAnswers(C, N) \/ TurnFails(C, N)
    BY <1>6, TurnStep
  <2>3. Pending(newSock) /\ newSock \notin ToSet(listenQ) /\ pc.svrMgr \in Greeting
    BY <2>2 DEF Pending, Greeting, SockInv
  <2>4. \A t \in Socks, e \in Ends : /\ net[t].to[e] \in Seq(Msgs)
                                     /\ \/ N[t].to[e] = net[t].to[e]
                                        \/ net[t].to[e] # <<>> /\ N[t].to[e] = Tail(net[t].to[e])
    <3>1. \A t \in Socks, e \in Ends : net[t].to[e] \in Seq(Msgs)
      BY <1>0, NetQueue
    <3>2. CASE N = net
      BY <3>1, <3>2
    <3>3. CASE Taken(N)
      BY <1>0, <3>1, <3>3 DEF Taken
    <3> QED  BY <2>2, <3>2, <3>3
  <2>5. \A t \in Socks : N[t].to["cli"] = net[t].to["cli"]
    BY <2>2 DEF Taken
  <2>6. Reconn(C.state) \in Msgs /\ ~Token(Reconn(C.state))
    BY Messages DEF CommType, Token, Reconn, Msg
  <2>7. \A t \in Socks, e \in Ends : \/ net'[t].to[e] = N[t].to[e]
                                     \/ /\ t = newSock /\ e = "cli" /\ pc'.svrMgr = "select"
                                        /\ net'[t].to[e] = Append(N[t].to[e], Reconn(C.state))
    BY <2>2 DEF TurnWaits, TurnAnswers, TurnFails
  <2>8. Calmer
    <3>1. ASSUME NEW t \in Socks, NEW e \in Ends PROVE Milder(net[t].to[e], net'[t].to[e])
      <4>1. CASE net'[t].to[e] = N[t].to[e]
        <5>1. net[t].to[e] \in Seq(Msgs)
          BY <2>4
        <5>2. net'[t].to[e] = net[t].to[e]
              \/ (net[t].to[e] # <<>> /\ net'[t].to[e] = Tail(net[t].to[e]))
          BY <2>4, <4>1
        <5> QED  BY <5>1, <5>2, QueueSteps
      <4>2. CASE e = "cli" /\ net'[t].to[e] = Append(N[t].to[e], Reconn(C.state))
        <5>1. net[t].to[e] \in Seq(Msgs) /\ net'[t].to[e] = Append(net[t].to[e], Reconn(C.state))
          BY <2>4, <2>5, <4>2
        <5> QED  BY <2>6, <5>1, QueueSteps
      <4> QED  BY <2>7, <4>1, <4>2
    <3> QED  BY <3>1 DEF Calmer
  <2>9. OwnReply' /\ (Going' <=> Going) /\ (Busy' <=> Busy)
    BY <1>1, <2>1
  <2>10. ASSUME Going PROVE TokenInv'
    BY <2>1, <2>8, <2>9, <2>10, TokenKeeps DEF Owned, client
  <2>11. \A s \in Socks : Pending(s)' => Pending(s)
    BY <2>1, <2>3 DEF Pending
  <2>12. ASSUME Going PROVE ReadInv'
    <3>1. ReadInv
      BY <2>12 DEF Owned
    <3>2. newSock # conn.sock
      BY <2>3, <3>1 DEF ReadInv
    <3>3. net'[conn.sock].to["cli"] = net[conn.sock].to["cli"]
      BY <1>0, <2>5, <2>7, <3>2
    <3>4. ~Pending(conn.sock)' /\ conn' = conn
      BY <1>0, <2>1, <2>11, <3>1 DEF client, ReadInv, Pending
    <3>5. ASSUME pc.cliMgr = "read"
          PROVE  /\ Len(net'[conn.reconnectedSock].to["cli"]) <= 1
                 /\ Pending(conn.reconnectedSock)' => net'[conn.reconnectedSock].to["cli"] = <<>>
      <4> DEFINE s == conn.reconnectedSock
      <4>1. s \in Socks /\ Len(net[s].to["cli"]) <= 1 /\ (Pending(s) => net[s].to["cli"] = <<>>)
        BY <1>0, <3>1, <3>5 DEF ReadInv
      <4>2. CASE net'[s].to["cli"] = N[s].to["cli"]
        <5>1. Pending(conn.reconnectedSock)' => Pending(s)
          BY <2>11, <3>4, <4>1 DEF Pending
        <5> QED  BY <2>5, <4>1, <4>2, <5>1
      <4>3. CASE /\ s = newSock /\ pc'.svrMgr = "select"
                 /\ net'[s].to["cli"] = Append(N[s].to["cli"], Reconn(C.state))
        <5>1. net'[s].to["cli"] = Append(<<>>, Reconn(C.state))
          BY <2>3, <2>5, <4>1, <4>3
        <5>2. Len(net'[s].to["cli"]) = 1
          BY <5>1
        <5>3. ~Pending(conn.reconnectedSock)'
          BY <2>1, <2>3, <3>4, <4>3 DEF Pending, Greeting
        <5> QED  BY <5>2, <5>3
      <4> QED  BY <1>0, <2>7, <4>1, <4>2, <4>3
    <3> QED  BY <2>1, <3>1, <3>3, <3>4, <3>5 DEF ReadInv
  <2> QED  BY <2>9, <2>10, <2>12 DEF Owned
<1> QED  BY <1>3, <1>4, <1>5, <1>6 DEF SvrMgr

LEMMA RestOwned ==
  ASSUME Wired, Wired', OwnReply, Owned, SpuriousWakeup \/ Break \/ clientExits \/ UNCHANGED vars
  PROVE  OwnReply' /\ Owned'
<1> USE DEF Wired
<1>1. CASE SpuriousWakeup
  <2>1. /\ UNCHANGED <<client, agent, net, listenQ, made, faults>> /\ pc'.agent = pc.agent
        /\ pc'.svrMgr = pc.svrMgr \/ (pc.svrMgr = "wait" /\ pc'.svrMgr = "woken")
        /\ pc'.cliMgr = "read" => pc.cliMgr = "read"
        /\ pc'.api # "closed" => pc.api # "closed"
        /\ pc.api \in Awaiting => pc'.api \in Awaiting
    BY <1>1, WakeGives DEF Awaiting
  <2>2. \A s \in Socks : Pending(s)' => Pending(s)
    BY <2>1 DEF Pending, Greeting, agent
  <2>3. OwnReply' /\ (Going' => Going) /\ (Busy' => Busy)
    BY <2>1 DEF OwnReply, Going, Busy, client, agent
  <2>4. Calmer /\ Lessened
    BY <2>1, SameQueuesCalm DEF SameQueues
  <2> QED  BY <2>1, <2>2, <2>3, <2>4, GoKeeps DEF client, agent
<1>2. CASE Break
  <2>1. UNCHANGED <<client, agent, listenQ, made, pc>>
    BY <1>2, BreakGives
  <2>2. \A t \in Socks, e \in Ends : net'[t].to[e] = net[t].to[e] \/ net'[t].to[e] = <<>>
    BY <1>2, BreakGives
  <2>3. \A t \in Socks, e \in Ends : net[t].to[e] \in Seq(Msgs)
    BY NetQueue DEF Types, TypeInv
  <2>4. Calmer /\ Lessened
    BY <2>2, <2>3, QueueSteps, Constants DEF Calmer, Lessened
  <2>5. \A s \in Socks : Pending(s)' => Pending(s)
    BY <2>1 DEF Pending, agent
  <2>6. OwnReply' /\ (Going' => Going) /\ (Busy' => Busy)
    BY <2>1 DEF OwnReply, Going, Busy, client, agent
  <2> QED  BY <2>1, <2>4, <2>5, <2>6, GoKeeps DEF client, agent
<1>3. CASE clientExits
  <2>1. UNCHANGED <<client, agent, listenQ, made, faults, pc>> /\ pc.api = "closed"
    BY <1>3, ClientExitGives
  <2> QED  BY <2>1 DEF Owned, Going, OwnReply, client
<1>4. CASE UNCHANGED vars
  <2>1. SameQueues /\ \A s \in Socks : Pending(s)' => Pending(s)
    BY <1>4 DEF vars, SameQueues, Pending
  <2>2. OwnReply' /\ (Going' => Going) /\ (Busy' => Busy)
    BY <1>4 DEF OwnReply, Going, Busy, vars
  <2> QED  BY <1>4, <2>1, <2>2, SameQueuesCalm, GoKeeps DEF vars
<1> QED  BY <1>1, <1>2, <1>3, <1>4

OwnWired == Wired /\ OwnReply /\ Owned

LEMMA OwnStep == OwnWired /\ [Next]_vars => OwnWired'
BY WiredStep, ApiOwned, CliMgrOwned, AgentOwned, SvrMgrOwned, RestOwned DEF Next, Ended, OwnWired

LEMMA OwnInit == Init => OwnWired
BY TypeInit, WiredInit, OwnedInit DEF OwnWired, Wired, Types

\* A call that returns a good status returns the reply to its own request
\* (readAndProcApiReply), whatever the renewals, broken connections, second
\* tries of a send or a read and exhausted reads on the way, up to the first call
\* that returns from readAndProcApiReply without reading its reply.
THEOREM ReconnectOwnReply == Spec => []OwnReply
<1>1. OwnWired => OwnReply
  BY DEF OwnWired
<1> QED  BY <1>1, OwnInit, OwnStep, PTL DEF Spec

-------------------------------------------------------------------------------
\* The agent's sockets have been made.
LEMMA AgentSocksStep ==
  ASSUME Wired, AgentSocks, [Next]_vars
  PROVE  AgentSocks'
<1> USE DEF Wired
<1>0. /\ comm \in CommType /\ pc \in Labels /\ made \in Nat
      /\ newSock <= made /\ NoSock <= made
  BY Constants DEF Types, TypeInv, SockInv, NoSock
<1>1. CASE Api
  BY <1>1, ApiGives DEF AgentSocks
<1>2. CASE CliMgr
  <2>1. comm' = comm /\ (made' = made \/ made' = made + 1)
    BY <1>2 DEF CliMgr, cliMgrNoHost, client, cliReconnManager, cliMgrConnect, cliMgrConnectFails, cliMgrRead, cliMgrReadFails, agent
  <2>2. comm.sock \in Nat /\ comm.reconnectedSock \in Nat
    <3>1. \A s \in Socks \cup {NoSock} : s \in Nat
      BY Constants DEF NoSock
    <3> QED  BY <1>0, <3>1 DEF CommType
  <2>3. \A a \in Nat : a <= made => a <= made + 1
    BY <1>0
  <2> QED  BY <2>1, <2>2, <2>3 DEF AgentSocks
<1>3. CASE Agent
  <2>1. /\ comm'.sock \in {comm.sock, comm.reconnectedSock}
        /\ comm'.reconnectedSock \in {comm.reconnectedSock, NoSock}
    <3>1. CASE agentReadStart \/ agentSendStart
      <4>1. \/ svrChkReconnAtStart("RECEIVING", "reading")
            \/ svrChkReconnAtStart("SENDING", "sending")
        BY <3>1 DEF agentReadStart, agentSendStart
      <4>2. Moved \/ comm' = comm
        BY <4>1, StartGives DEF ProcStates, Types, TypeInv
      <4> QED  BY <4>2 DEF Moved
    <3>2. CASE agentReread
      BY <3>2, RereadGives DEF Moved
    <3>3. CASE resendApiReply
      BY <3>3, ResendGives
    <3>4. CASE agentReadEnd \/ agentSendEnd
      <4>1. \E l \in {"readStart", "handle"} : svrChkReconnAtEnd(l)
        BY <3>4 DEF agentReadEnd, agentSendEnd
      <4> QED  BY <4>1, EndGives
    <3>5. CASE agentRead \/ agentReadFails \/ agentReadTimeout \/ agentDisconnected \/ sendApiReply
      BY <3>5 DEF agentRead, agentReadFails, agentReadTimeout, agentDisconnected, sendApiReply, agent
    <3> QED  BY <1>3, <3>1, <3>2, <3>3, <3>4, <3>5 DEF Agent
  <2>2. made' = made
    BY <1>3 DEF Agent, agentReadStart, agentRead, agentReadFails, agentReread, agentReadTimeout,
         agentReadEnd, agentDisconnected, agentSendStart, sendApiReply, resendApiReply, agentSendEnd
  <2> QED  BY <1>0, <2>1, <2>2 DEF AgentSocks
<1>4. CASE svrMgrRecv \/ svrMgrWoken
  <2>1. made' = made
    BY <1>4, TurnStep
  <2>2. PICK C \in CommType, N \in Network :
              /\ C.sock = comm.sock /\ C.state = comm.state
              /\ \/ pc.svrMgr = "recv" /\ C.reconnectedSock = newSock /\ Taken(N)
                 \/ pc.svrMgr = "woken" /\ C.reconnectedSock = comm.reconnectedSock /\ N = net
              /\ TurnWaits(C, N) \/ TurnAnswers(C, N) \/ TurnFails(C, N)
    BY <1>4, TurnStep
  <2>3. /\ comm'.sock \in {C.sock, C.reconnectedSock}
        /\ comm'.reconnectedSock \in {C.reconnectedSock, NoSock}
    BY <2>2 DEF TurnWaits, TurnAnswers, TurnFails
  <2> QED  BY <1>0, <2>1, <2>2, <2>3 DEF AgentSocks
<1>5. CASE svrMgrAccept \/ svrMgrFails \/ svrMgrRecvFails
  BY <1>5 DEF svrMgrAccept, svrMgrFails, svrMgrRecvFails, AgentSocks, agent
<1>6. CASE SpuriousWakeup \/ Break \/ clientExits \/ UNCHANGED vars
  BY <1>6 DEF SpuriousWakeup, Break, clientExits, vars, AgentSocks, agent
<1> QED  BY <1>1, <1>2, <1>3, <1>4, <1>5, <1>6 DEF Next, SvrMgr, Ended

\* A call is never under way in a handshake.
LEMMA QuietFacts ==
  ASSUME Wired, Still, Quiet
  PROVE  pc.api \in InCall => pc.cliMgr # "read" /\ Before
BY DEF Wired, Types, ControlInv, Quiet, During

\* What is known of the two sides depends on few things.
LEMMA QuietKeeps ==
  ASSUME Quiet, result' # "error", pc'.api \notin {"resend", "reread", "rereading"},
         net' = net, conn'.sock = conn.sock, conn'.reconnectedSock = conn.reconnectedSock,
         comm' = comm, UNCHANGED <<listenQ, newSock, made, inMsg, reconnSock>>,
         pc'.agent = pc.agent, pc'.cliMgr = "read" <=> pc.cliMgr = "read",
         pc'.svrMgr = pc.svrMgr \/ (pc.svrMgr = "wait" /\ pc'.svrMgr = "woken")
  PROVE  Quiet'
<1>1. Calm'
  BY DEF Quiet, Calm, AgentCalm
<1>2. Told' <=> Told
  BY DEF Told, HasMsg
<1>3. ASSUME Before PROVE Before'
  BY <1>2, <1>3 DEF Before, Bound, Carries
<1>4. ASSUME During PROVE During'
  BY <1>2, <1>4 DEF During, Bound, Carries
<1> QED  BY <1>1, <1>3, <1>4 DEF Quiet

LEMMA ApiQuiet ==
  ASSUME Wired, AgentSocks, Still, Quiet, Still', Api
  PROVE  Quiet'
<1> USE DEF Wired
<1>0. /\ pc \in Labels /\ net \in Network /\ conn.sock \in Socks
      /\ "cli" \in Ends /\ "svr" \in Ends /\ ApiReq(call) \in Msgs /\ Peer("cli") = "svr"
  BY Constants, Messages DEF Types, TypeInv, CommType
<1>1. /\ UNCHANGED <<comm, inMsg, newSock, reconnSock, listenQ, made, faults>>
      /\ pc'.svrMgr = pc.svrMgr /\ pc'.agent = pc.agent
      /\ pc'.cliMgr = pc.cliMgr \/ pc'.cliMgr \in {"woken", "cancelled"}
      /\ conn'.sock = conn.sock /\ conn'.reconnectedSock = conn.reconnectedSock
  BY ApiGives
<1>2. /\ result # "error" /\ pc.api \notin {"resend", "reread", "rereading"}
  BY DEF Quiet, Calm
<1>3. CASE \/ procApiRequest \/ cliChkReconnAtSendStart \/ SendStartWoken \/ cliChkReconnAtSendEnd
           \/ cliChkReconnAtReadStart \/ readApiReplyRejected \/ cliChkReconnAtReadEnd \/ ReadEndWoken
  <2>1. net' = net /\ result' # "error" /\ pc'.api \notin {"resend", "reread", "rereading"}
    BY <1>0, <1>2, <1>3 DEF procApiRequest, cliChkReconnAtSendStart, SendStartWoken, cliChkReconnAtSendEnd,
         cliChkReconnAtReadStart, readApiReplyRejected, cliChkReconnAtReadEnd, ReadEndWoken, SignalMgr, client, Labels
  <2>2. pc'.cliMgr = "read" <=> pc.cliMgr = "read"
    BY <1>0, <1>3 DEF procApiRequest, cliChkReconnAtSendStart, SendStartWoken, cliChkReconnAtSendEnd,
         cliChkReconnAtReadStart, readApiReplyRejected, cliChkReconnAtReadEnd, ReadEndWoken, SignalMgr, Labels
  <2> QED  BY <1>1, <2>1, <2>2, QuietKeeps
<1>4. CASE sendApiRequest \/ readApiReply
  <2>1. pc.api \in InCall
    BY <1>4 DEF sendApiRequest, readApiReply, InCall
  <2>2. Before /\ pc.cliMgr # "read"
    BY <2>1, QuietFacts
  <2>3. Carries(net, conn.sock) /\ Bound(conn.sock) /\ listenQ = <<>> /\ pc.svrMgr = "select"
    BY <2>2 DEF Before
  <2>4. pc'.api \in {"readStart", "readEnd"} /\ pc'.cliMgr = pc.cliMgr /\ result' # "error"
    <3>1. CASE sendApiRequest
      <4>1. SendStatuses(net, conn.sock, "cli") = {TRUE}
        BY <2>3 DEF SendStatuses, Carries, Ends
      <4>2. pc' = [pc EXCEPT !.api = "readStart"] /\ result' = result
        BY <3>1, <4>1 DEF sendApiRequest, client
      <4> QED  BY <1>0, <1>2, <4>2 DEF Labels
    <3>2. CASE readApiReply
      BY <1>0, <3>2 DEF readApiReply, Labels
    <3> QED  BY <1>4, <3>1, <3>2
  <2>5. \A t \in Socks :
          /\ net'[t].ends = net[t].ends /\ net'[t].up = net[t].up
          /\ t # conn.sock => net'[t].to["svr"] = net[t].to["svr"]
    <3>1. CASE sendApiRequest
      <4>1. net' = Put(net, conn.sock, "cli", ApiReq(call))
        BY <3>1 DEF sendApiRequest
      <4> QED  BY <1>0, <4>1, PutNet
    <3>2. CASE readApiReply
      <4>1. net' = Take(net, conn.sock, "cli") /\ net[conn.sock].to["cli"] # <<>>
        BY <3>2 DEF readApiReply, HasMsg
      <4> QED  BY <1>0, <4>1, TakeNet
    <3> QED  BY <1>4, <3>1, <3>2
  <2>6. Calm'
    <3>1. \A t \in 1..made : t \in Socks
      BY BoundsAssumption DEF Types, TypeInv, Socks
    <3> QED  BY <1>1, <2>4, <2>5, <3>1 DEF Quiet, Calm, AgentCalm
  <2>7. Bound(conn.sock)'
    <3>1. CASE comm.sock = conn.sock
      BY <1>1, <2>3, <3>1 DEF Bound
    <3>2. CASE comm.sock # conn.sock
      <4>1. net'[comm.sock].to["svr"] = net[comm.sock].to["svr"]
        BY <2>5, <3>2 DEF Types, TypeInv, CommType
      <4>2. Told' <=> Told
        BY <1>1, <4>1 DEF Told, HasMsg
      <4> QED  BY <1>1, <2>3, <3>2, <4>2 DEF Bound
    <3> QED  BY <3>1, <3>2
  <2>8. Carries(net', conn.sock)
    BY <1>0, <2>3, <2>5 DEF Carries
  <2>9. Before'
    BY <1>1, <2>2, <2>3, <2>4, <2>7, <2>8 DEF Before, Carries
  <2> QED  BY <2>6, <2>9 DEF Quiet
<1>5. CASE readApiReplyFails
  <2>1. pc.api \in InCall /\ ~Carries(net, conn.sock)
    BY <1>5 DEF readApiReplyFails, InCall, ReadFails
  <2> QED  BY <2>1, QuietFacts DEF Before
<1>6. CASE resendApiRequest \/ rereadApiReply
  BY <1>2, <1>6 DEF resendApiRequest, rereadApiReply
<1>7. CASE rcDisconnect
  BY <1>0, <1>7 DEF rcDisconnect, Still, Labels
<1> QED  BY <1>3, <1>4, <1>5, <1>6, <1>7 DEF Api

LEMMA AppendHead ==
  ASSUME NEW q \in Seq(Msgs), NEW m \in Msgs
  PROVE  /\ Append(q, m) # <<>>
         /\ Head(Append(q, m)) = IF q = <<>> THEN m ELSE Head(q)
<1>1. /\ Len(q) \in Nat /\ Append(q, m) \in Seq(Msgs) /\ Len(Append(q, m)) = Len(q) + 1
      /\ \A i \in 1..Len(q) : Append(q, m)[i] = q[i]
      /\ Append(q, m)[Len(q) + 1] = m
  BY AppendProperties, LenProperties
<1>2. Append(q, m) # <<>>
  BY <1>1
<1>3. Head(Append(q, m)) = Append(q, m)[1]
  BY <1>1, <1>2, HeadTailProperties
<1>4. CASE q = <<>>
  BY <1>1, <1>3, <1>4
<1>5. CASE q # <<>>
  <2>1. Len(q) \in Nat \ {0} /\ Head(q) = q[1]
    BY <1>5, EmptySeq, HeadTailProperties
  <2>2. 1 \in 1..Len(q)
    BY <2>1
  <2> QED  BY <1>1, <1>3, <1>5, <2>1, <2>2
<1> QED  BY <1>2, <1>4, <1>5

LEMMA CliMgrQuiet ==
  ASSUME Wired, AgentSocks, Still, Quiet, Still', CliMgr
  PROVE  Quiet'
<1> USE DEF Wired
<1>0. /\ conn \in CommType /\ comm \in CommType /\ pc \in Labels /\ net \in Network /\ conn.sock \in Socks
      /\ "cli" \in Ends /\ "svr" \in Ends /\ Peer("cli") = "svr" /\ faults \in Nat
      /\ pc.cliMgr = "read" => conn.reconnectedSock \in Socks
      /\ made \in Nat /\ comm.sock \in Socks
  BY Constants, BoundsAssumption DEF Types, TypeInv, CommType, ControlInv
<1>1. /\ UNCHANGED <<comm, inMsg, newSock, reconnSock, result>>
      /\ pc'.svrMgr = pc.svrMgr /\ pc'.agent = pc.agent
      /\ pc'.api \notin {"resend", "reread", "rereading"}
  <2>1. UNCHANGED <<comm, inMsg, newSock, reconnSock, result>>
    BY DEF CliMgr, cliMgrNoHost, client, cliReconnManager, cliMgrConnect, cliMgrConnectFails, cliMgrRead, cliMgrReadFails, agent
  <2>2. pc'.svrMgr = pc.svrMgr /\ pc'.agent = pc.agent /\ (pc'.api = pc.api \/ pc'.api = SignalApi(pc).api)
    BY <1>0, SignalApiGives DEF CliMgr, cliMgrNoHost, client, cliReconnManager, cliMgrTurn, cliMgrConnect, cliMgrConnectFails,
       cliMgrRead, cliMgrReadFails, cliMgrGivesUp, Labels
  <2>3. SignalApi(pc).api = CASE pc.api = "sendWait" -> "sendWoken"
                                [] pc.api = "readWait" -> "readWoken" [] OTHER -> pc.api
    BY <1>0, SignalApiGives
  <2> QED  BY <2>1, <2>2, <2>3 DEF Quiet, Calm
<1>2. result # "error" /\ reconnSock
  BY DEF Quiet, Calm
<1>3. CASE cliReconnManager
  <2>1. /\ net' = net /\ listenQ' = listenQ /\ made' = made
        /\ conn'.sock = conn.sock /\ conn'.reconnectedSock = conn.reconnectedSock
        /\ pc.cliMgr # "read" /\ pc'.cliMgr # "read"
    BY <1>0, <1>3 DEF cliReconnManager, cliMgrTurn, CommType, Labels
  <2> QED  BY <1>1, <1>2, <2>1, QuietKeeps
<1>4. CASE cliMgrNoHost \/ cliMgrConnectFails
  BY <1>0, <1>2, <1>4 DEF cliMgrNoHost, cliMgrConnectFails, Fault, Still
<1>5. CASE cliMgrReadFails
  <2>1. pc.cliMgr = "read" /\ ~Carries(net, conn.reconnectedSock)
    BY <1>5 DEF cliMgrReadFails, ReadFails
  <2> QED  BY <2>1 DEF Quiet, Before, During
<1>6. CASE cliMgrConnect
  <2> DEFINE s == made + 1
             q == [e \in Ends |-> IF e = "svr" THEN <<Reconn(conn.state)>> ELSE <<>>]
  <2>1. made \in Socks /\ made < MaxSocks /\ conn.state = "PROCESSING" /\ pc.cliMgr = "connect"
    BY <1>6 DEF Types, TypeInv, ControlInv, cliMgrConnect
  <2>2. s \in Socks /\ s # conn.sock /\ s # comm.sock
    BY <1>0, <2>1, BoundsAssumption DEF Socks, SockInv, AgentSocks
  <2>3. /\ \A t \in Socks \ {s} : net'[t] = net[t]
        /\ net'[s] = [to |-> q, ends |-> Ends, up |-> TRUE]
        /\ listenQ' = Append(listenQ, s) /\ made' = s
        /\ conn' = [conn EXCEPT !.reconnectedSock = s]
        /\ pc' = [pc EXCEPT !.cliMgr = "read"]
    BY <1>0, <1>6, <2>2 DEF cliMgrConnect, Network
  <2>4. conn'.sock = conn.sock /\ conn'.reconnectedSock = s /\ pc'.cliMgr = "read"
    BY <1>0, <2>3 DEF CommType, Labels
  <2>5. /\ net'[s].to["svr"] = <<Reconn("PROCESSING")>> /\ net'[s].to["cli"] = <<>>
        /\ net'[s].up /\ net'[s].ends = Ends
    BY <1>0, <2>1, <2>3
  <2>6. \A t \in 1..s : t = s \/ (t \in 1..made /\ t \in Socks /\ t # s)
    BY <1>0, <2>1, BoundsAssumption DEF Socks
  <2> HIDE DEF q, s
  <2>7. /\ Carries(net, conn.sock) /\ Bound(conn.sock) /\ listenQ = <<>> /\ pc.svrMgr = "select"
    BY <2>1 DEF Quiet, Before, During
  <2>8. Calm'
    BY <1>1, <1>2, <2>3, <2>5, <2>6 DEF Quiet, Calm, AgentCalm
  <2>9. net'[comm.sock] = net[comm.sock] /\ net'[conn.sock] = net[conn.sock]
    BY <1>0, <2>2, <2>3
  <2>10. Bound(conn.sock)'
    BY <1>1, <2>4, <2>7, <2>9 DEF Bound, Told, HasMsg
  <2>11. listenQ' = <<s>>
    BY <2>3, <2>7
  <2>12. Before'
    BY <1>1, <2>2, <2>4, <2>5, <2>7, <2>9, <2>10, <2>11 DEF Before, Carries
  <2> QED  BY <2>8, <2>12 DEF Quiet
<1>7. CASE cliMgrRead
  <2> DEFINE s == conn.reconnectedSock
             C == [conn EXCEPT !.peerState = Head(net[s].to["cli"]).state]
             N == Take(net, s, "cli")
  <2>1. s \in Socks /\ net[s].to["cli"] # <<>> /\ conn.state = "PROCESSING" /\ pc.cliMgr = "read"
        /\ s # conn.sock
    BY <1>0, <1>7 DEF cliMgrRead, HasMsg, Types, ControlInv, SockInv
  <2>2. N \in Network /\ Head(net[s].to["cli"]).state \in ProcStates
    BY <1>0, <2>1, TakeNet, HeadMsg DEF Msgs
  <2>3. C \in CommType /\ C.state = "PROCESSING" /\ C.reconnectedSock = s /\ C.sock = conn.sock
        /\ C.peerState = Head(net[s].to["cli"]).state
    BY <1>0, <2>1, <2>2 DEF CommType
  <2>4. /\ conn' = switchConnect(C) /\ net' = switchNet(N, C, "cli") /\ listenQ' = listenQ /\ made' = made
    BY <1>7, <2>3 DEF cliMgrRead
  <2>5. \A t \in Socks : N[t].ends = net[t].ends /\ N[t].up = net[t].up /\ N[t].to["svr"] = net[t].to["svr"]
    BY <1>0, <2>1, TakeNet
  <2> HIDE DEF C, N
  <2>6. Switches(C)
    BY <2>1, <2>3, Constants DEF Switches
  <2>7. conn'.sock = s /\ conn'.reconnectedSock = NoSock
    BY <2>3, <2>4, <2>6 DEF switchConnect, CommType
  <2>8. pc'.cliMgr = "sleep"
    BY <1>0, <1>7, SignalApiGives DEF cliMgrRead, Labels
  <2>9. \A t \in Socks :
          /\ \A x : x \in net'[t].ends <=> x \in net[t].ends /\ ~(t = conn.sock /\ x = "cli")
          /\ net'[t].up = net[t].up
          /\ net'[t].to["svr"] = IF C.peerState = "RECEIVING" /\ t = conn.sock /\ Carries(net, conn.sock)
                                 THEN Append(net[t].to["svr"], Reconn("PROCESSING")) ELSE net[t].to["svr"]
    <3>1. \A t \in Socks :
          /\ \A x : x \in net'[t].ends <=> x \in N[t].ends /\ ~(Switches(C) /\ t = C.sock /\ x = "cli")
          /\ net'[t].up = N[t].up
          /\ net'[t].to["svr"] = IF Switches(C) /\ C.peerState = "RECEIVING" /\ t = C.sock /\ "svr" = Peer("cli")
                                      /\ Carries(N, C.sock)
                                 THEN Append(N[t].to["svr"], Reconn("PROCESSING")) ELSE N[t].to["svr"]
      BY <1>0, <2>2, <2>3, <2>4, SwitchGives
    <3>2. Carries(N, C.sock) <=> Carries(net, conn.sock)
      BY <1>0, <2>3, <2>5 DEF Carries
    <3> QED  BY <1>0, <2>3, <2>5, <2>6, <3>1, <3>2
  <2>12. During /\ pc.svrMgr = "select"
    BY <2>1 DEF Quiet, Before, During
  <2>13. /\ listenQ = <<>> /\ Carries(net, s)
         /\ \/ Bound(s)
            \/ /\ comm.sock = conn.sock /\ comm.reconnectedSock = s /\ pc.agent = "reading"
               /\ Carries(net, conn.sock) /\ Head(net[s].to["cli"]).state = "RECEIVING"
    BY <2>12 DEF During
  <2>14. Calm'
    <3>1. \A t \in 1..made : t \in Socks
      BY BoundsAssumption DEF Types, TypeInv, Socks
    <3> QED  BY <1>1, <2>4, <2>9, <3>1 DEF Quiet, Calm, AgentCalm
  <2>15. Carries(net', s)
    <3>1. \A x : x \in net'[s].ends <=> x \in Ends
      BY <2>1, <2>9, <2>13 DEF Carries
    <3>2. net'[s].ends = Ends
      BY <3>1
    <3> QED  BY <2>1, <2>9, <2>13, <3>2 DEF Carries
  <2>16. net[comm.sock].to["svr"] \in Seq(Msgs) /\ Reconn("PROCESSING") \in Msgs
    BY <1>0, NetQueue, Messages DEF ProcStates
  <2>17. \/ net'[comm.sock].to["svr"] = net[comm.sock].to["svr"]
         \/ net'[comm.sock].to["svr"] = Append(net[comm.sock].to["svr"], Reconn("PROCESSING"))
    BY <1>0, <2>9
  <2>18. Append(net[comm.sock].to["svr"], Reconn("PROCESSING")) # <<>>
    BY <2>16, AppendHead
  <2>19. Told => Told'
    BY <1>1, <2>17, <2>18 DEF Told, HasMsg
  <2>20. Bound(conn.sock)'
    <3>1. CASE Bound(s)
      BY <1>1, <2>7, <2>19, <3>1 DEF Bound
    <3>2. CASE /\ comm.sock = conn.sock /\ comm.reconnectedSock = s /\ pc.agent = "reading"
               /\ Carries(net, conn.sock) /\ Head(net[s].to["cli"]).state = "RECEIVING"
      <4>1. net'[comm.sock].to["svr"] = Append(net[comm.sock].to["svr"], Reconn("PROCESSING"))
        BY <1>0, <2>3, <2>9, <3>2
      <4>2. net'[comm.sock].to["svr"] # <<>>
        BY <2>18, <4>1
      <4>3. Told'
        BY <1>1, <3>2, <4>2 DEF Told, HasMsg
      <4> QED  BY <1>1, <2>1, <2>7, <3>2, <4>3 DEF Bound
    <3> QED  BY <2>13, <3>1, <3>2
  <2>21. Before'
    BY <1>1, <2>4, <2>7, <2>8, <2>12, <2>13, <2>15, <2>20 DEF Before, Carries
  <2> QED  BY <2>14, <2>21 DEF Quiet
<1> QED  BY <1>3, <1>4, <1>5, <1>6, <1>7 DEF CliMgr

LEMMA AgentQuiet ==
  ASSUME Wired, AgentSocks, Still, Quiet, Still', Agent
  PROVE  Quiet'
<1> USE DEF Wired
<1>0. /\ comm \in CommType /\ pc \in Labels /\ net \in Network /\ comm.sock \in Socks
      /\ "cli" \in Ends /\ "svr" \in Ends /\ Peer("svr") = "cli" /\ ApiReply(inMsg.n) \in Msgs
      /\ faults \in Nat /\ conn.sock \in Socks
      /\ pc.cliMgr = "read" => conn.reconnectedSock \in Socks
  <2>1. faults \in Nat
    BY BoundsAssumption DEF Types, TypeInv
  <2>2. ApiReply(inMsg.n) \in Msgs
    BY Messages DEF Types, TypeInv, Msgs
  <2> QED  BY <2>1, <2>2, Constants DEF Types, TypeInv, CommType, ControlInv
<1>1. /\ reconnSock /\ result # "error" /\ AgentCalm /\ pc.svrMgr # "gone"
      /\ pc.api \notin {"resend", "reread", "rereading"}
      /\ \A s \in 1..made : net[s].up /\ s \in Socks
  <2>1. \A t \in 1..made : t \in Socks
    BY BoundsAssumption DEF Types, TypeInv, Socks
  <2> QED  BY <2>1 DEF Quiet, Calm
<1>2. pc.agent \in {"readStart", "handle", "reading", "readEnd", "sending", "sendEnd"}
  BY <1>1 DEF AgentCalm
\* The agent never fails to read: it is told, or its socket carries.
<1>3. pc.agent = "reading" => ~ReadFails(comm.sock, "svr")
  BY DEF Quiet, Before, During, Bound, Told, HasMsg, ReadFails
<1>4. ASSUME UNCHANGED <<client, listenQ, newSock, made, reconnSock>>,
             pc'.api = pc.api, pc'.cliMgr = pc.cliMgr,
             pc'.svrMgr = pc.svrMgr \/ (pc.svrMgr = "wait" /\ pc'.svrMgr = "woken"),
             SameUp, AgentCalm'
      PROVE  Calm'
  BY <1>1, <1>4 DEF Calm, client, SameUp
\* A step that keeps the sockets open and the agent on its way.
<1>5. ASSUME Calm', UNCHANGED <<client, listenQ, newSock, made, reconnSock>>,
             pc'.api = pc.api, pc'.cliMgr = pc.cliMgr,
             pc'.svrMgr = pc.svrMgr \/ (pc.svrMgr = "wait" /\ pc'.svrMgr = "woken"),
             SameUp, \A t \in Socks : net'[t].ends = net[t].ends,
             \A t \in Socks : t # comm.sock => /\ net'[t].to["svr"] = net[t].to["svr"]
                                               /\ net'[t].to["cli"] = net[t].to["cli"],
             \A t \in Socks : net[t].to["cli"] # <<>> => net'[t].to["cli"] # <<>>,
             comm'.sock = comm.sock, comm'.reconnectedSock = comm.reconnectedSock,
             Told => Told', pc.agent # "readStart",
             pc.agent = "reading" => HasMsg(comm.sock, "svr") /\ Told',
             pc.agent = "sending" => pc'.agent = "sendEnd",
             pc.agent = "sendEnd" => pc'.agent = "readStart"
      PROVE  Quiet'
  <2>1. \A t \in Socks : Carries(net', t) <=> Carries(net, t)
    BY <1>5 DEF Carries, SameUp
  <2>2. conn' = conn /\ listenQ' = listenQ /\ newSock' = newSock
    BY <1>5 DEF client
  <2>3. \A s : Bound(s) => Bound(s)'
    BY <1>5 DEF Bound
  <2>4. ASSUME Before PROVE Before'
    <3>1. Bound(conn.sock)'
      BY <2>2, <2>3, <2>4 DEF Before, Bound
    <3>2. Carries(net', conn.sock)
      BY <1>0, <2>1, <2>4 DEF Before
    <3>3. CASE pc.cliMgr # "read"
      BY <1>5, <2>2, <2>4, <3>1, <3>2, <3>3 DEF Before, Carries
    <3>4. CASE pc.cliMgr = "read"
      <4>1. /\ net'[conn.reconnectedSock].to["svr"] = net[conn.reconnectedSock].to["svr"]
            /\ net'[conn.reconnectedSock].to["cli"] = net[conn.reconnectedSock].to["cli"]
            /\ Carries(net', conn.reconnectedSock)
        BY <1>0, <1>5, <2>1, <2>4, <3>4 DEF Before
      <4> QED  BY <1>5, <2>2, <2>4, <3>1, <3>2, <3>4, <4>1 DEF Before, Carries
    <3> QED  BY <3>3, <3>4
  <2>5. ASSUME During PROVE During'
    <3> DEFINE s == conn.reconnectedSock
    <3>1. s \in Socks /\ Carries(net', s) /\ s # conn.sock
      BY <1>0, <2>1, <2>5 DEF During, SockInv
    <3>2. CASE pc.svrMgr = "select"
      <4>1. Bound(conn.reconnectedSock)'
        BY <1>5, <2>2, <2>5, <3>1, <3>2 DEF During, Bound
      <4> QED  BY <1>5, <2>2, <2>5, <3>1, <3>2, <4>1 DEF During, Carries
    <3>3. CASE pc.svrMgr # "select"
      <4>1. /\ net[s].to["cli"] = <<>> /\ net[s].to["svr"] = <<>> /\ newSock = s
            /\ comm.sock = conn.sock /\ comm.reconnectedSock = s
            /\ pc.agent \in {"sending", "sendEnd"} /\ Carries(net, conn.sock)
            /\ pc.svrMgr \in {"wait", "woken"}
        BY <1>5, <2>5, <3>3 DEF During, HasMsg
      <4>2. net'[s].to["cli"] = <<>> /\ net'[s].to["svr"] = <<>> /\ Carries(net', conn.sock)
        BY <1>0, <1>5, <2>1, <3>1, <4>1
      <4>3. \/ pc'.agent = "sendEnd"
            \/ comm'.sock # s /\ pc'.agent = "readStart"
        BY <1>5, <3>1, <4>1
      <4> QED  BY <1>5, <2>2, <2>5, <3>1, <4>1, <4>2, <4>3 DEF During, Carries
    <3> QED  BY <3>2, <3>3
  <2> QED  BY <1>5, <2>4, <2>5 DEF Quiet
<1>6. CASE agentReadStart \/ agentSendStart
  <2>1. /\ UNCHANGED <<client, inMsg, newSock, reconnSock, listenQ, made, faults>>
        /\ \/ svrChkReconnAtStart("RECEIVING", "reading") /\ pc.agent = "readStart"
           \/ svrChkReconnAtStart("SENDING", "sending") /\ pc.agent = "handle"
    BY <1>6 DEF agentReadStart, agentSendStart
  <2>2. /\ Moved
        /\ \/ pc'.agent = "reading" /\ comm'.state = "RECEIVING"
           \/ pc'.agent = "sending" /\ comm'.state = "SENDING"
        /\ pc'.api = pc.api /\ pc'.cliMgr = pc.cliMgr
        /\ pc'.svrMgr = pc.svrMgr \/ (pc.svrMgr = "wait" /\ pc'.svrMgr = "woken")
    BY <1>1, <2>1, StartGives DEF ProcStates
  <2>9. pc.agent = "readStart" => pc'.agent = "reading"
    BY <1>1, <2>1, StartGives DEF ProcStates
  <2>3. Calm'
    BY <1>4, <2>1, <2>2 DEF Moved, AgentCalm
  <2>4. pc.agent \in {"readStart", "handle"} /\ conn' = conn
    BY <2>1 DEF client
  <2>5. ASSUME NEW s \in Socks, Bound(s)
        PROVE  comm'.sock = s /\ comm'.reconnectedSock = NoSock /\ (Carries(net, s) => Carries(net', s))
    <3>1. comm'.sock = s /\ comm'.reconnectedSock = NoSock /\ (Switches(comm) => comm.sock # s)
      BY <2>2, <2>5, Constants DEF Moved, Bound, Switches
    <3>2. \A x : x \in net'[s].ends <=> x \in net[s].ends
      BY <2>2, <3>1 DEF Moved
    <3>3. net'[s].ends = net[s].ends /\ net'[s].up = net[s].up
      <4>1. net' \in Network
        BY <2>2, AgentTypes, Constants DEF Types, TypeInv
      <4> QED  BY <2>2, <3>2, <4>1 DEF Moved, SameUp, Network
    <3> QED  BY <3>1, <3>3 DEF Carries
  <2>6. \A t \in Socks : /\ net'[t].to["svr"] = net[t].to["svr"] /\ net'[t].to["cli"] = net[t].to["cli"]
                         /\ t # comm.sock /\ Carries(net, t) => Carries(net', t)
    <3>1. \A t \in Socks : net'[t].to["svr"] = net[t].to["svr"] /\ net'[t].to["cli"] = net[t].to["cli"]
      BY <1>0, <2>2 DEF Moved, SameQueues
    <3>2. ASSUME NEW t \in Socks, t # comm.sock, Carries(net, t) PROVE Carries(net', t)
      <4>1. \A x : x \in net'[t].ends <=> x \in Ends
        BY <2>2, <3>2 DEF Moved, Carries
      <4>2. net'[t].ends = Ends
        BY <4>1
      <4> QED  BY <2>2, <3>2, <4>2 DEF Moved, SameUp, Carries
    <3> QED  BY <3>1, <3>2
  <2>7. ASSUME Before PROVE Before'
    <3>1. Bound(conn.sock)' /\ Carries(net', conn.sock)
      BY <1>0, <2>4, <2>5, <2>7 DEF Before, Bound
    <3>2. CASE pc.cliMgr # "read"
      BY <2>1, <2>2, <2>4, <2>7, <3>1, <3>2 DEF Before, Carries
    <3>3. CASE pc.cliMgr = "read"
      <4>1. /\ net'[conn.reconnectedSock].to["svr"] = net[conn.reconnectedSock].to["svr"]
            /\ net'[conn.reconnectedSock].to["cli"] = net[conn.reconnectedSock].to["cli"]
            /\ Carries(net', conn.reconnectedSock)
        BY <1>0, <2>6, <2>7, <3>3 DEF Before
      <4>2. comm'.sock # conn.reconnectedSock
        BY <1>0, <2>5, <2>7 DEF Before, SockInv
      <4> QED  BY <2>1, <2>2, <2>4, <2>7, <3>1, <3>3, <4>1, <4>2 DEF Before, Carries
    <3> QED  BY <3>2, <3>3
  <2>8. ASSUME During PROVE During'
    <3> DEFINE s == conn.reconnectedSock
    <3>1. Bound(s) /\ s \in Socks /\ Carries(net, s)
      BY <1>0, <2>4, <2>8 DEF During, Bound, Told
    <3>2. comm'.sock = s /\ comm'.reconnectedSock = NoSock /\ Carries(net', s)
      BY <2>5, <3>1
    <3>3. net'[s].to["cli"] = net[s].to["cli"] /\ net'[s].to["svr"] = net[s].to["svr"]
      BY <2>6, <3>1
    <3>4. pc.svrMgr # "select" => pc.agent = "readStart" /\ pc'.agent = "reading"
      BY <2>4, <2>8, <2>9 DEF During
    <3>5. Bound(conn.reconnectedSock)'
      BY <2>4, <3>2 DEF Bound
    <3> QED  BY <2>1, <2>2, <2>4, <2>8, <3>2, <3>3, <3>4, <3>5 DEF During, Carries
  <2> QED  BY <2>3, <2>7, <2>8 DEF Quiet
<1>7. CASE agentReadEnd \/ agentSendEnd
  <2>1. /\ UNCHANGED <<client, inMsg, newSock, reconnSock, net, listenQ, made, faults>>
        /\ \/ pc.agent = "readEnd" /\ svrChkReconnAtEnd(IF inMsg.type = "API_REQ" THEN "handle" ELSE "readStart")
           \/ pc.agent = "sendEnd" /\ svrChkReconnAtEnd("readStart")
    BY <1>7 DEF agentReadEnd, agentSendEnd
  <2>2. /\ pc'.api = pc.api /\ pc'.cliMgr = pc.cliMgr
        /\ comm'.sock = comm.sock /\ comm'.reconnectedSock = comm.reconnectedSock
        /\ comm'.state = "PROCESSING"
        /\ pc'.agent = "readStart" \/ (pc'.agent = "handle" /\ pc.agent = "readEnd" /\ inMsg.type = "API_REQ")
        /\ pc'.svrMgr = pc.svrMgr \/ (pc.svrMgr = "wait" /\ pc'.svrMgr = "woken")
    BY <1>1, <2>1, EndGives
  <2>3. SameUp /\ AgentCalm'
    BY <2>1, <2>2 DEF SameUp, AgentCalm
  <2>4. Calm'
    BY <1>4, <2>1, <2>2, <2>3
  <2>5. /\ Told => Told'
        /\ pc.agent = "sendEnd" => pc'.agent = "readStart"
        /\ pc.agent \in {"readEnd", "sendEnd"}
    BY <2>1, <2>2 DEF Told
  <2> QED  BY <1>5, <2>1, <2>2, <2>3, <2>4, <2>5
<1>8. CASE agentRead
  <2> DEFINE q == net[comm.sock].to["svr"]
  <2>1. /\ net' = Take(net, comm.sock, "svr") /\ q # <<>> /\ inMsg' = Head(q)
        /\ UNCHANGED <<client, comm, newSock, listenQ, reconnSock, made>> /\ pc.agent \in {"reading", "rereading"}
        /\ pc' = [pc EXCEPT !.agent = "readEnd"]
    BY <1>8 DEF agentRead, HasMsg
  <2>2. /\ pc'.agent = "readEnd" /\ pc'.api = pc.api /\ pc'.svrMgr = pc.svrMgr /\ pc'.cliMgr = pc.cliMgr
        /\ pc.agent = "reading"
    BY <1>0, <1>2, <2>1 DEF Labels
  <2>3. /\ SameUp /\ \A t \in Socks : net'[t].ends = net[t].ends
        /\ \A t \in Socks : t # comm.sock => net'[t].to["svr"] = net[t].to["svr"]
        /\ \A t \in Socks : net'[t].to["cli"] = net[t].to["cli"]
    BY <1>0, <2>1, TakeNet DEF SameUp
  <2>4. AgentCalm'
    BY <1>1, <2>1, <2>2 DEF AgentCalm
  <2>5. Calm'
    BY <1>4, <2>1, <2>2, <2>3, <2>4
  <2>6. Told' /\ HasMsg(comm.sock, "svr")
    BY <2>1, <2>2 DEF Told, HasMsg
  <2> HIDE DEF q
  <2> QED  BY <1>5, <2>1, <2>2, <2>3, <2>5, <2>6
<1>9. CASE sendApiReply
  <2>1. /\ net' = Put(net, comm.sock, "svr", ApiReply(inMsg.n)) /\ pc.agent = "sending"
        /\ UNCHANGED <<client, agent, listenQ, made>>
    BY <1>9 DEF sendApiReply
  <2>2. Carries(net, comm.sock)
    BY <2>1 DEF Quiet, Before, During, Bound, Told
  <2>3. pc' = [pc EXCEPT !.agent = "sendEnd"]
    <3>1. SendStatuses(net, comm.sock, "svr") = {TRUE}
      BY <2>2 DEF SendStatuses, Carries, Ends
    <3> QED  BY <1>9, <3>1 DEF sendApiReply
  <2>4. pc'.agent = "sendEnd" /\ pc'.api = pc.api /\ pc'.svrMgr = pc.svrMgr /\ pc'.cliMgr = pc.cliMgr
    BY <1>0, <2>3 DEF Labels
  <2>5. \A t \in Socks :
           /\ net'[t].ends = net[t].ends /\ net'[t].up = net[t].up
           /\ net'[t].to["svr"] = net[t].to["svr"]
           /\ t # comm.sock => net'[t].to["cli"] = net[t].to["cli"]
           /\ \/ net'[t].to["cli"] = net[t].to["cli"]
              \/ net'[t].to["cli"] = Append(net[t].to["cli"], ApiReply(inMsg.n))
    <3>1. \A t \in Socks :
             /\ net'[t].ends = net[t].ends /\ net'[t].up = net[t].up
             /\ \A e \in Ends : net'[t].to[e] = IF t = comm.sock /\ e = "cli" /\ Carries(net, comm.sock)
                                               THEN Append(net[t].to[e], ApiReply(inMsg.n)) ELSE net[t].to[e]
      BY <1>0, <2>1, PutNet
    <3> QED  BY <1>0, <3>1
  <2>6. \A t \in Socks : net[t].to["cli"] # <<>> => net'[t].to["cli"] # <<>>
    <3>1. \A t \in Socks : net[t].to["cli"] \in Seq(Msgs)
      BY <1>0, NetQueue
    <3> QED  BY <1>0, <2>5, <3>1, AppendHead
  <2>7. AgentCalm' /\ SameUp
    BY <1>1, <2>1, <2>4, <2>5 DEF AgentCalm, SameUp, agent
  <2>8. Calm'
    BY <1>4, <2>1, <2>4, <2>7 DEF agent
  <2>9. ~Told
    BY <2>1 DEF Told
  <2> QED  BY <1>5, <2>1, <2>4, <2>5, <2>6, <2>7, <2>8, <2>9 DEF agent
<1>10. CASE agentReadFails
  BY <1>2, <1>3, <1>10 DEF agentReadFails
<1>11. CASE agentReadTimeout
  BY <1>0, <1>11 DEF agentReadTimeout, Fault, Still
<1>12. CASE agentDisconnected
  BY <1>12 DEF agentDisconnected, WireInv, Still
<1>13. CASE agentReread \/ resendApiReply
  BY <1>2, <1>13 DEF agentReread, resendApiReply
<1> QED  BY <1>6, <1>7, <1>8, <1>9, <1>10, <1>11, <1>12, <1>13 DEF Agent

LEMMA SvrMgrQuiet ==
  ASSUME Wired, AgentSocks, Still, Quiet, Still', SvrMgr
  PROVE  Quiet'
<1> USE DEF Wired
<1>0. /\ comm \in CommType /\ pc \in Labels /\ net \in Network /\ comm.sock \in Socks
      /\ "cli" \in Ends /\ "svr" \in Ends /\ faults \in Nat /\ conn.sock \in Socks
      /\ pc.cliMgr = "read" => conn.reconnectedSock \in Socks
      /\ conn.reconnectedSock # conn.sock
  <2>1. faults \in Nat
    BY BoundsAssumption DEF Types, TypeInv
  <2> QED  BY <2>1, Constants DEF Types, TypeInv, CommType, ControlInv, SockInv
<1>1. /\ reconnSock /\ result # "error" /\ AgentCalm
      /\ pc.api \notin {"resend", "reread", "rereading"}
      /\ \A s \in 1..made : net[s].up /\ s \in Socks
  <2>1. \A t \in 1..made : t \in Socks
    BY BoundsAssumption DEF Types, TypeInv, Socks
  <2> QED  BY <2>1 DEF Quiet, Calm
<1>2. CASE svrMgrAccept
  <2>1. /\ newSock' = Head(listenQ) /\ listenQ' = Tail(listenQ) /\ listenQ # <<>>
        /\ UNCHANGED <<client, comm, inMsg, reconnSock, net, made, faults>> /\ pc.svrMgr = "select"
        /\ pc' = [pc EXCEPT !.svrMgr = "recv"]
    BY <1>2 DEF svrMgrAccept
  <2>2. pc'.api = pc.api /\ pc'.agent = pc.agent /\ pc'.cliMgr = pc.cliMgr /\ pc'.svrMgr = "recv"
    BY <1>0, <2>1 DEF Labels
  <2>3. Before /\ pc.cliMgr = "read" /\ listenQ = <<conn.reconnectedSock>>
    BY <2>1 DEF Quiet, Before, During
  <2>4. newSock' = conn.reconnectedSock /\ listenQ' = <<>>
    BY <2>1, <2>3
  <2>5. Calm'
    BY <1>1, <2>1, <2>2 DEF Calm, AgentCalm, client
  <2>6. Bound(conn.sock)' /\ conn' = conn
    BY <2>1, <2>2, <2>3 DEF Before, Bound, Told, HasMsg, client
  <2>7. Before'
    BY <2>1, <2>2, <2>3, <2>4, <2>6 DEF Before, Carries
  <2> QED  BY <2>5, <2>7 DEF Quiet
<1>3. CASE svrMgrFails
  BY <1>0, <1>3 DEF svrMgrFails, Fault, Still
<1>4. CASE svrMgrRecvFails
  <2>1. pc.svrMgr = "recv" /\ ~Carries(net, newSock)
    BY <1>4 DEF svrMgrRecvFails, ReadFails
  <2> QED  BY <2>1 DEF Quiet, Before, During
<1>5. CASE svrMgrRecv \/ svrMgrWoken
  <2>1. /\ newSock \in Socks /\ UNCHANGED <<client, inMsg, newSock, reconnSock, listenQ, made>>
        /\ pc'.agent = pc.agent /\ pc'.api = pc.api /\ pc'.cliMgr = pc.cliMgr
        /\ comm'.state = comm.state
    BY <1>5, TurnStep DEF OtherSide
  <2>2. PICK C \in CommType, N \in Network :
              /\ C.sock = comm.sock /\ C.state = comm.state
              /\ \/ pc.svrMgr = "recv" /\ C.reconnectedSock = newSock /\ Taken(N)
                 \/ pc.svrMgr = "woken" /\ C.reconnectedSock = comm.reconnectedSock /\ N = net
              /\ TurnWaits(C, N) \/ TurnAnswers(C, N) \/ TurnFails(C, N)
    BY <1>5, TurnStep
  <2> DEFINE s == conn.reconnectedSock
  <2>3. newSock = s /\ pc.cliMgr = "read" /\ listenQ = <<>> /\ Carries(net, s) /\ s \in Socks
    BY <1>0, <2>2 DEF Quiet, Before, During
  <2>4. net[s].to["cli"] = <<>>
    BY <2>2, <2>3 DEF Quiet, Before, During
  <2>5. \A t \in Socks : /\ N[t].ends = net[t].ends /\ N[t].up = net[t].up
                         /\ N[t].to["cli"] = net[t].to["cli"]
                         /\ t # s => N[t].to["svr"] = net[t].to["svr"]
    BY <2>2, <2>3 DEF Taken
  <2>6. Carries(N, newSock)
    BY <2>3, <2>5 DEF Carries
  <2>7. ~TurnFails(C, N)
    <3>1. SendStatuses(N, newSock, "svr") = {TRUE}
      BY <2>6 DEF SendStatuses, Carries, Ends
    <3> QED  BY <3>1 DEF TurnFails
  <2>8. ASSUME SameUp, pc'.svrMgr # "gone" PROVE Calm'
    BY <1>1, <2>1, <2>8 DEF Calm, AgentCalm, client, SameUp
  <2>9. comm.sock # s => /\ pc.svrMgr = "recv" \/ comm.reconnectedSock = s
                         /\ C.reconnectedSock = s
    BY <2>2, <2>3, Constants DEF Quiet, Before, During, Bound
  <2>10. pc.svrMgr = "recv" => Before /\ comm.sock # s
    BY <2>3 DEF Quiet, Before, During
  <2>11. CASE TurnWaits(C, N)
    <3>1. /\ comm.state = "SENDING" /\ pc'.svrMgr = "wait" /\ net' = N
          /\ comm'.sock = comm.sock /\ comm'.reconnectedSock = C.reconnectedSock
      BY <2>2, <2>11 DEF TurnWaits
    <3>2. Calm'
      BY <2>5, <2>8, <3>1 DEF SameUp
    <3>3. pc.agent \in {"sending", "sendEnd"}
      BY <1>1, <3>1 DEF AgentCalm
    <3>4. Carries(net', s)
      BY <2>3, <2>6, <3>1
    <3>5. comm.sock = conn.sock /\ C.reconnectedSock = s /\ Carries(net, conn.sock)
      BY <1>0, <2>2, <2>3, <3>3 DEF Quiet, Before, During, Bound, Told
    <3>6. Carries(net', conn.sock)
      BY <1>0, <2>5, <3>1, <3>5 DEF Carries
    <3>7. net'[s].to["cli"] = <<>> /\ net'[s].to["svr"] = <<>>
      <4>1. net'[s].to["cli"] = <<>>
        BY <2>3, <2>4, <2>5, <3>1
      <4>2. CASE pc.svrMgr = "recv"
        <5>1. net[s].to["svr"] = <<Reconn("PROCESSING")>> /\ Taken(N)
          BY <2>2, <2>3, <2>10, <4>2 DEF Before
        <5>2. N[s].to["svr"] = Tail(net[s].to["svr"])
          BY <2>3, <5>1 DEF Taken
        <5> QED  BY <3>1, <4>1, <5>1, <5>2
      <4>3. CASE pc.svrMgr = "woken"
        BY <2>2, <2>3, <3>1, <4>1, <4>3 DEF Quiet, Before, During
      <4> QED  BY <2>2, <4>2, <4>3
    <3>8. During'
      BY <2>1, <2>3, <3>1, <3>3, <3>4, <3>5, <3>6, <3>7 DEF During, client, Carries
    <3> QED  BY <3>2, <3>8 DEF Quiet
  <2>12. CASE TurnAnswers(C, N)
    <3>1. /\ comm.state # "SENDING" /\ pc'.svrMgr = "select"
          /\ comm'.sock = IF comm.state = "PROCESSING" /\ Switches(C) THEN C.reconnectedSock ELSE comm.sock
          /\ comm'.reconnectedSock = IF comm.state = "PROCESSING" /\ Switches(C) THEN NoSock ELSE C.reconnectedSock
      BY <2>2, <2>12 DEF TurnAnswers
    <3>2. \A t \in Socks :
            /\ \A x : x \in net'[t].ends <=> x \in net[t].ends
                   /\ ~(comm.state = "PROCESSING" /\ Switches(C) /\ t = comm.sock /\ x = "svr")
            /\ net'[t].up = net[t].up
      BY <2>2, <2>5, <2>12 DEF TurnAnswers
    <3>3. \A t \in Socks : t # s => net'[t].to["svr"] = net[t].to["svr"]
      BY <1>0, <2>5, <2>12 DEF TurnAnswers
    <3>4. net'[s].to["cli"] = Append(<<>>, Reconn(comm.state))
      <4>1. \A t \in Socks, e \in Ends :
              net'[t].to[e] = IF t = newSock /\ e = "cli" /\ Carries(N, newSock)
                              THEN Append(N[t].to[e], Reconn(C.state)) ELSE N[t].to[e]
        BY <2>12 DEF TurnAnswers
      <4>2. net'[s].to["cli"] = Append(N[s].to["cli"], Reconn(C.state))
        BY <1>0, <2>3, <2>6, <4>1
      <4>3. N[s].to["cli"] = <<>> /\ C.state = comm.state
        BY <2>2, <2>3, <2>4, <2>5
      <4> QED  BY <4>2, <4>3
    <3>5. net'[s].to["cli"] # <<>> /\ Head(net'[s].to["cli"]).state = comm.state
      BY <3>4 DEF Reconn, Msg
    <3>6. Calm'
      BY <2>8, <3>1, <3>2 DEF SameUp
    <3>7. Switches(C) => comm.sock # s
      BY <1>0, <2>2, <2>3, <2>10 DEF Quiet, Before, During, Switches
    <3>8. Carries(net', s)
      <4>1. \A x : x \in net'[s].ends <=> x \in Ends
        BY <2>3, <3>2, <3>7 DEF Carries
      <4>2. net'[s].ends = Ends
        BY <4>1
      <4> QED  BY <2>3, <3>2, <4>2 DEF Carries
    <3>9. ASSUME \/ Bound(conn.reconnectedSock)'
                 \/ /\ comm'.sock = conn.sock /\ comm'.reconnectedSock = s /\ pc.agent = "reading"
                    /\ Carries(net', conn.sock) /\ comm.state = "RECEIVING"
          PROVE  Quiet'
      <4>1. During'
        BY <2>1, <2>3, <3>1, <3>5, <3>8, <3>9 DEF During, client, Carries
      <4> QED  BY <3>6, <4>1 DEF Quiet
    <3>10. CASE comm.sock = s
      <4>1. pc.svrMgr = "woken" /\ comm.reconnectedSock = NoSock
        BY <1>0, <2>2, <2>3, <2>10, <3>10 DEF Quiet, Before, During
      <4>2. comm'.sock = s /\ comm'.reconnectedSock = NoSock
        BY <2>2, <3>1, <3>7, <3>10, <4>1
      <4> QED  BY <2>1, <3>9, <4>2 DEF Bound, client
    <3>11. CASE comm.sock # s /\ comm.state = "PROCESSING"
      <4>1. Switches(C)
        BY <2>3, <2>9, <3>11, Constants DEF Switches
      <4>2. comm'.sock = s /\ comm'.reconnectedSock = NoSock
        BY <2>9, <3>1, <3>11, <4>1
      <4> QED  BY <2>1, <3>9, <4>2 DEF Bound, client
    <3>12. CASE comm.sock # s /\ comm.state = "RECEIVING"
      <4>1. comm'.sock = comm.sock /\ comm'.reconnectedSock = s /\ pc.agent \in {"reading", "readEnd"}
        BY <1>1, <2>9, <3>1, <3>12 DEF AgentCalm
      <4>2. net'[comm.sock].to["svr"] = net[comm.sock].to["svr"]
        BY <1>0, <3>3, <3>12
      <4>3. Told' <=> Told
        BY <2>1, <4>1, <4>2 DEF Told, HasMsg
      <4>4. CASE Told
        <5>1. Bound(conn.reconnectedSock)'
          BY <2>1, <3>12, <4>1, <4>3, <4>4 DEF Bound, client
        <5> QED  BY <3>9, <5>1
      <4>5. CASE ~Told
        <5>1. pc.agent = "reading"
          BY <4>1, <4>5 DEF Told
        <5>2. pc.svrMgr = "recv" /\ comm.sock = conn.sock /\ Carries(net, conn.sock)
          BY <2>2, <2>3, <3>12, <4>5, <5>1 DEF Quiet, Before, During, Bound
        <5>3. Carries(net', conn.sock)
          <6>1. \A x : x \in net'[conn.sock].ends <=> x \in Ends
            BY <1>0, <3>2, <3>12, <5>2 DEF Carries
          <6>2. net'[conn.sock].ends = Ends
            BY <6>1
          <6> QED  BY <1>0, <3>2, <5>2, <6>2 DEF Carries
        <5> QED  BY <3>9, <3>12, <4>1, <5>1, <5>2, <5>3
      <4> QED  BY <4>4, <4>5
    <3> QED  BY <1>0, <3>1, <3>10, <3>11, <3>12 DEF CommType, ProcStates
  <2> QED  BY <2>2, <2>7, <2>11, <2>12
<1> QED  BY <1>2, <1>3, <1>4, <1>5 DEF SvrMgr

LEMMA RestQuiet ==
  ASSUME Wired, Still, Quiet, Still', SpuriousWakeup \/ Break \/ clientExits \/ UNCHANGED vars
  PROVE  Quiet'
<1> USE DEF Wired
<1>1. CASE SpuriousWakeup
  <2>1. /\ UNCHANGED <<client, agent, net, listenQ, made, faults>> /\ pc'.agent = pc.agent
        /\ pc'.svrMgr = pc.svrMgr \/ (pc.svrMgr = "wait" /\ pc'.svrMgr = "woken")
        /\ pc'.cliMgr = "read" <=> pc.cliMgr = "read"
        /\ pc'.api = pc.api \/ pc'.api \in {"sendWoken", "readWoken"}
    BY <1>1, WakeGives
  <2>2. result' # "error" /\ pc'.api \notin {"resend", "reread", "rereading"}
    BY <2>1 DEF Quiet, Calm, client
  <2> QED  BY <2>1, <2>2, QuietKeeps DEF client, agent
<1>2. CASE Break
  <2>1. faults \in Nat
    BY BoundsAssumption DEF Types, TypeInv
  <2> QED  BY <1>2, <2>1, BreakGives DEF Still
<1>3. CASE clientExits
  BY <1>3, ClientExitGives DEF Still
<1>4. CASE UNCHANGED vars
  <2>1. result' # "error" /\ pc'.api \notin {"resend", "reread", "rereading"}
    BY <1>4 DEF Quiet, Calm, vars
  <2> QED  BY <1>4, <2>1, QuietKeeps DEF vars
<1> QED  BY <1>1, <1>2, <1>3, <1>4

RenewalInv == Wired /\ AgentSocks /\ QuietInv /\ InvisibleRenewal

LEMMA RenewalInit == Init => RenewalInv
<1> SUFFICES ASSUME Init PROVE RenewalInv
  OBVIOUS
<1>1. Wired
  BY TypeInit, WiredInit DEF Wired, Types
<1>2. /\ conn.sock = 1 /\ comm.sock = 1 /\ comm.reconnectedSock = NoSock /\ comm.state = "PROCESSING"
      /\ listenQ = <<>> /\ made = 1 /\ result = "none" /\ reconnSock
      /\ pc.svrMgr = "select" /\ pc.agent = "readStart" /\ pc.cliMgr = "sleep" /\ pc.api = "idle"
  BY DEF Init, InitComm
<1>3. Carries(net, 1)
  <2>1. net[1].up /\ net[1].ends = Ends
    BY Constants DEF Init
  <2> QED  BY <2>1 DEF Carries
<1>4. Calm
  <2>1. \A s \in 1..made : s = 1
    BY <1>2
  <2> QED  BY <1>2, <1>3, <2>1 DEF Calm, AgentCalm, Carries
<1>5. Before
  BY <1>2, <1>3 DEF Before, Bound
<1>6. AgentSocks
  BY <1>2 DEF AgentSocks, NoSock
<1> QED  BY <1>1, <1>2, <1>4, <1>5, <1>6 DEF RenewalInv, QuietInv, Quiet, InvisibleRenewal

\* The agent's side never touches the client.
LEMMA AgentSide ==
  ASSUME Wired, Agent \/ SvrMgr
  PROVE  UNCHANGED client /\ pc'.api = pc.api
<1> USE DEF Wired
<1>0. pc \in Labels
  BY DEF Types, TypeInv
<1>1. UNCHANGED client
  BY DEF Agent, SvrMgr, agentReadStart, agentRead, agentReadFails, agentReread, agentReadTimeout,
       agentReadEnd, agentDisconnected, agentSendStart, sendApiReply, resendApiReply, agentSendEnd,
       svrMgrAccept, svrMgrFails, svrMgrRecv, svrMgrRecvFails, svrMgrWoken
<1>2. CASE agentReadStart \/ agentSendStart
  <2>1. \/ svrChkReconnAtStart("RECEIVING", "reading")
        \/ svrChkReconnAtStart("SENDING", "sending")
    BY <1>2 DEF agentReadStart, agentSendStart
  <2> QED  BY <1>1, <2>1, StartGives DEF ProcStates
<1>3. CASE agentReadEnd \/ agentSendEnd
  <2>1. \E l \in {"readStart", "handle"} : svrChkReconnAtEnd(l)
    BY <1>3 DEF agentReadEnd, agentSendEnd
  <2> QED  BY <1>1, <2>1, EndGives
<1>4. CASE agentReadFails \/ agentReadTimeout \/ agentDisconnected
  <2>1. agentExits \/ pc' = [pc EXCEPT !.agent = "reread"]
    BY <1>4 DEF agentReadFails, agentReadTimeout, agentDisconnected
  <2>2. pc'.api = pc.api
    BY <1>0, <2>1, ExitGives DEF Labels
  <2> QED  BY <1>1, <2>2
<1>5. CASE agentRead \/ agentReread \/ sendApiReply \/ resendApiReply \/ svrMgrAccept \/ svrMgrRecvFails
  BY <1>0, <1>1, <1>5 DEF agentRead, agentReread, sendApiReply, resendApiReply, svrMgrAccept, svrMgrRecvFails, Labels
<1>6. CASE svrMgrFails
  BY <1>1, <1>6, FailsGives
<1>7. CASE svrMgrRecv \/ svrMgrWoken
  BY <1>1, <1>7, TurnStep DEF OtherSide
<1> QED  BY <1>2, <1>3, <1>4, <1>5, <1>6, <1>7 DEF Agent, SvrMgr

\* Only rcDisconnect closes the session, and it is no call.
LEMMA ClosingStep ==
  ASSUME Wired, [Next]_vars, pc'.api = "closed", pc.api # "closed"
  PROVE  result' = result
<1> USE DEF Wired
<1>0. pc \in Labels
  BY DEF Types, TypeInv
<1>1. CASE Api
  <2>1. CASE rcDisconnect
    BY <2>1 DEF rcDisconnect, client
  <2>2. CASE ~rcDisconnect
    BY <1>0, <1>1, <2>2 DEF Api, procApiRequest, readApiReplyRejected, cliChkReconnAtSendStart, SendStartWoken, cliChkReconnAtSendEnd, sendApiRequest,
       resendApiRequest, cliChkReconnAtReadStart, readApiReply, readApiReplyFails, rereadApiReply,
       cliChkReconnAtReadEnd, ReadEndWoken, SignalMgr, Labels
  <2> QED  BY <2>1, <2>2
<1>2. CASE CliMgr
  BY <1>2 DEF CliMgr, cliMgrNoHost, client, cliReconnManager, cliMgrConnect, cliMgrConnectFails, cliMgrRead, cliMgrReadFails
<1>3. CASE Agent \/ SvrMgr
  BY <1>3, AgentSide DEF client
<1>4. CASE SpuriousWakeup \/ Break \/ clientExits \/ UNCHANGED vars
  BY <1>4 DEF SpuriousWakeup, Break, clientExits, vars, client
<1> QED  BY <1>1, <1>2, <1>3, <1>4 DEF Next, Ended

LEMMA RenewalStep == RenewalInv /\ [Next]_vars => RenewalInv'
<1> SUFFICES ASSUME RenewalInv, [Next]_vars PROVE RenewalInv'
  OBVIOUS
<1>1. Wired' /\ AgentSocks'
  BY WiredStep, AgentSocksStep DEF RenewalInv
<1>2. faults \in Nat /\ (faults' = faults \/ faults' = faults + 1)
  <2>1. faults \in Nat
    BY BoundsAssumption DEF RenewalInv, Wired, Types, TypeInv
  <2>2. CASE Api
    BY <2>1, <2>2, ApiGives DEF RenewalInv, Wired
  <2>3. CASE CliMgr
    BY <2>1, <2>3 DEF CliMgr, cliMgrNoHost, client, cliReconnManager, cliMgrConnect, cliMgrConnectFails, cliMgrRead, cliMgrReadFails, Fault
  <2>4. CASE Agent
    BY <2>1, <2>4 DEF Agent, agentReadStart, agentRead, agentReadFails, agentReread, agentReadTimeout,
         agentReadEnd, agentDisconnected, agentSendStart, sendApiReply, resendApiReply, agentSendEnd, Fault
  <2>5. CASE SvrMgr
    BY <2>1, <2>5 DEF SvrMgr, svrMgrAccept, svrMgrFails, svrMgrRecv, svrMgrRecvFails, svrMgrWoken, Fault
  <2>6. CASE SpuriousWakeup \/ Break \/ clientExits \/ UNCHANGED vars
    BY <2>1, <2>6 DEF SpuriousWakeup, Break, clientExits, vars, Fault
  <2> QED  BY <2>1, <2>2, <2>3, <2>4, <2>5, <2>6 DEF Next, Ended
<1>3. faults' = 0 => faults = 0
  BY <1>2
<1>4. pc.api = "closed" => pc'.api = "closed" /\ result' = result
  <2>1. ASSUME pc.api = "closed" PROVE ~Api /\ ~CliMgr
    <3>1. Types
      BY DEF RenewalInv, Wired
    <3>2. ~Api
      BY <2>1, <3>1, ApiGives
    <3>3. pc.cliMgr = "cancelled"
      BY <2>1, <3>1 DEF Types, ControlInv
    <3>4. ~CliMgr
      BY <3>3 DEF CliMgr, cliMgrNoHost, client, cliReconnManager, cliMgrConnect, cliMgrConnectFails, cliMgrRead, cliMgrReadFails
    <3> QED  BY <3>2, <3>4
  <2>2. CASE Agent \/ SvrMgr
    <3>1. pc'.api = pc.api /\ UNCHANGED client
      BY <2>2, AgentSide DEF RenewalInv
    <3> QED  BY <3>1 DEF client
  <2>3. CASE SpuriousWakeup
    BY <2>3, WakeGives DEF RenewalInv, Wired, client
  <2>4. CASE Break \/ clientExits \/ UNCHANGED vars
    BY <2>4 DEF Break, clientExits, vars, client
  <2> QED  BY <2>1, <2>2, <2>3, <2>4 DEF Next, Ended
<1>5. ASSUME Still' PROVE Still /\ Quiet'
  <2>1. Still
    BY <1>3, <1>4, <1>5 DEF Still
  <2>2. Quiet /\ Wired /\ AgentSocks
    BY <2>1 DEF RenewalInv, QuietInv
  <2> QED  BY <1>5, <2>1, <2>2, ApiQuiet, CliMgrQuiet, AgentQuiet, SvrMgrQuiet, RestQuiet DEF Next, Ended
<1>6. InvisibleRenewal'
  <2>1. ASSUME faults' = 0 PROVE result' # "error"
    <3>1. CASE pc'.api # "closed"
      BY <1>5, <2>1, <3>1 DEF Still, Quiet, Calm
    <3>2. CASE pc'.api = "closed" /\ pc.api = "closed"
      BY <1>3, <1>4, <2>1, <3>2 DEF RenewalInv, InvisibleRenewal
    <3>3. CASE pc'.api = "closed" /\ pc.api # "closed"
      <4>1. result' = result
        BY <3>3, ClosingStep DEF RenewalInv, Wired
      <4> QED  BY <1>3, <2>1, <4>1 DEF RenewalInv, InvisibleRenewal
    <3> QED  BY <3>1, <3>2, <3>3
  <2> QED  BY <2>1 DEF InvisibleRenewal
<1> QED  BY <1>1, <1>5, <1>6 DEF RenewalInv, QuietInv

\* Until something fails, no call returns an error because of a renewal
\* (cliReconnManager, reconnManager), wherever the API thread and the agent are
\* when the handshake runs, for every number of handshakes, and with the replies
\* of rejected calls still on the sockets.
THEOREM ReconnectInvisible == Spec => []InvisibleRenewal
<1>1. RenewalInv => InvisibleRenewal
  BY DEF RenewalInv
<1> QED  BY <1>1, RenewalInit, RenewalStep, PTL DEF Spec

\* Until something fails, after each handshake the two sides use one socket, or
\* the agent has the client's and a message or its own check makes it switch
\* (cliSwitchConnect, svrSwitchConnect, svrChkReconnAtReadStart).
THEOREM ReconnectOneSocket == Spec => []OneSocket
<1>1. RenewalInv => OneSocket
  <2> SUFFICES ASSUME RenewalInv, faults = 0, ~locked, pc.api # "closed"
               PROVE  \/ conn.sock = comm.sock
                      \/ /\ comm.reconnectedSock = conn.sock
                         /\ \/ pc.agent \in {"readStart", "readEnd", "handle"}
                            \/ pc.agent = "reading" /\ HasMsg(comm.sock, "svr")
    BY DEF OneSocket
  <2>1. Quiet /\ pc.cliMgr # "read"
    BY DEF RenewalInv, QuietInv, Still, Wired, Types, ControlInv
  <2>2. Bound(conn.sock)
    BY <2>1 DEF Quiet, Before, During
  <2> QED  BY <2>2 DEF Bound, Told
<1> QED  BY <1>1, RenewalInit, RenewalStep, PTL DEF Spec
===============================================================================
