---------------------------- MODULE SystemProofs ----------------------------
(***************************************************************************)
(* A client and a server: what each of them is proved to keep on its own   *)
(* holds when they run together, and together they never give an address  *)
(* to two hosts.  The argument relates two clocks: the time a lease has    *)
(* left at the client, in the lifetime of its address and in replies that  *)
(* are under way, is more than what the server's record of it has by no    *)
(* more than the time the reply was under way and the ping took.  Then     *)
(* that each request is answered, and that a client which nobody disturbs  *)
(* keeps its address.                                                      *)
(***************************************************************************)
EXTENDS System, ServerProofs

\* The theorems about the client, for the client of this system.
P == INSTANCE DClientProofs WITH
        IP <- Uip, Server <- {"self"}, Router <- {"router"}, Msg <- ClientMsg,
        state <- cState, pc <- cPc, wait <- cWait, last <- cLast, left <- cLeft,
        tokens <- cTokens, cancelled <- cCancelled, iface <- cIface, faults <- cFaults,
        dirty <- cDirty, granted <- cGranted, checked <- cChecked, calm <- cCalm

USE DEF Key

\* The assumptions those theorems make.
LEMMA ClientAssumptions ==
    /\ /\ {Minute, DiscoverTime, SelectTime, ResetTime, ResumeTime} \subseteq Nat \ {0}
       /\ DefaultRoute \in BOOLEAN /\ Alias \in BOOLEAN
       /\ ScriptTime \in Nat /\ PingTime \in Nat /\ MaxFaults \in Nat
       /\ Burst \in Nat \ {0} /\ Refill \in Nat
    /\ ClientMsg \subseteq
          [type : {"offer", "ack", "nack", "other"}, xid : {"cur", "old"},
           ip : Uip \cup {nil}, sid : {"self"} \cup {nil}, router : {"router"} \cup {nil},
           dns : BOOLEAN, mtu : Nat, lease : Nat, renew : Nat, rebind : Nat]
    /\ nil \notin ClientMsg
<1>1. ASSUME NEW kind \in {"offer", "ack", "nack"}, NEW ip \in Uip \cup {nil},
             NEW xid \in {"cur", "old"}
      PROVE  ReplyMsg(kind, ip, xid) \in
                [type : {"offer", "ack", "nack", "other"}, xid : {"cur", "old"},
                 ip : Uip \cup {nil}, sid : {"self"} \cup {nil}, router : {"router"} \cup {nil},
                 dns : BOOLEAN, mtu : Nat, lease : Nat, renew : Nat, rebind : Nat]
  BY TimeAssumption DEF ReplyMsg
<1> QED
  BY <1>1, ClientAssumption, ReplyAssumption DEF ClientMsg

\* The two instances of DClient are the same.
LEMMA SameStep == C!Step => P!Step
<1>1. C!runStatePurgeInterface => P!runStatePurgeInterface
  BY DEF C!runStatePurgeInterface, P!runStatePurgeInterface, C!Unconfigure, P!Unconfigure,
       C!Unconfigured, P!Unconfigured, C!UnconfigureFails, P!UnconfigureFails, C!Iface,
       P!Iface, C!NoAddrs, P!NoAddrs, C!Kernel, P!Kernel, C!Fault, P!Fault, C!history,
       P!history
<1>2. C!runPostCallback => P!runPostCallback
  BY DEF C!runPostCallback, P!runPostCallback, C!sys, P!sys, C!history, P!history
<1>3. C!advanceState => P!advanceState
  BY DEF C!advanceState, P!advanceState, C!Deadline, P!Deadline, C!sys, P!sys, C!history,
       P!history
<1>4. C!NoReply => P!NoReply
  BY DEF C!NoReply, P!NoReply, C!FailState, P!FailState, C!Fault, P!Fault, C!history,
       P!history
<1>5. C!runStateIfconfig => P!runStateIfconfig
  BY DEF C!runStateIfconfig, P!runStateIfconfig, C!SetIface, P!SetIface, C!SetIfaceFails,
       P!SetIfaceFails, C!filterNetconfig, P!filterNetconfig, C!buildNetconfig,
       P!buildNetconfig, C!WithAddr, P!WithAddr, C!Iface, P!Iface, C!Unconfigured,
       P!Unconfigured, C!UnconfigureFails, P!UnconfigureFails, C!NoAddrs, P!NoAddrs,
       C!Kernel, P!Kernel, C!Fault, P!Fault, C!history, P!history
<1>6. C!ResetDone => P!ResetDone
  BY DEF C!ResetDone, P!ResetDone, C!sys, P!sys, C!history, P!history
<1>7. C!runStateBound => P!runStateBound
  BY DEF C!runStateBound, P!runStateBound, C!Deadlines, P!Deadlines, C!sys, P!sys, C!history,
       P!history
<1>8. C!WakeUp => P!WakeUp
  BY DEF C!WakeUp, P!WakeUp, C!sys, P!sys, C!history, P!history
<1>9. C!LoopEnd => P!LoopEnd
  BY DEF C!LoopEnd, P!LoopEnd, C!sys, P!sys, C!history, P!history
<1>10. C!runStateArpCheck => P!runStateArpCheck
  BY DEF C!runStateArpCheck, P!runStateArpCheck, C!sys, P!sys, C!history, P!history
<1>11. C!PingDone => P!PingDone
  BY DEF C!PingDone, P!PingDone, C!Fault, P!Fault
<1> QED
  BY <1>1, <1>2, <1>3, <1>4, <1>5, <1>6, <1>7, <1>8, <1>9, <1>10, <1>11 DEF C!Step, P!Step

LEMMA SamePing ==
    ASSUME NEW used \in BOOLEAN, C!PingAnswered(used)
    PROVE  P!PingAnswered(used)
BY DEF C!PingAnswered, P!PingAnswered, C!panicReset, P!panicReset, C!Unconfigure,
       P!Unconfigure, C!Unconfigured, P!Unconfigured, C!UnconfigureFails,
       P!UnconfigureFails, C!Iface, P!Iface, C!NoAddrs, P!NoAddrs, C!Kernel, P!Kernel,
       C!Fault, P!Fault

LEMMA SameCancel == C!Cancel => P!Cancel
BY DEF C!Cancel, P!Cancel, C!machine, P!machine, C!sys, P!sys

LEMMA SameResume ==
    ASSUME NEW ctxDone \in BOOLEAN, C!ResumeClient(ctxDone)
    PROVE  P!ResumeClient(ctxDone)
BY DEF C!ResumeClient, P!ResumeClient, C!sys, P!sys, C!history, P!history

LEMMA SameArrival == ASSUME NEW msg, C!catchReply(msg) PROVE P!catchReply(msg)
BY DEF C!catchReply, P!catchReply, C!verify, P!verify, C!VerifyOffer, P!VerifyOffer,
       C!verifyGenAck, P!verifyGenAck, C!verifyCommon, P!verifyCommon, C!NextState,
       P!NextState, C!NackState, P!NackState, C!sys, P!sys, C!Max, P!Max

LEMMA SameTick == C!Tick => P!Tick
BY DEF C!Tick, P!Tick, C!Waiting, P!Waiting, C!Down, P!Down, C!Min, P!Min, C!Iface,
       P!Iface, C!Kernel, P!Kernel, C!NoAddrs, P!NoAddrs

LEMMA SameInit == C!DClientInit => P!DClientInit
BY DEF C!DClientInit, P!DClientInit
-----------------------------------------------------------------------------
(***************************************************************************)
(* What is under way.                                                      *)
(***************************************************************************)
\* Replies and requests are those of server and client, and only while the
\* client waits does a reply belong to its exchange.
NetInv ==
    /\ inbox \subseteq [pkt : ClientMsg, ttl : 0 .. Transit]
    /\ late \subseteq [pkt : MyRequests, ttl : 0 .. Transit]
    /\ cPc # "reply" => answers = {} /\ \A x \in inbox : x.pkt.xid = "old"

\* What is known of either side alone.
SidesInv == ServerInv /\ StartInv /\ P!Typed

LEMMA MsgFields ==
    ASSUME NEW msg \in ClientMsg
    PROVE  /\ msg.type \in {"offer", "ack", "nack"} /\ msg.xid \in {"cur", "old"}
           /\ msg.ip \in Uip \cup {nil} /\ msg.sid = "self" /\ msg.router = "router"
           /\ msg.lease \in {0, LeaseTime}
BY DEF ClientMsg, ReplyMsg

\* A client that waits for a reply has a request to send, one of its own.
LEMMA SendingMine ==
    ASSUME P!Typed, cPc = "reply"
    PROVE  Sending \in MyRequests
<1>1. cState \in {"Discovering", "Selecting", "Renewing", "Rebinding"}
  BY DEF P!Typed, P!WaitsWhere
<1>2. cState # "Discovering" => cLast \in ClientMsg /\ cLast.ip \in Uip
  BY <1>1 DEF P!Typed, P!LastVerified
<1>3. cState # "Discovering" => cLast.sid = "self"
  BY <1>2, MsgFields
<1> QED
  BY <1>1, <1>2, <1>3
  DEF Sending, MyRequests, RequestSelecting, RequestRenewing, RequestRebinding

\* A reply of the server, as the client reads it.
LEMMA ReplyTyped ==
    ASSUME ServerInv, NEW h \in Handler, Goroutine(h), UNCHANGED <<now, cancelled>>,
           reply' # nil, NEW xid \in {"cur", "old"}
    PROVE  ReplyMsg(reply'.kind, reply'.ip, xid) \in ClientMsg
<1>1. reply'.kind \in {"offer", "ack", "nack"} /\ reply'.ip \in Uip \cup {nil}
  <2>1. CASE proc[h].pc \in {"offer", "ack"}
    <3>1. sendOffer(h) \/ sendAck(h)
      BY <2>1, RepliesFrom
    <3>2. proc[h].ip \in Uip
      BY <2>1 DEF ServerInv, ProcOK
    <3>3. sendMsg(h, "offer", now + OfferTime) \/ sendMsg(h, "ack", now + LeaseTime)
      BY <3>1 DEF sendOffer, sendAck, UpdateAndSend, Drop
    <3> QED BY <3>2, <3>3 DEF sendMsg
  <2>2. CASE proc[h].pc \notin {"offer", "ack"}
    BY <2>2, NoReplyFrom
  <2> QED BY <2>1, <2>2
<1> QED BY <1>1 DEF ClientMsg

\* Each step of the system is one of the server or none, and one of the client
\* or none.
LEMMA SystemSteps ==
    ASSUME SidesInv, NetInv, [SystemNext]_systemVars
    PROVE  /\ [ServerNext]_serverVars
           /\ [P!DClientNext]_P!dclientVars
<1> USE DEF SidesInv
<1>0. UNCHANGED clientVars => UNCHANGED P!dclientVars
  BY DEF clientVars, P!dclientVars, P!machine, P!sys, P!history
<1>1. CASE ClientRuns
  BY <1>1, SameStep, SamePing DEF ClientRuns, P!DClientNext, P!Arrival
<1>2. CASE ClientReads
  <2>1. PICK x \in inbox : C!catchReply(x.pkt)
    BY <1>2 DEF ClientReads
  <2>2. P!catchReply(x.pkt) /\ x.pkt \in ClientMsg
    BY <2>1, SameArrival DEF NetInv
  <2> QED BY <1>2, <2>2 DEF ClientReads, P!DClientNext, P!Arrival
<1>3. ASSUME NEW h \in Handler, ServerReads(h)
      PROVE  (\E p \in Packet : Receive(h, p) /\ UNCHANGED <<now, cancelled>>)
             /\ UNCHANGED clientVars
  <2>1. cPc = "reply" => Sending \in Packet
    BY SendingMine, MyRequestsAssumption
  <2>2. \A x \in late : x.pkt \in Packet
    BY MyRequestsAssumption DEF NetInv
  <2> QED BY <1>3, <2>1, <2>2 DEF ServerReads
<1>4. ASSUME NEW h \in Handler, ServerRuns(h)
      PROVE  Goroutine(h) /\ UNCHANGED <<now, cancelled>> /\ UNCHANGED clientVars
  BY <1>4 DEF ServerRuns
<1>5. CASE Time
  BY <1>5, SameTick DEF Time, ServerNext, P!DClientNext
<1>6. CASE ServerStarts
  BY <1>0, <1>6 DEF ServerStarts, ServerNext
<1>7. CASE UNCHANGED systemVars
  BY <1>0, <1>7 DEF systemVars
<1>8. CASE ClientCancelled \/ ClientResumes
  BY <1>8, SameCancel, SameResume DEF ClientCancelled, ClientResumes, P!DClientNext
<1> QED
  BY <1>0, <1>1, <1>2, <1>3, <1>4, <1>5, <1>6, <1>7, <1>8 DEF SystemNext, ServerNext

\* What has been sent and what ages is a message with the ticks it has left.
LEMMA UnderWay ==
    ASSUME NEW S, NEW p \in S
    PROVE  /\ Sent(p) \in [pkt : S, ttl : 0 .. Transit]
           /\ \A sent : sent \subseteq [pkt : S, ttl : 0 .. Transit] =>
                 /\ Aged(sent) \subseteq [pkt : S, ttl : 0 .. Transit]
                 /\ \A x \in Aged(sent) : \E y \in sent : /\ x.pkt = y.pkt /\ y.ttl > 0
                                                         /\ x.ttl = y.ttl - 1
BY ClientAssumption DEF Sent, Aged

\* The end of an exchange makes all that is under way late.
LEMMA ExchangeKeeps ==
    ASSUME P!Typed, NetInv, Exchange
    PROVE  /\ NetInv'
           /\ inbox' = inbox \/ \A x \in inbox' : x.pkt.xid = "old"
           /\ \A x \in inbox' : \E y \in inbox : x.pkt.type = y.pkt.type /\ x.pkt.ip = y.pkt.ip
<1>1. CASE cPc = "reply" /\ cPc' # "reply"
  <2>1. late' \subseteq [pkt : MyRequests, ttl : 0 .. Transit]
    BY <1>1, SendingMine, ClientAssumption DEF Exchange, NetInv, Sent
  <2>2. /\ inbox' = {[pkt |-> ReplyMsg(x.pkt.type, x.pkt.ip, "old"), ttl |-> x.ttl] : x \in inbox}
        /\ answers' = {}
    BY <1>1 DEF Exchange
  <2>3. ASSUME NEW msg \in ClientMsg
        PROVE  LET old == ReplyMsg(msg.type, msg.ip, "old")
               IN  old \in ClientMsg /\ old.xid = "old" /\ old.type = msg.type /\ old.ip = msg.ip
    <3>1. ReplyMsg(msg.type, msg.ip, "old") \in ClientMsg
      BY MsgFields DEF ClientMsg
    <3>2. /\ ReplyMsg(msg.type, msg.ip, "old").xid = "old"
          /\ ReplyMsg(msg.type, msg.ip, "old").type = msg.type
          /\ ReplyMsg(msg.type, msg.ip, "old").ip = msg.ip
      BY DEF ReplyMsg
    <3> QED BY <3>1, <3>2
  <2>4. ASSUME NEW x \in inbox'
        PROVE  /\ x \in [pkt : ClientMsg, ttl : 0 .. Transit] /\ x.pkt.xid = "old"
               /\ \E y \in inbox : x.pkt.type = y.pkt.type /\ x.pkt.ip = y.pkt.ip
    <3>1. PICK y \in inbox : x = [pkt |-> ReplyMsg(y.pkt.type, y.pkt.ip, "old"), ttl |-> y.ttl]
      BY <2>2
    <3>2. y.pkt \in ClientMsg /\ y.ttl \in 0 .. Transit
      BY DEF NetInv
    <3>3. PICK old : /\ old = ReplyMsg(y.pkt.type, y.pkt.ip, "old") /\ old \in ClientMsg
                     /\ old.xid = "old" /\ old.type = y.pkt.type /\ old.ip = y.pkt.ip
      BY <2>3, <3>2
    <3> QED BY <3>1, <3>2, <3>3
  <2> QED BY <2>1, <2>2, <2>4 DEF NetInv
<1>2. CASE ~(cPc = "reply" /\ cPc' # "reply")
  BY <1>2 DEF Exchange, NetInv, netVars, MyRequests, ClientMsg
<1> QED BY <1>1, <1>2

LEMMA NetInvInit == SystemInit => NetInv
BY DEF SystemInit, NetInv

LEMMA NetInvKeeps ==
    ASSUME SidesInv, NetInv, [SystemNext]_systemVars
    PROVE  NetInv'
<1>1. CASE ClientRuns \/ ClientReads
  BY <1>1, ExchangeKeeps DEF ClientRuns, ClientReads, SidesInv
<1>2. CASE \E h \in Handler : ServerReads(h)
  BY <1>2 DEF ServerReads, NetInv, clientVars, MyRequests, ClientMsg
<1>3. ASSUME NEW h \in Handler, ServerRuns(h) PROVE NetInv'
  <2>1. PICK xid \in {"cur", "old"} : xid = IF h \in answers THEN "cur" ELSE "old"
    OBVIOUS
  <2>2. inbox' = inbox \/ (reply' # nil /\ inbox' = inbox \cup {Sent(ReplyMsg(reply'.kind, reply'.ip, xid))})
    BY <1>3, <2>1 DEF ServerRuns
  <2>3. reply' # nil => ReplyMsg(reply'.kind, reply'.ip, xid) \in ClientMsg
    BY <1>3, ReplyTyped DEF ServerRuns, SidesInv
  <2>4. cPc # "reply" => xid = "old"
    BY <2>1 DEF NetInv
  <2>5. inbox' \subseteq [pkt : ClientMsg, ttl : 0 .. Transit]
    BY <2>2, <2>3, UnderWay DEF NetInv
  <2>6. cPc # "reply" => \A x \in inbox' : x.pkt.xid = "old"
    BY <2>2, <2>4 DEF NetInv, ReplyMsg, Sent
  <2> QED BY <1>3, <2>5, <2>6 DEF ServerRuns, NetInv, clientVars
<1>4. CASE Time
  <2>1. /\ inbox' \in {{}, Aged(inbox)} /\ late' \in {{}, Aged(late)}
        /\ UNCHANGED <<cPc, answers>>
    BY <1>4 DEF Time, C!Tick
  <2>2. /\ inbox' \subseteq [pkt : ClientMsg, ttl : 0 .. Transit]
        /\ late' \subseteq [pkt : MyRequests, ttl : 0 .. Transit]
        /\ \A x \in inbox' : \E y \in inbox : x.pkt = y.pkt
    BY <2>1, ClientAssumption DEF NetInv, Aged
  <2> QED BY <2>1, <2>2 DEF NetInv, MyRequests, ClientMsg
<1>5. CASE ServerStarts \/ ClientCancelled \/ UNCHANGED systemVars
  <2>1. UNCHANGED <<cPc, inbox, late, answers>>
    BY <1>5 DEF ServerStarts, systemVars, netVars, clientVars, ClientCancelled, C!Cancel, C!machine
  <2> QED BY <2>1 DEF NetInv, MyRequests, ClientMsg
<1>6. CASE ClientResumes
  BY <1>6 DEF ClientResumes, netVars, C!ResumeClient, NetInv, MyRequests, ClientMsg
<1> QED
  BY <1>1, <1>2, <1>3, <1>4, <1>5, <1>6 DEF SystemNext

LEMMA SidesInvInit == SystemInit => SidesInv
BY ServerInvInit, SameInit, P!TypedInit, ClientAssumptions DEF SystemInit, SidesInv

LEMMA SidesInvKeeps ==
    ASSUME SidesInv, NetInv, [SystemNext]_systemVars
    PROVE  SidesInv'
<1>1. [ServerNext]_serverVars /\ [P!DClientNext]_P!dclientVars
  BY SystemSteps
<1>2. ServerInv' /\ StartInv'
  BY <1>1, ServerInvKeeps DEF SidesInv
<1>3. P!Typed'
  BY <1>1, P!TypedKeeps, ClientAssumptions DEF SidesInv
<1> QED BY <1>2, <1>3 DEF SidesInv

\* To the server, the client of this module is one of those that send it
\* packets (run.go:30-63).
THEOREM SystemHasServer == SystemSafety => ServerSafety
<1>1. SystemInit => ServerInit
  BY DEF SystemInit
<1> QED
  BY <1>1, SidesInvInit, NetInvInit, SidesInvKeeps, NetInvKeeps, SystemSteps, PTL
  DEF SystemSafety, ServerSafety

\* To the client, the server is one of the senders of the messages that come in
\* (netio.go:70-110 of the client).
THEOREM SystemHasClient == SystemSafety => P!DClientSafety
<1>1. SystemInit => P!DClientInit
  BY SameInit DEF SystemInit
<1> QED
  BY <1>1, SidesInvInit, NetInvInit, SidesInvKeeps, NetInvKeeps, SystemSteps, PTL
  DEF SystemSafety, P!DClientSafety
-----------------------------------------------------------------------------
(***************************************************************************)
(* The lease the client counts on.                                         *)
(***************************************************************************)
\* A step of the client, or the answer to its ping.
ClientStep == P!Step \/ \E used \in BOOLEAN : P!PingAnswered(used)

LEMMA RunsStep == ClientRuns => ClientStep
BY SameStep, SamePing DEF ClientRuns, ClientStep

\* How long ago the client accepted the lease it is to configure: only the ping
\* takes time.
Pinged ==
    IF cPc = "ping" THEN PingTime - cWait ELSE IF cState = "ArpCheck" THEN 0 ELSE PingTime

\* What the client's steps do to the interface: an address stays or goes, or that
\* of the lease is new.
LEMMA StepAddrs ==
    ASSUME P!Typed, ClientStep
    PROVE  \A ip \in Uip :
              \/ cIface'.addrs[ip] \in {0, cIface.addrs[ip]}
              \/ /\ cState = "Ifconfig" /\ cPc = "loop"
                 /\ ip = cLast.ip /\ cIface'.addrs[ip] = cLast.lease
<1> USE DEF P!sys, P!history
<1>0. /\ cIface \in P!IfaceType /\ cFaults \in 0 .. MaxFaults
      /\ cState = "Ifconfig" => cLast \in ClientMsg /\ cLast.ip \in Uip
  BY DEF P!Typed, P!DClientTypeOK, P!IfaceType, P!LastVerified
<1>1. CASE P!Unconfigure
  BY <1>0, <1>1, P!UnconfigureOK, ClientAssumptions
<1>2. CASE P!runStateIfconfig
  <2> DEFINE c == P!filterNetconfig(P!buildNetconfig)
  <2>1. cState = "Ifconfig" /\ cPc = "loop" /\ cLast \in ClientMsg /\ cLast.ip \in Uip
    BY <1>0, <1>2 DEF P!runStateIfconfig
  <2>2. CASE cIface' = P!SetIface(c)
    <3>1. P!SetIface(c).addrs = [cIface.addrs EXCEPT ![cLast.ip] = cLast.lease]
      BY <1>0, <2>1, P!SetIfaceOK, ClientAssumptions
    <3> QED BY <1>0, <2>1, <2>2, <3>1 DEF P!IfaceType
  <2>3. ASSUME NEW i \in P!SetIfaceFails(c),
               cIface' = P!Unconfigured(i) \/ cIface' \in P!UnconfigureFails(i)
        PROVE  \A ip \in Uip : \/ cIface'.addrs[ip] \in {0, cIface.addrs[ip]}
                               \/ ip = cLast.ip /\ cIface'.addrs[ip] = cLast.lease
    <3>1. /\ i \in P!IfaceType
          /\ i.addrs \in {cIface.addrs, [cIface.addrs EXCEPT ![cLast.ip] = cLast.lease]}
      BY <1>0, <2>1, P!SetIfaceFailsOK, ClientAssumptions
    <3>2. \A ip \in Uip : cIface'.addrs[ip] \in {0, i.addrs[ip]}
      BY <2>3, <3>1, P!UnconfiguredOK, P!UnconfigureFailsOK, ClientAssumptions
    <3>3. \A ip \in Uip : i.addrs[ip] = cIface.addrs[ip] \/ (ip = cLast.ip /\ i.addrs[ip] = cLast.lease)
      BY <1>0, <3>1 DEF P!IfaceType
    <3> QED BY <3>2, <3>3
  <2> QED BY <1>2, <2>1, <2>2, <2>3 DEF P!runStateIfconfig
<1>3. CASE UNCHANGED cIface
  BY <1>3
<1> QED
  BY <1>1, <1>2, <1>3
  DEF ClientStep, P!Step, P!runStatePurgeInterface, P!runPostCallback, P!advanceState, P!NoReply,
      P!runStateArpCheck, P!PingDone, P!PingAnswered, P!panicReset, P!ResetDone,
      P!runStateBound, P!WakeUp, P!LoopEnd

\* How the client comes to configure an address and to wait for a reply.
LEMMA StepEffects ==
    ASSUME P!Typed, ClientStep
    PROVE  /\ cLast' = cLast
           /\ cState' \in {"ArpCheck", "Ifconfig"} /\ cPc' # "reset" =>
                 cState \in {"ArpCheck", "Ifconfig"} /\ cPc # "reset" /\ Pinged <= Pinged'
           /\ cPc' = "reply" => cPc # "reply"
<1> USE ClientAssumption DEF P!sys, P!history, Pinged
<1>0. /\ cPc = "script" => cState \in {"Discovering", "Bound"}
      /\ cPc = "reply" => cState \in {"Discovering", "Selecting", "Renewing", "Rebinding"}
      /\ cPc = "sleep" => cState = "Bound"
      /\ cPc = "reset" => cState \in {"ArpCheck", "Ifconfig"}
      /\ cPc = "ping" => cState = "ArpCheck" /\ cWait <= PingTime
      /\ cWait \in Nat
  BY DEF P!Typed, P!DClientTypeOK, P!WaitsWhere
<1>1. CASE P!runStatePurgeInterface
  BY <1>0, <1>1 DEF P!runStatePurgeInterface
<1>2. CASE P!runPostCallback
  BY <1>0, <1>2 DEF P!runPostCallback
<1>3. CASE P!advanceState
  BY <1>0, <1>3 DEF P!advanceState
<1>4. CASE P!NoReply
  BY <1>0, <1>4 DEF P!NoReply, P!FailState
<1>5. CASE P!runStateArpCheck
  BY <1>0, <1>5 DEF P!runStateArpCheck
<1>6. CASE P!PingDone \/ \E used \in BOOLEAN : P!PingAnswered(used)
  BY <1>0, <1>6 DEF P!PingDone, P!PingAnswered, P!panicReset
<1>7. CASE P!runStateIfconfig
  BY <1>0, <1>7 DEF P!runStateIfconfig
<1>8. CASE P!ResetDone
  BY <1>0, <1>8 DEF P!ResetDone
<1>9. CASE P!runStateBound
  BY <1>0, <1>9 DEF P!runStateBound
<1>10. CASE P!WakeUp
  BY <1>0, <1>10 DEF P!WakeUp
<1>11. CASE P!LoopEnd
  BY <1>0, <1>11 DEF P!LoopEnd
<1> QED
  BY <1>1, <1>2, <1>3, <1>4, <1>5, <1>6, <1>7, <1>8, <1>9, <1>10, <1>11 DEF ClientStep, P!Step

\* From runStatePurgeInterface, if no call fails, the client goes without
\* addresses.
LEMMA StepStarts ==
    ASSUME P!Typed, ClientStep, cState = "PurgeInterface", cPc = "loop", cFaults' = cFaults
    PROVE  /\ \A ip \in Uip : cIface'.addrs[ip] = 0
           /\ cState' = "Discovering" /\ cPc' = "script" /\ UNCHANGED cCancelled
<1>1. P!runStatePurgeInterface
  BY DEF ClientStep, P!Step, P!runPostCallback, P!advanceState, P!NoReply, P!runStateArpCheck,
         P!PingDone, P!PingAnswered, P!runStateIfconfig, P!ResetDone, P!runStateBound,
         P!WakeUp, P!LoopEnd
<1>2. cIface \in P!IfaceType /\ cFaults \in Nat
  BY DEF P!Typed, P!DClientTypeOK, P!IfaceType
<1>3. cIface' = P!Unconfigured(cIface)
  BY <1>1, <1>2 DEF P!runStatePurgeInterface, P!Unconfigure, P!Fault
<1> QED
  BY <1>1, <1>2, <1>3, P!UnconfiguredOK, ClientAssumptions DEF P!runStatePurgeInterface

\* What reading a message does: if the client goes on to configure an address,
\* it was acknowledged in answer to the current request, for the address asked.
LEMMA ReadEffects ==
    ASSUME P!Typed, NEW msg \in ClientMsg, C!catchReply(msg)
    PROVE  /\ cPc = "reply" /\ cPc' = "end"
           /\ UNCHANGED cIface
           /\ cState' \in {"ArpCheck", "Ifconfig"} =>
                 /\ cLast' = msg /\ msg.type = "ack" /\ msg.xid = "cur"
                 /\ cLast # nil /\ msg.ip = cLast.ip
<1>1. cState \in {"Discovering", "Selecting", "Renewing", "Rebinding"} /\ cPc = "reply"
  BY DEF P!Typed, P!WaitsWhere, C!catchReply
<1>2. cPc' = "end" /\ UNCHANGED cIface
  BY DEF C!catchReply, C!sys
<1>3. ASSUME cState' \in {"ArpCheck", "Ifconfig"}
      PROVE  /\ cLast' = msg /\ msg.type = "ack" /\ msg.xid = "cur" /\ msg.ip = cLast.ip
             /\ cState # "Discovering"
  BY <1>1, <1>3 DEF C!catchReply, C!NextState, C!NackState, C!verify, C!VerifyOffer,
                    C!verifyGenAck, C!verifyCommon
<1>4. cState # "Discovering" => cLast # nil
  BY <1>1 DEF P!Typed, P!DClientTypeOK
<1> QED BY <1>1, <1>2, <1>3, <1>4

LEMMA AddrsTyped ==
    ASSUME P!Typed
    PROVE  /\ cIface.addrs \in [Uip -> Nat]
           /\ cState \notin {"PurgeInterface", "Discovering"} =>
                 cLast \in ClientMsg /\ cLast.ip \in Uip /\ cLast.lease = LeaseTime
<1>1. cState \notin {"PurgeInterface", "Discovering"} =>
         cLast \in ClientMsg /\ cLast.ip \in Uip /\ cLast.lease >= Minute
  BY DEF P!Typed, P!LastVerified
<1>2. cIface.addrs \in [Uip -> Nat]
  BY DEF P!Typed, P!DClientTypeOK
<1>3. cLast \in ClientMsg => cLast.lease \in {0, LeaseTime}
  BY MsgFields
<1> QED BY <1>1, <1>2, <1>3, ClientAssumption

\* No address lives longer than a lease.
ShortInv == \A ip \in Uip : cIface.addrs[ip] <= LeaseTime

LEMMA ShortInvInit == SystemInit => ShortInv
BY TimeAssumption DEF SystemInit, C!DClientInit, C!NoAddrs, ShortInv

LEMMA ShortInvKeeps ==
    ASSUME SidesInv, NetInv, ShortInv, [SystemNext]_systemVars
    PROVE  ShortInv'
<1>0. P!Typed /\ LeaseTime \in Nat /\ cIface.addrs \in [Uip -> Nat]
  BY AddrsTyped, TimeAssumption DEF SidesInv
<1>1. CASE ClientRuns
  <2>1. \A ip \in Uip : cIface'.addrs[ip] \in {0, cIface.addrs[ip], LeaseTime}
    BY <1>0, <1>1, RunsStep, StepAddrs, AddrsTyped
  <2> QED BY <1>0, <2>1 DEF ShortInv
<1>2. CASE Time
  <2>1. cIface'.addrs = [ip \in Uip |-> C!Down(cIface.addrs[ip])]
    BY <1>2 DEF Time, C!Tick, C!Iface
  <2>2. \A ip \in Uip : C!Down(cIface.addrs[ip]) <= cIface.addrs[ip]
                        /\ C!Down(cIface.addrs[ip]) \in Nat
    BY <1>0 DEF C!Down
  <2> QED BY <1>0, <2>1, <2>2 DEF ShortInv
<1>3. CASE UNCHANGED cIface
  BY <1>3 DEF ShortInv
<1>4. ClientReads \/ ClientCancelled \/ ClientResumes => UNCHANGED cIface
  BY DEF ClientReads, ClientCancelled, ClientResumes, C!catchReply, C!Cancel, C!ResumeClient, C!sys
<1> QED
  BY <1>1, <1>2, <1>3, <1>4
  DEF SystemNext, ServerReads, ServerRuns, ServerStarts, systemVars, clientVars

\* The server's table has an address for the client until then.
HeldIn(table, time, ip, until) ==
    \E d \in DuidsOf(Me) :
        LET c == Entry(table, time, d)
        IN  c # nil /\ c.ip = ip /\ (c.permanent \/ c.leasedUntil >= until)

\* For so many ticks, if it is any.
HeldFor(table, time, ip, n) == n >= 0 => HeldIn(table, time, ip, time + n)

\* How long a reply may have been under way before the client accepted it: nothing
\* that concerns a smooth client is under way over a tick.
Lag == IF smooth THEN 0 ELSE Transit

\* Unless an offer has cut the lease short: whatever the client has configured,
\* is about to configure or may yet be told to, the server holds for it as long as
\* the client will, but for the time the reply was under way and the ping took.
HeldInv ==
    /\ \A ip \in Uip \ cut :
          cIface.addrs[ip] > 0 => HeldFor(m, now, ip, cIface.addrs[ip] - PingTime - Lag)
    /\ cState \in {"ArpCheck", "Ifconfig"} /\ cPc # "reset" /\ cLast.ip \notin cut =>
          HeldFor(m, now, cLast.ip, LeaseTime - Pinged - Lag)
    /\ \A x \in inbox :
          /\ x.pkt.type = "ack" /\ x.pkt.xid = "cur"
          /\ cLast # nil /\ x.pkt.ip = cLast.ip /\ cLast.ip \notin cut
          => HeldFor(m, now, cLast.ip, LeaseTime - (IF smooth THEN 0 ELSE Transit - x.ttl))

LEMMA HeldInvInit == SystemInit => HeldInv
BY DEF SystemInit, C!DClientInit, C!NoAddrs, HeldInv

\* What is left of a lease after two delays that have grown.
LEMMA LessLeft ==
    ASSUME NEW t \in Nat, NEW k \in Int, NEW p1 \in Nat, NEW p2 \in Nat, NEW d1 \in Nat,
           NEW d2 \in Nat, p2 = p1 + t, d1 <= d2
    PROVE  /\ k - p1 - d1 \in Int /\ k - p2 - d2 \in Int
           /\ k - p2 - d2 <= k - p1 - d1 - t
           /\ k - p1 - d1 <= k
OBVIOUS

LEMMA HeldLess ==
    ASSUME NEW table, IsTable(table), NEW time \in Nat, NEW ip, NEW k \in Int, NEW n \in Int,
           n <= k, HeldFor(table, time, ip, k)
    PROVE  HeldFor(table, time, ip, n)
<1> SUFFICES ASSUME n >= 0 PROVE HeldIn(table, time, ip, time + n)
  BY DEF HeldFor
<1>1. PICK d \in DuidsOf(Me) :
         LET c == Entry(table, time, d)
         IN  c # nil /\ c.ip = ip /\ (c.permanent \/ c.leasedUntil >= time + k)
  BY DEF HeldFor, HeldIn
<1>2. Entry(table, time, d) \in Client
  BY <1>1, DuidsTyped, MeAssumption DEF Entry, IsTable
<1>3. LET c == Entry(table, time, d)
      IN  c # nil /\ c.ip = ip /\ (c.permanent \/ c.leasedUntil >= time + n)
  BY <1>1, <1>2 DEF Client
<1> QED BY <1>3 DEF HeldIn

\* A record outlasts each step that leaves the client's live ones alone.
LEMMA HeldOn ==
    ASSUME IsTable(m), now \in Nat, now' \in Nat, now <= now',
           \A x \in DuidsOf(Me) : Live(m, now, x) => m'[x] = m[x],
           NEW ip, NEW until \in Nat, now' <= until, HeldIn(m, now, ip, until)
    PROVE  HeldIn(m', now', ip, until)
<1> DEFINE lease == [ip |-> ip, until |-> until]
<1>1. PICK l : l = lease
  OBVIOUS
<1>2. l.until = until /\ Recorded(Me, l)
  BY <1>1 DEF HeldIn, Recorded
<1>3. Recorded(Me, l)'
  BY <1>2, RecordedKept, MeAssumption
<1> QED BY <1>1, <1>3 DEF HeldIn, Recorded, DuidsOf

\* A record outlasts each step of the server but an offer of its address to the
\* client.
LEMMA HeldKept ==
    ASSUME DistinctIds, ServerInv, CidRight, NEW h \in Handler, Goroutine(h),
           UNCHANGED <<now, cancelled>>, NEW ip, ~(Replies("offer") /\ reply'.ip = ip),
           NEW until \in Nat, now <= until, until <= now + LeaseTime, HeldIn(m, now, ip, until)
    PROVE  HeldIn(m', now', ip, until)
<1>0. /\ TableOK(m, now) /\ ManagedTable(m) /\ IsTable(m) /\ now \in Nat /\ IPDBInv
  BY DEF ServerInv, IPDBInv, IPDBTypeOK, ClientsTypeOK
<1>1. ASSUME \A x \in DuidsOf(Me) : Live(m, now, x) => m'[x] = m[x]
      PROVE  HeldIn(m', now', ip, until)
  BY <1>0, <1>1, HeldOn
<1>2. CASE Quiet
  BY <1>0, <1>1, <1>2, QuietRecords, DuidsTyped, MeAssumption
<1>3. CASE sendOffer(h) \/ sendAck(h)
  <2>1. PICK ttl \in {OfferTime, LeaseTime}, kind \in {"offer", "ack"} :
           /\ proc[h].pc \in {"offer", "ack"} /\ UpdateAndSend(h, kind, ttl)
           /\ kind = "ack" => ttl = LeaseTime
    BY <1>3 DEF sendOffer, sendAck
  <2> DEFINE r == UpdateTable(m, now, proc[h].ip, duid(h), ttl)
  <2>2. PICK hw, d : hw = proc[h].pkt.hw /\ d = duid(h)
    OBVIOUS
  <2>3. /\ ttl \in Nat /\ proc[h].ip \in Uip /\ d \in Duid /\ hw \in Hw /\ d \in DuidsOf(hw)
    BY <2>1, <2>2, OwnDuid, TimeAssumption DEF ServerInv, ProcOK
  <2>4. m' = r.tbl /\ now' = now
    BY <2>1, <2>2 DEF UpdateAndSend, UpdateClient
  <2>5. ASSUME NEW x \in DuidsOf(Me), Live(m, now, x), ~r.ok \/ x # d
        PROVE  m'[x] = m[x]
    <3>1. x \in Duid
      BY DuidsTyped, MeAssumption
    <3>2. m[x].duid = x
      BY <1>0, <2>5, <3>1, KeyFacts, ModAssumption DEF Uip
    <3> QED BY <1>0, <2>2, <2>3, <2>4, <2>5, <3>1, <3>2, UpdateRecords
  <2>6. CASE ~r.ok
    BY <1>1, <2>5, <2>6
  <2>7. CASE r.ok /\ hw # Me
    BY <1>1, <2>3, <2>5, <2>7, DuidsDisjoint, MeAssumption
  <2>8. CASE r.ok /\ hw = Me
    <3>1. Replies(kind) /\ reply'.ip = proc[h].ip
      <4>1. sendMsg(h, kind, now + ttl)
        BY <2>1, <2>2, <2>8 DEF UpdateAndSend
      <4>2. reply' = [kind |-> kind, hw |-> Me, ip |-> proc[h].ip]
        BY <2>2, <2>8, <4>1 DEF sendMsg
      <4>3. reply' # nil
        BY <2>3, <4>2, MeAssumption, ReplyAssumption
      <4> QED BY <4>2, <4>3 DEF Replies
    <3>2. PICK x \in DuidsOf(Me) :
             LET c == Entry(m, now, x)
             IN  c # nil /\ c.ip = ip /\ (c.permanent \/ c.leasedUntil >= until)
      BY DEF HeldIn
    <3>3. x \in Duid
      BY DuidsTyped, MeAssumption
    <3>4. Live(m, now, x) /\ m[x] # nil /\ m[x].ip = ip
          /\ (m[x].permanent \/ m[x].leasedUntil >= until)
      BY <3>2, <3>3, EntryLive DEF Live
    <3>5. CASE x # d
      <4>1. m'[x] = m[x]
        BY <2>5, <3>4, <3>5
      <4>2. Entry(m', now', x) = m[x]
        BY <1>0, <2>4, <3>4, <4>1 DEF Entry, Live
      <4> QED BY <3>3, <3>4, <4>2 DEF HeldIn
    <3>6. CASE x = d
      <4>1. /\ m'[x] # nil /\ m'[x].leasedUntil = now + ttl /\ m'[x].ip = proc[h].ip
            /\ SameClient(m'[x], m[x])
        BY <1>0, <2>2, <2>3, <2>4, <2>8, <3>3, <3>4, <3>6, UpdateRecords
      <4>2. ttl = LeaseTime
        BY <2>1, <3>1, <3>4, <4>1 DEF SameClient
      <4>3. Entry(m', now', x) = m'[x]
        BY <1>0, <2>4, <4>1, <4>2, TimeAssumption DEF Entry, Expired
      <4> QED BY <3>3, <3>4, <4>1, <4>2, <4>3 DEF HeldIn, SameClient
    <3> QED BY <3>5, <3>6
  <2> QED BY <2>6, <2>7, <2>8
<1> QED
  BY <1>2, <1>3, GoroutinePool, RepliesFrom

\* An acknowledgement is of a lease the table has.
LEMMA AckHeld ==
    ASSUME ServerInv, CidRight, NEW h \in Handler, Goroutine(h),
           UNCHANGED <<now, cancelled>>, Replies("ack")
    PROVE  HeldIn(m', now', reply'.ip, now' + LeaseTime)
<1>0. /\ TableOK(m, now) /\ ManagedTable(m) /\ now \in Nat /\ now' = now
  BY DEF ServerInv, IPDBInv, IPDBTypeOK, ClientsTypeOK
<1>1. proc[h].pc \in {"offer", "ack"}
  BY NoReplyFrom DEF Replies
<1>2. sendAck(h)
  <2>1. ASSUME sendOffer(h) PROVE FALSE
    BY <2>1 DEF sendOffer, UpdateAndSend, sendMsg, Drop, Replies
  <2> QED BY <1>1, <2>1, RepliesFrom
<1> DEFINE r == UpdateTable(m, now, proc[h].ip, duid(h), LeaseTime)
<1>3. PICK d : d = duid(h)
  OBVIOUS
<1>4. d \in Duid /\ proc[h].ip \in Uip /\ LeaseTime \in Nat /\ d \in DuidsOf(proc[h].pkt.hw)
  BY <1>1, <1>3, OwnDuid, TimeAssumption DEF ServerInv, ProcOK
<1>5. m' = r.tbl /\ r.ok /\ reply'.ip = proc[h].ip /\ proc[h].pkt.hw = Me
  BY <1>2 DEF sendAck, UpdateAndSend, UpdateClient, sendMsg, Drop, Replies
<1>6. m'[d] # nil /\ m'[d].ip = reply'.ip /\ m'[d].leasedUntil = now + LeaseTime
  BY <1>0, <1>3, <1>4, <1>5, UpdateRecords
<1>7. Entry(m', now', d) = m'[d]
  BY <1>0, <1>4, <1>6 DEF Entry, Expired
<1>8. d \in DuidsOf(Me)
  BY <1>4, <1>5
<1>9. LET c == Entry(m', now', d)
      IN  c # nil /\ c.ip = reply'.ip /\ c.leasedUntil >= now' + LeaseTime
  BY <1>0, <1>4, <1>6, <1>7
<1> QED BY <1>8, <1>9 DEF HeldIn

LEMMA HeldInvKeeps ==
    ASSUME DistinctIds, SidesInv, NetInv, PromiseInv, ShortInv, HeldInv, [SystemNext]_systemVars
    PROVE  HeldInv'
<1>0. /\ ServerInv /\ StartInv /\ P!Typed /\ CidRight /\ now \in Nat /\ IsTable(m)
      /\ LeaseTime \in Nat /\ PingTime \in Nat /\ Transit \in Nat /\ Lag \in 0 .. Transit
      /\ cIface.addrs \in [Uip -> Nat] /\ \A ip \in Uip : cIface.addrs[ip] <= LeaseTime
      /\ Pinged \in Nat
  <2>1. ServerInv /\ StartInv /\ P!Typed /\ CidRight
    BY DEF SidesInv, PromiseInv
  <2>2. now \in Nat /\ IsTable(m)
    BY <2>1 DEF ServerInv, IPDBInv, IPDBTypeOK, ClientsTypeOK
  <2>3. PingTime \in Nat /\ Transit \in Nat /\ Lag \in 0 .. Transit
    BY ClientAssumption DEF Lag
  <2>4. Pinged \in Nat
    BY <2>1, <2>3 DEF Pinged, P!Typed, P!DClientTypeOK, P!WaitsWhere
  <2> QED BY <2>1, <2>2, <2>3, <2>4, AddrsTyped, TimeAssumption DEF ShortInv
<1>1. /\ NetInv' /\ P!Typed' /\ IsTable(m') /\ now' \in Nat /\ Lag' \in 0 .. Transit
      /\ Pinged' \in Nat /\ cIface'.addrs \in [Uip -> Nat]
  <2>1. NetInv' /\ ServerInv' /\ P!Typed'
    BY NetInvKeeps, SidesInvKeeps DEF SidesInv
  <2>2. now' \in Nat /\ IsTable(m')
    BY <2>1 DEF ServerInv, IPDBInv, IPDBTypeOK, ClientsTypeOK
  <2>3. Lag' \in 0 .. Transit
    BY ClientAssumption DEF Lag
  <2>4. /\ cWait' \in Nat /\ (cPc' = "ping" => cWait' <= PingTime)
        /\ cIface'.addrs \in [Uip -> Nat]
    BY <2>1 DEF P!Typed, P!DClientTypeOK, P!WaitsWhere
  <2>5. Pinged' \in Nat
    <3>1. PingTime \in Nat
      BY <1>0
    <3>2. CASE cPc' = "ping"
      <4>1. PICK w \in Nat : Pinged' = PingTime - w /\ w <= PingTime
        BY <2>4, <3>2 DEF Pinged
      <4> QED BY <3>1, <4>1
    <3>3. CASE cPc' # "ping"
      BY <3>1, <3>3 DEF Pinged
    <3> QED BY <3>2, <3>3
  <2> QED BY <2>1, <2>2, <2>3, <2>4, <2>5
<1>2. CASE ClientRuns
  <2>1. ClientStep /\ Exchange /\ UNCHANGED <<m, now, cut>> /\ cLast' = cLast
    BY <1>0, <1>2, RunsStep, StepEffects DEF ClientRuns, serverVars, ipdbVars
  <2>2. \A x \in inbox' : x.pkt.xid = "old"
    BY <1>0, <1>1, <2>1, StepEffects DEF NetInv, Exchange, netVars
  <2>3. CASE smooth' /\ ~smooth
    <3>1. cState = "PurgeInterface" /\ cPc = "loop" /\ cFaults' = cFaults
      BY <1>2, <2>3 DEF ClientRuns
    <3>2. cState' = "Discovering" /\ \A ip \in Uip : cIface'.addrs[ip] = 0
      BY <1>0, <2>1, <3>1, StepStarts
    <3> QED BY <2>2, <3>2 DEF HeldInv
  <2>4. CASE smooth' => smooth
    <3>1. Lag <= Lag'
      BY <2>4, ClientAssumption DEF Lag
    <3>2. ASSUME NEW ip \in Uip \ cut, cIface'.addrs[ip] > 0
          PROVE  HeldFor(m, now, ip, cIface'.addrs[ip] - PingTime - Lag')
      <4>1. CASE cIface'.addrs[ip] = cIface.addrs[ip]
        <5>1. HeldFor(m, now, ip, cIface.addrs[ip] - PingTime - Lag)
          BY <3>2, <4>1 DEF HeldInv
        <5>2. PICK k \in Int, n \in Int : /\ k = cIface.addrs[ip] - PingTime - Lag
                                          /\ n = cIface'.addrs[ip] - PingTime - Lag' /\ n <= k
          BY <1>0, <1>1, <3>1, <4>1
        <5> QED BY <1>0, <5>1, <5>2, HeldLess
      <4>2. CASE /\ cState = "Ifconfig" /\ cPc = "loop"
                 /\ ip = cLast.ip /\ cIface'.addrs[ip] = LeaseTime
        <5>1. Pinged = PingTime
          BY <4>2 DEF Pinged
        <5>2. HeldFor(m, now, ip, LeaseTime - PingTime - Lag)
          BY <3>2, <4>2, <5>1 DEF HeldInv
        <5>3. PICK k \in Int, n \in Int : /\ k = LeaseTime - PingTime - Lag
                                          /\ n = cIface'.addrs[ip] - PingTime - Lag' /\ n <= k
          <6>1. cIface'.addrs[ip] = LeaseTime /\ LeaseTime \in Nat /\ PingTime \in Nat
            BY <1>0, <4>2
          <6>2. Lag \in Nat /\ Lag' \in Nat
            BY <1>0, <1>1
          <6>3. LeaseTime \in Int /\ PingTime = PingTime + 0 /\ 0 \in Nat
            BY <6>1
          <6>4. /\ LeaseTime - PingTime - Lag \in Int /\ LeaseTime - PingTime - Lag' \in Int
                /\ LeaseTime - PingTime - Lag' <= LeaseTime - PingTime - Lag - 0
            BY <3>1, <6>1, <6>2, <6>3, LessLeft
          <6>5. LeaseTime - PingTime - Lag - 0 = LeaseTime - PingTime - Lag
            BY <6>4
          <6> QED BY <6>1, <6>4, <6>5
        <5> QED BY <1>0, <5>2, <5>3, HeldLess
      <4> QED BY <1>0, <2>1, <3>2, <4>1, <4>2, StepAddrs, AddrsTyped
    <3>3. ASSUME cState' \in {"ArpCheck", "Ifconfig"}, cPc' # "reset", cLast.ip \notin cut
          PROVE  HeldFor(m, now, cLast.ip, LeaseTime - Pinged' - Lag')
      <4>1. cState \in {"ArpCheck", "Ifconfig"} /\ cPc # "reset" /\ Pinged <= Pinged'
        BY <1>0, <2>1, <3>3, StepEffects
      <4>2. HeldFor(m, now, cLast.ip, LeaseTime - Pinged - Lag)
        BY <3>3, <4>1 DEF HeldInv
      <4>3. PICK k \in Int, n \in Int : /\ k = LeaseTime - Pinged - Lag
                                        /\ n = LeaseTime - Pinged' - Lag' /\ n <= k
        BY <1>0, <1>1, <3>1, <4>1
      <4> QED BY <1>0, <4>2, <4>3, HeldLess
    <3> QED BY <2>1, <2>2, <3>2, <3>3 DEF HeldInv
  <2> QED BY <2>3, <2>4
<1>3. CASE ClientReads
  <2>1. PICK x \in inbox : x.pkt \in ClientMsg /\ C!catchReply(x.pkt)
    BY <1>3 DEF ClientReads, NetInv
  <2>2. UNCHANGED <<m, now, cut, smooth, cIface>> /\ Lag' = Lag
    BY <1>0, <1>3, <2>1, ReadEffects DEF ClientReads, serverVars, ipdbVars, Lag
  <2>3. \A y \in inbox' : y.pkt.xid = "old"
    BY <1>0, <1>1, <2>1, ReadEffects DEF NetInv
  <2>4. ASSUME cState' \in {"ArpCheck", "Ifconfig"}, cLast'.ip \notin cut
        PROVE  HeldFor(m, now, cLast'.ip, LeaseTime - Pinged' - Lag')
    <3>1. /\ cLast' = x.pkt /\ x.pkt.type = "ack" /\ x.pkt.xid = "cur"
          /\ cLast # nil /\ x.pkt.ip = cLast.ip
      BY <1>0, <2>1, <2>4, ReadEffects
    <3>2. HeldFor(m, now, cLast.ip, LeaseTime - (IF smooth THEN 0 ELSE Transit - x.ttl))
      BY <2>4, <3>1 DEF HeldInv
    <3>3. x.ttl \in 0 .. Transit
      BY DEF NetInv
    <3>4. PICK k \in Int, n \in Int : /\ k = LeaseTime - (IF smooth THEN 0 ELSE Transit - x.ttl)
                                      /\ n = LeaseTime - Pinged' - Lag' /\ n <= k
      <4>1. (IF smooth THEN 0 ELSE Transit - x.ttl) \in Nat
        BY <1>0, <3>3
      <4>2. (IF smooth THEN 0 ELSE Transit - x.ttl) <= Lag'
        BY <1>0, <2>2, <3>3 DEF Lag
      <4>3. LeaseTime \in Nat /\ Pinged' \in Nat /\ Lag' \in Nat
        BY <1>0, <1>1
      <4>4. PICK a \in Nat : a = (IF smooth THEN 0 ELSE Transit - x.ttl) /\ a <= Lag'
        BY <4>1, <4>2
      <4>5. LeaseTime - a \in Int /\ LeaseTime - Pinged' - Lag' \in Int
        BY <4>3, <4>4
      <4>6. LeaseTime - Pinged' - Lag' <= LeaseTime - a
        BY <4>3, <4>4
      <4> QED BY <4>4, <4>5, <4>6
    <3> QED BY <1>0, <3>1, <3>2, <3>4, HeldLess
  <2> QED BY <2>2, <2>3, <2>4 DEF HeldInv
\* What the server holds after a step that takes so much time it holds now.
<1>4. ASSUME smooth' => smooth, NEW t \in {0, 1}, UNCHANGED <<cState, cPc, cLast>>,
             \A ip \in Uip : cIface'.addrs[ip] > 0 => cIface'.addrs[ip] = cIface.addrs[ip] - t,
             cState \in {"ArpCheck", "Ifconfig"} /\ cPc # "reset" => Pinged' = Pinged + t,
             \A ip : \A n \in Int :
                /\ ip \notin cut' /\ n <= LeaseTime
                /\ ip \notin cut => HeldFor(m, now, ip, n)
                => HeldFor(m', now', ip, n - t),
             \A x \in inbox' :
                /\ x.pkt.type = "ack" /\ x.pkt.xid = "cur"
                /\ cLast # nil /\ x.pkt.ip = cLast.ip /\ cLast.ip \notin cut'
                => \/ HeldFor(m', now', cLast.ip, LeaseTime)
                   \/ /\ ~smooth' \/ t = 0
                      /\ \E y \in inbox : y.pkt = x.pkt /\ x.ttl = y.ttl - t
      PROVE  HeldInv'
  <2>1. (smooth' => smooth) /\ Lag <= Lag'
    <3>1. smooth' => smooth
      BY <1>4
    <3>2. CASE smooth
      <4>1. Lag = 0 /\ Lag' \in Nat
        BY <1>1, <3>2 DEF Lag
      <4> QED BY <3>1, <4>1
    <3>3. CASE ~smooth
      <4>1. Lag = Transit /\ Lag' = Transit /\ Transit \in Nat
        BY <1>0, <3>1, <3>3 DEF Lag
      <4> QED BY <3>1, <4>1
    <3> QED BY <3>2, <3>3
  <2>2. ASSUME NEW ip \in Uip \ cut', cIface'.addrs[ip] > 0
        PROVE  HeldFor(m', now', ip, cIface'.addrs[ip] - PingTime - Lag')
    <3>1. cIface'.addrs[ip] = cIface.addrs[ip] - t
      BY <1>4, <2>2
    <3>2. PICK k \in Int, n \in Int : /\ k = cIface.addrs[ip] - PingTime - Lag
                                      /\ n = cIface'.addrs[ip] - PingTime - Lag'
                                      /\ n <= k - t /\ k <= LeaseTime
      BY <1>0, <1>1, <2>1, <3>1
    <3>3. ip \notin cut => HeldFor(m, now, ip, k)
      BY <1>0, <1>4, <2>2, <3>1, <3>2 DEF HeldInv
    <3>4. HeldFor(m', now', ip, k - t)
      BY <1>4, <2>2, <3>2, <3>3
    <3>5. k - t \in Int
      BY <1>4, <3>2
    <3> QED BY <1>1, <3>2, <3>4, <3>5, HeldLess
  <2>3. ASSUME cState \in {"ArpCheck", "Ifconfig"}, cPc # "reset", cLast.ip \notin cut'
        PROVE  HeldFor(m', now', cLast.ip, LeaseTime - Pinged' - Lag')
    <3>1. PICK k \in Int, n \in Int : /\ k = LeaseTime - Pinged - Lag
                                      /\ n = LeaseTime - Pinged' - Lag'
                                      /\ n <= k - t /\ k <= LeaseTime
      <4>1. /\ t \in Nat /\ LeaseTime \in Int /\ Pinged \in Nat /\ Pinged' \in Nat
            /\ Lag \in Nat /\ Lag' \in Nat
        BY <1>0, <1>1, <1>4
      <4>2. Pinged' = Pinged + t /\ Lag <= Lag'
        BY <1>4, <2>1, <2>3
      <4>3. /\ LeaseTime - Pinged - Lag \in Int /\ LeaseTime - Pinged' - Lag' \in Int
            /\ LeaseTime - Pinged' - Lag' <= LeaseTime - Pinged - Lag - t
            /\ LeaseTime - Pinged - Lag <= LeaseTime
        BY <4>1, <4>2, LessLeft
      <4> QED BY <4>3
    <3>2. cLast.ip \notin cut => HeldFor(m, now, cLast.ip, k)
      BY <2>3, <3>1 DEF HeldInv
    <3>3. HeldFor(m', now', cLast.ip, k - t)
      BY <1>4, <2>3, <3>1, <3>2
    <3>4. k - t \in Int
      BY <1>4, <3>1
    <3> QED BY <1>1, <3>1, <3>3, <3>4, HeldLess
  <2>4. ASSUME NEW x \in inbox', x.pkt.type = "ack", x.pkt.xid = "cur", cLast # nil,
               x.pkt.ip = cLast.ip, cLast.ip \notin cut'
        PROVE  HeldFor(m', now', cLast.ip, LeaseTime - (IF smooth' THEN 0 ELSE Transit - x.ttl))
    <3>1. x.ttl \in 0 .. Transit
      BY <1>1 DEF NetInv
    <3>2. PICK n \in Int : n = LeaseTime - (IF smooth' THEN 0 ELSE Transit - x.ttl) /\ n <= LeaseTime
      BY <1>0, <3>1
    <3>3. CASE HeldFor(m', now', cLast.ip, LeaseTime)
      <4>1. LeaseTime \in Int
        BY <1>0
      <4> QED BY <1>1, <3>2, <3>3, <4>1, HeldLess
    <3>4. ASSUME ~smooth' \/ t = 0, NEW y \in inbox, y.pkt = x.pkt, x.ttl = y.ttl - t
          PROVE  HeldFor(m', now', cLast.ip, n)
      <4>1. y.ttl \in 0 .. Transit
        BY DEF NetInv
      <4>2. PICK k \in Int : /\ k = LeaseTime - (IF smooth THEN 0 ELSE Transit - y.ttl)
                             /\ k <= LeaseTime /\ n <= k - t
        BY <1>0, <1>4, <3>1, <3>2, <3>4, <4>1
      <4>3. cLast.ip \notin cut => HeldFor(m, now, cLast.ip, k)
        BY <2>4, <3>4, <4>2 DEF HeldInv
      <4>4. HeldFor(m', now', cLast.ip, k - t)
        BY <1>4, <2>4, <4>2, <4>3
      <4>5. k - t \in Int
        BY <1>4, <4>2
      <4> QED BY <1>1, <4>2, <4>4, <4>5, HeldLess
    <3> QED BY <1>4, <2>4, <3>2, <3>3, <3>4
  <2> QED BY <1>4, <2>2, <2>3, <2>4 DEF HeldInv
<1>5. CASE ClientCancelled \/ (\E h \in Handler : ServerReads(h)) \/ UNCHANGED systemVars
  <2>1. /\ UNCHANGED <<m, now, cState, cPc, cWait, cLast, cIface, inbox, cut>>
        /\ smooth' => smooth
    <3>1. \A h \in Handler : \A p : Receive(h, p) => UNCHANGED m
      BY DEF Receive, poolVars
    <3>2. (\E h \in Handler : ServerReads(h)) => UNCHANGED m
      BY <3>1 DEF ServerReads
    <3> QED
      BY <1>5, <3>2 DEF ClientCancelled, ServerReads, systemVars, serverVars, ipdbVars, netVars,
                        clientVars, C!Cancel, C!machine, C!sys
  <2>2. Pinged' = Pinged /\ \A n \in Int : n - 0 = n
    BY <2>1 DEF Pinged
  <2>3. /\ \A ip \in Uip : cIface'.addrs[ip] = cIface.addrs[ip] - 0
        /\ Pinged' = Pinged + 0
        /\ \A x \in inbox : x.ttl = x.ttl - 0
    BY <1>0, <2>1, <2>2 DEF NetInv
  <2> QED BY <1>4, <2>1, <2>2, <2>3
<1>6. CASE ClientResumes
  <2>1. /\ UNCHANGED <<m, now, cLast, cIface, inbox, cut, smooth>>
        /\ cState' \in {"Rebinding", "PurgeInterface"}
    BY <1>6 DEF ClientResumes, serverVars, ipdbVars, netVars, C!ResumeClient, C!sys
  <2> QED BY <2>1 DEF HeldInv, Lag
<1>7. ASSUME NEW h \in Handler, ServerRuns(h)
      PROVE  HeldInv'
  <2>1. /\ Goroutine(h) /\ UNCHANGED <<now, cancelled, cState, cPc, cWait, cLast, cIface>>
        /\ smooth' => smooth
        /\ cut' = CASE Replies("offer") -> cut \cup {reply'.ip}
                    [] Replies("ack") -> cut \ {reply'.ip}
                    [] OTHER -> cut
    BY <1>7 DEF ServerRuns, clientVars
  <2>2. Replies("ack") => HeldFor(m', now', reply'.ip, LeaseTime)
    BY <1>0, <2>1, AckHeld DEF HeldFor
  <2>3. ASSUME NEW ip, NEW n \in Int, ip \notin cut', n <= LeaseTime,
               ip \notin cut => HeldFor(m, now, ip, n)
        PROVE  HeldFor(m', now', ip, n)
    <3>1. CASE Replies("ack") /\ reply'.ip = ip
      <4>1. LeaseTime \in Int
        BY <1>0
      <4> QED BY <1>1, <2>2, <2>3, <3>1, <4>1, HeldLess
    <3>2. CASE ~(Replies("ack") /\ reply'.ip = ip)
      <4>1. ip \notin cut /\ ~(Replies("offer") /\ reply'.ip = ip)
        BY <2>1, <2>3, <3>2
      <4> SUFFICES ASSUME n >= 0 PROVE HeldIn(m', now', ip, now' + n)
        BY DEF HeldFor
      <4>2. PICK until \in Nat : until = now + n /\ now <= until /\ until <= now + LeaseTime
        BY <1>0, <2>3
      <4>3. HeldIn(m, now, ip, until)
        BY <2>3, <4>1, <4>2 DEF HeldFor
      <4>4. HeldIn(m', now', ip, until)
        BY <1>0, <2>1, <4>1, <4>2, <4>3, HeldKept
      <4> QED BY <2>1, <4>2, <4>4
    <3> QED BY <3>1, <3>2
  <2>4. ASSUME NEW x \in inbox', x.pkt.type = "ack", x.pkt.ip = cLast.ip
        PROVE  HeldFor(m', now', cLast.ip, LeaseTime) \/ x \in inbox
    <3>1. CASE x \notin inbox
      <4>1. \E xid : reply' # nil /\ reply'.hw = Me /\ x = Sent(ReplyMsg(reply'.kind, reply'.ip, xid))
        BY <1>7, <3>1 DEF ServerRuns
      <4>2. Replies("ack") /\ reply'.ip = cLast.ip
        BY <2>4, <4>1 DEF Sent, ReplyMsg, Replies
      <4> QED BY <2>2, <4>2
    <3> QED BY <3>1
  <2>5. /\ \A ip \in Uip : cIface'.addrs[ip] = cIface.addrs[ip] - 0
        /\ Pinged' = Pinged + 0
        /\ \A n \in Int : n - 0 = n
        /\ \A x \in inbox : x.ttl = x.ttl - 0
    BY <1>0, <2>1 DEF NetInv, Pinged
  <2> QED BY <1>4, <2>1, <2>3, <2>4, <2>5
<1>8. CASE Time
  <2>1. /\ now' = now + 1 /\ m' = m /\ C!Tick /\ inbox' \in {{}, Aged(inbox)} /\ cut' = cut
        /\ UNCHANGED <<cState, cPc, cLast>>
        /\ smooth' => smooth /\ inbox' = {}
    BY <1>8 DEF Time, Tick, C!Tick, poolVars
  <2>2. ASSUME NEW ip \in Uip, cIface'.addrs[ip] > 0
        PROVE  cIface'.addrs[ip] = cIface.addrs[ip] - 1
    <3>1. cIface'.addrs = [x \in Uip |-> C!Down(cIface.addrs[x])]
      BY <2>1 DEF C!Tick, C!Iface
    <3> QED BY <1>0, <2>2, <3>1 DEF C!Down
  <2>3. cState \in {"ArpCheck", "Ifconfig"} /\ cPc # "reset" => Pinged' = Pinged + 1
    <3> SUFFICES ASSUME cState \in {"ArpCheck", "Ifconfig"}, cPc # "reset"
                 PROVE  Pinged' = Pinged + 1
      OBVIOUS
    <3>1. cPc = "ping" /\ cWait' = cWait - 1 /\ cWait \in Nat
      BY <1>0, <2>1 DEF C!Tick, C!Waiting, P!Typed, P!WaitsWhere, P!DClientTypeOK
    <3> QED BY <1>0, <2>1, <3>1 DEF Pinged
  <2>4. ASSUME NEW ip, NEW n \in Int, HeldFor(m, now, ip, n)
        PROVE  HeldFor(m', now', ip, n - 1)
    <3> SUFFICES ASSUME n - 1 >= 0 PROVE HeldIn(m', now', ip, now' + (n - 1))
      BY DEF HeldFor
    <3>1. PICK until \in Nat : until = now + n /\ until = now' + (n - 1) /\ now' <= until
      BY <1>0, <2>1
    <3>2. HeldIn(m, now, ip, until)
      BY <2>4, <3>1 DEF HeldFor
    <3>3. HeldIn(m', now', ip, until)
      BY <1>0, <2>1, <3>1, <3>2, HeldOn
    <3> QED BY <3>1, <3>3
  <2>5. ASSUME NEW x \in inbox'
        PROVE  ~smooth' /\ \E y \in inbox : y.pkt = x.pkt /\ x.ttl = y.ttl - 1
    BY <2>1, <2>5 DEF Aged
  <2> QED BY <1>4, <2>1, <2>2, <2>3, <2>4, <2>5
<1>9. CASE ServerStarts
  <2>1. /\ UNCHANGED <<now, cancelled, cState, cPc, cWait, cLast, cIface, inbox, cut, smooth>>
        /\ ConfigStep
    BY <1>9 DEF ServerStarts, clientVars, netVars
  <2>2. \A x \in DuidsOf(Me) : Live(m, now, x) => m'[x] = m[x]
    BY <1>0, <2>1, ConfigKeeps, DuidsTyped, MeAssumption
  <2>3. ASSUME NEW ip, NEW n \in Int, HeldFor(m, now, ip, n)
        PROVE  HeldFor(m', now', ip, n)
    <3> SUFFICES ASSUME n >= 0 PROVE HeldIn(m', now', ip, now' + n)
      BY DEF HeldFor
    <3>1. PICK until \in Nat : until = now + n /\ now <= until
      BY <1>0
    <3>2. HeldIn(m, now, ip, until)
      BY <2>3, <3>1 DEF HeldFor
    <3>3. HeldIn(m', now', ip, until)
      BY <1>0, <2>1, <2>2, <3>1, <3>2, HeldOn
    <3> QED BY <2>1, <3>1, <3>3
  <2>4. /\ \A ip \in Uip : cIface'.addrs[ip] = cIface.addrs[ip] - 0
        /\ Pinged' = Pinged + 0
        /\ \A n \in Int : n - 0 = n
        /\ \A x \in inbox : x.ttl = x.ttl - 0
    BY <1>0, <2>1 DEF NetInv, Pinged
  <2> QED BY <1>4, <2>1, <2>3, <2>4
<1> QED
  BY <1>2, <1>3, <1>5, <1>6, <1>7, <1>8, <1>9 DEF SystemNext

LEMMA HeldExcludes ==
    ASSUME DistinctIds, SidesInv, PromiseInv, HeldInv
    PROVE  NoConflict
<1> SUFFICES ASSUME NEW ip \in Uip \ cut, NEW hw \in Hw \ {Me}, cIface.addrs[ip] > 0,
                    cIface.addrs[ip] >= Delay, Relies(promise, hw), promise[hw].ip = ip
             PROVE  FALSE
  BY DEF NoConflict
<1>1. Recorded(hw, promise[hw])
  BY DEF PromiseInv, PromiseKept
<1>2. PICK n \in Int : n = cIface.addrs[ip] - PingTime - Lag /\ n >= 0
  BY AddrsTyped, ClientAssumption DEF SidesInv, Delay, Lag
<1> DEFINE lease == [ip |-> ip, until |-> now + n]
<1>3. Recorded(Me, lease) /\ lease.ip = ip
  BY <1>2 DEF HeldInv, HeldFor, HeldIn, Recorded
<1> HIDE DEF lease
<1> QED BY <1>1, <1>3, RecordedApart, MeAssumption DEF SidesInv

LEMMA SystemInvInit == SystemInit => SidesInv /\ NetInv /\ PromiseInv /\ ShortInv /\ HeldInv
BY SidesInvInit, NetInvInit, PromiseInvInit, ShortInvInit, HeldInvInit DEF SystemInit

\* While no identifier is overwritten in the receive buffer, no other host is
\* offered or acknowledged an address the client has configured for longer than
\* the reply that granted it may have been under way and its ping took: for
\* whatever times of server and client, however many clients and goroutines,
\* whatever the network loses, delays and repeats, whichever calls of the client
\* fail and whenever it is cancelled, unless the server offered the address to the
\* client again after its acknowledgement (netio.go:48-139, libif.go:125).
THEOREM AddressesApart ==
    ASSUME DistinctIds
    PROVE  SystemSafety /\ [][BufferKept]_serverVars => []NoConflict
<1>1. ASSUME SidesInv, NetInv, PromiseInv, ShortInv, HeldInv,
             [SystemNext]_systemVars, [BufferKept]_serverVars
      PROVE  (SidesInv /\ NetInv /\ PromiseInv /\ ShortInv /\ HeldInv)'
  <2>1. PromiseInv'
    BY <1>1, SystemSteps, PromiseInvKeeps DEF SidesInv
  <2> QED
    BY <1>1, <2>1, SidesInvKeeps, NetInvKeeps, ShortInvKeeps, HeldInvKeeps
<1> QED
  BY <1>1, SystemInvInit, HeldExcludes, PTL DEF SystemSafety

\* That is so without further conditions if no client sends an identifier, or
\* requests are handled one at a time.
THEOREM SystemExclusive ==
    ASSUME DistinctIds, BufferSafe
    PROVE  SystemSafety => []NoConflict
<1>1. ServerSafety => [][BufferKept]_serverVars
  BY ServerInvInit, ServerInvKeeps, NoCidInit, BufferSafeKeeps, PTL DEF ServerSafety
<1> QED
  BY <1>1, SystemHasServer, AddressesApart, PTL
-----------------------------------------------------------------------------
(***************************************************************************)
-----------------------------------------------------------------------------
(***************************************************************************)
(* Answers, of a server that has one request at a time.                    *)
(***************************************************************************)
\* An address the server may have given to the client.
Assignable(ip) == InManagedRange(ip) /\ ip # SelfIP

\* What the client was offered or holds is one of those.
AssignedInv ==
    /\ \A x \in inbox : x.pkt.type # "nack" => Assignable(x.pkt.ip)
    /\ cLast # nil => Assignable(cLast.ip)

LEMMA LastTaken ==
    ASSUME P!Typed, NEW msg \in ClientMsg, C!catchReply(msg)
    PROVE  cLast' = cLast \/ (cLast' = msg /\ msg.type # "nack")
<1>1. cState \in {"Discovering", "Selecting", "Renewing", "Rebinding"}
  BY DEF P!Typed, P!WaitsWhere, C!catchReply
<1> QED
  BY <1>1 DEF C!catchReply, C!verify, C!VerifyOffer, C!verifyGenAck

LEMMA AssignedInvInit == SystemInit => AssignedInv
BY DEF SystemInit, C!DClientInit, AssignedInv

\* The end of an exchange changes no address of a reply.
LEMMA ExchangeAssigned ==
    ASSUME P!Typed, NetInv, AssignedInv, Exchange
    PROVE  \A x \in inbox' : x.pkt.type # "nack" => Assignable(x.pkt.ip)
BY ExchangeKeeps DEF AssignedInv

\* An address that is offered or acknowledged was recorded.
LEMMA ReplyAssigned ==
    ASSUME ServerInv, ReplyAllowed', NEW h \in Handler, Goroutine(h), UNCHANGED <<now, cancelled>>,
           reply' # nil, reply'.kind # "nack"
    PROVE  Assignable(reply'.ip)
<1>1. proc[h].pc \in {"offer", "ack"}
  BY NoReplyFrom
<1>2. PICK ttl \in {OfferTime, LeaseTime}, kind \in {"offer", "ack"} :
         UpdateAndSend(h, kind, ttl)
  BY <1>1, RepliesFrom DEF sendOffer, sendAck
<1>3. /\ UpdateTable(m, now, proc[h].ip, duid(h), ttl).ok
      /\ reply'.ip = proc[h].ip /\ proc[h].ip \in Uip
  BY <1>1, <1>2 DEF UpdateAndSend, Drop, sendMsg, ServerInv, ProcOK
<1>4. InManagedRange(proc[h].ip)
  BY <1>3 DEF UpdateTable
<1>5. reply'.ip # nil
  BY <1>3, AddressAssumption
<1> QED BY <1>3, <1>4, <1>5 DEF ReplyAllowed, Assignable

LEMMA AssignedInvKeeps ==
    ASSUME SidesInv, NetInv, AllowedInv', AssignedInv, [SystemNext]_systemVars
    PROVE  AssignedInv'
<1> USE DEF SidesInv
<1>1. CASE ClientRuns
  <2>1. ClientStep /\ Exchange /\ NetInv
    BY <1>1, RunsStep DEF ClientRuns
  <2>2. UNCHANGED cLast
    BY <2>1, StepEffects
  <2> QED BY <2>1, <2>2, ExchangeAssigned DEF AssignedInv, Assignable
<1>2. CASE ClientReads
  <2>1. PICK x \in inbox : x.pkt \in ClientMsg /\ C!catchReply(x.pkt) /\ Exchange
    BY <1>2 DEF ClientReads, NetInv
  <2>2. cLast' = cLast \/ (cLast' = x.pkt /\ x.pkt.type # "nack")
    BY <2>1, LastTaken
  <2> QED BY <2>1, <2>2, ExchangeAssigned DEF AssignedInv, Assignable
<1>3. ASSUME NEW h \in Handler, ServerRuns(h) PROVE AssignedInv'
  <2>1. Goroutine(h) /\ UNCHANGED <<now, cancelled, cLast>> /\ ReplyAllowed'
    BY <1>3 DEF ServerRuns, clientVars, AllowedInv
  <2>2. reply' # nil /\ reply'.kind # "nack" => Assignable(reply'.ip)
    BY <2>1, ReplyAssigned
  <2>3. \A x \in inbox' : x.pkt.type # "nack" => Assignable(x.pkt.ip)
    BY <1>3, <2>2 DEF ServerRuns, ReplyMsg, Sent, AssignedInv
  <2> QED BY <2>1, <2>3 DEF AssignedInv, Assignable
<1>4. CASE Time
  <2>1. inbox' \in {{}, Aged(inbox)} /\ cLast' = cLast
    BY <1>4 DEF Time, C!Tick
  <2>2. \A x \in inbox' : \E y \in inbox : x.pkt = y.pkt
    BY <2>1 DEF Aged
  <2> QED BY <2>1, <2>2 DEF AssignedInv, Assignable
<1>5. CASE UNCHANGED <<inbox, cLast>>
  BY <1>5 DEF AssignedInv, Assignable
<1>6. ClientCancelled \/ ClientResumes => UNCHANGED <<inbox, cLast>>
  BY DEF ClientCancelled, ClientResumes, netVars, C!Cancel, C!machine, C!ResumeClient
<1> QED
  BY <1>1, <1>2, <1>3, <1>4, <1>5, <1>6
  DEF SystemNext, ServerReads, ServerStarts, systemVars, clientVars, netVars

\* Where a goroutine may be with the client's request.
Stages == IF cState = "Discovering" THEN {"start", "discover", "search", "offer"}
          ELSE {"start", "request", "arp", "ack"}

\* A goroutine that works on the current request has that request, and the lease
\* it has looked up can still be renewed or taken up again.
AnswerInv ==
    /\ answers \subseteq Handler
    /\ \A h \in answers :
          proc[h].pc # "idle" =>
              /\ proc[h].pkt = Sending
              /\ proc[h].pc \in Stages
              /\ proc[h].pc \in {"arp", "ack"} =>
                    InManagedRange(proc[h].ip) /\ Agree(m, now, proc[h].ip, duid(h))

OneAtATime == \A g, h \in Handler : g = h

LEMMA AnswerInvInit == SystemInit => AnswerInv
BY DEF SystemInit, AnswerInv

\* A lease that was looked up.
LEMMA LookupAgrees ==
    ASSUME IPDBInv, NEW d \in Duid, NEW ip \in Uip, LookupClientByDuid(d),
           Entry(m, now, d) # nil, Entry(m, now, d).ip = ip, UNCHANGED now
    PROVE  Agree(m', now', ip, d)
<1>1. TableOK(m, now) /\ now \in Nat /\ 0 \in Uip
  BY ModAssumption DEF IPDBInv, IPDBTypeOK, ClientsTypeOK, Uip
<1>2. Live(m, now, d) /\ Entry(m, now, d) = m[d]
  BY EntryLive
<1>3. Live(m, now, ip) /\ m[ip] = m[d]
  BY <1>1, <1>2, KeyFacts
<1>4. Agree(m, now, ip, d)
  BY <1>1, <1>2, <1>3, AgreeCases
<1> QED
  BY <1>1, <1>4, LookupKeeps DEF LookupClientByDuid

\* The requests of the client, as handleMsg and handleRequest read them.
LEMMA SendingFields ==
    ASSUME P!Typed, cPc = "reply"
    PROVE  /\ Sending.hw = Me
           /\ Sending.type = IF cState = "Discovering" THEN "discover" ELSE "request"
           /\ cState # "Discovering" =>
                 /\ cLast # nil /\ cLast.ip \in Uip
                 /\ Sending.reqIP \in {cLast.ip, nil}
                 /\ DesiredIP(Sending) = cLast.ip
<1>1. cState \in {"Discovering", "Selecting", "Renewing", "Rebinding"}
  BY DEF P!Typed, P!WaitsWhere
<1>2. cState # "Discovering" => cLast \in ClientMsg /\ cLast.ip \in Uip
  BY <1>1 DEF P!Typed, P!LastVerified
<1>3. cState # "Discovering" => cLast.sid = "self" /\ cLast # nil /\ cLast.ip # nil
  BY <1>2, MsgFields, ReplyAssumption, AddressAssumption
<1>4. CASE cState = "Discovering"
  BY <1>4 DEF Sending, Discover, request
<1>5. CASE cState = "Selecting"
  BY <1>2, <1>3, <1>5 DEF Sending, RequestSelecting, request, DesiredIP
<1>6. CASE cState = "Renewing"
  BY <1>2, <1>3, <1>6 DEF Sending, RequestRenewing, request, DesiredIP
<1>7. CASE cState = "Rebinding"
  BY <1>2, <1>3, <1>7 DEF Sending, RequestRebinding, request, DesiredIP
<1> QED BY <1>1, <1>4, <1>5, <1>6, <1>7

\* What a goroutine does with the client's request.
LEMMA AnswerGoesOn ==
    ASSUME SidesInv, NetInv, AnswerInv, NEW h \in Handler, h \in answers, Goroutine(h),
           UNCHANGED <<now, cancelled, cState>>, proc[h].pc # "idle", proc'[h].pc # "idle"
    PROVE  /\ proc'[h].pkt = Sending
           /\ proc'[h].pc \in Stages'
           /\ proc'[h].pc \in {"arp", "ack"} =>
                 InManagedRange(proc'[h].ip) /\ Agree(m', now', proc'[h].ip, duid(h)')
<1>0. /\ ServerInv /\ IPDBInv /\ P!Typed /\ cPc = "reply" /\ proc \in [Handler -> ProcType]
      /\ proc[h].pkt = Sending /\ proc[h].pc \in Stages
  BY DEF SidesInv, ServerInv, NetInv, AnswerInv
<1>1. /\ proc'[h].pkt = proc[h].pkt /\ proc'[h].cid = proc[h].cid
      /\ proc[h].pc # "start" => proc'[h].byCid = proc[h].byCid
  BY <1>0, GoroutineCid
<1>2. proc[h].pc # "start" => duid(h)' = duid(h)
  BY <1>1 DEF duid
<1>3. ASSUME NEW pc, NEW ip, Goto(h, pc, ip)
      PROVE  proc'[h].pc = pc /\ proc'[h].ip = ip
  BY <1>0, <1>3 DEF Goto, ProcType
<1>4. ASSUME proc' = [proc EXCEPT ![h] = Idle] PROVE FALSE
  BY <1>0, <1>4, IdleOK
<1>5. CASE handleMsg(h)
  <2>1. proc'[h].pc = Sending.type
    BY <1>0, <1>5, IdleOK DEF handleMsg, ProcType
  <2>2. Sending.type = IF cState = "Discovering" THEN "discover" ELSE "request"
    BY <1>0, SendingFields
  <2> QED BY <1>0, <1>1, <2>1, <2>2 DEF Stages
<1>6. ASSUME AfterFindIP(h), proc[h].pc \in {"discover", "search"}
      PROVE  proc'[h].pc \in {"search", "offer"} /\ cState = "Discovering"
  <2>1. search'.phase \in {"idle", "searching"} /\ found'.ok \in BOOLEAN
    BY <1>0, GoroutinePool DEF IPDBInv, IPDBTypeOK
  <2>2. Goto(h, "search", nil) \/ Goto(h, "offer", found'.ip)
    BY <1>4, <1>6, <2>1 DEF AfterFindIP, Drop
  <2> QED BY <1>0, <1>3, <1>6, <2>2 DEF Stages
<1>7. CASE handleDiscover(h) \/ searchIP(h)
  BY <1>0, <1>1, <1>4, <1>6, <1>7 DEF handleDiscover, searchIP, Drop, Stages
<1>8. CASE handleRequest(h)
  <2> DEFINE ip == DesiredIP(proc[h].pkt)
  <2>1. /\ proc[h].pc = "request" /\ InManagedRange(ip) /\ LookupClientByDuid(duid(h))
        /\ Entry(m, now, duid(h)) # nil /\ Entry(m, now, duid(h)).ip = ip
        /\ Goto(h, "arp", ip)
    BY <1>4, <1>8 DEF handleRequest, Drop, sendNACK
  <2>2. duid(h) \in Duid
    BY <1>0, DuidOK DEF ServerInv
  <2>3. Agree(m', now', ip, duid(h))
    BY <1>0, <2>1, <2>2, LookupAgrees, ManagedUip
  <2>4. proc'[h].pc = "arp" /\ proc'[h].ip = ip
    BY <1>3, <2>1
  <2>5. duid(h)' = duid(h)
    BY <1>2, <2>1
  <2> QED BY <1>0, <1>1, <2>1, <2>3, <2>4, <2>5 DEF Stages
<1>9. CASE \E free \in BOOLEAN : arpVerify(h, free)
  <2>1. proc[h].pc = "arp" /\ Goto(h, "ack", proc[h].ip) /\ m' = m
    BY <1>4, <1>9 DEF arpVerify, sendNACK, poolVars
  <2>2. proc'[h].pc = "ack" /\ proc'[h].ip = proc[h].ip
    BY <1>3, <2>1
  <2>3. duid(h)' = duid(h)
    BY <1>2, <2>1
  <2>4. InManagedRange(proc[h].ip) /\ Agree(m, now, proc[h].ip, duid(h))
    BY <2>1 DEF AnswerInv
  <2> QED BY <1>0, <1>1, <2>1, <2>2, <2>3, <2>4 DEF Stages
<1>10. CASE sendOffer(h) \/ sendAck(h)
  BY <1>4, <1>10 DEF sendOffer, sendAck, UpdateAndSend, sendMsg, Drop
<1> QED
  BY <1>5, <1>7, <1>8, <1>9, <1>10 DEF Goroutine

LEMMA AnswerInvKeeps ==
    ASSUME OneAtATime, SidesInv, NetInv, AnswerInv, [SystemNext]_systemVars
    PROVE  AnswerInv'
<1>0. /\ ServerInv /\ P!Typed /\ answers \subseteq Handler /\ now \in Nat
      /\ TableOK(m, now)
  BY DEF SidesInv, AnswerInv, ServerInv, IPDBInv, IPDBTypeOK, ClientsTypeOK
<1>1. CASE ClientRuns \/ ClientReads
  <2>1. cPc = "reply" => cPc' # "reply"
    <3>1. CASE ClientRuns
      BY <1>0, <3>1, RunsStep, StepEffects
    <3>2. CASE ClientReads
      <4>1. PICK x \in inbox : x.pkt \in ClientMsg /\ C!catchReply(x.pkt)
        BY <3>2 DEF ClientReads, NetInv
      <4> QED BY <1>0, <4>1, ReadEffects
    <3> QED BY <1>1, <3>1, <3>2
  <2>2. answers' = {}
    BY <1>1, <2>1 DEF ClientRuns, ClientReads, Exchange, NetInv, netVars
  <2> QED BY <2>2 DEF AnswerInv
<1>2. ASSUME NEW h \in Handler, ServerReads(h)
      PROVE  AnswerInv'
  <2>1. CASE cPc = "reply" /\ Receive(h, Sending)
    <3>1. proc'[h] = [Idle EXCEPT !.pc = "start", !.pkt = Sending, !.cid = Sending.cid]
      BY <2>1 DEF Receive
    <3>2. proc'[h].pkt = Sending /\ proc'[h].pc = "start"
      BY <3>1 DEF Idle
    <3>3. Sending' = Sending
      BY <1>2 DEF ServerReads, clientVars, Sending, RequestSelecting, RequestRenewing,
                  RequestRebinding, request, Discover
    <3>4. answers' \subseteq Handler
      BY <1>0, <1>2 DEF ServerReads
    <3> QED BY <3>2, <3>3, <3>4 DEF AnswerInv, Stages, OneAtATime
  <2>2. CASE answers' = answers \ {h}
    <3>1. answers' = {}
      BY <1>0, <2>2 DEF OneAtATime
    <3> QED BY <3>1 DEF AnswerInv
  <2> QED BY <1>2, <2>1, <2>2 DEF ServerReads
<1>3. ASSUME NEW h \in Handler, ServerRuns(h)
      PROVE  AnswerInv'
  <2>1. /\ Goroutine(h) /\ UNCHANGED <<now, cancelled, cState, answers>>
        /\ UNCHANGED <<cPc, cLast>>
    BY <1>3 DEF ServerRuns, clientVars
  <2>2. Sending' = Sending
    BY <2>1 DEF Sending, RequestSelecting, RequestRenewing, RequestRebinding, request, Discover
  <2>3. proc[h].pc # "idle"
    BY <1>0, <2>1, GoroutinePool
  <2>4. ASSUME h \in answers, proc'[h].pc # "idle"
        PROVE  /\ proc'[h].pkt = Sending /\ proc'[h].pc \in Stages'
               /\ proc'[h].pc \in {"arp", "ack"} =>
                     InManagedRange(proc'[h].ip) /\ Agree(m', now', proc'[h].ip, duid(h)')
    BY <2>1, <2>3, <2>4, AnswerGoesOn
  <2>5. \A g \in answers : g = h
    BY <1>0 DEF OneAtATime
  <2> QED BY <1>0, <2>1, <2>2, <2>4, <2>5 DEF AnswerInv
<1>4. CASE UNCHANGED <<proc, m, cState, cLast, answers>> /\ now' \in {now, now + 1}
  <2>1. Sending' = Sending
    BY <1>4 DEF Sending, RequestSelecting, RequestRenewing, RequestRebinding, request, Discover
  <2>2. \A h \in Handler : duid(h)' = duid(h)
    BY <1>4 DEF duid
  <2>3. \A k \in Key : Live(m', now', k) => Live(m, now, k) /\ m'[k] = m[k]
    BY <1>0, <1>4 DEF Live, Expired, TableOK, IsTable, Client
  <2>4. \A ip, d : Agree(m, now, ip, d) => Agree(m', now', ip, d)
    BY <2>3, FewerLive
  <2> QED BY <1>0, <1>4, <2>1, <2>2, <2>4 DEF AnswerInv, Stages
<1>5. CASE Time
  <2>1. UNCHANGED <<proc, m, cState, cLast, answers>> /\ now' = now + 1
    BY <1>5 DEF Time, Tick, C!Tick, poolVars, srvVars
  <2> QED BY <1>4, <2>1
<1>6. CASE ServerStarts
  <2>1. status \notin {"up", "down"} /\ UNCHANGED <<proc, answers>>
    BY <1>6 DEF ServerStarts, ConfigStep, ConfigRange, ConfigMode, ConfigClient, ConfigSelf, srvVars, netVars
  <2>2. \A h \in Handler : proc'[h].pc = "idle"
    BY <1>0, <2>1 DEF ServerInv
  <2> QED BY <1>0, <2>1, <2>2 DEF AnswerInv
<1>7. CASE ClientCancelled \/ UNCHANGED systemVars
  <2>1. UNCHANGED <<proc, m, now, cState, cLast, answers>>
    BY <1>7 DEF systemVars, serverVars, ipdbVars, srvVars, clientVars, netVars, ClientCancelled,
                C!Cancel, C!machine
  <2> QED BY <1>4, <2>1
<1>8. CASE ClientResumes
  <2>1. cPc = "returned" /\ answers' = answers
    BY <1>8 DEF ClientResumes, C!ResumeClient, netVars
  <2>2. answers' = {}
    BY <2>1 DEF NetInv
  <2> QED BY <2>2 DEF AnswerInv
<1> QED
  BY <1>1, <1>2, <1>3, <1>5, <1>6, <1>7, <1>8 DEF SystemNext

\* The last step of a goroutine that works on such a request sends a reply.
LEMMA AnswerEnds ==
    ASSUME SidesInv, NetInv, AssignedInv, AnswerInv, NEW h \in Handler, h \in answers,
           Goroutine(h), UNCHANGED <<now, cancelled>>, cState # "Discovering",
           proc[h].pc # "idle", proc'[h].pc = "idle"
    PROVE  reply' # nil /\ reply'.hw = Me
<1>0. /\ ServerInv /\ P!Typed /\ cPc = "reply" /\ proc \in [Handler -> ProcType]
      /\ proc[h].pkt = Sending /\ proc[h].pc \in {"start", "request", "arp", "ack"}
  BY DEF SidesInv, ServerInv, NetInv, AnswerInv, Stages
<1>1. /\ Sending.hw = Me /\ Sending.type = "request" /\ cLast.ip \in Uip /\ Assignable(cLast.ip)
      /\ Sending.reqIP \in {cLast.ip, nil} /\ DesiredIP(Sending) = cLast.ip
  BY <1>0, SendingFields DEF AssignedInv
<1>2. ASSUME NEW ip, NEW kind \in {"offer", "ack", "nack"}, ip \in Uip \cup {nil},
             reply' = [kind |-> kind, hw |-> Me, ip |-> ip]
      PROVE  reply' # nil /\ reply'.hw = Me
  BY <1>2, MeAssumption, ReplyAssumption
<1>3. ASSUME NEW pc, NEW ip, Goto(h, pc, ip)
      PROVE  proc'[h].pc = pc
  BY <1>0, <1>3 DEF Goto, ProcType
<1>4. CASE handleMsg(h)
  <2>1. Sending.hw # SelfHw /\ Sending.reqIP # SelfIP
    BY <1>1, MeAssumption, AddressAssumption, ConfigAssumption DEF Assignable
  <2>2. proc'[h].pc = "request"
    BY <1>0, <1>1, <1>4, <2>1 DEF handleMsg, ProcType
  <2> QED BY <2>2
<1>5. CASE handleRequest(h)
  <2>1. DesiredIP(proc[h].pkt) # nil /\ InManagedRange(DesiredIP(proc[h].pkt))
    BY <1>0, <1>1, AddressAssumption DEF Assignable
  <2>2. sendNACK(h)
    BY <1>3, <1>5, <2>1 DEF handleRequest
  <2> QED BY <1>0, <1>1, <1>2, <2>2 DEF sendNACK
<1>6. CASE \E free \in BOOLEAN : arpVerify(h, free)
  <2>1. sendNACK(h)
    BY <1>3, <1>6 DEF arpVerify
  <2> QED BY <1>0, <1>1, <1>2, <2>1 DEF sendNACK
<1>7. CASE sendAck(h)
  <2>1. /\ proc[h].pc = "ack" /\ InManagedRange(proc[h].ip)
        /\ Agree(m, now, proc[h].ip, duid(h)) /\ proc[h].ip \in Uip /\ duid(h) \in Duid
    BY <1>0, <1>7, DuidOK DEF sendAck, AnswerInv, ServerInv, ProcOK
  <2>2. TableOK(m, now) /\ ManagedTable(m) /\ now \in Nat
    BY <1>0 DEF ServerInv, IPDBInv, IPDBTypeOK, ClientsTypeOK
  <2>3. UpdateTable(m, now, proc[h].ip, duid(h), LeaseTime).ok
    BY <2>1, <2>2, UpdateEffect, TimeAssumption
  <2>4. sendMsg(h, "ack", now + LeaseTime)
    BY <1>7, <2>3 DEF sendAck, UpdateAndSend
  <2> QED BY <1>0, <1>1, <1>2, <2>1, <2>4 DEF sendMsg
<1> QED
  BY <1>0, <1>4, <1>5, <1>6, <1>7
  DEF Goroutine, handleDiscover, searchIP, sendOffer

Answered ==
    \A h \in Handler :
        /\ h \in answers /\ cState # "Discovering"
        /\ proc[h].pc # "idle" /\ proc'[h].pc = "idle"
        => reply' # nil /\ reply'.hw = Me

LEMMA AnswerStep ==
    ASSUME OneAtATime, SidesInv, NetInv, AssignedInv, AnswerInv, [SystemNext]_systemVars
    PROVE  [Answered]_systemVars
<1> SUFFICES ASSUME NEW h \in Handler, h \in answers, cState # "Discovering",
                    proc[h].pc # "idle", proc'[h].pc = "idle"
             PROVE  reply' # nil /\ reply'.hw = Me
  BY DEF Answered
<1>1. proc' # proc
  OBVIOUS
<1>2. ASSUME NEW g \in Handler, ServerReads(g) PROVE FALSE
  <2>1. \A p : Receive(g, p) => proc[g].pc = "idle"
    BY DEF Receive
  <2>2. g = h
    BY DEF OneAtATime
  <2> QED BY <1>2, <2>1, <2>2 DEF ServerReads
<1>3. ASSUME NEW g \in Handler, ServerRuns(g) PROVE reply' # nil /\ reply'.hw = Me
  <2>1. g = h
    BY DEF OneAtATime
  <2> QED BY <1>3, <2>1, AnswerEnds DEF ServerRuns
<1>4. ~(ClientRuns \/ ClientReads \/ ClientCancelled \/ ClientResumes \/ Time \/ ServerStarts
         \/ UNCHANGED systemVars)
  BY <1>1 DEF ClientRuns, ClientReads, ClientCancelled, ClientResumes, Time, ServerStarts,
              systemVars, serverVars, srvVars
<1> QED BY <1>2, <1>3, <1>4 DEF SystemNext

\* A server that handles one request at a time answers every request of the
\* client that it works on, for whatever times, addresses and configuration: an
\* address the client holds is one the server may give, so that none of the
\* early returns is taken, and a lease that expires during the ARP check is taken
\* up again (netio.go:16-45, 83-139).
THEOREM RequestsAnswered ==
    ASSUME OneAtATime, ForeignIds
    PROVE  SystemSafety => RequestAnswered
<1>1. SystemInit => AllowedInv
  BY AllowedInvInit DEF SystemInit
<1>2. ASSUME SidesInv, NetInv, AllowedInv, AssignedInv, AnswerInv, [SystemNext]_systemVars
      PROVE  (SidesInv /\ NetInv /\ AllowedInv /\ AssignedInv /\ AnswerInv)'
  <2>1. AllowedInv'
    BY <1>2, SystemSteps, AllowedInvKeeps DEF SidesInv
  <2> QED
    BY <1>2, <2>1, SidesInvKeeps, NetInvKeeps, AssignedInvKeeps, AnswerInvKeeps
<1>3. ASSUME [][Answered]_systemVars PROVE RequestAnswered
  BY <1>3 DEF RequestAnswered, Answered
<1> QED
  BY <1>1, <1>2, <1>3, SidesInvInit, NetInvInit, AssignedInvInit, AnswerInvInit, AnswerStep, PTL
  DEF SystemSafety
-----------------------------------------------------------------------------
(***************************************************************************)
(* A client that is not disturbed.                                         *)
(***************************************************************************)
\* An update changes the record of one DUID.
LEMMA UpdateOthers ==
    ASSUME NEW tbl, NEW t \in Nat, TableOK(tbl, t), ManagedTable(tbl),
           NEW ip \in Uip, NEW d \in Duid, NEW ttl \in Nat, NEW x \in Duid, x # d
    PROVE  UpdateTable(tbl, t, ip, d, ttl).tbl[x] = tbl[x]
<1> DEFINE ltime == t + ttl
           set   == SetLease(tbl, t, ip, d, ltime)
           inj   == Inject(set.tbl, t, ip, d, ltime)
           fin   == SetLease(inj.tbl, t, ip, d, ltime)
<1>1. ltime \in Nat /\ x # ip /\ x \in Key
  BY KeysDiffer
<1>2. ASSUME NEW s, TableOK(s, t)
      PROVE  SetLease(s, t, ip, d, ltime).tbl[x] = s[x]
  <2> DEFINE r == SetLease(s, t, ip, d, ltime)
  <2>1. CASE ~r.ok
    <3>1. r.tbl = Lookup(s, t, ip, d)
      BY <1>1, <1>2, <2>1, SetLeaseRecords
    <3> QED BY <1>1, <3>1 DEF Lookup
  <2>2. CASE r.ok
    <3>1. /\ Live(s, t, ip) /\ s[ip].duid = d
          /\ r.tbl[x] = IF s[x] = s[ip] THEN Renewed(s[x], ltime) ELSE s[x]
      BY <1>1, <1>2, <2>2, SetLeaseRecords
    <3>2. s[x] # nil => s[x] \in Client /\ x \in {s[x].ip, s[x].duid}
      BY <1>1, <1>2 DEF TableOK, IsTable, Keyed
    <3>3. s[x] # s[ip]
      BY <3>1, <3>2, KeysDiffer DEF Live, Client
    <3> QED BY <3>1, <3>3
  <2> QED BY <2>1, <2>2
<1>3. ASSUME NEW s
      PROVE  injectInternal(s, t, ip, d, ltime, FALSE).tbl[x] = s[x]
  BY <1>1 DEF injectInternal, Lookup
<1>4. set.tbl[x] = tbl[x]
  BY <1>2
<1>5. CASE ~InManagedRange(ip) \/ set.ok
  BY <1>4, <1>5 DEF UpdateTable
<1>6. CASE ~set.ok
  <2> DEFINE s == set.tbl
  <2>1. TableOK(s, t)
    BY <1>1, SetLeaseOK
  <2>2. inj = injectInternal(s, t, ip, d, ltime, FALSE)
    BY DEF Inject
  <2> HIDE DEF s, inj, fin
  <2>3. inj.tbl[x] = s[x] /\ TableOK(inj.tbl, t)
    BY <1>1, <1>3, <2>1, <2>2, InjectOK
  <2>4. fin.tbl[x] = inj.tbl[x]
    BY <1>2, <2>3 DEF fin
  <2> QED
    BY <1>4, <1>5, <2>3, <2>4 DEF UpdateTable, s, inj, fin
<1> QED BY <1>5, <1>6

\* The DUID under which the server keeps the lease of the client.
MyDuid == IF MyCid = nil \/ Live(m, now, hwDuid[Me]) THEN hwDuid[Me] ELSE MyCid

\* All goroutines know the client under that one and no other has a lease: with
\* a client identifier, its hardware address has one only as a static client.
OneDuid ==
    /\ \A d \in DuidsOf(Me) : Live(m, now, d) => d = MyDuid
    /\ MyCid # nil /\ Live(m, now, hwDuid[Me]) => m[hwDuid[Me]].permanent
    /\ status \notin {"up", "down"} => \A k \in Key : m[k] # nil => m[k].permanent
    /\ \A h \in Handler :
          proc[h].pc # "idle" /\ proc[h].pkt.hw = Me =>
              /\ proc[h].cid = MyCid
              /\ proc[h].pc # "start" => duid(h) = MyDuid

LEMMA OneDuidInit == SystemInit => OneDuid
<1> SUFFICES ASSUME SystemInit PROVE OneDuid
  OBVIOUS
<1>1. \A k \in Key : m[k] = nil
  BY DEF SystemInit, ServerInit, NewInit, New, NewClients
<1>2. \A h \in Handler : proc[h].pc = "idle"
  BY IdleOK DEF SystemInit, ServerInit
<1>3. \A d \in DuidsOf(Me) : d \in Key
  BY DuidsTyped, MeAssumption
<1> QED BY <1>1, <1>2, <1>3, HwAssumption, MeAssumption DEF OneDuid, Live

\* A client's own identifier is none that the server makes.
LEMMA MyIds ==
    ASSUME DistinctIds
    PROVE  /\ hwDuid[Me] \in DuidsOf(Me) /\ hwDuid[Me] \in Duid
           /\ MyCid # nil => MyCid \in DuidsOf(Me) /\ MyCid \in Duid
           /\ MyCid # hwDuid[Me]
           /\ \A d \in DuidsOf(Me), hw \in Hw : d # hwDuid[Me] => d # hwDuid[hw]
<1>1. Discover \in Packet /\ Discover.hw = Me /\ Discover.cid = MyCid
  BY MyRequestsAssumption DEF MyRequests, Discover, request
<1>2. hwDuid[Me] \in DuidsOf(Me) /\ (MyCid # nil => MyCid \in DuidsOf(Me))
  BY <1>1 DEF DuidsOf
<1>3. \A d \in DuidsOf(Me), hw \in Hw : d # hwDuid[Me] => d # hwDuid[hw]
  BY DEF DuidsOf, DistinctIds
<1>4. MyCid # hwDuid[Me]
  BY <1>1, MeAssumption DEF DistinctIds
<1> QED BY <1>2, <1>3, <1>4, DuidsTyped, MeAssumption

\* As long as no record of the client comes or goes, and time only ends ones
\* that are not permanent.
LEMMA OneDuidStays ==
    ASSUME DistinctIds, OneDuid, IsTable(m),
           \A d \in DuidsOf(Me) : Live(m', now', d) => Live(m, now, d) /\ m'[d].permanent = m[d].permanent,
           MyCid # nil /\ Live(m, now, hwDuid[Me]) => Live(m', now', hwDuid[Me])
    PROVE  /\ MyDuid' = MyDuid
           /\ \A d \in DuidsOf(Me) : Live(m', now', d) => d = MyDuid'
           /\ MyCid # nil /\ Live(m', now', hwDuid[Me]) => m'[hwDuid[Me]].permanent
<1>1. MyDuid' = MyDuid
  BY MyIds DEF MyDuid
<1> QED BY <1>1, MyIds DEF OneDuid

\* A goroutine's step changes no record of the client but that of its DUID, and
\* that one it does not remove.
LEMMA MyRecords ==
    ASSUME DistinctIds, SidesInv, CidRight, OneDuid, NEW h \in Handler, Goroutine(h),
           UNCHANGED <<now, cancelled>>
    PROVE  /\ \A d \in DuidsOf(Me) : Live(m', now', d) /\ d # MyDuid =>
                 Live(m, now, d) /\ m'[d] = m[d]
           /\ Live(m, now, hwDuid[Me]) /\ MyCid # nil => Live(m', now', hwDuid[Me])
           /\ ~Live(m, now, hwDuid[Me]) /\ MyCid # nil => ~Live(m', now', hwDuid[Me])
           /\ KeepsPermanent(m, m')
<1>0. /\ ServerInv /\ IPDBInv /\ TableOK(m, now) /\ ManagedTable(m) /\ now \in Nat /\ now' = now
      /\ hwDuid[Me] \in DuidsOf(Me) /\ \A d \in DuidsOf(Me) : d \in Duid
  BY MyIds, DuidsTyped, MeAssumption
  DEF SidesInv, ServerInv, IPDBInv, IPDBTypeOK, ClientsTypeOK
<1>1. CASE Quiet
  <2>1. /\ KeepsPermanent(m, m')
        /\ \A k \in Key : m'[k] \in {nil, m[k]}
        /\ \A k \in Key : Live(m, now, k) => m'[k] = m[k]
    BY <1>0, <1>1, QuietRecords
  <2> QED BY <1>0, <2>1 DEF Live
<1>2. ASSUME NEW ttl \in {OfferTime, LeaseTime}, UpdateClient(proc[h].ip, duid(h), ttl),
             proc[h].pc \in {"offer", "ack"}
      PROVE  /\ \A d \in DuidsOf(Me) : Live(m', now', d) /\ d # MyDuid =>
                   Live(m, now, d) /\ m'[d] = m[d]
             /\ Live(m, now, hwDuid[Me]) /\ MyCid # nil => Live(m', now', hwDuid[Me])
             /\ ~Live(m, now, hwDuid[Me]) /\ MyCid # nil => ~Live(m', now', hwDuid[Me])
             /\ KeepsPermanent(m, m')
  <2>1. PICK e : e = duid(h)
    OBVIOUS
  <2>2. /\ ttl \in Nat /\ proc[h].ip \in Uip /\ e \in Duid /\ e \in DuidsOf(proc[h].pkt.hw)
        /\ proc[h].pkt.hw \in Hw
    BY <1>0, <1>2, <2>1, OwnDuid, TimeAssumption DEF ServerInv, ProcOK
  <2>3. m' = UpdateTable(m, now, proc[h].ip, e, ttl).tbl
    BY <1>2, <2>1 DEF UpdateClient
  <2>4. KeepsPermanent(m, m')
    BY <1>0, <2>2, <2>3, UpdateRecords
  <2>5. \A d \in Duid : d # e => m'[d] = m[d]
    BY <1>0, <2>2, <2>3, UpdateOthers
  <2>6. proc[h].pkt.hw = Me => e = MyDuid
    BY <1>2, <2>1 DEF OneDuid
  <2>7. proc[h].pkt.hw # Me => e \notin DuidsOf(Me)
    BY <2>2, DuidsDisjoint, MeAssumption
  <2>8. \A d \in DuidsOf(Me) : d # MyDuid => m'[d] = m[d]
    BY <1>0, <2>5, <2>6, <2>7
  <2>9. Live(m, now, hwDuid[Me]) /\ MyCid # nil => Live(m', now', hwDuid[Me])
    <3>1. Live(m, now, hwDuid[Me]) /\ MyCid # nil => m[hwDuid[Me]].permanent
      BY DEF OneDuid
    <3> QED BY <1>0, <2>4, <3>1 DEF KeepsPermanent, Live, Expired
  <2>10. ~Live(m, now, hwDuid[Me]) /\ MyCid # nil => hwDuid[Me] # MyDuid
    BY MyIds DEF MyDuid
  <2> QED BY <1>0, <2>4, <2>8, <2>9, <2>10 DEF Live
<1> QED
  BY <1>0, <1>1, <1>2, GoroutinePool

LEMMA OneDuidKeeps ==
    ASSUME DistinctIds, SidesInv, NetInv, CidRight, OneDuid, [SystemNext]_systemVars,
           [BufferKept]_serverVars
    PROVE  OneDuid'
<1>0. /\ ServerInv /\ StartInv /\ IsTable(m) /\ TableOK(m, now) /\ now \in Nat
      /\ \A d \in DuidsOf(Me) : d \in Duid
      /\ hwDuid[Me] \in DuidsOf(Me)
  BY MyIds, DuidsTyped, MeAssumption
  DEF SidesInv, ServerInv, IPDBInv, IPDBTypeOK, ClientsTypeOK
<1>1. ServerInv' /\ StartInv'
  BY SidesInvKeeps DEF SidesInv
<1>2. ASSUME UNCHANGED <<m, proc, status>>, now' \in Nat, now <= now'
      PROVE  OneDuid'
  <2>1. \A k \in Key : Live(m', now', k) => Live(m, now, k)
    BY <1>0, <1>2 DEF Live, Expired, IsTable, Client
  <2>2. MyCid # nil /\ Live(m, now, hwDuid[Me]) => Live(m', now', hwDuid[Me])
    BY <1>2 DEF OneDuid, Live, Expired
  <2>3. /\ MyDuid' = MyDuid
        /\ \A d \in DuidsOf(Me) : Live(m', now', d) => d = MyDuid'
        /\ MyCid # nil /\ Live(m', now', hwDuid[Me]) => m'[hwDuid[Me]].permanent
    BY <1>0, <1>2, <2>1, <2>2, OneDuidStays
  <2>4. \A h \in Handler : duid(h)' = duid(h)
    BY <1>2 DEF duid
  <2> QED BY <1>2, <2>3, <2>4 DEF OneDuid, DuidsOf
<1>3. CASE ClientRuns \/ ClientReads \/ ClientCancelled \/ ClientResumes \/ UNCHANGED systemVars
  <2>1. UNCHANGED serverVars
    BY <1>3 DEF ClientRuns, ClientReads, ClientCancelled, ClientResumes, systemVars
  <2>2. UNCHANGED <<m, now, proc, status>>
    BY <2>1 DEF serverVars, ipdbVars, newVars, srvVars
  <2> QED BY <1>0, <1>2, <2>2
<1>4. CASE Time
  BY <1>0, <1>2, <1>4 DEF Time, Tick, poolVars, newVars, srvVars
<1>5. CASE ServerStarts
  <2>1. ConfigStep /\ UNCHANGED <<now, cancelled, proc>>
    BY <1>5 DEF ServerStarts, srvVars
  <2>2. /\ status \in {"range", "mode", "clients"}
        /\ \A k \in Key : m'[k] = m[k] \/ m'[k].permanent
    BY <1>0, <2>1, ConfigKeeps
  <2>3. \A k \in Key : m'[k] # nil => m'[k].permanent
    BY <2>2 DEF OneDuid
  <2>4. \A h \in Handler : proc'[h].pc = "idle"
    BY <1>0, <2>1, <2>2 DEF ServerInv
  <2>5. IsTable(m') /\ Keyed(m') /\ NewTyped'
    BY <1>1 DEF ServerInv, IPDBInv, IPDBTypeOK, ClientsTypeOK, TableOK
  <2>6. ASSUME NEW d \in DuidsOf(Me), Live(m', now', d) PROVE d = hwDuid[Me]
    <3>1. m'[d] # nil /\ m'[d] \in Client /\ m'[d].permanent /\ d \in Key
      BY <1>0, <2>3, <2>5, <2>6 DEF Live, IsTable
    <3>2. m'[d].duid = d
      BY <1>0, <2>5, <3>1, KeysDiffer DEF Keyed, Client
    <3>3. PICK c : c = m'[d]
      OBVIOUS
    <3>4. Owned(c)'
      BY <1>1, <3>1, <3>3 DEF StartInv
    <3>5. \E hw \in Hw : d = hwDuid[hw]
      BY <3>2, <3>3, <3>4, HwAssumption DEF Owned
    <3> QED BY <3>5, MyIds
  <2>7. \A d \in DuidsOf(Me) : Live(m', now', d) => d = MyDuid'
    BY <2>6 DEF MyDuid
  <2>8. Live(m', now', hwDuid[Me]) => m'[hwDuid[Me]].permanent
    BY <1>0, <2>3 DEF Live
  <2> QED BY <2>3, <2>4, <2>7, <2>8 DEF OneDuid, DuidsOf
<1>6. ASSUME NEW h \in Handler, ServerReads(h)
      PROVE  OneDuid'
  <2>1. PICK p \in Packet : Receive(h, p) /\ (p.hw = Me => p \in MyRequests)
    BY <1>6, SendingMine, MyRequestsAssumption DEF ServerReads, SidesInv, NetInv
  <2>2. /\ UNCHANGED <<m, status>> /\ now' = now /\ status = "up"
        /\ proc'[h] = [Idle EXCEPT !.pc = "start", !.pkt = p, !.cid = p.cid]
    <3>1. now' = now
      BY <1>6 DEF ServerReads
    <3>2. /\ UNCHANGED <<poolVars, newVars>> /\ status = "up"
          /\ proc'[h] = [Idle EXCEPT !.pc = "start", !.pkt = p, !.cid = p.cid]
      BY <2>1 DEF Receive
    <3> QED BY <3>1, <3>2 DEF poolVars, newVars
  <2>3. \A g \in Handler :
           \/ proc[g].pc = "idle" /\ proc'[g].pc = "start"
           \/ /\ proc'[g].pc = proc[g].pc /\ proc'[g].byCid = proc[g].byCid
              /\ proc[g].pc # "idle" => proc'[g].pkt.hw = proc[g].pkt.hw
    BY <1>0, <2>1, ReadKeeps
  <2>4. proc'[h].pc = "start" /\ proc'[h].pkt = p /\ proc'[h].cid = p.cid
    BY <2>2 DEF Idle
  <2>5. p.hw = Me => p.cid = MyCid
    BY <2>1 DEF MyRequests, Discover, request
  <2>6. ASSUME NEW g \in Handler, g # h
        PROVE  proc[g].pc = "idle" => proc'[g].pc = "idle"
    BY <2>1, <2>6 DEF Receive, Overwrite
  <2>7. \A g \in Handler : proc[g].pc # "idle" /\ proc'[g].pc # "idle" => proc'[g].cid = proc[g].cid
    BY DEF BufferKept, serverVars, srvVars
  <2>8. MyDuid' = MyDuid
    BY <2>2 DEF MyDuid
  <2>9. ASSUME NEW g \in Handler, proc'[g].pc # "idle", proc'[g].pkt.hw = Me
        PROVE  proc'[g].cid = MyCid /\ (proc'[g].pc # "start" => duid(g)' = MyDuid')
    <3>1. CASE g = h
      BY <2>4, <2>5, <2>9, <3>1
    <3>2. CASE g # h
      <4>1. /\ proc[g].pc # "idle" /\ proc'[g].pc = proc[g].pc /\ proc'[g].byCid = proc[g].byCid
            /\ proc[g].pkt.hw = Me /\ proc'[g].pkt.hw = Me /\ proc'[g].cid = proc[g].cid
        BY <2>3, <2>6, <2>7, <2>9, <3>2
      <4>2. duid(g)' = duid(g)
        BY <4>1 DEF duid
      <4> QED BY <2>8, <4>1, <4>2 DEF OneDuid
    <3> QED BY <3>1, <3>2
  <2> QED BY <2>2, <2>8, <2>9 DEF OneDuid, DuidsOf
<1>7. ASSUME NEW h \in Handler, ServerRuns(h)
      PROVE  OneDuid'
  <2>1. Goroutine(h) /\ UNCHANGED <<now, cancelled>>
    BY <1>7 DEF ServerRuns
  <2>2. /\ UNCHANGED newVars /\ proc[h].pc # "idle"
        /\ \A x \in Handler \ {h} : proc'[x] = proc[x]
    BY <1>0, <2>1, GoroutinePool, GoroutineProc
  <2>3. status \in {"up", "down"} /\ status' = status
    BY <1>0, <2>2 DEF ServerInv, newVars
  <2>4. /\ \A d \in DuidsOf(Me) : Live(m', now', d) /\ d # MyDuid => Live(m, now, d) /\ m'[d] = m[d]
        /\ Live(m, now, hwDuid[Me]) /\ MyCid # nil => Live(m', now', hwDuid[Me])
        /\ ~Live(m, now, hwDuid[Me]) /\ MyCid # nil => ~Live(m', now', hwDuid[Me])
        /\ KeepsPermanent(m, m')
    BY <2>1, MyRecords
  <2>5. MyDuid' = MyDuid
    BY <2>4 DEF MyDuid
  <2>6. \A d \in DuidsOf(Me) : Live(m', now', d) => d = MyDuid'
    BY <2>4, <2>5 DEF OneDuid
  <2>7. MyCid # nil /\ Live(m', now', hwDuid[Me]) => m'[hwDuid[Me]].permanent
    BY <1>0, <2>4 DEF OneDuid, KeepsPermanent, Live
  <2>8. ASSUME proc'[h].pc # "idle", proc'[h].pkt.hw = Me
        PROVE  proc'[h].cid = MyCid /\ (proc'[h].pc # "start" => duid(h)' = MyDuid')
    <3>1. /\ proc'[h].pkt = proc[h].pkt /\ proc'[h].cid = proc[h].cid /\ proc[h].cid = MyCid
          /\ proc[h].pc # "start" => proc'[h].byCid = proc[h].byCid
      BY <1>0, <2>1, <2>2, <2>8, GoroutineCid DEF OneDuid
    <3>2. CASE proc[h].pc # "start"
      <4>1. duid(h)' = duid(h)
        BY <3>1, <3>2 DEF duid
      <4> QED BY <2>2, <2>5, <2>8, <3>1, <3>2, <4>1 DEF OneDuid
    <3>3. CASE proc[h].pc = "start"
      <4>1. handleMsg(h)
        BY <2>1, <3>3 DEF Goroutine, handleDiscover, searchIP, sendOffer, handleRequest,
                          arpVerify, sendAck
      <4>2. proc'[h].byCid = (Entry(m, now, hwDuid[Me]) = nil /\ proc[h].cid # nil)
        <5>1. PICK g : g = proc[h] /\ proc \in [Handler -> ProcType] /\ g \in ProcType
          BY <1>0 DEF ServerInv
        <5>2. proc'[h] # Idle
          BY <2>8, IdleOK
        <5>3. \E next : proc'[h] = [g EXCEPT !.pc = next,
                                       !.byCid = Entry(m, now, hwDuid[Me]) = nil /\ g.cid # nil]
          BY <2>8, <3>1, <4>1, <5>1, <5>2 DEF handleMsg
        <5> QED BY <5>1, <5>3 DEF ProcType
      <4>3. Entry(m, now, hwDuid[Me]) # nil <=> Live(m, now, hwDuid[Me])
        BY <1>0, EntryLive
      <4>4. proc'[h].byCid <=> MyDuid = MyCid
        BY <3>1, <4>2, <4>3, MyIds DEF MyDuid
      <4>5. duid(h)' = MyDuid
        BY <2>8, <3>1, <4>4, MyIds DEF duid, MyDuid
      <4> QED BY <2>5, <3>1, <4>5
    <3> QED BY <3>2, <3>3
  <2>9. ASSUME NEW g \in Handler, g # h, proc'[g].pc # "idle", proc'[g].pkt.hw = Me
        PROVE  proc'[g].cid = MyCid /\ (proc'[g].pc # "start" => duid(g)' = MyDuid')
    <3>1. proc'[g] = proc[g]
      BY <2>2, <2>9
    <3>2. duid(g)' = duid(g)
      BY <3>1 DEF duid
    <3> QED BY <2>5, <2>9, <3>1, <3>2 DEF OneDuid
  <2> QED BY <2>3, <2>6, <2>7, <2>8, <2>9 DEF OneDuid, DuidsOf
<1> QED
  BY <1>3, <1>4, <1>5, <1>6, <1>7 DEF SystemNext

\* A lease the server has for the client is found by the goroutines.
LEMMA HeldUnderMine ==
    ASSUME OneDuid, NEW ip, NEW until, HeldIn(m, now, ip, until)
    PROVE  Entry(m, now, MyDuid) # nil /\ Entry(m, now, MyDuid).ip = ip
<1>1. PICK d \in DuidsOf(Me) : Entry(m, now, d) # nil /\ Entry(m, now, d).ip = ip
  BY DEF HeldIn
<1>2. Live(m, now, d)
  BY <1>1, DuidsTyped, MeAssumption, EntryLive
<1> QED BY <1>1, <1>2 DEF OneDuid
-----------------------------------------------------------------------------
\* When a lease is renewed, and when it is rebound.
T1 == LeaseTime \div 2
T2 == (7 * LeaseTime) \div 8

LEMMA Times ==
    ASSUME LongLease
    PROVE  /\ T1 \in Nat /\ T2 \in Nat /\ 0 < T1 /\ T1 < T2 /\ LeaseTime \in Nat
           /\ ScriptTime \in Nat /\ PingTime \in Nat
           /\ PingTime + ScriptTime + T1 < LeaseTime
<1>1. LeaseTime \in Nat /\ LeaseTime >= 3
  BY TimeAssumption DEF LongLease
<1>2. T1 \in Nat /\ T2 \in Nat /\ 0 < T1 /\ T1 < T2
  BY <1>1 DEF T1, T2
<1>3. PingTime + ScriptTime + T1 < LeaseTime
  BY DEF LongLease, T1
<1> QED BY <1>1, <1>2, <1>3, ClientAssumption

\* The least time an address has left, if the client has one: the script and
\* the first half of the lease are counted before the renewal, and then a ping.
Remains ==
    CASE cState = "Bound" /\ cPc = "script" -> LeaseTime - ScriptTime + cWait
      [] cState = "Bound" /\ cPc = "sleep" -> LeaseTime - ScriptTime - T1 + cWait
      [] cState = "Bound" /\ cPc \notin {"script", "sleep"} -> LeaseTime - ScriptTime
      [] cState \in {"ArpCheck", "Ifconfig"} -> LeaseTime - ScriptTime - T1 - Pinged
      [] OTHER -> LeaseTime - ScriptTime - T1

\* What is left of the lease of a client that nothing got in the way of.
Counted ==
    smooth =>
        /\ cState \notin {"PurgeInterface", "Rebinding"} /\ cPc \notin {"reset", "returned"}
        /\ ~cCancelled
        /\ \A ip \in Uip :
              cIface.addrs[ip] > 0 =>
                  /\ cState \notin {"Discovering", "Selecting"} /\ ip = cLast.ip
                  /\ cIface.addrs[ip] >= Remains
        /\ cState \in {"Bound", "Renewing"} => cIface.addrs[cLast.ip] > 0
        /\ cState = "Bound" /\ cPc = "script" => cWait <= ScriptTime
        /\ cState = "Bound" /\ cPc = "sleep" => cWait <= T1 /\ cLeft.t2 = T2 - T1 + cWait
        /\ cState = "Renewing" =>
              cLeft.t2 = T2 - T1 /\ (cPc = "reply" => cWait = T2 - T1)

\* It keeps what it has.
Steady ==
    smooth /\ smooth' => \A ip \in Uip : cIface.addrs[ip] > 0 => cIface'.addrs[ip] > 0

\* What the last message says.
LEMMA LastTimes ==
    ASSUME P!Typed, cState \notin {"PurgeInterface", "Discovering"}
    PROVE  /\ cLast.ip \in Uip /\ cLast.lease = LeaseTime /\ cLast.renew = 0 /\ cLast.rebind = 0
           /\ P!Deadlines(cLast) = [t1 |-> T1, t2 |-> T2, tx |-> LeaseTime]
<1>1. cLast \in ClientMsg /\ cLast.ip \in Uip /\ cLast.lease = LeaseTime
  BY AddrsTyped
<1>2. cLast.renew = 0 /\ cLast.rebind = 0
  BY <1>1 DEF ClientMsg, ReplyMsg
<1> QED BY <1>1, <1>2, TimeAssumption DEF P!Deadlines, T1, T2

\* A step of a client that is not disturbed is one of these.
LEMMA SmoothSteps ==
    ASSUME LongLease, P!Typed, Counted, ClientStep, smooth, cFaults' = cFaults, cPc' # "reset"
    PROVE  /\ UNCHANGED <<cLast, cCancelled>>
           /\ \/ /\ \/ cPc = "script" /\ cPc' = "end" /\ cState \in {"Discovering", "Bound"}
                    \/ cPc = "end" /\ cPc' \in {"loop", "bananas"}
                    \/ /\ cPc = "loop" /\ cPc' = "reply"
                       /\ cState \in {"Discovering", "Selecting", "Renewing"}
                       /\ cState = "Renewing" => cWait' = cLeft.t2
                 /\ UNCHANGED <<cState, cLeft, cIface>>
              \/ /\ cPc = "reply" /\ cState \in {"Discovering", "Selecting"}
                 /\ cState' = "Discovering" /\ cPc' = "end" /\ UNCHANGED cIface
              \/ /\ cState = "ArpCheck" /\ cPc = "loop" /\ cState' = "ArpCheck" /\ cPc' = "ping"
                 /\ cWait' = PingTime /\ UNCHANGED cIface
              \/ /\ cState = "ArpCheck" /\ cPc = "ping" /\ cState' = "Ifconfig" /\ cPc' = "end"
                 /\ UNCHANGED cIface
              \/ /\ cState = "Ifconfig" /\ cPc = "loop" /\ cState' = "Bound" /\ cPc' = "script"
                 /\ cWait' = ScriptTime
                 /\ cIface'.addrs = [cIface.addrs EXCEPT ![cLast.ip] = LeaseTime]
              \/ /\ cState = "Bound" /\ cPc = "loop" /\ cState' = "Bound" /\ cPc' = "sleep"
                 /\ cWait' = T1 /\ cLeft'.t2 = T2 /\ UNCHANGED cIface
              \/ /\ cState = "Bound" /\ cPc = "sleep" /\ cWait = 0
                 /\ cState' = "Renewing" /\ cPc' = "end" /\ UNCHANGED <<cLeft, cIface>>
<1> USE DEF P!sys, P!history
<1>0. /\ cFaults \in Nat /\ cFaults + 1 # cFaults /\ ~cCancelled
      /\ cState \notin {"PurgeInterface", "Rebinding"} /\ cPc \notin {"reset", "returned"}
      /\ cPc = "script" => cState \in {"Discovering", "Bound"}
      /\ cPc = "reply" => cState \in {"Discovering", "Selecting", "Renewing"}
      /\ cPc = "sleep" => cState = "Bound"
      /\ cPc = "ping" => cState = "ArpCheck"
  BY DEF P!Typed, P!DClientTypeOK, P!WaitsWhere, Counted
<1>1. ~P!Fault
  BY <1>0 DEF P!Fault
<1>2. CASE P!runStatePurgeInterface \/ P!ResetDone
  BY <1>0, <1>2 DEF P!runStatePurgeInterface, P!ResetDone
<1>3. CASE P!runPostCallback
  BY <1>0, <1>3 DEF P!runPostCallback
<1>4. CASE P!advanceState
  BY <1>0, <1>4 DEF P!advanceState, P!Deadline
<1>5. CASE P!NoReply
  <2>1. cPc = "reply" /\ cWait = 0 /\ UNCHANGED <<cIface, cLast, cCancelled>>
        /\ cState' = P!FailState /\ cPc' = "end"
    BY <1>0, <1>1, <1>5 DEF P!NoReply
  <2>2. T2 - T1 # 0
    BY Times
  <2>3. cState \in {"Discovering", "Selecting"}
    BY <1>0, <2>1, <2>2 DEF Counted
  <2> QED BY <2>1, <2>3 DEF P!FailState
<1>6. CASE P!runStateArpCheck
  BY <1>0, <1>6 DEF P!runStateArpCheck
<1>7. CASE P!PingDone \/ \E used \in BOOLEAN : P!PingAnswered(used)
  BY <1>0, <1>1, <1>7 DEF P!PingDone, P!PingAnswered, P!panicReset
<1>8. CASE P!runStateIfconfig
  <2>1. cState = "Ifconfig" /\ cPc = "loop" /\ cLast \in ClientMsg /\ cLast.ip \in Uip
        /\ cLast.lease = LeaseTime /\ cIface \in P!IfaceType
    BY <1>8, AddrsTyped DEF P!runStateIfconfig, P!Typed, P!DClientTypeOK, P!IfaceType
  <2>2. /\ cState' = "Bound" /\ cPc' = "script" /\ cWait' = ScriptTime
        /\ cIface' = P!SetIface(P!filterNetconfig(P!buildNetconfig))
        /\ UNCHANGED <<cLast, cCancelled>>
    BY <1>0, <1>8 DEF P!runStateIfconfig
  <2>3. P!SetIface(P!filterNetconfig(P!buildNetconfig)).addrs
           = [cIface.addrs EXCEPT ![cLast.ip] = cLast.lease]
    BY <2>1, P!SetIfaceOK, ClientAssumptions
  <2> QED BY <2>1, <2>2, <2>3
<1>9. CASE P!runStateBound
  <2>1. P!Deadlines(cLast) = [t1 |-> T1, t2 |-> T2, tx |-> LeaseTime]
    BY <1>9, LastTimes DEF P!runStateBound
  <2> QED BY <1>0, <1>9, <2>1 DEF P!runStateBound
<1>10. CASE P!WakeUp
  BY <1>0, <1>10 DEF P!WakeUp
<1>11. CASE P!LoopEnd
  BY <1>0, <1>11 DEF P!LoopEnd
<1> QED
  BY <1>2, <1>3, <1>4, <1>5, <1>6, <1>7, <1>8, <1>9, <1>10, <1>11 DEF ClientStep, P!Step

LEMMA StepCounts ==
    ASSUME LongLease, P!Typed, Counted, ClientStep, smooth, cFaults' = cFaults, cPc' # "reset"
    PROVE  Counted' /\ Steady
<1>0. /\ T1 \in Nat /\ T2 \in Nat /\ LeaseTime \in Nat /\ ScriptTime \in Nat /\ PingTime \in Nat
      /\ cIface.addrs \in [Uip -> Nat] /\ cWait \in Nat /\ LeaseTime > 0
      /\ cState \notin {"PurgeInterface", "Rebinding"} /\ cPc \notin {"reset", "returned"}
      /\ ~cCancelled /\ cPc' # "reset"
      /\ cPc = "ping" => cWait <= PingTime
  BY Times DEF P!Typed, P!DClientTypeOK, P!WaitsWhere, Counted
<1>1. \A ip \in Uip : cIface.addrs[ip] > 0 =>
         /\ cState \notin {"Discovering", "Selecting"} /\ ip = cLast.ip
         /\ cIface.addrs[ip] >= Remains
  BY DEF Counted
<1>2. cState \notin {"Discovering", "Selecting"} => cLast.ip \in Uip
  BY <1>0, AddrsTyped
\* If no address changes, the least time left may only get less.
<1>3. ASSUME UNCHANGED <<cIface, cLast, cCancelled>>, cPc' \notin {"reset", "returned"},
             cState' \notin {"PurgeInterface", "Rebinding"},
             cState \notin {"Discovering", "Selecting"} =>
                cState' \notin {"Discovering", "Selecting"} /\ Remains' <= Remains
                /\ Remains \in Int /\ Remains' \in Int,
             cState' \in {"Bound", "Renewing"} => cState \in {"Bound", "Renewing"},
             cState' = "Bound" /\ cPc' = "script" => cWait' <= ScriptTime,
             cState' = "Bound" /\ cPc' = "sleep" => cWait' <= T1 /\ cLeft'.t2 = T2 - T1 + cWait',
             cState' = "Renewing" =>
                cLeft'.t2 = T2 - T1 /\ (cPc' = "reply" => cWait' = T2 - T1)
      PROVE  Counted' /\ Steady
  <2>1. \A ip \in Uip : cIface'.addrs[ip] > 0 =>
           /\ cState' \notin {"Discovering", "Selecting"} /\ ip = cLast'.ip
           /\ cIface'.addrs[ip] >= Remains'
    BY <1>0, <1>1, <1>3
  <2>2. cState' \in {"Bound", "Renewing"} => cIface'.addrs[cLast'.ip] > 0
    BY <1>3 DEF Counted
  <2>3. Steady
    BY <1>3 DEF Steady
  <2> QED BY <1>0, <1>3, <2>1, <2>2, <2>3 DEF Counted
<1>4. CASE /\ \/ cPc = "script" /\ cPc' = "end" /\ cState \in {"Discovering", "Bound"}
              \/ cPc = "end" /\ cPc' \in {"loop", "bananas"}
              \/ /\ cPc = "loop" /\ cPc' = "reply"
                 /\ cState \in {"Discovering", "Selecting", "Renewing"}
                 /\ cState = "Renewing" => cWait' = cLeft.t2
           /\ UNCHANGED <<cState, cLeft, cIface, cLast, cCancelled>>
  <2>1. Remains' <= Remains /\ Remains \in Int /\ Remains' \in Int
    BY <1>0, <1>4 DEF Remains, Pinged
  <2>2. cState = "Renewing" => cLeft.t2 = T2 - T1
    BY DEF Counted
  <2> QED BY <1>0, <1>3, <1>4, <2>1, <2>2
<1>5. CASE /\ cPc = "reply" /\ cState \in {"Discovering", "Selecting"}
           /\ cState' = "Discovering" /\ cPc' = "end" /\ UNCHANGED <<cIface, cLast, cCancelled>>
  BY <1>3, <1>5
<1>6. CASE /\ cState = "ArpCheck" /\ cPc = "loop" /\ cState' = "ArpCheck" /\ cPc' = "ping"
           /\ cWait' = PingTime /\ UNCHANGED <<cIface, cLast, cCancelled>>
  <2>1. Remains' <= Remains /\ Remains \in Int /\ Remains' \in Int
    BY <1>0, <1>6 DEF Remains, Pinged
  <2> QED BY <1>3, <1>6, <2>1
<1>7. CASE /\ cState = "ArpCheck" /\ cPc = "ping" /\ cState' = "Ifconfig" /\ cPc' = "end"
           /\ UNCHANGED <<cIface, cLast, cCancelled>>
  <2>1. Remains' <= Remains /\ Remains \in Int /\ Remains' \in Int
    BY <1>0, <1>7 DEF Remains, Pinged
  <2> QED BY <1>3, <1>7, <2>1
<1>8. CASE /\ cState = "Ifconfig" /\ cPc = "loop" /\ cState' = "Bound" /\ cPc' = "script"
           /\ cWait' = ScriptTime /\ UNCHANGED <<cLast, cCancelled>>
           /\ cIface'.addrs = [cIface.addrs EXCEPT ![cLast.ip] = LeaseTime]
  <2>1. Remains' = LeaseTime
    BY <1>0, <1>8 DEF Remains
  <2>2. \A ip \in Uip :
           cIface'.addrs[ip] = IF ip = cLast.ip THEN LeaseTime ELSE cIface.addrs[ip]
    BY <1>0, <1>2, <1>8
  <2>3. \A ip \in Uip : cIface'.addrs[ip] > 0 => ip = cLast.ip /\ cIface'.addrs[ip] >= Remains'
    BY <1>0, <1>1, <2>1, <2>2
  <2>4. cIface'.addrs[cLast.ip] > 0
    BY <1>0, <1>2, <1>8, <2>2
  <2>5. Steady
    BY <1>0, <2>2 DEF Steady
  <2> QED BY <1>0, <1>8, <2>3, <2>4, <2>5 DEF Counted
<1>9. CASE /\ cState = "Bound" /\ cPc = "loop" /\ cState' = "Bound" /\ cPc' = "sleep"
           /\ cWait' = T1 /\ cLeft'.t2 = T2 /\ UNCHANGED <<cIface, cLast, cCancelled>>
  <2>1. Remains' <= Remains /\ Remains \in Int /\ Remains' \in Int
    BY <1>0, <1>9 DEF Remains
  <2>2. T2 = T2 - T1 + T1 /\ T1 <= T1
    BY <1>0
  <2> QED BY <1>3, <1>9, <2>1, <2>2
<1>10. CASE /\ cState = "Bound" /\ cPc = "sleep" /\ cWait = 0
            /\ cState' = "Renewing" /\ cPc' = "end" /\ UNCHANGED <<cLeft, cIface, cLast, cCancelled>>
  <2>1. Remains' <= Remains /\ Remains \in Int /\ Remains' \in Int
    BY <1>0, <1>10 DEF Remains
  <2>2. cLeft.t2 = T2 - T1
    <3>1. cLeft.t2 = T2 - T1 + 0
      BY <1>10 DEF Counted
    <3> QED BY <1>0, <3>1
  <2> QED BY <1>3, <1>10, <2>1, <2>2
<1> QED
  BY <1>4, <1>5, <1>6, <1>7, <1>8, <1>9, <1>10, SmoothSteps

\* Whether requests and replies that are under way now are all about the lease
\* the client has: it has slept for a tick since it got that, or it renews it.
Settled ==
    \/ cState = "Bound" /\ cPc = "sleep" /\ cWait < T1
    \/ cState = "Renewing"

\* A request to renew that lease, as far as handleRequest looks at it; its type may
\* have been overwritten.
Plain(p) == p.dst = "self" /\ p.sid = nil /\ p.reqIP = nil /\ p.src = cLast.ip

\* No request under way is for another lease, and no reply refuses one.
Unrefused ==
    smooth /\ Settled =>
        /\ late = {}
        /\ \A x \in inbox : x.pkt.type # "nack"
        /\ \A h \in Handler :
              proc[h].pc # "idle" /\ proc[h].pkt.hw = Me => Plain(proc[h].pkt)

\* After its last acknowledgement no offer has cut the lease short.
Uncut ==
    smooth =>
        /\ cState \in {"ArpCheck", "Ifconfig", "Bound", "Renewing"} => cLast.ip \notin cut
        /\ cState \in {"Selecting", "Renewing"} =>
              \A x \in inbox :
                  x.pkt.type = "ack" /\ x.pkt.xid = "cur" /\ x.pkt.ip = cLast.ip =>
                      cLast.ip \notin cut

KeptInv == OneDuid /\ Counted /\ Unrefused /\ Uncut

LEMMA KeptInvInit == SystemInit => KeptInv
BY OneDuidInit DEF SystemInit, KeptInv, Counted, Unrefused, Uncut

\* Where the client comes from.
LEMMA StepSettles ==
    ASSUME LongLease, P!Typed, Counted, ClientStep, smooth, cFaults' = cFaults, cPc' # "reset"
    PROVE  /\ UNCHANGED cLast
           /\ Settled' => Settled /\ ~(cPc = "reply" /\ cPc' # "reply")
           /\ cState' \in {"ArpCheck", "Ifconfig", "Bound", "Renewing"} =>
                 cState \in {"ArpCheck", "Ifconfig", "Bound", "Renewing"}
<1>1. T1 \in Nat /\ 0 < T1
  BY Times
<1>2. ASSUME cPc' = "sleep" PROVE cWait' = T1
  BY <1>2, SmoothSteps
<1>3. ASSUME cState' = "Renewing"
      PROVE  \/ cState = "Renewing" /\ cPc # "reply"
             \/ cState = "Bound" /\ cPc = "sleep" /\ cWait = 0
  BY <1>3, SmoothSteps
<1>4. Settled' => Settled /\ cPc # "reply"
  BY <1>1, <1>2, <1>3 DEF Settled
<1>5. UNCHANGED cLast
  BY SmoothSteps
<1>6. cState' \in {"ArpCheck", "Ifconfig", "Bound", "Renewing"} =>
         cState \in {"ArpCheck", "Ifconfig", "Bound", "Renewing"}
  BY SmoothSteps
<1> QED BY <1>4, <1>5, <1>6

\* A step of the client itself.
LEMMA RunsKept ==
    ASSUME LongLease, SidesInv, NetInv, KeptInv, ClientRuns
    PROVE  Counted' /\ Unrefused' /\ Uncut' /\ Steady
<1>0. P!Typed /\ Counted /\ Unrefused /\ Uncut /\ ClientStep /\ Exchange
      /\ UNCHANGED <<proc, cut>>
  BY RunsStep DEF SidesInv, KeptInv, ClientRuns, serverVars, srvVars
<1>1. NetInv'
  BY <1>0, ExchangeKeeps
<1>2. CASE ~smooth'
  BY <1>2 DEF Counted, Unrefused, Uncut, Steady
<1>3. CASE smooth' /\ ~smooth
  <2>1. cState = "PurgeInterface" /\ cPc = "loop" /\ cFaults' = cFaults /\ ~cCancelled
    BY <1>3 DEF ClientRuns
  <2>2. /\ \A ip \in Uip : cIface'.addrs[ip] = 0
        /\ cState' = "Discovering" /\ cPc' = "script" /\ UNCHANGED cCancelled
    BY <1>0, <2>1, StepStarts
  <2>3. Counted'
    BY <2>1, <2>2 DEF Counted
  <2> QED BY <1>3, <2>2, <2>3 DEF Unrefused, Uncut, Settled, Steady
<1>4. CASE smooth' /\ smooth
  <2>1. cPc' # "reset" /\ cFaults' = cFaults
    BY <1>4 DEF ClientRuns
  <2>2. Counted' /\ Steady
    BY <1>0, <1>4, <2>1, StepCounts
  <2>3. /\ UNCHANGED cLast
        /\ Settled' => Settled /\ ~(cPc = "reply" /\ cPc' # "reply")
        /\ cState' \in {"ArpCheck", "Ifconfig", "Bound", "Renewing"} =>
              cState \in {"ArpCheck", "Ifconfig", "Bound", "Renewing"}
    BY <1>0, <1>4, <2>1, StepSettles
  <2>4. Unrefused'
    BY <1>0, <1>4, <2>3 DEF Exchange, netVars, Unrefused, Plain
  <2>5. \A x \in inbox' : x.pkt.xid = "old"
    BY <1>0, <1>1, StepEffects DEF NetInv, Exchange, netVars
  <2>6. Uncut'
    BY <1>0, <1>4, <2>3, <2>5 DEF Uncut
  <2> QED BY <2>2, <2>4, <2>6
<1> QED BY <1>2, <1>3, <1>4

\* The client reads a message.
LEMMA ReadsKept ==
    ASSUME SidesInv, NetInv, KeptInv, ClientReads
    PROVE  Counted' /\ Unrefused' /\ Uncut' /\ Steady
<1>0. P!Typed /\ Counted /\ Unrefused /\ Uncut /\ Exchange /\ UNCHANGED <<smooth, cut>>
  BY DEF SidesInv, KeptInv, ClientReads
<1>1. PICK y \in inbox : y.pkt \in ClientMsg /\ C!catchReply(y.pkt)
  BY DEF ClientReads, NetInv
<1> DEFINE msg == y.pkt
<1>2. /\ cPc = "reply" /\ cPc' = "end" /\ UNCHANGED cIface
      /\ cState' \in {"ArpCheck", "Ifconfig"} =>
            /\ cLast' = msg /\ msg.type = "ack" /\ msg.xid = "cur"
            /\ cLast # nil /\ msg.ip = cLast.ip
  BY <1>0, <1>1, ReadEffects
<1> SUFFICES ASSUME smooth PROVE Counted' /\ Unrefused' /\ Uncut' /\ Steady
  BY <1>0 DEF Counted, Unrefused, Uncut, Steady
<1>3. cState \in {"Discovering", "Selecting", "Renewing"} /\ UNCHANGED cCancelled
  BY <1>0, <1>1, <1>2 DEF P!Typed, P!WaitsWhere, Counted, C!catchReply
<1>4. /\ cState' \in {"Discovering", "Selecting", "ArpCheck"}
      /\ cState = "Discovering" => cState' # "ArpCheck"
      /\ cState = "Renewing" => cState' = "ArpCheck"
  <2>1. C!verify(msg) = "IsNack" => msg.type = "nack" /\ cState # "Discovering"
    BY <1>3 DEF C!verify, C!VerifyOffer, C!verifyGenAck
  <2>2. cState = "Renewing" => msg.type # "nack"
    BY <1>0, <1>1 DEF Unrefused, Settled
  <2> QED BY <1>1, <1>3, <2>1, <2>2 DEF C!catchReply, C!NextState, C!NackState
<1>5. \A x \in inbox' : x.pkt.xid = "old"
  BY <1>0, <1>2, ExchangeKeeps DEF NetInv
<1>6. cState' = "ArpCheck" => cLast'.ip \notin cut
  BY <1>0, <1>1, <1>2, <1>3, <1>4 DEF Uncut
<1>7. \A ip \in Uip : cIface.addrs[ip] > 0 =>
         cState = "Renewing" /\ ip = cLast.ip /\ cIface.addrs[ip] >= Remains
  BY <1>0, <1>3 DEF Counted
<1>8. cState = "Renewing" => Remains = LeaseTime - ScriptTime - T1
  BY DEF Remains
<1>9. cState' = "ArpCheck" => Remains' = LeaseTime - ScriptTime - T1 - Pinged' /\ Pinged' = 0
  BY <1>2 DEF Remains, Pinged
<1>10. Counted'
  <2>1. ASSUME NEW ip \in Uip, cIface'.addrs[ip] > 0
        PROVE  /\ cState' \notin {"Discovering", "Selecting"} /\ ip = cLast'.ip
               /\ cIface'.addrs[ip] >= Remains'
    <3>1. cState = "Renewing" /\ ip = cLast.ip /\ cIface.addrs[ip] >= LeaseTime - ScriptTime - T1
      BY <1>2, <1>7, <1>8, <2>1
    <3>2. cState' = "ArpCheck" /\ cLast'.ip = cLast.ip
      BY <1>2, <1>4, <3>1
    <3>3. Remains' = LeaseTime - ScriptTime - T1
      BY <1>9, <3>2, TimeAssumption, ClientAssumption DEF T1
    <3> QED BY <1>2, <3>1, <3>2, <3>3
  <2> QED BY <1>0, <1>2, <1>3, <1>4, <2>1 DEF Counted
<1> QED
  BY <1>0, <1>2, <1>4, <1>5, <1>6, <1>10 DEF Unrefused, Uncut, Settled, Steady

\* A settled client sends no other request than that for its lease.
LEMMA SettledPlain ==
    ASSUME P!Typed, Settled, cPc = "reply"
    PROVE  Plain(Sending)
<1>1. cState = "Renewing" /\ cLast \in ClientMsg
  BY DEF Settled, P!Typed, P!LastVerified
<1>2. cLast.sid = "self"
  BY <1>1, MsgFields
<1> QED BY <1>1, <1>2 DEF Sending, RequestRenewing, request, Plain

\* The server reads a packet.
LEMMA ServerReadsKept ==
    ASSUME SidesInv, KeptInv, NEW h \in Handler, ServerReads(h)
    PROVE  Counted' /\ Unrefused' /\ Uncut' /\ Steady
<1>0. /\ ServerInv /\ P!Typed /\ Counted /\ Unrefused /\ Uncut
      /\ UNCHANGED <<smooth, cut, cState, cPc, cWait, cLast, cLeft, cCancelled, cIface, inbox, late>>
  BY DEF SidesInv, KeptInv, ServerReads, clientVars
<1>1. Counted' /\ Uncut' /\ Steady
  BY <1>0 DEF Counted, Remains, Pinged, Uncut, Steady
<1>2. SUFFICES ASSUME smooth, Settled, NEW g \in Handler, proc'[g].pc # "idle",
                      proc'[g].pkt.hw = Me
               PROVE  Plain(proc'[g].pkt)
  BY <1>0, <1>1 DEF Unrefused, Settled, Plain
<1>3. late = {} /\ \A x \in Handler : proc[x].pc # "idle" /\ proc[x].pkt.hw = Me => Plain(proc[x].pkt)
  BY <1>0, <1>2 DEF Unrefused
<1>4. PICK p : Receive(h, p) /\ (p.hw = Me => Plain(p))
  BY <1>0, <1>2, <1>3, SettledPlain DEF ServerReads
<1>5. CASE g = h
  <2>1. proc'[g].pkt = p
    BY <1>4, <1>5 DEF Receive, Idle
  <2> QED BY <1>2, <1>4, <2>1
<1>6. CASE g # h
  <2>1. PICK how : proc'[g] = Overwrite(proc[g], p, how)
    BY <1>4, <1>6 DEF Receive
  <2>2. PICK x : x = proc[g] /\ ProcOK(x)
    BY <1>0 DEF ServerInv
  <2>3. x.pc # "idle"
    BY <1>2, <2>1, <2>2 DEF Overwrite
  <2>4. CASE x.pc # "start"
    <3>1. proc'[g].pkt = x.pkt
      BY <2>1, <2>2, <2>3, <2>4 DEF Overwrite, ProcOK, ProcType
    <3> QED BY <1>2, <1>3, <2>2, <2>3, <3>1
  <2>5. CASE x.pc = "start"
    <3>1. x \in ProcType /\ x.pkt \in Request
      BY <2>2, <2>3 DEF ProcOK
    <3>2. LET q == proc'[g].pkt
          IN  /\ q.hw = x.pkt.hw /\ q.src = x.pkt.src /\ q.dst = x.pkt.dst
              /\ q.reqIP = Clobbered(x.pkt.reqIP, p.reqIP, 0, how)
              /\ q.sid = Clobbered(x.pkt.sid, p.sid, "other", how)
      <4> DEFINE type  == Clobbered(x.pkt.type, p.type, "other", how)
                 reqIP == Clobbered(x.pkt.reqIP, p.reqIP, 0, how)
                 sid   == Clobbered(x.pkt.sid, p.sid, "other", how)
                 cid   == Clobbered(x.cid, p.cid, Garbage, how)
                 pkt   == [x.pkt EXCEPT !.type = type, !.reqIP = reqIP, !.sid = sid]
      <4>1. proc'[g] = [x EXCEPT !.pkt.type = type, !.pkt.reqIP = reqIP,
                                 !.pkt.sid = sid, !.cid = cid]
        BY <2>1, <2>2, <2>5 DEF Overwrite
      <4> HIDE DEF type, reqIP, sid, cid
      <4>2. /\ pkt.hw = x.pkt.hw /\ pkt.src = x.pkt.src /\ pkt.dst = x.pkt.dst
            /\ pkt.reqIP = reqIP /\ pkt.sid = sid
        BY <3>1 DEF Request
      <4>3. proc'[g].pkt = pkt
        BY <3>1, <4>1 DEF ProcType, Request
      <4> QED BY <4>2, <4>3 DEF reqIP, sid
    <3>3. Plain(x.pkt)
      BY <1>2, <1>3, <2>2, <2>3, <3>2
    <3> QED BY <3>2, <3>3 DEF Plain, Clobbered
  <2> QED BY <2>4, <2>5
<1> QED BY <1>5, <1>6

\* A search for an address sends nothing.
LEMMA SearchSilent ==
    ASSUME ServerInv, NEW h \in Handler, Goroutine(h), UNCHANGED <<now, cancelled>>,
           handleDiscover(h) \/ searchIP(h)
    PROVE  reply' = nil
<1>1. search'.phase \in {"idle", "searching"} /\ found'.ok \in BOOLEAN
  BY GoroutinePool DEF IPDBInv, IPDBTypeOK
<1>2. AfterFindIP(h) => reply' = nil
  BY <1>1 DEF AfterFindIP, Drop, Goto
<1> QED BY <1>2 DEF handleDiscover, searchIP, Drop

\* A goroutine that renews the lease of a client that has it does not refuse.
LEMMA NoRefusal ==
    ASSUME ServerInv, OneDuid, NEW h \in Handler, Goroutine(h), UNCHANGED <<now, cancelled>>,
           proc[h].pkt.hw = Me, Plain(proc[h].pkt), ~InUse(h),
           NEW until, HeldIn(m, now, cLast.ip, until)
    PROVE  ~Replies("nack")
<1>0. proc \in [Handler -> ProcType]
  BY DEF ServerInv
<1>1. SUFFICES ASSUME Replies("nack") PROVE FALSE
  OBVIOUS
<1>2. reply' # nil /\ reply'.kind = "nack"
  BY <1>1 DEF Replies
<1>3. CASE handleMsg(h) \/ handleDiscover(h) \/ searchIP(h)
  BY <1>2, <1>3, SearchSilent DEF handleMsg
<1>4. CASE sendOffer(h) \/ sendAck(h)
  BY <1>2, <1>4 DEF sendOffer, sendAck, UpdateAndSend, Drop, sendMsg
<1>5. CASE \E free \in BOOLEAN : arpVerify(h, free)
  <2>1. proc[h].pc = "arp" /\ sendNACK(h)
    BY <1>2, <1>5 DEF arpVerify, Goto
  <2>2. proc'[h].pc # "ack"
    BY <1>0, <2>1, IdleOK DEF sendNACK
  <2> QED BY <2>1, <2>2 DEF InUse
<1>6. CASE handleRequest(h)
  <2>1. DesiredIP(proc[h].pkt) = cLast.ip
    BY DEF DesiredIP, Plain
  <2>2. duid(h) = MyDuid
    BY <1>6 DEF handleRequest, OneDuid
  <2>3. Entry(m, now, duid(h)) # nil /\ Entry(m, now, duid(h)).ip = cLast.ip
    BY <2>2, HeldUnderMine
  <2>4. Drop(h) \/ \E ip : Goto(h, "arp", ip)
    BY <1>6, <2>1, <2>3 DEF handleRequest
  <2> QED BY <1>2, <2>4 DEF Drop, Goto
<1> QED BY <1>3, <1>4, <1>5, <1>6 DEF Goroutine

\* A reply goes to the client that asked.
LEMMA ReplyTo ==
    ASSUME ServerInv, NEW h \in Handler, Goroutine(h), UNCHANGED <<now, cancelled>>,
           reply' # nil
    PROVE  reply'.hw = proc[h].pkt.hw
<1>1. CASE handleMsg(h) \/ handleDiscover(h) \/ searchIP(h)
  BY <1>1, SearchSilent DEF handleMsg
<1>2. CASE sendOffer(h) \/ sendAck(h)
  BY <1>2 DEF sendOffer, sendAck, UpdateAndSend, Drop, sendMsg
<1>3. CASE handleRequest(h) \/ \E free \in BOOLEAN : arpVerify(h, free)
  BY <1>3 DEF handleRequest, arpVerify, Drop, Goto, sendNACK
<1> QED BY <1>1, <1>2, <1>3 DEF Goroutine

\* A goroutine goes on.
LEMMA ServerRunsKept ==
    ASSUME LongLease, SidesInv, HeldInv, KeptInv, NEW h \in Handler, ServerRuns(h)
    PROVE  Counted' /\ Unrefused' /\ Uncut' /\ Steady
<1>0. /\ ServerInv /\ P!Typed /\ OneDuid /\ Counted /\ Unrefused /\ Uncut
      /\ Goroutine(h) /\ UNCHANGED <<now, cancelled>>
      /\ UNCHANGED <<cState, cPc, cWait, cLast, cLeft, cCancelled, cIface, late>>
      /\ smooth' = (smooth /\ ~InUse(h) /\ ~LateOffer)
      /\ cut' = CASE Replies("offer") -> cut \cup {reply'.ip}
                  [] Replies("ack") -> cut \ {reply'.ip}
                  [] OTHER -> cut
  BY DEF SidesInv, KeptInv, ServerRuns, clientVars
<1>1. Counted' /\ Steady
  BY <1>0 DEF Counted, Remains, Pinged, Steady
<1>2. SUFFICES ASSUME smooth, ~InUse(h), ~LateOffer PROVE Unrefused' /\ Uncut'
  BY <1>0, <1>1 DEF Unrefused, Uncut
<1>3. ASSUME NEW x \in inbox', x \notin inbox
      PROVE  /\ reply' # nil /\ reply'.hw = Me
             /\ x.pkt.type = reply'.kind /\ x.pkt.ip = reply'.ip
  BY <1>3 DEF ServerRuns, ReplyMsg, Sent
<1>4. Uncut'
  <2>1. cState \in {"ArpCheck", "Ifconfig", "Bound", "Renewing", "Selecting"} => cLast # nil
    BY <1>0 DEF P!Typed, P!DClientTypeOK
  <2>2. ASSUME cState \in {"ArpCheck", "Ifconfig", "Bound", "Renewing", "Selecting"},
               cLast.ip \notin cut
        PROVE  cLast.ip \notin cut'
    <3>1. ~(Replies("offer") /\ reply'.ip = cLast.ip)
      BY <1>2, <2>1, <2>2 DEF LateOffer
    <3>2. \/ Replies("offer") /\ cut' = cut \cup {reply'.ip}
          \/ Replies("ack") /\ cut' = cut \ {reply'.ip}
          \/ cut' = cut
      BY <1>0
    <3> QED BY <2>2, <3>1, <3>2
  <2>3. ASSUME cState \in {"Selecting", "Renewing"}, NEW x \in inbox',
               x.pkt.type = "ack", x.pkt.xid = "cur", x.pkt.ip = cLast.ip
        PROVE  cLast.ip \notin cut'
    <3>1. CASE x \in inbox
      <4>1. cLast.ip \notin cut
        BY <1>0, <1>2, <2>3, <3>1 DEF Uncut
      <4> QED BY <2>2, <2>3, <4>1
    <3>2. CASE x \notin inbox
      <4>1. Replies("ack") /\ ~Replies("offer") /\ reply'.ip = cLast.ip
        BY <1>3, <2>3, <3>2 DEF Replies
      <4> QED BY <1>0, <4>1
    <3> QED BY <3>1, <3>2
  <2>4. cState \in {"ArpCheck", "Ifconfig", "Bound", "Renewing"} => cLast.ip \notin cut'
    BY <1>0, <1>2, <2>2 DEF Uncut
  <2>5. UNCHANGED <<cState, cLast>>
    BY <1>0
  <2> QED BY <2>3, <2>4, <2>5 DEF Uncut
<1>5. Unrefused'
  <2> SUFFICES ASSUME Settled
               PROVE  /\ \A x \in inbox' : x.pkt.type # "nack"
                      /\ \A g \in Handler :
                            proc'[g].pc # "idle" /\ proc'[g].pkt.hw = Me => Plain(proc'[g].pkt)
    BY <1>0, <1>2 DEF Unrefused, Settled, Plain
  <2>1. /\ \A x \in inbox : x.pkt.type # "nack"
        /\ \A g \in Handler : proc[g].pc # "idle" /\ proc[g].pkt.hw = Me => Plain(proc[g].pkt)
    BY <1>0, <1>2 DEF Unrefused
  <2>2. /\ proc[h].pc # "idle"
        /\ \A g \in Handler \ {h} : proc'[g] = proc[g]
    BY <1>0, GoroutinePool, GoroutineProc
  <2>3. proc'[h].pc # "idle" => proc'[h].pkt = proc[h].pkt
    BY <1>0, GoroutineCid
  <2>4. cLast.ip \in Uip /\ cLast.ip \notin cut
    BY <1>0, <1>2, AddrsTyped DEF Settled, Uncut
  <2>5. PICK n \in Nat : n = cIface.addrs[cLast.ip] - PingTime /\ cIface.addrs[cLast.ip] > 0
    <3>1. cIface.addrs[cLast.ip] > 0 /\ cIface.addrs[cLast.ip] >= Remains
      BY <1>0, <1>2, <2>4 DEF Settled, Counted
    <3>2. cIface.addrs[cLast.ip] \in Nat /\ cWait \in Nat
      BY <1>0, <2>4, AddrsTyped DEF P!Typed, P!DClientTypeOK
    <3>3. Remains >= LeaseTime - ScriptTime - T1 /\ Remains \in Int
      BY <3>2, Times DEF Settled, Remains
    <3> QED BY <3>1, <3>2, <3>3, Times
  <2>6. HeldIn(m, now, cLast.ip, now + n)
    <3>1. cIface.addrs[cLast.ip] - PingTime - Lag = n
      BY <1>2, <2>5 DEF Lag
    <3>2. HeldFor(m, now, cLast.ip, cIface.addrs[cLast.ip] - PingTime - Lag)
      BY <2>4, <2>5 DEF HeldInv
    <3> QED BY <2>5, <3>1, <3>2 DEF HeldFor
  <2>7. ASSUME NEW x \in inbox' PROVE x.pkt.type # "nack"
    <3>1. CASE x \in inbox
      BY <2>1, <3>1
    <3>2. CASE x \notin inbox
      <4>1. reply' # nil /\ reply'.hw = Me /\ x.pkt.type = reply'.kind
        BY <1>3, <3>2
      <4>2. proc[h].pkt.hw = Me
        BY <1>0, <4>1, ReplyTo
      <4>3. Plain(proc[h].pkt)
        BY <2>1, <2>2, <4>2
      <4>4. ~Replies("nack")
        BY <1>0, <1>2, <2>6, <4>2, <4>3, NoRefusal
      <4> QED BY <4>1, <4>4 DEF Replies
    <3> QED BY <3>1, <3>2
  <2>8. ASSUME NEW g \in Handler, proc'[g].pc # "idle", proc'[g].pkt.hw = Me
        PROVE  Plain(proc'[g].pkt)
    BY <2>1, <2>2, <2>3, <2>8
  <2> QED BY <2>7, <2>8
<1> QED BY <1>4, <1>5

\* Time passes.
LEMMA TimeKept ==
    ASSUME LongLease, SidesInv, KeptInv, Time
    PROVE  Counted' /\ Unrefused' /\ Uncut' /\ Steady
<1>0. P!Typed /\ Counted /\ Unrefused /\ Uncut
  BY DEF SidesInv, KeptInv
<1>1. /\ C!Tick /\ UNCHANGED <<proc, cut>>
      /\ smooth' = (smooth /\ cPc # "reply" /\ ~Pending /\ inbox' = {} /\ late' = {})
  BY DEF Time, srvVars
<1> SUFFICES ASSUME smooth' PROVE Counted' /\ Unrefused' /\ Uncut' /\ Steady
  BY DEF Counted, Unrefused, Uncut, Steady
<1>2. /\ smooth /\ cPc \in {"sleep", "script", "ping"} /\ cWait > 0
      /\ UNCHANGED <<cState, cPc, cLast, cCancelled>> /\ cWait' = cWait - 1
      /\ cLeft'.t2 = C!Down(cLeft.t2)
      /\ cIface'.addrs = [ip \in Uip |-> C!Down(cIface.addrs[ip])]
  BY <1>0, <1>1 DEF C!Tick, C!Waiting, C!Iface, Counted
<1>3. Unrefused'
  BY <1>1 DEF Unrefused, Pending
<1>4. Uncut'
  BY <1>0, <1>1, <1>2 DEF Uncut
<1>5. /\ cPc = "sleep" => cState = "Bound"
      /\ cPc = "script" => cState \in {"Discovering", "Bound"}
      /\ cPc = "ping" => cState = "ArpCheck" /\ cWait <= PingTime
      /\ cWait \in Nat /\ cIface.addrs \in [Uip -> Nat]
  BY <1>0 DEF P!Typed, P!WaitsWhere, P!DClientTypeOK
\* An address has time left for as long as the client is to wait.
<1>6. ASSUME NEW ip \in Uip, cIface.addrs[ip] > 0
      PROVE  /\ cState \notin {"Discovering", "Selecting"} /\ ip = cLast.ip
             /\ cIface'.addrs[ip] > 0 /\ cIface'.addrs[ip] >= Remains'
  <2>1. cState \notin {"Discovering", "Selecting"} /\ ip = cLast.ip /\ cIface.addrs[ip] >= Remains
    BY <1>0, <1>2, <1>6 DEF Counted
  <2>2. cIface'.addrs[ip] = cIface.addrs[ip] - 1
    BY <1>2, <1>5, <1>6 DEF C!Down
  <2>3. cIface.addrs[ip] \in Nat
    BY <1>5
  <2>4. Remains' = Remains - 1 /\ Remains \in Int /\ Remains' > 0
    <3>1. CASE cPc = "sleep"
      BY <1>2, <1>5, <3>1, Times DEF Remains
    <3>2. CASE cPc = "script"
      BY <1>2, <1>5, <2>1, <3>2, Times DEF Remains
    <3>3. CASE cPc = "ping"
      <4>1. Pinged = PingTime - cWait /\ Pinged' = PingTime - (cWait - 1)
        BY <1>2, <3>3 DEF Pinged
      <4>2. Remains = LeaseTime - ScriptTime - T1 - Pinged
        BY <1>5, <3>3 DEF Remains
      <4>3. Remains' = LeaseTime - ScriptTime - T1 - Pinged'
        BY <1>2, <1>5, <3>3 DEF Remains
      <4> QED BY <1>2, <1>5, <3>3, <4>1, <4>2, <4>3, Times
    <3> QED BY <1>2, <3>1, <3>2, <3>3
  <2> QED BY <2>1, <2>2, <2>3, <2>4
<1>7. \A ip \in Uip : cIface'.addrs[ip] > 0 => cIface.addrs[ip] > 0
  BY <1>2, <1>5 DEF C!Down
<1>8. cState = "Bound" /\ cPc = "sleep" => cWait' <= T1 /\ cLeft'.t2 = T2 - T1 + cWait'
  <2> SUFFICES ASSUME cState = "Bound", cPc = "sleep"
               PROVE  cWait' <= T1 /\ cLeft'.t2 = T2 - T1 + cWait'
    OBVIOUS
  <2>1. cWait <= T1 /\ cLeft.t2 = T2 - T1 + cWait
    BY <1>0, <1>2 DEF Counted
  <2> QED BY <1>2, <1>5, <2>1, Times DEF C!Down
<1>9. cState \in {"Bound", "Renewing"} => cIface'.addrs[cLast.ip] > 0
  BY <1>0, <1>2, <1>6, AddrsTyped DEF Counted
<1>10. cState = "Bound" /\ cPc = "script" => cWait' <= ScriptTime
  BY <1>0, <1>2, <1>5, ClientAssumption DEF Counted
<1>11. Counted'
  <2>1. \A ip \in Uip : cIface'.addrs[ip] > 0 =>
           /\ cState' \notin {"Discovering", "Selecting"} /\ ip = cLast'.ip
           /\ cIface'.addrs[ip] >= Remains'
    BY <1>2, <1>6, <1>7
  <2>2. cState \notin {"PurgeInterface", "Rebinding", "Renewing"} /\ ~cCancelled
    BY <1>0, <1>2, <1>5 DEF Counted
  <2> QED BY <1>2, <1>8, <1>9, <1>10, <2>1, <2>2 DEF Counted
<1>12. Steady
  BY <1>6 DEF Steady
<1> QED BY <1>3, <1>4, <1>11, <1>12

\* The step AddressKept speaks of.
ClientKept ==
    LongLease /\ smooth /\ smooth' =>
        /\ \A ip \in Uip : cIface.addrs[ip] > 0 => cIface'.addrs[ip] > 0
        /\ cState' \notin {"PurgeInterface", "Rebinding"}

LEMMA KeptInvKeeps ==
    ASSUME DistinctIds, LongLease, SidesInv, NetInv, CidRight, HeldInv, KeptInv,
           [SystemNext]_systemVars, [BufferKept]_serverVars
    PROVE  KeptInv' /\ ClientKept
<1>0. OneDuid /\ Counted /\ Unrefused /\ Uncut /\ OneDuid'
  BY OneDuidKeeps DEF KeptInv
<1>1. ASSUME Counted', Unrefused', Uncut', Steady
      PROVE  KeptInv' /\ ClientKept
  BY <1>0, <1>1 DEF KeptInv, ClientKept, Counted, Steady
<1>2. CASE ClientRuns \/ ClientReads
  BY <1>1, <1>2, RunsKept, ReadsKept
<1>3. CASE \E h \in Handler : ServerReads(h) \/ ServerRuns(h)
  BY <1>1, <1>3, ServerReadsKept, ServerRunsKept
<1>4. CASE Time
  BY <1>1, <1>4, TimeKept
<1>5. CASE UNCHANGED <<clientVars, netVars, smooth, cut, proc>>
  <2>1. UNCHANGED <<cState, cPc, cWait, cLast, cLeft, cCancelled, cIface, inbox, late,
                    smooth, cut, proc>>
    BY <1>5 DEF clientVars, netVars
  <2>2. Counted' /\ Steady
    BY <1>0, <2>1 DEF Counted, Remains, Pinged, Steady
  <2>3. Unrefused' /\ Uncut'
    BY <1>0, <2>1 DEF Unrefused, Uncut, Settled, Plain
  <2> QED BY <1>1, <2>2, <2>3
<1>6. CASE ServerStarts \/ UNCHANGED systemVars
  BY <1>5, <1>6 DEF ServerStarts, systemVars, serverVars, srvVars
<1>7. CASE ClientCancelled \/ ClientResumes
  <2>1. ~smooth'
    BY <1>0, <1>7 DEF ClientCancelled, ClientResumes, C!ResumeClient, Counted
  <2> QED BY <1>1, <2>1 DEF Counted, Unrefused, Uncut, Steady
<1> QED BY <1>2, <1>3, <1>4, <1>6, <1>7 DEF SystemNext

\* If leases are long enough, an undisturbed client keeps every address it has and
\* never rebinds, while no identifier is overwritten in the receive buffer: for any
\* number of clients, goroutines and addresses, whatever times, whatever is lost,
\* delayed and repeated, and however long the callback script takes, up to
\* ScriptTime (dhcpstates.go:36-74, netio.go:83-139, callback.go:19).
THEOREM AddressIsKept ==
    ASSUME DistinctIds
    PROVE  SystemSafety /\ [][BufferKept]_serverVars => AddressKept
<1> DEFINE Inv == /\ SidesInv /\ NetInv /\ PromiseInv /\ ShortInv /\ HeldInv
                  /\ LongLease => KeptInv
<1>1. ASSUME Inv, [SystemNext]_systemVars, [BufferKept]_serverVars
      PROVE  Inv' /\ [ClientKept]_systemVars
  <2>1. PromiseInv' /\ CidRight
    BY <1>1, SystemSteps, PromiseInvKeeps DEF SidesInv, PromiseInv
  <2>2. (LongLease => KeptInv') /\ ClientKept
    <3>1. CASE LongLease
      BY <1>1, <2>1, <3>1, KeptInvKeeps
    <3>2. CASE ~LongLease
      BY <3>2 DEF ClientKept
    <3> QED BY <3>1, <3>2
  <2> QED
    BY <1>1, <2>1, <2>2, SidesInvKeeps, NetInvKeeps, ShortInvKeeps, HeldInvKeeps DEF LongLease
<1>2. SystemInit => Inv
  BY SystemInvInit, KeptInvInit
<1>3. ASSUME [][ClientKept]_systemVars PROVE AddressKept
  BY <1>3 DEF AddressKept, ClientKept
<1> QED
  BY <1>1, <1>2, <1>3, PTL DEF SystemSafety

\* That, too, is so if no client sends an identifier, or requests are handled one
\* at a time.
THEOREM SystemKeeps ==
    ASSUME DistinctIds, BufferSafe
    PROVE  SystemSafety => AddressKept
<1>1. ServerSafety => [][BufferKept]_serverVars
  BY ServerInvInit, ServerInvKeeps, NoCidInit, BufferSafeKeeps, PTL DEF ServerSafety
<1> QED
  BY <1>1, SystemHasServer, AddressIsKept, PTL
=============================================================================
