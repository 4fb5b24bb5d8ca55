------------------------------- MODULE System -------------------------------
(***************************************************************************)
(* A client, a server and the network between them: the state machine of   *)
(* DClient with the requests of lib/client/msgtmpl, and Server with its    *)
(* replies.  Other clients of the server send any packet of Packet at any  *)
(* time.                                                                   *)
(*                                                                         *)
(* The network loses, duplicates, delays and reorders.  A request is sent  *)
(* again and again while the client waits for its reply; afterwards it may *)
(* be under way for Transit more ticks, and so may a reply once it is      *)
(* sent.  A reply that is never read is lost.  What belongs to the current *)
(* exchange has the xid "cur", all else "old".  Whether anybody answers an *)
(* ARP ping is left open.                                                  *)
(*                                                                         *)
(* The client's calls may fail, its callback script and its pings take     *)
(* time, and its context may be cancelled and replaced at any moment.  It  *)
(* starts on an interface without addresses, and when it has used up its   *)
(* tokens it is not followed any further.                                  *)
(*                                                                         *)
(* Module Wire shows that the packets of this module, records of what the  *)
(* receiver decodes, are what the senders mean.                            *)
(***************************************************************************)
EXTENDS Server

CONSTANTS
    Me,      \* the hardware address of the client
    MyCid,   \* and its client identifier
    Transit, \* the most ticks a reply is under way
    \* The times and bounds of DClient.
    Minute, DiscoverTime, SelectTime, ResetTime, ResumeTime, ScriptTime, PingTime,
    Burst, Refill, DefaultRoute, Alias, MaxFaults

ASSUME MeAssumption == Me \in Hw \ {SelfHw}
ASSUME ClientAssumption ==
    /\ Transit \in Nat
    /\ {Minute, DiscoverTime, SelectTime, ResetTime, ResumeTime} \subseteq Nat \ {0}
    /\ DefaultRoute \in BOOLEAN /\ Alias \in BOOLEAN
    /\ ScriptTime \in Nat /\ PingTime \in Nat /\ MaxFaults \in Nat
    /\ Burst \in Nat \ {0} /\ Refill \in Nat

VARIABLES
    cState, cPc, cWait, cLast, cLeft, cTokens, cCancelled, cIface, cFaults, cDirty,
    cGranted, cChecked, cCalm,  \* those of DClient
    inbox,    \* replies to the client under way, with the ticks they have left
    late,     \* requests of earlier exchanges under way, likewise
    answers,  \* the goroutines that answer the current request
    smooth,   \* since its last reset the client was not disturbed, nor a request slow
    cut       \* addresses offered to the client since they were last acknowledged to it

clientVars == <<cState, cPc, cWait, cLast, cLeft, cTokens, cCancelled, cIface, cFaults,
                cDirty, cGranted, cChecked, cCalm>>
netVars == <<inbox, late, answers>>
systemVars == <<serverVars, clientVars, netVars, smooth, cut>>

\* A reply as the client reads it.  The lease announced is always LeaseTime.
ReplyMsg(kind, ip, xid) ==
    [type |-> kind, xid |-> xid, ip |-> ip, sid |-> "self", router |-> "router",
     dns |-> FALSE, mtu |-> 0, lease |-> IF kind = "nack" THEN 0 ELSE LeaseTime,
     renew |-> 0, rebind |-> 0]

ClientMsg ==
    {ReplyMsg(kind, ip, xid) : kind \in {"offer", "ack", "nack"},
                               ip \in Uip \cup {nil}, xid \in {"cur", "old"}}

C == INSTANCE DClient WITH
        IP <- Uip, Server <- {"self"}, Router <- {"router"}, Msg <- ClientMsg,
        state <- cState, pc <- cPc, wait <- cWait, last <- cLast, left <- cLeft,
        tokens <- cTokens, cancelled <- cCancelled, iface <- cIface, faults <- cFaults,
        dirty <- cDirty, granted <- cGranted, checked <- cChecked, calm <- cCalm

SystemInit ==
    /\ ServerInit
    /\ C!DClientInit /\ cIface.addrs = C!NoAddrs /\ cIface.route = nil
    /\ inbox = {} /\ late = {} /\ answers = {}
    /\ smooth = FALSE /\ cut = {}
-----------------------------------------------------------------------------
(***************************************************************************)
(* The requests of the client.                                             *)
(***************************************************************************)
request(type, src, dst, reqIP, sid) ==
    [type |-> type, hw |-> Me, cid |-> MyCid, src |-> src, dst |-> dst,
     reqIP |-> reqIP, sid |-> sid]

Discover == request("discover", 0, "bcast", nil, nil)

RequestSelecting == request("request", 0, "bcast", cLast.ip, cLast.sid)

RequestRenewingAsSelecting == request("request", cLast.ip, cLast.sid, cLast.ip, cLast.sid)

RequestRenewing == request("request", cLast.ip, cLast.sid, nil, nil)

RequestRebinding == request("request", cLast.ip, "bcast", nil, nil)

\* All it may ever send.
MyRequests ==
    {Discover}
        \cup {request("request", 0, "bcast", ip, "self") : ip \in Uip}
        \cup {request("request", ip, dst, nil, nil) : ip \in Uip, dst \in {"self", "bcast"}}

ASSUME MyRequestsAssumption == MyRequests \subseteq Packet
ASSUME AddressAssumption == nil \notin Uip
ASSUME ReplyAssumption ==
    /\ nil \notin ClientMsg
    /\ nil \notin [kind : {"offer", "ack", "nack"}, hw : Hw, ip : Uip \cup {nil}]

\* What sendMessage sends while the client waits.
Sending ==
    CASE cState = "Discovering" -> Discover
      [] cState = "Selecting" -> RequestSelecting
      [] cState = "Renewing" -> RequestRenewing
      [] cState = "Rebinding" -> RequestRebinding
-----------------------------------------------------------------------------
\* What has just been sent.
Sent(p) == [pkt |-> p, ttl |-> Transit]

\* What is still under way after a tick.
Aged(sent) == {[pkt |-> x.pkt, ttl |-> x.ttl - 1] : x \in {y \in sent : y.ttl > 0}}

\* A step of the client that ends an exchange: all that is under way is late.
Exchange ==
    IF cPc = "reply" /\ cPc' # "reply"
    THEN /\ late' = late \cup {Sent(Sending)}
         /\ inbox' = {[pkt |-> ReplyMsg(x.pkt.type, x.pkt.ip, "old"), ttl |-> x.ttl] : x \in inbox}
         /\ answers' = {}
    ELSE UNCHANGED netVars

\* The client goes on; the host that answers a ping may be another one.
ClientRuns ==
    /\ C!Step \/ \E used \in BOOLEAN : C!PingAnswered(used)
    /\ Exchange
    /\ smooth' = /\ smooth \/ (cState = "PurgeInterface" /\ cPc = "loop")
                 /\ cPc' # "reset" /\ cFaults' = cFaults /\ ~cCancelled
    /\ UNCHANGED <<serverVars, cut>>

ClientReads ==
    /\ \E x \in inbox : C!catchReply(x.pkt)
    /\ Exchange
    /\ UNCHANGED <<serverVars, smooth, cut>>

\* The context of the client is cancelled, and replaced.
ClientCancelled ==
    /\ C!Cancel
    /\ smooth' = FALSE
    /\ UNCHANGED <<serverVars, netVars, cut>>

ClientResumes ==
    /\ \E ctxDone \in BOOLEAN : C!ResumeClient(ctxDone)
    /\ UNCHANGED <<serverVars, netVars, smooth, cut>>

\* The server reads a request of the client, of this exchange or an earlier one,
\* or a packet of another client.
ServerReads(h) ==
    /\ \/ /\ cPc = "reply"
          /\ Receive(h, Sending)
          /\ answers' = answers \cup {h}
       \/ \E x \in late :
          /\ Receive(h, x.pkt)
          /\ answers' = answers \ {h}
       \/ \E p \in Packet :
          /\ p.hw # Me
          /\ Receive(h, p)
          /\ answers' = answers \ {h}
    /\ UNCHANGED <<now, cancelled, clientVars, inbox, late, smooth, cut>>

\* The server sends the client a reply of this kind.
Replies(kind) == reply' # nil /\ reply'.hw = Me /\ reply'.kind = kind

\* The server offers the client the address it asks for or has after it
\* acknowledged that.
LateOffer ==
    /\ Replies("offer") /\ cState # "Discovering"
    /\ cLast # nil /\ reply'.ip = cLast.ip /\ reply'.ip \notin cut

\* The ARP check finds another host with the address the client asks for.
InUse(h) == proc[h].pc = "arp" /\ proc[h].pkt.hw = Me /\ proc'[h].pc # "ack"

ServerRuns(h) ==
    /\ Goroutine(h)
    /\ inbox' = IF reply' # nil /\ reply'.hw = Me
                THEN inbox \cup {Sent(ReplyMsg(reply'.kind, reply'.ip,
                                               IF h \in answers THEN "cur" ELSE "old"))}
                ELSE inbox
    /\ smooth' = (smooth /\ ~InUse(h) /\ ~LateOffer)
    /\ cut' = CASE Replies("offer") -> cut \cup {reply'.ip}
                [] Replies("ack") -> cut \ {reply'.ip}
                [] OTHER -> cut
    /\ UNCHANGED <<now, cancelled, clientVars, late, answers>>

\* A goroutine works on a request of the client.
Pending == \E h \in Handler : proc[h].pc # "idle" /\ proc[h].pkt.hw = Me

\* Time passes, at both ends and for what is under way, unless all that is lost.
Time ==
    /\ Tick /\ C!Tick
    /\ \/ inbox' = Aged(inbox) /\ late' = Aged(late)
       \/ inbox' = {} /\ late' = {}
    /\ smooth' = (smooth /\ cPc # "reply" /\ ~Pending /\ inbox' = {} /\ late' = {})
    /\ UNCHANGED <<poolVars, search, found, cancelled, newVars, srvVars, answers, cut>>

ServerStarts == ConfigStep /\ UNCHANGED <<now, cancelled, srvVars, clientVars, netVars,
                                            smooth, cut>>

SystemNext ==
    \/ ClientRuns \/ ClientReads \/ ClientCancelled \/ ClientResumes
    \/ \E h \in Handler : ServerReads(h) \/ ServerRuns(h)
    \/ Time \/ ServerStarts

SystemSafety == SystemInit /\ [][SystemNext]_systemVars
-----------------------------------------------------------------------------
(***************************************************************************)
(* Properties.                                                             *)
(***************************************************************************)
\* How much later than the server the client counts its lease: the server from
\* before it sends the acknowledgement (netio.go:132), the client from SetIface,
\* after the reply was under way and the ARP ping was over (libif.go:125,
\* sysstates.go:43).
Delay == Transit + PingTime

\* No other client is offered or acknowledged an address the client has
\* configured for longer than that delay, even if ARP answers are lost and
\* whatever else is lost, delayed or repeated: the lifetime the client gives an
\* address exceeds the lease the server keeps by at most Delay, however its calls
\* fail and its context is cancelled.  Only an address that was offered again
\* after its acknowledgement is excepted: such an offer cuts the lease short
\* (netio.go:63).
NoConflict ==
    \A ip \in Uip \ cut, hw \in Hw \ {Me} :
        cIface.addrs[ip] > 0 /\ cIface.addrs[ip] >= Delay =>
            ~(Relies(promise, hw) /\ promise[hw].ip = ip)

\* Long enough for the renewal to be due before the lease is to be rebound, and
\* done before the address expires although the time to it is only counted when
\* the callback script has ended (dhcpstates.go:39).
LongLease == LeaseTime >= 3 /\ PingTime + ScriptTime + LeaseTime \div 2 < LeaseTime

\* If leases are long enough, a client whose requests are handled and answered
\* within a tick, on which no call fails, which is not cancelled, for whose
\* address no ARP check finds another host, and which is not offered it again
\* after its acknowledgement, keeps every address it has and never rebinds: no
\* other client, no repeated or late request, no late reply, not even a NACK that
\* counts whatever its xid (dhcpstates.go:36-74), makes it lose the lease.  With
\* a lease of one or two minutes and a script that runs for a minute
\* (callback.go:19) it would.
AddressKept ==
    [][LongLease /\ smooth /\ smooth' =>
         /\ \A ip \in Uip : cIface.addrs[ip] > 0 => cIface'.addrs[ip] > 0
         /\ cState' \notin {"PurgeInterface", "Rebinding"}]_systemVars

\* A goroutine that works on the current request of a client that selects,
\* renews or rebinds ends with a reply to that client: each request is one of
\* the four kinds handleRequest tells apart by destination and options
\* (tmpl.go:35-67, netio.go:83-104), for an address the server manages, and a
\* lease that expires between its lookup and its update is taken up again.  That
\* is so while one goroutine runs at a time: where others may give the address
\* away between lookup and update, the request is dropped (netio.go:133).
RequestAnswered ==
    [][\A h \in Handler :
         /\ h \in answers /\ cState # "Discovering"
         /\ proc[h].pc # "idle" /\ proc'[h].pc = "idle"
         => reply' # nil /\ reply'.hw = Me]_systemVars
=============================================================================
