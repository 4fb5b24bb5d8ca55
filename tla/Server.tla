------------------------------- MODULE Server -------------------------------
(***************************************************************************)
(* The running server, lib/server/run.go, netio.go and utils.go.  Run      *)
(* reads packets into one buffer and starts a goroutine, handleMsg, for    *)
(* every DHCP request.  The goroutines meet in the address pool, each of   *)
(* whose methods they call in a critical section of its own: between two   *)
(* of them time passes, leases expire and other goroutines run.            *)
(*                                                                         *)
(* What a goroutine keeps of its packet is partly a copy and partly a      *)
(* slice of the buffer (dhcpmsg.Decode copies the header, and of an option *)
(* only its code).  Every later packet, DHCP or not, is read into the same *)
(* bytes.  DecodeOptions, at the start of the goroutine, copies all it     *)
(* needs but the client identifier, which stays a slice of the buffer for  *)
(* as long as the goroutine runs.  Reading a packet is therefore a data    *)
(* race with every running goroutine: what its options hold afterwards is  *)
(* what they held, what the new packet has in that place, or garbage.      *)
(*                                                                         *)
(* A packet is a record: type (of the message), hw (ClientMAC), cid (the   *)
(* client identifier, nil if there is none of at least four bytes), src    *)
(* and dst (IPv4 header), reqIP and sid (requested IP and server           *)
(* identifier, or nil).  dst and sid are only compared with the server's   *)
(* address: they are "self", "bcast" or "other".                           *)
(***************************************************************************)
EXTENDS ServerNew

CONSTANTS
    Handler,    \* bound: goroutines that run at the same time
    Packet,     \* requests clients send
    Garbage,    \* a client identifier no client sent
    Noise,      \* whether packets that are not for the server come in
    OfferTime,  \* 15 s, the lease of an offer
    LeaseTime   \* LeaseDuration, at least a minute

ASSUME TimeAssumption ==
    OfferTime \in Nat /\ LeaseTime \in Nat /\ OfferTime < LeaseTime

Request ==
    [type : {"discover", "request", "other"}, hw : Hw, cid : Duid \cup {nil}, src : Uip,
     dst : {"self", "bcast", "other"}, reqIP : Uip \cup {nil},
     sid : {"self", "other", nil}]

ASSUME PacketAssumption == Packet \subseteq Request
ASSUME GarbageAssumption == Garbage \in Duid \ {nil}

VARIABLES
    proc,     \* the goroutines
    reply,    \* the reply the last step sent, or nil
    promise,  \* what the last offer or acknowledgement to a client granted
    acked     \* the acknowledged lease a client relies on

srvVars == <<proc, reply, promise, acked>>
serverVars == <<ipdbVars, newVars, srvVars>>

Idle == [pc |-> "idle", pkt |-> nil, byCid |-> FALSE, cid |-> nil, ip |-> nil]

ServerInit ==
    /\ NewInit
    /\ proc = [h \in Handler |-> Idle]
    /\ reply = nil
    /\ promise = [hw \in Hw |-> nil]
    /\ acked = [hw \in Hw |-> nil]

-----------------------------------------------------------------------------
(***************************************************************************)
(* The receive loop.                                                       *)
(***************************************************************************)
\* What option content c may read as after the buffer was overwritten with a
\* packet that has q in its place.  The presence of an option does not change.
Clobbered(c, q, junk, how) ==
    CASE c = nil \/ how = "kept" -> c
      [] c # nil /\ how = "new" /\ q # nil -> q
      [] OTHER -> junk

\* Goroutine g after q was read.  Options it has decoded are copies.
Overwrite(g, q, how) ==
    CASE g.pc = "idle" -> g
      [] g.pc = "start" ->
            [g EXCEPT !.pkt.type = Clobbered(@, q.type, "other", how),
                      !.pkt.reqIP = Clobbered(@, q.reqIP, 0, how),
                      !.pkt.sid = Clobbered(@, q.sid, "other", how),
                      !.cid = Clobbered(@, q.cid, Garbage, how)]
      [] OTHER -> [g EXCEPT !.cid = Clobbered(@, q.cid, Garbage, how)]

How == [Handler -> {"kept", "new", "garbage"}]

\* Run reads a request and starts a goroutine for it.  A client that asks for
\* a new address no longer relies on its old one.
Receive(h, p) ==
    /\ status = "up"
    /\ proc[h].pc = "idle"
    /\ \E how \in How :
          proc' = [g \in Handler |->
                     IF g = h
                     THEN [Idle EXCEPT !.pc = "start", !.pkt = p, !.cid = p.cid]
                     ELSE Overwrite(proc[g], p, how[g])]
    /\ acked' = IF p.type = "discover" THEN [acked EXCEPT ![p.hw] = nil] ELSE acked
    /\ reply' = nil
    /\ UNCHANGED <<poolVars, search, found, newVars, promise>>

\* Run reads a packet that is not a DHCP request: it is skipped.
ReceiveOther ==
    /\ Noise
    /\ status = "up"
    /\ \E how \in [Handler -> {"kept", "garbage"}] :
          proc' = [g \in Handler |->
                     Overwrite(proc[g], [type |-> nil, reqIP |-> nil, sid |-> nil,
                                         cid |-> nil], how[g])]
    /\ reply' = nil
    /\ UNCHANGED <<poolVars, search, found, newVars, promise, acked>>

\* The context is cancelled and the socket closed: Run returns.
RunReturns ==
    /\ cancelled
    /\ status = "up"
    /\ status' = "down"
    /\ reply' = nil
    /\ UNCHANGED <<poolVars, search, found, conf, todo, overrides, proc, promise, acked>>
-----------------------------------------------------------------------------
(***************************************************************************)
(* The goroutines.                                                         *)
(***************************************************************************)
\* d.Duid(cid) is the slice of the buffer, not a copy of it.
duid(h) == IF proc[h].byCid THEN proc[h].cid ELSE hwDuid[proc[h].pkt.hw]

\* The goroutine returns without a reply.
Drop(h) ==
    /\ proc' = [proc EXCEPT ![h] = Idle]
    /\ reply' = nil
    /\ UNCHANGED <<promise, acked>>

Goto(h, pc, ip) ==
    /\ proc' = [proc EXCEPT ![h].pc = pc, ![h].ip = ip]
    /\ reply' = nil
    /\ UNCHANGED <<promise, acked>>

sendNACK(h) ==
    /\ proc' = [proc EXCEPT ![h] = Idle]
    /\ reply' = [kind |-> "nack", hw |-> proc[h].pkt.hw, ip |-> nil]
    /\ acked' = [acked EXCEPT ![proc[h].pkt.hw] = nil]
    /\ UNCHANGED promise

\* sendMsg, to a client whose lease ends at until.
sendMsg(h, kind, until) ==
    LET hw == proc[h].pkt.hw
        l  == [ip |-> proc[h].ip, until |-> until]
    IN  /\ proc' = [proc EXCEPT ![h] = Idle]
        /\ reply' = [kind |-> kind, hw |-> hw, ip |-> proc[h].ip]
        /\ promise' = [promise EXCEPT ![hw] = l]
        /\ acked' = IF kind = "ack" THEN [acked EXCEPT ![hw] = l] ELSE acked

UpdateAndSendAnyway(h, kind, ttl) ==
    /\ UpdateClient(proc[h].ip, duid(h), ttl)
    /\ sendMsg(h, kind, now + ttl)
    /\ UNCHANGED newVars

\* UpdateClient, and the reply if it returned no error.
UpdateAndSend(h, kind, ttl) ==
    /\ UpdateClient(proc[h].ip, duid(h), ttl)
    /\ IF UpdateTable(m, now, proc[h].ip, duid(h), ttl).ok
       THEN sendMsg(h, kind, now + ttl)
       ELSE Drop(h)
    /\ UNCHANGED newVars

\* DecodeOptions and getDuid, then the first checks.
handleMsg(h) ==
    LET p     == proc[h].pkt
        sduid == hwDuid[p.hw]
        next  == IF p.hw = SelfHw \/ p.reqIP = SelfIP THEN "idle" ELSE p.type
    IN  /\ proc[h].pc = "start"
        /\ LookupClientByDuid(sduid)
        /\ proc' = [proc EXCEPT ![h] =
                      IF next \in {"discover", "request"}
                      THEN [@ EXCEPT !.pc = next,
                                     !.byCid = Entry(m, now, sduid) = nil
                                                /\ proc[h].cid # nil]
                      ELSE Idle]
        /\ reply' = nil
        /\ UNCHANGED <<newVars, promise, acked>>

AfterFindIPGone(h) ==
    CASE search'.phase = "searching" -> Drop(h)
      [] search'.phase = "idle" /\ found'.ok -> Goto(h, "offer", found'.ip)
      [] search'.phase = "idle" /\ ~found'.ok -> Drop(h)

\* What handleDiscover does with the result of FindIP, if it has returned.
AfterFindIP(h) ==
    CASE search'.phase = "searching" -> Goto(h, "search", nil)
      [] search'.phase = "idle" /\ found'.ok -> Goto(h, "offer", found'.ip)
      [] search'.phase = "idle" /\ ~found'.ok -> Drop(h)

\* handleDiscover, up to and including the call of FindIP.
handleDiscover(h) ==
    LET p == proc[h].pkt
    IN  /\ proc[h].pc = "discover"
        /\ \/ /\ ~(p.dst = "bcast" /\ p.sid = nil)
              /\ Drop(h)
              /\ UNCHANGED <<poolVars, search, found>>
           \/ /\ p.dst = "bcast" /\ p.sid = nil
              /\ FindIP(IF p.reqIP = nil THEN 0 ELSE p.reqIP, duid(h))
              /\ AfterFindIP(h)
        /\ UNCHANGED newVars

\* FindIP goes on with its search; arpVerify answers free or not.
searchIP(h) ==
    /\ proc[h].pc = "search"
    /\ Searching
    /\ AfterFindIP(h)
    /\ UNCHANGED newVars

\* The rest of handleDiscover.
sendOffer(h) == proc[h].pc = "offer" /\ UpdateAndSend(h, "offer", OfferTime)

\* The four kinds of request of handleRequest, and the address each is about.
DesiredIP(p) ==
    CASE p.dst = "bcast" /\ p.sid = nil /\ p.reqIP # nil -> p.reqIP     \* INIT-REBOOT
      [] p.dst = "bcast" /\ p.sid = "self" /\ p.reqIP # nil -> p.reqIP  \* SELECTING
      [] p.dst = "self" /\ p.sid = nil /\ p.reqIP = nil -> p.src        \* RENEWING
      [] p.dst = "bcast" /\ p.sid = nil /\ p.reqIP = nil -> p.src       \* REBINDING
      [] OTHER -> nil

\* handleRequest, up to and including the call of LookupClientByDuid.
handleRequest(h) ==
    LET ip    == DesiredIP(proc[h].pkt)
        lease == Entry(m, now, duid(h))
    IN  /\ proc[h].pc = "request"
        /\ \/ /\ ~(ip # nil /\ InManagedRange(ip))
              /\ Drop(h)
              /\ UNCHANGED <<poolVars, search, found>>
           \/ /\ ip # nil /\ InManagedRange(ip)
              /\ LookupClientByDuid(duid(h))
              /\ \/ /\ ~(lease # nil /\ lease.ip = ip)
                    /\ sendNACK(h)
                 \/ /\ lease # nil /\ lease.ip = ip
                    /\ Goto(h, "arp", ip)
        /\ UNCHANGED newVars

\* arpVerify of the leased address, outside of any critical section.
arpVerify(h, free) ==
    /\ proc[h].pc = "arp"
    /\ IF free THEN Goto(h, "ack", proc[h].ip) ELSE sendNACK(h)
    /\ UNCHANGED <<poolVars, search, found, newVars>>

\* The rest of handleRequest.
sendAck(h) == proc[h].pc = "ack" /\ UpdateAndSend(h, "ack", LeaseTime)

Goroutine(h) ==
    \/ handleMsg(h)
    \/ handleDiscover(h)
    \/ searchIP(h)
    \/ sendOffer(h)
    \/ handleRequest(h)
    \/ \E free \in BOOLEAN : arpVerify(h, free)
    \/ sendAck(h)

ServerNext ==
    \/ ConfigStep /\ UNCHANGED <<now, cancelled, srvVars>>
    \/ \E h \in Handler, p \in Packet : Receive(h, p) /\ UNCHANGED <<now, cancelled>>
    \/ ReceiveOther /\ UNCHANGED <<now, cancelled>>
    \/ RunReturns /\ UNCHANGED <<now, cancelled>>
    \/ \E h \in Handler : Goroutine(h) /\ UNCHANGED <<now, cancelled>>
    \/ Tick /\ UNCHANGED <<poolVars, search, found, cancelled, newVars, srvVars>>
    \/ Cancel /\ UNCHANGED <<newVars, srvVars>>

ServerSafety == ServerInit /\ [][ServerNext]_serverVars
-----------------------------------------------------------------------------
(***************************************************************************)
(* Properties.                                                             *)
(***************************************************************************)
ServerTypeOK ==
    /\ IPDBTypeOK
    /\ conf \in Config /\ todo \subseteq conf.client /\ overrides \subseteq Duid
    /\ status \in {"range", "mode", "clients", "up", "failed", "down"}
    /\ \A h \in Handler :
          /\ proc[h].pc \in {"idle", "start", "discover", "search", "offer",
                             "request", "arp", "ack"}
          /\ proc[h].cid \in Duid \cup {nil}
          /\ proc[h].pc \in {"offer", "arp", "ack"} => proc[h].ip \in Uip
    \* The mutex of the pool is held by the goroutine that searches.
    /\ search.phase = "searching" <=> \E h \in Handler : proc[h].pc = "search"

Relies(p, hw) == p[hw] # nil /\ now <= p[hw].until

\* The DUIDs a client is known by: one for its hardware address, and the client
\* identifiers it sends.
DuidsOf(hw) == {hwDuid[hw]} \cup {p.cid : p \in {p \in Packet : p.hw = hw /\ p.cid # nil}}

\* The table holds the lease l of a client, at least until its end.
Recorded(hw, l) ==
    \E d \in DuidsOf(hw) :
        LET c == Entry(m, now, d)
        IN  c # nil /\ c.ip = l.ip /\ (c.permanent \/ c.leasedUntil >= l.until)

\* While the lease of an offer or an acknowledgement lasts, no other client is
\* offered or acknowledged its address, whatever goroutines did between the
\* lookup, the ARP check and the update of each (netio.go:58-63, 116-132), and
\* a goroutine whose lease was lost in the meantime sends nothing.
NoDoublePromise ==
    \A g, h \in Hw :
        g # h /\ Relies(promise, g) /\ Relies(promise, h) =>
            promise[g].ip # promise[h].ip

\* What the server promised last it still knows: the lease is in the table,
\* under a DUID of the client, at least until its end.
PromiseKept == \A hw \in Hw : Relies(promise, hw) => Recorded(hw, promise[hw])

StaticIP(hw) == {e.ip : e \in {e \in conf.client : e.hw = hw /\ OverrideIP(e) # nil}}

\* An address is only offered or acknowledged to a client it may go to: a
\* static one to its own client, the server's own to none, and any other only
\* if it is managed, no network or broadcast address, and static_only is off.
ReplyAllowed ==
    reply # nil /\ reply.ip # nil =>
        /\ reply.ip # SelfIP
        /\ \A hw \in Hw : reply.ip \in StaticIP(hw) => reply.hw = hw
        /\ reply.ip \notin StaticIP(reply.hw) =>
              InManagedRange(reply.ip) /\ Valid(reply.ip) /\ ~conf.staticOnly

\* "Validity of leases" (config.proto:11), "Duration of the announced lease"
\* (leaseopts.go:19): the server keeps an acknowledged lease for its duration,
\* unless the client has since asked for a new address or was refused.
AckedLeaseKept == \A hw \in Hw : Relies(acked, hw) => Recorded(hw, acked[hw])
=============================================================================
