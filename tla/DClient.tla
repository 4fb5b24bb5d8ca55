------------------------------- MODULE DClient -------------------------------
(***************************************************************************)
(* The DHCP client's state machine, lib/client/dclient, with the checks of *)
(* lib/client/verify and what it does to the interface (lib/libif).  Run   *)
(* executes one state after the other until its context is cancelled;      *)
(* ResumeClient starts it again under a new context.                       *)
(*                                                                         *)
(* The network is not trusted to do anything: while the client waits for a *)
(* reply any message of Msg may come in, in any order and any number of    *)
(* times.  A message carries the xid of the request the client waits for   *)
(* ("cur") or another one ("old"); an address that is absent, 0.0.0.0 or   *)
(* broadcast is nil, router is the first of its routers, an mtu of 0 means *)
(* there is none, and dns tells whether it names name servers.             *)
(*                                                                         *)
(* Time is counted in ticks and deadlines as the time left to them.  Only  *)
(* waiting takes time, and a deadline that has come ends the wait before   *)
(* the next tick.  The kernel removes an address when the lifetime         *)
(* SetIface gave it is over, and the route with the last address of the    *)
(* interface.  At the start there may be an address and a route of an      *)
(* earlier run.                                                            *)
(***************************************************************************)
EXTENDS Naturals, FiniteSetsExt

CONSTANTS
    IP,           \* addresses servers hand out
    Server,       \* server identifiers
    Router,       \* routers they name
    Msg,          \* messages that may come in
    nil,          \* no message, no address
    Minute,       \* the shortest lease the client accepts
    DiscoverTime, \* 10 minutes
    SelectTime,   \* a minute
    ResetTime,    \* 30 s, the pause of panicReset
    ResumeTime,   \* 5 s, what ResumeClient allows for a rebind
    ScriptTime,   \* the longest run of the callback script, at most a minute
    PingTime,     \* 200 ms, how long an ARP ping waits for an answer
    Burst,        \* 10, the tokens of the limiter
    Refill,       \* tokens it gets back in a tick
    DefaultRoute, \* the flag -default_route
    Alias,        \* the interface has an address of another label (ethX:N)
    MaxFaults     \* bound: system calls that fail

ASSUME ClientTimeAssumption ==
    /\ {Minute, DiscoverTime, SelectTime, ResetTime, ResumeTime} \subseteq Nat \ {0}
    /\ DefaultRoute \in BOOLEAN /\ Alias \in BOOLEAN
    /\ ScriptTime \in Nat /\ PingTime \in Nat /\ MaxFaults \in Nat
    /\ Burst \in Nat \ {0} /\ Refill \in Nat
ASSUME MsgAssumption ==
    Msg \subseteq [type : {"offer", "ack", "nack", "other"}, xid : {"cur", "old"},
                   ip : IP \cup {nil}, sid : Server \cup {nil}, router : Router \cup {nil},
                   dns : BOOLEAN, mtu : Nat,
                   lease : Nat, renew : Nat, rebind : Nat]
ASSUME NoMsgAssumption == nil \notin Msg

VARIABLES
    state,      \* dx.state
    pc,         \* where Run is
    wait,       \* time left of what it waits for
    last,       \* dx.lastMsg and dx.lastOpts
    left,       \* dx.boundDeadlines
    tokens,     \* of dx.limiter
    cancelled,  \* dx.ctx.Err() # nil
    iface,      \* the interface: the lifetime left of every address on it (0: none),
                \* the default route through it, its MTU
    faults,     \* system calls that have failed
    dirty,      \* the last Unconfigure has failed, or there was none yet
    granted,    \* time left of the lease a server acknowledged for an address
    checked,    \* an ARP check of the accepted address has run to its end
    calm        \* no NACK has come in and the client was never cancelled

machine == <<state, pc, wait, last, left>>
history == <<granted, checked, calm>>
sys == <<iface, faults, dirty>>
dclientVars == <<machine, tokens, cancelled, sys, history>>

Waiting == {"reply", "sleep", "reset", "script", "ping"}

NoAddrs == [ip \in IP |-> 0]

DClientInit ==
    /\ state = "PurgeInterface"
    /\ pc = "loop"
    /\ wait = 0
    /\ last = nil
    /\ left = [t1 |-> 0, t2 |-> 0, tx |-> 0]
    /\ tokens = Burst
    /\ cancelled = FALSE
    /\ \E old \in [IP -> {0, Minute}] :
          /\ iface \in [addrs : {old}, route : Router \cup {nil}, mtu : {0}]
          /\ granted = old
    /\ faults = 0 /\ dirty = TRUE
    /\ checked = FALSE
    /\ calm = TRUE
-----------------------------------------------------------------------------
(***************************************************************************)
(* lib/client/verify: what the client makes of a message.                  *)
(***************************************************************************)
\* Mutants, here and below: plausible mistakes, each of which breaks a property.
verifyCommonAnyXid(m) ==
    m.router # nil /\ m.ip # nil /\ m.sid # nil /\ m.lease >= Minute

verifyCommon(m) ==
    /\ m.xid = "cur"
    /\ m.router # nil /\ m.ip # nil /\ m.sid # nil
    /\ m.lease >= Minute

VerifyOffer(m) == IF m.type = "offer" /\ verifyCommon(m) THEN "Passed" ELSE "Failed"

verifyGenAckAnyIP(m, vrfysi) ==
    CASE m.type = "nack" -> "IsNack"
      [] /\ m.type = "ack"
         /\ vrfysi => m.sid = last.sid
         /\ verifyCommon(m) -> "Passed"
      [] OTHER -> "Failed"

\* A NACK counts whatever its xid, its address and its server are.
verifyGenAck(m, vrfysi) ==
    CASE m.type = "nack" -> "IsNack"
      [] /\ m.type = "ack" /\ m.ip = last.ip
         /\ vrfysi => m.sid = last.sid
         /\ verifyCommon(m) -> "Passed"
      [] OTHER -> "Failed"

\* The check each state hands to advanceState.
verify(m) ==
    CASE state = "Discovering" -> VerifyOffer(m)
      [] state \in {"Selecting", "Renewing"} -> verifyGenAck(m, TRUE)
      [] state = "Rebinding" -> verifyGenAck(m, FALSE)
-----------------------------------------------------------------------------
(***************************************************************************)
(* The states.  A state is left through pc = "end", the end of the loop.   *)
(***************************************************************************)
\* A system call fails.
Fault == faults < MaxFaults /\ faults' = faults + 1

\* The kernel: without any address there is no route.
Kernel(addrs, route) == IF Alias \/ addrs # NoAddrs THEN route ELSE nil

Iface(addrs, route, mtu) == [addrs |-> addrs, route |-> route, mtu |-> mtu]

\* libif.Unconfigure without errors.
Unconfigured(i) == Iface(NoAddrs, nil, i.mtu)

\* What it leaves when AddrList, an AddrDel (whose error is ignored), RouteList
\* or RouteDel fails.
UnconfigureFails(i) ==
    {i, Iface(NoAddrs, Kernel(NoAddrs, i.route), i.mtu)}
        \cup {Iface([NoAddrs EXCEPT ![ip] = i.addrs[ip]], nil, i.mtu) : ip \in IP}

\* Its errors are logged or ignored.
Unconfigure ==
    \/ iface' = Unconfigured(iface) /\ dirty' = FALSE /\ UNCHANGED faults
    \/ iface' \in UnconfigureFails(iface) /\ dirty' = TRUE /\ Fault

\* Up, whose errors are logged, is left out: whether the link is up is MClient's.
runStatePurgeInterface ==
    /\ pc = "loop" /\ state = "PurgeInterface"
    /\ Unconfigure
    /\ state' = "Discovering"
    /\ pc' = "script" /\ wait' = ScriptTime
    /\ UNCHANGED <<last, left, tokens, cancelled, history>>

\* The callback script exits, or is killed when its time is over or the
\* context is cancelled.
runPostCallback ==
    /\ pc = "script"
    /\ pc' = "end" /\ wait' = 0
    /\ UNCHANGED <<state, last, left, tokens, cancelled, sys, history>>

\* How long a state waits for its reply.
Deadline ==
    CASE state = "Discovering" -> DiscoverTime
      [] state = "Selecting" -> SelectTime
      [] state = "Renewing" -> left.t2
      [] state = "Rebinding" -> left.tx

\* advanceState: a request is sent, again and again, until a reply is caught.
advanceState ==
    /\ pc = "loop" /\ state \in {"Discovering", "Selecting", "Renewing", "Rebinding"}
    /\ pc' = "reply" /\ wait' = Deadline
    /\ UNCHANGED <<state, last, left, tokens, cancelled, sys, history>>

NextState ==
    CASE state = "Discovering" -> "Selecting"
      [] state \in {"Selecting", "Renewing", "Rebinding"} -> "ArpCheck"

NackState == IF state = "Selecting" THEN "Discovering" ELSE "PurgeInterface"

FailState ==
    CASE state \in {"Discovering", "Selecting"} -> "Discovering"
      [] state = "Renewing" -> "Rebinding"
      [] state = "Rebinding" -> "PurgeInterface"

\* A message that fails the check is ignored.
catchReply(m) ==
    /\ pc = "reply"
    /\ pc' = "end" /\ wait' = 0
    /\ \/ /\ verify(m) = "Passed"
          /\ last' = m
          /\ state' = NextState
          /\ granted' = IF m.type = "ack" /\ m.xid = "cur"
                        THEN [granted EXCEPT ![m.ip] = Max({@, m.lease})]
                        ELSE granted
          /\ checked' = FALSE
          /\ UNCHANGED calm
       \/ /\ verify(m) = "IsNack"
          /\ state' = NackState
          /\ calm' = FALSE
          /\ UNCHANGED <<last, granted, checked>>
    /\ UNCHANGED <<left, tokens, cancelled, sys>>

\* The deadline has come, the context is cancelled, or there is no socket.
NoReply ==
    /\ pc = "reply"
    /\ IF wait = 0 \/ cancelled THEN UNCHANGED faults ELSE Fault
    /\ state' = FailState
    /\ pc' = "end" /\ wait' = 0
    /\ UNCHANGED <<last, left, tokens, cancelled, iface, dirty, history>>

panicResetNoPause ==
    /\ Unconfigure
    /\ pc' = "reset" /\ wait' = 0
    /\ UNCHANGED state

panicReset ==
    /\ Unconfigure
    /\ pc' = "reset" /\ wait' = ResetTime
    /\ UNCHANGED state

runStateArpCheck ==
    /\ pc = "loop" /\ state = "ArpCheck"
    /\ pc' = "ping" /\ wait' = PingTime
    /\ UNCHANGED <<state, last, left, tokens, cancelled, sys, history>>

\* An answer comes in: the address is in use by another host, or it is our own.
PingAnswered(used) ==
    /\ pc = "ping"
    /\ IF used THEN panicReset /\ UNCHANGED checked
       ELSE /\ state' = "Ifconfig"
            /\ checked' = ~cancelled
            /\ pc' = "end" /\ wait' = 0
            /\ UNCHANGED <<iface, faults, dirty>>
    /\ UNCHANGED <<last, left, tokens, cancelled, granted, calm>>

\* Nobody answers in time, or the ping is cut short or fails: each counts as free.
PingDone ==
    /\ pc = "ping"
    /\ \/ (wait = 0 \/ cancelled) /\ checked' = ~cancelled /\ UNCHANGED faults
       \/ Fault /\ checked' = FALSE
    /\ state' = "Ifconfig"
    /\ pc' = "end" /\ wait' = 0
    /\ UNCHANGED <<last, left, tokens, cancelled, iface, dirty, granted, calm>>

buildNetconfig ==
    [IP |-> last.ip, LeaseDuration |-> last.lease, MTU |-> last.mtu, Router |-> last.router]

\* The callback before a configuration is applied.
filterNetconfig(c) == [c EXCEPT !.Router = IF DefaultRoute THEN @ ELSE nil]

WithAddr(c) == [iface.addrs EXCEPT ![c.IP] = c.LeaseDuration]

\* SetIface without errors: the address, with the lease as its lifetime, then
\* the route, then the MTU.
SetIfaceKeepsRoute(c) ==
    Iface(WithAddr(c), IF iface.route = nil THEN c.Router ELSE iface.route,
          IF c.MTU > 0 THEN c.MTU ELSE iface.mtu)

SetIface(c) ==
    Iface(WithAddr(c), IF c.Router = nil THEN iface.route ELSE c.Router,
          IF c.MTU > 0 THEN c.MTU ELSE iface.mtu)

\* What it leaves when one of its calls fails: AddrReplace; RouteList or
\* RouteDel; RouteAdd; LinkSetMTU.
SetIfaceFails(c) ==
    {iface, Iface(WithAddr(c), iface.route, iface.mtu)}
        \cup (IF c.Router \in {nil, iface.route} THEN {}
              ELSE {Iface(WithAddr(c), nil, iface.mtu)})
        \cup (IF c.MTU = 0 THEN {} ELSE {[SetIface(c) EXCEPT !.mtu = iface.mtu]})

\* An error is followed by panicReset, whose Unconfigure may fail as well.
runStateIfconfig ==
    /\ pc = "loop" /\ state = "Ifconfig"
    /\ \/ /\ iface' = SetIface(filterNetconfig(buildNetconfig))
          /\ state' = "Bound"
          /\ pc' = "script" /\ wait' = ScriptTime
          /\ UNCHANGED <<faults, dirty>>
       \/ \E i \in SetIfaceFails(filterNetconfig(buildNetconfig)) :
          /\ \/ iface' = Unconfigured(i) /\ dirty' = FALSE /\ Fault
             \/ /\ iface' \in UnconfigureFails(i) /\ dirty' = TRUE
                /\ faults + 2 <= MaxFaults /\ faults' = faults + 2
          /\ pc' = "reset" /\ wait' = ResetTime
          /\ UNCHANGED state
    /\ UNCHANGED <<last, left, tokens, cancelled, history>>

ResetDoneDeaf ==
    /\ pc = "reset"
    /\ wait = 0
    /\ state' = "PurgeInterface"
    /\ pc' = "end" /\ wait' = 0
    /\ UNCHANGED <<last, left, tokens, cancelled, sys, history>>

\* The pause of panicReset ends.
ResetDone ==
    /\ pc = "reset"
    /\ wait = 0 \/ cancelled
    /\ state' = "PurgeInterface"
    /\ pc' = "end" /\ wait' = 0
    /\ UNCHANGED <<last, left, tokens, cancelled, sys, history>>

DeadlinesUnchecked(m) ==
    [t1 |-> IF m.renew > Minute THEN m.renew ELSE m.lease \div 2,
     t2 |-> IF m.rebind > m.renew THEN m.rebind ELSE (7 * m.lease) \div 8,
     tx |-> m.lease]

Deadlines(m) ==
    LET given == m.renew > Minute /\ m.rebind > m.renew /\ m.rebind < m.lease
    IN  [t1 |-> IF given THEN m.renew ELSE m.lease \div 2,
         t2 |-> IF given THEN m.rebind ELSE (7 * m.lease) \div 8,
         tx |-> m.lease]

runStateBound ==
    /\ pc = "loop" /\ state = "Bound"
    /\ left' = Deadlines(last)
    /\ pc' = "sleep" /\ wait' = left'.t1
    /\ UNCHANGED <<state, last, tokens, cancelled, sys, history>>

WakeUpDeaf ==
    /\ pc = "sleep"
    /\ wait = 0
    /\ state' = "Renewing"
    /\ pc' = "end" /\ wait' = 0
    /\ UNCHANGED <<last, left, tokens, cancelled, sys, history>>

\* hackAbsoluteSleep returns.
WakeUp ==
    /\ pc = "sleep"
    /\ wait = 0 \/ cancelled
    /\ state' = "Renewing"
    /\ pc' = "end" /\ wait' = 0
    /\ UNCHANGED <<last, left, tokens, cancelled, sys, history>>
-----------------------------------------------------------------------------
(***************************************************************************)
(* The loop around the states.                                             *)
(***************************************************************************)
LoopEndDeaf ==
    /\ pc = "end" /\ tokens > 0
    /\ tokens' = tokens - 1
    /\ pc' = "loop"
    /\ UNCHANGED <<state, wait, last, left, cancelled, sys, history>>

\* The limiter and the context are asked after every state; a client without
\* tokens exits.
LoopEnd ==
    /\ pc = "end"
    /\ \/ /\ tokens = 0
          /\ pc' = "bananas"
          /\ UNCHANGED tokens
       \/ /\ tokens > 0
          /\ tokens' = tokens - 1
          /\ pc' = IF cancelled THEN "returned" ELSE "loop"
    /\ UNCHANGED <<state, wait, last, left, cancelled, sys, history>>

ResumeClientAlways(ctxDone) ==
    /\ pc = "returned"
    /\ left' = [t1 |-> ResumeTime, t2 |-> ResumeTime, tx |-> ResumeTime]
    /\ state' = "Rebinding"
    /\ cancelled' = ctxDone
    /\ pc' = "loop"
    /\ UNCHANGED <<wait, last, tokens, sys, history>>

\* The client gets a new context, done or not, and Run is called again.
ResumeClient(ctxDone) ==
    /\ pc = "returned"
    /\ IF state \in {"Bound", "Renewing", "Rebinding"}
       THEN /\ left' = [t1 |-> ResumeTime, t2 |-> ResumeTime, tx |-> ResumeTime]
            /\ state' = "Rebinding"
       ELSE /\ state' = "PurgeInterface"
            /\ UNCHANGED left
    /\ cancelled' = ctxDone
    /\ pc' = "loop"
    /\ UNCHANGED <<wait, last, tokens, sys, history>>

\* The context is cancelled.
Cancel ==
    /\ ~cancelled
    /\ cancelled' = TRUE
    /\ calm' = FALSE
    /\ UNCHANGED <<machine, tokens, sys, granted, checked>>

Down(n) == IF n = 0 THEN 0 ELSE n - 1

\* Time passes, for the client and for everything that has a lifetime.
Tick ==
    /\ pc \in Waiting /\ wait > 0 /\ ~cancelled
    /\ wait' = wait - 1
    /\ left' = [t1 |-> Down(left.t1), t2 |-> Down(left.t2), tx |-> Down(left.tx)]
    /\ tokens' = Min({Burst, tokens + Refill})
    /\ iface' = LET addrs == [ip \in IP |-> Down(iface.addrs[ip])]
                IN  Iface(addrs, Kernel(addrs, iface.route), iface.mtu)
    /\ granted' = [ip \in IP |-> Down(granted[ip])]
    /\ UNCHANGED <<state, pc, last, cancelled, faults, dirty, checked, calm>>

\* A step of Run.
Step ==
    \/ runStatePurgeInterface
    \/ runPostCallback
    \/ advanceState
    \/ NoReply
    \/ runStateArpCheck
    \/ PingDone
    \/ runStateIfconfig
    \/ ResetDone
    \/ runStateBound
    \/ WakeUp
    \/ LoopEnd

\* Something comes in from the network.
Arrival ==
    \/ \E m \in Msg : catchReply(m)
    \/ \E used \in BOOLEAN : PingAnswered(used)

DClientNext ==
    \/ Step \/ Arrival \/ Tick \/ Cancel
    \/ \E ctxDone \in BOOLEAN : ResumeClient(ctxDone)

DClientSafety == DClientInit /\ [][DClientNext]_dclientVars
-----------------------------------------------------------------------------
(***************************************************************************)
(* Properties.                                                             *)
(***************************************************************************)
DClientTypeOK ==
    /\ state \in {"PurgeInterface", "Discovering", "Selecting", "ArpCheck",
                  "Ifconfig", "Bound", "Renewing", "Rebinding"}
    /\ pc \in Waiting \cup {"loop", "end", "returned", "bananas"}
    /\ wait \in Nat
    /\ last \in Msg \cup {nil}
    /\ left \in [t1 : Nat, t2 : Nat, tx : Nat]
    /\ tokens \in 0 .. Burst
    /\ cancelled \in BOOLEAN
    /\ iface \in [addrs : [IP -> Nat], route : Router \cup {nil}, mtu : Nat]
    /\ granted \in [IP -> Nat]
    /\ faults \in 0 .. MaxFaults /\ dirty \in BOOLEAN
    /\ checked \in BOOLEAN /\ calm \in BOOLEAN
    \* A state that reads the last message has one.
    /\ state \notin {"PurgeInterface", "Discovering"} => last # nil

\* Whatever fails and whenever the client is cancelled or gives up, an address
\* outlasts the lease a server acknowledged for it by the time of an ARP ping at
\* most: offers, stale replies and ones for another address never get that far
\* (verifyer.go:44-81), the lifetime is the lease's (libif.go:113-131), and only
\* the ping comes between the reply and SetIface (sysstates.go:43-50).
AddressLeased == \A ip \in IP : iface.addrs[ip] <= granted[ip] + PingTime

\* Unless the last Unconfigure failed, the interface has at most the address of
\* the last acknowledged reply, and neither an address nor a route while the
\* client looks for a new one: every way out of a lease, also from the middle
\* of a SetIface that fails, goes through Unconfigure (sysstates.go:13-61).
NothingLeft ==
    ~dirty =>
        /\ \A ip \in IP : iface.addrs[ip] > 0 => last.ip = ip
        /\ state \in {"Discovering", "Selecting"} =>
              iface.addrs = NoAddrs /\ iface.route = nil

\* A bound client's interface is configured as the lease says, whatever was on
\* it before, failed before or was left behind: the address lives as long as
\* the lease the client counts, up to the time the callback script took, and a
\* route to another router is replaced (libif.go:112-163, filter.go:10-18).
BoundConfigured ==
    state = "Bound" =>
        /\ pc = "sleep" => left.tx <= iface.addrs[last.ip] + ScriptTime
        /\ DefaultRoute /\ iface.addrs[last.ip] > 0 => iface.route = last.router
        /\ last.mtu > 0 => iface.mtu = last.mtu

\* If no system call fails, an address is only configured after an ARP check
\* that ran to its end since the address was accepted.  A cancelled ping counts
\* as free (sysstates.go:45-50), but no cancelled client gets from there to
\* runStateIfconfig.
AddressChecked == faults = 0 /\ state = "Ifconfig" /\ pc = "loop" => checked

\* A client that is not disturbed (no NACK, no cancellation, no failing system
\* call) never uses up its tokens (dclient.go:82-86), however often the address
\* turns out to be in use and whether or not servers answer.
NeverBananas == calm /\ faults = 0 => pc # "bananas"

\* The deadlines of a lease are in order and, unless the client was resumed,
\* later than the lease the server acknowledged by at most the time of the ARP
\* ping and of the callback script (dhcpstates.go:38-50).
DeadlinesWithinLease ==
    /\ calm
    /\ pc \in {"sleep", "reply"} /\ state \in {"Bound", "Renewing", "Rebinding"}
    => /\ state = "Rebinding" \/ wait <= left.t2
       /\ left.t2 <= left.tx
       /\ left.tx <= granted[last.ip] + ScriptTime + PingTime

\* "runStateRebinding sends broadcast rebinding messages until our lease
\* expires" (dhcpstates.go:73): not beyond it.
RebindWithinLease ==
    calm /\ pc = "reply" /\ state = "Rebinding" => wait <= granted[last.ip]
=============================================================================
