---------------------------- MODULE DClientProofs ----------------------------
(***************************************************************************)
(* The safety properties of the client's state machine, for all addresses, *)
(* messages, times and limits: whatever servers answer, whichever system   *)
(* call fails and whenever the client is cancelled and resumed.            *)
(***************************************************************************)
EXTENDS DClient, TLAPS

IfaceType == [addrs : [IP -> Nat], route : Router \cup {nil}, mtu : Nat]

\* What the client waits for tells where it is.
WaitsWhere ==
    /\ pc = "script" => state \in {"Discovering", "Bound"}
    /\ pc = "reply" => state \in {"Discovering", "Selecting", "Renewing", "Rebinding"}
    /\ pc = "sleep" => state = "Bound"
    /\ pc = "reset" => state \in {"ArpCheck", "Ifconfig"}
    /\ pc = "ping" => state = "ArpCheck" /\ wait <= PingTime

\* A state that reads the last message finds one that verifyCommon let pass.
LastVerified ==
    state \notin {"PurgeInterface", "Discovering"} =>
        last \in Msg /\ last.ip \in IP /\ last.router # nil /\ last.lease >= Minute

Typed == DClientTypeOK /\ WaitsWhere /\ LastVerified

\* The fields of a message.
LEMMA MsgFields ==
    ASSUME NEW m \in Msg
    PROVE  /\ m.ip \in IP \cup {nil} /\ m.router \in Router \cup {nil}
           /\ m.mtu \in Nat /\ m.lease \in Nat /\ m.renew \in Nat /\ m.rebind \in Nat
           /\ m.dns \in BOOLEAN
BY MsgAssumption

\* The later of two ends.
LEMMA MaxOfTwo ==
    ASSUME NEW a \in Nat, NEW b \in Nat
    PROVE  Max({a, b}) \in Nat /\ Max({a, b}) >= a /\ Max({a, b}) >= b
<1>1. \E x \in {a, b} : \A y \in {a, b} : x >= y
  <2>1. CASE a >= b
    BY <2>1
  <2>2. CASE b >= a
    BY <2>2
  <2> QED BY <2>1, <2>2
<1>2. Max({a, b}) \in {a, b} /\ \A y \in {a, b} : Max({a, b}) >= y
  BY <1>1 DEF Max
<1> QED BY <1>2

\* And the smaller of two numbers of tokens.
LEMMA MinOfTwo ==
    ASSUME NEW a \in Nat, NEW b \in Nat
    PROVE  Min({a, b}) \in {a, b} /\ Min({a, b}) <= a /\ Min({a, b}) <= b
<1>1. \E x \in {a, b} : \A y \in {a, b} : x =< y
  <2>1. CASE a =< b
    BY <2>1
  <2>2. CASE b =< a
    BY <2>2
  <2> QED BY <2>1, <2>2
<1>2. Min({a, b}) \in {a, b} /\ \A y \in {a, b} : Min({a, b}) =< y
  BY <1>1 DEF Min
<1> QED BY <1>2

\* The filter leaves of a lease the address, its lifetime and the MTU.
LEMMA NetconfigFields ==
    ASSUME last \in Msg
    PROVE  LET c == filterNetconfig(buildNetconfig)
           IN  /\ c.IP = last.ip /\ c.LeaseDuration = last.lease /\ c.MTU = last.mtu
               /\ c.Router = IF DefaultRoute THEN last.router ELSE nil
BY DEF filterNetconfig, buildNetconfig

\* Every failure of Unconfigure leaves an address as it was or removes it.
LEMMA UnconfigureFailsOK ==
    ASSUME NEW i \in IfaceType, NEW j \in UnconfigureFails(i)
    PROVE  /\ j \in IfaceType
           /\ \A ip \in IP : j.addrs[ip] \in {0, i.addrs[ip]}
<1>1. CASE j = i
  BY <1>1 DEF IfaceType
<1>2. CASE j = Iface(NoAddrs, Kernel(NoAddrs, i.route), i.mtu)
  BY <1>2 DEF IfaceType, Iface, NoAddrs, Kernel
<1>3. CASE \E ip \in IP : j = Iface([NoAddrs EXCEPT ![ip] = i.addrs[ip]], nil, i.mtu)
  BY <1>3 DEF IfaceType, Iface, NoAddrs
<1> QED BY <1>1, <1>2, <1>3 DEF UnconfigureFails

\* An Unconfigure without errors leaves neither address nor route.
LEMMA UnconfiguredOK ==
    ASSUME NEW i \in IfaceType
    PROVE  /\ Unconfigured(i) \in IfaceType
           /\ Unconfigured(i).addrs = NoAddrs /\ Unconfigured(i).route = nil
           /\ \A ip \in IP : Unconfigured(i).addrs[ip] = 0
BY DEF Unconfigured, IfaceType, Iface, NoAddrs

\* Unconfigure as a whole: it fails only with a failing system call.
LEMMA UnconfigureOK ==
    ASSUME iface \in IfaceType, faults \in 0 .. MaxFaults, Unconfigure
    PROVE  /\ iface' \in IfaceType
           /\ \A ip \in IP : iface'.addrs[ip] \in {0, iface.addrs[ip]}
           /\ faults' \in 0 .. MaxFaults /\ faults <= faults'
           /\ dirty' \in BOOLEAN
           /\ ~dirty' => iface'.addrs = NoAddrs /\ iface'.route = nil
<1>1. CASE iface' = Unconfigured(iface) /\ dirty' = FALSE /\ UNCHANGED faults
  <2>1. /\ Unconfigured(iface) \in IfaceType
        /\ Unconfigured(iface).addrs = NoAddrs /\ Unconfigured(iface).route = nil
        /\ \A ip \in IP : Unconfigured(iface).addrs[ip] = 0
    BY UnconfiguredOK
  <2>2. faults' \in 0 .. MaxFaults /\ faults <= faults'
    BY <1>1, ClientTimeAssumption
  <2> QED BY <1>1, <2>1, <2>2
<1>2. CASE iface' \in UnconfigureFails(iface) /\ dirty' = TRUE /\ Fault
  BY <1>2, UnconfigureFailsOK, ClientTimeAssumption DEF Fault
<1> QED BY <1>1, <1>2 DEF Unconfigure

\* SetIface adds the address for the time of the lease and replaces the route.
LEMMA SetIfaceOK ==
    ASSUME iface \in IfaceType, last \in Msg, last.ip \in IP
    PROVE  LET c == filterNetconfig(buildNetconfig)
           IN  /\ SetIface(c) \in IfaceType
               /\ SetIface(c).addrs = [iface.addrs EXCEPT ![last.ip] = last.lease]
               /\ DefaultRoute /\ last.router # nil => SetIface(c).route = last.router
               /\ last.mtu > 0 => SetIface(c).mtu = last.mtu
BY NetconfigFields, MsgFields, ClientTimeAssumption
   DEF SetIface, IfaceType, Iface, WithAddr

\* If one of its calls fails, the interface has at most that address more.
LEMMA SetIfaceFailsOK ==
    ASSUME iface \in IfaceType, last \in Msg, last.ip \in IP,
           NEW i \in SetIfaceFails(filterNetconfig(buildNetconfig))
    PROVE  /\ i \in IfaceType
           /\ i.addrs \in {iface.addrs, [iface.addrs EXCEPT ![last.ip] = last.lease]}
<1> DEFINE c == filterNetconfig(buildNetconfig)
<1>1. c.IP = last.ip /\ c.LeaseDuration = last.lease /\ c.MTU = last.mtu
  BY NetconfigFields
<1>2. WithAddr(c) = [iface.addrs EXCEPT ![last.ip] = last.lease] /\ WithAddr(c) \in [IP -> Nat]
  BY <1>1, MsgFields DEF WithAddr, IfaceType
<1>3. i \in {iface, Iface(WithAddr(c), iface.route, iface.mtu), Iface(WithAddr(c), nil, iface.mtu),
             [SetIface(c) EXCEPT !.mtu = iface.mtu]}
  BY DEF SetIfaceFails
<1>4. SetIface(c) \in IfaceType /\ SetIface(c).addrs = WithAddr(c)
  BY <1>2, SetIfaceOK
<1> HIDE DEF c
<1>5. CASE i = [SetIface(c) EXCEPT !.mtu = iface.mtu]
  BY <1>2, <1>4, <1>5 DEF IfaceType
<1> QED BY <1>2, <1>3, <1>5 DEF IfaceType, Iface
-----------------------------------------------------------------------------
(***************************************************************************)
(* Types.                                                                  *)
(***************************************************************************)
\* The deadlines of a message, as numbers.
LEMMA DeadlinesNat ==
    ASSUME NEW m \in Msg
    PROVE  /\ Deadlines(m) \in [t1 : Nat, t2 : Nat, tx : Nat]
           /\ Deadlines(m).t1 <= Deadlines(m).t2
           /\ Deadlines(m).t2 <= Deadlines(m).tx
           /\ Deadlines(m).tx = m.lease
           /\ m.lease > 0 => Deadlines(m).t2 < Deadlines(m).tx
           /\ m.lease > 1 => Deadlines(m).t1 > 0
<1>1. m.lease \in Nat /\ m.renew \in Nat /\ m.rebind \in Nat /\ Minute \in Nat
  BY MsgFields, ClientTimeAssumption
<1>2. m.lease \div 2 \in Nat /\ (7 * m.lease) \div 8 \in Nat
  BY <1>1
<1>3. /\ m.lease \div 2 <= (7 * m.lease) \div 8
      /\ (7 * m.lease) \div 8 <= m.lease
      /\ m.lease > 0 => (7 * m.lease) \div 8 < m.lease
      /\ m.lease > 1 => m.lease \div 2 > 0
  BY <1>1
<1> QED BY <1>1, <1>2, <1>3 DEF Deadlines

\* What the client accepts passed verifyCommon.
LEMMA Accepted ==
    ASSUME Typed, NEW m \in Msg, pc = "reply", verify(m) = "Passed"
    PROVE  /\ verifyCommon(m) /\ m.ip \in IP
           /\ state = "Discovering" => m.type = "offer"
           /\ state # "Discovering" => m.type = "ack" /\ m.ip = last.ip
           /\ NextState = IF state = "Discovering" THEN "Selecting" ELSE "ArpCheck"
<1>1. state \in {"Discovering", "Selecting", "Renewing", "Rebinding"}
  BY DEF Typed, WaitsWhere
<1>2. m.ip \in IP \cup {nil}
  BY MsgFields
<1>3. CASE state = "Discovering"
  BY <1>2, <1>3 DEF verify, VerifyOffer, verifyCommon, NextState
<1>4. CASE state # "Discovering"
  <2>1. verifyGenAck(m, TRUE) = "Passed" \/ verifyGenAck(m, FALSE) = "Passed"
    BY <1>1, <1>4 DEF verify
  <2>2. m.type = "ack" /\ m.ip = last.ip /\ verifyCommon(m)
    BY <2>1 DEF verifyGenAck
  <2> QED BY <1>1, <1>2, <1>4, <2>2 DEF verifyCommon, NextState
<1> QED BY <1>3, <1>4

\* The client starts well typed.
LEMMA TypedInit == DClientInit => Typed
<1> SUFFICES ASSUME DClientInit PROVE Typed
  OBVIOUS
<1>1. PICK old \in [IP -> {0, Minute}] :
          /\ iface \in [addrs : {old}, route : Router \cup {nil}, mtu : {0}]
          /\ granted = old
  BY DEF DClientInit
<1>2. old \in [IP -> Nat]
  BY ClientTimeAssumption
<1>3. iface \in IfaceType /\ granted \in [IP -> Nat]
  BY <1>1, <1>2 DEF IfaceType
<1>4. /\ state = "PurgeInterface" /\ pc = "loop" /\ wait = 0 /\ last = nil
      /\ left = [t1 |-> 0, t2 |-> 0, tx |-> 0] /\ tokens = Burst /\ faults = 0
      /\ cancelled = FALSE /\ dirty = TRUE /\ checked = FALSE /\ calm = TRUE
  BY DEF DClientInit
<1>5. tokens \in 0 .. Burst /\ faults \in 0 .. MaxFaults /\ left \in [t1 : Nat, t2 : Nat, tx : Nat]
  BY <1>4, ClientTimeAssumption
<1> QED BY <1>3, <1>4, <1>5 DEF Typed, DClientTypeOK, WaitsWhere, LastVerified, Waiting, IfaceType

\* Every step keeps it so: a reply that is accepted has the fields the states read.
LEMMA TypedKeeps == Typed /\ [DClientNext]_dclientVars => Typed'
<1> SUFFICES ASSUME Typed, [DClientNext]_dclientVars PROVE Typed'
  OBVIOUS
<1> USE ClientTimeAssumption, NoMsgAssumption DEF Typed, DClientTypeOK, WaitsWhere, LastVerified, Waiting
<1>0. iface \in IfaceType
  BY DEF IfaceType
<1>1. CASE runStatePurgeInterface
  <2>1. iface' \in IfaceType /\ faults' \in 0 .. MaxFaults /\ dirty' \in BOOLEAN
    BY <1>0, <1>1, UnconfigureOK DEF runStatePurgeInterface
  <2> QED BY <1>1, <2>1 DEF runStatePurgeInterface, history, IfaceType
<1>2. CASE runPostCallback
  BY <1>2 DEF runPostCallback, sys, history
<1>3. CASE advanceState
  BY <1>3 DEF advanceState, Deadline, sys, history
<1>4. CASE NoReply
  BY <1>4 DEF NoReply, FailState, Fault, history
<1>5. CASE runStateArpCheck
  BY <1>5 DEF runStateArpCheck, sys, history
<1>16. CASE PingDone
  <2>1. checked' \in BOOLEAN
    BY <1>16, Zenon DEF PingDone
  <2>2. faults' \in 0 .. MaxFaults
    BY <1>16 DEF PingDone, Fault
  <2>3. state' = "Ifconfig" /\ pc' = "end" /\ wait' = 0 /\ state = "ArpCheck"
        /\ UNCHANGED <<last, left, tokens, cancelled, iface, dirty, granted, calm>>
    BY <1>16 DEF PingDone
  <2> QED BY <2>1, <2>2, <2>3
<1>17. ASSUME NEW used \in BOOLEAN, PingAnswered(used) PROVE Typed'
  <2>1. CASE used
    <3>1. iface' \in IfaceType /\ faults' \in 0 .. MaxFaults /\ dirty' \in BOOLEAN
      BY <1>0, <1>17, <2>1, UnconfigureOK DEF PingAnswered, panicReset
    <3> QED BY <1>17, <2>1, <3>1 DEF PingAnswered, panicReset, IfaceType
  <2>2. CASE ~used
    <3>1. checked' \in BOOLEAN
      BY <1>17, <2>2, Zenon DEF PingAnswered
    <3>2. state' = "Ifconfig" /\ pc' = "end" /\ wait' = 0 /\ state = "ArpCheck"
          /\ UNCHANGED <<iface, faults, dirty, last, left, tokens, cancelled, granted, calm>>
      BY <1>17, <2>2 DEF PingAnswered
    <3> QED BY <3>1, <3>2
  <2> QED BY <2>1, <2>2
<1>6. CASE runStateIfconfig
  <2>1. last \in Msg /\ last.ip \in IP
    BY <1>6 DEF runStateIfconfig
  <2>2. iface' \in IfaceType
    <3>1. CASE iface' = SetIface(filterNetconfig(buildNetconfig))
      BY <1>0, <2>1, <3>1, SetIfaceOK
    <3>2. ASSUME NEW i \in SetIfaceFails(filterNetconfig(buildNetconfig)),
                 iface' = Unconfigured(i) \/ iface' \in UnconfigureFails(i)
          PROVE  iface' \in IfaceType
      <4>1. i \in IfaceType
        BY <1>0, <2>1, SetIfaceFailsOK
      <4> QED BY <3>2, <4>1, UnconfiguredOK, UnconfigureFailsOK
    <3> QED BY <1>6, <3>1, <3>2 DEF runStateIfconfig
  <2>3. faults' \in 0 .. MaxFaults /\ dirty' \in BOOLEAN
    <3>1. faults' \in {faults, faults + 1, faults + 2} /\ (faults' # faults => faults' <= MaxFaults)
      BY <1>6 DEF runStateIfconfig, Fault
    <3>2. dirty' \in BOOLEAN
      BY <1>6, Zenon DEF runStateIfconfig
    <3>3. faults' \in 0 .. MaxFaults
      BY <3>1
    <3> QED BY <3>2, <3>3
  <2> QED BY <1>6, <2>2, <2>3 DEF runStateIfconfig, history, IfaceType
<1>7. CASE ResetDone
  BY <1>7 DEF ResetDone, sys, history
<1>8. CASE runStateBound
  <2>1. left' \in [t1 : Nat, t2 : Nat, tx : Nat] /\ wait' \in Nat
    BY <1>8, DeadlinesNat DEF runStateBound
  <2> QED BY <1>8, <2>1 DEF runStateBound, sys, history
<1>9. CASE WakeUp
  BY <1>9 DEF WakeUp, sys, history
<1>10. CASE LoopEnd
  BY <1>10 DEF LoopEnd, sys, history
<1>11. ASSUME NEW m \in Msg, catchReply(m) PROVE Typed'
  <2>1. CASE verify(m) = "Passed" /\ last' = m /\ state' = NextState
    <3>1. verifyCommon(m) /\ m.ip \in IP
          /\ NextState = IF state = "Discovering" THEN "Selecting" ELSE "ArpCheck"
      BY <1>11, <2>1, Accepted DEF catchReply
    <3>2. granted' \in [IP -> Nat]
      BY <1>11, <2>1, <3>1, MaxOfTwo, MsgFields DEF catchReply
    <3>3. checked' \in BOOLEAN /\ calm' \in BOOLEAN
      BY <1>11, <2>1 DEF catchReply
    <3>4. /\ pc' = "end" /\ wait' = 0
          /\ UNCHANGED <<left, tokens, cancelled, iface, faults, dirty>>
      BY <1>11 DEF catchReply, sys
    <3>5. state' \in {"Selecting", "ArpCheck"} /\ LastVerified'
      BY <2>1, <3>1 DEF verifyCommon
    <3> QED BY <2>1, <3>2, <3>3, <3>4, <3>5
  <2>2. CASE state' = NackState /\ UNCHANGED <<last, granted, checked>> /\ calm' = FALSE
    BY <1>11, <2>2 DEF catchReply, NackState, sys
  <2> QED BY <1>11, <2>1, <2>2 DEF catchReply
<1>12. CASE Tick
  <2>1. tokens' \in 0 .. Burst
    <3>1. tokens + Refill \in Nat /\ Burst \in Nat
      OBVIOUS
    <3>2. Min({Burst, tokens + Refill}) \in {Burst, tokens + Refill}
          /\ Min({Burst, tokens + Refill}) <= Burst
      BY <3>1, MinOfTwo
    <3> QED BY <1>12, <3>1, <3>2 DEF Tick
  <2>2. iface' \in IfaceType
    BY <1>0, <1>12 DEF Tick, Down, Iface, Kernel, IfaceType
  <2>3. left' \in [t1 : Nat, t2 : Nat, tx : Nat] /\ granted' \in [IP -> Nat] /\ wait' \in Nat
    BY <1>12 DEF Tick, Down
  <2> QED BY <1>12, <2>1, <2>2, <2>3 DEF Tick, IfaceType
<1>13. CASE Cancel
  BY <1>13 DEF Cancel, machine, sys
<1>14. ASSUME NEW ctxDone \in BOOLEAN, ResumeClient(ctxDone) PROVE Typed'
  BY <1>14 DEF ResumeClient, sys, history
<1>15. CASE UNCHANGED dclientVars
  BY <1>15 DEF dclientVars, machine, sys, history
<1> QED
  BY <1>1, <1>2, <1>3, <1>4, <1>5, <1>6, <1>7, <1>8, <1>9, <1>10, <1>11, <1>12, <1>13,
     <1>14, <1>15, <1>16, <1>17 DEF DClientNext, Step, Arrival

\* The client is type correct, and a state that reads the last reply finds one.
THEOREM DClientTyped == DClientSafety => []DClientTypeOK
<1>1. Typed => DClientTypeOK
  BY DEF Typed
<1> QED BY <1>1, TypedInit, TypedKeeps, PTL DEF DClientSafety
-----------------------------------------------------------------------------
(***************************************************************************)
(* Addresses and leases.                                                   *)
(***************************************************************************)
\* Between the acknowledgement of a lease and SetIface only the ping takes time.
AckedInTime ==
    /\ state = "ArpCheck" /\ pc \notin {"ping", "reset"} => last.lease <= granted[last.ip]
    /\ pc = "ping" => last.lease + wait <= granted[last.ip] + PingTime
    /\ state = "Ifconfig" /\ pc # "reset" => last.lease <= granted[last.ip] + PingTime

LeaseInv == AddressLeased /\ AckedInTime

\* An address of an earlier run has its lease.
LEMMA LeaseInvInit == DClientInit => LeaseInv
<1> SUFFICES ASSUME DClientInit PROVE LeaseInv
  OBVIOUS
<1>1. PICK old \in [IP -> {0, Minute}] : iface.addrs = old /\ granted = old
  BY DEF DClientInit
<1>2. \A ip \in IP : old[ip] \in Nat
  BY ClientTimeAssumption
<1> QED BY <1>1, <1>2, ClientTimeAssumption DEF DClientInit, LeaseInv, AddressLeased, AckedInTime

\* The argument is runStateIfconfig, whose lease was acknowledged at most a ping
\* ago, and Tick, which shortens a lifetime and a lease alike.
LEMMA LeaseInvKeeps == Typed /\ LeaseInv /\ [DClientNext]_dclientVars => LeaseInv'
<1> SUFFICES ASSUME Typed, LeaseInv, [DClientNext]_dclientVars PROVE LeaseInv'
  OBVIOUS
<1> USE DEF Typed, DClientTypeOK, WaitsWhere, LastVerified, Waiting, LeaseInv, AckedInTime
<1>p. PingTime \in Nat
  BY ClientTimeAssumption
<1>0. iface \in IfaceType /\ \A ip \in IP : iface.addrs[ip] \in Nat /\ granted[ip] \in Nat
  BY DEF IfaceType
<1>a. \A ip \in IP : iface.addrs[ip] <= granted[ip] + PingTime
  BY DEF AddressLeased
<1>1. CASE runStatePurgeInterface
  <2>1. \A ip \in IP : iface'.addrs[ip] \in {0, iface.addrs[ip]}
    BY <1>0, <1>1, UnconfigureOK DEF runStatePurgeInterface
  <2>2. state' = "Discovering" /\ pc' = "script" /\ UNCHANGED granted
    BY <1>1 DEF runStatePurgeInterface, history
  <2>3. \A ip \in IP : iface'.addrs[ip] <= granted'[ip] + PingTime
    BY <1>0, <1>p, <1>a, <2>1, <2>2
  <2> QED BY <2>2, <2>3 DEF AddressLeased
<1>2. CASE runPostCallback
  BY <1>2 DEF runPostCallback, sys, history, AddressLeased
<1>3. CASE advanceState
  BY <1>3 DEF advanceState, sys, history, AddressLeased
<1>4. CASE NoReply
  BY <1>4 DEF NoReply, FailState, history, AddressLeased
<1>5. CASE runStateArpCheck
  <2>1. last.lease \in Nat /\ granted[last.ip] \in Nat
    BY <1>0, <1>5, MsgFields DEF runStateArpCheck
  <2> QED BY <1>5, <1>p, <2>1 DEF runStateArpCheck, sys, history, AddressLeased
<1>16. CASE PingDone
  <2>1. last.lease \in Nat /\ granted[last.ip] \in Nat
    BY <1>0, <1>16, MsgFields DEF PingDone
  <2>2. /\ pc = "ping" /\ state' = "Ifconfig" /\ pc' = "end"
        /\ UNCHANGED <<last, iface, granted>>
    BY <1>16 DEF PingDone
  <2> QED BY <1>p, <2>1, <2>2 DEF AddressLeased
<1>17. ASSUME NEW used \in BOOLEAN, PingAnswered(used) PROVE LeaseInv'
  <2>1. CASE used
    <3>1. \A ip \in IP : iface'.addrs[ip] \in {0, iface.addrs[ip]}
      BY <1>0, <1>17, <2>1, UnconfigureOK DEF PingAnswered, panicReset
    <3>2. pc' = "reset" /\ UNCHANGED granted
      BY <1>17, <2>1 DEF PingAnswered, panicReset
    <3>3. \A ip \in IP : iface'.addrs[ip] <= granted'[ip] + PingTime
      BY <1>0, <1>p, <1>a, <3>1, <3>2
    <3> QED BY <3>2, <3>3 DEF AddressLeased
  <2>2. CASE ~used
    <3>1. last.lease \in Nat /\ granted[last.ip] \in Nat
      BY <1>0, <1>17, MsgFields DEF PingAnswered
    <3>2. /\ pc = "ping" /\ state' = "Ifconfig" /\ pc' = "end"
          /\ UNCHANGED <<last, iface, granted>>
      BY <1>17, <2>2 DEF PingAnswered
    <3> QED BY <1>p, <3>1, <3>2 DEF AddressLeased
  <2> QED BY <2>1, <2>2
<1>6. CASE runStateIfconfig
  <2>1. last \in Msg /\ last.ip \in IP /\ last.lease <= granted[last.ip] + PingTime /\ UNCHANGED granted
    BY <1>6 DEF runStateIfconfig, history
  <2>2. last.lease \in Nat
    BY <2>1, MsgFields
  <2> DEFINE added == [iface.addrs EXCEPT ![last.ip] = last.lease]
  <2>3. \A ip \in IP : added[ip] \in Nat /\ added[ip] <= granted[ip] + PingTime
    BY <1>0, <1>p, <1>a, <2>1, <2>2
  <2>4. CASE iface' = SetIface(filterNetconfig(buildNetconfig)) /\ state' = "Bound" /\ pc' = "script"
    <3>1. iface'.addrs = added
      BY <1>0, <2>1, <2>4, SetIfaceOK
    <3> QED BY <2>1, <2>3, <2>4, <3>1 DEF AddressLeased
  <2>5. ASSUME NEW i \in SetIfaceFails(filterNetconfig(buildNetconfig)), pc' = "reset",
               iface' = Unconfigured(i) \/ iface' \in UnconfigureFails(i)
        PROVE  LeaseInv'
    <3>1. i \in IfaceType /\ i.addrs \in {iface.addrs, added}
      BY <1>0, <2>1, SetIfaceFailsOK
    <3>2. \A ip \in IP : i.addrs[ip] \in Nat /\ i.addrs[ip] <= granted[ip] + PingTime
      BY <1>0, <1>p, <1>a, <2>3, <3>1
    <3>3. \A ip \in IP : iface'.addrs[ip] \in {0, i.addrs[ip]}
      BY <2>5, <3>1, UnconfiguredOK, UnconfigureFailsOK
    <3>4. \A ip \in IP : iface'.addrs[ip] <= granted'[ip] + PingTime
      BY <1>0, <1>p, <2>1, <3>2, <3>3
    <3> QED BY <2>5, <3>4 DEF AddressLeased
  <2> QED BY <1>6, <2>4, <2>5 DEF runStateIfconfig
<1>7. CASE ResetDone
  BY <1>7 DEF ResetDone, sys, history, AddressLeased
<1>8. CASE runStateBound
  BY <1>8 DEF runStateBound, sys, history, AddressLeased
<1>9. CASE WakeUp
  BY <1>9 DEF WakeUp, sys, history, AddressLeased
<1>10. CASE LoopEnd
  BY <1>10 DEF LoopEnd, sys, history, AddressLeased
<1>11. ASSUME NEW m \in Msg, catchReply(m) PROVE LeaseInv'
  <2>1. pc = "reply" /\ pc' = "end" /\ UNCHANGED iface
    BY <1>11 DEF catchReply, sys
  <2>2. CASE /\ verify(m) = "Passed" /\ last' = m /\ state' = NextState
             /\ granted' = IF m.type = "ack" /\ m.xid = "cur"
                           THEN [granted EXCEPT ![m.ip] = Max({@, m.lease})]
                           ELSE granted
    <3>1. /\ verifyCommon(m) /\ m.ip \in IP
          /\ state # "Discovering" => m.type = "ack"
          /\ NextState = IF state = "Discovering" THEN "Selecting" ELSE "ArpCheck"
      BY <1>11, <2>1, <2>2, Accepted
    <3>2. m.lease \in Nat /\ granted[m.ip] \in Nat
      BY <1>0, <3>1, MsgFields
    <3>3. Max({granted[m.ip], m.lease}) >= granted[m.ip] /\ Max({granted[m.ip], m.lease}) >= m.lease
          /\ Max({granted[m.ip], m.lease}) \in Nat
      BY <3>2, MaxOfTwo
    <3>4. \A ip \in IP : granted'[ip] >= granted[ip] /\ granted'[ip] \in Nat
      BY <1>0, <2>2, <3>3
    <3>5. \A ip \in IP : iface'.addrs[ip] <= granted'[ip] + PingTime
      BY <1>0, <1>p, <1>a, <2>1, <3>4
    <3>6. state' = "ArpCheck" => last'.lease <= granted'[last'.ip]
      BY <2>2, <3>1, <3>3 DEF verifyCommon
    <3> QED BY <2>1, <2>2, <3>1, <3>5, <3>6 DEF AddressLeased
  <2>3. CASE state' = NackState /\ UNCHANGED <<last, granted, checked>>
    BY <2>1, <2>3 DEF NackState, AddressLeased
  <2> QED BY <1>11, <2>2, <2>3 DEF catchReply
<1>12. CASE Tick
  <2>1. pc \in Waiting /\ wait > 0 /\ wait' = wait - 1 /\ UNCHANGED <<state, pc, last>>
    BY <1>12 DEF Tick
  <2>2. \A ip \in IP : iface'.addrs[ip] = Down(iface.addrs[ip]) /\ granted'[ip] = Down(granted[ip])
    BY <1>12 DEF Tick, Iface
  <2>3. \A ip \in IP : iface'.addrs[ip] <= granted'[ip] + PingTime
    BY <1>0, <1>p, <1>a, <2>2 DEF Down
  <2>4. CASE pc = "ping"
    <3>1. last.ip \in IP /\ last.lease \in Nat
      BY <2>4, MsgFields
    <3>2. granted[last.ip] \in Nat /\ granted'[last.ip] = Down(granted[last.ip])
      BY <1>0, <2>2, <3>1
    <3>3. last.lease + wait <= granted[last.ip] + PingTime
      BY <2>4
    <3>4. last.lease + wait' <= granted'[last.ip] + PingTime
      BY <1>p, <2>1, <3>1, <3>2, <3>3 DEF Down
    <3> QED BY <2>1, <2>3, <2>4, <3>4 DEF AddressLeased
  <2> QED BY <2>1, <2>3, <2>4 DEF AddressLeased
<1>13. CASE Cancel
  BY <1>13 DEF Cancel, machine, sys, AddressLeased
<1>14. ASSUME NEW ctxDone \in BOOLEAN, ResumeClient(ctxDone) PROVE LeaseInv'
  BY <1>14 DEF ResumeClient, sys, history, AddressLeased
<1>15. CASE UNCHANGED dclientVars
  BY <1>15 DEF dclientVars, machine, sys, history, AddressLeased
<1> QED
  BY <1>1, <1>2, <1>3, <1>4, <1>5, <1>6, <1>7, <1>8, <1>9, <1>10, <1>11, <1>12, <1>13,
     <1>14, <1>15, <1>16, <1>17 DEF DClientNext, Step, Arrival

\* No address outlasts a lease that a server acknowledged for it by more than the
\* time of an ARP ping (verifyer.go:44-81, libif.go:113-131, sysstates.go:43-50).
THEOREM AddressesLeased == DClientSafety => []AddressLeased
<1>1. LeaseInv => AddressLeased
  BY DEF LeaseInv
<1> QED BY <1>1, TypedInit, TypedKeeps, LeaseInvInit, LeaseInvKeeps, PTL DEF DClientSafety

\* Before the first Unconfigure nothing is claimed.
LEMMA NothingLeftInit == DClientInit => NothingLeft
BY DEF DClientInit, NothingLeft

\* NothingLeft is inductive: a renewal is for the address of the last reply, and
\* only an Unconfigure leads to Discovering.
LEMMA NothingLeftKeeps == Typed /\ NothingLeft /\ [DClientNext]_dclientVars => NothingLeft'
<1> SUFFICES ASSUME Typed, NothingLeft, [DClientNext]_dclientVars PROVE NothingLeft'
  OBVIOUS
<1> USE DEF Typed, DClientTypeOK, WaitsWhere, LastVerified, Waiting
<1>0. iface \in IfaceType /\ \A ip \in IP : iface.addrs[ip] \in Nat
  BY DEF IfaceType
<1>a. ASSUME ~dirty' => iface'.addrs = NoAddrs /\ iface'.route = nil PROVE NothingLeft'
  BY <1>a DEF NothingLeft, NoAddrs
<1>1. CASE runStatePurgeInterface
  BY <1>0, <1>1, <1>a, UnconfigureOK DEF runStatePurgeInterface
<1>2. CASE runPostCallback
  BY <1>2 DEF runPostCallback, sys, NothingLeft
<1>3. CASE advanceState
  BY <1>3 DEF advanceState, sys, NothingLeft
<1>4. CASE NoReply
  BY <1>4 DEF NoReply, FailState, NothingLeft
<1>5. CASE runStateArpCheck
  BY <1>5 DEF runStateArpCheck, sys, NothingLeft
<1>16. CASE PingDone
  BY <1>16 DEF PingDone, NothingLeft
<1>17. ASSUME NEW used \in BOOLEAN, PingAnswered(used) PROVE NothingLeft'
  <2>1. CASE used
    BY <1>0, <1>17, <1>a, <2>1, UnconfigureOK DEF PingAnswered, panicReset
  <2>2. CASE ~used
    BY <1>17, <2>2 DEF PingAnswered, NothingLeft
  <2> QED BY <2>1, <2>2
<1>6. CASE runStateIfconfig
  <2>1. last \in Msg /\ last.ip \in IP /\ UNCHANGED last
    BY <1>6 DEF runStateIfconfig
  <2>2. CASE /\ iface' = SetIface(filterNetconfig(buildNetconfig)) /\ state' = "Bound"
             /\ UNCHANGED dirty
    <3>1. iface'.addrs = [iface.addrs EXCEPT ![last.ip] = last.lease]
      BY <1>0, <2>1, <2>2, SetIfaceOK
    <3> QED BY <1>0, <2>1, <2>2, <3>1 DEF NothingLeft
  <2>3. ASSUME NEW i \in SetIfaceFails(filterNetconfig(buildNetconfig)),
               iface' = Unconfigured(i) \/ dirty' = TRUE
        PROVE  NothingLeft'
    <3>1. i \in IfaceType
      BY <1>0, <2>1, SetIfaceFailsOK
    <3> QED BY <1>a, <2>3, <3>1, UnconfiguredOK
  <2> QED BY <1>6, <2>2, <2>3 DEF runStateIfconfig
<1>7. CASE ResetDone
  BY <1>7 DEF ResetDone, sys, NothingLeft
<1>8. CASE runStateBound
  BY <1>8 DEF runStateBound, sys, NothingLeft
<1>9. CASE WakeUp
  BY <1>9 DEF WakeUp, sys, NothingLeft
<1>10. CASE LoopEnd
  BY <1>10 DEF LoopEnd, sys, NothingLeft
<1>11. ASSUME NEW m \in Msg, catchReply(m) PROVE NothingLeft'
  <2>1. pc = "reply" /\ UNCHANGED <<iface, dirty>>
    BY <1>11 DEF catchReply, sys
  <2>2. CASE verify(m) = "Passed" /\ last' = m /\ state' = NextState
    <3>1. /\ state # "Discovering" => m.ip = last.ip
          /\ NextState = IF state = "Discovering" THEN "Selecting" ELSE "ArpCheck"
      BY <1>11, <2>1, <2>2, Accepted
    <3> QED BY <1>0, <2>1, <2>2, <3>1 DEF NothingLeft, NoAddrs
  <2>3. CASE state' = NackState /\ UNCHANGED last
    BY <2>1, <2>3 DEF NackState, NothingLeft
  <2> QED BY <1>11, <2>2, <2>3 DEF catchReply
<1>12. CASE Tick
  <2>1. \A ip \in IP : iface'.addrs[ip] = Down(iface.addrs[ip])
    BY <1>12 DEF Tick, Iface
  <2>2. \A ip \in IP : iface'.addrs[ip] > 0 => iface.addrs[ip] > 0
    BY <1>0, <2>1 DEF Down
  <2>3. iface.addrs = NoAddrs /\ iface.route = nil => iface'.addrs = NoAddrs /\ iface'.route = nil
    BY <1>12 DEF Tick, Iface, Kernel, NoAddrs, Down
  <2> QED BY <1>12, <2>2, <2>3 DEF Tick, NothingLeft
<1>13. CASE Cancel
  BY <1>13 DEF Cancel, machine, sys, NothingLeft
<1>14. ASSUME NEW ctxDone \in BOOLEAN, ResumeClient(ctxDone) PROVE NothingLeft'
  BY <1>14 DEF ResumeClient, sys, NothingLeft
<1>15. CASE UNCHANGED dclientVars
  BY <1>15 DEF dclientVars, machine, sys, NothingLeft
<1> QED
  BY <1>1, <1>2, <1>3, <1>4, <1>5, <1>6, <1>7, <1>8, <1>9, <1>10, <1>11, <1>12, <1>13,
     <1>14, <1>15, <1>16, <1>17 DEF DClientNext, Step, Arrival

\* Unless the last Unconfigure failed, nothing of an older lease is left on the
\* interface (sysstates.go:13-61).
THEOREM NothingIsLeft == DClientSafety => []NothingLeft
BY TypedInit, TypedKeeps, NothingLeftInit, NothingLeftKeeps, PTL DEF DClientSafety
-----------------------------------------------------------------------------
(***************************************************************************)
(* A bound client.                                                         *)
(***************************************************************************)
\* The only way into Bound is a SetIface without errors.
LEMMA IntoBound ==
    ASSUME Typed, [DClientNext]_dclientVars, state' = "Bound", state # "Bound"
    PROVE  runStateIfconfig /\ iface' = SetIface(filterNetconfig(buildNetconfig))
           /\ pc' = "script" /\ wait' = ScriptTime
<1> USE DEF Typed, DClientTypeOK, WaitsWhere
<1>1. CASE Step
  <2>1. CASE runStatePurgeInterface \/ runPostCallback \/ advanceState
    BY <2>1 DEF runStatePurgeInterface, runPostCallback, advanceState
  <2>2. CASE NoReply
    BY <2>2 DEF NoReply, FailState
  <2>3. CASE runStateArpCheck \/ PingDone
    BY <2>3 DEF runStateArpCheck, PingDone
  <2>4. CASE runStateIfconfig
    BY <2>4 DEF runStateIfconfig
  <2>5. CASE ResetDone \/ runStateBound \/ WakeUp \/ LoopEnd
    BY <2>5 DEF ResetDone, runStateBound, WakeUp, LoopEnd
  <2> QED BY <1>1, <2>1, <2>2, <2>3, <2>4, <2>5 DEF Step
<1>2. ASSUME NEW m \in Msg, catchReply(m) PROVE FALSE
  <2>1. CASE verify(m) = "Passed" /\ state' = NextState
    BY <1>2, <2>1, Accepted DEF catchReply
  <2>2. CASE state' = NackState
    BY <2>2 DEF NackState
  <2> QED BY <1>2, <2>1, <2>2 DEF catchReply
<1>3. CASE Tick \/ Cancel \/ UNCHANGED dclientVars
  BY <1>3 DEF Tick, Cancel, dclientVars, machine
<1>4. CASE \E ctxDone \in BOOLEAN : ResumeClient(ctxDone)
  BY <1>4 DEF ResumeClient
<1>5. CASE \E used \in BOOLEAN : PingAnswered(used)
  BY <1>5 DEF PingAnswered, panicReset
<1> QED BY <1>1, <1>2, <1>3, <1>4, <1>5 DEF DClientNext, Arrival

\* What a bound client may do without leaving Bound.
LEMMA StayBound ==
    ASSUME Typed, [DClientNext]_dclientVars, state = "Bound", state' = "Bound"
    PROVE  runPostCallback \/ runStateBound \/ LoopEnd \/ Tick \/ Cancel \/ UNCHANGED dclientVars
<1> USE DEF Typed, DClientTypeOK, WaitsWhere
<1>1. CASE Step
  BY <1>1 DEF Step, runStatePurgeInterface, advanceState, NoReply, runStateArpCheck, PingDone,
              runStateIfconfig, ResetDone, WakeUp
<1>2. CASE Arrival
  BY <1>2 DEF Arrival, catchReply, PingAnswered
<1>3. CASE \E ctxDone \in BOOLEAN : ResumeClient(ctxDone)
  BY <1>3 DEF ResumeClient
<1> QED BY <1>1, <1>2, <1>3 DEF DClientNext

\* The lifetime of the address of a bound client, from SetIface on.
BoundLifetime ==
    state = "Bound" =>
        /\ pc = "script" => last.lease + wait <= iface.addrs[last.ip] + ScriptTime
        /\ pc \notin {"script", "sleep"} => last.lease <= iface.addrs[last.ip] + ScriptTime

BoundInv == BoundConfigured /\ BoundLifetime

\* The client does not start bound.
LEMMA BoundInvInit == DClientInit => BoundInv
BY DEF DClientInit, BoundInv, BoundConfigured, BoundLifetime

\* The script and the sleep shorten lifetime and deadline alike.
LEMMA BoundInvKeeps == Typed /\ BoundInv /\ [DClientNext]_dclientVars => BoundInv'
<1> SUFFICES ASSUME Typed, BoundInv, [DClientNext]_dclientVars, state' = "Bound" PROVE BoundInv'
  BY DEF BoundInv, BoundConfigured, BoundLifetime
<1> USE DEF Typed, DClientTypeOK, WaitsWhere, LastVerified, Waiting
<1>0. iface \in IfaceType /\ \A ip \in IP : iface.addrs[ip] \in Nat
  BY DEF IfaceType
<1>1. CASE state # "Bound"
  <2>1. runStateIfconfig /\ iface' = SetIface(filterNetconfig(buildNetconfig))
        /\ pc' = "script" /\ wait' = ScriptTime
    BY <1>1, IntoBound
  <2>2. last \in Msg /\ last.ip \in IP /\ last.router # nil /\ UNCHANGED last
    BY <2>1 DEF runStateIfconfig
  <2>3. last.lease \in Nat /\ ScriptTime \in Nat
    BY <2>2, MsgFields, ClientTimeAssumption
  <2>4. /\ iface'.addrs = [iface.addrs EXCEPT ![last.ip] = last.lease]
        /\ DefaultRoute => iface'.route = last.router
        /\ last.mtu > 0 => iface'.mtu = last.mtu
    BY <1>0, <2>1, <2>2, SetIfaceOK
  <2>5. iface'.addrs[last.ip] = last.lease
    BY <1>0, <2>2, <2>4 DEF IfaceType
  <2> QED BY <2>1, <2>2, <2>3, <2>4, <2>5 DEF BoundInv, BoundConfigured, BoundLifetime
<1>2. CASE state = "Bound"
  <2>1. last \in Msg /\ last.ip \in IP /\ last.lease \in Nat /\ ScriptTime \in Nat
    BY <1>2, MsgFields, ClientTimeAssumption
  <2>2. iface.addrs[last.ip] \in Nat
    BY <1>0, <2>1
  <2>3. CASE runPostCallback
    BY <1>2, <2>1, <2>2, <2>3 DEF runPostCallback, sys, BoundInv, BoundConfigured, BoundLifetime
  <2>4. CASE runStateBound
    <3>1. left'.tx = last.lease
      BY <2>1, <2>4, DeadlinesNat DEF runStateBound
    <3> QED BY <1>2, <2>4, <3>1 DEF runStateBound, sys, BoundInv, BoundConfigured, BoundLifetime
  <2>5. CASE LoopEnd
    BY <1>2, <2>5 DEF LoopEnd, sys, BoundInv, BoundConfigured, BoundLifetime
  <2>6. CASE Tick
    <3>1. /\ pc \in {"script", "sleep"} /\ wait > 0 /\ wait' = wait - 1
          /\ left'.tx = Down(left.tx) /\ UNCHANGED <<pc, last>>
      BY <1>2, <2>6 DEF Tick
    <3>2. iface'.addrs[last.ip] = Down(iface.addrs[last.ip]) /\ iface'.mtu = iface.mtu
      BY <2>1, <2>6 DEF Tick, Iface
    <3>3. iface'.addrs[last.ip] > 0 => iface'.route = iface.route
      <4> DEFINE addrs == [ip \in IP |-> Down(iface.addrs[ip])]
      <4>1. iface' = Iface(addrs, Kernel(addrs, iface.route), iface.mtu)
        BY <2>6 DEF Tick
      <4>2. addrs[last.ip] > 0 => addrs # NoAddrs
        BY <2>1 DEF NoAddrs
      <4> QED BY <4>1, <4>2 DEF Iface, Kernel
    <3> QED BY <1>2, <2>1, <2>2, <3>1, <3>2, <3>3 DEF Down, BoundInv, BoundConfigured, BoundLifetime
  <2>7. CASE Cancel \/ UNCHANGED dclientVars
    BY <1>2, <2>7 DEF Cancel, dclientVars, machine, sys, BoundInv, BoundConfigured, BoundLifetime
  <2> QED BY <1>2, <2>3, <2>4, <2>5, <2>6, <2>7, StayBound
<1> QED BY <1>1, <1>2

\* The interface of a bound client is what its lease says, whatever was on it,
\* failed or was left behind before (libif.go:112-163).
THEOREM BoundIsConfigured == DClientSafety => []BoundConfigured
<1>1. BoundInv => BoundConfigured
  BY DEF BoundInv
<1> QED BY <1>1, TypedInit, TypedKeeps, BoundInvInit, BoundInvKeeps, PTL DEF DClientSafety
-----------------------------------------------------------------------------
(***************************************************************************)
(* The ARP check.                                                          *)
(***************************************************************************)
\* A check that was cut short is followed by the return of Run.
CheckInv ==
    faults = 0 /\ state = "Ifconfig" =>
        /\ pc = "loop" => checked
        /\ pc = "end" => checked \/ cancelled

\* The client does not start in Ifconfig.
LEMMA CheckInvInit == DClientInit => CheckInv
BY DEF DClientInit, CheckInv

\* Only a cancelled client enters Ifconfig unchecked, and it returns at the end of the loop.
LEMMA CheckInvKeeps == Typed /\ CheckInv /\ [DClientNext]_dclientVars => CheckInv'
<1> SUFFICES ASSUME Typed, CheckInv, [DClientNext]_dclientVars,
                    faults' = 0, state' = "Ifconfig"
             PROVE  CheckInv'
  BY DEF CheckInv
<1> USE ClientTimeAssumption DEF Typed, DClientTypeOK, WaitsWhere, CheckInv
<1>1. CASE runStatePurgeInterface \/ ResetDone \/ WakeUp
  BY <1>1 DEF runStatePurgeInterface, ResetDone, WakeUp
<1>2. CASE runPostCallback \/ advanceState \/ runStateBound
  BY <1>2 DEF runPostCallback, advanceState, runStateBound, sys, history
<1>3. CASE NoReply
  BY <1>3 DEF NoReply, FailState
<1>4. CASE runStateArpCheck
  BY <1>4 DEF runStateArpCheck
<1>12. CASE PingDone
  <2>1. pc' = "end" /\ UNCHANGED cancelled
    BY <1>12 DEF PingDone
  <2>2. ~Fault
    BY DEF Fault
  <2>3. checked' = ~cancelled
    BY <1>12, <2>2 DEF PingDone
  <2> QED BY <2>1, <2>3
<1>13. ASSUME NEW used \in BOOLEAN, PingAnswered(used) PROVE CheckInv'
  <2>1. ~used /\ pc' = "end" /\ UNCHANGED cancelled /\ checked' = ~cancelled
    BY <1>13, Zenon DEF PingAnswered, panicReset
  <2> QED BY <2>1
<1>5. CASE runStateIfconfig
  BY <1>5 DEF runStateIfconfig
<1>6. CASE LoopEnd
  <2>1. UNCHANGED <<state, faults, checked, cancelled>>
    BY <1>6 DEF LoopEnd, sys, history
  <2>2. pc = "end" /\ (pc' = "loop" => ~cancelled) /\ pc' # "end"
    BY <1>6 DEF LoopEnd
  <2> QED BY <2>1, <2>2
<1>7. ASSUME NEW m \in Msg, catchReply(m) PROVE CheckInv'
  <2>1. CASE verify(m) = "Passed" /\ state' = NextState
    BY <1>7, <2>1, Accepted DEF catchReply
  <2>2. CASE state' = NackState
    BY <2>2 DEF NackState
  <2> QED BY <1>7, <2>1, <2>2 DEF catchReply
<1>8. CASE Tick
  BY <1>8 DEF Tick, Waiting
<1>9. CASE Cancel
  BY <1>9 DEF Cancel, machine, sys
<1>10. CASE \E ctxDone \in BOOLEAN : ResumeClient(ctxDone)
  BY <1>10 DEF ResumeClient
<1>11. CASE UNCHANGED dclientVars
  BY <1>11 DEF dclientVars, machine, sys, history
<1> QED
  BY <1>1, <1>2, <1>3, <1>4, <1>5, <1>6, <1>7, <1>8, <1>9, <1>10, <1>11, <1>12, <1>13
  DEF DClientNext, Step, Arrival

\* Without failing system calls an address is configured only after an ARP
\* check that ran to its end (sysstates.go:45-50).
THEOREM AddressIsChecked == DClientSafety => []AddressChecked
<1>1. CheckInv => AddressChecked
  BY DEF CheckInv, AddressChecked
<1> QED BY <1>1, TypedInit, TypedKeeps, CheckInvInit, CheckInvKeeps, PTL DEF DClientSafety
-----------------------------------------------------------------------------
(***************************************************************************)
(* The deadlines of a lease.                                               *)
(***************************************************************************)
\* A cancelled client is not calm, and Run returns only if it is cancelled.
Disturbed == cancelled \/ pc = "returned" => ~calm

\* At the start the client is calm.
LEMMA DisturbedInit == DClientInit => Disturbed
BY DEF DClientInit, Disturbed

\* calm is never set again.
LEMMA DisturbedKeeps == Typed /\ Disturbed /\ [DClientNext]_dclientVars => Disturbed'
<1> SUFFICES ASSUME Typed, Disturbed, [DClientNext]_dclientVars PROVE Disturbed'
  OBVIOUS
<1> USE DEF Disturbed, history
<1>1. CASE Step
  <2>1. CASE runStatePurgeInterface \/ runPostCallback \/ advanceState \/ NoReply
    BY <2>1 DEF runStatePurgeInterface, runPostCallback, advanceState, NoReply
  <2>2. CASE runStateArpCheck \/ PingDone
    BY <2>2 DEF runStateArpCheck, PingDone
  <2>3. CASE runStateIfconfig \/ ResetDone \/ runStateBound \/ WakeUp
    BY <2>3 DEF runStateIfconfig, ResetDone, runStateBound, WakeUp
  <2>4. CASE LoopEnd
    BY <2>4 DEF LoopEnd
  <2> QED BY <1>1, <2>1, <2>2, <2>3, <2>4 DEF Step
<1>2. CASE Arrival
  BY <1>2 DEF Arrival, catchReply, PingAnswered, panicReset
<1>3. CASE Tick \/ Cancel \/ UNCHANGED dclientVars
  BY <1>3 DEF Tick, Cancel, dclientVars, machine
<1>4. CASE \E ctxDone \in BOOLEAN : ResumeClient(ctxDone)
  BY <1>4 DEF ResumeClient
<1> QED BY <1>1, <1>2, <1>3, <1>4 DEF DClientNext

\* The deadlines of a client that was never resumed are those of its lease,
\* which is the lifetime of its address.
DeadlineInv ==
    calm /\ (pc = "sleep" \/ state \in {"Renewing", "Rebinding"}) =>
        /\ left.t2 <= left.tx
        /\ left.tx <= iface.addrs[last.ip] + ScriptTime
        /\ pc = "sleep" \/ (pc = "reply" /\ state = "Renewing") => wait <= left.t2

\* The client starts without a lease.
LEMMA DeadlineInvInit == DClientInit => DeadlineInv
BY DEF DClientInit, DeadlineInv

\* While the client waits, wait, deadlines and lifetime run down together.
LEMMA DeadlineInvKeeps ==
    Typed /\ Disturbed /\ BoundInv /\ DeadlineInv /\ [DClientNext]_dclientVars => DeadlineInv'
<1> SUFFICES ASSUME Typed, Disturbed, BoundInv, DeadlineInv, [DClientNext]_dclientVars,
                    calm', pc' = "sleep" \/ state' \in {"Renewing", "Rebinding"}
             PROVE  DeadlineInv'
  BY DEF DeadlineInv
<1> USE ClientTimeAssumption DEF Typed, DClientTypeOK, WaitsWhere, LastVerified, Waiting, DeadlineInv
<1>0. \A ip \in IP : iface.addrs[ip] \in Nat
  OBVIOUS
<1>1. CASE runStatePurgeInterface \/ ResetDone \/ runPostCallback \/ runStateIfconfig
  BY <1>1 DEF runStatePurgeInterface, ResetDone, runPostCallback, runStateIfconfig
<1>2. CASE advanceState
  BY <1>2 DEF advanceState, Deadline, sys, history
<1>3. CASE NoReply
  BY <1>3 DEF NoReply, FailState, history
<1>4. CASE runStateArpCheck \/ PingDone
  BY <1>4 DEF runStateArpCheck, PingDone
<1>13. CASE \E used \in BOOLEAN : PingAnswered(used)
  BY <1>13 DEF PingAnswered, panicReset
<1>5. CASE runStateBound
  <2>1. /\ state = "Bound" /\ pc = "loop" /\ left' = Deadlines(last)
        /\ pc' = "sleep" /\ wait' = left'.t1 /\ state' = "Bound"
        /\ UNCHANGED <<last, iface>>
    BY <1>5 DEF runStateBound, sys
  <2>2. last \in Msg /\ last.lease <= iface.addrs[last.ip] + ScriptTime
    BY <2>1 DEF BoundInv, BoundLifetime
  <2> QED BY <2>1, <2>2, DeadlinesNat
<1>6. CASE WakeUp
  <2>1. pc = "sleep" /\ UNCHANGED <<left, iface, last, calm>> /\ pc' = "end"
    BY <1>6 DEF WakeUp, sys, history
  <2> QED BY <2>1
<1>7. CASE LoopEnd
  BY <1>7 DEF LoopEnd, sys, history
<1>8. ASSUME NEW m \in Msg, catchReply(m) PROVE DeadlineInv'
  <2>1. CASE verify(m) = "Passed" /\ state' = NextState
    BY <1>8, <2>1, Accepted DEF catchReply
  <2>2. CASE calm' = FALSE
    BY <2>2
  <2> QED BY <1>8, <2>1, <2>2 DEF catchReply
<1>9. CASE Tick
  <2>1. /\ wait > 0 /\ wait' = wait - 1 /\ UNCHANGED <<state, pc, last, calm>>
        /\ left'.t2 = Down(left.t2) /\ left'.tx = Down(left.tx)
    BY <1>9 DEF Tick
  <2>2. last.ip \in IP
    BY <2>1
  <2>3. iface'.addrs[last.ip] = Down(iface.addrs[last.ip])
    BY <1>9, <2>2 DEF Tick, Iface
  <2> QED BY <1>0, <2>1, <2>2, <2>3 DEF Down
<1>10. CASE Cancel
  BY <1>10 DEF Cancel
<1>11. ASSUME NEW ctxDone \in BOOLEAN, ResumeClient(ctxDone) PROVE DeadlineInv'
  BY <1>11 DEF ResumeClient, Disturbed, history
<1>12. CASE UNCHANGED dclientVars
  BY <1>12 DEF dclientVars, machine, sys, history
<1> QED
  BY <1>1, <1>2, <1>3, <1>4, <1>5, <1>6, <1>7, <1>8, <1>9, <1>10, <1>11, <1>12, <1>13
  DEF DClientNext, Step, Arrival

\* The deadlines are in order, and outlast the acknowledged lease by at most the
\* time of the ARP ping and of the callback script (dhcpstates.go:38-50).
THEOREM DeadlinesRight == DClientSafety => []DeadlinesWithinLease
<1>1. Typed /\ LeaseInv /\ DeadlineInv => DeadlinesWithinLease
  <2> SUFFICES ASSUME Typed, LeaseInv, DeadlineInv, calm, pc \in {"sleep", "reply"},
                      state \in {"Bound", "Renewing", "Rebinding"}
               PROVE  /\ state = "Rebinding" \/ wait <= left.t2
                      /\ left.t2 <= left.tx
                      /\ left.tx <= granted[last.ip] + ScriptTime + PingTime
    BY DEF DeadlinesWithinLease
  <2>1. last.ip \in IP /\ (pc = "sleep" \/ state \in {"Renewing", "Rebinding"})
    BY DEF Typed, LastVerified, WaitsWhere
  <2>2. /\ iface.addrs[last.ip] \in Nat /\ granted[last.ip] \in Nat /\ left.tx \in Nat
        /\ ScriptTime \in Nat /\ PingTime \in Nat
    BY <2>1, ClientTimeAssumption DEF Typed, DClientTypeOK
  <2>3. iface.addrs[last.ip] <= granted[last.ip] + PingTime
    BY <2>1 DEF LeaseInv, AddressLeased
  <2> QED BY <2>1, <2>2, <2>3 DEF DeadlineInv, Typed, WaitsWhere
<1> QED
  BY <1>1, TypedInit, TypedKeeps, LeaseInvInit, LeaseInvKeeps, BoundInvInit, BoundInvKeeps,
     DisturbedInit, DisturbedKeeps, DeadlineInvInit, DeadlineInvKeeps, PTL DEF DClientSafety
-----------------------------------------------------------------------------
(***************************************************************************)
(* The limiter.                                                            *)
(***************************************************************************)
\* A tick fills the limiter, which is enough for one turn through all states,
\* and no lease ends with its first tick.  In the code, a limiter of ten tokens
\* and one more a second (dclient.go:55), with ticks of ten to thirty seconds.
AmpleTokens == Burst >= 6 /\ Refill >= Burst /\ Minute >= 2

\* The most times the loop has been run since the limiter was full.
Loops ==
    CASE state \in {"PurgeInterface", "Renewing"} -> 1
      [] state \in {"Discovering", "Rebinding"} -> 2
      [] state = "Selecting" -> 3
      [] state = "ArpCheck" -> 4
      [] state = "Ifconfig" -> 5
      [] state = "Bound" -> 6

TokenInv ==
    AmpleTokens /\ calm /\ faults = 0 =>
        /\ pc # "bananas"
        /\ Burst <= tokens + Loops
        /\ pc \in {"end", "script"} => Burst < tokens + Loops
        /\ wait = 0 /\ (pc \in {"sleep", "reset"} \/ (pc = "reply" /\ state # "Renewing"))
              => tokens = Burst
        /\ pc = "sleep" \/ state = "Renewing" => left.t2 < left.tx
        /\ pc \in {"end", "loop"} /\ state = "Rebinding" => left.tx > 0

\* The limiter starts full.
LEMMA TokenInvInit == DClientInit => TokenInv
BY ClientTimeAssumption DEF DClientInit, TokenInv, Loops

\* Every turn of the loop costs a token, and every wait that is waited out fills the
\* limiter: only the wait for a renewal may have no length.
LEMMA TokenInvKeeps ==
    Typed /\ Disturbed /\ DeadlineInv /\ TokenInv /\ [DClientNext]_dclientVars => TokenInv'
<1> SUFFICES ASSUME Typed, Disturbed, DeadlineInv, TokenInv, [DClientNext]_dclientVars,
                    AmpleTokens, calm', faults' = 0
             PROVE  TokenInv'
  BY DEF TokenInv, AmpleTokens
<1> USE ClientTimeAssumption DEF Typed, DClientTypeOK, WaitsWhere, LastVerified, Waiting, TokenInv
<1>0. tokens \in Nat /\ Burst \in Nat /\ wait \in Nat
  OBVIOUS
<1>1. CASE runStatePurgeInterface
  <2>1. faults = 0
    BY <1>1, UnconfigureOK DEF runStatePurgeInterface, IfaceType
  <2> QED BY <1>0, <1>1, <2>1 DEF runStatePurgeInterface, history, Loops
<1>2. CASE runPostCallback
  BY <1>0, <1>2 DEF runPostCallback, sys, history, Loops
<1>3. CASE advanceState
  BY <1>0, <1>3 DEF advanceState, Deadline, sys, history, Loops
<1>4. CASE NoReply
  <2>1. calm /\ ~cancelled /\ pc = "reply"
    BY <1>4 DEF NoReply, Disturbed, history
  <2>2. faults = 0 /\ wait = 0
    BY <1>4, <2>1 DEF NoReply, Fault
  <2> QED BY <1>0, <1>4, <2>1, <2>2 DEF NoReply, FailState, history, Loops
<1>5. CASE runStateArpCheck
  BY <1>0, <1>5 DEF runStateArpCheck, sys, history, Loops
<1>16. CASE PingDone
  <2>1. faults = 0
    BY <1>16 DEF PingDone, Fault
  <2> QED BY <1>0, <1>16, <2>1 DEF PingDone, Loops
<1>17. ASSUME NEW used \in BOOLEAN, PingAnswered(used) PROVE TokenInv'
  <2>1. CASE used
    <3>1. faults = 0
      BY <1>17, <2>1, UnconfigureOK DEF PingAnswered, panicReset, IfaceType
    <3> QED BY <1>0, <1>17, <2>1, <3>1 DEF PingAnswered, panicReset, Loops
  <2>2. CASE ~used
    BY <1>0, <1>17, <2>2 DEF PingAnswered, Loops
  <2> QED BY <2>1, <2>2
<1>6. CASE runStateIfconfig
  <2>1. /\ faults = 0 /\ state = "Ifconfig" /\ state' = "Bound" /\ pc' = "script"
        /\ UNCHANGED <<last, left, tokens, calm>>
    <3>1. faults' # faults + 1 /\ faults' # faults + 2 /\ ~Fault
      BY DEF Fault
    <3> QED BY <1>6, <3>1 DEF runStateIfconfig, history
  <2> QED BY <1>0, <1>6, <2>1 DEF runStateIfconfig, Loops
<1>7. CASE ResetDone
  <2>1. wait = 0
    BY <1>7 DEF ResetDone, Disturbed, history
  <2> QED BY <1>0, <1>7, <2>1 DEF ResetDone, sys, history, Loops
<1>8. CASE runStateBound
  <2>1. /\ state = "Bound" /\ pc = "loop" /\ left' = Deadlines(last)
        /\ pc' = "sleep" /\ wait' = left'.t1
        /\ UNCHANGED <<state, last, tokens, faults, calm>>
    BY <1>8 DEF runStateBound, sys, history
  <2>2. last \in Msg /\ last.lease > 1
    BY <2>1, MsgFields DEF AmpleTokens
  <2>3. left'.t1 > 0 /\ left'.t2 < left'.tx
    BY <2>1, <2>2, DeadlinesNat, MsgFields
  <2> QED BY <1>0, <2>1, <2>3 DEF Loops
<1>9. CASE WakeUp
  <2>1. wait = 0
    BY <1>9 DEF WakeUp, Disturbed, history
  <2> QED BY <1>0, <1>9, <2>1 DEF WakeUp, sys, history, Loops
<1>10. CASE LoopEnd
  <2>1. pc = "end" /\ calm /\ faults = 0 /\ UNCHANGED <<state, wait, last, left, faults, calm>>
    BY <1>10 DEF LoopEnd, sys, history
  <2>2. Loops \in 1 .. 6 /\ Loops' = Loops
    BY <2>1 DEF Loops
  <2>3. tokens > 0
    BY <1>0, <2>1, <2>2 DEF AmpleTokens
  <2>4. tokens' = tokens - 1 /\ pc' \in {"loop", "returned"}
    BY <1>10, <2>3 DEF LoopEnd
  <2> QED BY <1>0, <2>1, <2>2, <2>4
<1>11. ASSUME NEW m \in Msg, catchReply(m) PROVE TokenInv'
  <2>1. /\ pc = "reply" /\ pc' = "end" /\ calm /\ faults = 0
        /\ UNCHANGED <<tokens, left, faults>>
        /\ verify(m) = "Passed" /\ state' = NextState
    BY <1>11 DEF catchReply, sys
  <2>2. NextState = IF state = "Discovering" THEN "Selecting" ELSE "ArpCheck"
    BY <2>1, Accepted
  <2> QED BY <1>0, <2>1, <2>2 DEF Loops
<1>12. CASE Tick
  <2>1. /\ pc \in Waiting /\ wait > 0 /\ wait' = wait - 1
        /\ UNCHANGED <<state, pc, last, faults, calm>>
        /\ left'.t2 = Down(left.t2) /\ left'.tx = Down(left.tx)
        /\ tokens' = Min({Burst, tokens + Refill})
    BY <1>12 DEF Tick
  <2>2. tokens' = Burst
    <3>1. tokens + Refill \in Nat /\ tokens + Refill >= Burst
      BY <1>0 DEF AmpleTokens
    <3> QED BY <1>0, <2>1, <3>1, MinOfTwo
  <2>3. pc = "sleep" \/ state = "Renewing" => left'.t2 < left'.tx
    BY <2>1 DEF Down, DeadlineInv
  <2>4. Loops' = Loops /\ Loops \in 1 .. 6
    BY <2>1 DEF Loops
  <2> QED BY <1>0, <2>1, <2>2, <2>3, <2>4
<1>13. CASE Cancel
  BY <1>13 DEF Cancel
<1>14. CASE \E ctxDone \in BOOLEAN : ResumeClient(ctxDone)
  BY <1>14 DEF ResumeClient, Disturbed, history
<1>15. CASE UNCHANGED dclientVars
  BY <1>15 DEF dclientVars, machine, sys, history, Loops
<1> QED
  BY <1>1, <1>2, <1>3, <1>4, <1>5, <1>6, <1>7, <1>8, <1>9, <1>10, <1>11, <1>12, <1>13,
     <1>14, <1>15, <1>16, <1>17 DEF DClientNext, Step, Arrival

\* If the limiter is large enough for one turn through all states and full
\* again after a tick, a client that nobody disturbs never uses it up
\* (dclient.go:82-86): each turn that does not end in a wait ends in a reset.
THEOREM TokensSuffice ==
    ASSUME AmpleTokens
    PROVE  DClientSafety => []NeverBananas
<1>1. TokenInv => NeverBananas
  BY AmpleTokens DEF TokenInv, NeverBananas
<1> QED
  BY <1>1, TypedInit, TypedKeeps, BoundInvInit, BoundInvKeeps, DisturbedInit, DisturbedKeeps,
     DeadlineInvInit, DeadlineInvKeeps, TokenInvInit, TokenInvKeeps, PTL DEF DClientSafety
=============================================================================
