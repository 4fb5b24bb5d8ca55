---------------------------- MODULE MClientProofs ----------------------------
(***************************************************************************)
(* The hook and the events of the main client, for every set of messages,  *)
(* all times and every capacity of the channel.                            *)
(***************************************************************************)
EXTENDS MClient, DClientProofs

\* What the steps of the client do to the hook.
HookStep == HookNext \/ Kill \/ (\E lease : Cbhandler(lease)) \/ UNCHANGED hookVars

\* The temporary file on its way: it is the lease's, whole before its mode is
\* set and readable before it is renamed.
TmpReady ==
    /\ hook \in {"write", "chmod", "rename"} =>
          /\ HasServers
          /\ tmp = File(env, tmp.whole, tmp.mode)
    /\ hook \in {"chmod", "rename"} => tmp.whole
    /\ hook = "rename" => tmp.mode = "0644"

HookInv == ConfWhole /\ TmpReady

\* A hook that has not begun has nothing half written.
LEMMA HookInvInit == HookInit => HookInv
BY DEF HookInit, HookInv, ConfWhole, TmpReady, File

\* No system call of the hook, failed or not, and no kill breaks it.
LEMMA HookStepKeeps == HookInv /\ HookStep => HookInv'
<1> SUFFICES ASSUME HookInv, HookStep PROVE HookInv'
  OBVIOUS
<1> USE DEF HookInv, ConfWhole, TmpReady, File, HasServers
<1>1. CASE Run
  BY <1>1 DEF Run
<1>2. CASE Write
  BY <1>2 DEF Write
<1>3. CASE Chmod
  BY <1>3 DEF Chmod
<1>4. CASE Rename
  BY <1>4 DEF Rename
<1>5. CASE Remove
  BY <1>5 DEF Remove
<1>6. CASE Kill
  BY <1>6 DEF Kill
<1>7. CASE \E lease : Cbhandler(lease)
  BY <1>7 DEF Cbhandler
<1>8. CASE UNCHANGED hookVars
  BY <1>8 DEF hookVars
<1> QED BY <1>1, <1>2, <1>3, <1>4, <1>5, <1>6, <1>7, <1>8 DEF HookStep, HookNext

\* Every step of the main client is one of the hook.
LEMMA MClientHookStep == [MClientNext]_mclientVars => HookStep
<1> SUFFICES ASSUME [MClientNext]_mclientVars PROVE HookStep
  OBVIOUS
<1>1. CASE Runs
  BY <1>1 DEF Runs, Silently, Callback, HookStep
<1>2. CASE Hook
  BY <1>2 DEF Hook, HookStep
<1>3. CASE Waits
  BY <1>3 DEF Waits, HookStep
<1>4. CASE Main
  BY <1>4 DEF Main, RunReturned, Resumed, HookStep
<1>5. CASE Monitor
  BY <1>5 DEF Monitor, monitor, LoadCancel, CallCancel, MonitorReturns, HookStep
<1>6. CASE MonitorChanges \/ LinkChanges
  BY <1>6 DEF MonitorChanges, LinkChanges, HookStep
<1>7. CASE Shutdown
  BY <1>7 DEF Shutdown, HookStep
<1>8. CASE UNCHANGED mclientVars
  BY <1>8 DEF mclientVars, HookStep
<1> QED BY <1>1, <1>2, <1>3, <1>4, <1>5, <1>6, <1>7, <1>8 DEF MClientNext

\* Whatever fails and wherever the hook is killed, /etc/resolv.conf is the old
\* file or a whole new one (resolvconf.go:56-90).
THEOREM HookLeavesWhole == MClientSafety => []ConfWhole
<1>1. MClientInit => HookInv
  BY HookInvInit DEF MClientInit
<1>2. HookInv /\ [MClientNext]_mclientVars => HookInv'
  BY HookStepKeeps, MClientHookStep
<1>3. HookInv => ConfWhole
  BY DEF HookInv
<1> QED BY <1>1, <1>2, <1>3, PTL DEF MClientSafety
-----------------------------------------------------------------------------
\* The state machine and the network do not cancel.
LEMMA MachineKeepsContext == Step \/ Arrival \/ Tick => UNCHANGED cancelled
<1> SUFFICES ASSUME Step \/ Arrival \/ Tick PROVE UNCHANGED cancelled
  OBVIOUS
<1>1. CASE Step
  BY <1>1 DEF Step, runStatePurgeInterface, runPostCallback, advanceState, NoReply,
              runStateArpCheck, PingDone, runStateIfconfig, ResetDone, runStateBound,
              WakeUp, LoopEnd
<1>2. CASE Arrival
  BY <1>2 DEF Arrival, catchReply, PingAnswered
<1>3. CASE Tick
  BY <1>3 DEF Tick
<1> QED BY <1>1, <1>2, <1>3

\* The monitor is gone only after the context of the program is done, and the
\* cancel function of a context that is not handed over belongs to one.
MonitorRight ==
    /\ ev \in Nat
    /\ updates \in Seq(BOOLEAN) /\ oldState \in BOOLEAN
    /\ mon = "gone" => done = TRUE
    /\ mon = "cancel" /\ target = "fresh" => fresh # nil

\* What ifmon will think of the link when it has read all updates.
LastUpdate == IF updates = <<>> THEN oldState ELSE updates[Len(updates)]

\* A client that has a reply has had a link, and ifmon knows, or will know, when
\* it is down.
LinkRight ==
    /\ link \in {"never", "up", "down"}
    /\ link = "never" => state \in {"PurgeInterface", "Discovering"}
    /\ link = "down" => ~LastUpdate

EventInv == EventInFlight /\ MonitorRight /\ LinkRight

\* What the client does on its own does not get it beyond Discovering.
LEMMA StaysDiscovering ==
    ASSUME WaitsWhere, state \in {"PurgeInterface", "Discovering"}, Step \/ Tick
    PROVE  state' \in {"PurgeInterface", "Discovering"}
<1>1. CASE Step
  BY <1>1 DEF WaitsWhere, Step, runStatePurgeInterface, runPostCallback, advanceState, NoReply,
              FailState, runStateArpCheck, PingDone, runStateIfconfig, ResetDone, runStateBound,
              WakeUp, LoopEnd
<1>2. CASE Tick
  BY <1>2 DEF Tick
<1> QED BY <1>1, <1>2

\* An update that is added is the last one; one that is an event stays one.
LEMMA UpdateAdded ==
    ASSUME updates \in Seq(BOOLEAN), oldState \in BOOLEAN, NEW up \in BOOLEAN,
           updates' = Append(updates, up), UNCHANGED oldState
    PROVE  /\ updates' \in Seq(BOOLEAN) /\ LastUpdate' = up
           /\ UpdateInFlight \/ (up /\ ~LastUpdate) => UpdateInFlight'
<1>1. Len(updates) \in Nat /\ DOMAIN updates = 1 .. Len(updates)
  OBVIOUS
<1>2. /\ updates' \in Seq(BOOLEAN) /\ Len(updates') = Len(updates) + 1
      /\ DOMAIN updates' = 1 .. Len(updates) + 1
      /\ updates'[Len(updates) + 1] = up
      /\ \A i \in 1 .. Len(updates) : updates'[i] = updates[i]
  BY <1>1
<1>3. LastUpdate' = up
  <2>1. updates' # <<>>
    BY <1>1, <1>2
  <2> QED BY <1>2, <2>1 DEF LastUpdate
<1>4. ASSUME UpdateInFlight PROVE UpdateInFlight'
  <2>1. PICK i \in DOMAIN updates : updates[i] /\ ~(IF i = 1 THEN oldState ELSE updates[i - 1])
    BY <1>4 DEF UpdateInFlight
  <2>2. i \in DOMAIN updates' /\ updates'[i] = updates[i] /\ (i # 1 => updates'[i - 1] = updates[i - 1])
    BY <1>1, <1>2, <2>1
  <2> QED BY <2>1, <2>2 DEF UpdateInFlight
<1>5. ASSUME up, ~LastUpdate PROVE UpdateInFlight'
  <2> DEFINE n == Len(updates) + 1
  <2>1. n \in DOMAIN updates' /\ updates'[n]
    BY <1>1, <1>2, <1>5
  <2>2. ~(IF n = 1 THEN oldState' ELSE updates'[n - 1])
    <3>1. CASE updates = <<>>
      BY <1>5, <3>1 DEF LastUpdate
    <3>2. CASE updates # <<>>
      <4>1. Len(updates) > 0 /\ ~updates[Len(updates)]
        BY <1>5, <3>2 DEF LastUpdate
      <4>2. n # 1 /\ n - 1 = Len(updates) /\ n - 1 \in 1 .. Len(updates)
        BY <1>1, <4>1
      <4>3. updates'[n - 1] = updates[Len(updates)]
        BY <1>2, <4>2
      <4> QED BY <4>1, <4>2, <4>3
    <3> QED BY <3>1, <3>2
  <2> QED BY <2>1, <2>2 DEF UpdateInFlight
<1> QED BY <1>2, <1>3, <1>4, <1>5

\* An update that is read is an event, or the one that is an event is still there.
LEMMA UpdateRead ==
    ASSUME updates \in Seq(BOOLEAN), oldState \in BOOLEAN, updates # <<>>,
           oldState' = Head(updates), updates' = Tail(updates)
    PROVE  /\ updates' \in Seq(BOOLEAN) /\ oldState' \in BOOLEAN /\ LastUpdate' = LastUpdate
           /\ UpdateInFlight => (oldState' /\ ~oldState) \/ UpdateInFlight'
<1>1. /\ Len(updates) \in Nat /\ Len(updates) > 0 /\ DOMAIN updates = 1 .. Len(updates)
      /\ oldState' = updates[1] /\ oldState' \in BOOLEAN
  OBVIOUS
<1>2. /\ updates' \in Seq(BOOLEAN) /\ Len(updates') = Len(updates) - 1
      /\ DOMAIN updates' = 1 .. Len(updates) - 1
      /\ \A i \in 1 .. Len(updates) - 1 : updates'[i] = updates[i + 1]
  BY <1>1
<1>3. LastUpdate' = LastUpdate
  <2>1. CASE Len(updates) = 1
    BY <1>1, <1>2, <2>1 DEF LastUpdate
  <2>2. CASE Len(updates) > 1
    <3>1. updates' # <<>> /\ updates'[Len(updates')] = updates[Len(updates)]
      <4> DEFINE n == Len(updates) - 1
      <4>1. n \in 1 .. Len(updates) - 1 /\ n + 1 = Len(updates) /\ Len(updates') = n
        BY <1>1, <1>2, <2>2
      <4>2. updates'[n] = updates[n + 1]
        BY <1>2, <4>1
      <4>3. updates' # <<>>
        BY <1>1, <1>2, <2>2, <4>1
      <4> QED BY <4>1, <4>2, <4>3
    <3> QED BY <2>2, <3>1 DEF LastUpdate
  <2> QED BY <1>1, <2>1, <2>2
<1>4. ASSUME UpdateInFlight, ~(oldState' /\ ~oldState) PROVE UpdateInFlight'
  <2>1. PICK i \in DOMAIN updates : updates[i] /\ ~(IF i = 1 THEN oldState ELSE updates[i - 1])
    BY <1>4 DEF UpdateInFlight
  <2>2. i # 1
    BY <1>1, <1>4, <2>1, Zenon
  <2>3. i - 1 \in DOMAIN updates' /\ updates'[i - 1] = updates[i]
    <3>1. i - 1 \in 1 .. Len(updates) - 1 /\ i - 1 + 1 = i
      BY <1>1, <2>1, <2>2
    <3> QED BY <1>2, <3>1
  <2>4. ~(IF i - 1 = 1 THEN oldState' ELSE updates'[i - 1 - 1])
    <3>1. CASE i = 2
      BY <1>1, <2>1, <3>1
    <3>2. CASE i # 2
      <4>1. i - 1 - 1 \in 1 .. Len(updates) - 1 /\ i - 1 - 1 + 1 = i - 1
        BY <1>1, <2>1, <2>2, <3>2
      <4> QED BY <1>1, <1>2, <2>1, <2>2, <3>2, <4>1
    <3> QED BY <3>1, <3>2
  <2> QED BY <2>1, <2>3, <2>4 DEF UpdateInFlight
<1> QED BY <1>1, <1>2, <1>3, <1>4

\* At the start no link has come up.
LEMMA EventInvInit == MClientInit => EventInv
BY DEF MClientInit, DClientInit, EventInv, EventInFlight, MonitorRight, LinkRight

\* Every step of Run, monitor, ifmon, the link and the hook keeps what is in flight.
LEMMA EventInvKeeps == Typed /\ EventInv /\ [MClientNext]_mclientVars => EventInv'
<1> SUFFICES ASSUME Typed, EventInv, [MClientNext]_mclientVars PROVE EventInv'
  OBVIOUS
<1> USE DEF EventInv, EventInFlight, MonitorRight, LinkRight
<1>a. ASSUME UNCHANGED <<updates, oldState>>
      PROVE  (UpdateInFlight' <=> UpdateInFlight) /\ LastUpdate' = LastUpdate
  BY <1>a DEF UpdateInFlight, LastUpdate
<1>1. CASE Runs \/ Waits
  <2>1. UNCHANGED <<cancelled, done, fresh, monVars, stale>>
    BY <1>1, MachineKeepsContext DEF Runs, Waits
  <2>2. link = "never" => state' \in {"PurgeInterface", "Discovering"}
    BY <1>1, StaysDiscovering DEF Runs, Waits, Typed
  <2> QED BY <1>a, <2>1, <2>2 DEF monVars
<1>2. CASE Hook
  BY <1>2, <1>a DEF Hook, dclientVars, machine, monVars
<1>3. CASE RunReturned
  BY <1>3, <1>a, NilAssumption DEF RunReturned, dclientVars, machine, monVars
<1>4. CASE Resumed
  <2>1. ~stale' /\ UNCHANGED <<ev, mon, done, link, updates, oldState>>
    BY <1>4 DEF Resumed
  <2>2. target' # "fresh"
    <3>1. target' = CASE target = "fresh" -> "dx"
                      [] target = "dx" -> "old"
                      [] OTHER -> target
      BY <1>4 DEF Resumed
    <3> QED BY <3>1, Zenon
  <2>3. state \in {"PurgeInterface", "Discovering"} => state' = "PurgeInterface"
    BY <1>4 DEF Resumed, ResumeClient
  <2> QED BY <1>a, <2>1, <2>2, <2>3
<1>5. CASE monitor
  BY <1>5, <1>a DEF monitor, dclientVars, machine
<1>6. CASE LoadCancel
  BY <1>6, <1>a DEF LoadCancel, dclientVars, machine
<1>7. CASE CallCancel
  <2>1. /\ mon = "cancel" /\ mon' = "select" /\ cancelled' = (cancelled \/ target = "dx")
        /\ fresh' = IF target = "fresh" THEN TRUE ELSE fresh
        /\ UNCHANGED <<state, done, link, updates, oldState, ev, stale>>
    BY <1>7 DEF CallCancel, machine
  <2>2. (fresh # nil => fresh' # nil) /\ (target = "fresh" => fresh' # nil)
    BY <2>1, NilAssumption
  <2>3. target = "dx" \/ cancelled => cancelled'
    BY <2>1
  <2>4. (UpdateInFlight' <=> UpdateInFlight) /\ LastUpdate' = LastUpdate
    BY <1>a, <2>1
  <2>5. EventInFlight'
    BY <2>1, <2>2, <2>3, <2>4
  <2>6. MonitorRight'
    BY <2>1, <2>2
  <2>7. LinkRight'
    BY <2>1, <2>4
  <2> QED BY <2>5, <2>6, <2>7
<1>8. CASE MonitorReturns
  BY <1>8, <1>a DEF MonitorReturns, dclientVars, machine
<1>9. CASE MonitorChanges
  <2>1. /\ UNCHANGED <<cancelled, state, done, fresh, link, mon, target, stale>>
        /\ updates # <<>> /\ oldState' = Head(updates) /\ updates' = Tail(updates)
    BY <1>9 DEF MonitorChanges, dclientVars, machine
  <2>2. /\ updates' \in Seq(BOOLEAN) /\ oldState' \in BOOLEAN /\ LastUpdate' = LastUpdate
        /\ UpdateInFlight => (oldState' /\ ~oldState) \/ UpdateInFlight'
    BY <2>1, UpdateRead
  <2>3. CASE (oldState' => oldState) /\ UNCHANGED ev
    BY <2>1, <2>2, <2>3
  <2>4. CASE ev' = ev + 1
    BY <2>1, <2>2, <2>4
  <2>5. CASE mon = "gone" /\ UNCHANGED ev
    BY <2>1, <2>2, <2>5
  <2> QED BY <1>9, <2>3, <2>4, <2>5 DEF MonitorChanges
<1>10. CASE LinkChanges
  <2>1. /\ UNCHANGED <<cancelled, state, done, fresh, oldState, ev, mon, target>>
        /\ link' \in IF link = "never" THEN {"never", "up"} ELSE {"down", "up"}
        /\ updates' = Append(updates, link' = "up")
    BY <1>10 DEF LinkChanges, dclientVars, machine
  <2>2. /\ updates' \in Seq(BOOLEAN) /\ LastUpdate' = (link' = "up")
        /\ UpdateInFlight \/ (link' = "up" /\ ~LastUpdate) => UpdateInFlight'
    BY <2>1, UpdateAdded
  <2>3. stale' => stale \/ (/\ link # "up" /\ link' = "up"
                           /\ state \notin {"PurgeInterface", "Discovering"})
    BY <1>10, Zenon DEF LinkChanges
  <2> QED BY <2>1, <2>2, <2>3
<1>11. CASE Shutdown
  <2>1. /\ done' = TRUE /\ fresh' = (IF fresh = nil THEN nil ELSE TRUE)
        /\ UNCHANGED <<state, link, updates, oldState, ev, mon, target>>
    BY <1>11 DEF Shutdown, machine, monVars
  <2>2. fresh # nil => fresh' # nil
    BY <2>1, NilAssumption
  <2>3. (UpdateInFlight' <=> UpdateInFlight) /\ LastUpdate' = LastUpdate
    BY <1>a, <2>1
  <2>4. EventInFlight'
    BY <2>1
  <2>5. MonitorRight'
    BY <2>1, <2>2
  <2>6. LinkRight'
    BY <2>1, <2>3
  <2> QED BY <2>4, <2>5, <2>6
<1>12. CASE UNCHANGED mclientVars
  BY <1>12, <1>a DEF mclientVars, dclientVars, machine, monVars
<1> QED
  BY <1>1, <1>2, <1>3, <1>4, <1>5, <1>6, <1>7, <1>8, <1>9, <1>10, <1>11, <1>12
  DEF MClientNext, Main, Monitor

-----------------------------------------------------------------------------
\* A cancelled client is not calm, and its Run returns only if it is cancelled:
\* a second cancellation changes nothing.
ContextInv ==
    /\ cancelled \in BOOLEAN /\ calm \in BOOLEAN /\ fresh \in BOOLEAN \cup {nil}
    /\ cancelled = TRUE => calm = FALSE
    /\ pc = "returned" => cancelled = TRUE

\* Run starts with a fresh context.
LEMMA ContextInvInit == MClientInit => ContextInv
BY DEF MClientInit, DClientInit, ContextInv

\* A step of the state machine keeps it: only a cancelled Run returns.
LEMMA MachineContext ==
    ASSUME ContextInv, Step \/ Arrival \/ Tick
    PROVE  /\ UNCHANGED cancelled
           /\ calm' \in {calm, FALSE}
           /\ pc' = "returned" => cancelled = TRUE
<1>1. CASE Step
  <2> USE DEF ContextInv, history
  <2>1. CASE runStatePurgeInterface
    BY <2>1 DEF runStatePurgeInterface
  <2>2. CASE runPostCallback
    BY <2>2 DEF runPostCallback
  <2>3. CASE advanceState
    BY <2>3 DEF advanceState
  <2>4. CASE NoReply
    BY <2>4 DEF NoReply
  <2>5. CASE runStateArpCheck \/ PingDone
    BY <2>5 DEF runStateArpCheck, PingDone
  <2>6. CASE runStateIfconfig
    BY <2>6 DEF runStateIfconfig
  <2>7. CASE ResetDone \/ WakeUp
    BY <2>7 DEF ResetDone, WakeUp
  <2>8. CASE runStateBound
    BY <2>8 DEF runStateBound
  <2>9. CASE LoopEnd
    BY <2>9 DEF LoopEnd
  <2> QED BY <1>1, <2>1, <2>2, <2>3, <2>4, <2>5, <2>6, <2>7, <2>8, <2>9 DEF Step
<1>2. CASE Arrival
  BY <1>2 DEF Arrival, catchReply, PingAnswered, panicReset
<1>3. CASE Tick
  BY <1>3 DEF Tick, ContextInv
<1> QED BY <1>1, <1>2, <1>3

\* A step of the main client is one of the state machine, or none.
LEMMA MClientStep ==
    ASSUME ContextInv, [MClientNext]_mclientVars
    PROVE  ContextInv' /\ [DClientNext]_dclientVars
<1>1. CASE Runs \/ Waits
  <2>1. (Step \/ Arrival \/ Tick) /\ UNCHANGED fresh
    BY <1>1 DEF Runs, Waits
  <2>2. ContextInv'
    BY <2>1, MachineContext DEF ContextInv
  <2> QED BY <2>1, <2>2 DEF DClientNext
<1>2. CASE UNCHANGED <<dclientVars, fresh>>
  BY <1>2 DEF ContextInv, dclientVars, machine, history
<1>3. CASE Hook \/ MonitorChanges \/ LinkChanges \/ monitor \/ LoadCancel \/ MonitorReturns
  BY <1>2, <1>3 DEF Hook, MonitorChanges, LinkChanges, monitor, LoadCancel, MonitorReturns
<1>4. CASE RunReturned
  <2>1. UNCHANGED dclientVars /\ fresh' \in {fresh, FALSE}
    BY <1>4 DEF RunReturned
  <2> QED BY <2>1 DEF ContextInv, dclientVars, machine, history
<1>5. CASE Resumed
  <2>1. fresh \in BOOLEAN /\ ResumeClient(fresh) /\ fresh' = nil
    BY <1>5 DEF Resumed, ContextInv
  <2>2. ContextInv'
    BY <2>1 DEF ResumeClient, ContextInv, history
  <2> QED BY <2>1, <2>2 DEF DClientNext
<1>6. CASE CallCancel
  <2>1. /\ cancelled' = (cancelled \/ target = "dx")
        /\ calm' = (calm /\ target # "dx")
        /\ fresh' \in {fresh, TRUE}
        /\ UNCHANGED <<machine, tokens, sys, granted, checked>>
    BY <1>6 DEF CallCancel
  <2>2. CASE target = "dx" /\ ~cancelled
    <3>1. Cancel
      BY <2>1, <2>2 DEF Cancel
    <3> QED BY <2>1, <3>1 DEF Cancel, ContextInv, DClientNext, machine
  <2>3. CASE ~(target = "dx" /\ ~cancelled)
    <3>1. UNCHANGED <<cancelled, calm>>
      BY <2>1, <2>3 DEF ContextInv
    <3> QED BY <2>1, <3>1 DEF ContextInv, dclientVars, machine, history
  <2> QED BY <2>2, <2>3
<1>7. CASE Shutdown
  <2>1. /\ cancelled' = TRUE /\ calm' = FALSE /\ fresh' \in {nil, TRUE}
        /\ UNCHANGED <<machine, tokens, sys, granted, checked>>
    BY <1>7 DEF Shutdown
  <2>2. CASE ~cancelled
    <3>1. Cancel
      BY <2>1, <2>2 DEF Cancel
    <3> QED BY <2>1, <3>1 DEF ContextInv, DClientNext, machine
  <2>3. CASE cancelled
    <3>1. UNCHANGED <<cancelled, calm>>
      BY <2>1, <2>3 DEF ContextInv
    <3> QED BY <2>1, <3>1 DEF ContextInv, dclientVars, machine, history
  <2> QED BY <2>2, <2>3
<1>8. CASE UNCHANGED mclientVars
  BY <1>2, <1>8 DEF mclientVars
<1> QED
  BY <1>1, <1>3, <1>4, <1>5, <1>6, <1>7, <1>8 DEF MClientNext, Main, Monitor

\* To the state machine, monitor and Run are a context that is cancelled and
\* replaced at any time (mclient.go:43-66).
THEOREM ClientImplements == MClientSafety => ImplementsDClient
<1>1. MClientInit => DClientInit
  BY DEF MClientInit
<1>2. ContextInv /\ [MClientNext]_mclientVars => ContextInv' /\ [DClientNext]_dclientVars
  BY MClientStep
<1> QED BY <1>1, <1>2, ContextInvInit, PTL DEF MClientSafety, ImplementsDClient, DClientSafety

\* When the link comes up and the client has a reply, the news is not lost
\* (netlink.go:21-31, mclient.go:40-63).
THEOREM NoEventLost == MClientSafety => []EventInFlight
<1>1. EventInv => EventInFlight
  BY DEF EventInv
<1>2. MClientInit => DClientInit
  BY DEF MClientInit
<1> QED
  BY <1>1, <1>2, TypedInit, TypedKeeps, ContextInvInit, MClientStep, EventInvInit, EventInvKeeps, PTL
  DEF MClientSafety

\* So what is proved of the state machine holds in the program, whose monitor,
\* Run and script run beside it.
THEOREM MainClientSafe ==
    MClientSafety => [](AddressLeased /\ NothingLeft /\ BoundConfigured /\ AddressChecked
                        /\ DeadlinesWithinLease)
BY ClientImplements, AddressesLeased, NothingIsLeft, BoundIsConfigured, AddressIsChecked,
   DeadlinesRight, PTL DEF ImplementsDClient
-----------------------------------------------------------------------------
\* A script runs only while the client waits for it, and the one of a bound
\* client is told its lease.
ScriptRight ==
    /\ pc # "script" => hook \in Ended
    /\ state = "Bound" => env = last

\* A hook that did not fail has done its work.
HookDone == hook = "ok" /\ HasServers => conf.of = env

ConfInv == HookInv /\ ScriptRight /\ HookDone

\* At the start there is no lease.
LEMMA ConfInvInit == MClientInit => ConfInv
<1> SUFFICES ASSUME MClientInit PROVE ConfInv
  OBVIOUS
<1>1. HookInv
  BY HookInvInit DEF MClientInit
<1> QED BY <1>1 DEF MClientInit, DClientInit, HookInit, ConfInv, ScriptRight, HookDone, HasServers, Ended

\* A step of the hook, which is not the start of one.
LEMMA HookNextDone == HookInv /\ HookDone /\ (HookNext \/ Kill) => HookDone' /\ UNCHANGED env
<1> SUFFICES ASSUME HookInv, HookDone, HookNext \/ Kill PROVE HookDone' /\ UNCHANGED env
  OBVIOUS
<1> USE DEF HookInv, TmpReady, HookDone, HasServers, File
<1>1. CASE Run
  BY <1>1 DEF Run
<1>2. CASE Write \/ Chmod \/ Remove \/ Kill
  BY <1>2 DEF Write, Chmod, Remove, Kill
<1>3. CASE Rename
  BY <1>3 DEF Rename
<1> QED BY <1>1, <1>2, <1>3 DEF HookNext

\* The last reply of a bound client is the one it was bound with.
LEMMA BoundKeepsLast ==
    Typed /\ [DClientNext]_dclientVars /\ state' = "Bound" => UNCHANGED last
<1> SUFFICES ASSUME Typed, [DClientNext]_dclientVars, state' = "Bound" PROVE UNCHANGED last
  OBVIOUS
<1>1. CASE state # "Bound"
  BY <1>1, IntoBound DEF runStateIfconfig
<1>2. CASE state = "Bound"
  BY <1>2, StayBound DEF runPostCallback, runStateBound, LoopEnd, Tick, Cancel, dclientVars, machine
<1> QED BY <1>1, <1>2

\* The script is started with the lease, waited for or killed.
LEMMA ConfInvKeeps ==
    Typed /\ ConfInv /\ [DClientNext]_dclientVars /\ [MClientNext]_mclientVars => ConfInv'
<1> SUFFICES ASSUME Typed, ConfInv, [DClientNext]_dclientVars, [MClientNext]_mclientVars
             PROVE  ConfInv'
  OBVIOUS
<1>1. HookInv'
  BY MClientHookStep, HookStepKeeps DEF ConfInv
<1>2. state' = "Bound" => UNCHANGED last
  BY BoundKeepsLast
<1> USE DEF ConfInv, ScriptRight
<1>3. CASE Runs
  <2>1. CASE Silently
    <3>1. pc # "script" /\ pc' # "script" /\ UNCHANGED hookVars
      BY <2>1 DEF Silently
    <3>2. state' = "Bound" => state = "Bound"
      BY <3>1, IntoBound
    <3> QED BY <1>1, <1>2, <3>1, <3>2 DEF hookVars, HookDone, HasServers
  <2>2. CASE pc # "script" /\ pc' = "script" /\ Cbhandler(IF state' = "Bound" THEN last ELSE unset)
    BY <1>1, <1>2, <2>2 DEF Cbhandler, HookDone, HasServers
  <2>3. CASE pc = "script" /\ hook \in Ended /\ UNCHANGED hookVars
    <3>1. state' = "Bound" => state = "Bound"
      BY <2>3, IntoBound DEF runStateIfconfig
    <3> QED BY <1>1, <1>2, <2>3, <3>1 DEF hookVars, HookDone, HasServers
  <2>4. CASE pc = "script" /\ Kill
    <3>1. state' = "Bound" => state = "Bound"
      BY <2>4, IntoBound DEF runStateIfconfig
    <3>2. HookDone' /\ UNCHANGED env /\ hook' \in Ended
      BY <2>4, HookNextDone DEF Kill, Ended
    <3> QED BY <1>1, <1>2, <3>1, <3>2
  <2> QED BY <1>3, <2>1, <2>2, <2>3, <2>4 DEF Runs, Callback
<1>4. CASE Hook
  <2>1. HookNext /\ UNCHANGED <<pc, state, last>>
    BY <1>4 DEF Hook, dclientVars, machine
  <2>2. HookDone' /\ UNCHANGED env
    BY <2>1, HookNextDone
  <2>3. hook \notin Ended
    BY <2>1 DEF HookNext, Run, Write, Chmod, Rename, Remove, Ended
  <2> QED BY <1>1, <2>1, <2>2, <2>3
<1>5. CASE ~Runs /\ ~Hook
  <2>1. UNCHANGED hookVars
    BY <1>5 DEF MClientNext, Waits, Main, RunReturned, Resumed, Monitor, monitor, LoadCancel,
                CallCancel, MonitorReturns, MonitorChanges, LinkChanges, Shutdown, mclientVars
  <2>2. (pc = "script" => pc' = "script") /\ (state' = "Bound" => state = "Bound")
    <3>1. CASE Waits
      <4>1. CASE Tick
        BY <4>1 DEF Tick
      <4>2. CASE Arrival
        BY <4>2, IntoBound DEF Arrival, catchReply, PingAnswered, runStateIfconfig
      <4> QED BY <3>1, <4>1, <4>2 DEF Waits
    <3>2. CASE Resumed
      BY <3>2 DEF Resumed, ResumeClient
    <3>3. CASE ~Waits /\ ~Resumed
      BY <1>5, <3>3 DEF MClientNext, Main, RunReturned, Monitor, monitor, LoadCancel,
                CallCancel, MonitorReturns, MonitorChanges, LinkChanges, Shutdown,
                mclientVars, dclientVars, machine
    <3> QED BY <3>1, <3>2, <3>3
  <2> QED BY <1>1, <1>2, <2>1, <2>2 DEF hookVars, HookDone, HasServers
<1> QED BY <1>3, <1>4, <1>5

\* While a bound client sleeps and its hook has not failed, /etc/resolv.conf has
\* the name servers of its lease (callback.go:29-61, resolvconf.go:19-54).
THEOREM ConfIsCurrent == MClientSafety => []ConfCurrent
<1>1. Typed /\ ConfInv => ConfCurrent
  <2> SUFFICES ASSUME Typed, ConfInv, state = "Bound", hook = "ok", last.dns
               PROVE  conf.of = last
    BY DEF ConfCurrent
  <2>1. last \in Msg /\ env = last
    BY DEF Typed, LastVerified, ConfInv, ScriptRight
  <2>2. HasServers
    BY <2>1, UnsetAssumption DEF HasServers
  <2> QED BY <2>1, <2>2 DEF ConfInv, HookDone
<1>2. MClientInit => DClientInit
  BY DEF MClientInit
<1> QED
  BY <1>1, <1>2, TypedInit, TypedKeeps, ContextInvInit, MClientStep, ConfInvInit, ConfInvKeeps, PTL
  DEF MClientSafety
=============================================================================
