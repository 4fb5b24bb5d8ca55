------------------------------- MODULE MClient -------------------------------
(***************************************************************************)
(* The main client, lib/client/mclient.go: Run drives the state machine of *)
(* DClient; a monitor goroutine cancels the state machine's context when   *)
(* lib/ifmon reports that the link came up, and Run starts it again under  *)
(* a new context.  The monitor reaches the context's cancel function       *)
(* through a pointer to the variable dcancel, which Run assigns without a  *)
(* lock: the function it has read may belong to the context of the state   *)
(* machine ("dx"), to one Run has made but not handed over ("fresh") or to *)
(* one that is no longer in use ("old").  The callback script is the hook  *)
(* of ResolvConf, which runs beside all that until it exits or is killed.  *)
(*                                                                         *)
(* The kernel reports a change of the link, and other changes of the       *)
(* interface, as an update with the link's flag.  ifmon takes the link for *)
(* up when it starts, so the first coming up of a link that was down then  *)
(* is no event; no reply comes in before the link has been up.             *)
(***************************************************************************)
EXTENDS DClient, ResolvConf, Sequences

CONSTANTS
    EvCap,       \* the capacity of the channel of events, 64
    MaxUpdates   \* bound: updates ifmon has not read

ASSUME EvCapAssumption == EvCap \in Nat \ {0} /\ MaxUpdates \in Nat
ASSUME NilAssumption == nil \notin BOOLEAN
ASSUME UnsetAssumption == unset \notin Msg

VARIABLES
    done,     \* ctx.Err() # nil, for the context of the program
    exited,   \* Run has returned
    fresh,    \* is the context that is not handed over yet done? nil: there is none
    link,     \* the link is "up" or "down", or was "never" up since the start
    updates,  \* of the kernel, for each whether the link was up
    oldState, \* oldState of ifmon: the link was up
    ev,       \* events in the channel
    mon,      \* where the monitor is
    target,   \* the cancel function it has read
    stale     \* the link came up when the client had a reply, and the state
              \* machine has not been resumed since

monVars == <<link, updates, oldState, ev, mon, target>>
mclientVars == <<dclientVars, hookVars, done, exited, fresh, monVars, stale>>

MClientInit ==
    /\ DClientInit /\ HookInit
    /\ done = FALSE /\ exited = FALSE /\ fresh = nil
    /\ link \in {"never", "up"} /\ updates = <<>> /\ oldState = TRUE
    /\ ev = 0 /\ mon = "select" /\ target = nil
    /\ stale = FALSE

\* A step of the state machine that starts no script and waits for none.
Silently == pc # "script" /\ pc' # "script" /\ UNCHANGED hookVars

\* The script is started, and waited for: it exits, or is killed when its time
\* is over or the context is cancelled.
Callback ==
    \/ pc # "script" /\ pc' = "script" /\ Cbhandler(IF state' = "Bound" THEN last ELSE unset)
    \/ pc = "script" /\ hook \in Ended /\ UNCHANGED hookVars
    \/ pc = "script" /\ (wait = 0 \/ cancelled) /\ Kill

\* The state machine runs, up to the return of its Run.
Runs ==
    /\ ~exited
    /\ Step
    /\ Silently \/ Callback
    /\ UNCHANGED <<done, exited, fresh, monVars, stale>>

Waits ==
    /\ ~exited
    /\ Tick \/ (Arrival /\ link # "never")
    /\ UNCHANGED <<hookVars, done, exited, fresh, monVars, stale>>

Hook == HookNext /\ UNCHANGED <<dclientVars, done, exited, fresh, monVars, stale>>

\* Its Run has returned: the program ends, or there is a new context.
RunReturned ==
    /\ ~exited /\ pc = "returned" /\ fresh = nil
    /\ \/ done /\ exited' = TRUE /\ UNCHANGED fresh
       \/ ~done /\ fresh' = FALSE /\ UNCHANGED exited
    /\ UNCHANGED <<dclientVars, hookVars, done, monVars, stale>>

ResumedAsIs ==
    /\ fresh # nil /\ pc = "returned"
    /\ cancelled' = fresh /\ pc' = "loop"
    /\ fresh' = nil
    /\ target' = CASE target = "fresh" -> "dx"
                   [] target = "dx" -> "old"
                   [] OTHER -> target
    /\ stale' = FALSE
    /\ UNCHANGED <<state, wait, last, left, tokens, sys, history, hookVars,
                   done, exited, link, updates, oldState, ev, mon>>

\* The context is handed over.  Whatever cancelled the old one is now too late.
Resumed ==
    /\ fresh # nil
    /\ ResumeClient(fresh)
    /\ fresh' = nil
    /\ target' = CASE target = "fresh" -> "dx"
                   [] target = "dx" -> "old"
                   [] OTHER -> target
    /\ stale' = FALSE
    /\ UNCHANGED <<hookVars, done, exited, link, updates, oldState, ev, mon>>

\* The link changes, or something else about the interface does.
LinkChanges ==
    /\ ~exited
    /\ Len(updates) < MaxUpdates
    /\ link' \in IF link = "never" THEN {"never", "up"} ELSE {"down", "up"}
    /\ updates' = Append(updates, link' = "up")
    /\ stale' = (stale \/ /\ link # "up" /\ link' = "up"
                          /\ state \notin {"PurgeInterface", "Discovering"})
    /\ UNCHANGED <<dclientVars, hookVars, done, exited, fresh, oldState, ev, mon, target>>

MonitorChangesUpOnly ==
    /\ ~exited /\ updates # <<>>
    /\ oldState' = (oldState \/ Head(updates)) /\ updates' = Tail(updates)
    /\ \/ (Head(updates) => oldState) /\ UNCHANGED <<ev, exited>>
       \/ /\ Head(updates) /\ ~oldState /\ mon # "gone"
          /\ ev < EvCap /\ ev' = ev + 1
          /\ UNCHANGED exited
       \/ /\ Head(updates) /\ ~oldState /\ mon = "gone"
          /\ exited' = TRUE
          /\ UNCHANGED ev
    /\ UNCHANGED <<dclientVars, hookVars, done, fresh, link, mon, target, stale>>

\* ifmon.MonitorChanges: an event for an update with a link that comes back up.
\* It may see one before it sees that its context is done, and panics if the
\* channel is closed by then.
MonitorChanges ==
    /\ ~exited /\ updates # <<>>
    /\ oldState' = Head(updates) /\ updates' = Tail(updates)
    /\ \/ (oldState' => oldState) /\ UNCHANGED <<ev, exited>>
       \/ /\ oldState' /\ ~oldState /\ mon # "gone"
          /\ ev < EvCap /\ ev' = ev + 1
          /\ UNCHANGED exited
       \/ /\ oldState' /\ ~oldState /\ mon = "gone"
          /\ exited' = TRUE
          /\ UNCHANGED ev
    /\ UNCHANGED <<dclientVars, hookVars, done, fresh, link, mon, target, stale>>

\* The monitor gets an event, and drops all others that are there (flushChan).
monitor ==
    /\ mon = "select" /\ ev > 0
    /\ ev' = 0
    /\ mon' = "load"
    /\ UNCHANGED <<dclientVars, hookVars, done, exited, fresh, link, updates, oldState, target, stale>>

\* It reads *cancel ...
LoadCancel ==
    /\ mon = "load"
    /\ target' = IF fresh # nil THEN "fresh" ELSE "dx"
    /\ mon' = "cancel"
    /\ UNCHANGED <<dclientVars, hookVars, done, exited, fresh, link, updates, oldState, ev, stale>>

CallCancelThenFlush ==
    /\ mon = "cancel"
    /\ cancelled' = (cancelled \/ target = "dx")
    /\ fresh' = IF target = "fresh" THEN TRUE ELSE fresh
    /\ ev' = 0
    /\ mon' = "select"
    /\ target' = nil
    /\ calm' = (calm /\ target # "dx")
    /\ UNCHANGED <<machine, tokens, sys, granted, checked, hookVars,
                   done, exited, link, updates, oldState, stale>>

\* ... and calls what it has read.
CallCancel ==
    /\ mon = "cancel"
    /\ cancelled' = (cancelled \/ target = "dx")
    /\ fresh' = IF target = "fresh" THEN TRUE ELSE fresh
    /\ mon' = "select"
    /\ target' = nil
    /\ calm' = (calm /\ target # "dx")
    /\ UNCHANGED <<machine, tokens, sys, granted, checked, hookVars,
                   done, exited, link, updates, oldState, ev, stale>>

\* The monitor returns with the context of the program, and closes the channel.
MonitorReturns ==
    /\ mon = "select" /\ done
    /\ mon' = "gone"
    /\ UNCHANGED <<dclientVars, hookVars, done, exited, fresh, link, updates, oldState, ev, target, stale>>

\* The context of the program is done, and with it all that descend from it.
Shutdown ==
    /\ ~done
    /\ done' = TRUE
    /\ cancelled' = TRUE
    /\ fresh' = IF fresh = nil THEN nil ELSE TRUE
    /\ calm' = FALSE
    /\ UNCHANGED <<machine, tokens, sys, granted, checked, hookVars,
                   exited, monVars, stale>>

Main == RunReturned \/ Resumed

Monitor == monitor \/ LoadCancel \/ CallCancel \/ MonitorReturns

MClientNext ==
    Runs \/ Waits \/ Hook \/ Main \/ Monitor \/ MonitorChanges \/ LinkChanges \/ Shutdown

MClientSafety == MClientInit /\ [][MClientNext]_mclientVars

\* The goroutines run, ifmon's as long as its context is not done, and a script,
\* a ping and a read whose context is done end; nothing is assumed of the
\* network, the link or the clock.
MClientSpec ==
    /\ MClientSafety
    /\ WF_mclientVars(Runs)
    /\ WF_mclientVars(Main)
    /\ WF_mclientVars(Monitor)
    /\ WF_mclientVars(~done /\ MonitorChanges)
-----------------------------------------------------------------------------
(***************************************************************************)
(* Properties.                                                             *)
(***************************************************************************)
Exits == exited \/ pc = "bananas"

\* Is an update with a link that came back up still to be read?
UpdateInFlight ==
    \E i \in DOMAIN updates :
        updates[i] /\ ~(IF i = 1 THEN oldState ELSE updates[i - 1])

\* When the link comes up and the client has a reply already, the news is not
\* lost between the kernel, ifmon, the channel that is flushed, the pointer to a
\* cancel function that changes under the monitor and the two steps in which
\* Run replaces the context (netlink.go:21-31, mclient.go:40-49, 58-63): until
\* the state machine is resumed, somebody still holds it.
EventInFlight ==
    stale =>
        \/ UpdateInFlight
        \/ ev > 0
        \/ mon = "load"
        \/ mon = "cancel" /\ target \in {"dx", "fresh"}
        \/ cancelled
        \/ fresh # nil
        \/ done

\* What the client has agreed on before the link came up is validated anew: the
\* state machine is resumed, in whatever state it waits, or the program ends.
\* A link that comes up for the first time is no event (netlink.go:21), and
\* need not be one: no client has a reply then.
LinkUpRevalidates == stale ~> ~stale \/ Exits

\* The program ends when its context is done, be it with a panic.
ShutdownExits == done ~> Exits

\* While a bound client sleeps and its hook has not failed, /etc/resolv.conf has
\* the name servers of its lease, if it has any (callback.go:29-61,
\* resolvconf.go:19-54): also after one that was killed half way.
ConfCurrent ==
    state = "Bound" /\ pc = "sleep" /\ hook = "ok" /\ last.dns => conf.of = last

\* To the state machine, the monitor and Run are a context that is cancelled
\* and replaced at any time.
ImplementsDClient == DClientSafety
=============================================================================
