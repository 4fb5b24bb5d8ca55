----------------------------- MODULE ResolvConf -----------------------------
(***************************************************************************)
(* The hook behind -resolvconf, lib/resolvconf: a process that the client  *)
(* starts as its callback script (lib/client/callback) and that replaces   *)
(* /etc/resolv.conf.  Every system call may fail, and the client may kill  *)
(* the process between any two of them.  What the hook is told by its      *)
(* environment is the lease, or unset when there is none; a file is the    *)
(* lease it was written for, whether all of it is there, and its mode.     *)
(***************************************************************************)
CONSTANT unset   \* no lease, no file

VARIABLES
    hook,   \* where the hook is, or how the last one has ended
    env,    \* its environment
    tmp,    \* its temporary file
    conf    \* /etc/resolv.conf

hookVars == <<hook, env, tmp, conf>>

File(of, whole, mode) == [of |-> of, whole |-> whole, mode |-> mode]

Ended == {"ok", "failed", "killed"}

\* At the start the file is somebody else's.
HookInit ==
    /\ hook = "ok" /\ env = unset /\ tmp = unset
    /\ conf = File(unset, TRUE, "0644")

\* Cbhandler starts the process for a lease or, with unset, without one.
Cbhandler(lease) ==
    /\ hook \in Ended
    /\ hook' = "run" /\ env' = lease
    /\ tmp' = unset
    /\ UNCHANGED conf

HasServers == env # unset /\ env.dns

\* Nothing is done without name servers; the file is made in /etc.
Run ==
    /\ hook = "run"
    /\ \/ /\ ~HasServers
          /\ hook' = "ok"
          /\ UNCHANGED tmp
       \/ /\ HasServers
          /\ \/ tmp' = File(env, FALSE, "0600") /\ hook' = "write"
             \/ hook' = "failed" /\ UNCHANGED tmp
    /\ UNCHANGED <<env, conf>>

\* Mutants, here and below: plausible mistakes, each of which breaks a property.
WriteUnchecked ==
    /\ hook = "write"
    /\ tmp' \in {tmp, [tmp EXCEPT !.whole = TRUE]} /\ hook' = "chmod"
    /\ UNCHANGED <<env, conf>>

\* Write and Close; either may fail.
Write ==
    /\ hook = "write"
    /\ \/ tmp' = [tmp EXCEPT !.whole = TRUE] /\ hook' = "chmod"
       \/ tmp' \in {tmp, [tmp EXCEPT !.whole = TRUE]} /\ hook' = "remove"
    /\ UNCHANGED <<env, conf>>

Chmod ==
    /\ hook = "chmod"
    /\ \/ tmp' = [tmp EXCEPT !.mode = "0644"] /\ hook' = "rename"
       \/ UNCHANGED tmp /\ hook' = "remove"
    /\ UNCHANGED <<env, conf>>

RenameUnchecked ==
    /\ hook = "rename"
    /\ \/ conf' = tmp /\ tmp' = unset
       \/ UNCHANGED <<tmp, conf>>
    /\ hook' = "ok"
    /\ UNCHANGED env

Rename ==
    /\ hook = "rename"
    /\ \/ conf' = tmp /\ tmp' = unset /\ hook' = "ok"
       \/ hook' = "remove" /\ UNCHANGED <<tmp, conf>>
    /\ UNCHANGED env

\* The deferred function; its own error is ignored.
Remove ==
    /\ hook = "remove"
    /\ tmp' \in {unset, tmp}
    /\ hook' = "failed"
    /\ UNCHANGED <<env, conf>>

\* CommandContext kills the process; what it was working on stays in /etc.
Kill ==
    /\ hook \notin Ended
    /\ hook' = "killed"
    /\ UNCHANGED <<env, tmp, conf>>

HookNext == Run \/ Write \/ Chmod \/ Rename \/ Remove
-----------------------------------------------------------------------------
\* Whatever fails and wherever the hook is killed, /etc/resolv.conf is the old
\* file or a whole new one that everybody may read and that names servers
\* (resolvconf.go:41-44, 56-90).
ConfWhole ==
    conf.whole /\ conf.mode = "0644" /\ (conf.of = unset \/ conf.of.dns)
=============================================================================
