---------------------------- MODULE AppLifecycle ----------------------------
(***************************************************************************)
(* What nanoinit promises about one configured application, whatever the   *)
(* supervisor does in between: the life cycle that "nanoinit status" and   *)
(* the autorestart option describe.                                        *)
(*                                                                         *)
(*   stopped   no process, and none will be started by itself              *)
(*   running   a process that is meant to run                              *)
(*   stopping  a process that an operator, or a failed start, gave up      *)
(*   backoff   no process, a restart is scheduled                          *)
(*                                                                         *)
(* The content is in the steps that are missing: a stopping application is *)
(* never restarted, an application without autorestart never waits for a   *)
(* restart, and the applications are replaced by those of a new            *)
(* configuration only when none of the old ones has a process.             *)
(***************************************************************************)
CONSTANT Slots

VARIABLES status, autorestart

vars == <<status, autorestart>>

Statuses == {"stopped", "running", "stopping", "backoff"}

Init ==
    /\ status = [i \in Slots |-> "stopped"]
    /\ autorestart \in [Slots -> BOOLEAN]

Move(i, from, to) ==
    /\ status[i] \in from
    /\ status' = [status EXCEPT ![i] = to]
    /\ autorestart' = autorestart

(* A process is started, or a stopping one is wanted again. *)
Start(i) == Move(i, {"stopped", "backoff", "stopping"}, "running")

(* A stop request, or a start that was reported as failed. *)
GiveUp(i) == Move(i, {"running"}, "stopping") \/ Move(i, {"backoff"}, "stopped")

(* The process has ended and is reaped. *)
Ended(i) == Move(i, {"running", "stopping"}, "stopped")

(* The process has ended, or could not be started, and will be retried. *)
Backoff(i) == autorestart[i] /\ Move(i, {"running", "stopped"}, "backoff")

(* The applications of a new configuration. *)
Replace ==
    /\ \A i \in Slots : status[i] \in {"stopped", "backoff"}
    /\ status' = [i \in Slots |-> "stopped"]
    /\ autorestart' \in [Slots -> BOOLEAN]

Next ==
    \/ Replace
    \/ \E i \in Slots : Start(i) \/ GiveUp(i) \/ Ended(i) \/ Backoff(i)

Spec == Init /\ [][Next]_vars
=============================================================================
