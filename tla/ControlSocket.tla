---------------------------- MODULE ControlSocket ---------------------------
(***************************************************************************)
(* Several invocations of nanoinit on one control socket path: the check   *)
(* in main(), supervisor_start_control_socket() with its recovery from a   *)
(* stale socket file, supervisor_close_control_socket(), the second start  *)
(* after a reload, and crashes that leave the socket file behind.          *)
(*                                                                         *)
(* The file system holds at most one node under the path.  A node belongs  *)
(* to the invocation that bound it; connect() succeeds on it only while    *)
(* that invocation listens.                                                *)
(*                                                                         *)
(* A definition marked "Mutant" is a wrong variant of the next one, used   *)
(* only to show which property would notice.                               *)
(***************************************************************************)
EXTENDS Naturals, FiniteSets

CONSTANTS
    Instances,      \* invocations of nanoinit without a control command
    SerialModes,    \* whether startups and shutdowns may overlap, see below
    MaxReloads,     \* bound: reloads, of all invocations together
    MaxSetbacks     \* bound: invocations that are killed or fail to listen

NoNode == 0

ASSUME InstancesAssumption == NoNode \notin Instances
ASSUME SerialModesAssumption == SerialModes \subseteq BOOLEAN
ASSUME BoundsAssumption == MaxReloads \in Nat /\ MaxSetbacks \in Nat

VARIABLES
    serial,         \* TRUE: an invocation starts or stops only by itself
    ipc,            \* where each invocation is
    sock,           \* its socket: none, bound or listening
    node,           \* the invocation whose socket is found under the path
    reloads, setbacks,
    served          \* history: some invocation has listened

vars == <<serial, ipc, sock, node, reloads, setbacks, served>>

Labels == {"idle", "start", "bind", "probe", "unlink", "rebind", "listen",
           "run", "close", "close_unlink", "wait", "help", "failed",
           "listen_failed", "done", "crashed"}

(* An invocation has a bound or listening socket exactly where it should.  *)
TypeOK ==
    /\ serial \in SerialModes
    /\ ipc \in [Instances -> Labels]
    /\ sock \in [Instances -> {"none", "bound", "listening"}]
    /\ node \in Instances \cup {NoNode}
    /\ reloads \in 0..MaxReloads
    /\ setbacks \in 0..MaxSetbacks
    /\ served \in BOOLEAN
    /\ \A i \in Instances : /\ sock[i] = "bound" <=> ipc[i] = "listen"
                            /\ sock[i] = "listening" <=> ipc[i] \in {"run", "close"}

(* There is no socket file, or one that a killed nanoinit has left.        *)
Init ==
    /\ serial \in SerialModes
    /\ node \in Instances \cup {NoNode}
    /\ ipc = [i \in Instances |-> IF i = node THEN "crashed" ELSE "idle"]
    /\ sock = [i \in Instances |-> "none"]
    /\ reloads = 0
    /\ setbacks = 0
    /\ served = FALSE

(* Mutant: the socket is never found active. *)
SocketNeverActive == FALSE

(* control_socket_is_active(): connect() and close. *)
SocketIsActive == node # NoNode /\ sock[node] = "listening"

(* The invocation neither is about to change the socket nor will be        *)
(* without being asked to.                                                 *)
Settled(i) == ipc[i] \in {"idle", "run", "help", "failed", "listen_failed", "done", "crashed"}

AloneIfSerial(i) == serial => \A j \in Instances \ {i} : Settled(j)

Goto(i, from, to) == ipc[i] = from /\ ipc' = [ipc EXCEPT ![i] = to]

Launch(i) ==
    /\ AloneIfSerial(i)
    /\ Goto(i, "idle", "start")
    /\ UNCHANGED <<serial, sock, node, reloads, setbacks, served>>

(* main(): help instead of a second supervisor. *)
CheckActive(i) ==
    /\ Goto(i, "start", IF SocketIsActive THEN "help" ELSE "bind")
    /\ UNCHANGED <<serial, sock, node, reloads, setbacks, served>>

TakePath(i) ==
    /\ node' = i
    /\ sock' = [sock EXCEPT ![i] = "bound"]

(* Mutant: EADDRINUSE is ignored. *)
BindIgnoringInUse(i) ==
    /\ Goto(i, "bind", "listen")
    /\ sock' = [sock EXCEPT ![i] = "bound"]
    /\ node' = IF node = NoNode THEN i ELSE node
    /\ UNCHANGED <<serial, reloads, setbacks, served>>

Bind(i) ==
    /\ \/ node = NoNode /\ TakePath(i) /\ Goto(i, "bind", "listen")
       \/ node # NoNode /\ Goto(i, "bind", "probe") /\ UNCHANGED <<sock, node>>
    /\ UNCHANGED <<serial, reloads, setbacks, served>>

(* Mutant: a socket file in the way is an error. *)
ProbeGivesUp(i) ==
    /\ Goto(i, "probe", "failed")
    /\ UNCHANGED <<serial, sock, node, reloads, setbacks, served>>

(* bind() said EADDRINUSE: is anybody listening? *)
Probe(i) ==
    /\ Goto(i, "probe", IF SocketIsActive THEN "failed" ELSE "unlink")
    /\ UNCHANGED <<serial, sock, node, reloads, setbacks, served>>

(* Mutant: the stale file stays. *)
UnlinkStaleForgotten(i) ==
    /\ Goto(i, "unlink", "rebind")
    /\ UNCHANGED <<serial, sock, node, reloads, setbacks, served>>

UnlinkStale(i) ==
    /\ Goto(i, "unlink", "rebind")
    /\ node' = NoNode
    /\ UNCHANGED <<serial, sock, reloads, setbacks, served>>

Rebind(i) ==
    /\ \/ node = NoNode /\ TakePath(i) /\ Goto(i, "rebind", "listen")
       \/ node # NoNode /\ Goto(i, "rebind", "failed") /\ UNCHANGED <<sock, node>>
    /\ UNCHANGED <<serial, reloads, setbacks, served>>

Listen(i) ==
    /\ \/ /\ Goto(i, "listen", "run")
          /\ sock' = [sock EXCEPT ![i] = "listening"]
          /\ served' = TRUE
          /\ UNCHANGED <<node, setbacks>>
       \/ /\ setbacks < MaxSetbacks
          /\ setbacks' = setbacks + 1
          /\ Goto(i, "listen", "listen_failed")
          /\ sock' = [sock EXCEPT ![i] = "none"]
          /\ node' = NoNode
          /\ served' = served
    /\ UNCHANGED <<serial, reloads>>

(* A stop or reload signal ends the main loop. *)
Signalled(i) ==
    /\ AloneIfSerial(i)
    /\ Goto(i, "run", "close")
    /\ UNCHANGED <<serial, sock, node, reloads, setbacks, served>>

(* Mutant: the descriptor leaks. *)
CloseFdForgotten(i) ==
    /\ Goto(i, "close", "close_unlink")
    /\ UNCHANGED <<serial, sock, node, reloads, setbacks, served>>

(* supervisor_close_control_socket(): the descriptor first, then the name, *)
(* whoever has bound it in the meantime.                                   *)
CloseFd(i) ==
    /\ Goto(i, "close", "close_unlink")
    /\ sock' = [sock EXCEPT ![i] = "none"]
    /\ UNCHANGED <<serial, node, reloads, setbacks, served>>

UnlinkOwn(i) ==
    /\ Goto(i, "close_unlink", "wait")
    /\ node' = NoNode
    /\ UNCHANGED <<serial, sock, reloads, setbacks, served>>

(* The applications have ended: exit, or start over after SIGUSR1. *)
AppsEnded(i) ==
    /\ \/ Goto(i, "wait", "done") /\ reloads' = reloads
       \/ /\ reloads < MaxReloads
          /\ Goto(i, "wait", "bind")
          /\ reloads' = reloads + 1
    /\ UNCHANGED <<serial, sock, node, setbacks, served>>

(* The process is killed; the kernel closes its socket, the name stays. *)
Crash(i) ==
    /\ setbacks < MaxSetbacks
    /\ ipc[i] \notin {"idle", "help", "failed", "listen_failed", "done", "crashed"}
    /\ ipc' = [ipc EXCEPT ![i] = "crashed"]
    /\ sock' = [sock EXCEPT ![i] = "none"]
    /\ setbacks' = setbacks + 1
    /\ UNCHANGED <<serial, node, reloads, served>>

Step(i) ==
    \/ CheckActive(i) \/ Bind(i) \/ Probe(i) \/ UnlinkStale(i) \/ Rebind(i)
    \/ Listen(i) \/ CloseFd(i) \/ UnlinkOwn(i) \/ AppsEnded(i)

AllOver == (\A i \in Instances : ipc[i] # "idle" /\ Settled(i)) /\ UNCHANGED vars

Next ==
    \/ \E i \in Instances : Step(i) \/ Launch(i) \/ Signalled(i) \/ Crash(i)
    \/ AllOver

Spec == Init /\ [][Next]_vars /\ \A i \in Instances : WF_vars(Step(i))

-----------------------------------------------------------------------------
(* Properties *)

(* A supervising invocation can be reached under the path, as long as      *)
(* startups and shutdowns do not overlap; crashes may leave a stale node.  *)
RunningIsReachable ==
    \A i \in Instances : serial /\ ipc[i] = "run" => node = i /\ sock[i] = "listening"

(* README.md, "the second invocation prints the help menu and exits        *)
(* instead of starting another supervisor", without overlap.               *)
OneSupervisor ==
    serial => \A i, j \in Instances : ipc[i] = "run" /\ ipc[j] = "run" => i = j

(* Invocations that race for the path, with or without a stale file, do    *)
(* not all give up: when none was killed and all of them have failed or    *)
(* shown the help, one of them has served.                                 *)
SomeoneServes ==
    LET launched == {i \in Instances : ipc[i] # "crashed"}
    IN  /\ setbacks = 0
        /\ launched # {}
        /\ \A i \in launched : ipc[i] \in {"help", "failed", "done"}
        => served

(* Without overlap an invocation that is launched, or starts over after a  *)
(* reload, comes up or finds another one that is up: a socket file left by *)
(* a crash never blocks it.                                                *)
LaunchSucceeds ==
    \A i \in Instances :
        serial /\ ipc[i] \in {"start", "bind"} ~>
            ipc[i] \in {"run", "help", "crashed", "listen_failed"}

(* README.md, "If a supervisor is already active on the configured control *)
(* socket ...": the name of a listening socket is taken away only by its   *)
(* owner.                                                                  *)
ActiveSocketKept ==
    [][\A i \in Instances :
         node = i /\ sock[i] = "listening" => node' = i \/ ipc[i] # ipc'[i]]_vars
=============================================================================
