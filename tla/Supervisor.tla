----------------------------- MODULE Supervisor -----------------------------
(***************************************************************************)
(* The supervisor process of nanoinit: supervisor_start() and everything   *)
(* it calls in the single thread of the program, the two signal handlers   *)
(* that interrupt it between any two statements, and the child processes   *)
(* that run between fork() and their reaping.                              *)
(*                                                                         *)
(* One value of pc is one point of supervisor_start() (src/source/         *)
(* supervisor.c) at which a signal handler, a child or the clock can be    *)
(* observed.  A "for" loop over the control blocks is the set todo of the  *)
(* slots it has not visited yet, taken in ascending order.                 *)
(*                                                                         *)
(* A definition marked "Mutant" is a wrong variant of the next one.  No    *)
(* behaviour uses it: it is there to show which property would notice.     *)
(***************************************************************************)
EXTENDS Integers, FiniteSets

CONSTANTS
    MaxApps,        \* the largest number of applications of a configuration
    Names,          \* application names
    Streams,        \* output streams that can be captured through a pipe
    Configs,        \* the configurations config_init() can return
    Pids,           \* process ids the kernel hands out
    Requests,       \* control requests clients may send
    EnvSignals,     \* signals the outside world may send to nanoinit
    Faults,         \* which system calls may fail, see FaultKinds
    OrphanBound,    \* how many adopted orphans may be zombies at a time
    RestartDelay    \* SUPERVISOR_RESTART_DELAY_SECONDS

Slots == 1..MaxApps

App == [name : Names, autostart : BOOLEAN, autorestart : BOOLEAN,
        captured : SUBSET Streams]

StopSignals == {"SIGTERM", "SIGINT", "SIGQUIT"}

(* "slow_child": a child needs more than the 100 ms for which the parent   *)
(* waits for its error report; the others are failing system calls.        *)
FaultKinds == {"init", "spawn", "stream", "kill", "slow_child"}

Commands == {"START", "STOP", "STATUS", "LIST", "OTHER"}

NoSignal == "none"

ASSUME MaxAppsAssumption == MaxApps \in Nat
ASSUME ConfigsAssumption ==
    /\ Configs # {}
    /\ \A c \in Configs : \E n \in 0..MaxApps : c \in [1..n -> App]
ASSUME PidsAssumption == 0 \notin Pids /\ -1 \notin Pids
ASSUME RequestsAssumption == Requests \subseteq [cmd : Commands, name : Names]
ASSUME EnvSignalsAssumption == EnvSignals \subseteq StopSignals \cup {"SIGUSR1"}
ASSUME FaultsAssumption == Faults \subseteq FaultKinds
ASSUME BoundsAssumption == OrphanBound \in Nat /\ RestartDelay \in Nat \ {0}

VARIABLES
    pc,             \* where supervisor_start() is
    todo,           \* slots the current loop, or the request, has yet to serve
    forwarding,     \* signal_to_forward; the main loop ends once it is set
    registered,     \* the signal handlers are installed
    stopSig,        \* supervisor_got_signal_stop
    reload,         \* supervisor_got_signal_reload
    config,         \* the configuration in force
    scbs,           \* the allocated control blocks, 1..scb_count
    pid, running, desired, restartPending,   \* fields of scb[i]
    restartIn,      \* restart_at, as seconds from now
    streams,        \* the output streams of scb[i] whose pipe_fd is open
    errorPipe,      \* the child error pipe of the spawn in progress
    reply,          \* the response written to the control client being served
    pstate,         \* process table: state of each pid
    owner,          \* the slot a process was forked for, 0 for an orphan
    told            \* signals delivered to the application in a process

sigVars  == <<stopSig, reload>>
flagVars == <<desired, restartPending, restartIn>>
scbVars  == <<pid, running, streams>>
procVars == <<pstate, owner, told>>
mainVars == <<forwarding, registered, config, scbs>>
vars == <<pc, todo, mainVars, sigVars, scbVars, flagVars, errorPipe, reply,
          procVars>>

NoReply == [text |-> "none", app |-> 0]
Reply(t, i) == [text |-> t, app |-> i]
ReplyTexts == {"none", "started", "already running", "failed to start",
               "stopping", "already stopped", "failed to stop",
               "app not found", "status: running", "status: stopping",
               "status: stopped", "list", "unknown command"}

Labels == {"reset_stop", "reset_reload", "init", "boot", "boot_wait", "loop",
           "restart", "restart_wait", "reap", "check", "clear", "forward",
           "drain", "control_wait", "streams", "close", "wait_reap",
           "wait_drain", "cleanup", "reload", "config_init", "exited"}

(* A process: forked (signal handlers still those of nanoinit), preexec    *)
(* (handlers reset, redirecting and preparing arguments), failing (error   *)
(* written, about to _exit), app (execv done), zombie (not reaped).        *)
PStates == {"none", "forked", "preexec", "failing", "app", "zombie"}

TypeOK ==
    /\ pc \in Labels
    /\ todo \subseteq Slots
    /\ forwarding \in StopSignals \cup {NoSignal}
    /\ registered \in BOOLEAN
    /\ stopSig \in StopSignals \cup {NoSignal}
    /\ reload \in BOOLEAN
    /\ config \in Configs
    /\ scbs \in {{}, DOMAIN config}
    /\ pid \in [Slots -> Pids \cup {0, -1}]
    /\ running \in [Slots -> BOOLEAN]
    /\ desired \in [Slots -> BOOLEAN]
    /\ restartPending \in [Slots -> BOOLEAN]
    /\ restartIn \in [Slots -> 0..RestartDelay]
    /\ streams \in [Slots -> SUBSET Streams]
    /\ errorPipe \in {"closed", "open", "error"}
    /\ reply \in [text : ReplyTexts, app : Slots \cup {0}]
    /\ pstate \in [Pids -> PStates]
    /\ owner \in [Pids -> Slots \cup {0}]
    /\ told \in [Pids -> SUBSET StopSignals]

Init ==
    /\ pc = "reset_stop"
    /\ todo = {}
    /\ forwarding = NoSignal
    /\ registered = FALSE
    /\ stopSig = NoSignal
    /\ reload = FALSE
    /\ config \in Configs
    /\ scbs = {}
    /\ pid = [i \in Slots |-> 0]
    /\ running = [i \in Slots |-> FALSE]
    /\ desired = [i \in Slots |-> FALSE]
    /\ restartPending = [i \in Slots |-> FALSE]
    /\ restartIn = [i \in Slots |-> 0]
    /\ streams = [i \in Slots |-> {}]
    /\ errorPipe = "closed"
    /\ reply = NoReply
    /\ pstate = [p \in Pids |-> "none"]
    /\ owner = [p \in Pids |-> 0]
    /\ told = [p \in Pids |-> {}]

-----------------------------------------------------------------------------
(* Helpers *)

(* The slot a loop over the control blocks visits next. *)
IsNext(i) == i \in todo /\ \A j \in todo : i <= j

(* Mutant: the wait loop watches the streams only. *)
StillUpByStreamsOnly(run, open) == \E i \in scbs : open[i] # {}

(* supervisor_any_running() || supervisor_any_stream_open() *)
StillUp(run, open) == \E i \in scbs : run[i] \/ open[i] # {}

(* Mutant: the streams stay open. *)
CloseStreamsForgotten(i) == UNCHANGED streams

(* supervisor_close_all_output_streams() *)
CloseStreams(i) == streams' = [streams EXCEPT ![i] = {}]

(* Mutant: one second too many. *)
ScheduleRestartLate(i) ==
    /\ restartPending' = [restartPending EXCEPT ![i] = TRUE]
    /\ restartIn' = [restartIn EXCEPT ![i] = RestartDelay + 1]

(* supervisor_schedule_restart() *)
ScheduleRestart(i) ==
    /\ restartPending' = [restartPending EXCEPT ![i] = TRUE]
    /\ restartIn' = [restartIn EXCEPT ![i] = RestartDelay]

(* Mutant: off by one. *)
RestartDueTooLate(i) == restartPending[i] /\ restartIn[i] < 0

(* supervisor_start_pending_restarts(): the time has come. *)
RestartDue(i) == restartPending[i] /\ restartIn[i] = 0

(* Its other guards, read again for every slot because a signal can arrive *)
(* between two of them.                                                    *)
RestartWanted(i) ==
    /\ restartPending[i]
    /\ ~running[i]
    /\ desired[i]
    /\ config[i].autorestart
    /\ stopSig = NoSignal

(* Mutant: desired_running is not looked at. *)
RestartAfterExitUnwanted(i) == config[i].autorestart /\ stopSig = NoSignal

(* When a reaped application is scheduled to be started again. *)
RestartAfterExit(i) ==
    config[i].autorestart /\ desired[i] /\ stopSig = NoSignal

(* kill(): a child that has not reset its handlers yet runs the handler of *)
(* nanoinit in its own copy of the memory, so the signal is swallowed; one *)
(* that has not reached execv dies of it; a zombie ignores it.             *)
Kill(p, s) ==
    /\ pstate' = [pstate EXCEPT
         ![p] = IF @ \in {"preexec", "failing"} THEN "zombie" ELSE @]
    /\ told' = [told EXCEPT ![p] = IF pstate[p] = "app" THEN @ \cup {s} ELSE @]
    /\ owner' = owner

(* supervisor_spawn() that returns SUPERVISOR_SPAWN_ERROR: rendering the   *)
(* paths fails before anything is touched, a pipe() fails after the old    *)
(* streams were closed, fork() fails after pid and running were written.   *)
SpawnError(i) ==
    /\ "spawn" \in Faults
    /\ \/ UNCHANGED scbVars
       \/ /\ CloseStreams(i)
          /\ UNCHANGED <<pid, running>>
       \/ /\ CloseStreams(i)
          /\ pid' = [pid EXCEPT ![i] = -1]
          /\ running' = [running EXCEPT ![i] = FALSE]
    /\ UNCHANGED <<errorPipe, procVars>>

(* supervisor_spawn() up to the point where the parent starts to wait for  *)
(* the child's error report; an output stream that cannot be started stays *)
(* closed and the spawn goes on.                                           *)
Fork(i) ==
    \E p \in {q \in Pids : pstate[q] = "none"} :
        /\ pid' = [pid EXCEPT ![i] = p]
        /\ running' = [running EXCEPT ![i] = TRUE]
        /\ \E open \in SUBSET config[i].captured :
             /\ "stream" \in Faults \/ open = config[i].captured
             /\ streams' = [streams EXCEPT ![i] = open]
        /\ pstate' = [pstate EXCEPT ![p] = "forked"]
        /\ owner' = [owner EXCEPT ![p] = i]
        /\ told' = [told EXCEPT ![p] = {}]
        /\ errorPipe' = "open"

(* Mutant: the parent does not wait for the child. *)
SpawnStartedAtOnce(i) == errorPipe = "open"

(* supervisor_read_child_error(): what the spawn in progress returns.  End *)
(* of file means that the child is past execv, or died without a report;   *)
(* the 100 ms may also pass before the child has done anything.            *)
SpawnStarted(i) ==
    /\ errorPipe = "open"
    /\ pstate[pid[i]] \in {"app", "zombie"} \/ "slow_child" \in Faults

SpawnChildError(i) == errorPipe = "error"

SpawnReturns(i) ==
    /\ SpawnStarted(i) \/ SpawnChildError(i)
    /\ errorPipe' = "closed"
    /\ UNCHANGED <<scbVars, procVars>>

-----------------------------------------------------------------------------
(* Startup: supervisor_start() up to the main loop *)

ResetStop ==
    /\ pc = "reset_stop"
    /\ stopSig' = NoSignal
    /\ pc' = "reset_reload"
    /\ UNCHANGED <<todo, mainVars, reload, scbVars, flagVars, errorPipe, reply,
                   procVars>>

ResetReload ==
    /\ pc = "reset_reload"
    /\ reload' = FALSE
    /\ pc' = "init"
    /\ UNCHANGED <<todo, mainVars, stopSig, scbVars, flagVars, errorPipe,
                   reply, procVars>>

(* Control blocks, signal handlers and control socket. *)
InitScbs ==
    /\ pc = "init"
    /\ scbs' = DOMAIN config
    /\ pid' = [i \in Slots |-> 0]
    /\ running' = [i \in Slots |-> FALSE]
    /\ desired' = [i \in Slots |-> i \in DOMAIN config /\ config[i].autostart]
    /\ restartPending' = [i \in Slots |-> FALSE]
    /\ restartIn' = [i \in Slots |-> 0]
    /\ streams' = [i \in Slots |-> {}]
    /\ registered' = TRUE
    /\ todo' = DOMAIN config
    /\ pc' = "boot"
    /\ UNCHANGED <<forwarding, config, sigVars, errorPipe, reply, procVars>>

(* malloc() fails, or the control socket cannot be created, bound or       *)
(* listened on: supervisor_start() returns -1 and main() ends.             *)
InitFails ==
    /\ pc = "init"
    /\ "init" \in Faults
    /\ pc' = "exited"
    /\ UNCHANGED <<todo, mainVars, sigVars, scbVars, flagVars, errorPipe,
                   reply, procVars>>

BootSkip(i) ==
    /\ pc = "boot"
    /\ IsNext(i)
    /\ ~desired[i]
    /\ todo' = todo \ {i}
    /\ UNCHANGED <<pc, mainVars, sigVars, scbVars, flagVars, errorPipe, reply,
                   procVars>>

BootFork(i) ==
    /\ pc = "boot"
    /\ IsNext(i)
    /\ desired[i]
    /\ Fork(i)
    /\ pc' = "boot_wait"
    /\ UNCHANGED <<todo, mainVars, sigVars, flagVars, reply>>

BootSpawnError(i) ==
    /\ pc = "boot"
    /\ IsNext(i)
    /\ desired[i]
    /\ SpawnError(i)
    /\ IF config[i].autorestart /\ desired[i]
         THEN ScheduleRestart(i)
         ELSE UNCHANGED <<restartPending, restartIn>>
    /\ todo' = todo \ {i}
    /\ UNCHANGED <<pc, mainVars, sigVars, desired, reply>>

(* A child that reported an error is only logged: it is a zombie soon, and *)
(* supervisor_reap_children() decides about its restart.                   *)
BootSpawned(i) ==
    /\ pc = "boot_wait"
    /\ IsNext(i)
    /\ SpawnReturns(i)
    /\ todo' = todo \ {i}
    /\ pc' = "boot"
    /\ UNCHANGED <<mainVars, sigVars, flagVars, reply>>

BootDone ==
    /\ pc = "boot"
    /\ todo = {}
    /\ forwarding' = NoSignal
    /\ pc' = "loop"
    /\ UNCHANGED <<todo, registered, config, scbs, sigVars, scbVars, flagVars,
                   errorPipe, reply, procVars>>

-----------------------------------------------------------------------------
(* supervisor_start_pending_restarts() *)

(* now = time(0) is read once, before the loop. *)
ReadClock ==
    /\ pc = "loop"
    /\ todo' = {i \in scbs : RestartDue(i)}
    /\ pc' = "restart"
    /\ UNCHANGED <<mainVars, sigVars, scbVars, flagVars, errorPipe, reply,
                   procVars>>

RestartSkip(i) ==
    /\ pc = "restart"
    /\ IsNext(i)
    /\ ~RestartWanted(i)
    /\ todo' = todo \ {i}
    /\ UNCHANGED <<pc, mainVars, sigVars, scbVars, flagVars, errorPipe, reply,
                   procVars>>

RestartFork(i) ==
    /\ pc = "restart"
    /\ IsNext(i)
    /\ RestartWanted(i)
    /\ Fork(i)
    /\ restartPending' = [restartPending EXCEPT ![i] = FALSE]
    /\ restartIn' = [restartIn EXCEPT ![i] = 0]
    /\ pc' = "restart_wait"
    /\ UNCHANGED <<todo, mainVars, sigVars, desired, reply>>

RestartSpawnError(i) ==
    /\ pc = "restart"
    /\ IsNext(i)
    /\ RestartWanted(i)
    /\ SpawnError(i)
    /\ ScheduleRestart(i)
    /\ todo' = todo \ {i}
    /\ UNCHANGED <<pc, mainVars, sigVars, desired, reply>>

RestartSpawned(i) ==
    /\ pc = "restart_wait"
    /\ IsNext(i)
    /\ SpawnReturns(i)
    /\ todo' = todo \ {i}
    /\ pc' = "restart"
    /\ UNCHANGED <<mainVars, sigVars, flagVars, reply>>

RestartDone ==
    /\ pc = "restart"
    /\ todo = {}
    /\ pc' = "reap"
    /\ UNCHANGED <<todo, mainVars, sigVars, scbVars, flagVars, errorPipe,
                   reply, procVars>>

-----------------------------------------------------------------------------
(* supervisor_reap_children(), in the main loop and in the wait loop *)

WaitPid(p) ==
    /\ pstate[p] = "zombie"
    /\ pstate' = [pstate EXCEPT ![p] = "none"]
    /\ told' = [told EXCEPT ![p] = {}]
    /\ owner' = [owner EXCEPT ![p] = 0]

(* The first control block with that pid; its streams are drained and      *)
(* closed before a restart is considered.                                  *)
ReapApp(p, i) ==
    /\ pc \in {"reap", "wait_reap"}
    /\ WaitPid(p)
    /\ i \in scbs /\ pid[i] = p
    /\ \A j \in scbs : pid[j] = p => i <= j
    /\ running' = [running EXCEPT ![i] = FALSE]
    /\ pid' = [pid EXCEPT ![i] = 0]
    /\ CloseStreams(i)
    /\ IF RestartAfterExit(i)
         THEN ScheduleRestart(i)
         ELSE UNCHANGED <<restartPending, restartIn>>
    /\ UNCHANGED <<pc, todo, mainVars, sigVars, desired, errorPipe, reply>>

(* A process that was adopted by nanoinit as PID 1. *)
ReapOrphan(p) ==
    /\ pc \in {"reap", "wait_reap"}
    /\ WaitPid(p)
    /\ \A i \in scbs : pid[i] # p
    /\ UNCHANGED <<pc, todo, mainVars, sigVars, scbVars, flagVars, errorPipe,
                   reply>>

ReapDone ==
    /\ pc \in {"reap", "wait_reap"}
    /\ \A p \in Pids : pstate[p] # "zombie"
    /\ pc' = IF pc = "reap" THEN "check" ELSE "wait_drain"
    /\ UNCHANGED <<todo, mainVars, sigVars, scbVars, flagVars, errorPipe,
                   reply, procVars>>

-----------------------------------------------------------------------------
(* Forwarding the stop signal *)

CheckStop ==
    /\ pc = "check"
    /\ forwarding' = stopSig
    /\ pc' = IF stopSig = NoSignal THEN "drain" ELSE "clear"
    /\ UNCHANGED <<todo, registered, config, scbs, sigVars, scbVars, flagVars,
                   errorPipe, reply, procVars>>

ClearStop ==
    /\ pc = "clear"
    /\ stopSig' = NoSignal
    /\ todo' = scbs
    /\ pc' = "forward"
    /\ UNCHANGED <<mainVars, reload, scbVars, flagVars, errorPipe, reply,
                   procVars>>

ForwardSkip(i) ==
    /\ pc = "forward"
    /\ IsNext(i)
    /\ ~running[i] \/ "kill" \in Faults
    /\ todo' = todo \ {i}
    /\ UNCHANGED <<pc, mainVars, sigVars, scbVars, flagVars, errorPipe, reply,
                   procVars>>

ForwardStop(i) ==
    /\ pc = "forward"
    /\ IsNext(i)
    /\ running[i]
    /\ Kill(pid[i], forwarding)
    /\ todo' = todo \ {i}
    /\ UNCHANGED <<pc, mainVars, sigVars, scbVars, flagVars, errorPipe, reply>>

ForwardDone ==
    /\ pc = "forward"
    /\ todo = {}
    /\ pc' = "drain"
    /\ UNCHANGED <<todo, mainVars, sigVars, scbVars, flagVars, errorPipe,
                   reply, procVars>>

-----------------------------------------------------------------------------
(* supervisor_drain_output_streams() with the control socket open: at most *)
(* one control connection, then the readable streams.                      *)

NoRequest ==
    /\ pc = "drain"
    /\ pc' = "streams"
    /\ UNCHANGED <<todo, mainVars, sigVars, scbVars, flagVars, errorPipe,
                   reply, procVars>>

(* supervisor_find_scb(): the first control block with that name. *)
FindScb(name, i) ==
    /\ i \in scbs /\ config[i].name = name
    /\ \A j \in scbs : config[j].name = name => i <= j

NotFound(name) == \A i \in scbs : config[i].name # name

(* supervisor_scb_status() *)
ScbStatus(i) ==
    IF running[i] /\ desired[i] THEN "status: running"
    ELSE IF running[i] THEN "status: stopping" ELSE "status: stopped"

(* A request that is answered without changing anything. *)
Inspect(r) ==
    /\ pc = "drain"
    /\ \/ /\ r.cmd \in {"START", "STOP", "STATUS"}
          /\ NotFound(r.name)
          /\ reply' = Reply("app not found", 0)
       \/ /\ r.cmd = "STATUS"
          /\ \E i \in Slots : /\ FindScb(r.name, i)
                              /\ reply' = Reply(ScbStatus(i), i)
       \/ r.cmd = "LIST" /\ reply' = Reply("list", 0)
       \/ r.cmd = "OTHER" /\ reply' = Reply("unknown command", 0)
    /\ pc' = "streams"
    /\ UNCHANGED <<todo, mainVars, sigVars, scbVars, flagVars, errorPipe,
                   procVars>>

(* Mutant: a running application is started again. *)
ControlStartForkUnchecked(i) ==
    /\ Fork(i)
    /\ desired' = [desired EXCEPT ![i] = TRUE]
    /\ todo' = {i}
    /\ pc' = "control_wait"
    /\ reply' = reply

(* supervisor_handle_control_start() *)
ControlStartFork(i) ==
    /\ ~running[i]
    /\ Fork(i)
    /\ desired' = [desired EXCEPT ![i] = TRUE]
    /\ todo' = {i}
    /\ pc' = "control_wait"
    /\ reply' = reply

ControlStartError(i) ==
    /\ ~running[i]
    /\ SpawnError(i)
    /\ desired' = [desired EXCEPT ![i] = FALSE]
    /\ reply' = Reply("failed to start", i)
    /\ pc' = "streams"
    /\ todo' = todo

ControlStartRunning(i) ==
    /\ running[i]
    /\ desired' = [desired EXCEPT ![i] = TRUE]
    /\ reply' = Reply("already running", i)
    /\ pc' = "streams"
    /\ UNCHANGED <<todo, scbVars, errorPipe, procVars>>

(* Mutant: the pending restart is not cancelled. *)
ForgetRestartSkipped(i) == UNCHANGED <<restartPending, restartIn>>

ForgetRestart(i) ==
    /\ restartPending' = [restartPending EXCEPT ![i] = FALSE]
    /\ restartIn' = [restartIn EXCEPT ![i] = 0]

ControlStart(r, i) ==
    /\ pc = "drain"
    /\ r.cmd = "START"
    /\ FindScb(r.name, i)
    /\ ForgetRestart(i)
    /\ \/ ControlStartFork(i)
       \/ ControlStartError(i)
       \/ ControlStartRunning(i)
    /\ UNCHANGED <<mainVars, sigVars>>

ControlStarted(i) ==
    /\ pc = "control_wait"
    /\ IsNext(i)
    /\ SpawnReturns(i)
    /\ reply' = Reply(IF SpawnChildError(i) THEN "failed to start" ELSE "started", i)
    /\ desired' = [desired EXCEPT ![i] = ~SpawnChildError(i)]
    /\ todo' = {}
    /\ pc' = "streams"
    /\ UNCHANGED <<mainVars, sigVars, restartPending, restartIn>>

(* supervisor_handle_control_stop() *)
ControlStop(r, i) ==
    /\ pc = "drain"
    /\ r.cmd = "STOP"
    /\ FindScb(r.name, i)
    /\ desired' = [desired EXCEPT ![i] = FALSE]
    /\ ForgetRestart(i)
    /\ \/ /\ ~running[i]
          /\ reply' = Reply("already stopped", i)
          /\ UNCHANGED procVars
       \/ /\ running[i]
          /\ Kill(pid[i], "SIGTERM")
          /\ reply' = Reply("stopping", i)
       \/ /\ running[i]
          /\ "kill" \in Faults
          /\ reply' = Reply("failed to stop", i)
          /\ UNCHANGED procVars
    /\ pc' = "streams"
    /\ UNCHANGED <<todo, mainVars, sigVars, scbVars, errorPipe>>

(* Some of the open streams are at end of file and are closed. *)
SomeStreamsEnd ==
    \E ended \in [Slots -> SUBSET Streams] :
        /\ \A i \in Slots : ended[i] \subseteq streams[i]
        /\ streams' = [i \in Slots |-> streams[i] \ ended[i]]

DrainStreams ==
    /\ pc = "streams"
    /\ SomeStreamsEnd
    /\ reply' = NoReply
    /\ pc' = IF forwarding = NoSignal THEN "loop" ELSE "close"
    /\ UNCHANGED <<todo, mainVars, sigVars, pid, running, flagVars, errorPipe,
                   procVars>>

-----------------------------------------------------------------------------
(* After the main loop: the control socket is closed first *)

CloseSocket ==
    /\ pc = "close"
    /\ pc' = IF StillUp(running, streams) THEN "wait_reap" ELSE "cleanup"
    /\ UNCHANGED <<todo, mainVars, sigVars, scbVars, flagVars, errorPipe,
                   reply, procVars>>

WaitDrain ==
    /\ pc = "wait_drain"
    /\ SomeStreamsEnd
    /\ pc' = IF StillUp(running, streams') THEN "wait_reap" ELSE "cleanup"
    /\ UNCHANGED <<todo, mainVars, sigVars, pid, running, flagVars, errorPipe,
                   reply, procVars>>

(* supervisor_free_scb() *)
Cleanup ==
    /\ pc = "cleanup"
    /\ scbs' = {}
    /\ pid' = [i \in Slots |-> 0]
    /\ running' = [i \in Slots |-> FALSE]
    /\ desired' = [i \in Slots |-> FALSE]
    /\ restartPending' = [i \in Slots |-> FALSE]
    /\ restartIn' = [i \in Slots |-> 0]
    /\ streams' = [i \in Slots |-> {}]
    /\ pc' = "reload"
    /\ UNCHANGED <<todo, forwarding, registered, config, sigVars, errorPipe,
                   reply, procVars>>

CheckReload ==
    /\ pc = "reload"
    /\ reload' = FALSE
    /\ pc' = IF reload THEN "config_init" ELSE "exited"
    /\ UNCHANGED <<todo, mainVars, stopSig, scbVars, flagVars, errorPipe,
                   reply, procVars>>

(* The new configuration may be any: the file can have changed, and an     *)
(* unreadable one gives the zero configuration.                            *)
ConfigInit ==
    /\ pc = "config_init"
    /\ config' \in Configs
    /\ pc' = "reset_stop"
    /\ UNCHANGED <<todo, forwarding, registered, scbs, sigVars, scbVars,
                   flagVars, errorPipe, reply, procVars>>

(* main() has returned. *)
Exited == pc = "exited" /\ UNCHANGED vars

-----------------------------------------------------------------------------
(* Signals, children and the clock, between any two steps of the parent *)

(* supervisor_sigterm_cb() and supervisor_sigusr1_cb() *)
Deliver(s) ==
    /\ registered
    /\ pc # "exited"
    /\ stopSig' = IF s = "SIGUSR1" THEN "SIGTERM" ELSE s
    /\ reload' = (reload \/ s = "SIGUSR1")
    /\ UNCHANGED <<pc, todo, mainVars, scbVars, flagVars, errorPipe, reply,
                   procVars>>

ChildStep(p, from, to) ==
    /\ pstate[p] = from
    /\ pstate' = [pstate EXCEPT ![p] = to]
    /\ UNCHANGED <<pc, todo, mainVars, sigVars, scbVars, flagVars, reply,
                   owner, told>>

ChildResetSignals(p) == ChildStep(p, "forked", "preexec") /\ UNCHANGED errorPipe

ChildExec(p) == ChildStep(p, "preexec", "app") /\ UNCHANGED errorPipe

(* A redirection, the argument copy or execv() fails.  The parent sees the *)
(* report only if it still waits for this very child.                      *)
ChildReportError(p) ==
    /\ ChildStep(p, "preexec", "failing")
    /\ errorPipe' =
         IF errorPipe = "open" /\ \E i \in Slots : IsNext(i) /\ pid[i] = p
           THEN "error" ELSE errorPipe

ChildExit(p) == ChildStep(p, "failing", "zombie") /\ UNCHANGED errorPipe

(* An application ends by itself or because of a signal it was told. *)
AppExit(p) == ChildStep(p, "app", "zombie") /\ UNCHANGED errorPipe

AppObeys(p) == told[p] # {} /\ AppExit(p)

OrphanDies(p) ==
    /\ Cardinality({q \in Pids : pstate[q] # "none" /\ owner[q] = 0}) < OrphanBound
    /\ ChildStep(p, "none", "zombie")
    /\ UNCHANGED errorPipe

Tick ==
    /\ \E i \in Slots : restartIn[i] > 0
    /\ restartIn' = [i \in Slots |-> IF restartIn[i] > 0 THEN restartIn[i] - 1 ELSE 0]
    /\ UNCHANGED <<pc, todo, mainVars, sigVars, scbVars, desired,
                   restartPending, errorPipe, reply, procVars>>

-----------------------------------------------------------------------------
(* The next-state relation *)

Startup ==
    \/ ResetStop \/ ResetReload \/ InitScbs \/ InitFails \/ BootDone
    \/ \E i \in Slots : \/ BootSkip(i) \/ BootFork(i)
                        \/ BootSpawnError(i) \/ BootSpawned(i)

Supervise ==
    \/ ReadClock \/ RestartDone \/ ReapDone
    \/ \E i \in Slots : \/ RestartSkip(i) \/ RestartFork(i)
                        \/ RestartSpawnError(i) \/ RestartSpawned(i)
    \/ \E p \in Pids : ReapOrphan(p) \/ \E i \in Slots : ReapApp(p, i)
    \/ CheckStop \/ ClearStop \/ ForwardDone
    \/ \E i \in Slots : ForwardSkip(i) \/ ForwardStop(i)

Serve ==
    \/ NoRequest \/ DrainStreams
    \/ \E r \in Requests : \/ Inspect(r)
                           \/ \E i \in Slots : ControlStart(r, i) \/ ControlStop(r, i)
    \/ \E i \in Slots : ControlStarted(i)

Finish ==
    CloseSocket \/ WaitDrain \/ Cleanup \/ CheckReload \/ ConfigInit \/ Exited

Main == Startup \/ Supervise \/ Serve \/ Finish

Child(p) == ChildResetSignals(p) \/ ChildExec(p) \/ ChildReportError(p) \/ ChildExit(p)

Environment ==
    \/ \E s \in EnvSignals : Deliver(s)
    \/ \E p \in Pids : Child(p) \/ AppExit(p) \/ OrphanDies(p)
    \/ Tick

Next == Main \/ Environment

Spec == Init /\ [][Next]_vars

(* The single thread of nanoinit, the children it forked and the clock go  *)
(* on, and an application that was sent a stop signal ends.  Nothing is    *)
(* said about how long an application lives otherwise.                     *)
Fairness ==
    /\ WF_vars(Main)
    /\ \A p \in Pids : WF_vars(Child(p)) /\ WF_vars(AppObeys(p))
    /\ WF_vars(Tick)

FairSpec == Spec /\ Fairness
-----------------------------------------------------------------------------
(* Properties *)

(* The control blocks and the process table agree: a block that is marked  *)
(* running names an unreaped process forked for it, and every unreaped     *)
(* process forked for an application is named by its block.  So kill() is  *)
(* never called on -1, 0 or a recycled pid, no application has two         *)
(* processes, and none is forgotten.                                       *)
ChildTracking ==
    /\ \A i \in Slots : running[i] => /\ pid[i] \in Pids
                                      /\ pstate[pid[i]] # "none"
                                      /\ owner[pid[i]] = i
    /\ \A p \in Pids : pstate[p] # "none" /\ owner[p] # 0 =>
                          running[owner[p]] /\ pid[owner[p]] = p

(* A scheduled restart always belongs to an application that has no        *)
(* process, is wanted and has autorestart: the STOP and START handlers     *)
(* cancel it, and a reaped child is only rescheduled when it is wanted.    *)
PendingIsIdle ==
    \A i \in Slots : restartPending[i] =>
        i \in scbs /\ ~running[i] /\ desired[i] /\ config[i].autorestart

(* A stream stays open only while its application is running, otherwise    *)
(* the wait loop could be kept alive by a stream nobody will close.        *)
StreamsFollowChild == \A i \in Slots : streams[i] # {} => running[i]

(* Once the wait loop has ended, and so whenever nanoinit exits or loads a *)
(* new configuration, no process of an application is left.                *)
NoAppLeftBehind ==
    pc \in {"cleanup", "reload", "config_init", "reset_stop", "reset_reload",
            "init", "exited"} =>
        \A p \in Pids : pstate[p] = "none" \/ owner[p] = 0

(* What a step does that is no START served after the forwarding of a stop *)
(* signal.  The next property holds without such a START.                  *)
NoLateStart == forwarding # NoSignal => pc' # "control_wait"

(* README.md, "forwards that signal to all currently running supervised    *)
(* applications and waits for them to exit": whoever nanoinit waits for    *)
(* after the main loop was told to stop, or is ending already.             *)
StopReachesEveryApp ==
    pc \in {"close", "wait_reap", "wait_drain"} =>
        \A i \in scbs : running[i] =>
            told[pid[i]] # {} \/ pstate[pid[i]] = "zombie"

(* When a START request is answered with "started", the program was really *)
(* executed (it may have ended since).                                     *)
StartedMeansExec ==
    pc = "streams" /\ reply.text = "started" =>
        pstate[pid[reply.app]] \in {"app", "zombie"}

(* The life cycle of the applications, as AppLifecycle describes it. *)
AppStatus == [i \in Slots |->
    IF running[i] THEN IF desired[i] THEN "running" ELSE "stopping"
                  ELSE IF restartPending[i] THEN "backoff" ELSE "stopped"]

AppAutorestart == [i \in Slots |-> i \in DOMAIN config /\ config[i].autorestart]

Lifecycle == INSTANCE AppLifecycle WITH
    status <- AppStatus, autorestart <- AppAutorestart

(* Whatever signals, requests, failures and exits do, every application    *)
(* only makes the steps of AppLifecycle.                                   *)
LifecycleSpec == Lifecycle!Spec

(* A stop signal ends nanoinit, given that told applications end. *)
StopEndsNanoinit == stopSig # NoSignal ~> pc = "exited"

(* README.md, "nanoinit starts no applications and remains running until   *)
(* it receives a stop signal": a SIGINT ends nanoinit, unless a reload is  *)
(* asked for as well.                                                      *)
SigintEndsNanoinit == stopSig = "SIGINT" ~> pc = "exited" \/ reload

(* A scheduled restart is carried out, unless it is called off first. *)
RestartHappens ==
    \A i \in Slots : restartPending[i] ~> running[i] \/ ~desired[i]

(* An application that was stopped by request ends, or is started again. *)
StopTakesEffect ==
    \A i \in Slots : running[i] /\ ~desired[i] ~> ~running[i] \/ desired[i]
=============================================================================
