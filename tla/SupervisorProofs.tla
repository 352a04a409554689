-------------------------- MODULE SupervisorProofs --------------------------
(***************************************************************************)
(* Proofs about Supervisor, for every number of applications, every set of *)
(* pids, configurations, requests, signals and faults.                     *)
(*                                                                         *)
(* None of the safety properties is inductive by itself: that a fork does  *)
(* not overwrite the pid of a live child depends on which slots a loop has *)
(* yet to visit, and that freeing the control blocks forgets nobody        *)
(* depends on how the wait loop ends.  IInv adds these facts.              *)
(***************************************************************************)
EXTENDS Supervisor, TLAPS

(* Where todo is meaningful. *)
LoopLabels == {"boot", "boot_wait", "restart", "restart_wait", "forward",
               "control_wait"}

(* Where no application can be up. *)
QuietLabels == {"cleanup", "reload", "config_init", "reset_stop",
                "reset_reload", "init", "exited"}

(* What each point of supervisor_start() may rely on: a loop only visits   *)
(* allocated control blocks, there is a signal to forward, the startup     *)
(* loop has not started what it has not visited, nothing is up outside the *)
(* main and the wait loop, and the child of a START request is not reaped  *)
(* before the request is answered.                                         *)
FlowInv ==
    /\ todo \subseteq scbs
    /\ pc \notin LoopLabels => todo = {}
    /\ pc \in {"clear", "forward"} => forwarding \in StopSignals
    /\ pc = "boot" => \A i \in todo : ~running[i] /\ ~restartPending[i]
    /\ pc = "boot_wait" =>
         \A i \in todo : IsNext(i) \/ (~running[i] /\ ~restartPending[i])
    /\ pc = "control_wait" => \A i \in todo : running[i]
    /\ pc \in QuietLabels => \A i \in Slots : ~running[i]
    /\ pc \in QuietLabels \ {"cleanup"} => scbs = {}

(* ChildTracking, and what reaping and a failed fork leave in pid. *)
TrackingInv ==
    /\ ChildTracking
    /\ \A i \in Slots : ~running[i] => pid[i] \notin Pids
    /\ \A i \in Slots : running[i] => i \in scbs
    /\ \A p \in Pids : pstate[p] = "none" => owner[p] = 0

IInv ==
    /\ TypeOK
    /\ FlowInv
    /\ TrackingInv
    /\ PendingIsIdle
    /\ StreamsFollowChild

-----------------------------------------------------------------------------
(* Facts about the constants and the helpers *)

(* A configuration is indexed by slots and holds applications. *)
LEMMA ConfigFacts ==
    ASSUME NEW c \in Configs
    PROVE  /\ DOMAIN c \subseteq Slots
           /\ \A i \in DOMAIN c : /\ c[i].captured \subseteq Streams
                                  /\ c[i].autostart \in BOOLEAN
                                  /\ c[i].autorestart \in BOOLEAN
<1>1. PICK n \in 0..MaxApps : c \in [1..n -> App]
  BY ConfigsAssumption
<1>2. DOMAIN c = 1..n
  BY <1>1
<1> QED
  BY <1>1, <1>2, MaxAppsAssumption DEF Slots, App

(* The allocated control blocks are slots of the configuration. *)
LEMMA ScbFacts ==
    ASSUME TypeOK, NEW i \in scbs
    PROVE  i \in Slots /\ i \in DOMAIN config
BY ConfigFacts DEF TypeOK

(* A loop visits one slot at a time. *)
LEMMA NextIsUnique ==
    ASSUME TypeOK, NEW i \in Slots, NEW j \in Slots, IsNext(i), IsNext(j)
    PROVE  i = j
BY MaxAppsAssumption DEF IsNext, Slots

(* Responses are responses. *)
LEMMA ReplyType ==
    ASSUME NEW t \in ReplyTexts, NEW i \in Slots \cup {0}
    PROVE  Reply(t, i) \in [text : ReplyTexts, app : Slots \cup {0}]
BY DEF Reply

(* What STATUS says of an application is a response. *)
LEMMA StatusType ==
    ASSUME NEW i \in Slots
    PROVE  ScbStatus(i) \in ReplyTexts
BY DEF ScbStatus, ReplyTexts

(* Types after supervisor_schedule_restart(). *)
LEMMA ScheduleTypes ==
    ASSUME TypeOK, NEW i \in Slots, ScheduleRestart(i)
    PROVE  /\ restartPending' \in [Slots -> BOOLEAN]
           /\ restartIn' \in [Slots -> 0..RestartDelay]
BY BoundsAssumption DEF TypeOK, ScheduleRestart

(* Types after a fork, the half of supervisor_spawn() that succeeds. *)
LEMMA ForkTypes ==
    ASSUME TypeOK, NEW i \in scbs, Fork(i)
    PROVE  /\ pid' \in [Slots -> Pids \cup {0, -1}]
           /\ running' \in [Slots -> BOOLEAN]
           /\ streams' \in [Slots -> SUBSET Streams]
           /\ errorPipe' \in {"closed", "open", "error"}
           /\ pstate' \in [Pids -> PStates]
           /\ owner' \in [Pids -> Slots \cup {0}]
           /\ told' \in [Pids -> SUBSET StopSignals]
<1>1. i \in Slots /\ config[i].captured \subseteq Streams
  BY ConfigFacts DEF TypeOK
<1> QED
  BY <1>1 DEF TypeOK, Fork, PStates

(* Types after a spawn that failed before there was a child. *)
LEMMA SpawnErrorTypes ==
    ASSUME TypeOK, NEW i \in Slots, SpawnError(i)
    PROVE  /\ pid' \in [Slots -> Pids \cup {0, -1}]
           /\ running' \in [Slots -> BOOLEAN]
           /\ streams' \in [Slots -> SUBSET Streams]
           /\ UNCHANGED <<errorPipe, pstate, owner, told>>
BY DEF TypeOK, SpawnError, CloseStreams, scbVars, procVars

(* Types after kill(). *)
LEMMA KillTypes ==
    ASSUME TypeOK, NEW p \in Pids, NEW s \in StopSignals, Kill(p, s)
    PROVE  /\ pstate' \in [Pids -> PStates]
           /\ owner' \in [Pids -> Slots \cup {0}]
           /\ told' \in [Pids -> SUBSET StopSignals]
BY DEF TypeOK, Kill, PStates

(* kill() neither creates nor reaps a process. *)
LEMMA KillKeeps ==
    ASSUME TypeOK, NEW p \in Pids, NEW s, Kill(p, s)
    PROVE  /\ \A q \in Pids : pstate'[q] = "none" <=> pstate[q] = "none"
           /\ owner' = owner
BY DEF TypeOK, Kill

-----------------------------------------------------------------------------
(* What a step must respect to keep the tracking of the children *)

(* A step that leaves the control blocks alone and neither creates nor     *)
(* reaps a process.                                                        *)
LEMMA Frame ==
    ASSUME IInv, UNCHANGED <<config, scbs, pid, running, streams, desired,
                             restartPending, owner>>,
           \A p \in Pids : pstate'[p] = "none" <=> pstate[p] = "none"
    PROVE  TrackingInv' /\ PendingIsIdle' /\ StreamsFollowChild'
BY DEF IInv, TrackingInv, ChildTracking, PendingIsIdle, StreamsFollowChild, TypeOK

(* A fork for an application without a process, on a free pid. *)
LEMMA ForkTracking ==
    ASSUME IInv, NEW i \in scbs, ~running[i], Fork(i), scbs' = scbs
    PROVE  TrackingInv' /\ StreamsFollowChild'
<1>1. i \in Slots /\ i # 0
  BY ScbFacts, MaxAppsAssumption DEF IInv, Slots
<1>2. PICK p \in Pids : /\ pstate[p] = "none"
                        /\ pid' = [pid EXCEPT ![i] = p]
                        /\ running' = [running EXCEPT ![i] = TRUE]
                        /\ pstate' = [pstate EXCEPT ![p] = "forked"]
                        /\ owner' = [owner EXCEPT ![p] = i]
  BY DEF Fork
<1>3. \A j \in Slots \ {i} : running[j] => pid[j] # p
  BY <1>2 DEF IInv, TrackingInv, ChildTracking
<1>4. \A q \in Pids \ {p} : pstate[q] # "none" => owner[q] # i
  BY <1>1 DEF IInv, TrackingInv, ChildTracking, TypeOK
<1>5. ChildTracking'
  <2>1. \A j \in Slots : running'[j] =>
          pid'[j] \in Pids /\ pstate'[pid'[j]] # "none" /\ owner'[pid'[j]] = j
    BY <1>1, <1>2, <1>3 DEF IInv, TrackingInv, ChildTracking, TypeOK
  <2>2. \A q \in Pids : pstate'[q] # "none" /\ owner'[q] # 0 =>
          running'[owner'[q]] /\ pid'[owner'[q]] = q
    BY <1>1, <1>2, <1>4 DEF IInv, TrackingInv, ChildTracking, TypeOK
  <2> QED
    BY <2>1, <2>2 DEF ChildTracking
<1>6. TrackingInv'
  BY <1>1, <1>2, <1>5 DEF IInv, TrackingInv, TypeOK
<1>7. StreamsFollowChild'
  BY <1>1 DEF IInv, StreamsFollowChild, TypeOK, Fork
<1> QED
  BY <1>6, <1>7

(* A spawn that fails for an application without a process. *)
LEMMA SpawnErrorTracking ==
    ASSUME IInv, NEW i \in scbs, ~running[i], SpawnError(i), scbs' = scbs
    PROVE  TrackingInv' /\ StreamsFollowChild' /\ running' = running
<1>1. i \in Slots
  BY ScbFacts DEF IInv
<1>2. running' = running
  <2>1. running' = running \/ running' = [running EXCEPT ![i] = FALSE]
    BY DEF SpawnError, CloseStreams, scbVars
  <2>2. running \in [Slots -> BOOLEAN] /\ running[i] = FALSE
    BY <1>1 DEF IInv, TypeOK
  <2> QED
    BY <2>1, <2>2
<1>3. UNCHANGED <<pstate, owner>> /\ \A j \in Slots \ {i} : pid'[j] = pid[j]
  BY <1>1 DEF IInv, SpawnError, CloseStreams, scbVars, procVars, TypeOK
<1>4. pid'[i] \notin Pids
  BY <1>1, PidsAssumption DEF IInv, SpawnError, CloseStreams, scbVars, TrackingInv, TypeOK
<1>5. TrackingInv'
  BY <1>1, <1>2, <1>3, <1>4 DEF IInv, TrackingInv, ChildTracking, TypeOK
<1>6. StreamsFollowChild'
  BY <1>1, <1>2 DEF IInv, SpawnError, CloseStreams, scbVars, StreamsFollowChild, TypeOK
<1> QED
  BY <1>2, <1>5, <1>6

(* Starting over with empty control blocks when nothing is running. *)
LEMMA EmptyTracking ==
    ASSUME IInv, \A i \in Slots : ~running[i],
           running' = [i \in Slots |-> FALSE], pid' = [i \in Slots |-> 0],
           streams' = [i \in Slots |-> {}],
           restartPending' = [i \in Slots |-> FALSE], UNCHANGED procVars
    PROVE  TrackingInv' /\ PendingIsIdle' /\ StreamsFollowChild'
BY PidsAssumption, MaxAppsAssumption
DEF IInv, TrackingInv, ChildTracking, PendingIsIdle, StreamsFollowChild,
    TypeOK, procVars, Slots

-----------------------------------------------------------------------------
(* The initial states satisfy the invariant. *)
LEMMA InitIInv == Init => IInv
<1> SUFFICES ASSUME Init PROVE IInv
  OBVIOUS
<1>1. TypeOK
  <2>1. /\ reply \in [text : ReplyTexts, app : Slots \cup {0}]
        /\ pc \in Labels
        /\ pstate \in [Pids -> PStates]
    BY DEF Init, NoReply, ReplyTexts, Labels, PStates
  <2>2. restartIn \in [Slots -> 0..RestartDelay]
    BY BoundsAssumption DEF Init
  <2> QED
    BY <2>1, <2>2 DEF Init, TypeOK, NoSignal
<1>2. FlowInv
  BY DEF Init, FlowInv, LoopLabels, QuietLabels
<1>3. TrackingInv /\ PendingIsIdle /\ StreamsFollowChild
  BY PidsAssumption
  DEF Init, TrackingInv, ChildTracking, PendingIsIdle, StreamsFollowChild
<1> QED
  BY <1>1, <1>2, <1>3 DEF IInv

(* Startup keeps the invariant. *)
LEMMA StartupStep == ASSUME IInv, Startup PROVE IInv'
<1>1. CASE ResetStop
  <2>1. TypeOK'
    BY <1>1 DEF IInv, ResetStop, NoSignal, Labels, TypeOK, vars, mainVars,
      sigVars, scbVars, flagVars, procVars
  <2>2. FlowInv'
    BY <1>1 DEF IInv, ResetStop, TypeOK, FlowInv, LoopLabels, QuietLabels,
      vars, mainVars, sigVars, scbVars, flagVars, procVars
  <2>3. TrackingInv' /\ PendingIsIdle' /\ StreamsFollowChild'
    BY <1>1, Frame DEF ResetStop, vars, mainVars, sigVars, scbVars, flagVars,
      procVars
  <2> QED
    BY <2>1, <2>2, <2>3 DEF IInv
<1>2. CASE ResetReload
  <2>1. TypeOK'
    BY <1>2 DEF IInv, ResetReload, Labels, TypeOK, vars, mainVars, sigVars,
      scbVars, flagVars, procVars
  <2>2. FlowInv'
    BY <1>2 DEF IInv, ResetReload, TypeOK, FlowInv, LoopLabels, QuietLabels,
      vars, mainVars, sigVars, scbVars, flagVars, procVars
  <2>3. TrackingInv' /\ PendingIsIdle' /\ StreamsFollowChild'
    BY <1>2, Frame DEF ResetReload, vars, mainVars, sigVars, scbVars,
      flagVars, procVars
  <2> QED
    BY <2>1, <2>2, <2>3 DEF IInv
<1>3. CASE InitScbs
  <2>1. \A i \in Slots : ~running[i]
    BY <1>3 DEF IInv, InitScbs, FlowInv, QuietLabels
  <2>2. TypeOK'
    BY <1>3, <2>1, ConfigFacts, BoundsAssumption DEF IInv, InitScbs, Labels,
      TypeOK, vars, mainVars, sigVars, scbVars, flagVars, procVars
  <2>3. FlowInv'
    BY <1>3, <2>1, ConfigFacts DEF IInv, InitScbs, TypeOK, FlowInv,
      LoopLabels, QuietLabels, vars, mainVars, sigVars, scbVars, flagVars,
      procVars
  <2>4. TrackingInv' /\ PendingIsIdle' /\ StreamsFollowChild'
    BY <1>3, <2>1, EmptyTracking DEF InitScbs
  <2> QED
    BY <2>2, <2>3, <2>4 DEF IInv
<1>4. CASE InitFails
  <2>1. TypeOK'
    BY <1>4 DEF IInv, InitFails, Labels, TypeOK, vars, mainVars, sigVars,
      scbVars, flagVars, procVars
  <2>2. FlowInv'
    BY <1>4 DEF IInv, InitFails, TypeOK, FlowInv, LoopLabels, QuietLabels,
      vars, mainVars, sigVars, scbVars, flagVars, procVars
  <2>3. TrackingInv' /\ PendingIsIdle' /\ StreamsFollowChild'
    BY <1>4, Frame DEF InitFails, vars, mainVars, sigVars, scbVars, flagVars,
      procVars
  <2> QED
    BY <2>1, <2>2, <2>3 DEF IInv
<1>5. CASE BootDone
  <2>1. TypeOK'
    BY <1>5 DEF IInv, BootDone, NoSignal, Labels, TypeOK, vars, mainVars,
      sigVars, scbVars, flagVars, procVars
  <2>2. FlowInv'
    BY <1>5 DEF IInv, BootDone, TypeOK, FlowInv, LoopLabels, QuietLabels,
      vars, mainVars, sigVars, scbVars, flagVars, procVars
  <2>3. TrackingInv' /\ PendingIsIdle' /\ StreamsFollowChild'
    BY <1>5, Frame DEF BootDone, vars, mainVars, sigVars, scbVars, flagVars,
      procVars
  <2> QED
    BY <2>1, <2>2, <2>3 DEF IInv
<1>6. ASSUME NEW i \in Slots, BootSkip(i) PROVE IInv'
  <2>1. TypeOK'
    BY <1>6 DEF IInv, BootSkip, TypeOK, vars, mainVars, sigVars, scbVars,
      flagVars, procVars
  <2>2. FlowInv'
    BY <1>6 DEF IInv, BootSkip, IsNext, TypeOK, FlowInv, LoopLabels,
      QuietLabels, vars, mainVars, sigVars, scbVars, flagVars, procVars
  <2>3. TrackingInv' /\ PendingIsIdle' /\ StreamsFollowChild'
    BY <1>6, Frame DEF BootSkip, vars, mainVars, sigVars, scbVars, flagVars,
      procVars
  <2> QED
    BY <2>1, <2>2, <2>3 DEF IInv
<1>7. ASSUME NEW i \in Slots, BootFork(i) PROVE IInv'
  <2>1. i \in scbs /\ ~running[i] /\ ~restartPending[i]
    BY <1>7 DEF IInv, BootFork, FlowInv, IsNext
  <2>2. TypeOK'
    BY <1>7, <2>1, ForkTypes DEF IInv, BootFork, Labels, TypeOK, vars,
      mainVars, sigVars, scbVars, flagVars, procVars
  <2>3. FlowInv'
    BY <1>7, <2>1 DEF IInv, BootFork, Fork, IsNext, TypeOK, FlowInv,
      LoopLabels, QuietLabels, vars, mainVars, sigVars, scbVars, flagVars,
      procVars
  <2>4. TrackingInv' /\ StreamsFollowChild'
    BY <1>7, <2>1, ForkTracking DEF BootFork, vars, mainVars, sigVars,
      scbVars, flagVars, procVars
  <2>5. PendingIsIdle'
    BY <1>7, <2>1, ScbFacts DEF IInv, BootFork, Fork, PendingIsIdle, TypeOK,
      vars, mainVars, sigVars, scbVars, flagVars, procVars
  <2> QED
    BY <2>2, <2>3, <2>4, <2>5 DEF IInv
<1>8. ASSUME NEW i \in Slots, BootSpawnError(i) PROVE IInv'
  <2>1. i \in scbs /\ ~running[i] /\ ~restartPending[i]
    BY <1>8 DEF IInv, BootSpawnError, FlowInv, IsNext
  <2>2. \A j \in todo \ {i} : restartPending'[j] = restartPending[j]
    BY <1>8, <2>1, ScbFacts DEF IInv, BootSpawnError, ScheduleRestart,
      TypeOK, FlowInv
  <2>3. running' = running
    BY <1>8, <2>1, <2>2, SpawnErrorTracking DEF IInv, BootSpawnError, vars,
      mainVars, sigVars, scbVars, flagVars, procVars
  <2>4. TypeOK'
    BY <1>8, <2>1, <2>2, <2>3, SpawnErrorTypes, ScheduleTypes DEF IInv,
      BootSpawnError, TypeOK, vars, mainVars, sigVars, scbVars, flagVars,
      procVars
  <2>5. FlowInv'
    BY <1>8, <2>1, <2>2, <2>3 DEF IInv, BootSpawnError, TypeOK, FlowInv,
      LoopLabels, QuietLabels, vars, mainVars, sigVars, scbVars, flagVars,
      procVars
  <2>6. TrackingInv' /\ StreamsFollowChild'
    BY <1>8, <2>1, <2>2, <2>3, SpawnErrorTracking DEF BootSpawnError, vars,
      mainVars, sigVars, scbVars, flagVars, procVars
  <2>7. PendingIsIdle'
    BY <1>8, <2>1, <2>2, <2>3 DEF IInv, BootSpawnError, ScheduleRestart,
      PendingIsIdle, TypeOK, vars, mainVars, sigVars, scbVars, flagVars,
      procVars
  <2> QED
    BY <2>4, <2>5, <2>6, <2>7 DEF IInv
<1>9. ASSUME NEW i \in Slots, BootSpawned(i) PROVE IInv'
  <2>1. \A j \in todo : IsNext(j) => i = j
    BY <1>9, NextIsUnique, ScbFacts DEF IInv, BootSpawned, FlowInv
  <2>2. TypeOK'
    BY <1>9, <2>1 DEF IInv, BootSpawned, SpawnReturns, Labels, TypeOK, vars,
      mainVars, sigVars, scbVars, flagVars, procVars
  <2>3. FlowInv'
    BY <1>9, <2>1 DEF IInv, BootSpawned, SpawnReturns, TypeOK, FlowInv,
      LoopLabels, QuietLabels, vars, mainVars, sigVars, scbVars, flagVars,
      procVars
  <2>4. TrackingInv' /\ PendingIsIdle' /\ StreamsFollowChild'
    BY <1>9, <2>1, Frame DEF BootSpawned, SpawnReturns, vars, mainVars,
      sigVars, scbVars, flagVars, procVars
  <2> QED
    BY <2>2, <2>3, <2>4 DEF IInv
<1> QED
  BY <1>1, <1>2, <1>3, <1>4, <1>5, <1>6, <1>7, <1>8, <1>9 DEF Startup

(* The main loop, apart from its control requests, keeps the invariant. *)
LEMMA SuperviseStep == ASSUME IInv, Supervise PROVE IInv'
<1>1. CASE ReadClock
  <2>1. TypeOK'
    BY <1>1, ConfigFacts DEF IInv, ReadClock, Labels, TypeOK, vars, mainVars,
      sigVars, scbVars, flagVars, procVars
  <2>2. FlowInv'
    BY <1>1 DEF IInv, ReadClock, TypeOK, FlowInv, LoopLabels, QuietLabels,
      vars, mainVars, sigVars, scbVars, flagVars, procVars
  <2>3. TrackingInv' /\ PendingIsIdle' /\ StreamsFollowChild'
    BY <1>1, Frame DEF ReadClock, vars, mainVars, sigVars, scbVars, flagVars,
      procVars
  <2> QED
    BY <2>1, <2>2, <2>3 DEF IInv
<1>2. CASE RestartDone
  <2>1. TypeOK'
    BY <1>2 DEF IInv, RestartDone, Labels, TypeOK, vars, mainVars, sigVars,
      scbVars, flagVars, procVars
  <2>2. FlowInv'
    BY <1>2 DEF IInv, RestartDone, TypeOK, FlowInv, LoopLabels, QuietLabels,
      vars, mainVars, sigVars, scbVars, flagVars, procVars
  <2>3. TrackingInv' /\ PendingIsIdle' /\ StreamsFollowChild'
    BY <1>2, Frame DEF RestartDone, vars, mainVars, sigVars, scbVars,
      flagVars, procVars
  <2> QED
    BY <2>1, <2>2, <2>3 DEF IInv
<1>3. CASE ReapDone
  <2>1. TypeOK'
    BY <1>3 DEF IInv, ReapDone, Labels, TypeOK, vars, mainVars, sigVars,
      scbVars, flagVars, procVars
  <2>2. FlowInv'
    BY <1>3 DEF IInv, ReapDone, TypeOK, FlowInv, LoopLabels, QuietLabels,
      vars, mainVars, sigVars, scbVars, flagVars, procVars
  <2>3. TrackingInv' /\ PendingIsIdle' /\ StreamsFollowChild'
    BY <1>3, Frame DEF ReapDone, vars, mainVars, sigVars, scbVars, flagVars,
      procVars
  <2> QED
    BY <2>1, <2>2, <2>3 DEF IInv
<1>4. ASSUME NEW i \in Slots, RestartSkip(i) PROVE IInv'
  <2>1. TypeOK'
    BY <1>4 DEF IInv, RestartSkip, TypeOK, vars, mainVars, sigVars, scbVars,
      flagVars, procVars
  <2>2. FlowInv'
    BY <1>4 DEF IInv, RestartSkip, IsNext, TypeOK, FlowInv, LoopLabels,
      QuietLabels, vars, mainVars, sigVars, scbVars, flagVars, procVars
  <2>3. TrackingInv' /\ PendingIsIdle' /\ StreamsFollowChild'
    BY <1>4, Frame DEF RestartSkip, vars, mainVars, sigVars, scbVars,
      flagVars, procVars
  <2> QED
    BY <2>1, <2>2, <2>3 DEF IInv
<1>5. ASSUME NEW i \in Slots, RestartFork(i) PROVE IInv'
  <2>1. i \in scbs /\ ~running[i]
    BY <1>5 DEF IInv, RestartFork, FlowInv, IsNext, RestartWanted
  <2>2. TypeOK'
    BY <1>5, <2>1, ForkTypes, BoundsAssumption DEF IInv, RestartFork, Labels,
      TypeOK, vars, mainVars, sigVars, scbVars, flagVars, procVars
  <2>3. FlowInv'
    BY <1>5, <2>1 DEF IInv, RestartFork, Fork, IsNext, TypeOK, FlowInv,
      LoopLabels, QuietLabels, vars, mainVars, sigVars, scbVars, flagVars,
      procVars
  <2>4. TrackingInv' /\ StreamsFollowChild'
    BY <1>5, <2>1, ForkTracking DEF RestartFork, vars, mainVars, sigVars,
      scbVars, flagVars, procVars
  <2>5. PendingIsIdle'
    BY <1>5, <2>1, ScbFacts DEF IInv, RestartFork, Fork, PendingIsIdle,
      TypeOK, vars, mainVars, sigVars, scbVars, flagVars, procVars
  <2> QED
    BY <2>2, <2>3, <2>4, <2>5 DEF IInv
<1>6. ASSUME NEW i \in Slots, RestartSpawnError(i) PROVE IInv'
  <2>1. i \in scbs /\ ~running[i]
    BY <1>6 DEF IInv, RestartSpawnError, FlowInv, IsNext, RestartWanted
  <2>2. running' = running
    BY <1>6, <2>1, SpawnErrorTracking DEF IInv, RestartSpawnError, vars,
      mainVars, sigVars, scbVars, flagVars, procVars
  <2>3. TypeOK'
    BY <1>6, <2>1, <2>2, SpawnErrorTypes, ScheduleTypes DEF IInv,
      RestartSpawnError, TypeOK, vars, mainVars, sigVars, scbVars, flagVars,
      procVars
  <2>4. FlowInv'
    BY <1>6, <2>1, <2>2 DEF IInv, RestartSpawnError, TypeOK, FlowInv,
      LoopLabels, QuietLabels, vars, mainVars, sigVars, scbVars, flagVars,
      procVars
  <2>5. TrackingInv' /\ StreamsFollowChild'
    BY <1>6, <2>1, <2>2, SpawnErrorTracking DEF RestartSpawnError, vars,
      mainVars, sigVars, scbVars, flagVars, procVars
  <2>6. PendingIsIdle'
    BY <1>6, <2>1, <2>2 DEF IInv, RestartSpawnError, RestartWanted,
      ScheduleRestart, PendingIsIdle, TypeOK, vars, mainVars, sigVars,
      scbVars, flagVars, procVars
  <2> QED
    BY <2>3, <2>4, <2>5, <2>6 DEF IInv
<1>7. ASSUME NEW i \in Slots, RestartSpawned(i) PROVE IInv'
  <2>1. TypeOK'
    BY <1>7 DEF IInv, RestartSpawned, SpawnReturns, Labels, TypeOK, vars,
      mainVars, sigVars, scbVars, flagVars, procVars
  <2>2. FlowInv'
    BY <1>7 DEF IInv, RestartSpawned, SpawnReturns, IsNext, TypeOK, FlowInv,
      LoopLabels, QuietLabels, vars, mainVars, sigVars, scbVars, flagVars,
      procVars
  <2>3. TrackingInv' /\ PendingIsIdle' /\ StreamsFollowChild'
    BY <1>7, Frame DEF RestartSpawned, SpawnReturns, vars, mainVars, sigVars,
      scbVars, flagVars, procVars
  <2> QED
    BY <2>1, <2>2, <2>3 DEF IInv
<1>8. ASSUME NEW p \in Pids, ReapOrphan(p) PROVE IInv'
  <2>1. TypeOK'
    BY <1>8 DEF IInv, ReapOrphan, WaitPid, PStates, TypeOK, vars, mainVars,
      sigVars, scbVars, flagVars, procVars
  <2>2. FlowInv'
    BY <1>8 DEF IInv, ReapOrphan, TypeOK, FlowInv, LoopLabels, QuietLabels,
      vars, mainVars, sigVars, scbVars, flagVars, procVars
  <2>3. TrackingInv'
    BY <1>8 DEF IInv, ReapOrphan, WaitPid, TrackingInv, ChildTracking,
      TypeOK, vars, mainVars, sigVars, scbVars, flagVars, procVars
  <2>4. PendingIsIdle' /\ StreamsFollowChild'
    BY <1>8 DEF IInv, ReapOrphan, PendingIsIdle, StreamsFollowChild, vars,
      mainVars, sigVars, scbVars, flagVars, procVars
  <2> QED
    BY <2>1, <2>2, <2>3, <2>4 DEF IInv
<1>9. ASSUME NEW p \in Pids, NEW i \in Slots, ReapApp(p, i) PROVE IInv'
  <2>1. TypeOK'
    BY <1>9, ScheduleTypes DEF IInv, ReapApp, CloseStreams, WaitPid, PStates, TypeOK, vars,
      mainVars, sigVars, scbVars, flagVars, procVars
  <2>2. FlowInv'
    BY <1>9 DEF IInv, ReapApp, TypeOK, FlowInv, LoopLabels, QuietLabels,
      vars, mainVars, sigVars, scbVars, flagVars, procVars
  <2>3. TrackingInv'
    BY <1>9, PidsAssumption DEF IInv, ReapApp, WaitPid, TrackingInv,
      ChildTracking, TypeOK, vars, mainVars, sigVars, scbVars, flagVars,
      procVars
  <2>4. PendingIsIdle'
    BY <1>9 DEF IInv, ReapApp, RestartAfterExit, ScheduleRestart,
      PendingIsIdle, TypeOK, vars, mainVars, sigVars, scbVars, flagVars,
      procVars
  <2>5. StreamsFollowChild'
    BY <1>9 DEF IInv, ReapApp, CloseStreams, StreamsFollowChild, TypeOK, vars, mainVars,
      sigVars, scbVars, flagVars, procVars
  <2> QED
    BY <2>1, <2>2, <2>3, <2>4, <2>5 DEF IInv
<1>10. CASE CheckStop
  <2>1. TypeOK'
    BY <1>10 DEF IInv, CheckStop, Labels, TypeOK, vars, mainVars, sigVars,
      scbVars, flagVars, procVars
  <2>2. FlowInv'
    BY <1>10 DEF IInv, CheckStop, TypeOK, FlowInv, LoopLabels, QuietLabels,
      vars, mainVars, sigVars, scbVars, flagVars, procVars
  <2>3. TrackingInv' /\ PendingIsIdle' /\ StreamsFollowChild'
    BY <1>10, Frame DEF CheckStop, vars, mainVars, sigVars, scbVars,
      flagVars, procVars
  <2> QED
    BY <2>1, <2>2, <2>3 DEF IInv
<1>11. CASE ClearStop
  <2>1. TypeOK'
    BY <1>11, ConfigFacts DEF IInv, ClearStop, NoSignal, Labels, TypeOK,
      vars, mainVars, sigVars, scbVars, flagVars, procVars
  <2>2. FlowInv'
    BY <1>11 DEF IInv, ClearStop, TypeOK, FlowInv, LoopLabels, QuietLabels,
      vars, mainVars, sigVars, scbVars, flagVars, procVars
  <2>3. TrackingInv' /\ PendingIsIdle' /\ StreamsFollowChild'
    BY <1>11, Frame DEF ClearStop, vars, mainVars, sigVars, scbVars,
      flagVars, procVars
  <2> QED
    BY <2>1, <2>2, <2>3 DEF IInv
<1>12. CASE ForwardDone
  <2>1. TypeOK'
    BY <1>12 DEF IInv, ForwardDone, Labels, TypeOK, vars, mainVars, sigVars,
      scbVars, flagVars, procVars
  <2>2. FlowInv'
    BY <1>12 DEF IInv, ForwardDone, TypeOK, FlowInv, LoopLabels, QuietLabels,
      vars, mainVars, sigVars, scbVars, flagVars, procVars
  <2>3. TrackingInv' /\ PendingIsIdle' /\ StreamsFollowChild'
    BY <1>12, Frame DEF ForwardDone, vars, mainVars, sigVars, scbVars,
      flagVars, procVars
  <2> QED
    BY <2>1, <2>2, <2>3 DEF IInv
<1>13. ASSUME NEW i \in Slots, ForwardSkip(i) PROVE IInv'
  <2>1. TypeOK'
    BY <1>13 DEF IInv, ForwardSkip, TypeOK, vars, mainVars, sigVars, scbVars,
      flagVars, procVars
  <2>2. FlowInv'
    BY <1>13 DEF IInv, ForwardSkip, IsNext, TypeOK, FlowInv, LoopLabels,
      QuietLabels, vars, mainVars, sigVars, scbVars, flagVars, procVars
  <2>3. TrackingInv' /\ PendingIsIdle' /\ StreamsFollowChild'
    BY <1>13, Frame DEF ForwardSkip, vars, mainVars, sigVars, scbVars,
      flagVars, procVars
  <2> QED
    BY <2>1, <2>2, <2>3 DEF IInv
<1>14. ASSUME NEW i \in Slots, ForwardStop(i) PROVE IInv'
  <2>1. pid[i] \in Pids /\ forwarding \in StopSignals
    BY <1>14 DEF IInv, ForwardStop, TrackingInv, ChildTracking, FlowInv
  <2>2. TypeOK'
    BY <1>14, <2>1, KillTypes DEF IInv, ForwardStop, TypeOK, vars, mainVars,
      sigVars, scbVars, flagVars, procVars
  <2>3. FlowInv'
    BY <1>14, <2>1 DEF IInv, ForwardStop, TypeOK, FlowInv, LoopLabels,
      QuietLabels, vars, mainVars, sigVars, scbVars, flagVars, procVars
  <2>4. TrackingInv' /\ PendingIsIdle' /\ StreamsFollowChild'
    BY <1>14, <2>1, Frame, KillKeeps DEF IInv, ForwardStop, vars, mainVars,
      sigVars, scbVars, flagVars, procVars
  <2> QED
    BY <2>2, <2>3, <2>4 DEF IInv
<1> QED
  BY <1>1, <1>2, <1>3, <1>4, <1>5, <1>6, <1>7, <1>8, <1>9, <1>10, <1>11,
    <1>12, <1>13, <1>14 DEF Supervise

(* Control requests and output keep the invariant. *)
LEMMA ServeStep == ASSUME IInv, Serve PROVE IInv'
<1>1. CASE NoRequest
  <2>1. TypeOK'
    BY <1>1 DEF IInv, NoRequest, Labels, TypeOK, vars, mainVars, sigVars,
      scbVars, flagVars, procVars
  <2>2. FlowInv'
    BY <1>1 DEF IInv, NoRequest, TypeOK, FlowInv, LoopLabels, QuietLabels,
      vars, mainVars, sigVars, scbVars, flagVars, procVars
  <2>3. TrackingInv' /\ PendingIsIdle' /\ StreamsFollowChild'
    BY <1>1, Frame DEF NoRequest, vars, mainVars, sigVars, scbVars, flagVars,
      procVars
  <2> QED
    BY <2>1, <2>2, <2>3 DEF IInv
<1>2. CASE DrainStreams
  <2>1. TypeOK'
    <3>1. streams' \in [Slots -> SUBSET Streams]
      BY <1>2 DEF IInv, DrainStreams, SomeStreamsEnd, TypeOK
    <3>2. reply' \in [text : ReplyTexts, app : Slots \cup {0}] /\ pc' \in Labels
      BY <1>2 DEF DrainStreams, NoReply, ReplyTexts, Labels
    <3> QED
      BY <1>2, <3>1, <3>2 DEF IInv, DrainStreams, TypeOK, mainVars, sigVars,
        flagVars, procVars
  <2>2. FlowInv'
    BY <1>2 DEF IInv, DrainStreams, TypeOK, FlowInv, LoopLabels, QuietLabels,
      vars, mainVars, sigVars, scbVars, flagVars, procVars
  <2>3. TrackingInv' /\ PendingIsIdle'
    BY <1>2 DEF IInv, DrainStreams, TrackingInv, ChildTracking,
      PendingIsIdle, vars, mainVars, sigVars, scbVars, flagVars, procVars
  <2>4. StreamsFollowChild'
    BY <1>2 DEF IInv, DrainStreams, SomeStreamsEnd, StreamsFollowChild,
      TypeOK, vars, mainVars, sigVars, scbVars, flagVars, procVars
  <2> QED
    BY <2>1, <2>2, <2>3, <2>4 DEF IInv
<1>3. ASSUME NEW r \in Requests, Inspect(r) PROVE IInv'
  <2>1. \E t \in ReplyTexts, a \in Slots \cup {0} : reply' = Reply(t, a)
    BY <1>3, StatusType DEF IInv, Inspect, ReplyTexts
  <2>2. reply' \in [text : ReplyTexts, app : Slots \cup {0}]
    BY <1>3, <2>1, ReplyType DEF IInv, Inspect
  <2>3. TypeOK'
    BY <1>3, <2>1, <2>2 DEF IInv, Inspect, Labels, TypeOK, vars, mainVars,
      sigVars, scbVars, flagVars, procVars
  <2>4. FlowInv'
    BY <1>3, <2>1, <2>2 DEF IInv, Inspect, TypeOK, FlowInv, LoopLabels,
      QuietLabels, vars, mainVars, sigVars, scbVars, flagVars, procVars
  <2>5. TrackingInv' /\ PendingIsIdle' /\ StreamsFollowChild'
    BY <1>3, <2>1, <2>2, Frame DEF Inspect, vars, mainVars, sigVars, scbVars,
      flagVars, procVars
  <2> QED
    BY <2>3, <2>4, <2>5 DEF IInv
<1>4. ASSUME NEW r \in Requests, NEW i \in Slots, ControlStart(r, i) PROVE IInv'
  <2>1. /\ i \in scbs
        /\ pc = "drain"
        /\ ForgetRestart(i)
        /\ UNCHANGED <<mainVars, sigVars>>
    BY <1>4 DEF ControlStart, FindScb
  <2>2. /\ restartPending' = [restartPending EXCEPT ![i] = FALSE]
        /\ restartPending' \in [Slots -> BOOLEAN]
        /\ restartIn' \in [Slots -> 0..RestartDelay]
    BY <2>1, BoundsAssumption DEF IInv, TypeOK, ForgetRestart
  <2>3. /\ forwarding' \in StopSignals \cup {NoSignal}
        /\ registered' \in BOOLEAN
        /\ stopSig' \in StopSignals \cup {NoSignal}
        /\ reload' \in BOOLEAN
        /\ config' \in Configs
        /\ scbs' \in {{}, DOMAIN config'}
    BY <2>1 DEF IInv, TypeOK, mainVars, sigVars
  <2>4. CASE ControlStartFork(i)
    <3>1. TypeOK'
      BY <2>1, <2>2, <2>3, <2>4, ForkTypes
      DEF IInv, TypeOK, ControlStartFork, Labels
    <3>2. FlowInv'
      BY <2>1, <2>4
      DEF IInv, TypeOK, ControlStartFork, Fork, FlowInv, LoopLabels,
          QuietLabels, mainVars
    <3>3. TrackingInv' /\ StreamsFollowChild'
      BY <2>1, <2>4, ForkTracking DEF ControlStartFork, mainVars
    <3>4. PendingIsIdle'
      BY <2>1, <2>2, <2>4
      DEF IInv, TypeOK, ControlStartFork, Fork, PendingIsIdle, mainVars
    <3> QED
      BY <3>1, <3>2, <3>3, <3>4 DEF IInv
  <2>5. CASE ControlStartError(i)
    <3>1. reply' \in [text : ReplyTexts, app : Slots \cup {0}]
      BY <2>5, ReplyType DEF ControlStartError, ReplyTexts
    <3>2. TypeOK'
      BY <2>1, <2>2, <2>3, <2>5, <3>1, SpawnErrorTypes
      DEF IInv, TypeOK, ControlStartError, Labels
    <3>3. FlowInv'
      BY <2>1, <2>5 DEF IInv, TypeOK, ControlStartError, FlowInv, LoopLabels,
                        QuietLabels, mainVars
    <3>4. TrackingInv' /\ StreamsFollowChild' /\ running' = running
      BY <2>1, <2>5, SpawnErrorTracking DEF ControlStartError, mainVars
    <3>5. PendingIsIdle'
      BY <2>1, <2>2, <2>5, <3>4
      DEF IInv, TypeOK, ControlStartError, PendingIsIdle, mainVars
    <3> QED
      BY <3>2, <3>3, <3>4, <3>5 DEF IInv
  <2>6. CASE ControlStartRunning(i)
    <3>1. reply' \in [text : ReplyTexts, app : Slots \cup {0}]
      BY <2>6, ReplyType DEF ControlStartRunning, ReplyTexts
    <3>2. TypeOK'
      BY <2>1, <2>2, <2>3, <2>6, <3>1
      DEF IInv, TypeOK, ControlStartRunning, Labels, scbVars, procVars
    <3>3. FlowInv'
      BY <2>1, <2>6 DEF IInv, TypeOK, ControlStartRunning, FlowInv,
                        LoopLabels, QuietLabels, mainVars
    <3>4. TrackingInv' /\ StreamsFollowChild'
      BY <2>1, <2>6
      DEF IInv, ControlStartRunning, TrackingInv, ChildTracking,
          StreamsFollowChild, mainVars, scbVars, procVars
    <3>5. PendingIsIdle'
      BY <2>1, <2>2, <2>6 DEF IInv, TypeOK, ControlStartRunning,
                              PendingIsIdle, mainVars, scbVars
    <3> QED
      BY <3>2, <3>3, <3>4, <3>5 DEF IInv
  <2> QED
    BY <1>4, <2>4, <2>5, <2>6 DEF ControlStart
<1>5. ASSUME NEW r \in Requests, NEW i \in Slots, ControlStop(r, i) PROVE IInv'
  <2>1. /\ pc = "drain" /\ pc' = "streams"
        /\ desired' = [desired EXCEPT ![i] = FALSE]
        /\ ForgetRestart(i)
        /\ UNCHANGED <<todo, mainVars, sigVars, scbVars, errorPipe>>
    BY <1>5 DEF ControlStop
  <2>2. reply' \in [text : ReplyTexts, app : Slots \cup {0}]
    <3>1. \E t \in ReplyTexts : reply' = Reply(t, i)
      BY <1>5 DEF ControlStop, ReplyTexts
    <3> QED
      BY <3>1, ReplyType
  <2>3. running[i] => pid[i] \in Pids
    BY DEF IInv, TrackingInv, ChildTracking
  <2>4. /\ pstate' \in [Pids -> PStates]
        /\ owner' \in [Pids -> Slots \cup {0}]
        /\ told' \in [Pids -> SUBSET StopSignals]
        /\ owner' = owner
        /\ \A q \in Pids : pstate'[q] = "none" <=> pstate[q] = "none"
    <3>1. CASE UNCHANGED procVars
      BY <3>1 DEF IInv, TypeOK, procVars
    <3>2. CASE running[i] /\ Kill(pid[i], "SIGTERM")
      BY <2>3, <3>2, KillTypes, KillKeeps DEF IInv, StopSignals
    <3> QED
      BY <1>5, <3>1, <3>2 DEF ControlStop
  <2>5. /\ restartPending' = [restartPending EXCEPT ![i] = FALSE]
        /\ restartPending' \in [Slots -> BOOLEAN]
        /\ restartIn' \in [Slots -> 0..RestartDelay]
    BY <2>1, BoundsAssumption DEF IInv, TypeOK, ForgetRestart
  <2>6. TypeOK'
    <3>1. pc' \in Labels
      BY <2>1 DEF Labels
    <3> QED
      BY <2>1, <2>2, <2>4, <2>5, <3>1
      DEF IInv, TypeOK, mainVars, sigVars, scbVars
  <2>7. FlowInv'
    BY <2>1 DEF IInv, FlowInv, LoopLabels, QuietLabels, mainVars, scbVars
  <2>8. TrackingInv' /\ StreamsFollowChild'
    BY <2>1, <2>4 DEF IInv, TrackingInv, ChildTracking, StreamsFollowChild,
                      mainVars, scbVars
  <2>9. PendingIsIdle'
    BY <2>1, <2>5 DEF IInv, TypeOK, PendingIsIdle, mainVars, scbVars
  <2> QED
    BY <2>6, <2>7, <2>8, <2>9 DEF IInv
<1>6. ASSUME NEW i \in Slots, ControlStarted(i) PROVE IInv'
  <2>1. reply' \in [text : ReplyTexts, app : Slots \cup {0}]
    BY <1>6, ReplyType DEF IInv, ControlStarted, ReplyTexts
  <2>2. TypeOK'
    BY <1>6, <2>1 DEF IInv, ControlStarted, SpawnReturns, SpawnChildError,
      Labels, TypeOK, vars, mainVars, sigVars, scbVars, flagVars, procVars
  <2>3. FlowInv'
    BY <1>6, <2>1 DEF IInv, ControlStarted, TypeOK, FlowInv, LoopLabels,
      QuietLabels, vars, mainVars, sigVars, scbVars, flagVars, procVars
  <2>4. TrackingInv' /\ StreamsFollowChild'
    BY <1>6, <2>1 DEF IInv, ControlStarted, SpawnReturns, TrackingInv,
      ChildTracking, StreamsFollowChild, vars, mainVars, sigVars, scbVars,
      flagVars, procVars
  <2>5. PendingIsIdle'
    BY <1>6, <2>1 DEF IInv, ControlStarted, SpawnReturns, IsNext, FlowInv,
      PendingIsIdle, TypeOK, vars, mainVars, sigVars, scbVars, flagVars,
      procVars
  <2> QED
    BY <2>2, <2>3, <2>4, <2>5 DEF IInv
<1> QED
  BY <1>1, <1>2, <1>3, <1>4, <1>5, <1>6 DEF Serve

(* Shutdown and reload keep the invariant. *)
LEMMA FinishStep == ASSUME IInv, Finish PROVE IInv'
<1>1. CASE CloseSocket
  <2>1. TypeOK'
    BY <1>1 DEF IInv, CloseSocket, Labels, TypeOK, vars, mainVars, sigVars,
      scbVars, flagVars, procVars
  <2>2. FlowInv'
    BY <1>1 DEF IInv, CloseSocket, StillUp, TrackingInv, TypeOK, FlowInv,
      LoopLabels, QuietLabels, vars, mainVars, sigVars, scbVars, flagVars,
      procVars
  <2>3. TrackingInv' /\ PendingIsIdle' /\ StreamsFollowChild'
    BY <1>1, Frame DEF CloseSocket, vars, mainVars, sigVars, scbVars,
      flagVars, procVars
  <2> QED
    BY <2>1, <2>2, <2>3 DEF IInv
<1>2. CASE WaitDrain
  <2>1. TypeOK'
    BY <1>2 DEF IInv, WaitDrain, SomeStreamsEnd, Labels, TypeOK, vars,
      mainVars, sigVars, scbVars, flagVars, procVars
  <2>2. FlowInv'
    BY <1>2 DEF IInv, WaitDrain, StillUp, TrackingInv, TypeOK, FlowInv,
      LoopLabels, QuietLabels, vars, mainVars, sigVars, scbVars, flagVars,
      procVars
  <2>3. TrackingInv' /\ PendingIsIdle'
    BY <1>2 DEF IInv, WaitDrain, TrackingInv, ChildTracking, PendingIsIdle,
      vars, mainVars, sigVars, scbVars, flagVars, procVars
  <2>4. StreamsFollowChild'
    BY <1>2 DEF IInv, WaitDrain, SomeStreamsEnd, StreamsFollowChild, TypeOK,
      vars, mainVars, sigVars, scbVars, flagVars, procVars
  <2> QED
    BY <2>1, <2>2, <2>3, <2>4 DEF IInv
<1>3. CASE Cleanup
  <2>1. \A i \in Slots : ~running[i]
    BY <1>3 DEF IInv, Cleanup, FlowInv, QuietLabels
  <2>2. TypeOK'
    BY <1>3, <2>1, BoundsAssumption DEF IInv, Cleanup, Labels, TypeOK, vars,
      mainVars, sigVars, scbVars, flagVars, procVars
  <2>3. FlowInv'
    BY <1>3, <2>1 DEF IInv, Cleanup, TypeOK, FlowInv, LoopLabels,
      QuietLabels, vars, mainVars, sigVars, scbVars, flagVars, procVars
  <2>4. TrackingInv' /\ PendingIsIdle' /\ StreamsFollowChild'
    BY <1>3, <2>1, EmptyTracking DEF Cleanup
  <2> QED
    BY <2>2, <2>3, <2>4 DEF IInv
<1>4. CASE CheckReload
  <2>1. TypeOK'
    BY <1>4 DEF IInv, CheckReload, Labels, TypeOK, vars, mainVars, sigVars,
      scbVars, flagVars, procVars
  <2>2. FlowInv'
    BY <1>4 DEF IInv, CheckReload, TypeOK, FlowInv, LoopLabels, QuietLabels,
      vars, mainVars, sigVars, scbVars, flagVars, procVars
  <2>3. TrackingInv' /\ PendingIsIdle' /\ StreamsFollowChild'
    BY <1>4, Frame DEF CheckReload, vars, mainVars, sigVars, scbVars,
      flagVars, procVars
  <2> QED
    BY <2>1, <2>2, <2>3 DEF IInv
<1>5. CASE ConfigInit
  <2>1. scbs = {}
    BY <1>5 DEF IInv, ConfigInit, FlowInv, QuietLabels
  <2>2. TypeOK'
    BY <1>5, <2>1 DEF IInv, ConfigInit, Labels, TypeOK, vars, mainVars,
      sigVars, scbVars, flagVars, procVars
  <2>3. FlowInv'
    BY <1>5, <2>1 DEF IInv, ConfigInit, TypeOK, FlowInv, LoopLabels,
      QuietLabels, vars, mainVars, sigVars, scbVars, flagVars, procVars
  <2>4. TrackingInv' /\ StreamsFollowChild'
    BY <1>5, <2>1 DEF IInv, ConfigInit, TrackingInv, ChildTracking,
      StreamsFollowChild, vars, mainVars, sigVars, scbVars, flagVars,
      procVars
  <2>5. PendingIsIdle'
    BY <1>5, <2>1 DEF IInv, ConfigInit, PendingIsIdle, TypeOK, vars,
      mainVars, sigVars, scbVars, flagVars, procVars
  <2> QED
    BY <2>2, <2>3, <2>4, <2>5 DEF IInv
<1>6. CASE Exited
  <2>1. TypeOK'
    BY <1>6 DEF IInv, Exited, TypeOK, vars, mainVars, sigVars, scbVars,
      flagVars, procVars
  <2>2. FlowInv'
    BY <1>6 DEF IInv, Exited, IsNext, TypeOK, FlowInv, LoopLabels,
      QuietLabels, vars, mainVars, sigVars, scbVars, flagVars, procVars
  <2>3. TrackingInv' /\ PendingIsIdle' /\ StreamsFollowChild'
    BY <1>6, Frame DEF Exited, vars, mainVars, sigVars, scbVars, flagVars,
      procVars
  <2> QED
    BY <2>1, <2>2, <2>3 DEF IInv
<1> QED
  BY <1>1, <1>2, <1>3, <1>4, <1>5, <1>6 DEF Finish

(* Signals, children and the clock keep the invariant. *)
LEMMA EnvironmentStep == ASSUME IInv, Environment PROVE IInv'
<1>1. ASSUME NEW s \in EnvSignals, Deliver(s) PROVE IInv'
  <2>1. TypeOK'
    BY <1>1, EnvSignalsAssumption DEF IInv, Deliver, StopSignals, TypeOK,
      vars, mainVars, sigVars, scbVars, flagVars, procVars
  <2>2. FlowInv'
    BY <1>1 DEF IInv, Deliver, IsNext, TypeOK, FlowInv, LoopLabels,
      QuietLabels, vars, mainVars, sigVars, scbVars, flagVars, procVars
  <2>3. TrackingInv' /\ PendingIsIdle' /\ StreamsFollowChild'
    BY <1>1, Frame DEF Deliver, vars, mainVars, sigVars, scbVars, flagVars,
      procVars
  <2> QED
    BY <2>1, <2>2, <2>3 DEF IInv
<1>2. ASSUME NEW p \in Pids, ChildResetSignals(p) PROVE IInv'
  <2>1. TypeOK'
    BY <1>2 DEF IInv, ChildResetSignals, ChildStep, PStates, TypeOK, vars,
      mainVars, sigVars, scbVars, flagVars, procVars
  <2>2. FlowInv'
    BY <1>2 DEF IInv, ChildResetSignals, ChildStep, IsNext, TypeOK, FlowInv,
      LoopLabels, QuietLabels, vars, mainVars, sigVars, scbVars, flagVars,
      procVars
  <2>3. TrackingInv' /\ PendingIsIdle' /\ StreamsFollowChild'
    BY <1>2, Frame DEF IInv, ChildResetSignals, ChildStep, TypeOK, vars,
      mainVars, sigVars, scbVars, flagVars, procVars
  <2> QED
    BY <2>1, <2>2, <2>3 DEF IInv
<1>3. ASSUME NEW p \in Pids, ChildExec(p) PROVE IInv'
  <2>1. TypeOK'
    BY <1>3 DEF IInv, ChildExec, ChildStep, PStates, TypeOK, vars, mainVars,
      sigVars, scbVars, flagVars, procVars
  <2>2. FlowInv'
    BY <1>3 DEF IInv, ChildExec, ChildStep, IsNext, TypeOK, FlowInv,
      LoopLabels, QuietLabels, vars, mainVars, sigVars, scbVars, flagVars,
      procVars
  <2>3. TrackingInv' /\ PendingIsIdle' /\ StreamsFollowChild'
    BY <1>3, Frame DEF IInv, ChildExec, ChildStep, TypeOK, vars, mainVars,
      sigVars, scbVars, flagVars, procVars
  <2> QED
    BY <2>1, <2>2, <2>3 DEF IInv
<1>4. ASSUME NEW p \in Pids, ChildReportError(p) PROVE IInv'
  <2>1. TypeOK'
    BY <1>4 DEF IInv, ChildReportError, ChildStep, PStates, TypeOK, vars,
      mainVars, sigVars, scbVars, flagVars, procVars
  <2>2. FlowInv'
    BY <1>4 DEF IInv, ChildReportError, ChildStep, IsNext, TypeOK, FlowInv,
      LoopLabels, QuietLabels, vars, mainVars, sigVars, scbVars, flagVars,
      procVars
  <2>3. TrackingInv' /\ PendingIsIdle' /\ StreamsFollowChild'
    BY <1>4, Frame DEF IInv, ChildReportError, ChildStep, TypeOK, vars,
      mainVars, sigVars, scbVars, flagVars, procVars
  <2> QED
    BY <2>1, <2>2, <2>3 DEF IInv
<1>5. ASSUME NEW p \in Pids, ChildExit(p) PROVE IInv'
  <2>1. TypeOK'
    BY <1>5 DEF IInv, ChildExit, ChildStep, PStates, TypeOK, vars, mainVars,
      sigVars, scbVars, flagVars, procVars
  <2>2. FlowInv'
    BY <1>5 DEF IInv, ChildExit, ChildStep, IsNext, TypeOK, FlowInv,
      LoopLabels, QuietLabels, vars, mainVars, sigVars, scbVars, flagVars,
      procVars
  <2>3. TrackingInv' /\ PendingIsIdle' /\ StreamsFollowChild'
    BY <1>5, Frame DEF IInv, ChildExit, ChildStep, TypeOK, vars, mainVars,
      sigVars, scbVars, flagVars, procVars
  <2> QED
    BY <2>1, <2>2, <2>3 DEF IInv
<1>6. ASSUME NEW p \in Pids, AppExit(p) PROVE IInv'
  <2>1. TypeOK'
    BY <1>6 DEF IInv, AppExit, ChildStep, PStates, TypeOK, vars, mainVars,
      sigVars, scbVars, flagVars, procVars
  <2>2. FlowInv'
    BY <1>6 DEF IInv, AppExit, ChildStep, IsNext, TypeOK, FlowInv,
      LoopLabels, QuietLabels, vars, mainVars, sigVars, scbVars, flagVars,
      procVars
  <2>3. TrackingInv' /\ PendingIsIdle' /\ StreamsFollowChild'
    BY <1>6, Frame DEF IInv, AppExit, ChildStep, TypeOK, vars, mainVars,
      sigVars, scbVars, flagVars, procVars
  <2> QED
    BY <2>1, <2>2, <2>3 DEF IInv
<1>7. ASSUME NEW p \in Pids, OrphanDies(p) PROVE IInv'
  <2>1. owner[p] = 0
    BY <1>7 DEF IInv, OrphanDies, ChildStep, TrackingInv
  <2>2. TypeOK'
    BY <1>7, <2>1 DEF IInv, OrphanDies, ChildStep, PStates, TypeOK, vars,
      mainVars, sigVars, scbVars, flagVars, procVars
  <2>3. FlowInv'
    BY <1>7, <2>1 DEF IInv, OrphanDies, ChildStep, IsNext, TypeOK, FlowInv,
      LoopLabels, QuietLabels, vars, mainVars, sigVars, scbVars, flagVars,
      procVars
  <2>4. TrackingInv'
    BY <1>7, <2>1 DEF IInv, OrphanDies, ChildStep, TrackingInv,
      ChildTracking, TypeOK, vars, mainVars, sigVars, scbVars, flagVars,
      procVars
  <2>5. PendingIsIdle' /\ StreamsFollowChild'
    BY <1>7, <2>1 DEF IInv, OrphanDies, ChildStep, PendingIsIdle,
      StreamsFollowChild, vars, mainVars, sigVars, scbVars, flagVars,
      procVars
  <2> QED
    BY <2>2, <2>3, <2>4, <2>5 DEF IInv
<1>8. CASE Tick
  <2>1. TypeOK'
    BY <1>8, BoundsAssumption DEF IInv, Tick, TypeOK, vars, mainVars,
      sigVars, scbVars, flagVars, procVars
  <2>2. FlowInv'
    BY <1>8 DEF IInv, Tick, IsNext, TypeOK, FlowInv, LoopLabels, QuietLabels,
      vars, mainVars, sigVars, scbVars, flagVars, procVars
  <2>3. TrackingInv' /\ PendingIsIdle' /\ StreamsFollowChild'
    BY <1>8, Frame DEF Tick, vars, mainVars, sigVars, scbVars, flagVars,
      procVars
  <2> QED
    BY <2>1, <2>2, <2>3 DEF IInv
<1> QED
  BY <1>1, <1>2, <1>3, <1>4, <1>5, <1>6, <1>7, <1>8 DEF Environment, Child

-----------------------------------------------------------------------------
(* The invariant, and the safety properties it implies *)

(* No step of nanoinit, of a child, of a sender of signals or of the clock *)
(* leaves the invariant.                                                   *)
LEMMA NextStep == IInv /\ [Next]_vars => IInv'
<1> SUFFICES ASSUME IInv, [Next]_vars PROVE IInv'
  OBVIOUS
<1>1. CASE Startup
  BY <1>1, StartupStep
<1>2. CASE Supervise
  BY <1>2, SuperviseStep
<1>3. CASE Serve
  BY <1>3, ServeStep
<1>4. CASE Finish
  BY <1>4, FinishStep
<1>5. CASE Environment
  BY <1>5, EnvironmentStep
<1>6. CASE UNCHANGED vars
  <2>1. TypeOK'
    BY <1>6 DEF IInv, TypeOK, vars, mainVars, sigVars, scbVars, flagVars,
                procVars
  <2>2. FlowInv'
    BY <1>6 DEF IInv, FlowInv, IsNext, vars, mainVars, sigVars, scbVars,
                flagVars, procVars
  <2>3. TrackingInv' /\ PendingIsIdle' /\ StreamsFollowChild'
    BY <1>6, Frame DEF vars, mainVars, scbVars, flagVars, procVars
  <2> QED
    BY <2>1, <2>2, <2>3 DEF IInv
<1> QED
  BY <1>1, <1>2, <1>3, <1>4, <1>5, <1>6 DEF Next, Main

(* IInv holds in every reachable state of supervisor_start(). *)
THEOREM Invariance == Spec => []IInv
BY InitIInv, NextStep, PTL DEF Spec

(* The variables of supervisor_start() keep their types: kill() gets a     *)
(* real signal, restart_at is never further away than the restart delay,   *)
(* and the control blocks are none or those of the configuration.          *)
THEOREM TypeCorrect == Spec => []TypeOK
<1>1. IInv => TypeOK
  BY DEF IInv
<1> QED
  BY <1>1, Invariance, PTL

(* A control block marked running names its own unreaped child, and every  *)
(* unreaped child of an application is named by its control block.         *)
THEOREM ChildTrackingHolds == Spec => []ChildTracking
<1>1. IInv => ChildTracking
  BY DEF IInv, TrackingInv
<1> QED
  BY <1>1, Invariance, PTL

(* A scheduled restart belongs to an idle, wanted application with         *)
(* autorestart, however STOP, START, exits and signals interleave.         *)
THEOREM PendingIsIdleHolds == Spec => []PendingIsIdle
<1>1. IInv => PendingIsIdle
  BY DEF IInv
<1> QED
  BY <1>1, Invariance, PTL

(* No output stream outlives its application, so the wait loop of          *)
(* supervisor_start() is never held up by a stream that nobody closes.     *)
THEOREM StreamsFollowChildHolds == Spec => []StreamsFollowChild
<1>1. IInv => StreamsFollowChild
  BY DEF IInv
<1> QED
  BY <1>1, Invariance, PTL

(* When nanoinit exits or loads a new configuration no process of an       *)
(* application is left.                                                    *)
THEOREM NoAppLeftBehindHolds == Spec => []NoAppLeftBehind
<1>1. IInv => NoAppLeftBehind
  <2> SUFFICES ASSUME IInv, pc \in QuietLabels, NEW p \in Pids
               PROVE  pstate[p] = "none" \/ owner[p] = 0
    BY DEF NoAppLeftBehind, QuietLabels
  <2>1. \A i \in Slots : ~running[i]
    BY DEF IInv, FlowInv
  <2> QED
    BY <2>1 DEF IInv, TypeOK, TrackingInv, ChildTracking
<1> QED
  BY <1>1, Invariance, PTL

-----------------------------------------------------------------------------
(* The children between fork() and execv(), and who is told to stop *)

Waits == {"boot_wait", "restart_wait", "control_wait"}

(* How a process can go on. *)
Advances(s, t) ==
    \/ s = t
    \/ s = "forked" /\ t = "preexec"
    \/ s = "preexec" /\ t \in {"app", "failing", "zombie"}
    \/ s \in {"failing", "app"} /\ t = "zombie"

(* A block that is running stays with its process, which goes on and       *)
(* forgets no signal, or was just given one, for which the parent waits.   *)
ChildrenAdvance ==
    \A i \in Slots : running'[i] =>
        \/ /\ running[i] /\ pid'[i] = pid[i]
           /\ Advances(pstate[pid[i]], pstate'[pid[i]])
           /\ told[pid[i]] \subseteq told'[pid[i]]
        \/ /\ ~running[i] /\ pc' \in Waits /\ errorPipe' = "open"
           /\ i \in todo' /\ \A j \in todo' : i <= j

(* Without slow children every process but the one that the parent waits   *)
(* for has executed its program or is about to end.                        *)
ExecInv ==
    "slow_child" \notin Faults =>
        \A i \in Slots : running[i] =>
            \/ pstate[pid[i]] \in {"failing", "app", "zombie"}
            \/ pc \in Waits /\ errorPipe = "open" /\ IsNext(i)

(* A response is written only while a request is served.  The one that     *)
(* says "started" is about a process that is past execv().                 *)
ReplyInv ==
    /\ pc # "streams" => reply = NoReply
    /\ "slow_child" \notin Faults =>
         (pc = "streams" /\ reply.text = "started" =>
            /\ reply.app \in Slots /\ running[reply.app]
            /\ pstate[pid[reply.app]] \in {"app", "zombie"})

(* After the forwarding, up to the end of the wait loop. *)
AfterForward == {"drain", "streams", "close", "wait_reap", "wait_drain"}

Told(i) == told[pid[i]] # {} \/ pstate[pid[i]] = "zombie"

(* Without slow children, failing kill() and late START: the loop that     *)
(* forwards a signal has told all that it has visited, and all are told    *)
(* when it is over.                                                        *)
ToldInv ==
    /\ pc = "control_wait" => forwarding = NoSignal
    /\ pc \in {"close", "wait_reap", "wait_drain"} => forwarding # NoSignal
    /\ "slow_child" \notin Faults /\ "kill" \notin Faults =>
         /\ pc = "forward" => \A i \in scbs \ todo : running[i] => Told(i)
         /\ pc \in AfterForward /\ forwarding # NoSignal =>
              \A i \in scbs : running[i] => Told(i)

(* A step that leaves the control blocks alone, while a process goes on. *)
LEMMA AdvanceFrame ==
    ASSUME UNCHANGED <<pid, running>>,
           \A i \in Slots : running[i] =>
               /\ Advances(pstate[pid[i]], pstate'[pid[i]])
               /\ told[pid[i]] \subseteq told'[pid[i]]
    PROVE  ChildrenAdvance
BY DEF ChildrenAdvance

(* A step that leaves the control blocks and the processes alone. *)
LEMMA AdvanceStay ==
    ASSUME UNCHANGED <<pid, running, pstate, told>>
    PROVE  ChildrenAdvance
BY AdvanceFrame DEF Advances

(* Freeing or emptying the control blocks. *)
LEMMA AdvanceEmpty ==
    ASSUME running' = [i \in Slots |-> FALSE]
    PROVE  ChildrenAdvance
BY DEF ChildrenAdvance

(* fork(): the parent waits for the new process. *)
LEMMA AdvanceFork ==
    ASSUME IInv, NEW i \in scbs, ~running[i], Fork(i), pc' \in Waits,
           i \in todo', \A j \in todo' : i <= j
    PROVE  ChildrenAdvance
<1>1. i \in Slots
  BY ScbFacts DEF IInv
<1>2. PICK p \in Pids : /\ pstate[p] = "none"
                        /\ pid' = [pid EXCEPT ![i] = p]
                        /\ running' = [running EXCEPT ![i] = TRUE]
                        /\ pstate' = [pstate EXCEPT ![p] = "forked"]
                        /\ told' = [told EXCEPT ![p] = {}]
                        /\ errorPipe' = "open"
  BY DEF Fork
<1>3. SUFFICES ASSUME NEW j \in Slots, running'[j], j # i
               PROVE  /\ running[j] /\ pid'[j] = pid[j]
                      /\ pstate'[pid[j]] = pstate[pid[j]] /\ told'[pid[j]] = told[pid[j]]
  BY <1>2 DEF ChildrenAdvance, Advances
<1>4. running[j] /\ pid'[j] = pid[j]
  BY <1>1, <1>2, <1>3 DEF IInv, TypeOK
<1>5. pid[j] \in Pids /\ pid[j] # p
  BY <1>2, <1>4 DEF IInv, TrackingInv, ChildTracking
<1> QED
  BY <1>2, <1>4, <1>5 DEF IInv, TypeOK

(* A spawn that fails leaves the processes alone. *)
LEMMA AdvanceSpawnError ==
    ASSUME IInv, NEW i \in scbs, ~running[i], SpawnError(i), scbs' = scbs
    PROVE  ChildrenAdvance
<1>1. i \in Slots
  BY ScbFacts DEF IInv
<1>2. running' = running
  BY SpawnErrorTracking
<1>3. UNCHANGED <<pstate, told>> /\ \A j \in Slots \ {i} : pid'[j] = pid[j]
  BY <1>1 DEF IInv, SpawnError, CloseStreams, scbVars, procVars, TypeOK
<1> QED
  BY <1>2, <1>3 DEF ChildrenAdvance, Advances

(* kill(): a signal that is not swallowed is told or deadly. *)
LEMMA AdvanceKill ==
    ASSUME IInv, NEW i \in Slots, running[i], NEW s, Kill(pid[i], s),
           UNCHANGED <<pid, running>>
    PROVE  /\ ChildrenAdvance
           /\ pstate[pid[i]] \in {"failing", "app", "zombie"} => Told(i)'
<1>1. /\ \A j \in Slots : running[j] => pid[j] \in Pids
      /\ pstate \in [Pids -> PStates] /\ told \in [Pids -> SUBSET StopSignals]
  BY DEF IInv, TypeOK, TrackingInv, ChildTracking
<1>2. /\ pstate' = [pstate EXCEPT ![pid[i]] =
                      IF @ \in {"preexec", "failing"} THEN "zombie" ELSE @]
      /\ told' = [told EXCEPT ![pid[i]] =
                    IF pstate[pid[i]] = "app" THEN @ \cup {s} ELSE @]
  BY DEF Kill
<1>3. ChildrenAdvance
  BY <1>1, <1>2, AdvanceFrame DEF Advances
<1>4. pstate[pid[i]] \in {"failing", "app", "zombie"} => Told(i)'
  BY <1>1, <1>2 DEF Told
<1> QED
  BY <1>3, <1>4

(* waitpid(): the reaped process is nobody's afterwards. *)
LEMMA AdvanceReap ==
    ASSUME IInv, NEW p \in Pids, WaitPid(p),
           \A j \in Slots : running'[j] => running[j] /\ pid'[j] = pid[j] /\ pid[j] # p
    PROVE  ChildrenAdvance
BY DEF IInv, TypeOK, TrackingInv, ChildTracking, WaitPid, ChildrenAdvance, Advances

(* What startup does to the processes. *)
LEMMA StartupAdvance == ASSUME IInv, Startup PROVE ChildrenAdvance
<1>1. CASE ResetStop \/ ResetReload \/ InitFails \/ BootDone
  BY <1>1, AdvanceStay DEF ResetStop, ResetReload, InitFails, BootDone, scbVars, procVars
<1>2. CASE InitScbs
  BY <1>2, AdvanceEmpty DEF InitScbs
<1>3. ASSUME NEW i \in Slots, BootSkip(i) \/ BootSpawned(i) PROVE ChildrenAdvance
  BY <1>3, AdvanceStay DEF BootSkip, BootSpawned, SpawnReturns, scbVars, procVars
<1>4. ASSUME NEW i \in Slots, BootFork(i) PROVE ChildrenAdvance
  <2>1. i \in scbs /\ ~running[i]
    BY <1>4 DEF IInv, BootFork, FlowInv, IsNext
  <2> QED
    BY <1>4, <2>1, AdvanceFork DEF BootFork, IsNext, Waits
<1>5. ASSUME NEW i \in Slots, BootSpawnError(i) PROVE ChildrenAdvance
  <2>1. i \in scbs /\ ~running[i]
    BY <1>5 DEF IInv, BootSpawnError, FlowInv, IsNext
  <2> QED
    BY <1>5, <2>1, AdvanceSpawnError DEF BootSpawnError, mainVars
<1> QED
  BY <1>1, <1>2, <1>3, <1>4, <1>5 DEF Startup

(* What restarts, reaping and forwarding do to the processes. *)
LEMMA SuperviseAdvance == ASSUME IInv, Supervise PROVE ChildrenAdvance
<1>1. CASE ReadClock \/ RestartDone \/ ReapDone \/ CheckStop \/ ClearStop \/ ForwardDone
  BY <1>1, AdvanceStay DEF ReadClock, RestartDone, ReapDone, CheckStop, ClearStop,
     ForwardDone, scbVars, procVars
<1>2. ASSUME NEW i \in Slots, RestartSkip(i) \/ RestartSpawned(i) \/ ForwardSkip(i)
      PROVE  ChildrenAdvance
  BY <1>2, AdvanceStay DEF RestartSkip, RestartSpawned, ForwardSkip, SpawnReturns,
     scbVars, procVars
<1>3. ASSUME NEW i \in Slots, RestartFork(i) PROVE ChildrenAdvance
  <2>1. i \in scbs /\ ~running[i]
    BY <1>3 DEF IInv, RestartFork, RestartWanted, FlowInv, IsNext
  <2> QED
    BY <1>3, <2>1, AdvanceFork DEF RestartFork, IsNext, Waits
<1>4. ASSUME NEW i \in Slots, RestartSpawnError(i) PROVE ChildrenAdvance
  <2>1. i \in scbs /\ ~running[i]
    BY <1>4 DEF IInv, RestartSpawnError, RestartWanted, FlowInv, IsNext
  <2> QED
    BY <1>4, <2>1, AdvanceSpawnError DEF RestartSpawnError, mainVars
<1>5. ASSUME NEW p \in Pids, ReapOrphan(p) PROVE ChildrenAdvance
  <2>1. \A j \in Slots : running[j] => pid[j] # p
    BY <1>5 DEF IInv, TrackingInv, ReapOrphan
  <2> QED
    BY <1>5, <2>1, AdvanceReap DEF ReapOrphan, scbVars
<1>6. ASSUME NEW p \in Pids, NEW i \in Slots, ReapApp(p, i) PROVE ChildrenAdvance
  <2>1. \A j \in Slots : running[j] /\ pid[j] = p => j = i
    BY <1>6 DEF IInv, TrackingInv, ChildTracking, ReapApp, TypeOK
  <2>2. \A j \in Slots : running'[j] => running[j] /\ pid'[j] = pid[j] /\ pid[j] # p
    BY <1>6, <2>1 DEF IInv, TypeOK, ReapApp
  <2> QED
    BY <1>6, <2>2, AdvanceReap DEF ReapApp
<1>7. ASSUME NEW i \in Slots, ForwardStop(i) PROVE ChildrenAdvance
  BY <1>7, AdvanceKill DEF ForwardStop, scbVars
<1> QED
  BY <1>1, <1>2, <1>3, <1>4, <1>5, <1>6, <1>7 DEF Supervise

(* What the control requests do to the processes. *)
LEMMA ServeAdvance == ASSUME IInv, Serve PROVE ChildrenAdvance
<1>1. CASE NoRequest \/ DrainStreams
  BY <1>1, AdvanceStay DEF NoRequest, DrainStreams, scbVars, procVars
<1>2. ASSUME NEW r \in Requests, Inspect(r) PROVE ChildrenAdvance
  BY <1>2, AdvanceStay DEF Inspect, scbVars, procVars
<1>3. ASSUME NEW r \in Requests, NEW i \in Slots, ControlStart(r, i) PROVE ChildrenAdvance
  <2>1. i \in scbs /\ scbs' = scbs
    BY <1>3 DEF ControlStart, FindScb, mainVars
  <2>2. CASE ControlStartFork(i)
    <3>1. i <= i
      BY MaxAppsAssumption DEF Slots
    <3> QED
      BY <2>1, <2>2, <3>1, AdvanceFork DEF ControlStartFork, Waits
  <2>3. CASE ControlStartError(i)
    BY <2>1, <2>3, AdvanceSpawnError DEF ControlStartError
  <2>4. CASE ControlStartRunning(i)
    BY <2>4, AdvanceStay DEF ControlStartRunning, scbVars, procVars
  <2> QED
    BY <1>3, <2>2, <2>3, <2>4 DEF ControlStart
<1>4. ASSUME NEW r \in Requests, NEW i \in Slots, ControlStop(r, i) PROVE ChildrenAdvance
  <2>1. CASE UNCHANGED procVars
    BY <1>4, <2>1, AdvanceStay DEF ControlStop, scbVars, procVars
  <2>2. CASE running[i] /\ Kill(pid[i], "SIGTERM")
    BY <1>4, <2>2, AdvanceKill DEF ControlStop, scbVars
  <2> QED
    BY <1>4, <2>1, <2>2 DEF ControlStop
<1>5. ASSUME NEW i \in Slots, ControlStarted(i) PROVE ChildrenAdvance
  BY <1>5, AdvanceStay DEF ControlStarted, SpawnReturns, scbVars, procVars
<1> QED
  BY <1>1, <1>2, <1>3, <1>4, <1>5 DEF Serve

(* The children and the applications go on by themselves. *)
LEMMA EnvironmentAdvance ==
    ASSUME IInv, Environment
    PROVE  ChildrenAdvance /\ UNCHANGED <<pc, todo, scbs, running, forwarding, reply>>
<1>1. ASSUME NEW s \in EnvSignals, Deliver(s)
      PROVE  ChildrenAdvance /\ UNCHANGED <<pc, todo, scbs, running, forwarding, reply>>
  BY <1>1, AdvanceStay DEF Deliver, mainVars, scbVars, procVars
<1>2. CASE Tick
  BY <1>2, AdvanceStay DEF Tick, mainVars, scbVars, procVars
<1>3. ASSUME NEW p \in Pids, NEW from, NEW to, ChildStep(p, from, to),
             Advances(from, to) \/ from = "none"
      PROVE  ChildrenAdvance /\ UNCHANGED <<pc, todo, scbs, running, forwarding, reply>>
  <2>1. \A i \in Slots : running[i] => pid[i] \in Pids /\ pstate[pid[i]] # "none"
    BY DEF IInv, TrackingInv, ChildTracking
  <2>2. \A i \in Slots : running[i] => Advances(pstate[pid[i]], pstate'[pid[i]])
    BY <1>3, <2>1 DEF IInv, TypeOK, ChildStep, Advances
  <2> QED
    BY <1>3, <2>2, AdvanceFrame DEF ChildStep, mainVars, scbVars
<1>4. ASSUME NEW p \in Pids, Child(p) \/ AppExit(p) \/ OrphanDies(p)
      PROVE  ChildrenAdvance /\ UNCHANGED <<pc, todo, scbs, running, forwarding, reply>>
  BY <1>3, <1>4 DEF Child, ChildResetSignals, ChildExec, ChildReportError, ChildExit,
     AppExit, OrphanDies, Advances
<1> QED
  BY <1>1, <1>2, <1>4 DEF Environment

(* The wait loop, the cleanup and the reload leave the processes alone. *)
LEMMA FinishAdvance == ASSUME IInv, Finish PROVE ChildrenAdvance
<1>1. CASE CloseSocket \/ WaitDrain \/ CheckReload \/ ConfigInit \/ Exited
  BY <1>1, AdvanceStay DEF CloseSocket, WaitDrain, CheckReload, ConfigInit, Exited,
     vars, scbVars, procVars
<1>2. CASE Cleanup
  BY <1>2, AdvanceEmpty DEF Cleanup
<1> QED
  BY <1>1, <1>2 DEF Finish

(* No step sends a child back or takes a signal away from it. *)
LEMMA NextAdvance == IInv /\ [Next]_vars => ChildrenAdvance
<1>1. CASE UNCHANGED vars
  BY <1>1, AdvanceStay DEF vars, scbVars, procVars
<1> QED
  BY <1>1, StartupAdvance, SuperviseAdvance, ServeAdvance, FinishAdvance,
     EnvironmentAdvance DEF Next, Main

(* A control block that is running keeps its process until it is reaped:   *)
(* no request, restart or signal gives it another pid, sends the process   *)
(* back, or makes it forget a signal; and a block becomes running only by  *)
(* the fork() after which supervisor_spawn() waits for the child.          *)
THEOREM ChildrenOnlyAdvance == Spec => [][ChildrenAdvance]_vars
BY Invariance, NextAdvance, PTL DEF Spec

(* A parent that waits for a child goes on only when the spawn returns. *)
LEMMA WaitSteps ==
    ASSUME pc \in Waits, Next
    PROVE  Environment \/ \E i \in Slots : IsNext(i) /\ SpawnReturns(i)
<1>1. CASE Startup
  BY <1>1 DEF Waits, Startup, ResetStop, ResetReload, InitScbs, InitFails, BootDone,
     BootSkip, BootFork, BootSpawnError, BootSpawned
<1>2. CASE Supervise
  BY <1>2 DEF Waits, Supervise, ReadClock, RestartDone, ReapDone, RestartSkip,
     RestartFork, RestartSpawnError, RestartSpawned, ReapOrphan, ReapApp, CheckStop,
     ClearStop, ForwardDone, ForwardSkip, ForwardStop
<1>3. CASE Serve
  BY <1>3 DEF Waits, Serve, NoRequest, DrainStreams, Inspect, ControlStart,
     ControlStop, ControlStarted
<1>4. CASE Finish
  BY <1>4 DEF Waits, Finish, CloseSocket, WaitDrain, Cleanup, CheckReload,
     ConfigInit, Exited
<1> QED
  BY <1>1, <1>2, <1>3, <1>4 DEF Next, Main

(* Only the child that the parent waits for can make it see an error. *)
LEMMA EnvironmentError ==
    ASSUME TypeOK, Environment
    PROVE  \/ errorPipe' = errorPipe
           \/ \E i \in Slots : IsNext(i) /\ pid[i] \in Pids /\ pstate'[pid[i]] = "failing"
<1>1. ASSUME NEW p \in Pids, ChildReportError(p), errorPipe' # errorPipe
      PROVE  \E i \in Slots : IsNext(i) /\ pid[i] \in Pids /\ pstate'[pid[i]] = "failing"
  <2>1. PICK i \in Slots : IsNext(i) /\ pid[i] = p
    BY <1>1 DEF ChildReportError
  <2>2. pstate'[p] = "failing"
    BY <1>1 DEF ChildReportError, ChildStep, TypeOK
  <2> QED
    BY <2>1, <2>2
<1>2. CASE ~\E p \in Pids : ChildReportError(p)
  BY <1>2 DEF Environment, Deliver, Child, ChildResetSignals, ChildExec, ChildExit,
     AppExit, OrphanDies, Tick
<1> QED
  BY <1>1, <1>2

(* Without slow children no other child is short of its execv(). *)
LEMMA ExecStep == IInv /\ ExecInv /\ [Next]_vars => ExecInv'
<1> SUFFICES ASSUME IInv, ExecInv, [Next]_vars, "slow_child" \notin Faults,
                    NEW i \in Slots, running'[i]
             PROVE  \/ pstate'[pid'[i]] \in {"failing", "app", "zombie"}
                    \/ pc' \in Waits /\ errorPipe' = "open" /\ IsNext(i)'
  BY DEF ExecInv
<1>1. ChildrenAdvance
  BY NextAdvance
<1>2. CASE ~running[i]
  BY <1>1, <1>2 DEF ChildrenAdvance, IsNext
<1>3. CASE running[i]
  <2>1. pid'[i] = pid[i] /\ Advances(pstate[pid[i]], pstate'[pid[i]])
    BY <1>1, <1>3 DEF ChildrenAdvance
  <2>2. CASE pstate[pid[i]] \in {"failing", "app", "zombie"}
    BY <2>1, <2>2 DEF Advances
  <2>3. CASE pc \in Waits /\ errorPipe = "open" /\ IsNext(i) /\
             pstate[pid[i]] \notin {"failing", "app", "zombie"}
    <3>1. CASE UNCHANGED vars
      BY <2>3, <3>1 DEF vars, IsNext
    <3>2. CASE Environment
      <4>1. UNCHANGED <<pc, todo>>
        BY <3>2, EnvironmentAdvance
      <4>2. CASE errorPipe' = errorPipe
        BY <2>3, <4>1, <4>2 DEF IsNext
      <4>3. CASE errorPipe' # errorPipe
        <5>1. PICK j \in Slots : IsNext(j) /\ pstate'[pid[j]] = "failing"
          BY <3>2, <4>3, EnvironmentError DEF IInv
        <5>2. j = i
          BY <2>3, <5>1, NextIsUnique DEF IInv
        <5> QED
          BY <2>1, <5>1, <5>2
      <4> QED
        BY <4>2, <4>3
    <3>3. ASSUME NEW j \in Slots, IsNext(j), SpawnReturns(j) PROVE FALSE
      <4>1. j = i
        BY <2>3, <3>3, NextIsUnique DEF IInv
      <4> QED
        BY <2>3, <3>3, <4>1 DEF SpawnReturns, SpawnStarted, SpawnChildError
    <3> QED
      BY <2>3, <3>1, <3>2, <3>3, WaitSteps
  <2> QED
    BY <1>3, <2>2, <2>3 DEF ExecInv
<1>4. running[i] \in BOOLEAN
  BY DEF IInv, TypeOK
<1> QED
  BY <1>2, <1>3, <1>4

(* The parts of a response. *)
LEMMA ReplyFields ==
    ASSUME NEW t, NEW i PROVE Reply(t, i).text = t /\ Reply(t, i).app = i
BY DEF Reply

(* A response with another text does not say "started". *)
LEMMA OtherReply ==
    ASSUME NEW t, NEW i, t # "started", reply' = Reply(t, i)
    PROVE  reply'.text # "started"
<1>1. reply'.text = t
  BY ReplyFields, Zenon
<1> QED
  BY <1>1

(* Which steps write a response, and which take it back. *)
LEMMA ReplySteps ==
    ASSUME Next
    PROVE  \/ /\ reply' = reply
              /\ pc' = "streams" => pc \in {"streams", "drain"}
              /\ pc = "streams" => pc' = "streams" /\ running' = running
           \/ pc' # "streams" /\ reply' = NoReply
           \/ pc' = "streams" /\ reply'.text # "started"
           \/ \E i \in Slots : ControlStarted(i)
<1>1. CASE Startup
  BY <1>1 DEF Startup, ResetStop, ResetReload, InitScbs, InitFails, BootDone,
     BootSkip, BootFork, BootSpawnError, BootSpawned
<1>2. CASE Supervise
  BY <1>2 DEF Supervise, ReadClock, RestartDone, ReapDone, RestartSkip,
     RestartFork, RestartSpawnError, RestartSpawned, ReapOrphan, ReapApp, CheckStop,
     ClearStop, ForwardDone, ForwardSkip, ForwardStop
<1>3. CASE NoRequest \/ DrainStreams
  BY <1>3 DEF NoRequest, DrainStreams
<1>4. ASSUME NEW r \in Requests, Inspect(r) PROVE pc' = "streams" /\ reply'.text # "started"
  <2>1. pc' = "streams" /\ \E t, i : t # "started" /\ reply' = Reply(t, i)
    BY <1>4 DEF Inspect, ScbStatus
  <2> QED
    BY <2>1, OtherReply, Zenon
<1>5. ASSUME NEW r \in Requests, NEW i \in Slots, ControlStart(r, i)
      PROVE  \/ reply' = reply /\ pc = "drain" /\ pc' # "streams"
             \/ pc' = "streams" /\ reply'.text # "started"
  <2>1. \/ reply' = reply /\ pc = "drain" /\ pc' # "streams"
        \/ pc' = "streams" /\ \E t : t # "started" /\ reply' = Reply(t, i)
    BY <1>5 DEF ControlStart, ControlStartFork, ControlStartError, ControlStartRunning
  <2> QED
    BY <2>1, OtherReply, Zenon
<1>6. ASSUME NEW r \in Requests, NEW i \in Slots, ControlStop(r, i)
      PROVE  pc' = "streams" /\ reply'.text # "started"
  <2>1. pc' = "streams" /\ \E t : t # "started" /\ reply' = Reply(t, i)
    BY <1>6 DEF ControlStop
  <2> QED
    BY <2>1, OtherReply, Zenon
<1>7. CASE Finish
  BY <1>7 DEF Finish, CloseSocket, WaitDrain, Cleanup, CheckReload, ConfigInit,
     Exited, vars
<1>8. CASE Environment
  BY <1>8 DEF Environment, Deliver, Child, ChildResetSignals, ChildExec,
     ChildReportError, ChildExit, AppExit, OrphanDies, ChildStep, Tick, scbVars
<1> QED
  BY <1>1, <1>2, <1>3, <1>4, <1>5, <1>6, <1>7, <1>8 DEF Next, Main, Serve

(* A response that says "started" stays true until it is sent. *)
LEMMA ReplyStep == IInv /\ ReplyInv /\ [Next]_vars => ReplyInv'
<1> SUFFICES ASSUME IInv, ReplyInv, [Next]_vars PROVE ReplyInv'
  OBVIOUS
<1>1. CASE UNCHANGED vars
  BY <1>1 DEF ReplyInv, vars, scbVars, procVars
<1>2. CASE pc' # "streams" /\ reply' = NoReply
  BY <1>2 DEF ReplyInv
<1>3. CASE pc' = "streams" /\ reply'.text # "started"
  BY <1>3 DEF ReplyInv
<1>4. ASSUME NEW i \in Slots, ControlStarted(i) PROVE ReplyInv'
  <2>1. running[i]
    BY <1>4 DEF ControlStarted, IsNext, IInv, FlowInv
  <2>2. UNCHANGED <<pid, running, pstate>> /\ pc' = "streams"
    BY <1>4 DEF ControlStarted, SpawnReturns, scbVars, procVars
  <2>3. reply' = Reply(IF SpawnChildError(i) THEN "failed to start" ELSE "started", i)
    BY <1>4 DEF ControlStarted
  <2>4. ASSUME "slow_child" \notin Faults, reply'.text = "started"
        PROVE  reply'.app = i /\ pstate[pid[i]] \in {"app", "zombie"}
    <3>1. reply'.app = i
      BY <2>3, ReplyFields, Zenon
    <3>2. ~SpawnChildError(i)
      BY <2>3, <2>4, OtherReply
    <3> QED
      BY <1>4, <2>4, <3>1, <3>2 DEF ControlStarted, SpawnReturns, SpawnStarted
  <2> QED
    BY <2>1, <2>2, <2>4 DEF ReplyInv
<1>5. CASE /\ reply' = reply
           /\ pc' = "streams" => pc \in {"streams", "drain"}
           /\ pc = "streams" => pc' = "streams" /\ running' = running
  <2>1. pc' # "streams" => reply' = NoReply
    BY <1>5 DEF ReplyInv
  <2>2. ASSUME "slow_child" \notin Faults, pc' = "streams", reply'.text = "started"
        PROVE  /\ reply'.app \in Slots /\ running'[reply'.app]
               /\ pstate'[pid'[reply'.app]] \in {"app", "zombie"}
    <3>1. pc = "streams"
      BY <1>5, <2>2 DEF ReplyInv, NoReply
    <3>2. /\ reply.app \in Slots /\ running[reply.app]
          /\ pstate[pid[reply.app]] \in {"app", "zombie"}
      BY <1>5, <2>2, <3>1 DEF ReplyInv
    <3>3. pid'[reply.app] = pid[reply.app] /\
          Advances(pstate[pid[reply.app]], pstate'[pid[reply.app]])
      BY <1>5, <3>1, <3>2, NextAdvance DEF ChildrenAdvance
    <3> QED
      BY <1>5, <3>1, <3>2, <3>3 DEF Advances
  <2> QED
    BY <2>1, <2>2 DEF ReplyInv
<1> QED
  BY <1>1, <1>2, <1>3, <1>4, <1>5, ReplySteps

(* When a START request is answered with "started", the program was really *)
(* executed: supervisor_read_child_error() returned at the end of file     *)
(* that execv() makes, provided that 100 ms are enough for the child.      *)
THEOREM StartedMeansExecHolds ==
    Spec => []("slow_child" \notin Faults => StartedMeansExec)
<1>1. Init => ExecInv /\ ReplyInv
  BY DEF Init, ExecInv, ReplyInv
<1>2. ReplyInv => ("slow_child" \notin Faults => StartedMeansExec)
  BY DEF ReplyInv, StartedMeansExec
<1> QED
  BY <1>1, <1>2, Invariance, ExecStep, ReplyStep, PTL DEF Spec

(* How supervisor_start() gets to the forwarding of a signal and past it. *)
LEMMA ForwardingSteps ==
    ASSUME Next
    PROVE  /\ \/ forwarding' = forwarding
              \/ pc' \in {"loop", "clear"}
              \/ pc' = "drain" /\ forwarding' = NoSignal
           /\ pc' \in {"close", "wait_reap", "wait_drain"} =>
                \/ pc \in {"close", "wait_reap", "wait_drain"} /\ forwarding' = forwarding
                \/ pc = "streams" /\ forwarding # NoSignal
           /\ pc' = "forward" =>
                \/ todo' = scbs /\ scbs' = scbs
                \/ pc = "forward" /\ Environment
                \/ \E i \in Slots : ForwardSkip(i) \/ ForwardStop(i)
           /\ pc' \in AfterForward =>
                \/ pc \in AfterForward /\ scbs' = scbs
                \/ forwarding' = NoSignal
                \/ pc = "forward" /\ todo = {} /\ scbs' = scbs
                \/ pc = "control_wait" /\ forwarding' = forwarding
<1>1. CASE Startup
  BY <1>1 DEF Startup, ResetStop, ResetReload, InitScbs, InitFails, BootDone,
     BootSkip, BootFork, BootSpawnError, BootSpawned, mainVars, AfterForward
<1>2. CASE \/ ReadClock \/ RestartDone \/ ReapDone \/ CheckStop \/ ClearStop \/ ForwardDone
           \/ \E i \in Slots : \/ RestartSkip(i) \/ RestartFork(i)
                               \/ RestartSpawnError(i) \/ RestartSpawned(i)
           \/ \E p \in Pids : ReapOrphan(p) \/ \E i \in Slots : ReapApp(p, i)
  BY <1>2 DEF ReadClock, RestartDone, ReapDone, RestartSkip,
     RestartFork, RestartSpawnError, RestartSpawned, ReapOrphan, ReapApp, CheckStop,
     ClearStop, ForwardDone, mainVars, AfterForward
<1>3. ASSUME NEW i \in Slots, ForwardSkip(i) \/ ForwardStop(i)
      PROVE  pc' = "forward" /\ forwarding' = forwarding
  BY <1>3 DEF ForwardSkip, ForwardStop, mainVars
<1>4. CASE Serve
  BY <1>4 DEF Serve, NoRequest, DrainStreams, Inspect, ControlStart, ControlStartFork,
     ControlStartError, ControlStartRunning, ControlStop, ControlStarted, mainVars,
     AfterForward
<1>5. CASE Finish
  BY <1>5 DEF Finish, CloseSocket, WaitDrain, Cleanup, CheckReload, ConfigInit,
     Exited, vars, mainVars, AfterForward
<1>6. CASE Environment
  <2>1. UNCHANGED <<pc, scbs, forwarding>>
    BY <1>6 DEF Environment, Deliver, Child, ChildResetSignals, ChildExec,
       ChildReportError, ChildExit, AppExit, OrphanDies, ChildStep, Tick, mainVars
  <2> QED
    BY <1>6, <2>1
<1>7. Supervise => <1>2!1 \/ \E i \in Slots : ForwardSkip(i) \/ ForwardStop(i)
  BY DEF Supervise
<1> QED
  BY <1>1, <1>2, <1>3, <1>4, <1>5, <1>6, <1>7 DEF Next, Main, AfterForward

(* A process that was told, or has ended, stays so while it is running. *)
LEMMA ToldStays ==
    ASSUME IInv, [Next]_vars, pc' \notin Waits, NEW i \in Slots, running'[i]
    PROVE  running[i] /\ (Told(i) => Told(i)')
BY NextAdvance DEF ChildrenAdvance, Advances, Told

(* The forwarding reaches everybody, as long as no START follows it. *)
LEMMA ToldStep ==
    IInv /\ ExecInv /\ ToldInv /\ [Next /\ NoLateStart]_vars => ToldInv'
<1> SUFFICES ASSUME IInv, ExecInv, ToldInv, [Next /\ NoLateStart]_vars PROVE ToldInv'
  OBVIOUS
<1>1. CASE UNCHANGED vars
  BY <1>1 DEF ToldInv, Told, vars, mainVars, scbVars, procVars
<1>2. CASE Next /\ NoLateStart
  <2>1. pc' = "control_wait" => forwarding' = NoSignal
    BY <1>2, ForwardingSteps DEF NoLateStart
  <2>2. pc' \in {"close", "wait_reap", "wait_drain"} => forwarding' # NoSignal
    BY <1>2, ForwardingSteps DEF ToldInv
  <2>3. \A i \in scbs : i \in Slots
    BY ScbFacts DEF IInv
  <2>4. ASSUME "slow_child" \notin Faults, "kill" \notin Faults, pc' = "forward",
               NEW i \in scbs' \ todo', running'[i]
        PROVE  Told(i)'
    <3>1. ASSUME pc = "forward", i \in scbs \ todo PROVE Told(i)'
      <4>1. pc' \notin Waits
        BY <2>4 DEF Waits
      <4> QED
        BY <1>2, <2>3, <2>4, <3>1, <4>1, ToldStays DEF ToldInv
    <3>2. CASE pc = "forward" /\ Environment
      <4>1. UNCHANGED <<scbs, todo>>
        BY <3>2, EnvironmentAdvance
      <4> QED
        BY <2>4, <3>1, <3>2, <4>1
    <3>3. ASSUME NEW j \in Slots, ForwardSkip(j) PROVE Told(i)'
      <4>1. pc = "forward" /\ UNCHANGED <<scbs, running>> /\ todo' = todo \ {j} /\ ~running[j]
        BY <2>4, <3>3 DEF ForwardSkip, mainVars, scbVars
      <4> QED
        BY <2>4, <3>1, <4>1
    <3>4. ASSUME NEW j \in Slots, ForwardStop(j) PROVE Told(i)'
      <4>1. /\ pc = "forward" /\ running[j] /\ Kill(pid[j], forwarding)
            /\ UNCHANGED <<scbs, pid, running>> /\ todo' = todo \ {j}
        BY <3>4 DEF ForwardStop, mainVars, scbVars
      <4>2. CASE i = j
        <5>1. pstate[pid[j]] \in {"failing", "app", "zombie"}
          BY <2>4, <4>1 DEF ExecInv, Waits
        <5> QED
          BY <3>4, <4>1, <4>2, <5>1, AdvanceKill
      <4> QED
        BY <2>4, <3>1, <4>1, <4>2
    <3> QED
      BY <1>2, <2>4, <3>2, <3>3, <3>4, ForwardingSteps
  <2>5. ASSUME "slow_child" \notin Faults, "kill" \notin Faults, pc' \in AfterForward,
               forwarding' # NoSignal, NEW i \in scbs', running'[i]
        PROVE  Told(i)'
    <3>1. pc' \notin Waits /\ forwarding' = forwarding
      BY <1>2, <2>5, ForwardingSteps DEF Waits, AfterForward
    <3>2. scbs' = scbs /\ (pc \in AfterForward \/ (pc = "forward" /\ todo = {}))
      <4>1. pc # "control_wait"
        BY <2>5, <3>1 DEF ToldInv
      <4> QED
        BY <1>2, <2>5, <4>1, ForwardingSteps
    <3>3. running[i] /\ (Told(i) => Told(i)')
      BY <1>2, <2>3, <2>5, <3>1, <3>2, ToldStays
    <3> QED
      BY <2>5, <3>1, <3>2, <3>3 DEF ToldInv
  <2> QED
    BY <2>1, <2>2, <2>4, <2>5 DEF ToldInv
<1> QED
  BY <1>1, <1>2

(* README.md, "forwards that signal to all currently running supervised    *)
(* applications and waits for them to exit": whoever nanoinit waits for    *)
(* was told to stop or is ending, provided that kill() succeeds, that      *)
(* 100 ms are enough for a child to get to execv(), and that no START is   *)
(* served between the forwarding and the closing of the control socket.    *)
THEOREM StopReachesEveryAppHolds ==
    Spec /\ [][NoLateStart]_vars =>
        []("slow_child" \notin Faults /\ "kill" \notin Faults => StopReachesEveryApp)
<1>1. Init => ExecInv /\ ToldInv
  BY DEF Init, ExecInv, ToldInv, AfterForward
<1>2. ToldInv => ("slow_child" \notin Faults /\ "kill" \notin Faults => StopReachesEveryApp)
  BY DEF ToldInv, StopReachesEveryApp, AfterForward, Told
<1> QED
  BY <1>1, <1>2, Invariance, ExecStep, ToldStep, PTL DEF Spec

-----------------------------------------------------------------------------
(* Supervisor implements AppLifecycle *)

(* A step that does not touch what the mapping reads is a stutter. *)
LEMMA LifecycleStutter ==
    ASSUME UNCHANGED <<config, running, desired, restartPending>>
    PROVE  UNCHANGED Lifecycle!vars
BY DEF Lifecycle!vars, AppStatus, AppAutorestart

(* A step that touches one control block moves one application. *)
LEMMA LifecycleMove ==
    ASSUME NEW i \in Slots, NEW from, NEW to, config' = config,
           \A j \in Slots \ {i} : /\ running'[j] = running[j]
                                  /\ desired'[j] = desired[j]
                                  /\ restartPending'[j] = restartPending[j],
           AppStatus[i] \in from, AppStatus'[i] = to
    PROVE  Lifecycle!Move(i, from, to)
<1>1. AppAutorestart' = AppAutorestart
  BY DEF AppAutorestart
<1>2. \A j \in Slots \ {i} : AppStatus'[j] = AppStatus[j]
  BY DEF AppStatus
<1>3. AppStatus' = [AppStatus EXCEPT ![i] = to]
  BY <1>2 DEF AppStatus
<1> QED
  BY <1>1, <1>3 DEF Lifecycle!Move

(* A step that touches one control block and not its status is a stutter. *)
LEMMA LifecycleStay ==
    ASSUME NEW i \in Slots, config' = config,
           \A j \in Slots \ {i} : /\ running'[j] = running[j]
                                  /\ desired'[j] = desired[j]
                                  /\ restartPending'[j] = restartPending[j],
           AppStatus'[i] = AppStatus[i]
    PROVE  UNCHANGED Lifecycle!vars
<1>1. AppAutorestart' = AppAutorestart
  BY DEF AppAutorestart
<1>2. \A j \in Slots : AppStatus'[j] = AppStatus[j]
  BY DEF AppStatus
<1>3. AppStatus' = AppStatus
  BY <1>2 DEF AppStatus
<1> QED
  BY <1>1, <1>3 DEF Lifecycle!vars

(* Replacing the control blocks while nothing is running. *)
LEMMA LifecycleReplace ==
    ASSUME \A i \in Slots : ~running[i] /\ ~running'[i] /\ ~restartPending'[i],
           config' \in Configs
    PROVE  Lifecycle!Replace
<1>1. \A i \in Slots : AppStatus[i] \in {"stopped", "backoff"}
  BY DEF AppStatus
<1>2. AppStatus' = [i \in Slots |-> "stopped"]
  BY DEF AppStatus
<1>3. AppAutorestart' \in [Slots -> BOOLEAN]
  BY ConfigFacts DEF AppAutorestart
<1> QED
  BY <1>1, <1>2, <1>3 DEF Lifecycle!Replace

(* A fork for a wanted application without a process starts it. *)
LEMMA LifecycleFork ==
    ASSUME IInv, NEW i \in scbs, ~running[i], Fork(i), config' = config,
           desired'[i],
           \A j \in Slots \ {i} : /\ desired'[j] = desired[j]
                                  /\ restartPending'[j] = restartPending[j]
    PROVE  Lifecycle!Start(i)
<1>1. i \in Slots
  BY ScbFacts DEF IInv
<1>2. running'[i] /\ \A j \in Slots \ {i} : running'[j] = running[j]
  BY <1>1 DEF IInv, TypeOK, Fork
<1>3. AppStatus[i] \in {"stopped", "backoff", "stopping"}
  BY <1>1 DEF AppStatus
<1>4. AppStatus'[i] = "running"
  BY <1>1, <1>2 DEF AppStatus
<1> QED
  BY <1>1, <1>2, <1>3, <1>4, LifecycleMove DEF Lifecycle!Start

(* Startup makes lifecycle steps. *)
LEMMA StartupLifecycle ==
    ASSUME IInv, Startup PROVE Lifecycle!Next \/ UNCHANGED Lifecycle!vars
<1>1. CASE ResetStop \/ ResetReload \/ InitFails \/ BootDone
  BY <1>1, LifecycleStutter
  DEF ResetStop, ResetReload, InitFails, BootDone, mainVars, scbVars, flagVars
<1>2. CASE InitScbs
  <2>1. \A i \in Slots : ~running[i] /\ ~running'[i] /\ ~restartPending'[i]
    BY <1>2 DEF IInv, FlowInv, QuietLabels, InitScbs
  <2>2. config' \in Configs
    BY <1>2 DEF IInv, TypeOK, InitScbs
  <2> QED
    BY <2>1, <2>2, LifecycleReplace DEF Lifecycle!Next
<1>3. ASSUME NEW i \in Slots, BootSkip(i) \/ BootSpawned(i)
      PROVE  UNCHANGED Lifecycle!vars
  BY <1>3, LifecycleStutter
  DEF BootSkip, BootSpawned, SpawnReturns, mainVars, scbVars, flagVars
<1>4. ASSUME NEW i \in Slots, BootFork(i) PROVE Lifecycle!Next
  <2>1. i \in scbs /\ ~running[i] /\ Fork(i) /\ config' = config /\ desired'[i]
    BY <1>4 DEF IInv, FlowInv, BootFork, IsNext, mainVars, flagVars
  <2>2. desired' = desired /\ restartPending' = restartPending
    BY <1>4 DEF BootFork, flagVars
  <2>3. Lifecycle!Start(i)
    BY <2>1, <2>2, LifecycleFork
  <2> QED
    BY <2>3 DEF Lifecycle!Next
<1>5. ASSUME NEW i \in Slots, BootSpawnError(i)
      PROVE  Lifecycle!Next \/ UNCHANGED Lifecycle!vars
  <2>1. /\ i \in scbs /\ ~running[i] /\ ~restartPending[i] /\ SpawnError(i)
        /\ config' = config /\ scbs' = scbs /\ desired' = desired
    BY <1>5 DEF IInv, FlowInv, BootSpawnError, IsNext, mainVars
  <2>2. running' = running
    BY <2>1, SpawnErrorTracking
  <2>3. CASE ~config[i].autorestart
    BY <1>5, <2>1, <2>2, <2>3, LifecycleStutter DEF BootSpawnError
  <2>4. CASE config[i].autorestart
    <3>1. restartPending' = [restartPending EXCEPT ![i] = TRUE]
      BY <1>5, <2>4 DEF BootSpawnError, ScheduleRestart
    <3>2. restartPending'[i]
      BY <3>1 DEF IInv, TypeOK
    <3>3. AppStatus[i] = "stopped" /\ AppStatus'[i] = "backoff"
      BY <2>1, <2>2, <3>2 DEF AppStatus
    <3>4. AppAutorestart[i]
      BY <2>1, <2>4, ScbFacts DEF IInv, AppAutorestart
    <3>5. \A j \in Slots \ {i} : restartPending'[j] = restartPending[j]
      BY <3>1 DEF IInv, TypeOK
    <3>6. Lifecycle!Move(i, {"running", "stopped"}, "backoff")
      BY <2>1, <2>2, <3>3, <3>5, LifecycleMove
    <3> QED
      BY <3>4, <3>6 DEF Lifecycle!Next, Lifecycle!Backoff
  <2> QED
    BY <2>3, <2>4
<1> QED
  BY <1>1, <1>2, <1>3, <1>4, <1>5 DEF Startup

(* Restarts, reaping and forwarding make lifecycle steps. *)
LEMMA SuperviseLifecycle ==
    ASSUME IInv, Supervise PROVE Lifecycle!Next \/ UNCHANGED Lifecycle!vars
<1>1. CASE \/ ReadClock \/ RestartDone \/ ReapDone
           \/ CheckStop \/ ClearStop \/ ForwardDone
  BY <1>1, LifecycleStutter
  DEF ReadClock, RestartDone, ReapDone, CheckStop, ClearStop, ForwardDone,
      mainVars, scbVars, flagVars
<1>2. ASSUME NEW i \in Slots,
             \/ RestartSkip(i) \/ RestartSpawned(i)
             \/ ForwardSkip(i) \/ ForwardStop(i)
      PROVE  UNCHANGED Lifecycle!vars
  BY <1>2, LifecycleStutter
  DEF RestartSkip, RestartSpawned, SpawnReturns, ForwardSkip, ForwardStop,
      mainVars, scbVars, flagVars
<1>3. ASSUME NEW i \in Slots, RestartFork(i) PROVE Lifecycle!Next
  <2>1. /\ i \in scbs /\ ~running[i] /\ Fork(i) /\ config' = config
        /\ desired'[i] /\ desired' = desired
    BY <1>3 DEF IInv, FlowInv, RestartFork, RestartWanted, IsNext, mainVars
  <2>2. \A j \in Slots \ {i} : restartPending'[j] = restartPending[j]
    BY <1>3 DEF IInv, TypeOK, RestartFork
  <2>3. Lifecycle!Start(i)
    BY <2>1, <2>2, LifecycleFork
  <2> QED
    BY <2>3 DEF Lifecycle!Next
<1>4. ASSUME NEW i \in Slots, RestartSpawnError(i)
      PROVE  UNCHANGED Lifecycle!vars
  <2>1. /\ i \in scbs /\ ~running[i] /\ restartPending[i] /\ SpawnError(i)
        /\ config' = config /\ scbs' = scbs /\ desired' = desired
        /\ restartPending' = [restartPending EXCEPT ![i] = TRUE]
    BY <1>4 DEF IInv, FlowInv, RestartSpawnError, RestartWanted,
                ScheduleRestart, IsNext, mainVars
  <2>2. running' = running
    BY <2>1, SpawnErrorTracking
  <2>3. /\ restartPending'[i]
        /\ \A j \in Slots \ {i} : restartPending'[j] = restartPending[j]
    BY <2>1 DEF IInv, TypeOK
  <2>4. AppStatus'[i] = AppStatus[i]
    BY <2>1, <2>2, <2>3 DEF AppStatus
  <2> QED
    BY <2>1, <2>2, <2>3, <2>4, LifecycleStay
<1>5. ASSUME NEW p \in Pids, ReapOrphan(p) PROVE UNCHANGED Lifecycle!vars
  BY <1>5, LifecycleStutter DEF ReapOrphan, mainVars, scbVars, flagVars
<1>6. ASSUME NEW p \in Pids, NEW i \in Slots, ReapApp(p, i)
      PROVE  Lifecycle!Next
  <2>1. /\ i \in scbs /\ config' = config /\ desired' = desired
        /\ running' = [running EXCEPT ![i] = FALSE]
    BY <1>6 DEF ReapApp, mainVars
  <2>2. running[i] /\ ~restartPending[i]
    BY <1>6 DEF IInv, TrackingInv, PendingIsIdle, ReapApp
  <2>3. ~running'[i] /\ \A j \in Slots \ {i} : running'[j] = running[j]
    BY <2>1 DEF IInv, TypeOK
  <2>4. CASE RestartAfterExit(i)
    <3>1. restartPending' = [restartPending EXCEPT ![i] = TRUE]
      BY <1>6, <2>4 DEF ReapApp, ScheduleRestart
    <3>2. /\ restartPending'[i]
          /\ \A j \in Slots \ {i} : restartPending'[j] = restartPending[j]
      BY <3>1 DEF IInv, TypeOK
    <3>3. AppStatus[i] = "running" /\ AppStatus'[i] = "backoff"
      BY <2>2, <2>3, <2>4, <3>2 DEF AppStatus, RestartAfterExit
    <3>4. AppAutorestart[i]
      BY <2>1, <2>4, ScbFacts DEF IInv, AppAutorestart, RestartAfterExit
    <3>5. Lifecycle!Move(i, {"running", "stopped"}, "backoff")
      BY <2>1, <2>3, <3>2, <3>3, LifecycleMove
    <3> QED
      BY <3>4, <3>5 DEF Lifecycle!Next, Lifecycle!Backoff
  <2>5. CASE ~RestartAfterExit(i)
    <3>1. restartPending' = restartPending
      BY <1>6, <2>5 DEF ReapApp
    <3>2. AppStatus[i] \in {"running", "stopping"} /\ AppStatus'[i] = "stopped"
      BY <2>2, <2>3, <3>1 DEF AppStatus
    <3>3. Lifecycle!Move(i, {"running", "stopping"}, "stopped")
      BY <2>1, <2>3, <3>1, <3>2, LifecycleMove
    <3> QED
      BY <3>3 DEF Lifecycle!Next, Lifecycle!Ended
  <2> QED
    BY <2>4, <2>5
<1> QED
  BY <1>1, <1>2, <1>3, <1>4, <1>5, <1>6 DEF Supervise

(* Control requests make lifecycle steps. *)
LEMMA ServeLifecycle ==
    ASSUME IInv, Serve PROVE Lifecycle!Next \/ UNCHANGED Lifecycle!vars
<1>1. CASE NoRequest \/ DrainStreams
  BY <1>1, LifecycleStutter
  DEF NoRequest, DrainStreams, mainVars, scbVars, flagVars
<1>2. ASSUME NEW r \in Requests, Inspect(r) PROVE UNCHANGED Lifecycle!vars
  BY <1>2, LifecycleStutter DEF Inspect, mainVars, scbVars, flagVars
<1>3. ASSUME NEW r \in Requests, NEW i \in Slots, ControlStart(r, i)
      PROVE  Lifecycle!Next \/ UNCHANGED Lifecycle!vars
  <2>1. /\ i \in scbs /\ config' = config /\ scbs' = scbs
        /\ restartPending' = [restartPending EXCEPT ![i] = FALSE]
    BY <1>3 DEF ControlStart, FindScb, ForgetRestart, mainVars
  <2>2. /\ ~restartPending'[i]
        /\ \A j \in Slots \ {i} : restartPending'[j] = restartPending[j]
    BY <2>1 DEF IInv, TypeOK
  <2>3. CASE ControlStartFork(i)
    <3>1. desired'[i] /\ \A j \in Slots \ {i} : desired'[j] = desired[j]
      BY <2>3 DEF IInv, TypeOK, ControlStartFork
    <3>2. Lifecycle!Start(i)
      BY <2>1, <2>2, <2>3, <3>1, LifecycleFork DEF ControlStartFork
    <3> QED
      BY <3>2 DEF Lifecycle!Next
  <2>4. CASE ControlStartError(i)
    <3>1. \A j \in Slots \ {i} : desired'[j] = desired[j]
      BY <2>4 DEF IInv, TypeOK, ControlStartError
    <3>2. running' = running /\ ~running[i]
      BY <2>1, <2>4, SpawnErrorTracking DEF ControlStartError
    <3>3. AppStatus[i] \in {"stopped", "backoff"} /\ AppStatus'[i] = "stopped"
      BY <2>2, <3>2 DEF AppStatus
    <3>4. CASE AppStatus[i] = "stopped"
      BY <2>1, <2>2, <3>1, <3>2, <3>3, <3>4, LifecycleStay
    <3>5. CASE AppStatus[i] = "backoff"
      <4>1. Lifecycle!Move(i, {"backoff"}, "stopped")
        BY <2>1, <2>2, <3>1, <3>2, <3>3, <3>5, LifecycleMove
      <4> QED
        BY <4>1 DEF Lifecycle!Next, Lifecycle!GiveUp
    <3> QED
      BY <3>3, <3>4, <3>5
  <2>5. CASE ControlStartRunning(i)
    <3>1. desired'[i] /\ \A j \in Slots \ {i} : desired'[j] = desired[j]
      BY <2>5 DEF IInv, TypeOK, ControlStartRunning
    <3>2. running' = running /\ running[i]
      BY <2>5 DEF ControlStartRunning, scbVars
    <3>3. AppStatus[i] \in {"running", "stopping"} /\ AppStatus'[i] = "running"
      BY <3>1, <3>2 DEF AppStatus
    <3>4. CASE AppStatus[i] = "running"
      BY <2>1, <2>2, <3>1, <3>2, <3>3, <3>4, LifecycleStay
    <3>5. CASE AppStatus[i] = "stopping"
      <4>1. Lifecycle!Move(i, {"stopped", "backoff", "stopping"}, "running")
        BY <2>1, <2>2, <3>1, <3>2, <3>3, <3>5, LifecycleMove
      <4> QED
        BY <4>1 DEF Lifecycle!Next, Lifecycle!Start
    <3> QED
      BY <3>3, <3>4, <3>5
  <2> QED
    BY <1>3, <2>3, <2>4, <2>5 DEF ControlStart
<1>4. ASSUME NEW r \in Requests, NEW i \in Slots, ControlStop(r, i)
      PROVE  Lifecycle!Next \/ UNCHANGED Lifecycle!vars
  <2>1. /\ config' = config /\ running' = running
        /\ restartPending' = [restartPending EXCEPT ![i] = FALSE]
        /\ desired' = [desired EXCEPT ![i] = FALSE]
    BY <1>4 DEF ControlStop, ForgetRestart, mainVars, scbVars
  <2>2. /\ ~restartPending'[i] /\ ~desired'[i]
        /\ \A j \in Slots \ {i} : /\ restartPending'[j] = restartPending[j]
                                  /\ desired'[j] = desired[j]
    BY <2>1 DEF IInv, TypeOK
  <2>3. /\ AppStatus[i] \in {"stopped", "running", "stopping", "backoff"}
        /\ AppStatus[i] \in {"stopped", "backoff"} => AppStatus'[i] = "stopped"
        /\ AppStatus[i] \in {"running", "stopping"} => AppStatus'[i] = "stopping"
    BY <2>1, <2>2 DEF AppStatus
  <2>4. CASE AppStatus[i] \in {"stopped", "stopping"}
    BY <2>1, <2>2, <2>3, <2>4, LifecycleStay
  <2>5. CASE AppStatus[i] = "running"
    <3>1. Lifecycle!Move(i, {"running"}, "stopping")
      BY <2>1, <2>2, <2>3, <2>5, LifecycleMove
    <3> QED
      BY <3>1 DEF Lifecycle!Next, Lifecycle!GiveUp
  <2>6. CASE AppStatus[i] = "backoff"
    <3>1. Lifecycle!Move(i, {"backoff"}, "stopped")
      BY <2>1, <2>2, <2>3, <2>6, LifecycleMove
    <3> QED
      BY <3>1 DEF Lifecycle!Next, Lifecycle!GiveUp
  <2> QED
    BY <2>3, <2>4, <2>5, <2>6
<1>5. ASSUME NEW i \in Slots, ControlStarted(i)
      PROVE  Lifecycle!Next \/ UNCHANGED Lifecycle!vars
  <2>1. /\ config' = config /\ running' = running
        /\ restartPending' = restartPending /\ running[i]
        /\ desired' = [desired EXCEPT ![i] = ~SpawnChildError(i)]
    BY <1>5 DEF IInv, FlowInv, ControlStarted, SpawnReturns, IsNext, mainVars,
                scbVars
  <2>2. \A j \in Slots \ {i} : desired'[j] = desired[j]
    BY <2>1 DEF IInv, TypeOK
  <2>3. /\ AppStatus[i] \in {"running", "stopping"}
        /\ AppStatus'[i] \in {"running", "stopping"}
    BY <2>1 DEF AppStatus
  <2>4. CASE AppStatus'[i] = AppStatus[i]
    BY <2>1, <2>2, <2>4, LifecycleStay
  <2>5. CASE AppStatus[i] = "running" /\ AppStatus'[i] = "stopping"
    <3>1. Lifecycle!Move(i, {"running"}, "stopping")
      BY <2>1, <2>2, <2>5, LifecycleMove
    <3> QED
      BY <3>1 DEF Lifecycle!Next, Lifecycle!GiveUp
  <2>6. CASE AppStatus[i] = "stopping" /\ AppStatus'[i] = "running"
    <3>1. Lifecycle!Move(i, {"stopped", "backoff", "stopping"}, "running")
      BY <2>1, <2>2, <2>6, LifecycleMove
    <3> QED
      BY <3>1 DEF Lifecycle!Next, Lifecycle!Start
  <2> QED
    BY <2>3, <2>4, <2>5, <2>6
<1> QED
  BY <1>1, <1>2, <1>3, <1>4, <1>5 DEF Serve

(* Shutdown and reload make lifecycle steps: the applications are only     *)
(* replaced when none of them has a process.                               *)
LEMMA FinishLifecycle ==
    ASSUME IInv, Finish PROVE Lifecycle!Next \/ UNCHANGED Lifecycle!vars
<1>1. CASE CloseSocket \/ WaitDrain \/ CheckReload \/ Exited
  BY <1>1, LifecycleStutter
  DEF CloseSocket, WaitDrain, CheckReload, Exited, vars, mainVars, scbVars,
      flagVars
<1>2. CASE Cleanup
  <2>1. \A i \in Slots : ~running[i] /\ ~running'[i] /\ ~restartPending'[i]
    BY <1>2 DEF IInv, FlowInv, QuietLabels, Cleanup
  <2>2. config' \in Configs
    BY <1>2 DEF IInv, TypeOK, Cleanup
  <2> QED
    BY <2>1, <2>2, LifecycleReplace DEF Lifecycle!Next
<1>3. CASE ConfigInit
  <2>1. \A i \in Slots : ~running[i] /\ ~restartPending[i]
    BY <1>3 DEF IInv, FlowInv, QuietLabels, PendingIsIdle, ConfigInit
  <2>2. \A i \in Slots : ~running[i] /\ ~running'[i] /\ ~restartPending'[i]
    BY <1>3, <2>1 DEF ConfigInit, scbVars, flagVars
  <2>3. config' \in Configs
    BY <1>3 DEF ConfigInit
  <2> QED
    BY <2>2, <2>3, LifecycleReplace DEF Lifecycle!Next
<1> QED
  BY <1>1, <1>2, <1>3 DEF Finish

(* Signals, children and the clock never move an application: only what    *)
(* nanoinit itself does about them does.                                   *)
LEMMA EnvironmentLifecycle ==
    ASSUME Environment PROVE UNCHANGED Lifecycle!vars
<1>1. ASSUME NEW s \in EnvSignals, Deliver(s) PROVE UNCHANGED Lifecycle!vars
  BY <1>1, LifecycleStutter DEF Deliver, mainVars, scbVars, flagVars
<1>2. ASSUME NEW p \in Pids, Child(p) \/ AppExit(p) \/ OrphanDies(p)
      PROVE  UNCHANGED Lifecycle!vars
  BY <1>2, LifecycleStutter
  DEF Child, ChildResetSignals, ChildExec, ChildReportError, ChildExit,
      AppExit, OrphanDies, ChildStep, mainVars, scbVars, flagVars
<1>3. CASE Tick
  BY <1>3, LifecycleStutter DEF Tick, mainVars, scbVars, flagVars
<1> QED
  BY <1>1, <1>2, <1>3 DEF Environment

(* Whatever the sequence of signals, requests, failures and exits, every   *)
(* application only makes the steps of AppLifecycle: nothing stopped is    *)
(* restarted, nothing without autorestart waits for a restart, and a       *)
(* reload replaces the applications only when none has a process.          *)
THEOREM LifecycleRefinement == Spec => LifecycleSpec
<1>1. Init => Lifecycle!Init
  <2> SUFFICES ASSUME Init PROVE Lifecycle!Init
    OBVIOUS
  <2>1. AppStatus = [i \in Slots |-> "stopped"]
    BY DEF Init, AppStatus
  <2>2. AppAutorestart \in [Slots -> BOOLEAN]
    BY ConfigFacts DEF Init, AppAutorestart
  <2> QED
    BY <2>1, <2>2 DEF Lifecycle!Init
<1>2. IInv /\ [Next]_vars => [Lifecycle!Next]_(Lifecycle!vars)
  <2> SUFFICES ASSUME IInv, [Next]_vars
               PROVE  Lifecycle!Next \/ UNCHANGED Lifecycle!vars
    OBVIOUS
  <2>1. CASE Next
    BY <2>1, StartupLifecycle, SuperviseLifecycle, ServeLifecycle,
       FinishLifecycle, EnvironmentLifecycle DEF Next, Main
  <2>2. CASE UNCHANGED vars
    BY <2>2, LifecycleStutter DEF vars, mainVars, scbVars, flagVars
  <2> QED
    BY <2>1, <2>2
<1> QED
  BY <1>1, <1>2, Invariance, PTL DEF Spec, LifecycleSpec, Lifecycle!Spec
=============================================================================
