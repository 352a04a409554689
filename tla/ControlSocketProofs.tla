------------------------ MODULE ControlSocketProofs -------------------------
(***************************************************************************)
(* Proofs about ControlSocket, for every set of invocations and every      *)
(* number of reloads and setbacks.                                         *)
(*                                                                         *)
(* That a supervisor keeps its name depends on who else can be between     *)
(* connect(), bind() and unlink(): SerialInv says it for invocations that  *)
(* do not overlap.  That racing invocations do not all give up depends on  *)
(* why a second bind() fails: RaceInv says that somebody is about to       *)
(* listen then.                                                            *)
(***************************************************************************)
EXTENDS ControlSocket, TLAPS

(* Between the connect() that found nobody and listen(), or between        *)
(* close() and the next start.                                             *)
Offline == {"bind", "probe", "unlink", "rebind", "listen", "close_unlink", "wait"}

(* Without overlap: one invocation at a time is on its way up or down, a   *)
(* listening socket is the one under the path, nobody listens while an     *)
(* invocation is offline, and what bind() and unlink() left is still there.*)
SerialInv ==
    serial =>
      /\ \A i, j \in Instances : ~Settled(i) /\ ~Settled(j) => i = j
      /\ \A i \in Instances : sock[i] = "listening" => node = i
      /\ \A i, j \in Instances : ipc[i] \in Offline => sock[j] # "listening"
      /\ \A i \in Instances : ipc[i] = "rebind" => node = NoNode
      /\ \A i \in Instances : ipc[i] = "listen" => node = i

(* Where the invocations are as long as nobody has listened. *)
Stage == {"idle", "start", "bind", "probe", "unlink", "rebind", "listen",
          "failed", "crashed"}

(* Until somebody listens: everybody is on the way up or has given up; a   *)
(* stale file is gone for good once it was unlinked, so that a second      *)
(* bind() only fails when somebody is about to listen.                     *)
RaceInv ==
    ~served /\ setbacks = 0 =>
      /\ \A i \in Instances : ipc[i] \in Stage
      /\ (\E i \in Instances : ipc[i] \in {"rebind", "listen", "failed"})
           => node = NoNode \/ ipc[node] = "listen"
      /\ (\E i \in Instances : ipc[i] = "failed")
           => \E i \in Instances : ipc[i] = "listen"

IInv == TypeOK /\ SerialInv /\ RaceInv
-----------------------------------------------------------------------------
(* Facts about the steps *)

(* Every step is one of an invocation, or changes nothing. *)
LEMMA NextCases ==
    ASSUME Next
    PROVE  \/ \E i \in Instances :
                \/ Step(i) \/ Launch(i) \/ Signalled(i) \/ Crash(i)
           \/ UNCHANGED vars
BY DEF Next, AllOver

(* A step of an invocation keeps the types of the variables and the        *)
(* correspondence of a socket with its owner's place in the code.          *)
LEMMA TypeStep ==
    ASSUME TypeOK, NEW i \in Instances,
           Step(i) \/ Launch(i) \/ Signalled(i) \/ Crash(i)
    PROVE  TypeOK'
<1> USE InstancesAssumption, SerialModesAssumption, BoundsAssumption
    DEF TypeOK, Labels
<1>1. CASE CheckActive(i)
  BY <1>1 DEF CheckActive, Goto, SocketIsActive
<1>2. CASE Bind(i)
  BY <1>2 DEF Bind, Goto, TakePath
<1>3. CASE Probe(i)
  BY <1>3 DEF Probe, Goto, SocketIsActive
<1>4. CASE UnlinkStale(i)
  BY <1>4 DEF UnlinkStale, Goto
<1>5. CASE Rebind(i)
  BY <1>5 DEF Rebind, Goto, TakePath
<1>6. CASE Listen(i)
  <2>1. CASE ipc' = [ipc EXCEPT ![i] = "run"]
    BY <1>6, <2>1 DEF Listen, Goto
  <2>2. CASE ipc' = [ipc EXCEPT ![i] = "listen_failed"]
    BY <1>6, <2>2 DEF Listen, Goto
  <2> QED BY <1>6, <2>1, <2>2 DEF Listen, Goto
<1>7. CASE CloseFd(i)
  BY <1>7 DEF CloseFd, Goto
<1>8. CASE UnlinkOwn(i)
  BY <1>8 DEF UnlinkOwn, Goto
<1>9. CASE AppsEnded(i)
  BY <1>9 DEF AppsEnded, Goto
<1>10. CASE Launch(i)
  BY <1>10 DEF Launch, Goto
<1>11. CASE Signalled(i)
  BY <1>11 DEF Signalled, Goto
<1>12. CASE Crash(i)
  BY <1>12 DEF Crash
<1> QED BY <1>1, <1>2, <1>3, <1>4, <1>5, <1>6, <1>7, <1>8, <1>9, <1>10, <1>11, <1>12 DEF Step

(* SerialInv: an invocation that is offline is alone, so its connect(),    *)
(* bind(), unlink() and listen() are not disturbed.                        *)
LEMMA SerialStep ==
    ASSUME TypeOK, SerialInv, NEW i \in Instances,
           Step(i) \/ Launch(i) \/ Signalled(i) \/ Crash(i)
    PROVE  SerialInv'
<1> USE InstancesAssumption DEF TypeOK, SerialInv, Settled, Offline, NoNode
<1>1. CASE CheckActive(i)
  BY <1>1 DEF CheckActive, Goto, SocketIsActive
<1>2. CASE Bind(i)
  BY <1>2 DEF Bind, Goto, TakePath
<1>3. CASE Probe(i)
  BY <1>3 DEF Probe, Goto, SocketIsActive
<1>4. CASE UnlinkStale(i)
  BY <1>4 DEF UnlinkStale, Goto
<1>5. CASE Rebind(i)
  BY <1>5 DEF Rebind, Goto, TakePath
<1>6. CASE Listen(i)
  BY <1>6 DEF Listen, Goto
<1>7. CASE CloseFd(i)
  BY <1>7 DEF CloseFd, Goto
<1>8. CASE UnlinkOwn(i)
  BY <1>8 DEF UnlinkOwn, Goto
<1>9. CASE AppsEnded(i)
  BY <1>9 DEF AppsEnded, Goto
<1>10. CASE Launch(i)
  BY <1>10 DEF AloneIfSerial, Launch, Goto
<1>11. CASE Signalled(i)
  BY <1>11 DEF AloneIfSerial, Signalled, Goto
<1>12. CASE Crash(i)
  BY <1>12 DEF Crash
<1> QED BY <1>1, <1>2, <1>3, <1>4, <1>5, <1>6, <1>7, <1>8, <1>9, <1>10, <1>11, <1>12 DEF Step

(* RaceInv: a second bind() that fails finds the path in the hands of an   *)
(* invocation that is about to listen.                                     *)
LEMMA RaceStep ==
    ASSUME TypeOK, RaceInv, NEW i \in Instances,
           Step(i) \/ Launch(i) \/ Signalled(i) \/ Crash(i)
    PROVE  RaceInv'
<1> USE InstancesAssumption, BoundsAssumption DEF TypeOK, RaceInv, Stage, NoNode
<1>1. CASE CheckActive(i)
  BY <1>1 DEF CheckActive, Goto, SocketIsActive
<1>2. CASE Bind(i)
  BY <1>2 DEF Bind, Goto, TakePath
<1>3. CASE Probe(i)
  BY <1>3 DEF Probe, Goto, SocketIsActive
<1>4. CASE UnlinkStale(i)
  BY <1>4 DEF UnlinkStale, Goto
<1>5. CASE Rebind(i)
  BY <1>5 DEF Rebind, Goto, TakePath
<1>6. CASE Listen(i)
  BY <1>6 DEF Listen, Goto
<1>7. CASE CloseFd(i)
  BY <1>7 DEF CloseFd, Goto
<1>8. CASE UnlinkOwn(i)
  BY <1>8 DEF UnlinkOwn, Goto
<1>9. CASE AppsEnded(i)
  BY <1>9 DEF AppsEnded, Goto
<1>10. CASE Launch(i)
  BY <1>10 DEF Launch, Goto
<1>11. CASE Signalled(i)
  BY <1>11 DEF Signalled, Goto
<1>12. CASE Crash(i)
  BY <1>12 DEF Crash
<1> QED BY <1>1, <1>2, <1>3, <1>4, <1>5, <1>6, <1>7, <1>8, <1>9, <1>10, <1>11, <1>12 DEF Step

(* A step that changes no variable preserves the invariant. *)
LEMMA StutterStep ==
    ASSUME IInv, UNCHANGED vars
    PROVE  IInv'
BY DEF IInv, TypeOK, SerialInv, RaceInv, Settled, vars
-----------------------------------------------------------------------------
(* Theorems *)

(* The inductive invariant holds in every state that the invocations reach.*)
THEOREM Invariance == Spec => []IInv
<1>1. Init => IInv
  <2> SUFFICES ASSUME Init PROVE IInv
    OBVIOUS
  <2>1. \A i \in Instances : /\ sock[i] = "none"
                             /\ ipc[i] \in {"idle", "crashed"}
                             /\ ipc[i] # "idle" => i = node
    BY DEF Init
  <2>2. TypeOK
    <3>1. ipc \in [Instances -> Labels]
      BY DEF Init, Labels
    <3>2. sock \in [Instances -> {"none", "bound", "listening"}]
      BY DEF Init
    <3>3. serial \in SerialModes /\ node \in Instances \cup {NoNode}
      BY DEF Init
    <3>4. reloads \in 0..MaxReloads /\ setbacks \in 0..MaxSetbacks
      BY BoundsAssumption DEF Init
    <3>5. served \in BOOLEAN
      BY DEF Init
    <3> QED BY <2>1, <3>1, <3>2, <3>3, <3>4, <3>5 DEF TypeOK
  <2>3. SerialInv
    BY <2>1 DEF SerialInv, Settled, Offline
  <2>4. RaceInv
    BY <2>1 DEF RaceInv, Stage
  <2> QED BY <2>2, <2>3, <2>4 DEF IInv
<1>2. IInv /\ [Next]_vars => IInv'
  <2> SUFFICES ASSUME IInv, [Next]_vars PROVE IInv'
    OBVIOUS
  <2>1. CASE \E i \in Instances : Step(i) \/ Launch(i) \/ Signalled(i) \/ Crash(i)
    BY <2>1, TypeStep, SerialStep, RaceStep DEF IInv
  <2>2. CASE UNCHANGED vars
    BY <2>2, StutterStep
  <2> QED BY <2>1, <2>2, NextCases
<1> QED BY <1>1, <1>2, PTL DEF Spec

(* The variables keep their types, and an invocation has a bound or a      *)
(* listening socket exactly between the calls that make and close it.      *)
THEOREM TypeCorrect == Spec => []TypeOK
BY Invariance, PTL DEF IInv

(* supervisor_start_control_socket() and supervisor_close_control_socket():*)
(* however often invocations are started, reloaded or killed, a supervisor *)
(* that runs is the one found under the path, when they do not overlap.    *)
THEOREM Reachability == Spec => []RunningIsReachable
<1>1. IInv => RunningIsReachable
  BY DEF IInv, TypeOK, SerialInv, RunningIsReachable
<1> QED BY <1>1, Invariance, PTL

(* The check in main(): of any number of invocations that do not overlap,  *)
(* at most one supervises.                                                 *)
THEOREM MutualExclusion == Spec => []OneSupervisor
<1>1. IInv => OneSupervisor
  BY DEF IInv, TypeOK, SerialInv, OneSupervisor
<1> QED BY <1>1, Invariance, PTL

(* Any number of invocations may race for the path, over a stale file or   *)
(* none, in any order: they do not all give up.                            *)
THEOREM RaceHasWinner == Spec => []SomeoneServes
<1>1. IInv => SomeoneServes
  BY DEF IInv, TypeOK, RaceInv, Stage, SomeoneServes
<1> QED BY <1>1, Invariance, PTL

(* What Unix sockets allow and overlapping invocations break holds for     *)
(* invocations that do not overlap: no step of another invocation takes    *)
(* the name of a listening socket away.                                    *)
THEOREM NameKeptIfSerial == Spec /\ serial => ActiveSocketKept
<1>1. serial /\ [Next]_vars => serial'
  BY DEF Next, Step, Launch, CheckActive, Bind, Probe, UnlinkStale, Rebind, Listen,
         Signalled, CloseFd, UnlinkOwn, AppsEnded, Crash, AllOver, vars
<1>2. IInv /\ serial /\ [Next]_vars =>
        [\A i \in Instances :
           node = i /\ sock[i] = "listening" => node' = i \/ ipc[i] # ipc'[i]]_vars
  <2> SUFFICES ASSUME IInv, serial, Next, NEW i \in Instances,
                      node = i, sock[i] = "listening"
               PROVE  node' = i \/ ipc[i] # ipc'[i]
    OBVIOUS
  <2> SUFFICES ASSUME NEW j \in Instances,
                      Step(j) \/ Launch(j) \/ Signalled(j) \/ Crash(j)
               PROVE  node' = i \/ ipc[i] # ipc'[i]
    BY NextCases DEF vars
  <2>1. ipc[j] \notin Offline
    BY DEF IInv, SerialInv
  <2> QED
    BY <2>1 DEF Offline, Step, Launch, CheckActive, Bind, Probe, UnlinkStale,
       Rebind, Listen, Signalled, CloseFd, UnlinkOwn, AppsEnded, Crash, Goto
<1> QED BY <1>1, <1>2, Invariance, PTL DEF Spec, ActiveSocketKept
=============================================================================
