--------------------------- MODULE StartupProofs ----------------------------
(* Proofs about Startup: nanoinit --reload signals the supervisor whatever  *)
(* other processes end and start while it looks at the process table, an    *)
(* invocation does what its command line says and nothing else, and the     *)
(* openers of output files never get into each other's way.                 *)
EXTENDS Startup, OutputPathProofs, InputProofs

-----------------------------------------------------------------------------
(* The reload helper: the inductive invariant *)

(* Which part of main() an invocation is in follows from its command line. *)
ModeInv ==
    /\ pc \in {"config_init", "spawn", "running"} => arguments.special_mode = "none"
    /\ pc = "helper" => arguments.special_mode = "reload"
    /\ pc = "control" => arguments.special_mode # "reload"
    /\ pc # "exited" => signalled = 0

(* A supervisor that was the first nanoinit all the time is either ahead of *)
(* the scan, which has found nothing yet, or what the scan has found.       *)
AheadOrFound(s) ==
    /\ procs[s] = "supervisor"
    /\ IsFirst(procs, s)
    /\ \/ scan <= s /\ target = 0
       \/ Scanned /\ target = s

ScanInv == plain => \E s \in Pids : AheadOrFound(s)

(* A reload that is over has signalled what the scan has found. *)
ReloadOver ==
    arguments.special_mode = "reload" /\ ~arguments.usage =>
        (plain => Scanned /\ target # 0 /\ rc = 0 /\ signalled = target)

EndInv == pc = "exited" => ReloadOver

HelperInv == HelperTypeOK /\ ModeInv /\ ScanInv /\ EndInv

-----------------------------------------------------------------------------
(* The steps of the helper *)

(* Looking at one more process does not pass the supervisor by: everything  *)
(* before it has another name or is the helper itself.                      *)
LEMMA LookStep ==
    ASSUME HelperTypeOK, ScanInv, signalled = 0, Look
    PROVE  HelperTypeOK' /\ ScanInv'
<1>1. scan \in Pids /\ MaxPid \in Nat
  BY ReloadHelperAssumption DEF Look
<1>2. HelperTypeOK'
  BY <1>1 DEF HelperTypeOK, Look, Pids
<1>3. ScanInv'
  <2> SUFFICES ASSUME plain' PROVE \E s \in Pids : AheadOrFound(s)'
    BY DEF ScanInv
  <2>1. PICK s \in Pids : AheadOrFound(s)
    BY DEF ScanInv, Look
  <2>2. procs'[s] = "supervisor" /\ IsFirst(procs, s)'
    BY <2>1 DEF AheadOrFound, IsFirst, Look
  <2>3. scan <= s /\ target = 0
    BY <1>1, <2>1 DEF AheadOrFound, Scanned, Pids
  <2>4. CASE scan < s
    <3>1. scan \in 1..s - 1
      BY <1>1, <2>4 DEF Pids
    <3>2. ~(scan # self /\ procs[scan] \in Named)
      BY <2>1, <3>1 DEF AheadOrFound, IsFirst
    <3> QED BY <1>1, <2>2, <2>3, <2>4, <3>2 DEF Look, AheadOrFound, Pids
  <2>5. CASE scan = s
    <3>1. scan # self /\ procs[scan] \in Named
      BY <2>1, <2>5 DEF AheadOrFound, IsFirst
    <3> QED BY <2>2, <2>5, <3>1 DEF Look, AheadOrFound, Scanned
  <2> QED BY <1>1, <2>3, <2>4, <2>5 DEF Pids
<1> QED BY <1>2, <1>3

(* Two processes are not both the first. *)
LEMMA FirstIsUnique ==
    ASSUME NEW ps, NEW s \in Pids, NEW t \in Pids, IsFirst(ps, s), IsFirst(ps, t)
    PROVE  s = t
<1>1. ~(s < t)
  BY DEF IsFirst, Pids
<1>2. ~(t < s)
  BY DEF IsFirst, Pids
<1> QED BY <1>1, <1>2 DEF Pids

(* Processes that end or start leave the first one alone, or plain is lost. *)
LEMMA ChurnStep ==
    ASSUME HelperTypeOK, ScanInv, NEW p \in Pids, NEW kind \in Kinds, Churn(p, kind)
    PROVE  HelperTypeOK' /\ ScanInv'
<1>1. HelperTypeOK'
  BY DEF HelperTypeOK, Churn
<1>2. ScanInv'
  <2> SUFFICES ASSUME plain' PROVE \E s \in Pids : AheadOrFound(s)'
    BY DEF ScanInv
  <2>1. plain /\ \E s \in Pids : IsFirst(procs, s) /\ IsFirst(procs', s)
    BY DEF Churn
  <2>2. PICK t \in Pids : IsFirst(procs, t) /\ IsFirst(procs', t)
    BY <2>1
  <2>3. PICK s \in Pids : AheadOrFound(s)
    BY <2>1 DEF ScanInv
  <2>4. s = t
    BY <2>2, <2>3, FirstIsUnique DEF AheadOrFound
  <2>5. IsFirst(procs, s)'
    BY <2>2, <2>4 DEF IsFirst, Churn
  <2>6. p # s
    <3>1. CASE kind = "none"
      BY <2>5, <3>1 DEF IsFirst, Churn, HelperTypeOK, Named
    <3>2. CASE kind # "none"
      BY <2>3, <3>2 DEF AheadOrFound, Churn
    <3> QED BY <3>1, <3>2
  <2>7. procs'[s] = "supervisor"
    BY <2>3, <2>6 DEF AheadOrFound, Churn, HelperTypeOK
  <2> QED BY <2>3, <2>5, <2>7 DEF AheadOrFound, Churn, Scanned
<1> QED BY <1>1, <1>2

(* Once everything is looked at, the supervisor is what was found, and      *)
(* kill() reaches it.                                                       *)
LEMMA KillReaches ==
    ASSUME HelperTypeOK, ScanInv, Scanned, plain
    PROVE  KillSucceeds /\ procs[target] = "supervisor"
<1>1. PICK s \in Pids : AheadOrFound(s)
  BY DEF ScanInv
<1>2. target = s
  BY <1>1, ReloadHelperAssumption DEF AheadOrFound, Scanned, Pids
<1> QED BY <1>1, <1>2 DEF AheadOrFound, KillSucceeds, Pids

-----------------------------------------------------------------------------
(* The steps of main() *)

(* A step that leaves the helper alone and does not exit in reload mode. *)
LEMMA OtherStep ==
    ASSUME HelperInv, UNCHANGED helperVars, ModeInv',
           pc' = "exited" => \/ arguments'.special_mode # "reload" \/ arguments'.usage
                             \/ pc = "exited" /\ UNCHANGED <<arguments, rc>>
    PROVE  HelperInv'
<1>1. HelperTypeOK'
  BY DEF HelperInv, HelperTypeOK, helperVars
<1>2. ScanInv'
  BY DEF HelperInv, ScanInv, AheadOrFound, IsFirst, Scanned, helperVars
<1>3. EndInv'
  BY DEF HelperInv, EndInv, ReloadOver, Scanned, helperVars
<1> QED BY <1>1, <1>2, <1>3 DEF HelperInv

(* main() up to the choice of what to do. *)
LEMMA DispatchStep ==
    ASSUME HelperInv,
           \/ InitArguments \/ LogInit
           \/ \E active \in BOOLEAN : CheckSocket(active)
           \/ \E status \in {0, 1} : SendCommand(status)
    PROVE  HelperInv'
<1>1. CASE InitArguments
  BY <1>1, OtherStep DEF InitArguments, Exit, ModeInv, HelperInv, helperVars
<1>2. CASE LogInit
  BY <1>2, OtherStep DEF LogInit, ModeInv, HelperInv, helperVars
<1>3. ASSUME NEW active \in BOOLEAN, CheckSocket(active) PROVE HelperInv'
  BY <1>3, OtherStep DEF CheckSocket, Exit, ModeInv, HelperInv, helperVars
<1>4. ASSUME NEW status \in {0, 1}, SendCommand(status) PROVE HelperInv'
  BY <1>4, OtherStep DEF SendCommand, Exit, ModeInv, HelperInv, helperVars
<1> QED BY <1>1, <1>2, <1>3, <1>4

(* The supervisor's part of main(), and the configuration file. *)
LEMMA SupervisorStep ==
    ASSUME HelperInv,
           \/ LoadConfig \/ LoadCrashes \/ StartFails
           \/ Spawn \/ Spawned \/ Reload \/ Terminate \/ Exited
           \/ \E o \in Openers : OpenOutput(o)
           \/ \E d \in launch.next : Rewrite(d)
           \/ WriteMore \/ Disturb
    PROVE  HelperInv'
<1>1. CASE LoadConfig
  BY <1>1, OtherStep DEF LoadConfig, ModeInv, HelperInv, helperVars
<1>2. CASE Spawn
  BY <1>2, OtherStep DEF Spawn, ModeInv, HelperInv, helperVars
<1>3. CASE Spawned
  BY <1>3, OtherStep DEF Spawned, ModeInv, HelperInv, helperVars
<1>4. CASE Reload
  BY <1>4, OtherStep DEF Reload, ModeInv, HelperInv, helperVars
<1>5. CASE Terminate \/ StartFails
  BY <1>5, OtherStep DEF Terminate, StartFails, Leave, Exit, ModeInv, HelperInv, helperVars
<1>7. CASE LoadCrashes
  BY <1>7, OtherStep DEF LoadCrashes, ModeInv, HelperInv, helperVars
<1>6. ASSUME \/ Exited \/ WriteMore \/ Disturb
             \/ \E o \in Openers : OpenOutput(o)
             \/ \E d \in launch.next : Rewrite(d)
      PROVE  HelperInv'
  <2>1. UNCHANGED <<mainVars, helperVars>>
    BY <1>6 DEF Exited, WriteMore, Disturb, OpenOutput, Rewrite, vars
  <2> QED BY <2>1, OtherStep DEF mainVars, ModeInv, HelperInv, helperVars
<1> QED BY <1>1, <1>2, <1>3, <1>4, <1>5, <1>6, <1>7

(* The helper and the processes around it. *)
LEMMA HelperStep ==
    ASSUME HelperInv, HelperLook \/ HelperSend \/ HelperFails \/ OtherProcess
    PROVE  HelperInv'
<1>1. CASE HelperLook
  <2>1. HelperTypeOK' /\ ScanInv'
    BY <1>1, LookStep DEF HelperLook, HelperInv, ModeInv
  <2> QED BY <1>1, <2>1 DEF HelperLook, Look, mainVars, HelperInv, ModeInv, EndInv
<1>2. CASE HelperSend
  <2>1. HelperTypeOK' /\ ScanInv'
    BY <1>2 DEF HelperSend, SendSigusr1, HelperInv, HelperTypeOK, ScanInv, AheadOrFound,
                IsFirst, Scanned
  <2>2. ReloadOver'
    BY <1>2 DEF HelperSend, SendSigusr1, KillSucceeds, Scanned, Exit, ReloadOver
  <2> QED BY <1>2, <2>1, <2>2 DEF HelperSend, Exit, HelperInv, ModeInv, EndInv
<1>3. CASE HelperFails
  <2>1. HelperTypeOK' /\ ScanInv'
    BY <1>3 DEF HelperFails, helperVars, HelperInv, HelperTypeOK, ScanInv, AheadOrFound,
                IsFirst, Scanned
  <2>2. ~plain
    BY <1>3, KillReaches DEF HelperFails, HelperInv
  <2> QED BY <1>3, <2>1, <2>2 DEF HelperFails, Exit, helperVars, HelperInv, ModeInv, EndInv,
                                  ReloadOver
<1>4. CASE OtherProcess
  <2>1. HelperTypeOK' /\ ScanInv'
    BY <1>4, ChurnStep DEF OtherProcess, HelperInv
  <2> QED BY <1>4, <2>1 DEF OtherProcess, Churn, mainVars, HelperInv, ModeInv, EndInv
<1> QED BY <1>1, <1>2, <1>3, <1>4

-----------------------------------------------------------------------------
(* The theorems *)

(* The invariant holds in every state of every invocation, for every set of *)
(* launches and process tables of any size.                                 *)
THEOREM HelperInvariance == Spec => []HelperInv
<1>1. Init => HelperInv
  <2> SUFFICES ASSUME Init PROVE HelperInv
    OBVIOUS
  <2>1. procs \in Tables /\ scan = 1 /\ target = 0 /\ signalled = 0
        /\ plain = SupervisorFirst(procs)
    BY StartupAssumption DEF Init, HelperInit
  <2>2. HelperTypeOK
    BY <2>1, ReloadHelperAssumption DEF HelperTypeOK, Tables
  <2>3. ScanInv
    <3> SUFFICES ASSUME plain PROVE \E s \in Pids : AheadOrFound(s)
      BY DEF ScanInv
    <3>1. SupervisorFirst(procs)
      BY <2>1
    <3>2. PICK s \in Pids : procs[s] = "supervisor" /\ IsFirst(procs, s)
      BY <3>1 DEF SupervisorFirst
    <3> QED BY <2>1, <3>2 DEF AheadOrFound, Pids
  <2> QED BY <2>1, <2>2, <2>3 DEF Init, HelperInv, ModeInv, EndInv
<1>2. HelperInv /\ [Next]_vars => HelperInv'
  <2> SUFFICES ASSUME HelperInv, [Next]_vars PROVE HelperInv'
    OBVIOUS
  <2>1. CASE UNCHANGED vars
    BY <2>1, OtherStep DEF vars, mainVars, ModeInv, HelperInv, helperVars
  <2> QED BY <2>1, DispatchStep, SupervisorStep, HelperStep DEF Next, Main
<1> QED BY <1>1, <1>2, PTL DEF Spec

(* nanoinit --reload exits with 0 and has sent SIGUSR1 to the supervisor,   *)
(* whenever one supervisor was the first nanoinit of the process table all  *)
(* the time (nanoinit.c).                                                   *)
THEOREM ReloadArrives == Spec => []HelperReachesSupervisor
<1>1. HelperInv => HelperReachesSupervisor
  BY KillReaches DEF HelperInv, EndInv, ReloadOver, HelperReachesSupervisor
<1> QED BY <1>1, HelperInvariance, PTL

-----------------------------------------------------------------------------
(* What an invocation does follows from its command line *)

(* What the parts of main() are chosen by, for a line that is understood. *)
LEMMA ModeOfLine ==
    ASSUME NEW argv \in Seq(Given), UnderstoodLine(argv),
           NEW mode, mode = ArgpParse(argv).special_mode,
           NEW words, words = At(argv, Len(argv), "arg"),
           NEW r, r = At(argv, Len(argv), "r")
    PROVE  /\ mode = "reload" => r # {} /\ words = {}
           /\ mode = "none" => r = {} /\ words = {}
           /\ mode \notin {"none", "reload"} => r = {} /\ words # {}
<1>1. /\ words = {} => mode = IF r # {} THEN "reload" ELSE "none"
      /\ \A i : words = {i} => mode = "list"
      /\ \A i, j \in words : i < j /\ words = {i, j} => mode = argv[i].arg
  BY ParsedAsWritten DEF ParsedLine
<1>2. CASE words = {}
  BY <1>1, <1>2
<1>3. CASE r = {} /\ \E i \in words : words = {i} /\ argv[i].arg \in {"list", "ls"}
  BY <1>1, <1>3
<1>4. CASE r = {} /\ \E i, j \in words : i < j /\ words = {i, j} /\ argv[i].arg \in NeedsApp
  <2>1. PICK i \in words, j \in words :
          i < j /\ words = {i, j} /\ argv[i].arg \in NeedsApp
    BY <1>4
  <2>2. mode \in NeedsApp
    BY <1>1, <2>1
  <2> QED BY <1>4, <2>1, <2>2 DEF NeedsApp
<1> QED BY <1>2, <1>3, <1>4 DEF UnderstoodLine

(* The environment and the default only change what is to be read. *)
LEMMA InitFacts ==
    ASSUME NEW argv \in Seq(Given), NEW env, NEW exists,
           NEW p, p = ArgpParse(argv),
           NEW a, a = ArgumentsInit(argv, env, exists)
    PROVE  /\ a.usage = p.usage /\ a.special_mode = p.special_mode
           /\ env.config_file # Unset => a.config_file = env.config_file
           /\ env.config_file = Unset /\ p.config_file # Unset =>
                a.config_file = p.config_file
           /\ env.config_file = Unset /\ p.config_file = Unset =>
                a.config_file = IF exists THEN "etc" ELSE Unset
<1> DEFINE file == IF env.config_file # Unset THEN env.config_file ELSE p.config_file
<1>1. p \in Arguments
  BY ParsedAsWritten
<1>2. PICK c : c = IF file = Unset /\ exists THEN "etc" ELSE file
  OBVIOUS
<1>3. PICK o : o = IF env.json_object # Unset THEN env.json_object ELSE p.config_json_object
  OBVIOUS
<1>4. a = [p EXCEPT !.config_file = c, !.config_json_object = o]
  BY <1>2, <1>3 DEF ArgumentsInit
<1>5. a.usage = p.usage /\ a.special_mode = p.special_mode /\ a.config_file = c
  BY <1>1, <1>4 DEF Arguments
<1>6. /\ env.config_file # Unset => c = env.config_file
      /\ env.config_file = Unset /\ p.config_file # Unset => c = p.config_file
      /\ env.config_file = Unset /\ p.config_file = Unset =>
            c = IF exists THEN "etc" ELSE Unset
  BY <1>2 DEF Unset
<1> QED BY <1>5, <1>6

(* The words of the properties are those of InputProofs. *)
LEMMA LineFacts ==
    ASSUME launch \in Launches
    PROVE  /\ launch.argv \in Seq(Given)
           /\ \A key : With(key) = At(launch.argv, Len(launch.argv), key)
           /\ Understood <=> UnderstoodLine(launch.argv)
<1>1. launch.argv \in Seq(Given)
  BY StartupAssumption DEF Given
<1>2. DOMAIN launch.argv = 1..Len(launch.argv)
  BY <1>1
<1>3. \A key : With(key) = At(launch.argv, Len(launch.argv), key)
  BY <1>2 DEF With, At
<1>4. Understood <=> UnderstoodLine(launch.argv)
  BY <1>3, Zenon DEF Understood, UnderstoodLine, Operands, HasOption, BadLevel, Levels, NeedsApp
<1> QED BY <1>1, <1>3, <1>4

(* The file is the one that the environment, else the last -c, else the     *)
(* default names.                                                           *)
LEMMA FileFacts ==
    ASSUME launch \in Launches, Understood, NEW a,
           a = ArgumentsInit(launch.argv, launch.env, disk.name = "etc")
    PROVE  a.config_file = FileNamed
<1> DEFINE argv == launch.argv
           cs == With("c")
<1>1. argv \in Seq(Given) /\ UnderstoodLine(argv) /\ cs = At(argv, Len(argv), "c")
  BY LineFacts
<1>2. PICK p : p = ArgpParse(argv)
  OBVIOUS
<1>3. FileOf(argv, Len(argv), p.config_file)
  BY <1>1, <1>2, ParsedAsWritten DEF ParsedLine
<1>4. /\ launch.env.config_file # Unset => a.config_file = launch.env.config_file
      /\ launch.env.config_file = Unset /\ p.config_file # Unset =>
            a.config_file = p.config_file
      /\ launch.env.config_file = Unset /\ p.config_file = Unset =>
            a.config_file = IF disk.name = "etc" THEN "etc" ELSE Unset
  <2> DEFINE env == launch.env
             exists == disk.name = "etc"
  <2>1. a = ArgumentsInit(argv, env, exists)
    OBVIOUS
  <2> HIDE DEF argv, env, exists
  <2>2. /\ env.config_file # Unset => a.config_file = env.config_file
        /\ env.config_file = Unset /\ p.config_file # Unset => a.config_file = p.config_file
        /\ env.config_file = Unset /\ p.config_file = Unset =>
              a.config_file = IF exists THEN "etc" ELSE Unset
    BY <1>1, <1>2, <2>1, InitFacts
  <2> QED BY <2>2 DEF env, exists
<1>5. CASE cs = {}
  <2>1. p.config_file = Unset
    BY <1>1, <1>3, <1>5 DEF FileOf
  <2> QED BY <1>4, <1>5, <2>1 DEF FileNamed, HasOption
<1>6. CASE cs # {}
  <2>1. PICK i \in cs : (\A j \in cs : j <= i) /\ p.config_file = argv[i].arg
    BY <1>1, <1>3, <1>6 DEF FileOf
  <2>2. cs \subseteq 1..Len(argv) /\ Len(argv) \in Nat
    BY <1>1 DEF At
  <2>3. LastWith("c") \in cs /\ \A j \in cs : j <= LastWith("c")
    BY <2>1 DEF LastWith
  <2>4. LastWith("c") = i
    <3>1. PICK l : l = LastWith("c")
      OBVIOUS
    <3>2. l \in Int /\ i \in Int /\ l <= i /\ i <= l
      BY <2>1, <2>2, <2>3, <3>1
    <3> QED BY <3>1, <3>2
  <2>5. argv[i] \in Given
    BY <1>1, <2>1, <2>2
  <2>6. p.config_file # Unset
    BY <2>1, <2>5 DEF Given
  <2> QED BY <1>4, <1>6, <2>1, <2>4, <2>6 DEF FileNamed, HasOption
<1> QED BY <1>5, <1>6

(* What main() has done so far is what the arguments ask for. *)
Obeys ==
    /\ arguments = ArgumentsInit(launch.argv, launch.env, disk.name = "etc")
    /\ arguments.usage <=> rc = 64
    /\ arguments.usage => pc = "exited" /\ source = NoSource /\ signalled = 0
    /\ signalled # 0 \/ pc = "helper" => arguments.special_mode = "reload"
    /\ pc = "control" => arguments.special_mode \notin {"none", "reload"}
    /\ pc \in {"config_init", "spawn", "running"} => arguments.special_mode = "none"

(* Nothing happens before the arguments are read, and then what they say.   *)
DispatchInv ==
    /\ launch \in Launches
    /\ "name" \in DOMAIN disk
    /\ pc = "arguments" => rc = 0 /\ source = NoSource /\ signalled = 0
    /\ pc # "arguments" => Obeys

(* The steps before the choice. *)
LEMMA ChoosingSteps ==
    ASSUME DispatchInv,
           \/ InitArguments \/ LogInit
           \/ \E active \in BOOLEAN : CheckSocket(active)
           \/ \E status \in {0, 1} : SendCommand(status)
    PROVE  DispatchInv'
<1>1. CASE InitArguments
  <2>1. PICK a : a = ArgumentsInit(launch.argv, launch.env, disk.name = "etc")
    OBVIOUS
  <2>2. a.usage \in BOOLEAN
    <3>1. launch.argv \in Seq(Given)
      BY LineFacts DEF DispatchInv
    <3>2. PICK p : p = ArgpParse(launch.argv)
      OBVIOUS
    <3>3. p.usage \in BOOLEAN
      BY <3>1, <3>2, ParsedAsWritten DEF Arguments
    <3> QED BY <2>1, <3>1, <3>2, <3>3, InitFacts
  <2>3. arguments' = a /\ UNCHANGED <<launch, disk, source, signalled>>
    BY <1>1, <2>1 DEF InitArguments, helperVars
  <2>4. rc = 0 /\ source = NoSource /\ signalled = 0
    BY <1>1 DEF InitArguments, DispatchInv
  <2>5. IF a.usage THEN pc' = "exited" /\ rc' = 64 ELSE pc' = "socket" /\ rc' = 0
    BY <1>1, <2>3, <2>4 DEF InitArguments, Exit
  <2>6. Obeys'
    BY <2>1, <2>2, <2>3, <2>4, <2>5 DEF Obeys
  <2> QED BY <2>3, <2>5, <2>6 DEF DispatchInv
<1>2. CASE LogInit
  BY <1>2 DEF LogInit, DispatchInv, Obeys, helperVars
<1>3. ASSUME NEW active \in BOOLEAN, CheckSocket(active) PROVE DispatchInv'
  BY <1>3 DEF CheckSocket, Exit, DispatchInv, Obeys, helperVars
<1>4. ASSUME NEW status \in {0, 1}, SendCommand(status) PROVE DispatchInv'
  BY <1>4 DEF SendCommand, Exit, DispatchInv, Obeys, helperVars
<1> QED BY <1>1, <1>2, <1>3, <1>4

(* The supervisor's part, and the configuration file. *)
LEMMA SupervisingSteps ==
    ASSUME DispatchInv,
           \/ LoadConfig \/ LoadCrashes \/ StartFails
           \/ Spawn \/ Spawned \/ Reload \/ Terminate \/ Exited
           \/ \E o \in Openers : OpenOutput(o)
           \/ \E d \in launch.next : Rewrite(d)
           \/ WriteMore \/ Disturb
    PROVE  DispatchInv'
<1>1. CASE LoadConfig
  <2>1. /\ pc = "config_init" /\ pc' = "spawn"
        /\ UNCHANGED <<launch, rc, arguments, disk, signalled>>
    BY <1>1 DEF LoadConfig, helperVars
  <2> QED BY <2>1 DEF DispatchInv, Obeys
<1>2. CASE Spawn
  <2>1. UNCHANGED <<launch, pc, rc, arguments, source, disk, signalled>>
    BY <1>2 DEF Spawn, helperVars
  <2> QED BY <2>1 DEF DispatchInv, Obeys
<1>3. CASE Spawned
  BY <1>3 DEF Spawned, DispatchInv, Obeys, helperVars
<1>4. CASE Reload
  BY <1>4 DEF Reload, DispatchInv, Obeys, helperVars
<1>5. CASE Terminate \/ StartFails
  BY <1>5 DEF Terminate, StartFails, Leave, Exit, DispatchInv, Obeys, helperVars
<1>7. CASE LoadCrashes
  <2>1. /\ pc = "config_init" /\ pc' = "crashed"
        /\ UNCHANGED <<launch, rc, arguments, disk, signalled>>
    BY <1>7 DEF LoadCrashes, helperVars
  <2> QED BY <2>1 DEF DispatchInv, Obeys
<1>6. ASSUME \/ Exited \/ WriteMore \/ Disturb
             \/ \E o \in Openers : OpenOutput(o)
             \/ \E d \in launch.next : Rewrite(d)
      PROVE  DispatchInv'
  <2>1. UNCHANGED <<mainVars, helperVars>>
    BY <1>6 DEF Exited, WriteMore, Disturb, OpenOutput, Rewrite, vars
  <2>2. \/ disk' = disk
        \/ \E d : disk' = [disk EXCEPT !.doc = d, !.written = 0, !.inside = FALSE]
        \/ disk' = [disk EXCEPT !.written = @ + 1, !.inside = FALSE]
        \/ disk' = [disk EXCEPT !.inside = TRUE]
    BY <1>6 DEF Exited, WriteMore, Disturb, OpenOutput, Rewrite, vars
  <2>3. DOMAIN disk' = DOMAIN disk /\ disk'.name = disk.name
    BY <2>2 DEF DispatchInv
  <2> QED BY <2>1, <2>3 DEF mainVars, helperVars, DispatchInv, Obeys
<1> QED BY <1>1, <1>2, <1>3, <1>4, <1>5, <1>6, <1>7

(* The helper and the processes around it. *)
LEMMA ReloadingSteps ==
    ASSUME DispatchInv, HelperLook \/ HelperSend \/ HelperFails \/ OtherProcess
    PROVE  DispatchInv'
<1>1. CASE HelperLook
  BY <1>1 DEF HelperLook, Look, mainVars, DispatchInv, Obeys
<1>2. CASE HelperSend
  BY <1>2 DEF HelperSend, SendSigusr1, Exit, DispatchInv, Obeys
<1>3. CASE HelperFails
  BY <1>3 DEF HelperFails, Exit, helperVars, DispatchInv, Obeys
<1>4. CASE OtherProcess
  BY <1>4 DEF OtherProcess, Churn, mainVars, DispatchInv, Obeys
<1> QED BY <1>1, <1>2, <1>3, <1>4

(* The invariant holds in every state of every invocation. *)
THEOREM DispatchInvariance == Spec => []DispatchInv
<1>1. Init => DispatchInv
  BY DEF Init, HelperInit, DispatchInv
<1>2. DispatchInv /\ [Next]_vars => DispatchInv'
  <2> SUFFICES ASSUME DispatchInv, [Next]_vars PROVE DispatchInv'
    OBVIOUS
  <2>1. CASE UNCHANGED vars
    BY <2>1 DEF vars, mainVars, helperVars, DispatchInv, Obeys
  <2> QED BY <2>1, ChoosingSteps, SupervisingSteps, ReloadingSteps DEF Next, Main
<1> QED BY <1>1, <1>2, PTL DEF Spec

(* One invocation does what its command line says and nothing else, for     *)
(* every command line, environment and configuration file: the wrong ones   *)
(* end with the usage status before anything is read, created or signalled, *)
(* and the others do what their command, -r or neither asks for (main.c,    *)
(* arguments.c).                                                            *)
THEOREM DispatchesAsWritten == Spec => []DispatchAsWritten
<1>1. DispatchInv => DispatchAsWritten
  <2> SUFFICES ASSUME DispatchInv PROVE DispatchAsWritten
    OBVIOUS
  <2>1. CASE pc = "arguments"
    BY <2>1 DEF DispatchInv, DispatchAsWritten, Loaded
  <2>2. CASE pc # "arguments"
    <3>1. launch \in Launches /\ Obeys
      BY <2>2 DEF DispatchInv
    <3>2. launch.argv \in Seq(Given) /\ (Understood <=> UnderstoodLine(launch.argv))
          /\ \A key : With(key) = At(launch.argv, Len(launch.argv), key)
      BY <3>1, LineFacts
    <3>3. PICK p : p = ArgpParse(launch.argv)
      OBVIOUS
    <3>4. arguments.usage = p.usage /\ arguments.special_mode = p.special_mode
      BY <3>1, <3>2, <3>3, InitFacts DEF Obeys
    <3>5. arguments.usage <=> ~Understood
      BY <3>2, <3>3, <3>4, ParsedAsWritten
    <3>6. Understood =>
            /\ arguments.special_mode = "reload" => HasOption("r") /\ Operands = {}
            /\ arguments.special_mode = "none" => ~HasOption("r") /\ Operands = {}
            /\ arguments.special_mode \notin {"none", "reload"} =>
                  ~HasOption("r") /\ Operands # {}
      BY <3>2, <3>3, <3>4, ModeOfLine DEF HasOption, Operands
    <3>7. Understood => arguments.config_file = FileNamed
      BY <3>1, FileFacts DEF Obeys
    <3> QED BY <3>1, <3>5, <3>6, <3>7 DEF Obeys, DispatchAsWritten, Loaded
  <2> QED BY <2>1, <2>2
<1> QED BY <1>1, DispatchInvariance, PTL

-----------------------------------------------------------------------------
(* The output files: the inductive invariant *)

(* A path that some application of the configuration in force is given. *)
FromConfig(p) ==
    \/ p = DevNull
    \/ \E i \in DOMAIN config.applications : \E s \in {"stdout", "stderr"} :
          LET app == config.applications[i]
          IN  app[s] # Null /\ p = Rendered(app, s)

AllFromConfig(ps) == \E T : ps \in Seq(T) /\ \A p \in T : FromConfig(p)

(* Nobody works on output files unless the supervisor supervises. *)
RestInv == pc \notin {"spawn", "running"} => job = [o \in Openers |-> Idle]

FilesInv ==
    /\ OutputInv(config.ni_create_log_dirs)
    /\ RestInv
    /\ \A o \in Openers : AllFromConfig(job[o].paths)

(* A rendered path is a sequence of names. *)
LEMMA RenderedFacts ==
    ASSUME NEW app, NEW s
    PROVE  \E S : Rendered(app, s) \in Seq(S)
<1> DEFINE format == PartsOf(app[s].text)
           values == [timestamp |-> "now", timestampISO |-> "now",
                      device_name |-> "device", app_name |-> app.name.text, message |-> ""]
           name(i) == RenderPart(format[i], values, Environ)
           S == {name(i) : i \in DOMAIN format}
           piece(i) == IF name(i) = "" THEN <<>> ELSE <<name(i)>>
           pieces == [i \in DOMAIN format |-> piece(i)]
<1>1. \E X : format \in Seq(X)
  <2> DEFINE text == app[s].text
             X == [kind : {"text", "env", "value"}, name : STRING]
  <2>1. CASE text \in DOMAIN Formats
    BY <2>1, StartupAssumption DEF PartsOf
  <2>2. CASE text \notin DOMAIN Formats /\ text = ""
    <3>1. <<>> \in Seq(X)
      BY EmptySeq
    <3> QED BY <2>2, <3>1 DEF PartsOf
  <2>3. CASE text \notin DOMAIN Formats /\ text # ""
    <3> DEFINE part == [kind |-> "text", name |-> text]
    <3>1. <<part>> \in Seq({part})
      OBVIOUS
    <3> QED BY <2>3, <3>1 DEF PartsOf
  <2> QED BY <2>1, <2>2, <2>3
<1> HIDE DEF format
<1>2. DOMAIN format = 1..Len(format) /\ Len(format) \in Nat
  BY <1>1
<1>3. \A i \in DOMAIN format : piece(i) \in Seq(S)
  <2> TAKE i \in DOMAIN format
  <2>1. name(i) \in S
    OBVIOUS
  <2> HIDE DEF S, name
  <2>2. <<>> \in Seq(S) /\ <<name(i)>> \in Seq(S)
    BY <2>1
  <2> QED BY <2>2
<1>4. Rendered(app, s) = FlattenSeq(pieces)
  BY DEF Rendered, Render, format
<1> HIDE DEF S, piece
<1>5. pieces \in Seq(Seq(S))
  BY <1>2, <1>3
<1>6. <<>> \in Seq(S)
  BY EmptySeq
<1> HIDE DEF pieces
<1>7. FlattenSeq(pieces) \in Seq(S)
  BY <1>5, <1>6, FlattenLast
<1> QED BY <1>4, <1>7

(* The child's paths: those of the streams that nobody captures, /dev/null  *)
(* for an empty one.                                                        *)
LEMMA ChildPathsFacts ==
    ASSUME NEW i \in DOMAIN config.applications
    PROVE  /\ AllPaths(ChildPaths(config.applications[i]))
           /\ AllFromConfig(ChildPaths(config.applications[i]))
<1> DEFINE app == config.applications[i]
           Own(s) == IF app[s] # Null /\ ~Captured(app, s)
                       THEN <<RedirectTarget(Rendered(app, s))>> ELSE <<>>
           T == {p \in {RedirectTarget(Rendered(app, "stdout")),
                        RedirectTarget(Rendered(app, "stderr"))} :
                   APath(p) /\ FromConfig(p)}
<1>1. ASSUME NEW s \in {"stdout", "stderr"}
      PROVE  Own(s) \in Seq(T)
  <2> DEFINE r == Rendered(app, s)
  <2>1. CASE app[s] # Null /\ ~Captured(app, s)
    <3>1. APath(RedirectTarget(r))
      <4>1. CASE r = <<>>
        <5>1. DevNull \in Seq({"dev", "null"}) /\ DevNull # <<>>
          BY DEF DevNull
        <5> QED BY <4>1, <5>1 DEF RedirectTarget, APath
      <4>2. CASE r # <<>>
        BY <4>2, RenderedFacts DEF RedirectTarget, APath
      <4> QED BY <4>1, <4>2
    <3>2. FromConfig(RedirectTarget(r))
      BY <2>1 DEF RedirectTarget, FromConfig
    <3>3. RedirectTarget(r) \in T
      BY <3>1, <3>2
    <3> HIDE DEF T
    <3>4. <<RedirectTarget(r)>> \in Seq(T)
      BY <3>3
    <3> QED BY <2>1, <3>4
  <2>2. CASE ~(app[s] # Null /\ ~Captured(app, s))
    <3>1. <<>> \in Seq(T)
      BY EmptySeq
    <3>2. Own(s) = <<>>
      BY <2>2
    <3> QED BY <3>1, <3>2
  <2> QED BY <2>1, <2>2
<1>2. ChildPaths(app) = Own("stdout") \o Own("stderr")
  BY DEF ChildPaths
<1>3. Own("stdout") \in Seq(T) /\ Own("stderr") \in Seq(T)
  BY <1>1
<1>4. \A p \in T : APath(p) /\ FromConfig(p)
  OBVIOUS
<1> HIDE DEF T, Own
<1>5. ChildPaths(app) \in Seq(T)
  BY <1>2, <1>3, ConcatProperties
<1> QED BY <1>4, <1>5 DEF AllPaths, AllFromConfig

(* The paths nanoinit opens itself: those of the streams that it captures. *)
LEMMA ParentPathsFacts ==
    ASSUME NEW i \in DOMAIN config.applications
    PROVE  /\ AllPaths(ParentPaths(config.applications[i]))
           /\ AllFromConfig(ParentPaths(config.applications[i]))
<1> DEFINE app == config.applications[i]
           Own(s) == IF app[s] # Null /\ Captured(app, s)
                       THEN <<Rendered(app, s)>> ELSE <<>>
           T == {p \in {Rendered(app, "stdout"), Rendered(app, "stderr")} :
                   APath(p) /\ FromConfig(p)}
<1>1. ASSUME NEW s \in {"stdout", "stderr"}
      PROVE  Own(s) \in Seq(T)
  <2> DEFINE r == Rendered(app, s)
  <2>1. CASE app[s] # Null /\ Captured(app, s)
    <3>1. r # <<>>
      BY <2>1 DEF Captured
    <3>2. APath(r) /\ FromConfig(r)
      BY <2>1, <3>1, RenderedFacts DEF APath, FromConfig
    <3>3. r \in T
      BY <3>2
    <3> HIDE DEF T
    <3>4. <<r>> \in Seq(T)
      BY <3>3
    <3> QED BY <2>1, <3>4
  <2>2. CASE ~(app[s] # Null /\ Captured(app, s))
    <3>1. <<>> \in Seq(T)
      BY EmptySeq
    <3>2. Own(s) = <<>>
      BY <2>2
    <3> QED BY <3>1, <3>2
  <2> QED BY <2>1, <2>2
<1>2. ParentPaths(app) = Own("stdout") \o Own("stderr")
  BY DEF ParentPaths
<1>3. Own("stdout") \in Seq(T) /\ Own("stderr") \in Seq(T)
  BY <1>1
<1>4. \A p \in T : APath(p) /\ FromConfig(p)
  OBVIOUS
<1> HIDE DEF T, Own
<1>5. ParentPaths(app) \in Seq(T)
  BY <1>2, <1>3, ConcatProperties
<1> QED BY <1>4, <1>5 DEF AllPaths, AllFromConfig

(* Parts of a list of configured paths. *)
LEMMA FromConfigFacts ==
    ASSUME NEW ps, AllFromConfig(ps)
    PROVE  /\ AllFromConfig(<<>>)
           /\ ps # <<>> => FromConfig(Head(ps)) /\ AllFromConfig(Tail(ps))
<1>1. AllFromConfig(<<>>)
  <2>1. <<>> \in Seq({})
    BY EmptySeq
  <2> QED BY <2>1 DEF AllFromConfig
<1>2. PICK T : ps \in Seq(T) /\ \A p \in T : FromConfig(p)
  BY DEF AllFromConfig
<1>3. ps # <<>> => Head(ps) \in T /\ Tail(ps) \in Seq(T)
  BY <1>2, HeadTailProperties
<1> QED BY <1>1, <1>2, <1>3 DEF AllFromConfig

(* An idle opener agrees with everything. *)
LEMMA IdleFacts ==
    /\ JobOK(Idle) /\ Idle.step = "idle" /\ Idle.failed = {} /\ Idle.paths = <<>>
    /\ \A ds, fs : OnTheWayOK(Idle, ds, fs)
<1>1. AllPaths(<<>>)
  <2> DEFINE T == {}
  <2>1. <<>> \in Seq(T) /\ \A p \in T : APath(p)
    BY EmptySeq
  <2> HIDE DEF T
  <2> QED BY <2>1 DEF AllPaths
<1>2. \A f \in {} : f.create = FALSE
  OBVIOUS
<1>3. Idle.step = "idle"
  BY DEF Idle, BeginPath
<1> DEFINE none == <<>>
           nothing == {}
           no == FALSE
<1>4. AllPaths(none) /\ \A f \in nothing : f.create = no
  BY <1>1, <1>2
<1>5. Idle = BeginPath(none, no, nothing)
  BY DEF Idle
<1> HIDE DEF none, nothing, no
<1>6. /\ JobOK(Idle) /\ Idle.failed = nothing /\ Idle.paths = none
      /\ \A ds, fs : OnTheWayOK(Idle, ds, fs)
  BY <1>4, <1>5, BeginFacts
<1> QED BY <1>3, <1>6 DEF none, nothing

(* Nobody at work. *)
LEMMA AllIdle ==
    ASSUME TreeOK, job = [o \in Openers |-> Idle], NEW create
    PROVE  OutputInv(create) /\ \A o \in Openers : AllFromConfig(job[o].paths)
<1>1. \A o \in Openers : job[o] = Idle
  OBVIOUS
<1>2. JobsOK
  BY <1>1, IdleFacts DEF JobsOK
<1>3. FlagOK(create)
  BY <1>1, IdleFacts DEF FlagOK
<1>4. WorkOK
  BY <1>1, IdleFacts DEF WorkOK
<1>5. AllFromConfig(<<>>)
  <2> DEFINE T == {}
  <2>1. <<>> \in Seq(T) /\ \A p \in T : FromConfig(p)
    BY EmptySeq
  <2> HIDE DEF T
  <2> QED BY <2>1 DEF AllFromConfig
<1> QED BY <1>1, <1>2, <1>3, <1>4, <1>5, IdleFacts DEF OutputInv

-----------------------------------------------------------------------------
(* The output files: the steps *)

(* A step that leaves the files, the openers and the configuration alone. *)
LEMMA FilesKept ==
    ASSUME FilesInv, UNCHANGED <<outputVars, config>>, RestInv'
    PROVE  FilesInv'
<1>1. OutputInv(config.ni_create_log_dirs)'
  BY DEF FilesInv, OutputInv, JobsOK, FlagOK, WorkOK, TreeOK, outputVars
<1>2. \A o \in Openers : AllFromConfig(job[o].paths)'
  <2> TAKE o \in Openers
  <2>1. AllFromConfig(job'[o].paths) /\ UNCHANGED config
    BY DEF FilesInv, outputVars
  <2> QED BY <2>1 DEF AllFromConfig, FromConfig
<1> QED BY <1>1, <1>2 DEF FilesInv

(* A step after which nobody is at work. *)
LEMMA FilesIdle ==
    ASSUME FilesInv, UNCHANGED <<dirs, files, removals>>, job' = [o \in Openers |-> Idle]
    PROVE  FilesInv'
<1>1. \A o \in Openers : job'[o] = Idle
  OBVIOUS
<1>2. JobsOK'
  BY <1>1, IdleFacts DEF JobsOK
<1>3. FlagOK(config.ni_create_log_dirs)'
  BY <1>1, IdleFacts DEF FlagOK
<1>4. WorkOK'
  BY <1>1, IdleFacts DEF WorkOK
<1>5. TreeOK'
  BY DEF FilesInv, OutputInv, TreeOK
<1>6. AllFromConfig(<<>>)'
  <2> DEFINE T == {}
  <2>1. <<>> \in Seq(T) /\ \A p \in T : FromConfig(p)'
    BY EmptySeq
  <2> HIDE DEF T
  <2> QED BY <2>1 DEF AllFromConfig
<1>7. \A o \in Openers : AllFromConfig(job[o].paths)'
  BY <1>1, <1>6, IdleFacts
<1> QED BY <1>2, <1>3, <1>4, <1>5, <1>7 DEF FilesInv, OutputInv, RestInv

(* The application that is spawned, and nanoinit for it, are given paths of *)
(* the configuration and its flag.                                          *)
LEMMA SpawnFiles ==
    ASSUME FilesInv, Spawn
    PROVE  FilesInv'
<1> DEFINE app == config.applications[spawning]
           c == config.ni_create_log_dirs
           child == BeginPath(ChildPaths(app), c, {})
           parent == BeginPath(ParentPaths(app), c, job[0].failed)
<1>1. /\ spawning \in DOMAIN config.applications /\ pc = "spawn"
      /\ UNCHANGED <<pc, config, dirs, files, removals>>
      /\ job' = IF ~app.autostart THEN job
                ELSE [job EXCEPT ![spawning] = child, ![0] = parent]
  BY DEF Spawn
<1>2. 0 \in Openers /\ job = [o \in Openers |-> job[o]]
      /\ \A f \in job[0].failed : f.create = c
  <2>1. 0 \in Openers /\ job = [o \in Openers |-> job[o]] /\ JobOK(job[0])
    BY OutputPathAssumption DEF FilesInv, OutputInv, JobsOK
  <2>2. job[0].failed # {} => job[0].create = c
    BY <2>1 DEF FilesInv, OutputInv, FlagOK
  <2> QED BY <2>1, <2>2 DEF JobOK
<1>3. /\ JobOK(child) /\ child.create = c /\ child.failed = {}
      /\ child.paths = ChildPaths(app)
      /\ \A ds, fs : OnTheWayOK(child, ds, fs)
  <2> DEFINE none == {}
             ps == ChildPaths(app)
  <2>1. AllPaths(ps) /\ \A f \in none : f.create = c
    BY <1>1, ChildPathsFacts
  <2>2. child = BeginPath(ps, c, none)
    OBVIOUS
  <2> HIDE DEF none, ps, c, child
  <2>3. /\ JobOK(child) /\ child.create = c /\ child.failed = none /\ child.paths = ps
        /\ \A ds, fs : OnTheWayOK(child, ds, fs)
    BY <2>1, <2>2, BeginFacts
  <2> QED BY <2>3 DEF none, ps
<1>4. /\ JobOK(parent) /\ parent.create = c /\ parent.failed = job[0].failed
      /\ parent.paths = ParentPaths(app)
      /\ \A ds, fs : OnTheWayOK(parent, ds, fs)
  <2> DEFINE fl == job[0].failed
             ps == ParentPaths(app)
  <2>1. AllPaths(ps) /\ \A f \in fl : f.create = c
    BY <1>1, <1>2, ParentPathsFacts
  <2> HIDE DEF fl, ps, c
  <2>2. parent = BeginPath(ps, c, fl)
    BY DEF fl, ps
  <2> HIDE DEF parent
  <2>3. /\ JobOK(parent) /\ parent.create = c /\ parent.failed = fl /\ parent.paths = ps
        /\ \A ds, fs : OnTheWayOK(parent, ds, fs)
    BY <2>1, <2>2, BeginFacts
  <2> QED BY <2>3 DEF fl, ps
<1>5. AllFromConfig(child.paths) /\ AllFromConfig(parent.paths)
  BY <1>1, <1>3, <1>4, ChildPathsFacts, ParentPathsFacts
<1> HIDE DEF child, parent
<1>6. job' = [o \in Openers |-> job'[o]]
      /\ \A o \in Openers : job'[o] \in {job[o], child, parent}
  BY <1>1, <1>2
<1>7. JobsOK'
  BY <1>3, <1>4, <1>6 DEF FilesInv, OutputInv, JobsOK
<1>8. FlagOK(c)'
  BY <1>1, <1>3, <1>4, <1>6 DEF FilesInv, OutputInv, FlagOK
<1>9. WorkOK'
  <2> SUFFICES ASSUME removals = 0, NEW o \in Openers
               PROVE  /\ OnTheWayOK(job'[o], dirs, files)
                      /\ \A f \in job'[o].failed : FailureOK(f, dirs, files)
    BY <1>1 DEF WorkOK
  <2>1. \A q \in Openers : /\ OnTheWayOK(job[q], dirs, files)
                           /\ \A f \in job[q].failed : FailureOK(f, dirs, files)
    BY DEF FilesInv, OutputInv, WorkOK
  <2> QED BY <1>2, <1>3, <1>4, <1>6, <2>1
<1>10. TreeOK'
  BY <1>1 DEF FilesInv, OutputInv, TreeOK
<1>11. \A o \in Openers : AllFromConfig(job[o].paths)'
  <2> TAKE o \in Openers
  <2>1. AllFromConfig(job'[o].paths)
    BY <1>5, <1>6 DEF FilesInv
  <2> QED BY <1>1, <2>1 DEF AllFromConfig, FromConfig
<1>12. RestInv'
  BY <1>1 DEF RestInv
<1> QED BY <1>7, <1>8, <1>9, <1>10, <1>11, <1>12 DEF FilesInv, OutputInv

(* A step of an opener. *)
LEMMA OpenerFiles ==
    ASSUME FilesInv, NEW o \in Openers, OpenOutput(o)
    PROVE  FilesInv'
<1>1. pc \in {"spawn", "running"} /\ OutputStep(o) /\ UNCHANGED <<pc, config>>
  BY DEF OpenOutput, mainVars
<1>2. PICK c : c = config.ni_create_log_dirs
  OBVIOUS
<1>3. OutputInv(c)
  BY <1>2 DEF FilesInv
<1>4. OutputInv(c)'
  BY <1>1, <1>3, MkdirStep, StatStep, OpenStep DEF OutputStep
<1>5. OutputInv(config.ni_create_log_dirs)'
  BY <1>1, <1>2, <1>4 DEF OutputInv, FlagOK
<1>6. ASSUME NEW q \in Openers PROVE AllFromConfig(job[q].paths)'
  <2>1. AllFromConfig(job[q].paths)
    BY DEF FilesInv
  <2>2. AllFromConfig(job'[q].paths)
    BY <1>1, <1>3, <2>1, PathsShrink, FromConfigFacts
  <2> QED BY <1>1, <2>2 DEF AllFromConfig, FromConfig
<1> QED BY <1>1, <1>5, <1>6 DEF FilesInv, RestInv

(* Somebody else removes something. *)
LEMMA DisturbFiles ==
    ASSUME FilesInv, Disturb
    PROVE  FilesInv'
<1>1. PICK p : RemovePath(p)
  BY DEF Disturb
<1>2. pc = "running" /\ UNCHANGED <<pc, config, job>>
  BY <1>1 DEF Disturb, mainVars, RemovePath
<1>3. PICK c : c = config.ni_create_log_dirs
  OBVIOUS
<1>4. OutputInv(c)'
  BY <1>1, <1>3, RemoveStep DEF FilesInv
<1>5. OutputInv(config.ni_create_log_dirs)'
  BY <1>2, <1>3, <1>4 DEF OutputInv, FlagOK
<1>6. \A q \in Openers : AllFromConfig(job[q].paths)'
  <2> TAKE q \in Openers
  <2>1. AllFromConfig(job'[q].paths)
    BY <1>2 DEF FilesInv
  <2> QED BY <1>2, <2>1 DEF AllFromConfig, FromConfig
<1> QED BY <1>2, <1>5, <1>6 DEF FilesInv, RestInv

(* The invariant is kept. *)
LEMMA FilesStep ==
    ASSUME FilesInv, [Next]_vars
    PROVE  FilesInv'
<1>1. CASE InitArguments
  BY <1>1, FilesKept DEF InitArguments, Exit, FilesInv, RestInv, outputVars
<1>2. CASE LogInit
  BY <1>2, FilesKept DEF LogInit, FilesInv, RestInv, outputVars
<1>3. ASSUME NEW active \in BOOLEAN, CheckSocket(active) PROVE FilesInv'
  BY <1>3, FilesKept DEF CheckSocket, Exit, FilesInv, RestInv, outputVars
<1>4. ASSUME NEW status \in {0, 1}, SendCommand(status) PROVE FilesInv'
  BY <1>4, FilesKept DEF SendCommand, Exit, FilesInv, RestInv, outputVars
<1>5. CASE HelperLook
  BY <1>5, FilesKept DEF HelperLook, mainVars, FilesInv, RestInv, outputVars
<1>6. CASE HelperSend
  BY <1>6, FilesKept DEF HelperSend, Exit, FilesInv, RestInv, outputVars
<1>7. CASE HelperFails
  BY <1>7, FilesKept DEF HelperFails, Exit, FilesInv, RestInv, outputVars
<1>8. CASE LoadConfig
  <2>1. job' = [o \in Openers |-> Idle] /\ UNCHANGED <<dirs, files, removals>>
    BY <1>8 DEF LoadConfig, FilesInv, RestInv, outputVars
  <2> QED BY <2>1, FilesIdle
<1>9. CASE Spawn
  BY <1>9, SpawnFiles
<1>10. CASE Spawned
  BY <1>10, FilesKept DEF Spawned, FilesInv, RestInv, outputVars
<1>11. ASSUME NEW o \in Openers, OpenOutput(o) PROVE FilesInv'
  BY <1>11, OpenerFiles
<1>12. CASE Reload
  BY <1>12, FilesIdle DEF Reload
<1>13. CASE Terminate \/ StartFails
  BY <1>13, FilesIdle DEF Terminate, StartFails, Leave
<1>14. ASSUME NEW d \in launch.next, Rewrite(d) PROVE FilesInv'
  BY <1>14, FilesKept DEF Rewrite, mainVars, FilesInv, RestInv, outputVars
<1>15. CASE WriteMore
  BY <1>15, FilesKept DEF WriteMore, mainVars, FilesInv, RestInv, outputVars
<1>16. CASE Disturb
  BY <1>16, DisturbFiles
<1>17. CASE OtherProcess
  BY <1>17, FilesKept DEF OtherProcess, mainVars, FilesInv, RestInv, outputVars
<1>18. CASE UNCHANGED vars
  BY <1>18, FilesKept DEF vars, mainVars, FilesInv, RestInv, outputVars
<1>19. CASE LoadCrashes
  BY <1>19, FilesKept DEF LoadCrashes, FilesInv, RestInv, outputVars
<1> QED
  BY <1>1, <1>2, <1>3, <1>4, <1>5, <1>6, <1>7, <1>8, <1>9, <1>10, <1>11, <1>12, <1>13,
     <1>14, <1>15, <1>16, <1>17, <1>18, <1>19 DEF Next, Main, Exited

(* Only an opener that makes directories for the configuration in force     *)
(* makes one, and only above an output file of it.                          *)
LEMMA NewDirectory ==
    ASSUME FilesInv, [Next]_vars, NEW d \in dirs' \ dirs
    PROVE  config.ni_create_log_dirs /\ OnTheWay(d)
<1>1. PICK o \in Openers : OpenOutput(o)
  <2>1. CASE InitArguments \/ LogInit \/ HelperLook \/ HelperSend \/ HelperFails
    BY <2>1 DEF InitArguments, LogInit, HelperLook, HelperSend, HelperFails, outputVars
  <2>2. CASE \/ \E active \in BOOLEAN : CheckSocket(active)
             \/ \E status \in {0, 1} : SendCommand(status)
    BY <2>2 DEF CheckSocket, SendCommand, outputVars
  <2>3. CASE LoadConfig \/ LoadCrashes \/ StartFails \/ Spawn \/ Spawned \/ Reload \/ Terminate
    BY <2>3 DEF LoadConfig, LoadCrashes, StartFails, Spawn, Spawned, Reload, Terminate,
                Leave, outputVars
  <2>4. CASE (\E e \in launch.next : Rewrite(e)) \/ WriteMore \/ OtherProcess
    BY <2>4 DEF Rewrite, WriteMore, OtherProcess, outputVars
  <2>5. CASE Disturb
    BY <2>5 DEF Disturb, RemovePath
  <2>6. CASE Exited \/ UNCHANGED vars
    BY <2>6 DEF Exited, vars, outputVars
  <2> QED BY <2>1, <2>2, <2>3, <2>4, <2>5, <2>6 DEF Next, Main
<1> DEFINE p == Path(o)
           n == job[o].depth
<1>2. Mkdir(o) /\ d = Ancestor(o)
  BY <1>1 DEF OpenOutput, OutputStep, Mkdir, Stat, Open
<1>3. /\ JobOK(job[o]) /\ job[o].step = "mkdir" /\ APath(p) /\ job[o].create
      /\ n \in Nat \ {0} /\ n < Len(p) /\ d = SubSeq(p, 1, n) /\ job[o].paths # <<>>
  BY <1>2, PathsFacts DEF FilesInv, OutputInv, JobsOK, JobOK, Path, Mkdir, Ancestor
<1>4. n <= Len(p) /\ Len(p) \in Nat
  <2>1. Len(p) \in Nat
    BY <1>3 DEF APath
  <2> HIDE DEF p, n
  <2> QED BY <1>3, <2>1
<1>5. IsStrictPrefix(d, p)
  <2> HIDE DEF p, n
  <2> QED BY <1>3, <1>4, AncestorFacts
<1>6. config.ni_create_log_dirs
  <2>1. job[o].create = config.ni_create_log_dirs
    BY <1>3 DEF FilesInv, OutputInv, FlagOK
  <2> QED BY <1>3, <2>1
<1>7. FromConfig(p)
  BY <1>3, FromConfigFacts DEF FilesInv, Path
<1>8. p # DevNull
  <2> SUFFICES ASSUME p = DevNull PROVE FALSE
    OBVIOUS
  <2>1. Len(DevNull) = 2 /\ SubSeq(DevNull, 1, 1) = <<"dev">>
    <3>1. Len(DevNull) = 2 /\ DevNull[1] = "dev"
      BY DEF DevNull
    <3> DEFINE a == SubSeq(DevNull, 1, 1)
               b == <<"dev">>
    <3>2. a \in Seq({"dev"}) /\ Len(a) = 1 /\ \A i \in 1..1 : a[i] = DevNull[1 + i - 1]
      BY <3>1, SubSeqProperties
    <3>3. b \in Seq({"dev"}) /\ Len(b) = 1 /\ b[1] = "dev"
      OBVIOUS
    <3> HIDE DEF a, b
    <3>4. a[1] = "dev"
      BY <3>1, <3>2
    <3>5. a = b
      BY <3>2, <3>3, <3>4, SeqEqual
    <3> QED BY <3>1, <3>5 DEF a, b
  <2> HIDE DEF p, n
  <2>2. n = 1
    BY <1>3, <2>1
  <2>3. d = <<"dev">>
    BY <1>3, <2>1, <2>2
  <2> QED BY <2>3 DEF FilesInv, OutputInv, TreeOK
<1>9. OnTheWay(d)
  BY <1>5, <1>7, <1>8 DEF FromConfig, OnTheWay
<1> QED BY <1>6, <1>9

-----------------------------------------------------------------------------
(* The output files: the theorems *)

(* The invariant holds in every state of every invocation. *)
THEOREM FilesInvariance == Spec => []FilesInv
<1>1. Init => FilesInv
  <2> SUFFICES ASSUME Init PROVE FilesInv
    OBVIOUS
  <2>1. OutputInit(launch.obstacles) /\ <<"dev">> \notin launch.obstacles
    BY StartupAssumption DEF Init
  <2>2. TreeOK
    <3>1. <<"dev">> # DevNull
      BY DEF DevNull
    <3> QED BY <2>1, <3>1 DEF OutputInit, TreeOK
  <2>3. job = [o \in Openers |-> Idle]
    BY <2>1 DEF OutputInit
  <2>4. PICK c : c = config.ni_create_log_dirs
    OBVIOUS
  <2> QED BY <2>2, <2>3, <2>4, AllIdle DEF FilesInv, RestInv
<1> QED BY <1>1, FilesStep, PTL DEF Spec

(* As long as nobody else removes anything, an output file is only not      *)
(* opened for the reasons that OpensUnlessHindered lists, however many      *)
(* processes create directories and open files at the same time             *)
(* (output_path.c).                                                         *)
THEOREM OpensOrExplains == Spec => []OpensUnlessHindered
<1>1. FilesInv => OpensUnlessHindered
  <2> SUFFICES ASSUME FilesInv PROVE OpensUnlessHindered
    OBVIOUS
  <2>1. PICK c : c = config.ni_create_log_dirs
    OBVIOUS
  <2> QED BY <2>1, OutputInvImplies DEF FilesInv
<1> QED BY <1>1, FilesInvariance, PTL

(* No directory is made that the configuration in force does not ask for,   *)
(* whatever reloads went before.                                            *)
THEOREM DirectoriesAsConfigured == Spec => DirsOnlyAsConfigured
<1>1. FilesInv /\ [Next]_vars =>
        [\A d \in dirs' \ dirs : config.ni_create_log_dirs /\ OnTheWay(d)]_vars
  BY NewDirectory
<1> QED BY <1>1, FilesInvariance, PTL DEF Spec, DirsOnlyAsConfigured

-----------------------------------------------------------------------------
(* The configuration: the inductive invariant *)

(* The configuration file is there, up to some point. *)
DiskOK ==
    /\ DOMAIN disk = {"name", "doc", "written", "inside"}
    /\ disk.doc \in DOMAIN Documents
    /\ disk.written \in 0..Len(Documents[disk.doc])
    /\ disk.inside \in BOOLEAN
    /\ disk.inside => disk.written < Len(Documents[disk.doc])

(* The configuration has its fields, and every application in it its own    *)
(* and a path.                                                              *)
ConfigInv == ConfigOK(config) /\ Complete(config)

(* The format of NI_LOG_FORMAT is the one in force, if there is one.        *)
(* Otherwise it is the one of the configuration in force, as soon as there  *)
(* is one.                                                                  *)
LoggerInv ==
    /\ DOMAIN logger = {"from_env", "format", "file"}
    /\ pc \in {"config_init", "spawn", "running"} =>
         /\ logger.from_env <=> launch.env.log_format # Null
         /\ logger.from_env => logger.format = launch.env.log_format
    /\ Loaded /\ ~logger.from_env =>
         logger.format = IF config.ni_log_format # Null THEN config.ni_log_format
                                                        ELSE DefaultFormat

(* main() is at one of its calls and within the bounds. *)
RangeInv ==
    /\ launch \in Launches
    /\ pc \in {"arguments", "socket", "log_init", "control", "helper", "config_init",
               "spawn", "running", "exited", "crashed"}
    /\ rc \in {0, 1, 64, 255}
    /\ removals \in 0..MaxRemovals
    /\ reloads \in 0..MaxReloads

(* What main() knows after each of its calls. *)
MainInv == RangeInv /\ DiskOK /\ ConfigInv /\ LoggerInv

(* The beginning of a token is at most one token, unless it leads the       *)
(* parser behind the content.                                               *)
LEMMA InsideFacts ==
    ASSUME NEW token, NEW rest \in InsideOf(token)
    PROVE  /\ \E T : rest \in Seq(T)
           /\ ~LeavesContent(token) => Len(rest) <= 1
<1>1. \/ rest = <<>> \/ \E x : rest = <<x>>
      \/ LeavesContent(token) /\ \E x : \E tokens \in Behind : rest = <<x>> \o tokens
  <2>1. CASE token.t = "string"
    <3>1. PICK x, y : InsideOf(token) = Leaving(x) \cup Leaving(y)
      BY <2>1 DEF InsideOf
    <3> QED BY <2>1, <3>1 DEF Leaving, LeavesContent
  <2>2. CASE token.t = "int"
    <3>1. PICK x, zero : x = [token EXCEPT !.t = "double"] /\ zero = [token EXCEPT !.v = 0]
      OBVIOUS
    <3>2. InsideOf(token) = {<<x>>} \cup IF LeavesContent(token) THEN Leaving(zero) ELSE {}
      BY <2>2, <3>1 DEF InsideOf
    <3>3. rest = <<x>> \/ (LeavesContent(token) /\ rest \in Leaving(zero))
      BY <3>2
    <3> QED BY <3>3 DEF Leaving
  <2>3. CASE token.t = "double"
    <3>1. rest = <<token>> \/ rest \in Leaving(token)
      BY <2>3 DEF InsideOf
    <3> QED BY <2>3, <3>1 DEF Leaving, LeavesContent
  <2>4. CASE token.t \in {"bool", "null"}
    BY <2>4 DEF InsideOf
  <2>5. CASE token.t = "comment"
    BY <2>5 DEF InsideOf
  <2>6. CASE token.t \notin {"string", "int", "double", "bool", "null", "comment"}
    BY <2>6 DEF InsideOf
  <2> QED BY <2>1, <2>2, <2>3, <2>4, <2>5, <2>6
<1>2. CASE rest = <<>>
  <2>1. PICK T : T = {rest}
    OBVIOUS
  <2>2. rest \in Seq(T) /\ Len(rest) <= 1
    BY <1>2
  <2> QED BY <2>2
<1>3. ASSUME NEW x, rest = <<x>>
      PROVE  rest \in Seq({x}) /\ Len(rest) <= 1
  BY <1>3
<1>4. ASSUME NEW x, NEW tokens \in Behind, rest = <<x>> \o tokens
      PROVE  \E T : rest \in Seq(T)
  <2>1. PICK U : tokens \in Seq(U)
    BY EdJSONAssumption DEF IsTokens
  <2> DEFINE T == U \cup {x}
  <2>2. U \subseteq T /\ x \in T
    OBVIOUS
  <2> HIDE DEF T
  <2>3. tokens \in Seq(T) /\ <<x>> \in Seq(T)
    BY <2>1, <2>2, SeqMonotone
  <2>4. rest \in Seq(T)
    BY <1>4, <2>3, ConcatProperties
  <2> QED BY <2>4
<1> QED BY <1>1, <1>2, <1>3, <1>4

(* Some tokens that follow the first m of a file. *)
LEMMA FollowedFacts ==
    ASSUME NEW S, NEW doc \in Seq(S), NEW m \in 0..Len(doc), NEW T, NEW rest \in Seq(T),
           NEW all, all = SubSeq(doc, 1, m) \o rest
    PROVE  /\ Len(all) \in Nat /\ Len(all) = m + Len(rest)
           /\ \A i \in 1..m : all[i] = doc[i]
<1> DEFINE front == SubSeq(doc, 1, m)
           U == S \cup T
<1>1. /\ Len(doc) \in Nat /\ DOMAIN doc = 1..Len(doc)
      /\ \A i \in 1..Len(doc) : doc[i] \in S
  OBVIOUS
<1>2. front \in Seq(U) /\ Len(front) = m /\ \A i \in 1..m : front[i] = doc[i]
  <2>1. front = [i \in 1..m |-> doc[i]]
    BY <1>1
  <2>2. m \in Nat /\ \A i \in 1..m : doc[i] \in U
    BY <1>1
  <2> HIDE DEF front, U
  <2> QED BY <2>1, <2>2
<1>3. rest \in Seq(U)
  <2>1. T \subseteq U
    OBVIOUS
  <2> HIDE DEF U
  <2> QED BY <2>1, SeqMonotone
<1>4. all = front \o rest
  OBVIOUS
<1> HIDE DEF front, U
<1>5. /\ Len(all) = m + Len(rest)
      /\ \A i \in 1..m : all[i] = doc[i]
  BY <1>2, <1>3, <1>4
<1>6. Len(rest) \in Nat /\ m \in Nat
  OBVIOUS
<1> QED BY <1>5, <1>6

(* What the parser is given is the file as far as it is written, with at    *)
(* most a part of one more token, unless its end leads the parser behind    *)
(* the content.                                                             *)
OfTheFile(content) ==
    /\ Len(content) <= disk.written + 1
    /\ \A i \in 1..disk.written - 1 : content[i] = Documents[disk.doc][i]

(* Every content that config_init() may find is finite, and is that of the  *)
(* file unless the end leads behind it.                                     *)
LEMMA WrittenFacts ==
    ASSUME DiskOK, NEW content \in Written
    PROVE  Len(content) \in Nat /\ (~Beyond => OfTheFile(content))
<1>1. PICK doc : doc = Documents[disk.doc]
  OBVIOUS
<1>2. PICK n : n = disk.written
  OBVIOUS
<1> DEFINE S == {doc[i] : i \in DOMAIN doc}
<1>3. doc \in Seq(S) /\ n \in 0..Len(doc) /\ (disk.inside => n < Len(doc))
  BY <1>1, <1>2, StartupAssumption DEF DiskOK, IsTokens
<1>4. content \in CutAt(doc, n, disk.inside)
  BY <1>1, <1>2 DEF Written
<1> HIDE DEF S
<1>5. Len(doc) \in Nat /\ n \in Nat
  BY <1>3
<1>6. OfTheFile(content) <=> Len(content) <= n + 1 /\ \A i \in 1..n - 1 : content[i] = doc[i]
  BY <1>1, <1>2 DEF OfTheFile
<1>7. CASE disk.inside
  <2>1. PICK rest \in InsideOf(doc[n + 1]) : content = SubSeq(doc, 1, n) \o rest
    BY <1>4, <1>7 DEF CutAt
  <2>2. PICK T : rest \in Seq(T)
    BY <2>1, InsideFacts
  <2>3. /\ Len(content) \in Nat /\ Len(content) = n + Len(rest)
        /\ \A i \in 1..n : content[i] = doc[i]
    BY <1>3, <2>1, <2>2, FollowedFacts
  <2>4. ~Beyond => Len(rest) <= 1
    BY <1>1, <1>2, <1>7, <2>1, InsideFacts DEF Beyond
  <2>5. Len(rest) \in Nat
    BY <2>2
  <2>6. \A i \in 1..n - 1 : i \in 1..n
    BY <1>5
  <2>7. Len(rest) <= 1 => Len(content) <= n + 1
    BY <1>5, <2>3, <2>5
  <2> QED BY <1>6, <2>3, <2>4, <2>6, <2>7
<1>8. CASE ~disk.inside /\ n = 0
  <2>1. content = <<>>
    BY <1>4, <1>8 DEF CutAt
  <2>2. Len(content) = 0
    BY <2>1
  <2>3. \A i \in 1..n - 1 : FALSE
    BY <1>8
  <2> QED BY <1>6, <1>8, <2>2, <2>3
<1>9. CASE ~disk.inside /\ n # 0
  <2>1. PICK x : x = LastOf(doc[n])
    OBVIOUS
  <2>2. content = SubSeq(doc, 1, n - 1) \o <<x>>
    BY <1>4, <1>9, <2>1 DEF CutAt
  <2>3. PICK rest : rest = <<x>>
    OBVIOUS
  <2>4. rest \in Seq({x}) /\ Len(rest) = 1 /\ n - 1 \in 0..Len(doc)
    BY <1>3, <1>5, <1>9, <2>3
  <2>5. PICK T : rest \in Seq(T)
    BY <2>4
  <2>6. PICK m \in 0..Len(doc) : m = n - 1
    BY <2>4
  <2>7. /\ Len(content) \in Nat /\ Len(content) = m + Len(rest)
        /\ \A i \in 1..m : content[i] = doc[i]
    BY <1>3, <2>2, <2>3, <2>5, <2>6, FollowedFacts
  <2>8. Len(content) <= n + 1
    BY <1>5, <2>4, <2>6, <2>7
  <2> QED BY <1>6, <2>6, <2>7, <2>8
<1> QED BY <1>7, <1>8, <1>9

(* The environment rewrites the file. *)
LEMMA DiskSteps ==
    ASSUME MainInv, (\E d \in launch.next : Rewrite(d)) \/ WriteMore
    PROVE  DiskOK'
<1>1. ASSUME NEW d \in launch.next, Rewrite(d) PROVE DiskOK'
  <2>1. d \in DOMAIN Documents
    BY <1>1, StartupAssumption DEF MainInv, RangeInv
  <2>2. Len(Documents[d]) \in Nat
    BY <2>1, StartupAssumption DEF IsTokens
  <2>3. disk' = [disk EXCEPT !.doc = d, !.written = 0, !.inside = FALSE]
    BY <1>1 DEF Rewrite
  <2>4. /\ DOMAIN disk' = DOMAIN disk /\ disk'.doc = d /\ disk'.written = 0
        /\ disk'.inside = FALSE
    BY <2>3 DEF MainInv, DiskOK
  <2>5. disk'.written \in 0..Len(Documents[d])
    BY <2>2, <2>4
  <2> QED BY <2>1, <2>4, <2>5 DEF MainInv, DiskOK
<1>2. CASE WriteMore
  <2> DEFINE n == Len(Documents[disk.doc])
  <2>1. n \in Nat
    BY StartupAssumption DEF MainInv, DiskOK, IsTokens
  <2>2. disk.written \in 0..n /\ disk.written # n
    BY <1>2 DEF WriteMore, Whole, MainInv, DiskOK
  <2>3. disk.written + 1 \in 0..n /\ disk.written < n
    BY <2>1, <2>2
  <2>4. CASE disk.inside
    <3>1. disk' = [disk EXCEPT !.written = @ + 1, !.inside = FALSE]
      BY <1>2, <2>4 DEF WriteMore
    <3>2. /\ DOMAIN disk' = DOMAIN disk /\ disk'.doc = disk.doc
          /\ disk'.written = disk.written + 1 /\ disk'.inside = FALSE
      BY <3>1 DEF MainInv, DiskOK
    <3> QED BY <2>3, <3>2 DEF MainInv, DiskOK
  <2>5. CASE ~disk.inside
    <3>1. disk' = [disk EXCEPT !.inside = TRUE]
      BY <1>2, <2>5 DEF WriteMore
    <3>2. /\ DOMAIN disk' = DOMAIN disk /\ disk'.doc = disk.doc
          /\ disk'.written = disk.written /\ disk'.inside = TRUE
      BY <3>1 DEF MainInv, DiskOK
    <3> QED BY <2>3, <3>2 DEF MainInv, DiskOK
  <2> QED BY <2>4, <2>5
<1> QED BY <1>1, <1>2

(* A configuration that is freed. *)
LEMMA FreedFacts ==
    ASSUME NEW c, ConfigOK(c)
    PROVE  ConfigOK(ConfigFree(c)) /\ Complete(ConfigFree(c))
<1> DEFINE free == ConfigFree(c)
<1>1. DOMAIN free = DOMAIN c /\ free.applications = <<>>
  BY DEF ConfigFree, ConfigOK
<1> HIDE DEF free
<1>2. ConfigOK(free)
  BY <1>1, ZeroOK DEF ConfigOK
<1>3. Complete(free)
  BY <1>1 DEF Complete
<1> QED BY <1>2, <1>3 DEF free

(* What config_init() loads does not depend on what was loaded before, and, *)
(* unless the end of the file leads the parser behind the content, on       *)
(* nothing but the file.                                                    *)
LoadedAfresh ==
    LoadConfig =>
        /\ arguments.config_file # disk.name => config' = ZeroConfig
        /\ arguments.config_file = disk.name =>
              \E content \in Written :
                 /\ config' \in ConfigInit(ZeroConfig, content,
                                          Objects[arguments.config_json_object])
                 /\ ~Beyond => OfTheFile(content)

(* config_init() *)
LEMMA LoadFacts ==
    ASSUME MainInv, LoadConfig
    PROVE  ConfigOK(config') /\ Complete(config') /\ LoadedAfresh
<1>1. ConfigOK(config)
  BY DEF MainInv, ConfigInv
<1>2. PICK before : before = config
  OBVIOUS
<1>3. PICK object : object = Objects[arguments.config_json_object]
  OBVIOUS
<1>4. ASSUME NEW tokens, Len(tokens) \in Nat
      PROVE  /\ \A c \in ConfigInit(before, tokens, object) : ConfigOK(c) /\ Complete(c)
             /\ ConfigInit(before, tokens, object) = ConfigInit(ZeroConfig, tokens, object)
             /\ ConfigInitNoFile(before) = ZeroConfig
  BY <1>1, <1>2, <1>4, ConfigInitOK
<1>5. CASE arguments.config_file = disk.name
  <2>1. PICK content \in Written : config' \in ConfigInit(before, content, object)
    BY <1>2, <1>3, <1>5 DEF LoadConfig
  <2>2. Len(content) \in Nat /\ (~Beyond => OfTheFile(content))
    BY WrittenFacts DEF MainInv
  <2>3. /\ ConfigOK(config') /\ Complete(config')
        /\ config' \in ConfigInit(ZeroConfig, content, object)
    BY <1>4, <2>1, <2>2
  <2> QED BY <1>3, <1>5, <2>2, <2>3 DEF LoadedAfresh
<1>6. CASE arguments.config_file # disk.name
  <2>1. ConfigInitNoFile(before) = ZeroConfig
    <3>1. PICK tokens : tokens = <<>>
      OBVIOUS
    <3>2. Len(tokens) \in Nat
      BY <3>1
    <3> QED BY <1>4, <3>2
  <2>2. config' = ZeroConfig
    BY <1>2, <1>6, <2>1 DEF LoadConfig
  <2> QED BY <1>6, <2>2, ZeroOK DEF LoadedAfresh
<1> QED BY <1>5, <1>6

(* log_apply_config_format() *)
LEMMA FormatFacts ==
    ASSUME MainInv, LoadConfig
    PROVE  LoggerInv'
<1>1. /\ logger' = ApplyConfigFormat(config'.ni_log_format) /\ launch' = launch
      /\ pc = "config_init" /\ pc' = "spawn"
  BY DEF LoadConfig
<1>2. /\ DOMAIN logger = {"from_env", "format", "file"}
      /\ logger.from_env <=> launch.env.log_format # Null
      /\ logger.from_env => logger.format = launch.env.log_format
  BY <1>1 DEF MainInv, LoggerInv
<1>3. CASE logger.from_env
  <2>1. logger' = logger
    BY <1>1, <1>3 DEF ApplyConfigFormat
  <2> QED BY <1>1, <1>2, <1>3, <2>1 DEF LoggerInv, Loaded
<1>4. CASE ~logger.from_env
  <2>1. PICK f : f = IF config'.ni_log_format # Null THEN config'.ni_log_format
                                                      ELSE DefaultFormat
    OBVIOUS
  <2>2. logger' = [logger EXCEPT !.format = f]
    BY <1>1, <1>4, <2>1 DEF ApplyConfigFormat
  <2>3. DOMAIN logger' = DOMAIN logger /\ logger'.from_env = logger.from_env
        /\ logger'.format = f
    BY <1>2, <2>2
  <2> QED BY <1>1, <1>2, <1>4, <2>1, <2>3 DEF LoggerInv, Loaded
<1> QED BY <1>3, <1>4

(* A step that leaves the file, the configuration and the logger alone, and *)
(* does not begin to supervise.                                             *)
LEMMA QuietStep ==
    ASSUME MainInv, RangeInv', UNCHANGED <<launch, disk, config, logger>>,
           \/ pc' = pc \/ (pc = "spawn" /\ pc' = "running")
           \/ pc' \notin {"config_init", "spawn", "running"}
    PROVE  MainInv'
<1>1. DiskOK'
  BY DEF MainInv, DiskOK
<1>2. ConfigInv'
  BY DEF MainInv, ConfigInv
<1>3. LoggerInv'
  BY DEF MainInv, LoggerInv, Loaded
<1> QED BY <1>1, <1>2, <1>3 DEF MainInv

(* Every step of main(), of its environment and of the openers. *)
LEMMA MainStep ==
    ASSUME MainInv, [Next]_vars
    PROVE  MainInv'
<1> USE DEF Exit, helperVars, outputVars, mainVars
<1>1. CASE InitArguments
  <2>1. RangeInv'
    BY <1>1 DEF InitArguments, MainInv, RangeInv
  <2> QED BY <1>1, <2>1, QuietStep DEF InitArguments
<1>2. ASSUME NEW active \in BOOLEAN, CheckSocket(active) PROVE MainInv'
  <2>1. RangeInv'
    BY <1>2 DEF CheckSocket, MainInv, RangeInv
  <2> QED BY <1>2, <2>1, QuietStep DEF CheckSocket
<1>3. CASE LogInit
  <2>1. RangeInv'
    BY <1>3 DEF LogInit, MainInv, RangeInv
  <2>2. DiskOK' /\ ConfigInv'
    BY <1>3 DEF LogInit, MainInv, DiskOK, ConfigInv
  <2>3. LoggerInv'
    <3>1. PICK l : l = logger'
      OBVIOUS
    <3> DEFINE given == launch.env.log_format # Null
               f == IF given THEN launch.env.log_format ELSE DefaultFormat
    <3>2. PICK file : l = [from_env |-> given, format |-> f, file |-> file]
      BY <1>3, <3>1 DEF LogInit
    <3>3. given => f = launch.env.log_format
      OBVIOUS
    <3> HIDE DEF f
    <3>4. DOMAIN l = {"from_env", "format", "file"} /\ l.format = f
      BY <3>2
    <3>5. l.from_env = given
      BY <3>2
    <3>6. /\ DOMAIN l = {"from_env", "format", "file"}
          /\ l.from_env <=> launch.env.log_format # Null
          /\ l.from_env => l.format = launch.env.log_format
      BY <3>3, <3>4, <3>5
    <3>7. launch' = launch /\ pc' \notin {"spawn", "running"}
      BY <1>3 DEF LogInit
    <3> QED BY <3>1, <3>6, <3>7 DEF LoggerInv, Loaded
  <2> QED BY <2>1, <2>2, <2>3 DEF MainInv
<1>4. ASSUME NEW status \in {0, 1}, SendCommand(status) PROVE MainInv'
  <2>1. RangeInv'
    BY <1>4 DEF SendCommand, MainInv, RangeInv
  <2> QED BY <1>4, <2>1, QuietStep DEF SendCommand
<1>5. CASE HelperLook \/ HelperSend \/ HelperFails \/ OtherProcess
  <2>1. RangeInv'
    BY <1>5 DEF HelperLook, HelperSend, HelperFails, OtherProcess, MainInv, RangeInv
  <2> QED BY <1>5, <2>1, QuietStep DEF HelperLook, HelperSend, HelperFails, OtherProcess
<1>6. CASE LoadConfig
  <2>1. RangeInv'
    BY <1>6 DEF LoadConfig, MainInv, RangeInv
  <2>2. DiskOK'
    BY <1>6 DEF LoadConfig, MainInv, DiskOK
  <2> QED BY <1>6, <2>1, <2>2, LoadFacts, FormatFacts DEF MainInv, ConfigInv
<1>7. CASE Spawn \/ Spawned
  <2>1. RangeInv'
    BY <1>7 DEF Spawn, Spawned, MainInv, RangeInv
  <2> QED BY <1>7, <2>1, QuietStep DEF Spawn, Spawned
<1>8. CASE Exited \/ UNCHANGED vars
  <2>1. RangeInv'
    BY <1>8 DEF Exited, vars, MainInv, RangeInv
  <2> QED BY <1>8, <2>1, QuietStep DEF Exited, vars
<1>9. ASSUME NEW o \in Openers, OpenOutput(o) PROVE MainInv'
  <2>1. removals' = removals
    BY <1>9 DEF OpenOutput, OutputStep, Mkdir, Stat, Open
  <2>2. RangeInv'
    BY <1>9, <2>1 DEF OpenOutput, MainInv, RangeInv
  <2> QED BY <1>9, <2>2, QuietStep DEF OpenOutput
<1>10. CASE Disturb
  <2>1. removals' \in 0..MaxRemovals
    BY <1>10, OutputPathAssumption DEF Disturb, RemovePath, MainInv, RangeInv
  <2>2. RangeInv'
    BY <1>10, <2>1 DEF Disturb, MainInv, RangeInv
  <2> QED BY <1>10, <2>2, QuietStep DEF Disturb
<1>11. CASE Reload
  <2>1. reloads' \in 0..MaxReloads
    BY <1>11, StartupAssumption DEF Reload, MainInv, RangeInv
  <2>2. RangeInv'
    BY <1>11, <2>1 DEF Reload, MainInv, RangeInv
  <2>3. DiskOK'
    BY <1>11 DEF Reload, MainInv, DiskOK
  <2>4. ConfigInv'
    BY <1>11, FreedFacts DEF Reload, MainInv, ConfigInv
  <2>5. LoggerInv'
    BY <1>11 DEF Reload, MainInv, LoggerInv, Loaded
  <2> QED BY <2>2, <2>3, <2>4, <2>5 DEF MainInv
<1>12. CASE Terminate \/ StartFails
  <2>1. PICK status \in {0, 255} : Leave(status)
    BY <1>12 DEF Terminate, StartFails
  <2>2. RangeInv'
    BY <2>1 DEF Leave, MainInv, RangeInv
  <2>3. DiskOK'
    BY <2>1 DEF Leave, MainInv, DiskOK
  <2>4. ConfigInv'
    BY <2>1, FreedFacts DEF Leave, MainInv, ConfigInv
  <2>5. LoggerInv'
    BY <2>1 DEF Leave, MainInv, LoggerInv, Loaded
  <2> QED BY <2>2, <2>3, <2>4, <2>5 DEF MainInv
<1>14. CASE LoadCrashes
  <2>1. RangeInv'
    BY <1>14 DEF LoadCrashes, MainInv, RangeInv
  <2> QED BY <1>14, <2>1, QuietStep DEF LoadCrashes
<1>13. CASE (\E d \in launch.next : Rewrite(d)) \/ WriteMore
  <2>1. UNCHANGED <<mainVars, outputVars, helperVars>>
    BY <1>13 DEF Rewrite, WriteMore
  <2>2. RangeInv' /\ ConfigInv' /\ LoggerInv'
    BY <2>1 DEF MainInv, RangeInv, ConfigInv, LoggerInv, Loaded
  <2> QED BY <1>13, <2>2, DiskSteps DEF MainInv
<1> QED BY <1>1, <1>2, <1>3, <1>4, <1>5, <1>6, <1>7, <1>8, <1>9, <1>10, <1>11, <1>12, <1>13,
        <1>14
        DEF Next, Main

-----------------------------------------------------------------------------
(* The configuration: the theorems *)

(* The invariant holds in every state of every invocation, whatever the     *)
(* configuration file contains, wherever it ends and whatever lies behind   *)
(* it in memory, and however often it is rewritten: if config_init()        *)
(* returns, what it leaves behind has its fields, and every application of  *)
(* it a path.                                                               *)
THEOREM MainInvariance == Spec => []MainInv
<1>1. Init => MainInv
  <2> SUFFICES ASSUME Init PROVE MainInv
    OBVIOUS
  <2>1. RangeInv
    BY OutputPathAssumption, StartupAssumption DEF Init, OutputInit, RangeInv
  <2>2. DiskOK
    <3>1. launch.doc \in DOMAIN Documents
      BY <2>1, StartupAssumption DEF RangeInv
    <3>2. Len(Documents[launch.doc]) \in Nat
      BY <3>1, StartupAssumption DEF IsTokens
    <3>3. /\ DOMAIN disk = {"name", "doc", "written", "inside"} /\ disk.doc = launch.doc
          /\ disk.written = Len(Documents[launch.doc]) /\ disk.inside = FALSE
      BY DEF Init
    <3>4. disk.written \in 0..Len(Documents[launch.doc])
      BY <3>2, <3>3
    <3> QED BY <3>1, <3>3, <3>4 DEF DiskOK
  <2>3. ConfigInv
    <3>1. DOMAIN config = DOMAIN ZeroConfig /\ config.applications = ZeroConfig.applications
      BY DEF Init, ZeroConfig
    <3> QED BY <3>1, ZeroOK DEF ConfigInv, ConfigOK, Complete
  <2>4. LoggerInv
    BY DEF Init, LoggerInv, Loaded
  <2> QED BY <2>1, <2>2, <2>3, <2>4 DEF MainInv
<1> QED BY <1>1, MainStep, PTL DEF Spec

(* Every state has its types: main() is in one of its parts and ends with   *)
(* one of its statuses, 255 among them, or is killed by config_init(), and  *)
(* every application that the parser adds has all its fields, whatever the  *)
(* configuration file contains (main.c, config.c).                          *)
THEOREM TypeCorrect == Spec => []TypeOK
<1>1. MainInv /\ HelperInv /\ FilesInv => TypeOK
  <2> SUFFICES ASSUME MainInv, HelperInv, FilesInv PROVE TypeOK
    OBVIOUS
  <2>1. OutputTypeOK
    BY DEF MainInv, RangeInv, FilesInv, OutputInv, JobsOK, JobOK, TreeOK, OutputTypeOK
  <2>2. \A i \in DOMAIN config.applications : DOMAIN config.applications[i] = AppFields
    <3>1. PICK S : config.applications \in Seq(S) /\ \A a \in S : DOMAIN a = AppFields
      BY DEF MainInv, ConfigInv, ConfigOK, AppsOK
    <3> QED BY <3>1
  <2> QED BY <2>1, <2>2 DEF MainInv, RangeInv, HelperInv, TypeOK
<1> QED BY <1>1, MainInvariance, HelperInvariance, FilesInvariance, PTL

(* Every application that nanoinit may spawn has a path, whatever the       *)
(* configuration file contains: config_init() refuses what it has read if   *)
(* one of the applications it has added has none (config.c).                *)
THEOREM EveryApplicationHasAPath == Spec => []Complete(config)
<1>1. MainInv => Complete(config)
  BY DEF MainInv, ConfigInv
<1> QED BY <1>1, MainInvariance, PTL

(* A reload loads what a new nanoinit would load from the same memory: the  *)
(* earlier configuration, whatever it was, does not matter, and neither     *)
(* does what lies behind the content of a file that does not end inside a   *)
(* string or behind the sign or the point of a number (config_free() and    *)
(* config_init(), config.c).                                                *)
THEOREM ReloadStartsAfresh == Spec => [][LoadedAfresh]_vars
<1>1. MainInv /\ [Next]_vars => [LoadedAfresh]_vars
  BY LoadFacts DEF LoadedAfresh
<1> QED BY <1>1, MainInvariance, PTL DEF Spec

(* While nanoinit supervises, the format of its messages is that of         *)
(* NI_LOG_FORMAT, else that of the configuration in force, else the         *)
(* default, never that of an earlier configuration                          *)
(* (log_apply_config_format(), log.c).                                      *)
FormatFollowsConfig ==
    Loaded => logger.format =
        CASE launch.env.log_format # Null -> launch.env.log_format
          [] launch.env.log_format = Null /\ config.ni_log_format # Null -> config.ni_log_format
          [] OTHER -> DefaultFormat

(* The format in force after every load is the one the configuration in     *)
(* force asks for, unless the environment names one                         *)
(* (log_apply_config_format(), log.c).                                      *)
THEOREM FormatIsInForce == Spec => []FormatFollowsConfig
<1>1. MainInv => FormatFollowsConfig
  BY DEF MainInv, LoggerInv, Loaded, FormatFollowsConfig
<1> QED BY <1>1, MainInvariance, PTL
=============================================================================
