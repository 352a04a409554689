------------------------------ MODULE Startup -------------------------------
(* One invocation of nanoinit, src/source/main.c: the command line, the     *)
(* logger, the reload helper, or the supervisor with its configuration,     *)
(* which is loaded again on SIGUSR1, and the output files of the            *)
(* applications it spawns.  The configuration file may be rewritten at any  *)
(* time.  What the supervisor does beyond that is in Supervisor, the        *)
(* control socket in ControlSocket and ControlProtocol.                     *)
(*                                                                          *)
(* A definition marked "Mutant" is a wrong variant of the next one, used    *)
(* only to show which property would notice.                                *)
EXTENDS ConfigLoad, CommandLine, OutputPath, ReloadHelper

CONSTANTS Documents,    \* contents of the file: a sequence of token sequences
          Objects,      \* what the arguments of -j name
          Formats,      \* the parts of the paths of output files, by their text
          Environ,      \* environment variables that a path may name
          Launches,     \* what nanoinit is started with and what it meets:
                        \* command line, environment, the name of the file, its
                        \* content and later contents, files that are where
                        \* directories are needed, process tables
          MaxReloads    \* bound on SIGUSR1

ASSUME StartupAssumption ==
    /\ MaxReloads \in Nat
    /\ \A d \in DOMAIN Documents : IsTokens(Documents[d])
    /\ \A l \in Launches :
         /\ {l.doc} \cup l.next \subseteq DOMAIN Documents
         /\ l.tables \subseteq Tables /\ <<"dev">> \notin l.obstacles
         /\ l.argv \in Seq([key : OptionKeys \cup {"arg"}, arg : STRING \ {Unset}])
    /\ \A text \in DOMAIN Formats :
         Formats[text] \in Seq([kind : {"text", "env", "value"}, name : STRING])

VARIABLES launch,     \* the member of Launches that was chosen
          pc,         \* where main() is
          rc,         \* its exit status
          arguments,  \* nanoinit_arguments_t
          logger,     \* log_format, log_format_from_env and log_file
          disk,       \* the configuration file and how much of it is written
          config,     \* nanoinit_config_t
          spawning,   \* the next application to spawn
          reloads,    \* how many SIGUSR1 were served
          source      \* what the last config_init() read

mainVars == <<launch, pc, rc, arguments, logger, config, spawning, reloads, source>>
vars == <<mainVars, disk, outputVars, helperVars>>

DefaultFormat == Plain("{message}")
NoSource == [doc |-> 0, whole |-> FALSE, beyond |-> FALSE]

Init ==
    /\ launch \in Launches
    /\ pc = "arguments"
    /\ rc = 0
    /\ arguments = NoArguments
    /\ logger = [from_env |-> FALSE, format |-> Null, file |-> Unset]
    /\ disk = [name |-> launch.file, doc |-> launch.doc,
               written |-> Len(Documents[launch.doc]), inside |-> FALSE]
    /\ config = [ZeroConfig EXCEPT !.ni_create_log_dirs = FALSE]
    /\ spawning = 0
    /\ reloads = 0
    /\ source = NoSource
    /\ OutputInit(launch.obstacles)
    /\ HelperInit(launch.tables)

Exit(status) == pc' = "exited" /\ rc' = status

-----------------------------------------------------------------------------
(* main() up to the choice of what to do *)

InitArguments ==
    /\ pc = "arguments"
    /\ arguments' = ArgumentsInit(launch.argv, launch.env, disk.name = "etc")
    /\ IF arguments'.usage THEN Exit(64) ELSE pc' = "socket" /\ UNCHANGED rc
    /\ UNCHANGED <<launch, logger, config, spawning, reloads, source, disk,
                   outputVars, helperVars>>

(* Whether a supervisor listens on the control socket is the subject of     *)
(* ControlSocket; here it may or may not.                                   *)
CheckSocket(active) ==
    /\ pc = "socket"
    /\ IF arguments.special_mode = "none" /\ active
         THEN Exit(0)
         ELSE pc' = "log_init" /\ UNCHANGED rc
    /\ UNCHANGED <<launch, arguments, logger, config, spawning, reloads, source,
                   disk, outputVars, helperVars>>

(* log_init(); main() goes on without a file that cannot be opened. *)
LogInit ==
    /\ pc = "log_init"
    /\ \E file \in {Unset, arguments.log_path} :
          logger' = [from_env |-> launch.env.log_format # Null,
                     format |-> IF launch.env.log_format # Null THEN launch.env.log_format
                                                                ELSE DefaultFormat,
                     file |-> file]
    /\ pc' = CASE arguments.special_mode = "none" -> "config_init"
               [] arguments.special_mode = "reload" -> "helper"
               [] OTHER -> "control"
    /\ UNCHANGED <<launch, rc, arguments, config, spawning, reloads, source,
                   disk, outputVars, helperVars>>

(* control_send_command(), the subject of ControlProtocol *)
SendCommand(status) ==
    /\ pc = "control"
    /\ Exit(status)
    /\ UNCHANGED <<launch, arguments, logger, config, spawning, reloads, source,
                   disk, outputVars, helperVars>>

(* nanoinit_send_reload() *)
HelperLook ==
    /\ pc = "helper"
    /\ Look
    /\ UNCHANGED <<mainVars, disk, outputVars>>

HelperSend ==
    /\ pc = "helper"
    /\ SendSigusr1
    /\ Exit(0)
    /\ UNCHANGED <<launch, arguments, logger, config, spawning, reloads, source,
                   disk, outputVars>>

HelperFails ==
    /\ pc = "helper"
    /\ Scanned /\ ~KillSucceeds
    /\ Exit(1)
    /\ UNCHANGED <<launch, arguments, logger, config, spawning, reloads, source,
                   disk, outputVars, helperVars>>

-----------------------------------------------------------------------------
(* Loading the configuration, at the start and for every SIGUSR1 *)

(* Mutant: a file without a format leaves the one in force. *)
ApplyConfigFormatIfGiven(format) ==
    IF logger.from_env \/ format = Null THEN logger ELSE [logger EXCEPT !.format = format]

(* log_apply_config_format() *)
ApplyConfigFormat(format) ==
    IF logger.from_env THEN logger
    ELSE [logger EXCEPT !.format = IF format # Null THEN format ELSE DefaultFormat]

Written == CutAt(Documents[disk.doc], disk.written, disk.inside)
Whole == disk.written = Len(Documents[disk.doc])
Beyond == disk.inside /\ LeavesContent(Documents[disk.doc][disk.written + 1])
Source == [doc |-> disk.doc, whole |-> Whole, beyond |-> Beyond]

LoadConfig ==
    /\ pc = "config_init"
    /\ \/ /\ arguments.config_file = disk.name
          /\ \E content \in Written :
                config' \in ConfigInit(config, content, Objects[arguments.config_json_object])
          /\ source' = Source
       \/ /\ arguments.config_file # disk.name
          /\ config' = ConfigInitNoFile(config)
          /\ source' = NoSource
    /\ logger' = ApplyConfigFormat(config'.ni_log_format)
    /\ spawning' = 1
    /\ pc' = "spawn"
    /\ UNCHANGED <<launch, rc, arguments, reloads, disk, outputVars, helperVars>>

(* config_init() does not return: nanoinit is killed by SIGSEGV. *)
LoadCrashes ==
    /\ pc = "config_init"
    /\ arguments.config_file = disk.name
    /\ \E content \in Written :
          ConfigInitCrashes(config, content, Objects[arguments.config_json_object])
    /\ source' = Source
    /\ pc' = "crashed"
    /\ UNCHANGED <<launch, rc, arguments, logger, config, spawning, reloads, disk,
                   outputVars, helperVars>>

-----------------------------------------------------------------------------
(* supervisor_spawn(), as far as output files are concerned *)

PartsOf(text) == IF text \in DOMAIN Formats THEN Formats[text]
                 ELSE IF text = "" THEN <<>> ELSE <<[kind |-> "text", name |-> text]>>

(* supervisor_output_paths_render(); Null is a path that was not given. *)
Rendered(app, stream) ==
    Render(PartsOf(app[stream].text),
           [timestamp |-> "now", timestampISO |-> "now", device_name |-> "device",
            app_name |-> app.name.text, message |-> ""], Environ)

(* supervisor_output_stream_configured(): nanoinit captures the stream. *)
Captured(app, stream) ==
    IF app[stream] # Null /\ Rendered(app, stream) # <<>>
    THEN \/ app[IF stream = "stdout" THEN "stdout_rotate_size" ELSE "stderr_rotate_size"] > 0
         \/ app[IF stream = "stdout" THEN "stdout_passthrough" ELSE "stderr_passthrough"]
         \/ app.prefix_logs \notin {Null, Plain("")}
    ELSE app[stream] = Null /\ app.prefix_logs \notin {Null, Plain("")}

(* What the child redirects, and what nanoinit opens for it afterwards: of  *)
(* the streams that are given a path, first that of stdout.                 *)
ChildPaths(app) ==
    LET Own(s) == IF app[s] # Null /\ ~Captured(app, s)
                    THEN <<RedirectTarget(Rendered(app, s))>> ELSE <<>>
    IN  Own("stdout") \o Own("stderr")

ParentPaths(app) ==
    LET Own(s) == IF app[s] # Null /\ Captured(app, s)
                    THEN <<Rendered(app, s)>> ELSE <<>>
    IN  Own("stdout") \o Own("stderr")

Spawn ==
    /\ pc = "spawn"
    /\ job[0].step = "idle"
    /\ spawning \in DOMAIN config.applications
    /\ LET app == config.applications[spawning] IN
       job' = IF ~app.autostart THEN job
              ELSE [job EXCEPT
                ![spawning] = BeginPath(ChildPaths(app), config.ni_create_log_dirs, {}),
                ![0] = BeginPath(ParentPaths(app), config.ni_create_log_dirs,
                                 job[0].failed)]
    /\ spawning' = spawning + 1
    /\ UNCHANGED <<launch, pc, rc, arguments, logger, config, reloads, source,
                   disk, dirs, files, removals, helperVars>>

Spawned ==
    /\ pc = "spawn"
    /\ job[0].step = "idle"
    /\ spawning \notin DOMAIN config.applications
    /\ pc' = "running"
    /\ UNCHANGED <<launch, rc, arguments, logger, config, spawning, reloads,
                   source, disk, outputVars, helperVars>>

OpenOutput(o) ==
    /\ pc \in {"spawn", "running"}
    /\ OutputStep(o)
    /\ UNCHANGED <<mainVars, disk, helperVars>>

(* Mutant: nobody waits for the applications to be gone. *)
ReloadAtOnce ==
    /\ pc = "running"
    /\ reloads < MaxReloads
    /\ config' = ConfigFree(config)
    /\ reloads' = reloads + 1
    /\ pc' = "config_init"
    /\ UNCHANGED <<launch, rc, arguments, logger, spawning, source, disk, outputVars,
                   helperVars>>

(* SIGUSR1: the applications are gone, whatever they were doing, before the *)
(* configuration is freed and loaded again.                                 *)
Reload ==
    /\ pc = "running"
    /\ reloads < MaxReloads
    /\ job' = [o \in Openers |-> Idle]
    /\ config' = ConfigFree(config)
    /\ reloads' = reloads + 1
    /\ pc' = "config_init"
    /\ UNCHANGED <<launch, rc, arguments, logger, spawning, source, disk,
                   dirs, files, removals, helperVars>>

(* supervisor_start() returns, and main() frees what it has. *)
Leave(status) ==
    /\ job' = [o \in Openers |-> Idle]
    /\ config' = ConfigFree(config)
    /\ Exit(status)
    /\ UNCHANGED <<launch, arguments, logger, spawning, reloads, source,
                   disk, dirs, files, removals, helperVars>>

Terminate == pc = "running" /\ Leave(0)

(* No memory for the control blocks, or no control socket, at the start or  *)
(* after a reload: supervisor_start() returns -1 before it has spawned      *)
(* anything.                                                                *)
StartFails == pc = "spawn" /\ spawning = 1 /\ Leave(255)

-----------------------------------------------------------------------------
(* The environment *)

(* The file is truncated and written again, a piece at a time.  Only        *)
(* config_init() reads it, so it is enough that it changes there.           *)
Rewrite(d) ==
    /\ pc = "config_init"
    /\ disk.doc = launch.doc
    /\ disk' = [disk EXCEPT !.doc = d, !.written = 0, !.inside = FALSE]
    /\ UNCHANGED <<mainVars, outputVars, helperVars>>

WriteMore ==
    /\ pc = "config_init"
    /\ ~Whole
    /\ disk' = IF disk.inside THEN [disk EXCEPT !.written = @ + 1, !.inside = FALSE]
                              ELSE [disk EXCEPT !.inside = TRUE]
    /\ UNCHANGED <<mainVars, outputVars, helperVars>>

Disturb ==
    /\ pc = "running"
    /\ \E p \in dirs \cup files : RemovePath(p)
    /\ UNCHANGED <<mainVars, disk, helperVars>>

OtherProcess ==
    /\ pc = "helper"
    /\ \E p \in Pids, kind \in Kinds : Churn(p, kind)
    /\ UNCHANGED <<mainVars, disk, outputVars>>

Exited == pc \in {"exited", "crashed"} /\ UNCHANGED vars

Main ==
    \/ InitArguments \/ LogInit
    \/ \E active \in BOOLEAN : CheckSocket(active)
    \/ \E status \in {0, 1} : SendCommand(status)
    \/ HelperLook \/ HelperSend \/ HelperFails
    \/ LoadConfig \/ LoadCrashes \/ StartFails \/ Spawn \/ Spawned

Next ==
    \/ Main
    \/ \E o \in Openers : OpenOutput(o)
    \/ Reload \/ Terminate \/ Exited
    \/ (\E d \in launch.next : Rewrite(d)) \/ WriteMore \/ Disturb \/ OtherProcess

Spec == Init /\ [][Next]_vars

(* nanoinit and the children it forked go on; nothing else is certain. *)
Fairness == WF_vars(Main) /\ \A o \in Openers : WF_vars(OpenOutput(o))

FairSpec == Spec /\ Fairness

-----------------------------------------------------------------------------
(* Properties *)

(* main() is in one of its parts and ends with one of its statuses (255 is  *)
(* the -1 of supervisor_start()) or is killed; whatever the file contains,  *)
(* the parser only adds applications with all the fields of                 *)
(* nanoinit_application_t; files, jobs and processes are what their modules *)
(* say.                                                                     *)
TypeOK ==
    /\ pc \in {"arguments", "socket", "log_init", "control", "helper", "config_init",
               "spawn", "running", "exited", "crashed"}
    /\ rc \in {0, 1, 64, 255}
    /\ OutputTypeOK
    /\ HelperTypeOK
    /\ reloads \in 0..MaxReloads
    /\ \A i \in DOMAIN config.applications :
          DOMAIN config.applications[i] = AppFields

Loaded == pc \in {"spawn", "running"}

(* What the usage text of arguments.c says about a command line. *)
With(key) == {i \in DOMAIN launch.argv : launch.argv[i].key = key}
HasOption(key) == With(key) # {}
Operands == With("arg")
Understood ==
    /\ \A i \in With("v") : launch.argv[i].arg \in {"0", "1", "2"}
    /\ \/ Operands = {}
       \/ ~HasOption("r") /\ \E i \in Operands :
             Operands = {i} /\ launch.argv[i].arg \in {"list", "ls"}
       \/ ~HasOption("r") /\ \E i, j \in Operands :
             i < j /\ Operands = {i, j} /\ launch.argv[i].arg \in {"status", "start", "stop"}
LastWith(key) == CHOOSE i \in With(key) : \A j \in With(key) : j <= i
FileNamed ==
    CASE launch.env.config_file # Unset -> launch.env.config_file
      [] launch.env.config_file = Unset /\ HasOption("c") -> launch.argv[LastWith("c")].arg
      [] OTHER -> IF disk.name = "etc" THEN "etc" ELSE Unset

(* One invocation does what its command line says and nothing else,         *)
(* wherever the options stand among the words (arguments.c, main.c): one    *)
(* that is not understood ends with the usage status before it has read,    *)
(* created or signalled anything; only --reload alone sends SIGUSR1, only a *)
(* command talks to the control socket, only an invocation with neither     *)
(* loads a configuration, and it is the one of the file that the            *)
(* environment, else the option, else the default names.                    *)
DispatchAsWritten ==
    /\ pc # "arguments" /\ ~Understood =>
          pc = "exited" /\ rc = 64 /\ source = NoSource /\ signalled = 0
    /\ rc = 64 => ~Understood
    /\ pc = "helper" \/ signalled # 0 => HasOption("r") /\ Operands = {}
    /\ pc = "control" => ~HasOption("r") /\ Operands # {}
    /\ Loaded => ~HasOption("r") /\ Operands = {} /\ arguments.config_file = FileNamed

(* A directory is only created while the configuration in force asks for    *)
(* it, and only on the way to an output file of that configuration: no      *)
(* process of an earlier configuration is still at work after a reload      *)
(* (output_path.c, supervisor.c).                                           *)
OnTheWay(d) ==
    \E i \in DOMAIN config.applications : \E s \in {"stdout", "stderr"} :
        LET app == config.applications[i]
        IN  app[s] # Null /\ IsStrictPrefix(d, Rendered(app, s))
DirsOnlyAsConfigured ==
    [][\A d \in dirs' \ dirs : config.ni_create_log_dirs /\ OnTheWay(d)]_vars

(* nanoinit --reload (nanoinit.c) succeeds and signals the supervisor, if   *)
(* one runs all the time and no other process with "nanoinit" in its        *)
(* command line has a lower number; what else starts or ends does not       *)
(* matter.                                                                  *)
HelperReachesSupervisor ==
    plain /\ pc = "exited" /\ arguments.special_mode = "reload" /\ ~arguments.usage =>
        rc = 0 /\ signalled # 0 /\ procs[signalled] = "supervisor"

(* Every invocation comes to rest again and again: it ends, or it           *)
(* supervises with every application past its output files, opened or       *)
(* failed, whatever stands in the way of a directory (main.c,               *)
(* output_path.c).                                                          *)
EveryLaunchSettles ==
    []<>(\/ pc \in {"exited", "crashed"}
         \/ pc = "running" /\ \A o \in Openers : job[o].step = "idle")
=============================================================================
