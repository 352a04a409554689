# Verification of nanoinit

TLA+ models of nanoinit, a process supervisor for containers (`src/source`,
C, one thread), with TLC configurations that check them on small instances and
TLAPS proofs, for every instance, of most of the safety properties.

nanoinit reads a JSON configuration of applications, starts them, restarts them
after an exit, captures their output into rotating log files, answers
`nanoinit list|status|start|stop` on a Unix socket, forwards stop signals, and
reloads its configuration on SIGUSR1.

## 1. The system

### 1.1 Components

| Component | Source | State | Operations | Model |
|---|---|---|---|---|
| supervisor main loop | `supervisor.c` | `supervisor_got_signal_stop`, `supervisor_got_signal_reload`, `signal_to_forward`, the array of control blocks | `supervisor_start`, the two signal handlers | `Supervisor` |
| process lifecycle | `supervisor/lifecycle.c`, `internal.h` | `pid`, `running`, `desired_running`, `restart_pending`, `restart_at` of each control block; the kernel's process table | `supervisor_spawn`, `supervisor_reap_children`, `supervisor_start_pending_restarts`, `supervisor_schedule_restart`, `supervisor_free_scb` | `Supervisor`, `AppLifecycle` |
| event wait | `supervisor/io.c` | descriptor set of `select()` | `supervisor_drain_output_streams` | `Supervisor` |
| control requests | `supervisor/control_server.c` | as above, plus the connection being served | LIST, STATUS, START, STOP; read and answer one connection | `Supervisor` (effect), `ControlProtocol` (connection) |
| control socket | `supervisor/control_server.c`, `control.c`, `main.c` | the socket descriptor, the node under the path | bind with recovery from a stale file, listen, close and unlink, "is it active?" | `ControlSocket` |
| control client | `control.c` | request and response buffers | `control_send_command` | `ControlProtocol` |
| captured output | `supervisor/app_logging.c` | `pipe_fd`, `file_fd`, `bytes_written`, `prefix_at_line_start`; the log files | start, drain, prefix, write, rotate, close | `OutputStream` |
| entry point | `main.c` | exit status | arguments, socket check, logger, helper or command, configuration, supervisor | `Startup` |
| command line | `arguments.c` | `nanoinit_arguments_t` | `arguments_init`, the argp callback | `CommandLine` |
| configuration | `config.c` | the configuration in force | `config_init`, `config_free`, the callback of the parser | `ConfigLoad`; its result in `Supervisor` is `Configs` |
| JSON parser | `edJSON/` | parser state, path, depth | `edJSON_parse`, `edJSON_string_unescape` | `EdJSON` |
| output paths | `supervisor/output_path.c` | directories and files | template rendering, creation of parent directories, opening | `OutputPath` |
| reload helper | `nanoinit.c` | position in `/proc` | search of `/proc`, `kill(SIGUSR1)` | `ReloadHelper` |
| logger | `log.c`, `log_formatter.c` | format in force and where it comes from, log file | `log_init`, `log_apply_config_format`, rendering of placeholders | in `Startup` and `OutputPath`; the messages are not modelled |

### 1.2 How the parts interact

* One thread runs everything. It can be interrupted between any two statements
  by the handlers of SIGTERM/SIGINT/SIGQUIT and of SIGUSR1, which only write
  the two flags. SIGUSR1 sets *both*: a reload is "stop, then start over".
* The children run concurrently between `fork()` and `execv()`. They share with
  the parent a close-on-exec error pipe, for which the parent waits at most
  100 ms, and their pids, which the parent uses for `kill()` and `waitpid()`.
* The control server and the draining of output streams are called from the
  same function, once per turn of the main loop.
* Several invocations of nanoinit share one name in the file system, the path
  of the control socket.
* Control clients are processes of their own; they share a stream socket with
  the server.
* `edJSON_parse()` calls back into `config.c` for every value; the callback
  writes the global configuration as it goes, and `config_init()` empties it
  again when anything was wrong. The file belongs to somebody else, who may be
  writing it.
* nanoinit opens the files of captured streams, each child those of its other
  streams; all of them create directories in the same tree.
* The reload helper knows of the supervisor only what `/proc` says.

### 1.3 What is hard, and what makes each part correct

| Part | Hard behaviour | Correct means |
|---|---|---|
| main loop | signals at any statement, during a reload, in the wait loop; a request served after the forwarding | a stop signal reaches every application and ends nanoinit; a reload does not; nothing is left behind |
| process lifecycle | failing `fork`/`pipe`, slow children, exits before the parent looks, reused pids, orphans | the control blocks agree with the process table; a restart happens iff it is still wanted |
| control requests | START/STOP while a restart is pending or a process is dying | the life cycle of `AppLifecycle`; "started" is the truth |
| control socket | four system calls to take the path over; crashes that leave the file | one supervisor per path, reachable, never locked out by a stale file |
| control connection | partial reads and writes, stalled or killed peers, buffer limits | no truncated request is executed; exit code 0 means a whole answer; nobody stalls the server |
| captured output | threshold inside a read, lines over several reads, restarts on an existing file, failing opens and writes | nothing lost, duplicated or reordered; lines neither split by a rotation nor without a prefix |
| loading a configuration | errors in the last value, settings of the file before, a file that is being written, depth, wrapped counters, escapes | what README.md says the file means, or the zero configuration; nothing left of an earlier one |
| output paths | several processes in `mkdir` at once, obstacles, removals, a reload in between | a file is opened unless something is really in the way; only directories the configuration in force asks for |
| command line | options and words in any order, two sources for the mode | one invocation does one thing, and nothing before a usage error |
| reload helper | processes that end, start and reuse numbers during the scan | SIGUSR1 reaches the supervisor |

The individual hazards, with their lines and the properties that cover them,
are in `PROJECT.json` under `hazards`.

## 2. The modules

A definition marked *Mutant* is a wrong variant (a dropped guard, an off-by-one,
a forgotten reset) of the definition that follows it. No behaviour uses it; put
in place of its neighbour, it must make TLC report the property named in
`PROJECT.json` under `mutants`. So every property is known to notice a plausible
error in the code.

### 2.1 `Supervisor` (with `MCSupervisor`)

`supervisor_start()` as a process with a program counter `pc`:

| `pc` | Code |
|---|---|
| `reset_stop`, `reset_reload` | the two assignments at the top of `supervisor_start()`: separate, because a handler can run in between |
| `init` | control blocks, handlers, control socket |
| `boot`, `boot_wait` | the loop that starts the autostart applications |
| `loop`, `restart`, `restart_wait` | `supervisor_start_pending_restarts()` |
| `reap` / `wait_reap` | `supervisor_reap_children()` in the main / wait loop |
| `check`, `clear`, `forward` | take the stop flag, clear it, send the signal to each application |
| `drain`, `control_wait`, `streams` | `supervisor_drain_output_streams()`: at most one control request, then the streams |
| `close`, `wait_drain`, `cleanup` | close the socket, wait for applications and streams, free the control blocks |
| `reload`, `config_init`, `exited` | reload decision, new configuration, end |

* A `for` loop over the control blocks is the set `todo` of blocks not visited
  yet, taken in ascending order (`IsNext`), so that signals and exits can fall
  between two iterations.
* A spawn has two steps: everything up to the wait for the child's error report
  (`Fork`, or `SpawnError` with its three points of failure) and the end of the
  wait (`SpawnReturns`). `errorPipe` is what the parent can see of the child:
  still open, an error, or end of file because the child executed its program
  or died. With the fault `slow_child` the 100 ms can pass first.
* A child is `forked` (it still has nanoinit's signal handlers), `preexec`
  (handlers reset), `failing` (error reported, about to `_exit`), `app` or
  `zombie`. `Kill` has a different effect on each: swallowed, deadly, deadly,
  delivered (`told`), ignored.
* `restart_at` is kept as seconds from now (`restartIn`), which `Tick` counts
  down; a restart is due at 0.
* A configuration is any member of `Configs`; a reload may choose another one,
  the zero configuration included.
* Requests come from `Requests`, signals from `EnvSignals`, failures from
  `Faults`; `OrphanDies` is a zombie adopted by nanoinit as pid 1.

`AppLifecycle` is the abstract specification: for each application one of
stopped, running, stopping, backoff, and the steps between them. `Supervisor`
implements it under the mapping `AppStatus`, `AppAutorestart`.

### 2.2 `OutputStream` (with `MCOutputStream`)

One captured stream. A byte is its number in everything the application wrote
and whether it is a newline, so that loss, duplication and order are visible; a
rendered prefix is one byte with number 0. Files are inodes and `dir` maps the
names (path, path.1, ...) to them, so that a descriptor follows its file through
renames. Reads, chunks up to the rotation threshold, rotation, and failing opens
and writes are separate steps. `Start` and `Close` are repeated as by restarts
of the application. In the mode `neighbour` the other stream of the application
names the same file, and its rotations move the names under the descriptor of
this one (`NeighbourRotates`).

### 2.3 `ControlSocket`

Several invocations, each a process with one step per system call: check, bind,
probe, unlink, bind again, listen, close, unlink. `node` is the owner of the
socket file. `serial` chooses between two worlds: one in which startups and
shutdowns do not overlap (what the documentation's sentence about a second
invocation takes for granted) and one in which they do.

### 2.4 `ControlProtocol` (with `MCControlProtocol`)

The connection between clients and server: a request is its length, a response
is the sequence of the positions where its pieces end, because LIST and STATUS
write several; `pos` is how far the server has come. Reads and writes take any
part of what is there; the server's reads and writes time out,
the client's do not; a client may be killed between any two system calls, and
nanoinit may go away.

### 2.5 `EdJSON`, `ConfigLoad` and `ConfigReference`

`EdJSON` is `edJSON_parse()` as operators: a file is a sequence of tokens, and
`Step` takes one, by the parser's state, with the path stack, its index fields
and `top`, which may wrap; in the state `in_value` the caller's callback is
called (`Called` in `ConfigLoad`). The parser ends with success, a content error, lack
of path elements, a crash, or "undefined" where a token after the end of the root
makes it use `path_mem[-1]`; then it may accept, refuse or crash, and what it would
read there is not followed further. A string is a text and the UTF-16
units of one escape; `Unescape` does the conversion of the code, mistakes
included. `CutAt` gives the contents that the parser may see of a file of which only
the beginning is there, cut between two tokens or inside one. A string value without
its closing quote, a string that ends with a backslash, and a number that ends with
its sign or its point let the index pass the terminating NUL (`LeavesContent`): the
parser goes on with what lies behind the content, any member of the constant
`Behind`, which may be the text of an earlier file or end in memory that is not
there (the token "unmapped").

`ConfigLoad` is the callback (`EdJSONCallback`, one operator per kind of field)
and `config_init()` around it. An application named "" before every other one adds
no element, and the first access to `config.applications[-1]` kills the process
(`Crash`). So a content leads to a set of configurations (`ConfigInit`) or to a crash
(`ConfigInitCrashes`).

`ConfigReference` is independent of both: JSON values as trees, their tokens, and
what README.md says a tree means (`Expected`), so that `config_init` of the tokens
can be compared with the meaning of the tree. Where the code is known to differ is
apart from it: `AsLoaded` (containers without a value are not noticed, an object
named without a slash is never found, deep nesting is refused), `Nameless` (the crash
above) and `Representable` (strings and numbers that the code can represent). They
are disagreements, listed in section 3.

### 2.6 `CommandLine`, `OutputPath`, `ReloadHelper`

`CommandLine` hands the options and then the words to the argp callback, one by
one, as argp does (`HandOver`), and adds the environment. `OutputPath` gives each opener
(0 is nanoinit, the others are children) a job: a list of paths, and the system
call that comes next on the first one (`mkdir`, `stat`, `open`). Others may
remove what is there. `ReloadHelper` looks at one process number at a time while
processes end and start.

### 2.7 `Startup` (with `MCStartup`)

The composition: one invocation, with `pc` at the calls of `main()`. `InitArguments`,
`CheckSocket`, `LogInit`, then a command (`SendCommand`), the helper
(`HelperLook`, `HelperSend`, `HelperFails`) or the supervisor: `LoadConfig` is
`config_init()` and `log_apply_config_format()`, `Spawn` gives the output files
of an application to its child and to nanoinit, `OpenOutput` is one system call
of one opener, and `Reload` starts over with `LoadConfig`. `config_init()` may also
not return (`LoadCrashes`). `supervisor_start()` returns 0 (`Terminate`) or, without
control blocks or a control socket, -1, which is exit status 255 (`StartFails`). The
configuration file may be truncated and rewritten, a piece at a time, before
every load (`Rewrite`, `WriteMore`; only `config_init()` reads it, so nothing is
lost by writing only then). The applications run in `Supervisor`; here only
their output files matter, so a restarted application, which opens the same
files again, is left out.

## 3. The runs

| Run | Result | What it shows |
|---|---|---|
| `supervisor_safety` | pass | Two applications, three pids, three configurations, all requests, all failures, an orphan: `TypeOK`, `ChildTracking`, `PendingIsIdle`, `StreamsFollowChild`, `NoAppLeftBehind`, and the refinement of `AppLifecycle` |
| `supervisor_live` | pass | START and STOP requests, exits, restarts and stop signals, without slow children and without the late START of the next run: a stop signal at any moment reaches every application nanoinit waits for and ends nanoinit, "started" is only said after `execv`, a scheduled restart happens, a stopped application ends |
| `supervisor_start_race` | violation | a START served in the drain after the forwarding starts an application that is never told to stop |
| `supervisor_slow_child` | violation | a child slower than 100 ms swallows the forwarded signal; nanoinit waits for ever |
| `supervisor_reload_stop` | violation | a SIGINT during a reload is cleared at the top of `supervisor_start()` |
| `output_stream` | pass | content, order, prefixes, passthrough and rotation for seven kinds of streams, with failures and with another stream on the same file; what has reached the log stays, and more comes only at its end (`LogOnlyGrows`) |
| `output_stream_history` | violation | after a failed reopen every newline rotates again and removes kept files |
| `control_socket` | pass | one supervisor, reachable, never blocked by a stale file, and of overlapping invocations at least one serves |
| `control_socket_overlap` | violation | of two overlapping startups the second may unlink the active socket of the first |
| `control_protocol` | pass | requests are executed whole, exit code 0 means a whole answer and a whole answer that fits means exit code 0, nobody stalls the server or a patient client |
| `startup` | pass | but for the known differences (`AsLoaded`), a complete file is loaded as README.md says, also after a reload, and does not crash nanoinit (`LoadsWhatIsWritten`); a file that is being written, and does not end inside a string, gives the zero configuration or a beginning of what it will say (`CutKeepsWhatPrecedes`); the format in force (`FormatInForce`); one invocation does what its command line says (`DispatchAsWritten`); openers do not hinder each other (`OpensUnlessHindered`), create only what the configuration in force asks for (`DirsOnlyAsConfigured`) and come to an end (`EveryLaunchSettles`); the helper reaches the supervisor (`HelperReachesSupervisor`) |
| `config_truncated` | violation | a file that ends in the middle of the JSON text is loaded as if it were complete |

The six violations are disagreements between the code and a sentence of
`src/README.md` or a test, quoted in `PROJECT.json` under `findings`. Each is
also the reason for a restriction of a passing run: `supervisor_live` has no
slow children, no reload and (`NoLateStart`) no START between
the forwarding and the wait loop, `OneSupervisor` and `RunningIsReachable` speak
of serial invocations only, `RemovedOnlyWhenFullNoFaults` excludes faults, and
`LoadsWhatIsWritten` speaks of files that are written completely.

More disagreements, each without a run of its own:

* A SIGUSR1 between lines 44 and 45 of `supervisor.c`, during a reload, keeps its
  stop half and loses its reload half, so nanoinit exits (`ResetStop`,
  `ResetReload`).
* README.md:968-970 says that parent directories are not created, README.md:536 and
  the code that they are.
* README.md:421-423 says that errors found while a file is loaded are reported in the
  default or the environment's format; during a reload it is the format of the file
  before.
* An object that does not begin with a slash is never found (`Inside`), although
  README.md:226-227 only recommends the slash and the help text (`arguments.c:58`)
  shows `-j nanoinit-settings`.
* README.md:439 says that `path` is required, but `"web": {}`, and every container
  without a value, is passed over (`Seen`): the callback is called for values only.
* A file whose first application is named "" kills nanoinit (`Crash`): `current_app`
  begins as "" (`config.c:128`), so no element is added (`config.c:315`).
* A file that ends inside a string is parsed on behind its content
  (`edJSON.c:383-407`, `527`, `553`): what is loaded depends on the memory there.
* A comma before a closing bracket is accepted, which is no JSON (`FindComma`).

The fourth to the seventh are also restrictions of `LoadsWhatIsWritten` and
`CutKeepsWhatPrecedes`.

### 3.1 Bounds, and why they are enough

* `Supervisor`: two applications are needed for a loop to be interrupted between
  two iterations and for one application to be mistaken for another; two pids
  cover both, a third one an orphan and the reuse of a pid. `RestartDelay = 1`
  is the value of the code. One captured stream on one application gives the
  cases "with" and "without". Nothing bounds the number of signals, requests,
  restarts and reloads: the state space is finite without it. `OrphanBound = 1`.
* `OutputStream`: five bytes and reads of three give a threshold before, in and
  behind a read, lines over two reads and up to five rotations; two starts give
  a restart on an existing file. 0, 1 and 2 kept files are the first, the
  special and the general case of the rename loop.
* `ControlSocket`: two invocations race, the third can find what they left;
  one reload and one crash (or failing `listen`) can hit any of them, and the
  path may hold a stale file from the beginning.
* `ControlProtocol`: two clients, one of which need not go on; requests below,
  at and above the size of the buffer (2, 3, 5 with a buffer of 4) and responses
  shorter than, as long as and longer than what the client can read. The
  socket buffer holds no less than the client reads, as on any real system.
* `Startup`: `PathMax = 5` (32 in the code) is deep enough for every right file
  with its comments and is exceeded by one nested file; `IntBits = 8` puts 300 beyond an
  int. The files are 24 entries, right and wrong ones, alone, in every pair, and
  nested under an object, every change of one token of a good file, and files with
  a comma or a bracket too many, 667 in all; two
  entries suffice for one to be mistaken for, or to end, the other. Four files
  are rewritten into each other, token by token and also inside a token, with
  one reload. `Behind` is another NUL, a character that is no JSON, the end of the
  memory, or the rest of an earlier file with an application that no document has;
  460,316 states in all. Command lines of up to three words hold every pair of a command
  and an option, and options that are given twice. Up to three children and nanoinit meet in one directory, with
  and without a file in its place, and `MaxRemovals = 1`. `MaxPid = 3`: the
  helper, the supervisor and one more in every order; `MaxChurn = 2`: a number
  is freed and used again.
* Symmetry (the pids) is used only where no liveness property is checked.

Deadlock checking is on in all runs: the end of the program, and the exhaustion
of a bound, are explicit stuttering steps (`Exited`, `Finished`, `AllOver`).

### 3.2 Fairness

* `Supervisor`: weak fairness of the main thread (it has no unbounded blocking
  call: `select()` and the wait for the child have timeouts), of the children up
  to `execv` (the kernel schedules them), of the clock, and of an application
  ending *after it was told to stop*. The last one is an assumption about
  applications; without it no supervisor without SIGKILL can finish. Nothing is
  assumed about other exits, signals or requests.
* `ControlSocket`: each invocation goes on with its startup or shutdown once
  begun; launches, signals and crashes are not fair.
* `ControlProtocol`: weak fairness of the server and of the patient clients, and
  strong fairness of accepting each client, since the backlog is a queue. No
  fairness for the others.
* `Startup`: weak fairness of `main()` up to the running supervisor and of every
  opener; they are single system calls that return. Nothing is assumed about
  reloads, the end, the writer of the file, and others' processes.
* `OutputStream` has only safety properties.

## 4. The proofs

Each theorem holds for every number of applications, pids, invocations, clients,
openers, processes, bytes, words and tokens that the named assumptions allow. 30 of
the 40 properties that the passing runs check are theorems.

| Module | Theorem | Statement |
|---|---|---|
| `SupervisorProofs` | `TypeCorrect` | `Spec => []TypeOK` |
| | `ChildTrackingHolds` | `Spec => []ChildTracking`: control blocks and process table agree |
| | `PendingIsIdleHolds` | `Spec => []PendingIsIdle`: a pending restart belongs to an idle, wanted application |
| | `StreamsFollowChildHolds` | `Spec => []StreamsFollowChild`: an open stream has a running application |
| | `NoAppLeftBehindHolds` | `Spec => []NoAppLeftBehind`: no process of an application survives the wait loop |
| | `StartedMeansExecHolds` | `Spec => []("slow_child" \notin Faults => StartedMeansExec)`: "started" is said of a process that is past `execv()`, unless a child is slower than the 100 ms |
| | `StopReachesEveryAppHolds` | `Spec /\ [][NoLateStart]_vars => []("slow_child" \notin Faults /\ "kill" \notin Faults => StopReachesEveryApp)`: the slow child and the late START, which the runs `supervisor_slow_child` and `supervisor_start_race` show, are besides a failing `kill()` the only ways for a process to miss the signal |
| | `ChildrenOnlyAdvance` | `Spec => [][ChildrenAdvance]_vars`: a block stays with its process, which only moves towards its end and forgets no signal |
| | `LifecycleRefinement` | `Spec => LifecycleSpec`: the supervisor implements `AppLifecycle` |
| `ControlSocketProofs` | `TypeCorrect` | `Spec => []TypeOK`: a descriptor corresponds to its owner's place in the code |
| | `Reachability` | `Spec => []RunningIsReachable` |
| | `MutualExclusion` | `Spec => []OneSupervisor` |
| | `RaceHasWinner` | `Spec => []SomeoneServes`: overlapping invocations do not all give up |
| | `NameKeptIfSerial` | `Spec /\ serial => ActiveSocketKept`: overlap is the only way to the violation of `control_socket_overlap` |
| `ControlProtocolProofs` | `TypeCorrect` | `Spec => []TypeOK` |
| | `Execution` | `Spec => []ExecutedAsAsked`: no part of a request is executed in its place |
| | `Success` | `Spec => []SuccessIsWhole`: exit code 0 means executed, and answered without a gap |
| | `Completion` | `Spec => []CompletedIsSuccess`: a whole answer that fits means exit code 0 |
| `OutputStreamProofs` | `TypeCorrect` | `Spec => []TypeOK` |
| | `Order` | `Spec => []InOrder`: with all failures |
| | `Completeness` | `Spec => []NothingLost` |
| | `LogGrows` | `Spec => LogOnlyGrows`: with all failures |
| | `Passthrough` | `Spec => []PassthroughSame` |
| | `WholeLines` | `Spec => []RotatedWholeLines` |
| | `BoundedOverrun` | `Spec => []OverrunIsOneLine` |
| | `PrefixedLines` | `Spec => []EveryLinePrefixed` |
| | `RemovedWhenFull` | `Spec => RemovedOnlyWhenFullNoFaults` |
| `InputProofs` | `ParsedAsWritten` | for every command line, what the argp callback makes of it, in terms of the options and words that are in it (`UnderstoodLine`, `ParsedLine`) |
| | `CrashNeedsEmptyName` | the callback accesses `config.applications[-1]` only for a value of an application named "" before every other application |
| `StartupProofs` | `TypeCorrect` | `Spec => []TypeOK`: every way to end has one of the statuses 0, 1, 64 and 255 or is a crash |
| | `DispatchesAsWritten` | `Spec => []DispatchAsWritten`: one invocation does what its command line says, and nothing before a usage error |
| | `EveryApplicationHasAPath` | `Spec => []Complete(config)`: whatever is in the file or behind it, each application that `supervisor_start()` is given has a path to execute |
| | `ReloadStartsAfresh` | `Spec => [][LoadedAfresh]_vars`: `config_init()` gives what it would give to a new nanoinit with the same memory, and unless the content ends inside a string or behind a sign or a point, only the content matters |
| | `FormatIsInForce` | `Spec => []FormatFollowsConfig`: the format in force is that of the environment, else of the configuration in force, else the default |
| | `ReloadArrives` | `Spec => []HelperReachesSupervisor` |
| | `OpensOrExplains` | `Spec => []OpensUnlessHindered` |
| | `DirectoriesAsConfigured` | `Spec => DirsOnlyAsConfigured` |

Beside these, each module of a component has `Invariance` (in `StartupProofs`
`HelperInvariance`, `FilesInvariance`, `DispatchInvariance` and `MainInvariance`):
its inductive invariant holds. Every property of the table that a run names was
checked by TLC before it was proved.
`OutputPathProofs` and `SequenceFacts` hold lemmas for the other modules.

### 4.1 The inductive invariants, and why they are needed

**`Supervisor`.** `IInv` is the conjunction of

* `TypeOK`;
* `FlowInv`: what the program counter says of the other variables. A loop visits
  allocated control blocks only; while a signal is forwarded there is one; the
  startup loop has neither started nor scheduled what it has not visited; the
  child of a START request is not reaped before the request is answered; nothing
  runs outside the main and the wait loop. Without it the guards that the code
  leaves out, such as "not running" before a fork in the startup loop, cannot be
  concluded;
* `TrackingInv`: `ChildTracking`, that only allocated blocks run, and that a
  block that is not running names no pid and a free pid no owner. Both
  directions are needed at a fork: a fresh pid is in no block, since the pid of
  a running block is unreaped and that of another one was cleared;
* `PendingIsIdle`: needed for `RestartFork` not to overwrite a process, and for
  the backoff steps of the refinement;
* `StreamsFollowChild`: needed to conclude, when the wait loop ends, that
  nothing is running *and* nothing is open.

What a stop signal reaches needs the history of a process, which `IInv` does not
have. `ChildrenAdvance`, an action property that follows from `IInv`, is that
history, one step at a time. With it three more invariants hold where the failures
are restricted:

* `ExecInv` (no slow child): every process but the one that the parent waits for
  has executed its program or is about to end. So no signal is swallowed by
  nanoinit's own handler in a child;
* `ReplyInv`: a response that says "started" is about a process that is past
  `execv()`, from the moment it is written until the streams are drained;
* `ToldInv` (also no failing `kill()` and no late START): the loop that forwards a
  signal has told all that it has visited, and all are told up to the end of the
  wait loop, since nothing starts in it.

**`ControlSocket`.** `TypeOK`, and for each of the two worlds an invariant of its
own:

* `SerialInv` (no overlap): one invocation at a time is on its way up or down,
  whoever listens is the one under the path, and nobody listens while an
  invocation is between its check and its `listen()`. So a probe that finds
  nobody, and the `unlink()` after it, cannot hit a listening socket;
* `RaceInv` (overlap): until somebody listens, a file under the path after an
  `unlink()` belongs to an invocation that is about to listen. So of those whose
  second `bind()` fails, none is the last one.

**`ControlProtocol`.** `ServingInv` (the connection that is served is open and
unanswered), `RequestInv` (how far a request has come, by where its client is),
`AnswerInv` (what was executed, by what was answered), `PiecesInv` (the pieces
that are still to come end behind `pos` and the last one ends the response), and
`StreamInv`: what the client has received and what is in its queue are together
the response up to `pos`, without a gap, or so much of a response that is too
long has been written that the client will find it truncated, whatever of it is
lost. The second case is why exit code 0 needs the check for truncation.

**`Startup`, the helper.** `ScanInv`: a supervisor that was the first nanoinit
all the time is either ahead of the scan, which has found nothing yet, or is what
the scan has found. `ModeInv` and `EndInv` carry it through `main()`.

**`Startup`, the output files.** `OutputInv` in `OutputPathProofs`: what an
opener knows of the directories on its way (`OnTheWayOK`: those it has passed
exist as long as nothing was removed), that nothing is both a file and a directory,
and that every reported failure is explained. Failures
stay explained because others only add directories and files. `RestInv` says that
no opener is at work during a reload, so that the paths of every job come from the
configuration *in force*, which is what `DirsOnlyAsConfigured` needs.

**`Startup`, the command line.** `DispatchInv`: once the arguments are read,
`main()` has done what they ask for and nothing else (`Obeys`). What they ask for
is a matter of the callback: `HandOver` is a recursive function of the number of
words handed over, and `HandOverFacts` says what the arguments are after each
number of them, in terms of the words so far. It is proved by a least
counterexample, as for the log (see below). `ParsedAsWritten` follows for every
command line.

**`Startup`, the configuration.** `MainInv` is

* `DiskOK`: the file is one of the documents up to some token, or into the next
  one;
* `ConfigInv`: the configuration has its fields and only applications with a path;
* `LoggerInv`: whether the format comes from the environment, and if not that it
  is the one of the configuration in force.

`ConfigInv` needs an invariant of the parser and its callback, for every sequence
of tokens (`ParseFacts`, again by a least counterexample), what lies behind a content
included. `ParserOK`: `top` is -1, after the end of the root, or an element of
`path_mem`, and while it is -1 every token but a comment ends the parse: it fails, or
it ends as "undefined" because it would use `path_mem[-1]`. `ReadingOK`: what the callback writes into are the
fields of the configuration and of the applications it has added, and the parser
goes on only while the callback is in the object or on its way to it. An access to
an application that was not added ends the callback (`Crash`), and
`CrashNeedsEmptyName` says when that happens: as long as no application was added,
the name of the previous value is still "" (`MessageOK`), so every other name adds
one. Which values the fields have is left to TLC (4.4).

**`OutputStream`.** Three layers:

* `FilesInv` (with all failures): `TypeOK`; `NamesInv`: no two names lead to the
  same file, and whatever is newer than the file of the open descriptor is empty.
  The second part is what keeps the order when a rotation by the neighbour has
  moved the names: a write through the old descriptor still appends to the log as
  a whole. `BusyInv`: a stream that is down holds nothing;
* `OrderInv` (with all failures): the bytes in the log, in passthrough, in the
  buffer and in the pipe ascend, and each place is before the next one;
* `SoundInv` (without failures): the descriptor leads to the first name and its
  counter is the size of the file (`CurrentInv`), every byte is somewhere
  (`KeptInv`), rotated files are full and end with a line (`FullInv`), a newline
  behind the threshold calls for a rotation (`OverrunInv`), the names are in use
  from the lowest up (`ContiguousInv`), and every line of the log *and the buffer*
  has its prefix, with `lineStart` saying when the next one begins (`LinesInv`).

The log is the concatenation of the removed bytes and of all files from the oldest
to the newest. Its theorems need what a rotation and a write do to a
concatenation of any length (`LogShift`, `LogAppend`). `SequenceFacts` proves what
`FlattenSeq` of SequencesExt does with a last, a first and a changed element, by a
least counterexample: every set of natural numbers has a least element
(`Least`, from the well-foundedness of `<`), so what is wrong for some length is
wrong for a least one.

### 4.2 Assumptions

Each is an `ASSUME` in the module that declares the constants, and TLC evaluates
it in every run of that module.

* `Supervisor`: `MaxAppsAssumption`, `ConfigsAssumption` (a configuration is a
  sequence of at most `MaxApps` applications), `PidsAssumption` (0 and -1 are no
  pids), `RequestsAssumption`, `EnvSignalsAssumption`, `BoundsAssumption`.
* `ControlSocket`: `InstancesAssumption` (`NoNode` is no invocation),
  `SerialModesAssumption`, `BoundsAssumption`.
* `ControlProtocol`: `SizesAssumption` (requests and responses are not empty, the
  pieces of a response end at ascending positions), `PatientAssumption`,
  `SocketBufferAssumption`.
* `OutputStream`: `StreamConfigsAssumption`, `BoundsAssumption` (a read asks for
  at least one byte), `FaultModesAssumption`.
* `Startup`, `OutputPath`, `ReloadHelper`, `EdJSON`: `StartupAssumption` (process
  tables are tables; `/dev` is a directory, not an obstacle; a format is a sequence
  of parts; a word of a command line is an option that argp knows or an operand, and
  is not NULL; a document is a sequence of tokens, and the files of a launch
  are documents), `OutputPathAssumption` (nanoinit is an opener),
  `ReloadHelperAssumption`, `EdJSONAssumption` (`path_mem` is not
  empty; what lies behind a content is a sequence of tokens).

### 4.3 Layout

In each module: the parts of the inductive invariant; lemmas about helpers; for
each part of the invariant a lemma with one step per action; `Invariance`; and
the theorems, which follow from it. In `SupervisorProofs` the lemmas about steps
are grouped as the next-state relation is (`StartupStep`, `SuperviseStep`,
`ServeStep`, `FinishStep`, `EnvironmentStep`), and the refinement has the same
layout: `LifecycleMove`, `LifecycleStay` and `LifecycleReplace` say when a change
of the blocks is a step of `AppLifecycle`. In `OutputStreamProofs` one lemma says
of each kind of step what becomes of the log (`LogSame`, `LogRotated`,
`LogWritten`), so that the parts of the invariant do not look at files again.
`InputProofs` has what holds of operators and not of states: first the command line,
then the parser, its callback and `config_init()`, from `StepOK` (one token) to
`ParseOK` and `ConfigInitOK` (a file), and `CrashNeedsEmptyName`.

### 4.4 Only model-checked

* The liveness properties (`StopEndsNanoinit`, `RestartHappens`,
  `StopTakesEffect`, `LaunchSucceeds`, `ServerReturns`, `PatientClientsReturn`,
  `EveryLaunchSettles`): fairness and ENABLED are outside what the proof system
  supports.
* `LoadsWhatIsWritten`, `CutKeepsWhatPrecedes` and `FormatInForce` compare what was
  loaded with `ConfigReference`, which is recursive over JSON trees; the proof system
  does not support it, nor an induction over trees. Proved of the same code are
  `EveryApplicationHasAPath`, `ReloadStartsAfresh` and `FormatFollowsConfig`: what
  does not depend on the meaning of the file.

## 5. What is not modelled

* The characters of a token: the scanning of strings, numbers and literals by
  `edJSON_parse()`, with its buffers (`nr[32]`, the terminating NUL of
  `edJSON_string_unescape()`). Tokens and texts are atomic, or cut once.
* What `path_mem[-1]` holds, and how the parser goes on with it: the parse ends there,
  with any outcome.
* `_log_add()`: messages, timestamps, verbosity; the content of the log file.
* The wording of responses and messages.
* A drain that never ends because an application writes faster than nanoinit
  reads; what a second stream on the same file writes; changes of the wall clock.
* Memory exhaustion outside `supervisor_start()` and `supervisor_spawn()`; links,
  permissions and full disks in `OutputPath`.

## 6. Plan

Done: all modules of section 2, the runs of section 3 and the proofs of section 4.
What could follow:

1. `CutKeepsWhatPrecedes` without the reference: that the applications loaded from a
   beginning of a file are a beginning of those loaded from the file. It is a
   statement about two parses that agree up to a token, for which `ParseFacts` is
   the layout.
2. `_log_add()` with its placeholders, if the messages are to be modelled.

## 7. Running

    tlc -config Supervisor_safety.cfg MCSupervisor
    tlc -config OutputStream.cfg MCOutputStream
    tlc -config ControlSocket.cfg ControlSocket
    tlc -config ControlProtocol.cfg MCControlProtocol
    tlc -config Startup.cfg MCStartup
    tlapm SupervisorProofs.tla

and likewise for the other `.cfg` files and the modules `ControlSocketProofs`,
`ControlProtocolProofs`, `SequenceFacts`, `OutputPathProofs`, `InputProofs`,
`StartupProofs` and `OutputStreamProofs`. Every run, and the proofs of each module, end within a few
minutes.
