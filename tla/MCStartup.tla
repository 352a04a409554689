----------------------------- MODULE MCStartup ------------------------------
(* Small instances of Startup for TLC, and the properties that compare it   *)
(* with ConfigReference.                                                    *)
EXTENDS Startup, ConfigReference

-----------------------------------------------------------------------------
(* Configuration files.  Sequences, not sets, because TLC cannot compare    *)
(* values of different types.                                               *)

App(name, fields) == Member(name, Object(fields))
PathField == Member("path", Text("prog"))

WebApp == App("web", <<PathField, Member("stdout", Text("out"))>>)
JobApp == App("job", <<Member("stdout", Text("out")), Member("stdout_passthrough", Bool(TRUE)),
                       Member("stderr", Text("")), PathField>>)
QuietApp == App("web", <<PathField, Member("args", Array(<<Text("a"), Text("b")>>)),
                         Member("autostart", Bool(FALSE))>>)
LogFormat == Member("ni_log_format", Text("fmt"))
NoLogDirs == Member("ni_create_log_dirs", Bool(FALSE))

(* Entries of a file, right and wrong ones; the last three are right but    *)
(* not representable.  Of the containers without a value nothing is seen.   *)
Entries == <<
    WebApp, JobApp, QuietApp, LogFormat, NoLogDirs,
    App("job", <<PathField, Member("stderr", Text("err")), Member("stderr_rotate_size", Number(5)),
                 Member("stderr_rotate_count", Number(0))>>),
    App("job", <<Member("args", Text("a")), Member("autorestart", Bool(TRUE)),
                 Member("prefix_logs", Escaped(<<233>>))>>),
    App("web", <<PathField, Member("prefix_logs", Escaped(<<8364>>)),
                 Member("path", Escaped(<<55357, 56832>>))>>),
    App("", <<PathField>>),
    App("web", <<>>),
    App("web", <<Member("path", Object(<<>>))>>),
    App("web", <<PathField, Member("args", Array(<<Text("a"), Array(<<>>)>>))>>),
    App("web", <<PathField, Member("color", Text("a"))>>),
    App("web", <<PathField, Member("autostart", Text("no"))>>),
    App("web", <<PathField, Member("stdout_rotate_size", Number(-1))>>),
    App("web", <<Member("path", Object(<<Member("x", Text("prog"))>>))>>),
    App("web", <<PathField, Member("args", Array(<<Array(<<Text("a")>>)>>))>>),
    Member("web", Text("prog")),
    Member("web", Array(<<Object(<<PathField>>)>>)),
    Member("ni_log_format", Bool(TRUE)),
    Member("ni_create_log_dirs", Object(<<Member("x", Bool(TRUE))>>)),
    App("web", <<PathField, Member("stdout_rotate_size", Number(300))>>),
    App("web", <<PathField, Member("prefix_logs", Escaped(<<169>>))>>),
    App("web", <<PathField, Member("prefix_logs", Text("long"))>>) >>

N == Len(Entries)

(* The settings inside another file, with values before and after them. *)
Nested(root) == Object(<<Member("version", Number(-1)), Member("ni", root),
                         Member("web", Text("a"))>>)

(* Files that are rewritten into each other. *)
Reloaded == <<
    Object(<<WebApp, JobApp>>),
    Object(<<JobApp, NoLogDirs>>),
    Object(<<LogFormat, QuietApp>>),
    Nested(Object(<<WebApp>>)) >>

Trees ==
    LET entries == Entries
        n == Len(entries)
    IN  Reloaded \o
        << Object(<<>>), Array(<<Text("a")>>), Nested(Array(<<Text("a")>>)),
           Nested(Object(<<WebApp, JobApp>>)), Object(<<WebApp, JobApp, WebApp>>),
           Object(<<App("a", <<Member("args", Array(<<Array(<<Array(<<Text("a")>>)>>)>>))>>), WebApp>>) >>
        \o [i \in 1..n |-> Object(<<entries[i]>>)]
        \o [i \in 1..n |-> Nested(Object(<<entries[i]>>))]
        \o [k \in 1..n * n |-> Object(<<entries[((k - 1) \div n) + 1], entries[((k - 1) % n) + 1]>>)]

(* Files that are no JSON: a token of a good one is missing, is another one *)
(* or follows it.                                                           *)
NoJson ==
    LET good == Tokens(Object(<<WebApp, LogFormat>>))
        with(i, kind) == SubSeq(good, 1, i - 1) \o Token(kind) \o SubSeq(good, i + 1, Len(good))
        at(kinds) == SelectSeq([i \in DOMAIN good |-> i], LAMBDA i : good[i].t \in kinds)
        structure == at({"{", ":", ","})
        closing == at({"}"})
    IN  [i \in DOMAIN structure |-> RemoveAt(good, structure[i])]
        \o [i \in DOMAIN good |-> with(i, "junk")]
        \o [i \in DOMAIN closing |-> with(closing[i], "]")]
        \o <<good \o good, good \o Token("}")>>

(* A comma before the last bracket, which edJSON.c accepts, and a bracket   *)
(* after it, for which it uses path_mem[-1].                                *)
WithComma(tree) == Front(Tokens(tree)) \o Token(",") \o <<Last(Tokens(tree))>>
TrailingComma == <<Object(<<WebApp, LogFormat>>), Array(<<Text("a")>>)>>
Stray == <<Tokens(Object(<<>>)) \o Token("}"), WithComma(Object(<<WebApp>>)) \o Token("}")>>

(* A file, the tree it is taken for, and whether that is defined; the text  *)
(* that is no JSON says nothing.  Every third file has comments.            *)
File(content, tree, defined) == [content |-> content, tree |-> tree, defined |-> defined]
Files ==
    LET trees == Trees
        noJson == NoJson
    IN  [i \in DOMAIN trees |->
            File(IF i % 3 = 0 /\ Depth(trees[i]) < PathMax
                   THEN Commented(Tokens(trees[i])) ELSE Tokens(trees[i]), trees[i], TRUE)]
        \o [i \in DOMAIN noJson |-> File(noJson[i], Object(<<>>), TRUE)]
        \o [i \in DOMAIN TrailingComma |->
                File(WithComma(TrailingComma[i]), TrailingComma[i], TRUE)]
        \o [i \in DOMAIN Stray |-> File(Stray[i], Object(<<>>), FALSE)]

MCDocuments == LET inputs == Files IN [i \in DOMAIN inputs |-> inputs[i].content]

(* Behind the content: another NUL, something that is no JSON, the end of   *)
(* the memory, or what is left of an earlier file.                          *)
MCBehind == {<<>>, Token("junk"), Token("unmapped"),
             Token("}") \o Token(",") \o Tail(Tokens(Object(<<App("old", <<PathField>>)>>)))}

MCFormats == [out |-> <<[kind |-> "env", name |-> "ROOT"], [kind |-> "text", name |-> "log"],
                        [kind |-> "value", name |-> "day"], [kind |-> "value", name |-> "app_name"]>>,
              err |-> <<[kind |-> "text", name |-> "log"], [kind |-> "text", name |-> "err"]>>]
MCEnviron == [HOME |-> "home"]

-----------------------------------------------------------------------------
(* Launches *)

Word(key, arg) == [key |-> key, arg |-> arg]
MCObjects == ("(null)" :> RootObject)
             @@ ("" :> [given |-> TRUE, slash |-> TRUE, names |-> <<>>])
             @@ ("/ni" :> [given |-> TRUE, slash |-> TRUE, names |-> <<"ni">>])
             @@ ("ni" :> [given |-> TRUE, slash |-> FALSE, names |-> <<"ni">>])

NoEnv == [config_file |-> Unset, json_object |-> Unset, log_format |-> Null]

Quiet == [p \in Pids |-> IF p = 1 THEN "self" ELSE "none"]
Launch(argv, env, file, doc) ==
    [argv |-> argv, env |-> env, file |-> file, doc |-> doc, next |-> {},
     obstacles |-> {}, tables |-> {Quiet}]

OptionC == Word("c", "cli")
OptionJ(text) == Word("j", text)

(* Every file, at the root and, the nested ones, by their object. *)
EveryFile ==
    {Launch(<<OptionC>>, NoEnv, "cli", d) : d \in DOMAIN MCDocuments}
    \cup {Launch(<<OptionC, OptionJ("/ni")>>, NoEnv, "cli", d) : d \in 1..10 + 2 * N}
    \cup {Launch(<<OptionC, OptionJ(text)>>, NoEnv, "cli", d) : text \in {"ni", ""}, d \in {1, 8}}

(* Every command line of up to three words. *)
Words == {OptionC, Word("c", "etc"), OptionJ("/ni"), Word("l", "log.txt"), Word("r", ""),
          Word("v", "1"), Word("v", "7"),
          Word("arg", "status"), Word("arg", "stop"), Word("arg", "ls"), Word("arg", "web")}
Envs == {NoEnv,
         [NoEnv EXCEPT !.config_file = "env", !.json_object = "/ni"],
         [NoEnv EXCEPT !.log_format = Plain("env_fmt")]}
EveryCommand ==
    {Launch(argv, env, file, 4) : argv \in BoundedSeq(Words, 3), env \in Envs,
                                  file \in {"cli", "env", "etc"}}

(* Reloads, with the file rewritten; in some of them a file is where a      *)
(* directory is needed, or the environment gives the format.                *)
Rewriting(d, env) ==
    [Launch(<<OptionC>>, env, "cli", d) EXCEPT !.next = DOMAIN Reloaded \ {d}]
EveryRewrite ==
    {Rewriting(d, NoEnv) : d \in DOMAIN Reloaded}
    \cup {Rewriting(d, [NoEnv EXCEPT !.log_format = Plain("env_fmt")]) : d \in DOMAIN Reloaded}
    \cup {[Rewriting(d, NoEnv) EXCEPT !.obstacles = {<<"log">>}] : d \in DOMAIN Reloaded}

EveryTable == {[Launch(<<Word("r", "")>>, NoEnv, "cli", 1) EXCEPT !.tables = Tables]}

(* One file, written while it is read. *)
OneRewrite == {[Launch(<<OptionC>>, NoEnv, "cli", 2) EXCEPT !.next = {1}]}
TruncatedLaunches == OneRewrite

AllLaunches == EveryFile \cup EveryCommand \cup EveryRewrite \cup EveryTable

MCLaunches == AllLaunches

-----------------------------------------------------------------------------
(* Properties *)

(* The file that config_init() read last, the object it looked for and what *)
(* it should have loaded.                                                   *)
LastFile == Files[source.doc]
LastObject == MCObjects[arguments.config_json_object]
InForce == AsLoaded(LastFile.tree, LastObject)

(* The file was complete, and it can be told what it means: it has no value *)
(* that nanoinit cannot represent and no application named "" before every  *)
(* other.                                                                   *)
Read ==
    /\ source.whole /\ LastFile.defined
    /\ Representable(LastFile.tree) /\ ~Nameless(LastFile.tree, LastObject)

(* config_init(), at the start and after every reload, makes of a file that *)
(* is written completely exactly what README.md says the file means (but    *)
(* for what AsLoaded names), and of one that is no JSON, has an error or    *)
(* lacks the object the zero configuration; nothing of an earlier           *)
(* configuration is left in it, and it does not crash.                      *)
LoadsWhatIsWritten == Read => (Loaded => config = InForce) /\ pc # "crashed"

(* The format of nanoinit's own messages after every load, a reload         *)
(* included, is the one README.md names: that of NI_LOG_FORMAT, else the    *)
(* one the file in force gives, else the default, never that of an earlier  *)
(* file (log_apply_config_format()).                                        *)
FormatInForce ==
    Loaded /\ (source = NoSource \/ Read) =>
        LET written == IF source = NoSource THEN Null ELSE InForce.ni_log_format
        IN  logger.format = CASE launch.env.log_format # Null -> launch.env.log_format
                              [] launch.env.log_format = Null /\ written # Null -> written
                              [] OTHER -> DefaultFormat

(* A file that config_init() reads while it is being written gives the      *)
(* zero configuration or a beginning of what it will say: the applications  *)
(* come in their order, and all but the last are already as they will be;   *)
(* nothing is left of the file before.  Excepted are ends inside a string   *)
(* or behind the sign or the point of a number, where the parser goes on    *)
(* behind the content, possibly in the text of the file before.             *)
CutKeepsWhatPrecedes ==
    Loaded /\ source.doc # 0 /\ ~source.whole /\ ~source.beyond =>
        LET now == config.applications
            later == InForce.applications
        IN  later # <<>> =>
                /\ Len(now) <= Len(later)
                /\ \A i \in DOMAIN now : now[i].name = later[i].name
                /\ \A i \in 1..Len(now) - 1 : now[i] = later[i]

(* A configuration file that is not valid gives the zero configuration      *)
(* (README.md and test_bad_config.py); a file that ends in the middle of    *)
(* the JSON text is not valid.  Only ends between two tokens count here,    *)
(* after which the parser reads nothing that is not there.                  *)
BadConfigIsZero ==
    Loaded /\ source.doc # 0 /\ ~source.whole /\ ~disk.inside => config.applications = <<>>
=============================================================================
