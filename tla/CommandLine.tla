---------------------------- MODULE CommandLine -----------------------------
(* The command line of nanoinit, src/source/arguments.c, as operators.  An  *)
(* argument vector is a sequence of [key, arg]: an option, or key "arg" for *)
(* a word that is none.  A "Mutant" is a wrong variant of the next          *)
(* definition, used only to show which property would notice.               *)
EXTENDS Integers, Sequences

OptionKeys == {"c", "j", "l", "r", "v"}

NeedsApp == {"status", "start", "stop"}

Unset == "(null)"

NoArguments == [special_mode |-> "none", control_app_name |-> Unset,
                config_file |-> Unset, config_json_object |-> Unset, log_path |-> Unset,
                verbosity_level |-> "0", arg_num |-> 0, usage |-> FALSE]

(* argp_usage() prints the usage and exits. *)
Usage(a) == [a EXCEPT !.usage = TRUE]

SetVerbosity(a, arg) ==
    IF arg \in {"0", "1", "2"} THEN [a EXCEPT !.verbosity_level = arg] ELSE Usage(a)

(* The first word is a command, the second the application it is about. *)
CommandWord(a, arg) ==
    CASE a.arg_num = 0 ->
            IF a.special_mode # "none" \/ arg \notin NeedsApp \cup {"list", "ls"}
            THEN Usage(a)
            ELSE [a EXCEPT !.special_mode = IF arg = "ls" THEN "list" ELSE arg,
                           !.arg_num = 1]
      [] a.arg_num = 1 ->
            IF a.special_mode \notin NeedsApp THEN Usage(a)
            ELSE [a EXCEPT !.control_app_name = arg, !.arg_num = 2]
      [] OTHER -> Usage(a)

(* Mutant: nobody asks whether a word is missing. *)
CommandEndUnchecked(a) == a

CommandEnd(a) ==
    IF \/ a.special_mode \in NeedsApp /\ a.control_app_name = Unset
       \/ a.special_mode = "list" /\ a.control_app_name # Unset
    THEN Usage(a) ELSE a

(* argp_parse_cb() *)
ArgpParseCb(a, word) ==
    CASE a.usage -> a
      [] ~a.usage /\ word.key = "c" -> [a EXCEPT !.config_file = word.arg]
      [] ~a.usage /\ word.key = "j" -> [a EXCEPT !.config_json_object = word.arg]
      [] ~a.usage /\ word.key = "l" -> [a EXCEPT !.log_path = word.arg]
      [] ~a.usage /\ word.key = "r" -> [a EXCEPT !.special_mode = "reload"]
      [] ~a.usage /\ word.key = "v" -> SetVerbosity(a, word.arg)
      [] ~a.usage /\ word.key = "arg" -> CommandWord(a, word.arg)

(* What the callback makes of those with one of the keys, one by one. *)
HandOver(argv, start, keys) ==
    LET parsed[k \in 0..Len(argv)] ==
            IF k = 0 THEN start
            ELSE IF argv[k].key \in keys THEN ArgpParseCb(parsed[k - 1], argv[k])
            ELSE parsed[k - 1]
    IN  parsed[Len(argv)]

(* External: argp_parse() hands over the options first, wherever they are,  *)
(* then the other words, then the end.                                      *)
ArgpParse(argv) ==
    LET options == HandOver(argv, NoArguments, OptionKeys)
        a == HandOver(argv, options, {"arg"})
    IN  IF a.usage THEN a ELSE CommandEnd(a)

(* arguments_init(): the environment wins over the options, and the default *)
(* file is only taken if it exists when nanoinit is started.                *)
ArgumentsInit(argv, env, defaultExists) ==
    LET a == ArgpParse(argv)
        file == IF env.config_file # Unset THEN env.config_file ELSE a.config_file
    IN  [a EXCEPT !.config_file = IF file = Unset /\ defaultExists THEN "etc" ELSE file,
                  !.config_json_object = IF env.json_object # Unset THEN env.json_object
                                                                    ELSE @]
=============================================================================
