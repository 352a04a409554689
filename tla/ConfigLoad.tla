----------------------------- MODULE ConfigLoad -----------------------------
(* config_init() of src/source/config.c, as operators on the content of the *)
(* configuration file: the callback that edJSON_parse() calls for every     *)
(* value, and what is made of its result.                                   *)
(*                                                                          *)
(* A definition marked "Mutant" is a wrong variant of the next one, used    *)
(* only to show which property would notice.                                *)
EXTENDS EdJSON

(* An object given with -j: the names between its slashes.  A text that     *)
(* does not begin with a slash matches no path.  Without -j, the root.      *)
RootObject == [given |-> FALSE, slash |-> TRUE, names |-> <<>>]

StringFields == {"path", "prefix_logs", "stdout", "stderr"}
BoolFields == {"autorestart", "autostart", "stdout_passthrough", "stderr_passthrough"}
IntFields == {"stdout_rotate_size", "stdout_rotate_count",
              "stderr_rotate_size", "stderr_rotate_count"}

AppFields == {"name", "args"} \cup StringFields \cup BoolFields \cup IntFields

(* A new element of config.applications. *)
NewApplication(name) ==
    [f \in AppFields |->
        CASE f = "name" -> name
          [] f = "args" -> <<>>
          [] f \in StringFields -> Null
          [] f \in BoolFields -> f = "autostart"
          [] f \in {"stdout_rotate_size", "stderr_rotate_size"} -> 0
          [] f \in {"stdout_rotate_count", "stderr_rotate_count"} -> 1]

(* The cleared configuration with its defaults. *)
ZeroConfig == [applications |-> <<>>, ni_log_format |-> Null,
               ni_create_log_dirs |-> TRUE]

(* Mutant: the applications are freed, but still counted. *)
ConfigFreePartly(config) == [config EXCEPT !.ni_log_format = Null]

ConfigFree(config) == [config EXCEPT !.applications = <<>>, !.ni_log_format = Null]

(* Mutant: a setting that the new file does not mention keeps its value. *)
ConfigSetDefaultsOnce(config) == config

ConfigSetDefaults(config) == [config EXCEPT !.ni_create_log_dirs = TRUE]

-----------------------------------------------------------------------------
(* edJSON_callback().  The message m keeps the state of the search, the     *)
(* return code, the application of the previous value and the global        *)
(* configuration.                                                           *)

Message(object, start) ==
    [object |-> object, app |-> Plain(""), config |-> start,
     state |-> IF object.given THEN "searching" ELSE "found",
     return_code |-> IF object.given THEN 1 ELSE 0]

Continue(m) == [private |-> m, stop |-> FALSE]
Stop(m, code) == [private |-> [m EXCEPT !.return_code = code], stop |-> TRUE]

(* config.applications[-1]: the array is NULL, and the process is killed. *)
Crash(m) == [private |-> [m EXCEPT !.state = "crashed"], stop |-> TRUE]

(* config_path_is_inside_json_object(): textually, the object's name is a   *)
(* prefix of the path and is followed by a slash.                           *)
Inside(object, path) ==
    LET n == Len(object.names)
    IN  /\ object.slash
        /\ n < Len(path)
        /\ n > 0 => path[n + 1].index < 0
        /\ \A i \in 1..n : path[i].index < 0 /\ Unescape(path[i].name) = Plain(object.names[i])

(* ni_log_format and ni_create_log_dirs *)
SetGlobal(m, name, isLeaf, v) ==
    CASE ~isLeaf -> Stop(m, 2)
      [] isLeaf /\ name = "ni_log_format" ->
            IF v.t # "string" THEN Stop(m, 2)
            ELSE IF ~Unescapes(v.v) THEN Stop(m, 4)
            ELSE Continue([m EXCEPT !.config.ni_log_format = Unescape(v.v)])
      [] isLeaf /\ name = "ni_create_log_dirs" ->
            IF v.t # "bool" THEN Stop(m, 2)
            ELSE Continue([m EXCEPT !.config.ni_create_log_dirs = v.v])

(* Every value of another application than the one before adds an element.  *)
(* Before the first one the name is "", so an application of that name adds *)
(* none there.                                                              *)
OpenApplication(m, name) ==
    IF name = m.app THEN m
    ELSE [m EXCEPT !.app = name,
                   !.config.applications = Append(@, NewApplication(name))]

SetField(m, field, v) ==
    IF m.config.applications = <<>> THEN Crash(m)
    ELSE Continue([m EXCEPT !.config.applications[Len(m.config.applications)][field] = v])

(* A wrong value; the message names the application. *)
Refuse(m) == IF m.config.applications = <<>> THEN Crash(m) ELSE Stop(m, 2)

SetString(m, field, rest, v) ==
    IF rest # <<>> \/ v.t # "string" THEN Refuse(m)
    ELSE IF ~Unescapes(v.v) THEN Stop(m, 4)
    ELSE SetField(m, field, Unescape(v.v))

SetBool(m, field, rest, v) ==
    IF rest # <<>> \/ v.t # "bool" THEN Refuse(m) ELSE SetField(m, field, v.v)

(* config_set_non_negative_integer() *)
SetNonNegativeInteger(m, field, v) ==
    IF v.t # "int" \/ v.v < 0 THEN Refuse(m) ELSE SetField(m, field, v.v)

SetInteger(m, field, rest, v) ==
    IF rest # <<>> THEN Refuse(m) ELSE SetNonNegativeInteger(m, field, v)

(* One string, or the elements of an array of strings, are appended. *)
SetArgs(m, rest, v) ==
    IF Len(rest) > 1 \/ (Len(rest) = 1 /\ rest[1].index < 0) THEN Refuse(m)
    ELSE IF v.t # "string" THEN Refuse(m)
    ELSE IF ~Unescapes(v.v) THEN Stop(m, 4)
    ELSE SetField(m, "args", Append(Last(m.config.applications).args, Unescape(v.v)))

(* One field of the current application; rest are the elements of the path  *)
(* below it.                                                                *)
SetProperty(m, field, rest, v) ==
    CASE field = "args" -> SetArgs(m, rest, v)
      [] field \in StringFields -> SetString(m, field, rest, v)
      [] field \in BoolFields -> SetBool(m, field, rest, v)
      [] field \in IntFields -> SetInteger(m, field, rest, v)
      [] OTHER -> Stop(m, 2)

(* A value inside the object: its first element is a global or the name of  *)
(* an application, its second a field of the application.                   *)
Found(m, path, v) ==
    LET own == SubSeq(path, Len(m.object.names) + 1, Len(path))
        name == Unescape(own[1].name)
        opened == OpenApplication(m, name)
    IN  CASE own[1].index >= 0 -> Stop(m, 2)
          [] own[1].index < 0 /\ name.text \in {"ni_log_format", "ni_create_log_dirs"}
                              /\ name.bytes = <<>> ->
                SetGlobal(m, name.text, Len(own) = 1, v)
          [] OTHER ->
                IF Len(own) = 1 \/ own[2].index >= 0 THEN Stop(opened, 2)
                ELSE SetProperty(opened,
                        IF Unescape(own[2].name).bytes = <<>> THEN own[2].name.text
                                                              ELSE "(other)",
                        SubSeq(own, 3, Len(own)), v)

EdJSONCallback(path, v, m) ==
    LET inside == Inside(m.object, path)
        found == [m EXCEPT !.state = "found", !.return_code = 0] IN
    CASE \E i \in DOMAIN path : path[i].index < 0 /\ ~Unescapes(path[i].name) -> Stop(m, 3)
      [] OTHER ->
            CASE m.state = "searching" /\ ~inside -> Continue(m)
              [] m.state = "searching" /\ inside -> Found(found, path, v)
              [] m.state = "found" /\ inside -> Found(m, path, v)
              [] m.state = "found" /\ ~inside -> Stop([m EXCEPT !.state = "finished"], 0)

-----------------------------------------------------------------------------
(* edJSON_parse() with this callback, which is called for a value. *)
Called(p) ==
    IF p.rc = "parsing" /\ p.state = "in_value"
      THEN Returned(p, EdJSONCallback(EventPath(p), EventValue(p), p.private))
      ELSE p

(* The state the parser ends in, as a set. *)
Parse(private, tokens) ==
    LET parsed[i \in 0..Len(tokens)] ==
            IF i = 0 THEN {ParseBegin(private)}
            ELSE {Called(q) : q \in {Step(p, tokens[i]) : p \in parsed[i - 1]}}
    IN  {AtEnd(p) : p \in parsed[Len(tokens)]}

-----------------------------------------------------------------------------
(* config_init() *)

Complete(config) ==
    \A i \in DOMAIN config.applications : config.applications[i].path # Null

Accepted(m) ==
    IF m.return_code = 0 /\ Complete(m.config) THEN m.config ELSE ZeroConfig

(* The parser at its end, given the configuration in force before. *)
Ends(before, tokens, object) ==
    Parse(Message(object, ConfigSetDefaults(ConfigFree(before))), tokens)

(* The configurations that the content may lead to.  The use of             *)
(* path_mem[-1] may pass for the end of the content or for an error.        *)
ConfigInit(before, tokens, object) ==
    LET ends == {p \in Ends(before, tokens, object) : p.private.state # "crashed"}
    IN  {Accepted(p.private) : p \in {q \in ends : q.rc \in {"success", "undefined"}}}
        \cup {ZeroConfig : p \in {q \in ends : q.rc \notin {"success", "crashed"}}}

(* The process may also be killed. *)
ConfigInitCrashes(before, tokens, object) ==
    \E p \in Ends(before, tokens, object) :
        p.rc \in {"crashed", "undefined"} \/ p.private.state = "crashed"

(* Without a file, or with one that cannot be read. *)
ConfigInitNoFile(before) == ConfigSetDefaults(ConfigFree(before))
=============================================================================
