-------------------------- MODULE ConfigReference ---------------------------
(* What a configuration file is meant to say, for comparison with what      *)
(* ConfigLoad makes of its tokens: JSON values as trees, their rendering to *)
(* tokens, and the configuration that README.md attaches to a tree.         *)
EXTENDS ConfigLoad, FiniteSetsExt

(* Trees.  The members of an object are in the order of the file. *)
Text(s) == [k |-> "string", v |-> Str(s)]
Escaped(units) == [k |-> "string", v |-> [text |-> "", units |-> units]]
Bool(b) == [k |-> "bool", v |-> b]
Number(n) == [k |-> "int", v |-> n]
Object(members) == [k |-> "obj", v |-> members]
Array(elements) == [k |-> "arr", v |-> elements]
Member(name, node) == [name |-> name, node |-> node]

IsContainer(node) == node.k \in {"obj", "arr"}

Children(node) ==
    CASE node.k = "obj" -> [i \in DOMAIN node.v |-> node.v[i].node]
      [] node.k = "arr" -> node.v
      [] OTHER -> <<>>

RECURSIVE Tokens(_), Depth(_), Seen(_), HasValue(_)

Token(t) == <<[t |-> t, v |-> 0]>>
Separated(parts) ==
    FlattenSeq([i \in DOMAIN parts |-> (IF i = 1 THEN <<>> ELSE Token(",")) \o parts[i]])

Tokens(node) ==
    CASE node.k = "obj" ->
            Token("{") \o Separated([i \in DOMAIN node.v |->
                <<[t |-> "string", v |-> Str(node.v[i].name)]>> \o Token(":")
                \o Tokens(node.v[i].node)]) \o Token("}")
      [] node.k = "arr" ->
            Token("[") \o Separated([i \in DOMAIN node.v |-> Tokens(node.v[i])]) \o Token("]")
      [] OTHER -> <<[t |-> node.k, v |-> node.v]>>

(* A comment after every token. *)
Commented(tokens) ==
    FlattenSeq([i \in DOMAIN tokens |-> <<tokens[i]>> \o Token("comment")])

Depth(node) ==
    IF IsContainer(node)
    THEN 1 + Max({0} \cup {Depth(Children(node)[i]) : i \in DOMAIN node.v})
    ELSE 0

HasValue(node) ==
    IsContainer(node) => \E i \in DOMAIN node.v : HasValue(Children(node)[i])

(* The tree without the containers in which there is no value. *)
Seen(node) ==
    CASE node.k = "obj" ->
            LET kept == SelectSeq(node.v, LAMBDA m : HasValue(m.node))
            IN  Object([i \in DOMAIN kept |-> Member(kept[i].name, Seen(kept[i].node))])
      [] node.k = "arr" ->
            LET kept == SelectSeq(node.v, HasValue)
            IN  Array([i \in DOMAIN kept |-> Seen(kept[i])])
      [] OTHER -> node

-----------------------------------------------------------------------------
(* Strings and numbers *)

(* UTF-8 *)
Utf8(c) ==
    LET tail(n) == 128 + ((c \div n) % 64) IN
    IF c < 128 THEN <<c>>
    ELSE IF c < 2048 THEN <<192 + (c \div 64), tail(1)>>
    ELSE IF c < 65536 THEN <<224 + (c \div 4096), tail(64), tail(1)>>
    ELSE <<240 + (c \div 262144), tail(4096), tail(64), tail(1)>>

Character(units) ==
    IF Len(units) = 1 THEN units[1]
    ELSE 65536 + (units[1] - 55296) * 1024 + (units[2] - 56320)

Decoded(s) == [text |-> s.text,
               bytes |-> IF s.units = <<>> THEN <<>> ELSE Utf8(Character(s.units))]

(* The strings and numbers that nanoinit can represent: not U+0080..U+00BF, *)
(* U+0400..U+07FF and U+E000..U+FFFF, no text longer than its buffer, and   *)
(* no number that does not fit an int.                                      *)
RECURSIVE Representable(_)
Representable(node) ==
    CASE IsContainer(node) -> \A i \in DOMAIN node.v : Representable(Children(node)[i])
      [] node.k = "string" ->
            /\ node.v.text \notin LongTexts
            /\ Len(node.v.units) = 1 =>
                  \/ node.v.units[1] \in 0..127
                  \/ node.v.units[1] \in 192..1023
                  \/ node.v.units[1] \in 2048..55295
      [] node.k = "int" -> node.v \in -(2^(IntBits - 1))..2^(IntBits - 1) - 1
      [] OTHER -> TRUE

-----------------------------------------------------------------------------
(* The configuration *)

(* The members of the object that -j names. *)
RECURSIVE Section(_, _)
Section(node, names) ==
    IF node.k # "obj" THEN <<>>
    ELSE IF names = <<>> THEN node.v
    ELSE LET found == SelectSeq(node.v, LAMBDA m : m.name = Head(names))
         IN  IF found = <<>> THEN <<>> ELSE Section(Head(found).node, Tail(names))

Globals == {"ni_log_format", "ni_create_log_dirs"}

FieldIsValid(m) ==
    \/ m.name \in StringFields /\ m.node.k = "string"
    \/ m.name \in BoolFields /\ m.node.k = "bool"
    \/ m.name \in IntFields /\ m.node.k = "int" /\ m.node.v >= 0
    \/ m.name = "args" /\ m.node.k = "string"
    \/ m.name = "args" /\ m.node.k = "arr" /\ \A i \in DOMAIN m.node.v : m.node.v[i].k = "string"

EntryIsValid(m) ==
    \/ m.name = "ni_log_format" /\ m.node.k = "string"
    \/ m.name = "ni_create_log_dirs" /\ m.node.k = "bool"
    \/ /\ m.name \notin Globals
       /\ m.node.k = "obj"
       /\ \A i \in DOMAIN m.node.v : FieldIsValid(m.node.v[i])

(* README.md, "Application fields" *)
Default(field) ==
    CASE field \in StringFields -> Null
      [] field = "autostart" -> TRUE
      [] field \in BoolFields \ {"autostart"} -> FALSE
      [] field \in {"stdout_rotate_size", "stderr_rotate_size"} -> 0
      [] field \in {"stdout_rotate_count", "stderr_rotate_count"} -> 1

ValueOf(node) == IF node.k = "string" THEN Decoded(node.v) ELSE node.v

(* The last of the members with a name counts. *)
LastOr(members, name, default) ==
    LET found == SelectSeq(members, LAMBDA m : m.name = name)
    IN  IF found = <<>> THEN default ELSE ValueOf(Last(found).node)

ArgsOf(members) ==
    LET args == SelectSeq(members, LAMBDA m : m.name = "args")
        values(n) == IF n.k = "arr" THEN [i \in DOMAIN n.v |-> Decoded(n.v[i].v)]
                                    ELSE <<Decoded(n.v)>>
    IN  FlattenSeq([i \in DOMAIN args |-> values(args[i].node)])

(* Adjacent entries for one application are one application. *)
Applications(entries) ==
    LET apps == SelectSeq(entries, LAMBDA m : m.name \notin Globals)
        starts == SelectSeq([i \in DOMAIN apps |-> i],
                            LAMBDA i : i = 1 \/ apps[i - 1].name # apps[i].name)
        end(k) == IF k = Len(starts) THEN Len(apps) ELSE starts[k + 1] - 1
        members(k) == FlattenSeq([i \in 1..end(k) - starts[k] + 1 |->
                                     apps[starts[k] + i - 1].node.v])
    IN  [k \in DOMAIN starts |->
            [f \in {"name", "args"} \cup StringFields \cup BoolFields \cup IntFields |->
                CASE f = "name" -> Plain(apps[starts[k]].name)
                  [] f = "args" -> ArgsOf(members(k))
                  [] OTHER -> LastOr(members(k), f, Default(f))]]

(* All or nothing: one entry that is not understood, an application without *)
(* a path or an object that is not there gives the zero configuration.      *)
(* Whether the object's name begins with a slash does not matter: README.md *)
(* only recommends it.                                                      *)
Expected(tree, object) ==
    LET entries == Section(tree, object.names)
        config == [applications |-> Applications(entries),
                   ni_log_format |-> LastOr(entries, "ni_log_format", Null),
                   ni_create_log_dirs |-> LastOr(entries, "ni_create_log_dirs", TRUE)]
    IN  IF \E i \in DOMAIN entries : ~EntryIsValid(entries[i]) THEN ZeroConfig
        ELSE IF \E i \in DOMAIN config.applications : config.applications[i].path = Null
        THEN ZeroConfig
        ELSE config

-----------------------------------------------------------------------------
(* Where config.c is known to differ *)

(* Containers without a value are not noticed, not even as an application   *)
(* without a path; an object named without a slash is never found; and what *)
(* is nested deeper than path_mem is refused.                               *)
AsLoaded(tree, object) ==
    IF ~object.slash \/ Depth(tree) > PathMax THEN ZeroConfig
    ELSE Expected(Seen(tree), object)

(* The first value that is not a global belongs to an application named "", *)
(* for which no element is added.                                           *)
Nameless(tree, object) ==
    LET entries == Section(Seen(tree), object.names)
    IN  object.slash /\ \E i \in DOMAIN entries :
            /\ entries[i].name = "" /\ entries[i].node.k = "obj"
            /\ \A j \in 1..i - 1 : entries[j].name \in Globals /\ EntryIsValid(entries[j])
=============================================================================
