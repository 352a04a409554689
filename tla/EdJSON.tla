------------------------------- MODULE EdJSON -------------------------------
(* The JSON parser of src/source/edJSON/edJSON.c, as operators.  A file is  *)
(* a sequence of tokens; white space is left out, and a comment is one      *)
(* token.  The callback of edJSON_parse() belongs to its caller: it is      *)
(* called in the state in_value, between Value() and Returned().            *)
EXTENDS Integers, Sequences, SequencesExt

CONSTANTS PathMax,      \* elements of path_mem (EDJSON_PATH_MAX)
          IntBits,      \* width of the int of edJSON_value_t
          LongTexts,    \* texts that do not fit JSON_PARSE_BUFFER_SIZE
          Behind        \* what may be in memory behind the content, as tokens

IsTokens(tokens) == tokens \in Seq({tokens[i] : i \in DOMAIN tokens})

ASSUME EdJSONAssumption ==
    /\ PathMax \in Nat \ {0} /\ IntBits \in Nat \ {0}
    /\ \A tokens \in Behind : IsTokens(tokens)

(* A JSON string: some text, then the 16-bit units of one \u escape, or     *)
(* none.  Unescaped, the units are UTF-8 bytes.                             *)
Str(text) == [text |-> text, units |-> <<>>]
Plain(text) == [text |-> text, bytes |-> <<>>]
Null == [text |-> "(null)", bytes |-> <<>>]

Scalars == {"string", "cut_string", "bool", "int", "double", "null"}

-----------------------------------------------------------------------------
(* edJSON_string_unescape() *)

(* One or two \uXXXX to a code point; everything from 0xD800 on is taken    *)
(* for the first half of a pair.                                            *)
CodePoint(units) ==
    IF units[1] < 55296 THEN units[1]
    ELSE IF Len(units) = 1 \/ units[Len(units)] < 56320 THEN -1
    ELSE (units[1] - 55296) * 1024 + (units[2] - 56320) + 65536

(* The code point to UTF-8.  The two-byte form masks with 0x3C0, four bits  *)
(* where UTF-8 has five, and refuses a first byte below 0xC3.               *)
Encode(u) ==
    LET bits(n, w) == (u \div n) % w
        low(n) == 128 + bits(n, 64) IN
    IF u < 128 THEN <<u>>
    ELSE IF u < 2048 THEN
        LET first == 192 + bits(64, 16)
        IN  IF first < 195 THEN <<>> ELSE <<first, low(1)>>
    ELSE IF u < 65536 THEN <<224 + bits(4096, 16), low(64), low(1)>>
    ELSE IF u < 1114112 THEN
        <<240 + bits(262144, 8), low(4096), low(64), low(1)>>
    ELSE <<>>

Unescapes(s) ==
    /\ s.text \notin LongTexts
    /\ s.units # <<>> => CodePoint(s.units) >= 0 /\ Encode(CodePoint(s.units)) # <<>>

Unescape(s) == [text |-> s.text,
                bytes |-> IF s.units = <<>> THEN <<>> ELSE Encode(CodePoint(s.units))]

(* atoll() to an int: the value modulo 2^IntBits, in two's complement. *)
ToInt(n) == LET m == n % 2^IntBits
            IN  IF m < 2^(IntBits - 1) THEN m ELSE m - 2^IntBits

-----------------------------------------------------------------------------
(* edJSON_parse().  The parser's state: its own state, top (a size_t, -1    *)
(* stands for the wrapped value), path_mem, what the callback keeps, and    *)
(* how it ended: "error" is a content error, "crashed" an access to memory  *)
(* that is not there, "undefined" a use of path_mem[-1].                    *)

ParseBegin(private) ==
    [state |-> "begin", top |-> 0, private |-> private, rc |-> "parsing",
     value |-> [t |-> "null", v |-> 0],
     path |-> [i \in 0..PathMax - 1 |->
                 [prev |-> "begin", index |-> -1, name |-> Str("")]]]

Fail(p, rc) == [p EXCEPT !.rc = rc]
Goto(p, state) == [p EXCEPT !.state = state]

(* "{" or "[" one level down; only an array resets the index. *)
Push(p, state) ==
    LET below == p.path[p.top + 1]
    IN  IF p.top + 1 >= PathMax THEN Fail(p, "no_memory")
        ELSE [p EXCEPT !.state = state, !.top = @ + 1,
                       !.path[p.top + 1] = [below EXCEPT !.prev = state,
                           !.index = IF state = "in_array" THEN -1 ELSE below.index]]

NextIndex(p) == [p EXCEPT !.path[p.top].index = @ + 1]

(* The closing bracket of an object without members left, or of any array:  *)
(* top is decremented even when it is 0.                                    *)
Pop(p) == [p EXCEPT !.state = "find_comma", !.top = @ - 1, !.path[p.top].index = -1]

(* A comment needs an element of path_mem to remember the state. *)
Comment(p) == IF p.top + 1 >= PathMax THEN Fail(p, "no_memory") ELSE p

(* A value is handed to the callback with the elements 0..top. *)
Value(p, token) == [p EXCEPT !.state = "in_value", !.value = token]

EventPath(p) == [i \in 1..p.top + 1 |-> p.path[i - 1]]
EventValue(p) == [p.value EXCEPT !.t = IF @ = "cut_string" THEN "string" ELSE @,
                                 !.v = IF p.value.t = "int" THEN ToInt(@) ELSE @]

(* What follows the callback. *)
Returned(p, answer) ==
    LET q == [p EXCEPT !.private = answer.private]
    IN  IF answer.stop THEN Fail(q, "success") ELSE Goto(q, "find_comma")

Begin(p, token) ==
    CASE token.t = "{" -> [p EXCEPT !.state = "in_object", !.path[0].prev = "in_object"]
      [] token.t = "[" -> [p EXCEPT !.state = "in_array", !.path[0].prev = "in_array"]
      [] OTHER -> Fail(p, "error")

(* A name that the end of the content cuts ends the parser, successfully. *)
InObject(p, token) ==
    CASE token.t = "string" ->
            [p EXCEPT !.state = "find_colon",
                      !.path[p.top] = [@ EXCEPT !.index = -1, !.name = token.v]]
      [] token.t = "cut_string" -> Fail(p, "success")
      [] token.t = "}" -> [p EXCEPT !.state = "find_comma", !.top = @ - 1]
      [] OTHER -> Fail(p, "error")

FindValue(p, token) ==
    CASE token.t = "{" -> Push(p, "in_object")
      [] token.t = "[" -> Push(p, "in_array")
      [] token.t \in Scalars -> Value(p, token)
      [] OTHER -> Fail(p, "error")

InArray(p, token) ==
    CASE token.t = "{" -> Push(NextIndex(p), "in_object")
      [] token.t = "[" -> Push(NextIndex(p), "in_array")
      [] token.t = "]" -> Pop(p)
      [] token.t \in Scalars -> Value(NextIndex(p), token)
      [] OTHER -> Fail(p, "error")

(* A comma leads back into the container, so a trailing one is accepted.    *)
(* Only the "}" of the root object after a member ends the document.  After *)
(* any other end of the root top is -1, and what path_mem[-1] holds decides *)
(* about the next token.                                                    *)
FindComma(p, token) ==
    CASE token.t \notin {",", "]", "}"} -> Fail(p, "error")
      [] token.t \in {",", "]", "}"} /\ p.top = -1 -> Fail(p, "undefined")
      [] token.t = "," /\ p.top >= 0 -> Goto(p, p.path[p.top].prev)
      [] token.t = "]" /\ p.top >= 0 ->
            IF p.path[p.top].prev = "in_array" THEN Pop(p) ELSE Fail(p, "error")
      [] token.t = "}" /\ p.top >= 0 ->
            IF p.path[p.top].prev # "in_object" THEN Fail(p, "error")
            ELSE IF p.top = 0 THEN Goto(p, "finished")
            ELSE [p EXCEPT !.top = @ - 1]

(* One token, by the state of the parser. *)
Step(p, token) ==
    CASE p.rc # "parsing" -> p
      [] p.rc = "parsing" /\ token.t = "unmapped" -> Fail(p, "crashed")
      [] p.rc = "parsing" /\ token.t = "comment" -> Comment(p)
      [] p.rc = "parsing" /\ token.t \notin {"unmapped", "comment"} ->
            CASE p.state = "begin" -> Begin(p, token)
              [] p.state = "in_object" -> InObject(p, token)
              [] p.state = "find_colon" ->
                    IF token.t = ":" THEN Goto(p, "find_value") ELSE Fail(p, "error")
              [] p.state = "find_value" -> FindValue(p, token)
              [] p.state = "in_array" -> InArray(p, token)
              [] p.state = "find_comma" -> FindComma(p, token)
              [] p.state = "finished" -> Fail(p, "error")

(* The content is only inspected up to its end: in whatever state the       *)
(* parser is there, it returns EDJSON_SUCCESS.                              *)
AtEnd(p) == IF p.rc = "parsing" THEN Fail(p, "success") ELSE p

-----------------------------------------------------------------------------
(* What the parser can see of a file of which only a part has been written: *)
(* the first n tokens and, if inside, the beginning of the next one.  A     *)
(* number that ends the content is classified as a double, because strchr() *)
(* also finds the terminating NUL.                                          *)
LastOf(token) == IF token.t = "int" THEN [token EXCEPT !.t = "double"] ELSE token

(* A string value without a closing quote, a string that ends with a        *)
(* backslash, a number that ends with its sign or its point: the index      *)
(* passes the NUL, and the parser goes on with what lies behind.            *)
LeavesContent(token) ==
    token.t \in {"string", "double"} \/ (token.t = "int" /\ token.v < 0)

Leaving(token) == {<<token>> \o tokens : tokens \in Behind}

(* A literal or a slash that is cut is an error. *)
InsideOf(token) ==
    CASE token.t = "string" -> Leaving([t |-> "string", v |-> Str("(part)")])
                               \cup Leaving([t |-> "cut_string", v |-> Str("(part)")])
      [] token.t = "int" ->
            {<<[token EXCEPT !.t = "double"]>>}
            \cup IF LeavesContent(token) THEN Leaving([token EXCEPT !.v = 0]) ELSE {}
      [] token.t = "double" -> {<<token>>} \cup Leaving(token)
      [] token.t \in {"bool", "null"} -> {<<[token EXCEPT !.t = "junk"]>>}
      [] token.t = "comment" -> {<<token>>, <<[token EXCEPT !.t = "junk"]>>}
      [] OTHER -> {<<>>}

CutAt(tokens, n, inside) ==
    IF inside THEN {SubSeq(tokens, 1, n) \o rest : rest \in InsideOf(tokens[n + 1])}
    ELSE IF n = 0 THEN {<<>>}
    ELSE {SubSeq(tokens, 1, n - 1) \o <<LastOf(tokens[n])>>}
=============================================================================
