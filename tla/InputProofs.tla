---------------------------- MODULE InputProofs -----------------------------
(* Proofs about CommandLine, EdJSON and ConfigLoad: what argp_parse() makes *)
(* of a command line of any length, with the options anywhere among the     *)
(* words, and that config_init() makes a configuration of whatever a file   *)
(* contains, in which nothing is left of an earlier one.                    *)
EXTENDS CommandLine, ConfigLoad, SequenceFacts

(* STRING, with the members that are named here. *)
Texts == STRING \cup {Unset, "none", "reload", "list", "0"}

(* What is on a command line, and what is made of it. *)
Given == [key : OptionKeys \cup {"arg"}, arg : STRING \ {Unset}]
Arguments == [special_mode : Texts, control_app_name : Texts, config_file : Texts,
              config_json_object : Texts, log_path : Texts, verbosity_level : Texts,
              arg_num : 0..2, usage : BOOLEAN]

Levels == {"0", "1", "2"}
CommandNames == NeedsApp \cup {"list", "ls"}
CommandOf(arg) == IF arg = "ls" THEN "list" ELSE arg

(* Where the first k have this key. *)
At(argv, k, key) == {i \in 1..k : argv[i].key = key}

(* The results of handing over one by one. *)
After(argv, x, keys, k) == IF argv[k].key \in keys THEN ArgpParseCb(x, argv[k]) ELSE x

-----------------------------------------------------------------------------
(* The recursive function in HandOver is there, so it is what it says. *)
LEMMA HandOverFacts ==
    ASSUME NEW argv \in Seq(Given), NEW start, NEW keys
    PROVE  \E f : /\ f[0] = start
                  /\ \A k \in 1..Len(argv) : f[k] = After(argv, f[k - 1], keys, k)
                  /\ HandOver(argv, start, keys) = f[Len(argv)]
<1> DEFINE Rec(f, m) == f = [k \in 0..m |-> IF k = 0 THEN start ELSE After(argv, f[k - 1], keys, k)]
           bad == {m \in Nat : ~\E f : Rec(f, m)}
           g == CHOOSE f : Rec(f, Len(argv))
<1>1. Len(argv) \in Nat
  OBVIOUS
<1>2. bad = {}
  <2> SUFFICES ASSUME bad # {} PROVE FALSE
    OBVIOUS
  <2>1. PICK n \in bad : \A m \in bad : n <= m
    BY Least
  <2>2. CASE n = 0
    <3>1. Rec([k \in 0..0 |-> start], 0)
      OBVIOUS
    <3> QED BY <2>1, <2>2, <3>1
  <2>3. CASE n # 0
    <3>1. n \in Nat /\ n - 1 \in Nat /\ ~(n <= n - 1)
      BY <2>1, <2>3
    <3>2. PICK f : Rec(f, n - 1)
      BY <2>1, <3>1
    <3> DEFINE h == [k \in 0..n |-> IF k = n THEN After(argv, f[n - 1], keys, n) ELSE f[k]]
    <3>3. ASSUME NEW k \in 0..n
          PROVE  h[k] = IF k = 0 THEN start ELSE After(argv, h[k - 1], keys, k)
      <4>1. CASE k = 0
        <5>1. 0 \in 0..n - 1 /\ k # n
          BY <2>3, <3>1, <4>1
        <5> QED BY <3>2, <4>1, <5>1
      <4>2. CASE k # 0
        <5>1. k - 1 \in 0..n - 1 /\ k - 1 \in 0..n /\ k - 1 # n
          BY <3>1, <4>2
        <5>2. h[k - 1] = f[k - 1]
          BY <5>1
        <5>3. CASE k = n
          BY <4>2, <5>2, <5>3
        <5>4. CASE k # n
          <6>1. k \in 0..n - 1
            BY <3>1, <5>4
          <6>2. f[k] = After(argv, f[k - 1], keys, k)
            BY <3>2, <4>2, <6>1
          <6> QED BY <4>2, <5>2, <5>4, <6>2
        <5> QED BY <5>3, <5>4
      <4> QED BY <4>1, <4>2
    <3>4. h = [k \in 0..n |-> h[k]]
      OBVIOUS
    <3> HIDE DEF h
    <3>5. Rec(h, n)
      BY <3>3, <3>4, Zenon
    <3> QED BY <2>1, <3>5
  <2> QED BY <2>2, <2>3
<1>3. \E f : Rec(f, Len(argv))
  <2> HIDE DEF Rec
  <2> QED BY <1>1, <1>2
<1>4. Rec(g, Len(argv))
  <2> HIDE DEF Rec
  <2> QED BY <1>3
<1>5. HandOver(argv, start, keys) = g[Len(argv)]
  BY DEF HandOver, After
<1> HIDE DEF g
<1>6. g[0] = start
  BY <1>1, <1>4
<1>7. ASSUME NEW k \in 1..Len(argv) PROVE g[k] = After(argv, g[k - 1], keys, k)
  <2>1. k \in 0..Len(argv) /\ k # 0
    BY <1>1
  <2> QED BY <1>4, <2>1
<1> QED BY <1>5, <1>6, <1>7

(* One more position. *)
LEMMA AtNext ==
    ASSUME NEW argv, NEW k \in Nat \ {0}, NEW key
    PROVE  /\ At(argv, k, key) = IF argv[k].key = key THEN At(argv, k - 1, key) \cup {k}
                                                      ELSE At(argv, k - 1, key)
           /\ \A i \in At(argv, k - 1, key) : i \in Nat /\ i < k
<1>1. 1..k = (1..k - 1) \cup {k} /\ \A i \in 1..k - 1 : i \in Nat /\ i < k
  OBVIOUS
<1> QED BY <1>1 DEF At

-----------------------------------------------------------------------------
(* The callback *)

(* An option. *)
LEMMA OptionFacts ==
    ASSUME NEW a \in Arguments, NEW w \in Given, w.key \in OptionKeys, ~a.usage,
           NEW b, b = ArgpParseCb(a, w)
    PROVE  /\ b \in Arguments
           /\ b.usage <=> w.key = "v" /\ w.arg \notin Levels
           /\ b.config_file = IF w.key = "c" THEN w.arg ELSE a.config_file
           /\ b.special_mode = IF w.key = "r" THEN "reload" ELSE a.special_mode
           /\ b.arg_num = a.arg_num /\ b.control_app_name = a.control_app_name
<1>1. w.arg \in Texts /\ "reload" \in Texts /\ w.key \in {"c", "j", "l", "r", "v"}
  BY DEF Given, OptionKeys, Texts
<1>2. CASE w.key = "c"
  <2>1. b = [a EXCEPT !.config_file = w.arg]
    BY <1>2 DEF ArgpParseCb
  <2> QED BY <1>1, <1>2, <2>1 DEF Arguments
<1>3. CASE w.key = "j"
  <2>1. b = [a EXCEPT !.config_json_object = w.arg]
    BY <1>3 DEF ArgpParseCb
  <2> QED BY <1>1, <1>3, <2>1 DEF Arguments
<1>4. CASE w.key = "l"
  <2>1. b = [a EXCEPT !.log_path = w.arg]
    BY <1>4 DEF ArgpParseCb
  <2> QED BY <1>1, <1>4, <2>1 DEF Arguments
<1>5. CASE w.key = "r"
  <2>1. b = [a EXCEPT !.special_mode = "reload"]
    BY <1>5 DEF ArgpParseCb
  <2> QED BY <1>1, <1>5, <2>1 DEF Arguments
<1>6. CASE w.key = "v"
  <2>1. b = SetVerbosity(a, w.arg)
    BY <1>6 DEF ArgpParseCb
  <2>2. CASE w.arg \in Levels
    <3>1. b = [a EXCEPT !.verbosity_level = w.arg]
      BY <2>1, <2>2 DEF SetVerbosity, Levels
    <3> QED BY <1>1, <1>6, <2>2, <3>1 DEF Arguments
  <2>3. CASE w.arg \notin Levels
    <3>1. b = [a EXCEPT !.usage = TRUE]
      BY <2>1, <2>3 DEF SetVerbosity, Usage, Levels
    <3> QED BY <1>1, <1>6, <2>3, <3>1 DEF Arguments
  <2> QED BY <2>2, <2>3
<1> QED BY <1>1, <1>2, <1>3, <1>4, <1>5, <1>6

(* The usage text ends it. *)
LEMMA UsageFacts ==
    ASSUME NEW a \in Arguments, NEW w
    PROVE  /\ a.usage => ArgpParseCb(a, w) = a
           /\ Usage(a) \in Arguments /\ Usage(a).usage
           /\ Usage(a).config_file = a.config_file
<1>1. a.usage => ArgpParseCb(a, w) = a
  BY DEF ArgpParseCb
<1> QED BY <1>1 DEF Usage, Arguments

(* What a word may make of the arguments before it. *)
FirstWord(a, arg, b) ==
    IF a.special_mode = "none" /\ arg \in CommandNames
    THEN /\ ~b.usage /\ b.arg_num = 1 /\ b.special_mode = CommandOf(arg)
         /\ b.control_app_name = a.control_app_name
    ELSE b.usage

SecondWord(a, arg, b) ==
    IF a.special_mode \in NeedsApp
    THEN /\ ~b.usage /\ b.arg_num = 2 /\ b.special_mode = a.special_mode
         /\ b.control_app_name = arg
    ELSE b.usage

(* A word that is no option. *)
LEMMA WordFacts ==
    ASSUME NEW a \in Arguments, NEW w \in Given, w.key = "arg", ~a.usage,
           NEW b, b = ArgpParseCb(a, w)
    PROVE  /\ b \in Arguments /\ b.config_file = a.config_file
           /\ a.arg_num = 0 => FirstWord(a, w.arg, b)
           /\ a.arg_num = 1 => SecondWord(a, w.arg, b)
           /\ a.arg_num = 2 => b.usage
<1>1. w.arg \in Texts /\ CommandOf(w.arg) \in Texts /\ a.arg_num \in 0..2
  BY DEF Given, CommandOf, Arguments, Texts
<1>2. b = CommandWord(a, w.arg)
  BY DEF ArgpParseCb
<1>3. CASE b = Usage(a)
  <2>1. b \in Arguments /\ b.usage /\ b.config_file = a.config_file
    BY <1>3, UsageFacts
  <2>2. CASE a.arg_num = 0 /\ a.special_mode = "none" /\ w.arg \in CommandNames
    <3>1. b = [a EXCEPT !.special_mode = CommandOf(w.arg), !.arg_num = 1]
      BY <1>2, <2>2 DEF CommandWord, CommandNames, CommandOf
    <3>2. ~b.usage
      BY <3>1 DEF Arguments
    <3> QED BY <2>1, <3>2
  <2>3. CASE a.arg_num = 1 /\ a.special_mode \in NeedsApp
    <3>1. b = [a EXCEPT !.control_app_name = w.arg, !.arg_num = 2]
      BY <1>2, <2>3 DEF CommandWord
    <3>2. ~b.usage
      BY <3>1 DEF Arguments
    <3> QED BY <2>1, <3>2
  <2> QED BY <2>1, <2>2, <2>3 DEF FirstWord, SecondWord
<1>4. CASE a.arg_num = 0 /\ a.special_mode = "none" /\ w.arg \in CommandNames
  <2>1. b = [a EXCEPT !.special_mode = CommandOf(w.arg), !.arg_num = 1]
    BY <1>2, <1>4 DEF CommandWord, CommandNames, CommandOf
  <2>2. b \in Arguments /\ b.config_file = a.config_file
    <3>1. PICK c : c = [a EXCEPT !.special_mode = CommandOf(w.arg)]
      OBVIOUS
    <3>2. c \in Arguments /\ c.config_file = a.config_file
      BY <1>1, <3>1 DEF Arguments
    <3>3. b = [c EXCEPT !.arg_num = 1]
      BY <2>1, <3>1
    <3> QED BY <3>2, <3>3 DEF Arguments
  <2>3. /\ ~b.usage /\ b.arg_num = 1 /\ b.special_mode = CommandOf(w.arg)
        /\ b.control_app_name = a.control_app_name
    BY <2>1 DEF Arguments
  <2> QED BY <1>4, <2>2, <2>3 DEF FirstWord
<1>5. CASE a.arg_num = 1 /\ a.special_mode \in NeedsApp
  <2>1. b = [a EXCEPT !.control_app_name = w.arg, !.arg_num = 2]
    BY <1>2, <1>5 DEF CommandWord
  <2>2. b \in Arguments /\ b.config_file = a.config_file
    <3>1. PICK c : c = [a EXCEPT !.control_app_name = w.arg]
      OBVIOUS
    <3>2. c \in Arguments /\ c.config_file = a.config_file
      BY <1>1, <3>1 DEF Arguments
    <3>3. b = [c EXCEPT !.arg_num = 2]
      BY <2>1, <3>1
    <3> QED BY <3>2, <3>3 DEF Arguments
  <2>3. /\ ~b.usage /\ b.arg_num = 2 /\ b.special_mode = a.special_mode
        /\ b.control_app_name = w.arg
    BY <2>1 DEF Arguments
  <2> QED BY <1>5, <2>2, <2>3 DEF SecondWord
<1>6. \/ b = Usage(a)
      \/ a.arg_num = 0 /\ a.special_mode = "none" /\ w.arg \in CommandNames
      \/ a.arg_num = 1 /\ a.special_mode \in NeedsApp
  BY <1>1, <1>2 DEF CommandWord, CommandNames
<1> QED BY <1>3, <1>4, <1>5, <1>6

-----------------------------------------------------------------------------
(* The options *)

BadLevel(argv, k) == \E i \in At(argv, k, "v") : argv[i].arg \notin Levels

(* The file of the last of the first k that is a -c. *)
FileOf(argv, k, file) ==
    IF At(argv, k, "c") = {} THEN file = Unset
    ELSE \E i \in At(argv, k, "c") : /\ \A j \in At(argv, k, "c") : j <= i
                                     /\ file = argv[i].arg

(* What the options among the first k make of the arguments. *)
OptionsOf(argv, k, a) ==
    /\ a \in Arguments
    /\ a.usage <=> BadLevel(argv, k)
    /\ ~a.usage =>
         /\ a.arg_num = 0 /\ a.control_app_name = Unset
         /\ a.special_mode = IF At(argv, k, "r") # {} THEN "reload" ELSE "none"
         /\ FileOf(argv, k, a.config_file)

(* Before the first. *)
LEMMA OptionsBegin == ASSUME NEW argv PROVE OptionsOf(argv, 0, NoArguments)
<1>1. \A key : At(argv, 0, key) = {}
  BY DEF At
<1>2. /\ NoArguments \in Arguments /\ ~NoArguments.usage /\ NoArguments.arg_num = 0
      /\ NoArguments.control_app_name = Unset /\ NoArguments.special_mode = "none"
      /\ NoArguments.config_file = Unset
  BY DEF NoArguments, Arguments, Texts
<1> QED BY <1>1, <1>2 DEF OptionsOf, BadLevel, FileOf

(* One more. *)
LEMMA OptionsNext ==
    ASSUME NEW argv \in Seq(Given), NEW k \in 1..Len(argv), NEW a, OptionsOf(argv, k - 1, a)
    PROVE  OptionsOf(argv, k, After(argv, a, OptionKeys, k))
<1>1. k \in Nat \ {0} /\ argv[k] \in Given
  OBVIOUS
<1>2. \A key : /\ At(argv, k, key) = IF argv[k].key = key THEN At(argv, k - 1, key) \cup {k}
                                                          ELSE At(argv, k - 1, key)
               /\ \A i \in At(argv, k - 1, key) : i \in Nat /\ i < k
  BY <1>1, AtNext
<1>3. PICK w : w = argv[k]
  OBVIOUS
<1>4. PICK b : b = After(argv, a, OptionKeys, k)
  OBVIOUS
<1>5. a \in Arguments /\ w \in Given
  BY <1>1, <1>3 DEF OptionsOf
<1>6. CASE w.key \notin OptionKeys
  <2>1. b = a
    BY <1>3, <1>4, <1>6 DEF After
  <2>2. \A key \in OptionKeys : At(argv, k, key) = At(argv, k - 1, key)
    BY <1>2, <1>3, <1>6
  <2>3. {"v", "r", "c"} \subseteq OptionKeys
    BY DEF OptionKeys
  <2> QED BY <1>4, <2>1, <2>2, <2>3 DEF OptionsOf, BadLevel, FileOf
<1>7. CASE w.key \in OptionKeys /\ a.usage
  <2>1. b = a
    BY <1>3, <1>4, <1>5, <1>7, UsageFacts DEF After
  <2>2. BadLevel(argv, k - 1)
    BY <1>7 DEF OptionsOf
  <2>3. BadLevel(argv, k)
    BY <1>2, <2>2 DEF BadLevel
  <2> QED BY <1>4, <1>5, <1>7, <2>1, <2>3 DEF OptionsOf
<1>8. CASE w.key \in OptionKeys /\ ~a.usage
  <2>1. b = ArgpParseCb(a, w)
    BY <1>3, <1>4, <1>8 DEF After
  <2>2. /\ b \in Arguments
        /\ b.usage <=> w.key = "v" /\ w.arg \notin Levels
        /\ b.config_file = IF w.key = "c" THEN w.arg ELSE a.config_file
        /\ b.special_mode = IF w.key = "r" THEN "reload" ELSE a.special_mode
        /\ b.arg_num = a.arg_num /\ b.control_app_name = a.control_app_name
    BY <1>5, <1>8, <2>1, OptionFacts
  <2>3. /\ ~BadLevel(argv, k - 1)
        /\ a.arg_num = 0 /\ a.control_app_name = Unset
        /\ a.special_mode = IF At(argv, k - 1, "r") # {} THEN "reload" ELSE "none"
        /\ FileOf(argv, k - 1, a.config_file)
    BY <1>8 DEF OptionsOf
  <2>4. b.usage <=> BadLevel(argv, k)
    BY <1>2, <1>3, <2>2, <2>3 DEF BadLevel
  <2>5. b.special_mode = IF At(argv, k, "r") # {} THEN "reload" ELSE "none"
    BY <1>2, <1>3, <2>2, <2>3
  <2>6. FileOf(argv, k, b.config_file)
    <3>1. CASE w.key = "c"
      <4>1. At(argv, k, "c") = At(argv, k - 1, "c") \cup {k}
        BY <1>2, <1>3, <3>1
      <4>2. k \in At(argv, k, "c") /\ \A j \in At(argv, k, "c") : j <= k
        BY <1>1, <1>2, <4>1
      <4> QED BY <1>3, <2>2, <3>1, <4>2 DEF FileOf
    <3>2. CASE w.key # "c"
      <4>1. At(argv, k, "c") = At(argv, k - 1, "c")
        BY <1>2, <1>3, <3>2
      <4> QED BY <2>2, <2>3, <3>2, <4>1 DEF FileOf
    <3> QED BY <3>1, <3>2
  <2> QED BY <1>4, <2>2, <2>3, <2>4, <2>5, <2>6 DEF OptionsOf
<1> QED BY <1>6, <1>7, <1>8

-----------------------------------------------------------------------------
(* The words *)

(* The words that can still become a command: none, a command, or a command *)
(* that needs an application and its name.                                  *)
Fits(argv, k, mode) ==
    LET words == At(argv, k, "arg") IN
    \/ words = {}
    \/ mode = "none" /\ \E i \in words : words = {i} /\ argv[i].arg \in CommandNames
    \/ mode = "none" /\ \E i, j \in words :
          i < j /\ words = {i, j} /\ argv[i].arg \in NeedsApp

NoWord(argv, k, mode, a) ==
    /\ At(argv, k, "arg") = {}
    /\ a.arg_num = 0 /\ a.special_mode = mode /\ a.control_app_name = Unset

OneWord(argv, k, mode, a) ==
    /\ a.arg_num = 1 /\ mode = "none" /\ a.control_app_name = Unset
    /\ \E i \in At(argv, k, "arg") :
          /\ At(argv, k, "arg") = {i}
          /\ argv[i].arg \in CommandNames /\ a.special_mode = CommandOf(argv[i].arg)

TwoWords(argv, k, mode, a) ==
    /\ a.arg_num = 2 /\ mode = "none"
    /\ \E i, j \in At(argv, k, "arg") :
          /\ i < j /\ At(argv, k, "arg") = {i, j}
          /\ argv[i].arg \in NeedsApp /\ a.special_mode = argv[i].arg
          /\ a.control_app_name = argv[j].arg

(* What the words among the first k make of what the options left. *)
WordsOf(argv, k, start, a) ==
    /\ a \in Arguments /\ a.config_file = start.config_file
    /\ start.usage => a.usage
    /\ ~start.usage =>
         /\ a.usage => ~Fits(argv, k, start.special_mode)
         /\ ~a.usage => \/ NoWord(argv, k, start.special_mode, a)
                        \/ OneWord(argv, k, start.special_mode, a)
                        \/ TwoWords(argv, k, start.special_mode, a)

(* Too many words, or the wrong ones, stay so. *)
LEMMA FitsBefore ==
    ASSUME NEW argv, NEW k \in Nat \ {0}, NEW mode, Fits(argv, k, mode)
    PROVE  Fits(argv, k - 1, mode)
<1> DEFINE before == At(argv, k - 1, "arg")
           words == At(argv, k, "arg")
<1>1. /\ words = IF argv[k].key = "arg" THEN before \cup {k} ELSE before
      /\ \A i \in before : i \in Nat /\ i < k
  BY AtNext
<1>2. NeedsApp \subseteq CommandNames
  BY DEF CommandNames
<1>3. \/ words = {}
      \/ mode = "none" /\ \E i \in words : words = {i} /\ argv[i].arg \in CommandNames
      \/ mode = "none" /\ \E i, j \in words :
            i < j /\ words = {i, j} /\ argv[i].arg \in NeedsApp
  BY DEF Fits
<1> HIDE DEF before, words
<1>4. CASE words = before
  BY <1>4 DEF Fits, before, words
<1>5. CASE words = before \cup {k}
  <2>1. k \notin before /\ k \in words
    BY <1>1, <1>5
  <2>2. ASSUME NEW i \in words, words = {i} PROVE before = {}
    BY <1>5, <2>1, <2>2
  <2>3. ASSUME NEW i \in words, NEW j \in words, i < j, words = {i, j}
        PROVE  before = {i} /\ i \in before
    <3>1. \A l \in words : l = k \/ l < k
      BY <1>1, <1>5
    <3>2. j = k /\ i # k
      BY <1>1, <1>5, <2>1, <2>3, <3>1
    <3> QED BY <1>5, <2>1, <2>3, <3>2
  <2>4. \/ before = {}
        \/ mode = "none" /\ \E i \in before : before = {i} /\ argv[i].arg \in CommandNames
    BY <1>2, <1>3, <2>1, <2>2, <2>3
  <2> QED BY <2>4 DEF Fits, before
<1> QED BY <1>1, <1>4, <1>5

(* One more. *)
LEMMA WordsNext ==
    ASSUME NEW argv \in Seq(Given), NEW k \in 1..Len(argv), NEW start, NEW a,
           start.usage \in BOOLEAN, WordsOf(argv, k - 1, start, a)
    PROVE  WordsOf(argv, k, start, After(argv, a, {"arg"}, k))
<1> DEFINE before == At(argv, k - 1, "arg")
           words == At(argv, k, "arg")
<1>1. k \in Nat \ {0} /\ argv[k] \in Given
  OBVIOUS
<1>2. /\ words = IF argv[k].key = "arg" THEN before \cup {k} ELSE before
      /\ \A i \in before : i \in Nat /\ i < k
  BY <1>1, AtNext
<1>3. PICK b : b = After(argv, a, {"arg"}, k)
  OBVIOUS
<1>4. PICK w, mode : w = argv[k] /\ mode = start.special_mode
  OBVIOUS
<1>5. a \in Arguments /\ w \in Given /\ a.config_file = start.config_file /\ a.usage \in BOOLEAN
  BY <1>1, <1>4 DEF WordsOf, Arguments
<1>6. CASE w.key # "arg"
  <2>1. b = a /\ words = before
    BY <1>2, <1>3, <1>4, <1>6 DEF After
  <2> QED BY <1>3, <2>1 DEF WordsOf, Fits, NoWord, OneWord, TwoWords
<1>7. CASE w.key = "arg" /\ a.usage
  <2>1. b = a
    BY <1>3, <1>4, <1>5, <1>7, UsageFacts DEF After
  <2>2. ~start.usage => ~Fits(argv, k, start.special_mode)
    BY <1>1, <1>7, FitsBefore DEF WordsOf
  <2> QED BY <1>3, <1>5, <1>7, <2>1, <2>2 DEF WordsOf
<1>8. CASE w.key = "arg" /\ ~a.usage
  <2>1. b = ArgpParseCb(a, w)
    BY <1>3, <1>4, <1>8 DEF After
  <2>2. /\ b \in Arguments /\ b.config_file = a.config_file
        /\ a.arg_num = 0 => FirstWord(a, w.arg, b)
        /\ a.arg_num = 1 => SecondWord(a, w.arg, b)
        /\ a.arg_num = 2 => b.usage
    BY <1>5, <1>8, <2>1, WordFacts
  <2>3. words = before \cup {k} /\ k \notin before /\ ~start.usage /\ k \in Nat
    BY <1>1, <1>2, <1>4, <1>8 DEF WordsOf
  <2>4. \/ NoWord(argv, k - 1, mode, a)
        \/ OneWord(argv, k - 1, mode, a)
        \/ TwoWords(argv, k - 1, mode, a)
    BY <1>4, <1>8, <2>3 DEF WordsOf
  <2>5. SUFFICES \/ b.usage /\ ~Fits(argv, k, mode)
                 \/ ~b.usage /\ OneWord(argv, k, mode, b)
                 \/ ~b.usage /\ TwoWords(argv, k, mode, b)
    BY <1>3, <1>4, <1>5, <2>2, <2>3 DEF WordsOf
  <2>6. Fits(argv, k, mode) <=>
          \/ words = {}
          \/ mode = "none" /\ \E i \in words : words = {i} /\ argv[i].arg \in CommandNames
          \/ mode = "none" /\ \E i, j \in words :
                i < j /\ words = {i, j} /\ argv[i].arg \in NeedsApp
    BY DEF Fits
  <2>7. CASE NoWord(argv, k - 1, mode, a)
    <3>1. words = {k} /\ FirstWord(a, w.arg, b) /\ a.special_mode = mode
          /\ a.control_app_name = Unset
      BY <2>2, <2>3, <2>7 DEF NoWord
    <3>2. CASE mode = "none" /\ w.arg \in CommandNames
      BY <1>4, <3>1, <3>2 DEF FirstWord, OneWord
    <3>3. CASE ~(mode = "none" /\ w.arg \in CommandNames)
      <4>1. b.usage
        BY <3>1, <3>3 DEF FirstWord
      <4>2. ~Fits(argv, k, mode)
        <5> HIDE DEF words, before
        <5> QED BY <1>4, <2>3, <2>6, <3>1, <3>3
      <4> QED BY <4>1, <4>2
    <3> QED BY <3>2, <3>3
  <2>8. CASE OneWord(argv, k - 1, mode, a)
    <3>1. PICK i \in before : /\ before = {i} /\ argv[i].arg \in CommandNames
                              /\ a.special_mode = CommandOf(argv[i].arg)
      BY <2>8 DEF OneWord
    <3>2. mode = "none" /\ SecondWord(a, w.arg, b)
      BY <2>2, <2>8 DEF OneWord
    <3>3. words = {i, k} /\ i < k /\ i \in Nat
      BY <1>2, <2>3, <3>1
    <3>4. a.special_mode \in NeedsApp <=> argv[i].arg \in NeedsApp
      BY <3>1 DEF CommandOf, NeedsApp
    <3>5. CASE argv[i].arg \in NeedsApp
      <4>1. a.special_mode = argv[i].arg
        BY <3>1, <3>5 DEF CommandOf, NeedsApp
      <4>2. /\ ~b.usage /\ b.arg_num = 2 /\ b.special_mode = argv[i].arg
            /\ b.control_app_name = argv[k].arg
        BY <1>4, <3>2, <3>5, <4>1 DEF SecondWord
      <4> QED BY <3>2, <3>3, <3>5, <4>2 DEF TwoWords
    <3>6. CASE argv[i].arg \notin NeedsApp
      <4>1. b.usage
        BY <3>2, <3>4, <3>6 DEF SecondWord
      <4>2. ~Fits(argv, k, mode)
        <5> HIDE DEF words, before
        <5> QED BY <2>3, <2>6, <3>3, <3>6
      <4> QED BY <4>1, <4>2
    <3> QED BY <3>5, <3>6
  <2>9. CASE TwoWords(argv, k - 1, mode, a)
    <3>1. PICK i \in before, j \in before : i < j /\ before = {i, j}
      BY <2>9 DEF TwoWords
    <3>2. b.usage
      BY <2>2, <2>9 DEF TwoWords
    <3>3. words = {i, j, k} /\ i # j /\ i # k /\ j # k
      BY <1>2, <2>3, <3>1
    <3>4. ~Fits(argv, k, mode)
      <4> HIDE DEF words, before
      <4>1. i \in words /\ j \in words /\ k \in words
        BY <3>3
      <4>2. \A x, y : words # {x, y}
        BY <3>3, <4>1
      <4>3. words # {} /\ \A x : words # {x}
        BY <3>3, <4>1
      <4> QED BY <2>6, <4>2, <4>3
    <3> QED BY <3>2, <3>4
  <2> QED BY <2>4, <2>7, <2>8, <2>9
<1> QED BY <1>5, <1>6, <1>7, <1>8

-----------------------------------------------------------------------------
(* The whole command line *)

(* What the usage text says about a command line. *)
UnderstoodLine(argv) ==
    LET words == At(argv, Len(argv), "arg") IN
    /\ ~BadLevel(argv, Len(argv))
    /\ \/ words = {}
       \/ At(argv, Len(argv), "r") = {} /\ \E i \in words :
             words = {i} /\ argv[i].arg \in {"list", "ls"}
       \/ At(argv, Len(argv), "r") = {} /\ \E i, j \in words :
             i < j /\ words = {i, j} /\ argv[i].arg \in NeedsApp

(* What holds of the first, and of each if it holds of the one before,      *)
(* holds of the last.                                                       *)
LEMMA OptionsDone ==
    ASSUME NEW argv \in Seq(Given)
    PROVE  OptionsOf(argv, Len(argv), HandOver(argv, NoArguments, OptionKeys))
<1>1. PICK f : /\ f[0] = NoArguments
               /\ \A k \in 1..Len(argv) : f[k] = After(argv, f[k - 1], OptionKeys, k)
               /\ HandOver(argv, NoArguments, OptionKeys) = f[Len(argv)]
  BY HandOverFacts
<1> DEFINE bad == {k \in Nat : k \in 0..Len(argv) /\ ~OptionsOf(argv, k, f[k])}
<1>2. bad = {}
  <2> SUFFICES ASSUME bad # {} PROVE FALSE
    OBVIOUS
  <2>1. PICK n \in bad : \A m \in bad : n <= m
    BY Least
  <2>2. n # 0
    BY <1>1, <2>1, OptionsBegin
  <2>3. n \in 1..Len(argv) /\ n - 1 \in Nat /\ n - 1 \in 0..Len(argv) /\ ~(n <= n - 1)
    BY <2>1, <2>2
  <2>4. OptionsOf(argv, n - 1, f[n - 1])
    BY <2>1, <2>3
  <2>5. OptionsOf(argv, n, f[n])
    BY <1>1, <2>3, <2>4, OptionsNext
  <2> QED BY <2>1, <2>5
<1>3. Len(argv) \in Nat /\ Len(argv) \in 0..Len(argv)
  OBVIOUS
<1> QED BY <1>1, <1>2, <1>3

(* The same for the words, after the options. *)
LEMMA WordsDone ==
    ASSUME NEW argv \in Seq(Given), NEW start \in Arguments,
           ~start.usage => start.arg_num = 0 /\ start.control_app_name = Unset
    PROVE  WordsOf(argv, Len(argv), start, HandOver(argv, start, {"arg"}))
<1>1. PICK f : /\ f[0] = start
               /\ \A k \in 1..Len(argv) : f[k] = After(argv, f[k - 1], {"arg"}, k)
               /\ HandOver(argv, start, {"arg"}) = f[Len(argv)]
  BY HandOverFacts
<1> DEFINE bad == {k \in Nat : k \in 0..Len(argv) /\ ~WordsOf(argv, k, start, f[k])}
<1>2. start.usage \in BOOLEAN
  BY DEF Arguments
<1>3. WordsOf(argv, 0, start, start)
  <2>1. At(argv, 0, "arg") = {}
    BY DEF At
  <2> QED BY <1>2, <2>1 DEF WordsOf, Fits, NoWord
<1>4. bad = {}
  <2> SUFFICES ASSUME bad # {} PROVE FALSE
    OBVIOUS
  <2>1. PICK n \in bad : \A m \in bad : n <= m
    BY Least
  <2>2. n # 0
    BY <1>1, <1>3, <2>1
  <2>3. n \in 1..Len(argv) /\ n - 1 \in Nat /\ n - 1 \in 0..Len(argv) /\ ~(n <= n - 1)
    BY <2>1, <2>2
  <2>4. WordsOf(argv, n - 1, start, f[n - 1])
    BY <2>1, <2>3
  <2>5. WordsOf(argv, n, start, f[n])
    BY <1>1, <1>2, <2>3, <2>4, WordsNext
  <2> QED BY <2>1, <2>5
<1>5. Len(argv) \in Nat /\ Len(argv) \in 0..Len(argv)
  OBVIOUS
<1> QED BY <1>1, <1>4, <1>5

(* What argp_parse() returns for a line that is understood. *)
ParsedLine(argv, a) ==
    LET words == At(argv, Len(argv), "arg") IN
    /\ FileOf(argv, Len(argv), a.config_file)
    /\ words = {} => a.special_mode = IF At(argv, Len(argv), "r") # {} THEN "reload" ELSE "none"
    /\ \A i : words = {i} => a.special_mode = "list"
    /\ \A i, j \in words : i < j /\ words = {i, j} =>
         a.special_mode = argv[i].arg /\ a.control_app_name = argv[j].arg

(* A command line of any length, with options and words in any order, ends  *)
(* in the usage text exactly if it is not what the usage text describes.    *)
(* If it is, the command is the first word, with "ls" for "list", or the    *)
(* reload of -r, the application is the second word, and the file is that   *)
(* of the last -c (argp_parse_cb(), arguments.c).                           *)
THEOREM ParsedAsWritten ==
    ASSUME NEW argv \in Seq(Given)
    PROVE  /\ ArgpParse(argv) \in Arguments
           /\ ArgpParse(argv).usage <=> ~UnderstoodLine(argv)
           /\ UnderstoodLine(argv) => ParsedLine(argv, ArgpParse(argv))
<1> DEFINE words == At(argv, Len(argv), "arg")
           r == At(argv, Len(argv), "r")
<1>1. PICK o : o = HandOver(argv, NoArguments, OptionKeys)
  OBVIOUS
<1>2. PICK a : a = HandOver(argv, o, {"arg"})
  OBVIOUS
<1>3. PICK p : p = ArgpParse(argv)
  OBVIOUS
<1>4. p = IF a.usage THEN a ELSE CommandEnd(a)
  BY <1>1, <1>2, <1>3 DEF ArgpParse
<1>5. OptionsOf(argv, Len(argv), o)
  BY <1>1, OptionsDone
<1>6. o \in Arguments /\ (~o.usage => o.arg_num = 0 /\ o.control_app_name = Unset)
  BY <1>5 DEF OptionsOf
<1>7. WordsOf(argv, Len(argv), o, a)
  BY <1>2, <1>6, WordsDone
<1>8. a \in Arguments /\ a.config_file = o.config_file /\ a.usage \in BOOLEAN
  BY <1>7 DEF WordsOf, Arguments
<1>9. /\ Usage(a) \in Arguments /\ Usage(a).usage
  BY <1>8, UsageFacts
<1>10. UnderstoodLine(argv) <=>
         /\ ~BadLevel(argv, Len(argv))
         /\ \/ words = {}
            \/ r = {} /\ \E i \in words : words = {i} /\ argv[i].arg \in {"list", "ls"}
            \/ r = {} /\ \E i, j \in words :
                  i < j /\ words = {i, j} /\ argv[i].arg \in NeedsApp
  BY DEF UnderstoodLine
<1>11. ParsedLine(argv, p) <=>
         /\ FileOf(argv, Len(argv), p.config_file)
         /\ words = {} => p.special_mode = IF r # {} THEN "reload" ELSE "none"
         /\ \A i : words = {i} => p.special_mode = "list"
         /\ \A i, j \in words : i < j /\ words = {i, j} =>
              p.special_mode = argv[i].arg /\ p.control_app_name = argv[j].arg
  BY DEF ParsedLine
<1>12. \A i \in words : i \in Nat /\ argv[i] \in Given
  BY DEF At
<1>13. CASE o.usage
  <2>1. a.usage /\ BadLevel(argv, Len(argv))
    BY <1>5, <1>7, <1>13 DEF OptionsOf, WordsOf
  <2> QED BY <1>3, <1>4, <1>8, <1>10, <2>1
<1>14. CASE ~o.usage /\ a.usage
  <2>1. ~Fits(argv, Len(argv), o.special_mode)
    BY <1>7, <1>14 DEF WordsOf
  <2>2. /\ words # {}
        /\ ~(o.special_mode = "none" /\ \E i \in words :
               words = {i} /\ argv[i].arg \in CommandNames)
        /\ ~(o.special_mode = "none" /\ \E i, j \in words :
               i < j /\ words = {i, j} /\ argv[i].arg \in NeedsApp)
    BY <2>1 DEF Fits
  <2>3. o.special_mode = IF r # {} THEN "reload" ELSE "none"
    BY <1>5, <1>14 DEF OptionsOf
  <2>4. {"list", "ls"} \subseteq CommandNames
    BY DEF CommandNames
  <2>5. ~UnderstoodLine(argv)
    <3> HIDE DEF words, r
    <3> QED BY <1>10, <2>2, <2>3, <2>4
  <2> QED BY <1>3, <1>4, <1>8, <1>14, <2>5
<1>15. CASE ~o.usage /\ ~a.usage
  <2>1. /\ o.special_mode = IF r # {} THEN "reload" ELSE "none"
        /\ ~BadLevel(argv, Len(argv)) /\ FileOf(argv, Len(argv), a.config_file)
    BY <1>5, <1>8, <1>15 DEF OptionsOf
  <2>2. p = CommandEnd(a)
    BY <1>4, <1>15
  <2>3. \/ NoWord(argv, Len(argv), o.special_mode, a)
        \/ OneWord(argv, Len(argv), o.special_mode, a)
        \/ TwoWords(argv, Len(argv), o.special_mode, a)
    BY <1>7, <1>15 DEF WordsOf
  <2>4. CASE NoWord(argv, Len(argv), o.special_mode, a)
    <3>1. words = {} /\ a.special_mode = o.special_mode
      BY <2>4 DEF NoWord
    <3>2. a.special_mode \in {"reload", "none"}
      BY <2>1, <3>1
    <3>3. p = a
      BY <2>2, <3>2 DEF CommandEnd, NeedsApp
    <3>4. UnderstoodLine(argv)
      BY <1>10, <2>1, <3>1
    <3>5. ParsedLine(argv, p)
      <4> HIDE DEF words, r
      <4> QED BY <1>11, <2>1, <3>1, <3>3
    <3> QED BY <1>3, <1>8, <1>15, <3>3, <3>4, <3>5
  <2>5. CASE OneWord(argv, Len(argv), o.special_mode, a)
    <3>1. PICK i \in words : /\ words = {i} /\ argv[i].arg \in CommandNames
                             /\ a.special_mode = CommandOf(argv[i].arg)
      BY <2>5 DEF OneWord
    <3>2. o.special_mode = "none" /\ a.control_app_name = Unset
      BY <2>5 DEF OneWord
    <3>3. r = {} /\ i \in Nat
      BY <1>12, <2>1, <3>2
    <3>4. CASE argv[i].arg \in NeedsApp
      <4>1. a.special_mode \in NeedsApp
        BY <3>1, <3>4 DEF CommandOf, NeedsApp
      <4>2. p = Usage(a)
        BY <2>2, <3>2, <4>1 DEF CommandEnd
      <4>3. argv[i].arg \notin {"list", "ls"}
        BY <3>4 DEF NeedsApp
      <4>4. ~UnderstoodLine(argv)
        <5> HIDE DEF words, r
        <5> QED BY <1>10, <3>1, <3>3, <4>3
      <4> QED BY <1>3, <1>9, <4>2, <4>4
    <3>5. CASE argv[i].arg \notin NeedsApp
      <4>1. argv[i].arg \in {"list", "ls"}
        BY <3>1, <3>5 DEF CommandNames
      <4>2. a.special_mode = "list"
        BY <3>1, <4>1 DEF CommandOf
      <4>3. p = a
        BY <2>2, <3>2, <4>2 DEF CommandEnd, NeedsApp
      <4>4. UnderstoodLine(argv) /\ ParsedLine(argv, p)
        <5> HIDE DEF words, r
        <5> QED BY <1>10, <1>11, <2>1, <3>1, <3>3, <4>1, <4>2, <4>3
      <4> QED BY <1>3, <1>8, <1>15, <4>3, <4>4
    <3> QED BY <3>4, <3>5
  <2>6. CASE TwoWords(argv, Len(argv), o.special_mode, a)
    <3>1. PICK i \in words, j \in words :
             /\ i < j /\ words = {i, j} /\ argv[i].arg \in NeedsApp
             /\ a.special_mode = argv[i].arg /\ a.control_app_name = argv[j].arg
      BY <2>6 DEF TwoWords
    <3>2. r = {} /\ i \in Nat /\ j \in Nat
      BY <1>12, <2>1, <2>6 DEF TwoWords
    <3>3. a.control_app_name # Unset /\ a.special_mode # "list"
      BY <1>12, <3>1 DEF Given, NeedsApp
    <3>4. p = a
      BY <2>2, <3>3 DEF CommandEnd
    <3>5. UnderstoodLine(argv)
      BY <1>10, <2>1, <3>1, <3>2
    <3>6. /\ words # {} /\ \A k : words # {k}
          /\ \A k, l \in words : k < l /\ words = {k, l} => k = i /\ l = j
      <4> HIDE DEF words, r
      <4>1. i \in words /\ j \in words /\ i # j
        BY <3>1, <3>2
      <4>2. words # {} /\ \A k : words # {k}
        BY <4>1
      <4>3. \A k, l \in words : k \in {i, j} /\ l \in {i, j}
        BY <3>1
      <4>4. \A k, l \in words : k < l => k = i /\ l = j
        BY <3>1, <3>2, <4>3
      <4> QED BY <4>2, <4>4
    <3>7. ParsedLine(argv, p)
      <4> HIDE DEF words, r
      <4> QED BY <1>11, <2>1, <3>1, <3>4, <3>6
    <3> QED BY <1>3, <1>8, <1>15, <3>4, <3>5, <3>7
  <2> QED BY <2>3, <2>4, <2>5, <2>6
<1>16. o.usage \in BOOLEAN
  BY <1>6 DEF Arguments
<1> QED BY <1>8, <1>13, <1>14, <1>15, <1>16

-----------------------------------------------------------------------------
(* The parser of the configuration file *)

(* Where the parser can be between two tokens. *)
States == {"begin", "in_object", "find_colon", "find_value", "in_array", "find_comma",
           "finished"}

(* path_mem *)
PathOK(path) ==
    /\ DOMAIN path = 0..PathMax - 1
    /\ \A i \in 0..PathMax - 1 : /\ DOMAIN path[i] = {"prev", "index", "name"}
                                 /\ path[i].prev \in {"begin", "in_object", "in_array"}

(* The fields of the parser. *)
ParserFields == {"state", "top", "private", "rc", "value", "path"}

(* A parser that goes on is in one of the states; top is within path_mem,   *)
(* or -1 after the end of the root, where only FindComma looks at it.       *)
ParserOK(p, states) ==
    /\ DOMAIN p = ParserFields
    /\ PathOK(p.path)
    /\ p.rc = "parsing" =>
         /\ p.state \in states
         /\ p.top \in -1..PathMax - 1
         /\ p.state \notin {"find_comma", "finished", "in_value"} => p.top >= 0

(* At the start. *)
LEMMA BeginOK ==
    ASSUME NEW private
    PROVE  ParserOK(ParseBegin(private), States) /\ ParseBegin(private).private = private
<1> DEFINE p == ParseBegin(private)
<1>1. /\ DOMAIN p = ParserFields /\ p.private = private /\ p.state = "begin" /\ p.top = 0
  BY DEF ParseBegin, ParserFields
<1>5. p.path = [i \in 0..PathMax - 1 |->
                    [prev |-> "begin", index |-> -1, name |-> Str("")]]
  BY DEF ParseBegin, ParserFields
<1>2. PathOK(p.path)
  <2> DEFINE e == [prev |-> "begin", index |-> -1, name |-> Str("")]
  <2>1. DOMAIN e = {"prev", "index", "name"} /\ e.prev = "begin"
    OBVIOUS
  <2> HIDE DEF e
  <2>2. PathOK([i \in 0..PathMax - 1 |-> e])
    BY <2>1 DEF PathOK
  <2> QED BY <1>5, <2>2 DEF e
<1>3. 0 \in -1..PathMax - 1
  BY EdJSONAssumption
<1> HIDE DEF p
<1>4. ParserOK(p, States)
  <2>1. p.state \in States
    BY <1>1 DEF States
  <2>2. p.top \in -1..PathMax - 1 /\ p.top >= 0
    BY <1>1, <1>3
  <2> QED BY <1>1, <1>2, <2>1, <2>2 DEF ParserOK
<1> QED BY <1>1, <1>4 DEF p

(* An error ends it. *)
LEMMA FailOK ==
    ASSUME NEW p, NEW S, ParserOK(p, S), NEW rc, rc # "parsing", NEW T
    PROVE  ParserOK(Fail(p, rc), T) /\ Fail(p, rc).private = p.private
BY DEF Fail, ParserOK, ParserFields

(* Another element of path_mem. *)
LEMMA PathStep ==
    ASSUME NEW path, PathOK(path), NEW i \in 0..PathMax - 1, NEW e,
           DOMAIN e = {"prev", "index", "name"},
           e.prev \in {"begin", "in_object", "in_array"}
    PROVE  PathOK([path EXCEPT ![i] = e])
BY DEF PathOK

(* One level down, if path_mem has room for it. *)
LEMMA PushOK ==
    ASSUME NEW p, NEW S, ParserOK(p, S), p.rc = "parsing", p.top >= 0,
           NEW state \in {"in_object", "in_array"}
    PROVE  ParserOK(Push(p, state), States) /\ Push(p, state).private = p.private
<1>1. CASE p.top + 1 >= PathMax
  BY <1>1, FailOK DEF Push
<1>2. CASE ~(p.top + 1 >= PathMax)
  <2> DEFINE i == p.top + 1
             below == p.path[i]
             e == [below EXCEPT !.prev = state,
                                !.index = IF state = "in_array" THEN -1 ELSE below.index]
  <2>1. i \in 0..PathMax - 1 /\ p.top \in Int
    BY <1>2, EdJSONAssumption DEF ParserOK
  <2>2. DOMAIN e = {"prev", "index", "name"} /\ e.prev = state
    BY <2>1 DEF ParserOK, PathOK
  <2> HIDE DEF e
  <2>3. PathOK([p.path EXCEPT ![i] = e])
    BY <2>1, <2>2, PathStep DEF ParserOK
  <2> DEFINE P == Push(p, state)
  <2>4. DOMAIN P = ParserFields /\ P.private = p.private /\ P.rc = p.rc /\ P.state = state
    BY <1>2 DEF Push, ParserOK, ParserFields
  <2>5. P.top = i
    BY <1>2 DEF Push, ParserOK, ParserFields
  <2>6. P.path = [p.path EXCEPT ![i] = e]
    BY <1>2 DEF Push, ParserOK, ParserFields, e
  <2> HIDE DEF i
  <2> QED BY <2>1, <2>3, <2>4, <2>5, <2>6 DEF ParserOK, States
<1> QED BY <1>1, <1>2


(* A step on the element at the top. *)
LEMMA TopOK ==
    ASSUME NEW p, NEW S, ParserOK(p, S), p.rc = "parsing", p.top >= 0,
           NEW q, DOMAIN q = ParserFields, NEW e, q.path = [p.path EXCEPT ![p.top] = e],
           DOMAIN e = DOMAIN p.path[p.top], e.prev = p.path[p.top].prev,
           NEW T, q.rc = p.rc, q.state \in T, q.top \in {p.top, p.top - 1},
           q.top = p.top \/ q.state = "find_comma"
    PROVE  ParserOK(q, T)
<1>1. p.top \in 0..PathMax - 1 /\ PathOK(p.path)
  BY DEF ParserOK
<1>2. PathOK(q.path)
  BY <1>1, PathStep DEF PathOK
<1>3. q.top \in -1..PathMax - 1 /\ (q.top = p.top => q.top >= 0)
  BY <1>1, EdJSONAssumption
<1> QED BY <1>2, <1>3 DEF ParserOK

(* Another state of the parser. *)
LEMMA GotoOK ==
    ASSUME NEW p, NEW S, ParserOK(p, S), NEW T, NEW state \in T,
           p.top >= 0 \/ state \in {"find_comma", "finished", "in_value"}
    PROVE  ParserOK(Goto(p, state), T) /\ Goto(p, state).private = p.private
<1> DEFINE q == Goto(p, state)
<1>1. /\ DOMAIN q = ParserFields /\ q.private = p.private /\ q.path = p.path
      /\ q.top = p.top /\ q.rc = p.rc /\ q.state = state
  BY DEF Goto, ParserOK, ParserFields
<1> HIDE DEF q
<1>2. ParserOK(q, T)
  BY <1>1 DEF ParserOK
<1> QED BY <1>1, <1>2 DEF q

(* A value, before the callback. *)
LEMMA ValueOK ==
    ASSUME NEW p, NEW S, ParserOK(p, S), NEW token, NEW T, "in_value" \in T
    PROVE  /\ ParserOK(Value(p, token), T) /\ Value(p, token).private = p.private
<1> DEFINE q == Value(p, token)
<1>1. /\ DOMAIN q = ParserFields /\ q.private = p.private /\ q.path = p.path
      /\ q.top = p.top /\ q.rc = p.rc /\ q.state = "in_value"
  BY DEF Value, ParserOK, ParserFields
<1> HIDE DEF q
<1>2. ParserOK(q, T)
  BY <1>1 DEF ParserOK
<1> QED BY <1>1, <1>2 DEF q

(* The next element of an array. *)
LEMMA NextIndexOK ==
    ASSUME NEW p, NEW S, ParserOK(p, S), p.rc = "parsing", p.top >= 0
    PROVE  /\ ParserOK(NextIndex(p), S) /\ NextIndex(p).private = p.private
           /\ NextIndex(p).rc = "parsing" /\ NextIndex(p).top >= 0
<1> DEFINE q == NextIndex(p)
           here == p.path[p.top]
           e == [here EXCEPT !.index = here.index + 1]
<1>1. p.top \in 0..PathMax - 1 /\ p.state \in S
  BY DEF ParserOK
<1>2. DOMAIN q = ParserFields /\ q.private = p.private /\ q.top = p.top /\ q.rc = p.rc
      /\ q.state = p.state
  BY DEF NextIndex, ParserOK, ParserFields
<1>3. q.path = [p.path EXCEPT ![p.top] = e]
  BY DEF NextIndex, ParserOK, ParserFields
<1>4. DOMAIN e = DOMAIN here /\ e.prev = here.prev
  BY <1>1 DEF ParserOK, PathOK
<1> HIDE DEF q, e
<1>5. ParserOK(q, S)
  BY <1>1, <1>2, <1>3, <1>4, TopOK
<1> QED BY <1>2, <1>5 DEF q

(* The end of an array. *)
LEMMA PopOK ==
    ASSUME NEW p, NEW S, ParserOK(p, S), p.rc = "parsing", p.top >= 0
    PROVE  /\ ParserOK(Pop(p), States) /\ Pop(p).private = p.private
<1> DEFINE q == Pop(p)
           here == p.path[p.top]
           e == [here EXCEPT !.index = -1]
<1>1. p.top \in 0..PathMax - 1
  BY DEF ParserOK
<1>2. DOMAIN q = ParserFields /\ q.private = p.private /\ q.top = p.top - 1 /\ q.rc = p.rc
      /\ q.state = "find_comma"
  BY DEF Pop, ParserOK, ParserFields
<1>3. q.path = [p.path EXCEPT ![p.top] = e]
  BY DEF Pop, ParserOK, ParserFields
<1>4. DOMAIN e = DOMAIN here /\ e.prev = here.prev
  BY <1>1 DEF ParserOK, PathOK
<1> HIDE DEF q, e
<1>5. q.state \in States
  BY <1>2 DEF States
<1>6. ParserOK(q, States)
  BY <1>1, <1>2, <1>3, <1>4, <1>5, TopOK
<1> QED BY <1>2, <1>6 DEF q

(* One level up. *)
LEMMA UpOK ==
    ASSUME NEW p, NEW S, ParserOK(p, S), p.rc = "parsing", p.top >= 0,
           NEW q, q = [p EXCEPT !.state = "find_comma", !.top = @ - 1]
    PROVE  ParserOK(q, States) /\ q.private = p.private
<1>1. /\ DOMAIN q = ParserFields /\ q.private = p.private /\ q.path = p.path
      /\ q.top = p.top - 1 /\ q.rc = p.rc /\ q.state = "find_comma"
  BY DEF ParserOK, ParserFields
<1>2. q.top \in -1..PathMax - 1
  BY <1>1, EdJSONAssumption DEF ParserOK
<1>3. q.state \in States
  BY <1>1 DEF States
<1> QED BY <1>1, <1>2, <1>3 DEF ParserOK

(* The states after a token, before the callback. *)
Reached == States \cup {"in_value"}

(* Fewer states are some of more. *)
LEMMA WiderOK ==
    ASSUME NEW p, NEW S, NEW T, S \subseteq T, ParserOK(p, S)
    PROVE  ParserOK(p, T)
BY DEF ParserOK

(* The first token. *)
LEMMA BeginStepOK ==
    ASSUME NEW p, ParserOK(p, States), p.rc = "parsing", p.top >= 0, NEW token
    PROVE  ParserOK(Begin(p, token), States) /\ Begin(p, token).private = p.private
<1>1. ASSUME NEW state \in {"in_object", "in_array"},
             NEW q, q = [p EXCEPT !.state = state, !.path[0].prev = state]
      PROVE  ParserOK(q, States) /\ q.private = p.private
  <2> DEFINE here == p.path[0]
             e == [here EXCEPT !.prev = state]
  <2>1. 0 \in 0..PathMax - 1 /\ PathOK(p.path)
    BY EdJSONAssumption DEF ParserOK
  <2>2. /\ DOMAIN q = ParserFields /\ q.private = p.private /\ q.rc = p.rc
        /\ q.top = p.top /\ q.state = state
    BY <1>1 DEF ParserOK, ParserFields
  <2>3. q.path = [p.path EXCEPT ![0] = e]
    BY <1>1 DEF ParserOK, ParserFields
  <2>4. DOMAIN e = {"prev", "index", "name"} /\ e.prev = state
    BY <2>1 DEF PathOK
  <2> HIDE DEF e
  <2>5. PathOK(q.path)
    BY <2>1, <2>3, <2>4, PathStep
  <2>6. q.state \in States
    BY <2>2 DEF States
  <2> QED BY <2>2, <2>5, <2>6 DEF ParserOK
<1>2. CASE token.t = "{"
  <2>1. Begin(p, token) = [p EXCEPT !.state = "in_object", !.path[0].prev = "in_object"]
    BY <1>2 DEF Begin
  <2> QED BY <1>1, <2>1
<1>3. CASE token.t = "["
  <2>1. Begin(p, token) = [p EXCEPT !.state = "in_array", !.path[0].prev = "in_array"]
    BY <1>3 DEF Begin
  <2> QED BY <1>1, <2>1
<1>4. CASE token.t \notin {"{", "["}
  <2>1. Begin(p, token) = Fail(p, "error")
    BY <1>4 DEF Begin
  <2> QED BY <2>1, FailOK
<1> QED BY <1>2, <1>3, <1>4

(* The name of a member, or the end of the object. *)
LEMMA InObjectOK ==
    ASSUME NEW p, ParserOK(p, States), p.rc = "parsing", p.state = "in_object", p.top >= 0,
           NEW token
    PROVE  ParserOK(InObject(p, token), Reached)
           /\ InObject(p, token).private = p.private
<1>1. CASE token.t = "string"
  <2> DEFINE q == InObject(p, token)
             here == p.path[p.top]
             e == [here EXCEPT !.index = -1, !.name = token.v]
  <2>1. p.top \in 0..PathMax - 1
    BY DEF ParserOK
  <2>2. /\ DOMAIN q = ParserFields /\ q.private = p.private /\ q.rc = p.rc
        /\ q.top = p.top /\ q.state = "find_colon"
    BY <1>1 DEF InObject, ParserOK, ParserFields
  <2>3. q.path = [p.path EXCEPT ![p.top] = e]
    BY <1>1 DEF InObject, ParserOK, ParserFields
  <2>4. DOMAIN e = DOMAIN here /\ e.prev = here.prev
    BY <2>1 DEF ParserOK, PathOK
  <2> HIDE DEF q, e
  <2>5. q.state \in Reached
    BY <2>2 DEF Reached, States
  <2>6. ParserOK(q, Reached)
    BY <2>1, <2>2, <2>3, <2>4, <2>5, TopOK
  <2> QED BY <2>2, <2>6 DEF q
<1>2. CASE token.t = "cut_string"
  <2>1. InObject(p, token) = Fail(p, "success")
    BY <1>2 DEF InObject
  <2> QED BY <2>1, FailOK
<1>3. CASE token.t = "}"
  <2>1. InObject(p, token) = [p EXCEPT !.state = "find_comma", !.top = @ - 1]
    BY <1>3 DEF InObject
  <2>2. ParserOK(InObject(p, token), States) /\ InObject(p, token).private = p.private
    BY <2>1, UpOK
  <2> QED BY <2>2, WiderOK DEF Reached
<1>4. CASE token.t \notin {"string", "cut_string", "}"}
  <2>1. InObject(p, token) = Fail(p, "error")
    BY <1>4 DEF InObject
  <2> QED BY <2>1, FailOK
<1> QED BY <1>1, <1>2, <1>3, <1>4

(* What follows a colon. *)
LEMMA FindValueOK ==
    ASSUME NEW p, NEW S, ParserOK(p, S), p.rc = "parsing", p.top >= 0, NEW token
    PROVE  ParserOK(FindValue(p, token), Reached)
           /\ FindValue(p, token).private = p.private
<1>1. CASE token.t = "{"
  <2>1. FindValue(p, token) = Push(p, "in_object")
    BY <1>1 DEF FindValue, Scalars
  <2>2. ParserOK(FindValue(p, token), States) /\ FindValue(p, token).private = p.private
    BY <2>1, PushOK
  <2> QED BY <2>2, WiderOK DEF Reached
<1>2. CASE token.t = "["
  <2>1. FindValue(p, token) = Push(p, "in_array")
    BY <1>2 DEF FindValue, Scalars
  <2>2. ParserOK(FindValue(p, token), States) /\ FindValue(p, token).private = p.private
    BY <2>1, PushOK
  <2> QED BY <2>2, WiderOK DEF Reached
<1>3. CASE token.t \in Scalars
  <2>1. FindValue(p, token) = Value(p, token)
    BY <1>3 DEF FindValue, Scalars
  <2> QED BY <2>1, ValueOK DEF Reached
<1>4. CASE token.t \notin Scalars \cup {"{", "["}
  <2>1. FindValue(p, token) = Fail(p, "error")
    BY <1>4 DEF FindValue
  <2> QED BY <2>1, FailOK
<1> QED BY <1>1, <1>2, <1>3, <1>4

(* An element of an array, or its end. *)
LEMMA InArrayOK ==
    ASSUME NEW p, ParserOK(p, States), p.rc = "parsing", p.top >= 0, NEW token
    PROVE  ParserOK(InArray(p, token), Reached)
           /\ InArray(p, token).private = p.private
<1>1. PICK n : n = NextIndex(p)
  OBVIOUS
<1>2. ParserOK(n, States) /\ n.private = p.private /\ n.rc = "parsing" /\ n.top >= 0
  BY <1>1, NextIndexOK
<1>3. CASE token.t \in Scalars \cup {"{", "["}
  <2>1. InArray(p, token) = FindValue(n, token)
    BY <1>1, <1>3 DEF InArray, FindValue, Scalars
  <2> QED BY <1>2, <2>1, FindValueOK
<1>4. CASE token.t = "]"
  <2>1. InArray(p, token) = Pop(p)
    BY <1>4 DEF InArray, Scalars
  <2>2. ParserOK(InArray(p, token), States) /\ InArray(p, token).private = p.private
    BY <2>1, PopOK
  <2> QED BY <2>2, WiderOK DEF Reached
<1>5. CASE token.t \notin Scalars \cup {"{", "[", "]"}
  <2>1. InArray(p, token) = Fail(p, "error")
    BY <1>5 DEF InArray
  <2> QED BY <2>1, FailOK
<1> QED BY <1>3, <1>4, <1>5

(* What follows a value. *)
LEMMA FindCommaOK ==
    ASSUME NEW p, ParserOK(p, States), p.rc = "parsing", p.state = "find_comma", NEW token
    PROVE  ParserOK(FindComma(p, token), States)
           /\ FindComma(p, token).private = p.private
<1> DEFINE q == FindComma(p, token)
           here == p.path[p.top]
<1>1. CASE q = Fail(p, "error") \/ q = Fail(p, "undefined")
  BY <1>1, FailOK
<1>2. p.top = -1 \/ p.top \in 0..PathMax - 1
  BY EdJSONAssumption DEF ParserOK
<1>3. CASE p.top = -1
  <2>1. ~(p.top >= 0)
    BY <1>3
  <2>2. q = Fail(p, "error") \/ q = Fail(p, "undefined")
    BY <1>3, <2>1 DEF FindComma
  <2> QED BY <1>1, <2>2
<1>4. CASE p.top \in 0..PathMax - 1
  <2>1. p.top >= 0 /\ p.top # -1 /\ p.top \in Int
    BY <1>4
  <2>2. here.prev \in {"begin", "in_object", "in_array"}
    BY <1>4 DEF ParserOK, PathOK
  <2>3. CASE token.t \notin {",", "]", "}"}
    <3>1. q = Fail(p, "error")
      BY <2>3 DEF FindComma
    <3> QED BY <1>1, <3>1
  <2>4. CASE token.t = ","
    <3>1. q = Goto(p, here.prev)
      BY <2>1, <2>4 DEF FindComma
    <3>2. here.prev \in States
      BY <2>2 DEF States
    <3> QED BY <2>1, <3>1, <3>2, GotoOK
  <2>5. CASE token.t = "]"
    <3>1. q = IF here.prev = "in_array" THEN Pop(p) ELSE Fail(p, "error")
      BY <2>1, <2>5 DEF FindComma
    <3> QED BY <1>1, <2>1, <3>1, PopOK
  <2>6. CASE token.t = "}"
    <3>1. q = IF here.prev # "in_object" THEN Fail(p, "error")
              ELSE IF p.top = 0 THEN Goto(p, "finished") ELSE [p EXCEPT !.top = p.top - 1]
      BY <2>1, <2>6 DEF FindComma
    <3>2. CASE q = Goto(p, "finished")
      <4>1. "finished" \in States
        BY DEF States
      <4> QED BY <3>2, <4>1, GotoOK
    <3>3. CASE q = [p EXCEPT !.top = p.top - 1]
      <4>1. /\ DOMAIN q = ParserFields /\ q.private = p.private /\ q.path = p.path
            /\ q.top = p.top - 1 /\ q.rc = p.rc /\ q.state = p.state
        BY <3>3 DEF ParserOK, ParserFields
      <4> HIDE DEF q
      <4>2. q.top \in -1..PathMax - 1
        BY <1>4, <4>1, EdJSONAssumption
      <4>3. ParserOK(q, States)
        BY <4>1, <4>2 DEF ParserOK
      <4> QED BY <4>1, <4>3 DEF q
    <3> QED BY <1>1, <3>1, <3>2, <3>3
  <2> QED BY <2>3, <2>4, <2>5, <2>6
<1> QED BY <1>2, <1>3, <1>4

(* A token leaves what the callback keeps alone, and the parser in a state  *)
(* from which it can go on.                                                 *)
LEMMA StepOK ==
    ASSUME NEW p, ParserOK(p, States), NEW token
    PROVE  ParserOK(Step(p, token), Reached) /\ Step(p, token).private = p.private
<1> DEFINE q == Step(p, token)
<1>1. CASE p.rc # "parsing"
  <2>1. q = p
    BY <1>1 DEF Step
  <2> QED BY <2>1, WiderOK DEF Reached
<1>2. CASE p.rc = "parsing" /\ token.t = "comment"
  <2>1. q = Comment(p)
    BY <1>2 DEF Step
  <2>2. q = p \/ q = Fail(p, "no_memory")
    BY <2>1 DEF Comment
  <2>3. ParserOK(p, Reached)
    BY WiderOK DEF Reached
  <2> QED BY <2>2, <2>3, FailOK
<1>4. CASE p.rc = "parsing" /\ token.t = "unmapped"
  <2>1. q = Fail(p, "crashed")
    BY <1>4 DEF Step
  <2> QED BY <2>1, FailOK
<1>3. CASE p.rc = "parsing" /\ token.t \notin {"unmapped", "comment"}
  <2>1. p.state \in States /\ (p.state \notin {"find_comma", "finished"} => p.top >= 0)
    BY <1>3 DEF ParserOK, States
  <2>2. ParserOK(q, States) => ParserOK(q, Reached)
    BY WiderOK DEF Reached
  <2>3. CASE p.state = "begin"
    <3>1. q = Begin(p, token)
      BY <1>3, <2>3 DEF Step
    <3> QED BY <1>3, <2>1, <2>2, <2>3, <3>1, BeginStepOK
  <2>4. CASE p.state = "in_object"
    <3>1. q = InObject(p, token)
      BY <1>3, <2>4 DEF Step
    <3> QED BY <1>3, <2>1, <2>4, <3>1, InObjectOK
  <2>5. CASE p.state = "find_colon"
    <3>1. q = Goto(p, "find_value") \/ q = Fail(p, "error")
      BY <1>3, <2>5 DEF Step
    <3>2. "find_value" \in Reached /\ p.top >= 0
      BY <2>1, <2>5 DEF Reached, States
    <3>3. CASE q = Goto(p, "find_value")
      BY <3>2, <3>3, GotoOK
    <3>4. CASE q = Fail(p, "error")
      BY <3>4, FailOK
    <3> QED BY <3>1, <3>3, <3>4
  <2>6. CASE p.state = "find_value"
    <3>1. q = FindValue(p, token)
      BY <1>3, <2>6 DEF Step
    <3> QED BY <1>3, <2>1, <2>6, <3>1, FindValueOK
  <2>7. CASE p.state = "in_array"
    <3>1. q = InArray(p, token)
      BY <1>3, <2>7 DEF Step
    <3> QED BY <1>3, <2>1, <2>7, <3>1, InArrayOK
  <2>8. CASE p.state = "find_comma"
    <3>1. q = FindComma(p, token)
      BY <1>3, <2>8 DEF Step
    <3> QED BY <1>3, <2>2, <2>8, <3>1, FindCommaOK
  <2>9. CASE p.state = "finished"
    <3>1. q = Fail(p, "error")
      BY <1>3, <2>9 DEF Step
    <3> QED BY <3>1, FailOK
  <2> QED BY <2>1, <2>3, <2>4, <2>5, <2>6, <2>7, <2>8, <2>9 DEF States
<1> QED BY <1>1, <1>2, <1>3, <1>4

-----------------------------------------------------------------------------
(* The callback *)

(* A sequence of applications, each with its fields. *)
AppsOK(apps) == \E S : apps \in Seq(S) /\ \A a \in S : DOMAIN a = AppFields

(* nanoinit_config_t has its fields. *)
ConfigOK(c) ==
    /\ DOMAIN c = {"applications", "ni_log_format", "ni_create_log_dirs"}
    /\ AppsOK(c.applications)

(* What config.c keeps between two calls of its callback: as long as there  *)
(* is no application, the name of the last one is "".                       *)
MessageOK(m) ==
    /\ DOMAIN m = {"object", "app", "config", "state", "return_code"}
    /\ ConfigOK(m.config)
    /\ m.config.applications = <<>> => m.app = Plain("")

(* The callback is on its way to the object, or in it. *)
Searches(m) == m.state \in {"searching", "found"}

(* What the callback may answer, as long as the parser may go on. *)
AnswerOK(answer) ==
    /\ MessageOK(answer.private)
    /\ answer.stop \in BOOLEAN
    /\ ~answer.stop => Searches(answer.private)

(* The callback stops the parser. *)
LEMMA StopOK ==
    ASSUME NEW m, MessageOK(m), NEW code
    PROVE  AnswerOK(Stop(m, code))
<1> DEFINE n == [m EXCEPT !.return_code = code]
<1>1. Stop(m, code).private = n /\ Stop(m, code).stop = TRUE
  BY DEF Stop
<1>2. DOMAIN n = DOMAIN m /\ n.config = m.config /\ n.app = m.app
  BY DEF MessageOK
<1> HIDE DEF n
<1>3. MessageOK(n)
  BY <1>2 DEF MessageOK
<1> QED BY <1>1, <1>3 DEF AnswerOK

(* The process is killed. *)
LEMMA CrashOK ==
    ASSUME NEW m, MessageOK(m)
    PROVE  AnswerOK(Crash(m))
<1> DEFINE n == [m EXCEPT !.state = "crashed"]
<1>1. Crash(m).private = n /\ Crash(m).stop = TRUE
  BY DEF Crash
<1>2. DOMAIN n = DOMAIN m /\ n.config = m.config /\ n.app = m.app
  BY DEF MessageOK
<1> HIDE DEF n
<1>3. MessageOK(n)
  BY <1>2 DEF MessageOK
<1> QED BY <1>1, <1>3 DEF AnswerOK

(* A wrong value. *)
LEMMA RefuseOK ==
    ASSUME NEW m, MessageOK(m)
    PROVE  AnswerOK(Refuse(m))
BY CrashOK, StopOK DEF Refuse

(* The callback lets the parser go on. *)
LEMMA ContinueOK ==
    ASSUME NEW m, MessageOK(m), Searches(m)
    PROVE  AnswerOK(Continue(m))
BY DEF AnswerOK, Continue

(* One more application. *)
LEMMA AppendOK ==
    ASSUME NEW apps, AppsOK(apps), NEW name
    PROVE  AppsOK(Append(apps, NewApplication(name)))
<1>1. PICK S : apps \in Seq(S) /\ \A a \in S : DOMAIN a = AppFields
  BY DEF AppsOK
<1>2. PICK app : app = NewApplication(name)
  OBVIOUS
<1>3. DOMAIN app = AppFields
  BY <1>2 DEF NewApplication
<1> DEFINE T == S \cup {app}
<1>4. \A a \in T : DOMAIN a = AppFields
  BY <1>1, <1>3
<1>5. apps \in Seq(T) /\ app \in T
  BY <1>1
<1> HIDE DEF T
<1>6. Append(apps, app) \in Seq(T)
  BY <1>5
<1> QED BY <1>2, <1>4, <1>6 DEF AppsOK

(* A field of one application, if there is one. *)
LEMMA FieldOK ==
    ASSUME NEW apps, AppsOK(apps), NEW i, NEW field, NEW v
    PROVE  AppsOK([apps EXCEPT ![i] = [apps[i] EXCEPT ![field] = v]])
<1>1. PICK S : apps \in Seq(S) /\ \A a \in S : DOMAIN a = AppFields
  BY DEF AppsOK
<1>2. PICK app : app = [apps[i] EXCEPT ![field] = v]
  OBVIOUS
<1> DEFINE news == [apps EXCEPT ![i] = app]
           T == S \cup {app}
<1>3. CASE i \in DOMAIN apps
  <2>1. apps[i] \in S
    BY <1>1, <1>3
  <2>2. DOMAIN app = AppFields
    BY <1>1, <1>2, <2>1
  <2>3. \A a \in T : DOMAIN a = AppFields
    BY <1>1, <2>2
  <2>4. news \in Seq(T)
    <3>1. apps \in Seq(T) /\ app \in T
      BY <1>1
    <3>2. i \in 1..Len(apps)
      BY <1>1, <1>3
    <3> HIDE DEF T
    <3> QED BY <3>1, <3>2, ExceptSeq
  <2> HIDE DEF T
  <2> QED BY <1>2, <2>3, <2>4 DEF AppsOK
<1>4. CASE i \notin DOMAIN apps
  <2>1. apps = [k \in DOMAIN apps |-> apps[k]]
    BY <1>1
  <2>2. news = [k \in DOMAIN apps |-> apps[k]]
    BY <1>4
  <2> QED BY <1>2, <2>1, <2>2
<1> QED BY <1>3, <1>4

(* Another list of applications, or another global setting. *)
LEMMA ConfigKept ==
    ASSUME NEW m, MessageOK(m), NEW n, DOMAIN n = DOMAIN m,
           DOMAIN n.config = DOMAIN m.config, AppsOK(n.config.applications),
           n.config.applications = <<>> => n.app = Plain("")
    PROVE  MessageOK(n)
BY DEF MessageOK, ConfigOK

(* The application that a value belongs to; there is one, unless the first  *)
(* is named "".                                                             *)
LEMMA OpenApplicationOK ==
    ASSUME NEW m, MessageOK(m), NEW name
    PROVE  /\ MessageOK(OpenApplication(m, name))
           /\ OpenApplication(m, name).state = m.state
           /\ OpenApplication(m, name).config.applications = <<>> =>
                 m.config.applications = <<>> /\ name = Plain("")
<1>1. CASE name = m.app
  BY <1>1 DEF OpenApplication, MessageOK
<1>2. CASE name # m.app
  <2> DEFINE n == OpenApplication(m, name)
             apps == m.config.applications
  <2>1. n = [m EXCEPT !.app = name, !.config.applications = Append(apps, NewApplication(name))]
    BY <1>2 DEF OpenApplication
  <2>2. DOMAIN n = DOMAIN m /\ n.state = m.state
    BY <2>1 DEF MessageOK
  <2>3. n.config = [m.config EXCEPT !.applications = Append(apps, NewApplication(name))]
    BY <2>1 DEF MessageOK
  <2>4. /\ DOMAIN n.config = DOMAIN m.config
        /\ n.config.applications = Append(apps, NewApplication(name))
    BY <2>3 DEF MessageOK, ConfigOK
  <2>5. AppsOK(n.config.applications)
    BY <2>4, AppendOK DEF MessageOK, ConfigOK
  <2>6. n.config.applications # <<>>
    <3>1. PICK S : apps \in Seq(S)
      BY DEF MessageOK, ConfigOK, AppsOK
    <3> HIDE DEF apps, n
    <3>2. PICK app : app = NewApplication(name)
      OBVIOUS
    <3> DEFINE T == S \cup {app}
    <3>3. apps \in Seq(T) /\ app \in T
      BY <3>1
    <3> HIDE DEF T
    <3>4. Append(apps, app) # <<>>
      BY <3>3, AppendProperties
    <3> QED BY <2>4, <3>2, <3>4
  <2> HIDE DEF n
  <2>7. MessageOK(n)
    BY <2>2, <2>4, <2>5, <2>6, ConfigKept
  <2> QED BY <2>2, <2>6, <2>7 DEF n
<1> QED BY <1>1, <1>2

(* A field of the last application. *)
LEMMA SetFieldOK ==
    ASSUME NEW m, MessageOK(m), Searches(m), NEW field, NEW v
    PROVE  AnswerOK(SetField(m, field, v))
<1> DEFINE apps == m.config.applications
           i == Len(apps)
           news == [apps EXCEPT ![i] = [apps[i] EXCEPT ![field] = v]]
           n == [m EXCEPT !.config.applications[Len(m.config.applications)][field] = v]
<1>7. CASE apps = <<>>
  <2>1. SetField(m, field, v) = Crash(m)
    BY <1>7 DEF SetField
  <2> QED BY <2>1, CrashOK
<1> SUFFICES ASSUME apps # <<>> PROVE AnswerOK(SetField(m, field, v))
  BY <1>7
<1>1. SetField(m, field, v) = Continue(n)
  BY DEF SetField
<1>8. news # <<>>
  <2>1. DOMAIN news = DOMAIN apps /\ DOMAIN apps # {}
    <3>1. PICK S : apps \in Seq(S)
      BY DEF MessageOK, ConfigOK, AppsOK
    <3>2. PICK s \in Seq(S) : s = apps
      BY <3>1
    <3>3. s # <<>> => 1 \in 1..Len(s) /\ DOMAIN s = 1..Len(s)
      BY <3>2, EmptySeq
    <3> QED BY <3>2, <3>3
  <2> QED BY <2>1
<1>2. DOMAIN n = DOMAIN m /\ n.state = m.state
  BY DEF MessageOK
<1>3. n.config = [m.config EXCEPT !.applications = news]
  BY DEF MessageOK
<1>4. DOMAIN n.config = DOMAIN m.config /\ n.config.applications = news
  BY <1>3 DEF MessageOK, ConfigOK
<1>5. AppsOK(news)
  BY FieldOK DEF MessageOK, ConfigOK
<1> HIDE DEF n, news
<1>6. MessageOK(n) /\ Searches(n)
  BY <1>2, <1>4, <1>5, <1>8, ConfigKept DEF Searches
<1> QED BY <1>1, <1>6, ContinueOK

(* A global setting. *)
LEMMA SetGlobalOK ==
    ASSUME NEW m, MessageOK(m), Searches(m), NEW v, NEW isLeaf \in BOOLEAN,
           NEW name \in {"ni_log_format", "ni_create_log_dirs"}
    PROVE  AnswerOK(SetGlobal(m, name, isLeaf, v))
<1>1. ASSUME NEW field \in {"ni_log_format", "ni_create_log_dirs"}, NEW w, NEW n,
             DOMAIN n = DOMAIN m, n.state = m.state, n.app = m.app,
             n.config = [m.config EXCEPT ![field] = w]
      PROVE  AnswerOK(Continue(n))
  <2>1. /\ DOMAIN n.config = DOMAIN m.config
        /\ n.config.applications = m.config.applications
    BY <1>1 DEF MessageOK, ConfigOK
  <2>2. MessageOK(n) /\ Searches(n)
    BY <1>1, <2>1, ConfigKept DEF MessageOK, ConfigOK, Searches
  <2> QED BY <2>2, ContinueOK
<1>2. ASSUME NEW w, NEW n, n = [m EXCEPT !.config.ni_log_format = w]
      PROVE  AnswerOK(Continue(n))
  <2>1. DOMAIN n = DOMAIN m /\ n.state = m.state /\ n.app = m.app
    BY <1>2 DEF MessageOK
  <2>2. n.config = [m.config EXCEPT !["ni_log_format"] = w]
    BY <1>2 DEF MessageOK
  <2> QED BY <1>1, <2>1, <2>2
<1>3. ASSUME NEW w, NEW n, n = [m EXCEPT !.config.ni_create_log_dirs = w]
      PROVE  AnswerOK(Continue(n))
  <2>1. DOMAIN n = DOMAIN m /\ n.state = m.state /\ n.app = m.app
    BY <1>3 DEF MessageOK
  <2>2. n.config = [m.config EXCEPT !["ni_create_log_dirs"] = w]
    BY <1>3 DEF MessageOK
  <2> QED BY <1>1, <2>1, <2>2
<1> DEFINE x == SetGlobal(m, name, isLeaf, v)
<1>4. \/ \E code : x = Stop(m, code)
      \/ x = Continue([m EXCEPT !.config.ni_log_format = Unescape(v.v)])
      \/ x = Continue([m EXCEPT !.config.ni_create_log_dirs = v.v])
  <2>1. CASE ~isLeaf
    BY <2>1 DEF SetGlobal
  <2>2. CASE isLeaf /\ name = "ni_log_format"
    BY <2>2 DEF SetGlobal
  <2>3. CASE isLeaf /\ name = "ni_create_log_dirs"
    BY <2>3 DEF SetGlobal
  <2> QED BY <2>1, <2>2, <2>3
<1> QED BY <1>2, <1>3, <1>4, StopOK

(* A property of an application, known or not. *)
LEMMA SetPropertyOK ==
    ASSUME NEW m, MessageOK(m), Searches(m), NEW field, NEW rest, NEW v
    PROVE  AnswerOK(SetProperty(m, field, rest, v))
<1> DEFINE x == SetProperty(m, field, rest, v)
           Allowed(y) == \/ y = Refuse(m) \/ \E code : y = Stop(m, code)
                         \/ \E f, w : y = SetField(m, f, w)
<1>1. Allowed(SetArgs(m, rest, v))
  BY DEF SetArgs
<1>2. Allowed(SetString(m, field, rest, v))
  BY DEF SetString
<1>3. Allowed(SetBool(m, field, rest, v))
  BY DEF SetBool
<1>4. Allowed(SetInteger(m, field, rest, v))
  BY DEF SetInteger, SetNonNegativeInteger
<1>5. Allowed(Stop(m, 2))
  OBVIOUS
<1> HIDE DEF Allowed
<1>6. \/ x = SetArgs(m, rest, v) \/ x = SetString(m, field, rest, v)
      \/ x = SetBool(m, field, rest, v) \/ x = SetInteger(m, field, rest, v)
      \/ x = Stop(m, 2)
  <2>1. CASE field = "args"
    BY <2>1 DEF SetProperty, StringFields, BoolFields, IntFields
  <2>2. CASE field \in StringFields
    BY <2>2 DEF SetProperty, StringFields, BoolFields, IntFields
  <2>3. CASE field \in BoolFields
    BY <2>3 DEF SetProperty, StringFields, BoolFields, IntFields
  <2>4. CASE field \in IntFields
    BY <2>4 DEF SetProperty, StringFields, BoolFields, IntFields
  <2>5. CASE field \notin {"args"} \cup StringFields \cup BoolFields \cup IntFields
    BY <2>5 DEF SetProperty
  <2> QED BY <2>1, <2>2, <2>3, <2>4, <2>5
<1>7. Allowed(x)
  BY <1>1, <1>2, <1>3, <1>4, <1>5, <1>6
<1> QED BY <1>7, RefuseOK, StopOK, SetFieldOK DEF Allowed

(* A value inside the object, whatever its path. *)
LEMMA FoundOK ==
    ASSUME NEW m, MessageOK(m), Searches(m), NEW path, NEW v
    PROVE  AnswerOK(Found(m, path, v))
<1>1. PICK own : own = SubSeq(path, Len(m.object.names) + 1, Len(path))
  OBVIOUS
<1>2. PICK name : name = Unescape(own[1].name)
  OBVIOUS
<1>3. PICK opened : opened = OpenApplication(m, name)
  OBVIOUS
<1>4. MessageOK(opened) /\ Searches(opened)
  BY <1>3, OpenApplicationOK DEF Searches
<1> DEFINE x == Found(m, path, v)
           field == IF Unescape(own[2].name).bytes = <<>> THEN own[2].name.text ELSE "(other)"
           rest == SubSeq(own, 3, Len(own))
           Index == own[1].index >= 0
           Global == own[1].index < 0 /\ name.text \in {"ni_log_format", "ni_create_log_dirs"}
                     /\ name.bytes = <<>>
<1>5. \/ x = Stop(m, 2)
      \/ /\ x = SetGlobal(m, name.text, Len(own) = 1, v)
         /\ name.text \in {"ni_log_format", "ni_create_log_dirs"}
      \/ x = Stop(opened, 2)
      \/ x = SetProperty(opened, field, rest, v)
  <2>1. x = CASE Index -> Stop(m, 2)
              [] Global -> SetGlobal(m, name.text, Len(own) = 1, v)
              [] OTHER -> IF Len(own) = 1 \/ own[2].index >= 0 THEN Stop(opened, 2)
                          ELSE SetProperty(opened, field, rest, v)
    BY <1>1, <1>2, <1>3 DEF Found
  <2>2. Global => name.text \in {"ni_log_format", "ni_create_log_dirs"}
    OBVIOUS
  <2> HIDE DEF x, field, rest, Index, Global
  <2> QED BY <2>1, <2>2
<1>6. (Len(own) = 1) \in BOOLEAN
  OBVIOUS
<1> HIDE DEF x, field, rest
<1>7. CASE /\ x = SetGlobal(m, name.text, Len(own) = 1, v)
           /\ name.text \in {"ni_log_format", "ni_create_log_dirs"}
  <2> DEFINE leaf == Len(own) = 1
  <2>1. leaf \in BOOLEAN /\ x = SetGlobal(m, name.text, leaf, v)
    BY <1>7
  <2> HIDE DEF leaf
  <2>2. AnswerOK(x)
    BY <1>7, <2>1, SetGlobalOK
  <2> QED BY <2>2 DEF x
<1>8. CASE x = Stop(m, 2) \/ x = Stop(opened, 2)
  BY <1>4, <1>8, StopOK DEF x
<1>9. CASE x = SetProperty(opened, field, rest, v)
  BY <1>4, <1>9, SetPropertyOK DEF x
<1> QED BY <1>5, <1>7, <1>8, <1>9

(* For every value of every file. *)
LEMMA CallbackOK ==
    ASSUME NEW m, MessageOK(m), Searches(m), NEW path, NEW v
    PROVE  AnswerOK(EdJSONCallback(path, v, m))
<1> DEFINE found == [m EXCEPT !.state = "found", !.return_code = 0]
           over == [m EXCEPT !.state = "finished"]
           x == EdJSONCallback(path, v, m)
<1>1. MessageOK(found) /\ Searches(found)
  <2>1. /\ DOMAIN found = DOMAIN m /\ found.config = m.config /\ found.app = m.app
        /\ found.state = "found"
    BY DEF MessageOK
  <2> HIDE DEF found
  <2> QED BY <2>1 DEF MessageOK, Searches
<1>2. MessageOK(over)
  <2>1. DOMAIN over = DOMAIN m /\ over.config = m.config /\ over.app = m.app
    BY DEF MessageOK
  <2> HIDE DEF over
  <2> QED BY <2>1 DEF MessageOK
<1>3. \/ x = Stop(m, 3) \/ x = Continue(m) \/ x = Found(found, path, v)
      \/ x = Found(m, path, v) \/ x = Stop(over, 0)
  <2>1. CASE \E i \in DOMAIN path : path[i].index < 0 /\ ~Unescapes(path[i].name)
    BY <2>1 DEF EdJSONCallback
  <2>2. CASE ~\E i \in DOMAIN path : path[i].index < 0 /\ ~Unescapes(path[i].name)
    <3> DEFINE inside == Inside(m.object, path)
    <3>1. x = CASE m.state = "searching" /\ ~inside -> Continue(m)
                [] m.state = "searching" /\ inside -> Found(found, path, v)
                [] m.state = "found" /\ inside -> Found(m, path, v)
                [] m.state = "found" /\ ~inside -> Stop(over, 0)
      BY <2>2 DEF EdJSONCallback
    <3>2. m.state \in {"searching", "found"}
      BY DEF Searches
    <3> HIDE DEF x, inside, found, over
    <3> QED BY <3>1, <3>2
  <2> QED BY <2>1, <2>2
<1> HIDE DEF found, over
<1> QED BY <1>1, <1>2, <1>3, StopOK, ContinueOK, FoundOK

(* The state of the search after the answer to a value of an application. *)
LEMMA PropertyState ==
    ASSUME NEW m, MessageOK(m), Searches(m), m.config.applications # <<>>,
           NEW field, NEW rest, NEW v
    PROVE  Searches(SetProperty(m, field, rest, v).private)
<1> DEFINE n(f, w) == [m EXCEPT !.config.applications[Len(m.config.applications)][f] = w]
<1>1. ASSUME NEW code PROVE Searches(Stop(m, code).private)
  <2>1. [m EXCEPT !.return_code = code].state = m.state
    BY DEF MessageOK
  <2> QED BY <2>1 DEF Stop, Searches
<1>2. ASSUME NEW f, NEW w PROVE Searches(SetField(m, f, w).private)
  <2>1. n(f, w).state = m.state
    BY DEF MessageOK
  <2>2. SetField(m, f, w).private = n(f, w)
    BY DEF SetField, Continue
  <2> QED BY <2>1, <2>2 DEF Searches
<1>3. Refuse(m) = Stop(m, 2)
  BY DEF Refuse
<1> QED BY <1>1, <1>2, <1>3 DEF SetProperty, SetArgs, SetString, SetBool, SetInteger,
                               SetNonNegativeInteger

(* The same after a global setting. *)
LEMMA GlobalState ==
    ASSUME NEW m, MessageOK(m), Searches(m), NEW v, NEW isLeaf \in BOOLEAN,
           NEW name \in {"ni_log_format", "ni_create_log_dirs"}
    PROVE  Searches(SetGlobal(m, name, isLeaf, v).private)
<1>1. ASSUME NEW code PROVE Searches(Stop(m, code).private)
  <2>1. [m EXCEPT !.return_code = code].state = m.state
    BY DEF MessageOK
  <2> QED BY <2>1 DEF Stop, Searches
<1>2. ASSUME NEW w PROVE [m EXCEPT !.config.ni_log_format = w].state = m.state
  BY DEF MessageOK
<1>3. ASSUME NEW w PROVE [m EXCEPT !.config.ni_create_log_dirs = w].state = m.state
  BY DEF MessageOK
<1> DEFINE x == SetGlobal(m, name, isLeaf, v)
<1>4. \/ \E code : x = Stop(m, code)
      \/ x = Continue([m EXCEPT !.config.ni_log_format = Unescape(v.v)])
      \/ x = Continue([m EXCEPT !.config.ni_create_log_dirs = v.v])
  <2>1. CASE ~isLeaf
    BY <2>1 DEF SetGlobal
  <2>2. CASE isLeaf /\ name = "ni_log_format"
    BY <2>2 DEF SetGlobal
  <2>3. CASE isLeaf /\ name = "ni_create_log_dirs"
    BY <2>3 DEF SetGlobal
  <2> QED BY <2>1, <2>2, <2>3
<1> HIDE DEF x
<1>5. ASSUME NEW n PROVE Continue(n).private = n
  BY DEF Continue
<1>6. x.private.state = m.state \/ Searches(x.private)
  <2>1. ASSUME NEW n, n.state = m.state, x = Continue(n) PROVE x.private.state = m.state
    BY <1>5, <2>1
  <2>2. PICK log : log = [m EXCEPT !.config.ni_log_format = Unescape(v.v)]
    OBVIOUS
  <2>3. PICK dirs : dirs = [m EXCEPT !.config.ni_create_log_dirs = v.v]
    OBVIOUS
  <2>4. log.state = m.state /\ dirs.state = m.state
    BY <1>2, <1>3, <2>2, <2>3
  <2>5. (\E code : x = Stop(m, code)) \/ x = Continue(log) \/ x = Continue(dirs)
    BY <1>4, <2>2, <2>3
  <2> QED BY <1>1, <2>1, <2>4, <2>5
<1> QED BY <1>6 DEF Searches, x

(* A value inside the object. *)
LEMMA FoundCrash ==
    ASSUME NEW m, MessageOK(m), Searches(m), NEW S, NEW path \in Seq(S), NEW v,
           NEW T, m.object.names \in Seq(T), Len(m.object.names) < Len(path),
           Found(m, path, v).private.state = "crashed"
    PROVE  /\ m.config.applications = <<>>
           /\ Unescape(path[Len(m.object.names) + 1].name) = Plain("")
<1>1. PICK n \in Nat : n = Len(m.object.names)
  BY LenProperties
<1>2. PICK own : own = SubSeq(path, n + 1, Len(path))
  OBVIOUS
<1>3. PICK name : name = Unescape(own[1].name)
  OBVIOUS
<1>4. PICK opened : opened = OpenApplication(m, name)
  OBVIOUS
<1>5. /\ MessageOK(opened) /\ Searches(opened)
      /\ opened.config.applications = <<>> =>
            m.config.applications = <<>> /\ name = Plain("")
  BY <1>4, OpenApplicationOK DEF Searches
<1>6. own[1] = path[n + 1]
  <2>1. PICK l \in Nat : l = Len(path)
    BY LenProperties
  <2>2. 1 \in 1..l - n
    BY <1>1, <2>1
  <2> QED BY <1>1, <1>2, <2>1, <2>2
<1> DEFINE x == Found(m, path, v)
           field == IF Unescape(own[2].name).bytes = <<>> THEN own[2].name.text ELSE "(other)"
           rest == SubSeq(own, 3, Len(own))
           Index == own[1].index >= 0
           Global == own[1].index < 0 /\ name.text \in {"ni_log_format", "ni_create_log_dirs"}
                     /\ name.bytes = <<>>
           leaf == Len(own) = 1
<1>7. \/ x = Stop(m, 2)
      \/ /\ x = SetGlobal(m, name.text, leaf, v)
         /\ name.text \in {"ni_log_format", "ni_create_log_dirs"}
      \/ x = Stop(opened, 2)
      \/ x = SetProperty(opened, field, rest, v)
  <2>1. x = CASE Index -> Stop(m, 2)
              [] Global -> SetGlobal(m, name.text, leaf, v)
              [] OTHER -> IF leaf \/ own[2].index >= 0 THEN Stop(opened, 2)
                          ELSE SetProperty(opened, field, rest, v)
    BY <1>1, <1>2, <1>3, <1>4 DEF Found
  <2>2. Global => name.text \in {"ni_log_format", "ni_create_log_dirs"}
    OBVIOUS
  <2> HIDE DEF x, field, rest, Index, Global, leaf
  <2> QED BY <2>1, <2>2
<1>8. leaf \in BOOLEAN
  OBVIOUS
<1>9. ASSUME NEW k, MessageOK(k), Searches(k) PROVE Stop(k, 2).private.state # "crashed"
  <2>1. [k EXCEPT !.return_code = 2].state = k.state
    BY <1>9 DEF MessageOK
  <2> QED BY <1>9, <2>1 DEF Stop, Searches
<1>10. x.private.state = "crashed"
  OBVIOUS
<1> HIDE DEF x, field, rest, leaf
<1>11. x = SetProperty(opened, field, rest, v)
  <2>1. ASSUME x = SetGlobal(m, name.text, leaf, v),
               name.text \in {"ni_log_format", "ni_create_log_dirs"}
        PROVE  FALSE
    <3>1. Searches(x.private)
      BY <1>8, <2>1, GlobalState
    <3> QED BY <1>10, <3>1 DEF Searches
  <2> QED BY <1>5, <1>7, <1>9, <1>10, <2>1
<1>12. opened.config.applications = <<>>
  <2>1. opened.config.applications # <<>> => Searches(x.private)
    BY <1>5, <1>11, PropertyState
  <2> QED BY <1>10, <2>1 DEF Searches
<1> QED BY <1>1, <1>3, <1>5, <1>6, <1>12

(* config.applications[-1] is accessed only for a value of an application   *)
(* named "" that comes before every other application; for every other      *)
(* value of every other file the callback finds the element that it writes. *)
THEOREM CrashNeedsEmptyName ==
    ASSUME NEW m, MessageOK(m), Searches(m), NEW S, NEW path \in Seq(S), NEW v,
           NEW T, m.object.names \in Seq(T),
           EdJSONCallback(path, v, m).private.state = "crashed"
    PROVE  /\ m.config.applications = <<>>
           /\ Unescape(path[Len(m.object.names) + 1].name) = Plain("")
<1> DEFINE found == [m EXCEPT !.state = "found", !.return_code = 0]
           over == [m EXCEPT !.state = "finished"]
           x == EdJSONCallback(path, v, m)
           inside == Inside(m.object, path)
<1>1. /\ DOMAIN found = DOMAIN m /\ found.config = m.config /\ found.app = m.app
      /\ found.state = "found" /\ found.object = m.object
  BY DEF MessageOK
<1>2. x.private.state = "crashed"
  OBVIOUS
<1>3. /\ Stop(m, 3).private.state = m.state
      /\ Continue(m).private.state = m.state
      /\ Stop(over, 0).private.state = "finished"
  BY DEF Stop, Continue, MessageOK
<1>4. m.state \in {"searching", "found"}
  BY DEF Searches
<1>5. inside /\ (x = Found(found, path, v) \/ x = Found(m, path, v))
  <2>1. CASE \E i \in DOMAIN path : path[i].index < 0 /\ ~Unescapes(path[i].name)
    <3>1. x = Stop(m, 3)
      BY <2>1 DEF EdJSONCallback
    <3> HIDE DEF x
    <3> QED BY <1>2, <1>3, <1>4, <3>1
  <2>2. CASE ~\E i \in DOMAIN path : path[i].index < 0 /\ ~Unescapes(path[i].name)
    <3>1. x = CASE m.state = "searching" /\ ~inside -> Continue(m)
                [] m.state = "searching" /\ inside -> Found(found, path, v)
                [] m.state = "found" /\ inside -> Found(m, path, v)
                [] m.state = "found" /\ ~inside -> Stop(over, 0)
      BY <2>2 DEF EdJSONCallback
    <3> HIDE DEF x, inside, found, over
    <3> QED BY <1>2, <1>3, <1>4, <3>1
  <2> QED BY <2>1, <2>2
<1>6. Len(m.object.names) < Len(path)
  BY <1>5 DEF Inside
<1> HIDE DEF found
<1>7. MessageOK(found) /\ Searches(found)
  BY <1>1 DEF MessageOK, Searches
<1>8. CASE x = Found(m, path, v)
  BY <1>2, <1>6, <1>8, FoundCrash
<1>9. CASE x = Found(found, path, v)
  BY <1>1, <1>2, <1>6, <1>7, <1>9, FoundCrash
<1> QED BY <1>5, <1>8, <1>9

-----------------------------------------------------------------------------
(* All tokens *)

(* The parser with its callback between two tokens. *)
ReadingOK(p, states) ==
    /\ ParserOK(p, states)
    /\ MessageOK(p.private)
    /\ p.rc = "parsing" => Searches(p.private)

(* What follows the callback. *)
LEMMA ReturnedOK ==
    ASSUME NEW p, NEW S, ParserOK(p, S), NEW answer, AnswerOK(answer)
    PROVE  ReadingOK(Returned(p, answer), States)
<1> DEFINE q == [p EXCEPT !.private = answer.private]
           x == Returned(p, answer)
<1>1. /\ DOMAIN q = ParserFields /\ q.private = answer.private /\ q.path = p.path
      /\ q.top = p.top /\ q.rc = p.rc /\ q.state = p.state
  BY DEF ParserOK, ParserFields
<1>2. \/ x = Fail(q, "success") /\ answer.stop
      \/ x = Goto(q, "find_comma") /\ ~answer.stop
  BY DEF Returned
<1> HIDE DEF q, x
<1>3. ParserOK(q, S)
  BY <1>1 DEF ParserOK
<1>4. "find_comma" \in States
  BY DEF States
<1>5. ParserOK(x, States) /\ x.private = q.private
  <2>1. CASE x = Fail(q, "success")
    BY <1>3, <2>1, FailOK
  <2>2. CASE x = Goto(q, "find_comma")
    BY <1>3, <1>4, <2>2, GotoOK
  <2> QED BY <1>2, <2>1, <2>2
<1>6. x.rc = "parsing" => ~answer.stop
  <2>1. ASSUME NEW rc PROVE Fail(q, rc).rc = rc
    BY <1>1 DEF Fail, ParserFields
  <2> QED BY <1>2, <2>1
<1> QED BY <1>1, <1>5, <1>6 DEF ReadingOK, AnswerOK, x

(* The callback, if there is a value. *)
LEMMA CalledOK ==
    ASSUME NEW p, ReadingOK(p, Reached)
    PROVE  ReadingOK(Called(p), States)
<1>1. CASE p.rc = "parsing" /\ p.state = "in_value"
  <2>1. PICK answer : answer = EdJSONCallback(EventPath(p), EventValue(p), p.private)
    OBVIOUS
  <2>2. AnswerOK(answer)
    BY <1>1, <2>1, CallbackOK DEF ReadingOK
  <2>3. Called(p) = Returned(p, answer)
    BY <1>1, <2>1 DEF Called
  <2> QED BY <2>2, <2>3, ReturnedOK DEF ReadingOK
<1>2. CASE ~(p.rc = "parsing" /\ p.state = "in_value")
  <2>1. Called(p) = p
    BY <1>2 DEF Called
  <2>2. ParserOK(p, States)
    BY <1>2 DEF ReadingOK, ParserOK, Reached
  <2> QED BY <2>1, <2>2 DEF ReadingOK
<1> QED BY <1>1, <1>2

(* One token and the callback. *)
LEMMA TokenOK ==
    ASSUME NEW p, ReadingOK(p, States), NEW token
    PROVE  ReadingOK(Called(Step(p, token)), States)
<1>1. PICK q : q = Step(p, token)
  OBVIOUS
<1>2. ParserOK(q, Reached) /\ q.private = p.private
  BY <1>1, StepOK DEF ReadingOK
<1>3. q.rc = "parsing" => p.rc = "parsing"
  BY <1>1 DEF Step
<1>4. ReadingOK(q, Reached)
  BY <1>2, <1>3 DEF ReadingOK
<1> QED BY <1>1, <1>4, CalledOK

(* What one more token makes of the states so far. *)
Read(ps, token) == {Called(q) : q \in {Step(p, token) : p \in ps}}

(* The recursive function in Parse is there, so it is what it says. *)
LEMMA ParseFacts ==
    ASSUME NEW private, NEW tokens, Len(tokens) \in Nat
    PROVE  \E f : /\ f[0] = {ParseBegin(private)}
                  /\ \A k \in 1..Len(tokens) : f[k] = Read(f[k - 1], tokens[k])
                  /\ Parse(private, tokens) = {AtEnd(p) : p \in f[Len(tokens)]}
<1> DEFINE start == {ParseBegin(private)}
           Rec(f, m) == f = [k \in 0..m |-> IF k = 0 THEN start ELSE Read(f[k - 1], tokens[k])]
           bad == {m \in Nat : ~\E f : Rec(f, m)}
           g == CHOOSE f : Rec(f, Len(tokens))
<1>1. bad = {}
  <2> HIDE DEF start
  <2> SUFFICES ASSUME bad # {} PROVE FALSE
    OBVIOUS
  <2>1. PICK n \in bad : \A m \in bad : n <= m
    BY Least
  <2>2. CASE n = 0
    <3>1. Rec([k \in 0..0 |-> start], 0)
      OBVIOUS
    <3> QED BY <2>1, <2>2, <3>1
  <2>3. CASE n # 0
    <3>1. n \in Nat /\ n - 1 \in Nat /\ ~(n <= n - 1)
      BY <2>1, <2>3
    <3>2. PICK f : Rec(f, n - 1)
      BY <2>1, <3>1
    <3> DEFINE h == [k \in 0..n |-> IF k = n THEN Read(f[n - 1], tokens[n]) ELSE f[k]]
    <3>3. ASSUME NEW k \in 0..n
          PROVE  h[k] = IF k = 0 THEN start ELSE Read(h[k - 1], tokens[k])
      <4>1. CASE k = 0
        <5>1. 0 \in 0..n - 1 /\ k # n
          BY <2>3, <3>1, <4>1
        <5> QED BY <3>2, <4>1, <5>1
      <4>2. CASE k # 0
        <5>1. k - 1 \in 0..n - 1 /\ k - 1 \in 0..n /\ k - 1 # n
          BY <3>1, <4>2
        <5>2. h[k - 1] = f[k - 1]
          BY <5>1
        <5>3. CASE k = n
          BY <4>2, <5>2, <5>3
        <5>4. CASE k # n
          <6>1. k \in 0..n - 1
            BY <3>1, <5>4
          <6>2. f[k] = Read(f[k - 1], tokens[k])
            BY <3>2, <4>2, <6>1
          <6> QED BY <4>2, <5>2, <5>4, <6>2
        <5> QED BY <5>3, <5>4
      <4> QED BY <4>1, <4>2
    <3>4. h = [k \in 0..n |-> h[k]]
      OBVIOUS
    <3> HIDE DEF h
    <3>5. Rec(h, n)
      BY <3>3, <3>4, Zenon
    <3> QED BY <2>1, <3>5
  <2> QED BY <2>2, <2>3
<1>2. Rec(g, Len(tokens))
  <2> HIDE DEF Rec
  <2> QED BY <1>1
<1>3. Parse(private, tokens) = {AtEnd(p) : p \in g[Len(tokens)]}
  BY DEF Parse, Read
<1> HIDE DEF g, start
<1>4. g[0] = start
  BY <1>2
<1>5. ASSUME NEW k \in 1..Len(tokens) PROVE g[k] = Read(g[k - 1], tokens[k])
  <2>1. k \in 0..Len(tokens) /\ k # 0
    OBVIOUS
  <2> QED BY <1>2, <2>1
<1> QED BY <1>3, <1>4, <1>5 DEF start

(* All tokens: between any two of them the parser is within path_mem, and   *)
(* what the callback keeps has its fields at the end.                       *)
LEMMA ParseOK ==
    ASSUME NEW private, MessageOK(private), Searches(private), NEW tokens, Len(tokens) \in Nat
    PROVE  \A p \in Parse(private, tokens) : MessageOK(p.private)
<1> DEFINE n == Len(tokens)
<1>2. PICK f : /\ f[0] = {ParseBegin(private)}
               /\ \A k \in 1..n : f[k] = Read(f[k - 1], tokens[k])
               /\ Parse(private, tokens) = {AtEnd(p) : p \in f[n]}
  BY ParseFacts
<1> DEFINE Good(k) == \A p \in f[k] : ReadingOK(p, States)
           bad == {k \in Nat : k <= n /\ ~Good(k)}
<1>3. Good(0)
  BY <1>2, BeginOK DEF ReadingOK
<1>4. bad = {}
  <2> SUFFICES ASSUME bad # {} PROVE FALSE
    OBVIOUS
  <2>1. PICK m \in bad : \A k \in bad : m <= k
    BY Least
  <2>2. m \in Nat /\ m <= n /\ ~Good(m)
    BY <2>1
  <2>3. m # 0
    BY <1>3, <2>2
  <2>4. m - 1 \in Nat /\ m - 1 <= n /\ ~(m <= m - 1) /\ m \in 1..n
    BY <2>2, <2>3
  <2>5. Good(m - 1)
    BY <2>1, <2>4
  <2>6. f[m] = Read(f[m - 1], tokens[m])
    BY <1>2, <2>4
  <2>7. \A p \in f[m - 1] : ReadingOK(Called(Step(p, tokens[m])), States)
    BY <2>5, TokenOK
  <2>8. Good(m)
    BY <2>6, <2>7 DEF Read
  <2> QED BY <2>2, <2>8
<1>5. Good(n)
  <2>1. n <= n
    OBVIOUS
  <2> QED BY <1>4, <2>1
<1>6. ASSUME NEW p \in f[n] PROVE MessageOK(AtEnd(p).private)
  <2>1. ReadingOK(p, States)
    BY <1>5
  <2>2. AtEnd(p) = p \/ AtEnd(p) = Fail(p, "success")
    BY DEF AtEnd
  <2> QED BY <2>1, <2>2, FailOK DEF ReadingOK
<1> QED BY <1>2, <1>6

(* Freed and set to its defaults, a configuration is the cleared one. *)
LEMMA ForgottenOK ==
    ASSUME NEW before, ConfigOK(before)
    PROVE  ConfigSetDefaults(ConfigFree(before)) = ZeroConfig
<1> DEFINE free == ConfigFree(before)
           c == ConfigSetDefaults(free)
<1>1. /\ DOMAIN free = {"applications", "ni_log_format", "ni_create_log_dirs"}
      /\ free.applications = <<>> /\ free.ni_log_format = Null
  BY DEF ConfigFree, ConfigOK
<1> HIDE DEF free
<1>2. c = [free EXCEPT !.ni_create_log_dirs = TRUE]
  BY DEF ConfigSetDefaults
<1>3. c = [applications |-> free.applications, ni_log_format |-> free.ni_log_format,
           ni_create_log_dirs |-> TRUE]
  BY <1>1, <1>2
<1> QED BY <1>1, <1>3 DEF ZeroConfig, free

(* The cleared configuration. *)
LEMMA ZeroOK == ConfigOK(ZeroConfig) /\ Complete(ZeroConfig) /\ AppsOK(<<>>)
<1>1. PICK S : S = {}
  OBVIOUS
<1>2. <<>> \in Seq(S) /\ \A a \in S : DOMAIN a = AppFields
  BY <1>1
<1>3. AppsOK(<<>>)
  BY <1>2 DEF AppsOK
<1>4. /\ DOMAIN ZeroConfig = {"applications", "ni_log_format", "ni_create_log_dirs"}
      /\ ZeroConfig.applications = <<>>
  BY DEF ZeroConfig
<1>5. Complete(ZeroConfig)
  BY <1>4 DEF Complete
<1> QED BY <1>3, <1>4, <1>5 DEF ConfigOK

(* If config_init() returns, it has made a configuration of the content,    *)
(* whatever was in force before; neither what it makes nor whether it       *)
(* returns depends on that.                                                 *)
LEMMA ConfigInitOK ==
    ASSUME NEW before, ConfigOK(before), NEW tokens, Len(tokens) \in Nat, NEW object
    PROVE  /\ \A c \in ConfigInit(before, tokens, object) : ConfigOK(c) /\ Complete(c)
           /\ ConfigInit(before, tokens, object) = ConfigInit(ZeroConfig, tokens, object)
           /\ ConfigInitCrashes(before, tokens, object) <=>
                 ConfigInitCrashes(ZeroConfig, tokens, object)
           /\ ConfigInitNoFile(before) = ZeroConfig
<1> DEFINE start == ConfigSetDefaults(ConfigFree(before))
           m == Message(object, start)
<1>1. start = ZeroConfig /\ ConfigSetDefaults(ConfigFree(ZeroConfig)) = ZeroConfig
  BY ForgottenOK, ZeroOK
<1>2. ConfigInit(before, tokens, object) = ConfigInit(ZeroConfig, tokens, object)
  BY <1>1 DEF ConfigInit, Ends
<1>3. MessageOK(m) /\ Searches(m)
  <2>1. /\ DOMAIN m = {"object", "app", "config", "state", "return_code"} /\ m.config = start
        /\ m.state \in {"searching", "found"} /\ m.app = Plain("")
    BY DEF Message
  <2> HIDE DEF m
  <2> QED BY <1>1, <2>1, ZeroOK DEF MessageOK, Searches
<1>4. PICK ends : ends = Parse(m, tokens)
  OBVIOUS
<1>5. \A p \in ends : MessageOK(p.private)
  BY <1>3, <1>4, ParseOK
<1>6. ASSUME NEW c \in ConfigInit(before, tokens, object) PROVE ConfigOK(c) /\ Complete(c)
  <2>1. c = ZeroConfig \/ \E p \in ends : c = Accepted(p.private)
    BY <1>4 DEF ConfigInit, Ends
  <2>2. c = ZeroConfig \/ \E p \in ends : c = p.private.config /\ Complete(c)
    BY <2>1 DEF Accepted
  <2> QED BY <1>5, <2>2, ZeroOK DEF MessageOK
<1>7. ConfigInitCrashes(before, tokens, object) <=> ConfigInitCrashes(ZeroConfig, tokens, object)
  BY <1>1 DEF ConfigInitCrashes, Ends
<1> QED BY <1>1, <1>2, <1>6, <1>7 DEF ConfigInitNoFile
=============================================================================
