-------------------------- MODULE OutputPathProofs --------------------------
(* What the steps of OutputPath preserve, for any number of openers and any *)
(* paths.  StartupProofs applies it to what nanoinit does.                  *)
EXTENDS OutputPath, SequenceFacts

-----------------------------------------------------------------------------
(* The parts of the inductive invariant, about one opener's job j, the      *)
(* directories ds and the files fs.                                         *)

APath(p) == p # <<>> /\ \E S : p \in Seq(S)
AllPaths(ps) == \E T : ps \in Seq(T) /\ \A p \in T : APath(p)

(* A job is a record with the fields of Idle; it works on ancestors only    *)
(* when directories are to be created.                                      *)
JobOK(j) ==
    /\ j = [paths |-> j.paths, create |-> j.create, step |-> j.step,
            depth |-> j.depth, failed |-> j.failed]
    /\ AllPaths(j.paths)
    /\ j.step \in {"idle", "mkdir", "stat", "open"}
    /\ j.step = "idle" <=> j.paths = <<>>
    /\ j.step \in {"mkdir", "stat"} =>
          j.create /\ j.depth \in Nat \ {0} /\ j.depth < Len(Head(j.paths))
    /\ \A f \in j.failed : f.create = j.create

(* As long as nothing is removed: the directory above the ancestor in work  *)
(* is there, what mkdir() found existing is still there, and so is the      *)
(* directory of the file once all are made.                                 *)
OnTheWayOK(j, ds, fs) ==
    LET p == Head(j.paths) IN
    /\ j.step \in {"mkdir", "stat"} => j.depth = 1 \/ SubSeq(p, 1, j.depth - 1) \in ds
    /\ j.step = "stat" => SubSeq(p, 1, j.depth) \in ds \cup fs
    /\ j.step = "open" /\ j.create => Len(p) = 1 \/ SubSeq(p, 1, Len(p) - 1) \in ds

Obstructed(p, fs) == \E g \in fs : IsStrictPrefix(g, p)

FailureOK(f, ds, fs) ==
    \/ f.errno = "ENOTDIR" /\ Obstructed(f.path, fs)
    \/ f.errno = "EISDIR" /\ f.path \in ds
    \/ f.errno = "ENOENT" /\ ~f.create /\ Front(f.path) \notin ds

JobsOK == /\ job = [o \in Openers |-> job[o]]
          /\ \A o \in Openers : JobOK(job[o])

(* The configuration in force decides for all openers whether directories   *)
(* are created.                                                             *)
FlagOK(create) ==
    \A o \in Openers : job[o].step # "idle" \/ job[o].failed # {} => job[o].create = create

WorkOK ==
    removals = 0 => \A o \in Openers :
        /\ OnTheWayOK(job[o], dirs, files)
        /\ \A f \in job[o].failed : FailureOK(f, dirs, files)

TreeOK == dirs \cap files = {} /\ removals \in Nat /\ <<"dev">> \in dirs

OutputInv(create) == JobsOK /\ FlagOK(create) /\ WorkOK /\ TreeOK

-----------------------------------------------------------------------------
(* Sequences *)

(* The ancestors of a path, and their parents. *)
LEMMA AncestorFacts ==
    ASSUME NEW p, APath(p), NEW d \in Nat \ {0}, d <= Len(p)
    PROVE  /\ Len(SubSeq(p, 1, d)) = d
           /\ Front(SubSeq(p, 1, d)) = SubSeq(p, 1, d - 1)
           /\ d < Len(p) => IsStrictPrefix(SubSeq(p, 1, d), p)
           /\ Len(p) \in Nat \ {0}
<1>1. PICK S : p \in Seq(S)
  BY DEF APath
<1> DEFINE n == Len(p)
           a == SubSeq(p, 1, d)
<1>2. n \in Nat \ {0} /\ \A i \in 1..n : p[i] \in S
  BY <1>1 DEF APath
<1> HIDE DEF n
<1>3. \A i \in 1..d : p[i] \in S
  BY <1>2 DEF n
<1>4. a \in Seq(S) /\ Len(a) = d /\ \A i \in 1..d : a[i] = p[i]
  BY <1>3, SubSeqProperties
<1> HIDE DEF a
<1>5. SubSeq(a, 1, d - 1) = SubSeq(p, 1, d - 1)
  <2> DEFINE u == SubSeq(a, 1, d - 1)
             v == SubSeq(p, 1, d - 1)
  <2>1. \A i \in 1..d - 1 : a[i] \in S /\ p[i] \in S /\ a[i] = p[i]
    BY <1>3, <1>4
  <2>2. u \in Seq(S) /\ Len(u) = d - 1 /\ \A i \in 1..d - 1 : u[i] = a[i]
    BY <2>1, SubSeqProperties
  <2>3. v \in Seq(S) /\ Len(v) = d - 1 /\ \A i \in 1..d - 1 : v[i] = p[i]
    BY <2>1, SubSeqProperties
  <2> HIDE DEF u, v
  <2>4. Len(u) = Len(v) /\ \A i \in 1..Len(u) : u[i] = v[i]
    BY <2>1, <2>2, <2>3
  <2>5. u = v
    BY <2>2, <2>3, <2>4, SeqEqual
  <2> QED BY <2>5 DEF u, v
<1>6. SubSeq(a, 1, d) = a
  BY <1>4, SubSeqFull
<1>7. d < n => IsStrictPrefix(a, p)
  <2> SUFFICES ASSUME d < n PROVE IsStrictPrefix(a, p)
    OBVIOUS
  <2>1. SubSeq(a, 1, Len(a)) = SubSeq(p, 1, Len(a))
    BY <1>4, <1>6 DEF a
  <2>2. a # p
    BY <1>4 DEF n
  <2>3. Len(a) <= Len(p)
    BY <1>2, <1>4 DEF n
  <2> QED BY <2>1, <2>2, <2>3 DEF IsStrictPrefix, IsPrefix
<1> QED BY <1>2, <1>4, <1>5, <1>7 DEF n, a, Front

(* The first path of a list, and the others. *)
LEMMA PathsFacts ==
    ASSUME NEW ps, AllPaths(ps)
    PROVE  /\ AllPaths(<<>>)
           /\ ps # <<>> => APath(Head(ps)) /\ AllPaths(Tail(ps))
<1>1. AllPaths(<<>>)
  <2>1. <<>> \in Seq({}) 
    BY EmptySeq
  <2> QED BY <2>1 DEF AllPaths
<1>2. PICK T : ps \in Seq(T) /\ \A p \in T : APath(p)
  BY DEF AllPaths
<1>3. ps # <<>> => Head(ps) \in T /\ Tail(ps) \in Seq(T)
  BY <1>2, HeadTailProperties
<1> QED BY <1>1, <1>2, <1>3 DEF AllPaths

-----------------------------------------------------------------------------
(* Jobs *)

(* Going on to the next path. *)
LEMMA BeginFacts ==
    ASSUME NEW ps, NEW create, NEW failed, AllPaths(ps),
           \A f \in failed : f.create = create
    PROVE  /\ JobOK(BeginPath(ps, create, failed))
           /\ BeginPath(ps, create, failed).create = create
           /\ BeginPath(ps, create, failed).failed = failed
           /\ BeginPath(ps, create, failed).paths = ps
           /\ \A ds, fs : OnTheWayOK(BeginPath(ps, create, failed), ds, fs)
<1> DEFINE b == BeginPath(ps, create, failed)
           n == Len(Head(ps))
<1>1. /\ b.paths = ps /\ b.create = create /\ b.failed = failed /\ b.depth = 1
      /\ b = [paths |-> b.paths, create |-> b.create, step |-> b.step,
              depth |-> b.depth, failed |-> b.failed]
  BY DEF BeginPath
<1>2. CASE ps = <<>>
  <2>1. b.step = "idle"
    BY <1>2 DEF BeginPath
  <2> HIDE DEF b
  <2>2. JobOK(b)
    BY <1>1, <1>2, <2>1 DEF JobOK
  <2>3. \A ds, fs : OnTheWayOK(b, ds, fs)
    BY <2>1 DEF OnTheWayOK
  <2> QED BY <1>1, <2>2, <2>3 DEF b
<1>3. CASE ps # <<>>
  <2>1. n \in Nat \ {0}
    BY <1>3, PathsFacts DEF APath
  <2>2. CASE create /\ n > 1
    <3>1. b.step = "mkdir"
      BY <1>3, <2>2 DEF BeginPath
    <3>2. b.create
      BY <1>1, <2>2
    <3>3. b.depth \in Nat \ {0} /\ b.depth < n
      <4> HIDE DEF b, n
      <4> QED BY <1>1, <2>1, <2>2
    <3> HIDE DEF b
    <3>4. JobOK(b)
      BY <1>1, <1>3, <3>1, <3>2, <3>3 DEF JobOK
    <3>5. \A ds, fs : OnTheWayOK(b, ds, fs)
      BY <1>1, <3>1 DEF OnTheWayOK
    <3> QED BY <1>1, <3>4, <3>5 DEF b
  <2>3. CASE ~(create /\ n > 1)
    <3>1. b.step = "open"
      BY <1>3, <2>3 DEF BeginPath
    <3>2. create => n = 1
      <4> HIDE DEF n
      <4> QED BY <2>1, <2>3
    <3> HIDE DEF b
    <3>3. JobOK(b)
      BY <1>1, <1>3, <3>1 DEF JobOK
    <3>4. \A ds, fs : OnTheWayOK(b, ds, fs)
      BY <1>1, <3>1, <3>2 DEF OnTheWayOK
    <3> QED BY <1>1, <3>3, <3>4 DEF b
  <2> QED BY <2>2, <2>3
<1> QED BY <1>2, <1>3

(* Going on to the next ancestor, when the present one is a directory. *)
LEMMA AdvanceFacts ==
    ASSUME NEW j, JobOK(j), j.step \in {"mkdir", "stat"}, NEW ds, NEW fs
    PROVE  /\ JobOK(Advanced(j))
           /\ Advanced(j).create = j.create /\ Advanced(j).failed = j.failed
           /\ SubSeq(Head(j.paths), 1, j.depth) \in ds => OnTheWayOK(Advanced(j), ds, fs)
<1> DEFINE n == Len(Head(j.paths))
           a == Advanced(j)
<1>1. APath(Head(j.paths)) /\ j.depth \in Nat \ {0} /\ j.depth < n /\ j.create
      /\ j.paths # <<>>
  BY PathsFacts DEF JobOK
<1>2. n \in Nat \ {0}
  BY <1>1 DEF APath
<1> HIDE DEF n
<1>3. CASE j.depth = n - 1
  <2>1. a = [paths |-> j.paths, create |-> j.create, step |-> "open",
             depth |-> j.depth, failed |-> j.failed]
    BY <1>3 DEF Advanced, JobOK, n
  <2> HIDE DEF a
  <2>2. /\ a.paths = j.paths /\ a.create = j.create /\ a.step = "open"
        /\ a.depth = j.depth /\ a.failed = j.failed
    BY <2>1
  <2>3. JobOK(a)
    BY <1>1, <2>1, <2>2 DEF n, JobOK
  <2>4. SubSeq(Head(j.paths), 1, j.depth) \in ds => OnTheWayOK(a, ds, fs)
    BY <1>1, <1>2, <1>3, <2>2 DEF n, OnTheWayOK
  <2> QED BY <2>2, <2>3, <2>4 DEF a
<1>4. CASE j.depth # n - 1
  <2>1. a = [paths |-> j.paths, create |-> j.create, step |-> "mkdir",
             depth |-> j.depth + 1, failed |-> j.failed]
    BY <1>4 DEF Advanced, JobOK, n
  <2>2. j.depth + 1 \in Nat \ {0} /\ j.depth + 1 < n /\ (j.depth + 1) - 1 = j.depth
    BY <1>1, <1>2, <1>4
  <2> HIDE DEF a
  <2>3. /\ a.paths = j.paths /\ a.create = j.create /\ a.step = "mkdir"
        /\ a.depth = j.depth + 1 /\ a.failed = j.failed
    BY <2>1
  <2>4. JobOK(a)
    BY <1>1, <2>1, <2>2, <2>3 DEF n, JobOK
  <2>5. SubSeq(Head(j.paths), 1, j.depth) \in ds => OnTheWayOK(a, ds, fs)
    BY <1>1, <2>2, <2>3 DEF n, OnTheWayOK
  <2> QED BY <2>3, <2>4, <2>5 DEF a
<1> QED BY <1>3, <1>4

(* A job whose mkdir() found the name existing. *)
LEMMA StatFacts ==
    ASSUME NEW j, JobOK(j)
    PROVE  [j EXCEPT !.step = "stat"] =
             [paths |-> j.paths, create |-> j.create, step |-> "stat",
              depth |-> j.depth, failed |-> j.failed]
BY DEF JobOK

(* More files, and where directories are created more directories, make no  *)
(* explanation of a failure wrong.                                          *)
LEMMA FailureKept ==
    ASSUME NEW f, NEW ds, NEW fs, NEW ds2, NEW fs2, FailureOK(f, ds, fs),
           ds \subseteq ds2, fs \subseteq fs2, ds2 = ds \/ f.create
    PROVE  FailureOK(f, ds2, fs2)
BY DEF FailureOK, Obstructed

(* A step of one opener that leaves the others alone. *)
LEMMA StepFacts ==
    ASSUME NEW create, OutputInv(create), NEW o \in Openers, job[o].step # "idle",
           NEW x, JobOK(x), x.create = job[o].create, job' = [job EXCEPT ![o] = x],
           dirs \subseteq dirs', files \subseteq files', removals' = removals,
           dirs' = dirs \/ job[o].create,
           dirs' \cap files' = {},
           removals = 0 => /\ OnTheWayOK(x, dirs', files')
                           /\ \A f \in x.failed : FailureOK(f, dirs', files')
    PROVE  OutputInv(create)'
<1>1. job'[o] = x /\ \A q \in Openers : q # o => job'[q] = job[q]
  BY DEF OutputInv, JobsOK
<1>2. JobsOK'
  <2>1. job' = [q \in Openers |-> job'[q]]
    BY DEF OutputInv, JobsOK
  <2> QED BY <1>1, <2>1 DEF OutputInv, JobsOK
<1>3. FlagOK(create)'
  BY <1>1 DEF OutputInv, FlagOK
<1>4. WorkOK'
  <2> SUFFICES ASSUME removals = 0, NEW q \in Openers
               PROVE  /\ OnTheWayOK(job'[q], dirs', files')
                      /\ \A f \in job'[q].failed : FailureOK(f, dirs', files')
    BY DEF WorkOK
  <2>1. CASE q = o
    BY <1>1, <2>1
  <2>2. CASE q # o
    <3>1. /\ OnTheWayOK(job[q], dirs, files)
          /\ \A f \in job[q].failed : FailureOK(f, dirs, files)
      BY DEF OutputInv, WorkOK
    <3>2. OnTheWayOK(job[q], dirs', files')
      BY <3>1 DEF OnTheWayOK
    <3>3. ASSUME NEW f \in job[q].failed
          PROVE  FailureOK(f, dirs', files')
      <4>1. f.create = job[q].create /\ job[q].create = create /\ job[o].create = create
        BY DEF OutputInv, JobsOK, JobOK, FlagOK
      <4>2. dirs' = dirs \/ f.create
        BY <4>1
      <4> QED BY <3>1, <4>2, FailureKept
    <3> QED BY <1>1, <2>2, <3>2, <3>3
  <2> QED BY <2>1, <2>2
<1>5. TreeOK'
  BY DEF OutputInv, TreeOK
<1> QED BY <1>2, <1>3, <1>4, <1>5 DEF OutputInv

(* Giving up a path with an error that is explained. *)
LEMMA FailedFacts ==
    ASSUME NEW create, OutputInv(create), NEW o \in Openers, job[o].step # "idle",
           NEW errno, Failed(o, errno), UNCHANGED <<dirs, files, removals>>,
           removals = 0 =>
             FailureOK([path |-> Path(o), errno |-> errno, create |-> job[o].create],
                       dirs, files)
    PROVE  OutputInv(create)'
<1> DEFINE j == job[o]
           failure == [path |-> Path(o), errno |-> errno, create |-> j.create]
           left == IF o = 0 THEN Tail(j.paths) ELSE <<>>
           b == BeginPath(left, j.create, j.failed \cup {failure})
<1>1. JobOK(j)
  BY DEF OutputInv, JobsOK
<1>2. AllPaths(left)
  BY <1>1, PathsFacts DEF JobOK
<1>3. job' = [job EXCEPT ![o] = b]
  BY DEF Failed
<1>4. \A f \in j.failed \cup {failure} : f.create = j.create
  <2>1. failure.create = j.create
    OBVIOUS
  <2> QED BY <1>1, <2>1 DEF JobOK
<1>5. /\ JobOK(b) /\ b.create = j.create /\ b.failed = j.failed \cup {failure}
      /\ \A ds, fs : OnTheWayOK(b, ds, fs)
  <2> HIDE DEF left, failure, j
  <2> QED BY <1>2, <1>4, BeginFacts
<1> HIDE DEF b
<1>6. removals = 0 => \A f \in b.failed : FailureOK(f, dirs, files)
  BY <1>5 DEF OutputInv, WorkOK
<1>7. dirs \cap files = {}
  BY DEF OutputInv, TreeOK
<1> QED BY <1>3, <1>5, <1>6, <1>7, StepFacts

(* Going on to the next ancestor. *)
LEMMA NextAncestorFacts ==
    ASSUME NEW create, OutputInv(create), NEW o \in Openers,
           job[o].step \in {"mkdir", "stat"}, NextAncestor(o),
           UNCHANGED <<files, removals>>, dirs \subseteq dirs',
           dirs' \cap files = {}, Ancestor(o) \in dirs'
    PROVE  OutputInv(create)'
<1>1. JobOK(job[o]) /\ job[o].create
  BY DEF OutputInv, JobsOK, JobOK
<1>2. job' = [job EXCEPT ![o] = Advanced(job[o])]
  BY DEF NextAncestor
<1>3. /\ JobOK(Advanced(job[o])) /\ Advanced(job[o]).create = job[o].create
      /\ Advanced(job[o]).failed = job[o].failed
      /\ OnTheWayOK(Advanced(job[o]), dirs', files')
  BY <1>1, AdvanceFacts DEF Ancestor, Path
<1>4. ASSUME removals = 0, NEW f \in Advanced(job[o]).failed
      PROVE  FailureOK(f, dirs', files')
  <2>1. f \in job[o].failed
    BY <1>3, <1>4
  <2>2. FailureOK(f, dirs, files) /\ f.create = job[o].create
    BY <1>1, <1>4, <2>1 DEF OutputInv, WorkOK, JobOK
  <2>3. f.create
    BY <1>1, <2>2
  <2> QED BY <2>2, <2>3, FailureKept
<1> QED BY <1>1, <1>2, <1>3, <1>4, StepFacts

(* What the file system says of a directory that is missing. *)
LEMMA LookupFacts ==
    ASSUME NEW p, NEW create
    PROVE  \/ LookupError(p) = "ENOTDIR" /\ Obstructed(p, files)
           \/ LookupError(p) = "ENOENT" /\ ~Obstructed(p, files)
BY DEF LookupError, Obstructed

-----------------------------------------------------------------------------
(* The actions *)

(* mkdir() fails for no other reason than that the name exists. *)
LEMMA MkdirStep ==
    ASSUME NEW create, OutputInv(create), NEW o \in Openers, Mkdir(o)
    PROVE  OutputInv(create)'
<1> DEFINE p == Path(o)
           d == job[o].depth
<1>1. /\ JobOK(job[o]) /\ job[o].step = "mkdir" /\ APath(p) /\ job[o].create
      /\ d \in Nat \ {0} /\ d < Len(p) /\ UNCHANGED <<files, removals>>
  BY PathsFacts DEF OutputInv, JobsOK, JobOK, Path, Mkdir
<1>2. d <= Len(p)
  <2>1. Len(p) \in Nat
    BY <1>1 DEF APath
  <2> HIDE DEF p, d
  <2> QED BY <1>1, <2>1
<1>3. Ancestor(o) = SubSeq(p, 1, d)
  BY DEF Ancestor
<1> HIDE DEF p, d
<1>4. Len(Ancestor(o)) = d /\ Front(Ancestor(o)) = SubSeq(p, 1, d - 1)
  BY <1>1, <1>2, <1>3, AncestorFacts
<1>5. CASE Ancestor(o) \in dirs \cup files
  <2> DEFINE x == [job[o] EXCEPT !.step = "stat"]
  <2>1. job' = [job EXCEPT ![o] = x] /\ dirs' = dirs
    BY <1>5 DEF Mkdir, OutputInv, JobsOK
  <2>2. x = [paths |-> job[o].paths, create |-> job[o].create, step |-> "stat",
             depth |-> job[o].depth, failed |-> job[o].failed]
    BY <1>1, StatFacts
  <2> HIDE DEF x
  <2>3. /\ x.paths = job[o].paths /\ x.create = job[o].create /\ x.step = "stat"
        /\ x.depth = job[o].depth /\ x.failed = job[o].failed
    BY <2>2
  <2>4. JobOK(x)
    BY <1>1, <2>2, <2>3 DEF JobOK
  <2>5. removals = 0 => /\ OnTheWayOK(x, dirs, files)
                        /\ \A f \in x.failed : FailureOK(f, dirs, files)
    <3> SUFFICES ASSUME removals = 0
                 PROVE  /\ OnTheWayOK(x, dirs, files)
                        /\ \A f \in x.failed : FailureOK(f, dirs, files)
      OBVIOUS
    <3>1. /\ OnTheWayOK(job[o], dirs, files)
          /\ \A f \in job[o].failed : FailureOK(f, dirs, files)
      BY DEF OutputInv, WorkOK
    <3>2. OnTheWayOK(x, dirs, files)
      BY <1>1, <1>3, <1>5, <2>3, <3>1 DEF OnTheWayOK, p, d, Path
    <3> QED BY <2>3, <3>1, <3>2
  <2>6. dirs \cap files = {}
    BY DEF OutputInv, TreeOK
  <2> QED BY <1>1, <2>1, <2>3, <2>4, <2>5, <2>6, StepFacts
<1>6. CASE Ancestor(o) \notin dirs \cup files /\ ParentExists(Ancestor(o))
  <2>1. dirs' = dirs \cup {Ancestor(o)} /\ NextAncestor(o)
    BY <1>6 DEF Mkdir
  <2>2. dirs' \cap files = {}
    BY <1>6, <2>1 DEF OutputInv, TreeOK
  <2> QED BY <1>1, <2>1, <2>2, NextAncestorFacts
<1>7. CASE Ancestor(o) \notin dirs \cup files /\ ~ParentExists(Ancestor(o))
  <2>1. Failed(o, LookupError(Ancestor(o))) /\ UNCHANGED dirs
    BY <1>7 DEF Mkdir
  <2>2. removals # 0
    <3> SUFFICES ASSUME removals = 0 PROVE FALSE
      OBVIOUS
    <3>1. d = 1 \/ SubSeq(p, 1, d - 1) \in dirs
      BY <1>1 DEF OutputInv, WorkOK, OnTheWayOK, p, d, Path
    <3> QED BY <1>4, <1>7, <3>1 DEF ParentExists
  <2> QED BY <1>1, <2>1, <2>2, FailedFacts
<1> QED BY <1>5, <1>6, <1>7

(* What mkdir() found existing is a directory, or a file in the way. *)
LEMMA StatStep ==
    ASSUME NEW create, OutputInv(create), NEW o \in Openers, Stat(o)
    PROVE  OutputInv(create)'
<1> DEFINE p == Path(o)
           d == job[o].depth
<1>1. /\ JobOK(job[o]) /\ job[o].step = "stat" /\ APath(p) /\ job[o].create
      /\ d \in Nat \ {0} /\ d < Len(p) /\ UNCHANGED <<dirs, files, removals>>
  BY PathsFacts DEF OutputInv, JobsOK, JobOK, Path, Stat
<1>2. d <= Len(p)
  <2>1. Len(p) \in Nat
    BY <1>1 DEF APath
  <2> HIDE DEF p, d
  <2> QED BY <1>1, <2>1
<1>3. Ancestor(o) = SubSeq(p, 1, d)
  BY DEF Ancestor
<1>4. IsStrictPrefix(Ancestor(o), p)
  <2> HIDE DEF p, d
  <2> QED BY <1>1, <1>2, <1>3, AncestorFacts
<1>5. CASE Ancestor(o) \in dirs
  <2>1. NextAncestor(o) /\ dirs' \cap files = {}
    BY <1>1, <1>5 DEF Stat, OutputInv, TreeOK
  <2> QED BY <1>1, <1>5, <2>1, NextAncestorFacts
<1>6. CASE Ancestor(o) \notin dirs
  <2>1. Failed(o, "ENOTDIR")
    BY <1>6 DEF Stat
  <2>2. removals = 0 => Ancestor(o) \in files
    BY <1>1, <1>3, <1>6 DEF OutputInv, WorkOK, OnTheWayOK, Path
  <2>3. removals = 0 =>
          FailureOK([path |-> Path(o), errno |-> "ENOTDIR", create |-> job[o].create],
                    dirs, files)
    BY <1>4, <2>2 DEF FailureOK, Obstructed
  <2> QED BY <1>1, <2>1, <2>3, FailedFacts
<1> QED BY <1>5, <1>6

(* open() fails only for the reasons that OpensUnlessHindered lists. *)
LEMMA OpenStep ==
    ASSUME NEW create, OutputInv(create), NEW o \in Openers, Open(o)
    PROVE  OutputInv(create)'
<1> DEFINE j == job[o]
           p == Path(o)
<1>1. JobOK(j) /\ j.step = "open" /\ APath(p) /\ UNCHANGED <<dirs, removals>>
  BY PathsFacts DEF OutputInv, JobsOK, JobOK, Path, Open
<1>2. dirs \cap files = {}
  BY DEF OutputInv, TreeOK
<1>3. CASE ParentExists(p) /\ p \notin dirs
  <2> DEFINE b == BeginPath(Tail(j.paths), j.create, j.failed)
  <2>1. files' = files \cup {p} /\ job' = [job EXCEPT ![o] = b]
    BY <1>3 DEF Open, NextPath
  <2>2. /\ JobOK(b) /\ b.create = j.create /\ b.failed = j.failed
        /\ \A ds, fs : OnTheWayOK(b, ds, fs)
    <3>1. AllPaths(Tail(j.paths)) /\ \A f \in j.failed : f.create = j.create
      BY <1>1, PathsFacts DEF JobOK
    <3> HIDE DEF j
    <3> QED BY <3>1, BeginFacts
  <2> HIDE DEF b
  <2>3. removals = 0 => \A f \in b.failed : FailureOK(f, dirs', files')
    <3> SUFFICES ASSUME removals = 0, NEW f \in j.failed
                 PROVE  FailureOK(f, dirs', files')
      BY <2>2
    <3>1. FailureOK(f, dirs, files)
      BY DEF OutputInv, WorkOK
    <3> QED BY <1>1, <2>1, <3>1, FailureKept
  <2>4. dirs' \cap files' = {}
    BY <1>1, <1>2, <1>3, <2>1
  <2> QED BY <1>1, <2>1, <2>2, <2>3, <2>4, StepFacts
<1>4. CASE ~(ParentExists(p) /\ p \notin dirs)
  <2> DEFINE errno == IF p \in dirs THEN "EISDIR" ELSE LookupError(p)
             failure == [path |-> p, errno |-> errno, create |-> j.create]
  <2>1. Failed(o, errno) /\ files' = files
    BY <1>4 DEF Open
  <2>2. removals = 0 => FailureOK(failure, dirs, files)
    <3> SUFFICES ASSUME removals = 0 PROVE FailureOK(failure, dirs, files)
      OBVIOUS
    <3>1. failure.path = p /\ failure.errno = errno /\ failure.create = j.create
      OBVIOUS
    <3> HIDE DEF failure
    <3>2. CASE p \in dirs
      BY <3>1, <3>2 DEF FailureOK
    <3>3. CASE p \notin dirs
      <4>1. Len(p) # 1 /\ Front(p) \notin dirs
        BY <1>4, <3>3 DEF ParentExists
      <4>2. ~j.create
        BY <1>1, <4>1 DEF OutputInv, WorkOK, OnTheWayOK, Front, Path
      <4>3. ~failure.create
        BY <3>1, <4>2
      <4> QED BY <3>1, <3>3, <4>1, <4>3, LookupFacts DEF FailureOK
    <3> QED BY <3>2, <3>3
  <2> HIDE DEF errno
  <2> QED BY <1>1, <2>1, <2>2, FailedFacts
<1> QED BY <1>3, <1>4

(* After a removal nothing is claimed but the shape of the jobs. *)
LEMMA RemoveStep ==
    ASSUME NEW create, OutputInv(create), NEW p, RemovePath(p)
    PROVE  OutputInv(create)'
<1>1. removals' = removals + 1 /\ removals \in Nat /\ UNCHANGED job
  BY DEF RemovePath, OutputInv, TreeOK
<1>2. JobsOK' /\ FlagOK(create)'
  BY <1>1 DEF OutputInv, JobsOK, FlagOK
<1>3. WorkOK'
  BY <1>1 DEF WorkOK
<1>4. p # <<"dev">>
  BY DEF RemovePath
<1>5. TreeOK'
  BY <1>1, <1>4 DEF OutputInv, TreeOK, RemovePath
<1> QED BY <1>2, <1>3, <1>5 DEF OutputInv

(* The invariant says what it is for. *)
LEMMA OutputInvImplies ==
    ASSUME NEW create, OutputInv(create)
    PROVE  OpensUnlessHindered
<1> SUFFICES ASSUME removals = 0, NEW o \in Openers, NEW f \in job[o].failed
             PROVE  LET obstructed == \E g \in files : IsStrictPrefix(g, f.path) IN
                    CASE f.errno = "ENOTDIR" -> obstructed
                      [] f.errno = "EISDIR" -> f.path \in dirs
                      [] f.errno = "ENOENT" -> ~f.create /\ Front(f.path) \notin dirs
                      [] OTHER -> FALSE
  BY DEF OpensUnlessHindered
<1>1. FailureOK(f, dirs, files)
  BY DEF OutputInv, WorkOK
<1> QED BY <1>1 DEF FailureOK, Obstructed

(* No step gives an opener another path to work on. *)
LEMMA PathsShrink ==
    ASSUME NEW create, OutputInv(create), NEW o \in Openers, OutputStep(o),
           NEW q \in Openers
    PROVE  \/ job'[q].paths = job[q].paths
           \/ job[q].paths # <<>> /\ job'[q].paths \in {Tail(job[q].paths), <<>>}
<1>1. JobOK(job[o]) /\ job[o].step # "idle" /\ job[o].paths # <<>>
  BY DEF OutputInv, JobsOK, JobOK, OutputStep, Mkdir, Stat, Open
<1>2. job = [r \in Openers |-> job[r]]
  BY DEF OutputInv, JobsOK
<1>3. ASSUME NEW x, job' = [job EXCEPT ![o] = x],
             x.paths \in {job[o].paths, Tail(job[o].paths), <<>>}
      PROVE  \/ job'[q].paths = job[q].paths
             \/ job[q].paths # <<>> /\ job'[q].paths \in {Tail(job[q].paths), <<>>}
  <2>1. CASE q = o
    BY <1>1, <1>2, <1>3, <2>1
  <2>2. CASE q # o
    BY <1>2, <1>3, <2>2
  <2> QED BY <2>1, <2>2
<1>4. \A ps, c, fl : BeginPath(ps, c, fl).paths = ps
  BY DEF BeginPath
<1>5. CASE NextAncestor(o)
  <2>1. Advanced(job[o]).paths = job[o].paths
    BY <1>1 DEF Advanced, JobOK
  <2> QED BY <1>3, <1>5, <2>1 DEF NextAncestor
<1>6. CASE NextPath(o)
  <2> DEFINE b == BeginPath(Tail(job[o].paths), job[o].create, job[o].failed)
  <2>1. job' = [job EXCEPT ![o] = b]
    BY <1>6 DEF NextPath
  <2>2. b.paths = Tail(job[o].paths)
    BY <1>4
  <2> HIDE DEF b
  <2> QED BY <1>3, <2>1, <2>2
<1>7. ASSUME NEW errno, Failed(o, errno)
      PROVE  \/ job'[q].paths = job[q].paths
             \/ job[q].paths # <<>> /\ job'[q].paths \in {Tail(job[q].paths), <<>>}
  <2> DEFINE left == IF o = 0 THEN Tail(job[o].paths) ELSE <<>>
             fl == job[o].failed \cup
                     {[path |-> Path(o), errno |-> errno, create |-> job[o].create]}
             b == BeginPath(left, job[o].create, fl)
  <2>1. job' = [job EXCEPT ![o] = b]
    BY <1>7 DEF Failed
  <2>2. b.paths = left
    BY <1>4
  <2> HIDE DEF b
  <2>3. b.paths \in {job[o].paths, Tail(job[o].paths), <<>>}
    BY <2>2
  <2> QED BY <1>3, <2>1, <2>3
<1>8. CASE job' = [job EXCEPT ![o].step = "stat"]
  <2> DEFINE x == [job[o] EXCEPT !.step = "stat"]
  <2>1. x.paths = job[o].paths
    BY <1>1, StatFacts
  <2>2. job' = [job EXCEPT ![o] = x]
    BY <1>8
  <2> HIDE DEF x
  <2> QED BY <1>3, <2>1, <2>2
<1> QED BY <1>5, <1>6, <1>7, <1>8 DEF OutputStep, Mkdir, Stat, Open
=============================================================================
