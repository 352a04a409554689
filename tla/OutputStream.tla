---------------------------- MODULE OutputStream ----------------------------
(***************************************************************************)
(* One captured output stream of an application, from the pipe the child   *)
(* writes to up to the log file, its rotated files and the passthrough     *)
(* descriptor (src/source/supervisor/app_logging.c).                       *)
(*                                                                         *)
(* A byte is its position in everything the application ever wrote and     *)
(* whether it is a newline; the rendered prefix of a line is one byte with *)
(* position 0.  Files are inodes, so that a descriptor keeps its file when *)
(* the name is moved by a rotation: dir[0] is the configured path and      *)
(* dir[k] the path with the suffix .k.                                     *)
(*                                                                         *)
(* A definition marked "Mutant" is a wrong variant of the next one, used   *)
(* only to show which property would notice.                               *)
(***************************************************************************)
EXTENDS Integers, Sequences, SequencesExt

CONSTANTS
    StreamConfigs,  \* the configured streams to consider
    ReadSize,       \* size of the read buffer (4096)
    MaxBytes,       \* bound: bytes the application writes
    MaxStarts,      \* bound: how often the stream is started
    FaultModes      \* sets to choose from: calls that may fail, and "neighbour"

(* file: stdout or stderr names a file; pass, prefix, size, count: the     *)
(* options stdout_passthrough, prefix_logs, stdout_rotate_size and         *)
(* stdout_rotate_count.                                                    *)
ASSUME StreamConfigsAssumption ==
    StreamConfigs \subseteq [file : BOOLEAN, pass : BOOLEAN, prefix : BOOLEAN,
                             size : Nat, count : Nat]
ASSUME BoundsAssumption ==
    ReadSize \in Nat \ {0} /\ MaxBytes \in Nat /\ MaxStarts \in Nat
(* "neighbour": the other stream of the application names the same file.   *)
ASSUME FaultModesAssumption == FaultModes \subseteq SUBSET {"open", "write", "neighbour"}

VARIABLES
    cfg,            \* the configuration of this stream
    faults,         \* the calls that may fail, and whether there is a neighbour
    starts,         \* how often it was started
    up,             \* pipe_fd >= 0
    pipe,           \* bytes written by the application and not yet read
    fd,             \* file_fd: NoFile, DevNull or an inode
    bytesWritten,   \* bytes_written
    lineStart,      \* prefix_at_line_start
    buf,            \* what is left to write of the bytes read last
    rotate,         \* the bytes written last call for a rotation
    inodes,         \* contents of the files
    dir,            \* the names of the log files
    passed,         \* what went to the passthrough descriptor
    emitted,        \* number of bytes the application wrote
    removed         \* history: contents of the files removed by rotations

vars == <<cfg, faults, starts, up, pipe, fd, bytesWritten, lineStart, buf, rotate,
          inodes, dir, passed, emitted, removed>>

NoFile == -1
DevNull == 0
NoInode == 0
PrefixByte == [n |-> 0, nl |-> FALSE]

(* A byte of what the application wrote up to now, or of a prefix. *)
Byte == [n : 0..emitted, nl : BOOLEAN]

TypeOK ==
    /\ cfg \in StreamConfigs
    /\ faults \in FaultModes
    /\ starts \in 0..MaxStarts
    /\ {up, lineStart, rotate} \subseteq BOOLEAN
    /\ emitted \in 0..MaxBytes
    /\ {pipe, buf, passed, removed} \subseteq Seq(Byte)
    /\ inodes \in Seq(Seq(Byte))
    /\ fd \in {NoFile, DevNull} \cup DOMAIN inodes
    /\ bytesWritten \in Nat
    /\ dir \in [0..cfg.count -> {NoInode} \cup DOMAIN inodes]

(* supervisor_output_stream_configured(): only such a stream is captured.  *)
StreamConfigured(c) ==
    IF c.file THEN c.size > 0 \/ c.pass \/ c.prefix ELSE c.prefix

(* Mutant: stdout_passthrough is ignored when there is a file. *)
PassingWithoutFile == ~cfg.file

(* The passthrough descriptor supervisor_spawn() gives to the stream.      *)
Passing == cfg.pass \/ ~cfg.file

Init ==
    /\ cfg \in {c \in StreamConfigs : StreamConfigured(c)}
    /\ faults \in FaultModes
    /\ starts = 0
    /\ up = FALSE
    /\ pipe = <<>>
    /\ fd = NoFile
    /\ bytesWritten = 0
    /\ lineStart = TRUE
    /\ buf = <<>>
    /\ rotate = FALSE
    /\ inodes = <<>>
    /\ dir = [k \in 0..cfg.count |-> NoInode]
    /\ passed = <<>>
    /\ emitted = 0
    /\ removed = <<>>

-----------------------------------------------------------------------------
(* Mutant: a missing file is not created. *)
OpenFileUncreated(names) ==
    /\ fd' = IF names[0] # NoInode THEN names[0] ELSE Len(inodes) + 1
    /\ bytesWritten' = IF names[0] # NoInode THEN Len(inodes[names[0]]) ELSE 0
    /\ dir' = names
    /\ inodes' = inodes

(* Mutant: O_TRUNC in place of O_APPEND. *)
OpenFileTruncating(names) ==
    IF names[0] # NoInode
      THEN /\ fd' = names[0]
           /\ bytesWritten' = 0
           /\ dir' = names
           /\ inodes' = [inodes EXCEPT ![names[0]] = <<>>]
      ELSE /\ fd' = Len(inodes) + 1
           /\ bytesWritten' = 0
           /\ dir' = [names EXCEPT ![0] = Len(inodes) + 1]
           /\ inodes' = Append(inodes, <<>>)

(* supervisor_open_output_stream_file(), with the names as in names: an    *)
(* existing file is appended to, and counted from its present size.        *)
OpenFile(names) ==
    IF names[0] # NoInode
      THEN /\ fd' = names[0]
           /\ bytesWritten' = Len(inodes[names[0]])
           /\ dir' = names
           /\ inodes' = inodes
      ELSE /\ fd' = Len(inodes) + 1
           /\ bytesWritten' = 0
           /\ dir' = [names EXCEPT ![0] = Len(inodes) + 1]
           /\ inodes' = Append(inodes, <<>>)

(* supervisor_start_output_stream(); a file that cannot be opened is       *)
(* replaced by /dev/null.                                                  *)
Start ==
    /\ ~up
    /\ starts < MaxStarts
    /\ starts' = starts + 1
    /\ up' = TRUE
    /\ lineStart' = TRUE
    /\ \/ cfg.file /\ OpenFile(dir)
       \/ /\ cfg.file /\ "open" \in faults
          /\ fd' = DevNull
          /\ bytesWritten' = 0
          /\ UNCHANGED <<inodes, dir>>
       \/ /\ ~cfg.file
          /\ fd' = NoFile
          /\ bytesWritten' = 0
          /\ UNCHANGED <<inodes, dir>>
    /\ UNCHANGED <<cfg, faults, pipe, buf, rotate, passed, emitted, removed>>

AppWrites(nl) ==
    /\ up
    /\ emitted < MaxBytes
    /\ emitted' = emitted + 1
    /\ pipe' = Append(pipe, [n |-> emitted + 1, nl |-> nl])
    /\ UNCHANGED <<cfg, faults, starts, up, fd, bytesWritten, lineStart, buf, rotate,
                   inodes, dir, passed, removed>>

(* Mutant: what was read before is forgotten. *)
PrefixedPerRead(bytes) ==
    FlattenSeq([k \in 1..Len(bytes) |->
        IF k > 1 /\ bytes[k - 1].nl THEN <<PrefixByte, bytes[k]>> ELSE <<bytes[k]>>])

(* supervisor_prefix_output_stream(): a prefix before the first byte of    *)
(* every line, also when a line comes in several pieces.                   *)
Prefixed(bytes) ==
    LET AtStart(k) == IF k = 1 THEN lineStart ELSE bytes[k - 1].nl
    IN  FlattenSeq([k \in 1..Len(bytes) |->
            IF AtStart(k) THEN <<PrefixByte, bytes[k]>> ELSE <<bytes[k]>>])

(* One read() of supervisor_drain_output_stream(); what nobody takes is    *)
(* thrown away.                                                            *)
ReadPipe ==
    LET size  == IF Len(pipe) < ReadSize THEN Len(pipe) ELSE ReadSize
        bytes == SubSeq(pipe, 1, size)
        taken == fd # NoFile \/ Passing
    IN  /\ up /\ buf = <<>> /\ ~rotate
        /\ pipe # <<>>
        /\ pipe' = SubSeq(pipe, size + 1, Len(pipe))
        /\ buf' = IF ~taken THEN <<>> ELSE IF cfg.prefix THEN Prefixed(bytes) ELSE bytes
        /\ lineStart' = IF taken /\ cfg.prefix THEN bytes[size].nl ELSE lineStart
        /\ UNCHANGED <<cfg, faults, starts, up, fd, bytesWritten, rotate, inodes, dir,
                       passed, emitted, removed>>

(* Mutant: whatever was read is written at once. *)
ChunkSizeUncut == Len(buf)

(* How much supervisor_write_output_stream_raw() writes at once: up to the *)
(* first newline at or behind the rotation threshold, or everything.       *)
ChunkSize ==
    LET threshold == IF bytesWritten < cfg.size THEN cfg.size - bytesWritten ELSE 0
        newlines  == {k \in 1..Len(buf) : k > threshold /\ buf[k].nl}
    IN  IF cfg.size > 0 /\ bytesWritten + Len(buf) > cfg.size /\ newlines # {}
          THEN CHOOSE k \in newlines : \A l \in newlines : k <= l
          ELSE Len(buf)

(* supervisor_write_fd() on the file; writing to /dev/null is counted too. *)
WriteFile(bytes) ==
    /\ inodes' = IF fd \in DOMAIN inodes
                   THEN [inodes EXCEPT ![fd] = @ \o bytes] ELSE inodes
    /\ bytesWritten' = IF fd = NoFile THEN bytesWritten ELSE bytesWritten + Len(bytes)

(* Mutant: rotation in the middle of a line. *)
RotationDueAnywhere(written, last) == cfg.size > 0 /\ written >= cfg.size

(* A rotation follows a newline, once the threshold is reached. *)
RotationDue(written, last) == cfg.size > 0 /\ written >= cfg.size /\ last.nl

WriteChunk ==
    LET chunk == SubSeq(buf, 1, ChunkSize)
    IN  /\ buf # <<>> /\ ~rotate
        /\ WriteFile(chunk)
        /\ passed' = IF Passing THEN passed \o chunk ELSE passed
        /\ buf' = SubSeq(buf, ChunkSize + 1, Len(buf))
        /\ rotate' = RotationDue(bytesWritten', Last(chunk))
        /\ UNCHANGED <<cfg, faults, starts, up, pipe, fd, lineStart, dir, emitted, removed>>

(* A write() fails after some bytes: the rest of the buffer is given up,   *)
(* for the other destination too.                                          *)
WriteFails ==
    /\ buf # <<>> /\ ~rotate
    /\ "write" \in faults
    /\ \E done \in 0..(ChunkSize - 1) :
         \/ /\ fd # NoFile
            /\ WriteFile(SubSeq(buf, 1, done))
            /\ passed' = passed
         \/ /\ Passing
            /\ WriteFile(SubSeq(buf, 1, ChunkSize))
            /\ passed' = passed \o SubSeq(buf, 1, done)
    /\ buf' = <<>>
    /\ UNCHANGED <<cfg, faults, starts, up, pipe, fd, lineStart, rotate, dir, emitted,
                   removed>>

(* Mutant: the renames are done in ascending order. *)
ShiftedAscending == [k \in 0..cfg.count |-> IF k = cfg.count THEN dir[0] ELSE NoInode]

(* Mutant: the oldest file is not unlinked and becomes the current one. *)
ShiftedAround == [k \in 0..cfg.count |-> IF k = 0 THEN dir[cfg.count] ELSE dir[k - 1]]

(* The renames of supervisor_rotate_output_stream(): the oldest file is    *)
(* unlinked and every other one moves up, the current one included.        *)
Shifted == [k \in 0..cfg.count |-> IF k = 0 THEN NoInode ELSE dir[k - 1]]

(* Mutant: off by one. *)
OldestButOne == IF cfg.count = 0 THEN dir[0] ELSE dir[cfg.count - 1]

(* The file a rotation removes. *)
Oldest == dir[cfg.count]

Rotate ==
    /\ rotate
    /\ rotate' = FALSE
    /\ removed' = IF Oldest = NoInode THEN removed ELSE removed \o inodes[Oldest]
    /\ \/ OpenFile(Shifted) /\ buf' = buf
       \/ /\ "open" \in faults
          /\ fd' = NoFile
          /\ dir' = Shifted
          /\ buf' = <<>>
          /\ UNCHANGED <<inodes, bytesWritten>>
    /\ UNCHANGED <<cfg, faults, starts, up, pipe, lineStart, passed, emitted>>

(* The rotation of the other stream of the application, when stdout and    *)
(* stderr name the same file: it moves the names, and this stream keeps    *)
(* its descriptor and its count.  What the neighbour writes is left out.   *)
(* One thread drains all streams, one after the other.                     *)
NeighbourRotates ==
    /\ "neighbour" \in faults
    /\ cfg.file /\ cfg.size > 0
    /\ buf = <<>> /\ ~rotate
    /\ dir[0] # NoInode
    /\ Len(inodes) < MaxBytes
    /\ removed' = IF Oldest = NoInode THEN removed ELSE removed \o inodes[Oldest]
    /\ inodes' = Append(inodes, <<>>)
    /\ dir' = [Shifted EXCEPT ![0] = Len(inodes) + 1]
    /\ UNCHANGED <<cfg, faults, starts, up, pipe, fd, bytesWritten, lineStart, buf,
                   rotate, passed, emitted>>

(* supervisor_close_output_stream() at end of file, or when the            *)
(* application is reaped and its pipe was drained.                         *)
Close ==
    /\ up /\ buf = <<>> /\ ~rotate
    /\ pipe = <<>>
    /\ up' = FALSE
    /\ fd' = NoFile
    /\ bytesWritten' = 0
    /\ lineStart' = TRUE
    /\ UNCHANGED <<cfg, faults, starts, pipe, buf, rotate, inodes, dir, passed,
                   emitted, removed>>

(* The bounds are used up. *)
Finished == ~up /\ starts = MaxStarts /\ UNCHANGED vars

Next ==
    \/ Start \/ ReadPipe \/ WriteChunk \/ WriteFails \/ Rotate \/ NeighbourRotates
    \/ Close
    \/ \E nl \in BOOLEAN : AppWrites(nl)
    \/ Finished

Spec == Init /\ [][Next]_vars

-----------------------------------------------------------------------------
(* Properties *)

Contents(k) == IF dir[k] = NoInode THEN <<>> ELSE inodes[dir[k]]

(* Everything that was logged, oldest first: removed files, the rotated    *)
(* files from the highest suffix down, the current file.                   *)
Log == removed \o FlattenSeq([k \in 1..(cfg.count + 1) |-> Contents(cfg.count + 1 - k)])

(* The bytes of the application come in the order it wrote them, and no    *)
(* byte comes twice.                                                       *)
Ascending(bytes) ==
    \A k, l \in DOMAIN bytes :
        k < l /\ bytes[k].n # 0 /\ bytes[l].n # 0 => bytes[k].n < bytes[l].n

Occurs(n, bytes) == \E k \in DOMAIN bytes : bytes[k].n = n

(* Without failures every byte of the application reaches the log exactly  *)
(* once and in order, across reads, rotations and restarts of the stream.  *)
NothingLost ==
    cfg.file /\ faults = {} =>
        LET bytes == Log \o buf \o pipe
        IN  Ascending(bytes) /\ \A n \in 1..emitted : Occurs(n, bytes)

(* A failed open, write or rotation, and a rotation by the other stream    *)
(* under the open descriptor of this one, may lose output, but what is     *)
(* logged and what is passed through is never duplicated and never out of  *)
(* order (app_logging.c).                                                  *)
InOrder == Ascending(Log) /\ Ascending(passed)

(* What has reached the log stays there as it is, up to the removal of its *)
(* file by a rotation: whatever fails, however often the application is    *)
(* started again, and when the other stream moves the file away, a step    *)
(* only adds at the end (app_logging.c).                                   *)
LogOnlyGrows == [][IsPrefix(Log, Log')]_vars

(* README.md, stdout_passthrough "passes the same bytes through": what     *)
(* went to the standard output of nanoinit is what went to the log.        *)
PassthroughSame == cfg.pass /\ cfg.file /\ faults = {} => passed = Log

(* README.md, "Rotation does not split a log line": a rotated file ends    *)
(* with a newline, and had reached the threshold.                          *)
RotatedWholeLines ==
    faults = {} => \A k \in 1..cfg.count : dir[k] # NoInode =>
        Len(Contents(k)) >= cfg.size /\ Last(Contents(k)).nl

(* Between two reads, the current file exceeds the threshold by no more    *)
(* than one unfinished line, however the output was cut into reads.        *)
OverrunIsOneLine ==
    cfg.size > 0 /\ buf = <<>> /\ ~rotate /\ faults = {} =>
        \A k \in DOMAIN Contents(0) : k > cfg.size => ~Contents(0)[k].nl

(* What the output of the stream became: the log, or without a file what   *)
(* was passed through.                                                     *)
Out == IF cfg.file THEN Log ELSE passed

LinesPrefixed(bytes) ==
    \A k \in DOMAIN bytes : (k = 1 \/ bytes[k - 1].nl) => bytes[k].n = 0

(* README.md, "nanoinit prefixes every line": also the lines that come in  *)
(* several reads, follow a rotation or are the first of a new process.     *)
EveryLinePrefixed == cfg.prefix /\ faults = {} => LinesPrefixed(Out)

AllInUse == \A k \in 0..cfg.count : dir[k] # NoInode

(* README.md, "Number of rotated stdout files to keep": a rotated file is  *)
(* removed only to make room for a newer one, when all names are in use.   *)
RemovedOnlyWhenFull == [][removed' # removed => AllInUse]_vars

(* The same, as long as no file operation fails. *)
RemovedOnlyWhenFullNoFaults == [][removed' # removed /\ faults = {} => AllInUse]_vars
=============================================================================
