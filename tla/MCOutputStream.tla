--------------------------- MODULE MCOutputStream ---------------------------
(* Small instances of OutputStream for TLC. *)
EXTENDS OutputStream

Stream(file, pass, prefix, size, count) ==
    [file |-> file, pass |-> pass, prefix |-> prefix, size |-> size, count |-> count]

(* Rotation with 0, 1 and 2 kept files, prefixes and passthrough with and  *)
(* without a file, and one stream that is not captured at all.             *)
SomeStreams == {Stream(TRUE, FALSE, FALSE, 2, 2), Stream(TRUE, TRUE, FALSE, 2, 1),
                Stream(TRUE, TRUE, TRUE, 3, 1), Stream(TRUE, FALSE, FALSE, 1, 0),
                Stream(TRUE, TRUE, TRUE, 0, 1), Stream(FALSE, FALSE, TRUE, 2, 1),
                Stream(TRUE, FALSE, FALSE, 0, 1)}

WithAndWithoutFaults == {{}, {"open", "write"}, {"neighbour"}}
OpenFaults == {{"open"}}

OneStream == {Stream(TRUE, TRUE, FALSE, 1, 1)}
=============================================================================
