--------------------------- MODULE ControlProtocol ---------------------------
(***************************************************************************)
(* The connections between "nanoinit list|status|start|stop" and the       *)
(* supervisor: control_send_command() (src/source/control.c) on the one    *)
(* side and supervisor_accept_control_connection() with the responses      *)
(* (src/source/supervisor/control_server.c) on the other, with partial     *)
(* reads and writes, the timeouts of the server, bounded socket buffers,   *)
(* clients that stop or are killed, and a nanoinit that goes away.         *)
(*                                                                         *)
(* A request is its number of bytes, the last of which is the newline.  A  *)
(* response is written in pieces; a byte of it is its position, and the    *)
(* first one stands for the header, "OK" or "ERROR".                       *)
(*                                                                         *)
(* A definition marked "Mutant" is a wrong variant of the next one, used   *)
(* only to show which property would notice.                               *)
(***************************************************************************)
EXTENDS Integers, Sequences

CONSTANTS
    Clients,        \* invocations with a control command
    Patient,        \* the clients that are neither stopped nor killed
    RequestSizes,   \* sizes of the requests
    Responses,      \* where the pieces end in which a response is written
    RequestBuffer,  \* sizeof(request), 1024 in the client and in the server
    ResponseBuffer, \* sizeof(response) in the client, 4096
    SocketBuffer    \* bytes the kernel holds for the client

ASSUME PatientAssumption == Patient \subseteq Clients
ASSUME SizesAssumption ==
    /\ RequestSizes \subseteq Nat \ {0}
    /\ Responses \subseteq Seq(Nat \ {0}) \ {<<>>}
    /\ \A r \in Responses : \A k, l \in DOMAIN r : k < l => r[k] < r[l]
    /\ RequestBuffer \in Nat \ {0, 1} /\ ResponseBuffer \in Nat \ {0, 1}
(* The kernel holds at least what the client reads: 4095 bytes are far     *)
(* less than the default of a local socket.                                *)
ASSUME SocketBufferAssumption ==
    SocketBuffer \in Nat /\ SocketBuffer >= ResponseBuffer - 1

VARIABLES
    cpc,            \* where each client is
    size,           \* the size of its request
    sent,           \* how much of it was written
    rcvd,           \* what it has read of the response
    queue,          \* bytes of the response in the socket
    spc,            \* where the server is
    cur,            \* the client whose connection was accepted
    got,            \* how much of each request the server has read
    closed,         \* the server's end of the connection is closed
    executed,       \* what the server made of the request
    response,       \* the response as a whole: header and length
    pieces,         \* where the pieces end that are left to write of it
    pos,            \* what precedes them
    died            \* nanoinit was killed while it was serving

clientVars == <<cpc, size, sent, rcvd>>
serverVars == <<spc, cur, got, executed, response, pieces, pos, died>>
vars == <<clientVars, queue, closed, serverVars>>

Gone == {"exit0", "exit1", "killed"}
NoClient == "none"
NoResponse == [ok |-> FALSE, len |-> 0]
ErrorPieces == <<1>>

TypeOK ==
    /\ cpc \in [Clients -> {"connect", "write", "read"} \cup Gone]
    /\ size \in [Clients -> RequestSizes]
    /\ sent \in [Clients -> Nat] /\ got \in [Clients -> Nat]
    /\ rcvd \in [Clients -> Seq(Nat)] /\ queue \in [Clients -> Seq(Nat)]
    /\ spc \in {"idle", "read", "reply", "down"}
    /\ cur \in Clients \cup {NoClient}
    /\ closed \in [Clients -> BOOLEAN]
    /\ executed \in [Clients -> {"none", "whole", "part"}]
    /\ response \in [Clients -> [ok : BOOLEAN, len : Nat]]
    /\ pieces \in Seq(Nat) /\ pos \in Nat
    /\ died \in BOOLEAN
    /\ \A c \in Clients : /\ got[c] <= sent[c] /\ sent[c] <= size[c]
                          /\ got[c] < RequestBuffer
                          /\ Len(queue[c]) <= SocketBuffer
                          /\ Len(rcvd[c]) < ResponseBuffer

Init ==
    /\ cpc = [c \in Clients |-> "connect"]
    /\ size \in [Clients -> RequestSizes]
    /\ sent = [c \in Clients |-> 0]
    /\ rcvd = [c \in Clients |-> <<>>]
    /\ queue = [c \in Clients |-> <<>>]
    /\ spc = "idle"
    /\ cur = NoClient
    /\ got = [c \in Clients |-> 0]
    /\ closed = [c \in Clients |-> FALSE]
    /\ executed = [c \in Clients |-> "none"]
    /\ response = [c \in Clients |-> NoResponse]
    /\ pieces = <<>>
    /\ pos = 0
    /\ died = FALSE

-----------------------------------------------------------------------------
(* control_send_command() *)

Goto(c, from, to) == cpc[c] = from /\ cpc' = [cpc EXCEPT ![c] = to]

(* The connection waits in the backlog, or is refused. *)
Connect(c) ==
    /\ Goto(c, "connect", IF spc = "down" THEN "exit1" ELSE "write")
    /\ UNCHANGED <<size, sent, rcvd, queue, closed, serverVars>>

(* Mutant: what snprintf() returns is not looked at. *)
RequestUnchecked(c) == TRUE

(* snprintf() has not truncated the request. *)
RequestFits(c) == size[c] < RequestBuffer

(* control_write_all() and shutdown(): any part of the rest at a time. *)
ClientWrite(c) ==
    /\ \/ /\ closed[c] \/ ~RequestFits(c)
          /\ Goto(c, "write", "exit1")
          /\ sent' = sent
       \/ /\ ~closed[c] /\ RequestFits(c)
          /\ \E n \in 1..(size[c] - sent[c]) :
               /\ sent' = [sent EXCEPT ![c] = @ + n]
               /\ Goto(c, "write", IF sent'[c] = size[c] THEN "read" ELSE "write")
    /\ UNCHANGED <<size, rcvd, queue, closed, serverVars>>

(* Mutant: no room is left for the terminating zero. *)
ResponseRoomTooLarge(c) == ResponseBuffer - Len(rcvd[c])

(* How much read() may return to the client. *)
ResponseRoom(c) == ResponseBuffer - 1 - Len(rcvd[c])

(* Mutant: one byte too early. *)
TruncatedEarly(received) == Len(received) >= ResponseBuffer - 2

(* A full buffer counts as truncated, whether or not more would follow. *)
Truncated(received) == Len(received) >= ResponseBuffer - 1

(* Some of what is there. *)
ClientRead(c) ==
    \E n \in 1..Len(queue[c]) :
        /\ n <= ResponseRoom(c)
        /\ rcvd' = [rcvd EXCEPT ![c] = @ \o SubSeq(queue[c], 1, n)]
        /\ queue' = [queue EXCEPT ![c] = SubSeq(@, n + 1, Len(@))]
        /\ Goto(c, "read", IF Truncated(rcvd'[c]) THEN "exit1" ELSE "read")
        /\ UNCHANGED <<size, sent, closed, serverVars>>

(* Mutant: anything that is not an error is a success. *)
AnsweredOkUnlessError(c) == rcvd[c] = <<>> \/ response[c].ok

(* The response starts with OK. *)
AnsweredOk(c) == rcvd[c] # <<>> /\ rcvd[c][1] = 1 /\ response[c].ok

(* End of file, or a reset if the server has not read the whole request. *)
ClientEnd(c) ==
    /\ closed[c] /\ queue[c] = <<>>
    /\ Goto(c, "read", IF got[c] = sent[c] /\ AnsweredOk(c) THEN "exit0" ELSE "exit1")
    /\ UNCHANGED <<size, sent, rcvd, queue, closed, serverVars>>

Client(c) == Connect(c) \/ ClientWrite(c) \/ ClientRead(c) \/ ClientEnd(c)

ClientKilled(c) ==
    /\ c \notin Patient
    /\ cpc[c] \in {"write", "read"}
    /\ cpc' = [cpc EXCEPT ![c] = "killed"]
    /\ UNCHANGED <<size, sent, rcvd, queue, closed, serverVars>>

-----------------------------------------------------------------------------
(* supervisor_accept_control_connection() *)

(* The connection waits in the backlog: it was not accepted yet. *)
InBacklog(c) == cpc[c] # "connect" /\ ~closed[c] /\ response[c] = NoResponse

Accept(c) ==
    /\ spc = "idle"
    /\ InBacklog(c)
    /\ spc' = "read"
    /\ cur' = c
    /\ UNCHANGED <<clientVars, queue, got, closed, executed, response, pieces, pos, died>>

(* The accepted connection cannot be marked close-on-exec and is dropped. *)
AcceptDropped(c) ==
    /\ spc = "idle"
    /\ InBacklog(c)
    /\ closed' = [closed EXCEPT ![c] = TRUE]
    /\ UNCHANGED <<clientVars, queue, serverVars>>

(* A response is written in pieces, the header first. *)
Respond(ok, r) ==
    /\ response' = [response EXCEPT ![cur] = [ok |-> ok, len |-> r[Len(r)]]]
    /\ pieces' = r
    /\ pos' = 0

Answer(how, ok, r) ==
    /\ executed' = [executed EXCEPT ![cur] = how]
    /\ Respond(ok, r)
    /\ spc' = "reply"

(* supervisor_handle_control_request(): the newline may be missing, and a  *)
(* part of the request is taken for the whole of another one.              *)
Handle(n) ==
    \/ /\ n > 0
       /\ \E r \in Responses, ok \in BOOLEAN :
            Answer(IF n >= size[cur] - 1 THEN "whole" ELSE "part", ok, r)
    \/ n = 0 /\ Answer("none", FALSE, ErrorPieces)

(* One read(): the request is handled at its newline, or when the buffer   *)
(* is full.                                                                *)
ServerRead ==
    /\ spc = "read"
    /\ \E n \in 1..(sent[cur] - got[cur]) :
         /\ got[cur] + n < RequestBuffer
         /\ got' = [got EXCEPT ![cur] = @ + n]
         /\ IF got'[cur] = size[cur] \/ got'[cur] = RequestBuffer - 1
              THEN Handle(got'[cur])
              ELSE UNCHANGED <<spc, executed, response, pieces, pos>>
    /\ UNCHANGED <<clientVars, queue, closed, cur, died>>

(* The client has closed its end. *)
ServerEof ==
    /\ spc = "read"
    /\ sent[cur] = got[cur] /\ cpc[cur] \in Gone \cup {"read"}
    /\ Handle(got[cur])
    /\ UNCHANGED <<clientVars, queue, closed, cur, got, died>>

(* Mutant: SO_RCVTIMEO is not set. *)
ReadTimeoutNever == FALSE /\ UNCHANGED vars

(* SO_RCVTIMEO: nothing came for a second. *)
ReadTimeout ==
    /\ spc = "read"
    /\ sent[cur] = got[cur] /\ cpc[cur] = "write"
    /\ Answer("none", FALSE, ErrorPieces)
    /\ UNCHANGED <<clientVars, queue, closed, cur, got, died>>

-----------------------------------------------------------------------------
(* supervisor_write_control_response(), once for every piece *)

ServerWrite ==
    /\ spc = "reply"
    /\ pieces # <<>> /\ cpc[cur] \notin Gone
    /\ \E n \in 1..(Head(pieces) - pos) :
         /\ Len(queue[cur]) + n <= SocketBuffer
         /\ queue' = [queue EXCEPT ![cur] = @ \o [m \in 1..n |-> pos + m]]
         /\ pos' = pos + n
         /\ pieces' = IF pos' = Head(pieces) THEN Tail(pieces) ELSE pieces
    /\ UNCHANGED <<clientVars, closed, spc, cur, got, executed, response, died>>

(* The client is gone, or did not read for a second (SO_SNDTIMEO): the     *)
(* rest of the piece is dropped, and the next piece is tried nevertheless. *)
ServerWriteFails ==
    /\ spc = "reply"
    /\ pieces # <<>>
    /\ cpc[cur] \in Gone \/ Len(queue[cur]) = SocketBuffer
    /\ pieces' = Tail(pieces)
    /\ pos' = Head(pieces)
    /\ UNCHANGED <<clientVars, queue, closed, spc, cur, got, executed, response, died>>

(* Mutant: the descriptor of the client leaks. *)
ServerCloseLeaks ==
    /\ spc = "reply" /\ pieces = <<>>
    /\ spc' = "idle"
    /\ cur' = NoClient
    /\ UNCHANGED <<clientVars, queue, closed, got, executed, response, pieces, pos, died>>

ServerClose ==
    /\ spc = "reply" /\ pieces = <<>>
    /\ closed' = [closed EXCEPT ![cur] = TRUE]
    /\ spc' = "idle"
    /\ cur' = NoClient
    /\ UNCHANGED <<clientVars, queue, got, executed, response, pieces, pos, died>>

Serve ==
    \/ ServerRead \/ ServerEof \/ ReadTimeout
    \/ ServerWrite \/ ServerWriteFails \/ ServerClose

(* nanoinit shuts down, or is killed while it serves: the kernel closes    *)
(* the connections, those in the backlog included.                         *)
Down ==
    /\ spc # "down"
    /\ spc' = "down"
    /\ cur' = NoClient
    /\ died' = (spc # "idle")
    /\ pieces' = <<>>
    /\ pos' = 0
    /\ closed' = [c \in Clients |-> TRUE]
    /\ UNCHANGED <<clientVars, queue, got, executed, response>>

Finished == (\A c \in Clients : cpc[c] \in Gone) /\ spc \in {"idle", "down"} /\ UNCHANGED vars

Next ==
    \/ Serve \/ Down \/ Finished
    \/ \E c \in Clients : \/ Client(c) \/ ClientKilled(c)
                          \/ Accept(c) \/ AcceptDropped(c)

(* Only nanoinit and the patient clients are sure to go on.  The backlog   *)
(* of the listening socket is a queue, so that no connection is overtaken  *)
(* for ever.                                                               *)
Spec ==
    /\ Init /\ [][Next]_vars
    /\ WF_vars(Serve)
    /\ \A c \in Clients : SF_vars(Accept(c))
    /\ \A c \in Patient : WF_vars(Client(c))

-----------------------------------------------------------------------------
(* Properties *)

(* The server never executes a part of a request in place of the request,  *)
(* however reads, writes and buffer limits cut it, unless the client was   *)
(* killed before it had written everything.                                *)
ExecutedAsAsked ==
    \A c \in Clients : executed[c] = "part" => cpc[c] = "killed" /\ sent[c] < size[c]

(* README.md, "Control commands return a non-zero exit code when ... the   *)
(* command cannot be completed": exit code 0 means that the request was    *)
(* executed as a whole and, unless nanoinit was killed while it answered,  *)
(* that the client has printed the response without a gap.                 *)
SuccessIsWhole ==
    \A c \in Clients : cpc[c] = "exit0" =>
        /\ executed[c] = "whole" /\ response[c].ok
        /\ died \/ rcvd[c] = [n \in 1..response[c].len |-> n]

(* The other direction, up to the length at which control.c takes a        *)
(* complete response for a truncated one: while nanoinit runs, a client    *)
(* whose request was executed and answered with OK in fewer bytes than it  *)
(* can read never fails, however the answer is cut into reads and writes   *)
(* and whatever the other clients do.                                      *)
CompletedIsSuccess ==
    \A c \in Clients :
        /\ executed[c] = "whole" /\ response[c].ok
        /\ response[c].len < ResponseBuffer - 1
        /\ spc # "down"
        => cpc[c] # "exit1"

(* A client that stops writing or reading, or is killed, does not hold up  *)
(* the single thread of the supervisor.                                    *)
ServerReturns == spc \in {"read", "reply"} ~> spc \in {"idle", "down"}

(* A client that goes on ends, whatever the clients before it do.          *)
PatientClientsReturn == \A c \in Patient : <>(cpc[c] \in Gone)
=============================================================================
