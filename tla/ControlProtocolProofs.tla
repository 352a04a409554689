----------------------- MODULE ControlProtocolProofs ------------------------
(***************************************************************************)
(* Proofs about ControlProtocol, for every set of clients, every request   *)
(* and response and every size of the buffers.                             *)
(*                                                                         *)
(* That exit code 0 means a complete response depends on what a write that *)
(* timed out has left: the bytes that follow a gap are only read by a      *)
(* client whose buffer the bytes before it have filled, and that client    *)
(* reports a truncated response.  StreamInv says so.                       *)
(***************************************************************************)
EXTENDS ControlProtocol, TLAPS

(* The connection that is served is open and was not answered before; only *)
(* a shutdown closes the others.                                           *)
ServingInv ==
    /\ spc \in {"read", "reply"} =>
         cur \in Clients /\ ~closed[cur] /\ cpc[cur] # "connect"
    /\ spc = "read" => response[cur] = NoResponse
    /\ spc = "reply" => response[cur] # NoResponse
    /\ spc = "down" => \A c \in Clients : closed[c]
    /\ died => spc = "down"

Serving(c) == spc = "reply" /\ cur = c

(* How far a request has come, by where its client is. *)
RequestInv(c) ==
    /\ cpc[c] = "connect" => sent[c] = 0
    /\ cpc[c] = "write" => sent[c] < size[c]
    /\ cpc[c] \in {"read", "exit0"} => sent[c] = size[c]
    /\ cpc[c] = "exit0" => closed[c]
    /\ cpc[c] = "exit1" /\ ~closed[c] /\ response[c] = NoResponse => sent[c] = 0
    /\ sent[c] > 0 => size[c] < RequestBuffer
    /\ cpc[c] \notin Gone => ~Truncated(rcvd[c])

(* What the server has made of it. *)
AnswerInv(c) ==
    /\ response[c] = NoResponse =>
         rcvd[c] = <<>> /\ queue[c] = <<>> /\ executed[c] = "none"
    /\ response[c] # NoResponse => response[c].len > 0
    /\ response[c] # NoResponse /\ ~Serving(c) => closed[c]
    /\ response[c].ok => executed[c] # "none"
    /\ executed[c] # "none" => got[c] > 0
    /\ executed[c] = "whole" => cpc[c] = "killed" \/ got[c] = size[c]

(* The ends of the pieces ascend, from behind pos up to the length. *)
Ascending(p) == \A k, l \in DOMAIN p : k < l => p[k] < p[l]

PiecesInv ==
    spc = "reply" =>
      /\ Ascending(pieces)
      /\ \A k \in DOMAIN pieces : pos < pieces[k] /\ pieces[k] <= response[cur].len
      /\ pieces = <<>> => pos = response[cur].len
      /\ pieces # <<>> => pieces[Len(pieces)] = response[cur].len

(* What was written so far of the response, without a gap. *)
Intact(c) ==
    /\ \A n \in 1..Len(rcvd[c]) : rcvd[c][n] = n
    /\ \A n \in 1..Len(queue[c]) : queue[c][n] = Len(rcvd[c]) + n
    /\ Len(rcvd[c]) + Len(queue[c]) = IF Serving(c) THEN pos ELSE response[c].len

(* More than the client reads without reporting a truncated response. *)
Overfull(c) ==
    /\ Len(rcvd[c]) + Len(queue[c]) >= ResponseBuffer - 1
    /\ response[c].len >= ResponseBuffer - 1

StreamInv(c) ==
    cpc[c] \notin Gone /\ response[c] # NoResponse /\ ~died => Intact(c) \/ Overfull(c)

IInv ==
    /\ TypeOK
    /\ ServingInv
    /\ PiecesInv
    /\ \A c \in Clients : RequestInv(c) /\ AnswerInv(c) /\ StreamInv(c)
    /\ ExecutedAsAsked
    /\ SuccessIsWhole
    /\ CompletedIsSuccess

-----------------------------------------------------------------------------
(* Facts about the steps *)

(* What is appended to a sequence follows it. *)
LEMMA AppendFacts ==
    ASSUME NEW s \in Seq(Nat), NEW t \in Seq(Nat)
    PROVE  /\ s \o t \in Seq(Nat)
           /\ Len(s \o t) = Len(s) + Len(t)
           /\ \A k \in 1..Len(s) : (s \o t)[k] = s[k]
           /\ \A k \in 1..Len(t) : (s \o t)[Len(s) + k] = t[k]
OBVIOUS

(* What a client reads, n bytes, moves from the front of the socket to the *)
(* end of what it has read.                                                *)
ReadBy(c, n) ==
    /\ n <= Len(queue[c]) /\ Len(rcvd[c]) + n < ResponseBuffer
    /\ rcvd' \in [Clients -> Seq(Nat)] /\ queue' \in [Clients -> Seq(Nat)]
    /\ \A d \in Clients \ {c} : rcvd'[d] = rcvd[d] /\ queue'[d] = queue[d]
    /\ Len(rcvd'[c]) = Len(rcvd[c]) + n
    /\ Len(queue'[c]) = Len(queue[c]) - n
    /\ \A k \in 1..Len(rcvd[c]) : rcvd'[c][k] = rcvd[c][k]
    /\ \A k \in 1..n : rcvd'[c][Len(rcvd[c]) + k] = queue[c][k]
    /\ \A k \in 1..Len(queue'[c]) : queue'[c][k] = queue[c][k + n]
    /\ cpc[c] = "read"
    /\ cpc' = [cpc EXCEPT ![c] = IF Truncated(rcvd'[c]) THEN "exit1" ELSE "read"]

(* What control_client.c's read() does: some bytes move from the socket to  *)
(* the end of what was received, and nothing else changes.                  *)
LEMMA ReadFacts ==
    ASSUME TypeOK, NEW c \in Clients, ClientRead(c)
    PROVE  /\ UNCHANGED <<size, sent, closed, spc, cur, got, executed, response,
                          pieces, pos, died>>
           /\ \E n \in Nat \ {0} : ReadBy(c, n)
<1>1. PICK n \in 1..Len(queue[c]) :
        /\ n <= ResponseBuffer - 1 - Len(rcvd[c])
        /\ rcvd' = [rcvd EXCEPT ![c] = rcvd[c] \o SubSeq(queue[c], 1, n)]
        /\ queue' = [queue EXCEPT ![c] = SubSeq(queue[c], n + 1, Len(queue[c]))]
        /\ cpc[c] = "read"
        /\ cpc' = [cpc EXCEPT ![c] = IF Truncated(rcvd'[c]) THEN "exit1" ELSE "read"]
  BY DEF ClientRead, ResponseRoom, Goto
<1>2. rcvd[c] \in Seq(Nat) /\ queue[c] \in Seq(Nat) /\ n \in Nat
  BY DEF TypeOK
<1>3. /\ SubSeq(queue[c], 1, n) \in Seq(Nat)
      /\ Len(SubSeq(queue[c], 1, n)) = n
      /\ \A k \in 1..n : SubSeq(queue[c], 1, n)[k] = queue[c][k]
  BY <1>2
<1>4. /\ SubSeq(queue[c], n + 1, Len(queue[c])) \in Seq(Nat)
      /\ Len(SubSeq(queue[c], n + 1, Len(queue[c]))) = Len(queue[c]) - n
      /\ \A k \in 1..Len(queue[c]) - n :
           SubSeq(queue[c], n + 1, Len(queue[c]))[k] = queue[c][k + n]
  BY <1>2
<1>5. /\ rcvd'[c] = rcvd[c] \o SubSeq(queue[c], 1, n)
      /\ queue'[c] = SubSeq(queue[c], n + 1, Len(queue[c]))
      /\ \A d \in Clients \ {c} : rcvd'[d] = rcvd[d] /\ queue'[d] = queue[d]
  BY <1>1 DEF TypeOK
<1>6. /\ rcvd'[c] \in Seq(Nat)
      /\ Len(rcvd'[c]) = Len(rcvd[c]) + n
      /\ \A k \in 1..Len(rcvd[c]) : rcvd'[c][k] = rcvd[c][k]
      /\ \A k \in 1..n : rcvd'[c][Len(rcvd[c]) + k] = queue[c][k]
  <2> DEFINE new == SubSeq(queue[c], 1, n)
  <2>1. new \in Seq(Nat) /\ Len(new) = n /\ \A k \in 1..n : new[k] = queue[c][k]
    BY <1>3
  <2>2. rcvd'[c] = rcvd[c] \o new
    BY <1>5
  <2> HIDE DEF new
  <2>3. /\ rcvd[c] \o new \in Seq(Nat)
        /\ Len(rcvd[c] \o new) = Len(rcvd[c]) + Len(new)
        /\ \A k \in 1..Len(rcvd[c]) : (rcvd[c] \o new)[k] = rcvd[c][k]
        /\ \A k \in 1..Len(new) : (rcvd[c] \o new)[Len(rcvd[c]) + k] = new[k]
    BY <1>2, <2>1, AppendFacts
  <2> QED BY <2>1, <2>2, <2>3
<1>7. rcvd' \in [Clients -> Seq(Nat)] /\ queue' \in [Clients -> Seq(Nat)]
  BY <1>1, <1>4, <1>5, <1>6 DEF TypeOK
<1>8. Len(rcvd[c]) + n < ResponseBuffer
  BY <1>1, <1>2, SizesAssumption
<1>9. ReadBy(c, n) /\ n \in Nat \ {0}
  BY <1>1, <1>2, <1>4, <1>5, <1>6, <1>7, <1>8 DEF ReadBy
<1> QED BY <1>9 DEF ClientRead, serverVars

(* The request of cur is answered, and the first piece is due. *)
Answered ==
    /\ spc' = "reply" /\ pos' = 0
    /\ executed' \in [Clients -> {"none", "whole", "part"}]
    /\ response' \in [Clients -> [ok : BOOLEAN, len : Nat]]
    /\ \A d \in Clients \ {cur} : executed'[d] = executed[d] /\ response'[d] = response[d]
    /\ response'[cur].len > 0
    /\ pieces' \in Seq(Nat) /\ pieces' # <<>>
    /\ Ascending(pieces')
    /\ \A k \in DOMAIN pieces' : 0 < pieces'[k] /\ pieces'[k] <= response'[cur].len
    /\ pieces'[Len(pieces')] = response'[cur].len

(* Answering a request starts the reply with a non-empty ascending list of  *)
(* pieces and records what was executed.                                    *)
LEMMA AnswerFacts ==
    ASSUME TypeOK, cur \in Clients, NEW how \in {"none", "whole", "part"},
           NEW ok \in BOOLEAN, NEW r \in Responses \cup {ErrorPieces},
           Answer(how, ok, r)
    PROVE  Answered /\ executed'[cur] = how /\ response'[cur].ok = ok
<1>1. r \in Seq(Nat \ {0}) /\ r # <<>> /\ Ascending(r)
  <2>1. CASE r \in Responses
    BY <2>1, SizesAssumption DEF Ascending
  <2>2. CASE r = <<1>>
    BY <2>2 DEF Ascending
  <2> QED BY <2>1, <2>2 DEF ErrorPieces
<1>2. DOMAIN r = 1..Len(r) /\ Len(r) \in Nat \ {0} /\ r \in Seq(Nat)
  BY <1>1
<1>3. \A k \in DOMAIN r : r[k] \in Nat \ {0} /\ r[k] <= r[Len(r)]
  BY <1>1, <1>2 DEF Ascending
<1>4. r[Len(r)] \in Nat \ {0}
  BY <1>2, <1>3
<1>5. /\ response'[cur] = [ok |-> ok, len |-> r[Len(r)]]
      /\ executed'[cur] = how
      /\ \A d \in Clients \ {cur} : executed'[d] = executed[d] /\ response'[d] = response[d]
  BY DEF Answer, Respond, TypeOK
<1>6. /\ executed' \in [Clients -> {"none", "whole", "part"}]
      /\ response' \in [Clients -> [ok : BOOLEAN, len : Nat]]
  BY <1>4 DEF Answer, Respond, TypeOK
<1>7. spc' = "reply" /\ pos' = 0 /\ pieces' = r
  BY DEF Answer, Respond
<1> QED BY <1>1, <1>2, <1>3, <1>4, <1>5, <1>6, <1>7 DEF Answered

(* Handling a request, or what was read of it: only a non-empty one is     *)
(* executed, and only such a one is answered with OK.                      *)
HandledAs(n) ==
    /\ Answered
    /\ executed'[cur] = "none" => ~response'[cur].ok
    /\ executed'[cur] = "whole" => n > 0 /\ n >= size[cur] - 1
    /\ executed'[cur] = "part" => n > 0 /\ ~(n >= size[cur] - 1)

(* supervisor_handle_control_client() on n bytes executes the request as a  *)
(* whole, a cut one, or nothing.                                            *)
LEMMA HandleFacts ==
    ASSUME TypeOK, cur \in Clients, NEW n \in Nat, Handle(n)
    PROVE  HandledAs(n)
<1>1. CASE n = 0 /\ Answer("none", FALSE, ErrorPieces)
  BY <1>1, AnswerFacts DEF HandledAs
<1>2. ASSUME n > 0, NEW r \in Responses, NEW ok \in BOOLEAN,
             Answer(IF n >= size[cur] - 1 THEN "whole" ELSE "part", ok, r)
      PROVE  HandledAs(n)
  <2>1. CASE n >= size[cur] - 1
    BY <1>2, <2>1, AnswerFacts DEF HandledAs
  <2>2. CASE ~(n >= size[cur] - 1)
    BY <1>2, <2>2, AnswerFacts DEF HandledAs
  <2> QED BY <2>1, <2>2
<1> QED BY <1>1, <1>2 DEF Handle

(* One step of reading a request: more of it has come, or it is handled    *)
(* because it is complete, because the buffer is full or because the       *)
(* client has closed its end, or it is refused because nothing came.       *)
Reading == ServerRead \/ ServerEof \/ ReadTimeout

HandledWhen(m) ==
    /\ HandledAs(m)
    /\ \/ executed'[cur] = "none"
       \/ m = size[cur] \/ m = RequestBuffer - 1
       \/ m = sent[cur] /\ cpc[cur] \in Gone \cup {"read"}

Took(m) ==
    /\ got' = [got EXCEPT ![cur] = m]
    /\ got[cur] <= m /\ m <= sent[cur] /\ m < RequestBuffer
    /\ UNCHANGED <<spc, executed, response, pieces, pos>> \/ HandledWhen(m)

(* Every way out of the server's read() takes some m bytes of the request,  *)
(* and either goes on reading or handles what it has.                       *)
LEMMA ReadingFacts ==
    ASSUME TypeOK, ServingInv, Reading
    PROVE  /\ spc = "read" /\ cur \in Clients
           /\ UNCHANGED <<cpc, size, sent, rcvd, queue, closed, cur, died>>
           /\ \E m \in Nat : Took(m)
<1>1. spc = "read" /\ UNCHANGED <<cpc, size, sent, rcvd, queue, closed, cur, died>>
  BY DEF Reading, ServerRead, ServerEof, ReadTimeout, clientVars
<1>2. cur \in Clients /\ got[cur] \in Nat /\ sent[cur] \in Nat /\ got[cur] < RequestBuffer
  BY <1>1 DEF ServingInv, TypeOK
<1>3. CASE ServerRead
  <2>1. PICK n \in 1..(sent[cur] - got[cur]) :
          /\ got[cur] + n < RequestBuffer
          /\ got' = [got EXCEPT ![cur] = got[cur] + n]
          /\ IF got'[cur] = size[cur] \/ got'[cur] = RequestBuffer - 1
               THEN Handle(got'[cur])
               ELSE UNCHANGED <<spc, executed, response, pieces, pos>>
    BY <1>3 DEF ServerRead
  <2>2. got'[cur] = got[cur] + n
    BY <1>2, <2>1 DEF TypeOK
  <2>3. got[cur] + n \in Nat /\ got[cur] <= got[cur] + n /\ got[cur] + n <= sent[cur]
    BY <1>2
  <2>4. CASE Handle(got[cur] + n) /\ (got[cur] + n = size[cur] \/ got[cur] + n = RequestBuffer - 1)
    BY <1>1, <1>2, <2>1, <2>3, <2>4, HandleFacts DEF HandledWhen, Took
  <2>5. CASE UNCHANGED <<spc, executed, response, pieces, pos>>
    BY <1>1, <1>2, <2>1, <2>3, <2>5 DEF Took
  <2> QED BY <2>1, <2>2, <2>4, <2>5
<1>4. ASSUME ServerEof \/ ReadTimeout
      PROVE  got' = [got EXCEPT ![cur] = got[cur]] /\ got[cur] = sent[cur]
  BY <1>4 DEF ServerEof, ReadTimeout, TypeOK
<1>5. CASE ServerEof
  <2>1. HandledAs(got[cur])
    BY <1>2, <1>5, HandleFacts DEF ServerEof
  <2> QED BY <1>1, <1>2, <1>4, <1>5, <2>1 DEF HandledWhen, ServerEof, Took
<1>6. CASE ReadTimeout
  <2>1. HandledAs(got[cur]) /\ executed'[cur] = "none"
    BY <1>2, <1>6, AnswerFacts DEF ReadTimeout, HandledAs
  <2> QED BY <1>1, <1>2, <1>4, <1>6, <2>1 DEF HandledWhen, Took
<1> QED BY <1>3, <1>5, <1>6 DEF Reading

(* What the server writes, n bytes, follows what it wrote before. *)
Wrote(n) ==
    /\ pos' = pos + n /\ pos + n <= Head(pieces)
    /\ queue' \in [Clients -> Seq(Nat)]
    /\ \A d \in Clients \ {cur} : queue'[d] = queue[d]
    /\ Len(queue'[cur]) = Len(queue[cur]) + n
    /\ Len(queue[cur]) + n <= SocketBuffer
    /\ \A k \in 1..Len(queue[cur]) : queue'[cur][k] = queue[cur][k]
    /\ \A k \in 1..n : queue'[cur][Len(queue[cur]) + k] = pos + k
    /\ pieces' = IF pos + n = Head(pieces) THEN Tail(pieces) ELSE pieces

(* One write() of the server appends the next bytes of the response to the  *)
(* socket and leaves the rest of the current piece for later.               *)
LEMMA WriteFacts ==
    ASSUME TypeOK, ServingInv, ServerWrite
    PROVE  /\ spc = "reply" /\ cur \in Clients /\ cpc[cur] \notin Gone /\ pieces # <<>>
           /\ UNCHANGED <<cpc, size, sent, rcvd, closed, spc, cur, got, executed,
                          response, died>>
           /\ \E n \in Nat \ {0} : Wrote(n)
<1>1. PICK n \in 1..(Head(pieces) - pos) :
         /\ Len(queue[cur]) + n <= SocketBuffer
         /\ queue' = [queue EXCEPT ![cur] = queue[cur] \o [m \in 1..n |-> pos + m]]
         /\ pos' = pos + n
         /\ pieces' = IF pos' = Head(pieces) THEN Tail(pieces) ELSE pieces
  BY DEF ServerWrite
<1>2. cur \in Clients /\ queue[cur] \in Seq(Nat) /\ pos \in Nat
  BY DEF ServerWrite, ServingInv, TypeOK
<1>3. pieces \in Seq(Nat) /\ pieces # <<>> /\ Head(pieces) \in Nat
  BY DEF ServerWrite, TypeOK
<1>4. n \in Nat \ {0} /\ pos + n <= Head(pieces)
  BY <1>2, <1>3
<1>5. /\ [m \in 1..n |-> pos + m] \in Seq(Nat)
      /\ Len([m \in 1..n |-> pos + m]) = n
      /\ \A k \in 1..n : [m \in 1..n |-> pos + m][k] = pos + k
  BY <1>2, <1>4
<1>6. /\ queue'[cur] = queue[cur] \o [m \in 1..n |-> pos + m]
      /\ \A d \in Clients \ {cur} : queue'[d] = queue[d]
  BY <1>1, <1>2 DEF TypeOK
<1>7. /\ queue'[cur] \in Seq(Nat)
      /\ Len(queue'[cur]) = Len(queue[cur]) + n
      /\ \A k \in 1..Len(queue[cur]) : queue'[cur][k] = queue[cur][k]
      /\ \A k \in 1..n : queue'[cur][Len(queue[cur]) + k] = pos + k
  <2> DEFINE new == [m \in 1..n |-> pos + m]
  <2>1. new \in Seq(Nat) /\ Len(new) = n /\ \A k \in 1..n : new[k] = pos + k
    BY <1>5
  <2>2. queue'[cur] = queue[cur] \o new
    BY <1>6
  <2> HIDE DEF new
  <2>3. /\ queue[cur] \o new \in Seq(Nat)
        /\ Len(queue[cur] \o new) = Len(queue[cur]) + Len(new)
        /\ \A k \in 1..Len(queue[cur]) : (queue[cur] \o new)[k] = queue[cur][k]
        /\ \A k \in 1..Len(new) : (queue[cur] \o new)[Len(queue[cur]) + k] = new[k]
    BY <1>2, <2>1, AppendFacts
  <2> QED BY <2>1, <2>2, <2>3
<1>8. queue' \in [Clients -> Seq(Nat)]
  BY <1>1, <1>2, <1>6, <1>7 DEF TypeOK
<1>9. Wrote(n)
  BY <1>1, <1>4, <1>6, <1>7, <1>8 DEF Wrote
<1> QED BY <1>2, <1>4, <1>9 DEF ServerWrite, clientVars

(* The rest of an ascending sequence of ends. *)
LEMMA TailFacts ==
    ASSUME NEW p \in Seq(Nat), p # <<>>, Ascending(p)
    PROVE  /\ Head(p) \in Nat /\ Head(p) = p[1] /\ 1 \in DOMAIN p
           /\ Tail(p) \in Seq(Nat)
           /\ Ascending(Tail(p))
           /\ \A k \in DOMAIN Tail(p) : Tail(p)[k] = p[k + 1] /\ k + 1 \in DOMAIN p
           /\ \A k \in DOMAIN Tail(p) : Head(p) < Tail(p)[k]
           /\ Tail(p) = <<>> => Head(p) = p[Len(p)]
           /\ Tail(p) # <<>> => Tail(p)[Len(Tail(p))] = p[Len(p)]
<1>1. /\ Len(p) \in Nat \ {0} /\ DOMAIN p = 1..Len(p)
      /\ Head(p) = p[1] /\ Head(p) \in Nat
      /\ Tail(p) \in Seq(Nat) /\ Len(Tail(p)) = Len(p) - 1
      /\ DOMAIN Tail(p) = 1..(Len(p) - 1)
      /\ \A k \in 1..(Len(p) - 1) : Tail(p)[k] = p[k + 1]
  OBVIOUS
<1>2. \A k \in 1..Len(p) : p[k] \in Nat
  OBVIOUS
<1>3. \A k, l \in 1..Len(p) : k < l => p[k] < p[l]
  BY <1>1 DEF Ascending
<1>4. Ascending(Tail(p))
  <2> SUFFICES ASSUME NEW k \in 1..(Len(p) - 1), NEW l \in 1..(Len(p) - 1), k < l
               PROVE  p[k + 1] < p[l + 1]
    BY <1>1 DEF Ascending
  <2> QED BY <1>1, <1>3
<1>5. \A k \in 1..(Len(p) - 1) : Head(p) < Tail(p)[k] /\ k + 1 \in DOMAIN p
  BY <1>1, <1>3
<1>6. Tail(p) = <<>> => Len(p) = 1
  BY <1>1
<1>7. Tail(p) # <<>> => Len(p) - 1 \in 1..(Len(p) - 1)
  BY <1>1
<1>8. Tail(p) # <<>> => Tail(p)[Len(p) - 1] = p[Len(p)]
  BY <1>1, <1>7
<1>9. \A k \in DOMAIN Tail(p) : Tail(p)[k] = p[k + 1] /\ k + 1 \in DOMAIN p
  BY <1>1, <1>5
<1>10. \A k \in DOMAIN Tail(p) : Head(p) < Tail(p)[k]
  BY <1>1, <1>5
<1>11. Tail(p) = <<>> => Head(p) = p[Len(p)]
  BY <1>1, <1>6
<1>12. Tail(p) # <<>> => Tail(p)[Len(Tail(p))] = p[Len(p)]
  BY <1>1, <1>8
<1> QED BY <1>1, <1>4, <1>9, <1>10, <1>11, <1>12, SMTT(30)

(* A client writes more of its request, or gives up: the server has gone,  *)
(* or the request does not fit.                                            *)
LEMMA ClientWriteFacts ==
    ASSUME TypeOK, NEW c \in Clients, ClientWrite(c)
    PROVE  /\ cpc[c] = "write"
           /\ UNCHANGED <<size, rcvd, queue, closed, spc, cur, got, executed, response,
                          pieces, pos, died>>
           /\ \A d \in Clients \ {c} : sent'[d] = sent[d] /\ cpc'[d] = cpc[d]
           /\ sent' \in [Clients -> Nat]
           /\ cpc' \in [Clients -> {"connect", "write", "read"} \cup Gone]
           /\ \/ /\ closed[c] \/ ~(size[c] < RequestBuffer)
                 /\ cpc'[c] = "exit1" /\ sent'[c] = sent[c]
              \/ /\ ~closed[c] /\ size[c] < RequestBuffer
                 /\ sent[c] < sent'[c] /\ sent'[c] <= size[c]
                 /\ cpc'[c] = IF sent'[c] = size[c] THEN "read" ELSE "write"
<1>1. sent[c] \in Nat /\ size[c] \in Nat
  BY SizesAssumption DEF TypeOK
<1>2. CASE closed[c] \/ ~RequestFits(c)
  <2>1. cpc' = [cpc EXCEPT ![c] = "exit1"] /\ sent' = sent /\ cpc[c] = "write"
    BY <1>2 DEF ClientWrite, Goto
  <2>2. cpc' \in [Clients -> {"connect", "write", "read"} \cup Gone]
    BY <2>1 DEF TypeOK, Gone
  <2> QED BY <1>2, <2>1, <2>2 DEF ClientWrite, RequestFits, TypeOK, serverVars
<1>3. CASE ~closed[c] /\ RequestFits(c)
  <2>1. PICK n \in 1..(size[c] - sent[c]) :
          /\ sent' = [sent EXCEPT ![c] = sent[c] + n]
          /\ cpc[c] = "write"
          /\ cpc' = [cpc EXCEPT ![c] = IF sent'[c] = size[c] THEN "read" ELSE "write"]
    BY <1>3 DEF ClientWrite, Goto
  <2>2. n \in Nat /\ sent[c] < sent[c] + n /\ sent[c] + n <= size[c] /\ sent[c] + n \in Nat
    BY <1>1
  <2>3. /\ sent' \in [Clients -> Nat] /\ sent'[c] = sent[c] + n
        /\ \A d \in Clients \ {c} : sent'[d] = sent[d]
    BY <2>1, <2>2 DEF TypeOK
  <2>4. cpc' \in [Clients -> {"connect", "write", "read"} \cup Gone]
    BY <2>1 DEF TypeOK
  <2>5. /\ cpc'[c] = IF sent'[c] = size[c] THEN "read" ELSE "write"
        /\ \A d \in Clients \ {c} : cpc'[d] = cpc[d]
    BY <2>1 DEF TypeOK
  <2> QED BY <1>3, <2>1, <2>2, <2>3, <2>4, <2>5 DEF ClientWrite, RequestFits, serverVars
<1> QED BY <1>2, <1>3

(* The types at one client. *)
LEMMA ClientTypes ==
    ASSUME TypeOK, NEW c \in Clients
    PROVE  /\ cpc[c] \in {"connect", "write", "read"} \cup Gone
           /\ size[c] \in Nat \ {0} /\ sent[c] \in Nat /\ got[c] \in Nat
           /\ got[c] <= sent[c] /\ sent[c] <= size[c] /\ got[c] < RequestBuffer
           /\ rcvd[c] \in Seq(Nat) /\ queue[c] \in Seq(Nat)
           /\ Len(rcvd[c]) \in Nat /\ Len(queue[c]) \in Nat
           /\ Len(queue[c]) <= SocketBuffer /\ Len(rcvd[c]) < ResponseBuffer
           /\ executed[c] \in {"none", "whole", "part"}
           /\ response[c].len \in Nat
<1>1. size[c] \in Nat \ {0} /\ sent[c] \in Nat /\ got[c] \in Nat
  BY SizesAssumption DEF TypeOK
<1>2. rcvd[c] \in Seq(Nat) /\ queue[c] \in Seq(Nat)
  BY DEF TypeOK
<1>3. response[c] \in [ok : BOOLEAN, len : Nat]
  BY DEF TypeOK
<1> QED BY <1>1, <1>2, <1>3 DEF TypeOK

(* A step of Next: of one client, of its connection or of the server. *)
Action(c) ==
    \/ Connect(c) \/ ClientWrite(c) \/ ClientRead(c) \/ ClientEnd(c)
    \/ ClientKilled(c) \/ Accept(c) \/ AcceptDropped(c)
    \/ Reading \/ ServerWrite \/ ServerWriteFails \/ ServerClose
    \/ Down \/ UNCHANGED vars

(* What the steps that touch no sequence do, at each client. *)
OnlyCpc(c) ==
    /\ \A d \in Clients \ {c} : cpc'[d] = cpc[d]
    /\ cpc' \in [Clients -> {"connect", "write", "read"} \cup Gone]
    /\ UNCHANGED <<size, sent, rcvd, queue, closed, spc, cur, got, executed, response,
                   pieces, pos, died>>

(* A connect() only moves the client on. *)
LEMMA ConnectFacts ==
    ASSUME TypeOK, NEW c \in Clients, Connect(c)
    PROVE  /\ OnlyCpc(c)
           /\ cpc[c] = "connect"
           /\ cpc'[c] = IF spc = "down" THEN "exit1" ELSE "write"
BY DEF Connect, Goto, OnlyCpc, TypeOK, Gone, serverVars

(* At the end of the response the client chooses its exit status. *)
LEMMA EndFacts ==
    ASSUME TypeOK, NEW c \in Clients, ClientEnd(c)
    PROVE  /\ OnlyCpc(c)
           /\ cpc[c] = "read" /\ closed[c] /\ queue[c] = <<>>
           /\ cpc'[c] = IF got[c] = sent[c] /\ AnsweredOk(c) THEN "exit0" ELSE "exit1"
BY DEF ClientEnd, Goto, OnlyCpc, TypeOK, Gone, serverVars

(* A client that is killed leaves everything else as it is. *)
LEMMA KilledFacts ==
    ASSUME TypeOK, NEW c \in Clients, ClientKilled(c)
    PROVE  OnlyCpc(c) /\ cpc[c] \in {"write", "read"} /\ cpc'[c] = "killed"
BY DEF ClientKilled, OnlyCpc, TypeOK, Gone, serverVars

(* Steps of the server that leave the clients and the sockets alone. *)
LEMMA ServerFacts ==
    ASSUME TypeOK, NEW c \in Clients,
           Accept(c) \/ AcceptDropped(c) \/ ServerClose \/ Down
    PROVE  /\ UNCHANGED <<cpc, size, sent, rcvd, queue, got, executed, response>>
           /\ closed' \in [Clients -> BOOLEAN]
           /\ \A d \in Clients : closed[d] => closed'[d]
BY DEF Accept, AcceptDropped, ServerClose, Down, TypeOK, clientVars, serverVars

(* A write() that fails gives up the current piece and no other one. *)
LEMMA WriteFailsFacts ==
    ASSUME TypeOK, ServingInv, PiecesInv, ServerWriteFails
    PROVE  /\ spc = "reply" /\ cur \in Clients
           /\ pieces \in Seq(Nat) /\ pieces # <<>> /\ Ascending(pieces)
           /\ pieces' = Tail(pieces) /\ pos' = Head(pieces)
           /\ cpc[cur] \in Gone \/ Len(queue[cur]) = SocketBuffer
           /\ UNCHANGED <<cpc, size, sent, rcvd, queue, closed, spc, cur, got, executed,
                          response, died>>
BY DEF ServerWriteFails, ServingInv, PiecesInv, TypeOK, clientVars

-----------------------------------------------------------------------------
(* The conjuncts of the invariant *)

(* Every action preserves the types. *)
LEMMA TypeStep ==
    ASSUME TypeOK, ServingInv, PiecesInv, NEW c \in Clients, Action(c)
    PROVE  TypeOK'
<1>1. CASE Connect(c)
  BY <1>1, ConnectFacts DEF OnlyCpc, TypeOK
<1>2. CASE ClientWrite(c)
  <2>1. \A d \in Clients : got[d] <= sent'[d] /\ sent'[d] <= size[d]
    <3> SUFFICES ASSUME NEW d \in Clients PROVE got[d] <= sent'[d] /\ sent'[d] <= size[d]
      OBVIOUS
    <3>1. sent[d] <= sent'[d] /\ sent'[d] <= size[d] /\ sent'[d] \in Nat
      <4>1. CASE d = c
        BY <1>2, <4>1, ClientWriteFacts, ClientTypes
      <4>2. CASE d # c
        BY <1>2, <4>2, ClientWriteFacts, ClientTypes
      <4> QED BY <4>1, <4>2
    <3> QED BY <3>1, ClientTypes
  <2> QED BY <1>2, <2>1, ClientWriteFacts DEF TypeOK
<1>3. CASE ClientRead(c)
  <2>1. PICK n \in Nat \ {0} : ReadBy(c, n)
    BY <1>3, ReadFacts
  <2>2. cpc' \in [Clients -> {"connect", "write", "read"} \cup Gone]
    BY <2>1 DEF ReadBy, TypeOK, Gone
  <2>3. Len(rcvd'[c]) < ResponseBuffer /\ Len(queue'[c]) <= SocketBuffer
    BY <2>1, ClientTypes, SocketBufferAssumption DEF ReadBy
  <2>4. \A d \in Clients : Len(rcvd'[d]) < ResponseBuffer /\ Len(queue'[d]) <= SocketBuffer
    BY <2>1, <2>3, ClientTypes DEF ReadBy
  <2>5. rcvd' \in [Clients -> Seq(Nat)] /\ queue' \in [Clients -> Seq(Nat)]
    BY <2>1 DEF ReadBy
  <2> QED BY <1>3, <2>2, <2>4, <2>5, ReadFacts DEF TypeOK
<1>4. CASE ClientEnd(c)
  BY <1>4, EndFacts DEF OnlyCpc, TypeOK
<1>5. CASE ClientKilled(c)
  BY <1>5, KilledFacts DEF OnlyCpc, TypeOK
<1>6. CASE Accept(c)
  BY <1>6, ServerFacts DEF Accept, TypeOK
<1>7. CASE AcceptDropped(c)
  BY <1>7, ServerFacts DEF AcceptDropped, serverVars, TypeOK
<1>8. CASE Reading
  <2>1. PICK m \in Nat : Took(m)
    BY <1>8, ReadingFacts
  <2>2. /\ got' \in [Clients -> Nat]
        /\ \A d \in Clients : got'[d] <= sent[d] /\ got'[d] < RequestBuffer
    BY <1>8, <2>1, ReadingFacts DEF Took, TypeOK
  <2>3. CASE UNCHANGED <<spc, executed, response, pieces, pos>>
    BY <1>8, <2>2, <2>3, ReadingFacts DEF TypeOK
  <2>4. CASE HandledWhen(m)
    BY <1>8, <2>2, <2>4, ReadingFacts DEF HandledWhen, HandledAs, Answered, TypeOK
  <2> QED BY <2>1, <2>3, <2>4 DEF Took
<1>9. CASE ServerWrite
  <2>1. PICK n \in Nat \ {0} : Wrote(n)
    BY <1>9, WriteFacts
  <2>2. \A d \in Clients : Len(queue'[d]) <= SocketBuffer
    BY <1>9, <2>1, WriteFacts DEF Wrote, TypeOK
  <2>3. pieces' \in Seq(Nat) /\ pos' \in Nat
    BY <1>9, <2>1, WriteFacts, TailFacts DEF Wrote, TypeOK, PiecesInv
  <2> QED BY <1>9, <2>1, <2>2, <2>3, WriteFacts DEF Wrote, TypeOK
<1>10. CASE ServerWriteFails
  BY <1>10, WriteFailsFacts, TailFacts DEF TypeOK
<1>11. CASE ServerClose
  BY <1>11, ServerFacts DEF ServerClose, TypeOK
<1>12. CASE Down
  <2>1. died' \in BOOLEAN
    BY <1>12 DEF Down
  <2>2. spc' = "down" /\ cur' = NoClient /\ pieces' \in Seq(Nat) /\ pos' = 0
    BY <1>12 DEF Down
  <2> QED BY <1>12, <2>1, <2>2, ServerFacts DEF TypeOK
<1>13. CASE UNCHANGED vars
  BY <1>13 DEF TypeOK, vars, clientVars, serverVars
<1> QED
  BY <1>1, <1>2, <1>3, <1>4, <1>5, <1>6, <1>7, <1>8, <1>9, <1>10, <1>11, <1>12, <1>13
     DEF Action

(* Every action preserves what the server knows of its current client. *)
LEMMA ServingStep ==
    ASSUME IInv, NEW c \in Clients, Action(c)
    PROVE  ServingInv'
<1> USE DEF IInv
<1>1. CASE Connect(c)
  BY <1>1, ConnectFacts DEF OnlyCpc, ServingInv
<1>2. CASE ClientWrite(c)
  BY <1>2, ClientWriteFacts DEF ServingInv
<1>3. CASE ClientRead(c)
  <2>1. cpc'[cur] # "connect" \/ spc \notin {"read", "reply"}
    BY <1>3, ReadFacts DEF ReadBy, ServingInv, TypeOK
  <2> QED BY <1>3, <2>1, ReadFacts DEF ServingInv
<1>4. CASE ClientEnd(c)
  BY <1>4, EndFacts DEF OnlyCpc, ServingInv
<1>5. CASE ClientKilled(c)
  BY <1>5, KilledFacts DEF OnlyCpc, ServingInv
<1>6. CASE Accept(c)
  BY <1>6, ServerFacts DEF Accept, InBacklog, ServingInv
<1>7. CASE AcceptDropped(c)
  BY <1>7, ServerFacts DEF AcceptDropped, InBacklog, serverVars, ServingInv
<1>8. CASE Reading
  <2>1. PICK m \in Nat : Took(m)
    BY <1>8, ReadingFacts
  <2>2. CASE UNCHANGED <<spc, executed, response, pieces, pos>>
    BY <1>8, <2>2, ReadingFacts DEF ServingInv
  <2>3. CASE HandledWhen(m)
    <3>1. spc' = "reply" /\ response'[cur] # NoResponse
      BY <2>3 DEF HandledWhen, HandledAs, Answered, NoResponse
    <3> QED BY <1>8, <3>1, ReadingFacts DEF ServingInv
  <2> QED BY <2>1, <2>2, <2>3 DEF Took
<1>9. CASE ServerWrite
  BY <1>9, WriteFacts DEF ServingInv
<1>10. CASE ServerWriteFails
  BY <1>10, WriteFailsFacts DEF ServingInv
<1>11. CASE ServerClose
  BY <1>11, ServerFacts DEF ServerClose, ServingInv
<1>12. CASE Down
  BY <1>12, ServerFacts DEF Down, ServingInv
<1>13. CASE UNCHANGED vars
  BY <1>13 DEF vars, clientVars, serverVars, ServingInv
<1> QED
  BY <1>1, <1>2, <1>3, <1>4, <1>5, <1>6, <1>7, <1>8, <1>9, <1>10, <1>11, <1>12, <1>13
     DEF Action

(* A write takes what follows pos off the pieces, and a write that fails   *)
(* goes on behind the piece.                                               *)
LEMMA PiecesStep ==
    ASSUME IInv, NEW c \in Clients, Action(c)
    PROVE  PiecesInv'
<1> USE DEF IInv
<1>1. CASE UNCHANGED <<spc, cur, response, pieces, pos>>
  BY <1>1 DEF PiecesInv, Ascending
<1>2. CASE spc' # "reply"
  BY <1>2 DEF PiecesInv
<1>3. CASE Reading
  <2>1. PICK m \in Nat : Took(m)
    BY <1>3, ReadingFacts
  <2>2. CASE HandledWhen(m)
    BY <1>3, <2>2, ReadingFacts
       DEF HandledWhen, HandledAs, Answered, PiecesInv, Ascending
  <2> QED BY <1>1, <1>3, <2>1, <2>2, ReadingFacts DEF Took
<1>4. ASSUME spc = "reply", pieces # <<>>
      PROVE  /\ pieces \in Seq(Nat) /\ Ascending(pieces)
             /\ \A k \in DOMAIN pieces : /\ pieces[k] \in Nat /\ pos < pieces[k]
                                         /\ pieces[k] <= response[cur].len
             /\ pieces[Len(pieces)] = response[cur].len
             /\ pos \in Nat
  BY <1>4 DEF PiecesInv, TypeOK
<1>5. ASSUME spc = "reply", pieces # <<>>, pieces' = Tail(pieces), pos' = Head(pieces),
             UNCHANGED <<spc, cur, response>>
      PROVE  PiecesInv'
  <2>1. \A k \in DOMAIN Tail(pieces) : /\ Head(pieces) < Tail(pieces)[k]
                                       /\ Tail(pieces)[k] <= response[cur].len
    BY <1>4, <1>5, TailFacts
  <2>2. /\ Ascending(Tail(pieces))
        /\ Tail(pieces) = <<>> => Head(pieces) = response[cur].len
        /\ Tail(pieces) # <<>> => Tail(pieces)[Len(Tail(pieces))] = response[cur].len
    BY <1>4, <1>5, TailFacts
  <2> QED BY <1>5, <2>1, <2>2 DEF PiecesInv, Ascending
<1>6. CASE ServerWrite
  <2>1. PICK n \in Nat \ {0} : Wrote(n)
    BY <1>6, WriteFacts
  <2>2. CASE pos + n = Head(pieces)
    BY <1>5, <1>6, <2>1, <2>2, WriteFacts DEF Wrote
  <2>3. CASE pos + n # Head(pieces)
    <3>1. spc = "reply" /\ pieces # <<>> /\ UNCHANGED <<spc, cur, response>>
      BY <1>6, WriteFacts
    <3>2. pieces' = pieces /\ pos' = pos + n /\ pos + n <= Head(pieces)
      BY <2>1, <2>3 DEF Wrote
    <3>3. Head(pieces) = pieces[1] /\ Head(pieces) \in Nat /\ 1 \in DOMAIN pieces
      BY <1>4, <3>1, TailFacts
    <3>4. pos + n < Head(pieces)
      <4>1. pos \in Nat
        BY DEF TypeOK
      <4> QED BY <2>3, <3>2, <3>3, <4>1
    <3>5. DOMAIN pieces = 1..Len(pieces) /\ Len(pieces) \in Nat
      BY <1>4, <3>1
    <3>6. \A k \in DOMAIN pieces : Head(pieces) <= pieces[k]
      BY <1>4, <3>1, <3>3, <3>5 DEF Ascending
    <3>7. \A k \in DOMAIN pieces : pos + n < pieces[k]
      BY <1>4, <3>1, <3>3, <3>4, <3>6
    <3> QED BY <1>4, <3>1, <3>2, <3>7 DEF PiecesInv, Ascending
  <2> QED BY <2>2, <2>3
<1>7. CASE ServerWriteFails
  BY <1>5, <1>7, WriteFailsFacts
<1>8. ASSUME Connect(c) \/ ClientWrite(c) \/ ClientRead(c) \/ ClientEnd(c)
             \/ ClientKilled(c) \/ AcceptDropped(c) \/ UNCHANGED vars
      PROVE  UNCHANGED <<spc, cur, response, pieces, pos>>
  BY <1>8 DEF Connect, ClientWrite, ClientRead, ClientEnd, ClientKilled, AcceptDropped,
     vars, serverVars
<1>9. ASSUME Accept(c) \/ ServerClose \/ Down
      PROVE  spc' # "reply"
  BY <1>9 DEF Accept, ServerClose, Down
<1> QED BY <1>1, <1>2, <1>3, <1>6, <1>7, <1>8, <1>9 DEF Action

(* RequestInv of a client that the step leaves alone. *)
LEMMA RequestStable ==
    ASSUME NEW c \in Clients, RequestInv(c),
           cpc'[c] = cpc[c], sent'[c] = sent[c], rcvd'[c] = rcvd[c], size' = size,
           closed[c] => closed'[c],
           response'[c] = NoResponse => response[c] = NoResponse
    PROVE  RequestInv(c)'
BY DEF RequestInv, Truncated

(* Every action preserves how far every client's request has come. *)
LEMMA RequestStep ==
    ASSUME IInv, NEW c \in Clients, Action(c), NEW d \in Clients
    PROVE  RequestInv(d)'
<1> USE DEF IInv
<1>1. CASE Connect(c)
  <2>1. CASE d = c
    BY <1>1, <2>1, ConnectFacts, ClientTypes DEF OnlyCpc, RequestInv, Truncated, ServingInv, Gone
  <2>2. CASE d # c
    BY <1>1, <2>2, ConnectFacts, RequestStable DEF OnlyCpc
  <2> QED BY <2>1, <2>2
<1>2. CASE ClientWrite(c)
  <2>1. CASE d = c
    <3>1. CASE sent'[c] = sent[c]
      BY <1>2, <2>1, <3>1, ClientWriteFacts, ClientTypes DEF RequestInv, Truncated, Gone
    <3>2. CASE sent'[c] # sent[c]
      <4>1. /\ cpc[c] = "write" /\ size[c] < RequestBuffer
            /\ sent'[c] \in Nat /\ sent'[c] > 0 /\ sent'[c] <= size[c]
            /\ cpc'[c] = IF sent'[c] = size[c] THEN "read" ELSE "write"
            /\ UNCHANGED <<size, rcvd>>
        BY <1>2, <3>2, ClientWriteFacts, ClientTypes
      <4>2. size[c] \in Nat /\ ~Truncated(rcvd[c])
        BY <4>1, ClientTypes DEF RequestInv, Gone
      <4> QED BY <2>1, <4>1, <4>2 DEF RequestInv, Truncated, Gone
    <3> QED BY <3>1, <3>2
  <2>2. CASE d # c
    BY <1>2, <2>2, ClientWriteFacts, RequestStable
  <2> QED BY <2>1, <2>2
<1>3. CASE ClientRead(c)
  <2>1. PICK n \in Nat \ {0} : ReadBy(c, n)
    BY <1>3, ReadFacts
  <2>2. CASE d = c
    <3>1. queue[c] # <<>>
      BY <2>1, ClientTypes DEF ReadBy
    <3>2. response[c] # NoResponse
      BY <3>1 DEF AnswerInv
    <3>3. /\ cpc[c] = "read" /\ cpc'[c] \in {"read", "exit1"}
          /\ cpc'[c] = "read" => ~Truncated(rcvd'[c])
      BY <2>1 DEF ReadBy, TypeOK
    <3> QED BY <1>3, <2>2, <3>2, <3>3, ReadFacts DEF RequestInv, Truncated, Gone
  <2>3. CASE d # c
    <3>1. cpc'[d] = cpc[d] /\ rcvd'[d] = rcvd[d]
      BY <2>1, <2>3 DEF ReadBy, TypeOK
    <3> QED BY <1>3, <3>1, ReadFacts, RequestStable
  <2> QED BY <2>2, <2>3
<1>4. CASE ClientEnd(c)
  <2>1. CASE d = c
    BY <1>4, <2>1, EndFacts DEF OnlyCpc, RequestInv, Gone
  <2>2. CASE d # c
    BY <1>4, <2>2, EndFacts, RequestStable DEF OnlyCpc
  <2> QED BY <2>1, <2>2
<1>5. CASE ClientKilled(c)
  <2>1. CASE d = c
    BY <1>5, <2>1, KilledFacts DEF OnlyCpc, RequestInv, Gone
  <2>2. CASE d # c
    BY <1>5, <2>2, KilledFacts, RequestStable DEF OnlyCpc
  <2> QED BY <2>1, <2>2
<1>6. CASE Accept(c) \/ AcceptDropped(c) \/ ServerClose \/ Down
  BY <1>6, ServerFacts, RequestStable
<1>7. CASE Reading
  <2>1. PICK m \in Nat : Took(m)
    BY <1>7, ReadingFacts
  <2>2. response'[d] = NoResponse => response[d] = NoResponse
    BY <1>7, <2>1, ReadingFacts
       DEF Took, HandledWhen, HandledAs, Answered, NoResponse
  <2> QED BY <1>7, <2>2, ReadingFacts, RequestStable
<1>8. CASE ServerWrite
  BY <1>8, WriteFacts, RequestStable
<1>9. CASE ServerWriteFails
  BY <1>9, WriteFailsFacts, RequestStable
<1>10. CASE UNCHANGED vars
  BY <1>10, RequestStable DEF vars, clientVars, serverVars
<1> QED
  BY <1>1, <1>2, <1>3, <1>4, <1>5, <1>6, <1>7, <1>8, <1>9, <1>10 DEF Action

(* AnswerInv of a client that the step leaves alone. *)
LEMMA AnswerStable ==
    ASSUME NEW c \in Clients, AnswerInv(c),
           rcvd'[c] = rcvd[c], queue'[c] = queue[c], response'[c] = response[c],
           executed'[c] = executed[c], got'[c] = got[c], size' = size,
           cpc[c] = "killed" => cpc'[c] = "killed",
           closed[c] => closed'[c],
           Serving(c) => Serving(c)' \/ closed'[c]
    PROVE  AnswerInv(c)'
BY DEF AnswerInv

(* The answer to a request: OK only to one that is executed, and a request *)
(* that counts as whole has been read as a whole, unless its sender was    *)
(* killed when only the newline was missing.                               *)
LEMMA AnswerStep ==
    ASSUME IInv, NEW c \in Clients, Action(c), NEW d \in Clients
    PROVE  AnswerInv(d)'
<1> USE DEF IInv
<1>1. CASE Connect(c)
  BY <1>1, ConnectFacts, AnswerStable DEF OnlyCpc, Serving
<1>2. CASE ClientWrite(c)
  BY <1>2, ClientWriteFacts, AnswerStable DEF Serving
<1>3. CASE ClientRead(c)
  <2>1. PICK n \in Nat \ {0} : ReadBy(c, n)
    BY <1>3, ReadFacts
  <2>2. CASE d = c
    <3>1. queue[c] # <<>>
      BY <2>1, ClientTypes DEF ReadBy
    <3>2. response[c] # NoResponse /\ cpc[c] = "read"
      BY <2>1, <3>1 DEF AnswerInv, ReadBy
    <3> QED BY <1>3, <2>2, <3>2, ReadFacts DEF AnswerInv, Serving
  <2>3. CASE d # c
    <3>1. cpc'[d] = cpc[d] /\ rcvd'[d] = rcvd[d] /\ queue'[d] = queue[d]
      BY <2>1, <2>3 DEF ReadBy, TypeOK
    <3> QED BY <1>3, <3>1, ReadFacts, AnswerStable DEF Serving
  <2> QED BY <2>2, <2>3
<1>4. CASE ClientEnd(c)
  BY <1>4, EndFacts, AnswerStable DEF OnlyCpc, Serving
<1>5. CASE ClientKilled(c)
  BY <1>5, KilledFacts, AnswerStable DEF OnlyCpc, Serving
<1>6. CASE Accept(c) \/ AcceptDropped(c) \/ ServerClose \/ Down
  <2>1. Serving(d) => Serving(d)' \/ closed'[d]
    BY <1>6 DEF Serving, Accept, AcceptDropped, ServerClose, Down, serverVars, TypeOK
  <2> QED BY <1>6, <2>1, ServerFacts, AnswerStable
<1>7. CASE Reading
  <2>1. PICK m \in Nat : Took(m)
    BY <1>7, ReadingFacts
  <2>2. ~Serving(d)
    BY <1>7, ReadingFacts DEF Serving
  <2>3. CASE d # cur
    BY <1>7, <2>1, <2>2, <2>3, ReadingFacts, AnswerStable
       DEF Took, HandledWhen, HandledAs, Answered, TypeOK
  <2>4. CASE d = cur /\ UNCHANGED <<spc, executed, response, pieces, pos>>
    <3>1. response[d] = NoResponse
      BY <1>7, <2>4, ReadingFacts DEF ServingInv
    <3>2. executed[d] = "none" /\ ~response[d].ok
      BY <3>1 DEF AnswerInv, NoResponse
    <3> QED BY <1>7, <2>4, <3>1, <3>2, ReadingFacts DEF AnswerInv
  <2>5. CASE d = cur /\ HandledWhen(m)
    <3>1. /\ response'[d].len > 0 /\ response'[d] # NoResponse /\ Serving(d)'
          /\ executed'[d] = "none" => ~response'[d].ok
      BY <1>7, <2>5, ReadingFacts
         DEF HandledWhen, HandledAs, Answered, NoResponse, Serving
    <3>2. got'[d] = m /\ m <= sent[d]
      BY <2>1, <2>5 DEF Took, TypeOK
    <3>3. executed'[d] \in {"none", "whole", "part"} /\ (executed'[d] # "none" => m > 0)
      BY <2>5 DEF HandledWhen, HandledAs, Answered
    <3>4. ASSUME executed'[d] = "whole", cpc[d] # "killed"
          PROVE  m = size[d]
      <4>1. size[d] < RequestBuffer /\ sent[d] > 0
        BY <3>2, <3>3, <3>4, ClientTypes DEF RequestInv
      <4>2. CASE m = sent[d] /\ cpc[d] \in Gone \cup {"read"}
        <5>1. ~closed[d] /\ response[d] = NoResponse
          BY <1>7, <2>5, ReadingFacts DEF ServingInv
        <5>2. cpc[d] = "read"
          BY <3>4, <4>1, <4>2, <5>1 DEF RequestInv, Gone
        <5> QED BY <4>2, <5>2 DEF RequestInv
      <4>3. CASE m = RequestBuffer - 1
        BY <3>2, <4>1, <4>3, ClientTypes, SizesAssumption
      <4> QED BY <2>5, <3>4, <4>2, <4>3 DEF HandledWhen
    <3> QED BY <1>7, <3>1, <3>2, <3>3, <3>4, ReadingFacts DEF AnswerInv
  <2> QED BY <2>1, <2>3, <2>4, <2>5 DEF Took
<1>8. CASE ServerWrite
  <2>1. PICK n \in Nat \ {0} : Wrote(n)
    BY <1>8, WriteFacts
  <2>2. CASE d = cur
    BY <1>8, <2>2, WriteFacts DEF AnswerInv, ServingInv, Serving
  <2>3. CASE d # cur
    BY <1>8, <2>1, <2>3, WriteFacts, AnswerStable DEF Wrote, Serving
  <2> QED BY <2>2, <2>3
<1>9. CASE ServerWriteFails
  BY <1>9, WriteFailsFacts, AnswerStable DEF Serving
<1>10. CASE UNCHANGED vars
  BY <1>10, AnswerStable DEF vars, clientVars, serverVars, Serving
<1> QED
  BY <1>1, <1>2, <1>3, <1>4, <1>5, <1>6, <1>7, <1>8, <1>9, <1>10 DEF Action

(* StreamInv of a client whose bytes the step leaves alone. *)
LEMMA StreamStable ==
    ASSUME NEW c \in Clients, StreamInv(c),
           rcvd'[c] = rcvd[c], queue'[c] = queue[c], response'[c] = response[c],
           cpc'[c] \notin Gone => cpc[c] \notin Gone,
           ~died' => ~died,
           ~died' => (Serving(c)' <=> Serving(c)),
           ~died' /\ Serving(c) => pos' = pos
    PROVE  StreamInv(c)'
BY DEF StreamInv, Intact, Overfull

(* No byte of a response is lost, changed or duplicated between the        *)
(* server's buffer and the client's, until the socket was full for too     *)
(* long; then it holds all that the client can read.                       *)
LEMMA StreamStep ==
    ASSUME IInv, NEW c \in Clients, Action(c), NEW d \in Clients
    PROVE  StreamInv(d)'
<1> USE DEF IInv
<1>1. CASE Connect(c)
  BY <1>1, ConnectFacts, StreamStable DEF OnlyCpc, Serving, Gone
<1>2. CASE ClientWrite(c)
  BY <1>2, ClientWriteFacts, StreamStable DEF Serving, Gone
<1>3. CASE ClientRead(c)
  <2>1. PICK n \in Nat \ {0} : ReadBy(c, n)
    BY <1>3, ReadFacts
  <2>2. CASE d = c
    <3> SUFFICES ASSUME ~died, response[c] # NoResponse
                 PROVE  Intact(c)' \/ Overfull(c)'
      BY <1>3, <2>2, ReadFacts DEF StreamInv
    <3>1. Intact(c) \/ Overfull(c)
      BY <2>1 DEF StreamInv, ReadBy, Gone
    <3>2. Len(rcvd'[c]) + Len(queue'[c]) = Len(rcvd[c]) + Len(queue[c])
      <4> DEFINE a == Len(rcvd[c])
      <4> DEFINE b == Len(queue[c])
      <4>1. Len(rcvd'[c]) = a + n /\ Len(queue'[c]) = b - n
        BY <2>1 DEF ReadBy
      <4>2. a \in Nat /\ b \in Nat
        BY ClientTypes
      <4> HIDE DEF a, b
      <4>3. (a + n) + (b - n) = a + b
        BY <4>2
      <4> QED BY <4>1, <4>3, Zenon DEF a, b
    <3>3. CASE Overfull(c)
      BY <1>3, <3>2, <3>3, ReadFacts DEF Overfull
    <3>4. CASE Intact(c)
      <4>1. Len(rcvd[c]) \in Nat /\ Len(queue[c]) \in Nat /\ n <= Len(queue[c])
        BY <2>1, ClientTypes DEF ReadBy
      <4>2. ASSUME NEW k \in 1..(Len(rcvd[c]) + n)
            PROVE  rcvd'[c][k] = k
        <5>1. CASE k \in 1..Len(rcvd[c])
          BY <2>1, <3>4, <5>1 DEF ReadBy, Intact
        <5>2. CASE k \notin 1..Len(rcvd[c])
          <6> DEFINE l == k - Len(rcvd[c])
          <6>1. l \in 1..n /\ l \in 1..Len(queue[c]) /\ k = Len(rcvd[c]) + l
            BY <4>1, <5>2
          <6> HIDE DEF l
          <6>2. rcvd'[c][k] = queue[c][l]
            BY <2>1, <6>1 DEF ReadBy
          <6>3. queue[c][l] = Len(rcvd[c]) + l
            BY <3>4, <6>1 DEF Intact
          <6> QED BY <6>1, <6>2, <6>3
        <5> QED BY <5>1, <5>2
      <4>3. ASSUME NEW k \in 1..(Len(queue[c]) - n)
            PROVE  queue'[c][k] = Len(rcvd[c]) + n + k
        <5>1. queue'[c][k] = queue[c][k + n]
          BY <2>1 DEF ReadBy
        <5>2. k + n \in 1..Len(queue[c]) /\ Len(rcvd[c]) + (k + n) = Len(rcvd[c]) + n + k
          <6> DEFINE a == Len(rcvd[c])
          <6> DEFINE b == Len(queue[c])
          <6> HIDE DEF a, b
          <6>1. a \in Nat /\ b \in Nat /\ k \in 1..(b - n) /\ n <= b
            BY <4>1 DEF a, b
          <6>2. k + n \in 1..b /\ a + (k + n) = a + n + k
            BY <6>1
          <6> QED BY <6>2 DEF a, b
        <5>3. queue[c][k + n] = Len(rcvd[c]) + (k + n)
          BY <3>4, <5>2 DEF Intact
        <5> QED BY <5>1, <5>2, <5>3
      <4>4. Len(rcvd'[c]) = Len(rcvd[c]) + n /\ Len(queue'[c]) = Len(queue[c]) - n
        BY <2>1 DEF ReadBy
      <4> QED BY <1>3, <3>2, <3>4, <4>2, <4>3, <4>4, ReadFacts DEF Intact, Serving
    <3> QED BY <3>1, <3>3, <3>4
  <2>3. CASE d # c
    <3>1. cpc'[d] = cpc[d] /\ rcvd'[d] = rcvd[d] /\ queue'[d] = queue[d]
      BY <2>1, <2>3 DEF ReadBy, TypeOK
    <3> QED BY <1>3, <3>1, ReadFacts, StreamStable DEF Serving
  <2> QED BY <2>2, <2>3
<1>4. CASE ClientEnd(c)
  BY <1>4, EndFacts, StreamStable DEF OnlyCpc, Serving, Gone
<1>5. CASE ClientKilled(c)
  BY <1>5, KilledFacts, StreamStable DEF OnlyCpc, Serving, Gone
<1>6. CASE Accept(c) \/ AcceptDropped(c)
  <2>1. ~Serving(d) /\ ~Serving(d)' /\ died' = died
    BY <1>6 DEF Accept, AcceptDropped, serverVars, Serving
  <2> QED BY <1>6, <2>1, ServerFacts, StreamStable
<1>7. CASE Reading
  <2>1. PICK m \in Nat : Took(m)
    BY <1>7, ReadingFacts
  <2>2. ~Serving(d)
    BY <1>7, ReadingFacts DEF Serving
  <2>3. CASE d # cur \/ UNCHANGED <<spc, executed, response, pieces, pos>>
    <3>1. response'[d] = response[d] /\ ~Serving(d)'
      BY <1>7, <2>1, <2>3, ReadingFacts
         DEF Took, HandledWhen, HandledAs, Answered, Serving
    <3> QED BY <1>7, <2>2, <3>1, ReadingFacts, StreamStable
  <2>4. CASE d = cur /\ HandledWhen(m)
    <3>1. rcvd[d] = <<>> /\ queue[d] = <<>>
      BY <1>7, <2>4, ReadingFacts DEF ServingInv, AnswerInv
    <3>2. Serving(d)' /\ pos' = 0
      BY <1>7, <2>4, ReadingFacts DEF HandledWhen, HandledAs, Answered, Serving
    <3>3. Len(rcvd'[d]) = 0 /\ Len(queue'[d]) = 0
      BY <1>7, <3>1, ReadingFacts
    <3>4. Intact(d)'
      BY <3>2, <3>3 DEF Intact
    <3> QED BY <3>4 DEF StreamInv
  <2> QED BY <2>1, <2>3, <2>4 DEF Took
<1>8. CASE ServerWrite
  <2>1. PICK n \in Nat \ {0} : Wrote(n)
    BY <1>8, WriteFacts
  <2>2. CASE d = cur
    <3> SUFFICES ASSUME ~died, response[d] # NoResponse
                 PROVE  Intact(d)' \/ Overfull(d)'
      BY <1>8, WriteFacts DEF StreamInv
    <3>1. Serving(d) /\ Serving(d)' /\ UNCHANGED <<rcvd, response>>
      BY <1>8, <2>2, WriteFacts DEF Serving
    <3>2. Intact(d) \/ Overfull(d)
      BY <1>8, <2>2, WriteFacts DEF StreamInv
    <3>3. Len(queue'[d]) = Len(queue[d]) + n
      BY <2>1, <2>2 DEF Wrote
    <3>4. CASE Overfull(d)
      <4>1. Len(rcvd[d]) \in Nat /\ Len(queue[d]) \in Nat /\ ResponseBuffer \in Nat
        BY ClientTypes, SizesAssumption
      <4>2. Len(rcvd[d]) + (Len(queue[d]) + n) >= ResponseBuffer - 1
        <5> DEFINE a == Len(rcvd[d])
        <5> DEFINE b == Len(queue[d])
        <5>1. a \in Nat /\ b \in Nat /\ a + b >= ResponseBuffer - 1
          BY <3>4, <4>1 DEF Overfull
        <5> HIDE DEF a, b
        <5>2. a + (b + n) >= ResponseBuffer - 1
          BY <4>1, <5>1
        <5> QED BY <5>2 DEF a, b
      <4> QED BY <3>1, <3>3, <3>4, <4>2 DEF Overfull
    <3>5. CASE Intact(d)
      <4>1. Len(rcvd[d]) \in Nat /\ Len(queue[d]) \in Nat /\ pos \in Nat
        BY ClientTypes DEF TypeOK
      <4>2. Len(rcvd[d]) + Len(queue[d]) = pos
        BY <3>1, <3>5 DEF Intact
      <4>3. ASSUME NEW k \in 1..(Len(queue[d]) + n)
            PROVE  queue'[d][k] = Len(rcvd[d]) + k
        <5>1. CASE k \in 1..Len(queue[d])
          BY <2>1, <2>2, <3>5, <5>1 DEF Wrote, Intact
        <5>2. CASE k \notin 1..Len(queue[d])
          <6> DEFINE l == k - Len(queue[d])
          <6>1. l \in 1..n /\ k = Len(queue[d]) + l
            BY <4>1, <5>2
          <6>2. pos + l = Len(rcvd[d]) + k
            <7> DEFINE a == Len(rcvd[d])
            <7> DEFINE b == Len(queue[d])
            <7>1. a \in Nat /\ b \in Nat /\ a + b = pos /\ l = k - b
              BY <4>1, <4>2
            <7> HIDE DEF a, b, l
            <7>2. pos + l = a + k
              BY <7>1
            <7> QED BY <7>2 DEF a
          <6> HIDE DEF l
          <6>3. queue'[d][k] = pos + l
            BY <2>1, <2>2, <6>1 DEF Wrote
          <6> QED BY <6>2, <6>3
        <5> QED BY <5>1, <5>2
      <4>4. Len(rcvd[d]) + (Len(queue[d]) + n) = pos + n /\ pos' = pos + n
        <5>1. pos' = pos + n
          BY <2>1 DEF Wrote
        <5> DEFINE a == Len(rcvd[d])
        <5> DEFINE b == Len(queue[d])
        <5>2. a \in Nat /\ b \in Nat /\ a + b = pos
          BY <4>1, <4>2
        <5> HIDE DEF a, b
        <5>3. a + (b + n) = pos + n
          BY <5>2
        <5> QED BY <5>1, <5>3 DEF a, b
      <4> QED BY <3>1, <3>3, <3>5, <4>3, <4>4 DEF Intact
    <3> QED BY <3>2, <3>4, <3>5
  <2>3. CASE d # cur
    BY <1>8, <2>1, <2>3, WriteFacts, StreamStable DEF Wrote, Serving
  <2> QED BY <2>2, <2>3
<1>9. CASE ServerWriteFails
  <2>1. CASE d = cur
    <3> SUFFICES ASSUME cpc[d] \notin Gone, ~died, response[d] # NoResponse
                 PROVE  Overfull(d)
      BY <1>9, WriteFailsFacts DEF StreamInv, Overfull
    <3>1. Len(queue[d]) >= ResponseBuffer - 1
      BY <1>9, <2>1, WriteFailsFacts, SocketBufferAssumption
    <3>2. CASE Intact(d)
      <4>1. Len(rcvd[d]) + Len(queue[d]) = pos
        BY <1>9, <2>1, <3>2, WriteFailsFacts DEF Intact, Serving
      <4>2. pos < response[d].len
        <5>1. spc = "reply" /\ pieces \in Seq(Nat) /\ pieces # <<>>
          BY <1>9, WriteFailsFacts
        <5>2. 1 \in DOMAIN pieces /\ pieces[1] \in Nat
          BY <5>1
        <5>3. pos < pieces[1] /\ pieces[1] <= response[d].len
          BY <2>1, <5>1, <5>2 DEF PiecesInv
        <5> QED BY <5>2, <5>3, ClientTypes DEF TypeOK
      <4>3. Len(rcvd[d]) \in Nat /\ Len(queue[d]) \in Nat /\ response[d].len \in Nat
        BY ClientTypes
      <4>4. pos \in Nat /\ ResponseBuffer \in Nat
        BY SizesAssumption DEF TypeOK
      <4> DEFINE a == Len(rcvd[d])
      <4> DEFINE b == Len(queue[d])
      <4> DEFINE len == response[d].len
      <4>5. /\ a \in Nat /\ b \in Nat /\ len \in Nat
            /\ b >= ResponseBuffer - 1 /\ a + b = pos /\ pos < len
        BY <3>1, <4>1, <4>2, <4>3
      <4> HIDE DEF a, b, len
      <4>6. a + b >= ResponseBuffer - 1 /\ len >= ResponseBuffer - 1
        BY <4>4, <4>5
      <4> QED BY <4>6 DEF Overfull, a, b, len
    <3> QED BY <3>2 DEF StreamInv
  <2>2. CASE d # cur
    BY <1>9, <2>2, WriteFailsFacts, StreamStable DEF Serving
  <2> QED BY <2>1, <2>2
<1>10. CASE ServerClose
  <2>1. CASE d = cur
    <3>1. Serving(d) /\ ~Serving(d)' /\ died' = died /\ pos = response[d].len
      BY <1>10, <2>1 DEF ServerClose, Serving, PiecesInv
    <3> QED BY <1>10, <3>1, ServerFacts DEF StreamInv, Intact, Overfull
  <2>2. CASE d # cur
    <3>1. ~Serving(d) /\ ~Serving(d)' /\ died' = died
      BY <1>10, <2>2 DEF ServerClose, Serving
    <3> QED BY <1>10, <3>1, ServerFacts, StreamStable
  <2> QED BY <2>1, <2>2
<1>11. CASE Down
  <2>1. ~Serving(d)' /\ (died' <=> spc # "idle")
    BY <1>11 DEF Down, Serving
  <2>2. ~died' => ~Serving(d) /\ ~died
    BY <1>11, <2>1 DEF Serving, ServingInv, Down
  <2> QED BY <1>11, <2>1, <2>2, ServerFacts, StreamStable
<1>12. CASE UNCHANGED vars
  BY <1>12, StreamStable DEF vars, clientVars, serverVars, Serving
<1> QED
  BY <1>1, <1>2, <1>3, <1>4, <1>5, <1>6, <1>7, <1>8, <1>9, <1>10, <1>11, <1>12 DEF Action

(* The connection whose request is handled is open and unanswered; if its  *)
(* client has closed its end with something to read, it has written        *)
(* everything or was killed.                                               *)
LEMMA HandledFacts ==
    ASSUME IInv, Reading, NEW m \in Nat, Took(m), HandledWhen(m)
    PROVE  /\ ~closed[cur] /\ response[cur] = NoResponse
           /\ executed'[cur] # "none" => /\ sent[cur] > 0 /\ cpc[cur] # "exit1"
                                         /\ cpc[cur] # "exit0"
           /\ executed'[cur] = "part" => cpc[cur] = "killed" /\ sent[cur] < size[cur]
<1> USE DEF IInv
<1>1. cur \in Clients /\ ~closed[cur] /\ response[cur] = NoResponse
  BY ReadingFacts DEF ServingInv
<1>2. ASSUME executed'[cur] # "none"
      PROVE  m > 0 /\ m <= sent[cur] /\ sent[cur] > 0
  BY <1>1, <1>2, ClientTypes DEF Took, HandledWhen, HandledAs, Answered
<1>3. ASSUME executed'[cur] # "none"
      PROVE  cpc[cur] # "exit1" /\ cpc[cur] # "exit0"
  BY <1>1, <1>2, <1>3 DEF RequestInv
<1>4. ASSUME executed'[cur] = "part"
      PROVE  cpc[cur] = "killed" /\ sent[cur] < size[cur]
  <2>1. ~(m >= size[cur] - 1) /\ m <= sent[cur] /\ size[cur] < RequestBuffer
    BY <1>1, <1>2, <1>4 DEF HandledWhen, HandledAs, RequestInv
  <2>2. size[cur] \in Nat /\ sent[cur] \in Nat /\ RequestBuffer \in Nat
    BY <1>1, ClientTypes, SizesAssumption
  <2>3. m # size[cur] /\ m # RequestBuffer - 1
    BY <2>1, <2>2
  <2>4. m = sent[cur] /\ cpc[cur] \in Gone \cup {"read"}
    BY <1>4, <2>3 DEF HandledWhen
  <2>5. sent[cur] < size[cur]
    BY <2>1, <2>2, <2>4
  <2>6. cpc[cur] # "read"
    BY <1>1, <2>2, <2>5 DEF RequestInv
  <2> QED BY <1>3, <1>4, <2>4, <2>5, <2>6 DEF Gone
<1> QED BY <1>1, <1>2, <1>3, <1>4

(* No action makes the server execute a cut request of a live client. *)
LEMMA ExecutedStep ==
    ASSUME IInv, NEW c \in Clients, Action(c)
    PROVE  ExecutedAsAsked'
<1> USE DEF IInv
<1> SUFFICES ASSUME NEW d \in Clients, executed'[d] = "part"
             PROVE  cpc'[d] = "killed" /\ sent'[d] < size'[d]
  BY DEF ExecutedAsAsked
<1>1. ASSUME executed'[d] = executed[d], size' = size, sent'[d] = sent[d],
             cpc[d] = "killed" => cpc'[d] = "killed"
      PROVE  cpc'[d] = "killed" /\ sent'[d] < size'[d]
  BY <1>1 DEF ExecutedAsAsked
<1>2. CASE Connect(c)
  BY <1>1, <1>2, ConnectFacts DEF OnlyCpc
<1>3. CASE ClientWrite(c)
  BY <1>1, <1>3, ClientWriteFacts DEF ExecutedAsAsked
<1>4. CASE ClientRead(c)
  BY <1>1, <1>4, ReadFacts DEF ReadBy, TypeOK
<1>5. CASE ClientEnd(c)
  BY <1>1, <1>5, EndFacts DEF OnlyCpc
<1>6. CASE ClientKilled(c)
  BY <1>1, <1>6, KilledFacts DEF OnlyCpc
<1>7. CASE Accept(c) \/ AcceptDropped(c) \/ ServerClose \/ Down
  BY <1>1, <1>7, ServerFacts
<1>8. CASE Reading
  <2>1. PICK m \in Nat : Took(m)
    BY <1>8, ReadingFacts
  <2>2. CASE HandledWhen(m)
    BY <1>1, <1>8, <2>1, <2>2, ReadingFacts, HandledFacts
       DEF HandledWhen, HandledAs, Answered
  <2> QED BY <1>1, <1>8, <2>1, <2>2, ReadingFacts DEF Took
<1>9. CASE ServerWrite
  BY <1>1, <1>9, WriteFacts
<1>10. CASE ServerWriteFails
  BY <1>1, <1>10, WriteFailsFacts
<1>11. CASE UNCHANGED vars
  BY <1>1, <1>11 DEF vars, clientVars, serverVars
<1> QED
  BY <1>2, <1>3, <1>4, <1>5, <1>6, <1>7, <1>8, <1>9, <1>10, <1>11 DEF Action

(* A response that the server has written completely, and the client has   *)
(* read to its end, is in the client's buffer as it was sent.              *)
LEMMA EndOfResponse ==
    ASSUME IInv, NEW c \in Clients, ClientEnd(c), ~died, response[c] # NoResponse
    PROVE  /\ rcvd[c] = [n \in 1..response[c].len |-> n]
           /\ rcvd[c] # <<>> /\ rcvd[c][1] = 1
<1> USE DEF IInv
<1>1. cpc[c] = "read" /\ closed[c] /\ queue[c] = <<>>
  BY EndFacts
<1>2. rcvd[c] \in Seq(Nat) /\ Len(rcvd[c]) \in Nat /\ Len(queue[c]) = 0
  BY <1>1, ClientTypes
<1>3. ~Serving(c)
  BY <1>1 DEF Serving, ServingInv
<1>4. ~Overfull(c)
  <2>1. ~(Len(rcvd[c]) >= ResponseBuffer - 1)
    BY <1>1 DEF RequestInv, Gone, Truncated
  <2>2. Len(rcvd[c]) + Len(queue[c]) = Len(rcvd[c])
    BY <1>2
  <2> QED BY <2>1, <2>2 DEF Overfull
<1>5. Intact(c)
  BY <1>1, <1>4 DEF StreamInv, Gone
<1>6. Len(rcvd[c]) = response[c].len
  BY <1>2, <1>3, <1>5 DEF Intact
<1>7. response[c].len > 0 /\ response[c].len \in Nat
  BY ClientTypes DEF AnswerInv
<1>8. rcvd[c] = [n \in 1..Len(rcvd[c]) |-> n]
  BY <1>2, <1>5 DEF Intact
<1>9. rcvd[c][1] = 1
  BY <1>5, <1>6, <1>7 DEF Intact
<1>10. rcvd[c] # <<>>
  BY <1>6, <1>7
<1> QED BY <1>6, <1>8, <1>9, <1>10

(* No action lets a client report success without the whole response. *)
LEMMA SuccessStep ==
    ASSUME IInv, NEW c \in Clients, Action(c)
    PROVE  SuccessIsWhole'
<1> USE DEF IInv
<1> DEFINE Whole(d) == /\ executed[d] = "whole" /\ response[d].ok
                       /\ died \/ rcvd[d] = [n \in 1..response[d].len |-> n]
<1> SUFFICES ASSUME NEW d \in Clients, cpc'[d] = "exit0"
             PROVE  Whole(d)'
  BY DEF SuccessIsWhole
<1>1. ASSUME executed'[d] = executed[d], response'[d] = response[d], rcvd'[d] = rcvd[d],
             died => died', cpc[d] = "exit0"
      PROVE  Whole(d)'
  BY <1>1 DEF SuccessIsWhole
<1>2. CASE Connect(c)
  BY <1>1, <1>2, ConnectFacts DEF OnlyCpc
<1>3. CASE ClientWrite(c)
  BY <1>1, <1>3, ClientWriteFacts
<1>4. CASE ClientRead(c)
  <2>1. d # c /\ cpc'[d] = cpc[d] /\ rcvd'[d] = rcvd[d]
    BY <1>4, ReadFacts DEF ReadBy, TypeOK
  <2> QED BY <1>1, <1>4, <2>1, ReadFacts
<1>5. CASE ClientEnd(c)
  <2>1. CASE d # c
    BY <1>1, <1>5, <2>1, EndFacts DEF OnlyCpc
  <2>2. CASE d = c
    <3>1. got[c] = sent[c] /\ AnsweredOk(c) /\ cpc[c] = "read"
      BY <1>5, <2>2, EndFacts
    <3>2. response[c].ok /\ executed[c] # "none" /\ response[c] # NoResponse
      BY <3>1 DEF AnsweredOk, AnswerInv, NoResponse
    <3>3. executed[c] = "whole"
      BY <3>1, <3>2, ClientTypes DEF ExecutedAsAsked
    <3>4. died \/ rcvd[c] = [n \in 1..response[c].len |-> n]
      BY <1>5, <3>2, EndOfResponse
    <3> QED BY <1>5, <2>2, <3>2, <3>3, <3>4, EndFacts DEF OnlyCpc
  <2> QED BY <2>1, <2>2
<1>6. CASE ClientKilled(c)
  BY <1>1, <1>6, KilledFacts DEF OnlyCpc
<1>7. CASE Accept(c) \/ AcceptDropped(c) \/ ServerClose \/ Down
  <2>1. died => died'
    BY <1>7 DEF Accept, AcceptDropped, ServerClose, Down, serverVars, ServingInv
  <2> QED BY <1>1, <1>7, <2>1, ServerFacts
<1>8. CASE Reading
  <2>1. PICK m \in Nat : Took(m)
    BY <1>8, ReadingFacts
  <2>2. d # cur
    BY <1>8, ReadingFacts DEF ServingInv, RequestInv
  <2>3. executed'[d] = executed[d] /\ response'[d] = response[d]
    BY <2>1, <2>2 DEF Took, HandledWhen, HandledAs, Answered
  <2> QED BY <1>1, <1>8, <2>3, ReadingFacts
<1>9. CASE ServerWrite
  BY <1>1, <1>9, WriteFacts
<1>10. CASE ServerWriteFails
  BY <1>1, <1>10, WriteFailsFacts
<1>11. CASE UNCHANGED vars
  BY <1>1, <1>11 DEF vars, clientVars, serverVars
<1> QED
  BY <1>2, <1>3, <1>4, <1>5, <1>6, <1>7, <1>8, <1>9, <1>10, <1>11 DEF Action

(* The server has not written more than the response. *)
LEMMA PosBound ==
    ASSUME TypeOK, PiecesInv, NEW c \in Clients, Serving(c)
    PROVE  pos <= response[c].len
<1>1. pieces \in Seq(Nat) /\ pos \in Nat /\ response[c].len \in Nat
  BY ClientTypes DEF TypeOK
<1>2. CASE pieces = <<>>
  BY <1>1, <1>2 DEF PiecesInv, Serving
<1>3. CASE pieces # <<>>
  <2>1. 1 \in DOMAIN pieces /\ pieces[1] \in Nat
    BY <1>1, <1>3
  <2>2. pos < pieces[1] /\ pieces[1] <= response[c].len
    BY <2>1 DEF PiecesInv, Serving
  <2> QED BY <1>1, <2>1, <2>2
<1> QED BY <1>2, <1>3

(* No action lets a client report failure for a request that succeeded. *)
LEMMA CompletedStep ==
    ASSUME IInv, NEW c \in Clients, Action(c)
    PROVE  CompletedIsSuccess'
<1> USE DEF IInv
<1> SUFFICES ASSUME NEW d \in Clients, executed'[d] = "whole", response'[d].ok,
                    response'[d].len < ResponseBuffer - 1, spc' # "down"
             PROVE  cpc'[d] # "exit1"
  BY DEF CompletedIsSuccess
<1>1. ASSUME executed'[d] = executed[d], response'[d] = response[d],
             spc # "down", cpc'[d] = cpc[d]
      PROVE  cpc'[d] # "exit1"
  BY <1>1 DEF CompletedIsSuccess
<1>2. ASSUME executed'[d] = executed[d], response'[d] = response[d],
             spc # "down", cpc[d] # "killed"
      PROVE  /\ got[d] = size[d] /\ sent[d] = size[d]
             /\ response[d] # NoResponse /\ ~died /\ ~Overfull(d)
  <2>1. got[d] = size[d]
    BY <1>2 DEF AnswerInv
  <2>2. response[d] # NoResponse /\ ~died
    BY <1>2 DEF NoResponse, ServingInv
  <2>3. ~Overfull(d)
    <3> DEFINE len == response[d].len
    <3>1. len < ResponseBuffer - 1 /\ len \in Nat /\ ResponseBuffer \in Nat
      BY <1>2, ClientTypes, SizesAssumption
    <3> HIDE DEF len
    <3>2. ~(len >= ResponseBuffer - 1)
      BY <3>1
    <3> QED BY <3>2 DEF Overfull, len
  <2> QED BY <2>1, <2>2, <2>3, ClientTypes
<1>3. CASE Connect(c)
  BY <1>1, <1>3, ConnectFacts DEF OnlyCpc
<1>4. CASE ClientWrite(c)
  <2>1. CASE d = c
    <3>1. cpc[c] = "write" /\ sent[c] < size[c]
      BY <1>4, ClientWriteFacts DEF RequestInv
    <3> QED BY <1>2, <1>4, <2>1, <3>1, ClientWriteFacts, ClientTypes
  <2>2. CASE d # c
    BY <1>1, <1>4, <2>2, ClientWriteFacts
  <2> QED BY <2>1, <2>2
<1>5. CASE ClientRead(c)
  <2>1. PICK n \in Nat \ {0} : ReadBy(c, n)
    BY <1>5, ReadFacts
  <2>2. CASE d = c
    <3>1. ~died /\ response[c] # NoResponse /\ ~Overfull(c) /\ cpc[c] = "read"
      BY <1>2, <1>5, <2>1, <2>2, ReadFacts DEF ReadBy
    <3>2. Intact(c)
      BY <3>1 DEF StreamInv, Gone
    <3>3. Len(rcvd[c]) + Len(queue[c]) <= response[c].len
      <4>1. response[c].len \in Nat /\ pos \in Nat
        BY ClientTypes DEF TypeOK
      <4>2. CASE Serving(c)
        BY <3>2, <4>2, PosBound DEF Intact
      <4>3. CASE ~Serving(c)
        <5>1. Len(rcvd[c]) + Len(queue[c]) = response[c].len
          BY <3>2, <4>3 DEF Intact
        <5>2. response[c].len <= response[c].len
          BY <4>1
        <5> QED BY <5>1, <5>2, Zenon
      <4> QED BY <4>2, <4>3
    <3>4. Len(rcvd'[c]) <= response[c].len
      <4> DEFINE a == Len(rcvd[c])
      <4> DEFINE b == Len(queue[c])
      <4> DEFINE len == response[c].len
      <4>1. /\ a \in Nat /\ b \in Nat /\ len \in Nat /\ a + b <= len
            /\ n <= b /\ Len(rcvd'[c]) = a + n
        BY <2>1, <3>3, ClientTypes DEF ReadBy
      <4> HIDE DEF a, b, len
      <4>2. a + n <= len
        BY <4>1
      <4> QED BY <4>1, <4>2 DEF len
    <3>5. ~Truncated(rcvd'[c])
      <4> DEFINE a == Len(rcvd'[c])
      <4> DEFINE len == response[c].len
      <4>1. len < ResponseBuffer - 1 /\ a <= len /\ len \in Nat /\ ResponseBuffer \in Nat
        BY <1>5, <2>2, <3>4, ReadFacts, ClientTypes, SizesAssumption
      <4>2. a \in Nat
        BY <2>1 DEF ReadBy
      <4> HIDE DEF a, len
      <4>3. ~(a >= ResponseBuffer - 1)
        BY <4>1, <4>2
      <4> QED BY <4>3 DEF Truncated, a
    <3> QED BY <2>1, <2>2, <3>5 DEF ReadBy, TypeOK
  <2>3. CASE d # c
    <3>1. cpc'[d] = cpc[d]
      BY <2>1, <2>3 DEF ReadBy, TypeOK
    <3> QED BY <1>1, <1>5, <3>1, ReadFacts
  <2> QED BY <2>2, <2>3
<1>6. CASE ClientEnd(c)
  <2>1. CASE d = c
    <3>1. /\ executed'[d] = executed[d] /\ response'[d] = response[d]
          /\ spc # "down" /\ cpc[c] = "read"
      BY <1>6, EndFacts DEF OnlyCpc
    <3>2. got[c] = sent[c] /\ response[c] # NoResponse /\ ~died
      BY <1>2, <2>1, <3>1
    <3>3. AnsweredOk(c)
      BY <1>6, <2>1, <3>1, <3>2, EndOfResponse DEF AnsweredOk
    <3> QED BY <1>6, <2>1, <3>2, <3>3, EndFacts
  <2>2. CASE d # c
    BY <1>1, <1>6, <2>2, EndFacts DEF OnlyCpc
  <2> QED BY <2>1, <2>2
<1>7. CASE ClientKilled(c)
  BY <1>1, <1>7, KilledFacts DEF OnlyCpc
<1>8. CASE Accept(c) \/ AcceptDropped(c) \/ ServerClose \/ Down
  <2>1. spc # "down"
    BY <1>8 DEF Accept, AcceptDropped, ServerClose, Down
  <2> QED BY <1>1, <1>8, <2>1, ServerFacts
<1>9. CASE Reading
  <2>1. PICK m \in Nat : Took(m)
    BY <1>9, ReadingFacts
  <2>2. CASE d = cur /\ HandledWhen(m)
    BY <1>9, <2>1, <2>2, ReadingFacts, HandledFacts
  <2>3. CASE d # cur \/ UNCHANGED <<spc, executed, response, pieces, pos>>
    <3>1. executed'[d] = executed[d] /\ response'[d] = response[d]
      BY <2>1, <2>3 DEF Took, HandledWhen, HandledAs, Answered
    <3> QED BY <1>1, <1>9, <3>1, ReadingFacts
  <2> QED BY <2>1, <2>2, <2>3 DEF Took
<1>10. CASE ServerWrite
  BY <1>1, <1>10, WriteFacts
<1>11. CASE ServerWriteFails
  BY <1>1, <1>11, WriteFailsFacts
<1>12. CASE UNCHANGED vars
  BY <1>1, <1>12 DEF vars, clientVars, serverVars
<1> QED
  BY <1>3, <1>4, <1>5, <1>6, <1>7, <1>8, <1>9, <1>10, <1>11, <1>12 DEF Action

-----------------------------------------------------------------------------
(* Theorems *)

(* The inductive invariant holds in every state that the clients and the   *)
(* server reach.                                                           *)
THEOREM Invariance == Spec => []IInv
<1>1. Init => IInv
  <2> SUFFICES ASSUME Init PROVE IInv
    OBVIOUS
  <2>1. ASSUME NEW c \in Clients
        PROVE  /\ cpc[c] = "connect" /\ sent[c] = 0 /\ got[c] = 0
               /\ rcvd[c] = <<>> /\ queue[c] = <<>> /\ ~closed[c]
               /\ executed[c] = "none" /\ response[c] = NoResponse
               /\ size[c] \in Nat \ {0}
    BY SizesAssumption DEF Init
  <2>2. TypeOK
    <3>1. /\ cpc \in [Clients -> {"connect", "write", "read"} \cup Gone]
          /\ sent \in [Clients -> Nat] /\ got \in [Clients -> Nat]
          /\ closed \in [Clients -> BOOLEAN]
          /\ executed \in [Clients -> {"none", "whole", "part"}]
      BY DEF Init
    <3>2. <<>> \in Seq(Nat)
      OBVIOUS
    <3>3. rcvd \in [Clients -> Seq(Nat)] /\ queue \in [Clients -> Seq(Nat)]
      BY <3>2 DEF Init
    <3>4. response \in [Clients -> [ok : BOOLEAN, len : Nat]]
      BY DEF Init, NoResponse
    <3>5. \A c \in Clients : Len(queue[c]) <= SocketBuffer /\ Len(rcvd[c]) < ResponseBuffer
      <4>1. 0 <= SocketBuffer /\ 0 < ResponseBuffer
        BY SizesAssumption, SocketBufferAssumption
      <4>2. \A c \in Clients : Len(queue[c]) = 0 /\ Len(rcvd[c]) = 0
        BY <2>1
      <4> QED BY <4>1, <4>2
    <3>6. /\ size \in [Clients -> RequestSizes] /\ spc = "idle" /\ cur = NoClient
          /\ pieces = <<>> /\ pos = 0
      BY DEF Init
    <3>7. died \in BOOLEAN
      BY DEF Init
    <3>8. \A c \in Clients : got[c] <= sent[c] /\ sent[c] <= size[c] /\ got[c] < RequestBuffer
      <4> SUFFICES ASSUME NEW c \in Clients
                   PROVE  got[c] <= sent[c] /\ sent[c] <= size[c] /\ got[c] < RequestBuffer
        OBVIOUS
      <4>1. got[c] = 0 /\ sent[c] = 0 /\ size[c] \in Nat
        BY <2>1
      <4> QED BY <4>1, SizesAssumption
    <3> QED BY <3>1, <3>2, <3>3, <3>4, <3>5, <3>6, <3>7, <3>8 DEF TypeOK
  <2>3. ServingInv /\ PiecesInv
    BY DEF Init, ServingInv, PiecesInv
  <2>4. ASSUME NEW c \in Clients
        PROVE  RequestInv(c) /\ AnswerInv(c) /\ StreamInv(c)
    BY <2>1, SizesAssumption
       DEF RequestInv, AnswerInv, StreamInv, NoResponse, Truncated, Serving, Gone
  <2>5. ExecutedAsAsked /\ SuccessIsWhole /\ CompletedIsSuccess
    BY <2>1 DEF ExecutedAsAsked, SuccessIsWhole, CompletedIsSuccess
  <2> QED BY <2>2, <2>3, <2>4, <2>5 DEF IInv
<1>2. IInv /\ [Next]_vars => IInv'
  <2> SUFFICES ASSUME IInv, [Next]_vars PROVE IInv'
    OBVIOUS
  <2>1. ASSUME NEW c \in Clients, Action(c)
        PROVE  IInv'
    <3>1. TypeOK'
      BY <2>1, TypeStep DEF IInv
    <3>2. ServingInv' /\ PiecesInv'
      BY <2>1, ServingStep, PiecesStep
    <3>3. \A d \in Clients : RequestInv(d)' /\ AnswerInv(d)' /\ StreamInv(d)'
      BY <2>1, RequestStep, AnswerStep, StreamStep
    <3>4. ExecutedAsAsked' /\ SuccessIsWhole' /\ CompletedIsSuccess'
      BY <2>1, ExecutedStep, SuccessStep, CompletedStep
    <3> QED BY <3>1, <3>2, <3>3, <3>4 DEF IInv
  <2>2. ASSUME Clients = {}
        PROVE  IInv'
    <3>1. UNCHANGED vars \/ Down
      BY <2>2 DEF Next, Serve, ServerRead, ServerEof, ReadTimeout, ServerWrite,
         ServerWriteFails, ServerClose, Finished, IInv, ServingInv
    <3>2. TypeOK'
      <4>1. CASE UNCHANGED vars
        BY <4>1 DEF IInv, TypeOK, vars, clientVars, serverVars
      <4>2. CASE Down
        <5>1. died' \in BOOLEAN /\ closed' \in [Clients -> BOOLEAN]
          BY <4>2 DEF Down
        <5>2. spc' = "down" /\ cur' = NoClient /\ pieces' \in Seq(Nat) /\ pos' = 0
          BY <4>2 DEF Down
        <5>3. UNCHANGED <<cpc, size, sent, rcvd, queue, got, executed, response>>
          BY <4>2 DEF Down, clientVars
        <5> QED BY <5>1, <5>2, <5>3 DEF IInv, TypeOK
      <4> QED BY <3>1, <4>1, <4>2
    <3> QED
      BY <2>2, <3>1, <3>2 DEF IInv, ServingInv, PiecesInv, Ascending, ExecutedAsAsked,
         SuccessIsWhole, CompletedIsSuccess, vars, clientVars, serverVars, Down
  <2>3. (\E c \in Clients : Action(c)) \/ Clients = {}
    BY DEF Next, Serve, Client, Action, Reading, Finished
  <2> QED BY <2>1, <2>2, <2>3
<1> QED BY <1>1, <1>2, PTL DEF Spec

(* The variables keep their types; neither the buffers of the programs nor *)
(* the socket are ever overrun.                                            *)
THEOREM TypeCorrect == Spec => []TypeOK
BY Invariance, PTL DEF IInv

(* supervisor_accept_control_connection(): however a request is cut into   *)
(* writes and reads, and whatever happens to the other clients, a part of  *)
(* it is only executed when its sender was killed.                         *)
THEOREM Execution == Spec => []ExecutedAsAsked
BY Invariance, PTL DEF IInv

(* control_send_command(): exit code 0 means that the request was executed *)
(* and that the whole response was printed, whatever the sizes of the      *)
(* responses, of the buffers and of the reads and writes.                  *)
THEOREM Success == Spec => []SuccessIsWhole
BY Invariance, PTL DEF IInv

(* control_send_command(): an executed request with a response that fits   *)
(* is never reported as failed while nanoinit runs.                        *)
THEOREM Completion == Spec => []CompletedIsSuccess
BY Invariance, PTL DEF IInv
=============================================================================
