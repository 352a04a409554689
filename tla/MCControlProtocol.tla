-------------------------- MODULE MCControlProtocol --------------------------
(* A small instance of ControlProtocol for TLC. *)
EXTENDS ControlProtocol

(* Shorter than, as long as and longer than what the client can read. *)
SomeResponses == {<<2>>, <<1, 3>>, <<2, 4, 5>>}
=============================================================================
