------------------------------ MODULE MCSerial ------------------------------
(***************************************************************************)
(* Instances of SerialNumbers: a FIFO of two bytes, strings with and       *)
(* without line ends, numbers of one to three digits, two calls and two    *)
(* takeovers, so that a handler cuts in at every point of a write and of   *)
(* another handler's.  usize has eight bits: three decimal digits and two  *)
(* hexadecimal ones are what its largest value needs.                      *)
(***************************************************************************)
EXTENDS SerialNumbers

MCMessages == {<<>>, <<LF>>, <<65, CR, LF>>, <<LF, 66, 66>>}
MCNumbers == {0, 9, 10, 16, 160, 255}
MCBufferSize == [base \in {10, 16} |-> IF base = 10 THEN 3 ELSE 2]
=============================================================================
