---------------------------- MODULE MCExceptions ----------------------------
(***************************************************************************)
(* Instances of Exceptions: an NMI, a page fault, the last vector with an  *)
(* error code and a device interrupt, which RFLAGS.IF has to keep out, up  *)
(* to three on top of one another, at every step of setting up the tables  *)
(* and of the handler; a double fault where one exception is enough.       *)
(* Address pieces have four bits and the stubs lie across a boundary of    *)
(* each piece.                                                             *)
(***************************************************************************)
EXTENDS Exceptions

MCStubAt ==
    [n \in StubNumbers |-> \h1FF0 + (IF n = 255 THEN 32 ELSE n)]
=============================================================================
