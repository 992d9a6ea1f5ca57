---------------------------- MODULE MCRedaction ----------------------------
(* A small instance of Redaction for TLC. *)
EXTENDS Redaction
=============================================================================
