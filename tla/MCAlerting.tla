----------------------------- MODULE MCAlerting -----------------------------
(* A small instance of Alerting for TLC. *)
EXTENDS Alerting
=============================================================================
