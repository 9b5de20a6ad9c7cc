----------------------------- MODULE MCRetention -----------------------------
(* A small instance of Retention.                                          *)
EXTENDS Retention
=============================================================================
