------------------------------ MODULE MCOutbox ------------------------------
(* Small instances of Outbox: one or two agent launches beside ordinary    *)
(* jobs, so that both couriers compete for a job.                          *)
EXTENDS Outbox
=============================================================================
