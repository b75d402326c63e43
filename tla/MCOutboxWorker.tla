-------------------------- MODULE MCOutboxWorker --------------------------
(* OutboxWorker on a small instance for TLC. *)
EXTENDS OutboxWorker
=============================================================================
