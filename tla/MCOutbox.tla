------------------------------- MODULE MCOutbox -------------------------------
(* The outbox on small instances. *)
EXTENDS OutboxProps

Backoff1 == <<1>>
Backoff12 == <<1, 2>>
===============================================================================
