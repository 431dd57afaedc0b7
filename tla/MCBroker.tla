------------------------------ MODULE MCBroker ------------------------------
(* An instance of Broker for TLC. *)
EXTENDS Broker

MCLimits == 0 .. 2
=============================================================================
