-------------------------- MODULE MCRabbitMQQueue --------------------------
(* One reconnection and two attempts at most; two consumers that compete for *)
(* the message of one publisher.                                             *)
EXTENDS RabbitMQQueue
=============================================================================
