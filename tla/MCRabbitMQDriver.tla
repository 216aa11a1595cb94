-------------------------- MODULE MCRabbitMQDriver ---------------------------
(* A small instance of RabbitMQDriver for TLC. *)
EXTENDS RabbitMQDriver
=============================================================================
