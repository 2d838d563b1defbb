------------------------------- MODULE MCServers -------------------------------
(* A small instance of Servers for TLC.                                       *)
EXTENDS Servers

===============================================================================
