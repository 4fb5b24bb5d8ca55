------------------------------- MODULE MCIPDB -------------------------------
(* An eight-address network of two "octets" of four in a space of sixteen. *)
EXTENDS IPDB
=============================================================================
