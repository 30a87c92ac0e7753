-------------------------- MODULE MCProducerPlugin --------------------------
(* Instances of ProducerPlugin for TLC. *)
EXTENDS ProducerPlugin

MCActive == <<"b", "a">>

(* Negative numbers have no place in a .cfg file. *)
MCLastOffset == -1
MCAges == {-1, 9}
==============================================================================
