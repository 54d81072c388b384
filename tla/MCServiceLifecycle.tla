------------------------- MODULE MCServiceLifecycle -------------------------
(* Every process of the system, for TLC. *)
EXTENDS ServiceLifecycle

MCKinds == Services \cup Webs \cup {"dumper"}
=============================================================================
