----------------------------- MODULE MCDbCircuit -----------------------------
(* A small instance of DbCircuit for TLC.                                  *)
EXTENDS DbCircuit
==============================================================================
