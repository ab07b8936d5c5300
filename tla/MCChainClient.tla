----------------------------- MODULE MCChainClient -----------------------------
(***************************************************************************)
(* ChainClient with one caller on each of two processes, as                *)
(* kubernetes/relayer.yml scales the relayer.                              *)
(***************************************************************************)
EXTENDS ChainClient

OwnProcess == [c \in Callers |-> c]
===============================================================================
