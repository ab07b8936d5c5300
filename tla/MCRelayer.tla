------------------------------- MODULE MCRelayer -------------------------------
(***************************************************************************)
(* Instances of Relayer for TLC: two inbound mails, on one process or two. *)
(***************************************************************************)
EXTENDS Relayer, TLC

CONSTANTS c1, c2, p1, p2, k1, k2

Symmetry == Permutations({c1, c2}) \union Permutations({k1, k2})

OneProcess == [c \in Callers |-> p1]
TwoProcesses == [c \in Callers |-> IF c = c1 THEN p1 ELSE p2]
OnFirst == [r \in Requests |-> p1]
PollsOnFirst == [q \in Pollers |-> p1]
AllFaults == FaultKinds
===============================================================================
