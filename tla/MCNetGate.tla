----------------------------- MODULE MCNetGate -----------------------------
(* Symmetry for checking NetGate: connections and addresses are             *)
(* interchangeable, nothing orders them.                                    *)
EXTENDS NetGate, TLC

Symmetry == Permutations(Conns) \cup Permutations(Addrs)
=============================================================================
