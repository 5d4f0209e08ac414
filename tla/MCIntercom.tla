----------------------------- MODULE MCIntercom -----------------------------
(* Intercom on small instances.  The clients are alike.                    *)
EXTENDS Intercom, TLC

Symmetry == Permutations(Clients)
=============================================================================
