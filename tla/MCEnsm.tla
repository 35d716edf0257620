------------------------------- MODULE MCEnsm -------------------------------
(* Instances of Ensm for TLC: the model is finite as it stands. *)
EXTENDS Ensm
=============================================================================
