-------------------------- MODULE MCMessageCenter --------------------------
EXTENDS MessageCenter, TLC
CallerSymmetry == Permutations(Callers)

(* Bound: two commands in all, of one caller or of two.                     *)
CallsBound == \A c, d \in Callers : c # d => calls[c] + calls[d] <= 2
=============================================================================
