----------------------------- MODULE MCUaCalls ------------------------------
(* UaCalls for TLC: the calls and notifiers are interchangeable model values. *)
EXTENDS UaCalls, TLC

Symmetry == Permutations(Call) \cup Permutations(Notifier)
=============================================================================
