--------------------------- MODULE MCSubscription ---------------------------
(***************************************************************************)
(* Instances of Subscription for TLC.                                      *)
(***************************************************************************)
EXTENDS Subscription, TLC

Symmetry == Permutations(Helpers) \cup Permutations(Events) \cup Permutations(Workers)

=============================================================================
