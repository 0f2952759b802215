--------------------------- MODULE MCInvalidation ---------------------------
(* Invalidation for TLC: assumption as1 rests on assumption as2, task      *)
(* tk on both, and task uk on as1 alone.                                   *)
EXTENDS Invalidation, TLC

CONSTANTS as1, as2, tk, uk, i1, i2, i3

MCImpact ==
    [m \in Nodes |-> [n \in Nodes |->
        CASE <<m, n>> = <<as2, as1>> -> "blocked"
          [] <<m, n>> = <<as2, tk>> -> "review_required"
          [] <<m, n>> = <<as1, tk>> -> "blocked"
          [] <<m, n>> = <<as1, uk>> -> "review_required"
          [] <<m, n>> = <<as2, uk>> -> "valid"
          [] OTHER -> "none"]]

Symmetry == Permutations(Invs)
=============================================================================
