-------------------------------- MODULE MCCsr --------------------------------
(* Two contracts and an account that registers itself at the Turnstile; the  *)
(* shares are nothing, a half or everything of the fee.                      *)
EXTENDS Csr, TLC

MCParamChoices ==
  {[enableCsr |-> FALSE, csrShares |-> One \div 2],
   [enableCsr |-> TRUE, csrShares |-> One \div 2],
   [enableCsr |-> TRUE, csrShares |-> One],
   [enableCsr |-> TRUE, csrShares |-> 0]}

Symmetry == Permutations(Contract)
=============================================================================
