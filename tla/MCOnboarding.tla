---------------------------- MODULE MCOnboarding ----------------------------
(* Onboarding for model checking. *)
EXTENDS Onboarding

CONSTANT open

MCRemote == [d \in Denom |-> IF d = Voucher THEN 3 ELSE 1]

MCParams(enabled, channels) ==
  [enableOnboarding |-> enabled, autoSwapThreshold |-> 1, whitelistedChannels |-> channels]

MCParamChoices == {MCParams(TRUE, {open}), MCParams(TRUE, {}), MCParams(FALSE, {open})}
=============================================================================
