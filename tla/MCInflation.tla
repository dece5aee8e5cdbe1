----------------------------- MODULE MCInflation -----------------------------
(* Two clocks, and parameters that differ in all the calculation depends on. *)
EXTENDS Inflation, TLC

CONSTANTS day, week, DayLength, WeekLength

MCDuration == day :> DayLength @@ week :> WeekLength
MCStartTime == day :> 0 @@ week :> 0

Disabled == [enableInflation |-> FALSE, a |-> ToDec(7), r |-> 35, c |-> 50,
             bondingTarget |-> 66, maxVariance |-> 40, stakingRewards |-> 53]
Enabled == [Disabled EXCEPT !.enableInflation = TRUE]
Rich == [Enabled EXCEPT !.a = ToDec(12), !.r = 50, !.stakingRewards = One]

MCParamChoices == {Disabled, Enabled, Rich}
=============================================================================
