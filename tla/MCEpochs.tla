------------------------------ MODULE MCEpochs ------------------------------
(* A day and a week clock; the week's start time lies after genesis.        *)
EXTENDS Epochs, TLC

CONSTANTS day, week, DayLength, WeekLength, WeekStart

MCDuration == day :> DayLength @@ week :> WeekLength
MCStartTime == day :> 0 @@ week :> WeekStart
=============================================================================
