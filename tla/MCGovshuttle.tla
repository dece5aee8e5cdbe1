---------------------------- MODULE MCGovshuttle ----------------------------
(* Messages with and without an id, well-formed and malformed.               *)
EXTENDS Govshuttle

MCLending ==
  {[propId |-> i, body |-> x, calldatas |-> 2, values |-> v, signatures |-> 2] :
     i \in {0, 2}, x \in Body, v \in {1, 2}}
MCTreasury ==
  {[propId |-> i, recipient |-> x, denom |-> d] :
     i \in {0, 2}, x \in Body, d \in {"note", "other"}}
=============================================================================
