----------------------------- MODULE MCCoinswap -----------------------------
(* Small chains for TLC: every account starts with the same coins, and      *)
(* governance may switch to parameters that close the pools to joins.       *)
EXTENDS Coinswap, TLC

CONSTANTS
  InitStandard,  \* standard coins of each account
  InitToken,     \* coins of each other denom of each account
  Fee,           \* swap fee
  PoolFee,       \* pool creation fee
  MaxStandard    \* cap on the standard reserve

MCInitBalance ==
  [u \in User |-> [d \in {Standard} \cup Token |->
     IF d = Standard THEN InitStandard ELSE InitToken]]

MCInitSupply ==
  [d \in {Standard} \cup Token |->
     Cardinality(User) * (IF d = Standard THEN InitStandard ELSE InitToken)]

MCInitParams ==
  [fee |-> Fee, taxRate |-> One \div 2, poolCreationFee |-> PoolFee,
   maxStandardCoinPerPool |-> MaxStandard, maxSwapAmount |-> [t \in Token |-> 3]]

MCClosedParams ==
  [fee |-> 0, taxRate |-> 0, poolCreationFee |-> 0,
   maxStandardCoinPerPool |-> 1, maxSwapAmount |-> [t \in Token |-> 0]]

MCParamChoices == {MCInitParams, MCClosedParams}

Symmetry == Permutations(User)
=============================================================================
