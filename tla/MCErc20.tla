------------------------------ MODULE MCErc20 ------------------------------
(* Small instances of Erc20 for TLC.                                        *)
EXTENDS Erc20, TLC

CONSTANTS
  UserCoins,   \* coins of each user in each denom of Coin
  UserTokens,  \* tokens of each user in each external contract
  Taxed        \* the external contracts that burn one token per transfer

MCInitCoins == [d \in Coin |-> UserCoins]
MCInitSupply == [d \in Coin |-> Cardinality(User) * UserCoins]
MCInitTokens == [c \in External |-> UserTokens]
MCInitTotal == [c \in External |-> Cardinality(User) * UserTokens]
MCFee == [c \in Contract |-> IF c \in Taxed THEN 1 ELSE 0]

Symmetry == Permutations(User)
=============================================================================
