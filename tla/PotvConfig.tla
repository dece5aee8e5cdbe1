----------------------------- MODULE PotvConfig -----------------------------
(***************************************************************************)
(* potv: the Config contract (collateral whitelist and rates) and the      *)
(* PriceFeed contract, which the other contracts of the lending protocol   *)
(* read.  Both are set by their owner.  Rates, prices and values in USD    *)
(* are integers scaled by Precision (10^6 in the contracts), token amounts *)
(* by TokenUnit and TUCUSD amounts by UsdUnit (10^18).                     *)
(***************************************************************************)
EXTENDS Sums, FiniteSets

CONSTANTS
  Users,        \* number of users
  Token,        \* tokens that may be collateral
  Precision,    \* 1.0 of a rate or of a price
  TokenUnit,    \* one whole token
  UsdUnit,      \* one whole TUCUSD
  Price,        \* token and price: what the feed may be given
  Collateral,   \* tokens that the owner may list and unlist
  MCR,          \* minimum collateral ratios the owner may choose
  LiquidationRate, \* liquidation rates the owner may choose
  InitWhitelist \* the collateral at deployment

VARIABLES
  whitelist,        \* collateral tokens
  mcr,              \* minimum collateral ratio
  liquidationRate,
  answers           \* the price feed: token -> price, 0 while there is none

configVars == <<whitelist, mcr, liquidationRate, answers>>

User == 1..Users

ASSUME ConfigAssumption ==
  /\ Users \in Nat /\ IsFiniteSet(Token)
  /\ Precision \in Nat \ {0} /\ TokenUnit \in Nat \ {0}
  /\ UsdUnit \in Nat \ {0} /\ UsdUnit % Precision = 0
  /\ Price \subseteq Token \X Nat /\ Collateral \subseteq Token
  /\ MCR \subseteq Nat /\ LiquidationRate \subseteq Nat
  /\ InitWhitelist \subseteq Token

ConfigInit ==
  /\ whitelist = InitWhitelist
  /\ mcr \in MCR /\ liquidationRate \in LiquidationRate
  /\ answers = [t \in Token |-> 0]

addCollateral(tokenType) ==
  /\ tokenType \notin whitelist
  /\ whitelist' = whitelist \cup {tokenType}
  /\ UNCHANGED <<mcr, liquidationRate, answers>>

disableCollateral(tokenType) ==
  /\ tokenType \in whitelist
  /\ whitelist' = whitelist \ {tokenType}
  /\ UNCHANGED <<mcr, liquidationRate, answers>>

setMCR(rate) ==
  /\ mcr' = rate
  /\ UNCHANGED <<whitelist, liquidationRate, answers>>

setLiquidationRate(rate) ==
  /\ liquidationRate' = rate
  /\ UNCHANGED <<whitelist, mcr, answers>>

setTokenPrice(token, price) ==
  /\ price > 0
  /\ answers' = [answers EXCEPT ![token] = price]
  /\ UNCHANGED <<whitelist, mcr, liquidationRate>>

\* latestAnswer reverts while the token has no price.
HasPrice(token) == answers[token] # 0

\* The feed and the protocol have the same number of decimals.
getTokenPrice(token) == answers[token]

ConfigTypeOK ==
  /\ whitelist \subseteq Token
  /\ mcr \in Nat /\ liquidationRate \in Nat
  /\ answers \in [Token -> Nat]
=============================================================================
