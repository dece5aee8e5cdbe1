------------------------------- MODULE Vault -------------------------------
(***************************************************************************)
(* What a pair of the erc20 module promises, without messages, ledgers or  *)
(* hooks: for each contract a vault of assets and a number of claims on    *)
(* them.  Assets leave only against claims, and claims are issued only     *)
(* against assets.                                                         *)
(***************************************************************************)
EXTENDS Naturals

CONSTANT Contract

VARIABLES
  open,    \* the contracts with a vault
  locked,  \* the assets of each vault
  issued   \* the claims on each vault

vars == <<open, locked, issued>>

Init ==
  /\ open = {}
  /\ locked = [c \in Contract |-> 0]
  /\ issued = [c \in Contract |-> 0]

\* A vault opens with no more claims than assets ...
Open(c) ==
  /\ c \notin open
  /\ open' = open \cup {c}
  /\ issued'[c] <= locked'[c]

\* ... and closes, leaving nothing behind.
Close(c) ==
  /\ c \in open
  /\ open' = open \ {c}
  /\ locked'[c] = 0 /\ issued'[c] = 0

\* As many assets enter as claims are issued, or as many leave as claims are returned.
Exchange(c) ==
  /\ c \in open
  /\ open' = open
  /\ locked'[c] + issued[c] = locked[c] + issued'[c]

\* Assets enter, or claims are given up, for nothing.
Donate(c) ==
  /\ c \in open
  /\ open' = open
  /\ locked'[c] >= locked[c] /\ issued'[c] <= issued[c]

\* Claims are issued against assets that entered before.
Claim(c) ==
  /\ c \in open
  /\ open' = open
  /\ locked'[c] = locked[c] /\ issued'[c] <= locked[c]

Next ==
  /\ locked' \in [Contract -> Nat] /\ issued' \in [Contract -> Nat]
  /\ \E c \in Contract :
       /\ \A d \in Contract \ {c} : locked'[d] = locked[d] /\ issued'[d] = issued[d]
       /\ Open(c) \/ Close(c) \/ Exchange(c) \/ Donate(c) \/ Claim(c)

Spec == Init /\ [][Next]_vars

\* The promise: no vault has more claims than assets.
Solvent == \A c \in Contract : issued[c] <= locked[c]
=============================================================================
