------------------------------- MODULE MCLend -------------------------------
(* Small instances of the lending protocol for TLC.                          *)
EXTENDS Lend, TLC

CONSTANTS a, b

MCPrice == {<<a, 1>>, <<a, 4>>, <<b, 2>>}
MCWallet == a :> <<1, 0>> @@ b :> <<0, 1>>
MCWalletBoth == a :> <<1, 0>> @@ b :> <<1, 0>>

MCPriceA == {<<a, 2>>}
MCWalletA == a :> <<1, 0>>

MCInitValidators == <<1, 2>>
MCValidatorLists == {<<1>>}
MCOneValidator == <<1>>
MCNoLists == {}
=============================================================================
