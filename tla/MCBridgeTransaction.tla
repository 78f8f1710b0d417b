------------------------- MODULE MCBridgeTransaction -------------------------
(* Two accounts, the bridge of one of which is broken, three edits and one   *)
(* failure.                                                                  *)
EXTENDS BridgeTransaction

CONSTANTS eth, btc

MCAccounts == {eth, btc}
MCBroken == {btc}
MCRefs == 1..9
=============================================================================
