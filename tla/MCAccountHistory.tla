---------------------------- MODULE MCAccountHistory ----------------------------
(* An account that is paid, pays twice and is paid again. Its first operation *)
(* has sequence number 0, its first payer a greater one than its own and the  *)
(* second none yet.                                                           *)
EXTENDS AccountHistory

CONSTANTS in1, out1, in2, out2

MCTxs == {in1, out1, in2, out2}
MCOwn == {out1, out2}
MCReceived == in1 :> 1 @@ out1 :> 2 @@ out2 :> 3 @@ in2 :> 4
MCNonce == in1 :> 7 @@ out1 :> 0 @@ out2 :> 1 @@ in2 :> 0
MCBridges == {"libcore", "ethereum", "js"}

=============================================================================
