------------------------------ MODULE MCConnectApp ------------------------------
(* A request for an app and its dependency, and one for an account that asks *)
(* for the latest firmware too.                                               *)
EXTENDS ConnectApp

MCWishes == {{"dependencies"}, {"dependencies", "firmware", "derivation"}}

(* A device that is plugged, with no app or with the app but not its         *)
(* dependency; an old one has them and does not say that they quit.           *)
MCInitialDevices ==
    {d \in Devices :
        /\ d.here
        /\ IF d.old THEN d.has = Apps /\ d.latest /\ ~d.quits
           ELSE d.has \in {{}, {"app"}}}
=============================================================================
