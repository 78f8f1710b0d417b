----------------------------- MODULE MCAppsManager -----------------------------
EXTENDS AppsManager

CONSTANTS bitcoin, litecoin, dogecoin, unlisted, nameless

(* Two applications depend on the first one. *)
MCCatalog == <<litecoin, bitcoin, dogecoin>>
MCUnknown == {unlisted, nameless}
MCDeps == [a \in ToSet(MCCatalog) |-> IF a = bitcoin THEN {} ELSE {bitcoin}]
MCOrders == {<<bitcoin, unlisted, dogecoin, nameless, litecoin>>}
MCRestores == {<<>>, <<dogecoin, litecoin>>}
================================================================================
