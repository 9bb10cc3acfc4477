-------------------------- MODULE MCCredhubBroker --------------------------
(* Two bindings, whose binds and unbinds can meet in the map, and a clock    *)
(* with two readings: they may name a credential each, or both the same.     *)
EXTENDS CredhubBroker

CONSTANTS b1, b2

const_Bindings == {b1, b2}
const_AppBindings == {b1, b2}
const_Times == 1..2
=============================================================================
