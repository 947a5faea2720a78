--------------------------- MODULE MCOrderDispatcher ---------------------------
(* OrderDispatcher on two slots of a running chain and three positions each. *)
EXTENDS OrderDispatcher

ChainSlots == {1, 2}
Positions == 0 .. 2
===============================================================================
