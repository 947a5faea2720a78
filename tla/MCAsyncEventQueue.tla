--------------------------- MODULE MCAsyncEventQueue ---------------------------
(* AsyncEventQueue with a ring of three slots. *)
EXTENDS AsyncEventQueue
===============================================================================
