------------------------------- MODULE Tables -------------------------------
(***************************************************************************)
(* Tables row by row: the two operators of the TLC module, defined so that *)
(* what a table holds can be proved and not only evaluated.  The first row *)
(* of a key counts.                                                        *)
(***************************************************************************)

Joined(f, g) == [k \in DOMAIN f \cup DOMAIN g |-> IF k \in DOMAIN f THEN f[k] ELSE g[k]]

key :> value == [k \in {key} |-> value]
f @@ g == Joined(f, g)
=============================================================================
