------------------------------ MODULE MCOsurd ------------------------------
(* What the model checker needs for Osurd alone.                             *)
EXTENDS Osurd

(* Wherever they fit: a segment; two equal ones; a longer one before a       *)
(* shorter one and after it.                                                 *)
MCExtents == Chunks \X {<<1>>, <<1, 1>>, <<2, 1>>, <<1, 2>>}
=============================================================================
