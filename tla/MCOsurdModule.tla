--------------------------- MODULE MCOsurdModule ---------------------------
(* What the model checker needs for OsurdModule.                             *)
EXTENDS OsurdModule

(* Requests that overlap: of a segment, of two equal ones, and of a longer   *)
(* before a shorter one.                                                     *)
MCExtents == {<<1, <<1>>>>, <<0, <<1, 1>>>>, <<0, <<2, 1>>>>}
=============================================================================
