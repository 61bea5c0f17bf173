----------------------------- MODULE PageBlocks -----------------------------
(* The blocks of one SLOB page and what may become of them, with no free    *)
(* list in sight: a block is carved at the lowest aligned run of free units *)
(* that holds it, and a block given back is free again as a whole.          *)
EXTENDS Fit

CONSTANT PageUnits  \* SLOB_UNITS(PAGE_SIZE)

VARIABLE live       \* blocks handed out, [at, len] records

FreeIn(L) == (0 .. PageUnits - 1) \ UNION {Extent(b.at, b.len) : b \in L}

(* A request r is a [units, align] record. *)
Carve(r, s) ==
    /\ IsFirstFit(FreeIn(live), s, r.units, r.align)
    /\ live' = live \cup {[at |-> s, len |-> r.units]}

NoRoom(r) == NoFit(FreeIn(live), r.units, r.align)

GiveBack(b) == live' = live \ {b}
=============================================================================
