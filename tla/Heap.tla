-------------------------------- MODULE Heap --------------------------------
(* What a memory allocator promises, whatever its pages and lists: a new    *)
(* block shares no unit with any block a caller still owns, and a block     *)
(* stays owned, unmoved, until it is freed.  Slob implements this.          *)
CONSTANT Units          \* every unit of memory

VARIABLE owned          \* the blocks in use, each the set of its units

Init == owned = {}

Alloc(b) ==
    /\ b # {}
    /\ \A c \in owned : b \cap c = {}
    /\ owned' = owned \cup {b}

Free(b) == b \in owned /\ owned' = owned \ {b}

Next == \E b \in SUBSET Units : Alloc(b) \/ Free(b)

Spec == Init /\ [][Next]_owned
=============================================================================
