------------------------------ MODULE PageHeap ------------------------------
(* What one SLOB page promises its callers: a request is answered with a    *)
(* block carved as PageBlocks says, and refused only when there is no room  *)
(* for it.  SlobPage implements this.                                       *)
EXTENDS PageBlocks

CONSTANT Requests   \* [units, align] records callers may ask for

NoBlock == -1

VARIABLE reply      \* the answer to the last allocation, until a free

vars == <<live, reply>>

NoReply == [req |-> [units |-> 0, align |-> 1], at |-> NoBlock]

Init == live = {} /\ reply = NoReply

Alloc(r) == \E s \in FreeIn(live) : Carve(r, s) /\ reply' = [req |-> r, at |-> s]

Refuse(r) ==
    /\ NoRoom(r)
    /\ reply' = [req |-> r, at |-> NoBlock]
    /\ UNCHANGED live

Free(b) == GiveBack(b) /\ reply' = NoReply

Next == \/ \E r \in Requests : Alloc(r) \/ Refuse(r)
        \/ \E b \in live : Free(b)

Spec == Init /\ [][Next]_vars
=============================================================================
