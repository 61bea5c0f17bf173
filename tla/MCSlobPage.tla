---------------------------- MODULE MCSlobPage ----------------------------
(* A page of 6 units asked for 1, 2 or 3 units, some aligned to 4 or 2.     *)
EXTENDS SlobPage

MCRequests == {[units |-> 1, align |-> 1], [units |-> 2, align |-> 1],
               [units |-> 3, align |-> 1], [units |-> 2, align |-> 4],
               [units |-> 1, align |-> 2]}
MCUserWords == {-3, 2}
===========================================================================
