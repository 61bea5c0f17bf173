------------------------------- MODULE MCSlob -------------------------------
(* Pages of 4 units (8 bytes).  A cache object of 2 bytes (1 unit) is small,  *)
(* kmalloc(1) takes 3 bytes (2 units) and is medium, an object of 5 bytes and *)
(* an RCU footer of 2 (4 units) is large and fills a page, and kmalloc(6) is  *)
(* left to the page allocator.  With pages of 3 units that object takes pages *)
(* of its own.                                                                *)
EXTENDS Slob, TLC

MCCaches == {[size |-> 2, align |-> 0, rcu |-> FALSE],
             [size |-> 5, align |-> 4, rcu |-> TRUE]}
Symmetry == Permutations(Pages) \cup Permutations(Threads)
=============================================================================
