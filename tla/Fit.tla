-------------------------------- MODULE Fit --------------------------------
(* Runs of units inside a page and the first-fit choice among them.  A unit *)
(* is one slob_t (SLOB_UNIT bytes) of hw4/slob.c, named by its offset in    *)
(* its page; a set of units stands for the free part of the page.           *)
EXTENDS Integers

(* The n units that start at unit s. *)
Extent(s, n) == s .. s + n - 1

(* n units aligned to a can be carved out of the free units F at s. *)
Fits(F, s, n, a) == s % a = 0 /\ Extent(s, n) \subseteq F

(* s is where a first-fit search that walks F upwards stops. *)
IsFirstFit(F, s, n, a) ==
    /\ s \in F
    /\ Fits(F, s, n, a)
    /\ \A r \in F : Fits(F, r, n, a) => s <= r

(* No place in F can hold n units aligned to a. *)
NoFit(F, n, a) == \A s \in F : ~ Fits(F, s, n, a)
=============================================================================
