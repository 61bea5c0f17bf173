--------------------------- MODULE SlobPageProofs ---------------------------
(* Proofs about SlobPage, for pages of any size, any requests and whatever   *)
(* the owners of blocks leave in them: the free list is the page's free      *)
(* runs, and the page implements PageHeap.                                   *)
EXTENDS SlobPage, FiniteSetTheorems, TLAPS

(* A word that begins a free block tells what is in the block's own words.   *)
Sound(m, s) == m[s] < 0 \/ m[s] > 1

(* s begins a run of z units of F, and x is where F goes on after it.        *)
Describes(F, s, z, x) ==
    /\ z \in 1 .. PageUnits /\ Extent(s, z) \subseteq F /\ s + z \notin F
    /\ x \in s + z .. PageUnits /\ (x = PageUnits \/ x \in F)
    /\ \A u \in F : u >= s + z => x <= u

IsHead(F, s) == s \in F /\ s - 1 \notin F

Node(m, F, s) == Sound(m, s) /\ Describes(F, s, SlobUnits(m, s), SlobNext(m, s))

(* The words of m from f on are the free list of F. *)
Encodes(m, f, F) ==
    /\ f \in F /\ \A u \in F : f <= u
    /\ \A s \in F : IsHead(F, s) => Node(m, F, s)

-----------------------------------------------------------------------------
(* Arithmetic of the page. *)

LEMMA PageArithmetic ==
    /\ \A x \in 1 .. PageUnits : x % PageUnits = 0 <=> x = PageUnits
    /\ \A s \in Offsets : ((s + PageUnits) \div PageUnits) * PageUnits = PageUnits
BY PageUnitsAssumption DEF Offsets

(* ALIGN(s, a) is the next multiple of a. *)
LEMMA AlignUpLeast ==
    ASSUME NEW s \in Nat, NEW a \in Nat \ {0}
    PROVE  /\ AlignUp(s, a) \in Nat /\ AlignUp(s, a) >= s /\ AlignUp(s, a) % a = 0
           /\ \A r \in Nat : r >= s /\ r % a = 0 => AlignUp(s, a) <= r
<1> DEFINE q == (s + a - 1) \div a
<1>1. q \in Nat /\ q * a <= s + a - 1 /\ s + a - 1 < q * a + a
  OBVIOUS
<1>2. q * a \in Nat /\ (q * a) % a = 0
  BY <1>1
<1>3. ASSUME NEW r \in Nat, r >= s, r % a = 0 PROVE q * a <= r
  <2> DEFINE p == r \div a
  <2>1. p \in Nat /\ r = p * a
    BY <1>3
  <2>2. p * a < q * a => p * a + a <= q * a
    BY <1>1, <2>1
  <2> QED
    BY <1>1, <1>2, <1>3, <2>1, <2>2
<1> QED
  BY <1>1, <1>2, <1>3 DEF AlignUp

-----------------------------------------------------------------------------
(* The words: what is read of a block after it was written, and that a block *)
(* written elsewhere leaves what is read of this one alone.                  *)

Words == [Offsets -> Int]

(* A block reads as it was written. *)
LEMMA SetSlobReads ==
    ASSUME NEW m \in Words, NEW s \in Offsets, NEW z \in 1 .. PageUnits,
           s + z <= PageUnits, NEW x \in 1 .. PageUnits
    PROVE  /\ SetSlob(m, s, z, x) \in Words
           /\ Sound(SetSlob(m, s, z, x), s)
           /\ SlobUnits(SetSlob(m, s, z, x), s) = z
           /\ SlobNext(SetSlob(m, s, z, x), s) = x
           /\ \A i \in Offsets \ Extent(s, z) : SetSlob(m, s, z, x)[i] = m[i]
<1>1. CASE z = 1
  BY <1>1, PageUnitsAssumption
     DEF SetSlob, Sound, SlobUnits, SlobNext, Words, Offsets, Extent
<1>2. CASE z > 1
  BY <1>2, PageUnitsAssumption
     DEF SetSlob, Sound, SlobUnits, SlobNext, Words, Offsets, Extent
<1> QED
  BY <1>1, <1>2

(* A block whose own words are kept reads as before. *)
LEMMA ReadsFrame ==
    ASSUME NEW m \in Words, NEW w \in Words, NEW s \in Offsets,
           Sound(m, s), s + SlobUnits(m, s) <= PageUnits,
           \A i \in Extent(s, SlobUnits(m, s)) : w[i] = m[i]
    PROVE  /\ Sound(w, s) /\ SlobUnits(w, s) = SlobUnits(m, s)
           /\ SlobNext(w, s) = SlobNext(m, s)
<1>1. m[s] \in Int /\ w[s] = m[s]
  <2>1. s \in Extent(s, SlobUnits(m, s))
    BY DEF Sound, SlobUnits, Words, Offsets, Extent
  <2> QED
    BY <2>1 DEF Words
<1>2. CASE m[s] < 0
  BY <1>1, <1>2 DEF Sound, SlobUnits, SlobNext
<1>3. CASE m[s] > 1
  <2>1. s + 1 \in Extent(s, SlobUnits(m, s))
    BY <1>1, <1>3 DEF SlobUnits, Offsets, Extent
  <2> QED
    BY <1>1, <1>3, <2>1 DEF Sound, SlobUnits, SlobNext
<1> QED
  BY <1>2, <1>3 DEF Sound

-----------------------------------------------------------------------------
(* Runs of a set of units. *)

(* A fit that begins in a run lies in it. *)
LEMMA FitInRun ==
    ASSUME NEW F \in SUBSET Offsets, NEW s \in F, NEW z, NEW x, Describes(F, s, z, x),
           NEW r \in F, r >= s, r < x, NEW n \in Nat \ {0}, Extent(r, n) \subseteq F
    PROVE  r + n <= s + z
<1>1. s \in Int /\ z \in Int /\ r \in Int /\ r < s + z
  BY DEF Describes, Offsets
<1>2. s + z \notin Extent(r, n)
  BY DEF Describes
<1> QED
  BY <1>1, <1>2 DEF Extent

(* The run that comes next begins with a head, and heads come one by one.    *)
LEMMA NextIsHead ==
    ASSUME NEW F \in SUBSET Offsets, NEW s \in F, NEW z, NEW x, Describes(F, s, z, x),
           x # PageUnits
    PROVE  IsHead(F, x) /\ s + z < x /\ x \in Offsets
BY DEF Describes, IsHead, Offsets, Extent

LEMMA HeadsApart ==
    ASSUME NEW F \in SUBSET Offsets, NEW s \in F, NEW z, NEW x, Describes(F, s, z, x),
           NEW t \in F, IsHead(F, t), t > s
    PROVE  s + z < t /\ x <= t
<1>1. s \in Int /\ z \in Int /\ t \in Int /\ z >= 1 /\ t # s + z
  BY DEF Describes, Offsets
<1>2. t - 1 \notin Extent(s, z)
  BY DEF Describes, IsHead
<1> QED
  BY <1>1, <1>2 DEF Describes, Extent

-----------------------------------------------------------------------------
(* Carving n units out of F at c, in the run of z units at s that goes on at *)
(* x.  What follows c in the list is then Rest.                              *)
Rest(s, z, x, c, n) == IF c + n = s + z THEN x ELSE c + n

(* t begins a run that is left: the tail, the head, or another run. *)
HeadLeft(F, s, z, c, n, t) ==
    \/ t = c + n /\ c + n < s + z
    \/ t = s /\ s < c
    \/ IsHead(F, t) /\ (t < s \/ t > s + z)

LEMMA CarveHeads ==
    ASSUME NEW F \in SUBSET Offsets, NEW s \in F, NEW z, NEW x, IsHead(F, s),
           Describes(F, s, z, x), NEW c \in Offsets, NEW n \in 1 .. PageUnits,
           s <= c, c + n <= s + z
    PROVE  \A t \in F \ Extent(c, n) : IsHead(F \ Extent(c, n), t) =>
             HeadLeft(F, s, z, c, n, t)
<1> USE DEF HeadLeft
<1> SUFFICES ASSUME NEW t \in F \ Extent(c, n), IsHead(F \ Extent(c, n), t)
             PROVE  HeadLeft(F, s, z, c, n, t)
  OBVIOUS
<1>1. s \in Int /\ c \in Int /\ z \in Int /\ n \in Int /\ t \in Int /\ s + z \notin F
  BY DEF Describes, Offsets
<1>2. CASE t - 1 \in Extent(c, n)
  BY <1>1, <1>2 DEF Extent
<1>3. CASE t - 1 \notin F
  <2>1. t = s => s < c
    BY <1>1 DEF Extent
  <2>2. t > s => t > s + z
    BY <1>1, <1>3, HeadsApart DEF IsHead
  <2> QED
    BY <1>1, <1>3, <2>1, <2>2 DEF IsHead
<1> QED
  BY <1>2, <1>3 DEF IsHead

(* The runs left of the one that was carved. *)
LEMMA CarveRun ==
    ASSUME NEW F \in SUBSET Offsets, NEW s \in F, NEW z, NEW x,
           Describes(F, s, z, x), NEW c \in Offsets, NEW n \in 1 .. PageUnits,
           s <= c, c + n <= s + z
    PROVE  /\ c + n < s + z => Describes(F \ Extent(c, n), c + n, s + z - c - n, x)
           /\ s < c => Describes(F \ Extent(c, n), s, c - s, Rest(s, z, x, c, n))
<1> DEFINE G == F \ Extent(c, n)
<1>1. /\ s \in Int /\ c \in Int /\ z \in Int /\ n \in Int /\ x \in Int
      /\ z \in 1 .. PageUnits /\ x \in s + z .. PageUnits /\ s >= 0 /\ PageUnits \in Int
  BY PageUnitsAssumption DEF Describes, Offsets
<1>2. ASSUME c + n < s + z
      PROVE  Describes(G, c + n, s + z - c - n, x)
  <2>1. Extent(c + n, s + z - c - n) \subseteq G
    BY <1>1, <1>2 DEF Describes, Extent
  <2>2. s + z - c - n \in 1 .. PageUnits /\ (c + n) + (s + z - c - n) = s + z
    BY <1>1, <1>2
  <2>3. s + z \notin G /\ x \in s + z .. PageUnits /\ (x = PageUnits \/ x \in G)
    BY <1>1, <1>2 DEF Describes, Extent
  <2>4. \A u \in G : u >= s + z => x <= u
    BY DEF Describes
  <2> HIDE DEF G
  <2> QED
    BY <2>1, <2>2, <2>3, <2>4 DEF Describes
<1>3. ASSUME s < c
      PROVE  Describes(G, s, c - s, Rest(s, z, x, c, n))
  <2>1. Extent(s, c - s) \subseteq G /\ c \notin G
    BY <1>1, <1>3 DEF Describes, Extent
  <2>2. c - s \in 1 .. PageUnits /\ s + (c - s) = c
    BY <1>1, <1>3
  <2>3. /\ Rest(s, z, x, c, n) \in c .. PageUnits
        /\ Rest(s, z, x, c, n) = PageUnits \/ Rest(s, z, x, c, n) \in G
    <3>1. CASE c + n = s + z
      BY <1>1, <1>3, <3>1 DEF Describes, Extent, Rest
    <3>2. CASE c + n # s + z
      <4>1. c + n \in Extent(s, z) /\ c + n \notin Extent(c, n)
        BY <1>1, <1>3, <3>2 DEF Extent
      <4> QED
        BY <1>1, <3>2, <4>1 DEF Describes, Rest
    <3> QED
      BY <3>1, <3>2
  <2>4. \A u \in G : u >= c => Rest(s, z, x, c, n) <= u
    BY <1>1 DEF Describes, Extent, Rest, Offsets
  <2> HIDE DEF G
  <2> QED
    BY <2>1, <2>2, <2>3, <2>4 DEF Describes
<1> QED
  BY <1>2, <1>3

(* The other runs, but for the link of the one before. *)
LEMMA CarveOthers ==
    ASSUME NEW F \in SUBSET Offsets, NEW s \in F, NEW z, NEW x, IsHead(F, s),
           Describes(F, s, z, x), NEW c \in Offsets, NEW n \in 1 .. PageUnits,
           s <= c, c + n <= s + z,
           NEW t \in F, IsHead(F, t), NEW zt, NEW xt, Describes(F, t, zt, xt)
    PROVE  /\ t > s => Describes(F \ Extent(c, n), t, zt, xt)
           /\ t < s /\ (xt # s \/ s < c) => Describes(F \ Extent(c, n), t, zt, xt)
           /\ t < s /\ xt = s /\ s = c =>
                Describes(F \ Extent(c, n), t, zt, Rest(s, z, x, c, n))
<1> DEFINE G == F \ Extent(c, n)
<1>1. /\ s \in Int /\ c \in Int /\ z \in Int /\ n \in Int /\ x \in Int
      /\ t \in Int /\ zt \in Int /\ xt \in Int
      /\ z \in 1 .. PageUnits /\ x \in s + z .. PageUnits /\ PageUnits \in Int
  BY PageUnitsAssumption DEF Describes, Offsets
<1>2. ASSUME t > s PROVE Describes(G, t, zt, xt)
  <2>1. s + z < t
    BY <1>2, HeadsApart
  <2> QED
    BY <1>1, <2>1 DEF Describes, Extent
<1>3. ASSUME t < s PROVE t + zt < s /\ xt <= s
  BY <1>3, HeadsApart
<1>4. ASSUME t < s, xt # s \/ s < c PROVE Describes(G, t, zt, xt)
  <2>1. xt < s \/ s < c
    BY <1>1, <1>3, <1>4
  <2> QED
    BY <1>1, <1>3, <1>4, <2>1 DEF Describes, Extent
<1>5. ASSUME t < s, xt = s, s = c PROVE Describes(G, t, zt, Rest(s, z, x, c, n))
  <2>1. zt \in 1 .. PageUnits /\ Extent(t, zt) \subseteq G /\ t + zt \notin G
    BY <1>1, <1>3, <1>5 DEF Describes, Extent
  <2>2. \A u \in G : u >= t + zt => u >= c + n
    BY <1>1, <1>5 DEF Describes, Extent, Offsets
  <2>3. /\ Rest(s, z, x, c, n) \in t + zt .. PageUnits
        /\ Rest(s, z, x, c, n) = PageUnits \/ Rest(s, z, x, c, n) \in G
    <3>1. CASE c + n = s + z
      BY <1>1, <1>3, <1>5, <3>1 DEF Describes, Extent, Rest
    <3>2. CASE c + n # s + z
      <4>1. c + n \in Extent(s, z) /\ c + n \notin Extent(c, n)
        BY <1>1, <1>5, <3>2 DEF Extent
      <4> QED
        BY <1>1, <1>3, <1>5, <3>2, <4>1 DEF Describes, Rest
    <3> QED
      BY <3>1, <3>2
  <2>4. \A u \in G : u >= t + zt => Rest(s, z, x, c, n) <= u
    BY <1>1, <2>2 DEF Describes, Rest, Offsets
  <2> HIDE DEF G
  <2> QED
    BY <2>1, <2>3, <2>4 DEF Describes
<1> QED
  BY <1>2, <1>4, <1>5

(* The runs of two heads have no unit in common. *)
LEMMA RunsApart ==
    ASSUME NEW F \in SUBSET Offsets,
           NEW s \in F, IsHead(F, s), NEW z, NEW x, Describes(F, s, z, x),
           NEW t \in F, IsHead(F, t), NEW zt, NEW xt, Describes(F, t, zt, xt), t # s
    PROVE  Extent(s, z) \cap Extent(t, zt) = {}
<1>1. s \in Int /\ z \in Int /\ t \in Int /\ zt \in Int
  BY DEF Describes, Offsets
<1>2. CASE t > s
  BY <1>1, <1>2, HeadsApart DEF Extent
<1>3. CASE t < s
  BY <1>1, <1>3, HeadsApart DEF Extent
<1> QED
  BY <1>1, <1>2, <1>3

(* A head keeps its node when its run and its words stay as they are. *)
LEMMA NodeFrame ==
    ASSUME NEW m \in Words, NEW w \in Words, NEW F \in SUBSET Offsets,
           NEW G \in SUBSET Offsets, NEW t \in F, Node(m, F, t),
           \A i \in Extent(t, SlobUnits(m, t)) : w[i] = m[i],
           Describes(G, t, SlobUnits(m, t), SlobNext(m, t))
    PROVE  Node(w, G, t)
<1>1. t \in Offsets /\ Sound(m, t) /\ t + SlobUnits(m, t) <= PageUnits
  BY PageUnitsAssumption DEF Node, Describes, Offsets
<1> QED
  BY <1>1, ReadsFrame DEF Node

(* The words of a free list say the same when only others are written. *)
LEMMA EncodesFrame ==
    ASSUME NEW m \in Words, NEW w \in Words, NEW F \in SUBSET Offsets, NEW f,
           Encodes(m, f, F), \A i \in F : w[i] = m[i]
    PROVE  Encodes(w, f, F)
<1> SUFFICES ASSUME NEW t \in F, IsHead(F, t) PROVE Node(w, F, t)
  BY DEF Encodes
<1>1. Node(m, F, t) /\ Extent(t, SlobUnits(m, t)) \subseteq F
  BY DEF Encodes, Node, Describes
<1> QED
  BY <1>1, NodeFrame DEF Node

(* A free block is the next of one other at most, and the first of none. *)
LEMMA OnePrevious ==
    ASSUME NEW m \in Words, NEW F \in SUBSET Offsets, NEW f, Encodes(m, f, F),
           NEW t \in F, IsHead(F, t)
    PROVE  /\ SlobNext(m, t) > t /\ SlobNext(m, t) # f
           /\ \A p \in F : IsHead(F, p) /\ SlobNext(m, p) = SlobNext(m, t)
                             /\ SlobNext(m, t) \in F => p = t
<1>1. \A q \in F : IsHead(F, q) =>
        /\ q \in Int /\ SlobNext(m, q) \in Int /\ SlobNext(m, q) > q
        /\ Describes(F, q, SlobUnits(m, q), SlobNext(m, q))
  BY PageUnitsAssumption DEF Encodes, Node, Describes, Offsets
<1>2. f <= t /\ f \in Int
  BY DEF Encodes, Offsets
<1>3. ASSUME NEW p \in F, IsHead(F, p), SlobNext(m, p) = SlobNext(m, t) PROVE p = t
  <2>1. t > p => SlobNext(m, p) <= t
    BY <1>1, <1>3, HeadsApart
  <2>2. p > t => SlobNext(m, t) <= p
    BY <1>1, <1>3, HeadsApart
  <2> QED
    BY <1>1, <1>3, <2>1, <2>2
<1> QED
  BY <1>1, <1>2, <1>3

(* The first block of the list that is left, and the words of w that make it *)
(* one: the head, the tail, the block before when its link has to change,    *)
(* and the others as they were.                                              *)
FirstLeft(f, s, z, x, c, n) == IF s = c /\ s = f THEN Rest(s, z, x, c, n) ELSE f

Carved(m, w, F, s, z, x, c, n) ==
    /\ s < c => /\ Sound(w, s) /\ SlobUnits(w, s) = c - s
                /\ SlobNext(w, s) = Rest(s, z, x, c, n)
    /\ c + n < s + z => /\ Sound(w, c + n) /\ SlobUnits(w, c + n) = s + z - c - n
                        /\ SlobNext(w, c + n) = x
    /\ \A q \in F : IsHead(F, q) /\ q # s /\ (s < c \/ SlobNext(m, q) # s) =>
         \A i \in Extent(q, SlobUnits(m, q)) : w[i] = m[i]
    /\ \A q \in F : IsHead(F, q) /\ s = c /\ SlobNext(m, q) = s =>
         /\ Sound(w, q) /\ SlobUnits(w, q) = SlobUnits(m, q)
         /\ SlobNext(w, q) = Rest(s, z, x, c, n)

(* What is left of a free list is one when what is left of the run carved   *)
(* and the link to it are written, and nothing else of the list.            *)
LEMMA CarveEncodes ==
    ASSUME NEW m \in Words, NEW w \in Words, NEW F \in SUBSET Offsets, NEW f,
           Encodes(m, f, F), NEW s \in F, IsHead(F, s), NEW z, NEW x,
           z = SlobUnits(m, s), x = SlobNext(m, s),
           NEW c \in Offsets, NEW n \in 1 .. PageUnits, s <= c, c + n <= s + z,
           Carved(m, w, F, s, z, x, c, n),
           F \ Extent(c, n) # {}
    PROVE  Encodes(w, FirstLeft(f, s, z, x, c, n), F \ Extent(c, n))
<1> DEFINE G == F \ Extent(c, n)
           f1 == FirstLeft(f, s, z, x, c, n)
<1> USE DEF FirstLeft
<1>1. Node(m, F, s) /\ Describes(F, s, z, x)
  BY DEF Encodes, Node
<1>2. /\ s \in Int /\ c \in Int /\ z \in Int /\ n \in Int /\ x \in Int /\ f \in Int
      /\ z \in 1 .. PageUnits /\ x \in s + z .. PageUnits /\ PageUnits \in Int /\ f <= s
  BY <1>1, PageUnitsAssumption DEF Describes, Offsets, Encodes
<1>3. f1 \in G /\ \A u \in G : f1 <= u
  <2>1. CASE ~ (s = c /\ s = f)
    BY <1>2, <2>1 DEF Encodes, Extent, Offsets
  <2>2. CASE s = c /\ s = f
    <3>1. PICK u \in F : u \notin Extent(c, n)
      OBVIOUS
    <3>2. \A v \in G : v >= c + n
      BY <1>2, <2>2 DEF Encodes, Extent, Offsets
    <3>3. CASE c + n = s + z
      <4>1. u >= s + z /\ u < PageUnits
        BY <1>2, <3>1, <3>2, <3>3 DEF Offsets
      <4>2. x \in F /\ \A v \in G : x <= v
        BY <1>1, <1>2, <3>1, <3>2, <3>3, <4>1 DEF Describes, Offsets
      <4> QED
        BY <1>2, <2>2, <3>3, <4>2 DEF Rest, Extent
    <3>4. CASE c + n # s + z
      <4>1. c + n \in Extent(s, z) /\ c + n \notin Extent(c, n)
        BY <1>2, <2>2, <3>4 DEF Extent
      <4> QED
        BY <1>1, <2>2, <3>2, <3>4, <4>1 DEF Describes, Rest
    <3> QED
      BY <3>3, <3>4
  <2> QED
    BY <2>1, <2>2
<1>4. /\ c + n < s + z => Describes(G, c + n, s + z - c - n, x)
      /\ s < c => Describes(G, s, c - s, Rest(s, z, x, c, n))
  BY <1>1, CarveRun
<1>5. ASSUME NEW t \in G, IsHead(G, t) PROVE Node(w, G, t)
  <2>1. t \in F /\ t \in Offsets
    BY <1>5
  <2>2. G \in SUBSET Offsets
    OBVIOUS
  <2>3. t \in Int
    BY <2>1 DEF Offsets
  <2>4. ASSUME IsHead(F, t), t # s PROVE Node(w, G, t)
    <3> DEFINE zt == SlobUnits(m, t)
               xt == SlobNext(m, t)
    <3>1. Node(m, F, t) /\ Describes(F, t, zt, xt)
      BY <2>1, <2>4 DEF Encodes, Node
    <3> HIDE DEF zt, xt
    <3>2. CASE xt = s /\ s = c
      <4>1. t < s
        BY <2>1, <2>4, <3>2, OnePrevious DEF xt
      <4>2. Describes(G, t, zt, Rest(s, z, x, c, n))
        BY <1>1, <2>1, <2>4, <3>1, <3>2, <4>1, CarveOthers
      <4>3. Sound(w, t) /\ SlobUnits(w, t) = zt /\ SlobNext(w, t) = Rest(s, z, x, c, n)
        BY <2>1, <2>4, <3>2 DEF Carved, zt, xt
      <4> QED
        BY <4>2, <4>3 DEF Node
    <3>3. CASE xt # s \/ s < c
      <4>1. t > s \/ t < s
        BY <1>2, <2>3, <2>4
      <4>2. Describes(G, t, zt, xt)
        BY <1>1, <2>1, <2>4, <3>1, <3>3, <4>1, CarveOthers
      <4>3. \A i \in Extent(t, zt) : w[i] = m[i]
        BY <2>1, <2>4, <3>3 DEF Carved, zt, xt
      <4> HIDE DEF G
      <4> QED
        BY <2>1, <2>2, <3>1, <4>2, <4>3, NodeFrame DEF zt, xt
    <3> QED
      BY <1>2, <3>2, <3>3
  <2>5. CASE t = c + n /\ c + n < s + z
    BY <1>4, <2>5 DEF Carved, Node
  <2>6. CASE t = s /\ s < c
    BY <1>4, <2>6 DEF Carved, Node
  <2>7. HeadLeft(F, s, z, c, n, t)
    BY <1>1, <1>5, CarveHeads
  <2> QED
    BY <1>2, <2>3, <2>4, <2>5, <2>6, <2>7 DEF HeadLeft
<1> QED
  BY <1>3, <1>5 DEF Encodes

(* The words Take writes: the head split off before c, the link to what is   *)
(* left of the run, its tail; and the list's first block after that.         *)
WithSplit(m, s, z, x, c) ==
    IF c = s THEN m
    ELSE SetSlob(SetSlob(m, c, z - (c - s), x), s, c - s, c)
WithLink(m, p, rest) == IF p = NULL THEN m ELSE SetSlob(m, p, SlobUnits(m, p), rest)
WithTail(m, s, z, x, c, n) ==
    IF c + n = s + z THEN m ELSE SetSlob(m, c + n, s + z - c - n, x)

Written(m, s, z, x, c, n, p) ==
    WithTail(WithLink(WithSplit(m, s, z, x, c), p, Rest(s, z, x, c, n)), s, z, x, c, n)
FirstWritten(f, s, z, x, c, n, p) == IF p = NULL THEN Rest(s, z, x, c, n) ELSE f

(* What holds the link that has to change: the list's first, or the block p. *)
LinksTo(m, f, F, s, c, p) ==
    /\ s < c => p = s
    /\ s = c => \/ p = NULL /\ s = f
                \/ p \in F /\ IsHead(F, p) /\ SlobNext(m, p) = s

(* The two blocks of a run split at c read as the parts of it. *)
LEMMA SplitReads ==
    ASSUME NEW m \in Words, NEW F \in SUBSET Offsets, NEW s \in F, Node(m, F, s),
           NEW z, NEW x, z = SlobUnits(m, s), x = SlobNext(m, s),
           NEW c \in Offsets, s <= c, c < s + z
    PROVE  /\ WithSplit(m, s, z, x, c) \in Words
           /\ Sound(WithSplit(m, s, z, x, c), c)
           /\ SlobUnits(WithSplit(m, s, z, x, c), c) = s + z - c
           /\ SlobNext(WithSplit(m, s, z, x, c), c) = x
           /\ s < c => SlobUnits(WithSplit(m, s, z, x, c), s) = c - s
           /\ \A i \in Offsets \ Extent(s, z) : WithSplit(m, s, z, x, c)[i] = m[i]
<1>1. /\ z \in 1 .. PageUnits /\ x \in s + z .. PageUnits /\ s + z <= PageUnits
      /\ s \in Offsets /\ c \in Int /\ s \in Int /\ s >= 0 /\ PageUnits \in Int
  BY PageUnitsAssumption DEF Node, Describes, Offsets
<1>2. CASE s = c
  BY <1>1, <1>2 DEF WithSplit, Node
<1>3. CASE s < c
  <2> DEFINE a == SetSlob(m, c, z - (c - s), x)
             b == SetSlob(a, s, c - s, c)
  <2>1. /\ z - (c - s) \in 1 .. PageUnits /\ c + (z - (c - s)) <= PageUnits
        /\ x \in 1 .. PageUnits
    BY <1>1, <1>3
  <2>2. /\ a \in Words /\ Sound(a, c) /\ SlobUnits(a, c) = z - (c - s)
        /\ SlobNext(a, c) = x
        /\ \A i \in Offsets \ Extent(c, z - (c - s)) : a[i] = m[i]
    BY <2>1, SetSlobReads
  <2> HIDE DEF a
  <2>3. c - s \in 1 .. PageUnits /\ s + (c - s) <= PageUnits /\ c \in 1 .. PageUnits
    BY <1>1, <1>3
  <2>4. /\ b \in Words /\ SlobUnits(b, s) = c - s
        /\ \A i \in Offsets \ Extent(s, c - s) : b[i] = a[i]
    BY <1>1, <2>2, <2>3, SetSlobReads
  <2> HIDE DEF b
  <2>5. \A i \in Extent(c, z - (c - s)) : i \in Offsets \ Extent(s, c - s)
    BY <1>1, <1>3 DEF Extent, Offsets
  <2>6. Sound(b, c) /\ SlobUnits(b, c) = z - (c - s) /\ SlobNext(b, c) = x
    BY <2>1, <2>2, <2>4, <2>5, ReadsFrame
  <2>7. \A i \in Offsets \ Extent(s, z) : b[i] = m[i]
    <3>1. \A i \in Offsets \ Extent(s, z) :
            i \notin Extent(c, z - (c - s)) /\ i \notin Extent(s, c - s)
      BY <1>1, <1>3 DEF Extent, Offsets
    <3> QED
      BY <2>2, <2>4, <3>1
  <2>8. WithSplit(m, s, z, x, c) = b
    BY <1>1, <1>3 DEF WithSplit, a, b
  <2>9. z - (c - s) = s + z - c
    BY <1>1
  <2> QED
    BY <2>4, <2>6, <2>7, <2>8, <2>9
<1> QED
  BY <1>1, <1>2, <1>3

(* With these words what is left of a free list is one. *)
LEMMA TakeEncodes ==
    ASSUME NEW m \in Words, NEW F \in SUBSET Offsets, NEW f, Encodes(m, f, F),
           NEW s \in F, IsHead(F, s), NEW z, NEW x,
           z = SlobUnits(m, s), x = SlobNext(m, s),
           NEW c \in Offsets, NEW n \in 1 .. PageUnits, s <= c, c + n <= s + z,
           NEW p, LinksTo(m, f, F, s, c, p)
    PROVE  /\ Written(m, s, z, x, c, n, p) \in Words
           /\ F \ Extent(c, n) # {} =>
                Encodes(Written(m, s, z, x, c, n, p),
                        FirstWritten(f, s, z, x, c, n, p), F \ Extent(c, n))
<1> USE DEF LinksTo
<1> DEFINE r == Rest(s, z, x, c, n)
           w == Written(m, s, z, x, c, n, p)
           m1 == WithSplit(m, s, z, x, c)
           m2 == WithLink(m1, p, r)
<1>0. /\ Node(m, F, s) /\ Describes(F, s, z, x) /\ s \in Offsets
      /\ \A t \in F : IsHead(F, t) =>
           /\ t \in Int /\ t \in Offsets
           /\ Describes(F, t, SlobUnits(m, t), SlobNext(m, t)) /\ Sound(m, t)
  BY DEF Encodes, Node, Offsets
<1>1. /\ z \in 1 .. PageUnits /\ x \in s + z .. PageUnits /\ s + z <= PageUnits
      /\ c \in Int /\ s \in Int /\ s >= 0 /\ PageUnits \in Int
      /\ n \in Int /\ c < s + z /\ Extent(s, z) \subseteq F
  BY <1>0, PageUnitsAssumption DEF Describes, Offsets
<1>2. /\ m1 \in Words /\ Sound(m1, c) /\ SlobUnits(m1, c) = s + z - c
      /\ SlobNext(m1, c) = x /\ (s < c => SlobUnits(m1, s) = c - s)
      /\ \A i \in Offsets \ Extent(s, z) : m1[i] = m[i]
  BY <1>0, <1>1, SplitReads
<1>3. s = c => m1 = m
  BY DEF WithSplit
<1>4. r \in 1 .. PageUnits
  BY <1>0, <1>1 DEF Rest, Offsets
<1> HIDE DEF m1, r
<1>5. p = NULL => s = c /\ s = f
  BY <1>0, <1>1 DEF Offsets, NULL
<1>6. s = c /\ p # NULL => /\ p \in F /\ IsHead(F, p) /\ SlobNext(m, p) = s
                           /\ p < s /\ p + SlobUnits(m, p) < s
  <2> SUFFICES ASSUME s = c, p # NULL
               PROVE  /\ p \in F /\ IsHead(F, p) /\ SlobNext(m, p) = s
                      /\ p < s /\ p + SlobUnits(m, p) < s
    OBVIOUS
  <2>1. p \in F /\ IsHead(F, p) /\ SlobNext(m, p) = s
    OBVIOUS
  <2>2. p < s
    BY <2>1, OnePrevious
  <2> QED
    BY <1>0, <2>1, <2>2, HeadsApart
(* The link. *)
<1>7. /\ m2 \in Words
      /\ s < c => /\ Sound(m2, s) /\ SlobUnits(m2, s) = c - s /\ SlobNext(m2, s) = r
                  /\ \A i \in Offsets \ Extent(s, z) : m2[i] = m[i]
      /\ s = c /\ p = NULL => m2 = m
      /\ s = c /\ p # NULL =>
           /\ Sound(m2, p) /\ SlobUnits(m2, p) = SlobUnits(m, p) /\ SlobNext(m2, p) = r
           /\ \A i \in Offsets \ Extent(p, SlobUnits(m, p)) : m2[i] = m[i]
  <2>1. CASE s < c
    <3>1. p = s /\ p # NULL /\ m2 = SetSlob(m1, s, c - s, r)
      BY <1>1, <1>2, <2>1 DEF WithLink, NULL
    <3>2. c - s \in 1 .. PageUnits /\ s + (c - s) <= PageUnits
      BY <1>1, <2>1
    <3>3. /\ m2 \in Words /\ Sound(m2, s) /\ SlobUnits(m2, s) = c - s
          /\ SlobNext(m2, s) = r
          /\ \A i \in Offsets \ Extent(s, c - s) : m2[i] = m1[i]
      BY <1>0, <1>2, <1>4, <3>1, <3>2, SetSlobReads
    <3>4. \A i \in Offsets \ Extent(s, z) : i \notin Extent(s, c - s)
      BY <1>1, <2>1 DEF Extent, Offsets
    <3> QED
      BY <1>1, <1>2, <2>1, <3>3, <3>4
  <2>2. CASE s = c /\ p = NULL
    BY <1>1, <1>3, <2>2 DEF WithLink
  <2>3. CASE s = c /\ p # NULL
    <3>1. m2 = SetSlob(m, p, SlobUnits(m, p), r)
      BY <1>3, <2>3 DEF WithLink
    <3>2. /\ SlobUnits(m, p) \in 1 .. PageUnits /\ p \in Offsets
          /\ p + SlobUnits(m, p) <= PageUnits
      <4>1. p \in Offsets /\ p \in Int /\ Describes(F, p, SlobUnits(m, p), SlobNext(m, p))
        BY <1>0, <1>6, <2>3
      <4>2. SlobUnits(m, p) \in 1 .. PageUnits
        BY <4>1 DEF Describes
      <4> QED
        BY <1>1, <1>6, <2>3, <4>1, <4>2
    <3> QED
      BY <1>1, <1>4, <2>3, <3>1, <3>2, SetSlobReads
  <2> QED
    BY <1>1, <2>1, <2>2, <2>3
<1> HIDE DEF m2, w
(* The tail. *)
<1>8. /\ w \in Words
      /\ c + n < s + z => /\ Sound(w, c + n) /\ SlobUnits(w, c + n) = s + z - c - n
                          /\ SlobNext(w, c + n) = x
      /\ \A i \in Offsets \ Extent(c + n, s + z - c - n) : w[i] = m2[i]
  <2>1. CASE c + n = s + z
    BY <1>1, <1>7, <2>1 DEF WithTail, Written, w, m2, m1, r
  <2>2. CASE c + n < s + z
    <3>1. w = SetSlob(m2, c + n, s + z - c - n, x)
      BY <2>2, <1>1 DEF WithTail, Written, w, m2, m1, r
    <3>2. /\ s + z - c - n \in 1 .. PageUnits /\ c + n \in Offsets
          /\ (c + n) + (s + z - c - n) <= PageUnits /\ x \in 1 .. PageUnits
      BY <1>1, <2>2 DEF Offsets
    <3> QED
      BY <1>7, <3>1, <3>2, SetSlobReads
  <2> QED
    BY <1>1, <2>1, <2>2
<1>9. \A i \in Offsets \ Extent(s, z) : i \notin Extent(c + n, s + z - c - n)
  BY <1>1 DEF Extent, Offsets
<1>10. s < c => Sound(w, s) /\ SlobUnits(w, s) = c - s /\ SlobNext(w, s) = r
  <2>1. \A i \in Extent(s, c - s) : i \in Offsets \ Extent(c + n, s + z - c - n)
    BY <1>1 DEF Extent, Offsets
  <2>2. s + (c - s) <= PageUnits
    BY <1>1
  <2> QED
    BY <1>0, <1>7, <1>8, <2>1, <2>2, ReadsFrame
<1>11. ASSUME NEW q \in F, IsHead(F, q), s = c, SlobNext(m, q) = s
       PROVE  /\ Sound(w, q) /\ SlobUnits(w, q) = SlobUnits(m, q)
              /\ SlobNext(w, q) = r
  <2>1. p # NULL
    BY <1>11, <1>5, OnePrevious
  <2>2. p = q
    BY <1>6, <1>11, <2>1, OnePrevious
  <2>3. q + SlobUnits(m, q) < s /\ q \in Offsets /\ SlobUnits(m, q) \in Int
    BY <1>0, <1>6, <1>11, <2>1, <2>2 DEF Describes
  <2>4. \A i \in Extent(q, SlobUnits(m, q)) : i \in Offsets \ Extent(c + n, s + z - c - n)
    BY <1>1, <2>3 DEF Extent, Offsets
  <2>5. \A i \in Extent(q, SlobUnits(m2, q)) : w[i] = m2[i]
    BY <1>7, <1>8, <1>11, <2>1, <2>2, <2>4
  <2>6. q + SlobUnits(m2, q) <= PageUnits
    BY <1>1, <1>7, <1>11, <2>1, <2>2, <2>3
  <2> QED
    BY <1>7, <1>8, <1>11, <2>1, <2>2, <2>3, <2>5, <2>6, ReadsFrame
<1>12. ASSUME NEW q \in F, IsHead(F, q), q # s, s < c \/ SlobNext(m, q) # s,
              NEW i \in Extent(q, SlobUnits(m, q))
       PROVE  w[i] = m[i]
  <2>1. i \in Offsets /\ i \notin Extent(s, z)
    <3>1. Extent(s, z) \cap Extent(q, SlobUnits(m, q)) = {}
      BY <1>0, <1>12, RunsApart
    <3>2. Extent(q, SlobUnits(m, q)) \subseteq F
      BY <1>0, <1>12 DEF Describes
    <3> QED
      BY <1>12, <3>1, <3>2
  <2>2. w[i] = m2[i]
    BY <1>8, <1>9, <2>1
  <2>3. CASE s < c
    BY <1>7, <2>1, <2>2, <2>3
  <2>4. CASE s = c /\ p = NULL
    BY <1>7, <2>2, <2>4
  <2>5. CASE s = c /\ p # NULL
    <3>1. p # q
      BY <1>6, <1>12, <2>5
    <3>2. Extent(p, SlobUnits(m, p)) \cap Extent(q, SlobUnits(m, q)) = {}
      BY <1>0, <1>6, <1>12, <2>5, <3>1, RunsApart
    <3> QED
      BY <1>7, <1>12, <2>1, <2>2, <2>5, <3>2
  <2> QED
    BY <1>1, <2>3, <2>4, <2>5
<1>13. s = c /\ s = f => p = NULL
  BY <1>6, OnePrevious
<1>14. Carved(m, w, F, s, z, x, c, n)
  BY <1>8, <1>10, <1>11, <1>12 DEF Carved, r
<1>15. ASSUME F \ Extent(c, n) # {}
       PROVE  Encodes(w, FirstLeft(f, s, z, x, c, n), F \ Extent(c, n))
  BY <1>8, <1>15, <1>14, CarveEncodes
<1> QED
  BY <1>8, <1>13, <1>15, <1>5 DEF FirstLeft, FirstWritten, w

-----------------------------------------------------------------------------
(* Giving l units at a back to F, which goes on at x after them. *)
Gap(F, a, l, x) ==
    /\ l \in 1 .. PageUnits /\ x \in a + l .. PageUnits
    /\ Extent(a, l) \cap F = {}
    /\ x = PageUnits \/ x \in F
    /\ \A u \in F : u >= a => x <= u

(* The runs begin where they did, or where the units were given back. *)
LEMMA GiveHeads ==
    ASSUME NEW F \in SUBSET Offsets, NEW a \in Offsets, NEW l \in 1 .. PageUnits,
           NEW t \in F \cup Extent(a, l), IsHead(F \cup Extent(a, l), t)
    PROVE  \/ t = a /\ a - 1 \notin F
           \/ t \in F /\ IsHead(F, t) /\ t # a + l
BY DEF IsHead, Extent, Offsets

(* The run that begins where the units were given back, *)
LEMMA GiveRun ==
    ASSUME NEW F \in SUBSET Offsets, NEW a \in Offsets, NEW l, NEW x, Gap(F, a, l, x)
    PROVE  /\ x # a + l \/ x \notin F => Describes(F \cup Extent(a, l), a, l, x)
           /\ \A z, y : x = a + l /\ x \in F /\ Describes(F, x, z, y) =>
                /\ a + (l + z) <= PageUnits
                /\ Describes(F \cup Extent(a, l), a, l + z, y)
<1> DEFINE G == F \cup Extent(a, l)
<1>1. a \in Int /\ l \in Int /\ x \in Int /\ PageUnits \in Int /\ a >= 0
  BY PageUnitsAssumption DEF Gap, Offsets
<1>2. ASSUME x # a + l \/ x \notin F PROVE Describes(G, a, l, x)
  BY <1>1, <1>2 DEF Gap, Describes, Extent, Offsets
<1>3. ASSUME NEW z, NEW y, x = a + l, x \in F, Describes(F, x, z, y)
      PROVE  a + (l + z) <= PageUnits /\ Describes(G, a, l + z, y)
  <2>1. z \in 1 .. PageUnits /\ y \in x + z .. PageUnits
    BY <1>3 DEF Describes
  <2>2. Extent(a, l + z) \subseteq G /\ a + (l + z) = x + z
    BY <1>1, <1>3, <2>1 DEF Describes, Extent
  <2>3. l + z \in 1 .. PageUnits
    BY <1>1, <1>3, <2>1 DEF Gap
  <2>4. x + z \notin G /\ (y = PageUnits \/ y \in G)
    BY <1>1, <1>3, <2>1 DEF Describes, Extent
  <2>5. \A u \in G : u >= x + z => y <= u
    BY <1>1, <1>3, <2>1 DEF Describes, Extent
  <2> HIDE DEF G
  <2> QED
    BY <1>1, <1>3, <2>1, <2>2, <2>3, <2>4, <2>5 DEF Describes
<1> QED
  BY <1>2, <1>3

(* the run before it, *)
LEMMA GivePrev ==
    ASSUME NEW F \in SUBSET Offsets, NEW a \in Offsets, NEW l, NEW x, Gap(F, a, l, x),
           NEW p \in F, NEW z, Describes(F, p, z, x), p < a,
           NEW z1, NEW x1, Describes(F \cup Extent(a, l), a, z1, x1)
    PROVE  /\ p + z <= a /\ (p + z = a => a - 1 \in F)
           /\ p + z = a => /\ p + (z1 + z) <= PageUnits
                           /\ Describes(F \cup Extent(a, l), p, z1 + z, x1)
           /\ p + z # a => Describes(F \cup Extent(a, l), p, z, a)
<1> DEFINE G == F \cup Extent(a, l)
<1>1. /\ a \in Int /\ l \in Int /\ x \in Int /\ PageUnits \in Int /\ a >= 0
      /\ p \in Int /\ z \in Int /\ z1 \in Int /\ x1 \in Int /\ p >= 0
      /\ l >= 1 /\ a \in Extent(a, l) /\ z >= 1
  BY PageUnitsAssumption DEF Gap, Describes, Offsets, Extent
<1>2. p + z <= a
  BY <1>1 DEF Gap, Describes, Extent
<1>3. p + z = a => a - 1 \in F
  BY <1>1 DEF Describes, Extent
<1>4. ASSUME p + z = a
      PROVE  p + (z1 + z) <= PageUnits /\ Describes(G, p, z1 + z, x1)
  <2>1. z1 \in 1 .. PageUnits /\ x1 \in a + z1 .. PageUnits
    BY DEF Describes
  <2>2. Extent(p, z1 + z) \subseteq G /\ p + (z1 + z) = a + z1
    BY <1>1, <1>4, <2>1 DEF Describes, Extent
  <2>3. z1 + z \in 1 .. PageUnits
    BY <1>1, <1>4, <2>1
  <2> HIDE DEF G
  <2>4. /\ a + z1 \notin G
        /\ x1 = PageUnits \/ x1 \in G
        /\ \A u \in G : u >= a + z1 => x1 <= u
    BY DEF Describes, G
  <2> QED
    BY <1>1, <1>4, <2>1, <2>2, <2>3, <2>4 DEF Describes
<1>5. ASSUME p + z # a PROVE Describes(G, p, z, a)
  <2>1. z \in 1 .. PageUnits /\ Extent(p, z) \subseteq G /\ p + z \notin G
    BY <1>1, <1>2, <1>5 DEF Describes, Extent
  <2>2. a \in p + z .. PageUnits /\ a \in G
    BY <1>1, <1>2 DEF Offsets
  <2>3. \A u \in G : u >= p + z => a <= u
    BY <1>1 DEF Gap, Describes, Extent, Offsets
  <2> HIDE DEF G
  <2> QED
    BY <2>1, <2>2, <2>3 DEF Describes
<1> QED
  BY <1>2, <1>3, <1>4, <1>5

(* and the others. *)
LEMMA GiveOthers ==
    ASSUME NEW F \in SUBSET Offsets, NEW a \in Offsets, NEW l, NEW x, Gap(F, a, l, x),
           NEW t \in F, NEW z, NEW y, Describes(F, t, z, y), t > a \/ y < a
    PROVE  Describes(F \cup Extent(a, l), t, z, y)
<1> DEFINE G == F \cup Extent(a, l)
<1>1. /\ a \in Int /\ l \in Int /\ x \in Int /\ PageUnits \in Int /\ t \in Int
      /\ z \in Int /\ y \in Int /\ z >= 1 /\ l >= 1 /\ t \notin Extent(a, l)
  BY PageUnitsAssumption DEF Gap, Describes, Offsets
<1>2. CASE t > a
  <2>1. t >= a + l
    BY <1>1, <1>2 DEF Extent
  <2> QED
    BY <1>1, <1>2, <2>1 DEF Describes, Extent
<1>3. CASE y < a
  BY <1>1, <1>3 DEF Describes, Extent
<1> QED
  BY <1>2, <1>3

(* The words slob_free writes: the block joined to the free block after it,  *)
(* then to the one before.                                                   *)
WithNext(m, F, a, l, x) ==
    IF x \in F /\ a + l = x
    THEN SetSlob(m, a, l + SlobUnits(m, x), SlobNext(m, x))
    ELSE SetSlob(m, a, l, x)
WithPrev(m, p, a) ==
    IF p + SlobUnits(m, p) = a
    THEN SetSlob(m, p, SlobUnits(m, a) + SlobUnits(m, p), SlobNext(m, a))
    ELSE SetSlob(m, p, SlobUnits(m, p), a)

(* The other free blocks keep their words, which are not those of the block. *)
OthersKept(m, w, F, a, l) ==
    \A t \in F : IsHead(F, t) /\ t # a + l =>
      \A i \in Extent(t, SlobUnits(m, t)) :
        i \in Offsets \ Extent(a, SlobUnits(w, a)) /\ w[i] = m[i]

(* The units given back begin a run of their own, unless the run before     *)
(* ends there, and the other free blocks keep their words.                   *)
LEMMA WithNextReads ==
    ASSUME NEW m \in Words, NEW F \in SUBSET Offsets, NEW f, Encodes(m, f, F),
           NEW a \in Offsets, NEW l, NEW x, Gap(F, a, l, x),
           NEW w, w = WithNext(m, F, a, l, x)
    PROVE  /\ w \in Words /\ Node(w, F \cup Extent(a, l), a)
           /\ OthersKept(m, w, F, a, l)
<1> USE DEF OthersKept
<1>1. /\ a \in Int /\ l \in Int /\ x \in Int /\ PageUnits \in Int /\ a >= 0
      /\ l \in 1 .. PageUnits /\ x \in a + l .. PageUnits /\ a + l <= PageUnits
  BY PageUnitsAssumption DEF Gap, Offsets
<1>2. \A t \in F : IsHead(F, t) => /\ Describes(F, t, SlobUnits(m, t), SlobNext(m, t))
                                   /\ Extent(t, SlobUnits(m, t)) \subseteq F
                                   /\ Extent(t, SlobUnits(m, t)) \cap Extent(a, l) = {}
  BY DEF Encodes, Node, Describes, Gap
<1>3. CASE ~ (x \in F /\ a + l = x)
  <2>1. w = SetSlob(m, a, l, x) /\ x \in 1 .. PageUnits
    BY <1>1, <1>3 DEF WithNext
  <2>2. Describes(F \cup Extent(a, l), a, l, x)
    BY <1>3, GiveRun
  <2>3. /\ w \in Words /\ Sound(w, a) /\ SlobUnits(w, a) = l /\ SlobNext(w, a) = x
        /\ \A i \in Offsets \ Extent(a, l) : w[i] = m[i]
    BY <1>1, <2>1, SetSlobReads
  <2> QED
    BY <1>2, <2>2, <2>3 DEF Node
<1>4. CASE x \in F /\ a + l = x
  <2> DEFINE z == SlobUnits(m, x)
             y == SlobNext(m, x)
  <2>0. IsHead(F, x)
    BY <1>1, <1>4 DEF IsHead, Gap, Extent
  <2>1. w = SetSlob(m, a, l + z, y)
    BY <1>4 DEF WithNext
  <2>2. Describes(F, x, z, y)
    BY <1>2, <1>4, <2>0
  <2> HIDE DEF z, y
  <2>3. a + (l + z) <= PageUnits /\ Describes(F \cup Extent(a, l), a, l + z, y)
    BY <1>4, <2>2, GiveRun
  <2>4. l + z \in 1 .. PageUnits /\ y \in 1 .. PageUnits /\ z \in Int
    BY <1>1, <2>2, <2>3 DEF Describes
  <2>5. /\ w \in Words /\ Sound(w, a) /\ SlobUnits(w, a) = l + z /\ SlobNext(w, a) = y
        /\ \A i \in Offsets \ Extent(a, l + z) : w[i] = m[i]
    BY <2>1, <2>3, <2>4, SetSlobReads
  <2>6. ASSUME NEW t \in F, IsHead(F, t), t # a + l,
               NEW i \in Extent(t, SlobUnits(m, t))
        PROVE  i \in Offsets \ Extent(a, l + z)
    <3>1. Extent(x, z) \cap Extent(t, SlobUnits(m, t)) = {}
      BY <1>2, <1>4, <2>0, <2>2, <2>6, RunsApart
    <3>2. i \in Offsets /\ i \notin Extent(a, l) /\ i \notin Extent(x, z)
      BY <1>2, <2>6, <3>1
    <3> QED
      BY <1>1, <1>4, <2>4, <3>2 DEF Extent, Offsets
  <2> QED
    BY <2>3, <2>5, <2>6 DEF Node
<1> QED
  BY <1>3, <1>4

(* A block given back below the whole list, *)
LEMMA GiveFirst ==
    ASSUME NEW m \in Words, NEW F \in SUBSET Offsets, NEW f, Encodes(m, f, F),
           NEW a \in Offsets, NEW l, Gap(F, a, l, f), a < f,
           NEW w, w = WithNext(m, F, a, l, f)
    PROVE  w \in Words /\ Encodes(w, a, F \cup Extent(a, l))
<1> DEFINE G == F \cup Extent(a, l)
<1>1. w \in Words /\ Node(w, G, a) /\ OthersKept(m, w, F, a, l)
  BY WithNextReads
<1>2. G \in SUBSET Offsets /\ a \in G /\ l \in 1 .. PageUnits
  BY PageUnitsAssumption DEF Gap, Extent, Offsets
<1>3. \A u \in G : a <= u
  BY DEF Encodes, Extent, Offsets
<1>4. ASSUME NEW t \in F, IsHead(F, t), t # a + l PROVE Node(w, G, t)
  <2>1. Node(m, F, t) /\ t > a
    BY <1>4 DEF Encodes, Offsets
  <2>2. Describes(G, t, SlobUnits(m, t), SlobNext(m, t))
    BY <2>1, GiveOthers DEF Node
  <2> QED
    BY <1>1, <1>2, <1>4, <2>1, <2>2, NodeFrame DEF OthersKept
<1>5. \A t \in G : IsHead(G, t) => t = a \/ (t \in F /\ IsHead(F, t) /\ t # a + l)
  BY <1>2, GiveHeads
<1> QED
  BY <1>1, <1>2, <1>3, <1>4, <1>5 DEF Encodes

(* and one given back after a free block of it. *)
LEMMA GiveAfter ==
    ASSUME NEW m \in Words, NEW F \in SUBSET Offsets, NEW f, Encodes(m, f, F),
           NEW a \in Offsets, NEW l, NEW x, Gap(F, a, l, x),
           NEW p \in F, IsHead(F, p), p < a, x = SlobNext(m, p),
           NEW w, w = WithPrev(WithNext(m, F, a, l, x), p, a)
    PROVE  w \in Words /\ Encodes(w, f, F \cup Extent(a, l))
<1> DEFINE G == F \cup Extent(a, l)
           v == WithNext(m, F, a, l, x)
           z == SlobUnits(m, p)
           z1 == SlobUnits(v, a)
           x1 == SlobNext(v, a)
<1>1. v \in Words /\ Node(v, G, a) /\ OthersKept(m, v, F, a, l)
  BY WithNextReads
<1> HIDE DEF v
<1>2. G \in SUBSET Offsets /\ a \in G /\ l \in 1 .. PageUnits /\ x \in a + l .. PageUnits
  BY PageUnitsAssumption DEF Gap, Extent, Offsets
<1>3. Describes(G, a, z1, x1) /\ Sound(v, a) /\ Sound(m, p) /\ Describes(F, p, z, x)
  BY <1>1 DEF Node, Encodes
<1>4. /\ a \in Int /\ l \in Int /\ x \in Int /\ PageUnits \in Int /\ p \in Int
      /\ p \in Offsets /\ z \in 1 .. PageUnits /\ z1 \in 1 .. PageUnits
      /\ x1 \in a + z1 .. PageUnits /\ a >= 0 /\ p >= 0 /\ a < PageUnits
  BY <1>2, <1>3, PageUnitsAssumption DEF Describes, Offsets
<1>5. /\ p + z <= a /\ (p + z = a => a - 1 \in F)
      /\ p + z = a => p + (z1 + z) <= PageUnits /\ Describes(G, p, z1 + z, x1)
      /\ p + z # a => Describes(G, p, z, a)
  BY <1>3, GivePrev
<1>6. /\ Sound(v, p) /\ SlobUnits(v, p) = z
  <2>1. \A i \in Extent(p, z) : v[i] = m[i]
    BY <1>1, <1>2, <1>4 DEF OthersKept
  <2>2. p + z <= PageUnits
    BY <1>4, <1>5
  <2> QED
    BY <1>1, <1>3, <1>4, <2>1, <2>2, ReadsFrame
<1> HIDE DEF z, z1, x1, G
<1>7. /\ w \in Words /\ Node(w, G, p)
      /\ p + z # a => Node(w, G, a)
      /\ \A i \in Offsets : i \notin Extent(p, z) /\ i \notin Extent(a, z1)
                            => w[i] = v[i]
  <2>1. CASE p + z = a
    <3>1. w = SetSlob(v, p, z1 + z, x1)
      BY <1>6, <2>1 DEF WithPrev, v, z1, x1
    <3>2. z1 + z \in 1 .. PageUnits /\ p + (z1 + z) <= PageUnits /\ x1 \in 1 .. PageUnits
      BY <1>4, <1>5, <2>1
    <3>3. /\ w \in Words /\ Sound(w, p) /\ SlobUnits(w, p) = z1 + z /\ SlobNext(w, p) = x1
          /\ \A i \in Offsets \ Extent(p, z1 + z) : w[i] = v[i]
      BY <1>1, <1>4, <3>1, <3>2, SetSlobReads
    <3>4. \A i \in Offsets : i \notin Extent(p, z) /\ i \notin Extent(a, z1)
                               => i \notin Extent(p, z1 + z)
      BY <1>4, <2>1 DEF Extent, Offsets
    <3> QED
      BY <1>5, <2>1, <3>3, <3>4 DEF Node
  <2>2. CASE p + z # a
    <3>1. w = SetSlob(v, p, z, a)
      BY <1>6, <2>2 DEF WithPrev, v
    <3>2. a \in 1 .. PageUnits /\ p + z <= PageUnits
      BY <1>4, <1>5
    <3>3. /\ w \in Words /\ Sound(w, p) /\ SlobUnits(w, p) = z /\ SlobNext(w, p) = a
          /\ \A i \in Offsets \ Extent(p, z) : w[i] = v[i]
      BY <1>1, <1>4, <3>1, <3>2, SetSlobReads
    <3>4. \A i \in Extent(a, z1) : i \in Offsets \ Extent(p, z)
      BY <1>3, <1>4, <1>5 DEF Extent, Offsets
    <3>5. Node(v, G, a) /\ Describes(G, a, SlobUnits(v, a), SlobNext(v, a))
      BY <1>1 DEF Node
    <3>6. Node(w, G, a)
      BY <1>1, <1>2, <3>3, <3>4, <3>5, NodeFrame DEF z1
    <3> QED
      BY <1>5, <2>2, <3>3, <3>6 DEF Node
  <2> QED
    BY <2>1, <2>2
<1>8. ASSUME NEW t \in F, IsHead(F, t), t # a + l, t # p PROVE Node(w, G, t)
  <2> DEFINE zt == SlobUnits(m, t)
             xt == SlobNext(m, t)
  <2>1. Node(m, F, t) /\ Describes(F, t, zt, xt) /\ t \in Int
    BY <1>8 DEF Encodes, Node, Offsets
  <2>2. t > a \/ xt < a
    <3>1. t > p => x <= t
      BY <1>3, <1>8, HeadsApart
    <3>2. t < p => xt <= p
      BY <1>8, <2>1, HeadsApart
    <3>3. xt \in Int
      BY <2>1 DEF Describes
    <3> QED
      BY <1>2, <1>4, <1>8, <2>1, <3>1, <3>2, <3>3
  <2>3. Describes(G, t, zt, xt)
    BY <2>1, <2>2, GiveOthers DEF G
  <2>4. Extent(p, z) \cap Extent(t, zt) = {}
    BY <1>3, <1>8, <2>1, RunsApart
  <2>5. ASSUME NEW i \in Extent(t, zt) PROVE w[i] = m[i]
    <3>1. i \in Offsets /\ i \notin Extent(a, z1) /\ v[i] = m[i]
      BY <1>1, <1>8, <2>5 DEF OthersKept, z1
    <3> QED
      BY <1>7, <2>4, <2>5, <3>1
  <2> QED
    BY <1>2, <1>7, <2>1, <2>3, <2>5, NodeFrame
<1>9. f \in G /\ \A u \in G : f <= u
  <2>1. f \in F /\ f <= p /\ f \in Int /\ \A u \in F : f <= u
    BY DEF Encodes, Offsets
  <2> QED
    BY <1>4, <2>1 DEF G, Extent
<1>10. \A t \in G : IsHead(G, t) =>
         \/ t = a /\ a - 1 \notin F
         \/ t \in F /\ IsHead(F, t) /\ t # a + l
  BY <1>2, GiveHeads DEF G
<1> QED
  BY <1>5, <1>7, <1>8, <1>9, <1>10 DEF Encodes, G

-----------------------------------------------------------------------------
(* The inductive invariant. *)

(* Blocks in use lie in the page and share no unit. *)
Apart ==
    /\ \A b \in live : b.at + b.len <= PageUnits
    /\ \A b, d \in live : b # d => Extent(b.at, b.len) \cap Extent(d.at, d.len) = {}

(* A page with the page allocator has no block. *)
Unused == pc = "unused" => live = {}

FreeList == InUse /\ FreeNow # {} => Encodes(mem, freelist, FreeNow)

(* The walk of slob_page_alloc is at a free block, prev is the one before,   *)
(* and no place below cur holds the request.                                 *)
Looking == pc = "search" =>
    /\ arg \in Requests
    /\ IsHead(FreeNow, cur)
    /\ \/ prev = NULL /\ cur = freelist
       \/ IsHead(FreeNow, prev) /\ SlobNext(mem, prev) = cur
    /\ \A r \in FreeNow : r < cur => ~ Fits(FreeNow, r, arg.units, arg.align)

(* The walk of slob_free is at a free block below the one given back. *)
Returning == pc = "reinsert" =>
    /\ arg \in live
    /\ IsHead(FreeNow, prev) /\ prev < arg.at
    /\ cur = SlobNext(mem, prev)

IInv == /\ TypeOK /\ Apart /\ Unused /\ FreeList /\ UnitsExact
        /\ Looking /\ Returning

-----------------------------------------------------------------------------
(* Counting units. *)

(* An extent has as many units as its length. *)
LEMMA ExtentCardinality ==
    ASSUME NEW s \in Int, NEW n \in Nat
    PROVE  IsFiniteSet(Extent(s, n)) /\ Cardinality(Extent(s, n)) = n
<1>1. s + n - 1 \in Int /\ (s > s + n - 1 <=> n = 0)
  OBVIOUS
<1> QED
  BY <1>1, FS_Interval DEF Extent

(* A page has PageUnits units, and its sets of units are finite. *)
LEMMA OffsetsCardinality ==
    /\ Cardinality(Offsets) = PageUnits
    /\ \A F \in SUBSET Offsets :
         /\ IsFiniteSet(F) /\ Cardinality(F) \in 0 .. PageUnits
         /\ Cardinality(F) = PageUnits => F = Offsets
         /\ Cardinality(F) = 0 <=> F = {}
<1>1. IsFiniteSet(Offsets) /\ Cardinality(Offsets) = PageUnits
  BY FS_Interval, PageUnitsAssumption DEF Offsets
<1>2. ASSUME NEW F \in SUBSET Offsets
      PROVE  /\ IsFiniteSet(F) /\ Cardinality(F) \in 0 .. PageUnits
             /\ Cardinality(F) = PageUnits => F = Offsets
             /\ Cardinality(F) = 0 <=> F = {}
  <2>1. IsFiniteSet(F) /\ Cardinality(F) \in Nat /\ Cardinality(F) <= PageUnits
    BY <1>1, FS_Subset, FS_CardinalityType
  <2>2. Cardinality(F) = PageUnits => F = Offsets
    BY <1>1, FS_Subset
  <2>3. Cardinality(F) = 0 <=> F = {}
    BY <2>1, FS_EmptySet
  <2> QED
    BY <2>1, <2>2, <2>3, PageUnitsAssumption
<1> QED
  BY <1>1, <1>2

(* An extent carved out of a set of units, or given back to it, counts. *)
LEMMA CarveCardinality ==
    ASSUME NEW F \in SUBSET Offsets, NEW s \in Int, NEW n \in Nat,
           Extent(s, n) \subseteq F
    PROVE  Cardinality(F \ Extent(s, n)) = Cardinality(F) - n
<1>1. F \cap Extent(s, n) = Extent(s, n)
  OBVIOUS
<1>2. IsFiniteSet(F) /\ Cardinality(F) \in Nat
  BY OffsetsCardinality
<1>3. Cardinality(F \ Extent(s, n)) = Cardinality(F) - Cardinality(Extent(s, n))
  BY <1>1, <1>2, FS_Difference
<1> QED
  BY <1>3, ExtentCardinality

LEMMA GiveCardinality ==
    ASSUME NEW F \in SUBSET Offsets, NEW s \in Int, NEW n \in Nat,
           Extent(s, n) \cap F = {}
    PROVE  Cardinality(F \cup Extent(s, n)) = Cardinality(F) + n
<1>1. F \cap Extent(s, n) = {}
  OBVIOUS
<1>2. IsFiniteSet(F) /\ Cardinality(F) \in Nat
  BY OffsetsCardinality
<1>3. Cardinality(F \cup Extent(s, n))
        = Cardinality(F) + Cardinality(Extent(s, n)) - Cardinality(F \cap Extent(s, n))
  BY <1>2, FS_Union, ExtentCardinality
<1>4. Cardinality(F \cap Extent(s, n)) = 0
  BY <1>1, FS_EmptySet
<1> QED
  BY <1>2, <1>3, <1>4, ExtentCardinality

-----------------------------------------------------------------------------
(* Blocks and free units. *)

(* The free units are units of the page. *)
LEMMA FreeNowType == FreeNow \in SUBSET Offsets
BY DEF FreeNow, FreeIn

(* A unit is free when no block has it. *)
LEMMA FreeIsNotLive ==
    \A u : u \in FreeNow <=> u \in Offsets /\ \A b \in live : u \notin Extent(b.at, b.len)
BY DEF FreeNow, FreeIn

(* Handing out a block takes its units from the free ones, *)
LEMMA Taken ==
    ASSUME NEW b, live' = live \cup {b}
    PROVE  FreeNow' = FreeNow \ Extent(b.at, b.len)
BY DEF FreeNow, FreeIn, Offsets

(* and a block given back returns them. *)
LEMMA Given ==
    ASSUME TypeOK, Apart, NEW b \in live
    PROVE  /\ b.at \in Offsets /\ b.len \in 1 .. PageUnits
           /\ b.at + b.len <= PageUnits
           /\ b.at \notin FreeNow /\ Extent(b.at, b.len) \cap FreeNow = {}
           /\ live' = live \ {b} => FreeNow' = FreeNow \cup Extent(b.at, b.len)
<1>1. b.at \in Offsets /\ b.len \in 1 .. PageUnits /\ b.at + b.len <= PageUnits
  BY DEF TypeOK, Blocks, Apart
<1>2. b.at \in Extent(b.at, b.len) /\ Extent(b.at, b.len) \subseteq Offsets
  BY <1>1, PageUnitsAssumption DEF Extent, Offsets
<1>3. ASSUME live' = live \ {b}
      PROVE  FreeNow' = FreeNow \cup Extent(b.at, b.len)
  <2>1. \A d \in live : d # b => Extent(b.at, b.len) \cap Extent(d.at, d.len) = {}
    BY DEF Apart
  <2>2. \A u : u \in FreeNow' <=> u \in Offsets /\ \A d \in live \ {b} : u \notin Extent(d.at, d.len)
    BY <1>3 DEF FreeNow, FreeIn, Offsets
  <2>3. \A u : u \in FreeNow' <=> u \in FreeNow \cup Extent(b.at, b.len)
    BY <1>2, <2>1, <2>2, FreeIsNotLive
  <2> QED
    BY <2>3
<1> QED
  BY <1>1, <1>2, <1>3, FreeIsNotLive

(* A page on a list has a free block, and its list begins with the first. *)
LEMMA ListBegins ==
    ASSUME IInv, pc = "idle", units > 0
    PROVE  /\ Encodes(mem, freelist, FreeNow) /\ freelist \in FreeNow
           /\ IsHead(FreeNow, freelist)
<1>1. FreeNow # {}
  BY OffsetsCardinality, FreeNowType DEF IInv, UnitsExact, InUse
<1>2. Encodes(mem, freelist, FreeNow)
  BY <1>1 DEF IInv, FreeList, InUse
<1> QED
  BY <1>2, FreeNowType DEF Encodes, IsHead, Offsets

(* The gap a block leaves in a free list. *)
LEMMA GapOf ==
    ASSUME NEW F \in SUBSET Offsets, NEW a \in Offsets, NEW l \in 1 .. PageUnits,
           a + l <= PageUnits, Extent(a, l) \cap F = {}, NEW x \in 0 .. PageUnits,
           x >= a, x = PageUnits \/ x \in F, \A u \in F : u >= a => x <= u
    PROVE  Gap(F, a, l, x)
<1>1. x \notin Extent(a, l)
  BY DEF Extent, Offsets
<1> QED
  BY <1>1 DEF Gap, Extent, Offsets

-----------------------------------------------------------------------------
(* Every action keeps the invariant. *)

(* A page begins with the page allocator. *)
LEMMA InitInv == Init => IInv
<1> SUFFICES ASSUME Init PROVE IInv
  OBVIOUS
<1>1. TypeOK
  <2>1. mem \in [Offsets -> Int]
    BY UserWordsAssumption DEF Init
  <2>2. reply \in [req : Requests \cup {NoRequest}, at : Offsets \cup {NULL}]
    BY DEF Init, NoReply
  <2>3. /\ freelist = 0 /\ units = 0 /\ listed = FALSE /\ pc = "unused"
        /\ prev = NULL /\ cur = NULL /\ live = {}
    BY DEF Init
  <2>4. freelist \in 0 .. PageUnits /\ units \in 0 .. PageUnits
    BY <2>3, PageUnitsAssumption
  <2> QED
    BY <2>1, <2>2, <2>3, <2>4 DEF TypeOK
<1> QED
  BY <1>1 DEF Init, IInv, Apart, Unused, FreeList, UnitsExact, InUse, Looking, Returning

(* One block spans a fresh page. *)
LEMMA NewPageKept ==
    ASSUME IInv, NEW q \in Requests, NewPage(q)
    PROVE  IInv'
<1>1. live = {} /\ live' = {} /\ FreeNow' = Offsets
  BY DEF IInv, Unused, NewPage, FreeNow, FreeIn, Offsets
<1>2. PageUnits \in 1 .. PageUnits /\ 0 + PageUnits <= PageUnits /\ 0 \in Offsets
  BY PageUnitsAssumption DEF Offsets
<1>3. /\ mem' \in Words /\ Sound(mem', 0) /\ SlobUnits(mem', 0) = PageUnits
      /\ SlobNext(mem', 0) = PageUnits
  <2>1. mem \in Words
    BY DEF IInv, TypeOK, Words
  <2>2. mem' = SetSlob(mem, 0, PageUnits, PageUnits)
    BY DEF NewPage
  <2> QED
    BY <1>2, <2>1, <2>2, SetSlobReads
<1>4. Encodes(mem', 0, Offsets)
  <2>1. \A t \in Offsets : IsHead(Offsets, t) => t = 0
    BY PageUnitsAssumption DEF IsHead, Offsets
  <2>2. Describes(Offsets, 0, PageUnits, PageUnits)
    BY PageUnitsAssumption DEF Describes, Offsets, Extent
  <2>3. \A u \in Offsets : 0 <= u
    BY DEF Offsets
  <2> QED
    BY <1>2, <1>3, <2>1, <2>2, <2>3 DEF Encodes, Node
<1>5. TypeOK'
  BY <1>1, <1>2, <1>3, PageUnitsAssumption DEF IInv, TypeOK, NewPage, Words, NULL, Offsets
<1>6. Apart' /\ Unused' /\ Returning'
  BY <1>1 DEF NewPage, Apart, Unused, Returning
<1>7. FreeList'
  BY <1>1, <1>4 DEF NewPage, FreeList
<1>8. UnitsExact'
  BY <1>1, OffsetsCardinality, PageUnitsAssumption DEF NewPage, UnitsExact
<1>9. Looking'
  BY <1>1, <1>2 DEF NewPage, Looking, IsHead, Offsets
<1> QED
  BY <1>5, <1>6, <1>7, <1>8, <1>9 DEF IInv

(* A search begins at the first block of a page that counts enough units. *)
LEMMA PageAllocKept ==
    ASSUME IInv, NEW q \in Requests, PageAlloc(q)
    PROVE  IInv'
<1>1. FreeNow' = FreeNow
  BY DEF PageAlloc, FreeNow, FreeIn, Offsets
<1>2. units > 0 /\ pc = "idle"
  BY RequestsAssumption DEF IInv, TypeOK, UnitsExact, InUse, PageAlloc
<1>3. /\ Encodes(mem, freelist, FreeNow) /\ freelist \in FreeNow
      /\ IsHead(FreeNow, freelist)
  BY <1>2, ListBegins
<1>4. TypeOK' /\ Apart' /\ Unused' /\ Returning'
  BY <1>2, PageUnitsAssumption
     DEF IInv, TypeOK, Apart, Unused, Returning, PageAlloc, Offsets, NULL
<1>5. FreeList' /\ UnitsExact'
  BY <1>1, <1>2 DEF IInv, FreeList, UnitsExact, InUse, PageAlloc
<1>6. \A u \in FreeNow : freelist <= u /\ u \in Int /\ freelist \in Int
  BY <1>3, FreeNowType DEF Encodes, Offsets
<1>7. Looking'
  BY <1>1, <1>3, <1>6 DEF Looking, PageAlloc
<1> QED
  BY <1>4, <1>5, <1>7 DEF IInv

(* What the walk of slob_page_alloc knows of the free block it is at. *)
LEMMA SearchFacts ==
    ASSUME IInv, pc = "search",
           NEW z, z = SlobUnits(mem, cur), NEW x, x = SlobNext(mem, cur),
           NEW c, c = AlignUp(cur, arg.align), NEW n, n = arg.units
    PROVE  /\ Encodes(mem, freelist, FreeNow) /\ mem \in Words
           /\ cur \in FreeNow /\ IsHead(FreeNow, cur) /\ Node(mem, FreeNow, cur)
           /\ arg \in Requests /\ n \in 1 .. PageUnits
           /\ Delta = c - cur /\ c \in Nat /\ cur <= c
           /\ RoomEnough <=> c + n <= cur + z
           /\ SlobLast(mem, cur) <=> x = PageUnits
           /\ ~ RoomEnough => \A r \in FreeNow : r < x => ~ Fits(FreeNow, r, n, arg.align)
           /\ RoomEnough => /\ IsFirstFit(FreeNow, c, n, arg.align)
                            /\ c + n <= PageUnits /\ c \in Offsets
<1>1. /\ arg \in Requests /\ IsHead(FreeNow, cur) /\ cur \in FreeNow
      /\ \A r \in FreeNow : r < cur => ~ Fits(FreeNow, r, n, arg.align)
  BY DEF IInv, Looking, IsHead
<1>2. Encodes(mem, freelist, FreeNow) /\ mem \in Words
  BY <1>1 DEF IInv, TypeOK, FreeList, InUse, Words
<1>3. Node(mem, FreeNow, cur) /\ Describes(FreeNow, cur, z, x)
  BY <1>1, <1>2 DEF Encodes, Node
<1>4. /\ n \in 1 .. PageUnits /\ arg.align \in Nat \ {0} /\ cur \in Nat
      /\ z \in 1 .. PageUnits /\ x \in cur + z .. PageUnits /\ PageUnits \in Nat
      /\ \A r \in FreeNow : r \in Nat
  <2>1. \A r \in FreeNow : r \in Nat
    BY FreeNowType DEF Offsets
  <2> QED
    BY <1>1, <1>3, <2>1, RequestsAssumption, PageUnitsAssumption DEF Describes
<1>5. /\ c \in Nat /\ c >= cur /\ c % arg.align = 0
      /\ \A r \in Nat : r >= cur /\ r % arg.align = 0 => c <= r
  BY <1>4, AlignUpLeast
<1>6. Delta = c - cur /\ (RoomEnough <=> c + n <= cur + z)
  BY <1>4, <1>5 DEF Delta, RoomEnough
<1>7. SlobLast(mem, cur) <=> x = PageUnits
  BY <1>4, PageArithmetic DEF SlobLast
<1>8. ASSUME NEW r \in FreeNow, Fits(FreeNow, r, n, arg.align), r < x
      PROVE  c <= r /\ c + n <= cur + z
  <2>1. r >= cur
    BY <1>1, <1>4, <1>8
  <2>2. c <= r
    BY <1>4, <1>5, <1>8, <2>1 DEF Fits
  <2>3. r + n <= cur + z
    <3>1. Extent(r, n) \subseteq FreeNow /\ n \in Nat \ {0}
      BY <1>4, <1>8 DEF Fits
    <3> QED
      BY <1>1, <1>3, <1>8, <2>1, <3>1, FitInRun, FreeNowType
  <2> QED
    BY <1>4, <1>5, <2>2, <2>3
<1>9. ASSUME RoomEnough
      PROVE  /\ IsFirstFit(FreeNow, c, n, arg.align)
             /\ c + n <= PageUnits /\ c \in Offsets
  <2>1. c + n <= cur + z /\ Extent(cur, z) \subseteq FreeNow
    BY <1>3, <1>6, <1>9 DEF Describes
  <2>2. c \in FreeNow /\ Extent(c, n) \subseteq FreeNow
    BY <1>4, <1>5, <2>1 DEF Extent
  <2>3. ASSUME NEW r \in FreeNow, Fits(FreeNow, r, n, arg.align) PROVE c <= r
    BY <1>4, <1>5, <1>8, <2>1, <2>3
  <2>4. c + n <= PageUnits /\ c \in Offsets
    BY <1>4, <1>5, <2>1 DEF Offsets
  <2> QED
    BY <1>5, <2>2, <2>3, <2>4 DEF IsFirstFit, Fits
<1> QED
  BY <1>1, <1>2, <1>3, <1>4, <1>5, <1>6, <1>7, <1>8, <1>9

(* The walk goes on: what it leaves behind had no room. *)
LEMMA SearchOnKept ==
    ASSUME IInv, SearchOn
    PROVE  IInv'
<1> DEFINE z == SlobUnits(mem, cur)
           x == SlobNext(mem, cur)
<1>1. FreeNow' = FreeNow /\ pc = "search"
  BY DEF SearchOn, FreeNow, FreeIn, Offsets
<1>2. /\ cur \in FreeNow /\ IsHead(FreeNow, cur) /\ Node(mem, FreeNow, cur)
      /\ arg \in Requests /\ x # PageUnits
      /\ \A r \in FreeNow : r < x => ~ Fits(FreeNow, r, arg.units, arg.align)
  BY <1>1, SearchFacts DEF SearchOn
<1>3. IsHead(FreeNow, x) /\ x \in Offsets
  BY <1>2, NextIsHead, FreeNowType DEF Node
<1>4. TypeOK'
  <2>1. cur' \in 0 .. PageUnits /\ prev' \in Offsets
    BY <1>2, <1>3, FreeNowType, PageUnitsAssumption DEF SearchOn, Offsets
  <2> QED
    BY <2>1 DEF IInv, TypeOK, SearchOn
<1>5. Apart' /\ Unused' /\ Returning' /\ FreeList' /\ UnitsExact'
  BY <1>1 DEF IInv, Apart, Unused, Returning, FreeList, UnitsExact, InUse, SearchOn
<1>6. Looking'
  BY <1>1, <1>2, <1>3 DEF Looking, SearchOn
<1> QED
  BY <1>4, <1>5, <1>6 DEF IInv

(* The walk ends without a block. *)
LEMMA NotFoundKept ==
    ASSUME IInv, NotFound
    PROVE  IInv'
<1>1. FreeNow' = FreeNow /\ pc = "search"
  BY DEF NotFound, FreeNow, FreeIn, Offsets
<1>2. arg \in Requests
  BY <1>1 DEF IInv, Looking
<1>3. TypeOK'
  BY <1>2 DEF IInv, TypeOK, NotFound, NULL, NoRequest
<1> QED
  BY <1>1, <1>3 DEF IInv, Apart, Unused, Returning, FreeList, UnitsExact, InUse,
                    Looking, NotFound

(* What Take writes, named as in the lemmas above. *)
LEMMA TakeFacts ==
    ASSUME IInv, Take,
           NEW z, z = SlobUnits(mem, cur), NEW x, x = SlobNext(mem, cur),
           NEW c, c = AlignUp(cur, arg.align), NEW n, n = arg.units
    PROVE  /\ IsFirstFit(FreeNow, c, n, arg.align)
           /\ arg \in Requests /\ n \in 1 .. PageUnits /\ Extent(c, n) \subseteq FreeNow
           /\ c + n <= PageUnits /\ c \in Offsets
           /\ live' = live \cup {[at |-> c, len |-> n]}
           /\ reply' = [req |-> arg, at |-> c]
           /\ mem' \in Words /\ freelist' \in 0 .. PageUnits
           /\ FreeNow \ Extent(c, n) # {} =>
                Encodes(mem', freelist', FreeNow \ Extent(c, n))
<1> DEFINE F == FreeNow
           p == IF Delta = 0 THEN prev ELSE cur
           q == Rest(cur, z, x, c, n)
           m1 == WithSplit(mem, cur, z, x, c)
           m2 == WithLink(m1, p, q)
           m3 == WithTail(m2, cur, z, x, c, n)
<1>1. pc = "search" /\ RoomEnough
  BY DEF Take
<1>2. /\ Encodes(mem, freelist, F) /\ mem \in Words
      /\ cur \in F /\ IsHead(F, cur) /\ Node(mem, F, cur)
      /\ arg \in Requests /\ n \in 1 .. PageUnits
      /\ Delta = c - cur /\ c \in Nat /\ cur <= c /\ c + n <= cur + z
      /\ IsFirstFit(F, c, n, arg.align) /\ c + n <= PageUnits /\ c \in Offsets
  BY <1>1, SearchFacts
<1>3. F \in SUBSET Offsets /\ cur \in Offsets /\ cur \in Int /\ freelist \in F
  BY <1>2, FreeNowType DEF Offsets, Encodes
<1>4. /\ z \in 1 .. PageUnits /\ x \in cur + z .. PageUnits /\ PageUnits \in Int
      /\ c < cur + z
  BY <1>2, <1>3, PageUnitsAssumption DEF Node, Describes
<1>5. Delta = 0 <=> cur = c
  BY <1>2, <1>3
<1>6. SplitHead = m1
  <2>1. cur + (c - cur) = c
    BY <1>2, <1>3
  <2> QED
    BY <1>2, <1>5, <2>1 DEF SplitHead, WithSplit
<1>7. m1 \in Words /\ SlobUnits(m1, c) = cur + z - c /\ SlobNext(m1, c) = x
  BY <1>2, <1>3, <1>4, SplitReads
<1>8. LinksTo(mem, freelist, F, cur, c, p)
  <2>1. \/ prev = NULL /\ cur = freelist
        \/ prev \in F /\ IsHead(F, prev) /\ SlobNext(mem, prev) = cur
    BY <1>1 DEF IInv, Looking, IsHead
  <2> QED
    BY <1>2, <1>3, <1>5, <2>1 DEF LinksTo
<1> HIDE DEF F, p, q, m1, m2, m3
<1>9. /\ m3 \in Words
      /\ F \ Extent(c, n) # {} =>
           Encodes(m3, FirstWritten(freelist, cur, z, x, c, n, p), F \ Extent(c, n))
  <2>1. m3 = Written(mem, cur, z, x, c, n, p)
    BY DEF Written, q, m1, m2, m3
  <2> QED
    BY <1>2, <1>3, <1>8, <2>1, TakeEncodes
<1>10. /\ cur + Delta = c
       /\ SlobUnits(m1, c) = n <=> c + n = cur + z
       /\ SlobUnits(m1, c) - n = cur + z - c - n
       /\ q = IF SlobUnits(m1, c) = n THEN x ELSE c + n
  BY <1>2, <1>3, <1>4, <1>7 DEF q, Rest
<1>11. /\ freelist' = FirstWritten(freelist, cur, z, x, c, n, p)
       /\ \E u \in UserWords : mem' = [i \in Offsets |-> IF i \in Extent(c, n) THEN u ELSE m3[i]]
       /\ live' = live \cup {[at |-> c, len |-> n]}
       /\ reply' = [req |-> arg, at |-> c]
  BY <1>6, <1>7, <1>10 DEF Take, m2, m3, p, q, FirstWritten, WithLink, WithTail
<1>12. mem' \in Words /\ \A i \in F \ Extent(c, n) : mem'[i] = m3[i]
  BY <1>3, <1>9, <1>11, UserWordsAssumption DEF Words
<1>13. freelist' \in 0 .. PageUnits
  BY <1>2, <1>3, <1>4, <1>11 DEF FirstWritten, Rest, Offsets
<1>14. ASSUME F \ Extent(c, n) # {} PROVE Encodes(mem', freelist', F \ Extent(c, n))
  <2>1. Encodes(m3, freelist', F \ Extent(c, n))
    BY <1>9, <1>11, <1>14
  <2> QED
    BY <1>3, <1>9, <1>12, <2>1, EncodesFrame
<1> QED
  BY <1>2, <1>11, <1>12, <1>13, <1>14 DEF F, IsFirstFit, Fits

(* A block is handed out. *)
LEMMA TakeKept ==
    ASSUME IInv, Take
    PROVE  IInv'
<1> DEFINE c == AlignUp(cur, arg.align)
           n == arg.units
<1>1. /\ arg \in Requests /\ n \in 1 .. PageUnits /\ Extent(c, n) \subseteq FreeNow
      /\ c + n <= PageUnits /\ c \in Offsets
      /\ live' = live \cup {[at |-> c, len |-> n]}
      /\ reply' = [req |-> arg, at |-> c]
      /\ mem' \in Words /\ freelist' \in 0 .. PageUnits
      /\ FreeNow \ Extent(c, n) # {} =>
           Encodes(mem', freelist', FreeNow \ Extent(c, n))
  BY TakeFacts
<1> HIDE DEF c, n
<1>2. FreeNow' = FreeNow \ Extent(c, n)
  <2> DEFINE b == [at |-> c, len |-> n]
  <2>1. live' = live \cup {b} /\ b.at = c /\ b.len = n
    BY <1>1
  <2> HIDE DEF b
  <2> QED
    BY <2>1, Taken
<1>3. /\ pc = "search" /\ pc' = "idle" /\ prev' = NULL /\ cur' = NULL
      /\ units' = units - n /\ (listed' <=> units' # 0) /\ listed' \in BOOLEAN
  BY DEF Take, Spend, n
<1>4. units' = Cardinality(FreeNow') /\ units' \in 0 .. PageUnits
  <2>1. units = Cardinality(FreeNow)
    BY <1>3, OffsetsCardinality, FreeNowType DEF IInv, UnitsExact, InUse
  <2>2. Cardinality(FreeNow \ Extent(c, n)) = Cardinality(FreeNow) - n
    BY <1>1, FreeNowType, CarveCardinality DEF Offsets
  <2>3. FreeNow' \in SUBSET Offsets
    BY <1>2, FreeNowType
  <2> QED
    BY <1>2, <1>3, <2>1, <2>2, <2>3, OffsetsCardinality
<1>5. TypeOK'
  BY <1>1, <1>3, <1>4 DEF IInv, TypeOK, Words, Blocks, NULL
<1>6. Apart'
  <2>1. \A b \in live : Extent(b.at, b.len) \cap Extent(c, n) = {}
    BY <1>1, FreeIsNotLive
  <2> QED
    BY <1>1, <2>1 DEF IInv, Apart
<1>7. Unused' /\ Looking' /\ Returning'
  BY <1>3 DEF Unused, Looking, Returning
<1>8. FreeList'
  BY <1>1, <1>2 DEF FreeList
<1>9. UnitsExact'
  BY <1>3, <1>4 DEF UnitsExact
<1> QED
  BY <1>5, <1>6, <1>7, <1>8, <1>9 DEF IInv

(* The last block of the page is given back. *)
LEMMA FreeWholeKept ==
    ASSUME IInv, NEW b \in live, FreeWhole(b)
    PROVE  IInv'
<1>1. /\ b.at \in Offsets /\ b.len \in 1 .. PageUnits
      /\ Extent(b.at, b.len) \cap FreeNow = {}
      /\ FreeNow' = FreeNow \cup Extent(b.at, b.len)
  BY Given DEF IInv, FreeWhole
<1>2. FreeNow' = Offsets
  <2>1. units = Cardinality(FreeNow)
    BY OffsetsCardinality, FreeNowType DEF IInv, UnitsExact, InUse, FreeWhole
  <2>2. Cardinality(FreeNow') = PageUnits
    BY <1>1, <2>1, GiveCardinality, FreeNowType DEF FreeWhole, Offsets
  <2>3. FreeNow' \in SUBSET Offsets
    BY DEF FreeNow, FreeIn, Offsets
  <2> QED
    BY <2>2, <2>3, OffsetsCardinality
<1>3. live' = {}
  <2>1. ASSUME NEW d \in live' PROVE FALSE
    <3>1. d \in live
      BY <2>1 DEF FreeWhole
    <3>2. d.at \in Offsets /\ d.at \in Extent(d.at, d.len)
      BY <3>1, PageUnitsAssumption DEF IInv, TypeOK, Blocks, Extent, Offsets
    <3>3. d.at \notin FreeNow'
      BY <2>1, <3>2 DEF FreeNow, FreeIn
    <3> QED
      BY <1>2, <3>2, <3>3
  <2> QED
    BY <2>1
<1>4. TypeOK'
  BY <1>3 DEF IInv, TypeOK, FreeWhole, NoReply, NULL
<1> QED
  BY <1>3, <1>4 DEF FreeWhole, IInv, Apart, Unused, FreeList, UnitsExact, InUse,
                    Looking, Returning

(* A block of a page that had no free unit is given back. *)
LEMMA FreeOnFullKept ==
    ASSUME IInv, NEW b \in live, FreeOnFull(b)
    PROVE  IInv'
<1> DEFINE a == b.at
           l == b.len
<1>1. /\ a \in Offsets /\ l \in 1 .. PageUnits /\ a + l <= PageUnits
      /\ FreeNow' = FreeNow \cup Extent(a, l)
  BY Given DEF IInv, FreeOnFull
<1> HIDE DEF a, l
<1>2. pc = "idle" /\ pc' = "idle" /\ live' = live \ {b} /\ units' = l /\ freelist' = a
      /\ listed' = TRUE /\ reply' = NoReply
  BY DEF FreeOnFull, a, l
<1>3. FreeNow = {}
  <2>1. units = Cardinality(FreeNow) /\ ~ (units > 0)
    BY <1>2, OffsetsCardinality, FreeNowType DEF IInv, UnitsExact, InUse, FreeOnFull
  <2> QED
    BY <2>1, OffsetsCardinality, FreeNowType
<1>4. FreeNow' = Extent(a, l)
  BY <1>1, <1>3
<1>5. /\ mem' \in Words /\ Sound(mem', a) /\ SlobUnits(mem', a) = l
      /\ SlobNext(mem', a) = PageUnits
  <2>1. mem' = SetSlob(mem, a, l, PageUnits)
    BY <1>1, PageArithmetic DEF FreeOnFull, a, l
  <2>2. mem \in Words /\ PageUnits \in 1 .. PageUnits
    BY PageUnitsAssumption DEF IInv, TypeOK, Words
  <2> QED
    BY <1>1, <2>1, <2>2, SetSlobReads
<1>6. Encodes(mem', a, Extent(a, l))
  <2>1. \A t \in Extent(a, l) : IsHead(Extent(a, l), t) => t = a
    BY <1>1 DEF IsHead, Extent, Offsets
  <2>2. Describes(Extent(a, l), a, l, PageUnits)
    BY <1>1, PageUnitsAssumption DEF Describes, Extent, Offsets
  <2>3. a \in Extent(a, l) /\ \A u \in Extent(a, l) : a <= u
    BY <1>1 DEF Extent, Offsets
  <2> QED
    BY <1>5, <2>1, <2>2, <2>3 DEF Encodes, Node
<1>7. TypeOK'
  BY <1>1, <1>2, <1>5, PageUnitsAssumption
     DEF IInv, TypeOK, FreeOnFull, Words, Offsets, NoReply, NULL
<1>8. Apart' /\ Unused' /\ Looking' /\ Returning'
  BY <1>2 DEF IInv, Apart, Unused, Looking, Returning
<1>9. FreeList'
  BY <1>2, <1>4, <1>6 DEF FreeList
<1>10. UnitsExact'
  <2>1. Cardinality(FreeNow') = l
    <3>1. a \in Int /\ l \in Nat
      BY <1>1 DEF Offsets
    <3> QED
      BY <1>4, <3>1, ExtentCardinality
  <2> QED
    BY <1>1, <1>2, <2>1 DEF UnitsExact
<1> QED
  BY <1>7, <1>8, <1>9, <1>10 DEF IInv

(* The parts that look alike in the two ways of returning a block to a list. *)
LEMMA GivenKept ==
    ASSUME IInv, NEW b \in live, live' = live \ {b}, reply' = NoReply, pc' = "idle",
           mem' \in Words, freelist' \in 0 .. PageUnits, listed, UNCHANGED listed,
           units' = Cardinality(FreeNow) + b.len,
           prev' \in Offsets \cup {NULL}, cur' \in 0 .. PageUnits \cup {NULL},
           Encodes(mem', freelist', FreeNow \cup Extent(b.at, b.len))
    PROVE  IInv'
<1>1. /\ b.at \in Offsets /\ b.len \in 1 .. PageUnits
      /\ Extent(b.at, b.len) \cap FreeNow = {}
      /\ FreeNow' = FreeNow \cup Extent(b.at, b.len)
  BY Given DEF IInv
<1>2. units' = Cardinality(FreeNow') /\ units' \in 0 .. PageUnits /\ units' > 0
  <2>1. Cardinality(FreeNow') = Cardinality(FreeNow) + b.len
    BY <1>1, GiveCardinality, FreeNowType DEF Offsets
  <2>2. FreeNow' \in SUBSET Offsets
    BY DEF FreeNow, FreeIn, Offsets
  <2>3. Cardinality(FreeNow) \in Nat
    BY FreeNowType, OffsetsCardinality
  <2> QED
    BY <1>1, <2>1, <2>2, <2>3, OffsetsCardinality
<1>3. TypeOK'
  BY <1>2 DEF IInv, TypeOK, Words, NoReply, NULL
<1>4. Apart' /\ Unused' /\ Looking' /\ Returning'
  BY DEF IInv, Apart, Unused, Looking, Returning
<1>5. FreeList'
  BY <1>1 DEF FreeList
<1>6. UnitsExact'
  <2>1. listed' /\ Cardinality(FreeNow') + 0 = Cardinality(FreeNow')
    BY <1>2
  <2> QED
    BY <1>2, <2>1 DEF UnitsExact
<1> QED
  BY <1>3, <1>4, <1>5, <1>6 DEF IInv

(* A block below the whole list is given back. *)
LEMMA FreeBeforeKept ==
    ASSUME IInv, NEW b \in live, FreeBefore(b)
    PROVE  IInv'
<1> DEFINE a == b.at
           l == b.len
           f == freelist
<1>1. /\ a \in Offsets /\ l \in 1 .. PageUnits /\ a + l <= PageUnits
      /\ Extent(a, l) \cap FreeNow = {}
  BY Given DEF IInv
<1>2. pc = "idle" /\ listed /\ a < f
  BY DEF FreeBefore
<1>3. Encodes(mem, f, FreeNow) /\ f \in FreeNow /\ mem \in Words
  BY <1>2, ListBegins DEF IInv, TypeOK, UnitsExact, InUse, Words
<1>4. Gap(FreeNow, a, l, f)
  <2>1. f \in 0 .. PageUnits /\ f >= a /\ \A u \in FreeNow : u >= a => f <= u
    BY <1>1, <1>2, <1>3 DEF IInv, TypeOK, Encodes, Offsets
  <2> QED
    BY <1>1, <1>3, <2>1, GapOf, FreeNowType
<1>5. mem' = WithNext(mem, FreeNow, a, l, f)
  BY <1>3 DEF FreeBefore, WithNext
<1>6. mem' \in Words /\ Encodes(mem', a, FreeNow \cup Extent(a, l))
  BY <1>1, <1>2, <1>3, <1>4, <1>5, GiveFirst, FreeNowType
<1>7. /\ live' = live \ {b} /\ reply' = NoReply /\ pc' = "idle" /\ freelist' = a
      /\ UNCHANGED <<listed, prev, cur>>
  BY DEF FreeBefore
<1>8. units' = Cardinality(FreeNow) + l
  BY <1>2, OffsetsCardinality, FreeNowType DEF IInv, UnitsExact, InUse, FreeBefore
<1>9. freelist' \in 0 .. PageUnits
  BY <1>1, <1>7, PageUnitsAssumption DEF Offsets
<1> QED
  BY <1>2, <1>6, <1>7, <1>8, <1>9, GivenKept DEF IInv, TypeOK

(* A block above the first of the list: the walk begins. *)
LEMMA FreeAfterKept ==
    ASSUME IInv, NEW b \in live, FreeAfter(b)
    PROVE  IInv'
<1>1. FreeNow' = FreeNow /\ pc = "idle" /\ listed
  BY DEF FreeAfter, FreeNow, FreeIn, Offsets
<1>2. /\ Encodes(mem, freelist, FreeNow) /\ freelist \in FreeNow
      /\ IsHead(FreeNow, freelist)
  BY <1>1, ListBegins DEF IInv, UnitsExact, InUse
<1>3. /\ b.at \in Offsets /\ b.len \in 1 .. PageUnits /\ b.at \notin FreeNow
      /\ Extent(b.at, b.len) \cap FreeNow = {} /\ b.at + b.len <= PageUnits
  BY Given DEF IInv
<1>4. freelist < b.at /\ freelist \in Offsets
  BY <1>2, <1>3, FreeNowType DEF FreeAfter, Offsets
<1>5. SlobNext(mem, freelist) \in 0 .. PageUnits
  BY <1>2, <1>4, PageUnitsAssumption DEF Encodes, Node, Describes, Offsets
<1>6. units' = Cardinality(FreeNow) + b.len /\ units' \in 0 .. PageUnits /\ units' > 0
  <2>1. units = Cardinality(FreeNow)
    BY <1>1, OffsetsCardinality, FreeNowType DEF IInv, UnitsExact, InUse
  <2>2. Cardinality(FreeNow \cup Extent(b.at, b.len)) = Cardinality(FreeNow) + b.len
    <3>1. b.at \in Int /\ b.len \in Nat
      BY <1>3 DEF Offsets
    <3> QED
      BY <1>3, <3>1, GiveCardinality, FreeNowType
  <2>3. FreeNow \cup Extent(b.at, b.len) \in SUBSET Offsets
    <3>1. Extent(b.at, b.len) \subseteq Offsets
      BY <1>3, PageUnitsAssumption DEF Extent, Offsets
    <3> QED
      BY <3>1, FreeNowType
  <2>4. Cardinality(FreeNow) \in Nat
    BY FreeNowType, OffsetsCardinality
  <2> QED
    BY <1>3, <2>1, <2>2, <2>3, <2>4, OffsetsCardinality DEF FreeAfter
<1>7. TypeOK'
  BY <1>4, <1>5, <1>6 DEF IInv, TypeOK, FreeAfter
<1>8. Apart' /\ Unused' /\ Looking' /\ FreeList'
  BY <1>1, <1>2 DEF IInv, Apart, Unused, Looking, FreeList, FreeAfter
<1>9. UnitsExact'
  BY <1>1, <1>6 DEF UnitsExact, FreeAfter
<1>10. Returning'
  BY <1>1, <1>2, <1>4 DEF Returning, FreeAfter
<1> QED
  BY <1>7, <1>8, <1>9, <1>10 DEF IInv

(* Where the walk of slob_free is. *)
LEMMA ReturnFacts ==
    ASSUME IInv, pc = "reinsert"
    PROVE  /\ arg \in live /\ mem \in Words /\ Encodes(mem, freelist, FreeNow)
           /\ prev \in FreeNow /\ IsHead(FreeNow, prev) /\ prev < arg.at
           /\ cur = SlobNext(mem, prev) /\ Node(mem, FreeNow, prev)
           /\ cur \in prev + 1 .. PageUnits /\ prev \in Offsets
           /\ SlobLast(mem, prev) <=> cur = PageUnits
           /\ cur # PageUnits => cur \in FreeNow /\ IsHead(FreeNow, cur)
           /\ units = Cardinality(FreeNow) + arg.len /\ listed
<1>1. /\ arg \in live /\ IsHead(FreeNow, prev) /\ prev \in FreeNow /\ prev < arg.at
      /\ cur = SlobNext(mem, prev)
  BY DEF IInv, Returning, IsHead
<1>2. Encodes(mem, freelist, FreeNow) /\ mem \in Words
  BY <1>1 DEF IInv, TypeOK, FreeList, InUse, Words
<1>3. Node(mem, FreeNow, prev) /\ prev \in Offsets
  BY <1>1, <1>2, FreeNowType DEF Encodes
<1>4. cur \in prev + 1 .. PageUnits /\ cur \in 1 .. PageUnits
  BY <1>1, <1>3, PageUnitsAssumption DEF Node, Describes, Offsets
<1>5. SlobLast(mem, prev) <=> cur = PageUnits
  BY <1>1, <1>4, PageArithmetic DEF SlobLast
<1>6. cur # PageUnits => cur \in FreeNow /\ IsHead(FreeNow, cur)
  <2>1. cur # PageUnits => IsHead(FreeNow, cur)
    BY <1>1, <1>3, NextIsHead, FreeNowType DEF Node
  <2> QED
    BY <2>1 DEF IsHead
<1>7. units = Cardinality(FreeNow) + arg.len /\ units > 0 /\ listed
  <2>1. Cardinality(FreeNow) \in Nat /\ arg.len \in 1 .. PageUnits
    BY <1>1, OffsetsCardinality, FreeNowType, Given DEF IInv
  <2> QED
    BY <2>1 DEF IInv, UnitsExact, InUse
<1> QED
  BY <1>1, <1>2, <1>3, <1>4, <1>5, <1>6, <1>7

(* The walk of slob_free goes on. *)
LEMMA ReinsertOnKept ==
    ASSUME IInv, ReinsertOn
    PROVE  IInv'
<1>1. FreeNow' = FreeNow /\ pc = "reinsert"
  BY DEF ReinsertOn, FreeNow, FreeIn, Offsets
<1>2. /\ arg \in live /\ Encodes(mem, freelist, FreeNow)
      /\ cur \in prev + 1 .. PageUnits /\ prev \in Offsets
      /\ cur # PageUnits => cur \in FreeNow /\ IsHead(FreeNow, cur)
  BY <1>1, ReturnFacts
<1>3. arg.at \in Offsets
  BY <1>2, Given DEF IInv
<1>4. cur \in FreeNow /\ IsHead(FreeNow, cur) /\ cur \in Offsets /\ cur < arg.at
  BY <1>2, <1>3, FreeNowType DEF ReinsertOn, Offsets
<1>5. SlobNext(mem, cur) \in 0 .. PageUnits
  BY <1>2, <1>4, PageUnitsAssumption DEF Encodes, Node, Describes, Offsets
<1>6. TypeOK'
  BY <1>4, <1>5 DEF IInv, TypeOK, ReinsertOn
<1>7. Apart' /\ Unused' /\ Looking' /\ FreeList' /\ UnitsExact'
  BY <1>1 DEF IInv, Apart, Unused, Looking, FreeList, UnitsExact, InUse, ReinsertOn
<1>8. Returning'
  BY <1>1, <1>2, <1>4 DEF Returning, ReinsertOn
<1> QED
  BY <1>6, <1>7, <1>8 DEF IInv

(* The walk of slob_free ends and the block is linked. *)
LEMMA ReinsertKept ==
    ASSUME IInv, Reinsert
    PROVE  IInv'
<1> DEFINE a == arg.at
           l == arg.len
<1>1. /\ arg \in live /\ mem \in Words /\ Encodes(mem, freelist, FreeNow)
      /\ prev \in FreeNow /\ IsHead(FreeNow, prev) /\ prev < a
      /\ cur = SlobNext(mem, prev) /\ Node(mem, FreeNow, prev)
      /\ cur \in prev + 1 .. PageUnits /\ prev \in Offsets
      /\ SlobLast(mem, prev) <=> cur = PageUnits
      /\ cur # PageUnits => cur \in FreeNow
      /\ units = Cardinality(FreeNow) + l /\ listed
  BY ReturnFacts DEF Reinsert
<1>2. /\ a \in Offsets /\ l \in 1 .. PageUnits /\ a + l <= PageUnits
      /\ Extent(a, l) \cap FreeNow = {} /\ a \notin FreeNow
  BY <1>1, Given DEF IInv
<1>3. cur >= a
  BY <1>1, <1>2 DEF Reinsert, Offsets
<1>4. Gap(FreeNow, a, l, cur)
  <2>1. Describes(FreeNow, prev, SlobUnits(mem, prev), cur)
    BY <1>1 DEF Node
  <2>2. prev + SlobUnits(mem, prev) <= a
    BY <1>1, <1>2, <2>1 DEF Describes, Extent, Offsets
  <2>3. \A u \in FreeNow : u >= a => cur <= u
    BY <1>1, <1>2, <2>1, <2>2, FreeNowType DEF Describes, Offsets
  <2>4. cur \in 0 .. PageUnits
    BY <1>1 DEF Offsets
  <2> QED
    BY <1>1, <1>2, <1>3, <2>3, <2>4, GapOf, FreeNowType
<1>5. mem' = WithPrev(WithNext(mem, FreeNow, a, l, cur), prev, a)
  <2>1. cur \in FreeNow <=> cur # PageUnits
    BY <1>1, FreeNowType, PageUnitsAssumption DEF Offsets
  <2>2. JoinNext = WithNext(mem, FreeNow, a, l, cur)
    BY <1>1, <2>1 DEF JoinNext, WithNext
  <2> QED
    BY <2>2 DEF Reinsert, JoinPrev, WithPrev
<1>6. mem' \in Words /\ Encodes(mem', freelist, FreeNow \cup Extent(a, l))
  BY <1>1, <1>2, <1>4, <1>5, GiveAfter, FreeNowType
<1>7. /\ live' = live \ {arg} /\ reply' = NoReply /\ pc' = "idle"
      /\ prev' = NULL /\ cur' = NULL /\ UNCHANGED <<freelist, units, listed>>
  BY DEF Reinsert
<1>8. freelist \in 0 .. PageUnits
  BY DEF IInv, TypeOK
<1> QED
  BY <1>1, <1>6, <1>7, <1>8, GivenKept

-----------------------------------------------------------------------------
(* Together: every step keeps the invariant. *)
LEMMA StepInv == IInv /\ [Next]_vars => IInv'
<1> SUFFICES ASSUME IInv, [Next]_vars PROVE IInv'
  OBVIOUS
<1>1. CASE UNCHANGED vars
  BY <1>1 DEF vars, IInv, TypeOK, Apart, Unused, FreeList, UnitsExact, InUse, Looking,
              Returning, FreeNow, FreeIn, Offsets, Blocks
<1>2. CASE \E q \in Requests : NewPage(q) \/ PageAlloc(q)
  BY <1>2, NewPageKept, PageAllocKept
<1>3. CASE Search
  BY <1>3, TakeKept, NotFoundKept, SearchOnKept DEF Search
<1>4. CASE \E b \in live : SlobFree(b)
  BY <1>4, FreeWholeKept, FreeOnFullKept, FreeBeforeKept, FreeAfterKept DEF SlobFree
<1>5. CASE ReinsertOn \/ Reinsert
  BY <1>5, ReinsertOnKept, ReinsertKept
<1> QED
  BY <1>1, <1>2, <1>3, <1>4, <1>5 DEF Next

(* The words of every page are well-formed whatever is asked of it and       *)
(* whatever the owners of blocks leave in them.                              *)
THEOREM PageInvariance == Spec => []IInv
BY InitInv, StepInv, PTL DEF Spec

(* The words, the counters and the cursors stay in their types: in particular *)
(* the cursors never leave the page but for its end.                          *)
THEOREM PageTypeCorrect == Spec => []TypeOK
<1>1. IInv => TypeOK
  BY DEF IInv
<1> QED
  BY <1>1, PageInvariance, PTL

(* sp->units counts the free units and the page is on a partial list exactly *)
(* when it has one, in the middle of a search or a free too.                 *)
THEOREM AlwaysUnitsExact == Spec => []UnitsExact
<1>1. IInv => UnitsExact
  BY DEF IInv
<1> QED
  BY <1>1, PageInvariance, PTL

(* The free list read from the page's words is the maximal runs of free      *)
(* units, in address order.                                                  *)
THEOREM AlwaysFreeListExact == Spec => []FreeListExact
<1>1. IInv => FreeListExact
  <2> DEFINE heads == RunStarts(FreeNow)
             First(s, H) == s \in H /\ \A h \in H : s <= h
  <2> SUFFICES ASSUME IInv, InUse, FreeNow # {}
               PROVE  /\ First(freelist, heads)
                      /\ \A s \in heads :
                           /\ Extent(s, SlobUnits(mem, s)) \subseteq FreeNow
                           /\ s + SlobUnits(mem, s) \notin FreeNow
                           /\ First(SlobNext(mem, s),
                                    {h \in heads : h > s} \cup {PageUnits})
    BY DEF FreeListExact
  <2>1. Encodes(mem, freelist, FreeNow)
    BY DEF IInv, FreeList
  <2>2. \A s : s \in heads <=> s \in FreeNow /\ IsHead(FreeNow, s)
    BY DEF RunStarts, IsHead
  <2>3. First(freelist, heads)
    BY <2>1, FreeNowType DEF Encodes, RunStarts, Offsets
  <2>4. ASSUME NEW s \in heads
        PROVE  /\ Extent(s, SlobUnits(mem, s)) \subseteq FreeNow
               /\ s + SlobUnits(mem, s) \notin FreeNow
               /\ First(SlobNext(mem, s), {h \in heads : h > s} \cup {PageUnits})
    <3> DEFINE z == SlobUnits(mem, s)
               x == SlobNext(mem, s)
    <3>1. /\ s \in FreeNow /\ IsHead(FreeNow, s) /\ s \in Offsets
          /\ Describes(FreeNow, s, z, x)
      BY <2>1, <2>2, <2>4, FreeNowType DEF Encodes, Node
    <3> HIDE DEF z, x, heads
    <3>2. s \in Int /\ z \in Int /\ z >= 1 /\ x \in s + z .. PageUnits
      BY <3>1 DEF Describes, Offsets
    <3>3. ASSUME NEW h \in heads, h > s PROVE x <= h
      BY <2>2, <3>1, <3>3, HeadsApart, FreeNowType
    <3>4. x # PageUnits => x \in heads /\ x > s
      BY <2>2, <3>1, <3>2, NextIsHead, FreeNowType DEF IsHead, Describes
    <3>5. First(x, {h \in heads : h > s} \cup {PageUnits})
      BY <3>2, <3>3, <3>4, PageUnitsAssumption
    <3> QED
      BY <3>1, <3>5 DEF Describes, z, x
  <2> QED
    BY <2>3, <2>4
<1> QED
  BY <1>1, PageInvariance, PTL

(* A page is a first-fit heap: every allocation that succeeds takes the      *)
(* lowest aligned place that holds the request, one is refused only when no  *)
(* place does, and a block given back is free as a whole; the walk, the      *)
(* split and the joins do not show.                                          *)
THEOREM PageRefinement == Spec => HeapSpec
<1>1. Init => Heap!Init
  BY DEF Init, Heap!Init, NoReply, Heap!NoReply, NULL, Heap!NoBlock, NoRequest
<1>2. Heap!FreeIn(live) = FreeNow
  BY DEF Heap!FreeIn, FreeNow, FreeIn, Offsets, Heap!Extent, Extent
<1>3. IInv /\ [Next]_vars => [Heap!Next]_(Heap!vars)
  <2> SUFFICES ASSUME IInv, [Next]_vars
               PROVE  Heap!Next \/ UNCHANGED <<live, reply>>
    BY DEF Heap!vars
  <2>1. CASE Take
    <3> DEFINE c == AlignUp(cur, arg.align)
    <3>1. /\ IsFirstFit(FreeNow, c, arg.units, arg.align) /\ arg \in Requests
          /\ live' = live \cup {[at |-> c, len |-> arg.units]}
          /\ reply' = [req |-> arg, at |-> c]
      BY <2>1, TakeFacts
    <3>2. c \in FreeNow
      BY <3>1 DEF IsFirstFit
    <3> HIDE DEF c
    <3>3. Heap!Alloc(arg)
      BY <1>2, <3>1, <3>2 DEF Heap!Alloc, Heap!Carve, Heap!IsFirstFit, IsFirstFit,
                              Heap!Fits, Fits, Heap!Extent, Extent
    <3> QED
      BY <3>1, <3>3 DEF Heap!Next
  <2>2. CASE NotFound
    <3> DEFINE x == SlobNext(mem, cur)
    <3>1. pc = "search" /\ ~ RoomEnough /\ SlobLast(mem, cur)
      BY <2>2 DEF NotFound
    <3>2. /\ x = PageUnits /\ arg \in Requests
          /\ \A r \in FreeNow : r < x => ~ Fits(FreeNow, r, arg.units, arg.align)
      BY <3>1, SearchFacts
    <3>3. \A r \in FreeNow : ~ Fits(FreeNow, r, arg.units, arg.align)
      BY <3>2, FreeNowType, PageUnitsAssumption DEF Offsets
    <3>4. Heap!Refuse(arg)
      BY <1>2, <2>2, <3>3 DEF NotFound, Heap!Refuse, Heap!NoRoom, Heap!NoFit,
                              Heap!Fits, Fits, Heap!Extent, Extent, NULL, Heap!NoBlock
    <3> QED
      BY <3>2, <3>4 DEF Heap!Next
  <2>3. CASE \E b \in live : FreeWhole(b) \/ FreeOnFull(b) \/ FreeBefore(b)
    <3>1. PICK b \in live : live' = live \ {b} /\ reply' = NoReply
      BY <2>3 DEF FreeWhole, FreeOnFull, FreeBefore
    <3> QED
      BY <3>1 DEF Heap!Next, Heap!Free, Heap!GiveBack, NoReply, Heap!NoReply, NULL,
                  Heap!NoBlock, NoRequest
  <2>4. CASE Reinsert
    <3>1. arg \in live /\ live' = live \ {arg} /\ reply' = NoReply
      BY <2>4 DEF IInv, Returning, Reinsert
    <3> QED
      BY <3>1 DEF Heap!Next, Heap!Free, Heap!GiveBack, NoReply, Heap!NoReply, NULL,
                  Heap!NoBlock, NoRequest
  <2>5. CASE \/ \E q \in Requests : NewPage(q) \/ PageAlloc(q)
             \/ SearchOn \/ ReinsertOn \/ \E b \in live : FreeAfter(b)
    BY <2>5 DEF NewPage, PageAlloc, SearchOn, ReinsertOn, FreeAfter
  <2>6. CASE UNCHANGED vars
    BY <2>6 DEF vars
  <2> QED
    BY <2>1, <2>2, <2>3, <2>4, <2>5, <2>6 DEF Next, Search, SlobFree
<1> QED
  BY <1>1, <1>3, PageInvariance, PTL DEF Spec, HeapSpec, Heap!Spec
=============================================================================
