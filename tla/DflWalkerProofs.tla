-------------------------- MODULE DflWalkerProofs --------------------------
(***************************************************************************)
(* For every tree of feature lists, of any size and nesting, and every     *)
(* step of the stack: the table matches the lists, a walk leaves its       *)
(* arrays only on lists that nest too deep, and a cleanup leaves nothing   *)
(* allocated.                                                              *)
(*                                                                         *)
(* The heart of it is Walk: what the headers met so far and the frames of  *)
(* the recursion have to do with each other and with the tree.  Both       *)
(* passes keep it, so that both meet every header, once.                   *)
(***************************************************************************)
EXTENDS DflWalker, FiniteSetTheorems, SequenceTheorems, TLAPS

FrameType == [dfh : Dfh, block : Nat]

InfoType == [dfh : Dfh \cup {0}, parent : Int, data : Nat, parameters : Nat,
             mmio : BOOLEAN, interrupt : BOOLEAN]

-----------------------------------------------------------------------------
(* Lists. *)

LEMMA ListFacts ==
  ASSUME NEW l \in Lists
  PROVE  /\ 0 \notin Dfh /\ 1 \in Dfh
         /\ \A d \in Dfh :
              /\ l[d].next \in Dfh \cup {0}
              /\ l[d].blocks \in Seq(Dfh \cup {0})
              /\ Len(l[d].blocks) \in Nat
              /\ DOMAIN l[d].blocks = 1..Len(l[d].blocks)
              /\ \A i \in 1..Len(l[d].blocks) : l[d].blocks[i] \in Dfh \cup {0}
              /\ l[d].null \in BOOLEAN
<1>1. l \in [Dfh -> [next : Dfh \cup {0}, blocks : Seq(Dfh \cup {0}), null : BOOLEAN]]
  BY DflAssumption
<1>2. 0 \notin Dfh /\ 1 \in Dfh
  <2>1. Cardinality(Dfh) \in Nat
    BY DflAssumption, FS_CardinalityType
  <2>2. 0 \notin 1..Cardinality(Dfh)
    BY <2>1
  <2> QED BY <2>2, DflAssumption
<1>3. ASSUME NEW d \in Dfh
      PROVE  /\ l[d].next \in Dfh \cup {0}
             /\ l[d].blocks \in Seq(Dfh \cup {0})
             /\ Len(l[d].blocks) \in Nat
             /\ DOMAIN l[d].blocks = 1..Len(l[d].blocks)
             /\ \A i \in 1..Len(l[d].blocks) : l[d].blocks[i] \in Dfh \cup {0}
             /\ l[d].null \in BOOLEAN
  <2>1. l[d] \in [next : Dfh \cup {0}, blocks : Seq(Dfh \cup {0}), null : BOOLEAN]
    BY <1>1
  <2>2. PICK s : s = l[d].blocks
    OBVIOUS
  <2>3. s \in Seq(Dfh \cup {0})
    BY <2>1, <2>2
  <2>4. Len(s) \in Nat /\ DOMAIN s = 1..Len(s)
    BY <2>3, LenProperties
  <2>5. \A i \in 1..Len(s) : s[i] \in Dfh \cup {0}
    BY <2>3, ElementOfSeq
  <2> QED BY <2>1, <2>2, <2>3, <2>4, <2>5
<1> QED BY <1>2, <1>3

\* What a tree is, link by link.
LEMMA LinkFacts ==
  ASSUME NEW l \in Lists
  PROVE  /\ \A d \in Dfh : /\ 0 \in LinksOf(l, d) /\ LinksOf(l, d) \subseteq Nat
                           /\ 1..Len(l[d].blocks) \subseteq LinksOf(l, d)
                           /\ Link(l, d, 0) = l[d].next
                           /\ \A i \in 1..Len(l[d].blocks) : Link(l, d, i) = l[d].blocks[i]
         /\ \A d \in Dfh : \A i \in LinksOf(l, d) : Link(l, d, i) \in Dfh \cup {0} /\ Link(l, d, i) # 1
         /\ \A p, q \in Dfh : \A i \in LinksOf(l, p), j \in LinksOf(l, q) :
              Link(l, p, i) = Link(l, q, j) /\ Link(l, p, i) # 0 => p = q /\ i = j
<1> USE ListFacts
<1>1. \A d \in Dfh : /\ 0 \in LinksOf(l, d) /\ LinksOf(l, d) \subseteq Nat
                     /\ 1..Len(l[d].blocks) \subseteq LinksOf(l, d)
                     /\ Link(l, d, 0) = l[d].next
                     /\ \A i \in 1..Len(l[d].blocks) : Link(l, d, i) = l[d].blocks[i]
  BY DEF LinksOf, Link
<1>2. \A d \in Dfh : \A i \in LinksOf(l, d) : Link(l, d, i) \in Dfh \cup {0}
  <2> SUFFICES ASSUME NEW d \in Dfh, NEW i \in LinksOf(l, d) PROVE Link(l, d, i) \in Dfh \cup {0}
    OBVIOUS
  <2>1. i = 0 \/ i \in 1..Len(l[d].blocks)
    BY DEF LinksOf
  <2> QED BY <2>1, <1>1
<1>3. IsTree(l)
  BY DflAssumption
<1> QED BY <1>1, <1>2, <1>3 DEF IsTree

\* Only the whole tree holds the first header and every link of its own headers.
LEMMA WholeTree ==
  ASSUME NEW l \in Lists, NEW S \in SUBSET Dfh, 1 \in S,
         \A p \in S : \A i \in LinksOf(l, p) : Link(l, p, i) \in S \cup {0}
  PROVE  S = Dfh
<1>1. IsTree(l)
  BY DflAssumption
<1> QED BY <1>1 DEF IsTree

\* A branch is one of the links.
LEMMA BranchFacts ==
  ASSUME NEW l \in Lists, NEW o \in Dfh, NEW b \in Branches(l, o)
  PROVE  b \in Dfh /\ \E i \in 1..Len(l[o].blocks) : Link(l, o, i) = b
<1>1. b # 0 /\ \E i \in DOMAIN l[o].blocks : b = l[o].blocks[i]
  BY DEF Branches, ToSet
<1> QED BY <1>1, ListFacts, LinkFacts

LEMMA RootHasNoOwner ==
  ASSUME NEW l \in Lists
  PROVE  \A o \in Dfh : ~Owns(l, o, 1)
<1> SUFFICES ASSUME NEW o \in Dfh, NEW b \in Branches(l, o), InList(l, b, 1) PROVE FALSE
  BY DEF Owns
<1>1. b \in Dfh \ {1}
  BY BranchFacts, LinkFacts
<1>2. \A x \in Dfh \ {1} : l[x].next \in (Dfh \ {1}) \cup {0}
  BY LinkFacts
<1>3. Dfh \ {1} \in SUBSET Dfh
  OBVIOUS
<1>4. 1 \in Dfh \ {1}
  BY <1>1, <1>2, <1>3 DEF InList
<1> QED BY <1>4

LEMMA BranchOwner ==
  ASSUME NEW l \in Lists, NEW d \in Dfh, NEW k \in 1..Len(l[d].blocks), Link(l, d, k) # 0
  PROVE  \A o \in Dfh : Owns(l, o, Link(l, d, k)) <=> o = d
<1>1. PICK t : t = Link(l, d, k)
  OBVIOUS
<1>2. t \in Dfh /\ t # 0 /\ k # 0 /\ k \in LinksOf(l, d)
  BY <1>1, LinkFacts
<1>3. Owns(l, d, t)
  <2>1. t \in Branches(l, d)
    BY <1>1, <1>2, LinkFacts, ListFacts DEF Branches, ToSet
  <2>2. InList(l, t, t)
    BY DEF InList
  <2> QED BY <2>1, <2>2 DEF Owns
<1>4. ASSUME NEW o \in Dfh, Owns(l, o, t) PROVE o = d
  <2>1. PICK b \in Branches(l, o) : InList(l, b, t)
    BY <1>4 DEF Owns
  <2>2. PICK i \in 1..Len(l[o].blocks) : Link(l, o, i) = b
    BY BranchFacts
  <2>3. i \in LinksOf(l, o)
    BY LinkFacts
  <2>4. CASE b = t
    BY <2>4, <2>2, <2>3, <1>1, <1>2, LinkFacts
  <2>5. CASE b # t
    <3>1. b \in Dfh \ {t}
      BY <2>5, BranchFacts
    <3>2. ASSUME NEW x \in Dfh \ {t} PROVE l[x].next \in (Dfh \ {t}) \cup {0}
      <4>1. 0 \in LinksOf(l, x) /\ Link(l, x, 0) = l[x].next /\ Link(l, x, 0) \in Dfh \cup {0}
        BY LinkFacts
      <4>2. Link(l, x, 0) # t
        BY <4>1, <1>1, <1>2, LinkFacts
      <4> QED BY <4>1, <4>2
    <3>3. t \in Dfh \ {t}
      <4>1. Dfh \ {t} \in SUBSET Dfh
        OBVIOUS
      <4> QED BY <4>1, <3>1, <3>2, <2>1 DEF InList
    <3> QED BY <3>3
  <2> QED BY <2>4, <2>5
<1> QED BY <1>1, <1>3, <1>4

LEMMA NextOwner ==
  ASSUME NEW l \in Lists, NEW d \in Dfh, Link(l, d, 0) # 0
  PROVE  \A o \in Dfh : Owns(l, o, Link(l, d, 0)) <=> Owns(l, o, d)
<1>1. PICK t : t = Link(l, d, 0)
  OBVIOUS
<1>2. t \in Dfh /\ t # 0 /\ 0 \in LinksOf(l, d) /\ l[d].next = t
  BY <1>1, LinkFacts
<1>3. ASSUME NEW o \in Dfh, Owns(l, o, d) PROVE Owns(l, o, t)
  <2>1. PICK b \in Branches(l, o) : InList(l, b, d)
    BY <1>3 DEF Owns
  <2>2. ASSUME NEW S \in SUBSET Dfh, b \in S, \A x \in S : l[x].next \in S \cup {0}
        PROVE  t \in S
    <3>1. d \in S
      BY <2>1, <2>2 DEF InList
    <3> QED BY <3>1, <2>2, <1>2
  <2>3. InList(l, b, t)
    BY <2>2 DEF InList
  <2> QED BY <2>3 DEF Owns
<1>4. ASSUME NEW o \in Dfh, Owns(l, o, t) PROVE Owns(l, o, d)
  <2>1. PICK b \in Branches(l, o) : InList(l, b, t)
    BY <1>4 DEF Owns
  <2>2. PICK i \in 1..Len(l[o].blocks) : Link(l, o, i) = b
    BY BranchFacts
  <2>3. i \in LinksOf(l, o) /\ i # 0
    BY LinkFacts
  <2>4. b # t /\ b \in Dfh
    BY <2>2, <2>3, <1>1, <1>2, LinkFacts, BranchFacts
  <2>5. ASSUME NEW S \in SUBSET Dfh, b \in S, \A x \in S : l[x].next \in S \cup {0},
               d \notin S
        PROVE  FALSE
    <3>1. ASSUME NEW x \in S \ {t} PROVE l[x].next \in (S \ {t}) \cup {0}
      <4>1. 0 \in LinksOf(l, x) /\ Link(l, x, 0) = l[x].next /\ x # d /\ x \in Dfh
        BY <2>5, LinkFacts
      <4>2. Link(l, x, 0) # t
        BY <4>1, <1>1, <1>2, LinkFacts
      <4> QED BY <4>1, <4>2, <2>5
    <3>2. b \in S \ {t} /\ S \ {t} \in SUBSET Dfh
      BY <2>4, <2>5
    <3>3. t \in S \ {t}
      BY <3>1, <3>2, <2>1 DEF InList
    <3> QED BY <3>3
  <2>6. InList(l, b, d)
    BY <2>5 DEF InList
  <2> QED BY <2>6 DEF Owns
<1> QED BY <1>1, <1>3, <1>4

LEMMA BelowSelf == \A l, d : Below(l, d, d)
BY DEF Below

LEMMA BelowOwned ==
  ASSUME NEW l \in Lists, NEW o \in Dfh, NEW f \in Dfh, NEW d, Owns(l, o, f), Below(l, d, f)
  PROVE  Below(l, d, o)
<1> SUFFICES ASSUME NEW S \in SUBSET Dfh, Branches(l, o) \subseteq S,
                    \A x \in S : Branches(l, x) \cup {l[x].next} \subseteq S \cup {0}
             PROVE  d \in S
  BY DEF Below
<1>1. PICK b \in Branches(l, o) : InList(l, b, f)
  BY DEF Owns
<1>2. f \in S
  BY <1>1 DEF InList
<1>3. Branches(l, f) \subseteq S
  BY <1>2 DEF Branches
<1> QED BY <1>2, <1>3 DEF Below

-----------------------------------------------------------------------------
(* The walk: V holds the headers met so far, c the frames of the recursion. *)

\* Link i of the header of frame f is still to be followed.
Pending(f, i) == i = 0 \/ i >= f.block

\* A frame at block 0 is a header not yet met; only the last one may be.  The
\* others have branched, and wait behind the branch.
Frames(l, V, c) ==
  /\ c \in Seq(FrameType)
  /\ \A k \in 1..Len(c) :
       /\ c[k].block <= Len(l[c[k].dfh].blocks) + 1
       /\ c[k].block = 0 <=> c[k].dfh \notin V
       /\ k < Len(c) => c[k].block >= 2 /\ Link(l, c[k].dfh, c[k].block - 1) # 0
  /\ \A j, k \in 1..Len(c) : c[j].dfh = c[k].dfh => j = k

\* What is ahead of a frame has not been met.
Ahead(l, V, c) ==
  \A k \in 1..Len(c) : c[k].block > 0 =>
    \A i \in LinksOf(l, c[k].dfh) : Pending(c[k], i) =>
      /\ Link(l, c[k].dfh, i) \notin V
      /\ \A j \in 1..Len(c) : Link(l, c[k].dfh, i) # c[j].dfh

\* A header is met after the one that leads to it, and nothing behind a frame is
\* left out.
Entered(l, V, c) ==
  \A k \in 1..Len(c) :
    c[k].dfh = 1 \/ \E p \in V : \E i \in LinksOf(l, p) : Link(l, p, i) = c[k].dfh

Back(l, V) == \A p \in Dfh : \A i \in LinksOf(l, p) : Link(l, p, i) \in V => p \in V

Forward(l, V, c) ==
  \A v \in V : \A i \in LinksOf(l, v) :
    \/ Link(l, v, i) \in V \cup {0}
    \/ \E k \in 1..Len(c) : \/ c[k].dfh = Link(l, v, i)
                            \/ c[k].dfh = v /\ Pending(c[k], i)

Root(l, V, c) == 1 \in V \/ \E k \in 1..Len(c) : c[k].dfh = 1

\* The frame under another is the one whose branch leads to its list.
Owners(l, c) ==
  \A k \in 1..Len(c) : \A o \in Dfh :
    Owns(l, o, c[k].dfh) <=> k > 1 /\ o = c[k - 1].dfh

Walk(l, V, c) ==
  /\ V \subseteq Dfh
  /\ Frames(l, V, c) /\ Ahead(l, V, c) /\ Entered(l, V, c) /\ Back(l, V) /\ Forward(l, V, c)
  /\ Root(l, V, c) /\ Owners(l, c)

LEMMA WalkStarts ==
  ASSUME NEW l \in Lists
  PROVE  Walk(l, {}, <<Enter(1)>>)
<1>1. PICK f : f = Enter(1)
  OBVIOUS
<1>2. f.dfh = 1 /\ f.block = 0 /\ f \in FrameType
  BY <1>1, ListFacts DEF Enter, FrameType
<1>3. PICK c : c = <<f>>
  OBVIOUS
<1>4. c \in Seq(FrameType) /\ Len(c) = 1 /\ c[1] = f
  BY <1>2, <1>3
<1>5. Len(l[1].blocks) \in Nat
  BY ListFacts
<1>6. Frames(l, {}, c)
  BY <1>2, <1>4, <1>5 DEF Frames
<1>7. Ahead(l, {}, c) /\ Entered(l, {}, c) /\ Back(l, {}) /\ Forward(l, {}, c) /\ Root(l, {}, c)
  BY <1>2, <1>4 DEF Ahead, Entered, Back, Forward, Root
<1>8. Owners(l, c)
  BY <1>2, <1>4, RootHasNoOwner DEF Owners
<1> QED BY <1>1, <1>3, <1>6, <1>7, <1>8 DEF Walk

\* What every step needs of a walk.
LEMMA WalkFrame ==
  ASSUME NEW l \in Lists, NEW V, NEW c, Walk(l, V, c), c # <<>>
  PROVE  /\ Len(c) \in Nat /\ Len(c) >= 1 /\ c \in Seq(FrameType)
         /\ DOMAIN c = 1..Len(c)
         /\ \A k \in 1..Len(c) : /\ c[k].dfh \in Dfh /\ c[k].block \in Nat
                                 /\ c[k] \in FrameType
                                 /\ c[k] = [dfh |-> c[k].dfh, block |-> c[k].block]
<1>1. c \in Seq(FrameType)
  BY DEF Walk, Frames
<1>2. Len(c) \in Nat /\ Len(c) >= 1 /\ DOMAIN c = 1..Len(c)
  BY <1>1, EmptySeq, LenProperties
<1>3. \A k \in 1..Len(c) : c[k] \in FrameType
  BY <1>1, ElementOfSeq
<1> QED BY <1>1, <1>2, <1>3 DEF FrameType

\* The header of the last frame is met.
LEMMA WalkVisits ==
  ASSUME NEW l \in Lists, NEW V, NEW c, Walk(l, V, c), c # <<>>,
         NEW d, c[Len(c)] = [dfh |-> d, block |-> 0],
         NEW e \in Seq(FrameType), Len(e) = Len(c),
         \A k \in 1..Len(e) : e[k] = IF k = Len(c) THEN [dfh |-> d, block |-> 1] ELSE c[k],
         NEW W, W = V \cup {d}
  PROVE  d \in Dfh /\ d \notin V /\ Walk(l, W, e)
<1>1. PICK n : n = Len(c)
  OBVIOUS
<1>2. W = V \cup {d} /\ d = c[n].dfh /\ c[n].block = 0
  BY <1>1
<1>3. /\ n \in Nat /\ n >= 1 /\ c \in Seq(FrameType)
      /\ \A k \in 1..n : c[k].dfh \in Dfh /\ c[k].block \in Nat
  BY <1>1, WalkFrame
<1>4. d \in Dfh /\ d \notin V /\ W \subseteq Dfh
  BY <1>1, <1>2, <1>3 DEF Walk, Frames
<1>5. /\ e \in Seq(FrameType) /\ Len(e) = n
      /\ \A k \in 1..n : e[k] = IF k = n THEN [dfh |-> d, block |-> 1] ELSE c[k]
  BY <1>1
<1>6. /\ e[n].dfh = d /\ e[n].block = 1
      /\ \A k \in 1..n : e[k].dfh = c[k].dfh /\ (k # n => e[k].block = c[k].block)
  BY <1>5, <1>1, <1>3
<1>7. Frames(l, W, e)
  <2>1. Len(l[d].blocks) \in Nat
    BY <1>4, ListFacts
  <2> QED BY <2>1, <1>1, <1>2, <1>3, <1>5, <1>6 DEF Walk, Frames
<1>8. d = 1 \/ \E p \in V : \E i \in LinksOf(l, p) : Link(l, p, i) = d
  BY <1>1, <1>3 DEF Walk, Entered
<1>9. Back(l, W)
  <2> SUFFICES ASSUME NEW p \in Dfh, NEW i \in LinksOf(l, p), Link(l, p, i) \in W PROVE p \in W
    BY DEF Back
  <2>1. CASE Link(l, p, i) \in V
    BY <2>1, <1>2 DEF Walk, Back
  <2>2. CASE Link(l, p, i) = d
    BY <2>2, <1>2, <1>4, <1>8, LinkFacts, ListFacts DEF Walk
  <2> QED BY <2>1, <2>2, <1>2
<1>10. \A i \in LinksOf(l, d) : Link(l, d, i) \notin W
  <2> SUFFICES ASSUME NEW i \in LinksOf(l, d), Link(l, d, i) \in W PROVE FALSE
    OBVIOUS
  <2>1. Link(l, d, i) \notin V
    BY <1>4 DEF Walk, Back
  <2>2. Link(l, d, i) = d
    BY <2>1, <1>2
  <2> QED BY <2>2, <1>4, <1>8, LinkFacts, ListFacts DEF Walk
<1>11. Ahead(l, W, e)
  <2> SUFFICES ASSUME NEW k \in 1..Len(e), e[k].block > 0,
                      NEW i \in LinksOf(l, e[k].dfh), Pending(e[k], i)
               PROVE  /\ Link(l, e[k].dfh, i) \notin W
                      /\ \A j \in 1..Len(e) : Link(l, e[k].dfh, i) # e[j].dfh
    BY DEF Ahead
  <2> k \in 1..n /\ Len(e) = n
    BY <1>5
  <2>1. CASE k = n
    <3>1. Link(l, d, i) \notin W
      BY <2>1, <1>6, <1>10
    <3>2. \A j \in 1..n : e[j].dfh \in W
      BY <1>1, <1>2, <1>3, <1>6 DEF Walk, Frames
    <3> QED BY <3>1, <3>2, <2>1, <1>6
  <2>2. CASE k # n
    <3>1. Pending(c[k], i) /\ c[k].block > 0 /\ c[k].dfh = e[k].dfh
      BY <2>2, <1>6 DEF Pending
    <3>2. Link(l, c[k].dfh, i) \notin V /\ \A j \in 1..n : Link(l, c[k].dfh, i) # c[j].dfh
      BY <3>1, <1>1 DEF Walk, Ahead
    <3> QED BY <3>1, <3>2, <1>1, <1>2, <1>3, <1>6
  <2> QED BY <2>1, <2>2
<1>12. Entered(l, W, e)
  BY <1>1, <1>2, <1>5, <1>6 DEF Walk, Entered
<1>13. Forward(l, W, e)
  <2> SUFFICES ASSUME NEW v \in W, NEW i \in LinksOf(l, v), Link(l, v, i) \notin W \cup {0}
               PROVE  \E k \in 1..n : \/ e[k].dfh = Link(l, v, i)
                                      \/ e[k].dfh = v /\ Pending(e[k], i)
    BY <1>5 DEF Forward
  <2>1. CASE v \in V
    <3>1. PICK k \in 1..n : c[k].dfh = Link(l, v, i) \/ (c[k].dfh = v /\ Pending(c[k], i))
      BY <2>1, <1>1, <1>2 DEF Walk, Forward
    <3>2. CASE c[k].dfh = Link(l, v, i)
      BY <3>2, <1>6
    <3>3. CASE c[k].dfh = v /\ Pending(c[k], i)
      <4>1. k # n
        BY <3>3, <2>1, <1>1, <1>4
      <4> QED BY <4>1, <3>3, <1>6 DEF Pending
    <3> QED BY <3>1, <3>2, <3>3
  <2>2. CASE v = d
    <3>1. i = 0 \/ i >= 1
      BY <2>2, <1>4, LinkFacts
    <3>2. e[n].dfh = v /\ Pending(e[n], i)
      BY <3>1, <2>2, <1>6 DEF Pending
    <3> QED BY <3>2, <1>3
  <2> QED BY <2>1, <2>2, <1>2
<1>14. Root(l, W, e) /\ Owners(l, e)
  <2>1. Root(l, W, e)
    BY <1>1, <1>2, <1>5, <1>6 DEF Walk, Root
  <2>2. \A k \in 1..n : k > 1 => k - 1 \in 1..n
    BY <1>3
  <2>3. Owners(l, e)
    BY <2>2, <1>1, <1>5, <1>6 DEF Walk, Owners
  <2> QED BY <2>1, <2>3
<1> QED BY <1>2, <1>4, <1>7, <1>9, <1>11, <1>12, <1>13, <1>14 DEF Walk

\* The last frame, with its header met, branches to the list that starts at t.
LEMMA WalkBranches ==
  ASSUME NEW l \in Lists, NEW V, NEW c, Walk(l, V, c), c # <<>>,
         NEW d, d = c[Len(c)].dfh,
         NEW b, b = c[Len(c)].block, b \in 1..Len(l[d].blocks),
         NEW t, t = l[d].blocks[b], t # 0,
         NEW e \in Seq(FrameType), Len(e) = Len(c) + 1,
         \A k \in 1..Len(e) :
           e[k] = IF k > Len(c) THEN [dfh |-> t, block |-> 0]
                  ELSE IF k = Len(c) THEN [dfh |-> d, block |-> b + 1] ELSE c[k]
  PROVE  Walk(l, V, e)
<1>1. PICK n : n = Len(c)
  OBVIOUS
<1>2. /\ n \in Nat /\ n >= 1 /\ c \in Seq(FrameType)
      /\ \A k \in 1..n : c[k].dfh \in Dfh /\ c[k].block \in Nat
  BY <1>1, WalkFrame
<1>3. /\ d \in Dfh /\ d \in V /\ V \subseteq Dfh /\ Len(l[d].blocks) \in Nat
      /\ b \in Nat /\ b >= 1 /\ b \in LinksOf(l, d) /\ Link(l, d, b) = t /\ t \in Dfh
      /\ n \in 1..n /\ c[n].dfh = d /\ c[n].block = b
  BY <1>1, <1>2, ListFacts, LinkFacts DEF Walk, Frames
<1>0. PICK m : m = n + 1
  OBVIOUS
<1>10. /\ m \in Nat /\ m > n /\ m \in 1..m /\ n \in 1..m /\ m \notin 1..n
       /\ \A k \in 1..n : k \in 1..m
       /\ \A k \in 1..m : k \in 1..n \/ k = m
       /\ m - 1 = n
  BY <1>0, <1>2
<1>9. /\ Len(e) = m
      /\ e[m].dfh = t /\ e[m].block = 0
      /\ e[n].dfh = d /\ e[n].block = b + 1
      /\ \A k \in 1..n : e[k].dfh = c[k].dfh /\ (k # n => e[k].block = c[k].block)
  <2>1. Len(e) = m
    BY <1>0, <1>1
  <2>2. e[m] = [dfh |-> t, block |-> 0] /\ e[n] = [dfh |-> d, block |-> b + 1]
    BY <2>1, <1>1, <1>10
  <2>3. \A k \in 1..n : k # n => e[k] = c[k]
    BY <2>1, <1>1, <1>2, <1>10
  <2> QED BY <2>1, <2>2, <2>3, <1>3
<1>11. t \notin V /\ \A j \in 1..n : t # c[j].dfh
  <2>1. Pending(c[n], b)
    BY <1>1, <1>3 DEF Pending
  <2>2. /\ Link(l, c[n].dfh, b) \notin V
        /\ \A j \in 1..n : Link(l, c[n].dfh, b) # c[j].dfh
    <3>1. b \in LinksOf(l, c[n].dfh) /\ c[n].block > 0
      BY <1>3
    <3> QED BY <3>1, <2>1, <1>1, <1>3 DEF Walk, Ahead
  <2> QED BY <2>2, <1>3
<1>12. Frames(l, V, e)
  <2>1. ASSUME NEW k \in 1..m
        PROVE  /\ e[k].block <= Len(l[e[k].dfh].blocks) + 1
               /\ e[k].block = 0 <=> e[k].dfh \notin V
               /\ k < m => e[k].block >= 2 /\ Link(l, e[k].dfh, e[k].block - 1) # 0
    <3>1. CASE k = m
      <4>1. Len(l[t].blocks) \in Nat
        BY <1>3, ListFacts
      <4>2. e[k].block = 0 /\ e[k].dfh = t /\ ~(k < m)
        BY <3>1, <1>9, <1>10
      <4>3. e[k].block <= Len(l[e[k].dfh].blocks) + 1
        <5>1. \A z \in Nat : 0 <= z + 1
          OBVIOUS
        <5>2. 0 <= Len(l[t].blocks) + 1
          BY <5>1, <4>1, Zenon
        <5> QED BY <5>2, <4>2, Zenon
      <4>4. e[k].block = 0 <=> e[k].dfh \notin V
        BY <4>2, <1>11
      <4> QED BY <4>2, <4>3, <4>4
    <3>2. CASE k = n
      <4>1. (b + 1) - 1 = b
        BY <1>3
      <4> QED BY <4>1, <3>2, <1>3, <1>9, <1>2
    <3>3. CASE k \in 1..n /\ k # n
      <4>1. k < n /\ e[k].dfh = c[k].dfh /\ e[k].block = c[k].block
        BY <3>3, <1>2, <1>9
      <4>2. /\ c[k].block <= Len(l[c[k].dfh].blocks) + 1
            /\ c[k].block = 0 <=> c[k].dfh \notin V
            /\ c[k].block >= 2 /\ Link(l, c[k].dfh, c[k].block - 1) # 0
        BY <4>1, <3>3, <1>1 DEF Walk, Frames
      <4> QED BY <4>1, <4>2
    <3> QED BY <3>1, <3>2, <3>3, <1>10
  <2>2. \A j, k \in 1..m : e[j].dfh = e[k].dfh => j = k
    BY <1>1, <1>2, <1>9, <1>10, <1>11 DEF Walk, Frames
  <2> QED BY <2>1, <2>2, <1>9 DEF Frames
<1>13. Ahead(l, V, e)
  <2> SUFFICES ASSUME NEW k \in 1..Len(e), e[k].block > 0,
                      NEW i \in LinksOf(l, e[k].dfh), Pending(e[k], i)
               PROVE  /\ Link(l, e[k].dfh, i) \notin V
                      /\ \A j \in 1..Len(e) : Link(l, e[k].dfh, i) # e[j].dfh
    BY DEF Ahead
  <2>1. k \in 1..n /\ Len(e) = m /\ e[k].dfh = c[k].dfh /\ c[k].dfh \in Dfh
    BY <1>2, <1>9, <1>10
  <2>2. Pending(c[k], i) /\ c[k].block > 0 /\ (k = n => i # b)
    <3>1. CASE k = n
      <4>1. i = 0 \/ i >= b + 1
        BY <3>1, <1>9 DEF Pending
      <4>2. i \in Nat
        BY <2>1, LinkFacts
      <4> QED BY <4>1, <4>2, <3>1, <1>1, <1>3 DEF Pending
    <3>2. CASE k # n
      BY <3>2, <2>1, <1>9 DEF Pending
    <3> QED BY <3>1, <3>2
  <2>3. Link(l, c[k].dfh, i) \notin V /\ \A j \in 1..n : Link(l, c[k].dfh, i) # c[j].dfh
    BY <2>1, <2>2, <1>1 DEF Walk, Ahead
  <2>4. Link(l, c[k].dfh, i) # t
    <3> SUFFICES ASSUME Link(l, c[k].dfh, i) = t PROVE FALSE
      OBVIOUS
    <3>1. c[k].dfh = d /\ i = b
      BY <2>1, <1>3, LinkFacts
    <3>2. k = n
      BY <3>1, <2>1, <1>1, <1>2 DEF Walk, Frames
    <3> QED BY <3>1, <3>2, <2>2
  <2> QED BY <2>1, <2>3, <2>4, <1>9, <1>10
<1>14. Entered(l, V, e)
  <2> SUFFICES ASSUME NEW k \in 1..m
               PROVE  e[k].dfh = 1 \/ \E p \in V : \E i \in LinksOf(l, p) : Link(l, p, i) = e[k].dfh
    BY <1>9 DEF Entered
  <2>1. CASE k = m
    BY <2>1, <1>3, <1>9
  <2>2. CASE k \in 1..n
    BY <2>2, <1>1, <1>9 DEF Walk, Entered
  <2> QED BY <2>1, <2>2, <1>10
<1>15. Forward(l, V, e)
  <2> SUFFICES ASSUME NEW v \in V, NEW i \in LinksOf(l, v), Link(l, v, i) \notin V \cup {0}
               PROVE  \E k \in 1..m : \/ e[k].dfh = Link(l, v, i)
                                      \/ e[k].dfh = v /\ Pending(e[k], i)
    BY <1>9 DEF Forward
  <2>1. PICK k \in 1..n : c[k].dfh = Link(l, v, i) \/ (c[k].dfh = v /\ Pending(c[k], i))
    BY <1>1 DEF Walk, Forward
  <2>2. k \in 1..m /\ m \in 1..m /\ i \in Nat
    BY <1>2, <1>3, <1>10, LinkFacts
  <2>3. CASE c[k].dfh = Link(l, v, i)
    <3>1. e[k].dfh = Link(l, v, i)
      BY <2>3, <1>9
    <3> QED BY <3>1, <2>2
  <2>4. CASE c[k].dfh = v /\ Pending(c[k], i) /\ k # n
    BY <2>2, <2>4, <1>9 DEF Pending
  <2>5. CASE c[k].dfh = v /\ Pending(c[k], i) /\ k = n
    <3>1. v = d /\ (i = 0 \/ i >= b)
      BY <2>5, <1>1 DEF Pending
    <3>2. CASE i = b
      <4>1. e[m].dfh = Link(l, v, i)
        BY <3>1, <3>2, <1>3, <1>9
      <4> QED BY <4>1, <2>2
    <3>3. CASE i # b
      <4>1. Pending(e[n], i)
        BY <3>1, <3>3, <2>2, <1>3, <1>9 DEF Pending
      <4> QED BY <4>1, <3>1, <2>2, <2>5, <1>9
    <3> QED BY <3>2, <3>3
  <2> QED BY <2>1, <2>3, <2>4, <2>5
<1>16. Root(l, V, e)
  BY <1>1, <1>2, <1>9, <1>10 DEF Walk, Root
<1>17. Owners(l, e)
  <2>1. \A o \in Dfh : Owns(l, o, t) <=> o = d
    BY <1>3, BranchOwner
  <2>2. \A k \in 1..n : k > 1 => k - 1 \in 1..n
    BY <1>2
  <2>3. ASSUME NEW k \in 1..m, NEW o \in Dfh
        PROVE  Owns(l, o, e[k].dfh) <=> k > 1 /\ o = e[k - 1].dfh
    <3>1. CASE k \in 1..n
      BY <3>1, <2>2, <1>1, <1>9 DEF Walk, Owners
    <3>2. CASE k = m
      <4>1. k - 1 = n /\ k > 1
        BY <3>2, <1>2, <1>10
      <4> QED BY <4>1, <3>2, <2>1, <1>9
    <3> QED BY <3>1, <3>2, <1>10
  <2> QED BY <2>3, <1>9 DEF Owners
<1> QED BY <1>12, <1>13, <1>14, <1>15, <1>16, <1>17 DEF Walk

\* It passes a block that is not a branch.
LEMMA WalkSkips ==
  ASSUME NEW l \in Lists, NEW V, NEW c, Walk(l, V, c), c # <<>>,
         NEW d, d = c[Len(c)].dfh,
         NEW b, b = c[Len(c)].block, b \in 1..Len(l[d].blocks),
         l[d].blocks[b] = 0,
         NEW e, e = [c EXCEPT ![Len(c)] = [dfh |-> d, block |-> b + 1]]
  PROVE  Walk(l, V, e)
<1>1. PICK n : n = Len(c)
  OBVIOUS
<1>2. /\ n \in Nat /\ n >= 1 /\ c \in Seq(FrameType)
      /\ \A k \in 1..n : c[k].dfh \in Dfh /\ c[k].block \in Nat
  BY <1>1, WalkFrame
<1>3. /\ d \in Dfh /\ d \in V /\ V \subseteq Dfh /\ Len(l[d].blocks) \in Nat
      /\ b \in Nat /\ b >= 1 /\ b \in LinksOf(l, d) /\ Link(l, d, b) = 0
  BY <1>1, <1>2, ListFacts, LinkFacts DEF Walk, Frames
<1>4. /\ e \in Seq(FrameType) /\ Len(e) = n
      /\ \A k \in 1..n : e[k] = IF k = n THEN [dfh |-> d, block |-> b + 1] ELSE c[k]
  <2>1. [dfh |-> d, block |-> b + 1] \in FrameType
    BY <1>3 DEF FrameType
  <2> QED BY <2>1, <1>1, <1>2, ExceptSeq
<1>5. /\ e[n].dfh = d /\ e[n].block = b + 1
      /\ \A k \in 1..n : e[k].dfh = c[k].dfh /\ (k # n => e[k].block = c[k].block)
  BY <1>1, <1>2, <1>4
<1>6. Frames(l, V, e)
  <2>1. ASSUME NEW k \in 1..n
        PROVE  /\ e[k].block <= Len(l[e[k].dfh].blocks) + 1
               /\ e[k].block = 0 <=> e[k].dfh \notin V
               /\ k < n => e[k].block >= 2 /\ Link(l, e[k].dfh, e[k].block - 1) # 0
    <3>1. CASE k = n
      <4>1. b + 1 <= Len(l[d].blocks) + 1 /\ b + 1 # 0
        BY <1>3
      <4> QED BY <4>1, <3>1, <1>2, <1>3, <1>5
    <3>2. CASE k # n
      <4>1. k < n /\ e[k].dfh = c[k].dfh /\ e[k].block = c[k].block
        BY <3>2, <1>2, <1>5
      <4>2. /\ c[k].block <= Len(l[c[k].dfh].blocks) + 1
            /\ c[k].block = 0 <=> c[k].dfh \notin V
            /\ c[k].block >= 2 /\ Link(l, c[k].dfh, c[k].block - 1) # 0
        BY <4>1, <1>1 DEF Walk, Frames
      <4> QED BY <4>1, <4>2
    <3> QED BY <3>1, <3>2
  <2>2. \A j, k \in 1..n : e[j].dfh = e[k].dfh => j = k
    BY <1>1, <1>5 DEF Walk, Frames
  <2> QED BY <2>1, <2>2, <1>4 DEF Frames
<1>7. Ahead(l, V, e)
  <2> SUFFICES ASSUME NEW k \in 1..Len(e), e[k].block > 0,
                      NEW i \in LinksOf(l, e[k].dfh), Pending(e[k], i)
               PROVE  /\ Link(l, e[k].dfh, i) \notin V
                      /\ \A j \in 1..Len(e) : Link(l, e[k].dfh, i) # e[j].dfh
    BY DEF Ahead
  <2>1. k \in 1..n /\ Len(e) = n /\ e[k].dfh = c[k].dfh /\ c[k].dfh \in Dfh
    BY <1>2, <1>4, <1>5
  <2>2. Pending(c[k], i) /\ c[k].block > 0
    <3>1. i \in Nat
      BY <2>1, LinkFacts
    <3> QED BY <3>1, <2>1, <1>1, <1>3, <1>5 DEF Pending
  <2>3. Link(l, c[k].dfh, i) \notin V /\ \A j \in 1..n : Link(l, c[k].dfh, i) # c[j].dfh
    BY <2>1, <2>2, <1>1 DEF Walk, Ahead
  <2> QED BY <2>1, <2>3, <1>5
<1>8. Entered(l, V, e)
  BY <1>1, <1>4, <1>5 DEF Walk, Entered
<1>9. Forward(l, V, e)
  <2> SUFFICES ASSUME NEW v \in V, NEW i \in LinksOf(l, v), Link(l, v, i) \notin V \cup {0}
               PROVE  \E k \in 1..n : \/ e[k].dfh = Link(l, v, i)
                                      \/ e[k].dfh = v /\ Pending(e[k], i)
    BY <1>4 DEF Forward
  <2>1. PICK k \in 1..n : c[k].dfh = Link(l, v, i) \/ (c[k].dfh = v /\ Pending(c[k], i))
    BY <1>1 DEF Walk, Forward
  <2>2. CASE c[k].dfh = Link(l, v, i)
    BY <2>2, <1>5
  <2>3. CASE c[k].dfh = v /\ Pending(c[k], i)
    <3>1. i \in Nat
      BY <1>3, LinkFacts
    <3>2. k = n => i # b
      BY <2>3, <1>1, <1>3
    <3>3. Pending(e[k], i)
      BY <3>1, <3>2, <2>3, <1>1, <1>3, <1>5 DEF Pending
    <3> QED BY <3>3, <2>3, <1>5
  <2> QED BY <2>1, <2>2, <2>3
<1>10. Root(l, V, e)
  BY <1>1, <1>4, <1>5 DEF Walk, Root
<1>11. Owners(l, e)
  <2>1. \A k \in 1..n : k > 1 => k - 1 \in 1..n
    BY <1>2
  <2> QED BY <2>1, <1>1, <1>4, <1>5 DEF Walk, Owners
<1> QED BY <1>6, <1>7, <1>8, <1>9, <1>10, <1>11 DEF Walk

\* It gives its place to the next header of its list.
LEMMA WalkGoesOn ==
  ASSUME NEW l \in Lists, NEW V, NEW c, Walk(l, V, c), c # <<>>,
         NEW d, d = c[Len(c)].dfh, c[Len(c)].block > Len(l[d].blocks),
         NEW t, t = l[d].next, t # 0,
         NEW e, e = [c EXCEPT ![Len(c)] = [dfh |-> t, block |-> 0]]
  PROVE  Walk(l, V, e)
<1>1. PICK n : n = Len(c)
  OBVIOUS
<1>2. /\ n \in Nat /\ n >= 1 /\ c \in Seq(FrameType)
      /\ \A k \in 1..n : c[k].dfh \in Dfh /\ c[k].block \in Nat
  BY <1>1, WalkFrame
<1>3. n \in 1..n /\ c[n].dfh = d /\ d \in Dfh /\ Len(l[d].blocks) \in Nat /\ c[n].block > 0
  BY <1>1, <1>2, ListFacts
<1>4. /\ d \in V /\ V \subseteq Dfh /\ 0 \in LinksOf(l, d) /\ Link(l, d, 0) = t /\ t \in Dfh
      /\ \A i \in LinksOf(l, d) : Pending(c[n], i) => i = 0
  <2>1. d \in V /\ V \subseteq Dfh
    BY <1>1, <1>3 DEF Walk, Frames
  <2>2. 0 \in LinksOf(l, d) /\ Link(l, d, 0) = t /\ t \in Dfh
    BY <1>3, LinkFacts
  <2>3. ASSUME NEW i \in LinksOf(l, d), Pending(c[n], i) PROVE i = 0
    BY <2>3, <1>1, <1>2, <1>3 DEF Pending, LinksOf
  <2> QED BY <2>1, <2>2, <2>3
<1>5. /\ e \in Seq(FrameType) /\ Len(e) = n
      /\ \A k \in 1..n : e[k] = IF k = n THEN [dfh |-> t, block |-> 0] ELSE c[k]
  <2>1. [dfh |-> t, block |-> 0] \in FrameType
    BY <1>4 DEF FrameType
  <2> QED BY <2>1, <1>1, <1>2, ExceptSeq
<1>6. /\ e[n].dfh = t /\ e[n].block = 0
      /\ \A k \in 1..n : k # n => e[k].dfh = c[k].dfh /\ e[k].block = c[k].block
  BY <1>3, <1>5
<1>7. t \notin V /\ \A j \in 1..n : t # c[j].dfh
  <2>1. Pending(c[n], 0) /\ 0 \in LinksOf(l, c[n].dfh)
    BY <1>3, <1>4 DEF Pending
  <2>2. /\ Link(l, c[n].dfh, 0) \notin V
        /\ \A j \in 1..n : Link(l, c[n].dfh, 0) # c[j].dfh
    BY <2>1, <1>1, <1>3 DEF Walk, Ahead
  <2> QED BY <2>2, <1>3, <1>4
<1>8. Frames(l, V, e)
  <2>1. ASSUME NEW k \in 1..n
        PROVE  /\ e[k].block <= Len(l[e[k].dfh].blocks) + 1
               /\ e[k].block = 0 <=> e[k].dfh \notin V
               /\ k < n => e[k].block >= 2 /\ Link(l, e[k].dfh, e[k].block - 1) # 0
    <3>1. CASE k = n
      <4>1. Len(l[t].blocks) \in Nat
        BY <1>4, ListFacts
      <4>2. \A z \in Nat : 0 <= z + 1
        OBVIOUS
      <4>3. 0 <= Len(l[t].blocks) + 1
        BY <4>1, <4>2, Zenon
      <4>4. e[k].block = 0 /\ e[k].dfh = t /\ ~(k < n)
        BY <3>1, <1>2, <1>6
      <4>5. e[k].block <= Len(l[e[k].dfh].blocks) + 1
        BY <4>3, <4>4, Zenon
      <4>6. e[k].block = 0 <=> e[k].dfh \notin V
        BY <4>4, <1>7
      <4> QED BY <4>4, <4>5, <4>6
    <3>2. CASE k # n
      <4>1. k < n /\ e[k].dfh = c[k].dfh /\ e[k].block = c[k].block
        BY <3>2, <1>2, <1>6
      <4>2. /\ c[k].block <= Len(l[c[k].dfh].blocks) + 1
            /\ c[k].block = 0 <=> c[k].dfh \notin V
            /\ c[k].block >= 2 /\ Link(l, c[k].dfh, c[k].block - 1) # 0
        BY <4>1, <1>1 DEF Walk, Frames
      <4> QED BY <4>1, <4>2
    <3> QED BY <3>1, <3>2
  <2>2. ASSUME NEW j \in 1..n, NEW k \in 1..n, e[j].dfh = e[k].dfh PROVE j = k
    <3>1. CASE j # n /\ k # n
      BY <3>1, <2>2, <1>1, <1>6 DEF Walk, Frames
    <3>2. CASE j = n \/ k = n
      BY <3>2, <2>2, <1>6, <1>7
    <3> QED BY <3>1, <3>2
  <2> QED BY <2>1, <2>2, <1>5 DEF Frames
<1>9. Ahead(l, V, e)
  <2> SUFFICES ASSUME NEW k \in 1..Len(e), e[k].block > 0,
                      NEW i \in LinksOf(l, e[k].dfh), Pending(e[k], i)
               PROVE  /\ Link(l, e[k].dfh, i) \notin V
                      /\ \A j \in 1..Len(e) : Link(l, e[k].dfh, i) # e[j].dfh
    BY DEF Ahead
  <2>1. /\ k \in 1..n /\ Len(e) = n /\ k # n
        /\ e[k].dfh = c[k].dfh /\ e[k].block = c[k].block /\ c[k].dfh \in Dfh
    BY <1>2, <1>5, <1>6
  <2>2. Pending(c[k], i) /\ c[k].block > 0
    BY <2>1 DEF Pending
  <2>3. Link(l, c[k].dfh, i) \notin V /\ \A j \in 1..n : Link(l, c[k].dfh, i) # c[j].dfh
    BY <2>1, <2>2, <1>1 DEF Walk, Ahead
  <2>4. Link(l, c[k].dfh, i) # t
    <3> SUFFICES ASSUME Link(l, c[k].dfh, i) = t PROVE FALSE
      OBVIOUS
    <3>1. c[k].dfh = d
      BY <2>1, <1>3, <1>4, LinkFacts
    <3>2. k = n
      BY <3>1, <2>1, <1>1, <1>3 DEF Walk, Frames
    <3> QED BY <3>2, <2>1
  <2> QED BY <2>1, <2>3, <2>4, <1>6
<1>10. Entered(l, V, e)
  <2> SUFFICES ASSUME NEW k \in 1..n
               PROVE  e[k].dfh = 1 \/ \E p \in V : \E i \in LinksOf(l, p) : Link(l, p, i) = e[k].dfh
    BY <1>5 DEF Entered
  <2>1. CASE k = n
    BY <2>1, <1>4, <1>6
  <2>2. CASE k # n
    BY <2>2, <1>1, <1>6 DEF Walk, Entered
  <2> QED BY <2>1, <2>2
<1>11. Forward(l, V, e)
  <2> SUFFICES ASSUME NEW v \in V, NEW i \in LinksOf(l, v), Link(l, v, i) \notin V \cup {0}
               PROVE  \E k \in 1..n : \/ e[k].dfh = Link(l, v, i)
                                      \/ e[k].dfh = v /\ Pending(e[k], i)
    BY <1>5 DEF Forward
  <2>1. PICK k \in 1..n : c[k].dfh = Link(l, v, i) \/ (c[k].dfh = v /\ Pending(c[k], i))
    BY <1>1 DEF Walk, Forward
  <2>2. CASE k # n
    BY <2>1, <2>2, <1>6 DEF Pending
  <2>3. CASE k = n
    <3>1. c[n].dfh # Link(l, v, i)
      BY <1>3, <1>4
    <3>2. v = d /\ Pending(c[n], i)
      BY <3>1, <2>1, <2>3, <1>3
    <3>3. Link(l, v, i) = t
      BY <3>2, <1>4
    <3> QED BY <3>3, <1>3, <1>6
  <2> QED BY <2>2, <2>3
<1>12. Root(l, V, e)
  <2>1. CASE 1 \in V
    BY <2>1 DEF Root
  <2>2. CASE 1 \notin V
    <3>1. PICK k \in 1..n : c[k].dfh = 1
      BY <2>2, <1>1 DEF Walk, Root
    <3>2. k # n
      BY <3>1, <2>2, <1>3, <1>4
    <3> QED BY <3>1, <3>2, <1>5, <1>6 DEF Root
  <2> QED BY <2>1, <2>2
<1>13. Owners(l, e)
  <2>1. \A o \in Dfh : Owns(l, o, t) <=> Owns(l, o, d)
    BY <1>3, <1>4, NextOwner
  <2>2. ASSUME NEW k \in 1..n, NEW o \in Dfh
        PROVE  Owns(l, o, e[k].dfh) <=> k > 1 /\ o = e[k - 1].dfh
    <3>1. k > 1 => k - 1 \in 1..n /\ k - 1 # n
      BY <1>2
    <3>2. k > 1 => e[k - 1].dfh = c[k - 1].dfh
      BY <3>1, <1>6
    <3>3. Owns(l, o, c[k].dfh) <=> k > 1 /\ o = c[k - 1].dfh
      BY <1>1 DEF Walk, Owners
    <3>4. Owns(l, o, e[k].dfh) <=> Owns(l, o, c[k].dfh)
      BY <2>1, <1>3, <1>6
    <3> QED BY <3>2, <3>3, <3>4
  <2> QED BY <2>2, <1>5 DEF Owners
<1> QED BY <1>8, <1>9, <1>10, <1>11, <1>12, <1>13 DEF Walk

\* At the end of its list it returns.
LEMMA WalkReturns ==
  ASSUME NEW l \in Lists, NEW V, NEW c, Walk(l, V, c), c # <<>>,
         NEW d, d = c[Len(c)].dfh, c[Len(c)].block > Len(l[d].blocks),
         l[d].next = 0,
         NEW e \in Seq(FrameType), Len(e) = Len(c) - 1,
         \A k \in 1..Len(e) : e[k] = c[k]
  PROVE  Walk(l, V, e)
<1>1. PICK n : n = Len(c)
  OBVIOUS
<1>2. /\ n \in Nat /\ n >= 1 /\ c \in Seq(FrameType)
      /\ \A k \in 1..n : c[k].dfh \in Dfh /\ c[k].block \in Nat
  BY <1>1, WalkFrame
<1>3. n \in 1..n /\ c[n].dfh = d /\ d \in Dfh /\ Len(l[d].blocks) \in Nat /\ c[n].block > 0
  BY <1>1, <1>2, ListFacts
<1>4. /\ d \in V /\ V \subseteq Dfh /\ 0 \in LinksOf(l, d) /\ Link(l, d, 0) = 0
      /\ \A i \in LinksOf(l, d) : Pending(c[n], i) => i = 0
  <2>1. d \in V /\ V \subseteq Dfh
    BY <1>1, <1>3 DEF Walk, Frames
  <2>2. 0 \in LinksOf(l, d) /\ Link(l, d, 0) = 0
    BY <1>3, LinkFacts
  <2>3. ASSUME NEW i \in LinksOf(l, d), Pending(c[n], i) PROVE i = 0
    BY <2>3, <1>1, <1>2, <1>3 DEF Pending, LinksOf
  <2> QED BY <2>1, <2>2, <2>3
<1>5. PICK m : m = n - 1
  OBVIOUS
<1>6. /\ m \in Nat /\ m < n /\ Len(e) = m
      /\ \A k \in 1..m : k \in 1..n /\ k < n /\ k # n /\ e[k] = c[k]
      /\ \A k \in 1..n : k = n \/ k \in 1..m
      /\ \A k \in 1..m : k > 1 => k - 1 \in 1..m
  BY <1>1, <1>2, <1>5
<1>7. Frames(l, V, e)
  BY <1>1, <1>6 DEF Walk, Frames
<1>8. Ahead(l, V, e)
  <2> SUFFICES ASSUME NEW k \in 1..Len(e), e[k].block > 0,
                      NEW i \in LinksOf(l, e[k].dfh), Pending(e[k], i)
               PROVE  /\ Link(l, e[k].dfh, i) \notin V
                      /\ \A j \in 1..Len(e) : Link(l, e[k].dfh, i) # e[j].dfh
    BY DEF Ahead
  <2>1. k \in 1..n /\ e[k] = c[k]
    BY <1>6
  <2>2. Link(l, c[k].dfh, i) \notin V /\ \A j \in 1..n : Link(l, c[k].dfh, i) # c[j].dfh
    BY <2>1, <1>1 DEF Walk, Ahead
  <2> QED BY <2>1, <2>2, <1>6
<1>9. Entered(l, V, e)
  BY <1>1, <1>6 DEF Walk, Entered
<1>10. Forward(l, V, e)
  <2> SUFFICES ASSUME NEW v \in V, NEW i \in LinksOf(l, v), Link(l, v, i) \notin V \cup {0}
               PROVE  \E k \in 1..m : \/ e[k].dfh = Link(l, v, i)
                                      \/ e[k].dfh = v /\ Pending(e[k], i)
    BY <1>6 DEF Forward
  <2>1. PICK k \in 1..n : c[k].dfh = Link(l, v, i) \/ (c[k].dfh = v /\ Pending(c[k], i))
    BY <1>1 DEF Walk, Forward
  <2>2. k # n
    <3> SUFFICES ASSUME k = n PROVE FALSE
      OBVIOUS
    <3>1. c[n].dfh # Link(l, v, i)
      BY <1>3, <1>4
    <3>2. v = d /\ Pending(c[n], i)
      BY <3>1, <2>1, <1>3
    <3> QED BY <3>2, <1>4
  <2> QED BY <2>1, <2>2, <1>6
<1>11. Root(l, V, e)
  <2>1. CASE 1 \in V
    BY <2>1 DEF Root
  <2>2. CASE 1 \notin V
    <3>1. PICK k \in 1..n : c[k].dfh = 1
      BY <2>2, <1>1 DEF Walk, Root
    <3>2. k # n
      BY <3>1, <2>2, <1>3, <1>4
    <3> QED BY <3>1, <3>2, <1>6 DEF Root
  <2> QED BY <2>1, <2>2
<1>12. Owners(l, e)
  BY <1>1, <1>6 DEF Walk, Owners
<1> QED BY <1>7, <1>8, <1>9, <1>10, <1>11, <1>12 DEF Walk

\* A walk that is over has met every header.
LEMMA WalkEnds ==
  ASSUME NEW l \in Lists, NEW V, Walk(l, V, <<>>)
  PROVE  V = Dfh
<1>1. PICK c : c = <<>>
  OBVIOUS
<1>2. Len(c) = 0 /\ Walk(l, V, c)
  BY <1>1
<1>3. 1 \in V /\ V \in SUBSET Dfh
  BY <1>2 DEF Walk, Root
<1>4. \A p \in V : \A i \in LinksOf(l, p) : Link(l, p, i) \in V \cup {0}
  BY <1>2 DEF Walk, Forward
<1> QED BY <1>3, <1>4, WholeTree

-----------------------------------------------------------------------------
(* The invariant of the walker. *)

TypesOK ==
  /\ list \in Lists /\ pass \in {"idle", "count", "collect", "overrun"}
  /\ calls \in Seq(FrameType) /\ head \in Seq(Int) /\ top \in Nat
  /\ scanned \in Nat /\ index \in Int /\ index >= -1 /\ vec \in Seq(InfoType)

\* The stack has a parent for each frame, and room for it.
StackOK ==
  /\ top = Len(calls) /\ top < DFH_PARENT_STACK_INCR_SIZE
  /\ Len(head) = DFH_PARENT_STACK_INCR_SIZE

WithStack(h) == [h EXCEPT !.stack = 1]

\* The headers the second pass has met.
Collected == {vec[i].dfh : i \in 1..(index + 1)}

TableOK ==
  /\ Len(vec) = Cardinality(Dfh) /\ {vec[i].dfh : i \in DOMAIN vec} = Dfh
  /\ \A i \in DOMAIN vec : EntryMatches(i)

IdleOK ==
  /\ calls = <<>> /\ head = <<>> /\ top = 0 /\ heap = Owned(vec)
  /\ vec = <<>> \/ TableOK

CountOK ==
  /\ StackOK /\ vec = <<>> /\ heap = WithStack(Owned(vec))
  /\ \E V \in SUBSET Dfh : Walk(list, V, calls) /\ scanned = Cardinality(V)

\* Entry p is a fit parent for the lists o branches to.
Parent(p, o) ==
  /\ p \in 1..(index + 1) /\ Below(list, vec[p].dfh, o)
  /\ BranchesOnce(list, o) => vec[p].dfh = o

\* What the stack says of the parents.
Parents ==
  \A k \in 1..Len(calls) :
    /\ k = 1 => head[k + 1] = -1
    /\ k > 1 => Parent(head[k + 1] + 1, calls[k - 1].dfh)

\* The last entry is under the last frame, and is its own until it branches.
LastEntry ==
  calls # <<>> /\ Frame.block > 0 =>
    /\ index >= 0 /\ Below(list, vec[index + 1].dfh, Frame.dfh)
    /\ (\A j \in 1..(Frame.block - 1) : Blocks[j] = 0) => vec[index + 1].dfh = Frame.dfh

CollectOK ==
  /\ StackOK /\ heap = WithStack(Owned(vec))
  /\ Walk(list, Collected, calls) /\ Cardinality(Collected) = index + 1
  /\ Len(vec) = Cardinality(Dfh)
  /\ \A i \in 1..Len(vec) : IF i <= index + 1 THEN EntryMatches(i) ELSE vec[i] = NoInfo
  /\ Parents /\ LastEntry

NestsDeep ==
  \E c \in [1..DFH_PARENT_STACK_INCR_SIZE -> Dfh] :
    \A n \in 1..(DFH_PARENT_STACK_INCR_SIZE - 1) : Owns(list, c[n], c[n + 1])

IInv ==
  /\ TypesOK
  /\ pass = "idle" => IdleOK
  /\ pass = "count" => CountOK
  /\ pass = "collect" => CollectOK
  /\ pass = "overrun" => NestsDeep

-----------------------------------------------------------------------------
(* The table, the stack and the heap. *)

LEMMA Sizes ==
  /\ IsFiniteSet(Dfh) /\ Cardinality(Dfh) \in Nat /\ Cardinality(Dfh) > 0
  /\ 1 \in Dfh /\ Dfh = 1..Cardinality(Dfh)
  /\ DFH_PARENT_STACK_INCR_SIZE \in Nat /\ DFH_PARENT_STACK_INCR_SIZE > 1
<1>1. Cardinality(Dfh) \in Nat
  BY DflAssumption, FS_CardinalityType
<1> QED BY <1>1, DflAssumption

LEMMA TableEntries ==
  ASSUME NEW v \in Seq(InfoType)
  PROVE  /\ Len(v) \in Nat /\ DOMAIN v = 1..Len(v)
         /\ \A i \in 1..Len(v) : v[i] \in InfoType
         /\ v = <<>> <=> Len(v) = 0
BY LenProperties, ElementOfSeq, EmptySeq

LEMMA NothingOwned ==
  Owned(<<>>) = [stack |-> 0, table |-> 0, at |-> [i \in Dfh |-> 0]]
<1>1. DOMAIN <<>> = {} /\ OneIf(<<>> # <<>>) = 0
  BY DEF OneIf
<1> QED BY <1>1 DEF Owned

\* A table that is freed leaves nothing.
LEMMA FreedAll ==
  ASSUME NEW v \in Seq(InfoType)
  PROVE  Freed(Owned(v), Owned(v)) = Owned(<<>>)
<1>1. PICK o : o = Owned(v)
  OBVIOUS
<1>2. o.stack = 0 /\ o.table \in Int /\ \A i \in Dfh : o.at[i] \in Int
  <2>1. \A i \in DOMAIN v : v[i].data \in Int
    <3>1. \A i \in DOMAIN v : v[i] \in InfoType
      BY TableEntries
    <3> QED BY <3>1 DEF InfoType
  <2>2. \A i \in Dfh : (IF i \in DOMAIN v THEN OneIf(v[i].parameters > 0) + v[i].data ELSE 0) \in Int
    BY <2>1 DEF OneIf
  <2> QED BY <1>1, <2>2 DEF Owned, OneIf
<1>3. Freed(o, o) = [stack |-> 0, table |-> 0, at |-> [i \in Dfh |-> 0]]
  BY <1>2 DEF Freed
<1> QED BY <1>1, <1>3, NothingOwned

\* A table of entries that are not filled yet.
LEMMA EmptyTable ==
  ASSUME NEW m \in Nat, m > 0, NEW v, v = [i \in 1..m |-> NoInfo]
  PROVE  /\ v \in Seq(InfoType) /\ Len(v) = m /\ v # <<>>
         /\ \A i \in 1..m : v[i] = NoInfo
         /\ Owned(v) = [Owned(<<>>) EXCEPT !.table = 1]
<1>1. NoInfo \in InfoType /\ NoInfo.parameters = 0 /\ NoInfo.data = 0
  BY DEF NoInfo, InfoType
<1>2. v \in Seq(InfoType) /\ Len(v) = m /\ v # <<>> /\ DOMAIN v = 1..m
  BY <1>1
<1>3. \A i \in 1..m : v[i] = NoInfo
  OBVIOUS
<1>4. \A i \in Dfh :
        (IF i \in DOMAIN v THEN OneIf(v[i].parameters > 0) + v[i].data ELSE 0) = 0
  <2>1. OneIf(0 > 0) + 0 = 0
    BY DEF OneIf
  <2> QED BY <1>1, <1>3, <2>1
<1>5. Owned(v) = [stack |-> 0, table |-> 1, at |-> [i \in Dfh |-> 0]]
  BY <1>2, <1>4 DEF Owned, OneIf
<1> QED BY <1>2, <1>3, <1>5, NothingOwned

\* Filling an entry adds what it owns.
LEMMA FilledEntry ==
  ASSUME NEW v \in Seq(InfoType), NEW i \in 1..Len(v), i \in Dfh, v[i] = NoInfo,
         NEW x \in InfoType, NEW w \in Seq(InfoType), Len(w) = Len(v),
         \A j \in 1..Len(v) : w[j] = IF j = i THEN x ELSE v[j],
         NEW z, z = (IF x.parameters > 0 THEN 1 ELSE 0) + x.data
  PROVE  /\ Owned(v) = [stack |-> 0, table |-> 1, at |-> Owned(v).at]
         /\ Owned(w) = [stack |-> 0, table |-> 1, at |-> Owned(w).at]
         /\ Owned(v).at[i] = 0 /\ Owned(w).at = [Owned(v).at EXCEPT ![i] = z]
<1>1. /\ w \in Seq(InfoType) /\ Len(w) = Len(v)
      /\ \A j \in 1..Len(v) : w[j] = IF j = i THEN x ELSE v[j]
  OBVIOUS
<1>2. DOMAIN v = 1..Len(v) /\ DOMAIN w = 1..Len(v) /\ v # <<>> /\ w # <<>>
  BY <1>1, TableEntries
<1>3. NoInfo.parameters = 0 /\ NoInfo.data = 0 /\ x.data \in Int
  BY DEF NoInfo, InfoType
<1>4. PICK s : s = Owned(v)
  OBVIOUS
<1>5. /\ s = [stack |-> 0, table |-> 1, at |-> s.at]
      /\ s.at = [j \in Dfh |-> IF j \in DOMAIN v THEN OneIf(v[j].parameters > 0) + v[j].data
                               ELSE 0]
  BY <1>2, <1>4 DEF Owned, OneIf
<1>6. s.at[i] = 0
  <2>1. s.at[i] = OneIf(NoInfo.parameters > 0) + NoInfo.data
    BY <1>2, <1>5
  <2> QED BY <2>1, <1>3 DEF OneIf
<1>7. PICK a : a = [j \in Dfh |-> IF j \in DOMAIN w THEN OneIf(w[j].parameters > 0) + w[j].data
                               ELSE 0]
  OBVIOUS
<1>8. Owned(w) = [stack |-> 0, table |-> 1, at |-> a]
  BY <1>2, <1>7 DEF Owned, OneIf
<1>9. a[i] = z
  <2>1. a[i] = OneIf(x.parameters > 0) + x.data
    BY <1>1, <1>2, <1>7
  <2> QED BY <2>1 DEF OneIf
<1>10. \A j \in Dfh : j # i => a[j] = s.at[j]
  BY <1>1, <1>2, <1>5, <1>7
<1>11. a = [s.at EXCEPT ![i] = z]
  <2>1. DOMAIN a = Dfh /\ DOMAIN s.at = Dfh
    BY <1>5, <1>7
  <2>2. a = [j \in Dfh |-> a[j]]
    BY <1>7
  <2>3. \A j \in Dfh : a[j] = IF j = i THEN z ELSE s.at[j]
    BY <1>9, <1>10
  <2> QED BY <2>1, <2>2, <2>3
<1> QED BY <1>4, <1>5, <1>6, <1>8, <1>11

\* An entry that is opened or closed owns what it did.
LEMMA SameOwned ==
  ASSUME NEW v \in Seq(InfoType), NEW w \in Seq(InfoType), Len(w) = Len(v),
         \A i \in 1..Len(v) : w[i].parameters = v[i].parameters /\ w[i].data = v[i].data
  PROVE  Owned(w) = Owned(v)
<1>1. DOMAIN v = 1..Len(v) /\ DOMAIN w = 1..Len(v) /\ (v = <<>> <=> w = <<>>)
  BY TableEntries
<1>2. \A i \in Dfh : i \in DOMAIN v => w[i].parameters = v[i].parameters /\ w[i].data = v[i].data
  BY <1>1
<1> QED BY <1>1, <1>2 DEF Owned

\* The first push gives the stack its first piece.
LEMMA FirstPush ==
  ASSUME NEW data \in Int, NEW during, head = <<>>, top = 0,
         PushAndCall(data, <<>>, 1, during)
  PROVE  /\ top' = 1 /\ calls' = <<Enter(1)>> /\ pass' = during
         /\ head' \in Seq(Int) /\ Len(head') = DFH_PARENT_STACK_INCR_SIZE
         /\ head'[2] = data
<1>1. PICK piece : piece = [n \in 1..DFH_PARENT_STACK_INCR_SIZE |-> 0]
  OBVIOUS
<1>2. piece \in Seq(Int) /\ Len(piece) = DFH_PARENT_STACK_INCR_SIZE
  BY <1>1, Sizes
<1>3. PICK grown : grown = <<>> \o piece
  OBVIOUS
<1>4. grown = piece
  BY <1>2, <1>3, ConcatEmptySeq
<1>5. Full
  BY DEF Full
<1>6. /\ top' = 1
      /\ head' = [piece EXCEPT ![2] = data]
      /\ calls' = Append(<<>>, Enter(1))
      /\ pass' = during
  BY <1>1, <1>2, <1>3, <1>4, <1>5, Sizes DEF PushAndCall
<1>7. 2 \in 1..Len(piece)
  BY <1>2, Sizes
<1>8. /\ head' \in Seq(Int) /\ Len(head') = Len(piece)
      /\ head'[2] = data
  BY <1>2, <1>6, <1>7, ExceptSeq
<1> QED BY <1>2, <1>6, <1>8

\* A push in a walk: there is room, or the next place is outside the array.
LEMMA PushFacts ==
  ASSUME TypesOK, StackOK, NEW data \in Int, NEW from, NEW to, NEW during,
         PushAndCall(data, from, to, during)
  PROVE  /\ top' = top + 1
         /\ IF top + 1 < DFH_PARENT_STACK_INCR_SIZE
            THEN /\ calls' = Append(from, Enter(to)) /\ pass' = during
                 /\ head' \in Seq(Int) /\ Len(head') = DFH_PARENT_STACK_INCR_SIZE
                 /\ \A k \in 1..DFH_PARENT_STACK_INCR_SIZE :
                      head'[k] = IF k = top + 2 THEN data ELSE head[k]
            ELSE UNCHANGED <<head, calls>> /\ pass' = "overrun"
<1>1. ~Full
  BY Sizes DEF Full, StackOK, TypesOK
<1>2. /\ top' = top + 1
      /\ IF top + 1 < DFH_PARENT_STACK_INCR_SIZE
         THEN /\ head' = [head EXCEPT ![top + 2] = data]
              /\ calls' = Append(from, Enter(to)) /\ pass' = during
         ELSE UNCHANGED <<head, calls>> /\ pass' = "overrun"
  BY <1>1 DEF PushAndCall, StackOK
<1>3. CASE top + 1 < DFH_PARENT_STACK_INCR_SIZE
  <2>1. top + 2 \in 1..Len(head) /\ head \in Seq(Int)
    BY <1>3, Sizes DEF StackOK, TypesOK
  <2>2. PICK h : h = [head EXCEPT ![top + 2] = data]
    OBVIOUS
  <2>3. /\ h \in Seq(Int) /\ Len(h) = Len(head)
        /\ \A k \in 1..Len(head) : h[k] = IF k = top + 2 THEN data ELSE head[k]
    BY <2>1, <2>2, ExceptSeq
  <2> QED BY <1>2, <1>3, <2>2, <2>3 DEF StackOK
<1>4. CASE ~(top + 1 < DFH_PARENT_STACK_INCR_SIZE)
  BY <1>2, <1>4
<1> QED BY <1>3, <1>4

\* An entry is as good as before when neither it nor the ones before it change.
LEMMA EntryKept ==
  ASSUME NEW i \in Nat, EntryMatches(i), list' = list,
         vec'[i].dfh = vec[i].dfh, vec'[i].parent = vec[i].parent,
         \A j \in 1..(i - 1) : vec'[j].dfh = vec[j].dfh
  PROVE  EntryMatches(i)'
BY DEF EntryMatches

-----------------------------------------------------------------------------
(* The steps outside the recursion. *)

LEMMA InitInv == Init => IInv
<1> SUFFICES ASSUME Init PROVE IInv
  OBVIOUS
<1>1. TypesOK
  BY EmptySeq DEF Init, TypesOK
<1>2. IdleOK
  BY DEF Init, IdleOK
<1> QED BY <1>1, <1>2 DEF Init, IInv

LEMMA ScanInv == IInv /\ Scan => IInv'
<1> SUFFICES ASSUME IInv, Scan PROVE IInv'
  OBVIOUS
<1>1. TypesOK /\ IdleOK
  BY DEF IInv, Scan
<1>2. /\ PushAndCall(-1, <<>>, 1, "count") /\ scanned' = 0 /\ vec' = <<>>
      /\ heap' = [Freed(heap, Owned(vec)) EXCEPT !.stack = @ + NewStack]
      /\ list' = list /\ index' = index
  BY DEF Scan
<1>3. /\ top' = 1 /\ calls' = <<Enter(1)>> /\ pass' = "count"
      /\ head' \in Seq(Int) /\ Len(head') = DFH_PARENT_STACK_INCR_SIZE
  <2>1. head = <<>> /\ top = 0 /\ -1 \in Int
    BY <1>1 DEF IdleOK
  <2> QED BY <2>1, <1>2, FirstPush
<1>4. Enter(1) \in FrameType
  BY Sizes DEF Enter, FrameType
<1>5. calls' \in Seq(FrameType) /\ Len(calls') = 1
  BY <1>3, <1>4
<1>6. TypesOK'
  <2>1. vec' \in Seq(InfoType)
    BY <1>2, EmptySeq
  <2> QED BY <2>1, <1>1, <1>2, <1>3, <1>5 DEF TypesOK
<1>7. heap' = WithStack(Owned(vec'))
  <2>1. Freed(heap, Owned(vec)) = Owned(<<>>)
    BY <1>1, FreedAll DEF IdleOK, TypesOK
  <2>2. NewStack = 1
    BY <1>1 DEF IdleOK, NewStack, OneIf
  <2>3. PICK o : o = Owned(<<>>)
    OBVIOUS
  <2>4. o.stack = 0
    BY <2>3, NothingOwned
  <2>5. [o EXCEPT !.stack = @ + 1] = [o EXCEPT !.stack = 1]
    BY <2>4
  <2> QED BY <2>1, <2>2, <2>3, <2>5, <1>2 DEF WithStack
<1>8. StackOK'
  BY <1>3, <1>5, Sizes DEF StackOK
<1>9. Walk(list', {}, calls') /\ scanned' = Cardinality({})
  BY <1>1, <1>2, <1>3, WalkStarts, FS_EmptySet DEF TypesOK
<1>10. CountOK'
  BY <1>2, <1>7, <1>8, <1>9 DEF CountOK
<1> QED BY <1>3, <1>6, <1>10 DEF IInv

LEMMA CollectAllInv == IInv /\ CollectAll => IInv'
<1> SUFFICES ASSUME IInv, CollectAll PROVE IInv'
  OBVIOUS
<1>1. TypesOK /\ CountOK /\ calls = <<>>
  BY DEF IInv, CollectAll
<1>2. /\ PushAndCall(-1, <<>>, 1, "collect")
      /\ vec' = [n \in 1..scanned |-> NoInfo]
      /\ heap' = [heap EXCEPT !.table = @ + OneIf(vec' # <<>>)]
      /\ index' = -1 /\ list' = list /\ scanned' = scanned
  BY DEF CollectAll
<1>3. top = 0 /\ StackOK
  BY <1>1 DEF CountOK, StackOK
<1>4. /\ top' = 1 /\ calls' = <<Enter(1)>> /\ pass' = "collect"
      /\ head' \in Seq(Int) /\ Len(head') = DFH_PARENT_STACK_INCR_SIZE
      /\ head'[2] = -1
  <2>1. PICK f : f = Enter(1)
    OBVIOUS
  <2>2. Append(<<>>, f) = <<f>>
    OBVIOUS
  <2>3. /\ top + 1 < DFH_PARENT_STACK_INCR_SIZE /\ 2 \in 1..DFH_PARENT_STACK_INCR_SIZE
        /\ -1 \in Int
    BY <1>3, Sizes
  <2>4. /\ top' = top + 1 /\ calls' = Append(<<>>, Enter(1)) /\ pass' = "collect"
        /\ head' \in Seq(Int) /\ Len(head') = DFH_PARENT_STACK_INCR_SIZE
        /\ \A k \in 1..DFH_PARENT_STACK_INCR_SIZE :
             head'[k] = IF k = top + 2 THEN -1 ELSE head[k]
    <3>1. PICK data : data = -1
      OBVIOUS
    <3>2. PICK from : from = <<>>
      OBVIOUS
    <3>3. data \in Int /\ PushAndCall(data, from, 1, "collect")
      BY <3>1, <3>2, <1>2
    <3>4. /\ top' = top + 1
          /\ IF top + 1 < DFH_PARENT_STACK_INCR_SIZE
             THEN /\ calls' = Append(from, Enter(1)) /\ pass' = "collect"
                  /\ head' \in Seq(Int) /\ Len(head') = DFH_PARENT_STACK_INCR_SIZE
                  /\ \A k \in 1..DFH_PARENT_STACK_INCR_SIZE :
                       head'[k] = IF k = top + 2 THEN data ELSE head[k]
             ELSE UNCHANGED <<head, calls>> /\ pass' = "overrun"
      BY <1>1, <1>3, <3>3, PushFacts
    <3> QED BY <3>1, <3>2, <3>4, <2>3
  <2> QED BY <2>1, <2>2, <2>3, <2>4, <1>3
<1>5. PICK f : f = Enter(1)
  OBVIOUS
<1>6. f \in FrameType /\ f.block = 0
  BY <1>5, Sizes DEF Enter, FrameType
<1>7. calls' \in Seq(FrameType) /\ Len(calls') = 1 /\ calls'[1] = f
  BY <1>4, <1>5, <1>6
<1>8. scanned = Cardinality(Dfh)
  BY <1>1, WalkEnds DEF CountOK, TypesOK
<1>9. /\ vec' \in Seq(InfoType) /\ Len(vec') = Cardinality(Dfh) /\ vec' # <<>>
      /\ \A i \in 1..Cardinality(Dfh) : vec'[i] = NoInfo
      /\ Owned(vec') = [Owned(<<>>) EXCEPT !.table = 1]
  BY <1>2, <1>8, Sizes, EmptyTable
<1>10. TypesOK'
  BY <1>1, <1>2, <1>4, <1>7, <1>9 DEF TypesOK
<1>11. StackOK'
  BY <1>4, <1>7, Sizes DEF StackOK
<1>12. heap' = WithStack(Owned(vec'))
  <2>1. PICK z : z = [i \in Dfh |-> 0]
    OBVIOUS
  <2>2. heap = [stack |-> 1, table |-> 0, at |-> z]
    BY <2>1, <1>1, NothingOwned DEF CountOK, WithStack
  <2>3. Owned(vec') = [stack |-> 0, table |-> 1, at |-> z]
    BY <2>1, <1>9, NothingOwned
  <2>4. OneIf(vec' # <<>>) = 1 /\ heap.table = 0
    BY <2>2, <1>9 DEF OneIf
  <2>5. heap.table + OneIf(vec' # <<>>) = 1
    BY <2>4
  <2>6. heap' = [heap EXCEPT !.table = 1]
    BY <2>5, <1>2, Zenon
  <2>7. heap' = [stack |-> 1, table |-> 1, at |-> z]
    BY <2>2, <2>6
  <2> QED BY <2>3, <2>7 DEF WithStack
<1>13. Collected' = {} /\ Cardinality({}) = index' + 1
  BY <1>2, FS_EmptySet DEF Collected
<1>14. Walk(list', {}, calls')
  BY <1>1, <1>2, <1>4, WalkStarts DEF TypesOK
<1>15. \A i \in 1..Len(vec') : ~(i <= index' + 1) /\ vec'[i] = NoInfo
  <2>1. index' + 1 = 0
    BY <1>2
  <2> QED BY <2>1, <1>9
<1>16. Parents' /\ LastEntry'
  <2>1. Parents'
    BY <1>4, <1>7 DEF Parents
  <2>2. Frame' = f
    BY <1>7 DEF Frame
  <2>3. LastEntry'
    BY <2>2, <1>6 DEF LastEntry
  <2> QED BY <2>1, <2>3
<1>17. CollectOK'
  BY <1>9, <1>11, <1>12, <1>13, <1>14, <1>15, <1>16 DEF CollectOK
<1> QED BY <1>4, <1>10, <1>17 DEF IInv

LEMMA FinishInv == IInv /\ Finish => IInv'
<1> SUFFICES ASSUME IInv, Finish PROVE IInv'
  OBVIOUS
<1>1. TypesOK /\ CollectOK /\ calls = <<>>
  BY DEF IInv, Finish
<1>2. /\ head' = <<>> /\ heap' = [heap EXCEPT !.stack = @ - 1] /\ pass' = "idle"
      /\ list' = list /\ calls' = calls /\ top' = top /\ scanned' = scanned
      /\ index' = index /\ vec' = vec
  BY DEF Finish
<1>3. TypesOK'
  BY <1>1, <1>2, EmptySeq DEF TypesOK
<1>4. Collected = Dfh
  BY <1>1, WalkEnds DEF CollectOK, TypesOK
<1>5. Len(vec) = Cardinality(Dfh) /\ index + 1 = Len(vec) /\ DOMAIN vec = 1..Len(vec)
  BY <1>1, <1>4, TableEntries DEF CollectOK, TypesOK
<1>6. {vec[i].dfh : i \in DOMAIN vec} = Dfh
  BY <1>4, <1>5 DEF Collected
<1>7. \A i \in DOMAIN vec : EntryMatches(i)
  <2> SUFFICES ASSUME NEW i \in 1..Len(vec) PROVE EntryMatches(i)
    BY <1>5
  <2>1. i <= index + 1
    BY <1>5, Sizes
  <2> QED BY <2>1, <1>1 DEF CollectOK
<1>8. TableOK
  BY <1>5, <1>6, <1>7 DEF TableOK
<1>9. TableOK'
  BY <1>2, <1>8 DEF TableOK, EntryMatches
<1>10. heap' = Owned(vec')
  <2>1. PICK o : o = Owned(vec)
    OBVIOUS
  <2>2. PICK t, a : t = o.table /\ a = o.at
    OBVIOUS
  <2>3. o = [stack |-> 0, table |-> t, at |-> a]
    BY <2>1, <2>2 DEF Owned
  <2>4. heap = [stack |-> 1, table |-> t, at |-> a]
    <3>1. heap = WithStack(o)
      BY <2>1, <1>1 DEF CollectOK
    <3> QED BY <2>3, <3>1 DEF WithStack
  <2>5. heap.stack - 1 = 0
    BY <2>4
  <2>6. heap' = [heap EXCEPT !.stack = 0]
    BY <2>5, <1>2, Zenon
  <2> QED BY <2>1, <2>3, <2>4, <2>6, <1>2
<1>11. IdleOK'
  BY <1>1, <1>2, <1>9, <1>10 DEF IdleOK, CollectOK, StackOK
<1> QED BY <1>2, <1>3, <1>11 DEF IInv

\* A program that opens or closes an interface changes one flag of its entry.
LEMMA FlagInv ==
  ASSUME IInv, Idle, heap' = heap, NEW i \in 1..Len(vec), NEW x,
         x = [vec[i] EXCEPT !.mmio = TRUE] \/ x = [vec[i] EXCEPT !.mmio = FALSE]
           \/ x = [vec[i] EXCEPT !.interrupt = TRUE] \/ x = [vec[i] EXCEPT !.interrupt = FALSE],
         vec' = [vec EXCEPT ![i] = x]
  PROVE  IInv'
<1>1. TypesOK /\ IdleOK /\ vec \in Seq(InfoType)
  BY DEF IInv, Idle, TypesOK
<1>2. /\ list' = list /\ pass' = pass /\ pass = "idle" /\ calls' = calls /\ head' = head
      /\ top' = top /\ scanned' = scanned /\ index' = index
  BY DEF Idle, stack
<1>3. vec[i] \in InfoType /\ DOMAIN vec = 1..Len(vec) /\ vec # <<>>
  BY <1>1, TableEntries
<1>4. /\ x \in InfoType /\ x.dfh = vec[i].dfh /\ x.parent = vec[i].parent
      /\ x.parameters = vec[i].parameters /\ x.data = vec[i].data
  BY <1>3 DEF InfoType
<1>5. /\ vec' \in Seq(InfoType) /\ Len(vec') = Len(vec)
      /\ \A j \in 1..Len(vec) : vec'[j] = IF j = i THEN x ELSE vec[j]
  BY <1>1, <1>4, ExceptSeq
<1>6. DOMAIN vec' = 1..Len(vec) /\ vec' # <<>>
  BY <1>3, <1>5, TableEntries
<1>7. \A j \in 1..Len(vec) : /\ vec'[j].dfh = vec[j].dfh /\ vec'[j].parent = vec[j].parent
                             /\ vec'[j].parameters = vec[j].parameters
                             /\ vec'[j].data = vec[j].data
  BY <1>4, <1>5
<1>8. Owned(vec') = Owned(vec)
  BY <1>1, <1>5, <1>7, SameOwned
<1>9. TypesOK'
  BY <1>1, <1>2, <1>5 DEF TypesOK
<1>10. TableOK
  BY <1>1, <1>3 DEF IdleOK
<1>11. \A j \in DOMAIN vec' : EntryMatches(j)'
  <2> SUFFICES ASSUME NEW j \in 1..Len(vec) PROVE EntryMatches(j)'
    BY <1>6
  <2>1. EntryMatches(j) /\ j \in Nat
    BY <1>3, <1>10 DEF TableOK
  <2>2. \A k \in 1..(j - 1) : vec'[k].dfh = vec[k].dfh
    <3>1. \A k \in 1..(j - 1) : k \in 1..Len(vec)
      BY Sizes, <1>10 DEF TableOK
    <3> QED BY <3>1, <1>7
  <2> QED BY <2>1, <2>2, <1>2, <1>7, EntryKept
<1>12. TableOK'
  <2>1. {vec'[j].dfh : j \in DOMAIN vec'} = {vec[j].dfh : j \in DOMAIN vec}
    BY <1>3, <1>6, <1>7
  <2> QED BY <2>1, <1>5, <1>10, <1>11 DEF TableOK
<1>13. IdleOK'
  BY <1>1, <1>2, <1>8, <1>12 DEF IdleOK
<1> QED BY <1>2, <1>9, <1>13 DEF IInv

LEMMA CleanupInv == IInv /\ fpga_platform_cleanup => IInv'
<1> SUFFICES ASSUME IInv, fpga_platform_cleanup PROVE IInv'
  OBVIOUS
<1>1. TypesOK /\ IdleOK
  BY DEF IInv, fpga_platform_cleanup, Idle
<1>2. /\ list' = list /\ pass' = pass /\ pass = "idle" /\ calls' = calls /\ head' = head
      /\ top' = top /\ scanned' = scanned /\ index' = index
      /\ vec' = <<>> /\ heap' = Freed(heap, Owned(vec))
  BY DEF fpga_platform_cleanup, Idle, stack
<1>3. heap' = Owned(<<>>)
  BY <1>1, <1>2, FreedAll DEF IdleOK, TypesOK
<1>4. TypesOK'
  BY <1>1, <1>2, EmptySeq DEF TypesOK
<1>5. IdleOK'
  BY <1>1, <1>2, <1>3 DEF IdleOK
<1> QED BY <1>2, <1>4, <1>5 DEF IInv

LEMMA ProgramInv ==
  ASSUME IInv, NEW i \in DOMAIN vec,
         fpga_open(i) \/ fpga_close(i) \/ fpga_interrupt_open(i) \/ fpga_interrupt_close(i)
  PROVE  IInv'
<1>1. i \in 1..Len(vec)
  BY TableEntries DEF IInv, TypesOK
<1>2. Idle /\ heap' = heap
  BY DEF fpga_open, fpga_close, fpga_interrupt_open, fpga_interrupt_close
<1>3. CASE fpga_open(i)
  <2>1. PICK x : x = [vec[i] EXCEPT !.mmio = TRUE]
    OBVIOUS
  <2>2. vec' = [vec EXCEPT ![i] = x]
    BY <2>1, <1>3 DEF fpga_open
  <2> QED BY <2>1, <2>2, <1>1, <1>2, FlagInv
<1>4. CASE fpga_close(i)
  <2>1. PICK x : x = [vec[i] EXCEPT !.mmio = FALSE]
    OBVIOUS
  <2>2. vec' = [vec EXCEPT ![i] = x]
    BY <2>1, <1>4 DEF fpga_close
  <2> QED BY <2>1, <2>2, <1>1, <1>2, FlagInv
<1>5. CASE fpga_interrupt_open(i)
  <2>1. PICK x : x = [vec[i] EXCEPT !.interrupt = TRUE]
    OBVIOUS
  <2>2. vec' = [vec EXCEPT ![i] = x]
    BY <2>1, <1>5 DEF fpga_interrupt_open
  <2> QED BY <2>1, <2>2, <1>1, <1>2, FlagInv
<1>6. CASE fpga_interrupt_close(i)
  <2>1. PICK x : x = [vec[i] EXCEPT !.interrupt = FALSE]
    OBVIOUS
  <2>2. vec' = [vec EXCEPT ![i] = x]
    BY <2>1, <1>6 DEF fpga_interrupt_close
  <2> QED BY <2>1, <2>2, <1>1, <1>2, FlagInv
<1> QED BY <1>3, <1>4, <1>5, <1>6

-----------------------------------------------------------------------------
(* The steps of the recursion. *)

LEMMA WalkingFacts ==
  ASSUME IInv, Walking, NEW c, c = calls, NEW n, n = Len(calls),
         NEW d, d = Frame.dfh, NEW b, b = Frame.block
  PROVE  /\ TypesOK /\ StackOK /\ list \in Lists
         /\ pass \in {"count", "collect"}
         /\ pass = "count" => CountOK
         /\ pass = "collect" => CollectOK
         /\ c # <<>> /\ c \in Seq(FrameType) /\ n = Len(c)
         /\ n \in Nat /\ n >= 1 /\ n \in 1..n /\ n = top
         /\ Frame = c[n] /\ c[n] = [dfh |-> d, block |-> b]
         /\ d \in Dfh /\ b \in Nat
         /\ NextBlock = [dfh |-> d, block |-> b + 1]
         /\ Blocks = list[d].blocks /\ Following = list[d].next
         /\ Len(list[d].blocks) \in Nat
         /\ \E V : Walk(list, V, c)
<1>1. /\ TypesOK /\ list \in Lists /\ pass \in {"count", "collect"}
      /\ pass = "count" => CountOK
      /\ pass = "collect" => CollectOK
  BY DEF IInv, Walking, TypesOK
<1>2. StackOK
  BY <1>1 DEF CountOK, CollectOK
<1>3. c # <<>> /\ c \in Seq(FrameType) /\ n = Len(c)
  BY <1>1 DEF Walking, TypesOK
<1>4. n \in Nat /\ n >= 1 /\ n \in 1..n
  BY <1>3, EmptySeq
<1>5. Frame = c[n] /\ c[n] \in FrameType
  BY <1>3, <1>4, ElementOfSeq DEF Frame
<1>6. c[n] = [dfh |-> d, block |-> b] /\ d \in Dfh /\ b \in Nat
  BY <1>5 DEF FrameType
<1>7. Blocks = list[d].blocks /\ Following = list[d].next
  BY DEF Blocks, Following
<1>8. Len(list[d].blocks) \in Nat
  BY <1>1, <1>6, ListFacts
<1>9. \E V : Walk(list, V, c)
  BY <1>1 DEF CountOK, CollectOK
<1>10. NextBlock = [dfh |-> d, block |-> b + 1]
  <2>1. PICK g : g = Frame
    OBVIOUS
  <2>2. g = [dfh |-> d, block |-> b]
    BY <2>1, <1>5, <1>6
  <2>3. [g EXCEPT !.block = @ + 1] = [dfh |-> d, block |-> b + 1]
    BY <2>2
  <2> QED BY <2>1, <2>3 DEF NextBlock
<1> QED BY <1>10, <1>1, <1>2, <1>3, <1>4, <1>5, <1>6, <1>7, <1>8, <1>9 DEF StackOK

\* A step that meets no header keeps the invariant when it keeps the walk.
LEMMA StepKept ==
  ASSUME IInv, pass \in {"count", "collect"}, pass' = pass,
         list' = list, scanned' = scanned, index' = index, vec' = vec, heap' = heap,
         NEW e, e = calls', \A V : Walk(list, V, calls) => Walk(list, V, e),
         TypesOK', StackOK', pass = "collect" => Parents' /\ LastEntry'
  PROVE  IInv'
<1>1. CASE pass = "count"
  <2>1. CountOK
    BY <1>1 DEF IInv
  <2>2. PICK V \in SUBSET Dfh : Walk(list, V, calls) /\ scanned = Cardinality(V)
    BY <2>1 DEF CountOK
  <2>3. Walk(list', V, calls') /\ scanned' = Cardinality(V)
    BY <2>2
  <2>4. CountOK'
    BY <2>1, <2>3 DEF CountOK
  <2> QED BY <1>1, <2>4 DEF IInv
<1>2. CASE pass = "collect"
  <2>1. CollectOK
    BY <1>2 DEF IInv
  <2>2. Collected' = Collected
    BY DEF Collected
  <2>3. Walk(list', Collected', calls')
    BY <2>1, <2>2 DEF CollectOK
  <2>4. \A i \in 1..Len(vec') :
          IF i <= index' + 1 THEN EntryMatches(i)' ELSE vec'[i] = NoInfo
    <3> SUFFICES ASSUME NEW i \in 1..Len(vec)
                 PROVE  IF i <= index + 1 THEN EntryMatches(i)' ELSE vec[i] = NoInfo
      OBVIOUS
    <3>1. IF i <= index + 1 THEN EntryMatches(i) ELSE vec[i] = NoInfo
      BY <2>1 DEF CollectOK
    <3> QED BY <3>1 DEF EntryMatches
  <2>5. CollectOK'
    BY <2>1, <2>2, <2>3, <2>4, <1>2 DEF CollectOK
  <2> QED BY <1>2, <2>5 DEF IInv
<1> QED BY <1>1, <1>2

LEMMA OtherBlockInv == IInv /\ OtherBlock => IInv'
<1> SUFFICES ASSUME IInv, OtherBlock PROVE IInv'
  OBVIOUS
<1>1. PICK c, n, d, b : c = calls /\ n = Len(calls) /\ d = Frame.dfh /\ b = Frame.block
  OBVIOUS
<1>2. Walking
  BY DEF OtherBlock
<1>3. /\ TypesOK /\ StackOK /\ list \in Lists /\ pass \in {"count", "collect"}
      /\ pass = "collect" => CollectOK
      /\ c # <<>> /\ c \in Seq(FrameType) /\ n = Len(c)
      /\ n \in Nat /\ n >= 1 /\ n \in 1..n
      /\ Frame = c[n] /\ c[n] = [dfh |-> d, block |-> b]
      /\ d \in Dfh /\ b \in Nat /\ Blocks = list[d].blocks
      /\ NextBlock = [dfh |-> d, block |-> b + 1]
  BY <1>1, <1>2, WalkingFacts
<1>4. /\ b \in 1..Len(list[d].blocks) /\ list[d].blocks[b] = 0
      /\ calls' = Return(NextBlock)
      /\ list' = list /\ pass' = pass /\ head' = head /\ top' = top /\ scanned' = scanned
      /\ index' = index /\ vec' = vec /\ heap' = heap
  BY <1>1, <1>3 DEF OtherBlock, stack
<1>5. PICK f : f = [dfh |-> d, block |-> b + 1]
  OBVIOUS
<1>6. f \in FrameType /\ f.dfh = d /\ f.block = b + 1
  BY <1>3, <1>5 DEF FrameType
<1>7. PICK e : e = calls'
  OBVIOUS
<1>8. e = [c EXCEPT ![n] = f]
  BY <1>1, <1>3, <1>4, <1>5, <1>7 DEF Return
<1>9. /\ e \in Seq(FrameType) /\ Len(e) = n
      /\ \A k \in 1..n : e[k] = IF k = n THEN f ELSE c[k]
  BY <1>3, <1>6, <1>8, ExceptSeq
<1>10. \A V : Walk(list, V, c) => Walk(list, V, e)
  <2> SUFFICES ASSUME NEW V, Walk(list, V, c) PROVE Walk(list, V, e)
    OBVIOUS
  <2>1. d = c[Len(c)].dfh /\ b = c[Len(c)].block
    BY <1>3
  <2>2. e = [c EXCEPT ![Len(c)] = [dfh |-> d, block |-> b + 1]]
    BY <1>3, <1>5, <1>8
  <2> QED BY <2>1, <2>2, <1>3, <1>4, WalkSkips
<1>11. TypesOK' /\ StackOK'
  <2>1. TypesOK'
    BY <1>3, <1>4, <1>7, <1>9 DEF TypesOK
  <2>2. StackOK'
    BY <1>1, <1>3, <1>4, <1>7, <1>9 DEF StackOK
  <2> QED BY <2>1, <2>2
<1>12. ASSUME pass = "collect" PROVE Parents' /\ LastEntry'
  <2>1. Parents /\ LastEntry
    BY <1>12, <1>3 DEF CollectOK
  <2>2. Parents'
    <3> SUFFICES ASSUME NEW k \in 1..n
                 PROVE  /\ k = 1 => head[k + 1] = -1
                        /\ k > 1 => Parent(head[k + 1] + 1, e[k - 1].dfh)'
      BY <1>4, <1>7, <1>9 DEF Parents
    <3>1. k = 1 => head[k + 1] = -1
      BY <2>1, <1>1 DEF Parents
    <3>2. ASSUME k > 1 PROVE Parent(head[k + 1] + 1, e[k - 1].dfh)'
      <4>1. k - 1 \in 1..n /\ k - 1 # n
        BY <3>2, <1>3
      <4>2. PICK p, o : p = head[k + 1] + 1 /\ o = c[k - 1].dfh
        OBVIOUS
      <4>3. Parent(p, o)
        BY <4>2, <3>2, <2>1, <1>1 DEF Parents
      <4>4. Parent(p, o)'
        BY <4>3, <1>4 DEF Parent
      <4>5. head'[k + 1] + 1 = p /\ e[k - 1].dfh = o
        BY <4>1, <4>2, <1>4, <1>9
      <4> QED BY <4>4, <4>5, <1>4 DEF Parent
    <3> QED BY <3>1, <3>2
  <2>3. LastEntry'
    <3>1. Frame' = f /\ Blocks' = list[d].blocks
      BY <1>3, <1>4, <1>6, <1>7, <1>9 DEF Frame, Blocks
    <3>2. b > 0 /\ Len(list[d].blocks) \in Nat
      BY <1>3, <1>4, ListFacts
    <3>3. /\ index >= 0 /\ Below(list, vec[index + 1].dfh, d)
          /\ (\A j \in 1..(b - 1) : list[d].blocks[j] = 0) => vec[index + 1].dfh = d
      BY <3>2, <2>1, <1>1, <1>3 DEF LastEntry
    <3>4. (\A j \in 1..((b + 1) - 1) : list[d].blocks[j] = 0) => vec[index + 1].dfh = d
      BY <3>2, <3>3, <1>3
    <3> QED BY <3>1, <3>3, <3>4, <1>4, <1>6 DEF LastEntry
  <2> QED BY <2>2, <2>3
<1> QED BY <1>1, <1>3, <1>4, <1>7, <1>10, <1>11, <1>12, StepKept

LEMMA NextInterfaceInv == IInv /\ NextInterface => IInv'
<1> SUFFICES ASSUME IInv, NextInterface PROVE IInv'
  OBVIOUS
<1>1. PICK c, n, d, b : c = calls /\ n = Len(calls) /\ d = Frame.dfh /\ b = Frame.block
  OBVIOUS
<1>2. Walking
  BY DEF NextInterface, BlocksDone
<1>3. /\ TypesOK /\ StackOK /\ list \in Lists /\ pass \in {"count", "collect"}
      /\ pass = "collect" => CollectOK
      /\ c # <<>> /\ c \in Seq(FrameType) /\ n = Len(c)
      /\ n \in Nat /\ n >= 1 /\ n \in 1..n
      /\ Frame = c[n] /\ c[n] = [dfh |-> d, block |-> b]
      /\ d \in Dfh /\ b \in Nat /\ Blocks = list[d].blocks /\ Following = list[d].next
  BY <1>1, <1>2, WalkingFacts
<1>4. /\ b > Len(list[d].blocks) /\ list[d].next # 0
      /\ calls' = Return(Enter(list[d].next))
      /\ list' = list /\ pass' = pass /\ head' = head /\ top' = top /\ scanned' = scanned
      /\ index' = index /\ vec' = vec /\ heap' = heap
  BY <1>1, <1>3 DEF NextInterface, BlocksDone, stack
<1>5. PICK t, f : t = list[d].next /\ f = [dfh |-> t, block |-> 0]
  OBVIOUS
<1>6. f \in FrameType /\ f.dfh = t /\ f.block = 0
  BY <1>3, <1>4, <1>5, ListFacts DEF FrameType
<1>7. PICK e : e = calls'
  OBVIOUS
<1>8. e = [c EXCEPT ![n] = f]
  BY <1>1, <1>3, <1>4, <1>5, <1>7 DEF Return, Enter
<1>9. /\ e \in Seq(FrameType) /\ Len(e) = n
      /\ \A k \in 1..n : e[k] = IF k = n THEN f ELSE c[k]
  BY <1>3, <1>6, <1>8, ExceptSeq
<1>10. \A V : Walk(list, V, c) => Walk(list, V, e)
  <2> SUFFICES ASSUME NEW V, Walk(list, V, c) PROVE Walk(list, V, e)
    OBVIOUS
  <2>1. d = c[Len(c)].dfh /\ c[Len(c)].block > Len(list[d].blocks)
    BY <1>3, <1>4
  <2>2. e = [c EXCEPT ![Len(c)] = [dfh |-> t, block |-> 0]]
    BY <1>3, <1>5, <1>8
  <2> QED BY <2>1, <2>2, <1>3, <1>4, <1>5, WalkGoesOn
<1>11. TypesOK' /\ StackOK'
  <2>1. TypesOK'
    BY <1>3, <1>4, <1>7, <1>9 DEF TypesOK
  <2>2. StackOK'
    BY <1>1, <1>3, <1>4, <1>7, <1>9 DEF StackOK
  <2> QED BY <2>1, <2>2
<1>12. ASSUME pass = "collect" PROVE Parents' /\ LastEntry'
  <2>1. Parents
    BY <1>12, <1>3 DEF CollectOK
  <2>2. Parents'
    <3> SUFFICES ASSUME NEW k \in 1..n
                 PROVE  /\ k = 1 => head[k + 1] = -1
                        /\ k > 1 => Parent(head[k + 1] + 1, e[k - 1].dfh)'
      BY <1>4, <1>7, <1>9 DEF Parents
    <3>1. k = 1 => head[k + 1] = -1
      BY <2>1, <1>1 DEF Parents
    <3>2. ASSUME k > 1 PROVE Parent(head[k + 1] + 1, e[k - 1].dfh)'
      <4>1. k - 1 \in 1..n /\ k - 1 # n
        BY <3>2, <1>3
      <4>2. PICK p, o : p = head[k + 1] + 1 /\ o = c[k - 1].dfh
        OBVIOUS
      <4>3. Parent(p, o)
        BY <4>2, <3>2, <2>1, <1>1 DEF Parents
      <4>4. Parent(p, o)'
        BY <4>3, <1>4 DEF Parent
      <4>5. head'[k + 1] + 1 = p /\ e[k - 1].dfh = o
        BY <4>1, <4>2, <1>4, <1>9
      <4> QED BY <4>4, <4>5, <1>4 DEF Parent
    <3> QED BY <3>1, <3>2
  <2>3. LastEntry'
    <3>1. Frame' = f
      BY <1>3, <1>7, <1>9 DEF Frame
    <3> QED BY <3>1, <1>6 DEF LastEntry
  <2> QED BY <2>2, <2>3
<1> QED BY <1>1, <1>3, <1>4, <1>7, <1>10, <1>11, <1>12, StepKept

LEMMA EndOfListInv == IInv /\ EndOfList => IInv'
<1> SUFFICES ASSUME IInv, EndOfList PROVE IInv'
  OBVIOUS
<1>1. PICK c, n, d, b : c = calls /\ n = Len(calls) /\ d = Frame.dfh /\ b = Frame.block
  OBVIOUS
<1>2. Walking
  BY DEF EndOfList, BlocksDone
<1>3. /\ TypesOK /\ StackOK /\ list \in Lists /\ pass \in {"count", "collect"}
      /\ pass = "collect" => CollectOK
      /\ c # <<>> /\ c \in Seq(FrameType) /\ n = Len(c)
      /\ n \in Nat /\ n >= 1 /\ n \in 1..n /\ n = top
      /\ Frame = c[n] /\ c[n] = [dfh |-> d, block |-> b]
      /\ d \in Dfh /\ b \in Nat /\ Blocks = list[d].blocks /\ Following = list[d].next
      /\ Len(list[d].blocks) \in Nat
  BY <1>1, <1>2, WalkingFacts
<1>4. /\ b > Len(list[d].blocks) /\ list[d].next = 0
      /\ calls' = Front(calls) /\ top' = top - 1
      /\ list' = list /\ pass' = pass /\ head' = head /\ scanned' = scanned
      /\ index' = index /\ vec' = vec /\ heap' = heap
  BY <1>1, <1>3 DEF EndOfList, BlocksDone, Pop
<1>5. PICK e, m : e = calls' /\ m = n - 1
  OBVIOUS
<1>6. /\ m \in Nat /\ m < n
      /\ \A k \in 1..m : k \in 1..n /\ k # n /\ k < n
      /\ \A k \in 1..m : k > 1 => k - 1 \in 1..m
  BY <1>3, <1>5
<1>7. e \in Seq(FrameType) /\ Len(e) = m /\ \A k \in 1..m : e[k] = c[k]
  <2>1. e = SubSeq(c, 1, m)
    BY <1>1, <1>4, <1>5 DEF Front
  <2>2. \A k \in 1..m : c[k] \in FrameType
    BY <1>3, <1>6, ElementOfSeq
  <2>3. /\ SubSeq(c, 1, m) \in Seq(FrameType)
        /\ Len(SubSeq(c, 1, m)) = IF 1 <= m THEN m - 1 + 1 ELSE 0
        /\ \A k \in 1..(m - 1 + 1) : SubSeq(c, 1, m)[k] = c[1 + k - 1]
    BY <2>2, <1>6, SubSeqProperties
  <2>4. \A k \in 1..m : k \in 1..(m - 1 + 1) /\ 1 + k - 1 = k
    BY <1>6
  <2> QED BY <2>1, <2>3, <2>4, <1>6
<1>8. \A V : Walk(list, V, c) => Walk(list, V, e)
  <2> SUFFICES ASSUME NEW V, Walk(list, V, c) PROVE Walk(list, V, e)
    OBVIOUS
  <2>1. d = c[Len(c)].dfh /\ c[Len(c)].block > Len(list[d].blocks)
    BY <1>3, <1>4
  <2>2. Len(e) = Len(c) - 1 /\ \A k \in 1..Len(e) : e[k] = c[k]
    BY <1>3, <1>5, <1>7
  <2> QED BY <2>1, <2>2, <1>3, <1>4, <1>7, WalkReturns
<1>9. TypesOK' /\ StackOK'
  <2>1. TypesOK'
    BY <1>3, <1>4, <1>5, <1>6, <1>7 DEF TypesOK
  <2>2. StackOK'
    BY <1>3, <1>4, <1>5, <1>7 DEF StackOK, TypesOK
  <2> QED BY <2>1, <2>2
<1>10. ASSUME pass = "collect" PROVE Parents' /\ LastEntry'
  <2>1. Parents /\ LastEntry /\ Walk(list, Collected, c)
    BY <1>10, <1>1, <1>3 DEF CollectOK
  <2>2. Parents'
    <3> SUFFICES ASSUME NEW k \in 1..m
                 PROVE  /\ k = 1 => head[k + 1] = -1
                        /\ k > 1 => Parent(head[k + 1] + 1, e[k - 1].dfh)'
      BY <1>4, <1>5, <1>7 DEF Parents
    <3>1. k = 1 => head[k + 1] = -1
      BY <2>1, <1>1, <1>6 DEF Parents
    <3>2. ASSUME k > 1 PROVE Parent(head[k + 1] + 1, e[k - 1].dfh)'
      <4>1. k - 1 \in 1..m /\ k \in 1..n
        BY <3>2, <1>6
      <4>2. PICK p, o : p = head[k + 1] + 1 /\ o = c[k - 1].dfh
        OBVIOUS
      <4>3. Parent(p, o)
        BY <4>1, <4>2, <3>2, <2>1, <1>1 DEF Parents
      <4>4. Parent(p, o)'
        BY <4>3, <1>4 DEF Parent
      <4>5. head'[k + 1] + 1 = p /\ e[k - 1].dfh = o
        BY <4>1, <4>2, <1>4, <1>7
      <4> QED BY <4>4, <4>5, <1>4 DEF Parent
    <3> QED BY <3>1, <3>2
  <2>3. LastEntry'
    <3> SUFFICES ASSUME e # <<>>
                 PROVE  /\ index >= 0 /\ Below(list, vec[index + 1].dfh, e[m].dfh)
                        /\ ~\A j \in 1..(e[m].block - 1) : list[e[m].dfh].blocks[j] = 0
      BY <1>4, <1>5, <1>7 DEF LastEntry, Frame, Blocks
    <3>1. m \in 1..m /\ m >= 1 /\ n > 1 /\ n - 1 = m /\ m \in 1..n
      BY <1>5, <1>6, <1>7, EmptySeq
    <3>2. PICK f, o, q : f = c[m] /\ o = f.dfh /\ q = f.block
      OBVIOUS
    <3>3. o \in Dfh /\ q \in Nat /\ e[m].dfh = o /\ e[m].block = q
      <4>1. f \in FrameType
        BY <3>1, <3>2, <1>3, ElementOfSeq
      <4>2. e[m] = f
        BY <3>1, <3>2, <1>7
      <4> QED BY <4>1, <4>2, <3>2 DEF FrameType
    <3>4. Owns(list, o, d)
      BY <3>1, <3>2, <3>3, <2>1, <1>3 DEF Walk, Owners
    <3>5. index >= 0 /\ Below(list, vec[index + 1].dfh, d)
      BY <2>1, <1>1, <1>3, <1>4 DEF LastEntry
    <3>6. Below(list, vec[index + 1].dfh, o)
      BY <3>3, <3>4, <3>5, <1>3, BelowOwned
    <3>7. q >= 2 /\ Link(list, o, q - 1) # 0
      BY <3>1, <3>2, <2>1, <1>3, <1>6 DEF Walk, Frames
    <3>8. q - 1 \in 1..(q - 1) /\ q - 1 # 0
      BY <3>3, <3>7
    <3>9. list[o].blocks[q - 1] # 0
      BY <3>7, <3>8 DEF Link
    <3> QED BY <3>3, <3>5, <3>6, <3>8, <3>9
  <2> QED BY <2>2, <2>3
<1> QED BY <1>1, <1>3, <1>4, <1>5, <1>8, <1>9, <1>10, StepKept

\* The entries of the lists a branch leads to know their parent from the stack.
LEMMA BranchParent ==
  ASSUME CollectOK, calls # <<>>, list \in Lists, NEW d \in Dfh, NEW b \in Nat,
         Frame = [dfh |-> d, block |-> b], b \in 1..Len(list[d].blocks), list[d].blocks[b] # 0,
         index \in Int
  PROVE  Parent(index + 1, d)
<1>1. Blocks = list[d].blocks /\ Frame.dfh = d /\ Frame.block = b /\ b > 0
  BY DEF Blocks
<1>2. /\ index >= 0 /\ Below(list, vec[index + 1].dfh, d)
      /\ (\A j \in 1..(b - 1) : list[d].blocks[j] = 0) => vec[index + 1].dfh = d
  BY <1>1 DEF CollectOK, LastEntry
<1>3. ASSUME BranchesOnce(list, d) PROVE vec[index + 1].dfh = d
  <2>1. DOMAIN list[d].blocks = 1..Len(list[d].blocks) /\ Len(list[d].blocks) \in Nat
    BY ListFacts
  <2>2. ASSUME NEW j \in 1..(b - 1) PROVE list[d].blocks[j] = 0
    <3>1. j \in DOMAIN list[d].blocks /\ b \in DOMAIN list[d].blocks /\ j # b
      BY <2>1
    <3> QED BY <3>1, <1>3 DEF BranchesOnce
  <2> QED BY <2>2, <1>2
<1>4. index + 1 \in 1..(index + 1)
  BY <1>2
<1> QED BY <1>2, <1>3, <1>4 DEF Parent

\* A branch for which the stack has no room is as deep as the stack.
LEMMA TooDeep ==
  ASSUME NEW l \in Lists, NEW V, NEW c, Walk(l, V, c), c # <<>>,
         NEW t \in Dfh, \A o \in Dfh : Owns(l, o, t) <=> o = c[Len(c)].dfh,
         Len(c) = DFH_PARENT_STACK_INCR_SIZE - 1
  PROVE  \E w \in [1..DFH_PARENT_STACK_INCR_SIZE -> Dfh] :
           \A k \in 1..(DFH_PARENT_STACK_INCR_SIZE - 1) : Owns(l, w[k], w[k + 1])
<1>1. PICK n, s : n = Len(c) /\ s = DFH_PARENT_STACK_INCR_SIZE
  OBVIOUS
<1>2. /\ n \in Nat /\ n >= 1 /\ s = n + 1 /\ s - 1 = n
      /\ \A k \in 1..n : c[k].dfh \in Dfh
  <2>1. n \in Nat /\ n >= 1 /\ \A k \in 1..n : c[k].dfh \in Dfh
    BY <1>1, WalkFrame
  <2>2. s \in Nat /\ n = s - 1
    BY <1>1, Sizes
  <2> QED BY <2>1, <2>2
<1>3. PICK w : w = [k \in 1..s |-> IF k <= n THEN c[k].dfh ELSE t]
  OBVIOUS
<1>4. w \in [1..s -> Dfh]
  <2>1. \A k \in 1..s : (IF k <= n THEN c[k].dfh ELSE t) \in Dfh
    BY <1>2
  <2> QED BY <2>1, <1>3
<1>5. ASSUME NEW k \in 1..n PROVE Owns(l, w[k], w[k + 1])
  <2>1. w[k] = c[k].dfh /\ k \in Nat /\ c[k].dfh \in Dfh
    BY <1>2, <1>3
  <2>2. CASE k = n
    <3>1. w[k + 1] = t
      BY <2>2, <1>2, <1>3
    <3> QED BY <3>1, <2>1, <2>2, <1>1
  <2>3. CASE k # n
    <3>1. PICK m : m = k + 1
      OBVIOUS
    <3>2. m \in 1..n /\ m > 1 /\ m - 1 = k /\ m \in 1..s /\ m <= n
      BY <3>1, <2>3, <1>2
    <3>3. w[m] = c[m].dfh
      BY <3>2, <1>3
    <3>4. Owns(l, c[k].dfh, c[m].dfh)
      BY <3>2, <2>1, <1>1 DEF Walk, Owners
    <3> QED BY <3>1, <3>3, <3>4, <2>1
  <2> QED BY <2>2, <2>3
<1> QED BY <1>1, <1>2, <1>4, <1>5

LEMMA BranchInv == IInv /\ Branch => IInv'
<1> SUFFICES ASSUME IInv, Branch PROVE IInv'
  OBVIOUS
<1>1. PICK c, n, d, b : c = calls /\ n = Len(calls) /\ d = Frame.dfh /\ b = Frame.block
  OBVIOUS
<1>2. Walking
  BY DEF Branch
<1>3. /\ TypesOK /\ StackOK /\ list \in Lists /\ pass \in {"count", "collect"}
      /\ pass = "collect" => CollectOK
      /\ c # <<>> /\ c \in Seq(FrameType) /\ n = Len(c)
      /\ n \in Nat /\ n >= 1 /\ n \in 1..n /\ n = top
      /\ Frame = c[n] /\ c[n] = [dfh |-> d, block |-> b]
      /\ d \in Dfh /\ b \in Nat /\ Blocks = list[d].blocks
      /\ NextBlock = [dfh |-> d, block |-> b + 1]
      /\ \E V : Walk(list, V, c)
  BY <1>1, <1>2, WalkingFacts
<1>4. PICK t, from, data, during : /\ t = list[d].blocks[b] /\ from = Return(NextBlock)
                                   /\ data = index /\ during = pass
  OBVIOUS
<1>5. /\ b \in 1..Len(list[d].blocks) /\ t # 0
      /\ PushAndCall(data, from, t, during)
      /\ list' = list /\ scanned' = scanned
      /\ index' = index /\ vec' = vec /\ heap' = heap
  BY <1>1, <1>3, <1>4 DEF Branch
<1>6. /\ t \in Dfh /\ Link(list, d, b) = t /\ data \in Int
      /\ \A o \in Dfh : Owns(list, o, t) <=> o = d
  <2>1. t \in Dfh
    BY <1>3, <1>4, <1>5, ListFacts
  <2>2. Link(list, d, b) = t
    BY <1>3, <1>4, <1>5, LinkFacts
  <2>3. \A o \in Dfh : Owns(list, o, t) <=> o = d
    BY <2>2, <1>3, <1>5, BranchOwner
  <2> QED BY <2>1, <2>2, <2>3, <1>3, <1>4 DEF TypesOK
<1>7. /\ top' = top + 1
      /\ IF top + 1 < DFH_PARENT_STACK_INCR_SIZE
         THEN /\ calls' = Append(from, Enter(t)) /\ pass' = during
              /\ head' \in Seq(Int) /\ Len(head') = DFH_PARENT_STACK_INCR_SIZE
              /\ \A k \in 1..DFH_PARENT_STACK_INCR_SIZE :
                   head'[k] = IF k = top + 2 THEN data ELSE head[k]
         ELSE UNCHANGED <<head, calls>> /\ pass' = "overrun"
  BY <1>3, <1>5, <1>6, PushFacts
<1>8. CASE ~(top + 1 < DFH_PARENT_STACK_INCR_SIZE)
  <2>1. pass' = "overrun" /\ head' = head /\ calls' = calls
    BY <1>7, <1>8
  <2>2. TypesOK'
    BY <2>1, <1>3, <1>5, <1>7 DEF TypesOK
  <2>3. Len(c) = DFH_PARENT_STACK_INCR_SIZE - 1
    BY <1>3, <1>8, Sizes DEF StackOK
  <2>4. c[Len(c)].dfh = d
    BY <1>3
  <2>5. NestsDeep
    <3>1. PICK V : Walk(list, V, c)
      BY <1>3
    <3> QED BY <3>1, <2>3, <2>4, <1>3, <1>6, TooDeep DEF NestsDeep
  <2>6. NestsDeep'
    BY <2>5, <1>5 DEF NestsDeep
  <2> QED BY <2>1, <2>2, <2>6 DEF IInv
<1>9. CASE top + 1 < DFH_PARENT_STACK_INCR_SIZE
  <2>1. /\ calls' = Append(from, Enter(t)) /\ pass' = pass
        /\ head' \in Seq(Int) /\ Len(head') = DFH_PARENT_STACK_INCR_SIZE
        /\ \A k \in 1..DFH_PARENT_STACK_INCR_SIZE :
             head'[k] = IF k = n + 2 THEN index ELSE head[k]
    BY <1>3, <1>4, <1>7, <1>9
  <2>2. PICK f, g, e, m : /\ f = [dfh |-> d, block |-> b + 1] /\ g = [dfh |-> t, block |-> 0]
                          /\ e = calls' /\ m = n + 1
    OBVIOUS
  <2>3. f \in FrameType /\ g \in FrameType /\ f.dfh = d /\ g.block = 0
    BY <2>2, <1>3, <1>6 DEF FrameType
  <2>4. /\ m \in Nat /\ m > n /\ m = Len(c) + 1 /\ m - 1 = n
        /\ \A k \in 1..m : k \in 1..n \/ k = m
        /\ \A k \in 1..m : k > n <=> k = m
    BY <2>2, <1>3
  <2>5. from = [c EXCEPT ![n] = f]
    BY <2>2, <1>1, <1>3, <1>4 DEF Return
  <2>12. e = Append(from, g)
    BY <2>1, <2>2 DEF Enter
  <2>6. /\ from \in Seq(FrameType) /\ Len(from) = n
        /\ \A k \in 1..n : from[k] = IF k = n THEN f ELSE c[k]
    <3>1. c \in Seq(FrameType) /\ Len(c) = n /\ n \in 1..Len(c) /\ f \in FrameType
      BY <2>3, <1>3
    <3> QED BY <3>1, <2>5, ExceptSeq
  <2>7. /\ e \in Seq(FrameType) /\ Len(e) = m
        /\ \A k \in 1..m : e[k] = IF k = m THEN g ELSE IF k = n THEN f ELSE c[k]
    <3>1. /\ e \in Seq(FrameType) /\ Len(e) = Len(from) + 1
          /\ \A k \in 1..Len(from) : e[k] = from[k]
          /\ e[Len(from) + 1] = g
      BY <2>3, <2>6, <2>12, AppendProperties
    <3>2. Len(e) = m /\ e[m] = g /\ \A k \in 1..n : e[k] = from[k] /\ k # m
      BY <3>1, <2>2, <2>4, <2>6
    <3> QED BY <3>1, <3>2, <2>4, <2>6
  <2>8. \A V : Walk(list, V, c) => Walk(list, V, e)
    <3> SUFFICES ASSUME NEW V, Walk(list, V, c) PROVE Walk(list, V, e)
      OBVIOUS
    <3>1. d = c[Len(c)].dfh /\ b = c[Len(c)].block
      BY <1>3
    <3>2. \A k \in 1..Len(e) :
            e[k] = IF k > Len(c) THEN [dfh |-> t, block |-> 0]
                   ELSE IF k = Len(c) THEN [dfh |-> d, block |-> b + 1] ELSE c[k]
      BY <2>2, <2>4, <2>7, <1>3
    <3>3. Len(e) = Len(c) + 1
      BY <2>4, <2>7
    <3>4. e \in Seq(FrameType) /\ list \in Lists /\ c # <<>>
      BY <2>7, <1>3
    <3> QED BY <3>1, <3>2, <3>3, <3>4, <1>4, <1>5, WalkBranches
  <2>9. TypesOK'
    BY <2>1, <2>2, <2>7, <1>3, <1>5, <1>7 DEF TypesOK
  <2>10. StackOK'
    BY <2>1, <2>2, <2>4, <2>7, <1>3, <1>7, <1>9 DEF StackOK
  <2>11. ASSUME pass = "collect" PROVE Parents' /\ LastEntry'
    <3>1. CollectOK /\ Parents
      BY <2>11, <1>3 DEF CollectOK
    <3>2. n + 2 \in 1..DFH_PARENT_STACK_INCR_SIZE
      BY <1>3, <1>9, Sizes
    <3>3. \A k \in 1..n : k + 1 \in 1..DFH_PARENT_STACK_INCR_SIZE /\ k + 1 # n + 2
      BY <1>3, <1>9, Sizes
    <3>4. head'[n + 2] = index /\ \A k \in 1..n : head'[k + 1] = head[k + 1]
      BY <2>1, <3>2, <3>3
    <3>5. Parents'
      <4> SUFFICES ASSUME NEW k \in 1..m
                   PROVE  /\ k = 1 => head'[k + 1] = -1
                          /\ k > 1 => Parent(head[k + 1] + 1, e[k - 1].dfh)'
        BY <2>2, <2>7 DEF Parents
      <4>1. CASE k \in 1..n
        <5>1. k = 1 => head'[k + 1] = -1
          BY <4>1, <3>1, <3>4, <1>1 DEF Parents
        <5>2. ASSUME k > 1 PROVE Parent(head[k + 1] + 1, e[k - 1].dfh)'
          <6>1. k - 1 \in 1..n /\ k - 1 \in 1..m /\ k - 1 # n /\ k - 1 # m
            BY <5>2, <4>1, <2>4, <1>3
          <6>2. PICK p, o : p = head[k + 1] + 1 /\ o = c[k - 1].dfh
            OBVIOUS
          <6>3. Parent(p, o)
            BY <6>2, <5>2, <4>1, <3>1, <1>1 DEF Parents
          <6>4. Parent(p, o)'
            BY <6>3, <1>5 DEF Parent
          <6>5. head'[k + 1] + 1 = p /\ e[k - 1].dfh = o
            BY <6>1, <6>2, <4>1, <3>4, <2>7
          <6> QED BY <6>4, <6>5 DEF Parent
        <5> QED BY <5>1, <5>2
      <4>2. CASE k = m
        <5>1. k > 1 /\ k - 1 = n /\ k + 1 = n + 2 /\ n \in 1..m /\ n # m
          BY <4>2, <2>2, <2>4, <1>3
        <5>2. Parent(index + 1, d)
          BY <3>1, <1>1, <1>3, <1>4, <1>5, BranchParent DEF TypesOK
        <5>3. Parent(index + 1, d)'
          BY <5>2, <1>5 DEF Parent
        <5>4. head'[k + 1] = index /\ e[k - 1].dfh = d
          BY <5>1, <3>4, <2>3, <2>7
        <5> QED BY <5>1, <5>3, <5>4, <1>5 DEF Parent
      <4> QED BY <4>1, <4>2, <2>4
    <3>6. LastEntry'
      <4>1. Frame' = g
        BY <2>2, <2>4, <2>7 DEF Frame
      <4> QED BY <4>1, <2>3 DEF LastEntry
    <3> QED BY <3>5, <3>6
  <2> QED BY <2>1, <2>2, <2>8, <2>9, <2>10, <2>11, <1>1, <1>3, <1>5, StepKept
<1> QED BY <1>8, <1>9

\* One header more.
LEMMA OneMore ==
  ASSUME NEW V \in SUBSET Dfh, NEW d \in Dfh \ V
  PROVE  /\ V \cup {d} \in SUBSET Dfh
         /\ Cardinality(V) \in Nat
         /\ Cardinality(V \cup {d}) = Cardinality(V) + 1
         /\ Cardinality(V \cup {d}) <= Cardinality(Dfh)
<1>1. V \cup {d} \in SUBSET Dfh
  OBVIOUS
<1>2. IsFiniteSet(Dfh)
  BY Sizes
<1>3. IsFiniteSet(V) /\ Cardinality(V) \in Nat
  BY <1>2, FS_Subset, FS_CardinalityType
<1>4. Cardinality(V \cup {d}) = Cardinality(V) + 1
  BY <1>3, FS_AddElement
<1>5. Cardinality(V \cup {d}) <= Cardinality(Dfh)
  BY <1>1, <1>2, FS_Subset
<1> QED BY <1>1, <1>3, <1>4, <1>5

LEMMA CountInv == IInv /\ Count => IInv'
<1> SUFFICES ASSUME IInv, Count PROVE IInv'
  OBVIOUS
<1>1. PICK c, n, d, b : c = calls /\ n = Len(calls) /\ d = Frame.dfh /\ b = Frame.block
  OBVIOUS
<1>2. Walking /\ pass = "count"
  BY DEF Count
<1>3. /\ TypesOK /\ StackOK /\ list \in Lists
      /\ pass = "count" => CountOK
      /\ c # <<>> /\ c \in Seq(FrameType) /\ n = Len(c)
      /\ n \in Nat /\ n >= 1 /\ n \in 1..n
      /\ Frame = c[n] /\ c[n] = [dfh |-> d, block |-> b] /\ d \in Dfh
      /\ NextBlock = [dfh |-> d, block |-> b + 1]
  BY <1>1, <1>2, WalkingFacts
<1>4. /\ b = 0 /\ scanned' = scanned + 1 /\ calls' = Return(NextBlock)
      /\ list' = list /\ pass' = pass /\ head' = head /\ top' = top
      /\ index' = index /\ vec' = vec /\ heap' = heap
  BY <1>1 DEF Count, stack
<1>5. PICK f, e : f = [dfh |-> d, block |-> 1] /\ e = calls'
  OBVIOUS
<1>6. e = [c EXCEPT ![n] = f]
  <2>1. NextBlock = f
    BY <1>3, <1>4, <1>5
  <2> QED BY <2>1, <1>1, <1>4, <1>5 DEF Return
<1>7. CountOK
  BY <1>2, <1>3
<1>8. PICK V : V \in SUBSET Dfh /\ Walk(list, V, c) /\ scanned = Cardinality(V)
  BY <1>1, <1>7 DEF CountOK
<1>9. /\ e \in Seq(FrameType) /\ Len(e) = n
      /\ \A k \in 1..n : e[k] = IF k = n THEN f ELSE c[k]
  <2>1. c \in Seq(FrameType) /\ n \in 1..Len(c) /\ f \in FrameType
    BY <1>3, <1>5 DEF FrameType
  <2>2. /\ e \in Seq(FrameType) /\ Len(e) = Len(c)
        /\ \A k \in 1..Len(c) : e[k] = IF k = n THEN f ELSE c[k]
    BY <2>1, <1>6, ExceptSeq
  <2> QED BY <2>2, <1>3
<1>10. d \in Dfh \ V /\ Walk(list, V \cup {d}, e)
  <2>0. PICK W : W = V \cup {d}
    OBVIOUS
  <2>1. c[Len(c)] = [dfh |-> d, block |-> 0]
    BY <1>3, <1>4
  <2>2. /\ e \in Seq(FrameType) /\ Len(e) = Len(c)
        /\ \A k \in 1..Len(e) : e[k] = IF k = Len(c) THEN [dfh |-> d, block |-> 1] ELSE c[k]
    BY <1>3, <1>5, <1>9
  <2>3. list \in Lists /\ c # <<>> /\ Walk(list, V, c) /\ W = V \cup {d}
    BY <2>0, <1>3, <1>8
  <2>4. d \in Dfh /\ d \notin V /\ Walk(list, W, e)
    BY <2>1, <2>2, <2>3, WalkVisits
  <2> QED BY <2>0, <2>4
<1>11. V \cup {d} \in SUBSET Dfh /\ scanned' = Cardinality(V \cup {d})
  BY <1>4, <1>8, <1>10, OneMore
<1>12. TypesOK'
  <2>1. scanned' \in Nat
    BY <1>3, <1>4 DEF TypesOK
  <2> QED BY <2>1, <1>3, <1>4, <1>5, <1>9 DEF TypesOK
<1>13. StackOK'
  BY <1>1, <1>3, <1>4, <1>5, <1>9 DEF StackOK
<1>14. Walk(list', V \cup {d}, calls')
  BY <1>4, <1>5, <1>10
<1>15. CountOK'
  BY <1>4, <1>7, <1>11, <1>13, <1>14 DEF CountOK
<1> QED BY <1>2, <1>4, <1>12, <1>15 DEF IInv

\* What an interface is recorded with.
LEMMA InfoFacts ==
  ASSUME list \in Lists, NEW d \in Dfh, Peek \in Int
  PROVE  /\ Info(d) \in InfoType /\ Info(d).dfh = d /\ Info(d).parent = Peek
         /\ Info(d).data = NewData(d) /\ OneIf(Info(d).parameters > 0) = NewArray(d)
<1>1. PICK s, k : s = list[d].blocks /\ k = Len(s)
  OBVIOUS
<1>2. s \in Seq(Dfh \cup {0}) /\ k \in Nat
  BY <1>1, ListFacts
<1>3. s = <<>> <=> k = 0
  BY <1>1, <1>2, EmptySeq
<1>4. Parameters(d) \in Nat /\ (Parameters(d) > 0 <=> s # <<>>)
  <2>1. PICK z : z = OneIf(list[d].null)
    OBVIOUS
  <2>2. z \in Nat
    BY <2>1 DEF OneIf
  <2>3. Parameters(d) = IF s = <<>> THEN 0 ELSE k + z
    BY <2>1, <1>1 DEF Parameters
  <2> QED BY <2>2, <2>3, <1>2, <1>3
<1>5. NewData(d) \in Nat
  BY <1>1, <1>2 DEF NewData
<1>6. OneIf(Parameters(d) > 0) = NewArray(d)
  BY <1>1, <1>4 DEF NewArray, OneIf
<1> QED BY <1>4, <1>5, <1>6 DEF Info, InfoType

LEMMA CollectOneInv == IInv /\ CollectOne => IInv'
<1> SUFFICES ASSUME IInv, CollectOne PROVE IInv'
  OBVIOUS
<1>1. PICK c, n, d, b : c = calls /\ n = Len(calls) /\ d = Frame.dfh /\ b = Frame.block
  OBVIOUS
<1>2. Walking /\ pass = "collect"
  BY DEF CollectOne
<1>3. /\ TypesOK /\ StackOK /\ list \in Lists
      /\ pass = "collect" => CollectOK
      /\ c # <<>> /\ c \in Seq(FrameType) /\ n = Len(c)
      /\ n \in Nat /\ n >= 1 /\ n \in 1..n /\ n = top
      /\ Frame = c[n] /\ c[n] = [dfh |-> d, block |-> b] /\ d \in Dfh
      /\ NextBlock = [dfh |-> d, block |-> b + 1]
  BY <1>1, <1>2, WalkingFacts
<1>4. CollectOK /\ b = 0 /\ index \in Int /\ vec \in Seq(InfoType) /\ head \in Seq(Int)
  BY <1>1, <1>2, <1>3 DEF CollectOne, TypesOK
<1>5. PICK V, f, e : V = Collected /\ f = [dfh |-> d, block |-> 1] /\ e = [c EXCEPT ![n] = f]
  OBVIOUS
<1>6. Walk(list, V, c) /\ V \in SUBSET Dfh /\ Cardinality(V) = index + 1
  BY <1>1, <1>4, <1>5 DEF CollectOK, Walk
<1>21. e \in Seq(FrameType) /\ Len(e) = n /\ \A k \in 1..n : e[k] = IF k = n THEN f ELSE c[k]
  <2>1. c \in Seq(FrameType) /\ n \in 1..Len(c) /\ f \in FrameType
    BY <1>3, <1>5 DEF FrameType
  <2>2. /\ e \in Seq(FrameType) /\ Len(e) = Len(c)
        /\ \A k \in 1..Len(c) : e[k] = IF k = n THEN f ELSE c[k]
    BY <2>1, <1>5, ExceptSeq
  <2> QED BY <2>2, <1>3
<1>7. d \in Dfh \ V /\ Walk(list, V \cup {d}, e)
  <2>0. PICK W : W = V \cup {d}
    OBVIOUS
  <2>1. c[Len(c)] = [dfh |-> d, block |-> 0]
    BY <1>3, <1>4
  <2>2. /\ e \in Seq(FrameType) /\ Len(e) = Len(c)
        /\ \A k \in 1..Len(e) : e[k] = IF k = Len(c) THEN [dfh |-> d, block |-> 1] ELSE c[k]
    BY <1>3, <1>5, <1>21
  <2>3. list \in Lists /\ c # <<>> /\ Walk(list, V, c)
    BY <1>3, <1>6
  <2>4. d \in Dfh /\ d \notin V /\ Walk(list, W, e)
    BY <2>0, <2>1, <2>2, <2>3, WalkVisits
  <2> QED BY <2>0, <2>4
<1>8. PICK i : i = index + 2
  OBVIOUS
<1>9. /\ i \in Nat /\ i >= 1 /\ i - 1 = index + 1 /\ index + 1 \in Nat
      /\ i <= Cardinality(Dfh) /\ Len(vec) = Cardinality(Dfh)
      /\ Cardinality(V \cup {d}) = i
  <2>1. /\ Cardinality(V) \in Nat /\ Cardinality(V \cup {d}) = Cardinality(V) + 1
        /\ Cardinality(V \cup {d}) <= Cardinality(Dfh)
    BY <1>6, <1>7, OneMore
  <2>2. Len(vec) = Cardinality(Dfh)
    BY <1>4 DEF CollectOK
  <2> QED BY <2>1, <2>2, <1>4, <1>6, <1>8
<1>10. i \in 1..Len(vec) /\ i \in Dfh
  BY <1>9, Sizes
<1>11. PICK x : x = Info(d)
  OBVIOUS
<1>12. /\ index' = index + 1 /\ index' = i - 1
       /\ vec' = [vec EXCEPT ![i] = x]
       /\ heap' = [heap EXCEPT !.at[i] = @ + NewData(d) + NewArray(d)]
       /\ calls' = e /\ pass' = pass
       /\ list' = list /\ head' = head /\ top' = top /\ scanned' = scanned
  <2>1. index' = index + 1 /\ index' + 1 = i /\ index' < Len(vec)
    BY <1>4, <1>8, <1>9, Sizes DEF CollectOne
  <2>2. NextBlock = f
    BY <1>3, <1>4, <1>5
  <2>3. Return(NextBlock) = e
    BY <2>2, <1>1, <1>5 DEF Return
  <2>4. /\ vec' = [vec EXCEPT ![index' + 1] = Info(d)]
        /\ heap' = [heap EXCEPT !.at[index' + 1] = @ + NewData(d) + NewArray(d)]
        /\ calls' = Return(NextBlock) /\ pass' = pass
        /\ list' = list /\ head' = head /\ top' = top /\ scanned' = scanned
    BY <2>1, <1>1 DEF CollectOne, stack
  <2> QED BY <2>1, <2>3, <2>4, <1>9, <1>11
<1>13. Peek = head[n + 1] /\ Peek \in Int
  <2>1. n + 1 \in 1..Len(head)
    BY <1>3, Sizes DEF StackOK
  <2> QED BY <2>1, <1>3, <1>4, ElementOfSeq DEF Peek
<1>14. /\ x \in InfoType /\ x.dfh = d /\ x.parent = head[n + 1]
       /\ x.data = NewData(d) /\ OneIf(x.parameters > 0) = NewArray(d)
  BY <1>3, <1>7, <1>11, <1>13, InfoFacts
<1>15. vec[i] = NoInfo
  <2>1. ~(i <= index + 1)
    BY <1>4, <1>8
  <2> QED BY <2>1, <1>4, <1>10 DEF CollectOK
<1>16. PICK w : w = vec'
  OBVIOUS
<1>17. /\ w \in Seq(InfoType) /\ Len(w) = Len(vec)
       /\ \A j \in 1..Len(vec) : w[j] = IF j = i THEN x ELSE vec[j]
  BY <1>4, <1>10, <1>12, <1>14, <1>16, ExceptSeq
<1>18. /\ w[i] = x
       /\ \A j \in 1..(index + 1) : j \in 1..Len(vec) /\ j # i /\ w[j] = vec[j]
  <2>1. \A j \in 1..(index + 1) : j \in 1..Len(vec) /\ j # i
    BY <1>4, <1>8, <1>9, Sizes
  <2> QED BY <2>1, <1>10, <1>17
<1>19. heap' = WithStack(Owned(w))
  <2>1. PICK o, q, a, g, z : /\ o = Owned(vec) /\ q = Owned(w) /\ a = o.at /\ g = q.at
                             /\ z = (IF x.parameters > 0 THEN 1 ELSE 0) + x.data
    OBVIOUS
  <2>2. /\ o = [stack |-> 0, table |-> 1, at |-> a] /\ q = [stack |-> 0, table |-> 1, at |-> g]
        /\ a[i] = 0 /\ g = [a EXCEPT ![i] = z]
    <3>1. PICK v : v = vec
      OBVIOUS
    <3>2. /\ v \in Seq(InfoType) /\ i \in 1..Len(v) /\ i \in Dfh /\ v[i] = NoInfo
          /\ x \in InfoType /\ w \in Seq(InfoType) /\ Len(w) = Len(v)
          /\ z = (IF x.parameters > 0 THEN 1 ELSE 0) + x.data
      BY <3>1, <2>1, <1>4, <1>10, <1>14, <1>15, <1>17
    <3>3. \A j \in 1..Len(v) : w[j] = IF j = i THEN x ELSE v[j]
      BY <3>1, <1>17
    <3>4. /\ Owned(v) = [stack |-> 0, table |-> 1, at |-> Owned(v).at]
          /\ Owned(w) = [stack |-> 0, table |-> 1, at |-> Owned(w).at]
          /\ Owned(v).at[i] = 0 /\ Owned(w).at = [Owned(v).at EXCEPT ![i] = z]
      BY <3>2, <3>3, FilledEntry
    <3> QED BY <3>1, <3>4, <2>1
  <2>3. heap = [stack |-> 1, table |-> 1, at |-> a]
    <3>1. heap = WithStack(o)
      BY <2>1, <1>4 DEF CollectOK
    <3> QED BY <3>1, <2>2 DEF WithStack
  <2>4. a[i] + NewData(d) + NewArray(d) = z
    <3>1. x.data \in Int
      BY <1>14 DEF InfoType
    <3> QED BY <3>1, <2>1, <2>2, <1>14 DEF OneIf
  <2>5. heap' = [stack |-> 1, table |-> 1, at |-> g]
    <3>1. heap.at[i] + NewData(d) + NewArray(d) = z
      BY <2>3, <2>4
    <3>2. heap' = [heap EXCEPT !.at[i] = z]
      BY <3>1, <1>12, Zenon
    <3> QED BY <3>2, <2>2, <2>3
  <2> QED BY <2>1, <2>2, <2>5 DEF WithStack
<1>20. Collected' = V \cup {d}
  <2>1. Collected' = {w[j].dfh : j \in 1..i}
    BY <1>4, <1>8, <1>12, <1>16 DEF Collected
  <2>2. \A j \in 1..i : j \in 1..(index + 1) \/ j = i
    BY <1>4, <1>8
  <2>3. \A j \in 1..(index + 1) : j \in 1..i
    BY <1>4, <1>8
  <2>4. i \in 1..i
    BY <1>9
  <2>5. V = {vec[j].dfh : j \in 1..(index + 1)}
    BY <1>5 DEF Collected
  <2> QED BY <2>1, <2>2, <2>3, <2>4, <2>5, <1>14, <1>18
<1>22. \A k \in 1..n : e[k].dfh = c[k].dfh
  <2>1. f.dfh = d /\ c[n].dfh = d
    BY <1>3, <1>5
  <2> QED BY <2>1, <1>21
<1>23. TypesOK'
  <2>1. index' \in Int /\ index' >= -1
    BY <1>9, <1>12
  <2> QED BY <2>1, <1>3, <1>12, <1>16, <1>17, <1>21 DEF TypesOK
<1>24. StackOK'
  BY <1>1, <1>3, <1>12, <1>21 DEF StackOK
<1>25. EntryMatches(i)'
  <2>1. w[i].dfh = d /\ w[i].parent = head[n + 1] /\ d \in Dfh
    BY <1>7, <1>14, <1>18
  <2>2. \A o \in Dfh : Owns(list, o, d) <=> n > 1 /\ o = c[n - 1].dfh
    <3>1. c[n].dfh = d
      BY <1>3
    <3> QED BY <3>1, <1>3, <1>6 DEF Walk, Owners
  <2>3. Parents
    BY <1>4 DEF CollectOK
  <2>4. PICK p : p = w[i].parent + 1
    OBVIOUS
  <2>5. ASSUME \A o \in Dfh : ~Owns(list, o, d) PROVE p = 0
    <3>1. n = 1
      <4>1. n > 1 => c[n - 1].dfh \in Dfh
        <5>1. n > 1 => n - 1 \in 1..Len(c)
          BY <1>3
        <5> QED BY <5>1, <1>3, <1>6, WalkFrame
      <4> QED BY <4>1, <2>2, <2>5, <1>3
    <3>2. head[n + 1] = -1
      BY <3>1, <2>3, <1>1, <1>3 DEF Parents
    <3> QED BY <3>2, <2>1, <2>4
  <2>6. ASSUME NEW o \in Dfh, Owns(list, o, d)
        PROVE  /\ p \in 1..(i - 1) /\ Below(list, w[p].dfh, o)
               /\ BranchesOnce(list, o) => w[p].dfh = o
    <3>1. n > 1 /\ o = c[n - 1].dfh
      BY <2>2, <2>6
    <3>2. Parent(p, o)
      BY <3>1, <2>1, <2>3, <2>4, <1>1, <1>3 DEF Parents
    <3>3. p \in 1..(index + 1) /\ w[p] = vec[p]
      BY <3>2, <1>18 DEF Parent
    <3> QED BY <3>2, <3>3, <1>9 DEF Parent
  <2> QED BY <2>1, <2>4, <2>5, <2>6, <1>12, <1>16 DEF EntryMatches
<1>26. \A j \in 1..Len(vec') : IF j <= index' + 1 THEN EntryMatches(j)' ELSE vec'[j] = NoInfo
  <2> SUFFICES ASSUME NEW j \in 1..Len(vec)
               PROVE  IF j <= i THEN EntryMatches(j)' ELSE w[j] = NoInfo
    <3>1. index' + 1 = i
      BY <1>9, <1>12
    <3> QED BY <3>1, <1>16, <1>17
  <2>1. j \in Nat /\ (IF j <= index + 1 THEN EntryMatches(j) ELSE vec[j] = NoInfo)
    BY <1>4 DEF CollectOK
  <2>2. CASE j <= index + 1
    <3>1. EntryMatches(j)
      BY <2>1, <2>2
    <3>2. j \in 1..(index + 1) /\ \A k \in 1..(j - 1) : k \in 1..(index + 1)
      BY <2>1, <2>2, <1>4
    <3>3. w[j] = vec[j] /\ \A k \in 1..(j - 1) : w[k].dfh = vec[k].dfh
      BY <3>2, <1>18
    <3>4. EntryMatches(j)'
      BY <3>1, <3>3, <2>1, <1>12, <1>16, EntryKept
    <3> QED BY <3>4, <2>2, <1>4, <1>8
  <2>3. CASE j = i
    BY <2>3, <1>9, <1>25
  <2>4. CASE j > i
    <3>1. ~(j <= i) /\ ~(j <= index + 1) /\ j # i
      BY <2>4, <1>4, <1>8
    <3> QED BY <3>1, <2>1, <1>17
  <2> QED BY <2>1, <2>2, <2>3, <2>4, <1>4, <1>8
<1>27. Parents'
  <2> SUFFICES ASSUME NEW k \in 1..n
               PROVE  /\ k = 1 => head[k + 1] = -1
                      /\ k > 1 => Parent(head[k + 1] + 1, e[k - 1].dfh)'
    BY <1>12, <1>21 DEF Parents
  <2>1. Parents
    BY <1>4 DEF CollectOK
  <2>2. k = 1 => head[k + 1] = -1
    BY <2>1, <1>1 DEF Parents
  <2>3. ASSUME k > 1 PROVE Parent(head[k + 1] + 1, e[k - 1].dfh)'
    <3>1. k - 1 \in 1..n
      BY <2>3, <1>3
    <3>2. PICK p, o : p = head[k + 1] + 1 /\ o = c[k - 1].dfh
      OBVIOUS
    <3>3. Parent(p, o)
      BY <3>2, <2>3, <2>1, <1>1 DEF Parents
    <3>4. p \in 1..(index + 1) /\ p \in 1..(index' + 1) /\ w[p] = vec[p]
      BY <3>3, <1>4, <1>12, <1>18 DEF Parent
    <3>5. Parent(p, o)'
      BY <3>3, <3>4, <1>12, <1>16 DEF Parent
    <3>6. head'[k + 1] + 1 = p /\ e[k - 1].dfh = o
      BY <3>1, <3>2, <1>12, <1>22
    <3> QED BY <3>5, <3>6, <1>12 DEF Parent
  <2> QED BY <2>2, <2>3
<1>28. LastEntry'
  <2>1. Frame' = f /\ f.dfh = d /\ f.block = 1
    BY <1>3, <1>5, <1>12, <1>21 DEF Frame
  <2>2. index' >= 0 /\ index' + 1 = i
    BY <1>9, <1>12
  <2>3. vec'[index' + 1].dfh = d
    BY <2>2, <1>14, <1>16, <1>18
  <2> QED BY <2>1, <2>2, <2>3, BelowSelf DEF LastEntry
<1>29. Walk(list', Collected', calls') /\ Cardinality(Collected') = index' + 1
  BY <1>7, <1>9, <1>12, <1>20
<1>30. Len(vec') = Cardinality(Dfh) /\ heap' = WithStack(Owned(vec'))
  BY <1>9, <1>16, <1>17, <1>19
<1>31. CollectOK'
  BY <1>24, <1>26, <1>27, <1>28, <1>29, <1>30 DEF CollectOK
<1> QED BY <1>2, <1>12, <1>23, <1>31 DEF IInv

-----------------------------------------------------------------------------
(* The theorems. *)

LEMMA NextInv == IInv /\ [Next]_vars => IInv'
<1> SUFFICES ASSUME IInv, [Next]_vars PROVE IInv'
  OBVIOUS
<1>1. CASE Scan
  BY <1>1, ScanInv
<1>2. CASE CollectAll
  BY <1>2, CollectAllInv
<1>3. CASE Finish
  BY <1>3, FinishInv
<1>4. CASE Count
  BY <1>4, CountInv
<1>5. CASE CollectOne
  BY <1>5, CollectOneInv
<1>6. CASE Branch
  BY <1>6, BranchInv
<1>7. CASE OtherBlock
  BY <1>7, OtherBlockInv
<1>8. CASE NextInterface
  BY <1>8, NextInterfaceInv
<1>9. CASE EndOfList
  BY <1>9, EndOfListInv
<1>10. CASE fpga_platform_cleanup
  BY <1>10, CleanupInv
<1>11. CASE \E i \in DOMAIN vec : \/ fpga_open(i) \/ fpga_close(i)
                                  \/ fpga_interrupt_open(i) \/ fpga_interrupt_close(i)
  BY <1>11, ProgramInv
<1>12. CASE UNCHANGED vars
  <2>1. /\ list' = list /\ pass' = pass /\ calls' = calls /\ head' = head /\ top' = top
        /\ scanned' = scanned /\ index' = index /\ vec' = vec /\ heap' = heap
    BY <1>12 DEF vars, stack
  <2>2. TypesOK'
    BY <2>1 DEF IInv, TypesOK
  <2>3. IdleOK => IdleOK'
    BY <2>1 DEF IdleOK, TableOK, EntryMatches
  <2>4. StackOK => StackOK'
    BY <2>1 DEF StackOK
  <2>5. CountOK => CountOK'
    BY <2>1, <2>4 DEF CountOK
  <2>6. CollectOK => CollectOK'
    <3>1. Parents => Parents'
      BY <2>1 DEF Parents, Parent
    <3>2. LastEntry => LastEntry'
      BY <2>1 DEF LastEntry, Frame, Blocks
    <3>3. Collected' = Collected
      BY <2>1 DEF Collected
    <3>4. \A i \in 1..Len(vec) : EntryMatches(i) => EntryMatches(i)'
      BY <2>1 DEF EntryMatches
    <3> QED BY <2>1, <2>4, <3>1, <3>2, <3>3, <3>4 DEF CollectOK
  <2>7. NestsDeep => NestsDeep'
    BY <2>1 DEF NestsDeep
  <2> QED BY <2>1, <2>2, <2>3, <2>5, <2>6, <2>7 DEF IInv
<1> QED BY <1>1, <1>2, <1>3, <1>4, <1>5, <1>6, <1>7, <1>8, <1>9, <1>10, <1>11, <1>12 DEF Next

\* IInv holds at every step of the walker: in each pass the frames of the recursion
\* and the headers met so far are those of a Walk.
THEOREM Invariance == Spec => []IInv
<1>1. Init => IInv
  BY InitInv
<1>2. IInv /\ [Next]_vars => IInv'
  BY NextInv
<1> QED BY <1>1, <1>2, PTL DEF Spec

\* After a scan the table has one entry for each header in memory and no other, and
\* the entry of each knows its parent: whatever the tree of lists, the second pass of
\* fpga_platform_init meets the interfaces that the first one counted.
THEOREM TableTheorem == Spec => []TableMatchesList
<1>1. IInv => TableMatchesList
  BY DEF IInv, IdleOK, TableOK, TableMatchesList
<1> QED BY <1>1, Invariance, PTL

\* dfh_parent_stack overruns its array only on lists that branch as deep as its
\* piece is long: on any other tree, whatever its size, no push is outside.
THEOREM StackTheorem == Spec => []StackHolds
<1>1. IInv => StackHolds
  BY DEF IInv, NestsDeep, StackHolds
<1> QED BY <1>1, Invariance, PTL

\* With the table empty nothing that the walk or the table allocated is left.
THEOREM LeakTheorem == Spec => []NoLeak
<1>1. IInv => NoLeak
  BY DEF IInv, IdleOK, NoLeak
<1> QED BY <1>1, Invariance, PTL
=============================================================================
