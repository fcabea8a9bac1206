------------------------- MODULE FrameFences_proofs -------------------------
(***************************************************************************)
(* Every place of hwc_set that holds a descriptor holds an open one of its *)
(* own, and only the fences of two paths, which Lost names, are left open  *)
(* beyond them (DescriptorsKept); nothing is shown, blitted or rotated     *)
(* from a buffer somebody still writes (WaitsForWriters), and no buffer is *)
(* given back that is still read (BuffersFree): for any layers, kinds of   *)
(* frames, ring of render buffers and whatever calls fail.                 *)
(*                                                                         *)
(* Bags are compared copy by copy: what a step takes out of the bag was in *)
(* it, and what is left is what the places of hwc_set hold. What a frame   *)
(* waits for is followed from its acquire fences, through the jobs queued  *)
(* for it, to the fences of its sync; what is given back, to the last      *)
(* event that can read it.                                                 *)
(***************************************************************************)
EXTENDS FrameFences, FiniteSetTheorems, SequenceTheorems, TLAPS

----------------------------------------------------------------------------
(* Bags, by the copies of each element.                                    *)

Copies(B, f) == IF f \in DOMAIN B THEN B[f] ELSE 0

LEMMA CopiesNat ==
  ASSUME NEW B, IsABag(B), NEW f
  PROVE  Copies(B, f) \in Nat
BY DEF Copies, IsABag

LEMMA SameCopies ==
  ASSUME NEW A, NEW B, IsABag(A), IsABag(B), \A f : Copies(A, f) = Copies(B, f)
  PROVE  A = B
<1>1. \A f : f \in DOMAIN A <=> Copies(A, f) # 0
  BY DEF Copies, IsABag
<1>2. \A f : f \in DOMAIN B <=> Copies(B, f) # 0
  BY DEF Copies, IsABag
<1>3. DOMAIN A = DOMAIN B
  BY <1>1, <1>2
<1>4. \A f \in DOMAIN A : A[f] = B[f]
  BY <1>3 DEF Copies
<1> QED  BY <1>3, <1>4 DEF IsABag

LEMMA EmptyCopies == IsABag(EmptyBag) /\ \A f : Copies(EmptyBag, f) = 0
BY DEF EmptyBag, SetToBag, IsABag, Copies

LEMMA PlusCopies ==
  ASSUME NEW A, NEW B, IsABag(A), IsABag(B)
  PROVE  IsABag(A (+) B) /\ \A f : Copies(A (+) B, f) = Copies(A, f) + Copies(B, f)
<1>1. /\ DOMAIN (A (+) B) = DOMAIN A \cup DOMAIN B
      /\ \A f \in DOMAIN (A (+) B) : (A (+) B)[f] = Copies(A, f) + Copies(B, f)
      /\ A (+) B = [f \in DOMAIN A \cup DOMAIN B |-> Copies(A, f) + Copies(B, f)]
  BY DEF (+), Copies
<1>2. \A f : Copies(A, f) \in Nat /\ Copies(B, f) \in Nat
  BY CopiesNat
<1>3. \A f : /\ f \in DOMAIN A <=> Copies(A, f) > 0
             /\ f \in DOMAIN B <=> Copies(B, f) > 0
  BY DEF Copies, IsABag
<1>4. IsABag(A (+) B)
  BY <1>1, <1>2, <1>3 DEF IsABag
<1>5. \A f : Copies(A (+) B, f) = Copies(A, f) + Copies(B, f)
  <2> TAKE f
  <2>1. CASE f \in DOMAIN A \cup DOMAIN B
    BY <1>1, <2>1 DEF Copies
  <2>2. CASE f \notin DOMAIN A \cup DOMAIN B
    BY <1>1, <2>2 DEF Copies
  <2> QED  BY <2>1, <2>2
<1> QED  BY <1>4, <1>5

LEMMA MinusCopies ==
  ASSUME NEW A, NEW B, IsABag(A), IsABag(B), \A f : Copies(B, f) <= Copies(A, f)
  PROVE  IsABag(A (-) B) /\ \A f : Copies(A (-) B, f) = Copies(A, f) - Copies(B, f)
<1> DEFINE D == [f \in DOMAIN A |-> IF f \in DOMAIN B THEN A[f] - B[f] ELSE A[f]]
           P == {f \in DOMAIN D : D[f] > 0}
<1>1. A (-) B = [f \in P |-> D[f]]
  BY DEF (-)
<1>2. \A f \in DOMAIN A : D[f] = Copies(A, f) - Copies(B, f)
  BY DEF Copies, IsABag
<1>3. \A f : Copies(A, f) \in Nat /\ Copies(B, f) \in Nat
  BY CopiesNat
<1>4. DOMAIN D = DOMAIN A
  OBVIOUS
<1> HIDE DEF D
<1>5. \A f : f \in P <=> Copies(A, f) - Copies(B, f) > 0
  <2> TAKE f
  <2>1. f \in DOMAIN A <=> Copies(A, f) > 0
    BY DEF Copies, IsABag
  <2> QED  BY <1>2, <1>3, <1>4, <2>1
<1>6. \A f \in P : D[f] = Copies(A, f) - Copies(B, f)
  BY <1>2, <1>4
<1> HIDE DEF P
<1>7. IsABag(A (-) B)
  BY <1>1, <1>3, <1>5, <1>6 DEF IsABag
<1>8. \A f : Copies(A (-) B, f) = Copies(A, f) - Copies(B, f)
  <2> TAKE f
  <2>1. CASE f \in P
    BY <1>1, <1>6, <2>1 DEF Copies
  <2>2. CASE f \notin P
    <3>1. Copies(A (-) B, f) = 0
      BY <1>1, <2>2 DEF Copies
    <3> QED  BY <1>3, <1>5, <2>2, <3>1
  <2> QED  BY <2>1, <2>2
<1> QED  BY <1>7, <1>8

----------------------------------------------------------------------------
(* The descriptors of one place, and of an array of them.                  *)

Holders(F, f) == {s \in DOMAIN F : F[s] = f}

LEMMA FdCopies ==
  ASSUME NEW g
  PROVE  /\ IsABag(Fd(g))
         /\ \A f : Copies(Fd(g), f) = IF f = g /\ f # None THEN 1 ELSE 0
BY EmptyCopies DEF Fd, SetToBag, IsABag, Copies

LEMMA FdsCopies ==
  ASSUME NEW F, IsFiniteSet(DOMAIN F)
  PROVE  /\ IsABag(FdsOf(F))
         /\ \A f : Copies(FdsOf(F), f) = IF f = None THEN 0 ELSE Cardinality(Holders(F, f))
         /\ \A f : IsFiniteSet(Holders(F, f)) /\ Cardinality(Holders(F, f)) \in Nat
<1> DEFINE held == {F[s] : s \in DOMAIN F} \ {None}
<1>1. FdsOf(F) = [f \in held |-> Cardinality(Holders(F, f))]
  BY DEF FdsOf, Holders
<1>2. ASSUME NEW f  PROVE IsFiniteSet(Holders(F, f)) /\ Cardinality(Holders(F, f)) \in Nat
  <2>1. Holders(F, f) \subseteq DOMAIN F
    BY DEF Holders
  <2> QED  BY <2>1, FS_Subset, FS_CardinalityType
<1>3. ASSUME NEW f \in held  PROVE Cardinality(Holders(F, f)) # 0
  <2>1. Holders(F, f) # {}
    BY DEF Holders
  <2> QED  BY <1>2, <2>1, FS_EmptySet
<1>4. ASSUME NEW f, f \notin held, f # None  PROVE Cardinality(Holders(F, f)) = 0
  <2>1. Holders(F, f) = {}
    BY <1>4 DEF Holders
  <2> QED  BY <2>1, FS_EmptySet
<1>5. None \notin held
  OBVIOUS
<1> HIDE DEF held
<1>6. IsABag(FdsOf(F))
  BY <1>1, <1>2, <1>3 DEF IsABag
<1>7. \A f : Copies(FdsOf(F), f) = IF f = None THEN 0 ELSE Cardinality(Holders(F, f))
  <2> TAKE f
  <2>1. CASE f \in held
    BY <1>1, <1>5, <2>1 DEF Copies
  <2>2. CASE f \notin held
    BY <1>1, <1>4, <2>2 DEF Copies
  <2> QED  BY <2>1, <2>2
<1> QED  BY <1>2, <1>6, <1>7

\* Places of two kinds.
LEMMA HoldersAdd ==
  ASSUME NEW F, IsFiniteSet(DOMAIN F), NEW f, NEW S, NEW T,
         \A s : s \in Holders(F, f) <=> s \in S \/ s \in T, \A s \in S : s \notin T
  PROVE  /\ Cardinality(Holders(F, f)) = Cardinality(S) + Cardinality(T)
         /\ Cardinality(S) \in Nat /\ Cardinality(T) \in Nat
<1>1. IsFiniteSet(Holders(F, f))
  BY FdsCopies
<1>2. Holders(F, f) = S \cup T /\ S \cap T = {}
  OBVIOUS
<1>3. IsFiniteSet(S) /\ IsFiniteSet(T)
  BY <1>1, <1>2, FS_Subset
<1>4. Cardinality(S \cup T) = Cardinality(S) + Cardinality(T) - Cardinality(S \cap T)
  BY <1>3, FS_Union
<1>5. Cardinality(S \cap T) = 0
  BY <1>2, FS_EmptySet
<1>6. Cardinality(S) \in Nat /\ Cardinality(T) \in Nat
  BY <1>3, FS_CardinalityType
<1> QED  BY <1>2, <1>4, <1>5, <1>6

\* The places of an array, split in two.
Splits(F, G, H) ==
  \A f, s : f # None =>
    /\ s \in Holders(F, f) <=> s \in Holders(G, f) \/ s \in Holders(H, f)
    /\ ~(s \in Holders(G, f) /\ s \in Holders(H, f))

LEMMA SplitCopies ==
  ASSUME NEW F, NEW G, NEW H, Splits(F, G, H),
         IsFiniteSet(DOMAIN F), IsFiniteSet(DOMAIN G), IsFiniteSet(DOMAIN H)
  PROVE  \A f : Copies(FdsOf(F), f) = Copies(FdsOf(G), f) + Copies(FdsOf(H), f)
<1> TAKE f
<1>1. CASE f = None
  <2>1. Copies(FdsOf(F), f) = 0 /\ Copies(FdsOf(G), f) = 0 /\ Copies(FdsOf(H), f) = 0
    BY <1>1, FdsCopies
  <2> QED  BY <2>1
<1>2. CASE f # None
  <2>1. Cardinality(Holders(F, f)) = Cardinality(Holders(G, f)) + Cardinality(Holders(H, f))
    BY <1>2, HoldersAdd DEF Splits
  <2>2. /\ Copies(FdsOf(F), f) = Cardinality(Holders(F, f))
        /\ Copies(FdsOf(G), f) = Cardinality(Holders(G, f))
        /\ Copies(FdsOf(H), f) = Cardinality(Holders(H, f))
    BY <1>2, FdsCopies
  <2> QED  BY <2>1, <2>2
<1> QED  BY <1>1, <1>2

\* The places in S, and the others.
On(F, S) == [s \in S |-> F[s]]
Over(F, D) == DOMAIN F = D
Within(S, D) == S \subseteq D

LEMMA PartsCopies ==
  ASSUME NEW F, NEW D, Over(F, D), IsFiniteSet(D), NEW S, Within(S, D)
  PROVE  /\ IsFiniteSet(S) /\ IsFiniteSet(D \ S)
         /\ \A f : Copies(FdsOf(F), f) = Copies(FdsOf(On(F, S)), f)
                                           + Copies(FdsOf(On(F, D \ S)), f)
<1>1. IsFiniteSet(S) /\ IsFiniteSet(D \ S)
  BY FS_Subset DEF Within
<1>2. DOMAIN On(F, S) = S /\ DOMAIN On(F, D \ S) = D \ S
  BY DEF On
<1>3. Splits(F, On(F, S), On(F, D \ S))
  BY DEF On, Holders, Splits, Within, Over
<1>4. IsFiniteSet(DOMAIN F)
  BY DEF Over
<1> QED  BY <1>1, <1>2, <1>3, <1>4, SplitCopies

LEMMA OneCopies ==
  ASSUME NEW F, NEW i, DOMAIN F = {i}
  PROVE  \A f : Copies(FdsOf(F), f) = Copies(Fd(F[i]), f)
<1> TAKE f
<1>1. IsFiniteSet(DOMAIN F)
  BY FS_Singleton
<1>2. CASE f = None
  BY <1>1, <1>2, FdsCopies, FdCopies
<1>3. CASE f # None /\ f = F[i]
  <2>1. Holders(F, f) = {i}
    BY <1>3 DEF Holders
  <2> QED  BY <1>1, <1>3, <2>1, FdsCopies, FdCopies, FS_Singleton
<1>4. CASE f # None /\ f # F[i]
  <2>1. Holders(F, f) = {}
    BY <1>4 DEF Holders
  <2> QED  BY <1>1, <1>4, <2>1, FdsCopies, FdCopies, FS_EmptySet
<1> QED  BY <1>2, <1>3, <1>4

LEMMA NoneCopies ==
  ASSUME NEW F, IsFiniteSet(DOMAIN F), \A s \in DOMAIN F : F[s] = None
  PROVE  \A f : Copies(FdsOf(F), f) = 0
<1> TAKE f
<1>1. CASE f = None
  BY <1>1, FdsCopies
<1>2. CASE f # None
  <2>1. Holders(F, f) = {}
    BY <1>2 DEF Holders
  <2> QED  BY <1>2, <2>1, FdsCopies, FS_EmptySet
<1> QED  BY <1>1, <1>2

----------------------------------------------------------------------------
(* The frame whose buffer a layer shows.                                   *)

LEMMA MaxIs ==
  ASSUME NEW S, NEW x \in S, \A y \in S : y \in Int /\ x >= y, x \in Int
  PROVE  Max(S) = x
<1>1. \A z \in S : (\A y \in S : z >= y) => z = x
  OBVIOUS
<1> QED  BY <1>1 DEF Max

\* The frames with a buffer of their own for a layer.
Own(K, n, l) == {m \in 1 .. n : m = 1 \/ K[m].comp[l] # "cached"}

LEMMA SourceIsOwn ==
  ASSUME NEW n, NEW l \in Layers
  PROVE  Source(n, l) = Max(Own(kinds, n, l)) /\ Source(n, l)' = Max(Own(kinds', n, l))
BY DEF Source, Own

LEMMA OtherSource ==
  ASSUME NEW n, NEW s, s \notin Layers
  PROVE  Source(n, s) = n /\ Source(n, s)' = n
BY DEF Source

LEMMA OneMore ==
  ASSUME kinds \in Seq(Kinds), NEW k \in Kinds, kinds' = Append(kinds, k)
  PROVE  /\ Now \in Nat /\ Now' = Now + 1 /\ kinds' \in Seq(Kinds) /\ kinds' # <<>>
         /\ kinds'[Now'] = k /\ This' = k
         /\ \A n \in 1 .. Now : kinds'[n] = kinds[n]
BY DEF Now, This

\* Another frame leaves those before as they are.
LEMMA SourceStays ==
  ASSUME kinds \in Seq(Kinds), NEW k \in Kinds, kinds' = Append(kinds, k),
         NEW n \in 1 .. Now, NEW s
  PROVE  Source(n, s)' = Source(n, s)
<1>1. CASE s \in Layers
  <2>1. 1 .. n \subseteq 1 .. Now /\ \A m \in 1 .. Now : kinds'[m] = kinds[m]
    BY DEF Now
  <2>2. Own(kinds', n, s) = Own(kinds, n, s)
    BY <2>1 DEF Own
  <2> QED  BY <1>1, <2>2, SourceIsOwn
<1>2. CASE s \notin Layers
  BY <1>2, OtherSource
<1> QED  BY <1>1, <1>2

\* A new frame brings its own buffers, or shows a rotation of the last one's.
LEMMA NewSource ==
  ASSUME kinds \in Seq(Kinds), NEW k \in Kinds, Prepare(k), NEW s \in Slot
  PROVE  \A n : n = Now + 1 =>
           Source(n, s)' = IF s \in Layers /\ k.comp[s] = "cached" THEN Source(Now, s) ELSE n
<1>1. kinds' = Append(kinds, k)
  BY DEF Prepare
<1>2. /\ Now \in Nat /\ Now' = Now + 1 /\ kinds'[Now + 1] = k
      /\ \A n \in 1 .. Now : kinds'[n] = kinds[n]
  BY <1>1, OneMore
<1> SUFFICES ASSUME NEW n, n = Now + 1
             PROVE  Source(n, s)' = IF s \in Layers /\ k.comp[s] = "cached"
                                    THEN Source(Now, s) ELSE n
  OBVIOUS
<1>3. CASE s \notin Layers
  BY <1>3, OtherSource
<1>4. CASE s \in Layers /\ k.comp[s] # "cached"
  <2>1. n \in Own(kinds', n, s) /\ \A m \in Own(kinds', n, s) : m \in Int /\ n >= m
    BY <1>2, <1>4 DEF Own
  <2>2. Source(n, s)' = n
    BY <1>2, <1>4, <2>1, MaxIs, SourceIsOwn
  <2> QED  BY <1>4, <2>2
<1>5. CASE s \in Layers /\ k.comp[s] = "cached"
  <2>1. Now > 0
    BY <1>5 DEF Prepare, Follows
  <2>2. \A m \in 1 .. n : m \in 1 .. Now \/ m = n
    BY <1>2
  <2>3. n # 1 /\ \A m \in 1 .. Now : m \in 1 .. n
    BY <1>2, <2>1
  <2>4. Own(kinds', n, s) = Own(kinds, Now, s)
    BY <1>2, <1>5, <2>2, <2>3 DEF Own
  <2>5. Source(Now, s) = Max(Own(kinds, Now, s))
    BY <1>5 DEF Source, Own
  <2> QED  BY <1>5, <2>4, <2>5, SourceIsOwn
<1> QED  BY <1>3, <1>4, <1>5

----------------------------------------------------------------------------
(* What hwc_set holds is what is open, copy by copy.                       *)

LEMMA FiveBags ==
  ASSUME NEW o, NEW a, NEW b, NEW c, NEW d, NEW e,
         IsABag(a), IsABag(b), IsABag(c), IsABag(d), IsABag(e)
  PROVE  o = a (+) b (+) c (+) d (+) e <=>
           /\ IsABag(o)
           /\ \A f : Copies(o, f) = Copies(a, f) + Copies(b, f) + Copies(c, f)
                                      + Copies(d, f) + Copies(e, f)
<1>1. IsABag(a (+) b) /\ \A f : Copies(a (+) b, f) = Copies(a, f) + Copies(b, f)
  BY PlusCopies
<1>2. /\ IsABag(a (+) b (+) c)
      /\ \A f : Copies(a (+) b (+) c, f) = Copies(a (+) b, f) + Copies(c, f)
  BY <1>1, PlusCopies
<1>3. /\ IsABag(a (+) b (+) c (+) d)
      /\ \A f : Copies(a (+) b (+) c (+) d, f) = Copies(a (+) b (+) c, f) + Copies(d, f)
  BY <1>2, PlusCopies
<1>4. /\ IsABag(a (+) b (+) c (+) d (+) e)
      /\ \A f : Copies(a (+) b (+) c (+) d (+) e, f)
                  = Copies(a (+) b (+) c (+) d, f) + Copies(e, f)
  BY <1>3, PlusCopies
<1>5. \A f : Copies(a (+) b (+) c (+) d (+) e, f)
               = Copies(a, f) + Copies(b, f) + Copies(c, f) + Copies(d, f) + Copies(e, f)
  BY <1>1, <1>2, <1>3, <1>4
<1>6. CASE o = a (+) b (+) c (+) d (+) e
  BY <1>4, <1>5, <1>6
<1>7. ASSUME IsABag(o),
             \A f : Copies(o, f) = Copies(a, f) + Copies(b, f) + Copies(c, f)
                                     + Copies(d, f) + Copies(e, f)
      PROVE  o = a (+) b (+) c (+) d (+) e
  BY <1>4, <1>5, <1>7, SameCopies
<1> QED  BY <1>6, <1>7

----------------------------------------------------------------------------
(* The inductive invariant: which places may hold a descriptor at which    *)
(* step of a frame, and that what they hold, and nothing but what two      *)
(* paths lose, is open.                                                    *)

Places ==
  /\ DOMAIN acquireFenceFd = Slot /\ DOMAIN releaseFenceFd = Slot
  /\ DOMAIN mRelFd = 0 .. NUM_RENDER_BUFFERS - 1
  /\ mCurRenderBufferIndex \in DOMAIN mRelFd

Frames ==
  /\ kinds \in Seq(Kinds)
  /\ step \in {"idle", "draw", "sync", "commit", "close"}
  /\ step # "idle" => kinds # <<>>
  /\ insecure \subseteq 1 .. Now

Empties ==
  /\ step = "idle" => acquireFenceFd = NoFences
  /\ step # "commit" => releaseFenceFd = NoFences /\ retireFenceFd = None
  /\ step # "sync" => fd = None
  /\ fd # None => This.dpy = "primary"

\* Until hwc_sync, a slot has the fence of the buffer it shows or none.
Promises ==
  step \in {"draw", "sync"} => \A s \in Slot : acquireFenceFd[s] # None =>
    s \in Fenced(This) /\ acquireFenceFd[s] = Written(Source(Now, s), s)

\* The copies of a descriptor that the places hold, and those beyond.
Held(f) ==
  Copies(FdsOf(acquireFenceFd), f) + Copies(FdsOf(releaseFenceFd), f)
    + Copies(Fd(retireFenceFd), f) + Copies(Fd(fd), f) + Copies(FdsOf(mRelFd), f)
Extra(f) == Copies(open, f) - Held(f)
Counted == IsABag(open) /\ \A f : Extra(f) \in Nat /\ (Extra(f) # 0 => f \in Lost)

IInv == Places /\ Frames /\ Empties /\ Promises /\ Counted

LEMMA FiniteSlot == IsFiniteSet(Slot) /\ IsFiniteSet(0 .. NUM_RENDER_BUFFERS - 1)
<1>1. IsFiniteSet(Layers) /\ NUM_RENDER_BUFFERS \in Nat
  BY FencesAssumption
<1>2. IsFiniteSet({"fbt"} \cup {"outbuf"})
  BY FS_Singleton, FS_Union
<1>3. Slot = Layers \cup ({"fbt"} \cup {"outbuf"})
  BY DEF Slot
<1>4. IsFiniteSet(Slot)
  BY <1>1, <1>2, <1>3, FS_Union
<1> QED  BY <1>1, <1>4, FS_Interval

LEMMA ThisKind == ASSUME Frames, step # "idle"  PROVE This \in Kinds
BY DEF Frames, This, Now

LEMMA HeldBags ==
  ASSUME Places
  PROVE  /\ IsABag(FdsOf(acquireFenceFd)) /\ IsABag(FdsOf(releaseFenceFd))
         /\ IsABag(Fd(retireFenceFd)) /\ IsABag(Fd(fd)) /\ IsABag(FdsOf(mRelFd))
         /\ \A f : Held(f) \in Nat
<1>1. /\ IsABag(FdsOf(acquireFenceFd)) /\ IsABag(FdsOf(releaseFenceFd))
      /\ IsABag(Fd(retireFenceFd)) /\ IsABag(Fd(fd)) /\ IsABag(FdsOf(mRelFd))
  BY FiniteSlot, FdsCopies, FdCopies DEF Places
<1>2. \A f : Held(f) \in Nat
  BY <1>1, CopiesNat DEF Held
<1> QED  BY <1>1, <1>2

LEMMA HeldBagsNext == ASSUME Places'  PROVE \A f : Held(f)' \in Nat
<1>1. /\ IsABag(FdsOf(acquireFenceFd')) /\ IsABag(FdsOf(releaseFenceFd'))
      /\ IsABag(Fd(retireFenceFd')) /\ IsABag(Fd(fd')) /\ IsABag(FdsOf(mRelFd'))
  BY FiniteSlot, FdsCopies, FdCopies DEF Places
<1> QED  BY <1>1, CopiesNat DEF Held

LEMMA OpenCopies ==
  ASSUME IInv
  PROVE  IsABag(open) /\ \A f : Copies(open, f) = Held(f) + Extra(f) /\ Extra(f) \in Nat
<1>1. IsABag(open) /\ Places /\ \A f : Extra(f) \in Nat
  BY DEF IInv, Counted
<1> QED  BY <1>1, HeldBags, CopiesNat DEF Extra

\* A step that opens what its places then hold, or what is lost.
LEMMA CountedNext ==
  ASSUME IInv, Places', IsABag(open'), Lost \subseteq Lost',
         \A f : \E x \in Nat : /\ Copies(open', f) = Held(f)' + Extra(f) + x
                               /\ x # 0 => f \in Lost'
  PROVE  Counted'
<1>1. \A f : Held(f)' \in Nat
  BY HeldBagsNext
<1>2. \A f : Extra(f) \in Nat /\ (Extra(f) # 0 => f \in Lost)
  BY DEF IInv, Counted
<1>3. \A f : Extra(f)' = Copies(open', f) - Held(f)'
  BY DEF Extra
<1>4. ASSUME NEW f  PROVE Extra(f)' \in Nat /\ (Extra(f)' # 0 => f \in Lost')
  <2>1. PICK x \in Nat : /\ Copies(open', f) = Held(f)' + Extra(f) + x
                         /\ x # 0 => f \in Lost'
    OBVIOUS
  <2>2. Held(f)' \in Nat /\ Extra(f) \in Nat /\ (Extra(f) # 0 => f \in Lost)
    BY <1>1, <1>2
  <2>3. Extra(f)' = Extra(f) + x
    BY <1>3, <2>1, <2>2
  <2> QED  BY <2>1, <2>2, <2>3
<1> QED  BY <1>4 DEF Counted

LEMMA KeepsCounted ==
  ASSUME IInv, Places', IsABag(open'), Lost \subseteq Lost',
         \A f : Copies(open', f) = Held(f)' + Extra(f)
  PROVE  Counted'
<1>1. \A f : Held(f)' \in Nat /\ Extra(f) \in Nat
  BY HeldBagsNext DEF IInv, Counted
<1>2. \A f : Copies(open', f) = Held(f)' + Extra(f) + 0
  BY <1>1
<1> QED  BY <1>2, CountedNext

LEMMA LostIs ==
  /\ \A f : f \in Lost <=>
       \/ \E n \in insecure : \E s \in Fenced(kinds[n]) : f = Written(Source(n, s), s)
       \/ \E n \in 1 .. Now : kinds[n].animating /\ kinds[n].turned /\ f = Rotated(n, "fbt")
  /\ \A f : f \in Lost' <=>
       \/ \E n \in insecure' : \E s \in Fenced(kinds'[n]) : f = Written(Source(n, s)', s)
       \/ \E n \in 1 .. Now' : kinds'[n].animating /\ kinds'[n].turned /\ f = Rotated(n, "fbt")
<1>1. ASSUME NEW f  PROVE f \in Lost <=>
        \/ \E n \in insecure : \E s \in Fenced(kinds[n]) : f = Written(Source(n, s), s)
        \/ \E n \in 1 .. Now : kinds[n].animating /\ kinds[n].turned /\ f = Rotated(n, "fbt")
  BY DEF Lost
<1>2. \A n, s : Written(Source(n, s), s)' = Written(Source(n, s)', s)
  BY DEF Written
<1>3. \A n : Fenced(kinds[n])' = Fenced(kinds'[n])
  BY DEF Fenced, UsesFb, UsesOutbuf
<1>4. \A n : Rotated(n, "fbt")' = Rotated(n, "fbt")
  BY DEF Rotated
<1>5. ASSUME NEW f  PROVE f \in Lost' <=>
        \/ \E n \in insecure' : \E s \in Fenced(kinds[n])' : f = Written(Source(n, s), s)'
        \/ \E n \in 1 .. Now' : kinds'[n].animating /\ kinds'[n].turned /\ f = Rotated(n, "fbt")'
  BY DEF Lost
<1> QED  BY <1>1, <1>2, <1>3, <1>4, <1>5

\* What is lost stays lost.
LEMMA LostGrows ==
  ASSUME Frames, insecure \subseteq insecure',
         kinds' = kinds \/ \E k \in Kinds : kinds' = Append(kinds, k)
  PROVE  Lost \subseteq Lost'
<1>1. kinds \in Seq(Kinds) /\ insecure \subseteq 1 .. Now /\ Now \in Nat
  BY DEF Frames, Now
<1>2. /\ 1 .. Now \subseteq 1 .. Now'
      /\ \A n \in 1 .. Now : kinds'[n] = kinds[n]
      /\ \A n \in 1 .. Now : \A s : Source(n, s)' = Source(n, s)
  <2>1. CASE kinds' = kinds
    BY <2>1 DEF Now, Source
  <2>2. CASE \E k \in Kinds : kinds' = Append(kinds, k)
    <3>1. PICK k \in Kinds : kinds' = Append(kinds, k)
      BY <2>2
    <3>2. Now' = Now + 1 /\ \A n \in 1 .. Now : kinds'[n] = kinds[n]
      BY <1>1, <3>1, OneMore
    <3>3. \A n \in 1 .. Now : \A s : Source(n, s)' = Source(n, s)
      BY <1>1, <3>1, SourceStays
    <3> QED  BY <1>1, <3>2, <3>3
  <2> QED  BY <2>1, <2>2
<1>3. ASSUME NEW f \in Lost  PROVE f \in Lost'
  <2>1. CASE \E n \in insecure : \E s \in Fenced(kinds[n]) : f = Written(Source(n, s), s)
    <3>1. PICK n \in insecure : \E s \in Fenced(kinds[n]) : f = Written(Source(n, s), s)
      BY <2>1
    <3>2. n \in 1 .. Now /\ n \in insecure'
      BY <1>1
    <3>3. \E s \in Fenced(kinds'[n]) : f = Written(Source(n, s)', s)
      BY <1>2, <3>1, <3>2
    <3> QED  BY <3>2, <3>3, LostIs
  <2>2. CASE \E n \in 1 .. Now : kinds[n].animating /\ kinds[n].turned /\ f = Rotated(n, "fbt")
    BY <1>2, <2>2, LostIs
  <2> QED  BY <2>1, <2>2, LostIs
<1> QED  BY <1>3

\* An array without fences holds no descriptor.
LEMMA NoFencesHeld ==
  /\ DOMAIN NoFences = Slot
  /\ IsABag(FdsOf(NoFences)) /\ \A f : Copies(FdsOf(NoFences), f) = 0
BY FiniteSlot, NoneCopies, FdsCopies DEF NoFences

LEMMA NoFdHeld == IsABag(Fd(None)) /\ \A f : Copies(Fd(None), f) = 0
BY FdCopies

----------------------------------------------------------------------------
(* The steps.                                                              *)

LEMMA InitHolds == Init => IInv
<1> SUFFICES ASSUME Init  PROVE IInv
  OBVIOUS
<1>1. NUM_RENDER_BUFFERS \in Nat \ {0}
  BY FencesAssumption
<1>2. Places
  BY <1>1, NoFencesHeld DEF Init, Places
<1>3. Frames /\ Empties /\ Promises
  BY DEF Init, Frames, Empties, Promises
<1>4. \A f : Copies(FdsOf(mRelFd), f) = 0
  <2>1. IsFiniteSet(DOMAIN mRelFd) /\ \A s \in DOMAIN mRelFd : mRelFd[s] = None
    BY FiniteSlot DEF Init
  <2> QED  BY <2>1, NoneCopies
<1>5. IsABag(open) /\ \A f : Copies(open, f) = 0
  BY EmptyCopies DEF Init
<1>6. \A f : Held(f) = 0
  <2>1. /\ acquireFenceFd = NoFences /\ releaseFenceFd = NoFences
        /\ retireFenceFd = None /\ fd = None
    BY DEF Init
  <2> QED  BY <1>4, <2>1, NoFencesHeld, NoFdHeld DEF Held
<1>7. Counted
  BY <1>5, <1>6 DEF Counted, Extra
<1> QED  BY <1>2, <1>3, <1>7 DEF IInv

\* The end of hwc_set: what is left is what the ring keeps.
LEMMA CloseHolds ==
  ASSUME IInv, Close, step \in {"commit", "close"}
  PROVE  IInv'
<1>1. Places'
  BY NoFencesHeld DEF IInv, Places, Close
<1>2. Frames'
  BY DEF IInv, Frames, Close, Now
<1>3. Empties' /\ Promises'
  BY DEF IInv, Empties, Promises, Close, NoFences, Slot
<1>4. fd = None /\ Places
  BY DEF IInv, Empties
<1>5. IsABag(open) /\ \A f : Copies(open, f) = Held(f) + Extra(f) /\ Extra(f) \in Nat
  BY OpenCopies
<1>6. /\ IsABag(FdsOf(acquireFenceFd)) /\ IsABag(FdsOf(releaseFenceFd))
      /\ IsABag(Fd(retireFenceFd)) /\ IsABag(FdsOf(mRelFd))
  BY <1>4, HeldBags
<1> DEFINE a(f) == Copies(FdsOf(acquireFenceFd), f)
           b(f) == Copies(FdsOf(releaseFenceFd), f)
           c(f) == Copies(Fd(retireFenceFd), f)
           r(f) == Copies(FdsOf(mRelFd), f)
           m(f) == r(f) + Extra(f)
<1>7. \A f : a(f) \in Nat /\ b(f) \in Nat /\ c(f) \in Nat /\ r(f) \in Nat /\ m(f) \in Nat
  BY <1>5, <1>6, CopiesNat
<1>8. \A f : Copies(open, f) = a(f) + b(f) + c(f) + m(f)
  BY <1>4, <1>5, <1>7, NoFdHeld DEF Held
<1>9. open' = open (-) FdsOf(acquireFenceFd) (-) FdsOf(releaseFenceFd) (-) Fd(retireFenceFd)
  BY DEF Close, CloseAcquireFds
<1> DEFINE o1 == open (-) FdsOf(acquireFenceFd)
           o2 == o1 (-) FdsOf(releaseFenceFd)
<1>10. IsABag(o1) /\ \A f : Copies(o1, f) = b(f) + c(f) + m(f)
  <2>1. \A f : a(f) <= Copies(open, f)
    BY <1>7, <1>8
  <2>2. IsABag(o1) /\ \A f : Copies(o1, f) = Copies(open, f) - a(f)
    BY <1>5, <1>6, <2>1, MinusCopies
  <2> QED  BY <1>7, <1>8, <2>2
<1> HIDE DEF o1
<1>11. IsABag(o2) /\ \A f : Copies(o2, f) = c(f) + m(f)
  <2>1. \A f : b(f) <= Copies(o1, f)
    BY <1>7, <1>10
  <2>2. IsABag(o2) /\ \A f : Copies(o2, f) = Copies(o1, f) - b(f)
    BY <1>6, <1>10, <2>1, MinusCopies
  <2> QED  BY <1>7, <1>10, <2>2
<1>12. open' = o2 (-) Fd(retireFenceFd)
  BY <1>9 DEF o1
<1> HIDE DEF o2
<1>13. IsABag(open') /\ \A f : Copies(open', f) = m(f)
  <2>1. \A f : c(f) <= Copies(o2, f)
    BY <1>7, <1>11
  <2>2. /\ IsABag(o2 (-) Fd(retireFenceFd))
        /\ \A f : Copies(o2 (-) Fd(retireFenceFd), f) = Copies(o2, f) - c(f)
    BY <1>6, <1>11, <2>1, MinusCopies
  <2> QED  BY <1>7, <1>11, <1>12, <2>2
<1>14. \A f : Held(f)' = r(f)
  <2>1. /\ acquireFenceFd' = NoFences /\ releaseFenceFd' = NoFences
        /\ retireFenceFd' = None /\ fd' = None /\ mRelFd' = mRelFd
    BY <1>4 DEF Close
  <2> QED  BY <1>7, <2>1, NoFencesHeld, NoFdHeld DEF Held
<1>15. Lost \subseteq Lost'
  <2>1. UNCHANGED <<kinds, insecure>>
    BY DEF Close
  <2> QED  BY <2>1, LostGrows DEF IInv
<1>16. Counted'
  BY <1>1, <1>13, <1>14, <1>15, KeepsCounted
<1> QED  BY <1>1, <1>2, <1>3, <1>16 DEF IInv

\* The producers, the engines and the display hold no descriptor of hwc_set.
LEMMA OthersHold == ASSUME IInv, UNCHANGED composer  PROVE IInv'
<1>1. UNCHANGED <<acquireFenceFd, releaseFenceFd, retireFenceFd, fd, mRelFd, kinds, step,
                  mCurRenderBufferIndex, open, insecure>>
  BY DEF composer
<1>2. Places' /\ Frames' /\ Empties'
  BY <1>1 DEF IInv, Places, Frames, Empties, Now, This
<1>3. Promises'
  BY <1>1 DEF IInv, Promises, Source, This, Now
<1>4. Lost \subseteq Lost'
  BY <1>1, LostGrows DEF IInv
<1>5. IsABag(open) /\ \A f : Extra(f)' = Extra(f)
  BY <1>1 DEF IInv, Counted, Extra, Held
<1>6. Counted'
  BY <1>1, <1>4, <1>5 DEF IInv, Counted
<1> QED  BY <1>2, <1>3, <1>6 DEF IInv

\* What a step opens and what it closes, when it closes what is held.
LEMMA Exchange ==
  ASSUME NEW o, NEW made, NEW closed, IsABag(o), IsABag(made), IsABag(closed),
         \A f : Copies(closed, f) <= Copies(o, f) + Copies(made, f)
  PROVE  /\ IsABag((o (+) made) (-) closed)
         /\ \A f : Copies((o (+) made) (-) closed, f)
                     = Copies(o, f) + Copies(made, f) - Copies(closed, f)
<1>1. IsABag(o (+) made) /\ \A f : Copies(o (+) made, f) = Copies(o, f) + Copies(made, f)
  BY PlusCopies
<1>2. \A f : Copies(closed, f) <= Copies(o (+) made, f)
  BY <1>1
<1>3. /\ IsABag((o (+) made) (-) closed)
      /\ \A f : Copies((o (+) made) (-) closed, f) = Copies(o (+) made, f) - Copies(closed, f)
  BY <1>1, <1>2, MinusCopies
<1>4. \A f : Copies((o (+) made) (-) closed, f)
               = Copies(o, f) + Copies(made, f) - Copies(closed, f)
  <2> TAKE f
  <2>1. /\ Copies((o (+) made) (-) closed, f) = Copies(o (+) made, f) - Copies(closed, f)
        /\ Copies(o (+) made, f) = Copies(o, f) + Copies(made, f)
    BY <1>1, <1>3
  <2>2. Copies(o, f) \in Nat /\ Copies(made, f) \in Nat /\ Copies(closed, f) \in Nat
    BY CopiesNat
  <2> QED  BY <2>1, <2>2
<1> QED  BY <1>3, <1>4

\* The same, with the closing first.
LEMMA ExchangeBack ==
  ASSUME NEW o, NEW made, NEW closed, IsABag(o), IsABag(made), IsABag(closed),
         \A f : Copies(closed, f) <= Copies(o, f)
  PROVE  /\ IsABag((o (-) closed) (+) made)
         /\ \A f : Copies((o (-) closed) (+) made, f)
                     = Copies(o, f) - Copies(closed, f) + Copies(made, f)
<1>1. IsABag(o (-) closed) /\ \A f : Copies(o (-) closed, f) = Copies(o, f) - Copies(closed, f)
  BY MinusCopies
<1>2. /\ IsABag((o (-) closed) (+) made)
      /\ \A f : Copies((o (-) closed) (+) made, f) = Copies(o (-) closed, f) + Copies(made, f)
  BY <1>1, PlusCopies
<1>3. \A f : Copies((o (-) closed) (+) made, f)
               = Copies(o, f) - Copies(closed, f) + Copies(made, f)
  BY <1>1, <1>2
<1> QED  BY <1>2, <1>3

\* hwc_prepare: the list's fences are new, and other dimensions close the ring's.
LEMMA PrepareHolds ==
  ASSUME IInv, NEW k \in Kinds, Prepare(k)
  PROVE  IInv'
<1>1. /\ step = "idle" /\ acquireFenceFd = NoFences /\ releaseFenceFd = NoFences
      /\ retireFenceFd = None /\ fd = None
      /\ releaseFenceFd' = NoFences /\ retireFenceFd' = None /\ fd' = None
      /\ DOMAIN acquireFenceFd' = Slot
  BY DEF IInv, Empties, Prepare
<1>2. /\ DOMAIN mRelFd' = DOMAIN mRelFd
      /\ mCurRenderBufferIndex' \in DOMAIN mRelFd
  <2>1. CASE PrepareOverlap(k)
    <3>1. NextIndex \in 0 .. NUM_RENDER_BUFFERS - 1
      <4>1. NUM_RENDER_BUFFERS \in Nat /\ NUM_RENDER_BUFFERS > 0
        BY FencesAssumption
      <4>2. mCurRenderBufferIndex + 1 \in Nat
        BY <4>1 DEF IInv, Places
      <4> QED  BY <4>1, <4>2 DEF NextIndex
    <3> QED  BY <2>1, <3>1 DEF PrepareOverlap, FreeRenderBuffers, IInv, Places
  <2>2. CASE UNCHANGED <<ring, mRelFd, mCurRenderBufferIndex>>
    BY <2>2 DEF IInv, Places
  <2> QED  BY <2>1, <2>2 DEF Prepare
<1>3. Places'
  BY <1>1, <1>2, NoFencesHeld DEF IInv, Places
<1>4. Frames' /\ Empties'
  <2>1. kinds' = Append(kinds, k) /\ kinds \in Seq(Kinds)
    BY DEF Prepare, IInv, Frames
  <2>2. kinds' \in Seq(Kinds) /\ kinds' # <<>> /\ Now \in Nat /\ Now' = Now + 1
    BY <2>1, OneMore
  <2>3. step' \in {"draw", "sync", "commit", "close"} /\ insecure' = insecure
    BY DEF Prepare
  <2>4. insecure \subseteq 1 .. Now
    BY DEF IInv, Frames
  <2> QED  BY <1>1, <2>2, <2>3, <2>4 DEF Frames, Empties
<1> DEFINE a(f) == Copies(FdsOf(acquireFenceFd'), f)
           m(f) == Copies(FdsOf(mRelFd), f)
           x(f) == Extra(f)
<1>5. IsABag(FdsOf(acquireFenceFd')) /\ IsABag(FdsOf(mRelFd))
  BY <1>1, FiniteSlot, FdsCopies DEF IInv, Places
<1>6. \A f : a(f) \in Nat /\ m(f) \in Nat
  BY <1>5, CopiesNat
<1>7. IsABag(open) /\ \A f : Copies(open, f) = m(f) + x(f) /\ x(f) \in Nat
  <2>1. IsABag(open) /\ \A f : Copies(open, f) = Held(f) + Extra(f) /\ Extra(f) \in Nat
    BY OpenCopies
  <2> QED  BY <1>1, <1>6, <2>1, NoFencesHeld, NoFdHeld DEF Held
<1>8. \A f : Held(f)' = a(f) + Copies(FdsOf(mRelFd'), f)
  <2>1. \A f : Copies(FdsOf(mRelFd'), f) \in Nat
    BY <1>2, FiniteSlot, FdsCopies, CopiesNat DEF IInv, Places
  <2> QED  BY <1>1, <1>6, <2>1, NoFencesHeld, NoFdHeld DEF Held
<1> HIDE DEF x
<1>9. IsABag(open') /\ \A f : Copies(open', f) = a(f) + Copies(FdsOf(mRelFd'), f) + x(f)
  <2>1. CASE mRelFd' = mRelFd /\ open' = open (+) FdsOf(acquireFenceFd')
    <3>1. IsABag(open') /\ \A f : Copies(open', f) = Copies(open, f) + a(f)
      BY <1>5, <1>7, <2>1, PlusCopies
    <3> QED  BY <1>6, <1>7, <2>1, <3>1
  <2>2. CASE mRelFd' = FreeRenderBuffers
               /\ open' = (open (-) FdsOf(mRelFd)) (+) FdsOf(acquireFenceFd')
    <3>1. \A f : m(f) <= Copies(open, f)
      BY <1>6, <1>7
    <3>2. IsABag(open') /\ \A f : Copies(open', f) = Copies(open, f) - m(f) + a(f)
      BY <1>5, <1>7, <2>2, <3>1, ExchangeBack
    <3>3. IsFiniteSet(DOMAIN mRelFd') /\ \A i \in DOMAIN mRelFd' : mRelFd'[i] = None
      BY <2>2, FiniteSlot DEF FreeRenderBuffers, IInv, Places
    <3>4. \A f : Copies(FdsOf(mRelFd'), f) = 0
      BY <3>3, NoneCopies
    <3> QED  BY <1>6, <1>7, <3>2, <3>4
  <2>3. \/ mRelFd' = mRelFd /\ open' = open (+) FdsOf(acquireFenceFd')
        \/ mRelFd' = FreeRenderBuffers
             /\ open' = (open (-) FdsOf(mRelFd)) (+) FdsOf(acquireFenceFd')
    <3>1. CASE PrepareOverlap(k)
      BY <3>1 DEF PrepareOverlap
    <3>2. CASE /\ open' = open (+) FdsOf(acquireFenceFd')
               /\ UNCHANGED <<ring, mRelFd, mCurRenderBufferIndex>>
      BY <3>2
    <3> QED  BY <3>1, <3>2 DEF Prepare
  <2> QED  BY <2>1, <2>2, <2>3
<1>10. Lost \subseteq Lost'
  <2>1. kinds' = Append(kinds, k) /\ insecure' = insecure
    BY DEF Prepare
  <2> QED  BY <2>1, LostGrows DEF IInv
<1>11. Counted'
  BY <1>3, <1>8, <1>9, <1>10, KeepsCounted DEF x
<1>12. Promises'
  <2>1. kinds \in Seq(Kinds) /\ kinds' = Append(kinds, k)
    BY DEF Prepare, IInv, Frames
  <2>2. Now \in Nat /\ Now' = Now + 1 /\ This' = k
    BY <2>1, OneMore
  <2> SUFFICES ASSUME NEW s \in Slot, acquireFenceFd'[s] # None
               PROVE  s \in Fenced(k) /\ acquireFenceFd'[s] = Written(Source(Now, s)', s)
    BY <2>2 DEF Promises, Fenced, UsesFb, UsesOutbuf, Written
  <2>3. Source(Now, s)' = IF s \in Layers /\ k.comp[s] = "cached" THEN Source(Now, s)
                          ELSE Now + 1
    <3>1. PICK n : n = Now + 1
      OBVIOUS
    <3>2. Source(Now, s)' = Source(n, s)'
      BY <2>2, <3>1 DEF Source
    <3>3. Source(n, s)' = IF s \in Layers /\ k.comp[s] = "cached" THEN Source(Now, s) ELSE n
      BY <2>1, <3>1, NewSource
    <3> QED  BY <3>1, <3>2, <3>3
  <2>4. /\ s \in Fenced(k)
        /\ acquireFenceFd'[s] = Written(IF s \in Layers /\ k.comp[s] = "cached"
                                       THEN Source(Now, s) ELSE Now + 1, s)
    BY DEF Prepare
  <2> QED  BY <2>3, <2>4
<1> QED  BY <1>3, <1>4, <1>11, <1>12 DEF IInv

\* The blitter draws: S are the places whose fences it closes.
LEMMA DrawHolds ==
  ASSUME IInv, Draw  PROVE IInv'
<1>1. /\ step = "draw" /\ step' = "sync" /\ fd = None
      /\ releaseFenceFd = NoFences /\ retireFenceFd = None
      /\ releaseFenceFd' = NoFences /\ retireFenceFd' = None /\ mRelFd' = mRelFd
      /\ UNCHANGED <<kinds, mCurRenderBufferIndex, insecure>>
  BY DEF IInv, Empties, Draw
<1> DEFINE Closes(S, closed) ==
             /\ S \subseteq Slot
             /\ DOMAIN acquireFenceFd' = Slot
             /\ \A s \in Slot : acquireFenceFd'[s] = IF s \in S THEN None ELSE acquireFenceFd[s]
             /\ IsABag(closed)
             /\ \A f : Copies(closed, f) = Copies(FdsOf(On(acquireFenceFd, S)), f)
             /\ open' = (open (-) closed) (+) Fd(fd')
<1>2. \E S, closed : Closes(S, closed)
  <2>1. ASSUME DrawOverlap
        PROVE  Closes(Layers, FdsOf(On(acquireFenceFd, Layers)))
    <3>1. /\ acquireFenceFd' = [s \in Slot |->
                                  IF s \in Layers THEN None ELSE acquireFenceFd[s]]
          /\ open' = (open (-) FdsOf(On(acquireFenceFd, Layers))) (+) Fd(fd')
      BY <2>1 DEF DrawOverlap, On
    <3>2. Layers \subseteq Slot
      BY DEF Slot
    <3>3. DOMAIN On(acquireFenceFd, Layers) = Layers /\ IsFiniteSet(Layers)
      BY FencesAssumption DEF On
    <3>4. IsABag(FdsOf(On(acquireFenceFd, Layers)))
      BY <3>3, FdsCopies
    <3> QED  BY <3>1, <3>2, <3>4
  <2>2. ASSUME DrawCopybit
        PROVE  Closes({"fbt"}, Fd(acquireFenceFd["fbt"]))
    <3>1. /\ acquireFenceFd' = [acquireFenceFd EXCEPT !["fbt"] = None]
          /\ open' = (open (-) Fd(acquireFenceFd["fbt"])) (+) Fd(fd')
      BY <2>2 DEF DrawCopybit
    <3>2. "fbt" \in Slot /\ DOMAIN acquireFenceFd = Slot
      BY DEF Slot, IInv, Places
    <3>3. /\ DOMAIN On(acquireFenceFd, {"fbt"}) = {"fbt"}
          /\ On(acquireFenceFd, {"fbt"})["fbt"] = acquireFenceFd["fbt"]
      BY DEF On
    <3>4. /\ IsABag(Fd(acquireFenceFd["fbt"]))
          /\ \A f : Copies(Fd(acquireFenceFd["fbt"]), f)
                      = Copies(FdsOf(On(acquireFenceFd, {"fbt"})), f)
      BY <3>3, FdCopies, OneCopies
    <3> QED  BY <3>1, <3>2, <3>4
  <2>3. DrawOverlap \/ DrawCopybit
    BY DEF Draw
  <2> HIDE DEF Closes
  <2> QED  BY <2>1, <2>2, <2>3
<1>3. PICK S, closed : Closes(S, closed)
  BY <1>2
<1> HIDE DEF Closes
<1>4. /\ DOMAIN acquireFenceFd = Slot /\ DOMAIN acquireFenceFd' = Slot /\ S \subseteq Slot
      /\ \A s \in Slot : acquireFenceFd'[s] = IF s \in S THEN None ELSE acquireFenceFd[s]
      /\ Within(S, Slot) /\ Over(acquireFenceFd, Slot) /\ Over(acquireFenceFd', Slot)
  BY <1>3 DEF IInv, Places, Closes, Within, Over
<1>5. Places'
  BY <1>1, <1>4, NoFencesHeld DEF IInv, Places
<1>6. Frames' /\ Empties' /\ Promises'
  <2>4. This' = This /\ This \in Kinds
    BY <1>1, ThisKind DEF IInv, This, Now
  <2>5. This.dpy = "primary"
    <3>1. This.ptor = "yes" \/ This.comp[Top] = "blit"
      BY FencesAssumption DEF Draw, DrawOverlap, DrawCopybit
    <3> QED  BY <2>4, <3>1, FencesAssumption
  <2>1. Frames' /\ Empties'
    BY <1>1, <2>4, <2>5 DEF IInv, Frames, Empties, Now
  <2>2. \A s \in Slot : acquireFenceFd'[s] # None => acquireFenceFd'[s] = acquireFenceFd[s]
    BY <1>4
  <2>3. This' = This /\ \A s : Source(Now, s)' = Source(Now, s)
    BY <1>1 DEF This, Now, Source
  <2> QED  BY <1>1, <2>1, <2>2, <2>3 DEF IInv, Promises
<1> DEFINE a(f) == Copies(FdsOf(On(acquireFenceFd, S)), f)
           r(f) == Copies(FdsOf(On(acquireFenceFd, Slot \ S)), f)
           m(f) == Copies(FdsOf(mRelFd), f)
           d(f) == Copies(Fd(fd'), f)
           x(f) == Extra(f)
<1>7. /\ IsFiniteSet(S) /\ IsFiniteSet(Slot \ S)
      /\ \A f : Copies(FdsOf(acquireFenceFd), f) = a(f) + r(f)
  <2>1. IsFiniteSet(Slot) /\ Within(S, Slot) /\ Over(acquireFenceFd, Slot)
    BY <1>4, FiniteSlot
  <2> QED  BY <2>1, PartsCopies
<1>8. \A f : Copies(FdsOf(acquireFenceFd'), f) = r(f)
  <2>1. On(acquireFenceFd', Slot \ S) = On(acquireFenceFd, Slot \ S)
    BY <1>4 DEF On
  <2>2. \A f : Copies(FdsOf(acquireFenceFd'), f)
                 = Copies(FdsOf(On(acquireFenceFd', S)), f) + r(f)
    BY <1>4, <2>1, FiniteSlot, PartsCopies
  <2>3. \A f : Copies(FdsOf(On(acquireFenceFd', S)), f) = 0
    <3>1. /\ DOMAIN On(acquireFenceFd', S) = S
          /\ \A s \in S : On(acquireFenceFd', S)[s] = None
      BY <1>4 DEF On
    <3> QED  BY <1>7, <3>1, NoneCopies
  <2>4. \A f : r(f) \in Nat
    <3>1. DOMAIN On(acquireFenceFd, Slot \ S) = Slot \ S
      BY DEF On
    <3> QED  BY <1>7, <3>1, FdsCopies, CopiesNat
  <2> HIDE DEF r
  <2> QED  BY <2>2, <2>3, <2>4
<1>9. /\ IsABag(FdsOf(On(acquireFenceFd, S))) /\ IsABag(Fd(fd'))
      /\ \A f : a(f) \in Nat /\ r(f) \in Nat /\ m(f) \in Nat /\ d(f) \in Nat
  <2>1. /\ DOMAIN On(acquireFenceFd, S) = S
        /\ DOMAIN On(acquireFenceFd, Slot \ S) = Slot \ S
    BY DEF On
  <2>2. /\ IsABag(FdsOf(On(acquireFenceFd, S))) /\ IsABag(FdsOf(On(acquireFenceFd, Slot \ S)))
        /\ IsABag(FdsOf(mRelFd)) /\ IsABag(Fd(fd'))
    BY <1>7, <2>1, FiniteSlot, FdsCopies, FdCopies DEF IInv, Places
  <2> QED  BY <2>2, CopiesNat
<1>10. /\ IsABag(open)
       /\ \A f : Copies(open, f) = a(f) + r(f) + m(f) + x(f) /\ x(f) \in Nat
  <2>1. IsABag(open) /\ \A f : Copies(open, f) = Held(f) + Extra(f) /\ Extra(f) \in Nat
    BY OpenCopies
  <2>2. \A f : Held(f) = a(f) + r(f) + m(f)
    BY <1>1, <1>7, <1>9, NoFencesHeld, NoFdHeld DEF Held
  <2> QED  BY <2>1, <2>2
<1>11. \A f : Held(f)' = r(f) + d(f) + m(f)
  BY <1>1, <1>8, <1>9, NoFencesHeld, NoFdHeld DEF Held
<1> HIDE DEF x
<1>12. IsABag(open') /\ \A f : Copies(open', f) = r(f) + d(f) + m(f) + x(f)
  <2>1. /\ IsABag(closed) /\ \A f : Copies(closed, f) = a(f)
        /\ open' = (open (-) closed) (+) Fd(fd')
    BY <1>3 DEF Closes
  <2>2. \A f : Copies(closed, f) <= Copies(open, f)
    BY <1>9, <1>10, <2>1
  <2>3. IsABag(open') /\ \A f : Copies(open', f) = Copies(open, f) - Copies(closed, f) + d(f)
    BY <1>9, <1>10, <2>1, <2>2, ExchangeBack
  <2>4. ASSUME NEW f  PROVE Copies(open', f) = r(f) + d(f) + m(f) + x(f)
    <3>1. /\ Copies(open', f) = Copies(open, f) - a(f) + d(f)
          /\ Copies(open, f) = a(f) + r(f) + m(f) + x(f)
          /\ a(f) \in Nat /\ r(f) \in Nat /\ m(f) \in Nat /\ d(f) \in Nat /\ x(f) \in Nat
      BY <1>9, <1>10, <2>1, <2>3
    <3> HIDE DEF a, r, m, d
    <3> QED  BY <3>1
  <2> QED  BY <2>3, <2>4
<1>13. Lost \subseteq Lost'
  BY <1>1, LostGrows DEF IInv
<1>14. Counted'
  BY <1>5, <1>11, <1>12, <1>13, KeepsCounted DEF x
<1> QED  BY <1>5, <1>6, <1>14 DEF IInv

\* The output cannot be made secure: the fences of the list are lost.
LEMMA SecureHolds ==
  ASSUME IInv, SecureFails
  PROVE  IInv'
<1>1. /\ step = "sync" /\ step' = "idle" /\ acquireFenceFd' = NoFences
      /\ UNCHANGED <<kinds, releaseFenceFd, retireFenceFd, fd, mRelFd,
                     mCurRenderBufferIndex, open>>
      /\ insecure' = insecure \cup {Now} /\ This.dpy = "virtual"
  BY DEF SecureFails
<1>2. kinds \in Seq(Kinds) /\ Now \in 1 .. Now /\ This = kinds[Now] /\ Now' = Now
  BY <1>1 DEF IInv, Frames, This, Now
<1>3. Places'
  BY <1>1, NoFencesHeld DEF IInv, Places
<1>4. Frames' /\ Promises'
  BY <1>1, <1>2 DEF IInv, Frames, Promises
<1>5. Empties'
  BY <1>1 DEF IInv, Empties
<1> DEFINE a(f) == Copies(FdsOf(acquireFenceFd), f)
<1>6. /\ IsABag(FdsOf(acquireFenceFd)) /\ IsABag(FdsOf(mRelFd)) /\ IsFiniteSet(DOMAIN acquireFenceFd)
      /\ IsABag(FdsOf(releaseFenceFd)) /\ IsABag(Fd(retireFenceFd)) /\ IsABag(Fd(fd))
  BY HeldBags, FiniteSlot DEF IInv, Places
<1>7. \A f : /\ Held(f) = Held(f)' + a(f) /\ Held(f)' \in Nat /\ a(f) \in Nat
             /\ a(f) # 0 => f # None /\ \E s \in DOMAIN acquireFenceFd : acquireFenceFd[s] = f
  <2> TAKE f
  <2>1. /\ Held(f) = a(f) + Copies(FdsOf(releaseFenceFd), f) + Copies(Fd(retireFenceFd), f)
                       + Copies(Fd(fd), f) + Copies(FdsOf(mRelFd), f)
        /\ Held(f)' = 0 + Copies(FdsOf(releaseFenceFd), f) + Copies(Fd(retireFenceFd), f)
                       + Copies(Fd(fd), f) + Copies(FdsOf(mRelFd), f)
    BY <1>1, NoFencesHeld DEF Held
  <2>2. /\ a(f) \in Nat /\ Copies(FdsOf(releaseFenceFd), f) \in Nat
        /\ Copies(Fd(retireFenceFd), f) \in Nat /\ Copies(Fd(fd), f) \in Nat
        /\ Copies(FdsOf(mRelFd), f) \in Nat
    BY <1>6, CopiesNat
  <2>3. a(f) # 0 => f # None /\ f \in DOMAIN FdsOf(acquireFenceFd)
    BY <1>6, FdsCopies DEF Copies
  <2>4. DOMAIN FdsOf(acquireFenceFd) = {acquireFenceFd[s] : s \in DOMAIN acquireFenceFd} \ {None}
    BY DEF FdsOf
  <2> HIDE DEF a
  <2> QED  BY <2>1, <2>2, <2>3, <2>4
<1>8. Lost \subseteq Lost'
  BY <1>1, LostGrows DEF IInv
<1>9. ASSUME NEW f, a(f) # 0  PROVE f \in Lost'
  <2>1. PICK s \in Slot : acquireFenceFd[s] = f /\ f # None
    BY <1>7, <1>9 DEF IInv, Places
  <2>2. s \in Fenced(kinds[Now]) /\ f = Written(Source(Now, s), s)
    BY <1>1, <1>2, <2>1 DEF IInv, Promises
  <2>3. PICK n : n = Now
    OBVIOUS
  <2>4. Source(n, s)' = Source(n, s) /\ n \in insecure' /\ kinds'[n] = kinds[n]
    BY <1>1, <2>3 DEF Source
  <2> QED  BY <2>2, <2>3, <2>4, LostIs
<1>10. IsABag(open') /\ \A f : Copies(open', f) = Held(f)' + Extra(f) + a(f)
  <2>1. IsABag(open) /\ \A f : Copies(open, f) = Held(f) + Extra(f) /\ Extra(f) \in Nat
    BY OpenCopies
  <2> HIDE DEF a
  <2> QED  BY <1>1, <1>7, <2>1
<1>11. Counted'
  <2>1. \A f : \E x \in Nat : /\ Copies(open', f) = Held(f)' + Extra(f) + x
                              /\ x # 0 => f \in Lost'
    BY <1>7, <1>9, <1>10
  <2> QED  BY <1>3, <1>8, <1>10, <2>1, CountedNext
<1> QED  BY <1>3, <1>4, <1>5, <1>11 DEF IInv

----------------------------------------------------------------------------
(* hwc_sync, place by place.                                               *)

\* The fence of a slot that hwc_sync hands to the list, when it is the
\* rotator's: only what is rotated has one, and it gets its fence back, but for
\* the turned target of an animation, whose fence is lost.
FromRot(rotFailed) == [s \in Slot |-> IF s \in Rotates THEN RotFence(s, rotFailed) ELSE None]
Duplicated(rotFailed) ==
  {s \in Slot : HasRelease(s) /\ ~This.animating /\ FromRot(rotFailed)[s] = None}
Leaked(rotFailed) == IF This.animating THEN FdsOf(FromRot(rotFailed)) ELSE EmptyBag
ReleaseFd(failed) == IF failed THEN None ELSE Released(Now)

LEMMA ReleaseCopies ==
  ASSUME IInv, NEW failed \in BOOLEAN, NEW rotFailed \in BOOLEAN, Sync(failed, rotFailed)
  PROVE  /\ DOMAIN releaseFenceFd' = Slot
         /\ IsFiniteSet(Duplicated(rotFailed))
         /\ \A f : Copies(FdsOf(releaseFenceFd'), f) + Copies(Leaked(rotFailed), f)
                     = Copies(FdsOf(FromRot(rotFailed)), f)
                         + Copies(FdsOf(On(releaseFenceFd', Duplicated(rotFailed))), f)
<1> DEFINE from == FromRot(rotFailed)
           dups == Duplicated(rotFailed)
<1>1. releaseFenceFd' = [s \in Slot |->
        IF HasRelease(s) THEN LayerRelease(s, from[s], ReleaseFd(failed)) ELSE None]
  BY DEF Sync, FromRot, ReleaseFd
<1>2. This \in Kinds
  BY ThisKind DEF IInv, Sync
<1>3. This.animating => \A l \in Layers : This.comp[l] = "gpu"
  BY <1>2, FencesAssumption
<1>5. \A s \in Rotates : /\ s \in Slot /\ HasRelease(s)
                         /\ s # "fbt" => This.comp[s] = "rotator"
  BY DEF Rotates, Sessions, Target, HasRelease, Slot
<1>6. \A s \in Slot : from[s] = IF s \in Rotates THEN RotFence(s, rotFailed) ELSE None
  BY DEF FromRot
<1>7. DOMAIN from = Slot
  BY DEF FromRot
<1>8. \A s : s \in dups <=> s \in Slot /\ HasRelease(s) /\ ~This.animating /\ from[s] = None
  BY DEF Duplicated
<1> HIDE DEF from, dups
<1>9. ASSUME NEW s \in Slot, s \in dups
      PROVE  from[s] = None
  BY <1>8, <1>9
<1>4. DOMAIN releaseFenceFd' = Slot
  BY <1>1
<1>10. ASSUME NEW s \in Slot, s \notin dups, ~This.animating
      PROVE  releaseFenceFd'[s] = from[s]
  <2>1. CASE ~HasRelease(s)
    BY <1>1, <1>5, <1>6, <2>1
  <2>3. CASE HasRelease(s) /\ ~This.animating
    <3>1. from[s] # None
      BY <1>8, <1>10, <2>3
    <3>2. s \in Rotates
      BY <1>6, <3>1
    <3>3. ~(s # "fbt" /\ This.comp[s] = "blit")
      BY <1>5, <3>2
    <3>4. LayerRelease(s, from[s], ReleaseFd(failed)) = from[s]
      BY <2>3, <3>1, <3>3 DEF LayerRelease
    <3> QED  BY <1>1, <2>3, <3>4
  <2> QED  BY <1>10, <2>1, <2>3
<1>12. /\ DOMAIN On(releaseFenceFd', dups) = dups
       /\ \A s \in dups : On(releaseFenceFd', dups)[s] = releaseFenceFd'[s]
  BY DEF On
<1>13. \A s \in dups : s \in Slot
  BY <1>8
<1>14. ASSUME ~This.animating
       PROVE  Splits(releaseFenceFd', from, On(releaseFenceFd', dups))
  BY <1>14, <1>7, <1>9, <1>10, <1>4, <1>12, <1>13 DEF Splits, Holders
<1>15. IsFiniteSet(dups)
  <2>1. dups \subseteq Slot
    BY <1>13
  <2> QED  BY <2>1, FiniteSlot, FS_Subset
<1>16. CASE ~This.animating
  <2>1. \A f : Copies(FdsOf(releaseFenceFd'), f)
                = Copies(FdsOf(from), f) + Copies(FdsOf(On(releaseFenceFd', dups)), f)
    BY <1>4, <1>7, <1>12, <1>14, <1>15, <1>16, FiniteSlot, SplitCopies
  <2>2. \A f : Copies(FdsOf(releaseFenceFd'), f) \in Nat /\ Copies(EmptyBag, f) = 0
    BY <1>4, FiniteSlot, FdsCopies, CopiesNat, EmptyCopies
  <2> QED  BY <1>4, <1>15, <1>16, <2>1, <2>2 DEF from, dups, Leaked
<1>17. CASE This.animating
  <2>6. \A s : LayerRelease(s, from[s], ReleaseFd(failed)) = None
    BY <1>17, Zenon DEF LayerRelease
  <2>1. \A s \in Slot : releaseFenceFd'[s] = None
    BY <1>1, <2>6
  <2>2. \A f : Copies(FdsOf(releaseFenceFd'), f) = 0
    BY <1>4, <2>1, FiniteSlot, NoneCopies
  <2>3. dups = {}
    BY <1>8, <1>17
  <2>4. \A f : Copies(FdsOf(On(releaseFenceFd', dups)), f) = 0
    BY <1>12, <1>15, <2>3, NoneCopies
  <2>5. \A f : Copies(FdsOf(from), f) \in Nat
    BY <1>7, FiniteSlot, FdsCopies, CopiesNat
  <2> QED  BY <1>4, <1>15, <1>17, <2>2, <2>4, <2>5 DEF from, dups, Leaked
<1> QED  BY <1>16, <1>17

\* Only a turned target has a fence from the rotator in an animation.
LEMMA LeakedLost ==
  ASSUME IInv, NEW failed \in BOOLEAN, NEW rotFailed \in BOOLEAN, Sync(failed, rotFailed)
  PROVE  /\ IsABag(Leaked(rotFailed))
         /\ \A f : Copies(Leaked(rotFailed), f) # 0 => f \in Lost'
<1> DEFINE from == FromRot(rotFailed)
<1>1. DOMAIN from = Slot
  BY DEF FromRot
<1>2. IsABag(FdsOf(from)) /\ IsABag(EmptyBag) /\ \A f : Copies(EmptyBag, f) = 0
  BY <1>1, FiniteSlot, FdsCopies, EmptyCopies
<1>3. IsABag(Leaked(rotFailed))
  BY <1>2 DEF Leaked
<1>4. This \in Kinds /\ kinds' = kinds /\ Now \in 1 .. Now /\ This = kinds[Now] /\ Now' = Now
  BY ThisKind DEF IInv, Frames, Sync, Now, This
<1>5. ASSUME NEW f, Copies(Leaked(rotFailed), f) # 0
      PROVE  f \in Lost'
  <2>1. This.animating /\ f \in DOMAIN FdsOf(from)
    BY <1>2, <1>5 DEF Leaked, Copies
  <2>2. DOMAIN FdsOf(from) = {from[s] : s \in DOMAIN from} \ {None}
    BY DEF FdsOf
  <2>3. PICK s \in Slot : f = from[s] /\ f # None
    BY <1>1, <2>1, <2>2
  <2>4. s \in Rotates /\ f = Rotated(Now, s)
    BY <2>3 DEF FromRot, RotFence
  <2>5. \A l \in Layers : This.comp[l] = "gpu"
    BY <1>4, <2>1, FencesAssumption
  <2>6. s = "fbt" /\ This.turned
    BY <2>4, <2>5 DEF Rotates, Sessions, Target
  <2> QED  BY <1>4, <2>1, <2>4, <2>6, LostIs
<1> QED  BY <1>3, <1>5

\* The fence of the layers and sessions that go on to the rotator.
RotFences(rotFailed) == [l \in Replaced(rotFailed) |-> RotFence(l, rotFailed)]

LEMMA AcquireCopies ==
  ASSUME IInv, NEW failed \in BOOLEAN, NEW rotFailed \in BOOLEAN, Sync(failed, rotFailed)
  PROVE  /\ DOMAIN acquireFenceFd' = Slot
         /\ IsFiniteSet(Replaced(rotFailed)) /\ IsFiniteSet(Slot \ Replaced(rotFailed))
         /\ \A f : /\ Copies(FdsOf(acquireFenceFd), f)
                        = Copies(FdsOf(On(acquireFenceFd, Replaced(rotFailed))), f)
                            + Copies(FdsOf(On(acquireFenceFd, Slot \ Replaced(rotFailed))), f)
                   /\ Copies(FdsOf(acquireFenceFd'), f)
                        = Copies(FdsOf(RotFences(rotFailed)), f)
                            + Copies(FdsOf(On(acquireFenceFd, Slot \ Replaced(rotFailed))), f)
<1> DEFINE R == Replaced(rotFailed)
<1>1. acquireFenceFd' = [s \in Slot |-> IF s \in R THEN RotFence(s, rotFailed)
                                        ELSE acquireFenceFd[s]]
  BY DEF Sync
<1>2. R \subseteq Slot
  BY DEF Replaced, Sessions, Target, Slot
<1>3. RotFences(rotFailed) = [s \in R |-> RotFence(s, rotFailed)]
  BY DEF RotFences
<1> HIDE DEF R
<1>4. Within(R, Slot) /\ Over(acquireFenceFd, Slot) /\ Over(acquireFenceFd', Slot)
  BY <1>1, <1>2 DEF IInv, Places, Within, Over
<1>5. On(acquireFenceFd', R) = RotFences(rotFailed)
  BY <1>1, <1>2, <1>3 DEF On
<1>6. On(acquireFenceFd', Slot \ R) = On(acquireFenceFd, Slot \ R)
  BY <1>1 DEF On
<1>7. /\ IsFiniteSet(R) /\ IsFiniteSet(Slot \ R)
      /\ \A f : Copies(FdsOf(acquireFenceFd), f)
                  = Copies(FdsOf(On(acquireFenceFd, R)), f)
                      + Copies(FdsOf(On(acquireFenceFd, Slot \ R)), f)
  <2>1. IsFiniteSet(Slot)
    BY FiniteSlot
  <2> QED  BY <1>4, <2>1, PartsCopies
<1>8. \A f : Copies(FdsOf(acquireFenceFd'), f)
               = Copies(FdsOf(On(acquireFenceFd', R)), f)
                   + Copies(FdsOf(On(acquireFenceFd', Slot \ R)), f)
  <2>1. IsFiniteSet(Slot)
    BY FiniteSlot
  <2> QED  BY <1>4, <2>1, PartsCopies
<1>9. \A f : Copies(FdsOf(acquireFenceFd'), f)
               = Copies(FdsOf(RotFences(rotFailed)), f)
                   + Copies(FdsOf(On(acquireFenceFd, Slot \ R)), f)
  BY <1>5, <1>6, <1>8
<1>10. DOMAIN acquireFenceFd' = Slot
  BY <1>1
<1> QED  BY <1>7, <1>9, <1>10 DEF R

\* CopyBit::setReleaseFd: the ring's fence is closed for the new one.
RingFd(g) == IF CopyBit(This) THEN Fd(g) ELSE EmptyBag

LEMMA RingCopies ==
  ASSUME IInv, NEW failed \in BOOLEAN, NEW rotFailed \in BOOLEAN, Sync(failed, rotFailed)
  PROVE  LET old == mRelFd[mCurRenderBufferIndex]
             new == ReleaseFd(failed)
         IN  /\ DOMAIN mRelFd' = DOMAIN mRelFd
             /\ IsABag(RingFd(old)) /\ IsABag(RingFd(new))
             /\ \A f : /\ Copies(RingFd(old), f) <= Copies(FdsOf(mRelFd), f)
                       /\ Copies(FdsOf(mRelFd'), f) + Copies(RingFd(old), f)
                            = Copies(FdsOf(mRelFd), f) + Copies(RingFd(new), f)
<1> DEFINE i == mCurRenderBufferIndex
           old == mRelFd[i]
           new == ReleaseFd(failed)
           D == DOMAIN mRelFd
<1>1. \/ CopyBit(This) /\ mRelFd' = [mRelFd EXCEPT ![i] = new]
      \/ ~CopyBit(This) /\ mRelFd' = mRelFd
  BY DEF Sync, ReleaseOf, ReleaseFd
<1>2. i \in D /\ IsFiniteSet(D)
  BY FiniteSlot DEF IInv, Places
<1> HIDE DEF i, old, new
<1>3. DOMAIN mRelFd' = D
  BY <1>1
<1>4. IsABag(RingFd(old)) /\ IsABag(RingFd(new))
  BY FdCopies, EmptyCopies DEF RingFd
<1>5. /\ IsABag(FdsOf(mRelFd)) /\ IsABag(FdsOf(mRelFd'))
      /\ \A f : Copies(FdsOf(mRelFd), f) \in Nat
  BY <1>2, <1>3, FdsCopies, CopiesNat
<1>6. CASE ~CopyBit(This)
  <2>1. RingFd(old) = EmptyBag /\ RingFd(new) = EmptyBag
    BY <1>6 DEF RingFd
  <2>2. \A f : Copies(RingFd(old), f) = 0 /\ Copies(RingFd(new), f) = 0
    BY <2>1, EmptyCopies
  <2>3. mRelFd' = mRelFd
    BY <1>1, <1>6
  <2>4. \A f : /\ Copies(RingFd(old), f) <= Copies(FdsOf(mRelFd), f)
               /\ Copies(FdsOf(mRelFd'), f) + Copies(RingFd(old), f)
                    = Copies(FdsOf(mRelFd), f) + Copies(RingFd(new), f)
    BY <1>5, <2>2, <2>3
  <2> QED  BY <1>3, <1>4, <2>4 DEF i, old, new
<1>7. CASE CopyBit(This)
  <2>1. mRelFd' = [mRelFd EXCEPT ![i] = new]
    BY <1>1, <1>7
  <2>2. Within({i}, D) /\ Over(mRelFd, D) /\ Over(mRelFd', D)
    BY <1>2, <1>3 DEF Within, Over
  <2>3. On(mRelFd', D \ {i}) = On(mRelFd, D \ {i})
    BY <2>1 DEF On
  <2>4. /\ DOMAIN On(mRelFd, {i}) = {i} /\ On(mRelFd, {i})[i] = old
        /\ DOMAIN On(mRelFd', {i}) = {i} /\ On(mRelFd', {i})[i] = new
    BY <1>2, <2>1 DEF On, old
  <2> DEFINE r(f) == Copies(FdsOf(On(mRelFd, D \ {i})), f)
  <2>5. \A f : Copies(FdsOf(mRelFd), f) = Copies(FdsOf(On(mRelFd, {i})), f) + r(f)
    BY <1>2, <2>2, PartsCopies
  <2>6. \A f : Copies(FdsOf(mRelFd'), f) = Copies(FdsOf(On(mRelFd', {i})), f) + r(f)
    <3>1. \A f : Copies(FdsOf(mRelFd'), f) = Copies(FdsOf(On(mRelFd', {i})), f)
                                               + Copies(FdsOf(On(mRelFd', D \ {i})), f)
      BY <1>2, <2>2, PartsCopies
    <3> QED  BY <2>3, <3>1
  <2>7. \A f : r(f) \in Nat
    <3>1. IsFiniteSet(D \ {i}) /\ DOMAIN On(mRelFd, D \ {i}) = D \ {i}
      BY <1>2, <2>2, PartsCopies DEF On
    <3> QED  BY <3>1, FdsCopies, CopiesNat
  <2>8. RingFd(old) = Fd(old) /\ RingFd(new) = Fd(new)
    BY <1>7 DEF RingFd
  <2>9. \A f : /\ Copies(FdsOf(On(mRelFd, {i})), f) = Copies(RingFd(old), f)
               /\ Copies(FdsOf(On(mRelFd', {i})), f) = Copies(RingFd(new), f)
    BY <2>4, <2>8, OneCopies
  <2>10. \A f : Copies(RingFd(old), f) \in Nat /\ Copies(RingFd(new), f) \in Nat
    BY <1>4, CopiesNat
  <2> HIDE DEF r
  <2>11. \A f : /\ Copies(RingFd(old), f) <= Copies(FdsOf(mRelFd), f)
                /\ Copies(FdsOf(mRelFd'), f) + Copies(RingFd(old), f)
                     = Copies(FdsOf(mRelFd), f) + Copies(RingFd(new), f)
    BY <2>5, <2>6, <2>7, <2>9, <2>10
  <2> QED  BY <1>3, <1>4, <2>11 DEF i, old, new
<1> QED  BY <1>6, <1>7

LEMMA FourBags ==
  ASSUME NEW a, NEW b, NEW c, NEW d, IsABag(a), IsABag(b), IsABag(c), IsABag(d)
  PROVE  /\ IsABag(a (+) b (+) c (+) d)
         /\ \A f : Copies(a (+) b (+) c (+) d, f)
                     = Copies(a, f) + Copies(b, f) + Copies(c, f) + Copies(d, f)
<1>1. IsABag(a (+) b) /\ \A f : Copies(a (+) b, f) = Copies(a, f) + Copies(b, f)
  BY PlusCopies
<1>2. /\ IsABag(a (+) b (+) c)
      /\ \A f : Copies(a (+) b (+) c, f) = Copies(a (+) b, f) + Copies(c, f)
  BY <1>1, PlusCopies
<1>3. /\ IsABag(a (+) b (+) c (+) d)
      /\ \A f : Copies(a (+) b (+) c (+) d, f) = Copies(a (+) b (+) c, f) + Copies(d, f)
  BY <1>2, PlusCopies
<1>4. \A f : Copies(a (+) b (+) c (+) d, f)
               = Copies(a, f) + Copies(b, f) + Copies(c, f) + Copies(d, f)
  BY <1>1, <1>2, <1>3
<1> QED  BY <1>3, <1>4

LEMMA SixBags ==
  ASSUME NEW a, NEW b, NEW c, NEW d, NEW e, NEW g,
         IsABag(a), IsABag(b), IsABag(c), IsABag(d), IsABag(e), IsABag(g)
  PROVE  /\ IsABag(a (+) b (+) c (+) d (+) e (+) g)
         /\ \A f : Copies(a (+) b (+) c (+) d (+) e (+) g, f)
                     = Copies(a, f) + Copies(b, f) + Copies(c, f) + Copies(d, f)
                         + Copies(e, f) + Copies(g, f)
<1> DEFINE h == a (+) b (+) c (+) d
<1>1. /\ IsABag(h)
      /\ \A f : Copies(h, f) = Copies(a, f) + Copies(b, f) + Copies(c, f) + Copies(d, f)
  BY FourBags
<1> HIDE DEF h
<1>2. IsABag(h (+) e) /\ \A f : Copies(h (+) e, f) = Copies(h, f) + Copies(e, f)
  BY <1>1, PlusCopies
<1>3. /\ IsABag(h (+) e (+) g)
      /\ \A f : Copies(h (+) e (+) g, f) = Copies(h (+) e, f) + Copies(g, f)
  BY <1>2, PlusCopies
<1>4. \A f : Copies(h (+) e (+) g, f)
               = Copies(a, f) + Copies(b, f) + Copies(c, f) + Copies(d, f)
                   + Copies(e, f) + Copies(g, f)
  BY <1>1, <1>2, <1>3
<1> QED  BY <1>3, <1>4 DEF h

\* What hwc_sync opens and what it closes.
Made(failed, rotFailed) ==
  FdsOf(FromRot(rotFailed)) (+) FdsOf(RotFences(rotFailed)) (+) Fd(ReleaseFd(failed))
    (+) Fd(retireFenceFd') (+) FdsOf(On(releaseFenceFd', Duplicated(rotFailed)))
    (+) RingFd(ReleaseFd(failed))
Closed(failed, rotFailed) ==
  FdsOf(On(acquireFenceFd, Replaced(rotFailed))) (+) Fd(fd) (+) Fd(ReleaseFd(failed))
    (+) RingFd(mRelFd[mCurRenderBufferIndex])

LEMMA SyncOpens ==
  ASSUME NEW failed \in BOOLEAN, NEW rotFailed \in BOOLEAN, Sync(failed, rotFailed)
  PROVE  open' = (open (+) Made(failed, rotFailed)) (-) Closed(failed, rotFailed)
BY DEF Sync, Made, Closed, FromRot, RotFences, ReleaseFd, RingFd, Duplicated, On

LEMMA SyncHolds ==
  ASSUME IInv, NEW failed \in BOOLEAN, NEW rotFailed \in BOOLEAN, Sync(failed, rotFailed)
  PROVE  IInv'
<1>1. /\ step = "sync" /\ step' = "commit" /\ fd' = None
      /\ releaseFenceFd = NoFences /\ retireFenceFd = None
      /\ UNCHANGED <<kinds, mCurRenderBufferIndex, insecure>>
  BY DEF IInv, Empties, Sync
<1>2. Places'
  BY <1>1, AcquireCopies, ReleaseCopies, RingCopies DEF IInv, Places
<1>3. Frames' /\ Empties' /\ Promises'
  BY <1>1 DEF IInv, Frames, Empties, Promises, Now
<1> DEFINE R == Replaced(rotFailed)
           aR == FdsOf(On(acquireFenceFd, R))
           aO == FdsOf(On(acquireFenceFd, Slot \ R))
           rot == FdsOf(RotFences(rotFailed))
           from == FdsOf(FromRot(rotFailed))
           dup == FdsOf(On(releaseFenceFd', Duplicated(rotFailed)))
           rel == Fd(ReleaseFd(failed))
           ret == Fd(retireFenceFd')
           old == RingFd(mRelFd[mCurRenderBufferIndex])
           new == RingFd(ReleaseFd(failed))
           ring0 == FdsOf(mRelFd)
           ring1 == FdsOf(mRelFd')
           draw == Fd(fd)
           leak == Leaked(rotFailed)
           made == Made(failed, rotFailed)
           closed == Closed(failed, rotFailed)
<1>4. IsABag(aR) /\ IsABag(aO) /\ IsABag(rot)
  <2>1. /\ DOMAIN On(acquireFenceFd, R) = R
        /\ DOMAIN On(acquireFenceFd, Slot \ R) = Slot \ R
        /\ DOMAIN RotFences(rotFailed) = R
    BY DEF On, RotFences
  <2> QED  BY <2>1, AcquireCopies, FdsCopies
<1>5. IsABag(from) /\ IsABag(dup)
  <2>1. /\ DOMAIN On(releaseFenceFd', Duplicated(rotFailed)) = Duplicated(rotFailed)
        /\ DOMAIN FromRot(rotFailed) = Slot
    BY DEF On, FromRot
  <2> QED  BY <2>1, FiniteSlot, ReleaseCopies, FdsCopies
<1>6. IsABag(rel) /\ IsABag(ret) /\ IsABag(draw)
  BY FdCopies
<1>7. IsABag(old) /\ IsABag(new) /\ IsABag(ring0) /\ IsABag(ring1)
  <2>1. IsABag(old) /\ IsABag(new) /\ DOMAIN mRelFd' = DOMAIN mRelFd
    BY RingCopies
  <2> QED  BY <2>1, FiniteSlot, FdsCopies DEF IInv, Places
<1>8. /\ \A f : Copies(FdsOf(acquireFenceFd), f) = Copies(aR, f) + Copies(aO, f)
      /\ \A f : Copies(FdsOf(acquireFenceFd'), f) = Copies(rot, f) + Copies(aO, f)
  BY AcquireCopies
<1>9. /\ IsABag(leak) /\ IsABag(FdsOf(releaseFenceFd'))
      /\ \A f : Copies(FdsOf(releaseFenceFd'), f) + Copies(leak, f)
                  = Copies(from, f) + Copies(dup, f)
      /\ \A f : Copies(leak, f) # 0 => f \in Lost'
  BY ReleaseCopies, LeakedLost, FiniteSlot, FdsCopies
<1>10. \A f : /\ Copies(old, f) <= Copies(ring0, f)
              /\ Copies(ring1, f) + Copies(old, f) = Copies(ring0, f) + Copies(new, f)
  BY RingCopies
<1>11. IsABag(open) /\ \A f : Copies(open, f) = Held(f) + Extra(f) /\ Extra(f) \in Nat
  BY OpenCopies
<1>12. open' = (open (+) made) (-) closed
  BY SyncOpens
<1>13. made = from (+) rot (+) rel (+) ret (+) dup (+) new
  BY DEF Made
<1>14. closed = aR (+) draw (+) rel (+) old
  BY DEF Closed
<1> HIDE DEF R, aR, aO, rot, from, dup, rel, ret, old, new, ring0, ring1, draw, leak, made, closed
<1>15. \A f : Held(f) = Copies(aR, f) + Copies(aO, f) + Copies(draw, f) + Copies(ring0, f)
  <2> TAKE f
  <2>1. /\ Copies(FdsOf(acquireFenceFd), f) = Copies(aR, f) + Copies(aO, f)
        /\ Copies(FdsOf(releaseFenceFd), f) = 0 /\ Copies(Fd(retireFenceFd), f) = 0
    BY <1>1, <1>8, NoFencesHeld, NoFdHeld
  <2>2. /\ Copies(aR, f) \in Nat /\ Copies(aO, f) \in Nat
        /\ Copies(draw, f) \in Nat /\ Copies(ring0, f) \in Nat
    BY <1>4, <1>6, <1>7, CopiesNat
  <2> QED  BY <2>1, <2>2 DEF Held, draw, ring0
<1>16. \A f : Held(f)' + Copies(leak, f)
                = Copies(rot, f) + Copies(aO, f) + Copies(from, f) + Copies(dup, f)
                    + Copies(ret, f) + Copies(ring1, f)
  <2> TAKE f
  <2>1. /\ Copies(FdsOf(acquireFenceFd'), f) = Copies(rot, f) + Copies(aO, f)
        /\ Copies(FdsOf(releaseFenceFd'), f) + Copies(leak, f) = Copies(from, f) + Copies(dup, f)
        /\ Copies(Fd(fd'), f) = 0
    BY <1>1, <1>8, <1>9, NoFdHeld
  <2>2. /\ Copies(rot, f) \in Nat /\ Copies(aO, f) \in Nat /\ Copies(from, f) \in Nat
        /\ Copies(dup, f) \in Nat /\ Copies(ret, f) \in Nat /\ Copies(ring1, f) \in Nat
        /\ Copies(leak, f) \in Nat /\ Copies(FdsOf(releaseFenceFd'), f) \in Nat
    BY <1>4, <1>5, <1>6, <1>7, <1>9, CopiesNat
  <2> QED  BY <2>1, <2>2 DEF Held, ret, ring1
<1>17. /\ IsABag(made)
       /\ \A f : Copies(made, f) = Copies(from, f) + Copies(rot, f) + Copies(rel, f)
                                     + Copies(ret, f) + Copies(dup, f) + Copies(new, f)
  BY <1>4, <1>5, <1>6, <1>7, <1>13, SixBags
<1>18. /\ IsABag(closed)
       /\ \A f : Copies(closed, f) = Copies(aR, f) + Copies(draw, f) + Copies(rel, f)
                                       + Copies(old, f)
  BY <1>4, <1>6, <1>7, <1>14, FourBags
<1>19. ASSUME NEW f
       PROVE  /\ Copies(closed, f) <= Copies(open, f) + Copies(made, f)
              /\ Copies(open, f) + Copies(made, f) - Copies(closed, f)
                   = Held(f)' + Extra(f) + Copies(leak, f)
  <2>1. /\ Copies(aR, f) \in Nat /\ Copies(aO, f) \in Nat /\ Copies(rot, f) \in Nat
        /\ Copies(from, f) \in Nat /\ Copies(dup, f) \in Nat /\ Copies(rel, f) \in Nat
        /\ Copies(ret, f) \in Nat /\ Copies(draw, f) \in Nat /\ Copies(old, f) \in Nat
        /\ Copies(new, f) \in Nat /\ Copies(ring0, f) \in Nat /\ Copies(ring1, f) \in Nat
        /\ Copies(leak, f) \in Nat
    BY <1>4, <1>5, <1>6, <1>7, <1>9, CopiesNat
  <2>2. /\ Copies(open, f) = Copies(aR, f) + Copies(aO, f) + Copies(draw, f)
                               + Copies(ring0, f) + Extra(f)
        /\ Extra(f) \in Nat /\ Held(f)' \in Nat
    BY <1>2, <1>11, <1>15, HeldBagsNext
  <2> QED  BY <1>10, <1>16, <1>17, <1>18, <2>1, <2>2
<1>20. IsABag(open') /\ \A f : Copies(open', f) = Held(f)' + Extra(f) + Copies(leak, f)
  <2>1. /\ IsABag(open')
        /\ \A f : Copies(open', f) = Copies(open, f) + Copies(made, f) - Copies(closed, f)
    BY <1>11, <1>12, <1>17, <1>18, <1>19, Exchange
  <2> QED  BY <1>19, <2>1
<1>21. Lost \subseteq Lost'
  BY <1>1, LostGrows DEF IInv
<1>22. Counted'
  <2>1. \A f : Copies(leak, f) \in Nat
    BY <1>9, CopiesNat
  <2>2. \A f : \E x \in Nat : /\ Copies(open', f) = Held(f)' + Extra(f) + x
                              /\ x # 0 => f \in Lost'
    BY <1>9, <1>20, <2>1
  <2> QED  BY <1>2, <1>20, <1>21, <2>2, CountedNext
<1> QED  BY <1>2, <1>3, <1>22 DEF IInv

----------------------------------------------------------------------------
\* The inductive invariant holds of every behaviour.
THEOREM Invariance == Spec => []IInv
<1>1. Init => IInv
  BY InitHolds
<1>2. ASSUME IInv, [Next]_vars  PROVE IInv'
  <2>1. CASE NewFrame
    BY <1>2, <2>1, PrepareHolds DEF NewFrame
  <2>2. CASE HwcSet
    <3>1. ASSUME Draw  PROVE IInv'
      BY <1>2, <3>1, DrawHolds
    <3>2. ASSUME NEW f \in BOOLEAN, NEW r \in BOOLEAN, Sync(f, r)  PROVE IInv'
      BY <1>2, <3>2, SyncHolds
    <3>4. ASSUME SecureFails  PROVE IInv'
      BY <1>2, <3>4, SecureHolds
    <3>3. ASSUME Commit \/ Skip  PROVE IInv'
      BY <1>2, <3>3, CloseHolds DEF Commit, Skip
    <3> QED  BY <2>2, <3>1, <3>2, <3>3, <3>4 DEF HwcSet
  <2>3. CASE Produces \/ Works \/ Show \/ UNCHANGED vars
    <3>1. UNCHANGED composer
      BY <2>3 DEF Produces, Produce, Works, Work, Show, vars
    <3> QED  BY <1>2, <3>1, OthersHold
  <2> QED  BY <1>2, <2>1, <2>2, <2>3 DEF Next
<1> QED  BY <1>1, <1>2, PTL DEF Spec

\* What the invariant counts is the property.
LEMMA CountedKept == ASSUME IInv  PROVE DescriptorsKept
<1>1. IsABag(open) /\ \A f : Copies(open, f) = Held(f) + Extra(f) /\ Extra(f) \in Nat
  BY OpenCopies
<1>2. /\ IsABag(InPlaces) /\ \A f : Copies(InPlaces, f) = Held(f) /\ Held(f) \in Nat
  <2>1. /\ IsABag(FdsOf(acquireFenceFd)) /\ IsABag(FdsOf(releaseFenceFd))
        /\ IsABag(Fd(retireFenceFd)) /\ IsABag(Fd(fd)) /\ IsABag(FdsOf(mRelFd))
        /\ \A f : Held(f) \in Nat
    BY HeldBags DEF IInv
  <2> QED  BY <2>1, FiveBags DEF InPlaces, Held
<1>3. \A f : Copies(InPlaces, f) <= Copies(open, f)
  BY <1>1, <1>2
<1>4. InPlaces \sqsubseteq open
  <2>1. \A f \in DOMAIN InPlaces : Copies(InPlaces, f) = InPlaces[f] /\ InPlaces[f] > 0
    BY <1>2 DEF Copies, IsABag
  <2>2. \A f \in DOMAIN InPlaces : f \in DOMAIN open /\ Copies(open, f) = open[f]
    BY <1>1, <1>2, <1>3, <2>1 DEF Copies
  <2> QED  BY <1>3, <2>1, <2>2 DEF \sqsubseteq
<1>5. ASSUME NEW f \in BagToSet(open (-) InPlaces)  PROVE f \in Lost
  <2>1. /\ IsABag(open (-) InPlaces)
        /\ \A g : Copies(open (-) InPlaces, g) = Copies(open, g) - Copies(InPlaces, g)
    BY <1>1, <1>2, <1>3, MinusCopies
  <2>2. Copies(open (-) InPlaces, f) # 0
    BY <1>5, <2>1 DEF Copies, BagToSet, IsABag
  <2>3. Extra(f) # 0
    BY <1>1, <1>2, <2>1, <2>2
  <2> QED  BY <2>3 DEF IInv, Counted
<1> QED  BY <1>4, <1>5 DEF DescriptorsKept

\* hwc_sync and its callers: with whatever ioctls failing, every place that
\* holds a descriptor holds an open one of its own, and those open beyond are of
\* the fences lost by a frame whose output cannot be made secure, or by an
\* animation whose target is turned.
THEOREM Descriptors == Spec => []DescriptorsKept
<1>1. IInv => DescriptorsKept
  BY CountedKept
<1> QED  BY <1>1, Invariance, PTL

----------------------------------------------------------------------------
(* Readers wait for writers.  The events, and the frame a layer shows.     *)

LEMMA EventsDiffer ==
  \A n, m, s, t :
    /\ Written(n, s) = Written(m, t) => n = m /\ s = t
    /\ Rotated(n, s) = Rotated(m, t) => n = m /\ s = t
    /\ Blitted(n) = Blitted(m) => n = m
    /\ Blitted(n) \notin {Written(m, t), Rotated(m, t), Released(m), Retired(m)}
BY DEF Written, Rotated, Blitted, Released, Retired

LEMMA EventsReal ==
  ASSUME NEW n \in Frame, NEW s \in Slot
  PROVE  Written(n, s) # None /\ Rotated(n, s) # None /\ Blitted(n) # None
BY FencesAssumption

\* The frame whose buffer a rotated layer shows is one that rotated it.
SourceKept ==
  \A n \in 1 .. Now, l \in Layers :
    /\ Source(n, l) \in 1 .. n
    /\ kinds[n].comp[l] # "cached" => Source(n, l) = n
    /\ kinds[n].comp[l] \in {"rotator", "cached"} =>
         kinds[Source(n, l)].comp[l] = "rotator"

Lengths ==
  /\ Now \in 0 .. MaxFrame
  /\ syncs = [n \in 1 .. Now |-> syncs[n]]
  /\ commits \in Seq(Nat)

\* Where hwc_set goes with a frame.
Stages ==
  /\ step \in {"draw", "sync"} => Synced(This)
  /\ step = "draw" => Blits(This)
  /\ step = "sync" => fd = IF Blits(This) THEN Blitted(Now) ELSE None
  /\ step = "commit" => This.handled
  /\ step \in {"draw", "sync", "close"} => syncs[Now] = {}

\* Until it is passed on, a slot has the fence of its buffer or needs none, and
\* drawOverlap has waited for the layers itself.
Brings(s) == s \in Fenced(This) /\ (s \in Layers => This.comp[s] # "cached")
AcquireInv ==
  /\ step = "draw" \/ (step = "sync" /\ ~Blits(This)) =>
       \A s \in Slot : Brings(s) =>
         acquireFenceFd[s] = Written(Now, s) \/ Written(Now, s) \in done
  /\ step = "sync" /\ This.ptor = "yes" /\ Now \notin faulty =>
       \A l \in Layers : Written(Now, l) \in done

\* A job waits for what it reads.
Drawn(n, fences) ==
  /\ \A l \in Layers : Written(n, l) \in fences
  /\ UsesFb(kinds[n]) => Written(n, "fbt") \in fences
Sound1(j, n) ==
  \/ \E s \in Slot : /\ j.does = Rotated(n, s)
                     /\ n \notin faulty => Written(n, s) \in j.waits \cup done
  \/ j.does = Blitted(n) /\ (n \notin faulty => Drawn(n, j.waits \cup done))
JobInv == \A j \in jobs : \E n \in 1 .. Now : Sound1(j, n)
BlitInv ==
  \A n \in Frame : Blitted(n) \in done =>
    n \in 1 .. Now /\ (n \notin faulty /\ UsesFb(kinds[n]) => Written(n, "fbt") \in done)

\* The display waits for what it reads, in its own frame or in one before.
ByRotator(k, s) == (s \in Layers /\ k.comp[s] = "rotator") \/ (s = "fbt" /\ k.turned)
Awaited(n, fences) ==
  LET k == kinds[n]
  IN  /\ \A l \in Layers : k.comp[l] = "overlay" => Written(n, l) \in fences
      /\ \A s \in Slot : ByRotator(k, s) => Rotated(n, s) \in fences
      /\ UsesFb(k) /\ ~Blits(k) /\ ~k.turned => Written(n, "fbt") \in fences
      /\ Blits(k) => Blitted(n) \in fences
      /\ UsesOutbuf(k) => Written(n, "outbuf") \in fences
SyncInv ==
  \A n \in 1 .. Now :
    /\ n < Now \/ step \notin {"draw", "sync"}
    /\ Synced(kinds[n]) /\ n \notin faulty
    => Awaited(n, syncs[n] \cup done)
CommitInv ==
  /\ \A i, j \in 1 .. Len(commits) : i < j => commits[i] < commits[j]
  /\ \A i \in 1 .. Len(commits) :
       LET n == commits[i]
       IN  n \in 1 .. Now /\ kinds[n].handled /\ (n < Now \/ step = "idle")
  /\ \A n \in 1 .. Now :
       (n < Now \/ step = "idle") /\ (\A i \in 1 .. Len(commits) : commits[i] # n)
         => syncs[n] \subseteq done

WaitInv ==
  /\ SourceKept /\ Lengths /\ Stages /\ AcquireInv
  /\ JobInv /\ BlitInv /\ SyncInv /\ CommitInv

LEMMA WaitInit == Init => WaitInv
<1> SUFFICES ASSUME Init  PROVE WaitInv
  OBVIOUS
<1>1. /\ kinds = <<>> /\ step = "idle" /\ syncs = <<>> /\ commits = <<>>
      /\ jobs = {} /\ done = {}
  BY DEF Init
<1>2. Now = 0 /\ MaxFrame \in Nat
  BY <1>1, FencesAssumption DEF Now
<1>3. SourceKept /\ SyncInv /\ CommitInv
  BY <1>1, <1>2 DEF SourceKept, SyncInv, CommitInv
<1>4. Lengths
  BY <1>1, <1>2 DEF Lengths
<1>5. Stages /\ AcquireInv /\ JobInv /\ BlitInv
  BY <1>1 DEF Stages, AcquireInv, JobInv, BlitInv
<1> QED  BY <1>3, <1>4, <1>5 DEF WaitInv

\* What is in a kind of frame.
LEMMA KindFacts ==
  ASSUME NEW k \in Kinds
  PROVE  /\ k \in Kind /\ k.handled \in BOOLEAN /\ k.empty \in BOOLEAN
         /\ \A l \in Layers : k.comp[l] \in {"overlay", "rotator", "cached", "gpu", "blit"}
         /\ \A l \in Layers : k.comp[l] # "gpu" => k.handled /\ ~k.empty
         /\ Blits(k) => k.dpy = "primary" /\ k.handled /\ ~k.empty /\ Synced(k)
         /\ Blits(k) => (k.ptor = "yes" <=> ~\A l \in Layers : k.comp[l] = "blit")
         /\ k.ptor = "yes" => (\A l \in Layers : k.comp[l] = "overlay") /\ ~UsesFb(k)
         /\ (\E l \in Layers : k.comp[l] \in {"rotator", "cached"}) => ~Blits(k)
         /\ k.turned \in BOOLEAN
         /\ k.turned => UsesFb(k) /\ ~Blits(k) /\ Synced(k)
<1>1. k \in Kind /\ Top \in Layers
  BY FencesAssumption
<1>2. /\ k.handled \in BOOLEAN /\ k.empty \in BOOLEAN
      /\ \A l \in Layers : k.comp[l] \in {"overlay", "rotator", "cached", "gpu", "blit"}
  BY <1>1 DEF Kind
<1>3. /\ ~k.handled \/ k.empty => \A l \in Layers : k.comp[l] = "gpu"
      /\ k.ptor # "no" => k.dpy = "primary" /\ k.mdss
      /\ k.ptor = "yes" => \A l \in Layers : k.comp[l] = "overlay"
      /\ (\E l \in Layers : k.comp[l] = "blit") =>
           k.dpy = "primary" /\ ~k.mdss /\ \A l \in Layers : k.comp[l] = "blit"
  BY FencesAssumption
<1>4. \A l \in Layers : k.comp[l] # "gpu" => k.handled /\ ~k.empty
  BY <1>2, <1>3
<1>5. ASSUME Blits(k)
      PROVE  /\ k.dpy = "primary" /\ k.handled /\ ~k.empty /\ Synced(k)
             /\ k.ptor = "yes" <=> ~\A l \in Layers : k.comp[l] = "blit"
             /\ \A l \in Layers : k.comp[l] \in {"overlay", "blit"}
  BY <1>1, <1>3, <1>4, <1>5 DEF Blits, Synced
<1>6. k.ptor = "yes" => (\A l \in Layers : k.comp[l] = "overlay") /\ ~UsesFb(k)
  BY <1>3 DEF UsesFb
<1>7. k.turned \in BOOLEAN
  BY <1>1 DEF Kind
<1>8. ASSUME k.turned  PROVE UsesFb(k) /\ ~Blits(k) /\ Synced(k)
  <2>1. k.dpy # "primary" /\ k.handled /\ ~k.empty /\ \E l \in Layers : k.comp[l] = "gpu"
    BY <1>8, FencesAssumption
  <2> QED  BY <1>5, <2>1 DEF UsesFb, Synced
<1> QED  BY <1>1, <1>2, <1>4, <1>5, <1>6, <1>7, <1>8


----------------------------------------------------------------------------
(* Producers, engines and the display only add events.                     *)

LEMMA OthersWait ==
  ASSUME WaitInv, UNCHANGED composer, jobs' \subseteq jobs, done \subseteq done',
         \A n \in Frame : Blitted(n) \in done' =>
           \/ Blitted(n) \in done
           \/ \E j \in jobs : j.does = Blitted(n) /\ j.waits \subseteq done,
         commits' \in Seq(Nat), CommitInv'
  PROVE  WaitInv'
<1>1. /\ kinds' = kinds /\ step' = step /\ acquireFenceFd' = acquireFenceFd /\ fd' = fd
      /\ syncs' = syncs /\ faulty' = faulty
  BY DEF composer
<1>2. Now' = Now /\ This' = This
  BY <1>1 DEF Now, This
<1>3. SourceKept'
  <2>1. \A n, l : Source(n, l)' = Source(n, l)
    BY <1>1 DEF Source
  <2> QED  BY <1>1, <1>2, <2>1 DEF WaitInv, SourceKept
<1>4. Lengths' /\ Stages'
  BY <1>1, <1>2 DEF WaitInv, Lengths, Stages
<1>5. AcquireInv'
  BY <1>1, <1>2 DEF WaitInv, AcquireInv, Brings
<1>6. JobInv'
  <2> SUFFICES ASSUME NEW j \in jobs'
               PROVE  \E n \in 1 .. Now : Sound1(j, n)'
    BY <1>2 DEF JobInv
  <2>1. PICK n \in 1 .. Now : Sound1(j, n)
    BY DEF WaitInv, JobInv
  <2>2. Sound1(j, n)'
    BY <1>1, <2>1 DEF Sound1, Drawn
  <2> QED  BY <2>2
<1>7. BlitInv'
  <2> SUFFICES ASSUME NEW n \in Frame, Blitted(n) \in done'
               PROVE  /\ n \in 1 .. Now
                      /\ n \notin faulty /\ UsesFb(kinds[n]) => Written(n, "fbt") \in done'
    BY <1>1, <1>2 DEF BlitInv
  <2>1. CASE Blitted(n) \in done
    BY <2>1 DEF WaitInv, BlitInv
  <2>2. CASE \E j \in jobs : j.does = Blitted(n) /\ j.waits \subseteq done
    <3>1. PICK j \in jobs : j.does = Blitted(n) /\ j.waits \subseteq done
      BY <2>2
    <3>2. PICK m \in 1 .. Now : Sound1(j, m)
      BY DEF WaitInv, JobInv
    <3>3. \A s : j.does # Rotated(m, s)
      BY <3>1 DEF Blitted, Rotated
    <3>4. j.does = Blitted(m) /\ (m \notin faulty => Drawn(m, j.waits \cup done))
      BY <3>2, <3>3 DEF Sound1
    <3>5. m = n
      BY <3>1, <3>4, EventsDiffer
    <3> QED  BY <3>1, <3>4, <3>5 DEF Drawn
  <2> QED  BY <2>1, <2>2
<1>8. SyncInv'
  <2> SUFFICES ASSUME NEW n \in 1 .. Now, n < Now \/ step \notin {"draw", "sync"},
                      Synced(kinds[n]), n \notin faulty
               PROVE  Awaited(n, syncs[n] \cup done)'
    BY <1>1, <1>2 DEF SyncInv
  <2>1. Awaited(n, syncs[n] \cup done)
    BY DEF WaitInv, SyncInv
  <2> QED  BY <1>1, <2>1 DEF Awaited
<1> QED  BY <1>3, <1>4, <1>5, <1>6, <1>7, <1>8 DEF WaitInv

LEMMA CommitsKept ==
  ASSUME WaitInv, UNCHANGED <<kinds, step, syncs, commits>>, done \subseteq done'
  PROVE  CommitInv' /\ commits' \in Seq(Nat)
<1>1. Now' = Now
  BY DEF Now
<1>2. CommitInv /\ commits \in Seq(Nat)
  BY DEF WaitInv, Lengths
<1> QED  BY <1>1, <1>2 DEF CommitInv

LEMMA WorldWaits ==
  ASSUME WaitInv, Produces \/ Works \/ Show \/ UNCHANGED vars
  PROVE  WaitInv'
<1>1. CASE Produces
  <2>1. PICK n \in 1 .. Now, s \in Slot : Produce(n, s)
    BY <1>1 DEF Produces
  <2>2. /\ done' = done \cup {Written(n, s)}
        /\ UNCHANGED <<composer, jobs, commits>>
    BY <2>1 DEF Produce
  <2>3. \A m \in Frame : Blitted(m) \in done' => Blitted(m) \in done
    BY <2>2, EventsDiffer
  <2> QED  BY <2>2, <2>3, OthersWait, CommitsKept DEF composer
<1>2. CASE Works
  <2>1. PICK j \in jobs : Work(j)
    BY <1>2 DEF Works
  <2>2. /\ done' = done \cup {j.does} /\ j.waits \subseteq done /\ jobs' = jobs \ {j}
        /\ UNCHANGED <<composer, commits>>
    BY <2>1 DEF Work
  <2>3. \A m \in Frame : Blitted(m) \in done' =>
          \/ Blitted(m) \in done
          \/ \E i \in jobs : i.does = Blitted(m) /\ i.waits \subseteq done
    BY <2>2
  <2>4. CommitInv' /\ commits' \in Seq(Nat)
    BY <2>2, CommitsKept DEF composer
  <2> QED  BY <2>2, <2>3, <2>4, OthersWait
<1>3. CASE Show
  <2> DEFINE h == Head(commits)
             over == IF kinds[h].dpy = "virtual" THEN {h} ELSE {screen} \ {0}
  <2>1. /\ commits # <<>> /\ syncs[h] \subseteq done /\ commits' = Tail(commits)
        /\ done' = done \cup {Released(m) : m \in over} \cup {Retired(m) : m \in over}
        /\ UNCHANGED <<composer, jobs>>
    BY <1>3 DEF Show
  <2> HIDE DEF over
  <2>2. \A m \in Frame : Blitted(m) \in done' => Blitted(m) \in done
    BY <2>1, EventsDiffer
  <2>3. commits \in Seq(Nat) /\ CommitInv
    BY DEF WaitInv, Lengths
  <2>4. /\ commits' \in Seq(Nat) /\ Len(commits) \in Nat /\ Len(commits) > 0
        /\ Len(commits') = Len(commits) - 1 /\ h = commits[1]
        /\ \A i \in 1 .. Len(commits') : commits'[i] = commits[i + 1]
    BY <2>1, <2>3
  <2>5. /\ kinds' = kinds /\ step' = step /\ syncs' = syncs /\ Now' = Now
    BY <2>1 DEF composer, Now
  <2>6. \A i, j \in 1 .. Len(commits') : i < j => commits'[i] < commits'[j]
    <3> SUFFICES ASSUME NEW i \in 1 .. Len(commits'), NEW j \in 1 .. Len(commits'), i < j
                 PROVE  commits'[i] < commits'[j]
      OBVIOUS
    <3>1. i + 1 \in 1 .. Len(commits) /\ j + 1 \in 1 .. Len(commits) /\ i + 1 < j + 1
      BY <2>4
    <3>2. commits[i + 1] < commits[j + 1]
      BY <2>3, <3>1 DEF CommitInv
    <3> QED  BY <2>4, <3>2
  <2>7. \A i \in 1 .. Len(commits') :
          LET n == commits'[i]
          IN  n \in 1 .. Now /\ kinds[n].handled /\ (n < Now \/ step = "idle")
    <3> SUFFICES ASSUME NEW i \in 1 .. Len(commits')
                 PROVE  LET n == commits'[i]
                        IN  n \in 1 .. Now /\ kinds[n].handled /\ (n < Now \/ step = "idle")
      OBVIOUS
    <3>1. Len(commits') = Len(commits) - 1 /\ Len(commits) \in Nat
      BY <2>4
    <3>2. i + 1 \in 1 .. Len(commits)
      BY <3>1
    <3>3. commits'[i] = commits[i + 1]
      BY <2>4
    <3> QED  BY <2>3, <3>2, <3>3 DEF CommitInv
  <2>8. \A n \in 1 .. Now :
          (n < Now \/ step = "idle") /\ (\A i \in 1 .. Len(commits') : commits'[i] # n)
            => syncs[n] \subseteq done'
    <3> SUFFICES ASSUME NEW n \in 1 .. Now, n < Now \/ step = "idle",
                        \A i \in 1 .. Len(commits') : commits'[i] # n
                 PROVE  syncs[n] \subseteq done'
      OBVIOUS
    <3>1. CASE n = h
      BY <2>1, <3>1
    <3>2. CASE n # h
      <4>1. ASSUME NEW i \in 1 .. Len(commits)  PROVE commits[i] # n
        <5>1. CASE i = 1
          BY <2>4, <3>2, <5>1
        <5>2. CASE i # 1
          <6>1. i - 1 \in 1 .. Len(commits') /\ (i - 1) + 1 = i
            BY <2>4, <5>2
          <6> QED  BY <2>4, <6>1
        <5> QED  BY <5>1, <5>2
      <4>2. syncs[n] \subseteq done
        BY <2>3, <4>1 DEF CommitInv
      <4> QED  BY <2>1, <4>2
    <3> QED  BY <3>1, <3>2
  <2>9. CommitInv'
    BY <2>5, <2>6, <2>7, <2>8 DEF CommitInv
  <2>10. jobs' \subseteq jobs /\ done \subseteq done'
    BY <2>1
  <2> QED  BY <2>1, <2>2, <2>4, <2>9, <2>10, OthersWait
<1>4. CASE UNCHANGED vars
  <2>1. UNCHANGED <<composer, jobs, commits, done>>
    BY <1>4 DEF vars
  <2> QED  BY <2>1, OthersWait, CommitsKept DEF composer
<1> QED  BY <1>1, <1>2, <1>3, <1>4


----------------------------------------------------------------------------
(* hwc_prepare.                                                            *)

LEMMA Appended ==
  ASSUME IInv, WaitInv, NEW k \in Kinds, Prepare(k)
  PROVE  /\ Now \in Nat /\ Now' = Now + 1 /\ Now' \in Frame
         /\ kinds'[Now'] = k /\ This' = k /\ syncs'[Now'] = {}
         /\ \A n \in 1 .. Now : kinds'[n] = kinds[n] /\ syncs'[n] = syncs[n]
         /\ syncs' = [n \in 1 .. Now' |-> syncs'[n]]
<1>1. kinds \in Seq(Kinds) /\ kinds' = Append(kinds, k) /\ syncs' = Append(syncs, {})
  BY DEF IInv, Frames, Prepare
<1>2. /\ Now \in Nat /\ Now' = Now + 1 /\ kinds'[Now'] = k
      /\ \A n \in 1 .. Now : kinds'[n] = kinds[n]
  BY <1>1 DEF Now
<1>3. Now < MaxFrame /\ MaxFrame \in Nat
  BY FencesAssumption DEF Prepare
<1> DEFINE T == {syncs[n] : n \in 1 .. Now} \cup {{}}
<1>4. syncs \in Seq(T) /\ Len(syncs) = Now
  <2>1. syncs = [n \in 1 .. Now |-> syncs[n]]
    BY DEF WaitInv, Lengths
  <2>2. \A n \in 1 .. Now : syncs[n] \in T
    OBVIOUS
  <2> HIDE DEF T
  <2>3. syncs \in [1 .. Now -> T]
    BY <2>1, <2>2
  <2> QED  BY <1>2, <2>3
<1>5. {} \in T
  OBVIOUS
<1> HIDE DEF T
<1>6. /\ syncs' \in Seq(T) /\ Len(syncs') = Now + 1 /\ syncs'[Now + 1] = {}
      /\ \A n \in 1 .. Now : syncs'[n] = syncs[n]
  BY <1>1, <1>4, <1>5
<1>7. syncs' = [n \in 1 .. Now' |-> syncs'[n]]
  BY <1>2, <1>6
<1>8. This' = k
  BY <1>2 DEF This
<1> QED  BY <1>2, <1>3, <1>6, <1>7, <1>8 DEF Frame

LEMMA PrepareSources ==
  ASSUME IInv, WaitInv, NEW k \in Kinds, Prepare(k)
  PROVE  SourceKept'
<1>1. /\ Now \in Nat /\ Now' = Now + 1 /\ kinds'[Now'] = k
      /\ \A n \in 1 .. Now : kinds'[n] = kinds[n]
  BY Appended
<1>2. SourceKept
  BY DEF WaitInv
<1> SUFFICES ASSUME NEW n \in 1 .. Now', NEW l \in Layers
             PROVE  /\ Source(n, l)' \in 1 .. n
                    /\ kinds'[n].comp[l] # "cached" => Source(n, l)' = n
                    /\ kinds'[n].comp[l] \in {"rotator", "cached"} =>
                         kinds'[Source(n, l)'].comp[l] = "rotator"
  BY DEF SourceKept
<1>3. CASE n \in 1 .. Now
  <2>1. Own(kinds', n, l) = Own(kinds, n, l)
    BY <1>1, <1>3 DEF Own
  <2>2. Source(n, l)' = Source(n, l)
    BY <2>1, SourceIsOwn
  <2>3. Source(n, l) \in 1 .. n /\ 1 .. n \subseteq 1 .. Now
    BY <1>1, <1>2, <1>3 DEF SourceKept
  <2>4. /\ kinds[n].comp[l] # "cached" => Source(n, l) = n
        /\ kinds[n].comp[l] \in {"rotator", "cached"} =>
             kinds[Source(n, l)].comp[l] = "rotator"
    BY <1>2, <1>3 DEF SourceKept
  <2>5. kinds'[n] = kinds[n] /\ kinds'[Source(n, l)] = kinds[Source(n, l)]
    BY <1>1, <1>3, <2>3
  <2> QED  BY <2>2, <2>3, <2>4, <2>5
<1>4. CASE n = Now' /\ k.comp[l] # "cached"
  <2>1. n \in Own(kinds', n, l) /\ \A m \in Own(kinds', n, l) : m \in Int /\ n >= m
    BY <1>1, <1>4 DEF Own
  <2>2. Source(n, l)' = n
    BY <1>1, <2>1, MaxIs, SourceIsOwn
  <2> QED  BY <1>1, <1>4, <2>2
<1>5. CASE n = Now' /\ k.comp[l] = "cached"
  <2>1. Now > 0 /\ This.comp[l] \in {"rotator", "cached"}
    BY <1>5 DEF Prepare, Follows
  <2>2. Own(kinds', n, l) = Own(kinds, Now, l)
    <3>1. \A m \in 1 .. n : m \in 1 .. Now \/ m = n
      BY <1>1
    <3>2. n # 1 /\ n \notin 1 .. Now /\ \A m \in 1 .. Now : m \in 1 .. n
      BY <1>1, <1>5, <2>1
    <3> QED  BY <1>1, <1>5, <3>1, <3>2 DEF Own
  <2>3. Source(n, l)' = Source(Now, l)
    BY <2>2, SourceIsOwn
  <2>4. Now \in 1 .. Now /\ kinds[Now].comp[l] \in {"rotator", "cached"}
    BY <1>1, <2>1 DEF This
  <2>5. Source(Now, l) \in 1 .. Now /\ kinds[Source(Now, l)].comp[l] = "rotator"
    BY <1>2, <2>4 DEF SourceKept
  <2>6. Source(n, l)' \in 1 .. n /\ kinds'[Source(n, l)'].comp[l] = "rotator"
    BY <1>1, <1>5, <2>3, <2>5
  <2> QED  BY <1>1, <1>5, <2>6
<1>6. n \in 1 .. Now \/ n = Now'
  BY <1>1
<1> QED  BY <1>3, <1>4, <1>5, <1>6

LEMMA PrepareWaits ==
  ASSUME IInv, WaitInv, NEW k \in Kinds, Prepare(k)
  PROVE  WaitInv'
<1>1. /\ Now \in Nat /\ Now' = Now + 1 /\ Now' \in Frame
      /\ kinds'[Now'] = k /\ This' = k /\ syncs'[Now'] = {}
      /\ \A n \in 1 .. Now : kinds'[n] = kinds[n] /\ syncs'[n] = syncs[n]
      /\ syncs' = [n \in 1 .. Now' |-> syncs'[n]]
  BY Appended
<1>2. /\ step = "idle" /\ fd' = None
      /\ jobs' = jobs /\ done' = done /\ commits' = commits /\ faulty' = faulty
      /\ step' = IF ~k.handled THEN "close" ELSE IF ~Synced(k) THEN "commit"
                 ELSE IF Blits(k) THEN "draw" ELSE "sync"
  BY DEF Prepare, IInv, Empties
<1>3. Lengths'
  BY <1>1, <1>2 DEF WaitInv, Lengths, Frame
<1>4. Stages'
  BY <1>1, <1>2 DEF Stages
<1>5. \A n \in 1 .. Now' : n \in 1 .. Now \/ n = Now'
  BY <1>1
<1>6. AcquireInv'
  <2>1. k.ptor = "yes" => step' # "sync"
    BY <1>2, KindFacts DEF Blits
  <2>2. \A s \in Slot : s \in Fenced(k) /\ (s \in Layers => k.comp[s] # "cached") =>
          acquireFenceFd'[s] = Written(Now', s) \/ Written(Now', s) \in done
    BY <1>1 DEF Prepare
  <2> QED  BY <1>1, <1>2, <2>1, <2>2 DEF AcquireInv, Brings
<1>7. JobInv'
  <2> SUFFICES ASSUME NEW j \in jobs  PROVE \E n \in 1 .. Now' : Sound1(j, n)'
    BY <1>2 DEF JobInv
  <2>1. PICK n \in 1 .. Now : Sound1(j, n)
    BY DEF WaitInv, JobInv
  <2>2. Sound1(j, n)'
    BY <1>1, <1>2, <2>1 DEF Sound1, Drawn
  <2>3. n \in 1 .. Now'
    BY <1>1
  <2> QED  BY <2>2, <2>3
<1>8. BlitInv'
  <2> SUFFICES ASSUME NEW n \in Frame, Blitted(n) \in done
               PROVE  /\ n \in 1 .. Now'
                      /\ n \notin faulty /\ UsesFb(kinds'[n]) => Written(n, "fbt") \in done
    BY <1>2 DEF BlitInv
  <2>1. /\ n \in 1 .. Now
        /\ n \notin faulty /\ UsesFb(kinds[n]) => Written(n, "fbt") \in done
    BY DEF WaitInv, BlitInv
  <2> QED  BY <1>1, <2>1
<1>9. SyncInv'
  <2> SUFFICES ASSUME NEW n \in 1 .. Now', n < Now' \/ step' \notin {"draw", "sync"},
                      Synced(kinds'[n]), n \notin faulty
               PROVE  Awaited(n, syncs[n] \cup done)'
    BY <1>1, <1>2 DEF SyncInv
  <2>1. n \in 1 .. Now
    <3>1. CASE n = Now'
      <4>1. step' \in {"close", "commit"} /\ Synced(k)
        BY <1>1, <1>2, <3>1
      <4> QED  BY <1>2, <4>1 DEF Synced
    <3> QED  BY <1>5, <3>1
  <2>2. Awaited(n, syncs[n] \cup done)
    BY <1>1, <1>2, <2>1 DEF WaitInv, SyncInv
  <2> QED  BY <1>1, <1>2, <2>1, <2>2 DEF Awaited
<1>10. CommitInv'
  <2>1. CommitInv
    BY DEF WaitInv
  <2>2. \A i, j \in 1 .. Len(commits) : i < j => commits[i] < commits[j]
    BY <2>1 DEF CommitInv
  <2>3. \A i \in 1 .. Len(commits) :
          /\ commits[i] \in 1 .. Now' /\ kinds'[commits[i]].handled /\ commits[i] < Now'
    BY <1>1, <2>1 DEF CommitInv
  <2>4. \A n \in 1 .. Now :
          (\A i \in 1 .. Len(commits) : commits[i] # n) => syncs'[n] \subseteq done
    BY <1>1, <1>2, <2>1 DEF CommitInv
  <2>5. step' # "idle" /\ ~(Now' < Now')
    BY <1>1, <1>2
  <2> QED  BY <1>2, <1>5, <2>2, <2>3, <2>4, <2>5 DEF CommitInv
<1> QED  BY <1>3, <1>4, <1>6, <1>7, <1>8, <1>9, <1>10, PrepareSources DEF WaitInv


----------------------------------------------------------------------------
(* hwc_set.                                                                *)

LEMMA Current ==
  ASSUME IInv, WaitInv, step # "idle"
  PROVE  Now \in 1 .. Now /\ Now \in Frame /\ This \in Kinds /\ This = kinds[Now]
<1>1. kinds \in Seq(Kinds) /\ kinds # <<>>
  BY DEF IInv, Frames
<1>2. Now \in 1 .. Now /\ Now \in Nat
  BY <1>1 DEF Now
<1>3. Now \in 0 .. MaxFrame /\ MaxFrame \in Nat
  BY FencesAssumption DEF WaitInv, Lengths
<1>4. This \in Kinds
  BY ThisKind DEF IInv
<1> QED  BY <1>2, <1>3, <1>4 DEF Frame, This

\* What hwc_set does to the frames before: nothing, or it counts a failure.
LEMMA SetWaits ==
  ASSUME IInv, WaitInv, step # "idle", UNCHANGED <<kinds, done>>, faulty \subseteq faulty',
         syncs' = [n \in 1 .. Now |-> syncs'[n]],
         \A n \in 1 .. Now : n # Now => syncs'[n] = syncs[n],
         commits' \in Seq(Nat), CommitInv',
         \A j \in jobs' : j \in jobs \/ Sound1(j, Now)',
         Stages', AcquireInv',
         step' \notin {"draw", "sync"} /\ Synced(This) /\ Now \notin faulty' =>
           Awaited(Now, syncs'[Now] \cup done)
  PROVE  WaitInv'
<1>1. kinds' = kinds /\ done' = done /\ Now' = Now /\ This' = This
  BY DEF Now, This
<1>2. Now \in 1 .. Now /\ Now \in Nat /\ This = kinds[Now]
  BY Current DEF Frame
<1>3. SourceKept'
  <2>1. \A n, l : Source(n, l)' = Source(n, l)
    BY <1>1 DEF Source
  <2> QED  BY <1>1, <2>1 DEF WaitInv, SourceKept
<1>4. Lengths'
  BY <1>1 DEF WaitInv, Lengths
<1>5. JobInv'
  <2> SUFFICES ASSUME NEW j \in jobs'
               PROVE  \E n \in 1 .. Now : Sound1(j, n)'
    BY <1>1 DEF JobInv
  <2>1. CASE Sound1(j, Now)'
    BY <1>1, <1>2, <2>1
  <2>2. CASE j \in jobs
    <3>1. PICK n \in 1 .. Now : Sound1(j, n)
      BY <2>2 DEF WaitInv, JobInv
    <3>2. Sound1(j, n)'
      BY <1>1, <3>1 DEF Sound1, Drawn
    <3> QED  BY <3>2
  <2> QED  BY <2>1, <2>2
<1>6. BlitInv'
  <2> SUFFICES ASSUME NEW n \in Frame, Blitted(n) \in done
               PROVE  /\ n \in 1 .. Now
                      /\ n \notin faulty' /\ UsesFb(kinds[n]) => Written(n, "fbt") \in done
    BY <1>1 DEF BlitInv
  <2>1. /\ n \in 1 .. Now
        /\ n \notin faulty /\ UsesFb(kinds[n]) => Written(n, "fbt") \in done
    BY DEF WaitInv, BlitInv
  <2> QED  BY <2>1
<1>7. SyncInv'
  <2> SUFFICES ASSUME NEW n \in 1 .. Now, n < Now \/ step' \notin {"draw", "sync"},
                      Synced(kinds[n]), n \notin faulty'
               PROVE  Awaited(n, syncs'[n] \cup done)
    <3>1. \A n \in 1 .. Now : Awaited(n, syncs[n] \cup done)' <=> Awaited(n, syncs'[n] \cup done)
      BY <1>1 DEF Awaited
    <3> QED  BY <1>1, <3>1 DEF SyncInv
  <2>1. CASE n = Now
    BY <1>2, <2>1
  <2>2. CASE n # Now
    <3>1. n < Now /\ n \notin faulty
      BY <1>2, <2>2
    <3>2. Awaited(n, syncs[n] \cup done)
      BY <3>1 DEF WaitInv, SyncInv
    <3> QED  BY <2>2, <3>2
  <2> QED  BY <2>1, <2>2
<1> QED  BY <1>3, <1>4, <1>5, <1>6, <1>7 DEF WaitInv

LEMMA SyncsKept ==
  ASSUME WaitInv
  PROVE  syncs = [n \in 1 .. Now |-> syncs[n]]
BY DEF WaitInv, Lengths

\* The layers of a frame that the blitter draws bring their fences.
LEMMA DrawWaits ==
  ASSUME IInv, WaitInv, Draw
  PROVE  WaitInv'
<1>1. /\ step = "draw" /\ step' = "sync" /\ fd' = Blitted(Now)
      /\ kinds' = kinds /\ syncs' = syncs /\ done' = done /\ commits' = commits
      /\ Now' = Now /\ This' = This
  BY DEF Draw, DrawOverlap, DrawCopybit, Now, This
<1>2. Now \in 1 .. Now /\ Now \in Frame /\ This \in Kinds /\ This = kinds[Now]
  BY <1>1, Current
<1>3. Blits(This) /\ Synced(This) /\ syncs[Now] = {}
  BY <1>1 DEF WaitInv, Stages
<1>4. \A s \in Slot : Brings(s) => acquireFenceFd[s] = Written(Now, s) \/ Written(Now, s) \in done
  BY <1>1 DEF WaitInv, AcquireInv
<1>5. \A l \in Layers : l \in Slot /\ Brings(l)
  <2>1. ~This.empty /\ \A l \in Layers : This.comp[l] \in {"overlay", "blit"}
    <3>1. \A l \in Layers : This.comp[l] = "overlay" \/ This.comp[l] = "blit"
      BY <1>2, <1>3, KindFacts
    <3> QED  BY <1>2, <1>3, <3>1, KindFacts
  <2> QED  BY <2>1 DEF Brings, Fenced, Slot
<1>6. \A s \in Slot : Written(Now, s) # None
  BY <1>2, EventsReal
<1>7. /\ faulty \subseteq faulty'
      /\ \E W : /\ jobs' = jobs \cup {[does |-> Blitted(Now), waits |-> W]}
                /\ Now \notin faulty' => Drawn(Now, W \cup done)
                /\ This.ptor = "yes" /\ Now \notin faulty' =>
                     \A l \in Layers : Written(Now, l) \in done
  <2>1. CASE DrawOverlap
    <3>1. /\ This.ptor = "yes" /\ ~UsesFb(This)
          /\ jobs' = jobs \cup {[does |-> Blitted(Now), waits |-> {}]}
      BY <1>2, <2>1, KindFacts DEF DrawOverlap
    <3>2. \/ UNCHANGED faulty /\ \A l \in Layers : Signalled(acquireFenceFd[l])
          \/ faulty' = faulty \cup {Now}
      BY <2>1 DEF DrawOverlap, Waits, Faulty
    <3>3. Now \notin faulty' => \A l \in Layers : Written(Now, l) \in done
      BY <1>4, <1>5, <1>6, <3>2 DEF Signalled
    <3>4. Now \notin faulty' => Drawn(Now, {} \cup done)
      BY <1>2, <3>1, <3>3 DEF Drawn
    <3>5. faulty \subseteq faulty'
      BY <3>2
    <3> QED  BY <3>1, <3>3, <3>4, <3>5
  <2>2. CASE DrawCopybit
    <3> DEFINE W == {acquireFenceFd[s] : s \in Slot} \ {None}
    <3>1. /\ jobs' = jobs \cup {[does |-> Blitted(Now), waits |-> W]}
          /\ faulty' = faulty
          /\ \A l \in Layers : This.comp[l] = "blit"
      BY <2>2 DEF DrawCopybit
    <3>2. This.ptor # "yes"
      BY <1>2, <1>3, <3>1, KindFacts
    <3>3. \A s \in Slot : Brings(s) => Written(Now, s) \in W \cup done
      BY <1>4, <1>6
    <3>4. UsesFb(This) => "fbt" \in Slot /\ Brings("fbt")
      <4>1. "fbt" \notin Layers
        BY FencesAssumption
      <4> QED  BY <4>1 DEF Brings, Fenced, Slot
    <3> HIDE DEF W
    <3>5. Drawn(Now, W \cup done)
      BY <1>2, <1>5, <3>3, <3>4 DEF Drawn
    <3> QED  BY <3>1, <3>2, <3>5
  <2> QED  BY <1>1, <2>1, <2>2 DEF Draw
<1>8. PICK W : /\ jobs' = jobs \cup {[does |-> Blitted(Now), waits |-> W]}
               /\ Now \notin faulty' => Drawn(Now, W \cup done)
               /\ This.ptor = "yes" /\ Now \notin faulty' =>
                    \A l \in Layers : Written(Now, l) \in done
  BY <1>7
<1>9. \A j \in jobs' : j \in jobs \/ Sound1(j, Now)'
  <2> SUFFICES ASSUME NEW j, j = [does |-> Blitted(Now), waits |-> W]
               PROVE  Sound1(j, Now)'
    BY <1>8
  <2>1. j.does = Blitted(Now) /\ j.waits = W
    OBVIOUS
  <2>2. Drawn(Now, W \cup done)' <=> Drawn(Now, W \cup done)
    BY <1>1 DEF Drawn
  <2> QED  BY <1>1, <1>8, <2>1, <2>2 DEF Sound1
<1>10. Stages'
  BY <1>1, <1>3 DEF Stages
<1>11. AcquireInv'
  BY <1>1, <1>3, <1>8 DEF AcquireInv
<1>12. commits' \in Seq(Nat) /\ CommitInv'
  <2>1. CommitInv /\ commits \in Seq(Nat)
    BY DEF WaitInv, Lengths
  <2>2. step # "idle" /\ step' # "idle"
    BY <1>1
  <2> QED  BY <1>1, <2>1, <2>2 DEF CommitInv
<1>13. syncs' = [n \in 1 .. Now |-> syncs'[n]]
  BY <1>1, SyncsKept
<1> QED  BY <1>1, <1>7, <1>9, <1>10, <1>11, <1>12, <1>13, SetWaits


\* hwc_sync passes on what its readers wait for.
LEMMA SyncWaitsFor ==
  ASSUME IInv, WaitInv, Sync(FALSE, FALSE), Now \notin faulty
  PROVE  Awaited(Now, syncs'[Now] \cup done)
<1> DEFINE acq == [s \in Slot |-> IF s \in Sessions THEN RotFence(s, FALSE)
                                  ELSE acquireFenceFd[s]]
           fences == syncs'[Now] \cup done
<1>1. step = "sync"
  BY DEF Sync
<1>2. Now \in 1 .. Now /\ Now \in Frame /\ This \in Kinds /\ This = kinds[Now]
  BY <1>1, Current
<1>3. \A s \in Slot : Written(Now, s) # None /\ Rotated(Now, s) # None /\ Blitted(Now) # None
  BY <1>2, EventsReal
<1>4. Synced(This) /\ fd = IF Blits(This) THEN Blitted(Now) ELSE None
  BY <1>1 DEF WaitInv, Stages
<1>5. \A f : f \in AcquireFds(acq) /\ f # None => f \in fences
  <2>1. syncs' = [syncs EXCEPT ![Now] = AcquireFds(acq) \ {None}]
    BY DEF Sync, Replaced
  <2>2. Now \in DOMAIN syncs
    BY <1>2, SyncsKept
  <2> QED  BY <2>1, <2>2
<1>6. \A l \in Layers : l \in Slot /\ l # "fbt" /\ l # "outbuf"
  BY FencesAssumption DEF Slot
<1>7. "fbt" \in Slot /\ "outbuf" \in Slot /\ "fbt" \notin Layers /\ "outbuf" \notin Layers
  BY FencesAssumption DEF Slot
<1>8. /\ \A l \in Layers : This.comp[l] \in {"overlay", "rotator"} => acq[l] \in AcquireFds(acq)
      /\ fd # None => fd \in AcquireFds(acq)
      /\ fd = None => acq["fbt"] \in AcquireFds(acq)
      /\ acq["outbuf"] \in AcquireFds(acq)
  <2> HIDE DEF acq
  <2> QED  BY DEF AcquireFds
<1>9. \A s \in Slot : acq[s] = IF s \in Sessions THEN RotFence(s, FALSE) ELSE acquireFenceFd[s]
  OBVIOUS
<1> HIDE DEF acq, fences
<1>10. ~Blits(This) => \A s \in Slot :
         Brings(s) => acquireFenceFd[s] = Written(Now, s) \/ Written(Now, s) \in done
  BY <1>1 DEF WaitInv, AcquireInv
<1>11. \A s \in Slot : ~Blits(This) /\ Brings(s) /\ s \notin Sessions /\ acq[s] \in AcquireFds(acq)
         => Written(Now, s) \in fences
  BY <1>3, <1>5, <1>9, <1>10 DEF fences
<1>12. ASSUME NEW l \in Layers, This.comp[l] = "overlay"
       PROVE  Written(Now, l) \in fences
  <2>1. CASE This.ptor = "yes"
    <3>1. Written(Now, l) \in done
      BY <1>1, <2>1 DEF WaitInv, AcquireInv
    <3> QED  BY <3>1 DEF fences
  <2>2. CASE This.ptor # "yes"
    <3>1. ~Blits(This)
      BY <1>12, <2>2 DEF Blits
    <3>2. Brings(l)
      BY <1>2, <1>12, KindFacts DEF Brings, Fenced
    <3>3. l \notin Sessions
      BY <1>6, <1>12 DEF Sessions, Target
    <3> QED  BY <1>6, <1>8, <1>11, <1>12, <3>1, <3>2, <3>3
  <2> QED  BY <2>1, <2>2
<1>13. ASSUME NEW s \in Slot, ByRotator(This, s)
       PROVE  Rotated(Now, s) \in fences
  <2>1. s \in Layers => ~This.empty
    BY <1>2, <1>7, <1>13, KindFacts DEF ByRotator
  <2>2. s \in Sessions /\ s \in Rotates
    BY <1>13, <2>1, <1>7 DEF ByRotator, Sessions, Rotates, Target
  <2>3. acq[s] = Rotated(Now, s)
    BY <1>9, <2>2 DEF RotFence
  <2>4. s = "fbt" => fd = None
    BY <1>2, <1>4, <1>7, <1>13, KindFacts DEF ByRotator
  <2>5. acq[s] \in AcquireFds(acq)
    BY <1>8, <1>13, <2>4 DEF ByRotator
  <2> QED  BY <1>3, <1>5, <2>3, <2>5
<1>14. ASSUME UsesFb(This), ~Blits(This), ~This.turned
       PROVE  Written(Now, "fbt") \in fences
  <2>1. Brings("fbt") /\ "fbt" \notin Sessions
    BY <1>7, <1>14 DEF Brings, Fenced, Sessions, Target
  <2>2. acq["fbt"] \in AcquireFds(acq)
    BY <1>4, <1>8, <1>14
  <2> QED  BY <1>7, <1>11, <1>14, <2>1, <2>2
<1>15. ASSUME Blits(This)
       PROVE  Blitted(Now) \in fences
  BY <1>3, <1>4, <1>5, <1>7, <1>8, <1>15
<1>16. ASSUME UsesOutbuf(This)
       PROVE  Written(Now, "outbuf") \in fences
  <2>1. Brings("outbuf") /\ "outbuf" \notin Sessions
    BY <1>7, <1>16 DEF Brings, Fenced, Sessions, Target
  <2>2. ~Blits(This)
    <3>1. This.dpy = "virtual"
      BY <1>16 DEF UsesOutbuf
    <3> QED  BY <1>2, <3>1, KindFacts
  <2> QED  BY <1>7, <1>8, <1>11, <2>1, <2>2
<1>17. Awaited(Now, fences)
  BY <1>2, <1>12, <1>13, <1>14, <1>15, <1>16 DEF Awaited
<1> QED  BY <1>17 DEF fences

LEMMA SyncWaits ==
  ASSUME IInv, WaitInv, NEW failed \in BOOLEAN, NEW rotFailed \in BOOLEAN, Sync(failed, rotFailed)
  PROVE  WaitInv'
<1>1. /\ step = "sync" /\ step' = "commit"
      /\ kinds' = kinds /\ done' = done /\ commits' = commits
      /\ Now' = Now /\ This' = This
  BY DEF Sync, Now, This
<1>2. Now \in 1 .. Now /\ Now \in Frame /\ This \in Kinds /\ This = kinds[Now]
  BY <1>1, Current
<1>3. /\ faulty \subseteq faulty' /\ (failed \/ rotFailed => Now \in faulty')
  BY DEF Sync
<1>4. \E X : syncs' = [syncs EXCEPT ![Now] = X]
  BY DEF Sync
<1>5. /\ syncs' = [n \in 1 .. Now |-> syncs'[n]]
      /\ \A n \in 1 .. Now : n # Now => syncs'[n] = syncs[n]
  BY <1>4, SyncsKept
<1>6. Stages'
  <2>1. Synced(This)
    BY <1>1 DEF WaitInv, Stages
  <2> QED  BY <1>1, <2>1 DEF Stages, Synced
<1>7. AcquireInv'
  BY <1>1 DEF AcquireInv
<1>8. commits' \in Seq(Nat) /\ CommitInv'
  <2>1. CommitInv /\ commits \in Seq(Nat)
    BY DEF WaitInv, Lengths
  <2>2. step # "idle" /\ step' # "idle"
    BY <1>1
  <2>3. \A n \in 1 .. Now : n < Now => syncs'[n] = syncs[n]
    BY <1>2, <1>5
  <2> QED  BY <1>1, <2>1, <2>2, <2>3 DEF CommitInv
<1>9. \A j \in jobs' : j \in jobs \/ Sound1(j, Now)'
  <2> SUFFICES ASSUME NEW j \in jobs', j \notin jobs  PROVE Sound1(j, Now)'
    OBVIOUS
  <2>1. PICK l \in Rotates :
          j = [does |-> Rotated(Now, l),
               waits |-> IF rotFailed THEN {} ELSE {acquireFenceFd[l]} \ {None}]
    BY DEF Sync
  <2>2. /\ j.does = Rotated(Now, l)
        /\ ~rotFailed => j.waits = {acquireFenceFd[l]} \ {None}
    BY <2>1
  <2>3. /\ l \in Slot
        /\ \/ l \in Layers /\ This.comp[l] = "rotator" /\ ~This.empty
           \/ l = "fbt" /\ This.turned /\ l \notin Layers
    BY FencesAssumption DEF Rotates, Sessions, Target, Slot
  <2>4. ~Blits(This) /\ Brings(l)
    BY <1>2, <2>3, KindFacts DEF Brings, Fenced
  <2>5. acquireFenceFd[l] = Written(Now, l) \/ Written(Now, l) \in done
    BY <1>1, <2>3, <2>4 DEF WaitInv, AcquireInv
  <2>6. Written(Now, l) # None
    BY <1>2, <2>3, EventsReal
  <2>7. Now \notin faulty' => Written(Now, l) \in j.waits \cup done
    BY <1>3, <2>2, <2>5, <2>6
  <2> QED  BY <1>1, <2>2, <2>3, <2>7 DEF Sound1
<1>10. Now \notin faulty' => Awaited(Now, syncs'[Now] \cup done)
  <2> SUFFICES ASSUME Now \notin faulty'  PROVE Awaited(Now, syncs'[Now] \cup done)
    OBVIOUS
  <2>1. failed = FALSE /\ rotFailed = FALSE /\ Now \notin faulty
    BY <1>3
  <2>2. Sync(FALSE, FALSE)
    BY <2>1
  <2> QED  BY <2>1, <2>2, SyncWaitsFor
<1> QED  BY <1>1, <1>3, <1>5, <1>6, <1>7, <1>8, <1>9, <1>10, SetWaits

\* Nothing was queued for a frame whose output cannot be made secure.
LEMMA SecureWaits ==
  ASSUME IInv, WaitInv, SecureFails
  PROVE  WaitInv'
<1>1. /\ step = "sync" /\ step' = "idle" /\ faulty' = faulty \cup {Now}
      /\ kinds' = kinds /\ done' = done /\ syncs' = syncs /\ jobs' = jobs /\ commits' = commits
      /\ Now' = Now
  BY DEF SecureFails, Faulty, Now
<1>2. Now \in 1 .. Now /\ Now \in Nat
  BY <1>1, Current DEF Frame
<1>3. CommitInv /\ commits \in Seq(Nat) /\ syncs[Now] = {}
  BY <1>1 DEF WaitInv, Lengths, Stages
<1>4. Stages' /\ AcquireInv'
  BY <1>1 DEF Stages, AcquireInv
<1>5. CommitInv'
  <2>1. \A n \in 1 .. Now : (\A i \in 1 .. Len(commits) : commits[i] # n) =>
          syncs[n] \subseteq done
    BY <1>1, <1>2, <1>3 DEF CommitInv
  <2> QED  BY <1>1, <1>3, <2>1 DEF CommitInv
<1>6. syncs' = [n \in 1 .. Now |-> syncs'[n]]
  BY <1>1, SyncsKept
<1>7. /\ step # "idle" /\ UNCHANGED <<kinds, done>> /\ faulty \subseteq faulty'
      /\ Now \in faulty' /\ commits' \in Seq(Nat) /\ \A j \in jobs' : j \in jobs
      /\ \A n \in 1 .. Now : n # Now => syncs'[n] = syncs[n]
  BY <1>1, <1>3
<1> QED  BY <1>4, <1>5, <1>6, <1>7, SetWaits

LEMMA CloseWaits ==
  ASSUME IInv, WaitInv, Commit \/ Skip
  PROVE  WaitInv'
<1>1. /\ step \in {"commit", "close"} /\ step' = "idle"
      /\ kinds' = kinds /\ done' = done /\ syncs' = syncs /\ jobs' = jobs /\ faulty' = faulty
      /\ Now' = Now /\ This' = This
  BY DEF Commit, Skip, Close, Now, This
<1>2. Now \in 1 .. Now /\ Now \in Frame /\ This = kinds[Now]
  BY <1>1, Current
<1>3. CommitInv /\ commits \in Seq(Nat) /\ Now \in Nat
  BY <1>2 DEF WaitInv, Lengths, Frame
<1>4. Stages' /\ AcquireInv'
  BY <1>1 DEF Stages, AcquireInv
<1>5. commits' \in Seq(Nat) /\ CommitInv'
  <2>1. CASE Skip
    <3>1. commits' = commits /\ syncs[Now] = {}
      BY <2>1 DEF Skip, WaitInv, Stages
    <3>2. \A n \in 1 .. Now : (\A i \in 1 .. Len(commits) : commits[i] # n) =>
            syncs[n] \subseteq done
      BY <1>1, <1>3, <3>1 DEF CommitInv
    <3> QED  BY <1>1, <1>3, <3>1, <3>2 DEF CommitInv
  <2>2. CASE Commit
    <3>1. commits' = Append(commits, Now) /\ This.handled /\ step = "commit"
      BY <2>2 DEF Commit, WaitInv, Stages
    <3>2. /\ commits' \in Seq(Nat) /\ Len(commits') = Len(commits) + 1
          /\ Len(commits) \in Nat /\ commits'[Len(commits) + 1] = Now
          /\ \A i \in 1 .. Len(commits) : commits'[i] = commits[i]
      BY <1>3, <3>1
    <3>3. \A i \in 1 .. Len(commits') : i \in 1 .. Len(commits) \/ i = Len(commits) + 1
      BY <3>2
    <3>4. \A i \in 1 .. Len(commits) :
            commits[i] \in 1 .. Now /\ kinds[commits[i]].handled /\ commits[i] < Now
      BY <1>3, <3>1 DEF CommitInv
    <3>5. \A i, j \in 1 .. Len(commits') : i < j => commits'[i] < commits'[j]
      <4> SUFFICES ASSUME NEW i \in 1 .. Len(commits'), NEW j \in 1 .. Len(commits'), i < j
                   PROVE  commits'[i] < commits'[j]
        OBVIOUS
      <4>1. i \in 1 .. Len(commits)
        BY <3>2
      <4>2. CASE j \in 1 .. Len(commits)
        BY <1>3, <3>2, <4>1, <4>2 DEF CommitInv
      <4>3. CASE j = Len(commits) + 1
        BY <3>2, <3>4, <4>1, <4>3
      <4> QED  BY <3>3, <4>2, <4>3
    <3>6. \A i \in 1 .. Len(commits') : commits'[i] \in 1 .. Now /\ kinds[commits'[i]].handled
      BY <1>2, <3>1, <3>2, <3>3, <3>4
    <3>7. \A n \in 1 .. Now : (\A i \in 1 .. Len(commits') : commits'[i] # n) =>
            syncs[n] \subseteq done
      <4> SUFFICES ASSUME NEW n \in 1 .. Now, \A i \in 1 .. Len(commits') : commits'[i] # n
                   PROVE  syncs[n] \subseteq done
        OBVIOUS
      <4>1. n # Now
        BY <3>2
      <4>2. \A i \in 1 .. Len(commits) : commits[i] # n
        BY <3>2
      <4>3. n < Now
        BY <1>3, <4>1
      <4> QED  BY <1>3, <4>2, <4>3 DEF CommitInv
    <3> QED  BY <1>1, <3>2, <3>5, <3>6, <3>7 DEF CommitInv
  <2> QED  BY <2>1, <2>2
<1>6. syncs' = [n \in 1 .. Now |-> syncs'[n]] /\ \A j \in jobs' : j \in jobs
  BY <1>1, SyncsKept
<1>7. Synced(This) /\ Now \notin faulty => Awaited(Now, syncs[Now] \cup done)
  BY <1>1, <1>2 DEF WaitInv, SyncInv
<1>8. step # "idle" /\ UNCHANGED <<kinds, done>> /\ faulty \subseteq faulty'
      /\ \A n \in 1 .. Now : n # Now => syncs'[n] = syncs[n]
  BY <1>1
<1> QED  BY <1>1, <1>4, <1>5, <1>6, <1>7, <1>8, SetWaits


----------------------------------------------------------------------------
(* The invariant says that readers wait for writers.                       *)

LEMMA JobsWait ==
  ASSUME WaitInv, NEW j \in jobs, j.waits \subseteq done, Sound(j.does[2])
  PROVE  JobNeeds(j) \subseteq done
<1>1. PICK n \in 1 .. Now : Sound1(j, n)
  BY DEF WaitInv, JobInv
<1>2. CASE j.does = Blitted(n)
  <2>1. j.does[1] = "blitted" /\ j.does[2] = n
    BY <1>2 DEF Blitted
  <2>2. n \notin faulty
    BY <2>1 DEF Sound
  <2>3. Drawn(n, done)
    BY <1>1, <1>2, <2>2, EventsDiffer DEF Sound1, Drawn
  <2>4. JobNeeds(j) = {Written(r[2], r[1]) : r \in {<<l, n>> : l \in Layers}}
                        \cup (IF UsesFb(kinds[n]) THEN {Written(n, "fbt")} ELSE {})
    BY <2>1 DEF JobNeeds, JobReads
  <2>5. \A l : <<l, n>>[1] = l /\ <<l, n>>[2] = n
    OBVIOUS
  <2> QED  BY <2>3, <2>4, <2>5 DEF Drawn
<1>3. CASE \E l \in Slot : j.does = Rotated(n, l)
  <2>1. PICK l \in Slot : j.does = Rotated(n, l)
    BY <1>3
  <2>2. j.does[1] = "rotated" /\ j.does[2] = n /\ j.does[3] = l
    BY <2>1 DEF Rotated
  <2>3. n \notin faulty
    BY <2>2 DEF Sound
  <2>4. Written(n, l) \in done
    BY <1>1, <2>1, <2>3, EventsDiffer DEF Sound1
  <2>5. JobNeeds(j) = {Written(r[2], r[1]) : r \in {<<l, n>>}}
    BY <2>2 DEF JobNeeds, JobReads
  <2> QED  BY <2>4, <2>5
<1> QED  BY <1>1, <1>2, <1>3 DEF Sound1

LEMMA DisplayWaits ==
  ASSUME IInv, WaitInv, commits # <<>>,
         NEW n, n = Head(commits), syncs[n] \subseteq done, Sound(n)
  PROVE  DisplayNeeds(n) \subseteq done
<1> DEFINE k == kinds[n]
<1>1. /\ commits \in Seq(Nat) /\ n = commits[1] /\ 1 \in 1 .. Len(commits)
      /\ CommitInv /\ Now \in Nat
  BY DEF WaitInv, Lengths
<1>2. n \in 1 .. Now /\ k.handled /\ (n < Now \/ step = "idle")
  BY <1>1 DEF CommitInv
<1>3. \A m \in 1 .. Now : kinds[m] \in Kinds
  BY DEF IInv, Frames, Now
<1>4. k \in Kinds
  BY <1>2, <1>3
<1>5. n \notin faulty /\ \A l \in Layers : Source(n, l) \notin faulty
  BY DEF Sound
\* A frame of the display's queue, or one it has shown, has all it waits for.
<1>6. ASSUME NEW m \in 1 .. n, m \notin faulty, Synced(kinds[m])
      PROVE  Awaited(m, done)
  <2>1. m \in 1 .. Now /\ (m < Now \/ step = "idle")
    BY <1>1, <1>2
  <2>2. syncs[m] \subseteq done
    <3>1. CASE m = n
      BY <3>1
    <3>2. CASE m # n
      <4>1. ASSUME NEW i \in 1 .. Len(commits)  PROVE commits[i] # m
        <5>1. i = 1 \/ 1 < i
          OBVIOUS
        <5>2. commits[1] <= commits[i]
          BY <1>1, <5>1 DEF CommitInv
        <5> QED  BY <1>1, <1>2, <3>2, <5>2
      <4> QED  BY <1>1, <2>1, <4>1 DEF CommitInv
    <3> QED  BY <3>1, <3>2
  <2>3. Awaited(m, syncs[m] \cup done)
    BY <1>6, <2>1 DEF WaitInv, SyncInv
  <2>4. syncs[m] \cup done = done
    BY <2>2
  <2> QED  BY <2>3, <2>4
<1>7. Synced(k) => Awaited(n, done)
  BY <1>2, <1>5, <1>6
<1>8. ~k.empty => Synced(k)
  BY <1>2 DEF Synced
<1>9. \A l \in Layers : k.comp[l] # "gpu" => ~k.empty
  BY <1>4, KindFacts
<1>10. Blits(k) => ~k.empty
  BY <1>4, KindFacts
<1>11. ASSUME NEW l \in Layers, k.comp[l] = "overlay"
       PROVE  Written(n, l) \in done
  BY <1>7, <1>8, <1>9, <1>11 DEF Awaited
<1>12. Blits(k) => Blitted(n) \in done
  BY <1>7, <1>8, <1>10 DEF Awaited
<1>13. UsesFb(k) /\ ~k.turned => Written(n, "fbt") \in done
  <2>1. UsesFb(k) => ~k.empty
    BY DEF UsesFb
  <2>2. CASE Blits(k)
    <3>1. n \in Frame
      BY <1>2, FencesAssumption DEF Frame, WaitInv, Lengths
    <3> QED  BY <1>5, <1>12, <2>2, <3>1 DEF WaitInv, BlitInv
  <2> QED  BY <1>7, <1>8, <2>1, <2>2 DEF Awaited
<1>14. ASSUME NEW l \in Layers, k.comp[l] \in {"rotator", "cached"}
       PROVE  Rotated(Source(n, l), l) \in done
  <2> DEFINE m == Source(n, l)
  <2>1. m \in 1 .. n /\ kinds[m].comp[l] = "rotator" /\ m \notin faulty
    BY <1>2, <1>5, <1>14 DEF WaitInv, SourceKept
  <2>2. kinds[m] \in Kinds
    BY <1>1, <1>2, <1>3, <2>1
  <2>3. Synced(kinds[m])
    BY <2>1, <2>2, KindFacts DEF Synced
  <2>4. Awaited(m, done)
    BY <1>6, <2>1, <2>3
  <2> QED  BY <2>1, <2>4 DEF Awaited, ByRotator, Slot
<1>15. UsesOutbuf(k) => Written(n, "outbuf") \in done
  <2>1. UsesOutbuf(k) => Synced(k)
    BY <1>2 DEF UsesOutbuf, Synced
  <2> QED  BY <1>7, <2>1 DEF Awaited
<1>16. (\E l \in Layers : k.comp[l] = "blit") \/ k.ptor = "yes" => Blits(k)
  BY <1>4, FencesAssumption DEF Blits
<1>17. /\ \A r \in DisplayReads(n) :
            \/ \E l \in Layers : r = <<l, n>> /\ k.comp[l] = "overlay"
            \/ UsesFb(k) /\ ~k.turned /\ r = <<"fbt", n>>
  BY DEF DisplayReads
<1>18. \A r \in DisplayReads(n) : Written(r[2], r[1]) \in done
  BY <1>11, <1>13, <1>17
<1>19. \A s \in Target(k) : Rotated(Source(n, s), s) \in done
  <2> SUFFICES ASSUME k.turned  PROVE Rotated(Source(n, "fbt"), "fbt") \in done
    BY DEF Target
  <2>1. Source(n, "fbt") = n
    BY OtherSource, FencesAssumption
  <2>2. Awaited(n, done)
    BY <1>4, <1>7, KindFacts
  <2> QED  BY <2>1, <2>2 DEF Awaited, ByRotator, Slot
<1>20. \A s \in {l \in Layers : ~k.empty /\ k.comp[l] \in {"rotator", "cached"}} \cup Target(k) :
         Rotated(Source(n, s), s) \in done
  BY <1>14, <1>19
<1> QED  BY <1>12, <1>15, <1>16, <1>18, <1>20 DEF DisplayNeeds

\* The two invariants hold of every behaviour.
THEOREM Waiting == Spec => [](IInv /\ WaitInv)
<1>1. Init => IInv /\ WaitInv
  BY InitHolds, WaitInit
<1>2. ASSUME IInv, WaitInv, IInv', [Next]_vars  PROVE WaitInv'
  <2>1. CASE NewFrame
    BY <1>2, <2>1, PrepareWaits DEF NewFrame
  <2>2. CASE HwcSet
    <3>1. ASSUME Draw  PROVE WaitInv'
      BY <1>2, <3>1, DrawWaits
    <3>2. ASSUME NEW f \in BOOLEAN, NEW r \in BOOLEAN, Sync(f, r)  PROVE WaitInv'
      BY <1>2, <3>2, SyncWaits
    <3>3. ASSUME SecureFails  PROVE WaitInv'
      BY <1>2, <3>3, SecureWaits
    <3>4. ASSUME Commit \/ Skip  PROVE WaitInv'
      BY <1>2, <3>4, CloseWaits
    <3> QED  BY <2>2, <3>1, <3>2, <3>3, <3>4 DEF HwcSet
  <2>3. CASE Produces \/ Works \/ Show \/ UNCHANGED vars
    BY <1>2, <2>3, WorldWaits
  <2> QED  BY <1>2, <2>1, <2>2, <2>3 DEF Next
<1> QED  BY <1>1, <1>2, Invariance, PTL DEF Spec

\* hwc_sync: when the fences that the rotator, the blitter or the display was
\* given have signalled, whatever it reads or writes over has been written.
THEOREM Writers == Spec => []WaitsForWriters
<1>1. IInv /\ WaitInv => WaitsForWriters
  BY JobsWait, DisplayWaits DEF WaitsForWriters
<1> QED  BY <1>1, Waiting, PTL


----------------------------------------------------------------------------
(* Readers are waited for.                                                 *)

\* hwc_set returns, with every buffer, the fence of its last reader.
Handed(n, F) ==
  LET k == kinds[n]
  IN  /\ ~k.turned => F["fbt"] = Released(n)
      /\ \A s \in Slot : ByRotator(k, s) => F[s] = Rotated(n, s)
      /\ \A l \in Layers :
           /\ k.comp[l] = "overlay" => F[l] = Released(n)
           /\ k.comp[l] = "blit" => F[l] = Blitted(n)
Ordinary(n) == n \notin faulty /\ Synced(kinds[n]) /\ ~kinds[n].animating
GivenInv ==
  /\ given = [n \in 1 .. Now |-> given[n]]
  /\ \A n \in 1 .. Now : Returned(n) /\ Ordinary(n) => Handed(n, given[n])
  /\ step = "commit" /\ Ordinary(Now) => Handed(Now, releaseFenceFd)
  /\ step = "close" => ~This.handled

\* A job is queued once, by its own frame, and what it does is done when it has left.
Begun(e) == e \in done \/ \E j \in jobs : j.does = e
EventInv ==
  /\ \A j \in jobs : j.does \notin done
  /\ \A i, j \in jobs : i.does = j.does => i = j
  /\ \A n \in Frame, s \in Slot : Begun(Rotated(n, s)) =>
       /\ n \in 1 .. Now /\ ByRotator(kinds[n], s)
       /\ n < Now \/ step \notin {"draw", "sync"}
  /\ \A n \in Frame : Begun(Blitted(n)) =>
       n \in 1 .. Now /\ (n < Now \/ step # "draw") /\ Blits(kinds[n])

\* The display lets a frame go once it shows a newer one.
PanelInv ==
  /\ screen \in 0 .. Now
  /\ screen # 0 => Returned(screen) /\ \A i \in 1 .. Len(commits) : screen < commits[i]
  /\ \A n \in Frame : Released(n) \in done =>
       n \in 1 .. Now /\ Returned(n) /\ n # screen /\ \A i \in 1 .. Len(commits) : commits[i] # n

\* How often the ring was advanced in the first n frames; each frame that
\* advances it is committed, so the frames displayed have the latest buffers.
Turns(K, n) == Cardinality({i \in 1 .. n : K[i].ptor # "no"})
Late == IF step \in {"idle", "close"} \/ This.ptor = "no" THEN 0 ELSE 1
Back(turns) ==
  IF turns <= mCurRenderBufferIndex THEN mCurRenderBufferIndex - turns
  ELSE mCurRenderBufferIndex - turns + NUM_RENDER_BUFFERS
RingInv ==
  /\ renders = [n \in 1 .. Now |-> renders[n]]
  /\ \A n \in 1 .. Now : renders[n] # <<>> =>
       /\ kinds[n].ptor = "yes"
       /\ Turns(kinds, Now) - Turns(kinds, n) < NUM_RENDER_BUFFERS =>
            renders[n][2] = Back(Turns(kinds, Now) - Turns(kinds, n))
  /\ Len(commits) <= Depth
  /\ \A i \in 1 .. Len(commits) :
       Turns(kinds, Now) <= Turns(kinds, commits[i]) + (Len(commits) - i) + Late
  /\ screen # 0 => Turns(kinds, Now) <= Turns(kinds, screen) + Len(commits) + Late

FreeInv == GivenInv /\ EventInv /\ PanelInv /\ RingInv

LEMMA EventKinds ==
  \A n, m, s, t :
    /\ Rotated(n, s) \notin {Written(m, t), Released(m), Retired(m), Blitted(m)}
    /\ Released(n) \notin {Written(m, t), Rotated(m, t), Blitted(m), Retired(m)}
    /\ Released(n) = Released(m) => n = m
BY DEF Written, Rotated, Blitted, Released, Retired

LEMMA AppendAny ==
  ASSUME NEW s, NEW n \in Nat, s = [i \in 1 .. n |-> s[i]], NEW e
  PROVE  /\ Append(s, e) = [i \in 1 .. n + 1 |-> Append(s, e)[i]]
         /\ Append(s, e)[n + 1] = e
         /\ \A i \in 1 .. n : Append(s, e)[i] = s[i]
<1> DEFINE T == {s[i] : i \in 1 .. n} \cup {e}
<1>1. \A i \in 1 .. n : s[i] \in T
  OBVIOUS
<1>2. e \in T
  OBVIOUS
<1> HIDE DEF T
<1>3. s \in [1 .. n -> T]
  BY <1>1
<1>4. s \in Seq(T) /\ Len(s) = n
  BY <1>3
<1> QED  BY <1>2, <1>4

\* The frames that advanced the ring.
LEMMA TurnsFacts ==
  ASSUME NEW K, NEW n \in Nat
  PROVE  /\ Turns(K, n) \in Nat
         /\ Turns(K, n + 1) = Turns(K, n) + (IF K[n + 1].ptor # "no" THEN 1 ELSE 0)
         /\ \A m \in 0 .. n : Turns(K, m) <= Turns(K, n)
<1> DEFINE S(m) == {i \in 1 .. m : K[i].ptor # "no"}
<1>1. ASSUME NEW m \in Nat  PROVE IsFiniteSet(S(m)) /\ Cardinality(S(m)) \in Nat
  <2>1. IsFiniteSet(1 .. m) /\ S(m) \subseteq 1 .. m
    BY FS_Interval
  <2> QED  BY <2>1, FS_Subset, FS_CardinalityType
<1>2. ASSUME NEW m \in 0 .. n  PROVE Turns(K, m) <= Turns(K, n)
  <2>1. S(m) \subseteq S(n)
    OBVIOUS
  <2> QED  BY <1>1, <2>1, FS_Subset DEF Turns
<1>3. CASE K[n + 1].ptor # "no"
  <2>1. S(n + 1) = S(n) \cup {n + 1} /\ n + 1 \notin S(n)
    BY <1>3
  <2> QED  BY <1>1, <1>2, <1>3, <2>1, FS_AddElement DEF Turns
<1>4. CASE K[n + 1].ptor = "no"
  <2>1. S(n + 1) = S(n)
    <3>1. \A i \in 1 .. n + 1 : i \in 1 .. n \/ i = n + 1
      OBVIOUS
    <3> QED  BY <1>4, <3>1
  <2>2. Turns(K, n + 1) = Turns(K, n) /\ Turns(K, n) \in Nat
    BY <1>1, <2>1 DEF Turns
  <2> QED  BY <1>2, <1>4, <2>2
<1> QED  BY <1>3, <1>4

LEMMA TurnsGrow ==
  ASSUME NEW K, NEW n \in Nat, NEW m \in 1 .. n, K[m].ptor # "no", NEW i \in 0 .. m - 1
  PROVE  Turns(K, i) < Turns(K, n) /\ Turns(K, i) < Turns(K, m)
<1>1. m - 1 \in Nat /\ (m - 1) + 1 = m /\ m \in Nat /\ i \in Nat
  OBVIOUS
<1>2. Turns(K, m) = Turns(K, m - 1) + 1 /\ Turns(K, m - 1) \in Nat
  BY <1>1, TurnsFacts
<1>3. Turns(K, i) <= Turns(K, m - 1) /\ Turns(K, i) \in Nat
  BY <1>1, TurnsFacts
<1>4. Turns(K, m) <= Turns(K, n) /\ Turns(K, n) \in Nat
  BY <1>1, TurnsFacts
<1> QED  BY <1>2, <1>3, <1>4

LEMMA TurnsSame ==
  ASSUME NEW K, NEW L, NEW n \in Nat, NEW m \in 0 .. n, \A i \in 1 .. n : K[i] = L[i]
  PROVE  Turns(K, m) = Turns(L, m)
<1>1. {i \in 1 .. m : K[i].ptor # "no"} = {i \in 1 .. m : L[i].ptor # "no"}
  OBVIOUS
<1> QED  BY <1>1 DEF Turns

LEMMA FreeInit == Init => FreeInv
<1> SUFFICES ASSUME Init  PROVE FreeInv
  OBVIOUS
<1>1. /\ kinds = <<>> /\ step = "idle" /\ given = <<>> /\ commits = <<>> /\ screen = 0
      /\ jobs = {} /\ done = {} /\ renders = <<>>
  BY DEF Init
<1>2. Now = 0 /\ Depth \in Nat
  BY <1>1, FencesAssumption DEF Now
<1>3. GivenInv /\ EventInv
  BY <1>1, <1>2 DEF GivenInv, EventInv, Begun
<1>4. PanelInv /\ RingInv
  BY <1>1, <1>2 DEF PanelInv, RingInv
<1> QED  BY <1>3, <1>4 DEF FreeInv

\* What the composer and the jobs say stays true while fences signal.
LEMMA FencesSignalled ==
  ASSUME FreeInv, UNCHANGED composer, jobs' \subseteq jobs, \A j \in jobs' : j.does \notin done',
         \A n \in Frame, s \in Slot : Begun(Rotated(n, s))' => Begun(Rotated(n, s)),
         \A n \in Frame : Begun(Blitted(n))' => Begun(Blitted(n))
  PROVE  GivenInv' /\ EventInv'
<1>1. /\ kinds' = kinds /\ step' = step /\ given' = given /\ releaseFenceFd' = releaseFenceFd
      /\ faulty' = faulty /\ Now' = Now /\ This' = This
  BY DEF composer, Now, This
<1>2. GivenInv'
  BY <1>1 DEF FreeInv, GivenInv, Returned, Ordinary, Handed
<1>3. EventInv'
  BY <1>1 DEF FreeInv, EventInv
<1> QED  BY <1>2, <1>3

LEMMA PanelStays ==
  ASSUME FreeInv, UNCHANGED <<composer, commits, screen>>,
         \A n \in Frame : Released(n) \in done' => Released(n) \in done
  PROVE  PanelInv' /\ RingInv'
<1>1. /\ kinds' = kinds /\ step' = step /\ renders' = renders
      /\ mCurRenderBufferIndex' = mCurRenderBufferIndex /\ Now' = Now /\ Late' = Late
  BY DEF composer, Now, This, Late
<1>2. PanelInv'
  BY <1>1 DEF FreeInv, PanelInv, Returned
<1>3. RingInv'
  BY <1>1 DEF FreeInv, RingInv, Back
<1> QED  BY <1>2, <1>3

LEMMA ProduceFrees ==
  ASSUME IInv, WaitInv, FreeInv, Produces
  PROVE  FreeInv'
<1>1. PICK n \in 1 .. Now, s \in Slot : Produce(n, s)
  BY DEF Produces
<1>2. done' = done \cup {Written(n, s)} /\ UNCHANGED <<composer, jobs, commits, screen>>
  BY <1>1 DEF Produce
<1>3. \A e : e \in done' => e \in done \/ e = Written(n, s)
  BY <1>2
<1>4. ASSUME NEW j \in jobs'  PROVE j.does \notin done'
  <2>1. PICK m \in 1 .. Now : Sound1(j, m)
    BY <1>2, <1>4 DEF WaitInv, JobInv
  <2>2. j.does # Written(n, s)
    BY <2>1, EventKinds, EventsDiffer DEF Sound1
  <2> QED  BY <1>2, <1>3, <2>2 DEF FreeInv, EventInv
<1>5. /\ \A m \in Frame, l \in Slot : Begun(Rotated(m, l))' => Begun(Rotated(m, l))
      /\ \A m \in Frame : Begun(Blitted(m))' => Begun(Blitted(m))
      /\ \A m \in Frame : Released(m) \in done' => Released(m) \in done
  BY <1>2, <1>3, EventKinds, EventsDiffer DEF Begun
<1> QED  BY <1>2, <1>4, <1>5, FencesSignalled, PanelStays DEF FreeInv

LEMMA WorkFrees ==
  ASSUME IInv, WaitInv, FreeInv, Works
  PROVE  FreeInv'
<1>1. PICK j \in jobs : Work(j)
  BY DEF Works
<1>2. /\ done' = done \cup {j.does} /\ jobs' = jobs \ {j}
      /\ UNCHANGED <<composer, commits, screen>>
  BY <1>1 DEF Work
<1>3. \A i \in jobs' : i.does \notin done'
  BY <1>2 DEF FreeInv, EventInv
<1>4. \A e : Begun(e)' => Begun(e)
  BY <1>2 DEF Begun
<1>5. PICK m \in 1 .. Now : Sound1(j, m)
  BY DEF WaitInv, JobInv
<1>6. \A n \in Frame : j.does # Released(n)
  BY <1>5, EventKinds DEF Sound1
<1>7. \A n \in Frame : Released(n) \in done' => Released(n) \in done
  BY <1>2, <1>6
<1> QED  BY <1>2, <1>3, <1>4, <1>7, FencesSignalled, PanelStays DEF FreeInv


\* A frame reaches the panel, and lets the one before it go.
LEMMA ShowFrees ==
  ASSUME IInv, WaitInv, FreeInv, Show
  PROVE  FreeInv'
<1> DEFINE h == Head(commits)
           over == IF kinds[h].dpy = "virtual" THEN {h} ELSE {screen} \ {0}
<1>1. /\ commits # <<>> /\ commits' = Tail(commits)
      /\ done' = done \cup {Released(m) : m \in over} \cup {Retired(m) : m \in over}
      /\ screen' = IF kinds[h].dpy = "virtual" THEN 0 ELSE h
      /\ UNCHANGED <<composer, jobs>>
  BY DEF Show
<1>2. over \subseteq {h} \cup ({screen} \ {0})
  OBVIOUS
<1>3. /\ screen' \in {0, h}
      /\ screen' = 0 \/ over \subseteq {screen}
  BY <1>1
<1> HIDE DEF over
<1>5. /\ kinds' = kinds /\ step' = step /\ renders' = renders
      /\ mCurRenderBufferIndex' = mCurRenderBufferIndex /\ Now' = Now /\ Late' = Late
  BY <1>1 DEF composer, Now, This, Late
<1>6. commits \in Seq(Nat) /\ CommitInv /\ Now \in Nat
  BY FencesAssumption DEF WaitInv, Lengths
<1>7. /\ Len(commits) \in Nat /\ Len(commits) > 0 /\ Len(commits') = Len(commits) - 1
      /\ h = commits[1] /\ 1 \in 1 .. Len(commits)
      /\ \A i \in 1 .. Len(commits') :
           commits'[i] = commits[i + 1] /\ i + 1 \in 1 .. Len(commits) /\ 1 < i + 1
  BY <1>1, <1>6
<1>8. h \in 1 .. Now /\ Returned(h)
  <2>1. h \in 1 .. Now /\ (h < Now \/ step = "idle")
    BY <1>6, <1>7 DEF CommitInv
  <2> QED  BY <1>6, <2>1 DEF Returned
<1>9. \A i \in 1 .. Len(commits') : h < commits'[i]
  BY <1>6, <1>7 DEF CommitInv
<1>10. screen \in 0 .. Now /\ (screen # 0 => screen < h /\ Returned(screen))
  BY <1>7 DEF FreeInv, PanelInv
<1>11. GivenInv' /\ EventInv'
  <2>1. \A e : e \in done' => e \in done \/ \E m \in over : e \in {Released(m), Retired(m)}
    BY <1>1
  <2>4. /\ \A n, l : Rotated(n, l) \in done' => Rotated(n, l) \in done
        /\ \A n : Blitted(n) \in done' => Blitted(n) \in done
    BY <2>1, EventKinds, EventsDiffer
  <2>2. /\ \A n \in Frame, l \in Slot : Begun(Rotated(n, l))' => Begun(Rotated(n, l))
        /\ \A n \in Frame : Begun(Blitted(n))' => Begun(Blitted(n))
    BY <1>1, <2>4 DEF Begun
  <2>3. ASSUME NEW j \in jobs'  PROVE j.does \notin done'
    <3>1. PICK m \in 1 .. Now : Sound1(j, m)
      BY <1>1, <2>3 DEF WaitInv, JobInv
    <3>2. \A n : j.does \notin {Released(n), Retired(n)}
      BY <3>1, EventKinds, EventsDiffer DEF Sound1
    <3> QED  BY <1>1, <2>1, <3>2 DEF FreeInv, EventInv
  <2> QED  BY <1>1, <2>2, <2>3, FencesSignalled
<1>12. PanelInv'
  <2>1. screen' \in 0 .. Now'
    BY <1>3, <1>5, <1>6, <1>8
  <2>2. screen' # 0 => Returned(screen)' /\ \A i \in 1 .. Len(commits') : screen' < commits'[i]
    BY <1>3, <1>5, <1>8, <1>9 DEF Returned
  <2>3. ASSUME NEW n \in Frame, Released(n) \in done'
        PROVE  n \in 1 .. Now /\ Returned(n) /\ n # screen'
               /\ \A i \in 1 .. Len(commits') : commits'[i] # n
    <3>1. Released(n) \in done \/ n \in over
      BY <1>1, <2>3, EventKinds
    <3>2. CASE Released(n) \in done
      <4>1. /\ n \in 1 .. Now /\ Returned(n) /\ n # screen
            /\ \A i \in 1 .. Len(commits) : commits[i] # n
        BY <3>2 DEF FreeInv, PanelInv
      <4> QED  BY <1>3, <1>7, <4>1
    <3>3. CASE n \in over
      <4>1. n = h \/ (n = screen /\ screen # 0)
        BY <1>2, <3>3
      <4>2. n \in 1 .. Now /\ Returned(n)
        BY <1>6, <1>8, <1>10, <4>1
      <4>3. n <= h /\ n \in Nat /\ h \in Nat
        BY <1>8, <1>10, <4>1, <4>2
      <4>4. n # screen'
        <5>1. screen' = 0 \/ (n = screen /\ screen # 0 /\ screen < h /\ screen' \in {0, h})
          BY <1>2, <1>3, <1>10, <3>3, <4>1
        <5> QED  BY <1>8, <4>2, <5>1
      <4>5. \A i \in 1 .. Len(commits') : commits'[i] # n
        <5> SUFFICES ASSUME NEW i \in 1 .. Len(commits')  PROVE commits'[i] # n
          OBVIOUS
        <5>1. h < commits'[i]
          BY <1>9
        <5> QED  BY <4>3, <5>1
      <4> QED  BY <4>2, <4>4, <4>5
    <3> QED  BY <3>1, <3>2, <3>3
  <2> QED  BY <1>5, <2>1, <2>2, <2>3 DEF PanelInv, Returned
<1>13. RingInv'
  <2>1. /\ renders' = [n \in 1 .. Now |-> renders'[n]]
        /\ \A n \in 1 .. Now : renders'[n] # <<>> =>
             /\ kinds[n].ptor = "yes"
             /\ Turns(kinds, Now) - Turns(kinds, n) < NUM_RENDER_BUFFERS =>
                  renders'[n][2] = Back(Turns(kinds, Now) - Turns(kinds, n))'
    BY <1>5 DEF FreeInv, RingInv, Back
  <2>2. Len(commits') <= Depth
    BY <1>7, FencesAssumption DEF FreeInv, RingInv
  <2>3. \A i \in 1 .. Len(commits) :
          Turns(kinds, Now) <= Turns(kinds, commits[i]) + (Len(commits) - i) + Late
    BY DEF FreeInv, RingInv
  <2>4. \A i \in 1 .. Len(commits') :
          Turns(kinds, Now) <= Turns(kinds, commits'[i]) + (Len(commits') - i) + Late
    <3> SUFFICES ASSUME NEW i \in 1 .. Len(commits')
                 PROVE  Turns(kinds, Now) <= Turns(kinds, commits'[i]) + (Len(commits') - i) + Late
      OBVIOUS
    <3>1. Turns(kinds, Now) <= Turns(kinds, commits[i + 1]) + (Len(commits) - (i + 1)) + Late
      BY <1>7, <2>3
    <3>2. Len(commits) - (i + 1) = Len(commits') - i
      BY <1>7
    <3> QED  BY <1>7, <3>1, <3>2
  <2>5. screen' # 0 => Turns(kinds, Now) <= Turns(kinds, screen') + Len(commits') + Late
    <3>1. Turns(kinds, Now) <= Turns(kinds, h) + (Len(commits) - 1) + Late
      BY <1>7, <2>3
    <3> QED  BY <1>3, <1>7, <3>1
  <2> QED  BY <1>5, <2>1, <2>2, <2>4, <2>5 DEF RingInv
<1> QED  BY <1>11, <1>12, <1>13 DEF FreeInv

LEMMA StutterFrees == ASSUME FreeInv, UNCHANGED vars  PROVE FreeInv'
<1>1. UNCHANGED <<composer, jobs, commits, screen, done>>
  BY DEF vars
<1>2. \A e : Begun(e)' = Begun(e)
  BY <1>1 DEF Begun
<1>3. \A j \in jobs' : j.does \notin done'
  BY <1>1 DEF FreeInv, EventInv
<1> QED  BY <1>1, <1>2, <1>3, FencesSignalled, PanelStays DEF FreeInv


\* hwc_prepare.
LEMMA Advanced ==
  ASSUME NEW c, c \in 0 .. NUM_RENDER_BUFFERS - 1
  PROVE  (c + 1) % NUM_RENDER_BUFFERS = IF c + 1 = NUM_RENDER_BUFFERS THEN 0 ELSE c + 1
<1>1. NUM_RENDER_BUFFERS \in Nat \ {0}
  BY FencesAssumption
<1>2. CASE c + 1 = NUM_RENDER_BUFFERS
  <2>1. (c + 1) % NUM_RENDER_BUFFERS = 0
    BY <1>1, <1>2
  <2> QED  BY <1>2, <2>1
<1>3. CASE c + 1 < NUM_RENDER_BUFFERS
  <2>1. (c + 1) % NUM_RENDER_BUFFERS = c + 1
    BY <1>1, <1>3
  <2> QED  BY <1>3, <2>1
<1> QED  BY <1>1, <1>2, <1>3

LEMMA PrepareRing ==
  ASSUME IInv, WaitInv, FreeInv, NEW k \in Kinds, Prepare(k)
  PROVE  RingInv'
<1>1. /\ Now \in Nat /\ Now' = Now + 1 /\ kinds'[Now'] = k
      /\ \A n \in 1 .. Now : kinds'[n] = kinds[n]
  BY Appended
<1> DEFINE T(n) == Turns(kinds', n)
           entry == renders'[Now']
           c == mCurRenderBufferIndex
<1>2. /\ \A n \in 0 .. Now : T(n) = Turns(kinds, n) /\ T(n) \in Nat /\ T(n) <= T(Now)
      /\ T(Now') = T(Now) + (IF k.ptor # "no" THEN 1 ELSE 0)
  <2>1. \A n \in 0 .. Now : T(n) = Turns(kinds, n)
    <3> SUFFICES ASSUME NEW n \in 0 .. Now  PROVE T(n) = Turns(kinds, n)
      OBVIOUS
    <3> QED  BY <1>1, TurnsSame
  <2>2. \A n \in 0 .. Now : T(n) \in Nat
    BY <1>1, TurnsFacts
  <2>3. \A n \in 0 .. Now : T(n) <= T(Now)
    BY <1>1, TurnsFacts
  <2>4. T(Now + 1) = T(Now) + (IF kinds'[Now + 1].ptor # "no" THEN 1 ELSE 0)
    BY <1>1, TurnsFacts
  <2> QED  BY <1>1, <2>1, <2>2, <2>3, <2>4
<1>3. /\ step = "idle" /\ UNCHANGED <<commits, screen>>
      /\ step' = "close" \/ k.handled
      /\ step' # "idle"
  BY DEF Prepare, Synced
<1>4. k.ptor # "no" => Late' = 1
  <2>1. k.ptor # "no" => k.handled
    BY FencesAssumption
  <2>2. k.handled => step' \notin {"idle", "close"}
    BY DEF Prepare
  <2>3. This' = k
    BY Appended
  <2> QED  BY <2>1, <2>2, <2>3 DEF Late
<1>5. Late = 0 /\ Late' \in {0, 1}
  BY <1>3 DEF Late
<1>6. /\ renders' = [n \in 1 .. Now' |-> renders'[n]]
      /\ \A n \in 1 .. Now : renders'[n] = renders[n]
      /\ \/ k.ptor # "no" /\ mCurRenderBufferIndex' = NextIndex
            /\ (k.ptor # "yes" => entry = <<>>)
            /\ (k.ptor = "yes" => entry[2] = NextIndex)
         \/ k.ptor = "no" /\ mCurRenderBufferIndex' = c /\ entry = <<>>
  <2>1. renders = [n \in 1 .. Now |-> renders[n]]
    BY DEF FreeInv, RingInv
  <2>2. ASSUME NEW e, renders' = Append(renders, e)
        PROVE  /\ renders' = [n \in 1 .. Now' |-> renders'[n]] /\ entry = e
               /\ \A n \in 1 .. Now : renders'[n] = renders[n]
    BY <1>1, <2>1, <2>2, AppendAny
  <2>3. CASE k.ptor # "no"
    <3>1. /\ mCurRenderBufferIndex' = NextIndex
          /\ \E times : renders' =
               Append(renders, IF k.ptor = "yes" THEN <<times, NextIndex>> ELSE <<>>)
      BY <2>3 DEF Prepare, PrepareOverlap
    <3>2. PICK times : renders' =
               Append(renders, IF k.ptor = "yes" THEN <<times, NextIndex>> ELSE <<>>)
      BY <3>1
    <3>3. /\ renders' = [n \in 1 .. Now' |-> renders'[n]]
          /\ entry = IF k.ptor = "yes" THEN <<times, NextIndex>> ELSE <<>>
          /\ \A n \in 1 .. Now : renders'[n] = renders[n]
      BY <2>2, <3>2
    <3> HIDE DEF entry
    <3>4. k.ptor = "yes" => entry[2] = NextIndex
      BY <3>3
    <3>5. k.ptor # "yes" => entry = <<>>
      BY <3>3
    <3> QED  BY <2>3, <3>1, <3>3, <3>4, <3>5
  <2>4. CASE k.ptor = "no"
    <3>1. renders' = Append(renders, <<>>) /\ mCurRenderBufferIndex' = c
      BY <2>4 DEF Prepare
    <3> QED  BY <2>2, <2>4, <3>1
  <2> QED  BY <2>3, <2>4
<1>7. c \in 0 .. NUM_RENDER_BUFFERS - 1 /\ NUM_RENDER_BUFFERS \in Nat \ {0}
  BY FencesAssumption DEF IInv, Places
<1>8. k.ptor # "no" =>
        mCurRenderBufferIndex' = IF c + 1 = NUM_RENDER_BUFFERS THEN 0 ELSE c + 1
  <2>1. k.ptor # "no" => mCurRenderBufferIndex' = (c + 1) % NUM_RENDER_BUFFERS
    BY <1>6 DEF NextIndex
  <2> QED  BY <1>7, <2>1, Advanced
<1>9. ASSUME NEW n \in 1 .. Now', renders'[n] # <<>>
      PROVE  /\ kinds'[n].ptor = "yes"
             /\ LET d == T(Now') - T(n)
                IN  d < NUM_RENDER_BUFFERS =>
                      renders'[n][2] = IF d <= mCurRenderBufferIndex' THEN mCurRenderBufferIndex' - d
                                       ELSE mCurRenderBufferIndex' - d + NUM_RENDER_BUFFERS
  <2>1. CASE n = Now'
    <3>1. k.ptor = "yes" /\ entry[2] = NextIndex /\ mCurRenderBufferIndex' = NextIndex
      BY <1>6, <1>9, <2>1
    <3>2. T(Now') - T(n) = 0
      BY <1>1, <1>2, <2>1
    <3>3. mCurRenderBufferIndex' \in Nat
      BY <1>7, <1>8, <3>1
    <3> QED  BY <1>1, <2>1, <3>1, <3>2, <3>3
  <2>2. CASE n # Now'
    <3>1. n \in 1 .. Now
      BY <1>1, <2>2
    <3> DEFINE d == T(Now) - T(n)
    <3>2. T(n) = Turns(kinds, n) /\ T(Now) = Turns(kinds, Now) /\ d \in Nat
          /\ T(Now') - T(n) = d + (IF k.ptor # "no" THEN 1 ELSE 0)
      BY <1>1, <1>2, <3>1
    <3>3. /\ kinds[n].ptor = "yes"
          /\ d < NUM_RENDER_BUFFERS =>
               renders[n][2] = IF d <= c THEN c - d ELSE c - d + NUM_RENDER_BUFFERS
      BY <1>6, <1>9, <3>1, <3>2 DEF FreeInv, RingInv, Back
    <3>4. renders'[n] = renders[n] /\ kinds'[n] = kinds[n]
      BY <1>1, <1>6, <3>1
    <3> HIDE DEF d, T
    <3>5. CASE k.ptor = "no"
      BY <1>6, <3>2, <3>3, <3>4, <3>5
    <3>6. CASE k.ptor # "no"
      <4>1. T(Now') - T(n) = d + 1
        BY <3>2, <3>6
      <4>2. ASSUME d + 1 < NUM_RENDER_BUFFERS
            PROVE  renders'[n][2] =
                     IF d + 1 <= mCurRenderBufferIndex' THEN mCurRenderBufferIndex' - (d + 1)
                     ELSE mCurRenderBufferIndex' - (d + 1) + NUM_RENDER_BUFFERS
        <5>1. renders'[n][2] = IF d <= c THEN c - d ELSE c - d + NUM_RENDER_BUFFERS
          BY <1>7, <3>2, <3>3, <3>4, <4>2
        <5> QED  BY <1>7, <1>8, <3>2, <3>6, <4>2, <5>1
      <4> QED  BY <3>3, <3>4, <4>1, <4>2
    <3> QED  BY <3>5, <3>6
  <2> QED  BY <2>1, <2>2
<1>10. Len(commits) \in Nat /\ \A i \in 1 .. Len(commits) : commits[i] \in 1 .. Now
  BY DEF WaitInv, Lengths, CommitInv
<1>11. \A i \in 1 .. Len(commits) : T(Now') <= T(commits[i]) + (Len(commits) - i) + Late'
  <2> SUFFICES ASSUME NEW i \in 1 .. Len(commits)
               PROVE  T(Now') <= T(commits[i]) + (Len(commits) - i) + Late'
    OBVIOUS
  <2>1. Turns(kinds, Now) <= Turns(kinds, commits[i]) + (Len(commits) - i) + Late
    BY DEF FreeInv, RingInv
  <2>2. T(Now) <= T(commits[i]) + (Len(commits) - i) /\ T(commits[i]) \in Nat /\ T(Now) \in Nat
    BY <1>1, <1>2, <1>5, <1>10, <2>1
  <2> HIDE DEF T
  <2> QED  BY <1>2, <1>4, <1>5, <1>10, <2>2
<1>12. screen # 0 => T(Now') <= T(screen) + Len(commits) + Late'
  <2> SUFFICES ASSUME screen # 0  PROVE T(Now') <= T(screen) + Len(commits) + Late'
    OBVIOUS
  <2>1. Turns(kinds, Now) <= Turns(kinds, screen) + Len(commits) + Late /\ screen \in 0 .. Now
    BY DEF FreeInv, RingInv, PanelInv
  <2>2. T(Now) <= T(screen) + Len(commits) /\ T(screen) \in Nat /\ T(Now) \in Nat
    BY <1>1, <1>2, <1>5, <1>10, <2>1
  <2> HIDE DEF T
  <2> QED  BY <1>2, <1>4, <1>5, <1>10, <2>2
<1>13. Len(commits) <= Depth
  BY DEF FreeInv, RingInv
<1> QED  BY <1>3, <1>6, <1>9, <1>11, <1>12, <1>13 DEF RingInv, Back

LEMMA PrepareFrees ==
  ASSUME IInv, WaitInv, FreeInv, NEW k \in Kinds, Prepare(k)
  PROVE  FreeInv'
<1>1. /\ Now \in Nat /\ Now' = Now + 1 /\ kinds'[Now'] = k /\ This' = k
      /\ \A n \in 1 .. Now : kinds'[n] = kinds[n]
  BY Appended
<1>2. /\ step = "idle" /\ UNCHANGED <<commits, screen, jobs, done, faulty>>
      /\ given' = Append(given, NoFences)
      /\ step' # "idle"
      /\ step' = "commit" => ~Synced(k)
      /\ step' = "close" => ~k.handled
  BY DEF Prepare
<1>3. \A n \in 1 .. Now : Returned(n) /\ Returned(n)'
  BY <1>1, <1>2 DEF Returned
<1>4. GivenInv'
  <2>1. given = [n \in 1 .. Now |-> given[n]]
    BY DEF FreeInv, GivenInv
  <2>2. /\ given' = [n \in 1 .. Now' |-> given'[n]]
        /\ \A n \in 1 .. Now : given'[n] = given[n]
    BY <1>1, <1>2, <2>1, AppendAny
  <2>3. ASSUME NEW n \in 1 .. Now', Returned(n)', Ordinary(n)'
        PROVE  Handed(n, given[n])' /\ n \in 1 .. Now
    <3>1. n \in 1 .. Now
      BY <1>1, <1>2, <2>3 DEF Returned
    <3>2. Ordinary(n)
      BY <1>1, <1>2, <2>3, <3>1 DEF Ordinary
    <3>3. Handed(n, given[n])
      BY <1>3, <3>1, <3>2 DEF FreeInv, GivenInv
    <3> QED  BY <1>1, <2>2, <3>1, <3>3 DEF Handed
  <2>4. step' = "commit" => ~Ordinary(Now)'
    BY <1>1, <1>2 DEF Ordinary
  <2> QED  BY <1>1, <1>2, <2>2, <2>3, <2>4 DEF GivenInv
<1>5. EventInv'
  <2>1. \A e : Begun(e)' = Begun(e)
    BY <1>2 DEF Begun
  <2> QED  BY <1>1, <1>2, <2>1 DEF FreeInv, EventInv
<1>6. PanelInv'
  BY <1>1, <1>2, <1>3 DEF FreeInv, PanelInv
<1> QED  BY <1>4, <1>5, <1>6, PrepareRing DEF FreeInv


\* hwc_set.  Until it returns, the display and the ring stay as they are.
LEMMA SetStays ==
  ASSUME FreeInv, UNCHANGED <<kinds, commits, screen, done, renders, mCurRenderBufferIndex>>,
         step \in {"draw", "sync"}, step' \in {"sync", "commit"}
  PROVE  PanelInv' /\ RingInv' /\ \A n : Returned(n)' = Returned(n)
<1>1. Now' = Now /\ Late' = Late
  BY DEF Now, This, Late
<1>2. \A n : Returned(n)' = Returned(n)
  BY <1>1 DEF Returned
<1>3. PanelInv'
  BY <1>1, <1>2 DEF FreeInv, PanelInv
<1>4. RingInv'
  BY <1>1 DEF FreeInv, RingInv, Back
<1> QED  BY <1>2, <1>3, <1>4

\* The frames before keep what they gave.
LEMMA GivenStays ==
  ASSUME FreeInv, UNCHANGED <<kinds, given>>, faulty \subseteq faulty',
         \A n : Returned(n)' = Returned(n),
         step' = "commit" /\ Ordinary(Now)' => Handed(Now, releaseFenceFd)',
         step' # "close"
  PROVE  GivenInv'
<1>1. Now' = Now
  BY DEF Now
<1>2. \A n \in 1 .. Now : Ordinary(n)' => Ordinary(n)
  BY DEF Ordinary
<1> QED  BY <1>1, <1>2 DEF FreeInv, GivenInv, Handed

LEMMA DrawFrees ==
  ASSUME IInv, WaitInv, FreeInv, Draw
  PROVE  FreeInv'
<1>1. /\ step = "draw" /\ step' = "sync" /\ Now' = Now
      /\ UNCHANGED <<kinds, commits, screen, done, renders, mCurRenderBufferIndex, given>>
      /\ faulty \subseteq faulty'
  BY DEF Draw, DrawOverlap, DrawCopybit, Faulty, Now
<1>2. PICK W : jobs' = jobs \cup {[does |-> Blitted(Now), waits |-> W]}
  BY DEF Draw, DrawOverlap, DrawCopybit
<1>3. Now \in 1 .. Now /\ Now \in Frame /\ This = kinds[Now] /\ Blits(This)
  BY <1>1, Current DEF WaitInv, Stages
<1>4. PanelInv' /\ RingInv' /\ \A n : Returned(n)' = Returned(n)
  BY <1>1, SetStays
<1>5. GivenInv'
  BY <1>1, <1>4, GivenStays
<1>6. ~Begun(Blitted(Now))
  BY <1>1, <1>3 DEF FreeInv, EventInv, Frame
<1>7. \A j \in jobs' : j \in jobs \/ (j.does = Blitted(Now) /\ j = [does |-> Blitted(Now), waits |-> W])
  BY <1>2
<1>8. \A e : Begun(e)' => Begun(e) \/ e = Blitted(Now)
  BY <1>1, <1>7 DEF Begun
<1>9. EventInv'
  <2>1. \A j \in jobs' : j.does \notin done'
    BY <1>1, <1>6, <1>7 DEF FreeInv, EventInv, Begun
  <2>2. \A i, j \in jobs' : i.does = j.does => i = j
    BY <1>6, <1>7 DEF FreeInv, EventInv, Begun
  <2>3. \A n \in Frame, l \in Slot : Begun(Rotated(n, l))' =>
          /\ n \in 1 .. Now /\ ByRotator(kinds[n], l)
          /\ n < Now \/ step' \notin {"draw", "sync"}
    <3> SUFFICES ASSUME NEW n \in Frame, NEW l \in Slot, Begun(Rotated(n, l))'
                 PROVE  n \in 1 .. Now /\ n < Now /\ ByRotator(kinds[n], l)
      OBVIOUS
    <3>1. Begun(Rotated(n, l))
      BY <1>8, EventKinds
    <3> QED  BY <1>1, <3>1 DEF FreeInv, EventInv
  <2>4. \A n \in Frame : Begun(Blitted(n))' => n \in 1 .. Now /\ Blits(kinds[n])
    <3> SUFFICES ASSUME NEW n \in Frame, Begun(Blitted(n))'
                 PROVE  n \in 1 .. Now /\ Blits(kinds[n])
      OBVIOUS
    <3>1. Begun(Blitted(n)) \/ n = Now
      BY <1>8, EventsDiffer
    <3> QED  BY <1>3, <3>1 DEF FreeInv, EventInv
  <2> QED  BY <1>1, <2>1, <2>2, <2>3, <2>4 DEF EventInv
<1> QED  BY <1>4, <1>5, <1>9 DEF FreeInv

\* hwc_sync gives SurfaceFlinger the fence of the last that reads the buffer.
LEMMA SyncHands ==
  ASSUME IInv, WaitInv, NEW failed \in BOOLEAN, NEW rotFailed \in BOOLEAN,
         Sync(failed, rotFailed), Ordinary(Now)'
  PROVE  Handed(Now, releaseFenceFd)'
<1>1. /\ step = "sync" /\ Now' = Now /\ kinds' = kinds
      /\ faulty' = IF failed \/ rotFailed THEN faulty \cup {Now} ELSE faulty
      /\ releaseFenceFd' = [s \in Slot |->
           IF HasRelease(s)
           THEN LayerRelease(s, IF s \in Rotates THEN RotFence(s, rotFailed) ELSE None,
                             IF failed THEN None ELSE Released(Now))
           ELSE None]
  BY DEF Sync, Now
<1>2. Now \in 1 .. Now /\ Now \in Frame /\ This \in Kinds /\ This = kinds[Now]
  BY <1>1, Current
<1>3. ~failed /\ ~rotFailed /\ ~This.animating /\ Synced(This)
  BY <1>1, <1>2 DEF Ordinary
<1> DEFINE g(s) == IF s \in Rotates THEN Rotated(Now, s) ELSE None
<1>9. \A s \in Slot : HasRelease(s) =>
        releaseFenceFd'[s] = LayerRelease(s, g(s), Released(Now))
  BY <1>1, <1>3 DEF RotFence
<1>10. ASSUME NEW s \in Slot
       PROVE  /\ g(s) # None /\ (s # "fbt" => This.comp[s] # "blit") =>
                   LayerRelease(s, g(s), Released(Now)) = g(s)
              /\ g(s) = None /\ s # "fbt" /\ This.comp[s] = "blit" =>
                   LayerRelease(s, g(s), Released(Now)) = fd
              /\ g(s) = None /\ (s = "fbt" \/ This.comp[s] # "blit") =>
                   LayerRelease(s, g(s), Released(Now)) = Released(Now)
  <2> HIDE DEF g
  <2> QED  BY <1>3 DEF LayerRelease
<1>4. \A s \in Slot : HasRelease(s) =>
        /\ s \in Rotates /\ Rotated(Now, s) # None => releaseFenceFd'[s] = Rotated(Now, s)
        /\ s \notin Rotates /\ s # "fbt" /\ This.comp[s] = "blit" => releaseFenceFd'[s] = fd
        /\ s \notin Rotates /\ (s = "fbt" \/ This.comp[s] # "blit") => releaseFenceFd'[s] = Released(Now)
  <2>1. \A s \in Rotates : s # "fbt" => This.comp[s] = "rotator"
    BY DEF Rotates, Sessions, Target
  <2> QED  BY <1>9, <1>10, <2>1
<1> HIDE DEF g
<1>5. /\ \A l \in Layers : l \in Slot /\ l # "fbt"
      /\ \A s \in Slot : Rotated(Now, s) # None
      /\ "fbt" \in Slot /\ "fbt" \notin Layers
  BY <1>2, EventsReal, FencesAssumption DEF Slot
<1>6. ~This.turned => releaseFenceFd'["fbt"] = Released(Now)
  <2>1. HasRelease("fbt") /\ (~This.turned => "fbt" \notin Rotates)
    BY <1>5 DEF HasRelease, Rotates, Sessions, Target
  <2> QED  BY <1>4, <1>5, <2>1
<1>8. ASSUME NEW s \in Slot, ByRotator(This, s)
      PROVE  releaseFenceFd'[s] = Rotated(Now, s)
  <2>1. s \in Layers => ~This.empty /\ This.comp[s] = "rotator"
    BY <1>2, <1>5, <1>8, KindFacts DEF ByRotator
  <2>2. s \in Rotates /\ HasRelease(s)
    BY <1>5, <1>8, <2>1 DEF ByRotator, Rotates, Sessions, Target, HasRelease
  <2> QED  BY <1>4, <1>5, <2>2
<1>7. ASSUME NEW l \in Layers
      PROVE  /\ This.comp[l] = "overlay" => releaseFenceFd'[l] = Released(Now)
             /\ This.comp[l] = "blit" => releaseFenceFd'[l] = Blitted(Now)
  <2>1. This.comp[l] # "gpu" => ~This.empty /\ HasRelease(l)
    BY <1>2, KindFacts DEF HasRelease
  <2>2. l \in Rotates => This.comp[l] = "rotator"
    BY DEF Rotates
  <2>3. This.comp[l] = "blit" => fd = Blitted(Now)
    <3>1. This.comp[l] = "blit" => Blits(This)
      BY <1>2, FencesAssumption DEF Blits
    <3> QED  BY <1>1, <3>1 DEF WaitInv, Stages
  <2> QED  BY <1>4, <1>5, <2>1, <2>2, <2>3
<1> QED  BY <1>1, <1>2, <1>6, <1>7, <1>8 DEF Handed

LEMMA SyncFrees ==
  ASSUME IInv, WaitInv, FreeInv, NEW failed \in BOOLEAN, NEW rotFailed \in BOOLEAN,
         Sync(failed, rotFailed)
  PROVE  FreeInv'
<1>1. /\ step = "sync" /\ step' = "commit" /\ Now' = Now
      /\ UNCHANGED <<kinds, commits, screen, done, renders, mCurRenderBufferIndex, given>>
      /\ faulty \subseteq faulty'
  BY DEF Sync, Now
<1> DEFINE w(l) == IF rotFailed THEN {} ELSE {acquireFenceFd[l]} \ {None}
<1>2. jobs' = jobs \cup {[does |-> Rotated(Now, l), waits |-> w(l)] : l \in Rotates}
      /\ Rotates \subseteq Slot
  BY DEF Sync, Rotates, Sessions, Target, Slot
<1> HIDE DEF w
<1>3. Now \in 1 .. Now /\ Now \in Frame /\ This = kinds[Now]
  BY <1>1, Current
<1>4. PanelInv' /\ RingInv' /\ \A n : Returned(n)' = Returned(n)
  BY <1>1, SetStays
<1>5. GivenInv'
  BY <1>1, <1>4, SyncHands, GivenStays
<1>6. \A l \in Rotates : ~Begun(Rotated(Now, l))
  BY <1>1, <1>2, <1>3 DEF FreeInv, EventInv, Frame
<1>7. \A j \in jobs' : \/ j \in jobs
                       \/ \E l \in Rotates : /\ j.does = Rotated(Now, l)
                                            /\ j = [does |-> Rotated(Now, l), waits |-> w(l)]
  BY <1>2
<1>8. \A e : Begun(e)' => Begun(e) \/ \E l \in Rotates : e = Rotated(Now, l)
  BY <1>1, <1>7 DEF Begun
<1>9. EventInv'
  <2>1. \A j \in jobs' : j.does \notin done'
    BY <1>1, <1>6, <1>7 DEF FreeInv, EventInv, Begun
  <2>2. \A i, j \in jobs' : i.does = j.does => i = j
    <3> SUFFICES ASSUME NEW i \in jobs', NEW j \in jobs', i.does = j.does  PROVE i = j
      OBVIOUS
    <3>1. CASE i \in jobs /\ j \in jobs
      BY <3>1 DEF FreeInv, EventInv
    <3>2. CASE i \notin jobs /\ j \notin jobs
      <4>1. PICK l \in Rotates : i.does = Rotated(Now, l) /\ i = [does |-> Rotated(Now, l), waits |-> w(l)]
        BY <1>7, <3>2
      <4>2. PICK m \in Rotates : j.does = Rotated(Now, m) /\ j = [does |-> Rotated(Now, m), waits |-> w(m)]
        BY <1>7, <3>2
      <4>4. Rotated(Now, l) = Rotated(Now, m)
        BY <4>1, <4>2
      <4>3. l = m
        BY <4>4, EventsDiffer
      <4> QED  BY <4>1, <4>2, <4>3
    <3>3. CASE (i \in jobs /\ j \notin jobs) \/ (i \notin jobs /\ j \in jobs)
      BY <1>6, <1>7, <3>3 DEF Begun
    <3> QED  BY <3>1, <3>2, <3>3
  <2>3. \A n \in Frame, l \in Slot : Begun(Rotated(n, l))' =>
          n \in 1 .. Now /\ ByRotator(kinds[n], l)
    <3> SUFFICES ASSUME NEW n \in Frame, NEW l \in Slot, Begun(Rotated(n, l))'
                 PROVE  n \in 1 .. Now /\ ByRotator(kinds[n], l)
      OBVIOUS
    <3>1. Begun(Rotated(n, l)) \/ (n = Now /\ l \in Rotates)
      BY <1>8, EventsDiffer
    <3>2. l \in Rotates => ByRotator(This, l)
      BY DEF Rotates, Sessions, Target, ByRotator
    <3> QED  BY <1>3, <3>1, <3>2 DEF FreeInv, EventInv
  <2>4. \A n \in Frame : Begun(Blitted(n))' => n \in 1 .. Now /\ Blits(kinds[n])
    <3> SUFFICES ASSUME NEW n \in Frame, Begun(Blitted(n))'
                 PROVE  n \in 1 .. Now /\ Blits(kinds[n])
      OBVIOUS
    <3>1. Begun(Blitted(n))
      BY <1>8, EventKinds
    <3> QED  BY <3>1 DEF FreeInv, EventInv
  <2> QED  BY <1>1, <2>1, <2>2, <2>3, <2>4 DEF EventInv
<1> QED  BY <1>4, <1>5, <1>9 DEF FreeInv

\* The end of hwc_set: the frame is committed, or was not handled.
LEMMA CloseFrees ==
  ASSUME IInv, WaitInv, FreeInv, Commit \/ Skip
  PROVE  FreeInv'
<1>1. /\ step \in {"commit", "close"} /\ step' = "idle" /\ Now' = Now
      /\ UNCHANGED <<kinds, screen, jobs, done, renders, mCurRenderBufferIndex, faulty>>
      /\ given' = [given EXCEPT ![Now] = [releaseFenceFd EXCEPT !["outbuf"] = RetireFd]]
  BY DEF Commit, Skip, Close, Now
<1>2. Now \in 1 .. Now /\ Now \in Frame /\ Now \in Nat /\ This = kinds[Now]
  BY <1>1, Current DEF Frame
<1>3. \A n : Returned(n) => Returned(n)' /\ n # Now
  BY <1>1, <1>2 DEF Returned
<1>4. \A n \in 1 .. Now : Returned(n)' /\ (n # Now => Returned(n))
  BY <1>1, <1>2 DEF Returned
<1>5. GivenInv'
  <2>1. /\ given' = [n \in 1 .. Now |-> given'[n]]
        /\ \A n \in 1 .. Now : n # Now => given'[n] = given[n]
        /\ given'[Now] = [releaseFenceFd EXCEPT !["outbuf"] = RetireFd]
    BY <1>1, <1>2 DEF FreeInv, GivenInv
  <2>2. \A n \in 1 .. Now : Ordinary(n)' => Ordinary(n)
    BY <1>1 DEF Ordinary
  <2>3. \A n \in 1 .. Now : n # Now /\ Ordinary(n) => Handed(n, given'[n])
    BY <1>4, <2>1 DEF FreeInv, GivenInv
  <2>4. Ordinary(Now) => Handed(Now, given'[Now])
    <3> SUFFICES ASSUME Ordinary(Now)  PROVE Handed(Now, given'[Now])
      OBVIOUS
    <3>1. step = "commit"
      BY <1>1, <1>2 DEF Ordinary, Synced, FreeInv, GivenInv
    <3>2. Handed(Now, releaseFenceFd) /\ DOMAIN releaseFenceFd = Slot
      BY <3>1 DEF FreeInv, GivenInv, IInv, Places
    <3>3. \A s \in Slot \ {"outbuf"} : given'[Now][s] = releaseFenceFd[s]
      BY <2>1, <3>2
    <3>4. "fbt" \in Slot \ {"outbuf"} /\ \A l \in Layers : l \in Slot \ {"outbuf"}
      BY FencesAssumption DEF Slot
    <3>5. \A s \in Slot : ByRotator(This, s) => s \in Slot \ {"outbuf"}
      BY <3>4 DEF ByRotator
    <3> QED  BY <1>2, <3>2, <3>3, <3>4, <3>5 DEF Handed
  <2>5. \A n \in 1 .. Now : Ordinary(n)' => Handed(n, given[n])'
    BY <1>1, <2>2, <2>3, <2>4 DEF Handed
  <2> QED  BY <1>1, <2>1, <2>5 DEF GivenInv
<1>6. EventInv'
  <2>1. \A e : Begun(e)' = Begun(e)
    BY <1>1 DEF Begun
  <2> QED  BY <1>1, <2>1 DEF FreeInv, EventInv
<1>7. /\ Len(commits) \in Nat /\ commits \in Seq(Nat)
      /\ \/ commits' = commits /\ step = "close"
         \/ commits' = Append(commits, Now) /\ step = "commit" /\ Len(commits) < Depth
  BY DEF Commit, Skip, WaitInv, Lengths
<1>8. \/ commits' = commits /\ Late = 0
      \/ /\ Len(commits') = Len(commits) + 1 /\ commits'[Len(commits')] = Now
         /\ \A i \in 1 .. Len(commits) : commits'[i] = commits[i]
         /\ Len(commits) < Depth /\ Late \in {0, 1}
  <2>1. Late \in {0, 1} /\ (step = "close" => Late = 0)
    BY DEF Late
  <2> QED  BY <1>2, <1>7, <2>1
<1>9. \A i \in 1 .. Len(commits') :
        \/ i \in 1 .. Len(commits) /\ commits'[i] = commits[i]
        \/ i = Len(commits') /\ commits'[i] = Now
  BY <1>7, <1>8
<1>10. PanelInv'
  <2>1. screen # 0 => Returned(screen) /\ screen < Now
    BY <1>2, <1>3 DEF FreeInv, PanelInv
  <2>2. screen # 0 => \A i \in 1 .. Len(commits') : screen < commits'[i]
    BY <1>9, <2>1 DEF FreeInv, PanelInv
  <2>3. \A n \in Frame : Released(n) \in done =>
          n \in 1 .. Now /\ Returned(n) /\ n # screen /\ \A i \in 1 .. Len(commits') : commits'[i] # n
    BY <1>3, <1>9 DEF FreeInv, PanelInv
  <2>4. screen \in 0 .. Now
    BY DEF FreeInv, PanelInv
  <2> QED  BY <1>1, <1>3, <2>1, <2>2, <2>3, <2>4 DEF PanelInv
<1>11. RingInv'
  <2> DEFINE T(n) == Turns(kinds, n)
  <2>1. /\ renders = [n \in 1 .. Now |-> renders[n]]
        /\ \A n \in 1 .. Now : renders[n] # <<>> =>
             /\ kinds[n].ptor = "yes"
             /\ T(Now) - T(n) < NUM_RENDER_BUFFERS => renders[n][2] = Back(T(Now) - T(n))
        /\ Len(commits) <= Depth
        /\ \A i \in 1 .. Len(commits) : T(Now) <= T(commits[i]) + (Len(commits) - i) + Late
        /\ screen # 0 => T(Now) <= T(screen) + Len(commits) + Late
    BY DEF FreeInv, RingInv
  <2>2. \A n \in 0 .. Now : T(n) \in Nat
    BY TurnsFacts
  <2>3. \A i \in 1 .. Len(commits) : commits[i] \in 1 .. Now
    BY DEF WaitInv, CommitInv
  <2>4. screen \in 0 .. Now
    BY DEF FreeInv, PanelInv
  <2> HIDE DEF T
  <2>5. Len(commits') <= Depth /\ Len(commits') \in Nat /\ Depth \in Nat
    BY <1>7, <1>8, <2>1, FencesAssumption
  <2>6. \A i \in 1 .. Len(commits') : T(Now) <= T(commits'[i]) + (Len(commits') - i)
    <3> SUFFICES ASSUME NEW i \in 1 .. Len(commits')
                 PROVE  T(Now) <= T(commits'[i]) + (Len(commits') - i)
      OBVIOUS
    <3>1. CASE i \in 1 .. Len(commits) /\ commits'[i] = commits[i]
      <4>1. T(Now) <= T(commits[i]) + (Len(commits) - i) + Late
        BY <2>1, <3>1
      <4>2. T(commits[i]) \in Nat /\ T(Now) \in Nat
        BY <1>2, <2>2, <2>3, <3>1
      <4>3. Len(commits') >= Len(commits) + Late /\ Late \in {0, 1}
        BY <1>7, <1>8
      <4>4. T(commits'[i]) = T(commits[i]) /\ i \in Nat /\ Len(commits) \in Nat
        BY <1>7, <3>1
      <4> QED  BY <2>5, <4>1, <4>2, <4>3, <4>4
    <3>2. CASE i = Len(commits') /\ commits'[i] = Now
      BY <1>2, <2>2, <2>5, <3>2
    <3> QED  BY <1>9, <3>1, <3>2
  <2>7. screen # 0 => T(Now) <= T(screen) + Len(commits')
    <3>1. T(screen) \in Nat /\ T(Now) \in Nat
      BY <1>2, <2>2, <2>4
    <3>2. Len(commits') >= Len(commits) + Late /\ Late \in {0, 1}
      BY <1>7, <1>8
    <3> QED  BY <1>7, <2>1, <2>5, <3>1, <3>2
  <2>8. /\ Late' = 0 /\ \A n \in 0 .. Now : T(n)' = T(n) /\ T(n) \in Nat
        /\ \A d : Back(d)' = Back(d)
    BY <1>1, <2>2 DEF Late, Back, T
  <2>9. \A i \in 1 .. Len(commits') :
          Turns(kinds, Now) <= Turns(kinds, commits'[i]) + (Len(commits') - i) + 0
    <3> SUFFICES ASSUME NEW i \in 1 .. Len(commits')
                 PROVE  T(Now) <= T(commits'[i]) + (Len(commits') - i) + 0
      BY DEF T
    <3>1. T(commits'[i]) \in Nat /\ T(Now) <= T(commits'[i]) + (Len(commits') - i)
      <4>1. commits'[i] \in 0 .. Now
        BY <1>2, <1>9, <2>3
      <4> QED  BY <2>2, <2>6, <4>1
    <3> QED  BY <2>5, <3>1
  <2>10. screen # 0 => Turns(kinds, Now) <= Turns(kinds, screen) + Len(commits') + 0
    <3>1. T(screen) \in Nat
      BY <2>2, <2>4
    <3> QED  BY <2>5, <2>7, <3>1 DEF T
  <2> QED  BY <1>1, <2>1, <2>5, <2>8, <2>9, <2>10 DEF RingInv, T, Back
<1> QED  BY <1>5, <1>6, <1>10, <1>11 DEF FreeInv


\* The output cannot be made secure: hwc_set returns, and nothing has begun.
LEMMA SecureFrees ==
  ASSUME IInv, WaitInv, FreeInv, SecureFails
  PROVE  FreeInv'
<1>1. /\ step = "sync" /\ step' = "idle" /\ Now' = Now /\ This.dpy = "virtual"
      /\ UNCHANGED <<kinds, commits, screen, jobs, done, renders, mCurRenderBufferIndex, given>>
      /\ faulty' = faulty \cup {Now}
  BY DEF SecureFails, Faulty, Now
<1>2. Now \in 1 .. Now /\ This \in Kinds
  BY <1>1, Current
<1>3. /\ \A n : Returned(n) => Returned(n)'
      /\ \A n \in 1 .. Now : n # Now => Returned(n)
  BY <1>1, <1>2 DEF Returned
<1>4. GivenInv'
  <2>1. \A n \in 1 .. Now : Ordinary(n)' => n # Now /\ Ordinary(n)
    BY <1>1 DEF Ordinary
  <2>2. \A n \in 1 .. Now : Ordinary(n)' => Handed(n, given[n])
    BY <1>3, <2>1 DEF FreeInv, GivenInv
  <2> QED  BY <1>1, <2>2 DEF FreeInv, GivenInv, Handed
<1>5. EventInv'
  <2>1. \A e : Begun(e)' = Begun(e)
    BY <1>1 DEF Begun
  <2> QED  BY <1>1, <2>1 DEF FreeInv, EventInv
<1>6. PanelInv'
  BY <1>1, <1>3 DEF FreeInv, PanelInv
<1>7. RingInv'
  <2>1. This.ptor = "no"
    BY <1>1, <1>2, FencesAssumption DEF Kind
  <2>2. Late' = Late
    BY <1>1, <2>1 DEF Late
  <2> QED  BY <1>1, <2>2 DEF FreeInv, RingInv, Back
<1> QED  BY <1>4, <1>5, <1>6, <1>7 DEF FreeInv


\* The three invariants hold of every behaviour.
THEOREM Freeing == Spec => [](IInv /\ WaitInv /\ FreeInv)
<1>1. ASSUME IInv, WaitInv, FreeInv, [Next]_vars  PROVE FreeInv'
  <2>1. CASE NewFrame
    BY <1>1, <2>1, PrepareFrees DEF NewFrame
  <2>2. CASE HwcSet
    <3>1. ASSUME Draw  PROVE FreeInv'
      BY <1>1, <3>1, DrawFrees
    <3>2. ASSUME NEW f \in BOOLEAN, NEW r \in BOOLEAN, Sync(f, r)  PROVE FreeInv'
      BY <1>1, <3>2, SyncFrees
    <3>3. ASSUME SecureFails  PROVE FreeInv'
      BY <1>1, <3>3, SecureFrees
    <3>4. ASSUME Commit \/ Skip  PROVE FreeInv'
      BY <1>1, <3>4, CloseFrees
    <3> QED  BY <2>2, <3>1, <3>2, <3>3, <3>4 DEF HwcSet
  <2>3. CASE Produces
    BY <1>1, <2>3, ProduceFrees
  <2>4. CASE Works
    BY <1>1, <2>4, WorkFrees
  <2>5. CASE Show
    BY <1>1, <2>5, ShowFrees
  <2>6. CASE UNCHANGED vars
    BY <1>1, <2>6, StutterFrees
  <2> QED  BY <1>1, <2>1, <2>2, <2>3, <2>4, <2>5, <2>6 DEF Next
<1> QED  BY <1>1, FreeInit, Waiting, PTL DEF Spec

\* The invariant says that buffers are free.
LEMMA BlittedFirst ==
  ASSUME IInv, WaitInv, FreeInv, NEW n \in 1 .. Now, n \notin faulty, Blits(kinds[n]),
         Begun(Blitted(n)), Blitted(n) \notin done
  PROVE  n \in ToSet(commits) \/ (n = Now /\ step # "idle")
<1> SUFFICES ASSUME n < Now \/ step = "idle", n \notin ToSet(commits)  PROVE FALSE
  BY FencesAssumption DEF WaitInv, Lengths
<1>1. commits \in Seq(Nat) /\ kinds[n] \in Kinds
  BY DEF WaitInv, Lengths, IInv, Frames, Now
<1>2. \A i \in 1 .. Len(commits) : commits[i] # n
  BY <1>1 DEF ToSet
<1>3. syncs[n] \subseteq done
  BY <1>2 DEF WaitInv, CommitInv
<1>4. Awaited(n, syncs[n] \cup done)
  BY <1>1, KindFacts DEF WaitInv, SyncInv
<1> QED  BY <1>3, <1>4 DEF Awaited

LEMMA NothingReads ==
  ASSUME IInv, WaitInv, FreeInv, NEW s \in Slot \ {"outbuf"}, NEW n \in Brought(s), Free(n, s),
         n \notin faulty, kinds[n].handled, ~kinds[n].animating
  PROVE  /\ \A m \in Displayed : <<s, n>> \notin DisplayReads(m)
         /\ \A j \in jobs : <<s, n>> \notin JobReads(j)
<1> DEFINE k == kinds[n]
<1>1. n \in 1 .. Now /\ s \in Fenced(k) /\ Source(n, s) = n
  BY DEF Brought
<1>2. Now \in 0 .. MaxFrame /\ n \in Frame /\ Now \in Nat /\ MaxFrame \in Nat
  BY <1>1, FencesAssumption DEF WaitInv, Lengths, Frame
<1>3. kinds[n] \in Kinds /\ commits \in Seq(Nat)
  BY <1>1 DEF WaitInv, Lengths, IInv, Frames, Now
<1>4. Returned(n) /\ Signalled(given[n][s])
  BY <1>1, <1>2 DEF Free
<1>5. "fbt" \notin Layers /\ "outbuf" \notin Layers /\ (s = "fbt" \/ s \in Layers)
  BY FencesAssumption DEF Slot
<1>6. Synced(k)
  BY <1>1, <1>5 DEF Synced, Fenced, UsesFb
<1>7. Handed(n, given[n])
  BY <1>1, <1>4, <1>6 DEF FreeInv, GivenInv, Ordinary
<1>8. Released(n) # None /\ Blitted(n) # None /\ Rotated(n, s) # None
  BY <1>2, FencesAssumption
<1>9. Released(n) \in done => n \notin Displayed /\ ~\E j \in jobs : j.does = Blitted(n)
  <2> SUFFICES ASSUME Released(n) \in done
               PROVE  n \notin Displayed /\ ~\E j \in jobs : j.does = Blitted(n)
    OBVIOUS
  <2>1. n # screen /\ \A i \in 1 .. Len(commits) : commits[i] # n
    BY <1>2 DEF FreeInv, PanelInv
  <2>2. n \notin ToSet(commits)
    BY <1>3, <2>1 DEF ToSet
  <2>3. ASSUME NEW j \in jobs, j.does = Blitted(n)  PROVE FALSE
    <3>1. Begun(Blitted(n)) /\ Blitted(n) \notin done
      BY <2>3 DEF Begun, FreeInv, EventInv
    <3>2. Blits(k)
      BY <1>2, <3>1 DEF FreeInv, EventInv
    <3>3. n = Now /\ step # "idle"
      BY <1>1, <2>2, <3>1, <3>2, BlittedFirst
    <3> QED  BY <1>2, <1>4, <3>3 DEF Returned
  <2> QED  BY <2>1, <2>2, <2>3 DEF Displayed
<1>10. \A m \in Displayed : <<s, n>> \in DisplayReads(m) =>
         /\ m = n
         /\ (s = "fbt" /\ ~k.turned) \/ (s \in Layers /\ k.comp[s] = "overlay")
  BY <1>5 DEF DisplayReads
<1>11. \A m \in Displayed : <<s, n>> \notin DisplayReads(m)
  <2> SUFFICES ASSUME n \in Displayed,
                      (s = "fbt" /\ ~k.turned) \/ (s \in Layers /\ k.comp[s] = "overlay")
               PROVE  FALSE
    BY <1>10
  <2>1. given[n][s] = Released(n)
    BY <1>5, <1>7 DEF Handed
  <2> QED  BY <1>4, <1>8, <1>9, <2>1 DEF Signalled
<1>12. \A j \in jobs : <<s, n>> \notin JobReads(j)
  <2> SUFFICES ASSUME NEW j \in jobs, <<s, n>> \in JobReads(j)  PROVE FALSE
    OBVIOUS
  <2>1. PICK m \in 1 .. Now : Sound1(j, m)
    BY DEF WaitInv, JobInv
  <2>2. CASE \E l \in Slot : j.does = Rotated(m, l)
    <3>1. PICK l \in Slot : j.does = Rotated(m, l)
      BY <2>2
    <3>2. JobReads(j) = {<<l, m>>}
      BY <3>1 DEF JobReads, Rotated
    <3>3. s = l /\ m = n
      BY <3>2
    <3>4. j.does = Rotated(n, s) /\ Rotated(n, s) \notin done
      BY <3>1, <3>3 DEF FreeInv, EventInv
    <3>5. ByRotator(k, s)
      BY <1>2, <3>4 DEF FreeInv, EventInv, Begun
    <3>6. given[n][s] = Rotated(n, s)
      BY <1>7, <3>4, <3>5 DEF Handed
    <3> QED  BY <1>4, <1>8, <3>4, <3>6 DEF Signalled
  <2>3. CASE j.does = Blitted(m)
    <3>1. JobReads(j) = {<<l, m>> : l \in Layers}
      BY <2>3 DEF JobReads, Blitted
    <3>2. m = n /\ s \in Layers
      BY <3>1
    <3>3. Blits(k)
      BY <1>2, <2>3, <3>2 DEF FreeInv, EventInv, Begun
    <3>4. k.comp[s] \in {"overlay", "blit"}
      BY <1>3, <3>2, <3>3, KindFacts
    <3>5. given[n][s] \in {Released(n), Blitted(n)}
      BY <1>7, <3>2, <3>4 DEF Handed
    <3>6. Blitted(n) \notin done
      BY <2>3, <3>2 DEF FreeInv, EventInv
    <3> QED  BY <1>4, <1>8, <1>9, <2>3, <3>2, <3>5, <3>6 DEF Signalled
  <2> QED  BY <2>1, <2>2, <2>3 DEF Sound1
<1> QED  BY <1>11, <1>12

\* The frames displayed, and the last one, are less than a ring apart.
LEMMA RingApart ==
  ASSUME IInv, WaitInv, FreeInv, Depth + 2 <= NUM_RENDER_BUFFERS,
         NEW m \in Displayed \cup (IF step = "idle" THEN {} ELSE {Now})
  PROVE  m \in 1 .. Now /\ Turns(kinds, Now) - Turns(kinds, m) \in 0 .. NUM_RENDER_BUFFERS - 1
<1> DEFINE T(n) == Turns(kinds, n)
<1>1. Now \in Nat /\ Depth \in Nat /\ NUM_RENDER_BUFFERS \in Nat /\ MaxFrame \in Nat
  BY FencesAssumption DEF WaitInv, Lengths
<1>2. /\ commits \in Seq(Nat) /\ Len(commits) \in Nat /\ Len(commits) <= Depth /\ Late \in 0 .. 1
      /\ \A i \in 1 .. Len(commits) : commits[i] \in 1 .. Now
      /\ screen \in 0 .. Now /\ (step # "idle" => kinds # <<>>)
  BY DEF WaitInv, Lengths, CommitInv, FreeInv, RingInv, PanelInv, Late, IInv, Frames
<1>3. \A n \in 0 .. Now : T(n) \in Nat /\ T(n) <= T(Now)
  <2> SUFFICES ASSUME NEW n \in 0 .. Now  PROVE T(n) \in Nat /\ T(n) <= T(Now)
    OBVIOUS
  <2> QED  BY <1>1, TurnsFacts
<1>4. \/ \E i \in 1 .. Len(commits) : m = commits[i]
      \/ m = screen /\ screen # 0
      \/ m = Now /\ step # "idle"
  BY <1>2 DEF Displayed, ToSet
<1>5. m \in 1 .. Now
  <2>1. step # "idle" => Now \in 1 .. Now
    BY <1>2 DEF IInv, Frames, Now
  <2> QED  BY <1>1, <1>2, <1>4, <2>1
<1>6. /\ \A i \in 1 .. Len(commits) : T(Now) <= T(commits[i]) + (Len(commits) - i) + Late
      /\ screen # 0 => T(Now) <= T(screen) + Len(commits) + Late
  BY DEF FreeInv, RingInv
<1>7. T(m) \in Nat /\ T(Now) \in Nat /\ T(m) <= T(Now)
  BY <1>1, <1>3, <1>5
<1> HIDE DEF T
<1>8. T(Now) <= T(m) + Depth + 1
  <2>1. CASE \E i \in 1 .. Len(commits) : m = commits[i]
    <3>1. PICK i \in 1 .. Len(commits) : m = commits[i]
      BY <2>1
    <3>2. T(Now) <= T(m) + (Len(commits) - i) + Late
      BY <1>6, <3>1
    <3>3. i \in Nat /\ 1 <= i /\ Len(commits) \in Nat /\ Len(commits) <= Depth /\ Late \in {0, 1}
      BY <1>2
    <3> QED  BY <1>1, <1>7, <3>2, <3>3
  <2>2. CASE m = screen /\ screen # 0
    <3>1. T(Now) <= T(m) + Len(commits) + Late
      BY <1>6, <2>2
    <3>2. Len(commits) \in Nat /\ Len(commits) <= Depth /\ Late \in {0, 1}
      BY <1>2
    <3> QED  BY <1>1, <1>7, <3>1, <3>2
  <2>3. CASE m = Now
    BY <1>1, <1>7, <2>3
  <2> QED  BY <1>4, <2>1, <2>2, <2>3
<1>9. T(Now) - T(m) \in 0 .. NUM_RENDER_BUFFERS - 1
  BY <1>1, <1>7, <1>8
<1> QED  BY <1>5, <1>9 DEF T

LEMMA RingTurns ==
  ASSUME IInv, WaitInv, FreeInv, Depth + 2 <= NUM_RENDER_BUFFERS,
         NEW n \in 1 .. Now, n \notin faulty, renders[n] # <<>>,
         Begun(Blitted(n)), Blitted(n) \notin done, NEW m \in Displayed \ {n}
  PROVE  renders[m] # renders[n]
<1> SUFFICES ASSUME renders[m] = renders[n]  PROVE FALSE
  OBVIOUS
<1> DEFINE d(i) == Turns(kinds, Now) - Turns(kinds, i)
           N == NUM_RENDER_BUFFERS
           c == mCurRenderBufferIndex
<1>1. n \in Displayed \cup (IF step = "idle" THEN {} ELSE {Now})
  <2>1. n \in Frame
    BY FencesAssumption DEF WaitInv, Lengths, Frame
  <2>2. Blits(kinds[n])
    BY <2>1 DEF FreeInv, EventInv
  <2> QED  BY <2>2, BlittedFirst DEF Displayed
<1>2. m \in 1 .. Now /\ d(m) \in 0 .. N - 1 /\ d(n) \in 0 .. N - 1
  BY <1>1, RingApart
<1>3. /\ kinds[n].ptor = "yes" /\ kinds[m].ptor = "yes"
      /\ renders[n][2] = Back(d(n)) /\ renders[m][2] = Back(d(m))
  <2>1. N \in Nat
    BY FencesAssumption
  <2>2. d(n) < N /\ d(m) < N
    BY <1>2, <2>1
  <2> QED  BY <1>2, <2>2 DEF FreeInv, RingInv
<1>4. d(n) # d(m)
  <2>1. Turns(kinds, n) # Turns(kinds, m) /\ Turns(kinds, n) \in Nat /\ Turns(kinds, m) \in Nat
    <3>1. n \in Nat /\ m \in Nat /\ n \in 1 .. n /\ m \in 1 .. m /\ n # m
      BY <1>2
    <3>2. Turns(kinds, n) \in Nat /\ Turns(kinds, m) \in Nat
      BY <3>1, TurnsFacts
    <3>3. CASE m < n
      <4>1. m \in 0 .. n - 1
        BY <3>1, <3>3
      <4>2. Turns(kinds, m) < Turns(kinds, n)
        BY <1>3, <3>1, <4>1, TurnsGrow
      <4> QED  BY <3>2, <4>2
    <3>4. CASE n < m
      <4>1. n \in 0 .. m - 1
        BY <3>1, <3>4
      <4>2. Turns(kinds, n) < Turns(kinds, m)
        BY <1>3, <3>1, <4>1, TurnsGrow
      <4> QED  BY <3>2, <4>2
    <3> QED  BY <3>1, <3>3, <3>4
  <2>2. Turns(kinds, Now) \in Nat
    BY <1>2, TurnsFacts, FencesAssumption DEF WaitInv, Lengths
  <2> QED  BY <2>1, <2>2
<1>5. c \in 0 .. N - 1 /\ N \in Nat
  BY FencesAssumption DEF IInv, Places
<1> HIDE DEF d
<1>6. Back(d(n)) # Back(d(m))
  BY <1>2, <1>4, <1>5 DEF Back
<1> QED  BY <1>3, <1>6

\* hwc_sync: once the fences handed back for a buffer have signalled, nothing
\* reads it any more; and a ring with two buffers more than the frames that
\* the driver holds back lets the blitter draw into none that is displayed.
THEOREM Frees ==
  ASSUME Depth + 2 <= NUM_RENDER_BUFFERS
  PROVE  Spec => []BuffersFree
<1>1. ASSUME IInv, WaitInv, FreeInv  PROVE BuffersFree
  <2>1. ASSUME NEW s \in Slot \ {"outbuf"}, NEW n \in Brought(s), Free(n, s),
               \A m \in n .. Now : Source(m, s) = n =>
                 m \notin faulty /\ kinds[m].handled /\ ~kinds[m].animating
        PROVE  /\ \A m \in Displayed : <<s, n>> \notin DisplayReads(m)
               /\ \A j \in jobs : <<s, n>> \notin JobReads(j)
    <3>1. n \in n .. Now /\ Source(n, s) = n
      BY DEF Brought
    <3> QED  BY <1>1, <2>1, <3>1, NothingReads
  <2>2. ASSUME NEW j \in jobs, j.does[1] = "blitted", j.does[2] \notin faulty,
               renders[j.does[2]] # <<>>, NEW m \in Displayed \ {j.does[2]}
        PROVE  renders[m] # renders[j.does[2]]
    <3>1. PICK n \in 1 .. Now : Sound1(j, n)
      BY <1>1 DEF WaitInv, JobInv
    <3>2. j.does = Blitted(n) /\ j.does[2] = n
      BY <2>2, <3>1 DEF Sound1, Rotated, Blitted
    <3>3. Begun(Blitted(n)) /\ Blitted(n) \notin done
      BY <1>1, <3>2 DEF Begun, FreeInv, EventInv
    <3> QED  BY <1>1, <2>2, <3>2, <3>3, RingTurns
  <2> QED  BY <2>1, <2>2 DEF BuffersFree
<1> QED  BY <1>1, Freeing, PTL
=============================================================================
