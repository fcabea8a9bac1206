---------------------------- MODULE RotMgr_proofs ----------------------------
(***************************************************************************)
(* Proofs about RotMgr, for any number of displays and sessions and any    *)
(* lists of layers, if orientations change between rounds only (Orderly):  *)
(* the sessions a display returns are its own, and what it draws with is   *)
(* what the manager keeps and the fences reach.                            *)
(***************************************************************************)
EXTENDS RotMgr, SequenceTheorems, FiniteSetTheorems, TLAPS

\* What Append does to one of several sequences of sessions.
LEMMA Appended ==
  ASSUME NEW f \in [Dpy -> Seq(Session)], NEW d \in Dpy, NEW s \in Session,
         NEW g, g = [f EXCEPT ![d] = Append(f[d], s)]
  PROVE  /\ g \in [Dpy -> Seq(Session)]
         /\ \A e \in Dpy : e # d => g[e] = f[e]
         /\ Len(f[d]) \in Nat
         /\ DOMAIN f[d] = 1 .. Len(f[d])
         /\ Len(g[d]) = Len(f[d]) + 1
         /\ DOMAIN g[d] = 1 .. Len(f[d]) + 1
         /\ \A k \in 1 .. Len(f[d]) : g[d][k] = f[d][k]
         /\ g[d][Len(f[d]) + 1] = s
<1>1. f[d] \in Seq(Session) /\ g[d] = Append(f[d], s)
  OBVIOUS
<1>2. /\ g[d] \in Seq(Session) /\ Len(g[d]) = Len(f[d]) + 1
      /\ \A k \in 1 .. Len(f[d]) : g[d][k] = f[d][k]
      /\ g[d][Len(f[d]) + 1] = s
  BY <1>1, AppendProperties
<1>3. Len(f[d]) \in Nat /\ DOMAIN f[d] = 1 .. Len(f[d]) /\ DOMAIN g[d] = 1 .. Len(g[d])
  BY <1>1, <1>2, LenProperties
<1> QED
  BY <1>2, <1>3

LEMMA SmallMod ==
  ASSUME NEW m \in Nat, NEW a \in 0 .. m - 1 PROVE a % m = a
  OBVIOUS

-----------------------------------------------------------------------------
(* The three operations on the stack of sessions.                            *)

\* A session that getNext hands out comes on top of the stack.
LEMMA GetNextKeeps ==
  ASSUME TypeOK, Stacked, OnTop, Shared,
         NEW d \in Dpy, NEW layer \in Nat, NEW r \in Rots, GetNext(d, layer, r),
         phase = "config", phase' = "config", turn = d, turn' = d
  PROVE  /\ mLayerRotMap' = [mLayerRotMap EXCEPT ![d] =
                               Append(mLayerRotMap[d], [layer |-> layer, rot |-> r])]
         /\ mRot' \in [Slots -> Rots \cup {NULL}]
         /\ mUseCount' \in 0 .. UINT - 1
         /\ mLayerRotMap' \in [Dpy -> Seq(Session)]
         /\ Stacked' /\ OnTop' /\ Shared'
<1> DEFINE s == [layer |-> layer, rot |-> r]
           n == Len(mLayerRotMap[d])
<1>1. /\ MAX_ROT_SESS \in Nat /\ UINT \in Nat /\ UINT > MAX_ROT_SESS
      /\ NULL \notin Rots
  BY RotMgrAssumption
<1>2. /\ mUseCount \in Slots /\ mUseCount \in Nat
      /\ s \in Session /\ mLayerRotMap[d] \in Seq(Session)
  <2>1. mUseCount \in Nat
    BY <1>1 DEF TypeOK
  <2>2. mUseCount \in Slots
    BY <1>1, <2>1 DEF GetNext, Slots
  <2> QED BY <2>1, <2>2 DEF TypeOK, Session
<1>3. n \in Nat /\ n <= mUseCount /\ Bottom = mUseCount - n /\ Bottom >= 0
  BY <1>2, LenProperties DEF OnTop, Bottom
<1>4. mLayerRotMap' = [mLayerRotMap EXCEPT ![d] = Append(mLayerRotMap[d], s)]
  BY <1>1, <1>2, <1>3 DEF GetNext
<1>5. /\ mLayerRotMap' \in [Dpy -> Seq(Session)]
      /\ \A e \in Dpy : e # d => mLayerRotMap'[e] = mLayerRotMap[e]
      /\ DOMAIN mLayerRotMap[d] = 1 .. n
      /\ Len(mLayerRotMap'[d]) = n + 1 /\ DOMAIN mLayerRotMap'[d] = 1 .. n + 1
      /\ \A k \in 1 .. n : mLayerRotMap'[d][k] = mLayerRotMap[d][k]
      /\ mLayerRotMap'[d][n + 1] = s
  <2> HIDE DEF s
  <2> QED BY <1>2, <1>4, Appended DEF TypeOK
<1>6. /\ mUseCount' = mUseCount + 1
      /\ mRot' = [mRot EXCEPT ![mUseCount] = r]
      /\ mRot' \in [Slots -> Rots \cup {NULL}]
      /\ \A i \in Slots : i # mUseCount => mRot'[i] = mRot[i] /\ mRot[i] # r
      /\ mRot'[mUseCount] = r
  BY <1>1, <1>2 DEF GetNext, TypeOK, Stacked, Live
<1>7. Bottom' = Bottom
  BY <1>2, <1>3, <1>5, <1>6 DEF Bottom
<1>8. Stacked'
  BY <1>1, <1>2, <1>6 DEF Stacked, TypeOK, Slots
<1>9. OnTop'
  <2>1. ASSUME NEW k \in 1 .. n
        PROVE  mLayerRotMap'[d][k].rot = mRot'[Bottom + k - 1]
    <3>1. mLayerRotMap'[d][k].rot = mRot[Bottom + k - 1]
      BY <1>5 DEF OnTop
    <3>2. Bottom + k - 1 \in 0 .. mUseCount - 1
      <4> HIDE DEF n
      <4> QED BY <1>2, <1>3
    <3>3. Bottom + k - 1 \in Slots /\ Bottom + k - 1 # mUseCount
      BY <1>1, <1>2, <3>2 DEF Slots
    <3> QED BY <3>1, <3>3, <1>6
  <2>2. mLayerRotMap'[d][n + 1].rot = mRot'[Bottom + (n + 1) - 1]
    BY <1>2, <1>3, <1>5, <1>6
  <2> QED BY <2>1, <2>2, <1>3, <1>5, <1>7 DEF OnTop
<1>10. Shared'
  <2>1. \A e \in Dpy : e > d => mLayerRotMap'[e] = mLayerRotMap[e]
    BY <1>5 DEF Dpy
  <2>2. \A i \in 0 .. Bottom - 1 : mRot'[i] = mRot[i]
    BY <1>1, <1>2, <1>3, <1>6 DEF Slots
  <2> QED BY <2>1, <2>2, <1>7 DEF Shared
<1> QED
  BY <1>1, <1>2, <1>4, <1>5, <1>6, <1>8, <1>9, <1>10 DEF Slots

\* What a display returns is the top of the stack, its own sessions.
LEMMA ClearMapKeeps ==
  ASSUME TypeOK, Stacked, OnTop, Shared, Agreed, NEW d \in Dpy, ClearMap(d),
         phase = "config", phase' = "config", turn = d, turn' \in {d, d - 1}
  PROVE  /\ mUseCount' \in 0 .. UINT - 1
         /\ mLayerRotMap' \in [Dpy -> Seq(Session)]
         /\ mLayerRotMap'[d] = <<>>
         /\ \A e \in Dpy : e # d => mLayerRotMap'[e] = mLayerRotMap[e]
         /\ mRot' = mRot
         /\ Stacked' /\ OnTop' /\ Shared'
<1> DEFINE n == Len(mLayerRotMap[d])
<1>1. MAX_ROT_SESS \in Nat /\ UINT \in Nat /\ UINT > MAX_ROT_SESS
  BY RotMgrAssumption
<1>2. d \in Nat /\ mLayerRotMap[d] \in Seq(Session) /\ mUseCount \in Nat
  <2>1. mUseCount \in Nat
    BY <1>1 DEF TypeOK
  <2> QED BY <2>1 DEF TypeOK, Dpy
<1>3. n \in Nat /\ n <= mUseCount /\ Bottom = mUseCount - n
  BY <1>2, LenProperties DEF OnTop, Bottom
<1>4. mUseCount' = mUseCount - n /\ mUseCount' \in 0 .. MAX_ROT_SESS
  <2>1. mUseCount - n \in 0 .. MAX_ROT_SESS /\ mUseCount - n \in 0 .. UINT - 1
    <3> HIDE DEF n
    <3> QED BY <1>1, <1>2, <1>3 DEF Stacked
  <2>2. mUseCount' = (mUseCount - n) % UINT
    BY DEF ClearMap
  <2> HIDE DEF n
  <2> QED BY <1>1, <2>1, <2>2, SmallMod
<1>5. /\ mLayerRotMap' \in [Dpy -> Seq(Session)]
      /\ mLayerRotMap'[d] = <<>>
      /\ \A e \in Dpy : e # d => mLayerRotMap'[e] = mLayerRotMap[e]
      /\ mRot' = mRot
  BY EmptySeq DEF ClearMap, TypeOK
<1>6. \A e \in Dpy : e <= turn' => mLayerRotMap'[e] = <<>>
  BY <1>2, <1>5 DEF Agreed, Dpy
<1>7. Bottom' = Bottom
  <2>1. turn' \in Dpy => Len(mLayerRotMap'[turn']) = 0
    BY <1>2, <1>6, EmptySeq DEF Dpy
  <2>2. mUseCount' \in Int
    BY <1>4
  <2>3. Bottom' = mUseCount'
    BY <2>1, <2>2 DEF Bottom
  <2> QED BY <2>3, <1>3, <1>4
<1>8. Stacked'
  <2>1. mUseCount' <= mUseCount
    <3> HIDE DEF n
    <3> QED BY <1>2, <1>3, <1>4
  <2> QED BY <1>1, <1>2, <1>4, <1>5, <2>1 DEF Stacked, Slots
<1>9. OnTop'
  <2>1. turn' \in Dpy => DOMAIN mLayerRotMap'[turn'] = {}
    BY <1>2, <1>6 DEF Dpy
  <2> QED BY <2>1, <1>2, <1>3, <1>7 DEF OnTop
<1>10. Shared'
  <2>1. \A e \in Dpy : e > turn' => (e > d /\ mLayerRotMap'[e] = mLayerRotMap[e])
                                    \/ DOMAIN mLayerRotMap'[e] = {}
    BY <1>2, <1>5 DEF Dpy
  <2>2. \A e \in Dpy : e > d => e > turn' /\ mLayerRotMap'[e] = mLayerRotMap[e]
    BY <1>2, <1>5 DEF Dpy
  <2>3. \A e \in Dpy : e > turn' => \A k \in DOMAIN mLayerRotMap'[e] :
          e > d /\ k \in DOMAIN mLayerRotMap[e] /\ mLayerRotMap'[e] = mLayerRotMap[e]
    BY <2>1
  <2>4. ASSUME NEW e \in Dpy, e > turn', NEW k \in DOMAIN mLayerRotMap'[e]
        PROVE  \E i \in 0 .. Bottom' - 1 : mLayerRotMap'[e][k].rot = mRot'[i]
    BY <2>3, <2>4, <1>5, <1>7 DEF Shared
  <2>5. ASSUME NEW i \in 0 .. Bottom' - 1
        PROVE  \E e \in Dpy : e > turn' /\
                 \E k \in DOMAIN mLayerRotMap'[e] : mLayerRotMap'[e][k].rot = mRot'[i]
    BY <2>2, <1>5, <1>7 DEF Shared
  <2>6. ASSUME NEW e \in Dpy, NEW f \in Dpy, e > turn', f > turn',
               NEW k \in DOMAIN mLayerRotMap'[e], NEW l \in DOMAIN mLayerRotMap'[f],
               mLayerRotMap'[e][k].rot = mLayerRotMap'[f][l].rot
        PROVE  e = f /\ k = l
    BY <2>3, <2>6 DEF Shared
  <2> QED BY <2>4, <2>5, <2>6 DEF Shared
<1> QED
  BY <1>1, <1>4, <1>5, <1>8, <1>9, <1>10

\* A display that is done adds its sessions to those below.
LEMMA TurnKeeps ==
  ASSUME TypeOK, Stacked, OnTop, Shared, Agreed, NEW d \in Dpy, UNCHANGED manager,
         phase = "config", phase' = "config", turn = d, turn' = d - 1
  PROVE  Stacked' /\ OnTop' /\ Shared'
<1> DEFINE n == Len(mLayerRotMap[d])
<1>1. MAX_ROT_SESS \in Nat /\ UINT \in Nat /\ UINT > MAX_ROT_SESS
  BY RotMgrAssumption
<1>2. d \in Nat /\ mLayerRotMap[d] \in Seq(Session) /\ mUseCount \in Nat
  <2>1. mUseCount \in Nat
    BY <1>1 DEF TypeOK
  <2> QED BY <2>1 DEF TypeOK, Dpy
<1>3. /\ n \in Nat /\ n <= mUseCount /\ Bottom = mUseCount - n
      /\ DOMAIN mLayerRotMap[d] = 1 .. n
  BY <1>2, LenProperties DEF OnTop, Bottom
<1>4. mUseCount' = mUseCount /\ mRot' = mRot /\ mLayerRotMap' = mLayerRotMap
  BY DEF manager
<1>5. \A e \in Dpy : e <= turn' => mLayerRotMap'[e] = <<>>
  BY <1>2, <1>4 DEF Agreed, Dpy
<1>6. Bottom' = mUseCount
  <2>1. turn' \in Dpy => Len(mLayerRotMap'[turn']) = 0
    BY <1>2, <1>5, EmptySeq DEF Dpy
  <2> QED BY <2>1, <1>2, <1>4 DEF Bottom
<1>7. Stacked'
  BY <1>4 DEF Stacked
<1>8. OnTop'
  <2>1. turn' \in Dpy => DOMAIN mLayerRotMap'[turn'] = {}
    BY <1>2, <1>5 DEF Dpy
  <2> QED BY <2>1, <1>2, <1>6 DEF OnTop
<1>9. \A e \in Dpy : e > turn' <=> e > d \/ e = d
  BY <1>2 DEF Dpy
\* The sessions of d are in the slots from Bottom upwards.
<1>10. \A k \in 1 .. n : /\ mLayerRotMap[d][k].rot = mRot[Bottom + k - 1]
                         /\ Bottom + k - 1 \in Bottom .. mUseCount - 1
  <2>1. \A k \in 1 .. n : Bottom + k - 1 \in Bottom .. mUseCount - 1
    <3> HIDE DEF n
    <3> QED BY <1>2, <1>3
  <2> QED BY <2>1, <1>3 DEF OnTop
<1>11. \A i, j \in 0 .. mUseCount - 1 : mRot[i] = mRot[j] => i = j
  <2>1. \A i \in 0 .. mUseCount - 1 : i \in Slots /\ i < mUseCount
    BY <1>1, <1>2 DEF Stacked, Slots
  <2> QED BY <2>1 DEF Stacked
<1>12. Shared'
  <2> USE <1>2, <1>3, <1>4, <1>6, <1>9
  <2> HIDE DEF n
  <2>1. ASSUME NEW e \in Dpy, e > turn', NEW k \in DOMAIN mLayerRotMap[e]
        PROVE  \E i \in 0 .. mUseCount - 1 : mLayerRotMap[e][k].rot = mRot[i]
    <3>1. CASE e > d
      <4>1. PICK i \in 0 .. Bottom - 1 : mLayerRotMap[e][k].rot = mRot[i]
        BY <3>1 DEF Shared
      <4>2. i \in 0 .. mUseCount - 1
        BY <4>1
      <4> QED BY <4>1, <4>2
    <3>2. CASE e = d
      <4>1. Bottom + k - 1 \in 0 .. mUseCount - 1
        BY <3>2
      <4> QED BY <4>1, <3>2, <1>10
    <3> QED BY <2>1, <3>1, <3>2
  <2>2. ASSUME NEW i \in 0 .. mUseCount - 1
        PROVE  \E e \in Dpy : e > turn' /\
                 \E k \in DOMAIN mLayerRotMap[e] : mLayerRotMap[e][k].rot = mRot[i]
    <3>1. CASE i < Bottom
      BY <3>1 DEF Shared
    <3>2. CASE i >= Bottom
      <4>1. i - Bottom + 1 \in 1 .. n /\ Bottom + (i - Bottom + 1) - 1 = i
        BY <3>2
      <4> QED BY <4>1, <1>10
    <3> QED BY <3>1, <3>2
  <2>3. ASSUME NEW e \in Dpy, e > d, NEW k \in DOMAIN mLayerRotMap[e],
               NEW l \in DOMAIN mLayerRotMap[d]
        PROVE  mLayerRotMap[e][k].rot # mLayerRotMap[d][l].rot
    <3>1. PICK i \in 0 .. Bottom - 1 : mLayerRotMap[e][k].rot = mRot[i]
      BY <2>3 DEF Shared
    <3>2. /\ mLayerRotMap[d][l].rot = mRot[Bottom + l - 1]
          /\ Bottom + l - 1 \in Bottom .. mUseCount - 1
      BY <1>10
    <3>3. /\ i \in 0 .. mUseCount - 1 /\ Bottom + l - 1 \in 0 .. mUseCount - 1
          /\ i # Bottom + l - 1
      BY <3>1, <3>2
    <3> QED BY <3>1, <3>2, <3>3, <1>11
  <2>4. ASSUME NEW k \in DOMAIN mLayerRotMap[d], NEW l \in DOMAIN mLayerRotMap[d],
               mLayerRotMap[d][k].rot = mLayerRotMap[d][l].rot
        PROVE  k = l
    <3>0. Bottom + k - 1 \in 0 .. mUseCount - 1 /\ Bottom + l - 1 \in 0 .. mUseCount - 1
      OBVIOUS
    <3>1. Bottom + k - 1 = Bottom + l - 1
      BY <3>0, <2>4, <1>10, <1>11
    <3> QED BY <3>1
  <2>5. ASSUME NEW e \in Dpy, NEW f \in Dpy, e > turn', f > turn',
               NEW k \in DOMAIN mLayerRotMap[e], NEW l \in DOMAIN mLayerRotMap[f],
               mLayerRotMap[e][k].rot = mLayerRotMap[f][l].rot
        PROVE  e = f /\ k = l
    <3>1. CASE e > d /\ f > d
      BY <3>1, <2>5 DEF Shared
    <3>2. CASE e = d \/ f = d
      BY <3>2, <2>3, <2>4, <2>5
    <3> QED BY <2>5, <3>1, <3>2
  <2>6. \A e \in Dpy : e > turn' =>
          \A k \in DOMAIN mLayerRotMap'[e] :
            \E i \in 0 .. Bottom' - 1 : mLayerRotMap'[e][k].rot = mRot'[i]
    BY <2>1, <1>4, <1>6
  <2>7. \A i \in 0 .. Bottom' - 1 : \E e \in Dpy : e > turn' /\
          \E k \in DOMAIN mLayerRotMap'[e] : mLayerRotMap'[e][k].rot = mRot'[i]
    BY <2>2, <1>4, <1>6
  <2>8. \A e, f \in Dpy : e > turn' /\ f > turn' =>
          \A k \in DOMAIN mLayerRotMap'[e], l \in DOMAIN mLayerRotMap'[f] :
            mLayerRotMap'[e][k].rot = mLayerRotMap'[f][l].rot => e = f /\ k = l
    BY <2>5, <1>4
  <2> HIDE <1>2, <1>3, <1>4, <1>6, <1>9
  <2> QED BY <2>6, <2>7, <2>8 DEF Shared
<1> QED
  BY <1>7, <1>8, <1>12

-----------------------------------------------------------------------------
(* The inductive invariant, one lemma per action.                            *)

LEMMA InitInv == Init => IInv
<1> SUFFICES ASSUME Init PROVE IInv
  OBVIOUS
<1>1. /\ MAX_ROT_SESS \in Nat \ {0} /\ UINT \in Nat /\ UINT > MAX_ROT_SESS
      /\ NumDpys \in Nat \ {0} /\ <<>> \in Seq(Session)
  BY RotMgrAssumption, EmptySeq
<1>2. TypeOK
  BY <1>1 DEF Init, TypeOK, FBOff, NothingToDo
<1> QED
  BY <1>1, <1>2 DEF Init, IInv, Stacked, OnTop, Shared, Agreed, Underway,
     DmaKept, LineModeIdle, Live, Slots, Dpy

\* The first display of a round finds an empty stack: rotators of the last
\* round may still be in it, but in block mode only.
LEMMA BeginInv == Orderly /\ IInv /\ Begin => IInv'
<1> SUFFICES ASSUME Orderly, IInv, Begin PROVE IInv'
  OBVIOUS
<1>1. /\ MAX_ROT_SESS \in Nat \ {0} /\ UINT \in Nat /\ UINT > MAX_ROT_SESS
      /\ NumDpys \in Nat \ {0} /\ <<>> \in Seq(Session)
  BY RotMgrAssumption, EmptySeq
<1>2. /\ mRot' = mRot /\ mUseCount' = 0 /\ turn' = NumDpys - 1 /\ phase' = "config"
      /\ turn' \in Dpy /\ \A d \in Dpy : d <= turn'
      /\ \A d \in Dpy : mLayerRotMap'[d] = <<>> /\ mdpToLayer'[d] = <<>>
                        /\ mFBUpdate'[d] = FBOff
      /\ mModeOn' = {} /\ attempt' = "ready" /\ todo' = NothingToDo /\ usesDma' = {}
  BY <1>1 DEF Begin, Dpy
<1>3. TypeOK'
  <2>1. sDMAMode' \in {"LINE", "BLOCK"} /\ isDMAStateChanging' \subseteq Dpy
    BY DEF Begin, IInv, TypeOK, NextMode, DmaWaits
  <2> QED BY <1>1, <1>2, <2>1 DEF Begin, IInv, TypeOK, FBOff, NothingToDo
<1>4. Stacked'
  BY <1>1, <1>2 DEF IInv, Stacked, Slots
<1>5. OnTop' /\ Shared' /\ Agreed'
  <2>0. Len(mLayerRotMap'[turn']) = 0
    BY <1>2, EmptySeq
  <2>1. Bottom' = 0
    <3>1. turn' \in Dpy /\ mUseCount' = 0 /\ mUseCount' - 0 = 0
      BY <1>2
    <3> QED BY <3>1, <2>0 DEF Bottom
  <2>2. OnTop'
    BY <1>2, <2>1 DEF OnTop
  <2>3. \A d \in Dpy : ~(d > turn')
    BY <1>1, <1>2 DEF Dpy
  <2>4. Shared'
    BY <2>1, <2>3 DEF Shared
  <2>5. Agreed'
    BY <1>2, <2>3 DEF Agreed
  <2> QED BY <2>2, <2>4, <2>5
<1>6. Underway'
  <2>1. /\ mLayerRotMap'[turn'] = <<>> /\ mdpToLayer'[turn'] = <<>>
        /\ mFBUpdate'[turn'] = FBOff /\ FBOff.mRot = NULL
        /\ ~todo'.fb /\ todo'.layers = {}
    BY <1>2 DEF FBOff, NothingToDo
  <2> QED BY <1>2, <2>1 DEF Underway
<1>7. DmaKept'
  <2>1. isDMAStateChanging' = (DmaWaits(lists))'
    BY DEF Begin, DmaWaits, AsksForDma, Rotates
  <2>2. (\E d \in Dpy : AsksForDma(d, lists))' => sDMAMode' = "BLOCK"
    BY DEF Begin, NextMode, AsksForDma, Rotates
  <2> QED BY <1>2, <2>1, <2>2 DEF DmaKept
<1>8. LineModeIdle'
  <2>1. sDMAMode' = "LINE" => sDMAMode = "LINE" \/ mUseCount = 0
    BY DEF Begin, NextMode
  <2>2. mUseCount = 0 => Live = {}
    BY DEF IInv, Stacked, Begin, Live, Slots
  <2> QED BY <1>2, <2>1, <2>2 DEF IInv, LineModeIdle, Live
<1> QED
  BY <1>3, <1>4, <1>5, <1>6, <1>7, <1>8 DEF IInv

\* What stays when an action of display d touches d only.
LEMMA StackStays ==
  ASSUME Stacked, OnTop, Shared, UNCHANGED <<manager, turn, phase>>
  PROVE  Stacked' /\ OnTop' /\ Shared'
  BY DEF Stacked, OnTop, Shared, Bottom, manager

Others(d) ==
  \A e \in Dpy : e # d => /\ mLayerRotMap'[e] = mLayerRotMap[e]
                          /\ mdpToLayer'[e] = mdpToLayer[e]
                          /\ mFBUpdate'[e] = mFBUpdate[e]

LEMMA DrawsStay ==
  ASSUME NEW d \in Dpy, Others(d), NEW e \in Dpy, e # d, e \in mModeOn' <=> e \in mModeOn
  PROVE  Draws(e)' = Draws(e) /\ Mapped(e)' = Mapped(e)
  BY DEF Others, Draws, Mapped, FBSession

LEMMA AgreedStays ==
  ASSUME Agreed, NEW d \in Dpy, turn = d, turn' = d, phase = "config",
         mModeOn' = mModeOn, Others(d)
  PROVE  Agreed'
<1>1. d \in Nat /\ \A e \in Dpy : e \in Nat
  BY DEF Dpy
<1>2. \A e \in Dpy : e # d => Draws(e)' = Draws(e) /\ Mapped(e)' = Mapped(e)
  BY DrawsStay
<1> QED
  BY <1>1, <1>2 DEF Agreed, Others

LEMMA AgreedNext ==
  ASSUME Agreed, NEW d \in Dpy, turn = d, turn' = d - 1, phase = "config",
         mModeOn' \subseteq mModeOn \cup {d}, mModeOn \subseteq mModeOn', Others(d),
         Draws(d)' = Mapped(d)'
  PROVE  Agreed'
<1>1. d \in Nat /\ \A e \in Dpy : e \in Nat
  BY DEF Dpy
<1>2. \A e \in Dpy : e # d => Draws(e)' = Draws(e) /\ Mapped(e)' = Mapped(e)
  BY DrawsStay
<1>3. \A e \in Dpy : e > turn' <=> e > d \/ e = d
  BY <1>1
<1>4. \A e \in Dpy : e <= turn' => e < d /\ e # d
  BY <1>1
<1>5. \A e \in Dpy : e < turn' => e < d
  BY <1>1
<1> QED
  BY <1>1, <1>2, <1>3, <1>4, <1>5 DEF Agreed, Others

\* The next display has nothing yet.
LEMMA UnderwayNext ==
  ASSUME TypeOK, Agreed, NEW d \in Dpy, turn = d, phase = "config", Others(d), NextDisplay
  PROVE  Underway'
<1>1. d \in Nat /\ turn' = d - 1 /\ \A e \in Dpy : e \in Nat
  BY DEF Dpy, NextDisplay
<1>2. turn' \in Dpy => turn' < d /\ turn' # d
  BY <1>1
<1>3. turn' \in Dpy => /\ mLayerRotMap'[turn'] = <<>> /\ mdpToLayer'[turn'] = <<>>
                       /\ mFBUpdate'[turn'] = FBOff
  BY <1>2 DEF Agreed, Others
<1>4. attempt' = "ready" /\ ~todo'.fb /\ todo'.layers = {} /\ FBOff.mRot = NULL
  BY DEF NextDisplay, NothingToDo, FBOff
<1> QED
  BY <1>3, <1>4 DEF Underway

LEMMA DmaStays ==
  ASSUME DmaKept, phase = "config", UNCHANGED <<dma, mExtOrientation, lists, phase>>,
         sDMAMode = "BLOCK" => usesDma' = usesDma,
         \A d \in Dpy : mdpToLayer'[d] = mdpToLayer[d] \/ mdpToLayer'[d] = <<>>
  PROVE  DmaKept'
<1>1. /\ (DmaWaits(lists))' = DmaWaits(lists)
      /\ \A d \in Dpy : /\ AsksForDma(d, lists)' = AsksForDma(d, lists)
                        /\ Rotates(d, lists)' = Rotates(d, lists)
  BY DEF DmaWaits, AsksForDma, Rotates, dma
<1> QED
  BY <1>1 DEF DmaKept, dma

LEMMA SkipInv == ASSUME IInv, NEW d \in Dpy, Skip(d) PROVE IInv'
<1>1. /\ phase = "config" /\ phase' = "config" /\ turn = d /\ turn' = d - 1
      /\ d \in Nat /\ d - 1 \in -1 .. NumDpys - 1
      /\ UNCHANGED manager /\ Others(d)
      /\ TypeOK /\ Agreed /\ Underway /\ DmaKept
  BY RotMgrAssumption DEF Skip, Turning, NextDisplay, Others, IInv, Dpy, manager
<1>2. Draws(d)' = Mapped(d)'
  <2>1. /\ mLayerRotMap'[d] = <<>> /\ mdpToLayer'[d] = <<>> /\ mFBUpdate'[d] = FBOff
        /\ d \notin mModeOn'
    BY <1>1 DEF Skip, Underway, Agreed, manager
  <2> QED BY <2>1 DEF Draws, Mapped, FBSession, FBOff
<1>3. TypeOK'
  BY <1>1 DEF TypeOK, Skip, NextDisplay, NothingToDo, manager, dma
<1>4. Stacked' /\ OnTop' /\ Shared'
  BY <1>1, TurnKeeps DEF IInv
<1>5. Agreed'
  BY <1>1, <1>2, AgreedNext DEF Skip
<1>6. Underway'
  BY <1>1, UnderwayNext DEF Skip
<1>7. DmaKept'
  BY <1>1, DmaStays DEF Skip
<1>8. LineModeIdle'
  BY DEF Skip, IInv, LineModeIdle, Live, manager, dma
<1> QED
  BY <1>3, <1>4, <1>5, <1>6, <1>7, <1>8 DEF IInv

LEMMA BeginStrategyInv ==
  ASSUME IInv, NEW d \in Dpy, BeginStrategy(d) PROVE IInv'
<1>1. /\ phase = "config" /\ phase' = "config" /\ turn = d /\ turn' = d
      /\ UNCHANGED <<manager, mdpToLayer, mFBUpdate, lists, isDMAStateChanging>>
      /\ Others(d) /\ TypeOK /\ Agreed /\ Underway /\ DmaKept
  BY DEF BeginStrategy, Prepares, Turning, Others, IInv, manager, dma
<1>2. PICK mdp \in (SUBSET DOMAIN lists[d]) \ {{}}, fb \in BOOLEAN :
        todo' = [fb |-> fb, layers |-> ToRotate(d, mdp)]
  BY DEF BeginStrategy
<1>3. lists[d] # NULL /\ lists[d] \in Seq(Need) /\ DOMAIN lists[d] \subseteq Nat
  <2>1. lists[d] \in Lists
    BY <1>1 DEF TypeOK, BeginStrategy, Prepares
  <2>2. lists[d] \in Seq(Need)
    BY <2>1, RotMgrAssumption
  <2> QED BY <2>2, LenProperties DEF BeginStrategy, Prepares
<1>4. TypeOK'
  <2>1. todo' \in [fb : BOOLEAN, layers : SUBSET Nat]
    BY <1>2, <1>3 DEF ToRotate
  <2> QED BY <2>1, <1>1 DEF TypeOK, BeginStrategy, manager, dma
<1>5. Stacked' /\ OnTop' /\ Shared'
  BY <1>1, StackStays DEF IInv
<1>6. Agreed'
  BY <1>1, AgreedStays DEF BeginStrategy
<1>7. Underway'
  <2>1. /\ mLayerRotMap[d] = <<>> /\ mdpToLayer[d] = <<>> /\ attempt' = "mdp"
        /\ ~PreRotates(d) => mFBUpdate[d].mRot = NULL
    BY <1>1 DEF Underway, BeginStrategy, Prepares
  <2>2. ~todo'.fb => mFBUpdate[d].on = FALSE
    BY <1>2 DEF BeginStrategy, ToRotate
  <2>3. todo'.layers # {} => Rotates(d, lists) /\ d \notin isDMAStateChanging
    BY <1>2, <1>3 DEF ToRotate, Rotates, BeginStrategy
  <2>4. ~todo'.fb => Mapped(d) = Planned(d)
    BY <2>1, <2>2 DEF Mapped, Planned, FBSession
  <2>5. PreRotates(d)' = PreRotates(d) /\ Rotates(d, lists)' = Rotates(d, lists)
        /\ Mapped(d)' = Mapped(d) /\ Planned(d)' = Planned(d)
    BY <1>1 DEF PreRotates, Rotates, Mapped, Planned, FBSession, BeginStrategy, manager
  <2> QED BY <1>1, <1>3, <2>1, <2>3, <2>4, <2>5 DEF Underway, manager
<1>8. DmaKept'
  BY <1>1, DmaStays DEF BeginStrategy
<1>9. LineModeIdle'
  BY DEF BeginStrategy, IInv, LineModeIdle, Live, manager, dma
<1> QED
  BY <1>4, <1>5, <1>6, <1>7, <1>8, <1>9 DEF IInv

LEMMA BeginFallbackInv ==
  ASSUME IInv, NEW d \in Dpy, BeginFallback(d) PROVE IInv'
<1>1. /\ phase = "config" /\ phase' = "config" /\ turn = d /\ turn' = d
      /\ UNCHANGED <<manager, mdpToLayer, mFBUpdate, lists, isDMAStateChanging>>
      /\ Others(d) /\ TypeOK /\ Agreed /\ Underway /\ DmaKept
  BY DEF BeginFallback, Prepares, Turning, Others, IInv, manager, dma
<1>2. TypeOK'
  BY <1>1 DEF TypeOK, BeginFallback, manager, dma
<1>3. Stacked' /\ OnTop' /\ Shared'
  BY <1>1, StackStays DEF IInv
<1>4. Agreed'
  BY <1>1, AgreedStays DEF BeginFallback
<1>5. Underway'
  <2>1. /\ mLayerRotMap[d] = <<>> /\ mdpToLayer[d] = <<>> /\ lists[d] # NULL
        /\ ~PreRotates(d) => mFBUpdate[d].mRot = NULL
    BY <1>1 DEF Underway, BeginFallback, Prepares
  <2>2. PreRotates(d)' = PreRotates(d)
    BY DEF PreRotates, BeginFallback
  <2>3. attempt' = "fb" /\ todo'.fb /\ todo'.layers = {}
    BY DEF BeginFallback
  <2> QED BY <1>1, <2>1, <2>2, <2>3 DEF Underway, manager
<1>6. DmaKept'
  BY <1>1, DmaStays DEF BeginFallback
<1>7. LineModeIdle'
  BY DEF BeginFallback, IInv, LineModeIdle, Live, manager, dma
<1> QED
  BY <1>2, <1>3, <1>4, <1>5, <1>6, <1>7 DEF IInv

\* A display that takes sessions has brought the DMA into block mode.
LEMMA FBInBlockMode ==
  ASSUME IInv, NEW d \in Dpy, Turning(d), PreRotates(d), attempt # "ready"
  PROVE  sDMAMode = "BLOCK"
<1>1. lists[d] # NULL
  BY DEF IInv, Underway, Turning
<1>2. AsksForDma(d, lists)
  BY <1>1 DEF AsksForDma, PreRotates
<1> QED
  BY <1>2 DEF IInv, DmaKept, Turning

LEMMA PrepareFBInv ==
  ASSUME IInv, NEW d \in Dpy, PrepareFB(d) PROVE IInv'
<1>1. /\ phase = "config" /\ phase' = "config" /\ turn = d /\ turn' = d
      /\ UNCHANGED <<mdpToLayer, lists, isDMAStateChanging, attempt>>
      /\ TypeOK /\ Agreed /\ Underway /\ DmaKept
      /\ Stacked /\ OnTop /\ Shared /\ FB \in Nat /\ NULL \notin Rots
  BY RotMgrAssumption DEF PrepareFB, Turning, IInv, dma, FB
<1>2. /\ mLayerRotMap[d] = <<>> /\ mdpToLayer[d] = <<>> /\ lists[d] # NULL
      /\ ~PreRotates(d) => mFBUpdate[d].mRot = NULL
      /\ todo.layers # {} => Rotates(d, lists) /\ d \notin isDMAStateChanging
      /\ attempt # "ready"
  BY <1>1 DEF Underway, PrepareFB
<1>3. /\ todo'.fb = FALSE /\ todo'.layers = todo.layers
      /\ todo' \in [fb : BOOLEAN, layers : SUBSET Nat]
  BY <1>1 DEF PrepareFB, TypeOK
<1>4. DmaKept'
  BY <1>1, DmaStays DEF PrepareFB
<1>5. PreRotates(d)' = PreRotates(d) /\ Rotates(d, lists)' = Rotates(d, lists)
  BY DEF PreRotates, Rotates, PrepareFB
<1>6. ASSUME Mapped(d)' = Planned(d)', ~PreRotates(d) => mFBUpdate'[d].mRot = NULL
      PROVE  Underway'
  BY <1>1, <1>2, <1>3, <1>5, <1>6 DEF Underway, PrepareFB
<1>7. CASE /\ ~PreRotates(d)
           /\ mFBUpdate' = [mFBUpdate EXCEPT ![d].on = TRUE]
           /\ UNCHANGED manager
  <2>1. TypeOK'
    BY <1>1, <1>3, <1>7 DEF TypeOK, PrepareFB, manager, dma
  <2>2. Stacked' /\ OnTop' /\ Shared'
    BY <1>1, <1>7, StackStays
  <2>3. Others(d)
    BY <1>1, <1>7 DEF Others, TypeOK, manager
  <2>4. Agreed'
    BY <1>1, <2>3, AgreedStays DEF PrepareFB
  <2>5. mFBUpdate'[d].mRot = NULL
    BY <1>1, <1>2, <1>7 DEF TypeOK
  <2>6. Mapped(d)' = Planned(d)'
    BY <1>1, <1>2, <1>7, <2>5 DEF Mapped, Planned, FBSession, manager
  <2>7. LineModeIdle'
    BY <1>7 DEF PrepareFB, IInv, LineModeIdle, Live, manager, dma
  <2> QED BY <1>4, <1>6, <2>1, <2>2, <2>4, <2>5, <2>6, <2>7 DEF IInv
<1>8. ASSUME PreRotates(d), NEW r \in Rots, GetNext(d, FB, r),
             mFBUpdate' = [mFBUpdate EXCEPT ![d] = [on |-> TRUE, mRot |-> r]]
      PROVE  IInv'
  <2>1. /\ mLayerRotMap' = [mLayerRotMap EXCEPT ![d] =
                              Append(mLayerRotMap[d], [layer |-> FB, rot |-> r])]
        /\ mRot' \in [Slots -> Rots \cup {NULL}] /\ mUseCount' \in 0 .. UINT - 1
        /\ mLayerRotMap' \in [Dpy -> Seq(Session)]
        /\ Stacked' /\ OnTop' /\ Shared'
    BY <1>1, <1>8, GetNextKeeps
  <2>2. TypeOK'
    BY <1>1, <1>3, <1>8, <2>1 DEF TypeOK, PrepareFB, dma
  <2>3. Others(d)
    BY <1>1, <1>8, <2>1 DEF Others, TypeOK
  <2>4. Agreed'
    BY <1>1, <2>3, AgreedStays DEF PrepareFB
  <2>5. Mapped(d)' = {[layer |-> FB, rot |-> r]}
    <3> DEFINE s == [layer |-> FB, rot |-> r]
    <3>1. s \in Session /\ mLayerRotMap' = [mLayerRotMap EXCEPT ![d] = Append(mLayerRotMap[d], s)]
      BY <1>1, <2>1 DEF Session
    <3>2. {mLayerRotMap'[d][k] : k \in DOMAIN mLayerRotMap'[d]} =
            {mLayerRotMap[d][k] : k \in DOMAIN mLayerRotMap[d]} \cup {s}
      <4>1. mLayerRotMap \in [Dpy -> Seq(Session)]
        BY <1>1 DEF TypeOK
      <4> HIDE DEF s
      <4>2. /\ DOMAIN mLayerRotMap[d] = 1 .. 0 /\ DOMAIN mLayerRotMap'[d] = 1 .. 1
            /\ mLayerRotMap'[d][1] = s
        <5>1. Len(mLayerRotMap[d]) = 0
          BY <1>2
        <5> QED BY <3>1, <4>1, <5>1, Appended
      <4> QED BY <4>2
    <3>3. {mLayerRotMap[d][k] : k \in DOMAIN mLayerRotMap[d]} = {}
      BY <1>2
    <3> QED BY <3>2, <3>3 DEF Mapped
  <2>6. Planned(d)' = {[layer |-> FB, rot |-> r]}
    <3>1. mFBUpdate'[d] = [on |-> TRUE, mRot |-> r] /\ mdpToLayer'[d] = <<>> /\ r # NULL
      BY <1>1, <1>2, <1>8 DEF TypeOK
    <3>2. {mdpToLayer'[d][k] : k \in DOMAIN mdpToLayer'[d]} = {}
      BY <3>1
    <3> QED BY <3>1, <3>2 DEF Planned, FBSession
  <2>7. LineModeIdle'
    BY <1>2, <1>8, FBInBlockMode DEF PrepareFB, LineModeIdle, dma
  <2> QED BY <1>4, <1>6, <1>8, <2>1, <2>2, <2>4, <2>5, <2>6, <2>7 DEF IInv
<1> QED
  BY <1>7, <1>8 DEF PrepareFB

\* What is left of a failed preparation is in the map, so clear() returns it.
LEMMA FBRefusedInv ==
  ASSUME IInv, NEW d \in Dpy, FBRefused(d) PROVE IInv'
<1>1. /\ phase = "config" /\ phase' = "config" /\ turn = d /\ turn' = d
      /\ UNCHANGED <<mdpToLayer, lists, isDMAStateChanging, todo>>
      /\ TypeOK /\ Agreed /\ Underway /\ DmaKept
      /\ Stacked /\ OnTop /\ Shared /\ FB \in Nat /\ NULL \notin Rots
  BY RotMgrAssumption DEF FBRefused, Turning, IInv, dma, FB
<1>2. /\ mLayerRotMap[d] = <<>> /\ mdpToLayer[d] = <<>> /\ lists[d] # NULL
      /\ ~PreRotates(d) => mFBUpdate[d].mRot = NULL
      /\ todo.layers # {} => Rotates(d, lists) /\ d \notin isDMAStateChanging
      /\ attempt # "ready" /\ attempt' \in {"mdpLost", "fbLost"}
  BY <1>1 DEF Underway, FBRefused
<1>3. DmaKept'
  BY <1>1, DmaStays DEF FBRefused
<1>4. PreRotates(d)' = PreRotates(d) /\ Rotates(d, lists)' = Rotates(d, lists)
  BY DEF PreRotates, Rotates, FBRefused
<1>5. ASSUME ~PreRotates(d) => mFBUpdate'[d].mRot = NULL
      PROVE  Underway'
  BY <1>1, <1>2, <1>4, <1>5 DEF Underway
<1>6. ASSUME UNCHANGED manager, NEW new \in [on : BOOLEAN, mRot : Rots \cup {NULL}],
             mFBUpdate' = [mFBUpdate EXCEPT ![d] = new], ~PreRotates(d) => new.mRot = NULL
      PROVE  IInv'
  <2>1. TypeOK'
    BY <1>1, <1>2, <1>6 DEF TypeOK, FBRefused, manager, dma
  <2>2. Stacked' /\ OnTop' /\ Shared'
    BY <1>1, <1>6, StackStays
  <2>3. Others(d)
    BY <1>1, <1>6 DEF Others, TypeOK, manager
  <2>4. Agreed'
    BY <1>1, <2>3, AgreedStays DEF FBRefused
  <2>5. mFBUpdate'[d] = new
    BY <1>1, <1>6 DEF TypeOK
  <2>6. LineModeIdle'
    BY <1>6 DEF FBRefused, IInv, LineModeIdle, Live, manager, dma
  <2> QED BY <1>3, <1>5, <1>6, <2>1, <2>2, <2>4, <2>5, <2>6 DEF IInv
<1>7. CASE mFBUpdate' = [mFBUpdate EXCEPT ![d].on = FALSE] /\ UNCHANGED manager
  <2> DEFINE new == [mFBUpdate[d] EXCEPT !.on = FALSE]
  <2>1. /\ new \in [on : BOOLEAN, mRot : Rots \cup {NULL}]
        /\ new.mRot = mFBUpdate[d].mRot
        /\ mFBUpdate' = [mFBUpdate EXCEPT ![d] = new]
    BY <1>1, <1>7 DEF TypeOK
  <2> HIDE DEF new
  <2> QED BY <1>2, <1>6, <1>7, <2>1
<1>8. CASE PreRotates(d) /\ mFBUpdate' = [mFBUpdate EXCEPT ![d] = FBOff] /\ UNCHANGED manager
  <2>1. FBOff \in [on : BOOLEAN, mRot : Rots \cup {NULL}] /\ FBOff.mRot = NULL
    BY DEF FBOff
  <2> QED BY <1>6, <1>8, <2>1
<1>9. ASSUME PreRotates(d), NEW r \in Rots, GetNext(d, FB, r), NEW kept \in {NULL, r},
             mFBUpdate' = [mFBUpdate EXCEPT ![d] = [on |-> FALSE, mRot |-> kept]]
      PROVE  IInv'
  <2>1. /\ mLayerRotMap' = [mLayerRotMap EXCEPT ![d] =
                              Append(mLayerRotMap[d], [layer |-> FB, rot |-> r])]
        /\ mRot' \in [Slots -> Rots \cup {NULL}] /\ mUseCount' \in 0 .. UINT - 1
        /\ mLayerRotMap' \in [Dpy -> Seq(Session)]
        /\ Stacked' /\ OnTop' /\ Shared'
    BY <1>1, <1>9, GetNextKeeps
  <2>2. TypeOK'
    BY <1>1, <1>2, <1>9, <2>1 DEF TypeOK, FBRefused, dma
  <2>3. Others(d)
    BY <1>1, <1>9, <2>1 DEF Others, TypeOK
  <2>4. Agreed'
    BY <1>1, <2>3, AgreedStays DEF FBRefused
  <2>5. LineModeIdle'
    BY <1>2, <1>9, FBInBlockMode DEF FBRefused, LineModeIdle, dma
  <2> QED BY <1>3, <1>5, <1>9, <2>1, <2>2, <2>4, <2>5 DEF IInv
<1> QED
  BY <1>7, <1>8, <1>9 DEF FBRefused

\* A layer enters the map and the plan of its display together.
LEMMA BothGrow ==
  ASSUME TypeOK, NEW d \in Dpy, NEW s \in Session, UNCHANGED mFBUpdate,
         mLayerRotMap' = [mLayerRotMap EXCEPT ![d] = Append(mLayerRotMap[d], s)],
         mdpToLayer' = [mdpToLayer EXCEPT ![d] = Append(mdpToLayer[d], s)]
  PROVE  /\ mdpToLayer' \in [Dpy -> Seq(Session)]
         /\ \A e \in Dpy : e # d => /\ mLayerRotMap'[e] = mLayerRotMap[e]
                                  /\ mdpToLayer'[e] = mdpToLayer[e]
         /\ Mapped(d) = Planned(d) => Mapped(d)' = Planned(d)'
<1>1. mLayerRotMap \in [Dpy -> Seq(Session)] /\ mdpToLayer \in [Dpy -> Seq(Session)]
  BY DEF TypeOK
<1>2. /\ mdpToLayer' \in [Dpy -> Seq(Session)]
      /\ Len(mdpToLayer[d]) \in Nat
      /\ DOMAIN mdpToLayer[d] = 1 .. Len(mdpToLayer[d])
      /\ DOMAIN mdpToLayer'[d] = 1 .. Len(mdpToLayer[d]) + 1
      /\ \A k \in 1 .. Len(mdpToLayer[d]) : mdpToLayer'[d][k] = mdpToLayer[d][k]
      /\ mdpToLayer'[d][Len(mdpToLayer[d]) + 1] = s
  BY <1>1, Appended
<1>3. /\ Len(mLayerRotMap[d]) \in Nat
      /\ DOMAIN mLayerRotMap[d] = 1 .. Len(mLayerRotMap[d])
      /\ DOMAIN mLayerRotMap'[d] = 1 .. Len(mLayerRotMap[d]) + 1
      /\ \A k \in 1 .. Len(mLayerRotMap[d]) : mLayerRotMap'[d][k] = mLayerRotMap[d][k]
      /\ mLayerRotMap'[d][Len(mLayerRotMap[d]) + 1] = s
  BY <1>1, Appended
<1>4. \A x : x \in Mapped(d)' <=> x = s \/ x \in Mapped(d)
  BY <1>3 DEF Mapped
<1>5. \A x : x \in Planned(d)' <=> x = s \/ x \in Planned(d)
  <2>1. \A x : (\E k \in DOMAIN mdpToLayer'[d] : x = mdpToLayer'[d][k])
                 <=> x = s \/ \E k \in DOMAIN mdpToLayer[d] : x = mdpToLayer[d][k]
    BY <1>2
  <2>2. FBSession(d)' = FBSession(d)
    BY DEF FBSession
  <2> QED BY <2>1, <2>2 DEF Planned
<1>6. Mapped(d) = Planned(d) => Mapped(d)' = Planned(d)'
  <2>1. ASSUME Mapped(d) = Planned(d) PROVE \A x : x \in Mapped(d)' <=> x \in Planned(d)'
    BY <1>4, <1>5, <2>1
  <2> QED BY <2>1
<1>7. \A e \in Dpy : e # d => /\ mLayerRotMap'[e] = mLayerRotMap[e]
                             /\ mdpToLayer'[e] = mdpToLayer[e]
  BY <1>1
<1> QED
  BY <1>2, <1>6, <1>7

LEMMA ConfigureLayerInv ==
  ASSUME IInv, NEW d \in Dpy, ConfigureLayer(d) PROVE IInv'
<1>1. /\ phase = "config" /\ phase' = "config" /\ turn = d /\ turn' = d
      /\ UNCHANGED <<mFBUpdate, lists, isDMAStateChanging, attempt, attached>>
      /\ attempt = "mdp" /\ ~todo.fb
      /\ TypeOK /\ Agreed /\ Underway /\ DmaKept /\ Stacked /\ OnTop /\ Shared
  BY DEF ConfigureLayer, Turning, IInv, dma
<1>2. PICK layer \in todo.layers, r \in Rots :
        /\ GetNext(d, layer, r)
        /\ mdpToLayer' = [mdpToLayer EXCEPT ![d] =
             Append(mdpToLayer[d], [layer |-> layer, rot |-> r])]
        /\ todo' = [todo EXCEPT !.layers = todo.layers \ {layer}]
  BY DEF ConfigureLayer
<1> DEFINE s == [layer |-> layer, rot |-> r]
<1>3. layer \in Nat /\ s \in Session
  BY <1>1 DEF TypeOK, Session
<1>4. /\ mLayerRotMap' = [mLayerRotMap EXCEPT ![d] = Append(mLayerRotMap[d], s)]
      /\ mRot' \in [Slots -> Rots \cup {NULL}] /\ mUseCount' \in 0 .. UINT - 1
      /\ mLayerRotMap' \in [Dpy -> Seq(Session)]
      /\ Stacked' /\ OnTop' /\ Shared'
  BY <1>1, <1>2, <1>3, GetNextKeeps
<1>5. /\ mdpToLayer' \in [Dpy -> Seq(Session)]
      /\ \A e \in Dpy : e # d => /\ mLayerRotMap'[e] = mLayerRotMap[e]
                               /\ mdpToLayer'[e] = mdpToLayer[e]
      /\ Mapped(d) = Planned(d) => Mapped(d)' = Planned(d)'
  <2>1. mdpToLayer' = [mdpToLayer EXCEPT ![d] = Append(mdpToLayer[d], s)]
    BY <1>2
  <2> HIDE DEF s
  <2> QED BY <1>1, <1>3, <1>4, <2>1, BothGrow
<1>8. /\ todo' \in [fb : BOOLEAN, layers : SUBSET Nat] /\ ~todo'.fb
      /\ todo'.layers \subseteq todo.layers
  BY <1>1, <1>2 DEF TypeOK
<1>9. TypeOK'
  BY <1>1, <1>4, <1>5, <1>8 DEF TypeOK, ConfigureLayer, dma
<1>10. Others(d)
  BY <1>1, <1>4, <1>5 DEF Others
<1>11. Agreed'
  BY <1>1, <1>10, AgreedStays DEF ConfigureLayer
<1>12. /\ Rotates(d, lists) /\ d \notin isDMAStateChanging /\ lists[d] # NULL
       /\ ~PreRotates(d) => mFBUpdate[d].mRot = NULL
       /\ Mapped(d) = Planned(d)
  BY <1>1 DEF Underway
<1>13. Underway'
  <2>1. Mapped(d)' = Planned(d)'
    BY <1>5, <1>12
  <2>2. PreRotates(d)' = PreRotates(d) /\ Rotates(d, lists)' = Rotates(d, lists)
    BY DEF PreRotates, Rotates, ConfigureLayer
  <2> QED BY <1>1, <1>8, <1>12, <2>1, <2>2 DEF Underway
\* A layer is rotated only if no display had the DMA when the round began.
<1>14. AsksForDma(d, lists) /\ attached = {} /\ sDMAMode = "BLOCK"
  <2>1. AsksForDma(d, lists)
    BY <1>12 DEF AsksForDma
  <2>2. attached = {}
    BY <1>1, <1>12, <2>1 DEF DmaKept, DmaWaits
  <2> QED BY <1>1, <2>1, <2>2 DEF DmaKept
<1>15. DmaKept'
  <2>1. /\ (DmaWaits(lists))' = DmaWaits(lists)
        /\ \A e \in Dpy : /\ AsksForDma(e, lists)' = AsksForDma(e, lists)
                          /\ Rotates(e, lists)' = Rotates(e, lists)
    BY DEF DmaWaits, AsksForDma, Rotates, ConfigureLayer, dma
  <2>2. \A e \in Dpy : e # d => mdpToLayer'[e] = mdpToLayer[e]
    BY <1>10 DEF Others
  <2>3. usesDma' = usesDma /\ sDMAMode' = sDMAMode
    BY DEF ConfigureLayer, dma
  <2> QED BY <1>1, <1>12, <1>14, <2>1, <2>2, <2>3 DEF DmaKept
<1>16. LineModeIdle'
  BY <1>14 DEF LineModeIdle, ConfigureLayer, dma
<1> QED
  BY <1>4, <1>9, <1>11, <1>13, <1>15, <1>16 DEF IInv

LEMMA ValidatedInv == ASSUME IInv, NEW d \in Dpy, Validated(d) PROVE IInv'
<1>1. /\ phase = "config" /\ phase' = "config" /\ turn = d /\ turn' = d - 1
      /\ d \in Nat /\ d - 1 \in -1 .. NumDpys - 1
      /\ UNCHANGED <<manager, mdpToLayer, mFBUpdate>> /\ Others(d)
      /\ TypeOK /\ Agreed /\ Underway /\ DmaKept
      /\ attempt \in {"mdp", "fb"} /\ ~todo.fb
  BY RotMgrAssumption
     DEF Validated, Turning, NextDisplay, Others, IInv, Dpy, manager, NothingToDo
<1>2. Draws(d)' = Mapped(d)'
  <2>1. Mapped(d) = Planned(d) /\ (attempt = "fb" => mdpToLayer[d] = <<>>)
    BY <1>1 DEF Underway
  <2>2. Mapped(d)' = Mapped(d) /\ Planned(d)' = Planned(d)
    BY <1>1 DEF Mapped, Planned, FBSession, manager
  <2>3. CASE attempt = "mdp"
    <3>1. d \in mModeOn'
      BY <2>3 DEF Validated
    <3>2. Draws(d)' = Planned(d)'
      BY <3>1 DEF Draws, Planned
    <3> QED BY <2>1, <2>2, <3>2
  <2>4. CASE attempt = "fb"
    <3>1. mdpToLayer'[d] = <<>>
      BY <1>1, <2>1, <2>4
    <3>2. Draws(d)' = Planned(d)'
      BY <3>1 DEF Draws, Planned
    <3> QED BY <2>1, <2>2, <3>2
  <2> QED BY <1>1, <2>3, <2>4
<1>3. usesDma' \subseteq Dpy /\ (sDMAMode = "BLOCK" => usesDma' = usesDma)
  BY <1>1 DEF TypeOK, Validated, PipesOf
<1>4. TypeOK'
  BY <1>1, <1>3 DEF TypeOK, Validated, NextDisplay, NothingToDo, manager, dma
<1>5. Stacked' /\ OnTop' /\ Shared'
  BY <1>1, TurnKeeps DEF IInv
<1>6. Agreed'
  BY <1>1, <1>2, AgreedNext DEF Validated
<1>7. Underway'
  BY <1>1, UnderwayNext DEF Validated
<1>8. DmaKept'
  BY <1>1, <1>3, DmaStays DEF Validated
<1>9. LineModeIdle'
  BY DEF Validated, IInv, LineModeIdle, Live, manager, dma
<1> QED
  BY <1>4, <1>5, <1>6, <1>7, <1>8, <1>9 DEF IInv

\* A strategy that fails leaves nothing but what FBUpdate still points to.
LEMMA StrategyFailsInv ==
  ASSUME IInv, NEW d \in Dpy, StrategyFails(d) PROVE IInv'
<1>1. /\ phase = "config" /\ phase' = "config" /\ turn = d /\ turn' = d
      /\ UNCHANGED <<mFBUpdate, lists, isDMAStateChanging>>
      /\ ClearMap(d) /\ attempt # "ready"
      /\ TypeOK /\ Agreed /\ Underway /\ DmaKept /\ Stacked /\ OnTop /\ Shared
  BY DEF StrategyFails, Turning, IInv, dma
<1>2. /\ mUseCount' \in 0 .. UINT - 1 /\ mLayerRotMap' \in [Dpy -> Seq(Session)]
      /\ mLayerRotMap'[d] = <<>> /\ mRot' = mRot
      /\ \A e \in Dpy : e # d => mLayerRotMap'[e] = mLayerRotMap[e]
      /\ Stacked' /\ OnTop' /\ Shared'
  BY <1>1, ClearMapKeeps
<1>3. /\ mdpToLayer' \in [Dpy -> Seq(Session)] /\ mdpToLayer'[d] = <<>>
      /\ \A e \in Dpy : e # d => mdpToLayer'[e] = mdpToLayer[e]
  BY <1>1, EmptySeq DEF StrategyFails, TypeOK
<1>4. TypeOK'
  BY <1>1, <1>2, <1>3 DEF TypeOK, StrategyFails, NothingToDo, dma
<1>5. Others(d)
  BY <1>1, <1>2, <1>3 DEF Others
<1>6. Agreed'
  BY <1>1, <1>5, AgreedStays DEF StrategyFails
<1>7. Underway'
  <2>1. PreRotates(d)' = PreRotates(d)
    BY DEF PreRotates, StrategyFails
  <2>2. attempt' = "between" /\ ~todo'.fb /\ todo'.layers = {}
    BY DEF StrategyFails, NothingToDo
  <2>3. lists[d] # NULL /\ (~PreRotates(d) => mFBUpdate[d].mRot = NULL)
    BY <1>1 DEF Underway
  <2> QED BY <1>1, <1>2, <1>3, <2>1, <2>2, <2>3 DEF Underway
<1>8. DmaKept'
  BY <1>1, <1>3, DmaStays DEF StrategyFails
<1>9. LineModeIdle'
  BY <1>2 DEF StrategyFails, IInv, LineModeIdle, Live, dma
<1> QED
  BY <1>2, <1>4, <1>6, <1>7, <1>8, <1>9 DEF IInv

LEMMA FallbackFailsInv ==
  ASSUME IInv, NEW d \in Dpy, FallbackFails(d) PROVE IInv'
<1>1. /\ phase = "config" /\ phase' = "config" /\ turn = d /\ turn' = d - 1
      /\ d \in Nat /\ d - 1 \in -1 .. NumDpys - 1
      /\ UNCHANGED <<mdpToLayer, lists, isDMAStateChanging>> /\ ClearMap(d)
      /\ TypeOK /\ Agreed /\ Underway /\ DmaKept /\ Stacked /\ OnTop /\ Shared
  BY RotMgrAssumption DEF FallbackFails, NextDisplay, Turning, IInv, dma, Dpy
<1>2. /\ mUseCount' \in 0 .. UINT - 1 /\ mLayerRotMap' \in [Dpy -> Seq(Session)]
      /\ mLayerRotMap'[d] = <<>> /\ mRot' = mRot
      /\ \A e \in Dpy : e # d => mLayerRotMap'[e] = mLayerRotMap[e]
      /\ Stacked' /\ OnTop' /\ Shared'
  BY <1>1, ClearMapKeeps
<1>3. /\ mFBUpdate' \in [Dpy -> [on : BOOLEAN, mRot : Rots \cup {NULL}]]
      /\ mFBUpdate'[d].on = FALSE
      /\ \A e \in Dpy : e # d => mFBUpdate'[e] = mFBUpdate[e]
  BY <1>1 DEF FallbackFails, TypeOK
<1>4. TypeOK'
  BY <1>1, <1>2, <1>3 DEF TypeOK, FallbackFails, NextDisplay, NothingToDo, dma
<1>5. Others(d)
  BY <1>1, <1>2, <1>3 DEF Others
<1>6. Draws(d)' = Mapped(d)'
  <2>1. d \notin mModeOn'
    BY <1>1 DEF Agreed, FallbackFails
  <2>2. Draws(d)' = {}
    BY <1>3, <2>1 DEF Draws, FBSession
  <2>3. Mapped(d)' = {}
    BY <1>2 DEF Mapped
  <2> QED BY <2>2, <2>3
<1>7. Agreed'
  BY <1>1, <1>5, <1>6, AgreedNext DEF FallbackFails
<1>8. Underway'
  BY <1>1, <1>5, UnderwayNext DEF FallbackFails
<1>9. DmaKept'
  BY <1>1, DmaStays DEF FallbackFails
<1>10. LineModeIdle'
  BY <1>2 DEF FallbackFails, IInv, LineModeIdle, Live, dma
<1> QED
  BY <1>2, <1>4, <1>7, <1>8, <1>9, <1>10 DEF IInv

LEMMA PrepareInv == ASSUME IInv, NEW d \in Dpy, Prepare(d) PROVE IInv'
  BY SkipInv, BeginStrategyInv, BeginFallbackInv, PrepareFBInv, FBRefusedInv,
     ConfigureLayerInv, ValidatedInv, StrategyFailsInv, FallbackFailsInv DEF Prepare

\* configDone deletes the sessions above those handed out: nobody's.
LEMMA ConfigDoneInv == ASSUME IInv, ConfigDone PROVE IInv'
<1>1. /\ MAX_ROT_SESS \in Nat /\ UINT \in Nat /\ NumDpys \in Nat /\ NULL \notin Rots
  BY RotMgrAssumption
<1>2. /\ phase = "config" /\ phase' = "draw" /\ turn = -1 /\ turn' = -1
      /\ UNCHANGED <<mUseCount, mLayerRotMap, mdpToLayer, mModeOn, mFBUpdate, sDMAMode>>
      /\ mUseCount \in Nat /\ mUseCount <= MAX_ROT_SESS /\ turn \notin Dpy
      /\ TypeOK /\ Stacked /\ OnTop /\ Shared /\ Agreed
  <2>1. mUseCount \in Nat
    BY <1>1 DEF IInv, TypeOK
  <2> QED BY <2>1 DEF ConfigDone, IInv, Stacked, Dpy
<1>3. /\ mRot' \in [Slots -> Rots \cup {NULL}]
      /\ \A i \in Slots : mRot'[i] = IF i < mUseCount THEN mRot[i] ELSE NULL
  BY <1>2 DEF ConfigDone, OnlyUsed, TypeOK
<1>4. TypeOK'
  BY <1>2, <1>3 DEF TypeOK, ConfigDone
<1>5. Stacked'
  BY <1>1, <1>2, <1>3 DEF Stacked, Slots
<1>6. Bottom = mUseCount /\ Bottom' = mUseCount
  BY <1>2 DEF Bottom
<1>7. OnTop'
  BY <1>2, <1>6 DEF OnTop
<1>8. Shared'
  <2>1. \A i \in 0 .. mUseCount - 1 : mRot'[i] = mRot[i]
    BY <1>1, <1>2, <1>3 DEF Slots
  <2> QED BY <1>2, <1>6, <2>1 DEF Shared
<1>9. Agreed'
  <2>1. \A e \in Dpy : Draws(e)' = Draws(e) /\ Mapped(e)' = Mapped(e)
    BY <1>2 DEF Draws, Mapped, FBSession
  <2>2. Agreed
    BY <1>2
  <2> QED BY <1>2, <2>1, <2>2 DEF Agreed
<1>10. Underway' /\ DmaKept'
  BY <1>2 DEF Underway, DmaKept
<1>11. LineModeIdle'
  BY <1>2, <1>3 DEF IInv, LineModeIdle, Live
<1> QED
  BY <1>4, <1>5, <1>7, <1>8, <1>9, <1>10, <1>11 DEF IInv

LEMMA HwcSetInv == ASSUME IInv, HwcSet PROVE IInv'
<1>1. phase = "draw" /\ phase' = "idle" /\ UNCHANGED <<manager, turn, sDMAMode>>
  BY DEF HwcSet, dma
<1>2. TypeOK'
  BY DEF HwcSet, IInv, TypeOK, manager, dma
<1>3. Stacked'
  BY <1>1 DEF IInv, Stacked, manager
<1>4. OnTop' /\ Shared' /\ Agreed' /\ Underway' /\ DmaKept'
  BY <1>1 DEF OnTop, Shared, Agreed, Underway, DmaKept
<1>5. LineModeIdle'
  BY <1>1 DEF IInv, LineModeIdle, Live, manager
<1> QED
  BY <1>2, <1>3, <1>4, <1>5 DEF IInv

LEMMA ClearInv == ASSUME IInv, Clear PROVE IInv'
<1>1. /\ phase = "idle" /\ phase' = "idle" /\ mUseCount' = 0 /\ turn' = turn
      /\ \A i \in Slots : mRot'[i] = NULL
  BY DEF Clear
<1>2. TypeOK'
  BY RotMgrAssumption DEF Clear, IInv, TypeOK
<1>3. Stacked'
  BY <1>1, RotMgrAssumption DEF IInv, Stacked, Slots
<1>4. OnTop' /\ Shared' /\ Agreed' /\ Underway' /\ DmaKept'
  BY <1>1 DEF OnTop, Shared, Agreed, Underway, DmaKept
<1>5. LineModeIdle'
  BY <1>1 DEF LineModeIdle, Live
<1> QED
  BY <1>2, <1>3, <1>4, <1>5 DEF IInv

\* Between rounds nobody has looked at the orientation.
LEMMA SetExtOrientationInv == ASSUME Orderly, IInv, SetExtOrientation PROVE IInv'
<1>1. /\ phase # "config" /\ phase' = phase /\ turn' = turn
      /\ UNCHANGED <<manager, mdpToLayer, mModeOn, mFBUpdate, sDMAMode>>
  BY DEF SetExtOrientation, Orderly, dma
<1>2. TypeOK'
  BY DEF SetExtOrientation, IInv, TypeOK, manager, dma
<1>3. Stacked' /\ OnTop' /\ Shared'
  BY <1>1, StackStays DEF IInv
<1>4. Agreed'
  <2>1. \A e \in Dpy : Draws(e)' = Draws(e) /\ Mapped(e)' = Mapped(e)
    BY <1>1 DEF Draws, Mapped, FBSession, manager
  <2>2. Agreed
    BY DEF IInv
  <2> QED BY <1>1, <2>1, <2>2 DEF Agreed, manager
<1>5. Underway' /\ DmaKept'
  BY <1>1 DEF Underway, DmaKept
<1>6. LineModeIdle'
  BY <1>1 DEF IInv, LineModeIdle, Live, manager
<1> QED
  BY <1>2, <1>3, <1>4, <1>5, <1>6 DEF IInv

LEMMA StutterInv == ASSUME IInv, UNCHANGED vars PROVE IInv'
<1>1. UNCHANGED <<manager, mdpToLayer, mModeOn, mFBUpdate, dma, usesDma,
                  mExtOrientation, lists, phase, turn, attempt, todo>>
  BY DEF vars
<1>2. TypeOK'
  BY <1>1 DEF IInv, TypeOK, manager, dma
<1>3. Stacked' /\ OnTop' /\ Shared'
  BY <1>1, StackStays DEF IInv
<1>4. \A e \in Dpy : /\ Draws(e)' = Draws(e) /\ Mapped(e)' = Mapped(e)
                    /\ Planned(e)' = Planned(e) /\ PreRotates(e)' = PreRotates(e)
                    /\ Rotates(e, lists)' = Rotates(e, lists)
  BY <1>1 DEF Draws, Mapped, Planned, FBSession, PreRotates, Rotates, manager
<1>5. Agreed /\ Underway /\ DmaKept
  BY DEF IInv
<1>6. Agreed'
  BY <1>1, <1>4, <1>5 DEF Agreed, manager
<1>7. Underway'
  BY <1>1, <1>4, <1>5 DEF Underway, manager, dma
<1>8. DmaKept'
  <2>1. phase = "config" => DmaKept'
    BY <1>1, <1>5, DmaStays DEF dma
  <2> QED BY <1>1, <2>1 DEF DmaKept
<1>9. LineModeIdle'
  BY <1>1 DEF IInv, LineModeIdle, Live, manager, dma
<1> QED
  BY <1>2, <1>3, <1>6, <1>7, <1>8, <1>9 DEF IInv

LEMMA NextInv == ASSUME Orderly, IInv, [Next]_vars PROVE IInv'
<1>1. CASE Begin
  BY <1>1, BeginInv
<1>2. CASE \E d \in Dpy : Prepare(d)
  BY <1>2, PrepareInv
<1>3. CASE ConfigDone \/ HwcSet \/ Clear \/ SetExtOrientation
  BY <1>3, ConfigDoneInv, HwcSetInv, ClearInv, SetExtOrientationInv
<1>4. CASE UNCHANGED vars
  BY <1>4, StutterInv
<1> QED
  BY <1>1, <1>2, <1>3, <1>4 DEF Next

-----------------------------------------------------------------------------
(* What follows from it.                                                     *)

\* The invariant holds in every state of a system whose orientation changes
\* between rounds only.
THEOREM Invariance == ASSUME Orderly PROVE Spec => []IInv
<1>1. Init => IInv
  BY InitInv
<1>2. IInv /\ [Next]_vars => IInv'
  BY NextInv
<1> QED
  BY <1>1, <1>2, PTL DEF Spec

\* In the draw phase the displays share the sessions handed out, which are
\* the rotators alive.
LEMMA OneEach == ASSUME IInv PROVE ServesOne
<1> SUFFICES ASSUME phase = "draw" PROVE ServesOne
  BY DEF ServesOne
<1> DEFINE Served == {use \in Dpy \X UNION {Draws(d) : d \in Dpy} :
                        use[2] \in Draws(use[1])}
           Kept   == {mRot[i] : i \in {j \in Slots : j < mUseCount}}
<1>1. MAX_ROT_SESS \in Nat /\ UINT \in Nat
  BY RotMgrAssumption
<1>2. /\ turn = -1 /\ mUseCount \in Nat /\ Bottom = mUseCount
      /\ \A d \in Dpy : d > turn
      /\ mUseCount <= MAX_ROT_SESS
  <2>1. turn = -1 /\ mUseCount \in Nat /\ mUseCount <= MAX_ROT_SESS
    BY <1>1 DEF IInv, Stacked, TypeOK
  <2> QED BY <2>1 DEF Bottom, Dpy
<1>3. \A d \in Dpy : Draws(d) = Mapped(d)
  BY <1>2 DEF IInv, Agreed
<1>4. \A i \in 0 .. mUseCount - 1 : i \in Slots /\ i < mUseCount
  BY <1>1, <1>2 DEF Slots
<1>5. ASSUME NEW use \in Served PROVE use[2].rot \in Kept
  <2>1. use[1] \in Dpy /\ use[2] \in Mapped(use[1])
    BY <1>3
  <2>2. PICK k \in DOMAIN mLayerRotMap[use[1]] : use[2] = mLayerRotMap[use[1]][k]
    BY <2>1 DEF Mapped
  <2>3. PICK i \in 0 .. mUseCount - 1 : mLayerRotMap[use[1]][k].rot = mRot[i]
    BY <1>2, <2>1 DEF IInv, Shared
  <2> QED BY <1>4, <2>2, <2>3
<1>6. ASSUME NEW r \in Live
      PROVE  Cardinality({use \in Served : use[2].rot = r}) = 1
  <2>1. PICK i \in Slots : r = mRot[i] /\ mRot[i] # NULL
    BY DEF Live
  <2>2. i \in 0 .. mUseCount - 1
    <3>1. ~(i >= mUseCount)
      BY <2>1 DEF IInv, Stacked
    <3> QED BY <1>1, <1>2, <3>1 DEF Slots
  <2>0. PICK d \in Dpy : \E k \in DOMAIN mLayerRotMap[d] : mLayerRotMap[d][k].rot = r
    BY <1>2, <2>1, <2>2 DEF IInv, Shared
  <2>3. PICK k \in DOMAIN mLayerRotMap[d] : mLayerRotMap[d][k].rot = r
    BY <2>0
  <2> DEFINE u == <<d, mLayerRotMap[d][k]>>
  <2>4. u \in Served /\ u[2].rot = r
    <3>1. mLayerRotMap[d][k] \in Draws(d)
      BY <1>3 DEF Mapped
    <3> QED BY <2>3, <3>1
  <2>5. ASSUME NEW use \in Served, use[2].rot = r PROVE use = u
    <3>1. use[1] \in Dpy /\ use[2] \in Mapped(use[1]) /\ use = <<use[1], use[2]>>
      BY <1>3
    <3>2. PICK l \in DOMAIN mLayerRotMap[use[1]] : use[2] = mLayerRotMap[use[1]][l]
      BY <3>1 DEF Mapped
    <3>3. mLayerRotMap[use[1]][l].rot = mLayerRotMap[d][k].rot
      BY <2>3, <2>5, <3>2
    <3>4. use[1] = d /\ l = k
      BY <1>2, <3>1, <3>3 DEF IInv, Shared
    <3> QED BY <3>1, <3>2, <3>4
  <2>6. {use \in Served : use[2].rot = r} = {u}
    <3> HIDE DEF Served, u
    <3> QED BY <2>4, <2>5
  <2>7. Cardinality({u}) = 1
    BY FS_Singleton
  <2> QED BY <2>6, <2>7
<1> QED
  BY <1>5, <1>6 DEF ServesOne

\* What hwc_set draws with is there and is nobody else's, whatever strategies
\* failed and returned before it.
THEOREM Service == ASSUME Orderly PROVE Spec => []ServesOne
<1>1. IInv => ServesOne
  BY OneEach
<1> QED
  BY <1>1, Invariance, PTL

\* hwc_sync's fences reach the sessions drawn with, no more and no less.
THEOREM Fencing == ASSUME Orderly PROVE Spec => []FencesReach
<1>1. IInv => FencesReach
  <2> SUFFICES ASSUME IInv, phase = "draw", NEW d \in Dpy PROVE Draws(d) = Mapped(d)
    BY DEF FencesReach, Mapped
  <2>1. d > turn
    BY DEF IInv, Stacked, Dpy
  <2> QED BY <2>1 DEF IInv, Agreed
<1> QED
  BY <1>1, Invariance, PTL

\* A pipe that takes the DMA in line mode takes it from no rotator.
THEOREM Idleness == ASSUME Orderly PROVE Spec => []LineModeIdle
<1>1. IInv => LineModeIdle
  BY DEF IInv
<1> QED
  BY <1>1, Invariance, PTL

\* The DMA goes from a pipe to a layer's rotator with a round in between.
THEOREM HandOver == ASSUME Orderly PROVE Spec => []DmaChangesHands
<1>1. IInv => DmaChangesHands
  <2> SUFFICES ASSUME IInv, phase = "config", NEW d \in Dpy, mdpToLayer[d] # <<>>
               PROVE  attached = {} /\ usesDma = {}
    BY DEF DmaChangesHands
  <2>1. Rotates(d, lists) /\ attached = {}
    BY DEF IInv, DmaKept
  <2>2. sDMAMode = "BLOCK"
    BY <2>1 DEF IInv, DmaKept, AsksForDma
  <2> QED BY <2>1, <2>2 DEF IInv, DmaKept
<1> QED
  BY <1>1, Invariance, PTL
=============================================================================
