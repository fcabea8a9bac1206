--------------------------- MODULE MDPComp_proofs ---------------------------
(***************************************************************************)
(* Types of a composition, and for any lists of layers:                    *)
(*                                                                         *)
(*   FramebufferHolds   the framebuffer shown holds every layer left to    *)
(*                      it, with its last content                          *)
(*   FramebufferPipe    it has a pipe when layers need it, and only then   *)
(*   StagesFit          the pipes of layers and framebuffer fit the mixer  *)
(*   PanelRight         every cell shows the layers wanted there, in order *)
(*                                                                         *)
(* in this order, with the operators of FrameInfo before the strategies    *)
(* and these before the rounds.  What each assumes of the lists is named:  *)
(* NeverPaused, SomeLayerDrawn, PlainOnPartial, PlainLists.                *)
(***************************************************************************)
EXTENDS MDPComp, FiniteSetTheorems, FunctionTheorems, SequenceTheorems,
        WellFoundedInduction, TLAPS

----------------------------------------------------------------------------
(* The operators of FrameInfo divide the layers of the list.               *)

\* The counts and the stage have values of any kind: no more is needed.
Frames(ls, Value) ==
  [fb : SUBSET Indices(ls), drop : SUBSET Indices(ls), fbCount : Value,
   mdpCount : Value, fbZ : Value, redraw : Value]

IsFrame(ls, f) == \E Value : f \in Frames(ls, Value)

\* A frame just reset: all layers in the framebuffer.
LEMMA ResetIsFrame ==
  ASSUME NEW ls, NEW drop, drop \subseteq Indices(ls)
  PROVE  IsFrame(ls, Reset(ls, drop))
<1>1. Reset(ls, drop) \in Frames(ls, {Len(ls), 0, -1, TRUE})
  BY DEF Frames, Reset
<1> QED  BY <1>1 DEF IsFrame

\* Another division of the same layers.
LEMMA OtherDivision ==
  ASSUME NEW ls, NEW f, IsFrame(ls, f), NEW fb, fb \subseteq Indices(ls),
         NEW fbCount, NEW mdpCount
  PROVE  IsFrame(ls, [f EXCEPT !.fb = fb, !.fbCount = fbCount, !.mdpCount = mdpCount])
<1>1. PICK Some : f \in Frames(ls, Some)
  BY DEF IsFrame
<1> DEFINE Value == Some \cup {fbCount, mdpCount}
<1>2. f \in Frames(ls, Value) /\ fbCount \in Value /\ mdpCount \in Value
  BY <1>1 DEF Frames
<1> HIDE DEF Value
<1>3. [f EXCEPT !.fb = fb, !.fbCount = fbCount, !.mdpCount = mdpCount]
        \in Frames(ls, Value)
  BY <1>2 DEF Frames
<1> QED  BY <1>3 DEF IsFrame

\* Another division, with a stage for the framebuffer.
LEMMA OtherBatch ==
  ASSUME NEW ls, NEW f, IsFrame(ls, f), NEW fb, fb \subseteq Indices(ls),
         NEW fbZ, NEW fbCount, NEW mdpCount
  PROVE  IsFrame(ls, [f EXCEPT !.fb = fb, !.fbZ = fbZ, !.fbCount = fbCount,
                               !.mdpCount = mdpCount])
<1>1. PICK Some : f \in Frames(ls, Some)
  BY DEF IsFrame
<1> DEFINE Value == Some \cup {fbZ, fbCount, mdpCount}
<1>2. /\ f \in Frames(ls, Value)
      /\ fbZ \in Value /\ fbCount \in Value /\ mdpCount \in Value
  BY <1>1 DEF Frames
<1> HIDE DEF Value
<1>3. [f EXCEPT !.fb = fb, !.fbZ = fbZ, !.fbCount = fbCount, !.mdpCount = mdpCount]
        \in Frames(ls, Value)
  BY <1>2 DEF Frames
<1> QED  BY <1>3 DEF IsFrame

LEMMA OtherStage ==
  ASSUME NEW ls, NEW f, IsFrame(ls, f), NEW x
  PROVE  IsFrame(ls, [f EXCEPT !.fbZ = x])
<1>1. PICK Some : f \in Frames(ls, Some)
  BY DEF IsFrame
<1> DEFINE Value == Some \cup {x}
<1>2. f \in Frames(ls, Value) /\ x \in Value
  BY <1>1 DEF Frames
<1> HIDE DEF Value
<1>3. [f EXCEPT !.fbZ = x] \in Frames(ls, Value)
  BY <1>2 DEF Frames
<1> QED  BY <1>3 DEF IsFrame

\* setRedraw leaves the division as it is.
LEMMA OtherRedraw ==
  ASSUME NEW ls, NEW f, IsFrame(ls, f), NEW x
  PROVE  /\ IsFrame(ls, [f EXCEPT !.redraw = x])
         /\ [f EXCEPT !.redraw = x].fb = f.fb
         /\ [f EXCEPT !.redraw = x].drop = f.drop
         /\ [f EXCEPT !.redraw = x].redraw = x
<1>1. PICK Some : f \in Frames(ls, Some)
  BY DEF IsFrame
<1> DEFINE Value == Some \cup {x}
<1>2. f \in Frames(ls, Value) /\ x \in Value
  BY <1>1 DEF Frames
<1> HIDE DEF Value
<1>3. [f EXCEPT !.redraw = x] \in Frames(ls, Value)
  BY <1>2 DEF Frames
<1>4. /\ [f EXCEPT !.redraw = x].fb = f.fb
      /\ [f EXCEPT !.redraw = x].drop = f.drop
      /\ [f EXCEPT !.redraw = x].redraw = x
  BY <1>2 DEF Frames
<1> QED  BY <1>3, <1>4 DEF IsFrame

LEMMA FrameOfList ==
  ASSUME NEW ls, NEW f, IsFrame(ls, f)
  PROVE  f.fb \subseteq Indices(ls) /\ f.drop \subseteq Indices(ls)
BY DEF IsFrame, Frames

\* Moving layers of the list in and out of the framebuffer.
LEMMA MoveIsFrame ==
  ASSUME NEW ls, NEW f, IsFrame(ls, f), NEW in, NEW out, in \subseteq Indices(ls)
  PROVE  IsFrame(ls, Move(ls, f, in, out))
<1>1. (f.fb \cup in) \ out \subseteq Indices(ls)
  BY FrameOfList
<1> QED  BY <1>1, OtherDivision DEF Move

LEMMA FullIsFrame ==
  ASSUME NEW ls, NEW f, IsFrame(ls, f)
  PROVE  IsFrame(ls, fullMDP(ls, f))
<1>1. f.drop \subseteq Indices(ls)
  BY FrameOfList
<1> QED  BY <1>1, OtherDivision DEF fullMDP

LEMMA CacheIsFrame ==
  ASSUME NEW ls, NEW f, IsFrame(ls, f), NEW upd
  PROVE  IsFrame(ls, updateLayerCache(ls, f, upd))
BY OtherDivision DEF updateLayerCache

\* The videos and the secure layers that move are layers of the list.
LEMMA YuvIsFrame ==
  ASSUME NEW ls, NEW f, IsFrame(ls, f), NEW secureOnly
  PROVE  IsFrame(ls, updateYUV(ls, f, secureOnly))
BY MoveIsFrame DEF updateYUV

LEMMA SecureIsFrame ==
  ASSUME NEW ls, NEW f, IsFrame(ls, f)
  PROVE  IsFrame(ls, updateSecureRGB(ls, f))
BY MoveIsFrame DEF updateSecureRGB

\* Whatever batch getBatch finds, markLayersForCaching only takes layers out
\* of the framebuffer.
LEMMA MarkedIsFrame ==
  ASSUME NEW ls, NEW f, IsFrame(ls, f)
  PROVE  IsFrame(ls, Marked(ls, f))
<1>1. f.fb \ Pulled(ls, f) \subseteq Indices(ls)
  BY FrameOfList
<1> QED  BY <1>1, OtherBatch DEF Marked

\* A batch of the lowest layers for the pipes.
LEMMA LoadIsFrame ==
  ASSUME NEW size
  PROVE  IsFrame(list, LoadFrame(size))
<1>1. IsFrame(list, Fresh) /\ Fresh.fb \ 1 .. size \subseteq Indices(list)
  BY ResetIsFrame, FrameOfList DEF Fresh
<1> QED  BY <1>1, OtherBatch DEF LoadFrame

\* The layers the region of interest drops.
LEMMA ROIOfList ==
  ASSUME NEW ls, NEW dmg
  PROVE  /\ generateROI(ls, dmg).roi \subseteq Cells
         /\ generateROI(ls, dmg).drop \subseteq Indices(ls)
BY DEF generateROI, validateAndApplyROI, Hull

----------------------------------------------------------------------------
(* Types.                                                                  *)

InRound == phase \notin {"idle", "paused"}

Typed == TypeOK /\ (InRound => IsFrame(list, mCurrentFrame))

LEMMA InitTyped == Init => Typed
BY DEF Init, Typed, TypeOK, InRound, FBOff

\* ResetRound and the end of a round.
LEMMA BeginTyped == Typed /\ Begin => Typed'
<1> SUFFICES ASSUME Typed, Begin  PROVE Typed'
  OBVIOUS
<1> USE DEF Typed, TypeOK, InRound
<1>1. /\ setup' \in Setups
      /\ mModeOn' \in BOOLEAN /\ mPrevModeOn' \in BOOLEAN
      /\ sIdleFallBack' \in BOOLEAN /\ sHandleTimeout' \in BOOLEAN
      /\ wrong' \subseteq Cells
  BY DEF Begin, ResetRound
<1>2. PICK connected, doable, full \in BOOLEAN : Prepare(connected, doable, full)
  BY DEF Begin
<1>3. IsFrame(list', ResetFrame({}))
  BY ResetIsFrame DEF ResetFrame
<1>4. CASE Unsupported
  <2>1. /\ mCurrentFrame' = ResetFrame({}) /\ phase' = "fallback"
        /\ overlay' = {} /\ roi' = Cells
    BY <1>4 DEF Unsupported
  <2> QED  BY <1>1, <1>3, <2>1, FrameOfList
<1>5. CASE AvoidNew(connected)
  <2>1. /\ mCurrentFrame' = [ResetFrame({}) EXCEPT !.redraw = FALSE]
        /\ phase' = "fallback" /\ overlay' = Indices(list') /\ roi' = Cells
    BY <1>5 DEF AvoidNew
  <2>2. IsFrame(list', mCurrentFrame')
    BY <1>3, <2>1, OtherRedraw
  <2> QED  BY <1>1, <2>1, <2>2, FrameOfList
<1>6. CASE Divide(doable, full)
  <2> DEFINE p == IF doable /\ canPartialUpdate
                  THEN generateROI(list', damage')
                  ELSE [roi |-> Cells, drop |-> {}]
  <2>1. p.roi \subseteq Cells /\ p.drop \subseteq Indices(list')
    BY ROIOfList
  <2>2. /\ mCurrentFrame' = ResetFrame(p.drop)
        /\ overlay' = {} /\ roi' = p.roi /\ phase' \in {"try", "fallback"}
    BY <1>6 DEF Divide
  <2> HIDE DEF p
  <2>3. IsFrame(list', mCurrentFrame')
    BY <2>1, <2>2, ResetIsFrame DEF ResetFrame
  <2> QED  BY <1>1, <2>1, <2>2, <2>3, FrameOfList
<1> QED  BY <1>2, <1>4, <1>5, <1>6 DEF Prepare

\* A successful strategy, whatever its division.
LEMMA SuccessTyped ==
  ASSUME NEW f, IsFrame(list, f), Typed, PostSucceeds(f)
  PROVE  Typed'
<1> USE DEF Typed, TypeOK, InRound
<1> DEFINE g == [f EXCEPT !.redraw = needsRedraw(f)]
<1>1. IsFrame(list, g)
  BY OtherRedraw
<1>2. /\ mCurrentFrame' = g /\ mModeOn' = TRUE /\ phase' = "compose"
      /\ overlay' = OverlayLayers(g)
      /\ UNCHANGED <<input, mPrevModeOn, roi, idle, display>>
  BY DEF PostSucceeds
<1> HIDE DEF g
<1>3. g.fb \subseteq Indices(list) /\ g.drop \subseteq Indices(list)
  BY <1>1, FrameOfList
<1>4. overlay' \subseteq Indices(list)
  BY <1>2, <1>3 DEF OverlayLayers
<1> QED  BY <1>1, <1>2, <1>3, <1>4 DEF input, idle, display

LEMMA NextTyped ==
  ASSUME Typed, phase = "try", NEW fbUpdate, NextStrategy(fbUpdate)
  PROVE  Typed'
<1>1. IsFrame(list, Fresh)
  BY ResetIsFrame DEF Fresh
<1> QED  BY <1>1, FrameOfList DEF Typed, TypeOK, InRound, NextStrategy, input, modes, idle, display

LEMMA SkipTyped == Typed /\ Skip => Typed'
BY DEF Typed, TypeOK, InRound, Skip, input, modes, idle, display

LEMMA TryTyped ==
  ASSUME Typed, phase = "try", NEW f, IsFrame(list, f),
         PostSucceeds(f) \/ PostFails(f)
  PROVE  Typed'
BY SuccessTyped, NextTyped DEF PostFails

Strategy ==
  \/ fullMDPComp \/ cacheBasedComp
  \/ \E stages \in 1 .. MaxPipes : loadBasedComp(stages)
  \/ \E secureOnly \in BOOLEAN : mdpOnlyLayersComp(secureOnly)
  \/ \E secureOnly \in BOOLEAN : videoOnlyComp(secureOnly)

Tries(f) == PostSucceeds(f) \/ PostFails(f)

\* A strategy gives up or tries a division of the list's layers.
LEMMA StrategyTries ==
  ASSUME Typed, Strategy
  PROVE  /\ phase = "try"
         /\ \/ Skip \/ NextStrategy(mFBUpdate)
            \/ \E f : IsFrame(list, f) /\ Tries(f)
<1>1. phase = "try"
  BY DEF Strategy, Trying, fullMDPComp, cacheBasedComp, loadBasedComp,
         mdpOnlyLayersComp, videoOnlyComp
<1>2. IsFrame(list, mCurrentFrame) /\ mCurrentFrame.drop \subseteq Indices(list)
  BY <1>1, FrameOfList DEF Typed, InRound
<1> DEFINE r == Reset(list, mCurrentFrame.drop)
           t == [r EXCEPT !.fbCount = @ - dropCount(r)]
           Done == \/ Skip \/ NextStrategy(mFBUpdate)
                   \/ \E f : IsFrame(list, f) /\ Tries(f)
<1>3. IsFrame(list, r)
  BY <1>2, ResetIsFrame
<1>4. IsFrame(list, t)
  <2>1. \A x : IsFrame(list, [r EXCEPT !.fb = r.fb, !.fbCount = x,
                                        !.mdpCount = r.mdpCount])
    BY <1>3, OtherDivision, FrameOfList
  <2>2. t = [r EXCEPT !.fb = r.fb, !.fbCount = r.fbCount - dropCount(r),
                      !.mdpCount = r.mdpCount]
    BY DEF Reset
  <2> QED  BY <2>1, <2>2
<1> HIDE DEF r, t
<1>5. ASSUME fullMDPComp PROVE Done
  BY <1>2, <1>5, FullIsFrame DEF fullMDPComp, Tries
<1>6. ASSUME cacheBasedComp PROVE Done
  <2> DEFINE f == updateLayerCache(list, r, updating)
             g == updateSecureRGB(list, updateYUV(list, f, FALSE))
  <2>1. IsFrame(list, Marked(list, g))
    BY <1>3, CacheIsFrame, YuvIsFrame, SecureIsFrame, MarkedIsFrame
  <2> QED  BY <1>6, <2>1 DEF cacheBasedComp, GiveUp, Tries, r
<1>7. ASSUME NEW stages, loadBasedComp(stages) PROVE Done
  BY <1>7, LoadIsFrame DEF loadBasedComp, Tries
<1>8. ASSUME NEW secureOnly, mdpOnlyLayersComp(secureOnly) PROVE Done
  <2> DEFINE g == updateSecureRGB(list, updateYUV(list, t, secureOnly))
  <2>1. IsFrame(list, Marked(list, g))
    BY <1>4, YuvIsFrame, SecureIsFrame, MarkedIsFrame
  <2> QED  BY <1>8, <2>1 DEF mdpOnlyLayersComp, GiveUp, Tries, r, t
<1>9. ASSUME NEW secureOnly, videoOnlyComp(secureOnly) PROVE Done
  <2> DEFINE f == updateYUV(list, t, secureOnly)
             g == [f EXCEPT !.fbZ = IF f.fbCount # 0 THEN f.mdpCount ELSE @]
  <2>1. IsFrame(list, g)
    BY <1>4, YuvIsFrame, OtherStage
  <2> QED  BY <1>9, <2>1 DEF videoOnlyComp, GiveUp, Tries, r, t
<1> QED  BY <1>1, <1>5, <1>6, <1>7, <1>8, <1>9 DEF Strategy

LEMMA StrategyTyped == Typed /\ Strategy => Typed'
BY StrategyTries, SkipTyped, NextTyped, TryTyped DEF Tries

LEMMA PausedTyped == Typed /\ Paused => Typed'
BY DEF Typed, TypeOK, InRound, Paused, ResetRound

LEMMA RoundTyped ==
  ASSUME Typed, Exhausted \/ Fallback \/ Compose
  PROVE  Typed'
<1> USE DEF Typed, TypeOK, InRound, input, modes, idle, display
<1>1. CASE Exhausted
  <2>1. IsFrame(list, Fresh)
    BY ResetIsFrame DEF Fresh
  <2> QED  BY <1>1, <2>1, FrameOfList DEF Exhausted
<1>2. CASE Fallback
  BY <1>2 DEF Fallback
<1>3. CASE Compose
  BY <1>3 DEF Compose, ComposeFB
<1> QED  BY <1>1, <1>2, <1>3

LEMMA DrawTyped ==
  ASSUME Typed, Draw \/ DrawPaused
  PROVE  Typed'
<1> USE DEF Typed, TypeOK, InRound, modes
<1>1. CASE Draw
  <2>1. wrong' \subseteq Cells
    BY <1>1 DEF Draw
  <2>2. sHandleTimeout' \in BOOLEAN /\ sIdleFallBack' = FALSE
    BY <1>1 DEF Draw
  <2> QED  BY <1>1, <2>1, <2>2 DEF Draw
<1>2. CASE DrawPaused
  BY <1>2 DEF DrawPaused
<1> QED  BY <1>1, <1>2

\* Every step keeps the types.
LEMMA StepTyped == Typed /\ [Next]_vars => Typed'
<1> SUFFICES ASSUME Typed, [Next]_vars  PROVE Typed'
  OBVIOUS
<1>1. CASE timeout_handler
  BY <1>1 DEF timeout_handler, Typed, TypeOK, InRound, input, modes, display
<1>2. CASE UNCHANGED vars
  BY <1>2 DEF vars, Typed, TypeOK, InRound, input, modes, idle, display
<1> QED
  BY <1>1, <1>2, BeginTyped, PausedTyped, StrategyTyped, RoundTyped, DrawTyped
     DEF Next, Strategy

\* Between the pipes and the framebuffer, a round divides the layers of its
\* own list, whatever the strategies, the driver and SurfaceFlinger do.
THEOREM Types == Spec => []TypeOK
<1>1. Typed => TypeOK
  BY DEF Typed
<1> QED  BY InitTyped, StepTyped, <1>1, PTL DEF Spec

----------------------------------------------------------------------------
(* What is kept of the framebuffer.                                        *)

Current(i) == i \notin old /\ \A c \in Cells : i \in Seen(c) => i \in target[c]

FrameLayers == mCurrentFrame.fb \ mCurrentFrame.drop
CacheLayers == mCachedFrame.fb \ mCachedFrame.drop

\* SurfaceFlinger draws what the frame leaves to the framebuffer, all of it,
\* or draws nothing and all of it is there.
Redrawn == FrameLayers \cap overlay = {}
Retained == Indices(list) \subseteq overlay /\ \A i \in FrameLayers : Current(i)

\* The cached flags say what the framebuffer holds: since the last round,
\* and during a round but for the layers that update.
CacheHolds ==
  /\ phase = "idle" => \A i \in CacheLayers : Current(i)
  /\ phase = "try" /\ ~geometry =>
       \A i \in CacheLayers : i \notin updating => Current(i)

\* A round without MDP composition leaves every layer to it.
CacheIsAll ==
  phase \in {"idle", "fallback", "compose", "draw"} /\ ~mModeOn
    /\ mCachedFrame.count = Len(list) => Indices(list) \subseteq CacheLayers

CacheIsOfFrame ==
  phase \in {"fallback", "compose", "draw"} => CacheLayers \subseteq FrameLayers

FrameHolds ==
  /\ phase = "try" => overlay = {}
  /\ phase \in {"fallback", "compose"} => Redrawn \/ Retained
  /\ phase = "draw" => \A i \in FrameLayers : Current(i)

Kept == CacheHolds /\ CacheIsAll /\ CacheIsOfFrame /\ FrameHolds

Holding == phase # "paused" /\ Kept

LEMMA InitHolding == Init => Holding
BY DEF Init, Holding, Kept, CacheHolds, CacheIsAll, CacheIsOfFrame, FrameHolds,
       CacheLayers, NoCache, Indices

\* A new round of the same geometry: only updates make what was held old.
LEMMA NewListHolds ==
  ASSUME NEW new, NEW geo \in BOOLEAN, NEW dmg, NewList(new, geo, dmg), ~geometry',
         NEW i, Current(i), i \notin updating'
  PROVE  list' = list /\ Current(i)'
<1>1. list' = list /\ target' = target /\ damage' = dmg
  BY DEF NewList
<1>2. old' = old \cup updating'
  BY <1>1 DEF NewList, updating
<1> QED  BY <1>1, <1>2 DEF Current, Seen, Above

LEMMA BeginHolding == Typed /\ Holding /\ Begin => Holding'
<1> SUFFICES ASSUME Typed, Holding, Begin  PROVE Holding'
  OBVIOUS
<1> USE DEF Holding, Kept
<1>1. PICK new \in setup.lists, geo \in BOOLEAN :
        \E dmg \in Damages(new) : NewList(new, geo, dmg)
  BY DEF Begin
<1>2. PICK dmg : NewList(new, geo, dmg)
  BY <1>1
<1>3. PICK connected, doable, full \in BOOLEAN : Prepare(connected, doable, full)
  BY DEF Begin
<1>4. phase = "idle" /\ mPrevModeOn' = mModeOn /\ mModeOn' = FALSE
  BY DEF Begin, ResetRound
<1>5. \A i \in CacheLayers : Current(i)
  BY <1>4 DEF CacheHolds
<1>6. CASE Unsupported
  <2>1. /\ mCachedFrame' = NoCache /\ overlay' = {} /\ phase' = "fallback"
        /\ Len(list') > MaxLayers
    BY <1>6 DEF Unsupported
  <2>2. Len(list') # 0
    BY <2>1, MDPCompAssumption
  <2> QED  BY <2>1, <2>2
           DEF CacheHolds, CacheIsAll, CacheIsOfFrame, FrameHolds, CacheLayers,
               NoCache, Redrawn
<1>7. CASE AvoidNew(connected)
  <2>1. /\ AvoidsComposition(connected)
        /\ mCurrentFrame' = [ResetFrame({}) EXCEPT !.redraw = FALSE]
        /\ mCachedFrame' = updateCounts(ResetFrame({}))
        /\ overlay' = Indices(list') /\ phase' = "fallback"
    BY <1>7 DEF AvoidNew
  <2>2. ~geometry' /\ updating' = {} /\ ~mModeOn
        /\ mCachedFrame.count = Len(list')
    BY <1>4, <2>1 DEF AvoidsComposition, updating
  <2>3. list' = list
    BY <1>2, <2>2 DEF NewList
  <2>4. Indices(list) \subseteq CacheLayers
    BY <1>4, <2>2, <2>3 DEF CacheIsAll
  <2>5. \A i \in Indices(list) : Current(i)'
    BY <1>2, <1>5, <2>2, <2>4, NewListHolds
  <2>6. FrameLayers' = Indices(list') /\ CacheLayers' = Indices(list')
    BY <2>1 DEF FrameLayers, CacheLayers, ResetFrame, Reset, updateCounts
  <2>7. Retained'
    BY <2>1, <2>3, <2>5, <2>6 DEF Retained
  <2> QED  BY <2>1, <2>6, <2>7
           DEF CacheHolds, CacheIsAll, CacheIsOfFrame, FrameHolds
<1>8. CASE Divide(doable, full)
  <2>1. overlay' = {}
    BY <1>8 DEF Divide
  <2>2. CASE ~doable
    <3>1. /\ phase' = "fallback"
          /\ mCachedFrame' = updateCounts(ResetFrame({}))
          /\ mCurrentFrame' = ResetFrame({})
      BY <1>8, <2>2 DEF Divide
    <3>2. FrameLayers' = Indices(list') /\ CacheLayers' = Indices(list')
      BY <3>1 DEF FrameLayers, CacheLayers, ResetFrame, Reset, updateCounts
    <3> QED  BY <2>1, <3>1, <3>2
             DEF CacheHolds, CacheIsAll, CacheIsOfFrame, FrameHolds, Redrawn
  <2>3. CASE doable
    <3>1. phase' = "try" /\ mCachedFrame' = mCachedFrame
      BY <1>8, <2>3 DEF Divide
    <3>2. CacheLayers' = CacheLayers
      BY <3>1 DEF CacheLayers
    <3>3. ~geometry' => \A i \in CacheLayers' : i \notin updating' => Current(i)'
      BY <1>2, <1>5, <3>2, NewListHolds
    <3> QED  BY <2>1, <3>1, <3>3 DEF CacheHolds, CacheIsAll, CacheIsOfFrame, FrameHolds
  <2> QED  BY <2>2, <2>3
<1> QED  BY <1>3, <1>6, <1>7, <1>8 DEF Prepare

\* A strategy that succeeds: if setRedraw finds the same frame, the cache
\* holds the framebuffer's layers and none of them updates; else all that is
\* not dropped is drawn.
LEMMA SuccessHolding ==
  ASSUME NEW f, IsFrame(list, f), phase = "try", Holding, PostSucceeds(f)
  PROVE  Holding'
<1> DEFINE g == [f EXCEPT !.redraw = needsRedraw(f)]
<1>1. g.fb = f.fb /\ g.drop = f.drop /\ g.redraw = needsRedraw(f)
  BY OtherRedraw
<1>2. /\ mCurrentFrame' = g /\ mModeOn' = TRUE /\ phase' = "compose"
      /\ mCachedFrame' = [count |-> Len(list), fb |-> g.fb, drop |-> g.drop]
      /\ overlay' = OverlayLayers(g)
      /\ UNCHANGED <<list, target, old>>
  BY DEF PostSucceeds, input, display
<1> HIDE DEF g
<1>3. FrameLayers' = f.fb \ f.drop /\ CacheLayers' = f.fb \ f.drop
  BY <1>1, <1>2 DEF FrameLayers, CacheLayers
<1>4. \A i : Current(i)' <=> Current(i)
  BY <1>2 DEF Current, Seen, Above
<1>5. CASE needsRedraw(f)
  <2>1. Redrawn'
    BY <1>1, <1>2, <1>3, <1>5 DEF OverlayLayers, Redrawn
  <2> QED  BY <1>2, <1>3, <2>1
           DEF Holding, Kept, CacheHolds, CacheIsAll, CacheIsOfFrame, FrameHolds
<1>6. CASE ~needsRedraw(f)
  <2>1. isSameFrame(f) /\ ~geometry
    BY <1>6 DEF needsRedraw
  <2>2. CacheLayers = f.fb \ f.drop /\ f.fb \cap updating = {}
    BY <2>1 DEF isSameFrame, CacheLayers
  <2>3. \A i \in f.fb \ f.drop : Current(i)
    BY <2>1, <2>2 DEF Holding, Kept, CacheHolds
  <2>4. Indices(list) \subseteq overlay'
    BY <1>1, <1>2, <1>6 DEF OverlayLayers
  <2>5. Retained'
    BY <1>2, <1>3, <1>4, <2>3, <2>4 DEF Retained
  <2> QED  BY <1>2, <1>3, <2>5
           DEF Holding, Kept, CacheHolds, CacheIsAll, CacheIsOfFrame, FrameHolds
<1> QED  BY <1>5, <1>6

\* A strategy that fails, or is skipped, leaves the cache alone.
LEMMA FailureHolding ==
  ASSUME phase = "try", Holding,
         \/ Skip
         \/ \E fbUpdate : NextStrategy(fbUpdate)
  PROVE  Holding'
<1>1. /\ phase' = "try" /\ mCachedFrame' = mCachedFrame
      /\ UNCHANGED <<list, geometry, damage, overlay, target, old>>
  BY DEF Skip, NextStrategy, input, display
<1>2. CacheLayers' = CacheLayers /\ updating' = updating
  BY <1>1 DEF CacheLayers, updating
<1>3. \A i : Current(i)' <=> Current(i)
  BY <1>1 DEF Current, Seen, Above
<1> QED  BY <1>1, <1>2, <1>3
         DEF Holding, Kept, CacheHolds, CacheIsAll, CacheIsOfFrame, FrameHolds

LEMMA StrategyHolding == Typed /\ Holding /\ Strategy => Holding'
BY StrategyTries, SuccessHolding, FailureHolding DEF Tries, PostFails

\* Steps that change neither the layers, nor the framebuffer, nor the cache.
LEMMA SameLayers ==
  ASSUME UNCHANGED <<list, damage, mCurrentFrame, mCachedFrame, target, old>>
  PROVE  /\ FrameLayers' = FrameLayers /\ CacheLayers' = CacheLayers
         /\ updating' = updating
         /\ \A i : Current(i)' <=> Current(i)
BY DEF FrameLayers, CacheLayers, updating, Current, Seen, Above

LEMMA ExhaustedHolding == Holding /\ Exhausted => Holding'
<1> SUFFICES ASSUME Holding, Exhausted  PROVE Holding'
  OBVIOUS
<1>1. /\ phase = "try" /\ phase' = "fallback"
      /\ mCurrentFrame' = Fresh /\ list' = list /\ overlay' = overlay
      /\ mCachedFrame' = [count |-> Len(list), fb |-> Indices(list), drop |-> {}]
  BY DEF Exhausted, input
<1>2. FrameLayers' = Indices(list) /\ CacheLayers' = Indices(list)
  BY <1>1 DEF FrameLayers, CacheLayers, Fresh, Reset
<1>3. Redrawn'
  BY <1>1 DEF Holding, Kept, FrameHolds, Redrawn
<1> QED  BY <1>1, <1>2, <1>3
         DEF Holding, Kept, CacheHolds, CacheIsAll, CacheIsOfFrame, FrameHolds

LEMMA FallbackHolding == Holding /\ Fallback => Holding'
<1> SUFFICES ASSUME Holding, Fallback  PROVE Holding'
  OBVIOUS
<1>1. /\ phase = "fallback" /\ phase' = "compose"
      /\ UNCHANGED <<list, damage, mCurrentFrame, mCachedFrame, mModeOn, overlay,
                     target, old>>
  BY DEF Fallback, input, modes, display
<1>2. (Redrawn \/ Retained)'
  <2>1. Redrawn \/ Retained
    BY <1>1 DEF Holding, Kept, FrameHolds
  <2>2. Redrawn => Redrawn'
    BY <1>1, SameLayers DEF Redrawn
  <2>3. Retained => Retained'
    BY <1>1, SameLayers DEF Retained
  <2> QED  BY <2>1, <2>2, <2>3
<1> QED  BY <1>1, <1>2, SameLayers
         DEF Holding, Kept, CacheHolds, CacheIsAll, CacheIsOfFrame, FrameHolds

\* The GPU draws all that is not overlay, once any layer is not.
LEMMA ComposeHolding == Typed /\ Holding /\ Compose => Holding'
<1> SUFFICES ASSUME Typed, Holding, Compose  PROVE Holding'
  OBVIOUS
<1>1. /\ phase = "compose" /\ phase' = "draw"
      /\ UNCHANGED <<list, mCurrentFrame, mCachedFrame, mModeOn, overlay>>
  BY DEF Compose, input, modes
<1>2. FrameLayers' = FrameLayers /\ CacheLayers' = CacheLayers
  BY <1>1 DEF FrameLayers, CacheLayers
<1>3. FrameLayers \subseteq Indices(list)
  BY <1>1 DEF Typed, TypeOK, FrameLayers
<1>4. \A c : Seen(c)' = Seen(c)
  BY <1>1 DEF Seen, Above
<1>5. ASSUME NEW i \in FrameLayers  PROVE Current(i)'
  <2>1. CASE Indices(list) \subseteq overlay
    <3>1. UNCHANGED <<target, old>>
      BY <2>1 DEF Compose, ComposeFB
    <3>2. Current(i)
      BY <1>1, <1>3, <1>5, <2>1 DEF Holding, Kept, FrameHolds, Redrawn, Retained
    <3> QED  BY <1>4, <3>1, <3>2 DEF Current
  <2>2. CASE ~(Indices(list) \subseteq overlay)
    <3>1. target' = [c \in Cells |-> Seen(c) \ overlay] /\ old' = {}
      BY <2>2 DEF Compose, ComposeFB
    <3>2. i \notin overlay
      BY <1>1, <1>5, <2>2 DEF Holding, Kept, FrameHolds, Redrawn, Retained
    <3> QED  BY <1>4, <3>1, <3>2 DEF Current
  <2> QED  BY <2>1, <2>2
<1> QED  BY <1>1, <1>2, <1>5
         DEF Holding, Kept, CacheHolds, CacheIsAll, CacheIsOfFrame, FrameHolds

LEMMA DrawHolding == Holding /\ Draw => Holding'
<1> SUFFICES ASSUME Holding, Draw  PROVE Holding'
  OBVIOUS
<1>1. /\ phase = "draw" /\ phase' = "idle"
      /\ UNCHANGED <<list, mCurrentFrame, mCachedFrame, mModeOn, target, old>>
  BY DEF Draw, modes
<1>2. /\ CacheLayers' = CacheLayers
      /\ \A i : Current(i)' <=> Current(i)
  BY <1>1 DEF CacheLayers, Current, Seen, Above
<1>3. \A i \in CacheLayers : Current(i)
  BY <1>1 DEF Holding, Kept, CacheIsOfFrame, FrameHolds
<1> QED  BY <1>1, <1>2, <1>3
         DEF Holding, Kept, CacheHolds, CacheIsAll, CacheIsOfFrame, FrameHolds

\* The timer, and steps that change nothing.
LEMMA StutterHolding ==
  ASSUME Holding, timeout_handler \/ UNCHANGED vars
  PROVE  Holding'
<1>1. UNCHANGED <<phase, list, geometry, damage, mCurrentFrame, mCachedFrame,
                  mModeOn, overlay, target, old>>
  BY DEF timeout_handler, vars, input, modes, display
<1>2. Redrawn => Redrawn'
  BY <1>1, SameLayers DEF Redrawn
<1>3. Retained => Retained'
  BY <1>1, SameLayers DEF Retained
<1> QED  BY <1>1, <1>2, <1>3, SameLayers
         DEF Holding, Kept, CacheHolds, CacheIsAll, CacheIsOfFrame, FrameHolds

NeverPaused == \A s \in Setups : ~s.pauses

LEMMA StepHolding ==
  NeverPaused /\ Typed /\ Holding /\ [Next]_vars => Holding'
<1> SUFFICES ASSUME NeverPaused, Typed, Holding, [Next]_vars  PROVE Holding'
  OBVIOUS
<1>1. ~Paused
  BY DEF NeverPaused, Typed, TypeOK, Paused
<1>2. ~DrawPaused
  BY DEF Holding, DrawPaused
<1> QED
  BY <1>1, <1>2, BeginHolding, StrategyHolding, ExhaustedHolding,
     FallbackHolding, ComposeHolding, DrawHolding, StutterHolding
     DEF Next, Strategy

\* On displays that are never paused, whatever the lists, the strategies, the
\* driver's answers and the regions of interest: the framebuffer that a frame
\* shows, drawn or kept, holds every layer left to it since its last update.
THEOREM FramebufferHolds == ASSUME NeverPaused PROVE Spec => []PresentInFB
<1>1. Holding => PresentInFB
  BY DEF Holding, Kept, FrameHolds, PresentInFB, FrameLayers, Current
<1>2. Init => Typed /\ Holding
  BY InitTyped, InitHolding
<1>3. Typed /\ Holding /\ [Next]_vars => (Typed /\ Holding)'
  BY StepTyped, StepHolding
<1> QED  BY <1>1, <1>2, <1>3, PTL DEF Spec

Unfolds(g, S, Stop, next, base) ==
  \A s \in S : g[s] = IF s \in Stop THEN base[s] ELSE g[next[s]]

\* A function that calls itself last, if at all, is defined: the pairs of
\* argument and result are the least set closed under its equation, and a call
\* that does not end may return anything.
LEMMA TailRecursion ==
  ASSUME NEW S, NEW V, NEW any \in V, NEW Stop, NEW next \in [S -> S],
         NEW base \in [S -> V]
  PROVE  \E g \in [S -> V] : Unfolds(g, S, Stop, next, base)
<1> DEFINE Closed(R) ==
             /\ \A s \in S : s \in Stop => <<s, base[s]>> \in R
             /\ \A s \in S, v \in V :
                  s \notin Stop /\ <<next[s], v>> \in R => <<s, v>> \in R
           Least == {p \in S \X V : \A R \in SUBSET (S \X V) : Closed(R) => p \in R}
<1>1. Closed(Least)
  <2>1. ASSUME NEW s \in S, s \in Stop  PROVE <<s, base[s]>> \in Least
    BY <2>1
  <2>2. ASSUME NEW s \in S, NEW v \in V, s \notin Stop, <<next[s], v>> \in Least
        PROVE  <<s, v>> \in Least
    BY <2>2
  <2> QED  BY <2>1, <2>2
<1>2. ASSUME NEW R \in SUBSET (S \X V), Closed(R)  PROVE Least \subseteq R
  BY <1>2
<1> HIDE DEF Least
<1>3. Least \subseteq S \X V
  BY DEF Least
<1>4. ASSUME NEW s \in S, NEW v \in V, <<s, v>> \in Least, s \in Stop
      PROVE  v = base[s]
  <2> SUFFICES ASSUME v # base[s]  PROVE FALSE
    OBVIOUS
  <2> DEFINE R == Least \ {<<s, v>>}
  <2>1. Closed(R)
    BY <1>1, <1>4
  <2>2. R \in SUBSET (S \X V)
    BY <1>3
  <2> QED  BY <1>2, <1>4, <2>1, <2>2
<1>5. ASSUME NEW s \in S, NEW v \in V, <<s, v>> \in Least, s \notin Stop
      PROVE  <<next[s], v>> \in Least
  <2> SUFFICES ASSUME <<next[s], v>> \notin Least  PROVE FALSE
    OBVIOUS
  <2> DEFINE R == Least \ {<<s, v>>}
  <2>1. Closed(R)
    BY <1>1, <1>5
  <2>2. R \in SUBSET (S \X V)
    BY <1>3
  <2> QED  BY <1>2, <1>5, <2>1, <2>2
<1>6. ASSUME NEW s \in S, NEW v \in V, NEW w \in V,
             <<s, v>> \in Least, <<s, w>> \in Least
      PROVE  v = w
  <2> DEFINE U == {p \in Least : \A x \in V : <<p[1], x>> \in Least => x = p[2]}
  <2>1. ASSUME NEW t \in S, t \in Stop  PROVE <<t, base[t]>> \in U
    BY <1>1, <1>4, <2>1
  <2>2. ASSUME NEW t \in S, NEW x \in V, t \notin Stop, <<next[t], x>> \in U
        PROVE  <<t, x>> \in U
    <3>1. <<t, x>> \in Least
      BY <1>1, <2>2
    <3>2. \A y \in V : <<next[t], y>> \in Least => y = x
      BY <2>2
    <3> QED  BY <1>5, <2>2, <3>1, <3>2
  <2>3. U \in SUBSET (S \X V)
    BY <1>3
  <2> HIDE DEF U
  <2>4. Closed(U)
    BY <2>1, <2>2
  <2>5. Least \subseteq U
    BY <1>2, <2>3, <2>4
  <2> QED  BY <1>6, <2>5 DEF U
<1> DEFINE Ends(s) == \E v \in V : <<s, v>> \in Least
           Result(s) == CHOOSE v \in V : <<s, v>> \in Least
           g == [s \in S |-> IF Ends(s) THEN Result(s) ELSE any]
<1>7. ASSUME NEW s \in S  PROVE g[s] = IF s \in Stop THEN base[s] ELSE g[next[s]]
  <2>1. g[s] = IF Ends(s) THEN Result(s) ELSE any
    OBVIOUS
  <2>2. Ends(s) => Result(s) \in V /\ <<s, Result(s)>> \in Least
    OBVIOUS
  <2>3. CASE s \in Stop
    <3>1. base[s] \in V /\ <<s, base[s]>> \in Least
      BY <1>1, <2>3
    <3>2. Ends(s)
      BY <3>1
    <3> HIDE DEF Ends, Result, g
    <3> QED  BY <1>6, <2>1, <2>2, <2>3, <3>1, <3>2
  <2>4. CASE s \notin Stop
    <3>1. next[s] \in S
      OBVIOUS
    <3>2. g[next[s]] = IF Ends(next[s]) THEN Result(next[s]) ELSE any
      BY <3>1
    <3>3. Ends(next[s]) => Result(next[s]) \in V /\ <<next[s], Result(next[s])>> \in Least
      OBVIOUS
    <3>4. \A v \in V : <<s, v>> \in Least <=> <<next[s], v>> \in Least
      BY <1>1, <1>5, <2>4
    <3>5. Ends(s) <=> Ends(next[s])
      BY <3>4
    <3>6. Ends(s) => Result(s) = Result(next[s])
      <4> HIDE DEF Result, Ends, g
      <4> QED BY <1>6, <2>2, <3>3, <3>4, <3>5
    <3> HIDE DEF Ends, Result, g
    <3> QED  BY <2>1, <2>4, <3>2, <3>5, <3>6
  <2> QED  BY <2>3, <2>4
<1>8. g \in [S -> V]
  <2>1. \A s \in S : Ends(s) => Result(s) \in V
    OBVIOUS
  <2> HIDE DEF Ends, Result
  <2> QED  BY <2>1
<1> HIDE DEF g
<1> QED  BY <1>7, <1>8 DEF Unfolds

\* The fields of a scan; the best batch so far may be anything.
ScansOf(Best) ==
  [i : Nat, start : Nat, end : Nat, count : Nat, z : Int, first : Nat,
   above : Nat, dropped : Nat, best : Best]

LEMMA TakeFields ==
  ASSUME NEW B, NEW s \in ScansOf(B)
  PROVE  LET t == Take(s)
         IN  /\ t \in ScansOf(B) /\ t.i = s.i + 1 /\ t.count = s.count + 1 /\ t.end = s.i
             /\ t.start = s.start /\ t.z = s.z /\ t.above = s.above
             /\ t.first = s.first /\ t.dropped = s.dropped /\ t.best = s.best
<1>2. s.i \in Nat /\ s.i + 1 \in Nat /\ s.count + 1 \in Nat
  BY DEF ScansOf
<1> DEFINE x == s.count + 1
           y == s.i + 1
           e == s.i
           t == [s EXCEPT !.count = x, !.end = e, !.i = y]
<1>3. Take(s) = t
  BY Zenon DEF Take
<1>4. x \in Nat /\ y \in Nat /\ e \in Nat
  BY <1>2
<1> HIDE DEF x, y, e
<1>5. /\ t \in ScansOf(B) /\ t.i = y /\ t.count = x /\ t.end = e
      /\ t.start = s.start /\ t.z = s.z /\ t.above = s.above
      /\ t.first = s.first /\ t.dropped = s.dropped /\ t.best = s.best
  BY <1>4 DEF ScansOf
<1> HIDE DEF t
<1> QED  BY <1>3, <1>5 DEF x, y, e

LEMMA PushFields ==
  ASSUME NEW B, NEW s \in ScansOf(B)
  PROVE  LET t == Push(s)
         IN  /\ t \in ScansOf(B) /\ t.i = s.i + 1 /\ t.count = s.count + 1 /\ t.end = s.i
             /\ t.start = s.start /\ t.z = s.z + s.above /\ t.above = 0
             /\ t.first = IF s.first = 0 THEN s.i ELSE s.first
             /\ t.dropped = s.dropped /\ t.best = s.best
<1> DEFINE r == Take(s)
<1>1. /\ r \in ScansOf(B) /\ r.i = s.i + 1 /\ r.count = s.count + 1 /\ r.end = s.i
      /\ r.start = s.start /\ r.z = s.z /\ r.above = s.above
      /\ r.first = s.first /\ r.dropped = s.dropped /\ r.best = s.best
  BY TakeFields
<1> HIDE DEF r
<1>2. ASSUME NEW x \in Int, NEW y \in Nat
      PROVE  LET t == [r EXCEPT !.z = x, !.above = 0, !.first = y]
             IN  /\ t \in ScansOf(B) /\ t.z = x /\ t.above = 0 /\ t.first = y
                 /\ t.i = r.i /\ t.count = r.count /\ t.end = r.end
                 /\ t.start = r.start /\ t.dropped = r.dropped /\ t.best = r.best
  BY <1>1 DEF ScansOf
<1> DEFINE x == r.z + s.above
           y == IF r.first = 0 THEN s.i ELSE r.first
           t == [r EXCEPT !.z = x, !.above = 0, !.first = y]
<1>3. Push(s) = t
  BY Zenon DEF Push, r
<1>4. x \in Int /\ y \in Nat
  BY <1>1 DEF ScansOf
<1> HIDE DEF x, y
<1>5. /\ t \in ScansOf(B) /\ t.z = x /\ t.above = 0 /\ t.first = y
      /\ t.i = r.i /\ t.count = r.count /\ t.end = r.end
      /\ t.start = r.start /\ t.dropped = r.dropped /\ t.best = r.best
  BY <1>2, <1>4
<1> HIDE DEF t
<1> QED  BY <1>1, <1>3, <1>5 DEF x, y

Batches == [count : Nat, start : Nat, end : Nat, z : Int]

Better(s) ==
  IF s.count > s.best.count
  THEN [count |-> s.count, start |-> s.start, end |-> s.end, z |-> s.z]
  ELSE s.best

LEMMA ScansAre == Scans = ScansOf(Batches)
BY DEF Scans, ScansOf, Batches

LEMMA BetterType ==
  ASSUME NEW s \in ScansOf(Batches)
  PROVE  Better(s) \in Batches
BY DEF Better, ScansOf, Batches

\* A scan that starts at a layer.
LEMMA StartFields ==
  ASSUME NEW j \in Nat, NEW dropped \in Nat, NEW B, NEW best \in B
  PROVE  LET t == Start(j, dropped, best)
         IN  /\ t \in ScansOf(B) /\ t.i = j /\ t.start = j /\ t.end = j /\ t.count = 0
             /\ t.z = j - 1 - dropped /\ t.first = 0 /\ t.above = 0
             /\ t.dropped = dropped /\ t.best = best
BY DEF Start, ScansOf

LEMMA CloseFields ==
  ASSUME NEW s \in ScansOf(Batches), NEW j \in Nat
  PROVE  LET t == Close(s, j)
         IN  /\ t \in ScansOf(Batches) /\ t.i = j /\ t.start = j /\ t.end = j
             /\ t.count = 0 /\ t.z = j - 1 - s.dropped /\ t.first = 0 /\ t.above = 0
             /\ t.dropped = s.dropped /\ t.best = Better(s)
<1>1. Close(s, j) = Start(j, s.dropped, Better(s))
  BY DEF Close, Better
<1>2. s.dropped \in Nat /\ Better(s) \in Batches
  BY BetterType DEF ScansOf
<1> QED  BY <1>1, <1>2, StartFields

\* The steps of a scan, as ScanLayer chooses between them.
Passed(s) == [s EXCEPT !.i = @ + 1, !.above = @ + 1]
Dropped(s)  == [s EXCEPT !.i = @ + 1, !.dropped = @ + 1]

LEMMA PassedFields ==
  ASSUME NEW B, NEW s \in ScansOf(B)
  PROVE  LET t == Passed(s)
             u == Dropped(s)
         IN  /\ t \in ScansOf(B) /\ t.i = s.i + 1 /\ t.above = s.above + 1
             /\ t.start = s.start /\ t.end = s.end /\ t.count = s.count /\ t.z = s.z
             /\ t.first = s.first /\ t.dropped = s.dropped /\ t.best = s.best
             /\ u \in ScansOf(B) /\ u.i = s.i + 1 /\ u.dropped = s.dropped + 1
             /\ u.start = s.start /\ u.end = s.end /\ u.count = s.count /\ u.z = s.z
             /\ u.first = s.first /\ u.above = s.above /\ u.best = s.best
<1> DEFINE x == s.i + 1
           y == s.above + 1
           d == s.dropped + 1
           t == [s EXCEPT !.i = x, !.above = y]
           u == [s EXCEPT !.i = x, !.dropped = d]
<1>1. Passed(s) = t /\ Dropped(s) = u
  BY Zenon DEF Passed, Dropped
<1>2. x \in Nat /\ y \in Nat /\ d \in Nat
  BY DEF ScansOf
<1> HIDE DEF x, y, d
<1>3. /\ t \in ScansOf(B) /\ t.i = x /\ t.above = y
      /\ t.start = s.start /\ t.end = s.end /\ t.count = s.count /\ t.z = s.z
      /\ t.first = s.first /\ t.dropped = s.dropped /\ t.best = s.best
  BY <1>2 DEF ScansOf
<1>4. /\ u \in ScansOf(B) /\ u.i = x /\ u.dropped = d
      /\ u.start = s.start /\ u.end = s.end /\ u.count = s.count /\ u.z = s.z
      /\ u.first = s.first /\ u.above = s.above /\ u.best = s.best
  BY <1>2 DEF ScansOf
<1> HIDE DEF t, u
<1> QED  BY <1>1, <1>3, <1>4 DEF x, y, d

\* The layer the scan is at ends its batch, moves it or joins it.
Joins(ls, f, s)  ==
  s.above = 0 \/ ~intersectingUpdatingLayers(ls, f, s.start, s.i - 1, s.i)
Pushes(ls, f, s) == ~Joins(ls, f, s) /\ canPushBatchToTop(ls, f, s.start, s.i)
Returns(ls, f, s) == ~Joins(ls, f, s) /\ ~canPushBatchToTop(ls, f, s.start, s.i)

LEMMA ScanSteps ==
  ASSUME NEW ls, NEW f, NEW s \in ScansOf(Batches)
  PROVE  \/ s.i \notin f.fb /\ s.count = 0 /\ ScanLayer(ls, f, s) = Close(s, s.i + 1)
         \/ s.i \notin f.fb /\ s.count > 0 /\ ScanLayer(ls, f, s) = Passed(s)
         \/ s.i \in f.fb \cap f.drop /\ ScanLayer(ls, f, s) = Dropped(s)
         \/ s.i \in f.fb \ f.drop /\ Joins(ls, f, s) /\ ScanLayer(ls, f, s) = Take(s)
         \/ s.i \in f.fb \ f.drop /\ Pushes(ls, f, s) /\ ScanLayer(ls, f, s) = Push(s)
         \/ /\ s.i \in f.fb \ f.drop /\ Returns(ls, f, s)
            /\ ScanLayer(ls, f, s) = Close(s, IF s.first > 0 THEN s.first ELSE s.i)
<1>1. s.count \in Nat
  BY DEF ScansOf
<1> DEFINE step == ScanLayer(ls, f, s)
           other == Close(s, IF s.first > 0 THEN s.first ELSE s.i)
<1>2. CASE s.i \notin f.fb /\ s.count = 0
  <2>1. /\ ~(s.i \notin f.fb /\ s.count > 0) /\ ~(s.i \in f.fb \cap f.drop)
        /\ s.i \notin f.fb /\ s.count = 0
    BY <1>1, <1>2
  <2>2. step = Close(s, s.i + 1)
    BY <2>1, Zenon DEF ScanLayer
  <2> QED  BY <1>2, <2>2
<1>3. CASE s.i \notin f.fb /\ s.count > 0
  <2>1. /\ ~(s.i \notin f.fb /\ s.count = 0) /\ ~(s.i \in f.fb \cap f.drop)
        /\ s.i \notin f.fb /\ s.count > 0
    BY <1>1, <1>3
  <2>2. step = Passed(s)
    BY <2>1, Zenon DEF ScanLayer, Passed
  <2> QED  BY <1>3, <2>2
<1>4. CASE s.i \in f.fb \cap f.drop
  <2>1. step = Dropped(s)
    BY <1>4, Zenon DEF ScanLayer, Dropped
  <2> QED  BY <1>4, <2>1
<1>5. CASE s.i \in f.fb \ f.drop
  <2>1. step = IF Joins(ls, f, s) THEN Take(s)
               ELSE IF canPushBatchToTop(ls, f, s.start, s.i) THEN Push(s)
               ELSE other
    BY <1>5, Zenon DEF ScanLayer, Joins
  <2> HIDE DEF step, other
  <2>2. \/ Joins(ls, f, s) /\ step = Take(s)
        \/ Pushes(ls, f, s) /\ step = Push(s)
        \/ Returns(ls, f, s) /\ step = other
    BY <2>1, Zenon DEF Pushes, Returns
  <2> QED  BY <1>5, <2>2 DEF step, other
<1> QED  BY <1>1, <1>2, <1>3, <1>4, <1>5

LEMMA ScanTypes ==
  ASSUME NEW ls, NEW f, NEW s \in Scans
  PROVE  ScanLayer(ls, f, s) \in Scans
<1>1. s \in ScansOf(Batches)
  BY ScansAre
<1>2. s.i \in Nat /\ s.i + 1 \in Nat /\ s.first \in Nat
  BY <1>1 DEF ScansOf
<1> DEFINE other == IF s.first > 0 THEN s.first ELSE s.i
<1>3. other \in Nat
  BY <1>2
<1> HIDE DEF other
<1>4. /\ Close(s, s.i + 1) \in ScansOf(Batches) /\ Close(s, other) \in ScansOf(Batches)
      /\ Passed(s) \in ScansOf(Batches) /\ Dropped(s) \in ScansOf(Batches)
      /\ Take(s) \in ScansOf(Batches) /\ Push(s) \in ScansOf(Batches)
  BY <1>1, <1>2, <1>3, CloseFields, PassedFields, TakeFields, PushFields
<1>5. \/ ScanLayer(ls, f, s) = Close(s, s.i + 1)
      \/ ScanLayer(ls, f, s) = Passed(s)
      \/ ScanLayer(ls, f, s) = Dropped(s)
      \/ ScanLayer(ls, f, s) = Take(s)
      \/ ScanLayer(ls, f, s) = Push(s)
      \/ ScanLayer(ls, f, s) = Close(s, other)
  BY <1>1, ScanSteps DEF other
<1> QED  BY <1>4, <1>5, ScansAre

\* The recursion of getBatch is defined: it unfolds at every scan.
LEMMA ScanEquation ==
  ASSUME NEW ls, NEW f, NEW s \in Scans
  PROVE  Scan(ls, f)[s] = IF s.i <= Len(ls) THEN Scan(ls, f)[ScanLayer(ls, f, s)]
                                            ELSE Better(s)
<1> DEFINE Stop == {t \in Scans : ~(t.i <= Len(ls))}
           next == [t \in Scans |-> ScanLayer(ls, f, t)]
           base == [t \in Scans |-> Close(t, t.i).best]
           Step(g) == [t \in Scans |-> IF t.i <= Len(ls) THEN g[ScanLayer(ls, f, t)]
                                                         ELSE Close(t, t.i).best]
<1>1. ASSUME NEW t \in Scans  PROVE Close(t, t.i).best = Better(t) /\ Better(t) \in Batches
  <2>1. t \in ScansOf(Batches) /\ t.i \in Nat
    BY ScansAre DEF ScansOf
  <2> QED  BY <2>1, CloseFields, BetterType
<1>2. base \in [Scans -> Batches]
  BY <1>1
<1>3. next \in [Scans -> Scans]
  BY ScanTypes
<1>4. PICK g \in [Scans -> Batches] :
        Unfolds(g, Scans, Stop, next, base)
  <2>1. Better(s) \in Batches
    BY <1>1
  <2> HIDE DEF Stop, next, base
  <2> QED  BY <1>2, <1>3, <2>1, TailRecursion
<1>5. g = Step(g)
  <2>1. \A t \in Scans : g[t] = IF t.i <= Len(ls) THEN g[ScanLayer(ls, f, t)]
                                                 ELSE Close(t, t.i).best
    BY <1>4 DEF Unfolds
  <2> DEFINE k == Step(g)
  <2>2. \A t \in Scans : g[t] = k[t]
    BY <2>1
  <2>3. k = [t \in Scans |-> k[t]] /\ g = [t \in Scans |-> g[t]]
    OBVIOUS
  <2> HIDE DEF k
  <2>4. g = k
    BY <2>2, <2>3
  <2> QED  BY <2>4 DEF k
<1> HIDE DEF Step
<1>6. Scan(ls, f) = CHOOSE g_ : g_ = Step(g_)
  BY DEF Scan, Step
<1>7. Scan(ls, f) = Step(Scan(ls, f))
  BY <1>5, <1>6, Zenon
<1>8. Step(Scan(ls, f))[s] = IF s.i <= Len(ls) THEN Scan(ls, f)[ScanLayer(ls, f, s)]
                                               ELSE Close(s, s.i).best
  BY DEF Step
<1> QED  BY <1>1, <1>7, <1>8

LEMMA SmallestNat ==
  ASSUME NEW T, T \subseteq Nat, T # {}
  PROVE  \E x \in T : \A y \in T : x <= y
<1>1. PICK x \in T : \A y \in T : <<y, x>> \notin OpToRel(<, Nat)
  BY WFMin, NatLessThanWellFounded, Zenon
<1>2. \A y \in T : ~(y < x)
  BY <1>1, Zenon DEF OpToRel
<1>3. \A y \in T : x <= y
  BY <1>2
<1> QED  BY <1>3

\* A scan ends: each step starts the batch higher or takes it one layer
\* further.  What the steps keep, whatever ends with it has at the end.
LEMMA ScanInduction ==
  ASSUME NEW ls, NEW f, NEW n \in Nat, Len(ls) = n, NEW I, NEW R,
         \A s \in I : s \in Scans /\ s.start <= n + 1 /\ s.i <= n + 1,
         \A s \in I : s.i <= n =>
            /\ ScanLayer(ls, f, s) \in I
            /\ \/ ScanLayer(ls, f, s).start > s.start
               \/ /\ ScanLayer(ls, f, s).start = s.start
                  /\ ScanLayer(ls, f, s).i = s.i + 1,
         \A s \in I : s.i > n => Better(s) \in R
  PROVE  \A s \in I : Scan(ls, f)[s] \in R
<1> DEFINE Bad == {s \in I : Scan(ls, f)[s] \notin R}
<1> SUFFICES ASSUME Bad # {}  PROVE FALSE
  OBVIOUS
<1>1. \A s \in Bad : /\ s \in Scans /\ s.start \in Nat /\ s.i \in Nat
                     /\ s.start <= n + 1 /\ s.i <= n + 1
  BY ScansAre DEF ScansOf
<1>2. \A s \in Bad : s.i <= n /\ ScanLayer(ls, f, s) \in Bad
  <2> TAKE s \in Bad
  <2>1. s \in Scans /\ s.i \in Nat /\ s \in I
    BY <1>1
  <2>2. Scan(ls, f)[s] = IF s.i <= n THEN Scan(ls, f)[ScanLayer(ls, f, s)] ELSE Better(s)
    BY <2>1, ScanEquation
  <2>3. s.i <= n
    BY <2>1, <2>2
  <2> QED  BY <2>1, <2>2, <2>3
<1>3. \A s \in Bad : \/ ScanLayer(ls, f, s).start > s.start
                     \/ /\ ScanLayer(ls, f, s).start = s.start
                        /\ ScanLayer(ls, f, s).i = s.i + 1
  BY <1>2
<1> HIDE DEF Bad
<1> DEFINE A == {a \in Nat : \E s \in Bad : a = n + 1 - s.start}
<1>4. PICK a \in A : \A b \in A : a <= b
  <2>1. \A s \in Bad : n + 1 - s.start \in Nat
    BY <1>1
  <2>2. A # {} /\ A \subseteq Nat
    BY <2>1
  <2> HIDE DEF A
  <2> QED  BY <2>2, SmallestNat
<1> DEFINE B == {b \in Nat : \E s \in Bad : a = n + 1 - s.start /\ b = n + 1 - s.i}
<1>5. PICK b \in B : \A c \in B : b <= c
  <2>1. \A s \in Bad : n + 1 - s.i \in Nat
    BY <1>1
  <2>2. B # {} /\ B \subseteq Nat
    BY <2>1
  <2> HIDE DEF B
  <2> QED  BY <2>2, SmallestNat
<1>6. PICK s \in Bad : a = n + 1 - s.start /\ b = n + 1 - s.i
  OBVIOUS
<1> DEFINE t == ScanLayer(ls, f, s)
<1>7. t \in Bad /\ s.i <= n /\ (t.start > s.start \/ (t.start = s.start /\ t.i = s.i + 1))
  BY <1>2, <1>3
<1> HIDE DEF t, A, B
<1>10. /\ t.start \in Nat /\ t.i \in Nat /\ t.start <= n + 1 /\ t.i <= n + 1
  BY <1>1, <1>7
<1>11. /\ s.start \in Nat /\ s.i \in Nat /\ s.start <= n + 1 /\ s.i <= n + 1
  BY <1>1
<1>12. n + 1 - t.start \in Nat /\ n + 1 - t.i \in Nat
  BY <1>10
<1>8. CASE t.start > s.start
  <2>1. n + 1 - t.start \in A
    BY <1>7, <1>12 DEF A
  <2>2. n + 1 - t.start < a
    BY <1>6, <1>8, <1>10, <1>11
  <2>3. a <= n + 1 - t.start
    BY <1>4, <2>1
  <2> QED  BY <1>6, <1>10, <1>11, <2>2, <2>3
<1>9. CASE t.start = s.start /\ t.i = s.i + 1
  <2>1. n + 1 - t.i \in B
    BY <1>6, <1>7, <1>9, <1>12 DEF B
  <2>2. n + 1 - t.i < b
    BY <1>6, <1>9, <1>10, <1>11
  <2>3. b <= n + 1 - t.i
    BY <1>5, <2>1
  <2> QED  BY <1>6, <1>10, <1>11, <2>2, <2>3
<1> QED  BY <1>7, <1>8, <1>9

\* The layers of the framebuffer among some of the list.
Batched(f, a, b) == {k \in a .. b : k \in f.fb \ f.drop}

LEMMA BatchedFinite ==
  ASSUME NEW f, NEW a \in Int, NEW b \in Int
  PROVE  IsFiniteSet(Batched(f, a, b)) /\ Cardinality(Batched(f, a, b)) \in Nat
<1>1. IsFiniteSet(Batched(f, a, b))
  BY FS_Interval, FS_Subset DEF Batched
<1> QED  BY <1>1, FS_CardinalityType

LEMMA BatchedNext ==
  ASSUME NEW f, NEW a \in Int, NEW b \in Int
  PROVE  /\ b < a => Cardinality(Batched(f, a, b)) = 0
         /\ a <= b /\ b \notin f.fb \ f.drop => Batched(f, a, b) = Batched(f, a, b - 1)
         /\ a <= b /\ b \in f.fb \ f.drop =>
              Cardinality(Batched(f, a, b)) = Cardinality(Batched(f, a, b - 1)) + 1
<1>1. ASSUME b < a  PROVE Cardinality(Batched(f, a, b)) = 0
  <2>1. Batched(f, a, b) = {}
    BY <1>1 DEF Batched
  <2> QED  BY <2>1, FS_EmptySet
<1>2. ASSUME a <= b, b \notin f.fb \ f.drop
      PROVE  Batched(f, a, b) = Batched(f, a, b - 1)
  BY <1>2 DEF Batched
<1>3. ASSUME a <= b, b \in f.fb \ f.drop
      PROVE  Cardinality(Batched(f, a, b)) = Cardinality(Batched(f, a, b - 1)) + 1
  <2>1. Batched(f, a, b) = Batched(f, a, b - 1) \cup {b} /\ b \notin Batched(f, a, b - 1)
    BY <1>3 DEF Batched
  <2>2. IsFiniteSet(Batched(f, a, b - 1))
    BY BatchedFinite
  <2> QED  BY <2>1, <2>2, FS_AddElement
<1> QED  BY <1>1, <1>2, <1>3

\* A batch found: it counts the layers between its ends, it has a stage only
\* if it has layers, and always then if nothing is dropped.
BatchOK(f, b) ==
  /\ b \in Batches
  /\ b.count = Cardinality(Batched(f, b.start, b.end))
  /\ b.count = 0 => b.z < 0
  /\ f.drop = {} /\ b.count > 0 => b.z >= 0

\* A scan under way in the same way; what it has passed without a batch has
\* no layer for one.
ScanOK(n, f, s) ==
  /\ s \in Scans /\ 1 <= s.start /\ s.start <= s.i /\ s.i <= n + 1
  /\ s.first = 0 \/ (s.start < s.first /\ s.first < s.i)
  /\ s.count = 0 => s.above = 0
  /\ s.count = Cardinality(Batched(f, s.start, s.i - 1))
  /\ s.count > 0 => /\ s.start <= s.end /\ s.end < s.i
                    /\ \A k \in s.end + 1 .. s.i - 1 : k \notin f.fb \ f.drop
  /\ BatchOK(f, s.best)
  /\ s.best.count = 0 /\ s.count = 0 => \A k \in 1 .. s.i - 1 : k \notin f.fb \ f.drop
  /\ f.drop = {} => s.dropped = 0 /\ s.z >= 0

LEMMA BetterOK ==
  ASSUME NEW n \in Nat, NEW f, NEW s, ScanOK(n, f, s)
  PROVE  /\ BatchOK(f, Better(s))
         /\ Better(s).count = 0 => s.count = 0 /\ s.best.count = 0
<1>1. s \in ScansOf(Batches)
  BY ScansAre DEF ScanOK
<1>2. /\ s.count \in Nat /\ s.start \in Nat /\ s.end \in Nat /\ s.z \in Int /\ s.i \in Nat
      /\ s.best \in Batches /\ s.best.count \in Nat
  BY <1>1 DEF ScansOf, Batches
<1>3. CASE s.count > s.best.count
  <2> DEFINE b == [count |-> s.count, start |-> s.start, end |-> s.end, z |-> s.z]
  <2>1. Better(s) = b
    BY <1>3 DEF Better
  <2>2. s.count > 0
    BY <1>2, <1>3
  <2>3. Batched(f, s.start, s.end) = Batched(f, s.start, s.i - 1)
    BY <1>2, <2>2 DEF ScanOK, Batched
  <2>4. b \in Batches /\ b.count = s.count /\ b.start = s.start /\ b.end = s.end /\ b.z = s.z
    BY <1>2 DEF Batches
  <2> HIDE DEF b
  <2> QED  BY <1>2, <2>1, <2>2, <2>3, <2>4 DEF ScanOK, BatchOK
<1>4. CASE ~(s.count > s.best.count)
  <2>1. Better(s) = s.best
    BY <1>4 DEF Better
  <2> QED  BY <1>2, <1>4, <2>1 DEF ScanOK
<1> QED  BY <1>3, <1>4

LEMMA StartOK ==
  ASSUME NEW n \in Nat, NEW f, f.fb \subseteq 1 .. n
  PROVE  ScanOK(n, f, Start(1, 0, NoBatch))
<1> DEFINE s == Start(1, 0, NoBatch)
<1>1. NoBatch \in Batches
  BY DEF NoBatch, Batches
<1>2. s \in ScansOf(Batches) /\ s.i = 1 /\ s.start = 1 /\ s.end = 1 /\ s.count = 0
      /\ s.z = 0 /\ s.first = 0 /\ s.above = 0 /\ s.dropped = 0 /\ s.best = NoBatch
  BY <1>1, StartFields
<1> HIDE DEF s
<1>3. Cardinality(Batched(f, 1, 0)) = 0 /\ Cardinality(Batched(f, 0, 0)) = 0
  <2>1. Batched(f, 1, 0) = {} /\ Batched(f, 0, 0) = {}
    BY DEF Batched
  <2> QED BY <2>1, FS_EmptySet
<1>4. BatchOK(f, NoBatch)
  BY <1>1, <1>3 DEF BatchOK, NoBatch
<1>5. NoBatch.count = 0
  BY DEF NoBatch
<1>6. ScanOK(n, f, s)
  BY <1>2, <1>3, <1>4, <1>5, ScansAre DEF ScanOK
<1> QED  BY <1>6 DEF s

\* What a step of the scan does with its batch.
LEMMA StepOK ==
  ASSUME NEW ls, NEW n \in Nat, NEW f, NEW s, ScanOK(n, f, s), s.i <= n,
         f.fb \subseteq 1 .. n
  PROVE  LET t == ScanLayer(ls, f, s)
         IN  /\ ScanOK(n, f, t)
             /\ t.start > s.start \/ (t.start = s.start /\ t.i = s.i + 1)
<1> DEFINE j == IF s.first > 0 THEN s.first ELSE s.i
           Fine(t) == ScanOK(n, f, t) /\ (t.start > s.start \/ (t.start = s.start /\ t.i = s.i + 1))
<1>1. s \in ScansOf(Batches)
  BY ScansAre DEF ScanOK
<1>2. /\ s.i \in Nat /\ s.start \in Nat /\ s.end \in Nat /\ s.count \in Nat
      /\ s.z \in Int /\ s.first \in Nat /\ s.above \in Nat /\ s.dropped \in Nat
      /\ s.best \in Batches /\ s.best.count \in Nat
  BY <1>1 DEF ScansOf, Batches
<1>3. /\ Cardinality(Batched(f, s.start, s.i - 1)) = s.count
      /\ s.i \notin f.fb \ f.drop => Batched(f, s.start, s.i) = Batched(f, s.start, s.i - 1)
      /\ s.i \in f.fb \ f.drop => Cardinality(Batched(f, s.start, s.i)) = s.count + 1
  BY <1>2, BatchedNext DEF ScanOK
<1>4. ASSUME NEW k \in Nat
      PROVE  Cardinality(Batched(f, k, k - 1)) = 0
  BY BatchedNext
<1>5. /\ BatchOK(f, Better(s))
      /\ Better(s).count = 0 => s.count = 0 /\ s.best.count = 0
  BY BetterOK
<1>6. ASSUME s.i \notin f.fb, s.count = 0  PROVE Fine(Close(s, s.i + 1))
  <2> DEFINE t == Close(s, s.i + 1)
  <2>1. s.i + 1 \in Nat
    BY <1>2
  <2>2. /\ t \in ScansOf(Batches) /\ t.i = s.i + 1 /\ t.start = s.i + 1 /\ t.end = s.i + 1
        /\ t.count = 0 /\ t.z = (s.i + 1) - 1 - s.dropped /\ t.first = 0 /\ t.above = 0
        /\ t.dropped = s.dropped /\ t.best = Better(s)
    BY <1>1, <1>2, <2>1, CloseFields
  <2> HIDE DEF t
  <2>3. Cardinality(Batched(f, t.start, t.i - 1)) = 0
    BY <1>4, <2>1, <2>2
  <2>4. t.best.count = 0 => \A k \in 1 .. t.i - 1 : k \notin f.fb \ f.drop
    BY <1>2, <1>5, <1>6, <2>2 DEF ScanOK
  <2>5. ScanOK(n, f, t)
    BY <1>2, <1>5, <2>2, <2>3, <2>4, ScansAre DEF ScanOK
  <2> QED  BY <1>2, <2>2, <2>5 DEF t, ScanOK
<1>7. ASSUME s.i \notin f.fb, s.count > 0  PROVE Fine(Passed(s))
  <2> DEFINE t == Passed(s)
  <2>1. /\ t \in ScansOf(Batches) /\ t.i = s.i + 1 /\ t.above = s.above + 1
        /\ t.start = s.start /\ t.end = s.end /\ t.count = s.count /\ t.z = s.z
        /\ t.first = s.first /\ t.dropped = s.dropped /\ t.best = s.best
    BY <1>1, PassedFields
  <2> HIDE DEF t
  <2>2. \A k \in t.end + 1 .. t.i - 1 : k \notin f.fb \ f.drop
    BY <1>2, <1>7, <2>1 DEF ScanOK
  <2>3. ScanOK(n, f, t)
    BY <1>2, <1>3, <1>7, <2>1, <2>2, ScansAre DEF ScanOK
  <2> QED  BY <2>1, <2>3 DEF t
<1>8. ASSUME s.i \in f.fb \cap f.drop  PROVE Fine(Dropped(s))
  <2> DEFINE t == Dropped(s)
  <2>1. /\ t \in ScansOf(Batches) /\ t.i = s.i + 1 /\ t.dropped = s.dropped + 1
        /\ t.start = s.start /\ t.end = s.end /\ t.count = s.count /\ t.z = s.z
        /\ t.first = s.first /\ t.above = s.above /\ t.best = s.best
    BY <1>1, PassedFields
  <2> HIDE DEF t
  <2>2. t.count > 0 => \A k \in t.end + 1 .. t.i - 1 : k \notin f.fb \ f.drop
    BY <1>2, <1>8, <2>1 DEF ScanOK
  <2>3. t.best.count = 0 /\ t.count = 0 => \A k \in 1 .. t.i - 1 : k \notin f.fb \ f.drop
    BY <1>2, <1>8, <2>1 DEF ScanOK
  <2>4. ScanOK(n, f, t)
    BY <1>2, <1>3, <1>8, <2>1, <2>2, <2>3, ScansAre DEF ScanOK
  <2> QED  BY <2>1, <2>4 DEF t
<1>9. ASSUME s.i \in f.fb \ f.drop  PROVE Fine(Take(s))
  <2> DEFINE t == Take(s)
  <2>1. /\ t \in ScansOf(Batches) /\ t.i = s.i + 1 /\ t.count = s.count + 1 /\ t.end = s.i
        /\ t.start = s.start /\ t.z = s.z /\ t.above = s.above
        /\ t.first = s.first /\ t.dropped = s.dropped /\ t.best = s.best
    BY <1>1, TakeFields
  <2> HIDE DEF t
  <2>3. ScanOK(n, f, t)
    BY <1>2, <1>3, <1>9, <2>1, ScansAre DEF ScanOK
  <2> QED  BY <2>1, <2>3 DEF t
<1>10. ASSUME s.i \in f.fb \ f.drop, s.above # 0  PROVE Fine(Push(s))
  <2> DEFINE t == Push(s)
  <2>1. /\ t \in ScansOf(Batches) /\ t.i = s.i + 1 /\ t.count = s.count + 1 /\ t.end = s.i
        /\ t.start = s.start /\ t.z = s.z + s.above /\ t.above = 0
        /\ t.first = IF s.first = 0 THEN s.i ELSE s.first
        /\ t.dropped = s.dropped /\ t.best = s.best
    BY <1>1, PushFields
  <2> HIDE DEF t
  <2>2. s.start < s.i
    BY <1>2, <1>10 DEF ScanOK
  <2>3. ScanOK(n, f, t)
    BY <1>2, <1>3, <1>10, <2>1, <2>2, ScansAre DEF ScanOK
  <2> QED  BY <2>1, <2>3 DEF t
<1>11. ASSUME s.above # 0  PROVE Fine(Close(s, j))
  <2> DEFINE t == Close(s, j)
  <2>1. j \in Nat /\ s.start < j /\ j <= s.i
    BY <1>2, <1>11 DEF ScanOK
  <2> HIDE DEF j
  <2>2. /\ t \in ScansOf(Batches) /\ t.i = j /\ t.start = j /\ t.end = j
        /\ t.count = 0 /\ t.z = j - 1 - s.dropped /\ t.first = 0 /\ t.above = 0
        /\ t.dropped = s.dropped /\ t.best = Better(s)
    BY <1>1, <2>1, CloseFields
  <2> HIDE DEF t
  <2>3. Cardinality(Batched(f, t.start, t.i - 1)) = 0
    BY <1>4, <2>1, <2>2
  <2>4. t.best.count # 0
    BY <1>2, <1>5, <1>11, <2>2 DEF ScanOK
  <2>5. ScanOK(n, f, t)
    BY <1>2, <1>5, <2>1, <2>2, <2>3, <2>4, ScansAre DEF ScanOK
  <2> QED  BY <1>2, <2>1, <2>2, <2>5 DEF t, ScanOK
<1> HIDE DEF j, Fine
<1>12. Pushes(ls, f, s) \/ Returns(ls, f, s) => s.above # 0
  BY DEF Pushes, Returns, Joins
<1>13. Fine(ScanLayer(ls, f, s))
  BY <1>1, <1>6, <1>7, <1>8, <1>9, <1>10, <1>11, <1>12, ScanSteps DEF j
<1> QED  BY <1>13 DEF Fine

\* What getBatch returns: a batch that counts its layers, with a stage only
\* if the framebuffer has a layer; and a stage if it has one and nothing is
\* dropped.
LEMMA BatchOfFrame ==
  ASSUME NEW ls, NEW n \in Nat, Len(ls) = n, NEW f, f.fb \subseteq 1 .. n
  PROVE  /\ BatchOK(f, getBatch(ls, f))
         /\ getBatch(ls, f).count = 0 => f.fb \subseteq f.drop
<1> DEFINE I == {s \in Scans : ScanOK(n, f, s)}
           R == {b \in Batches : BatchOK(f, b) /\ (b.count = 0 => f.fb \subseteq f.drop)}
<1>1. \A s \in I : /\ s \in Scans /\ s.start \in Nat /\ s.i \in Nat /\ s.i <= n + 1
                   /\ s.start <= n + 1
  <2> TAKE s \in I
  <2>1. s \in ScansOf(Batches)
    BY ScansAre
  <2>2. s.start \in Nat /\ s.i \in Nat
    BY <2>1 DEF ScansOf
  <2> QED  BY <2>2 DEF ScanOK
<1>2. \A s \in I : s.i <= n =>
            /\ ScanLayer(ls, f, s) \in I
            /\ \/ ScanLayer(ls, f, s).start > s.start
               \/ /\ ScanLayer(ls, f, s).start = s.start
                  /\ ScanLayer(ls, f, s).i = s.i + 1
  BY StepOK, ScanTypes
<1>3. \A s \in I : s.i > n => Better(s) \in R
  <2> SUFFICES ASSUME NEW s \in I, s.i > n  PROVE Better(s) \in R
    OBVIOUS
  <2>1. BatchOK(f, Better(s)) /\ Better(s) \in Batches
    BY BetterOK DEF BatchOK
  <2>2. ASSUME Better(s).count = 0  PROVE f.fb \subseteq f.drop
    <3>1. s.i = n + 1
      BY <1>1
    <3>2. \A k \in 1 .. s.i - 1 : k \notin f.fb \ f.drop
      BY <2>2, BetterOK DEF ScanOK
    <3> QED  BY <3>1, <3>2
  <2> QED  BY <2>1, <2>2
<1>4. Start(1, 0, NoBatch) \in I
  BY StartOK DEF ScanOK
<1> HIDE DEF I, R
<1>5. \A s \in I : Scan(ls, f)[s] \in R
  BY <1>1, <1>2, <1>3, ScanInduction
<1>6. getBatch(ls, f) \in R
  BY <1>4, <1>5 DEF getBatch
<1> QED  BY <1>6 DEF R

----------------------------------------------------------------------------
(* What the strategies do with the layers of the framebuffer.              *)

\* A frame whose counts are numbers.
Division(ls) ==
  [fb : SUBSET Indices(ls), drop : SUBSET Indices(ls), fbCount : Int,
   mdpCount : Int, fbZ : Int, redraw : BOOLEAN]

Counted(ls, f) ==
  /\ f.fbCount = Cardinality(f.fb \ f.drop)
  /\ f.mdpCount = Len(ls) - f.fbCount - Cardinality(f.drop)

\* Some layers of the list.
Among(ls, S) == S \subseteq Indices(ls)

LEMMA IndicesFinite ==
  ASSUME NEW ls \in Seq(Layer)
  PROVE  /\ Len(ls) \in Nat /\ Indices(ls) = 1 .. Len(ls)
         /\ IsFiniteSet(Indices(ls)) /\ Cardinality(Indices(ls)) = Len(ls)
         /\ \A S : Among(ls, S) =>
              /\ IsFiniteSet(S) /\ Cardinality(S) \in Nat /\ Cardinality(S) <= Len(ls)
              /\ Cardinality(S) = 0 <=> S = {}
<1>1. Len(ls) \in Nat /\ Indices(ls) = 1 .. Len(ls)
  BY DEF Indices
<1>2. IsFiniteSet(Indices(ls)) /\ Cardinality(Indices(ls)) = Len(ls)
  BY <1>1, FS_Interval
<1>3. \A S : Among(ls, S) =>
        /\ IsFiniteSet(S) /\ Cardinality(S) \in Nat /\ Cardinality(S) <= Len(ls)
        /\ Cardinality(S) = 0 <=> S = {}
  BY <1>2, FS_Subset, FS_CardinalityType, FS_EmptySet DEF Among
<1> QED  BY <1>1, <1>2, <1>3

\* A frame is what its fields say.
LEMMA SameDivision ==
  ASSUME NEW ls, NEW f \in Division(ls), NEW g \in Division(ls),
         f.fb = g.fb, f.drop = g.drop, f.fbCount = g.fbCount,
         f.mdpCount = g.mdpCount, f.fbZ = g.fbZ, f.redraw = g.redraw
  PROVE  f = g
BY DEF Division

LEMMA DivisionFields ==
  ASSUME NEW ls, NEW f \in Division(ls)
  PROVE  /\ Among(ls, f.fb) /\ Among(ls, f.drop)
         /\ f.fbCount \in Int /\ f.mdpCount \in Int /\ f.fbZ \in Int
         /\ f.redraw \in BOOLEAN
BY DEF Division, Among

LEMMA ResetFields ==
  ASSUME NEW ls \in Seq(Layer), NEW drop, Among(ls, drop)
  PROVE  LET f == Reset(ls, drop)
         IN  /\ f \in Division(ls) /\ f.fb = Indices(ls) /\ f.drop = drop
             /\ f.fbCount = Len(ls) /\ f.mdpCount = 0 /\ f.fbZ = -1 /\ f.redraw = TRUE
<1>1. Len(ls) \in Int
  BY IndicesFinite
<1> QED  BY <1>1 DEF Reset, Division, Among

LEMMA RestIsInt ==
  ASSUME NEW ls \in Seq(Layer), NEW f \in Division(ls), NEW fbCount \in Int
  PROVE  /\ Rest(ls, f, fbCount) = Len(ls) - fbCount - Cardinality(f.drop)
         /\ Rest(ls, f, fbCount) \in Int
<1>1. Among(ls, f.drop)
  BY DivisionFields
<1> QED  BY <1>1, IndicesFinite DEF Rest, dropCount

LEMMA MoveFields ==
  ASSUME NEW ls \in Seq(Layer), NEW f \in Division(ls),
         NEW in, Among(ls, in), NEW out, Among(ls, out)
  PROVE  LET g == Move(ls, f, in, out)
         IN  /\ g \in Division(ls) /\ g.drop = f.drop
             /\ g.fbZ = f.fbZ /\ g.redraw = f.redraw
             /\ g.fbCount = f.fbCount + Cardinality(in) - Cardinality(out)
             /\ g.mdpCount = Len(ls) - g.fbCount - Cardinality(f.drop)
             /\ \A k : k \in g.fb <=> k \notin out /\ (k \in f.fb \/ k \in in)
<1> DEFINE fb == (f.fb \cup in) \ out
           fbCount == f.fbCount + Cardinality(in) - Cardinality(out)
           mdpCount == Rest(ls, f, fbCount)
           g == [f EXCEPT !.fb = fb, !.fbCount = fbCount, !.mdpCount = mdpCount]
<1>1. Cardinality(in) \in Nat /\ Cardinality(out) \in Nat
  BY IndicesFinite
<1>2. Among(ls, fb) /\ fbCount \in Int
  BY <1>1, DivisionFields DEF Among
<1>3. Move(ls, f, in, out) = g
  BY Zenon DEF Move
<1> HIDE DEF fb, fbCount
<1>4. /\ mdpCount = Len(ls) - fbCount - Cardinality(f.drop)
      /\ mdpCount \in Int
  BY <1>2, RestIsInt
<1> HIDE DEF mdpCount
<1>5. /\ g \in Division(ls) /\ g.fb = fb /\ g.fbCount = fbCount
      /\ g.mdpCount = mdpCount /\ g.drop = f.drop /\ g.fbZ = f.fbZ
      /\ g.redraw = f.redraw
  BY <1>2, <1>4 DEF Division, Among
<1> HIDE DEF g
<1> QED  BY <1>3, <1>4, <1>5 DEF fb, fbCount

\* Counts stay right when what moves is not dropped.
LEMMA MoveCounted ==
  ASSUME NEW ls \in Seq(Layer), NEW f \in Division(ls), Counted(ls, f),
         NEW in, Among(ls, in), NEW out, Among(ls, out),
         in \cap (f.fb \cup f.drop) = {}, out \subseteq f.fb \ f.drop
  PROVE  Counted(ls, Move(ls, f, in, out))
<1> DEFINE g == Move(ls, f, in, out)
<1>2. /\ g.drop = f.drop
      /\ g.fbCount = f.fbCount + Cardinality(in) - Cardinality(out)
      /\ g.mdpCount = Len(ls) - g.fbCount - Cardinality(f.drop)
      /\ \A k : k \in g.fb <=> k \notin out /\ (k \in f.fb \/ k \in in)
  BY MoveFields
<1> HIDE DEF g
<1> DEFINE A == f.fb \ f.drop
<1>3. Among(ls, A) /\ Among(ls, A \cup in)
  BY DivisionFields DEF Among
<1>4. /\ IsFiniteSet(A) /\ IsFiniteSet(in) /\ IsFiniteSet(A \cup in) /\ IsFiniteSet(out)
      /\ Cardinality(A) \in Nat /\ Cardinality(in) \in Nat /\ Cardinality(out) \in Nat
  BY <1>3, IndicesFinite
<1>5. A \cap in = {} /\ (A \cup in) \cap out = out /\ g.fb \ g.drop = (A \cup in) \ out
  BY <1>2
<1>6. Cardinality(A \cup in) = Cardinality(A) + Cardinality(in)
  <2> HIDE DEF A
  <2>1. Cardinality(A \cap in) = 0
    BY <1>5, FS_EmptySet
  <2>2. Cardinality(A \cup in) = Cardinality(A) + Cardinality(in) - Cardinality(A \cap in)
    BY <1>4, FS_Union
  <2> QED  BY <1>4, <2>1, <2>2
<1>7. Cardinality((A \cup in) \ out) = Cardinality(A \cup in) - Cardinality(out)
  <2> HIDE DEF A
  <2> QED  BY <1>4, <1>5, FS_Difference
<1>8. f.fbCount = Cardinality(A)
  BY DEF Counted
<1> HIDE DEF A
<1>9. g.fbCount = Cardinality(g.fb \ g.drop)
  <2>1. g.fb \ g.drop = (A \cup in) \ out
    BY <1>5
  <2>2. Cardinality(g.fb \ g.drop) = Cardinality((A \cup in) \ out)
    BY <2>1, Zenon
  <2>3. g.fbCount = Cardinality(A) + Cardinality(in) - Cardinality(out)
    BY <1>2, <1>8
  <2>4. g.fbCount = Cardinality((A \cup in) \ out)
    BY <1>4, <1>6, <1>7, <2>3
  <2> QED  BY <2>2, <2>4
<1>10. Counted(ls, g)
  BY <1>2, <1>9 DEF Counted
<1> QED  BY <1>10 DEF g

\* A layer that updateYUV takes out of the framebuffer, if it is not dropped;
\* and one that updateSecureRGB takes out.
VideosBelow(ls, i) == {j \in Indices(ls) : j < i /\ isYuv(ls[j])}
InReach(ls, i)  == isYuv(ls[i]) /\ Cardinality(VideosBelow(ls, i)) < VGPipes
Leaves(ls, i, secureOnly) ==
  InReach(ls, i) /\ ls[i].doable /\ (secureOnly => isSecure(ls[i]))
LeavesRGB(ls, i) == ls[i].kind = "secureRgb" /\ ls[i].doable

YuvIn(ls, f) ==
  {i \in Indices(ls) : InReach(ls, i) /\ i \notin f.drop /\ i \notin f.fb /\ ~ls[i].doable}
YuvOut(ls, f, secureOnly) ==
  {i \in Indices(ls) : Leaves(ls, i, secureOnly) /\ i \notin f.drop /\ i \in f.fb}
RGBIn(ls, f) ==
  {i \in Indices(ls) : ls[i].kind = "secureRgb" /\ i \notin f.fb /\ ~ls[i].doable}
RGBOut(ls, f) == {i \in Indices(ls) : LeavesRGB(ls, i) /\ i \in f.fb}

LEMMA YuvMoves ==
  ASSUME NEW ls, NEW f, NEW secureOnly
  PROVE  updateYUV(ls, f, secureOnly) = Move(ls, f, YuvIn(ls, f), YuvOut(ls, f, secureOnly))
<1> DEFINE Below(i) == {j \in Indices(ls) : j < i /\ isYuv(ls[j])}
           videos   == {i \in Indices(ls) \ f.drop :
                          isYuv(ls[i]) /\ Cardinality(Below(i)) < VGPipes}
           in  == {i \in videos \ f.fb : ~ls[i].doable}
           out == {i \in videos \cap f.fb :
                     ls[i].doable /\ (secureOnly => isSecure(ls[i]))}
<1>1. updateYUV(ls, f, secureOnly) = Move(ls, f, in, out)
  BY Zenon DEF updateYUV
<1>2. \A i : Below(i) = VideosBelow(ls, i)
  BY Zenon DEF VideosBelow
<1> HIDE DEF Below
<1>3. \A i : i \in videos <=> i \in Indices(ls) /\ i \notin f.drop /\ InReach(ls, i)
  BY <1>2, Zenon DEF InReach
<1> HIDE DEF videos
<1>4. in = YuvIn(ls, f)
  BY <1>3, Zenon DEF YuvIn
<1>5. out = YuvOut(ls, f, secureOnly)
  BY <1>3, Zenon DEF YuvOut, Leaves
<1> HIDE DEF in, out
<1> QED  BY <1>1, <1>4, <1>5, Zenon

LEMMA RGBMoves ==
  ASSUME NEW ls, NEW f
  PROVE  updateSecureRGB(ls, f) = Move(ls, f, RGBIn(ls, f), RGBOut(ls, f))
<1> DEFINE secure == {i \in Indices(ls) : ls[i].kind = "secureRgb"}
           in  == {i \in secure \ f.fb : ~ls[i].doable}
           out == {i \in secure \cap f.fb : ls[i].doable}
<1>1. updateSecureRGB(ls, f) = Move(ls, f, in, out)
  BY Zenon DEF updateSecureRGB
<1>2. in = RGBIn(ls, f)
  BY Zenon DEF RGBIn
<1>3. out = RGBOut(ls, f)
  BY Zenon DEF RGBOut, LeavesRGB
<1> HIDE DEF in, out
<1> QED  BY <1>1, <1>2, <1>3, Zenon

LEMMA YuvFields ==
  ASSUME NEW ls \in Seq(Layer), NEW f \in Division(ls), NEW secureOnly
  PROVE  LET g == updateYUV(ls, f, secureOnly)
         IN  /\ g \in Division(ls) /\ g.drop = f.drop /\ g.fbZ = f.fbZ
             /\ g.redraw = f.redraw
             /\ g.mdpCount = Len(ls) - g.fbCount - Cardinality(f.drop)
             /\ \A k \in Indices(ls) : k \in g.fb =>
                  /\ Leaves(ls, k, secureOnly) => k \in f.drop
                  /\ k \in f.fb \/ (isYuv(ls[k]) /\ ~ls[k].doable /\ k \notin f.drop)
             /\ \A k \in Indices(ls) : k \in f.fb => k \in g.fb \/ Leaves(ls, k, secureOnly)
             /\ \A k \in Indices(ls) : k \in f.fb /\ k \in f.drop => k \in g.fb
             /\ Counted(ls, f) => Counted(ls, g)
<1> DEFINE in == YuvIn(ls, f)
           out == YuvOut(ls, f, secureOnly)
           g == Move(ls, f, in, out)
<1>1. /\ \A k : k \in in <=> /\ k \in Indices(ls) /\ InReach(ls, k) /\ k \notin f.drop
                             /\ k \notin f.fb /\ ~ls[k].doable
      /\ \A k : k \in out <=> /\ k \in Indices(ls) /\ Leaves(ls, k, secureOnly)
                              /\ k \notin f.drop /\ k \in f.fb
  BY Zenon DEF YuvIn, YuvOut
<1>2. Among(ls, in) /\ Among(ls, out) /\ in \cap (f.fb \cup f.drop) = {}
      /\ out \subseteq f.fb \ f.drop
  BY <1>1, Zenon DEF Among
<1> HIDE DEF in, out
<1>3. Counted(ls, f) => Counted(ls, g)
  BY <1>2, MoveCounted
<1>4. /\ g \in Division(ls) /\ g.drop = f.drop
      /\ g.fbZ = f.fbZ /\ g.redraw = f.redraw
      /\ g.mdpCount = Len(ls) - g.fbCount - Cardinality(f.drop)
      /\ \A k : k \in g.fb <=> k \notin out /\ (k \in f.fb \/ k \in in)
  BY <1>2, MoveFields
<1>5. updateYUV(ls, f, secureOnly) = g
  BY YuvMoves, Zenon DEF in, out
<1> HIDE DEF g
<1>6. \A k \in Indices(ls) : k \in g.fb =>
                  /\ Leaves(ls, k, secureOnly) => k \in f.drop
                  /\ k \in f.fb \/ (isYuv(ls[k]) /\ ~ls[k].doable /\ k \notin f.drop)
  BY <1>1, <1>4, Zenon DEF Leaves, InReach
<1>7. \A k \in Indices(ls) : k \in f.fb => k \in g.fb \/ Leaves(ls, k, secureOnly)
  BY <1>1, <1>4, Zenon
<1>8. \A k \in Indices(ls) : k \in f.fb /\ k \in f.drop => k \in g.fb
  BY <1>1, <1>4, Zenon
<1> QED  BY <1>3, <1>4, <1>5, <1>6, <1>7, <1>8, Zenon

\* updateSecureRGB moves dropped layers too: its counts are right when
\* nothing is dropped, or nothing is secure.
LEMMA RGBFields ==
  ASSUME NEW ls \in Seq(Layer), NEW f \in Division(ls)
  PROVE  LET g == updateSecureRGB(ls, f)
         IN  /\ g \in Division(ls) /\ g.drop = f.drop /\ g.fbZ = f.fbZ
             /\ g.redraw = f.redraw
             /\ g.mdpCount = Len(ls) - g.fbCount - Cardinality(f.drop)
             /\ \A k \in Indices(ls) : k \in g.fb =>
                  /\ ~LeavesRGB(ls, k)
                  /\ k \in f.fb \/ ls[k].kind = "secureRgb"
             /\ \A k \in Indices(ls) : k \in f.fb => k \in g.fb \/ LeavesRGB(ls, k)
             /\ Counted(ls, f) /\ (f.drop = {} \/ ~isSecureRGBPresent(ls)) => Counted(ls, g)
<1> DEFINE in == RGBIn(ls, f)
           out == RGBOut(ls, f)
           g == Move(ls, f, in, out)
<1>1. /\ \A k : k \in in <=> /\ k \in Indices(ls) /\ ls[k].kind = "secureRgb"
                             /\ k \notin f.fb /\ ~ls[k].doable
      /\ \A k : k \in out <=> k \in Indices(ls) /\ LeavesRGB(ls, k) /\ k \in f.fb
  BY Zenon DEF RGBIn, RGBOut
<1>2. Among(ls, in) /\ Among(ls, out)
  BY <1>1, Zenon DEF Among
<1>3. f.drop = {} \/ ~isSecureRGBPresent(ls) =>
        in \cap (f.fb \cup f.drop) = {} /\ out \subseteq f.fb \ f.drop
  <2>1. f.drop = {} => in \cap (f.fb \cup f.drop) = {} /\ out \subseteq f.fb \ f.drop
    BY <1>1
  <2>2. ~isSecureRGBPresent(ls) => \A k : k \notin in /\ k \notin out
    BY <1>1, Zenon DEF isSecureRGBPresent, LeavesRGB
  <2> QED  BY <2>1, <2>2
<1> HIDE DEF in, out
<1>4. Counted(ls, f) /\ (f.drop = {} \/ ~isSecureRGBPresent(ls)) => Counted(ls, g)
  BY <1>2, <1>3, MoveCounted
<1>5. /\ g \in Division(ls) /\ g.drop = f.drop
      /\ g.fbZ = f.fbZ /\ g.redraw = f.redraw
      /\ g.mdpCount = Len(ls) - g.fbCount - Cardinality(f.drop)
      /\ \A k : k \in g.fb <=> k \notin out /\ (k \in f.fb \/ k \in in)
  BY <1>2, MoveFields
<1>6. updateSecureRGB(ls, f) = g
  BY RGBMoves, Zenon DEF in, out
<1> HIDE DEF g
<1>7. \A k \in Indices(ls) : k \in g.fb => ~LeavesRGB(ls, k) /\ (k \in f.fb \/ ls[k].kind = "secureRgb")
  BY <1>1, <1>5, Zenon DEF LeavesRGB
<1>8. \A k \in Indices(ls) : k \in f.fb => k \in g.fb \/ LeavesRGB(ls, k)
  BY <1>1, <1>5, Zenon
<1> QED  BY <1>4, <1>5, <1>6, <1>7, <1>8, Zenon

\* markLayersForCaching: the framebuffer gets a stage only if a layer is left
\* to it, and always then when nothing is dropped.
LEMMA MarkedFields ==
  ASSUME NEW ls \in Seq(Layer), NEW f \in Division(ls)
  PROVE  LET g == Marked(ls, f)
         IN  /\ g \in Division(ls) /\ g.drop = f.drop /\ g.redraw = f.redraw
             /\ f.fbCount = 0 => g = f
             /\ f.fbCount # 0 /\ g.fbZ >= 0 => \E k \in Indices(ls) : k \in f.fb /\ k \notin f.drop
             /\ f.fbCount # 0 /\ f.drop = {} /\ f.fb # {} => g.fbZ >= 0
             /\ f.fbCount # 0 /\ g.fbZ >= 0 => g.fbCount # 0
             /\ \A k : k \in f.fb /\ k \in f.drop => k \in g.fb
             /\ Counted(ls, f) => Counted(ls, g)
<1>1. Len(ls) \in Nat /\ Indices(ls) = 1 .. Len(ls)
  BY IndicesFinite
<1>2. /\ Among(ls, f.fb) /\ Among(ls, f.drop) /\ f.fbCount \in Int /\ f.mdpCount \in Int
      /\ f.fbZ \in Int
  BY DivisionFields
<1>3. CASE f.fbCount = 0
  <2>1. Marked(ls, f) = f
    BY <1>3, Zenon DEF Marked
  <2> QED  BY <1>3, <2>1
<1>4. CASE f.fbCount # 0
  <2> DEFINE b == getBatch(ls, f)
             fb == f.fb \ Pulled(ls, f)
             z == b.z
             count == b.count
             mdpCount == Rest(ls, f, count)
             g == [f EXCEPT !.fb = fb, !.fbZ = z, !.fbCount = count,
                            !.mdpCount = mdpCount]
  <2>1. Marked(ls, f) = g
    BY <1>4, Zenon DEF Marked
  <2>2. f.fb \subseteq 1 .. Len(ls)
    BY <1>1, <1>2 DEF Among
  <2>3. BatchOK(f, b) /\ (b.count = 0 => f.fb \subseteq f.drop)
    BY <1>1, <2>2, BatchOfFrame
  <2>4. \A k : k \in fb <=> k \in f.fb /\ (k \in f.drop \/ (b.start <= k /\ k <= b.end))
    <3>1. b.start \in Nat /\ b.end \in Nat
      BY <2>3 DEF BatchOK, Batches
    <3>2. \A k \in f.fb : k \in Nat
      BY <2>2
    <3>3. \A k : k \in fb <=> /\ k \in f.fb
                              /\ ~(k \notin f.drop /\ (k < b.start \/ k > b.end))
      BY Zenon DEF Pulled
    <3> HIDE DEF b, fb
    <3> QED  BY <3>1, <3>2, <3>3
  <2>5. count \in Nat /\ count \in Int /\ z \in Int /\ b.start \in Nat /\ b.end \in Nat
    BY <2>3 DEF BatchOK, Batches
  <2> HIDE DEF b, fb
  <2>6. Among(ls, fb)
    BY <1>2, <2>4 DEF Among
  <2> HIDE DEF z, count
  <2>7. mdpCount = Len(ls) - count - Cardinality(f.drop) /\ mdpCount \in Int
    BY <2>5, RestIsInt
  <2> HIDE DEF mdpCount
  <2>8. /\ g \in Division(ls) /\ g.fb = fb /\ g.fbZ = z /\ g.fbCount = count
        /\ g.mdpCount = mdpCount /\ g.drop = f.drop /\ g.redraw = f.redraw
    BY <2>5, <2>6, <2>7 DEF Division, Among
  <2> HIDE DEF g
  <2>9. fb \ f.drop = Batched(f, b.start, b.end)
    BY <1>1, <2>2, <2>4, <2>5 DEF Batched
  <2>10. count = Cardinality(fb \ f.drop)
    BY <2>3, <2>9 DEF BatchOK, count
  <2>11. ASSUME z >= 0  PROVE \E k \in Indices(ls) : k \in f.fb /\ k \notin f.drop
    <3>1. count # 0
      BY <2>3, <2>5, <2>11 DEF BatchOK, z, count
    <3>2. fb \ f.drop # {}
      BY <2>10, <3>1, FS_EmptySet
    <3> QED  BY <1>2, <2>4, <3>2 DEF Among
  <2>12. ASSUME f.drop = {}, f.fb # {}  PROVE z >= 0
    <3>1. count # 0
      BY <2>3, <2>12 DEF count
    <3> QED  BY <2>3, <2>5, <2>12, <3>1 DEF BatchOK, z, count
  <2>13. Counted(ls, g)
    BY <2>7, <2>8, <2>10 DEF Counted
  <2>14. ASSUME z >= 0  PROVE count # 0
    BY <2>3, <2>5, <2>14 DEF BatchOK, z, count
  <2> QED  BY <1>4, <2>1, <2>4, <2>8, <2>11, <2>12, <2>13, <2>14, Zenon
<1> QED  BY <1>3, <1>4

LEMMA FullFields ==
  ASSUME NEW ls \in Seq(Layer), NEW f \in Division(ls)
  PROVE  LET g == fullMDP(ls, f)
         IN  /\ g \in Division(ls) /\ g.fb = f.drop /\ g.drop = f.drop
             /\ g.fbZ = f.fbZ /\ g.redraw = f.redraw /\ g.fbCount = 0
             /\ g.mdpCount = Len(ls) - Cardinality(f.drop)
             /\ Counted(ls, g)
<1> DEFINE mdpCount == Rest(ls, f, 0)
           drop == f.drop
           none == 0
           g == [f EXCEPT !.fb = drop, !.fbCount = none, !.mdpCount = mdpCount]
<1>1. Among(ls, f.drop) /\ Cardinality(f.drop) \in Nat /\ Len(ls) \in Nat
  BY DivisionFields, IndicesFinite
<1>2. mdpCount = Len(ls) - Cardinality(f.drop) /\ mdpCount \in Int
  <2>1. mdpCount = Len(ls) - 0 - Cardinality(f.drop) /\ mdpCount \in Int
    BY RestIsInt
  <2> QED  BY <1>1, <2>1
<1>3. fullMDP(ls, f) = g
  BY Zenon DEF fullMDP
<1> HIDE DEF mdpCount, drop, none
<1>8. Among(ls, drop) /\ none \in Int
  BY <1>1 DEF drop, none
<1>4. /\ g \in Division(ls) /\ g.fb = drop /\ g.drop = f.drop
      /\ g.fbZ = f.fbZ /\ g.redraw = f.redraw /\ g.fbCount = none
      /\ g.mdpCount = mdpCount
  BY <1>2, <1>8 DEF Division, Among
<1> HIDE DEF g
<1>5. g.fbCount = Cardinality(g.fb \ g.drop)
  <2>1. g.fb \ g.drop = {}
    BY <1>4 DEF drop
  <2> QED  BY <1>4, <2>1, FS_EmptySet DEF none
<1>6. g.mdpCount = Len(ls) - g.fbCount - Cardinality(g.drop)
  BY <1>1, <1>2, <1>4 DEF none
<1>7. Counted(ls, g)
  BY <1>5, <1>6 DEF Counted
<1> QED  BY <1>2, <1>3, <1>4, <1>7 DEF drop, none

LEMMA CacheFields ==
  ASSUME NEW ls \in Seq(Layer), NEW f \in Division(ls), NEW upd
  PROVE  LET g == updateLayerCache(ls, f, upd)
         IN  /\ g \in Division(ls) /\ g.fb = Indices(ls) \ upd /\ g.drop = f.drop
             /\ g.fbZ = f.fbZ /\ g.redraw = f.redraw /\ Counted(ls, g)
<1> DEFINE cached == Indices(ls) \ upd
           fbCount == Cardinality(cached \ f.drop)
           mdpCount == Rest(ls, f, fbCount)
           g == [f EXCEPT !.fb = cached, !.fbCount = fbCount, !.mdpCount = mdpCount]
<1>1. Among(ls, cached) /\ Among(ls, cached \ f.drop)
  BY DEF Among
<1>2. fbCount \in Int
  BY <1>1, IndicesFinite
<1>3. updateLayerCache(ls, f, upd) = g
  BY Zenon DEF updateLayerCache
<1> HIDE DEF fbCount, cached
<1>4. mdpCount = Len(ls) - fbCount - Cardinality(f.drop) /\ mdpCount \in Int
  BY <1>2, RestIsInt
<1> HIDE DEF mdpCount
<1>5. /\ g \in Division(ls) /\ g.fb = cached /\ g.drop = f.drop
      /\ g.fbZ = f.fbZ /\ g.redraw = f.redraw /\ g.fbCount = fbCount
      /\ g.mdpCount = mdpCount
  BY <1>1, <1>2, <1>4 DEF Division, Among
<1> HIDE DEF g
<1>6. Counted(ls, g)
  BY <1>4, <1>5 DEF Counted, fbCount
<1> QED  BY <1>3, <1>5, <1>6 DEF cached

\* Every layer on a pipe.
AllPipes(ls) ==
  [fb |-> {}, drop |-> {}, fbCount |-> 0, mdpCount |-> Len(ls), fbZ |-> -1,
   redraw |-> TRUE]

LEMMA AllPipesIs ==
  ASSUME NEW ls \in Seq(Layer), NEW f \in Division(ls), Counted(ls, f), f.fb = {},
         f.drop = {}, f.fbZ = -1, f.redraw = TRUE
  PROVE  f = AllPipes(ls)
<1>1. f.fbCount = 0 /\ f.mdpCount = Len(ls) /\ Len(ls) \in Nat
  <2>1. Cardinality(f.fb \ f.drop) = 0 /\ Cardinality(f.drop) = 0 /\ Len(ls) \in Nat
    BY FS_EmptySet, IndicesFinite
  <2> QED  BY <2>1 DEF Counted
<1>2. AllPipes(ls) \in Division(ls)
  BY <1>1 DEF AllPipes, Division
<1> DEFINE g == AllPipes(ls)
<1>3. /\ g.fb = {} /\ g.drop = {} /\ g.fbCount = 0 /\ g.mdpCount = Len(ls) /\ g.fbZ = -1
      /\ g.redraw = TRUE
  BY DEF AllPipes
<1> HIDE DEF g
<1>4. f = g
  BY <1>1, <1>2, <1>3, SameDivision DEF g
<1> QED  BY <1>4 DEF g

\* A layer that stays in the framebuffer if it is there.
Stays(ls, i, secureOnly) == ~Leaves(ls, i, secureOnly) /\ ~LeavesRGB(ls, i)

\* What cacheBasedComp and mdpOnlyLayersComp make of a frame.
Mixed(ls, f, secureOnly) ==
  Marked(ls, updateSecureRGB(ls, updateYUV(ls, f, secureOnly)))

LEMMA MixedOutcome ==
  ASSUME NEW ls \in Seq(Layer), NEW f \in Division(ls), Counted(ls, f), f.fbZ = -1,
         f.redraw = TRUE, NEW secureOnly
  PROVE  LET m == Mixed(ls, f, secureOnly)
         IN  /\ m \in Division(ls) /\ m.drop = f.drop
             /\ m.fbZ >= 0 => \E k \in Indices(ls) : Stays(ls, k, secureOnly)
             /\ f.drop = {} => m.fbZ >= 0 \/ m = AllPipes(ls)
             /\ f.drop = {} /\ (\E k \in Indices(ls) : k \in f.fb /\ Stays(ls, k, secureOnly))
                  => m.fbZ >= 0
             /\ f.drop = {} \/ ~isSecureRGBPresent(ls) => Counted(ls, m)
<1> DEFINE h == updateYUV(ls, f, secureOnly)
           g == updateSecureRGB(ls, h)
           m == Marked(ls, g)
<1>1. /\ h \in Division(ls) /\ h.drop = f.drop /\ h.fbZ = -1 /\ h.redraw = TRUE
      /\ \A k \in Indices(ls) : k \in h.fb => (Leaves(ls, k, secureOnly) => k \in f.drop)
      /\ \A k \in Indices(ls) : k \in f.fb => k \in h.fb \/ Leaves(ls, k, secureOnly)
      /\ Counted(ls, h)
  BY YuvFields, Zenon
<1> HIDE DEF h
<1>2. /\ g \in Division(ls) /\ g.drop = f.drop /\ g.fbZ = -1 /\ g.redraw = TRUE
      /\ \A k \in Indices(ls) : k \in g.fb =>
                  ~LeavesRGB(ls, k) /\ (k \in h.fb \/ ls[k].kind = "secureRgb")
      /\ \A k \in Indices(ls) : k \in h.fb => k \in g.fb \/ LeavesRGB(ls, k)
      /\ f.drop = {} \/ ~isSecureRGBPresent(ls) => Counted(ls, g)
  BY <1>1, RGBFields, Zenon
<1> HIDE DEF g
<1>3. /\ m \in Division(ls) /\ m.drop = f.drop
      /\ g.fbCount = 0 => m = g
      /\ g.fbCount # 0 /\ m.fbZ >= 0 => \E k \in Indices(ls) : k \in g.fb /\ k \notin g.drop
      /\ g.fbCount # 0 /\ g.drop = {} /\ g.fb # {} => m.fbZ >= 0
      /\ Counted(ls, g) => Counted(ls, m)
  BY <1>2, MarkedFields, Zenon
<1> HIDE DEF m
<1>4. \A k \in Indices(ls) : k \in g.fb /\ k \notin f.drop => Stays(ls, k, secureOnly)
  <2> SUFFICES ASSUME NEW k \in Indices(ls), k \in g.fb, k \notin f.drop
               PROVE  Stays(ls, k, secureOnly)
    OBVIOUS
  <2>1. ls[k].kind = "secureRgb" => ~Leaves(ls, k, secureOnly)
    BY DEF Leaves, InReach, isYuv
  <2>2. ~LeavesRGB(ls, k) /\ ~Leaves(ls, k, secureOnly)
    BY <1>1, <1>2, <2>1, Zenon
  <2> QED  BY <2>2, Zenon DEF Stays
<1>5. ASSUME m.fbZ >= 0  PROVE \E k \in Indices(ls) : Stays(ls, k, secureOnly)
  <2>1. g.fbCount # 0
    BY <1>2, <1>3, <1>5
  <2> QED  BY <1>2, <1>3, <1>4, <1>5, <2>1, Zenon
<1>6. ASSUME f.drop = {}  PROVE Cardinality(g.fb) = g.fbCount /\ (g.fbCount = 0 <=> g.fb = {})
  <2>1. Counted(ls, g) /\ g.fb \ g.drop = g.fb
    BY <1>2, <1>6
  <2>2. g.fbCount = Cardinality(g.fb)
    BY <2>1, Zenon DEF Counted
  <2>3. Among(ls, g.fb)
    BY <1>2, DivisionFields
  <2> QED  BY <2>2, <2>3, IndicesFinite
<1>7. ASSUME f.drop = {}  PROVE m.fbZ >= 0 \/ m = AllPipes(ls)
  <2>1. CASE g.fbCount = 0
    <3>1. m = g /\ g.fb = {} /\ Counted(ls, g)
      BY <1>2, <1>3, <1>6, <1>7, <2>1
    <3> QED  BY <1>2, <1>7, <3>1, AllPipesIs
  <2>2. CASE g.fbCount # 0
    BY <1>2, <1>3, <1>6, <1>7, <2>2
  <2> QED  BY <2>1, <2>2
<1>8. ASSUME f.drop = {}, NEW k \in Indices(ls), k \in f.fb, Stays(ls, k, secureOnly)
      PROVE  m.fbZ >= 0
  <2>1. k \in g.fb
    BY <1>1, <1>2, <1>8, Zenon DEF Stays
  <2>2. g.fbCount # 0 /\ g.fb # {}
    BY <1>6, <1>8, <2>1
  <2> QED  BY <1>2, <1>3, <1>8, <2>2
<1>9. Mixed(ls, f, secureOnly) = m
  BY Zenon DEF Mixed, m, g, h
<1>10. f.drop = {} \/ ~isSecureRGBPresent(ls) => Counted(ls, m)
  BY <1>2, <1>3
<1> QED  BY <1>3, <1>5, <1>7, <1>8, <1>9, <1>10, Zenon

\* Where they start: a cached frame has what does not update in the
\* framebuffer, the other one every layer.
Begun(ls, drop) ==
  LET r == Reset(ls, drop)
  IN  [r EXCEPT !.fbCount = @ - dropCount(r)]

LEMMA BegunFields ==
  ASSUME NEW ls \in Seq(Layer), NEW drop, Among(ls, drop)
  PROVE  LET t == Begun(ls, drop)
         IN  /\ t \in Division(ls) /\ t.fb = Indices(ls) /\ t.drop = drop
             /\ t.fbZ = -1 /\ t.redraw = TRUE /\ Counted(ls, t)
<1> DEFINE r == Reset(ls, drop)
           fbCount == r.fbCount - dropCount(r)
           t == [r EXCEPT !.fbCount = fbCount]
<1>1. /\ r \in Division(ls) /\ r.fb = Indices(ls) /\ r.drop = drop
      /\ r.fbCount = Len(ls) /\ r.mdpCount = 0 /\ r.fbZ = -1 /\ r.redraw = TRUE
  BY ResetFields
<1>2. /\ Len(ls) \in Nat /\ Cardinality(drop) \in Nat /\ IsFiniteSet(Indices(ls))
      /\ Cardinality(Indices(ls)) = Len(ls)
  BY IndicesFinite
<1>3. Begun(ls, drop) = t
  BY Zenon DEF Begun
<1> HIDE DEF r
<1>4. fbCount = Len(ls) - Cardinality(drop) /\ fbCount \in Int
  BY <1>1, <1>2 DEF dropCount
<1> HIDE DEF fbCount
<1>5. /\ t \in Division(ls) /\ t.fb = Indices(ls) /\ t.drop = drop
      /\ t.fbCount = fbCount /\ t.mdpCount = 0 /\ t.fbZ = -1 /\ t.redraw = TRUE
  BY <1>1, <1>4 DEF Division
<1> HIDE DEF t
<1>6. Cardinality(Indices(ls) \ drop) = Len(ls) - Cardinality(drop)
  <2>1. Indices(ls) \cap drop = drop
    BY DEF Among
  <2>2. Cardinality(Indices(ls) \ drop)
          = Cardinality(Indices(ls)) - Cardinality(Indices(ls) \cap drop)
    BY <1>2, FS_Difference
  <2> QED  BY <1>2, <2>1, <2>2
<1>7. t.fbCount = Cardinality(t.fb \ t.drop)
  BY <1>4, <1>5, <1>6
<1>8. t.mdpCount = Len(ls) - t.fbCount - Cardinality(t.drop)
  BY <1>2, <1>4, <1>5
<1>9. Counted(ls, t)
  BY <1>7, <1>8 DEF Counted
<1> QED  BY <1>3, <1>5, <1>9

\* videoOnlyComp, when nothing is dropped.
VideoFrame(ls, drop, secureOnly) ==
  LET f == updateYUV(ls, Begun(ls, drop), secureOnly)
  IN  [f EXCEPT !.fbZ = IF f.fbCount # 0 THEN f.mdpCount ELSE @]

LEMMA VideoOutcome ==
  ASSUME NEW ls \in Seq(Layer), NEW secureOnly
  PROVE  LET v == VideoFrame(ls, {}, secureOnly)
         IN  /\ v \in Division(ls) /\ v.drop = {} /\ Counted(ls, v)
             /\ v.fbZ >= 0 => \E k \in Indices(ls) : ~Leaves(ls, k, secureOnly)
             /\ v.fbZ >= 0 => v.fbCount # 0
             /\ v.fbZ >= 0 \/ v = AllPipes(ls)
             /\ (\E k \in Indices(ls) : ~Leaves(ls, k, secureOnly)) => v.fbZ >= 0
<1> DEFINE t == Begun(ls, {})
           f == updateYUV(ls, t, secureOnly)
           x == IF f.fbCount # 0 THEN f.mdpCount ELSE f.fbZ
           v == [f EXCEPT !.fbZ = x]
<1>1. Among(ls, {})
  BY DEF Among
<1>2. /\ t \in Division(ls) /\ t.fb = Indices(ls) /\ t.drop = {}
      /\ t.fbZ = -1 /\ t.redraw = TRUE /\ Counted(ls, t)
  BY <1>1, BegunFields
<1>3. VideoFrame(ls, {}, secureOnly) = v
  BY Zenon DEF VideoFrame
<1> HIDE DEF t
<1>4. /\ f \in Division(ls) /\ f.drop = {} /\ f.fbZ = -1 /\ f.redraw = TRUE /\ Counted(ls, f)
      /\ \A k \in Indices(ls) : k \in f.fb => ~Leaves(ls, k, secureOnly)
      /\ \A k \in Indices(ls) : k \in f.fb \/ Leaves(ls, k, secureOnly)
  <2>1. /\ f \in Division(ls) /\ f.drop = t.drop /\ f.fbZ = t.fbZ /\ f.redraw = t.redraw
        /\ Counted(ls, f)
        /\ \A k \in Indices(ls) : k \in f.fb => (Leaves(ls, k, secureOnly) => k \in t.drop)
        /\ \A k \in Indices(ls) : k \in t.fb => k \in f.fb \/ Leaves(ls, k, secureOnly)
    BY <1>2, YuvFields, Zenon
  <2> HIDE DEF f
  <2> QED  BY <1>2, <2>1
<1> HIDE DEF f
<1>5. /\ f.fbCount \in Int /\ f.mdpCount \in Int /\ f.fbZ \in Int /\ Among(ls, f.fb)
  BY <1>4, DivisionFields
<1>6. /\ f.fbCount = Cardinality(f.fb) /\ f.mdpCount = Len(ls) - Cardinality(f.fb)
      /\ Cardinality(f.fb) \in Nat /\ Cardinality(f.fb) <= Len(ls) /\ Len(ls) \in Nat
      /\ Cardinality(f.fb) = 0 <=> f.fb = {}
  <2>1. f.fb \ f.drop = f.fb /\ Cardinality(f.drop) = 0
    BY <1>4, FS_EmptySet
  <2>2. /\ Cardinality(f.fb) \in Nat /\ Cardinality(f.fb) <= Len(ls) /\ Len(ls) \in Nat
        /\ Cardinality(f.fb) = 0 <=> f.fb = {}
    BY <1>5, IndicesFinite
  <2>3. f.fbCount = Cardinality(f.fb)
    BY <1>4, <2>1, Zenon DEF Counted
  <2>4. f.mdpCount = Len(ls) - f.fbCount - Cardinality(f.drop)
    BY <1>4, Zenon DEF Counted
  <2> QED  BY <2>1, <2>2, <2>3, <2>4
<1>7. x \in Int /\ (f.fbCount # 0 => x >= 0) /\ (f.fbCount = 0 => x = -1)
  BY <1>4, <1>5, <1>6
<1> HIDE DEF x
<1>8. /\ v \in Division(ls) /\ v.fbZ = x /\ v.fb = f.fb /\ v.drop = f.drop
      /\ v.fbCount = f.fbCount /\ v.mdpCount = f.mdpCount /\ v.redraw = f.redraw
  BY <1>4, <1>7 DEF Division
<1> HIDE DEF v
<1>9. Counted(ls, v)
  BY <1>4, <1>8, Zenon DEF Counted
<1>10. ASSUME v.fbZ >= 0  PROVE \E k \in Indices(ls) : ~Leaves(ls, k, secureOnly)
  <2>1. f.fbCount # 0
    BY <1>7, <1>8, <1>10
  <2>2. f.fb # {}
    BY <1>6, <2>1
  <2>3. PICK k \in Indices(ls) : k \in f.fb
    BY <1>5, <2>2 DEF Among
  <2> QED  BY <1>4, <2>3, Zenon
<1>11. v.fbZ >= 0 \/ v = AllPipes(ls)
  <2>1. CASE f.fbCount # 0
    BY <1>7, <1>8, <2>1
  <2>2. CASE f.fbCount = 0
    <3>1. v.fb = {} /\ v.drop = {} /\ v.fbZ = -1 /\ v.redraw = TRUE
      BY <1>4, <1>6, <1>7, <1>8, <2>2
    <3> QED  BY <1>8, <1>9, <3>1, AllPipesIs
  <2> QED  BY <2>1, <2>2
<1>12. ASSUME NEW k \in Indices(ls), ~Leaves(ls, k, secureOnly)  PROVE v.fbZ >= 0
  <2>1. k \in f.fb
    BY <1>4, <1>12, Zenon
  <2>2. f.fbCount # 0
    BY <1>6, <2>1
  <2> QED  BY <1>7, <1>8, <2>2
<1>13. v.fbZ >= 0 => v.fbCount # 0
  BY <1>7, <1>8
<1> QED  BY <1>3, <1>4, <1>8, <1>9, <1>10, <1>11, <1>12, <1>13, Zenon

\* loadBasedComp: a stage above the pipes of the lowest layers.
LEMMA LoadFields ==
  ASSUME list \in Seq(Layer), NEW size \in Nat, size <= Len(list)
  PROVE  LET f == LoadFrame(size)
         IN  /\ f \in Division(list) /\ f.fb = Indices(list) \ 1 .. size /\ f.drop = {}
             /\ f.fbZ = size /\ Counted(list, f)
<1> DEFINE fb == Fresh.fb \ 1 .. size
           fbCount == Fresh.fbCount - size
           f == [Fresh EXCEPT !.fb = fb, !.fbZ = size, !.fbCount = fbCount,
                              !.mdpCount = size]
<1>1. /\ Len(list) \in Nat /\ Indices(list) = 1 .. Len(list) /\ IsFiniteSet(Indices(list))
      /\ Cardinality(Indices(list)) = Len(list) /\ Among(list, {})
  BY IndicesFinite DEF Among
<1>2. /\ Fresh \in Division(list) /\ Fresh.fb = Indices(list) /\ Fresh.drop = {}
      /\ Fresh.fbCount = Len(list)
  BY <1>1, ResetFields DEF Fresh
<1>3. LoadFrame(size) = f
  BY Zenon DEF LoadFrame
<1>4. Among(list, fb) /\ fbCount \in Int /\ size \in Int /\ fbCount = Len(list) - size
      /\ fb = Indices(list) \ 1 .. size
  BY <1>1, <1>2 DEF Among
<1> HIDE DEF fb, fbCount
<1>5. /\ f \in Division(list) /\ f.fb = fb /\ f.fbZ = size /\ f.fbCount = fbCount
      /\ f.mdpCount = size /\ f.drop = Fresh.drop
  BY <1>2, <1>4 DEF Division, Among
<1> HIDE DEF f
<1>6. Cardinality(Indices(list) \ 1 .. size) = Len(list) - size
  <2>1. Indices(list) \cap 1 .. size = 1 .. size
    BY <1>1
  <2>2. Cardinality(1 .. size) = size
    BY FS_Interval
  <2>3. Cardinality(Indices(list) \ 1 .. size)
          = Cardinality(Indices(list)) - Cardinality(Indices(list) \cap 1 .. size)
    BY <1>1, FS_Difference
  <2> QED  BY <1>1, <2>1, <2>2, <2>3
<1>7. f.fb \ f.drop = Indices(list) \ 1 .. size /\ Cardinality(f.drop) = 0
  BY <1>2, <1>4, <1>5, FS_EmptySet
<1>8. f.fbCount = Cardinality(f.fb \ f.drop)
  BY <1>4, <1>5, <1>6, <1>7
<1>9. f.mdpCount = Len(list) - f.fbCount - Cardinality(f.drop)
  BY <1>1, <1>4, <1>5, <1>7
<1>10. Counted(list, f)
  BY <1>8, <1>9 DEF Counted
<1> QED  BY <1>2, <1>3, <1>4, <1>5, <1>10

LEMMA LoadSize ==
  ASSUME list \in Seq(Layer), NEW stages \in Nat, LoadBatch(stages) >= 1
  PROVE  LoadBatch(stages) \in Nat /\ LoadBatch(stages) <= Len(list) - 2 /\ Len(list) \in Nat
<1> DEFINE below == {i \in Indices(list) : \A j \in 1 .. i : list[j].supported}
           least(a, b) == IF a < b THEN a ELSE b
<1>1. Cardinality(below) \in Nat /\ Len(list) \in Nat
  <2>1. Among(list, below)
    BY DEF Among
  <2> HIDE DEF below
  <2> QED  BY <2>1, IndicesFinite
<1>2. LoadBatch(stages) = least(least(Cardinality(below), stages - 1), Len(list) - 2)
  BY Zenon DEF LoadBatch
<1> HIDE DEF below
<1> QED  BY <1>1, <1>2

----------------------------------------------------------------------------
(* The pipe of the framebuffer: what is known before each strategy.        *)

\* The lists of strategies left to try.
Plan0     == <<>>
Plan1     == <<"videoSecure">>
Plan2     == <<"video", "videoSecure">>
Plan3     == <<"mdpSecure", "video", "videoSecure">>
Plan4     == <<"mdp", "mdpSecure", "video", "videoSecure">>
CacheLast == <<"cache", "mdp", "mdpSecure", "video", "videoSecure">>
LoadLast  == <<"load", "mdp", "mdpSecure", "video", "videoSecure">>
LoadCache == <<"load", "cache", "mdp", "mdpSecure", "video", "videoSecure">>
CacheLoad == <<"cache", "load", "mdp", "mdpSecure", "video", "videoSecure">>
FullLC    == <<"full", "load", "cache", "mdp", "mdpSecure", "video", "videoSecure">>
FullCL    == <<"full", "cache", "load", "mdp", "mdpSecure", "video", "videoSecure">>

LEMMA PlanSteps ==
  /\ Plan0 = <<>>
  /\ Plan1 # <<>> /\ Head(Plan1) = "videoSecure" /\ Tail(Plan1) = Plan0
  /\ Plan2 # <<>> /\ Head(Plan2) = "video" /\ Tail(Plan2) = Plan1
  /\ Plan3 # <<>> /\ Head(Plan3) = "mdpSecure" /\ Tail(Plan3) = Plan2
  /\ Plan4 # <<>> /\ Head(Plan4) = "mdp" /\ Tail(Plan4) = Plan3
  /\ CacheLast # <<>> /\ Head(CacheLast) = "cache" /\ Tail(CacheLast) = Plan4
  /\ LoadLast # <<>> /\ Head(LoadLast) = "load" /\ Tail(LoadLast) = Plan4
  /\ LoadCache # <<>> /\ Head(LoadCache) = "load" /\ Tail(LoadCache) = CacheLast
  /\ CacheLoad # <<>> /\ Head(CacheLoad) = "cache" /\ Tail(CacheLoad) = LoadLast
  /\ FullLC # <<>> /\ Head(FullLC) = "full" /\ Tail(FullLC) = LoadCache
  /\ FullCL # <<>> /\ Head(FullCL) = "full" /\ Tail(FullCL) = CacheLoad
BY DEF Plan0, Plan1, Plan2, Plan3, Plan4, CacheLast, LoadLast, LoadCache,
       CacheLoad, FullLC, FullCL

\* Concatenation, for the lists of strategies.
LEMMA Joined ==
  ASSUME NEW a, NEW b, NEW c, NEW d, NEW e, NEW f, NEW g
  PROVE  <<a>> \o <<b, c>> \o <<d, e, f, g>> = <<a, b, c, d, e, f, g>>
<1> DEFINE S == {a, b, c, d, e, f, g}
           s == <<a>>  t == <<b, c>>  u == <<d, e, f, g>>  r == <<a, b, c, d, e, f, g>>
<1>1. s \in Seq(S) /\ t \in Seq(S) /\ u \in Seq(S) /\ r \in Seq(S)
  OBVIOUS
<1>2. /\ Len(s) = 1 /\ Len(t) = 2 /\ Len(u) = 4 /\ Len(r) = 7
      /\ s[1] = a /\ t[1] = b /\ t[2] = c /\ u[1] = d /\ u[2] = e /\ u[3] = f /\ u[4] = g
      /\ r[1] = a /\ r[2] = b /\ r[3] = c /\ r[4] = d /\ r[5] = e /\ r[6] = f /\ r[7] = g
  OBVIOUS
<1> HIDE DEF s, t, u, r, S
<1> DEFINE st == s \o t
<1>3. /\ st \in Seq(S) /\ Len(st) = Len(s) + Len(t)
      /\ \A i \in 1 .. Len(s) + Len(t) : st[i] = IF i <= Len(s) THEN s[i] ELSE t[i - Len(s)]
  BY <1>1, ConcatProperties
<1>4. Len(st) = 3 /\ st[1] = a /\ st[2] = b /\ st[3] = c
  BY <1>2, <1>3
<1>9. st \in Seq(S)
  BY <1>3
<1> HIDE DEF st
<1> DEFINE all == st \o u
<1>5. /\ all \in Seq(S) /\ Len(all) = Len(st) + Len(u)
      /\ \A i \in 1 .. Len(st) + Len(u) : all[i] = IF i <= Len(st) THEN st[i] ELSE u[i - Len(st)]
  BY <1>1, <1>9, ConcatProperties
<1>6. /\ Len(all) = 7 /\ all[1] = a /\ all[2] = b /\ all[3] = c /\ all[4] = d
      /\ all[5] = e /\ all[6] = f /\ all[7] = g
  BY <1>2, <1>4, <1>5
<1> HIDE DEF all
<1>7. \A i \in 1 .. Len(all) : all[i] = r[i]
  BY <1>2, <1>6
<1>8. all = r
  BY <1>1, <1>2, <1>5, <1>6, <1>7, SeqEqual
<1> QED  BY <1>8 DEF s, t, u, r, st, all

LEMMA StrategiesAre ==
  ASSUME NEW full \in BOOLEAN
  PROVE  \/ Strategies(full) = FullLC /\ (isSkipPresent(list') \/ geometry')
         \/ Strategies(full) = FullCL
         \/ Strategies(full) = Plan4
<1> DEFINE rest == <<"mdp", "mdpSecure", "video", "videoSecure">>
           swap == isSkipPresent(list') \/ geometry'
           partial == IF swap THEN <<"load", "cache">> ELSE <<"cache", "load">>
           idling  == /\ sIdleFallBack /\ Len(list') # 1
                      /\ ~isSecureRGBPresent(list')
<1>0. \A a, b, c, d, e, f, g :
        <<a>> \o <<b, c>> \o <<d, e, f, g>> = <<a, b, c, d, e, f, g>>
  BY Joined
<1>1. <<"full">> \o <<"load", "cache">> \o rest = FullLC
  BY <1>0 DEF FullLC
<1>2. <<"full">> \o <<"cache", "load">> \o rest = FullCL
  BY <1>0 DEF FullCL
<1>3. rest = Plan4
  BY Zenon DEF Plan4
<1>4. Strategies(full) = IF full /\ ~idling THEN <<"full">> \o partial \o rest ELSE rest
  BY Zenon DEF Strategies
<1>5. (swap => partial = <<"load", "cache">>) /\ (~swap => partial = <<"cache", "load">>)
  BY Zenon
<1> HIDE DEF rest, partial, idling
<1>6. Strategies(full) = <<"full">> \o partial \o rest \/ Strategies(full) = rest
  BY <1>4, Zenon
<1> QED  BY <1>1, <1>2, <1>3, <1>5, <1>6, Zenon

\* Some layer stays in the framebuffer when the videos and secure layers
\* that can leave it have left, or only the videos.
Left(secureOnly)      == \E i \in Indices(list) : Stays(list, i, secureOnly)
VideoLeft(secureOnly) == \E i \in Indices(list) : ~Leaves(list, i, secureOnly)

LEMMA FewerLeave ==
  /\ Left(FALSE) => Left(TRUE) /\ VideoLeft(FALSE)
  /\ Left(TRUE) => VideoLeft(TRUE)
  /\ VideoLeft(FALSE) => VideoLeft(TRUE)
<1>1. \A i : Leaves(list, i, TRUE) => Leaves(list, i, FALSE)
  BY DEF Leaves
<1> QED  BY <1>1, Zenon DEF Left, VideoLeft, Stays

Whole == mCurrentFrame.drop = {} /\ roi = Cells

\* Every layer on a pipe was tried, and did not do.
AllRefused == <<AllPipes(list), Cells>> \in refused

FullTried ==
  setup.external \/ (\E i \in Indices(list) : ~list[i].supported) \/ AllRefused
VideosTried == VideoLeft(FALSE) \/ list = <<>> \/ AllRefused

Plain == ~setup.external /\ ~isYuvPresent(list) /\ ~isSecurePresent(list)

\* Only the first strategies see dropped layers.  If the framebuffer has a
\* pipe, a strategy that failed gave it one, and what left a layer to the
\* framebuffer there leaves one in the strategies that follow.
Pending ==
  \/ todo = FullLC /\ Whole /\ mFBUpdate.on = FALSE
  \/ todo = FullCL /\ (Whole \/ setup.partial) /\ mFBUpdate.on = FALSE
  \/ todo = LoadCache /\ Whole /\ mFBUpdate.on = FALSE /\ FullTried
  \/ todo = CacheLoad /\ (Whole \/ setup.partial) /\ mFBUpdate.on = FALSE
  \/ todo = CacheLast /\ Whole /\ FullTried /\ (mFBUpdate.on => Plain /\ Left(FALSE))
  \/ todo = LoadLast /\ Whole /\ (mFBUpdate.on => Left(FALSE))
  \/ /\ todo = Plan4 /\ (mFBUpdate.on => Left(FALSE))
     /\ Whole \/ (setup.partial /\ mFBUpdate.on = FALSE)
  \/ todo = Plan3 /\ Whole /\ VideosTried /\ (mFBUpdate.on => Left(FALSE))
  \/ todo = Plan2 /\ Whole /\ VideosTried /\ (mFBUpdate.on => Left(TRUE))
  \/ todo = Plan1 /\ Whole /\ (mFBUpdate.on => VideoLeft(TRUE))
  \/ todo = Plan0

\* A list of a display, and the frame every strategy starts from.
SomeLayerDrawn ==
  \A s \in Setups : s.partial => \A l \in s.lists :
     l # <<>> => \E i \in Indices(l) : ~isYuv(l[i])

ListOfDisplay == setup \in Setups /\ list \in setup.lists

Trial ==
  /\ ListOfDisplay
  /\ Among(list, mCurrentFrame.drop)
  /\ mCurrentFrame = Reset(list, mCurrentFrame.drop)
  /\ mFBUpdate.on \in BOOLEAN
  /\ Pending

FBInv ==
  /\ phase = "try" => Trial
  /\ phase \in {"try", "fallback"} => mModeOn = FALSE
  /\ phase \in {"compose", "draw"} =>
       \/ mFBUpdate.on = TRUE /\ (mModeOn = FALSE \/ mCurrentFrame.fbZ >= 0)
       \/ mFBUpdate.on = FALSE /\ mModeOn = TRUE /\ ~(mCurrentFrame.fbZ >= 0)

LEMMA FBInvImplies == FBInv => FBIsOfFrame
BY DEF FBInv, FBIsOfFrame

LEMMA ListType ==
  ASSUME ListOfDisplay
  PROVE  list \in Seq(Layer) /\ setup.external \in BOOLEAN /\ setup.partial \in BOOLEAN
BY MDPCompAssumption DEF ListOfDisplay, Setup

\* Which strategies are left when one is tried.
LEMMA TryingFull ==
  ASSUME Pending, Trying("full")
  PROVE  /\ mFBUpdate.on = FALSE
         /\ \/ todo = FullLC /\ Whole
            \/ todo = FullCL /\ (Whole \/ setup.partial)
BY PlanSteps, Zenon DEF Pending, Trying

LEMMA TryingLoad ==
  ASSUME Pending, Trying("load")
  PROVE  /\ Whole
         /\ \/ todo = LoadCache /\ mFBUpdate.on = FALSE /\ FullTried
            \/ todo = LoadLast /\ (mFBUpdate.on => Left(FALSE))
BY PlanSteps, Zenon DEF Pending, Trying

LEMMA TryingCache ==
  ASSUME Pending, Trying("cache")
  PROVE  \/ todo = CacheLoad /\ (Whole \/ setup.partial) /\ mFBUpdate.on = FALSE
         \/ /\ todo = CacheLast /\ Whole /\ FullTried
            /\ mFBUpdate.on => Plain /\ Left(FALSE)
BY PlanSteps, Zenon DEF Pending, Trying

LEMMA TryingRest ==
  ASSUME Pending
  PROVE  /\ Trying("mdp") =>
              /\ todo = Plan4 /\ (mFBUpdate.on => Left(FALSE))
              /\ Whole \/ (setup.partial /\ mFBUpdate.on = FALSE)
         /\ Trying("mdpSecure") =>
              todo = Plan3 /\ Whole /\ VideosTried /\ (mFBUpdate.on => Left(FALSE))
         /\ Trying("video") =>
              todo = Plan2 /\ Whole /\ VideosTried /\ (mFBUpdate.on => Left(TRUE))
         /\ Trying("videoSecure") =>
              todo = Plan1 /\ Whole /\ (mFBUpdate.on => VideoLeft(TRUE))
BY PlanSteps, Zenon DEF Pending, Trying

\* A strategy that succeeds has a stage for the framebuffer, or the
\* framebuffer had no pipe.
LEMMA SuccessFB ==
  ASSUME NEW f \in Division(list), PostSucceeds(f), mFBUpdate.on \in BOOLEAN,
         f.fbZ >= 0 \/ mFBUpdate.on = FALSE
  PROVE  FBInv'
<1> DEFINE r == needsRedraw(f)
           g == [f EXCEPT !.redraw = r]
<1>1. g.fbZ = f.fbZ
  BY DEF Division
<1>2. /\ mFBUpdate' = IF f.fbZ >= 0 THEN FBPrepared(f) ELSE mFBUpdate
      /\ mCurrentFrame' = g /\ mModeOn' = TRUE /\ phase' = "compose"
  BY DEF PostSucceeds
<1>3. FBPrepared(f).on = TRUE
  BY DEF FBPrepared
<1> HIDE DEF g
<1> QED  BY <1>1, <1>2, <1>3 DEF FBInv

\* What a strategy leaves that does not succeed.
Onward ==
  /\ list' = list /\ setup' = setup /\ phase' = phase /\ mModeOn' = mModeOn
  /\ todo' = Tail(todo) /\ refused \subseteq refused'

LEMMA SkipGoesOn ==
  ASSUME Skip
  PROVE  Onward /\ UNCHANGED <<mCurrentFrame, roi, mFBUpdate>>
BY DEF Skip, Onward, input, modes

LEMMA NextGoesOn ==
  ASSUME NEW fbUpdate, NextStrategy(fbUpdate), list \in Seq(Layer)
  PROVE  /\ mFBUpdate' = fbUpdate /\ Whole'
         /\ mCurrentFrame' = Reset(list', {}) /\ Among(list', mCurrentFrame'.drop)
<1>1. mCurrentFrame' = Reset(list, {}) /\ list' = list
  BY DEF NextStrategy, Fresh, input
<1>2. Reset(list, {}).drop = {}
  BY DEF Reset
<1> QED  BY <1>1, <1>2 DEF NextStrategy, Whole, Among

LEMMA FailGoesOn ==
  ASSUME NEW f, PostFails(f), list \in Seq(Layer), mFBUpdate.on \in BOOLEAN
  PROVE  /\ Onward /\ Whole'
         /\ mCurrentFrame' = Reset(list', {}) /\ Among(list', mCurrentFrame'.drop)
         /\ <<f, roi>> \in refused'
         /\ mFBUpdate'.on \in BOOLEAN
         /\ mFBUpdate'.on = TRUE => mFBUpdate.on = TRUE \/ f.fbZ >= 0
<1>1. CASE NextStrategy(mFBUpdate)
  <2>1. mFBUpdate' = mFBUpdate
    BY <1>1 DEF NextStrategy
  <2> QED  BY <1>1, <2>1, NextGoesOn DEF PostFails, NextStrategy, Onward, input, modes
<1>2. CASE f.fbZ >= 0 /\ \E on \in BOOLEAN : NextStrategy([FBPrepared(f) EXCEPT !.on = on])
  <2>1. PICK on \in BOOLEAN : NextStrategy([FBPrepared(f) EXCEPT !.on = on])
    BY <1>2
  <2> DEFINE fbUpdate == [FBPrepared(f) EXCEPT !.on = on]
  <2>2. fbUpdate.on = on
    BY DEF FBPrepared
  <2> HIDE DEF fbUpdate
  <2>3. mFBUpdate' = fbUpdate
    BY <2>1 DEF NextStrategy, fbUpdate
  <2>4. Whole' /\ mCurrentFrame' = Reset(list', {}) /\ Among(list', mCurrentFrame'.drop)
    BY <2>1, NextGoesOn
  <2>5. Onward /\ <<f, roi>> \in refused'
    BY <2>1 DEF PostFails, NextStrategy, Onward, input, modes
  <2> QED  BY <1>2, <2>2, <2>3, <2>4, <2>5
<1> QED  BY <1>1, <1>2 DEF PostFails

LEMMA GiveUpGoesOn ==
  ASSUME GiveUp, list \in Seq(Layer)
  PROVE  /\ Onward /\ Whole' /\ mFBUpdate' = mFBUpdate
         /\ mCurrentFrame' = Reset(list', {}) /\ Among(list', mCurrentFrame'.drop)
BY NextGoesOn DEF GiveUp, NextStrategy, Onward, input, modes

\* What was known stays known.
LEMMA StillKnown ==
  ASSUME Onward
  PROVE  /\ ListOfDisplay => ListOfDisplay'
         /\ Left(FALSE) => Left(FALSE)'
         /\ Left(TRUE) => Left(TRUE)'
         /\ VideoLeft(FALSE) => VideoLeft(FALSE)'
         /\ VideoLeft(TRUE) => VideoLeft(TRUE)'
         /\ AllRefused => AllRefused'
         /\ FullTried => FullTried'
         /\ VideosTried => VideosTried'
         /\ Plain => Plain'
         /\ setup.partial => setup'.partial
<1>1. list' = list /\ setup' = setup /\ refused \subseteq refused'
  BY DEF Onward
<1>2. AllRefused => AllRefused'
  BY <1>1 DEF AllRefused
<1>3. VideoLeft(FALSE) => VideoLeft(FALSE)'
  BY <1>1, Zenon DEF VideoLeft
<1>4. VideoLeft(TRUE) => VideoLeft(TRUE)'
  BY <1>1, Zenon DEF VideoLeft
<1>5. FullTried => FullTried'
  BY <1>1, <1>2, Zenon DEF FullTried
<1>6. VideosTried => VideosTried'
  BY <1>1, <1>2, <1>3, Zenon DEF VideosTried
<1>7. (Left(FALSE) => Left(FALSE)') /\ (Left(TRUE) => Left(TRUE)')
  BY <1>1, Zenon DEF Left
<1>8. (Plain => Plain') /\ (ListOfDisplay => ListOfDisplay')
  BY <1>1, Zenon DEF Plain, ListOfDisplay
<1> QED  BY <1>1, <1>2, <1>3, <1>4, <1>5, <1>6, <1>7, <1>8, Zenon

Trials == Trial /\ phase = "try" /\ mModeOn = FALSE

LEMMA Continues ==
  ASSUME Trials, Onward, Among(list', mCurrentFrame'.drop),
         mCurrentFrame' = Reset(list', mCurrentFrame'.drop),
         mFBUpdate'.on \in BOOLEAN, Pending'
  PROVE  FBInv'
<1>1. ListOfDisplay' /\ phase' = "try" /\ mModeOn' = FALSE
  BY StillKnown DEF Trials, Trial, Onward
<1> QED  BY <1>1 DEF FBInv, Trial

\* A failure goes on with a frame just reset, and nothing dropped.
LEMMA ContinuesReset ==
  ASSUME Trials, Onward, Whole', mCurrentFrame' = Reset(list', {}),
         Among(list', mCurrentFrame'.drop), mFBUpdate'.on \in BOOLEAN, Pending'
  PROVE  FBInv'
<1>1. mCurrentFrame'.drop = {}
  BY DEF Whole
<1> QED  BY <1>1, Continues

LEMMA TrialsFrame ==
  ASSUME Trials
  PROVE  /\ list \in Seq(Layer) /\ mFBUpdate.on \in BOOLEAN /\ Pending
         /\ setup.external \in BOOLEAN /\ setup.partial \in BOOLEAN
         /\ Among(list, mCurrentFrame.drop)
         /\ mCurrentFrame = Reset(list, mCurrentFrame.drop)
         /\ mCurrentFrame \in Division(list) /\ mCurrentFrame.fbZ = -1
         /\ mCurrentFrame.redraw = TRUE
<1>1. /\ list \in Seq(Layer) /\ mFBUpdate.on \in BOOLEAN /\ Pending
      /\ setup.external \in BOOLEAN /\ setup.partial \in BOOLEAN
      /\ Among(list, mCurrentFrame.drop)
      /\ mCurrentFrame = Reset(list, mCurrentFrame.drop)
  BY ListType DEF Trials, Trial
<1> DEFINE drop == mCurrentFrame.drop
           r == Reset(list, drop)
<1>2. r \in Division(list) /\ r.fbZ = -1 /\ r.redraw = TRUE
  BY <1>1, ResetFields
<1> HIDE DEF r
<1>3. mCurrentFrame = r
  BY <1>1 DEF r
<1> QED  BY <1>1, <1>2, <1>3

LEMMA FullFB ==
  ASSUME Trials, fullMDPComp
  PROVE  FBInv'
<1> DEFINE f == fullMDP(list, mCurrentFrame)
           applies == /\ setup.external => Len(list) <= MAX_SEC_LAYERS
                      /\ Supported(mCurrentFrame)
<1>1. /\ list \in Seq(Layer) /\ mFBUpdate.on \in BOOLEAN /\ Pending
      /\ setup.external \in BOOLEAN
      /\ Among(list, mCurrentFrame.drop)
      /\ mCurrentFrame = Reset(list, mCurrentFrame.drop)
      /\ mCurrentFrame \in Division(list) /\ mCurrentFrame.fbZ = -1
      /\ mCurrentFrame.redraw = TRUE
  BY TrialsFrame
<1>2. /\ f \in Division(list) /\ f.fb = mCurrentFrame.drop /\ f.drop = mCurrentFrame.drop
      /\ f.fbZ = -1 /\ f.redraw = TRUE /\ Counted(list, f)
  BY <1>1, FullFields
<1>3. /\ Trying("full")
      /\ \/ applies /\ (PostSucceeds(f) \/ PostFails(f))
         \/ ~applies /\ Skip
  BY DEF fullMDPComp
<1>4. /\ mFBUpdate.on = FALSE
      /\ \/ todo = FullLC /\ Whole
         \/ todo = FullCL /\ (Whole \/ setup.partial)
  BY <1>1, <1>3, TryingFull
<1>5. Whole => f = AllPipes(list)
  BY <1>1, <1>2, AllPipesIs DEF Whole
<1>6. Tail(FullLC) = LoadCache /\ Tail(FullCL) = CacheLoad
  BY PlanSteps
<1>7. Supported(mCurrentFrame) \/ \E i \in Indices(list) : ~list[i].supported
  BY DEF Supported
<1> HIDE DEF f, applies
<1>8. CASE PostSucceeds(f)
  BY <1>1, <1>2, <1>4, <1>8, SuccessFB
<1>9. CASE PostFails(f)
  <2>1. /\ Onward /\ Whole'
        /\ mCurrentFrame' = Reset(list', {}) /\ Among(list', mCurrentFrame'.drop)
        /\ <<f, roi>> \in refused'
        /\ mFBUpdate'.on \in BOOLEAN
        /\ mFBUpdate'.on = TRUE => mFBUpdate.on = TRUE \/ f.fbZ >= 0
    BY <1>1, <1>9, FailGoesOn
  <2>2. mFBUpdate'.on = FALSE
    BY <1>2, <1>4, <2>1
  <2>3. list' = list /\ todo' = Tail(todo) /\ setup' = setup
    BY <2>1 DEF Onward
  <2>4. Whole => AllRefused'
    BY <1>5, <2>1, <2>3 DEF Whole, AllRefused
  <2>5. Pending'
    <3>1. CASE todo = FullLC /\ Whole
      BY <1>6, <2>1, <2>2, <2>3, <2>4, <3>1, Zenon DEF Pending, FullTried
    <3>2. CASE todo = FullCL
      BY <1>6, <2>1, <2>2, <2>3, <3>2, Zenon DEF Pending
    <3> QED  BY <1>4, <3>1, <3>2
  <2> QED  BY <2>1, <2>5, ContinuesReset
<1>10. CASE ~applies /\ Skip
  <2>1. Onward /\ UNCHANGED <<mCurrentFrame, roi, mFBUpdate>>
    BY <1>10, SkipGoesOn
  <2>2. list' = list /\ todo' = Tail(todo) /\ setup' = setup
    BY <2>1 DEF Onward
  <2>3. (Whole => Whole') /\ mFBUpdate'.on = FALSE
    BY <1>4, <2>1 DEF Whole
  <2>4. FullTried'
    <3>1. FullTried
      BY <1>7, <1>10, Zenon DEF FullTried, applies
    <3> QED  BY <2>1, <3>1, StillKnown
  <2>5. Pending'
    <3>1. CASE todo = FullLC /\ Whole
      BY <1>6, <2>2, <2>3, <2>4, <3>1, Zenon DEF Pending
    <3>2. CASE todo = FullCL /\ (Whole \/ setup.partial)
      BY <1>6, <2>2, <2>3, <3>2, Zenon DEF Pending
    <3> QED  BY <1>4, <3>1, <3>2
  <2>6. Among(list', mCurrentFrame'.drop) /\ mCurrentFrame' = Reset(list', mCurrentFrame'.drop)
        /\ mFBUpdate'.on \in BOOLEAN
    BY <1>1, <2>1, <2>2, <2>3
  <2> QED  BY <2>1, <2>5, <2>6, Continues
<1> QED  BY <1>3, <1>8, <1>9, <1>10

\* Without a video or a secure layer, every layer stays.
LEMMA PlainStays ==
  ASSUME Plain
  PROVE  \A i \in Indices(list) : Stays(list, i, FALSE)
<1>1. \A i \in Indices(list) : ~isYuv(list[i]) /\ ~isSecure(list[i])
  BY Zenon DEF Plain, isYuvPresent, isSecurePresent
<1>2. \A i : list[i].kind = "secureRgb" => isSecure(list[i])
  BY DEF isSecure
<1> QED  BY <1>1, <1>2, Zenon DEF Stays, Leaves, InReach, LeavesRGB

LEMMA CacheFB ==
  ASSUME Trials, cacheBasedComp
  PROVE  FBInv'
<1> DEFINE r == Reset(list, mCurrentFrame.drop)
           f == updateLayerCache(list, r, updating)
           m == Mixed(list, f, FALSE)
           g == updateSecureRGB(list, updateYUV(list, f, FALSE))
           applies == /\ \A i \in Indices(list) \ f.fb : list[i].supported
                      /\ CanMark(list, g)
                      /\ setup.external => m.mdpCount <= MAX_SEC_LAYERS
<1>1. /\ list \in Seq(Layer) /\ mFBUpdate.on \in BOOLEAN /\ Pending
      /\ setup.external \in BOOLEAN
      /\ Among(list, mCurrentFrame.drop)
      /\ mCurrentFrame = Reset(list, mCurrentFrame.drop)
  BY TrialsFrame
<1>2. /\ r \in Division(list) /\ r.drop = mCurrentFrame.drop /\ r.fbZ = -1 /\ r.redraw = TRUE
  BY <1>1, ResetFields
<1>3. /\ Trying("cache")
      /\ \/ applies /\ (PostSucceeds(m) \/ PostFails(m))
         \/ ~applies /\ GiveUp
  BY Zenon DEF cacheBasedComp, Mixed
<1> HIDE DEF r
<1>4. /\ f \in Division(list) /\ f.drop = mCurrentFrame.drop
      /\ f.fbZ = -1 /\ f.redraw = TRUE /\ Counted(list, f)
  BY <1>1, <1>2, CacheFields
<1> HIDE DEF f, g
<1>5. /\ m \in Division(list)
      /\ m.fbZ >= 0 => \E k \in Indices(list) : Stays(list, k, FALSE)
      /\ f.drop = {} => m.fbZ >= 0 \/ m = AllPipes(list)
      /\ f.drop = {} /\ (\E k \in Indices(list) : k \in f.fb /\ Stays(list, k, FALSE))
           => m.fbZ >= 0
  BY <1>1, <1>4, MixedOutcome, Zenon
<1> HIDE DEF m
<1>6. m.fbZ >= 0 => Left(FALSE)
  BY <1>5, Zenon DEF Left
<1>7. \/ todo = CacheLoad /\ (Whole \/ setup.partial) /\ mFBUpdate.on = FALSE
      \/ /\ todo = CacheLast /\ Whole /\ FullTried
         /\ mFBUpdate.on => Plain /\ Left(FALSE)
  BY <1>1, <1>3, TryingCache
<1>8. Tail(CacheLast) = Plan4 /\ Tail(CacheLoad) = LoadLast
  BY PlanSteps
<1>9. CASE applies /\ PostSucceeds(m)
  <2>1. ASSUME todo = CacheLast, Whole, FullTried, mFBUpdate.on => Plain /\ Left(FALSE)
        PROVE  m.fbZ >= 0 \/ mFBUpdate.on = FALSE
    <3>1. SUFFICES ASSUME Plain, ~(m.fbZ >= 0)  PROVE FALSE
      BY <1>1, <2>1
    <3>2. f.drop = {} /\ m = AllPipes(list) /\ roi = Cells
      BY <1>4, <1>5, <2>1, <3>1 DEF Whole
    <3>3. ~AllRefused
      BY <1>9, <3>2, Zenon DEF PostSucceeds, AllRefused
    <3>4. PICK i \in Indices(list) : ~list[i].supported
      BY <2>1, <3>1, <3>3, Zenon DEF FullTried, Plain
    <3>5. i \in f.fb
      BY <1>9, <3>4, Zenon
    <3> QED  BY <1>5, <3>1, <3>2, <3>4, <3>5, PlainStays, Zenon
  <2>2. m.fbZ >= 0 \/ mFBUpdate.on = FALSE
    BY <1>7, <2>1
  <2> QED  BY <1>1, <1>5, <1>9, <2>2, SuccessFB
<1>10. CASE PostFails(m)
  <2>1. /\ Onward /\ Whole'
        /\ mCurrentFrame' = Reset(list', {}) /\ Among(list', mCurrentFrame'.drop)
        /\ mFBUpdate'.on \in BOOLEAN
        /\ mFBUpdate'.on = TRUE => mFBUpdate.on = TRUE \/ m.fbZ >= 0
    BY <1>1, <1>10, FailGoesOn
  <2>2. todo' = Tail(todo)
    BY <2>1 DEF Onward
  <2>3. mFBUpdate'.on => Left(FALSE)'
    <3>1. mFBUpdate'.on => Left(FALSE)
      BY <1>6, <1>7, <2>1
    <3> QED  BY <2>1, <3>1, StillKnown
  <2>4. Pending'
    BY <1>7, <1>8, <2>1, <2>2, <2>3, Zenon DEF Pending
  <2> QED  BY <2>1, <2>4, ContinuesReset
<1>11. CASE GiveUp
  <2>1. /\ Onward /\ Whole' /\ mFBUpdate' = mFBUpdate
        /\ mCurrentFrame' = Reset(list', {}) /\ Among(list', mCurrentFrame'.drop)
    BY <1>1, <1>11, GiveUpGoesOn
  <2>2. todo' = Tail(todo) /\ (Left(FALSE) => Left(FALSE)')
    BY <2>1, StillKnown DEF Onward
  <2>3. mFBUpdate'.on => Left(FALSE)'
    BY <1>7, <2>1, <2>2
  <2>4. Pending'
    BY <1>7, <1>8, <2>1, <2>2, <2>3, Zenon DEF Pending
  <2>5. mFBUpdate'.on \in BOOLEAN
    BY <1>1, <2>1
  <2> QED  BY <2>1, <2>4, <2>5, ContinuesReset
<1> QED  BY <1>3, <1>9, <1>10, <1>11

LEMMA LoadFB ==
  ASSUME Trials, NEW stages \in 1 .. MaxPipes, loadBasedComp(stages)
  PROVE  FBInv'
<1> DEFINE most == LoadBatch(stages)
           applies == /\ ~setup.external
                      /\ ~isSecurePresent(list) /\ ~isYuvPresent(list)
                      /\ most >= 1
<1>1. /\ list \in Seq(Layer) /\ mFBUpdate.on \in BOOLEAN /\ Pending
      /\ Among(list, mCurrentFrame.drop)
      /\ mCurrentFrame = Reset(list, mCurrentFrame.drop)
  BY TrialsFrame
<1>2. /\ Trying("load")
      /\ \/ /\ applies
            /\ \/ \E size \in 1 .. most : PostSucceeds(LoadFrame(size))
               \/ PostFails(LoadFrame(1))
         \/ ~applies /\ Skip
  BY Zenon DEF loadBasedComp
<1>3. /\ Whole
      /\ \/ todo = LoadCache /\ mFBUpdate.on = FALSE /\ FullTried
         \/ todo = LoadLast /\ (mFBUpdate.on => Left(FALSE))
  BY <1>1, <1>2, TryingLoad
<1>4. Tail(LoadCache) = CacheLast /\ Tail(LoadLast) = Plan4
  BY PlanSteps
<1>5. ASSUME applies  PROVE most \in Nat /\ most <= Len(list) - 2 /\ Len(list) \in Nat
  <2>1. stages \in Nat /\ LoadBatch(stages) >= 1
    BY <1>5, FrameAssumption
  <2> QED  BY <1>1, <2>1, LoadSize
<1> HIDE DEF most
<1>6. CASE applies /\ \E size \in 1 .. most : PostSucceeds(LoadFrame(size))
  <2>1. PICK size \in 1 .. most : PostSucceeds(LoadFrame(size))
    BY <1>6
  <2>2. size \in Nat /\ size <= Len(list) /\ size >= 0
    BY <1>5, <1>6
  <2> DEFINE f == LoadFrame(size)
  <2>3. f \in Division(list) /\ f.fbZ = size
    BY <1>1, <2>2, LoadFields
  <2> HIDE DEF f
  <2>4. PostSucceeds(f) /\ f.fbZ >= 0
    BY <2>1, <2>2, <2>3 DEF f
  <2> QED  BY <1>1, <2>3, <2>4, SuccessFB
<1>7. CASE applies /\ PostFails(LoadFrame(1))
  <2> DEFINE f == LoadFrame(1)
  <2>1. /\ Onward /\ Whole'
        /\ mCurrentFrame' = Reset(list', {}) /\ Among(list', mCurrentFrame'.drop)
        /\ mFBUpdate'.on \in BOOLEAN
    BY <1>1, <1>7, FailGoesOn
  <2>2. todo' = Tail(todo)
    BY <2>1 DEF Onward
  <2>3. Plain /\ Left(FALSE)
    <3>1. Plain
      BY <1>7 DEF Plain
    <3>2. 1 \in Indices(list)
      BY <1>1, <1>5, <1>7 DEF Indices
    <3> QED  BY <3>1, <3>2, PlainStays, Zenon DEF Left
  <2>4. Plain' /\ Left(FALSE)' /\ (FullTried => FullTried')
    BY <2>1, <2>3, StillKnown
  <2>5. Pending'
    BY <1>3, <1>4, <2>1, <2>2, <2>4, Zenon DEF Pending
  <2> QED  BY <2>1, <2>5, ContinuesReset
<1>8. CASE ~applies /\ Skip
  <2>1. Onward /\ UNCHANGED <<mCurrentFrame, roi, mFBUpdate>>
    BY <1>8, SkipGoesOn
  <2>2. list' = list /\ todo' = Tail(todo)
    BY <2>1 DEF Onward
  <2>3. Whole' /\ mFBUpdate' = mFBUpdate
    BY <1>3, <2>1 DEF Whole
  <2>4. (FullTried => FullTried') /\ (Left(FALSE) => Left(FALSE)')
    BY <2>1, StillKnown
  <2>5. Pending'
    <3>1. CASE todo = LoadCache /\ mFBUpdate.on = FALSE /\ FullTried
      BY <1>4, <2>2, <2>3, <2>4, <3>1, Zenon DEF Pending
    <3>2. CASE todo = LoadLast /\ (mFBUpdate.on => Left(FALSE))
      BY <1>4, <2>2, <2>3, <2>4, <3>2, Zenon DEF Pending
    <3> QED  BY <1>3, <3>1, <3>2
  <2>6. Among(list', mCurrentFrame'.drop) /\ mCurrentFrame' = Reset(list', mCurrentFrame'.drop)
        /\ mFBUpdate'.on \in BOOLEAN
    BY <1>1, <2>1, <2>2, <2>3
  <2> QED  BY <2>1, <2>5, <2>6, Continues
<1> QED  BY <1>2, <1>6, <1>7, <1>8

\* When every layer is a video that leaves, no count but that of the pipes
\* is left.
LEMMA AllLeave ==
  ASSUME list \in Seq(Layer), ~VideoLeft(FALSE)
  PROVE  LET g == updateSecureRGB(list, updateYUV(list, Begun(list, {}), FALSE))
         IN  g.fbCount = 0 /\ g.mdpCount = Len(list) /\ Len(list) \in Nat
<1> DEFINE t == Begun(list, {})
           h == updateYUV(list, t, FALSE)
           g == updateSecureRGB(list, h)
<1>1. Among(list, {})
  BY DEF Among
<1>2. /\ t \in Division(list) /\ t.drop = {} /\ Counted(list, t)
  BY <1>1, BegunFields
<1> HIDE DEF t
<1>3. /\ h \in Division(list) /\ h.drop = {} /\ Counted(list, h)
      /\ \A k \in Indices(list) : k \in h.fb => (Leaves(list, k, FALSE) => k \in t.drop)
  BY <1>2, YuvFields, Zenon
<1> HIDE DEF h
<1>4. /\ g \in Division(list) /\ g.drop = {} /\ Counted(list, g)
      /\ \A k \in Indices(list) : k \in g.fb => (k \in h.fb \/ list[k].kind = "secureRgb")
  BY <1>3, RGBFields, Zenon
<1> HIDE DEF g
<1>5. \A k \in Indices(list) : Leaves(list, k, FALSE)
  BY Zenon DEF VideoLeft
<1>6. \A k \in Indices(list) : k \notin h.fb
  BY <1>2, <1>3, <1>5
<1>7. \A k \in Indices(list) : list[k].kind # "secureRgb"
  BY <1>5 DEF Leaves, InReach, isYuv
<1>8. g.fb = {}
  <2>1. Among(list, g.fb)
    BY <1>4, DivisionFields
  <2> QED  BY <1>4, <1>6, <1>7, <2>1 DEF Among
<1>9. g.fbCount = 0 /\ g.mdpCount = Len(list) /\ Len(list) \in Nat
  <2>1. /\ g.fb \ g.drop = {} /\ Cardinality({}) = 0 /\ Len(list) \in Nat
    BY <1>8, FS_EmptySet, IndicesFinite
  <2>2. /\ g.fbCount = Cardinality(g.fb \ g.drop)
        /\ g.mdpCount = Len(list) - g.fbCount - Cardinality(g.drop)
    BY <1>4 DEF Counted
  <2>3. g.fbCount = 0 /\ g.mdpCount = Len(list) - 0 - 0
    BY <1>4, <2>1, <2>2
  <2> QED  BY <2>1, <2>3
<1> QED  BY <1>9 DEF g, h, t

\* On a panel that takes partial updates some layer is no video.
LEMMA DrawnOnPartial ==
  ASSUME SomeLayerDrawn, ListOfDisplay, setup.partial
  PROVE  list = <<>> \/ VideoLeft(FALSE)
<1>1. CASE list # <<>>
  <2>1. PICK i \in Indices(list) : ~isYuv(list[i])
    BY <1>1, Zenon DEF SomeLayerDrawn, ListOfDisplay
  <2> QED  BY <2>1, Zenon DEF VideoLeft, Leaves, InReach
<1> QED  BY <1>1

\* What mdpOnlyLayersComp tries.
LEMMA MixedFacts ==
  ASSUME Trials, NEW secureOnly, mdpOnlyLayersComp(secureOnly)
  PROVE  LET m == Mixed(list, Begun(list, mCurrentFrame.drop), secureOnly)
         IN  /\ Trying(IF secureOnly THEN "mdpSecure" ELSE "mdp")
             /\ PostSucceeds(m) \/ PostFails(m) \/ GiveUp
             /\ m \in Division(list)
             /\ m.fbZ >= 0 => Left(secureOnly)
             /\ Whole => m.fbZ >= 0 \/ m = AllPipes(list)
             /\ Whole /\ Left(secureOnly) => m.fbZ >= 0
<1> DEFINE drop == mCurrentFrame.drop
           t == Begun(list, drop)
           m == Mixed(list, t, secureOnly)
<1>1. list \in Seq(Layer) /\ Among(list, drop)
  BY TrialsFrame
<1>2. /\ Trying(IF secureOnly THEN "mdpSecure" ELSE "mdp")
      /\ PostSucceeds(m) \/ PostFails(m) \/ GiveUp
  BY Zenon DEF mdpOnlyLayersComp, Mixed, Begun
<1>3. /\ t \in Division(list) /\ t.fb = Indices(list) /\ t.drop = drop
      /\ t.fbZ = -1 /\ t.redraw = TRUE /\ Counted(list, t)
  BY <1>1, BegunFields
<1> HIDE DEF t
<1>4. /\ m \in Division(list)
      /\ m.fbZ >= 0 => \E k \in Indices(list) : Stays(list, k, secureOnly)
      /\ t.drop = {} => m.fbZ >= 0 \/ m = AllPipes(list)
      /\ t.drop = {} /\ (\E k \in Indices(list) : k \in t.fb /\ Stays(list, k, secureOnly))
           => m.fbZ >= 0
  BY <1>1, <1>3, MixedOutcome, Zenon
<1> HIDE DEF m
<1>5. Whole => t.drop = {}
  BY <1>3 DEF Whole
<1>6. m.fbZ >= 0 => Left(secureOnly)
  BY <1>4, Zenon DEF Left
<1>7. Whole /\ Left(secureOnly) => m.fbZ >= 0
  BY <1>3, <1>4, <1>5, Zenon DEF Left
<1>8. Whole => m.fbZ >= 0 \/ m = AllPipes(list)
  BY <1>4, <1>5, Zenon
<1> QED  BY <1>2, <1>4, <1>6, <1>7, <1>8, Zenon DEF m, t

LEMMA MdpFB ==
  ASSUME SomeLayerDrawn, Trials, mdpOnlyLayersComp(FALSE)
  PROVE  FBInv'
<1> DEFINE m == Mixed(list, Begun(list, mCurrentFrame.drop), FALSE)
<1>1. /\ list \in Seq(Layer) /\ mFBUpdate.on \in BOOLEAN /\ Pending
      /\ ListOfDisplay /\ setup.partial \in BOOLEAN
  BY TrialsFrame DEF Trials, Trial
<1>2. /\ Trying("mdp") /\ (PostSucceeds(m) \/ PostFails(m) \/ GiveUp)
      /\ m \in Division(list) /\ (m.fbZ >= 0 => Left(FALSE))
      /\ Whole => m.fbZ >= 0 \/ m = AllPipes(list)
      /\ Whole /\ Left(FALSE) => m.fbZ >= 0
  BY MixedFacts, Zenon
<1> HIDE DEF m
<1>3. /\ todo = Plan4 /\ (mFBUpdate.on => Left(FALSE))
      /\ Whole \/ (setup.partial /\ mFBUpdate.on = FALSE)
  BY <1>1, <1>2, TryingRest
<1>4. Tail(Plan4) = Plan3
  BY PlanSteps
<1>5. CASE PostSucceeds(m)
  <2>1. m.fbZ >= 0 \/ mFBUpdate.on = FALSE
    BY <1>1, <1>2, <1>3
  <2> QED  BY <1>1, <1>2, <1>5, <2>1, SuccessFB
<1>6. CASE PostFails(m)
  <2>1. /\ Onward /\ Whole'
        /\ mCurrentFrame' = Reset(list', {}) /\ Among(list', mCurrentFrame'.drop)
        /\ <<m, roi>> \in refused'
        /\ mFBUpdate'.on \in BOOLEAN
        /\ mFBUpdate'.on = TRUE => mFBUpdate.on = TRUE \/ m.fbZ >= 0
    BY <1>1, <1>6, FailGoesOn
  <2>2. todo' = Tail(todo) /\ list' = list
    BY <2>1 DEF Onward
  <2>3. mFBUpdate'.on => Left(FALSE)'
    <3>1. mFBUpdate'.on => Left(FALSE)
      BY <1>2, <1>3, <2>1
    <3> QED  BY <2>1, <3>1, StillKnown
  <2>4. VideosTried'
    <3>1. CASE VideoLeft(FALSE) \/ list = <<>>
      <4>1. VideosTried
        BY <3>1 DEF VideosTried
      <4> QED  BY <2>1, <4>1, StillKnown
    <3>2. CASE m = AllPipes(list) /\ roi = Cells
      <4>1. AllRefused'
        BY <2>1, <2>2, <3>2 DEF AllRefused
      <4> QED  BY <4>1 DEF VideosTried
    <3>3. CASE Whole /\ m.fbZ >= 0
      BY <1>2, <3>1, <3>3, FewerLeave
    <3>4. CASE setup.partial
      BY <1>1, <3>1, <3>4, DrawnOnPartial
    <3> QED  BY <1>2, <1>3, <3>2, <3>3, <3>4 DEF Whole
  <2>5. Pending'
    BY <1>3, <1>4, <2>1, <2>2, <2>3, <2>4, Zenon DEF Pending
  <2> QED  BY <2>1, <2>5, ContinuesReset
<1>7. CASE ~PostSucceeds(m) /\ ~PostFails(m) /\ GiveUp
  <2>1. /\ Onward /\ Whole' /\ mFBUpdate' = mFBUpdate
        /\ mCurrentFrame' = Reset(list', {}) /\ Among(list', mCurrentFrame'.drop)
    BY <1>1, <1>7, GiveUpGoesOn
  <2>2. todo' = Tail(todo) /\ (Left(FALSE) => Left(FALSE)') /\ (VideosTried => VideosTried')
    BY <2>1, StillKnown DEF Onward
  <2>3. VideosTried
    <3>1. CASE setup.partial
      BY <1>1, <3>1, DrawnOnPartial DEF VideosTried
    <3>2. CASE Whole
      <4>1. SUFFICES ASSUME ~VideoLeft(FALSE)  PROVE list = <<>>
        BY DEF VideosTried
      <4> DEFINE t == Begun(list, mCurrentFrame.drop)
                 g == updateSecureRGB(list, updateYUV(list, t, FALSE))
      <4>2. mCurrentFrame.drop = {}
        BY <3>2 DEF Whole
      <4>3. g.fbCount = 0 /\ g.mdpCount = Len(list) /\ Len(list) \in Nat
        BY <1>1, <4>1, <4>2, AllLeave
      <4>4. g.mdpCount = 0 \/ ~CanMark(list, g)
        BY <1>7, Zenon DEF mdpOnlyLayersComp, Mixed, Begun, m
      <4> HIDE DEF g
      <4>5. CanMark(list, g)
        BY <4>3, Zenon DEF CanMark
      <4>6. Len(list) = 0
        BY <4>3, <4>4, <4>5
      <4> QED  BY <1>1, <4>6
    <3> QED  BY <1>3, <3>1, <3>2
  <2>4. Pending'
    BY <1>3, <1>4, <2>1, <2>2, <2>3, Zenon DEF Pending
  <2>5. mFBUpdate'.on \in BOOLEAN
    BY <1>1, <2>1
  <2> QED  BY <2>1, <2>4, <2>5, ContinuesReset
<1> QED  BY <1>2, <1>5, <1>6, <1>7

LEMMA MdpSecureFB ==
  ASSUME Trials, mdpOnlyLayersComp(TRUE)
  PROVE  FBInv'
<1> DEFINE m == Mixed(list, Begun(list, mCurrentFrame.drop), TRUE)
<1>1. /\ list \in Seq(Layer) /\ mFBUpdate.on \in BOOLEAN /\ Pending
  BY TrialsFrame
<1>2. /\ Trying("mdpSecure") /\ (PostSucceeds(m) \/ PostFails(m) \/ GiveUp)
      /\ m \in Division(list) /\ (m.fbZ >= 0 => Left(TRUE))
      /\ Whole /\ Left(TRUE) => m.fbZ >= 0
  BY MixedFacts, Zenon
<1> HIDE DEF m
<1>3. todo = Plan3 /\ Whole /\ VideosTried /\ (mFBUpdate.on => Left(FALSE))
  BY <1>1, <1>2, TryingRest
<1>4. Tail(Plan3) = Plan2 /\ (mFBUpdate.on => Left(TRUE))
  BY <1>3, PlanSteps, FewerLeave
<1>5. CASE PostSucceeds(m)
  <2>1. m.fbZ >= 0 \/ mFBUpdate.on = FALSE
    BY <1>1, <1>2, <1>3, <1>4
  <2> QED  BY <1>1, <1>2, <1>5, <2>1, SuccessFB
<1>6. CASE PostFails(m)
  <2>1. /\ Onward /\ Whole'
        /\ mCurrentFrame' = Reset(list', {}) /\ Among(list', mCurrentFrame'.drop)
        /\ mFBUpdate'.on \in BOOLEAN
        /\ mFBUpdate'.on = TRUE => mFBUpdate.on = TRUE \/ m.fbZ >= 0
    BY <1>1, <1>6, FailGoesOn
  <2>2. todo' = Tail(todo) /\ VideosTried'
    BY <1>3, <2>1, StillKnown DEF Onward
  <2>3. mFBUpdate'.on => Left(TRUE)'
    <3>1. mFBUpdate'.on => Left(TRUE)
      BY <1>2, <1>4, <2>1
    <3> QED  BY <2>1, <3>1, StillKnown
  <2>4. Pending'
    BY <1>3, <1>4, <2>1, <2>2, <2>3, Zenon DEF Pending
  <2> QED  BY <2>1, <2>4, ContinuesReset
<1>7. CASE GiveUp
  <2>1. /\ Onward /\ Whole' /\ mFBUpdate' = mFBUpdate
        /\ mCurrentFrame' = Reset(list', {}) /\ Among(list', mCurrentFrame'.drop)
    BY <1>1, <1>7, GiveUpGoesOn
  <2>2. todo' = Tail(todo) /\ (Left(TRUE) => Left(TRUE)') /\ VideosTried'
    BY <1>3, <2>1, StillKnown DEF Onward
  <2>3. Pending'
    BY <1>3, <1>4, <2>1, <2>2, Zenon DEF Pending
  <2>4. mFBUpdate'.on \in BOOLEAN
    BY <1>1, <2>1
  <2> QED  BY <2>1, <2>3, <2>4, ContinuesReset
<1> QED  BY <1>2, <1>5, <1>6, <1>7

\* What videoOnlyComp tries.
LEMMA VideoFacts ==
  ASSUME Trials, Whole, NEW secureOnly, videoOnlyComp(secureOnly)
  PROVE  LET v == VideoFrame(list, {}, secureOnly)
         IN  /\ Trying(IF secureOnly THEN "videoSecure" ELSE "video")
             /\ (list # <<>> /\ PostSucceeds(v)) \/ PostFails(v) \/ GiveUp
             /\ v \in Division(list)
             /\ v.fbZ >= 0 => VideoLeft(secureOnly)
             /\ v.fbZ >= 0 \/ v = AllPipes(list)
             /\ VideoLeft(secureOnly) => v.fbZ >= 0
<1> DEFINE v == VideoFrame(list, {}, secureOnly)
<1>1. list \in Seq(Layer) /\ mCurrentFrame.drop = {}
  BY TrialsFrame DEF Whole
<1>2. /\ Trying(IF secureOnly THEN "videoSecure" ELSE "video")
      /\ (isYuvPresent(list) /\ PostSucceeds(v)) \/ PostFails(v) \/ GiveUp
  BY <1>1, Zenon DEF videoOnlyComp, VideoFrame, Begun
<1>3. /\ v \in Division(list)
      /\ v.fbZ >= 0 => \E k \in Indices(list) : ~Leaves(list, k, secureOnly)
      /\ v.fbZ >= 0 \/ v = AllPipes(list)
      /\ (\E k \in Indices(list) : ~Leaves(list, k, secureOnly)) => v.fbZ >= 0
  BY <1>1, VideoOutcome, Zenon
<1> HIDE DEF v
<1>4. isYuvPresent(list) => list # <<>>
  BY <1>1 DEF isYuvPresent, Indices
<1> QED  BY <1>2, <1>3, <1>4, Zenon DEF v, VideoLeft

LEMMA VideoFB ==
  ASSUME Trials, videoOnlyComp(FALSE)
  PROVE  FBInv'
<1> DEFINE v == VideoFrame(list, {}, FALSE)
<1>1. list \in Seq(Layer) /\ mFBUpdate.on \in BOOLEAN /\ Pending /\ Trying("video")
  BY TrialsFrame DEF videoOnlyComp
<1>2. todo = Plan2 /\ Whole /\ VideosTried /\ (mFBUpdate.on => Left(TRUE))
  BY <1>1, TryingRest
<1>3. /\ (list # <<>> /\ PostSucceeds(v)) \/ PostFails(v) \/ GiveUp
      /\ v \in Division(list)
      /\ v.fbZ >= 0 => VideoLeft(FALSE)
      /\ v.fbZ >= 0 \/ v = AllPipes(list)
      /\ VideoLeft(FALSE) => v.fbZ >= 0
  BY <1>2, VideoFacts, Zenon
<1> HIDE DEF v
<1>4. /\ Tail(Plan2) = Plan1 /\ (mFBUpdate.on => VideoLeft(TRUE))
      /\ VideoLeft(FALSE) => VideoLeft(TRUE)
  BY <1>2, PlanSteps, FewerLeave
<1>5. CASE list # <<>> /\ PostSucceeds(v)
  <2>1. ~(v = AllPipes(list) /\ AllRefused)
    BY <1>2, <1>5, Zenon DEF PostSucceeds, AllRefused, Whole
  <2>2. v.fbZ >= 0
    BY <1>2, <1>3, <1>5, <2>1 DEF VideosTried
  <2> QED  BY <1>1, <1>3, <1>5, <2>2, SuccessFB
<1>6. CASE PostFails(v)
  <2>1. /\ Onward /\ Whole'
        /\ mCurrentFrame' = Reset(list', {}) /\ Among(list', mCurrentFrame'.drop)
        /\ mFBUpdate'.on \in BOOLEAN
        /\ mFBUpdate'.on = TRUE => mFBUpdate.on = TRUE \/ v.fbZ >= 0
    BY <1>1, <1>6, FailGoesOn
  <2>2. todo' = Tail(todo)
    BY <2>1 DEF Onward
  <2>3. mFBUpdate'.on => VideoLeft(TRUE)'
    <3>1. mFBUpdate'.on => VideoLeft(TRUE)
      BY <1>3, <1>4, <2>1
    <3> QED  BY <2>1, <3>1, StillKnown
  <2>4. Pending'
    BY <1>2, <1>4, <2>1, <2>2, <2>3, Zenon DEF Pending
  <2> QED  BY <2>1, <2>4, ContinuesReset
<1>7. CASE GiveUp
  <2>1. /\ Onward /\ Whole' /\ mFBUpdate' = mFBUpdate
        /\ mCurrentFrame' = Reset(list', {}) /\ Among(list', mCurrentFrame'.drop)
    BY <1>1, <1>7, GiveUpGoesOn
  <2>2. todo' = Tail(todo) /\ (VideoLeft(TRUE) => VideoLeft(TRUE)')
    BY <2>1, StillKnown DEF Onward
  <2>3. Pending'
    BY <1>2, <1>4, <2>1, <2>2, Zenon DEF Pending
  <2>4. mFBUpdate'.on \in BOOLEAN
    BY <1>1, <2>1
  <2> QED  BY <2>1, <2>3, <2>4, ContinuesReset
<1> QED  BY <1>3, <1>5, <1>6, <1>7

LEMMA VideoSecureFB ==
  ASSUME Trials, videoOnlyComp(TRUE)
  PROVE  FBInv'
<1> DEFINE v == VideoFrame(list, {}, TRUE)
<1>1. list \in Seq(Layer) /\ mFBUpdate.on \in BOOLEAN /\ Pending /\ Trying("videoSecure")
  BY TrialsFrame DEF videoOnlyComp
<1>2. todo = Plan1 /\ Whole /\ (mFBUpdate.on => VideoLeft(TRUE))
  BY <1>1, TryingRest
<1>3. /\ PostSucceeds(v) \/ PostFails(v) \/ GiveUp
      /\ v \in Division(list)
      /\ VideoLeft(TRUE) => v.fbZ >= 0
  BY <1>2, VideoFacts, Zenon
<1> HIDE DEF v
<1>4. Tail(Plan1) = Plan0
  BY PlanSteps
<1>5. CASE PostSucceeds(v)
  <2>1. v.fbZ >= 0 \/ mFBUpdate.on = FALSE
    BY <1>1, <1>2, <1>3
  <2> QED  BY <1>1, <1>3, <1>5, <2>1, SuccessFB
<1>6. CASE PostFails(v)
  <2>1. /\ Onward /\ Whole'
        /\ mCurrentFrame' = Reset(list', {}) /\ Among(list', mCurrentFrame'.drop)
        /\ mFBUpdate'.on \in BOOLEAN
    BY <1>1, <1>6, FailGoesOn
  <2>2. Pending'
    BY <1>2, <1>4, <2>1 DEF Pending, Onward
  <2> QED  BY <2>1, <2>2, ContinuesReset
<1>7. CASE GiveUp
  <2>1. /\ Onward /\ Whole' /\ mFBUpdate' = mFBUpdate
        /\ mCurrentFrame' = Reset(list', {}) /\ Among(list', mCurrentFrame'.drop)
    BY <1>1, <1>7, GiveUpGoesOn
  <2>2. Pending'
    BY <1>2, <1>4, <2>1 DEF Pending, Onward
  <2>3. mFBUpdate'.on \in BOOLEAN
    BY <1>1, <2>1
  <2> QED  BY <2>1, <2>2, <2>3, ContinuesReset
<1> QED  BY <1>3, <1>5, <1>6, <1>7

\* The frame of a round begins whole, or with a region of interest on a
\* panel that takes partial updates.
LEMMA BeginFB ==
  ASSUME Typed, Begin
  PROVE  FBInv'
<1>1. /\ mModeOn' = FALSE /\ mFBUpdate' = FBOff /\ setup' = setup
      /\ phase' \in {"try", "fallback"} /\ list' \in setup.lists
  BY DEF Begin, ResetRound, Prepare, Unsupported, AvoidNew, Divide, NewList
<1>2. ListOfDisplay' /\ mFBUpdate'.on = FALSE
  BY <1>1 DEF Typed, TypeOK, ListOfDisplay, FBOff
<1>3. ASSUME phase' = "try"  PROVE Trial'
  <2>1. PICK doable, full \in BOOLEAN : Divide(doable, full)
    BY <1>3 DEF Begin, Prepare, Unsupported, AvoidNew
  <2> DEFINE p == IF doable /\ canPartialUpdate
                  THEN generateROI(list', damage')
                  ELSE [roi |-> Cells, drop |-> {}]
  <2>2. /\ mCurrentFrame' = ResetFrame(p.drop) /\ roi' = p.roi
        /\ todo' = Strategies(full)
    BY <1>3, <2>1 DEF Divide
  <2>3. \/ canPartialUpdate
        \/ p.drop = {} /\ roi' = Cells
    BY <2>2
  <2>4. Among(list', p.drop)
    BY ROIOfList DEF Among
  <2> DEFINE drop == p.drop
  <2> HIDE DEF p
  <2>5. mCurrentFrame' = Reset(list', drop) /\ mCurrentFrame'.drop = drop
    BY <2>2 DEF ResetFrame, Reset
  <2>6. (canPartialUpdate /\ setup'.partial) \/ Whole'
    <3>1. canPartialUpdate => setup'.partial
      BY <1>1 DEF canPartialUpdate
    <3> QED  BY <2>3, <2>5, <3>1 DEF Whole
  <2>7. canPartialUpdate => ~isSkipPresent(list') /\ ~geometry'
    BY DEF canPartialUpdate
  <2>8. \/ Strategies(full) = FullLC /\ (isSkipPresent(list') \/ geometry')
        \/ Strategies(full) = FullCL
        \/ Strategies(full) = Plan4
    BY StrategiesAre
  <2>9. Pending'
    BY <1>2, <2>2, <2>6, <2>7, <2>8, Zenon DEF Pending
  <2>10. Among(list', mCurrentFrame'.drop) /\ mCurrentFrame' = Reset(list', mCurrentFrame'.drop)
    BY <2>4, <2>5
  <2> QED  BY <1>2, <2>9, <2>10 DEF Trial
<1> QED  BY <1>1, <1>3 DEF FBInv

LEMMA RoundFB ==
  ASSUME FBInv, Exhausted \/ Fallback \/ Compose \/ Draw \/ DrawPaused
                  \/ Paused \/ timeout_handler
  PROVE  FBInv'
<1>1. CASE Exhausted
  BY <1>1 DEF FBInv, Exhausted, modes
<1>2. CASE Fallback
  <2>1. mFBUpdate'.on = TRUE /\ mModeOn' = FALSE /\ phase' = "compose"
    BY <1>2 DEF FBInv, Fallback, modes
  <2> QED  BY <2>1 DEF FBInv
<1>3. CASE Compose
  <2>1. /\ mFBUpdate' = mFBUpdate /\ mModeOn' = mModeOn /\ mCurrentFrame' = mCurrentFrame
        /\ phase = "compose" /\ phase' = "draw"
    BY <1>3 DEF Compose, modes
  <2> QED  BY <2>1 DEF FBInv
<1>4. CASE Draw \/ DrawPaused \/ Paused \/ timeout_handler
  <2>1. phase' \in {"idle", "paused"}
    BY <1>4 DEF Draw, DrawPaused, Paused, timeout_handler
  <2> QED  BY <2>1 DEF FBInv
<1> QED  BY <1>1, <1>2, <1>3, <1>4

LEMMA NextFB ==
  ASSUME SomeLayerDrawn, Typed, FBInv, [Next]_vars
  PROVE  FBInv'
<1>1. CASE Strategy
  <2>1. phase = "try"
    BY <1>1, StrategyTries
  <2>2. Trials
    BY <2>1 DEF FBInv, Trials
  <2>3. ASSUME NEW secureOnly \in BOOLEAN, mdpOnlyLayersComp(secureOnly)  PROVE FBInv'
    <3>1. CASE secureOnly = TRUE
      BY <2>2, <2>3, <3>1, MdpSecureFB, Zenon
    <3>2. CASE secureOnly = FALSE
      BY <2>2, <2>3, <3>2, MdpFB, Zenon
    <3> QED  BY <3>1, <3>2
  <2>4. ASSUME NEW secureOnly \in BOOLEAN, videoOnlyComp(secureOnly)  PROVE FBInv'
    <3>1. CASE secureOnly = TRUE
      BY <2>2, <2>4, <3>1, VideoSecureFB, Zenon
    <3>2. CASE secureOnly = FALSE
      BY <2>2, <2>4, <3>2, VideoFB, Zenon
    <3> QED  BY <3>1, <3>2
  <2> QED  BY <1>1, <2>2, <2>3, <2>4, FullFB, CacheFB, LoadFB, Zenon DEF Strategy
<1>2. CASE Begin
  BY <1>2, BeginFB
<1>3. CASE Exhausted \/ Fallback \/ Compose \/ Draw \/ DrawPaused \/ Paused \/ timeout_handler
  BY <1>3, RoundFB, Zenon
<1>4. CASE UNCHANGED vars
  <2>1. /\ phase' = phase /\ todo' = todo /\ refused' = refused /\ list' = list
        /\ setup' = setup /\ mCurrentFrame' = mCurrentFrame /\ mModeOn' = mModeOn
        /\ roi' = roi /\ mFBUpdate' = mFBUpdate
    BY <1>4 DEF vars, input, modes
  <2>2. ListOfDisplay' = ListOfDisplay /\ Whole' = Whole /\ Plain' = Plain
        /\ Left(FALSE)' = Left(FALSE) /\ Left(TRUE)' = Left(TRUE)
        /\ VideoLeft(FALSE)' = VideoLeft(FALSE) /\ VideoLeft(TRUE)' = VideoLeft(TRUE)
        /\ AllRefused' = AllRefused
    BY <2>1 DEF ListOfDisplay, Whole, Plain, Left, VideoLeft, AllRefused
  <2>3. FullTried' = FullTried /\ VideosTried' = VideosTried
    BY <2>1, <2>2 DEF FullTried, VideosTried
  <2>4. Pending' = Pending
    BY <2>1, <2>2, <2>3 DEF Pending
  <2> QED  BY <2>1, <2>2, <2>4 DEF FBInv, Trial
<1> QED  BY <1>1, <1>2, <1>3, <1>4 DEF Next, Strategy

\* When layers need the framebuffer it has a pipe, and it has none when they
\* do not: FBUpdate is configured by the strategy that succeeds, and one that
\* succeeds without a framebuffer never follows one that failed with it.
THEOREM FramebufferPipe ==
  ASSUME SomeLayerDrawn PROVE Spec => []FBIsOfFrame
<1>1. Init => Typed /\ FBInv
  BY InitTyped DEF Init, FBInv
<1>2. Typed /\ FBInv /\ [Next]_vars => (Typed /\ FBInv)'
  BY StepTyped, NextFB
<1>3. FBInv => FBIsOfFrame
  BY FBInvImplies
<1> QED  BY <1>1, <1>2, <1>3, PTL DEF Spec

----------------------------------------------------------------------------
(* The stages of the mixer.                                                *)

\* The counts of a division say how many pipes it takes.
Within(ls, f) ==
  Cardinality(Indices(ls) \ f.fb) + (IF f.fbZ >= 0 THEN 1 ELSE 0) <= MaxPipes

\* A division whose counts are right, with the framebuffer's stage counted
\* and no pipe for a dropped layer.
Honest(ls, f) ==
  /\ Counted(ls, f) /\ f.drop \subseteq f.fb
  /\ f.fbZ >= 0 => f.fbCount # 0

LEMMA ChecksStages ==
  ASSUME NEW ls \in Seq(Layer), NEW f \in Division(ls), Honest(ls, f), resourceCheck(f)
  PROVE  Within(ls, f)
<1>1. /\ Len(ls) \in Nat /\ IsFiniteSet(Indices(ls)) /\ Cardinality(Indices(ls)) = Len(ls)
      /\ Among(ls, f.fb) /\ Among(ls, f.drop) /\ f.fbCount \in Int /\ f.mdpCount \in Int
      /\ f.fbZ \in Int
  BY IndicesFinite, DivisionFields
<1>2. /\ IsFiniteSet(f.fb) /\ Cardinality(f.fb) \in Nat
      /\ Cardinality(f.drop) \in Nat
  BY <1>1, IndicesFinite
<1>3. Cardinality(f.fb \ f.drop) = Cardinality(f.fb) - Cardinality(f.drop)
  <2>1. f.fb \cap f.drop = f.drop
    BY DEF Honest
  <2>2. Cardinality(f.fb \ f.drop) = Cardinality(f.fb) - Cardinality(f.fb \cap f.drop)
    BY <1>2, FS_Difference
  <2> QED  BY <2>1, <2>2
<1>4. Cardinality(Indices(ls) \ f.fb) = Len(ls) - Cardinality(f.fb)
  <2>1. Indices(ls) \cap f.fb = f.fb
    BY <1>1 DEF Among
  <2>2. Cardinality(Indices(ls) \ f.fb)
          = Cardinality(Indices(ls)) - Cardinality(Indices(ls) \cap f.fb)
    BY <1>1, FS_Difference
  <2> QED  BY <1>1, <2>1, <2>2
<1>5. f.mdpCount = Len(ls) - Cardinality(f.fb)
  BY <1>1, <1>2, <1>3 DEF Honest, Counted
<1>6. f.mdpCount + (IF f.fbZ >= 0 THEN 1 ELSE 0) <= MaxPipes
  <2>1. f.mdpCount <= MaxPipes - (IF f.fbCount # 0 THEN 1 ELSE 0) /\ MaxPipes \in Nat
    BY FrameAssumption DEF resourceCheck
  <2>2. f.fbZ >= 0 => f.fbCount # 0
    BY DEF Honest
  <2> QED  BY <1>1, <2>1, <2>2
<1> QED  BY <1>4, <1>5, <1>6 DEF Within

\* What cacheBasedComp and mdpOnlyLayersComp try, when no secure layer is
\* dropped.
LEMMA MixedHonest ==
  ASSUME NEW ls \in Seq(Layer), NEW f \in Division(ls), Counted(ls, f), f.fbZ = -1,
         f.drop \subseteq f.fb, f.drop = {} \/ ~isSecureRGBPresent(ls), NEW secureOnly
  PROVE  LET m == Mixed(ls, f, secureOnly)
         IN  m \in Division(ls) /\ Honest(ls, m)
<1> DEFINE h == updateYUV(ls, f, secureOnly)
           g == updateSecureRGB(ls, h)
           m == Marked(ls, g)
<1>1. /\ h \in Division(ls) /\ h.drop = f.drop /\ h.fbZ = -1
      /\ \A k \in Indices(ls) : k \in f.fb /\ k \in f.drop => k \in h.fb
      /\ Counted(ls, h)
  BY YuvFields, Zenon
<1> HIDE DEF h
<1>2. /\ g \in Division(ls) /\ g.drop = f.drop /\ g.fbZ = -1
      /\ \A k \in Indices(ls) : k \in h.fb => k \in g.fb \/ LeavesRGB(ls, k)
      /\ Counted(ls, g)
  BY <1>1, RGBFields, Zenon
<1> HIDE DEF g
<1>3. /\ m \in Division(ls) /\ m.drop = f.drop
      /\ g.fbCount = 0 => m = g
      /\ g.fbCount # 0 /\ m.fbZ >= 0 => m.fbCount # 0
      /\ \A k : k \in g.fb /\ k \in g.drop => k \in m.fb
      /\ Counted(ls, m)
  BY <1>2, MarkedFields, Zenon
<1> HIDE DEF m
<1>4. \A k \in f.drop : k \in Indices(ls) /\ ~LeavesRGB(ls, k)
  <2>1. Among(ls, f.drop)
    BY DivisionFields
  <2>2. f.drop = {} \/ \A k \in Indices(ls) : ~LeavesRGB(ls, k)
    BY DEF isSecureRGBPresent, LeavesRGB
  <2> QED  BY <2>1, <2>2 DEF Among
<1>5. m.drop \subseteq m.fb
  BY <1>1, <1>2, <1>3, <1>4
<1>6. m.fbZ >= 0 => m.fbCount # 0
  BY <1>2, <1>3
<1>7. Mixed(ls, f, secureOnly) = m
  BY Zenon DEF Mixed, m, g, h
<1> QED  BY <1>3, <1>5, <1>6, <1>7, Zenon DEF Honest

----------------------------------------------------------------------------
(* The region of interest.                                                 *)

\* What can be seen behind layer i + 1.
Behind(ls, i, seen) ==
  IF ls[i + 1].opaque THEN deductRect(seen, seen \cap ls[i + 1].frame) ELSE seen

SeesFrom(ls, rect, g, m) ==
  \A i \in m .. Len(ls) :
     g[i] = IF i = Len(ls) THEN rect ELSE Behind(ls, i, g[i + 1])

\* The recursion of Visible is defined, from the top layer down.
LEMMA SomeView ==
  ASSUME NEW ls, NEW rect, Len(ls) \in Nat
  PROVE  \E g : SeesFrom(ls, rect, g, 0) /\ DOMAIN g = 0 .. Len(ls) /\ g = [i \in DOMAIN g |-> g[i]]
<1> DEFINE n == Len(ls)
           Views(k, g) == /\ SeesFrom(ls, rect, g, n - k)
                          /\ g = [i \in n - k .. n |-> g[i]]
           Bad == {k \in 0 .. n : ~\E g : Views(k, g)}
<1>1. n \in Nat
  OBVIOUS
<1> HIDE DEF n
<1>2. Bad = {}
  <2> SUFFICES ASSUME Bad # {}  PROVE FALSE
    OBVIOUS
  <2>5. Bad \subseteq Nat
    BY <1>1
  <2>1. PICK k \in Bad : \A j \in Bad : k <= j
    <3> HIDE DEF Bad
    <3> QED  BY <2>5, SmallestNat
  <2>2. k \in 0 .. n /\ ~\E g : Views(k, g)
    BY <2>1
  <2>3. CASE k = 0
    <3> DEFINE g == [i \in n .. n |-> rect]
    <3>1. g[n] = rect /\ n - k = n
      BY <1>1, <2>3
    <3>2. SeesFrom(ls, rect, g, n - k)
      BY <1>1, <3>1 DEF SeesFrom, n
    <3>3. g = [i \in n - k .. n |-> g[i]]
      BY <3>1
    <3> QED  BY <2>2, <3>2, <3>3
  <2>4. CASE k # 0
    <3>1. k - 1 \in 0 .. n /\ k - 1 \notin Bad
      BY <1>1, <2>1, <2>2, <2>4
    <3>2. PICK h : Views(k - 1, h)
      BY <3>1
    <3> DEFINE m == n - k
               first == Behind(ls, m, h[m + 1])
               g == [i \in m .. n |-> IF i = m THEN first ELSE h[i]]
    <3>3. m \in 0 .. n - 1 /\ n - (k - 1) = m + 1
      BY <1>1, <2>2, <2>4
    <3>4. \A i \in m + 1 .. n : h[i] = IF i = n THEN rect ELSE Behind(ls, i, h[i + 1])
      BY <3>2, <3>3 DEF SeesFrom, n
    <3> HIDE DEF first
    <3>5. g[m] = first /\ \A i \in m + 1 .. n : g[i] = h[i]
      BY <1>1, <3>3
    <3>6. g = [i \in m .. n |-> g[i]]
      OBVIOUS
    <3> HIDE DEF g, m
    <3>7. \A i \in m .. n : g[i] = IF i = n THEN rect ELSE Behind(ls, i, g[i + 1])
      <4> SUFFICES ASSUME NEW i \in m .. n
                   PROVE  g[i] = IF i = n THEN rect ELSE Behind(ls, i, g[i + 1])
        OBVIOUS
      <4>1. CASE i = m
        <5>1. i # n /\ i + 1 = m + 1 /\ m + 1 \in m + 1 .. n
          BY <1>1, <3>3, <4>1
        <5>2. g[i + 1] = h[m + 1]
          BY <3>5, <5>1
        <5> QED  BY <3>5, <4>1, <5>1, <5>2 DEF first
      <4>2. CASE i # m
        <5>1. i \in m + 1 .. n
          BY <1>1, <3>3, <4>2
        <5>2. i # n => i + 1 \in m + 1 .. n
          BY <1>1, <3>3, <5>1
        <5>3. g[i] = h[i] /\ (i # n => g[i + 1] = h[i + 1])
          BY <3>5, <5>1, <5>2
        <5> QED  BY <3>4, <5>1, <5>3
      <4> QED  BY <4>1, <4>2
    <3>8. Views(k, g)
      BY <3>6, <3>7 DEF SeesFrom, n, m
    <3> QED  BY <2>2, <3>8
  <2> QED  BY <2>3, <2>4
<1>3. PICK g : Views(n, g)
  BY <1>1, <1>2
<1>4. n - n = 0
  BY <1>1
<1> QED  BY <1>3, <1>4 DEF n

LEMMA VisibleEquation ==
  ASSUME NEW ls, NEW rect, Len(ls) \in Nat
  PROVE  SeesFrom(ls, rect, Visible(ls, rect), 0)
<1> DEFINE n == Len(ls)
           Step(v) == [i \in 0 .. n |->
                         IF i = n THEN rect
                         ELSE IF ls[i + 1].opaque
                              THEN deductRect(v[i + 1], v[i + 1] \cap ls[i + 1].frame)
                              ELSE v[i + 1]]
<1>1. PICK g : SeesFrom(ls, rect, g, 0) /\ DOMAIN g = 0 .. n /\ g = [i \in DOMAIN g |-> g[i]]
  BY SomeView
<1>2. g = Step(g)
  <2>1. \A i \in 0 .. n : g[i] = Step(g)[i]
    BY <1>1 DEF SeesFrom, Behind
  <2> DEFINE k == Step(g)
  <2>2. k = [i \in 0 .. n |-> k[i]] /\ g = [i \in 0 .. n |-> g[i]]
    BY <1>1
  <2>3. \A i \in 0 .. n : g[i] = k[i]
    BY <2>1
  <2> HIDE DEF k
  <2>4. g = k
    BY <2>2, <2>3
  <2> QED  BY <2>4 DEF k
<1>3. Visible(ls, rect) = CHOOSE v : v = Step(v)
  BY DEF Visible
<1> HIDE DEF Step
<1>4. Visible(ls, rect) = Step(Visible(ls, rect))
  BY <1>2, <1>3, Zenon
<1> DEFINE w == Visible(ls, rect)
<1> HIDE DEF w
<1>5. \A i \in 0 .. n : w[i] = Step(w)[i]
  BY <1>4 DEF w
<1>6. SeesFrom(ls, rect, w, 0)
  BY <1>5 DEF SeesFrom, Behind, Step
<1> QED  BY <1>6 DEF w

\* What no opaque layer covers is seen.
LEMMA SeenBehind ==
  ASSUME NEW ls, NEW rect, Len(ls) \in Nat, NEW i \in 0 .. Len(ls), NEW c \in rect,
         \A j \in i + 1 .. Len(ls) : ls[j].opaque => c \notin ls[j].frame
  PROVE  c \in Visible(ls, rect)[i]
<1> DEFINE n == Len(ls)
           w == Visible(ls, rect)
           Bad == {k \in 0 .. n - i : c \notin w[n - k]}
<1>1. n \in Nat /\ i \in 0 .. n
  OBVIOUS
<1>2. \A j \in 0 .. n : w[j] = IF j = n THEN rect ELSE Behind(ls, j, w[j + 1])
  BY VisibleEquation, Zenon DEF SeesFrom
<1>3. \A j \in i + 1 .. n : ls[j].opaque => c \notin ls[j].frame
  OBVIOUS
<1> HIDE DEF n, w
<1>4. Bad = {}
  <2> SUFFICES ASSUME Bad # {}  PROVE FALSE
    OBVIOUS
  <2>1. Bad \subseteq Nat
    BY <1>1
  <2>2. PICK k \in Bad : \A j \in Bad : k <= j
    <3> HIDE DEF Bad
    <3> QED  BY <2>1, SmallestNat
  <2>3. k \in 0 .. n - i /\ c \notin w[n - k]
    BY <2>2
  <2>4. k # 0
    <3>1. w[n] = rect /\ n - 0 = n
      BY <1>1, <1>2
    <3> QED  BY <2>3, <3>1
  <2> DEFINE j == n - k
  <2>5. /\ j \in 0 .. n /\ j # n /\ j + 1 \in i + 1 .. n
        /\ k - 1 \in 0 .. n - i /\ n - (k - 1) = j + 1
    BY <1>1, <2>3, <2>4
  <2>6. c \in w[j + 1]
    <3>1. k - 1 \notin Bad
      BY <2>1, <2>2, <2>5
    <3> QED  BY <2>5, <3>1
  <2>7. c \notin w[j]
    BY <2>3
  <2> HIDE DEF j
  <2>8. w[j] = Behind(ls, j, w[j + 1])
    BY <1>2, <2>5
  <2>9. c \in Behind(ls, j, w[j + 1])
    BY <1>3, <2>5, <2>6 DEF Behind, deductRect
  <2> QED  BY <2>7, <2>8, <2>9
<1>5. n - i \in 0 .. n - i /\ n - (n - i) = i
  BY <1>1
<1> QED  BY <1>4, <1>5 DEF w

\* Lists for a panel that takes partial updates, on which the counts of the
\* code are right: no opaque layer hides a layer below, and no secure layer
\* of an application is there.
PlainOnPartial ==
  \A s \in Setups : s.partial => \A l \in s.lists :
    /\ ~isSecureRGBPresent(l)
    /\ \A i, j \in Indices(l) :
         i < j /\ l[j].opaque => l[i].frame \cap l[j].frame = {}

\* An updating layer is in the region of interest: when nothing hides it, it
\* is not dropped.
LEMMA UpdatingNotDropped ==
  ASSUME NEW ls \in Seq(Layer), NEW dmg,
         \A i \in Indices(ls) : dmg[i] \subseteq ls[i].frame,
         \A i, j \in Indices(ls) :
           i < j /\ ls[j].opaque => ls[i].frame \cap ls[j].frame = {}
  PROVE  \A i \in generateROI(ls, dmg).drop : i \in Indices(ls) /\ dmg[i] = {}
<1> DEFINE cells == UNION {DirtyRect(ls[i], dmg[i]) : i \in Indices(ls)}
           rect == Hull(cells)
           p == generateROI(ls, dmg)
<1>1. Len(ls) \in Nat /\ Indices(ls) = 1 .. Len(ls)
  BY IndicesFinite
<1> SUFFICES ASSUME NEW i \in p.drop, i \in Indices(ls), NEW c \in dmg[i]  PROVE FALSE
  BY ROIOfList
<1>2. c \in ls[i].frame /\ c \in Cells /\ c \in Int
  <2>1. ls[i] \in Layer
    BY <1>1
  <2>2. c \in ls[i].frame /\ ls[i].frame \subseteq Cells
    BY <2>1 DEF Layer
  <2> QED  BY <2>2, FrameAssumption
<1>3. c \in rect
  <2>1. c \in DirtyRect(ls[i], dmg[i])
    BY <1>2 DEF DirtyRect
  <2>2. c \in cells
    BY <2>1
  <2> HIDE DEF cells
  <2> QED  BY <1>2, <2>2 DEF Hull
<1>4. c \in Visible(ls, rect)[i]
  <2> HIDE DEF rect
  <2>1. i \in 0 .. Len(ls)
    BY <1>1
  <2>2. \A j \in i + 1 .. Len(ls) : ls[j].opaque => c \notin ls[j].frame
    BY <1>1, <1>2
  <2> QED  BY <1>1, <1>3, <2>1, <2>2, SeenBehind
<1> DEFINE visible == Visible(ls, rect)
           hidden  == {k \in Indices(ls) : visible[k] \cap ls[k].frame = {}}
<1>5. p.drop = {} \/ p.drop = hidden
  <2>1. p = validateAndApplyROI(ls, rect)
    BY <1>3 DEF generateROI
  <2> HIDE DEF p, rect
  <2> QED  BY <2>1 DEF validateAndApplyROI
<1>6. i \in hidden
  BY <1>5
<1> HIDE DEF visible
<1> QED  BY <1>2, <1>4, <1>6 DEF visible

----------------------------------------------------------------------------
(* Every frame that is shown fits.                                         *)

StageInv ==
  /\ phase = "try" => /\ mCurrentFrame.drop = {} \/ setup.partial
                      /\ mCurrentFrame.drop \cap updating = {}
  /\ phase \in {"compose", "draw"} /\ mModeOn => Within(list, mCurrentFrame)

\* Setting redraw changes nothing of it.
LEMMA SuccessStages ==
  ASSUME NEW f \in Division(list), PostSucceeds(f), Honest(list, f), list \in Seq(Layer)
  PROVE  StageInv'
<1> DEFINE r == needsRedraw(f)
           g == [f EXCEPT !.redraw = r]
<1>1. g.fbZ = f.fbZ /\ g.fb = f.fb
  BY DEF Division
<1>2. mCurrentFrame' = g /\ phase' = "compose" /\ list' = list
  BY DEF PostSucceeds, input
<1>3. Within(list, f)
  BY ChecksStages DEF PostSucceeds
<1> HIDE DEF g
<1>4. Within(list', mCurrentFrame')
  BY <1>1, <1>2, <1>3 DEF Within
<1> QED  BY <1>2, <1>4 DEF StageInv

LEMMA SameStages ==
  ASSUME StageInv, phase = "try", phase' = "try", setup' = setup, list' = list,
         damage' = damage, mCurrentFrame' = mCurrentFrame \/ mCurrentFrame'.drop = {}
  PROVE  StageInv'
<1>1. updating' = updating
  BY DEF updating
<1> QED  BY <1>1 DEF StageInv

LEMMA FailStages ==
  ASSUME StageInv, phase = "try", NEW f, PostFails(f) \/ GiveUp \/ Skip
  PROVE  StageInv'
<1>1. ASSUME NEW fbUpdate, NextStrategy(fbUpdate)  PROVE StageInv'
  <2>1. mCurrentFrame'.drop = {}
    BY <1>1 DEF NextStrategy, Fresh, Reset
  <2>2. setup' = setup /\ list' = list /\ damage' = damage /\ phase' = "try"
    BY <1>1 DEF NextStrategy, input
  <2> QED  BY <2>1, <2>2, SameStages
<1>2. CASE Skip
  BY <1>2, SameStages DEF Skip, input
<1> QED  BY <1>1, <1>2, Zenon DEF PostFails, GiveUp

\* What a strategy may drop.
LEMMA DroppedFacts ==
  ASSUME PlainOnPartial, Trials, StageInv
  PROVE  /\ list \in Seq(Layer) /\ Among(list, mCurrentFrame.drop)
         /\ mCurrentFrame.drop = {} \/ ~isSecureRGBPresent(list)
         /\ mCurrentFrame.drop \cap updating = {}
<1>1. list \in Seq(Layer) /\ Among(list, mCurrentFrame.drop)
  BY TrialsFrame
<1>2. setup.partial => ~isSecureRGBPresent(list)
  BY Zenon DEF PlainOnPartial, Trials, Trial, ListOfDisplay
<1> QED  BY <1>1, <1>2 DEF StageInv, Trials

LEMMA FullStages ==
  ASSUME PlainOnPartial, Trials, StageInv, fullMDPComp
  PROVE  StageInv'
<1> DEFINE f == fullMDP(list, mCurrentFrame)
<1>1. /\ list \in Seq(Layer) /\ mCurrentFrame \in Division(list) /\ mCurrentFrame.fbZ = -1
  BY TrialsFrame
<1>2. /\ f \in Division(list) /\ f.fb = mCurrentFrame.drop /\ f.drop = mCurrentFrame.drop
      /\ f.fbZ = -1 /\ Counted(list, f)
  BY <1>1, FullFields
<1>3. PostSucceeds(f) \/ PostFails(f) \/ Skip
  BY Zenon DEF fullMDPComp
<1> HIDE DEF f
<1>4. Honest(list, f)
  BY <1>2 DEF Honest
<1> QED  BY <1>1, <1>2, <1>3, <1>4, SuccessStages, FailStages DEF Trials

LEMMA CacheStages ==
  ASSUME PlainOnPartial, Trials, StageInv, cacheBasedComp
  PROVE  StageInv'
<1> DEFINE drop == mCurrentFrame.drop
           r == Reset(list, drop)
           f == updateLayerCache(list, r, updating)
           m == Mixed(list, f, FALSE)
<1>1. /\ list \in Seq(Layer) /\ Among(list, drop)
      /\ drop = {} \/ ~isSecureRGBPresent(list)
      /\ drop \cap updating = {}
  BY DroppedFacts
<1>2. PostSucceeds(m) \/ PostFails(m) \/ GiveUp
  BY Zenon DEF cacheBasedComp, Mixed
<1>3. /\ r \in Division(list) /\ r.drop = drop /\ r.fbZ = -1
  BY <1>1, ResetFields
<1> HIDE DEF r
<1>4. /\ f \in Division(list) /\ f.fb = Indices(list) \ updating /\ f.drop = drop
      /\ f.fbZ = -1 /\ Counted(list, f)
  BY <1>1, <1>3, CacheFields
<1> HIDE DEF f
<1>5. f.drop \subseteq f.fb
  BY <1>1, <1>4 DEF Among
<1>6. m \in Division(list) /\ Honest(list, m)
  <2>1. f.drop = {} \/ ~isSecureRGBPresent(list)
    BY <1>1, <1>4
  <2> QED  BY <1>1, <1>4, <1>5, <2>1, MixedHonest, Zenon
<1> HIDE DEF m
<1> QED  BY <1>1, <1>2, <1>6, SuccessStages, FailStages DEF Trials

LEMMA LoadStages ==
  ASSUME PlainOnPartial, Trials, StageInv, NEW stages \in 1 .. MaxPipes,
         loadBasedComp(stages)
  PROVE  StageInv'
<1> DEFINE most == LoadBatch(stages)
<1>1. list \in Seq(Layer)
  BY DroppedFacts
<1>2. \/ most >= 1 /\ \E size \in 1 .. most : PostSucceeds(LoadFrame(size))
      \/ PostFails(LoadFrame(1)) \/ Skip
  BY Zenon DEF loadBasedComp
<1>3. most >= 1 => most \in Nat /\ most <= Len(list) - 2 /\ Len(list) \in Nat
  <2>1. stages \in Nat
    BY FrameAssumption
  <2> QED  BY <1>1, <2>1, LoadSize
<1> HIDE DEF most
<1>4. ASSUME most >= 1, NEW size \in 1 .. most, PostSucceeds(LoadFrame(size))
      PROVE  StageInv'
  <2> DEFINE f == LoadFrame(size)
  <2>1. size \in Nat /\ size <= Len(list) /\ size <= Len(list) - 2
    BY <1>3, <1>4
  <2>2. f \in Division(list) /\ f.fb = Indices(list) \ 1 .. size /\ f.drop = {}
        /\ Counted(list, f)
    BY <1>1, <2>1, LoadFields
  <2>3. PostSucceeds(f)
    BY <1>4
  <2> HIDE DEF f
  <2>4. f.fbCount # 0
    <3>1. /\ f.fb \ f.drop = f.fb /\ Among(list, f.fb)
      BY <2>2, DivisionFields
    <3>2. Cardinality(f.fb) = 0 <=> f.fb = {}
      BY <1>1, <3>1, IndicesFinite
    <3>3. f.fb # {}
      <4>1. Len(list) \in f.fb
        BY <1>1, <1>3, <1>4, <2>1, <2>2, IndicesFinite
      <4> QED  BY <4>1
    <3>4. f.fbCount = Cardinality(f.fb)
      BY <2>2, <3>1, Zenon DEF Counted
    <3> QED  BY <3>2, <3>3, <3>4
  <2>5. Honest(list, f)
    BY <2>2, <2>4 DEF Honest
  <2> QED  BY <1>1, <2>2, <2>3, <2>5, SuccessStages
<1> QED  BY <1>2, <1>4, FailStages DEF Trials

LEMMA MdpStages ==
  ASSUME PlainOnPartial, Trials, StageInv, NEW secureOnly, mdpOnlyLayersComp(secureOnly)
  PROVE  StageInv'
<1> DEFINE drop == mCurrentFrame.drop
           t == Begun(list, drop)
           m == Mixed(list, t, secureOnly)
<1>1. /\ list \in Seq(Layer) /\ Among(list, drop)
      /\ drop = {} \/ ~isSecureRGBPresent(list)
  BY DroppedFacts
<1>2. PostSucceeds(m) \/ PostFails(m) \/ GiveUp
  BY Zenon DEF mdpOnlyLayersComp, Mixed, Begun
<1>3. /\ t \in Division(list) /\ t.fb = Indices(list) /\ t.drop = drop
      /\ t.fbZ = -1 /\ Counted(list, t)
  BY <1>1, BegunFields
<1> HIDE DEF t
<1>4. t.drop \subseteq t.fb /\ (t.drop = {} \/ ~isSecureRGBPresent(list))
  BY <1>1, <1>3 DEF Among
<1>5. m \in Division(list) /\ Honest(list, m)
  BY <1>1, <1>3, <1>4, MixedHonest, Zenon
<1> HIDE DEF m
<1> QED  BY <1>1, <1>2, <1>5, SuccessStages, FailStages DEF Trials

LEMMA VideoStages ==
  ASSUME PlainOnPartial, Trials, StageInv, NEW secureOnly \in BOOLEAN,
         videoOnlyComp(secureOnly)
  PROVE  StageInv'
<1> DEFINE v == VideoFrame(list, {}, secureOnly)
<1>1. list \in Seq(Layer) /\ Pending
  BY TrialsFrame
<1>2. Whole
  <2>1. Trying("video") \/ Trying("videoSecure")
    BY Zenon DEF videoOnlyComp
  <2> QED  BY <1>1, <2>1, TryingRest
<1>3. PostSucceeds(v) \/ PostFails(v) \/ GiveUp
  BY <1>2, VideoFacts, Zenon
<1>4. /\ v \in Division(list) /\ v.drop = {} /\ Counted(list, v)
      /\ v.fbZ >= 0 => v.fbCount # 0
  BY <1>1, VideoOutcome, Zenon
<1> HIDE DEF v
<1>5. Honest(list, v)
  BY <1>4 DEF Honest
<1> QED  BY <1>1, <1>3, <1>4, <1>5, SuccessStages, FailStages DEF Trials

LEMMA BeginStages ==
  ASSUME PlainOnPartial, Typed, Begin
  PROVE  StageInv'
<1>1. /\ setup' = setup /\ setup \in Setups /\ list' \in setup.lists
      /\ phase' \in {"try", "fallback"} /\ damage' \in Damages(list')
  BY DEF Begin, ResetRound, Prepare, Unsupported, AvoidNew, Divide, NewList, Typed, TypeOK
<1>2. list' \in Seq(Layer)
  BY <1>1, MDPCompAssumption DEF Setup
<1>3. ASSUME phase' = "try"
      PROVE  /\ mCurrentFrame'.drop = {} \/ setup'.partial
             /\ mCurrentFrame'.drop \cap updating' = {}
  <2>1. PICK doable \in BOOLEAN, full \in BOOLEAN : Divide(doable, full)
    BY <1>3 DEF Begin, Prepare, Unsupported, AvoidNew
  <2> DEFINE q == generateROI(list', damage')
             p == IF doable /\ canPartialUpdate THEN q
                  ELSE [roi |-> Cells, drop |-> {}]
  <2>2. mCurrentFrame' = ResetFrame(p.drop)
    BY <2>1 DEF Divide
  <2>3. mCurrentFrame'.drop = p.drop
    BY <2>2 DEF ResetFrame, Reset
  <2>4. CASE ~canPartialUpdate
    BY <2>3, <2>4
  <2>5. CASE canPartialUpdate
    <3>1. setup.partial
      BY <2>5 DEF canPartialUpdate
    <3>2. \A i \in Indices(list') : damage'[i] \subseteq list'[i].frame
      BY <1>1 DEF Damages
    <3>3. \A i, j \in Indices(list') :
             i < j /\ list'[j].opaque => list'[i].frame \cap list'[j].frame = {}
      BY <1>1, <3>1, Zenon DEF PlainOnPartial
    <3>4. \A i \in q.drop : i \in Indices(list') /\ damage'[i] = {}
      BY <1>2, <3>2, <3>3, UpdatingNotDropped
    <3>5. p.drop = q.drop \/ p.drop = {}
      BY <2>5
    <3> HIDE DEF p, q
    <3>6. \A i \in p.drop : i \notin updating'
      BY <3>4, <3>5 DEF updating
    <3> QED  BY <1>1, <2>3, <3>1, <3>6
  <2> QED  BY <2>4, <2>5
<1> QED  BY <1>1, <1>3 DEF StageInv

LEMMA RoundStages ==
  ASSUME StageInv, FBInv, Exhausted \/ Fallback \/ Compose \/ Draw \/ DrawPaused
                            \/ Paused \/ timeout_handler
  PROVE  StageInv'
<1>1. CASE Exhausted
  BY <1>1 DEF StageInv, Exhausted
<1>2. CASE Fallback
  <2>1. mModeOn' = FALSE /\ phase' = "compose"
    BY <1>2 DEF FBInv, Fallback, modes
  <2> QED  BY <2>1 DEF StageInv
<1>3. CASE Compose
  <2>1. /\ list' = list /\ mModeOn' = mModeOn /\ mCurrentFrame' = mCurrentFrame
        /\ phase = "compose" /\ phase' = "draw"
    BY <1>3 DEF Compose, modes, input
  <2> QED  BY <2>1 DEF StageInv
<1>4. CASE Draw \/ DrawPaused \/ Paused \/ timeout_handler
  <2>1. phase' \in {"idle", "paused"}
    BY <1>4 DEF Draw, DrawPaused, Paused, timeout_handler
  <2> QED  BY <2>1 DEF StageInv
<1> QED  BY <1>1, <1>2, <1>3, <1>4

LEMMA NextStages ==
  ASSUME PlainOnPartial, Typed, FBInv, StageInv, [Next]_vars
  PROVE  StageInv'
<1>1. CASE Strategy
  <2>1. Trials
    BY <1>1, StrategyTries DEF FBInv, Trials
  <2> QED  BY <1>1, <2>1, FullStages, CacheStages, LoadStages, MdpStages, VideoStages, Zenon
           DEF Strategy
<1>2. CASE Begin
  BY <1>2, BeginStages
<1>3. CASE Exhausted \/ Fallback \/ Compose \/ Draw \/ DrawPaused \/ Paused \/ timeout_handler
  BY <1>3, RoundStages, Zenon
<1>4. CASE UNCHANGED vars
  BY <1>4 DEF vars, input, modes, StageInv, updating
<1> QED  BY <1>1, <1>2, <1>3, <1>4 DEF Next, Strategy

\* The pipes and the framebuffer fit the stages of the mixer: the counts that
\* resourceCheck looks at are those of the layers, through every move and
\* every batch, where nothing updating or secure is dropped.
THEOREM StagesFit ==
  ASSUME SomeLayerDrawn, PlainOnPartial PROVE Spec => []WithinStages
<1>1. Init => Typed /\ FBInv /\ StageInv
  BY InitTyped DEF Init, FBInv, StageInv
<1>2. Typed /\ FBInv /\ StageInv /\ [Next]_vars => (Typed /\ FBInv /\ StageInv)'
  BY StepTyped, NextFB, NextStages
<1>3. FBInv /\ StageInv => WithinStages
  BY DEF FBInv, StageInv, Within, WithinStages
<1> QED  BY <1>1, <1>2, <1>3, PTL DEF Spec

----------------------------------------------------------------------------
(* The stage of a batch: what overlaps it and is below in the list stays   *)
(* below it.                                                               *)

\* The layers below a, but those the framebuffer drops; the pipes from a on,
\* below b.
Low(f, a)      == {k \in 1 .. a - 1 : k \notin f.fb \cap f.drop}
Pipes(f, a, b) == {k \in a .. b - 1 : k \notin f.fb}
Gone(f, a)     == {k \in 1 .. a - 1 : k \in f.fb \cap f.drop}

LEMMA PipesFinite ==
  ASSUME NEW f, NEW a \in Int, NEW b \in Int
  PROVE  IsFiniteSet(Pipes(f, a, b)) /\ Cardinality(Pipes(f, a, b)) \in Nat
<1>1. IsFiniteSet(a .. b - 1)
  BY FS_Interval
<1>2. Pipes(f, a, b) \subseteq a .. b - 1
  BY DEF Pipes
<1>3. IsFiniteSet(Pipes(f, a, b))
  BY <1>1, <1>2, FS_Subset
<1> QED  BY <1>3, FS_CardinalityType

LEMMA LowFinite ==
  ASSUME NEW f, NEW a \in Int
  PROVE  /\ IsFiniteSet(Low(f, a)) /\ Cardinality(Low(f, a)) \in Nat
         /\ IsFiniteSet(Gone(f, a)) /\ Cardinality(Gone(f, a)) \in Nat
<1>1. IsFiniteSet(1 .. a - 1)
  BY FS_Interval
<1>2. Low(f, a) \subseteq 1 .. a - 1 /\ Gone(f, a) \subseteq 1 .. a - 1
  BY DEF Low, Gone
<1>3. IsFiniteSet(Low(f, a))
  BY <1>1, <1>2, FS_Subset
<1>4. IsFiniteSet(Gone(f, a))
  BY <1>1, <1>2, FS_Subset
<1> QED  BY <1>3, <1>4, FS_CardinalityType

LEMMA PipesNext ==
  ASSUME NEW f, NEW a \in Int, NEW b \in Int
  PROVE  /\ b <= a => Cardinality(Pipes(f, a, b)) = 0
         /\ a <= b /\ b \in f.fb => Pipes(f, a, b + 1) = Pipes(f, a, b)
         /\ a <= b /\ b \notin f.fb =>
              Cardinality(Pipes(f, a, b + 1)) = Cardinality(Pipes(f, a, b)) + 1
<1>1. ASSUME b <= a  PROVE Cardinality(Pipes(f, a, b)) = 0
  <2>1. Pipes(f, a, b) = {}
    BY <1>1 DEF Pipes
  <2> QED  BY <2>1, FS_EmptySet
<1>2. ASSUME a <= b, b \in f.fb  PROVE Pipes(f, a, b + 1) = Pipes(f, a, b)
  BY <1>2 DEF Pipes
<1>3. ASSUME a <= b, b \notin f.fb
      PROVE  Cardinality(Pipes(f, a, b + 1)) = Cardinality(Pipes(f, a, b)) + 1
  <2>1. Pipes(f, a, b + 1) = Pipes(f, a, b) \cup {b} /\ b \notin Pipes(f, a, b)
    BY <1>3 DEF Pipes
  <2> QED  BY <2>1, PipesFinite, FS_AddElement
<1> QED  BY <1>1, <1>2, <1>3

LEMMA PipesAdd ==
  ASSUME NEW f, NEW a \in Int, NEW q \in Int, NEW b \in Int, a <= q, q <= b
  PROVE  Cardinality(Pipes(f, a, b))
           = Cardinality(Pipes(f, a, q)) + Cardinality(Pipes(f, q, b))
<1>1. /\ Pipes(f, a, b) = Pipes(f, a, q) \cup Pipes(f, q, b)
      /\ Pipes(f, a, q) \cap Pipes(f, q, b) = {}
  BY DEF Pipes
<1>2. /\ IsFiniteSet(Pipes(f, a, q)) /\ IsFiniteSet(Pipes(f, q, b))
      /\ Cardinality(Pipes(f, a, q)) \in Nat /\ Cardinality(Pipes(f, q, b)) \in Nat
  BY PipesFinite
<1>3. Cardinality(Pipes(f, a, q) \cap Pipes(f, q, b)) = 0
  BY <1>1, FS_EmptySet
<1>4. Cardinality(Pipes(f, a, q) \cup Pipes(f, q, b))
        = Cardinality(Pipes(f, a, q)) + Cardinality(Pipes(f, q, b))
            - Cardinality(Pipes(f, a, q) \cap Pipes(f, q, b))
  BY <1>2, FS_Union
<1> QED  BY <1>1, <1>2, <1>3, <1>4

LEMMA LowIs ==
  ASSUME NEW f, NEW a \in Nat, a >= 1
  PROVE  Cardinality(Low(f, a)) = a - 1 - Cardinality(Gone(f, a))
<1>1. IsFiniteSet(1 .. a - 1) /\ Cardinality(1 .. a - 1) = a - 1
  BY FS_Interval
<1>2. Low(f, a) = 1 .. a - 1 \ Gone(f, a) /\ (1 .. a - 1) \cap Gone(f, a) = Gone(f, a)
  BY DEF Low, Gone
<1>3. Cardinality(1 .. a - 1 \ Gone(f, a))
        = Cardinality(1 .. a - 1) - Cardinality((1 .. a - 1) \cap Gone(f, a))
  BY <1>1, FS_Difference
<1> QED  BY <1>1, <1>2, <1>3

LEMMA GoneNext ==
  ASSUME NEW f, NEW a \in Nat, a >= 1
  PROVE  /\ a \notin f.fb \cap f.drop => Gone(f, a + 1) = Gone(f, a)
         /\ a \in f.fb \cap f.drop => Cardinality(Gone(f, a + 1)) = Cardinality(Gone(f, a)) + 1
<1>1. a \notin f.fb \cap f.drop => Gone(f, a + 1) = Gone(f, a)
  BY DEF Gone
<1>2. ASSUME a \in f.fb \cap f.drop
      PROVE  Cardinality(Gone(f, a + 1)) = Cardinality(Gone(f, a)) + 1
  <2>1. Gone(f, a + 1) = Gone(f, a) \cup {a} /\ a \notin Gone(f, a)
    BY <1>2 DEF Gone
  <2> QED  BY <2>1, LowFinite, FS_AddElement
<1> QED  BY <1>1, <1>2

Overlap(ls, i, j) == ls[i].frame \cap ls[j].frame # {}

\* With the batch at q, every pipe is on the right side of what it overlaps.
Sorted(ls, f, a, b, q) ==
  \A k, j \in a .. b :
    k \notin f.fb /\ j \in f.fb /\ j \notin f.drop /\ Overlap(ls, k, j) => (k < q <=> k < j)

BatchPlaced(ls, f, b) ==
  b.count > 0 =>
    /\ b.start >= 1
    /\ \E q \in b.start .. b.end :
         /\ b.z = Cardinality(Low(f, b.start)) + Cardinality(Pipes(f, b.start, q))
         /\ Sorted(ls, f, b.start, b.end, q)

\* The batch of a scan is at the layer that moved it last.
ScanAt(ls, f, s, q) ==
  /\ q \in s.start .. s.i /\ s.first <= q
  /\ q = s.start \/ (q <= s.end /\ q \in f.fb)
  /\ s.z = Cardinality(Low(f, s.start)) + Cardinality(Pipes(f, s.start, q))
  /\ s.above = Cardinality(Pipes(f, q, s.i))
  /\ Sorted(ls, f, s.start, s.i - 1, q)

ScanPlaced(ls, f, s) ==
  /\ s.dropped = Cardinality(Gone(f, s.i))
  /\ BatchPlaced(ls, f, s.best)
  /\ s.start < s.i => s.start \in f.fb
  /\ s.first > 0 => /\ s.start + 2 <= s.first /\ s.first \in f.fb \ f.drop
                    /\ Batched(f, s.start, s.first - 1) # {}
  /\ \E q : ScanAt(ls, f, s, q)

LEMMA BetterPlaced ==
  ASSUME NEW ls, NEW n \in Nat, NEW f, NEW s, ScanOK(n, f, s), ScanPlaced(ls, f, s)
  PROVE  BatchPlaced(ls, f, Better(s))
<1>1. s \in ScansOf(Batches)
  BY ScansAre DEF ScanOK
<1>2. /\ s.count \in Nat /\ s.start \in Nat /\ s.end \in Nat /\ s.z \in Int /\ s.i \in Nat
      /\ s.best \in Batches /\ s.best.count \in Nat
  BY <1>1 DEF ScansOf, Batches
<1>3. CASE s.count > s.best.count
  <2> DEFINE b == [count |-> s.count, start |-> s.start, end |-> s.end, z |-> s.z]
  <2>1. Better(s) = b /\ b.start = s.start /\ b.end = s.end /\ b.z = s.z
    BY <1>3 DEF Better
  <2> HIDE DEF b
  <2>2. s.start <= s.end /\ s.end < s.i /\ s.start >= 1
    BY <1>2, <1>3 DEF ScanOK
  <2>3. PICK q : ScanAt(ls, f, s, q)
    BY DEF ScanPlaced
  <2>4. q \in s.start .. s.end
    BY <1>2, <2>2, <2>3 DEF ScanAt
  <2>5. Sorted(ls, f, s.start, s.end, q)
    BY <1>2, <2>2, <2>3 DEF ScanAt, Sorted
  <2> QED  BY <2>1, <2>2, <2>3, <2>4, <2>5 DEF ScanAt, BatchPlaced
<1>4. CASE ~(s.count > s.best.count)
  <2>1. Better(s) = s.best
    BY <1>4 DEF Better
  <2> QED  BY <2>1 DEF ScanPlaced
<1> QED  BY <1>3, <1>4

\* A batch that begins has its stage from what is below.
LEMMA ClosePlaced ==
  ASSUME NEW ls, NEW n \in Nat, NEW f, NEW s, ScanOK(n, f, s), ScanPlaced(ls, f, s),
         NEW j \in Nat, j >= 1, s.dropped = Cardinality(Gone(f, j))
  PROVE  ScanPlaced(ls, f, Close(s, j))
<1> DEFINE t == Close(s, j)
<1>1. s \in ScansOf(Batches)
  BY ScansAre DEF ScanOK
<1>2. /\ t.i = j /\ t.start = j /\ t.end = j
      /\ t.count = 0 /\ t.z = j - 1 - s.dropped /\ t.first = 0 /\ t.above = 0
      /\ t.dropped = s.dropped /\ t.best = Better(s)
  BY <1>1, CloseFields
<1> HIDE DEF t
<1>3. BatchPlaced(ls, f, t.best)
  BY <1>2, BetterPlaced
<1>4. Cardinality(Pipes(f, j, j)) = 0
  BY PipesNext
<1>8. Cardinality(Low(f, j)) = j - 1 - Cardinality(Gone(f, j))
  BY LowIs
<1>9. Cardinality(Low(f, j)) \in Nat
  BY LowFinite
<1>5. Sorted(ls, f, j, j - 1, j)
  BY DEF Sorted
<1>6. ScanAt(ls, f, t, j)
  BY <1>2, <1>4, <1>5, <1>8, <1>9 DEF ScanAt
<1>7. ScanPlaced(ls, f, t)
  BY <1>2, <1>3, <1>6 DEF ScanPlaced
<1> QED  BY <1>7 DEF t

\* The layers a scan leaves behind keep what is placed.
LEMMA PassedPlaced ==
  ASSUME NEW ls, NEW n \in Nat, NEW f, NEW s, ScanOK(n, f, s), ScanPlaced(ls, f, s),
         s.i \notin f.fb, s.count > 0
  PROVE  ScanPlaced(ls, f, Passed(s))
<1> DEFINE t == Passed(s)
<1>1. s \in ScansOf(Batches)
  BY ScansAre DEF ScanOK
<1>2. s.i \in Nat /\ s.start \in Nat /\ s.i >= 1 /\ s.start <= s.i
  BY <1>1 DEF ScansOf, ScanOK
<1>3. /\ t.i = s.i + 1 /\ t.above = s.above + 1
      /\ t.start = s.start /\ t.end = s.end /\ t.count = s.count /\ t.z = s.z
      /\ t.first = s.first /\ t.dropped = s.dropped /\ t.best = s.best
  BY <1>1, PassedFields
<1> HIDE DEF t
<1>4. Gone(f, s.i + 1) = Gone(f, s.i)
  BY <1>2, GoneNext
<1>5. s.start < s.i
  <2>1. s.count = Cardinality(Batched(f, s.start, s.i - 1))
    BY DEF ScanOK
  <2>2. s.i - 1 < s.start => Cardinality(Batched(f, s.start, s.i - 1)) = 0
    BY <1>2, BatchedNext
  <2> QED  BY <1>2, <2>1, <2>2
<1>6. PICK q : ScanAt(ls, f, s, q)
  BY DEF ScanPlaced
<1>7. q \in Nat /\ s.start <= q /\ q <= s.i
  BY <1>2, <1>6 DEF ScanAt
<1>8. Cardinality(Pipes(f, q, s.i + 1)) = Cardinality(Pipes(f, q, s.i)) + 1
  BY <1>2, <1>7, PipesNext
<1>9. Sorted(ls, f, s.start, s.i, q)
  BY <1>2, <1>6, <1>7 DEF ScanAt, Sorted
<1>10. ScanAt(ls, f, t, q)
  BY <1>2, <1>3, <1>6, <1>7, <1>8, <1>9 DEF ScanAt
<1>11. ScanPlaced(ls, f, t)
  BY <1>2, <1>3, <1>4, <1>5, <1>10 DEF ScanPlaced
<1> QED  BY <1>11 DEF t

LEMMA DroppedPlaced ==
  ASSUME NEW ls, NEW n \in Nat, NEW f, NEW s, ScanOK(n, f, s), ScanPlaced(ls, f, s),
         s.i \in f.fb \cap f.drop
  PROVE  ScanPlaced(ls, f, Dropped(s))
<1> DEFINE t == Dropped(s)
<1>1. s \in ScansOf(Batches)
  BY ScansAre DEF ScanOK
<1>2. s.i \in Nat /\ s.start \in Nat /\ s.i >= 1 /\ s.start <= s.i
  BY <1>1 DEF ScansOf, ScanOK
<1>3. /\ t.i = s.i + 1 /\ t.dropped = s.dropped + 1
      /\ t.start = s.start /\ t.end = s.end /\ t.count = s.count /\ t.z = s.z
      /\ t.first = s.first /\ t.above = s.above /\ t.best = s.best
  BY <1>1, PassedFields
<1> HIDE DEF t
<1>4. Cardinality(Gone(f, s.i + 1)) = Cardinality(Gone(f, s.i)) + 1
  BY <1>2, GoneNext
<1>5. s.start \in f.fb
  BY <1>2 DEF ScanPlaced
<1>6. PICK q : ScanAt(ls, f, s, q)
  BY DEF ScanPlaced
<1>7. q \in Nat /\ s.start <= q /\ q <= s.i
  BY <1>2, <1>6 DEF ScanAt
<1>8. Pipes(f, q, s.i + 1) = Pipes(f, q, s.i)
  BY <1>2, <1>7, PipesNext
<1>9. Sorted(ls, f, s.start, s.i, q)
  BY <1>2, <1>6, <1>7 DEF ScanAt, Sorted
<1>10. ScanAt(ls, f, t, q)
  BY <1>2, <1>3, <1>6, <1>7, <1>8, <1>9 DEF ScanAt
<1>11. ScanPlaced(ls, f, t)
  BY <1>2, <1>3, <1>4, <1>5, <1>10 DEF ScanPlaced
<1> QED  BY <1>11 DEF t

\* A layer that joins the batch overlaps no pipe above the batch.
LEMMA TakePlaced ==
  ASSUME NEW ls, NEW n \in Nat, NEW f, NEW s, ScanOK(n, f, s), ScanPlaced(ls, f, s),
         s.i \in f.fb \ f.drop, Joins(ls, f, s)
  PROVE  ScanPlaced(ls, f, Take(s))
<1> DEFINE t == Take(s)
<1>1. s \in ScansOf(Batches)
  BY ScansAre DEF ScanOK
<1>2. s.i \in Nat /\ s.start \in Nat /\ s.i >= 1 /\ s.start <= s.i
  BY <1>1 DEF ScansOf, ScanOK
<1>3. /\ t.i = s.i + 1 /\ t.end = s.i
      /\ t.start = s.start /\ t.z = s.z /\ t.above = s.above
      /\ t.first = s.first /\ t.dropped = s.dropped /\ t.best = s.best
  BY <1>1, TakeFields
<1> HIDE DEF t
<1>4. Gone(f, s.i + 1) = Gone(f, s.i)
  BY <1>2, GoneNext
<1>5. s.start \in f.fb
  BY <1>2 DEF ScanPlaced
<1>6. PICK q : ScanAt(ls, f, s, q)
  BY DEF ScanPlaced
<1>7. q \in Nat /\ s.start <= q /\ q <= s.i
  BY <1>2, <1>6 DEF ScanAt
<1>8. Pipes(f, q, s.i + 1) = Pipes(f, q, s.i)
  BY <1>2, <1>7, PipesNext
<1>9. ASSUME NEW k \in s.start .. s.i, k \notin f.fb, Overlap(ls, k, s.i)
      PROVE  k < q
  <2>1. k \in s.start .. s.i - 1
    BY <1>2, <1>9
  <2>2. CASE s.above = 0
    <3>1. IsFiniteSet(Pipes(f, q, s.i)) /\ Cardinality(Pipes(f, q, s.i)) = 0
      BY <1>2, <1>6, <1>7, <2>2, PipesFinite DEF ScanAt
    <3>2. Pipes(f, q, s.i) = {}
      BY <3>1, FS_EmptySet
    <3> QED  BY <1>2, <1>7, <1>9, <2>1, <3>2 DEF Pipes
  <2>3. CASE ~intersectingUpdatingLayers(ls, f, s.start, s.i - 1, s.i)
    BY <1>9, <2>1, <2>3, Zenon DEF intersectingUpdatingLayers, Overlap
  <2> QED  BY <2>2, <2>3 DEF Joins
<1>10. Sorted(ls, f, s.start, s.i, q)
  <2> SUFFICES ASSUME NEW k \in s.start .. s.i, NEW j \in s.start .. s.i,
                      k \notin f.fb, j \in f.fb, j \notin f.drop, Overlap(ls, k, j)
               PROVE  k < q <=> k < j
    BY DEF Sorted
  <2>1. CASE j = s.i
    BY <1>2, <1>9, <2>1
  <2>2. CASE j # s.i
    BY <1>2, <1>6, <2>2 DEF ScanAt, Sorted
  <2> QED  BY <2>1, <2>2
<1>11. ScanAt(ls, f, t, q)
  BY <1>2, <1>3, <1>6, <1>7, <1>8, <1>10 DEF ScanAt
<1>12. ScanPlaced(ls, f, t)
  BY <1>2, <1>3, <1>4, <1>5, <1>11 DEF ScanPlaced
<1> QED  BY <1>12 DEF t

\* A batch that moves up to a layer has every pipe met so far below it.
LEMMA PushPlaced ==
  ASSUME NEW ls, NEW n \in Nat, NEW f, NEW s, ScanOK(n, f, s), ScanPlaced(ls, f, s),
         s.i \in f.fb \ f.drop, Pushes(ls, f, s)
  PROVE  ScanPlaced(ls, f, Push(s))
<1> DEFINE t == Push(s)
<1>1. s \in ScansOf(Batches)
  BY ScansAre DEF ScanOK
<1>2. /\ s.i \in Nat /\ s.start \in Nat /\ s.first \in Nat /\ s.above \in Nat /\ s.z \in Int
      /\ s.i >= 1 /\ s.start <= s.i /\ s.above # 0
  BY <1>1 DEF ScansOf, ScanOK, Pushes, Joins
<1>3. /\ t.i = s.i + 1 /\ t.end = s.i
      /\ t.start = s.start /\ t.z = s.z + s.above /\ t.above = 0
      /\ t.first = IF s.first = 0 THEN s.i ELSE s.first
      /\ t.dropped = s.dropped /\ t.best = s.best
  BY <1>1, PushFields
<1> HIDE DEF t
<1>4. Gone(f, s.i + 1) = Gone(f, s.i)
  BY <1>2, GoneNext
<1>5. PICK q : ScanAt(ls, f, s, q)
  BY DEF ScanPlaced
<1>6. q \in Nat /\ s.start <= q /\ q <= s.i /\ s.first <= q
  BY <1>2, <1>5 DEF ScanAt
<1>7. PICK p \in q .. s.i - 1 : p \notin f.fb
  <2>1. Pipes(f, q, s.i) # {}
    <3>1. Cardinality(Pipes(f, q, s.i)) # 0
      BY <1>2, <1>5 DEF ScanAt
    <3> QED  BY <3>1, FS_EmptySet
  <2> QED  BY <2>1 DEF Pipes
<1>8. s.start \in f.fb /\ s.start + 2 <= s.i
  <2>1. s.start < s.i
    BY <1>2, <1>6, <1>7
  <2>2. s.start \in f.fb
    BY <2>1 DEF ScanPlaced
  <2>3. p # s.start
    BY <1>7, <2>2
  <2> QED  BY <1>2, <1>6, <1>7, <2>2, <2>3
<1>9. t.first > 0 /\ s.start + 2 <= t.first /\ t.first \in f.fb \ f.drop /\ t.first <= s.i
  BY <1>2, <1>3, <1>6, <1>8 DEF ScanPlaced
<1>10. Batched(f, s.start, t.first - 1) # {}
  <2>1. CASE s.first = 0
    <3>1. Cardinality(Batched(f, s.start, s.i - 1)) # 0
      BY <1>2 DEF ScanOK
    <3> QED  BY <1>3, <2>1, <3>1, FS_EmptySet
  <2>2. CASE s.first # 0
    BY <1>2, <1>3, <2>2 DEF ScanPlaced
  <2> QED  BY <2>1, <2>2
<1>11. Cardinality(Pipes(f, s.i, s.i + 1)) = 0
  <2>1. Pipes(f, s.i, s.i + 1) = Pipes(f, s.i, s.i)
    BY <1>2, PipesNext
  <2>2. Cardinality(Pipes(f, s.i, s.i)) = 0
    BY <1>2, PipesNext
  <2> QED  BY <2>1, <2>2
<1>12. s.z + s.above = Cardinality(Low(f, s.start)) + Cardinality(Pipes(f, s.start, s.i))
  <2>1. Cardinality(Pipes(f, s.start, s.i))
          = Cardinality(Pipes(f, s.start, q)) + Cardinality(Pipes(f, q, s.i))
    BY <1>2, <1>6, PipesAdd
  <2>2. Cardinality(Low(f, s.start)) \in Nat
    BY <1>2, LowFinite
  <2>3. Cardinality(Pipes(f, s.start, q)) \in Nat /\ Cardinality(Pipes(f, q, s.i)) \in Nat
    BY <1>2, <1>6, PipesFinite
  <2> QED  BY <1>5, <2>1, <2>2, <2>3 DEF ScanAt
<1>13. Sorted(ls, f, s.start, s.i, s.i)
  <2> SUFFICES ASSUME NEW k \in s.start .. s.i, NEW j \in s.start .. s.i,
                      k \notin f.fb, j \in f.fb, j \notin f.drop, Overlap(ls, k, j)
               PROVE  k < s.i <=> k < j
    BY DEF Sorted
  <2>1. k # s.i
    OBVIOUS
  <2>2. CASE j = s.i
    BY <1>2, <2>1, <2>2
  <2>3. CASE j # s.i
    <3>1. j \in s.start .. s.i - 1
      BY <1>2, <2>3
    <3>2. ~intersectingUpdatingLayers(ls, f, j + 1, s.i, j)
      BY <3>1, Zenon DEF Pushes, canPushBatchToTop
    <3>3. k \notin j + 1 .. s.i
      BY <3>2, Zenon DEF intersectingUpdatingLayers, Overlap
    <3>4. k # j
      OBVIOUS
    <3> QED  BY <1>2, <2>1, <3>1, <3>3, <3>4
  <2> QED  BY <2>2, <2>3
<1>14. s.i \in t.start .. t.i /\ t.first <= s.i /\ s.i <= t.end /\ s.i \in f.fb
  BY <1>2, <1>3, <1>9
<1>15. ScanAt(ls, f, t, s.i)
  BY <1>2, <1>3, <1>11, <1>12, <1>13, <1>14 DEF ScanAt
<1>16. ScanPlaced(ls, f, t)
  BY <1>2, <1>3, <1>4, <1>8, <1>9, <1>15, <1>10 DEF ScanPlaced
<1> QED  BY <1>16 DEF t

\* A scan that returns counts the layers dropped since its first move twice.
LEMMA ReturnPlaced ==
  ASSUME NEW ls, NEW n \in Nat, NEW f, NEW s, ScanOK(n, f, s), ScanPlaced(ls, f, s),
         NEW j \in Nat, j >= 1, j <= s.i,
         \A d \in f.fb \cap f.drop : d \notin j .. s.i - 1
  PROVE  ScanPlaced(ls, f, Close(s, j))
<1>1. s \in ScansOf(Batches)
  BY ScansAre DEF ScanOK
<1>2. s.i \in Nat
  BY <1>1 DEF ScansOf
<1>3. Gone(f, j) = Gone(f, s.i)
  BY <1>2 DEF Gone
<1>4. s.dropped = Cardinality(Gone(f, j))
  BY <1>3 DEF ScanPlaced
<1> QED  BY <1>4, ClosePlaced

\* The best batch is placed, and those still to come are not larger.
Spent(ls, n, f, s) ==
  BatchPlaced(ls, f, s.best) /\ Cardinality(Batched(f, s.start, n)) <= s.best.count

LEMMA SpentBetter ==
  ASSUME NEW ls, NEW n \in Nat, NEW f, NEW s, ScanOK(n, f, s), Spent(ls, n, f, s)
  PROVE  Better(s) = s.best
<1>1. s \in ScansOf(Batches)
  BY ScansAre DEF ScanOK
<1>2. s.start \in Nat /\ s.i \in Nat /\ s.count \in Nat /\ s.best.count \in Nat
  BY <1>1 DEF ScansOf, Batches
<1>3. Batched(f, s.start, s.i - 1) \subseteq Batched(f, s.start, n)
  BY <1>2 DEF ScanOK, Batched
<1>4. Cardinality(Batched(f, s.start, s.i - 1)) <= Cardinality(Batched(f, s.start, n))
  BY <1>2, <1>3, BatchedFinite, FS_Subset
<1>5. ~(s.count > s.best.count)
  <2>1. Cardinality(Batched(f, s.start, n)) \in Nat
    BY <1>2, BatchedFinite
  <2> QED  BY <1>2, <1>4, <2>1 DEF ScanOK, Spent
<1> QED  BY <1>5 DEF Better

LEMMA SpentStep ==
  ASSUME NEW ls, NEW n \in Nat, NEW f, f.fb \subseteq 1 .. n,
         NEW s, ScanOK(n, f, s), Spent(ls, n, f, s), s.i <= n
  PROVE  Spent(ls, n, f, ScanLayer(ls, f, s))
<1> DEFINE t == ScanLayer(ls, f, s)
           j == IF s.first > 0 THEN s.first ELSE s.i
<1>1. s \in ScansOf(Batches)
  BY ScansAre DEF ScanOK
<1>2. s.start \in Nat /\ s.i \in Nat /\ s.first \in Nat /\ s.best.count \in Nat
  BY <1>1 DEF ScansOf, Batches
<1>3. t.start >= s.start /\ t.start \in Nat
  <2>1. ScanOK(n, f, t) /\ (t.start > s.start \/ t.start = s.start)
    BY StepOK
  <2>2. t \in ScansOf(Batches)
    BY <2>1, ScansAre DEF ScanOK
  <2>3. t.start \in Nat
    BY <2>2 DEF ScansOf
  <2> HIDE DEF t
  <2> QED  BY <1>2, <2>1, <2>3
<1>4. t.best = s.best
  <2>1. Better(s) = s.best
    BY SpentBetter
  <2>2. s.i + 1 \in Nat /\ j \in Nat
    BY <1>2
  <2> HIDE DEF j
  <2>3. /\ Close(s, s.i + 1).best = s.best /\ Close(s, j).best = s.best
    BY <1>1, <2>1, <2>2, CloseFields
  <2>4. /\ Passed(s).best = s.best /\ Dropped(s).best = s.best
        /\ Take(s).best = s.best /\ Push(s).best = s.best
    BY <1>1, PassedFields, TakeFields, PushFields
  <2> QED  BY <1>1, <2>3, <2>4, ScanSteps DEF j
<1> HIDE DEF t
<1>5. Batched(f, t.start, n) \subseteq Batched(f, s.start, n)
  BY <1>2, <1>3 DEF Batched
<1>6. Cardinality(Batched(f, t.start, n)) <= Cardinality(Batched(f, s.start, n))
  BY <1>2, <1>5, BatchedFinite, FS_Subset
<1>7. Spent(ls, n, f, t)
  <2>1. /\ Cardinality(Batched(f, s.start, n)) \in Nat
        /\ Cardinality(Batched(f, t.start, n)) \in Nat
    BY <1>2, <1>3, BatchedFinite
  <2> QED  BY <1>2, <1>4, <1>6, <2>1 DEF Spent
<1> QED  BY <1>7 DEF t

LEMMA TwoElements ==
  ASSUME NEW a, NEW b, a # b
  PROVE  IsFiniteSet({a, b}) /\ Cardinality({a, b}) = 2
<1>1. IsFiniteSet({a}) /\ Cardinality({a}) = 1
  BY FS_Singleton
<1>2. {a, b} = {a} \cup {b} /\ b \notin {a}
  OBVIOUS
<1>3. IsFiniteSet({a} \cup {b}) /\ Cardinality({a} \cup {b}) = Cardinality({a}) + 1
  BY <1>1, <1>2, FS_AddElement
<1> QED  BY <1>1, <1>2, <1>3

\* Among six layers, one dropped between the first move and the return leaves
\* only two for another batch, and the first has two already.
LEMMA ReturnSpent ==
  ASSUME NEW ls, NEW n \in Nat, n <= 6, NEW f, NEW s, ScanOK(n, f, s),
         ScanPlaced(ls, f, s), s.i <= n, s.above # 0, s.first > 0,
         NEW d \in f.fb \cap f.drop, d \in s.first .. s.i - 1
  PROVE  Spent(ls, n, f, Close(s, s.first))
<1>1. s \in ScansOf(Batches)
  BY ScansAre DEF ScanOK
<1>2. /\ s.i \in Nat /\ s.start \in Nat /\ s.first \in Nat /\ s.above \in Nat
      /\ s.count \in Nat /\ s.best.count \in Nat /\ s.i >= 1 /\ s.start >= 1
  BY <1>1 DEF ScansOf, ScanOK, Batches
<1>3. PICK q : ScanAt(ls, f, s, q)
  BY DEF ScanPlaced
<1>4. /\ q \in Nat /\ s.first <= q /\ q <= s.i /\ s.start + 2 <= s.first
      /\ s.first \in f.fb \ f.drop /\ q \in f.fb
  BY <1>2, <1>3 DEF ScanAt, ScanPlaced
<1>5. PICK p \in q .. s.i - 1 : p \notin f.fb
  <2>1. Pipes(f, q, s.i) # {}
    <3>1. Cardinality(Pipes(f, q, s.i)) # 0
      BY <1>2, <1>3 DEF ScanAt
    <3> QED  BY <3>1, FS_EmptySet
  <2> QED  BY <2>1 DEF Pipes
<1>6. d # s.first /\ d # p /\ p # s.first
  BY <1>4, <1>5
<1>7. s.first = 3 /\ s.i = 6 /\ n = 6
  BY <1>2, <1>4, <1>5, <1>6
<1>8. (d = 4 /\ p = 5) \/ (d = 5 /\ p = 4)
  BY <1>2, <1>4, <1>5, <1>6, <1>7
<1>9. Batched(f, 3, 6) \subseteq {3, 6}
  BY <1>5, <1>8 DEF Batched
<1>10. Cardinality(Batched(f, 3, 6)) <= 2
  <2>1. IsFiniteSet({3, 6}) /\ Cardinality({3, 6}) = 2
    <3>1. 3 # 6
      OBVIOUS
    <3> QED  BY <3>1, TwoElements, Zenon
  <2>2. Cardinality(Batched(f, 3, 6)) <= Cardinality({3, 6})
    BY <1>9, <2>1, FS_Subset
  <2>3. Cardinality(Batched(f, 3, 6)) \in Nat /\ Cardinality({3, 6}) \in Nat
    BY <2>1, BatchedFinite, FS_CardinalityType
  <2> QED  BY <2>1, <2>2, <2>3
<1>11. s.count >= 2
  <2>1. PICK k : k \in Batched(f, s.start, s.first - 1)
    BY <1>7 DEF ScanPlaced
  <2>2. k # 3 /\ {k, 3} \subseteq Batched(f, s.start, s.i - 1)
    BY <1>2, <1>4, <1>7, <2>1 DEF Batched
  <2>3. Cardinality({k, 3}) = 2
    BY <2>2, TwoElements
  <2>4. /\ IsFiniteSet(Batched(f, s.start, s.i - 1))
        /\ Cardinality({k, 3}) <= Cardinality(Batched(f, s.start, s.i - 1))
    BY <1>2, <2>2, BatchedFinite, FS_Subset
  <2> QED  BY <1>2, <2>3, <2>4 DEF ScanOK
<1> DEFINE t == Close(s, s.first)
<1>12. t.start = s.first /\ t.best = Better(s)
  BY <1>1, <1>2, CloseFields
<1> HIDE DEF t
<1>13. Better(s).count >= 2
  <2>1. CASE s.count > s.best.count
    <3>1. Better(s).count = s.count
      BY <2>1 DEF Better
    <3> QED  BY <1>11, <3>1
  <2>2. CASE ~(s.count > s.best.count)
    <3>1. Better(s) = s.best
      BY <2>2 DEF Better
    <3> QED  BY <1>2, <1>11, <2>2, <3>1
  <2> QED  BY <2>1, <2>2
<1>14. Better(s).count \in Nat
  BY BetterOK DEF BatchOK, Batches
<1>15. Cardinality(Batched(f, 3, 6)) \in Nat
  BY BatchedFinite
<1>16. Spent(ls, n, f, t)
  BY <1>7, <1>10, <1>12, <1>13, <1>14, <1>15, BetterPlaced DEF Spent
<1> QED  BY <1>16 DEF t

\* With more than six layers nothing is dropped.
FewDropped(n, f) == f.drop = {} \/ n <= 6

ScanFine(ls, n, f, s) == ScanPlaced(ls, f, s) \/ Spent(ls, n, f, s)

LEMMA StepPlaced ==
  ASSUME NEW ls, NEW n \in Nat, NEW f, NEW s, ScanOK(n, f, s), ScanPlaced(ls, f, s),
         s.i <= n, FewDropped(n, f)
  PROVE  ScanFine(ls, n, f, ScanLayer(ls, f, s))
<1> DEFINE j == IF s.first > 0 THEN s.first ELSE s.i
<1>1. s \in ScansOf(Batches)
  BY ScansAre DEF ScanOK
<1>2. s.i \in Nat /\ s.i + 1 \in Nat /\ s.i + 1 >= 1 /\ s.i >= 1
  BY <1>1 DEF ScansOf, ScanOK
<1>3. CASE s.i \notin f.fb /\ s.count = 0 /\ ScanLayer(ls, f, s) = Close(s, s.i + 1)
  <2>2. Gone(f, s.i + 1) = Gone(f, s.i)
    BY <1>2, <1>3, GoneNext
  <2>3. s.dropped = Cardinality(Gone(f, s.i + 1))
    BY <2>2 DEF ScanPlaced
  <2>4. ScanPlaced(ls, f, Close(s, s.i + 1))
    BY <1>2, <2>3, ClosePlaced
  <2> QED  BY <1>3, <2>4 DEF ScanFine
<1>4. CASE s.i \notin f.fb /\ s.count > 0 /\ ScanLayer(ls, f, s) = Passed(s)
  BY <1>4, PassedPlaced DEF ScanFine
<1>5. CASE s.i \in f.fb \cap f.drop /\ ScanLayer(ls, f, s) = Dropped(s)
  BY <1>5, DroppedPlaced DEF ScanFine
<1>6. CASE s.i \in f.fb \ f.drop /\ Joins(ls, f, s) /\ ScanLayer(ls, f, s) = Take(s)
  BY <1>6, TakePlaced DEF ScanFine
<1>7. CASE s.i \in f.fb \ f.drop /\ Pushes(ls, f, s) /\ ScanLayer(ls, f, s) = Push(s)
  BY <1>7, PushPlaced DEF ScanFine
<1>8. CASE s.i \in f.fb \ f.drop /\ Returns(ls, f, s) /\ ScanLayer(ls, f, s) = Close(s, j)
  <2>1. /\ s.first \in Nat /\ s.above # 0 /\ j \in Nat /\ j >= 1 /\ j <= s.i
        /\ s.first = 0 => j = s.i
        /\ s.first > 0 => j = s.first
    BY <1>1, <1>2, <1>8 DEF ScansOf, ScanOK, Returns, Joins
  <2> HIDE DEF j
  <2>2. CASE \A d \in f.fb \cap f.drop : d \notin j .. s.i - 1
    <3>1. ScanPlaced(ls, f, Close(s, j))
      BY <2>1, <2>2, ReturnPlaced
    <3> QED  BY <1>8, <3>1 DEF ScanFine
  <2>3. ASSUME NEW d \in f.fb \cap f.drop, d \in j .. s.i - 1
        PROVE  ScanFine(ls, n, f, ScanLayer(ls, f, s))
    <3>1. s.first > 0 /\ j = s.first
      BY <1>2, <2>1, <2>3
    <3>2. n <= 6
      BY <2>3 DEF FewDropped
    <3>3. Spent(ls, n, f, Close(s, s.first))
      BY <2>1, <2>3, <3>1, <3>2, ReturnSpent
    <3> QED  BY <1>8, <3>1, <3>3 DEF ScanFine
  <2> QED  BY <2>2, <2>3
<1> QED  BY <1>1, <1>3, <1>4, <1>5, <1>6, <1>7, <1>8, ScanSteps

LEMMA StartPlaced ==
  ASSUME NEW ls, NEW f
  PROVE  ScanPlaced(ls, f, Start(1, 0, NoBatch))
<1> DEFINE s == Start(1, 0, NoBatch)
<1>1. NoBatch \in Batches
  BY DEF NoBatch, Batches
<1>2. s.i = 1 /\ s.start = 1 /\ s.end = 1
      /\ s.z = 0 /\ s.first = 0 /\ s.above = 0 /\ s.dropped = 0 /\ s.best = NoBatch
  BY <1>1, StartFields
<1> HIDE DEF s
<1>3. Gone(f, 1) = {} /\ Low(f, 1) = {} /\ Pipes(f, 1, 1) = {}
  BY DEF Gone, Low, Pipes
<1>4. Cardinality(Gone(f, 1)) = 0 /\ Cardinality(Low(f, 1)) = 0
      /\ Cardinality(Pipes(f, 1, 1)) = 0
  BY <1>3, FS_EmptySet
<1>5. Sorted(ls, f, 1, 0, 1)
  BY DEF Sorted
<1>6. ScanAt(ls, f, s, 1)
  BY <1>2, <1>4, <1>5 DEF ScanAt
<1>7. BatchPlaced(ls, f, NoBatch)
  BY DEF BatchPlaced, NoBatch
<1>8. ScanPlaced(ls, f, s)
  BY <1>2, <1>4, <1>6, <1>7 DEF ScanPlaced
<1> QED  BY <1>8 DEF s

\* The batch of getBatch has a stage above the pipes below it and below
\* those above it, as far as they overlap.
LEMMA BatchIsPlaced ==
  ASSUME NEW ls, NEW n \in Nat, Len(ls) = n, NEW f, f.fb \subseteq 1 .. n, FewDropped(n, f)
  PROVE  BatchPlaced(ls, f, getBatch(ls, f))
<1> DEFINE I == {s \in Scans : ScanOK(n, f, s) /\ ScanFine(ls, n, f, s)}
           R == {b \in Batches : BatchPlaced(ls, f, b)}
<1>1. \A s \in I : /\ s \in Scans /\ s.start \in Nat /\ s.i \in Nat /\ s.i <= n + 1
                   /\ s.start <= n + 1
  <2> TAKE s \in I
  <2>1. s \in ScansOf(Batches)
    BY ScansAre
  <2>2. s.start \in Nat /\ s.i \in Nat
    BY <2>1 DEF ScansOf
  <2> QED  BY <2>2 DEF ScanOK
<1>2. ASSUME NEW s \in I, s.i <= n
      PROVE  /\ ScanLayer(ls, f, s) \in I
             /\ \/ ScanLayer(ls, f, s).start > s.start
                \/ /\ ScanLayer(ls, f, s).start = s.start
                   /\ ScanLayer(ls, f, s).i = s.i + 1
  <2>1. s \in Scans /\ ScanOK(n, f, s) /\ ScanFine(ls, n, f, s)
    OBVIOUS
  <2>2. ScanFine(ls, n, f, ScanLayer(ls, f, s))
    BY <1>2, <2>1, StepPlaced, SpentStep DEF ScanFine
  <2>3. ScanLayer(ls, f, s) \in Scans
    BY <2>1, ScanTypes
  <2> HIDE DEF I
  <2>4. /\ ScanOK(n, f, ScanLayer(ls, f, s))
        /\ \/ ScanLayer(ls, f, s).start > s.start
           \/ /\ ScanLayer(ls, f, s).start = s.start
              /\ ScanLayer(ls, f, s).i = s.i + 1
    BY <1>2, <2>1, StepOK
  <2> QED  BY <2>2, <2>3, <2>4 DEF I
<1>3. \A s \in I : s.i > n => Better(s) \in R
  <2> SUFFICES ASSUME NEW s \in I  PROVE Better(s) \in R
    OBVIOUS
  <2>1. BatchOK(f, Better(s)) /\ Better(s) \in Batches
    BY BetterOK DEF BatchOK
  <2>2. BatchPlaced(ls, f, Better(s))
    BY BetterPlaced, SpentBetter DEF ScanFine, Spent
  <2> QED  BY <2>1, <2>2
<1>4. Start(1, 0, NoBatch) \in I
  <2>1. ScanOK(n, f, Start(1, 0, NoBatch))
    BY StartOK
  <2> QED  BY <2>1, StartPlaced DEF ScanOK, ScanFine
<1> HIDE DEF I, R
<1>5. \A s \in I : Scan(ls, f)[s] \in R
  BY <1>1, <1>2, <1>3, ScanInduction
<1>6. getBatch(ls, f) \in R
  BY <1>4, <1>5 DEF getBatch
<1> QED  BY <1>6 DEF R

----------------------------------------------------------------------------
(* The stage of the framebuffer in a frame.                                *)

\* Among the stages, the framebuffer is at layer q: every pipe that overlaps
\* one of its layers is on the side of that layer, or opaque above it.
Parted(ls, m, q) ==
  \A k, j \in Indices(ls) :
    k \notin m.fb /\ j \in m.fb /\ j \notin m.drop /\ Overlap(ls, k, j) =>
      (k < q <=> k < j) \/ (k > j /\ ls[k].opaque)

Placed(ls, m) ==
  \E q \in Nat : /\ q >= 1 /\ m.fbZ = Cardinality(Pipes(m, 1, q))
                 /\ Parted(ls, m, q)

\* Without a stage, the framebuffer has no layer to show.
InOrder(ls, m) ==
  IF m.fbZ >= 0 THEN Placed(ls, m) ELSE m.fb \subseteq m.drop

LEMMA MarkedInOrder ==
  ASSUME NEW ls \in Seq(Layer), NEW f \in Division(ls), FewDropped(Len(ls), f),
         f.fbCount # 0
  PROVE  InOrder(ls, Marked(ls, f))
<1> DEFINE m == Marked(ls, f)
           b == getBatch(ls, f)
<1>1. Len(ls) \in Nat /\ Indices(ls) = 1 .. Len(ls) /\ Among(ls, f.fb) /\ Among(ls, f.drop)
  BY IndicesFinite, DivisionFields
<1>2. f.fb \subseteq 1 .. Len(ls)
  BY <1>1 DEF Among
<1>3. BatchOK(f, b) /\ (b.count = 0 => f.fb \subseteq f.drop)
  BY <1>1, <1>2, BatchOfFrame
<1>4. BatchPlaced(ls, f, b)
  BY <1>1, <1>2, BatchIsPlaced
<1>5. b.count \in Nat /\ b.start \in Nat /\ b.end \in Nat /\ b.z \in Int
  BY <1>3 DEF BatchOK, Batches
<1>6. /\ m.fbZ = b.z /\ m.drop = f.drop
      /\ \A k : k \in m.fb <=> k \in f.fb /\ ~(k \in f.fb \ f.drop /\ (k < b.start \/ k > b.end))
  <2> DEFINE fb == f.fb \ Pulled(ls, f)
             z == b.z
             count == b.count
             mdpCount == Rest(ls, f, count)
             g == [f EXCEPT !.fb = fb, !.fbZ = z, !.fbCount = count,
                            !.mdpCount = mdpCount]
  <2>1. m = g
    BY Zenon DEF Marked
  <2>2. \A k : k \in fb <=> k \in f.fb /\ ~(k \in f.fb \ f.drop /\ (k < b.start \/ k > b.end))
    BY Zenon DEF Pulled
  <2> HIDE DEF fb, z, count, mdpCount, b, m
  <2>3. g.fb = fb /\ g.fbZ = z /\ g.drop = f.drop
    BY DEF Division
  <2> HIDE DEF g
  <2> QED  BY <2>1, <2>2, <2>3 DEF z
<1> HIDE DEF b, m
<1>7. \A k \in f.fb : k \in Nat
  BY <1>2
<1>8. \A k : k \in m.fb <=> k \in f.fb /\ (k \in f.drop \/ (b.start <= k /\ k <= b.end))
  BY <1>5, <1>6, <1>7
<1>9. ASSUME b.count = 0  PROVE InOrder(ls, m)
  <2>1. f.fb \subseteq f.drop /\ b.z < 0
    BY <1>3, <1>9 DEF BatchOK
  <2>2. m.fb \subseteq m.drop /\ ~(m.fbZ >= 0)
    BY <1>5, <1>6, <1>8, <2>1
  <2> QED  BY <2>2 DEF InOrder
<1>10. ASSUME b.count # 0  PROVE InOrder(ls, m)
  <2>1. PICK q \in b.start .. b.end :
          /\ b.z = Cardinality(Low(f, b.start)) + Cardinality(Pipes(f, b.start, q))
          /\ Sorted(ls, f, b.start, b.end, q)
    BY <1>4, <1>5, <1>10 DEF BatchPlaced
  <2>2. b.start >= 1 /\ q \in Nat /\ b.start <= q /\ q <= b.end /\ q >= 1
    BY <1>4, <1>5, <1>10, <2>1 DEF BatchPlaced
  <2>4. Cardinality(Pipes(m, 1, q)) = b.z
    <3>1. /\ Pipes(m, 1, q) = Low(f, b.start) \cup Pipes(f, b.start, q)
          /\ Low(f, b.start) \cap Pipes(f, b.start, q) = {}
      BY <1>5, <1>8, <2>2 DEF Pipes, Low
    <3>2. /\ IsFiniteSet(Low(f, b.start)) /\ Cardinality(Low(f, b.start)) \in Nat
      BY <1>5, LowFinite
    <3>3. /\ IsFiniteSet(Pipes(f, b.start, q)) /\ Cardinality(Pipes(f, b.start, q)) \in Nat
      BY <1>5, <2>2, PipesFinite
    <3>4. Cardinality(Low(f, b.start) \cap Pipes(f, b.start, q)) = 0
      BY <3>1, FS_EmptySet
    <3>5. Cardinality(Low(f, b.start) \cup Pipes(f, b.start, q))
            = Cardinality(Low(f, b.start)) + Cardinality(Pipes(f, b.start, q))
                - Cardinality(Low(f, b.start) \cap Pipes(f, b.start, q))
      BY <3>2, <3>3, FS_Union
    <3>6. Cardinality(Pipes(m, 1, q)) = Cardinality(Low(f, b.start) \cup Pipes(f, b.start, q))
      BY <3>1
    <3> QED  BY <2>1, <3>2, <3>3, <3>4, <3>5, <3>6
  <2>5. Parted(ls, m, q)
    <3> SUFFICES ASSUME NEW k \in Indices(ls), NEW j \in Indices(ls),
                        k \notin m.fb, j \in m.fb, j \notin m.drop, Overlap(ls, k, j)
                 PROVE  k < q <=> k < j
      BY Zenon DEF Parted
    <3>1. k \in Nat /\ j \in Nat /\ j \in f.fb /\ j \notin f.drop /\ b.start <= j /\ j <= b.end
      BY <1>1, <1>6, <1>8
    <3>2. CASE k < b.start
      BY <1>5, <2>2, <3>1, <3>2
    <3>3. CASE k > b.end
      BY <1>5, <2>2, <3>1, <3>3
    <3>4. CASE b.start <= k /\ k <= b.end
      <4>1. k \notin f.fb
        BY <1>8, <3>4
      <4>2. k \in b.start .. b.end /\ j \in b.start .. b.end
        BY <1>5, <3>1, <3>4
      <4> QED  BY <2>1, <3>1, <4>1, <4>2, Zenon DEF Sorted
    <3> QED  BY <1>5, <3>1, <3>2, <3>3, <3>4
  <2>6. Cardinality(Pipes(m, 1, q)) \in Nat
    BY <2>2, PipesFinite
  <2>7. Placed(ls, m)
    BY <1>6, <2>2, <2>4, <2>5 DEF Placed
  <2> QED  BY <1>6, <2>4, <2>6, <2>7 DEF InOrder
<1> QED  BY <1>9, <1>10 DEF m

\* What cacheBasedComp and mdpOnlyLayersComp try.
LEMMA MixedInOrder ==
  ASSUME NEW ls \in Seq(Layer), NEW f \in Division(ls), Counted(ls, f), f.fbZ = -1,
         FewDropped(Len(ls), f), f.drop = {} \/ ~isSecureRGBPresent(ls), NEW secureOnly
  PROVE  InOrder(ls, Mixed(ls, f, secureOnly))
<1> DEFINE h == updateYUV(ls, f, secureOnly)
           g == updateSecureRGB(ls, h)
<1>1. /\ h \in Division(ls) /\ h.drop = f.drop /\ h.fbZ = -1
      /\ \A k \in Indices(ls) : k \in f.fb /\ k \in f.drop => k \in h.fb
      /\ Counted(ls, h)
  BY YuvFields, Zenon
<1> HIDE DEF h
<1>2. /\ g \in Division(ls) /\ g.drop = f.drop /\ g.fbZ = -1
      /\ \A k \in Indices(ls) : k \in h.fb => k \in g.fb \/ LeavesRGB(ls, k)
      /\ Counted(ls, g)
  BY <1>1, RGBFields, Zenon
<1> HIDE DEF g
<1>3. \A k \in f.drop : k \in Indices(ls) /\ ~LeavesRGB(ls, k)
  <2>1. Among(ls, f.drop)
    BY DivisionFields
  <2>2. f.drop = {} \/ \A k \in Indices(ls) : ~LeavesRGB(ls, k)
    BY DEF isSecureRGBPresent, LeavesRGB
  <2> QED  BY <2>1, <2>2 DEF Among
<1>4. FewDropped(Len(ls), g)
  BY <1>1, <1>2, <1>3 DEF FewDropped
<1>5. InOrder(ls, Marked(ls, g))
  <2>1. CASE g.fbCount # 0
    BY <1>2, <1>4, <2>1, MarkedInOrder
  <2>2. CASE g.fbCount = 0
    <3>1. Marked(ls, g) = g
      BY <2>2, Zenon DEF Marked
    <3>2. Among(ls, g.fb \ g.drop) /\ Cardinality(g.fb \ g.drop) = 0
      BY <1>2, <2>2, DivisionFields DEF Counted, Among
    <3>3. g.fb \ g.drop = {}
      BY <3>2, IndicesFinite
    <3> QED  BY <1>2, <3>1, <3>3 DEF InOrder
  <2> QED  BY <2>1, <2>2
<1>6. Mixed(ls, f, secureOnly) = Marked(ls, g)
  BY Zenon DEF Mixed, g, h
<1> QED  BY <1>5, <1>6

\* The pipes below the stage past the whole list are all of them.
LEMMA AllBelow ==
  ASSUME NEW ls \in Seq(Layer), NEW f \in Division(ls)
  PROVE  Cardinality(Pipes(f, 1, Len(ls) + 1)) = Len(ls) - Cardinality(f.fb)
<1>1. /\ Len(ls) \in Nat /\ IsFiniteSet(Indices(ls)) /\ Cardinality(Indices(ls)) = Len(ls)
      /\ Indices(ls) = 1 .. Len(ls) /\ Among(ls, f.fb)
  BY IndicesFinite, DivisionFields
<1>2. Pipes(f, 1, Len(ls) + 1) = Indices(ls) \ f.fb
  BY <1>1 DEF Pipes
<1>3. Indices(ls) \cap f.fb = f.fb
  BY <1>1 DEF Among
<1>4. Cardinality(Indices(ls) \ f.fb)
        = Cardinality(Indices(ls)) - Cardinality(Indices(ls) \cap f.fb)
  BY <1>1, FS_Difference
<1> QED  BY <1>1, <1>2, <1>3, <1>4

\* videoOnlyComp: the framebuffer is above the videos, which are opaque.
LEMMA VideoInOrder ==
  ASSUME NEW ls \in Seq(Layer), NEW secureOnly,
         \A i \in Indices(ls) : isYuv(ls[i]) /\ ls[i].doable => ls[i].opaque
  PROVE  InOrder(ls, VideoFrame(ls, {}, secureOnly))
<1> DEFINE t == Begun(ls, {})
           f == updateYUV(ls, t, secureOnly)
           x == IF f.fbCount # 0 THEN f.mdpCount ELSE f.fbZ
           v == [f EXCEPT !.fbZ = x]
<1>1. Among(ls, {})
  BY DEF Among
<1>2. /\ t \in Division(ls) /\ t.fb = Indices(ls) /\ t.drop = {}
      /\ t.fbZ = -1 /\ Counted(ls, t)
  BY <1>1, BegunFields
<1>3. VideoFrame(ls, {}, secureOnly) = v
  BY Zenon DEF VideoFrame
<1> HIDE DEF t
<1>4. /\ f \in Division(ls) /\ f.drop = {} /\ f.fbZ = -1 /\ Counted(ls, f)
      /\ \A k \in Indices(ls) : k \in f.fb \/ Leaves(ls, k, secureOnly)
  <2>1. /\ f \in Division(ls) /\ f.drop = t.drop /\ f.fbZ = t.fbZ
        /\ Counted(ls, f)
        /\ \A k \in Indices(ls) : k \in t.fb => k \in f.fb \/ Leaves(ls, k, secureOnly)
    BY <1>2, YuvFields, Zenon
  <2> HIDE DEF f
  <2> QED  BY <1>2, <2>1
<1> HIDE DEF f
<1>5. /\ f.fbCount \in Int /\ f.mdpCount \in Int /\ Among(ls, f.fb)
      /\ Len(ls) \in Nat /\ Indices(ls) = 1 .. Len(ls)
  BY <1>4, DivisionFields, IndicesFinite
<1>6. f.fbCount = Cardinality(f.fb) /\ f.mdpCount = Len(ls) - Cardinality(f.fb)
  <2>1. f.fb \ f.drop = f.fb /\ Cardinality(f.drop) = 0
    BY <1>4, FS_EmptySet
  <2>2. f.fbCount = Cardinality(f.fb)
    BY <1>4, <2>1, Zenon DEF Counted
  <2>3. f.mdpCount = Len(ls) - f.fbCount - Cardinality(f.drop)
    BY <1>4, Zenon DEF Counted
  <2> QED  BY <1>5, <2>1, <2>2, <2>3
<1>7. x \in Int /\ (f.fbCount # 0 => x = f.mdpCount) /\ (f.fbCount = 0 => x = -1)
  BY <1>4, <1>5
<1> HIDE DEF x
<1>8. v \in Division(ls) /\ v.fbZ = x /\ v.fb = f.fb /\ v.drop = {}
  BY <1>4, <1>7 DEF Division
<1> HIDE DEF v
<1>9. CASE f.fbCount = 0
  <2>1. v.fb = {}
    BY <1>5, <1>6, <1>8, <1>9, IndicesFinite
  <2>2. ~(v.fbZ >= 0)
    BY <1>7, <1>8, <1>9
  <2>3. InOrder(ls, v)
    BY <2>1, <2>2 DEF InOrder
  <2> QED  BY <1>3, <2>3
<1>10. CASE f.fbCount # 0
  <2>1. v.fbZ = Cardinality(Pipes(v, 1, Len(ls) + 1))
    <3>1. Cardinality(Pipes(v, 1, Len(ls) + 1)) = Len(ls) - Cardinality(v.fb)
      BY <1>8, AllBelow
    <3> QED  BY <1>6, <1>7, <1>8, <1>10, <3>1
  <2>2. Parted(ls, v, Len(ls) + 1)
    <3> SUFFICES ASSUME NEW k \in Indices(ls), NEW j \in Indices(ls),
                        k \notin v.fb, j \in v.fb
                 PROVE  (k < Len(ls) + 1 <=> k < j) \/ (k > j /\ ls[k].opaque)
      BY Zenon DEF Parted
    <3>1. ls[k].opaque
      <4>1. Leaves(ls, k, secureOnly)
        BY <1>4, <1>8, Zenon
      <4>2. isYuv(ls[k]) /\ ls[k].doable
        BY <4>1, Zenon DEF Leaves, InReach
      <4> QED  BY <4>2
    <3>2. k # j
      OBVIOUS
    <3> QED  BY <1>5, <3>1, <3>2
  <2>3. Placed(ls, v)
    BY <1>5, <2>1, <2>2 DEF Placed
  <2>4. v.fbZ >= 0
    BY <1>5, <2>1, PipesFinite
  <2>5. InOrder(ls, v)
    BY <2>3, <2>4 DEF InOrder
  <2> QED  BY <1>3, <2>5
<1> QED  BY <1>9, <1>10

\* loadBasedComp: the framebuffer is above the lowest layers.
LEMMA LoadInOrder ==
  ASSUME list \in Seq(Layer), NEW size \in Nat, size <= Len(list)
  PROVE  InOrder(list, LoadFrame(size))
<1> DEFINE f == LoadFrame(size)
<1>1. /\ f \in Division(list) /\ f.fb = Indices(list) \ 1 .. size /\ f.drop = {}
      /\ f.fbZ = size
  BY LoadFields
<1> HIDE DEF f
<1>2. Len(list) \in Nat /\ Indices(list) = 1 .. Len(list)
  BY IndicesFinite
<1>3. Pipes(f, 1, size + 1) = 1 .. size
  BY <1>1, <1>2 DEF Pipes
<1>4. Cardinality(Pipes(f, 1, size + 1)) = size
  BY <1>3, FS_Interval
<1>5. Parted(list, f, size + 1)
  <2> SUFFICES ASSUME NEW k \in Indices(list), NEW j \in Indices(list),
                      k \notin f.fb, j \in f.fb
               PROVE  k < size + 1 <=> k < j
    BY Zenon DEF Parted
  <2> QED  BY <1>1, <1>2
<1>6. Placed(list, f)
  BY <1>1, <1>4, <1>5 DEF Placed
<1>7. InOrder(list, f)
  BY <1>1, <1>6 DEF InOrder
<1> QED  BY <1>7 DEF f

LEMMA FullInOrder ==
  ASSUME NEW ls \in Seq(Layer), NEW f \in Division(ls), f.fbZ = -1
  PROVE  InOrder(ls, fullMDP(ls, f))
<1> DEFINE g == fullMDP(ls, f)
<1>1. g.fb = f.drop /\ g.drop = f.drop /\ g.fbZ = f.fbZ
  BY FullFields
<1> HIDE DEF g
<1>2. InOrder(ls, g)
  BY <1>1 DEF InOrder
<1> QED  BY <1>2 DEF g

----------------------------------------------------------------------------
(* What is on the panel.                                                   *)

\* Of the opaque layers that cover a layer at a cell, the topmost is seen.
LEMMA TopmostSeen ==
  ASSUME list \in Seq(Layer), NEW c, NEW i \in Indices(list),
         c \in list[i].frame, i \notin Seen(c)
  PROVE  \E j \in Indices(list) : j > i /\ list[j].opaque /\ j \in Seen(c)
<1> DEFINE n == Len(list)
           Tops == {k \in 0 .. n : n - k \in Above(i, c)}
<1>1. n \in Nat /\ Indices(list) = 1 .. n
  BY IndicesFinite
<1>2. PICK l : l \in Above(i, c)
  BY DEF Seen
<1>3. n - l \in Tops
  BY <1>1, <1>2 DEF Above
<1>4. Tops \subseteq Nat /\ Tops # {}
  BY <1>1, <1>3
<1>5. PICK k \in Tops : \A y \in Tops : k <= y
  <2> HIDE DEF Tops
  <2> QED  BY <1>4, SmallestNat
<1>6. n - k \in Above(i, c) /\ k \in 0 .. n
  BY <1>5
<1> DEFINE j == n - k
<1>7. /\ j \in Indices(list) /\ j \in 1 .. n /\ j > i /\ list[j].opaque /\ c \in list[j].frame
      /\ k = n - j
  BY <1>1, <1>6 DEF Above
<1> HIDE DEF j
<1>8. Above(j, c) = {}
  <2> SUFFICES ASSUME NEW m \in Above(j, c)  PROVE FALSE
    OBVIOUS
  <2>1. m \in 1 .. n /\ m > j /\ m \in Above(i, c)
    BY <1>1, <1>7 DEF Above
  <2>2. n - m \in Tops
    <3>1. n - m \in 0 .. n /\ n - (n - m) = m
      BY <1>1, <2>1
    <3> QED  BY <2>1, <3>1
  <2>3. k <= n - m
    BY <1>5, <2>2
  <2> QED  BY <1>1, <1>7, <2>1, <2>3
<1> QED  BY <1>7, <1>8 DEF Seen

\* Layers stacked in their order, among them all those to be seen.
Stacked(c, T, sigma) ==
  /\ T \subseteq Indices(list) /\ Seen(c) \subseteq T
  /\ \A i \in T : c \in list[i].frame
  /\ \A s : s \in Stages(c) <=> \E i \in T : s = <<sigma[i], i>>
  /\ \A i, j \in T : Over(<<sigma[i], i>>, <<sigma[j], j>>) <=> i > j

LEMMA StackedPicture ==
  ASSUME list \in Seq(Layer), NEW c, NEW T, NEW sigma, Stacked(c, T, sigma)
  PROVE  \A s : s \in Picture(c) <=> \E i \in Seen(c) : s = <<sigma[i], i>>
<1>1. ASSUME NEW i \in Seen(c)  PROVE <<sigma[i], i>> \in Picture(c)
  <2>1. i \in T
    BY DEF Stacked
  <2>2. <<sigma[i], i>> \in Stages(c)
    BY <2>1, Zenon DEF Stacked
  <2>3. ASSUME NEW t \in Stages(c), Over(t, <<sigma[i], i>>)  PROVE ~list[t[2]].opaque
    <3>1. PICK j \in T : t = <<sigma[j], j>>
      BY Zenon DEF Stacked
    <3>2. j > i /\ t[2] = j
      BY <2>1, <2>3, <3>1 DEF Stacked
    <3>3. j \notin Above(i, c)
      BY DEF Seen
    <3>4. j \in Indices(list) /\ c \in list[j].frame
      BY DEF Stacked
    <3> QED  BY <3>2, <3>3, <3>4 DEF Above
  <2> QED  BY <2>2, <2>3 DEF Picture
<1>2. ASSUME NEW s \in Picture(c)  PROVE \E i \in Seen(c) : s = <<sigma[i], i>>
  <2>1. s \in Stages(c) /\ \A t \in Stages(c) : Over(t, s) => ~list[t[2]].opaque
    BY DEF Picture
  <2>2. PICK i \in T : s = <<sigma[i], i>>
    BY <2>1, Zenon DEF Stacked
  <2>3. i \in Seen(c)
    <3> SUFFICES ASSUME i \notin Seen(c)  PROVE FALSE
      OBVIOUS
    <3>1. i \in Indices(list) /\ c \in list[i].frame
      BY DEF Stacked
    <3>2. PICK j \in Indices(list) : j > i /\ list[j].opaque /\ j \in Seen(c)
      BY <3>1, TopmostSeen
    <3>3. j \in T
      BY <3>2 DEF Stacked
    <3> DEFINE t == <<sigma[j], j>>
    <3>4. t \in Stages(c) /\ t[2] = j
      BY <3>3, Zenon DEF Stacked
    <3>5. Over(t, s)
      BY <2>2, <3>2, <3>3, Zenon DEF Stacked
    <3> HIDE DEF t
    <3> QED  BY <2>1, <3>2, <3>4, <3>5
  <2> QED  BY <2>2, <2>3
<1> QED  BY <1>1, <1>2, Zenon

LEMMA StackedRight ==
  ASSUME list \in Seq(Layer), NEW c, NEW T, NEW sigma, Stacked(c, T, sigma),
         \A i \in Seen(c) : i \in old => mModeOn /\ i \notin mCurrentFrame.fb
  PROVE  Right(c)
<1>1. \A s : s \in Picture(c) <=> \E i \in Seen(c) : s = <<sigma[i], i>>
  BY StackedPicture
<1>2. {s[2] : s \in Picture(c)} = Seen(c)
  <2>1. \A i \in Seen(c) : i \in {s[2] : s \in Picture(c)}
    <3> TAKE i \in Seen(c)
    <3>1. <<sigma[i], i>> \in Picture(c) /\ <<sigma[i], i>>[2] = i
      BY <1>1
    <3> QED  BY <3>1, Zenon
  <2>2. \A s \in Picture(c) : s[2] \in Seen(c)
    BY <1>1
  <2> QED  BY <2>1, <2>2
<1>3. Cardinality(Picture(c)) = Cardinality(Seen(c))
  <2> DEFINE S == Seen(c)
             P == Picture(c)
             b == [i \in S |-> <<sigma[i], i>>]
  <2>1. IsFiniteSet(S)
    <3>1. Among(list, S)
      BY DEF Among, Seen
    <3> QED  BY <3>1, IndicesFinite
  <2>2. \A s : s \in P <=> \E i \in S : s = <<sigma[i], i>>
    BY <1>1
  <2> HIDE DEF S, P
  <2>3. b \in [S -> P]
    BY <2>2
  <2>4. \A i, j \in S : b[i] = b[j] => i = j
    OBVIOUS
  <2>5. \A s \in P : \E i \in S : b[i] = s
    BY <2>2
  <2> HIDE DEF b
  <2>6. b \in Bijection(S, P)
    BY <2>3, <2>4, <2>5, Fun_IsBij, Zenon
  <2>7. ExistsBijection(S, P)
    BY <2>6, Zenon DEF ExistsBijection
  <2>8. Cardinality(P) = Cardinality(S)
    BY <2>1, <2>7, FS_Bijection
  <2> QED  BY <2>8 DEF S, P
<1>4. \A s, t \in Picture(c) : Over(s, t) <=> s[2] > t[2]
  <2> SUFFICES ASSUME NEW s \in Picture(c), NEW t \in Picture(c)
               PROVE  Over(s, t) <=> s[2] > t[2]
    OBVIOUS
  <2>1. PICK i \in Seen(c) : s = <<sigma[i], i>>
    BY <1>1, Zenon
  <2>2. PICK j \in Seen(c) : t = <<sigma[j], j>>
    BY <1>1, Zenon
  <2>3. i \in T /\ j \in T
    BY DEF Stacked
  <2>4. Over(s, t) <=> i > j
    BY <2>1, <2>2, <2>3, Zenon DEF Stacked
  <2> QED  BY <2>1, <2>2, <2>4
<1>5. \A s \in Picture(c) : s[2] \in old => mModeOn /\ s[2] \notin mCurrentFrame.fb
  <2>1. \A s \in Picture(c) : s[2] \in Seen(c)
    BY <1>1
  <2> QED  BY <2>1
<1> QED  BY <1>2, <1>3, <1>4, <1>5, Zenon DEF Right

\* The stages of the pipes are in the order of their layers, and on both
\* sides of that of the framebuffer.
LEMMA MorePipes ==
  ASSUME NEW f, NEW i \in Nat, i >= 1, NEW k \in Nat, i <= k
  PROVE  /\ Cardinality(Pipes(f, 1, i)) \in Nat /\ Cardinality(Pipes(f, 1, k)) \in Nat
         /\ Cardinality(Pipes(f, 1, i)) <= Cardinality(Pipes(f, 1, k))
         /\ i < k /\ i \notin f.fb =>
              Cardinality(Pipes(f, 1, i)) < Cardinality(Pipes(f, 1, k))
<1>1. /\ Cardinality(Pipes(f, 1, i)) \in Nat /\ Cardinality(Pipes(f, 1, k)) \in Nat
      /\ Cardinality(Pipes(f, i, k)) \in Nat
  BY PipesFinite
<1>2. Cardinality(Pipes(f, 1, k)) = Cardinality(Pipes(f, 1, i)) + Cardinality(Pipes(f, i, k))
  BY PipesAdd
<1>3. ASSUME i < k, i \notin f.fb  PROVE Cardinality(Pipes(f, i, k)) >= 1
  <2>1. Cardinality(Pipes(f, i, k))
          = Cardinality(Pipes(f, i, i + 1)) + Cardinality(Pipes(f, i + 1, k))
    BY <1>3, PipesAdd
  <2>2. Cardinality(Pipes(f, i, i)) = 0
    BY PipesNext
  <2>3. Cardinality(Pipes(f, i, i + 1)) = Cardinality(Pipes(f, i, i)) + 1
    BY <1>3, PipesNext
  <2>4. Cardinality(Pipes(f, i + 1, k)) \in Nat
    BY PipesFinite
  <2> QED  BY <2>1, <2>2, <2>3, <2>4
<1> QED  BY <1>1, <1>2, <1>3

LEMMA StageIs ==
  ASSUME NEW f, NEW i
  PROVE  zOrder(f, i) = IF f.fbZ >= 0 /\ Cardinality(Pipes(f, 1, i)) >= f.fbZ
                        THEN Cardinality(Pipes(f, 1, i)) + 1
                        ELSE Cardinality(Pipes(f, 1, i))
BY Zenon DEF zOrder, Pipes

LEMMA StagesRise ==
  ASSUME NEW f, f.fbZ \in Int, NEW i \in Nat, i >= 1, NEW k \in Nat, i < k, i \notin f.fb
  PROVE  zOrder(f, i) \in Nat /\ zOrder(f, k) \in Nat /\ zOrder(f, i) < zOrder(f, k)
<1> DEFINE a == Cardinality(Pipes(f, 1, i))
           b == Cardinality(Pipes(f, 1, k))
<1>1. a \in Nat /\ b \in Nat /\ a < b
  BY MorePipes
<1>2. /\ zOrder(f, i) = IF f.fbZ >= 0 /\ a >= f.fbZ THEN a + 1 ELSE a
      /\ zOrder(f, k) = IF f.fbZ >= 0 /\ b >= f.fbZ THEN b + 1 ELSE b
  BY StageIs
<1> HIDE DEF a, b
<1> QED  BY <1>1, <1>2

LEMMA StageOfPipe ==
  ASSUME NEW f, NEW q \in Nat, q >= 1, f.fbZ = Cardinality(Pipes(f, 1, q)),
         NEW i \in Nat, i >= 1, i \notin f.fb
  PROVE  /\ zOrder(f, i) \in Nat /\ f.fbZ \in Nat
         /\ i >= q => zOrder(f, i) > f.fbZ
         /\ i < q => zOrder(f, i) < f.fbZ
<1> DEFINE a == Cardinality(Pipes(f, 1, i))
<1>1. a \in Nat /\ f.fbZ \in Nat
  BY PipesFinite
<1>2. zOrder(f, i) = IF f.fbZ >= 0 /\ a >= f.fbZ THEN a + 1 ELSE a
  BY StageIs
<1>3. i >= q => f.fbZ <= a
  BY MorePipes
<1>4. i < q => a < f.fbZ
  BY MorePipes
<1> HIDE DEF a
<1> QED  BY <1>1, <1>2, <1>3, <1>4

----------------------------------------------------------------------------
(* A cell of the region of interest.                                       *)

\* The framebuffer has no other layers than those of the frame.
Only(S) == \A c \in Cells : target[c] \subseteq Seen(c) \cap S

\* The configuration of the mixer in hwc_set.
Shown ==
  /\ list \in Seq(Layer) /\ FrameLayers \subseteq Indices(list) /\ roi \subseteq Cells
  /\ \A i \in FrameLayers : Current(i)
  /\ FrameLayers = {} \/ Only(FrameLayers)
  /\ \A c \in Cells : target[c] \subseteq Indices(list)
  /\ \A c \in roi : \A i \in Seen(c) : i \notin mCurrentFrame.drop

ShownMixed ==
  /\ mModeOn
  /\ mCurrentFrame.fbZ \in Int /\ InOrder(list, mCurrentFrame)
  /\ mFBUpdate.on <=> mCurrentFrame.fbZ >= 0
  /\ mCurrentFrame.fbZ >= 0 => mFBUpdate = FBPrepared(mCurrentFrame)

ShownWhole ==
  /\ ~mModeOn /\ FrameLayers = Indices(list)
  /\ mFBUpdate = [on |-> TRUE, z |-> 0, rect |-> Cells]

InFB(c, i) == mFBUpdate.on /\ c \in mFBUpdate.rect /\ i \in target[c]

LEMMA MixedFB ==
  ASSUME Shown, ShownMixed, NEW c \in roi, NEW i
  PROVE  InFB(c, i) <=> i \in Seen(c) \cap FrameLayers
<1>1. c \in Cells /\ c \in Int
  BY FrameAssumption DEF Shown
<1>2. CASE mCurrentFrame.fbZ >= 0
  <2> DEFINE frames == UNION {list[k].frame : k \in FrameLayers}
  <2>1. mFBUpdate.on /\ mFBUpdate.rect = Hull(frames) \cap roi
    BY <1>2 DEF ShownMixed, FBPrepared, getUpdatingFBRect, FrameLayers
  <2>2. ASSUME i \in Seen(c) \cap FrameLayers  PROVE InFB(c, i)
    <3>1. c \in frames
      BY <2>2 DEF Seen
    <3> HIDE DEF frames
    <3>2. c \in Hull(frames)
      BY <1>1, <3>1 DEF Hull
    <3>3. i \in target[c]
      BY <1>1, <2>2 DEF Shown, Current
    <3> QED  BY <2>1, <3>2, <3>3 DEF InFB
  <2>3. ASSUME InFB(c, i)  PROVE i \in Seen(c) \cap FrameLayers
    <3>1. c \in Hull(frames) /\ i \in target[c]
      BY <2>1, <2>3 DEF InFB
    <3>2. FrameLayers # {}
      BY <3>1 DEF Hull
    <3> QED  BY <1>1, <3>1, <3>2 DEF Shown, Only
  <2> QED  BY <2>2, <2>3
<1>3. CASE ~(mCurrentFrame.fbZ >= 0)
  <2>1. FrameLayers = {}
    BY <1>3 DEF ShownMixed, InOrder, FrameLayers
  <2> QED  BY <1>3, <2>1 DEF ShownMixed, InFB
<1> QED  BY <1>2, <1>3

LEMMA WholeFB ==
  ASSUME Shown, ShownWhole, NEW c \in roi, NEW i
  PROVE  InFB(c, i) <=> i \in Seen(c)
<1>1. c \in Cells
  BY DEF Shown
<1>2. InFB(c, i) <=> i \in target[c]
  BY <1>1 DEF ShownWhole, InFB
<1>3. i \in Seen(c) => i \in target[c]
  BY <1>1 DEF Shown, ShownWhole, Current, Seen
<1>4. i \in target[c] => i \in Seen(c)
  BY <1>1 DEF Shown, ShownWhole, Only
<1> QED  BY <1>2, <1>3, <1>4

Piped(c) == {i \in Indices(list) : i \notin mCurrentFrame.fb /\ c \in list[i].frame}
Left2FB(c) == Seen(c) \cap FrameLayers

\* The stage of a layer.
Stage(i) == IF i \in mCurrentFrame.fb THEN mFBUpdate.z ELSE zOrder(mCurrentFrame, i)

\* Where a layer of the framebuffer and a pipe overlap, the stages are in the
\* order of the two layers.
LEMMA PipeAndFB ==
  ASSUME Shown, ShownMixed, NEW c, NEW i \in Piped(c), NEW j \in Left2FB(c)
  PROVE  /\ Over(<<Stage(i), i>>, <<Stage(j), j>>) <=> i > j
         /\ Over(<<Stage(j), j>>, <<Stage(i), i>>) <=> j > i
<1> DEFINE m == mCurrentFrame
<1>1. /\ i \in Nat /\ j \in Nat /\ i >= 1 /\ j >= 1
      /\ i \in Indices(list) /\ j \in Indices(list)
      /\ i \notin m.fb /\ j \in m.fb /\ j \notin m.drop
  BY IndicesFinite DEF Shown, Piped, Left2FB, Seen, FrameLayers
<1>2. m.fbZ >= 0
  BY <1>1 DEF ShownMixed, InOrder
<1>3. PICK q \in Nat : q >= 1 /\ m.fbZ = Cardinality(Pipes(m, 1, q)) /\ Parted(list, m, q)
  BY <1>2 DEF ShownMixed, InOrder, Placed
<1>4. i < q <=> i < j
  <2>1. Overlap(list, i, j)
    BY DEF Overlap, Piped, Left2FB, Seen
  <2>2. (i < q <=> i < j) \/ (i > j /\ list[i].opaque)
    BY <1>1, <1>3, <2>1, Zenon DEF Parted
  <2>3. ~(i > j /\ list[i].opaque)
    BY DEF Piped, Left2FB, Seen, Above
  <2> QED  BY <2>2, <2>3
<1>5. /\ Stage(i) = zOrder(m, i) /\ Stage(j) = m.fbZ
  BY <1>1, <1>2 DEF Stage, ShownMixed, FBPrepared
<1>6. /\ zOrder(m, i) \in Nat /\ m.fbZ \in Nat
      /\ i >= q => zOrder(m, i) > m.fbZ
      /\ i < q => zOrder(m, i) < m.fbZ
  BY <1>1, <1>3, StageOfPipe
<1>7. i # j
  BY <1>1
<1> HIDE DEF m
<1>8. /\ Over(<<zOrder(m, i), i>>, <<m.fbZ, j>>) <=> i > j
      /\ Over(<<m.fbZ, j>>, <<zOrder(m, i), i>>) <=> j > i
  BY <1>1, <1>3, <1>4, <1>6, <1>7 DEF Over
<1> QED  BY <1>5, <1>8

LEMMA TwoPipes ==
  ASSUME Shown, ShownMixed, NEW c, NEW i \in Piped(c), NEW j \in Piped(c)
  PROVE  Over(<<Stage(i), i>>, <<Stage(j), j>>) <=> i > j
<1> DEFINE m == mCurrentFrame
<1>1. /\ i \in Nat /\ j \in Nat /\ i >= 1 /\ j >= 1 /\ i \notin m.fb /\ j \notin m.fb
      /\ m.fbZ \in Int
  BY IndicesFinite DEF Shown, ShownMixed, Piped
<1>2. i < j => zOrder(m, i) \in Nat /\ zOrder(m, j) \in Nat /\ zOrder(m, i) < zOrder(m, j)
  BY <1>1, StagesRise
<1>3. j < i => zOrder(m, i) \in Nat /\ zOrder(m, j) \in Nat /\ zOrder(m, j) < zOrder(m, i)
  BY <1>1, StagesRise
<1>4. Stage(i) = zOrder(m, i) /\ Stage(j) = zOrder(m, j)
  BY <1>1 DEF Stage
<1>5. i = j => zOrder(m, i) = zOrder(m, j)
  OBVIOUS
<1>6. zOrder(m, i) \in Nat
  BY <1>1, <1>2, <1>3, StageIs, PipesFinite
<1> HIDE DEF m
<1>7. Over(<<zOrder(m, i), i>>, <<zOrder(m, j), j>>) <=> i > j
  BY <1>1, <1>2, <1>3, <1>5, <1>6 DEF Over
<1> QED  BY <1>4, <1>7

LEMMA TwoInFB ==
  ASSUME Shown, ShownMixed, NEW c, NEW i \in Left2FB(c), NEW j \in Left2FB(c)
  PROVE  Over(<<Stage(i), i>>, <<Stage(j), j>>) <=> i > j
<1>1. /\ i \in Nat /\ j \in Nat /\ i \in mCurrentFrame.fb /\ j \in mCurrentFrame.fb
  BY IndicesFinite DEF Shown, Left2FB, Seen, FrameLayers
<1>2. mCurrentFrame.fbZ >= 0
  BY <1>1 DEF ShownMixed, InOrder, Left2FB, FrameLayers
<1>3. Stage(i) = mCurrentFrame.fbZ /\ Stage(j) = mCurrentFrame.fbZ /\ mCurrentFrame.fbZ \in Int
  BY <1>1, <1>2 DEF Stage, ShownMixed, FBPrepared
<1> DEFINE z == mCurrentFrame.fbZ
<1> HIDE DEF z
<1>4. z \in Int => (Over(<<z, i>>, <<z, j>>) <=> i > j)
  BY <1>1 DEF Over
<1> QED  BY <1>3, <1>4 DEF z

LEMMA MixedStacked ==
  ASSUME Shown, ShownMixed, NEW c \in roi
  PROVE  Stacked(c, Piped(c) \cup Left2FB(c), [i \in Nat |-> Stage(i)])
<1> DEFINE T == Piped(c) \cup Left2FB(c)
           sigma == [i \in Nat |-> Stage(i)]
<1>1. T \subseteq Indices(list) /\ T \subseteq Nat
  BY IndicesFinite DEF Shown, Piped, Left2FB, Seen
<1>2. Seen(c) \subseteq T
  <2> SUFFICES ASSUME NEW i \in Seen(c)  PROVE i \in T
    OBVIOUS
  <2>1. i \notin mCurrentFrame.drop
    BY DEF Shown
  <2> QED  BY <2>1 DEF Seen, Piped, Left2FB, FrameLayers
<1>3. \A i \in T : c \in list[i].frame
  BY DEF Piped, Left2FB, Seen
<1>4. \A i \in T : sigma[i] = Stage(i)
  BY <1>1
<1>5. ASSUME NEW s  PROVE s \in Stages(c) <=> \E i \in T : s = <<sigma[i], i>>
  <2>1. s \in Stages(c) <=>
          \/ \E i \in Indices(list) \ mCurrentFrame.fb :
               s = <<zOrder(mCurrentFrame, i), i>> /\ c \in list[s[2]].frame
          \/ \E i : InFB(c, i) /\ s = <<mFBUpdate.z, i>>
    BY DEF Stages, ShownMixed, InFB
  <2>2. (\E i \in Indices(list) \ mCurrentFrame.fb :
           s = <<zOrder(mCurrentFrame, i), i>> /\ c \in list[s[2]].frame)
        <=> \E i \in Piped(c) : s = <<Stage(i), i>>
    BY DEF Piped, Stage
  <2>3. (\E i : InFB(c, i) /\ s = <<mFBUpdate.z, i>>)
        <=> \E i \in Left2FB(c) : s = <<Stage(i), i>>
    <3>1. \A i : InFB(c, i) <=> i \in Left2FB(c)
      BY MixedFB, Zenon DEF Left2FB
    <3>2. \A i \in Left2FB(c) : Stage(i) = mFBUpdate.z
      BY DEF Left2FB, FrameLayers, Stage
    <3> QED  BY <3>1, <3>2
  <2>4. (\E i \in T : s = <<sigma[i], i>>) <=> \E i \in T : s = <<Stage(i), i>>
    <3> HIDE DEF T, sigma
    <3> QED  BY <1>4
  <2>5. (\E i \in T : s = <<Stage(i), i>>) <=>
          \/ \E i \in Piped(c) : s = <<Stage(i), i>>
          \/ \E i \in Left2FB(c) : s = <<Stage(i), i>>
    BY Zenon
  <2> HIDE DEF T, sigma
  <2> QED  BY <2>1, <2>2, <2>3, <2>4, <2>5
<1>6. ASSUME NEW i \in T, NEW j \in T
      PROVE  Over(<<sigma[i], i>>, <<sigma[j], j>>) <=> i > j
  <2>1. Over(<<Stage(i), i>>, <<Stage(j), j>>) <=> i > j
    <3>1. CASE i \in Piped(c) /\ j \in Piped(c)
      BY <3>1, TwoPipes
    <3>2. CASE i \in Left2FB(c) /\ j \in Left2FB(c)
      BY <3>2, TwoInFB
    <3>3. CASE i \in Piped(c) /\ j \in Left2FB(c)
      BY <3>3, PipeAndFB
    <3>4. CASE i \in Left2FB(c) /\ j \in Piped(c)
      BY <3>4, PipeAndFB
    <3> QED  BY <3>1, <3>2, <3>3, <3>4
  <2>2. sigma[i] = Stage(i) /\ sigma[j] = Stage(j)
    BY <1>4
  <2> HIDE DEF T, sigma
  <2> QED  BY <2>1, <2>2
<1> HIDE DEF T, sigma
<1>7. Stacked(c, T, sigma)
  BY <1>1, <1>2, <1>3, <1>5, <1>6, Zenon DEF Stacked
<1> QED  BY <1>7 DEF T, sigma

LEMMA MixedRight ==
  ASSUME Shown, ShownMixed, NEW c \in roi
  PROVE  Right(c)
<1> DEFINE T == Piped(c) \cup Left2FB(c)
           sigma == [i \in Nat |-> Stage(i)]
<1>1. Stacked(c, T, sigma)
  BY MixedStacked
<1>2. ASSUME NEW i \in Seen(c), i \in old  PROVE mModeOn /\ i \notin mCurrentFrame.fb
  <2>1. i \in T
    BY <1>1 DEF Stacked
  <2>2. i \notin FrameLayers
    BY <1>2 DEF Shown, Current
  <2> QED  BY <2>1, <2>2 DEF Left2FB, Piped, ShownMixed
<1> HIDE DEF T, sigma
<1> QED  BY <1>1, <1>2, StackedRight DEF Shown

\* Without MDP composition, all layers are in the framebuffer.
LEMMA WholeRight ==
  ASSUME Shown, ShownWhole, NEW c \in roi
  PROVE  Right(c)
<1> DEFINE T == Seen(c)
           sigma == [i \in Nat |-> 0]
<1>1. T \subseteq Indices(list) /\ T \subseteq Nat /\ \A i \in T : c \in list[i].frame
  BY IndicesFinite DEF Shown, Seen
<1>2. \A i \in T : sigma[i] = 0
  BY <1>1
<1>3. ASSUME NEW s  PROVE s \in Stages(c) <=> \E i \in T : s = <<sigma[i], i>>
  <2>1. s \in Stages(c) <=> \E i : InFB(c, i) /\ s = <<0, i>>
    BY DEF Stages, ShownWhole, InFB
  <2>2. \A i : InFB(c, i) <=> i \in T
    BY WholeFB, Zenon
  <2> HIDE DEF T, sigma
  <2> QED  BY <1>2, <2>1, <2>2
<1>4. ASSUME NEW i \in T, NEW j \in T
      PROVE  Over(<<sigma[i], i>>, <<sigma[j], j>>) <=> i > j
  <2>1. i \in Nat /\ j \in Nat /\ sigma[i] = 0 /\ sigma[j] = 0
    BY <1>1
  <2> HIDE DEF T, sigma
  <2> QED  BY <2>1 DEF Over
<1>5. Seen(c) \subseteq T
  OBVIOUS
<1>6. ASSUME NEW i \in Seen(c), i \in old  PROVE FALSE
  BY <1>1, <1>6 DEF Shown, ShownWhole, Current
<1> HIDE DEF T, sigma
<1>7. Stacked(c, T, sigma)
  BY <1>1, <1>3, <1>4, <1>5, Zenon DEF Stacked
<1> QED  BY <1>6, <1>7, StackedRight DEF Shown

----------------------------------------------------------------------------
(* What a strategy that succeeds shows.                                    *)

\* A video blends only by its plane alpha, which isYUVDoable refuses.
OpaqueVideos ==
  \A s \in Setups : \A l \in s.lists : \A i \in Indices(l) :
     isYuv(l[i]) /\ l[i].doable => l[i].opaque

\* Few enough layers for getBatch to count those dropped once each.
FewOnPartial == \A s \in Setups : s.partial => \A l \in s.lists : Len(l) <= 6

\* No secure layer of an application comes to such a panel: they are drawn
\* even when dropped.
NoSecureOnPartial ==
  \A s \in Setups : s.partial => \A l \in s.lists : ~isSecureRGBPresent(l)

\* Only a panel that takes partial updates drops layers.
DropsOnPartial == phase = "try" => mCurrentFrame.drop = {} \/ setup.partial

InPlace(f) ==
  /\ f \in Division(list) /\ InOrder(list, f)
  /\ f.drop = {} \/ f.drop = mCurrentFrame.drop

Fails == Skip \/ \E fbUpdate : NextStrategy(fbUpdate)
Succeeds == \E f : InPlace(f) /\ PostSucceeds(f)

LEMMA FailsIs ==
  ASSUME NEW f, PostFails(f) \/ GiveUp \/ Skip
  PROVE  Fails
BY Zenon DEF Fails, PostFails, GiveUp

LEMMA DroppedFew ==
  ASSUME FewOnPartial, NoSecureOnPartial, Trials, DropsOnPartial
  PROVE  /\ list \in Seq(Layer) /\ Among(list, mCurrentFrame.drop)
         /\ mCurrentFrame.drop = {} \/ ~isSecureRGBPresent(list)
         /\ mCurrentFrame.drop = {} \/ Len(list) <= 6
<1>1. setup.partial => Len(list) <= 6 /\ ~isSecureRGBPresent(list)
  BY Zenon DEF FewOnPartial, NoSecureOnPartial, Trials, Trial, ListOfDisplay
<1>2. mCurrentFrame.drop = {} \/ setup.partial
  BY DEF DropsOnPartial, Trials
<1> QED  BY <1>1, <1>2, TrialsFrame

LEMMA FullOutcome ==
  ASSUME Trials, fullMDPComp
  PROVE  Fails \/ Succeeds
<1> DEFINE f == fullMDP(list, mCurrentFrame)
<1>1. /\ list \in Seq(Layer) /\ mCurrentFrame \in Division(list) /\ mCurrentFrame.fbZ = -1
  BY TrialsFrame
<1>2. f \in Division(list) /\ f.drop = mCurrentFrame.drop
  BY <1>1, FullFields
<1>3. InOrder(list, f)
  BY <1>1, FullInOrder
<1>4. PostSucceeds(f) \/ PostFails(f) \/ Skip
  BY Zenon DEF fullMDPComp
<1> HIDE DEF f
<1>5. InPlace(f)
  BY <1>2, <1>3 DEF InPlace
<1> QED  BY <1>4, <1>5, FailsIs, Zenon DEF Succeeds

LEMMA CacheOutcome ==
  ASSUME FewOnPartial, NoSecureOnPartial, Trials, DropsOnPartial, cacheBasedComp
  PROVE  Fails \/ Succeeds
<1> DEFINE drop == mCurrentFrame.drop
           r == Reset(list, drop)
           f == updateLayerCache(list, r, updating)
           m == Mixed(list, f, FALSE)
<1>1. /\ list \in Seq(Layer) /\ Among(list, drop)
      /\ drop = {} \/ ~isSecureRGBPresent(list)
      /\ drop = {} \/ Len(list) <= 6
  BY DroppedFew
<1>2. PostSucceeds(m) \/ PostFails(m) \/ GiveUp
  BY Zenon DEF cacheBasedComp, Mixed
<1>3. /\ r \in Division(list) /\ r.drop = drop /\ r.fbZ = -1 /\ r.redraw = TRUE
  BY <1>1, ResetFields
<1> HIDE DEF r
<1>4. /\ f \in Division(list) /\ f.fb = Indices(list) \ updating /\ f.drop = drop
      /\ f.fbZ = -1 /\ f.redraw = TRUE /\ Counted(list, f)
  BY <1>1, <1>3, CacheFields
<1> HIDE DEF f
<1>5. FewDropped(Len(list), f) /\ (f.drop = {} \/ ~isSecureRGBPresent(list))
  BY <1>1, <1>4 DEF Among, FewDropped
<1>6. InOrder(list, m)
  BY <1>1, <1>4, <1>5, MixedInOrder, Zenon
<1>7. m \in Division(list) /\ m.drop = f.drop
  BY <1>1, <1>4, MixedOutcome, Zenon
<1> HIDE DEF m
<1>8. InPlace(m)
  BY <1>4, <1>6, <1>7 DEF InPlace
<1> QED  BY <1>2, <1>8, FailsIs, Zenon DEF Succeeds

LEMMA LoadOutcome ==
  ASSUME Trials, NEW stages \in 1 .. MaxPipes, loadBasedComp(stages)
  PROVE  Fails \/ Succeeds
<1> DEFINE most == LoadBatch(stages)
<1>1. list \in Seq(Layer)
  BY TrialsFrame
<1>2. \/ most >= 1 /\ \E size \in 1 .. most : PostSucceeds(LoadFrame(size))
      \/ PostFails(LoadFrame(1)) \/ Skip
  BY Zenon DEF loadBasedComp
<1>3. most >= 1 => most \in Nat /\ most <= Len(list) - 2 /\ Len(list) \in Nat
  <2>1. stages \in Nat
    BY FrameAssumption
  <2> QED  BY <1>1, <2>1, LoadSize
<1> HIDE DEF most
<1>4. ASSUME most >= 1, NEW size \in 1 .. most, PostSucceeds(LoadFrame(size))
      PROVE  Succeeds
  <2> DEFINE f == LoadFrame(size)
  <2>1. size \in Nat /\ size <= Len(list)
    BY <1>3, <1>4
  <2>2. f \in Division(list) /\ f.drop = {}
    BY <1>1, <2>1, LoadFields
  <2>3. InOrder(list, f)
    BY <1>1, <2>1, LoadInOrder
  <2>4. PostSucceeds(f)
    BY <1>4
  <2> HIDE DEF f
  <2>5. InPlace(f)
    BY <2>2, <2>3 DEF InPlace
  <2> QED  BY <2>4, <2>5, Zenon DEF Succeeds
<1> QED  BY <1>2, <1>4, FailsIs, Zenon

LEMMA MdpOutcome ==
  ASSUME FewOnPartial, NoSecureOnPartial, Trials, DropsOnPartial, NEW secureOnly,
         mdpOnlyLayersComp(secureOnly)
  PROVE  Fails \/ Succeeds
<1> DEFINE drop == mCurrentFrame.drop
           t == Begun(list, drop)
           m == Mixed(list, t, secureOnly)
<1>1. /\ list \in Seq(Layer) /\ Among(list, drop)
      /\ drop = {} \/ ~isSecureRGBPresent(list)
      /\ drop = {} \/ Len(list) <= 6
  BY DroppedFew
<1>2. PostSucceeds(m) \/ PostFails(m) \/ GiveUp
  BY Zenon DEF mdpOnlyLayersComp, Mixed, Begun
<1>3. /\ t \in Division(list) /\ t.fb = Indices(list) /\ t.drop = drop
      /\ t.fbZ = -1 /\ t.redraw = TRUE /\ Counted(list, t)
  BY <1>1, BegunFields
<1> HIDE DEF t
<1>4. FewDropped(Len(list), t) /\ (t.drop = {} \/ ~isSecureRGBPresent(list))
  BY <1>1, <1>3 DEF Among, FewDropped
<1>5. InOrder(list, m)
  BY <1>1, <1>3, <1>4, MixedInOrder, Zenon
<1>6. m \in Division(list) /\ m.drop = t.drop
  BY <1>1, <1>3, MixedOutcome, Zenon
<1> HIDE DEF m
<1>7. InPlace(m)
  BY <1>3, <1>5, <1>6 DEF InPlace
<1> QED  BY <1>2, <1>7, FailsIs, Zenon DEF Succeeds

LEMMA VideoResult ==
  ASSUME OpaqueVideos, Trials, NEW secureOnly \in BOOLEAN, videoOnlyComp(secureOnly)
  PROVE  Fails \/ Succeeds
<1> DEFINE v == VideoFrame(list, {}, secureOnly)
<1>1. list \in Seq(Layer) /\ Pending
  BY TrialsFrame
<1>2. Whole
  <2>1. Trying("video") \/ Trying("videoSecure")
    BY Zenon DEF videoOnlyComp
  <2> QED  BY <1>1, <2>1, TryingRest
<1>3. PostSucceeds(v) \/ PostFails(v) \/ GiveUp
  BY <1>2, VideoFacts, Zenon
<1>4. v \in Division(list) /\ v.drop = {}
  BY <1>1, VideoOutcome, Zenon
<1>5. InOrder(list, v)
  <2>1. \A i \in Indices(list) : isYuv(list[i]) /\ list[i].doable => list[i].opaque
    BY Zenon DEF OpaqueVideos, Trials, Trial, ListOfDisplay
  <2> QED  BY <1>1, <2>1, VideoInOrder, Zenon
<1> HIDE DEF v
<1>6. InPlace(v)
  BY <1>4, <1>5 DEF InPlace
<1> QED  BY <1>3, <1>6, FailsIs, Zenon DEF Succeeds

LEMMA StrategyOutcome ==
  ASSUME FewOnPartial, NoSecureOnPartial, OpaqueVideos, Typed, FBInv,
         DropsOnPartial, Strategy
  PROVE  Trials /\ (Fails \/ Succeeds)
<1>1. Trials
  BY StrategyTries DEF FBInv, Trials
<1> QED  BY <1>1, FullOutcome, CacheOutcome, LoadOutcome, MdpOutcome, VideoResult, Zenon
         DEF Strategy

----------------------------------------------------------------------------
(* What the framebuffer has of layers that are not the frame's.            *)

OnlyCache == CacheLayers = {} \/ Only(CacheLayers)

\* SurfaceFlinger draws the frame's layers, or these are all there is.
Drawing == FrameLayers = Indices(list) \ overlay
Keeping == Indices(list) \subseteq overlay /\ (FrameLayers = {} \/ Only(FrameLayers))

Contents ==
  /\ list \in Seq(Layer)
  /\ \A c \in Cells : target[c] \subseteq Indices(list)
  /\ phase = "idle" => OnlyCache
  /\ phase = "try" /\ ~geometry => OnlyCache
  /\ phase \in {"fallback", "compose"} => Drawing \/ Keeping
  /\ phase = "draw" => FrameLayers = {} \/ Only(FrameLayers)
  /\ phase \in {"fallback", "compose", "draw"} =>
       CacheLayers = {} \/ CacheLayers = FrameLayers

LEMMA InitContents == Init => Contents
BY DEF Init, Contents, OnlyCache, CacheLayers, NoCache

LEMMA BeginContents == Typed /\ Holding /\ Contents /\ Begin => Contents'
<1> SUFFICES ASSUME Typed, Holding, Contents, Begin  PROVE Contents'
  OBVIOUS
<1>1. PICK new \in setup.lists, geo \in BOOLEAN :
        \E dmg \in Damages(new) : NewList(new, geo, dmg)
  BY DEF Begin
<1>2. PICK dmg : NewList(new, geo, dmg)
  BY <1>1
<1>3. PICK connected, doable, full \in BOOLEAN : Prepare(connected, doable, full)
  BY DEF Begin
<1>4. phase = "idle" /\ mPrevModeOn' = mModeOn /\ OnlyCache
  BY DEF Begin, ResetRound, Contents
<1>5. list' \in Seq(Layer)
  <2>1. list' \in setup.lists /\ setup \in Setups
    BY <1>2 DEF NewList, Typed, TypeOK
  <2> QED  BY <2>1, MDPCompAssumption DEF Setup
<1>6. ~geometry' => list' = list /\ target' = target
  BY <1>2 DEF NewList
<1>7. \A c \in Cells : target'[c] \subseteq Indices(list')
  <2>1. CASE geometry'
    BY <1>2, <2>1 DEF NewList
  <2>2. CASE ~geometry'
    BY <1>6, <2>2 DEF Contents
  <2> QED  BY <2>1, <2>2
<1>8. ~geometry' /\ mCachedFrame' = mCachedFrame => OnlyCache'
  BY <1>4, <1>6 DEF OnlyCache, Only, CacheLayers, Seen, Above
<1>9. CASE Unsupported
  <2>1. /\ mCachedFrame' = NoCache /\ overlay' = {} /\ phase' = "fallback"
        /\ mCurrentFrame' = ResetFrame({})
    BY <1>9 DEF Unsupported
  <2>2. FrameLayers' = Indices(list') /\ CacheLayers' = {}
    BY <2>1 DEF FrameLayers, CacheLayers, ResetFrame, Reset, NoCache
  <2>3. Drawing'
    BY <2>1, <2>2 DEF Drawing
  <2> QED  BY <1>5, <1>7, <2>1, <2>2, <2>3 DEF Contents
<1>10. CASE AvoidNew(connected)
  <2>1. /\ AvoidsComposition(connected)
        /\ mCurrentFrame' = [ResetFrame({}) EXCEPT !.redraw = FALSE]
        /\ mCachedFrame' = updateCounts(ResetFrame({}))
        /\ overlay' = Indices(list') /\ phase' = "fallback"
    BY <1>10 DEF AvoidNew
  <2>2. ~geometry' /\ ~mModeOn /\ mCachedFrame.count = Len(list')
    BY <1>4, <2>1 DEF AvoidsComposition
  <2>3. Indices(list) \subseteq CacheLayers
    BY <1>4, <1>6, <2>2 DEF Holding, Kept, CacheIsAll
  <2>4. FrameLayers' = Indices(list') /\ CacheLayers' = Indices(list')
    BY <2>1 DEF FrameLayers, CacheLayers, ResetFrame, Reset, updateCounts
  <2>5. FrameLayers' = {} \/ Only(FrameLayers)'
    <3>1. CASE CacheLayers = {}
      BY <1>6, <2>2, <2>3, <2>4, <3>1
    <3>2. CASE Only(CacheLayers)
      <4>1. \A c \in Cells : target'[c] \subseteq Seen(c)'
        BY <1>6, <2>2, <3>2 DEF Only, Seen, Above
      <4> QED  BY <1>7, <2>4, <4>1 DEF Only
    <3> QED  BY <1>4, <3>1, <3>2 DEF OnlyCache
  <2>6. Keeping'
    BY <2>1, <2>5 DEF Keeping
  <2> QED  BY <1>5, <1>7, <2>1, <2>4, <2>6 DEF Contents
<1>11. CASE Divide(doable, full)
  <2>1. CASE ~doable
    <3>1. /\ phase' = "fallback" /\ overlay' = {}
          /\ mCachedFrame' = updateCounts(ResetFrame({}))
          /\ mCurrentFrame' = ResetFrame({})
      BY <1>11, <2>1 DEF Divide
    <3>2. FrameLayers' = Indices(list') /\ CacheLayers' = Indices(list')
      BY <3>1 DEF FrameLayers, CacheLayers, ResetFrame, Reset, updateCounts
    <3>3. Drawing'
      BY <3>1, <3>2 DEF Drawing
    <3> QED  BY <1>5, <1>7, <3>1, <3>2, <3>3 DEF Contents
  <2>2. CASE doable
    <3>1. phase' = "try" /\ mCachedFrame' = mCachedFrame
      BY <1>11, <2>2 DEF Divide
    <3> QED  BY <1>5, <1>7, <1>8, <3>1 DEF Contents
  <2> QED  BY <2>1, <2>2
<1> QED  BY <1>3, <1>9, <1>10, <1>11 DEF Prepare

LEMMA SuccessContents ==
  ASSUME NEW f, IsFrame(list, f), phase = "try", Contents, PostSucceeds(f)
  PROVE  Contents'
<1> DEFINE g == [f EXCEPT !.redraw = needsRedraw(f)]
<1>1. /\ g.fb = f.fb /\ g.drop = f.drop /\ g.redraw = needsRedraw(f)
      /\ f.fb \subseteq Indices(list)
  BY OtherRedraw, FrameOfList
<1>2. /\ mCurrentFrame' = g /\ phase' = "compose"
      /\ mCachedFrame' = [count |-> Len(list), fb |-> g.fb, drop |-> g.drop]
      /\ overlay' = OverlayLayers(g)
      /\ UNCHANGED <<list, target>>
  BY DEF PostSucceeds, input, display
<1> HIDE DEF g
<1>3. FrameLayers' = f.fb \ f.drop /\ CacheLayers' = f.fb \ f.drop
  BY <1>1, <1>2 DEF FrameLayers, CacheLayers
<1>4. CASE needsRedraw(f)
  <2>1. Drawing'
    BY <1>1, <1>2, <1>3, <1>4 DEF OverlayLayers, Drawing
  <2> QED  BY <1>2, <1>3, <2>1 DEF Contents
<1>5. CASE ~needsRedraw(f)
  <2>1. isSameFrame(f) /\ ~geometry
    BY <1>5 DEF needsRedraw
  <2>2. CacheLayers = f.fb \ f.drop
    BY <2>1 DEF isSameFrame, CacheLayers
  <2>3. CacheLayers = {} \/ Only(CacheLayers)
    BY <2>1 DEF Contents, OnlyCache
  <2>4. FrameLayers' = {} \/ Only(FrameLayers)'
    BY <1>2, <1>3, <2>2, <2>3 DEF Only, Seen, Above
  <2>5. Indices(list') \subseteq overlay'
    BY <1>1, <1>2, <1>5 DEF OverlayLayers
  <2>6. Keeping'
    BY <2>4, <2>5 DEF Keeping
  <2> QED  BY <1>2, <1>3, <2>6 DEF Contents
<1> QED  BY <1>4, <1>5

\* Steps that leave the layers and what is drawn of them.
LEMMA SameContents ==
  ASSUME UNCHANGED <<list, mCurrentFrame, mCachedFrame, target, overlay>>
  PROVE  /\ OnlyCache' <=> OnlyCache
         /\ Drawing' <=> Drawing
         /\ Keeping' <=> Keeping
         /\ Only(FrameLayers)' <=> Only(FrameLayers)
         /\ FrameLayers' = FrameLayers /\ CacheLayers' = CacheLayers
<1>1. FrameLayers' = FrameLayers /\ CacheLayers' = CacheLayers
  BY DEF FrameLayers, CacheLayers
<1>2. \A c : Seen(c)' = Seen(c)
  BY DEF Seen, Above
<1>3. /\ Only(FrameLayers)' <=> Only(FrameLayers)
      /\ Only(CacheLayers)' <=> Only(CacheLayers)
  BY <1>1, <1>2 DEF Only
<1> QED  BY <1>1, <1>3 DEF OnlyCache, Drawing, Keeping

LEMMA FailsContents ==
  ASSUME phase = "try", Contents, Fails
  PROVE  Contents'
<1>1. /\ phase' = "try" /\ mCachedFrame' = mCachedFrame
      /\ UNCHANGED <<list, geometry, target>>
  BY DEF Fails, Skip, NextStrategy, input, display
<1>2. OnlyCache' <=> OnlyCache
  BY <1>1 DEF OnlyCache, Only, CacheLayers, Seen, Above
<1> QED  BY <1>1, <1>2 DEF Contents

LEMMA RoundContents ==
  ASSUME Typed, Holding, Contents,
         Exhausted \/ Fallback \/ Compose \/ Draw \/ timeout_handler \/ UNCHANGED vars
  PROVE  Contents'
<1>1. CASE Exhausted
  <2>1. /\ phase = "try" /\ phase' = "fallback" /\ mCurrentFrame' = Fresh
        /\ UNCHANGED <<list, overlay, target>>
        /\ mCachedFrame' = [count |-> Len(list), fb |-> Indices(list), drop |-> {}]
    BY <1>1 DEF Exhausted, input, display
  <2>2. overlay = {}
    BY <2>1 DEF Holding, Kept, FrameHolds
  <2>3. FrameLayers' = Indices(list) /\ CacheLayers' = Indices(list)
    BY <2>1 DEF FrameLayers, CacheLayers, Fresh, Reset
  <2>4. Drawing'
    BY <2>1, <2>2, <2>3 DEF Drawing
  <2> QED  BY <2>1, <2>3, <2>4 DEF Contents
<1>2. CASE Fallback
  <2>1. /\ phase = "fallback" /\ phase' = "compose"
        /\ UNCHANGED <<list, mCurrentFrame, mCachedFrame, target, overlay>>
    BY <1>2 DEF Fallback, input, display
  <2> QED  BY <2>1, SameContents DEF Contents
<1>3. CASE Compose
  <2>1. /\ phase = "compose" /\ phase' = "draw" /\ ComposeFB
        /\ UNCHANGED <<list, mCurrentFrame, mCachedFrame, overlay>>
    BY <1>3 DEF Compose, input
  <2>2. FrameLayers' = FrameLayers /\ CacheLayers' = CacheLayers
    BY <2>1 DEF FrameLayers, CacheLayers
  <2>3. \A c : Seen(c)' = Seen(c) /\ Seen(c) \subseteq Indices(list)
    BY <2>1 DEF Seen, Above
  <2>4. Drawing \/ Keeping
    BY <2>1 DEF Contents
  <2>5. CASE Indices(list) \subseteq overlay
    <3>1. target' = target
      BY <2>1, <2>5 DEF ComposeFB
    <3>2. FrameLayers = {} \/ Only(FrameLayers)
      BY <2>4, <2>5 DEF Drawing, Keeping
    <3>3. FrameLayers' = {} \/ Only(FrameLayers)'
      BY <2>2, <2>3, <3>1, <3>2 DEF Only
    <3> QED  BY <2>1, <2>2, <3>1, <3>3 DEF Contents
  <2>6. CASE ~(Indices(list) \subseteq overlay)
    <3>1. target' = [c \in Cells |-> Seen(c) \ overlay]
      BY <2>1, <2>6 DEF ComposeFB
    <3>2. FrameLayers = Indices(list) \ overlay
      BY <2>4, <2>6 DEF Drawing, Keeping
    <3>3. \A c \in Cells : target'[c] \subseteq Seen(c) \cap FrameLayers
      BY <2>3, <3>1, <3>2
    <3>4. Only(FrameLayers)'
      BY <2>2, <2>3, <3>3 DEF Only
    <3>5. \A c \in Cells : target'[c] \subseteq Indices(list)
      BY <2>3, <3>3
    <3> QED  BY <2>1, <2>2, <3>4, <3>5 DEF Contents
  <2> QED  BY <2>5, <2>6
<1>4. CASE Draw
  <2>1. /\ phase = "draw" /\ phase' = "idle"
        /\ UNCHANGED <<list, mCurrentFrame, mCachedFrame, target, overlay>>
    BY <1>4 DEF Draw
  <2>2. OnlyCache
    BY <2>1 DEF Contents, OnlyCache
  <2> QED  BY <2>1, <2>2, SameContents DEF Contents
<1>5. CASE timeout_handler \/ UNCHANGED vars
  <2>1. UNCHANGED <<phase, geometry, list, mCurrentFrame, mCachedFrame, target, overlay>>
    BY <1>5 DEF timeout_handler, vars, input, display
  <2> QED  BY <2>1, SameContents DEF Contents
<1> QED  BY <1>1, <1>2, <1>3, <1>4, <1>5

----------------------------------------------------------------------------
(* What the region of interest leaves out.                                 *)

\* It has the damage of every layer, and of what it drops nothing is seen.
LEMMA RegionOfDamage ==
  ASSUME NEW ls \in Seq(Layer), NEW dmg,
         \A i \in Indices(ls) : dmg[i] \subseteq ls[i].frame,
         NEW p, p = generateROI(ls, dmg)
  PROVE  /\ \A i \in Indices(ls) : \A c \in dmg[i] : c \in p.roi
         /\ \A c \in p.roi : \A i \in p.drop :
              c \in ls[i].frame =>
                \E j \in Indices(ls) : j > i /\ ls[j].opaque /\ c \in ls[j].frame
<1> DEFINE cells == UNION {DirtyRect(ls[i], dmg[i]) : i \in Indices(ls)}
           rect == Hull(cells)
           visible == Visible(ls, rect)
           hidden  == {i \in Indices(ls) : visible[i] \cap ls[i].frame = {}}
<1>1. Len(ls) \in Nat /\ Indices(ls) = 1 .. Len(ls)
  BY IndicesFinite
<1>2. ASSUME NEW i \in Indices(ls), NEW c \in dmg[i]  PROVE c \in Cells /\ c \in rect
  <2>1. ls[i] \in Layer /\ c \in ls[i].frame
    BY <1>1
  <2>2. c \in Cells /\ c \in Int
    BY <2>1, FrameAssumption DEF Layer
  <2>3. c \in DirtyRect(ls[i], dmg[i])
    BY <1>2, <2>1 DEF DirtyRect
  <2>4. c \in cells
    BY <2>3
  <2> HIDE DEF cells
  <2> QED  BY <2>2, <2>4 DEF Hull
<1>3. \/ p.roi = Cells /\ p.drop = {}
      \/ p.roi = rect /\ p.drop = hidden
  <2> HIDE DEF cells
  <2>1. CASE rect = {}
    BY <2>1 DEF generateROI, cells
  <2>2. CASE rect # {}
    <3>1. p = validateAndApplyROI(ls, rect)
      BY <2>2 DEF generateROI, cells
    <3> HIDE DEF rect
    <3> QED  BY <3>1 DEF validateAndApplyROI
  <2> QED  BY <2>1, <2>2
<1> HIDE DEF rect
<1>4. ASSUME NEW c \in rect, NEW i \in hidden, c \in ls[i].frame
      PROVE  \E j \in Indices(ls) : j > i /\ ls[j].opaque /\ c \in ls[j].frame
  <2> SUFFICES ASSUME ~\E j \in Indices(ls) : j > i /\ ls[j].opaque /\ c \in ls[j].frame
               PROVE  FALSE
    OBVIOUS
  <2>1. i \in 0 .. Len(ls) /\ i \in 1 .. Len(ls) /\ visible[i] \cap ls[i].frame = {}
    BY <1>1
  <2>2. \A j \in i + 1 .. Len(ls) : ls[j].opaque => c \notin ls[j].frame
    BY <1>1, <2>1
  <2>3. c \in Visible(ls, rect)[i]
    BY <1>1, <2>1, <2>2, SeenBehind
  <2> QED  BY <1>4, <2>1, <2>3
<1> HIDE DEF hidden
<1> QED  BY <1>2, <1>3, <1>4

Region ==
  /\ DropsOnPartial
  /\ phase \in {"try", "fallback", "compose", "draw"} =>
       /\ \A i \in Indices(list) : \A c \in Cells : c \in damage[i] => c \in roi
       /\ \A c \in roi : \A i \in Seen(c) : i \notin mCurrentFrame.drop

LEMMA BeginRegion == Typed /\ Begin => Region'
<1> SUFFICES ASSUME Typed, Begin  PROVE Region'
  OBVIOUS
<1>1. /\ list' \in setup.lists /\ setup \in Setups /\ damage' \in Damages(list')
      /\ setup' = setup
  BY DEF Begin, NewList, ResetRound, Typed, TypeOK
<1>2. list' \in Seq(Layer)
  BY <1>1, MDPCompAssumption DEF Setup
<1>3. PICK connected, doable, full \in BOOLEAN : Prepare(connected, doable, full)
  BY DEF Begin
<1>4. CASE Unsupported \/ AvoidNew(connected)
  <2>1. roi' = Cells /\ mCurrentFrame'.drop = {}
    BY <1>4 DEF Unsupported, AvoidNew, ResetFrame, Reset
  <2> QED  BY <2>1 DEF Region, DropsOnPartial
<1>5. CASE Divide(doable, full)
  <2> DEFINE q == generateROI(list', damage')
             p == IF doable /\ canPartialUpdate THEN q
                  ELSE [roi |-> Cells, drop |-> {}]
  <2>1. mCurrentFrame' = ResetFrame(p.drop) /\ roi' = p.roi
    BY <1>5 DEF Divide
  <2>2. mCurrentFrame'.drop = p.drop
    BY <2>1 DEF ResetFrame, Reset
  <2>3. \A i \in Indices(list') : damage'[i] \subseteq list'[i].frame
    BY <1>1 DEF Damages
  <2>4. /\ \A i \in Indices(list') : \A c \in damage'[i] : c \in q.roi
        /\ \A c \in q.roi : \A i \in q.drop :
              c \in list'[i].frame =>
                \E j \in Indices(list') : j > i /\ list'[j].opaque /\ c \in list'[j].frame
    <3> DEFINE ls == list'
               dmg == damage'
               pp == generateROI(ls, dmg)
    <3>1. ls \in Seq(Layer) /\ \A i \in Indices(ls) : dmg[i] \subseteq ls[i].frame
      BY <1>2, <2>3
    <3>2. pp = generateROI(ls, dmg)
      OBVIOUS
    <3> HIDE DEF ls, dmg, pp
    <3>3. /\ \A i \in Indices(ls) : \A c \in dmg[i] : c \in pp.roi
          /\ \A c \in pp.roi : \A i \in pp.drop :
              c \in ls[i].frame =>
                \E j \in Indices(ls) : j > i /\ ls[j].opaque /\ c \in ls[j].frame
      BY <3>1, <3>2, RegionOfDamage
    <3> QED  BY <3>3 DEF ls, dmg, pp
  <2>5. (p = q /\ setup.partial) \/ p = [roi |-> Cells, drop |-> {}]
    BY DEF canPartialUpdate
  <2> HIDE DEF p, q
  <2>6. CASE p = q /\ setup.partial
    <3>1. \A i \in Indices(list') : \A c \in Cells : c \in damage'[i] => c \in roi'
      BY <2>1, <2>4, <2>6
    <3>2. \A c \in roi' : \A i \in Seen(c)' : i \notin mCurrentFrame'.drop
      <4> SUFFICES ASSUME NEW c \in roi', NEW i \in Seen(c)', i \in mCurrentFrame'.drop
                   PROVE  FALSE
        OBVIOUS
      <4>1. c \in list'[i].frame
        BY DEF Seen
      <4>2. PICK j \in Indices(list') : j > i /\ list'[j].opaque /\ c \in list'[j].frame
        BY <2>1, <2>2, <2>4, <2>6, <4>1
      <4> QED  BY <4>2 DEF Seen, Above
    <3> QED  BY <1>1, <2>6, <3>1, <3>2 DEF Region, DropsOnPartial
  <2>7. CASE p = [roi |-> Cells, drop |-> {}]
    <3>1. roi' = Cells /\ mCurrentFrame'.drop = {}
      BY <2>1, <2>2, <2>7
    <3> QED  BY <3>1 DEF Region, DropsOnPartial
  <2> QED  BY <2>5, <2>6, <2>7
<1> QED  BY <1>3, <1>4, <1>5 DEF Prepare

LEMMA SuccessRegion ==
  ASSUME NEW f, InPlace(f), phase = "try", Region, PostSucceeds(f)
  PROVE  Region'
<1> DEFINE r == needsRedraw(f)
           g == [f EXCEPT !.redraw = r]
<1>1. g.drop = f.drop
  BY DEF InPlace, Division
<1>2. mCurrentFrame' = g /\ UNCHANGED <<list, damage, roi>>
  BY DEF PostSucceeds, input
<1> HIDE DEF g
<1>3. mCurrentFrame'.drop = {} \/ mCurrentFrame'.drop = mCurrentFrame.drop
  BY <1>1, <1>2 DEF InPlace
<1>4. \A c : Seen(c)' = Seen(c)
  BY <1>2 DEF Seen, Above
<1>5. phase' # "try"
  BY DEF PostSucceeds
<1> QED  BY <1>2, <1>3, <1>4, <1>5 DEF Region, DropsOnPartial

LEMMA FailsRegion ==
  ASSUME phase = "try", Region, Fails
  PROVE  Region'
<1>1. CASE Skip
  <2>1. UNCHANGED <<setup, phase, list, damage, roi, mCurrentFrame>>
    BY <1>1 DEF Skip, input
  <2>2. \A c : Seen(c)' = Seen(c)
    BY <2>1 DEF Seen, Above
  <2> QED  BY <2>1, <2>2 DEF Region, DropsOnPartial
<1>2. ASSUME NEW fbUpdate, NextStrategy(fbUpdate)  PROVE Region'
  <2>1. roi' = Cells /\ mCurrentFrame'.drop = {}
    BY <1>2 DEF NextStrategy, Fresh, Reset
  <2> QED  BY <2>1 DEF Region, DropsOnPartial
<1> QED  BY <1>1, <1>2, Zenon DEF Fails

LEMMA RoundRegion ==
  ASSUME Region, Exhausted \/ Fallback \/ Compose \/ Draw \/ timeout_handler \/ UNCHANGED vars
  PROVE  Region'
<1>1. CASE Exhausted
  <2>1. roi' = Cells /\ mCurrentFrame'.drop = {}
    BY <1>1 DEF Exhausted, Fresh, Reset
  <2> QED  BY <2>1 DEF Region, DropsOnPartial
<1>2. CASE Draw \/ timeout_handler
  <2>1. phase' = "idle"
    BY <1>2 DEF Draw, timeout_handler
  <2> QED  BY <2>1 DEF Region, DropsOnPartial
<1>3. CASE Fallback \/ Compose \/ UNCHANGED vars
  <2>1. UNCHANGED <<setup, list, damage, roi, mCurrentFrame>>
        /\ (phase' \in {"compose", "draw"} => phase \in {"fallback", "compose", "draw"})
        /\ (phase' = "try" => phase = "try") /\ (phase' = "fallback" => phase = "fallback")
    BY <1>3 DEF Fallback, Compose, vars, input
  <2>2. \A c : Seen(c)' = Seen(c)
    BY <2>1 DEF Seen, Above
  <2> QED  BY <2>1, <2>2 DEF Region, DropsOnPartial
<1> QED  BY <1>1, <1>2, <1>3

----------------------------------------------------------------------------
(* The picture on the panel.                                               *)

Configured ==
  /\ phase = "fallback" => FrameLayers = Indices(list)
  /\ phase \in {"compose", "draw"} => ShownMixed \/ ShownWhole

LEMMA BeginConfigured == Begin => Configured'
<1> SUFFICES ASSUME Begin  PROVE Configured'
  OBVIOUS
<1>1. PICK connected, doable, full \in BOOLEAN : Prepare(connected, doable, full)
  BY DEF Begin
<1>2. phase' \in {"try", "fallback"}
  BY <1>1 DEF Prepare, Unsupported, AvoidNew, Divide
<1>3. ASSUME phase' = "fallback"  PROVE FrameLayers' = Indices(list')
  <2>1. mCurrentFrame'.fb = Indices(list') /\ mCurrentFrame'.drop = {}
    BY <1>1, <1>3 DEF Prepare, Unsupported, AvoidNew, Divide, ResetFrame, Reset
  <2> QED  BY <2>1 DEF FrameLayers
<1> QED  BY <1>2, <1>3 DEF Configured

LEMMA SuccessConfigured ==
  ASSUME NEW f, InPlace(f), PostSucceeds(f), FBInv'
  PROVE  Configured'
<1> DEFINE r == needsRedraw(f)
           g == [f EXCEPT !.redraw = r]
<1>1. g.drop = f.drop /\ g.fb = f.fb /\ g.fbZ = f.fbZ /\ f.fbZ \in Int
  BY DEF InPlace, Division
<1>2. /\ mCurrentFrame' = g /\ UNCHANGED <<list, roi>>
      /\ phase' = "compose" /\ mModeOn' = TRUE
      /\ f.fbZ >= 0 => mFBUpdate' = FBPrepared(f)
  BY DEF PostSucceeds, input
<1> HIDE DEF g
<1>3. InOrder(list', mCurrentFrame')
  BY <1>1, <1>2 DEF InPlace, InOrder, Placed, Parted, Pipes
<1>4. mFBUpdate.on' <=> mCurrentFrame'.fbZ >= 0
  <2>1. \/ mFBUpdate.on' = TRUE /\ mCurrentFrame'.fbZ >= 0
        \/ mFBUpdate.on' = FALSE /\ ~(mCurrentFrame'.fbZ >= 0)
    BY <1>2, Zenon DEF FBInv
  <2> QED  BY <2>1, Zenon
<1>5. FBPrepared(mCurrentFrame)' = FBPrepared(f)
  BY <1>1, <1>2 DEF FBPrepared, getUpdatingFBRect
<1>6. ShownMixed'
  BY <1>1, <1>2, <1>3, <1>4, <1>5 DEF ShownMixed
<1> QED  BY <1>2, <1>6 DEF Configured

LEMMA FailsConfigured ==
  ASSUME phase = "try", Fails
  PROVE  Configured'
<1>1. phase' = "try"
  BY DEF Fails, Skip, NextStrategy
<1> QED  BY <1>1 DEF Configured

LEMMA RoundConfigured ==
  ASSUME FBInv, Configured,
         Exhausted \/ Fallback \/ Compose \/ Draw \/ timeout_handler \/ UNCHANGED vars
  PROVE  Configured'
<1>1. CASE Exhausted
  <2>1. phase' = "fallback" /\ FrameLayers' = Indices(list')
    BY <1>1 DEF Exhausted, FrameLayers, Fresh, Reset, input
  <2> QED  BY <2>1 DEF Configured
<1>2. CASE Fallback
  <2>1. /\ phase = "fallback" /\ phase' = "compose"
        /\ mFBUpdate' = [on |-> TRUE, z |-> 0, rect |-> Cells]
        /\ UNCHANGED <<list, mCurrentFrame, mModeOn>>
    BY <1>2 DEF Fallback, input, modes
  <2>2. FrameLayers' = Indices(list') /\ ~mModeOn'
    BY <2>1 DEF Configured, FBInv, FrameLayers
  <2>3. ShownWhole'
    BY <2>1, <2>2 DEF ShownWhole
  <2> QED  BY <2>1, <2>3 DEF Configured
<1>3. CASE Draw \/ timeout_handler
  <2>1. phase' = "idle"
    BY <1>3 DEF Draw, timeout_handler
  <2> QED  BY <2>1 DEF Configured
<1>4. CASE Compose \/ UNCHANGED vars
  <2>1. /\ UNCHANGED <<list, roi, mCurrentFrame, mModeOn, mFBUpdate>>
        /\ phase' = phase \/ (phase = "compose" /\ phase' = "draw")
    BY <1>4 DEF Compose, vars, input, modes
  <2>2. FrameLayers' = FrameLayers
    BY <2>1 DEF FrameLayers
  <2>3. ShownWhole' <=> ShownWhole
    BY <2>1, <2>2 DEF ShownWhole
  <2>4. ShownMixed' <=> ShownMixed
    BY <2>1 DEF ShownMixed, InOrder, Placed, Parted, Pipes, FBPrepared, getUpdatingFBRect
  <2> QED  BY <2>1, <2>2, <2>3, <2>4 DEF Configured
<1> QED  BY <1>1, <1>2, <1>3, <1>4

\* All of the region sent is right, and the rest needs no other picture.
LEMMA DrawRight ==
  ASSUME Typed, Holding, Contents, Region, Configured, wrong = {}, Draw
  PROVE  wrong' = {}
<1>1. phase = "draw"
  BY DEF Draw
<1>2. Shown
  <2>1. list \in Seq(Layer) /\ (FrameLayers = {} \/ Only(FrameLayers))
        /\ \A c \in Cells : target[c] \subseteq Indices(list)
    BY <1>1 DEF Contents
  <2>2. FrameLayers \subseteq Indices(list) /\ roi \subseteq Cells
    BY <1>1 DEF Typed, TypeOK, FrameLayers
  <2>3. \A i \in FrameLayers : Current(i)
    BY <1>1 DEF Holding, Kept, FrameHolds
  <2>4. \A c \in roi : \A i \in Seen(c) : i \notin mCurrentFrame.drop
    BY <1>1 DEF Region
  <2> QED  BY <2>1, <2>2, <2>3, <2>4 DEF Shown
<1>3. \A c \in roi : Right(c)
  BY <1>1, <1>2, MixedRight, WholeRight DEF Configured
<1>4. \A c \in Cells \ roi : \A i \in Seen(c) : c \notin damage[i]
  <2>1. \A i \in Indices(list) : \A c \in Cells : c \in damage[i] => c \in roi
    BY <1>1 DEF Region
  <2> QED  BY <2>1 DEF Seen
<1>5. wrong' = {c \in roi : ~Right(c)}
               \cup {c \in Cells \ roi :
                       c \in wrong \/ \E i \in Seen(c) : c \in damage[i]}
  BY DEF Draw
<1> QED  BY <1>3, <1>4, <1>5

LEMMA SameWrong == ~Draw /\ [Next]_vars => wrong' = wrong
BY DEF Next, Strategy, timeout_handler, Begin, Paused, ResetRound, fullMDPComp,
       cacheBasedComp, loadBasedComp, mdpOnlyLayersComp, videoOnlyComp, PostSucceeds,
       PostFails, GiveUp, Skip, NextStrategy, Exhausted, Fallback, Compose, DrawPaused,
       display, vars

PictureInv == wrong = {} /\ Contents /\ Region /\ Configured

\* What the lists of the displays are.
PlainLists == SomeLayerDrawn /\ NoSecureOnPartial /\ FewOnPartial /\ OpaqueVideos

Rounds == Typed /\ Holding /\ FBInv

LEMMA NextRounds == NeverPaused /\ PlainLists /\ Rounds /\ [Next]_vars => Rounds'
BY StepTyped, StepHolding, NextFB DEF Rounds, PlainLists

LEMMA NextPicture ==
  ASSUME NeverPaused, PlainLists, Rounds, PictureInv, [Next]_vars
  PROVE  PictureInv'
<1>1. /\ Typed /\ Holding /\ FBInv /\ FBInv'
      /\ wrong = {} /\ Contents /\ Region /\ Configured
  BY NextRounds DEF Rounds, PictureInv
<1>2. wrong' = {}
  BY <1>1, DrawRight, SameWrong
<1>3. CASE Strategy
  <2>1. phase = "try" /\ (Fails \/ Succeeds)
    BY <1>1, <1>3, StrategyOutcome DEF PlainLists, Trials, Region
  <2>2. CASE Fails
    BY <1>1, <1>2, <2>1, <2>2, FailsContents, FailsRegion, FailsConfigured DEF PictureInv
  <2>3. ASSUME NEW f, InPlace(f), PostSucceeds(f)  PROVE PictureInv'
    <3>1. IsFrame(list, f)
      <4>1. f \in Frames(list, Int \cup BOOLEAN)
        BY <2>3 DEF InPlace, Division, Frames
      <4> QED  BY <4>1 DEF IsFrame
    <3>2. Contents'
      BY <1>1, <2>1, <2>3, <3>1, SuccessContents
    <3>3. Region'
      BY <1>1, <2>1, <2>3, SuccessRegion
    <3>4. Configured'
      BY <1>1, <2>3, SuccessConfigured
    <3> QED  BY <1>2, <3>2, <3>3, <3>4 DEF PictureInv
  <2> QED  BY <2>1, <2>2, <2>3, Zenon DEF Succeeds
<1>4. CASE Begin
  BY <1>1, <1>2, <1>4, BeginContents, BeginRegion, BeginConfigured DEF PictureInv
<1>5. CASE Exhausted \/ Fallback \/ Compose \/ Draw \/ timeout_handler \/ UNCHANGED vars
  BY <1>1, <1>2, <1>5, RoundContents, RoundRegion, RoundConfigured DEF PictureInv
<1>6. ~Paused /\ ~DrawPaused
  BY <1>1 DEF NeverPaused, Typed, TypeOK, Paused, Holding, DrawPaused
<1> QED  BY <1>3, <1>4, <1>5, <1>6 DEF Next, Strategy

\* On displays that are never paused and lists the counts of the code are
\* right for: whatever strategies succeed, whatever is kept of the framebuffer
\* and whatever the region of interest leaves out, after hwc_set every cell of
\* the panel shows the layers wanted there, in their order.
THEOREM PanelRight ==
  ASSUME NeverPaused, PlainLists PROVE Spec => []RightPicture
<1>1. Init => Rounds /\ PictureInv
  <2>1. Init => Rounds
    BY InitTyped, InitHolding DEF Init, Rounds, FBInv
  <2>2. Init => PictureInv
    BY InitContents DEF Init, PictureInv, Region, DropsOnPartial, Configured
  <2> QED  BY <2>1, <2>2
<1>2. Rounds /\ PictureInv /\ [Next]_vars => (Rounds /\ PictureInv)'
  BY NextRounds, NextPicture
<1>3. PictureInv => RightPicture
  BY DEF PictureInv, RightPicture
<1> QED  BY <1>1, <1>2, <1>3, PTL DEF Spec
=============================================================================
