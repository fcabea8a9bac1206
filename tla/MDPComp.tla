------------------------------- MODULE MDPComp -------------------------------
(***************************************************************************)
(* The composition of one display: the strategies MDPComp::prepare tries   *)
(* in turn, the framebuffer pipe of FBUpdate, the cache that lets the GPU  *)
(* keep the framebuffer of the last frame, partial update, the fallback    *)
(* when idle, and what ends on the screen.                                 *)
(*                                                                         *)
(* A round is Prepare (which may already decide), a step for each strategy *)
(* that is tried, the framebuffer alone if none succeeds (Fallback), the   *)
(* GPU's drawing by SurfaceFlinger (Compose), and hwc_set (Draw).          *)
(*                                                                         *)
(* target[c] are the layers drawn at cell c of the framebuffer, old those  *)
(* that were updated since; wrong are the cells of the panel whose picture *)
(* is not that of the current layers.                                      *)
(***************************************************************************)
EXTENDS FrameInfo

CONSTANTS
  MaxLayers,   \* MAX_NUM_APP_LAYERS
  Setups       \* the displays considered

\* A display: the external one or the primary, with a panel that takes
\* partial updates or not, composed while it is paused or not; and the lists
\* of layers SurfaceFlinger may give.
Setup(lists) == [external : BOOLEAN, partial : BOOLEAN, pauses : BOOLEAN,
                 lists : SUBSET lists]

ASSUME MDPCompAssumption ==
  /\ MaxLayers \in Nat
  /\ Setups \subseteq Setup(Seq(Layer))

MAX_SEC_LAYERS == 1

VARIABLES
  setup,                 \* the display, the same for ever
  phase,
  todo,                  \* the strategies not tried yet
  refused,               \* the frames that failed since the round began
  list, geometry,        \* the layers; HWC_GEOMETRY_CHANGED
  damage,                \* surfaceDamage of each layer
  mCurrentFrame,
  mCachedFrame,          \* the flags of the last frame, and its layer count
  mModeOn, mPrevModeOn,
  overlay,               \* layers whose compositionType is HWC_OVERLAY
  roi,                   \* listStats.lRoi
  mFBUpdate,             \* mModeOn of FBUpdate, the stage and the region
  sIdleFallBack, sHandleTimeout,
  target, old, wrong

NoDamage == [i \in Indices(list) |-> {}]

input   == <<setup, list, geometry, damage>>
modes   == <<mModeOn, mPrevModeOn>>
idle    == <<sIdleFallBack, sHandleTimeout>>
display == <<target, old, wrong>>
vars    == <<input, phase, todo, refused, mCurrentFrame, mCachedFrame, modes,
             overlay, roi, mFBUpdate, idle, display>>

Fresh    == Reset(list, {})
NoCache  == [count |-> 0, fb |-> {}, drop |-> {}]
FBOff    == [on |-> FALSE, z |-> 0, rect |-> {}]
updating == {i \in Indices(list) : damage[i] # {}}

Init ==
  /\ setup \in Setups
  /\ phase = "idle" /\ todo = <<>> /\ refused = {}
  /\ list = <<>> /\ geometry = FALSE /\ damage = <<>>
  /\ mCurrentFrame = Reset(<<>>, {}) /\ mCachedFrame = NoCache
  /\ mModeOn = FALSE /\ mPrevModeOn = FALSE
  /\ overlay = {} /\ roi = Cells /\ mFBUpdate = FBOff
  /\ sIdleFallBack = FALSE /\ sHandleTimeout = FALSE
  /\ target = [c \in Cells |-> {}] /\ old = {} /\ wrong = {}

----------------------------------------------------------------------------
(* Between frames.                                                         *)

\* The idle timer: only a frame with something to gain asks for it.
timeout_handler ==
  /\ phase = "idle"
  /\ sHandleTimeout
  /\ sIdleFallBack' = TRUE
  /\ UNCHANGED <<input, phase, todo, refused, mCurrentFrame, mCachedFrame, modes,
                 overlay, roi, mFBUpdate, sHandleTimeout, display>>

----------------------------------------------------------------------------
(* MDPComp::prepare up to the strategies.                                  *)

updateCounts(f) == [count |-> Len(list'), fb |-> f.fb, drop |-> f.drop]

AvoidsComposition(connected) ==
  /\ ~setup.external /\ ~connected /\ ~mPrevModeOn'
  /\ mCachedFrame.count = Len(list')
  /\ ~geometry' /\ ~isSkipPresent(list')
  /\ \A i \in Indices(list') : damage'[i] = {}

canPartialUpdate ==
  setup.partial /\ ~isSkipPresent(list') /\ ~geometry' /\ ~setup.external

\* What SurfaceFlinger gives: a new list is a new geometry, and what it drew
\* before then has no meaning.
NewList(new, geo, dmg) ==
  /\ list' = new /\ geometry' = geo /\ damage' = dmg
  /\ new # list => geo
  /\ old' = IF geo THEN Indices(new)
                   ELSE old \cup {i \in Indices(new) : dmg[i] # {}}
  /\ target' = IF geo THEN [c \in Cells |-> Indices(new)] ELSE target

\* Mutant: the framebuffer keeps its stage from the last round.
ResetButFB ==
  /\ sHandleTimeout' = FALSE
  /\ mPrevModeOn' = mModeOn
  /\ mModeOn' = FALSE
  /\ UNCHANGED <<setup, mFBUpdate, sIdleFallBack, wrong>>

\* hwc_prepare resets every object of the display.
ResetRound ==
  /\ sHandleTimeout' = FALSE
  /\ mPrevModeOn' = mModeOn
  /\ mModeOn' = FALSE
  /\ mFBUpdate' = FBOff
  /\ UNCHANGED <<setup, sIdleFallBack, wrong>>

Strategies(full) ==
  LET partial == IF isSkipPresent(list') \/ geometry'
                 THEN <<"load", "cache">> ELSE <<"cache", "load">>
      rest    == <<"mdp", "mdpSecure", "video", "videoSecure">>
      idling  == /\ sIdleFallBack /\ Len(list') # 1
                 /\ ~isSecureRGBPresent(list')
  IN  IF full /\ ~idling THEN <<"full">> \o partial \o rest ELSE rest

ResetFrame(drop) == Reset(list', drop)

\* Too many layers for the tables of a frame.
Unsupported ==
  /\ Len(list') > MaxLayers
  /\ mCurrentFrame' = ResetFrame({}) /\ mCachedFrame' = NoCache
  /\ overlay' = {} /\ roi' = Cells
  /\ phase' = "fallback" /\ todo' = <<>>

\* The framebuffer of the last round shows the same.
AvoidNew(connected) ==
  /\ ~(Len(list') > MaxLayers) /\ AvoidsComposition(connected)
  /\ mCurrentFrame' = [ResetFrame({}) EXCEPT !.redraw = FALSE]
  /\ mCachedFrame' = updateCounts(ResetFrame({}))
  /\ overlay' = Indices(list') /\ roi' = Cells
  /\ phase' = "fallback" /\ todo' = <<>>

\* The strategies that isFrameDoable and tryFullFrame leave.
Divide(doable, full) ==
  LET p == IF doable /\ canPartialUpdate
           THEN generateROI(list', damage')
           ELSE [roi |-> Cells, drop |-> {}]
  IN
  /\ mCurrentFrame' = ResetFrame(p.drop)
  /\ overlay' = {} /\ roi' = p.roi
  /\ \/ /\ doable
        /\ phase' = "try" /\ todo' = Strategies(full)
        /\ UNCHANGED mCachedFrame
     \/ /\ ~doable
        /\ phase' = "fallback" /\ todo' = <<>>
        /\ mCachedFrame' = updateCounts(ResetFrame({}))

Prepare(connected, doable, full) ==
  \/ Unsupported
  \/ AvoidNew(connected)
  \/ /\ ~(Len(list') > MaxLayers) /\ ~AvoidsComposition(connected)
     /\ Divide(doable, full)

Damages(new) ==
  {d \in [Indices(new) -> SUBSET Cells] :
     \A i \in Indices(new) : d[i] \subseteq new[i].frame}

Begin ==
  /\ phase = "idle"
  /\ \E new \in setup.lists, geo \in BOOLEAN :
       \E dmg \in Damages(new) : NewList(new, geo, dmg)
  /\ ResetRound
  /\ \E connected, doable, full \in BOOLEAN : Prepare(connected, doable, full)
  /\ UNCHANGED refused

\* A paused display is not prepared.  SurfaceFlinger draws the layers of the
\* primary, but the external one's are marked so that it does not.
Paused ==
  /\ phase = "idle" /\ setup.pauses
  /\ \E new \in setup.lists, geo \in BOOLEAN :
       \E dmg \in Damages(new) : NewList(new, geo, dmg)
  /\ ResetRound
  /\ overlay' = IF setup.external THEN Indices(list') ELSE {}
  /\ phase' = "paused"
  /\ UNCHANGED <<todo, refused, mCurrentFrame, mCachedFrame, roi>>

----------------------------------------------------------------------------
(* The strategies.  Each tries a division of the layers (Post); when that  *)
(* fails, or the strategy does not apply to the list, the next one goes.   *)

\* setRedraw: the framebuffer can stay if it has the same layers.
isSameFrame(f) ==
  /\ mCachedFrame.count = Len(list)
  /\ mCachedFrame.fb = f.fb /\ mCachedFrame.drop = f.drop
  /\ f.fb \cap updating = {}

\* Mutant: a change of what is dropped does not matter.
NeedsRedrawNoDrop(f) ==
  \/ mCachedFrame.count # Len(list) \/ mCachedFrame.fb # f.fb
  \/ f.fb \cap updating # {}
  \/ geometry \/ isSkipPresent(list)

needsRedraw(f) == ~isSameFrame(f) \/ geometry \/ isSkipPresent(list)

FBPrepared(f) == [on |-> TRUE, z |-> f.fbZ, rect |-> getUpdatingFBRect(list, f, roi)]

\* setMDPCompLayerFlags: layers with a pipe, and those of the framebuffer
\* that need not be drawn.
OverlayLayers(f) ==
  (Indices(list) \ f.fb) \cup (IF f.redraw THEN f.fb \cap f.drop ELSE f.fb)

\* What was refused is refused again: the allocation of pipes, which starts
\* anew with each strategy, and the driver answer the same within a round.
PostSucceeds(f) ==
  LET g == [f EXCEPT !.redraw = needsRedraw(f)]
  IN  /\ resourceCheck(f) /\ <<f, roi>> \notin refused
      /\ mFBUpdate' = IF f.fbZ >= 0 THEN FBPrepared(f) ELSE mFBUpdate
      /\ mCurrentFrame' = g
      /\ mCachedFrame' = [count |-> Len(list), fb |-> g.fb, drop |-> g.drop]
      /\ mModeOn' = TRUE
      /\ overlay' = OverlayLayers(g)
      /\ phase' = "compose" /\ todo' = <<>> /\ refused' = {}
      /\ UNCHANGED <<input, mPrevModeOn, roi, idle, display>>

\* MDPComp::reset(ctx): nothing of the attempt stays, but FBUpdate.
NextStrategy(fbUpdate) ==
  /\ mCurrentFrame' = Fresh /\ roi' = Cells
  /\ mFBUpdate' = fbUpdate
  /\ todo' = Tail(todo)
  /\ UNCHANGED <<input, phase, mCachedFrame, modes, overlay, idle, display>>

\* Resources, the framebuffer's pipe, those of the layers, or the driver.
PostFails(f) ==
  /\ \/ NextStrategy(mFBUpdate)
     \/ /\ resourceCheck(f) /\ f.fbZ >= 0
        /\ \E on \in BOOLEAN : NextStrategy([FBPrepared(f) EXCEPT !.on = on])
  /\ refused' = refused \cup {<<f, roi>>}

\* A strategy that gives up when it has begun to divide the layers.
GiveUp == NextStrategy(mFBUpdate) /\ UNCHANGED refused

\* A strategy that gives up before it touches the frame.
Skip ==
  /\ todo' = Tail(todo)
  /\ UNCHANGED <<input, phase, refused, mCurrentFrame, mCachedFrame, modes,
                 overlay, roi, mFBUpdate, idle, display>>

Trying(strategy) == phase = "try" /\ todo # <<>> /\ Head(todo) = strategy

Supported(f) == \A i \in Indices(list) \ f.drop : list[i].supported

fullMDPComp ==
  /\ Trying("full")
  /\ LET f == fullMDP(list, mCurrentFrame)
         applies == /\ setup.external => Len(list) <= MAX_SEC_LAYERS
                    /\ Supported(mCurrentFrame)
     IN  \/ applies /\ (PostSucceeds(f) \/ PostFails(f))
         \/ ~applies /\ Skip

cacheBasedComp ==
  /\ Trying("cache")
  /\ LET f == updateLayerCache(list, Reset(list, mCurrentFrame.drop), updating)
         g == updateSecureRGB(list, updateYUV(list, f, FALSE))
         m == Marked(list, g)
         applies == /\ \A i \in Indices(list) \ f.fb : list[i].supported
                    /\ CanMark(list, g)
                    /\ setup.external => m.mdpCount <= MAX_SEC_LAYERS
     IN  \/ applies /\ (PostSucceeds(m) \/ PostFails(m))
         \/ ~applies /\ GiveUp

\* The layers below the first unsupported one that fit the stages, and at
\* least two for the framebuffer; fewer and fewer until it succeeds.  Nothing
\* is dropped when it is tried: either the frame takes no partial update, or
\* cacheBasedComp failed before.
LoadBatch(stages) ==
  LET below == {i \in Indices(list) : \A j \in 1 .. i : list[j].supported}
      least(a, b) == IF a < b THEN a ELSE b
  IN  least(least(Cardinality(below), stages - 1), Len(list) - 2)

LoadFrame(size) ==
  [Fresh EXCEPT !.fb = @ \ 1 .. size, !.fbZ = size,
                !.fbCount = @ - size, !.mdpCount = size]

loadBasedComp(stages) ==
  /\ Trying("load")
  /\ LET most == LoadBatch(stages)
         applies == /\ ~setup.external
                    /\ ~isSecurePresent(list) /\ ~isYuvPresent(list)
                    /\ most >= 1
     IN  \/ /\ applies
            /\ \/ \E size \in 1 .. most : PostSucceeds(LoadFrame(size))
               \/ PostFails(LoadFrame(1))
         \/ ~applies /\ Skip

mdpOnlyLayersComp(secureOnly) ==
  /\ Trying(IF secureOnly THEN "mdpSecure" ELSE "mdp")
  /\ LET r == Reset(list, mCurrentFrame.drop)
         f == [r EXCEPT !.fbCount = @ - dropCount(r)]
         g == updateSecureRGB(list, updateYUV(list, f, secureOnly))
         m == Marked(list, g)
         applies == /\ secureOnly => isSecurePresent(list)
                    /\ g.mdpCount # 0
                    /\ CanMark(list, g)
     IN  \/ applies /\ (PostSucceeds(m) \/ PostFails(m))
         \/ ~applies /\ GiveUp

videoOnlyComp(secureOnly) ==
  /\ Trying(IF secureOnly THEN "videoSecure" ELSE "video")
  /\ LET r == Reset(list, mCurrentFrame.drop)
         f == updateYUV(list, [r EXCEPT !.fbCount = @ - dropCount(r)], secureOnly)
         g == [f EXCEPT !.fbZ = IF f.fbCount # 0 THEN f.mdpCount ELSE @]
         applies == /\ isYuvPresent(list) /\ f.mdpCount # 0
                    /\ secureOnly => isSecurePresent(list)
     IN  \/ applies /\ (PostSucceeds(g) \/ PostFails(g))
         \/ ~applies /\ GiveUp

\* No strategy succeeded.
Exhausted ==
  /\ phase = "try" /\ todo = <<>>
  /\ mCurrentFrame' = Fresh /\ roi' = Cells
  /\ mCachedFrame' = [count |-> Len(list), fb |-> Indices(list), drop |-> {}]
  /\ phase' = "fallback" /\ refused' = {}
  /\ UNCHANGED <<input, todo, modes, overlay, mFBUpdate, idle, display>>

\* The framebuffer alone, on the lowest stage.
Fallback ==
  /\ phase = "fallback"
  /\ mFBUpdate' = [on |-> TRUE, z |-> 0, rect |-> Cells]
  /\ phase' = "compose"
  /\ UNCHANGED <<input, todo, refused, mCurrentFrame, mCachedFrame, modes, overlay, roi,
                 idle, display>>

----------------------------------------------------------------------------
(* SurfaceFlinger and hwc_set.                                             *)

Above(i, c)   == {j \in Indices(list) : j > i /\ list[j].opaque /\ c \in list[j].frame}
Seen(c)       == {i \in Indices(list) : c \in list[i].frame /\ Above(i, c) = {}}

\* The GPU draws the framebuffer again if any layer is left to it; opaque
\* layers that have a pipe punch a hole in it (HWC_HINT_CLEAR_FB).
ComposeFB ==
  IF Indices(list) \subseteq overlay THEN UNCHANGED <<target, old>>
  ELSE /\ target' = [c \in Cells |-> Seen(c) \ overlay]
       /\ old' = {}

Compose ==
  /\ phase = "compose"
  /\ ComposeFB
  /\ phase' = "draw"
  /\ UNCHANGED <<input, todo, refused, mCurrentFrame, mCachedFrame, modes, overlay, roi,
                 mFBUpdate, idle, wrong>>

\* The mixer blends the stages: pipes of layers, and the framebuffer with
\* the layers drawn in it.
Stages(c) ==
  LET f == mCurrentFrame
      pipes == IF mModeOn
               THEN {<<zOrder(f, i), i>> : i \in Indices(list) \ f.fb} ELSE {}
      fb    == IF mFBUpdate.on /\ c \in mFBUpdate.rect
               THEN {<<mFBUpdate.z, i>> : i \in target[c]} ELSE {}
  IN  {s \in pipes : c \in list[s[2]].frame} \cup fb

Over(s, t) == s[1] > t[1] \/ (s[1] = t[1] /\ s[2] > t[2])

Picture(c) ==
  {s \in Stages(c) : \A t \in Stages(c) : Over(t, s) => ~list[t[2]].opaque}

Right(c) ==
  /\ {s[2] : s \in Picture(c)} = Seen(c)
  /\ Cardinality(Picture(c)) = Cardinality(Seen(c))
  /\ \A s, t \in Picture(c) : Over(s, t) <=> s[2] > t[2]
  /\ \A s \in Picture(c) : s[2] \in old => mModeOn /\ s[2] \notin mCurrentFrame.fb

\* Only the region of interest is sent to the panel.
Draw ==
  /\ phase = "draw"
  /\ wrong' = {c \in roi : ~Right(c)}
              \cup {c \in Cells \ roi :
                      c \in wrong \/ \E i \in Seen(c) : c \in damage[i]}
  /\ sHandleTimeout' =
       (/\ mModeOn /\ ~sIdleFallBack
        /\ ~(mCurrentFrame.mdpCount = 1 /\ mCurrentFrame.fbCount = 0))
  /\ sIdleFallBack' = FALSE
  /\ phase' = "idle" /\ damage' = NoDamage
  /\ UNCHANGED <<setup, list, geometry, todo, refused, mCurrentFrame, mCachedFrame, modes, overlay, roi,
                 mFBUpdate, target, old>>

DrawPaused ==
  /\ phase = "paused"
  /\ ComposeFB
  /\ sIdleFallBack' = FALSE
  /\ phase' = "idle" /\ damage' = NoDamage
  /\ UNCHANGED <<setup, list, geometry, todo, refused, mCurrentFrame, mCachedFrame, modes, overlay, roi,
                 mFBUpdate, sHandleTimeout, wrong>>

Next ==
  \/ timeout_handler \/ Begin \/ Paused
  \/ fullMDPComp \/ cacheBasedComp
  \/ \E stages \in 1 .. MaxPipes : loadBasedComp(stages)
  \/ \E secureOnly \in BOOLEAN : mdpOnlyLayersComp(secureOnly)
  \/ \E secureOnly \in BOOLEAN : videoOnlyComp(secureOnly)
  \/ Exhausted \/ Fallback
  \/ Compose \/ Draw \/ DrawPaused

Spec == Init /\ [][Next]_vars

----------------------------------------------------------------------------
(* Properties.                                                             *)

\* The frame of a round divides the layers of its list; between rounds it
\* is that of the last round prepared, whatever the list is now.
TypeOK ==
  /\ setup \in Setups
  /\ phase \in {"idle", "try", "fallback", "compose", "draw", "paused"}
  /\ phase \notin {"idle", "paused"} =>
       /\ mCurrentFrame.fb \subseteq Indices(list)
       /\ mCurrentFrame.drop \subseteq Indices(list)
  /\ overlay \subseteq Indices(list)
  /\ roi \subseteq Cells /\ wrong \subseteq Cells
  /\ mModeOn \in BOOLEAN /\ mPrevModeOn \in BOOLEAN
  /\ sIdleFallBack \in BOOLEAN /\ sHandleTimeout \in BOOLEAN

\* After hwc_set, the panel shows at every cell the layers SurfaceFlinger
\* wants there, each once, in their order and with their last content,
\* whatever the pipes carry, whatever is kept of the framebuffer and whatever
\* the region of interest leaves out.  It does not hold of a display that was
\* paused with more than one layer: the framebuffer that is kept then holds
\* the layers of the pipes too (primary) or old ones (external); nor when a
\* secure layer is dropped, which updateSecureRGB counts twice, or one among
\* seven layers or more, which getBatch may count twice.
RightPicture == phase = "idle" => wrong = {}

\* The framebuffer has a pipe when layers need it (a frame without MDP
\* composition, or with a stage for the framebuffer), and no pipe is left
\* from a strategy that configured one and failed.  It does not hold on a
\* panel with partial update when the list has only videos, some secure.
FBIsOfFrame ==
  phase \in {"compose", "draw"} =>
    mFBUpdate.on = (~mModeOn \/ mCurrentFrame.fbZ >= 0)

\* "Drop the layer when its already present in FB" (setMDPCompLayerFlags):
\* when a frame is shown, the framebuffer holds every layer that the frame
\* leaves to it, drawn since its last update, whether it was drawn for this
\* frame or kept from an earlier one.
PresentInFB ==
  phase = "draw" => \A i \in mCurrentFrame.fb \ mCurrentFrame.drop :
     i \notin old /\ \A c \in Cells : i \in Seen(c) => i \in target[c]

\* The pipes of the layers and that of the framebuffer fit the stages of the
\* mixer.  It does not hold when an updating layer is dropped because opaque
\* layers hide it: cacheBasedComp gives it a pipe that mdpCount leaves out.
WithinStages ==
  phase = "draw" /\ mModeOn =>
    Cardinality(Indices(list) \ mCurrentFrame.fb)
      + (IF mFBUpdate.on THEN 1 ELSE 0) <= MaxPipes
=============================================================================
