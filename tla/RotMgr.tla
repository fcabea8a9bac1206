------------------------------- MODULE RotMgr -------------------------------
(***************************************************************************)
(* overlay::RotMgr and qhwc::LayerRotMap (liboverlay/overlayRotator.cpp,   *)
(* libhwcomposer/hwc_utils.cpp): the rotator sessions that the displays    *)
(* of a round share, and the DMA mode that goes with them.                 *)
(*                                                                         *)
(* RotMgr hands out sessions from the bottom of mRot and gets them back    *)
(* from the top: a strategy that fails returns as many as the LayerRotMap  *)
(* of its display holds.  The sessions a display draws with are kept a     *)
(* second time, in PipeLayerPair::rot and in IFBUpdate::mRot.              *)
(***************************************************************************)
EXTENDS Integers, Sequences, FiniteSets

CONSTANTS MAX_ROT_SESS,
          UINT,      \* stands for 2^32, at which mUseCount wraps
          NumDpys,   \* displays, primary first
          Lists,     \* lists of layers; of a layer: what it needs of a rotator
          Rots,      \* addresses at which a Rotator may be allocated
          NULL,      \* no object, no list
          MidRound   \* setExtOrientation may come while hwc_prepare runs

Dpy   == 0 .. NumDpys - 1
Slots == 0 .. MAX_ROT_SESS - 1
FB    == 0                          \* the framebuffer target among the layers
Need  == {"plain", "turn", "scale"} \* has90Transform, else getRotDownscale

ASSUME RotMgrAssumption ==
  /\ MAX_ROT_SESS \in Nat \ {0}
  /\ UINT \in Nat /\ UINT > MAX_ROT_SESS
  /\ NumDpys \in Nat \ {0}
  /\ \A list \in Lists : list \in Seq(Need)
  /\ IsFiniteSet(Rots) /\ Cardinality(Rots) > MAX_ROT_SESS
  /\ NULL \notin Rots /\ NULL \notin Lists
  /\ MidRound \in BOOLEAN

VARIABLES
  mRot, mUseCount,     \* RotMgr: the objects and how many are handed out
  mLayerRotMap,        \* display -> layers with the sessions they got
  mdpToLayer,          \* display -> layers and PipeLayerPair::rot
  mModeOn,             \* displays whose MDPComp has a strategy
  mFBUpdate,           \* display -> mModeOn and mRot of its FBUpdate
  sDMAMode,            \* "LINE": DMA pipes fetch layers, "BLOCK": they rotate
  attached,            \* displays with a DMA pipe in the pipe book
  usesDma,             \* displays that got a DMA pipe in this round
  isDMAStateChanging,  \* displays that wait a round for the DMA
  mExtOrientation,     \* getExtOrientation: "none", a "quarter" turn, "other"
  lists,               \* display -> its list in this round, or NULL
  phase,               \* "idle", "config" in hwc_prepare, "draw" until hwc_set
  turn,                \* the display being prepared; -1 when all are
  attempt,             \* where its preparation is
  todo                 \* what the strategy must still configure

manager == <<mRot, mUseCount, mLayerRotMap>>
dma     == <<sDMAMode, attached, isDMAStateChanging>>
vars    == <<manager, mdpToLayer, mModeOn, mFBUpdate, dma, usesDma,
             mExtOrientation, lists, phase, turn, attempt, todo>>

Session   == [layer : Nat, rot : Rots]
NothingToDo == [fb |-> FALSE, layers |-> {}]
FBOff     == [on |-> FALSE, mRot |-> NULL]
Live      == {mRot[i] : i \in Slots} \ {NULL}
Turning(d) == turn = d /\ phase = "config"

Init ==
  /\ mRot = [i \in Slots |-> NULL]
  /\ mUseCount = 0
  /\ mLayerRotMap = [d \in Dpy |-> <<>>]
  /\ mdpToLayer = [d \in Dpy |-> <<>>]
  /\ mModeOn = {}
  /\ mFBUpdate = [d \in Dpy |-> FBOff]
  /\ sDMAMode = "LINE"
  /\ attached = {} /\ usesDma = {} /\ isDMAStateChanging = {}
  /\ mExtOrientation = "none"
  /\ lists = [d \in Dpy |-> NULL]
  /\ phase = "idle" /\ turn = -1 /\ attempt = "ready"
  /\ todo = NothingToDo

----------------------------------------------------------------------------
(* The sessions.                                                            *)

\* getNext gives r to a layer of display d, which add() notes.
\* Mutant: a map that takes one session less than there are.
SmallerMap(d, layer, r) ==
  /\ mUseCount < MAX_ROT_SESS
  /\ IF mRot[mUseCount] = NULL THEN r \notin Live ELSE r = mRot[mUseCount]
  /\ mRot' = [mRot EXCEPT ![mUseCount] = r]
  /\ mUseCount' = mUseCount + 1
  /\ mLayerRotMap' =
       IF Len(mLayerRotMap[d]) >= MAX_ROT_SESS - 1 THEN mLayerRotMap
       ELSE [mLayerRotMap EXCEPT ![d] = Append(@, [layer |-> layer, rot |-> r])]

GetNext(d, layer, r) ==
  /\ mUseCount < MAX_ROT_SESS
  /\ IF mRot[mUseCount] = NULL THEN r \notin Live ELSE r = mRot[mUseCount]
  /\ mRot' = [mRot EXCEPT ![mUseCount] = r]
  /\ mUseCount' = mUseCount + 1
  /\ mLayerRotMap' =
       IF Len(mLayerRotMap[d]) >= MAX_ROT_SESS THEN mLayerRotMap
       ELSE [mLayerRotMap EXCEPT ![d] = Append(@, [layer |-> layer, rot |-> r])]

\* LayerRotMap::clear: markUnusedTop, then forget the layers.
\* Mutant: reset() in its place keeps the sessions handed out.
ResetMap(d) ==
  /\ mLayerRotMap' = [mLayerRotMap EXCEPT ![d] = <<>>]
  /\ UNCHANGED <<mRot, mUseCount>>

ClearMap(d) ==
  /\ mUseCount' = (mUseCount - Len(mLayerRotMap[d])) % UINT
  /\ mLayerRotMap' = [mLayerRotMap EXCEPT ![d] = <<>>]
  /\ UNCHANGED mRot

\* What configDone leaves of the objects.
OnlyUsed ==
  [i \in Slots |-> IF i < mUseCount THEN mRot[i] ELSE NULL]

----------------------------------------------------------------------------
(* A round begins: setDMAState, reset and configBegin.                      *)

\* The display has a layer to rotate.
Rotates(d, ls) == ls[d] # NULL /\ \E i \in DOMAIN ls[d] : ls[d][i] # "plain"

AsksForDma(d, ls) ==
  \/ Rotates(d, ls)
  \/ d # 0 /\ ls[d] # NULL /\ mExtOrientation # "none"

\* The displays whose DMA pipe goes, and those that get it for their rotator.
\* Mutant: only the display that holds the DMA has to wait.
HoldersWait(ls) ==
  {d \in attached : \E e \in Dpy : AsksForDma(e, ls)}

DmaWaits(ls) ==
  {d \in Dpy : AsksForDma(d, ls) /\ attached # {}}
    \cup {d \in attached : \E e \in Dpy \ attached : AsksForDma(e, ls)}

\* Mutant: back to line mode whenever no list asks for a rotator.
ModeByLists(ls) ==
  IF \E d \in Dpy : AsksForDma(d, ls) THEN "BLOCK" ELSE "LINE"

NextMode(ls) ==
  CASE \E d \in Dpy : AsksForDma(d, ls) -> "BLOCK"
    [] OTHER -> IF mUseCount = 0 THEN "LINE" ELSE sDMAMode

Begin ==
  /\ phase = "idle"
  /\ lists' \in [Dpy -> Lists \cup {NULL}]
  /\ sDMAMode' = NextMode(lists')
  /\ isDMAStateChanging' = DmaWaits(lists')
  /\ mModeOn' = {}
  /\ mFBUpdate' = [d \in Dpy |-> FBOff]
  /\ mLayerRotMap' = [d \in Dpy |-> <<>>]
  /\ mUseCount' = 0
  /\ mdpToLayer' = [d \in Dpy |-> <<>>]
  /\ usesDma' = {}
  /\ phase' = "config" /\ turn' = NumDpys - 1 /\ attempt' = "ready"
  /\ todo' = NothingToDo
  /\ UNCHANGED <<mRot, attached, mExtOrientation>>

----------------------------------------------------------------------------
(* A display is prepared: strategies of MDPComp, then the framebuffer.      *)

NextDisplay ==
  /\ turn' = turn - 1
  /\ attempt' = "ready"
  /\ todo' = NothingToDo

\* A display that is off, paused or has nothing to show is not prepared.
Skip(d) ==
  /\ Turning(d) /\ attempt = "ready"
  /\ NextDisplay
  /\ UNCHANGED <<manager, mdpToLayer, mModeOn, mFBUpdate, dma, usesDma,
                 mExtOrientation, lists, phase>>

Prepares(d) ==
  /\ Turning(d)
  /\ lists[d] # NULL /\ lists[d] # <<>>
  /\ attempt \in {"ready", "between"}

\* The layers of `mdp' that are counted: not those that are only scaled.
Counted(d, mdp) == {i \in mdp : lists[d][i] = "turn"}

resourceCheck(d, mdp) ==
  mUseCount + Cardinality(Counted(d, mdp)) <= MAX_ROT_SESS

\* The layers of `mdp' for which a session is taken.
ToRotate(d, mdp) == {i \in mdp : lists[d][i] # "plain"}

\* A strategy gives layers `mdp' to pipes and, with fb, the others to the
\* framebuffer.  A strategy without framebuffer does not follow one that had
\* it: each later strategy leaves more layers to the framebuffer.
BeginStrategy(d) ==
  /\ Prepares(d) /\ d \notin isDMAStateChanging
  /\ \E mdp \in (SUBSET DOMAIN lists[d]) \ {{}}, fb \in BOOLEAN :
       /\ fb => mdp # DOMAIN lists[d]
       /\ mFBUpdate[d].on => fb
       /\ resourceCheck(d, mdp)
       /\ todo' = [fb |-> fb, layers |-> ToRotate(d, mdp)]
  /\ attempt' = "mdp"
  /\ UNCHANGED <<manager, mdpToLayer, mModeOn, mFBUpdate, dma, usesDma,
                 mExtOrientation, lists, phase, turn>>

BeginFallback(d) ==
  /\ Prepares(d)
  /\ attempt' = "fb"
  /\ todo' = [fb |-> TRUE, layers |-> {}]
  /\ UNCHANGED <<manager, mdpToLayer, mModeOn, mFBUpdate, dma, usesDma,
                 mExtOrientation, lists, phase, turn>>

PreRotates(d) == d # 0 /\ mExtOrientation = "quarter"

\* FBUpdate::prepare.  Without a quarter turn mRot is left as it is.
PrepareFB(d) ==
  /\ Turning(d) /\ attempt \in {"mdp", "fb"} /\ todo.fb
  /\ todo' = [todo EXCEPT !.fb = FALSE]
  /\ \/ /\ ~PreRotates(d)
        /\ mFBUpdate' = [mFBUpdate EXCEPT ![d].on = TRUE]
        /\ UNCHANGED manager
     \/ /\ PreRotates(d)
        /\ \E r \in Rots :
             /\ GetNext(d, FB, r)
             /\ mFBUpdate' = [mFBUpdate EXCEPT ![d] = [on |-> TRUE, mRot |-> r]]
  /\ UNCHANGED <<mdpToLayer, mModeOn, dma, usesDma, mExtOrientation, lists,
                 phase, turn, attempt>>

\* It fails: no pipe; no session; the rotator's or the pipe's configuration.
FBRefused(d) ==
  /\ Turning(d) /\ attempt \in {"mdp", "fb"} /\ todo.fb
  /\ attempt' = IF attempt = "mdp" THEN "mdpLost" ELSE "fbLost"
  /\ \/ /\ mFBUpdate' = [mFBUpdate EXCEPT ![d].on = FALSE]
        /\ UNCHANGED manager
     \/ /\ PreRotates(d) /\ mUseCount >= MAX_ROT_SESS
        /\ mFBUpdate' = [mFBUpdate EXCEPT ![d] = FBOff]
        /\ UNCHANGED manager
     \/ /\ PreRotates(d)
        /\ \E r \in Rots :
             /\ GetNext(d, FB, r)
             /\ \E kept \in {NULL, r} :
                  mFBUpdate' =
                    [mFBUpdate EXCEPT ![d] = [on |-> FALSE, mRot |-> kept]]
  /\ UNCHANGED <<mdpToLayer, mModeOn, dma, usesDma, mExtOrientation, lists,
                 phase, turn, todo>>

\* configure() of the next layer that is rotated, from the bottom.
ConfigureLayer(d) ==
  /\ Turning(d) /\ attempt = "mdp" /\ ~todo.fb
  /\ \E layer \in todo.layers, r \in Rots :
       /\ \A other \in todo.layers : layer <= other
       /\ GetNext(d, layer, r)
       /\ mdpToLayer' = [mdpToLayer EXCEPT ![d] =
            Append(@, [layer |-> layer, rot |-> r])]
       /\ todo' = [todo EXCEPT !.layers = @ \ {layer}]
  /\ UNCHANGED <<mModeOn, mFBUpdate, dma, usesDma, mExtOrientation, lists,
                 phase, turn, attempt>>

\* nextPipe gives a DMA pipe in line mode only.
PipesOf(d) ==
  usesDma' \in {usesDma} \cup
               (IF sDMAMode = "LINE" THEN {usesDma \cup {d}} ELSE {})

Validated(d) ==
  /\ Turning(d) /\ attempt \in {"mdp", "fb"} /\ todo = NothingToDo
  /\ mModeOn' = IF attempt = "mdp" THEN mModeOn \cup {d} ELSE mModeOn
  /\ PipesOf(d)
  /\ NextDisplay
  /\ UNCHANGED <<manager, mdpToLayer, mFBUpdate, dma, mExtOrientation, lists,
                 phase>>

\* MDPComp::reset(ctx), after a strategy failed or did not apply: FBUpdate
\* keeps what the strategy prepared.
StrategyFails(d) ==
  /\ Turning(d) /\ d \notin isDMAStateChanging
  /\ attempt \in {"mdp", "mdpLost"}
  /\ ClearMap(d)
  /\ mdpToLayer' = [mdpToLayer EXCEPT ![d] = <<>>]
  /\ attempt' = "between"
  /\ todo' = NothingToDo
  /\ UNCHANGED <<mModeOn, mFBUpdate, dma, usesDma, mExtOrientation, lists,
                 phase, turn>>

FallbackFails(d) ==
  /\ Turning(d) /\ attempt \in {"fb", "fbLost"}
  /\ ClearMap(d)
  /\ mFBUpdate' = [mFBUpdate EXCEPT ![d].on = FALSE]
  /\ NextDisplay
  /\ UNCHANGED <<mdpToLayer, mModeOn, dma, usesDma, mExtOrientation, lists,
                 phase>>

----------------------------------------------------------------------------
(* The round ends; power and orientation change.                            *)

ConfigDone ==
  /\ phase = "config" /\ turn = -1
  /\ mRot' = OnlyUsed
  /\ attached' = usesDma
  /\ phase' = "draw"
  /\ UNCHANGED <<mUseCount, mLayerRotMap, mdpToLayer, mModeOn, mFBUpdate,
                 sDMAMode, isDMAStateChanging, usesDma, mExtOrientation,
                 lists, turn, attempt, todo>>

\* hwc_set: each display is drawn with the sessions it holds.
HwcSet ==
  /\ phase = "draw"
  /\ phase' = "idle"
  /\ UNCHANGED <<manager, mdpToLayer, mModeOn, mFBUpdate, dma, usesDma,
                 mExtOrientation, lists, turn, attempt, todo>>

\* RotMgr::clear and the pipes' configBegin and configDone: a display is
\* switched off, torn down, or the screen's updates are stopped.
Clear ==
  /\ phase = "idle"
  /\ mRot' = [i \in Slots |-> NULL]
  /\ mUseCount' = 0
  /\ attached' = {}
  /\ UNCHANGED <<mLayerRotMap, mdpToLayer, mModeOn, mFBUpdate, sDMAMode,
                 usesDma, isDMAStateChanging, mExtOrientation, lists, phase,
                 turn, attempt, todo>>

\* On a binder thread, without mDrawLock.
SetExtOrientation ==
  /\ MidRound \/ phase # "config"
  /\ mExtOrientation' \in {"none", "quarter", "other"} \ {mExtOrientation}
  /\ UNCHANGED <<manager, mdpToLayer, mModeOn, mFBUpdate, dma, usesDma, lists,
                 phase, turn, attempt, todo>>

Prepare(d) ==
  \/ Skip(d) \/ BeginStrategy(d) \/ BeginFallback(d)
  \/ PrepareFB(d) \/ FBRefused(d) \/ ConfigureLayer(d)
  \/ Validated(d) \/ StrategyFails(d) \/ FallbackFails(d)

Next ==
  \/ Begin
  \/ \E d \in Dpy : Prepare(d)
  \/ ConfigDone \/ HwcSet \/ Clear \/ SetExtOrientation

Spec == Init /\ [][Next]_vars

----------------------------------------------------------------------------
(* Properties.                                                              *)

\* The layers of a display with the sessions that hwc_set will rotate with.
FBSession(d) == IF mFBUpdate[d].on /\ mFBUpdate[d].mRot # NULL
                THEN {[layer |-> FB, rot |-> mFBUpdate[d].mRot]} ELSE {}
Draws(d) ==
  FBSession(d) \cup
    {mdpToLayer[d][i] : i \in {j \in DOMAIN mdpToLayer[d] : d \in mModeOn}}

TypeOK ==
  /\ mRot \in [Slots -> Rots \cup {NULL}]
  /\ mUseCount \in 0 .. UINT - 1
  /\ mLayerRotMap \in [Dpy -> Seq(Session)]
  /\ mdpToLayer \in [Dpy -> Seq(Session)]
  /\ mModeOn \subseteq Dpy
  /\ mFBUpdate \in [Dpy -> [on : BOOLEAN, mRot : Rots \cup {NULL}]]
  /\ sDMAMode \in {"LINE", "BLOCK"}
  /\ attached \subseteq Dpy /\ usesDma \subseteq Dpy
  /\ isDMAStateChanging \subseteq Dpy
  /\ mExtOrientation \in {"none", "quarter", "other"}
  /\ lists \in [Dpy -> Lists \cup {NULL}]
  /\ phase \in {"idle", "config", "draw"}
  /\ turn \in -1 .. NumDpys - 1
  /\ attempt \in {"ready", "between", "mdp", "mdpLost", "fb", "fbLost"}
  /\ todo \in [fb : BOOLEAN, layers : SUBSET Nat]

\* What is drawn with is there, and is nobody else's: each session that a
\* display rotates with is one that configDone kept, and each rotator alive
\* serves one layer of one display (PipeLayerPair::rot and IFBUpdate::mRot are
\* plain pointers; the sessions a failed strategy returned are handed out
\* again, and configDone deletes those above the use count).
ServesOne ==
  phase = "draw" =>
    LET Served == {use \in Dpy \X UNION {Draws(d) : d \in Dpy} :
                     use[2] \in Draws(use[1])}
        Kept   == {mRot[i] : i \in {j \in Slots : j < mUseCount}}
    IN  /\ \A use \in Served : use[2].rot \in Kept
        /\ \A r \in Live : Cardinality({use \in Served : use[2].rot = r}) = 1

\* hwc_sync gives its fences to the sessions of LayerRotMap: these are the
\* ones that are drawn with, no more (left by a failed strategy) and no less
\* (dropped by add, which says nothing when it is full).
FencesReach ==
  phase = "draw" =>
    \A d \in Dpy :
      Draws(d) = {mLayerRotMap[d][i] : i \in DOMAIN mLayerRotMap[d]}

\* In line mode, where pipes may take the DMA, no rotator lives, neither one
\* of this round nor one that rotated for the frame still shown.
LineModeIdle == sDMAMode = "LINE" => Live = {}

\* A layer is rotated only when no display had a DMA pipe in the round before
\* ("padding round") or has one in this: the DMA changes hands with a frame in
\* between.  The rotation of the framebuffer target does not wait for this.
DmaChangesHands ==
  phase = "config" /\ (\E d \in Dpy : mdpToLayer[d] # <<>>) =>
    attached = {} /\ usesDma = {}

----------------------------------------------------------------------------
(* What makes them inductive, if orientations change between rounds only.   *)

Orderly == ~MidRound

\* The sessions handed out are a stack of distinct rotators; between rounds
\* there are no others.
Stacked ==
  /\ mUseCount <= MAX_ROT_SESS
  /\ \A i \in Slots : i < mUseCount => mRot[i] # NULL
  /\ phase # "config" => \A i \in Slots : i >= mUseCount => mRot[i] = NULL
  /\ \A i, j \in Slots : mRot[i] = mRot[j] /\ mRot[i] # NULL => i = j
  /\ phase # "config" => turn = -1

\* The display being prepared has the top of the stack, in order.
Bottom == IF turn \in Dpy THEN mUseCount - Len(mLayerRotMap[turn])
          ELSE mUseCount

OnTop ==
  phase # "idle" =>
    /\ Bottom >= 0
    /\ turn \in Dpy =>
         \A k \in DOMAIN mLayerRotMap[turn] :
           mLayerRotMap[turn][k].rot = mRot[Bottom + k - 1]

\* The displays already prepared share what is below it, each session
\* in one place.
Shared ==
  phase # "idle" =>
    /\ \A d \in Dpy : d > turn =>
         \A k \in DOMAIN mLayerRotMap[d] :
           \E i \in 0 .. Bottom - 1 : mLayerRotMap[d][k].rot = mRot[i]
    /\ \A i \in 0 .. Bottom - 1 : \E d \in Dpy : d > turn /\
         \E k \in DOMAIN mLayerRotMap[d] : mLayerRotMap[d][k].rot = mRot[i]
    /\ \A d, e \in Dpy : d > turn /\ e > turn =>
         \A k \in DOMAIN mLayerRotMap[d], l \in DOMAIN mLayerRotMap[e] :
           mLayerRotMap[d][k].rot = mLayerRotMap[e][l].rot => d = e /\ k = l

\* They draw with what the map says; the others have nothing yet.
Mapped(d) == {mLayerRotMap[d][k] : k \in DOMAIN mLayerRotMap[d]}
Planned(d) == {mdpToLayer[d][k] : k \in DOMAIN mdpToLayer[d]} \cup FBSession(d)

Agreed ==
  phase # "idle" =>
    \A d \in Dpy :
      /\ d > turn => Draws(d) = Mapped(d)
      /\ d <= turn => d \notin mModeOn
      /\ d < turn => /\ mLayerRotMap[d] = <<>> /\ mdpToLayer[d] = <<>>
                     /\ mFBUpdate[d] = FBOff

\* The display being prepared: what a failed strategy left is gone before
\* the next one asks, but for FBUpdate's, which is then replaced.
Underway ==
  phase = "config" /\ turn \in Dpy =>
    /\ attempt = "ready" => mFBUpdate[turn] = FBOff
    /\ attempt \in {"ready", "between"} \/ (todo.fb /\ attempt \in {"mdp", "fb"})
         => mLayerRotMap[turn] = <<>> /\ mdpToLayer[turn] = <<>>
    /\ attempt \in {"fb", "fbLost"} => mdpToLayer[turn] = <<>>
    /\ attempt \in {"mdp", "fb"} /\ ~todo.fb => Mapped(turn) = Planned(turn)
    /\ ~PreRotates(turn) => mFBUpdate[turn].mRot = NULL
    /\ attempt # "ready" => lists[turn] # NULL
    /\ todo.layers # {} =>
         Rotates(turn, lists) /\ turn \notin isDMAStateChanging

\* The mode is that of the lists, and who rotates a layer has not waited.
DmaKept ==
  phase = "config" =>
    /\ isDMAStateChanging = DmaWaits(lists)
    /\ (\E d \in Dpy : AsksForDma(d, lists)) => sDMAMode = "BLOCK"
    /\ sDMAMode = "BLOCK" => usesDma = {}
    /\ \A d \in Dpy : mdpToLayer[d] # <<>> => Rotates(d, lists) /\ attached = {}

IInv == TypeOK /\ Stacked /\ OnTop /\ Shared /\ Agreed /\ Underway /\ DmaKept
          /\ LineModeIdle
=============================================================================
