-------------------------- MODULE PipeBook_proofs --------------------------
(***************************************************************************)
(* The safety of the pipe book for every number of pipes and displays,     *)
(* every pipe table and every getPipe policy: the invariant IInv is        *)
(* inductive, the properties of PipeBook follow from it, and the book      *)
(* implements PipeOwnership.                                               *)
(***************************************************************************)
EXTENDS PipeBook, TLAPS

IInv == TypeOK /\ BookInv /\ DriverAgrees /\ Reclaimed

USE PipeBookAssumption DEF Pipe, Dpy, Valid

\* The book starts empty, so the invariant holds whatever mSession contains.
LEMMA InitInv == Init => IInv
  BY DEF Init, IInv, TypeOK, BookInv, DriverAgrees, Reclaimed, Booked, InUse,
         Planned, DmaMode, Session, Format

----------------------------------------------------------------------------
(* Types.                                                                  *)

\* Destroying pipes keeps the types of the book and of the driver's table.
LEMMA DestroyTypes ==
  ASSUME TypeOK, NEW S, Destroy(S)
  PROVE  /\ mDisplay' \in [Pipe -> Dpy \cup {Nothing}]
         /\ mMixer' \in [Pipe -> Mixer \cup {Nothing}]
         /\ mFormatType' \in [Pipe -> Format \cup {Nothing}]
         /\ mPipe' \in [Pipe -> Dpy \cup {Nothing}]
         /\ mSession' \in [Pipe -> Session]
         /\ hasId' \subseteq Pipe
         /\ driver' \in [Pipe -> Owner \cup {Nothing}]
  BY DEF TypeOK, Destroy, Session

\* A pipe that validateAndSet stages is booked completely.
LEMMA StagedBooked ==
  ASSUME IInv, NEW d \in Dpy, NEW i \in Staged(d)
  PROVE  /\ i \in Pipe /\ mDisplay[i] = d
         /\ mMixer[i] \in Mixer /\ mFormatType[i] \in Format
  BY DEF IInv, TypeOK, BookInv, Booked, Staged

\* Every step of the book keeps the types.
LEMMA TypeStep == IInv /\ [Next]_vars => TypeOK'
<1> SUFFICES ASSUME IInv, [Next]_vars PROVE TypeOK'
  OBVIOUS
<1> TypeOK
  BY DEF IInv
<1>1. CASE ConfigBegin
  BY <1>1 DEF ConfigBegin, LastDpy, TypeOK, book
<1>2. CASE ConfigDone
  BY <1>2, DestroyTypes DEF ConfigDone, TypeOK
<1>3. CASE DrawDone
  BY <1>3 DEF DrawDone, TypeOK, book
<1>4. CASE PowerOff
  BY <1>4, DestroyTypes DEF PowerOff, TypeOK
<1>5. ASSUME NEW s \in PipeSpecs, Request(s) PROVE TypeOK'
  <2> s.dpy \in Dpy /\ s.mixer \in Mixer /\ s.format \in Format
    BY DEF PipeSpecs
  <2>1. CASE GetPipe(s)
    BY <2>1 DEF GetPipe, Book, OpenedSession, TypeOK, Session
  <2>2. CASE GetPipeFails(s)
    BY <2>2 DEF GetPipeFails, TypeOK, book
  <2> QED BY <1>5, <2>1, <2>2 DEF Request
<1>6. ASSUME NEW d \in Dpy, Prepare(d) PROVE TypeOK'
  <2>1. CASE Commit(d)
    BY <2>1 DEF Commit, TypeOK, book
  <2>2. CASE GiveUp(d)
    BY <2>2 DEF GiveUp, TypeOK, book
  <2>3. CASE Clear(d)
    BY <2>3, DestroyTypes DEF Clear, Mine, TypeOK
  <2>4. CASE NextDisplay(d)
    BY <2>4 DEF NextDisplay, TypeOK, book
  <2>5. CASE ValidateAndSet(d)
    <3>1. Staged(d) \subseteq Pipe
      BY StagedBooked
    <3>2. \A i \in Staged(d) :
            [display |-> d, mixer |-> mMixer[i], format |-> mFormatType[i]]
              \in Owner
      BY StagedBooked DEF Owner
    <3>3. driver' \in [Pipe -> Owner \cup {Nothing}]
      BY <2>5, <3>2 DEF ValidateAndSet, TypeOK
    <3> QED BY <2>5, <3>1, <3>3 DEF ValidateAndSet, TypeOK, book
  <2>6. CASE ValidateFails(d)
    BY <2>6 DEF ValidateFails, TypeOK, book
  <2> QED BY <1>6, <2>1, <2>2, <2>3, <2>4, <2>5, <2>6 DEF Prepare
<1>7. CASE UNCHANGED vars
  BY <1>7 DEF vars, TypeOK
<1> QED BY <1>1, <1>2, <1>3, <1>4, <1>5, <1>6, <1>7 DEF Next

----------------------------------------------------------------------------
(* The inductive step.  TypeStep gives the types; these lemmas give the     *)
(* rest, one lemma for each action that changes the book.                   *)

Safe == BookInv /\ DriverAgrees /\ Reclaimed

\* getPipe books a pipe that no one has allocated in this round: it is free,
\* or it is already set for the same display, mixer and format.
LEMMA BookStep ==
  ASSUME IInv, NEW s \in PipeSpecs, GetPipe(s)
  PROVE  Safe'
<1> s.dpy \in Dpy /\ s.mixer \in Mixer /\ s.format \in Format
  BY DEF PipeSpecs
<1> USE DEF IInv
<1>1. PICK dest \in Pipe : Answers(s, dest) /\ Book(s, dest)
  BY DEF GetPipe
<1>2. /\ dest \notin allocated
      /\ mDisplay[dest] \in {Nothing, s.dpy}
      /\ mMixer[dest] \in {Nothing, s.mixer}
      /\ mFormatType[dest] \in {Nothing, s.format}
      /\ \/ DMAMultiplexing /\ s.dpy # DPY_PRIMARY
         \/ ~(sDMAMode = "BLOCK" /\ PipeType[dest] = "DMA")
  BY <1>1 DEF Answers, CanServe, Compatible, Unallocated, DmaAllowed,
          OV_INVALID
<1>3. /\ phase = "config" /\ turn = s.dpy /\ attempt' = "trying"
      /\ UNCHANGED <<hasId, used, sDMAMode, driver, phase, turn>>
  BY DEF GetPipe, Preparing
<1>4. \A i \in Pipe : i # dest =>
        /\ mDisplay'[i] = mDisplay[i] /\ mMixer'[i] = mMixer[i]
        /\ mFormatType'[i] = mFormatType[i] /\ mPipe'[i] = mPipe[i]
        /\ mSession'[i] = mSession[i]
  BY <1>1 DEF Book, OpenedSession, TypeOK
<1>5. /\ mDisplay'[dest] = s.dpy /\ mMixer'[dest] = s.mixer
      /\ mFormatType'[dest] = s.format /\ mPipe'[dest] = s.dpy
      /\ mSession'[dest] = "NONE"
  BY <1>1, <1>2 DEF Book, OpenedSession, TypeOK, BookInv, Booked
<1>6. (\A i \in Pipe : Booked(i))'
  BY <1>4, <1>5 DEF BookInv, Booked
<1>7. (hasId \subseteq {i \in Pipe : Valid(i)})'
  BY <1>3, <1>4, <1>5 DEF BookInv
<1>8. (\A i \in used : InUse(i))'
  BY <1>1, <1>3, <1>4, <1>5 DEF BookInv, InUse, Book, OpenedSession, TypeOK
<1>9. (\A d \in Dpy : Planned(d))'
  <2> SUFFICES ASSUME NEW d \in Dpy PROVE Planned(d)'
    OBVIOUS
  <2>1. plan'[d] = IF d = s.dpy THEN plan[d] \cup {dest} ELSE plan[d]
    BY <1>1 DEF Book, OpenedSession, TypeOK
  <2>2. Planned(d)
    BY DEF BookInv
  <2>3. \A i \in plan'[d] : mDisplay'[i] = d /\ i \in allocated'
    BY <1>1, <1>4, <1>5, <1>2, <2>1, <2>2 DEF Planned, TypeOK, Book, OpenedSession
  <2> QED BY <1>3, <2>1, <2>2, <2>3 DEF Planned, GetPipe, Preparing, TypeOK
<1>10. (\A i \in Pipe : DmaMode(i))'
  BY <1>1, <1>2, <1>3, <1>4, <1>5 DEF BookInv, DmaMode, Book, OpenedSession
<1>11. DriverAgrees'
  BY <1>2, <1>3, <1>4, <1>5 DEF DriverAgrees, BookInv, Booked, TypeOK
<1> QED
  BY <1>3, <1>6, <1>7, <1>8, <1>9, <1>10, <1>11
  DEF Safe, BookInv, Reclaimed

\* Destroying pipes changes nothing else.
LEMMA DestroyFrame ==
  ASSUME NEW S \in SUBSET Pipe, Destroy(S)
  PROVE  /\ \A i \in Pipe \ S : /\ mDisplay'[i] = mDisplay[i]
                                /\ mMixer'[i] = mMixer[i]
                                /\ mFormatType'[i] = mFormatType[i]
                                /\ mPipe'[i] = mPipe[i]
                                /\ mSession'[i] = mSession[i]
                                /\ driver'[i] = driver[i]
                                /\ i \in hasId' <=> i \in hasId
         /\ \A i \in S : /\ mDisplay'[i] = Nothing
                         /\ mMixer'[i] = Nothing
                         /\ mFormatType'[i] = Nothing
                         /\ mPipe'[i] = Nothing
                         /\ i \notin hasId'
  BY DEF Destroy

\* Destroying pipes leaves the book consistent with the driver: those that
\* the driver holds are unset.
LEMMA DestroyStep ==
  ASSUME IInv, NEW S \in SUBSET Pipe, Destroy(S)
  PROVE  /\ (\A i \in Pipe : Booked(i))'
         /\ (hasId \subseteq {i \in Pipe : Valid(i)})'
         /\ DriverAgrees'
<1>1. \A i \in S : driver'[i] = Nothing
  BY DEF Destroy, IInv, DriverAgrees
<1>2. (\A i \in Pipe : Booked(i))'
  BY DestroyFrame DEF IInv, BookInv, Booked
<1>3. (hasId \subseteq {i \in Pipe : Valid(i)})'
  BY DestroyFrame DEF IInv, BookInv, Destroy, TypeOK
<1>4. DriverAgrees'
  BY <1>1, DestroyFrame DEF IInv, DriverAgrees
<1> QED BY <1>2, <1>3, <1>4

\* Nothing that is in use is garbage, because an open pipe has no session.
LEMMA GarbageUnused ==
  ASSUME IInv, NEW busy \in SUBSET used
  PROVE  /\ Garbage(busy) \subseteq Pipe /\ Garbage(busy) \cap busy = {}
         /\ \A i \in Pipe \ Garbage(busy) : Valid(i) => i \in busy
  BY DEF IInv, TypeOK, BookInv, Booked, InUse, Garbage, Session

\* clear(dpy) touches only pipes of dpy, which no other display has planned.
LEMMA ClearStep ==
  ASSUME IInv, NEW d \in Dpy, Clear(d)
  PROVE  Safe'
<1> DEFINE mine == {i \in Pipe : mDisplay[i] = d}
           D == mine \ hasId
<1>1. D \in SUBSET Pipe /\ Destroy(D)
  BY DEF Clear, Mine
<1>2. /\ used' = used \ mine /\ allocated' = allocated \ mine
      /\ plan' = [plan EXCEPT ![d] = {}] /\ attempt' = "none"
      /\ turn = d /\ phase = "config"
      /\ UNCHANGED <<sDMAMode, phase, turn>>
  BY DEF Clear, Mine, Preparing
<1>3. \A i \in Pipe \ mine : /\ mDisplay'[i] = mDisplay[i]
                             /\ mPipe'[i] = mPipe[i]
                             /\ i \in hasId' <=> i \in hasId
  BY <1>1, DestroyFrame
<1>4. /\ (\A i \in Pipe : Booked(i))'
      /\ (hasId \subseteq {i \in Pipe : Valid(i)})'
      /\ DriverAgrees'
  <2> HIDE DEF D
  <2> QED BY <1>1, DestroyStep
<1>5. (\A i \in used : InUse(i))'
  <2> SUFFICES ASSUME NEW i \in used' PROVE InUse(i)'
    OBVIOUS
  <2>1. i \in used /\ i \in Pipe \ mine
    BY <1>2 DEF IInv, TypeOK
  <2>2. InUse(i)
    BY <2>1 DEF IInv, BookInv
  <2> QED BY <1>2, <1>3, <2>1, <2>2 DEF InUse
<1>6. (\A e \in Dpy : Planned(e))'
  <2> SUFFICES ASSUME NEW e \in Dpy PROVE Planned(e)'
    OBVIOUS
  <2>1. CASE e = d
    BY <1>2, <2>1 DEF Planned, IInv, TypeOK
  <2>2. CASE e # d
    <3>1. plan'[e] = plan[e] /\ plan[e] \subseteq Pipe /\ Planned(e)
      BY <1>2, <2>2 DEF IInv, BookInv, TypeOK
    <3>2. \A i \in plan[e] : i \in Pipe \ mine
      BY <2>2, <3>1 DEF Planned
    <3> HIDE DEF mine
    <3> QED BY <1>2, <1>3, <2>2, <3>1, <3>2 DEF Planned, IInv, TypeOK
  <2> QED BY <2>1, <2>2
<1>7. (\A i \in Pipe : DmaMode(i))'
  <2> SUFFICES ASSUME NEW i \in Pipe, i \in allocated' PROVE DmaMode(i)'
    BY DEF DmaMode
  <2>1. i \in allocated /\ mDisplay'[i] = mDisplay[i]
    BY <1>2, <1>3
  <2> QED BY <1>2, <2>1 DEF IInv, BookInv, DmaMode
<1> QED
  BY <1>2, <1>4, <1>5, <1>6, <1>7 DEF Safe, BookInv, Reclaimed

\* configDone keeps what the round uses and collects everything else.
LEMMA ConfigDoneStep ==
  ASSUME IInv, ConfigDone
  PROVE  Safe'
<1> DEFINE G == Garbage(used)
<1>1. G \in SUBSET Pipe /\ Destroy(G)
  BY GarbageUnused DEF ConfigDone
<1>2. G \cap used = {} /\ \A i \in Pipe \ G : Valid(i) => i \in used
  BY GarbageUnused
<1>3. /\ phase = "config" /\ turn = -1 /\ phase' = "draw"
      /\ UNCHANGED <<used, allocated, sDMAMode, turn, attempt, plan>>
  BY DEF ConfigDone
<1> HIDE DEF G
<1>4. /\ \A i \in Pipe \ G : /\ mDisplay'[i] = mDisplay[i]
                             /\ mPipe'[i] = mPipe[i]
                             /\ i \in hasId' <=> i \in hasId
      /\ \A i \in G : mDisplay'[i] = Nothing /\ mPipe'[i] = Nothing
  BY <1>1, DestroyFrame
<1>5. \A i \in used : i \in Pipe \ G
  BY <1>2 DEF IInv, TypeOK
<1>6. (\A i \in used : InUse(i))'
  BY <1>3, <1>4, <1>5 DEF IInv, BookInv, InUse
<1>7. (\A e \in Dpy : Planned(e))'
  <2> SUFFICES ASSUME NEW e \in Dpy PROVE Planned(e)'
    OBVIOUS
  <2>1. Planned(e) /\ plan[e] \subseteq used \cap hasId
    BY <1>3 DEF IInv, BookInv, Planned
  <2> QED BY <1>3, <1>4, <1>5, <2>1 DEF Planned
<1>8. (\A i \in Pipe : DmaMode(i))'
  <2> SUFFICES ASSUME NEW i \in Pipe PROVE DmaMode(i)'
    OBVIOUS
  <2>1. mDisplay'[i] \in {mDisplay[i], Nothing} /\ DmaMode(i)
    BY <1>4 DEF IInv, BookInv
  <2>2. mDisplay'[i] = DPY_PRIMARY => mDisplay[i] = DPY_PRIMARY
    BY <2>1, PipeBookAssumption DEF DPY_PRIMARY
  <2> QED BY <1>3, <2>1, <2>2 DEF DmaMode
<1>9. Reclaimed'
  BY <1>2, <1>3, <1>4 DEF Reclaimed
<1> QED
  BY <1>1, <1>3, <1>6, <1>7, <1>8, <1>9, DestroyStep DEF Safe, BookInv

\* Powering off frees every pipe.
LEMMA PowerOffStep ==
  ASSUME IInv, PowerOff
  PROVE  Safe'
<1> DEFINE G == Garbage({})
<1>1. G \in SUBSET Pipe /\ Destroy(G)
  BY GarbageUnused DEF PowerOff
<1>2. \A i \in Pipe \ G : ~Valid(i)
  BY GarbageUnused
<1>3. /\ phase = "idle" /\ used' = {} /\ allocated' = {}
      /\ plan' = [d \in Dpy |-> {}]
      /\ UNCHANGED <<sDMAMode, phase, turn, attempt>>
  BY DEF PowerOff
<1> HIDE DEF G
<1>4. /\ \A i \in Pipe \ G : mPipe'[i] = mPipe[i]
      /\ \A i \in G : mPipe'[i] = Nothing
  BY <1>1, DestroyFrame
<1>5. (\A e \in Dpy : Planned(e))'
  BY <1>3 DEF Planned
<1>6. Reclaimed'
  BY <1>2, <1>4 DEF Reclaimed
<1> QED
  BY <1>1, <1>3, <1>5, <1>6, DestroyStep DEF Safe, BookInv, InUse, DmaMode

\* The driver sets the staged pipes exactly as they are booked.
LEMMA ValidateStep ==
  ASSUME IInv, NEW d \in Dpy, ValidateAndSet(d)
  PROVE  Safe'
<1>1. /\ hasId' = hasId \cup Staged(d) /\ plan[d] \subseteq used
      /\ attempt' = "set" /\ phase = "config" /\ turn = d
      /\ UNCHANGED <<mDisplay, mMixer, mFormatType, mPipe, mSession, used,
                     allocated, sDMAMode, phase, turn, plan>>
  BY DEF ValidateAndSet, Preparing, book
<1>2. \A i \in Staged(d) : i \in Pipe /\ mPipe[i] = d /\ mDisplay[i] = d
  BY StagedBooked DEF IInv, BookInv, Booked
<1>3. \A i \in Staged(d) : driver'[i] = [display |-> d, mixer |-> mMixer[i],
                                        format |-> mFormatType[i]]
  BY <1>2 DEF ValidateAndSet
<1>4. \A i \in Staged(d) : driver'[i] \in Owner
  <2> SUFFICES ASSUME NEW i \in Staged(d) PROVE driver'[i] \in Owner
    OBVIOUS
  <2>1. mMixer[i] \in Mixer /\ mFormatType[i] \in Format
    BY StagedBooked
  <2>2. [display |-> d, mixer |-> mMixer[i], format |-> mFormatType[i]]
          \in Owner
    BY <2>1 DEF Owner
  <2> QED BY <1>3, <2>2
<1>5. \A i \in Pipe \ Staged(d) : driver'[i] = driver[i]
  BY DEF ValidateAndSet
<1>6. DriverAgrees'
  <2> SUFFICES ASSUME NEW i \in Pipe
               PROVE  /\ driver'[i] # Nothing <=> i \in hasId'
                      /\ driver'[i] # Nothing =>
                           /\ mPipe[i] = driver'[i].display
                           /\ driver'[i] = [display |-> mDisplay[i],
                                            mixer |-> mMixer[i],
                                            format |-> mFormatType[i]]
    BY <1>1 DEF DriverAgrees
  <2>1. CASE i \in Staged(d)
    BY <1>1, <1>2, <1>3, <1>4, <2>1
  <2>2. CASE i \notin Staged(d)
    BY <1>1, <1>5, <2>2 DEF IInv, DriverAgrees
  <2> QED BY <2>1, <2>2
<1>7. plan[d] \subseteq Staged(d)
  BY <1>1 DEF IInv, BookInv, Planned, InUse, Staged, TypeOK
<1>8. (\A e \in Dpy : Planned(e))'
  BY <1>1, <1>7 DEF IInv, BookInv, Planned, TypeOK
<1>9. (hasId \subseteq {i \in Pipe : Valid(i)})'
  BY <1>1, <1>2 DEF IInv, BookInv
<1> QED
  BY <1>1, <1>6, <1>8, <1>9
  DEF Safe, IInv, BookInv, Booked, InUse, DmaMode, Reclaimed

\* The actions that leave the book and the driver alone.
LEMMA QuietStep ==
  ASSUME IInv, NEW d \in Dpy,
         \/ ConfigBegin \/ DrawDone \/ Commit(d) \/ GiveUp(d)
         \/ NextDisplay(d) \/ ValidateFails(d) \/ UNCHANGED vars
  PROVE  Safe'
<1> USE DEF IInv, Safe, TypeOK, BookInv, DriverAgrees, Booked, Reclaimed,
            InUse, Planned, DmaMode, book
<1>1. CASE ConfigBegin
  BY <1>1 DEF ConfigBegin, LastDpy
<1>2. CASE DrawDone
  BY <1>2 DEF DrawDone
<1>3. CASE Commit(d)
  BY <1>3 DEF Commit, Preparing
<1>4. CASE GiveUp(d)
  BY <1>4 DEF GiveUp, Preparing
<1>5. CASE NextDisplay(d)
  <2>1. /\ turn = d /\ turn' = d - 1 /\ phase = "config"
        /\ attempt \in {"none", "set"} /\ attempt' = "none"
        /\ UNCHANGED <<book, hasId, used, allocated, sDMAMode, driver, phase,
                       plan>>
    BY <1>5 DEF NextDisplay, Preparing
  <2>2. ASSUME NEW e \in Dpy PROVE Planned(e)'
    <3>1. Planned(e) /\ (e > turn' => e > turn \/ e = turn)
          /\ (e <= turn' => e < turn)
      BY <2>1
    <3>2. plan' = plan /\ plan[e] \subseteq Pipe
      BY <2>1
    <3>3. CASE e > turn'
      BY <2>1, <3>1, <3>2, <3>3
    <3>4. CASE e <= turn'
      BY <2>1, <3>1, <3>2, <3>4
    <3> QED BY <2>1, <3>3, <3>4
  <2> QED BY <2>1, <2>2
<1>6. CASE ValidateFails(d)
  BY <1>6 DEF ValidateFails, Preparing
<1>7. CASE UNCHANGED vars
  BY <1>7 DEF vars
<1> QED BY <1>1, <1>2, <1>3, <1>4, <1>5, <1>6, <1>7

----------------------------------------------------------------------------
(* The theorems.                                                           *)

LEMMA IInvStep == IInv /\ [Next]_vars => IInv'
<1> SUFFICES ASSUME IInv, [Next]_vars PROVE IInv'
  OBVIOUS
<1>1. TypeOK'
  BY TypeStep
<1>2. Safe'
  <2>1. PICK d \in Dpy : TRUE
    OBVIOUS
  <2>2. CASE ConfigBegin \/ DrawDone \/ UNCHANGED vars
    BY <2>1, <2>2, QuietStep
  <2>3. CASE ConfigDone \/ PowerOff
    BY <2>3, ConfigDoneStep, PowerOffStep
  <2>4. ASSUME NEW s \in PipeSpecs, Request(s) PROVE Safe'
    <3>1. CASE GetPipe(s)
      BY <3>1, BookStep
    <3>2. CASE GetPipeFails(s)
      BY <3>2 DEF GetPipeFails, Preparing, IInv, Safe, TypeOK, BookInv,
                  DriverAgrees, Booked, Reclaimed, InUse, Planned, DmaMode,
                  book
    <3> QED BY <2>4, <3>1, <3>2 DEF Request
  <2>5. ASSUME NEW e \in Dpy, Prepare(e) PROVE Safe'
    BY <2>5, QuietStep, ClearStep, ValidateStep DEF Prepare
  <2> QED BY <2>2, <2>3, <2>4, <2>5 DEF Next
<1> QED BY <1>1, <1>2 DEF IInv, Safe

\* The invariant holds in every reachable state.
THEOREM Invariance == Spec => []IInv
  BY InitInv, IInvStep, PTL DEF Spec

\* The book and the kernel never disagree about an overlay: no UNSET is lost,
\* none goes to the wrong framebuffer, no pipe in the kernel is rebooked.
THEOREM DriverAgreement == Spec => [](TypeOK /\ DriverAgrees)
<1>1. IInv => TypeOK /\ DriverAgrees
  BY DEF IInv
<1> QED BY <1>1, Invariance, PTL

\* Drawing meets the assertions of validate and GenericPipe::queueBuffer.
THEOREM DrawSafety == Spec => []DrawReady
<1>1. IInv => DrawReady
  <2> SUFFICES ASSUME IInv, phase = "draw", NEW d \in Dpy, NEW i \in plan[d]
               PROVE  /\ Valid(i) /\ i \in used /\ i \in hasId
                      /\ driver[i].display = d
    BY DEF DrawReady
  <2>1. i \in Pipe /\ i \in used /\ i \in hasId /\ mDisplay[i] = d
    BY DEF IInv, TypeOK, BookInv, Planned
  <2> QED BY <2>1 DEF IInv, BookInv, Booked, InUse, DriverAgrees
<1> QED BY <1>1, Invariance, PTL

\* Every round collects what it does not use: configDone leaves no open pipe
\* that the last round does not draw with.
THEOREM Collection == Spec => []Reclaimed
<1>1. IInv => Reclaimed
  BY DEF IInv
<1> QED BY <1>1, Invariance, PTL

\* A round in block mode leaves no DMA pipe set where the rotator needs it:
\* what such a round may use is no DMA pipe, and the others are collected.
THEOREM DmaCollection == Spec => []DmaReleased
<1>1. IInv => DmaReleased
  <2> SUFFICES ASSUME IInv PROVE DmaReleased
    BY DEF IInv
  <2> SUFFICES ASSUME phase = "draw", sDMAMode = "BLOCK", NEW i \in Pipe,
                      PipeType[i] = "DMA", driver[i] # Nothing
               PROVE  DMAMultiplexing /\ driver[i].display # DPY_PRIMARY
    BY DEF DmaReleased
  <2>1. Valid(i) /\ driver[i].display = mDisplay[i]
    BY DEF IInv, BookInv, Booked, DriverAgrees
  <2>2. i \in allocated
    BY <2>1 DEF IInv, Reclaimed, BookInv, InUse
  <2> QED BY <2>1, <2>2 DEF IInv, BookInv, DmaMode
<1> QED BY <1>1, Invariance, PTL

\* No request is answered with a pipe that a strategy of the round holds.
THEOREM DistinctPipes == Spec => []EachRequestNew
<1>1. IInv => EachRequestNew
  <2> SUFFICES ASSUME IInv, NEW s \in PipeSpecs, NEW d \in Dpy,
                      NEW dest \in plan[d], Answers(s, dest)
               PROVE  FALSE
    BY DEF EachRequestNew
  <2>1. dest \in allocated /\ dest \in Pipe
    BY DEF IInv, BookInv, Planned, TypeOK
  <2>2. dest # OV_INVALID
    BY <2>1, PipeBookAssumption DEF OV_INVALID, Pipe
  <2> QED BY <2>1, <2>2 DEF Answers, CanServe, Unallocated
<1> QED BY <1>1, Invariance, PTL

\* The driver's table only ever changes as PipeOwnership allows.
LEMMA OwnershipStep == IInv /\ [Next]_vars => [Ownership!Next]_driver
<1> USE DEF Ownership!Owner, Owner, Ownership!Next
<1> SUFFICES ASSUME IInv, [Next]_vars, driver' # driver
             PROVE  Ownership!Next
  OBVIOUS
<1>1. driver' \in [Pipe -> Owner \cup {Nothing}]
  BY TypeStep DEF TypeOK
<1>2. ASSUME NEW S, Destroy(S) PROVE Ownership!Next
  BY <1>1, <1>2 DEF Destroy, Ownership!Release
<1>3. ASSUME NEW d \in Dpy, ValidateAndSet(d) PROVE Ownership!Next
  <2> SUFFICES Ownership!Acquire(d)
    OBVIOUS
  <2>1. ASSUME NEW i \in Pipe, driver'[i] # driver[i]
        PROVE  driver[i] = Nothing /\ driver'[i].display = d
    <3>1. i \in Staged(d)
      BY <1>3, <2>1 DEF ValidateAndSet
    <3>2. driver'[i] = [display |-> mDisplay[i], mixer |-> mMixer[i],
                        format |-> mFormatType[i]]
          /\ mDisplay[i] = d
      BY <1>3, <3>1, StagedBooked DEF ValidateAndSet
    <3>3. driver[i] # Nothing => driver[i] = driver'[i]
      BY <3>2 DEF IInv, DriverAgrees
    <3> QED BY <2>1, <3>2, <3>3
  <2> QED BY <1>1, <2>1 DEF Ownership!Acquire
<1>4. CASE ConfigDone \/ PowerOff
  BY <1>2, <1>4 DEF ConfigDone, PowerOff
<1>5. ASSUME NEW d \in Dpy, Prepare(d) PROVE Ownership!Next
  <2>1. CASE Clear(d)
    BY <1>2, <2>1 DEF Clear, Mine
  <2>2. CASE ValidateAndSet(d)
    BY <1>3, <2>2
  <2> QED
    BY <1>5, <2>1, <2>2
    DEF Prepare, Commit, GiveUp, NextDisplay, ValidateFails
<1> QED
  BY <1>4, <1>5
  DEF Next, Request, ConfigBegin, LastDpy, DrawDone, GetPipe, GetPipeFails, vars

\* The pipe book implements the ownership rule of overlay.h: no display gets
\* a pipe that another one holds without an UNSET in between.
THEOREM Refinement == Spec => Implements
<1>1. Init => Ownership!Init
  BY DEF Init, Ownership!Init
<1> QED
  BY <1>1, OwnershipStep, Invariance, PTL DEF Spec, Implements, Ownership!Spec
=============================================================================
