---------------------------- MODULE Gralloc_proofs ----------------------------
(***************************************************************************)
(* Proofs about Gralloc, for any number of clients and buffers, any panels *)
(* and any requests: the caches and the devices (Coherent); the memory,    *)
(* mappings, descriptors and slots (ResourcesOwned); the places of the     *)
(* planes (PlanesFit).                                                     *)
(***************************************************************************)
EXTENDS Gralloc, FiniteSetTheorems, FunctionTheorems, WellFoundedInduction, TLAPS

-----------------------------------------------------------------------------
(* The operations on one copy of a handle.                                   *)

LEMMA MappedView ==
  ASSUME NEW b, NEW v \in View, NEW a, NEW fault
  PROVE  /\ Mapped(b, v, a, fault).v \in View
         /\ Mapped(b, v, a, fault).v.flush = v.flush
  BY DEF Mapped, View

LEMMA Absent == None \notin {"same", "stale", "dirty", "clash", "read", "write"}
  BY GrallocAssumption DEF Lines

\* What an operation on other buffers leaves alone.
Same(b) ==
  /\ \A p \in Process : view'[p][b] = view[p][b]
  /\ buffer'[b] = buffer[b] /\ line'[b] = line[b]
  /\ dev'[b] = dev[b] /\ cpu'[b] = cpu[b]
  /\ b \in failed' <=> b \in failed

LEMMA Elsewhere ==
  ASSUME NEW b \in Buffer, Typed, Same(b), Used(b), Flagged(b)
  PROVE  Used(b)' /\ Flagged(b)'
<1>1. /\ \A p \in Process : Live(p, b)' <=> Live(p, b)
      /\ \A l \in cpu[b] : l.by \in Process
  BY DEF Same, Live, Typed, Lock
<1>2. Exists(b)' <=> Exists(b)
  BY <1>1 DEF Exists
<1>3. /\ \A flag : Has(b, flag)' <=> Has(b, flag)
      /\ DeviceWrites(b)' <=> DeviceWrites(b)
  BY DEF Same, Has, DeviceWrites
<1>4. Used(b)'
  BY <1>1, <1>2 DEF Same, Used
<1> QED
  BY <1>1, <1>2, <1>3, <1>4 DEF Same, Flagged

-----------------------------------------------------------------------------
(* The caches: one lemma per action.                                         *)

\* A new buffer, by whichever of the ways to allocate one.
LEMMA Made ==
  ASSUME CacheInv, NEW b \in Buffer, Unused(b), NEW v \in View, NEW x,
         view' = [view EXCEPT ![Server][b] = v],
         buffer' = [buffer EXCEPT ![b] = x],
         line' = [line EXCEPT ![b] = None],
         UNCHANGED <<platform, dev, cpu, failed>>,
         "CACHED" \in x.flags
           /\ x.asked.usage \cap {"HW_RENDER", "HW_FB", "HW_CAMERA_WRITE"} # {}
           => "NON_CPU_WRITER" \in x.flags
  PROVE  CacheInv'
<1>1. Typed /\ Used(b) /\ ~Exists(b) /\ Server \in Process
  BY DEF CacheInv, Unused, Process
<1>2. /\ line[b] = None /\ dev[b] = None /\ cpu[b] = {}
  BY <1>1 DEF Used
<1>3. Typed'
  BY <1>1 DEF Typed
<1>4. /\ line'[b] = None /\ dev'[b] = None /\ cpu'[b] = {} /\ buffer'[b] = x
      /\ view'[Server][b] = v
  BY <1>1, <1>2 DEF Typed
<1>5. Used(b)'
  BY <1>4 DEF Used
<1>6. Flagged(b)'
  <2>1. Has(b, "CACHED")' /\ DeviceWrites(b)' => Has(b, "NON_CPU_WRITER")'
    BY <1>4 DEF Has, DeviceWrites
  <2> QED BY <1>4, <2>1, Absent DEF Flagged
<1>7. ASSUME NEW c \in Buffer, c # b PROVE Used(c)' /\ Flagged(c)'
  <2>1. Same(c)
    BY <1>1, <1>7 DEF Same, Typed
  <2> QED BY <1>1, <2>1, Elsewhere DEF CacheInv
<1> QED
  BY <1>3, <1>5, <1>6, <1>7 DEF CacheInv

\* An operation that touches neither buffers nor their use.
LEMMA Untouched ==
  ASSUME CacheInv, UNCHANGED <<platform, buffer, view, line, dev, cpu, failed>>
  PROVE  CacheInv'
<1>1. Typed'
  BY DEF CacheInv, Typed
<1>2. \A b \in Buffer : Same(b)
  BY DEF Same
<1> QED
  BY <1>1, <1>2, Elsewhere DEF CacheInv

LEMMA AllocBufferCache ==
  ASSUME CacheInv, NEW b \in Buffer, Unused(b), NEW r, NEW d, NEW usage, NEW fault,
         AllocBuffer(b, r, d, usage, fault), UNCHANGED <<platform, dev, cpu, failed>>,
         r.usage \cap {"HW_RENDER", "HW_FB", "HW_CAMERA_WRITE"} # {}
           => usage \cap NonCpuWriters # {}
  PROVE  CacheInv'
<1>1. CASE AllocFails(usage, fault)
  BY <1>1, Untouched DEF AllocBuffer
<1>2. CASE ~AllocFails(usage, fault)
  <2> DEFINE meta == fault \notin {"edata", "emmap"}
             v == [base |-> ~Secure(usage), meta |-> meta, fdm |-> meta, flush |-> FALSE]
             x == BufferFor(r, d, usage)
  <2>1. /\ view' = [view EXCEPT ![Server][b] = v]
        /\ buffer' = [buffer EXCEPT ![b] = x]
        /\ line' = [line EXCEPT ![b] = None]
    BY <1>2 DEF AllocBuffer
  <2>2. v \in View
    BY DEF View, Secure
  <2>3. x.asked = r /\ x.flags = FlagsOf(usage)
    BY DEF BufferFor
  <2>4. usage \cap NonCpuWriters # {} => "NON_CPU_WRITER" \in FlagsOf(usage)
    BY DEF FlagsOf
  <2> HIDE DEF v, x
  <2> QED BY <2>1, <2>2, <2>3, <2>4, Made
<1> QED
  BY <1>1, <1>2

LEMMA AllocCache ==
  ASSUME RendersToFb, CacheInv, NEW b \in Buffer, NEW r \in Asked(platform, b),
         NEW fault \in Fault, alloc(b, r, fault)
  PROVE  CacheInv'
<1>1. Unused(b) /\ UNCHANGED <<platform, cpu, dev, failed>> /\ platform \in Platforms
  BY DEF alloc, CacheInv, Typed
<1>2. CASE UNCHANGED <<buffer, view, line>>
  BY <1>1, <1>2, Untouched
<1>3. CASE AllocBuffer(b, r, Dimensions(platform, r), r.usage, fault)
  <2>1. r.usage \cap {"HW_RENDER", "HW_FB", "HW_CAMERA_WRITE"} # {}
          => r.usage \cap NonCpuWriters # {}
    BY DEF NonCpuWriters
  <2> QED BY <1>1, <1>3, <2>1, AllocBufferCache
<1>4. CASE platform.mapFb /\ "HW_FB" \in r.usage /\ AllocFramebuffer(b, r, fault)
  <2>1. CASE /\ platform.fbBuffers = 1 /\ r.usage \cap HeapMask = {}
             /\ AllocBuffer(b, r, FbDimensions, r.usage \ {"HW_FB"}, fault)
    <3>1. "HW_RENDER" \in r.usage
      BY <1>1, <1>4, <2>1 DEF RendersToFb
    <3>2. (r.usage \ {"HW_FB"}) \cap NonCpuWriters # {}
      BY <3>1 DEF NonCpuWriters
    <3> QED BY <1>1, <2>1, <3>2, AllocBufferCache
  <2>2. CASE \E slot : /\ buffer' = [buffer EXCEPT ![b] =
                            [asked |-> r, flags |-> {"FRAMEBUFFER"}, format |-> "RGBA_8888",
                             w |-> platform.xres, h |-> platform.yres, size |-> FbBufferSize,
                             offset |-> slot]]
                       /\ view' = [view EXCEPT ![Server][b] =
                            [base |-> TRUE, meta |-> FALSE, fdm |-> FALSE, flush |-> FALSE]]
                       /\ line' = [line EXCEPT ![b] = None]
    <3>1. PICK slot : buffer' = [buffer EXCEPT ![b] =
                            [asked |-> r, flags |-> {"FRAMEBUFFER"}, format |-> "RGBA_8888",
                             w |-> platform.xres, h |-> platform.yres, size |-> FbBufferSize,
                             offset |-> slot]]
      BY <2>2
    <3> DEFINE x == [asked |-> r, flags |-> {"FRAMEBUFFER"}, format |-> "RGBA_8888",
                     w |-> platform.xres, h |-> platform.yres, size |-> FbBufferSize,
                     offset |-> slot]
               v == [base |-> TRUE, meta |-> FALSE, fdm |-> FALSE, flush |-> FALSE]
    <3>2. "CACHED" \notin x.flags /\ v \in View
      BY DEF View
    <3>3. buffer' = [buffer EXCEPT ![b] = x] /\ view' = [view EXCEPT ![Server][b] = v]
          /\ line' = [line EXCEPT ![b] = None]
      BY <2>2, <3>1
    <3> HIDE DEF x, v
    <3> QED BY <1>1, <3>2, <3>3, Made
  <2> QED BY <1>2, <1>4, <2>1, <2>2 DEF AllocFramebuffer
<1> QED
  BY <1>2, <1>3, <1>4 DEF alloc

LEMMA AllocInternalCache ==
  ASSUME CacheInv, NEW b \in Buffer, NEW r, NEW fault, alloc_buffer(b, r, fault)
  PROVE  CacheInv'
<1>1. Unused(b) /\ UNCHANGED <<platform, cpu, dev, failed>>
  BY DEF alloc_buffer
<1>2. CASE AllocFails(r.usage, fault)
  BY <1>1, <1>2, Untouched DEF alloc_buffer
<1>3. CASE ~AllocFails(r.usage, fault)
  <2> DEFINE d == Dimensions(platform, r)
             x == [asked |-> r, flags |-> FlagsOf(r.usage) \cap {"SECURE_BUFFER"},
                   format |-> d.format, w |-> d.w, h |-> d.h, size |-> d.size, offset |-> 0]
             v == [base |-> ~Secure(r.usage), meta |-> FALSE, fdm |-> FALSE, flush |-> FALSE]
  <2>1. /\ view' = [view EXCEPT ![Server][b] = v]
        /\ buffer' = [buffer EXCEPT ![b] = x]
        /\ line' = [line EXCEPT ![b] = None]
    BY <1>3 DEF alloc_buffer
  <2>2. v \in View /\ "CACHED" \notin x.flags
    BY DEF View, Secure
  <2> HIDE DEF v, x
  <2> QED BY <1>1, <2>1, <2>2, Made
<1> QED
  BY <1>2, <1>3

LEMMA DroppedCache ==
  ASSUME CacheInv, NEW p \in Process, NEW b \in Buffer, Live(p, b), Idle(b),
         Dropped(p, b), UNCHANGED <<platform, cpu, dev>>
  PROVE  CacheInv'
<1>1. Typed /\ Used(b) /\ Flagged(b) /\ cpu[b] = {} /\ dev[b] = None
  BY DEF CacheInv, Idle
<1>2. /\ view' = [view EXCEPT ![p][b] = None]
      /\ view'[p][b] = None /\ \A q \in Process : q # p => view'[q][b] = view[q][b]
  BY <1>1 DEF Dropped, Typed
<1>3. Typed'
  BY <1>1, <1>2 DEF Dropped, Typed
<1>4. ASSUME NEW c \in Buffer, c # b PROVE Used(c)' /\ Flagged(c)'
  <2>1. Same(c)
    BY <1>1, <1>2, <1>4 DEF Same, Typed, Dropped
  <2> QED BY <1>1, <2>1, <1>4, Elsewhere DEF CacheInv
<1>5. CASE Holders(b) = {p}
  <2>1. line'[b] = None /\ cpu'[b] = {} /\ dev'[b] = None
    BY <1>1, <1>5 DEF Dropped, Typed
  <2>2. \A q \in Process : q # p => view[q][b] = None
    BY <1>5 DEF Holders, Live
  <2>3. ~Exists(b)'
    BY <1>2, <2>2 DEF Exists, Live
  <2>4. Used(b)' /\ Flagged(b)'
    BY <2>1, <2>3, Absent DEF Used, Flagged
  <2> QED BY <1>3, <1>4, <2>4 DEF CacheInv
<1>6. CASE Holders(b) # {p}
  <2>1. /\ buffer' = buffer /\ line' = line /\ failed' = failed
        /\ cpu'[b] = {} /\ dev'[b] = None
    BY <1>1, <1>6 DEF Dropped
  <2>2. PICK q \in Process : q # p /\ Live(q, b)
    BY <1>6 DEF Holders
  <2>3. Exists(b) /\ Exists(b)'
    BY <1>2, <2>2 DEF Exists, Live
  <2>4. Used(b)'
    BY <2>1, <2>3 DEF Used
  <2>5. Flagged(b)'
    <3>1. /\ \A flag : Has(b, flag)' <=> Has(b, flag)
          /\ DeviceWrites(b)' <=> DeviceWrites(b)
      BY <2>1 DEF Has, DeviceWrites
    <3> QED BY <1>1, <2>1, <2>3, <3>1, Absent DEF Flagged
  <2> QED BY <1>3, <1>4, <2>4, <2>5 DEF CacheInv
<1> QED
  BY <1>5, <1>6

LEMMA FreeCache ==
  ASSUME CacheInv, NEW b \in Buffer, NEW fault, free(b, fault) \/ free_buffer(b, fault)
  PROVE  CacheInv'
<1>1. Live(Server, b) /\ Idle(b) /\ UNCHANGED <<platform, cpu, dev>> /\ Server \in Process
  BY DEF free, free_buffer, Live, Process
<1>2. Dropped(Server, b)
  BY DEF free, free_buffer
<1> QED
  BY <1>1, <1>2, DroppedCache

\* A copy of a handle comes to a process, or changes there.
LEMMA ViewOnly ==
  ASSUME CacheInv, NEW p \in Process, NEW b \in Buffer, Exists(b), NEW v \in View,
         view' = [view EXCEPT ![p][b] = v],
         \A l \in cpu[b] : l.by # p,
         UNCHANGED <<platform, buffer, line, dev, cpu, failed>>
  PROVE  CacheInv'
<1>1. Typed /\ Used(b) /\ Flagged(b) /\ None \notin View
  BY GrallocAssumption DEF CacheInv
<1>2. /\ view'[p][b] = v /\ v # None
      /\ \A q \in Process : q # p => view'[q][b] = view[q][b]
      /\ \A l \in cpu[b] : l.by \in Process
  BY <1>1 DEF Typed, Lock
<1>3. Typed'
  BY <1>1 DEF Typed
<1>4. Exists(b)'
  BY <1>2 DEF Exists, Live
<1>5. Used(b)'
  BY <1>1, <1>2, <1>4 DEF Used, Live
<1>6. Flagged(b)'
  BY <1>1, <1>2, <1>4 DEF Flagged, Has, DeviceWrites
<1>7. ASSUME NEW c \in Buffer, c # b PROVE Used(c)' /\ Flagged(c)'
  <2>1. Same(c)
    BY <1>1, <1>7 DEF Same, Typed
  <2> QED BY <1>1, <2>1, <1>7, Elsewhere DEF CacheInv
<1> QED
  BY <1>3, <1>5, <1>6, <1>7 DEF CacheInv

LEMMA RegisterCache ==
  ASSUME CacheInv, NEW p \in Client, NEW b \in Buffer, NEW fault, registerBuffer(p, b, fault)
  PROVE  CacheInv'
<1> DEFINE sent == [Nothing EXCEPT !.fd = 1, !.fdm = One(Received(b).fdm)]
           r == Mapped(b, Received(b), sent, fault)
<1>1. /\ p \in Process /\ Server \in Process /\ Live(Server, b) /\ ~Live(p, b)
      /\ UNCHANGED <<platform, buffer, line, cpu, dev, failed>>
      /\ view' = [view EXCEPT ![p][b] = r.v] \/ view' = view
      /\ Typed /\ Used(b) /\ Exists(b)
  <2>1. /\ p \in Process /\ Server \in Process /\ Live(Server, b) /\ ~Live(p, b)
        /\ UNCHANGED <<platform, buffer, line, cpu, dev, failed>>
    BY DEF registerBuffer, Process
  <2>2. view' = [view EXCEPT ![p][b] = r.v] \/ view' = view
    BY DEF registerBuffer
  <2> QED BY <2>1, <2>2 DEF CacheInv, Exists
<1>2. Received(b) \in View
  <2>1. view[Server][b] \in View
    BY <1>1 DEF Typed, Live
  <2> QED BY <2>1 DEF Received, View
<1>3. r.v \in View
  BY <1>2, MappedView
<1>4. \A l \in cpu[b] : l.by # p
  BY <1>1 DEF Used
<1>5. CASE view' = view
  BY <1>1, <1>5, Untouched
<1>6. CASE view' = [view EXCEPT ![p][b] = r.v]
  <2> HIDE DEF r
  <2> QED BY <1>1, <1>3, <1>4, <1>6, ViewOnly
<1> QED
  BY <1>1, <1>5, <1>6

LEMMA UnregisterCache ==
  ASSUME CacheInv, NEW p \in Client, NEW b \in Buffer, NEW fault, unregisterBuffer(p, b, fault)
  PROVE  CacheInv'
<1>1. /\ p \in Process /\ Live(p, b) /\ Idle(b) /\ Dropped(p, b)
      /\ UNCHANGED <<platform, cpu, dev>>
  BY DEF unregisterBuffer, Process, Idle
<1> QED
  BY <1>1, DroppedCache

\* A reader throws away what the devices may have replaced; a writer is alone
\* and leaves its flag.
LEMMA LockCache ==
  ASSUME CacheInv, NEW p \in Process, NEW b \in Buffer, NEW mode \in Modes, NEW fault,
         lock(p, b, mode, fault)
  PROVE  CacheInv'
<1> DEFINE v == view[p][b]
           r == IF v.base THEN [ok |-> TRUE, v |-> v, a |-> account[p][b]]
                ELSE Mapped(b, v, account[p][b], fault)
           cleaned == Has(b, "CACHED") /\ Invalidates(b, mode)
           ok == IF cleaned THEN fault # "invalidate" ELSE r.ok
           new == [r.v EXCEPT !.flush = r.v.flush \/ (Has(b, "CACHED") /\ "write" \in mode)]
           l == [by |-> p, mode |-> mode]
<1>1. /\ Live(p, b) /\ dev[b] = None /\ b \notin failed /\ Shared(b, mode)
      /\ \A k \in cpu[b] : k.by # p
      /\ view' = [view EXCEPT ![p][b] = new]
      /\ line' = IF cleaned /\ ok THEN [line EXCEPT ![b] = None] ELSE line
      /\ cpu' = IF ok THEN [cpu EXCEPT ![b] = cpu[b] \cup {l}] ELSE cpu
      /\ failed' = IF ok THEN failed ELSE failed \cup {b}
      /\ UNCHANGED <<platform, buffer, dev>>
  BY DEF lock, Live
<1>2. Typed /\ Used(b) /\ Flagged(b) /\ None \notin View
  BY GrallocAssumption DEF CacheInv
<1>3. /\ v \in View /\ r.v \in View
  <2>1. v \in View
    BY <1>1, <1>2 DEF Typed, Live
  <2>2. CASE v.base
    BY <2>1, <2>2
  <2>3. CASE ~v.base
    <3>1. r = Mapped(b, v, account[p][b], fault)
      BY <2>3
    <3> QED BY <2>1, <3>1, MappedView
  <2> QED BY <2>1, <2>2, <2>3
<1>4. new \in View /\ (Has(b, "CACHED") /\ "write" \in mode => new.flush)
  <2> HIDE DEF r
  <2> QED BY <1>3 DEF View
<1>5. l \in Lock /\ l.by = p /\ l.mode = mode
  BY DEF Lock
<1>6. ok \in BOOLEAN /\ cleaned \in BOOLEAN
  <2>1. r.ok \in BOOLEAN
    BY DEF Mapped
  <2> HIDE DEF r
  <2> QED BY <2>1 DEF Has, Invalidates
<1> HIDE DEF v, r, ok, new, l
<1>7. Typed'
  <2> HIDE DEF cleaned
  <2> QED BY <1>1, <1>2, <1>4, <1>5 DEF Typed
<1>8. /\ view'[p][b] = new /\ \A q \in Process : q # p => view'[q][b] = view[q][b]
      /\ line'[b] = IF cleaned /\ ok THEN None ELSE line[b]
      /\ cpu'[b] = IF ok THEN cpu[b] \cup {l} ELSE cpu[b]
      /\ b \in failed' <=> ~ok
      /\ buffer'[b] = buffer[b] /\ dev'[b] = None
      /\ \A k \in cpu[b] : k.by \in Process
  <2> HIDE DEF cleaned
  <2> QED BY <1>1, <1>2, <1>6 DEF Typed, Lock
<1>9. /\ \A flag : Has(b, flag)' <=> Has(b, flag)
      /\ DeviceWrites(b)' <=> DeviceWrites(b)
      /\ Exists(b) /\ Exists(b)'
  BY <1>1, <1>2, <1>4, <1>8 DEF Has, DeviceWrites, Exists, Live
<1>10. \A k \in cpu'[b] : k = l \/ (k \in cpu[b] /\ k.by # p)
  BY <1>1, <1>8
<1>11. Used(b)'
  <2>1. \A k \in cpu'[b] : Live(k.by, b)'
    BY <1>2, <1>4, <1>5, <1>8, <1>10 DEF Used, Live
  <2>2. ASSUME NEW j \in cpu'[b], NEW k \in cpu'[b], j.by = k.by \/ "write" \in k.mode
        PROVE  j = k
    <3>1. \A i \in cpu[b] : "write" \notin i.mode /\ "write" \notin mode
      BY <1>1 DEF Shared
    <3>2. CASE j \in cpu[b] /\ k \in cpu[b]
      BY <1>2, <2>2, <3>2 DEF Used
    <3>3. CASE j = l /\ k \in cpu[b] /\ k.by # p
      BY <1>5, <2>2, <3>1, <3>3
    <3>4. CASE k = l /\ j \in cpu[b] /\ j.by # p
      BY <1>5, <2>2, <3>1, <3>4
    <3> QED BY <1>10, <3>2, <3>3, <3>4
  <2> QED BY <1>8, <1>9, <2>1, <2>2 DEF Used
<1>12. Flagged(b)'
  <2>1. \A k \in cpu'[b] : "write" \in k.mode /\ Has(b, "CACHED") => view'[k.by][b].flush
    BY <1>2, <1>4, <1>5, <1>8, <1>10 DEF Flagged
  <2>2. \A k \in cpu'[b] : "read" \in k.mode => line'[b] # "stale"
    <3>1. CASE "read" \in mode /\ ok
      <4>1. line[b] = "stale" => cleaned
        BY <1>2, <3>1, Absent DEF Flagged, Invalidates
      <4> QED BY <1>8, <3>1, <4>1, Absent
    <3>2. CASE ~("read" \in mode /\ ok)
      BY <1>2, <1>5, <1>8, <3>2, Absent DEF Flagged
    <3> QED BY <3>1, <3>2
  <2>3. line'[b] = "dirty" => b \in failed' \/ \E k \in cpu'[b] : "write" \in k.mode
    BY <1>1, <1>2, <1>8, Absent DEF Flagged
  <2>4. line'[b] # "clash" /\ (line'[b] = "stale" => Has(b, "NON_CPU_WRITER"))
        /\ (line'[b] # None => Has(b, "CACHED"))
    BY <1>2, <1>8, Absent DEF Flagged
  <2> QED BY <1>2, <1>8, <1>9, <2>1, <2>2, <2>3, <2>4, Absent DEF Flagged
<1>13. ASSUME NEW c \in Buffer, c # b PROVE Used(c)' /\ Flagged(c)'
  <2>1. Same(c)
    <3> HIDE DEF cleaned
    <3> QED BY <1>1, <1>2, <1>13 DEF Same, Typed
  <2> QED BY <1>2, <2>1, <1>13, Elsewhere DEF CacheInv
<1> QED
  BY <1>7, <1>11, <1>12, <1>13 DEF CacheInv

\* A writer's unlock cleans the line, or gives the buffer up.
LEMMA UnlockCache ==
  ASSUME CacheInv, NEW p \in Process, NEW b \in Buffer, NEW fault, unlock(p, b, fault)
  PROVE  CacheInv'
<1>1. PICK l \in cpu[b] : l.by = p /\ cpu' = [cpu EXCEPT ![b] = cpu[b] \ {l}]
  BY DEF unlock
<1> DEFINE v == view[p][b]
           new == [v EXCEPT !.flush = FALSE]
<1>2. /\ Live(p, b) /\ view' = [view EXCEPT ![p][b] = new]
      /\ UNCHANGED <<platform, buffer, dev>>
  <2>1. view' = [view EXCEPT ![p][b].flush = FALSE]
    BY DEF unlock
  <2> QED BY <2>1 DEF unlock, Live
<1>3. Typed /\ Used(b) /\ Flagged(b) /\ None \notin View
  BY GrallocAssumption DEF CacheInv
<1>4. v \in View /\ new \in View
  <2>1. v \in View
    BY <1>2, <1>3 DEF Typed, Live
  <2> QED BY <2>1 DEF View
<1>5. \/ /\ v.flush /\ line' = [line EXCEPT ![b] = Cleaned(line[b])] /\ failed' = failed
      \/ /\ v.flush /\ line' = line /\ failed' = failed \cup {b}
      \/ /\ ~v.flush /\ line' = line /\ failed' = failed
  BY DEF unlock
<1>6. Cleaned(line[b]) \in Lines \cup {None} /\ (line[b] = "dirty" => Cleaned(line[b]) = "same")
      /\ (line[b] \notin {"dirty", "clash"} => Cleaned(line[b]) = line[b])
  BY <1>3, Absent DEF Cleaned, Typed, Lines
<1> HIDE DEF v, new
<1>7. Typed'
  BY <1>1, <1>2, <1>3, <1>4, <1>5, <1>6 DEF Typed
<1>8. /\ view'[p][b] = new /\ \A q \in Process : q # p => view'[q][b] = view[q][b]
      /\ cpu'[b] = cpu[b] \ {l} /\ buffer'[b] = buffer[b] /\ dev'[b] = dev[b]
      /\ \A k \in cpu[b] : k.by \in Process
  BY <1>1, <1>2, <1>3 DEF Typed, Lock
<1>9. /\ line[b] # "dirty" => line'[b] = line[b]
      /\ line[b] = "dirty" => line'[b] \in {"same", "dirty"}
      /\ line'[b] = "dirty" => b \in failed' \/ ~v.flush
      /\ b \in failed => b \in failed'
  BY <1>3, <1>5, <1>6 DEF Typed, Flagged
<1>10. /\ \A flag : Has(b, flag)' <=> Has(b, flag)
       /\ DeviceWrites(b)' <=> DeviceWrites(b)
       /\ Exists(b) /\ Exists(b)'
  BY <1>2, <1>3, <1>4, <1>8 DEF Has, DeviceWrites, Exists, Live
<1>11. \A k \in cpu'[b] : k \in cpu[b] /\ k.by # p
  BY <1>1, <1>3, <1>8 DEF Used
<1>12. Used(b)'
  BY <1>3, <1>8, <1>10, <1>11 DEF Used, Live
<1>13. Flagged(b)'
  <2>1. \A k \in cpu'[b] : /\ "write" \in k.mode /\ Has(b, "CACHED") => view'[k.by][b].flush
                           /\ "read" \in k.mode => line'[b] # "stale"
    BY <1>3, <1>8, <1>9, <1>11 DEF Flagged
  <2>2. ASSUME line'[b] = "dirty"
        PROVE  dev'[b] = None /\ (b \in failed' \/ \E k \in cpu'[b] : "write" \in k.mode)
    <3>1. line[b] = "dirty" /\ dev'[b] = None /\ Has(b, "CACHED")
      BY <1>3, <1>8, <1>9, <2>2, Absent DEF Flagged
    <3>2. CASE b \in failed
      BY <1>9, <3>1, <3>2
    <3>3. ASSUME NEW k \in cpu[b], "write" \in k.mode PROVE b \in failed' \/ k \in cpu'[b]
      <4>1. CASE k = l
        <5>1. view[l.by][b].flush
          BY <1>3, <3>1, <3>3, <4>1 DEF Flagged
        <5>2. v.flush
          BY <1>1, <5>1 DEF v
        <5> QED BY <1>9, <2>2, <5>2
      <4> QED BY <1>8, <4>1
    <3> QED BY <1>3, <3>1, <3>2, <3>3 DEF Flagged
  <2>3. line'[b] # "clash" /\ (line'[b] = "stale" => Has(b, "NON_CPU_WRITER"))
        /\ (line'[b] # None => Has(b, "CACHED"))
    BY <1>3, <1>9, Absent DEF Flagged
  <2> QED BY <1>3, <1>8, <1>10, <2>1, <2>2, <2>3 DEF Flagged
<1>14. ASSUME NEW c \in Buffer, c # b PROVE Used(c)' /\ Flagged(c)'
  <2>1. Same(c)
    BY <1>1, <1>2, <1>3, <1>5, <1>14 DEF Same, Typed
  <2> QED BY <1>3, <2>1, <1>14, Elsewhere DEF CacheInv
<1> QED
  BY <1>7, <1>12, <1>13, <1>14 DEF CacheInv

\* What the cache and the devices do of their own accord.
LEMMA LineOnly ==
  ASSUME CacheInv, NEW b \in Buffer, NEW x \in Lines \cup {None}, NEW use \in {None, "read", "write"},
         line' = [line EXCEPT ![b] = x], dev' = [dev EXCEPT ![b] = use],
         UNCHANGED <<platform, buffer, view, cpu, failed>>,
         ~Exists(b) => x = None /\ use = None, use # None => cpu[b] = {},
         x # None => Has(b, "CACHED"), use = "write" => DeviceWrites(b),
         x = "stale" => Has(b, "NON_CPU_WRITER") /\ \A l \in cpu[b] : "read" \notin l.mode,
         x = "dirty" => use = None /\ (b \in failed \/ \E l \in cpu[b] : "write" \in l.mode),
         x # "clash"
  PROVE  CacheInv'
<1>1. Typed /\ Used(b) /\ Flagged(b)
  BY DEF CacheInv
<1>2. Typed'
  BY <1>1 DEF Typed
<1>3. line'[b] = x /\ dev'[b] = use
  BY <1>1 DEF Typed
<1>4. /\ \A flag : Has(b, flag)' <=> Has(b, flag)
      /\ DeviceWrites(b)' <=> DeviceWrites(b)
      /\ Exists(b)' <=> Exists(b)
      /\ \A p : Live(p, b)' <=> Live(p, b)
  BY DEF Has, DeviceWrites, Exists, Live
<1>5. Used(b)'
  BY <1>1, <1>3, <1>4 DEF Used
<1>6. Flagged(b)'
  BY <1>1, <1>3, <1>4 DEF Flagged
<1>7. ASSUME NEW c \in Buffer, c # b PROVE Used(c)' /\ Flagged(c)'
  <2>1. Same(c)
    BY <1>1, <1>7 DEF Same, Typed
  <2> QED BY <1>1, <2>1, <1>7, Elsewhere DEF CacheInv
<1> QED
  BY <1>2, <1>5, <1>6, <1>7 DEF CacheInv

LEMMA FetchCache == ASSUME CacheInv, NEW b \in Buffer, Fetch(b) PROVE CacheInv'
<1>1. Typed /\ Used(b) /\ Flagged(b)
  BY DEF CacheInv
<1>2. line' = [line EXCEPT ![b] = "same"] /\ dev' = [dev EXCEPT ![b] = dev[b]]
      /\ UNCHANGED <<platform, buffer, view, cpu, failed>> /\ Exists(b) /\ Has(b, "CACHED")
  BY <1>1 DEF Fetch, Typed
<1>3. "same" \in Lines \cup {None} /\ dev[b] \in {None, "read", "write"}
  BY <1>1 DEF Lines, Typed
<1>4. dev[b] # None => cpu[b] = {}
  BY <1>1 DEF Used
<1>5. dev[b] = "write" => DeviceWrites(b)
  BY <1>1 DEF Flagged
<1> QED
  BY <1>2, <1>3, <1>4, <1>5, LineOnly

LEMMA CpuWriteCache == ASSUME CacheInv, NEW b \in Buffer, CpuWrite(b) PROVE CacheInv'
<1>1. Typed /\ Used(b) /\ Flagged(b)
  BY DEF CacheInv
<1>2. line' = [line EXCEPT ![b] = "dirty"] /\ dev' = [dev EXCEPT ![b] = None]
      /\ UNCHANGED <<platform, buffer, view, cpu, failed>> /\ Has(b, "CACHED")
      /\ (\E l \in cpu[b] : "write" \in l.mode)
  BY <1>1 DEF CpuWrite, Typed, Used
<1>3. "dirty" \in Lines \cup {None} /\ Exists(b)
  BY <1>1, <1>2 DEF Lines, Used
<1> QED
  BY <1>2, <1>3, LineOnly, Absent

LEMMA DeviceCache ==
  ASSUME CacheInv, NEW b \in Buffer,
         (\E op \in {"read", "write"} : DeviceBegin(b, op)) \/ DeviceEnd(b)
  PROVE  CacheInv'
<1>1. Typed /\ Used(b) /\ Flagged(b)
  BY DEF CacheInv
<1>2. ASSUME NEW op \in {"read", "write"}, DeviceBegin(b, op) PROVE CacheInv'
  <2>1. line' = [line EXCEPT ![b] = line[b]] /\ dev' = [dev EXCEPT ![b] = op]
        /\ UNCHANGED <<platform, buffer, view, cpu, failed>> /\ Exists(b)
        /\ cpu[b] = {} /\ b \notin failed /\ (op = "write" => DeviceWrites(b))
    BY <1>1, <1>2 DEF DeviceBegin, Typed, Idle
  <2>2. line[b] \in Lines \cup {None} /\ op \in {None, "read", "write"}
    BY <1>1 DEF Typed
  <2>3. /\ line[b] # None => Has(b, "CACHED")
        /\ line[b] = "stale" => Has(b, "NON_CPU_WRITER")
        /\ line[b] # "dirty" /\ line[b] # "clash"
    BY <1>1, <2>1 DEF Flagged
  <2>4. (op = "write" => DeviceWrites(b)) /\ (line[b] = "stale" => \A l \in cpu[b] : "read" \notin l.mode)
    BY <2>1
  <2> DEFINE x == line[b]
  <2>5. line' = [line EXCEPT ![b] = x] /\ x \in Lines \cup {None}
    BY <2>1, <2>2
  <2>6. /\ x # None => Has(b, "CACHED")
        /\ x = "stale" => Has(b, "NON_CPU_WRITER") /\ \A l \in cpu[b] : "read" \notin l.mode
        /\ x # "dirty" /\ x # "clash"
    BY <2>3, <2>4
  <2> HIDE DEF x
  <2> QED BY <2>1, <2>2, <2>5, <2>6, LineOnly
<1>3. CASE DeviceEnd(b)
  <2> DEFINE x == IF dev[b] = "write" /\ line[b] = "same" THEN "stale" ELSE line[b]
  <2>1. /\ dev[b] # None /\ dev' = [dev EXCEPT ![b] = None]
        /\ UNCHANGED <<platform, buffer, view, cpu, failed>>
    BY <1>3 DEF DeviceEnd
  <2>2. Exists(b) /\ cpu[b] = {} /\ line[b] \notin {"dirty", "clash"}
    BY <1>1, <2>1 DEF Used, Flagged
  <2>3. line' = [line EXCEPT ![b] = x]
    BY <1>1, <1>3, <2>2 DEF DeviceEnd, Typed
  <2>4. x \in Lines \cup {None} /\ (x # None => Has(b, "CACHED"))
        /\ (x = "stale" => Has(b, "NON_CPU_WRITER")) /\ x \notin {"dirty", "clash"}
    BY <1>1, <2>2, Absent DEF Typed, Lines, Flagged
  <2>5. x = "stale" => Has(b, "NON_CPU_WRITER") /\ \A l \in cpu[b] : "read" \notin l.mode
    BY <2>2, <2>4
  <2>6. x # "clash" /\ x # "dirty" /\ None \in {None, "read", "write"} /\ None # "write"
    BY <2>4, Absent
  <2> DEFINE use == None
  <2>7. dev' = [dev EXCEPT ![b] = use] /\ use \in {None, "read", "write"} /\ use = None
        /\ (use = "write" => DeviceWrites(b))
    BY <2>1, <2>6
  <2> HIDE DEF x, use
  <2> QED BY <2>1, <2>2, <2>3, <2>4, <2>5, <2>6, <2>7, LineOnly
<1> QED
  BY <1>2, <1>3

LEMMA CacheInit == Init => CacheInv
<1> SUFFICES ASSUME Init PROVE CacheInv
  OBVIOUS
<1>1. Typed
  BY DEF Init, Typed
<1>2. ASSUME NEW b \in Buffer PROVE Used(b) /\ Flagged(b)
  <2>1. line[b] = None /\ dev[b] = None /\ cpu[b] = {} /\ ~Exists(b)
    BY <1>2 DEF Init, Exists, Live
  <2>2. Used(b)
    BY <2>1 DEF Used
  <2>3. Flagged(b)
    BY <2>1, Absent DEF Flagged
  <2> QED BY <2>2, <2>3
<1> QED
  BY <1>1, <1>2 DEF CacheInv

LEMMA CacheStep == ASSUME RendersToFb, CacheInv, [Next]_vars PROVE CacheInv'
<1>1. CASE mapFrameBuffer
  BY <1>1, Untouched DEF mapFrameBuffer
<1>2. CASE UNCHANGED vars
  BY <1>2, Untouched DEF vars
<1>3. ASSUME NEW b \in Buffer, NEW r \in Asked(platform, b), NEW f \in Fault, alloc(b, r, f)
      PROVE  CacheInv'
  BY <1>3, AllocCache
<1>4. ASSUME NEW b \in Buffer, NEW r \in Asked(platform, b), NEW f \in Fault, alloc_buffer(b, r, f)
      PROVE  CacheInv'
  BY <1>4, AllocInternalCache
<1>5. ASSUME NEW b \in Buffer, NEW f \in Fault, free(b, f) \/ free_buffer(b, f) PROVE CacheInv'
  BY <1>5, FreeCache
<1>6. ASSUME NEW b \in Buffer, NEW p \in Client, NEW f \in Fault, registerBuffer(p, b, f)
      PROVE  CacheInv'
  BY <1>6, RegisterCache
<1>7. ASSUME NEW b \in Buffer, NEW p \in Client, NEW f \in Fault, unregisterBuffer(p, b, f)
      PROVE  CacheInv'
  BY <1>7, UnregisterCache
<1>8. ASSUME NEW b \in Buffer, NEW p \in Process, NEW mode \in Modes, NEW f \in Fault,
             lock(p, b, mode, f)
      PROVE  CacheInv'
  BY <1>8, LockCache
<1>9. ASSUME NEW b \in Buffer, NEW p \in Process, NEW f \in Fault, unlock(p, b, f)
      PROVE  CacheInv'
  BY <1>9, UnlockCache
<1>10. ASSUME NEW b \in Buffer, Fetch(b) \/ CpuWrite(b) PROVE CacheInv'
  BY <1>10, FetchCache, CpuWriteCache
<1>11. ASSUME NEW b \in Buffer, (\E op \in {"read", "write"} : DeviceBegin(b, op)) \/ DeviceEnd(b)
       PROVE  CacheInv'
  BY <1>11, DeviceCache
<1> QED
  BY <1>1, <1>2, <1>3, <1>4, <1>5, <1>6, <1>7, <1>8, <1>9, <1>10, <1>11 DEF Next

\* Coherent of Gralloc, with the calls of the kernel failing at will: who
\* locks a buffer to read never has a line older than what a device wrote,
\* and no device works on memory the cache has newer data for, because the
\* flags gralloc_alloc_buffer gives, the flag gralloc_lock leaves and the
\* cleaning of gralloc_unlock agree.  It rests on what is drawn into the
\* framebuffer's memory being asked for with HW_RENDER (RendersToFb): with
\* one buffer the usage loses HW_FB before the flags are worked out.
THEOREM Coherence == ASSUME RendersToFb PROVE Spec => []Coherent
<1>1. CacheInv => Coherent
  BY Absent DEF CacheInv, Used, Flagged, Coherent
<1> QED
  BY <1>1, CacheInit, CacheStep, PTL DEF Spec

-----------------------------------------------------------------------------
(* What a process has of the kernel's: the framebuffer's slots first.      *)

LEMMA Quotient ==
  ASSUME NEW i \in Nat, NEW a \in Nat, NEW e \in Nat, i * e < a
  PROVE  (i * (a + e)) \div a = i
<1>1. i * (a + e) = i * a + i * e /\ i * e \in Nat /\ i * a \in Int /\ a > 0
  OBVIOUS
<1> DEFINE q == i * e
           m == i * a
<1>2. i * (a + e) = m + q /\ q \in Nat /\ q < a /\ m \in Int
  BY <1>1
<1>3. (m + q) \div a = i
  BY <1>2
<1> QED
  BY <1>2, <1>3

LEMMA Scaled == ASSUME NEW i \in Nat, NEW a \in Nat, NEW c \in Nat, a <= c PROVE i * a <= i * c
<1> DEFINE d == c - a
<1>1. d \in Nat /\ c = a + d
  OBVIOUS
<1> HIDE DEF d
<1>2. i * (a + d) = i * a + i * d /\ i * d \in Nat /\ i * a \in Int
  BY <1>1
<1> QED
  BY <1>1, <1>2

LEMMA Rounded == ASSUME NEW x \in Nat PROVE AlignUp(x, Page) \in x .. x + Page - 1
  BY DEF AlignUp, Page

\* A slot's offset leads back to the slot, in pages and in the panel's bytes.
LEMMA SlotBack ==
  ASSUME Panels, platform \in Platforms, NEW i \in FbSlots
  PROVE  /\ (i * FbBufferSize) \div FbBufferSize = i
         /\ SlotOf(i * FbBufferSize) = i
<1>1. /\ FbBytes \in Nat /\ platform.fbBuffers \in Nat /\ FbBytes > platform.fbBuffers * Page
      /\ i \in Nat /\ i < platform.fbBuffers
  BY DEF Panels, FbBytes, FbSlots
<1> DEFINE e == FbBufferSize - FbBytes
<1>2. e \in 0 .. Page - 1 /\ FbBufferSize = FbBytes + e /\ FbBufferSize \in Nat
  <2>1. FbBufferSize \in FbBytes .. FbBytes + Page - 1
    BY <1>1, Rounded DEF FbBufferSize
  <2> QED BY <1>1, <2>1 DEF Page
<1>3. i * e < FbBytes
  <2> HIDE DEF e
  <2>1. i * e <= i * Page
    <3>1. e \in Nat /\ Page \in Nat /\ e <= Page
      BY <1>2 DEF Page
    <3> QED BY <1>1, <3>1, Scaled
  <2>2. i * Page <= platform.fbBuffers * Page
    BY <1>1 DEF Page
  <2>3. i * e \in Int /\ i * Page \in Int /\ platform.fbBuffers * Page \in Int
    BY <1>1, <1>2 DEF Page
  <2> DEFINE x == i * e
             y == i * Page
             z == platform.fbBuffers * Page
  <2>4. x \in Int /\ y \in Int /\ z \in Int /\ x <= y /\ y <= z /\ z < FbBytes /\ FbBytes \in Int
    BY <1>1, <2>1, <2>2, <2>3
  <2> HIDE DEF x, y, z
  <2>5. x < FbBytes
    BY <2>4
  <2> QED BY <2>5 DEF x
<1>4. (i * FbBufferSize) \div FbBytes = i
  <2> HIDE DEF e
  <2> QED BY <1>1, <1>2, <1>3, Quotient
<1>5. (i * FbBufferSize) \div FbBufferSize = i
  <2>1. platform.fbBuffers * Page \in Nat /\ i * 0 = 0
    BY <1>1 DEF Page
  <2>3. FbBufferSize > 0 /\ i * 0 < FbBufferSize
    <3> HIDE DEF e
    <3> QED BY <1>1, <1>2, <2>1
  <2>2. (i * (FbBufferSize + 0)) \div FbBufferSize = i
    BY <1>1, <1>2, <2>3, Quotient
  <2> QED BY <1>2, <2>2
<1> QED
  BY <1>4, <1>5 DEF SlotOf

LEMMA LowestSlot ==
  ASSUME Panels, platform \in Platforms, ~(FbSlots \subseteq fb.mask)
  PROVE  FreeSlot \in FbSlots \ fb.mask
<1> DEFINE untaken == FbSlots \ fb.mask
<1>1. untaken # {} /\ untaken \subseteq Nat
  BY DEF FbSlots, Panels
<1>2. PICK x \in untaken : \A y \in untaken : <<y, x>> \notin OpToRel(<, Nat)
  BY <1>1, WFMin, NatLessThanWellFounded, Zenon
<1>3. \A y \in untaken : ~(y < x)
  BY <1>1, <1>2, Zenon DEF OpToRel
<1>4. \A y \in untaken : x <= y
  BY <1>1, <1>3
<1> QED
  BY <1>4 DEF FreeSlot

-----------------------------------------------------------------------------
(* What the descriptors and mappings of a process stand for.               *)

\* What an operation on other buffers leaves alone.
Alike(b) ==
  /\ \A p \in Process : /\ view'[p][b] = view[p][b] /\ account'[p][b] = account[p][b]
                         /\ struck'[p][b] = struck[p][b]
  /\ buffer'[b] = buffer[b]

Counts(a, fd, fdm, data, meta) ==
  /\ a \in Count
  /\ a.fd = fd /\ a.fdm = fdm /\ a.data = data /\ a.meta = meta

LEMMA Counted1 ==
  ASSUME NEW a \in Count, NEW x \in Int
  PROVE  /\ Counts([a EXCEPT !.fd = x], x, a.fdm, a.data, a.meta)
         /\ Counts([a EXCEPT !.fdm = x], a.fd, x, a.data, a.meta)
         /\ Counts([a EXCEPT !.data = x], a.fd, a.fdm, x, a.meta)
         /\ Counts([a EXCEPT !.meta = x], a.fd, a.fdm, a.data, x)
  BY SMT DEF Count, Counts

LEMMA InPairs ==
  ASSUME NEW a \in Count, NEW x \in Int, NEW y \in Int
  PROVE  /\ Counts([a EXCEPT !.fd = x, !.data = y], x, a.fdm, y, a.meta)
         /\ Counts([a EXCEPT !.fd = x, !.fdm = y], x, y, a.data, a.meta)
         /\ Counts([a EXCEPT !.fdm = x, !.meta = y], a.fd, x, a.data, y)
<1> DEFINE f == [a EXCEPT !.fd = x]
           m == [a EXCEPT !.fdm = x]
<1>1. Counts(f, x, a.fdm, a.data, a.meta) /\ Counts(m, a.fd, x, a.data, a.meta)
  BY Counted1
<1> HIDE DEF f, m
<1>2. /\ Counts([f EXCEPT !.data = y], f.fd, f.fdm, y, f.meta)
      /\ Counts([f EXCEPT !.fdm = y], f.fd, y, f.data, f.meta)
      /\ Counts([m EXCEPT !.meta = y], m.fd, m.fdm, m.data, y)
  BY <1>1, Counted1 DEF Counts
<1>3. /\ Counts([f EXCEPT !.data = y], x, a.fdm, y, a.meta)
      /\ Counts([f EXCEPT !.fdm = y], x, y, a.data, a.meta)
      /\ Counts([m EXCEPT !.meta = y], a.fd, x, a.data, y)
  BY <1>1, <1>2, Zenon DEF Counts
<1> QED
  BY <1>3, Zenon DEF f, m

LEMMA NothingCounts == Counts(Nothing, 0, 0, 0, 0)
  BY SMT DEF Nothing, Count, Counts

\* What an operation on counts does to them.
LEMMA FreedDataCounts ==
  ASSUME NEW v \in View, NEW a \in Count, NEW fault
  PROVE  Counts(FreedData(v, a, fault), a.fd - 1, a.fdm,
                a.data - One(v.base /\ fault # "munmap"), a.meta)
<1> DEFINE x == a.fd - 1
           y == a.data - One(v.base /\ fault # "munmap")
<1>1. x \in Int /\ y \in Int
  BY DEF Count, One
<1>2. FreedData(v, a, fault) = [a EXCEPT !.fd = x, !.data = y]
  BY DEF FreedData
<1> HIDE DEF x, y
<1>3. Counts([a EXCEPT !.fd = x, !.data = y], x, a.fdm, y, a.meta)
  BY <1>1, InPairs
<1> QED
  BY <1>2, <1>3 DEF x, y

LEMMA FreedMetaCounts ==
  ASSUME NEW v \in View, NEW a \in Count, NEW fault
  PROVE  Counts(FreedMeta(v, a, fault), a.fd, a.fdm - One(v.fdm), a.data,
                a.meta - One(v.meta /\ fault # "munmapMeta"))
<1> DEFINE x == a.fdm - One(v.fdm)
           y == a.meta - One(v.meta /\ fault # "munmapMeta")
<1>1. x \in Int /\ y \in Int
  BY DEF Count, One
<1>2. FreedMeta(v, a, fault) = [a EXCEPT !.fdm = x, !.meta = y]
  BY DEF FreedMeta
<1> HIDE DEF x, y
<1>3. Counts([a EXCEPT !.fdm = x, !.meta = y], a.fd, x, a.data, y)
  BY <1>1, InPairs
<1> QED
  BY <1>2, <1>3 DEF x, y

LEMMA ClosedCounts ==
  ASSUME NEW v \in View, NEW a \in Count
  PROVE  Counts(Closed(v, a), a.fd - 1, a.fdm - One(v.fdm), a.data, a.meta)
<1> DEFINE x == a.fd - 1
           y == a.fdm - One(v.fdm)
<1>1. x \in Int /\ y \in Int
  BY DEF Count, One
<1>2. Closed(v, a) = [a EXCEPT !.fd = x, !.fdm = y]
  BY DEF Closed
<1> HIDE DEF x, y
<1>3. Counts([a EXCEPT !.fd = x, !.fdm = y], x, y, a.data, a.meta)
  BY <1>1, InPairs
<1> QED
  BY <1>2, <1>3 DEF x, y

\* Counts a that cover what is owed, and exceed it only for the calls m.
Over(a, fd, fdm, data, meta, m) ==
  /\ a \in Count
  /\ a.fd >= fd /\ (a.fd > fd => m \cap {"mmap", "mmapSystem"} # {})
  /\ a.fdm >= fdm /\ (a.fdm > fdm => m \cap {"emmap", "munmap"} # {})
  /\ a.data >= data /\ (a.data > data => m \cap {"mapMeta", "munmap"} # {})
  /\ a.meta >= meta /\ (a.meta > meta => m \cap {"munmap", "munmapMeta"} # {})

Backed(a, o, m) ==
  \A c \in DOMAIN Nothing : a[c] >= o[c] /\ (a[c] > o[c] => m \cap Keeps[c] # {})

LEMMA FourKinds ==
  ASSUME NEW a \in Count, NEW o \in Count, NEW m
  PROVE  Backed(a, o, m) <=> Over(a, o.fd, o.fdm, o.data, o.meta, m)
<1>1. DOMAIN Nothing = {"fd", "fdm", "data", "meta"}
  BY DEF Nothing
<1>2. /\ Keeps["fd"] = {"mmap", "mmapSystem"} /\ Keeps["fdm"] = {"emmap", "munmap"}
      /\ Keeps["data"] = {"mapMeta", "munmap"} /\ Keeps["meta"] = {"munmap", "munmapMeta"}
  BY DEF Keeps
<1> QED
  BY <1>1, <1>2 DEF Backed, Over

LEMMA Owes ==
  ASSUME NEW v \in View
  PROVE  Counts(Owed(v), 1, One(v.fdm), One(v.base), One(v.meta))
<1>1. v # None
  BY GrallocAssumption
<1> QED
  BY <1>1, SMT DEF Owed, One, Count, Counts

LEMMA OwesNothing == Counts(Owed(None), 0, 0, 0, 0)
  BY NothingCounts DEF Owed

LEMMA OverLive ==
  ASSUME NEW v \in View, NEW a \in Count, NEW m
  PROVE  Backed(a, Owed(v), m) <=> Over(a, 1, One(v.fdm), One(v.base), One(v.meta), m)
<1> DEFINE o == Owed(v)
<1>1. o \in Count /\ o.fd = 1 /\ o.fdm = One(v.fdm) /\ o.data = One(v.base) /\ o.meta = One(v.meta)
  BY Owes DEF Counts
<1> HIDE DEF o
<1>2. Backed(a, o, m) <=> Over(a, o.fd, o.fdm, o.data, o.meta, m)
  BY <1>1, FourKinds
<1> QED
  BY <1>1, <1>2, Zenon DEF o

LEMMA OverGone ==
  ASSUME NEW a \in Count, NEW m
  PROVE  Backed(a, Owed(None), m) <=> Over(a, 0, 0, 0, 0, m)
<1> DEFINE o == Owed(None)
<1>1. o \in Count /\ o.fd = 0 /\ o.fdm = 0 /\ o.data = 0 /\ o.meta = 0
  BY OwesNothing DEF Counts
<1> HIDE DEF o
<1>2. Backed(a, o, m) <=> Over(a, o.fd, o.fdm, o.data, o.meta, m)
  BY <1>1, FourKinds
<1> QED
  BY <1>1, <1>2, Zenon DEF o

LEMMA NothingOver == ASSUME NEW m PROVE Over(Nothing, 0, 0, 0, 0, m)
  BY NothingCounts DEF Counts, Over

\* A copy of a handle is taken apart: what a failing munmap leaves has its cause.
LEMMA Remainder ==
  ASSUME NEW a, NEW fd \in Nat, NEW fdm \in Nat, NEW data \in Nat, NEW meta \in Nat, NEW m,
         Over(a, fd, fdm, data, meta, m), NEW n, m \subseteq n, NEW e \in Count,
         e.fd = a.fd - fd,
         e.fdm = a.fdm - fdm \/ (e.fdm = a.fdm /\ "munmap" \in n),
         e.data = a.data - data \/ (e.data = a.data /\ "munmap" \in n),
         e.meta = a.meta - meta
           \/ (e.meta = a.meta /\ n \cap {"munmap", "munmapMeta"} # {})
  PROVE  Over(e, 0, 0, 0, 0, n)
<1>1. /\ a.fd \in Int /\ a.fdm \in Int /\ a.data \in Int /\ a.meta \in Int
      /\ e.fd \in Int /\ e.fdm \in Int /\ e.data \in Int /\ e.meta \in Int
  BY DEF Over, Count
<1>2. \A s : m \cap s # {} => n \cap s # {}
  OBVIOUS
<1>3. e.fd >= 0 /\ (e.fd > 0 => n \cap {"mmap", "mmapSystem"} # {})
  BY <1>1, <1>2 DEF Over
<1>4. e.fdm >= 0 /\ (e.fdm > 0 => n \cap {"emmap", "munmap"} # {})
  BY <1>1, <1>2 DEF Over
<1>5. e.data >= 0 /\ (e.data > 0 => n \cap {"mapMeta", "munmap"} # {})
  BY <1>1, <1>2 DEF Over
<1>6. e.meta >= 0 /\ (e.meta > 0 => n \cap {"munmap", "munmapMeta"} # {})
  BY <1>1, <1>2 DEF Over
<1> QED
  BY <1>3, <1>4, <1>5, <1>6 DEF Over

LEMMA KeptIs ==
  ASSUME NEW p, NEW b
  PROVE  (\A c \in DOMAIN Nothing : Kept(p, b, c))
           <=> Backed(account[p][b], Owed(view[p][b]), struck[p][b])
  BY DEF Kept, Backed

\* What an allocation leaves is the descriptor and mapping of the buffer, and
\* the descriptors whose memory was not mapped.
LEMMA Left ==
  ASSUME NEW usage, NEW fault
  PROVE  LET left == AllocLeft(usage, fault)
             m == AllocStruck(usage, fault)
         IN  /\ AllocFails(usage, fault) => Over(left, 0, 0, 0, 0, m)
             /\ ~AllocFails(usage, fault) =>
                  /\ Over(left, 1, 0, One(~Secure(usage)), 0, m)
                  /\ left.fdm = 0 /\ left.meta = 0
             /\ fault = "emmap" => "emmap" \in m
<1> DEFINE kept == AllocKept(usage, fault)
           left == AllocLeft(usage, fault)
           m == AllocStruck(usage, fault)
           x == One(~Secure(usage))
<1>1. kept \in Nat /\ (kept > 0 => m \cap {"mmap", "mmapSystem"} # {})
  BY DEF AllocKept, AllocStruck
<1>2. fault = "emmap" => "emmap" \in m
  BY DEF AllocStruck
<1>3. Nothing \in Count /\ Nothing.fd = 0 /\ Nothing.fdm = 0 /\ Nothing.data = 0 /\ Nothing.meta = 0
  BY NothingCounts DEF Counts
<1>4. x \in 0 .. 1
  BY DEF One
<1>5. left = IF AllocFails(usage, fault) THEN [Nothing EXCEPT !.fd = kept]
             ELSE [Nothing EXCEPT !.fd = kept + 1, !.data = x]
  BY DEF AllocLeft
<1> HIDE DEF kept, m, x
<1>6. CASE AllocFails(usage, fault)
  <2>1. left = [Nothing EXCEPT !.fd = kept]
    BY <1>5, <1>6
  <2> HIDE DEF left
  <2>2. Counts(left, kept, 0, 0, 0)
    <3>1. Counts([Nothing EXCEPT !.fd = kept], kept, Nothing.fdm, Nothing.data, Nothing.meta)
      <4>1. kept \in Int
        BY <1>1
      <4> QED BY <1>3, <4>1, Counted1
    <3> QED BY <1>3, <2>1, <3>1
  <2>3. Over(left, 0, 0, 0, 0, m)
    BY <1>1, <2>2 DEF Counts, Over
  <2> QED BY <1>2, <1>6, <2>3 DEF left, m
<1>7. CASE ~AllocFails(usage, fault)
  <2> DEFINE n == kept + 1
  <2>1. n \in Int /\ x \in Int /\ left = [Nothing EXCEPT !.fd = n, !.data = x]
    BY <1>1, <1>4, <1>5, <1>7
  <2>2. Counts(left, n, 0, x, 0)
    <3> HIDE DEF n
    <3> QED BY <1>3, <2>1, InPairs
  <2> HIDE DEF left
  <2>3. Over(left, 1, 0, x, 0, m) /\ left.fdm = 0 /\ left.meta = 0
    <3>1. n >= 1 /\ (n > 1 => m \cap {"mmap", "mmapSystem"} # {})
      BY <1>1
    <3> HIDE DEF n
    <3> QED BY <1>4, <2>2, <3>1 DEF Counts, Over
  <2> QED BY <1>2, <1>7, <2>3 DEF left, m, x
<1> QED
  BY <1>6, <1>7

LEMMA AlikeKept ==
  ASSUME NEW b \in Buffer, Alike(b), UNCHANGED platform
  PROVE  /\ Carved(b)' <=> Carved(b)
         /\ Slot(b)' = Slot(b)
         /\ FbBufferSize' = FbBufferSize
         /\ Owned(b) => Owned(b)'
<1>1. /\ \A p \in Process : Live(p, b)' <=> Live(p, b)
      /\ Holders(b)' = Holders(b)
  BY DEF Alike, Live, Holders
<1>2. Exists(b)' <=> Exists(b)
  BY <1>1 DEF Exists
<1>3. \A flag : Has(b, flag)' <=> Has(b, flag)
  BY DEF Alike, Has
<1>4. Carved(b)' <=> Carved(b)
  BY <1>2, <1>3 DEF Carved
<1>5. FbBufferSize' = FbBufferSize /\ Slot(b)' = Slot(b)
  BY DEF Alike, Slot, FbBufferSize, FbBytes
<1>6. \A p \in Process, c \in DOMAIN Nothing : Kept(p, b, c)' <=> Kept(p, b, c)
  BY DEF Alike, Kept, Owed, Nothing, Keeps, One
<1>7. Owned(b) => Owned(b)'
  BY <1>1, <1>3, <1>4, <1>6 DEF Alike, Owned, Nothing
<1> QED
  BY <1>4, <1>5, <1>7

\* An operation on one buffer that has no slot and gets none.
LEMMA OneBuffer ==
  ASSUME OwnInv, NEW b \in Buffer, UNCHANGED <<platform, fb>>,
         view' \in [Process -> [Buffer -> View \cup {None}]],
         account' \in [Process -> [Buffer -> Count]],
         struck' \in [Process -> [Buffer -> SUBSET Calls]], DOMAIN buffer' = Buffer,
         ~Carved(b), ~Carved(b)', Owned(b)', \A c \in Buffer : c # b => Alike(c)
  PROVE  OwnInv'
<1>1. FbSlots' = FbSlots /\ Counted'
  BY DEF OwnInv, Counted, FbSlots
<1>2. ASSUME NEW c \in Buffer
      PROVE  /\ Carved(c)' <=> Carved(c)
             /\ Carved(c) => Slot(c)' = Slot(c) /\ buffer'[c] = buffer[c]
             /\ Owned(c)'
  <2>1. CASE c = b
    BY <2>1
  <2>2. CASE c # b
    BY <1>2, <2>2, AlikeKept DEF OwnInv, Alike
  <2> QED BY <2>1, <2>2
<1>3. FbBufferSize' = FbBufferSize
  BY DEF FbBufferSize, FbBytes
<1>4. Slotted'
  BY <1>2, <1>3 DEF OwnInv, Slotted
<1> QED
  BY <1>1, <1>2, <1>4 DEF OwnInv

LEMMA OwnUntouched ==
  ASSUME OwnInv, UNCHANGED <<platform, fb, buffer, view, account, struck>>
  PROVE  OwnInv'
<1>1. FbSlots' = FbSlots /\ Counted' /\ FbBufferSize' = FbBufferSize
  BY DEF OwnInv, Counted, FbSlots, FbBufferSize, FbBytes
<1>2. ASSUME NEW c \in Buffer
      PROVE  (Carved(c)' <=> Carved(c)) /\ Slot(c)' = Slot(c) /\ Owned(c)'
  BY <1>2, AlikeKept DEF OwnInv, Alike
<1>3. Slotted'
  BY <1>1, <1>2 DEF OwnInv, Slotted
<1> QED
  BY <1>1, <1>2, <1>3 DEF OwnInv

\* The operations change the counts and the history of one copy.
LEMMA OneCopy ==
  ASSUME Counted, NEW b \in Buffer, NEW p \in Process, NEW a \in Count, NEW m \in SUBSET Calls,
         account' = [account EXCEPT ![p][b] = a], struck' = [struck EXCEPT ![p][b] = m]
  PROVE  /\ account' \in [Process -> [Buffer -> Count]]
         /\ struck' \in [Process -> [Buffer -> SUBSET Calls]]
         /\ account'[p][b] = a /\ struck'[p][b] = m
         /\ \A q \in Process, c \in Buffer : <<q, c>> # <<p, b>> =>
              account'[q][c] = account[q][c] /\ struck'[q][c] = struck[q][c]
<1>1. /\ account \in [Process -> [Buffer -> Count]]
      /\ struck \in [Process -> [Buffer -> SUBSET Calls]]
  BY DEF Counted
<1> QED
  BY <1>1

\* The first copy of a handle is that of the process that allocated it.
LEMMA OwnMade ==
  ASSUME OwnInv, NEW b \in Buffer, Unused(b), NEW v \in View, NEW x, NEW a, NEW m \in SUBSET Calls,
         view' = [view EXCEPT ![Server][b] = v],
         buffer' = [buffer EXCEPT ![b] = x],
         account' = [account EXCEPT ![Server][b] = a],
         struck' = [struck EXCEPT ![Server][b] = m],
         Over(a, 1, One(v.fdm), One(v.base), One(v.meta), m),
         UNCHANGED <<platform, fb>>, "FRAMEBUFFER" \notin x.flags,
         v.base = ("SECURE_BUFFER" \notin x.flags),
         v.meta = v.fdm, x.asked.internal => ~v.fdm
  PROVE  OwnInv'
<1>1. Counted /\ ~Exists(b) /\ Server \in Process /\ a \in Count
      /\ \A p \in Process : account[p][b] = Nothing /\ view[p][b] = None
  BY DEF OwnInv, Unused, Process, Exists, Live, Over
<1>2. /\ account' \in [Process -> [Buffer -> Count]]
      /\ struck' \in [Process -> [Buffer -> SUBSET Calls]]
      /\ account'[Server][b] = a /\ struck'[Server][b] = m
      /\ \A q \in Process, c \in Buffer : <<q, c>> # <<Server, b>> =>
           account'[q][c] = account[q][c] /\ struck'[q][c] = struck[q][c]
  BY <1>1, OneCopy
<1>3. view' \in [Process -> [Buffer -> View \cup {None}]] /\ DOMAIN buffer' = Buffer
  BY <1>1 DEF Counted
<1>4. /\ view'[Server][b] = v /\ buffer'[b] = x
      /\ \A p \in Process : p # Server => view'[p][b] = None /\ account'[p][b] = Nothing
      /\ \A c \in Buffer : c # b => Alike(c)
  BY <1>1, <1>2 DEF Counted, Alike
<1>5. ~Carved(b) /\ ~Carved(b)'
  BY <1>1, <1>4 DEF Carved, Has
<1>6. Owned(b)'
  <2>1. ASSUME NEW p \in Process
        PROVE  /\ \A c \in DOMAIN Nothing : Kept(p, b, c)'
               /\ Live(p, b)' => p = Server
    <3>1. Backed(account'[p][b], Owed(view'[p][b]), struck'[p][b])
      <4>1. CASE p = Server
        BY <1>1, <1>2, <1>4, <4>1, OverLive
      <4>2. CASE p # Server
        <5>1. Nothing \in Count
          BY NothingCounts DEF Counts
        <5> QED BY <1>4, <4>2, <5>1, NothingOver, OverGone
      <4> QED BY <4>1, <4>2
    <3>2. \A c \in DOMAIN Nothing : Kept(p, b, c)'
      BY <3>1 DEF Kept, Backed, Owed, Nothing, Keeps, One
    <3> QED BY <1>4, <3>2 DEF Live
  <2>2. /\ v.base = ~Has(b, "SECURE_BUFFER")'
        /\ buffer'[b].asked.internal => ~v.fdm
    BY <1>4 DEF Has
  <2> QED BY <1>4, <1>5, <2>1, <2>2 DEF Owned, Nothing
<1> QED
  BY <1>2, <1>3, <1>4, <1>5, <1>6, OneBuffer

\* An allocation that fails may leave descriptors; the name is not used again.
LEMMA OwnFailed ==
  ASSUME OwnInv, NEW b \in Buffer, Unused(b), NEW a, NEW m \in SUBSET Calls,
         account' = [account EXCEPT ![Server][b] = a],
         struck' = [struck EXCEPT ![Server][b] = m],
         Over(a, 0, 0, 0, 0, m), UNCHANGED <<platform, fb, buffer, view>>
  PROVE  OwnInv'
<1>1. Counted /\ ~Exists(b) /\ Server \in Process /\ a \in Count
      /\ \A p \in Process : account[p][b] = Nothing /\ view[p][b] = None
  BY DEF OwnInv, Unused, Process, Exists, Live, Over
<1>2. /\ account' \in [Process -> [Buffer -> Count]]
      /\ struck' \in [Process -> [Buffer -> SUBSET Calls]]
      /\ account'[Server][b] = a /\ struck'[Server][b] = m
      /\ \A q \in Process, c \in Buffer : <<q, c>> # <<Server, b>> =>
           account'[q][c] = account[q][c] /\ struck'[q][c] = struck[q][c]
  BY <1>1, OneCopy
<1>3. \A c \in Buffer : c # b => Alike(c)
  BY <1>2 DEF Alike
<1>4. ~Carved(b) /\ ~Carved(b)' /\ \A p \in Process : ~Live(p, b)'
  BY <1>1 DEF Carved, Exists, Live
<1>5. ASSUME NEW p \in Process, NEW c \in DOMAIN Nothing PROVE Kept(p, b, c)'
  <2>1. Backed(account'[p][b], Owed(view'[p][b]), struck'[p][b])
    <3>1. CASE p = Server
      BY <1>1, <1>2, <3>1, OverGone
    <3>2. CASE p # Server
      <4>1. Nothing \in Count /\ account'[p][b] = Nothing
        BY <1>1, <1>2, <3>2, NothingCounts DEF Counts
      <4> QED BY <1>1, <4>1, NothingOver, OverGone
    <3> QED BY <3>1, <3>2
  <2> QED BY <1>5, <2>1 DEF Kept, Backed, Owed, Nothing, Keeps, One
<1>6. Owned(b)'
  BY <1>4, <1>5 DEF Owned, Nothing
<1> QED
  BY <1>1, <1>2, <1>3, <1>4, <1>6, OneBuffer DEF Counted

LEMMA Struck ==
  ASSUME NEW usage, NEW fault \in Fault
  PROVE  AllocStruck(usage, fault) \in SUBSET Calls
  BY GrallocAssumption DEF AllocStruck, AllocKept, Fault, Calls

LEMMA AllocBufferOwn ==
  ASSUME OwnInv, NEW b \in Buffer, Unused(b), NEW r, NEW d, NEW usage,
         NEW fault \in Fault, AllocBuffer(b, r, d, usage, fault),
         UNCHANGED <<platform, fb>>, ~r.internal
  PROVE  OwnInv'
<1> DEFINE left == AllocLeft(usage, fault)
           m == AllocStruck(usage, fault)
<1>1. /\ AllocFails(usage, fault) => Over(left, 0, 0, 0, 0, m)
      /\ ~AllocFails(usage, fault) =>
           Over(left, 1, 0, One(~Secure(usage)), 0, m) /\ left.fdm = 0 /\ left.meta = 0
      /\ fault = "emmap" => "emmap" \in m
      /\ m \in SUBSET Calls
  BY Left, Struck
<1>2. struck' = [struck EXCEPT ![Server][b] = m]
  BY DEF AllocBuffer
<1>3. CASE AllocFails(usage, fault)
  <2>1. account' = [account EXCEPT ![Server][b] = left] /\ UNCHANGED <<buffer, view>>
    BY <1>3 DEF AllocBuffer
  <2> HIDE DEF left, m
  <2> QED BY <1>1, <1>2, <1>3, <2>1, OwnFailed
<1>4. CASE ~AllocFails(usage, fault)
  <2> DEFINE meta == fault \notin {"edata", "emmap"}
             v == [base |-> ~Secure(usage), meta |-> meta, fdm |-> meta, flush |-> FALSE]
             x == BufferFor(r, d, usage)
             s == One(fault # "edata")
             t == One(meta)
             a == [left EXCEPT !.fdm = s, !.meta = t]
  <2>1. /\ view' = [view EXCEPT ![Server][b] = v]
        /\ buffer' = [buffer EXCEPT ![b] = x]
        /\ account' = [account EXCEPT ![Server][b] = a]
    BY <1>4 DEF AllocBuffer
  <2>2. v \in View /\ v.base = ~Secure(usage) /\ v.fdm = meta /\ v.meta = meta
    BY DEF View, Secure
  <2>3. /\ s \in Int /\ t \in Int /\ t = One(v.fdm) /\ t = One(v.meta)
        /\ s >= t /\ (s > t => fault = "emmap")
    <3>1. /\ meta => s = 1 /\ t = 1
          /\ ~meta => t = 0 /\ (s = 0 \/ (s = 1 /\ fault = "emmap"))
      BY DEF One
    <3>2. v.fdm = meta /\ v.meta = meta
      BY <2>2
    <3> HIDE DEF v
    <3>3. t = One(v.fdm) /\ t = One(v.meta)
      BY <3>2
    <3> HIDE DEF s, t
    <3> QED BY <3>1, <3>3
  <2>4. Over(a, 1, One(v.fdm), One(v.base), One(v.meta), m)
    <3>1. /\ left \in Count /\ left.fd >= 1 /\ left.data >= One(v.base)
          /\ left.fd > 1 => m \cap {"mmap", "mmapSystem"} # {}
          /\ left.data > One(v.base) => m \cap {"mapMeta", "munmap"} # {}
      BY <1>1, <1>4, <2>2 DEF Over
    <3> HIDE DEF left, m, v, s, t
    <3>2. Counts(a, left.fd, s, left.data, t)
      BY <2>3, <3>1, InPairs
    <3> HIDE DEF a
    <3> QED BY <1>1, <2>3, <3>1, <3>2 DEF Counts, Over
  <2>5. x.asked = r /\ x.flags = FlagsOf(usage)
    BY DEF BufferFor
  <2>6. "FRAMEBUFFER" \notin FlagsOf(usage) /\ ("SECURE_BUFFER" \in FlagsOf(usage) <=> Secure(usage))
    BY DEF FlagsOf
  <2>7. v.base = ("SECURE_BUFFER" \notin x.flags) /\ v.meta = v.fdm
        /\ (x.asked.internal => ~v.fdm) /\ "FRAMEBUFFER" \notin x.flags
    BY <2>2, <2>5, <2>6 DEF Secure
  <2> HIDE DEF v, x, a, m
  <2> QED BY <1>1, <1>2, <2>1, <2>2, <2>4, <2>7, OwnMade
<1> QED
  BY <1>3, <1>4

\* A slot of the framebuffer goes to a buffer of its own.
LEMMA CarveOwn ==
  ASSUME Panels, OwnInv, NEW b \in Buffer, Unused(b), NEW x, NEW v \in View,
         ~(FbSlots \subseteq fb.mask), fb.mapped,
         fb' = [fb EXCEPT !.mask = @ \cup {FreeSlot}],
         buffer' = [buffer EXCEPT ![b] = x], view' = [view EXCEPT ![Server][b] = v],
         UNCHANGED <<platform, account, struck>>,
         x.flags = {"FRAMEBUFFER"}, ~x.asked.internal, x.offset = FreeSlot * FbBufferSize
  PROVE  OwnInv'
<1>1. Counted /\ ~Exists(b) /\ Server \in Process
      /\ \A p \in Process : account[p][b] = Nothing /\ view[p][b] = None
  BY DEF OwnInv, Unused, Process, Exists, Live
<1>2. FreeSlot \in FbSlots \ fb.mask
  BY <1>1, LowestSlot DEF Counted
<1>3. /\ FbSlots' = FbSlots /\ FbBufferSize' = FbBufferSize
      /\ fb'.mask = fb.mask \cup {FreeSlot} /\ fb'.mapped
  BY <1>1 DEF FbSlots, FbBufferSize, FbBytes, Counted
<1>4. Counted'
  BY <1>1, <1>2, <1>3 DEF Counted
<1>5. /\ view'[Server][b] = v /\ buffer'[b] = x /\ v # None
      /\ \A p \in Process : p # Server => view'[p][b] = None
      /\ \A c \in Buffer : c # b => Alike(c)
  BY <1>1, GrallocAssumption DEF Counted, Alike
<1>6. ~Carved(b) /\ Carved(b)'
  BY <1>1, <1>5 DEF Carved, Has, Exists, Live
<1>7. Slot(b)' = FreeSlot /\ buffer'[b].offset = FreeSlot * FbBufferSize
  BY <1>1, <1>2, <1>3, <1>5, SlotBack DEF Slot, Counted
<1>8. Owned(b)'
  <2>1. Holders(b)' = {Server}
    BY <1>1, <1>5 DEF Holders, Live
  <2> QED BY <1>1, <1>5, <1>6, <2>1 DEF Owned, Nothing
<1>9. ASSUME NEW c \in Buffer, c # b
      PROVE  /\ Carved(c)' <=> Carved(c)
             /\ Slot(c)' = Slot(c) /\ buffer'[c] = buffer[c]
             /\ Owned(c)'
  BY <1>5, <1>9, AlikeKept DEF OwnInv, Alike
<1>10. Slotted'
  <2>1. ASSUME NEW c \in Buffer, Carved(c)'
        PROVE  Slot(c)' \in fb'.mask /\ buffer'[c].offset = Slot(c)' * FbBufferSize'
    BY <1>3, <1>7, <1>9, <2>1 DEF OwnInv, Slotted
  <2>2. ASSUME NEW c \in Buffer, NEW d \in Buffer, Carved(c)', Carved(d)', Slot(c)' = Slot(d)'
        PROVE  c = d
    BY <1>2, <1>7, <1>9, <2>2 DEF OwnInv, Slotted
  <2>3. ASSUME NEW i \in fb'.mask PROVE \E c \in Buffer : Carved(c)' /\ Slot(c)' = i
    <3>1. CASE i = FreeSlot
      BY <1>6, <1>7, <3>1
    <3>2. CASE i \in fb.mask
      <4>1. PICK c \in Buffer : Carved(c) /\ Slot(c) = i
        BY <3>2 DEF OwnInv, Slotted
      <4> QED BY <1>6, <1>9, <4>1
    <3> QED BY <1>3, <3>1, <3>2
  <2> QED BY <1>3, <2>1, <2>2, <2>3 DEF Slotted
<1> QED
  BY <1>4, <1>8, <1>9, <1>10 DEF OwnInv

LEMMA AllocOwn ==
  ASSUME Panels, OwnInv, NEW b \in Buffer, NEW r, NEW fault \in Fault,
         alloc(b, r, fault)
  PROVE  OwnInv'
<1>1. Unused(b) /\ ~r.internal /\ UNCHANGED platform
  BY DEF alloc
<1>2. CASE UNCHANGED <<fb, buffer, view, account, struck>>
  BY <1>1, <1>2, OwnUntouched
<1>3. CASE AllocBuffer(b, r, Dimensions(platform, r), r.usage, fault) /\ UNCHANGED fb
  BY <1>1, <1>3, AllocBufferOwn
<1>4. CASE AllocBuffer(b, r, FbDimensions, r.usage \ {"HW_FB"}, fault) /\ UNCHANGED fb
  BY <1>1, <1>4, AllocBufferOwn
<1>5. CASE /\ fb.mapped /\ ~(FbSlots \subseteq fb.mask)
           /\ fb' = [fb EXCEPT !.mask = @ \cup {FreeSlot}]
           /\ buffer' = [buffer EXCEPT ![b] =
                [asked |-> r, flags |-> {"FRAMEBUFFER"}, format |-> "RGBA_8888",
                 w |-> platform.xres, h |-> platform.yres, size |-> FbBufferSize,
                 offset |-> FreeSlot * FbBufferSize]]
           /\ view' = [view EXCEPT ![Server][b] =
                [base |-> TRUE, meta |-> FALSE, fdm |-> FALSE, flush |-> FALSE]]
           /\ UNCHANGED <<account, struck>>
  <2> DEFINE x == [asked |-> r, flags |-> {"FRAMEBUFFER"}, format |-> "RGBA_8888",
                   w |-> platform.xres, h |-> platform.yres, size |-> FbBufferSize,
                   offset |-> FreeSlot * FbBufferSize]
             v == [base |-> TRUE, meta |-> FALSE, fdm |-> FALSE, flush |-> FALSE]
  <2>1. /\ x.flags = {"FRAMEBUFFER"} /\ ~x.asked.internal /\ x.offset = FreeSlot * FbBufferSize
        /\ v \in View
    BY <1>1 DEF View
  <2>2. buffer' = [buffer EXCEPT ![b] = x] /\ view' = [view EXCEPT ![Server][b] = v]
    BY <1>5
  <2> HIDE DEF x, v
  <2> QED BY <1>1, <1>5, <2>1, <2>2, CarveOwn
<1> QED
  BY <1>2, <1>3, <1>4, <1>5 DEF alloc, AllocFramebuffer

LEMMA AllocInternalOwn ==
  ASSUME OwnInv, NEW b \in Buffer, NEW r, NEW fault \in Fault, alloc_buffer(b, r, fault)
  PROVE  OwnInv'
<1> DEFINE d == Dimensions(platform, r)
           x == [asked |-> r, flags |-> FlagsOf(r.usage) \cap {"SECURE_BUFFER"},
                 format |-> d.format, w |-> d.w, h |-> d.h, size |-> d.size, offset |-> 0]
           v == [base |-> ~Secure(r.usage), meta |-> FALSE, fdm |-> FALSE, flush |-> FALSE]
           left == AllocLeft(r.usage, fault)
           m == AllocStruck(r.usage, fault)
<1>1. /\ Unused(b) /\ r.internal /\ UNCHANGED <<platform, fb>>
      /\ account' = [account EXCEPT ![Server][b] = left]
      /\ struck' = [struck EXCEPT ![Server][b] = m]
  BY DEF alloc_buffer
<1>2. /\ AllocFails(r.usage, fault) => Over(left, 0, 0, 0, 0, m)
      /\ ~AllocFails(r.usage, fault) => Over(left, 1, 0, One(~Secure(r.usage)), 0, m)
      /\ m \in SUBSET Calls
  BY Left, Struck
<1>3. CASE AllocFails(r.usage, fault)
  <2>1. UNCHANGED <<buffer, view>>
    BY <1>3 DEF alloc_buffer
  <2> HIDE DEF left, m
  <2> QED BY <1>1, <1>2, <1>3, <2>1, OwnFailed
<1>4. CASE ~AllocFails(r.usage, fault)
  <2>1. /\ view' = [view EXCEPT ![Server][b] = v]
        /\ buffer' = [buffer EXCEPT ![b] = x]
    BY <1>4 DEF alloc_buffer
  <2>2. v \in View /\ v.base = ~Secure(r.usage) /\ v.fdm = FALSE /\ v.meta = FALSE
    BY DEF View, Secure
  <2>3. Over(left, 1, One(v.fdm), One(v.base), One(v.meta), m)
    <3>1. One(v.fdm) = 0 /\ One(v.meta) = 0 /\ One(v.base) = One(~Secure(r.usage))
      BY <2>2 DEF One
    <3> HIDE DEF left, m, v
    <3> QED BY <1>2, <1>4, <3>1
  <2>5. "SECURE_BUFFER" \in x.flags <=> Secure(r.usage)
    BY DEF FlagsOf
  <2>6. v.base = ("SECURE_BUFFER" \notin x.flags) /\ v.meta = v.fdm
        /\ (x.asked.internal => ~v.fdm) /\ "FRAMEBUFFER" \notin x.flags
    BY <1>1, <2>2, <2>5 DEF Secure
  <2> HIDE DEF v, x, left, m
  <2> QED BY <1>1, <1>2, <2>1, <2>2, <2>3, <2>6, OwnMade
<1> QED
  BY <1>3, <1>4

\* The operations that take a copy of a handle apart.
LEMMA UnmappedCounts ==
  ASSUME NEW v \in View, NEW a \in Count, NEW fault
  PROVE  LET u == Unmapped(v, a, fault)
         IN  \/ /\ u.ok = TRUE /\ u.v \in View
                /\ u.v.base = FALSE /\ u.v.meta = FALSE /\ u.v.fdm = v.fdm
                /\ Counts(u.a, a.fd, a.fdm, a.data - One(v.base), a.meta - One(v.meta))
             \/ /\ u.ok = FALSE /\ fault = "munmap" /\ v.base = TRUE
                /\ u.v = v /\ u.a = a
             \/ /\ u.ok = FALSE /\ fault = "munmapMeta" /\ v.meta = TRUE /\ u.v \in View
                /\ u.v.base = FALSE /\ u.v.meta = TRUE /\ u.v.fdm = v.fdm
                /\ Counts(u.a, a.fd, a.fdm, a.data - One(v.base), a.meta)
<1> DEFINE x == a.data - One(v.base)
           v1 == [v EXCEPT !.base = FALSE]
           a1 == [a EXCEPT !.data = x]
           y == a1.meta - One(v.meta)
           w == [v1 EXCEPT !.meta = FALSE]
           c == [a1 EXCEPT !.meta = y]
           u == Unmapped(v, a, fault)
<1>1. u = IF v.base /\ fault = "munmap" THEN [ok |-> FALSE, v |-> v, a |-> a]
          ELSE IF v.meta /\ fault = "munmapMeta" THEN [ok |-> FALSE, v |-> v1, a |-> a1]
          ELSE [ok |-> TRUE, v |-> w, a |-> c]
  BY DEF Unmapped
<1>2. /\ v1 \in View /\ v1.base = FALSE /\ v1.meta = v.meta /\ v1.fdm = v.fdm
      /\ v.base \in BOOLEAN /\ v.meta \in BOOLEAN
  BY DEF View
<1>3. w \in View /\ w.base = FALSE /\ w.meta = FALSE /\ w.fdm = v.fdm
  <2> HIDE DEF v1
  <2> QED BY <1>2 DEF View
<1>4. Counts(a1, a.fd, a.fdm, x, a.meta)
  <2>1. x \in Int
    BY DEF Count, One
  <2> HIDE DEF x
  <2> QED BY <2>1, Counted1
<1>5. Counts(c, a.fd, a.fdm, x, a.meta - One(v.meta))
  <2>1. a1 \in Count /\ y \in Int /\ y = a.meta - One(v.meta)
        /\ a1.fd = a.fd /\ a1.fdm = a.fdm /\ a1.data = x
    BY <1>4 DEF Counts, Count, One
  <2> HIDE DEF a1, y
  <2>2. Counts(c, a1.fd, a1.fdm, a1.data, y)
    BY <2>1, Counted1
  <2> HIDE DEF c, x
  <2> QED BY <2>1, <2>2
<1> HIDE DEF v1, a1, w, c, x, u
<1>6. \/ u.ok = FALSE /\ fault = "munmap" /\ v.base = TRUE /\ u.v = v /\ u.a = a
      \/ u.ok = FALSE /\ fault = "munmapMeta" /\ v.meta = TRUE /\ u.v = v1 /\ u.a = a1
      \/ u.ok = TRUE /\ u.v = w /\ u.a = c
  BY <1>1, <1>2
<1> QED
  BY <1>2, <1>3, <1>4, <1>5, <1>6 DEF u, x

LEMMA DropOwn ==
  ASSUME OwnInv, NEW b \in Buffer, NEW p \in Process, Live(p, b), ~Carved(b), Dropped(p, b),
         NEW a, NEW m \in SUBSET Calls, Over(a, 0, 0, 0, 0, m),
         account' = [account EXCEPT ![p][b] = a], struck' = [struck EXCEPT ![p][b] = m],
         UNCHANGED <<platform, fb>>
  PROVE  OwnInv'
<1>1. Counted /\ Owned(b) /\ a \in Count
  BY DEF OwnInv, Over
<1>2. /\ account' \in [Process -> [Buffer -> Count]]
      /\ struck' \in [Process -> [Buffer -> SUBSET Calls]]
      /\ account'[p][b] = a /\ struck'[p][b] = m
      /\ \A q \in Process, c \in Buffer : <<q, c>> # <<p, b>> =>
           account'[q][c] = account[q][c] /\ struck'[q][c] = struck[q][c]
  BY <1>1, OneCopy
<1>3. view' \in [Process -> [Buffer -> View \cup {None}]] /\ DOMAIN buffer' = Buffer
  BY <1>1 DEF Counted, Dropped
<1>4. /\ view'[p][b] = None
      /\ \A q \in Process : q # p =>
           /\ view'[q][b] = view[q][b] /\ account'[q][b] = account[q][b]
           /\ struck'[q][b] = struck[q][b]
      /\ Holders(b) # {p} => buffer'[b] = buffer[b]
      /\ \A c \in Buffer : c # b => Alike(c)
  BY <1>1, <1>2 DEF Counted, Dropped, Alike
<1>5. \A q \in Process : Live(q, b)' => Live(q, b) /\ q # p /\ Holders(b) # {p}
  BY <1>4 DEF Live, Holders
<1>6. ~Carved(b)'
  BY <1>4, <1>5 DEF Carved, Exists, Has
<1>7. Owned(b)'
  <2>1. ASSUME NEW q \in Process, NEW c \in DOMAIN Nothing PROVE Kept(q, b, c)'
    <3>1. CASE q = p
      <4>1. Backed(account'[q][b], Owed(view'[q][b]), struck'[q][b])
        BY <1>1, <1>2, <1>4, <3>1, OverGone
      <4> QED BY <2>1, <4>1 DEF Kept, Backed, Owed, Nothing, Keeps, One
    <3>2. CASE q # p
      <4>1. Kept(q, b, c)
        BY <1>1, <2>1 DEF Owned
      <4> QED BY <1>4, <3>2, <4>1 DEF Kept, Owed, Nothing, Keeps, One
    <3> QED BY <3>1, <3>2
  <2>2. ASSUME NEW q \in Process, Live(q, b)'
        PROVE  /\ view'[q][b].base = ~Has(b, "SECURE_BUFFER")'
               /\ view'[q][b].meta = view'[q][b].fdm
               /\ buffer'[b].asked.internal => ~view'[q][b].fdm
    BY <1>1, <1>4, <1>5, <2>2 DEF Owned, Has
  <2> QED BY <1>6, <2>1, <2>2 DEF Owned, Nothing
<1> QED
  BY <1>2, <1>3, <1>4, <1>6, <1>7, OneBuffer

\* A buffer carved from the framebuffer gives its slot back.
LEMMA UncarveOwn ==
  ASSUME Panels, OwnInv, NEW b \in Buffer, Carved(b), Dropped(Server, b),
         fb' = [fb EXCEPT !.mask = @ \ {SlotOf(buffer[b].offset)}],
         UNCHANGED <<platform, account, struck>>
  PROVE  OwnInv'
<1>1. /\ Counted /\ Holders(b) = {Server} /\ Server \in Process
      /\ \A p \in Process : account[p][b] = Nothing
  BY DEF OwnInv, Owned, Process
<1>2. SlotOf(buffer[b].offset) = Slot(b) /\ Slot(b) \in fb.mask
  <2>1. Slot(b) \in FbSlots /\ buffer[b].offset = Slot(b) * FbBufferSize
    BY <1>1 DEF OwnInv, Counted, Slotted
  <2> QED BY <1>1, <2>1, SlotBack DEF OwnInv, Slotted, Counted
<1>3. /\ FbSlots' = FbSlots /\ FbBufferSize' = FbBufferSize
      /\ fb'.mask = fb.mask \ {Slot(b)} /\ fb'.mapped = fb.mapped
  BY <1>1, <1>2 DEF FbSlots, FbBufferSize, FbBytes, Counted
<1>4. Counted'
  BY <1>1, <1>3 DEF Counted, Dropped
<1>5. /\ \A p \in Process : view'[p][b] = None
      /\ \A c \in Buffer : c # b => Alike(c)
  BY <1>1 DEF Counted, Dropped, Alike, Holders, Live
<1>6. ~Carved(b)' /\ Owned(b)'
  <2>1. ~Carved(b)' /\ \A p \in Process : ~Live(p, b)'
    BY <1>5 DEF Carved, Exists, Live
  <2>2. ASSUME NEW p \in Process, NEW c \in DOMAIN Nothing PROVE Kept(p, b, c)'
    <3>1. Nothing \in Count /\ account'[p][b] = Nothing
      BY <1>1, NothingCounts DEF Counts
    <3>2. Backed(account'[p][b], Owed(view'[p][b]), struck'[p][b])
      BY <1>5, <3>1, NothingOver, OverGone
    <3> QED BY <2>2, <3>2 DEF Kept, Backed, Owed, Nothing, Keeps, One
  <2> QED BY <2>1, <2>2 DEF Owned, Nothing
<1>7. ASSUME NEW c \in Buffer, c # b
      PROVE  /\ Carved(c)' <=> Carved(c)
             /\ Slot(c)' = Slot(c) /\ buffer'[c] = buffer[c]
             /\ Owned(c)'
  BY <1>5, <1>7, AlikeKept DEF OwnInv, Alike
<1>8. Slotted'
  <2>1. ASSUME NEW c \in Buffer, Carved(c)'
        PROVE  /\ c # b /\ Slot(c)' \in fb'.mask
               /\ buffer'[c].offset = Slot(c)' * FbBufferSize'
    BY <1>3, <1>6, <1>7, <2>1 DEF OwnInv, Slotted
  <2>2. ASSUME NEW c \in Buffer, NEW d \in Buffer, Carved(c)', Carved(d)', Slot(c)' = Slot(d)'
        PROVE  c = d
    BY <1>6, <1>7, <2>2 DEF OwnInv, Slotted
  <2>3. ASSUME NEW i \in fb'.mask PROVE \E c \in Buffer : Carved(c)' /\ Slot(c)' = i
    BY <1>3, <1>7, <2>3 DEF OwnInv, Slotted
  <2>4. ~fb'.mapped => fb'.mask = {}
    BY <1>3 DEF OwnInv, Slotted
  <2> QED BY <2>1, <2>2, <2>3, <2>4 DEF Slotted
<1> QED
  BY <1>4, <1>6, <1>7, <1>8 DEF OwnInv

\* What a handle of a buffer of its own is covered by.
LEMMA Covered ==
  ASSUME OwnInv, NEW b \in Buffer, ~Carved(b), NEW p \in Process, Live(p, b)
  PROVE  /\ view[p][b] \in View /\ account[p][b] \in Count /\ struck[p][b] \in SUBSET Calls
         /\ Over(account[p][b], 1, One(view[p][b].fdm), One(view[p][b].base),
                 One(view[p][b].meta), struck[p][b])
         /\ view[p][b].meta = view[p][b].fdm
         /\ buffer[b].asked.internal => view[p][b].fdm = FALSE
<1>1. /\ view[p][b] \in View /\ account[p][b] \in Count /\ struck[p][b] \in SUBSET Calls
  BY DEF OwnInv, Counted, Live
<1>2. (\A c \in DOMAIN Nothing : Kept(p, b, c)) /\ view[p][b].meta = view[p][b].fdm
      /\ (buffer[b].asked.internal => ~view[p][b].fdm)
  BY DEF OwnInv, Owned
<1>3. Backed(account[p][b], Owed(view[p][b]), struck[p][b])
  BY <1>2, KeptIs
<1>4. view[p][b].fdm \in BOOLEAN
  BY <1>1 DEF View
<1> QED
  BY <1>1, <1>2, <1>3, <1>4, OverLive

LEMMA FreeOwn ==
  ASSUME Panels, OwnInv, NEW b \in Buffer, NEW fault \in Fault, free(b, fault)
  PROVE  OwnInv'
<1> DEFINE v == view[Server][b]
           a == account[Server][b]
           m == struck[Server][b]
           u == Unmapped(v, a, fault)
           data == FreedData(u.v, u.a, fault)
           left == IF u.v.base THEN data ELSE FreedMeta(u.v, data, fault)
           met == IF u.ok THEN m ELSE m \cup {fault}
<1>1. /\ Counted /\ Server \in Process /\ Live(Server, b) /\ UNCHANGED platform
      /\ ~buffer[b].asked.internal /\ Dropped(Server, b)
  BY DEF OwnInv, Counted, Process, free, Live
<1>2. CASE Has(b, "FRAMEBUFFER")
  <2>1. Carved(b)
    BY <1>1, <1>2 DEF Carved, Exists
  <2>2. UNCHANGED <<account, struck>>
        /\ fb' = [fb EXCEPT !.mask = @ \ {SlotOf(buffer[b].offset)}]
    BY <1>2 DEF free
  <2> QED BY <1>1, <2>1, <2>2, UncarveOwn
<1>3. CASE ~Has(b, "FRAMEBUFFER")
  <2>1. ~Carved(b)
    BY <1>3 DEF Carved
  <2>2. /\ v \in View /\ a \in Count /\ m \in SUBSET Calls
        /\ Over(a, 1, One(v.fdm), One(v.base), One(v.meta), m) /\ v.meta = v.fdm
    BY <1>1, <2>1, Covered
  <2>3. /\ account' = [account EXCEPT ![Server][b] = left]
        /\ struck' = [struck EXCEPT ![Server][b] = met] /\ UNCHANGED fb
    BY <1>3 DEF free
  <2>4. Over(left, 0, 0, 0, 0, met) /\ met \in SUBSET Calls
    <3> HIDE DEF v, a, m
    <3>1. \/ /\ u.ok = TRUE /\ u.v \in View
             /\ u.v.base = FALSE /\ u.v.meta = FALSE /\ u.v.fdm = v.fdm
             /\ Counts(u.a, a.fd, a.fdm, a.data - One(v.base), a.meta - One(v.meta))
          \/ /\ u.ok = FALSE /\ fault = "munmap" /\ v.base = TRUE
             /\ u.v = v /\ u.a = a
          \/ /\ u.ok = FALSE /\ fault = "munmapMeta" /\ v.meta = TRUE /\ u.v \in View
             /\ u.v.base = FALSE /\ u.v.meta = TRUE /\ u.v.fdm = v.fdm
             /\ Counts(u.a, a.fd, a.fdm, a.data - One(v.base), a.meta)
      BY <2>2, UnmappedCounts
    <3> DEFINE w == u.v
               c == u.a
               ok == u.ok
    <3>2. w \in View /\ c \in Count
      BY <2>2, <3>1 DEF Counts
    <3> DEFINE f == FreedMeta(w, data, fault)
    <3>3. /\ Counts(data, c.fd - 1, c.fdm, c.data - One(w.base /\ fault # "munmap"), c.meta)
          /\ Counts(f, c.fd - 1, c.fdm - One(w.fdm), c.data - One(w.base /\ fault # "munmap"),
                    c.meta - One(w.meta /\ fault # "munmapMeta"))
      <4> HIDE DEF u, w, c
      <4>1. Counts(data, c.fd - 1, c.fdm, c.data - One(w.base /\ fault # "munmap"), c.meta)
        BY <3>2, FreedDataCounts DEF w, c
      <4> HIDE DEF data
      <4>2. Counts(f, data.fd, data.fdm - One(w.fdm), data.data,
                   data.meta - One(w.meta /\ fault # "munmapMeta"))
        BY <3>2, <4>1, FreedMetaCounts DEF Counts
      <4> QED BY <4>1, <4>2 DEF Counts
    <3>4. left = IF w.base THEN data ELSE f
      OBVIOUS
    <3>5. fault \in Calls \/ fault = None
      BY GrallocAssumption DEF Fault
    <3>6. met = IF ok THEN m ELSE m \cup {fault}
      OBVIOUS
    <3>7. /\ v.base \in BOOLEAN /\ v.fdm \in BOOLEAN
          /\ a.fd \in Int /\ a.fdm \in Int /\ a.data \in Int /\ a.meta \in Int
      BY <2>2 DEF View, Count
    <3>8. /\ ok = TRUE => met = m /\ Counts(f, a.fd - 1, a.fdm - One(v.fdm),
                                          a.data - One(v.base), a.meta - One(v.meta))
                               /\ w.base = FALSE
      <4> HIDE DEF left, data, f, met
      <4> QED BY <3>1, <3>3, <3>6, <3>7 DEF Counts, One
    <3>9. fault = "munmap" /\ ok = FALSE =>
             met = m \cup {"munmap"} /\ w.base = TRUE
             /\ Counts(data, a.fd - 1, a.fdm, a.data, a.meta)
      <4> HIDE DEF left, data, f, met
      <4> QED BY <3>1, <3>3, <3>6, <3>7 DEF Counts, One
    <3>10. fault = "munmapMeta" /\ ok = FALSE =>
             met = m \cup {"munmapMeta"} /\ w.base = FALSE
             /\ Counts(f, a.fd - 1, a.fdm - One(v.fdm), a.data - One(v.base), a.meta)
      <4> HIDE DEF left, data, f, met
      <4> QED BY <3>1, <3>3, <3>6, <3>7 DEF Counts, One
    <3>11. \/ ok = TRUE
           \/ fault = "munmap" /\ ok = FALSE
           \/ fault = "munmapMeta" /\ ok = FALSE
      BY <3>1
    <3> HIDE DEF left, data, f, met, w, c, ok, u
    <3>12. /\ One(v.fdm) \in Nat /\ One(v.base) \in Nat /\ One(v.meta) \in Nat
           /\ m \subseteq met /\ met \in SUBSET Calls
      BY <2>2, <3>8, <3>9, <3>10, <3>11 DEF One, Calls
    <3>13. CASE ok = TRUE
      <4>1. left = f
        BY <3>4, <3>8, <3>13
      <4> QED BY <2>2, <3>8, <3>12, <3>13, <4>1, Remainder DEF Counts
    <3>14. CASE fault = "munmap" /\ ok = FALSE
      <4>1. left = data /\ "munmap" \in met
        BY <3>4, <3>9, <3>14
      <4> QED BY <2>2, <3>9, <3>12, <3>14, <4>1, Remainder DEF Counts
    <3>15. CASE fault = "munmapMeta" /\ ok = FALSE
      <4>1. left = f /\ met \cap {"munmap", "munmapMeta"} # {}
        BY <3>4, <3>10, <3>15
      <4> QED BY <2>2, <3>10, <3>12, <3>15, <4>1, Remainder DEF Counts
    <3> QED BY <3>11, <3>12, <3>13, <3>14, <3>15
  <2> HIDE DEF left, met
  <2> QED BY <1>1, <2>1, <2>3, <2>4, DropOwn
<1> QED
  BY <1>2, <1>3

LEMMA FreeInternalOwn ==
  ASSUME OwnInv, NEW b \in Buffer, NEW fault \in Fault, free_buffer(b, fault)
  PROVE  OwnInv'
<1> DEFINE v == view[Server][b]
           a == account[Server][b]
           m == struck[Server][b]
           left == FreedData(v, a, fault)
           met == IF v.base /\ fault = "munmap" THEN m \cup {fault} ELSE m
<1>1. /\ Counted /\ Owned(b) /\ Server \in Process /\ Live(Server, b)
      /\ buffer[b].asked.internal /\ Dropped(Server, b) /\ UNCHANGED <<platform, fb>>
      /\ account' = [account EXCEPT ![Server][b] = left]
      /\ struck' = [struck EXCEPT ![Server][b] = met]
  BY DEF OwnInv, Counted, Process, free_buffer, Live
<1>2. ~Carved(b)
  BY <1>1 DEF Owned
<1>3. /\ v \in View /\ a \in Count /\ m \in SUBSET Calls
      /\ Over(a, 1, One(v.fdm), One(v.base), One(v.meta), m)
      /\ v.fdm = FALSE /\ v.meta = FALSE
  <2> HIDE DEF v, a, m
  <2> QED BY <1>1, <1>2, Covered DEF v, a, m
<1>4. Counts(left, a.fd - 1, a.fdm, a.data - One(v.base /\ fault # "munmap"), a.meta)
  <2> HIDE DEF v, a
  <2> QED BY <1>3, FreedDataCounts
<1>5. Over(left, 0, 0, 0, 0, met) /\ met \in SUBSET Calls
  <2>1. /\ v.base \in BOOLEAN /\ a.fd \in Int /\ a.fdm \in Int /\ a.data \in Int /\ a.meta \in Int
        /\ One(v.fdm) = 0 /\ One(v.meta) = 0 /\ One(v.base) \in Nat /\ 0 \in Nat /\ 1 \in Nat
    BY <1>3 DEF View, Count, One
  <2> DEFINE gone == One(v.base /\ fault # "munmap")
  <2>2. \/ gone = One(v.base) /\ m \subseteq met /\ met \in SUBSET Calls
        \/ gone = 0 /\ "munmap" \in met /\ m \subseteq met /\ met \in SUBSET Calls
    <3> HIDE DEF v, m
    <3> QED BY <1>3, <2>1 DEF One, Calls
  <2> HIDE DEF v, a, m, left, met
  <2>3. Counts(left, a.fd - 1, a.fdm, a.data - gone, a.meta)
    BY <1>4
  <2> HIDE DEF gone
  <2>4. Over(a, 1, 0, One(v.base), 0, m)
    BY <1>3, <2>1
  <2>5. /\ left \in Count /\ left.fd = a.fd - 1 /\ left.fdm = a.fdm - 0 /\ left.meta = a.meta - 0
        /\ left.data = a.data - One(v.base) \/ (left.data = a.data /\ "munmap" \in met)
        /\ m \subseteq met /\ met \in SUBSET Calls
    BY <2>1, <2>2, <2>3 DEF Counts
  <2> QED BY <2>1, <2>4, <2>5, Remainder
<1> HIDE DEF left, met
<1> QED
  BY <1>1, <1>2, <1>5, DropOwn

LEMMA UnregisterOwn ==
  ASSUME OwnInv, NEW b \in Buffer, NEW p \in Client, NEW fault \in Fault,
         unregisterBuffer(p, b, fault)
  PROVE  OwnInv'
<1> DEFINE v == view[p][b]
           a == account[p][b]
           m == struck[p][b]
           u == Unmapped(v, a, fault)
           left == Closed(v, u.a)
           met == IF u.ok THEN m ELSE m \cup {fault}
<1>1. /\ Counted /\ Owned(b) /\ p \in Process /\ p # Server /\ Live(p, b)
      /\ Dropped(p, b) /\ UNCHANGED <<platform, fb>>
      /\ account' = [account EXCEPT ![p][b] = left]
      /\ struck' = [struck EXCEPT ![p][b] = met]
  BY GrallocAssumption DEF OwnInv, Counted, Process, unregisterBuffer, Live
<1>2. ~Carved(b)
  BY <1>1 DEF Owned, Holders
<1>3. /\ v \in View /\ a \in Count /\ m \in SUBSET Calls
      /\ Over(a, 1, One(v.fdm), One(v.base), One(v.meta), m) /\ v.meta = v.fdm
  BY <1>1, <1>2, Covered
<1>4. Over(left, 0, 0, 0, 0, met) /\ met \in SUBSET Calls
  <2> HIDE DEF v, a, m
  <2>1. \/ /\ u.ok = TRUE
           /\ Counts(u.a, a.fd, a.fdm, a.data - One(v.base), a.meta - One(v.meta))
        \/ /\ u.ok = FALSE /\ fault = "munmap" /\ u.a = a
        \/ /\ u.ok = FALSE /\ fault = "munmapMeta"
           /\ Counts(u.a, a.fd, a.fdm, a.data - One(v.base), a.meta)
    <3> DEFINE s == Unmapped(v, a, fault)
    <3>1. \/ /\ s.ok = TRUE /\ s.v \in View
             /\ s.v.base = FALSE /\ s.v.meta = FALSE /\ s.v.fdm = v.fdm
             /\ Counts(s.a, a.fd, a.fdm, a.data - One(v.base), a.meta - One(v.meta))
          \/ /\ s.ok = FALSE /\ fault = "munmap" /\ v.base = TRUE
             /\ s.v = v /\ s.a = a
          \/ /\ s.ok = FALSE /\ fault = "munmapMeta" /\ v.meta = TRUE /\ s.v \in View
             /\ s.v.base = FALSE /\ s.v.meta = TRUE /\ s.v.fdm = v.fdm
             /\ Counts(s.a, a.fd, a.fdm, a.data - One(v.base), a.meta)
      BY <1>3, UnmappedCounts
    <3> HIDE DEF s
    <3>2. u = s
      BY DEF s
    <3> HIDE DEF u
    <3> QED BY <3>1, <3>2
  <2> DEFINE c == u.a
             ok == u.ok
  <2>2. c \in Count
    BY <1>3, <2>1 DEF Counts
  <2>3. Counts(left, c.fd - 1, c.fdm - One(v.fdm), c.data, c.meta)
    <3> HIDE DEF u
    <3> QED BY <1>3, <2>2, ClosedCounts
  <2>4. met = IF ok THEN m ELSE m \cup {fault}
    OBVIOUS
  <2>5. /\ v.base \in BOOLEAN /\ v.fdm \in BOOLEAN
        /\ a.fd \in Int /\ a.fdm \in Int /\ a.data \in Int /\ a.meta \in Int
    BY <1>3 DEF View, Count
  <2>6. \/ ok = TRUE /\ Counts(left, a.fd - 1, a.fdm - One(v.fdm),
                                 a.data - One(v.base), a.meta - One(v.meta))
        \/ /\ ok = FALSE /\ fault = "munmap"
           /\ Counts(left, a.fd - 1, a.fdm - One(v.fdm), a.data, a.meta)
        \/ /\ ok = FALSE /\ fault = "munmapMeta"
           /\ Counts(left, a.fd - 1, a.fdm - One(v.fdm), a.data - One(v.base), a.meta)
    <3> HIDE DEF left
    <3> QED BY <2>1, <2>3 DEF Counts
  <2> HIDE DEF left, met, c, ok, u
  <2>7. CASE ok = TRUE
    BY <1>3, <2>4, <2>5, <2>6, <2>7 DEF Over, Counts, One
  <2>8. CASE ok = FALSE /\ fault = "munmap"
    BY <1>3, <2>4, <2>5, <2>6, <2>8 DEF Over, Counts, One, Calls
  <2>9. CASE ok = FALSE /\ fault = "munmapMeta"
    BY <1>3, <2>4, <2>5, <2>6, <2>9 DEF Over, Counts, One, Calls
  <2> QED BY <2>6, <2>7, <2>8, <2>9
<1> HIDE DEF left, met
<1> QED
  BY <1>1, <1>2, <1>4, DropOwn

\* A copy that is registered has what it stands for; one that is not leaves the
\* memory mapped if the metadata was not.
LEMMA MappedCounts ==
  ASSUME NEW b, ~Has(b, "FRAMEBUFFER"), NEW v \in View, NEW a,
         Counts(a, 1, One(v.fdm), 0, 0), NEW fault
  PROVE  LET r == Mapped(b, v, a, fault)
         IN  \/ /\ r.ok = TRUE /\ r.v \in View /\ v.fdm = TRUE
                /\ r.v.fdm = TRUE /\ r.v.meta = TRUE /\ r.v.base = ~Has(b, "SECURE_BUFFER")
                /\ Counts(r.a, 1, 1, One(r.v.base), 1)
             \/ r.ok = FALSE /\ fault = "mapData" /\ r.a = a
             \/ /\ r.ok = FALSE /\ r.a \in Count
                /\ (fault = "mapData" => r.a.data = 0)
                /\ r.a.fd = 1 /\ r.a.fdm = One(v.fdm) /\ r.a.data >= 0 /\ r.a.meta = 0
<1> DEFINE data == ~Has(b, "FRAMEBUFFER") /\ ~Has(b, "SECURE_BUFFER")
           fresh == [v EXCEPT !.base = FALSE, !.meta = FALSE]
           based == IF data THEN [fresh EXCEPT !.base = TRUE] ELSE fresh
           counted == IF data THEN [a EXCEPT !.data = @ + 1] ELSE a
           r == Mapped(b, v, a, fault)
<1>1. /\ fresh \in View /\ fresh.base = FALSE /\ fresh.fdm = v.fdm
      /\ data = ~Has(b, "SECURE_BUFFER") /\ v.fdm \in BOOLEAN
  BY DEF View, Has
<1>2. based \in View /\ based.base = data /\ based.fdm = v.fdm
  <2> HIDE DEF fresh
  <2> QED BY <1>1 DEF View, Has
<1>3. Counts(counted, 1, One(v.fdm), One(data), 0)
  <2>1. CASE data
    <3> DEFINE n == a.data + 1
    <3>1. a \in Count /\ n = 1 /\ n \in Int /\ counted = [a EXCEPT !.data = n]
      BY <2>1 DEF Counts
    <3> HIDE DEF n, counted
    <3>2. Counts([a EXCEPT !.data = n], a.fd, a.fdm, n, a.meta)
      BY <3>1, Counted1
    <3> QED BY <2>1, <3>1, <3>2 DEF Counts, One
  <2>2. CASE ~data
    BY <2>2 DEF One
  <2> QED BY <2>1, <2>2
<1> DEFINE w == [based EXCEPT !.meta = TRUE]
           c == [counted EXCEPT !.meta = @ + 1]
<1>4. r = IF data /\ fault = "mapData" THEN [ok |-> FALSE, v |-> fresh, a |-> a]
          ELSE IF fault = "mapMeta" \/ ~v.fdm THEN [ok |-> FALSE, v |-> based, a |-> counted]
          ELSE [ok |-> TRUE, v |-> w, a |-> c]
  BY DEF Mapped
<1>5. w \in View /\ w.base = data /\ w.fdm = v.fdm /\ w.meta = TRUE
  <2> HIDE DEF based
  <2> QED BY <1>2 DEF View
<1>6. Counts(c, 1, One(v.fdm), One(data), 1)
  <2> DEFINE n == counted.meta + 1
  <2> HIDE DEF counted
  <2>1. counted \in Count /\ n = 1 /\ n \in Int /\ c = [counted EXCEPT !.meta = n]
    BY <1>3 DEF Counts
  <2> HIDE DEF n, c
  <2>2. Counts([counted EXCEPT !.meta = n], counted.fd, counted.fdm, counted.data, n)
    BY <2>1, Counted1
  <2> QED BY <1>3, <2>1, <2>2 DEF Counts
<1>7. data \in BOOLEAN
  OBVIOUS
<1> HIDE DEF w, c, fresh, based, counted, data
<1>8. \/ r.ok = FALSE /\ fault = "mapData" /\ r.a = a
      \/ r.ok = FALSE /\ (fault = "mapData" => ~data) /\ r.a = counted
      \/ r.ok = TRUE /\ v.fdm = TRUE /\ r.v = w /\ r.a = c
  BY <1>1, <1>4, <1>7
<1> HIDE DEF r
<1>9. CASE r.ok = FALSE /\ (fault = "mapData" => ~data) /\ r.a = counted
  BY <1>3, <1>7, <1>9 DEF Counts, One, r
<1>10. CASE r.ok = TRUE /\ v.fdm = TRUE /\ r.v = w /\ r.a = c
  BY <1>1, <1>5, <1>6, <1>10 DEF Counts, One, r
<1> QED
  BY <1>8, <1>9, <1>10 DEF r

LEMMA RegisterOwn ==
  ASSUME OwnInv, NEW b \in Buffer, NEW p \in Client, NEW fault \in Fault,
         registerBuffer(p, b, fault)
  PROVE  OwnInv'
<1> DEFINE v == Received(b)
           one == One(v.fdm)
           sent == [Nothing EXCEPT !.fd = 1, !.fdm = one]
           r == Mapped(b, v, sent, fault)
           a == IF r.ok THEN r.a ELSE Closed(v, r.a)
           x == IF r.ok THEN r.v ELSE None
           m == IF r.ok \/ fault = "mapData" THEN {} ELSE {"mapMeta"}
<1>1. /\ Counted /\ Owned(b) /\ Server \in Process /\ p \in Process /\ p # Server
      /\ Live(Server, b) /\ ~Live(p, b) /\ account[p][b] = Nothing /\ view[p][b] = None
      /\ view[Server][b] \in View /\ ~buffer[b].asked.internal
      /\ ~Has(b, "FRAMEBUFFER") /\ UNCHANGED <<platform, fb, buffer>>
      /\ view' = IF r.ok THEN [view EXCEPT ![p][b] = r.v] ELSE view
      /\ account' = [account EXCEPT ![p][b] = a]
      /\ struck' = [struck EXCEPT ![p][b] = m]
  BY GrallocAssumption DEF OwnInv, Counted, Process, registerBuffer, Live
<1>2. v \in View /\ v.fdm \in BOOLEAN
  BY <1>1 DEF Received, View
<1>3. Counts(sent, 1, one, 0, 0)
  <2>1. Nothing \in Count /\ 1 \in Int /\ Nothing.data = 0 /\ Nothing.meta = 0
    BY NothingCounts DEF Counts
  <2>2. one \in Int
    BY DEF One
  <2> HIDE DEF one
  <2>3. Counts([Nothing EXCEPT !.fd = 1, !.fdm = one], 1, one, Nothing.data, Nothing.meta)
    BY <2>1, <2>2, InPairs
  <2> QED BY <2>1, <2>3
<1>4. \/ /\ r.ok = TRUE /\ r.v \in View /\ r.v.fdm = TRUE /\ r.v.meta = TRUE
         /\ r.v.base = ~Has(b, "SECURE_BUFFER") /\ Counts(r.a, 1, 1, One(r.v.base), 1)
      \/ /\ r.ok = FALSE /\ r.a \in Count /\ (fault = "mapData" => r.a.data = 0)
         /\ r.a.fd = 1 /\ r.a.fdm = one /\ r.a.data >= 0 /\ r.a.meta = 0
  <2>1. LET s == Mapped(b, v, sent, fault)
        IN  \/ /\ s.ok = TRUE /\ s.v \in View /\ v.fdm = TRUE
               /\ s.v.fdm = TRUE /\ s.v.meta = TRUE /\ s.v.base = ~Has(b, "SECURE_BUFFER")
               /\ Counts(s.a, 1, 1, One(s.v.base), 1)
            \/ s.ok = FALSE /\ fault = "mapData" /\ s.a = sent
            \/ /\ s.ok = FALSE /\ s.a \in Count
               /\ (fault = "mapData" => s.a.data = 0)
               /\ s.a.fd = 1 /\ s.a.fdm = One(v.fdm) /\ s.a.data >= 0 /\ s.a.meta = 0
    <3>1. sent \in Count /\ ~Has(b, "FRAMEBUFFER")
      BY <1>1, <1>3 DEF Counts
    <3> HIDE DEF v, sent
    <3>2. Counts(sent, 1, One(v.fdm), 0, 0)
      BY <1>3
    <3> HIDE DEF one
    <3> QED BY <1>2, <3>1, <3>2, MappedCounts
  <2> HIDE DEF sent, v
  <2> QED BY <1>3, <2>1 DEF Counts
<1> DEFINE ok == r.ok
<1>5. m \in SUBSET Calls
  BY DEF Calls
<1>6. /\ a \in Count
      /\ \/ /\ ok = TRUE /\ x \in View /\ x.meta = x.fdm
            /\ x.base = ~Has(b, "SECURE_BUFFER")
            /\ Over(a, 1, One(x.fdm), One(x.base), One(x.meta), m)
         \/ ok = FALSE /\ x = None /\ Over(a, 0, 0, 0, 0, m)
  <2> HIDE DEF v
  <2>1. CASE ok = TRUE
    <3> DEFINE y == r.v
               e == r.a
    <3>1. /\ x = y /\ a = e /\ y \in View /\ y.fdm = TRUE /\ y.meta = TRUE
          /\ y.base = ~Has(b, "SECURE_BUFFER") /\ Counts(e, 1, 1, One(y.base), 1)
      BY <1>4, <2>1
    <3> HIDE DEF y, e, x, a, m, r
    <3>2. One(y.fdm) = 1 /\ One(y.meta) = 1 /\ One(y.base) \in Nat
      BY <3>1 DEF One
    <3>3. Over(e, 1, One(y.fdm), One(y.base), One(y.meta), m)
      BY <3>1, <3>2 DEF Counts, Over
    <3>4. a \in Count
      BY <3>1 DEF Counts
    <3> QED BY <2>1, <3>1, <3>3, <3>4
  <2>2. CASE ok = FALSE
    <3> DEFINE e == r.a
               z == Closed(v, e)
    <3>1. /\ e \in Count /\ (fault = "mapData" => e.data = 0)
          /\ e.fd = 1 /\ e.fdm = one /\ e.data >= 0 /\ e.meta = 0
          /\ x = None /\ a = z /\ m = IF fault = "mapData" THEN {} ELSE {"mapMeta"}
      BY <1>4, <2>2
    <3> HIDE DEF e
    <3>2. Counts(z, e.fd - 1, e.fdm - one, e.data, e.meta)
      BY <1>2, <3>1, ClosedCounts
    <3>3. one \in Int
      BY DEF One
    <3> HIDE DEF z, x, a, m, r, one
    <3> QED BY <2>2, <3>1, <3>2, <3>3 DEF Counts, Over
  <2>3. ok = TRUE \/ ok = FALSE
    BY <1>4
  <2> HIDE DEF r, a, x, m, ok
  <2> QED BY <2>1, <2>2, <2>3
<1>7. view' = [view EXCEPT ![p][b] = x]
  <2>1. CASE ok = TRUE
    BY <1>1, <2>1
  <2>2. CASE ok = FALSE
    <3>1. x = None /\ view' = view
      BY <1>1, <2>2
    <3> HIDE DEF x
    <3> QED BY <1>1, <3>1 DEF Counted
  <2> QED BY <1>6, <2>1, <2>2
<1> HIDE DEF v, r, a, x, m, ok
<1>8. /\ account' \in [Process -> [Buffer -> Count]]
      /\ struck' \in [Process -> [Buffer -> SUBSET Calls]]
      /\ account'[p][b] = a /\ struck'[p][b] = m
      /\ \A q \in Process, c \in Buffer : <<q, c>> # <<p, b>> =>
           account'[q][c] = account[q][c] /\ struck'[q][c] = struck[q][c]
  BY <1>1, <1>5, <1>6, OneCopy
<1>9. view' \in [Process -> [Buffer -> View \cup {None}]] /\ DOMAIN buffer' = Buffer
  BY <1>1, <1>6, <1>7 DEF Counted
<1>10. /\ view'[p][b] = x /\ buffer'[b] = buffer[b]
       /\ \A q \in Process : q # p =>
            /\ view'[q][b] = view[q][b] /\ account'[q][b] = account[q][b]
            /\ struck'[q][b] = struck[q][b]
       /\ \A d \in Buffer : d # b => Alike(d)
  BY <1>1, <1>7, <1>8 DEF Counted, Alike
<1>11. ~Carved(b) /\ ~Carved(b)'
  BY <1>1, <1>10 DEF Carved, Has
<1>12. Owned(b)'
  <2>1. ASSUME NEW q \in Process, NEW c \in DOMAIN Nothing PROVE Kept(q, b, c)'
    <3>1. CASE q = p
      <4>1. Backed(account'[q][b], Owed(view'[q][b]), struck'[q][b])
        BY <1>6, <1>8, <1>10, <3>1, OverLive, OverGone
      <4> QED BY <2>1, <4>1 DEF Kept, Backed, Owed, Nothing, Keeps, One
    <3>2. CASE q # p
      <4>1. Kept(q, b, c)
        BY <1>1, <1>11, <2>1 DEF Owned
      <4> QED BY <1>10, <3>2, <4>1 DEF Kept, Owed, Nothing, Keeps, One
    <3> QED BY <3>1, <3>2
  <2>2. ASSUME NEW q \in Process, Live(q, b)'
        PROVE  /\ view'[q][b].base = ~Has(b, "SECURE_BUFFER")'
               /\ view'[q][b].meta = view'[q][b].fdm
               /\ buffer'[b].asked.internal => ~view'[q][b].fdm
    <3>1. CASE q = p
      BY <1>1, <1>6, <1>10, <2>2, <3>1 DEF Has, Live
    <3>2. CASE q # p
      BY <1>1, <1>10, <1>11, <2>2, <3>2 DEF Has, Owned, Live
    <3> QED BY <3>1, <3>2
  <2> QED BY <1>11, <2>1, <2>2 DEF Owned, Nothing
<1> QED
  BY <1>1, <1>8, <1>9, <1>10, <1>11, <1>12, OneBuffer

\* What changes no more of a handle than the flag for the unlock.
LEMMA FlushOnly ==
  ASSUME OwnInv, NEW b \in Buffer, NEW p \in Process, NEW v \in View, view[p][b] \in View,
         v.base = view[p][b].base, v.fdm = view[p][b].fdm, v.meta = view[p][b].meta,
         view' = [view EXCEPT ![p][b] = v], UNCHANGED <<platform, fb, buffer, account, struck>>
  PROVE  OwnInv'
<1>1. Counted /\ Owned(b)
  BY DEF OwnInv
<1>2. Counted'
  BY <1>1 DEF Counted, FbSlots
<1>3. /\ view'[p][b] = v /\ \A q \in Process : q # p => view'[q][b] = view[q][b]
      /\ \A c \in Buffer : c # b => Alike(c)
  BY <1>1 DEF Counted, Alike
<1>4. /\ \A q \in Process : Live(q, b)' <=> Live(q, b)
      /\ \A flag : Has(b, flag)' <=> Has(b, flag)
  BY <1>3, GrallocAssumption DEF Live, Has
<1>5. /\ Carved(b)' <=> Carved(b)
      /\ Holders(b)' = Holders(b)
  BY <1>4 DEF Carved, Exists, Holders
<1>6. Owed(v) = Owed(view[p][b])
  BY GrallocAssumption DEF Owed
<1>7. Owned(b)'
  <2>1. CASE Carved(b)
    BY <1>1, <1>5, <2>1 DEF Owned, Nothing
  <2>2. CASE ~Carved(b)
    <3>1. ASSUME NEW q \in Process, NEW c \in DOMAIN Nothing PROVE Kept(q, b, c)'
      <4>1. Kept(q, b, c) /\ Owed(view'[q][b]) = Owed(view[q][b])
        BY <1>1, <1>3, <1>6, <2>2, <3>1 DEF Owned
      <4> QED BY <4>1 DEF Kept, Owed, Nothing, Keeps, One
    <3>2. ASSUME NEW q \in Process, Live(q, b)'
          PROVE  /\ view'[q][b].base = ~Has(b, "SECURE_BUFFER")'
                 /\ view'[q][b].meta = view'[q][b].fdm
                 /\ buffer'[b].asked.internal => ~view'[q][b].fdm
      BY <1>1, <1>3, <1>4, <2>2, <3>2 DEF Owned, Has
    <3> QED BY <1>5, <2>2, <3>1, <3>2 DEF Owned, Nothing
  <2> QED BY <2>1, <2>2
<1>8. ASSUME NEW c \in Buffer
      PROVE  (Carved(c)' <=> Carved(c)) /\ Slot(c)' = Slot(c) /\ Owned(c)'
  BY <1>3, <1>5, <1>7, AlikeKept DEF OwnInv, Slot, FbBufferSize, FbBytes
<1>9. Slotted'
  BY <1>8 DEF OwnInv, Slotted, FbBufferSize, FbBytes
<1> QED
  BY <1>2, <1>8, <1>9 DEF OwnInv

\* A buffer that may be locked has its memory mapped already.
LEMMA LockOwn ==
  ASSUME OwnInv, NEW b \in Buffer, NEW p \in Process, NEW mode, NEW fault,
         lock(p, b, mode, fault)
  PROVE  OwnInv'
<1> DEFINE v == view[p][b]
           flush == v.flush \/ (Has(b, "CACHED") /\ "write" \in mode)
           w == [v EXCEPT !.flush = flush]
<1>1. /\ Counted /\ Owned(b) /\ Live(p, b) /\ v \in View /\ UNCHANGED <<platform, fb, buffer>>
      /\ ~Has(b, "SECURE_BUFFER") /\ ~Has(b, "FRAMEBUFFER")
  BY DEF OwnInv, Counted, lock, Allowed, Live
<1>2. v.base = TRUE
  BY <1>1 DEF Owned, Carved
<1>3. view' = [view EXCEPT ![p][b] = w] /\ account' = [account EXCEPT ![p][b] = account[p][b]]
  BY <1>2 DEF lock
<1>4. UNCHANGED <<account, struck>>
  <2>1. UNCHANGED struck
    BY DEF lock
  <2> QED BY <1>1, <1>3, <2>1 DEF Counted
<1>5. w \in View /\ w.base = v.base /\ w.fdm = v.fdm /\ w.meta = v.meta
  BY <1>1 DEF View, Has
<1> HIDE DEF v, w
<1> QED
  BY <1>1, <1>3, <1>4, <1>5, FlushOnly DEF v

LEMMA UnlockOwn ==
  ASSUME OwnInv, NEW b \in Buffer, NEW p \in Process, NEW fault, unlock(p, b, fault)
  PROVE  OwnInv'
<1> DEFINE v == view[p][b]
           w == [v EXCEPT !.flush = FALSE]
<1>1. /\ Counted /\ Live(p, b) /\ v \in View /\ UNCHANGED <<platform, fb, buffer, account, struck>>
      /\ view' = [view EXCEPT ![p][b] = w]
  BY DEF OwnInv, Counted, unlock, Live
<1>2. w \in View /\ w.base = v.base /\ w.fdm = v.fdm /\ w.meta = v.meta
  BY <1>1 DEF View
<1> HIDE DEF v, w
<1> QED
  BY <1>1, <1>2, FlushOnly DEF v

LEMMA MapFbOwn ==
  ASSUME OwnInv, mapFrameBuffer
  PROVE  OwnInv'
<1>1. Counted /\ ~fb.mapped /\ UNCHANGED <<platform, buffer, view, account, struck>>
      /\ fb' = [mapped |-> TRUE, mask |-> {}]
  BY DEF OwnInv, mapFrameBuffer
<1>2. fb.mask = {} /\ Counted'
  BY <1>1 DEF OwnInv, Slotted, Counted, FbSlots
<1>3. \A c \in Buffer : (Carved(c)' <=> Carved(c)) /\ ~Carved(c) /\ Owned(c)'
  BY <1>1, <1>2, AlikeKept DEF OwnInv, Slotted, Alike
<1>4. Slotted'
  BY <1>1, <1>3 DEF Slotted
<1> QED
  BY <1>2, <1>3, <1>4 DEF OwnInv

LEMMA OwnInit == Init => OwnInv
<1> SUFFICES ASSUME Init PROVE OwnInv
  OBVIOUS
<1>1. \A b \in Buffer : ~Exists(b) /\ ~Carved(b)
  BY DEF Init, Exists, Live, Carved
<1>2. Counted
  BY NothingCounts DEF Init, Counted, Counts
<1>3. Slotted
  BY <1>1 DEF Init, Slotted
<1>4. ASSUME NEW b \in Buffer PROVE Owned(b)
  <2>1. ASSUME NEW p \in Process
        PROVE  /\ view[p][b] = None /\ account[p][b] = Nothing /\ Nothing \in Count
               /\ Over(account[p][b], 0, 0, 0, 0, struck[p][b])
    BY <1>4, <2>1, NothingOver, NothingCounts DEF Init, Counts
  <2>2. \A p \in Process : Backed(account[p][b], Owed(view[p][b]), struck[p][b])
    BY <2>1, OverGone
  <2>3. \A p \in Process : \A c \in DOMAIN Nothing : Kept(p, b, c)
    BY <2>2, KeptIs
  <2> QED BY <1>1, <1>4, <2>1, <2>3 DEF Owned, Live
<1> QED
  BY <1>2, <1>3, <1>4 DEF OwnInv

LEMMA OwnStep == ASSUME Panels, OwnInv, [Next]_vars PROVE OwnInv'
<1>1. CASE mapFrameBuffer
  BY <1>1, MapFbOwn
<1>2. CASE UNCHANGED vars
  BY <1>2, OwnUntouched DEF vars
<1>3. ASSUME NEW b \in Buffer, NEW r \in Asked(platform, b), NEW f \in Fault, alloc(b, r, f)
      PROVE  OwnInv'
  BY <1>3, AllocOwn
<1>4. ASSUME NEW b \in Buffer, NEW r \in Asked(platform, b), NEW f \in Fault, alloc_buffer(b, r, f)
      PROVE  OwnInv'
  BY <1>4, AllocInternalOwn
<1>5. ASSUME NEW b \in Buffer, \E f \in Fault : free(b, f) \/ free_buffer(b, f)
      PROVE  OwnInv'
  BY <1>5, FreeOwn, FreeInternalOwn
<1>6. ASSUME NEW b \in Buffer, NEW p \in Client, NEW f \in Fault, registerBuffer(p, b, f)
      PROVE  OwnInv'
  BY <1>6, RegisterOwn
<1>7. ASSUME NEW b \in Buffer, NEW p \in Client, NEW f \in Fault, unregisterBuffer(p, b, f)
      PROVE  OwnInv'
  BY <1>7, UnregisterOwn
<1>8. ASSUME NEW b \in Buffer, NEW p \in Process, NEW mode \in Modes, NEW f \in Fault,
             lock(p, b, mode, f)
      PROVE  OwnInv'
  BY <1>8, LockOwn
<1>9. ASSUME NEW b \in Buffer, NEW p \in Process, NEW f \in Fault, unlock(p, b, f)
      PROVE  OwnInv'
  BY <1>9, UnlockOwn
<1>10. ASSUME NEW b \in Buffer,
              \/ Fetch(b) \/ CpuWrite(b) \/ DeviceEnd(b)
              \/ \E op \in {"read", "write"} : DeviceBegin(b, op)
       PROVE  OwnInv'
  BY <1>10, OwnUntouched DEF Fetch, CpuWrite, DeviceBegin, DeviceEnd
<1> QED
  BY <1>1, <1>2, <1>3, <1>4, <1>5, <1>6, <1>7, <1>8, <1>9, <1>10 DEF Next

\* Buffers and slots go in pairs, so there are as many of the one as of the
\* other.
LEMMA OwnMeans == ASSUME Panels, OwnInv PROVE ResourcesOwned
<1> DEFINE carved == {b \in Buffer : Exists(b) /\ Has(b, "FRAMEBUFFER")}
           holder == [i \in fb.mask |-> CHOOSE b \in carved : Slot(b) = i]
<1>1. \A b : b \in carved <=> b \in Buffer /\ Carved(b)
  BY DEF Carved
<1> HIDE DEF carved
<1>2. \A p \in Process, b \in Buffer \ carved : \A c \in DOMAIN Nothing : Kept(p, b, c)
  BY <1>1 DEF OwnInv, Owned
<1>3. /\ \A b \in carved : Slot(b) \in fb.mask
      /\ \A b, c \in carved : Slot(b) = Slot(c) => b = c
      /\ \A i \in fb.mask : \E b \in carved : Slot(b) = i
  BY <1>1 DEF OwnInv, Slotted
<1>4. fb.mask = {buffer[b].offset \div FbBufferSize : b \in carved}
  BY <1>3 DEF Slot
<1>5. \A i \in fb.mask : holder[i] \in carved /\ Slot(holder[i]) = i
  BY <1>3
<1>6. holder \in Bijection(fb.mask, carved)
  <2>1. holder \in [fb.mask -> carved]
    BY <1>5
  <2>2. \A b \in carved : \E i \in fb.mask : holder[i] = b
    BY <1>3, <1>5
  <2>3. \A i, j \in fb.mask : holder[i] = holder[j] => i = j
    BY <1>5
  <2> HIDE DEF holder
  <2> QED BY <2>1, <2>2, <2>3, Fun_IsBij
<1>7. IsFiniteSet(fb.mask)
  <2>1. fb.mask \in SUBSET FbSlots /\ IsFiniteSet(FbSlots)
    BY FS_Interval DEF OwnInv, Counted, FbSlots, Panels
  <2> QED BY <2>1, FS_Subset
<1>8. Cardinality(fb.mask) = Cardinality(carved)
  <2> HIDE DEF holder
  <2> QED BY <1>6, <1>7, FS_Bijection DEF ExistsBijection
<1> QED
  BY <1>2, <1>4, <1>8 DEF ResourcesOwned, carved

\* ResourcesOwned of Gralloc, whichever calls of the kernel fail, if the panel's
\* rounding fits: every process has the descriptors and mappings its copies
\* stand for, through allocations, sends, locks and frees in any order, and
\* others only where a call failed after which the code leaves them behind; the
\* slots of the framebuffer taken are those of the buffers there are.
THEOREM Ownership == ASSUME Panels PROVE Spec => []ResourcesOwned
<1>1. OwnInv => ResourcesOwned
  BY OwnMeans
<1> QED
  BY <1>1, OwnInit, OwnStep, PTL DEF Spec

-----------------------------------------------------------------------------
(* The planes: arithmetic of rounding and of products.                     *)

LEMMA Product ==
  ASSUME NEW a \in Nat, NEW b \in Nat, NEW c \in Nat, NEW d \in Nat, a <= c, b <= d
  PROVE  a * b \in Nat /\ c * d \in Nat /\ a * b <= c * d
<1> DEFINE x == c - a
           y == d - b
<1>1. x \in Nat /\ y \in Nat /\ c = a + x /\ d = b + y
  OBVIOUS
<1> HIDE DEF x, y
<1>2. (a + x) * (b + y) = a * b + a * y + x * b + x * y
  BY <1>1
<1>3. a * b \in Nat /\ a * y \in Nat /\ x * b \in Nat /\ x * y \in Nat
  BY <1>1
<1> DEFINE p == a * b
           q == a * y
           r == x * b
           s == x * y
<1>4. p \in Nat /\ q \in Nat /\ r \in Nat /\ s \in Nat /\ (a + x) * (b + y) = p + q + r + s
  BY <1>2, <1>3
<1> HIDE DEF p, q, r, s
<1>5. p <= (a + x) * (b + y)
  BY <1>4
<1> QED
  BY <1>1, <1>4, <1>5 DEF p

LEMMA Division ==
  ASSUME NEW n \in Nat, NEW a \in Nat \ {0}
  PROVE  n \div a \in Nat /\ (n \div a) * a <= n /\ n < (n \div a) * a + a
  OBVIOUS

\* AlignUp for any alignment.
LEMMA AlignedUp ==
  ASSUME NEW x \in Nat, NEW y \in Nat, x <= y, NEW a \in Nat \ {0}
  PROVE  AlignUp(x, a) \in Nat /\ AlignUp(x, a) >= x /\ AlignUp(x, a) <= AlignUp(y, a)
<1> DEFINE q == (x + a - 1) \div a
           r == (y + a - 1) \div a
<1>1. x + a - 1 \in Nat /\ y + a - 1 \in Nat
  OBVIOUS
<1>2. q \in Nat /\ q * a <= x + a - 1 /\ x + a - 1 < q * a + a
  BY <1>1, Division
<1>3. r \in Nat /\ r * a <= y + a - 1 /\ y + a - 1 < r * a + a
  BY <1>1, Division
<1> HIDE DEF q, r
<1>4. q * a \in Nat /\ q * a >= x
  BY <1>2
<1>5. q <= r
  <2> SUFFICES ASSUME r + 1 <= q PROVE FALSE
    BY <1>2, <1>3
  <2>1. (r + 1) * a <= q * a
    BY <1>2, <1>3, Product
  <2>2. (r + 1) * a = r * a + a /\ r * a \in Int
    BY <1>3
  <2> QED BY <2>1, <2>2, <1>2, <1>3, <1>4
<1>6. q * a <= r * a
  BY <1>2, <1>3, <1>5, Product
<1> QED
  BY <1>4, <1>6 DEF q, r, AlignUp

\* Half the rows take no more than half of the bytes.
LEMMA HalfRows ==
  ASSUME NEW a \in Nat, NEW n \in Nat
  PROVE  a * (n \div 2) \in Nat /\ a * n \in Nat /\ a * (n \div 2) + a * (n \div 2) <= a * n
<1> DEFINE q == n \div 2
<1>1. q \in Nat /\ q + q <= n
  OBVIOUS
<1> HIDE DEF q
<1>2. a * (q + q) <= a * n /\ a * n \in Nat
  BY <1>1, Product
<1>3. a * (q + q) = a * q + a * q /\ a * q \in Nat
  BY <1>1
<1> QED
  BY <1>2, <1>3 DEF q

\* Two planes, the second of half the rows, of an image that is no wider and
\* no higher than the buffer.
LEMMA Semiplanar ==
  ASSUME NEW sw \in Nat, NEW sh \in Nat, NEW aw \in Nat, NEW ah \in Nat,
         NEW cw \in Nat, NEW ch \in Nat, sw <= aw, sh <= ah, sw <= cw, sh \div 2 <= ch
  PROVE  /\ sw * sh \in Nat /\ sw * (sh \div 2) \in Nat
         /\ aw * ah \in Nat /\ cw * ch \in Nat
         /\ sw * sh + sw * (sh \div 2) <= aw * ah + cw * ch
<1> DEFINE q == sh \div 2
<1>1. q \in Nat /\ q <= ch
  OBVIOUS
<1> HIDE DEF q
<1>2. sw * sh <= aw * ah /\ sw * sh \in Nat /\ aw * ah \in Nat
  BY Product
<1>3. sw * q <= cw * ch /\ sw * q \in Nat /\ cw * ch \in Nat
  BY <1>1, Product
<1> DEFINE i == sw * sh
           j == aw * ah
           k == sw * q
           l == cw * ch
<1>4. i \in Nat /\ j \in Nat /\ k \in Nat /\ l \in Nat /\ i <= j /\ k <= l
  BY <1>2, <1>3
<1> HIDE DEF i, j, k, l
<1>5. i + k <= j + l
  BY <1>4
<1> QED
  BY <1>2, <1>3, <1>5 DEF i, j, k, l, q

-----------------------------------------------------------------------------
(* The planes, format by format.                                             *)

LEMMA PlaneFormats ==
  ASSUME NEW f, HasPlanes(f)
  PROVE  f \in Wide \cup Sixteen \cup Venus \cup {"YCrCb_420_SP_ADRENO", "NV21_ZSL"}
  BY DEF HasPlanes, CbCr, CrCb, Wide, Sixteen, Venus

LEMMA Rounds ==
  ASSUME NEW p, NEW w, NEW h, NEW f, NEW tiled
  PROVE  RoundedTo(p, f, Aligned(p, w, h, f, tiled), w, h)
  BY DEF RoundedTo, Aligned, RgbFormats, VenusStride, VenusScanlines, Wide, Sixteen, Venus

\* Rounding keeps an image inside one that is no smaller, and holds it.
LEMMA Shapes ==
  ASSUME NEW p, p.pixelAlign \in Nat \ {0}, NEW f, HasPlanes(f),
         NEW w \in Nat, NEW h \in Nat, NEW iw \in Nat, NEW ih \in Nat, iw <= w, ih <= h,
         NEW s, RoundedTo(p, f, s, iw, ih), NEW a, RoundedTo(p, f, a, w, h)
  PROVE  /\ s[1] \in Nat /\ s[2] \in Nat /\ a[1] \in Nat /\ a[2] \in Nat
         /\ s[1] <= a[1] /\ s[2] <= a[2]
         /\ s[1] >= iw /\ s[2] >= ih
<1>1. ASSUME NEW k \in {p.pixelAlign, 16, 32, 64, 128}
      PROVE  /\ AlignUp(iw, k) \in Nat /\ AlignUp(w, k) \in Nat
             /\ AlignUp(iw, k) <= AlignUp(w, k) /\ AlignUp(iw, k) >= iw
  <2>1. k \in Nat \ {0}
    OBVIOUS
  <2> QED BY <2>1, AlignedUp
<1>2. ASSUME NEW k \in {32, 64}
      PROVE  /\ AlignUp(ih, k) \in Nat /\ AlignUp(h, k) \in Nat
             /\ AlignUp(ih, k) <= AlignUp(h, k) /\ AlignUp(ih, k) >= ih
  <2>1. k \in Nat \ {0}
    OBVIOUS
  <2> QED BY <2>1, AlignedUp
<1>3. CASE f \in Wide
  <2>1. s = <<AlignUp(iw, p.pixelAlign), ih>> /\ a = <<AlignUp(w, p.pixelAlign), h>>
    BY <1>3 DEF RoundedTo
  <2> QED BY <2>1, <1>1
<1>4. CASE f = "YCrCb_420_SP_ADRENO"
  <2>1. s = <<AlignUp(iw, 32), ih>> /\ a = <<AlignUp(w, 32), h>>
    BY <1>4 DEF RoundedTo
  <2> QED BY <2>1, <1>1
<1>5. CASE f \in Sixteen
  <2>1. s = <<AlignUp(iw, 16), ih>> /\ a = <<AlignUp(w, 16), h>>
    BY <1>5 DEF RoundedTo
  <2> QED BY <2>1, <1>1
<1>6. CASE f \in Venus
  <2>1. s = <<AlignUp(iw, 128), AlignUp(ih, 32)>> /\ a = <<AlignUp(w, 128), AlignUp(h, 32)>>
    BY <1>6 DEF RoundedTo
  <2> QED BY <2>1, <1>1, <1>2
<1>7. CASE f = "NV21_ZSL"
  <2>1. s = <<AlignUp(iw, 64), AlignUp(ih, 64)>> /\ a = <<AlignUp(w, 64), AlignUp(h, 64)>>
    BY <1>7 DEF RoundedTo
  <2> QED BY <2>1, <1>1, <1>2
<1> QED
  BY <1>3, <1>4, <1>5, <1>6, <1>7, PlaneFormats

LEMMA AtLeast == ASSUME NEW n \in Nat PROVE AlignUp(n, Page) \in Nat /\ AlignUp(n, Page) >= n
  BY DEF AlignUp, Page

\* The bytes of two planes, the second of half the rows but for the formats
\* 422, are in what getSize works out for an image that is no smaller.
LEMMA TwoPlanes ==
  ASSUME NEW p, p.pixelAlign \in Nat \ {0}, NEW f, HasPlanes(f), f # "YV12",
         NEW w \in Nat, NEW h \in Nat, NEW iw \in Nat, NEW ih \in Nat, iw <= w, ih <= h,
         NEW s, RoundedTo(p, f, s, iw, ih), NEW a, RoundedTo(p, f, a, w, h),
         f = "YCrCb_420_SP_ADRENO" => w % 64 # 1,
         SizeOf(f, w, h, a[1], a[2]) # 0
  PROVE  /\ SizeOf(f, w, h, a[1], a[2]) \in Nat
         /\ LET rows == IF f \in {"YCbCr_422_SP", "YCrCb_422_SP"} THEN s[2] ELSE s[2] \div 2
            IN  s[1] * s[2] + s[1] * rows <= SizeOf(f, w, h, a[1], a[2])
<1> DEFINE size == SizeOf(f, w, h, a[1], a[2])
           x == s[1]
           y == s[2]
           u == a[1]
           v == a[2]
<1>1. x \in Nat /\ y \in Nat /\ u \in Nat /\ v \in Nat /\ x <= u /\ y <= v
  BY Shapes
<1>2. size = SizeOf(f, w, h, u, v)
  OBVIOUS
<1>3. CASE f \in Wide \cup {"NV21_ZSL"}
  <2>1. size = AlignUp(u * v + (u * v) \div 2 + 1, Page) \/ size = AlignUp(u * v + (u * v) \div 2, Page)
    BY <1>3 DEF SizeOf, RgbFormats, Wide
  <2> HIDE DEF size, x, y, u, v
  <2>2. x * y + x * (y \div 2) <= u * v + u * (v \div 2) /\ x * y \in Nat /\ x * (y \div 2) \in Nat
    <3>1. v \div 2 \in Nat /\ y \div 2 <= v \div 2
      BY <1>1
    <3> QED BY <1>1, <3>1, Semiplanar
  <2>3. /\ u * (v \div 2) + u * (v \div 2) <= u * v
        /\ u * v \in Nat /\ u * (v \div 2) \in Nat
    BY <1>1, HalfRows
  <2> DEFINE m == x * y + x * (y \div 2)
             n == u * v
             k == u * (v \div 2)
  <2>4. m \in Nat /\ n \in Nat /\ k \in Nat /\ m <= n + k /\ k + k <= n
    BY <2>2, <2>3
  <2> HIDE DEF m, n, k
  <2>5. n + n \div 2 \in Nat /\ n + n \div 2 + 1 \in Nat /\ m <= n + n \div 2
    BY <2>4
  <2>6. size \in Nat /\ m <= size
    <3>1. size = AlignUp(n + n \div 2 + 1, Page) \/ size = AlignUp(n + n \div 2, Page)
      BY <2>1 DEF n
    <3> QED BY <3>1, <2>4, <2>5, AtLeast
  <2>7. f \notin {"YCbCr_422_SP", "YCrCb_422_SP"}
    BY <1>3 DEF Wide
  <2> QED BY <2>6, <2>7 DEF m, x, y, size
<1>4. CASE f \in {"YCbCr_422_SP", "YCrCb_422_SP"}
  <2>1. size = AlignUp(u * v * 2, Page)
    BY <1>4 DEF SizeOf, RgbFormats
  <2> HIDE DEF size, x, y, u, v
  <2>2. x * y <= u * v /\ x * y \in Nat /\ u * v \in Nat
    BY <1>1, Product
  <2> DEFINE m == x * y
             n == u * v
  <2>3. m \in Nat /\ n \in Nat /\ m <= n /\ size = AlignUp(n * 2, Page)
    BY <2>1, <2>2
  <2> HIDE DEF m, n
  <2>4. size \in Nat /\ m + m <= size
    BY <2>3, AtLeast
  <2> QED BY <1>4, <2>4 DEF m, x, y, size
<1>5. CASE f \in Venus
  <2>1. size = AlignUp(u * v + u * AlignUp((h + 1) \div 2, 16), Page)
    <3>1. u = VenusStride(w) /\ v = VenusScanlines(h)
      BY <1>5 DEF RoundedTo, VenusStride, VenusScanlines
    <3>2. size = VenusSize(w, h)
      BY <1>5 DEF SizeOf, RgbFormats, Venus
    <3> QED BY <3>1, <3>2 DEF VenusSize
  <2>2. AlignUp((h + 1) \div 2, 16) \in Nat /\ y \div 2 <= AlignUp((h + 1) \div 2, 16)
    <3>1. v = AlignUp(h, 32)
      BY <1>5 DEF RoundedTo
    <3> HIDE DEF x, y, u, v
    <3>2. v \div 2 = AlignUp((h + 1) \div 2, 16) /\ v \div 2 \in Nat /\ y \div 2 <= v \div 2
      BY <1>1, <3>1 DEF AlignUp
    <3> QED BY <3>2
  <2>3. f \notin {"YCbCr_422_SP", "YCrCb_422_SP"}
    BY <1>5 DEF Venus
  <2> DEFINE c == AlignUp((h + 1) \div 2, 16)
  <2> HIDE DEF size, x, y, u, v, c
  <2>4. /\ x * y + x * (y \div 2) <= u * v + u * c
        /\ x * y \in Nat /\ x * (y \div 2) \in Nat /\ u * v \in Nat /\ u * c \in Nat
    <3>1. c \in Nat /\ y \div 2 <= c
      BY <2>2 DEF c
    <3> QED BY <1>1, <3>1, Semiplanar
  <2> DEFINE m == x * y + x * (y \div 2)
             n == u * v + u * c
  <2>5. m \in Nat /\ n \in Nat /\ m <= n /\ size = AlignUp(n, Page)
    BY <2>1, <2>4 DEF c
  <2> HIDE DEF m, n
  <2>6. size \in Nat /\ m <= size
    BY <2>5, AtLeast
  <2> QED BY <2>3, <2>6 DEF m, x, y, size
<1>6. CASE f = "YCrCb_420_SP_ADRENO"
  <2> DEFINE c == 2 * AlignUp(w \div 2, 32)
             d == AlignUp(h \div 2, 32)
  <2>1. size = AlignUp(u * v, Page) + AlignUp(c * d, Page)
    BY <1>6 DEF SizeOf, RgbFormats
  <2>2. u = AlignUp(w, 32) /\ v = h
    BY <1>6 DEF RoundedTo
  <2> HIDE DEF size, x, y, u, v
  <2>3. c \in Nat /\ u <= c
    BY <1>6, <2>2 DEF AlignUp
  <2>4. d \in Nat /\ y \div 2 <= d
    BY <1>1, <2>2 DEF AlignUp
  <2>5. f \notin {"YCbCr_422_SP", "YCrCb_422_SP"}
    BY <1>6
  <2> HIDE DEF c, d
  <2>6. /\ x * y + x * (y \div 2) <= u * v + c * d
        /\ x * y \in Nat /\ x * (y \div 2) \in Nat /\ u * v \in Nat /\ c * d \in Nat
    <3>1. x <= c
      BY <1>1, <2>3
    <3> QED BY <1>1, <2>3, <2>4, <3>1, Semiplanar
  <2> DEFINE m == x * y + x * (y \div 2)
             n == u * v
             k == c * d
  <2>7. m \in Nat /\ n \in Nat /\ k \in Nat /\ m <= n + k
        /\ size = AlignUp(n, Page) + AlignUp(k, Page)
    BY <2>1, <2>6
  <2> HIDE DEF m, n, k
  <2>8. size \in Nat /\ m <= size
    BY <2>7, AtLeast
  <2> QED BY <2>5, <2>8 DEF m, x, y, size
<1> QED
  BY <1>3, <1>4, <1>5, <1>6, PlaneFormats DEF Sixteen

\* The same of three planes: those of YV12.
LEMMA ThreePlanes ==
  ASSUME NEW w \in Nat, NEW h \in Nat, NEW u \in Nat, NEW x \in Nat, NEW y \in Nat,
         x <= u, y <= h, x % 2 = 0, SizeOf("YV12", w, h, u, h) # 0
  PROVE  /\ SizeOf("YV12", w, h, u, h) \in Nat
         /\ LET c == AlignUp(x \div 2, 16)
            IN  /\ c \in Nat /\ x <= c * 2
                /\ c * (y \div 2) <= (c * y) \div 2
                /\ x * y + (c * y) \div 2 + c * (y \div 2) <= SizeOf("YV12", w, h, u, h)
<1> DEFINE size == SizeOf("YV12", w, h, u, h)
           c == AlignUp(x \div 2, 16)
           d == AlignUp(u \div 2, 16)
<1>1. h % 2 # 1 /\ size = AlignUp(u * h + d * (h \div 2) * 2, Page)
  BY DEF SizeOf, RgbFormats
<1>2. c \in Nat /\ d \in Nat /\ c <= d /\ x <= c * 2
  <2>1. x \div 2 \in Nat /\ u \div 2 \in Nat /\ x \div 2 <= u \div 2 /\ 16 \in Nat \ {0}
    OBVIOUS
  <2>2. c \in Nat /\ d \in Nat /\ c <= d /\ c >= x \div 2
    BY <2>1, AlignedUp
  <2>3. x <= c * 2
    BY DEF AlignUp
  <2> QED BY <2>2, <2>3
<1> HIDE DEF size, c, d
<1>3. c * (y \div 2) \in Nat /\ c * y \in Nat /\ c * (y \div 2) + c * (y \div 2) <= c * y
  BY <1>2, HalfRows
<1>4. c * y <= d * h /\ x * y <= u * h /\ x * y \in Nat /\ u * h \in Nat /\ d * h \in Nat
  BY <1>2, Product
<1>5. d * (h \div 2) * 2 = d * h
  <2> DEFINE q == h \div 2
  <2>1. q \in Nat /\ h = q + q
    BY <1>1
  <2> HIDE DEF q
  <2>2. d * q * 2 = d * (q + q)
    BY <1>2, <2>1
  <2> QED BY <2>1, <2>2 DEF q
<1> DEFINE e == c * (y \div 2)
           i == c * y
           j == d * h
           m == x * y
           n == u * h
<1>6. e \in Nat /\ i \in Nat /\ j \in Nat /\ m \in Nat /\ n \in Nat /\ e + e <= i /\ i <= j /\ m <= n
      /\ size = AlignUp(n + j, Page)
  BY <1>1, <1>3, <1>4, <1>5
<1> HIDE DEF e, i, j, m, n
<1>7. size \in Nat /\ size >= n + j
  BY <1>6, AtLeast
<1>8. e <= i \div 2 /\ m + i \div 2 + e <= size
  BY <1>6, <1>7
<1> QED
  BY <1>2, <1>7, <1>8 DEF e, i, m, c, size

\* What Planes reports of an image in a buffer asked for at least as large
\* lies in what Dimensions has allocated.
LEMMA PlanesInside ==
  ASSUME NEW p, p.pixelAlign \in Nat \ {0}, NEW f, HasPlanes(f),
         NEW w \in Nat, NEW h \in Nat, NEW iw \in Nat, NEW ih \in Nat, iw <= w, ih <= h,
         NEW s, RoundedTo(p, f, s, iw, ih), NEW a, RoundedTo(p, f, a, w, h),
         f = "YCrCb_420_SP_ADRENO" => w % 64 # 1,
         SizeOf(f, w, h, a[1], a[2]) # 0,
         NEW size \in Nat, size >= SizeOf(f, w, h, a[1], a[2]),
         NEW g, Shape(p, f, a[1], a[2], g) = s
  PROVE  PlanesLie(f, Planes(p, f, a[1], a[2], g), <<iw, ih>>, size)
<1> DEFINE x == s[1]
           y == s[2]
           q == Planes(p, f, a[1], a[2], g)
<1>1. /\ x \in Nat /\ y \in Nat /\ a[1] \in Nat /\ a[2] \in Nat /\ x <= a[1] /\ y <= a[2]
      /\ x >= iw /\ y >= ih
  BY Shapes
<1>2. x * ih <= x * y /\ x * ih \in Nat /\ x * y \in Nat
  BY <1>1, Product
<1>3. CASE f # "YV12"
  <2> DEFINE rows == IF f \in {"YCbCr_422_SP", "YCrCb_422_SP"} THEN y ELSE y \div 2
             z == x * y
             r == x * rows
  <2>1. /\ q.rows = y /\ q.ystride = x /\ q.cstride = x /\ q.step = 2
        /\ (q.cb = z /\ q.cr = z + 1) \/ (q.cb = z + 1 /\ q.cr = z)
    BY <1>3 DEF Planes
  <2>2. r \in Nat /\ z + r <= size
    <3>1. SizeOf(f, w, h, a[1], a[2]) \in Nat /\ z + r <= SizeOf(f, w, h, a[1], a[2])
      BY <1>3, TwoPlanes
    <3>2. rows \in Nat
      BY <1>1
    <3>3. r \in Nat
      <4> HIDE DEF rows
      <4> QED BY <1>1, <3>2
    <3> HIDE DEF rows, z, r
    <3>4. z \in Nat
      BY <1>2 DEF z
    <3> QED BY <3>1, <3>3, <3>4
  <2>3. z \in Nat /\ x * ih <= z
    BY <1>2
  <2> HIDE DEF q, x, y, z
  <2>4. /\ q.rows >= ih /\ q.ystride >= iw /\ q.cstride * 1 >= iw
        /\ q.cstride * rows = r /\ q.ystride * ih = x * ih
    BY <1>1, <2>1
  <2> DEFINE first == IF q.cb < q.cr THEN q.cb ELSE q.cr
  <2>5. first = z
    BY <2>1, <2>3
  <2> HIDE DEF r, first
  <2>6. first >= q.ystride * ih /\ first + q.cstride * rows <= size
    BY <2>2, <2>3, <2>4, <2>5
  <2> QED BY <1>3, <2>1, <2>4, <2>6 DEF PlanesLie, first, q
<1>4. CASE f = "YV12"
  <2> DEFINE c == AlignUp(x \div 2, 16)
             z == x * y
             k == (c * y) \div 2
             e == c * (y \div 2)
  <2>1. /\ q.rows = y /\ q.ystride = x /\ q.cstride = c /\ q.step = 1
        /\ q.cb = z + k /\ q.cr = z
    BY <1>4 DEF Planes, CbCr
  <2>2. a[2] = h
    BY <1>4 DEF RoundedTo, Sixteen
  <2> DEFINE n == SizeOf("YV12", w, h, a[1], h)
  <2>3. n # 0 /\ n <= size
    BY <1>4, <2>2
  <2>11. x % 2 = 0
    <3>1. x = AlignUp(iw, 16)
      BY <1>4 DEF RoundedTo, Sixteen
    <3> HIDE DEF x
    <3> QED BY <3>1 DEF AlignUp
  <2>4. n \in Nat /\ c \in Nat /\ x <= c * 2 /\ e <= k /\ z + k + e <= n
    <3> HIDE DEF n
    <3>1. SizeOf("YV12", w, h, a[1], h) # 0
      BY <2>3 DEF n
    <3> DEFINE u == a[1]
    <3>4. u \in Nat /\ x \in Nat /\ y \in Nat /\ x <= u /\ y <= h
      BY <1>1, <2>2
    <3>5. SizeOf("YV12", w, h, u, h) # 0
      BY <3>1
    <3> HIDE DEF x, y, u
    <3>2. /\ SizeOf("YV12", w, h, u, h) \in Nat
          /\ c \in Nat /\ x <= c * 2
          /\ c * (y \div 2) <= (c * y) \div 2
          /\ x * y + (c * y) \div 2 + c * (y \div 2) <= SizeOf("YV12", w, h, u, h)
      BY <2>11, <3>4, <3>5, ThreePlanes
    <3> QED BY <3>2 DEF n, u
  <2>5. e \in Nat
    BY <1>1, <2>4
  <2>6. z \in Nat /\ x * ih <= z
    BY <1>2
  <2>7. k \in Nat
    <3>1. c * y \in Nat
      BY <1>1, <2>4
    <3> QED BY <3>1
  <2> HIDE DEF q, x, y, z, c, k, n
  <2>8. /\ q.rows >= ih /\ q.ystride >= iw /\ q.cstride * 2 >= iw
        /\ q.cstride * (q.rows \div 2) = e /\ q.ystride * ih = x * ih
    BY <1>1, <2>1, <2>4
  <2> DEFINE first == IF q.cb < q.cr THEN q.cb ELSE q.cr
             second == IF q.cb < q.cr THEN q.cr ELSE q.cb
  <2>9. first = z /\ second = z + k
    BY <2>1, <2>6, <2>7
  <2> HIDE DEF e, first, second
  <2>10. /\ first >= q.ystride * ih
         /\ second >= first + q.cstride * (q.rows \div 2)
         /\ second + q.cstride * (q.rows \div 2) <= size
    BY <2>3, <2>4, <2>5, <2>6, <2>7, <2>8, <2>9
  <2> QED BY <1>4, <2>1, <2>8, <2>10 DEF PlanesLie, first, second, q
<1> QED
  BY <1>3, <1>4

LEMMA SizeIsCount ==
  ASSUME NEW p, p.pixelAlign \in Nat \ {0}, NEW f, HasPlanes(f), NEW w \in Nat, NEW h \in Nat,
         NEW a, RoundedTo(p, f, a, w, h), f = "YCrCb_420_SP_ADRENO" => w % 64 # 1,
         SizeOf(f, w, h, a[1], a[2]) # 0
  PROVE  SizeOf(f, w, h, a[1], a[2]) \in Nat
<1>1. a[1] \in Nat /\ a[2] \in Nat
  <2>1. w <= w /\ h <= h
    OBVIOUS
  <2> QED BY <2>1, Shapes
<1>2. CASE f # "YV12"
  <2>1. w <= w /\ h <= h
    OBVIOUS
  <2> QED BY <1>2, <2>1, TwoPlanes
<1>3. CASE f = "YV12"
  <2>1. a = <<AlignUp(w, 16), h>>
    BY <1>3 DEF RoundedTo, Sixteen
  <2> DEFINE u == AlignUp(w, 16)
  <2>2. u \in Nat /\ u <= u /\ u % 2 = 0
    BY DEF AlignUp
  <2> HIDE DEF u
  <2>3. a[1] = u /\ a[2] = h /\ h <= h
    BY <2>1 DEF u
  <2>4. SizeOf("YV12", w, h, u, h) # 0
    BY <1>3, <2>3
  <2>5. SizeOf("YV12", w, h, u, h) \in Nat
    BY <2>2, <2>3, <2>4, ThreePlanes
  <2> QED BY <1>3, <2>3, <2>5
<1> QED
  BY <1>2, <1>3

LEMMA DimensionsLaid ==
  ASSUME NEW p, NEW r, NEW d, d = Dimensions(p, r)
  PROVE  /\ RoundedTo(p, d.format, <<d.w, d.h>>, r.w, r.h)
         /\ d.size = SizeOf(d.format, r.w, r.h, d.w, d.h)
<1> DEFINE f == GrallocFormat(r.format, r.usage)
           a == Aligned(p, r.w, r.h, f, MacroTiled(p, f, r.usage))
<1>1. RoundedTo(p, f, a, r.w, r.h)
  BY Rounds
<1>2. d = [format |-> f, w |-> a[1], h |-> a[2], size |-> SizeOf(f, r.w, r.h, a[1], a[2])]
  BY DEF Dimensions
<1> HIDE DEF f, a
<1>3. d.format = f /\ d.w = a[1] /\ d.h = a[2] /\ d.size = SizeOf(f, r.w, r.h, a[1], a[2])
  BY <1>2
<1>4. RoundedTo(p, f, <<a[1], a[2]>>, r.w, r.h)
  BY <1>1 DEF RoundedTo
<1> QED
  BY <1>3, <1>4

-----------------------------------------------------------------------------
(* The layouts: one lemma per kind of operation.                             *)

\* Operations that make no buffer; a device may leave a geometry.
LEMMA LaidKept ==
  ASSUME LayInv, UNCHANGED platform,
         DOMAIN view' = Process, \A p \in Process : DOMAIN view'[p] = Buffer,
         DOMAIN buffer' = Buffer, DOMAIN geometry' = Buffer,
         \A b \in Buffer : Exists(b)' =>
           /\ Exists(b) /\ buffer'[b] = buffer[b]
           /\ geometry'[b] = geometry[b] \/ geometry'[b] \in Slices(buffer[b].asked)
  PROVE  LayInv'
<1>1. ASSUME NEW b \in Buffer PROVE Laid(b)'
  <2>1. Laid(b)
    BY DEF LayInv
  <2>2. CASE ~Exists(b)'
    BY <2>2 DEF Laid
  <2>3. CASE Exists(b)'
    <3>1. Exists(b) /\ buffer'[b] = buffer[b]
      BY <2>3
    <3>2. geometry'[b] = geometry[b] \/ geometry'[b] \in Slices(buffer[b].asked)
      BY <2>3
    <3> QED BY <2>1, <3>1, <3>2 DEF Laid
  <2> QED BY <2>2, <2>3
<1> QED
  BY <1>1 DEF LayInv

LEMMA LaidUntouched ==
  ASSUME LayInv, UNCHANGED <<platform, buffer, view, geometry>>
  PROVE  LayInv'
<1>1. \A b \in Buffer : Exists(b)' => Exists(b)
  BY DEF Exists, Live
<1> QED
  BY <1>1, LaidKept DEF LayInv

\* A new buffer, by whichever of the ways to allocate one.
LEMMA LaidMade ==
  ASSUME LayInv, NEW b \in Buffer, NEW v, NEW x,
         view' = [view EXCEPT ![Server][b] = v],
         buffer' = [buffer EXCEPT ![b] = x],
         geometry' = [geometry EXCEPT ![b] = <<>>],
         UNCHANGED platform,
         HasPlanes(x.format) =>
           LET r == x.asked
               size == SizeOf(x.format, r.w, r.h, x.w, x.h)
           IN  /\ r \in Asked(platform, b)
               /\ x.format = "YCrCb_420_SP_ADRENO" => r.w % 64 # 1
               /\ RoundedTo(platform, x.format, <<x.w, x.h>>, r.w, r.h)
               /\ size # 0 /\ x.size \in Nat /\ size <= x.size
  PROVE  LayInv'
<1>1. /\ DOMAIN view' = Process /\ \A p \in Process : DOMAIN view'[p] = Buffer
      /\ DOMAIN buffer' = Buffer /\ DOMAIN geometry' = Buffer
      /\ platform' = platform /\ platform \in Platforms
  BY DEF LayInv
<1>2. buffer'[b] = x /\ geometry'[b] = <<>>
  BY DEF LayInv
<1>3. Laid(b)'
  BY <1>1, <1>2 DEF Laid
<1>4. ASSUME NEW c \in Buffer, c # b PROVE Laid(c)'
  <2>1. buffer'[c] = buffer[c] /\ geometry'[c] = geometry[c] /\ Laid(c)
    BY <1>4 DEF LayInv
  <2>2. \A p \in Process : view'[p][c] = view[p][c]
    BY <1>4 DEF LayInv
  <2>3. Exists(c)' <=> Exists(c)
    BY <2>2 DEF Exists, Live
  <2> QED BY <1>1, <2>1, <2>3 DEF Laid
<1> QED
  BY <1>1, <1>3, <1>4 DEF LayInv

LEMMA AllocBufferLaid ==
  ASSUME LayInv, NEW b \in Buffer, NEW r \in Asked(platform, b), NEW d, NEW usage, NEW fault,
         AllocBuffer(b, r, d, usage, fault), UNCHANGED platform,
         HasPlanes(d.format) =>
           /\ d.format = "YCrCb_420_SP_ADRENO" => r.w % 64 # 1
           /\ RoundedTo(platform, d.format, <<d.w, d.h>>, r.w, r.h)
           /\ d.size = SizeOf(d.format, r.w, r.h, d.w, d.h) /\ d.size \in Nat /\ d.size # 0
  PROVE  LayInv'
<1>1. CASE AllocFails(usage, fault)
  BY <1>1, LaidUntouched DEF AllocBuffer
<1>2. CASE ~AllocFails(usage, fault)
  <2> DEFINE meta == fault \notin {"edata", "emmap"}
             v == [base |-> ~Secure(usage), meta |-> meta, fdm |-> meta, flush |-> FALSE]
             x == BufferFor(r, d, usage)
  <2>1. /\ view' = [view EXCEPT ![Server][b] = v]
        /\ buffer' = [buffer EXCEPT ![b] = x]
        /\ geometry' = [geometry EXCEPT ![b] = <<>>]
    BY <1>2 DEF AllocBuffer
  <2>2. /\ x.asked = r /\ x.format = d.format /\ x.w = d.w /\ x.h = d.h
        /\ x.size = RoundedSize(d.size, usage)
    BY DEF BufferFor
  <2> HIDE DEF v, x
  <2>3. d.size \in Nat => x.size \in Nat /\ x.size >= d.size
    <3> SUFFICES ASSUME NEW n \in Nat
                 PROVE  RoundedSize(n, usage) \in Nat /\ RoundedSize(n, usage) >= n
      BY <2>2
    <3> QED BY DEF RoundedSize, AlignUp, Page
  <2>4. HasPlanes(x.format) =>
          /\ x.asked \in Asked(platform, b)
          /\ x.format = "YCrCb_420_SP_ADRENO" => x.asked.w % 64 # 1
          /\ RoundedTo(platform, x.format, <<x.w, x.h>>, x.asked.w, x.asked.h)
          /\ SizeOf(x.format, x.asked.w, x.asked.h, x.w, x.h) # 0
          /\ x.size \in Nat /\ SizeOf(x.format, x.asked.w, x.asked.h, x.w, x.h) <= x.size
    BY <2>2, <2>3
  <2> QED BY <2>1, <2>4, LaidMade
<1> QED
  BY <1>1, <1>2

\* What the request of a buffer leaves to ask of it.
LEMMA Requested ==
  ASSUME Requests, LayInv, NEW b \in Buffer, NEW r \in Asked(platform, b),
         NEW d, d = Dimensions(platform, r), HasPlanes(d.format), d.size # 0
  PROVE  /\ d.format = "YCrCb_420_SP_ADRENO" => r.w % 64 # 1
         /\ RoundedTo(platform, d.format, <<d.w, d.h>>, r.w, r.h)
         /\ d.size = SizeOf(d.format, r.w, r.h, d.w, d.h) /\ d.size \in Nat
<1>1. /\ platform.pixelAlign \in Nat \ {0} /\ r.w \in Nat /\ r.h \in Nat
      /\ d.format = "YCrCb_420_SP_ADRENO" => r.w % 64 # 1
  BY DEF Requests, LayInv
<1>2. /\ RoundedTo(platform, d.format, <<d.w, d.h>>, r.w, r.h)
      /\ d.size = SizeOf(d.format, r.w, r.h, d.w, d.h)
  BY DimensionsLaid
<1> DEFINE a == <<d.w, d.h>>
<1>3. a[1] = d.w /\ a[2] = d.h
  OBVIOUS
<1>4. RoundedTo(platform, d.format, a, r.w, r.h)
  BY <1>2
<1> HIDE DEF a
<1>5. SizeOf(d.format, r.w, r.h, a[1], a[2]) # 0
  BY <1>2, <1>3
<1>6. SizeOf(d.format, r.w, r.h, a[1], a[2]) \in Nat
  BY <1>1, <1>4, <1>5, SizeIsCount
<1> QED
  BY <1>1, <1>2, <1>3, <1>6

LEMMA AllocLaid ==
  ASSUME Requests, LayInv, NEW b \in Buffer, NEW r \in Asked(platform, b),
         NEW fault \in Fault, alloc(b, r, fault)
  PROVE  LayInv'
<1> DEFINE d == Dimensions(platform, r)
<1>1. platform' = platform
  BY DEF alloc
<1>2. CASE UNCHANGED <<buffer, view, geometry>>
  BY <1>1, <1>2, LaidUntouched
<1>3. CASE d.size # 0 /\ AllocBuffer(b, r, d, r.usage, fault)
  <2>1. HasPlanes(d.format) =>
          /\ d.format = "YCrCb_420_SP_ADRENO" => r.w % 64 # 1
          /\ RoundedTo(platform, d.format, <<d.w, d.h>>, r.w, r.h)
          /\ d.size = SizeOf(d.format, r.w, r.h, d.w, d.h) /\ d.size \in Nat
    BY <1>3, Requested
  <2> HIDE DEF d
  <2> QED BY <1>1, <1>3, <2>1, AllocBufferLaid
<1>4. CASE AllocFramebuffer(b, r, fault)
  <2>1. CASE AllocBuffer(b, r, FbDimensions, r.usage \ {"HW_FB"}, fault)
    <3> DEFINE e == FbDimensions
    <3>1. ~HasPlanes(e.format)
      BY DEF FbDimensions, HasPlanes, CbCr, CrCb
    <3> HIDE DEF e
    <3>2. AllocBuffer(b, r, e, r.usage \ {"HW_FB"}, fault)
      BY <2>1 DEF e
    <3> QED BY <1>1, <3>1, <3>2, AllocBufferLaid
  <2>2. CASE \E slot : /\ buffer' = [buffer EXCEPT ![b] =
                            [asked |-> r, flags |-> {"FRAMEBUFFER"}, format |-> "RGBA_8888",
                             w |-> platform.xres, h |-> platform.yres, size |-> FbBufferSize,
                             offset |-> slot]]
                       /\ view' = [view EXCEPT ![Server][b] =
                            [base |-> TRUE, meta |-> FALSE, fdm |-> FALSE, flush |-> FALSE]]
                       /\ geometry' = [geometry EXCEPT ![b] = <<>>]
    <3>1. PICK slot : buffer' = [buffer EXCEPT ![b] =
                            [asked |-> r, flags |-> {"FRAMEBUFFER"}, format |-> "RGBA_8888",
                             w |-> platform.xres, h |-> platform.yres, size |-> FbBufferSize,
                             offset |-> slot]]
      BY <2>2
    <3> DEFINE x == [asked |-> r, flags |-> {"FRAMEBUFFER"}, format |-> "RGBA_8888",
                     w |-> platform.xres, h |-> platform.yres, size |-> FbBufferSize,
                     offset |-> slot]
               v == [base |-> TRUE, meta |-> FALSE, fdm |-> FALSE, flush |-> FALSE]
    <3>2. ~HasPlanes(x.format)
      BY DEF HasPlanes, CbCr, CrCb
    <3>3. buffer' = [buffer EXCEPT ![b] = x] /\ view' = [view EXCEPT ![Server][b] = v]
          /\ geometry' = [geometry EXCEPT ![b] = <<>>]
      BY <2>2, <3>1
    <3> HIDE DEF x, v
    <3> QED BY <1>1, <3>2, <3>3, LaidMade
  <2> QED BY <1>2, <1>4, <2>1, <2>2 DEF AllocFramebuffer
<1> QED
  BY <1>2, <1>3, <1>4 DEF alloc

LEMMA AllocInternalLaid ==
  ASSUME Requests, LayInv, NEW b \in Buffer, NEW r \in Asked(platform, b),
         NEW fault \in Fault, alloc_buffer(b, r, fault)
  PROVE  LayInv'
<1>1. platform' = platform /\ r.internal
  BY DEF alloc_buffer
<1>2. CASE AllocFails(r.usage, fault)
  BY <1>1, <1>2, LaidUntouched DEF alloc_buffer
<1>3. CASE ~AllocFails(r.usage, fault)
  <2> DEFINE d == Dimensions(platform, r)
             x == [asked |-> r, flags |-> FlagsOf(r.usage) \cap {"SECURE_BUFFER"},
                   format |-> d.format, w |-> d.w, h |-> d.h, size |-> d.size, offset |-> 0]
             v == [base |-> ~Secure(r.usage), meta |-> FALSE, fdm |-> FALSE, flush |-> FALSE]
  <2>1. /\ view' = [view EXCEPT ![Server][b] = v]
        /\ buffer' = [buffer EXCEPT ![b] = x]
        /\ geometry' = [geometry EXCEPT ![b] = <<>>]
    BY <1>3 DEF alloc_buffer
  <2>2. /\ x.asked = r /\ x.format = d.format /\ x.w = d.w /\ x.h = d.h /\ x.size = d.size
    OBVIOUS
  <2>3. d.size # 0
    BY <1>1 DEF Requests, LayInv
  <2>4. HasPlanes(d.format) =>
          /\ d.format = "YCrCb_420_SP_ADRENO" => r.w % 64 # 1
          /\ RoundedTo(platform, d.format, <<d.w, d.h>>, r.w, r.h)
          /\ d.size = SizeOf(d.format, r.w, r.h, d.w, d.h) /\ d.size \in Nat
    BY <2>3, Requested
  <2> HIDE DEF d, v, x
  <2>5. HasPlanes(x.format) =>
          /\ x.asked \in Asked(platform, b)
          /\ x.format = "YCrCb_420_SP_ADRENO" => x.asked.w % 64 # 1
          /\ RoundedTo(platform, x.format, <<x.w, x.h>>, x.asked.w, x.asked.h)
          /\ SizeOf(x.format, x.asked.w, x.asked.h, x.w, x.h) # 0
          /\ x.size \in Nat /\ SizeOf(x.format, x.asked.w, x.asked.h, x.w, x.h) <= x.size
    BY <2>2, <2>3, <2>4
  <2> QED BY <1>1, <2>1, <2>5, LaidMade
<1> QED
  BY <1>2, <1>3

\* A copy of a handle goes, and with the last one the buffer.
LEMMA DroppedLaid ==
  ASSUME LayInv, NEW p \in Process, NEW b \in Buffer, Live(p, b), Dropped(p, b),
         UNCHANGED platform
  PROVE  LayInv'
<1>1. /\ view' = [view EXCEPT ![p][b] = None]
      /\ \A c \in Buffer : c # b => buffer'[c] = buffer[c] /\ geometry'[c] = geometry[c]
      /\ DOMAIN buffer' = Buffer /\ DOMAIN geometry' = Buffer
  BY DEF Dropped, LayInv
<1>2. /\ view'[p][b] = None
      /\ \A q \in Process, c \in Buffer : q # p \/ c # b => view'[q][c] = view[q][c]
      /\ DOMAIN view' = Process /\ \A q \in Process : DOMAIN view'[q] = Buffer
  BY <1>1 DEF LayInv
<1>3. ASSUME NEW c \in Buffer, Exists(c)'
      PROVE  Exists(c) /\ buffer'[c] = buffer[c] /\ geometry'[c] = geometry[c]
  <2>1. PICK q \in Process : Live(q, c)'
    BY <1>3 DEF Exists
  <2>2. (q # p \/ c # b) /\ Live(q, c)
    BY <1>2, <2>1 DEF Live
  <2>3. Exists(c)
    BY <2>2 DEF Exists
  <2>4. c = b => Holders(b) # {p}
    BY <2>2 DEF Holders
  <2> QED BY <1>1, <2>3, <2>4 DEF Dropped
<1> QED
  BY <1>1, <1>2, <1>3, LaidKept

LEMMA FreeLaid ==
  ASSUME LayInv, NEW b \in Buffer, NEW fault, free(b, fault) \/ free_buffer(b, fault)
  PROVE  LayInv'
<1>1. Server \in Process /\ platform' = platform /\ Live(Server, b)
  BY DEF Process, free, free_buffer, Live
<1>2. Dropped(Server, b)
  BY DEF free, free_buffer
<1> QED
  BY <1>1, <1>2, DroppedLaid

\* A copy of a handle comes or changes.
LEMMA ViewLaid ==
  ASSUME LayInv, NEW p \in Process, NEW b \in Buffer, Exists(b), NEW v,
         view' = [view EXCEPT ![p][b] = v], UNCHANGED <<platform, buffer, geometry>>
  PROVE  LayInv'
<1>1. /\ \A q \in Process, c \in Buffer : c # b => view'[q][c] = view[q][c]
      /\ DOMAIN view' = Process /\ \A q \in Process : DOMAIN view'[q] = Buffer
  BY DEF LayInv
<1>2. \A c \in Buffer : Exists(c)' => Exists(c)
  BY <1>1 DEF Exists, Live
<1> QED
  BY <1>1, <1>2, LaidKept DEF LayInv

LEMMA HandleLaid ==
  ASSUME LayInv, NEW b \in Buffer, NEW p \in Process, NEW fault, NEW mode,
         registerBuffer(p, b, fault) \/ lock(p, b, mode, fault) \/ unlock(p, b, fault)
  PROVE  LayInv'
<1>1. Server \in Process /\ Exists(b)
  BY DEF Process, registerBuffer, lock, unlock, Live, Exists
<1>2. UNCHANGED <<platform, buffer, geometry>>
  BY DEF registerBuffer, lock, unlock
<1>3. view' = view \/ \E v : view' = [view EXCEPT ![p][b] = v]
  <2>1. CASE registerBuffer(p, b, fault)
    BY <2>1 DEF registerBuffer
  <2>2. CASE lock(p, b, mode, fault)
    BY <2>2 DEF lock
  <2>3. CASE unlock(p, b, fault)
    BY <2>3 DEF unlock
  <2> QED BY <2>1, <2>2, <2>3
<1> QED
  BY <1>1, <1>2, <1>3, ViewLaid, LaidUntouched

LEMMA DeviceLaid == ASSUME LayInv, NEW b \in Buffer, DeviceEnd(b) PROVE LayInv'
<1>1. UNCHANGED <<platform, buffer, view>>
  BY DEF DeviceEnd
<1>2. /\ DOMAIN geometry' = Buffer
      /\ \A c \in Buffer : geometry'[c] = geometry[c] \/ geometry'[c] \in Slices(buffer[c].asked)
  BY DEF DeviceEnd, LayInv
<1>3. \A c \in Buffer : Exists(c)' => Exists(c)
  BY <1>1 DEF Exists, Live
<1> QED
  BY <1>1, <1>2, <1>3, LaidKept DEF LayInv

LEMMA LaidInit == Init => LayInv
<1> SUFFICES ASSUME Init PROVE LayInv
  OBVIOUS
<1>1. \A b \in Buffer : ~Exists(b)
  BY DEF Init, Exists, Live
<1> QED
  BY <1>1 DEF Init, LayInv, Laid

LEMMA LaidStep == ASSUME Requests, LayInv, [Next]_vars PROVE LayInv'
<1>1. CASE mapFrameBuffer
  BY <1>1, LaidUntouched DEF mapFrameBuffer
<1>2. CASE UNCHANGED vars
  BY <1>2, LaidUntouched DEF vars
<1>3. ASSUME NEW b \in Buffer, NEW r \in Asked(platform, b), NEW f \in Fault,
             alloc(b, r, f) \/ alloc_buffer(b, r, f)
      PROVE  LayInv'
  BY <1>3, AllocLaid, AllocInternalLaid
<1>4. ASSUME NEW b \in Buffer, NEW f \in Fault, free(b, f) \/ free_buffer(b, f) PROVE LayInv'
  BY <1>4, FreeLaid
<1>5. ASSUME NEW b \in Buffer, NEW p \in Client, NEW f \in Fault,
             registerBuffer(p, b, f) \/ unregisterBuffer(p, b, f)
      PROVE  LayInv'
  <2>1. p \in Process
    BY DEF Process
  <2>2. CASE registerBuffer(p, b, f)
    BY <2>1, <2>2, HandleLaid
  <2>3. CASE unregisterBuffer(p, b, f)
    BY <2>1, <2>3, DroppedLaid DEF unregisterBuffer
  <2> QED BY <1>5, <2>2, <2>3
<1>6. ASSUME NEW b \in Buffer, NEW p \in Process, NEW mode \in Modes, NEW f \in Fault,
             lock(p, b, mode, f)
      PROVE  LayInv'
  BY <1>6, HandleLaid
<1>7. ASSUME NEW b \in Buffer, Fetch(b) \/ CpuWrite(b) \/ (\E op \in {"read", "write"} : DeviceBegin(b, op))
      PROVE  LayInv'
  BY <1>7, LaidUntouched DEF Fetch, CpuWrite, DeviceBegin
<1>8. ASSUME NEW b \in Buffer, DeviceEnd(b) PROVE LayInv'
  BY <1>8, DeviceLaid
<1>9. ASSUME NEW b \in Buffer, NEW p \in Process, NEW f \in Fault, unlock(p, b, f) PROVE LayInv'
  <2>1. {"read"} \in Modes
    BY DEF Modes
  <2> QED BY <1>9, HandleLaid
<1> QED
  BY <1>1, <1>2, <1>3, <1>4, <1>5, <1>6, <1>7, <1>8, <1>9 DEF Next

LEMMA LaidMeans == ASSUME Requests, LayInv PROVE PlanesFit
<1> SUFFICES ASSUME NEW b \in Buffer, Exists(b), HasPlanes(buffer[b].format)
             PROVE  LET x == buffer[b]
                        image == IF geometry[b] = <<>> THEN <<x.asked.w, x.asked.h>>
                                 ELSE geometry[b]
                    IN  PlanesLie(x.format, Planes(platform, x.format, x.w, x.h, geometry[b]),
                                  image, x.size)
  BY DEF PlanesFit
<1> DEFINE x == buffer[b]
           r == x.asked
           f == x.format
           g == geometry[b]
           a == <<x.w, x.h>>
           s == Shape(platform, f, x.w, x.h, g)
<1>1. /\ r \in Asked(platform, b)
      /\ f = "YCrCb_420_SP_ADRENO" => r.w % 64 # 1
      /\ RoundedTo(platform, f, a, r.w, r.h)
      /\ SizeOf(f, r.w, r.h, x.w, x.h) # 0 /\ x.size \in Nat
      /\ SizeOf(f, r.w, r.h, x.w, x.h) <= x.size
      /\ g \in Slices(r) \cup {<<>>} /\ platform \in Platforms
  BY DEF LayInv, Laid
<1>2. /\ platform.pixelAlign \in Nat \ {0} /\ r.w \in Nat /\ r.h \in Nat
      /\ \A k \in Slices(r) : \E w \in 0 .. r.w, h \in 0 .. r.h : k = <<w, h>>
  BY <1>1 DEF Requests
<1>3. PICK iw \in Nat, ih \in Nat :
         /\ iw <= r.w /\ ih <= r.h /\ RoundedTo(platform, f, s, iw, ih)
         /\ <<iw, ih>> = IF g = <<>> THEN <<r.w, r.h>> ELSE g
  <2>1. CASE g = <<>>
    <3>1. s = a
      BY <2>1 DEF Shape
    <3> QED BY <1>1, <1>2, <2>1, <3>1
  <2>2. CASE g # <<>>
    <3>1. PICK w \in 0 .. r.w, h \in 0 .. r.h : g = <<w, h>>
      BY <1>1, <1>2, <2>2
    <3>2. g[1] = w /\ g[2] = h /\ w \in Nat /\ h \in Nat /\ w <= r.w /\ h <= r.h
      BY <1>2, <3>1
    <3>3. s = Aligned(platform, g[1], g[2], f, FALSE)
      BY <2>2, Zenon DEF Shape
    <3>4. RoundedTo(platform, f, s, g[1], g[2])
      BY <3>3, Rounds, Zenon
    <3>5. RoundedTo(platform, f, s, w, h)
      BY <3>2, <3>4
    <3> QED BY <2>2, <3>1, <3>2, <3>5
  <2> QED BY <2>1, <2>2
<1>4. a[1] = x.w /\ a[2] = x.h
  OBVIOUS
<1>5. s = Shape(platform, f, a[1], a[2], g) /\ HasPlanes(f)
  BY <1>4
<1> HIDE DEF a, s, g, f, r
<1>6. PlanesLie(f, Planes(platform, f, a[1], a[2], g), <<iw, ih>>, x.size)
  <2>1. SizeOf(f, r.w, r.h, a[1], a[2]) # 0 /\ x.size >= SizeOf(f, r.w, r.h, a[1], a[2])
    BY <1>1, <1>4
  <2> DEFINE n == x.size
             w == r.w
             h == r.h
  <2>2. /\ n \in Nat /\ n >= SizeOf(f, w, h, a[1], a[2]) /\ SizeOf(f, w, h, a[1], a[2]) # 0
        /\ w \in Nat /\ h \in Nat /\ iw <= w /\ ih <= h
        /\ RoundedTo(platform, f, a, w, h)
        /\ f = "YCrCb_420_SP_ADRENO" => w % 64 # 1
    BY <1>1, <1>2, <1>3, <2>1
  <2> HIDE DEF n, w, h
  <2>3. PlanesLie(f, Planes(platform, f, a[1], a[2], g), <<iw, ih>>, n)
    BY <1>2, <1>3, <1>5, <2>2, PlanesInside
  <2> QED BY <2>3 DEF n
<1> QED
  BY <1>3, <1>4, <1>6 DEF r, f, g, a

\* PlanesFit of Gralloc, with any requests, geometries and faults: the planes
\* getYUVPlaneInfo reports hold the image and end inside what getSize had
\* allocated, if Requests; getAlignedWidthAndHeight is monotone, and each
\* format's size has room for the chroma of an image no larger than asked.
THEOREM PlanesInMemory == ASSUME Requests PROVE Spec => []PlanesFit
<1> QED
  BY LaidInit, LaidStep, LaidMeans, PTL DEF Spec
=============================================================================
