------------------------------- MODULE Gralloc -------------------------------
(***************************************************************************)
(* gralloc: buffers are allocated in one process, handed to others, mapped *)
(* and unmapped, locked by the CPU and used by devices behind its cache    *)
(* (libgralloc: gpu.cpp, mapper.cpp, ionalloc.cpp, alloc_controller.cpp    *)
(* and the framebuffer's slots of framebuffer.cpp).                        *)
(*                                                                         *)
(* buffer[b] is what every copy of a handle says alike; view[p][b] is what *)
(* is private to the copy of process p; account[p][b] is the kernel's own  *)
(* count of the descriptors and mappings p has of b.  struck[p][b] is      *)
(* history: the calls about b that failed p since it got b, of those after *)
(* which the code leaves something behind.                                 *)
(***************************************************************************)
EXTENDS Layout, FiniteSets

CONSTANTS Client,        \* the processes a handle is sent to
          Buffer,        \* names for buffers
          Platforms,     \* the builds and panels looked at
          Asked(_, _),   \* the requests made for a buffer on a platform
          Slices(_),     \* the geometries a producer leaves in the metadata
          Faults,        \* the calls of the kernel that may fail
          None

VARIABLES platform, fb, buffer, view, geometry, account, struck, line, cpu, dev, failed

vars == <<platform, fb, buffer, view, geometry, account, struck, line, cpu, dev, failed>>

Server == "server"
Process == Client \cup {Server}
Modes == {{"read"}, {"write"}, {"read", "write"}}
Fault == Faults \cup {None}
Nothing == [fd |-> 0, fdm |-> 0, data |-> 0, meta |-> 0]
One(x) == IF x THEN 1 ELSE 0

Has(b, flag) == flag \in buffer[b].flags
Live(p, b) == view[p][b] # None
Holders(b) == {p \in Process : Live(p, b)}
Exists(b) == \E p \in Process : Live(p, b)

View == [base : BOOLEAN, meta : BOOLEAN, fdm : BOOLEAN, flush : BOOLEAN]
Lines == {"same", "stale", "dirty", "clash"}

\* The calls that may fail, as the code meets them.
Calls == {"heap", "memory", "share", "mmap", "mmapSystem", "edata", "emmap",
          "mapData", "mapMeta", "munmap", "munmapMeta", "invalidate", "clean"}

ASSUME GrallocAssumption ==
    /\ Server \notin Client
    /\ Faults \subseteq Calls
    /\ None \notin View \cup Lines \cup {"read", "write"} \cup Calls

-----------------------------------------------------------------------------
(* IonController::allocate: the heaps a usage names, the fallback to the   *)
(* system heap, and what IonAlloc::alloc_buffer leaves behind.             *)
-----------------------------------------------------------------------------
HeapMask == {"UI_CONTIG_HEAP", "SYSTEM_HEAP", "IOMMU_HEAP", "MM_HEAP", "ADSP_HEAP"}

UseUncached(usage) ==
    \/ "UNCACHED" \in usage
    \/ usage \cap SwWrite = {"SW_WRITE_RARELY"}
    \/ usage \cap SwRead = {"SW_READ_RARELY"}

Secure(usage) == {"PROTECTED", "MM_HEAP"} \subseteq usage

CanFallback(usage) ==
    /\ ~platform.mdpComposition
    /\ usage \cap (HeapMask \cup {"PROTECTED", "EXTERNAL_ONLY"}) = {}

\* "heap": the heaps asked for are full; "memory": the system heap too;
\* "share": no descriptor could be made; "mmap": what the heaps gave was not
\* mapped; "mmapSystem": nor what the system heap gave instead.
AllocFails(usage, fault) ==
    \/ fault \in {"memory", "share"}
    \/ fault = "heap" /\ ~CanFallback(usage)
    \/ fault = "mmap" /\ ~CanFallback(usage) /\ ~Secure(usage)
    \/ fault = "mmapSystem" /\ ~Secure(usage)

\* An mmap that fails returns without closing the descriptor it was given.
AllocKept(usage, fault) ==
    IF fault \notin {"mmap", "mmapSystem"} \/ Secure(usage) THEN 0
    ELSE IF fault = "mmapSystem" /\ CanFallback(usage) THEN 2 ELSE 1

AllocLeft(usage, fault) ==
    LET kept == AllocKept(usage, fault)
    IN  IF AllocFails(usage, fault) THEN [Nothing EXCEPT !.fd = kept]
        ELSE [Nothing EXCEPT !.fd = kept + 1, !.data = One(~Secure(usage))]

AllocStruck(usage, fault) ==
    IF AllocKept(usage, fault) > 0 \/ fault = "emmap" THEN {fault} ELSE {}

-----------------------------------------------------------------------------
(* gralloc_alloc_buffer: the flags of the handle and its size.             *)
-----------------------------------------------------------------------------
NonCpuWriters == {"HW_VIDEO_ENCODER", "HW_CAMERA_WRITE", "HW_RENDER", "HW_FB"}

FlagsOf(usage) ==
    (IF usage \cap NonCpuWriters # {} THEN {"NON_CPU_WRITER"} ELSE {})
      \cup (IF UseUncached(usage) THEN {} ELSE {"CACHED"})
      \cup (IF Secure(usage) THEN {"SECURE_BUFFER"} ELSE {})

RoundedSize(size, usage) ==
    IF platform.mdss /\ Secure(usage) THEN AlignUp(AlignUp(size, Page), 1048576)
    ELSE AlignUp(size, Page)

BufferFor(r, d, usage) ==
    [asked |-> r, flags |-> FlagsOf(usage), format |-> d.format, w |-> d.w, h |-> d.h,
     size |-> RoundedSize(d.size, usage), offset |-> 0]

\* The code only logs that the metadata was not allocated ("edata") or, after
\* it was, not mapped ("emmap"), which leaves its descriptor open.
AllocBuffer(b, r, d, usage, fault) ==
    LET left == AllocLeft(usage, fault)
        meta == fault \notin {"edata", "emmap"}
    IN  /\ struck' = [struck EXCEPT ![Server][b] = AllocStruck(usage, fault)]
        /\ IF AllocFails(usage, fault)
             THEN /\ account' = [account EXCEPT ![Server][b] = left]
                  /\ UNCHANGED <<buffer, view, geometry, line>>
             ELSE /\ buffer' = [buffer EXCEPT ![b] = BufferFor(r, d, usage)]
                  /\ view' = [view EXCEPT ![Server][b] =
                                [base |-> ~Secure(usage), meta |-> meta, fdm |-> meta,
                                 flush |-> FALSE]]
                  /\ account' = [account EXCEPT ![Server][b] =
                       [left EXCEPT !.fdm = One(fault # "edata"), !.meta = One(meta)]]
                  /\ geometry' = [geometry EXCEPT ![b] = <<>>]
                  /\ line' = [line EXCEPT ![b] = None]

-----------------------------------------------------------------------------
(* The framebuffer's memory, when the property map_fb_memory is set.       *)
-----------------------------------------------------------------------------
FbBytes == platform.lineLength * platform.yres
FbBufferSize == AlignUp(FbBytes, Page)
FbSlots == 0 .. platform.fbBuffers - 1

\* The driver's yres_virtual decides the number of buffers.
mapFrameBuffer ==
    /\ platform.mapFb
    /\ ~fb.mapped
    /\ fb' = [mapped |-> TRUE, mask |-> {}]
    /\ UNCHANGED <<platform, buffer, view, geometry, account, struck, line, cpu, dev, failed>>

FreeSlot == CHOOSE i \in FbSlots \ fb.mask : \A j \in FbSlots \ fb.mask : i <= j
SlotOf(offset) == offset \div FbBytes

FbDimensions ==
    [format |-> "RGBA_8888", w |-> platform.xres, h |-> platform.yres, size |-> FbBufferSize]

\* gralloc_alloc_framebuffer_locked, as a whole under the module's lock.  The
\* descriptor it dups for the handle is not in account: free_impl does not
\* close it.
AllocFramebuffer(b, r, fault) ==
    IF r.usage \cap HeapMask # {} \/ ~fb.mapped
      THEN UNCHANGED <<fb, buffer, view, geometry, account, struck, line>>
      ELSE IF platform.fbBuffers = 1
        THEN /\ AllocBuffer(b, r, FbDimensions, r.usage \ {"HW_FB"}, fault)
             /\ UNCHANGED fb
        ELSE IF FbSlots \subseteq fb.mask
          THEN UNCHANGED <<fb, buffer, view, geometry, account, struck, line>>
          ELSE /\ fb' = [fb EXCEPT !.mask = @ \cup {FreeSlot}]
               /\ buffer' = [buffer EXCEPT ![b] =
                    [asked |-> r, flags |-> {"FRAMEBUFFER"}, format |-> "RGBA_8888",
                     w |-> platform.xres, h |-> platform.yres, size |-> FbBufferSize,
                     offset |-> FreeSlot * FbBufferSize]]
               /\ view' = [view EXCEPT ![Server][b] =
                    [base |-> TRUE, meta |-> FALSE, fdm |-> FALSE, flush |-> FALSE]]
               /\ geometry' = [geometry EXCEPT ![b] = <<>>]
               /\ line' = [line EXCEPT ![b] = None]
               /\ UNCHANGED <<account, struck>>

-----------------------------------------------------------------------------
(* gpu_context_t::alloc_impl and free_impl, and the pair alloc_buffer and  *)
(* free_buffer for memory of the HAL's own, which has no metadata.         *)
-----------------------------------------------------------------------------
Unused(b) ==
    /\ ~Exists(b)
    /\ \A p \in Process : account[p][b] = Nothing

alloc(b, r, fault) ==
    LET d == Dimensions(platform, r) IN
    /\ Unused(b)
    /\ ~r.internal
    /\ IF d.size = 0 THEN UNCHANGED <<fb, buffer, view, geometry, account, struck, line>>
       ELSE IF platform.mapFb /\ "HW_FB" \in r.usage THEN AllocFramebuffer(b, r, fault)
       ELSE AllocBuffer(b, r, d, r.usage, fault) /\ UNCHANGED fb
    /\ UNCHANGED <<platform, cpu, dev, failed>>

alloc_buffer(b, r, fault) ==
    LET d == Dimensions(platform, r) IN
    /\ Unused(b)
    /\ r.internal
    /\ account' = [account EXCEPT ![Server][b] = AllocLeft(r.usage, fault)]
    /\ struck' = [struck EXCEPT ![Server][b] = AllocStruck(r.usage, fault)]
    /\ IF AllocFails(r.usage, fault)
         THEN UNCHANGED <<buffer, view, geometry, line>>
         ELSE /\ buffer' = [buffer EXCEPT ![b] =
                   [asked |-> r, flags |-> FlagsOf(r.usage) \cap {"SECURE_BUFFER"},
                    format |-> d.format, w |-> d.w, h |-> d.h, size |-> d.size, offset |-> 0]]
              /\ view' = [view EXCEPT ![Server][b] =
                            [base |-> ~Secure(r.usage), meta |-> FALSE, fdm |-> FALSE,
                             flush |-> FALSE]]
              /\ geometry' = [geometry EXCEPT ![b] = <<>>]
              /\ line' = [line EXCEPT ![b] = None]
    /\ UNCHANGED <<platform, fb, cpu, dev, failed>>

-----------------------------------------------------------------------------
(* gralloc_map and gralloc_unmap on one copy of a handle: what they return *)
(* and what they leave of the copy and of the process's mappings.          *)
-----------------------------------------------------------------------------
Mapped(b, v, a, fault) ==
    LET fresh == [v EXCEPT !.base = FALSE, !.meta = FALSE]
        data == ~Has(b, "FRAMEBUFFER") /\ ~Has(b, "SECURE_BUFFER")
        based == IF data THEN [fresh EXCEPT !.base = TRUE] ELSE fresh
        counted == IF data THEN [a EXCEPT !.data = @ + 1] ELSE a
    IN  IF data /\ fault = "mapData" THEN [ok |-> FALSE, v |-> fresh, a |-> a]
        ELSE IF Has(b, "FRAMEBUFFER") THEN [ok |-> TRUE, v |-> based, a |-> counted]
        ELSE IF fault = "mapMeta" \/ ~v.fdm THEN [ok |-> FALSE, v |-> based, a |-> counted]
        ELSE [ok |-> TRUE, v |-> [based EXCEPT !.meta = TRUE],
              a |-> [counted EXCEPT !.meta = @ + 1]]

\* A bug the runs must catch: the metadata is unmapped only with the data.
UnmappedTogether(v, a, fault) ==
    IF ~v.base THEN [ok |-> TRUE, v |-> v, a |-> a]
    ELSE [ok |-> TRUE, v |-> [v EXCEPT !.base = FALSE, !.meta = FALSE],
          a |-> [a EXCEPT !.data = @ - 1, !.meta = IF v.meta THEN @ - 1 ELSE @]]

Unmapped(v, a, fault) ==
    LET v1 == [v EXCEPT !.base = FALSE]
        a1 == [a EXCEPT !.data = @ - One(v.base)]
    IN  IF v.base /\ fault = "munmap" THEN [ok |-> FALSE, v |-> v, a |-> a]
        ELSE IF v.meta /\ fault = "munmapMeta" THEN [ok |-> FALSE, v |-> v1, a |-> a1]
        ELSE [ok |-> TRUE, v |-> [v1 EXCEPT !.meta = FALSE],
              a |-> [a1 EXCEPT !.meta = @ - One(v.meta)]]

Idle(b) == cpu[b] = {} /\ dev[b] = None

\* A handle is gone from p; the last copy takes the buffer's name with it.
Dropped(p, b) ==
    /\ view' = [view EXCEPT ![p][b] = None]
    /\ buffer' = IF Holders(b) = {p} THEN [buffer EXCEPT ![b] = None] ELSE buffer
    /\ geometry' = IF Holders(b) = {p} THEN [geometry EXCEPT ![b] = <<>>] ELSE geometry
    /\ line' = IF Holders(b) = {p} THEN [line EXCEPT ![b] = None] ELSE line
    /\ failed' = IF Holders(b) = {p} THEN failed \ {b} ELSE failed

\* IonAlloc::free_buffer: a mapping still there goes, then the descriptor,
\* even when the mapping could not go.
FreedData(v, a, fault) ==
    [a EXCEPT !.fd = @ - 1, !.data = @ - One(v.base /\ fault # "munmap")]
FreedMeta(v, a, fault) ==
    [a EXCEPT !.fdm = @ - One(v.fdm), !.meta = @ - One(v.meta /\ fault # "munmapMeta")]

\* free_impl ignores that terminateBuffer failed, tries again to unmap the
\* memory and, if that fails again, returns before the metadata is freed.
\* GraphicBufferAllocator does not free a handle twice.
free(b, fault) ==
    LET v == view[Server][b]
        u == Unmapped(v, account[Server][b], fault)
        data == FreedData(u.v, u.a, fault)
    IN  /\ v # None
        /\ Idle(b)
        /\ ~buffer[b].asked.internal
        /\ Dropped(Server, b)
        /\ IF Has(b, "FRAMEBUFFER")
             THEN /\ fb' = [fb EXCEPT !.mask = @ \ {SlotOf(buffer[b].offset)}]
                  /\ UNCHANGED <<account, struck>>
             ELSE /\ account' = [account EXCEPT ![Server][b] =
                                   IF u.v.base THEN data ELSE FreedMeta(u.v, data, fault)]
                  /\ struck' = [struck EXCEPT ![Server][b] =
                                  IF u.ok THEN @ ELSE @ \cup {fault}]
                  /\ UNCHANGED fb
        /\ UNCHANGED <<platform, cpu, dev>>

free_buffer(b, fault) ==
    LET v == view[Server][b] IN
    /\ v # None
    /\ Idle(b)
    /\ buffer[b].asked.internal
    /\ account' = [account EXCEPT ![Server][b] = FreedData(v, @, fault)]
    /\ struck' = [struck EXCEPT ![Server][b] =
                    IF v.base /\ fault = "munmap" THEN @ \cup {fault} ELSE @]
    /\ Dropped(Server, b)
    /\ UNCHANGED <<platform, fb, cpu, dev>>

-----------------------------------------------------------------------------
(* A handle arrives in a client, with descriptors of its own, and is       *)
(* registered; GraphicBuffer drops a handle that cannot be registered, and *)
(* closes the descriptors after it has unregistered one.                   *)
-----------------------------------------------------------------------------
Received(b) == [view[Server][b] EXCEPT !.base = TRUE, !.meta = FALSE]
Closed(v, a) == [a EXCEPT !.fd = @ - 1, !.fdm = @ - One(v.fdm)]

registerBuffer(p, b, fault) ==
    LET v == Received(b)
        sent == [Nothing EXCEPT !.fd = 1, !.fdm = One(v.fdm)]
        r == Mapped(b, v, sent, fault)
    IN  /\ Live(Server, b)
        /\ ~Live(p, b)
        /\ account[p][b] = Nothing
        /\ ~buffer[b].asked.internal
        /\ ~Has(b, "FRAMEBUFFER")
        /\ IF r.ok THEN /\ view' = [view EXCEPT ![p][b] = r.v]
                        /\ account' = [account EXCEPT ![p][b] = r.a]
           ELSE /\ account' = [account EXCEPT ![p][b] = Closed(v, r.a)]
                /\ UNCHANGED view
        /\ struck' = [struck EXCEPT ![p][b] =
                        IF r.ok \/ fault = "mapData" THEN {} ELSE {"mapMeta"}]
        /\ UNCHANGED <<platform, fb, buffer, geometry, line, cpu, dev, failed>>

unregisterBuffer(p, b, fault) ==
    LET v == view[p][b]
        u == Unmapped(v, account[p][b], fault)
    IN  /\ Live(p, b)
        /\ Idle(b)
        /\ account' = [account EXCEPT ![p][b] = Closed(v, u.a)]
        /\ struck' = [struck EXCEPT ![p][b] = IF u.ok THEN @ ELSE @ \cup {fault}]
        /\ Dropped(p, b)
        /\ UNCHANGED <<platform, fb, cpu, dev>>

-----------------------------------------------------------------------------
(* gralloc_lock, gralloc_lock_ycbcr and gralloc_unlock.  A client asks for *)
(* what its usage allows, writes alone, and no longer uses a buffer whose  *)
(* lock or unlock reported an error.                                       *)
-----------------------------------------------------------------------------
Allowed(b, mode) ==
    /\ "read" \in mode => buffer[b].asked.usage \cap SwRead # {}
    /\ "write" \in mode => buffer[b].asked.usage \cap SwWrite # {}
    /\ ~Has(b, "SECURE_BUFFER")
    /\ ~Has(b, "FRAMEBUFFER")
    /\ ~buffer[b].asked.internal

Shared(b, mode) ==
    \A l \in cpu[b] : "write" \notin l.mode /\ "write" \notin mode

InvalidatesReadOnly(b, mode) == mode = {"read"} /\ Has(b, "NON_CPU_WRITER")
Invalidates(b, mode) == "read" \in mode /\ Has(b, "NON_CPU_WRITER")

lock(p, b, mode, fault) ==
    LET v == view[p][b]
        r == IF v.base THEN [ok |-> TRUE, v |-> v, a |-> account[p][b]]
             ELSE Mapped(b, v, account[p][b], fault)
        cached == Has(b, "CACHED")
        cleaned == cached /\ Invalidates(b, mode)
        ok == IF cleaned THEN fault # "invalidate" ELSE r.ok
    IN  /\ v # None
        /\ Allowed(b, mode)
        /\ dev[b] = None
        /\ b \notin failed
        /\ Shared(b, mode)
        /\ \A l \in cpu[b] : l.by # p
        /\ view' = [view EXCEPT ![p][b] =
                      [r.v EXCEPT !.flush = @ \/ (cached /\ "write" \in mode)]]
        /\ account' = [account EXCEPT ![p][b] = r.a]
        /\ line' = IF cleaned /\ ok THEN [line EXCEPT ![b] = None] ELSE line
        /\ cpu' = IF ok THEN [cpu EXCEPT ![b] = @ \cup {[by |-> p, mode |-> mode]}] ELSE cpu
        /\ failed' = IF ok THEN failed ELSE failed \cup {b}
        /\ UNCHANGED <<platform, fb, buffer, geometry, struck, dev>>

Cleaned(x) == CASE x = "dirty" -> "same" [] x = "clash" -> "same" [] OTHER -> x

unlock(p, b, fault) ==
    LET v == view[p][b] IN
    /\ v # None
    /\ \E l \in cpu[b] : /\ l.by = p
                         /\ cpu' = [cpu EXCEPT ![b] = @ \ {l}]
    /\ view' = [view EXCEPT ![p][b].flush = FALSE]
    /\ IF v.flush /\ fault # "clean"
         THEN line' = [line EXCEPT ![b] = Cleaned(@)] /\ UNCHANGED failed
         ELSE /\ UNCHANGED line
              /\ failed' = IF v.flush THEN failed \cup {b} ELSE failed
    /\ UNCHANGED <<platform, fb, buffer, geometry, account, struck, dev>>

-----------------------------------------------------------------------------
(* The cache and the devices.  line[b]: not in the cache, the same as the  *)
(* memory, older ("stale"), newer ("dirty"), or both written ("clash").    *)
-----------------------------------------------------------------------------
\* The CPU fetches a line it has mapped, on a read or of its own accord.
Fetch(b) ==
    /\ Exists(b)
    /\ Has(b, "CACHED")
    /\ line[b] = None
    /\ \E p \in Process : Live(p, b) /\ view[p][b].base
    /\ line' = [line EXCEPT ![b] = "same"]
    /\ UNCHANGED <<platform, fb, buffer, view, geometry, account, struck, cpu, dev, failed>>

CpuWrite(b) ==
    /\ \E l \in cpu[b] : "write" \in l.mode
    /\ Has(b, "CACHED")
    /\ line' = [line EXCEPT ![b] = "dirty"]
    /\ UNCHANGED <<platform, fb, buffer, view, geometry, account, struck, cpu, dev, failed>>

DeviceWrites(b) ==
    buffer[b].asked.usage \cap {"HW_RENDER", "HW_FB", "HW_CAMERA_WRITE"} # {}

DeviceBegin(b, op) ==
    /\ Exists(b)
    /\ Idle(b)
    /\ b \notin failed
    /\ ~buffer[b].asked.internal
    /\ op = "write" => DeviceWrites(b)
    /\ dev' = [dev EXCEPT ![b] = op]
    /\ UNCHANGED <<platform, fb, buffer, view, geometry, account, struck, line, cpu, failed>>

\* A producer of video may leave a smaller geometry with what it wrote.
DeviceEnd(b) ==
    /\ dev[b] # None
    /\ dev' = [dev EXCEPT ![b] = None]
    /\ IF dev[b] = "write"
         THEN /\ line' = [line EXCEPT ![b] =
                            CASE @ = "same" -> "stale" [] @ = "dirty" -> "clash"
                              [] OTHER -> @]
              /\ \E g \in Slices(buffer[b].asked) \cup {geometry[b]} :
                   geometry' = [geometry EXCEPT ![b] = g]
         ELSE UNCHANGED <<line, geometry>>
    /\ UNCHANGED <<platform, fb, buffer, view, account, struck, cpu, failed>>

-----------------------------------------------------------------------------
Init ==
    /\ platform \in Platforms
    /\ fb = [mapped |-> FALSE, mask |-> {}]
    /\ buffer = [b \in Buffer |-> None]
    /\ view = [p \in Process |-> [b \in Buffer |-> None]]
    /\ geometry = [b \in Buffer |-> <<>>]
    /\ account = [p \in Process |-> [b \in Buffer |-> Nothing]]
    /\ struck = [p \in Process |-> [b \in Buffer |-> {}]]
    /\ line = [b \in Buffer |-> None]
    /\ cpu = [b \in Buffer |-> {}]
    /\ dev = [b \in Buffer |-> None]
    /\ failed = {}

Next ==
    \/ mapFrameBuffer
    \/ \E b \in Buffer :
         \/ \E r \in Asked(platform, b), f \in Fault : alloc(b, r, f)
         \/ \E r \in Asked(platform, b), f \in Fault : alloc_buffer(b, r, f)
         \/ \E f \in Fault : free(b, f)
         \/ \E f \in Fault : free_buffer(b, f)
         \/ Fetch(b)
         \/ CpuWrite(b)
         \/ \E op \in {"read", "write"} : DeviceBegin(b, op)
         \/ DeviceEnd(b)
         \/ \E p \in Client, f \in Fault : registerBuffer(p, b, f)
         \/ \E p \in Client, f \in Fault : unregisterBuffer(p, b, f)
         \/ \E p \in Process, mode \in Modes, f \in Fault : lock(p, b, mode, f)
         \/ \E p \in Process, f \in Fault : unlock(p, b, f)

Spec == Init /\ [][Next]_vars

-----------------------------------------------------------------------------
\* A buffer has a description exactly while some process has a handle of it,
\* the framebuffer's mask names slots it has, and the counts stay counts.
TypeOK ==
    /\ platform \in Platforms
    /\ fb.mask \subseteq 0 .. platform.fbBuffers - 1
    /\ \A b \in Buffer :
         /\ (buffer[b] = None) = ~Exists(b)
         /\ line[b] \in Lines \cup {None}
         /\ dev[b] \in {None, "read", "write"}
         /\ \A l \in cpu[b] : l.by \in Holders(b) /\ l.mode \in Modes
         /\ \A p \in Process : \A c \in DOMAIN Nothing : account[p][b][c] \in Nat

\* Neither side sees data the other has already replaced: a client that
\* locked a buffer to read never has a line older than what a device wrote,
\* and a device never works on memory the CPU's cache still has newer data
\* for.  The flags kept since the allocation, the flag a lock leaves in one
\* copy of the handle and the cleaning at the unlock have to agree for it
\* (mapper.cpp 209-294, gpu.cpp 155-168).
Coherent ==
    \A b \in Buffer :
      /\ (\E l \in cpu[b] : "read" \in l.mode) => line[b] \notin {"stale", "clash"}
      /\ dev[b] # None => line[b] \notin {"dirty", "clash"}

\* What a copy of a handle stands for in its process.
Owed(v) ==
    IF v = None THEN Nothing
    ELSE [fd |-> 1, fdm |-> One(v.fdm), data |-> One(v.base), meta |-> One(v.meta)]

\* The failing calls after which the code leaves something behind: an mmap in
\* IonAlloc::alloc_buffer (ionalloc.cpp 113-120; for the metadata, gpu.cpp 88
\* only logs it), the one of the metadata in gralloc_map (mapper.cpp 93-101), a
\* munmap in gralloc_unmap (mapper.cpp 123-128, 134-141), after which free_impl
\* does not reach the metadata (gpu.cpp 352-355).
Keeps ==
    [fd |-> {"mmap", "mmapSystem"}, fdm |-> {"emmap", "munmap"},
     data |-> {"mapMeta", "munmap"}, meta |-> {"munmap", "munmapMeta"}]

\* A process has of b what its copy of the handle stands for, or more for a cause.
Kept(p, b, c) ==
    LET owed == Owed(view[p][b])[c]
    IN  /\ account[p][b][c] >= owed
        /\ account[p][b][c] > owed => struck[p][b] \cap Keeps[c] # {}

\* Of each descriptor and mapping a process has what its copies of the handles
\* stand for, and more only where one of the calls above failed it: none is
\* given back twice on any path, and those failures are all that leak.  The
\* buffers carved from the framebuffer have a slot each, those the mask has
\* taken (gralloc_map, gralloc_unmap, free_impl, free_buffer,
\* gralloc_alloc_framebuffer_locked).
ResourcesOwned ==
    LET carved == {b \in Buffer : Exists(b) /\ Has(b, "FRAMEBUFFER")}
    IN  /\ \A p \in Process, b \in Buffer \ carved : \A c \in DOMAIN Nothing : Kept(p, b, c)
        /\ fb.mask = {buffer[b].offset \div FbBufferSize : b \in carved}
        /\ Cardinality(fb.mask) = Cardinality(carved)

\* Planes p hold an image, do not overlap and end inside `size' bytes.  Two
\* rows share their chroma; an odd last row has none.
PlanesLie(format, p, image, size) ==
    LET rows == IF format \in {"YCbCr_422_SP", "YCrCb_422_SP"}
                  THEN p.rows ELSE p.rows \div 2
        first == IF p.cb < p.cr THEN p.cb ELSE p.cr
        second == IF p.cb < p.cr THEN p.cr ELSE p.cb
    IN  /\ p.ystride >= image[1] /\ p.rows >= image[2]
        /\ p.cstride * (IF p.step = 2 THEN 1 ELSE 2) >= image[1]
        /\ first >= p.ystride * image[2]
        /\ IF p.step = 2 THEN first + p.cstride * rows <= size
           ELSE /\ second >= first + p.cstride * rows
                /\ second + p.cstride * rows <= size

\* The planes a client is told of hold the image, do not overlap and end
\* inside the memory that was allocated, whether the buffer is described by
\* its handle or by a geometry its producer left (getSize and
\* getYUVPlaneInfo compute the two independently).
PlanesFit ==
    \A b \in Buffer :
      Exists(b) /\ HasPlanes(buffer[b].format) =>
        LET x == buffer[b]
            image == IF geometry[b] = <<>> THEN <<x.asked.w, x.asked.h>> ELSE geometry[b]
        IN  PlanesLie(x.format, Planes(platform, x.format, x.w, x.h, geometry[b]), image, x.size)

-----------------------------------------------------------------------------
(* What makes Coherent inductive, where what is drawn into the             *)
(* framebuffer's memory is said to be rendered.                            *)
-----------------------------------------------------------------------------
RendersToFb ==
    \A p \in Platforms, b \in Buffer : \A r \in Asked(p, b) :
      p.mapFb /\ p.fbBuffers = 1 /\ "HW_FB" \in r.usage /\ r.usage \cap HeapMask = {}
        => "HW_RENDER" \in r.usage

Lock == [by : Process, mode : Modes]

Typed ==
    /\ platform \in Platforms
    /\ view \in [Process -> [Buffer -> View \cup {None}]]
    /\ DOMAIN buffer = Buffer
    /\ line \in [Buffer -> Lines \cup {None}]
    /\ dev \in [Buffer -> {None, "read", "write"}]
    /\ cpu \in [Buffer -> SUBSET Lock]

\* Only who has a handle uses the buffer; a writer is alone.
Used(b) ==
    /\ ~Exists(b) => line[b] = None /\ dev[b] = None /\ cpu[b] = {}
    /\ \A l \in cpu[b] : Live(l.by, b)
    /\ \A k, l \in cpu[b] : k.by = l.by \/ "write" \in l.mode => k = l
    /\ dev[b] # None => cpu[b] = {}

\* The flags say who writes; the flag left by the lock of a writer is there
\* for its unlock; only a buffer given up is left with a dirty line.
Flagged(b) ==
    /\ line[b] # None => Has(b, "CACHED")
    /\ Exists(b) /\ Has(b, "CACHED") /\ DeviceWrites(b) => Has(b, "NON_CPU_WRITER")
    /\ dev[b] = "write" => DeviceWrites(b)
    /\ line[b] = "stale" => Has(b, "NON_CPU_WRITER")
    /\ \A l \in cpu[b] : /\ "write" \in l.mode /\ Has(b, "CACHED") => view[l.by][b].flush
                         /\ "read" \in l.mode => line[b] # "stale"
    /\ line[b] = "dirty" => dev[b] = None /\ (b \in failed \/ \E l \in cpu[b] : "write" \in l.mode)
    /\ line[b] # "clash"

CacheInv == Typed /\ \A b \in Buffer : Used(b) /\ Flagged(b)

-----------------------------------------------------------------------------
(* What makes ResourcesOwned inductive, where the rounding of the          *)
(* framebuffer's buffers to pages adds less than one of them.              *)
-----------------------------------------------------------------------------
Panels ==
    \A p \in Platforms :
      /\ p.lineLength \in Nat /\ p.yres \in Nat /\ p.fbBuffers \in Nat
      /\ p.lineLength * p.yres > p.fbBuffers * Page

Carved(b) == Exists(b) /\ Has(b, "FRAMEBUFFER")
Slot(b) == buffer[b].offset \div FbBufferSize

Count == [fd : Int, fdm : Int, data : Int, meta : Int]

Counted ==
    /\ platform \in Platforms
    /\ fb \in [mapped : BOOLEAN, mask : SUBSET FbSlots]
    /\ view \in [Process -> [Buffer -> View \cup {None}]]
    /\ account \in [Process -> [Buffer -> Count]]
    /\ struck \in [Process -> [Buffer -> SUBSET Calls]]
    /\ DOMAIN buffer = Buffer

\* Every copy of a handle is mapped as far as its buffer is, and its metadata
\* as far as there is a descriptor for it.
Owned(b) ==
    IF Carved(b)
      THEN /\ Holders(b) = {Server}
           /\ ~buffer[b].asked.internal
           /\ \A p \in Process : account[p][b] = Nothing
      ELSE \A p \in Process :
             /\ \A c \in DOMAIN Nothing : Kept(p, b, c)
             /\ Live(p, b) =>
                  /\ view[p][b].base = ~Has(b, "SECURE_BUFFER")
                  /\ view[p][b].meta = view[p][b].fdm
                  /\ buffer[b].asked.internal => ~view[p][b].fdm

\* The buffers carved from the framebuffer's memory have the mask's slots.
Slotted ==
    /\ \A b \in Buffer : Carved(b) =>
         Slot(b) \in fb.mask /\ buffer[b].offset = Slot(b) * FbBufferSize
    /\ \A b, c \in Buffer : Carved(b) /\ Carved(c) /\ Slot(b) = Slot(c) => b = c
    /\ \A i \in fb.mask : \E b \in Buffer : Carved(b) /\ Slot(b) = i
    /\ ~fb.mapped => fb.mask = {}

OwnInv == Counted /\ Slotted /\ \A b \in Buffer : Owned(b)

-----------------------------------------------------------------------------
(* What makes PlanesFit inductive.  Sizes are counts, an image a producer  *)
(* leaves is no larger than the one asked for, and gralloc's own callers   *)
(* ask for sizes it has.  YCrCb_420_SP_ADRENO needs more: the rounding of  *)
(* half the width to 32 (alloc_controller.cpp 446) is less than half of    *)
(* what getYUVPlaneInfo takes for the stride if the width is 64 k + 1.     *)
-----------------------------------------------------------------------------
Requests ==
    \A p \in Platforms, b \in Buffer :
      /\ p.pixelAlign \in Nat \ {0}
      /\ \A r \in Asked(p, b) :
           /\ r.w \in Nat /\ r.h \in Nat
           /\ r.internal => Dimensions(p, r).size # 0
           /\ Dimensions(p, r).format = "YCrCb_420_SP_ADRENO" => r.w % 64 # 1
           /\ \A g \in Slices(r) : \E w \in 0 .. r.w, h \in 0 .. r.h : g = <<w, h>>

\* The formats with planes, by how they are rounded.
Wide == {"YCbCr_420_SP", "YCrCb_420_SP"}
Sixteen == {"YV12", "YCbCr_422_SP", "YCrCb_422_SP"}
Venus == {"YCbCr_420_SP_VENUS", "NV12_ENCODEABLE"}

\* s is what an image of w by h is rounded to.
RoundedTo(p, f, s, w, h) ==
    /\ f \in Wide => s = <<AlignUp(w, p.pixelAlign), h>>
    /\ f = "YCrCb_420_SP_ADRENO" => s = <<AlignUp(w, 32), h>>
    /\ f \in Sixteen => s = <<AlignUp(w, 16), h>>
    /\ f \in Venus => s = <<AlignUp(w, 128), AlignUp(h, 32)>>
    /\ f = "NV21_ZSL" => s = <<AlignUp(w, 64), AlignUp(h, 64)>>

\* A buffer with planes is laid out as its request asks.
Laid(b) ==
    Exists(b) /\ HasPlanes(buffer[b].format) =>
      LET x == buffer[b]
          r == x.asked
          size == SizeOf(x.format, r.w, r.h, x.w, x.h)
      IN  /\ r \in Asked(platform, b)
          /\ x.format = "YCrCb_420_SP_ADRENO" => r.w % 64 # 1
          /\ RoundedTo(platform, x.format, <<x.w, x.h>>, r.w, r.h)
          /\ size # 0 /\ x.size \in Nat /\ size <= x.size
          /\ geometry[b] \in Slices(r) \cup {<<>>}

LayInv ==
    /\ platform \in Platforms
    /\ DOMAIN view = Process /\ \A p \in Process : DOMAIN view[p] = Buffer
    /\ DOMAIN buffer = Buffer /\ DOMAIN geometry = Buffer
    /\ \A b \in Buffer : Laid(b)
=============================================================================
