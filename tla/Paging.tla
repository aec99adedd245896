-------------------------------- MODULE Paging --------------------------------
(***************************************************************************)
(* The virtual memory of OS.cpp and MMU.cpp: physical frames and their LRU *)
(* list, page tables, demand paging with eviction to a simulated disk, the *)
(* heap allocator, shared regions, and the life of a process's memory from *)
(* the loading of its image to its clean-up.                               *)
(*                                                                         *)
(* The contents of a page are one value: Zero, or a member of Values.  A   *)
(* write replaces it.  `op' says which handler loop is in progress; nobody *)
(* else runs until it is done (the OS is one thread), and otherwise any    *)
(* live process may be the running one.                                    *)
(*                                                                         *)
(* loadProcessImage_ gives every live process a table that reaches to the  *)
(* top of its stack, so the table is a function on VPage and the resize    *)
(* calls, which never find it too short, are left out.                     *)
(***************************************************************************)
EXTENDS Integers

CONSTANTS Pid,         \* the pids that may be handed out
          NumFrames,   \* numPhysPages()
          NumShared,   \* NUM_SHARED_REGIONS
          CodeFirst,   \* first page of the code segment (codeBase)
          MaxCode,     \* pages the longest program takes
          HeapFirst,   \* heapStart and heapEnd - 1, as pages
          HeapLast,
          OtherPages,  \* the pages of the data segment and of the stack
          SharedVBase, \* SHARED_MEM_VBASE, as a page: it lies in the stack
          PageSize,    \* bytes in a page
          WordMod,     \* number of values of a uint32_t
          Requests,    \* the byte counts (int64) a process may ask for
          Values,      \* what a process may write
          Zero,        \* the contents of a zeroed page
          Absent,      \* no page on disk
          NoOwner      \* no entry in physPageOwner_

Frame        == 0 .. NumFrames - 1
UNMAPPED     == NumFrames
Region       == 0 .. NumShared - 1
HeapPages    == HeapFirst .. HeapLast
SharedPages  == {SharedVBase + i : i \in Region}
VPage        == (CodeFirst .. CodeFirst + MaxCode - 1) \cup HeapPages \cup OtherPages
Content      == Values \cup {Zero}

ASSUME PagingAssumption ==
    /\ NumFrames \in Nat /\ NumShared \in Nat /\ NumShared < NumFrames
    /\ CodeFirst \in Nat /\ MaxCode \in Nat \ {0}
    /\ HeapFirst \in Nat /\ HeapLast \in Nat /\ HeapFirst <= HeapLast
    /\ OtherPages \subseteq Nat /\ SharedVBase \in Nat
    /\ CodeFirst + MaxCode <= HeapFirst
    /\ OtherPages \cap HeapPages = {}
    /\ SharedPages \subseteq OtherPages
    /\ PageSize \in Nat \ {0} /\ WordMod \in Nat \ {0}
    /\ Requests \subseteq Int
    /\ Zero \notin Values /\ Absent \notin Content
    /\ NoOwner \notin Pid \X VPage

VARIABLES physUsed,         \* MMU::physUsed
          lru,              \* MMU::lruList_: <<f, g>> when f is g or in front of it
          physMem,          \* MMU::physMem, one value a frame
          pageTable,        \* pcb.pageTable
          physPageOwner,    \* physPageOwner_
          disk,             \* disk_
          heapAllocations,  \* pcb.heapAllocations: pages at a base, 0 for none
          codePages,        \* pcb.codeSize, in pages
          status,           \* what became of a pid
          op                \* the handler loop in progress

vars == <<physUsed, lru, physMem, pageTable, physPageOwner, disk,
          heapAllocations, codePages, status, op>>

\* PageEntry.
Entry == [physPage : Frame \cup {UNMAPPED}, isValid : BOOLEAN, isDirty : BOOLEAN]
NoEntry == [physPage |-> UNMAPPED, isValid |-> FALSE, isDirty |-> FALSE]

\* A loop in progress: pages first .. last of pid, `next' comes now.
OpType == [kind : {"create", "alloc"}, pid : Pid, first : Nat, next : Nat,
           last : Nat]
Idle   == [kind |-> "none"]

\* "failed": createProcessFromAsm threw; the pid is spent, no process has it.
TypeOK ==
    /\ physUsed \in [Frame -> BOOLEAN]
    /\ lru \in SUBSET (Frame \X Frame)
    /\ physMem \in [Frame -> Content]
    /\ pageTable \in [Pid -> [VPage -> Entry]]
    /\ physPageOwner \in [Frame -> (Pid \X VPage) \cup {NoOwner}]
    /\ disk \in [Pid -> [VPage -> Content \cup {Absent}]]
    /\ heapAllocations \in [Pid -> [HeapPages -> Nat]]
    /\ codePages \in [Pid -> 0 .. MaxCode]
    /\ status \in [Pid -> {"none", "live", "dead", "failed"}]
    /\ op \in OpType \cup {Idle}

-----------------------------------------------------------------------------
(***************************************************************************)
(* MMU: frames and the LRU list.                                           *)
(***************************************************************************)
\* The OS constructor takes the first frames for the shared regions.
SharedFrames == Region

InLRU(l) == {f \in Frame : <<f, f>> \in l}

\* removeLRUEntry, for every frame of a set.
RemoveLRU(l, F) == {e \in l : e[1] \notin F /\ e[2] \notin F}

\* A slip: a frame that is not on the list is not put there.
MutTouch(l, f) ==
    IF f \in InLRU(l)
    THEN RemoveLRU(l, {f}) \cup ({f} \X InLRU(l))
    ELSE l

\* touchPhysPage moves or puts a frame to the front.
Touch(l, f) == RemoveLRU(l, {f}) \cup ({f} \X (InLRU(l) \cup {f}))

\* The frame allocPhysPage finds.
FirstFree(f) ==
    /\ ~physUsed[f]
    /\ \A g \in Frame : ~physUsed[g] => f <= g

Full == \A f \in Frame : physUsed[f]

\* A slip: the pinned frames are not skipped.
MutLRUVictim(f) ==
    /\ Full
    /\ f \in InLRU(lru)
    /\ \A g \in InLRU(lru) : <<g, f>> \in lru

\* The frame evictOnePage_ takes when there is none: getLRUPhysPage returns the
\* last of the list that is not pinned.
LRUVictim(f) ==
    /\ Full
    /\ f \in InLRU(lru) \ SharedFrames
    /\ \A g \in InLRU(lru) \ SharedFrames : <<g, f>> \in lru

-----------------------------------------------------------------------------
(***************************************************************************)
(* evictOnePage_: what it makes of the page tables and of the disk.  The   *)
(* owner is looked up among the processes, so a failed creation's frames   *)
(* are taken without a trace.                                              *)
(***************************************************************************)
OwnerFound(f) == physPageOwner[f] # NoOwner /\ status[physPageOwner[f][1]] = "live"

\* A slip: the owner's entry is not invalidated.
MutTableAfterEviction(f) == pageTable

TableAfterEviction(f) ==
    IF OwnerFound(f)
    THEN [pageTable EXCEPT ![physPageOwner[f][1]][physPageOwner[f][2]] =
            [@ EXCEPT !.isValid = FALSE, !.physPage = UNMAPPED]]
    ELSE pageTable

DiskAfterEviction(f) ==
    IF OwnerFound(f) /\ pageTable[physPageOwner[f][1]][physPageOwner[f][2]].isDirty
    THEN [disk EXCEPT ![physPageOwner[f][1]][physPageOwner[f][2]] = physMem[f]]
    ELSE disk

\* Page v of p comes to stand in frame f with contents c: the page table, the
\* reverse map and the LRU list.  `table' is the page tables before that.
Wire(p, v, f, table, c) ==
    /\ physUsed' = [physUsed EXCEPT ![f] = TRUE]
    /\ physMem' = [physMem EXCEPT ![f] = c]
    /\ pageTable' = [table EXCEPT ![p][v] =
                        [physPage |-> f, isValid |-> TRUE, isDirty |-> FALSE]]
    /\ physPageOwner' = [physPageOwner EXCEPT ![f] = <<p, v>>]
    /\ lru' = Touch(lru, f)

-----------------------------------------------------------------------------
(***************************************************************************)
(* createProcessFromAsm: the pid, one frame per code page (no eviction     *)
(* here), and the image.                                                   *)
(***************************************************************************)

CreateBegin(p, n) ==
    /\ op = Idle
    /\ status[p] = "none"
    /\ codePages' = [codePages EXCEPT ![p] = n]
    /\ op' = [kind |-> "create", pid |-> p, first |-> CodeFirst,
              next |-> CodeFirst, last |-> CodeFirst + n - 1]
    /\ UNCHANGED <<physUsed, lru, physMem, pageTable, physPageOwner, disk,
                   heapAllocations, status>>

CreatePage ==
    /\ op.kind = "create"
    /\ op.next <= op.last
    /\ \E f \in Frame :
         /\ FirstFree(f)
         /\ Wire(op.pid, op.next, f, pageTable, Zero)
    /\ op' = [op EXCEPT !.next = @ + 1]
    /\ UNCHANGED <<disk, heapAllocations, codePages, status>>

\* allocPhysPage throws "Out of physical memory" out of createProcessFromAsm;
\* the frames taken so far stay with the pid.  The table dies with the local.
CreateFails ==
    /\ op.kind = "create"
    /\ op.next <= op.last
    /\ Full
    /\ pageTable' = [pageTable EXCEPT ![op.pid] = [v \in VPage |-> NoEntry]]
    /\ status' = [status EXCEPT ![op.pid] = "failed"]
    /\ op' = Idle
    /\ UNCHANGED <<physUsed, lru, physMem, physPageOwner, disk, heapAllocations,
                   codePages>>

\* loadIntoMemory writes the image `c', page after page: the code pages are
\* dirty; the LRU list has them in that order already.
CreateDone(c) ==
    LET p    == op.pid
        code == op.first .. op.last
    IN
    /\ op.kind = "create"
    /\ op.next > op.last
    /\ physMem' = [f \in Frame |-> IF \E v \in code : pageTable[p][v].physPage = f
                                   THEN c ELSE physMem[f]]
    /\ pageTable' = [pageTable EXCEPT ![p] =
                       [v \in VPage |-> IF v \in code
                                        THEN [@[v] EXCEPT !.isDirty = TRUE]
                                        ELSE @[v]]]
    /\ status' = [status EXCEPT ![p] = "live"]
    /\ op' = Idle
    /\ UNCHANGED <<physUsed, lru, physPageOwner, disk, heapAllocations, codePages>>

-----------------------------------------------------------------------------
(***************************************************************************)
(* MMU::translate, and the page fault it raises.                           *)
(***************************************************************************)
Running(p) == op = Idle /\ status[p] = "live"

\* isValidVaddr_: heap pages are in bounds whether allocated or not.
InBounds(p, v) ==
    v \in (CodeFirst .. CodeFirst + codePages[p] - 1) \cup HeapPages \cup OtherPages

Read(p, v) ==
    /\ Running(p)
    /\ InBounds(p, v)
    /\ pageTable[p][v].isValid
    /\ lru' = Touch(lru, pageTable[p][v].physPage)
    /\ UNCHANGED <<physUsed, physMem, pageTable, physPageOwner, disk,
                   heapAllocations, codePages, status, op>>

Write(p, v, c) ==
    /\ Running(p)
    /\ InBounds(p, v)
    /\ pageTable[p][v].isValid
    /\ physMem' = [physMem EXCEPT ![pageTable[p][v].physPage] = c]
    /\ pageTable' = [pageTable EXCEPT ![p][v].isDirty = TRUE]
    /\ lru' = Touch(lru, pageTable[p][v].physPage)
    /\ UNCHANGED <<physUsed, physPageOwner, disk, heapAllocations, codePages,
                   status, op>>

\* A slip: an evicted frame is not zeroed.
MutRestored(d, p, v, f) == IF d[p][v] # Absent THEN d[p][v] ELSE physMem[f]

\* What handlePageFault_ puts into the frame: the page saved on disk `d', or
\* zeroes.
Restored(d, p, v, f) == IF d[p][v] # Absent THEN d[p][v] ELSE Zero

\* A slip: the saved page is not erased.
MutSwappedIn(d, p, v) == d

\* The disk after the page is restored.
SwappedIn(d, p, v) == [d EXCEPT ![p][v] = Absent]

\* handlePageFault_, with a free frame or with an evicted one.
PageFault(p, v) ==
    /\ Running(p)
    /\ InBounds(p, v)
    /\ ~pageTable[p][v].isValid
    /\ \E f \in Frame :
         \/ /\ FirstFree(f)
            /\ Wire(p, v, f, pageTable, Restored(disk, p, v, f))
            /\ disk' = SwappedIn(disk, p, v)
         \/ /\ LRUVictim(f)
            /\ LET d == DiskAfterEviction(f)
               IN  /\ Wire(p, v, f, TableAfterEviction(f), Restored(d, p, v, f))
                   /\ disk' = SwappedIn(d, p, v)
    /\ UNCHANGED <<heapAllocations, codePages, status, op>>

-----------------------------------------------------------------------------
(***************************************************************************)
(* handleAlloc_ and handleFreeMemory_.                                     *)
(***************************************************************************)
\* static_cast<uint32_t>(reqBytes), rounded up to pages in uint32_t.
PagesNeeded(r) == (((r % WordMod) + PageSize - 1) % WordMod) \div PageSize

\* A slip: a swapped-out page counts as free.
MutInUse(p, v) == pageTable[p][v].isValid

InUse(p, v) ==
    \/ pageTable[p][v].isValid
    \/ pageTable[p][v].physPage # UNMAPPED
    \/ disk[p][v] # Absent

\* A slip: the end of the heap is not looked at.
MutFreeRun(p, v, n) == \A w \in (v .. v + n - 1) \cap HeapPages : ~InUse(p, w)

FreeRun(p, v, n) ==
    /\ v + n - 1 <= HeapLast
    /\ \A w \in v .. v + n - 1 : ~InUse(p, w)

\* The request is good and a run is found, the first one.  (Otherwise the
\* handler returns 0 to the process and changes nothing.  A request that
\* rounds to 0 pages finds no run.)
AllocBegin(p, r) ==
    LET n == PagesNeeded(r) IN
    /\ Running(p)
    /\ r > 0
    /\ n > 0
    /\ \E v \in HeapPages :
         /\ FreeRun(p, v, n)
         /\ \A w \in HeapPages : FreeRun(p, w, n) => v <= w
         /\ op' = [kind |-> "alloc", pid |-> p, first |-> v, next |-> v,
                   last |-> v + n - 1]
    /\ UNCHANGED <<physUsed, lru, physMem, pageTable, physPageOwner, disk,
                   heapAllocations, codePages, status>>

AllocPage ==
    /\ op.kind = "alloc"
    /\ op.next <= op.last
    /\ \E f \in Frame :
         \/ /\ FirstFree(f)
            /\ Wire(op.pid, op.next, f, pageTable, Zero)
            /\ UNCHANGED disk
         \/ /\ LRUVictim(f)
            /\ Wire(op.pid, op.next, f, TableAfterEviction(f), Zero)
            /\ disk' = DiskAfterEviction(f)
    /\ op' = [op EXCEPT !.next = @ + 1]
    /\ UNCHANGED <<heapAllocations, codePages, status>>

AllocDone ==
    /\ op.kind = "alloc"
    /\ op.next > op.last
    /\ heapAllocations' = [heapAllocations EXCEPT ![op.pid][op.first] =
                              op.last - op.first + 1]
    /\ op' = Idle
    /\ UNCHANGED <<physUsed, lru, physMem, pageTable, physPageOwner, disk,
                   codePages, status>>

\* A slip: the freed frames keep their owner.
MutGiveBack(F) ==
    /\ physUsed' = [f \in Frame |-> physUsed[f] /\ f \notin F]
    /\ lru' = RemoveLRU(lru, F)
    /\ UNCHANGED physPageOwner

\* freePhysPage, and the erasure from physPageOwner_, for the frames of F.
GiveBack(F) ==
    /\ physUsed' = [f \in Frame |-> physUsed[f] /\ f \notin F]
    /\ lru' = RemoveLRU(lru, F)
    /\ physPageOwner' = [f \in Frame |-> IF f \in F THEN NoOwner ELSE physPageOwner[f]]

\* FreeMemory at the base of an allocation.  (Any other address is refused.)
FreeMemory(p, v) ==
    LET pages  == v .. v + heapAllocations[p][v] - 1
        frames == {pageTable[p][w].physPage : w \in {u \in pages : pageTable[p][u].isValid}}
    IN
    /\ Running(p)
    /\ heapAllocations[p][v] > 0
    /\ GiveBack(frames)
    /\ disk' = [disk EXCEPT ![p] =
                  [w \in VPage |-> IF w \in pages THEN Absent ELSE @[w]]]
    /\ pageTable' = [pageTable EXCEPT ![p] =
                       [w \in VPage |-> IF w \in pages THEN NoEntry ELSE @[w]]]
    /\ heapAllocations' = [heapAllocations EXCEPT ![p][v] = 0]
    /\ UNCHANGED <<physMem, codePages, status, op>>

-----------------------------------------------------------------------------
(***************************************************************************)
(* Trap::MapSharedMem and cleanupProcess_.                                 *)
(***************************************************************************)
\* mapPageInto overwrites the entry; a private page that stood there keeps
\* its frame and its place in physPageOwner_.
MapSharedMem(p, i) ==
    /\ Running(p)
    /\ pageTable' = [pageTable EXCEPT ![p][SharedVBase + i] =
                        [physPage |-> i, isValid |-> TRUE, isDirty |-> FALSE]]
    /\ UNCHANGED <<physUsed, lru, physMem, physPageOwner, disk, heapAllocations,
                   codePages, status, op>>


Exit(p) ==
    /\ Running(p)
    /\ GiveBack({f \in Frame : physPageOwner[f] # NoOwner /\ physPageOwner[f][1] = p})
    /\ disk' = [disk EXCEPT ![p] = [v \in VPage |-> Absent]]
    /\ pageTable' = [pageTable EXCEPT ![p] = [v \in VPage |-> NoEntry]]
    /\ heapAllocations' = [heapAllocations EXCEPT ![p] = [v \in HeapPages |-> 0]]
    /\ status' = [status EXCEPT ![p] = "dead"]
    /\ UNCHANGED <<physMem, codePages, op>>

-----------------------------------------------------------------------------
\* After the constructor: the shared frames are taken, in order.
Init ==
    /\ physUsed = [f \in Frame |-> f \in SharedFrames]
    /\ lru = {e \in SharedFrames \X SharedFrames : e[1] >= e[2]}
    /\ physMem = [f \in Frame |-> Zero]
    /\ pageTable = [p \in Pid |-> [v \in VPage |-> NoEntry]]
    /\ physPageOwner = [f \in Frame |-> NoOwner]
    /\ disk = [p \in Pid |-> [v \in VPage |-> Absent]]
    /\ heapAllocations = [p \in Pid |-> [v \in HeapPages |-> 0]]
    /\ codePages = [p \in Pid |-> 0]
    /\ status = [p \in Pid |-> "none"]
    /\ op = Idle

OpStep ==
    \/ CreatePage \/ CreateFails \/ \E c \in Values : CreateDone(c)
    \/ AllocPage \/ AllocDone

ProcStep(p) ==
    \/ \E n \in 1 .. MaxCode : CreateBegin(p, n)
    \/ \E v \in VPage : Read(p, v) \/ PageFault(p, v)
    \/ \E v \in VPage, c \in Values : Write(p, v, c)
    \/ \E r \in Requests : AllocBegin(p, r)
    \/ \E v \in HeapPages : FreeMemory(p, v)
    \/ \E i \in Region : MapSharedMem(p, i)
    \/ Exit(p)

Next == OpStep \/ \E p \in Pid : ProcStep(p)

Spec == Init /\ [][Next]_vars

-----------------------------------------------------------------------------
(***************************************************************************)
(* Properties.                                                             *)
(***************************************************************************)

\* A frame in two page tables, or twice in one, is a shared region's.
FrameIsolation ==
    \A p, q \in Pid, v, w \in VPage :
        /\ pageTable[p][v].isValid /\ pageTable[q][w].isValid
        /\ pageTable[p][v].physPage = pageTable[q][w].physPage
        => <<p, v>> = <<q, w>> \/ pageTable[p][v].physPage \in SharedFrames

\* physPageOwner_ is the inverse of the page tables: a resident private page
\* owns its frame, and an owner's page is resident.  (A shared region mapped
\* over a resident stack page hides that page from its table.)
OwnerMapInverse ==
    /\ \A p \in Pid, v \in VPage :
         LET e == pageTable[p][v]
         IN  /\ e.isValid <=> e.physPage # UNMAPPED
             /\ e.isValid => e.physPage \in SharedFrames
                             \/ physPageOwner[e.physPage] = <<p, v>>
    /\ \A f \in Frame, p \in Pid, v \in VPage :
         physPageOwner[f] = <<p, v>> /\ status[p] # "failed" =>
            /\ pageTable[p][v].isValid
            /\ \/ pageTable[p][v].physPage = f
               \/ v \in SharedPages /\ pageTable[p][v].physPage \in SharedFrames

\* Every frame is accounted for: it is in use exactly when it is on the LRU
\* list, and exactly when it is a shared region's or a page's that is not
\* gone; so no exit, free or eviction leaks a frame or frees one twice.
FramesAccounted ==
    \A f \in Frame :
        /\ physUsed[f] <=> f \in InLRU(lru)
        /\ physUsed[f] <=> f \in SharedFrames \/ physPageOwner[f] # NoOwner
        /\ f \in SharedFrames => physPageOwner[f] = NoOwner
        /\ physPageOwner[f] # NoOwner =>
              \/ status[physPageOwner[f][1]] \in {"live", "failed"}
              \/ op # Idle /\ op.pid = physPageOwner[f][1]

\* When no frame is free one can be evicted: otherwise getLRUPhysPage would
\* throw inside a handler of run()'s exceptions and end the whole simulation.
AlwaysAVictim == Full => \E f \in Frame : LRUVictim(f)

\* A page has one home: a saved copy never coexists with a resident private
\* page, and dies with its process; a stale copy would come back later.
OneHome ==
    \A p \in Pid, v \in VPage : disk[p][v] # Absent =>
        /\ status[p] = "live"
        /\ pageTable[p][v].isValid => pageTable[p][v].physPage \in SharedFrames

\* The private page v of p, wherever it is: in the frame that p owns for it
\* (a shared region may hide it), on disk, or nowhere.
PrivatePage(p, v) ==
    LET owned == {f \in Frame : physPageOwner[f] = <<p, v>>}
    IN  IF status[p] # "live" THEN Zero
        ELSE IF owned # {} THEN physMem[CHOOSE f \in owned : TRUE]
        ELSE IF disk[p][v] # Absent THEN disk[p][v]
        ELSE Zero

ShowsRegion(p, v) == pageTable[p][v].isValid /\ pageTable[p][v].physPage \in SharedFrames

\* A page that was written since it was brought in, or that is on disk, and will
\* be saved; mapping a region over it clears the flag.
DirtyOrSaved(p, v) ==
    IF pageTable[p][v].isValid THEN pageTable[p][v].isDirty ELSE disk[p][v] # Absent

\* The state of Memory, as this state shows it.
CodePages == CodeFirst .. CodeFirst + MaxCode - 1
alive     == {p \in Pid : status[p] = "live"}
mem       == [p \in Pid |-> [v \in VPage |-> PrivatePage(p, v)]]
mapped    == [p \in Pid |-> {v \in VPage : ShowsRegion(p, v)}]
region    == [i \in Region |-> physMem[i]]
kept      == [p \in Pid |-> {v \in VPage : /\ p \in alive
                                           /\ ~ShowsRegion(p, v)
                                           /\ DirtyOrSaved(p, v)}]

LossyMemory == INSTANCE Memory WITH Lossy <- TRUE
IdealMemory == INSTANCE Memory WITH Lossy <- FALSE

\* Paging implements memory that is private and may forget: whatever frames
\* change hands, a page changes by its own process's writes and frees, or to
\* zeroes when it was clean or a region has been mapped over it; a dirty page or
\* one on disk that no region covers is never lost, and a region changes only by
\* writes of those who mapped it.
ImplementsMemory == LossyMemory!Spec

-----------------------------------------------------------------------------
(***************************************************************************)
(* What the repository says, and the code does not do.                     *)
(***************************************************************************)

\* Paging is invisible: test_main.cpp says pages are "written to disk_ on
\* eviction and correctly restored on page-fault swap-in", so no page is lost.
PagingInvisible == IdealMemory!Spec

\* The page under a region stays what it was, as nobody can write to it:
\* test_main.cpp says "dirty pages are written to disk_ on eviction".  A dirty
\* page that a region is mapped over is dirty no more, and is not written.
CoveredPageKept ==
    [][\A p \in alive, v \in SharedPages :
          ShowsRegion(p, v) /\ p \in alive' => mem'[p][v] = mem[p][v]]_vars
=============================================================================
