---------------------------- MODULE PagingProofs ----------------------------
(***************************************************************************)
(* Proofs about Paging, for any number of processes, frames, pages and     *)
(* shared regions.                                                         *)
(***************************************************************************)
EXTENDS Paging, FiniteSetTheorems, WellFoundedInduction, TLAPS

-----------------------------------------------------------------------------
(***************************************************************************)
(* Types.                                                                  *)
(***************************************************************************)
Table == [Pid -> [VPage -> Entry]]
Disk  == [Pid -> [VPage -> Content \cup {Absent}]]

\* The pages that handlePageFault_ and the two loops go through are pages, and
\* so are those of an allocation.
Bounds ==
    /\ op.kind = "create" =>
         /\ status[op.pid] = "none"
         /\ op.first = CodeFirst
         /\ op.last \in CodePages
         /\ op.next \in op.first .. op.last + 1
    /\ op.kind = "alloc" =>
         /\ status[op.pid] = "live"
         /\ op.first \in HeapPages
         /\ op.last \in HeapPages
         /\ op.next \in op.first .. op.last + 1
    /\ \A p \in Pid, v \in HeapPages : v + heapAllocations[p][v] - 1 <= HeapLast

TInv == TypeOK /\ Bounds

\* Which pages there are.
LEMMA PageFacts ==
  /\ VPage \subseteq Nat /\ HeapPages \subseteq VPage /\ CodePages \subseteq VPage
  /\ SharedPages \subseteq VPage
  /\ \A i \in Region : SharedVBase + i \in VPage /\ SharedVBase + i \notin HeapPages
  /\ SharedFrames \subseteq Frame /\ UNMAPPED \notin Frame
  /\ Zero \in Content /\ NoOwner \notin Pid \X VPage
<1> USE PagingAssumption
<1>1. VPage \subseteq Nat /\ HeapPages \subseteq VPage /\ CodePages \subseteq VPage
  BY DEF VPage, HeapPages, CodePages
<1>2. SharedPages \subseteq VPage
  BY DEF VPage
<1>3. \A i \in Region : SharedVBase + i \in SharedPages
  BY DEF SharedPages
<1>4. \A i \in Region : SharedVBase + i \in VPage /\ SharedVBase + i \notin HeapPages
  BY <1>2, <1>3
<1>5. SharedFrames \subseteq Frame /\ UNMAPPED \notin Frame
  BY DEF SharedFrames, Region, Frame, UNMAPPED
<1>6. Zero \in Content /\ NoOwner \notin Pid \X VPage
  BY DEF Content
<1> QED BY <1>1, <1>2, <1>4, <1>5, <1>6

LEMMA PagesNeededType == ASSUME NEW r \in Requests PROVE PagesNeeded(r) \in Nat
<1>1. r \in Int /\ PageSize \in Nat \ {0} /\ WordMod \in Nat \ {0}
  BY PagingAssumption
<1>2. r % WordMod \in Nat
  BY <1>1
<1>3. (r % WordMod) + PageSize - 1 \in Int
  BY <1>1, <1>2
<1>4. ((r % WordMod) + PageSize - 1) % WordMod \in Nat
  BY <1>1, <1>3
<1> QED BY <1>1, <1>4 DEF PagesNeeded

\* The fields of the loop in progress.
LEMMA OpFields ==
  ASSUME TypeOK
  PROVE  /\ op.kind \in {"create", "alloc", "none"}
         /\ op.kind = "none" <=> op = Idle
         /\ op # Idle => /\ op.pid \in Pid /\ op.first \in Nat /\ op.next \in Nat
                         /\ op.last \in Nat
                         /\ op = [kind |-> op.kind, pid |-> op.pid, first |-> op.first,
                                  next |-> op.next, last |-> op.last]
  BY DEF TypeOK, OpType, Idle

\* What an eviction makes of a page table entry.
LEMMA EvictedEntry ==
  ASSUME NEW e \in Entry
  PROVE  LET x == [e EXCEPT !.isValid = FALSE, !.physPage = UNMAPPED]
         IN  x \in Entry /\ x.physPage = UNMAPPED /\ ~x.isValid /\ x.isDirty = e.isDirty
  BY DEF Entry

\* An eviction changes one entry of one table, and that page's copy on disk.
LEMMA EvictionFacts ==
  ASSUME TypeOK, NEW f \in Frame
  PROVE  LET T == TableAfterEviction(f)
             D == DiskAfterEviction(f) IN
         /\ T \in Table
         /\ D \in Disk
         /\ \A q \in Pid, w \in VPage :
              LET mine == physPageOwner[f] = <<q, w>> /\ status[q] = "live" IN
              /\ mine => /\ T[q][w].physPage = UNMAPPED
                         /\ ~T[q][w].isValid
                         /\ T[q][w].isDirty = pageTable[q][w].isDirty
              /\ ~mine => T[q][w] = pageTable[q][w]
              /\ D[q][w] = IF mine /\ pageTable[q][w].isDirty THEN physMem[f]
                           ELSE disk[q][w]
<1> DEFINE T == TableAfterEviction(f)
           D == DiskAfterEviction(f)
<1>1. /\ pageTable \in Table /\ disk \in Disk /\ physMem[f] \in Content
      /\ physPageOwner[f] \in (Pid \X VPage) \cup {NoOwner}
  BY DEF TypeOK, Table, Disk
<1>2. CASE ~OwnerFound(f)
  <2>1. \A q \in Pid, w \in VPage : ~(physPageOwner[f] = <<q, w>> /\ status[q] = "live")
    BY <1>2, PageFacts DEF OwnerFound
  <2>2. T = pageTable /\ D = disk
    BY <1>2 DEF TableAfterEviction, DiskAfterEviction
  <2> QED BY <1>1, <2>1, <2>2
<1>3. CASE OwnerFound(f)
  <2>1. PICK q0 \in Pid, w0 \in VPage : physPageOwner[f] = <<q0, w0>>
    BY <1>1, <1>3 DEF OwnerFound
  <2>2. status[q0] = "live"
    BY <1>3, <2>1 DEF OwnerFound
  <2>3. T = [pageTable EXCEPT ![q0][w0] = [@ EXCEPT !.isValid = FALSE, !.physPage = UNMAPPED]]
    BY <1>3, <2>1 DEF TableAfterEviction
  <2>4. D = IF pageTable[q0][w0].isDirty THEN [disk EXCEPT ![q0][w0] = physMem[f]] ELSE disk
    BY <1>3, <2>1 DEF DiskAfterEviction
  <2> DEFINE e == [pageTable[q0][w0] EXCEPT !.isValid = FALSE, !.physPage = UNMAPPED]
  <2>5. /\ e \in Entry /\ e.physPage = UNMAPPED /\ ~e.isValid
        /\ e.isDirty = pageTable[q0][w0].isDirty
    <3>1. pageTable[q0][w0] \in Entry
      BY <1>1 DEF Table
    <3> QED BY <3>1, EvictedEntry
  <2>6. T = [pageTable EXCEPT ![q0][w0] = e]
    BY <2>3
  <2> HIDE DEF e, T, D
  <2>7. T \in Table /\ D \in Disk
    BY <1>1, <2>4, <2>5, <2>6 DEF Table, Disk
  <2>8. ASSUME NEW q \in Pid, NEW w \in VPage
        PROVE  /\ T[q][w] = IF q = q0 /\ w = w0 THEN e ELSE pageTable[q][w]
               /\ D[q][w] = IF q = q0 /\ w = w0 /\ pageTable[q][w].isDirty
                            THEN physMem[f] ELSE disk[q][w]
    BY <1>1, <2>4, <2>6 DEF Table, Disk
  <2>9. \A q \in Pid, w \in VPage :
          physPageOwner[f] = <<q, w>> /\ status[q] = "live" <=> q = q0 /\ w = w0
    BY <2>1, <2>2
  <2> QED BY <2>5, <2>7, <2>8, <2>9 DEF T, D
<1> QED BY <1>2, <1>3

\* Wire, place by place.
LEMMA WireFacts ==
  ASSUME TypeOK, NEW p \in Pid, NEW v \in VPage, NEW f \in Frame, NEW T \in Table,
         NEW c \in Content, Wire(p, v, f, T, c)
  PROVE  /\ physUsed' \in [Frame -> BOOLEAN]
         /\ physMem' \in [Frame -> Content]
         /\ pageTable' \in Table
         /\ physPageOwner' \in [Frame -> (Pid \X VPage) \cup {NoOwner}]
         /\ \A g \in Frame :
              /\ physUsed'[g] <=> physUsed[g] \/ g = f
              /\ physMem'[g] = IF g = f THEN c ELSE physMem[g]
              /\ physPageOwner'[g] = IF g = f THEN <<p, v>> ELSE physPageOwner[g]
         /\ \A q \in Pid, w \in VPage : q # p \/ w # v => pageTable'[q][w] = T[q][w]
         /\ pageTable'[p][v].physPage = f
         /\ pageTable'[p][v].isValid
         /\ ~pageTable'[p][v].isDirty
<1> DEFINE e == [physPage |-> f, isValid |-> TRUE, isDirty |-> FALSE]
<1>1. e \in Entry /\ e.physPage = f /\ e.isValid /\ ~e.isDirty
  BY DEF Entry
<1>2. pageTable' = [T EXCEPT ![p][v] = e]
  BY DEF Wire
<1> HIDE DEF e
<1>3. /\ pageTable' \in Table
      /\ \A q \in Pid, w \in VPage :
           pageTable'[q][w] = IF q = p /\ w = v THEN e ELSE T[q][w]
  BY <1>1, <1>2 DEF Table
<1>4. /\ physUsed' \in [Frame -> BOOLEAN]
      /\ physMem' \in [Frame -> Content]
      /\ physPageOwner' \in [Frame -> (Pid \X VPage) \cup {NoOwner}]
  BY DEF Wire, TypeOK
<1>5. \A g \in Frame :
        /\ physUsed'[g] <=> physUsed[g] \/ g = f
        /\ physMem'[g] = IF g = f THEN c ELSE physMem[g]
        /\ physPageOwner'[g] = IF g = f THEN <<p, v>> ELSE physPageOwner[g]
  BY DEF Wire, TypeOK
<1> QED BY <1>1, <1>3, <1>4, <1>5

-----------------------------------------------------------------------------
(***************************************************************************)
(* The LRU list.                                                           *)
(***************************************************************************)
\* The relation is that of a list: a total order of the frames on it.
ListOrder(l) ==
    /\ \A f, g \in Frame : <<f, g>> \in l => f \in InLRU(l) /\ g \in InLRU(l)
    /\ \A f, g \in InLRU(l) : <<f, g>> \in l \/ <<g, f>> \in l
    /\ \A f, g \in InLRU(l) : <<f, g>> \in l /\ <<g, f>> \in l => f = g
    /\ \A f, g, h \in InLRU(l) : <<f, g>> \in l /\ <<g, h>> \in l => <<f, h>> \in l

\* touchPhysPage adds the frame and keeps a list.
LEMMA TouchFacts ==
  ASSUME NEW l \in SUBSET (Frame \X Frame), NEW f \in Frame
  PROVE  /\ Touch(l, f) \in SUBSET (Frame \X Frame)
         /\ InLRU(Touch(l, f)) = InLRU(l) \cup {f}
         /\ ListOrder(l) => ListOrder(Touch(l, f))
<1>1. ASSUME NEW a \in Frame, NEW b \in Frame
      PROVE  <<a, b>> \in Touch(l, f) <=>
               \/ <<a, b>> \in l /\ a # f /\ b # f
               \/ a = f /\ (b \in InLRU(l) \/ b = f)
  BY DEF Touch, RemoveLRU
<1>2. Touch(l, f) \in SUBSET (Frame \X Frame)
  BY DEF Touch, RemoveLRU, InLRU
<1>3. InLRU(Touch(l, f)) = InLRU(l) \cup {f}
  BY <1>1 DEF InLRU
<1>4. ASSUME ListOrder(l) PROVE ListOrder(Touch(l, f))
  <2> DEFINE S == InLRU(l)
             t == Touch(l, f)
  <2>1. \A a, b \in Frame : <<a, b>> \in t <=>
               \/ <<a, b>> \in l /\ a # f /\ b # f
               \/ a = f /\ (b \in S \/ b = f)
    BY <1>1
  <2>2. /\ \A a, b \in Frame : <<a, b>> \in l => a \in S /\ b \in S
        /\ \A a, b \in S : <<a, b>> \in l \/ <<b, a>> \in l
        /\ \A a, b \in S : <<a, b>> \in l /\ <<b, a>> \in l => a = b
        /\ \A a, b, c \in S : <<a, b>> \in l /\ <<b, c>> \in l => <<a, c>> \in l
        /\ S \subseteq Frame
    BY <1>4 DEF ListOrder, InLRU
  <2>3. InLRU(t) = S \cup {f}
    BY <1>3
  <2> HIDE DEF S, t
  <2>4. \A a, b \in Frame : <<a, b>> \in t => a \in S \cup {f} /\ b \in S \cup {f}
    BY <2>1, <2>2
  <2>5. \A a, b \in S \cup {f} : <<a, b>> \in t \/ <<b, a>> \in t
    BY <2>1, <2>2
  <2>6. \A a, b \in S \cup {f} : <<a, b>> \in t /\ <<b, a>> \in t => a = b
    BY <2>1, <2>2
  <2>7. \A a, b, c \in S \cup {f} : <<a, b>> \in t /\ <<b, c>> \in t => <<a, c>> \in t
    BY <2>1, <2>2
  <2>8. ListOrder(t)
    BY <2>3, <2>4, <2>5, <2>6, <2>7 DEF ListOrder
  <2> QED BY <2>8 DEF t
<1> QED BY <1>2, <1>3, <1>4

\* removeLRUEntry takes frames off the list and keeps a list.
LEMMA RemoveFacts ==
  ASSUME NEW l \in SUBSET (Frame \X Frame), NEW F
  PROVE  /\ RemoveLRU(l, F) \in SUBSET (Frame \X Frame)
         /\ InLRU(RemoveLRU(l, F)) = InLRU(l) \ F
         /\ ListOrder(l) => ListOrder(RemoveLRU(l, F))
<1> DEFINE t == RemoveLRU(l, F)
<1>1. \A a, b \in Frame : <<a, b>> \in t <=> <<a, b>> \in l /\ a \notin F /\ b \notin F
  BY DEF RemoveLRU
<1>2. t \in SUBSET (Frame \X Frame)
  BY DEF RemoveLRU
<1>3. InLRU(t) = InLRU(l) \ F
  BY <1>1 DEF InLRU
<1>4. InLRU(l) \subseteq Frame
  BY DEF InLRU
<1> HIDE DEF t
<1>5. ListOrder(l) => ListOrder(t)
  BY <1>1, <1>3, <1>4 DEF ListOrder
<1> QED BY <1>2, <1>3, <1>5 DEF t

\* A list that is not empty has a last member: one with the fewest behind it.
LEMMA LastOfList ==
  ASSUME NEW l, ListOrder(l), NEW S, S \subseteq InLRU(l), S # {}
  PROVE  \E f \in S : \A g \in S : <<g, f>> \in l
<1> DEFINE behind(f) == {g \in S : <<f, g>> \in l}
           ranks     == {Cardinality(behind(f)) : f \in S}
<1>1. IsFiniteSet(S)
  <2>1. S \subseteq 0 .. NumFrames - 1
    BY DEF InLRU, Frame
  <2>2. IsFiniteSet(0 .. NumFrames - 1)
    BY FS_Interval, PagingAssumption
  <2> QED BY <2>1, <2>2, FS_Subset
<1>2. \A f \in S : IsFiniteSet(behind(f)) /\ Cardinality(behind(f)) \in Nat
  <2> SUFFICES ASSUME NEW f \in S
               PROVE  IsFiniteSet(behind(f)) /\ Cardinality(behind(f)) \in Nat
    OBVIOUS
  <2>1. behind(f) \in SUBSET S
    OBVIOUS
  <2>2. IsFiniteSet(behind(f))
    BY <1>1, <2>1, FS_Subset
  <2> QED BY <2>2, FS_CardinalityType
<1>3. ranks \subseteq Nat /\ ranks # {}
  BY <1>2
<1> DEFINE less == {ss \in Nat \X Nat : ss[1] < ss[2]}
<1>4. PICK n \in ranks : \A m \in ranks : ~(<<m, n>> \in less)
  <2>1. IsWellFoundedOn(less, Nat)
    BY NatLessThanWellFounded DEF OpToRel
  <2> HIDE DEF ranks, less
  <2> QED BY <1>3, <2>1, WFMin
<1>5. PICK f \in S : n = Cardinality(behind(f))
  OBVIOUS
<1>6. \A m \in ranks : n <= m
  <2> HIDE DEF ranks
  <2>1. \A m, k \in Nat : ~(<<m, k>> \in less) => k <= m
    OBVIOUS
  <2> HIDE DEF less
  <2> QED BY <1>3, <1>4, <2>1
<1>7. ASSUME NEW g \in S, <<g, f>> \notin l PROVE FALSE
  <2>1. f \in InLRU(l) /\ g \in InLRU(l) /\ <<f, f>> \in l
    BY DEF InLRU
  <2>2. <<f, g>> \in l
    BY <1>7, <2>1 DEF ListOrder
  <2>3. behind(g) \in SUBSET behind(f)
    <3> SUFFICES ASSUME NEW h \in S, <<g, h>> \in l PROVE <<f, h>> \in l
      OBVIOUS
    <3> QED BY <2>1, <2>2 DEF ListOrder
  <2>4. f \in behind(f) /\ f \notin behind(g)
    BY <1>7, <2>1
  <2>5. behind(f) # behind(g)
    BY <2>4
  <2>6. /\ Cardinality(behind(g)) <= Cardinality(behind(f))
        /\ Cardinality(behind(f)) = Cardinality(behind(g)) => behind(f) = behind(g)
    <3> HIDE DEF behind
    <3> QED BY <1>2, <2>3, FS_Subset
  <2>7. Cardinality(behind(g)) \in ranks
    OBVIOUS
  <2>8. Cardinality(behind(f)) <= Cardinality(behind(g))
    BY <1>5, <1>6, <2>7
  <2> HIDE DEF behind
  <2> QED BY <1>2, <2>5, <2>6, <2>8
<1> QED BY <1>7

-----------------------------------------------------------------------------
(***************************************************************************)
(* The inductive invariant.                                                *)
(***************************************************************************)
\* p has a page table: it lives, or is being created.
Holds(p) == status[p] = "live" \/ (op.kind = "create" /\ op.pid = p)

\* A frame is in use when it is on the list, and when it is pinned or owned.
Frames ==
    \A f \in Frame :
        /\ physUsed[f] <=> f \in InLRU(lru)
        /\ physUsed[f] <=> f \in SharedFrames \/ physPageOwner[f] # NoOwner
        /\ f \in SharedFrames => physPageOwner[f] = NoOwner

\* A page owns one frame at most.  Its table shows the frame, unless a region
\* hides it, and it has no copy on disk.
Owners ==
    \A f \in Frame, p \in Pid, v \in VPage : physPageOwner[f] = <<p, v>> =>
        /\ Holds(p) \/ status[p] = "failed"
        /\ Holds(p) => /\ pageTable[p][v].isValid
                       /\ pageTable[p][v].physPage = f \/ ShowsRegion(p, v)
        /\ disk[p][v] = Absent
        /\ \A g \in Frame : physPageOwner[g] = <<p, v>> => g = f

\* A valid entry shows a frame the page owns, or the region mapped there.
Entries ==
    \A p \in Pid, v \in VPage :
        /\ pageTable[p][v].isValid <=> pageTable[p][v].physPage # UNMAPPED
        /\ pageTable[p][v].isValid =>
             /\ Holds(p)
             /\ IF ShowsRegion(p, v)
                THEN status[p] = "live" /\ v = SharedVBase + pageTable[p][v].physPage
                ELSE physPageOwner[pageTable[p][v].physPage] = <<p, v>>

\* Only the living have pages on disk.
Saved == \A p \in Pid, v \in VPage : disk[p][v] # Absent => status[p] = "live"

\* The pages a loop has still to fill are in use nowhere.
Unfilled ==
    /\ op.kind = "create" =>
         \A v \in VPage : pageTable[op.pid][v].isValid <=> v \in op.first .. op.next - 1
    /\ op.kind = "alloc" =>
         \A v \in op.next .. op.last : ~pageTable[op.pid][v].isValid /\ disk[op.pid][v] = Absent

IInv == TInv /\ Frames /\ Owners /\ Entries /\ Saved /\ Unfilled /\ ListOrder(lru)

\* The frame allocPhysPage or evictOnePage_ comes up with is no region's, and
\* a free one has no owner, so that there is nothing to evict from it.
LEMMA ChosenFrame ==
  ASSUME TypeOK, Frames, NEW f \in Frame, FirstFree(f) \/ LRUVictim(f)
  PROVE  /\ f \notin SharedFrames
         /\ FirstFree(f) => /\ physPageOwner[f] = NoOwner
                            /\ TableAfterEviction(f) = pageTable
                            /\ DiskAfterEviction(f) = disk
  BY DEF Frames, FirstFree, LRUVictim, TableAfterEviction, DiskAfterEviction, OwnerFound

\* A page that is not resident comes to stand in a frame: the end of a page
\* fault, or an iteration of the loops of creation and allocation.
LEMMA PlaceStep ==
  ASSUME IInv, NEW p \in Pid, NEW v \in VPage, NEW f \in Frame, NEW c \in Content,
         Holds(p), ~pageTable[p][v].isValid,
         FirstFree(f) \/ (LRUVictim(f) /\ op.kind # "create"),
         Wire(p, v, f, TableAfterEviction(f), c),
         \A q \in Pid, w \in VPage :
            disk'[q][w] = IF q = p /\ w = v THEN Absent ELSE DiskAfterEviction(f)[q][w],
         status' = status, \A q \in Pid : Holds(q)' <=> Holds(q)
  PROVE  /\ Frames' /\ Owners' /\ Entries' /\ Saved' /\ ListOrder(lru')
         /\ physUsed' \in [Frame -> BOOLEAN]
         /\ lru' \in SUBSET (Frame \X Frame)
         /\ physMem' \in [Frame -> Content]
         /\ pageTable' \in Table
         /\ physPageOwner' \in [Frame -> (Pid \X VPage) \cup {NoOwner}]
         /\ pageTable'[p][v].isValid
         /\ \A q \in Pid, w \in VPage : (q # p \/ w # v) /\ pageTable'[q][w].isValid
               => pageTable[q][w].isValid
         /\ FirstFree(f) => \A q \in Pid, w \in VPage :
               q # p \/ w # v => pageTable'[q][w] = pageTable[q][w]
<1> DEFINE T == TableAfterEviction(f)
           D == DiskAfterEviction(f)
           mine(q, w) == physPageOwner[f] = <<q, w>> /\ status[q] = "live"
<1>1. TypeOK /\ Frames /\ Owners /\ Entries /\ Saved /\ ListOrder(lru)
  BY DEF IInv, TInv
<1>2. /\ f \notin SharedFrames
      /\ FirstFree(f) => physPageOwner[f] = NoOwner
  BY <1>1, ChosenFrame
<1>3. /\ T \in Table
      /\ \A q \in Pid, w \in VPage :
           /\ mine(q, w) => T[q][w].physPage = UNMAPPED /\ ~T[q][w].isValid
           /\ ~mine(q, w) => T[q][w] = pageTable[q][w] /\ D[q][w] = disk[q][w]
  BY <1>1, EvictionFacts
<1>4. /\ \A g \in Frame :
           /\ physUsed'[g] <=> physUsed[g] \/ g = f
           /\ physPageOwner'[g] = IF g = f THEN <<p, v>> ELSE physPageOwner[g]
      /\ \A q \in Pid, w \in VPage : q # p \/ w # v => pageTable'[q][w] = T[q][w]
      /\ pageTable'[p][v].physPage = f
      /\ pageTable'[p][v].isValid
      /\ physUsed' \in [Frame -> BOOLEAN] /\ physMem' \in [Frame -> Content]
      /\ pageTable' \in Table
      /\ physPageOwner' \in [Frame -> (Pid \X VPage) \cup {NoOwner}]
  BY <1>1, <1>3, WireFacts
<1>5. /\ InLRU(lru') = InLRU(lru) \cup {f}
      /\ lru' \in SUBSET (Frame \X Frame)
      /\ ListOrder(lru')
  BY <1>1, TouchFacts DEF Wire, TypeOK
<1>6. Frames'
  BY <1>1, <1>2, <1>4, <1>5, PageFacts DEF Frames
<1>7. \A g \in Frame : physPageOwner[g] # <<p, v>>
  BY <1>1 DEF Owners
<1>8. \A q \in Pid, w \in VPage : physPageOwner[f] = <<q, w>> => mine(q, w) \/ status[q] = "failed"
  BY <1>1, <1>2, PageFacts DEF Owners, Holds
<1> HIDE DEF T, D
<1>9. \A q \in Pid, w \in VPage : disk'[q][w] =
        IF q = p /\ w = v THEN Absent ELSE D[q][w]
  BY DEF D
<1>10. Owners'
  <2> SUFFICES ASSUME NEW g \in Frame, NEW q \in Pid, NEW w \in VPage,
                      physPageOwner'[g] = <<q, w>>
               PROVE  /\ Holds(q)' \/ status'[q] = "failed"
                      /\ Holds(q)' => /\ pageTable'[q][w].isValid
                                      /\ pageTable'[q][w].physPage = g \/ ShowsRegion(q, w)'
                      /\ disk'[q][w] = Absent
                      /\ \A h \in Frame : physPageOwner'[h] = <<q, w>> => h = g
    BY DEF Owners
  <2>1. CASE g = f
    <3>1. q = p /\ w = v
      BY <1>4, <2>1
    <3> QED BY <1>4, <1>7, <1>9, <2>1, <3>1
  <2>2. CASE g # f
    <3>1. physPageOwner[g] = <<q, w>> /\ (q # p \/ w # v)
      BY <1>4, <1>7, <2>2
    <3>2. /\ Holds(q) \/ status[q] = "failed"
          /\ Holds(q) => /\ pageTable[q][w].isValid
                         /\ pageTable[q][w].physPage = g \/ ShowsRegion(q, w)
          /\ disk[q][w] = Absent
          /\ \A h \in Frame : physPageOwner[h] = <<q, w>> => h = g
      BY <1>1, <3>1 DEF Owners
    <3>3. ~mine(q, w)
      BY <2>2, <3>2
    <3>4. pageTable'[q][w] = pageTable[q][w] /\ disk'[q][w] = Absent
      BY <1>3, <1>4, <1>9, <3>1, <3>2, <3>3
    <3>5. \A h \in Frame : physPageOwner'[h] = <<q, w>> => h = g
      BY <1>4, <3>1, <3>2
    <3> QED BY <3>2, <3>4, <3>5 DEF ShowsRegion
  <2> QED BY <2>1, <2>2
<1>11. Entries'
  <2> SUFFICES ASSUME NEW q \in Pid, NEW w \in VPage
               PROVE  /\ pageTable'[q][w].isValid <=> pageTable'[q][w].physPage # UNMAPPED
                      /\ pageTable'[q][w].isValid =>
                          /\ Holds(q)'
                          /\ IF ShowsRegion(q, w)'
                             THEN status'[q] = "live" /\ w = SharedVBase + pageTable'[q][w].physPage
                             ELSE physPageOwner'[pageTable'[q][w].physPage] = <<q, w>>
    BY DEF Entries, UNMAPPED
  <2>1. CASE q = p /\ w = v
    BY <1>2, <1>4, <2>1, PageFacts DEF ShowsRegion
  <2>2. CASE (q # p \/ w # v) /\ mine(q, w)
    BY <1>3, <1>4, <2>2
  <2>3. CASE (q # p \/ w # v) /\ ~mine(q, w)
    <3>1. pageTable'[q][w] = pageTable[q][w]
      BY <1>3, <1>4, <2>3
    <3>2. /\ pageTable[q][w].isValid <=> pageTable[q][w].physPage # UNMAPPED
          /\ pageTable[q][w].isValid =>
               /\ Holds(q)
               /\ IF ShowsRegion(q, w)
                  THEN status[q] = "live" /\ w = SharedVBase + pageTable[q][w].physPage
                  ELSE physPageOwner[pageTable[q][w].physPage] = <<q, w>>
      BY <1>1 DEF Entries
    <3>3. pageTable[q][w].physPage \in Frame \cup {UNMAPPED}
      BY <1>1 DEF TypeOK, Entry
    <3>4. pageTable[q][w].isValid /\ ~ShowsRegion(q, w) =>
             /\ pageTable[q][w].physPage \in Frame
             /\ pageTable[q][w].physPage # f
             /\ physPageOwner'[pageTable[q][w].physPage] = <<q, w>>
      <4> SUFFICES ASSUME pageTable[q][w].isValid, ~ShowsRegion(q, w)
                   PROVE  /\ pageTable[q][w].physPage \in Frame
                          /\ pageTable[q][w].physPage # f
                          /\ physPageOwner'[pageTable[q][w].physPage] = <<q, w>>
        OBVIOUS
      <4>1. pageTable[q][w].physPage \in Frame
        BY <3>2, <3>3
      <4>2. status[q] # "failed"
        BY <1>1, <3>2 DEF Holds, IInv, TInv, Bounds
      <4>3. pageTable[q][w].physPage # f
        BY <1>8, <2>3, <3>2, <4>2
      <4> QED BY <1>4, <3>2, <4>1, <4>3
    <3>5. ShowsRegion(q, w)' <=> ShowsRegion(q, w)
      BY <3>1 DEF ShowsRegion
    <3> QED BY <3>1, <3>2, <3>4, <3>5
  <2> QED BY <2>1, <2>2, <2>3
<1>12. Saved'
  <2> SUFFICES ASSUME NEW q \in Pid, NEW w \in VPage, disk'[q][w] # Absent
               PROVE  status[q] = "live"
    BY DEF Saved
  <2> QED BY <1>1, <1>3, <1>9 DEF Saved
<1>13. \A q \in Pid, w \in VPage : (q # p \/ w # v) /\ pageTable'[q][w].isValid
         => pageTable[q][w].isValid
  BY <1>3, <1>4
<1>14. FirstFree(f) => \A q \in Pid, w \in VPage :
         q # p \/ w # v => pageTable'[q][w] = pageTable[q][w]
  <2> SUFFICES ASSUME FirstFree(f) PROVE T = pageTable
    BY <1>4
  <2> QED BY <1>1, ChosenFrame DEF T
<1> QED BY <1>4, <1>5, <1>6, <1>10, <1>11, <1>12, <1>13, <1>14

\* Frames are given back: those that p owns for the pages of P, all of them,
\* and the pages vanish from its table and from the disk.
LEMMA GiveBackStep ==
  ASSUME IInv, NEW p \in Pid, NEW P \in SUBSET VPage, NEW F \in SUBSET Frame,
         \A f \in Frame : f \in F <=> \E w \in P : physPageOwner[f] = <<p, w>>,
         GiveBack(F),
         \A q \in Pid, w \in VPage :
            IF q = p /\ w \in P
            THEN pageTable'[q][w] = NoEntry /\ disk'[q][w] = Absent
            ELSE /\ pageTable'[q][w] = pageTable[q][w] /\ disk'[q][w] = disk[q][w]
                 /\ status'[q] = status[q] /\ (Holds(q)' <=> Holds(q))
  PROVE  Frames' /\ Owners' /\ Entries' /\ Saved' /\ ListOrder(lru')
<1> DEFINE freed(q, w) == q = p /\ w \in P
<1>1. TypeOK /\ Frames /\ Owners /\ Entries /\ Saved /\ ListOrder(lru)
  BY DEF IInv, TInv
<1>2. \A g \in Frame :
        /\ physUsed'[g] <=> physUsed[g] /\ g \notin F
        /\ physPageOwner'[g] = IF g \in F THEN NoOwner ELSE physPageOwner[g]
  BY DEF GiveBack
<1>3. InLRU(lru') = InLRU(lru) \ F /\ ListOrder(lru')
  BY <1>1, RemoveFacts DEF GiveBack, TypeOK
<1>4. \A g \in F : g \notin SharedFrames
  <2> SUFFICES ASSUME NEW g \in F PROVE g \notin SharedFrames
    OBVIOUS
  <2>1. PICK w \in P : physPageOwner[g] = <<p, w>>
    OBVIOUS
  <2>2. physPageOwner[g] # NoOwner
    BY <2>1, PageFacts
  <2> QED BY <1>1, <2>2 DEF Frames
<1>5. Frames'
  <2> SUFFICES ASSUME NEW g \in Frame
               PROVE  /\ physUsed'[g] <=> g \in InLRU(lru')
                      /\ physUsed'[g] <=> g \in SharedFrames \/ physPageOwner'[g] # NoOwner
                      /\ g \in SharedFrames => physPageOwner'[g] = NoOwner
    BY DEF Frames
  <2>1. /\ physUsed[g] <=> g \in InLRU(lru)
        /\ physUsed[g] <=> g \in SharedFrames \/ physPageOwner[g] # NoOwner
        /\ g \in SharedFrames => physPageOwner[g] = NoOwner
    BY <1>1 DEF Frames
  <2> QED BY <1>2, <1>3, <1>4, <2>1
<1>6. \A g \in Frame, q \in Pid, w \in VPage :
        physPageOwner'[g] = <<q, w>> => physPageOwner[g] = <<q, w>> /\ ~freed(q, w)
  <2> SUFFICES ASSUME NEW g \in Frame, NEW q \in Pid, NEW w \in VPage,
                      physPageOwner'[g] = <<q, w>>
               PROVE  physPageOwner[g] = <<q, w>> /\ ~freed(q, w)
    OBVIOUS
  <2>1. <<q, w>> # NoOwner
    BY PageFacts
  <2>2. g \notin F
    BY <1>2, <2>1
  <2> QED BY <1>2, <2>2
<1>7. \A q \in Pid, w \in VPage :
        /\ freed(q, w) => pageTable'[q][w] = NoEntry /\ disk'[q][w] = Absent
        /\ ~freed(q, w) => /\ pageTable'[q][w] = pageTable[q][w]
                           /\ disk'[q][w] = disk[q][w]
                           /\ status'[q] = status[q] /\ (Holds(q)' <=> Holds(q))
                           /\ ShowsRegion(q, w)' <=> ShowsRegion(q, w)
  BY DEF ShowsRegion
<1> HIDE DEF freed
<1>8. Owners'
  <2> SUFFICES ASSUME NEW g \in Frame, NEW q \in Pid, NEW w \in VPage,
                      physPageOwner'[g] = <<q, w>>
               PROVE  /\ Holds(q)' \/ status'[q] = "failed"
                      /\ Holds(q)' => /\ pageTable'[q][w].isValid
                                      /\ pageTable'[q][w].physPage = g \/ ShowsRegion(q, w)'
                      /\ disk'[q][w] = Absent
                      /\ \A h \in Frame : physPageOwner'[h] = <<q, w>> => h = g
    BY DEF Owners
  <2>1. physPageOwner[g] = <<q, w>> /\ ~freed(q, w)
    BY <1>6
  <2>2. /\ Holds(q) \/ status[q] = "failed"
        /\ Holds(q) => /\ pageTable[q][w].isValid
                       /\ pageTable[q][w].physPage = g \/ ShowsRegion(q, w)
        /\ disk[q][w] = Absent
        /\ \A h \in Frame : physPageOwner[h] = <<q, w>> => h = g
    BY <1>1, <2>1 DEF Owners
  <2>3. \A h \in Frame : physPageOwner'[h] = <<q, w>> => h = g
    BY <1>6, <2>2
  <2> QED BY <1>7, <2>1, <2>2, <2>3
<1>9. Entries'
  <2> SUFFICES ASSUME NEW q \in Pid, NEW w \in VPage
               PROVE  /\ pageTable'[q][w].isValid <=> pageTable'[q][w].physPage # UNMAPPED
                      /\ pageTable'[q][w].isValid =>
                          /\ Holds(q)'
                          /\ IF ShowsRegion(q, w)'
                             THEN status'[q] = "live" /\ w = SharedVBase + pageTable'[q][w].physPage
                             ELSE physPageOwner'[pageTable'[q][w].physPage] = <<q, w>>
    BY DEF Entries, UNMAPPED
  <2>1. CASE freed(q, w)
    BY <1>7, <2>1 DEF NoEntry
  <2>2. CASE ~freed(q, w)
    <3>1. /\ pageTable[q][w].isValid <=> pageTable[q][w].physPage # UNMAPPED
          /\ pageTable[q][w].isValid =>
               /\ Holds(q)
               /\ IF ShowsRegion(q, w)
                  THEN status[q] = "live" /\ w = SharedVBase + pageTable[q][w].physPage
                  ELSE physPageOwner[pageTable[q][w].physPage] = <<q, w>>
      BY <1>1 DEF Entries
    <3>2. pageTable[q][w].physPage \in Frame \cup {UNMAPPED}
      BY <1>1 DEF TypeOK, Entry
    <3>3. \A g \in Frame : physPageOwner[g] = <<q, w>> => physPageOwner'[g] = <<q, w>>
      <4> SUFFICES ASSUME NEW g \in Frame, physPageOwner[g] = <<q, w>> PROVE g \notin F
        BY <1>2
      <4> QED BY <2>2 DEF freed
    <3> QED BY <1>7, <2>2, <3>1, <3>2, <3>3
  <2> QED BY <2>1, <2>2
<1>10. Saved'
  <2> SUFFICES ASSUME NEW q \in Pid, NEW w \in VPage, disk'[q][w] # Absent
               PROVE  status'[q] = "live"
    BY DEF Saved
  <2> QED BY <1>1, <1>7 DEF Saved
<1> QED BY <1>3, <1>5, <1>8, <1>9, <1>10

-----------------------------------------------------------------------------
(***************************************************************************)
(* The invariant holds initially, and every action preserves it.           *)
(***************************************************************************)
LEMMA InitIInv == Init => IInv
<1> SUFFICES ASSUME Init PROVE IInv
  OBVIOUS
<1>1. NoEntry \in Entry /\ ~NoEntry.isValid /\ NoEntry.physPage = UNMAPPED
  BY DEF NoEntry, Entry
<1>2. \A p \in Pid, v \in VPage :
        /\ ~pageTable[p][v].isValid /\ pageTable[p][v].physPage = UNMAPPED
        /\ disk[p][v] = Absent
  BY <1>1 DEF Init
<1>3. \A f \in Frame : physPageOwner[f] = NoOwner /\ (physUsed[f] <=> f \in SharedFrames)
  BY DEF Init
<1>4. \A f, g \in Frame :
        <<f, g>> \in lru <=> f \in SharedFrames /\ g \in SharedFrames /\ f >= g
  BY DEF Init
<1>5. op.kind = "none"
  BY DEF Init, Idle
<1>6. TypeOK
  <2>1. lru \in SUBSET (Frame \X Frame)
    BY PageFacts DEF Init
  <2>2. 0 \in 0 .. MaxCode /\ 0 \in Nat
    BY PagingAssumption
  <2> QED BY <1>1, <2>1, <2>2, PageFacts DEF Init, TypeOK
<1>7. Bounds
  <2>1. \A p \in Pid, v \in HeapPages : heapAllocations[p][v] = 0
    BY DEF Init
  <2>2. \A v \in HeapPages : v + 0 - 1 <= HeapLast
    BY PagingAssumption DEF HeapPages
  <2> QED BY <1>5, <2>1, <2>2 DEF Bounds
<1>8. \A f \in Frame : f >= f
  BY DEF Frame
<1>9. InLRU(lru) = SharedFrames
  BY <1>4, <1>8, PageFacts DEF InLRU
<1>10. Frames
  BY <1>3, <1>9 DEF Frames
<1>11. Owners
  BY <1>3, PageFacts DEF Owners
<1>12. Entries
  BY <1>2 DEF Entries
<1>13. Saved /\ Unfilled
  BY <1>2, <1>5 DEF Saved, Unfilled
<1>14. ListOrder(lru)
  <2>1. SharedFrames \subseteq Nat
    BY DEF SharedFrames, Region
  <2>2. \A f, g \in SharedFrames : <<f, g>> \in lru <=> f >= g
    BY <1>4, PageFacts
  <2>3. \A f, g \in Frame : <<f, g>> \in lru => f \in SharedFrames /\ g \in SharedFrames
    BY <1>4
  <2>4. \A f, g \in SharedFrames : f >= g \/ g >= f
    BY <2>1
  <2>5. \A f, g \in SharedFrames : f >= g /\ g >= f => f = g
    BY <2>1
  <2>6. \A f, g, h \in SharedFrames : f >= g /\ g >= h => f >= h
    BY <2>1
  <2> QED BY <1>9, <2>2, <2>3, <2>4, <2>5, <2>6 DEF ListOrder
<1> QED BY <1>6, <1>7, <1>10, <1>11, <1>12, <1>13, <1>14 DEF IInv, TInv

\* An iteration of a loop.
LEMMA OpAdvances ==
  ASSUME TypeOK, op # Idle, op' = [op EXCEPT !.next = @ + 1]
  PROVE  /\ op' \in OpType
         /\ op'.kind = op.kind /\ op'.pid = op.pid /\ op'.first = op.first
         /\ op'.last = op.last /\ op'.next = op.next + 1
<1>1. op \in OpType
  BY DEF TypeOK
<1> QED BY <1>1 DEF OpType

LEMMA CreateBeginIInv ==
  ASSUME IInv, NEW p \in Pid, NEW n \in 1 .. MaxCode, CreateBegin(p, n)
  PROVE  IInv'
<1> USE DEF CreateBegin
<1>1. TypeOK /\ Bounds /\ Frames /\ Owners /\ Entries /\ Saved /\ ListOrder(lru)
  BY DEF IInv, TInv
<1>2. /\ CodeFirst \in Nat /\ CodeFirst + n - 1 \in CodePages
      /\ CodeFirst + n - 1 \in Nat /\ n \in 0 .. MaxCode
      /\ CodeFirst \in CodeFirst .. (CodeFirst + n - 1) + 1
  BY PagingAssumption DEF CodePages
<1>3. op.kind = "none" /\ op'.kind = "create" /\ op'.pid = p
  BY DEF Idle
<1>4. TypeOK'
  <2>1. op' \in OpType
    BY <1>2 DEF OpType
  <2> QED BY <1>1, <1>2, <2>1 DEF TypeOK
<1>5. Bounds'
  BY <1>1, <1>2 DEF Bounds
<1>6. ~Holds(p) /\ \A q \in Pid : q # p => (Holds(q)' <=> Holds(q))
  BY <1>3 DEF Holds
<1>7. status[p] = "none"
  OBVIOUS
<1>8. (\A f \in Frame, v \in VPage : physPageOwner[f] # <<p, v>>)
  BY <1>1, <1>6, <1>7 DEF Owners
<1>9. \A v \in VPage : ~pageTable[p][v].isValid
  BY <1>1, <1>6 DEF Entries
<1>10. Owners'
  BY <1>1, <1>6, <1>8 DEF Owners, ShowsRegion
<1>11. Entries'
  BY <1>1, <1>6, <1>9 DEF Entries, ShowsRegion
<1>12. Unfilled'
  <2>1. \A v \in VPage : v \notin CodeFirst .. CodeFirst - 1
    BY PagingAssumption
  <2> QED BY <1>3, <1>9, <2>1 DEF Unfilled
<1> QED BY <1>1, <1>4, <1>5, <1>10, <1>11, <1>12 DEF IInv, TInv, Frames, Saved

LEMMA CreatePageIInv == ASSUME IInv, CreatePage PROVE IInv'
<1> DEFINE p == op.pid
           v == op.next
<1>1. TypeOK /\ Bounds /\ Frames /\ Saved /\ Unfilled
  BY DEF IInv, TInv
<1>2. op.kind = "create" /\ op # Idle /\ op.next <= op.last
  BY DEF CreatePage, Idle
<1>3. /\ p \in Pid /\ op.first \in Nat /\ op.next \in Nat /\ op.last \in Nat
      /\ status[p] = "none"
  BY <1>1, <1>2, OpFields DEF Bounds
<1>4. v \in CodePages /\ v \in VPage
  <2>1. v \in CodePages
    BY <1>1, <1>2, <1>3, PagingAssumption DEF Bounds, CodePages
  <2> QED BY <2>1, PageFacts
<1>5. PICK f \in Frame : FirstFree(f) /\ Wire(p, v, f, pageTable, Zero)
  BY DEF CreatePage
<1>6. /\ op' \in OpType
      /\ op'.kind = op.kind /\ op'.pid = op.pid /\ op'.first = op.first
      /\ op'.last = op.last /\ op'.next = op.next + 1
  BY <1>1, <1>2, OpAdvances DEF CreatePage
<1>7. Holds(p) /\ \A q \in Pid : Holds(q)' <=> Holds(q)
  BY <1>2, <1>6 DEF Holds, CreatePage
<1>8. \A w \in VPage : pageTable[p][w].isValid <=> w \in op.first .. op.next - 1
  BY <1>1, <1>2 DEF Unfilled
<1>9. ~pageTable[p][v].isValid
  BY <1>3, <1>4, <1>8
<1>10. TableAfterEviction(f) = pageTable /\ DiskAfterEviction(f) = disk
  BY <1>1, <1>5, ChosenFrame
<1>11. \A q \in Pid, w \in VPage :
         disk'[q][w] = IF q = p /\ w = v THEN Absent ELSE DiskAfterEviction(f)[q][w]
  BY <1>1, <1>3, <1>10 DEF Saved, CreatePage
<1>12. Wire(p, v, f, TableAfterEviction(f), Zero)
  BY <1>5, <1>10
<1>13. status' = status
  BY DEF CreatePage
<1> HIDE DEF p, v
<1>14. /\ Frames' /\ Owners' /\ Entries' /\ Saved' /\ ListOrder(lru')
       /\ physUsed' \in [Frame -> BOOLEAN]
       /\ lru' \in SUBSET (Frame \X Frame)
       /\ physMem' \in [Frame -> Content]
       /\ pageTable' \in Table
       /\ physPageOwner' \in [Frame -> (Pid \X VPage) \cup {NoOwner}]
       /\ pageTable'[p][v].isValid
       /\ \A q \in Pid, w \in VPage : q # p \/ w # v => pageTable'[q][w] = pageTable[q][w]
  BY <1>3, <1>4, <1>5, <1>7, <1>9, <1>11, <1>12, <1>13, PlaceStep, PageFacts
<1>15. TypeOK'
  BY <1>1, <1>6, <1>14 DEF TypeOK, Table, CreatePage
<1>16. Bounds'
  <2>1. op'.next \in op'.first .. op'.last + 1
    BY <1>1, <1>2, <1>3, <1>6 DEF Bounds
  <2> QED BY <1>1, <1>2, <1>6, <2>1 DEF Bounds, CreatePage
<1>17. Unfilled'
  <2>1. \A w \in VPage : w \in op.first .. (op.next + 1) - 1
                            <=> w \in op.first .. op.next - 1 \/ w = v
    BY <1>1, <1>2, <1>3, PageFacts DEF Bounds, v
  <2>2. \A w \in VPage : pageTable'[p][w].isValid <=> w \in op.first .. op.next - 1 \/ w = v
    BY <1>3, <1>8, <1>14
  <2> QED BY <1>2, <1>6, <2>1, <2>2 DEF Unfilled, p
<1> QED BY <1>14, <1>15, <1>16, <1>17 DEF IInv, TInv

LEMMA CreateFailsIInv == ASSUME IInv, CreateFails PROVE IInv'
<1>1. TypeOK /\ Bounds /\ Frames /\ Owners /\ Entries /\ Saved /\ ListOrder(lru)
  BY DEF IInv, TInv
<1>2. PICK p \in Pid : op.kind = "create" /\ p = op.pid /\ status[p] = "none"
  BY <1>1, OpFields DEF CreateFails, Idle, Bounds
<1>3. op' = Idle /\ op'.kind = "none"
  BY DEF CreateFails, Idle
<1>4. NoEntry \in Entry /\ ~NoEntry.isValid /\ NoEntry.physPage = UNMAPPED
  BY DEF NoEntry, Entry
<1>5. /\ pageTable' = [pageTable EXCEPT ![p] = [v \in VPage |-> NoEntry]]
      /\ status' = [status EXCEPT ![p] = "failed"]
      /\ UNCHANGED <<physUsed, lru, physMem, physPageOwner, disk, heapAllocations, codePages>>
  BY <1>2 DEF CreateFails
<1>6. TypeOK'
  BY <1>1, <1>2, <1>3, <1>4, <1>5 DEF TypeOK
<1>7. Bounds' /\ Unfilled'
  BY <1>1, <1>3, <1>5 DEF Bounds, Unfilled
<1>8. \A q \in Pid :
        /\ status'[q] = IF q = p THEN "failed" ELSE status[q]
        /\ q # p => (Holds(q)' <=> Holds(q))
  BY <1>1, <1>2, <1>3, <1>5 DEF Holds, TypeOK
<1>9. ~Holds(p)'
  BY <1>2, <1>3, <1>8 DEF Holds
<1>10. \A q \in Pid, w \in VPage :
        /\ q # p => pageTable'[q][w] = pageTable[q][w]
        /\ ~pageTable'[p][w].isValid /\ pageTable'[p][w].physPage = UNMAPPED
  BY <1>1, <1>2, <1>4, <1>5 DEF TypeOK
<1>11. Owners'
  BY <1>1, <1>5, <1>8, <1>9, <1>10 DEF Owners, ShowsRegion
<1>12. Entries'
  BY <1>1, <1>5, <1>8, <1>10 DEF Entries, ShowsRegion, UNMAPPED
<1>13. Saved'
  BY <1>1, <1>2, <1>5, <1>8 DEF Saved
<1> QED BY <1>1, <1>5, <1>6, <1>7, <1>11, <1>12, <1>13 DEF IInv, TInv, Frames

\* What the maps of pages to frames say of each other stays true when a step
\* changes neither, whatever it does to frames and to dirty bits.
LEMMA SameMaps ==
  ASSUME IInv, physPageOwner' = physPageOwner, disk' = disk,
         \A q \in Pid, w \in VPage :
            /\ pageTable'[q][w].isValid <=> pageTable[q][w].isValid
            /\ pageTable'[q][w].physPage = pageTable[q][w].physPage,
         \A q \in Pid : /\ Holds(q)' <=> Holds(q)
                        /\ status'[q] = status[q] \/ status'[q] = "live"
  PROVE  Owners' /\ Entries' /\ Saved'
<1>1. Owners /\ Entries /\ Saved
  BY DEF IInv
<1>2. \A q \in Pid, w \in VPage : ShowsRegion(q, w)' <=> ShowsRegion(q, w)
  BY DEF ShowsRegion
<1>3. \A q \in Pid : status'[q] = "failed" => status[q] = "failed"
  OBVIOUS
<1>4. Owners'
  <2> SUFFICES ASSUME NEW g \in Frame, NEW q \in Pid, NEW w \in VPage,
                      physPageOwner[g] = <<q, w>>
               PROVE  /\ Holds(q)' \/ status'[q] = "failed"
                      /\ Holds(q)' => /\ pageTable'[q][w].isValid
                                      /\ pageTable'[q][w].physPage = g \/ ShowsRegion(q, w)'
                      /\ disk[q][w] = Absent
                      /\ \A h \in Frame : physPageOwner[h] = <<q, w>> => h = g
    BY DEF Owners
  <2>1. /\ Holds(q) \/ status[q] = "failed"
        /\ Holds(q) => /\ pageTable[q][w].isValid
                       /\ pageTable[q][w].physPage = g \/ ShowsRegion(q, w)
        /\ disk[q][w] = Absent
        /\ \A h \in Frame : physPageOwner[h] = <<q, w>> => h = g
    BY <1>1 DEF Owners
  <2>2. Holds(q)' \/ status'[q] = "failed"
    BY <2>1 DEF Holds
  <2> QED BY <1>2, <2>1, <2>2
<1>5. Entries'
  <2> SUFFICES ASSUME NEW q \in Pid, NEW w \in VPage
               PROVE  /\ pageTable'[q][w].isValid <=> pageTable'[q][w].physPage # UNMAPPED
                      /\ pageTable'[q][w].isValid =>
                          /\ Holds(q)'
                          /\ IF ShowsRegion(q, w)'
                             THEN status'[q] = "live" /\ w = SharedVBase + pageTable'[q][w].physPage
                             ELSE physPageOwner[pageTable'[q][w].physPage] = <<q, w>>
    BY DEF Entries, UNMAPPED
  <2>1. /\ pageTable[q][w].isValid <=> pageTable[q][w].physPage # UNMAPPED
        /\ pageTable[q][w].isValid =>
             /\ Holds(q)
             /\ IF ShowsRegion(q, w)
                THEN status[q] = "live" /\ w = SharedVBase + pageTable[q][w].physPage
                ELSE physPageOwner[pageTable[q][w].physPage] = <<q, w>>
    BY <1>1 DEF Entries
  <2> QED BY <1>2, <2>1
<1>6. Saved'
  BY <1>1 DEF Saved
<1> QED BY <1>4, <1>5, <1>6

\* loadIntoMemory, place by place.
LEMMA CreateDoneFacts ==
  ASSUME IInv, NEW c \in Values, CreateDone(c)
  PROVE  LET p == op.pid IN
         /\ op.kind = "create" /\ p \in Pid /\ status[p] = "none"
         /\ op.first .. op.last \subseteq CodePages
         /\ \A w \in VPage : pageTable[p][w].isValid <=> w \in op.first .. op.last
         /\ op' = Idle
         /\ physMem' \in [Frame -> Content] /\ pageTable' \in Table
         /\ \A q \in Pid, w \in VPage :
              /\ pageTable'[q][w].isValid <=> pageTable[q][w].isValid
              /\ pageTable'[q][w].physPage = pageTable[q][w].physPage
              /\ pageTable'[q][w].isDirty <=> pageTable[q][w].isDirty \/ (q = p /\ w \in op.first .. op.last)
         /\ \A q \in Pid : status'[q] = IF q = p THEN "live" ELSE status[q]
<1> DEFINE p == op.pid
           code == op.first .. op.last
<1>1. TypeOK /\ Bounds /\ Unfilled
  BY DEF IInv, TInv
<1>2. op.kind = "create" /\ op # Idle /\ p \in Pid /\ status[p] = "none"
  BY <1>1, OpFields DEF CreateDone, Idle, Bounds
<1>3. op.first \in Nat /\ op.last \in Nat /\ op.next \in Nat /\ op.next = op.last + 1
  BY <1>1, <1>2, OpFields DEF CreateDone, Bounds
<1>4. code \subseteq CodePages
  BY <1>1, <1>2, <1>3, PagingAssumption DEF Bounds, CodePages
<1>5. op.first .. op.next - 1 = code
  BY <1>3
<1>6. \A w \in VPage : pageTable[p][w].isValid <=> w \in code
  BY <1>1, <1>2, <1>5 DEF Unfilled
<1>7. /\ physMem' = [f \in Frame |-> IF \E v \in code : pageTable[p][v].physPage = f
                                     THEN c ELSE physMem[f]]
      /\ pageTable' = [pageTable EXCEPT ![p] =
                         [v \in VPage |-> IF v \in code
                                          THEN [pageTable[p][v] EXCEPT !.isDirty = TRUE]
                                          ELSE pageTable[p][v]]]
      /\ status' = [status EXCEPT ![p] = "live"]
      /\ op' = Idle
  BY <1>1, <1>2 DEF CreateDone, TypeOK
<1> DEFINE dirty(e) == [e EXCEPT !.isDirty = TRUE]
<1>8. \A e \in Entry : /\ dirty(e) \in Entry /\ dirty(e).isDirty
                       /\ (dirty(e).isValid <=> e.isValid) /\ dirty(e).physPage = e.physPage
  BY DEF Entry
<1>9. \A q \in Pid, w \in VPage : pageTable[q][w] \in Entry
  BY <1>1 DEF TypeOK
<1>10. pageTable' = [pageTable EXCEPT ![p] =
           [v \in VPage |-> IF v \in code THEN dirty(pageTable[p][v]) ELSE pageTable[p][v]]]
  BY <1>7
<1> HIDE DEF p, code, dirty
<1>11. physMem' \in [Frame -> Content]
  BY <1>1, <1>7 DEF TypeOK, Content
<1>12. \A q \in Pid, w \in VPage :
         pageTable'[q][w] = IF q = p /\ w \in code THEN dirty(pageTable[q][w]) ELSE pageTable[q][w]
  BY <1>1, <1>2, <1>10 DEF TypeOK
<1>13. pageTable' \in Table
  BY <1>1, <1>2, <1>8, <1>9, <1>10 DEF TypeOK, Table
<1>14. \A q \in Pid : status'[q] = IF q = p THEN "live" ELSE status[q]
  BY <1>1, <1>2, <1>7 DEF TypeOK
<1>15. \A q \in Pid, w \in VPage :
              /\ pageTable'[q][w].isValid <=> pageTable[q][w].isValid
              /\ pageTable'[q][w].physPage = pageTable[q][w].physPage
              /\ pageTable'[q][w].isDirty <=> pageTable[q][w].isDirty \/ (q = p /\ w \in code)
  BY <1>8, <1>9, <1>12 DEF Entry
<1> QED BY <1>2, <1>4, <1>6, <1>7, <1>11, <1>13, <1>14, <1>15 DEF p, code

LEMMA CreateDoneIInv == ASSUME IInv, NEW c \in Values, CreateDone(c) PROVE IInv'
<1> DEFINE p == op.pid
<1>1. TypeOK /\ Bounds /\ Frames /\ Owners /\ Entries /\ Saved /\ ListOrder(lru)
  BY DEF IInv, TInv
<1>2. /\ op.kind = "create" /\ p \in Pid /\ status[p] = "none" /\ op' = Idle
      /\ physMem' \in [Frame -> Content] /\ pageTable' \in Table
      /\ \A q \in Pid, w \in VPage :
           /\ pageTable'[q][w].isValid <=> pageTable[q][w].isValid
           /\ pageTable'[q][w].physPage = pageTable[q][w].physPage
      /\ \A q \in Pid : status'[q] = IF q = p THEN "live" ELSE status[q]
  BY CreateDoneFacts
<1>3. /\ UNCHANGED <<physUsed, lru, physPageOwner, disk, heapAllocations, codePages>>
      /\ status' = [status EXCEPT ![p] = "live"]
  BY DEF CreateDone
<1>4. op'.kind = "none"
  BY <1>2 DEF Idle
<1>5. \A q \in Pid : Holds(q)' <=> Holds(q)
  BY <1>2, <1>4 DEF Holds
<1> HIDE DEF p
<1>6. TypeOK'
  BY <1>1, <1>2, <1>3 DEF TypeOK, Table
<1>7. Bounds' /\ Unfilled'
  BY <1>1, <1>3, <1>4 DEF Bounds, Unfilled
<1>8. Owners' /\ Entries' /\ Saved'
  BY <1>2, <1>3, <1>5, SameMaps
<1> QED BY <1>1, <1>3, <1>6, <1>7, <1>8 DEF IInv, TInv, Frames

\* A frame that a table shows is in use, so that a touch only moves it.
LEMMA ShownFrame ==
  ASSUME IInv, NEW p \in Pid, NEW v \in VPage, pageTable[p][v].isValid
  PROVE  pageTable[p][v].physPage \in Frame /\ pageTable[p][v].physPage \in InLRU(lru)
<1>1. TypeOK /\ Frames /\ Entries
  BY DEF IInv, TInv
<1>2. pageTable[p][v].physPage \in Frame
  BY <1>1 DEF TypeOK, Entry, Entries
<1>3. \/ pageTable[p][v].physPage \in SharedFrames
      \/ physPageOwner[pageTable[p][v].physPage] # NoOwner
  <2>1. <<p, v>> # NoOwner
    BY PageFacts
  <2> QED BY <1>1, <2>1 DEF Entries, ShowsRegion
<1> QED BY <1>1, <1>2, <1>3 DEF Frames

LEMMA ReadIInv ==
  ASSUME IInv, NEW p \in Pid, NEW v \in VPage, Read(p, v)
  PROVE  IInv'
<1> DEFINE f == pageTable[p][v].physPage
<1>1. TypeOK /\ Bounds /\ Frames /\ Owners /\ Entries /\ Saved /\ Unfilled /\ ListOrder(lru)
  BY DEF IInv, TInv
<1>2. f \in Frame /\ f \in InLRU(lru)
  BY ShownFrame DEF Read
<1> HIDE DEF f
<1>3. /\ lru' = Touch(lru, f)
      /\ UNCHANGED <<physUsed, physMem, pageTable, physPageOwner, disk, heapAllocations,
                     codePages, status, op>>
  BY DEF Read, f
<1>4. lru' \in SUBSET (Frame \X Frame) /\ InLRU(lru') = InLRU(lru) /\ ListOrder(lru')
  <2>1. lru \in SUBSET (Frame \X Frame)
    BY <1>1 DEF TypeOK
  <2>2. /\ lru' \in SUBSET (Frame \X Frame) /\ InLRU(lru') = InLRU(lru) \cup {f}
        /\ ListOrder(lru')
    BY <1>1, <1>2, <1>3, <2>1, TouchFacts
  <2> QED BY <1>2, <2>2
<1>5. TypeOK'
  BY <1>1, <1>3, <1>4 DEF TypeOK
<1>6. Bounds' /\ Unfilled'
  BY <1>1, <1>3 DEF Bounds, Unfilled
<1>7. Frames'
  BY <1>1, <1>3, <1>4 DEF Frames
<1>8. Owners' /\ Entries' /\ Saved'
  <2>1. \A q \in Pid : Holds(q)' <=> Holds(q)
    BY <1>3 DEF Holds
  <2> QED BY <1>3, <2>1, SameMaps
<1> QED BY <1>4, <1>5, <1>6, <1>7, <1>8 DEF IInv, TInv

\* A write, place by place.
LEMMA WriteFacts ==
  ASSUME IInv, NEW p \in Pid, NEW v \in VPage, NEW c \in Values, Write(p, v, c)
  PROVE  /\ pageTable[p][v].physPage \in Frame
         /\ pageTable[p][v].physPage \in InLRU(lru)
         /\ physMem' \in [Frame -> Content]
         /\ \A g \in Frame :
              physMem'[g] = IF g = pageTable[p][v].physPage THEN c ELSE physMem[g]
         /\ pageTable' \in Table
         /\ \A q \in Pid, w \in VPage :
              /\ pageTable'[q][w].isValid <=> pageTable[q][w].isValid
              /\ pageTable'[q][w].physPage = pageTable[q][w].physPage
              /\ pageTable'[q][w].isDirty <=> pageTable[q][w].isDirty \/ (q = p /\ w = v)
<1> DEFINE dirty(e) == [e EXCEPT !.isDirty = TRUE]
<1>1. TypeOK
  BY DEF IInv, TInv
<1>2. pageTable[p][v].physPage \in Frame /\ pageTable[p][v].physPage \in InLRU(lru)
  BY ShownFrame DEF Write
<1>3. \A e \in Entry : /\ dirty(e) \in Entry /\ dirty(e).isDirty
                       /\ (dirty(e).isValid <=> e.isValid) /\ dirty(e).physPage = e.physPage
  BY DEF Entry
<1>4. \A q \in Pid, w \in VPage : pageTable[q][w] \in Entry
  BY <1>1 DEF TypeOK
<1>5. pageTable' = [pageTable EXCEPT ![p][v] = dirty(pageTable[p][v])]
  BY <1>1 DEF TypeOK, Write
<1>6. /\ physMem' \in [Frame -> Content]
      /\ \A g \in Frame : physMem'[g] = IF g = pageTable[p][v].physPage THEN c ELSE physMem[g]
  BY <1>1, <1>2 DEF TypeOK, Content, Write
<1> HIDE DEF dirty
<1>7. \A q \in Pid, w \in VPage :
         pageTable'[q][w] = IF q = p /\ w = v THEN dirty(pageTable[q][w]) ELSE pageTable[q][w]
  BY <1>1, <1>5 DEF TypeOK
<1>8. pageTable' \in Table
  BY <1>1, <1>3, <1>4, <1>5 DEF TypeOK, Table
<1>9. \A q \in Pid, w \in VPage :
        /\ pageTable'[q][w].isValid <=> pageTable[q][w].isValid
        /\ pageTable'[q][w].physPage = pageTable[q][w].physPage
        /\ pageTable'[q][w].isDirty <=> pageTable[q][w].isDirty \/ (q = p /\ w = v)
  BY <1>3, <1>4, <1>7 DEF Entry
<1> QED BY <1>2, <1>6, <1>8, <1>9

LEMMA WriteIInv ==
  ASSUME IInv, NEW p \in Pid, NEW v \in VPage, NEW c \in Values, Write(p, v, c)
  PROVE  IInv'
<1> DEFINE f == pageTable[p][v].physPage
<1>1. TypeOK /\ Bounds /\ Frames /\ Owners /\ Entries /\ Saved /\ Unfilled /\ ListOrder(lru)
  BY DEF IInv, TInv
<1>2. /\ f \in Frame /\ f \in InLRU(lru)
      /\ physMem' \in [Frame -> Content] /\ pageTable' \in Table
      /\ \A q \in Pid, w \in VPage :
           /\ pageTable'[q][w].isValid <=> pageTable[q][w].isValid
           /\ pageTable'[q][w].physPage = pageTable[q][w].physPage
  BY WriteFacts
<1> HIDE DEF f
<1>3. /\ lru' = Touch(lru, f)
      /\ UNCHANGED <<physUsed, physPageOwner, disk, heapAllocations, codePages, status, op>>
      /\ op = Idle
  BY DEF Write, f, Running
<1>4. lru' \in SUBSET (Frame \X Frame) /\ InLRU(lru') = InLRU(lru) /\ ListOrder(lru')
  <2>1. lru \in SUBSET (Frame \X Frame)
    BY <1>1 DEF TypeOK
  <2>2. /\ lru' \in SUBSET (Frame \X Frame) /\ InLRU(lru') = InLRU(lru) \cup {f}
        /\ ListOrder(lru')
    BY <1>1, <1>2, <1>3, <2>1, TouchFacts
  <2> QED BY <1>2, <2>2
<1>5. TypeOK'
  BY <1>1, <1>2, <1>3, <1>4 DEF TypeOK, Table
<1>6. Bounds' /\ Unfilled'
  BY <1>1, <1>3 DEF Bounds, Unfilled, Idle
<1>7. Frames'
  BY <1>1, <1>3, <1>4 DEF Frames
<1>8. \A q \in Pid : Holds(q)' <=> Holds(q)
  BY <1>3 DEF Holds
<1>9. Owners' /\ Entries' /\ Saved'
  BY <1>2, <1>3, <1>8, SameMaps
<1> QED BY <1>4, <1>5, <1>6, <1>7, <1>9 DEF IInv, TInv

\* The frame of a page fault.  There is nothing to evict from a free one.
LEMMA FaultFrame ==
  ASSUME IInv, NEW p \in Pid, NEW v \in VPage, PageFault(p, v)
  PROVE  \E f \in Frame :
           /\ FirstFree(f) \/ LRUVictim(f)
           /\ Wire(p, v, f, TableAfterEviction(f), Restored(DiskAfterEviction(f), p, v, f))
           /\ disk' = SwappedIn(DiskAfterEviction(f), p, v)
<1>1. TypeOK /\ Frames
  BY DEF IInv, TInv
<1>2. PICK f \in Frame :
        \/ /\ FirstFree(f)
           /\ Wire(p, v, f, pageTable, Restored(disk, p, v, f))
           /\ disk' = SwappedIn(disk, p, v)
        \/ /\ LRUVictim(f)
           /\ Wire(p, v, f, TableAfterEviction(f), Restored(DiskAfterEviction(f), p, v, f))
           /\ disk' = SwappedIn(DiskAfterEviction(f), p, v)
  BY DEF PageFault
<1>3. FirstFree(f) => TableAfterEviction(f) = pageTable /\ DiskAfterEviction(f) = disk
  BY <1>1, ChosenFrame
<1>4. CASE FirstFree(f)
  BY <1>1, <1>2, <1>3, <1>4, ChosenFrame
<1>5. CASE ~FirstFree(f)
  BY <1>2, <1>5
<1> QED BY <1>4, <1>5

\* What is restored, and the disk after that.
LEMMA RestoredFacts ==
  ASSUME NEW D \in Disk, NEW p \in Pid, NEW v \in VPage, NEW f \in Frame
  PROVE  /\ Restored(D, p, v, f) \in Content
         /\ SwappedIn(D, p, v) \in Disk
         /\ \A q \in Pid, w \in VPage :
              SwappedIn(D, p, v)[q][w] = IF q = p /\ w = v THEN Absent ELSE D[q][w]
<1>1. D[p][v] \in Content \cup {Absent} /\ Zero \in Content
  BY PageFacts DEF Disk
<1> QED BY <1>1 DEF Restored, SwappedIn, Disk

LEMMA PageFaultIInv ==
  ASSUME IInv, NEW p \in Pid, NEW v \in VPage, PageFault(p, v)
  PROVE  IInv'
<1>1. TypeOK /\ Bounds
  BY DEF IInv, TInv
<1>2. PICK f \in Frame :
        /\ FirstFree(f) \/ LRUVictim(f)
        /\ Wire(p, v, f, TableAfterEviction(f), Restored(DiskAfterEviction(f), p, v, f))
        /\ disk' = SwappedIn(DiskAfterEviction(f), p, v)
  BY FaultFrame
<1>3. DiskAfterEviction(f) \in Disk
  BY <1>1, EvictionFacts
<1> DEFINE c == Restored(DiskAfterEviction(f), p, v, f)
<1>4. /\ c \in Content /\ disk' \in Disk
      /\ \A q \in Pid, w \in VPage :
           disk'[q][w] = IF q = p /\ w = v THEN Absent ELSE DiskAfterEviction(f)[q][w]
  BY <1>2, <1>3, RestoredFacts
<1>5. Wire(p, v, f, TableAfterEviction(f), c)
  BY <1>2
<1> HIDE DEF c
<1>6. /\ op = Idle /\ op.kind = "none" /\ status[p] = "live" /\ ~pageTable[p][v].isValid
      /\ UNCHANGED <<heapAllocations, codePages, status, op>>
  BY DEF PageFault, Running, Idle
<1>7. Holds(p) /\ \A q \in Pid : Holds(q)' <=> Holds(q)
  BY <1>6 DEF Holds
<1>8. /\ Frames' /\ Owners' /\ Entries' /\ Saved' /\ ListOrder(lru')
      /\ physUsed' \in [Frame -> BOOLEAN]
      /\ lru' \in SUBSET (Frame \X Frame)
      /\ physMem' \in [Frame -> Content]
      /\ pageTable' \in Table
      /\ physPageOwner' \in [Frame -> (Pid \X VPage) \cup {NoOwner}]
  BY <1>2, <1>4, <1>5, <1>6, <1>7, PlaceStep
<1>9. TypeOK'
  BY <1>1, <1>4, <1>6, <1>8 DEF TypeOK, Table, Disk
<1>10. Bounds' /\ Unfilled'
  BY <1>1, <1>6 DEF Bounds, Unfilled
<1> QED BY <1>8, <1>9, <1>10 DEF IInv, TInv

LEMMA AllocBeginIInv ==
  ASSUME IInv, NEW p \in Pid, NEW r \in Requests, AllocBegin(p, r)
  PROVE  IInv'
<1> DEFINE n == PagesNeeded(r)
<1>1. TypeOK /\ Bounds /\ Frames /\ ListOrder(lru)
  BY DEF IInv, TInv
<1>2. n \in Nat /\ n > 0
  BY PagesNeededType DEF AllocBegin
<1>3. PICK v \in HeapPages :
        /\ FreeRun(p, v, n)
        /\ op' = [kind |-> "alloc", pid |-> p, first |-> v, next |-> v, last |-> v + n - 1]
  BY DEF AllocBegin
<1>4. /\ op = Idle /\ op.kind = "none" /\ status[p] = "live"
      /\ UNCHANGED <<physUsed, lru, physMem, pageTable, physPageOwner, disk,
                     heapAllocations, codePages, status>>
  BY DEF AllocBegin, Running, Idle
<1> HIDE DEF n
<1>5. v \in Nat /\ v + n - 1 \in Nat /\ v + n - 1 \in HeapPages /\ v \in v .. (v + n - 1) + 1
  BY <1>2, <1>3, PagingAssumption DEF FreeRun, HeapPages
<1>6. \A w \in v .. v + n - 1 : ~pageTable[p][w].isValid /\ disk[p][w] = Absent
  BY <1>3 DEF FreeRun, InUse
<1>7. op' \in OpType
  BY <1>3, <1>5 DEF OpType
<1>8. /\ op'.kind = "alloc" /\ op'.pid = p /\ op'.first = v /\ op'.next = v
      /\ op'.last = v + n - 1
  BY <1>3
<1>9. TypeOK'
  BY <1>1, <1>4, <1>7 DEF TypeOK
<1>10. Bounds'
  BY <1>1, <1>3, <1>4, <1>5, <1>8 DEF Bounds
<1>11. Unfilled'
  BY <1>4, <1>6, <1>8 DEF Unfilled
<1>12. \A q \in Pid : Holds(q)' <=> Holds(q)
  BY <1>4, <1>8 DEF Holds
<1>13. Owners' /\ Entries' /\ Saved'
  BY <1>4, <1>12, SameMaps
<1> QED BY <1>1, <1>4, <1>9, <1>10, <1>11, <1>13 DEF IInv, TInv, Frames

\* The frame and the page of an iteration of the allocation's loop.
LEMMA AllocFrame ==
  ASSUME IInv, AllocPage
  PROVE  /\ op.kind = "alloc" /\ op # Idle /\ op.pid \in Pid /\ status[op.pid] = "live"
         /\ op.next \in op.next .. op.last /\ op.next \in HeapPages
         /\ ~pageTable[op.pid][op.next].isValid /\ disk[op.pid][op.next] = Absent
         /\ \E f \in Frame :
              /\ FirstFree(f) \/ LRUVictim(f)
              /\ Wire(op.pid, op.next, f, TableAfterEviction(f), Zero)
              /\ disk' = DiskAfterEviction(f)
<1>1. TypeOK /\ Bounds /\ Frames /\ Unfilled
  BY DEF IInv, TInv
<1>2. op.kind = "alloc" /\ op # Idle /\ op.next <= op.last
  BY DEF AllocPage, Idle
<1>3. /\ op.pid \in Pid /\ op.first \in Nat /\ op.next \in Nat /\ op.last \in Nat
      /\ status[op.pid] = "live"
  BY <1>1, <1>2, OpFields DEF Bounds
<1>4. op.next \in op.next .. op.last /\ op.next \in HeapPages
  BY <1>1, <1>2, <1>3, PagingAssumption DEF Bounds, HeapPages
<1>5. ~pageTable[op.pid][op.next].isValid /\ disk[op.pid][op.next] = Absent
  BY <1>1, <1>2, <1>4 DEF Unfilled
<1>6. PICK f \in Frame :
        \/ FirstFree(f) /\ Wire(op.pid, op.next, f, pageTable, Zero) /\ disk' = disk
        \/ /\ LRUVictim(f)
           /\ Wire(op.pid, op.next, f, TableAfterEviction(f), Zero)
           /\ disk' = DiskAfterEviction(f)
  BY DEF AllocPage
<1>7. FirstFree(f) => TableAfterEviction(f) = pageTable /\ DiskAfterEviction(f) = disk
  BY <1>1, ChosenFrame
<1>8. /\ FirstFree(f) \/ LRUVictim(f)
      /\ Wire(op.pid, op.next, f, TableAfterEviction(f), Zero)
      /\ disk' = DiskAfterEviction(f)
  BY <1>6, <1>7
<1> QED BY <1>2, <1>3, <1>4, <1>5, <1>8

LEMMA AllocPageIInv == ASSUME IInv, AllocPage PROVE IInv'
<1>1. TypeOK /\ Bounds /\ Unfilled
  BY DEF IInv, TInv
<1>2. PICK p \in Pid, v \in VPage, f \in Frame :
        /\ op.kind = "alloc" /\ op # Idle /\ p = op.pid /\ status[p] = "live"
        /\ v = op.next /\ v \in op.next .. op.last
        /\ ~pageTable[p][v].isValid /\ disk[p][v] = Absent
        /\ FirstFree(f) \/ LRUVictim(f)
        /\ Wire(p, v, f, TableAfterEviction(f), Zero)
        /\ disk' = DiskAfterEviction(f)
  BY AllocFrame, PageFacts
<1>3. /\ op' \in OpType
      /\ op'.kind = op.kind /\ op'.pid = op.pid /\ op'.first = op.first
      /\ op'.last = op.last /\ op'.next = op.next + 1
  BY <1>1, <1>2, OpAdvances DEF AllocPage
<1>4. UNCHANGED <<heapAllocations, codePages, status>>
  BY DEF AllocPage
<1>5. Holds(p) /\ \A q \in Pid : Holds(q)' <=> Holds(q)
  BY <1>2, <1>3, <1>4 DEF Holds
<1>6. /\ disk' \in Disk
      /\ \A q \in Pid, w \in VPage : ~pageTable[q][w].isValid => disk'[q][w] = disk[q][w]
  <2>1. /\ disk' \in Disk
        /\ \A q \in Pid, w \in VPage :
             disk'[q][w] # disk[q][w] => physPageOwner[f] = <<q, w>> /\ status[q] = "live"
    BY <1>1, <1>2, EvictionFacts
  <2>2. \A q \in Pid, w \in VPage :
          physPageOwner[f] = <<q, w>> /\ status[q] = "live" => pageTable[q][w].isValid
    BY DEF IInv, Owners, Holds
  <2> QED BY <2>1, <2>2
<1>7. \A q \in Pid, w \in VPage :
        disk'[q][w] = IF q = p /\ w = v THEN Absent ELSE DiskAfterEviction(f)[q][w]
  BY <1>2, <1>6
<1>8. Zero \in Content
  BY PageFacts
<1>9. /\ Frames' /\ Owners' /\ Entries' /\ Saved' /\ ListOrder(lru')
      /\ physUsed' \in [Frame -> BOOLEAN]
      /\ lru' \in SUBSET (Frame \X Frame)
      /\ physMem' \in [Frame -> Content]
      /\ pageTable' \in Table
      /\ physPageOwner' \in [Frame -> (Pid \X VPage) \cup {NoOwner}]
      /\ \A q \in Pid, w \in VPage : (q # p \/ w # v) /\ pageTable'[q][w].isValid
            => pageTable[q][w].isValid
  BY <1>2, <1>4, <1>5, <1>7, <1>8, PlaceStep
<1>10. TypeOK'
  BY <1>1, <1>3, <1>4, <1>6, <1>9 DEF TypeOK, Table, Disk
<1>11. op.first \in Nat /\ op.next \in Nat /\ op.last \in Nat
  BY <1>1, <1>2, OpFields
<1>12. Bounds'
  <2>1. op'.next \in op'.first .. op'.last + 1
    BY <1>1, <1>2, <1>3, <1>11 DEF Bounds
  <2> QED BY <1>1, <1>2, <1>3, <1>4, <2>1 DEF Bounds
<1>13. Unfilled'
  <2> SUFFICES ASSUME NEW w \in op.next + 1 .. op.last
               PROVE  ~pageTable'[p][w].isValid /\ disk'[p][w] = Absent
    BY <1>2, <1>3 DEF Unfilled
  <2>1. w \in VPage /\ w # v /\ w \in op.next .. op.last
    <3>1. w \in HeapPages
      BY <1>1, <1>2, <1>11, PagingAssumption DEF Bounds, HeapPages
    <3> QED BY <1>2, <1>11, <3>1, PageFacts
  <2>2. ~pageTable[p][w].isValid /\ disk[p][w] = Absent
    BY <1>1, <1>2, <2>1 DEF Unfilled
  <2> QED BY <1>6, <1>9, <2>1, <2>2
<1> QED BY <1>9, <1>10, <1>12, <1>13 DEF IInv, TInv

LEMMA AllocDoneIInv == ASSUME IInv, AllocDone PROVE IInv'
<1>1. TypeOK /\ Bounds /\ Frames /\ ListOrder(lru)
  BY DEF IInv, TInv
<1>2. op.kind = "alloc" /\ op # Idle
  BY DEF AllocDone, Idle
<1>3. /\ op.pid \in Pid /\ op.first \in Nat /\ op.last \in Nat /\ op.next \in Nat
      /\ op.first \in HeapPages /\ op.last \in HeapPages
      /\ op.next \in op.first .. op.last + 1 /\ status[op.pid] = "live"
  BY <1>1, <1>2, OpFields DEF Bounds
<1> DEFINE n == op.last - op.first + 1
<1>4. n \in Nat /\ op.first + n - 1 <= HeapLast
  BY <1>3, PagingAssumption DEF HeapPages
<1>5. /\ op' = Idle /\ op'.kind = "none"
      /\ heapAllocations' = [heapAllocations EXCEPT ![op.pid][op.first] = n]
      /\ UNCHANGED <<physUsed, lru, physMem, pageTable, physPageOwner, disk,
                     codePages, status>>
  BY DEF AllocDone, Idle
<1> HIDE DEF n
<1>6. heapAllocations \in [Pid -> [HeapPages -> Nat]]
  BY <1>1 DEF TypeOK
<1>7. /\ heapAllocations' \in [Pid -> [HeapPages -> Nat]]
      /\ \A p \in Pid, v \in HeapPages : heapAllocations'[p][v] =
           IF p = op.pid /\ v = op.first THEN n ELSE heapAllocations[p][v]
  BY <1>3, <1>4, <1>5, <1>6
<1>8. TypeOK'
  BY <1>1, <1>5, <1>7 DEF TypeOK
<1>9. Bounds'
  BY <1>1, <1>4, <1>5, <1>7 DEF Bounds
<1>10. Unfilled'
  BY <1>5 DEF Unfilled
<1>11. \A q \in Pid : Holds(q)' <=> Holds(q)
  BY <1>2, <1>5 DEF Holds
<1>12. Owners' /\ Entries' /\ Saved'
  BY <1>5, <1>11, SameMaps
<1> QED BY <1>1, <1>5, <1>8, <1>9, <1>10, <1>12 DEF IInv, TInv, Frames

\* handleFreeMemory_ gives back what the pages of the allocation own, and no
\* more: a heap page never shows a region.
LEMMA FreedFrames ==
  ASSUME IInv, NEW p \in Pid, NEW v \in HeapPages, status[p] = "live"
  PROVE  LET pages  == v .. v + heapAllocations[p][v] - 1
             frames == {pageTable[p][w].physPage : w \in {u \in pages : pageTable[p][u].isValid}}
         IN  /\ pages \subseteq HeapPages
             /\ frames \subseteq Frame
             /\ \A f \in Frame : f \in frames <=> \E w \in pages : physPageOwner[f] = <<p, w>>
<1> DEFINE pages  == v .. v + heapAllocations[p][v] - 1
           frames == {pageTable[p][w].physPage : w \in {u \in pages : pageTable[p][u].isValid}}
<1>1. TypeOK /\ Bounds /\ Owners /\ Entries
  BY DEF IInv, TInv
<1>2. pages \subseteq HeapPages
  <2>1. heapAllocations[p][v] \in Nat /\ v + heapAllocations[p][v] - 1 <= HeapLast
    BY <1>1 DEF TypeOK, Bounds
  <2> QED BY <2>1, PagingAssumption DEF HeapPages
<1> HIDE DEF pages
<1>3. ASSUME NEW w \in pages
      PROVE  w \in VPage /\ ~ShowsRegion(p, w)
  <2>1. w \in HeapPages /\ w \in VPage
    BY <1>2, PageFacts
  <2>2. ShowsRegion(p, w) => w = SharedVBase + pageTable[p][w].physPage
                             /\ pageTable[p][w].physPage \in Region
    BY <1>1, <2>1 DEF Entries, ShowsRegion, SharedFrames
  <2> QED BY <2>1, <2>2, PageFacts
<1>4. \A w \in pages : pageTable[p][w].isValid =>
        /\ pageTable[p][w].physPage \in Frame
        /\ physPageOwner[pageTable[p][w].physPage] = <<p, w>>
  BY <1>1, <1>3, ShownFrame DEF Entries
<1>5. frames \subseteq Frame
  BY <1>4
<1>6. ASSUME NEW f \in Frame
      PROVE  f \in frames <=> \E w \in pages : physPageOwner[f] = <<p, w>>
  <2>1. ASSUME NEW w \in pages, physPageOwner[f] = <<p, w>> PROVE f \in frames
    <3>1. pageTable[p][w].isValid /\ pageTable[p][w].physPage = f
      BY <1>1, <1>3, <2>1 DEF Owners, Holds
    <3> QED BY <3>1
  <2> QED BY <1>4, <2>1
<1> QED BY <1>2, <1>5, <1>6 DEF pages

\* handleFreeMemory_, place by place.
LEMMA FreeMemoryFacts ==
  ASSUME IInv, NEW p \in Pid, NEW v \in HeapPages, FreeMemory(p, v)
  PROVE  LET pages == v .. v + heapAllocations[p][v] - 1 IN
         /\ pages \subseteq HeapPages
         /\ \E F \in SUBSET Frame :
              /\ GiveBack(F)
              /\ \A f \in Frame : f \in F <=> \E w \in pages : physPageOwner[f] = <<p, w>>
         /\ pageTable' \in Table /\ disk' \in Disk
         /\ \A q \in Pid, w \in VPage :
              /\ q = p /\ w \in pages => pageTable'[q][w] = NoEntry /\ disk'[q][w] = Absent
              /\ q # p \/ w \notin pages => /\ pageTable'[q][w] = pageTable[q][w]
                                            /\ disk'[q][w] = disk[q][w]
<1> DEFINE pages  == v .. v + heapAllocations[p][v] - 1
           frames == {pageTable[p][w].physPage : w \in {u \in pages : pageTable[p][u].isValid}}
<1>1. TypeOK
  BY DEF IInv, TInv
<1>2. /\ pages \subseteq HeapPages /\ frames \subseteq Frame
      /\ \A f \in Frame : f \in frames <=> \E w \in pages : physPageOwner[f] = <<p, w>>
  BY FreedFrames DEF FreeMemory, Running
<1>3. /\ GiveBack(frames)
      /\ disk' = [disk EXCEPT ![p] =
                    [w \in VPage |-> IF w \in pages THEN Absent ELSE disk[p][w]]]
      /\ pageTable' = [pageTable EXCEPT ![p] =
                         [w \in VPage |-> IF w \in pages THEN NoEntry ELSE pageTable[p][w]]]
  BY <1>1 DEF FreeMemory, TypeOK
<1>4. NoEntry \in Entry
  BY DEF NoEntry, Entry
<1> HIDE DEF pages, frames
<1>5. pageTable' \in Table /\ disk' \in Disk
  BY <1>1, <1>3, <1>4 DEF TypeOK, Table, Disk
<1>6. \A q \in Pid, w \in VPage :
        /\ q = p /\ w \in pages => pageTable'[q][w] = NoEntry /\ disk'[q][w] = Absent
        /\ q # p \/ w \notin pages => /\ pageTable'[q][w] = pageTable[q][w]
                                      /\ disk'[q][w] = disk[q][w]
  BY <1>1, <1>3 DEF TypeOK
<1>7. \E F \in SUBSET Frame :
              /\ GiveBack(F)
              /\ \A f \in Frame : f \in F <=> \E w \in pages : physPageOwner[f] = <<p, w>>
  BY <1>2, <1>3
<1> QED BY <1>2, <1>5, <1>6, <1>7 DEF pages

\* freePhysPage and the erasure keep the types.
LEMMA GiveBackType ==
  ASSUME TypeOK, NEW F, GiveBack(F)
  PROVE  /\ physUsed' \in [Frame -> BOOLEAN]
         /\ lru' \in SUBSET (Frame \X Frame)
         /\ physPageOwner' \in [Frame -> (Pid \X VPage) \cup {NoOwner}]
<1>1. physUsed' \in [Frame -> BOOLEAN]
  BY DEF TypeOK, GiveBack
<1>2. lru' \in SUBSET (Frame \X Frame)
  BY RemoveFacts DEF TypeOK, GiveBack
<1>3. physPageOwner' \in [Frame -> (Pid \X VPage) \cup {NoOwner}]
  BY DEF TypeOK, GiveBack
<1> QED BY <1>1, <1>2, <1>3

LEMMA FreeMemoryIInv ==
  ASSUME IInv, NEW p \in Pid, NEW v \in HeapPages, FreeMemory(p, v)
  PROVE  IInv'
<1> DEFINE pages == v .. v + heapAllocations[p][v] - 1
<1>1. TypeOK /\ Bounds
  BY DEF IInv, TInv
<1>2. /\ pages \subseteq HeapPages /\ pageTable' \in Table /\ disk' \in Disk
      /\ \E F \in SUBSET Frame :
           /\ GiveBack(F)
           /\ \A f \in Frame : f \in F <=> \E w \in pages : physPageOwner[f] = <<p, w>>
      /\ \A q \in Pid, w \in VPage :
           /\ q = p /\ w \in pages => pageTable'[q][w] = NoEntry /\ disk'[q][w] = Absent
           /\ q # p \/ w \notin pages => /\ pageTable'[q][w] = pageTable[q][w]
                                         /\ disk'[q][w] = disk[q][w]
  BY FreeMemoryFacts
<1>3. /\ op = Idle /\ op.kind = "none"
      /\ heapAllocations' = [heapAllocations EXCEPT ![p][v] = 0]
      /\ UNCHANGED <<physMem, codePages, status, op>>
  BY DEF FreeMemory, Running, Idle
<1> HIDE DEF pages
<1>4. PICK F \in SUBSET Frame :
        /\ GiveBack(F)
        /\ \A f \in Frame : f \in F <=> \E w \in pages : physPageOwner[f] = <<p, w>>
  BY <1>2
<1>5. pages \in SUBSET VPage
  BY <1>2, PageFacts
<1>6. \A q \in Pid : status'[q] = status[q] /\ (Holds(q)' <=> Holds(q))
  BY <1>3 DEF Holds
<1>7. Frames' /\ Owners' /\ Entries' /\ Saved' /\ ListOrder(lru')
  <2>1. \A q \in Pid, w \in VPage :
          IF q = p /\ w \in pages
          THEN pageTable'[q][w] = NoEntry /\ disk'[q][w] = Absent
          ELSE /\ pageTable'[q][w] = pageTable[q][w] /\ disk'[q][w] = disk[q][w]
               /\ status'[q] = status[q] /\ (Holds(q)' <=> Holds(q))
    <3> SUFFICES ASSUME NEW q \in Pid, NEW w \in VPage
                 PROVE  IF q = p /\ w \in pages
                        THEN pageTable'[q][w] = NoEntry /\ disk'[q][w] = Absent
                        ELSE /\ pageTable'[q][w] = pageTable[q][w]
                             /\ disk'[q][w] = disk[q][w]
                             /\ status'[q] = status[q] /\ (Holds(q)' <=> Holds(q))
      OBVIOUS
    <3>1. /\ q = p /\ w \in pages => pageTable'[q][w] = NoEntry /\ disk'[q][w] = Absent
          /\ q # p \/ w \notin pages => /\ pageTable'[q][w] = pageTable[q][w]
                                        /\ disk'[q][w] = disk[q][w]
      BY <1>2
    <3>2. status'[q] = status[q] /\ (Holds(q)' <=> Holds(q))
      BY <1>6
    <3> QED BY <3>1, <3>2
  <2> QED BY <1>4, <1>5, <2>1, GiveBackStep
<1>8. heapAllocations \in [Pid -> [HeapPages -> Nat]]
  BY <1>1 DEF TypeOK
<1>9. /\ heapAllocations' \in [Pid -> [HeapPages -> Nat]]
      /\ \A q \in Pid, w \in HeapPages : heapAllocations'[q][w] =
           IF q = p /\ w = v THEN 0 ELSE heapAllocations[q][w]
  BY <1>3, <1>8
<1>10. TypeOK'
  BY <1>1, <1>2, <1>3, <1>4, <1>9, GiveBackType DEF TypeOK, Table, Disk
<1>11. Bounds'
  <2>1. v + 0 - 1 <= HeapLast
    BY PagingAssumption DEF HeapPages
  <2> QED BY <1>1, <1>3, <1>9, <2>1 DEF Bounds
<1>12. Unfilled'
  BY <1>3 DEF Unfilled
<1> QED BY <1>7, <1>10, <1>11, <1>12 DEF IInv, TInv

\* mapPageInto, place by place.
LEMMA MapSharedMemFacts ==
  ASSUME TypeOK, NEW p \in Pid, NEW i \in Region, MapSharedMem(p, i)
  PROVE  /\ pageTable' \in Table
         /\ \A q \in Pid, w \in VPage :
              q # p \/ w # SharedVBase + i => pageTable'[q][w] = pageTable[q][w]
         /\ pageTable'[p][SharedVBase + i].isValid
         /\ pageTable'[p][SharedVBase + i].physPage = i
         /\ SharedVBase + i \in VPage /\ i \in SharedFrames /\ i \in Frame
<1> DEFINE e == [physPage |-> i, isValid |-> TRUE, isDirty |-> FALSE]
<1>1. SharedVBase + i \in VPage /\ i \in SharedFrames /\ i \in Frame
  BY PageFacts DEF SharedFrames
<1>2. e \in Entry /\ e.physPage = i /\ e.isValid
  BY <1>1 DEF Entry
<1>3. pageTable' = [pageTable EXCEPT ![p][SharedVBase + i] = e]
  BY DEF MapSharedMem
<1> HIDE DEF e
<1>4. pageTable \in Table
  BY DEF TypeOK, Table
<1>5. /\ pageTable' \in Table
      /\ \A q \in Pid, w \in VPage : pageTable'[q][w] =
           IF q = p /\ w = SharedVBase + i THEN e ELSE pageTable[q][w]
  BY <1>1, <1>2, <1>3, <1>4 DEF Table
<1> QED BY <1>1, <1>2, <1>5

LEMMA MapSharedMemIInv ==
  ASSUME IInv, NEW p \in Pid, NEW i \in Region, MapSharedMem(p, i)
  PROVE  IInv'
<1>1. TypeOK /\ Bounds /\ Frames /\ Owners /\ Entries /\ Saved /\ ListOrder(lru)
  BY DEF IInv, TInv
<1>2. PICK v \in VPage :
        /\ v = SharedVBase + i
        /\ pageTable' \in Table
        /\ \A q \in Pid, w \in VPage : q # p \/ w # v => pageTable'[q][w] = pageTable[q][w]
        /\ pageTable'[p][v].isValid /\ pageTable'[p][v].physPage = i
        /\ i \in SharedFrames /\ i \in Frame
  BY <1>1, MapSharedMemFacts
<1>3. /\ op = Idle /\ op.kind = "none" /\ status[p] = "live"
      /\ UNCHANGED <<physUsed, lru, physMem, physPageOwner, disk, heapAllocations,
                     codePages, status, op>>
  BY DEF MapSharedMem, Running, Idle
<1>4. Holds(p)' /\ \A q \in Pid : Holds(q)' <=> Holds(q)
  BY <1>3 DEF Holds
<1>5. /\ ShowsRegion(p, v)'
      /\ \A q \in Pid, w \in VPage :
           q # p \/ w # v => (ShowsRegion(q, w)' <=> ShowsRegion(q, w))
  BY <1>2 DEF ShowsRegion
<1>6. Owners'
  <2> SUFFICES ASSUME NEW g \in Frame, NEW q \in Pid, NEW w \in VPage,
                      physPageOwner[g] = <<q, w>>
               PROVE  /\ Holds(q)' \/ status[q] = "failed"
                      /\ Holds(q)' => /\ pageTable'[q][w].isValid
                                      /\ pageTable'[q][w].physPage = g \/ ShowsRegion(q, w)'
                      /\ disk[q][w] = Absent
                      /\ \A h \in Frame : physPageOwner[h] = <<q, w>> => h = g
    BY <1>3 DEF Owners
  <2>1. /\ Holds(q) \/ status[q] = "failed"
        /\ Holds(q) => /\ pageTable[q][w].isValid
                       /\ pageTable[q][w].physPage = g \/ ShowsRegion(q, w)
        /\ disk[q][w] = Absent
        /\ \A h \in Frame : physPageOwner[h] = <<q, w>> => h = g
    BY <1>1 DEF Owners
  <2> QED BY <1>2, <1>4, <1>5, <2>1
<1>7. Entries'
  <2> SUFFICES ASSUME NEW q \in Pid, NEW w \in VPage
               PROVE  /\ pageTable'[q][w].isValid <=> pageTable'[q][w].physPage # UNMAPPED
                      /\ pageTable'[q][w].isValid =>
                          /\ Holds(q)'
                          /\ IF ShowsRegion(q, w)'
                             THEN status[q] = "live" /\ w = SharedVBase + pageTable'[q][w].physPage
                             ELSE physPageOwner[pageTable'[q][w].physPage] = <<q, w>>
    BY <1>3 DEF Entries, UNMAPPED
  <2>1. CASE q = p /\ w = v
    BY <1>2, <1>3, <1>4, <1>5, <2>1, PageFacts
  <2>2. CASE q # p \/ w # v
    <3>1. /\ pageTable[q][w].isValid <=> pageTable[q][w].physPage # UNMAPPED
          /\ pageTable[q][w].isValid =>
               /\ Holds(q)
               /\ IF ShowsRegion(q, w)
                  THEN status[q] = "live" /\ w = SharedVBase + pageTable[q][w].physPage
                  ELSE physPageOwner[pageTable[q][w].physPage] = <<q, w>>
      BY <1>1 DEF Entries
    <3> QED BY <1>2, <1>4, <1>5, <2>2, <3>1
  <2> QED BY <2>1, <2>2
<1>8. TypeOK'
  BY <1>1, <1>2, <1>3 DEF TypeOK, Table
<1>9. Bounds' /\ Unfilled'
  BY <1>1, <1>3 DEF Bounds, Unfilled
<1>10. Frames' /\ Saved'
  BY <1>1, <1>3 DEF Frames, Saved
<1> QED BY <1>1, <1>3, <1>6, <1>7, <1>8, <1>9, <1>10 DEF IInv, TInv

\* cleanupProcess_, place by place.
LEMMA ExitFacts ==
  ASSUME IInv, NEW p \in Pid, Exit(p)
  PROVE  /\ \E F \in SUBSET Frame :
              /\ GiveBack(F)
              /\ \A f \in Frame : f \in F <=> \E w \in VPage : physPageOwner[f] = <<p, w>>
         /\ pageTable' \in Table /\ disk' \in Disk
         /\ \A q \in Pid : status'[q] = IF q = p THEN "dead" ELSE status[q]
         /\ \A q \in Pid, w \in VPage :
              IF q = p THEN pageTable'[q][w] = NoEntry /\ disk'[q][w] = Absent
              ELSE pageTable'[q][w] = pageTable[q][w] /\ disk'[q][w] = disk[q][w]
<1> DEFINE F == {f \in Frame : physPageOwner[f] # NoOwner /\ physPageOwner[f][1] = p}
<1>1. TypeOK
  BY DEF IInv, TInv
<1>2. F \in SUBSET Frame /\ GiveBack(F)
  BY DEF Exit
<1>3. ASSUME NEW f \in Frame
      PROVE  f \in F <=> \E w \in VPage : physPageOwner[f] = <<p, w>>
  <2>1. physPageOwner[f] \in (Pid \X VPage) \cup {NoOwner}
    BY <1>1 DEF TypeOK
  <2>2. \A w \in VPage : <<p, w>> # NoOwner
    BY PageFacts
  <2> QED BY <2>1, <2>2
<1>4. NoEntry \in Entry
  BY DEF NoEntry, Entry
<1> HIDE DEF F
<1>5. pageTable' \in Table /\ disk' \in Disk
  BY <1>1, <1>4 DEF TypeOK, Table, Disk, Exit
<1>6. /\ \A q \in Pid : status'[q] = IF q = p THEN "dead" ELSE status[q]
      /\ \A q \in Pid, w \in VPage :
           IF q = p THEN pageTable'[q][w] = NoEntry /\ disk'[q][w] = Absent
           ELSE pageTable'[q][w] = pageTable[q][w] /\ disk'[q][w] = disk[q][w]
  BY <1>1 DEF TypeOK, Exit
<1> QED BY <1>2, <1>3, <1>5, <1>6

LEMMA ExitIInv == ASSUME IInv, NEW p \in Pid, Exit(p) PROVE IInv'
<1>1. TypeOK /\ Bounds
  BY DEF IInv, TInv
<1>2. /\ pageTable' \in Table /\ disk' \in Disk
      /\ \A q \in Pid : status'[q] = IF q = p THEN "dead" ELSE status[q]
      /\ \A q \in Pid, w \in VPage :
           IF q = p THEN pageTable'[q][w] = NoEntry /\ disk'[q][w] = Absent
           ELSE pageTable'[q][w] = pageTable[q][w] /\ disk'[q][w] = disk[q][w]
  BY ExitFacts
<1>3. PICK F \in SUBSET Frame :
        /\ GiveBack(F)
        /\ \A f \in Frame : f \in F <=> \E w \in VPage : physPageOwner[f] = <<p, w>>
  BY ExitFacts
<1>4. /\ op = Idle /\ op.kind = "none"
      /\ heapAllocations' = [heapAllocations EXCEPT ![p] = [v \in HeapPages |-> 0]]
      /\ status' = [status EXCEPT ![p] = "dead"]
      /\ UNCHANGED <<physMem, codePages, op>>
  BY DEF Exit, Running, Idle
<1>5. \A q \in Pid : q # p => status'[q] = status[q] /\ (Holds(q)' <=> Holds(q))
  BY <1>2, <1>4 DEF Holds
<1>6. /\ VPage \in SUBSET VPage
      /\ \A q \in Pid, w \in VPage :
           IF q = p /\ w \in VPage
           THEN pageTable'[q][w] = NoEntry /\ disk'[q][w] = Absent
           ELSE /\ pageTable'[q][w] = pageTable[q][w] /\ disk'[q][w] = disk[q][w]
                /\ status'[q] = status[q] /\ (Holds(q)' <=> Holds(q))
  BY <1>2, <1>5
<1>7. Frames' /\ Owners' /\ Entries' /\ Saved' /\ ListOrder(lru')
  BY <1>3, <1>6, GiveBackStep
<1>8. heapAllocations \in [Pid -> [HeapPages -> Nat]]
  BY <1>1 DEF TypeOK
<1>9. /\ heapAllocations' \in [Pid -> [HeapPages -> Nat]]
      /\ \A q \in Pid, w \in HeapPages : heapAllocations'[q][w] =
           IF q = p THEN 0 ELSE heapAllocations[q][w]
  BY <1>4, <1>8
<1>10. TypeOK'
  BY <1>1, <1>2, <1>3, <1>4, <1>9, GiveBackType DEF TypeOK, Table, Disk
<1>11. Bounds'
  <2>1. \A w \in HeapPages : w + 0 - 1 <= HeapLast
    BY PagingAssumption DEF HeapPages
  <2> QED BY <1>1, <1>4, <1>9, <2>1 DEF Bounds
<1>12. Unfilled'
  BY <1>4 DEF Unfilled
<1> QED BY <1>7, <1>10, <1>11, <1>12 DEF IInv, TInv

-----------------------------------------------------------------------------
(***************************************************************************)
(* The theorems.                                                           *)
(***************************************************************************)
\* No step of the program takes the invariant away.
LEMMA NextIInv == IInv /\ [Next]_vars => IInv'
<1> SUFFICES ASSUME IInv, [Next]_vars PROVE IInv'
  OBVIOUS
<1>1. CASE UNCHANGED vars
  <2>1. /\ UNCHANGED <<physUsed, lru, physMem, pageTable, physPageOwner, disk>>
        /\ UNCHANGED <<heapAllocations, codePages, status, op>>
    BY <1>1 DEF vars
  <2>2. TypeOK'
    BY <2>1 DEF IInv, TInv, TypeOK
  <2>3. Bounds' /\ Unfilled'
    BY <2>1 DEF IInv, TInv, Bounds, Unfilled
  <2>4. Frames' /\ ListOrder(lru')
    BY <2>1 DEF IInv, Frames
  <2>5. \A q \in Pid : Holds(q)' <=> Holds(q)
    BY <2>1 DEF Holds
  <2>6. Owners' /\ Entries' /\ Saved'
    BY <2>1, <2>5, SameMaps
  <2> QED BY <2>2, <2>3, <2>4, <2>6 DEF IInv, TInv
<1>2. CASE OpStep
  BY <1>2, CreatePageIInv, CreateFailsIInv, CreateDoneIInv, AllocPageIInv, AllocDoneIInv
     DEF OpStep
<1>3. CASE \E p \in Pid : ProcStep(p)
  <2>1. PICK p \in Pid : ProcStep(p)
    BY <1>3
  <2>2. CASE \E n \in 1 .. MaxCode : CreateBegin(p, n)
    BY <2>2, CreateBeginIInv
  <2>3. CASE \E v \in VPage : Read(p, v) \/ PageFault(p, v)
    BY <2>3, ReadIInv, PageFaultIInv
  <2>4. CASE \E v \in VPage, c \in Values : Write(p, v, c)
    BY <2>4, WriteIInv
  <2>5. CASE \E r \in Requests : AllocBegin(p, r)
    BY <2>5, AllocBeginIInv
  <2>6. CASE \E v \in HeapPages : FreeMemory(p, v)
    BY <2>6, FreeMemoryIInv
  <2>7. CASE \E i \in Region : MapSharedMem(p, i)
    BY <2>7, MapSharedMemIInv
  <2>8. CASE Exit(p)
    BY <2>8, ExitIInv
  <2> QED BY <2>1, <2>2, <2>3, <2>4, <2>5, <2>6, <2>7, <2>8 DEF ProcStep
<1> QED BY <1>1, <1>2, <1>3 DEF Next

\* What is true of frames, owners, tables and disk stays true of them.
LEMMA InvariantHolds == Spec => []IInv
<1>1. Init => IInv
  BY InitIInv
<1>2. IInv /\ [Next]_vars => IInv'
  BY NextIInv
<1> QED BY <1>1, <1>2, PTL DEF Spec

\* The state of OS.cpp and MMU.cpp has its type: an entry shows a frame or
\* none, and a page fault or a loop never indexes a table beyond its pages.
THEOREM TypeCorrect == Spec => []TypeOK
<1>1. IInv => TypeOK
  BY DEF IInv, TInv
<1> QED BY <1>1, InvariantHolds, PTL

\* physUsed, the LRU list and physPageOwner_ agree on every frame: exits, frees
\* and evictions leak none, and none is freed twice.
THEOREM FramesAccountedHolds == Spec => []FramesAccounted
<1>1. IInv => FramesAccounted
  <2> SUFFICES ASSUME IInv, NEW f \in Frame
               PROVE  /\ physUsed[f] <=> f \in InLRU(lru)
                      /\ physUsed[f] <=> f \in SharedFrames \/ physPageOwner[f] # NoOwner
                      /\ f \in SharedFrames => physPageOwner[f] = NoOwner
                      /\ physPageOwner[f] # NoOwner =>
                            \/ status[physPageOwner[f][1]] \in {"live", "failed"}
                            \/ op # Idle /\ op.pid = physPageOwner[f][1]
    BY DEF FramesAccounted
  <2>1. TypeOK /\ Frames /\ Owners
    BY DEF IInv, TInv
  <2>2. ASSUME physPageOwner[f] # NoOwner
        PROVE  \/ status[physPageOwner[f][1]] \in {"live", "failed"}
               \/ op # Idle /\ op.pid = physPageOwner[f][1]
    <3>1. PICK p \in Pid, v \in VPage : physPageOwner[f] = <<p, v>>
      BY <2>1, <2>2 DEF TypeOK
    <3>2. Holds(p) \/ status[p] = "failed"
      BY <2>1, <3>1 DEF Owners
    <3> QED BY <3>1, <3>2 DEF Holds, Idle
  <2> QED BY <2>1, <2>2 DEF Frames
<1> QED BY <1>1, InvariantHolds, PTL

\* physPageOwner_ is the inverse of the page tables, but for what a mapped
\* region hides: evictOnePage_ invalidates the entry that shows its victim.
THEOREM OwnerMapInverseHolds == Spec => []OwnerMapInverse
<1>1. ASSUME IInv PROVE OwnerMapInverse
  <2>1. Owners /\ Entries
    BY <1>1 DEF IInv
  <2>2. ASSUME NEW p \in Pid, NEW v \in VPage
        PROVE  /\ pageTable[p][v].isValid <=> pageTable[p][v].physPage # UNMAPPED
               /\ pageTable[p][v].isValid =>
                    \/ pageTable[p][v].physPage \in SharedFrames
                    \/ physPageOwner[pageTable[p][v].physPage] = <<p, v>>
               /\ ShowsRegion(p, v) => v \in SharedPages
    <3>1. ShowsRegion(p, v) => /\ v = SharedVBase + pageTable[p][v].physPage
                               /\ pageTable[p][v].physPage \in Region
      BY <2>1 DEF Entries, ShowsRegion, SharedFrames
    <3>2. ShowsRegion(p, v) => v \in SharedPages
      BY <3>1 DEF SharedPages
    <3> QED BY <2>1, <3>2 DEF Entries, ShowsRegion
  <2>3. ASSUME NEW f \in Frame, NEW p \in Pid, NEW v \in VPage,
               physPageOwner[f] = <<p, v>>, status[p] # "failed"
        PROVE  /\ pageTable[p][v].isValid
               /\ \/ pageTable[p][v].physPage = f
                  \/ v \in SharedPages /\ pageTable[p][v].physPage \in SharedFrames
    <3>1. Holds(p)
      BY <2>1, <2>3 DEF Owners
    <3>2. pageTable[p][v].isValid /\ (pageTable[p][v].physPage = f \/ ShowsRegion(p, v))
      BY <2>1, <2>3, <3>1 DEF Owners
    <3> QED BY <2>2, <3>2 DEF ShowsRegion
  <2> QED BY <2>2, <2>3 DEF OwnerMapInverse
<1> QED BY <1>1, InvariantHolds, PTL

\* No frame is in two page tables, or twice in one, unless it is a region's:
\* no process reads or writes another's page.
THEOREM FrameIsolationHolds == Spec => []FrameIsolation
<1>1. ASSUME IInv PROVE FrameIsolation
  <2> SUFFICES ASSUME NEW p \in Pid, NEW q \in Pid, NEW v \in VPage, NEW w \in VPage,
                      pageTable[p][v].isValid, pageTable[q][w].isValid,
                      pageTable[p][v].physPage = pageTable[q][w].physPage,
                      pageTable[p][v].physPage \notin SharedFrames
               PROVE  <<p, v>> = <<q, w>>
    BY DEF FrameIsolation
  <2>1. physPageOwner[pageTable[p][v].physPage] = <<p, v>>
    BY <1>1 DEF IInv, Entries, ShowsRegion
  <2>2. physPageOwner[pageTable[q][w].physPage] = <<q, w>>
    BY <1>1 DEF IInv, Entries, ShowsRegion
  <2> QED BY <2>1, <2>2
<1> QED BY <1>1, InvariantHolds, PTL

\* A page on disk is a living process's, and is not resident as well: a swap-in
\* erases the copy, and an exit or a free does.
THEOREM OneHomeHolds == Spec => []OneHome
<1>1. ASSUME IInv PROVE OneHome
  <2> SUFFICES ASSUME NEW p \in Pid, NEW v \in VPage, disk[p][v] # Absent
               PROVE  /\ status[p] = "live"
                      /\ pageTable[p][v].isValid => pageTable[p][v].physPage \in SharedFrames
    BY DEF OneHome
  <2>1. Owners /\ Entries /\ Saved
    BY <1>1 DEF IInv
  <2>2. ASSUME pageTable[p][v].isValid, pageTable[p][v].physPage \notin SharedFrames
        PROVE  FALSE
    <3>1. pageTable[p][v].physPage \in Frame
      BY <1>1, <2>2, ShownFrame
    <3>2. physPageOwner[pageTable[p][v].physPage] = <<p, v>>
      BY <2>1, <2>2 DEF Entries, ShowsRegion
    <3> QED BY <2>1, <3>1, <3>2 DEF Owners
  <2> QED BY <2>1, <2>2 DEF Saved
<1> QED BY <1>1, InvariantHolds, PTL

\* getLRUPhysPage finds a frame whenever evictOnePage_ asks for one, and never
\* throws out of handlePageFault_ or handleAlloc_.
THEOREM AlwaysAVictimHolds == Spec => []AlwaysAVictim
<1>1. ASSUME IInv, Full PROVE \E f \in Frame : LRUVictim(f)
  <2> DEFINE S == InLRU(lru) \ SharedFrames
  <2>1. Frames /\ ListOrder(lru)
    BY <1>1 DEF IInv
  <2>2. NumShared \in Frame /\ NumShared \notin SharedFrames
    BY PagingAssumption DEF Frame, SharedFrames, Region
  <2>3. NumShared \in S
    BY <1>1, <2>1, <2>2 DEF Full, Frames
  <2>4. S \subseteq InLRU(lru) /\ S # {} /\ S \subseteq Frame
    BY <2>3 DEF InLRU
  <2> HIDE DEF S
  <2>5. PICK f \in S : \A g \in S : <<g, f>> \in lru
    BY <2>1, <2>4, LastOfList
  <2> QED BY <1>1, <2>4, <2>5 DEF LRUVictim, S
<1>2. IInv => AlwaysAVictim
  BY <1>1 DEF AlwaysAVictim
<1> QED BY <1>2, InvariantHolds, PTL

=============================================================================
