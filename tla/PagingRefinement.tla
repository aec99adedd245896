-------------------------- MODULE PagingRefinement --------------------------
(***************************************************************************)
(* Paging implements Memory: frames, LRU list, page tables and disk behave *)
(* like pages that are a process's own and that are lost only when clean.  *)
(***************************************************************************)
EXTENDS PagingProofs

-----------------------------------------------------------------------------
(***************************************************************************)
(* The abstract state, place by place.                                     *)
(***************************************************************************)
\* What p finds in page v when it owns no frame for it.
Swapped(p, v) == IF disk[p][v] # Absent THEN disk[p][v] ELSE Zero

PageView ==
    \A p \in Pid, v \in VPage :
        /\ status[p] # "live" => mem[p][v] = Zero
        /\ status[p] = "live" =>
             /\ \A f \in Frame : physPageOwner[f] = <<p, v>> => mem[p][v] = physMem[f]
             /\ (\A f \in Frame : physPageOwner[f] # <<p, v>>) => mem[p][v] = Swapped(p, v)

SetView ==
    /\ \A p \in Pid : p \in alive <=> status[p] = "live"
    /\ \A p \in Pid, v \in VPage :
         /\ v \in mapped[p] <=> ShowsRegion(p, v)
         /\ v \in kept[p] <=> /\ status[p] = "live" /\ ~ShowsRegion(p, v)
                              /\ DirtyOrSaved(p, v)

ViewType ==
    /\ alive \in SUBSET Pid
    /\ mem \in [Pid -> [VPage -> Content]]
    /\ mapped \in [Pid -> SUBSET VPage]
    /\ kept \in [Pid -> SUBSET VPage]
    /\ region \in [Region -> Content]
    /\ \A i \in Region : region[i] = physMem[i]

View == PageView /\ SetView /\ ViewType

\* The refinement mapping shows a page where it is: a page owns one frame.
LEMMA ViewHolds == IInv => View
<1> SUFFICES ASSUME IInv PROVE View
  OBVIOUS
<1>1. TypeOK /\ Owners
  BY DEF IInv, TInv
<1>2. ASSUME NEW p \in Pid, NEW v \in VPage
      PROVE  /\ status[p] # "live" => PrivatePage(p, v) = Zero
             /\ status[p] = "live" =>
                  /\ \A f \in Frame : physPageOwner[f] = <<p, v>> =>
                        PrivatePage(p, v) = physMem[f]
                  /\ (\A f \in Frame : physPageOwner[f] # <<p, v>>) =>
                        PrivatePage(p, v) = Swapped(p, v)
             /\ PrivatePage(p, v) \in Content
  <2> DEFINE owned == {f \in Frame : physPageOwner[f] = <<p, v>>}
  <2>1. PrivatePage(p, v) = IF status[p] # "live" THEN Zero
                            ELSE IF owned # {} THEN physMem[CHOOSE f \in owned : TRUE]
                            ELSE Swapped(p, v)
    BY DEF PrivatePage, Swapped
  <2>2. \A f, g \in owned : f = g
    BY <1>1 DEF Owners
  <2>3. owned # {} => (CHOOSE f \in owned : TRUE) \in owned
    OBVIOUS
  <2> DEFINE m == CHOOSE f \in owned : TRUE
  <2>4. /\ physMem \in [Frame -> Content] /\ Zero \in Content
        /\ disk[p][v] \in Content \cup {Absent}
    BY <1>1, PageFacts DEF TypeOK
  <2>5. /\ \A f \in Frame : f \in owned <=> physPageOwner[f] = <<p, v>>
        /\ owned \subseteq Frame
    OBVIOUS
  <2>6. Swapped(p, v) \in Content
    BY <2>4 DEF Swapped
  <2>7. owned # {} => m \in owned
    BY <2>3
  <2>8. PrivatePage(p, v) = IF status[p] # "live" THEN Zero
                            ELSE IF owned # {} THEN physMem[m] ELSE Swapped(p, v)
    BY <2>1
  <2> HIDE DEF owned, m
  <2>9. \A f \in owned : m = f
    BY <2>2, <2>7
  <2>10. CASE owned = {}
    BY <2>4, <2>5, <2>6, <2>8, <2>10
  <2>11. CASE owned # {}
    BY <2>4, <2>5, <2>7, <2>8, <2>9, <2>11
  <2> QED BY <2>10, <2>11
<1>3. PageView
  <2>1. \A p \in Pid, v \in VPage : mem[p][v] = PrivatePage(p, v)
    BY DEF mem
  <2> QED BY <1>2, <2>1 DEF PageView
<1>4. SetView
  BY DEF SetView, alive, mapped, kept
<1>5. ViewType
  <2>1. mem \in [Pid -> [VPage -> Content]]
    BY <1>2 DEF mem
  <2>2. Region \subseteq Frame
    BY PageFacts DEF SharedFrames
  <2>3. /\ region \in [Region -> Content]
        /\ \A i \in Region : region[i] = physMem[i]
    BY <1>1, <2>2 DEF region, TypeOK
  <2> QED BY <2>1, <2>3 DEF ViewType, alive, mapped, kept
<1> QED BY <1>3, <1>4, <1>5 DEF View

\* Two families of pages, or of sets of pages, with the same members are equal.
LEMMA SamePages ==
  ASSUME NEW C, NEW m \in [Pid -> [VPage -> C]], NEW n \in [Pid -> [VPage -> C]],
         \A p \in Pid, v \in VPage : m[p][v] = n[p][v]
  PROVE  m = n
<1>1. \A p \in Pid : m[p] = n[p]
  <2> SUFFICES ASSUME NEW p \in Pid PROVE m[p] = n[p]
    OBVIOUS
  <2>1. m[p] \in [VPage -> C] /\ n[p] \in [VPage -> C]
    OBVIOUS
  <2> QED BY <2>1
<1> QED BY <1>1

LEMMA SameSets ==
  ASSUME NEW m \in [Pid -> SUBSET VPage], NEW n \in [Pid -> SUBSET VPage],
         \A p \in Pid, v \in VPage : v \in m[p] <=> v \in n[p]
  PROVE  m = n
<1>1. \A p \in Pid : m[p] = n[p]
  <2> SUFFICES ASSUME NEW p \in Pid PROVE m[p] = n[p]
    OBVIOUS
  <2>1. m[p] \subseteq VPage /\ n[p] \subseteq VPage
    OBVIOUS
  <2> QED BY <2>1
<1> QED BY <1>1

\* A page keeps its contents when its frame, or its copy on disk, does.
LEMMA SamePage ==
  ASSUME View, View', NEW p \in Pid, NEW v \in VPage,
         status'[p] = "live" <=> status[p] = "live",
         disk'[p][v] = disk[p][v],
         \A f \in Frame : physPageOwner'[f] = <<p, v>> <=> physPageOwner[f] = <<p, v>>,
         \A f \in Frame : physPageOwner[f] = <<p, v>> => physMem'[f] = physMem[f]
  PROVE  mem'[p][v] = mem[p][v]
<1>1. PageView /\ PageView'
  BY DEF View
<1>2. /\ status[p] # "live" => mem[p][v] = Zero
      /\ status'[p] # "live" => mem'[p][v] = Zero
  BY <1>1 DEF PageView
<1>3. ASSUME status[p] = "live", NEW f \in Frame, physPageOwner[f] = <<p, v>>
      PROVE  mem'[p][v] = mem[p][v]
  <2>1. mem[p][v] = physMem[f]
    BY <1>1, <1>3 DEF PageView
  <2>2. mem'[p][v] = physMem'[f]
    BY <1>1, <1>3 DEF PageView
  <2> QED BY <1>3, <2>1, <2>2
<1>4. ASSUME status[p] = "live", \A f \in Frame : physPageOwner[f] # <<p, v>>
      PROVE  mem'[p][v] = mem[p][v]
  <2>1. mem[p][v] = Swapped(p, v)
    BY <1>1, <1>4 DEF PageView
  <2>2. mem'[p][v] = Swapped(p, v)'
    BY <1>1, <1>4 DEF PageView
  <2> QED BY <2>1, <2>2 DEF Swapped
<1> QED BY <1>2, <1>3, <1>4

\* The same for the rest of the view, part by part.
LEMMA SameAlive ==
  ASSUME View, View', \A p \in Pid : status'[p] = "live" <=> status[p] = "live"
  PROVE  alive' = alive
<1>1. alive \subseteq Pid /\ alive' \subseteq Pid /\ \A p \in Pid : p \in alive' <=> p \in alive
  BY DEF View, SetView, ViewType
<1> QED BY <1>1

LEMMA SameMapped ==
  ASSUME View, View',
         \A p \in Pid, v \in VPage : ShowsRegion(p, v)' <=> ShowsRegion(p, v)
  PROVE  mapped' = mapped
<1>1. mapped \in [Pid -> SUBSET VPage] /\ mapped' \in [Pid -> SUBSET VPage]
  BY DEF View, ViewType
<1>2. \A p \in Pid, v \in VPage : v \in mapped'[p] <=> v \in mapped[p]
  BY DEF View, SetView
<1> QED BY <1>1, <1>2, SameSets

LEMMA SameRegion ==
  ASSUME View, View', \A i \in Region : physMem'[i] = physMem[i]
  PROVE  region' = region
<1>1. /\ region \in [Region -> Content] /\ region' \in [Region -> Content]
      /\ \A i \in Region : region'[i] = region[i]
  BY DEF View, ViewType
<1> QED BY <1>1

LEMMA SameKept ==
  ASSUME View, View', NEW p \in Pid, NEW v \in VPage,
         status'[p] = "live" <=> status[p] = "live",
         ShowsRegion(p, v)' <=> ShowsRegion(p, v),
         status[p] = "live" => (DirtyOrSaved(p, v)' <=> DirtyOrSaved(p, v))
  PROVE  v \in kept'[p] <=> v \in kept[p]
  BY DEF View, SetView

\* A page of the living shows the same in its table, on disk and in its frame.
SameHome(p, v) ==
    /\ pageTable'[p][v] = pageTable[p][v] /\ disk'[p][v] = disk[p][v]
    /\ \A f \in Frame :
         /\ physPageOwner'[f] = <<p, v>> <=> physPageOwner[f] = <<p, v>>
         /\ physPageOwner[f] = <<p, v>> => physMem'[f] = physMem[f]

\* Nobody notices a step that moves no page of the living and no region.
LEMMA Unnoticed ==
  ASSUME View, View',
         \A p \in Pid : status'[p] = "live" <=> status[p] = "live",
         \A p \in Pid, v \in VPage :
            /\ ShowsRegion(p, v)' <=> ShowsRegion(p, v)
            /\ status[p] = "live" => SameHome(p, v),
         \A i \in Region : physMem'[i] = physMem[i]
  PROVE  UNCHANGED LossyMemory!vars
<1>1. alive' = alive /\ mapped' = mapped
  BY SameAlive, SameMapped
<1>2. region' = region
  BY SameRegion
<1>3. ASSUME NEW p \in Pid, NEW v \in VPage
      PROVE  mem'[p][v] = mem[p][v] /\ (v \in kept'[p] <=> v \in kept[p])
  <2>1. CASE status[p] = "live"
    <3>1. SameHome(p, v)
      BY <2>1
    <3>2. mem'[p][v] = mem[p][v]
      BY <2>1, <3>1, SamePage DEF SameHome
    <3>3. DirtyOrSaved(p, v)' <=> DirtyOrSaved(p, v)
      BY <3>1 DEF SameHome, DirtyOrSaved
    <3> QED BY <3>2, <3>3, SameKept
  <2>2. CASE status[p] # "live"
    BY <2>2 DEF View, PageView, SetView
  <2> QED BY <2>1, <2>2
<1>4. /\ mem \in [Pid -> [VPage -> Content]] /\ mem' \in [Pid -> [VPage -> Content]]
      /\ kept \in [Pid -> SUBSET VPage] /\ kept' \in [Pid -> SUBSET VPage]
  BY DEF View, ViewType
<1>5. mem' = mem
  BY <1>3, <1>4, SamePages
<1>6. kept' = kept
  BY <1>3, <1>4, SameSets
<1> QED BY <1>1, <1>2, <1>5, <1>6 DEF LossyMemory!vars

-----------------------------------------------------------------------------
(***************************************************************************)
(* What every action is, seen from Memory.                                 *)
(***************************************************************************)
\* A handler that moves no page is not noticed.
LEMMA QuietStep ==
  ASSUME View, View', UNCHANGED <<physMem, pageTable, physPageOwner, disk, status>>
  PROVE  UNCHANGED LossyMemory!vars
<1>1. \A p \in Pid, v \in VPage :
        (ShowsRegion(p, v)' <=> ShowsRegion(p, v)) /\ SameHome(p, v)
  BY DEF ShowsRegion, SameHome
<1> QED BY <1>1, Unnoticed

\* Creation is not noticed as long as the process does not run.
LEMMA CreatePageView ==
  ASSUME IInv, View, View', CreatePage
  PROVE  UNCHANGED LossyMemory!vars
<1>1. TypeOK /\ Bounds /\ Frames /\ Entries /\ Unfilled
  BY DEF IInv, TInv
<1>2. PICK p \in Pid : p = op.pid /\ op.kind = "create" /\ status[p] = "none" /\ op # Idle
  BY <1>1, OpFields DEF CreatePage, Idle, Bounds
<1>3. /\ op.next \in Nat /\ op.last \in Nat /\ op.first \in Nat
      /\ op.next \in CodePages /\ op.next \in VPage
  <2>1. op.next \in Nat /\ op.last \in Nat /\ op.first \in Nat
    BY <1>1, <1>2, OpFields
  <2>2. op.next \in CodePages
    BY <1>1, <1>2, <2>1, PagingAssumption DEF Bounds, CodePages, CreatePage
  <2> QED BY <2>1, <2>2, PageFacts
<1>4. PICK v \in VPage, f \in Frame :
        v = op.next /\ FirstFree(f) /\ Wire(p, v, f, pageTable, Zero)
  BY <1>2, <1>3 DEF CreatePage
<1>5. f \notin SharedFrames /\ physPageOwner[f] = NoOwner
  BY <1>1, <1>4, ChosenFrame
<1>6. pageTable \in Table /\ Zero \in Content
  BY <1>1, PageFacts DEF TypeOK, Table
<1>7. /\ \A g \in Frame :
           /\ physMem'[g] = IF g = f THEN Zero ELSE physMem[g]
           /\ physPageOwner'[g] = IF g = f THEN <<p, v>> ELSE physPageOwner[g]
      /\ \A q \in Pid, w \in VPage : q # p \/ w # v => pageTable'[q][w] = pageTable[q][w]
      /\ pageTable'[p][v].physPage = f
  BY <1>1, <1>4, <1>6, WireFacts
<1>8. status' = status /\ disk' = disk
  BY DEF CreatePage
<1>9. ASSUME NEW q \in Pid, NEW w \in VPage
      PROVE  ShowsRegion(q, w)' <=> ShowsRegion(q, w)
  <2>1. CASE q = p /\ w = v
    <3>1. ~ShowsRegion(p, v)
      BY <1>1, <1>2 DEF Entries, ShowsRegion
    <3> QED BY <1>5, <1>7, <2>1, <3>1 DEF ShowsRegion
  <2>2. CASE q # p \/ w # v
    BY <1>7, <2>2 DEF ShowsRegion
  <2> QED BY <2>1, <2>2
<1>10. ASSUME NEW q \in Pid, NEW w \in VPage, status[q] = "live"
       PROVE  SameHome(q, w)
  <2>1. q # p
    BY <1>2, <1>10
  <2>2. <<q, w>> # NoOwner /\ <<q, w>> # <<p, v>>
    BY <2>1, PageFacts
  <2>3. \A g \in Frame :
          /\ physPageOwner'[g] = <<q, w>> <=> physPageOwner[g] = <<q, w>>
          /\ physPageOwner[g] = <<q, w>> => physMem'[g] = physMem[g]
    BY <1>5, <1>7, <2>2
  <2> QED BY <1>7, <1>8, <2>1, <2>3 DEF SameHome
<1>11. \A i \in Region : physMem'[i] = physMem[i]
  BY <1>5, <1>7, PageFacts DEF SharedFrames
<1> QED BY <1>8, <1>9, <1>10, <1>11, Unnoticed

LEMMA CreateFailsView ==
  ASSUME IInv, View, View', CreateFails
  PROVE  UNCHANGED LossyMemory!vars
<1>1. TypeOK /\ Bounds /\ Entries
  BY DEF IInv, TInv
<1>2. PICK p \in Pid : p = op.pid /\ status[p] = "none"
  BY <1>1, OpFields DEF CreateFails, Idle, Bounds
<1>3. /\ pageTable' = [pageTable EXCEPT ![p] = [v \in VPage |-> NoEntry]]
      /\ status' = [status EXCEPT ![p] = "failed"]
      /\ UNCHANGED <<physMem, physPageOwner, disk>>
  BY <1>2 DEF CreateFails
<1>4. /\ \A q \in Pid : status'[q] = IF q = p THEN "failed" ELSE status[q]
      /\ \A q \in Pid, w \in VPage :
           /\ q # p => pageTable'[q][w] = pageTable[q][w]
           /\ ~pageTable'[p][w].isValid
  BY <1>1, <1>3 DEF TypeOK, NoEntry
<1>5. \A w \in VPage : ~ShowsRegion(p, w) /\ ~ShowsRegion(p, w)'
  BY <1>1, <1>2, <1>4 DEF Entries, ShowsRegion
<1>6. \A q \in Pid, w \in VPage : q # p => (ShowsRegion(q, w)' <=> ShowsRegion(q, w))
  BY <1>4 DEF ShowsRegion
<1>7. \A q \in Pid, w \in VPage : status[q] = "live" => SameHome(q, w)
  BY <1>2, <1>3, <1>4 DEF SameHome
<1>8. \A q \in Pid : status'[q] = "live" <=> status[q] = "live"
  BY <1>2, <1>4
<1> QED BY <1>3, <1>5, <1>6, <1>7, <1>8, Unnoticed

\* The image is written, and the process starts: its code pages are dirty.
LEMMA CreateDoneView ==
  ASSUME IInv, View, View', NEW c \in Values, CreateDone(c)
  PROVE  \E p \in Pid, code \in SUBSET CodePages : LossyMemory!Start(p, code, c)
<1>1. TypeOK /\ Owners /\ Entries /\ Saved /\ Frames
  BY DEF IInv, TInv
<1>2. /\ op.pid \in Pid /\ op.first .. op.last \in SUBSET CodePages
      /\ op.kind = "create" /\ status[op.pid] = "none"
      /\ \A w \in VPage : pageTable[op.pid][w].isValid <=> w \in op.first .. op.last
      /\ \A q \in Pid, w \in VPage :
           /\ pageTable'[q][w].isValid <=> pageTable[q][w].isValid
           /\ pageTable'[q][w].physPage = pageTable[q][w].physPage
           /\ pageTable'[q][w].isDirty <=> \/ pageTable[q][w].isDirty
                                           \/ q = op.pid /\ w \in op.first .. op.last
      /\ \A q \in Pid : status'[q] = IF q = op.pid THEN "live" ELSE status[q]
  BY CreateDoneFacts
<1>3. PICK p \in Pid, code \in SUBSET CodePages : p = op.pid /\ code = op.first .. op.last
  BY <1>2
<1>4. /\ physMem' = [f \in Frame |-> IF \E v \in code : pageTable[p][v].physPage = f
                                     THEN c ELSE physMem[f]]
      /\ UNCHANGED <<physPageOwner, disk>>
  BY <1>2, <1>3 DEF CreateDone
<1>5. code \subseteq VPage
  BY PageFacts
<1>6. \A q \in Pid, w \in VPage : ShowsRegion(q, w)' <=> ShowsRegion(q, w)
  BY <1>2, <1>3 DEF ShowsRegion
<1>7. \A w \in VPage : ~ShowsRegion(p, w)
  BY <1>1, <1>2, <1>3 DEF Entries, ShowsRegion
<1>8. \A v \in code : /\ pageTable[p][v].physPage \in Frame
                      /\ physPageOwner[pageTable[p][v].physPage] = <<p, v>>
  BY <1>1, <1>2, <1>3, <1>5, <1>7, ShownFrame DEF Entries
<1>9. \A f \in Frame : physMem'[f] # physMem[f] =>
        \E v \in code : physPageOwner[f] = <<p, v>>
  BY <1>4, <1>8
<1>10. \A i \in Region : physMem'[i] = physMem[i]
  <2> SUFFICES ASSUME NEW i \in Region PROVE physMem'[i] = physMem[i]
    OBVIOUS
  <2>1. i \in Frame /\ physPageOwner[i] = NoOwner /\ \A v \in code : <<p, v>> # NoOwner
    BY <1>1, <1>5, PageFacts DEF Frames, SharedFrames
  <2> QED BY <1>9, <2>1
<1>11. region' = region
  BY <1>10, SameRegion
<1>12. mapped' = mapped
  BY <1>6, SameMapped
<1>13. p \notin alive /\ alive' = alive \cup {p}
  <2>1. alive \subseteq Pid /\ alive' \subseteq Pid
    BY DEF View, ViewType
  <2>2. \A q \in Pid : /\ q \in alive <=> status[q] = "live"
                       /\ q \in alive' <=> status'[q] = "live"
    BY DEF View, SetView
  <2> QED BY <1>2, <1>3, <2>1, <2>2
<1>14. ASSUME NEW q \in Pid, NEW w \in VPage
       PROVE  /\ mem'[q][w] = IF q = p THEN IF w \in code THEN c ELSE Zero ELSE mem[q][w]
              /\ w \in kept'[q] <=> IF q = p THEN w \in code ELSE w \in kept[q]
  <2>1. CASE q = p /\ w \in code
    <3>1. PICK f \in Frame : f = pageTable[p][w].physPage /\ physPageOwner'[f] = <<p, w>>
      BY <1>4, <1>8, <2>1
    <3>2. status'[p] = "live"
      BY <1>2, <1>3
    <3>3. mem'[p][w] = physMem'[f]
      BY <2>1, <3>1, <3>2 DEF View, PageView
    <3>4. physMem'[f] = c
      BY <1>4, <2>1, <3>1
    <3>5. w \in kept'[p]
      BY <1>2, <1>3, <1>6, <1>7, <2>1 DEF View, SetView, DirtyOrSaved
    <3> QED BY <2>1, <3>3, <3>4, <3>5
  <2>2. CASE q = p /\ w \notin code
    <3>1. disk[p][w] = Absent /\ Holds(p)
      BY <1>1, <1>2, <1>3 DEF Saved, Holds
    <3>2. \A f \in Frame : physPageOwner[f] # <<p, w>>
      BY <1>1, <1>2, <1>3, <2>2, <3>1 DEF Owners
    <3>3. mem'[p][w] = Swapped(p, w)'
      <4>1. status'[p] = "live" /\ \A f \in Frame : physPageOwner'[f] # <<p, w>>
        BY <1>2, <1>3, <1>4, <3>2
      <4> QED BY <4>1 DEF View, PageView
    <3>4. w \notin kept'[p]
      BY <1>2, <1>3, <1>4, <2>2, <3>1 DEF View, SetView, DirtyOrSaved
    <3> QED BY <1>4, <2>2, <3>1, <3>3, <3>4 DEF Swapped
  <2>3. CASE q # p
    <3>1. status'[q] = "live" <=> status[q] = "live"
      BY <1>2, <1>3, <2>3
    <3>2. \A f \in Frame : physPageOwner[f] = <<q, w>> => physMem'[f] = physMem[f]
      BY <1>9, <2>3
    <3>3. mem'[q][w] = mem[q][w]
      BY <1>4, <3>1, <3>2, SamePage
    <3>4. DirtyOrSaved(q, w)' <=> DirtyOrSaved(q, w)
      BY <1>2, <1>3, <1>4, <2>3 DEF DirtyOrSaved
    <3> QED BY <1>6, <2>3, <3>1, <3>3, <3>4, SameKept
  <2> QED BY <2>1, <2>2, <2>3
<1>15. /\ mem \in [Pid -> [VPage -> Content]] /\ mem' \in [Pid -> [VPage -> Content]]
       /\ kept \in [Pid -> SUBSET VPage] /\ kept' \in [Pid -> SUBSET VPage]
       /\ c \in Content /\ Zero \in Content
  BY PageFacts DEF View, ViewType, Content
<1> DEFINE m == [mem EXCEPT ![p] = [v \in VPage |-> IF v \in code THEN c ELSE Zero]]
           k == [kept EXCEPT ![p] = code]
<1>16. /\ m \in [Pid -> [VPage -> Content]]
       /\ \A q \in Pid, w \in VPage :
            m[q][w] = IF q = p THEN IF w \in code THEN c ELSE Zero ELSE mem[q][w]
  <2>1. [v \in VPage |-> IF v \in code THEN c ELSE Zero] \in [VPage -> Content]
    BY <1>15
  <2> QED BY <1>15, <2>1
<1>17. /\ k \in [Pid -> SUBSET VPage]
       /\ \A q \in Pid, w \in VPage : w \in k[q] <=> IF q = p THEN w \in code ELSE w \in kept[q]
  BY <1>5, <1>15
<1> HIDE DEF m, k
<1>18. mem' = m
  BY <1>14, <1>15, <1>16, SamePages
<1>19. kept' = k
  BY <1>14, <1>15, <1>17, SameSets
<1>20. LossyMemory!Start(p, code, c)
  BY <1>11, <1>12, <1>13, <1>18, <1>19 DEF LossyMemory!Start, m, k
<1> QED BY <1>20

\* A write through the table goes to the page the process owns, or to the
\* region it mapped there.
LEMMA WriteView ==
  ASSUME IInv, View, View', NEW p \in Pid, NEW v \in VPage, NEW c \in Values, Write(p, v, c)
  PROVE  \/ LossyMemory!Store(p, v, c)
         \/ \E i \in Region : LossyMemory!StoreShared(p, i, c)
<1>1. TypeOK /\ Owners /\ Entries /\ Frames
  BY DEF IInv, TInv
<1>2. PICK f \in Frame :
        /\ f = pageTable[p][v].physPage
        /\ \A g \in Frame : physMem'[g] = IF g = f THEN c ELSE physMem[g]
        /\ \A q \in Pid, w \in VPage :
             /\ pageTable'[q][w].isValid <=> pageTable[q][w].isValid
             /\ pageTable'[q][w].physPage = pageTable[q][w].physPage
             /\ pageTable'[q][w].isDirty <=> pageTable[q][w].isDirty \/ (q = p /\ w = v)
  BY WriteFacts
<1>3. /\ status[p] = "live" /\ pageTable[p][v].isValid
      /\ UNCHANGED <<physPageOwner, disk, status>>
  BY DEF Write, Running
<1>4. \A q \in Pid, w \in VPage : ShowsRegion(q, w)' <=> ShowsRegion(q, w)
  BY <1>2 DEF ShowsRegion
<1>5. alive' = alive /\ mapped' = mapped
  BY <1>3, <1>4, SameAlive, SameMapped
<1>6. /\ p \in alive
      /\ \A q \in Pid, w \in VPage : w \in mapped[q] <=> ShowsRegion(q, w)
  BY <1>3 DEF View, SetView
<1>7. ASSUME NEW q \in Pid, NEW w \in VPage, q # p \/ w # v \/ ShowsRegion(q, w)
      PROVE  w \in kept'[q] <=> w \in kept[q]
  BY <1>2, <1>3, <1>4, <1>7 DEF View, SetView, DirtyOrSaved
<1>8. /\ mem \in [Pid -> [VPage -> Content]] /\ mem' \in [Pid -> [VPage -> Content]]
      /\ kept \in [Pid -> SUBSET VPage] /\ kept' \in [Pid -> SUBSET VPage]
      /\ region \in [Region -> Content] /\ region' \in [Region -> Content]
      /\ \A i \in Region : region[i] = physMem[i] /\ region'[i] = physMem'[i]
      /\ c \in Content
  BY DEF View, ViewType, Content
<1>9. Region \subseteq Frame /\ SharedFrames = Region
  BY PageFacts DEF SharedFrames
<1>10. CASE ShowsRegion(p, v)
  <2>1. f \in Region /\ v = SharedVBase + f
    BY <1>1, <1>2, <1>10 DEF Entries, ShowsRegion, SharedFrames
  <2>2. region' = [region EXCEPT ![f] = c]
    <3>1. \A i \in Region : region'[i] = IF i = f THEN c ELSE region[i]
      BY <1>2, <1>8, <1>9
    <3> QED BY <1>8, <3>1
  <2>3. mem' = mem
    <3>1. \A q \in Pid, w \in VPage : <<q, w>> # NoOwner
      BY PageFacts
    <3>2. \A q \in Pid, w \in VPage, g \in Frame :
            physPageOwner[g] = <<q, w>> => physMem'[g] = physMem[g]
      <4>1. f \in SharedFrames /\ physPageOwner[f] = NoOwner
        BY <1>1, <1>9, <2>1 DEF Frames
      <4>2. \A g \in Frame : g # f => physMem'[g] = physMem[g]
        BY <1>2
      <4> QED BY <3>1, <4>1, <4>2
    <3>3. \A q \in Pid, w \in VPage : mem'[q][w] = mem[q][w]
      BY <1>3, <3>2, SamePage
    <3> QED BY <1>8, <3>3, SamePages
  <2>4. kept' = kept
    <3>1. \A q \in Pid, w \in VPage : w \in kept'[q] <=> w \in kept[q]
      BY <1>7, <1>10
    <3> QED BY <1>8, <3>1, SameSets
  <2>5. LossyMemory!StoreShared(p, f, c)
    BY <1>5, <1>6, <1>10, <2>1, <2>2, <2>3, <2>4 DEF LossyMemory!StoreShared
  <2> QED BY <2>1, <2>5
<1>11. CASE ~ShowsRegion(p, v)
  <2>1. physPageOwner[f] = <<p, v>> /\ f \notin Region
    BY <1>1, <1>2, <1>3, <1>9, <1>11 DEF Entries, ShowsRegion
  <2>2. region' = region
    <3>1. \A i \in Region : physMem'[i] = physMem[i]
      BY <1>2, <1>9, <2>1
    <3> QED BY <3>1, SameRegion
  <2> DEFINE m == [mem EXCEPT ![p][v] = c]
             k == [kept EXCEPT ![p] = kept[p] \cup {v}]
  <2>3. /\ m \in [Pid -> [VPage -> Content]]
        /\ \A q \in Pid, w \in VPage : m[q][w] = IF q = p /\ w = v THEN c ELSE mem[q][w]
    BY <1>8
  <2>4. /\ k \in [Pid -> SUBSET VPage]
        /\ \A q \in Pid, w \in VPage : w \in k[q] <=> w \in kept[q] \/ (q = p /\ w = v)
    BY <1>8
  <2> HIDE DEF m, k
  <2>5. mem' = m
    <3>1. mem'[p][v] = c
      <4>1. status'[p] = "live" /\ physPageOwner'[f] = <<p, v>>
        BY <1>3, <2>1
      <4>2. mem'[p][v] = physMem'[f]
        BY <4>1 DEF View, PageView
      <4> QED BY <1>2, <4>2
    <3>2. \A q \in Pid, w \in VPage, g \in Frame :
            (q # p \/ w # v) /\ physPageOwner[g] = <<q, w>> => physMem'[g] = physMem[g]
      BY <1>2, <2>1
    <3>3. \A q \in Pid, w \in VPage : q # p \/ w # v => mem'[q][w] = mem[q][w]
      BY <1>3, <3>2, SamePage
    <3> QED BY <1>8, <2>3, <3>1, <3>3, SamePages
  <2>6. kept' = k
    <3>1. v \in kept'[p]
      BY <1>2, <1>3, <1>4, <1>11 DEF View, SetView, DirtyOrSaved
    <3>2. \A q \in Pid, w \in VPage : w \in kept'[q] <=> w \in k[q]
      BY <1>7, <2>4, <3>1
    <3> QED BY <1>8, <2>4, <3>2, SameSets
  <2>7. LossyMemory!Store(p, v, c)
    BY <1>5, <1>6, <1>11, <2>2, <2>5, <2>6 DEF LossyMemory!Store, m, k
  <2> QED BY <2>7
<1> QED BY <1>10, <1>11

\* A page is brought in, with what it held, and the page that makes room keeps
\* what it held if it was written to, for then it is on disk.
LEMMA PlaceView ==
  ASSUME IInv, View, View', NEW p \in Pid, NEW v \in VPage, NEW f \in Frame,
         status[p] = "live", ~pageTable[p][v].isValid,
         FirstFree(f) \/ LRUVictim(f),
         Wire(p, v, f, TableAfterEviction(f), Swapped(p, v)),
         \A q \in Pid, w \in VPage :
            disk'[q][w] = IF q = p /\ w = v THEN Absent ELSE DiskAfterEviction(f)[q][w],
         status' = status
  PROVE  LossyMemory!BringIn(p)
<1> DEFINE T == TableAfterEviction(f)
           D == DiskAfterEviction(f)
           mine(q, w) == physPageOwner[f] = <<q, w>> /\ status[q] = "live"
           other(q, w) == (q # p \/ w # v) /\ ~mine(q, w)
<1>1. TypeOK /\ Frames /\ Owners /\ Entries
  BY DEF IInv, TInv
<1>2. f \notin SharedFrames
  BY <1>1, ChosenFrame
<1>3. /\ T \in Table
      /\ \A q \in Pid, w \in VPage :
           /\ mine(q, w) => ~T[q][w].isValid
           /\ ~mine(q, w) => T[q][w] = pageTable[q][w]
           /\ D[q][w] = IF mine(q, w) /\ pageTable[q][w].isDirty THEN physMem[f]
                        ELSE disk[q][w]
  BY <1>1, EvictionFacts
<1>4. Swapped(p, v) \in Content
  BY <1>1, PageFacts DEF TypeOK, Swapped
<1>5. /\ \A g \in Frame :
           /\ physMem'[g] = IF g = f THEN Swapped(p, v) ELSE physMem[g]
           /\ physPageOwner'[g] = IF g = f THEN <<p, v>> ELSE physPageOwner[g]
      /\ \A q \in Pid, w \in VPage : q # p \/ w # v => pageTable'[q][w] = T[q][w]
      /\ pageTable'[p][v].physPage = f
      /\ pageTable'[p][v].isValid
      /\ ~pageTable'[p][v].isDirty
  BY <1>1, <1>3, <1>4, WireFacts
<1>6. \A g \in Frame : physPageOwner[g] # <<p, v>>
  BY <1>1 DEF Owners, Holds
<1>7. \A q \in Pid, w \in VPage : mine(q, w) =>
        /\ pageTable[q][w].isValid /\ disk[q][w] = Absent
        /\ \A g \in Frame : physPageOwner[g] = <<q, w>> => g = f
        /\ q # p \/ w # v
  BY <1>1, <1>6 DEF Owners, Holds
<1>8. physMem[f] \in Content /\ physMem[f] # Absent
  BY <1>1, PagingAssumption DEF TypeOK
<1> HIDE DEF T, D
<1>9. \A q \in Pid, w \in VPage :
        disk'[q][w] = IF q = p /\ w = v THEN Absent ELSE D[q][w]
  BY DEF D
<1>10. \A q \in Pid, w \in VPage : mine(q, w) =>
         /\ ~pageTable'[q][w].isValid
         /\ disk'[q][w] = IF pageTable[q][w].isDirty THEN physMem[f] ELSE Absent
  BY <1>3, <1>5, <1>7, <1>9
<1>11. \A q \in Pid, w \in VPage : other(q, w) =>
         pageTable'[q][w] = pageTable[q][w] /\ disk'[q][w] = disk[q][w]
  BY <1>3, <1>5, <1>9
<1>12. ~ShowsRegion(p, v) /\ ~ShowsRegion(p, v)'
  BY <1>2, <1>5 DEF ShowsRegion
<1>13. \A q \in Pid, w \in VPage :
         /\ mine(q, w) => ~ShowsRegion(q, w)'
         /\ other(q, w) => (ShowsRegion(q, w)' <=> ShowsRegion(q, w))
  BY <1>10, <1>11 DEF ShowsRegion
<1>14. \A q \in Pid, w \in VPage : mine(q, w) \/ other(q, w) \/ (q = p /\ w = v)
  OBVIOUS
<1>15. SetView /\ SetView' /\ PageView /\ PageView'
  BY DEF View
<1>16. ASSUME NEW q \in Pid, NEW w \in VPage, w \in mapped'[q] PROVE w \in mapped[q]
  BY <1>12, <1>13, <1>14, <1>15, <1>16 DEF SetView
<1>17. ASSUME NEW q \in Pid, NEW w \in VPage
       PROVE  /\ w \in kept'[q] => w \in kept[q] \/ (w \in mapped[q] /\ w \notin mapped'[q])
              /\ q # p /\ w \in kept[q] => w \in kept'[q]
  <2>1. CASE q = p /\ w = v
    BY <1>5, <1>15, <2>1 DEF SetView, DirtyOrSaved
  <2>2. CASE mine(q, w)
    <3>1. /\ DirtyOrSaved(q, w) <=> pageTable[q][w].isDirty
          /\ DirtyOrSaved(q, w)' <=> pageTable[q][w].isDirty
      BY <1>7, <1>8, <1>10, <2>2 DEF DirtyOrSaved
    <3>2. /\ w \in kept[q] <=> ~ShowsRegion(q, w) /\ pageTable[q][w].isDirty
          /\ w \in kept'[q] <=> pageTable[q][w].isDirty
          /\ w \in mapped[q] <=> ShowsRegion(q, w)
          /\ w \notin mapped'[q]
      BY <1>13, <1>15, <2>2, <3>1 DEF SetView
    <3> QED BY <3>2
  <2>3. CASE other(q, w)
    <3>1. DirtyOrSaved(q, w)' <=> DirtyOrSaved(q, w)
      BY <1>11, <2>3 DEF DirtyOrSaved
    <3> QED BY <1>13, <2>3, <3>1, SameKept
  <2> QED BY <1>14, <2>1, <2>2, <2>3
<1>18. ASSUME NEW q \in Pid, NEW w \in VPage, mem'[q][w] # mem[q][w]
       PROVE  w \notin kept[q] /\ mem'[q][w] = Zero
  <2>1. status[q] = "live"
    BY <1>15, <1>18 DEF PageView
  <2>2. CASE q = p /\ w = v
    <3>1. mem[p][v] = Swapped(p, v)
      BY <1>6, <1>15 DEF PageView
    <3>2. physPageOwner'[f] = <<p, v>> /\ physMem'[f] = Swapped(p, v) /\ status'[p] = "live"
      BY <1>5
    <3>3. mem'[p][v] = physMem'[f]
      BY <1>15, <3>2 DEF PageView
    <3> QED BY <1>18, <2>2, <3>1, <3>2, <3>3
  <2>3. CASE mine(q, w)
    <3>1. mem[q][w] = physMem[f]
      BY <1>15, <2>3 DEF PageView
    <3>2. status'[q] = "live" /\ \A g \in Frame : physPageOwner'[g] # <<q, w>>
      BY <1>5, <1>7, <2>1, <2>3
    <3>3. mem'[q][w] = Swapped(q, w)'
      BY <1>15, <3>2 DEF PageView
    <3>4. ~pageTable[q][w].isDirty /\ mem'[q][w] = Zero
      BY <1>8, <1>10, <1>18, <2>3, <3>1, <3>3 DEF Swapped
    <3>5. w \notin kept[q]
      BY <1>7, <1>15, <2>3, <3>4 DEF SetView, DirtyOrSaved
    <3> QED BY <3>4, <3>5
  <2>4. CASE other(q, w)
    <3>1. \A g \in Frame :
            /\ physPageOwner'[g] = <<q, w>> <=> physPageOwner[g] = <<q, w>>
            /\ physPageOwner[g] = <<q, w>> => physMem'[g] = physMem[g]
      BY <1>5, <2>1, <2>4
    <3>2. mem'[q][w] = mem[q][w]
      BY <1>11, <2>4, <3>1, SamePage
    <3> QED BY <1>18, <3>2
  <2> QED BY <1>14, <2>2, <2>3, <2>4
<1>19. region' = region
  <2>1. \A i \in Region : physMem'[i] = physMem[i]
    BY <1>2, <1>5, PageFacts DEF SharedFrames
  <2> QED BY <2>1, SameRegion
<1>20. alive' = alive /\ p \in alive
  BY <1>15, SameAlive DEF SetView
<1>21. \A q \in Pid : /\ mapped[q] \subseteq VPage /\ mapped'[q] \subseteq VPage
                      /\ kept[q] \subseteq VPage /\ kept'[q] \subseteq VPage
  BY DEF View, ViewType
<1>22. \A q \in Pid :
         /\ mapped'[q] \subseteq mapped[q]
         /\ kept'[q] \subseteq kept[q] \cup (mapped[q] \ mapped'[q])
         /\ q # p => kept[q] \subseteq kept'[q]
  BY <1>16, <1>17, <1>21
<1> QED BY <1>18, <1>19, <1>20, <1>22 DEF LossyMemory!BringIn

\* handlePageFault_ brings the page in with what it held.
LEMMA PageFaultView ==
  ASSUME IInv, View, View', NEW p \in Pid, NEW v \in VPage, PageFault(p, v)
  PROVE  LossyMemory!BringIn(p)
<1>1. TypeOK /\ Owners
  BY DEF IInv, TInv
<1>2. PICK f \in Frame :
        /\ FirstFree(f) \/ LRUVictim(f)
        /\ Wire(p, v, f, TableAfterEviction(f), Restored(DiskAfterEviction(f), p, v, f))
        /\ disk' = SwappedIn(DiskAfterEviction(f), p, v)
  BY FaultFrame
<1>3. status[p] = "live" /\ ~pageTable[p][v].isValid /\ status' = status
  BY DEF PageFault, Running
<1>4. physPageOwner[f] # <<p, v>>
  BY <1>1, <1>3 DEF Owners, Holds
<1>5. DiskAfterEviction(f) \in Disk /\ DiskAfterEviction(f)[p][v] = disk[p][v]
  BY <1>1, <1>4, EvictionFacts
<1>6. Restored(DiskAfterEviction(f), p, v, f) = Swapped(p, v)
  BY <1>5 DEF Restored, Swapped
<1>7. \A q \in Pid, w \in VPage :
        disk'[q][w] = IF q = p /\ w = v THEN Absent ELSE DiskAfterEviction(f)[q][w]
  BY <1>2, <1>5, RestoredFacts
<1>8. Wire(p, v, f, TableAfterEviction(f), Swapped(p, v))
  BY <1>2, <1>6
<1> QED BY <1>2, <1>3, <1>7, <1>8, PlaceView

\* The loop of handleAlloc_ zeroes a page that read as zeroes before.
LEMMA AllocPageView ==
  ASSUME IInv, View, View', AllocPage
  PROVE  \E p \in Pid : LossyMemory!BringIn(p)
<1>1. TypeOK /\ Owners
  BY DEF IInv, TInv
<1>2. PICK p \in Pid, v \in VPage, f \in Frame :
        /\ status[p] = "live" /\ ~pageTable[p][v].isValid /\ disk[p][v] = Absent
        /\ FirstFree(f) \/ LRUVictim(f)
        /\ Wire(p, v, f, TableAfterEviction(f), Zero)
        /\ disk' = DiskAfterEviction(f)
  BY AllocFrame, PageFacts
<1>3. status' = status
  BY DEF AllocPage
<1>4. Swapped(p, v) = Zero
  BY <1>2 DEF Swapped
<1>5. physPageOwner[f] # <<p, v>>
  BY <1>1, <1>2 DEF Owners, Holds
<1>6. DiskAfterEviction(f)[p][v] = Absent
  BY <1>1, <1>2, <1>5, EvictionFacts
<1>7. \A q \in Pid, w \in VPage :
        disk'[q][w] = IF q = p /\ w = v THEN Absent ELSE DiskAfterEviction(f)[q][w]
  BY <1>2, <1>6
<1>8. Wire(p, v, f, TableAfterEviction(f), Swapped(p, v))
  BY <1>2, <1>4
<1>9. LossyMemory!BringIn(p)
  BY <1>2, <1>3, <1>7, <1>8, PlaceView
<1> QED BY <1>9

\* Pages P of p vanish with their frames: they read as zeroes and nothing of
\* them is kept, and no other page changes.
LEMMA GiveBackView ==
  ASSUME View, View', NEW p \in Pid, NEW P \in SUBSET VPage, NEW F \in SUBSET Frame,
         \A f \in Frame : f \in F <=> \E w \in P : physPageOwner[f] = <<p, w>>,
         GiveBack(F), physMem' = physMem,
         \A q \in Pid, w \in VPage :
            IF q = p /\ w \in P
            THEN pageTable'[q][w] = NoEntry /\ disk'[q][w] = Absent
            ELSE /\ pageTable'[q][w] = pageTable[q][w] /\ disk'[q][w] = disk[q][w]
                 /\ status'[q] = status[q]
  PROVE  /\ region' = region
         /\ mem' = [mem EXCEPT ![p] = [v \in VPage |-> IF v \in P THEN Zero ELSE mem[p][v]]]
         /\ kept' = [kept EXCEPT ![p] = kept[p] \ P]
         /\ \A q \in Pid, w \in VPage :
              w \in mapped'[q] <=> w \in mapped[q] /\ ~(q = p /\ w \in P)
<1> DEFINE freed(q, w) == q = p /\ w \in P
<1>1. \A q \in Pid, w \in VPage :
        /\ freed(q, w) => pageTable'[q][w] = NoEntry /\ disk'[q][w] = Absent
        /\ ~freed(q, w) => /\ pageTable'[q][w] = pageTable[q][w]
                           /\ disk'[q][w] = disk[q][w] /\ status'[q] = status[q]
  OBVIOUS
<1>2. \A g \in Frame : physPageOwner'[g] = IF g \in F THEN NoOwner ELSE physPageOwner[g]
  BY DEF GiveBack
<1>3. ASSUME NEW g \in Frame, NEW q \in Pid, NEW w \in VPage
      PROVE  physPageOwner'[g] = <<q, w>> <=> physPageOwner[g] = <<q, w>> /\ ~freed(q, w)
  <2>1. <<q, w>> # NoOwner
    BY PageFacts
  <2>2. CASE g \in F
    <3>1. PICK u \in P : physPageOwner[g] = <<p, u>>
      BY <2>2
    <3>2. physPageOwner'[g] # <<q, w>>
      BY <1>2, <2>1, <2>2
    <3>3. physPageOwner[g] = <<q, w>> => q = p /\ w = u
      BY <3>1
    <3> QED BY <3>2, <3>3
  <2>3. CASE g \notin F
    BY <1>2, <2>3
  <2> QED BY <2>2, <2>3
<1> HIDE DEF freed
<1>4. SetView /\ SetView' /\ PageView /\ PageView'
  BY DEF View
<1>5. /\ mem \in [Pid -> [VPage -> Content]] /\ mem' \in [Pid -> [VPage -> Content]]
      /\ kept \in [Pid -> SUBSET VPage] /\ kept' \in [Pid -> SUBSET VPage]
      /\ Zero \in Content
  BY PageFacts DEF View, ViewType
<1>6. ASSUME NEW q \in Pid, NEW w \in VPage
      PROVE  /\ mem'[q][w] = IF freed(q, w) THEN Zero ELSE mem[q][w]
             /\ w \in kept'[q] <=> w \in kept[q] /\ ~freed(q, w)
             /\ w \in mapped'[q] <=> w \in mapped[q] /\ ~freed(q, w)
  <2>1. CASE freed(q, w)
    <3>1. \A g \in Frame : physPageOwner'[g] # <<q, w>>
      BY <1>3, <2>1
    <3>2. mem'[q][w] = Zero
      <4>1. Swapped(q, w)' = Zero
        BY <1>1, <2>1 DEF Swapped
      <4>2. CASE status'[q] = "live"
        BY <1>4, <3>1, <4>1, <4>2 DEF PageView
      <4>3. CASE status'[q] # "live"
        BY <1>4, <4>3 DEF PageView
      <4> QED BY <4>2, <4>3
    <3>3. ~ShowsRegion(q, w)' /\ ~DirtyOrSaved(q, w)'
      BY <1>1, <2>1 DEF ShowsRegion, DirtyOrSaved, NoEntry
    <3> QED BY <1>4, <2>1, <3>2, <3>3 DEF SetView
  <2>2. CASE ~freed(q, w)
    <3>1. mem'[q][w] = mem[q][w]
      <4>1. /\ \A g \in Frame : physPageOwner'[g] = <<q, w>> <=> physPageOwner[g] = <<q, w>>
            /\ disk'[q][w] = disk[q][w] /\ (status'[q] = "live" <=> status[q] = "live")
        BY <1>1, <1>3, <2>2
      <4>2. \A g \in Frame : physPageOwner[g] = <<q, w>> => physMem'[g] = physMem[g]
        OBVIOUS
      <4> QED BY ONLY View, View', q \in Pid, w \in VPage, <4>1, <4>2, SamePage
    <3>2. /\ ShowsRegion(q, w)' <=> ShowsRegion(q, w)
          /\ DirtyOrSaved(q, w)' <=> DirtyOrSaved(q, w)
          /\ status'[q] = status[q]
      BY <1>1, <2>2 DEF ShowsRegion, DirtyOrSaved
    <3> QED BY <1>4, <2>2, <3>1, <3>2 DEF SetView
  <2> QED BY <2>1, <2>2
<1> DEFINE m == [mem EXCEPT ![p] = [v \in VPage |-> IF v \in P THEN Zero ELSE mem[p][v]]]
           k == [kept EXCEPT ![p] = kept[p] \ P]
<1>7. /\ m \in [Pid -> [VPage -> Content]]
      /\ \A q \in Pid, w \in VPage : m[q][w] = IF freed(q, w) THEN Zero ELSE mem[q][w]
  BY <1>5 DEF freed
<1>8. /\ k \in [Pid -> SUBSET VPage]
      /\ \A q \in Pid, w \in VPage : w \in k[q] <=> w \in kept[q] /\ ~freed(q, w)
  BY <1>5 DEF freed
<1> HIDE DEF m, k
<1>9. mem' = m
  BY <1>5, <1>6, <1>7, SamePages
<1>10. kept' = k
  <2>1. \A q \in Pid, w \in VPage : w \in kept'[q] <=> w \in k[q]
    BY <1>6, <1>8
  <2> QED BY <1>5, <1>8, <2>1, SameSets
<1>11. region' = region
  BY SameRegion
<1> QED BY <1>6, <1>9, <1>10, <1>11 DEF m, k, freed

\* FreeMemory forgets the pages of the allocation and touches no region.
LEMMA FreeMemoryView ==
  ASSUME IInv, View, View', NEW p \in Pid, NEW v \in HeapPages, FreeMemory(p, v)
  PROVE  \E pages \in SUBSET HeapPages : LossyMemory!Free(p, pages)
<1> DEFINE pages == v .. v + heapAllocations[p][v] - 1
<1>1. /\ pages \subseteq HeapPages
      /\ \E F \in SUBSET Frame :
           /\ GiveBack(F)
           /\ \A f \in Frame : f \in F <=> \E w \in pages : physPageOwner[f] = <<p, w>>
      /\ \A q \in Pid, w \in VPage :
           /\ q = p /\ w \in pages => pageTable'[q][w] = NoEntry /\ disk'[q][w] = Absent
           /\ q # p \/ w \notin pages => /\ pageTable'[q][w] = pageTable[q][w]
                                         /\ disk'[q][w] = disk[q][w]
  BY FreeMemoryFacts
<1>2. status[p] = "live" /\ physMem' = physMem /\ status' = status
  BY DEF FreeMemory, Running
<1> HIDE DEF pages
<1>3. PICK P \in SUBSET HeapPages : P = pages
  BY <1>1
<1>4. PICK F \in SUBSET Frame :
        /\ GiveBack(F)
        /\ \A f \in Frame : f \in F <=> \E w \in P : physPageOwner[f] = <<p, w>>
  BY <1>1, <1>3
<1>5. /\ P \in SUBSET VPage
      /\ \A q \in Pid, w \in VPage :
            IF q = p /\ w \in P
            THEN pageTable'[q][w] = NoEntry /\ disk'[q][w] = Absent
            ELSE /\ pageTable'[q][w] = pageTable[q][w] /\ disk'[q][w] = disk[q][w]
                 /\ status'[q] = status[q]
  BY <1>1, <1>2, <1>3, PageFacts
<1>6. /\ region' = region
      /\ mem' = [mem EXCEPT ![p] = [w \in VPage |-> IF w \in P THEN Zero ELSE mem[p][w]]]
      /\ kept' = [kept EXCEPT ![p] = kept[p] \ P]
      /\ \A q \in Pid, w \in VPage :
           w \in mapped'[q] <=> w \in mapped[q] /\ ~(q = p /\ w \in P)
  BY <1>2, <1>4, <1>5, GiveBackView
<1>7. alive' = alive /\ p \in alive
  BY <1>2, SameAlive DEF View, SetView
<1>8. mapped' = mapped
  <2>1. \A w \in P : w \notin mapped[p]
    <3> SUFFICES ASSUME NEW w \in P, ShowsRegion(p, w) PROVE FALSE
      BY <1>5 DEF View, SetView
    <3>1. w = SharedVBase + pageTable[p][w].physPage /\ pageTable[p][w].physPage \in Region
      BY <1>5 DEF IInv, Entries, ShowsRegion, SharedFrames
    <3> QED BY <3>1, PageFacts
  <2>2. \A q \in Pid, w \in VPage : w \in mapped'[q] <=> w \in mapped[q]
    BY <1>6, <2>1
  <2>3. mapped \in [Pid -> SUBSET VPage] /\ mapped' \in [Pid -> SUBSET VPage]
    BY DEF View, ViewType
  <2> QED BY <2>2, <2>3, SameSets
<1>9. LossyMemory!Free(p, P)
  <2>1. mem' = LossyMemory!Zeroed(p, P)
    BY <1>6 DEF LossyMemory!Zeroed
  <2> QED BY <1>6, <1>7, <1>8, <2>1 DEF LossyMemory!Free
<1> QED BY <1>9

\* cleanupProcess_ leaves nothing of the process.
LEMMA ExitView ==
  ASSUME IInv, View, View', NEW p \in Pid, Exit(p)
  PROVE  LossyMemory!End(p)
<1>1. /\ \A q \in Pid : status'[q] = IF q = p THEN "dead" ELSE status[q]
      /\ \A q \in Pid, w \in VPage :
           IF q = p THEN pageTable'[q][w] = NoEntry /\ disk'[q][w] = Absent
           ELSE pageTable'[q][w] = pageTable[q][w] /\ disk'[q][w] = disk[q][w]
  BY ExitFacts
<1>2. PICK F \in SUBSET Frame :
        /\ GiveBack(F)
        /\ \A f \in Frame : f \in F <=> \E w \in VPage : physPageOwner[f] = <<p, w>>
  BY ExitFacts
<1>3. status[p] = "live" /\ physMem' = physMem
  BY DEF Exit, Running
<1>4. /\ VPage \in SUBSET VPage
      /\ \A q \in Pid, w \in VPage :
            IF q = p /\ w \in VPage
            THEN pageTable'[q][w] = NoEntry /\ disk'[q][w] = Absent
            ELSE /\ pageTable'[q][w] = pageTable[q][w] /\ disk'[q][w] = disk[q][w]
                 /\ status'[q] = status[q]
  BY <1>1
<1>5. /\ region' = region
      /\ mem' = [mem EXCEPT ![p] = [w \in VPage |-> IF w \in VPage THEN Zero ELSE mem[p][w]]]
      /\ kept' = [kept EXCEPT ![p] = kept[p] \ VPage]
      /\ \A q \in Pid, w \in VPage :
           w \in mapped'[q] <=> w \in mapped[q] /\ ~(q = p /\ w \in VPage)
  BY <1>2, <1>3, <1>4, GiveBackView
<1>6. /\ mapped \in [Pid -> SUBSET VPage] /\ mapped' \in [Pid -> SUBSET VPage]
      /\ kept \in [Pid -> SUBSET VPage] /\ alive \subseteq Pid /\ alive' \subseteq Pid
  BY DEF View, ViewType
<1>7. p \in alive /\ alive' = alive \ {p}
  <2>1. \A q \in Pid : /\ q \in alive <=> status[q] = "live"
                       /\ q \in alive' <=> status'[q] = "live"
    BY DEF View, SetView
  <2> QED BY <1>1, <1>3, <1>6, <2>1
<1> DEFINE n == [mapped EXCEPT ![p] = {}]
<1>8. /\ n \in [Pid -> SUBSET VPage]
      /\ \A q \in Pid, w \in VPage : w \in n[q] <=> w \in mapped[q] /\ q # p
  BY <1>6
<1> HIDE DEF n
<1>9. mapped' = n
  <2>1. \A q \in Pid, w \in VPage : w \in mapped'[q] <=> w \in n[q]
    BY <1>5, <1>8
  <2> QED BY <1>6, <1>8, <2>1, SameSets
<1>10. kept[p] \ VPage = {}
  BY <1>6
<1>11. mem' = LossyMemory!Zeroed(p, VPage)
  BY <1>5 DEF LossyMemory!Zeroed
<1> QED BY <1>5, <1>7, <1>9, <1>10, <1>11 DEF LossyMemory!End, n

\* mapPageInto shows a region, and the page it hides keeps its frame.
LEMMA MapSharedMemView ==
  ASSUME IInv, View, View', NEW p \in Pid, NEW i \in Region, MapSharedMem(p, i)
  PROVE  LossyMemory!Map(p, i)
<1>1. TypeOK
  BY DEF IInv, TInv
<1>2. PICK v \in VPage :
        /\ v = SharedVBase + i
        /\ \A q \in Pid, w \in VPage : q # p \/ w # v => pageTable'[q][w] = pageTable[q][w]
        /\ pageTable'[p][v].isValid /\ pageTable'[p][v].physPage = i
        /\ i \in SharedFrames
  BY <1>1, MapSharedMemFacts
<1>3. status[p] = "live" /\ UNCHANGED <<physMem, physPageOwner, disk, status>>
  BY DEF MapSharedMem, Running
<1>4. /\ ShowsRegion(p, v)'
      /\ \A q \in Pid, w \in VPage : q # p \/ w # v =>
           /\ ShowsRegion(q, w)' <=> ShowsRegion(q, w)
           /\ DirtyOrSaved(q, w)' <=> DirtyOrSaved(q, w)
  BY <1>2, <1>3 DEF ShowsRegion, DirtyOrSaved
<1>5. /\ mem \in [Pid -> [VPage -> Content]] /\ mem' \in [Pid -> [VPage -> Content]]
      /\ kept \in [Pid -> SUBSET VPage] /\ kept' \in [Pid -> SUBSET VPage]
      /\ mapped \in [Pid -> SUBSET VPage] /\ mapped' \in [Pid -> SUBSET VPage]
  BY DEF View, ViewType
<1>6. region' = region /\ alive' = alive
  BY <1>3, SameRegion, SameAlive
<1>7. mem' = mem
  <2>1. \A q \in Pid, w \in VPage : mem'[q][w] = mem[q][w]
    BY <1>3, SamePage
  <2> QED BY <1>5, <2>1, SamePages
<1>8. \A q \in Pid, w \in VPage :
        /\ w \in mapped'[q] <=> w \in mapped[q] \/ (q = p /\ w = v)
        /\ w \in kept'[q] <=> w \in kept[q] /\ ~(q = p /\ w = v)
  BY <1>3, <1>4 DEF View, SetView
<1> DEFINE n == [mapped EXCEPT ![p] = mapped[p] \cup {v}]
           k == [kept EXCEPT ![p] = kept[p] \ {v}]
<1>9. /\ n \in [Pid -> SUBSET VPage]
      /\ \A q \in Pid, w \in VPage : w \in n[q] <=> w \in mapped[q] \/ (q = p /\ w = v)
  BY <1>5
<1>10. /\ k \in [Pid -> SUBSET VPage]
       /\ \A q \in Pid, w \in VPage : w \in k[q] <=> w \in kept[q] /\ ~(q = p /\ w = v)
  BY <1>5
<1> HIDE DEF n, k
<1>11. mapped' = n
  <2>1. \A q \in Pid, w \in VPage : w \in mapped'[q] <=> w \in n[q]
    BY <1>8, <1>9
  <2> QED BY <1>5, <1>9, <2>1, SameSets
<1>12. kept' = k
  <2>1. \A q \in Pid, w \in VPage : w \in kept'[q] <=> w \in k[q]
    BY <1>8, <1>10
  <2> QED BY <1>5, <1>10, <2>1, SameSets
<1>13. p \in alive
  BY <1>3 DEF View, SetView
<1> QED BY <1>2, <1>6, <1>7, <1>11, <1>12, <1>13 DEF LossyMemory!Map, n, k

-----------------------------------------------------------------------------
(***************************************************************************)
(* The refinement.                                                         *)
(***************************************************************************)
LEMMA InitView == Init => LossyMemory!Init
<1> SUFFICES ASSUME Init PROVE LossyMemory!Init
  OBVIOUS
<1>1. IInv /\ View
  BY InitIInv, ViewHolds
<1>2. \A p \in Pid : status[p] = "none"
  BY DEF Init
<1>3. /\ \A p \in Pid, v \in VPage :
           mem[p][v] = Zero /\ v \notin mapped[p] /\ v \notin kept[p]
      /\ \A i \in Region : region[i] = Zero
      /\ \A p \in Pid : p \notin alive
  <2>1. \A p \in Pid, v \in VPage : ~ShowsRegion(p, v)
    BY DEF Init, ShowsRegion, NoEntry
  <2>2. \A i \in Region : physMem[i] = Zero
    BY PageFacts DEF Init, SharedFrames
  <2>3. \A p \in Pid, v \in VPage : mem[p][v] = Zero
    BY <1>1, <1>2 DEF View, PageView
  <2>4. \A p \in Pid, v \in VPage : v \notin mapped[p] /\ v \notin kept[p]
    BY <1>1, <1>2, <2>1 DEF View, SetView
  <2>5. \A i \in Region : region[i] = Zero
    BY <1>1, <2>2 DEF View, ViewType
  <2>6. \A p \in Pid : p \notin alive
    BY <1>1, <1>2 DEF View, SetView
  <2> QED BY <2>3, <2>4, <2>5, <2>6
<1>4. ViewType
  BY <1>1 DEF View
<1> DEFINE m == [p \in Pid |-> [v \in VPage |-> Zero]]
           k == [p \in Pid |-> {}]
<1>5. /\ m \in [Pid -> [VPage -> Content]] /\ k \in [Pid -> SUBSET VPage]
      /\ \A p \in Pid, v \in VPage : m[p][v] = Zero /\ v \notin k[p]
  BY PageFacts
<1> HIDE DEF m, k
<1>6. mem = m
  BY <1>3, <1>4, <1>5, SamePages DEF ViewType
<1>7. mapped = k /\ kept = k
  BY <1>3, <1>4, <1>5, SameSets DEF ViewType
<1>8. region = [i \in Region |-> Zero]
  BY <1>3, <1>4 DEF ViewType
<1>9. alive = {}
  BY <1>3, <1>4 DEF ViewType
<1> QED BY <1>6, <1>7, <1>8, <1>9 DEF LossyMemory!Init, m, k

\* Every step is one of Memory's, or one it does not notice.
LEMMA NextView ==
  IInv /\ View /\ View' /\ [Next]_vars => [LossyMemory!Next]_LossyMemory!vars
<1> SUFFICES ASSUME IInv, View, View', [Next]_vars
             PROVE  LossyMemory!Next \/ UNCHANGED LossyMemory!vars
  OBVIOUS
<1>1. CASE UNCHANGED vars
  BY <1>1, QuietStep DEF vars
<1>2. CASE OpStep
  <2>1. CASE CreatePage
    BY <2>1, CreatePageView
  <2>2. CASE CreateFails
    BY <2>2, CreateFailsView
  <2>3. CASE \E c \in Values : CreateDone(c)
    BY <2>3, CreateDoneView DEF LossyMemory!Next
  <2>4. CASE AllocPage
    BY <2>4, AllocPageView DEF LossyMemory!Next
  <2>5. CASE AllocDone
    BY <2>5, QuietStep DEF AllocDone
  <2> QED BY <1>2, <2>1, <2>2, <2>3, <2>4, <2>5 DEF OpStep
<1>3. ASSUME NEW p \in Pid, ProcStep(p)
      PROVE  LossyMemory!Next \/ UNCHANGED LossyMemory!vars
  <2>1. CASE \E n \in 1 .. MaxCode : CreateBegin(p, n)
    BY <2>1, QuietStep DEF CreateBegin
  <2>2. CASE \E v \in VPage : Read(p, v)
    BY <2>2, QuietStep DEF Read
  <2>3. CASE \E v \in VPage : PageFault(p, v)
    BY <2>3, PageFaultView DEF LossyMemory!Next
  <2>4. CASE \E v \in VPage, c \in Values : Write(p, v, c)
    BY <2>4, WriteView DEF LossyMemory!Next
  <2>5. CASE \E r \in Requests : AllocBegin(p, r)
    BY <2>5, QuietStep DEF AllocBegin
  <2>6. CASE \E v \in HeapPages : FreeMemory(p, v)
    BY <2>6, FreeMemoryView DEF LossyMemory!Next
  <2>7. CASE \E i \in Region : MapSharedMem(p, i)
    BY <2>7, MapSharedMemView DEF LossyMemory!Next
  <2>8. CASE Exit(p)
    BY <2>8, ExitView DEF LossyMemory!Next
  <2> QED BY <1>3, <2>1, <2>2, <2>3, <2>4, <2>5, <2>6, <2>7, <2>8 DEF ProcStep
<1> QED BY <1>1, <1>2, <1>3 DEF Next

\* The virtual memory of OS.cpp and MMU.cpp keeps what Memory promises, for any
\* number of processes, frames and pages: whoever is evicted, freed or exits, a
\* page holds what its process wrote last unless it was clean, nobody else
\* changes it, and a region is changed only by those who mapped it.
THEOREM PagingImplementsMemory == Spec => ImplementsMemory
<1>1. Init => LossyMemory!Init
  BY InitView
<1>2. IInv /\ View /\ View' /\ [Next]_vars => [LossyMemory!Next]_LossyMemory!vars
  BY NextView
<1>3. Spec => []View
  BY InvariantHolds, ViewHolds, PTL
<1> QED BY <1>1, <1>2, <1>3, InvariantHolds, PTL
    DEF Spec, ImplementsMemory, LossyMemory!Spec

=============================================================================
