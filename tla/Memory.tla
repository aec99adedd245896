-------------------------------- MODULE Memory --------------------------------
(***************************************************************************)
(* What virtual memory promises a process: pages of its own, which nobody  *)
(* else reads or writes, and regions it shares.  There are no frames, no   *)
(* LRU list and no disk.  With Lossy, a page may lose its contents to      *)
(* zeroes when it is neither written since it was last brought in nor      *)
(* swapped out, and a region mapped over a page in use may be unmapped; a  *)
(* page that a region is mapped over is given up, written or not.          *)
(***************************************************************************)
EXTENDS Integers

CONSTANTS Pid, VPage, CodePages, HeapPages, Region, SharedVBase, Values, Zero,
          Lossy

VARIABLES alive,    \* the processes there are
          mem,      \* the private pages of a process
          kept,     \* its pages that are safe from being lost
          mapped,   \* its pages that show a shared region
          region    \* the contents of the regions

vars == <<alive, mem, kept, mapped, region>>

Init ==
    /\ alive = {}
    /\ mem = [p \in Pid |-> [v \in VPage |-> Zero]]
    /\ kept = [p \in Pid |-> {}]
    /\ mapped = [p \in Pid |-> {}]
    /\ region = [i \in Region |-> Zero]

\* Pages `lost' of p read as zeroes from now on.
Zeroed(p, lost) ==
    [mem EXCEPT ![p] = [v \in VPage |-> IF v \in lost THEN Zero ELSE @[v]]]

Start(p, code, c) ==
    /\ p \notin alive
    /\ alive' = alive \cup {p}
    /\ mem' = [mem EXCEPT ![p] = [v \in VPage |-> IF v \in code THEN c ELSE Zero]]
    /\ kept' = [kept EXCEPT ![p] = code]
    /\ UNCHANGED <<mapped, region>>

Store(p, v, c) ==
    /\ p \in alive
    /\ v \notin mapped[p]
    /\ mem' = [mem EXCEPT ![p][v] = c]
    /\ kept' = [kept EXCEPT ![p] = @ \cup {v}]
    /\ UNCHANGED <<alive, mapped, region>>

StoreShared(p, i, c) ==
    /\ p \in alive
    /\ SharedVBase + i \in mapped[p]
    /\ region' = [region EXCEPT ![i] = c]
    /\ UNCHANGED <<alive, mem, kept, mapped>>

\* The page under the region is given up: it is not kept any more.
Map(p, i) ==
    /\ p \in alive
    /\ mapped' = [mapped EXCEPT ![p] = @ \cup {SharedVBase + i}]
    /\ kept' = [kept EXCEPT ![p] = @ \ {SharedVBase + i}]
    /\ UNCHANGED <<alive, mem, region>>

Free(p, pages) ==
    /\ p \in alive
    /\ mem' = Zeroed(p, pages)
    /\ kept' = [kept EXCEPT ![p] = @ \ pages]
    /\ UNCHANGED <<alive, mapped, region>>

\* Pages of p are brought in, and other pages make room for them: what is not
\* kept may be lost, and a region unmapped, so that the page it hid, which may
\* be kept from now on, comes to light.  Only p's own pages cease to be kept.
BringIn(p) ==
    /\ p \in alive
    /\ Lossy \/ UNCHANGED mapped
    /\ \A q \in Pid :
         /\ mapped'[q] \subseteq mapped[q]
         /\ kept'[q] \subseteq kept[q] \cup (mapped[q] \ mapped'[q])
         /\ q # p => kept[q] \subseteq kept'[q]
         /\ \A v \in VPage : mem'[q][v] # mem[q][v] =>
               Lossy /\ v \notin kept[q] /\ mem'[q][v] = Zero
    /\ UNCHANGED <<alive, region>>

End(p) ==
    /\ p \in alive
    /\ alive' = alive \ {p}
    /\ mem' = Zeroed(p, VPage)
    /\ kept' = [kept EXCEPT ![p] = {}]
    /\ mapped' = [mapped EXCEPT ![p] = {}]
    /\ UNCHANGED region

Next ==
    \E p \in Pid :
        \/ BringIn(p)
        \/ \E code \in SUBSET CodePages, c \in Values : Start(p, code, c)
        \/ \E v \in VPage, c \in Values : Store(p, v, c)
        \/ \E i \in Region, c \in Values : StoreShared(p, i, c)
        \/ \E i \in Region : Map(p, i)
        \/ \E pages \in SUBSET HeapPages : Free(p, pages)
        \/ End(p)

Spec == Init /\ [][Next]_vars
=============================================================================
