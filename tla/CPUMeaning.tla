----------------------------- MODULE CPUMeaning -----------------------------
(***************************************************************************)
(* What a process of CPU means to the program it was created from: it is   *)
(* an execution of its own source on a machine it has for itself, the one  *)
(* of ISA.                                                                 *)
(***************************************************************************)
EXTENDS CPU

CONSTANT me  \* the process that is looked at

ASSUME MeAssumption == me \in Proc

\* The registers of the process, wherever they are.
Registers == IF active = me THEN cpu ELSE pcb[me]

Meaning == INSTANCE ISA WITH
    source <- [k \in DOMAIN source[me] |-> Tokens(source[me][k])],
    regs   <- [r \in Reg |-> Registers.regs[r]],
    ip     <- Registers.ip,
    sp     <- committed[me].sp,
    zero   <- Registers.zero,
    sign   <- Registers.sign,
    mem    <- committed[me].mem,
    out    <- out[me],
    alive  <- status[me] # "dead"

\* The process runs as its source says, whatever faults, evictions, retries
\* and context switches come in between: an instruction takes effect once and
\* as a whole, and an attempt that faults has none.
RunsAsWritten == Meaning!Spec

-----------------------------------------------------------------------------
(***************************************************************************)
(* The executions it is proved for.                                        *)
(***************************************************************************)
\* The handlers of these traps look at r1, whatever register is named.
InR1 == {"sleep", "acquirelock", "releaselock", "signalevent", "waitevent",
         "mapsharedmem"}

\* No blank lines, no number that a word cannot hold, and r1 named where r1 is
\* meant.
Plain(src) ==
    \A k \in DOMAIN src :
        LET t == Tokens(src[k])
        IN  /\ t # <<>>
            /\ \A j \in 2 .. Len(t) : t[j][1] # "name" => t[j][2] = AsInt32(t[j][2])
            /\ t[1][2] \in InR1 => t[2][2] = 1

\* The code lies below the end of the address space and is still what was
\* loaded.
CodeIntact ==
    LET code == Image(source[me])
    IN  /\ CodeBase + Len(code) <= WordMod
        /\ \A k \in 1 .. Len(code) : mem[me][CodeBase + k - 1] = code[k]

\* A page that is brought in has what was in it: it is on the disk, or had only
\* zeroes.  A page that was evicted while it was clean may be neither.
FaultsRestore ==
    active = me /\ Faults =>
        \E v \in {PageOf(Accesses[RefusedAt])} :
            \/ <<me, v>> \in disk
            \/ \A a \in DOMAIN memory : PageOf(a) = v => memory[a] = 0

\* Nothing is executed that is not an instruction of the program.
StaysInCode == active = me /\ ~FetchRefused /\ Decodes => Meaning!InCode

\* No page fault comes behind a push or a pop, and one in the middle of a copy
\* leaves what is copied alone.
FaultsHarmless ==
    active = me /\ Faults /\ ~FetchRefused =>
        /\ Op \notin Pushes
        /\ Op = "popm" => \E k \in 1 .. WordLen : Refused(ReadAt[k])
        /\ Op = "movmm" => \A k, l \in 1 .. WordLen : ReadAt[k] # WriteAt[l]

\* The process does not write to its code or run what is no instruction of it,
\* gets none of the faults whose retry does an instruction twice, and gets back
\* the pages it comes back to.
Tame ==
    Plain(source[me]) /\ CodeIntact /\ StaysInCode /\ FaultsHarmless /\ FaultsRestore
=============================================================================
