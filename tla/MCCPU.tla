-------------------------------- MODULE MCCPU --------------------------------
(***************************************************************************)
(* Instances of CPU for TLC.  A byte has 16 values, a word two bytes, an   *)
(* instruction six, and a page eight, so instructions and words lie across *)
(* pages.  Code starts at 8; 64 .. 79 is data and 112 .. 127 the stack.    *)
(***************************************************************************)
EXTENDS CPUMeaning

DataAndStack == (64 .. 79) \cup (112 .. 127)

\* A line of source, with operands in registers (r) and immediates (i, n).
Do(m)       == <<<<"name", m>>>>
r(m, a)     == <<<<"name", m>>, <<"r", a>>>>
i(m, a)     == <<<<"name", m>>, <<"#", a>>>>
n(m, a)     == <<<<"name", m>>, <<"int", a>>>>
ri(m, a, b) == <<<<"name", m>>, <<"r", a>>, <<",", 0>>, <<"#", b>>>>
rr(m, a, b) == <<<<"name", m>>, <<"r", a>>, <<"r", b>>>>
movi(a, b)  == ri("movi", a, b)
exit        == Do("exit")

\* Loads, stores and copies, words across two pages, a loop and jumps.
StoreAndLoad == <<movi(1, 71), movi(2, -3), rr("movrm", 1, 2), rr("movmr", 3, 1),
                  r("printr", 3), r("printcm", 1), exit>>
Copy         == <<movi(1, 71), movi(2, 64), rr("movrm", 2, 1), rr("movmm", 1, 2),
                  r("printm", 1), exit>>
Loop         == <<movi(1, 2), ri("addi", 1, -1), ri("cmpi", 1, 0), i("jgti", -18),
                  r("printr", 1), exit>>
Jumps        == <<movi(1, 6), rr("cmpr", 1, 2), r("jgt", 1), exit, i("jlti", 6),
                  i("jmpa", 44), r("printcr", 1)>>
OutOfBounds  == <<movi(1, 79), rr("movrm", 1, 1), r("printr", 1), exit>>

\* Pushes, pops and calls, after a read that brings the pages in.
TouchStack == <<movi(1, 124), rr("movmr", 2, 1)>>
PushPop    == TouchStack \o <<i("pushi", -2), r("pushr", 1), r("popr", 3), r("popr", 4),
                              r("printr", 4), exit>>
CallRet    == TouchStack \o <<movi(3, 6), r("call", 3), exit, r("printr", 3), Do("ret")>>
CallMem    == TouchStack \o <<movi(4, 64), movi(5, 6), rr("movrm", 4, 5), r("callm", 4),
                              exit, r("incr", 5), Do("ret")>>
PopMem     == TouchStack \o <<movi(4, 64), rr("movmr", 5, 4), i("pushi", 9), r("popm", 4),
                              r("printm", 4), exit>>
Equal      == <<movi(1, -1), rr("movr", 2, 1), rr("cmpr", 1, 2), i("jea", 38), exit,
                rr("addr", 1, 2), r("printr", 1), exit>>
Less       == <<ri("cmpi", 1, 1), movi(2, 6), r("jlt", 2), exit, i("jei", 6),
                i("jlta", 8), exit>>
Traps      == <<movi(1, 1), r("sleep", 1), r("acquirelock", 1), n("waiteventi", 0),
                r("input", 1), ri("setpriority", 1, 3), exit>>
Requests   == <<movi(1, 3), rr("alloc", 1, 2), rr("mapsharedmem", 1, 3),
                r("freememory", 2), n("releaselocki", -1), r("signalevent", 1), exit>>
Waits      == <<movi(1, 1), r("waitevent", 1), n("acquirelocki", 12), r("releaselock", 1),
                n("signaleventi", 0), r("inputc", 1), i("setpriorityi", 3), exit>>
Forward    == <<movi(1, 6), r("jmp", 1), exit, ri("cmpi", 1, 0), i("jgta", 44), exit,
                r("printr", 1), exit>>
Same       == <<i("jmpi", 6), exit, movi(1, 6), ri("cmpi", 2, 0), r("je", 1), exit,
                r("printr", 1), exit>>
\* The stack pointer is not moved, and no loop is so long that it comes back to
\* a page that may be evicted twice.
StackSafe   == {StoreAndLoad, Copy, Loop, Jumps, OutOfBounds, Equal, Forward, Same,
                Traps, Requests, Waits}
AllPrograms == {PushPop, CallRet, CallMem, PopMem, Loop, Equal, Less, Traps, Requests,
                Waits, Forward, Same}

\* The copy needs six pages at once: its own two, two to read and two to write.
WideCopy  == <<movi(1, 71), movi(2, 119), rr("movmm", 2, 1), exit>>
Finishing == {WideCopy, StoreAndLoad, Copy, Loop, Jumps}

\* One word pushed and popped: the program of the test of first pushes.
Push == {<<movi(1, 42), r("pushr", 1), r("popr", 2), r("printr", 2), exit>>}

Answer == {0, 64}

Second == INSTANCE CPUMeaning WITH me <- 2

\* The other process, too, runs as its source says, through its own faults,
\* retries and switches.
SecondRunsAsWritten == Second!RunsAsWritten

\* Nobody runs into what is no instruction of its program, changes its code,
\* meets one of the faults whose retry does an instruction twice, or comes back
\* to a page that is lost: what the proofs about RunsAsWritten ask for.
BothTame == Tame /\ Second!Tame
=============================================================================
