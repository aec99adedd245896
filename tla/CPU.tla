--------------------------------- MODULE CPU ---------------------------------
(***************************************************************************)
(* The CPU of CPU.cpp and the memory it sees through the MMU, with several *)
(* processes taking turns (all of one priority): fetch, decode and execute *)
(* on the bytes of the assembled program, page faults in the middle of an  *)
(* instruction and its retry, the quantum, traps, and saving and loading   *)
(* the registers.                                                          *)
(*                                                                         *)
(* One call of CPU::step is one action: nobody else runs during it.  It    *)
(* goes through its byte accesses in order until one is refused; what it   *)
(* has done until then stays done.  An evicted page is saved if it is      *)
(* dirty; a page that is not on the disk comes in as zeroes.  Pages that a *)
(* trap handler would map come in at the first access.                     *)
(***************************************************************************)
EXTENDS Assembler

CONSTANTS NumProcs,    \* number of processes
          NoProc,      \* nobody is running
          Programs,    \* the sources a process may be created from
          CodeBase,    \* pcb.codeBase
          Others,      \* the addresses of data, heap and stack
          StackTop,    \* pcb.stackTop
          PageSize,    \* MMU::PAGE_SIZE
          NumFrames,   \* frames that are not pinned
          Quantum,     \* pcb.timeQuantum
          Returns,     \* what handleAlloc_ and MapSharedMem put into a register
          Outsiders    \* bound: how often other processes take a frame

Proc  == 1 .. NumProcs
Pages == Proc \X Int
Words == 0 .. WordMod - 1

ASSUME CPUAssumption ==
    /\ NumProcs \in Nat \ {0} /\ NumFrames \in Nat \ {0} /\ Quantum \in Nat \ {0}
    /\ NoProc \notin Proc
    /\ PageSize \in Nat \ {0} /\ CodeBase \in Words /\ StackTop \in Words
    /\ Others \subseteq Words /\ Returns \subseteq Int
    /\ Outsiders \in Nat

\* Of a program that does not assemble there is no process.
ASSUME ProgramsAssumption ==
    /\ Programs \subseteq Seq(Seq(Lexeme))
    /\ \A src \in Programs : \A k \in 1 .. Len(src) : AssembleLine(src[k]) # Error

VARIABLES source,      \* the text each process was created from
          cpu,         \* regs_, ip_, sp_, the flags and the trap registers
          pcb,         \* the same, saved, for each process
          active,      \* the process whose registers are in the CPU
          steps,       \* `steps' of CPU::Run
          ready,       \* ready_, one level of it
          status,      \* "ready", "waiting" or "dead"
          mem,         \* the bytes of each process: in its frames, on the disk
          dirty,       \* isDirty: pages written to since they were brought in
          disk,        \* the pages in disk_
          lru,         \* lruList_ without the pinned frames: <<process, page>>
          taken,       \* how often a process not modelled has taken a frame
          out,         \* what a process printed, and the traps the OS saw
          committed    \* auxiliary: memory and sp as the last instruction that
                       \* went through has left them

vars == <<source, cpu, pcb, active, steps, ready, status, mem, dirty, disk, lru,
          taken, out, committed>>

Image(src) == FlattenSeq([k \in 1 .. Len(src) |-> AssembleLine(src[k])])
PageOf(a)  == a \div PageSize

\* The order the pages of p's code are touched in when it is loaded.
CodePages(p) ==
    LET first == PageOf(CodeBase)
        last  == PageOf(CodeBase + Len(Image(source[p])) - 1)
    IN  [k \in 1 .. last - first + 1 |-> <<p, first + k - 1>>]

\* The registers in a new PCB; of those no instruction can name, r15 is used.
NewPCB == [regs |-> [r \in Reg \cup {15} |-> 0], ip |-> CodeBase, sp |-> StackTop,
           zero |-> FALSE, sign |-> FALSE, trapA |-> 0, trapB |-> 0]

\* After createProcessFromAsm for every process; loadIntoMemory has written to
\* the code pages.
Init ==
    /\ source \in [Proc -> Programs]
    /\ mem = [p \in Proc |->
                LET code == Image(source[p])
                IN  [a \in (CodeBase .. CodeBase + Len(code) - 1) \cup Others |->
                        IF a \in Others THEN 0 ELSE code[a - CodeBase + 1]]]
    /\ pcb = [p \in Proc |-> NewPCB]
    /\ cpu = pcb[1]
    /\ active = NoProc
    /\ steps = 0
    /\ ready = [p \in Proc |-> p]
    /\ status = [p \in Proc |-> "ready"]
    /\ lru = Reverse(FlattenSeq([p \in Proc |-> CodePages(p)]))
    /\ Len(lru) <= NumFrames
    /\ dirty = ToSet(lru)
    /\ disk = {}
    /\ taken = 0
    /\ out = [p \in Proc |-> <<>>]
    /\ committed = [p \in Proc |-> [mem |-> mem[p], sp |-> StackTop]]

-----------------------------------------------------------------------------
(***************************************************************************)
(* The instruction at ip_: its three words and the bytes it goes on to     *)
(* access.                                                                 *)
(***************************************************************************)
memory == mem[active]

FetchAt    == WordAt(cpu.ip) \o WordAt(cpu.ip + WordLen) \o WordAt(cpu.ip + 2 * WordLen)
Fetched(j) == WordOf([k \in 1 .. WordLen |-> memory[FetchAt[j * WordLen + k]]])

Op  == Mnemonics[Fetched(0)]
opA == Fetched(1)
opB == Fetched(2)
RA  == cpu.regs[opA]
RB  == cpu.regs[opB]

\* A slip: the instruction is taken for one without its second operand.
MutIp == AsUint32(cpu.ip + 2 * WordLen)

ip == AsUint32(cpu.ip + InstrLen)

\* The opcode is known and checkReg does not throw.
Decodes ==
    /\ Fetched(0) \in 1 .. Len(Mnemonics)
    /\ Op \in RegisterA => opA \in Reg
    /\ Op \in RegisterB => opB \in Reg

Pushes == {"pushi", "pushr", "call", "callm"}
Pops   == {"popr", "popm", "ret"}

ReadAt ==
    CASE Op \in {"movmr", "movmm"}  -> WordAt(RB)
      [] Op \in {"printm", "callm"} -> WordAt(RA)
      [] Op = "printcm"             -> <<AsUint32(RA)>>
      [] Op \in Pops                -> WordAt(cpu.sp)
      [] OTHER                      -> <<>>

WriteAt ==
    CASE Op \in {"movrm", "movmm", "popm"} -> WordAt(RA)
      [] Op \in Pushes                     -> WordAt(cpu.sp - WordLen)
      [] OTHER                             -> <<>>

\* MMU::translate throws: the address is out of bounds, or its page is not in
\* memory.
Refused(a) == a \notin DOMAIN memory \/ ~Contains(lru, <<active, PageOf(a)>>)

FetchRefused == \E k \in 1 .. InstrLen : Refused(FetchAt[k])

\* callm pushes before it reads, the others read first.
Accesses ==
    IF FetchRefused \/ ~Decodes THEN FetchAt
    ELSE IF Op = "callm" THEN FetchAt \o WriteAt \o ReadAt
    ELSE FetchAt \o ReadAt \o WriteAt

\* The position of the access that is refused, 0 if none; how many are done.
RefusedAt == SelectInSeq(Accesses, Refused)
Done      == IF RefusedAt = 0 THEN Len(Accesses) ELSE RefusedAt - 1

Completes == RefusedAt = 0 /\ Decodes
Faults    == RefusedAt # 0 /\ Accesses[RefusedAt] \in DOMAIN memory
Throws    == ~Completes /\ ~Faults

-----------------------------------------------------------------------------
(***************************************************************************)
(* What has happened after the first Done accesses.                        *)
(***************************************************************************)
ReadWord == WordOf([k \in 1 .. WordLen |-> memory[ReadAt[k]]])

WriteWord ==
    CASE Op = "movrm"             -> AsUint32(RB)
      [] Op = "pushr"             -> AsUint32(RA)
      [] Op = "pushi"             -> opA
      [] Op \in {"call", "callm"} -> ip
      [] OTHER                    -> ReadWord

\* write32 writes byte after byte.
Written ==
    LET before == InstrLen + (IF Op = "callm" THEN 0 ELSE Len(ReadAt))
        k(a)   == SelectInSeq(WriteAt, LAMBDA x : x = a)
    IN  IF Done <= InstrLen THEN memory
        ELSE [a \in DOMAIN memory |->
                IF k(a) # 0 /\ before + k(a) <= Done THEN BytesOf(WriteWord)[k(a)]
                ELSE memory[a]]

\* translate marks the pages of these bytes.
Dirtied ==
    LET before == InstrLen + (IF Op = "callm" THEN 0 ELSE Len(ReadAt))
    IN  IF Done <= InstrLen THEN dirty
        ELSE dirty \cup {<<active, PageOf(WriteAt[k])>> :
                            k \in DOMAIN WriteAt \cap (1 .. Done - before)}

\* A push moves sp_ before it writes, a pop after it has read.
Sp ==
    IF Done < InstrLen \/ ~Decodes THEN cpu.sp
    ELSE IF Op \in Pushes THEN AsUint32(cpu.sp - WordLen)
    ELSE IF Op \in Pops /\ Done >= InstrLen + WordLen THEN AsUint32(cpu.sp + WordLen)
    ELSE cpu.sp

\* The word the instruction has read; callm may read what it pushed.
Loaded ==
    IF Op = "callm" THEN WordOf([k \in 1 .. WordLen |-> Written[ReadAt[k]]]) ELSE ReadWord

\* A slip: the page is not taken out where it was.
MutTouch(pg) == [l \in Seq(Pages) |-> <<pg>> \o l]

\* touchPhysPage, which every access goes through: the page comes first.
Touch(pg) == [l \in Seq(Pages) |-> <<pg>> \o Without(l, {pg})]

Touched ==
    LET at   == Accesses
        done == Done
        order[k \in 0 .. done] ==
            IF k = 0 THEN lru ELSE Touch(<<active, PageOf(at[k])>>)[order[k - 1]]
    IN  order[done]

-----------------------------------------------------------------------------
(***************************************************************************)
(* CPU::execute, when no access is refused.                                *)
(***************************************************************************)
Immediates == {"acquirelocki", "releaselocki", "signaleventi", "waiteventi"}

RegsAfter ==
    LET A(v) == [cpu.regs EXCEPT ![opA] = v]
    IN  CASE Op = "movi"              -> A(AsInt32(opB))
          [] Op = "movr"              -> A(RB)
          [] Op \in {"movmr", "popr"} -> A(AsInt32(Loaded))
          [] Op = "incr"              -> A(RA + 1)
          [] Op = "addi"              -> A(RA + AsInt32(opB))
          [] Op = "addr"              -> A(RA + RB)
          [] Op \in Immediates        -> [cpu.regs EXCEPT ![1] = opA]
          [] Op = "mapsharedmem"      -> [cpu.regs EXCEPT ![15] = opB]
          [] OTHER                    -> cpu.regs

Condition ==
    CASE Op \in {"jlt", "jlti", "jlta"} -> cpu.sign
      [] Op \in {"jgt", "jgti", "jgta"} -> ~cpu.sign /\ ~cpu.zero
      [] Op \in {"je", "jei", "jea"}    -> cpu.zero
      [] OTHER                          -> TRUE

IpAfter ==
    IF ~Condition THEN ip ELSE
    CASE Op \in {"jmp", "jlt", "jgt", "je", "call"} -> AsUint32(ip + RA)
      [] Op \in {"jmpi", "jlti", "jgti", "jei"}    -> AsUint32(ip + AsInt32(opA))
      [] Op \in {"jmpa", "jlta", "jgta", "jea"}    -> opA
      [] Op = "callm"                              -> AsUint32(ip + AsInt32(Loaded))
      [] Op = "ret"                                -> Loaded
      [] OTHER                                     -> ip

Compared == IF Op = "cmpi" THEN AsInt32(opB) ELSE RB

Executed ==
    LET cmp == Op \in {"cmpi", "cmpr"}
    IN  [regs  |-> RegsAfter,
         ip    |-> IpAfter,
         sp    |-> Sp,
         zero  |-> IF cmp THEN RA = Compared ELSE cpu.zero,
         sign  |-> IF cmp THEN RA < Compared ELSE cpu.sign,
         trapA |-> IF Op \in {"alloc", "freememory"} THEN opA ELSE cpu.trapA,
         trapB |-> IF Op = "alloc" THEN opB ELSE cpu.trapB]

Printed ==
    CASE Op = "printr"  -> <<RA>>
      [] Op = "printm"  -> <<AsInt32(Loaded)>>
      [] Op = "printcr" -> <<RA % ByteMod>>
      [] Op = "printcm" -> <<memory[AsUint32(RA)]>>
      [] OTHER          -> <<>>

\* The Trap that execute returns; an instruction not in here returns None.
TrapOf ==
    [sleep |-> "sleep", alloc |-> "alloc", freememory |-> "freememory",
     mapsharedmem |-> "mapsharedmem", input |-> "input", inputc |-> "input",
     acquirelock |-> "acquirelock", acquirelocki |-> "acquirelock",
     releaselock |-> "releaselock", releaselocki |-> "releaselock",
     signalevent |-> "signalevent", signaleventi |-> "signalevent",
     waitevent |-> "waitevent", waiteventi |-> "waitevent", exit |-> "exit"]

-----------------------------------------------------------------------------
(***************************************************************************)
(* Context switches.                                                       *)
(***************************************************************************)
\* A slip: the flags are not loaded.
MutLoadFrom(in) ==
    [cpu EXCEPT !.regs = in.regs, !.ip = in.ip, !.sp = in.sp,
                !.trapA = in.trapA, !.trapB = in.trapB]

LoadFrom(in) ==
    [cpu EXCEPT !.regs = in.regs, !.ip = in.ip, !.sp = in.sp, !.zero = in.zero,
                !.sign = in.sign, !.trapA = in.trapA, !.trapB = in.trapB]

\* contextSwitchOut_: saveTo copies the registers `c'.
SwitchOut(c) ==
    /\ pcb' = [pcb EXCEPT ![active] = c]
    /\ active' = NoProc
    /\ UNCHANGED cpu

\* contextSwitchTo_, and the call of CPU::Run.
SwitchTo ==
    /\ active = NoProc
    /\ ready # <<>>
    /\ active' = Head(ready)
    /\ ready' = Tail(ready)
    /\ cpu' = LoadFrom(pcb[Head(ready)])
    /\ steps' = 0
    /\ UNCHANGED <<source, pcb, status, mem, dirty, disk, lru, taken, out, committed>>

QuantumExpired ==
    /\ active # NoProc
    /\ steps = Quantum
    /\ SwitchOut(cpu)
    /\ ready' = Append(ready, active)
    /\ UNCHANGED <<source, steps, status, mem, dirty, disk, lru, taken, out, committed>>

\* CPU::step goes through with Trap::None.
Execute ==
    /\ active # NoProc
    /\ steps < Quantum
    /\ Completes
    /\ Op \notin DOMAIN TrapOf
    /\ cpu' = Executed
    /\ mem' = [mem EXCEPT ![active] = Written]
    /\ dirty' = Dirtied
    /\ committed' = [committed EXCEPT ![active] = [mem |-> Written, sp |-> Sp]]
    /\ out' = [out EXCEPT ![active] = @ \o Printed]
    /\ lru' = Touched
    /\ steps' = steps + 1
    /\ UNCHANGED <<source, pcb, active, ready, status, disk, taken>>

\* The operand of a trap, as run() reads it from the saved registers: `c.trapA'
\* names the register of the heap traps, the other ones look at r1.
Request(t, c) ==
    CASE t = "alloc"      -> <<<<t, c.regs[c.trapA]>>>>
      [] t = "freememory" -> <<<<t, AsUint32(c.regs[c.trapA])>>>>
      [] t = "sleep"      -> <<<<t, c.regs[1]>>>>
      [] t = "input"      -> <<>>
      [] OTHER            -> <<<<t, AsInt32(c.regs[1])>>>>

\* The registers a handler answers in; a region that does not exist gets none.
Answers(t, c) ==
    CASE t = "alloc"        -> {[c EXCEPT !.regs[c.trapB] = r] : r \in Returns}
      [] t = "mapsharedmem" -> {[c EXCEPT !.regs[c.regs[15]] = r] : r \in Returns} \cup {c}
      [] OTHER              -> {c}

\* A trap other than Exit.  Its handler requeues the process, or leaves it to
\* wait for its time, a lock or an event.
TrapToOS ==
    /\ active # NoProc
    /\ steps < Quantum
    /\ Completes
    /\ Op \in DOMAIN TrapOf \ {"exit"}
    /\ out' = [out EXCEPT ![active] = @ \o Request(TrapOf[Op], Executed)]
    /\ \E c \in Answers(TrapOf[Op], Executed) : SwitchOut(c)
    /\ \/ /\ TrapOf[Op] # "sleep"
          /\ ready' = Append(ready, active)
          /\ UNCHANGED status
       \/ /\ TrapOf[Op] \in {"sleep", "acquirelock", "waitevent"}
          /\ status' = [status EXCEPT ![active] = "waiting"]
          /\ UNCHANGED ready
    /\ lru' = Touched
    /\ UNCHANGED <<source, steps, mem, dirty, disk, taken, committed>>

\* The wait is over.
Wake(p) ==
    /\ active = NoProc
    /\ status[p] = "waiting"
    /\ status' = [status EXCEPT ![p] = "ready"]
    /\ ready' = Append(ready, p)
    /\ UNCHANGED <<source, cpu, pcb, active, steps, mem, dirty, disk, lru, taken, out, committed>>

\* A slip: no page is given up.
MutNoVictim(l) == l

\* evictOnePage_ takes the page at the end of the list.
Evicted(l) == Front(l)

\* A slip: the clean ones are saved.
MutSaved(l, d) == (ToSet(l) \ ToSet(Evicted(l))) \ d

\* It saves the page if it is among the dirty ones.
Saved(l, d) == (ToSet(l) \ ToSet(Evicted(l))) \cap d

\* A slip: the page comes in at the end of the list.
MutBroughtIn(pg, l) == Append(l, pg)

\* The page that is brought in is marked as the last one used.
BroughtIn(pg, l) == Touch(pg)[l]

\* Page v of the active process, whose memory is m, is filled from the disk, or
\* with zeroes.
SwappedIn(v, m) ==
    IF <<active, v>> \in disk THEN m
    ELSE [a \in DOMAIN m |-> IF PageOf(a) = v THEN 0 ELSE m[a]]

\* A slip: ip_ stays behind the instruction.
MutRestartIP == ip

\* step() puts ip_ back, and only that.
RestartIP == cpu.ip

\* A page fault: step() rethrows it, the OS saves the registers as they are,
\* brings the page in, clean and no longer on the disk, and requeues the process.
PageFault ==
    /\ active # NoProc
    /\ steps < Quantum
    /\ Faults
    /\ SwitchOut([cpu EXCEPT !.ip = RestartIP, !.sp = Sp])
    /\ \E v \in {PageOf(Accesses[RefusedAt])}, m \in {Written}, l \in {Touched} :
         /\ mem' = [mem EXCEPT ![active] = SwappedIn(v, m)]
         /\ lru' = BroughtIn(<<active, v>>, IF Len(lru) < NumFrames THEN l ELSE Evicted(l))
         /\ disk' = (IF Len(lru) < NumFrames THEN disk ELSE disk \cup Saved(l, Dirtied))
                       \ {<<active, v>>}
         /\ dirty' = Dirtied \ {<<active, v>>}
    /\ ready' = Append(ready, active)
    /\ UNCHANGED <<source, steps, status, taken, out, committed>>

\* Trap::Exit, or an exception that ends the process: its frames are freed, its
\* pages on the disk discarded.
Terminate ==
    /\ active # NoProc
    /\ steps < Quantum
    /\ Throws \/ (Completes /\ Op = "exit")
    /\ SwitchOut([cpu EXCEPT !.ip = IF Done < InstrLen THEN @ ELSE ip, !.sp = Sp])
    /\ mem' = [mem EXCEPT ![active] = Written]
    /\ status' = [status EXCEPT ![active] = "dead"]
    /\ lru' = Without(lru, {x \in ToSet(lru) : x[1] = active})
    /\ dirty' = {x \in dirty : x[1] # active}
    /\ disk' = {x \in disk : x[1] # active}
    /\ UNCHANGED <<source, steps, ready, taken, out, committed>>

\* A process that is not modelled faults: the frame at the end of the list is
\* its own from now on, for a while.
OutsiderFaults ==
    /\ taken < Outsiders
    /\ active = NoProc
    /\ lru # <<>>
    /\ lru' = Evicted(lru)
    /\ disk' = disk \cup Saved(lru, dirty)
    /\ taken' = taken + 1
    /\ UNCHANGED <<source, cpu, pcb, active, steps, ready, status, mem, dirty, out,
                   committed>>

Next ==
    \/ SwitchTo \/ QuantumExpired
    \/ Execute \/ TrapToOS \/ PageFault \/ Terminate
    \/ OutsiderFaults
    \/ \E p \in Proc : Wake(p)

Spec == Init /\ [][Next]_vars

\* The OS is one thread that never stops by itself; a wait ends.
FairSpec == Spec /\ WF_vars(Next) /\ \A p \in Proc : WF_vars(Wake(p))

-----------------------------------------------------------------------------
(***************************************************************************)
(* Properties.                                                             *)
(***************************************************************************)
\* The registers, those of a PCB or those of the CPU.
CPUState == [regs : [Reg \cup {15} -> Int], ip : Words, sp : Words,
             zero : BOOLEAN, sign : BOOLEAN, trapA : Words, trapB : Words]

\* Bytes, addresses and the step counter stay in range, and no more pages are
\* resident than there are frames.
TypeOK ==
    /\ active \in Proc \cup {NoProc}
    /\ steps \in 0 .. Quantum
    /\ ready \in Seq(Proc)
    /\ status \in [Proc -> {"ready", "waiting", "dead"}]
    /\ cpu \in CPUState
    /\ pcb \in [Proc -> CPUState]
    /\ DOMAIN mem = Proc
    /\ \A p \in Proc : \A a \in DOMAIN mem[p] : mem[p][a] \in Byte
    /\ lru \in Seq(Pages)
    /\ Len(lru) <= NumFrames
    /\ dirty \subseteq Pages /\ disk \subseteq Pages
    /\ taken \in 0 .. Outsiders

\* No page is in two frames, however its accesses, its faults and the evictions
\* between them follow each other, and no frame is left to a process that has
\* ended.
FramesHeld ==
    /\ IsInjective(lru)
    /\ \A k \in DOMAIN lru : status[lru[k][1]] # "dead"

\* The processes get their work done: with enough frames for an instruction
\* of each, the faults an instruction takes come to an end.  (A process that is
\* Tame is dead only where its program ends; a lost page would kill it, too.)
AllFinish == <>(\A p \in Proc : status[p] = "dead")
=============================================================================
