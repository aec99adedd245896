--------------------------------- MODULE ISA ---------------------------------
(***************************************************************************)
(* What an assembly program means: one process, alone, with its memory all *)
(* there.  Every instruction of the source is one step, on the numbers as  *)
(* they are written.  An instruction that touches an address outside the   *)
(* process's memory, or control that leaves the program, ends the process. *)
(***************************************************************************)
EXTENDS Machine

CONSTANTS CodeBase,  \* where the program starts
          Returns    \* what Alloc and MapSharedMem may return

VARIABLES source,    \* the program: its lines, as tokens
          regs, ip, sp, zero, sign,
          mem,       \* the process's bytes
          out,       \* what the process printed, and what it asked the OS for
          alive

vars == <<source, regs, ip, sp, zero, sign, mem, out, alive>>

Index == ((ip - CodeBase) \div InstrLen) + 1
Line  == source[Index]
InCode == Index \in DOMAIN source /\ (ip - CodeBase) % InstrLen = 0

Op     == Line[1][2]
Dest   == Line[2][2]
Val(k) == IF Line[k][1] = "r" THEN regs[Line[k][2]] ELSE Line[k][2]
After  == AsUint32(ip + InstrLen)
Jumped(offset) == AsUint32(After + offset)

Word(m, a) == WordOf([k \in 1 .. WordLen |-> m[WordAt(a)[k]]])
Load(a)    == AsInt32(Word(mem, a))
Stored(a, v) ==
    [x \in DOMAIN mem |->
        LET k == SelectInSeq(WordAt(a), LAMBDA y : y = x)
        IN  IF k # 0 THEN BytesOf(AsUint32(v))[k] ELSE mem[x]]

\* The addresses the instruction needs.
Touches ==
    LET W(a) == {WordAt(a)[k] : k \in 1 .. WordLen}
    IN  CASE Op = "movmr"               -> W(Val(3))
          [] Op \in {"movrm", "printm"} -> W(Val(2))
          [] Op = "movmm"               -> W(Val(2)) \cup W(Val(3))
          [] Op = "printcm"             -> {AsUint32(Val(2))}
          [] Op \in {"pushi", "pushr", "call"} -> W(sp - WordLen)
          [] Op = "callm"               -> W(sp - WordLen) \cup W(Val(2))
          [] Op \in {"popr", "ret"}     -> W(sp)
          [] Op = "popm"                -> W(sp) \cup W(Val(2))
          [] OTHER                      -> {}

Runs == alive /\ InCode /\ Touches \subseteq DOMAIN mem

SetReg(v) == regs' = [regs EXCEPT ![Dest] = v]

-----------------------------------------------------------------------------
Move ==
    /\ \/ Op \in {"movi", "movr"} /\ SetReg(Val(3))
       \/ Op \in {"addi", "addr"} /\ SetReg(Val(2) + Val(3))
       \/ Op = "incr"             /\ SetReg(Val(2) + 1)
       \/ Op = "movmr"            /\ SetReg(Load(Val(3)))
    /\ ip' = After
    /\ UNCHANGED <<sp, zero, sign, mem, out>>

Store ==
    /\ \/ Op = "movrm" /\ mem' = Stored(Val(2), Val(3))
       \/ Op = "movmm" /\ mem' = Stored(Val(2), Load(Val(3)))
    /\ ip' = After
    /\ UNCHANGED <<regs, sp, zero, sign, out>>

Compare ==
    /\ Op \in {"cmpi", "cmpr"}
    /\ zero' = (Val(2) = Val(3))
    /\ sign' = (Val(2) < Val(3))
    /\ ip' = After
    /\ UNCHANGED <<regs, sp, mem, out>>

PrintOut ==
    /\ \/ Op = "printr"  /\ out' = Append(out, Val(2))
       \/ Op = "printm"  /\ out' = Append(out, Load(Val(2)))
       \/ Op = "printcr" /\ out' = Append(out, Val(2) % ByteMod)
       \/ Op = "printcm" /\ out' = Append(out, mem[AsUint32(Val(2))])
    /\ ip' = After
    /\ UNCHANGED <<regs, sp, zero, sign, mem>>

Taken ==
    \/ Op \in {"jmp", "jmpi", "jmpa"}
    \/ Op \in {"jlt", "jlti", "jlta"} /\ sign
    \/ Op \in {"jgt", "jgti", "jgta"} /\ ~sign /\ ~zero
    \/ Op \in {"je", "jei", "jea"}    /\ zero

Jump ==
    /\ Op \in {"jmp", "jmpi", "jmpa", "jlt", "jlti", "jlta", "jgt", "jgti", "jgta",
               "je", "jei", "jea"}
    /\ ip' = IF ~Taken THEN After
             ELSE IF Op \in {"jmpa", "jlta", "jgta", "jea"} THEN AsUint32(Val(2))
             ELSE Jumped(Val(2))
    /\ UNCHANGED <<regs, sp, zero, sign, mem, out>>

Push ==
    /\ Op \in {"pushi", "pushr"}
    /\ sp' = AsUint32(sp - WordLen)
    /\ mem' = Stored(sp - WordLen, Val(2))
    /\ ip' = After
    /\ UNCHANGED <<regs, zero, sign, out>>

Call ==
    /\ Op \in {"call", "callm"}
    /\ sp' = AsUint32(sp - WordLen)
    /\ mem' = Stored(sp - WordLen, After)
    /\ ip' = IF Op = "call" THEN Jumped(Val(2)) ELSE Jumped(Word(mem', Val(2)))
    /\ UNCHANGED <<regs, zero, sign, out>>

Pop ==
    /\ Op \in {"popr", "popm", "ret"}
    /\ sp' = AsUint32(sp + WordLen)
    /\ regs' = IF Op = "popr" THEN [regs EXCEPT ![Dest] = Load(sp)] ELSE regs
    /\ mem' = IF Op = "popm" THEN Stored(Val(2), Load(sp)) ELSE mem
    /\ ip' = IF Op = "ret" THEN AsUint32(Load(sp)) ELSE After
    /\ UNCHANGED <<zero, sign, out>>

Immediate == [acquirelocki |-> "acquirelock", releaselocki |-> "releaselock",
              signaleventi |-> "signalevent", waiteventi |-> "waitevent"]

\* Locks, events and regions have 32-bit ids, and heap addresses 32 bits.
Operand ==
    CASE Op \in {"sleep", "alloc"} -> Val(2)
      [] Op = "freememory"         -> AsUint32(Val(2))
      [] OTHER                     -> AsInt32(Val(2))

\* A request to the OS is its name and its operand; Alloc and MapSharedMem
\* answer in their second register (MapSharedMem if the region exists).  The
\* forms with an immediate leave it in r1.
Ask ==
    /\ \/ /\ Op \in {"sleep", "freememory", "acquirelock", "releaselock",
                     "signalevent", "waitevent"}
          /\ out' = Append(out, <<Op, Operand>>)
          /\ UNCHANGED regs
       \/ /\ Op \in DOMAIN Immediate
          /\ out' = Append(out, <<Immediate[Op], Operand>>)
          /\ regs' = [regs EXCEPT ![1] = AsUint32(Val(2))]
       \/ /\ Op \in {"alloc", "mapsharedmem"}
          /\ out' = Append(out, <<Op, Operand>>)
          /\ \E r \in Returns : regs' = [regs EXCEPT ![Line[3][2]] = r]
       \/ /\ Op = "mapsharedmem"
          /\ out' = Append(out, <<Op, Operand>>)
          /\ UNCHANGED regs
       \/ /\ Op \in {"input", "inputc", "setpriority", "setpriorityi"}
          /\ UNCHANGED <<out, regs>>
    /\ ip' = After
    /\ UNCHANGED <<sp, zero, sign, mem>>

\* Nothing more is said of a process that has ended.
End ==
    /\ alive
    /\ ~Runs \/ Op = "exit"
    /\ alive' = FALSE
    /\ UNCHANGED <<source, out>>

Step ==
    /\ Runs
    /\ Move \/ Store \/ Compare \/ PrintOut \/ Jump \/ Push \/ Call \/ Pop \/ Ask
    /\ UNCHANGED <<source, alive>>

Init ==
    /\ regs = [r \in Reg |-> 0]
    /\ ip = CodeBase
    /\ <<zero, sign>> = <<FALSE, FALSE>>
    /\ out = <<>>
    /\ alive = TRUE

Next == Step \/ End

Spec == Init /\ [][Next]_vars
=============================================================================
