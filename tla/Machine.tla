------------------------------- MODULE Machine -------------------------------
(***************************************************************************)
(* The machine words of the simulated computer, and its instruction set.   *)
(* A byte has ByteMod values (256), a word WordLen bytes (4), and an       *)
(* instruction is three words.  A register holds an integer: no program    *)
(* that is looked at here comes near the end of an int64.                  *)
(***************************************************************************)
EXTENDS Integers, Sequences, SequencesExt

CONSTANTS ByteMod, WordLen

\* Opcodes are the positions in this list, as in ENUMOPCODE.H.
Mnemonics ==
    <<"incr", "addi", "addr",
      "movi", "movr", "movmr", "movrm", "movmm",
      "printr", "printm", "printcr", "printcm",
      "jmp", "jmpi", "jmpa", "cmpi", "cmpr",
      "jlt", "jlti", "jlta", "jgt", "jgti", "jgta", "je", "jei", "jea",
      "call", "callm", "ret", "exit", "sleep",
      "pushr", "pushi", "popr", "popm",
      "input", "inputc", "setpriority", "setpriorityi", "mapsharedmem",
      "acquirelock", "acquirelocki", "releaselock", "releaselocki",
      "signalevent", "signaleventi", "waitevent", "waiteventi",
      "alloc", "freememory">>

\* What the byte at place k counts, 2 to the 8 * k: the shift of emit32.
Weight[k \in 0 .. WordLen] == IF k = 0 THEN 1 ELSE Weight[k - 1] * ByteMod

WordMod  == Weight[WordLen]
InstrLen == 3 * WordLen
Byte     == 0 .. ByteMod - 1
Reg      == 1 .. 10

ASSUME MachineAssumption ==
    /\ ByteMod \in Nat \ {0} /\ WordLen \in Nat \ {0}
    /\ WordMod > Len(Mnemonics)

\* static_cast<uint32_t> and static_cast<int32_t>.
AsUint32(n) == n % WordMod
AsInt32(n)  == ((n + WordMod \div 2) % WordMod) - (WordMod \div 2)

\* A slip: the most significant byte comes first.
MutBytesOf(w) == [k \in 1 .. WordLen |-> (w \div Weight[WordLen - k]) % ByteMod]

\* The bytes of a word, the least significant first, and back.
BytesOf(w) == [k \in 1 .. WordLen |-> (w \div Weight[k - 1]) % ByteMod]
WordOf(b) ==
    LET low[k \in 0 .. WordLen] ==
            IF k = 0 THEN 0 ELSE low[k - 1] + b[k] * Weight[k - 1]
    IN  low[WordLen]

\* The instructions whose first and whose second operand execute passes to
\* checkReg.
RegisterB == {"movr", "movmr", "movrm", "movmm", "addr", "cmpr", "alloc",
              "mapsharedmem"}
RegisterA == RegisterB \cup
             {"sleep", "freememory", "acquirelock", "releaselock", "signalevent",
              "waitevent", "movi", "incr", "addi", "printr", "printm", "printcr",
              "printcm", "jmp", "cmpi", "jlt", "jgt", "je", "call", "callm",
              "pushr", "popr", "popm", "input", "inputc"}

\* A sequence without the elements of S.
Without(s, S) ==
    LET out[k \in 0 .. Len(s)] ==
            IF k = 0 THEN <<>>
            ELSE IF s[k] \in S THEN out[k - 1]
            ELSE Append(out[k - 1], s[k])
    IN  out[Len(s)]

\* The addresses read32 and write32 go through, in order.
WordAt(a) == [k \in 1 .. WordLen |-> AsUint32(a + k - 1)]
=============================================================================
