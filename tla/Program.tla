------------------------------- MODULE Program -------------------------------
(***************************************************************************)
(* Program::loadFromFile: a source file is assembled line by line.         *)
(***************************************************************************)
EXTENDS Assembler

CONSTANT Sources    \* the files that may be assembled, sequences of lines

ASSUME SourcesAssumption == Sources \subseteq Seq(Seq(Lexeme))

VARIABLES lines,    \* the file
          read,     \* lines read so far
          bytes,    \* bytes_
          result    \* "open" until loadFromFile returns ("ok") or throws

vars == <<lines, read, bytes, result>>

Init ==
    /\ lines \in Sources
    /\ read = 0
    /\ bytes = <<>>
    /\ result = "open"

\* One turn of the getline loop; an exception leaves it for good.
ReadLine ==
    LET b == AssembleLine(lines[read + 1]) IN
    /\ result = "open"
    /\ read < Len(lines)
    /\ \/ /\ b = Error
          /\ result' = "error"
          /\ UNCHANGED <<read, bytes>>
       \/ /\ b # Error
          /\ bytes' = bytes \o b
          /\ read' = read + 1
          /\ UNCHANGED result
    /\ UNCHANGED lines

\* The end of the file; an empty program is refused.
EndOfFile ==
    /\ result = "open"
    /\ read = Len(lines)
    /\ result' = IF bytes = <<>> THEN "error" ELSE "ok"
    /\ UNCHANGED <<lines, read, bytes>>

Next == ReadLine \/ EndOfFile

Spec == Init /\ [][Next]_vars

-----------------------------------------------------------------------------
(***************************************************************************)
(* Properties.                                                             *)
(***************************************************************************)

\* Word j of instruction k, as MMU::read32 puts it together for CPU::fetch.
WordIn(k, j) ==
    LET at == (k - 1) * InstrLen + j * WordLen
    IN  WordOf([i \in 1 .. WordLen |-> bytes[at + i]])

Instructions == 1 .. Len(bytes) \div InstrLen

\* The tokens of the instructions in the first i lines of a file, for each i.
Statements(file) ==
    LET code[i \in 0 .. Len(file)] ==
            IF i = 0 THEN <<>>
            ELSE IF Tokens(file[i]) = <<>> THEN code[i - 1]
            ELSE Append(code[i - 1], Tokens(file[i]))
    IN  code

\* The instructions read so far.
Source == Statements(lines)[read]

\* What the CPU fetches is what the source says, instruction by instruction:
\* the opcode of the mnemonic and the numbers of the operands, whose bytes
\* emit32 took apart and read32 puts together.
CodeMatchesSource ==
    /\ Len(bytes) = InstrLen * Len(Source)
    /\ \A k \in Instructions :
         LET t == Source[k] IN
         /\ WordIn(k, 0) \in 1 .. Len(Mnemonics)
         /\ <<"name", Mnemonics[WordIn(k, 0)]>> = t[1]
         /\ t[1][2] \notin NoOperand => Means(WordIn(k, 1), t[2])
         /\ t[1][2] \in RegImmediate \cup RegReg => Means(WordIn(k, 2), t[3])

\* Assembled code passes the CPU's checks: its opcodes are known and the
\* operands that execute takes for registers are registers, so no straight
\* run through an assembled program throws on decoding.
CodeDecodes ==
    \A k \in Instructions :
        /\ WordIn(k, 0) \in 1 .. Len(Mnemonics)
        /\ Mnemonics[WordIn(k, 0)] \in RegisterA => WordIn(k, 1) \in Reg
        /\ Mnemonics[WordIn(k, 0)] \in RegisterB => WordIn(k, 2) \in Reg
=============================================================================
