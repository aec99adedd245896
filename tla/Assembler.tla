------------------------------ MODULE Assembler ------------------------------
(***************************************************************************)
(* The assembler of PROGRAM.CPP.  The text of a line is a sequence of      *)
(* lexemes <<form, value>>: a name, "r", "#" or "@" with what follows it,  *)
(* a bare integer, a separator (blanks and commas) or a semicolon.  Case   *)
(* is folded, and what std::stoi ignores behind a number is left out.      *)
(***************************************************************************)
EXTENDS Machine

\* A thrown exception, in place of a word or of a line's bytes.
Bad   == -1
Error == <<Bad>>

\* The lexemes; the character behind "@" is a byte.
Lexeme == ({"name"} \X STRING) \cup ({"r", "#", "int"} \X Int) \cup ({"@"} \X Byte)
          \cup {<<",", 0>>, <<";", 0>>}

\* stripComment, trim and tokenize.
Tokens(line) ==
    LET semi == SelectInSeq(line, LAMBDA x : x[1] = ";")
        text == IF semi = 0 THEN line ELSE SubSeq(line, 1, semi - 1)
    IN  Without(text, {<<",", 0>>})

\* A slip: the lower end of the range is not checked.
MutParseRegister(t) == IF t[1] = "r" /\ t[2] <= 10 THEN t[2] ELSE Bad

ParseRegister(t) == IF t[1] = "r" /\ t[2] \in Reg THEN t[2] ELSE Bad

\* A token of one character is refused, so an integer of one digit is.
ParseImmediate(t) ==
    CASE t[1] = "#"                      -> AsUint32(AsInt32(t[2]))
      [] t[1] = "@"                      -> t[2] % ByteMod
      [] t[1] = "int" /\ t[2] \notin 0 .. 9 -> AsUint32(AsInt32(t[2]))
      [] OTHER                           -> Bad

\* std::stoi, which throws beyond the ends of int.
ParseInt(t) == IF t[1] = "int" /\ t[2] = AsInt32(t[2]) THEN AsUint32(t[2]) ELSE Bad

\* The cases of the switch in assembleLine.
NoOperand    == {"exit", "ret"}
OneRegister  == {"incr", "printr", "printm", "printcr", "printcm", "pushr", "popr",
                 "popm", "jmp", "jlt", "jgt", "je", "call", "callm", "sleep",
                 "input", "freememory", "inputc", "acquirelock", "releaselock",
                 "signalevent", "waitevent"}
OneImmediate == {"jmpi", "jmpa", "jlti", "jlta", "jgti", "jgta", "jei", "jea",
                 "pushi", "setpriorityi"}
OneInteger   == {"acquirelocki", "releaselocki", "signaleventi", "waiteventi"}
RegImmediate == {"movi", "addi", "cmpi", "setpriority"}
RegReg       == {"movr", "movmr", "movrm", "movmm", "addr", "cmpr", "alloc",
                 "mapsharedmem"}

OperandA(m, args) ==
    IF m \in NoOperand THEN 0
    ELSE IF args = <<>> THEN Bad
    ELSE IF m \in OneImmediate THEN ParseImmediate(args[1])
    ELSE IF m \in OneInteger THEN ParseInt(args[1])
    ELSE ParseRegister(args[1])

OperandB(m, args) ==
    IF m \notin RegImmediate \cup RegReg THEN 0
    ELSE IF Len(args) < 2 THEN Bad
    ELSE IF m \in RegImmediate THEN ParseImmediate(args[2])
    ELSE ParseRegister(args[2])

\* parseMnemonic, 0 when it throws.
OpcodeOf(t) == SelectInSeq(Mnemonics, LAMBDA m : t = <<"name", m>>)

\* assembleLine: the bytes one line adds, or Error.
AssembleLine(line) ==
    LET toks == Tokens(line)
        op   == OpcodeOf(toks[1])
        m    == Mnemonics[op]
        a    == OperandA(m, Tail(toks))
        b    == OperandB(m, Tail(toks))
    IN  IF toks = <<>> THEN <<>>
        ELSE IF op = 0 \/ a = Bad \/ b = Bad THEN Error
        ELSE BytesOf(op) \o BytesOf(a) \o BytesOf(b)

\* A word means the number in the token, when a word can hold that number.
Means(w, t) == t[2] = AsInt32(t[2]) => AsInt32(w) = t[2]
=============================================================================
