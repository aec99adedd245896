-------------------------- MODULE AssemblerProofs --------------------------
(***************************************************************************)
(* Lemmas about one line of assembly, for any size of a byte and any       *)
(* length of a word.                                                       *)
(***************************************************************************)
EXTENDS Assembler, MachineProofs

-----------------------------------------------------------------------------
(***************************************************************************)
(* Lexemes, mnemonics and operands.                                        *)
(***************************************************************************)
\* What is left of a line when its comment and separators are gone.
LEMMA TokensType ==
  ASSUME NEW line \in Seq(Lexeme)
  PROVE  Tokens(line) \in Seq(Lexeme)
<1> DEFINE semi == SelectInSeq(line, LAMBDA x : x[1] = ";")
           text == IF semi = 0 THEN line ELSE SubSeq(line, 1, semi - 1)
<1>1. semi \in 0 .. Len(line)
  <2> DEFINE I == {i \in 1 .. Len(line) : line[i][1] = ";"}
  <2>1. semi = IF I # {} THEN Min(I) ELSE 0
    BY DEF SelectInSeq
  <2>2. I \in SUBSET (1 .. Len(line))
    OBVIOUS
  <2>3. Len(line) \in Nat
    OBVIOUS
  <2> HIDE DEF I, semi
  <2> QED BY <2>1, <2>2, <2>3, FirstMatch
<1>2. text \in Seq(Lexeme)
  <2> HIDE DEF semi
  <2>1. CASE semi # 0
    <3>1. \A i \in 1 .. semi - 1 : i \in 1 .. Len(line)
      BY <1>1
    <3>2. \A i \in 1 .. semi - 1 : line[i] \in Lexeme
      BY <3>1, ElementOfSeq
    <3>3. SubSeq(line, 1, semi - 1) \in Seq(Lexeme)
      BY <1>1, <3>2, SubSeqProperties
    <3> QED BY <2>1, <3>3
  <2> QED BY <2>1
<1>3. Tokens(line) = Without(text, {<<",", 0>>})
  BY DEF Tokens
<1> HIDE DEF text
<1> QED BY <1>2, <1>3, WithoutFacts

\* parseMnemonic finds the name it was given.
LEMMA OpcodeFacts ==
  ASSUME NEW t
  PROVE  /\ OpcodeOf(t) \in 0 .. Len(Mnemonics)
         /\ OpcodeOf(t) # 0 => t = <<"name", Mnemonics[OpcodeOf(t)]>>
<1> DEFINE n == Len(Mnemonics)
           I == {i \in 1 .. n : t = <<"name", Mnemonics[i]>>}
<1>1. n \in Nat
  BY DEF Mnemonics
<1>2. OpcodeOf(t) = IF I # {} THEN Min(I) ELSE 0
  BY DEF OpcodeOf, SelectInSeq
<1>3. I \in SUBSET (1 .. n)
  OBVIOUS
<1>4. (IF I # {} THEN Min(I) ELSE 0) \in 0 .. n /\ (I # {} => Min(I) \in I)
  <2> HIDE DEF n, I
  <2> QED BY <1>1, <1>3, FirstMatch
<1>5. OpcodeOf(t) \in 0 .. n /\ (OpcodeOf(t) # 0 => OpcodeOf(t) \in I)
  <2> HIDE DEF n, I
  <2> QED BY <1>2, <1>4
<1> QED BY <1>5

LEMMA FormFacts ==
  /\ RegisterB = RegReg
  /\ RegisterA \cap (NoOperand \cup OneImmediate \cup OneInteger) = {}
  /\ NoOperand \cap (OneImmediate \cup OneInteger \cup RegImmediate \cup RegReg) = {}
  /\ RegImmediate \cap RegReg = {}
BY DEF RegisterA, RegisterB, RegReg, NoOperand, OneImmediate, OneInteger, RegImmediate

LEMMA LexemeFacts ==
  ASSUME NEW t \in Lexeme
  PROVE  /\ t[1] = "@" => t[2] \in Byte
         /\ t[1] \in {"r", "#", "int"} => t[2] \in Int
<1>1. CASE t \in {"name"} \X STRING
  <2>1. t[1] = "name"
    BY <1>1
  <2> QED BY <2>1
<1>2. CASE t \in {"r", "#", "int"} \X Int
  <2>1. t[1] \in {"r", "#", "int"} /\ t[2] \in Int
    BY <1>2
  <2> QED BY <2>1
<1>3. CASE t \in {"@"} \X Byte
  <2>1. t[1] = "@" /\ t[2] \in Byte
    BY <1>3
  <2> QED BY <2>1
<1>4. CASE t = <<",", 0>>
  <2>1. t[1] = ","
    BY ONLY <1>4, Zenon
  <2> QED BY <2>1
<1>5. CASE t = <<";", 0>>
  <2>1. t[1] = ";"
    BY ONLY <1>5
  <2> QED BY <2>1
<1> QED BY <1>1, <1>2, <1>3, <1>4, <1>5, Zenon DEF Lexeme

LEMMA RegIsWord == Reg \subseteq 0 .. WordMod - 1
<1>1. Len(Mnemonics) = 50
  BY DEF Mnemonics
<1> QED BY <1>1, WordModFacts DEF Reg

\* What a token says as an operand: a register, or a number.
IsRegister(w, t) == t[1] = "r" /\ t[2] = w /\ w \in Reg
IsNumber(w, t)   == t[1] \notin {"r", "name"} /\ t[2] \in Int /\ Means(w, t)

\* parseRegister lets only registers through, and means the one it was given.
LEMMA RegisterFacts ==
  ASSUME NEW t \in Lexeme, ParseRegister(t) # Bad
  PROVE  /\ ParseRegister(t) \in Reg /\ ParseRegister(t) \in 0 .. WordMod - 1
         /\ Means(ParseRegister(t), t)
         /\ IsRegister(ParseRegister(t), t)
<1>1. t[1] = "r" /\ ParseRegister(t) = t[2] /\ t[2] \in Reg
  BY DEF ParseRegister
<1> QED BY <1>1, RegIsWord DEF Means, IsRegister

LEMMA ImmediateFacts ==
  ASSUME NEW t \in Lexeme, ParseImmediate(t) # Bad
  PROVE  /\ ParseImmediate(t) \in 0 .. WordMod - 1 /\ Means(ParseImmediate(t), t)
         /\ IsNumber(ParseImmediate(t), t)
<1> DEFINE n == t[2]
<1>1. CASE t[1] = "@"
  <2>1. n \in Byte
    BY <1>1, LexemeFacts
  <2>2. n \in 0 .. WordMod - 1 /\ n % ByteMod = n
    <3>1. WordLen \in 1 .. WordLen /\ WordLen - 1 \in 0 .. WordLen
      BY WordModFacts
    <3>2. /\ WordMod = Weight[WordLen - 1] * ByteMod
          /\ Weight[WordLen - 1] \in Nat \ {0}
      BY <3>1, WeightFacts DEF WordMod
    <3>3. (Weight[WordLen - 1] - 1) * ByteMod >= 0
      BY <3>2, WordModFacts
    <3>4. ByteMod <= WordMod
      BY <3>2, <3>3, WordModFacts
    <3>5. n \in 0 .. ByteMod - 1 /\ n = ByteMod * 0 + n /\ n \in Int
      BY <2>1, WordModFacts DEF Byte
    <3>6. n % ByteMod = n
      <4> HIDE DEF n
      <4> QED BY <3>5, DivModUnique, WordModFacts
    <3> QED BY <3>4, <3>5, <3>6, WordModFacts
  <2>3. n \in Int
    BY <2>2
  <2> QED BY <1>1, <2>2, <2>3 DEF ParseImmediate, Means, IsNumber
<1>2. CASE t[1] # "@"
  <2>1. t[1] \in {"#", "int"} /\ ParseImmediate(t) = AsUint32(AsInt32(n))
    BY <1>2 DEF ParseImmediate
  <2>2. n \in Int
    BY <2>1, LexemeFacts
  <2>3. AsInt32(n) \in Int
    BY <2>2, CastFacts
  <2>4. /\ AsUint32(AsInt32(n)) \in 0 .. WordMod - 1
        /\ AsInt32(AsUint32(AsInt32(n))) = AsInt32(AsInt32(n))
    BY <2>3, CastFacts
  <2> QED BY <2>1, <2>2, <2>4 DEF Means, IsNumber
<1> QED BY <1>1, <1>2

LEMMA IntFacts ==
  ASSUME NEW t \in Lexeme, ParseInt(t) # Bad
  PROVE  /\ ParseInt(t) \in 0 .. WordMod - 1 /\ Means(ParseInt(t), t)
         /\ IsNumber(ParseInt(t), t)
<1> DEFINE n == t[2]
<1>1. t[1] = "int" /\ ParseInt(t) = AsUint32(n)
  BY DEF ParseInt
<1>2. n \in Int
  BY <1>1, LexemeFacts
<1>3. AsUint32(n) \in 0 .. WordMod - 1 /\ AsInt32(AsUint32(n)) = AsInt32(n)
  BY <1>2, CastFacts
<1> QED BY <1>1, <1>2, <1>3 DEF Means, IsNumber

\* The operands: what is not refused is a word that means what its token says,
\* and a register where execute will ask for one.
LEMMA OperandAFacts ==
  ASSUME NEW toks \in Seq(Lexeme), toks # <<>>, NEW m,
         OperandA(m, Tail(toks)) # Bad
  PROVE  LET a == OperandA(m, Tail(toks)) IN
         /\ a \in 0 .. WordMod - 1
         /\ m \notin NoOperand => Means(a, toks[2]) /\ Len(toks) >= 2
         /\ m \in RegisterA => a \in Reg
         /\ m \in OneImmediate \cup OneInteger => IsNumber(a, toks[2])
         /\ m \notin NoOperand \cup OneImmediate \cup OneInteger => IsRegister(a, toks[2])
<1> DEFINE args == Tail(toks)
           a    == OperandA(m, args)
           none == 0
<1>0. a = IF m \in NoOperand THEN none
          ELSE IF args = <<>> THEN Bad
          ELSE IF m \in OneImmediate THEN ParseImmediate(args[1])
          ELSE IF m \in OneInteger THEN ParseInt(args[1])
          ELSE ParseRegister(args[1])
  BY DEF OperandA
<1>1. CASE m \in NoOperand
  <2>1. a = none
    <3> HIDE DEF a, args, none
    <3> QED BY <1>0, <1>1
  <2> QED BY <1>1, <2>1, FormFacts, WordModFacts
<1>2. CASE m \notin NoOperand
  <2>1. args # <<>>
    <3>1. a # Bad
      OBVIOUS
    <3> HIDE DEF a, args, none
    <3> QED BY <1>0, <1>2, <3>1
  <2>2. args[1] = toks[2] /\ args[1] \in Lexeme /\ Len(toks) >= 2
    <3>1. args \in Seq(Lexeme) /\ Len(args) = Len(toks) - 1
      BY HeadTailProperties
    <3>2. 1 \in 1 .. Len(args)
      <4> HIDE DEF args
      <4> QED BY <2>1, <3>1, EmptySeq
    <3>3. args[1] = toks[2]
      BY <3>2, HeadTailProperties
    <3>4. Len(toks) \in Nat
      BY LenProperties
    <3>5. Len(toks) >= 2
      <4> HIDE DEF args
      <4> QED BY <3>1, <3>2, <3>4
    <3> QED BY <3>1, <3>2, <3>3, <3>5, ElementOfSeq
  <2> HIDE DEF args
  <2>3. CASE m \in OneImmediate
    <3>1. a = ParseImmediate(args[1])
      <4> HIDE DEF a, none
      <4> QED BY <1>0, <1>2, <2>1, <2>3
    <3> QED BY <2>2, <2>3, <3>1, FormFacts, ImmediateFacts DEF args
  <2>4. CASE m \notin OneImmediate /\ m \in OneInteger
    <3>1. a = ParseInt(args[1])
      <4> HIDE DEF a, none
      <4> QED BY <1>0, <1>2, <2>1, <2>4
    <3> QED BY <2>2, <2>4, <3>1, FormFacts, IntFacts DEF args
  <2>5. CASE m \notin OneImmediate /\ m \notin OneInteger
    <3>1. a = ParseRegister(args[1])
      <4> HIDE DEF a, none
      <4> QED BY <1>0, <1>2, <2>1, <2>5
    <3>2. /\ a \in Reg /\ a \in 0 .. WordMod - 1
          /\ Means(a, toks[2]) /\ IsRegister(a, toks[2])
      BY <2>2, <3>1, RegisterFacts DEF args
    <3> QED BY <2>2, <2>5, <3>2 DEF args
  <2> QED BY <2>3, <2>4, <2>5
<1> QED BY <1>1, <1>2

LEMMA OperandBFacts ==
  ASSUME NEW toks \in Seq(Lexeme), toks # <<>>, NEW m,
         OperandB(m, Tail(toks)) # Bad
  PROVE  LET b == OperandB(m, Tail(toks)) IN
         /\ b \in 0 .. WordMod - 1
         /\ m \in RegImmediate \cup RegReg => Means(b, toks[3]) /\ Len(toks) >= 3
         /\ m \in RegisterB => b \in Reg
         /\ m \in RegImmediate => IsNumber(b, toks[3])
         /\ m \in RegReg => IsRegister(b, toks[3])
<1> DEFINE args == Tail(toks)
           b    == OperandB(m, args)
           none == 0
<1>0. b = IF m \notin RegImmediate \cup RegReg THEN none
          ELSE IF Len(args) < 2 THEN Bad
          ELSE IF m \in RegImmediate THEN ParseImmediate(args[2])
          ELSE ParseRegister(args[2])
  BY DEF OperandB
<1>1. CASE m \notin RegImmediate \cup RegReg
  <2>1. b = none
    <3> HIDE DEF b, args, none
    <3> QED BY <1>0, <1>1
  <2> QED BY <1>1, <2>1, FormFacts, WordModFacts
<1>2. CASE m \in RegImmediate \cup RegReg
  <2>1. ~(Len(args) < 2)
    <3>1. b # Bad
      OBVIOUS
    <3> HIDE DEF b, args, none
    <3> QED BY <1>0, <1>2, <3>1
  <2>2. args[2] = toks[3] /\ args[2] \in Lexeme /\ Len(toks) >= 3
    <3>1. /\ args \in Seq(Lexeme) /\ Len(args) \in Nat
          /\ Len(args) = Len(toks) - 1 /\ Len(toks) \in Nat
      BY HeadTailProperties, LenProperties
    <3>2. 2 \in 1 .. Len(args)
      BY <2>1, <3>1
    <3>3. args[2] = toks[3]
      BY <3>2, HeadTailProperties
    <3>4. Len(toks) >= 3
      <4> HIDE DEF args
      <4> QED BY <3>1, <3>2
    <3> QED BY <3>1, <3>2, <3>3, <3>4, ElementOfSeq
  <2> HIDE DEF args
  <2>3. CASE m \in RegImmediate
    <3>1. b = ParseImmediate(args[2])
      <4> HIDE DEF b, none
      <4> QED BY <1>0, <1>2, <2>1, <2>3
    <3> QED BY <2>2, <2>3, <3>1, FormFacts, ImmediateFacts DEF args
  <2>4. CASE m \notin RegImmediate
    <3>1. b = ParseRegister(args[2])
      <4> HIDE DEF b, none
      <4> QED BY <1>0, <1>2, <2>1, <2>4
    <3>2. /\ b \in Reg /\ b \in 0 .. WordMod - 1
          /\ Means(b, toks[3]) /\ IsRegister(b, toks[3])
      BY <2>2, <3>1, RegisterFacts DEF args
    <3> QED BY <2>2, <2>4, <3>2 DEF args
  <2> QED BY <2>3, <2>4
<1> QED BY <1>1, <1>2

\* Three words say what the tokens of a line say, and pass the CPU's checks.
Says(t, a, b, c) ==
    /\ a \in 1 .. Len(Mnemonics)
    /\ t[1] = <<"name", Mnemonics[a]>>
    /\ Mnemonics[a] \in RegisterA => b \in Reg
    /\ Mnemonics[a] \in RegisterB => c \in Reg
    /\ Mnemonics[a] \notin NoOperand => Means(b, t[2]) /\ Len(t) >= 2
    /\ Mnemonics[a] \in RegImmediate \cup RegReg => Means(c, t[3]) /\ Len(t) >= 3
    /\ Mnemonics[a] \in OneImmediate \cup OneInteger => IsNumber(b, t[2])
    /\ Mnemonics[a] \notin NoOperand \cup OneImmediate \cup OneInteger => IsRegister(b, t[2])
    /\ Mnemonics[a] \in RegImmediate => IsNumber(c, t[3])
    /\ Mnemonics[a] \in RegReg => IsRegister(c, t[3])

\* A line that is not refused adds nothing, or the bytes of three such words.
LEMMA LineFacts ==
  ASSUME NEW line \in Seq(Lexeme), AssembleLine(line) # Error
  PROVE  \/ Tokens(line) = <<>> /\ AssembleLine(line) = <<>>
         \/ /\ Tokens(line) # <<>>
            /\ \E a, b, c \in 0 .. WordMod - 1 :
                 /\ AssembleLine(line) = BytesOf(a) \o BytesOf(b) \o BytesOf(c)
                 /\ Says(Tokens(line), a, b, c)
<1> DEFINE t  == Tokens(line)
           op == OpcodeOf(t[1])
           m  == Mnemonics[op]
           a  == OperandA(m, Tail(t))
           b  == OperandB(m, Tail(t))
<1>1. CASE t = <<>>
  BY <1>1 DEF AssembleLine
<1>2. CASE t # <<>>
  <2>1. /\ op # 0 /\ a # Bad /\ b # Bad
        /\ AssembleLine(line) = BytesOf(op) \o BytesOf(a) \o BytesOf(b)
    <3> HIDE DEF t, op, m, a, b
    <3>1. AssembleLine(line) =
            IF t = <<>> THEN <<>>
            ELSE IF op = 0 \/ a = Bad \/ b = Bad THEN Error
            ELSE BytesOf(op) \o BytesOf(a) \o BytesOf(b)
      BY DEF AssembleLine, t, op, m, a, b
    <3> QED BY <1>2, <3>1
  <2>2. t \in Seq(Lexeme)
    BY TokensType
  <2>3. op \in 1 .. Len(Mnemonics) /\ t[1] = <<"name", m>>
    <3>1. op \in 0 .. Len(Mnemonics) /\ t[1] = <<"name", m>>
      BY <2>1, OpcodeFacts
    <3>2. Len(Mnemonics) \in Nat
      BY DEF Mnemonics
    <3> HIDE DEF op
    <3> QED BY <2>1, <3>1, <3>2
  <2>4. op \in 0 .. WordMod - 1
    <3>1. Len(Mnemonics) \in Nat
      BY DEF Mnemonics
    <3> HIDE DEF op
    <3> QED BY <2>3, <3>1, WordModFacts
  <2>5. /\ a \in 0 .. WordMod - 1
        /\ m \notin NoOperand => Means(a, t[2]) /\ Len(t) >= 2
        /\ m \in RegisterA => a \in Reg
        /\ m \in OneImmediate \cup OneInteger => IsNumber(a, t[2])
        /\ m \notin NoOperand \cup OneImmediate \cup OneInteger => IsRegister(a, t[2])
    <3> HIDE DEF t, m
    <3> QED BY <1>2, <2>1, <2>2, OperandAFacts
  <2>6. /\ b \in 0 .. WordMod - 1
        /\ m \in RegImmediate \cup RegReg => Means(b, t[3]) /\ Len(t) >= 3
        /\ m \in RegisterB => b \in Reg
        /\ m \in RegImmediate => IsNumber(b, t[3])
        /\ m \in RegReg => IsRegister(b, t[3])
    <3> HIDE DEF t, m
    <3> QED BY <1>2, <2>1, <2>2, OperandBFacts
  <2>7. Says(t, op, a, b)
    <3> HIDE DEF t, op, a, b
    <3> QED BY <2>3, <2>5, <2>6 DEF Says, m
  <2> HIDE DEF op, a, b
  <2> QED BY <1>2, <2>1, <2>4, <2>5, <2>6, <2>7
<1> QED BY <1>1, <1>2

=============================================================================
