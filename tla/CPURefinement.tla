--------------------------- MODULE CPURefinement ---------------------------
(***************************************************************************)
(* CPU implements ISA for any process, any programs that assemble, any     *)
(* number of processes and frames, any page and any size of a byte and a   *)
(* word, as long as the process is Tame.                                   *)
(*                                                                         *)
(* The argument: the instruction that is fetched says what the line of the *)
(* source says (Instruction); an attempt that goes through reads what the  *)
(* last instruction has left and does what ISA does (ExecuteStep,          *)
(* TrapStep); one that faults leaves the registers alone, and in memory    *)
(* only bytes that its retry writes before anybody reads them              *)
(* (FaultLeaves); the page it then gets is the one it had (SwappedInSame); *)
(* one that is refused for good is one that ISA ends (EndStep); and no     *)
(* other step is one of the process (StepKinds).                           *)
(***************************************************************************)
EXTENDS CPUMeaning, CPUProofs

-----------------------------------------------------------------------------
(***************************************************************************)
(* The machine of ISA is the one of CPU.                                   *)
(***************************************************************************)
LEMMA SameWord ==
  /\ Meaning!Weight = Weight
  /\ Meaning!WordMod = WordMod
  /\ Meaning!InstrLen = InstrLen
  /\ Meaning!Byte = Byte
  /\ Meaning!Reg = Reg
<1>1. Meaning!Weight = Weight
  BY DEF Meaning!Weight, Weight
<1>2. Meaning!WordMod = WordMod
  BY <1>1 DEF Meaning!WordMod, WordMod
<1>3. Meaning!InstrLen = InstrLen
  BY DEF Meaning!InstrLen, InstrLen
<1>4. Meaning!Byte = Byte
  BY DEF Meaning!Byte, Byte
<1>5. Meaning!Reg = Reg
  BY DEF Meaning!Reg, Reg
<1> QED BY <1>1, <1>2, <1>3, <1>4, <1>5

LEMMA SameMachine ==
  /\ \A n : Meaning!AsUint32(n) = AsUint32(n)
  /\ \A n : Meaning!AsInt32(n) = AsInt32(n)
  /\ \A n : Meaning!BytesOf(n) = BytesOf(n)
  /\ \A b : Meaning!WordOf(b) = WordOf(b)
  /\ \A a : Meaning!WordAt(a) = WordAt(a)
<1>1. \A n : Meaning!AsUint32(n) = AsUint32(n)
  BY SameWord DEF Meaning!AsUint32, AsUint32
<1>2. \A n : Meaning!AsInt32(n) = AsInt32(n)
  BY SameWord DEF Meaning!AsInt32, AsInt32
<1>3. \A n : Meaning!BytesOf(n) = BytesOf(n)
  BY SameWord DEF Meaning!BytesOf, BytesOf
<1>4. \A b : Meaning!WordOf(b) = WordOf(b)
  BY SameWord DEF Meaning!WordOf, WordOf
<1>5. \A a : Meaning!WordAt(a) = WordAt(a)
  BY <1>1 DEF Meaning!WordAt, WordAt
<1> QED BY <1>1, <1>2, <1>3, <1>4, <1>5

-----------------------------------------------------------------------------
(***************************************************************************)
(* Casts.                                                                  *)
(***************************************************************************)
LEMMA HalfWord == WordMod \div 2 \in Int
BY WordModFacts, DivMod

\* A cast in a sum that is cast anyway does not matter.
LEMMA CastInSum ==
  ASSUME NEW n \in Int, NEW w \in Int
  PROVE  AsUint32(n + AsInt32(w)) = AsUint32(n + w)
<1> DEFINE h == WordMod \div 2
           x == w + h
           y == n - h
<1>1. h \in Int /\ WordMod \in Nat \ {0}
  BY HalfWord, WordModFacts
<1>2. AsInt32(w) = (x % WordMod) - h
  BY DEF AsInt32
<1> HIDE DEF h
<1>3. x \in Int /\ y \in Int
  BY <1>1
<1>4. x + y = n + w
  BY <1>1
<1>5. x % WordMod \in Int
  BY <1>1, <1>3, DivMod
<1>6. n + AsInt32(w) = (x % WordMod) + y
  <2> DEFINE z == x % WordMod
  <2>1. z \in Int /\ AsInt32(w) = z - h
    BY <1>2, <1>5
  <2> HIDE DEF z, x
  <2>2. n + AsInt32(w) = z + y
    BY <1>1, <2>1
  <2> QED BY <2>2 DEF z
<1> HIDE DEF x, y
<1>7. ((x % WordMod) + y) % WordMod = (x + y) % WordMod
  BY <1>1, <1>3, ModPlus
<1> QED BY <1>4, <1>6, <1>7 DEF AsUint32

LEMMA CastBack ==
  ASSUME NEW w \in Int
  PROVE  AsUint32(AsInt32(w)) = AsUint32(w)
<1>1. AsUint32(0 + AsInt32(w)) = AsUint32(0 + w)
  BY CastInSum
<1>2. 0 + AsInt32(w) = AsInt32(w) /\ 0 + w = w
  BY CastFacts
<1> QED BY <1>1, <1>2

LEMMA CastTwice ==
  ASSUME NEW w \in Int
  PROVE  AsInt32(AsInt32(w)) = AsInt32(w)
<1>1. AsInt32(w) \in Int
  BY CastFacts
<1>2. /\ AsInt32(AsUint32(AsInt32(w))) = AsInt32(AsInt32(w))
      /\ AsInt32(AsUint32(w)) = AsInt32(w)
  BY <1>1, CastFacts
<1> QED BY <1>2, CastBack

LEMMA CastWord ==
  ASSUME NEW w \in Words
  PROVE  AsUint32(w) = w /\ AsUint32(AsInt32(w)) = w
BY Word, CastBack, WordsAreInts DEF Words

-----------------------------------------------------------------------------
(***************************************************************************)
(* The image of a program.                                                 *)
(***************************************************************************)
\* Pieces of one length stand at its multiples.
LEMMA FlattenEven ==
  ASSUME NEW S, NEW s \in Seq(Seq(S)), NEW L \in Nat,
         \A k \in 1 .. Len(s) : Len(s[k]) = L
  PROVE  /\ Len(FlattenSeq(s)) = Len(s) * L
         /\ \A k \in 1 .. Len(s), i \in 1 .. L : FlattenSeq(s)[(k - 1) * L + i] = s[k][i]
<1>1. CASE s = <<>>
  <2>1. FlattenSeq(s) = <<>> /\ Len(s) = 0 /\ 0 * L = 0
    BY <1>1 DEF FlattenSeq
  <2> QED BY <2>1
<1>2. CASE s # <<>>
  <2> DEFINE n == Len(s)
  <2>1. PICK g : Pieces(g, s, S) /\ FlattenSeq(s) = g[n]
    BY <1>2, FlattenSteps
  <2>2. /\ \A k \in 1 .. n : g[k] \in Seq(S)
        /\ g[1] = s[1]
        /\ \A k \in 2 .. n : g[k] = g[k - 1] \o s[k]
    BY <2>1 DEF Pieces
  <2>3. n \in Nat /\ n # 0 /\ \A k \in 1 .. n : s[k] \in Seq(S) /\ Len(s[k]) = L
    BY <1>2, ElementOfSeq
  <2> DEFINE Good(k) == /\ Len(g[k]) = k * L
                        /\ \A j \in 1 .. k, i \in 1 .. L : g[k][(j - 1) * L + i] = s[j][i]
             I == {k \in 0 .. n : k # 0 => Good(k)}
  <2>4. 0 \in I
    BY <2>3
  <2>5. ASSUME NEW k \in 1 .. n, k - 1 \in I PROVE k \in I
    <3>1. k \in 0 .. n /\ k # 0 /\ k \in Nat
      BY <2>3
    <3>2. CASE k = 1
      <4>1. g[k] = s[k] /\ Len(s[k]) = L /\ k * L = L
        BY <2>2, <2>3, <3>2
      <4>2. ASSUME NEW j \in 1 .. k, NEW i \in 1 .. L
            PROVE  g[k][(j - 1) * L + i] = s[j][i]
        <5>1. j = k /\ (j - 1) * L + i = i
          BY <3>2
        <5> QED BY <4>1, <5>1
      <4>3. Good(k)
        BY <4>1, <4>2
      <4> QED BY <3>1, <4>3
    <3>3. CASE k # 1
      <4> DEFINE u == g[k - 1]
                 v == s[k]
      <4>1. k - 1 \in 1 .. n /\ k \in 2 .. n
        BY <2>3, <3>3
      <4>2. Good(k - 1)
        BY <2>5, <4>1
      <4>3. u \in Seq(S) /\ v \in Seq(S) /\ g[k] = u \o v /\ Len(v) = L
        BY <2>2, <2>3, <4>1
      <4>4. Len(u) = (k - 1) * L
        BY <4>2
      <4>5. \A j \in 1 .. k - 1, i \in 1 .. L : u[(j - 1) * L + i] = s[j][i]
        BY <4>2
      <4>6. \A i \in 1 .. L : v[i] = s[k][i]
        OBVIOUS
      <4> HIDE DEF u, v
      <4>14. u \in Seq(S) /\ v \in Seq(S)
        BY <4>3
      <4>7. /\ Len(u \o v) = Len(u) + Len(v)
            /\ \A i \in 1 .. Len(u) : (u \o v)[i] = u[i]
            /\ \A i \in 1 .. Len(v) : (u \o v)[Len(u) + i] = v[i]
        BY <4>14, TwoParts
      <4>8. Len(g[k]) = k * L
        <5>1. (k - 1) * L + L = k * L
          BY <3>1
        <5> QED BY <4>3, <4>4, <4>7, <5>1
      <4>9. ASSUME NEW j \in 1 .. k, NEW i \in 1 .. L
            PROVE  g[k][(j - 1) * L + i] = s[j][i]
        <5>1. CASE j = k
          BY <4>3, <4>4, <4>6, <4>7, <5>1
        <5>2. CASE j # k
          <6>1. j \in 1 .. k - 1
            BY <3>1, <5>2
          <6>2. (j - 1) * L + i \in 1 .. Len(u)
            <7>1. (k - 1 - j) * L >= 0 /\ (j - 1) * L >= 0
              BY <3>1, <6>1
            <7>2. (k - 1) * L = (k - 1 - j) * L + (j - 1) * L + L
              BY <3>1, <6>1
            <7>3. (j - 1) * L \in Int /\ (k - 1) * L \in Int /\ (k - 1 - j) * L \in Int
              BY <3>1, <6>1
            <7> DEFINE x == (j - 1) * L
                       y == (k - 1 - j) * L
                       z == (k - 1) * L
            <7>4. /\ x \in Int /\ y \in Int /\ z \in Int /\ i \in 1 .. L /\ L \in Nat
                  /\ x >= 0 /\ y >= 0 /\ z = y + x + L /\ Len(u) = z
              BY <4>4, <7>1, <7>2, <7>3
            <7> HIDE DEF x, y, z
            <7>5. x + i \in 1 .. Len(u)
              BY ONLY <7>4
            <7> QED BY <7>5 DEF x
          <6> QED BY <4>3, <4>5, <4>7, <6>1, <6>2
        <5> QED BY <5>1, <5>2
      <4>10. Good(k)
        BY <4>8, <4>9
      <4> HIDE DEF Good
      <4> QED BY <3>1, <4>10
    <3> QED BY <3>2, <3>3
  <2>6. 0 .. n \subseteq I
    <3> HIDE DEF n, I
    <3> QED BY <2>3, <2>4, <2>5, SetInduction
  <2>7. Good(n)
    <3>1. n \in 0 .. n /\ n # 0
      BY <2>3
    <3> HIDE DEF n, Good
    <3> QED BY <2>6, <3>1
  <2> QED BY <2>1, <2>7
<1> QED BY <1>1, <1>2

\* The word w stands at x.
HasWord(f, x, w) == \A i \in 1 .. WordLen : f[x + i] = BytesOf(w)[i]

\* What the assembler makes of a line is three words that say what the line says.
LEMMA PlainLine ==
  ASSUME NEW line \in Seq(Lexeme), AssembleLine(line) # Error, Tokens(line) # <<>>
  PROVE  /\ Len(AssembleLine(line)) = InstrLen
         /\ \E a, b, c \in Words :
              /\ Says(Tokens(line), a, b, c)
              /\ HasWord(AssembleLine(line), 0, a)
              /\ HasWord(AssembleLine(line), WordLen, b)
              /\ HasWord(AssembleLine(line), 2 * WordLen, c)
<1>1. PICK a, b, c \in Words :
         /\ AssembleLine(line) = BytesOf(a) \o BytesOf(b) \o BytesOf(c)
         /\ Says(Tokens(line), a, b, c)
  BY LineFacts DEF Words
<1>2. ASSUME NEW w \in Words PROVE BytesOf(w) \in Seq(Byte) /\ Len(BytesOf(w)) = WordLen
  <2>1. BytesOf(w) \in [1 .. WordLen -> Byte]
    BY BytesOfType, WordsAreInts
  <2>2. WordLen \in Nat
    BY WordModFacts
  <2> DEFINE b0 == BytesOf(w)
  <2> HIDE DEF b0
  <2>3. b0 \in Seq(Byte) /\ Len(b0) = WordLen
    BY <2>1, <2>2 DEF b0
  <2> QED BY <2>3 DEF b0
<1> DEFINE u == BytesOf(a)
           v == BytesOf(b)
           w == BytesOf(c)
           x == u \o v \o w
<1>3. u \in Seq(Byte) /\ v \in Seq(Byte) /\ w \in Seq(Byte)
  BY <1>2
<1>4. Len(u) = WordLen /\ Len(v) = WordLen /\ Len(w) = WordLen
  BY <1>2
<1>5. AssembleLine(line) = x
  BY <1>1
<1> HIDE DEF u, v, w
<1>6. /\ Len(x) = Len(u) + Len(v) + Len(w)
      /\ \A k \in 1 .. Len(u) : x[k] = u[k]
      /\ \A k \in 1 .. Len(v) : x[Len(u) + k] = v[k]
      /\ \A k \in 1 .. Len(w) : x[Len(u) + Len(v) + k] = w[k]
  BY <1>3, ThreeParts
<1> HIDE DEF x
<1>7. WordLen \in Nat /\ InstrLen = 3 * WordLen
  BY WordModFacts DEF InstrLen
<1>8. Len(x) = InstrLen
  BY <1>4, <1>6, <1>7
<1>9. HasWord(x, 0, a)
  <2>1. \A k \in 1 .. WordLen : 0 + k = k
    BY <1>7
  <2> QED BY <1>4, <1>6, <2>1 DEF HasWord, u
<1>10. HasWord(x, WordLen, b)
  BY <1>4, <1>6 DEF HasWord, v
<1>11. HasWord(x, 2 * WordLen, c)
  <2>1. WordLen + WordLen = 2 * WordLen
    BY <1>7
  <2> QED BY <1>4, <1>6, <2>1 DEF HasWord, w
<1> QED BY <1>1, <1>5, <1>8, <1>9, <1>10, <1>11

\* The instruction of the k-th line stands behind those of the lines before it.
LEMMA ImageFacts ==
  ASSUME NEW src \in Programs, Plain(src)
  PROVE  /\ Len(Image(src)) = Len(src) * InstrLen
         /\ \A k \in 1 .. Len(src), i \in 1 .. InstrLen :
              Image(src)[(k - 1) * InstrLen + i] = AssembleLine(src[k])[i]
<1> DEFINE n  == Len(src)
           ls == [k \in 1 .. n |-> AssembleLine(src[k])]
<1>1. src \in Seq(Seq(Lexeme)) /\ n \in Nat /\ DOMAIN src = 1 .. n
  BY ProgramsAssumption
<1>2. ASSUME NEW k \in 1 .. n
      PROVE  AssembleLine(src[k]) \in Seq(Byte) /\ Len(AssembleLine(src[k])) = InstrLen
  <2>1. src[k] \in Seq(Lexeme) /\ AssembleLine(src[k]) # Error
    BY <1>1, ProgramsAssumption, ElementOfSeq
  <2>2. Tokens(src[k]) # <<>>
    BY <1>1 DEF Plain
  <2> QED BY <2>1, <2>2, PlainLine, LineType
<1>3. ls \in Seq(Seq(Byte)) /\ Len(ls) = n /\ \A k \in 1 .. Len(ls) : Len(ls[k]) = InstrLen
  <2> HIDE DEF n
  <2>1. ls \in Seq(Seq(Byte)) /\ Len(ls) = n
    BY <1>1, <1>2
  <2> QED BY <1>2, <2>1
<1>4. Image(src) = FlattenSeq(ls) /\ InstrLen \in Nat
  BY WordModFacts DEF Image
<1>5. \A k \in 1 .. n : ls[k] = AssembleLine(src[k])
  OBVIOUS
<1> HIDE DEF ls
<1>6. /\ Len(FlattenSeq(ls)) = Len(ls) * InstrLen
      /\ \A k \in 1 .. Len(ls), i \in 1 .. InstrLen :
            FlattenSeq(ls)[(k - 1) * InstrLen + i] = ls[k][i]
  <2>1. ls \in Seq(Seq(Byte)) /\ \A k \in 1 .. Len(ls) : Len(ls[k]) = InstrLen
    BY <1>3
  <2> QED BY <1>4, <2>1, FlattenEven
<1> QED BY <1>3, <1>4, <1>5, <1>6

-----------------------------------------------------------------------------
(***************************************************************************)
(* What is fetched.                                                        *)
(***************************************************************************)
\* The addresses of the process, and what it prints or asks for.
Space == (CodeBase .. CodeBase + Len(Image(source[me])) - 1) \cup Others
Asked == {"sleep", "alloc", "freememory", "mapsharedmem", "acquirelock",
          "releaselock", "signalevent", "waitevent"}
Item  == Int \cup (Asked \X Int)

\* The types TypeOK does not need.
Shape ==
    /\ source \in [Proc -> Programs]
    /\ mem[me] \in [Space -> Byte]
    /\ DOMAIN committed = Proc
    /\ committed[me].mem \in [Space -> Byte]
    /\ committed[me].sp \in Words
    /\ DOMAIN out = Proc
    /\ out[me] \in Seq(Item)

\* The process runs.
Mine == TypeOK /\ Shape /\ Plain(source[me]) /\ CodeIntact /\ active = me

LEMMA MineFacts ==
  ASSUME Mine
  PROVE  /\ Running /\ active = me /\ me \in Proc
         /\ Registers = cpu
         /\ memory = mem[me] /\ memory \in [Space -> Byte]
         /\ source[me] \in Programs /\ source[me] \in Seq(Seq(Lexeme))
         /\ Len(source[me]) \in Nat /\ DOMAIN source[me] = 1 .. Len(source[me])
<1>1. active = me /\ me \in Proc /\ active # NoProc
  BY MeAssumption, CPUAssumption DEF Mine
<1>2. source[me] \in Programs
  BY <1>1 DEF Mine, Shape
<1>3. source[me] \in Seq(Seq(Lexeme))
  BY <1>2, ProgramsAssumption
<1>4. Len(source[me]) \in Nat /\ DOMAIN source[me] = 1 .. Len(source[me])
  BY <1>3
<1>5. Registers = cpu
  BY <1>1 DEF Registers
<1>6. memory = mem[me] /\ memory \in [Space -> Byte]
  BY <1>1 DEF memory, Mine, Shape
<1> QED BY <1>1, <1>2, <1>3, <1>4, <1>5, <1>6 DEF Running, Mine

LEMMA LineAt ==
  ASSUME Mine, Meaning!InCode
  PROVE  /\ Meaning!Index \in 1 .. Len(source[me])
         /\ Meaning!Line = Tokens(source[me][Meaning!Index])
         /\ cpu.ip - CodeBase = (Meaning!Index - 1) * InstrLen
<1> DEFINE k == Meaning!Index
           d == cpu.ip - CodeBase
<1>1. k = (d \div InstrLen) + 1
  BY MineFacts, SameWord DEF Meaning!Index
<1>2. k \in DOMAIN source[me] /\ d % InstrLen = 0
  BY MineFacts, SameWord DEF Meaning!InCode
<1>3. Meaning!Line = Tokens(source[me][k])
  BY <1>2 DEF Meaning!Line
<1>4. d \in Int /\ InstrLen \in Nat \ {0}
  <2>1. cpu.ip \in Int /\ CodeBase \in Int
    BY MineFacts, RunningFacts, CPUAssumption, WordsAreInts
  <2> QED BY <2>1, WordModFacts
<1>5. d = (k - 1) * InstrLen
  <2> DEFINE q == d \div InstrLen
             r == d % InstrLen
  <2>1. q \in Int /\ d = InstrLen * q + r
    BY <1>4, DivMod
  <2>2. k = q + 1 /\ r = 0
    BY <1>1, <1>2
  <2> HIDE DEF q, r, d, k
  <2>3. k - 1 = q
    BY <2>1, <2>2
  <2> QED BY <1>4, <2>1, <2>2, <2>3
<1> QED BY <1>2, <1>3, <1>5, MineFacts

\* The bytes of the line are where ip_ points to.
LEMMA CodeAt ==
  ASSUME Mine, Meaning!InCode
  PROVE  /\ cpu.ip + InstrLen <= WordMod
         /\ \A i \in 1 .. InstrLen :
              /\ (cpu.ip - 1) + i \in Space
              /\ memory[(cpu.ip - 1) + i] = AssembleLine(source[me][Meaning!Index])[i]
<1> DEFINE k == Meaning!Index
           n == Len(source[me])
           code == Image(source[me])
           L == InstrLen
<1>1. /\ k \in 1 .. n /\ n \in Nat
      /\ cpu.ip - CodeBase = (k - 1) * L
  BY LineAt, MineFacts
<1>2. /\ Len(code) = n * L
      /\ \A j \in 1 .. n, i \in 1 .. L :
           code[(j - 1) * L + i] = AssembleLine(source[me][j])[i]
  BY MineFacts, ImageFacts DEF Mine
<1>3. /\ CodeBase + Len(code) <= WordMod
      /\ \A j \in 1 .. Len(code) : mem[me][CodeBase + j - 1] = code[j]
  BY DEF Mine, CodeIntact
<1>4. /\ cpu.ip \in Int /\ CodeBase \in Int /\ L \in Nat \ {0}
      /\ WordMod \in Int
  BY MineFacts, RunningFacts, CPUAssumption, WordsAreInts, WordModFacts
<1>5. Space = (CodeBase .. CodeBase + Len(code) - 1) \cup Others
  BY DEF Space
<1>6. memory = mem[me]
  BY MineFacts
<1>7. \A i \in 1 .. L : code[(k - 1) * L + i] = AssembleLine(source[me][k])[i]
  BY <1>1, <1>2
<1> HIDE DEF k, n, code, L
<1>8. (k - 1) * L >= 0 /\ (n - k) * L >= 0
  BY <1>1, <1>4
<1>9. n * L = (k - 1) * L + L + (n - k) * L
  BY <1>1, <1>4
<1> DEFINE x == (k - 1) * L
           y == (n - k) * L
<1>10. x \in Int /\ y \in Int
  BY <1>1, <1>4
<1>11. /\ x >= 0 /\ y >= 0 /\ Len(code) = x + L + y
       /\ cpu.ip - CodeBase = x
  BY <1>1, <1>2, <1>8, <1>9
<1> HIDE DEF x, y
<1>12. cpu.ip + L <= WordMod
  BY ONLY <1>3, <1>4, <1>10, <1>11
<1>13. ASSUME NEW i \in 1 .. L
       PROVE  /\ (cpu.ip - 1) + i \in Space
              /\ memory[(cpu.ip - 1) + i] = AssembleLine(source[me][k])[i]
  <2>1. /\ x + i \in 1 .. Len(code)
        /\ (cpu.ip - 1) + i = CodeBase + (x + i) - 1
        /\ (cpu.ip - 1) + i \in CodeBase .. CodeBase + Len(code) - 1
    BY ONLY <1>4, <1>10, <1>11, <1>13
  <2>2. mem[me][CodeBase + (x + i) - 1] = code[x + i]
    BY <1>3, <2>1
  <2>3. code[x + i] = AssembleLine(source[me][k])[i]
    BY <1>7 DEF x
  <2> QED BY <1>5, <1>6, <2>1, <2>2, <2>3
<1> QED BY <1>12, <1>13 DEF k, L

\* A word that stands where the addresses do not wrap is read as it is.
LEMMA WordRead ==
  ASSUME NEW f, NEW x \in Int, x >= 0, x + WordLen <= WordMod,
         NEW w \in Words, HasWord(f, x - 1, w)
  PROVE  /\ \A i \in 1 .. WordLen : WordAt(x)[i] = (x - 1) + i
         /\ WordOf([i \in 1 .. WordLen |-> f[WordAt(x)[i]]]) = w
<1>1. ASSUME NEW i \in 1 .. WordLen PROVE WordAt(x)[i] = (x - 1) + i
  <2>1. x + i - 1 \in 0 .. WordMod - 1 /\ x + i - 1 = (x - 1) + i
    BY WordModFacts
  <2>2. AsUint32(x + i - 1) = x + i - 1
    BY <2>1, Word
  <2>3. WordAt(x)[i] = AsUint32(x + i - 1)
    BY DEF WordAt
  <2> QED BY <2>1, <2>2, <2>3
<1>2. \A i \in 1 .. WordLen : f[WordAt(x)[i]] = BytesOf(w)[i]
  BY <1>1 DEF HasWord
<1>3. [i \in 1 .. WordLen |-> f[WordAt(x)[i]]] = BytesOf(w)
  BY <1>2 DEF BytesOf
<1>4. WordOf(BytesOf(w)) = w
  BY WordRoundTrip, CastWord, WordsAreInts
<1> QED BY <1>1, <1>3, <1>4

LEMMA FetchAtParts ==
  ASSUME Running
  PROVE  \A i \in 1 .. WordLen :
            /\ FetchAt[i] = WordAt(cpu.ip)[i]
            /\ FetchAt[WordLen + i] = WordAt(cpu.ip + WordLen)[i]
            /\ FetchAt[2 * WordLen + i] = WordAt(cpu.ip + 2 * WordLen)[i]
<1> DEFINE u == WordAt(cpu.ip)
           v == WordAt(cpu.ip + WordLen)
           w == WordAt(cpu.ip + 2 * WordLen)
           x == u \o v \o w
<1>1. cpu.ip \in Int /\ cpu.ip + WordLen \in Int /\ cpu.ip + 2 * WordLen \in Int
  BY RunningFacts, WordModFacts
<1>2. u \in Seq(Words) /\ v \in Seq(Words) /\ w \in Seq(Words)
  BY <1>1, WordAtType
<1>3. Len(u) = WordLen /\ Len(v) = WordLen /\ Len(w) = WordLen
  BY <1>1, WordAtType
<1>4. FetchAt = x
  BY DEF FetchAt
<1> HIDE DEF u, v, w
<1>5. /\ \A k \in 1 .. Len(u) : x[k] = u[k]
      /\ \A k \in 1 .. Len(v) : x[Len(u) + k] = v[k]
      /\ \A k \in 1 .. Len(w) : x[Len(u) + Len(v) + k] = w[k]
  BY <1>2, ThreeParts
<1> HIDE DEF x
<1>6. WordLen + WordLen = 2 * WordLen
  BY WordModFacts
<1> QED BY <1>3, <1>4, <1>5, <1>6 DEF u, v, w

\* The words that are fetched say what the line says.
LEMMA FetchedWords ==
  ASSUME Mine, Meaning!InCode
  PROVE  /\ \A k \in 1 .. InstrLen : FetchAt[k] \in DOMAIN memory
         /\ Fetched(0) \in Words /\ opA \in Words /\ opB \in Words
         /\ Says(Meaning!Line, Fetched(0), opA, opB)
<1> DEFINE line == source[me][Meaning!Index]
           text == AssembleLine(line)
           x == cpu.ip
           L == WordLen
<1>1. /\ line \in Seq(Lexeme) /\ text # Error /\ Tokens(line) # <<>>
      /\ Meaning!Line = Tokens(line)
  <2>1. Meaning!Index \in 1 .. Len(source[me]) /\ Meaning!Line = Tokens(line)
    BY LineAt
  <2>2. /\ source[me] \in Programs /\ source[me] \in Seq(Seq(Lexeme))
        /\ DOMAIN source[me] = 1 .. Len(source[me])
    BY MineFacts
  <2>3. line \in Seq(Lexeme)
    BY <2>1, <2>2, ElementOfSeq
  <2>4. text # Error
    BY <2>1, <2>2, ProgramsAssumption
  <2>5. Tokens(line) # <<>>
    BY <2>1, <2>2 DEF Mine, Plain
  <2> QED BY <2>1, <2>3, <2>4, <2>5
<1>2. PICK a, b, c \in Words :
         /\ Says(Tokens(line), a, b, c)
         /\ HasWord(text, 0, a) /\ HasWord(text, L, b) /\ HasWord(text, 2 * L, c)
  BY <1>1, PlainLine
<1>3. /\ x + InstrLen <= WordMod
      /\ \A i \in 1 .. InstrLen : (x - 1) + i \in Space /\ memory[(x - 1) + i] = text[i]
  BY CodeAt
<1>4. /\ x \in Int /\ x >= 0 /\ L \in Nat \ {0} /\ InstrLen = 3 * L /\ WordMod \in Int
  <2>1. x \in Words /\ Running
    BY MineFacts, RunningFacts
  <2> QED BY <2>1, WordModFacts DEF Words, InstrLen
<1>5. DOMAIN memory = Space /\ Running
  BY MineFacts
<1>6. \A i \in 1 .. L : /\ FetchAt[i] = WordAt(x)[i]
                        /\ FetchAt[L + i] = WordAt(x + L)[i]
                        /\ FetchAt[2 * L + i] = WordAt(x + 2 * L)[i]
  BY <1>5, FetchAtParts
<1>7. Fetched(0) = WordOf([i \in 1 .. WordLen |-> memory[WordAt(x)[i]]])
  <2>1. \A i \in 1 .. WordLen : FetchAt[0 * WordLen + i] = WordAt(x)[i]
    BY <1>4, <1>6
  <2> QED BY <2>1 DEF Fetched
<1>8. opA = WordOf([i \in 1 .. WordLen |-> memory[WordAt(x + L)[i]]])
  <2>1. \A i \in 1 .. WordLen : FetchAt[1 * WordLen + i] = WordAt(x + L)[i]
    BY <1>4, <1>6
  <2> QED BY <2>1 DEF opA, Fetched
<1>9. opB = WordOf([i \in 1 .. WordLen |-> memory[WordAt(x + 2 * L)[i]]])
  <2>1. \A i \in 1 .. WordLen : FetchAt[2 * WordLen + i] = WordAt(x + 2 * L)[i]
    BY <1>6
  <2> QED BY <2>1 DEF opB, Fetched
<1> HIDE DEF line, text, x
<1>10. HasWord(memory, x - 1, a)
  <2>1. \A i \in 1 .. L : i \in 1 .. InstrLen /\ 0 + i = i
    BY <1>4
  <2> QED BY <1>2, <1>3, <2>1 DEF HasWord
<1>11. HasWord(memory, (x + L) - 1, b)
  <2>1. \A i \in 1 .. L : /\ L + i \in 1 .. InstrLen
                          /\ ((x + L) - 1) + i = (x - 1) + (L + i)
    BY <1>4
  <2> QED BY <1>2, <1>3, <2>1 DEF HasWord
<1>12. HasWord(memory, (x + 2 * L) - 1, c)
  <2>1. \A i \in 1 .. L : /\ 2 * L + i \in 1 .. InstrLen
                          /\ ((x + 2 * L) - 1) + i = (x - 1) + (2 * L + i)
    BY <1>4
  <2> QED BY <1>2, <1>3, <2>1 DEF HasWord
<1>13. /\ x + L \in Int /\ x + 2 * L \in Int /\ x + L >= 0 /\ x + 2 * L >= 0
       /\ x + L <= WordMod /\ (x + L) + L <= WordMod /\ (x + 2 * L) + L <= WordMod
  BY <1>3, <1>4
<1>14. /\ \A i \in 1 .. L : WordAt(x)[i] = (x - 1) + i
       /\ Fetched(0) = a
  BY <1>4, <1>7, <1>10, <1>13, WordRead
<1>15. /\ \A i \in 1 .. L : WordAt(x + L)[i] = ((x + L) - 1) + i
       /\ opA = b
  BY <1>8, <1>11, <1>13, WordRead
<1>16. /\ \A i \in 1 .. L : WordAt(x + 2 * L)[i] = ((x + 2 * L) - 1) + i
       /\ opB = c
  BY <1>9, <1>12, <1>13, WordRead
<1>17. ASSUME NEW k \in 1 .. InstrLen PROVE FetchAt[k] \in Space
  <2>1. CASE k \in 1 .. L
    BY <1>3, <1>6, <1>14, <2>1
  <2>2. CASE k - L \in 1 .. L
    <3>1. k = L + (k - L) /\ ((x + L) - 1) + (k - L) = (x - 1) + k
      BY <1>4
    <3>2. FetchAt[k] = WordAt(x + L)[k - L]
      BY <1>6, <2>2, <3>1
    <3>3. FetchAt[k] = (x - 1) + k
      BY <1>15, <2>2, <3>1, <3>2
    <3> QED BY <1>3, <3>3
  <2>3. CASE k - 2 * L \in 1 .. L
    <3>1. k = 2 * L + (k - 2 * L) /\ ((x + 2 * L) - 1) + (k - 2 * L) = (x - 1) + k
      BY <1>4
    <3>2. FetchAt[k] = WordAt(x + 2 * L)[k - 2 * L]
      BY <1>6, <2>3, <3>1
    <3>3. FetchAt[k] = (x - 1) + k
      BY <1>16, <2>3, <3>1, <3>2
    <3> QED BY <1>3, <3>3
  <2>4. k \in 1 .. L \/ k - L \in 1 .. L \/ k - 2 * L \in 1 .. L
    BY <1>4
  <2> QED BY <2>1, <2>2, <2>3, <2>4
<1> QED BY <1>1, <1>2, <1>5, <1>14, <1>15, <1>16, <1>17

-----------------------------------------------------------------------------
(***************************************************************************)
(* What the operands of the line are in the CPU.                           *)
(***************************************************************************)
Decoded ==
    /\ Decodes
    /\ Meaning!Op = Op
    /\ opA \in Words /\ opB \in Words
    /\ Op \notin NoOperand \cup OneImmediate \cup OneInteger =>
          opA \in Reg /\ Meaning!Dest = opA /\ Meaning!Val(2) = RA
    /\ Op \in OneImmediate \cup OneInteger => Meaning!Val(2) = AsInt32(opA)
    /\ Op \in RegImmediate => Meaning!Val(3) = AsInt32(opB)
    /\ Op \in RegReg => opB \in Reg /\ Meaning!Line[3][2] = opB /\ Meaning!Val(3) = RB
    /\ Op \in InR1 => opA = 1

LEMMA Instruction == ASSUME Mine, Meaning!InCode PROVE Decoded
<1> DEFINE t == Meaning!Line
           o == Fetched(0)
<1>1. Says(t, o, opA, opB) /\ opA \in Words /\ opB \in Words
  BY FetchedWords
<1>2. /\ \A j \in 2 .. Len(t) : t[j][1] # "name" => t[j][2] = AsInt32(t[j][2])
      /\ t[1][2] \in InR1 => t[2][2] = 1
      /\ Len(t) \in Nat
  <2>1. /\ Meaning!Index \in 1 .. Len(source[me])
        /\ t = Tokens(source[me][Meaning!Index])
    BY LineAt
  <2>2. DOMAIN source[me] = 1 .. Len(source[me]) /\ source[me] \in Seq(Seq(Lexeme))
    BY MineFacts
  <2>3. source[me][Meaning!Index] \in Seq(Lexeme)
    BY <2>1, <2>2, ElementOfSeq
  <2>4. t \in Seq(Lexeme)
    BY <2>1, <2>3, TokensType
  <2>5. Len(t) \in Nat
    BY <2>4, LenProperties
  <2> QED BY <2>1, <2>2, <2>5 DEF Mine, Plain
<1>3. Op = Mnemonics[o]
  BY DEF Op
<1>4. Meaning!Op = t[1][2] /\ Meaning!Dest = t[2][2]
  BY DEF Meaning!Op, Meaning!Dest
<1>5. cpu = Registers
  BY MineFacts
<1>6. /\ o \in 1 .. Len(Mnemonics)
      /\ t[1] = <<"name", Op>>
      /\ Op \in RegisterA => opA \in Reg
      /\ Op \in RegisterB => opB \in Reg
  BY <1>1, <1>3 DEF Says
<1>7. /\ Op \notin NoOperand => Len(t) >= 2
      /\ Op \in RegImmediate \cup RegReg => Len(t) >= 3
      /\ Op \in OneImmediate \cup OneInteger => IsNumber(opA, t[2])
      /\ Op \notin NoOperand \cup OneImmediate \cup OneInteger => IsRegister(opA, t[2])
      /\ Op \in RegImmediate => IsNumber(opB, t[3])
      /\ Op \in RegReg => IsRegister(opB, t[3])
  BY <1>1, <1>3 DEF Says
<1> HIDE DEF t, o
<1>8. Meaning!Op = Op
  BY <1>4, <1>6
<1>9. Decodes
  BY <1>6 DEF Decodes, o
<1>10. ASSUME NEW k, NEW w, IsRegister(w, t[k])
       PROVE  w \in Reg /\ t[k][2] = w /\ Meaning!Val(k) = cpu.regs[w]
  <2>1. t[k][1] = "r" /\ t[k][2] = w /\ w \in Reg
    BY <1>10 DEF IsRegister
  <2>2. Meaning!Val(k) = [i \in Reg |-> cpu.regs[i]][t[k][2]]
    BY <1>5, <2>1 DEF Meaning!Val, t
  <2> QED BY <2>1, <2>2
<1>11. ASSUME NEW k \in 2 .. Len(t), NEW w \in Words, IsNumber(w, t[k])
       PROVE  Meaning!Val(k) = AsInt32(w)
  <2>1. t[k][1] # "r" /\ t[k][1] # "name" /\ Means(w, t[k])
    BY <1>11 DEF IsNumber
  <2>2. t[k][2] = AsInt32(t[k][2])
    BY <1>2, <2>1
  <2>3. AsInt32(w) = t[k][2]
    BY <2>1, <2>2 DEF Means
  <2>4. Meaning!Val(k) = t[k][2]
    BY <2>1 DEF Meaning!Val, t
  <2> QED BY <2>3, <2>4
<1>12. ASSUME Op \notin NoOperand \cup OneImmediate \cup OneInteger
       PROVE  opA \in Reg /\ Meaning!Dest = opA /\ Meaning!Val(2) = RA
  <2>1. IsRegister(opA, t[2])
    BY <1>7, <1>12
  <2> QED BY <1>4, <1>10, <2>1 DEF RA
<1>13. ASSUME Op \in OneImmediate \cup OneInteger
       PROVE  Meaning!Val(2) = AsInt32(opA)
  <2>1. Op \notin NoOperand
    BY <1>13, FormFacts
  <2>2. 2 \in 2 .. Len(t) /\ IsNumber(opA, t[2])
    BY <1>2, <1>7, <1>13, <2>1
  <2> QED BY <1>1, <1>11, <2>2
<1>14. ASSUME Op \in RegImmediate PROVE Meaning!Val(3) = AsInt32(opB)
  <2>1. 3 \in 2 .. Len(t) /\ IsNumber(opB, t[3])
    BY <1>2, <1>7, <1>14
  <2> QED BY <1>1, <1>11, <2>1
<1>15. ASSUME Op \in RegReg
       PROVE  opB \in Reg /\ Meaning!Line[3][2] = opB /\ Meaning!Val(3) = RB
  <2>1. IsRegister(opB, t[3])
    BY <1>7, <1>15
  <2> QED BY <1>10, <2>1 DEF RB, t
<1>16. ASSUME Op \in InR1 PROVE opA = 1
  <2>1. Op \notin NoOperand \cup OneImmediate \cup OneInteger
    BY <1>16 DEF InR1, NoOperand, OneImmediate, OneInteger
  <2>2. t[2][2] = 1
    BY <1>2, <1>6, <1>16
  <2> QED BY <1>4, <1>12, <2>1, <2>2
<1> QED BY <1>1, <1>8, <1>9, <1>12, <1>13, <1>14, <1>15, <1>16 DEF Decoded

-----------------------------------------------------------------------------
(***************************************************************************)
(* Where a word is written.                                                *)
(***************************************************************************)
\* The first position of x in s, 0 if it has none.
Where(s, x) ==
    LET I == {i \in 1 .. Len(s) : s[i] = x} IN IF I # {} THEN Min(I) ELSE 0

LEMMA SameWhere ==
  ASSUME NEW s, NEW x
  PROVE  /\ SelectInSeq(s, LAMBDA y : y = x) = Where(s, x)
         /\ Meaning!SelectInSeq(s, LAMBDA y : y = x) = Where(s, x)
<1>1. SelectInSeq(s, LAMBDA y : y = x) = Where(s, x)
  BY DEF SelectInSeq, Where
<1>2. Meaning!SelectInSeq(s, LAMBDA y : y = x) = Where(s, x)
  BY DEF Meaning!SelectInSeq, Meaning!Min, Where, Min
<1> QED BY <1>1, <1>2

LEMMA WhereFacts ==
  ASSUME NEW s, NEW x, Len(s) \in Nat
  PROVE  /\ Where(s, x) \in 0 .. Len(s)
         /\ Where(s, x) # 0 => s[Where(s, x)] = x
         /\ Where(s, x) = 0 => \A k \in 1 .. Len(s) : s[k] # x
<1> DEFINE n == Len(s)
           I == {i \in 1 .. n : s[i] = x}
<1>1. Where(s, x) = IF I # {} THEN Min(I) ELSE 0
  BY DEF Where
<1>2. I \in SUBSET (1 .. n) /\ \A i \in 1 .. n : i \in I <=> s[i] = x
  OBVIOUS
<1>3. \A i \in I : i \in 1 .. n /\ s[i] = x
  OBVIOUS
<1> HIDE DEF I
<1>4. /\ (IF I # {} THEN Min(I) ELSE 0) \in 0 .. n
      /\ I # {} => Min(I) \in I
  <2> HIDE DEF n
  <2> QED BY <1>2, FirstMatch DEF n
<1>5. CASE I = {}
  BY <1>1, <1>2, <1>4, <1>5
<1>6. CASE I # {}
  <2>1. Where(s, x) \in I
    BY <1>1, <1>4, <1>6
  <2>2. Where(s, x) \in 1 .. n /\ s[Where(s, x)] = x
    BY <1>3, <2>1
  <2> QED BY <2>2
<1> QED BY <1>5, <1>6

\* Where among the accesses the word is written.
WriteFrom == InstrLen + IF Op = "callm" THEN 0 ELSE Len(ReadAt)

\* Every access is one to the instruction, one to what it reads or one to what
\* it writes.
LEMMA AccessKinds ==
  ASSUME Running, ~FetchRefused, Decodes
  PROVE  /\ Len(Accesses) = InstrLen + Len(ReadAt) + Len(WriteAt)
         /\ Len(ReadAt) \in Nat /\ Len(WriteAt) \in Nat
         /\ \A i \in 1 .. Len(ReadAt) : Accesses[ReadFrom + i] = ReadAt[i]
         /\ \A i \in 1 .. Len(WriteAt) : Accesses[WriteFrom + i] = WriteAt[i]
         /\ \A k \in InstrLen + 1 .. Len(Accesses) :
              \/ \E i \in 1 .. Len(ReadAt) : k = ReadFrom + i
              \/ \E i \in 1 .. Len(WriteAt) : k = WriteFrom + i
<1> DEFINE u == FetchAt
           v == ReadAt
           w == WriteAt
<1>1. u \in Seq(Words) /\ v \in Seq(Words) /\ w \in Seq(Words)
  BY FetchAtType, ReadAtType, WriteAtType
<1>2. Len(u) = InstrLen /\ InstrLen \in Nat
  BY FetchAtType, WordModFacts
<1>3. /\ Len(Accesses) = InstrLen + Len(v) + Len(w)
      /\ \A i \in 1 .. Len(v) : Accesses[ReadFrom + i] = v[i]
  BY AccessesFacts
<1>4. Accesses = IF Op = "callm" THEN u \o w \o v ELSE u \o v \o w
  BY DEF Accesses
<1>5. /\ ReadFrom = InstrLen + IF Op = "callm" THEN Len(w) ELSE 0
      /\ WriteFrom = InstrLen + IF Op = "callm" THEN 0 ELSE Len(v)
  BY DEF ReadFrom, WriteFrom
<1>6. ReadAt = v /\ WriteAt = w
  OBVIOUS
<1> HIDE DEF u, v, w
<1>7. Len(v) \in Nat /\ Len(w) \in Nat
  BY <1>1, LenProperties
<1>8. CASE Op = "callm"
  <2> DEFINE x == u \o w \o v
  <2>1. \A k \in 1 .. Len(w) : x[Len(u) + k] = w[k]
    BY <1>1, ThreeParts
  <2>2. Accesses = x /\ WriteFrom = InstrLen /\ ReadFrom = InstrLen + Len(w)
    BY <1>2, <1>4, <1>5, <1>8
  <2> HIDE DEF x
  <2>3. \A i \in 1 .. Len(w) : Accesses[WriteFrom + i] = w[i]
    BY <1>2, <2>1, <2>2
  <2>4. ASSUME NEW k \in InstrLen + 1 .. Len(Accesses)
        PROVE  \/ \E i \in 1 .. Len(v) : k = ReadFrom + i
               \/ \E i \in 1 .. Len(w) : k = WriteFrom + i
    <3>1. \/ k - ReadFrom \in 1 .. Len(v) /\ k = ReadFrom + (k - ReadFrom)
          \/ k - WriteFrom \in 1 .. Len(w) /\ k = WriteFrom + (k - WriteFrom)
      BY <1>2, <1>3, <1>7, <2>2
    <3> QED BY <3>1
  <2> QED BY <1>3, <1>6, <1>7, <2>3, <2>4
<1>9. CASE Op # "callm"
  <2> DEFINE x == u \o v \o w
  <2>1. \A k \in 1 .. Len(w) : x[Len(u) + Len(v) + k] = w[k]
    BY <1>1, ThreeParts
  <2>2. Accesses = x /\ WriteFrom = InstrLen + Len(v) /\ ReadFrom = InstrLen
    BY <1>2, <1>4, <1>5, <1>9
  <2> HIDE DEF x
  <2>3. \A i \in 1 .. Len(w) : Accesses[WriteFrom + i] = w[i]
    BY <1>2, <2>1, <2>2
  <2>4. ASSUME NEW k \in InstrLen + 1 .. Len(Accesses)
        PROVE  \/ \E i \in 1 .. Len(v) : k = ReadFrom + i
               \/ \E i \in 1 .. Len(w) : k = WriteFrom + i
    <3>1. \/ k - ReadFrom \in 1 .. Len(v) /\ k = ReadFrom + (k - ReadFrom)
          \/ k - WriteFrom \in 1 .. Len(w) /\ k = WriteFrom + (k - WriteFrom)
      BY <1>2, <1>3, <1>7, <2>2
    <3> QED BY <3>1
  <2> QED BY <1>3, <1>6, <1>7, <2>3, <2>4
<1> QED BY <1>8, <1>9

\* An instruction that goes through has all it touches in memory.
LEMMA AllThere ==
  ASSUME Running, Completes
  PROVE  /\ ~FetchRefused /\ Decodes /\ Done = InstrLen + Len(ReadAt) + Len(WriteAt)
         /\ Len(ReadAt) \in Nat /\ Len(WriteAt) \in Nat
         /\ \A i \in 1 .. Len(ReadAt) : ReadAt[i] \in DOMAIN memory
         /\ \A i \in 1 .. Len(WriteAt) : WriteAt[i] \in DOMAIN memory
<1>1. ~FetchRefused /\ Decodes /\ Done = Len(Accesses)
  BY ProgressFacts
<1>2. /\ Len(Accesses) = InstrLen + Len(ReadAt) + Len(WriteAt)
      /\ Len(ReadAt) \in Nat /\ Len(WriteAt) \in Nat
      /\ \A i \in 1 .. Len(ReadAt) : Accesses[ReadFrom + i] = ReadAt[i]
      /\ \A i \in 1 .. Len(WriteAt) : Accesses[WriteFrom + i] = WriteAt[i]
  BY <1>1, AccessKinds
<1>3. \A k \in 1 .. Len(Accesses) : Accesses[k] \in DOMAIN memory
  BY <1>1, DoneFacts DEF Refused
<1>4. InstrLen \in Nat
  BY WordModFacts
<1>5. ASSUME NEW i \in 1 .. Len(ReadAt) PROVE ReadFrom + i \in 1 .. Len(Accesses)
  BY <1>2, <1>4 DEF ReadFrom
<1>6. ASSUME NEW i \in 1 .. Len(WriteAt) PROVE WriteFrom + i \in 1 .. Len(Accesses)
  BY <1>2, <1>4 DEF WriteFrom
<1> QED BY <1>1, <1>2, <1>3, <1>5, <1>6

\* What write32 makes of f.
Overwritten(f, at, w) ==
    [a \in DOMAIN f |-> IF Where(at, a) # 0 THEN BytesOf(w)[Where(at, a)] ELSE f[a]]

LEMMA WrittenIs ==
  ASSUME Running
  PROVE  Written = IF Done <= InstrLen THEN memory
                   ELSE [a \in DOMAIN memory |->
                           IF Where(WriteAt, a) # 0 /\ WriteFrom + Where(WriteAt, a) <= Done
                           THEN BytesOf(WriteWord)[Where(WriteAt, a)] ELSE memory[a]]
BY SameWhere DEF Written, WriteFrom

LEMMA WrittenWhole ==
  ASSUME Running, Completes, Op \in WritesWord
  PROVE  Written = Overwritten(memory, WriteAt, WriteWord)
<1>1. /\ Done = InstrLen + Len(ReadAt) + Len(WriteAt) /\ Decodes
      /\ Len(ReadAt) \in Nat /\ Len(WriteAt) \in Nat
  BY AllThere
<1>2. Len(WriteAt) = WordLen /\ WordLen \in Nat \ {0} /\ InstrLen \in Nat
  BY <1>1, WriteAtType, WordModFacts
<1>3. ~(Done <= InstrLen)
  BY <1>1, <1>2
<1>4. ASSUME NEW a PROVE WriteFrom + Where(WriteAt, a) <= Done
  <2>1. Where(WriteAt, a) \in 0 .. Len(WriteAt)
    BY <1>1, WhereFacts
  <2> QED BY <1>1, <1>2, <2>1 DEF WriteFrom
<1> QED BY <1>3, <1>4, WrittenIs DEF Overwritten

LEMMA NothingWritten ==
  ASSUME Mine, Decodes, Op \notin WritesWord
  PROVE  Written = memory
<1>1. Running /\ memory \in [Space -> Byte]
  BY MineFacts
<1>2. WriteAt = <<>>
  BY <1>1, WriteAtType
<1>3. ASSUME NEW a PROVE Where(WriteAt, a) = 0
  BY <1>2, WhereFacts
<1>4. Written \in {memory, [a \in DOMAIN memory |-> memory[a]]}
  BY <1>1, <1>3, WrittenIs
<1>5. [a \in DOMAIN memory |-> memory[a]] = memory
  BY <1>1
<1> QED BY <1>4, <1>5

-----------------------------------------------------------------------------
(***************************************************************************)
(* The invariant.  Between two attempts at an instruction the memory may   *)
(* differ from what the last instruction that went through has left, but   *)
(* only where the next attempt writes and nothing is read before.          *)
(***************************************************************************)
PendingIn(m) ==
    m # committed[me].mem =>
        /\ Meaning!InCode
        /\ Meaning!Op \in {"movrm", "movmm"}
        /\ \A a \in Space :
              m[a] # committed[me].mem[a] =>
                  \E k \in 1 .. WordLen : WordAt(Meaning!Val(2))[k] = a
        /\ Meaning!Op = "movmm" =>
              \A k, l \in 1 .. WordLen :
                  WordAt(Meaning!Val(3))[k] # WordAt(Meaning!Val(2))[l]

Pending == PendingIn(mem[me])

RInv ==
    /\ Shape
    /\ status[me] # "dead" => committed[me].sp = Registers.sp /\ Pending

-----------------------------------------------------------------------------
(***************************************************************************)
(* The state an instruction starts in.                                     *)
(***************************************************************************)
Start ==
    /\ Mine /\ Decoded /\ Meaning!InCode
    /\ status[me] # "dead" /\ committed[me].sp = cpu.sp /\ Pending

LEMMA StartFacts ==
  ASSUME IInv, RInv, Tame, active = me
  PROVE  /\ Mine /\ status[me] # "dead" /\ committed[me].sp = cpu.sp /\ Pending
         /\ Meaning!InCode => Start
         /\ ~FetchRefused /\ Decodes => Start
<1>1. Mine
  BY DEF IInv, RInv, Tame, Mine
<1>2. active # NoProc /\ Registers = cpu
  BY <1>1, MineFacts DEF Running
<1>3. status[me] # "dead"
  BY <1>2 DEF IInv, Queued
<1>4. committed[me].sp = cpu.sp /\ Pending
  BY <1>2, <1>3 DEF RInv
<1>5. ASSUME Meaning!InCode PROVE Start
  BY <1>1, <1>3, <1>4, <1>5, Instruction DEF Start
<1>6. ASSUME ~FetchRefused, Decodes PROVE Start
  <2>1. Meaning!InCode
    BY <1>6 DEF Tame, StaysInCode
  <2> QED BY <1>5, <2>1
<1> QED BY <1>1, <1>3, <1>4, <1>5, <1>6

\* The operands, by the form of the instruction.
LEMMA Operands ==
  ASSUME Start
  PROVE  /\ Op \in RegReg =>
              /\ opA \in Reg /\ Meaning!Dest = opA /\ Meaning!Val(2) = RA
              /\ opB \in Reg /\ Meaning!Line[3][2] = opB /\ Meaning!Val(3) = RB
         /\ Op \in OneRegister \cup RegImmediate =>
              opA \in Reg /\ Meaning!Dest = opA /\ Meaning!Val(2) = RA
         /\ Op \in OneImmediate \cup OneInteger => Meaning!Val(2) = AsInt32(opA)
         /\ Op \in RegImmediate => Meaning!Val(3) = AsInt32(opB)
<1>1. (OneRegister \cup RegImmediate \cup RegReg) \cap
         (NoOperand \cup OneImmediate \cup OneInteger) = {}
  BY DEF OneRegister, RegImmediate, RegReg, NoOperand, OneImmediate, OneInteger
<1>2. Op \in OneRegister \cup RegImmediate \cup RegReg =>
         opA \in Reg /\ Meaning!Dest = opA /\ Meaning!Val(2) = RA
  BY <1>1 DEF Start, Decoded
<1> QED BY <1>2 DEF Start, Decoded

LEMMA OperandTypes ==
  ASSUME Start
  PROVE  /\ Meaning!Op = Op /\ Decodes /\ opA \in Words /\ opB \in Words
         /\ Op \in OneRegister \cup RegImmediate \cup RegReg => RA \in Int
         /\ Op \in RegReg => RB \in Int
         /\ cpu.regs \in [Reg \cup {15} -> Int]
         /\ Registers = cpu /\ cpu.sp \in Int /\ cpu.ip \in Int
<1>1. /\ Running /\ Registers = cpu
      /\ cpu.regs \in [Reg \cup {15} -> Int] /\ cpu.sp \in Int /\ cpu.ip \in Int
  BY MineFacts, RunningFacts DEF Start
<1>2. Meaning!Op = Op /\ Decodes /\ opA \in Words /\ opB \in Words
  BY DEF Start, Decoded
<1>3. Op \in OneRegister \cup RegImmediate \cup RegReg => RA \in Int
  BY <1>1, Operands DEF RA
<1>4. Op \in RegReg => RB \in Int
  BY <1>1, Operands DEF RB
<1> QED BY <1>1, <1>2, <1>3, <1>4

-----------------------------------------------------------------------------
(***************************************************************************)
(* The addresses the instruction needs are the ones that are accessed.     *)
(***************************************************************************)
Elements(s) == {s[i] : i \in 1 .. Len(s)}

LEMMA WordElements ==
  ASSUME NEW a \in Int
  PROVE  Elements(WordAt(a)) = {Meaning!WordAt(a)[k] : k \in 1 .. WordLen}
BY SameMachine, WordAtType DEF Elements

LEMMA NoElements == Elements(<<>>) = {}
BY DEF Elements

LEMMA TouchesAre ==
  ASSUME Start
  PROVE  Meaning!Touches = Elements(ReadAt) \cup Elements(WriteAt)
<1> DEFINE W(a) == {Meaning!WordAt(a)[k] : k \in 1 .. WordLen}
<1>1. Meaning!Op = Op /\ committed[me].sp = cpu.sp /\ cpu.sp \in Int
  BY OperandTypes DEF Start
<1>2. cpu.sp - WordLen \in Int
  BY <1>1, WordModFacts
<1>3. Elements(WordAt(cpu.sp)) = W(cpu.sp)
  BY <1>1, WordElements
<1>4. Elements(WordAt(cpu.sp - WordLen)) = W(cpu.sp - WordLen)
  BY <1>2, WordElements
<1>5. ASSUME RA \in Int PROVE Elements(WordAt(RA)) = W(RA)
  BY <1>5, WordElements
<1>6. ASSUME RB \in Int PROVE Elements(WordAt(RB)) = W(RB)
  BY <1>6, WordElements
<1>7. Meaning!Touches =
        CASE Op = "movmr"               -> W(Meaning!Val(3))
          [] Op \in {"movrm", "printm"} -> W(Meaning!Val(2))
          [] Op = "movmm"               -> W(Meaning!Val(2)) \cup W(Meaning!Val(3))
          [] Op = "printcm"             -> {Meaning!AsUint32(Meaning!Val(2))}
          [] Op \in {"pushi", "pushr", "call"} -> W(cpu.sp - WordLen)
          [] Op = "callm"               -> W(cpu.sp - WordLen) \cup W(Meaning!Val(2))
          [] Op \in {"popr", "ret"}     -> W(cpu.sp)
          [] Op = "popm"                -> W(cpu.sp) \cup W(Meaning!Val(2))
          [] OTHER                      -> {}
  BY <1>1 DEF Meaning!Touches
<1> HIDE DEF W
<1>8. CASE Op = "movmr"
  <2>1. ReadAt = WordAt(RB) /\ WriteAt = <<>>
    BY <1>8 DEF ReadAt, WriteAt, Pops, Pushes
  <2>2. Meaning!Val(3) = RB /\ RB \in Int
    BY <1>8, Operands, OperandTypes DEF RegReg
  <2>3. Meaning!Touches = W(Meaning!Val(3))
    BY <1>7, <1>8
  <2> QED BY <1>6, <2>1, <2>2, <2>3, NoElements
<1>9. CASE Op = "movrm"
  <2>1. ReadAt = <<>> /\ WriteAt = WordAt(RA)
    BY <1>9 DEF ReadAt, WriteAt, Pops, Pushes
  <2>2. Meaning!Val(2) = RA /\ RA \in Int
    BY <1>9, Operands, OperandTypes DEF RegReg
  <2>3. Meaning!Touches = W(Meaning!Val(2))
    BY <1>7, <1>9
  <2> QED BY <1>5, <2>1, <2>2, <2>3, NoElements
<1>10. CASE Op = "printm"
  <2>1. ReadAt = WordAt(RA) /\ WriteAt = <<>>
    BY <1>10 DEF ReadAt, WriteAt, Pops, Pushes
  <2>2. Meaning!Val(2) = RA /\ RA \in Int
    BY <1>10, Operands, OperandTypes DEF OneRegister
  <2>3. Meaning!Touches = W(Meaning!Val(2))
    BY <1>7, <1>10
  <2> QED BY <1>5, <2>1, <2>2, <2>3, NoElements
<1>11. CASE Op = "movmm"
  <2>1. ReadAt = WordAt(RB) /\ WriteAt = WordAt(RA)
    BY <1>11 DEF ReadAt, WriteAt, Pops, Pushes
  <2>2. Meaning!Val(2) = RA /\ RA \in Int /\ Meaning!Val(3) = RB /\ RB \in Int
    BY <1>11, Operands, OperandTypes DEF RegReg
  <2>3. Meaning!Touches = W(Meaning!Val(2)) \cup W(Meaning!Val(3))
    BY <1>7, <1>11
  <2> QED BY <1>5, <1>6, <2>1, <2>2, <2>3
<1>12. CASE Op = "printcm"
  <2>1. ReadAt = <<AsUint32(RA)>> /\ WriteAt = <<>>
    BY <1>12 DEF ReadAt, WriteAt, Pops, Pushes
  <2>2. Meaning!Val(2) = RA
    BY <1>12, Operands DEF OneRegister
  <2>3. Meaning!Touches = {AsUint32(RA)}
    BY <1>7, <1>12, <2>2, SameMachine
  <2>4. Elements(<<AsUint32(RA)>>) = {AsUint32(RA)}
    BY DEF Elements
  <2> QED BY <2>1, <2>3, <2>4, NoElements
<1>13. CASE Op \in {"pushi", "pushr", "call"}
  <2>1. ReadAt = <<>> /\ WriteAt = WordAt(cpu.sp - WordLen)
    BY <1>13 DEF ReadAt, WriteAt, Pops, Pushes
  <2>2. Meaning!Touches = W(cpu.sp - WordLen)
    BY <1>7, <1>13
  <2> QED BY <1>4, <2>1, <2>2, NoElements
<1>14. CASE Op = "callm"
  <2>1. ReadAt = WordAt(RA) /\ WriteAt = WordAt(cpu.sp - WordLen)
    BY <1>14 DEF ReadAt, WriteAt, Pops, Pushes
  <2>2. Meaning!Val(2) = RA /\ RA \in Int
    BY <1>14, Operands, OperandTypes DEF OneRegister
  <2>3. Meaning!Touches = W(cpu.sp - WordLen) \cup W(Meaning!Val(2))
    BY <1>7, <1>14
  <2> QED BY <1>4, <1>5, <2>1, <2>2, <2>3
<1>15. CASE Op \in {"popr", "ret"}
  <2>1. ReadAt = WordAt(cpu.sp) /\ WriteAt = <<>>
    BY <1>15 DEF ReadAt, WriteAt, Pops, Pushes
  <2>2. Meaning!Touches = W(cpu.sp)
    BY <1>7, <1>15
  <2> QED BY <1>3, <2>1, <2>2, NoElements
<1>16. CASE Op = "popm"
  <2>1. ReadAt = WordAt(cpu.sp) /\ WriteAt = WordAt(RA)
    BY <1>16 DEF ReadAt, WriteAt, Pops, Pushes
  <2>2. Meaning!Val(2) = RA /\ RA \in Int
    BY <1>16, Operands, OperandTypes DEF OneRegister
  <2>3. Meaning!Touches = W(cpu.sp) \cup W(Meaning!Val(2))
    BY <1>7, <1>16
  <2> QED BY <1>3, <1>5, <2>1, <2>2, <2>3
<1>17. CASE Op \notin {"movmr", "movrm", "printm", "movmm", "printcm", "pushi", "pushr",
                       "call", "callm", "popr", "ret", "popm"}
  <2>1. ReadAt = <<>> /\ WriteAt = <<>>
    BY <1>17 DEF ReadAt, WriteAt, Pops, Pushes
  <2>2. Meaning!Touches = {}
    BY <1>7, <1>17
  <2> QED BY <2>1, <2>2, NoElements
<1> QED BY <1>8, <1>9, <1>10, <1>11, <1>12, <1>13, <1>14, <1>15, <1>16, <1>17

LEMMA RunsWhenComplete == ASSUME Start, Completes PROVE Meaning!Runs
<1>1. Running /\ memory \in [Space -> Byte] /\ DOMAIN committed[me].mem = Space
  BY MineFacts DEF Start, Mine, Shape
<1>2. /\ \A i \in 1 .. Len(ReadAt) : ReadAt[i] \in Space
      /\ \A i \in 1 .. Len(WriteAt) : WriteAt[i] \in Space
  BY <1>1, AllThere
<1>3. Meaning!Touches \subseteq Space
  BY <1>2, TouchesAre DEF Elements
<1> QED BY <1>1, <1>3 DEF Start, Meaning!Runs

-----------------------------------------------------------------------------
(***************************************************************************)
(* What is read and what is written.                                       *)
(***************************************************************************)
LEMMA SameMemory ==
  ASSUME Start
  PROVE  /\ memory \in [Space -> Byte] /\ committed[me].mem \in [Space -> Byte]
         /\ memory = mem[me]
         /\ Op \notin {"movrm", "movmm"} => memory = committed[me].mem
         /\ \A a \in Space :
              memory[a] # committed[me].mem[a] => \E k \in 1 .. WordLen : WriteAt[k] = a
<1>1. memory = mem[me] /\ memory \in [Space -> Byte] /\ committed[me].mem \in [Space -> Byte]
  BY MineFacts DEF Start, Mine, Shape
<1>2. Meaning!Op = Op
  BY OperandTypes
<1>3. Op \notin {"movrm", "movmm"} => memory = committed[me].mem
  BY <1>1, <1>2 DEF Start, Pending, PendingIn
<1>4. ASSUME NEW a \in Space, memory[a] # committed[me].mem[a]
      PROVE  \E k \in 1 .. WordLen : WriteAt[k] = a
  <2>1. Op \in {"movrm", "movmm"}
    BY <1>3, <1>4
  <2>2. WriteAt = WordAt(Meaning!Val(2))
    BY <2>1, Operands DEF WriteAt, RegReg, Pushes
  <2>3. \E k \in 1 .. WordLen : WordAt(Meaning!Val(2))[k] = a
    BY <1>1, <1>4 DEF Start, Pending, PendingIn
  <2> QED BY <2>2, <2>3
<1> QED BY <1>1, <1>3, <1>4

\* What an attempt has written is not read by the next one.
LEMMA ReadSame ==
  ASSUME Start, Completes, NEW i \in 1 .. Len(ReadAt)
  PROVE  memory[ReadAt[i]] = committed[me].mem[ReadAt[i]]
<1>1. Running /\ DOMAIN memory = Space
  BY MineFacts DEF Start
<1>2. ReadAt[i] \in Space
  BY <1>1, AllThere
<1>3. CASE Op \notin {"movrm", "movmm"}
  BY <1>3, SameMemory
<1>4. CASE Op = "movrm"
  <2>1. ReadAt = <<>>
    BY <1>4 DEF ReadAt, Pops
  <2> QED BY <2>1
<1>5. CASE Op = "movmm"
  <2>1. ReadAt = WordAt(RB) /\ WriteAt = WordAt(RA)
    BY <1>5 DEF ReadAt, WriteAt, Pops, Pushes
  <2>2. Meaning!Val(2) = RA /\ Meaning!Val(3) = RB /\ RB \in Int /\ Meaning!Op = Op
    BY <1>5, Operands, OperandTypes DEF RegReg
  <2>3. i \in 1 .. WordLen
    BY <2>1, <2>2, WordAtType
  <2>4. ASSUME memory[ReadAt[i]] # committed[me].mem[ReadAt[i]] PROVE FALSE
    <3>1. PICK k \in 1 .. WordLen : WriteAt[k] = ReadAt[i]
      BY <1>2, <2>4, SameMemory
    <3>2. memory # committed[me].mem /\ memory = mem[me]
      BY <2>4, SameMemory
    <3>3. \A k1, l \in 1 .. WordLen : WordAt(RB)[k1] # WordAt(RA)[l]
      BY <1>5, <2>2, <3>2 DEF Start, Pending, PendingIn
    <3> QED BY <2>1, <2>3, <3>1, <3>3
  <2> QED BY <2>4
<1> QED BY <1>3, <1>4, <1>5

LEMMA LoadIs ==
  ASSUME Start, Completes, Op \in ReadsWord, NEW a \in Int, ReadAt = WordAt(a)
  PROVE  /\ ReadWord \in Words
         /\ Meaning!Load(a) = AsInt32(ReadWord)
         /\ Op # "callm" => Loaded = ReadWord
<1>1. Running /\ memory \in [Space -> Byte]
  BY MineFacts DEF Start
<1>2. Len(ReadAt) = WordLen
  BY WordAtType
<1>3. ASSUME NEW k \in 1 .. WordLen
      PROVE  /\ memory[ReadAt[k]] \in Byte
             /\ memory[ReadAt[k]] = committed[me].mem[Meaning!WordAt(a)[k]]
  <2>1. ReadAt[k] \in Space /\ memory[ReadAt[k]] = committed[me].mem[ReadAt[k]]
    BY <1>1, <1>2, AllThere, ReadSame
  <2>2. Meaning!WordAt(a)[k] = ReadAt[k]
    BY SameMachine
  <2> QED BY <1>1, <2>1, <2>2
<1> DEFINE f == [k \in 1 .. WordLen |-> memory[ReadAt[k]]]
<1>4. f \in [1 .. WordLen -> Byte]
  BY <1>3
<1>5. f = [k \in 1 .. WordLen |-> committed[me].mem[Meaning!WordAt(a)[k]]]
  BY <1>3
<1>6. ReadWord = WordOf(f)
  BY DEF ReadWord
<1>7. Meaning!Load(a) = AsInt32(WordOf(f))
  BY <1>5, SameMachine DEF Meaning!Load, Meaning!Word
<1> HIDE DEF f
<1>8. WordOf(f) \in Words
  BY <1>4, WordOfBytes DEF Words
<1>9. Op # "callm" => Loaded = ReadWord
  BY DEF Loaded
<1> QED BY <1>6, <1>7, <1>8, <1>9

LEMMA StoredIs ==
  ASSUME Start, Completes, Op \in WritesWord, NEW a, WriteAt = WordAt(a),
         NEW v, AsUint32(v) = WriteWord
  PROVE  Written = Meaning!Stored(a, v)
<1>1. Running /\ memory \in [Space -> Byte] /\ committed[me].mem \in [Space -> Byte]
  BY MineFacts, SameMemory DEF Start
<1>2. Written = Overwritten(memory, WriteAt, WriteWord)
  BY <1>1, WrittenWhole
<1>3. Decodes
  BY DEF Start, Decoded
<1>4. Len(WriteAt) = WordLen /\ WordLen \in Nat
  BY <1>1, <1>3, WriteAtType, WordModFacts
<1>5. Meaning!Stored(a, v) =
        [x \in DOMAIN committed[me].mem |->
            IF Where(WriteAt, x) # 0 THEN BytesOf(WriteWord)[Where(WriteAt, x)]
            ELSE committed[me].mem[x]]
  BY SameMachine, SameWhere DEF Meaning!Stored
<1>6. ASSUME NEW x \in Space, Where(WriteAt, x) = 0
      PROVE  memory[x] = committed[me].mem[x]
  <2>1. \A k \in 1 .. WordLen : WriteAt[k] # x
    BY <1>4, <1>6, WhereFacts
  <2> QED BY <2>1, SameMemory
<1>7. DOMAIN memory = Space /\ DOMAIN committed[me].mem = Space
  BY <1>1
<1> QED BY <1>2, <1>5, <1>6, <1>7 DEF Overwritten

-----------------------------------------------------------------------------
(***************************************************************************)
(* What an instruction leaves alone.                                       *)
(***************************************************************************)
Jumps == {"jmp", "jmpi", "jmpa", "jlt", "jlti", "jlta", "jgt", "jgti", "jgta",
          "je", "jei", "jea"}

Prints == {"printr", "printm", "printcr", "printcm"}

SetsRegister == {"movi", "movr", "movmr", "popr", "incr", "addi", "addr",
                 "mapsharedmem"} \cup Immediates

LEMMA AfterIs == ASSUME Mine PROVE Meaning!After = ip
BY MineFacts, SameWord, SameMachine DEF Meaning!After, ip

LEMMA SpSame ==
  ASSUME Op \notin Pushes \cup Pops PROVE Sp = cpu.sp
BY DEF Sp

LEMMA NoPrint ==
  ASSUME NEW s \in Seq(Item) PROVE s \o <<>> = s
BY ConcatEmptySeq

LEMMA OnePrint ==
  ASSUME NEW s \in Seq(Item), NEW x \in Item
  PROVE  s \o <<x>> = Append(s, x)
<1> HIDE DEF Item
<1> QED OBVIOUS

\* The actions in terms of the process.
LEMMA ExecuteIs ==
  ASSUME Start, Execute
  PROVE  /\ Registers' = Executed
         /\ committed'[me].mem = Written
         /\ committed'[me].sp = Sp
         /\ out'[me] = out[me] \o Printed
         /\ source' = source /\ status' = status
<1>1. me \in Proc /\ active = me
  BY MineFacts DEF Start
<1>2. DOMAIN committed = Proc /\ DOMAIN out = Proc
  BY DEF Start, Mine, Shape
<1>3. Registers' = cpu'
  BY <1>1 DEF Execute, Registers
<1> QED BY <1>1, <1>2, <1>3 DEF Execute

LEMMA Steady ==
  ASSUME Start, Execute
  PROVE  /\ Op \notin SetsRegister => Registers'.regs = Registers.regs
         /\ Op \notin {"cmpi", "cmpr"} =>
              Registers'.zero = Registers.zero /\ Registers'.sign = Registers.sign
         /\ Op \notin Jumps \cup {"call", "callm", "ret"} => Registers'.ip = Meaning!After
         /\ Op \notin Pushes \cup Pops => committed'[me].sp = committed[me].sp
         /\ Op \notin WritesWord => committed'[me].mem = committed[me].mem
         /\ Op \notin Prints => out'[me] = out[me]
<1>1. /\ Registers' = Executed /\ Registers = cpu
      /\ committed'[me].mem = Written /\ committed'[me].sp = Sp
      /\ out'[me] = out[me] \o Printed
  BY ExecuteIs, OperandTypes
<1>2. Op \notin SetsRegister => RegsAfter = cpu.regs
  BY DEF RegsAfter, SetsRegister
<1>3. Op \notin Jumps \cup {"call", "callm", "ret"} => IpAfter = ip
  BY DEF IpAfter, Jumps
<1>4. Meaning!After = ip
  BY AfterIs DEF Start
<1>5. Op \notin Pushes \cup Pops => Sp = cpu.sp
  BY SpSame
<1>6. ASSUME Op \notin WritesWord PROVE Written = committed[me].mem
  <2>1. Written = memory
    BY <1>6, NothingWritten DEF Start, Decoded
  <2>2. Op \notin {"movrm", "movmm"}
    BY <1>6 DEF WritesWord
  <2> QED BY <2>1, <2>2, SameMemory
<1>7. ASSUME Op \notin Prints PROVE out'[me] = out[me]
  <2>1. Printed = <<>>
    BY <1>7 DEF Printed, Prints
  <2> QED BY <1>1, <2>1, NoPrint DEF Start, Mine, Shape
<1>8. committed[me].sp = cpu.sp
  BY DEF Start
<1> QED BY <1>1, <1>2, <1>3, <1>4, <1>5, <1>6, <1>7, <1>8 DEF Executed

-----------------------------------------------------------------------------
(***************************************************************************)
(* An instruction that goes through is the step of ISA.                    *)
(***************************************************************************)
\* The registers an instruction can name.
File == [r \in Reg |-> Registers.regs[r]]

LEMMA SetRegIs ==
  ASSUME Start, Execute, opA \in Reg, Meaning!Dest = opA,
         NEW v, RegsAfter = [cpu.regs EXCEPT ![opA] = v]
  PROVE  File' = [File EXCEPT ![Meaning!Dest] = v]
<1>1. Registers' = Executed /\ Registers = cpu /\ cpu.regs \in [Reg \cup {15} -> Int]
  BY ExecuteIs, OperandTypes
<1>2. Registers'.regs = [Registers.regs EXCEPT ![opA] = v]
  BY <1>1 DEF Executed
<1>3. [r \in Reg |-> Registers'.regs[r]] =
        [[r \in Reg |-> Registers.regs[r]] EXCEPT ![opA] = v]
  BY <1>1, <1>2
<1> QED BY <1>3 DEF File

LEMMA MoveStep ==
  ASSUME Start, Execute, Op \in {"movi", "movr", "movmr", "addi", "addr", "incr"}
  PROVE  Meaning!Move
<1>1. Meaning!Op = Op /\ Completes /\ cpu.regs \in [Reg \cup {15} -> Int]
  BY OperandTypes DEF Execute
<1>2. /\ Registers'.zero = Registers.zero /\ Registers'.sign = Registers.sign
      /\ Registers'.ip = Meaning!After
      /\ committed'[me].sp = committed[me].sp
      /\ committed'[me].mem = committed[me].mem
      /\ out'[me] = out[me]
  BY Steady DEF Jumps, Pushes, Pops, WritesWord, Prints
<1>3. /\ opA \in Reg /\ Meaning!Dest = opA /\ Meaning!Val(2) = RA
      /\ Op \in RegImmediate => Meaning!Val(3) = AsInt32(opB)
      /\ Op \in RegReg => Meaning!Val(3) = RB
  BY Operands DEF OneRegister, RegImmediate, RegReg
<1>4. \A v : RegsAfter = [cpu.regs EXCEPT ![opA] = v] =>
               File' = [File EXCEPT ![Meaning!Dest] = v]
  BY <1>3, SetRegIs
<1> DEFINE Set(v) == File' = [File EXCEPT ![Meaning!Dest] = v]
<1>5. \/ Op \in {"movi", "movr"} /\ Set(Meaning!Val(3))
      \/ Op \in {"addi", "addr"} /\ Set(Meaning!Val(2) + Meaning!Val(3))
      \/ Op = "incr"             /\ Set(Meaning!Val(2) + 1)
      \/ Op = "movmr"            /\ Set(Meaning!Load(Meaning!Val(3)))
  <2>1. CASE Op = "movi"
    <3>1. RegsAfter = [cpu.regs EXCEPT ![opA] = AsInt32(opB)]
      BY <2>1 DEF RegsAfter, Immediates
    <3> QED BY <1>3, <1>4, <2>1, <3>1 DEF RegImmediate
  <2>2. CASE Op = "movr"
    <3>1. RegsAfter = [cpu.regs EXCEPT ![opA] = RB]
      BY <2>2 DEF RegsAfter, Immediates
    <3> QED BY <1>3, <1>4, <2>2, <3>1 DEF RegReg
  <2>3. CASE Op = "addi"
    <3>1. RegsAfter = [cpu.regs EXCEPT ![opA] = RA + AsInt32(opB)]
      BY <2>3 DEF RegsAfter, Immediates
    <3> QED BY <1>3, <1>4, <2>3, <3>1 DEF RegImmediate
  <2>4. CASE Op = "addr"
    <3>1. RegsAfter = [cpu.regs EXCEPT ![opA] = RA + RB]
      BY <2>4 DEF RegsAfter, Immediates
    <3> QED BY <1>3, <1>4, <2>4, <3>1 DEF RegReg
  <2>5. CASE Op = "incr"
    <3>1. RegsAfter = [cpu.regs EXCEPT ![opA] = RA + 1]
      BY <2>5 DEF RegsAfter, Immediates
    <3> QED BY <1>3, <1>4, <2>5, <3>1
  <2>6. CASE Op = "movmr"
    <3>1. RegsAfter = [cpu.regs EXCEPT ![opA] = AsInt32(Loaded)]
      BY <2>6 DEF RegsAfter, Immediates
    <3>2. Meaning!Val(3) = RB /\ RB \in Int
      BY <1>3, <2>6, OperandTypes DEF RegReg
    <3>3. ReadAt = WordAt(RB) /\ Op \in ReadsWord /\ Op # "callm"
      BY <2>6 DEF ReadAt, ReadsWord, Pops
    <3>4. Meaning!Load(RB) = AsInt32(Loaded)
      BY <1>1, <3>2, <3>3, LoadIs
    <3> QED BY <1>4, <2>6, <3>1, <3>2, <3>4
  <2> QED BY <2>1, <2>2, <2>3, <2>4, <2>5, <2>6
<1> QED BY <1>1, <1>2, <1>5 DEF Meaning!Move, Meaning!SetReg, File

LEMMA StoreStep ==
  ASSUME Start, Execute, Op \in {"movrm", "movmm"}
  PROVE  Meaning!Store
<1>1. Meaning!Op = Op /\ Completes /\ RA \in Int /\ RB \in Int
  BY OperandTypes DEF Execute, RegReg
<1>2. /\ Registers'.regs = Registers.regs
      /\ Registers'.zero = Registers.zero /\ Registers'.sign = Registers.sign
      /\ Registers'.ip = Meaning!After
      /\ committed'[me].sp = committed[me].sp
      /\ out'[me] = out[me]
  BY Steady DEF SetsRegister, Immediates, Jumps, Pushes, Pops, Prints
<1>3. Meaning!Val(2) = RA /\ Meaning!Val(3) = RB
  BY Operands DEF RegReg
<1>4. WriteAt = WordAt(RA) /\ Op \in WritesWord
  BY DEF WriteAt, WritesWord, Pushes
<1>5. committed'[me].mem = Written
  BY ExecuteIs
<1>6. \/ Op = "movrm" /\ Written = Meaning!Stored(Meaning!Val(2), Meaning!Val(3))
      \/ Op = "movmm" /\ Written = Meaning!Stored(Meaning!Val(2), Meaning!Load(Meaning!Val(3)))
  <2>1. CASE Op = "movrm"
    <3>1. AsUint32(RB) = WriteWord
      BY <2>1 DEF WriteWord
    <3> QED BY <1>1, <1>3, <1>4, <2>1, <3>1, StoredIs
  <2>2. CASE Op = "movmm"
    <3>1. ReadAt = WordAt(RB) /\ Op \in ReadsWord
      BY <2>2 DEF ReadAt, ReadsWord, Pops
    <3>2. ReadWord \in Words /\ Meaning!Load(RB) = AsInt32(ReadWord)
      BY <1>1, <3>1, LoadIs
    <3>3. WriteWord = ReadWord
      BY <2>2 DEF WriteWord
    <3>4. AsUint32(Meaning!Load(RB)) = WriteWord
      BY <3>2, <3>3, CastWord
    <3> QED BY <1>1, <1>3, <1>4, <2>2, <3>4, StoredIs
  <2> QED BY <2>1, <2>2
<1> QED BY <1>1, <1>2, <1>5, <1>6 DEF Meaning!Store

LEMMA CompareStep ==
  ASSUME Start, Execute, Op \in {"cmpi", "cmpr"}
  PROVE  Meaning!Compare
<1>1. Meaning!Op = Op /\ Registers' = Executed
  BY OperandTypes, ExecuteIs
<1>2. /\ Registers'.regs = Registers.regs
      /\ Registers'.ip = Meaning!After
      /\ committed'[me].sp = committed[me].sp
      /\ committed'[me].mem = committed[me].mem
      /\ out'[me] = out[me]
  BY Steady DEF SetsRegister, Immediates, Jumps, Pushes, Pops, WritesWord, Prints
<1>3. Meaning!Val(2) = RA /\ Meaning!Val(3) = Compared
  BY Operands DEF RegImmediate, RegReg, Compared
<1>4. /\ Registers'.zero = (Meaning!Val(2) = Meaning!Val(3))
      /\ Registers'.sign = (Meaning!Val(2) < Meaning!Val(3))
  <2>1. Executed.zero = (RA = Compared) /\ Executed.sign = (RA < Compared)
    BY DEF Executed
  <2> QED BY <1>1, <1>3, <2>1
<1> QED BY <1>1, <1>2, <1>4 DEF Meaning!Compare

LEMMA PrintOutStep ==
  ASSUME Start, Execute, Op \in Prints
  PROVE  Meaning!PrintOut
<1>1. Meaning!Op = Op /\ Completes /\ RA \in Int /\ Running
  BY OperandTypes, MineFacts DEF Execute, OneRegister, Prints, Start
<1>2. /\ Registers'.regs = Registers.regs
      /\ Registers'.zero = Registers.zero /\ Registers'.sign = Registers.sign
      /\ Registers'.ip = Meaning!After
      /\ committed'[me].sp = committed[me].sp
      /\ committed'[me].mem = committed[me].mem
  BY Steady DEF SetsRegister, Immediates, Jumps, Pushes, Pops, WritesWord, Prints
<1>3. Meaning!Val(2) = RA
  BY Operands DEF OneRegister, Prints
<1>4. out'[me] = out[me] \o Printed /\ out[me] \in Seq(Item)
  BY ExecuteIs DEF Start, Mine, Shape
<1>5. ASSUME NEW x \in Int, Printed = <<x>> PROVE out'[me] = Append(out[me], x)
  <2>1. x \in Item
    BY DEF Item
  <2> QED BY <1>4, <1>5, <2>1, OnePrint
<1>6. Byte \subseteq Int
  BY WordModFacts DEF Byte
<1>7. \/ Op = "printr"  /\ out'[me] = Append(out[me], Meaning!Val(2))
      \/ Op = "printm"  /\ out'[me] = Append(out[me], Meaning!Load(Meaning!Val(2)))
      \/ Op = "printcr" /\ out'[me] = Append(out[me], Meaning!Val(2) % ByteMod)
      \/ Op = "printcm" /\ out'[me] = Append(out[me],
                                  committed[me].mem[Meaning!AsUint32(Meaning!Val(2))])
  <2>1. CASE Op = "printr"
    <3>1. Printed = <<RA>>
      BY <2>1 DEF Printed
    <3> QED BY <1>1, <1>3, <1>5, <2>1, <3>1
  <2>2. CASE Op = "printm"
    <3>1. Printed = <<AsInt32(Loaded)>>
      BY <2>2 DEF Printed
    <3>2. ReadAt = WordAt(RA) /\ Op \in ReadsWord /\ Op # "callm"
      BY <2>2 DEF ReadAt, ReadsWord, Pops
    <3>3. ReadWord \in Words /\ Meaning!Load(RA) = AsInt32(Loaded) /\ Loaded = ReadWord
      BY <1>1, <3>2, LoadIs
    <3>4. AsInt32(Loaded) \in Int
      BY <3>3, WordsAreInts, CastFacts
    <3> QED BY <1>3, <1>5, <2>2, <3>1, <3>3, <3>4
  <2>3. CASE Op = "printcr"
    <3>1. Printed = <<RA % ByteMod>>
      BY <2>3 DEF Printed
    <3>2. RA % ByteMod \in Int
      BY <1>1, WordModFacts, DivMod
    <3> QED BY <1>3, <1>5, <2>3, <3>1, <3>2
  <2>4. CASE Op = "printcm"
    <3>1. Printed = <<memory[AsUint32(RA)]>>
      BY <2>4 DEF Printed
    <3>2. ReadAt = <<AsUint32(RA)>>
      BY <2>4 DEF ReadAt, Pops
    <3>3. 1 \in 1 .. Len(ReadAt) /\ ReadAt[1] = AsUint32(RA)
      BY <3>2
    <3>4. memory[AsUint32(RA)] = committed[me].mem[AsUint32(RA)]
      BY <1>1, <3>3, ReadSame
    <3>5. memory[AsUint32(RA)] \in Int
      <4>1. AsUint32(RA) \in DOMAIN memory
        BY <1>1, <3>3, AllThere
      <4> QED BY <1>1, <1>6, <4>1, RunningFacts
    <3>6. Meaning!AsUint32(RA) = AsUint32(RA)
      BY SameMachine
    <3> QED BY <1>3, <1>5, <2>4, <3>1, <3>4, <3>5, <3>6
  <2> QED BY <2>1, <2>2, <2>3, <2>4 DEF Prints
<1> QED BY <1>1, <1>2, <1>7 DEF Meaning!PrintOut

LEMMA TakenIs ==
  ASSUME Start, Op \in Jumps
  PROVE  Condition <=> Meaning!Taken
<1>1. Meaning!Op = Op /\ Registers = cpu
  BY OperandTypes
<1>2. CASE Op \in {"jmp", "jmpi", "jmpa"}
  BY <1>1, <1>2 DEF Condition, Meaning!Taken
<1>3. CASE Op \in {"jlt", "jlti", "jlta"}
  BY <1>1, <1>3 DEF Condition, Meaning!Taken
<1>4. CASE Op \in {"jgt", "jgti", "jgta"}
  BY <1>1, <1>4 DEF Condition, Meaning!Taken
<1>5. CASE Op \in {"je", "jei", "jea"}
  BY <1>1, <1>5 DEF Condition, Meaning!Taken
<1> QED BY <1>2, <1>3, <1>4, <1>5 DEF Jumps

LEMMA JumpedIs ==
  ASSUME Start, NEW n
  PROVE  Meaning!Jumped(n) = AsUint32(ip + n)
BY AfterIs, SameMachine DEF Meaning!Jumped, Start

LEMMA IpIsWord == ASSUME Start PROVE ip \in Words /\ ip \in Int
BY MineFacts, RunningFacts, WordsAreInts DEF Start

LEMMA JumpStep ==
  ASSUME Start, Execute, Op \in Jumps
  PROVE  Meaning!Jump
<1>1. Meaning!Op = Op /\ Registers' = Executed /\ opA \in Words
  BY OperandTypes, ExecuteIs
<1>2. /\ Registers'.regs = Registers.regs
      /\ Registers'.zero = Registers.zero /\ Registers'.sign = Registers.sign
      /\ committed'[me].sp = committed[me].sp
      /\ committed'[me].mem = committed[me].mem
      /\ out'[me] = out[me]
  BY Steady DEF SetsRegister, Immediates, Jumps, Pushes, Pops, WritesWord, Prints
<1>3. Registers'.ip = IpAfter /\ Meaning!After = ip /\ (Condition <=> Meaning!Taken)
  BY <1>1, AfterIs, TakenIs DEF Executed, Start
<1>4. CASE ~Condition
  <2>1. Registers'.ip = Meaning!After
    BY <1>3, <1>4 DEF IpAfter
  <2> QED BY <1>1, <1>2, <1>3, <1>4, <2>1 DEF Meaning!Jump, Jumps
<1>5. CASE Condition
  <2>1. CASE Op \in {"jmp", "jlt", "jgt", "je"}
    <3>1. Registers'.ip = AsUint32(ip + RA)
      BY <1>3, <1>5, <2>1 DEF IpAfter
    <3>2. Meaning!Val(2) = RA
      BY <2>1, Operands DEF OneRegister
    <3>3. Registers'.ip = Meaning!Jumped(Meaning!Val(2))
      BY <3>1, <3>2, JumpedIs
    <3> QED BY <1>1, <1>2, <1>3, <1>5, <2>1, <3>3 DEF Meaning!Jump
  <2>2. CASE Op \in {"jmpi", "jlti", "jgti", "jei"}
    <3>1. Registers'.ip = AsUint32(ip + AsInt32(opA))
      BY <1>3, <1>5, <2>2 DEF IpAfter
    <3>2. Meaning!Val(2) = AsInt32(opA)
      BY <2>2, Operands DEF OneImmediate
    <3>3. Registers'.ip = Meaning!Jumped(Meaning!Val(2))
      BY <3>1, <3>2, JumpedIs
    <3> QED BY <1>1, <1>2, <1>3, <1>5, <2>2, <3>3 DEF Meaning!Jump
  <2>3. CASE Op \in {"jmpa", "jlta", "jgta", "jea"}
    <3>1. Registers'.ip = opA
      BY <1>3, <1>5, <2>3 DEF IpAfter
    <3>2. Meaning!Val(2) = AsInt32(opA)
      BY <2>3, Operands DEF OneImmediate
    <3>3. Registers'.ip = Meaning!AsUint32(Meaning!Val(2))
      BY <1>1, <3>1, <3>2, CastWord, SameMachine
    <3> QED BY <1>1, <1>2, <1>3, <1>5, <2>3, <3>3 DEF Meaning!Jump
  <2> QED BY <2>1, <2>2, <2>3 DEF Jumps
<1> QED BY <1>4, <1>5

\* What a push writes, and where it leaves sp.
LEMMA PushIs ==
  ASSUME Start, Completes, Op \in Pushes, NEW v, AsUint32(v) = WriteWord
  PROVE  /\ Sp = Meaning!AsUint32(committed[me].sp - WordLen)
         /\ Written = Meaning!Stored(committed[me].sp - WordLen, v)
<1>1. Running /\ committed[me].sp = cpu.sp
  BY MineFacts DEF Start
<1>2. Decodes /\ ~(Done < InstrLen)
  BY <1>1, AllThere, WordModFacts
<1>3. Sp = AsUint32(cpu.sp - WordLen)
  BY <1>2 DEF Sp
<1>4. WriteAt = WordAt(cpu.sp - WordLen) /\ Op \in WritesWord
  BY DEF WriteAt, WritesWord, Pushes
<1>5. Written = Meaning!Stored(cpu.sp - WordLen, v)
  BY <1>4, StoredIs
<1> QED BY <1>1, <1>3, <1>5, SameMachine

LEMMA PushStep ==
  ASSUME Start, Execute, Op \in {"pushi", "pushr"}
  PROVE  Meaning!Push
<1>1. Meaning!Op = Op /\ Completes /\ opA \in Words
  BY OperandTypes DEF Execute
<1>2. /\ Registers'.regs = Registers.regs
      /\ Registers'.zero = Registers.zero /\ Registers'.sign = Registers.sign
      /\ Registers'.ip = Meaning!After
      /\ out'[me] = out[me]
  BY Steady DEF SetsRegister, Immediates, Jumps, Prints
<1>3. committed'[me].mem = Written /\ committed'[me].sp = Sp
  BY ExecuteIs
<1>4. AsUint32(Meaning!Val(2)) = WriteWord
  <2>1. CASE Op = "pushi"
    <3>1. WriteWord = opA /\ Meaning!Val(2) = AsInt32(opA)
      BY <2>1, Operands DEF WriteWord, OneImmediate
    <3> QED BY <1>1, <3>1, CastWord
  <2>2. CASE Op = "pushr"
    <3>1. WriteWord = AsUint32(RA) /\ Meaning!Val(2) = RA
      BY <2>2, Operands DEF WriteWord, OneRegister
    <3> QED BY <3>1
  <2> QED BY <2>1, <2>2
<1>5. /\ Sp = Meaning!AsUint32(committed[me].sp - WordLen)
      /\ Written = Meaning!Stored(committed[me].sp - WordLen, Meaning!Val(2))
  BY <1>1, <1>4, PushIs DEF Pushes
<1> QED BY <1>1, <1>2, <1>3, <1>5 DEF Meaning!Push

LEMMA CallStep ==
  ASSUME Start, Execute, Op \in {"call", "callm"}
  PROVE  Meaning!Call
<1>1. /\ Meaning!Op = Op /\ Completes /\ RA \in Int
      /\ Meaning!Val(2) = RA /\ Running /\ memory \in [Space -> Byte]
  BY OperandTypes, Operands, MineFacts DEF Execute, OneRegister, Start
<1>2. /\ Registers'.regs = Registers.regs
      /\ Registers'.zero = Registers.zero /\ Registers'.sign = Registers.sign
      /\ out'[me] = out[me]
  BY Steady DEF SetsRegister, Immediates, Prints
<1>3. committed'[me].mem = Written /\ committed'[me].sp = Sp /\ Registers'.ip = IpAfter
  BY ExecuteIs DEF Executed
<1>4. Meaning!After = ip /\ ip \in Words /\ ip \in Int
  BY AfterIs, IpIsWord DEF Start
<1>5. AsUint32(Meaning!After) = WriteWord
  <2>1. WriteWord = ip
    BY DEF WriteWord
  <2> QED BY <1>4, <2>1, CastWord
<1>6. /\ Sp = Meaning!AsUint32(committed[me].sp - WordLen)
      /\ Written = Meaning!Stored(committed[me].sp - WordLen, Meaning!After)
  BY <1>1, <1>5, PushIs DEF Pushes
<1>7. CASE Op = "call"
  <2>1. Registers'.ip = AsUint32(ip + RA)
    BY <1>3, <1>7 DEF IpAfter, Condition
  <2>2. Registers'.ip = Meaning!Jumped(Meaning!Val(2))
    BY <1>1, <2>1, JumpedIs
  <2> QED BY <1>1, <1>2, <1>3, <1>6, <1>7, <2>2 DEF Meaning!Call
<1>8. CASE Op = "callm"
  <2> DEFINE w == WordOf([k \in 1 .. WordLen |-> Written[WordAt(RA)[k]]])
  <2>1. ReadAt = WordAt(RA) /\ Op \in ReadsWord
    BY <1>8 DEF ReadAt, ReadsWord, Pops
  <2>2. Loaded = w
    BY <1>8, <2>1 DEF Loaded
  <2>3. w \in Words /\ w \in Int
    BY <1>1, <2>1, <2>2, LoadedType, WordsAreInts
  <2>4. Meaning!Word(committed'[me].mem, Meaning!Val(2)) = w
    BY <1>1, <1>3, SameMachine DEF Meaning!Word
  <2> HIDE DEF w
  <2>5. Registers'.ip = AsUint32(ip + AsInt32(w))
    BY <1>3, <1>8, <2>2 DEF IpAfter, Condition
  <2>6. Registers'.ip = AsUint32(ip + w)
    BY <1>4, <2>3, <2>5, CastInSum
  <2>7. Meaning!Jumped(w) = AsUint32(ip + w)
    BY JumpedIs
  <2>8. Registers'.ip = Meaning!AsUint32(Meaning!After +
                                         Meaning!Word(committed'[me].mem, Meaning!Val(2)))
    BY <1>4, <2>4, <2>6, SameMachine
  <2> QED BY <1>1, <1>2, <1>3, <1>6, <1>8, <2>8 DEF Meaning!Call, Meaning!Jumped
<1> QED BY <1>7, <1>8

LEMMA PopStep ==
  ASSUME Start, Execute, Op \in Pops
  PROVE  Meaning!Pop
<1>1. /\ Meaning!Op = Op /\ Completes /\ Running
      /\ committed[me].sp = cpu.sp /\ cpu.sp \in Int /\ Op \in {"popr", "popm", "ret"}
  BY OperandTypes, MineFacts DEF Execute, Start, Pops
<1>2. /\ Registers'.zero = Registers.zero /\ Registers'.sign = Registers.sign
      /\ out'[me] = out[me]
      /\ Op # "popr" => Registers'.regs = Registers.regs
      /\ Op # "ret" => Registers'.ip = Meaning!After
      /\ Op # "popm" => committed'[me].mem = committed[me].mem
  BY Steady DEF SetsRegister, Immediates, Jumps, WritesWord, Pushes, Prints, Pops
<1>3. committed'[me].mem = Written /\ committed'[me].sp = Sp /\ Registers'.ip = IpAfter
  BY ExecuteIs DEF Executed
<1>4. ReadAt = WordAt(cpu.sp) /\ Op \in ReadsWord /\ Op # "callm"
  BY <1>1 DEF ReadAt, ReadsWord, Pops
<1>5. ReadWord \in Words /\ Meaning!Load(cpu.sp) = AsInt32(ReadWord) /\ Loaded = ReadWord
  BY <1>1, <1>4, LoadIs
<1>6. Sp = Meaning!AsUint32(committed[me].sp + WordLen)
  <2>1. /\ Decodes /\ Done = InstrLen + Len(ReadAt) + Len(WriteAt)
        /\ Len(ReadAt) \in Nat /\ Len(WriteAt) \in Nat /\ InstrLen \in Nat
    BY <1>1, AllThere, WordModFacts
  <2>2. Len(ReadAt) = WordLen
    BY <1>1, <1>4, WordAtType
  <2>3. ~(Done < InstrLen) /\ Done >= InstrLen + WordLen
    BY <2>1, <2>2
  <2>4. Sp = AsUint32(cpu.sp + WordLen)
    BY <2>1, <2>3 DEF Sp, Pushes, Pops
  <2> QED BY <1>1, <2>4, SameMachine
<1>7. File' = IF Op = "popr" THEN [File EXCEPT ![Meaning!Dest] = Meaning!Load(cpu.sp)] ELSE File
  <2>1. CASE Op = "popr"
    <3>1. RegsAfter = [cpu.regs EXCEPT ![opA] = AsInt32(Loaded)]
      BY <2>1 DEF RegsAfter, Immediates
    <3>2. opA \in Reg /\ Meaning!Dest = opA
      BY <2>1, Operands DEF OneRegister
    <3> QED BY <1>5, <2>1, <3>1, <3>2, SetRegIs
  <2>2. CASE Op # "popr"
    BY <1>2, <2>2 DEF File
  <2> QED BY <2>1, <2>2
<1>8. committed'[me].mem = IF Op = "popm" THEN Meaning!Stored(Meaning!Val(2), Meaning!Load(cpu.sp))
                           ELSE committed[me].mem
  <2>1. CASE Op = "popm"
    <3>1. WriteAt = WordAt(RA) /\ Op \in WritesWord /\ Meaning!Val(2) = RA
      BY <2>1, Operands DEF WriteAt, WritesWord, Pushes, OneRegister
    <3>2. WriteWord = ReadWord
      BY <2>1 DEF WriteWord
    <3>3. AsUint32(Meaning!Load(cpu.sp)) = WriteWord
      BY <1>5, <3>2, CastWord
    <3> QED BY <1>1, <1>3, <2>1, <3>1, <3>3, StoredIs
  <2>2. CASE Op # "popm"
    BY <1>2, <2>2
  <2> QED BY <2>1, <2>2
<1>9. Registers'.ip = IF Op = "ret" THEN Meaning!AsUint32(Meaning!Load(cpu.sp)) ELSE Meaning!After
  <2>1. CASE Op = "ret"
    <3>1. Registers'.ip = Loaded
      BY <1>3, <2>1 DEF IpAfter, Condition
    <3> QED BY <1>5, <2>1, <3>1, CastWord, SameMachine
  <2>2. CASE Op # "ret"
    BY <1>2, <2>2
  <2> QED BY <2>1, <2>2
<1> QED BY <1>1, <1>2, <1>3, <1>6, <1>7, <1>8, <1>9 DEF Meaning!Pop, File

\* The rest of what returns no trap.
LEMMA ExecuteAskStep ==
  ASSUME Start, Execute, Op \in {"setpriority", "setpriorityi"}
  PROVE  Meaning!Ask
<1>1. Meaning!Op = Op
  BY OperandTypes
<1>2. /\ Registers'.regs = Registers.regs
      /\ Registers'.zero = Registers.zero /\ Registers'.sign = Registers.sign
      /\ Registers'.ip = Meaning!After
      /\ committed'[me].sp = committed[me].sp
      /\ committed'[me].mem = committed[me].mem
      /\ out'[me] = out[me]
  BY Steady DEF SetsRegister, Immediates, Jumps, Pushes, Pops, WritesWord, Prints
<1> QED BY <1>1, <1>2 DEF Meaning!Ask

LEMMA OpIsMnemonic ==
  ASSUME Decodes
  PROVE  Op \in {"incr", "addi", "addr", "movi", "movr", "movmr", "movrm", "movmm",
                 "cmpi", "cmpr", "pushr", "pushi", "call", "callm",
                 "setpriority", "setpriorityi"}
               \cup Prints \cup Jumps \cup Pops \cup DOMAIN TrapOf
<1>1. Fetched(0) \in 1 .. 50
  BY DEF Decodes, Mnemonics
<1>2. \A k \in 1 .. 50 : Mnemonics[k] \in
         {"incr", "addi", "addr", "movi", "movr", "movmr", "movrm", "movmm",
          "cmpi", "cmpr", "pushr", "pushi", "call", "callm",
          "setpriority", "setpriorityi"}
           \cup Prints \cup Jumps \cup Pops \cup DOMAIN TrapOf
  BY DEF Mnemonics, Prints, Jumps, Pops, TrapOf
<1> QED BY <1>1, <1>2 DEF Op

LEMMA ExecuteStep == ASSUME Start, Execute PROVE Meaning!Step
<1>1. Meaning!Runs
  BY RunsWhenComplete DEF Execute
<1>2. source' = source /\ status' = status
  BY ExecuteIs
<1>3. \/ Meaning!Move \/ Meaning!Store \/ Meaning!Compare \/ Meaning!PrintOut \/ Meaning!Jump
      \/ Meaning!Push \/ Meaning!Call \/ Meaning!Pop \/ Meaning!Ask
  <2>1. Op \notin DOMAIN TrapOf /\ Decodes
    BY OperandTypes DEF Execute
  <2>2. CASE Op \in {"movi", "movr", "movmr", "addi", "addr", "incr"}
    BY <2>2, MoveStep
  <2>3. CASE Op \in {"movrm", "movmm"}
    BY <2>3, StoreStep
  <2>4. CASE Op \in {"cmpi", "cmpr"}
    BY <2>4, CompareStep
  <2>5. CASE Op \in Prints
    BY <2>5, PrintOutStep
  <2>6. CASE Op \in Jumps
    BY <2>6, JumpStep
  <2>7. CASE Op \in {"pushi", "pushr"}
    BY <2>7, PushStep
  <2>8. CASE Op \in {"call", "callm"}
    BY <2>8, CallStep
  <2>9. CASE Op \in Pops
    BY <2>9, PopStep
  <2>10. CASE Op \in {"setpriority", "setpriorityi"}
    BY <2>10, ExecuteAskStep
  <2> QED BY <2>1, <2>2, <2>3, <2>4, <2>5, <2>6, <2>7, <2>8, <2>9, <2>10, OpIsMnemonic
<1> QED BY <1>1, <1>2, <1>3 DEF Meaning!Step

-----------------------------------------------------------------------------
(***************************************************************************)
(* A trap is the step of ISA that asks the OS.                             *)
(***************************************************************************)
\* The action in terms of the process.
LEMMA TrapIs ==
  ASSUME Start, TrapToOS
  PROVE  /\ Registers' \in Answers(TrapOf[Op], Executed)
         /\ committed' = committed /\ mem' = mem /\ source' = source
         /\ out'[me] = out[me] \o Request(TrapOf[Op], Executed)
         /\ status'[me] # "dead"
         /\ active' # me
<1>1. me \in Proc /\ active = me
  BY MineFacts DEF Start
<1>2. /\ DOMAIN out = Proc /\ DOMAIN pcb = Proc /\ DOMAIN status = Proc
      /\ status[me] # "dead"
  BY DEF Start, Mine, Shape, TypeOK
<1>3. PICK c \in Answers(TrapOf[Op], Executed) :
         pcb' = [pcb EXCEPT ![active] = c] /\ active' = NoProc
  BY DEF TrapToOS, SwitchOut
<1>4. active' # me
  BY <1>1, <1>3, CPUAssumption
<1>5. Registers' = c
  BY <1>1, <1>2, <1>3, <1>4 DEF Registers
<1>6. out'[me] = out[me] \o Request(TrapOf[Op], Executed)
  BY <1>1, <1>2 DEF TrapToOS
<1>7. status'[me] # "dead"
  BY <1>1, <1>2 DEF TrapToOS
<1> QED BY <1>4, <1>5, <1>6, <1>7 DEF TrapToOS

\* Only the registers that an answer comes in change.
LEMMA TrapSteady ==
  ASSUME Start, TrapToOS
  PROVE  /\ Op \in DOMAIN TrapOf \ {"exit"}
         /\ Registers'.ip = Meaning!After
         /\ Registers'.sp = Registers.sp
         /\ Registers'.zero = Registers.zero /\ Registers'.sign = Registers.sign
         /\ Executed.regs = RegsAfter
         /\ mem[me] = committed[me].mem
<1>1. Op \in DOMAIN TrapOf \ {"exit"}
  BY DEF TrapToOS
<1>2. /\ Op \notin Jumps \cup {"call", "callm", "ret", "cmpi", "cmpr"}
      /\ Op \notin Pushes \cup Pops \cup {"movrm", "movmm"}
  BY <1>1 DEF TrapOf, Jumps, Pushes, Pops
<1>3. IpAfter = ip /\ Meaning!After = ip
  BY <1>2, AfterIs DEF IpAfter, Jumps, Start
<1>4. Sp = cpu.sp
  BY <1>2, SpSame
<1>5. Executed.ip = ip /\ Executed.sp = cpu.sp
      /\ Executed.zero = cpu.zero /\ Executed.sign = cpu.sign
      /\ Executed.regs = RegsAfter
  BY <1>2, <1>3, <1>4 DEF Executed
<1> DEFINE e == Executed
           t == TrapOf[Op]
<1> HIDE DEF e, t
<1>6. ASSUME NEW c \in Answers(t, e)
      PROVE  c.ip = e.ip /\ c.sp = e.sp /\ c.zero = e.zero /\ c.sign = e.sign
  <2>1. \/ c = e
        \/ \E k : \E r \in Returns : c = [e EXCEPT !.regs[k] = r]
    BY <1>6 DEF Answers
  <2>2. e.ip = e.ip /\ DOMAIN e = {"regs", "ip", "sp", "zero", "sign", "trapA", "trapB"}
    BY DEF e, Executed
  <2> QED BY <2>1, <2>2
<1>7. Registers' \in Answers(t, e) /\ Registers = cpu
  BY TrapIs, OperandTypes DEF t, e
<1>8. mem[me] = committed[me].mem
  BY <1>2, SameMemory
<1> QED BY <1>1, <1>3, <1>5, <1>6, <1>7, <1>8 DEF e

\* The traps whose handlers answer in no register.
LEMMA PlainTrapStep ==
  ASSUME Start, TrapToOS, Op \notin {"alloc", "mapsharedmem"} \cup Immediates
  PROVE  File' = File
<1>1. Registers' \in Answers(TrapOf[Op], Executed) /\ Executed.regs = RegsAfter
      /\ Registers = cpu
  BY TrapIs, TrapSteady, OperandTypes
<1>2. TrapOf[Op] \notin {"alloc", "mapsharedmem"}
  BY TrapSteady DEF TrapOf
<1>3. Registers' = Executed
  BY <1>1, <1>2 DEF Answers
<1>4. RegsAfter = cpu.regs
  <2>1. Op \in DOMAIN TrapOf
    BY TrapSteady
  <2>2. Op \notin SetsRegister
    BY <2>1 DEF TrapOf, SetsRegister
  <2> QED BY <2>2 DEF RegsAfter, SetsRegister
<1>5. Registers'.regs = Registers.regs
  BY <1>1, <1>3, <1>4
<1> QED BY <1>5 DEF File

\* What the OS is asked for, by the handler that looks at r1.
LEMMA RequestIs ==
  ASSUME Start, TrapToOS
  PROVE  /\ Op \in {"acquirelock", "releaselock", "signalevent", "waitevent", "mapsharedmem"} =>
              out'[me] = Append(out[me], <<Op, AsInt32(Meaning!Val(2))>>)
         /\ Op \in Immediates =>
              out'[me] = Append(out[me], <<Meaning!Immediate[Op], AsInt32(Meaning!Val(2))>>)
         /\ Op = "sleep" => out'[me] = Append(out[me], <<Op, Meaning!Val(2)>>)
         /\ Op = "alloc" => out'[me] = Append(out[me], <<Op, Meaning!Val(2)>>)
         /\ Op = "freememory" => out'[me] = Append(out[me], <<Op, AsUint32(Meaning!Val(2))>>)
         /\ Op \in {"input", "inputc"} => out'[me] = out[me]
<1>1. /\ out'[me] = out[me] \o Request(TrapOf[Op], Executed)
      /\ Executed.regs = RegsAfter /\ out[me] \in Seq(Item)
      /\ cpu.regs \in [Reg \cup {15} -> Int] /\ opA \in Words
  BY TrapIs, TrapSteady, OperandTypes DEF Start, Mine, Shape
<1>2. ASSUME NEW t \in Asked, NEW n \in Int
      PROVE  out[me] \o <<<<t, n>>>> = Append(out[me], <<t, n>>)
  <2>1. <<t, n>> \in Item
    BY DEF Item
  <2> QED BY <1>1, <2>1, OnePrint
<1>3. ASSUME Op \in {"acquirelock", "releaselock", "signalevent", "waitevent",
                     "mapsharedmem", "sleep"}
      PROVE  RegsAfter[1] = Meaning!Val(2) /\ RegsAfter[1] \in Int
  <2>1. opA = 1 /\ Meaning!Val(2) = RA
    <3>1. Op \in OneRegister \cup RegReg /\ Op \in InR1
      BY <1>3 DEF OneRegister, RegReg, InR1
    <3> QED BY <3>1, Operands DEF Start, Decoded
  <2>2. RegsAfter = cpu.regs \/ RegsAfter = [cpu.regs EXCEPT ![15] = opB]
    BY <1>3 DEF RegsAfter, Immediates
  <2>3. 1 \in Reg \cup {15} /\ 1 # 15
    BY DEF Reg
  <2>4. RegsAfter[1] = cpu.regs[1] /\ cpu.regs[1] \in Int
    BY <1>1, <2>2, <2>3
  <2> QED BY <2>1, <2>4 DEF RA
<1>4. ASSUME Op \in {"acquirelock", "releaselock", "signalevent", "waitevent", "mapsharedmem"}
      PROVE  out'[me] = Append(out[me], <<Op, AsInt32(Meaning!Val(2))>>)
  <2>1. TrapOf[Op] = Op
    BY <1>4 DEF TrapOf
  <2>2. Request(Op, Executed) = <<<<Op, AsInt32(RegsAfter[1])>>>>
    BY <1>1, <1>4 DEF Request
  <2>3. RegsAfter[1] = Meaning!Val(2) /\ RegsAfter[1] \in Int
    BY <1>3, <1>4
  <2>4. AsInt32(RegsAfter[1]) \in Int
    BY <2>3, Cast
  <2>5. Op \in Asked
    BY <1>4 DEF Asked
  <2> QED BY <1>1, <1>2, <2>1, <2>2, <2>3, <2>4, <2>5
<1>5. ASSUME Op \in Immediates
      PROVE  out'[me] = Append(out[me], <<Meaning!Immediate[Op], AsInt32(Meaning!Val(2))>>)
  <2>1. RegsAfter = [cpu.regs EXCEPT ![1] = opA]
    BY <1>5 DEF RegsAfter, Immediates
  <2>2. Executed.regs[1] = opA
    BY <1>1, <2>1 DEF Reg
  <2>3. /\ TrapOf[Op] = Meaning!Immediate[Op]
        /\ TrapOf[Op] \in {"acquirelock", "releaselock", "signalevent", "waitevent"}
    BY <1>5 DEF TrapOf, Immediates, Meaning!Immediate
  <2>4. Request(TrapOf[Op], Executed) = <<<<Meaning!Immediate[Op], AsInt32(opA)>>>>
    BY <2>2, <2>3 DEF Request
  <2>5. Meaning!Immediate[Op] \in Asked
    BY <2>3 DEF Asked
  <2>6. Meaning!Val(2) = AsInt32(opA)
    BY <1>5, Operands DEF Immediates, OneInteger
  <2>7. opA \in Int
    BY <1>1, WordsAreInts
  <2>8. AsInt32(Meaning!Val(2)) = AsInt32(opA) /\ AsInt32(opA) \in Int
    BY <2>6, <2>7, CastTwice, Cast
  <2> QED BY <1>1, <1>2, <2>8, <2>4, <2>5
<1>6. ASSUME Op = "sleep" PROVE out'[me] = Append(out[me], <<Op, Meaning!Val(2)>>)
  <2>1. Request(TrapOf[Op], Executed) = <<<<Op, RegsAfter[1]>>>>
    BY <1>1, <1>6 DEF Request, TrapOf
  <2> QED BY <1>1, <1>2, <1>3, <1>6, <2>1 DEF Asked
<1>7. ASSUME Op \in {"alloc", "freememory"}
      PROVE  /\ Executed.regs[Executed.trapA] = Meaning!Val(2)
             /\ Meaning!Val(2) \in Int
  <2>1. Meaning!Val(2) = RA /\ RA \in Int
    BY <1>7, Operands, OperandTypes DEF OneRegister, RegReg
  <2>2. Executed.trapA = opA
    BY <1>7 DEF Executed
  <2>3. RegsAfter = cpu.regs
    BY <1>7 DEF RegsAfter, Immediates
  <2> QED BY <1>1, <2>1, <2>2, <2>3 DEF RA
<1>8. ASSUME Op = "alloc" PROVE out'[me] = Append(out[me], <<Op, Meaning!Val(2)>>)
  <2>1. Request(TrapOf[Op], Executed) = <<<<Op, Meaning!Val(2)>>>>
    BY <1>7, <1>8 DEF Request, TrapOf
  <2> QED BY <1>1, <1>2, <1>7, <1>8, <2>1 DEF Asked
<1>9. ASSUME Op = "freememory"
      PROVE  out'[me] = Append(out[me], <<Op, AsUint32(Meaning!Val(2))>>)
  <2>1. Request(TrapOf[Op], Executed) = <<<<Op, AsUint32(Meaning!Val(2))>>>>
    BY <1>7, <1>9 DEF Request, TrapOf
  <2>2. AsUint32(Meaning!Val(2)) \in Int
    BY <1>7, <1>9, Cast, WordsAreInts
  <2> QED BY <1>1, <1>2, <1>9, <2>1, <2>2 DEF Asked
<1>10. ASSUME Op \in {"input", "inputc"} PROVE out'[me] = out[me]
  <2>1. Request(TrapOf[Op], Executed) = <<>>
    BY <1>10 DEF Request, TrapOf
  <2> QED BY <1>1, <2>1, NoPrint
<1> QED BY <1>4, <1>5, <1>6, <1>8, <1>9, <1>10

\* A handler's answer comes in the register the line names.
LEMMA AnswerIs ==
  ASSUME Start, TrapToOS, Op \in {"alloc", "mapsharedmem"}
  PROVE  \/ \E r \in Returns : File' = [File EXCEPT ![Meaning!Line[3][2]] = r]
         \/ Op = "mapsharedmem" /\ File' = File
<1>1. /\ Registers' \in Answers(TrapOf[Op], Executed) /\ Executed.regs = RegsAfter
      /\ Registers = cpu /\ cpu.regs \in [Reg \cup {15} -> Int]
  BY TrapIs, TrapSteady, OperandTypes
<1>2. opB \in Reg /\ Meaning!Line[3][2] = opB /\ 15 \in Reg \cup {15} /\ 15 \notin Reg
  BY Operands DEF RegReg, Reg
<1>3. CASE Op = "alloc"
  <2>1. RegsAfter = cpu.regs /\ Executed.trapB = opB /\ TrapOf[Op] = "alloc"
    BY <1>3 DEF RegsAfter, Immediates, Executed, TrapOf
  <2>2. PICK r \in Returns : Registers' = [Executed EXCEPT !.regs[Executed.trapB] = r]
    BY <1>1, <2>1 DEF Answers
  <2>3. Registers'.regs = [cpu.regs EXCEPT ![opB] = r]
    BY <1>1, <2>1, <2>2 DEF Executed
  <2>4. [x \in Reg |-> Registers'.regs[x]] =
          [[x \in Reg |-> Registers.regs[x]] EXCEPT ![opB] = r]
    BY <1>1, <1>2, <2>3
  <2> QED BY <1>2, <2>4 DEF File
<1>4. CASE Op = "mapsharedmem"
  <2>1. /\ RegsAfter = [cpu.regs EXCEPT ![15] = opB] /\ TrapOf[Op] = "mapsharedmem"
        /\ Executed.regs = [cpu.regs EXCEPT ![15] = opB]
    BY <1>1, <1>4 DEF RegsAfter, Immediates, TrapOf
  <2>2. Executed.regs[15] = opB
    BY <1>1, <1>2, <2>1
  <2>3. CASE Registers' = Executed
    <3>1. [x \in Reg |-> Registers'.regs[x]] = [x \in Reg |-> Registers.regs[x]]
      BY <1>1, <1>2, <2>1, <2>3
    <3> QED BY <1>4, <3>1 DEF File
  <2>4. CASE Registers' # Executed
    <3>1. PICK r \in Returns :
             Registers' = [Executed EXCEPT !.regs[Executed.regs[15]] = r]
      BY <1>1, <2>1, <2>4 DEF Answers
    <3>2. Registers'.regs = [[cpu.regs EXCEPT ![15] = opB] EXCEPT ![opB] = r]
      BY <2>1, <2>2, <3>1 DEF Executed
    <3>3. [x \in Reg |-> Registers'.regs[x]] =
            [[x \in Reg |-> Registers.regs[x]] EXCEPT ![opB] = r]
      BY <1>1, <1>2, <3>2
    <3> QED BY <1>2, <3>3 DEF File
  <2> QED BY <2>3, <2>4
<1> QED BY <1>3, <1>4

\* The forms with an immediate leave it in r1.
LEMMA ImmediateIs ==
  ASSUME Start, TrapToOS, Op \in Immediates
  PROVE  File' = [File EXCEPT ![1] = AsUint32(Meaning!Val(2))]
<1>1. /\ Registers' \in Answers(TrapOf[Op], Executed) /\ Executed.regs = RegsAfter
      /\ Registers = cpu /\ cpu.regs \in [Reg \cup {15} -> Int] /\ opA \in Words
  BY TrapIs, TrapSteady, OperandTypes
<1>2. TrapOf[Op] \notin {"alloc", "mapsharedmem"}
  BY DEF Immediates, TrapOf
<1>3. Registers' = Executed
  BY <1>1, <1>2 DEF Answers
<1>4. RegsAfter = [cpu.regs EXCEPT ![1] = opA]
  BY DEF RegsAfter, Immediates
<1>5. [x \in Reg |-> Registers'.regs[x]] =
        [[x \in Reg |-> Registers.regs[x]] EXCEPT ![1] = opA]
  BY <1>1, <1>3, <1>4 DEF Reg
<1>6. Meaning!Val(2) = AsInt32(opA)
  BY Operands DEF Immediates, OneInteger
<1>7. AsUint32(Meaning!Val(2)) = opA
  BY <1>1, <1>6, CastWord
<1> QED BY <1>5, <1>7 DEF File

LEMMA AskStep == ASSUME Start, TrapToOS PROVE Meaning!Ask
<1>1. /\ Op \in DOMAIN TrapOf \ {"exit"} /\ Meaning!Op = Op
      /\ Registers'.ip = Meaning!After
      /\ Registers'.zero = Registers.zero /\ Registers'.sign = Registers.sign
      /\ committed'[me].sp = committed[me].sp /\ committed'[me].mem = committed[me].mem
  BY TrapIs, TrapSteady, OperandTypes
<1>2. \/ Op \in {"sleep", "freememory", "acquirelock", "releaselock", "signalevent",
                 "waitevent"}
      \/ Op \in {"input", "inputc"} \cup Immediates \cup {"alloc", "mapsharedmem"}
  BY <1>1 DEF TrapOf, Immediates
<1> DEFINE n == Meaning!Val(2)
<1>3. Op \in Immediates <=> Op \in DOMAIN Meaning!Immediate
  BY DEF Immediates, Meaning!Immediate
<1>4. Meaning!Operand = CASE Op \in {"sleep", "alloc"} -> n
                          [] Op = "freememory"         -> AsUint32(n)
                          [] OTHER                     -> AsInt32(n)
  BY <1>1, SameMachine DEF Meaning!Operand
<1> HIDE DEF n
<1>5. \/ /\ Op \in {"sleep", "freememory", "acquirelock", "releaselock", "signalevent",
                    "waitevent"}
         /\ out'[me] = Append(out[me], <<Op, Meaning!Operand>>)
         /\ File' = File
      \/ /\ Op \in DOMAIN Meaning!Immediate
         /\ out'[me] = Append(out[me], <<Meaning!Immediate[Op], Meaning!Operand>>)
         /\ File' = [File EXCEPT ![1] = Meaning!AsUint32(n)]
      \/ /\ Op \in {"alloc", "mapsharedmem"}
         /\ out'[me] = Append(out[me], <<Op, Meaning!Operand>>)
         /\ \E r \in Returns : File' = [File EXCEPT ![Meaning!Line[3][2]] = r]
      \/ /\ Op = "mapsharedmem"
         /\ out'[me] = Append(out[me], <<Op, Meaning!Operand>>)
         /\ File' = File
      \/ /\ Op \in {"input", "inputc"}
         /\ out'[me] = out[me] /\ File' = File
  <2>1. CASE Op \in {"sleep", "freememory", "acquirelock", "releaselock", "signalevent",
                     "waitevent"}
    <3>1. File' = File
      BY <2>1, PlainTrapStep DEF Immediates
    <3>2. out'[me] = Append(out[me], <<Op, Meaning!Operand>>)
      BY <1>4, <2>1, RequestIs DEF n
    <3> QED BY <2>1, <3>1, <3>2
  <2>2. CASE Op \in Immediates
    <3>1. Meaning!Operand = AsInt32(n)
      BY <1>4, <2>2 DEF Immediates
    <3>2. out'[me] = Append(out[me], <<Meaning!Immediate[Op], Meaning!Operand>>)
      BY <2>2, <3>1, RequestIs DEF n
    <3>3. File' = [File EXCEPT ![1] = Meaning!AsUint32(n)]
      BY <2>2, ImmediateIs, SameMachine DEF n
    <3> QED BY <1>3, <2>2, <3>2, <3>3
  <2>3. CASE Op \in {"alloc", "mapsharedmem"}
    <3>1. out'[me] = Append(out[me], <<Op, Meaning!Operand>>)
      BY <1>4, <2>3, RequestIs DEF n
    <3> QED BY <2>3, <3>1, AnswerIs
  <2>4. CASE Op \in {"input", "inputc"}
    <3>1. File' = File
      BY <2>4, PlainTrapStep DEF Immediates
    <3> QED BY <2>4, <3>1, RequestIs
  <2> QED BY <1>2, <2>1, <2>2, <2>3, <2>4
<1> QED BY <1>1, <1>5 DEF Meaning!Ask, File, n

LEMMA TrapStep == ASSUME Start, TrapToOS PROVE Meaning!Step
<1>1. Meaning!Runs
  BY RunsWhenComplete DEF TrapToOS
<1>2. source' = source /\ status'[me] # "dead" /\ status[me] # "dead"
  BY TrapIs DEF Start
<1> QED BY <1>1, <1>2, AskStep DEF Meaning!Step

-----------------------------------------------------------------------------
(***************************************************************************)
(* The end of the process is that of ISA.                                  *)
(***************************************************************************)
\* The access that is refused is one the instruction needs.
LEMMA RefusedTouches ==
  ASSUME Start, Throws
  PROVE  ~Meaning!Runs
<1>1. /\ Running /\ memory \in [Space -> Byte] /\ DOMAIN committed[me].mem = Space
      /\ Decodes /\ InstrLen \in Nat
  BY MineFacts, OperandTypes, WordModFacts DEF Start, Mine, Shape
<1>2. /\ RefusedAt \in 1 .. Len(Accesses) /\ Len(Accesses) \in Nat
      /\ Accesses[RefusedAt] \notin Space
  BY <1>1, DoneFacts DEF Throws, Completes, Faults
<1>3. \A k \in 1 .. InstrLen : Accesses[k] \in Space
  BY <1>1, FetchedWords, AccessesFacts DEF Start
<1>4. RefusedAt > InstrLen
  BY <1>1, <1>2, <1>3
<1>5. ~FetchRefused
  BY <1>1, <1>2, <1>4, AccessesFacts
<1>6. \/ \E i \in 1 .. Len(ReadAt) : Accesses[RefusedAt] = ReadAt[i]
      \/ \E i \in 1 .. Len(WriteAt) : Accesses[RefusedAt] = WriteAt[i]
  BY <1>1, <1>2, <1>4, <1>5, AccessKinds
<1>7. Accesses[RefusedAt] \in Meaning!Touches
  BY <1>6, TouchesAre DEF Elements
<1> QED BY <1>1, <1>2, <1>7 DEF Meaning!Runs

\* The action in terms of the process.
LEMMA TerminateIs ==
  ASSUME IInv, RInv, Tame, active = me, Terminate
  PROVE  /\ status[me] # "dead" /\ status'[me] = "dead"
         /\ committed' = committed /\ source' = source /\ out' = out
         /\ mem'[me] = Written
<1>1. Mine /\ status[me] # "dead"
  BY StartFacts
<1>2. me \in DOMAIN status /\ me \in DOMAIN mem
  BY <1>1, MineFacts DEF Mine, TypeOK
<1> QED BY <1>1, <1>2 DEF Terminate

LEMMA EndStep ==
  ASSUME IInv, RInv, Tame, active = me, Terminate
  PROVE  Meaning!End
<1>1. ~Meaning!Runs \/ Meaning!Op = "exit"
  <2>1. CASE Throws
    <3>1. ASSUME Meaning!Runs PROVE FALSE
      <4>1. Start
        BY <3>1, StartFacts DEF Meaning!Runs
      <4> QED BY <2>1, <3>1, <4>1, RefusedTouches
    <3> QED BY <3>1
  <2>2. CASE Completes /\ Op = "exit"
    <3>1. ~FetchRefused /\ Decodes
      BY <2>2, StartFacts, MineFacts, AllThere
    <3>2. Start
      BY <3>1, StartFacts
    <3> QED BY <2>2, <3>2, OperandTypes
  <2> QED BY <2>1, <2>2 DEF Terminate
<1>2. /\ status[me] # "dead" /\ status'[me] = "dead"
      /\ source' = source /\ out' = out
  BY TerminateIs
<1> QED BY <1>1, <1>2 DEF Meaning!End

-----------------------------------------------------------------------------
(***************************************************************************)
(* What ISA does not see.                                                  *)
(***************************************************************************)
\* The process stays as it is, its memory aside.
SameProcess ==
    /\ Registers'.regs = Registers.regs /\ Registers'.ip = Registers.ip
    /\ Registers'.sp = Registers.sp
    /\ Registers'.zero = Registers.zero /\ Registers'.sign = Registers.sign
    /\ source'[me] = source[me] /\ out'[me] = out[me]
    /\ committed'[me] = committed[me]
    /\ status'[me] = "dead" <=> status[me] = "dead"

\* Then ISA stutters, and what is pending depends on the memory only.
LEMMA SameMeaning == ASSUME SameProcess PROVE UNCHANGED Meaning!vars
BY DEF SameProcess, Meaning!vars

LEMMA SamePending == ASSUME SameProcess PROVE Pending' <=> PendingIn(mem'[me])
<1>1. Space' = Space
  BY DEF SameProcess, Space, Image
<1>2. Meaning!InCode' = Meaning!InCode
  BY DEF SameProcess, Meaning!InCode, Meaning!Index
<1>3. Meaning!Line' = Meaning!Line
  BY DEF SameProcess, Meaning!Line, Meaning!Index
<1>4. Meaning!Op' = Meaning!Op
  BY <1>3 DEF Meaning!Op
<1>5. Meaning!Val(2)' = Meaning!Val(2) /\ Meaning!Val(3)' = Meaning!Val(3)
  BY <1>3 DEF Meaning!Val, SameProcess
<1>6. committed'[me] = committed[me]
  BY DEF SameProcess
<1> QED BY <1>1, <1>2, <1>4, <1>5, <1>6 DEF Pending, PendingIn

-----------------------------------------------------------------------------
(***************************************************************************)
(* A page fault leaves no trace but bytes the retry writes again.          *)
(***************************************************************************)
\* The instruction has not got past its fetch.
LEMMA FaultInFetch ==
  ASSUME Running, Faults, FetchRefused \/ ~Decodes
  PROVE  Written = memory /\ Sp = cpu.sp
<1>1. Len(Accesses) = InstrLen /\ InstrLen \in Nat
  BY AccessesFacts, WordModFacts
<1>2. Done < InstrLen /\ Done \in Nat
  BY <1>1, DoneFacts DEF Faults
<1>3. Done <= InstrLen
  BY <1>1, <1>2
<1>4. Written = memory
  BY <1>3, WrittenIs
<1>5. Sp = cpu.sp
  BY <1>2 DEF Sp
<1> QED BY <1>4, <1>5

\* A pop that faults faults before it has moved sp_ and written.
LEMMA FaultInPop ==
  ASSUME Start, Faults, FaultsHarmless, ~FetchRefused, Op \in Pops
  PROVE  Written = memory /\ Sp = cpu.sp
<1>1. /\ Running /\ active = me /\ Decodes
      /\ InstrLen \in Nat /\ WordLen \in Nat \ {0} /\ Done \in Nat
  BY MineFacts, OperandTypes, WordModFacts, DoneFacts DEF Start
<1>2. /\ Len(ReadAt) = WordLen /\ ReadFrom = InstrLen /\ WriteFrom = InstrLen + WordLen
      /\ Op \notin Pushes
  <2>1. ReadAt = WordAt(cpu.sp) /\ Op # "callm" /\ cpu.sp \in Int /\ Op \notin Pushes
    BY OperandTypes DEF ReadAt, Pops, Pushes
  <2>2. Len(ReadAt) = WordLen
    BY <2>1, WordAtType
  <2>3. ReadFrom = InstrLen + 0 /\ WriteFrom = InstrLen + WordLen
    BY <2>1, <2>2 DEF ReadFrom, WriteFrom
  <2> QED BY <1>1, <2>1, <2>2, <2>3
<1>3. Done < InstrLen + WordLen
  <2>1. CASE Op = "popm"
    <3>1. PICK k \in 1 .. WordLen : Refused(ReadAt[k])
      BY <1>1, <2>1 DEF FaultsHarmless
    <3>2. Accesses[InstrLen + k] = ReadAt[k]
      BY <1>1, <1>2, AccessKinds
    <3>3. ~(InstrLen + k \in 1 .. Done)
      BY <1>1, <3>1, <3>2, DoneFacts
    <3> QED BY <1>1, <3>3
  <2>2. CASE Op # "popm"
    <3>1. WriteAt = <<>>
      BY <2>2 DEF WriteAt, Pops, Pushes
    <3>2. Len(Accesses) = InstrLen + WordLen
      BY <1>1, <1>2, <3>1, AccessKinds
    <3> QED BY <1>1, <3>2, DoneFacts DEF Faults
  <2> QED BY <2>1, <2>2
<1>4. ASSUME NEW a, Where(WriteAt, a) # 0
      PROVE  ~(WriteFrom + Where(WriteAt, a) <= Done)
  <2>1. Len(WriteAt) \in Nat
    BY <1>1, AccessKinds
  <2>2. Where(WriteAt, a) \in 0 .. Len(WriteAt)
    BY <2>1, WhereFacts
  <2> QED BY <1>1, <1>2, <1>3, <1>4, <2>1, <2>2
<1>5. [a \in DOMAIN memory |->
          IF Where(WriteAt, a) # 0 /\ WriteFrom + Where(WriteAt, a) <= Done
          THEN BytesOf(WriteWord)[Where(WriteAt, a)] ELSE memory[a]] = memory
  <2>1. memory = [a \in DOMAIN memory |-> memory[a]]
    BY MineFacts DEF Start
  <2> QED BY <1>4, <2>1
<1>6. Written = memory
  BY <1>1, <1>5, WrittenIs
<1> QED BY <1>1, <1>2, <1>3, <1>6 DEF Sp

\* A store writes where it writes.
LEMMA FaultInStore ==
  ASSUME Start, Faults, FaultsHarmless, ~FetchRefused, Op \in {"movrm", "movmm"}
  PROVE  PendingIn(Written)
<1>1. /\ Running /\ active = me /\ Decodes /\ Meaning!Op = Op /\ Meaning!InCode
      /\ DOMAIN memory = Space
  BY MineFacts, OperandTypes DEF Start
<1>2. WriteAt = WordAt(Meaning!Val(2)) /\ Len(WriteAt) = WordLen /\ WordLen \in Nat
  <2>1. WriteAt = WordAt(Meaning!Val(2))
    BY Operands DEF WriteAt, RegReg, Pushes
  <2>2. Op \in WritesWord
    BY DEF WritesWord
  <2> QED BY <1>1, <2>1, <2>2, WriteAtType, WordModFacts
<1>3. ASSUME NEW a \in Space, Written[a] # committed[me].mem[a]
      PROVE  \E k \in 1 .. WordLen : WordAt(Meaning!Val(2))[k] = a
  <2>1. CASE Where(WriteAt, a) = 0
    <3>1. Written[a] = memory[a]
      BY <1>1, <2>1, WrittenIs
    <3> QED BY <1>2, <1>3, <3>1, SameMemory
  <2>2. CASE Where(WriteAt, a) # 0
    BY <1>2, <2>2, WhereFacts
  <2> QED BY <2>1, <2>2
<1>4. ASSUME Op = "movmm", NEW k \in 1 .. WordLen, NEW l \in 1 .. WordLen
      PROVE  WordAt(Meaning!Val(3))[k] # WordAt(Meaning!Val(2))[l]
  <2>1. ReadAt = WordAt(Meaning!Val(3))
    BY <1>4, Operands DEF ReadAt, RegReg, Pops
  <2>2. ReadAt[k] # WriteAt[l]
    BY <1>1, <1>4 DEF FaultsHarmless
  <2> QED BY <1>2, <2>1, <2>2
<1> QED BY <1>1, <1>3, <1>4 DEF PendingIn

LEMMA FaultLeaves ==
  ASSUME IInv, RInv, Tame, active = me, Faults
  PROVE  Sp = cpu.sp /\ PendingIn(Written)
<1>1. Mine /\ Pending /\ Running /\ memory = mem[me]
  BY StartFacts, MineFacts
<1>2. Written = memory => PendingIn(Written)
  BY <1>1 DEF Pending
<1>3. CASE FetchRefused \/ ~Decodes
  BY <1>1, <1>2, <1>3, FaultInFetch
<1>4. CASE ~FetchRefused /\ Decodes
  <2>1. Start /\ FaultsHarmless
    BY <1>4, StartFacts DEF Tame
  <2>2. CASE Op \in Pops
    BY <1>2, <1>4, <2>1, <2>2, FaultInPop
  <2>3. CASE Op \in {"movrm", "movmm"}
    <3>1. Sp = cpu.sp
      BY <2>3, SpSame DEF Pushes, Pops
    <3> QED BY <1>4, <2>1, <2>3, <3>1, FaultInStore
  <2>4. CASE Op \notin Pops \cup {"movrm", "movmm"}
    <3>1. Op \notin Pushes
      BY <1>4, <2>1 DEF FaultsHarmless
    <3>2. Op \notin WritesWord
      BY <2>4, <3>1 DEF WritesWord, Pops
    <3>3. Written = memory
      BY <1>1, <1>4, <3>2, NothingWritten
    <3> QED BY <1>2, <2>4, <3>1, <3>3, SpSame
  <2> QED BY <2>2, <2>3, <2>4
<1> QED BY <1>3, <1>4

\* Nothing has been written to the page that is missing.
LEMMA MissingLeft ==
  ASSUME Mine, Faults, NEW a \in DOMAIN memory, PageOf(a) = Missing
  PROVE  Written[a] = memory[a]
<1>1. Running
  BY MineFacts
<1>2. CASE FetchRefused \/ ~Decodes
  BY <1>1, <1>2, FaultInFetch
<1>3. CASE ~FetchRefused /\ Decodes
  <2> DEFINE i == Where(WriteAt, a)
  <2>1. /\ Len(WriteAt) \in Nat /\ WriteFrom \in Nat /\ Done \in Nat
        /\ \A n \in 1 .. Len(WriteAt) : Accesses[WriteFrom + n] = WriteAt[n]
    <3>1. Len(ReadAt) \in Nat /\ InstrLen \in Nat
      BY <1>1, <1>3, AccessKinds, WordModFacts
    <3>2. WriteFrom \in Nat
      BY <3>1 DEF WriteFrom
    <3> QED BY <1>1, <1>3, <3>2, AccessKinds, DoneFacts
  <2>2. i \in 0 .. Len(WriteAt) /\ (i # 0 => WriteAt[i] = a)
    BY <2>1, WhereFacts
  <2> HIDE DEF i
  <2>3. ASSUME i # 0, WriteFrom + i <= Done PROVE FALSE
    <3>1. WriteFrom + i \in 1 .. Done /\ i \in 1 .. Len(WriteAt)
      BY <2>1, <2>2, <2>3
    <3>2. ~Refused(a)
      <4>1. ~Refused(Accesses[WriteFrom + i])
        BY <1>1, <3>1, DoneFacts
      <4> QED BY <2>1, <2>2, <3>1, <4>1
    <3> QED BY <1>1, <3>2, MissingFacts DEF Refused
  <2> QED BY <1>1, <2>3, WrittenIs DEF i
<1> QED BY <1>2, <1>3

\* What is brought in is what was there.
LEMMA SwappedInSame ==
  ASSUME Mine, Faults, FaultsRestore
  PROVE  SwappedIn(Missing, Written) = Written
<1>1. Running /\ active = me /\ memory \in [Space -> Byte]
  BY MineFacts
<1>2. CASE <<active, Missing>> \in disk
  BY <1>2 DEF SwappedIn
<1>3. CASE <<active, Missing>> \notin disk
  <2>1. \A a \in DOMAIN memory : PageOf(a) = Missing => memory[a] = 0
    BY <1>1, <1>3 DEF FaultsRestore, Missing
  <2>2. \A a \in DOMAIN memory : PageOf(a) = Missing => Written[a] = 0
    BY <2>1, MissingLeft
  <2>3. DOMAIN Written = DOMAIN memory
    BY <1>1, WrittenType
  <2>4. Written = [a \in DOMAIN Written |-> Written[a]]
    BY <1>1, WrittenIs
  <2>5. SwappedIn(Missing, Written) =
           [a \in DOMAIN Written |-> IF PageOf(a) = Missing THEN 0 ELSE Written[a]]
    BY <1>3 DEF SwappedIn
  <2>6. \A a \in DOMAIN Written :
           (IF PageOf(a) = Missing THEN 0 ELSE Written[a]) = Written[a]
    BY <2>2, <2>3
  <2> QED BY <2>4, <2>5, <2>6
<1> QED BY <1>2, <1>3

LEMMA PageFaultSame ==
  ASSUME IInv, RInv, Tame, active = me, PageFault
  PROVE  SameProcess /\ mem'[me] = Written
<1>1. Mine /\ Registers = cpu /\ me \in Proc
  BY StartFacts, MineFacts
<1>2. Sp = cpu.sp
  BY FaultLeaves DEF PageFault
<1>3. DOMAIN pcb = Proc /\ DOMAIN mem = Proc /\ cpu \in CPUState
  BY <1>1 DEF Mine, TypeOK
<1>4. /\ pcb' = [pcb EXCEPT ![active] = [cpu EXCEPT !.ip = cpu.ip, !.sp = cpu.sp]]
      /\ active' = NoProc
  BY <1>2 DEF PageFault, SwitchOut, RestartIP
<1>5. active' # me
  BY <1>1, <1>4, CPUAssumption
<1>6. Registers' = [cpu EXCEPT !.ip = cpu.ip, !.sp = cpu.sp]
  BY <1>1, <1>3, <1>4, <1>5 DEF Registers
<1>7. /\ Registers'.regs = cpu.regs /\ Registers'.ip = cpu.ip /\ Registers'.sp = cpu.sp
      /\ Registers'.zero = cpu.zero /\ Registers'.sign = cpu.sign
  BY <1>3, <1>6 DEF CPUState
<1>8. mem'[me] = Written
  <2>1. SwappedIn(Missing, Written) = Written
    BY <1>1, SwappedInSame DEF PageFault, Tame
  <2>2. mem' = [mem EXCEPT ![active] = Written]
    BY <2>1, PageFaultIs
  <2> QED BY <1>1, <1>3, <2>2, MineFacts
<1> QED BY <1>1, <1>7, <1>8 DEF SameProcess, PageFault

-----------------------------------------------------------------------------
(***************************************************************************)
(* Nobody else's step is one of the process, and no context switch is.     *)
(***************************************************************************)
LEMMA SwitchToSame ==
  ASSUME TypeOK, SwitchTo
  PROVE  SameProcess /\ mem'[me] = mem[me]
<1>1. active # me /\ Registers = pcb[me]
  BY CPUAssumption, MeAssumption DEF SwitchTo, Registers
<1>2. pcb[me] \in CPUState /\ cpu \in CPUState
  BY MeAssumption DEF TypeOK
<1>3. /\ Registers'.regs = pcb[me].regs /\ Registers'.ip = pcb[me].ip
      /\ Registers'.sp = pcb[me].sp
      /\ Registers'.zero = pcb[me].zero /\ Registers'.sign = pcb[me].sign
  <2>1. CASE Head(ready) = me
    <3>1. Registers' = LoadFrom(pcb[me])
      BY <2>1 DEF SwitchTo, Registers
    <3> QED BY <1>2, <3>1 DEF LoadFrom, CPUState
  <2>2. CASE Head(ready) # me
    BY <2>2 DEF SwitchTo, Registers
  <2> QED BY <2>1, <2>2
<1> QED BY <1>1, <1>3 DEF SwitchTo, SameProcess

LEMMA QuantumExpiredSame ==
  ASSUME TypeOK, QuantumExpired
  PROVE  SameProcess /\ mem'[me] = mem[me]
<1>1. active' # me /\ DOMAIN pcb = Proc /\ me \in Proc
  BY CPUAssumption, MeAssumption DEF QuantumExpired, SwitchOut, TypeOK
<1>2. Registers' = Registers
  BY <1>1 DEF QuantumExpired, SwitchOut, Registers
<1> QED BY <1>2 DEF QuantumExpired, SameProcess

\* A step of another process.
LEMMA OtherSame ==
  ASSUME TypeOK, Shape, active # me, active # NoProc,
         Execute \/ TrapToOS \/ PageFault \/ Terminate
  PROVE  SameProcess /\ mem'[me] = mem[me]
<1>1. /\ active \in Proc /\ me \in Proc /\ DOMAIN pcb = Proc /\ DOMAIN mem = Proc
      /\ DOMAIN out = Proc /\ DOMAIN committed = Proc /\ DOMAIN status = Proc
  BY MeAssumption DEF TypeOK, Shape
<1>2. Registers' = pcb[me] /\ Registers = pcb[me]
  <2>1. CASE Execute
    BY <2>1 DEF Execute, Registers
  <2>2. CASE TrapToOS \/ PageFault \/ Terminate
    <3>1. PICK c : SwitchOut(c)
      BY <2>2 DEF TrapToOS, PageFault, Terminate
    <3>2. active' # me
      BY <3>1, CPUAssumption, MeAssumption DEF SwitchOut
    <3> QED BY <1>1, <3>1, <3>2 DEF SwitchOut, Registers
  <2> QED BY <2>1, <2>2
<1>3. CASE Execute
  BY <1>1, <1>2, <1>3 DEF Execute, SameProcess
<1>4. CASE TrapToOS
  <2>1. status'[me] = status[me]
    BY <1>1, <1>4 DEF TrapToOS
  <2>2. out'[me] = out[me]
    BY <1>1, <1>4 DEF TrapToOS
  <2>3. UNCHANGED <<source, mem, committed>>
    BY <1>4 DEF TrapToOS
  <2> QED BY <1>2, <2>1, <2>2, <2>3 DEF SameProcess
<1>5. CASE PageFault
  <2>1. mem'[me] = mem[me]
    BY <1>1, <1>5, PageFaultIs
  <2> QED BY <1>1, <1>2, <1>5, <2>1 DEF PageFault, SameProcess
<1>6. CASE Terminate
  BY <1>1, <1>2, <1>6 DEF Terminate, SameProcess
<1> QED BY <1>3, <1>4, <1>5, <1>6

LEMMA IdleSame ==
  ASSUME TypeOK, OutsiderFaults \/ (\E p \in Proc : Wake(p)) \/ UNCHANGED vars
  PROVE  SameProcess /\ mem'[me] = mem[me]
<1>1. CASE OutsiderFaults
  BY <1>1 DEF OutsiderFaults, SameProcess, Registers
<1>2. CASE \E p \in Proc : Wake(p)
  <2>1. PICK p \in Proc : Wake(p)
    BY <1>2
  <2>2. status'[me] = "dead" <=> status[me] = "dead"
    BY <2>1, MeAssumption DEF Wake, TypeOK
  <2> QED BY <2>1, <2>2 DEF Wake, SameProcess, Registers
<1>3. CASE UNCHANGED vars
  BY <1>3 DEF vars, SameProcess, Registers
<1> QED BY <1>1, <1>2, <1>3

\* What a step is to the process.
LEMMA StepKinds ==
  ASSUME IInv, RInv, Tame, [Next]_vars
  PROVE  \/ SameProcess /\ mem'[me] = mem[me]
         \/ active = me /\ PageFault
         \/ active = me /\ Terminate
         \/ Start /\ Execute
         \/ Start /\ TrapToOS
<1>1. TypeOK /\ Shape
  BY DEF IInv, RInv
<1>2. \/ SwitchTo \/ QuantumExpired \/ Execute \/ TrapToOS \/ PageFault \/ Terminate
      \/ OutsiderFaults \/ (\E p \in Proc : Wake(p)) \/ UNCHANGED vars
  BY DEF Next
<1>3. ASSUME Execute \/ TrapToOS, active = me PROVE Start
  <2>1. Completes
    BY <1>3 DEF Execute, TrapToOS
  <2>2. ~FetchRefused /\ Decodes
    BY <1>3, <2>1, StartFacts, MineFacts, AllThere
  <2> QED BY <1>3, <2>2, StartFacts
<1>4. Execute \/ TrapToOS \/ PageFault \/ Terminate => active # NoProc
  BY DEF Execute, TrapToOS, PageFault, Terminate
<1> QED BY <1>1, <1>2, <1>3, <1>4, SwitchToSame, QuantumExpiredSame, OtherSame, IdleSame

-----------------------------------------------------------------------------
(***************************************************************************)
(* The invariant is kept.                                                  *)
(***************************************************************************)
\* What is printed and asked for is an item of the output.
LEMMA PrintedType == ASSUME Start, Completes PROVE Printed \in Seq(Item)
<1>1. /\ Running
      /\ Op \in Prints => RA \in Int
      /\ Byte \subseteq Int
  BY MineFacts, OperandTypes, WordModFacts DEF Start, OneRegister, Prints, Byte
<1>2. Op = "printm" => AsInt32(Loaded) \in Int
  BY <1>1, LoadedType, WordsAreInts, Cast DEF ReadsWord
<1>3. Op = "printcr" => RA % ByteMod \in Int
  BY <1>1, WordModFacts, DivMod DEF Prints
<1>4. Op = "printcm" => memory[AsUint32(RA)] \in Int
  <2>1. ASSUME Op = "printcm" PROVE AsUint32(RA) \in DOMAIN memory
    <3>1. ReadAt = <<AsUint32(RA)>>
      BY <2>1 DEF ReadAt, Pops
    <3> QED BY <1>1, <3>1, AllThere
  <2> QED BY <1>1, <2>1, RunningFacts
<1>5. Printed = <<>> \/ \E x \in Int : Printed = <<x>>
  BY <1>1, <1>2, <1>3, <1>4 DEF Printed, Prints
<1>6. Int \subseteq Item
  BY DEF Item
<1> HIDE DEF Item
<1>7. \A x \in Item : <<x>> \in Seq(Item)
  OBVIOUS
<1>8. <<>> \in Seq(Item)
  OBVIOUS
<1> QED BY <1>5, <1>6, <1>7, <1>8

LEMMA RequestType == ASSUME Start, TrapToOS PROVE out'[me] \in Seq(Item)
<1>1. out[me] \in Seq(Item) /\ opA \in Words /\ Op \in DOMAIN TrapOf \ {"exit"}
  BY OperandTypes, TrapSteady DEF Start, Mine, Shape
<1>2. ASSUME NEW t \in Asked, NEW n \in Int PROVE Append(out[me], <<t, n>>) \in Seq(Item)
  <2>1. <<t, n>> \in Item
    BY DEF Item
  <2> QED BY <1>1, <2>1, AppendProperties
<1>3. Op \notin {"input", "inputc"} => Meaning!Val(2) \in Int
  <2>1. CASE Op \in Immediates
    <3>1. Meaning!Val(2) = AsInt32(opA)
      BY <2>1, Operands DEF Immediates, OneInteger
    <3> QED BY <1>1, <3>1, WordsAreInts, Cast
  <2>2. CASE Op \notin Immediates \cup {"input", "inputc"}
    <3>1. Op \in OneRegister \cup RegReg
      BY <1>1, <2>2 DEF OneRegister, RegReg, TrapOf, Immediates
    <3> QED BY <3>1, Operands, OperandTypes
  <2> QED BY <2>1, <2>2
<1> DEFINE n == Meaning!Val(2)
<1>4. /\ Op \notin {"input", "inputc"} => n \in Int /\ AsInt32(n) \in Int /\ AsUint32(n) \in Int
  BY <1>3, Cast, WordsAreInts
<1> HIDE DEF n
<1>5. \/ out'[me] = out[me]
      \/ \E t \in Asked, k \in Int : out'[me] = Append(out[me], <<t, k>>)
  <2>1. CASE Op \in {"input", "inputc"}
    BY <2>1, RequestIs
  <2>2. CASE Op \in Immediates
    <3>1. Meaning!Immediate[Op] \in Asked /\ AsInt32(n) \in Int
      BY <1>4, <2>2 DEF Meaning!Immediate, Asked, Immediates
    <3>2. out'[me] = Append(out[me], <<Meaning!Immediate[Op], AsInt32(n)>>)
      BY <2>2, RequestIs DEF n
    <3> QED BY <3>1, <3>2
  <2>3. CASE Op \notin Immediates \cup {"input", "inputc"}
    <3>1. Op \in Asked
      BY <1>1, <2>3 DEF Asked, TrapOf, Immediates
    <3>2. \/ out'[me] = Append(out[me], <<Op, AsInt32(n)>>)
          \/ out'[me] = Append(out[me], <<Op, n>>)
          \/ out'[me] = Append(out[me], <<Op, AsUint32(n)>>)
      BY <3>1, RequestIs DEF n, Asked
    <3> QED BY <1>4, <2>3, <3>1, <3>2
  <2> QED BY <2>1, <2>2, <2>3
<1> QED BY <1>1, <1>2, <1>5

LEMMA SourceSame ==
  ASSUME [Next]_vars PROVE source' = source /\ Space' = Space
<1>1. source' = source
  BY DEF Next, vars, SwitchTo, QuantumExpired, Execute, TrapToOS, PageFault, Terminate,
         OutsiderFaults, Wake
<1> QED BY <1>1 DEF Space, Image

LEMMA ShapeKept ==
  ASSUME Shape, [Next]_vars,
         mem'[me] \in [Space -> Byte],
         committed'[me].mem \in [Space -> Byte], committed'[me].sp \in Words,
         out'[me] \in Seq(Item)
  PROVE  Shape'
<1>1. source' = source /\ Space' = Space
  BY SourceSame
<1>2. DOMAIN committed' = Proc /\ DOMAIN out' = Proc
  BY DEF Shape, Next, vars, SwitchTo, QuantumExpired, Execute, TrapToOS, PageFault,
         Terminate, OutsiderFaults, Wake
<1> QED BY <1>1, <1>2 DEF Shape, Item

\* The invariant is inductive as long as the process is tame.
LEMMA RInvStep == ASSUME IInv, RInv, Tame, [Next]_vars PROVE RInv'
<1>1. Shape /\ me \in Proc
  BY MeAssumption DEF RInv
<1>2. ASSUME active = me PROVE Written \in [Space -> Byte] /\ memory \in [Space -> Byte]
  <2>1. Running /\ memory \in [Space -> Byte]
    BY <1>2, StartFacts, MineFacts
  <2>2. DOMAIN Written = Space /\ \A a \in Space : Written[a] \in Byte
    BY <2>1, WrittenType
  <2>3. Written = [a \in DOMAIN Written |-> Written[a]]
    BY <2>1, WrittenIs
  <2> QED BY <2>1, <2>2, <2>3
<1>3. CASE SameProcess /\ mem'[me] = mem[me]
  <2>1. Shape'
    BY <1>1, <1>3, ShapeKept DEF Shape, SameProcess
  <2>2. ASSUME status'[me] # "dead"
        PROVE  committed'[me].sp = Registers'.sp /\ Pending'
    <3>1. status[me] # "dead"
      BY <1>3, <2>2 DEF SameProcess
    <3>2. committed[me].sp = Registers.sp /\ Pending
      BY <3>1 DEF RInv
    <3>3. Pending'
      BY <1>3, <3>2, SamePending DEF Pending
    <3> QED BY <1>3, <3>2, <3>3 DEF SameProcess
  <2> QED BY <2>1, <2>2 DEF RInv
<1>4. CASE active = me /\ PageFault
  <2>1. SameProcess /\ mem'[me] = Written /\ PendingIn(Written)
    BY <1>4, PageFaultSame, FaultLeaves DEF PageFault
  <2>2. Shape'
    BY <1>1, <1>2, <1>4, <2>1, ShapeKept DEF Shape, SameProcess
  <2>3. Pending'
    BY <2>1, SamePending
  <2>4. status[me] # "dead" /\ committed[me].sp = Registers.sp
    BY <1>4, StartFacts, MineFacts
  <2> QED BY <2>1, <2>2, <2>3, <2>4 DEF RInv, SameProcess
<1>5. CASE active = me /\ Terminate
  <2>1. /\ status'[me] = "dead" /\ committed' = committed /\ out' = out
        /\ mem'[me] = Written
    BY <1>5, TerminateIs
  <2>2. Shape'
    BY <1>1, <1>2, <1>5, <2>1, ShapeKept DEF Shape
  <2> QED BY <2>1, <2>2 DEF RInv
<1>6. CASE Start /\ Execute
  <2>1. /\ active = me /\ DOMAIN mem = Proc /\ Completes /\ Running
        /\ Registers' = Executed /\ committed'[me].mem = Written /\ committed'[me].sp = Sp
        /\ out'[me] = out[me] \o Printed
    BY <1>6, MineFacts, ExecuteIs DEF Start, Mine, TypeOK, Execute
  <2>2. mem'[me] = Written
    BY <1>1, <1>6, <2>1 DEF Execute
  <2>3. out'[me] \in Seq(Item)
    <3>1. out[me] \in Seq(Item) /\ Printed \in Seq(Item)
      BY <1>1, <1>6, <2>1, PrintedType DEF Shape
    <3> QED BY <2>1, <3>1, ConcatProperties
  <2>4. Sp \in Words
    BY <2>1, SpType
  <2>5. Shape'
    BY <1>1, <1>2, <2>1, <2>2, <2>3, <2>4, ShapeKept
  <2>6. committed'[me].sp = Registers'.sp
    BY <2>1 DEF Executed
  <2>7. Pending'
    BY <2>1, <2>2 DEF Pending, PendingIn
  <2> QED BY <2>5, <2>6, <2>7 DEF RInv
<1>7. CASE Start /\ TrapToOS
  <2>1. /\ active = me /\ committed' = committed /\ mem' = mem
        /\ Registers'.sp = Registers.sp /\ mem[me] = committed[me].mem
        /\ committed[me].sp = Registers.sp
    BY <1>7, TrapIs, TrapSteady, MineFacts DEF Start
  <2>2. out'[me] \in Seq(Item)
    BY <1>7, RequestType
  <2>3. Shape'
    BY <1>1, <2>1, <2>2, ShapeKept DEF Shape
  <2>4. Pending'
    BY <2>1 DEF Pending, PendingIn
  <2> QED BY <2>1, <2>3, <2>4 DEF RInv
<1> QED BY <1>3, <1>4, <1>5, <1>6, <1>7, StepKinds

\* Every step is one of ISA, or none.
LEMMA MeaningStep == ASSUME IInv, RInv, Tame, [Next]_vars PROVE [Meaning!Next]_Meaning!vars
<1>1. CASE SameProcess /\ mem'[me] = mem[me]
  BY <1>1, SameMeaning
<1>2. CASE active = me /\ PageFault
  BY <1>2, PageFaultSame, SameMeaning
<1>3. CASE active = me /\ Terminate
  BY <1>3, EndStep DEF Meaning!Next
<1>4. CASE Start /\ Execute
  BY <1>4, ExecuteStep DEF Meaning!Next
<1>5. CASE Start /\ TrapToOS
  BY <1>5, TrapStep DEF Meaning!Next
<1> QED BY <1>1, <1>2, <1>3, <1>4, <1>5, StepKinds

\* The first state is one of ISA.
LEMMA InitRInv == ASSUME Init PROVE RInv /\ Meaning!Init
<1>1. me \in Proc /\ active # me /\ TypeOK
  BY CPUAssumption, MeAssumption, InitType DEF Init
<1>2. /\ Registers = NewPCB
      /\ mem[me] = committed[me].mem /\ committed[me].sp = StackTop
      /\ out[me] = <<>> /\ status[me] = "ready"
      /\ source \in [Proc -> Programs]
      /\ DOMAIN committed = Proc /\ DOMAIN out = Proc
  BY <1>1 DEF Init, Registers
<1>3. mem[me] \in [Space -> Byte]
  <2> DEFINE code == Image(source[me])
  <2>1. mem[me] = [a \in Space |-> IF a \in Others THEN 0 ELSE code[a - CodeBase + 1]]
    BY <1>1 DEF Init, Space
  <2>2. \A a \in DOMAIN mem[me] : mem[me][a] \in Byte
    BY <1>1 DEF TypeOK
  <2> HIDE DEF code, Space, Byte
  <2> QED BY <2>1, <2>2
<1>4. StackTop \in Words
  BY CPUAssumption
<1>5. Shape
  BY <1>2, <1>3, <1>4 DEF Shape
<1>6. Registers.sp = StackTop /\ Registers.ip = CodeBase
      /\ Registers.zero = FALSE /\ Registers.sign = FALSE
      /\ [r \in Reg |-> Registers.regs[r]] = [r \in Reg |-> 0]
  BY <1>2 DEF NewPCB
<1>7. RInv
  BY <1>2, <1>5, <1>6 DEF RInv, Pending, PendingIn
<1>8. Meaning!Init
  BY <1>2, <1>6, SameWord DEF Meaning!Init
<1> QED BY <1>7, <1>8

\* CPU does what the assembly program says: a process that is Tame, and so gets
\* back the pages it faults on, is an execution of its own source on a machine
\* of its own, whatever the others do, wherever its pages are and whenever it is
\* interrupted.  CPU::step with its faults, CPU::Run, OS::run, the evictions
\* with their writes to the disk, and the context switches.
THEOREM ProgramsRunAsWritten == Spec /\ []Tame => RunsAsWritten
<1>1. Init => IInv /\ RInv /\ Meaning!Init
  BY InitType, InitFrames, InitRInv DEF IInv
<1>2. IInv /\ RInv /\ Tame /\ [Next]_vars => IInv' /\ RInv'
  BY FramesStep, RInvStep
<1>3. IInv /\ RInv /\ Tame /\ [Next]_vars => [Meaning!Next]_Meaning!vars
  BY MeaningStep
<1> QED BY <1>1, <1>2, <1>3, PTL DEF Spec, RunsAsWritten, Meaning!Spec
=============================================================================
