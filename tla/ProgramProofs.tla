--------------------------- MODULE ProgramProofs ---------------------------
(***************************************************************************)
(* Proofs about Program, for any source files, any size of a byte and any  *)
(* length of a word.                                                       *)
(***************************************************************************)
EXTENDS Program, AssemblerProofs

-----------------------------------------------------------------------------
(***************************************************************************)
(* The image.                                                              *)
(***************************************************************************)
LEMMA StatementsFacts ==
  ASSUME NEW file \in Seq(Seq(Lexeme))
  PROVE  LET s == Statements(file) IN
         /\ s \in [0 .. Len(file) -> Seq(Seq(Lexeme))]
         /\ s[0] = <<>>
         /\ \A i \in 1 .. Len(file) :
              s[i] = IF Tokens(file[i]) = <<>> THEN s[i - 1]
                     ELSE Append(s[i - 1], Tokens(file[i]))
<1> DEFINE n == Len(file)
           S == Seq(Seq(Lexeme))
           step(i, x) == IF Tokens(file[i]) = <<>> THEN x ELSE Append(x, Tokens(file[i]))
           G == [x \in (1 .. n) \X S |-> step(x[1], x[2])]
           Out(g) == g = [i \in 0 .. n |-> IF i = 0 THEN <<>> ELSE step(i, g[i - 1])]
<1>1. n \in Nat
  OBVIOUS
<1>2. \A i \in 1 .. n, x \in S : step(i, x) \in S
  <2> SUFFICES ASSUME NEW i \in 1 .. n, NEW x \in S PROVE step(i, x) \in S
    OBVIOUS
  <2>1. file[i] \in Seq(Lexeme)
    BY ElementOfSeq
  <2>2. Tokens(file[i]) \in Seq(Lexeme)
    BY <2>1, TokensType
  <2>3. Append(x, Tokens(file[i])) \in S
    BY <2>2, AppendProperties
  <2> QED BY <2>3
<1>3. <<>> \in S
  BY EmptySeq
<1>4. PICK f \in [0 .. n -> S] : Out(f)
  <2> HIDE DEF n, S, step
  <2>1. G \in [(1 .. n) \X S -> S]
    BY <1>2
  <2> HIDE DEF G
  <2>2. Recursion(n, S, <<>>, G) # {}
    BY <1>1, <1>3, <2>1, FiniteRecursion
  <2>3. PICK f \in [0 .. n -> S] :
           f[0] = <<>> /\ \A i \in 1 .. n : f[i] = G[<<i, f[i - 1]>>]
    BY <2>2 DEF Recursion
  <2>4. \A i \in 1 .. n : f[i] = step(i, f[i - 1])
    <3> SUFFICES ASSUME NEW i \in 1 .. n PROVE f[i] = step(i, f[i - 1])
      OBVIOUS
    <3>1. f[i - 1] \in S
      BY <1>1
    <3>2. G[<<i, f[i - 1]>>] = step(i, f[i - 1])
      BY <3>1 DEF G
    <3> QED BY <2>3, <3>2
  <2>5. Out(f)
    BY <1>1, <2>3, <2>4
  <2> QED BY <2>5
<1> DEFINE g == Statements(file)
<1>5. Out(g)
  <2> HIDE DEF G, S
  <2> QED BY ONLY <1>4, Zenon DEF Statements
<1> HIDE DEF n, S, G, step, g
<1>6. g[0] = <<>> /\ \A i \in 1 .. n : g[i] = step(i, g[i - 1])
  BY <1>1, <1>5
<1> DEFINE T == {i \in 0 .. n : g[i] \in S}
<1>7. 0 .. n \subseteq T
  <2>1. 0 \in T
    BY <1>1, <1>3, <1>6
  <2>2. ASSUME NEW i \in 1 .. n, i - 1 \in T PROVE i \in T
    <3>1. i \in 0 .. n /\ g[i - 1] \in S
      BY <1>1, <2>2
    <3> QED BY <1>2, <1>6, <3>1
  <2> HIDE DEF T
  <2> QED BY <1>1, <2>1, <2>2, SetInduction
<1>8. g \in [0 .. n -> S]
  BY <1>5, <1>7
<1> QED BY <1>6, <1>8 DEF n, S, step, g

\* Word j of instruction k in the image s.
Place(s, k, j) ==
    WordOf([i \in 1 .. WordLen |-> s[(k - 1) * InstrLen + j * WordLen + i]])

LEMMA BytesSeq ==
  ASSUME NEW w \in 0 .. WordMod - 1
  PROVE  /\ BytesOf(w) \in Seq(Byte) /\ Len(BytesOf(w)) = WordLen
         /\ WordOf(BytesOf(w)) = w
<1>1. w \in Int
  OBVIOUS
<1> DEFINE b == BytesOf(w)
<1>2. b \in [1 .. WordLen -> Byte]
  BY <1>1, BytesOfType
<1>3. WordOf(b) = w
  BY <1>1, WordRoundTrip, Word
<1> HIDE DEF b
<1>4. b \in Seq(Byte) /\ Len(b) = WordLen
  BY <1>2, WordModFacts
<1> QED BY <1>3, <1>4 DEF b

\* The bytes t are those of r and then those of s.
Join(t, r, s, m, n) ==
    /\ t \in Seq(Byte) /\ Len(t) = m + n
    /\ \A i \in 1 .. m : t[i] = r[i]
    /\ \A i \in 1 .. n : t[m + i] = s[i]

LEMMA Joined ==
  ASSUME NEW r \in Seq(Byte), NEW s \in Seq(Byte), NEW m \in Nat, NEW n \in Nat,
         Len(r) = m, Len(s) = n
  PROVE  Join(r \o s, r, s, m, n)
<1> DEFINE t == r \o s
<1>1. /\ t \in Seq(Byte) /\ Len(t) = Len(r) + Len(s)
      /\ \A i \in 1 .. Len(r) + Len(s) :
           t[i] = IF i <= Len(r) THEN r[i] ELSE s[i - Len(r)]
  BY ConcatProperties
<1> HIDE DEF t
<1>2. ASSUME NEW i \in 1 .. m PROVE t[i] = r[i]
  BY <1>1
<1>3. ASSUME NEW i \in 1 .. n PROVE t[m + i] = s[i]
  <2>1. m + i \in 1 .. m + n /\ ~(m + i <= m) /\ (m + i) - m = i
    OBVIOUS
  <2> QED BY <1>1, <2>1
<1> QED BY <1>1, <1>2, <1>3 DEF t, Join

\* An instruction more leaves the words before it, and adds its own.
\* t is s with one more instruction, made of the words a, b and c.
OneLonger(t, s, n, a, b, c) ==
    /\ t \in Seq(Byte) /\ Len(t) = InstrLen * (n + 1)
    /\ \A k \in 1 .. n : \A j \in 0 .. 2 : Place(t, k, j) = Place(s, k, j)
    /\ Place(t, n + 1, 0) = a
    /\ Place(t, n + 1, 1) = b
    /\ Place(t, n + 1, 2) = c

LEMMA OneMore ==
  ASSUME NEW s \in Seq(Byte), NEW n \in Nat, Len(s) = InstrLen * n,
         NEW a \in 0 .. WordMod - 1, NEW b \in 0 .. WordMod - 1,
         NEW c \in 0 .. WordMod - 1
  PROVE  OneLonger(s \o (BytesOf(a) \o BytesOf(b) \o BytesOf(c)), s, n, a, b, c)
<1> DEFINE x == BytesOf(a)
           y == BytesOf(b)
           z == BytesOf(c)
           L == WordLen
<1>1. /\ x \in Seq(Byte) /\ Len(x) = L /\ WordOf(x) = a
      /\ y \in Seq(Byte) /\ Len(y) = L /\ WordOf(y) = b
      /\ z \in Seq(Byte) /\ Len(z) = L /\ WordOf(z) = c
  BY BytesSeq
<1>2. L \in Nat /\ InstrLen = 3 * L /\ InstrLen \in Nat
  BY WordModFacts DEF InstrLen
<1> HIDE DEF x, y, z, L
<1> DEFINE u == x \o y
           v == u \o z
           t == s \o v
<1>3. /\ u \in Seq(Byte) /\ Len(u) = L + L
      /\ \A i \in 1 .. L : u[i] = x[i]
      /\ \A i \in 1 .. L : u[L + i] = y[i]
  <2>1. Join(u, x, y, L, L)
    BY <1>1, <1>2, Joined
  <2> QED BY <2>1 DEF Join
<1> HIDE DEF u
<1>4. /\ v \in Seq(Byte) /\ Len(v) = (L + L) + L
      /\ \A i \in 1 .. L + L : v[i] = u[i]
      /\ \A i \in 1 .. L : v[(L + L) + i] = z[i]
  <2>1. L + L \in Nat
    BY <1>2
  <2>2. Join(v, u, z, L + L, L)
    BY <1>1, <1>2, <1>3, <2>1, Joined
  <2> QED BY <2>2 DEF Join
<1> HIDE DEF v
<1>5. /\ t \in Seq(Byte) /\ Len(t) = Len(s) + 3 * L /\ Len(s) \in Nat
      /\ \A i \in 1 .. Len(s) : t[i] = s[i]
      /\ \A i \in 1 .. 3 * L : t[Len(s) + i] = v[i]
  <2>1. 3 * L \in Nat /\ Len(v) = 3 * L /\ Len(s) \in Nat
    BY <1>2, <1>4
  <2>2. Join(t, s, v, Len(s), 3 * L)
    BY <1>4, <2>1, Joined
  <2> QED BY <2>1, <2>2 DEF Join
<1> HIDE DEF t
<1>6. Len(t) = InstrLen * (n + 1)
  BY <1>2, <1>5
<1>7. ASSUME NEW k \in 1 .. n, NEW j \in 0 .. 2
      PROVE  Place(t, k, j) = Place(s, k, j)
  <2> DEFINE at == (k - 1) * InstrLen + j * L
  <2>1. at \in Nat /\ at + L <= Len(s)
    <3>1. (k - 1) * InstrLen >= 0 /\ (n - k) * InstrLen >= 0
      BY <1>2
    <3>2. j * L >= 0 /\ (2 - j) * L >= 0
      BY <1>2
    <3> QED BY <1>2, <3>1, <3>2
  <2> HIDE DEF at
  <2>2. \A i \in 1 .. L : t[at + i] = s[at + i]
    BY <1>2, <1>5, <2>1
  <2>3. [i \in 1 .. L |-> t[at + i]] = [i \in 1 .. L |-> s[at + i]]
    BY <2>2
  <2> QED BY <2>3 DEF Place, at, L
<1>8. ASSUME NEW j \in 0 .. 2, NEW w, w \in Seq(Byte), Len(w) = L,
             \A i \in 1 .. L : v[j * L + i] = w[i]
      PROVE  Place(t, n + 1, j) = WordOf(w)
  <2> DEFINE at == (n + 1 - 1) * InstrLen + j * L
  <2>1. at = Len(s) + j * L /\ j * L \in Nat /\ j * L + L <= 3 * L
    <3>1. j * L >= 0 /\ (2 - j) * L >= 0
      BY <1>2
    <3> QED BY <1>2, <3>1
  <2> HIDE DEF at
  <2>2. ASSUME NEW i \in 1 .. L PROVE t[at + i] = w[i]
    <3> DEFINE p == j * L
    <3>1. at + i = Len(s) + p + i /\ p + i \in 1 .. 3 * L /\ p \in Nat
      BY <1>2, <2>1
    <3>2. v[p + i] = w[i]
      BY <1>8
    <3> HIDE DEF p
    <3>3. at + i = Len(s) + (p + i)
      BY <1>5, <3>1
    <3> QED BY <1>5, <3>1, <3>2, <3>3
  <2>3. [i \in 1 .. L |-> t[at + i]] = w
    <3>1. w = [i \in 1 .. L |-> w[i]]
      BY <1>2, <1>8
    <3> QED BY <2>2, <3>1
  <2>4. Place(t, n + 1, j) = WordOf([i \in 1 .. L |-> t[at + i]])
    BY DEF Place, at, L
  <2> QED BY <2>3, <2>4
<1>9. Place(t, n + 1, 0) = a
  <2>1. ASSUME NEW i \in 1 .. L PROVE v[0 * L + i] = x[i]
    <3>1. i \in 1 .. L + L /\ 0 * L + i = i
      BY <1>2
    <3> QED BY <1>3, <1>4, <3>1
  <2>2. x \in Seq(Byte) /\ Len(x) = L /\ WordOf(x) = a
    BY <1>1
  <2> HIDE DEF x, v, L
  <2>3. Place(t, n + 1, 0) = WordOf(x)
    BY <1>8, <2>1, <2>2
  <2> QED BY <2>2, <2>3
<1>10. Place(t, n + 1, 1) = b
  <2>1. ASSUME NEW i \in 1 .. L PROVE v[1 * L + i] = y[i]
    <3>1. L + i \in 1 .. L + L /\ 1 * L + i = L + i
      BY <1>2
    <3> QED BY <1>3, <1>4, <3>1
  <2>2. y \in Seq(Byte) /\ Len(y) = L /\ WordOf(y) = b
    BY <1>1
  <2> HIDE DEF y, v, L
  <2>3. Place(t, n + 1, 1) = WordOf(y)
    BY <1>8, <2>1, <2>2
  <2> QED BY <2>2, <2>3
<1>11. Place(t, n + 1, 2) = c
  <2>1. ASSUME NEW i \in 1 .. L PROVE v[2 * L + i] = z[i]
    <3>1. 2 * L + i = (L + L) + i
      BY <1>2
    <3> QED BY <1>4, <3>1
  <2>2. z \in Seq(Byte) /\ Len(z) = L /\ WordOf(z) = c
    BY <1>1
  <2> HIDE DEF z, v, L
  <2>3. Place(t, n + 1, 2) = WordOf(z)
    BY <1>8, <2>1, <2>2
  <2> QED BY <2>2, <2>3
<1>12. OneLonger(t, s, n, a, b, c)
  BY <1>5, <1>6, <1>7, <1>9, <1>10, <1>11 DEF OneLonger
<1> QED BY <1>12 DEF t, v, u, x, y, z

-----------------------------------------------------------------------------
(***************************************************************************)
(* The inductive invariant: the image holds one instruction for each       *)
(* statement read so far, and its words say what the statement says.       *)
(***************************************************************************)
TypeInv ==
    /\ lines \in Seq(Seq(Lexeme))
    /\ read \in 0 .. Len(lines)
    /\ bytes \in Seq(Byte)

OneEach == Len(bytes) = InstrLen * Len(Source)

AllSaid ==
    \A k \in 1 .. Len(Source) :
        Says(Source[k], WordIn(k, 0), WordIn(k, 1), WordIn(k, 2))

IInv == TypeInv /\ OneEach /\ AllSaid

LEMMA SourceType ==
  ASSUME TypeInv
  PROVE  Source \in Seq(Seq(Lexeme)) /\ Len(Source) \in Nat
<1>1. Source \in Seq(Seq(Lexeme))
  BY StatementsFacts DEF TypeInv, Source
<1> QED BY <1>1

LEMMA InitIInv == Init => IInv
<1> SUFFICES ASSUME Init PROVE IInv
  OBVIOUS
<1>1. TypeInv
  BY SourcesAssumption DEF Init, TypeInv
<1>2. Source = <<>>
  BY <1>1, StatementsFacts DEF Init, TypeInv, Source
<1>3. Len(bytes) = 0 /\ Len(Source) = 0
  BY <1>2 DEF Init
<1>4. OneEach
  BY <1>3, WordModFacts DEF OneEach
<1>5. AllSaid
  BY <1>3 DEF AllSaid
<1> QED BY <1>1, <1>4, <1>5 DEF IInv

\* The rest of the loop body: what assembleLine has added is one instruction
\* that says what the line says, or nothing.
LEMMA ReadLineIInv == ASSUME IInv, ReadLine PROVE IInv'
<1> DEFINE line == lines[read + 1]
           n    == Len(Source)
<1>1. /\ TypeInv /\ OneEach /\ AllSaid /\ n \in Nat
      /\ Source \in Seq(Seq(Lexeme))
  BY SourceType DEF IInv
<1>2. lines' = lines /\ read < Len(lines) /\ read + 1 \in 1 .. Len(lines)
  BY <1>1 DEF TypeInv, ReadLine
<1>3. line \in Seq(Lexeme)
  BY <1>1, <1>2, ElementOfSeq DEF TypeInv
<1>4. CASE AssembleLine(line) = Error
  <2>1. read' = read /\ bytes' = bytes
    BY <1>4 DEF ReadLine
  <2>2. TypeInv' /\ Source' = Source
    BY <1>1, <1>2, <2>1 DEF TypeInv, Source
  <2>3. OneEach' /\ AllSaid'
    BY <1>1, <2>1, <2>2 DEF OneEach, AllSaid, WordIn
  <2> QED BY <2>2, <2>3 DEF IInv
<1>5. CASE AssembleLine(line) # Error
  <2>1. read' = read + 1 /\ bytes' = bytes \o AssembleLine(line)
    BY <1>5 DEF ReadLine
  <2>2. Source' = IF Tokens(line) = <<>> THEN Source ELSE Append(Source, Tokens(line))
    <3>1. \A i \in 1 .. Len(lines) :
             Statements(lines)[i] = IF Tokens(lines[i]) = <<>> THEN Statements(lines)[i - 1]
                                    ELSE Append(Statements(lines)[i - 1], Tokens(lines[i]))
      BY <1>1, StatementsFacts DEF TypeInv
    <3>2. (read + 1) - 1 = read
      BY <1>1 DEF TypeInv
    <3> QED BY <1>2, <2>1, <3>1, <3>2 DEF Source
  <2>3. CASE Tokens(line) = <<>> /\ AssembleLine(line) = <<>>
    <3>1. bytes' = bytes /\ Source' = Source
      BY <1>1, <2>1, <2>2, <2>3 DEF TypeInv
    <3>2. TypeInv'
      BY <1>1, <1>2, <2>1, <3>1 DEF TypeInv
    <3>3. OneEach' /\ AllSaid'
      BY <1>1, <3>1 DEF OneEach, AllSaid, WordIn
    <3> QED BY <3>2, <3>3 DEF IInv
  <2>4. ASSUME Tokens(line) # <<>>,
               NEW a \in 0 .. WordMod - 1, NEW b \in 0 .. WordMod - 1,
               NEW c \in 0 .. WordMod - 1,
               AssembleLine(line) = BytesOf(a) \o BytesOf(b) \o BytesOf(c),
               Says(Tokens(line), a, b, c)
        PROVE  IInv'
    <3>1. /\ Source' = Append(Source, Tokens(line))
          /\ bytes' = bytes \o (BytesOf(a) \o BytesOf(b) \o BytesOf(c))
      BY <2>1, <2>2, <2>4
    <3>2. /\ bytes' \in Seq(Byte) /\ Len(bytes') = InstrLen * (n + 1)
          /\ \A k \in 1 .. n : \A j \in 0 .. 2 : Place(bytes', k, j) = Place(bytes, k, j)
          /\ Place(bytes', n + 1, 0) = a
          /\ Place(bytes', n + 1, 1) = b
          /\ Place(bytes', n + 1, 2) = c
      <4>1. bytes \in Seq(Byte) /\ Len(bytes) = InstrLen * n
        BY <1>1 DEF TypeInv, OneEach
      <4>n. n \in Nat
        BY <1>1
      <4> HIDE DEF n
      <4>2. OneLonger(bytes', bytes, n, a, b, c)
        BY <3>1, <4>n, <4>1, OneMore
      <4> QED BY <4>2 DEF OneLonger
    <3>3. /\ Len(Source') = n + 1
          /\ \A k \in 1 .. n : Source'[k] = Source[k]
          /\ Source'[n + 1] = Tokens(line)
      <4>1. Tokens(line) \in Seq(Lexeme)
        BY <1>3, TokensType
      <4> QED BY <1>1, <3>1, <4>1, AppendProperties
    <3>4. TypeInv'
      BY <1>1, <1>2, <2>1, <3>2 DEF TypeInv
    <3>5. OneEach'
      BY <3>2, <3>3 DEF OneEach
    <3>6. \A k, j : WordIn(k, j) = Place(bytes, k, j)
      BY DEF WordIn, Place
    <3>7. \A k, j : WordIn(k, j)' = Place(bytes', k, j)
      BY DEF WordIn, Place
    <3>8. AllSaid'
      <4> SUFFICES ASSUME NEW k \in 1 .. n + 1
                   PROVE  Says(Source'[k], Place(bytes', k, 0), Place(bytes', k, 1),
                               Place(bytes', k, 2))
        BY <3>3, <3>7 DEF AllSaid
      <4>1. CASE k = n + 1
        BY <2>4, <3>2, <3>3, <4>1
      <4>2. CASE k \in 1 .. n
        <5>1. Says(Source[k], Place(bytes, k, 0), Place(bytes, k, 1), Place(bytes, k, 2))
          BY <1>1, <3>6, <4>2 DEF AllSaid
        <5>2. \A j \in 0 .. 2 : Place(bytes', k, j) = Place(bytes, k, j)
          BY <3>2, <4>2
        <5>3. /\ Place(bytes', k, 0) = Place(bytes, k, 0)
              /\ Place(bytes', k, 1) = Place(bytes, k, 1)
              /\ Place(bytes', k, 2) = Place(bytes, k, 2)
          BY <5>2
        <5> QED BY <3>3, <4>2, <5>1, <5>3
      <4> QED BY <1>1, <4>1, <4>2
    <3> QED BY <3>4, <3>5, <3>8 DEF IInv
  <2> QED BY <1>3, <1>5, <2>3, <2>4, LineFacts
<1> QED BY <1>4, <1>5

LEMMA NextIInv == IInv /\ [Next]_vars => IInv'
<1> SUFFICES ASSUME IInv, [Next]_vars PROVE IInv'
  OBVIOUS
<1>1. CASE ReadLine
  BY <1>1, ReadLineIInv
<1>2. CASE EndOfFile \/ UNCHANGED vars
  <2>1. UNCHANGED <<lines, read, bytes>>
    BY <1>2 DEF EndOfFile, vars
  <2>2. TypeInv' /\ Source' = Source
    BY <2>1 DEF IInv, TypeInv, Source
  <2>3. OneEach' /\ AllSaid'
    BY <2>1, <2>2 DEF IInv, OneEach, AllSaid, WordIn
  <2> QED BY <2>2, <2>3 DEF IInv
<1> QED BY <1>1, <1>2 DEF Next

LEMMA InvariantHolds == Spec => []IInv
BY InitIInv, NextIInv, PTL DEF Spec

LEMMA InstructionsFacts ==
  ASSUME IInv
  PROVE  /\ Instructions = 1 .. Len(Source)
         /\ \A k \in Instructions :
              Says(Source[k], WordIn(k, 0), WordIn(k, 1), WordIn(k, 2))
<1>1. Len(bytes) = InstrLen * Len(Source) + 0 /\ Len(Source) \in Nat /\ InstrLen \in Nat \ {0}
  BY SourceType, WordModFacts DEF IInv, OneEach
<1>2. Len(bytes) \div InstrLen = Len(Source)
  <2> DEFINE n == Len(bytes)
             q == Len(Source)
  <2>1. n \in Int /\ q \in Int /\ 0 \in 0 .. InstrLen - 1
    BY <1>1
  <2>2. n = InstrLen * q + 0
    BY <1>1
  <2> HIDE DEF n, q
  <2>3. n \div InstrLen = q
    BY <1>1, <2>1, <2>2, DivModUnique
  <2> QED BY <2>3 DEF n, q
<1> QED BY <1>2 DEF Instructions, IInv, AllSaid

\* PROGRAM.CPP: every opcode in an assembled image is known to CPU::execute,
\* and what it takes for a register number passes checkReg, whatever was
\* in the file.
THEOREM CodeDecodesHolds == Spec => []CodeDecodes
<1>1. IInv => CodeDecodes
  BY InstructionsFacts DEF CodeDecodes, Says
<1> QED BY <1>1, InvariantHolds, PTL

\* PROGRAM.CPP with MMU::read32: the image holds the instructions of the file
\* one by one, in order, each with its opcode and with the numbers the text
\* gives, as far as a word can hold them.
THEOREM CodeMatchesSourceHolds == Spec => []CodeMatchesSource
<1>1. ASSUME IInv PROVE CodeMatchesSource
  <2>1. Len(bytes) = InstrLen * Len(Source)
    BY <1>1 DEF IInv, OneEach
  <2>2. ASSUME NEW k \in Instructions
        PROVE  LET t == Source[k] IN
               /\ WordIn(k, 0) \in 1 .. Len(Mnemonics)
               /\ <<"name", Mnemonics[WordIn(k, 0)]>> = t[1]
               /\ t[1][2] \notin NoOperand => Means(WordIn(k, 1), t[2])
               /\ t[1][2] \in RegImmediate \cup RegReg => Means(WordIn(k, 2), t[3])
    <3> DEFINE t == Source[k]
               m == Mnemonics[WordIn(k, 0)]
    <3>1. /\ WordIn(k, 0) \in 1 .. Len(Mnemonics)
          /\ t[1] = <<"name", m>>
          /\ m \notin NoOperand => Means(WordIn(k, 1), t[2])
          /\ m \in RegImmediate \cup RegReg => Means(WordIn(k, 2), t[3])
      BY <1>1, InstructionsFacts DEF Says
    <3>2. t[1][2] = m
      <4> HIDE DEF t, m
      <4> QED BY <3>1
    <3> QED BY <3>1, <3>2
  <2> QED BY <2>1, <2>2 DEF CodeMatchesSource
<1> QED BY <1>1, InvariantHolds, PTL

=============================================================================
