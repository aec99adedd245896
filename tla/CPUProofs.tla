----------------------------- MODULE CPUProofs -----------------------------
(***************************************************************************)
(* The CPU keeps its types, and the list of resident pages stays free of   *)
(* repetitions and of processes that have ended, for any programs that     *)
(* assemble, any number of processes and frames, any page and any size of  *)
(* a byte and a word.                                                      *)
(***************************************************************************)
EXTENDS CPU, AssemblerProofs

-----------------------------------------------------------------------------
(***************************************************************************)
(* Addresses.                                                              *)
(***************************************************************************)
LEMMA WordsAreInts == Words \subseteq Int
BY WordModFacts DEF Words

LEMMA Cast == ASSUME NEW n \in Int PROVE AsUint32(n) \in Words /\ AsInt32(n) \in Int
BY CastFacts DEF Words

LEMMA WordAtType ==
  ASSUME NEW a \in Int
  PROVE  WordAt(a) \in Seq(Words) /\ Len(WordAt(a)) = WordLen
<1>1. \A k \in 1 .. WordLen : AsUint32(a + k - 1) \in Words
  BY Cast
<1>2. WordLen \in Nat
  BY WordModFacts
<1> QED BY <1>1, <1>2 DEF WordAt

\* Somebody runs, and the types are right.
Running == TypeOK /\ active # NoProc

LEMMA RunningFacts ==
  ASSUME Running
  PROVE  /\ active \in Proc
         /\ cpu \in CPUState
         /\ cpu.ip \in Int /\ cpu.sp \in Int
         /\ cpu.ip \in Words /\ cpu.sp \in Words
         /\ cpu.regs \in [Reg \cup {15} -> Int]
         /\ \A a \in DOMAIN memory : memory[a] \in Byte
         /\ ip \in Words
<1>1. active \in Proc /\ cpu \in CPUState
  BY DEF Running, TypeOK
<1>2. /\ cpu.ip \in Words /\ cpu.sp \in Words
      /\ cpu.regs \in [Reg \cup {15} -> Int]
  BY <1>1 DEF CPUState
<1>3. \A a \in DOMAIN memory : memory[a] \in Byte
  BY <1>1 DEF Running, TypeOK, memory
<1>4. cpu.ip \in Int /\ cpu.sp \in Int
  BY <1>2, WordsAreInts
<1>5. ip \in Words
  <2>1. InstrLen \in Int
    BY WordModFacts
  <2>2. cpu.ip + InstrLen \in Int
    BY <1>4, <2>1
  <2> QED BY <2>2, Cast DEF ip
<1> QED BY <1>1, <1>2, <1>3, <1>4, <1>5

LEMMA FetchAtType ==
  ASSUME Running
  PROVE  FetchAt \in Seq(Words) /\ Len(FetchAt) = InstrLen
<1> DEFINE u == WordAt(cpu.ip)
           v == WordAt(cpu.ip + WordLen)
           w == WordAt(cpu.ip + 2 * WordLen)
<1>1. cpu.ip \in Int /\ cpu.ip + WordLen \in Int /\ cpu.ip + 2 * WordLen \in Int
  BY RunningFacts, WordModFacts
<1>2. /\ u \in Seq(Words) /\ v \in Seq(Words) /\ w \in Seq(Words)
      /\ Len(u) = WordLen /\ Len(v) = WordLen /\ Len(w) = WordLen
  BY <1>1, WordAtType
<1> HIDE DEF u, v, w
<1>3. u \o v \in Seq(Words) /\ Len(u \o v) = WordLen + WordLen
  <2>1. u \o v \in Seq(Words) /\ Len(u \o v) = Len(u) + Len(v)
    BY <1>2, ConcatProperties
  <2> QED BY <1>2, <2>1
<1>4. u \o v \o w \in Seq(Words) /\ Len(u \o v \o w) = WordLen + WordLen + WordLen
  <2>1. u \o v \o w \in Seq(Words) /\ Len(u \o v \o w) = Len(u \o v) + Len(w)
    BY <1>2, <1>3, ConcatProperties
  <2> QED BY <1>2, <1>3, <2>1
<1> QED BY <1>4, WordModFacts DEF InstrLen, FetchAt, u, v, w

-----------------------------------------------------------------------------
(***************************************************************************)
(* The instruction.                                                        *)
(***************************************************************************)
LEMMA FetchedType ==
  ASSUME Running, ~FetchRefused
  PROVE  /\ \A j \in 0 .. 2 : Fetched(j) \in Words
         /\ opA \in Words /\ opB \in Words
<1>1. ASSUME NEW j \in 0 .. 2 PROVE Fetched(j) \in Words
  <2> DEFINE f == [k \in 1 .. WordLen |-> memory[FetchAt[j * WordLen + k]]]
  <2>1. ASSUME NEW k \in 1 .. WordLen PROVE f[k] \in Byte
    <3>1. j * WordLen + k \in 1 .. InstrLen
      <4>1. j = 0 \/ j = 1 \/ j = 2
        OBVIOUS
      <4> QED BY <4>1, WordModFacts DEF InstrLen
    <3>2. FetchAt[j * WordLen + k] \in DOMAIN memory
      BY <3>1 DEF FetchRefused, Refused
    <3> QED BY <3>2, RunningFacts
  <2>2. f \in [1 .. WordLen -> Byte]
    <3>1. \A k \in 1 .. WordLen : f[k] = memory[FetchAt[j * WordLen + k]]
      OBVIOUS
    <3>2. f = [k \in 1 .. WordLen |-> f[k]]
      OBVIOUS
    <3> HIDE DEF f
    <3> QED BY <2>1, <3>2
  <2>3. Fetched(j) = WordOf(f)
    BY DEF Fetched
  <2> HIDE DEF f
  <2> QED BY <2>2, <2>3, WordOfBytes DEF Words
<1> QED BY <1>1 DEF opA, opB

LEMMA OperandsType ==
  ASSUME Running, Decodes
  PROVE  /\ Op \in RegisterA => RA \in Int
         /\ Op \in RegisterB => RA \in Int /\ RB \in Int
BY RunningFacts DEF Decodes, RA, RB, RegisterA

\* The instructions that read a word.
ReadsWord == {"movmr", "movmm", "printm", "callm"} \cup Pops

LEMMA ReadAtType ==
  ASSUME Running, Decodes
  PROVE  /\ ReadAt \in Seq(Words)
         /\ Op \in ReadsWord => Len(ReadAt) = WordLen
<1>1. CASE Op \in {"movmr", "movmm"}
  <2>1. ReadAt = WordAt(RB) /\ RB \in Int
    BY <1>1, OperandsType DEF ReadAt, RegisterB, Pops
  <2> QED BY <2>1, WordAtType
<1>2. CASE Op \in {"printm", "callm"}
  <2>1. ReadAt = WordAt(RA) /\ RA \in Int
    BY <1>2, OperandsType DEF ReadAt, RegisterA, Pops
  <2> QED BY <2>1, WordAtType
<1>3. CASE Op = "printcm"
  <2>1. ReadAt = <<AsUint32(RA)>> /\ RA \in Int
    BY <1>3, OperandsType DEF ReadAt, RegisterA, Pops
  <2>2. AsUint32(RA) \in Words
    BY <2>1, Cast
  <2>3. Op \notin ReadsWord
    BY <1>3 DEF ReadsWord, Pops
  <2> QED BY <2>1, <2>2, <2>3
<1>4. CASE Op \in Pops
  <2>1. ReadAt = WordAt(cpu.sp)
    BY <1>4 DEF ReadAt, Pops
  <2> QED BY <2>1, WordAtType, RunningFacts
<1>5. CASE Op \notin {"movmr", "movmm", "printm", "callm", "printcm"} \cup Pops
  <2>1. ReadAt = <<>> /\ Op \notin ReadsWord
    BY <1>5 DEF ReadAt, ReadsWord
  <2> QED BY <2>1
<1> QED BY <1>1, <1>2, <1>3, <1>4, <1>5

WritesWord == {"movrm", "movmm", "popm"} \cup Pushes

LEMMA WriteAtType ==
  ASSUME Running, Decodes
  PROVE  /\ WriteAt \in Seq(Words)
         /\ Op \in WritesWord => Len(WriteAt) = WordLen
         /\ Op \notin WritesWord => WriteAt = <<>>
<1>1. CASE Op \in {"movrm", "movmm", "popm"}
  <2>1. WriteAt = WordAt(RA) /\ RA \in Int /\ Op \in WritesWord
    BY <1>1, OperandsType DEF WriteAt, RegisterB, RegisterA, Pushes, WritesWord
  <2> QED BY <2>1, WordAtType
<1>2. CASE Op \in Pushes
  <2>1. WriteAt = WordAt(cpu.sp - WordLen) /\ Op \in WritesWord
    BY <1>2 DEF WriteAt, Pushes, WritesWord
  <2>2. cpu.sp - WordLen \in Int
    BY RunningFacts, WordModFacts
  <2> QED BY <2>1, <2>2, WordAtType
<1>3. CASE Op \notin WritesWord
  <2>1. WriteAt = <<>>
    BY <1>3 DEF WriteAt, WritesWord
  <2> QED BY <1>3, <2>1
<1> QED BY <1>1, <1>2, <1>3 DEF WritesWord

-----------------------------------------------------------------------------
(***************************************************************************)
(* The accesses, and how many of them are done.                            *)
(***************************************************************************)
\* Where among the accesses the word is read, and where it has been.
ReadFrom == InstrLen + IF Op = "callm" THEN Len(WriteAt) ELSE 0
ReadEnd  == ReadFrom + Len(ReadAt)

LEMMA AccessesFacts ==
  ASSUME Running
  PROVE  /\ Accesses \in Seq(Words)
         /\ \A k \in 1 .. InstrLen : Accesses[k] = FetchAt[k]
         /\ IF FetchRefused \/ ~Decodes THEN Len(Accesses) = InstrLen
            ELSE /\ Len(Accesses) = InstrLen + Len(ReadAt) + Len(WriteAt)
                 /\ \A k \in 1 .. Len(ReadAt) : Accesses[ReadFrom + k] = ReadAt[k]
<1> DEFINE u == FetchAt
           v == ReadAt
           w == WriteAt
<1>1. u \in Seq(Words) /\ Len(u) = InstrLen
  BY FetchAtType
<1>2. CASE FetchRefused \/ ~Decodes
  <2>1. Accesses = u
    BY <1>2 DEF Accesses
  <2> HIDE DEF u
  <2> QED BY <1>1, <1>2, <2>1 DEF u
<1>3. CASE ~FetchRefused /\ Decodes
  <2>1. v \in Seq(Words) /\ w \in Seq(Words)
    BY <1>3, ReadAtType, WriteAtType
  <2>2. Accesses = IF Op = "callm" THEN u \o w \o v ELSE u \o v \o w
    BY <1>3 DEF Accesses
  <2>3. ReadFrom = InstrLen + IF Op = "callm" THEN Len(w) ELSE 0
    BY DEF ReadFrom
  <2>4. InstrLen \in Nat /\ Len(v) \in Nat /\ Len(w) \in Nat
    BY <2>1, WordModFacts
  <2>5. \A k \in 1 .. InstrLen : FetchAt[k] = u[k]
    OBVIOUS
  <2>6. Len(ReadAt) = Len(v) /\ Len(WriteAt) = Len(w) /\ ReadAt = v
    OBVIOUS
  <2> HIDE DEF u, v, w
  <2>7. u \in Seq(Words)
    BY <1>1
  <2>8. CASE Op = "callm"
    <3> DEFINE x == u \o w \o v
    <3>1. /\ x \in Seq(Words)
          /\ Len(x) = Len(u) + Len(w) + Len(v)
          /\ \A k \in 1 .. Len(u) : x[k] = u[k]
          /\ \A k \in 1 .. Len(v) : x[Len(u) + Len(w) + k] = v[k]
      BY <2>1, <2>7, ThreeParts
    <3>2. Accesses = x /\ ReadFrom = InstrLen + Len(w)
      BY <2>2, <2>3, <2>8
    <3> HIDE DEF x
    <3> QED BY <1>1, <1>3, <2>4, <2>5, <2>6, <3>1, <3>2
  <2>9. CASE Op # "callm"
    <3> DEFINE x == u \o v \o w
    <3>1. /\ x \in Seq(Words)
          /\ Len(x) = Len(u) + Len(v) + Len(w)
          /\ \A k \in 1 .. Len(u) : x[k] = u[k]
          /\ \A k \in 1 .. Len(v) : x[Len(u) + k] = v[k]
      BY <2>1, <2>7, ThreeParts
    <3>2. Accesses = x /\ ReadFrom = InstrLen
      BY <2>2, <2>3, <2>4, <2>9
    <3> HIDE DEF x
    <3> QED BY <1>1, <1>3, <2>4, <2>5, <2>6, <3>1, <3>2
  <2> QED BY <2>8, <2>9
<1> QED BY <1>2, <1>3

\* All the accesses that are done have gone through; the next one is refused.
LEMMA DoneFacts ==
  ASSUME Running
  PROVE  /\ Len(Accesses) \in Nat
         /\ RefusedAt \in 0 .. Len(Accesses)
         /\ Done \in 0 .. Len(Accesses)
         /\ RefusedAt # 0 => Done = RefusedAt - 1 /\ Refused(Accesses[RefusedAt])
         /\ RefusedAt = 0 => Done = Len(Accesses)
         /\ \A k \in 1 .. Done : ~Refused(Accesses[k])
<1> DEFINE n == Len(Accesses)
           I == {k \in 1 .. n : Refused(Accesses[k])}
<1>1. n \in Nat
  BY AccessesFacts
<1>2. RefusedAt = IF I # {} THEN Min(I) ELSE 0
  BY DEF RefusedAt, SelectInSeq
<1>3. I \in SUBSET (1 .. n) /\ \A k \in 1 .. n : k \in I <=> Refused(Accesses[k])
  OBVIOUS
<1>4. Done = IF RefusedAt = 0 THEN n ELSE RefusedAt - 1
  BY DEF Done
<1> HIDE DEF n, I
<1>5. /\ (IF I # {} THEN Min(I) ELSE 0) \in 0 .. n
      /\ I # {} => Min(I) \in I /\ \A i \in I : Min(I) <= i
  BY <1>1, <1>3, FirstMatch
<1>6. CASE I = {}
  <2>1. RefusedAt = 0 /\ Done = n
    BY <1>2, <1>4, <1>6
  <2>2. \A k \in 1 .. n : ~Refused(Accesses[k])
    BY <1>3, <1>6
  <2> QED BY <1>1, <2>1, <2>2 DEF n
<1>7. CASE I # {}
  <2>1. RefusedAt \in I /\ \A i \in I : RefusedAt <= i
    BY <1>2, <1>5, <1>7
  <2>2. RefusedAt \in 1 .. n /\ Refused(Accesses[RefusedAt])
    BY <1>3, <2>1
  <2>3. Done = RefusedAt - 1
    BY <1>4, <2>2
  <2>4. ASSUME NEW k \in 1 .. Done PROVE ~Refused(Accesses[k])
    <3>1. k \in 1 .. n /\ k < RefusedAt
      BY <1>1, <2>2, <2>3
    <3>2. k \notin I
      BY <2>1, <2>2, <3>1
    <3> QED BY <1>3, <3>1, <3>2
  <2> QED BY <1>1, <2>2, <2>3, <2>4 DEF n
<1> QED BY <1>6, <1>7

\* An instruction that has been fetched is decoded; whatever is accessed after
\* that has an instruction behind it, and what is read of it lies in memory.
LEMMA ProgressFacts ==
  ASSUME Running
  PROVE  /\ Done >= InstrLen => ~FetchRefused
         /\ Done > InstrLen => Decodes
         /\ Completes => Decodes /\ ~FetchRefused /\ Done = Len(Accesses)
         /\ ~FetchRefused /\ Decodes /\ ReadEnd <= Done =>
              \A k \in 1 .. Len(ReadAt) : ReadAt[k] \in DOMAIN memory
<1>1. InstrLen \in Nat /\ Len(Accesses) \in Nat /\ Done \in 0 .. Len(Accesses)
  BY WordModFacts, DoneFacts
<1>2. ASSUME Done >= InstrLen PROVE ~FetchRefused
  <2>1. ASSUME NEW k \in 1 .. InstrLen PROVE ~Refused(FetchAt[k])
    <3>1. k \in 1 .. Done
      BY <1>1, <1>2
    <3> QED BY <3>1, AccessesFacts, DoneFacts
  <2> QED BY <2>1 DEF FetchRefused
<1>3. ASSUME Done > InstrLen PROVE Decodes
  BY <1>1, <1>3, AccessesFacts
<1>4. ASSUME Completes PROVE Decodes /\ ~FetchRefused /\ Done = Len(Accesses)
  <2>1. Decodes /\ Done = Len(Accesses)
    BY <1>4, DoneFacts DEF Completes
  <2>2. Done >= InstrLen
    <3>1. CASE FetchRefused
      BY <1>1, <2>1, <3>1, AccessesFacts
    <3>2. CASE ~FetchRefused
      <4>1. Len(Accesses) = InstrLen + Len(ReadAt) + Len(WriteAt)
        BY <2>1, <3>2, AccessesFacts
      <4>2. Len(ReadAt) \in Nat /\ Len(WriteAt) \in Nat
        BY <2>1, ReadAtType, WriteAtType
      <4> QED BY <1>1, <2>1, <4>1, <4>2
    <3> QED BY <3>1, <3>2
  <2> QED BY <1>2, <2>1, <2>2
<1>5. ASSUME ~FetchRefused, Decodes, ReadEnd <= Done, NEW k \in 1 .. Len(ReadAt)
      PROVE  ReadAt[k] \in DOMAIN memory
  <2>1. Len(ReadAt) \in Nat /\ Len(WriteAt) \in Nat
    BY <1>5, ReadAtType, WriteAtType
  <2>2. ReadFrom \in Nat
    BY <1>1, <2>1 DEF ReadFrom
  <2>3. ReadFrom + k \in 1 .. Done
    BY <1>1, <1>5, <2>1, <2>2 DEF ReadEnd
  <2>4. ~Refused(Accesses[ReadFrom + k])
    BY <2>3, DoneFacts
  <2>5. Accesses[ReadFrom + k] = ReadAt[k]
    BY <1>5, AccessesFacts
  <2> QED BY <2>4, <2>5 DEF Refused
<1> QED BY <1>2, <1>3, <1>4, <1>5

-----------------------------------------------------------------------------
(***************************************************************************)
(* What is written, and the stack pointer.                                 *)
(***************************************************************************)
LEMMA ReadWordType ==
  ASSUME Running, ~FetchRefused, Decodes, ReadEnd <= Done, Op \in ReadsWord
  PROVE  ReadWord \in Words
<1>1. ASSUME NEW k \in 1 .. WordLen PROVE memory[ReadAt[k]] \in Byte
  <2>1. k \in 1 .. Len(ReadAt)
    BY ReadAtType
  <2>2. ReadAt[k] \in DOMAIN memory
    BY <2>1, ProgressFacts
  <2> QED BY <2>2, RunningFacts
<1> DEFINE f == [k \in 1 .. WordLen |-> memory[ReadAt[k]]]
<1>2. f \in [1 .. WordLen -> Byte]
  BY <1>1
<1>3. ReadWord = WordOf(f)
  BY DEF ReadWord
<1> HIDE DEF f
<1> QED BY <1>2, <1>3, WordOfBytes DEF Words

\* The word to write is there when its first byte is written.
LEMMA WriteWordType ==
  ASSUME Running, ~FetchRefused, Decodes, Op \in WritesWord,
         Op # "callm" => ReadEnd <= Done
  PROVE  WriteWord \in Int
<1>1. CASE Op = "movrm"
  <2>1. WriteWord = AsUint32(RB) /\ RB \in Int
    BY <1>1, OperandsType DEF WriteWord, RegisterB
  <2> QED BY <2>1, Cast, WordsAreInts
<1>2. CASE Op = "pushr"
  <2>1. WriteWord = AsUint32(RA) /\ RA \in Int
    BY <1>2, OperandsType DEF WriteWord, RegisterA
  <2> QED BY <2>1, Cast, WordsAreInts
<1>3. CASE Op = "pushi"
  <2>1. WriteWord = opA
    BY <1>3 DEF WriteWord
  <2> QED BY <2>1, FetchedType, WordsAreInts
<1>4. CASE Op \in {"call", "callm"}
  <2>1. WriteWord = ip
    BY <1>4 DEF WriteWord
  <2> QED BY <2>1, RunningFacts, WordsAreInts
<1>5. CASE Op \in {"movmm", "popm"}
  <2>1. WriteWord = ReadWord /\ Op # "callm" /\ Op \in ReadsWord
    BY <1>5 DEF WriteWord, ReadsWord, Pops
  <2> QED BY <2>1, ReadWordType, WordsAreInts
<1> QED BY <1>1, <1>2, <1>3, <1>4, <1>5 DEF WritesWord, Pushes

LEMMA WrittenType ==
  ASSUME Running
  PROVE  DOMAIN Written = DOMAIN memory /\ \A a \in DOMAIN memory : Written[a] \in Byte
<1> DEFINE before == InstrLen + (IF Op = "callm" THEN 0 ELSE Len(ReadAt))
           k(a)   == SelectInSeq(WriteAt, LAMBDA x : x = a)
<1>1. CASE Done <= InstrLen
  <2>1. Written = memory
    BY <1>1 DEF Written
  <2> QED BY <2>1, RunningFacts
<1>2. CASE ~(Done <= InstrLen)
  <2>1. InstrLen \in Nat /\ Done \in Nat
    BY WordModFacts, DoneFacts
  <2>2. ~FetchRefused /\ Decodes
    BY <1>2, <2>1, ProgressFacts
  <2>3. /\ WriteAt \in Seq(Words) /\ Len(WriteAt) \in Nat
        /\ Op \in WritesWord => Len(WriteAt) = WordLen
        /\ Op \notin WritesWord => Len(WriteAt) = 0
    BY <2>2, WriteAtType
  <2>4. ASSUME NEW a PROVE k(a) \in 0 .. Len(WriteAt)
    <3> DEFINE I == {i \in 1 .. Len(WriteAt) : WriteAt[i] = a}
    <3>1. k(a) = IF I # {} THEN Min(I) ELSE 0
      BY DEF SelectInSeq
    <3>2. I \in SUBSET (1 .. Len(WriteAt))
      OBVIOUS
    <3> HIDE DEF I
    <3> QED BY <2>3, <3>1, <3>2, FirstMatch
  <2>5. before \in Nat /\ (Op # "callm" => ReadEnd = before)
    <3>1. Len(ReadAt) \in Nat
      BY <2>2, ReadAtType
    <3> QED BY <2>1, <3>1 DEF ReadEnd, ReadFrom
  <2>6. Written = [a \in DOMAIN memory |->
                     IF k(a) # 0 /\ before + k(a) <= Done THEN BytesOf(WriteWord)[k(a)]
                     ELSE memory[a]]
    BY <1>2 DEF Written
  <2> HIDE DEF k, before
  <2>7. ASSUME NEW a \in DOMAIN memory, k(a) # 0, before + k(a) <= Done
        PROVE  BytesOf(WriteWord)[k(a)] \in Byte
    <3>1. k(a) \in 1 .. WordLen /\ Op \in WritesWord
      BY <2>3, <2>4, <2>7, WordModFacts
    <3>2. Op # "callm" => ReadEnd <= Done
      BY <2>1, <2>5, <2>7, <3>1, WordModFacts
    <3>3. WriteWord \in Int
      BY <2>2, <3>1, <3>2, WriteWordType
    <3>4. BytesOf(WriteWord) \in [1 .. WordLen -> Byte]
      BY <3>3, BytesOfType
    <3> QED BY <3>1, <3>4
  <2> QED BY <2>6, <2>7, RunningFacts
<1> QED BY <1>1, <1>2

\* The pages that are marked are pages.
LEMMA DirtiedType == ASSUME Running PROVE Dirtied \subseteq Pages
<1>1. dirty \subseteq Pages /\ active \in Proc
  BY RunningFacts DEF Running, TypeOK
<1>2. CASE Done <= InstrLen
  BY <1>1, <1>2 DEF Dirtied
<1>3. CASE ~(Done <= InstrLen)
  <2>1. InstrLen \in Nat /\ Done \in Nat
    BY WordModFacts, DoneFacts
  <2>2. ~FetchRefused /\ Decodes
    BY <1>3, <2>1, ProgressFacts
  <2>3. WriteAt \in Seq(Words)
    BY <2>2, WriteAtType
  <2>4. ASSUME NEW k \in DOMAIN WriteAt PROVE <<active, PageOf(WriteAt[k])>> \in Pages
    <3>1. WriteAt[k] \in Words
      BY <2>3
    <3>2. PageOf(WriteAt[k]) \in Int
      BY <3>1, WordsAreInts, CPUAssumption, DivMod DEF PageOf
    <3> QED BY <1>1, <3>2 DEF Pages
  <2>5. ASSUME NEW x \in Dirtied PROVE x \in Pages
    <3>1. x \in dirty \/ \E k \in DOMAIN WriteAt : x = <<active, PageOf(WriteAt[k])>>
      BY <1>3, <2>5 DEF Dirtied
    <3> QED BY <1>1, <2>4, <3>1
  <2> QED BY <2>5
<1> QED BY <1>2, <1>3

LEMMA SpType == ASSUME Running PROVE Sp \in Words
<1>1. cpu.sp \in Words /\ cpu.sp - WordLen \in Int /\ cpu.sp + WordLen \in Int
  BY RunningFacts, WordModFacts
<1>2. AsUint32(cpu.sp - WordLen) \in Words /\ AsUint32(cpu.sp + WordLen) \in Words
  BY <1>1, Cast
<1> QED BY <1>1, <1>2 DEF Sp

-----------------------------------------------------------------------------
(***************************************************************************)
(* The registers after an instruction that went through.                   *)
(***************************************************************************)
LEMMA LoadedType ==
  ASSUME Running, Completes, Op \in ReadsWord
  PROVE  Loaded \in Words
<1>1. Decodes /\ ~FetchRefused /\ Done = Len(Accesses)
  BY ProgressFacts
<1>2. Len(ReadAt) = WordLen /\ Len(WriteAt) \in Nat /\ InstrLen \in Nat /\ WordLen \in Nat
  BY <1>1, ReadAtType, WriteAtType, WordModFacts
<1>3. ReadEnd <= Done
  <2>1. Len(Accesses) = InstrLen + Len(ReadAt) + Len(WriteAt)
    BY <1>1, AccessesFacts
  <2> QED BY <1>1, <1>2, <2>1 DEF ReadEnd, ReadFrom
<1>4. CASE Op # "callm"
  <2>1. Loaded = ReadWord
    BY <1>4 DEF Loaded
  <2> QED BY <1>1, <1>3, <2>1, ReadWordType
<1>5. CASE Op = "callm"
  <2> DEFINE f == [k \in 1 .. WordLen |-> Written[ReadAt[k]]]
  <2>1. ASSUME NEW k \in 1 .. WordLen PROVE Written[ReadAt[k]] \in Byte
    <3>1. ReadAt[k] \in DOMAIN memory
      BY <1>1, <1>2, <1>3, ProgressFacts
    <3> QED BY <3>1, WrittenType
  <2>2. f \in [1 .. WordLen -> Byte]
    BY <2>1
  <2>3. Loaded = WordOf(f)
    BY <1>5 DEF Loaded
  <2> HIDE DEF f
  <2> QED BY <2>2, <2>3, WordOfBytes DEF Words
<1> QED BY <1>4, <1>5

LEMMA RegsAfterType ==
  ASSUME Running, Completes
  PROVE  RegsAfter \in [Reg \cup {15} -> Int]
<1> DEFINE A(v) == [cpu.regs EXCEPT ![opA] = v]
<1>1. Decodes /\ ~FetchRefused
  BY ProgressFacts
<1>2. /\ cpu.regs \in [Reg \cup {15} -> Int]
      /\ opA \in Int /\ opB \in Int /\ AsInt32(opB) \in Int
  BY <1>1, RunningFacts, FetchedType, WordsAreInts, Cast
<1>3. ASSUME NEW v \in Int PROVE A(v) \in [Reg \cup {15} -> Int]
  BY <1>2, <1>3
<1> HIDE DEF A
<1>4. CASE Op = "movi"
  <2>1. RegsAfter = A(AsInt32(opB))
    BY <1>4 DEF RegsAfter, Immediates, A
  <2> QED BY <1>2, <1>3, <2>1
<1>5. CASE Op = "movr"
  <2>1. RegsAfter = A(RB) /\ RB \in Int
    BY <1>1, <1>5, OperandsType DEF RegsAfter, Immediates, RegisterB, A
  <2> QED BY <1>3, <2>1
<1>6. CASE Op \in {"movmr", "popr"}
  <2>1. Op \in ReadsWord
    BY <1>6 DEF ReadsWord, Pops
  <2>2. AsInt32(Loaded) \in Int
    BY <2>1, LoadedType, WordsAreInts, Cast
  <2>3. RegsAfter = A(AsInt32(Loaded))
    BY <1>6 DEF RegsAfter, Immediates, A
  <2> QED BY <1>3, <2>2, <2>3
<1>7. CASE Op = "incr"
  <2>1. RegsAfter = A(RA + 1)
    BY <1>7 DEF RegsAfter, Immediates, A
  <2>2. RA \in Int
    BY <1>1, <1>7, OperandsType DEF RegisterA
  <2>3. RA + 1 \in Int
    BY <2>2
  <2> QED BY <1>3, <2>1, <2>3
<1>8. CASE Op = "addi"
  <2>1. RegsAfter = A(RA + AsInt32(opB))
    BY <1>8 DEF RegsAfter, Immediates, A
  <2>2. RA \in Int
    BY <1>1, <1>8, OperandsType DEF RegisterA
  <2>3. RA + AsInt32(opB) \in Int
    BY <1>2, <2>2
  <2> QED BY <1>3, <2>1, <2>3
<1>9. CASE Op = "addr"
  <2>1. RegsAfter = A(RA + RB)
    BY <1>9 DEF RegsAfter, Immediates, A
  <2>2. RA \in Int /\ RB \in Int
    BY <1>1, <1>9, OperandsType DEF RegisterB
  <2>3. RA + RB \in Int
    BY <2>2
  <2> QED BY <1>3, <2>1, <2>3
<1>10. CASE Op \in Immediates
  <2>1. RegsAfter = [cpu.regs EXCEPT ![1] = opA]
    BY <1>10 DEF RegsAfter, Immediates
  <2> QED BY <1>2, <2>1
<1>11. CASE Op = "mapsharedmem"
  <2>1. RegsAfter = [cpu.regs EXCEPT ![15] = opB]
    BY <1>11 DEF RegsAfter, Immediates
  <2> QED BY <1>2, <2>1
<1>12. CASE Op \notin {"movi", "movr", "movmr", "popr", "incr", "addi", "addr",
                       "mapsharedmem"} \cup Immediates
  <2>1. RegsAfter = cpu.regs
    BY <1>12 DEF RegsAfter
  <2> QED BY <1>2, <2>1
<1> QED BY <1>4, <1>5, <1>6, <1>7, <1>8, <1>9, <1>10, <1>11, <1>12

LEMMA IpAfterType ==
  ASSUME Running, Completes
  PROVE  IpAfter \in Words
<1>1. Decodes /\ ~FetchRefused
  BY ProgressFacts
<1>2. /\ ip \in Words /\ ip \in Int
      /\ opA \in Words /\ AsInt32(opA) \in Int
  BY <1>1, RunningFacts, FetchedType, WordsAreInts, Cast
<1>3. CASE Op \in {"jmp", "jlt", "jgt", "je", "call"}
  <2>1. IpAfter \in {ip, AsUint32(ip + RA)} /\ RA \in Int
    BY <1>1, <1>3, OperandsType DEF IpAfter, RegisterA
  <2>2. ip + RA \in Int
    BY <1>2, <2>1
  <2> QED BY <1>2, <2>1, <2>2, Cast
<1>4. CASE Op \in {"jmpi", "jlti", "jgti", "jei"}
  <2>1. IpAfter \in {ip, AsUint32(ip + AsInt32(opA))}
    BY <1>4 DEF IpAfter
  <2>2. ip + AsInt32(opA) \in Int
    BY <1>2
  <2> QED BY <1>2, <2>1, <2>2, Cast
<1>5. CASE Op \in {"jmpa", "jlta", "jgta", "jea"}
  <2>1. IpAfter \in {ip, opA}
    BY <1>5 DEF IpAfter
  <2> QED BY <1>2, <2>1
<1>6. CASE Op \in {"callm", "ret"}
  <2>1. Loaded \in Words
    BY <1>6, LoadedType DEF ReadsWord, Pops
  <2>2. AsInt32(Loaded) \in Int
    BY <2>1, WordsAreInts, Cast
  <2>3. ip + AsInt32(Loaded) \in Int
    BY <1>2, <2>2
  <2>4. IpAfter \in {ip, Loaded, AsUint32(ip + AsInt32(Loaded))}
    BY <1>6 DEF IpAfter
  <2> QED BY <1>2, <2>1, <2>3, <2>4, Cast
<1>7. CASE Op \notin {"jmp", "jlt", "jgt", "je", "call", "jmpi", "jlti", "jgti", "jei",
                      "jmpa", "jlta", "jgta", "jea", "callm", "ret"}
  <2>1. IpAfter = ip
    BY <1>7 DEF IpAfter
  <2> QED BY <1>2, <2>1
<1> QED BY <1>3, <1>4, <1>5, <1>6, <1>7

LEMMA ExecutedType ==
  ASSUME Running, Completes
  PROVE  Executed \in CPUState
<1>1. opA \in Words /\ opB \in Words
  BY ProgressFacts, FetchedType
<1>2. cpu \in CPUState
  BY RunningFacts
<1>3. /\ Executed.regs \in [Reg \cup {15} -> Int]
      /\ Executed.ip \in Words /\ Executed.sp \in Words
  BY RegsAfterType, IpAfterType, SpType DEF Executed
<1>4. /\ cpu.zero \in BOOLEAN /\ cpu.sign \in BOOLEAN
      /\ cpu.trapA \in Words /\ cpu.trapB \in Words
  BY <1>2 DEF CPUState
<1>5. Executed.trapA \in Words /\ Executed.trapB \in Words
  BY <1>1, <1>4 DEF Executed
<1>6. Executed.zero \in BOOLEAN /\ Executed.sign \in BOOLEAN
  <2>1. (RA = Compared) \in BOOLEAN /\ (RA < Compared) \in BOOLEAN
    OBVIOUS
  <2>2. Executed.zero \in {RA = Compared, cpu.zero}
    BY DEF Executed
  <2>3. Executed.sign \in {RA < Compared, cpu.sign}
    BY DEF Executed
  <2> QED BY <1>4, <2>1, <2>2, <2>3
<1>7. Executed = [regs |-> Executed.regs, ip |-> Executed.ip, sp |-> Executed.sp,
                  zero |-> Executed.zero, sign |-> Executed.sign,
                  trapA |-> Executed.trapA, trapB |-> Executed.trapB]
  BY DEF Executed
<1> DEFINE e == Executed
<1>8. /\ e.regs \in [Reg \cup {15} -> Int] /\ e.ip \in Words /\ e.sp \in Words
      /\ e.zero \in BOOLEAN /\ e.sign \in BOOLEAN /\ e.trapA \in Words /\ e.trapB \in Words
      /\ e = [regs |-> e.regs, ip |-> e.ip, sp |-> e.sp, zero |-> e.zero,
              sign |-> e.sign, trapA |-> e.trapA, trapB |-> e.trapB]
  BY <1>3, <1>5, <1>6, <1>7
<1> HIDE DEF e
<1>9. e \in CPUState
  BY <1>8 DEF CPUState
<1> QED BY <1>9 DEF e

-----------------------------------------------------------------------------
(***************************************************************************)
(* The list of resident pages.                                             *)
(***************************************************************************)
LEMMA TouchFacts ==
  ASSUME NEW l \in Seq(Pages), NEW pg \in Pages
  PROVE  /\ Touch(pg)[l] \in Seq(Pages)
         /\ Len(Touch(pg)[l]) <= Len(l) + 1
         /\ Contains(l, pg) => Len(Touch(pg)[l]) <= Len(l)
         /\ \A x : Contains(Touch(pg)[l], x) <=> x = pg \/ Contains(l, x)
         /\ IsInjective(l) => IsInjective(Touch(pg)[l])
<1> DEFINE w == Without(l, {pg})
           t == <<pg>> \o w
<1>1. w \in Seq(Pages) /\ Filtered(w, l, {pg}, Pages, Len(l))
  BY WithoutFacts
<1> HIDE DEF w
<1>2. Len(w) \in Nat /\ Len(l) \in Nat /\ Len(w) <= Len(l)
  BY <1>1 DEF Filtered
<1>3. <<pg>> \in Seq(Pages) /\ Len(<<pg>>) = 1 /\ <<pg>>[1] = pg
  OBVIOUS
<1>4. /\ t \in Seq(Pages) /\ Len(t) = 1 + Len(w)
      /\ \A k \in 1 .. 1 : t[k] = <<pg>>[k]
      /\ \A k \in 1 .. Len(w) : t[1 + k] = w[k]
  <2> DEFINE v == <<pg>>
  <2>1. v \in Seq(Pages) /\ Len(v) = 1
    BY <1>3
  <2>2. v \in Seq(Pages) /\ w \in Seq(Pages)
    BY <1>1, <2>1
  <2> HIDE DEF v
  <2>3. /\ v \o w \in Seq(Pages) /\ Len(v \o w) = Len(v) + Len(w)
        /\ \A k \in 1 .. Len(v) : (v \o w)[k] = v[k]
        /\ \A k \in 1 .. Len(w) : (v \o w)[Len(v) + k] = w[k]
    BY <2>2, TwoParts
  <2> QED BY <2>1, <2>3 DEF v
<1>5. Touch(pg)[l] = t
  BY DEF Touch, w
<1> HIDE DEF t
<1>6. t[1] = pg
  BY <1>3, <1>4
<1>7. ASSUME Contains(l, pg) PROVE Len(t) <= Len(l)
  <2>1. \E i \in 1 .. Len(l) : l[i] \in {pg}
    BY <1>7 DEF Contains
  <2>2. Len(w) < Len(l)
    BY <1>1, <2>1 DEF Filtered
  <2> QED BY <1>2, <1>4, <2>2
<1>8. ASSUME NEW x, Contains(l, x) PROVE Contains(t, x)
  <2>1. PICK i \in 1 .. Len(l) : l[i] = x
    BY <1>8 DEF Contains
  <2>2. CASE x = pg
    <3>1. 1 \in 1 .. Len(t)
      BY <1>2, <1>4
    <3> QED BY <1>6, <2>2, <3>1 DEF Contains
  <2>3. CASE x # pg
    <3>1. PICK j \in 1 .. Len(w) : w[j] = x
      <4>1. l[i] \notin {pg}
        BY <2>1, <2>3
      <4> QED BY <1>1, <2>1, <4>1 DEF Filtered
    <3>2. 1 + j \in 1 .. Len(t) /\ t[1 + j] = x
      BY <1>2, <1>4, <3>1
    <3> QED BY <3>2 DEF Contains
  <2> QED BY <2>2, <2>3
<1>9. Len(t) <= Len(l) + 1
  BY <1>2, <1>4
<1>10. Contains(t, pg)
  <2>1. 1 \in 1 .. Len(t)
    BY <1>2, <1>4
  <2> QED BY <1>6, <2>1 DEF Contains
<1>11. ASSUME NEW x, Contains(w, x) PROVE x # pg /\ Contains(l, x)
  <2>1. PICK j \in 1 .. Len(w) : w[j] = x
    BY <1>11 DEF Contains
  <2>2. w[j] \notin {pg} /\ \E i \in 1 .. Len(l) : w[j] = l[i]
    BY <1>1 DEF Filtered
  <2> QED BY <2>1, <2>2 DEF Contains
<1>12. ASSUME NEW x, Contains(t, x) PROVE x = pg \/ Contains(l, x)
  <2>1. PICK k \in 1 .. Len(t) : t[k] = x
    BY <1>12 DEF Contains
  <2>2. CASE k = 1
    BY <1>6, <2>1, <2>2
  <2>3. CASE k # 1
    <3>1. k - 1 \in 1 .. Len(w) /\ 1 + (k - 1) = k
      BY <1>2, <1>4, <2>3
    <3>2. w[k - 1] = x
      BY <1>4, <2>1, <3>1
    <3>3. Contains(w, x)
      BY <3>1, <3>2 DEF Contains
    <3> QED BY <1>11, <3>3
  <2> QED BY <2>2, <2>3
<1>13. ASSUME IsInjective(l) PROVE IsInjective(t)
  <2> DEFINE v == <<pg>>
  <2>1. v \in Seq(Pages) /\ IsInjective(v) /\ \A x : Contains(v, x) => x = pg
    BY DEF IsInjective, Contains
  <2>2. IsInjective(w)
    BY <1>1, <1>13 DEF Filtered
  <2>3. t = v \o w
    BY DEF t
  <2> HIDE DEF v
  <2>4. IsInjective(v \o w)
    BY <1>1, <1>11, <2>1, <2>2, ConcatInjective
  <2> QED BY <2>3, <2>4
<1> QED BY <1>4, <1>5, <1>7, <1>8, <1>9, <1>10, <1>12, <1>13

\* What the done accesses make of the list: the same pages in another order.
Reordered(l) ==
    /\ l \in Seq(Pages) /\ Len(l) <= Len(lru)
    /\ \A x : Contains(lru, x) <=> Contains(l, x)
    /\ IsInjective(lru) => IsInjective(l)

LEMMA TouchedFacts == ASSUME Running PROVE Reordered(Touched)
<1> DEFINE n == Done
           step(k, l) == Touch(<<active, PageOf(Accesses[k])>>)[l]
           G == [x \in (1 .. n) \X Seq(Pages) |-> step(x[1], x[2])]
           Out(g) == g = [k \in 0 .. n |-> IF k = 0 THEN lru ELSE step(k, g[k - 1])]
<1>1. n \in Nat /\ n <= Len(Accesses) /\ Len(Accesses) \in Nat
  BY DoneFacts
<1>2. lru \in Seq(Pages) /\ Len(lru) \in Nat
  BY DEF Running, TypeOK
<1>3. ASSUME NEW k \in 1 .. n
      PROVE  /\ <<active, PageOf(Accesses[k])>> \in Pages
             /\ Contains(lru, <<active, PageOf(Accesses[k])>>)
  <2>1. k \in 1 .. Len(Accesses)
    BY <1>1
  <2>2. Accesses[k] \in Words
    BY <2>1, AccessesFacts, ElementOfSeq
  <2>3. PageOf(Accesses[k]) \in Int
    BY <2>2, WordsAreInts, CPUAssumption, DivMod DEF PageOf
  <2>4. ~Refused(Accesses[k])
    BY DoneFacts
  <2> QED BY <2>3, <2>4, RunningFacts DEF Pages, Refused
<1>4. \A k \in 1 .. n, l \in Seq(Pages) : step(k, l) \in Seq(Pages)
  BY <1>3, TouchFacts
<1>5. PICK f \in [0 .. n -> Seq(Pages)] : Out(f)
  <2> HIDE DEF n, step
  <2>1. G \in [(1 .. n) \X Seq(Pages) -> Seq(Pages)]
    BY <1>4
  <2> HIDE DEF G
  <2>2. Recursion(n, Seq(Pages), lru, G) # {}
    BY <1>1, <1>2, <2>1, FiniteRecursion
  <2>3. PICK f \in [0 .. n -> Seq(Pages)] :
           f[0] = lru /\ \A k \in 1 .. n : f[k] = G[<<k, f[k - 1]>>]
    BY <2>2 DEF Recursion
  <2>4. ASSUME NEW k \in 1 .. n PROVE f[k] = step(k, f[k - 1])
    <3>1. f[k - 1] \in Seq(Pages)
      BY <1>1
    <3>2. G[<<k, f[k - 1]>>] = step(k, f[k - 1])
      BY <3>1 DEF G
    <3> QED BY <2>3, <3>2
  <2>5. Out(f)
    BY <1>1, <2>3, <2>4
  <2> QED BY <2>5
<1>6. PICK g : Out(g) /\ Touched = g[n]
  <2> HIDE DEF G
  <2> QED BY ONLY <1>5, Zenon DEF Touched
<1> HIDE DEF n, G, step
<1>7. g[0] = lru /\ \A k \in 1 .. n : g[k] = step(k, g[k - 1])
  BY <1>1, <1>6
<1> DEFINE I == {k \in 0 .. n : Reordered(g[k])}
<1>8. 0 \in I
  BY <1>1, <1>2, <1>7 DEF Reordered
<1>9. ASSUME NEW k \in 1 .. n, k - 1 \in I PROVE k \in I
  <2> DEFINE l == g[k - 1]
             pg == <<active, PageOf(Accesses[k])>>
  <2>1. Reordered(l)
    BY <1>9
  <2>2. pg \in Pages /\ Contains(lru, pg)
    BY <1>3
  <2>3. g[k] = Touch(pg)[l]
    BY <1>7 DEF step
  <2> HIDE DEF l, pg
  <2>4. /\ Touch(pg)[l] \in Seq(Pages)
        /\ Contains(l, pg) => Len(Touch(pg)[l]) <= Len(l)
        /\ \A x : Contains(Touch(pg)[l], x) <=> x = pg \/ Contains(l, x)
        /\ IsInjective(l) => IsInjective(Touch(pg)[l])
    BY <2>1, <2>2, TouchFacts DEF Reordered
  <2>5. Len(l) \in Nat /\ Len(Touch(pg)[l]) \in Nat
    BY <2>1, <2>4 DEF Reordered
  <2>6. Len(Touch(pg)[l]) <= Len(lru)
    BY <1>2, <2>1, <2>2, <2>4, <2>5 DEF Reordered
  <2>7. \A x : Contains(lru, x) <=> Contains(Touch(pg)[l], x)
    BY <2>1, <2>2, <2>4 DEF Reordered
  <2>8. IsInjective(lru) => IsInjective(Touch(pg)[l])
    BY <2>1, <2>4 DEF Reordered
  <2>9. Reordered(Touch(pg)[l])
    BY ONLY <2>4, <2>6, <2>7, <2>8, Zenon DEF Reordered
  <2> QED BY <1>1, <2>3, <2>9
<1>10. 0 .. n \subseteq I
  <2> HIDE DEF I
  <2> QED BY <1>1, <1>8, <1>9, SetInduction
<1> QED BY <1>1, <1>6, <1>10

LEMMA FrontFacts ==
  ASSUME NEW l \in Seq(Pages)
  PROVE  /\ Front(l) \in Seq(Pages)
         /\ Len(Front(l)) = IF l = <<>> THEN 0 ELSE Len(l) - 1
         /\ \A x : Contains(Front(l), x) => Contains(l, x)
         /\ IsInjective(l) => IsInjective(Front(l))
<1> DEFINE f == Front(l)
<1>1. Len(l) \in Nat /\ (l = <<>> <=> Len(l) = 0) /\ DOMAIN l = 1 .. Len(l)
  OBVIOUS
<1>2. \A k \in 1 .. Len(l) - 1 : l[k] \in Pages
  BY <1>1, ElementOfSeq
<1>3. /\ f \in Seq(Pages)
      /\ Len(f) = IF l = <<>> THEN 0 ELSE Len(l) - 1
  BY <1>1, <1>2, SubSeqProperties DEF Front
<1>4. \A k \in 1 .. Len(f) : f[k] = l[k] /\ k \in 1 .. Len(l)
  <2> SUFFICES ASSUME NEW k \in 1 .. Len(f) PROVE f[k] = l[k] /\ k \in 1 .. Len(l)
    OBVIOUS
  <2>1. l # <<>> /\ k \in 1 .. Len(l) - 1
    <3> DEFINE n == Len(f)
               m == Len(l)
    <3>1. n = (IF l = <<>> THEN 0 ELSE m - 1) /\ k \in 1 .. n
      BY <1>3
    <3> HIDE DEF n, m
    <3>2. l # <<>>
      BY <3>1
    <3> QED BY <3>1, <3>2 DEF m
  <2>2. f[k] = l[k]
    BY <1>1, <1>2, <2>1, SubSeqProperties DEF Front
  <2> QED BY <1>1, <2>1, <2>2
<1> HIDE DEF f
<1>5. \A x : Contains(f, x) => Contains(l, x)
  BY <1>4 DEF Contains
<1>6. DOMAIN f = 1 .. Len(f)
  BY <1>3
<1>7. IsInjective(l) => IsInjective(f)
  BY <1>1, <1>4, <1>6 DEF IsInjective
<1> QED BY <1>3, <1>5, <1>7 DEF f

-----------------------------------------------------------------------------
(***************************************************************************)
(* The steps.                                                              *)
(***************************************************************************)
LEMMA AdvanceType ==
  ASSUME NEW c \in CPUState, NEW i \in Words, NEW s \in Words
  PROVE  [c EXCEPT !.ip = i, !.sp = s] \in CPUState
BY DEF CPUState

LEMMA SwitchOutType ==
  ASSUME Running, NEW c \in CPUState, SwitchOut(c)
  PROVE  /\ active' \in Proc \cup {NoProc}
         /\ cpu' \in CPUState
         /\ pcb' \in [Proc -> CPUState]
BY DEF SwitchOut, Running, TypeOK

LEMMA MemoryType ==
  ASSUME Running, NEW m, mem' = [mem EXCEPT ![active] = m],
         DOMAIN m = DOMAIN memory, \A a \in DOMAIN memory : m[a] \in Byte
  PROVE  /\ DOMAIN mem' = Proc
         /\ \A p \in Proc : \A a \in DOMAIN mem'[p] : mem'[p][a] \in Byte
<1>1. DOMAIN mem = Proc /\ \A p \in Proc : \A a \in DOMAIN mem[p] : mem[p][a] \in Byte
  BY DEF Running, TypeOK
<1>2. DOMAIN mem' = Proc /\ \A p \in Proc : mem'[p] = IF p = active THEN m ELSE mem[p]
  BY <1>1
<1> QED BY <1>1, <1>2

\* A page that is swapped in holds bytes, and no other page changes.
LEMMA SwappedInType ==
  ASSUME Running, NEW v
  PROVE  /\ DOMAIN SwappedIn(v, Written) = DOMAIN memory
         /\ \A a \in DOMAIN memory : SwappedIn(v, Written)[a] \in Byte
         /\ \A a \in DOMAIN memory :
               SwappedIn(v, Written)[a] =
                  IF <<active, v>> \notin disk /\ PageOf(a) = v THEN 0 ELSE Written[a]
<1>1. DOMAIN Written = DOMAIN memory /\ \A a \in DOMAIN memory : Written[a] \in Byte
  BY WrittenType
<1>2. 0 \in Byte
  BY WordModFacts DEF Byte
<1> QED BY <1>1, <1>2 DEF SwappedIn

LEMMA RequeueType ==
  ASSUME Running, ready' = Append(ready, active)
  PROVE  ready' \in Seq(Proc)
<1>1. ready \in Seq(Proc) /\ active \in Proc
  BY RunningFacts DEF Running, TypeOK
<1> QED BY <1>1, AppendProperties

\* No more pages than before.
LEMMA TouchedType ==
  ASSUME Running, lru' = Touched
  PROVE  lru' \in Seq(Pages) /\ Len(lru') <= NumFrames
<1>1. Reordered(Touched)
  BY TouchedFacts
<1>2. /\ lru' \in Seq(Pages) /\ Len(lru') <= Len(lru)
      /\ Len(lru') \in Nat /\ Len(lru) \in Nat
      /\ Len(lru) <= NumFrames /\ NumFrames \in Nat
  BY <1>1, CPUAssumption DEF Reordered, Running, TypeOK
<1> QED BY <1>2

LEMMA SwitchToType == ASSUME TypeOK, SwitchTo PROVE TypeOK'
<1>1. Head(ready) \in Proc /\ Tail(ready) \in Seq(Proc)
  BY HeadTailProperties DEF TypeOK, SwitchTo
<1>2. pcb[Head(ready)] \in CPUState
  BY <1>1 DEF TypeOK
<1>3. cpu' \in CPUState
  BY <1>2 DEF SwitchTo, LoadFrom, TypeOK, CPUState
<1>4. steps' \in 0 .. Quantum
  BY CPUAssumption DEF SwitchTo
<1> QED BY <1>1, <1>3, <1>4 DEF SwitchTo, TypeOK

LEMMA QuantumExpiredType == ASSUME TypeOK, QuantumExpired PROVE TypeOK'
<1>1. Running /\ cpu \in CPUState
  BY DEF QuantumExpired, Running, TypeOK
<1>2. SwitchOut(cpu) /\ ready' = Append(ready, active)
  BY DEF QuantumExpired
<1>3. /\ active' \in Proc \cup {NoProc} /\ cpu' \in CPUState
      /\ pcb' \in [Proc -> CPUState]
  BY <1>1, <1>2, SwitchOutType
<1>4. ready' \in Seq(Proc)
  BY <1>1, <1>2, RequeueType
<1> QED BY <1>3, <1>4 DEF QuantumExpired, TypeOK

LEMMA ExecuteType == ASSUME TypeOK, Execute PROVE TypeOK'
<1>1. Running /\ Completes
  BY DEF Execute, Running
<1>2. cpu' \in CPUState
  BY <1>1, ExecutedType DEF Execute
<1>3. /\ DOMAIN mem' = Proc
      /\ \A p \in Proc : \A a \in DOMAIN mem'[p] : mem'[p][a] \in Byte
  BY <1>1, WrittenType, MemoryType DEF Execute
<1>4. lru' \in Seq(Pages) /\ Len(lru') <= NumFrames
  BY <1>1, TouchedType DEF Execute
<1>5. steps' \in 0 .. Quantum
  BY CPUAssumption DEF Execute, TypeOK
<1>6. UNCHANGED <<active, ready, status, pcb, disk, taken>>
  BY DEF Execute
<1>7. dirty' \subseteq Pages
  BY <1>1, DirtiedType DEF Execute
<1> QED BY <1>2, <1>3, <1>4, <1>5, <1>6, <1>7 DEF TypeOK

LEMMA AnswersType ==
  ASSUME NEW t, NEW e \in CPUState, NEW c \in Answers(t, e)
  PROVE  c \in CPUState
<1>1. ASSUME NEW k, NEW r \in Returns PROVE [e EXCEPT !.regs[k] = r] \in CPUState
  <2>1. r \in Int
    BY CPUAssumption
  <2> QED BY <2>1 DEF CPUState
<1>2. CASE t = "alloc"
  <2>1. c \in {[e EXCEPT !.regs[e.trapB] = r] : r \in Returns}
    BY <1>2 DEF Answers
  <2> QED BY <1>1, <2>1
<1>3. CASE t = "mapsharedmem"
  <2> DEFINE k == e.regs[15]
  <2>1. c \in {[e EXCEPT !.regs[k] = r] : r \in Returns} \cup {e}
    BY <1>3 DEF Answers
  <2> HIDE DEF k
  <2>2. CASE c = e
    BY <2>2
  <2>3. CASE c # e
    <3>1. PICK r \in Returns : c = [e EXCEPT !.regs[k] = r]
      BY <2>1, <2>3
    <3> QED BY <1>1, <3>1
  <2> QED BY <2>2, <2>3
<1>4. CASE t \notin {"alloc", "mapsharedmem"}
  <2>1. c = e
    BY <1>4 DEF Answers
  <2> QED BY <2>1
<1> QED BY <1>2, <1>3, <1>4

LEMMA TrapToOSType == ASSUME TypeOK, TrapToOS PROVE TypeOK'
<1>1. Running /\ Completes
  BY DEF TrapToOS, Running
<1>2. PICK c \in Answers(TrapOf[Op], Executed) : SwitchOut(c)
  BY DEF TrapToOS
<1>3. c \in CPUState
  BY <1>1, <1>2, ExecutedType, AnswersType
<1>4. /\ active' \in Proc \cup {NoProc} /\ cpu' \in CPUState
      /\ pcb' \in [Proc -> CPUState]
  BY <1>1, <1>2, <1>3, SwitchOutType
<1>5. lru' \in Seq(Pages) /\ Len(lru') <= NumFrames
  BY <1>1, TouchedType DEF TrapToOS
<1>6. /\ ready' \in Seq(Proc)
      /\ status' \in [Proc -> {"ready", "waiting", "dead"}]
  <2>1. \/ ready' = Append(ready, active) /\ status' = status
        \/ ready' = ready /\ status' = [status EXCEPT ![active] = "waiting"]
    BY DEF TrapToOS
  <2> QED BY <1>1, <2>1, RequeueType DEF TypeOK
<1>7. UNCHANGED <<steps, mem, dirty, disk, taken>>
  BY DEF TrapToOS
<1> QED BY <1>4, <1>5, <1>6, <1>7 DEF TypeOK

\* The page that is missing, and what bringing it in changes.
Missing == PageOf(Accesses[RefusedAt])

LEMMA MissingFacts ==
  ASSUME Running, Faults
  PROVE  /\ Missing \in Int /\ <<active, Missing>> \in Pages
         /\ Accesses[RefusedAt] \in DOMAIN memory
         /\ ~Contains(lru, <<active, Missing>>)
<1>1. RefusedAt \in 1 .. Len(Accesses) /\ Refused(Accesses[RefusedAt])
  BY DoneFacts DEF Faults
<1>2. Accesses[RefusedAt] \in Words
  BY <1>1, AccessesFacts, ElementOfSeq
<1>3. Missing \in Int
  BY <1>2, WordsAreInts, CPUAssumption, DivMod DEF PageOf, Missing
<1> QED BY <1>1, <1>3, RunningFacts DEF Pages, Faults, Refused, Missing

LEMMA PageFaultIs ==
  ASSUME PageFault
  PROVE  /\ mem' = [mem EXCEPT ![active] = SwappedIn(Missing, Written)]
         /\ lru' = Touch(<<active, Missing>>)
                       [IF Len(lru) < NumFrames THEN Touched ELSE Evicted(Touched)]
         /\ dirty' = Dirtied \ {<<active, Missing>>}
         /\ \A x \in disk' : x \in disk \/ x \in Dirtied
<1>1. PICK v \in {PageOf(Accesses[RefusedAt])}, m \in {Written}, l \in {Touched} :
         /\ mem' = [mem EXCEPT ![active] = SwappedIn(v, m)]
         /\ lru' = BroughtIn(<<active, v>>, IF Len(lru) < NumFrames THEN l ELSE Evicted(l))
         /\ disk' = (IF Len(lru) < NumFrames THEN disk ELSE disk \cup Saved(l, Dirtied))
                       \ {<<active, v>>}
         /\ dirty' = Dirtied \ {<<active, v>>}
  BY DEF PageFault
<1>2. v = Missing /\ m = Written /\ l = Touched
  BY DEF Missing
<1> QED BY <1>1, <1>2 DEF BroughtIn, Saved

LEMMA PageFaultType == ASSUME TypeOK, PageFault PROVE TypeOK'
<1>1. Running /\ Faults
  BY DEF PageFault, Running
<1>2. [cpu EXCEPT !.ip = RestartIP, !.sp = Sp] \in CPUState
  BY <1>1, RunningFacts, SpType, AdvanceType DEF RestartIP
<1>3. /\ active' \in Proc \cup {NoProc} /\ cpu' \in CPUState
      /\ pcb' \in [Proc -> CPUState]
  BY <1>1, <1>2, SwitchOutType DEF PageFault
<1>4. /\ DOMAIN mem' = Proc
      /\ \A p \in Proc : \A a \in DOMAIN mem'[p] : mem'[p][a] \in Byte
  BY <1>1, PageFaultIs, SwappedInType, MemoryType
<1>5. ready' \in Seq(Proc)
  BY <1>1, RequeueType DEF PageFault
<1>6. lru' \in Seq(Pages) /\ Len(lru') <= NumFrames
  <2> DEFINE pg == <<active, Missing>>
             l  == IF Len(lru) < NumFrames THEN Touched ELSE Evicted(Touched)
  <2>1. pg \in Pages
    BY <1>1, MissingFacts
  <2>2. /\ Touched \in Seq(Pages) /\ Len(Touched) \in Nat
        /\ Len(Touched) <= Len(lru) /\ Len(lru) \in Nat /\ Len(lru) <= NumFrames
        /\ NumFrames \in Nat \ {0}
    BY <1>1, TouchedFacts, CPUAssumption DEF Reordered, TypeOK
  <2>3. l \in Seq(Pages) /\ Len(l) <= NumFrames - 1
    <3>1. CASE Len(lru) < NumFrames
      BY <2>2, <3>1
    <3>2. CASE ~(Len(lru) < NumFrames)
      <4>1. Front(Touched) \in Seq(Pages)
        BY <2>2, FrontFacts
      <4>2. Len(Front(Touched)) <= NumFrames - 1
        BY <2>2, FrontFacts
      <4> QED BY <3>2, <4>1, <4>2 DEF Evicted
    <3> QED BY <3>1, <3>2
  <2>4. lru' = Touch(pg)[l]
    BY PageFaultIs
  <2> HIDE DEF l, pg
  <2>5. Touch(pg)[l] \in Seq(Pages) /\ Len(Touch(pg)[l]) <= Len(l) + 1
    BY <2>1, <2>3, TouchFacts
  <2>6. Len(Touch(pg)[l]) \in Nat /\ Len(l) \in Nat
    BY <2>3, <2>5
  <2> QED BY <2>2, <2>3, <2>4, <2>5, <2>6
<1>7. dirty' \subseteq Pages /\ disk' \subseteq Pages
  <2>1. disk \subseteq Pages /\ Dirtied \subseteq Pages
    BY <1>1, DirtiedType DEF TypeOK
  <2> QED BY <2>1, PageFaultIs
<1>8. UNCHANGED <<steps, status, taken>>
  BY DEF PageFault
<1> QED BY <1>3, <1>4, <1>5, <1>6, <1>7, <1>8 DEF TypeOK

LEMMA TerminateType == ASSUME TypeOK, Terminate PROVE TypeOK'
<1>1. Running
  BY DEF Terminate, Running
<1> DEFINE i == IF Done < InstrLen THEN cpu.ip ELSE ip
<1>2. i \in Words /\ Sp \in Words /\ cpu \in CPUState
  BY <1>1, RunningFacts, SpType
<1>3. /\ active' \in Proc \cup {NoProc} /\ cpu' \in CPUState
      /\ pcb' \in [Proc -> CPUState]
  <2>1. SwitchOut([cpu EXCEPT !.ip = i, !.sp = Sp])
    BY DEF Terminate
  <2> HIDE DEF i
  <2>2. [cpu EXCEPT !.ip = i, !.sp = Sp] \in CPUState
    BY <1>2, AdvanceType
  <2> QED BY <1>1, <2>1, <2>2, SwitchOutType
<1>4. /\ DOMAIN mem' = Proc
      /\ \A p \in Proc : \A a \in DOMAIN mem'[p] : mem'[p][a] \in Byte
  BY <1>1, WrittenType, MemoryType DEF Terminate
<1>5. lru' \in Seq(Pages) /\ Len(lru') <= NumFrames
  <2> DEFINE X == {x \in ToSet(lru) : x[1] = active}
  <2>1. lru \in Seq(Pages) /\ Len(lru) \in Nat /\ Len(lru) <= NumFrames
        /\ NumFrames \in Nat
    BY CPUAssumption DEF TypeOK
  <2>2. lru' = Without(lru, X)
    BY DEF Terminate
  <2> HIDE DEF X
  <2>3. Without(lru, X) \in Seq(Pages) /\ Len(Without(lru, X)) <= Len(lru)
    BY <2>1, WithoutFacts DEF Filtered
  <2>4. Len(Without(lru, X)) \in Nat
    BY <2>3
  <2> QED BY <2>1, <2>2, <2>3, <2>4
<1>6. status' \in [Proc -> {"ready", "waiting", "dead"}]
  BY DEF Terminate, TypeOK
<1>7. UNCHANGED <<steps, ready, taken>>
  BY DEF Terminate
<1>8. dirty' \subseteq Pages /\ disk' \subseteq Pages
  BY DEF Terminate, TypeOK
<1> QED BY <1>3, <1>4, <1>5, <1>6, <1>7, <1>8 DEF TypeOK

LEMMA WakeType == ASSUME TypeOK, NEW p \in Proc, Wake(p) PROVE TypeOK'
<1>1. ready' \in Seq(Proc)
  BY AppendProperties DEF Wake, TypeOK
<1>2. status' \in [Proc -> {"ready", "waiting", "dead"}]
  BY DEF Wake, TypeOK
<1> QED BY <1>1, <1>2 DEF Wake, TypeOK

LEMMA OutsiderFaultsType == ASSUME TypeOK, OutsiderFaults PROVE TypeOK'
<1>1. /\ lru \in Seq(Pages) /\ lru # <<>> /\ lru' = Front(lru)
      /\ Len(lru) \in Nat /\ Len(lru) <= NumFrames /\ NumFrames \in Nat
  BY CPUAssumption DEF OutsiderFaults, Evicted, TypeOK
<1>2. lru' \in Seq(Pages) /\ Len(lru') = Len(lru) - 1
  BY <1>1, FrontFacts
<1>3. lru' \in Seq(Pages) /\ Len(lru') <= NumFrames
  BY <1>1, <1>2
<1>4. dirty' \subseteq Pages /\ disk' \subseteq Pages
  BY DEF OutsiderFaults, Saved, TypeOK
<1>5. taken' \in 0 .. Outsiders
  BY CPUAssumption DEF OutsiderFaults, TypeOK
<1> QED BY <1>3, <1>4, <1>5 DEF OutsiderFaults, TypeOK

-----------------------------------------------------------------------------
(***************************************************************************)
(* The first state.                                                        *)
(***************************************************************************)
\* What the assembler makes of a line, and of a program, are bytes.
LEMMA LineType ==
  ASSUME NEW line \in Seq(Lexeme), AssembleLine(line) # Error
  PROVE  AssembleLine(line) \in Seq(Byte)
<1>1. CASE AssembleLine(line) = <<>>
  BY <1>1
<1>2. CASE AssembleLine(line) # <<>>
  <2>1. PICK a, b, c \in 0 .. WordMod - 1 :
           AssembleLine(line) = BytesOf(a) \o BytesOf(b) \o BytesOf(c)
    BY <1>2, LineFacts
  <2>2. \A w \in 0 .. WordMod - 1 : BytesOf(w) \in Seq(Byte)
    <3>1. ASSUME NEW w \in 0 .. WordMod - 1 PROVE BytesOf(w) \in Seq(Byte)
      <4>1. BytesOf(w) \in [1 .. WordLen -> Byte]
        BY BytesOfType
      <4> QED BY <4>1, WordModFacts
    <3> QED BY <3>1
  <2> DEFINE u == BytesOf(a)
             v == BytesOf(b)
             w == BytesOf(c)
  <2>3. u \in Seq(Byte) /\ v \in Seq(Byte) /\ w \in Seq(Byte)
    BY <2>2
  <2>4. AssembleLine(line) = u \o v \o w
    BY <2>1
  <2> HIDE DEF u, v, w
  <2> QED BY <2>3, <2>4, ThreeParts
<1> QED BY <1>1, <1>2

LEMMA ImageType ==
  ASSUME NEW src \in Programs
  PROVE  Image(src) \in Seq(Byte)
<1> DEFINE n  == Len(src)
           ls == [k \in 1 .. n |-> AssembleLine(src[k])]
<1>1. src \in Seq(Seq(Lexeme)) /\ n \in Nat
  BY ProgramsAssumption
<1>2. ASSUME NEW k \in 1 .. n PROVE AssembleLine(src[k]) \in Seq(Byte)
  <2>1. src[k] \in Seq(Lexeme) /\ AssembleLine(src[k]) # Error
    BY <1>1, ProgramsAssumption, ElementOfSeq
  <2> QED BY <2>1, LineType
<1>3. ls \in Seq(Seq(Byte))
  <2> HIDE DEF n
  <2> QED BY <1>1, <1>2
<1>4. Image(src) = FlattenSeq(ls)
  BY DEF Image
<1> HIDE DEF ls
<1> QED BY <1>3, <1>4, FlattenType

LEMMA NewPCBType == NewPCB \in CPUState
<1>1. CodeBase \in Words /\ StackTop \in Words /\ 0 \in Words
  BY CPUAssumption, WordModFacts DEF Words
<1> QED BY <1>1 DEF NewPCB, CPUState

LEMMA CodePagesType ==
  ASSUME NEW p \in Proc, Len(Image(source[p])) \in Nat
  PROVE  CodePages(p) \in Seq(Pages)
<1> DEFINE first == PageOf(CodeBase)
           last  == PageOf(CodeBase + Len(Image(source[p])) - 1)
           n     == last - first + 1
<1>1. CodeBase \in Int
  BY CPUAssumption, WordsAreInts
<1>2. first \in Int /\ last \in Int
  BY <1>1, CPUAssumption, DivMod DEF PageOf
<1>3. CodePages(p) = [k \in 1 .. n |-> <<p, first + k - 1>>]
  BY DEF CodePages
<1> HIDE DEF first, last
<1>4. \A k \in 1 .. n : <<p, first + k - 1>> \in Pages
  BY <1>2 DEF Pages
<1>5. n \in Int
  BY <1>2
<1> HIDE DEF n
<1>6. CASE n >= 0
  BY <1>3, <1>4, <1>5, <1>6
<1>7. CASE n < 0
  <2>1. 1 .. n = 1 .. 0
    BY <1>5, <1>7
  <2>2. CodePages(p) = [k \in 1 .. 0 |-> <<p, first + k - 1>>]
    BY <1>3, <2>1
  <2> QED BY <2>2
<1> QED BY <1>5, <1>6, <1>7

LEMMA ReverseFacts ==
  ASSUME NEW S, NEW s \in Seq(S)
  PROVE  /\ Reverse(s) \in Seq(S)
         /\ IsInjective(s) => IsInjective(Reverse(s))
<1>1. Len(s) \in Nat
  OBVIOUS
<1>2. ASSUME NEW k \in 1 .. Len(s) PROVE s[(Len(s) - k) + 1] \in S
  <2>1. (Len(s) - k) + 1 \in 1 .. Len(s)
    BY <1>1
  <2> QED BY <2>1, ElementOfSeq
<1>3. Reverse(s) \in Seq(S)
  BY <1>1, <1>2 DEF Reverse
<1>4. ASSUME IsInjective(s) PROVE IsInjective(Reverse(s))
  <2>1. DOMAIN s = 1 .. Len(s) /\ DOMAIN Reverse(s) = 1 .. Len(s)
    BY <1>1 DEF Reverse
  <2>2. ASSUME NEW a \in 1 .. Len(s), NEW b \in 1 .. Len(s),
               Reverse(s)[a] = Reverse(s)[b]
        PROVE  a = b
    <3>1. s[(Len(s) - a) + 1] = s[(Len(s) - b) + 1]
      BY <2>2 DEF Reverse
    <3>2. (Len(s) - a) + 1 \in 1 .. Len(s) /\ (Len(s) - b) + 1 \in 1 .. Len(s)
      BY <1>1
    <3>3. (Len(s) - a) + 1 = (Len(s) - b) + 1
      BY <1>4, <2>1, <3>1, <3>2 DEF IsInjective
    <3> QED BY <1>1, <3>3
  <2> QED BY <2>1, <2>2 DEF IsInjective
<1> QED BY <1>3, <1>4

LEMMA InitType == ASSUME Init PROVE TypeOK
<1>1. /\ NumProcs \in Nat \ {0} /\ Quantum \in Nat \ {0} /\ 1 \in Proc
  BY CPUAssumption DEF Proc
<1>2. \A p \in Proc : Image(source[p]) \in Seq(Byte)
  BY ImageType DEF Init
<1>3. pcb \in [Proc -> CPUState] /\ cpu \in CPUState
  BY <1>1, NewPCBType DEF Init
<1>4. ready \in Seq(Proc)
  BY <1>1 DEF Init, Proc
<1>5. DOMAIN mem = Proc
  BY DEF Init
<1>6. ASSUME NEW p \in Proc, NEW a \in DOMAIN mem[p] PROVE mem[p][a] \in Byte
  <2> DEFINE code == Image(source[p])
             C    == CodeBase .. CodeBase + Len(code) - 1
  <2>1. mem[p] = [x \in C \cup Others |-> IF x \in Others THEN 0 ELSE code[x - CodeBase + 1]]
    BY DEF Init
  <2>2. code \in Seq(Byte) /\ Len(code) \in Nat /\ CodeBase \in Int
    BY <1>2, CPUAssumption, WordsAreInts
  <2> HIDE DEF code
  <2>3. 0 \in Byte
    BY WordModFacts DEF Byte
  <2>4. ASSUME a \notin Others PROVE code[a - CodeBase + 1] \in Byte
    <3>1. a \in C
      BY <2>1, <2>4
    <3>2. a - CodeBase + 1 \in 1 .. Len(code)
      BY <2>2, <3>1
    <3> QED BY <2>2, <3>2, ElementOfSeq
  <2> QED BY <2>1, <2>3, <2>4
<1>7. lru \in Seq(Pages) /\ Len(lru) <= NumFrames
  <2> DEFINE cs == [p \in Proc |-> CodePages(p)]
  <2>1. ASSUME NEW p \in Proc PROVE CodePages(p) \in Seq(Pages)
    <3>1. Len(Image(source[p])) \in Nat
      BY <1>2
    <3> QED BY <3>1, CodePagesType
  <2>2. cs \in Seq(Seq(Pages))
    BY <1>1, <2>1 DEF Proc
  <2>3. lru = Reverse(FlattenSeq(cs)) /\ Len(lru) <= NumFrames
    BY DEF Init
  <2> HIDE DEF cs
  <2>4. lru \in Seq(Pages)
    BY <2>2, <2>3, FlattenType, ReverseFacts
  <2> QED BY <2>3, <2>4
<1>8. /\ active \in Proc \cup {NoProc} /\ steps \in 0 .. Quantum
      /\ status \in [Proc -> {"ready", "waiting", "dead"}]
  BY <1>1 DEF Init
<1>9. dirty \subseteq Pages /\ disk \subseteq Pages /\ taken \in 0 .. Outsiders
  <2>1. ToSet(lru) \subseteq Pages
    BY <1>7 DEF ToSet
  <2> QED BY <2>1, CPUAssumption DEF Init
<1> QED BY <1>3, <1>4, <1>5, <1>6, <1>7, <1>8, <1>9 DEF TypeOK

-----------------------------------------------------------------------------
LEMMA TypeStep == ASSUME TypeOK, [Next]_vars PROVE TypeOK'
<1>1. CASE SwitchTo
  BY <1>1, SwitchToType
<1>2. CASE QuantumExpired
  BY <1>2, QuantumExpiredType
<1>3. CASE Execute
  BY <1>3, ExecuteType
<1>4. CASE TrapToOS
  BY <1>4, TrapToOSType
<1>5. CASE PageFault
  BY <1>5, PageFaultType
<1>6. CASE Terminate
  BY <1>6, TerminateType
<1>7. CASE OutsiderFaults
  BY <1>7, OutsiderFaultsType
<1>8. ASSUME NEW p \in Proc, Wake(p) PROVE TypeOK'
  BY <1>8, WakeType
<1>9. CASE UNCHANGED vars
  BY <1>9 DEF vars, TypeOK
<1> QED BY <1>1, <1>2, <1>3, <1>4, <1>5, <1>6, <1>7, <1>8, <1>9 DEF Next

\* Whatever the programs do, a byte of memory stays a byte, ip_ and sp_ stay
\* addresses, a register a handler or an instruction has written holds a
\* number, and the frames are never overbooked.
THEOREM TypeCorrect == Spec => []TypeOK
<1>1. Init => TypeOK
  BY InitType
<1>2. TypeOK /\ [Next]_vars => TypeOK'
  BY TypeStep
<1> QED BY <1>1, <1>2, PTL DEF Spec

-----------------------------------------------------------------------------
(***************************************************************************)
(* Frames.  That none is left to a process that has ended rests on the     *)
(* ready queue: it holds a process once, never the one that runs, and      *)
(* never one that has ended, so none of these gets to touch a page again.  *)
(***************************************************************************)
Queued ==
    /\ IsInjective(ready)
    /\ \A p : Contains(ready, p) => status[p] = "ready"
    /\ active # NoProc => status[active] = "ready" /\ ~Contains(ready, active)

IInv == TypeOK /\ FramesHeld /\ Queued

\* FramesHeld, for any list and any status.
Held(l, st) == IsInjective(l) /\ \A x : Contains(l, x) => st[x[1]] # "dead"

LEMMA HeldFacts ==
  ASSUME NEW l \in Seq(Pages), NEW st
  PROVE  Held(l, st) <=> IsInjective(l) /\ \A k \in DOMAIN l : st[l[k][1]] # "dead"
<1>1. DOMAIN l = 1 .. Len(l)
  OBVIOUS
<1> QED BY <1>1 DEF Held, Contains

\* Whatever is not marked as ended stays so.
LEMMA HeldStill ==
  ASSUME NEW l \in Seq(Pages), NEW st, NEW new, Held(l, st),
         \A x \in Pages : Contains(l, x) /\ st[x[1]] # "dead" => new[x[1]] # "dead"
  PROVE  Held(l, new)
<1>1. ASSUME NEW x, Contains(l, x) PROVE x \in Pages
  BY <1>1, ElementOfSeq DEF Contains
<1> QED BY <1>1 DEF Held

LEMMA FramesHeldMeans == ASSUME TypeOK PROVE FramesHeld <=> Held(lru, status)
<1>1. lru \in Seq(Pages)
  BY DEF TypeOK
<1> QED BY <1>1, HeldFacts DEF FramesHeld

LEMMA FramesHeldMeansNext == ASSUME TypeOK' PROVE FramesHeld' <=> Held(lru', status')
<1>1. lru' \in Seq(Pages)
  BY DEF TypeOK
<1> QED BY <1>1, HeldFacts DEF FramesHeld

LEMMA AppendFacts ==
  ASSUME NEW S, NEW s \in Seq(S), NEW e \in S
  PROVE  /\ \A x : Contains(Append(s, e), x) <=> x = e \/ Contains(s, x)
         /\ IsInjective(s) /\ ~Contains(s, e) => IsInjective(Append(s, e))
<1> DEFINE t == Append(s, e)
           n == Len(s)
<1>1. /\ n \in Nat /\ DOMAIN s = 1 .. n /\ DOMAIN t = 1 .. n + 1
      /\ Len(t) = n + 1 /\ t[n + 1] = e
      /\ \A k \in 1 .. n : t[k] = s[k]
  BY AppendProperties
<1> HIDE DEF t, n
<1>2. ASSUME NEW k \in 1 .. n + 1, k \notin 1 .. n PROVE k = n + 1
  BY <1>1, <1>2
<1>3. 1 .. n \subseteq 1 .. n + 1 /\ n + 1 \in 1 .. n + 1
  BY <1>1
<1>4. \A x : Contains(t, x) <=> x = e \/ Contains(s, x)
  <2>1. \A x : Contains(t, x) <=> \E k \in 1 .. n + 1 : t[k] = x
    BY <1>1 DEF Contains
  <2>2. \A x : Contains(s, x) <=> \E k \in 1 .. n : s[k] = x
    BY DEF Contains, n
  <2>3. ASSUME NEW x, Contains(t, x) PROVE x = e \/ Contains(s, x)
    <3>1. PICK k \in 1 .. n + 1 : t[k] = x
      BY <2>1, <2>3
    <3>2. k = n + 1 \/ k \in 1 .. n
      BY <1>2
    <3> QED BY <1>1, <2>2, <3>1, <3>2
  <2>4. ASSUME NEW x, x = e \/ Contains(s, x) PROVE Contains(t, x)
    BY <1>1, <1>3, <2>1, <2>2, <2>4
  <2> QED BY <2>3, <2>4
<1>5. ASSUME IsInjective(s), ~Contains(s, e) PROVE IsInjective(t)
  <2>1. \A k \in 1 .. n : s[k] # e
    BY <1>5 DEF Contains, n
  <2>2. ASSUME NEW a \in DOMAIN t, NEW b \in DOMAIN t, t[a] = t[b] PROVE a = b
    <3>1. (a = n + 1 \/ a \in 1 .. n) /\ (b = n + 1 \/ b \in 1 .. n)
      BY <1>1, <1>2
    <3> QED BY <1>1, <1>5, <2>1, <2>2, <3>1 DEF IsInjective
  <2> QED BY <2>2 DEF IsInjective
<1> QED BY <1>4, <1>5 DEF t

LEMMA HeadFacts ==
  ASSUME NEW S, NEW s \in Seq(S), s # <<>>
  PROVE  /\ Contains(s, Head(s))
         /\ \A x : Contains(Tail(s), x) => Contains(s, x)
         /\ IsInjective(s) => IsInjective(Tail(s)) /\ ~Contains(Tail(s), Head(s))
<1> DEFINE t == Tail(s)
           n == Len(s)
<1>1. /\ n \in Nat /\ n # 0 /\ DOMAIN s = 1 .. n /\ Head(s) = s[1]
      /\ t \in Seq(S) /\ Len(t) = n - 1
      /\ \A k \in 1 .. n - 1 : t[k] = s[k + 1]
  BY HeadTailProperties
<1> HIDE DEF t, n
<1>2. /\ DOMAIN t = 1 .. n - 1 /\ 1 \in 1 .. n
      /\ \A k \in 1 .. n - 1 : k + 1 \in 1 .. n /\ k + 1 # 1
      /\ \A k, m \in 1 .. n - 1 : k + 1 = m + 1 => k = m
  BY <1>1
<1>3. /\ \A x : Contains(s, x) <=> \E k \in 1 .. n : s[k] = x
      /\ \A x : Contains(t, x) <=> \E k \in 1 .. n - 1 : t[k] = x
  BY <1>1 DEF Contains, n
<1>4. Contains(s, Head(s)) /\ \A x : Contains(t, x) => Contains(s, x)
  BY <1>1, <1>2, <1>3
<1>5. ASSUME IsInjective(s) PROVE IsInjective(t) /\ ~Contains(t, Head(s))
  <2>1. \A k, m \in 1 .. n : s[k] = s[m] => k = m
    BY <1>1, <1>5 DEF IsInjective
  <2>2. ASSUME NEW a \in DOMAIN t, NEW b \in DOMAIN t, t[a] = t[b] PROVE a = b
    <3>1. s[a + 1] = s[b + 1]
      BY <1>1, <1>2, <2>2
    <3> QED BY <1>2, <2>1, <3>1
  <2>3. ASSUME NEW k \in 1 .. n - 1 PROVE t[k] # Head(s)
    BY <1>1, <1>2, <2>1
  <2> QED BY <1>3, <2>2, <2>3 DEF IsInjective
<1> QED BY <1>4, <1>5 DEF t

\* Touching pages that are there changes the order only.
LEMMA TouchedHeld ==
  ASSUME Running, NEW st, Held(lru, st)
  PROVE  Held(Touched, st)
BY TouchedFacts DEF Held, Reordered

\* Who has run waits in the queue, or somewhere else.
LEMMA RequeueQueued ==
  ASSUME IInv, active # NoProc, active' = NoProc, status' = status,
         ready' = Append(ready, active)
  PROVE  Queued'
<1>1. ready \in Seq(Proc) /\ active \in Proc
  BY DEF IInv, TypeOK
<1>2. /\ IsInjective(ready) /\ ~Contains(ready, active) /\ status[active] = "ready"
      /\ \A p : Contains(ready, p) => status[p] = "ready"
  BY DEF IInv, Queued
<1>3. /\ \A x : Contains(ready', x) <=> x = active \/ Contains(ready, x)
      /\ IsInjective(ready')
  BY <1>1, <1>2, AppendFacts
<1> QED BY <1>2, <1>3 DEF Queued

LEMMA RemovedQueued ==
  ASSUME IInv, active # NoProc, active' = NoProc, ready' = ready,
         \A p \in Proc \ {active} : status'[p] = status[p]
  PROVE  Queued'
<1>1. \A p : Contains(ready, p) => p \in Proc
  BY ElementOfSeq DEF IInv, TypeOK, Contains
<1>2. /\ IsInjective(ready) /\ ~Contains(ready, active)
      /\ \A p : Contains(ready, p) => status[p] = "ready"
  BY DEF IInv, Queued
<1>3. ASSUME NEW p, Contains(ready, p) PROVE status'[p] = "ready"
  <2>1. p \in Proc \ {active}
    BY <1>1, <1>2, <1>3
  <2> QED BY <1>2, <1>3, <2>1
<1> QED BY <1>2, <1>3 DEF Queued

LEMMA SwitchToFrames == ASSUME IInv, SwitchTo PROVE Held(lru', status') /\ Queued'
<1>1. TypeOK /\ Held(lru, status) /\ UNCHANGED <<lru, status>>
  BY FramesHeldMeans DEF IInv, SwitchTo
<1>2. /\ ready \in Seq(Proc) /\ ready # <<>>
      /\ active' = Head(ready) /\ ready' = Tail(ready)
  BY <1>1 DEF SwitchTo, TypeOK
<1>3. /\ Contains(ready, Head(ready))
      /\ \A x : Contains(Tail(ready), x) => Contains(ready, x)
      /\ IsInjective(Tail(ready)) /\ ~Contains(Tail(ready), Head(ready))
  BY <1>2, HeadFacts DEF IInv, Queued
<1>4. \A p : Contains(ready, p) => status'[p] = "ready"
  BY <1>1 DEF IInv, Queued
<1>5. Queued'
  BY <1>2, <1>3, <1>4 DEF Queued
<1> QED BY <1>1, <1>5

LEMMA QuantumExpiredFrames ==
  ASSUME IInv, QuantumExpired PROVE Held(lru', status') /\ Queued'
<1>1. TypeOK /\ Held(lru, status) /\ UNCHANGED <<lru, status>>
  BY FramesHeldMeans DEF IInv, QuantumExpired
<1>2. Queued'
  BY RequeueQueued DEF QuantumExpired, SwitchOut
<1> QED BY <1>1, <1>2

LEMMA ExecuteFrames == ASSUME IInv, Execute PROVE Held(lru', status') /\ Queued'
<1>1. Running /\ Held(lru, status)
  BY FramesHeldMeans DEF IInv, Execute, Running
<1>2. lru' = Touched /\ UNCHANGED <<status, ready, active>>
  BY DEF Execute
<1>3. Held(lru', status')
  BY <1>1, <1>2, TouchedHeld
<1>4. Queued'
  BY <1>2 DEF IInv, Queued
<1> QED BY <1>3, <1>4

LEMMA TrapToOSFrames == ASSUME IInv, TrapToOS PROVE Held(lru', status') /\ Queued'
<1>1. Running /\ Held(lru, status) /\ status \in [Proc -> {"ready", "waiting", "dead"}]
  BY FramesHeldMeans DEF IInv, TrapToOS, Running, TypeOK
<1>2. lru' = Touched /\ active' = NoProc /\ active # NoProc
  BY DEF TrapToOS, SwitchOut
<1>3. CASE ready' = Append(ready, active) /\ status' = status
  <2>1. Held(lru', status')
    BY <1>1, <1>2, <1>3, TouchedHeld
  <2> QED BY <1>2, <1>3, <2>1, RequeueQueued
<1>4. CASE status' = [status EXCEPT ![active] = "waiting"] /\ ready' = ready
  <2>1. Held(Touched, status)
    BY <1>1, TouchedHeld
  <2>2. \A x \in Pages : status[x[1]] # "dead" => status'[x[1]] # "dead"
    BY <1>1, <1>4
  <2>3. Held(lru', status')
    <3>1. Touched \in Seq(Pages)
      BY <1>1, TouchedFacts DEF Reordered
    <3> QED BY <1>2, <2>1, <2>2, <3>1, HeldStill
  <2>4. \A p \in Proc \ {active} : status'[p] = status[p]
    BY <1>1, <1>4
  <2> QED BY <1>2, <1>4, <2>3, <2>4, RemovedQueued
<1> QED BY <1>3, <1>4 DEF TrapToOS

\* The page that is brought in goes to a process that is alive.
LEMMA PageFaultFrames == ASSUME IInv, PageFault PROVE Held(lru', status') /\ Queued'
<1>1. Running /\ Held(lru, status) /\ status[active] # "dead"
  BY FramesHeldMeans DEF IInv, PageFault, Running, Queued
<1>2. status' = status /\ active' = NoProc /\ ready' = Append(ready, active)
  BY DEF PageFault, SwitchOut
<1> DEFINE pg == <<active, Missing>>
           l  == IF Len(lru) < NumFrames THEN Touched ELSE Evicted(Touched)
<1>3. pg \in Pages /\ pg[1] = active
  BY <1>1, MissingFacts DEF PageFault
<1>4. Touched \in Seq(Pages) /\ Held(Touched, status)
  BY <1>1, TouchedFacts, TouchedHeld DEF Reordered
<1>5. l \in Seq(Pages) /\ Held(l, status)
  <2>1. Front(Touched) \in Seq(Pages) /\ Held(Front(Touched), status)
    BY <1>4, FrontFacts DEF Held
  <2> QED BY <1>4, <2>1 DEF Evicted
<1>6. lru' = Touch(pg)[l]
  BY PageFaultIs
<1> HIDE DEF l, pg
<1>7. Held(Touch(pg)[l], status)
  BY <1>1, <1>3, <1>5, TouchFacts DEF Held
<1> QED BY <1>1, <1>2, <1>6, <1>7, RequeueQueued DEF Running

\* The pages of the process that ends leave the list, and nobody else's.
LEMMA TerminateFrames == ASSUME IInv, Terminate PROVE Held(lru', status') /\ Queued'
<1> DEFINE X == {x \in ToSet(lru) : x[1] = active}
           w == Without(lru, X)
<1>1. TypeOK /\ Held(lru, status) /\ active # NoProc /\ lru \in Seq(Pages)
  BY FramesHeldMeans DEF IInv, Terminate, TypeOK
<1>2. /\ status' = [status EXCEPT ![active] = "dead"] /\ active' = NoProc
      /\ ready' = ready /\ lru' = w
  BY DEF Terminate, SwitchOut
<1>3. \A x : Contains(lru, x) /\ x[1] = active => x \in X
  BY DEF Contains, ToSet
<1>4. w \in Seq(Pages) /\ Filtered(w, lru, X, Pages, Len(lru))
  <2> HIDE DEF X
  <2> QED BY <1>1, WithoutFacts
<1> HIDE DEF X, w
<1>5. IsInjective(w)
  BY <1>1, <1>4 DEF Filtered, Held
<1>6. ASSUME NEW x, Contains(w, x) PROVE Contains(lru, x) /\ x[1] # active
  <2>1. PICK j \in 1 .. Len(w) : w[j] = x
    BY <1>6 DEF Contains
  <2>2. x \notin X /\ \E i \in 1 .. Len(lru) : x = lru[i]
    BY <1>4, <2>1 DEF Filtered
  <2>3. Contains(lru, x)
    BY <2>2 DEF Contains
  <2> QED BY <1>3, <2>2, <2>3
<1>7. \A p \in Proc \ {active} : status'[p] = status[p]
  BY <1>1, <1>2 DEF TypeOK
<1>8. Held(lru', status')
  <2>1. Held(w, status)
    BY <1>1, <1>5, <1>6 DEF Held
  <2>2. \A x \in Pages : Contains(w, x) /\ status[x[1]] # "dead" => status'[x[1]] # "dead"
    BY <1>6, <1>7 DEF Pages
  <2>3. Held(w, status')
    BY <1>4, <2>1, <2>2, HeldStill
  <2> QED BY <1>2, <2>3
<1>9. Queued'
  BY <1>1, <1>2, <1>7, RemovedQueued
<1> QED BY <1>8, <1>9

LEMMA WakeFrames ==
  ASSUME IInv, NEW p \in Proc, Wake(p) PROVE Held(lru', status') /\ Queued'
<1>1. TypeOK /\ Held(lru, status) /\ ready \in Seq(Proc)
  BY FramesHeldMeans DEF IInv, TypeOK
<1>2. /\ status' = [status EXCEPT ![p] = "ready"] /\ ready' = Append(ready, p)
      /\ lru' = lru /\ active' = NoProc /\ status[p] = "waiting"
  BY DEF Wake
<1>3. ~Contains(ready, p) /\ IsInjective(ready)
  BY <1>2 DEF IInv, Queued
<1>4. /\ \A x : Contains(ready', x) <=> x = p \/ Contains(ready, x)
      /\ IsInjective(ready')
  BY <1>1, <1>2, <1>3, AppendFacts
<1>5. status'[p] = "ready" /\ \A q \in Proc \ {p} : status'[q] = status[q]
  BY <1>1, <1>2 DEF TypeOK
<1>6. Held(lru', status')
  <2>1. \A x \in Pages : status[x[1]] # "dead" => status'[x[1]] # "dead"
    BY <1>5 DEF Pages
  <2>2. lru \in Seq(Pages)
    BY <1>1 DEF TypeOK
  <2>3. Held(lru, status')
    BY <1>1, <2>1, <2>2, HeldStill
  <2> QED BY <1>2, <2>3
<1>7. ASSUME NEW q, Contains(ready', q) PROVE status'[q] = "ready"
  <2>1. CASE q = p
    BY <1>5, <2>1
  <2>2. CASE q # p
    <3>1. Contains(ready, q)
      BY <1>4, <1>7, <2>2
    <3>2. q \in Proc
      BY <1>1, <3>1, ElementOfSeq DEF Contains
    <3> QED BY <1>5, <2>2, <3>1, <3>2 DEF IInv, Queued
  <2> QED BY <2>1, <2>2
<1> QED BY <1>2, <1>4, <1>6, <1>7 DEF Queued

LEMMA OutsiderFaultsFrames ==
  ASSUME IInv, OutsiderFaults PROVE Held(lru', status') /\ Queued'
<1>1. Held(lru, status) /\ lru \in Seq(Pages)
  BY FramesHeldMeans DEF IInv, TypeOK
<1>2. lru' = Front(lru) /\ UNCHANGED <<status, ready, active>>
  BY DEF OutsiderFaults, Evicted
<1>3. Held(lru', status')
  BY <1>1, <1>2, FrontFacts DEF Held
<1>4. Queued'
  BY <1>2 DEF IInv, Queued
<1> QED BY <1>3, <1>4

\* No page of a program's code comes twice.
LEMMA CodePagesInjective ==
  ASSUME NEW p \in Proc, Len(Image(source[p])) \in Nat
  PROVE  /\ IsInjective(CodePages(p))
         /\ \A x : Contains(CodePages(p), x) => x[1] = p
<1> DEFINE first == PageOf(CodeBase)
           last  == PageOf(CodeBase + Len(Image(source[p])) - 1)
           n     == last - first + 1
<1>1. first \in Int /\ last \in Int /\ n \in Int
  BY CPUAssumption, WordsAreInts, DivMod DEF PageOf
<1>2. CodePages(p) = [k \in 1 .. n |-> <<p, first + k - 1>>]
  BY DEF CodePages
<1> HIDE DEF first, last, n
<1>3. IsInjective(CodePages(p))
  BY <1>1, <1>2 DEF IsInjective
<1>4. CodePages(p) \in Seq(Pages)
  BY CodePagesType
<1>5. ASSUME NEW k \in 1 .. Len(CodePages(p)) PROVE CodePages(p)[k][1] = p
  <2>1. k \in DOMAIN CodePages(p)
    BY <1>4
  <2> QED BY <1>2, <2>1
<1>6. \A x : Contains(CodePages(p), x) => x[1] = p
  BY <1>5 DEF Contains
<1> QED BY <1>3, <1>6

LEMMA InitFrames == ASSUME Init PROVE FramesHeld /\ Queued
<1>1. NumProcs \in Nat \ {0} /\ TypeOK
  BY CPUAssumption, InitType
<1>2. ASSUME NEW p \in Proc PROVE Len(Image(source[p])) \in Nat
  <2>1. Image(source[p]) \in Seq(Byte)
    BY ImageType DEF Init
  <2> QED BY <2>1
<1>3. IsInjective(lru)
  <2> DEFINE cs == [p \in Proc |-> CodePages(p)]
             n  == Len(cs)
  <2>1. /\ \A p \in Proc : cs[p] \in Seq(Pages)
        /\ \A p \in Proc : IsInjective(cs[p])
        /\ \A p \in Proc : \A x : Contains(cs[p], x) => x[1] = p
    BY <1>2, CodePagesType, CodePagesInjective
  <2>2. cs \in Seq(Seq(Pages)) /\ 1 .. n = Proc
    BY <1>1, <2>1 DEF Proc
  <2>3. lru = Reverse(FlattenSeq(cs))
    BY DEF Init
  <2> HIDE DEF cs, n
  <2>4. IsInjective(FlattenSeq(cs)) /\ FlattenSeq(cs) \in Seq(Pages)
    <3>1. \A k \in 1 .. Len(cs) : IsInjective(cs[k])
      BY <2>1, <2>2 DEF n
    <3>2. \A k, m \in 1 .. Len(cs) :
             k # m => \A x : ~(Contains(cs[k], x) /\ Contains(cs[m], x))
      BY <2>1, <2>2 DEF n
    <3> QED BY <2>2, <3>1, <3>2, FlattenInjective, FlattenType
  <2> QED BY <2>3, <2>4, ReverseFacts
<1>4. \A p \in Proc : status[p] = "ready"
  BY DEF Init
<1>5. FramesHeld
  <2>1. ASSUME NEW k \in DOMAIN lru PROVE status[lru[k][1]] # "dead"
    <3>1. lru[k] \in Pages
      BY <1>1, ElementOfSeq DEF TypeOK
    <3>2. lru[k][1] \in Proc
      BY <3>1 DEF Pages
    <3> QED BY <1>4, <3>2
  <2> QED BY <1>3, <2>1 DEF FramesHeld
<1>6. Queued
  <2>1. IsInjective(ready)
    BY DEF Init, IsInjective
  <2>2. ASSUME NEW p, Contains(ready, p) PROVE status[p] = "ready"
    <3>1. p \in Proc
      BY <1>1, <2>2, ElementOfSeq DEF TypeOK, Contains
    <3> QED BY <1>4, <3>1
  <2> QED BY <2>1, <2>2 DEF Init, Queued
<1> QED BY <1>5, <1>6

-----------------------------------------------------------------------------
\* A step keeps the invariant.
LEMMA FramesStep == ASSUME IInv, [Next]_vars PROVE IInv'
<1>1. TypeOK'
  BY TypeStep DEF IInv
<1>2. Held(lru', status') /\ Queued'
  <2>1. CASE SwitchTo
    BY <2>1, SwitchToFrames
  <2>2. CASE QuantumExpired
    BY <2>2, QuantumExpiredFrames
  <2>3. CASE Execute
    BY <2>3, ExecuteFrames
  <2>4. CASE TrapToOS
    BY <2>4, TrapToOSFrames
  <2>5. CASE PageFault
    BY <2>5, PageFaultFrames
  <2>6. CASE Terminate
    BY <2>6, TerminateFrames
  <2>7. CASE OutsiderFaults
    BY <2>7, OutsiderFaultsFrames
  <2>8. ASSUME NEW p \in Proc, Wake(p) PROVE Held(lru', status') /\ Queued'
    BY <2>8, WakeFrames
  <2>9. CASE UNCHANGED vars
    <3>1. Held(lru, status) /\ UNCHANGED <<lru, status, ready, active>>
      BY <2>9, FramesHeldMeans DEF IInv, vars
    <3> QED BY <3>1 DEF IInv, Queued
  <2> QED BY <2>1, <2>2, <2>3, <2>4, <2>5, <2>6, <2>7, <2>8, <2>9 DEF Next
<1>3. FramesHeld'
  BY <1>1, <1>2, FramesHeldMeansNext
<1> QED BY <1>1, <1>2, <1>3 DEF IInv

\* No page is ever in two frames, and no frame is left to a process that has
\* ended, whatever touches, faults and evictions the programs bring about.
THEOREM FramesAreHeld == Spec => []FramesHeld
<1>1. Init => IInv
  BY InitType, InitFrames DEF IInv
<1>2. IInv /\ [Next]_vars => IInv'
  BY FramesStep
<1>3. IInv => FramesHeld
  BY DEF IInv
<1> QED BY <1>1, <1>2, <1>3, PTL DEF Spec
=============================================================================
