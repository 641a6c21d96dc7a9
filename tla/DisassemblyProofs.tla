-------------------------- MODULE DisassemblyProofs --------------------------
(***************************************************************************)
(* What holds of the disassembly window for every program, every height of *)
(* the window, every text that is typed and every number of changes and    *)
(* failures: TLAPS proofs of the properties of Disassembly.                *)
(*                                                                         *)
(* The first part is about the operators: the assembler reads what the     *)
(* disassembler prints (RoundTrip), decoding cuts memory into instructions *)
(* (DecodeIs), the rows that are fetched have rising addresses (FetchIs),  *)
(* and a read that starts at one of them gives the rest again (Resumes).   *)
(* The second is the invariant and its steps, the third what follows.      *)
(***************************************************************************)
EXTENDS Disassembly, SequenceTheorems, WellFoundedInduction, TLAPS

Bytes == 0 .. 255
Mnemonics == {".DB", ""} \cup {MnemonicOf[op] : op \in Opcodes} \cup {t.mnemonic : t \in Texts}
Notations == Forms \cup {"data"} \cup {t.operand.form : t \in Texts}
Operands == [form : Notations, digits : Nat, values : Seq(Addresses)]
Statements == [mnemonic : Mnemonics, operand : Operands]

\* The bytes of an instruction, the last of them perhaps not read.
Raws == {r \in Seq(Bytes) : Len(r) >= 1 /\ Len(r) <= ModeSize[ModeOf[r[1]]]}

\* Instructions as they are decoded.
Decoded == [addr : Addresses, raw : Raws, mnemonic : Mnemonics, operand : Operands,
            target : Addresses \cup {NoTarget}]
Instructions == {ins \in Decoded : ins = DecodedInstruction(ins.addr, ins.raw)}

(***************************************************************************)
(* Numbers.                                                                *)
(***************************************************************************)

\* The last address.
LEMMA LastWord == Word - 1 = 65535 /\ Word \in Nat
  BY DEF Word

\* A number of 16 bits is an address.
LEMMA InWords ==
  ASSUME NEW v \in Int, 0 <= v, v <= 65535
  PROVE  v \in Addresses
  BY LastWord DEF Addresses

\* An address is a number of 16 bits.
LEMMA WordIs ==
  ASSUME NEW v \in Addresses
  PROVE  v \in Nat /\ v <= 65535 /\ v < Word
  BY LastWord DEF Addresses

\* A byte is an address.
LEMMA ByteIs ==
  ASSUME NEW b \in Bytes
  PROVE  b \in Addresses /\ b \in Nat /\ b <= 255
  <1>1. b \in Nat /\ b <= 255
    BY DEF Bytes
  <1>2. b \in Int /\ 0 <= b /\ b <= 65535
    BY <1>1
  <1>3. QED
    BY <1>1, <1>2, InWords

\* A number below the divisor is its own remainder.
LEMMA SmallMod ==
  ASSUME NEW a \in Nat, NEW b \in Nat, a < b
  PROVE  a % b = a
  BY SMTT(30)

\* Addresses wrap around.
LEMMA WrapIs ==
  ASSUME NEW v \in Int
  PROVE  Wrap(v) \in Addresses /\ (v \in Addresses => Wrap(v) = v)
  <1>1. Wrap(v) \in Addresses
    BY SMTT(30) DEF Addresses, Word, Wrap
  <1>2. Wrap(v) = v % Word
    BY DEF Wrap
  <1>3. ASSUME v \in Addresses PROVE v % Word = v
    BY <1>3, LastWord, WordIs, SmallMod
  <1>4. QED
    BY <1>1, <1>2, <1>3

\* Two bytes are an address.
LEMMA WordOfIs ==
  ASSUME NEW lo \in Bytes, NEW hi \in Bytes
  PROVE  WordOf(lo, hi) \in Addresses
  <1>1. WordOf(lo, hi) \in Int /\ 0 <= WordOf(lo, hi) /\ WordOf(lo, hi) <= 65535
    BY DEF Bytes, WordOf
  <1>2. QED
    BY <1>1, InWords

\* And the address is those two bytes.
LEMMA WordParts ==
  ASSUME NEW lo \in Bytes, NEW hi \in Bytes
  PROVE  /\ WordOf(lo, hi) % 256 = lo /\ WordOf(lo, hi) \div 256 = hi
         /\ WordOf(lo, hi) <= 255 => hi = 0 /\ WordOf(lo, hi) = lo
         /\ lo % 256 = lo
  BY DEF Bytes, WordOf

\* A byte as an offset.
LEMMA SignedIs ==
  ASSUME NEW b \in Bytes
  PROVE  Signed(b) \in -128 .. 127 /\ Signed(b) \in Int /\ Signed(b) % 256 = b
  BY DEF Signed, Bytes

\* The low and the high byte of an address.
LEMMA PartsOf ==
  ASSUME NEW v \in Addresses
  PROVE  v % 256 \in Bytes /\ v \div 256 \in Bytes
  <1>1. v \in Nat /\ v <= 65535
    BY WordIs
  <1>2. QED
    BY <1>1 DEF Bytes

(***************************************************************************)
(* The table of opcodes.                                                   *)
(***************************************************************************)

\* The size of each mode.
LEMMA ModesAre ==
  /\ DOMAIN ModeSize = Modes
  /\ \A m \in Modes : ModeSize[m] \in 1 .. 3
  /\ \A m \in OneByte : m \in Modes /\ ModeSize[m] = 1
  /\ \A m \in TwoBytes : m \in Modes /\ ModeSize[m] = 2
  /\ \A m \in ThreeBytes : m \in Modes /\ ModeSize[m] = 3
  BY DEF ModeSize, Modes, OneByte, TwoBytes, ThreeBytes

\* What the table holds.
LEMMA TableIs ==
  /\ \A op \in Opcodes : ModeOf[op] \in Modes /\ MnemonicOf[op] \in Mnemonics
  /\ \A op \in Unknown : ModeOf[op] = "imp"
  /\ \A op \in Opcodes \ Unknown : ~isDataMnemonic(MnemonicOf[op])
  <1>1. \A i \in 1 .. 256 : opMode[i] \in Modes
    BY SMTT(60) DEF opMode, Modes, OneByte, TwoBytes, ThreeBytes
  <1>2. \A i \in 1 .. 256 : opMnemonic[i] = "???" => opMode[i] = "imp"
    BY SMTT(60) DEF opMode, opMnemonic
  <1>3. \A i \in 1 .. 256 : opMnemonic[i] \notin {".DB", "DB", ".BYTE", "BYTE"}
    BY SMTT(60) DEF opMnemonic
  <1>4. \A op \in Opcodes : op + 1 \in 1 .. 256
    BY DEF Opcodes
  <1>5. QED
    BY <1>1, <1>2, <1>3, <1>4 DEF ModeOf, MnemonicOf, Mnemonics, Unknown, isDataMnemonic

\* An opcode is told by its mnemonic and its mode, and branches have no other mode.
LEMMA TableTells ==
  /\ \A op, p \in Opcodes \ Unknown :
        MnemonicOf[op] = MnemonicOf[p] /\ ModeOf[op] = ModeOf[p] => op = p
  /\ \A op, p \in Opcodes \ Unknown :
        MnemonicOf[op] = MnemonicOf[p] /\ ModeOf[op] = "rel" => ModeOf[p] = "rel"
  <1> DEFINE Branches == {"BPL", "BMI", "BVC", "BVS", "BCC", "BCS", "BNE", "BEQ"}
  <1>1. \A i, j \in 1 .. 256 : opMnemonic[i] # "???" /\ opMnemonic[i] = opMnemonic[j]
            /\ opMode[i] = opMode[j] => i = j
    BY SMTT(100) DEF opMode, opMnemonic
  <1>2. \A i \in 1 .. 256 : opMode[i] = "rel" => opMnemonic[i] \in Branches
    BY SMTT(60) DEF opMode, opMnemonic
  <1>3. \A i \in 1 .. 256 : opMnemonic[i] \in Branches => opMode[i] = "rel"
    BY SMTT(60) DEF opMode, opMnemonic
  <1>4. \A op \in Opcodes : op + 1 \in 1 .. 256 /\ op \in Int
    BY DEF Opcodes
  <1> HIDE DEF Branches
  <1>5. ASSUME NEW op \in Opcodes \ Unknown, NEW p \in Opcodes \ Unknown,
               MnemonicOf[op] = MnemonicOf[p], ModeOf[op] = ModeOf[p]
        PROVE  op = p
    <2>1. op + 1 = p + 1
      BY <1>1, <1>4, <1>5 DEF ModeOf, MnemonicOf, Unknown
    <2>2. QED
      BY <1>4, <2>1
  <1>6. QED
    BY <1>2, <1>3, <1>4, <1>5 DEF ModeOf, MnemonicOf
(***************************************************************************)
(* The disassembler and the assembler.                                     *)
(***************************************************************************)

\* A sequence of bytes.
LEMMA BytesOf ==
  ASSUME NEW raw \in Raws
  PROVE  /\ raw \in Seq(Bytes) /\ Len(raw) \in 1 .. ModeSize[ModeOf[raw[1]]]
         /\ raw[1] \in Opcodes /\ ModeOf[raw[1]] \in Modes
         /\ \A i \in 1 .. Len(raw) : raw[i] \in Bytes
  <1>1. raw \in Seq(Bytes) /\ Len(raw) >= 1 /\ Len(raw) <= ModeSize[ModeOf[raw[1]]]
    BY DEF Raws
  <1>2. Len(raw) \in Nat /\ \A i \in 1 .. Len(raw) : raw[i] \in Bytes
    BY <1>1, LenProperties, ElementOfSeq
  <1>3. raw[1] \in Opcodes
    BY <1>1, <1>2 DEF Opcodes, Bytes
  <1>4. ModeOf[raw[1]] \in Modes
    BY <1>3, TableIs
  <1>5. ModeSize[ModeOf[raw[1]]] \in Int
    BY <1>4, ModesAre
  <1>6. QED
    BY <1>1, <1>2, <1>3, <1>4, <1>5

\* What an operand shows is an address, and so is what it is about.
Written == Operands \X (Addresses \cup {NoTarget})

\* An operand is printed, whatever bytes there are.
LEMMA FormatIs ==
  ASSUME NEW mode \in Modes, NEW pc \in Addresses, NEW raw \in Raws
  PROVE  FormatOperand(mode, pc, raw) \in Written
  <1> DEFINE byte(i) == IF i <= Len(raw) THEN raw[i] ELSE 0
             word == WordOf(byte(2), byte(3))
  <1>1. byte(2) \in Bytes /\ byte(3) \in Bytes
    <2>1. 0 \in Bytes
      BY DEF Bytes
    <2>2. QED
      BY <2>1, BytesOf
  <1>2. word \in Addresses /\ byte(2) \in Addresses
    BY <1>1, WordOfIs, ByteIs
  <1>3. Wrap(pc + 2 + Signed(byte(2))) \in Addresses
    <2>1. Signed(byte(2)) \in Int
      BY <1>1, SignedIs
    <2>2. pc + 2 + Signed(byte(2)) \in Int
      BY <2>1, WordIs
    <2>3. QED
      BY <2>2, WrapIs
  <1>4. ASSUME NEW f \in Forms, NEW d \in Nat, NEW v \in Addresses
        PROVE  Operand(f, d, v) \in Operands
    BY <1>4 DEF Operand, Operands, Notations
  <1>5. Bare("none") \in Operands /\ Bare("A") \in Operands
    BY EmptySeq DEF Bare, Operands, Notations, Forms
  <1>6. {"#", "mem", "mem,X", "mem,Y", "(mem)", "(mem,X)", "(mem),Y"} \subseteq Forms
    BY DEF Forms
  <1> DEFINE target == Wrap(pc + 2 + Signed(byte(2)))
  <1>7. /\ \A f \in {"#", "mem", "mem,X", "mem,Y", "(mem)", "(mem,X)", "(mem),Y"} : \A d \in {2, 4} :
              \A v \in {byte(2), word, target} : <<Operand(f, d, v), v>> \in Written
        /\ <<Operand("#", 2, byte(2)), NoTarget>> \in Written
        /\ <<Bare("none"), NoTarget>> \in Written /\ <<Bare("A"), NoTarget>> \in Written
    BY <1>2, <1>3, <1>4, <1>5, <1>6 DEF Written
  <1>8. FormatOperand(mode, pc, raw) =
          CASE mode = "imp" -> <<Bare("none"), NoTarget>>
            [] mode = "acc" -> <<Bare("A"), NoTarget>>
            [] mode = "imm" -> <<Operand("#", 2, byte(2)), NoTarget>>
            [] mode = "abs" -> <<Operand("mem", 4, word), word>>
            [] mode = "abx" -> <<Operand("mem,X", 4, word), word>>
            [] mode = "aby" -> <<Operand("mem,Y", 4, word), word>>
            [] mode = "ind" -> <<Operand("(mem)", 4, word), word>>
            [] mode = "rel" -> <<Operand("mem", 4, target), target>>
            [] mode = "zpg" -> <<Operand("mem", 2, byte(2)), byte(2)>>
            [] mode = "zpx" -> <<Operand("mem,X", 2, byte(2)), byte(2)>>
            [] mode = "zpy" -> <<Operand("mem,Y", 2, byte(2)), byte(2)>>
            [] mode = "inx" -> <<Operand("(mem,X)", 2, byte(2)), byte(2)>>
            [] mode = "iny" -> <<Operand("(mem),Y", 2, byte(2)), byte(2)>>
    BY DEF FormatOperand
  <1> HIDE DEF byte, word, target
  <1>9. mode \in {"imp", "acc", "imm", "abs", "abx", "aby", "ind", "rel", "zpg", "zpx", "zpy", "inx", "iny"}
    BY DEF Modes, OneByte, TwoBytes, ThreeBytes
  <1>10. QED
    BY <1>7, <1>8, <1>9

\* An instruction is decoded as one.
LEMMA DecodedIs ==
  ASSUME NEW pc \in Addresses, NEW raw \in Raws
  PROVE  /\ DecodedInstruction(pc, raw) \in Instructions
         /\ DecodedInstruction(pc, raw).addr = pc
         /\ DecodedInstruction(pc, raw).raw = raw
  <1> DEFINE op == raw[1]
             mn == IF op \in Unknown THEN ".DB" ELSE MnemonicOf[op]
             shown == IF op \in Unknown THEN <<Operand("data", 2, op), NoTarget>>
                                          ELSE FormatOperand(ModeOf[op], pc, raw)
             ins == [addr |-> pc, raw |-> raw, mnemonic |-> mn, operand |-> shown[1],
                     target |-> IF mn \in flowMnemonics THEN shown[2] ELSE NoTarget]
  <1>1. DecodedInstruction(pc, raw) = ins
    BY DEF DecodedInstruction
  <1>2. op \in Opcodes /\ op \in Addresses /\ ModeOf[op] \in Modes
    BY BytesOf, ByteIs DEF Opcodes, Bytes
  <1>3. mn \in Mnemonics
    <2>1. ".DB" \in Mnemonics
      BY ONLY DEF Mnemonics
    <2>2. MnemonicOf[op] \in Mnemonics
      BY ONLY <1>2, TableIs
    <2>3. QED
      BY ONLY <2>1, <2>2
  <1>4. shown \in Written
    <2>1. Operand("data", 2, op) \in Operands
      BY <1>2 DEF Operand, Operands, Notations
    <2>2. <<Operand("data", 2, op), NoTarget>> \in Written
      BY <2>1 DEF Written
    <2>3. FormatOperand(ModeOf[op], pc, raw) \in Written
      BY <1>2, FormatIs
    <2>4. QED
      BY <2>2, <2>3
  <1> HIDE DEF op, mn, shown
  <1>5. ins \in Decoded /\ ins.addr = pc /\ ins.raw = raw
    BY <1>3, <1>4 DEF Written, Decoded
  <1>6. QED
    BY <1>1, <1>5 DEF Instructions

\* The first opcode of a mnemonic in a mode is the only one.
LEMMA OpcodeIs ==
  ASSUME NEW op \in Opcodes \ Unknown
  PROVE  LET ops == asmOpcodesByMnemonic[MnemonicOf[op]]
         IN  /\ MnemonicOf[op] \in DOMAIN asmOpcodesByMnemonic
             /\ ModeOf[op] \in DOMAIN ops /\ ops[ModeOf[op]] = op
             /\ ModeOf[op] = "rel" => DOMAIN ops = {"rel"}
             /\ DOMAIN ops \subseteq Modes
             /\ \A m \in DOMAIN ops : /\ ops[m] \in Opcodes /\ ModeOf[ops[m]] = m
                                      /\ MnemonicOf[ops[m]] = MnemonicOf[op]
  <1> DEFINE mn == MnemonicOf[op]
             of == {p \in Opcodes : MnemonicOf[p] = mn}
             ops == asmOpcodesByMnemonic[mn]
             first(m) == CHOOSE p \in of : ModeOf[p] = m /\ \A q \in of : ModeOf[q] = m => p <= q
  <1>1. mn \in {MnemonicOf[p] : p \in Opcodes \ Unknown}
    OBVIOUS
  <1>2. ops = [m \in {ModeOf[p] : p \in of} |-> first(m)] /\ mn \in DOMAIN asmOpcodesByMnemonic
    BY <1>1 DEF asmOpcodesByMnemonic
  <1>3. \A p \in of : p \in Opcodes \ Unknown
    BY DEF Unknown
  <1>4. ASSUME NEW p \in of PROVE first(ModeOf[p]) = p
    <2>1. \A q \in of : ModeOf[q] = ModeOf[p] => q = p
      BY <1>3, TableTells
    <2>2. p <= p
      BY DEF Opcodes
    <2>3. \A q \in of : ModeOf[q] = ModeOf[p] => p <= q
      BY <2>1, <2>2
    <2>4. \E q \in of : ModeOf[q] = ModeOf[p] /\ \A r \in of : ModeOf[r] = ModeOf[p] => q <= r
      BY <2>3
    <2> HIDE DEF of
    <2>5. first(ModeOf[p]) \in of /\ ModeOf[first(ModeOf[p])] = ModeOf[p]
      BY <2>4
    <2> HIDE DEF first
    <2>6. QED
      BY <2>1, <2>5
  <1>5. op \in of /\ of \subseteq Opcodes
    OBVIOUS
  <1>6. ModeOf[op] = "rel" => \A p \in of : ModeOf[p] = "rel"
    BY <1>3, TableTells
  <1>7. \A p \in of : ModeOf[p] \in Modes /\ MnemonicOf[p] = mn
    BY TableIs
  <1> HIDE DEF first, of
  <1>8. DOMAIN ops = {ModeOf[p] : p \in of} /\ \A p \in of : ops[ModeOf[p]] = p
    BY <1>2, <1>4
  <1> HIDE DEF ops
  <1>9. ModeOf[op] = "rel" => DOMAIN ops = {"rel"}
    BY <1>5, <1>6, <1>8
  <1>10. QED
    BY <1>2, <1>5, <1>7, <1>8, <1>9 DEF ops

\* The mode taken is one the mnemonic has.
LEMMA ResolvedIs ==
  ASSUME NEW modes, NEW mode, NEW value
  PROVE  ResolveAsmOpcode(modes, mode, value) \subseteq modes
  BY DEF ResolveAsmOpcode

\* An instruction is encoded in bytes.
LEMMA EncodedIs ==
  ASSUME NEW op \in Opcodes, NEW m \in Modes, NEW value \in Addresses, NEW a \in Addresses
  PROVE  EncodeAsmInstruction(op, m, value, a) \in Seq(Bytes)
  <1>1. op \in Bytes /\ value % 256 \in Bytes /\ value \div 256 \in Bytes
    BY PartsOf DEF Opcodes, Bytes
  <1>2. (value - a - 2) % 256 \in Bytes
    <2>1. value - a - 2 \in Int
      BY WordIs
    <2>2. QED
      BY <2>1 DEF Bytes
  <1> DEFINE delta == value - a - 2
  <1>3. <<op, delta % 256>> \in Seq(Bytes) /\ Refused \in Seq(Bytes) /\ <<op>> \in Seq(Bytes)
        /\ <<op, value % 256>> \in Seq(Bytes) /\ <<op, value % 256, value \div 256>> \in Seq(Bytes)
    BY <1>1, <1>2, EmptySeq DEF Refused
  <1>4. EncodeAsmInstruction(op, m, value, a) =
          CASE m = "rel" -> IF delta \in -128 .. 127 THEN <<op, delta % 256>> ELSE Refused
            [] m # "rel" /\ ModeSize[m] = 1 -> <<op>>
            [] m # "rel" /\ ModeSize[m] = 2 -> <<op, value % 256>>
            [] OTHER -> <<op, value % 256, value \div 256>>
    BY DEF EncodeAsmInstruction
  <1> HIDE DEF delta
  <1>5. QED
    BY <1>3, <1>4

\* A statement is assembled to bytes.
LEMMA AssembledIs ==
  ASSUME NEW a \in Addresses, NEW stmt \in Statements
  PROVE  AssembleOne(a, stmt) \in Seq(Bytes)
  <1> DEFINE text == stmt.operand
             value == IF text.values = <<>> THEN 0 ELSE text.values[1]
             mode == ParsedMode[text.form]
             ops == asmOpcodesByMnemonic[stmt.mnemonic]
             accepted == stmt.mnemonic \in DOMAIN asmOpcodesByMnemonic /\ text.form \in Forms
                           /\ (mode \in ByteModes => value <= 255)
             as == ResolveAsmOpcode(DOMAIN ops, mode, value)
             m == CHOOSE x \in as : TRUE
  <1>1. text \in Operands /\ text.values \in Seq(Addresses)
    BY DEF Statements, Operands
  <1>2. value \in Addresses
    <2>1. 0 \in Addresses
      BY InWords
    <2>2. text.values # <<>> => text.values[1] \in Addresses
      BY <1>1, EmptySeq, LenProperties, ElementOfSeq
    <2>3. QED
      BY <2>1, <2>2
  <1>3. AssembleOne(a, stmt) =
          CASE isDataMnemonic(stmt.mnemonic) ->
                 IF \A i \in DOMAIN text.values : text.values[i] <= 255 THEN text.values ELSE Refused
            [] ~isDataMnemonic(stmt.mnemonic) /\ accepted /\ as # {} ->
                 EncodeAsmInstruction(ops[m], m, value, a)
            [] OTHER -> Refused
    BY DEF AssembleOne
  <1>4. ASSUME accepted, as # {}
        PROVE  EncodeAsmInstruction(ops[m], m, value, a) \in Seq(Bytes)
    <2>1. PICK op \in Opcodes \ Unknown : stmt.mnemonic = MnemonicOf[op]
      BY <1>4 DEF asmOpcodesByMnemonic
    <2>2. m \in DOMAIN ops
      <3>1. as \subseteq DOMAIN ops
        BY ResolvedIs
      <3> HIDE DEF as, ops
      <3>2. m \in as
        BY <1>4
      <3>3. QED
        BY <3>1, <3>2
    <2>3. ops[m] \in Opcodes /\ m \in Modes
      BY <2>1, <2>2, OpcodeIs
    <2> HIDE DEF ops, m, value
    <2>4. QED
      BY <2>3, <1>2, EncodedIs
  <1>5. ASSUME \A i \in DOMAIN text.values : text.values[i] <= 255
        PROVE  text.values \in Seq(Bytes)
    <2> DEFINE s == text.values
    <2>1. s \in Seq(Addresses) /\ Len(s) \in Nat /\ DOMAIN s = 1 .. Len(s)
      BY <1>1, LenProperties
    <2>2. \A i \in 1 .. Len(s) : s[i] \in Addresses
      BY <2>1, ElementOfSeq
    <2>3. \A i \in 1 .. Len(s) : s[i] \in Nat /\ s[i] <= 255
      BY <1>5, <2>1, <2>2, WordIs
    <2>4. \A i \in 1 .. Len(s) : s[i] \in Bytes
      <3>1. \A v \in Nat : v <= 255 => v \in Bytes
        BY DEF Bytes
      <3> HIDE DEF s
      <3>2. QED
        BY <2>3, <3>1
    <2> HIDE DEF s
    <2>5. s \in Seq(Bytes)
      BY <2>1, <2>4
    <2>6. QED
      BY <2>5 DEF s
  <1>6. Refused \in Seq(Bytes)
    BY EmptySeq DEF Refused
  <1> HIDE DEF text, value, mode, ops, accepted, as, m
  <1>7. QED
    BY <1>3, <1>4, <1>5, <1>6
\* What is left of an instruction that is assembled again, all of whose bytes were read.
Shortened(raw, bytes) ==
  /\ \E zp \in Opcodes : /\ MnemonicOf[zp] = MnemonicOf[raw[1]]
                         /\ <<ModeOf[zp], ModeOf[raw[1]]>> \in
                              {<<"zpg", "abs">>, <<"zpx", "abx">>, <<"zpy", "aby">>}
  /\ Len(raw) = 3 /\ raw[3] = 0 /\ Len(bytes) = 2 /\ bytes[2] = raw[2]

LeavesMemory(a, raw) ==
  ModeOf[raw[1]] = "rel" /\ a + 2 + Signed(raw[2]) \notin Addresses

\* The target of a branch is as far from it as its operand says, unless it is around
\* the end of memory.
LEMMA BranchIs ==
  ASSUME NEW a \in Addresses, NEW b \in Bytes
  PROVE  LET delta == Wrap(a + 2 + Signed(b)) - a - 2
         IN  IF a + 2 + Signed(b) \in Addresses
             THEN delta \in -128 .. 127 /\ delta % 256 = b
             ELSE delta \notin -128 .. 127
  <1> DEFINE v == a + 2 + Signed(b)
             s == Signed(b)
  <1>1. a \in Nat /\ a <= 65535 /\ s \in -128 .. 127 /\ s % 256 = b /\ s \in Int
    BY WordIs, SignedIs
  <1> HIDE DEF s
  <1>2. v \in Int /\ v = a + 2 + s
    BY <1>1 DEF s
  <1>3. CASE v \in Addresses
    <2> DEFINE d == Wrap(v) - a - 2
    <2>1. d = s
      BY <1>1, <1>2, <1>3, WrapIs
    <2> HIDE DEF v, d
    <2>2. d \in -128 .. 127 /\ d % 256 = b
      BY <2>1, <1>1
    <2>3. QED
      BY <2>2, <1>3 DEF v, d
  <1>4. CASE v \notin Addresses
    <2>1. Wrap(v) \in Addresses
      BY <1>2, WrapIs
    <2>2. Wrap(v) \in Nat /\ Wrap(v) <= 65535
      BY <2>1, WordIs
    <2>3. v < 0 \/ v > 65535
      BY <1>2, <1>4, InWords
    <2>4. v < 0 => Wrap(v) = v + 65536
      BY <1>1, <1>2 DEF Wrap, Word
    <2>5. v > 65535 => Wrap(v) = v - 65536
      BY <1>1, <1>2 DEF Wrap, Word
    <2>6. Wrap(v) - a - 2 > 127 \/ Wrap(v) - a - 2 < -128
      BY <1>1, <1>2, <2>2, <2>3, <2>4, <2>5
    <2>7. Wrap(v) - a - 2 \notin -128 .. 127
      BY <2>6
    <2>8. QED
      BY <2>7, <1>4
  <1> HIDE DEF v
  <1>5. QED
    BY <1>3, <1>4 DEF v
\* Short sequences.
LEMMA ShortSeq ==
  ASSUME NEW X, NEW s \in Seq(X)
  PROVE  /\ Len(s) = 1 => s = <<s[1]>>
         /\ Len(s) = 2 => s = <<s[1], s[2]>> /\ s[2] \in X
         /\ Len(s) = 3 => s = <<s[1], s[2], s[3]>> /\ s[2] \in X /\ s[3] \in X
  OBVIOUS

\* The notation of each mode, and the mode it is read as.
Notation(mode) ==
  CASE mode = "imp" -> "none" [] mode = "acc" -> "A" [] mode = "imm" -> "#"
    [] mode = "inx" -> "(mem,X)" [] mode = "iny" -> "(mem),Y" [] mode = "ind" -> "(mem)"
    [] mode \in {"abs", "zpg", "rel"} -> "mem"
    [] mode \in {"abx", "zpx"} -> "mem,X"
    [] mode \in {"aby", "zpy"} -> "mem,Y"

Reading(mode) ==
  CASE mode \in {"abs", "zpg", "rel"} -> "mem"
    [] mode \in {"abx", "zpx"} -> "memx"
    [] mode \in {"aby", "zpy"} -> "memy"
    [] OTHER -> mode

\* Each notation is read as its mode.
LEMMA ReadAs ==
  ASSUME NEW mode \in Modes
  PROVE  Notation(mode) \in Forms /\ ParsedMode[Notation(mode)] = Reading(mode)
  BY DEF ParsedMode, Forms, Notation, Reading, Modes, OneByte, TwoBytes, ThreeBytes

\* The notation and the value of the operand of an instruction.
LEMMA FormattedIs ==
  ASSUME NEW a, NEW raw, NEW mode \in Modes, Len(raw) = ModeSize[mode]
  PROVE  /\ FormatOperand(mode, a, raw)[1].form = Notation(mode)
         /\ FormatOperand(mode, a, raw)[1].values =
               IF mode \in OneByte THEN <<>>
               ELSE IF mode = "rel" THEN <<Wrap(a + 2 + Signed(raw[2]))>>
               ELSE IF mode \in TwoBytes THEN <<raw[2]>>
               ELSE <<WordOf(raw[2], raw[3])>>
  <1>1. CASE mode \in OneByte
    BY <1>1 DEF FormatOperand, Bare, Notation, OneByte
  <1>2. CASE mode \in TwoBytes
    <2>1. ModeSize[mode] = 2
      BY <1>2, ModesAre
    <2>2. 2 <= Len(raw) /\ mode \notin OneByte
      BY <1>2, <2>1 DEF OneByte, TwoBytes
    <2>3. QED
      BY <1>2, <2>2 DEF FormatOperand, Operand, Notation, TwoBytes
  <1>3. CASE mode \in ThreeBytes
    <2>1. ModeSize[mode] = 3
      BY <1>3, ModesAre
    <2>2. 2 <= Len(raw) /\ 3 <= Len(raw) /\ mode \notin OneByte /\ mode \notin TwoBytes
      BY <1>3, <2>1 DEF OneByte, TwoBytes, ThreeBytes
    <2>3. QED
      BY <1>3, <2>2 DEF FormatOperand, Operand, Notation, ThreeBytes
  <1>4. QED
    BY <1>1, <1>2, <1>3 DEF Modes

\* An instruction all of whose bytes were read is assembled to what it was, but for an
\* address of the zero page written with four digits and a branch around the end of memory.
LEMMA RoundTrip ==
  ASSUME NEW a \in Addresses, NEW raw \in Raws, Len(raw) = ModeSize[ModeOf[raw[1]]]
  PROVE  LET bytes == AssembleOne(a, Statement(DecodedInstruction(a, raw)))
         IN  \/ bytes = raw
             \/ LeavesMemory(a, raw) /\ bytes = <<>>
             \/ Shortened(raw, bytes)
  <1> DEFINE op == raw[1]
             mode == ModeOf[op]
             stmt == Statement(DecodedInstruction(a, raw))
             bytes == AssembleOne(a, stmt)
  <1>1. op \in Opcodes /\ mode \in Modes /\ raw \in Seq(Bytes) /\ Len(raw) = ModeSize[mode]
        /\ \A i \in 1 .. Len(raw) : raw[i] \in Bytes
    BY BytesOf
  <1>2. CASE op \in Unknown
    <2>1. mode = "imp" /\ Len(raw) = 1
      BY <1>1, <1>2, TableIs, ModesAre DEF OneByte
    <2>2. raw = <<op>>
      BY <1>1, <2>1
    <2>3. stmt = [mnemonic |-> ".DB", operand |-> Operand("data", 2, op)]
      BY <1>2 DEF Statement, DecodedInstruction
    <2>4. stmt.mnemonic = ".DB" /\ stmt.operand.values = <<op>>
      BY <2>3 DEF Operand
    <2> HIDE DEF stmt, op
    <2>5. op <= 255
      BY <1>1 DEF Opcodes
    <2>6. bytes = <<op>>
      BY <2>4, <2>5 DEF AssembleOne, isDataMnemonic
    <2>7. QED
      BY <2>2, <2>6 DEF stmt
  <1>3. CASE op \notin Unknown
    <2> DEFINE text == FormatOperand(mode, a, raw)[1]
               mn == MnemonicOf[op]
               value == IF text.values = <<>> THEN 0 ELSE text.values[1]
               parsed == ParsedMode[text.form]
               ops == asmOpcodesByMnemonic[mn]
               as == ResolveAsmOpcode(DOMAIN ops, parsed, value)
    <2>1. stmt.mnemonic = mn /\ stmt.operand = text
      BY <1>3 DEF Statement, DecodedInstruction
    <2>2. /\ mn \in DOMAIN asmOpcodesByMnemonic /\ ~isDataMnemonic(mn)
          /\ mode \in DOMAIN ops /\ ops[mode] = op
          /\ mode = "rel" => DOMAIN ops = {"rel"}
          /\ \A m \in DOMAIN ops : m \in Modes /\ ops[m] \in Opcodes /\ ModeOf[ops[m]] = m
                                     /\ MnemonicOf[ops[m]] = mn
      BY <1>1, <1>3, TableIs, OpcodeIs
    <2>3. ASSUME NEW m, as = {m}, text.form \in Forms, parsed \in ByteModes => value <= 255
          PROVE  bytes = EncodeAsmInstruction(ops[m], m, value, a)
      <3> DEFINE chosen == CHOOSE x \in as : TRUE
      <3>1. chosen = m /\ as # {}
        BY <2>3
      <3> HIDE DEF stmt, text, as, parsed, value, ops, mn
      <3>2. bytes = EncodeAsmInstruction(ops[chosen], chosen, value, a)
        BY <2>1, <2>2, <2>3, <3>1 DEF AssembleOne, as, parsed, value, ops
      <3>3. QED
        BY <3>1, <3>2
    <2>4. /\ text.form = Notation(mode) /\ text.form \in Forms /\ parsed = Reading(mode)
          /\ text.values = IF mode \in OneByte THEN <<>>
                           ELSE IF mode = "rel" THEN <<Wrap(a + 2 + Signed(raw[2]))>>
                           ELSE IF mode \in TwoBytes THEN <<raw[2]>>
                           ELSE <<WordOf(raw[2], raw[3])>>
      <3> HIDE DEF mode
      <3>1. QED
        BY <1>1, FormattedIs, ReadAs
    <2>5. ASSUME as = {mode}, parsed \in ByteModes => value <= 255
          PROVE  bytes = EncodeAsmInstruction(op, mode, value, a)
      BY <2>2, <2>3, <2>4, <2>5
    <2> HIDE DEF text, stmt, op, mode, ops, mn
    <2>6. CASE mode \in OneByte
      <3>1. ModeSize[mode] = 1 /\ mode \in {"imp", "acc"}
        BY <2>6, ModesAre DEF OneByte
      <3>2. raw = <<op>>
        BY <1>1, <3>1, ShortSeq DEF op
      <3>3. parsed = mode
        BY <2>4, <3>1 DEF Reading
      <3> HIDE DEF parsed, value
      <3>4. as = {mode} /\ parsed \notin ByteModes
        BY <2>2, <3>1, <3>3 DEF ResolveAsmOpcode, ByteModes
      <3>5. bytes = EncodeAsmInstruction(op, mode, value, a)
        BY <2>5, <3>4
      <3>6. EncodeAsmInstruction(op, mode, value, a) = <<op>>
        BY <3>1 DEF EncodeAsmInstruction
      <3>7. QED
        BY <3>2, <3>5, <3>6 DEF stmt
    <2>7. CASE mode \in TwoBytes
      <3> DEFINE b == raw[2]
      <3>1. ModeSize[mode] = 2 /\ mode \notin OneByte
        BY <2>7, ModesAre DEF OneByte, TwoBytes
      <3>2. raw = <<op, b>> /\ b \in Bytes /\ Len(raw) = 2
        BY <1>1, <3>1, ShortSeq DEF op
      <3>3. b % 256 = b /\ b <= 255
        <4> HIDE DEF b
        <4>1. QED
          BY <3>2 DEF Bytes
      <3>4. CASE mode # "rel"
        <4>1. text.values = <<b>> /\ mode \in {"imm", "inx", "iny", "zpg", "zpx", "zpy"}
          BY <2>4, <2>7, <3>1, <3>4 DEF TwoBytes
        <4> HIDE DEF b
        <4>2. value = b
          BY <4>1
        <4>3. parsed = CASE mode = "zpg" -> "mem" [] mode = "zpx" -> "memx" [] mode = "zpy" -> "memy"
                         [] OTHER -> mode
          BY <2>4, <4>1 DEF Reading
        <4> HIDE DEF value, parsed
        <4>4. as = {mode}
          BY <2>2, <3>3, <4>1, <4>2, <4>3 DEF ResolveAsmOpcode
        <4> HIDE DEF as
        <4>5. bytes = EncodeAsmInstruction(op, mode, value, a)
          BY <2>5, <3>3, <4>2, <4>4
        <4>6. EncodeAsmInstruction(op, mode, value, a) = <<op, b>>
          BY <3>1, <3>3, <3>4, <4>2 DEF EncodeAsmInstruction
        <4>7. QED
          BY <3>2, <4>5, <4>6 DEF stmt
      <3>5. CASE mode = "rel"
        <4> DEFINE target == Wrap(a + 2 + Signed(b))
        <4>1. text.values = <<target>>
          BY <2>4, <3>1, <3>5
        <4>2. IF a + 2 + Signed(b) \in Addresses
              THEN target - a - 2 \in -128 .. 127 /\ (target - a - 2) % 256 = b
              ELSE target - a - 2 \notin -128 .. 127
          BY <3>2, BranchIs
        <4> HIDE DEF target
        <4>3. value = target
          BY <4>1
        <4> HIDE DEF value, parsed
        <4>10. parsed = "mem"
          BY <2>4, <3>5 DEF Reading
        <4>4. as = {mode} /\ parsed \notin ByteModes
          BY <2>2, <3>5, <4>10 DEF ResolveAsmOpcode, ByteModes
        <4> HIDE DEF as
        <4>5. bytes = EncodeAsmInstruction(op, "rel", target, a)
          BY <2>5, <3>5, <4>3, <4>4
        <4>6. EncodeAsmInstruction(op, "rel", target, a) =
                IF target - a - 2 \in -128 .. 127 THEN <<op, (target - a - 2) % 256>> ELSE <<>>
          BY DEF EncodeAsmInstruction, Refused
        <4> HIDE DEF b
        <4>7. CASE a + 2 + Signed(b) \in Addresses
          <5>1. bytes = raw
            BY <3>2, <4>2, <4>5, <4>6, <4>7
          <5>2. QED
            BY <5>1 DEF stmt
        <4>8. CASE a + 2 + Signed(b) \notin Addresses
          <5>1. bytes = <<>>
            BY <4>2, <4>5, <4>6, <4>8
          <5>2. LeavesMemory(a, raw)
            BY <3>5, <4>8 DEF LeavesMemory, b, mode, op
          <5>3. QED
            BY <5>1, <5>2 DEF stmt
        <4>9. QED
          BY <4>7, <4>8
      <3>6. QED
        BY <3>4, <3>5
    <2>8. CASE mode \in ThreeBytes
      <3> DEFINE lo == raw[2]
                 hi == raw[3]
                 word == WordOf(lo, hi)
      <3>1. ModeSize[mode] = 3 /\ mode \in {"abs", "abx", "aby", "ind"}
            /\ mode \notin OneByte \cup TwoBytes /\ mode # "rel"
        BY <2>8, ModesAre DEF OneByte, TwoBytes, ThreeBytes
      <3>2. raw = <<op, lo, hi>> /\ lo \in Bytes /\ hi \in Bytes /\ Len(raw) = 3
        BY <1>1, <3>1, ShortSeq DEF op
      <3>3. /\ word \in Addresses /\ word % 256 = lo /\ word \div 256 = hi /\ lo % 256 = lo
            /\ word <= 255 => hi = 0 /\ word = lo
        BY <3>2, WordOfIs, WordParts
      <3>4. text.values = <<word>>
        BY <2>4, <3>1
      <3> HIDE DEF word, lo, hi
      <3>5. value = word
        BY <3>4
      <3>6. parsed = CASE mode = "abs" -> "mem" [] mode = "abx" -> "memx" [] mode = "aby" -> "memy"
                       [] OTHER -> "ind"
        BY <2>4, <3>1 DEF Reading
      <3> DEFINE zp == CASE mode = "abs" -> "zpg" [] mode = "abx" -> "zpx" [] mode = "aby" -> "zpy"
                         [] OTHER -> "none"
      <3> HIDE DEF value, parsed
      <3>7. parsed \notin ByteModes
        BY <3>1, <3>6 DEF ByteModes
      <3>8. CASE mode # "ind" /\ word <= 255 /\ zp \in DOMAIN ops
        <4>1. as = {zp}
          BY <2>2, <3>1, <3>5, <3>6, <3>8 DEF ResolveAsmOpcode
        <4>2. zp \in {"zpg", "zpx", "zpy"}
          BY <3>1, <3>8
        <4>3. <<zp, mode>> \in {<<"zpg", "abs">>, <<"zpx", "abx">>, <<"zpy", "aby">>}
          BY <3>1, <3>8
        <4>4. /\ ops[zp] \in Opcodes /\ ModeOf[ops[zp]] = zp /\ MnemonicOf[ops[zp]] = mn
          BY <2>2, <3>8
        <4>5. ModeSize[zp] = 2 /\ zp # "rel"
          BY <4>2, ModesAre DEF TwoBytes
        <4> HIDE DEF as, zp
        <4>6. bytes = EncodeAsmInstruction(ops[zp], zp, word, a)
          BY <2>3, <2>4, <3>5, <3>7, <4>1
        <4>7. EncodeAsmInstruction(ops[zp], zp, word, a) = <<ops[zp], lo>>
          BY <3>3, <3>8, <4>5 DEF EncodeAsmInstruction
        <4>8. bytes = <<ops[zp], lo>> /\ hi = 0
          BY <3>3, <3>8, <4>6, <4>7
        <4> HIDE DEF bytes
        <4>9. Len(raw) = 3 /\ raw[3] = 0 /\ Len(bytes) = 2 /\ bytes[2] = raw[2]
          BY <3>2, <4>8 DEF lo, hi
        <4>10. Shortened(raw, bytes)
          BY <4>3, <4>4, <4>9 DEF Shortened, mode, op, mn
        <4>11. QED
          BY <4>10 DEF stmt, bytes
      <3>9. CASE ~(mode # "ind" /\ word <= 255 /\ zp \in DOMAIN ops)
        <4>1. as = {mode}
          BY <2>2, <3>1, <3>5, <3>6, <3>9 DEF ResolveAsmOpcode
        <4> HIDE DEF as, zp
        <4>2. bytes = EncodeAsmInstruction(op, mode, word, a)
          BY <2>5, <3>5, <3>7, <4>1
        <4>3. EncodeAsmInstruction(op, mode, word, a) = <<op, lo, hi>>
          BY <3>1, <3>3 DEF EncodeAsmInstruction
        <4>4. QED
          BY <3>2, <4>2, <4>3 DEF stmt
      <3>10. QED
        BY <3>8, <3>9
    <2>9. QED
      BY <1>1, <2>6, <2>7, <2>8 DEF Modes, mode, op
  <1>4. QED
    BY <1>2, <1>3

(***************************************************************************)
(* Recursive functions that look ahead, and induction from the end.        *)
(***************************************************************************)

\* A set of natural numbers that is not empty has a least one.
LEMMA LeastOf ==
  ASSUME NEW S \in SUBSET Nat, S # {}
  PROVE  \E x \in S : \A y \in S : x <= y
  <1> DEFINE R == {ss \in Nat \X Nat : ss[1] < ss[2]}
  <1>1. IsWellFoundedOn(R, Nat)
    BY NatLessThanWellFounded DEF OpToRel
  <1>2. PICK x \in S : \A y \in S : <<y, x>> \notin R
    BY <1>1, WFMin
  <1>3. \A y \in S : x <= y
    <2> TAKE y \in S
    <2>1. x \in Nat /\ y \in Nat /\ <<y, x>> \in Nat \X Nat
      BY <1>2
    <2>2. <<y, x>>[1] = y /\ <<y, x>>[2] = x
      OBVIOUS
    <2>3. ~(y < x)
      BY <1>2, <2>1, <2>2
    <2>4. QED
      BY <2>1, <2>3
  <1>4. QED
    BY <1>3

\* Induction from n down, with all larger numbers as the hypothesis.
LEMMA FromTheEnd ==
  ASSUME NEW n \in Nat, NEW G, \A i \in 1 .. n : (\A j \in 1 .. n : j > i => j \in G) => i \in G
  PROVE  1 .. n \subseteq G
  <1> DEFINE B == {m \in 0 .. n : m < n /\ n - m \notin G}
  <1>1. ASSUME B # {} PROVE FALSE
    <2>1. B \in SUBSET Nat
      OBVIOUS
    <2>2. PICK x \in B : \A y \in B : x <= y
      BY <1>1, <2>1, LeastOf
    <2>3. x \in 0 .. n /\ x < n /\ n - x \in 1 .. n /\ n - x \notin G
      OBVIOUS
    <2>4. ASSUME NEW j \in 1 .. n, j > n - x PROVE j \in G
      <3>1. n - j \in 0 .. n /\ n - j < n /\ ~(x <= n - j) /\ n - (n - j) = j
        BY <2>3, <2>4
      <3>2. n - j \notin B
        BY <2>2, <3>1
      <3>3. QED
        BY <3>1, <3>2
    <2>5. QED
      BY <2>3, <2>4
  <1>2. ASSUME NEW i \in 1 .. n PROVE i \in G
    <2>1. n - i \in 0 .. n /\ n - i < n /\ n - (n - i) = i
      OBVIOUS
    <2>2. n - i \notin B
      BY <1>1
    <2>3. QED
      BY <2>1, <2>2
  <1>3. QED
    BY <1>2

\* Induction up to n, on the set of numbers for which something holds.
LEMMA UpTo ==
  ASSUME NEW n \in Nat, NEW G, 0 \in G, \A i \in 1 .. n : i - 1 \in G => i \in G
  PROVE  0 .. n \subseteq G
  <1> DEFINE B == {i \in 0 .. n : i \notin G}
  <1>1. ASSUME B # {} PROVE FALSE
    <2>1. B \in SUBSET Nat
      OBVIOUS
    <2>2. PICK x \in B : \A y \in B : x <= y
      BY <1>1, <2>1, LeastOf
    <2>3. x \in 1 .. n /\ x \notin G
      OBVIOUS
    <2>4. x - 1 \in 0 .. n /\ x - 1 \notin B
      BY <2>2, <2>3
    <2>5. QED
      BY <2>3, <2>4
  <1>2. QED
    BY <1>1

\* A step p that uses only what was computed for larger numbers.
LooksAhead(step, n, X) ==
  /\ step \in [1 .. n -> [[1 .. n -> X] -> X]]
  /\ \A p \in 1 .. n : \A g, h \in [1 .. n -> X] :
        (\A q \in 1 .. n : q > p => g[q] = h[q]) => step[p][g] = step[p][h]

\* A function computed by the steps.
Computes(f, step, n) == \A p \in 1 .. n : f[p] = step[p][f]

\* Such steps compute a function, so that a recursive definition, which is a CHOOSE, has the
\* value its body says.
LEMMA Recursion ==
  ASSUME NEW n \in Nat, NEW X, X # {}, NEW step, LooksAhead(step, n, X)
  PROVE  \E f \in [1 .. n -> X] : Computes(f, step, n)
  <1> USE DEF LooksAhead
  <1> PICK x0 \in X : TRUE
    OBVIOUS
  <1> DEFINE G == {m \in Nat : \E f \in [1 .. n -> X] :
                      \A p \in 1 .. n : p > n - m => f[p] = step[p][f]}
  <1>1. 0 \in G
    <2>1. [p \in 1 .. n |-> x0] \in [1 .. n -> X] /\ \A p \in 1 .. n : ~(p > n - 0)
      OBVIOUS
    <2>2. QED
      BY <2>1
  <1>2. ASSUME NEW m \in 1 .. n, m - 1 \in G PROVE m \in G
    <2>1. PICK g \in [1 .. n -> X] : \A p \in 1 .. n : p > n - (m - 1) => g[p] = step[p][g]
      BY <1>2
    <2> DEFINE r == n - m + 1
    <2>2. r \in 1 .. n /\ m \in Nat
      OBVIOUS
    <2> DEFINE v == step[r][g]
               f == [p \in 1 .. n |-> IF p = r THEN v ELSE g[p]]
    <2>3. v \in X
      BY <2>2
    <2> HIDE DEF v
    <2>4. f \in [1 .. n -> X] /\ f[r] = v /\ \A q \in 1 .. n : q > r => f[q] = g[q]
      BY <2>2, <2>3
    <2> HIDE DEF f
    <2>5. ASSUME NEW p \in 1 .. n, p > n - m PROVE f[p] = step[p][f]
      <3>1. \A q \in 1 .. n : q > p => f[q] = g[q]
        BY <2>2, <2>4, <2>5
      <3>2. step[p][f] = step[p][g]
        BY <2>4, <3>1
      <3>3. CASE p = r
        BY <2>4, <3>2, <3>3 DEF v
      <3>4. CASE p # r
        <4>1. p > n - (m - 1) /\ p > r
          BY <2>2, <2>5, <3>4
        <4>2. QED
          BY <2>1, <2>4, <3>2, <4>1
      <3>5. QED
        BY <3>3, <3>4
    <2>6. QED
      BY <2>2, <2>4, <2>5
  <1> HIDE DEF G
  <1>3. n \in G
    <2>1. n \in 0 .. n
      OBVIOUS
    <2>2. QED
      BY <1>1, <1>2, <2>1, UpTo
  <1>4. PICK f \in [1 .. n -> X] : \A p \in 1 .. n : p > n - n => f[p] = step[p][f]
    BY <1>3 DEF G
  <1>5. Computes(f, step, n)
    BY <1>4 DEF Computes
  <1>6. QED
    BY <1>5

(***************************************************************************)
(* Sequences.                                                              *)
(***************************************************************************)

\* The members of a sequence.
LEMMA InSeq ==
  ASSUME NEW X, NEW s \in Seq(X)
  PROVE  /\ Len(s) \in Nat /\ DOMAIN s = 1 .. Len(s) /\ \A i \in 1 .. Len(s) : s[i] \in X
         /\ (s = <<>> <=> Len(s) = 0)
  <1>1. Len(s) \in Nat /\ DOMAIN s = 1 .. Len(s) /\ \A i \in 1 .. Len(s) : s[i] \in X
    BY LenProperties, ElementOfSeq
  <1>2. s = <<>> <=> Len(s) = 0
    BY EmptySeq
  <1>3. QED
    BY <1>1, <1>2

\* A piece of a sequence.
LEMMA SubSeqIs ==
  ASSUME NEW X, NEW s \in Seq(X), NEW b \in Nat, NEW n \in Nat, b + n <= Len(s)
  PROVE  LET d == SubSeq(s, b + 1, b + n)
         IN  d \in Seq(X) /\ Len(d) = n /\ \A i \in 1 .. n : d[i] = s[b + i]
  <1> DEFINE lo == b + 1
             hi == b + n
             d == SubSeq(s, lo, hi)
  <1>1. lo \in Int /\ hi \in Int /\ hi - lo + 1 = n /\ (lo <= hi <=> n > 0)
        /\ \A i \in 1 .. n : lo + i - 1 = b + i
    OBVIOUS
  <1>2. \A i \in lo .. hi : s[i] \in X
    BY InSeq
  <1> HIDE DEF lo, hi
  <1>3. /\ d \in Seq(X) /\ Len(d) = (IF lo <= hi THEN hi - lo + 1 ELSE 0)
        /\ \A i \in 1 .. hi - lo + 1 : d[i] = s[lo + i - 1]
    BY <1>1, <1>2, SubSeqProperties
  <1> HIDE DEF d
  <1>4. d \in Seq(X) /\ Len(d) = n /\ \A i \in 1 .. n : d[i] = s[b + i]
    <2>1. Len(d) = n
      BY <1>1, <1>3
    <2>2. ASSUME NEW i \in 1 .. n PROVE d[i] = s[b + i]
      <3>1. i \in 1 .. hi - lo + 1 /\ lo + i - 1 = b + i
        BY <1>1
      <3>2. d[i] = s[lo + i - 1]
        BY <1>3, <3>1
      <3>3. QED
        BY <3>1, <3>2
    <2>3. QED
      BY <1>3, <2>1, <2>2
  <1>5. QED
    BY <1>4 DEF d, lo, hi

\* A sequence with one more member at its front.
LEMMA Fronted ==
  ASSUME NEW X, NEW x \in X, NEW t \in Seq(X)
  PROVE  LET s == <<x>> \o t
         IN  s \in Seq(X) /\ Len(s) = Len(t) + 1 /\ s[1] = x /\ \A k \in 1 .. Len(t) : s[k + 1] = t[k]
  <1>1. <<x>> \in Seq(X) /\ Len(<<x>>) = 1 /\ <<x>>[1] = x
    OBVIOUS
  <1> DEFINE p == <<x>>
  <1>2. p \in Seq(X) /\ Len(p) = 1 /\ p[1] = x
    BY <1>1
  <1> HIDE DEF p
  <1>3. /\ p \o t \in Seq(X) /\ Len(p \o t) = Len(p) + Len(t)
        /\ \A i \in 1 .. Len(p) + Len(t) : (p \o t)[i] = IF i <= Len(p) THEN p[i] ELSE t[i - Len(p)]
    BY <1>2, ConcatProperties
  <1>4. Len(t) \in Nat
    BY LenProperties
  <1> DEFINE s == p \o t
  <1> HIDE DEF s
  <1>5. s \in Seq(X) /\ Len(s) = Len(t) + 1 /\ s[1] = x /\ \A k \in 1 .. Len(t) : s[k + 1] = t[k]
    BY <1>2, <1>3, <1>4 DEF s
  <1>6. QED
    BY <1>5 DEF s, p

(***************************************************************************)
(* What Decode finds.                                                      *)
(***************************************************************************)

\* The last byte of the instruction at i, as far as the bytes go, and that instruction.
End(data, i) ==
  LET e == i + ModeSize[ModeOf[data[i]]] - 1 IN IF e > Len(data) THEN Len(data) ELSE e
PieceAt(a, data, i) == DecodedInstruction(Wrap(a + i - 1), SubSeq(data, i, End(data, i)))

\* The instructions d are those of the bytes from i on, at their places.
Chain(a, data, i, d, places) ==
  /\ d \in Seq(Instructions) /\ places \in Seq(1 .. Len(data) + 1) /\ Len(places) = Len(d) + 1
  /\ places[1] = i /\ places[Len(places)] = Len(data) + 1
  /\ \A k \in 1 .. Len(d) :
        /\ places[k] <= Len(data) /\ places[k + 1] = End(data, places[k]) + 1
        /\ d[k] = PieceAt(a, data, places[k])

\* An instruction has a byte, and as many as were read of those of its mode.
LEMMA EndIs ==
  ASSUME NEW data \in Seq(Bytes), NEW i \in 1 .. Len(data)
  PROVE  /\ End(data, i) \in i .. Len(data) /\ End(data, i) <= i + 2
         /\ ModeSize[ModeOf[data[i]]] \in 1 .. 3
         /\ End(data, i) - i + 1 <= ModeSize[ModeOf[data[i]]]
         /\ End(data, i) < Len(data) => End(data, i) - i + 1 = ModeSize[ModeOf[data[i]]]
         /\ i + 2 <= Len(data) => End(data, i) - i + 1 = ModeSize[ModeOf[data[i]]]
  <1> DEFINE m == ModeSize[ModeOf[data[i]]]
  <1>1. Len(data) \in Nat /\ data[i] \in Bytes
    BY InSeq
  <1>2. data[i] \in Opcodes
    BY <1>1 DEF Opcodes, Bytes
  <1>3. m \in 1 .. 3
    BY <1>2, TableIs, ModesAre
  <1> DEFINE e == End(data, i)
             l == Len(data)
  <1>4. e = IF i + m - 1 > l THEN l ELSE i + m - 1
    BY DEF End
  <1>5. l \in Nat /\ i \in 1 .. l /\ m \in {1, 2, 3}
    BY <1>1, <1>3
  <1> HIDE DEF m, e, l
  <1>6. e \in i .. l /\ e <= i + 2 /\ e - i + 1 <= m
    BY <1>4, <1>5
  <1>7. e < l => e - i + 1 = m
    BY <1>4, <1>5
  <1>8. i + 2 <= l => e - i + 1 = m
    BY <1>4, <1>5
  <1>9. QED
    BY <1>3, <1>4, <1>6, <1>7, <1>8 DEF m, e, l

\* The instruction at i.
LEMMA PieceIs ==
  ASSUME NEW a \in Int, NEW data \in Seq(Bytes), NEW i \in 1 .. Len(data)
  PROVE  /\ PieceAt(a, data, i) \in Instructions
         /\ PieceAt(a, data, i).addr = Wrap(a + i - 1)
         /\ Len(PieceAt(a, data, i).raw) = End(data, i) - i + 1
         /\ PieceAt(a, data, i).raw[1] = data[i]
  <1> DEFINE raw == SubSeq(data, i, End(data, i))
             b == i - 1
             n == End(data, i) - i + 1
             e == End(data, i)
             m == ModeSize[ModeOf[data[i]]]
  <1>1. Len(data) \in Nat /\ i \in Int
    BY InSeq
  <1>11. e \in i .. Len(data) /\ e - i + 1 <= m /\ n = e - i + 1
    BY EndIs
  <1> HIDE DEF e, m, n
  <1>12. b \in Nat /\ n \in Nat /\ b + n <= Len(data) /\ b + 1 = i /\ b + n = e /\ n >= 1
        /\ n <= m /\ 1 \in 1 .. n
    BY <1>1, <1>11
  <1>2. b \in Nat /\ n \in Nat /\ b + n <= Len(data) /\ b + 1 = i /\ b + n = End(data, i) /\ n >= 1
        /\ n <= ModeSize[ModeOf[data[i]]] /\ 1 \in 1 .. n /\ n = End(data, i) - i + 1
    BY <1>11, <1>12 DEF e, m
  <1>3. raw \in Seq(Bytes) /\ Len(raw) = n /\ \A j \in 1 .. n : raw[j] = data[b + j]
    <2> HIDE DEF b
    <2>1. SubSeq(data, b + 1, b + n) \in Seq(Bytes) /\ Len(SubSeq(data, b + 1, b + n)) = n
          /\ \A j \in 1 .. n : SubSeq(data, b + 1, b + n)[j] = data[b + j]
      <3>1. b \in Nat /\ n \in Nat /\ b + n <= Len(data)
        BY <1>2
      <3>2. QED
        BY ONLY <3>1, data \in Seq(Bytes), SubSeqIs
    <2>2. QED
      BY <1>2, <2>1
  <1>4. raw[1] = data[i]
    BY <1>2, <1>3
  <1> HIDE DEF raw, b
  <1>5. raw \in Raws
    BY <1>2, <1>3, <1>4 DEF Raws
  <1>6. Wrap(a + i - 1) \in Addresses
    <2>1. a + i - 1 \in Int
      BY <1>1
    <2>2. QED
      BY <2>1, WrapIs
  <1>7. PieceAt(a, data, i) = DecodedInstruction(Wrap(a + i - 1), raw)
    BY DEF PieceAt, raw
  <1> DEFINE pc == Wrap(a + i - 1)
  <1>8. pc \in Addresses /\ PieceAt(a, data, i) = DecodedInstruction(pc, raw)
    BY <1>6, <1>7
  <1> HIDE DEF pc
  <1>9. PieceAt(a, data, i) \in Instructions /\ PieceAt(a, data, i).addr = pc
        /\ PieceAt(a, data, i).raw = raw
    BY <1>5, <1>8, DecodedIs
  <1>10. QED
    BY <1>2, <1>3, <1>4, <1>9 DEF pc

\* One more instruction at the front of a chain.
LEMMA ChainStep ==
  ASSUME NEW a \in Int, NEW data \in Seq(Bytes), NEW i \in 1 .. Len(data), NEW d, NEW places,
         Chain(a, data, End(data, i) + 1, d, places)
  PROVE  Chain(a, data, i, <<PieceAt(a, data, i)>> \o d, <<i>> \o places)
  <1> DEFINE s == <<PieceAt(a, data, i)>> \o d
             p == <<i>> \o places
             X == 1 .. Len(data) + 1
  <1>1. d \in Seq(Instructions) /\ places \in Seq(X) /\ Len(places) = Len(d) + 1
        /\ places[1] = End(data, i) + 1 /\ places[Len(places)] = Len(data) + 1
        /\ \A k \in 1 .. Len(d) :
              /\ places[k] <= Len(data) /\ places[k + 1] = End(data, places[k]) + 1
              /\ d[k] = PieceAt(a, data, places[k])
    BY DEF Chain
  <1>2. Len(data) \in Nat /\ i \in X /\ i <= Len(data) /\ Len(d) \in Nat
    BY <1>1, InSeq
  <1> HIDE DEF X
  <1>3. s \in Seq(Instructions) /\ Len(s) = Len(d) + 1 /\ s[1] = PieceAt(a, data, i)
        /\ \A k \in 1 .. Len(d) : s[k + 1] = d[k]
    BY <1>1, PieceIs, Fronted
  <1>4. p \in Seq(X) /\ Len(p) = Len(places) + 1 /\ p[1] = i
        /\ \A k \in 1 .. Len(places) : p[k + 1] = places[k]
    BY <1>1, <1>2, Fronted
  <1> HIDE DEF s, p
  <1>5. p[Len(p)] = Len(data) + 1
    BY <1>1, <1>2, <1>4
  <1>6. ASSUME NEW k \in 1 .. Len(s)
        PROVE  /\ p[k] <= Len(data) /\ p[k + 1] = End(data, p[k]) + 1
               /\ s[k] = PieceAt(a, data, p[k])
    <2>1. CASE k = 1
      <3>1. p[1 + 1] = places[1]
        BY <1>1, <1>2, <1>4
      <3>2. QED
        BY <1>1, <1>2, <1>3, <1>4, <2>1, <3>1
    <2>2. CASE k # 1
      <3> DEFINE j == k - 1
      <3>1. j \in 1 .. Len(d) /\ j \in 1 .. Len(places) /\ j + 1 \in 1 .. Len(places) /\ k = j + 1
        BY <1>1, <1>2, <1>3, <2>2
      <3> HIDE DEF j
      <3>2. s[k] = d[j] /\ p[k] = places[j] /\ p[k + 1] = places[j + 1]
        BY <1>3, <1>4, <3>1
      <3>3. QED
        BY <1>1, <3>1, <3>2
    <2>3. QED
      BY <2>1, <2>2
  <1>7. Len(p) = Len(s) + 1
    BY <1>1, <1>2, <1>3, <1>4
  <1>8. Chain(a, data, i, s, p)
    BY <1>3, <1>4, <1>5, <1>6, <1>7 DEF Chain, X
  <1>9. QED
    BY <1>8 DEF s, p

\* Decode splits the bytes into instructions.
LEMMA DecodeIs ==
  ASSUME NEW a \in Int, NEW data \in Seq(Bytes)
  PROVE  \E places : Chain(a, data, 1, Decode(a, data), places)
  <1> DEFINE X == Seq(Instructions)
             l == Len(data)
             n == l + 1
             next(i) == End(data, i) + 1
             body(g, i) == IF i > l THEN <<>> ELSE <<PieceAt(a, data, i)>> \o g[next(i)]
             h == CHOOSE h : h = [i \in 1 .. n |-> body(h, i)]
             step == [i \in 1 .. n |-> [g \in [1 .. n -> X] |-> body(g, i)]]
  <1>1. Decode(a, data) = h[1]
    BY DEF Decode, PieceAt, End
  <1> HIDE DEF h
  <1>2. l \in Nat /\ n \in Nat
    BY InSeq
  <1>3. ASSUME NEW i \in 1 .. n, ~(i > l)
        PROVE  i \in 1 .. l /\ next(i) \in 1 .. n /\ next(i) > i /\ PieceAt(a, data, i) \in Instructions
    <2>1. i \in 1 .. l
      BY <1>2, <1>3
    <2> DEFINE e == End(data, i)
    <2>2. e \in i .. l /\ PieceAt(a, data, i) \in Instructions /\ next(i) = e + 1
      BY <2>1, EndIs, PieceIs
    <2> HIDE DEF next, e
    <2>3. QED
      BY <1>2, <2>1, <2>2
  <1> HIDE DEF next
  <1>4. ASSUME NEW i \in 1 .. n, NEW g \in [1 .. n -> X] PROVE body(g, i) \in X
    <2>1. CASE i > l
      BY <2>1, EmptySeq
    <2>2. CASE ~(i > l)
      <3>1. g[next(i)] \in X /\ PieceAt(a, data, i) \in Instructions
        BY <1>3, <2>2
      <3>2. QED
        BY <2>2, <3>1, Fronted
    <2>3. QED
      BY <2>1, <2>2
  <1>5. ASSUME NEW i \in 1 .. n, NEW g \in [1 .. n -> X], NEW k \in [1 .. n -> X],
               \A q \in 1 .. n : q > i => g[q] = k[q]
        PROVE  body(g, i) = body(k, i)
    <2>1. CASE i > l
      BY <2>1
    <2>2. CASE ~(i > l)
      <3>1. g[next(i)] = k[next(i)]
        BY <1>3, <1>5, <2>2
      <3>2. QED
        BY <2>2, <3>1
    <2>3. QED
      BY <2>1, <2>2
  <1> HIDE DEF body
  <1>7. \E f : f = [i \in 1 .. n |-> body(f, i)]
    <2>1. step \in [1 .. n -> [[1 .. n -> X] -> X]]
      BY <1>4
    <2>2. \A i \in 1 .. n : \A g \in [1 .. n -> X] : step[i][g] = body(g, i)
      OBVIOUS
    <2> HIDE DEF step
    <2>3. LooksAhead(step, n, X) /\ X # {}
      <3>1. X # {}
        BY EmptySeq
      <3>2. \A i \in 1 .. n : \A g, k \in [1 .. n -> X] :
               (\A q \in 1 .. n : q > i => g[q] = k[q]) => step[i][g] = step[i][k]
        <4>1. TAKE i \in 1 .. n
        <4>2. TAKE g, k \in [1 .. n -> X]
        <4>3. HAVE \A q \in 1 .. n : q > i => g[q] = k[q]
        <4>4. body(g, i) = body(k, i)
          BY <1>5, <4>3
        <4>5. QED
          BY <2>2, <4>4
      <3> HIDE DEF X
      <3>3. QED
        BY <2>1, <3>1, <3>2 DEF LooksAhead
    <2> HIDE DEF X, n
    <2>4. PICK f \in [1 .. n -> X] : Computes(f, step, n)
      BY <1>2, <2>3, Recursion
    <2>5. \A i \in 1 .. n : f[i] = body(f, i)
      BY <2>2, <2>4 DEF Computes
    <2>6. f = [i \in 1 .. n |-> body(f, i)]
      BY <2>4, <2>5
    <2>7. QED
      BY <2>6
  <1>8. h = [i \in 1 .. n |-> body(h, i)]
    BY <1>7 DEF h, body, next
  <1>9. \A i \in 1 .. n : h[i] = body(h, i)
    BY <1>8
  <1> DEFINE G == {i \in 1 .. n : \E places : Chain(a, data, i, h[i], places)}
  <1>10. ASSUME NEW i \in 1 .. n, \A j \in 1 .. n : j > i => j \in G PROVE i \in G
    <2>1. CASE i > l
      <3>0. h[i] = body(h, i)
        BY <1>9
      <3>5. i = l + 1
        BY <1>2, <2>1
      <3>1. h[i] = <<>> /\ i = l + 1
        BY <2>1, <3>0, <3>5 DEF body
      <3> DEFINE p == <<i>>
      <3>2. p \in Seq(1 .. l + 1) /\ Len(p) = 1 /\ p[1] = l + 1 /\ Len(<<>>) = 0
            /\ <<>> \in Seq(Instructions)
        BY <3>1, EmptySeq
      <3> HIDE DEF p
      <3>3. Chain(a, data, i, <<>>, p)
        BY <3>1, <3>2 DEF Chain
      <3>4. QED
        BY <3>1, <3>3
    <2>2. CASE ~(i > l)
      <3>1. i \in 1 .. l /\ next(i) \in G
        BY <1>3, <1>10, <2>2
      <3>2. PICK places : Chain(a, data, next(i), h[next(i)], places)
        BY <3>1
      <3>3. Chain(a, data, i, <<PieceAt(a, data, i)>> \o h[next(i)], <<i>> \o places)
        BY <3>1, <3>2, ChainStep DEF next
      <3>4. h[i] = <<PieceAt(a, data, i)>> \o h[next(i)]
        BY <1>9, <2>2 DEF body
      <3>5. QED
        BY <3>3, <3>4
    <2>3. QED
      BY <2>1, <2>2
  <1>11. 1 \in 1 .. n
    BY <1>2
  <1> HIDE DEF G, n
  <1>12. 1 .. n \subseteq G
    BY <1>2, <1>10, FromTheEnd
  <1>13. QED
    BY <1>1, <1>11, <1>12 DEF G

\* The least of a set of numbers.
LEMMA MinIs ==
  ASSUME NEW S \in SUBSET Nat, S # {}
  PROVE  Min(S) \in S /\ \A y \in S : Min(S) <= y
  <1>1. \E x \in S : \A y \in S : x <= y
    BY LeastOf
  <1>2. QED
    BY <1>1 DEF Min

\* A sequence cut before the first of some places.
LEMMA UpToFirstIs ==
  ASSUME NEW X, NEW d \in Seq(X), NEW S \in SUBSET (1 .. Len(d))
  PROVE  LET u == UpToFirst(d, S)
         IN  /\ u \in Seq(X) /\ Len(u) \in 0 .. Len(d) /\ \A i \in 1 .. Len(u) : u[i] = d[i]
             /\ \A i \in S : i > Len(u)
             /\ Len(u) = Len(d) \/ Len(u) + 1 \in S
  <1>1. Len(d) \in Nat
    BY InSeq
  <1>2. CASE S = {}
    BY <1>1, <1>2 DEF UpToFirst
  <1>3. CASE S # {}
    <2> DEFINE f == Min(S)
               l == Len(d)
               m == f - 1
               u == SubSeq(d, 0 + 1, 0 + m)
    <2>0. S \in SUBSET Nat /\ S \subseteq 1 .. l /\ l \in Nat
      BY <1>1
    <2>1. f \in S /\ \A y \in S : f <= y
      BY <1>3, <2>0, MinIs
    <2> HIDE DEF f, l
    <2>10. f \in 1 .. l
      BY <2>0, <2>1
    <2>11. \A i \in S : i > m
      <3> TAKE i \in S
      <3>1. i \in 1 .. l /\ f <= i
        BY <2>0, <2>1
      <3>2. QED
        BY <2>0, <2>10, <3>1
    <2>2. m \in Nat /\ 0 + m <= Len(d) /\ m + 1 \in S /\ \A i \in S : i > m
      BY <2>0, <2>1, <2>10, <2>11 DEF l
    <2>3. UpToFirst(d, S) = SubSeq(d, 1, m)
      BY <1>3 DEF UpToFirst, f
    <2>4. 0 + 1 = 1 /\ 0 + m = m
      BY <2>2
    <2> HIDE DEF m
    <2>5. UpToFirst(d, S) = u
      BY <2>3, <2>4
    <2>6. 0 \in Nat
      OBVIOUS
    <2>7. u \in Seq(X) /\ Len(u) = m /\ \A i \in 1 .. m : u[i] = d[0 + i]
      BY ONLY <2>2, <2>6, d \in Seq(X), SubSeqIs
    <2> HIDE DEF u
    <2>8. \A i \in 1 .. m : u[i] = d[i]
      BY <2>2, <2>7
    <2>9. QED
      BY <1>1, <2>2, <2>5, <2>7, <2>8
  <1>4. QED
    BY <1>2, <1>3

\* The rows are at places that rise.
Rising(rs) == \A i, j \in 1 .. Len(rs) : i < j => rs[i].addr < rs[j].addr

\* Not all bytes of an instruction were read.
Cut(ins) == Size(ins) < ModeSize[ModeOf[ins.raw[1]]]

\* An instruction and its address.
LEMMA InstructionIs ==
  ASSUME NEW ins \in Instructions
  PROVE  /\ ins.addr \in Addresses /\ ins.raw \in Raws /\ ins = DecodedInstruction(ins.addr, ins.raw)
         /\ Size(ins) \in 1 .. 3 /\ Statement(ins) \in Statements
         /\ Size(ins) <= ModeSize[ModeOf[ins.raw[1]]]
  <1>1. ins \in Decoded /\ ins = DecodedInstruction(ins.addr, ins.raw)
    BY DEF Instructions
  <1>2. ins.addr \in Addresses /\ ins.raw \in Raws /\ Statement(ins) \in Statements
    BY <1>1 DEF Decoded, Statement, Statements
  <1> DEFINE raw == ins.raw
             m == ModeSize[ModeOf[raw[1]]]
  <1>3. Len(raw) \in 1 .. m /\ ModeOf[raw[1]] \in Modes /\ Size(ins) = Len(raw)
    BY <1>2, BytesOf DEF Size
  <1>4. m \in 1 .. 3
    BY <1>3, ModesAre
  <1> HIDE DEF raw, m
  <1>5. Size(ins) \in 1 .. 3 /\ Size(ins) <= m
    BY <1>3, <1>4
  <1>6. QED
    BY <1>1, <1>2, <1>5 DEF m, raw

\* A row is found by its address.
LEMMA FindRowIs ==
  ASSUME NEW rs \in Seq(Instructions), Rising(rs), NEW a
  PROVE  /\ \/ FindRow(rs, a) = NoRow /\ \A i \in 1 .. Len(rs) : rs[i].addr # a
            \/ FindRow(rs, a) \in 0 .. Len(rs) - 1 /\ rs[FindRow(rs, a) + 1].addr = a
         /\ \A i \in 1 .. Len(rs) : rs[i].addr = a => FindRow(rs, a) = i - 1
  <1>1. Len(rs) \in Nat /\ DOMAIN rs = 1 .. Len(rs)
        /\ \A i \in 1 .. Len(rs) : rs[i] \in Instructions
    BY InSeq
  <1> DEFINE at == {i \in DOMAIN rs : rs[i].addr = a}
             c == CHOOSE i \in at : TRUE
  <1>2. FindRow(rs, a) = IF at = {} THEN NoRow ELSE c - 1
    BY DEF FindRow
  <1>3. \A i \in 1 .. Len(rs) : rs[i].addr \in Int
    <2>1. \A i \in 1 .. Len(rs) : rs[i].addr \in Addresses
      BY <1>1, InstructionIs
    <2>2. QED
      BY <2>1, WordIs
  <1>4. at # {} => c \in at
    OBVIOUS
  <1> HIDE DEF c
  <1>5. ASSUME NEW i \in at, NEW j \in at PROVE i = j
    <2>1. i \in 1 .. Len(rs) /\ j \in 1 .. Len(rs) /\ rs[i].addr = rs[j].addr
      BY <1>1
    <2>2. ~(i < j) /\ ~(j < i)
      BY <1>3, <2>1 DEF Rising
    <2>3. QED
      BY <1>1, <2>1, <2>2
  <1>6. CASE at = {}
    BY <1>1, <1>2, <1>6
  <1>7. CASE at # {}
    <2>1. c \in 1 .. Len(rs) /\ rs[c].addr = a /\ FindRow(rs, a) = c - 1
      BY <1>1, <1>2, <1>4, <1>7
    <2>2. \A i \in 1 .. Len(rs) : rs[i].addr = a => i = c
      BY <1>1, <1>4, <1>5, <1>7
    <2>3. c - 1 \in 0 .. Len(rs) - 1 /\ c - 1 + 1 = c
      BY <1>1, <2>1
    <2> HIDE DEF at
    <2>4. QED
      BY <2>1, <2>2, <2>3
  <1>8. QED
    BY <1>6, <1>7

\* The next address wraps around or is larger.
LEMMA WrapStep ==
  ASSUME NEW v \in Addresses, NEW s \in 1 .. 3
  PROVE  \/ v + s \in Addresses /\ Wrap(v + s) = v + s /\ v < v + s
         \/ v + s > 65535 /\ Wrap(v + s) < v
  <1>1. v \in Nat /\ v <= 65535 /\ v + s \in Int /\ v + s >= 0 /\ v < v + s
    BY WordIs
  <1>2. CASE v + s <= 65535
    <2>1. v + s \in Addresses
      BY <1>1, <1>2, InWords
    <2>2. QED
      BY <1>1, <2>1, WrapIs
  <1>3. CASE v + s > 65535
    <2>1. (v + s) % 65536 = v + s - 65536
      BY <1>1, <1>3
    <2>2. Wrap(v + s) = v + s - 65536
      BY <2>1 DEF Wrap, Word
    <2>3. QED
      BY <1>1, <1>3, <2>2
  <1>4. QED
    BY <1>1, <1>2, <1>3

\* The places of instructions rise, by three at most.
LEMMA PlacesRise ==
  ASSUME NEW a \in Int, NEW data \in Seq(Bytes), NEW d, NEW places, Chain(a, data, 1, d, places)
  PROVE  /\ \A k \in 1 .. Len(d) + 1 : places[k] \in 1 .. Len(data) + 1 /\ places[k] <= 3 * k - 2
         /\ \A k \in 1 .. Len(d) : /\ places[k] \in 1 .. Len(data)
                                   /\ places[k + 1] - places[k] \in 1 .. 3
         /\ \A i, j \in 1 .. Len(d) + 1 : i < j => places[i] < places[j]
  <1>1. d \in Seq(Instructions) /\ places \in Seq(1 .. Len(data) + 1) /\ Len(places) = Len(d) + 1
        /\ places[1] = 1 /\ Len(d) \in Nat /\ Len(data) \in Nat
    BY InSeq DEF Chain
  <1>2. \A k \in 1 .. Len(d) + 1 : places[k] \in 1 .. Len(data) + 1
    BY <1>1, InSeq
  <1>3. ASSUME NEW k \in 1 .. Len(d)
        PROVE  places[k] \in 1 .. Len(data) /\ places[k + 1] - places[k] \in 1 .. 3
    <2> DEFINE p == places[k]
               e == End(data, p)
    <2>1. p \in 1 .. Len(data) + 1 /\ p <= Len(data) /\ places[k + 1] = e + 1
      BY <1>1, <1>2 DEF Chain
    <2> HIDE DEF p, e
    <2>2. p \in 1 .. Len(data)
      BY <1>1, <2>1
    <2>3. e \in p .. Len(data) /\ e <= p + 2
      BY <2>2, EndIs DEF e
    <2>4. places[k + 1] - p \in 1 .. 3
      BY <1>1, <2>1, <2>2, <2>3
    <2>5. QED
      BY <2>2, <2>4 DEF p
  <1> DEFINE n == Len(d)
             G == {k \in 0 .. n : /\ places[k + 1] <= 3 * (k + 1) - 2
                                  /\ \A i \in 1 .. k : places[i] < places[k + 1]}
  <1>4. 0 \in G
    BY <1>1
  <1>5. ASSUME NEW k \in 1 .. n, k - 1 \in G PROVE k \in G
    <2>1. places[k - 1 + 1] <= 3 * (k - 1 + 1) - 2 /\ \A i \in 1 .. k - 1 : places[i] < places[k - 1 + 1]
      BY <1>5
    <2>2. k - 1 + 1 = k /\ k + 1 \in 1 .. n + 1 /\ k \in 1 .. n + 1 /\ k \in 0 .. n
      BY <1>1
    <2>3. places[k] \in Int /\ places[k + 1] \in Int /\ places[k + 1] - places[k] \in 1 .. 3
      BY <1>2, <1>3, <2>2
    <2>4. places[k + 1] <= 3 * (k + 1) - 2 /\ places[k] < places[k + 1]
      BY <2>1, <2>2, <2>3
    <2>5. ASSUME NEW i \in 1 .. k PROVE places[i] < places[k + 1]
      <3>1. CASE i = k
        BY <2>4, <3>1
      <3>2. CASE i # k
        <4>1. i \in 1 .. k - 1 /\ i \in 1 .. n + 1
          BY <1>1, <3>2
        <4>2. places[i] < places[k] /\ places[i] \in Int
          BY <1>2, <2>1, <2>2, <4>1
        <4>3. QED
          BY <2>3, <2>4, <4>2
      <3>3. QED
        BY <3>1, <3>2
    <2>6. QED
      BY <2>2, <2>4, <2>5
  <1> HIDE DEF G
  <1>6. 0 .. n \subseteq G
    BY <1>1, <1>4, <1>5, UpTo
  <1>7. ASSUME NEW k \in 1 .. n + 1
        PROVE  places[k] <= 3 * k - 2 /\ \A i \in 1 .. n + 1 : i < k => places[i] < places[k]
    <2>1. k - 1 \in 0 .. n /\ k - 1 + 1 = k
      BY <1>1
    <2>2. k - 1 \in G
      BY <1>6, <2>1
    <2>3. places[k] <= 3 * k - 2 /\ \A i \in 1 .. k - 1 : places[i] < places[k]
      BY <2>1, <2>2 DEF G
    <2>4. QED
      BY <1>1, <2>3
  <1>8. QED
    BY <1>2, <1>3, <1>7

\* Instructions at rising addresses: those before the end of memory.
LEMMA LinearIs ==
  ASSUME NEW a \in Addresses, NEW data \in Seq(Bytes), NEW d, NEW places,
         Chain(a, data, 1, d, places)
  PROVE  LET rs == Linear(d)
         IN  /\ rs \in Seq(Instructions) /\ Len(rs) \in 0 .. Len(d)
             /\ \A k \in 1 .. Len(rs) : rs[k] = d[k] /\ rs[k].addr = a + places[k] - 1
             /\ Rising(rs)
             /\ Len(rs) < Len(d) => a + places[Len(rs) + 1] - 1 > 65535
             /\ Len(d) > 0 => Len(rs) > 0
  <1> DEFINE back == {i \in 2 .. Len(d) : d[i].addr < d[i - 1].addr}
             rs == Linear(d)
             n == Len(d)
             m == Len(rs)
  <1>1. d \in Seq(Instructions) /\ n \in Nat /\ places[1] = 1
        /\ \A k \in 1 .. n : d[k] = PieceAt(a, data, places[k])
    BY InSeq DEF Chain
  <1>2. /\ \A k \in 1 .. n + 1 : places[k] \in Int
        /\ \A k \in 1 .. n : places[k] \in 1 .. Len(data) /\ places[k + 1] - places[k] \in 1 .. 3
        /\ \A i, j \in 1 .. n + 1 : i < j => places[i] < places[j]
    <2>1. a \in Int
      BY WordIs
    <2>2. /\ \A k \in 1 .. Len(d) + 1 : places[k] \in 1 .. Len(data) + 1 /\ places[k] <= 3 * k - 2
          /\ \A k \in 1 .. Len(d) : /\ places[k] \in 1 .. Len(data)
                                    /\ places[k + 1] - places[k] \in 1 .. 3
          /\ \A i, j \in 1 .. Len(d) + 1 : i < j => places[i] < places[j]
      BY ONLY <2>1, data \in Seq(Bytes), Chain(a, data, 1, d, places), PlacesRise
    <2>3. \A k \in 1 .. n + 1 : places[k] \in Int
      BY <2>2
    <2>4. QED
      BY <2>2, <2>3
  <1>3. a \in Nat /\ a <= 65535
    BY WordIs
  <1>4. rs = UpToFirst(d, back) /\ back \in SUBSET (1 .. n)
    BY <1>1 DEF Linear
  <1> HIDE DEF back, rs
  <1>5. /\ rs \in Seq(Instructions) /\ m \in 0 .. n /\ \A i \in 1 .. m : rs[i] = d[i]
        /\ \A i \in back : i > m
        /\ m = n \/ m + 1 \in back
    BY <1>1, <1>4, UpToFirstIs
  <1>6. \A k \in 1 .. n : d[k].addr = Wrap(a + places[k] - 1) /\ d[k].addr \in Addresses
    <2> TAKE k \in 1 .. n
    <2>1. places[k] \in 1 .. Len(data) /\ a \in Int /\ d[k] = PieceAt(a, data, places[k])
      BY <1>1, <1>2, <1>3
    <2> DEFINE p == places[k]
    <2> HIDE DEF p
    <2>4. p \in 1 .. Len(data) /\ p \in Int
      BY <2>1 DEF p
    <2>5. PieceAt(a, data, p).addr = Wrap(a + p - 1) /\ a + p - 1 \in Int
      BY <2>1, <2>4, PieceIs
    <2>2. PieceAt(a, data, places[k]).addr = Wrap(a + places[k] - 1) /\ a + places[k] - 1 \in Int
      BY <2>5 DEF p
    <2>3. QED
      BY <2>1, <2>2, WrapIs
  \* The address after one that did not wrap.
  <1>7. ASSUME NEW k \in 1 .. n, k + 1 \in 1 .. n, d[k].addr = a + places[k] - 1
        PROVE  \/ d[k + 1].addr = a + places[k + 1] - 1 /\ d[k].addr < d[k + 1].addr
               \/ d[k + 1].addr < d[k].addr /\ a + places[k + 1] - 1 > 65535
    <2> DEFINE v == d[k].addr
               s == places[k + 1] - places[k]
               w == d[k + 1].addr
    <2>1. v \in Addresses /\ s \in 1 .. 3 /\ places[k] \in Int /\ places[k + 1] \in Int
      <3>1. k \in 1 .. n + 1 /\ k + 1 \in 1 .. n + 1
        BY ONLY <1>1, <1>7
      <3>2. places[k] \in Int /\ places[k + 1] \in Int
        BY ONLY <1>2, <3>1
      <3>3. s \in 1 .. 3
        BY ONLY <1>2, <1>7
      <3>4. v \in Addresses
        BY ONLY <1>6, <1>7
      <3>5. QED
        BY ONLY <3>2, <3>3, <3>4
    <2>2. v + s = a + places[k + 1] - 1
      BY <1>3, <1>7, <2>1
    <2>3. w = Wrap(v + s)
      BY <1>6, <1>7, <2>2
    <2> HIDE DEF v, s, w
    <2>4. \/ v + s \in Addresses /\ Wrap(v + s) = v + s /\ v < v + s
          \/ v + s > 65535 /\ Wrap(v + s) < v
      BY <2>1, WrapStep
    <2>5. QED
      BY <2>2, <2>3, <2>4 DEF v, w
  <1> DEFINE G == {k \in 0 .. n : k + 1 \in 1 .. m => d[k + 1].addr = a + places[k + 1] - 1}
  <1>8. 0 \in G
    <2>1. ASSUME 1 \in 1 .. m PROVE d[1].addr = a + places[1] - 1
      <3>1. 1 \in 1 .. n /\ a + places[1] - 1 = a
        BY <1>1, <1>3, <1>5, <2>1
      <3>2. d[1].addr = Wrap(a)
        BY <1>6, <3>1
      <3>3. Wrap(a) = a
        BY <1>3, WrapIs
      <3>4. QED
        BY <3>1, <3>2, <3>3
    <2>2. QED
      BY <1>1, <2>1
  <1>9. ASSUME NEW k \in 1 .. n, k - 1 \in G PROVE k \in G
    <2>1. ASSUME k + 1 \in 1 .. m PROVE d[k + 1].addr = a + places[k + 1] - 1
      <3>1. k \in 1 .. m /\ k - 1 + 1 = k /\ k + 1 \in 1 .. n /\ k + 1 \in 2 .. n /\ k + 1 - 1 = k
        BY <1>1, <1>5, <2>1
      <3>2. d[k].addr = a + places[k] - 1
        BY <1>9, <3>1
      <3>3. k + 1 \notin back
        BY <1>5, <2>1
      <3>4. ~(d[k + 1].addr < d[k].addr)
        BY <3>1, <3>3 DEF back
      <3>5. QED
        BY <1>7, <3>1, <3>2, <3>4
    <2>2. k \in 0 .. n
      BY <1>1
    <2>3. QED
      BY <2>1, <2>2
  <1> HIDE DEF G, n, m
  <1>10. 0 .. n \subseteq G
    BY <1>1, <1>8, <1>9, UpTo
  <1>11. ASSUME NEW k \in 1 .. m PROVE d[k].addr = a + places[k] - 1
    <2>1. k - 1 \in 0 .. n /\ k - 1 + 1 = k
      BY <1>1, <1>5
    <2>2. k - 1 \in G
      BY <1>10, <2>1
    <2>3. QED
      BY <2>1, <2>2 DEF G
  <1>12. \A k \in 1 .. m : rs[k] = d[k] /\ rs[k].addr = a + places[k] - 1
    BY <1>5, <1>11
  <1>13. Rising(rs)
    <2>1. ASSUME NEW i \in 1 .. m, NEW j \in 1 .. m, i < j PROVE rs[i].addr < rs[j].addr
      <3>1. i \in 1 .. n + 1 /\ j \in 1 .. n + 1
        BY <1>1, <1>5
      <3>2. places[i] < places[j] /\ places[i] \in Int /\ places[j] \in Int
        BY <1>2, <2>1, <3>1
      <3>3. QED
        BY <1>3, <1>12, <3>2
    <2>2. QED
      BY <2>1 DEF Rising, m
  <1>14. ASSUME m < n PROVE a + places[m + 1] - 1 > 65535
    <2>1. m + 1 \in back
      BY <1>1, <1>5, <1>14
    <2> DEFINE j == m + 1
    <2> HIDE DEF j
    <2>7. j \in 2 .. n /\ d[j].addr < d[j - 1].addr
      BY <2>1 DEF back, n, j
    <2>8. m \in Int /\ n \in Int
      BY <1>1, <1>5
    <2>9. j - 1 = m /\ j = m + 1
      BY <2>8 DEF j
    <2>2. m + 1 \in 2 .. n /\ d[m + 1].addr < d[m].addr
      BY <2>7, <2>9
    <2>3. m \in 1 .. n /\ m \in 1 .. m /\ m + 1 \in 1 .. n
      BY <1>1, <1>5, <2>2
    <2>4. d[m].addr = a + places[m] - 1 /\ d[m].addr \in Int /\ d[m + 1].addr \in Int
      BY <1>6, <1>11, <2>3, WordIs
    <2>5. ~(d[m].addr < d[m + 1].addr)
      BY <2>2, <2>3, <2>4
    <2>6. QED
      BY <1>7, <2>3, <2>4, <2>5
  <1>15. n > 0 => m > 0
    <2>1. ASSUME n > 0, m = 0 PROVE FALSE
      <3>1. 1 \in back
        BY <1>1, <1>5, <2>1
      <3>2. 1 \in 2 .. n
        BY <3>1 DEF back, n
      <3>3. QED
        BY <1>1, <3>2
    <2>2. QED
      BY <1>1, <1>5, <2>1
  <1>16. QED
    BY <1>5, <1>12, <1>13, <1>14, <1>15 DEF rs, n, m

(***************************************************************************)
(* Memory and the rows read from it.                                       *)
(***************************************************************************)

MemoryOK == \A b \in DOMAIN mem : mem[b] \in Bytes

\* A read gives bytes, those of its addresses.
LEMMA ReadIs ==
  ASSUME MemoryOK, NEW a \in Int, NEW n \in Nat
  PROVE  /\ Read(a, n) \in Seq(Bytes) /\ Len(Read(a, n)) = n
         /\ \A i \in 1 .. n : Read(a, n)[i] = Byte(Wrap(a + i - 1))
  <1>1. 0 \in Bytes
    BY DEF Bytes
  <1>2. \A b : Byte(b) \in Bytes
    BY <1>1 DEF Byte, MemoryOK
  <1> DEFINE byte(i) == Byte(Wrap(a + i - 1))
             s == [i \in 1 .. n |-> byte(i)]
  <1>3. Read(a, n) = s
    BY DEF Read
  <1>4. \A i \in 1 .. n : byte(i) \in Bytes
    BY <1>2
  <1> HIDE DEF byte
  <1>5. s \in Seq(Bytes) /\ Len(s) = n /\ \A i \in 1 .. n : s[i] = byte(i)
    BY <1>4
  <1>6. QED
    BY <1>3, <1>5 DEF byte

\* What is read for the window, and the instructions found in it.
Fetched(a, places) ==
  Chain(a, Read(a, 3 * height), 1, Decode(a, Read(a, 3 * height)), places)

\* The rows that are fetched are those decoded up to the end of memory.
LEMMA FetchedIs ==
  ASSUME MemoryOK, NEW a \in Addresses, height \in Nat \ {0}
  PROVE  /\ \E places : Fetched(a, places)
         /\ FetchRows(a) = Linear(Decode(a, Read(a, 3 * height)))
         /\ Read(a, 3 * height) \in Seq(Bytes) /\ Len(Read(a, 3 * height)) = 3 * height
         /\ a \in Int /\ 3 * height \in Nat
  <1>1. AtLeast(3, height * 3) = 3 * height /\ 3 * height \in Nat
    BY DEF AtLeast
  <1>2. a \in Int
    BY WordIs
  <1>3. Read(a, 3 * height) \in Seq(Bytes) /\ Len(Read(a, 3 * height)) = 3 * height
    BY <1>1, <1>2, ReadIs
  <1>4. \E places : Fetched(a, places)
    BY <1>2, <1>3, DecodeIs DEF Fetched
  <1>5. FetchRows(a) = Linear(Decode(a, Read(a, 3 * height)))
    BY <1>1 DEF FetchRows
  <1>6. QED
    BY <1>1, <1>2, <1>3, <1>4, <1>5

\* The rows of the window: the first is at its address, and only a last one that is below
\* the window may have bytes that were not read.
LEMMA FetchIs ==
  ASSUME MemoryOK, NEW a \in Addresses, height \in Nat \ {0}
  PROVE  LET rs == FetchRows(a)
         IN  /\ rs \in Seq(Instructions) /\ Rising(rs) /\ Len(rs) > 0 /\ rs[1].addr = a
             /\ \A k \in 1 .. Len(rs) : Cut(rs[k]) => k = Len(rs) /\ k > height
  <1> DEFINE n == 3 * height
             data == Read(a, n)
             d == Decode(a, data)
             rs == FetchRows(a)
  <1>1. PICK places : Chain(a, data, 1, d, places)
    BY FetchedIs DEF Fetched
  <1>2. rs = Linear(d) /\ data \in Seq(Bytes) /\ Len(data) = n /\ n \in Nat /\ n >= 3 /\ a \in Nat
    BY FetchedIs, WordIs
  <1> HIDE DEF data, d, rs
  <1>3. /\ rs \in Seq(Instructions) /\ Len(rs) \in 0 .. Len(d)
        /\ \A k \in 1 .. Len(rs) : rs[k] = d[k] /\ rs[k].addr = a + places[k] - 1
        /\ Rising(rs)
        /\ Len(d) > 0 => Len(rs) > 0
    BY <1>1, <1>2, LinearIs
  <1>4. /\ \A k \in 1 .. Len(d) + 1 : places[k] \in 1 .. n + 1 /\ places[k] <= 3 * k - 2
        /\ \A k \in 1 .. Len(d) : places[k] \in 1 .. n
        /\ \A i, j \in 1 .. Len(d) + 1 : i < j => places[i] < places[j]
    <2>1. /\ \A k \in 1 .. Len(d) + 1 : places[k] \in 1 .. Len(data) + 1 /\ places[k] <= 3 * k - 2
          /\ \A k \in 1 .. Len(d) : places[k] \in 1 .. Len(data)
          /\ \A i, j \in 1 .. Len(d) + 1 : i < j => places[i] < places[j]
      BY <1>1, <1>2, PlacesRise
    <2>2. QED
      BY <1>2, <2>1
  <1>5. /\ Len(places) = Len(d) + 1 /\ places[1] = 1 /\ places[Len(d) + 1] = n + 1
        /\ Len(d) \in Nat
        /\ \A k \in 1 .. Len(d) : /\ places[k + 1] = End(data, places[k]) + 1
                                  /\ d[k] = PieceAt(a, data, places[k])
    <2>1. d \in Seq(Instructions) /\ Len(places) = Len(d) + 1
      BY <1>1 DEF Chain
    <2>2. Len(d) \in Nat
      BY <2>1, InSeq
    <2>3. QED
      BY <1>1, <1>2, <2>1, <2>2 DEF Chain
  <1>6. Len(d) > 0
    BY <1>2, <1>5
  <1>7. Len(rs) > 0 /\ rs[1].addr = a
    <2>1. Len(rs) > 0 /\ 1 \in 1 .. Len(rs)
      BY <1>3, <1>5, <1>6
    <2>2. rs[1].addr = a + places[1] - 1
      BY <1>3, <2>1
    <2>3. QED
      BY <1>2, <1>5, <2>1, <2>2
  <1>8. ASSUME NEW k \in 1 .. Len(rs), Cut(rs[k]) PROVE k = Len(rs) /\ k > height
    <2> DEFINE p == places[k]
               e == End(data, p)
               s == ModeSize[ModeOf[data[p]]]
    <2>1. k \in 1 .. Len(d) /\ rs[k] = d[k] /\ k \in 1 .. Len(d) + 1 /\ k + 1 \in 1 .. Len(d) + 1
      BY <1>3, <1>5
    <2>2. p \in 1 .. n /\ p <= 3 * k - 2 /\ places[k + 1] = e + 1 /\ rs[k] = PieceAt(a, data, p)
      BY <1>4, <1>5, <2>1
    <2> HIDE DEF p
    <2>11. p \in 1 .. Len(data) /\ a \in Int
      BY <1>2, <2>2
    <2>3. Size(rs[k]) = e - p + 1 /\ ModeSize[ModeOf[rs[k].raw[1]]] = s
      <3>1. Len(PieceAt(a, data, p).raw) = End(data, p) - p + 1 /\ PieceAt(a, data, p).raw[1] = data[p]
        BY ONLY <1>2, <2>11, PieceIs
      <3>2. QED
        BY <2>2, <3>1 DEF Size
    <2>4. /\ e \in p .. n /\ s \in 1 .. 3
          /\ e < n => e - p + 1 = s
          /\ p + 2 <= n => e - p + 1 = s
      BY <1>2, <2>2, EndIs
    <2> HIDE DEF e, s
    <2>5. e - p + 1 < s
      BY <1>8, <2>3 DEF Cut
    <2>6. e = n /\ p + 2 > n
      BY <1>2, <2>2, <2>4, <2>5
    <2>7. k = Len(d)
      <3>1. ASSUME k < Len(d) PROVE FALSE
        <4>3. k + 1 \in 1 .. Len(d) + 1 /\ Len(d) + 1 \in 1 .. Len(d) + 1 /\ k + 1 < Len(d) + 1
          BY <1>5, <2>1, <3>1
        <4>1. places[k + 1] < places[Len(d) + 1]
          BY <1>4, <4>3
        <4>2. QED
          BY <1>2, <1>5, <2>2, <2>6, <4>1
      <3>2. QED
        BY <1>5, <2>1, <3>1
    <2>8. k = Len(rs)
      BY <1>3, <2>1, <2>7
    <2>9. k > height
      BY <1>2, <2>1, <2>2, <2>6
    <2>10. QED
      BY <2>8, <2>9
  <1>9. QED
    BY <1>3, <1>7, <1>8 DEF rs

\* Bytes where they are read from.
LEMMA FetchedByte ==
  ASSUME MemoryOK, NEW a \in Addresses, height \in Nat \ {0}, NEW p \in 1 .. 3 * height
  PROVE  Read(a, 3 * height)[p] = Byte(Wrap(a + p - 1))
  <1>1. a \in Int /\ 3 * height \in Nat
    BY WordIs
  <1>2. QED
    BY <1>1, ReadIs

\* A read from one of the rows on finds the rows after it again, as many as fit in the window.
LEMMA Resumes ==
  ASSUME MemoryOK, NEW a \in Addresses, height \in Nat \ {0},
         NEW k \in 1 .. Len(FetchRows(a)), NEW r \in 1 .. Len(FetchRows(a)), k <= r, r - k < height
  PROVE  LET us == FetchRows(FetchRows(a)[k].addr)
         IN  r - k + 1 <= Len(us) /\ us[r - k + 1].addr = FetchRows(a)[r].addr
  <1> DEFINE n == 3 * height
             b == FetchRows(a)[k].addr
             x == Read(a, n)
             y == Read(b, n)
             d == Decode(a, x)
             e == Decode(b, y)
             rs == FetchRows(a)
             us == FetchRows(b)
  <1>1. rs \in Seq(Instructions) /\ Len(rs) \in Nat /\ b \in Addresses
    <2>1. rs \in Seq(Instructions)
      BY FetchIs
    <2>2. Len(rs) \in Nat /\ rs[k] \in Instructions
      BY <2>1, InSeq
    <2>3. QED
      BY <2>1, <2>2, InstructionIs
  <1> HIDE DEF b
  <1>2. PICK P : Chain(a, x, 1, d, P)
    BY FetchedIs DEF Fetched
  <1>3. PICK Q : Chain(b, y, 1, e, Q)
    BY <1>1, FetchedIs DEF Fetched
  <1>4. /\ rs = Linear(d) /\ us = Linear(e) /\ n \in Nat /\ n >= 3
        /\ x \in Seq(Bytes) /\ Len(x) = n /\ y \in Seq(Bytes) /\ Len(y) = n
        /\ a \in Nat /\ b \in Nat /\ a <= 65535 /\ b <= 65535
    BY <1>1, FetchedIs, WordIs
  <1>5. \A p \in 1 .. n : x[p] = Byte(Wrap(a + p - 1)) /\ y[p] = Byte(Wrap(b + p - 1))
    BY <1>1, FetchedByte
  <1> HIDE DEF x, y, d, e, rs, us
  <1>6. /\ Len(rs) \in 0 .. Len(d)
        /\ \A i \in 1 .. Len(rs) : rs[i].addr = a + P[i] - 1
        /\ \A i \in 1 .. Len(rs) : rs[i] \in Instructions
    <2>1. /\ Len(rs) \in 0 .. Len(d)
          /\ \A i \in 1 .. Len(rs) : rs[i] = d[i] /\ rs[i].addr = a + P[i] - 1
      BY <1>2, <1>4, LinearIs
    <2>2. QED
      BY <1>1, <2>1, InSeq
  <1>7. /\ Len(us) \in 0 .. Len(e)
        /\ \A i \in 1 .. Len(us) : us[i].addr = b + Q[i] - 1
        /\ Len(us) < Len(e) => b + Q[Len(us) + 1] - 1 > 65535
    <2>1. /\ Len(us) \in 0 .. Len(e)
          /\ \A i \in 1 .. Len(us) : us[i] = e[i] /\ us[i].addr = b + Q[i] - 1
          /\ Len(us) < Len(e) => b + Q[Len(us) + 1] - 1 > 65535
      BY <1>1, <1>3, <1>4, LinearIs
    <2>2. QED
      BY <2>1
  <1>8. /\ Len(d) \in Nat /\ P[Len(d) + 1] = n + 1
        /\ \A i \in 1 .. Len(d) : P[i + 1] = End(x, P[i]) + 1
        /\ \A i \in 1 .. Len(d) + 1 : P[i] \in 1 .. n + 1
        /\ \A i \in 1 .. Len(d) : P[i] \in 1 .. n
        /\ \A i, j \in 1 .. Len(d) + 1 : i < j => P[i] < P[j]
    <2>1. d \in Seq(Instructions) /\ Len(P) = Len(d) + 1 /\ P[Len(P)] = Len(x) + 1
          /\ \A i \in 1 .. Len(d) : P[i + 1] = End(x, P[i]) + 1
      BY <1>2 DEF Chain
    <2>2. a \in Int
      BY <1>4
    <2>3. /\ \A i \in 1 .. Len(d) + 1 : P[i] \in 1 .. Len(x) + 1 /\ P[i] <= 3 * i - 2
          /\ \A i \in 1 .. Len(d) : P[i] \in 1 .. Len(x)
          /\ \A i, j \in 1 .. Len(d) + 1 : i < j => P[i] < P[j]
      BY ONLY <1>2, <1>4, <2>2, PlacesRise
    <2>4. QED
      BY <1>4, <2>1, <2>3, InSeq
  <1>9. /\ Len(e) \in Nat /\ Q[Len(e) + 1] = n + 1 /\ Q[1] = 1
        /\ \A i \in 1 .. Len(e) : Q[i + 1] = End(y, Q[i]) + 1
        /\ \A i \in 1 .. Len(e) + 1 : Q[i] \in 1 .. n + 1 /\ Q[i] <= 3 * i - 2
        /\ \A i \in 1 .. Len(e) : Q[i] \in 1 .. n
    <2>1. e \in Seq(Instructions) /\ Len(Q) = Len(e) + 1 /\ Q[Len(Q)] = Len(y) + 1 /\ Q[1] = 1
          /\ \A i \in 1 .. Len(e) : Q[i + 1] = End(y, Q[i]) + 1
      BY <1>3 DEF Chain
    <2>2. b \in Int
      BY <1>4
    <2>3. /\ \A i \in 1 .. Len(e) + 1 : Q[i] \in 1 .. Len(y) + 1 /\ Q[i] <= 3 * i - 2
          /\ \A i \in 1 .. Len(e) : Q[i] \in 1 .. Len(y)
      BY ONLY <1>3, <1>4, <2>2, PlacesRise
    <2>4. QED
      BY <1>4, <2>1, <2>3, InSeq
  <1>10. k \in 1 .. Len(d) /\ r \in 1 .. Len(d) /\ b = a + P[k] - 1 /\ P[k] \in Int
         /\ k \in 1 .. Len(rs) /\ r \in 1 .. Len(rs)
    <2>1. k \in 1 .. Len(rs) /\ r \in 1 .. Len(rs) /\ b = rs[k].addr
      BY DEF rs, b
    <2>2. k \in 1 .. Len(d) /\ r \in 1 .. Len(d)
      BY <1>6, <1>8, <2>1
    <2>3. P[k] \in 1 .. n
      BY <1>8, <2>2
    <2>4. QED
      BY <1>6, <2>1, <2>2, <2>3
  <1> DEFINE c == P[k]
             G == {j \in 0 .. r - k : j + 1 <= Len(e) /\ Q[j + 1] = P[k + j] - c + 1}
  <1>18. b = a + c - 1 /\ c \in Int /\ a \in Int /\ b \in Int
    BY <1>4, <1>10
  <1>11. 0 \in G
    <2>1. Len(e) # 0
      BY <1>4, <1>9
    <2>2. 1 <= Len(e) /\ P[k + 0] = c /\ c - c + 1 = 1 /\ 0 \in 0 .. r - k
      BY SMTT(30), <1>8, <1>9, <1>10, <2>1
    <2>3. QED
      BY <1>9, <2>2
  <1> HIDE DEF c
  <1>12. ASSUME NEW j \in 1 .. r - k, j - 1 \in G PROVE j \in G
    <2> DEFINE p == P[k + j - 1]
               q == Q[j]
               s == ModeSize[ModeOf[x[p]]]
               f == End(x, p)
               g == End(y, q)
    <2>1. /\ j <= Len(e) /\ k + j - 1 \in 1 .. Len(d) /\ k + j \in 1 .. Len(d) /\ k + j - 1 + 1 = k + j
          /\ j \in 1 .. Len(e) /\ j + 1 \in 1 .. Len(e) + 1 /\ j < height /\ j \in Nat
          /\ j - 1 + 1 = j /\ k + (j - 1) = k + j - 1 /\ k + j \in 1 .. Len(d) + 1
          /\ Len(d) + 1 \in 1 .. Len(d) + 1 /\ k + j < Len(d) + 1
      <3>1. j - 1 \in 0 .. r - k /\ j - 1 + 1 <= Len(e)
        BY <1>12
      <3>2. j \in 1 .. r - k /\ k \in 1 .. Len(d) /\ r \in 1 .. Len(d) /\ Len(d) \in Nat /\ Len(e) \in Nat
            /\ height \in Nat /\ r - k < height
        BY <1>8, <1>9, <1>10
      <3>3. QED
        BY ONLY <3>1, <3>2
    <2>2. q = p - c + 1
      BY <1>12, <2>1
    <2>3. p \in 1 .. n /\ q \in 1 .. n /\ q <= 3 * j - 2 /\ P[k + j] = f + 1 /\ Q[j + 1] = g + 1
          /\ P[k + j] < P[Len(d) + 1] /\ j \in 1 .. Len(e) + 1
      BY <1>8, <1>9, <2>1
    <2> HIDE DEF p, q
    <2>4. x[p] = y[q]
      <3>1. a + p - 1 = b + q - 1
        <4>1. p \in Int
          BY <1>4, <2>3
        <4>2. QED
          BY ONLY <1>18, <2>2, <4>1
      <3>2. QED
        BY <1>5, <2>3, <3>1
    <2>13. p \in 1 .. Len(x) /\ q \in 1 .. Len(y)
      BY <1>4, <2>3
    <2>14. x \in Seq(Bytes) /\ y \in Seq(Bytes)
      BY <1>4
    <2>5. /\ f \in p .. n /\ s \in 1 .. 3
          /\ f < n => f - p + 1 = s
      <3>1. /\ f \in p .. Len(x) /\ s \in 1 .. 3
            /\ f < Len(x) => f - p + 1 = s
        BY ONLY <2>14, <2>13, EndIs
      <3>2. QED
        BY <1>4, <3>1
    <2>6. /\ g \in q .. n
          /\ q + 2 <= n => g - q + 1 = s
      <3>1. /\ g \in q .. Len(y)
            /\ q + 2 <= Len(y) => g - q + 1 = ModeSize[ModeOf[y[q]]]
        BY ONLY <2>14, <2>13, EndIs
      <3>2. QED
        BY <1>4, <2>4, <3>1
    <2> HIDE DEF f, g, s
    <2>7. f \in Int /\ g \in Int /\ f < n /\ q + 2 <= n
      BY <1>4, <1>8, <2>1, <2>3, <2>5, <2>6
    <2>8. P[k + j] = p + s /\ Q[j + 1] = q + s
      BY <2>3, <2>5, <2>6, <2>7
    <2>9. Q[j + 1] = P[k + j] - c + 1
      <3>1. p \in Int /\ s \in Int
        BY <1>4, <2>3, <2>5
      <3>2. QED
        BY ONLY <1>18, <2>2, <2>8, <3>1
    <2>10. j + 1 # Len(e) + 1
      <3>1. Q[j + 1] # n + 1
        BY <1>4, <2>3, <2>5, <2>7, <2>8
      <3>2. QED
        BY <1>9, <3>1
    <2>11. j + 1 <= Len(e) /\ j \in 0 .. r - k
      BY <1>9, <1>10, <2>1, <2>10
    <2>12. QED
      BY <2>9, <2>11
  <1> HIDE DEF G
  <1>13. 0 .. r - k \subseteq G
    <2>1. r - k \in Nat
      BY <1>10
    <2>2. QED
      BY <2>1, <1>11, <1>12, UpTo
  <1>14. \A j \in 0 .. r - k : j + 1 <= Len(e) /\ Q[j + 1] = P[k + j] - c + 1
    BY <1>13 DEF G
  <1>15. r - k + 1 <= Len(us)
    <2>1. ASSUME Len(us) <= r - k PROVE FALSE
      <3> DEFINE j == Len(us)
      <3>1. j \in 0 .. r - k /\ k + j \in 1 .. Len(rs)
        BY SMTT(30), <1>7, <1>9, <1>10, <2>1, <1>6
      <3> HIDE DEF j
      <3>2. j + 1 <= Len(e) /\ Q[j + 1] = P[k + j] - c + 1
        BY <1>14, <3>1
      <3>3. b + Q[j + 1] - 1 > 65535
        BY <1>7, <1>9, <3>2 DEF j
      <3>4. rs[k + j].addr = a + P[k + j] - 1 /\ rs[k + j].addr \in Addresses
        BY <1>6, <3>1, InstructionIs
      <3>5. rs[k + j].addr <= 65535 /\ P[k + j] \in Int
        <4>1. k + j \in 1 .. Len(d) + 1
          BY <1>6, <1>8, <1>10, <3>1
        <4>2. QED
          BY <1>8, <3>4, <4>1, WordIs
      <3> DEFINE qj == Q[j + 1]
                 pj == P[k + j]
                 at == rs[k + j].addr
      <3>6. qj = pj - c + 1 /\ b + qj - 1 > 65535 /\ at = a + pj - 1 /\ at <= 65535 /\ pj \in Int
        BY ONLY <3>2, <3>3, <3>4, <3>5
      <3> HIDE DEF qj, pj, at
      <3>7. QED
        BY ONLY <1>18, <3>6
    <2>2. QED
      BY <1>7, <1>9, <1>10, <2>1
  <1>16. us[r - k + 1].addr = rs[r].addr
    <2> DEFINE j == r - k
    <2>1. j \in 0 .. r - k /\ k + j = r /\ j + 1 \in 1 .. Len(us) /\ r \in 1 .. Len(d) + 1 /\ r - k + 1 = j + 1
      BY <1>7, <1>9, <1>10, <1>15
    <2> HIDE DEF j
    <2>2. Q[j + 1] = P[r] - c + 1
      BY <1>14, <2>1
    <2>3. us[j + 1].addr = b + Q[j + 1] - 1 /\ rs[r].addr = a + P[r] - 1 /\ P[r] \in Int
      <3>1. us[j + 1].addr = b + Q[j + 1] - 1
        BY ONLY <1>7, <2>1
      <3>2. rs[r].addr = a + P[r] - 1
        BY ONLY <1>6, <1>10
      <3>3. P[r] \in Int
        BY ONLY <1>8, <2>1
      <3>4. QED
        BY ONLY <3>1, <3>2, <3>3
    <2> DEFINE uj == us[j + 1].addr
               ur == rs[r].addr
               qj == Q[j + 1]
               pr == P[r]
    <2>4. qj = pr - c + 1 /\ uj = b + qj - 1 /\ ur = a + pr - 1 /\ pr \in Int
      BY <2>2, <2>3
    <2> HIDE DEF uj, ur, qj, pr
    <2>5. uj = ur
      BY ONLY <1>18, <2>4
    <2>6. QED
      BY ONLY <2>1, <2>5 DEF uj, ur
  <1> HIDE DEF us, rs
  <1>17. r - k + 1 <= Len(us) /\ us[r - k + 1].addr = rs[r].addr
    BY ONLY <1>15, <1>16
  <1>19. QED
    BY ONLY <1>17 DEF us, rs, b

(***************************************************************************)
(* Where the window is moved.                                              *)
(***************************************************************************)

\* What is written are bytes.
LEMMA StoredIs ==
  ASSUME MemoryOK, NEW a \in Addresses, NEW data \in Seq(Bytes)
  PROVE  \A b \in DOMAIN Stored(a, data) : Stored(a, data)[b] \in Bytes
  <1> DEFINE new == {Wrap(a + i - 1) : i \in DOMAIN data}
             f == [b \in DOMAIN mem \cup new |->
                      IF b \in new THEN data[((b - a) % Word) + 1] ELSE mem[b]]
  <1>1. Stored(a, data) = f
    BY DEF Stored
  <1>2. a \in Int /\ DOMAIN data = 1 .. Len(data) /\ Len(data) \in Nat
        /\ \A i \in 1 .. Len(data) : data[i] \in Bytes
    BY WordIs, InSeq
  <1>3. ASSUME NEW i \in 1 .. Len(data)
        PROVE  ((Wrap(a + i - 1) - a) % Word) + 1 \in 1 .. Len(data)
    <2> DEFINE x == a + i - 1
               y == ((x % 65536) - a) % 65536
    <2>1. x \in Int /\ i \in Nat /\ i >= 1
      BY <1>2
    <2>2. PICK q \in Int : x = 65536 * q + (x % 65536)
      <3> HIDE DEF x
      <3>1. x = 65536 * (x \div 65536) + (x % 65536) /\ x \div 65536 \in Int
        BY <2>1
      <3>2. QED
        BY <3>1
    <2>3. (x % 65536) - a = (i - 1) - 65536 * q
      BY <1>2, <2>1, <2>2
    <2>4. y >= 0 /\ y <= i - 1 /\ y \in Int
      BY <1>2, <2>1, <2>3
    <2>5. (Wrap(a + i - 1) - a) % Word = y
      BY DEF Wrap, Word
    <2> HIDE DEF y
    <2>6. QED
      BY <1>2, <2>4, <2>5
  <1>4. ASSUME NEW b \in DOMAIN f PROVE f[b] \in Bytes
    <2>1. CASE b \in new
      <3>1. PICK i \in 1 .. Len(data) : b = Wrap(a + i - 1)
        BY <1>2, <2>1
      <3>2. ((b - a) % Word) + 1 \in 1 .. Len(data)
        BY <1>3, <3>1
      <3>3. f[b] = data[((b - a) % Word) + 1]
        BY <2>1
      <3> HIDE DEF f
      <3>4. QED
        BY <1>2, <3>2, <3>3
    <2>2. CASE b \notin new
      BY <2>2 DEF MemoryOK
    <2>3. QED
      BY <2>1, <2>2
  <1>5. QED
    BY <1>1, <1>4

\* Instructions before a limit.
LEMMA BeforeIs ==
  ASSUME MemoryOK, NEW a \in Addresses, NEW back \in Nat, NEW limit
  PROVE  Before(a, back, limit) \in Seq(Instructions)
  <1> DEFINE low == AtLeast(0, a - back)
             n == a - low + 3
             data == Read(low, n)
             d == Decode(low, data)
             all == Linear(d)
             S == {i \in DOMAIN all : all[i].addr >= limit}
  <1>1. a \in Nat /\ a <= 65535
    BY WordIs
  <1>2. low \in Int /\ 0 <= low /\ low <= a /\ low <= 65535
    BY <1>1 DEF AtLeast
  <1>3. Before(a, back, limit) = UpToFirst(all, S)
    BY DEF Before
  <1> HIDE DEF low
  <1>4. low \in Addresses /\ n \in Nat
    BY <1>1, <1>2, InWords
  <1> HIDE DEF n
  <1>5. data \in Seq(Bytes)
    BY <1>2, <1>4, ReadIs
  <1> HIDE DEF data
  <1>6. PICK places : Chain(low, data, 1, d, places)
    BY <1>2, <1>5, DecodeIs
  <1> HIDE DEF d
  <1>7. all \in Seq(Instructions)
    BY <1>4, <1>5, <1>6, LinearIs
  <1> HIDE DEF all
  <1>8. S \in SUBSET (1 .. Len(all))
    BY <1>7, InSeq
  <1> HIDE DEF S
  <1>9. UpToFirst(all, S) \in Seq(Instructions)
    BY <1>7, <1>8, UpToFirstIs
  <1>10. QED
    BY <1>3, <1>9

\* The n-th address from the end.
LEMMA FromEndIs ==
  ASSUME MemoryOK, NEW a \in Addresses, NEW limit, NEW lookbacks \in Seq(Nat), NEW n \in Nat \ {0},
         NEW otherwise \in Addresses
  PROVE  FromEnd(a, limit, lookbacks, n, otherwise) \in Addresses
  <1> DEFINE L == Len(lookbacks)
             N == L + 1
             X == Addresses
             found(k) == Before(a, lookbacks[k], limit)
             body(g, k) == IF k > L THEN otherwise
                           ELSE IF Len(found(k)) >= n THEN found(k)[Len(found(k)) - n + 1].addr
                           ELSE IF a - lookbacks[k] <= 0
                                THEN (IF found(k) = <<>> THEN 0 ELSE found(k)[1].addr)
                           ELSE g[k + 1]
             h == CHOOSE h : h = [k \in 1 .. N |-> body(h, k)]
             step == [k \in 1 .. N |-> [g \in [1 .. N -> X] |-> body(g, k)]]
  <1>1. FromEnd(a, limit, lookbacks, n, otherwise) = h[1]
    BY DEF FromEnd
  <1> HIDE DEF h
  <1>2. L \in Nat /\ N \in Nat /\ 1 \in 1 .. N /\ \A k \in 1 .. L : lookbacks[k] \in Nat
    BY InSeq
  <1>3. 0 \in Addresses
    BY InWords
  <1>4. ASSUME NEW k \in 1 .. N, NEW g, k + 1 \in 1 .. N => g[k + 1] \in X PROVE body(g, k) \in X
    <2>1. CASE k > L
      BY <2>1
    <2>2. CASE ~(k > L)
      <3> DEFINE s == found(k)
      <3>1. k \in 1 .. L /\ k + 1 \in 1 .. N
        BY <1>2, <2>2
      <3>2. s \in Seq(Instructions)
        BY <1>2, <3>1, BeforeIs
      <3> HIDE DEF s
      <3>3. /\ Len(s) \in Nat
            /\ \A i \in 1 .. Len(s) : s[i].addr \in Addresses
            /\ s = <<>> <=> Len(s) = 0
        BY <3>2, InSeq, InstructionIs
      <3>4. Len(s) >= n => s[Len(s) - n + 1].addr \in Addresses
        <4>1. Len(s) >= n => Len(s) - n + 1 \in 1 .. Len(s)
          BY <3>3
        <4>2. QED
          BY <3>3, <4>1
      <3>5. s # <<>> => s[1].addr \in Addresses
        <4>1. s # <<>> => 1 \in 1 .. Len(s)
          BY <3>3
        <4>2. QED
          BY <3>3, <4>1
      <3>6. body(g, k) = IF Len(s) >= n THEN s[Len(s) - n + 1].addr
                         ELSE IF a - lookbacks[k] <= 0 THEN (IF s = <<>> THEN 0 ELSE s[1].addr)
                         ELSE g[k + 1]
        BY <2>2 DEF s
      <3> HIDE DEF body
      <3>7. QED
        BY <1>3, <1>4, <3>1, <3>4, <3>5, <3>6
    <2>3. QED
      BY <2>1, <2>2
  <1>5. ASSUME NEW k \in 1 .. N, NEW g \in [1 .. N -> X], NEW f \in [1 .. N -> X],
               \A q \in 1 .. N : q > k => g[q] = f[q]
        PROVE  body(g, k) = body(f, k)
    <2>1. CASE k > L
      BY <2>1
    <2>2. CASE ~(k > L)
      <3>1. k + 1 \in 1 .. N /\ k + 1 > k
        BY <1>2, <2>2
      <3>2. g[k + 1] = f[k + 1]
        BY <1>5, <3>1
      <3> HIDE DEF found
      <3>3. QED
        BY <2>2, <3>2
    <2>3. QED
      BY <2>1, <2>2
  <1> HIDE DEF body
  <1>7. \E f : f = [k \in 1 .. N |-> body(f, k)]
    <2>1. step \in [1 .. N -> [[1 .. N -> X] -> X]]
      BY <1>4
    <2>2. \A k \in 1 .. N : \A g \in [1 .. N -> X] : step[k][g] = body(g, k)
      OBVIOUS
    <2> HIDE DEF step
    <2>3. LooksAhead(step, N, X) /\ X # {}
      <3>1. X # {}
        BY <1>3
      <3>2. \A k \in 1 .. N : \A g, f \in [1 .. N -> X] :
               (\A q \in 1 .. N : q > k => g[q] = f[q]) => step[k][g] = step[k][f]
        <4>1. TAKE k \in 1 .. N
        <4>2. TAKE g, f \in [1 .. N -> X]
        <4>3. HAVE \A q \in 1 .. N : q > k => g[q] = f[q]
        <4>4. body(g, k) = body(f, k)
          BY <1>5, <4>3
        <4>5. QED
          BY <2>2, <4>4
      <3> HIDE DEF X
      <3>3. QED
        BY <2>1, <3>1, <3>2 DEF LooksAhead
    <2> HIDE DEF X, N
    <2>4. PICK f \in [1 .. N -> X] : Computes(f, step, N)
      BY <1>2, <2>3, Recursion
    <2>5. \A k \in 1 .. N : f[k] = body(f, k)
      BY <2>2, <2>4 DEF Computes
    <2>6. f = [k \in 1 .. N |-> body(f, k)]
      BY <2>4, <2>5
    <2>7. QED
      BY <2>6
  <1>8. h = [k \in 1 .. N |-> body(h, k)]
    BY <1>7 DEF h, body, found
  <1>9. \A k \in 1 .. N : h[k] = body(h, k)
    BY <1>8
  <1> DEFINE G == {k \in 1 .. N : h[k] \in X}
  <1>10. ASSUME NEW k \in 1 .. N, \A j \in 1 .. N : j > k => j \in G PROVE k \in G
    <2>1. k + 1 \in 1 .. N => h[k + 1] \in X
      <3>1. k + 1 > k
        BY <1>2
      <3>2. QED
        BY <1>10, <3>1
    <2>2. body(h, k) \in X
      BY <1>4, <2>1
    <2>3. QED
      BY <1>9, <2>2
  <1> HIDE DEF G, N
  <1>11. 1 .. N \subseteq G
    BY <1>2, <1>10, FromTheEnd
  <1>12. QED
    BY <1>1, <1>2, <1>11 DEF G

\* The end of the program, the start some instructions up and down.
LEMMA EndStartIs ==
  ASSUME MemoryOK, height \in Nat \ {0}
  PROVE  FindEndStart \in Addresses
  <1>1. Word - 1 \in Addresses
    <2>1. Word - 1 \in Int /\ 0 <= Word - 1 /\ Word - 1 <= 65535
      BY DEF Word
    <2>2. QED
      BY <2>1, InWords
  <1>2. EndLookbacks \in Seq(Nat)
    BY DEF EndLookbacks
  <1>3. QED
    BY <1>1, <1>2, FromEndIs DEF FindEndStart

\* A move up leads to an address.
LEMMA PrevStartIs ==
  ASSUME MemoryOK, NEW a \in Addresses, NEW steps \in Int
  PROVE  FindPrevStartN(a, steps) \in Addresses
  <1>1. CASE a = 0 \/ steps <= 0
    BY <1>1 DEF FindPrevStartN
  <1>2. CASE ~(a = 0 \/ steps <= 0)
    <2>1. steps \in Nat \ {0}
      BY <1>2
    <2>2. PrevLookbacks(steps) \in Seq(Nat)
      BY <2>1 DEF PrevLookbacks
    <2>3. QED
      BY <1>2, <2>1, <2>2, FromEndIs DEF FindPrevStartN
  <1>3. QED
    BY <1>1, <1>2

\* So does one down.
LEMMA MoveDownIs ==
  ASSUME NEW a \in Addresses, NEW steps \in Int, rows \in Seq(Instructions)
  PROVE  MoveDown(a, steps) \in Addresses
  <1>1. CASE rows = <<>>
    BY <1>1 DEF MoveDown
  <1>2. CASE rows # <<>>
    <2> DEFINE n == Len(rows)
               i == Smaller(AtLeast(1, steps), n - 1) + 1
    <2>1. n \in Nat /\ n # 0
      BY <1>2, InSeq
    <2> HIDE DEF n
    <2>2. i \in 1 .. n
      BY <2>1 DEF Smaller, AtLeast
    <2> HIDE DEF i
    <2>3. rows[i] \in Instructions
      BY <2>2, InSeq DEF n
    <2>4. MoveDown(a, steps) = rows[i].addr
      BY <1>2 DEF MoveDown, i, n
    <2>5. QED
      BY <2>3, <2>4, InstructionIs
  <1>3. QED
    BY <1>1, <1>2

\* The smaller of two addresses is one.
LEMMA SmallerIs ==
  ASSUME NEW a \in Addresses, NEW b \in Addresses
  PROVE  Smaller(a, b) \in Addresses
  BY DEF Smaller

(***************************************************************************)
(* The inductive invariant.                                                *)
(***************************************************************************)
MaybeAddr == Addresses \cup {NoAddr}
Digit == 0 .. 15
Buffers == {b \in Seq(Digit) : Len(b) <= 4}
Snapshots == Addresses \X Addresses \X Seq(Instructions)
Navs == {"none", "Home", "End", "Up", "Down"}

\* What the scroll bar stands for.
Scrolls == {s \in [total : Int, offset : Int, page : Int] :
              /\ 1 <= s.page /\ s.page <= s.total
              /\ 0 <= s.offset /\ s.offset + s.page <= s.total}

Grids == [rows : Seq(Instructions), ih : Nat, offset : Int, selected : Int, highlighted : Int,
          selectable : {TRUE}, editable : {19}, editing : BOOLEAN, editRow : Int,
          editValue : Statements \cup {<<>>}, view : {NoView}, virtual : Scrolls \cup {NoScroll}]

Views == [follow : BOOLEAN, mode : {"", "addr", "edit"}, selectedAddr : MaybeAddr, hint : Int,
          buffer : Buffers, fresh : BOOLEAN, before : MaybeAddr, currentAddr : MaybeAddr,
          snapshot : {<<>>} \cup Snapshots, nav : Navs, steps : Int, pendingAddr : MaybeAddr,
          pendingData : Seq(Bytes), editAddr : MaybeAddr, editSnapshot : Statements,
          editText : Statements, editBytes : Seq(Bytes), grid : Grids]

TypeInv ==
  /\ program \in Programs /\ MemoryOK /\ cpu \in Addresses
  /\ rows \in Seq(Instructions) /\ addr \in MaybeAddr /\ height \in Heights /\ view \in Views
  /\ phase \in {"keys", "freeze", "update", "nav", "fetch", "refetch"}
  /\ renders \in BOOLEAN /\ frozen \in BOOLEAN
  /\ torn \in BOOLEAN /\ followed \in BOOLEAN /\ stale \in BOOLEAN

\* The rows of State() are those of the window and of its grid.
RowsInv ==
  /\ Rising(rows)
  /\ \A k \in 1 .. Len(rows) : Cut(rows[k]) => k = Len(rows) /\ (stale \/ k > height)
  /\ view.currentAddr = NoAddr => rows = <<>>
  /\ view.snapshot = <<>> \/ view.snapshot[3] = rows
  /\ view.grid.rows = rows /\ view.grid.ih = height

\* What is edited is assembled, and is what is seen in its row.
EditOK(v) ==
  /\ v.mode = "edit" => v.editAddr \in Addresses /\ v.editBytes = AssembleOne(v.editAddr, v.editText)
  /\ v.grid.editing => /\ v.mode = "edit" /\ v.grid.editValue = v.editText
                       /\ v.grid.editRow = FindRow(rows, v.editAddr) /\ v.grid.editRow # NoRow

\* An edit that waits is the one that was confirmed.
PendingInv ==
  view.pendingData # <<>> =>
    /\ confirmed # NoEdit /\ view.pendingAddr = confirmed.addr /\ confirmed.addr \in Addresses
    /\ view.pendingData = AssembleOne(confirmed.addr, confirmed.text)

InView(a, rs) == FindRow(rs, a) \in 0 .. height - 1

PhaseInv ==
  /\ phase \in {"keys", "freeze"} => ~renders
  /\ phase = "update" => renders
  /\ phase = "freeze" => frozen
  /\ frozen => phase \in {"keys", "freeze"} /\ (view.mode = "edit" => view.grid.editing)
  /\ phase \in {"nav", "fetch", "refetch"} => view.currentAddr \in Addresses
  /\ phase = "nav" => view.nav # "none"
  /\ phase = "refetch" => view.follow /\ (torn \/ InView(cpu, FetchRows(view.currentAddr)))
  /\ phase \in {"keys", "freeze"} /\ followed => view.follow /\ (torn \/ InView(cpu, rows))

\* What is seen is current unless it is about to be rendered.
SelectionShown ==
  view.grid.offset = 0 /\ (rows # <<>> => view.grid.selected \in 0 .. VisCount - 1)

FollowShown ==
  /\ view.grid.highlighted = ActiveRow(view, rows, cpu)
  /\ view.follow /\ ~stale /\ InView(cpu, rows) =>
        /\ view.grid.selected = FindRow(rows, cpu)
        /\ view.selectedAddr = cpu \/ (view.selectedAddr = NoAddr /\ view.hint = NoRow)

ShownInv ==
  /\ view.grid.virtual \in Scrolls
  /\ ~renders => SelectionShown
  /\ ~renders /\ (followed \/ ~frozen) => FollowShown

IInv == TypeInv /\ RowsInv /\ EditOK(view) /\ PendingInv /\ PhaseInv /\ ShownInv

(***************************************************************************)
(* Hexadecimal digits.                                                     *)
(***************************************************************************)

\* Four digits or fewer are an address.
LEMMA HexIs ==
  ASSUME NEW digits \in Buffers
  PROVE  HexValue(digits) \in Addresses
  <1> DEFINE n == Len(digits)
             place(k) == IF k < n THEN digits[n - k] ELSE 0
             v == place(0) + 16 * place(1) + 256 * place(2) + 4096 * place(3)
  <1>1. digits \in Seq(Digit) /\ n \in Nat /\ n <= 4 /\ \A i \in 1 .. n : digits[i] \in Digit
    BY InSeq DEF Buffers
  <1>2. \A k \in Nat : place(k) \in 0 .. 15
    BY <1>1 DEF Digit
  <1>3. HexValue(digits) = v
    BY DEF HexValue
  <1>4. place(0) \in 0 .. 15 /\ place(1) \in 0 .. 15 /\ place(2) \in 0 .. 15 /\ place(3) \in 0 .. 15
    BY <1>2
  <1> DEFINE p == place(0)
             q == place(1)
             r == place(2)
             s == place(3)
  <1>a. v = p + 16 * q + 256 * r + 4096 * s
    OBVIOUS
  <1>b. p \in 0 .. 15 /\ q \in 0 .. 15 /\ r \in 0 .. 15 /\ s \in 0 .. 15
    BY <1>4
  <1> HIDE DEF p, q, r, s
  <1>c. /\ p + 16 * q + 256 * r + 4096 * s \in Int
        /\ 0 <= p + 16 * q + 256 * r + 4096 * s
        /\ p + 16 * q + 256 * r + 4096 * s <= 65535
    BY ONLY <1>b
  <1> HIDE DEF v
  <1>5. v \in Int /\ 0 <= v /\ v <= 65535
    BY <1>a, <1>c
  <1> HIDE DEF v
  <1>6. QED
    BY <1>3, <1>5, InWords

\* The digits of an address.
LEMMA DigitsAre ==
  ASSUME NEW a \in Addresses
  PROVE  HexDigits(a) \in Buffers
  <1> DEFINE p == a \div 4096
             q == (a \div 256) % 16
             r == (a \div 16) % 16
             s == a % 16
  <1>1. a \in Nat /\ a <= 65535
    BY WordIs
  <1>2. p \in Digit /\ q \in Digit /\ r \in Digit /\ s \in Digit
    BY <1>1 DEF Digit
  <1> HIDE DEF p, q, r, s
  <1>3. <<p, q, r, s>> \in Seq(Digit) /\ Len(<<p, q, r, s>>) = 4
    BY <1>2
  <1>4. HexDigits(a) = <<p, q, r, s>>
    BY DEF HexDigits, p, q, r, s
  <1>5. QED
    BY <1>3, <1>4 DEF Buffers

(***************************************************************************)
(* The grid.                                                               *)
(***************************************************************************)

\* The rows of a grid and the lines they may use.
LEMMA GridIs ==
  ASSUME NEW g \in Grids
  PROVE  /\ g.rows \in Seq(Instructions) /\ Len(g.rows) \in Nat
         /\ g.rows = <<>> <=> Len(g.rows) = 0
         /\ ViewH(g) = g.ih /\ g.ih \in Nat
         /\ g.offset \in Int /\ g.selected \in Int /\ g.highlighted \in Int /\ g.editing \in BOOLEAN
  <1>1. g.rows \in Seq(Instructions) /\ g.ih \in Nat /\ g.view = NoView
        /\ g.offset \in Int /\ g.selected \in Int /\ g.highlighted \in Int /\ g.editing \in BOOLEAN
    BY DEF Grids
  <1>2. ViewH(g) = g.ih
    BY <1>1 DEF ViewH, Metrics, AtLeast
  <1>3. QED
    BY <1>1, <1>2, InSeq

\* What moving and clamping do to a grid.
Put(g, o, s, t, e) == [g EXCEPT !.offset = o, !.selected = s, !.highlighted = t, !.editing = e]

\* What Put leaves of a grid.
LEMMA PutKeeps ==
  ASSUME NEW g \in Grids, NEW o \in Int, NEW s \in Int, NEW t \in Int, NEW e \in BOOLEAN
  PROVE  LET h == Put(g, o, s, t, e)
         IN  /\ h \in Grids /\ h.rows = g.rows /\ h.ih = g.ih /\ h.virtual = g.virtual
             /\ h.editRow = g.editRow /\ h.editValue = g.editValue
             /\ h.offset = o /\ h.selected = s /\ h.highlighted = t /\ h.editing = e
             /\ \A p, q, r \in Int : \A f \in BOOLEAN : Put(h, p, q, r, f) = Put(g, p, q, r, f)
             /\ g = Put(g, g.offset, g.selected, g.highlighted, g.editing)
  <1> DEFINE h == Put(g, o, s, t, e)
  <1>1. /\ h \in Grids /\ h.rows = g.rows /\ h.ih = g.ih /\ h.virtual = g.virtual
        /\ h.editRow = g.editRow /\ h.editValue = g.editValue
        /\ h.offset = o /\ h.selected = s /\ h.highlighted = t /\ h.editing = e
    BY DEF Grids, Put
  <1>2. \A p, q, r \in Int : \A f \in BOOLEAN : Put(h, p, q, r, f) = Put(g, p, q, r, f)
    <2> SUFFICES ASSUME NEW p \in Int, NEW q \in Int, NEW r \in Int, NEW f \in BOOLEAN
                 PROVE  Put(h, p, q, r, f) = Put(g, p, q, r, f)
      OBVIOUS
    <2> DEFINE x == Put(h, p, q, r, f)
               y == Put(g, p, q, r, f)
    <2>a. /\ h \in Grids /\ h.rows = g.rows /\ h.ih = g.ih /\ h.virtual = g.virtual
          /\ h.editRow = g.editRow /\ h.editValue = g.editValue
      BY ONLY <1>1
    <2>b. h.selectable = g.selectable /\ h.editable = g.editable /\ h.view = g.view
      BY DEF Grids, Put
    <2> HIDE DEF h
    <2>1. /\ x \in Grids /\ x.rows = g.rows /\ x.ih = g.ih /\ x.virtual = g.virtual
          /\ x.editRow = g.editRow /\ x.editValue = g.editValue
          /\ x.offset = p /\ x.selected = q /\ x.highlighted = r /\ x.editing = f
          /\ x.selectable = g.selectable /\ x.editable = g.editable /\ x.view = g.view
      BY ONLY <2>a, <2>b, p \in Int, q \in Int, r \in Int, f \in BOOLEAN DEF Grids, Put
    <2>2. /\ y \in Grids /\ y.rows = g.rows /\ y.ih = g.ih /\ y.virtual = g.virtual
          /\ y.editRow = g.editRow /\ y.editValue = g.editValue
          /\ y.offset = p /\ y.selected = q /\ y.highlighted = r /\ y.editing = f
          /\ y.selectable = g.selectable /\ y.editable = g.editable /\ y.view = g.view
      BY DEF Grids, Put
    <2> HIDE DEF x, y
    <2>3. x = y
      BY ONLY SMTT(30), <2>1, <2>2 DEF Grids
    <2>4. QED
      BY <2>3 DEF x, y
  <1>3. g = Put(g, g.offset, g.selected, g.highlighted, g.editing)
    BY DEF Grids, Put
  <1>4. QED
    BY <1>1, <1>2, <1>3

\* ui.go clamps a row to the rows there are.
LEMMA InRowsRange ==
  ASSUME NEW g \in Grids, NEW row \in Int
  PROVE  /\ InRows(g, row) \in Int
         /\ g.rows # <<>> => InRows(g, row) \in 0 .. Len(g.rows) - 1
         /\ row \in 0 .. Len(g.rows) - 1 => InRows(g, row) = row
  BY GridIs DEF InRows, LastRow, Within, AtLeast

\* A row is brought into view; one of the first lines is in view when these are shown.
LEMMA EnsureIs ==
  ASSUME NEW g \in Grids, NEW row \in Int
  PROVE  \E o \in Int :
            /\ EnsureRowVisible(g, row) = Put(g, o, g.selected, g.highlighted, g.editing)
            /\ g.offset = 0 /\ InRows(g, row) \in 0 .. g.ih - 1 => o = 0
  <1> DEFINE r == InRows(g, row)
             v == ViewH(g)
  <1>1. r \in Int /\ v \in Nat /\ v = g.ih /\ g.offset \in Int
    BY InRowsRange, GridIs
  <1>2. ASSUME NEW o \in Int
        PROVE  [g EXCEPT !.offset = o] = Put(g, o, g.selected, g.highlighted, g.editing)
    BY DEF Grids, Put
  <1>3. g = [g EXCEPT !.offset = g.offset]
    BY DEF Grids
  <1> HIDE DEF r, v
  <1>4. CASE v <= 0 \/ g.rows = <<>>
    <2>1. EnsureRowVisible(g, row) = g
      BY <1>4 DEF EnsureRowVisible, v
    <2>2. QED
      BY <1>1, <1>2, <1>3, <2>1
  <1>5. CASE ~(v <= 0 \/ g.rows = <<>>) /\ r < g.offset
    <2>1. EnsureRowVisible(g, row) = [g EXCEPT !.offset = r]
      BY <1>5 DEF EnsureRowVisible, r, v
    <2>2. ~(g.offset = 0 /\ r \in 0 .. g.ih - 1)
      BY <1>1, <1>5
    <2>3. QED
      BY <1>1, <1>2, <2>1, <2>2 DEF r
  <1>6. CASE ~(v <= 0 \/ g.rows = <<>>) /\ ~(r < g.offset) /\ r > g.offset + v - 1
    <2>1. EnsureRowVisible(g, row) = [g EXCEPT !.offset = r - v + 1]
      BY <1>6 DEF EnsureRowVisible, r, v
    <2>2. ~(g.offset = 0 /\ r \in 0 .. g.ih - 1) /\ r - v + 1 \in Int
      BY <1>1, <1>6
    <2>3. QED
      BY <1>1, <1>2, <2>1, <2>2 DEF r
  <1>7. CASE ~(v <= 0 \/ g.rows = <<>>) /\ ~(r < g.offset) /\ ~(r > g.offset + v - 1)
    <2>1. EnsureRowVisible(g, row) = g
      BY <1>7 DEF EnsureRowVisible, r, v
    <2>2. QED
      BY <1>1, <1>2, <1>3, <2>1
  <1>8. QED
    BY <1>4, <1>5, <1>6, <1>7

\* The row that is kept of a grid.
Kept(g, row) == IF g.rows = <<>> \/ row = NoRow THEN NoRow ELSE InRows(g, row)

\* A row that is kept is one of the rows.
LEMMA KeptIs ==
  ASSUME NEW g \in Grids, NEW row \in Int
  PROVE  /\ Kept(g, row) \in Int
         /\ Kept(g, row) = NoRow \/ Kept(g, row) \in 0 .. Len(g.rows) - 1
         /\ row \in 0 .. Len(g.rows) - 1 => Kept(g, row) = row
         /\ row = NoRow => Kept(g, row) = NoRow
         /\ g.rows # <<>> /\ row # NoRow => Kept(g, row) = InRows(g, row)
         /\ Kept(g, row) # NoRow => g.rows # <<>> /\ InRows(g, Kept(g, row)) = Kept(g, row)
  <1>1. InRows(g, row) \in Int /\ NoRow \in Int
    BY InRowsRange DEF NoRow
  <1>2. /\ g.rows # <<>> => InRows(g, row) \in 0 .. Len(g.rows) - 1
        /\ row \in 0 .. Len(g.rows) - 1 => InRows(g, row) = row
    BY InRowsRange
  <1>3. /\ Kept(g, row) \in Int
        /\ Kept(g, row) = NoRow \/ Kept(g, row) \in 0 .. Len(g.rows) - 1
        /\ g.rows # <<>> /\ row # NoRow => Kept(g, row) = InRows(g, row)
        /\ row = NoRow => Kept(g, row) = NoRow
        /\ Kept(g, row) # NoRow => g.rows # <<>>
    BY <1>1, <1>2 DEF Kept
  <1>4. row \in 0 .. Len(g.rows) - 1 => g.rows # <<>> /\ row # NoRow
    BY GridIs DEF NoRow
  <1>5. Kept(g, row) \in 0 .. Len(g.rows) - 1 => InRows(g, Kept(g, row)) = Kept(g, row)
    BY <1>3, InRowsRange
  <1>6. QED
    BY <1>1, <1>2, <1>3, <1>4, <1>5

\* clampState.
LEMMA ClampIs ==
  ASSUME NEW g \in Grids
  PROVE  \E o \in Int :
            /\ ClampState(g) = Put(g, o, Kept(g, g.selected), Kept(g, g.highlighted), g.editing)
            /\ g.offset = 0 /\ (g.selected = NoRow \/ Kept(g, g.selected) \in 0 .. g.ih - 1) => o = 0
  <1> DEFINE s == Kept(g, g.selected)
             t == Kept(g, g.highlighted)
             o == Within(g.offset, 0, MaxOffset(g))
             h == Put(g, o, s, t, g.editing)
  <1>1. g.offset \in Int /\ g.selected \in Int /\ g.highlighted \in Int /\ g.editing \in BOOLEAN
        /\ Len(g.rows) \in Nat /\ ViewH(g) \in Nat
    BY GridIs
  <1>2. o \in Int /\ (g.offset = 0 => o = 0)
    <2>1. MaxOffset(g) \in Nat
      BY <1>1 DEF MaxOffset, AtLeast
    <2>2. QED
      BY <1>1, <2>1 DEF Within, AtLeast
  <1>3. s \in Int /\ t \in Int
    BY <1>1, KeptIs
  <1>4. h = [g EXCEPT !.selected = s, !.highlighted = t, !.offset = o]
    BY DEF Grids, Put
  <1>5. /\ h \in Grids /\ h.rows = g.rows /\ h.ih = g.ih
        /\ h.offset = o /\ h.selected = s /\ h.highlighted = t /\ h.editing = g.editing
        /\ \A p, q, r \in Int : \A f \in BOOLEAN : Put(h, p, q, r, f) = Put(g, p, q, r, f)
    BY <1>1, <1>2, <1>3, PutKeeps
  <1>6. ClampState(g) = IF h.selected = NoRow THEN h ELSE EnsureRowVisible(h, h.selected)
    <2> HIDE DEF h
    <2> DEFINE c == [g EXCEPT !.selected = IF g.rows = <<>> \/ @ = NoRow
                                           THEN NoRow ELSE InRows(g, @),
                              !.highlighted = IF g.rows = <<>> \/ @ = NoRow
                                              THEN NoRow ELSE InRows(g, @),
                              !.offset = Within(@, 0, MaxOffset(g))]
    <2>1. ClampState(g) = IF c.selected = NoRow THEN c ELSE EnsureRowVisible(c, c.selected)
      BY DEF ClampState
    <2>2. c = h
      BY <1>4 DEF Kept
    <2> HIDE DEF c
    <2>3. QED
      BY <2>1, <2>2
  <1> HIDE DEF h, s, t, o
  <1>7. CASE s = NoRow
    <2>1. ClampState(g) = Put(g, o, s, t, g.editing)
      BY <1>6, <1>5, <1>7 DEF h
    <2>2. QED
      BY <1>2, <2>1 DEF s, t
  <1>8. CASE s # NoRow
    <2>1. PICK p \in Int :
             /\ EnsureRowVisible(h, s) = Put(h, p, h.selected, h.highlighted, h.editing)
             /\ h.offset = 0 /\ InRows(h, s) \in 0 .. h.ih - 1 => p = 0
      BY <1>3, <1>5, EnsureIs
    <2>2. ClampState(g) = Put(g, p, s, t, g.editing)
      BY <1>1, <1>3, <1>5, <1>6, <1>8, <2>1
    <2>3. InRows(g, s) = s /\ g.selected # NoRow
      BY <1>1, <1>8, KeptIs DEF s
    <2>4. InRows(h, s) = InRows(g, s)
      BY <1>5 DEF InRows, LastRow
    <2>5. g.offset = 0 /\ s \in 0 .. g.ih - 1 => p = 0
      BY <1>2, <1>5, <2>1, <2>3, <2>4
    <2>6. QED
      BY <2>2, <2>3, <2>5 DEF s, t
  <1>9. QED
    BY <1>7, <1>8

\* SetSelectedRow selects the row, clamped, or none.
LEMMA SelectIs ==
  ASSUME NEW g \in Grids, NEW row \in Int
  PROVE  \E o \in Int, e \in BOOLEAN :
            /\ SetSelectedRow(g, row) = Put(g, o, Kept(g, row), g.highlighted, e)
            /\ e => g.editing
            /\ g.offset = 0 /\ (row = NoRow \/ Kept(g, row) \in 0 .. g.ih - 1) => o = 0
  <1> DEFINE r == Kept(g, row)
  <1>1. g.offset \in Int /\ g.selected \in Int /\ g.highlighted \in Int /\ g.editing \in BOOLEAN
        /\ FALSE \in BOOLEAN /\ r \in Int /\ NoRow \in Int
    BY GridIs, KeptIs DEF NoRow
  <1>2. g = Put(g, g.offset, g.selected, g.highlighted, g.editing)
    BY <1>1, PutKeeps
  <1>3. r = IF row = NoRow \/ g.rows = <<>> THEN NoRow ELSE InRows(g, row)
    BY DEF Kept
  <1> HIDE DEF r
  <1>4. CASE g.selected = r
    <2>1. SetSelectedRow(g, row) = g
      BY <1>3, <1>4 DEF SetSelectedRow
    <2>2. QED
      BY <1>1, <1>2, <1>4, <2>1 DEF r
  <1>5. CASE g.selected # r /\ (row = NoRow \/ g.rows = <<>>)
    <2>1. SetSelectedRow(g, row) = [g EXCEPT !.selected = NoRow, !.editing = FALSE] /\ r = NoRow
      BY <1>3, <1>5 DEF SetSelectedRow
    <2>2. SetSelectedRow(g, row) = Put(g, g.offset, r, g.highlighted, FALSE)
      BY <2>1 DEF Put, Grids
    <2>3. QED
      BY <1>1, <2>2 DEF r
  <1>6. CASE g.selected # r /\ ~(row = NoRow \/ g.rows = <<>>)
    <2> DEFINE h == Put(g, g.offset, r, g.highlighted, FALSE)
    <2>1. SetSelectedRow(g, row) = EnsureRowVisible([g EXCEPT !.selected = r, !.editing = FALSE], row)
      BY <1>3, <1>6 DEF SetSelectedRow
    <2>2. [g EXCEPT !.selected = r, !.editing = FALSE] = h
      BY DEF Put, Grids
    <2>3. /\ h \in Grids /\ h.rows = g.rows /\ h.ih = g.ih /\ h.offset = g.offset
          /\ h.selected = r /\ h.highlighted = g.highlighted /\ h.editing = FALSE
          /\ \A p, q, s \in Int : \A f \in BOOLEAN : Put(h, p, q, s, f) = Put(g, p, q, s, f)
      <3>1. g.offset \in Int /\ r \in Int /\ g.highlighted \in Int /\ FALSE \in BOOLEAN
        BY <1>1
      <3> HIDE DEF h
      <3>2. LET k == Put(g, g.offset, r, g.highlighted, FALSE)
            IN  /\ k \in Grids /\ k.rows = g.rows /\ k.ih = g.ih /\ k.virtual = g.virtual
                /\ k.editRow = g.editRow /\ k.editValue = g.editValue
                /\ k.offset = g.offset /\ k.selected = r /\ k.highlighted = g.highlighted /\ k.editing = FALSE
                /\ \A p, q, s \in Int : \A f \in BOOLEAN : Put(k, p, q, s, f) = Put(g, p, q, s, f)
                /\ g = Put(g, g.offset, g.selected, g.highlighted, g.editing)
        <4> DEFINE no == FALSE
        <4>1. no \in BOOLEAN
          OBVIOUS
        <4> HIDE DEF no
        <4>2. LET k == Put(g, g.offset, r, g.highlighted, no)
              IN  /\ k \in Grids /\ k.rows = g.rows /\ k.ih = g.ih /\ k.virtual = g.virtual
                  /\ k.editRow = g.editRow /\ k.editValue = g.editValue
                  /\ k.offset = g.offset /\ k.selected = r /\ k.highlighted = g.highlighted /\ k.editing = no
                  /\ \A p, q, s \in Int : \A f \in BOOLEAN : Put(k, p, q, s, f) = Put(g, p, q, s, f)
                  /\ g = Put(g, g.offset, g.selected, g.highlighted, g.editing)
          BY ONLY <3>1, <4>1, g \in Grids, PutKeeps
        <4>3. QED
          BY <4>2 DEF no
      <3>3. QED
        BY <3>2 DEF h
    <2> HIDE DEF h
    <2>4. PICK o \in Int :
             /\ EnsureRowVisible(h, row) = Put(h, o, h.selected, h.highlighted, h.editing)
             /\ h.offset = 0 /\ InRows(h, row) \in 0 .. h.ih - 1 => o = 0
      BY <2>3, EnsureIs
    <2>5. InRows(h, row) = r
      BY <1>3, <1>6, <2>3 DEF InRows, LastRow
    <2>6. SetSelectedRow(g, row) = Put(g, o, r, g.highlighted, FALSE)
      <3>1. SetSelectedRow(g, row) = Put(h, o, r, g.highlighted, FALSE)
        BY <2>1, <2>2, <2>3, <2>4
      <3>2. Put(h, o, r, g.highlighted, FALSE) = Put(g, o, r, g.highlighted, FALSE)
        <4> DEFINE no == FALSE
        <4>1. no \in BOOLEAN
          OBVIOUS
        <4> HIDE DEF no
        <4>2. r \in Int /\ g.highlighted \in Int /\ o \in Int
          BY <1>1, <2>3, <2>4
        <4>3. Put(h, o, r, g.highlighted, no) = Put(g, o, r, g.highlighted, no)
          BY ONLY <2>3, <4>1, <4>2
        <4>4. QED
          BY <4>3 DEF no
      <3>3. QED
        BY <3>1, <3>2
    <2>7. g.offset = 0 /\ (row = NoRow \/ r \in 0 .. g.ih - 1) => o = 0
      BY <1>6, <2>3, <2>4, <2>5
    <2>8. QED
      BY <1>1, <2>6, <2>7 DEF r
  <1>7. QED
    BY <1>4, <1>5, <1>6

\* A row is marked.
LEMMA HighlightIs ==
  ASSUME NEW g \in Grids, NEW row \in Int
  PROVE  SetHighlightedRow(g, row) = Put(g, g.offset, g.selected, Kept(g, row), g.editing)
  <1> DEFINE r == Kept(g, row)
  <1>1. SetHighlightedRow(g, row) = [g EXCEPT !.highlighted = r]
    BY DEF SetHighlightedRow, Kept
  <1> HIDE DEF r
  <1>2. [g EXCEPT !.highlighted = r] = Put(g, g.offset, g.selected, r, g.editing)
    BY DEF Grids, Put
  <1>3. QED
    BY <1>1, <1>2 DEF r

\* The first row is scrolled to the first line.
LEMMA OffsetIs ==
  ASSUME NEW g \in Grids
  PROVE  SetOffset(g, 0) = Put(g, 0, g.selected, g.highlighted, g.editing)
  <1>1. Len(g.rows) \in Nat /\ ViewH(g) \in Nat
    BY GridIs
  <1>2. MaxOffset(g) \in Nat
    BY <1>1 DEF MaxOffset, AtLeast
  <1>3. Within(0, 0, MaxOffset(g)) = 0
    BY <1>2 DEF Within, AtLeast
  <1>4. SetOffset(g, 0) = [g EXCEPT !.offset = 0]
    BY <1>3 DEF SetOffset
  <1>5. QED
    BY <1>4 DEF Grids, Put

\* A scroll bar is given something to stand for.
Bar(g, s) == [g EXCEPT !.virtual = s]

\* A scroll bar stands for a part of the memory.
LEMMA ScrollIs ==
  ASSUME NEW g \in Grids, NEW offset \in Int, NEW page \in Int
  PROVE  \E s \in Scrolls : SetVirtualScroll(g, Word, offset, page) = Bar(g, s)
  <1> DEFINE t == AtLeast(1, Word)
             p == Within(page, 1, t)
             o == Within(offset, 0, t - p)
             s == [total |-> t, page |-> p, offset |-> o]
  <1>1. Word \in Nat
    BY LastWord
  <1>2. t \in Nat /\ 1 <= t
    BY <1>1 DEF AtLeast
  <1> HIDE DEF t
  <1>3. p \in Nat /\ 1 <= p /\ p <= t
    BY <1>2 DEF Within, AtLeast
  <1> HIDE DEF p
  <1>4. o \in Nat /\ o + p <= t
    BY <1>2, <1>3 DEF Within, AtLeast
  <1>5. SetVirtualScroll(g, Word, offset, page) = Bar(g, s)
    BY DEF SetVirtualScroll, Bar, t, p
  <1> HIDE DEF o
  <1>6. s \in Scrolls
    BY <1>2, <1>3, <1>4 DEF Scrolls
  <1>7. QED
    BY <1>5, <1>6

\* VirtualScroll does.
LEMMA VirtualIs ==
  ASSUME NEW g \in Grids, NEW rs \in Seq(Instructions), NEW vis \in Int, rs # <<>> => vis \in 1 .. Len(rs),
         NEW active \in Int, active = NoRow \/ active \in 0 .. Len(rs) - 1, NEW current \in Int
  PROVE  \E s \in Scrolls : VirtualScroll(g, rs, vis, active, current) = Bar(g, s)
  <1>1. CASE rs = <<>>
    BY <1>1, ScrollIs DEF VirtualScroll
  <1>2. CASE rs # <<>>
    <2> DEFINE end == Smaller(Word, rs[vis].addr + Size(rs[vis]))
               offset == IF active = NoRow THEN rs[1].addr ELSE rs[active + 1].addr
               page == AtLeast(1, end - rs[1].addr)
    <2>1. Len(rs) \in Nat /\ Len(rs) > 0 /\ vis \in 1 .. Len(rs) /\ 1 \in 1 .. Len(rs)
          /\ \A i \in 1 .. Len(rs) : rs[i] \in Instructions
      BY <1>2, InSeq
    <2>2. \A i \in 1 .. Len(rs) : rs[i].addr \in Int /\ Size(rs[i]) \in Int
      BY <2>1, InstructionIs, WordIs
    <2>3. page \in Int
      <3>1. rs[1].addr \in Int /\ rs[vis].addr \in Int /\ Size(rs[vis]) \in Int /\ Word \in Int
        BY <2>1, <2>2, LastWord
      <3>2. QED
        BY <3>1 DEF Smaller, AtLeast
    <2>4. offset \in Int
      <3>1. active # NoRow => active + 1 \in 1 .. Len(rs)
        BY <2>1
      <3>2. QED
        BY <2>1, <2>2, <3>1
    <2>5. VirtualScroll(g, rs, vis, active, current) = SetVirtualScroll(g, Word, offset, page)
      BY <1>2 DEF VirtualScroll
    <2> HIDE DEF offset, page
    <2>6. QED
      BY <2>3, <2>4, <2>5, ScrollIs
  <1>3. QED
    BY <1>1, <1>2

\* What rendering makes of the grid, before the row that is edited is put in.
PlacedGrid(g, rs, h, s, row, active) ==
  [g EXCEPT !.rows = rs, !.ih = h, !.offset = 0, !.selected = row, !.highlighted = active,
            !.editing = FALSE, !.editRow = 0, !.editValue = <<>>, !.virtual = s]

\* The grid is placed at its first row, with its bar.
LEMMA PlacedGridIs ==
  ASSUME NEW g \in Grids, NEW rs \in Seq(Instructions), NEW h \in Nat, NEW current \in Int, NEW vis \in Int,
         rs # <<>> => vis \in 1 .. Len(rs),
         NEW row \in Int, row = NoRow \/ row \in 0 .. Len(rs) - 1,
         NEW active \in Int, active = NoRow \/ active \in 0 .. Len(rs) - 1
  PROVE  \E s \in Scrolls :
            LET data == SetData([g EXCEPT !.ih = h], rs)
                marked == SetHighlightedRow(SetSelectedRow(data, row), active)
            IN  SetOffset(VirtualScroll(marked, rs, vis, active, current), 0)
                  = PlacedGrid(g, rs, h, s, row, active)
  <1> DEFINE b == [g EXCEPT !.rows = rs, !.ih = h, !.editing = FALSE, !.editRow = 0, !.editValue = <<>>]
             data == SetData([g EXCEPT !.ih = h], rs)
             chosen == SetSelectedRow(data, row)
             marked == SetHighlightedRow(chosen, active)
  <1>1. b \in Grids /\ b.rows = rs /\ b.ih = h /\ b.editing = FALSE
        /\ b.selected \in Int /\ b.highlighted \in Int
    <2> DEFINE none == <<>>
               off == FALSE
               zero == 0
    <2>1. none \in Statements \cup {<<>>} /\ off \in BOOLEAN /\ zero \in Int
      OBVIOUS
    <2> HIDE DEF none, off, zero
    <2> DEFINE c == [g EXCEPT !.rows = rs, !.ih = h, !.editing = off, !.editRow = zero,
                            !.editValue = none]
    <2>2. c \in Grids /\ c.rows = rs /\ c.ih = h /\ c.editing = off /\ c.selected \in Int /\ c.highlighted \in Int
      <3>1. g.selected \in Int /\ g.highlighted \in Int
        BY DEF Grids
      <3>2. c \in Grids
        BY <2>1 DEF Grids
      <3>3. c.rows = rs /\ c.ih = h /\ c.editing = off /\ c.selected = g.selected /\ c.highlighted = g.highlighted
        BY DEF Grids
      <3>4. QED
        BY <3>1, <3>2, <3>3
    <2>3. QED
      BY <2>2 DEF none, off, zero
  <1>2. data = ClampState(b)
    <2>1. b = [StopsEditing([g EXCEPT !.ih = h]) EXCEPT !.rows = rs]
      BY DEF Grids, StopsEditing
    <2> HIDE DEF b
    <2>2. QED
      BY <2>1 DEF SetData
  <1>3. \A k \in Grids : k.rows = rs => /\ Kept(k, row) = row
                                        /\ Kept(k, active) = active
    BY KeptIs
  <1> HIDE DEF b
  <1> DEFINE no == FALSE
  <1>4. no \in BOOLEAN /\ (no <=> FALSE)
    OBVIOUS
  <1> HIDE DEF no
  <1>5. \E o, p, t \in Int : data = Put(b, o, p, t, no)
    <2>1. PICK o \in Int : ClampState(b) = Put(b, o, Kept(b, b.selected), Kept(b, b.highlighted), b.editing)
      BY <1>1, ClampIs
    <2>2. Kept(b, b.selected) \in Int /\ Kept(b, b.highlighted) \in Int
      BY <1>1, KeptIs
    <2>3. QED
      BY <1>1, <1>2, <2>1, <2>2 DEF no
  <1>6. PICK o, p, t \in Int : data = Put(b, o, p, t, no)
    BY <1>5
  <1> HIDE DEF data
  <1>7. /\ data \in Grids /\ data.rows = rs /\ data.highlighted = t /\ data.editing = no
        /\ \A x, y, z \in Int : \A f \in BOOLEAN : Put(data, x, y, z, f) = Put(b, x, y, z, f)
    BY ONLY <1>1, <1>4, <1>6, PutKeeps
  <1>8. PICK q \in Int : chosen = Put(b, q, row, t, no)
    <2>1. PICK q \in Int, e \in BOOLEAN :
             /\ SetSelectedRow(data, row) = Put(data, q, Kept(data, row), data.highlighted, e)
             /\ e => data.editing
      <3>1. data \in Grids
        BY <1>7
      <3>2. QED
        BY ONLY <3>1, row \in Int, SelectIs
    <2>2. e = no
      BY <2>1, <1>4, <1>7
    <2>3. Put(data, q, row, t, no) = Put(b, q, row, t, no)
      BY ONLY <1>4, <1>7, q \in Int, row \in Int, t \in Int
    <2>4. chosen = Put(data, q, row, t, no)
      BY <1>3, <1>7, <2>1, <2>2
    <2>5. QED
      BY <2>3, <2>4
  <1> HIDE DEF chosen
  <1>9. /\ chosen \in Grids /\ chosen.rows = rs /\ chosen.offset = q /\ chosen.selected = row /\ chosen.editing = no
        /\ \A x, y, z \in Int : \A f \in BOOLEAN : Put(chosen, x, y, z, f) = Put(b, x, y, z, f)
    BY ONLY <1>1, <1>4, <1>8, row \in Int, PutKeeps
  <1>10. marked = Put(b, q, row, active, no)
    <2>1. marked = Put(chosen, q, row, active, no)
      BY <1>3, <1>9, HighlightIs
    <2>2. QED
      BY <1>4, <1>9, <2>1
  <1> HIDE DEF marked
  <1>11. marked \in Grids
    BY ONLY <1>1, <1>4, <1>10, row \in Int, active \in Int, PutKeeps
  <1>12. PICK s \in Scrolls : VirtualScroll(marked, rs, vis, active, current) = Bar(marked, s)
    <2> DEFINE m == marked
               w == VirtualScroll(m, rs, vis, active, current)
    <2>1. m \in Grids /\ w = VirtualScroll(m, rs, vis, active, current)
      BY <1>11
    <2> HIDE DEF m, w
    <2>2. PICK s \in Scrolls : w = Bar(m, s)
      BY ONLY <2>1, VirtualIs, rs \in Seq(Instructions), vis \in Int, rs # <<>> => vis \in 1 .. Len(rs),
              active \in Int, active = NoRow \/ active \in 0 .. Len(rs) - 1, current \in Int
    <2>3. QED
      BY <2>2 DEF m, w
  <1> DEFINE k == Bar(marked, s)
  <1>13. k \in Grids
    BY <1>11 DEF Grids, Bar
  <1>14. SetOffset(k, 0) = Put(k, 0, k.selected, k.highlighted, k.editing)
    <2> HIDE DEF k
    <2>1. QED
      BY <1>13, OffsetIs
  <1>15. Put(k, 0, k.selected, k.highlighted, k.editing) = PlacedGrid(g, rs, h, s, row, active)
    BY <1>10 DEF b, no, Put, PlacedGrid, Grids, Bar
  <1>16. QED
    BY <1>12, <1>14, <1>15 DEF marked, chosen, data

\* A grid as rendering leaves it, clamped once more, is the same.
LEMMA RenderGridIs ==
  ASSUME NEW g \in Grids, g.offset = 0, g.selected = NoRow \/ g.selected \in 0 .. Len(g.rows) - 1,
         g.selected = NoRow \/ g.selected \in 0 .. g.ih - 1,
         g.highlighted = NoRow \/ g.highlighted \in 0 .. Len(g.rows) - 1
  PROVE  RenderGrid(g) = g
  <1>1. g.selected \in Int /\ g.highlighted \in Int /\ g.offset \in Int /\ g.editing \in BOOLEAN
    BY GridIs
  <1>2. Kept(g, g.selected) = g.selected /\ Kept(g, g.highlighted) = g.highlighted
    BY <1>1, KeptIs
  <1>3. ClampState(g) = Put(g, 0, g.selected, g.highlighted, g.editing)
    BY <1>2, ClampIs
  <1>4. Put(g, 0, g.selected, g.highlighted, g.editing) = g
    BY <1>1, PutKeeps
  <1>5. QED
    BY <1>3, <1>4 DEF RenderGrid

\* A grid with a row that is edited in it.
Edits(g, row, value) == [g EXCEPT !.editing = TRUE, !.editRow = row, !.editValue = value]

\* What Edits leaves of a grid, and that BeginEdit is Edits on a row there is.
LEMMA EditsIs ==
  ASSUME NEW g \in Grids, NEW row \in Int, NEW value \in Statements
  PROVE  /\ Edits(g, row, value) \in Grids
         /\ Edits(g, row, value).rows = g.rows /\ Edits(g, row, value).ih = g.ih
         /\ Edits(g, row, value).offset = g.offset /\ Edits(g, row, value).selected = g.selected
         /\ Edits(g, row, value).highlighted = g.highlighted /\ Edits(g, row, value).virtual = g.virtual
         /\ Edits(g, row, value).editing /\ Edits(g, row, value).editRow = row
         /\ Edits(g, row, value).editValue = value
         /\ BeginEdit(g, row, value) = IF row \in 0 .. Len(g.rows) - 1 THEN Edits(g, row, value) ELSE g
  <1> DEFINE on == TRUE
             e == [g EXCEPT !.editing = on, !.editRow = row, !.editValue = value]
  <1>1. on \in BOOLEAN /\ value \in Statements \cup {<<>>}
    OBVIOUS
  <1> HIDE DEF on
  <1>2. e \in Grids
    BY <1>1 DEF Grids
  <1>3. /\ e.rows = g.rows /\ e.ih = g.ih /\ e.offset = g.offset /\ e.selected = g.selected
        /\ e.highlighted = g.highlighted /\ e.virtual = g.virtual
        /\ e.editing = on /\ e.editRow = row /\ e.editValue = value
    BY DEF Grids
  <1>4. Edits(g, row, value) = e
    BY DEF Edits, on
  <1>5. g.editable # 0
    BY DEF Grids
  <1>6. BeginEdit(g, row, value) = IF row \in 0 .. Len(g.rows) - 1 THEN Edits(g, row, value) ELSE g
    BY <1>5 DEF BeginEdit, LastRow, Edits
  <1> HIDE DEF e
  <1>7. QED
    BY <1>2, <1>3, <1>4, <1>6 DEF on

\* The placed grid is one, with what it was given.
LEMMA PlacedIs ==
  ASSUME NEW g \in Grids, NEW rs \in Seq(Instructions), NEW h \in Nat, NEW s \in Scrolls,
         NEW row \in Int, NEW active \in Int
  PROVE  LET p == PlacedGrid(g, rs, h, s, row, active)
         IN  /\ p \in Grids /\ p.rows = rs /\ p.ih = h /\ p.offset = 0 /\ p.selected = row
             /\ p.highlighted = active /\ ~p.editing /\ p.virtual = s
  <1> DEFINE none == <<>>
             off == FALSE
             zero == 0
             p == [g EXCEPT !.rows = rs, !.ih = h, !.offset = zero, !.selected = row, !.highlighted = active,
                            !.editing = off, !.editRow = zero, !.editValue = none, !.virtual = s]
  <1>1. none \in Statements \cup {<<>>} /\ off \in BOOLEAN /\ zero \in Int /\ s \in Scrolls \cup {NoScroll}
    OBVIOUS
  <1> HIDE DEF none, off, zero
  <1>2. p \in Grids
    BY <1>1 DEF Grids
  <1>3. /\ p.rows = rs /\ p.ih = h /\ p.offset = zero /\ p.selected = row
        /\ p.highlighted = active /\ p.editing = off /\ p.virtual = s
    BY DEF Grids
  <1>4. PlacedGrid(g, rs, h, s, row, active) = p
    BY DEF PlacedGrid, none, off, zero
  <1> HIDE DEF p
  <1>5. QED
    BY <1>2, <1>3, <1>4 DEF off, zero

\* What a view holds.
LEMMA ViewIs ==
  ASSUME NEW v \in Views
  PROVE  /\ v.follow \in BOOLEAN /\ v.mode \in {"", "addr", "edit"} /\ v.selectedAddr \in MaybeAddr
         /\ v.hint \in Int /\ v.buffer \in Buffers /\ v.fresh \in BOOLEAN /\ v.before \in MaybeAddr
         /\ v.currentAddr \in MaybeAddr /\ v.snapshot \in {<<>>} \cup Snapshots /\ v.nav \in Navs
         /\ v.steps \in Int /\ v.pendingAddr \in MaybeAddr /\ v.pendingData \in Seq(Bytes)
         /\ v.editAddr \in MaybeAddr /\ v.editText \in Statements /\ v.editBytes \in Seq(Bytes)
         /\ v.grid \in Grids
  BY DEF Views

\* An address, or none.
LEMMA MaybeIs ==
  ASSUME NEW a \in MaybeAddr
  PROVE  a \in Int /\ (a # NoAddr => a \in Addresses)
  BY WordIs DEF MaybeAddr, NoAddr

\* The row that is marked.
LEMMA ActiveRowIs ==
  ASSUME NEW v, NEW rs \in Seq(Instructions), Rising(rs), NEW pc
  PROVE  /\ ActiveRow(v, rs, pc) \in Int
         /\ ActiveRow(v, rs, pc) = NoRow \/ ActiveRow(v, rs, pc) \in 0 .. Len(rs) - 1
  <1>1. FindRow(rs, pc) = NoRow \/ FindRow(rs, pc) \in 0 .. Len(rs) - 1
    BY FindRowIs
  <1>2. Len(rs) \in Nat
    BY InSeq
  <1>3. QED
    BY <1>1, <1>2 DEF ActiveRow, NoRow

\* The row that rendering selects.
Chosen(v, rs, pc) ==
  LET byAddr == IF v.selectedAddr = NoAddr THEN NoRow ELSE FindRow(rs, v.selectedAddr)
      active == ActiveRow(v, rs, pc)
  IN  CASE byAddr # NoRow -> byAddr
        [] byAddr = NoRow /\ v.hint # NoRow -> v.hint
        [] byAddr = NoRow /\ v.hint = NoRow /\ v.follow /\ active # NoRow -> active
        [] OTHER -> 0

Row(v, rs, pc, h) ==
  IF Smaller(Len(rs), h) = 0 THEN NoRow ELSE Within(Chosen(v, rs, pc), 0, Smaller(Len(rs), h) - 1)

\* The row that is chosen is seen, and is the program counter's in a window that follows.
LEMMA ChosenIs ==
  ASSUME NEW v \in Views, NEW rs \in Seq(Instructions), Rising(rs), NEW pc \in Addresses, NEW h \in Nat \ {0}
  PROVE  /\ Row(v, rs, pc, h) \in Int
         /\ rs = <<>> => Row(v, rs, pc, h) = NoRow
         /\ rs # <<>> => /\ Smaller(Len(rs), h) \in 1 .. Len(rs)
                         /\ Smaller(Len(rs), h) <= h
                         /\ Row(v, rs, pc, h) \in 0 .. Smaller(Len(rs), h) - 1
         /\ v.follow /\ FindRow(rs, pc) \in 0 .. h - 1
               /\ (v.selectedAddr = pc \/ (v.selectedAddr = NoAddr /\ v.hint = NoRow))
               => Row(v, rs, pc, h) = FindRow(rs, pc)
  <1> DEFINE vis == Smaller(Len(rs), h)
             c == Chosen(v, rs, pc)
             f == FindRow(rs, pc)
             active == ActiveRow(v, rs, pc)
             byAddr == IF v.selectedAddr = NoAddr THEN NoRow ELSE FindRow(rs, v.selectedAddr)
  <1>1. Len(rs) \in Nat /\ (rs = <<>> <=> Len(rs) = 0)
    BY InSeq
  <1>2. f \in Int /\ (f = NoRow \/ f \in 0 .. Len(rs) - 1)
    BY <1>1, FindRowIs DEF NoRow
  <1>3. active \in Int /\ NoRow \in Int /\ NoRow = -1 /\ v.hint \in Int
    <2>1. active \in Int
      BY ActiveRowIs
    <2>2. v.hint \in Int
      BY ViewIs
    <2> HIDE DEF active
    <2>3. QED
      BY <2>1, <2>2 DEF NoRow
  <1>4. byAddr \in Int
    <2>1. FindRow(rs, v.selectedAddr) = NoRow \/ FindRow(rs, v.selectedAddr) \in 0 .. Len(rs) - 1
      BY FindRowIs
    <2>2. QED
      BY <1>1, <1>3, <2>1
  <1>5. active = IF v.mode = "addr" /\ f = 0 THEN NoRow ELSE f
    BY DEF ActiveRow
  <1>6. c = CASE byAddr # NoRow -> byAddr
              [] byAddr = NoRow /\ v.hint # NoRow -> v.hint
              [] byAddr = NoRow /\ v.hint = NoRow /\ v.follow /\ active # NoRow -> active
              [] OTHER -> 0
    BY DEF Chosen
  <1>7. v.selectedAddr = pc => byAddr = f
    BY WordIs DEF NoAddr
  <1>8. v.selectedAddr = NoAddr => byAddr = NoRow
    OBVIOUS
  <1> HIDE DEF c, f, active, byAddr
  <1>9. c \in Int
    BY <1>3, <1>4, <1>6
  <1>10. v.follow /\ f # NoRow /\ (v.selectedAddr = pc \/ (v.selectedAddr = NoAddr /\ v.hint = NoRow)) => c = f
    BY <1>2, <1>3, <1>5, <1>6, <1>7, <1>8
  <1>11. /\ vis \in Nat /\ vis <= h /\ vis <= Len(rs) /\ (vis = 0 <=> Len(rs) = 0)
         /\ vis = h \/ vis = Len(rs)
    BY <1>1 DEF Smaller
  <1>12. Row(v, rs, pc, h) = IF vis = 0 THEN NoRow ELSE Within(c, 0, vis - 1)
    BY DEF Row, c
  <1> HIDE DEF vis
  <1>13. vis # 0 => Within(c, 0, vis - 1) \in 0 .. vis - 1
    BY <1>9, <1>11 DEF Within, AtLeast
  <1>14. vis # 0 /\ c \in 0 .. vis - 1 => Within(c, 0, vis - 1) = c
    BY <1>9, <1>11 DEF Within, AtLeast
  <1>15. f \in 0 .. h - 1 => f # NoRow /\ f \in 0 .. vis - 1 /\ vis # 0
    BY <1>1, <1>2, <1>3, <1>11
  <1>16. QED
    BY <1>1, <1>3, <1>10, <1>11, <1>12, <1>13, <1>14, <1>15 DEF vis, f

\* What rendering leaves of a view.
Same(v, w) ==
  /\ w.follow = v.follow /\ w.mode = v.mode /\ w.buffer = v.buffer /\ w.before = v.before
  /\ w.currentAddr = v.currentAddr /\ w.snapshot = v.snapshot /\ w.nav = v.nav /\ w.steps = v.steps
  /\ w.pendingAddr = v.pendingAddr /\ w.pendingData = v.pendingData
  /\ w.editAddr = v.editAddr /\ w.editText = v.editText /\ w.editBytes = v.editBytes

\* What rendering makes of it.
Shows(w, v, rs, pc, h) ==
  /\ w \in Views /\ Same(v, w)
  /\ w.grid.rows = rs /\ w.grid.ih = h /\ w.grid.offset = 0 /\ w.grid.virtual \in Scrolls
  /\ w.grid.selected = Row(v, rs, pc, h) /\ w.grid.highlighted = ActiveRow(v, rs, pc)
  /\ w.grid.editing <=> v.mode = "edit" /\ FindRow(rs, v.editAddr) # NoRow
  /\ w.grid.editing => w.grid.editRow = FindRow(rs, v.editAddr) /\ w.grid.editValue = v.editText
  /\ w.selectedAddr = IF Row(v, rs, pc, h) = NoRow THEN NoAddr ELSE rs[Row(v, rs, pc, h) + 1].addr

\* A view with another grid and another row selected.
Selecting(v, row, a, g) == [v EXCEPT !.hint = row, !.selectedAddr = a, !.grid = g]

\* What Selecting leaves of a view.
LEMMA SelectingIs ==
  ASSUME NEW v \in Views, NEW row \in Int, NEW a \in MaybeAddr, NEW g \in Grids
  PROVE  LET w == Selecting(v, row, a, g)
         IN  w \in Views /\ Same(v, w) /\ w.grid = g /\ w.selectedAddr = a /\ w.hint = row
  <1> DEFINE w == [v EXCEPT !.hint = row, !.selectedAddr = a, !.grid = g]
  <1>1. w \in Views
    BY DEF Views
  <1>2. Same(v, w) /\ w.grid = g /\ w.selectedAddr = a /\ w.hint = row
    BY DEF Views, Same
  <1>3. QED
    BY <1>1, <1>2 DEF Selecting

\* Render does what Shows says.
LEMMA RenderedIs ==
  ASSUME NEW v \in Views, NEW rs \in Seq(Instructions), Rising(rs), NEW pc \in Addresses, NEW h \in Nat \ {0}
  PROVE  Shows(Rendered(v, rs, pc, h), v, rs, pc, h)
  <1> DEFINE vis == Smaller(Len(rs), h)
             row == Row(v, rs, pc, h)
             active == ActiveRow(v, rs, pc)
             e == FindRow(rs, v.editAddr)
             a == IF row = NoRow THEN NoAddr ELSE rs[row + 1].addr
             edits == v.mode = "edit" /\ e # NoRow
             data == SetData([v.grid EXCEPT !.ih = h], rs)
             marked == SetHighlightedRow(SetSelectedRow(data, row), active)
             placed == SetOffset(VirtualScroll(marked, rs, vis, active, v.currentAddr), 0)
             edited == IF edits THEN BeginEdit(placed, e, v.editText) ELSE placed
  <1>1. v.grid \in Grids /\ v.currentAddr \in Int /\ v.editText \in Statements
    BY ViewIs, MaybeIs
  <1>2. Len(rs) \in Nat /\ (rs = <<>> <=> Len(rs) = 0) /\ \A i \in 1 .. Len(rs) : rs[i] \in Instructions
    BY InSeq
  <1>3. /\ row \in Int /\ NoRow = -1
        /\ rs = <<>> => row = NoRow
        /\ rs # <<>> => vis \in 1 .. Len(rs) /\ vis <= h /\ row \in 0 .. vis - 1
    BY ChosenIs DEF NoRow
  <1>4. vis \in Int
    BY <1>2 DEF Smaller
  <1>5. active \in Int /\ (active = NoRow \/ active \in 0 .. Len(rs) - 1)
    BY ActiveRowIs
  <1>6. e = NoRow \/ e \in 0 .. Len(rs) - 1
    BY FindRowIs
  <1>7. Rendered(v, rs, pc, h) = Selecting(v, row, a, RenderGrid(edited))
    BY DEF Rendered, Row, Chosen, Selecting
  <1>8. a \in MaybeAddr
    <2>1. row # NoRow => row + 1 \in 1 .. Len(rs)
      BY <1>2, <1>3
    <2>2. row # NoRow => rs[row + 1].addr \in Addresses
      BY <1>2, <2>1, InstructionIs
    <2>3. QED
      BY <2>2 DEF MaybeAddr
  <1> HIDE DEF row, vis, active, e
  <1>9. row = NoRow \/ row \in 0 .. Len(rs) - 1
    BY <1>2, <1>3
  <1>10. row = NoRow \/ row \in 0 .. h - 1
    BY <1>2, <1>3
  <1>11. PICK s \in Scrolls : placed = PlacedGrid(v.grid, rs, h, s, row, active)
    <2> DEFINE g == v.grid
               current == v.currentAddr
    <2>1. g \in Grids /\ current \in Int
      BY <1>1
    <2> HIDE DEF g, current
    <2>2. \E s \in Scrolls :
            LET d == SetData([g EXCEPT !.ih = h], rs)
                m == SetHighlightedRow(SetSelectedRow(d, row), active)
            IN  SetOffset(VirtualScroll(m, rs, vis, active, current), 0)
                  = PlacedGrid(g, rs, h, s, row, active)
      <3>1. h \in Nat /\ (rs # <<>> => vis \in 1 .. Len(rs)) /\ rs \in Seq(Instructions)
        BY <1>3
      <3>2. QED
        BY ONLY <2>1, <1>3, <1>4, <1>5, <1>9, <3>1, PlacedGridIs
    <2>3. QED
      BY <2>2 DEF g, current
  <1> HIDE DEF placed
  <1>12. /\ placed \in Grids /\ placed.rows = rs /\ placed.ih = h /\ placed.offset = 0 /\ placed.selected = row
         /\ placed.highlighted = active /\ ~placed.editing /\ placed.virtual = s
    <2> DEFINE g == v.grid
    <2>1. g \in Grids /\ row \in Int /\ active \in Int /\ h \in Nat /\ placed = PlacedGrid(g, rs, h, s, row, active)
      BY <1>1, <1>3, <1>5, <1>11
    <2> HIDE DEF g
    <2>2. QED
      BY ONLY <2>1, s \in Scrolls, rs \in Seq(Instructions), PlacedIs
  <1>13. /\ edited \in Grids /\ edited.rows = rs /\ edited.ih = h /\ edited.offset = 0 /\ edited.selected = row
         /\ edited.highlighted = active /\ edited.virtual = s
         /\ edited.editing <=> edits
         /\ edits => edited.editRow = e /\ edited.editValue = v.editText
    <2>1. CASE edits
      <3> DEFINE t == v.editText
                 x == Edits(placed, e, t)
      <3>1. e \in 0 .. Len(rs) - 1 /\ e \in Int /\ t \in Statements /\ placed \in Grids
        BY <1>1, <1>2, <1>6, <1>12, <2>1
      <3>2. edited = BeginEdit(placed, e, t)
        BY <2>1
      <3> HIDE DEF t, edited
      <3>3. /\ x \in Grids /\ x.rows = placed.rows /\ x.ih = placed.ih
            /\ x.offset = placed.offset /\ x.selected = placed.selected
            /\ x.highlighted = placed.highlighted /\ x.virtual = placed.virtual
            /\ x.editing /\ x.editRow = e /\ x.editValue = t
            /\ BeginEdit(placed, e, t) = IF e \in 0 .. Len(placed.rows) - 1 THEN x ELSE placed
        BY ONLY <3>1, EditsIs
      <3> HIDE DEF x
      <3>4. edited = x
        BY <1>12, <3>1, <3>2, <3>3
      <3>5. QED
        BY <1>12, <2>1, <3>3, <3>4 DEF t
    <2>2. CASE ~edits
      BY <1>12, <2>2
    <2>3. QED
      BY <2>1, <2>2
  <1> HIDE DEF edited
  <1>14. RenderGrid(edited) = edited
    BY <1>5, <1>9, <1>10, <1>13, RenderGridIs
  <1> HIDE DEF a
  <1>15. /\ Selecting(v, row, a, edited) \in Views /\ Same(v, Selecting(v, row, a, edited))
         /\ Selecting(v, row, a, edited).grid = edited /\ Selecting(v, row, a, edited).selectedAddr = a
    <2>1. v \in Views /\ row \in Int /\ a \in MaybeAddr /\ edited \in Grids
      BY <1>3, <1>8, <1>13
    <2>2. QED
      BY ONLY <2>1, SelectingIs
  <1>16. QED
    BY <1>7, <1>13, <1>14, <1>15 DEF Shows, row, active, e, a

(***************************************************************************)
(* What keys make of the view.                                             *)
(***************************************************************************)

\* A view that has the rows of State() in its grid, and what is typed in one of them.
Ready(v) ==
  /\ v \in Views /\ v.grid.rows = rows /\ v.grid.ih = height /\ v.grid.virtual \in Scrolls
  /\ v.currentAddr = NoAddr => rows = <<>>
  /\ v.snapshot = <<>> \/ v.snapshot[3] = rows
  /\ EditOK(v)
  /\ frozen => /\ v.mode = "edit" => v.grid.editing
               /\ v.grid.offset = 0
               /\ rows # <<>> => v.grid.selected \in 0 .. VisCount - 1

\* The rows and the lines they are shown in.
RowsOK == rows \in Seq(Instructions) /\ Rising(rows) /\ height \in Nat \ {0}

\* The rows that are seen are the first of the rows.
LEMMA VisIs ==
  ASSUME RowsOK
  PROVE  /\ VisCount \in Nat /\ VisCount <= height /\ VisCount <= Len(rows)
         /\ rows = <<>> <=> VisCount = 0
         /\ Len(rows) \in Nat /\ \A i \in 1 .. Len(rows) : rows[i] \in Instructions
  <1>1. Len(rows) \in Nat /\ (rows = <<>> <=> Len(rows) = 0) /\ \A i \in 1 .. Len(rows) : rows[i] \in Instructions
    BY InSeq DEF RowsOK
  <1>2. height \in Nat \ {0}
    BY DEF RowsOK
  <1>3. QED
    BY <1>1, <1>2 DEF VisCount, Smaller

\* The row that is selected is one that is seen, if there is one.
LEMMA CurrentIs ==
  ASSUME RowsOK, NEW v \in Views
  PROVE  /\ CurrentSelectedRow(v) \in Int
         /\ CurrentSelectedRow(v) = NoRow \/ CurrentSelectedRow(v) \in 0 .. VisCount - 1
  <1> DEFINE at == IF v.selectedAddr = NoAddr THEN NoRow ELSE FindRow(rows, v.selectedAddr)
             n == VisCount
             seen(row) == Within(row, 0, n - 1)
             c == CurrentSelectedRow(v)
  <1>1. n \in Nat
    BY VisIs
  <1>2. at \in Int /\ NoRow \in Int
    <2>1. FindRow(rows, v.selectedAddr) = NoRow \/ FindRow(rows, v.selectedAddr) \in 0 .. Len(rows) - 1
      BY FindRowIs DEF RowsOK
    <2>2. NoRow \in Int
      BY DEF NoRow
    <2>3. QED
      BY <2>1, <2>2
  <1>3. v.hint \in Int /\ v.grid.selected \in Int
    BY ViewIs, GridIs
  <1>4. ASSUME NEW row \in Int, n > 0
        PROVE  seen(row) \in 0 .. n - 1
    BY <1>1, <1>4 DEF Within, AtLeast
  <1>5. c = CASE n <= 0 -> NoRow
              [] n > 0 /\ at # NoRow -> seen(at)
              [] n > 0 /\ at = NoRow /\ v.hint # NoRow -> seen(v.hint)
              [] OTHER -> seen(v.grid.selected)
    BY DEF CurrentSelectedRow
  <1>6. CASE n <= 0
    <2> HIDE DEF at, n, c
    <2>1. c = NoRow
      BY <1>1, <1>5, <1>6
    <2>2. QED
      BY <1>2, <2>1 DEF n, c
  <1>7. CASE n > 0
    <2> HIDE DEF at, n, c
    <2>1. c = seen(at) \/ c = seen(v.hint) \/ c = seen(v.grid.selected)
      BY <1>1, <1>5, <1>7
    <2>2. QED
      BY <1>1, <1>2, <1>3, <1>4, <1>7, <2>1 DEF n, c
  <1>8. QED
    BY <1>1, <1>6, <1>7

\* What moves keep of a view.
Keeps(v, w) ==
  /\ w.mode = v.mode /\ w.currentAddr = v.currentAddr /\ w.snapshot = v.snapshot
  /\ w.pendingAddr = v.pendingAddr /\ w.pendingData = v.pendingData
  /\ w.editAddr = v.editAddr /\ w.editText = v.editText /\ w.editBytes = v.editBytes

\* A move: of the selection or of the window.
Moving(v, nav, steps, hint, a, g) ==
  [v EXCEPT !.follow = FALSE, !.nav = nav, !.steps = steps, !.hint = hint, !.selectedAddr = a, !.grid = g]

\* What Moving leaves of a view.
LEMMA MovingIs ==
  ASSUME NEW v \in Views, NEW nav \in Navs, NEW steps \in Int, NEW hint \in Int,
         NEW a \in MaybeAddr, NEW g \in Grids
  PROVE  LET w == Moving(v, nav, steps, hint, a, g)
         IN  /\ w \in Views /\ Keeps(v, w) /\ w.grid = g /\ w.nav = nav /\ w.hint = hint
             /\ w.selectedAddr = a /\ ~w.follow
  <1> DEFINE follow == FALSE
  <1>0. follow \in BOOLEAN /\ ~follow
    OBVIOUS
  <1> HIDE DEF follow
  <1> DEFINE w == [v EXCEPT !.follow = follow, !.nav = nav, !.steps = steps, !.hint = hint,
                            !.selectedAddr = a, !.grid = g]
  <1>1. w \in Views
    BY <1>0 DEF Views
  <1>2. /\ Keeps(v, w) /\ w.grid = g /\ w.nav = nav /\ w.hint = hint
        /\ w.selectedAddr = a /\ ~w.follow
    BY <1>0 DEF Views, Keeps
  <1>3. QED
    BY <1>1, <1>2 DEF Moving, follow

\* Selecting a row leaves a grid.
LEMMA SelectIn ==
  ASSUME NEW g \in Grids, NEW row \in Int
  PROVE  SetSelectedRow(g, row) \in Grids
  <1> DEFINE k == Kept(g, row)
             h == g.highlighted
             z == SetSelectedRow(g, row)
  <1>1. PICK o \in Int, e \in BOOLEAN : z = Put(g, o, k, h, e)
    BY SelectIs
  <1>2. k \in Int /\ h \in Int
    BY KeptIs, GridIs
  <1> HIDE DEF k, h, z
  <1>3. z \in Grids
    BY ONLY <1>1, <1>2, g \in Grids, PutKeeps
  <1>4. QED
    BY <1>3 DEF z

\* A view that keeps these and its grid is as ready.
LEMMA KeepsReady ==
  ASSUME NEW v, Ready(v), NEW w \in Views, Keeps(v, w), w.grid = v.grid
  PROVE  Ready(w)
  BY DEF Ready, Keeps, EditOK

\* As one that selects a row that is seen, when none is edited.
LEMMA SelectsReady ==
  ASSUME RowsOK, NEW v, Ready(v), v.mode # "edit", NEW w \in Views, Keeps(v, w),
         NEW row \in 0 .. VisCount - 1, w.grid = SetSelectedRow(v.grid, row)
  PROVE  Ready(w)
  <1> DEFINE g == v.grid
             r == row
  <1>1. g \in Grids /\ r \in Int /\ g.rows = rows /\ g.ih = height /\ ~g.editing /\ rows # <<>> /\ r \in 0 .. Len(rows) - 1
        /\ r \in 0 .. height - 1 /\ g.virtual \in Scrolls
    <2>1. g \in Grids /\ g.rows = rows /\ g.ih = height /\ ~g.editing /\ g.virtual \in Scrolls
      BY ViewIs DEF Ready, EditOK
    <2>2. r \in Int /\ rows # <<>> /\ r \in 0 .. Len(rows) - 1 /\ r \in 0 .. height - 1
      BY VisIs DEF RowsOK
    <2>3. QED
      BY <2>1, <2>2
  <1>2. w.grid = SetSelectedRow(g, r)
    OBVIOUS
  <1> HIDE DEF g, r
  <1>3. PICK o \in Int, e \in BOOLEAN :
           /\ SetSelectedRow(g, r) = Put(g, o, Kept(g, r), g.highlighted, e)
           /\ e => g.editing
           /\ g.offset = 0 /\ (r = NoRow \/ Kept(g, r) \in 0 .. g.ih - 1) => o = 0
    BY <1>1, SelectIs
  <1>4. Kept(g, r) = r
    BY <1>1, KeptIs
  <1>5. g.highlighted \in Int
    BY <1>1, GridIs
  <1>6. w.grid = Put(g, o, r, g.highlighted, e)
    BY <1>2, <1>3, <1>4
  <1>7. /\ w.grid.rows = rows /\ w.grid.ih = height /\ w.grid.virtual \in Scrolls /\ ~w.grid.editing
        /\ w.grid.offset = o /\ w.grid.selected = r
    BY <1>1, <1>3, <1>5, <1>6, PutKeeps
  <1>8. g.offset = 0 => o = 0
    BY <1>1, <1>3, <1>4
  <1>9. QED
    BY <1>7, <1>8 DEF Ready, Keeps, EditOK, g, r

\* The first row and one step.
LEMMA FirstAndOne == 0 \in Int /\ 1 \in Int
  OBVIOUS

\* The keys that move.
LEMMA MovedIs ==
  ASSUME RowsOK, NEW v, Ready(v), v.mode = "", NEW key \in NavigationKeys
  PROVE  Ready(Moved(v, key)) /\ Keeps(v, Moved(v, key))
  <1> DEFINE u == [v EXCEPT !.follow = FALSE]
             page == AtLeast(1, height - 1)
             low == AtLeast(0, height - 1)
             one == 1
  <1>c. one \in Int
    BY ONLY FirstAndOne
  <1>1. v \in Views /\ v.grid \in Grids /\ height \in Nat \ {0}
    BY ViewIs DEF Ready, RowsOK
  <1>2. page \in Int /\ low \in Int
    <2>1. height \in Int
      BY ONLY <1>1
    <2>2. QED
      BY ONLY <2>1 DEF AtLeast
  <1>3. NoAddr \in MaybeAddr /\ NoRow \in Int
    BY ONLY NoAddr \in {NoAddr} DEF MaybeAddr, NoRow
  <1>4. ASSUME NEW nav \in Navs, NEW row \in Int
        PROVE  LET w == QueueNav([u EXCEPT !.hint = row, !.selectedAddr = NoAddr], nav, 0)
               IN  Ready(w) /\ Keeps(v, w)
    <2> DEFINE none == 0
               g == v.grid
               w == Moving(v, nav, none, row, NoAddr, g)
    <2>1. QueueNav([u EXCEPT !.hint = row, !.selectedAddr = NoAddr], nav, 0) = w
      BY <1>1 DEF Views, Moving, QueueNav
    <2>2. w \in Views /\ Keeps(v, w) /\ w.grid = g
      <3>1. none \in Int /\ g \in Grids /\ v \in Views
        BY ONLY <1>1
      <3> HIDE DEF none, g
      <3>2. QED
        BY ONLY <1>3, <1>4, <3>1, MovingIs
    <2> HIDE DEF w
    <2>3. Ready(w)
      BY <2>2, KeepsReady
    <2>4. QED
      BY <2>1, <2>2, <2>3
  <1>5. ASSUME NEW nav \in {"Up", "Down"}, NEW steps \in Int
        PROVE  LET w == MoveSelectedRows(u, nav, steps) IN Ready(w) /\ Keeps(v, w)
    <2> DEFINE cur == CurrentSelectedRow(u)
               next == Within(IF nav = "Down" THEN cur + steps ELSE cur - steps, 0, VisCount - 1)
               w == MoveSelectedRows(u, nav, steps)
    <2>1. u \in Views /\ u.grid = v.grid /\ nav \in Navs
      BY <1>1 DEF Views, Navs
    <2>2. cur \in Int /\ (cur = NoRow \/ cur \in 0 .. VisCount - 1)
      <3> HIDE DEF u
      <3>1. QED
        BY <2>1, CurrentIs
    <2>3. VisCount \in Nat /\ VisCount <= Len(rows) /\ Len(rows) \in Nat /\ (rows = <<>> <=> VisCount = 0)
      BY VisIs
    <2>4. cur # NoRow => next \in 0 .. VisCount - 1
      <3> DEFINE x == IF nav = "Down" THEN cur + steps ELSE cur - steps
                 n == VisCount
      <3> HIDE DEF cur
      <3>1. x \in Int
        <4>1. cur + steps \in Int /\ cur - steps \in Int
          BY ONLY <2>2, steps \in Int
        <4>2. QED
          BY <4>1
      <3>2. n \in Nat /\ (cur # NoRow => n > 0)
        BY ONLY <2>2, <2>3
      <3> HIDE DEF x, n
      <3>3. n > 0 => Within(x, 0, n - 1) \in 0 .. n - 1
        BY ONLY <3>1, <3>2 DEF Within, AtLeast
      <3>4. QED
        BY <3>2, <3>3 DEF x, n
    <2> HIDE DEF cur, next
    <2>5. CASE cur = NoRow
      <3> DEFINE x == Moving(v, nav, steps, NoRow, NoAddr, v.grid)
      <3>1. w = QueueNav([u EXCEPT !.selectedAddr = NoAddr, !.hint = NoRow], nav, steps)
        BY <2>5 DEF MoveSelectedRows, cur
      <3>2. w = x
        BY <1>1, <3>1 DEF Views, Moving, QueueNav
      <3>3. x \in Views /\ Keeps(v, x) /\ x.grid = v.grid
        <4> DEFINE g == v.grid
        <4>1. v \in Views /\ g \in Grids /\ nav \in Navs /\ steps \in Int
          BY <1>1, <2>1
        <4> HIDE DEF g
        <4>2. LET y == Moving(v, nav, steps, NoRow, NoAddr, g) IN y \in Views /\ Keeps(v, y) /\ y.grid = g
          BY ONLY <1>3, <4>1, MovingIs
        <4>3. QED
          BY <4>2 DEF g
      <3> HIDE DEF x
      <3>4. QED
        BY <3>2, <3>3, KeepsReady
    <2>6. CASE cur # NoRow /\ next # cur
      <3> DEFINE a == rows[next + 1].addr
                 g == SetSelectedRow(v.grid, next)
                 x == Moving(v, v.nav, v.steps, next, a, g)
      <3>1. next \in 0 .. VisCount - 1 /\ next \in Int /\ next + 1 \in 1 .. Len(rows) /\ rows # <<>>
        <4> DEFINE n == VisCount
        <4>1. next \in 0 .. n - 1 /\ n \in Nat /\ n <= Len(rows) /\ Len(rows) \in Nat /\ (rows = <<>> <=> n = 0)
          BY <2>3, <2>4, <2>6
        <4> HIDE DEF n
        <4>2. next \in Int /\ next + 1 \in 1 .. Len(rows) /\ rows # <<>>
          BY ONLY <4>1
        <4>3. QED
          BY <4>1, <4>2 DEF n
      <3>2. a \in MaybeAddr
        BY <3>1, VisIs, InstructionIs DEF MaybeAddr
      <3>3. g \in Grids
        <4>1. v.grid \in Grids /\ next \in Int
          BY <1>1, <3>1
        <4>2. QED
          BY ONLY <4>1, SelectIn
      <3>4. w = [Selects(u, next) EXCEPT !.grid = SetSelectedRow(@, next)]
        BY <2>6 DEF MoveSelectedRows, cur, next
      <3>5. w = x
        BY <1>1, <3>4 DEF Views, Moving, Selects
      <3>6. v.nav \in Navs /\ v.steps \in Int
        BY <1>1, ViewIs
      <3> HIDE DEF a
      <3>7. x \in Views /\ Keeps(v, x) /\ x.grid = g
        <4> DEFINE n == v.nav
                   s == v.steps
        <4>1. n \in Navs /\ s \in Int /\ v \in Views /\ next \in Int
          BY <1>1, <3>1, <3>6
        <4> HIDE DEF n, s, g
        <4>2. LET y == Moving(v, n, s, next, a, g) IN y \in Views /\ Keeps(v, y) /\ y.grid = g
          BY ONLY <3>2, <3>3, <4>1, MovingIs
        <4>3. QED
          BY <4>2 DEF n, s
      <3> HIDE DEF x
      <3>8. Ready(x)
        BY <3>1, <3>7, SelectsReady
      <3>9. QED
        BY <3>5, <3>7, <3>8
    <2>7. CASE cur # NoRow /\ next = cur
      <3> DEFINE x == Moving(v, nav, steps, cur, NoAddr, v.grid)
      <3>1. w = QueueNav([u EXCEPT !.hint = cur, !.selectedAddr = NoAddr], nav, steps)
        BY <2>7 DEF MoveSelectedRows, cur, next
      <3>2. w = x
        BY <1>1, <3>1 DEF Views, Moving, QueueNav
      <3>3. x \in Views /\ Keeps(v, x) /\ x.grid = v.grid
        <4> DEFINE g == v.grid
        <4>1. v \in Views /\ g \in Grids /\ nav \in Navs /\ steps \in Int /\ cur \in Int
          BY <1>1, <2>1, <2>2
        <4> HIDE DEF g
        <4>2. LET y == Moving(v, nav, steps, cur, NoAddr, g) IN y \in Views /\ Keeps(v, y) /\ y.grid = g
          BY ONLY <1>3, <4>1, MovingIs
        <4>3. QED
          BY <4>2 DEF g
      <3> HIDE DEF x
      <3>4. QED
        BY <3>2, <3>3, KeepsReady
    <2>8. QED
      BY <2>5, <2>6, <2>7
  <1> HIDE DEF u, page, low, one
  <1>a. \A nav \in {"Up", "Down"} : \A steps \in Int :
           Ready(MoveSelectedRows(u, nav, steps)) /\ Keeps(v, MoveSelectedRows(u, nav, steps))
    BY <1>5
  <1>b. LET w == QueueNav([u EXCEPT !.hint = 0, !.selectedAddr = NoAddr], "Home", 0)
            x == QueueNav([u EXCEPT !.hint = low, !.selectedAddr = NoAddr], "End", 0)
        IN  Ready(w) /\ Keeps(v, w) /\ Ready(x) /\ Keeps(v, x)
    <2> DEFINE to(nav, row) == QueueNav([u EXCEPT !.hint = row, !.selectedAddr = NoAddr], nav, 0)
    <2>1. \A nav \in Navs : \A row \in Int : Ready(to(nav, row)) /\ Keeps(v, to(nav, row))
      BY <1>4
    <2> DEFINE first == 0
    <2>2. "Home" \in Navs /\ "End" \in Navs
      BY DEF Navs
    <2>3. first \in Int
      BY ONLY FirstAndOne
    <2> HIDE DEF to, first
    <2>4. Ready(to("Home", first)) /\ Keeps(v, to("Home", first)) /\ Ready(to("End", low)) /\ Keeps(v, to("End", low))
      BY ONLY <1>2, <2>1, <2>2, <2>3
    <2>5. QED
      BY <2>4 DEF to, first
  <1>6. CASE key = "Home"
    <2>1. Moved(v, key) = QueueNav([u EXCEPT !.hint = 0, !.selectedAddr = NoAddr], "Home", 0)
      BY <1>6 DEF Moved, u
    <2>2. QED
      BY <1>b, <2>1
  <1>7. CASE key = "End"
    <2>1. Moved(v, key) = QueueNav([u EXCEPT !.hint = low, !.selectedAddr = NoAddr], "End", 0)
      BY <1>7 DEF Moved, u, low
    <2>2. QED
      BY <1>b, <2>1
  <1>8. CASE key = "Down"
    <2>1. Moved(v, key) = MoveSelectedRows(u, "Down", one)
      BY <1>8 DEF Moved, u, one
    <2>2. QED
      BY ONLY <1>c, <1>a, <2>1
  <1>9. CASE key = "PageDown"
    <2>1. Moved(v, key) = MoveSelectedRows(u, "Down", page)
      BY <1>9 DEF Moved, u, page
    <2>2. QED
      BY ONLY <1>2, <1>a, <2>1
  <1>10. CASE key = "Up"
    <2>1. Moved(v, key) = MoveSelectedRows(u, "Up", one)
      BY <1>10 DEF Moved, u, one
    <2>2. QED
      BY ONLY <1>c, <1>a, <2>1
  <1>11. CASE key = "PageUp"
    <2>1. Moved(v, key) = MoveSelectedRows(u, "Up", page)
      BY <1>11 DEF Moved, u, page
    <2>2. QED
      BY ONLY <1>2, <1>a, <2>1
  <1>12. QED
    BY <1>6, <1>7, <1>8, <1>9, <1>10, <1>11 DEF NavigationKeys

\* No text is a statement.
LEMMA NoTextIs == NoText \in Statements
  <1> DEFINE s == <<>>
             z == 0
  <1>1. s \in Seq(Addresses) /\ z \in Nat
    OBVIOUS
  <1>2. "" \in Mnemonics /\ "none" \in Notations
    BY DEF Mnemonics, Notations, Forms
  <1> HIDE DEF s, z
  <1>3. [form |-> "none", digits |-> z, values |-> s] \in Operands
    BY <1>1, <1>2 DEF Operands
  <1>4. Bare("none") \in Operands
    BY <1>3 DEF Bare, s, z
  <1> DEFINE o == Bare("none")
             m == ""
  <1>5. o \in Operands /\ m \in Mnemonics
    BY <1>2, <1>4
  <1> HIDE DEF o, m
  <1>6. [mnemonic |-> m, operand |-> o] \in Statements
    BY <1>5 DEF Statements
  <1>7. QED
    BY <1>6 DEF NoText, o, m

\* The window goes to an address.
LEMMA GoesToIs ==
  ASSUME NEW v \in Views, NEW a \in Addresses
  PROVE  LET w == GoesTo(v, a)
         IN  /\ w \in Views /\ w.grid = v.grid /\ w.mode = v.mode /\ w.currentAddr = a /\ w.snapshot = <<>>
             /\ w.pendingAddr = v.pendingAddr /\ w.pendingData = v.pendingData
             /\ w.editAddr = v.editAddr /\ w.editText = v.editText /\ w.editBytes = v.editBytes
  <1> DEFINE off == FALSE
             zero == 0
             none == "none"
             empty == <<>>
             w == [v EXCEPT !.follow = off, !.currentAddr = a, !.selectedAddr = a, !.hint = zero,
                            !.nav = none, !.steps = zero, !.snapshot = empty]
  <1>1. off \in BOOLEAN /\ none \in Navs /\ empty \in {<<>>} \cup Snapshots /\ a \in MaybeAddr
    BY DEF Navs, MaybeAddr
  <1>2. zero \in Int
    BY ONLY FirstAndOne
  <1> HIDE DEF off, zero, none, empty
  <1>3. w \in Views
    BY <1>1, <1>2 DEF Views
  <1>4. /\ w.grid = v.grid /\ w.mode = v.mode /\ w.currentAddr = a /\ w.snapshot = empty
        /\ w.pendingAddr = v.pendingAddr /\ w.pendingData = v.pendingData
        /\ w.editAddr = v.editAddr /\ w.editText = v.editText /\ w.editBytes = v.editBytes
    BY DEF Views
  <1>5. GoesTo(v, a) = w
    BY DEF GoesTo, off, zero, none, empty
  <1> HIDE DEF w
  <1>6. QED
    BY <1>3, <1>4, <1>5 DEF empty

\* A view that goes to an address is ready for the next key.
LEMMA GoesReady ==
  ASSUME NEW v, Ready(v), NEW a \in Addresses
  PROVE  Ready(GoesTo(v, a))
  <1> DEFINE w == GoesTo(v, a)
  <1>1. /\ w \in Views /\ w.grid = v.grid /\ w.mode = v.mode /\ w.currentAddr = a /\ w.snapshot = <<>>
        /\ w.editAddr = v.editAddr /\ w.editText = v.editText /\ w.editBytes = v.editBytes
    BY GoesToIs DEF Ready
  <1>2. a # NoAddr
    BY WordIs DEF NoAddr
  <1> HIDE DEF w
  <1>3. EditOK(w) <=> EditOK(v)
    BY <1>1 DEF EditOK
  <1>4. Ready(w)
    BY <1>1, <1>2, <1>3 DEF Ready
  <1>5. QED
    BY <1>4 DEF w

\* A grid stops editing.
LEMMA StopsIs ==
  ASSUME NEW g \in Grids
  PROVE  LET s == StopsEditing(g)
         IN  /\ s \in Grids /\ s.rows = g.rows /\ s.ih = g.ih /\ s.virtual = g.virtual
             /\ s.offset = g.offset /\ s.selected = g.selected /\ s.highlighted = g.highlighted /\ ~s.editing
  <1> DEFINE off == FALSE
             zero == 0
             none == <<>>
             s == [g EXCEPT !.editing = off, !.editRow = zero, !.editValue = none]
  <1>1. off \in BOOLEAN /\ ~off /\ none \in Statements \cup {<<>>}
    OBVIOUS
  <1>2. zero \in Int
    BY ONLY FirstAndOne
  <1> HIDE DEF off, zero, none
  <1>3. s \in Grids
    BY <1>1, <1>2 DEF Grids
  <1>4. /\ s.rows = g.rows /\ s.ih = g.ih /\ s.virtual = g.virtual
        /\ s.offset = g.offset /\ s.selected = g.selected /\ s.highlighted = g.highlighted /\ ~s.editing
    BY <1>1 DEF Grids
  <1>5. StopsEditing(g) = s
    BY DEF StopsEditing, off, zero, none
  <1> HIDE DEF s
  <1>6. QED
    BY <1>3, <1>4, <1>5

\* The line that is open is closed.
LEMMA CloseIs ==
  ASSUME NEW v \in Views
  PROVE  LET w == CloseInput(v)
         IN  /\ w \in Views /\ w.grid = StopsEditing(v.grid) /\ w.mode = ""
             /\ w.currentAddr = v.currentAddr /\ w.snapshot = v.snapshot
             /\ w.pendingAddr = v.pendingAddr /\ w.pendingData = v.pendingData
  <1> DEFINE off == FALSE
             closed == ""
             na == NoAddr
             nt == NoText
             nb == <<>>
             nd == <<>>
             g == StopsEditing(v.grid)
             w == [v EXCEPT !.fresh = off, !.mode = closed, !.editAddr = na, !.editSnapshot = nt,
                            !.editText = nt, !.editBytes = nb, !.buffer = nd, !.grid = g]
  <1>1. off \in BOOLEAN /\ closed \in {"", "addr", "edit"} /\ nb \in Seq(Bytes)
    OBVIOUS
  <1>2. nd \in Buffers
    BY DEF Buffers
  <1>3. na \in MaybeAddr
    BY DEF MaybeAddr
  <1>4. nt \in Statements /\ g \in Grids
    BY NoTextIs, ViewIs, StopsIs
  <1>5. CloseInput(v) = w
    BY DEF CloseInput
  <1> HIDE DEF off, closed, na, nt, nb, nd, g
  <1>6. w \in Views
    BY <1>1, <1>2, <1>3, <1>4 DEF Views
  <1>7. /\ w.grid = g /\ w.mode = closed
        /\ w.currentAddr = v.currentAddr /\ w.snapshot = v.snapshot
        /\ w.pendingAddr = v.pendingAddr /\ w.pendingData = v.pendingData
    BY DEF Views
  <1> HIDE DEF w
  <1>8. QED
    BY <1>5, <1>6, <1>7 DEF closed, g

\* So is one whose input is closed.
LEMMA CloseReady ==
  ASSUME NEW v, Ready(v)
  PROVE  Ready(CloseInput(v))
  <1> DEFINE w == CloseInput(v)
             g == v.grid
             s == StopsEditing(g)
  <1>1. g \in Grids /\ v \in Views
    BY ViewIs DEF Ready
  <1>2. /\ w \in Views /\ w.grid = s /\ w.mode = ""
        /\ w.currentAddr = v.currentAddr /\ w.snapshot = v.snapshot
    BY <1>1, CloseIs
  <1> HIDE DEF w, g
  <1>3. /\ s.rows = g.rows /\ s.ih = g.ih /\ s.virtual = g.virtual
        /\ s.offset = g.offset /\ s.selected = g.selected /\ ~s.editing
    BY <1>1, StopsIs
  <1> HIDE DEF s
  <1>4. EditOK(w)
    BY <1>2, <1>3 DEF EditOK
  <1>5. Ready(w)
    BY <1>2, <1>3, <1>4 DEF Ready, g
  <1>6. QED
    BY <1>5 DEF w

\* Keys of the address line.
LEMMA AddressKeyIs ==
  ASSUME NEW v \in Views, NEW key \in Digits \cup {Backspace}
  PROVE  /\ AddressKey(v, key) \in Views /\ Keeps(v, AddressKey(v, key))
         /\ AddressKey(v, key).grid = v.grid
  <1> DEFINE off == FALSE
             typed(b) == [v EXCEPT !.fresh = off, !.buffer = b]
             kept == IF v.fresh THEN <<>> ELSE v.buffer
             less == IF v.buffer = <<>> THEN v.buffer ELSE SubSeq(v.buffer, 1, Len(v.buffer) - 1)
             more == Append(kept, key)
  <1>1. off \in BOOLEAN
    OBVIOUS
  <1>2. v.buffer \in Seq(Digit) /\ Len(v.buffer) <= 4 /\ Len(v.buffer) \in Nat
    <2> DEFINE b == v.buffer
    <2>1. b \in Buffers
      BY ViewIs
    <2> HIDE DEF b
    <2>2. b \in Seq(Digit) /\ Len(b) <= 4
      BY <2>1 DEF Buffers
    <2>3. Len(b) \in Nat
      BY <2>2, InSeq
    <2>4. QED
      BY <2>2, <2>3 DEF b
  <1>3. kept \in Seq(Digit)
    BY <1>2
  <1>4. less \in Buffers
    <2>1. CASE v.buffer = <<>>
      BY <2>1, ViewIs
    <2>2. CASE v.buffer # <<>>
      <3> DEFINE n == Len(v.buffer) - 1
      <3>1. n \in Nat /\ 0 + n <= Len(v.buffer) /\ n <= 4
        BY <1>2, <2>2
      <3>2. LET d == SubSeq(v.buffer, 0 + 1, 0 + n) IN d \in Seq(Digit) /\ Len(d) = n
        <4> HIDE DEF n
        <4> DEFINE zero == 0
                   buf == v.buffer
        <4>1. zero \in Nat /\ zero + n <= Len(buf) /\ buf \in Seq(Digit) /\ n \in Nat
          BY <1>2, <3>1
        <4> HIDE DEF zero, buf
        <4>2. LET d == SubSeq(buf, zero + 1, zero + n) IN d \in Seq(Digit) /\ Len(d) = n
          BY <4>1, SubSeqIs
        <4>3. QED
          BY <4>2 DEF zero, buf
      <3>3. less = SubSeq(v.buffer, 0 + 1, 0 + n)
        BY <1>2, <2>2, <3>1
      <3> HIDE DEF n, less
      <3>4. QED
        BY <3>1, <3>2, <3>3 DEF Buffers
    <2>3. QED
      BY <2>1, <2>2
  <1>5. key # Backspace /\ Len(kept) < 4 => more \in Buffers
    <2>1. key # Backspace => key \in Digit
      BY BoundsAssumption DEF Digit
    <2> HIDE DEF kept
    <2>2. key \in Digit => more \in Seq(Digit) /\ Len(more) = Len(kept) + 1
      BY <1>3
    <2>3. Len(kept) \in Nat
      BY <1>3
    <2>4. QED
      BY <2>1, <2>2, <2>3 DEF Buffers
  <1>6. AddressKey(v, key) = CASE key = Backspace -> typed(less)
                               [] key # Backspace /\ Len(kept) < 4 -> typed(more)
                               [] OTHER -> v
    BY DEF AddressKey, Views
  <1> HIDE DEF off, kept, less, more
  <1>7. ASSUME NEW b \in Buffers
        PROVE  typed(b) \in Views /\ Keeps(v, typed(b)) /\ typed(b).grid = v.grid
    <2>1. typed(b) \in Views
      BY <1>1, <1>7 DEF Views
    <2>2. Keeps(v, typed(b)) /\ typed(b).grid = v.grid
      BY DEF Views, Keeps
    <2>3. QED
      BY <2>1, <2>2
  <1>8. Keeps(v, v)
    BY DEF Keeps
  <1> HIDE DEF typed
  <1>9. QED
    BY <1>4, <1>5, <1>6, <1>7, <1>8

\* The address line opens.
LEMMA OpenAddressIs ==
  ASSUME NEW v, Ready(v), v.mode = "", addr \in MaybeAddr, cpu \in Addresses
  PROVE  Ready(OpenAddressInput(v)) /\ OpenAddressInput(v).pendingAddr = v.pendingAddr
         /\ OpenAddressInput(v).pendingData = v.pendingData
  <1> DEFINE a == IF v.currentAddr # NoAddr THEN v.currentAddr ELSE IF addr # NoAddr THEN addr ELSE cpu
             d == HexDigits(a)
             on == TRUE
             m == "addr"
             w == [v EXCEPT !.before = a, !.fresh = on, !.mode = m, !.buffer = d]
  <1>1. v \in Views
    BY DEF Ready
  <1>2. a \in Addresses
    BY <1>1, ViewIs, MaybeIs
  <1>3. OpenAddressInput(v) = w
    BY DEF OpenAddressInput
  <1> HIDE DEF a
  <1>4. d \in Buffers /\ a \in MaybeAddr
    BY <1>2, DigitsAre DEF MaybeAddr
  <1>5. on \in BOOLEAN /\ m \in {"", "addr", "edit"} /\ m # "edit"
    OBVIOUS
  <1> HIDE DEF d, on, m
  <1>6. w \in Views
    BY <1>1, <1>4, <1>5 DEF Views
  <1>7. /\ w.grid = v.grid /\ w.mode = m /\ w.currentAddr = v.currentAddr /\ w.snapshot = v.snapshot
        /\ w.pendingAddr = v.pendingAddr /\ w.pendingData = v.pendingData
    BY <1>1 DEF Views
  <1> HIDE DEF w
  <1>8. ~w.grid.editing
    BY <1>7 DEF Ready, EditOK
  <1>9. Ready(w)
    BY <1>5, <1>6, <1>7, <1>8 DEF Ready, EditOK
  <1>10. QED
    BY <1>3, <1>7, <1>9

\* A row is opened, or what is typed in one changes.
Typing(v, text, bytes, g) == [v EXCEPT !.editText = text, !.editBytes = bytes, !.grid = g]

\* What Typing leaves of a view.
LEMMA TypingIs ==
  ASSUME NEW v \in Views, NEW text \in Statements, NEW bytes \in Seq(Bytes), NEW g \in Grids
  PROVE  LET w == Typing(v, text, bytes, g)
         IN  /\ w \in Views /\ w.grid = g /\ w.mode = v.mode /\ w.editAddr = v.editAddr
             /\ w.editText = text /\ w.editBytes = bytes
             /\ w.currentAddr = v.currentAddr /\ w.snapshot = v.snapshot
             /\ w.pendingAddr = v.pendingAddr /\ w.pendingData = v.pendingData
  <1> DEFINE w == [v EXCEPT !.editText = text, !.editBytes = bytes, !.grid = g]
  <1>1. w \in Views
    BY DEF Views
  <1>2. /\ w.grid = g /\ w.mode = v.mode /\ w.editAddr = v.editAddr
        /\ w.editText = text /\ w.editBytes = bytes
        /\ w.currentAddr = v.currentAddr /\ w.snapshot = v.snapshot
        /\ w.pendingAddr = v.pendingAddr /\ w.pendingData = v.pendingData
    BY DEF Views
  <1>3. QED
    BY <1>1, <1>2 DEF Typing

\* Enter opens the row that is selected.
LEMMA OpenEditIs ==
  ASSUME RowsOK, NEW v, Ready(v), CurrentSelectedRow(v) # NoRow
  PROVE  Ready(OpenEditInput(v)) /\ OpenEditInput(v).pendingAddr = v.pendingAddr
         /\ OpenEditInput(v).pendingData = v.pendingData
  <1> DEFINE row == CurrentSelectedRow(v)
             ins == rows[row + 1]
             a == ins.addr
             stmt == Statement(ins)
             off == FALSE
             m == "edit"
             u == [v EXCEPT !.hint = row, !.selectedAddr = a, !.follow = off, !.editAddr = a, !.mode = m,
                            !.editSnapshot = stmt, !.fresh = off]
             bytes == AssembleOne(a, stmt)
             g == Edits(v.grid, row, stmt)
             w == Typing(u, stmt, bytes, g)
  <1>1. v \in Views /\ v.grid \in Grids /\ v.grid.rows = rows /\ v.grid.ih = height /\ v.grid.virtual \in Scrolls
    BY ViewIs DEF Ready
  <1>2. row \in Int /\ row \in 0 .. VisCount - 1
    BY <1>1, CurrentIs
  <1>3. row \in 0 .. Len(rows) - 1 /\ row + 1 \in 1 .. Len(rows)
    <2> HIDE DEF row
    <2>1. QED
      BY <1>2, VisIs
  <1>4. ins \in Instructions
    BY <1>3, VisIs
  <1>5. a \in Addresses /\ stmt \in Statements /\ a \in MaybeAddr /\ a # NoAddr
    <2> HIDE DEF ins
    <2>1. a \in Addresses /\ stmt \in Statements
      BY <1>4, InstructionIs
    <2>2. QED
      BY <2>1, WordIs DEF MaybeAddr, NoAddr
  <1>6. FindRow(rows, a) = row
    BY <1>3, FindRowIs DEF RowsOK
  <1>7. row # NoRow
    OBVIOUS
  <1>8. OpenEditInput(v) = [UpdateEditBuffer(u, stmt) EXCEPT !.grid = BeginEdit(@, row, stmt)]
    <2>1. [Selects(v, row) EXCEPT !.follow = FALSE, !.editAddr = ins.addr, !.mode = "edit",
                 !.editSnapshot = Statement(ins), !.fresh = FALSE] = u
      BY <1>1 DEF Views, Selects
    <2> HIDE DEF u, row
    <2>2. QED
      BY <2>1 DEF OpenEditInput, row
  <1> HIDE DEF row, ins, a, stmt
  <1>9. bytes \in Seq(Bytes)
    BY <1>5, AssembledIs
  <1>10. off \in BOOLEAN /\ m \in {"", "addr", "edit"} /\ m = "edit"
    OBVIOUS
  <1> HIDE DEF off, m
  <1>11. u \in Views
    BY <1>1, <1>2, <1>5, <1>10 DEF Views
  <1>12. /\ u.grid = v.grid /\ u.mode = m /\ u.editAddr = a /\ u.currentAddr = v.currentAddr /\ u.snapshot = v.snapshot
         /\ u.pendingAddr = v.pendingAddr /\ u.pendingData = v.pendingData
    BY <1>1 DEF Views
  <1> HIDE DEF u
  <1>13. /\ g \in Grids /\ g.rows = rows /\ g.ih = height /\ g.offset = v.grid.offset
         /\ g.selected = v.grid.selected /\ g.virtual = v.grid.virtual /\ g.editing /\ g.editRow = row
         /\ g.editValue = stmt /\ BeginEdit(v.grid, row, stmt) = g
    <2> DEFINE f == v.grid
    <2>1. f \in Grids /\ row \in Int /\ stmt \in Statements
      BY <1>1, <1>2, <1>5
    <2> HIDE DEF f
    <2>2. LET e == Edits(f, row, stmt)
          IN  /\ e \in Grids /\ e.rows = f.rows /\ e.ih = f.ih /\ e.offset = f.offset /\ e.selected = f.selected
              /\ e.virtual = f.virtual /\ e.editing /\ e.editRow = row /\ e.editValue = stmt
              /\ BeginEdit(f, row, stmt) = IF row \in 0 .. Len(f.rows) - 1 THEN e ELSE f
      BY ONLY <2>1, EditsIs
    <2>3. QED
      BY <1>1, <1>3, <2>2 DEF f
  <1>14. OpenEditInput(v) = w
    <2>1. Assembled(u.editAddr, stmt) = bytes
      BY <1>5, <1>12 DEF Assembled
    <2>2. UpdateEditBuffer(u, stmt) = [u EXCEPT !.editText = stmt, !.editBytes = bytes]
      BY <2>1 DEF UpdateEditBuffer
    <2> HIDE DEF bytes, g
    <2>3. [[u EXCEPT !.editText = stmt, !.editBytes = bytes] EXCEPT !.grid = BeginEdit(@, row, stmt)] = w
      BY <1>11, <1>12, <1>13 DEF Views, Typing
    <2>4. QED
      BY <1>8, <2>2, <2>3
  <1>15. /\ w \in Views /\ w.grid = g /\ w.mode = u.mode /\ w.editAddr = u.editAddr
         /\ w.editText = stmt /\ w.editBytes = bytes
         /\ w.currentAddr = u.currentAddr /\ w.snapshot = u.snapshot
         /\ w.pendingAddr = u.pendingAddr /\ w.pendingData = u.pendingData
    <2> HIDE DEF bytes, g
    <2>1. QED
      BY ONLY <1>5, <1>9, <1>11, <1>13, TypingIs
  <1> HIDE DEF w, g
  <1>16. EditOK(w)
    BY <1>5, <1>6, <1>7, <1>10, <1>12, <1>13, <1>15 DEF EditOK
  <1> HIDE DEF bytes
  <1>17. Ready(w)
    BY <1>1, <1>10, <1>12, <1>13, <1>15, <1>16 DEF Ready
  <1>18. QED
    BY <1>12, <1>14, <1>15, <1>17

\* A text that is typed.
LEMMA TextsAre ==
  ASSUME NEW t \in Texts
  PROVE  t \in Statements
  <1> DEFINE m == t.mnemonic
             f == t.operand.form
             d == t.operand.digits
             x == t.operand.values
             o == [form |-> f, digits |-> d, values |-> x]
  <1>1. t \in [mnemonic : STRING, operand : [form : STRING, digits : Nat, values : Seq(Addresses)]]
    BY TextsAssumption DEF Typed
  <1>2. t = [mnemonic |-> m, operand |-> o] /\ d \in Nat /\ x \in Seq(Addresses)
    BY <1>1
  <1>3. m \in Mnemonics /\ f \in Notations
    BY DEF Mnemonics, Notations
  <1> HIDE DEF m, f, d, x
  <1>4. o \in Operands
    BY <1>2, <1>3 DEF Operands
  <1> HIDE DEF o
  <1>5. [mnemonic |-> m, operand |-> o] \in Statements
    BY <1>3, <1>4 DEF Statements
  <1>6. QED
    BY <1>2, <1>5

\* What is typed into the row is assembled.
LEMMA TypedIs ==
  ASSUME RowsOK, NEW v, Ready(v), v.mode = "edit", EditTakes(v.grid), NEW text \in Texts
  PROVE  Ready(TypedInRow(v, text)) /\ TypedInRow(v, text).pendingAddr = v.pendingAddr
         /\ TypedInRow(v, text).pendingData = v.pendingData
  <1> DEFINE g == [v.grid EXCEPT !.editValue = text]
             bytes == AssembleOne(v.editAddr, text)
             u == [v EXCEPT !.grid.editValue = text]
             w == Typing(v, text, bytes, g)
  <1>1. v \in Views /\ v.grid \in Grids /\ v.grid.editing /\ v.grid.editRow = FindRow(rows, v.editAddr)
        /\ FindRow(rows, v.editAddr) # NoRow /\ v.editAddr \in Addresses /\ text \in Statements /\ v.editAddr # NoAddr
    <2>1. v \in Views /\ v.grid.editing /\ v.editAddr \in Addresses
          /\ v.grid.editRow = FindRow(rows, v.editAddr) /\ v.grid.editRow # NoRow
      BY DEF Ready, EditOK, EditTakes
    <2>2. v.grid \in Grids /\ text \in Statements
      BY <2>1, ViewIs, TextsAre
    <2>3. v.editAddr # NoAddr
      BY <2>1, WordIs DEF NoAddr
    <2>4. QED
      BY <2>1, <2>2, <2>3
  <1>2. g \in Grids /\ g.editValue = text
    BY <1>1 DEF Grids
  <1>3. /\ g.rows = v.grid.rows /\ g.ih = v.grid.ih /\ g.offset = v.grid.offset /\ g.selected = v.grid.selected
        /\ g.virtual = v.grid.virtual /\ g.editing = v.grid.editing /\ g.editRow = v.grid.editRow
    BY <1>1 DEF Grids
  <1>4. bytes \in Seq(Bytes)
    BY <1>1, AssembledIs
  <1>5. TypedInRow(v, text) = UpdateEditBuffer(u, text)
    BY <1>1 DEF TypedInRow
  <1>6. u.editAddr = v.editAddr
    BY <1>1 DEF Views
  <1>7. UpdateEditBuffer(u, text) = [u EXCEPT !.editText = text, !.editBytes = bytes]
    <2> HIDE DEF u
    <2>1. QED
      BY <1>1, <1>6 DEF UpdateEditBuffer, Assembled
  <1> HIDE DEF bytes
  <1>8. [u EXCEPT !.editText = text, !.editBytes = bytes] = w
    BY <1>1 DEF Views, Typing
  <1> HIDE DEF g, u
  <1>9. /\ w \in Views /\ w.grid = g /\ w.mode = v.mode /\ w.editAddr = v.editAddr
        /\ w.editText = text /\ w.editBytes = bytes
        /\ w.currentAddr = v.currentAddr /\ w.snapshot = v.snapshot
        /\ w.pendingAddr = v.pendingAddr /\ w.pendingData = v.pendingData
    BY ONLY <1>1, <1>2, <1>4, TypingIs
  <1> HIDE DEF w
  <1>10. EditOK(w)
    BY <1>1, <1>2, <1>3, <1>9 DEF EditOK, bytes
  <1>11. Ready(w)
    BY <1>1, <1>3, <1>9, <1>10 DEF Ready
  <1>12. QED
    BY <1>5, <1>7, <1>8, <1>9, <1>11

\* Enter leaves the bytes there are to be written.
LEMMA ConfirmIs ==
  ASSUME NEW v, Ready(v), v.mode = "edit"
  PROVE  LET w == ConfirmEdit(v)
         IN  /\ Ready(w)
             /\ IF v.editBytes = <<>> THEN w = v
                ELSE w.pendingAddr = v.editAddr /\ w.pendingData = v.editBytes
  <1> DEFINE a == v.editAddr
             b == v.editBytes
             n == NoRow
             w == [v EXCEPT !.pendingAddr = a, !.pendingData = b, !.selectedAddr = a, !.hint = n]
  <1>1. v \in Views /\ a \in MaybeAddr /\ b \in Seq(Bytes) /\ n \in Int
    <2>1. v \in Views
      BY DEF Ready
    <2>2. a \in MaybeAddr /\ b \in Seq(Bytes)
      BY <2>1, ViewIs
    <2>3. n \in Int
      BY ONLY FirstAndOne DEF NoRow
    <2>4. QED
      BY <2>1, <2>2, <2>3
  <1>2. CASE v.editBytes = <<>>
    BY <1>2 DEF ConfirmEdit
  <1>3. CASE v.editBytes # <<>>
    <2>1. ConfirmEdit(v) = w
      BY <1>3 DEF ConfirmEdit
    <2> HIDE DEF a, b, n
    <2>2. w \in Views
      BY <1>1 DEF Views
    <2>3. /\ w.grid = v.grid /\ w.mode = v.mode /\ w.currentAddr = v.currentAddr /\ w.snapshot = v.snapshot
          /\ w.editAddr = v.editAddr /\ w.editText = v.editText /\ w.editBytes = v.editBytes
          /\ w.pendingAddr = a /\ w.pendingData = b
      BY <1>1 DEF Views
    <2> HIDE DEF w
    <2>4. EditOK(w)
      BY <2>3 DEF Ready, EditOK
    <2>5. Ready(w)
      BY <2>2, <2>3, <2>4 DEF Ready
    <2>6. QED
      BY <1>3, <2>1, <2>3, <2>5 DEF a, b
  <1>4. QED
    BY <1>2, <1>3

\* Selecting a row keeps what a grid shows, and starts no edit.
LEMMA SelectKeeps ==
  ASSUME NEW g \in Grids, NEW row \in Int
  PROVE  LET w == SetSelectedRow(g, row)
         IN  w \in Grids /\ w.rows = g.rows /\ w.ih = g.ih /\ w.virtual = g.virtual /\ (w.editing => g.editing)
  <1> DEFINE k == Kept(g, row)
             h == g.highlighted
             z == SetSelectedRow(g, row)
  <1>1. PICK o \in Int, e \in BOOLEAN : z = Put(g, o, k, h, e) /\ (e => g.editing)
    BY SelectIs
  <1>2. k \in Int /\ h \in Int
    BY KeptIs, GridIs
  <1> HIDE DEF k, h, z
  <1>3. z \in Grids /\ z.rows = g.rows /\ z.ih = g.ih /\ z.virtual = g.virtual /\ z.editing = e
    BY ONLY <1>1, <1>2, g \in Grids, PutKeeps
  <1>4. QED
    BY <1>1, <1>3 DEF z

\* A key that moves in the grid changes its selection and offset only.
LEMMA NavigateIs ==
  ASSUME NEW g \in Grids, NEW key \in NavigationKeys
  PROVE  LET w == Navigate(g, key)
         IN  w \in Grids /\ w.rows = g.rows /\ w.ih = g.ih /\ w.virtual = g.virtual /\ (w.editing => g.editing)
  <1> DEFINE by == CASE key = "Up" -> -1 [] key = "Down" -> 1 [] key = "PageUp" -> -Page(g)
                     [] key = "PageDown" -> Page(g) [] OTHER -> 0
             last == LastRow(g)
  <1>1. g.selectable /\ g.selected \in Int /\ Len(g.rows) \in Nat /\ ViewH(g) \in Nat /\ NoRow \in Int
    <2>1. g.selectable
      BY DEF Grids
    <2>2. NoRow \in Int
      BY ONLY FirstAndOne DEF NoRow
    <2>3. QED
      BY <2>1, <2>2, GridIs
  <1>2. last \in Int
    BY <1>1 DEF LastRow
  <1>3. by \in Int
    <2>1. Page(g) \in Int
      BY <1>1 DEF Page, AtLeast
    <2>2. QED
      BY <2>1
  <1> HIDE DEF by, last
  <1>4. \E row \in Int : Navigate(g, key) = SetSelectedRow(g, row)
    <2>1. CASE key = "Home"
      <3> DEFINE row == IF g.rows = <<>> THEN NoRow ELSE 0
      <3>1. row \in Int
        BY <1>1
      <3>2. Navigate(g, key) = SetSelectedRow(g, row)
        BY <1>1, <2>1 DEF Navigate
      <3>3. QED
        BY <3>1, <3>2
    <2>2. CASE key = "End"
      <3>1. Navigate(g, key) = SetSelectedRow(g, last)
        BY <1>1, <2>2 DEF Navigate, last
      <3>2. QED
        BY <1>2, <3>1
    <2>3. CASE key \notin {"Home", "End"}
      <3>1. Navigate(g, key) = MoveSelected(g, by)
        BY <1>1, <2>3 DEF Navigate, by
      <3> DEFINE end == IF by < 0 THEN LastRow(g) ELSE 0
                 moved == InRows(g, g.selected + by)
      <3>2. end \in Int
        BY <1>2, <1>3 DEF last
      <3>3. moved \in Int
        <4>1. g.selected + by \in Int
          BY <1>1, <1>3
        <4>2. QED
          BY <4>1, InRowsRange
      <3>4. \/ MoveSelected(g, by) = SetSelectedRow(g, NoRow)
            \/ MoveSelected(g, by) = SetSelectedRow(g, end)
            \/ MoveSelected(g, by) = SetSelectedRow(g, moved)
        BY DEF MoveSelected
      <3> HIDE DEF end, moved
      <3>5. QED
        BY <1>1, <3>1, <3>2, <3>3, <3>4
    <2>4. QED
      BY <2>1, <2>2, <2>3
  <1>5. PICK row \in Int : Navigate(g, key) = SetSelectedRow(g, row)
    BY <1>4
  <1>6. QED
    BY <1>5, SelectKeeps

\* Keys that move the selection of the grid while its edited row is gone.
LEMMA NavigatedIs ==
  ASSUME NEW v, Ready(v), ~frozen, NEW key \in NavigationKeys
  PROVE  LET w == [v EXCEPT !.grid = Navigate([@ EXCEPT !.editing = FALSE], key)]
         IN  Ready(w) /\ w.pendingAddr = v.pendingAddr /\ w.pendingData = v.pendingData
  <1> DEFINE off == FALSE
             g == [v.grid EXCEPT !.editing = off]
             f == Navigate(g, key)
             w == [v EXCEPT !.grid = f]
  <1>1. v \in Views
    BY DEF Ready
  <1>2. v.grid \in Grids
    BY <1>1, ViewIs
  <1>3. off \in BOOLEAN /\ ~off
    OBVIOUS
  <1>4. [v EXCEPT !.grid = Navigate([@ EXCEPT !.editing = FALSE], key)] = w
    BY <1>1 DEF Views
  <1> HIDE DEF off
  <1>5. g \in Grids /\ ~g.editing
    BY <1>2, <1>3 DEF Grids
  <1>6. g.rows = v.grid.rows /\ g.ih = v.grid.ih /\ g.virtual = v.grid.virtual
    BY <1>2 DEF Grids
  <1> HIDE DEF g
  <1>7. f \in Grids /\ f.rows = g.rows /\ f.ih = g.ih /\ f.virtual = g.virtual /\ ~f.editing
    BY <1>5, NavigateIs
  <1> HIDE DEF f
  <1>8. w \in Views
    BY <1>1, <1>7 DEF Views
  <1>9. w.grid = f /\ Keeps(v, w)
    BY <1>1 DEF Views, Keeps
  <1> HIDE DEF w
  <1>10. Ready(w)
    BY <1>6, <1>7, <1>8, <1>9 DEF Ready, Keeps, EditOK
  <1>11. QED
    BY <1>4, <1>9, <1>10 DEF Keeps

(***************************************************************************)
(* Keys keep the invariant.                                                *)
(***************************************************************************)

\* What the invariant gives the lemmas.
LEMMA InvGives ==
  ASSUME IInv
  PROVE  /\ RowsOK /\ MemoryOK /\ cpu \in Addresses /\ addr \in MaybeAddr /\ view \in Views
         /\ height \in Nat \ {0} /\ rows \in Seq(Instructions) /\ Rising(rows)
         /\ program \in Programs /\ program.pcs \subseteq Addresses
         /\ view.grid.rows = rows /\ view.grid.ih = height
         /\ phase = "keys" => Ready(view) /\ SelectionShown
  <1>1. /\ MemoryOK /\ cpu \in Addresses /\ addr \in MaybeAddr /\ view \in Views
        /\ height \in Heights /\ rows \in Seq(Instructions) /\ Rising(rows) /\ program \in Programs
        /\ view.grid.rows = rows /\ view.grid.ih = height
    BY DEF IInv, TypeInv, RowsInv
  <1>2. height \in Nat \ {0}
    BY <1>1, BoundsAssumption
  <1>3. program.pcs \subseteq Addresses
    BY <1>1, ProgramsAssumption
  <1>4. ASSUME phase = "keys"
        PROVE  Ready(view) /\ SelectionShown
    <2>1. SelectionShown
      BY <1>4 DEF IInv, PhaseInv, ShownInv
    <2>2. frozen => (view.mode = "edit" => view.grid.editing)
      BY DEF IInv, PhaseInv
    <2>3. EditOK(view) /\ view.grid.virtual \in Scrolls
      BY DEF IInv, ShownInv
    <2>4. /\ view.currentAddr = NoAddr => rows = <<>>
          /\ view.snapshot = <<>> \/ view.snapshot[3] = rows
      BY DEF IInv, RowsInv
    <2>5. QED
      BY <1>1, <2>1, <2>2, <2>3, <2>4 DEF Ready, SelectionShown
  <1>5. QED
    BY <1>1, <1>2, <1>3, <1>4 DEF RowsOK

\* The edit that waits, for a view and what was confirmed.
Waits(v, c) ==
  v.pendingData # <<>> =>
    /\ c # NoEdit /\ v.pendingAddr = c.addr /\ c.addr \in Addresses
    /\ v.pendingData = AssembleOne(c.addr, c.text)

\* A key that leaves the view ready.
LEMMA KeyKeeps ==
  ASSUME IInv, NEW key, NEW v, Ready(v), Pressed(key, v), addr' \in MaybeAddr, Waits(v, confirmed')
  PROVE  IInv'
  <1>1. /\ phase = "keys" /\ view' = v
        /\ phase' = (IF frozen THEN "keys" ELSE "update") /\ renders' = ~frozen /\ followed' = FALSE
        /\ mem' = mem /\ program' = program /\ cpu' = cpu /\ rows' = rows /\ height' = height
        /\ frozen' = frozen /\ torn' = torn /\ stale' = stale
    BY DEF Pressed, emulatorVars
  <1>2. TypeInv'
    <2>1. v \in Views
      BY DEF Ready
    <2>2. MemoryOK'
      BY <1>1 DEF IInv, TypeInv, MemoryOK
    <2>3. /\ program' \in Programs /\ cpu' \in Addresses /\ rows' \in Seq(Instructions) /\ height' \in Heights
          /\ frozen' \in BOOLEAN /\ torn' \in BOOLEAN /\ stale' \in BOOLEAN
      BY <1>1 DEF IInv, TypeInv
    <2>4. phase' \in {"keys", "freeze", "update", "nav", "fetch", "refetch"}
      BY <1>1
    <2>5. renders' \in BOOLEAN /\ followed' \in BOOLEAN
      BY <1>1
    <2>6. QED
      BY <1>1, <2>1, <2>2, <2>3, <2>4, <2>5 DEF TypeInv
  <1>3. RowsInv'
    <2>1. /\ Rising(rows)
          /\ \A k \in 1 .. Len(rows) : Cut(rows[k]) => k = Len(rows) /\ (stale \/ k > height)
      BY DEF IInv, RowsInv
    <2>2. /\ v.currentAddr = NoAddr => rows = <<>>
          /\ v.snapshot = <<>> \/ v.snapshot[3] = rows
          /\ v.grid.rows = rows /\ v.grid.ih = height
      BY DEF Ready
    <2>3. QED
      BY <1>1, <2>1, <2>2 DEF RowsInv
  <1>4. EditOK(view)'
    <2>1. EditOK(v)
      BY DEF Ready
    <2>2. QED
      BY <1>1, <2>1 DEF EditOK
  <1>5. PendingInv'
    BY <1>1 DEF Waits, PendingInv
  <1>6. PhaseInv'
    <2>1. frozen => (v.mode = "edit" => v.grid.editing)
      BY DEF Ready
    <2>2. frozen \in BOOLEAN
      BY DEF IInv, TypeInv
    <2>3. QED
      BY <1>1, <2>1, <2>2 DEF PhaseInv
  <1>7. ShownInv'
    <2>1. frozen => v.grid.offset = 0 /\ (rows # <<>> => v.grid.selected \in 0 .. VisCount - 1)
      BY DEF Ready
    <2>2. v.grid.virtual \in Scrolls
      BY DEF Ready
    <2>3. VisCount' = VisCount
      BY <1>1 DEF VisCount
    <2>4. ~renders' => frozen /\ frozen' /\ ~followed'
      BY <1>1
    <2>5. view'.grid.virtual \in Scrolls
      BY <1>1, <2>2
    <2>6. ~renders' => SelectionShown'
      BY <1>1, <2>1, <2>3, <2>4 DEF SelectionShown
    <2>7. QED
      BY <2>4, <2>5, <2>6 DEF ShownInv
  <1>8. QED
    BY <1>2, <1>3, <1>4, <1>5, <1>6, <1>7 DEF IInv

\* What waits stays with what was confirmed.
LEMMA StillWaits ==
  ASSUME IInv, NEW v, v.pendingAddr = view.pendingAddr, v.pendingData = view.pendingData
  PROVE  Waits(v, confirmed)
  BY DEF IInv, PendingInv, Waits

\* The keys one by one.
LEMMA FollowKeyKeeps ==
  ASSUME IInv, FollowKey
  PROVE  IInv'
  <1> DEFINE f == ~view.follow
             w == [view EXCEPT !.follow = f]
  <1>1. phase = "keys" /\ Pressed("f", w) /\ addr' = addr /\ confirmed' = confirmed
    BY DEF FollowKey, Pressed
  <1>2. Ready(view) /\ view \in Views /\ addr \in MaybeAddr
    BY <1>1, InvGives
  <1>3. f \in BOOLEAN
    OBVIOUS
  <1> HIDE DEF f
  <1>4. w \in Views
    BY <1>2, <1>3 DEF Views
  <1>5. Keeps(view, w) /\ w.grid = view.grid
    BY <1>2 DEF Views, Keeps
  <1> HIDE DEF w
  <1>6. Ready(w)
    BY <1>2, <1>4, <1>5, KeepsReady
  <1>7. Waits(w, confirmed')
    BY <1>1, <1>5, StillWaits DEF Keeps
  <1>8. QED
    BY <1>1, <1>2, <1>6, <1>7, KeyKeeps

\* A key that moves the window.
LEMMA MoveKeyKeeps ==
  ASSUME IInv, NEW key \in NavigationKeys, MoveKey(key)
  PROVE  IInv'
  <1> DEFINE w == Moved(view, key)
  <1>1. phase = "keys" /\ view.mode = "" /\ Pressed(key, w) /\ addr' = addr /\ confirmed' = confirmed
    BY DEF MoveKey, Pressed
  <1>2. Ready(view) /\ RowsOK /\ addr \in MaybeAddr
    BY <1>1, InvGives
  <1>3. Ready(w) /\ Keeps(view, w)
    BY <1>1, <1>2, MovedIs
  <1> HIDE DEF w
  <1>4. Waits(w, confirmed')
    BY <1>1, <1>3, StillWaits DEF Keeps
  <1>5. QED
    BY <1>1, <1>2, <1>3, <1>4, KeyKeeps

\* The line for an address is opened.
LEMMA OpenAddressKeeps ==
  ASSUME IInv, OpenAddress
  PROVE  IInv'
  <1> DEFINE w == OpenAddressInput(view)
  <1>1. phase = "keys" /\ view.mode = "" /\ Pressed("/", w) /\ addr' = addr /\ confirmed' = confirmed
    BY DEF OpenAddress, Pressed
  <1>2. Ready(view) /\ cpu \in Addresses /\ addr \in MaybeAddr
    BY <1>1, InvGives
  <1>3. Ready(w) /\ w.pendingAddr = view.pendingAddr /\ w.pendingData = view.pendingData
    BY <1>1, <1>2, OpenAddressIs
  <1> HIDE DEF w
  <1>4. Waits(w, confirmed')
    BY <1>1, <1>3, StillWaits
  <1>5. QED
    BY <1>1, <1>2, <1>3, <1>4, KeyKeeps

\* It is typed into.
LEMMA TypeAddressKeeps ==
  ASSUME IInv, NEW key \in Digits \cup {Backspace}, TypeAddress(key)
  PROVE  IInv'
  <1> DEFINE typed == AddressKey(view, key)
             there == HexValue(typed.buffer)
             goes == typed.buffer # view.buffer /\ typed.buffer # <<>>
             w == IF goes THEN GoesTo(typed, there) ELSE typed
             name == IF key = Backspace THEN "Backspace" ELSE "digit"
  <1>1. phase = "keys" /\ Pressed(name, w) /\ addr' = (IF goes THEN there ELSE addr) /\ confirmed' = confirmed
    BY DEF TypeAddress, Pressed
  <1>2. Ready(view) /\ view \in Views /\ addr \in MaybeAddr
    BY <1>1, InvGives
  <1>3. typed \in Views /\ Keeps(view, typed) /\ typed.grid = view.grid
    BY <1>2, AddressKeyIs
  <1> HIDE DEF typed, name
  <1>4. there \in Addresses
    BY <1>3, ViewIs, HexIs
  <1> HIDE DEF there, goes
  <1>5. Ready(typed)
    BY <1>2, <1>3, KeepsReady
  <1>6. Ready(w)
    BY <1>4, <1>5, GoesReady
  <1>7. w.pendingAddr = view.pendingAddr /\ w.pendingData = view.pendingData
    BY <1>3, <1>4, GoesToIs DEF Keeps
  <1>8. addr' \in MaybeAddr
    BY <1>1, <1>2, <1>4 DEF MaybeAddr
  <1> HIDE DEF w
  <1>9. Waits(w, confirmed')
    BY <1>1, <1>7, StillWaits
  <1>10. QED
    BY <1>1, <1>6, <1>8, <1>9, KeyKeeps

\* It is closed.
LEMMA CloseAddressKeeps ==
  ASSUME IInv, NEW key, CloseAddress(key)
  PROVE  IInv'
  <1> DEFINE there == CASE key = "Esc" -> view.before
                        [] key = "Enter" /\ view.buffer # <<>> -> HexValue(view.buffer)
                        [] OTHER -> NoAddr
             u == IF there = NoAddr THEN view ELSE GoesTo(view, there)
             w == CloseInput(u)
  <1>1. phase = "keys" /\ Pressed(key, w) /\ addr' = (IF there = NoAddr THEN addr ELSE there) /\ confirmed' = confirmed
    BY DEF CloseAddress, Pressed
  <1>2. Ready(view) /\ view \in Views /\ addr \in MaybeAddr
    BY <1>1, InvGives
  <1>3. view.before \in MaybeAddr /\ HexValue(view.buffer) \in MaybeAddr /\ NoAddr \in MaybeAddr
    BY <1>2, ViewIs, HexIs DEF MaybeAddr
  <1>4. there \in MaybeAddr
    BY <1>3
  <1> HIDE DEF there
  <1>5. there # NoAddr => there \in Addresses
    BY <1>4, MaybeIs
  <1>6. Ready(u) /\ u \in Views /\ u.pendingAddr = view.pendingAddr /\ u.pendingData = view.pendingData
    <2>1. Ready(u)
      BY <1>2, <1>5, GoesReady
    <2>2. u \in Views /\ u.pendingAddr = view.pendingAddr /\ u.pendingData = view.pendingData
      BY <1>2, <1>5, GoesToIs
    <2>3. QED
      BY <2>1, <2>2
  <1> HIDE DEF u
  <1>7. Ready(w) /\ w.pendingAddr = view.pendingAddr /\ w.pendingData = view.pendingData
    BY <1>6, CloseReady, CloseIs
  <1> HIDE DEF w
  <1>8. Waits(w, confirmed')
    BY <1>1, <1>7, StillWaits
  <1>9. addr' \in MaybeAddr
    BY <1>1, <1>2, <1>4
  <1>10. QED
    BY <1>1, <1>7, <1>8, <1>9, KeyKeeps

\* A row is opened.
LEMMA OpenEditKeeps ==
  ASSUME IInv, OpenEdit
  PROVE  IInv'
  <1> DEFINE w == OpenEditInput(view)
  <1>1. phase = "keys" /\ CurrentSelectedRow(view) # NoRow /\ Pressed("Enter", w)
        /\ addr' = addr /\ confirmed' = confirmed
    BY DEF OpenEdit, Pressed
  <1>2. Ready(view) /\ RowsOK /\ addr \in MaybeAddr
    BY <1>1, InvGives
  <1>3. Ready(w) /\ w.pendingAddr = view.pendingAddr /\ w.pendingData = view.pendingData
    BY <1>1, <1>2, OpenEditIs
  <1> HIDE DEF w
  <1>4. Waits(w, confirmed')
    BY <1>1, <1>3, StillWaits
  <1>5. QED
    BY <1>1, <1>2, <1>3, <1>4, KeyKeeps

\* It is typed into.
LEMMA TypeInRowKeeps ==
  ASSUME IInv, NEW text \in Texts, TypeInRow(text)
  PROVE  IInv'
  <1> DEFINE w == TypedInRow(view, text)
  <1>1. phase = "keys" /\ view.mode = "edit" /\ EditTakes(view.grid) /\ Pressed("text", w)
        /\ addr' = addr /\ confirmed' = confirmed
    BY DEF TypeInRow, Pressed
  <1>2. Ready(view) /\ RowsOK /\ addr \in MaybeAddr
    BY <1>1, InvGives
  <1>3. Ready(w) /\ w.pendingAddr = view.pendingAddr /\ w.pendingData = view.pendingData
    BY <1>1, <1>2, TypedIs
  <1> HIDE DEF w
  <1>4. Waits(w, confirmed')
    BY <1>1, <1>3, StillWaits
  <1>5. QED
    BY <1>1, <1>2, <1>3, <1>4, KeyKeeps

\* An edited row that is in the grid takes the keys.
LEMMA MoveInGridKeeps ==
  ASSUME IInv, NEW key \in NavigationKeys, MoveInGrid(key)
  PROVE  IInv'
  <1> DEFINE w == [view EXCEPT !.grid = Navigate([@ EXCEPT !.editing = FALSE], key)]
  <1>1. phase = "keys" /\ view.mode = "edit" /\ ~EditTakes(view.grid) /\ Pressed(key, w)
        /\ addr' = addr /\ confirmed' = confirmed
    BY DEF MoveInGrid, Pressed
  <1>2. Ready(view) /\ RowsOK /\ addr \in MaybeAddr /\ view.grid.rows = rows /\ view \in Views
    BY <1>1, InvGives
  <1>3. ~frozen
    <2>1. SUFFICES ASSUME frozen PROVE FALSE
      OBVIOUS
    <2>2. view.grid.editing /\ view.grid.editRow = FindRow(rows, view.editAddr) /\ view.grid.editRow # NoRow
      BY <1>1, <1>2, <2>1 DEF Ready, EditOK
    <2>3. FindRow(rows, view.editAddr) = NoRow \/ FindRow(rows, view.editAddr) \in 0 .. Len(rows) - 1
      BY <1>2, FindRowIs DEF RowsOK
    <2>4. view.grid.editable > 0
      <3> DEFINE g == view.grid
      <3>1. g \in Grids
        BY <1>2, ViewIs
      <3> HIDE DEF g
      <3>2. g.editable = 19
        BY <3>1 DEF Grids
      <3>3. g.editable > 0
        BY ONLY <3>2
      <3>4. QED
        BY <3>3 DEF g
    <2>5. QED
      BY <1>1, <1>2, <2>2, <2>3, <2>4 DEF EditTakes, LastRow
  <1>4. Ready(w) /\ w.pendingAddr = view.pendingAddr /\ w.pendingData = view.pendingData
    BY <1>2, <1>3, NavigatedIs
  <1> HIDE DEF w
  <1>5. Waits(w, confirmed')
    BY <1>1, <1>4, StillWaits
  <1>6. QED
    BY <1>1, <1>2, <1>4, <1>5, KeyKeeps

\* Enter confirms what is shown in the row, or what was in it when it went.
LEMMA CloseEditKeeps ==
  ASSUME IInv, NEW key, CloseEdit(key)
  PROVE  IInv'
  <1> DEFINE u == IF key = "Enter" THEN ConfirmEdit(view) ELSE view
             w == CloseInput(u)
             t == IF view.grid.editing THEN view.grid.editValue ELSE view.editText
             c == [addr |-> view.editAddr, text |-> t]
  <1>1. /\ phase = "keys" /\ view.mode = "edit" /\ Pressed(key, w) /\ addr' = addr
        /\ confirmed' = IF key = "Enter" /\ view.editBytes # <<>> THEN c ELSE confirmed
    BY DEF CloseEdit, Pressed
  <1>2. Ready(view) /\ view \in Views /\ addr \in MaybeAddr
    BY <1>1, InvGives
  <1>3. view.editAddr \in Addresses /\ view.editBytes = AssembleOne(view.editAddr, view.editText) /\ t = view.editText
    BY <1>1, <1>2 DEF Ready, EditOK
  <1>4. Ready(u) /\ u \in Views
    BY <1>1, <1>2, ConfirmIs DEF Ready
  <1>5. Waits(u, confirmed')
    <2>1. CASE key = "Enter" /\ view.editBytes # <<>>
      <3>1. u.pendingAddr = view.editAddr /\ u.pendingData = view.editBytes
        BY <1>1, <1>2, <2>1, ConfirmIs
      <3>2. view.editAddr # NoAddr
        BY <1>3, WordIs DEF NoAddr
      <3>3. c.addr = view.editAddr /\ c.text = view.editText /\ confirmed' = c
        BY <1>1, <1>3, <2>1
      <3>4. c # NoEdit
        BY <3>2, <3>3 DEF NoEdit
      <3> HIDE DEF u, c
      <3>5. QED
        BY <1>3, <3>1, <3>3, <3>4 DEF Waits
    <2>2. CASE ~(key = "Enter" /\ view.editBytes # <<>>)
      <3>1. u = view
        BY <1>1, <1>2, <2>2, ConfirmIs
      <3>2. confirmed' = confirmed
        BY <1>1, <2>2
      <3>3. QED
        BY <3>1, <3>2, StillWaits
    <2>3. QED
      BY <2>1, <2>2
  <1> HIDE DEF u, c
  <1>6. Ready(w) /\ w.pendingAddr = u.pendingAddr /\ w.pendingData = u.pendingData
    BY <1>4, CloseReady, CloseIs
  <1> HIDE DEF w
  <1>7. Waits(w, confirmed')
    BY <1>5, <1>6 DEF Waits
  <1>8. QED
    BY <1>1, <1>2, <1>6, <1>7, KeyKeeps

(***************************************************************************)
(* Rendering and the rest of the iteration.                                *)
(***************************************************************************)

\* What is edited, in the rows rs.
EditIn(v, rs) ==
  /\ v.mode = "edit" => v.editAddr \in Addresses /\ v.editBytes = AssembleOne(v.editAddr, v.editText)
  /\ v.grid.editing => /\ v.mode = "edit" /\ v.grid.editValue = v.editText
                       /\ v.grid.editRow = FindRow(rs, v.editAddr) /\ v.grid.editRow # NoRow

\* A view that follows selects the program counter, or will when it is rendered.
FollowIn(w, rs, pc, h) ==
  w.follow /\ FindRow(rs, pc) \in 0 .. h - 1 =>
    /\ w.grid.selected = FindRow(rs, pc)
    /\ w.selectedAddr = pc \/ (w.selectedAddr = NoAddr /\ w.hint = NoRow)

\* What rendering makes of what is edited and of what is selected.
LEMMA ShowsIs ==
  ASSUME NEW v \in Views, NEW rs \in Seq(Instructions), Rising(rs), NEW pc \in Addresses, NEW h \in Nat \ {0},
         v.mode = "edit" => v.editAddr \in Addresses /\ v.editBytes = AssembleOne(v.editAddr, v.editText)
  PROVE  LET w == Rendered(v, rs, pc, h)
         IN  /\ w \in Views /\ Same(v, w) /\ EditIn(w, rs)
             /\ w.grid.rows = rs /\ w.grid.ih = h /\ w.grid.offset = 0 /\ w.grid.virtual \in Scrolls
             /\ rs # <<>> => w.grid.selected \in 0 .. Smaller(Len(rs), h) - 1
             /\ w.grid.highlighted = ActiveRow(w, rs, pc)
             /\ v.selectedAddr = pc \/ (v.selectedAddr = NoAddr /\ v.hint = NoRow) => FollowIn(w, rs, pc, h)
             /\ v.mode = "edit" /\ FindRow(rs, v.editAddr) # NoRow => w.grid.editing
  <1> DEFINE w == Rendered(v, rs, pc, h)
             row == Row(v, rs, pc, h)
             f == FindRow(rs, pc)
  <1>1. Shows(w, v, rs, pc, h)
    BY RenderedIs
  <1>2. /\ row \in Int
        /\ rs # <<>> => row \in 0 .. Smaller(Len(rs), h) - 1
        /\ v.follow /\ f \in 0 .. h - 1 /\ (v.selectedAddr = pc \/ (v.selectedAddr = NoAddr /\ v.hint = NoRow)) => row = f
    BY ChosenIs
  <1>3. f = NoRow \/ (f \in 0 .. Len(rs) - 1 /\ rs[f + 1].addr = pc)
    BY FindRowIs
  <1>4. f \in 0 .. h - 1 => f # NoRow
    BY DEF NoRow
  <1> HIDE DEF w, row, f
  <1>5. EditIn(w, rs)
    BY <1>1 DEF Shows, Same, EditIn
  <1>6. w.grid.highlighted = ActiveRow(w, rs, pc)
    BY <1>1 DEF Shows, Same, ActiveRow
  <1>7. /\ w.grid.selected = row /\ w.follow = v.follow
        /\ w.selectedAddr = IF row = NoRow THEN NoAddr ELSE rs[row + 1].addr
    BY <1>1 DEF Shows, Same, row
  <1>8. ASSUME v.selectedAddr = pc \/ (v.selectedAddr = NoAddr /\ v.hint = NoRow)
        PROVE  FollowIn(w, rs, pc, h)
    BY <1>2, <1>3, <1>4, <1>7, <1>8 DEF FollowIn, f
  <1>9. /\ w \in Views /\ Same(v, w)
        /\ w.grid.rows = rs /\ w.grid.ih = h /\ w.grid.offset = 0 /\ w.grid.virtual \in Scrolls
        /\ v.mode = "edit" /\ FindRow(rs, v.editAddr) # NoRow => w.grid.editing
    BY <1>1 DEF Shows
  <1>10. QED
    BY <1>2, <1>5, <1>6, <1>7, <1>8, <1>9 DEF w

\* Freezing and thawing.
LEMMA ToggleFreezeKeeps ==
  ASSUME IInv, ToggleFreeze
  PROVE  IInv'
  <1>1. /\ phase = "keys" /\ view.mode = "" /\ frozen' = ~frozen /\ view' = view
        /\ phase' = (IF frozen' THEN "freeze" ELSE "update") /\ renders' = ~frozen'
        /\ mem' = mem /\ program' = program /\ cpu' = cpu /\ rows' = rows /\ addr' = addr /\ height' = height
        /\ confirmed' = confirmed /\ torn' = torn /\ followed' = followed /\ stale' = stale
    BY DEF ToggleFreeze, emulatorVars, stateVars, historyVars
  <1>2. frozen \in BOOLEAN /\ ~renders
    BY <1>1 DEF IInv, TypeInv, PhaseInv
  <1>3. TypeInv'
    BY <1>1, <1>2 DEF IInv, TypeInv, MemoryOK
  <1>4. RowsInv'
    BY <1>1 DEF IInv, RowsInv
  <1>5. EditOK(view)'
    BY <1>1 DEF IInv, EditOK
  <1>6. PendingInv'
    BY <1>1 DEF IInv, PendingInv
  <1>7. PhaseInv'
    BY <1>1, <1>2 DEF IInv, PhaseInv, InView
  <1>8. SelectionShown => SelectionShown'
    BY <1>1 DEF SelectionShown, VisCount
  <1>9. FollowShown => FollowShown'
    BY <1>1 DEF FollowShown, InView
  <1>10. ShownInv'
    <2>1. view'.grid.virtual \in Scrolls /\ SelectionShown
      BY <1>1, <1>2 DEF IInv, ShownInv
    <2>2. followed => FollowShown
      BY <1>2 DEF IInv, ShownInv
    <2>3. ~renders' => frozen'
      BY <1>1, <1>2
    <2>4. QED
      BY <1>1, <1>8, <1>9, <2>1, <2>2, <2>3 DEF ShownInv
  <1>11. QED
    BY <1>3, <1>4, <1>5, <1>6, <1>7, <1>10 DEF IInv

\* The render after freezing.
LEMMA RenderFrozenKeeps ==
  ASSUME IInv, RenderFrozen
  PROVE  IInv'
  <1> DEFINE w == Rendered(view, rows, cpu, height)
  <1>1. /\ phase = "freeze" /\ view' = w /\ phase' = "keys" /\ renders' = renders /\ frozen' = frozen
        /\ mem' = mem /\ program' = program /\ cpu' = cpu /\ rows' = rows /\ addr' = addr /\ height' = height
        /\ confirmed' = confirmed /\ torn' = torn /\ followed' = followed /\ stale' = stale
    BY DEF RenderFrozen, emulatorVars, stateVars, historyVars
  <1>2. view \in Views /\ EditOK(view) /\ cpu \in Addresses /\ rows \in Seq(Instructions)
        /\ Rising(rows) /\ height \in Nat \ {0}
    BY InvGives DEF IInv
  <1>3. frozen /\ ~renders /\ (view.mode = "edit" => view.grid.editing)
    BY <1>1 DEF IInv, PhaseInv
  <1>4. /\ w \in Views /\ Same(view, w) /\ EditIn(w, rows)
        /\ w.grid.rows = rows /\ w.grid.ih = height /\ w.grid.offset = 0 /\ w.grid.virtual \in Scrolls
        /\ rows # <<>> => w.grid.selected \in 0 .. Smaller(Len(rows), height) - 1
        /\ w.grid.highlighted = ActiveRow(w, rows, cpu)
        /\ view.selectedAddr = cpu \/ (view.selectedAddr = NoAddr /\ view.hint = NoRow) => FollowIn(w, rows, cpu, height)
        /\ view.mode = "edit" /\ FindRow(rows, view.editAddr) # NoRow => w.grid.editing
    <2>1. view.mode = "edit" => view.editAddr \in Addresses /\ view.editBytes = AssembleOne(view.editAddr, view.editText)
      BY <1>2 DEF EditOK
    <2>2. QED
      BY ONLY <1>2, <2>1, ShowsIs
  <1> HIDE DEF w
  <1>5. TypeInv'
    BY <1>1, <1>4 DEF IInv, TypeInv, MemoryOK
  <1>6. RowsInv'
    BY <1>1, <1>4 DEF IInv, RowsInv, Same
  <1>7. EditOK(view)'
    BY <1>1, <1>4 DEF EditOK, EditIn
  <1>8. PendingInv'
    BY <1>1, <1>4 DEF IInv, PendingInv, Same
  <1>9. PhaseInv'
    <2>1. w.mode = "edit" => w.grid.editing
      BY <1>2, <1>3, <1>4 DEF EditOK, Same
    <2>2. w.follow = view.follow
      BY <1>4 DEF Same
    <2>3. QED
      BY <1>1, <1>3, <2>1, <2>2 DEF IInv, PhaseInv, InView
  <1>10. SelectionShown'
    BY <1>1, <1>4 DEF SelectionShown, VisCount
  <1>11. ASSUME followed
         PROVE  FollowShown'
    <2>1. FollowShown
      BY <1>3, <1>11 DEF IInv, ShownInv
    <2>2. w.follow = view.follow
      BY <1>4 DEF Same
    <2>3. view.follow /\ ~stale /\ InView(cpu, rows) => FollowIn(w, rows, cpu, height)
      BY <1>4, <2>1 DEF FollowShown
    <2>4. QED
      BY <1>1, <1>4, <2>2, <2>3 DEF FollowShown, FollowIn, InView
  <1>12. ShownInv'
    BY <1>1, <1>3, <1>4, <1>10, <1>11 DEF ShownInv
  <1>13. QED
    BY <1>5, <1>6, <1>7, <1>8, <1>9, <1>12 DEF IInv

\* The window gets another height.
LEMMA ResizeKeeps ==
  ASSUME IInv, Resize
  PROVE  IInv'
  <1> DEFINE h == height'
             w == Rendered(view, rows, cpu, h)
  <1>1. /\ phase \in {"keys", "update", "freeze"} /\ h \in Heights /\ view' = w /\ followed' = FALSE /\ stale' = TRUE
        /\ mem' = mem /\ program' = program /\ cpu' = cpu /\ rows' = rows /\ addr' = addr
        /\ phase' = "keys" /\ renders' = FALSE /\ frozen' = frozen /\ confirmed' = confirmed /\ torn' = torn
    BY DEF Resize, emulatorVars, stateVars
  <1>2. view \in Views /\ EditOK(view) /\ cpu \in Addresses /\ rows \in Seq(Instructions)
        /\ Rising(rows) /\ h \in Nat \ {0} /\ (frozen => (view.mode = "edit" => view.grid.editing))
    BY <1>1, InvGives, BoundsAssumption DEF IInv, PhaseInv
  <1>3. /\ w \in Views /\ Same(view, w) /\ EditIn(w, rows)
        /\ w.grid.rows = rows /\ w.grid.ih = h /\ w.grid.offset = 0 /\ w.grid.virtual \in Scrolls
        /\ rows # <<>> => w.grid.selected \in 0 .. Smaller(Len(rows), h) - 1
        /\ w.grid.highlighted = ActiveRow(w, rows, cpu)
        /\ view.mode = "edit" /\ FindRow(rows, view.editAddr) # NoRow => w.grid.editing
    <2>1. view.mode = "edit" => view.editAddr \in Addresses /\ view.editBytes = AssembleOne(view.editAddr, view.editText)
      BY <1>2 DEF EditOK
    <2> HIDE DEF h
    <2>2. QED
      BY <1>2, <2>1, ShowsIs
  <1> HIDE DEF w
  <1>4. TypeInv'
    <2>1. followed' \in BOOLEAN /\ stale' \in BOOLEAN
      BY <1>1
    <2>2. QED
      BY <1>1, <1>3, <2>1 DEF IInv, TypeInv, MemoryOK
  <1>5. RowsInv'
    BY <1>1, <1>3 DEF IInv, RowsInv, Same
  <1>6. EditOK(view)'
    BY <1>1, <1>3 DEF EditOK, EditIn
  <1>7. PendingInv'
    BY <1>1, <1>3 DEF IInv, PendingInv, Same
  <1>8. PhaseInv'
    <2>1. frozen => (w.mode = "edit" => w.grid.editing)
      BY <1>2, <1>3 DEF EditOK, Same
    <2>2. QED
      BY <1>1, <2>1 DEF IInv, PhaseInv
  <1>9. SelectionShown'
    BY <1>1, <1>3 DEF SelectionShown, VisCount
  <1>10. FollowShown'
    BY <1>1, <1>3 DEF FollowShown
  <1>11. ShownInv'
    BY <1>1, <1>3, <1>9, <1>10 DEF ShownInv
  <1>12. QED
    BY <1>4, <1>5, <1>6, <1>7, <1>8, <1>11 DEF IInv

\* The program changes its memory.
LEMMA EmulatorRunsKeeps ==
  ASSUME IInv, EmulatorRuns
  PROVE  IInv'
  <1>1. PICK c \in program.changes : mem' = Stored(c.addr, <<c.value>>)
    BY DEF EmulatorRuns
  <1>2. /\ phase \notin {"keys", "freeze"} /\ torn' = (phase = "refetch")
        /\ program' = program /\ cpu' = cpu /\ rows' = rows /\ addr' = addr /\ height' = height /\ view' = view
        /\ phase' = phase /\ renders' = renders /\ frozen' = frozen /\ confirmed' = confirmed
        /\ followed' = followed /\ stale' = stale
    BY DEF EmulatorRuns, stateVars
  <1>3. program \in Programs /\ MemoryOK
    BY InvGives
  <1>4. c.addr \in Addresses /\ c.value \in Bytes
    BY <1>3, ProgramsAssumption DEF Bytes
  <1>5. MemoryOK'
    <2> DEFINE a == c.addr
               x == c.value
               d == <<x>>
    <2>1. a \in Addresses /\ x \in Bytes
      BY <1>4
    <2> HIDE DEF a, x
    <2>2. d \in Seq(Bytes)
      BY <2>1
    <2> HIDE DEF d
    <2>3. \A b \in DOMAIN Stored(a, d) : Stored(a, d)[b] \in Bytes
      BY <1>3, <2>1, <2>2, StoredIs
    <2>4. mem' = Stored(a, d)
      BY <1>1 DEF a, x, d
    <2>5. QED
      BY <2>3, <2>4 DEF MemoryOK
  <1>6. TypeInv'
    <2>1. torn' \in BOOLEAN
      BY <1>2
    <2>2. QED
      BY <1>2, <1>5, <2>1 DEF IInv, TypeInv
  <1>7. RowsInv'
    BY <1>2 DEF IInv, RowsInv
  <1>8. EditOK(view)'
    BY <1>2 DEF IInv, EditOK
  <1>9. PendingInv'
    BY <1>2 DEF IInv, PendingInv
  <1>10. PhaseInv'
    BY <1>2 DEF IInv, PhaseInv
  <1>11. ShownInv'
    BY <1>2 DEF IInv, ShownInv, SelectionShown, FollowShown, VisCount, InView
  <1>12. QED
    BY <1>6, <1>7, <1>8, <1>9, <1>10, <1>11 DEF IInv

(***************************************************************************)
(* Updates.                                                                *)
(***************************************************************************)

\* Where the window is placed.
LEMMA PlacedViewIs ==
  ASSUME NEW v \in Views, addr \in MaybeAddr, cpu' \in Addresses
  PROVE  LET w == Placed(v)
         IN  /\ w \in Views /\ w.grid = v.grid /\ w.mode = v.mode /\ w.snapshot = v.snapshot
             /\ w.pendingAddr = v.pendingAddr /\ w.pendingData = v.pendingData
             /\ w.editAddr = v.editAddr /\ w.editText = v.editText /\ w.editBytes = v.editBytes
             /\ w.nav = v.nav /\ w.follow = v.follow /\ w.currentAddr \in Addresses
             /\ v.currentAddr # NoAddr => w.selectedAddr = v.selectedAddr /\ w.hint = v.hint
  <1> DEFINE first == IF addr # NoAddr THEN addr ELSE cpu'
             zero == 0
             x == [v EXCEPT !.currentAddr = first, !.selectedAddr = first, !.hint = zero]
             y == [v EXCEPT !.currentAddr = addr]
  <1>1. first \in Addresses /\ v.currentAddr \in MaybeAddr
    BY MaybeIs, ViewIs
  <1>2. zero \in Int
    BY ONLY FirstAndOne
  <1>3. /\ v.currentAddr = NoAddr => Placed(v) = x
        /\ v.currentAddr # NoAddr => Placed(v) = v \/ (addr # NoAddr /\ Placed(v) = y)
    BY DEF Placed
  <1> HIDE DEF first, zero
  <1>4. first \in MaybeAddr
    BY <1>1 DEF MaybeAddr
  <1>5. x \in Views /\ y \in Views
    BY <1>2, <1>4 DEF Views
  <1>6. /\ x.grid = v.grid /\ x.mode = v.mode /\ x.snapshot = v.snapshot
        /\ x.pendingAddr = v.pendingAddr /\ x.pendingData = v.pendingData
        /\ x.editAddr = v.editAddr /\ x.editText = v.editText /\ x.editBytes = v.editBytes
        /\ x.nav = v.nav /\ x.follow = v.follow /\ x.currentAddr = first
    BY DEF Views
  <1>7. /\ y.grid = v.grid /\ y.mode = v.mode /\ y.snapshot = v.snapshot
        /\ y.pendingAddr = v.pendingAddr /\ y.pendingData = v.pendingData
        /\ y.editAddr = v.editAddr /\ y.editText = v.editText /\ y.editBytes = v.editBytes
        /\ y.nav = v.nav /\ y.follow = v.follow /\ y.currentAddr = addr
        /\ y.selectedAddr = v.selectedAddr /\ y.hint = v.hint
    BY DEF Views
  <1>8. v.currentAddr # NoAddr => v.currentAddr \in Addresses
    BY <1>1, MaybeIs
  <1>9. addr # NoAddr => addr \in Addresses
    BY MaybeIs
  <1> HIDE DEF x, y
  <1>10. QED
    BY <1>1, <1>3, <1>5, <1>6, <1>7, <1>8, <1>9

\* The edit that waits is sent.
LEMMA BeginUpdateKeeps ==
  ASSUME IInv, BeginUpdate
  PROVE  IInv'
  <1> DEFINE data == view.pendingData
             sent == [view EXCEPT !.pendingAddr = NoAddr, !.pendingData = <<>>]
  <1>1. PICK outcome \in Outcomes :
           /\ IF data # <<>> /\ outcome # "refused"
              THEN mem' = Stored(view.pendingAddr, data)
              ELSE mem' = mem
           /\ view' = Placed([sent EXCEPT !.snapshot = IF data # <<>> /\ outcome = "answered" THEN <<>> ELSE @])
    BY DEF BeginUpdate
  <1>2. /\ phase \in {"keys", "update"} /\ ~frozen /\ cpu' \in program.pcs
        /\ renders' = (renders \/ cpu' # cpu)
        /\ phase' = (IF view.nav = "none" THEN "fetch" ELSE "nav") /\ torn' = FALSE
        /\ program' = program /\ rows' = rows /\ addr' = addr /\ height' = height /\ frozen' = frozen
        /\ followed' = followed /\ stale' = stale
    BY DEF BeginUpdate
  <1>3. /\ RowsOK /\ MemoryOK /\ view \in Views /\ addr \in MaybeAddr /\ program.pcs \subseteq Addresses
        /\ rows \in Seq(Instructions) /\ height \in Nat \ {0}
    BY InvGives
  <1>4. cpu' \in Addresses
    BY <1>2, <1>3
  <1> DEFINE snap == IF data # <<>> /\ outcome = "answered" THEN <<>> ELSE view.snapshot
             na == NoAddr
             nd == <<>>
             u == [view EXCEPT !.pendingAddr = na, !.pendingData = nd, !.snapshot = snap]
  <1>5. [sent EXCEPT !.snapshot = IF data # <<>> /\ outcome = "answered" THEN <<>> ELSE @] = u
    BY <1>3 DEF Views
  <1>6. snap \in {<<>>} \cup Snapshots /\ (snap = <<>> \/ snap = view.snapshot)
    BY <1>3, ViewIs
  <1>7. nd \in Seq(Bytes) /\ na \in MaybeAddr
    BY DEF MaybeAddr
  <1> HIDE DEF snap, na, nd
  <1>8. u \in Views
    BY <1>3, <1>6, <1>7 DEF Views
  <1>9. /\ u.grid = view.grid /\ u.mode = view.mode /\ u.snapshot = snap /\ u.pendingData = nd
        /\ u.editAddr = view.editAddr /\ u.editText = view.editText /\ u.editBytes = view.editBytes
        /\ u.nav = view.nav /\ u.follow = view.follow /\ u.currentAddr = view.currentAddr
        /\ u.selectedAddr = view.selectedAddr /\ u.hint = view.hint
    BY <1>3 DEF Views
  <1>10. view' = Placed(u)
    BY <1>1, <1>5
  <1> HIDE DEF u, sent
  <1> DEFINE w == view'
  <1>11. /\ w \in Views /\ w.grid = view.grid /\ w.mode = view.mode /\ w.snapshot = snap /\ w.pendingData = <<>>
         /\ w.editAddr = view.editAddr /\ w.editText = view.editText /\ w.editBytes = view.editBytes
         /\ w.nav = view.nav /\ w.follow = view.follow /\ w.currentAddr \in Addresses /\ w.currentAddr # NoAddr
         /\ view.currentAddr # NoAddr => w.selectedAddr = view.selectedAddr /\ w.hint = view.hint
    <2> DEFINE p == Placed(u)
    <2>1. /\ p \in Views /\ p.grid = u.grid /\ p.mode = u.mode /\ p.snapshot = u.snapshot
          /\ p.pendingAddr = u.pendingAddr /\ p.pendingData = u.pendingData
          /\ p.editAddr = u.editAddr /\ p.editText = u.editText /\ p.editBytes = u.editBytes
          /\ p.nav = u.nav /\ p.follow = u.follow /\ p.currentAddr \in Addresses
          /\ u.currentAddr # NoAddr => p.selectedAddr = u.selectedAddr /\ p.hint = u.hint
      BY <1>3, <1>4, <1>8, PlacedViewIs
    <2>2. w = p
      BY <1>10
    <2> HIDE DEF p, w
    <2>3. w.currentAddr # NoAddr
      BY <2>1, <2>2, WordIs DEF NoAddr
    <2>4. QED
      BY <1>9, <2>1, <2>2, <2>3 DEF nd
  <1>12. MemoryOK'
    <2>1. CASE data # <<>> /\ outcome # "refused"
      <3> DEFINE a == view.pendingAddr
      <3>1. a \in Addresses /\ data \in Seq(Bytes)
        BY <1>3, <2>1, ViewIs DEF IInv, PendingInv
      <3>2. mem' = Stored(a, data)
        BY <1>1, <2>1
      <3> HIDE DEF a, data
      <3>3. QED
        BY <1>3, <3>1, <3>2, StoredIs DEF MemoryOK
    <2>2. CASE ~(data # <<>> /\ outcome # "refused")
      BY <1>1, <1>3, <2>2 DEF MemoryOK
    <2>3. QED
      BY <2>1, <2>2
  <1> HIDE DEF w
  <1>13. TypeInv'
    <2>1. renders' \in BOOLEAN /\ torn' \in BOOLEAN
      BY <1>2 DEF IInv, TypeInv
    <2>2. phase' \in {"keys", "freeze", "update", "nav", "fetch", "refetch"}
      BY <1>2
    <2>3. QED
      BY <1>2, <1>4, <1>11, <1>12, <2>1, <2>2 DEF IInv, TypeInv, w
  <1>14. RowsInv'
    BY <1>2, <1>6, <1>11 DEF IInv, RowsInv, w
  <1>15. EditOK(view)'
    BY <1>2, <1>11 DEF IInv, EditOK, w
  <1>16. PendingInv'
    BY <1>11 DEF PendingInv, w
  <1>17. PhaseInv'
    <2>1. phase' \in {"nav", "fetch"} /\ (phase' = "nav" => w.nav # "none")
      BY <1>2, <1>11
    <2>2. QED
      BY <1>2, <1>11, <2>1 DEF PhaseInv, w
  <1>18. ShownInv'
    <2>1. w.grid.virtual \in Scrolls
      BY <1>11 DEF IInv, ShownInv
    <2>2. ASSUME ~renders'
          PROVE  SelectionShown' /\ FollowShown'
      <3>1. ~renders /\ cpu' = cpu
        BY <1>2, <2>2
      <3>2. SelectionShown /\ FollowShown
        BY <1>2, <3>1 DEF IInv, ShownInv
      <3>3. SelectionShown'
        BY <1>2, <1>11, <3>2 DEF SelectionShown, VisCount, w
      <3>4. w.grid.highlighted = ActiveRow(w, rows, cpu)
        BY <1>11, <3>2 DEF FollowShown, ActiveRow
      <3>5. ASSUME w.follow, ~stale, InView(cpu, rows)
            PROVE  /\ w.grid.selected = FindRow(rows, cpu)
                   /\ w.selectedAddr = cpu \/ (w.selectedAddr = NoAddr /\ w.hint = NoRow)
        <4>1. /\ view.grid.selected = FindRow(rows, cpu)
              /\ view.selectedAddr = cpu \/ (view.selectedAddr = NoAddr /\ view.hint = NoRow)
          BY <1>11, <3>2, <3>5 DEF FollowShown
        <4>2. view.currentAddr # NoAddr
          <5>1. SUFFICES ASSUME view.currentAddr = NoAddr PROVE FALSE
            OBVIOUS
          <5>2. rows = <<>>
            BY <5>1 DEF IInv, RowsInv
          <5>3. FindRow(rows, cpu) = NoRow
            BY <5>2 DEF FindRow
          <5>4. QED
            BY <3>5, <5>3 DEF InView, NoRow
        <4>3. QED
          BY <1>11, <4>1, <4>2
      <3>6. FollowShown'
        BY <1>2, <3>1, <3>4, <3>5 DEF FollowShown, InView, w
      <3>7. QED
        BY <3>3, <3>6
    <2>3. QED
      BY <2>1, <2>2 DEF ShownInv, w
  <1>19. QED
    BY <1>13, <1>14, <1>15, <1>16, <1>17, <1>18 DEF IInv

\* What an update that was not carried out, or not to its end, leaves.
LEMMA GiveKeeps ==
  ASSUME IInv, phase \in {"nav", "fetch", "refetch"}, NEW v \in Views, Keeps([view EXCEPT !.currentAddr = v.currentAddr], v),
         v.grid = view.grid, v.currentAddr \in Addresses, Gives(v), torn' \in BOOLEAN,
         UNCHANGED <<mem, program, cpu, height, frozen, confirmed>>
  PROVE  IInv'
  <1> DEFINE w == Rendered(v, rows, cpu, height)
  <1>1. PICK render \in BOOLEAN :
           /\ renders => render
           /\ view' = IF render THEN w ELSE v
    BY DEF Gives, Ends
  <1>2. /\ stale' = TRUE /\ rows' = rows /\ phase' = "keys" /\ renders' = FALSE /\ followed' = FALSE /\ addr' = addr
        /\ mem' = mem /\ program' = program /\ cpu' = cpu /\ height' = height /\ frozen' = frozen
        /\ confirmed' = confirmed
    BY DEF Gives, Ends
  <1>3. /\ view \in Views /\ cpu \in Addresses /\ rows \in Seq(Instructions) /\ Rising(rows) /\ height \in Nat \ {0}
    BY InvGives
  <1>4. /\ v.mode = view.mode /\ v.snapshot = view.snapshot
        /\ v.pendingAddr = view.pendingAddr /\ v.pendingData = view.pendingData
        /\ v.editAddr = view.editAddr /\ v.editText = view.editText /\ v.editBytes = view.editBytes
    BY <1>3 DEF Keeps, Views
  <1>5. v.mode = "edit" => v.editAddr \in Addresses /\ v.editBytes = AssembleOne(v.editAddr, v.editText)
    BY <1>4 DEF IInv, EditOK
  <1>6. /\ w \in Views /\ Same(v, w) /\ EditIn(w, rows)
        /\ w.grid.rows = rows /\ w.grid.ih = height /\ w.grid.offset = 0 /\ w.grid.virtual \in Scrolls
        /\ rows # <<>> => w.grid.selected \in 0 .. Smaller(Len(rows), height) - 1
        /\ w.grid.highlighted = ActiveRow(w, rows, cpu)
    BY <1>3, <1>5, ShowsIs
  <1> HIDE DEF w
  <1> DEFINE x == view'
  <1>7. /\ x \in Views /\ x.mode = view.mode /\ x.snapshot = view.snapshot /\ x.currentAddr = v.currentAddr
        /\ x.pendingAddr = view.pendingAddr /\ x.pendingData = view.pendingData
        /\ x.grid.rows = rows /\ x.grid.ih = height /\ x.grid.virtual \in Scrolls
    <2>1. /\ v.grid.rows = rows /\ v.grid.ih = height /\ v.grid.virtual \in Scrolls
      BY InvGives DEF IInv, ShownInv
    <2>2. /\ w.mode = v.mode /\ w.snapshot = v.snapshot /\ w.currentAddr = v.currentAddr
          /\ w.pendingAddr = v.pendingAddr /\ w.pendingData = v.pendingData
      BY <1>6 DEF Same
    <2>3. QED
      BY <1>1, <1>4, <1>6, <2>1, <2>2
  <1>8. EditIn(x, rows)
    <2>1. EditIn(v, rows)
      BY <1>4 DEF IInv, EditOK, EditIn
    <2>2. QED
      BY <1>1, <1>6, <2>1
  <1>9. /\ x.grid.offset = 0
        /\ rows # <<>> => x.grid.selected \in 0 .. Smaller(Len(rows), height) - 1
        /\ x.grid.highlighted = ActiveRow(x, rows, cpu)
    <2>1. CASE render
      BY <1>1, <1>6, <2>1
    <2>2. CASE ~render
      <3>1. ~renders /\ x = v
        BY <1>1, <2>2
      <3>2. ~frozen
        BY DEF IInv, PhaseInv
      <3>3. SelectionShown /\ FollowShown
        BY <3>1, <3>2 DEF IInv, ShownInv
      <3> HIDE DEF x
      <3>4. QED
        BY <1>4, <3>1, <3>3 DEF SelectionShown, FollowShown, ActiveRow, VisCount
    <2>3. QED
      BY <2>1, <2>2
  <1>10. ~frozen
    BY DEF IInv, PhaseInv
  <1> HIDE DEF x
  <1>11. TypeInv'
    <2>1. stale' \in BOOLEAN /\ renders' \in BOOLEAN /\ followed' \in BOOLEAN
      BY <1>2
    <2>2. phase' \in {"keys", "freeze", "update", "nav", "fetch", "refetch"}
      BY <1>2
    <2>3. QED
      BY <1>2, <1>7, <2>1, <2>2 DEF IInv, TypeInv, MemoryOK, x
  <1>12. RowsInv'
    <2>1. x.currentAddr # NoAddr
      BY <1>7, WordIs DEF NoAddr
    <2>2. QED
      BY <1>2, <1>7, <2>1 DEF IInv, RowsInv, x
  <1>13. EditOK(view)'
    BY <1>2, <1>8 DEF EditOK, EditIn, x
  <1>14. PendingInv'
    BY <1>2, <1>7 DEF IInv, PendingInv, x
  <1>15. PhaseInv'
    BY <1>2, <1>10 DEF PhaseInv
  <1>16. ShownInv'
    <2>1. SelectionShown'
      BY <1>2, <1>9 DEF SelectionShown, VisCount, x
    <2>2. FollowShown'
      BY <1>2, <1>9 DEF FollowShown, x
    <2>3. QED
      BY <1>7, <2>1, <2>2 DEF ShownInv, x
  <1>17. QED
    BY <1>11, <1>12, <1>13, <1>14, <1>15, <1>16 DEF IInv

\* The rows that were read go to State().
LEMMA FinishKeeps ==
  ASSUME IInv, phase \in {"fetch", "refetch"}, Finishes(view, FetchRows(view.currentAddr)), torn' \in BOOLEAN,
         view.follow => torn' \/ InView(cpu, FetchRows(view.currentAddr)),
         UNCHANGED <<mem, program, cpu, height, frozen, confirmed>>
  PROVE  IInv'
  <1> DEFINE a == view.currentAddr
             rs == FetchRows(a)
             snapshot == <<cpu, a, rs>>
             sel == IF view.follow THEN NoAddr ELSE view.selectedAddr
             hint == IF view.follow THEN NoRow ELSE view.hint
             v == [view EXCEPT !.selectedAddr = sel, !.hint = hint, !.snapshot = snapshot]
             w == Rendered(v, rs, cpu, height)
  <1>1. /\ view \in Views /\ cpu \in Addresses /\ rows \in Seq(Instructions) /\ height \in Nat \ {0} /\ MemoryOK
        /\ view.grid.rows = rows /\ view.grid.ih = height
    BY InvGives
  <1>2. a \in Addresses /\ ~frozen
    BY DEF IInv, PhaseInv
  <1>3. /\ rs \in Seq(Instructions) /\ Rising(rs)
        /\ \A k \in 1 .. Len(rs) : Cut(rs[k]) => k = Len(rs) /\ k > height
    BY <1>1, <1>2, FetchIs
  <1>4. /\ v = [(IF view.follow THEN [view EXCEPT !.selectedAddr = NoAddr, !.hint = NoRow] ELSE view)
                   EXCEPT !.snapshot = snapshot]
    BY <1>1 DEF Views
  <1>5. PICK render \in BOOLEAN :
           /\ snapshot # view.snapshot \/ renders => render
           /\ stale' = (IF render THEN FALSE ELSE stale)
           /\ view' = IF render THEN w ELSE v
    <2> DEFINE s == [(IF view.follow THEN [view EXCEPT !.selectedAddr = NoAddr, !.hint = NoRow] ELSE view)
                        EXCEPT !.snapshot = snapshot]
    <2>1. Ends(s, rs, snapshot # view.snapshot, TRUE)
      BY DEF Finishes
    <2>2. s = v
      BY <1>4
    <2> HIDE DEF s, v
    <2>3. Ends(v, rs, snapshot # view.snapshot, TRUE)
      BY <2>1, <2>2
    <2>4. QED
      BY <2>3 DEF Ends
  <1>6. /\ rows' = rs /\ phase' = "keys" /\ renders' = FALSE /\ addr' = a /\ followed' = view.follow
        /\ mem' = mem /\ program' = program /\ cpu' = cpu /\ height' = height /\ frozen' = frozen
        /\ confirmed' = confirmed
    BY DEF Finishes, Ends
  <1>7. sel \in MaybeAddr /\ hint \in Int
    <2>1. NoAddr \in MaybeAddr /\ NoRow \in Int
      BY FirstAndOne DEF MaybeAddr, NoRow
    <2>2. QED
      BY <1>1, <2>1, ViewIs
  <1>8. snapshot \in {<<>>} \cup Snapshots /\ snapshot # <<>> /\ snapshot[3] = rs
    <2> HIDE DEF rs, a
    <2>1. QED
      BY <1>1, <1>2, <1>3 DEF Snapshots
  <1>9. view.follow => sel = NoAddr /\ hint = NoRow
    OBVIOUS
  <1> HIDE DEF rs, snapshot, sel, hint
  <1>10. v \in Views
    BY <1>1, <1>7, <1>8 DEF Views
  <1>11. /\ v.grid = view.grid /\ v.mode = view.mode /\ v.snapshot = snapshot /\ v.follow = view.follow
         /\ v.pendingAddr = view.pendingAddr /\ v.pendingData = view.pendingData /\ v.currentAddr = view.currentAddr
         /\ v.editAddr = view.editAddr /\ v.editText = view.editText /\ v.editBytes = view.editBytes
         /\ v.selectedAddr = sel /\ v.hint = hint
    BY <1>1 DEF Views
  <1> HIDE DEF v, a
  <1>12. v.mode = "edit" => v.editAddr \in Addresses /\ v.editBytes = AssembleOne(v.editAddr, v.editText)
    BY <1>11 DEF IInv, EditOK
  <1>13. /\ w \in Views /\ Same(v, w) /\ EditIn(w, rs)
         /\ w.grid.rows = rs /\ w.grid.ih = height /\ w.grid.offset = 0 /\ w.grid.virtual \in Scrolls
         /\ rs # <<>> => w.grid.selected \in 0 .. Smaller(Len(rs), height) - 1
         /\ w.grid.highlighted = ActiveRow(w, rs, cpu)
         /\ v.selectedAddr = cpu \/ (v.selectedAddr = NoAddr /\ v.hint = NoRow) => FollowIn(w, rs, cpu, height)
    BY ONLY <1>1, <1>3, <1>10, <1>12, ShowsIs
  <1> HIDE DEF w
  <1>14. ~render => rows = rs /\ ~renders
    BY <1>5, <1>8 DEF IInv, RowsInv
  <1> DEFINE x == view'
  <1>15. /\ x \in Views /\ x.mode = view.mode /\ x.snapshot = snapshot /\ x.currentAddr = a /\ x.follow = view.follow
         /\ x.pendingAddr = view.pendingAddr /\ x.pendingData = view.pendingData
         /\ x.grid.rows = rs /\ x.grid.ih = height /\ x.grid.virtual \in Scrolls
    <2>1. /\ ~render => v.grid.rows = rs /\ v.grid.ih = height /\ v.grid.virtual \in Scrolls
      BY <1>1, <1>11, <1>14 DEF IInv, ShownInv
    <2>2. /\ w.mode = v.mode /\ w.snapshot = v.snapshot /\ w.currentAddr = v.currentAddr /\ w.follow = v.follow
          /\ w.pendingAddr = v.pendingAddr /\ w.pendingData = v.pendingData
      BY <1>13 DEF Same
    <2>3. QED
      BY <1>5, <1>10, <1>11, <1>13, <2>1, <2>2 DEF a
  <1>16. EditIn(x, rs)
    <2>1. ~render => EditIn(v, rs)
      BY <1>11, <1>14 DEF IInv, EditOK, EditIn
    <2>2. QED
      BY <1>5, <1>13, <2>1
  <1>17. /\ x.grid.offset = 0
         /\ rs # <<>> => x.grid.selected \in 0 .. Smaller(Len(rs), height) - 1
         /\ x.grid.highlighted = ActiveRow(x, rs, cpu)
         /\ ~stale' => FollowIn(x, rs, cpu, height)
    <2>1. CASE render
      <3>1. x.follow => FollowIn(x, rs, cpu, height)
        BY <1>5, <1>9, <1>11, <1>13, <1>15, <2>1
      <3>2. FollowIn(x, rs, cpu, height)
        BY <3>1 DEF FollowIn
      <3>3. QED
        BY <1>5, <1>13, <2>1, <3>2
    <2>2. CASE ~render
      <3>1. ~renders /\ x = v /\ rows = rs /\ stale' = stale
        BY <1>5, <1>14, <2>2
      <3>2. SelectionShown /\ FollowShown
        BY <1>2, <3>1 DEF IInv, ShownInv
      <3> HIDE DEF x
      <3>3. ~stale => FollowIn(v, rs, cpu, height)
        BY <1>9, <1>11, <3>1, <3>2 DEF FollowShown, FollowIn, InView
      <3>4. QED
        BY <1>11, <3>1, <3>2, <3>3 DEF SelectionShown, FollowShown, ActiveRow, VisCount
    <2>3. QED
      BY <2>1, <2>2
  <1> HIDE DEF x
  <1>18. TypeInv'
    <2>1. stale' \in BOOLEAN /\ renders' \in BOOLEAN /\ followed' \in BOOLEAN
      BY <1>1, <1>5, <1>6, ViewIs DEF IInv, TypeInv
    <2>2. phase' \in {"keys", "freeze", "update", "nav", "fetch", "refetch"}
      BY <1>6
    <2>3. a \in MaybeAddr
      BY <1>2 DEF MaybeAddr
    <2>4. QED
      BY <1>3, <1>6, <1>15, <2>1, <2>2, <2>3 DEF IInv, TypeInv, MemoryOK, x
  <1>19. RowsInv'
    <2>1. x.currentAddr # NoAddr
      BY <1>2, <1>15, WordIs DEF NoAddr
    <2>2. QED
      BY <1>3, <1>6, <1>8, <1>15, <2>1 DEF RowsInv, x
  <1>20. EditOK(view)'
    BY <1>6, <1>16 DEF EditOK, EditIn, x
  <1>21. PendingInv'
    BY <1>6, <1>15 DEF IInv, PendingInv, x
  <1>22. PhaseInv'
    <2>1. view.follow => torn' \/ InView(cpu, rs)
      BY DEF rs, a
    <2>2. QED
      BY <1>2, <1>6, <1>15, <2>1 DEF PhaseInv, InView, x
  <1>23. ShownInv'
    <2>1. SelectionShown'
      BY <1>6, <1>17 DEF SelectionShown, VisCount, x
    <2>2. FollowShown'
      BY <1>6, <1>17 DEF FollowShown, FollowIn, InView, x
    <2>3. QED
      BY <1>15, <2>1, <2>2 DEF ShownInv, x
  <1>24. QED
    BY <1>18, <1>19, <1>20, <1>21, <1>22, <1>23 DEF IInv

\* A view whose window starts elsewhere.
At(v, a) == [v EXCEPT !.currentAddr = a]

\* What At leaves of a view.
LEMMA AtIs ==
  ASSUME NEW v \in Views, NEW a \in MaybeAddr
  PROVE  LET w == At(v, a)
         IN  /\ w \in Views /\ w.currentAddr = a /\ w.grid = v.grid /\ w.mode = v.mode /\ w.snapshot = v.snapshot
             /\ w.pendingAddr = v.pendingAddr /\ w.pendingData = v.pendingData /\ w.nav = v.nav
             /\ w.editAddr = v.editAddr /\ w.editText = v.editText /\ w.editBytes = v.editBytes
             /\ w.follow = v.follow /\ w.selectedAddr = v.selectedAddr /\ w.hint = v.hint
  BY DEF At, Views

\* A move that is forgotten.
LEMMA QueueIs ==
  ASSUME NEW v \in Views
  PROVE  LET w == QueueNav(v, "none", 0)
         IN  /\ w \in Views /\ w.currentAddr = v.currentAddr /\ w.grid = v.grid /\ w.mode = v.mode
             /\ w.snapshot = v.snapshot /\ w.pendingAddr = v.pendingAddr /\ w.pendingData = v.pendingData
             /\ w.editAddr = v.editAddr /\ w.editText = v.editText /\ w.editBytes = v.editBytes
             /\ w.follow = v.follow /\ w.selectedAddr = v.selectedAddr /\ w.hint = v.hint
  <1> DEFINE none == "none"
             zero == 0
             w == [v EXCEPT !.nav = none, !.steps = zero]
  <1>1. none \in Navs
    BY DEF Navs
  <1>2. zero \in Int
    BY ONLY FirstAndOne
  <1>3. QueueNav(v, "none", 0) = w
    BY DEF QueueNav
  <1> HIDE DEF none, zero
  <1>4. w \in Views
    BY <1>1, <1>2 DEF Views
  <1>5. /\ w.currentAddr = v.currentAddr /\ w.grid = v.grid /\ w.mode = v.mode
        /\ w.snapshot = v.snapshot /\ w.pendingAddr = v.pendingAddr /\ w.pendingData = v.pendingData
        /\ w.editAddr = v.editAddr /\ w.editText = v.editText /\ w.editBytes = v.editBytes
        /\ w.follow = v.follow /\ w.selectedAddr = v.selectedAddr /\ w.hint = v.hint
    BY DEF Views
  <1> HIDE DEF w
  <1>6. QED
    BY <1>3, <1>4, <1>5

\* The window starts elsewhere, and nothing is shown yet.
LEMMA PlacedKeeps ==
  ASSUME IInv, phase \in {"nav", "fetch"}, phase' \in {"fetch", "refetch"}, NEW v \in Views, view' = v,
         v.grid = view.grid, v.mode = view.mode, v.snapshot = view.snapshot,
         v.pendingAddr = view.pendingAddr, v.pendingData = view.pendingData,
         v.editAddr = view.editAddr, v.editText = view.editText, v.editBytes = view.editBytes,
         v.follow = view.follow, v.selectedAddr = view.selectedAddr, v.hint = view.hint,
         v.currentAddr \in Addresses, addr' \in MaybeAddr, torn' \in BOOLEAN,
         phase' = "refetch" => v.follow /\ InView(cpu, FetchRows(v.currentAddr)),
         UNCHANGED <<mem, program, cpu, rows, height, renders, frozen, confirmed, followed, stale>>
  PROVE  IInv'
  <1>1. /\ mem' = mem /\ program' = program /\ cpu' = cpu /\ rows' = rows /\ height' = height
        /\ renders' = renders /\ frozen' = frozen /\ confirmed' = confirmed /\ followed' = followed
        /\ stale' = stale /\ view' = v
    OBVIOUS
  <1>2. ~frozen
    BY DEF IInv, PhaseInv
  <1>3. v.currentAddr # NoAddr
    BY WordIs DEF NoAddr
  <1>4. TypeInv'
    <2>1. phase' \in {"keys", "freeze", "update", "nav", "fetch", "refetch"}
      OBVIOUS
    <2>2. QED
      BY <1>1, <2>1 DEF IInv, TypeInv, MemoryOK
  <1>5. RowsInv'
    BY <1>1, <1>3 DEF IInv, RowsInv
  <1>6. EditOK(view)'
    BY <1>1 DEF IInv, EditOK
  <1>7. PendingInv'
    BY <1>1 DEF IInv, PendingInv
  <1>8. PhaseInv'
    <2>1. (FetchRows(view.currentAddr))' = FetchRows(v.currentAddr)
      BY <1>1 DEF FetchRows, Read, Byte
    <2>2. phase' = "refetch" => view'.follow /\ InView(cpu, FetchRows(view.currentAddr))'
      BY <1>1, <2>1 DEF InView
    <2>3. QED
      BY <1>1, <1>2, <2>2 DEF PhaseInv
  <1>9. ShownInv'
    <2>1. v.grid.virtual \in Scrolls
      BY DEF IInv, ShownInv
    <2>2. ~renders => SelectionShown /\ FollowShown
      BY <1>2 DEF IInv, ShownInv
    <2>3. ~renders => SelectionShown'
      BY <1>1, <2>2 DEF SelectionShown, VisCount
    <2>4. ~renders => FollowShown'
      BY <1>1, <2>2 DEF FollowShown, ActiveRow, InView
    <2>5. QED
      BY <1>1, <2>1, <2>3, <2>4 DEF ShownInv
  <1>10. QED
    BY <1>4, <1>5, <1>6, <1>7, <1>8, <1>9 DEF IInv

\* A move that waits is tried.
LEMMA ApplyPendingNavKeeps ==
  ASSUME IInv, ApplyPendingNav
  PROVE  IInv'
  <1> DEFINE v == QueueNav(view, "none", 0)
             a == v.currentAddr
             down == MoveDown(a, view.steps)
             to == CASE view.nav = "Home" -> 0
                     [] view.nav = "End" -> FindEndStart
                     [] view.nav = "Down" -> Smaller(down, FindEndStart)
                     [] view.nav = "Up" -> FindPrevStartN(a, view.steps)
             kept == IF view.nav = "Down" THEN At(v, down) ELSE v
  <1>1. phase = "nav"
    BY DEF ApplyPendingNav
  <1>2. PICK outcome \in Outcomes :
           IF outcome = "answered"
           THEN /\ view' = At(v, to) /\ addr' = to /\ phase' = "fetch"
                /\ UNCHANGED <<rows, renders, followed, stale>>
           ELSE Gives(kept)
    BY DEF ApplyPendingNav, At
  <1>3. UNCHANGED <<mem, program, cpu, height, frozen, confirmed, torn>>
    BY DEF ApplyPendingNav, emulatorVars
  <1>4. /\ view \in Views /\ MemoryOK /\ height \in Nat \ {0} /\ rows \in Seq(Instructions)
        /\ view.nav \in Navs /\ view.steps \in Int
    BY InvGives, ViewIs
  <1>5. view.currentAddr \in Addresses /\ view.nav # "none" /\ torn \in BOOLEAN
    BY <1>1 DEF IInv, PhaseInv, TypeInv
  <1>6. /\ v \in Views /\ v.currentAddr = view.currentAddr /\ v.grid = view.grid /\ v.mode = view.mode
        /\ v.snapshot = view.snapshot /\ v.pendingAddr = view.pendingAddr /\ v.pendingData = view.pendingData
        /\ v.editAddr = view.editAddr /\ v.editText = view.editText /\ v.editBytes = view.editBytes
        /\ v.follow = view.follow /\ v.selectedAddr = view.selectedAddr /\ v.hint = view.hint
    BY <1>4, QueueIs
  <1> HIDE DEF v
  <1>7. a \in Addresses
    BY <1>5, <1>6
  <1> HIDE DEF a
  <1>8. down \in Addresses
    BY <1>4, <1>7, MoveDownIs
  <1> HIDE DEF down
  <1>9. to \in Addresses
    <2>1. FindEndStart \in Addresses /\ FindPrevStartN(a, view.steps) \in Addresses
      BY <1>4, <1>7, EndStartIs, PrevStartIs
    <2>2. Smaller(down, FindEndStart) \in Addresses
      BY <1>8, <2>1, SmallerIs
    <2>3. 0 \in Addresses
      BY InWords
    <2>4. view.nav \in {"Home", "End", "Up", "Down"}
      BY <1>4, <1>5 DEF Navs
    <2>5. QED
      BY <2>1, <2>2, <2>3, <2>4
  <1> HIDE DEF to
  <1>10. torn' \in BOOLEAN
    BY <1>3, <1>5
  <1>11. CASE outcome = "answered"
    <2> DEFINE w == At(v, to)
    <2>1. view' = w /\ addr' = to /\ phase' = "fetch" /\ UNCHANGED <<rows, renders, followed, stale>>
      BY <1>2, <1>11
    <2>2. to \in MaybeAddr
      BY <1>9 DEF MaybeAddr
    <2>3. /\ w \in Views /\ w.currentAddr = to /\ w.grid = view.grid /\ w.mode = view.mode
          /\ w.snapshot = view.snapshot /\ w.pendingAddr = view.pendingAddr /\ w.pendingData = view.pendingData
          /\ w.editAddr = view.editAddr /\ w.editText = view.editText /\ w.editBytes = view.editBytes
          /\ w.follow = view.follow /\ w.selectedAddr = view.selectedAddr /\ w.hint = view.hint
      BY <1>6, <2>2, AtIs
    <2> HIDE DEF w
    <2>4. phase \in {"nav", "fetch"} /\ phase' \in {"fetch", "refetch"} /\ phase' # "refetch"
      BY <1>1, <2>1
    <2>5. QED
      BY <1>3, <1>9, <1>10, <2>1, <2>2, <2>3, <2>4, PlacedKeeps
  <1>12. CASE outcome # "answered"
    <2>1. Gives(kept)
      BY <1>2, <1>12
    <2>2. /\ kept \in Views /\ kept.grid = view.grid /\ kept.currentAddr \in Addresses
          /\ kept.mode = view.mode
          /\ kept.snapshot = view.snapshot /\ kept.pendingAddr = view.pendingAddr /\ kept.pendingData = view.pendingData
          /\ kept.editAddr = view.editAddr /\ kept.editText = view.editText /\ kept.editBytes = view.editBytes
      <3>1. down \in MaybeAddr
        BY <1>8 DEF MaybeAddr
      <3>2. QED
        BY <1>6, <1>7, <1>8, <3>1, AtIs DEF a
    <2> HIDE DEF kept
    <2>3. Keeps([view EXCEPT !.currentAddr = kept.currentAddr], kept)
      BY <1>4, <2>2 DEF Keeps, Views
    <2>4. phase \in {"nav", "fetch", "refetch"}
      BY <1>1
    <2>5. QED
      BY <1>3, <1>10, <2>1, <2>2, <2>3, <2>4, GiveKeeps
  <1>13. QED
    BY <1>11, <1>12

\* A read that starts where FollowFrom says has the program counter in view.
LEMMA FollowIs ==
  ASSUME MemoryOK, height \in Nat \ {0}, cpu \in Addresses, NEW a \in Addresses
  PROVE  /\ FollowFrom(a, FetchRows(a)) \in Addresses
         /\ InView(cpu, FetchRows(FollowFrom(a, FetchRows(a))))
  <1> DEFINE rs == FetchRows(a)
             row == FindRow(rs, cpu)
             from == FollowFrom(a, rs)
             us == FetchRows(from)
  <1>1. /\ rs \in Seq(Instructions) /\ Rising(rs) /\ Len(rs) > 0 /\ rs[1].addr = a /\ Len(rs) \in Nat
        /\ \A i \in 1 .. Len(rs) : rs[i] \in Instructions
    BY FetchIs, InSeq
  <1>2. row = NoRow \/ (row \in 0 .. Len(rs) - 1 /\ rs[row + 1].addr = cpu)
    BY <1>1, FindRowIs
  <1>3. /\ \/ from = cpu
           \/ row >= height /\ row # NoRow /\ from = rs[row - height + 2].addr
           \/ row < height /\ row # NoRow /\ from = a
    <2>1. row # NoRow => row \in Int
      BY <1>1, <1>2
    <2> HIDE DEF rs
    <2>2. row # NoRow => row >= height \/ row < height
      BY <2>1
    <2>3. cpu < a \/ cpu >= a
      BY WordIs
    <2>4. from = CASE cpu < a \/ row = NoRow -> cpu
                   [] cpu >= a /\ row >= height -> rs[row - height + 2].addr
                   [] OTHER -> a
      BY DEF FollowFrom
    <2> HIDE DEF row, from
    <2>5. CASE cpu < a \/ row = NoRow
      <3>1. ~(cpu >= a /\ row >= height)
        BY WordIs, <2>5 DEF NoRow
      <3>2. from = cpu
        BY ONLY <2>4, <2>5, <3>1
      <3>3. QED
        BY ONLY <3>2
    <2>6. CASE ~(cpu < a) /\ row # NoRow /\ row >= height
      <3>1. from = rs[row - height + 2].addr
        BY ONLY <2>3, <2>4, <2>6
      <3>2. QED
        BY ONLY <2>6, <3>1
    <2>7. CASE ~(cpu < a) /\ row # NoRow /\ row < height
      <3>1. ~(row >= height)
        BY ONLY <2>1, <2>7, height \in Nat \ {0}
      <3>2. from = a
        BY ONLY <2>4, <2>7, <3>1
      <3>3. QED
        BY ONLY <2>7, <3>2
    <2>8. QED
      BY ONLY <2>2, <2>5, <2>6, <2>7
  <1> HIDE DEF rs, row, from
  <1>4. CASE from = cpu
    <2>1. us \in Seq(Instructions) /\ Rising(us) /\ Len(us) > 0 /\ us[1].addr = cpu
      BY <1>4, FetchIs
    <2>2. Len(us) \in Nat
      BY <2>1, InSeq
    <2> HIDE DEF us
    <2>3. FindRow(us, cpu) = 1 - 1
      BY <2>1, <2>2, FindRowIs
    <2>4. InView(cpu, us)
      BY <2>3 DEF InView
    <2>5. QED
      BY <1>4, <2>4 DEF us, from, rs
  <1>5. CASE row >= height /\ row # NoRow /\ from = rs[row - height + 2].addr
    <2> DEFINE k == row - height + 2
               r == row + 1
               n == r - k + 1
    <2>1. k \in 1 .. Len(rs) /\ r \in 1 .. Len(rs) /\ k <= r /\ r - k < height /\ n = height /\ rs[r].addr = cpu
      <3>1. row \in 0 .. Len(rs) - 1 /\ rs[row + 1].addr = cpu
        BY <1>2, <1>5
      <3> DEFINE last == Len(rs)
      <3>2. last \in Nat
        BY <1>1
      <3>3. row \in 0 .. last - 1
        BY <3>1
      <3> HIDE DEF last, row
      <3>4. k \in 1 .. last /\ r \in 1 .. last /\ k <= r /\ r - k < height /\ n = height
        BY ONLY <1>5, <3>2, <3>3, height \in Nat \ {0} DEF k, r, n
      <3>5. QED
        BY ONLY <3>1, <3>4 DEF last, r
    <2> HIDE DEF k, r
    <2>2. from = rs[k].addr /\ from \in Addresses
      BY <1>1, <1>5, <2>1, InstructionIs DEF k
    <2>3. n <= Len(us) /\ us[n].addr = rs[r].addr
      <3>1. LET xs == FetchRows(FetchRows(a)[k].addr)
            IN  r - k + 1 <= Len(xs) /\ xs[r - k + 1].addr = FetchRows(a)[r].addr
        BY <2>1, Resumes DEF rs
      <3>2. QED
        BY <2>2, <3>1 DEF rs
    <2>4. us \in Seq(Instructions) /\ Rising(us) /\ Len(us) \in Nat
      BY <2>2, FetchIs, InSeq
    <2> HIDE DEF us, n
    <2>5. n \in 1 .. Len(us) /\ us[n].addr = cpu
      BY <2>1, <2>3, <2>4
    <2>6. FindRow(us, cpu) = n - 1
      BY <2>4, <2>5, FindRowIs
    <2>7. InView(cpu, us)
      BY <2>1, <2>6 DEF InView
    <2>8. QED
      BY <2>2, <2>7 DEF us, from, rs
  <1>6. CASE row < height /\ row # NoRow /\ from = a
    <2>1. row \in 0 .. height - 1
      BY <1>1, <1>2, <1>6
    <2>2. us = rs
      BY <1>6 DEF rs
    <2>3. QED
      BY <1>6, <2>1, <2>2 DEF InView, us, row, rs, from
  <1>7. QED
    BY <1>3, <1>4, <1>5, <1>6

\* The first read of an update.
LEMMA FetchKeeps ==
  ASSUME IInv, Fetch
  PROVE  IInv'
  <1> DEFINE a == view.currentAddr
             rs == FetchRows(a)
             from == IF view.follow THEN FollowFrom(a, rs) ELSE a
             v == At(view, from)
  <1>1. phase = "fetch" /\ torn' = FALSE
    BY DEF Fetch
  <1>2. PICK outcome \in Outcomes :
           \/ Gives(view)
           \/ from = a /\ Finishes(view, rs)
           \/ from # a /\ view' = v /\ phase' = "refetch" /\ UNCHANGED <<rows, addr, renders, followed, stale>>
    <2>1. PICK outcome \in Outcomes \ {"lost"} :
             CASE outcome = "refused" -> Gives(view)
               [] outcome = "answered" /\ from = view.currentAddr -> Finishes(view, rs)
               [] OTHER -> /\ view' = [view EXCEPT !.currentAddr = from] /\ phase' = "refetch"
                           /\ UNCHANGED <<rows, addr, renders, followed, stale>>
      BY DEF Fetch
    <2>2. outcome \in {"answered", "refused"}
      BY DEF Outcomes
    <2> HIDE DEF from, rs
    <2>3. QED
      BY <2>1, <2>2 DEF At
  <1>3. UNCHANGED <<mem, program, cpu, height, frozen, confirmed>>
    BY DEF Fetch, emulatorVars
  <1>4. /\ view \in Views /\ MemoryOK /\ height \in Nat \ {0} /\ cpu \in Addresses
    BY InvGives
  <1>5. a \in Addresses
    BY <1>1 DEF IInv, PhaseInv
  <1>6. FollowFrom(a, rs) \in Addresses /\ InView(cpu, FetchRows(FollowFrom(a, rs)))
    BY <1>4, <1>5, FollowIs
  <1> HIDE DEF rs
  <1>7. from \in Addresses /\ (view.follow => InView(cpu, FetchRows(from))) /\ (from # a => view.follow)
    BY <1>5, <1>6
  <1> HIDE DEF from
  <1>8. torn' \in BOOLEAN
    BY <1>1
  <1>9. CASE Gives(view)
    <2>1. Keeps([view EXCEPT !.currentAddr = view.currentAddr], view)
      BY <1>4 DEF Keeps, Views
    <2>2. phase \in {"nav", "fetch", "refetch"}
      BY <1>1
    <2>3. QED
      BY <1>3, <1>4, <1>5, <1>8, <1>9, <2>1, <2>2, GiveKeeps
  <1>10. CASE from = a /\ Finishes(view, rs)
    <2>1. view.follow => InView(cpu, FetchRows(view.currentAddr))
      BY <1>7, <1>10
    <2>2. phase \in {"fetch", "refetch"} /\ Finishes(view, FetchRows(view.currentAddr))
      BY <1>1, <1>10 DEF rs
    <2>3. QED
      BY <1>3, <1>8, <2>1, <2>2, FinishKeeps
  <1>11. CASE from # a /\ view' = v /\ phase' = "refetch" /\ UNCHANGED <<rows, addr, renders, followed, stale>>
    <2>1. from \in MaybeAddr /\ addr \in MaybeAddr
      BY <1>7, InvGives DEF MaybeAddr
    <2>2. /\ v \in Views /\ v.currentAddr = from /\ v.grid = view.grid /\ v.mode = view.mode
          /\ v.snapshot = view.snapshot /\ v.pendingAddr = view.pendingAddr /\ v.pendingData = view.pendingData
          /\ v.editAddr = view.editAddr /\ v.editText = view.editText /\ v.editBytes = view.editBytes
          /\ v.follow = view.follow /\ v.selectedAddr = view.selectedAddr /\ v.hint = view.hint
      BY <1>4, <2>1, AtIs
    <2>3. view' = v /\ addr' \in MaybeAddr /\ UNCHANGED <<rows, renders, followed, stale>>
      BY <1>11, <2>1
    <2>4. phase \in {"nav", "fetch"} /\ phase' \in {"fetch", "refetch"}
      BY <1>1, <1>11
    <2> HIDE DEF v, a
    <2>5. v.follow /\ InView(cpu, FetchRows(v.currentAddr))
      BY <1>7, <1>11, <2>2
    <2>6. QED
      BY <1>3, <1>7, <1>8, <2>2, <2>3, <2>4, <2>5, PlacedKeeps
  <1>12. QED
    BY <1>2, <1>9, <1>10, <1>11

\* The second.
LEMMA RefetchKeeps ==
  ASSUME IInv, Refetch
  PROVE  IInv'
  <1>1. phase = "refetch" /\ UNCHANGED <<mem, program, cpu, height, frozen, confirmed, torn>>
    BY DEF Refetch, emulatorVars
  <1>2. Gives(view) \/ Finishes(view, FetchRows(view.currentAddr))
    BY DEF Refetch
  <1>3. view \in Views
    BY InvGives
  <1>4. view.currentAddr \in Addresses /\ torn \in BOOLEAN /\ (torn \/ InView(cpu, FetchRows(view.currentAddr)))
    BY <1>1 DEF IInv, PhaseInv, TypeInv
  <1>5. torn' \in BOOLEAN /\ torn' = torn
    BY <1>1, <1>4
  <1>6. CASE Gives(view)
    <2>1. Keeps([view EXCEPT !.currentAddr = view.currentAddr], view)
      BY <1>3 DEF Keeps, Views
    <2>2. phase \in {"nav", "fetch", "refetch"} /\ UNCHANGED <<mem, program, cpu, height, frozen, confirmed>>
      BY <1>1
    <2>3. QED
      BY <1>3, <1>4, <1>5, <1>6, <2>1, <2>2, GiveKeeps
  <1>7. CASE Finishes(view, FetchRows(view.currentAddr))
    <2>1. phase \in {"fetch", "refetch"} /\ UNCHANGED <<mem, program, cpu, height, frozen, confirmed>>
      BY <1>1
    <2>2. view.follow => torn' \/ InView(cpu, FetchRows(view.currentAddr))
      BY <1>4, <1>5
    <2>3. QED
      BY <1>5, <1>7, <2>1, <2>2, FinishKeeps
  <1>8. QED
    BY <1>2, <1>6, <1>7

\* The grid of a window that was never rendered.
LEMMA NewGridIs ==
  ASSUME NEW h \in Nat
  PROVE  NewGrid(h, TRUE, 19) \in Grids
  <1> DEFINE rs == <<>>
             zero == 0
             on == TRUE
             off == FALSE
             lines == 19
             none == <<>>
             nv == NoView
             ns == NoScroll
             nr == NoRow
             g == [rows |-> rs, ih |-> h, offset |-> zero, selected |-> nr, highlighted |-> nr,
                   selectable |-> on, editable |-> lines, editing |-> off, editRow |-> zero,
                   editValue |-> none, view |-> nv, virtual |-> ns]
  <1>1. /\ rs \in Seq(Instructions) /\ zero \in Int /\ on \in {TRUE} /\ off \in BOOLEAN /\ lines \in {19}
        /\ nr \in Int
    BY DEF NoRow
  <1>2. none \in Statements \cup {<<>>} /\ nv \in {NoView} /\ ns \in Scrolls \cup {NoScroll}
    OBVIOUS
  <1>3. NewGrid(h, TRUE, 19) = g
    BY DEF NewGrid
  <1> HIDE DEF rs, zero, on, off, lines, none, nv, ns, nr
  <1>4. g \in Grids
    BY <1>1, <1>2 DEF Grids
  <1>5. QED
    BY <1>3, <1>4

\* A window that was never updated.
LEMMA NewViewerIs ==
  ASSUME height \in Nat \ {0}
  PROVE  /\ NewViewer \in Views /\ NewViewer.mode = "" /\ NewViewer.currentAddr = NoAddr
         /\ NewViewer.snapshot = <<>> /\ NewViewer.pendingData = <<>>
  <1> DEFINE on == TRUE
             off == FALSE
             mode == ""
             na == NoAddr
             nr == NoRow
             buffer == <<>>
             data == <<>>
             snap == <<>>
             move == "none"
             zero == 0
             nt == NoText
             g == NewGrid(height, TRUE, 19)
             v == [follow |-> on, mode |-> mode, selectedAddr |-> na, hint |-> nr,
                   buffer |-> buffer, fresh |-> off, before |-> na,
                   currentAddr |-> na, snapshot |-> snap, nav |-> move, steps |-> zero,
                   pendingAddr |-> na, pendingData |-> data,
                   editAddr |-> na, editSnapshot |-> nt, editText |-> nt, editBytes |-> data,
                   grid |-> g]
  <1>1. /\ on \in BOOLEAN /\ off \in BOOLEAN /\ mode \in {"", "addr", "edit"} /\ data \in Seq(Bytes)
        /\ zero \in Int
    OBVIOUS
  <1>2. na \in MaybeAddr /\ nr \in Int
    BY DEF MaybeAddr, NoRow
  <1>3. buffer \in Buffers /\ move \in Navs
    BY DEF Buffers, Navs
  <1>4. snap \in {<<>>} \cup Snapshots
    OBVIOUS
  <1>5. nt \in Statements /\ g \in Grids
    BY NoTextIs, NewGridIs
  <1>6. NewViewer = v
    BY DEF NewViewer
  <1> HIDE DEF on, off, mode, na, nr, buffer, data, snap, move, zero, nt, g
  <1>7. v \in Views
    BY <1>1, <1>2, <1>3, <1>4, <1>5 DEF Views
  <1>8. v.mode = mode /\ v.currentAddr = na /\ v.snapshot = snap /\ v.pendingData = data
    OBVIOUS
  <1> HIDE DEF v
  <1>9. QED
    BY <1>6, <1>7, <1>8 DEF mode, na, snap, data

\* The invariant holds at the start.
LEMMA InitKeeps ==
  ASSUME Init
  PROVE  IInv
  <1> DEFINE v == NewViewer
             rs == <<>>
             w == Rendered(v, rs, cpu, height)
  <1>1. /\ program \in Programs /\ mem = program.mem /\ cpu \in program.pcs /\ height \in Heights
        /\ addr = NoAddr
    BY DEF Init
  <1>2. /\ rows = rs /\ view = w /\ phase = "keys"
        /\ ~renders /\ ~frozen /\ ~torn /\ ~followed /\ ~stale
    BY DEF Init
  <1>3. /\ renders \in BOOLEAN /\ frozen \in BOOLEAN /\ torn \in BOOLEAN /\ followed \in BOOLEAN
        /\ stale \in BOOLEAN
    BY DEF Init
  <1>4. height \in Nat \ {0} /\ cpu \in Addresses /\ MemoryOK
    BY <1>1, BoundsAssumption, ProgramsAssumption DEF MemoryOK, Bytes
  <1>5. rs \in Seq(Instructions) /\ Rising(rs) /\ Len(rs) = 0
    BY DEF Rising
  <1>6. /\ v \in Views /\ v.mode = "" /\ v.currentAddr = NoAddr /\ v.snapshot = <<>> /\ v.pendingData = <<>>
    BY <1>4, NewViewerIs
  <1> HIDE DEF v, rs
  <1>7. /\ v.mode # "edit"
        /\ v.mode = "edit" => v.editAddr \in Addresses /\ v.editBytes = AssembleOne(v.editAddr, v.editText)
    BY <1>6
  <1>8. /\ w \in Views /\ Same(v, w) /\ EditIn(w, rs)
        /\ w.grid.rows = rs /\ w.grid.ih = height /\ w.grid.offset = 0 /\ w.grid.virtual \in Scrolls
        /\ w.grid.highlighted = ActiveRow(w, rs, cpu)
    <2>1. v \in Views /\ rs \in Seq(Instructions) /\ Rising(rs)
      BY <1>5, <1>6
    <2>2. v.mode = "edit" => v.editAddr \in Addresses /\ v.editBytes = AssembleOne(v.editAddr, v.editText)
      BY <1>7
    <2>3. height \in Nat \ {0} /\ cpu \in Addresses
      BY <1>4
    <2>4. QED
      BY ONLY <2>1, <2>2, <2>3, ShowsIs
  <1> HIDE DEF w
  <1>9. addr \in MaybeAddr
    BY <1>1 DEF MaybeAddr
  <1>10. TypeInv
    BY <1>1, <1>2, <1>3, <1>4, <1>5, <1>8, <1>9 DEF TypeInv
  <1>11. RowsInv
    <2>1. Rising(rows) /\ \A k \in 1 .. Len(rows) : Cut(rows[k]) => k = Len(rows) /\ (stale \/ k > height)
      BY <1>2, <1>5
    <2>2. view.snapshot = <<>>
      BY <1>2, <1>6, <1>8 DEF Same
    <2>3. view.currentAddr = NoAddr => rows = <<>>
      BY <1>2 DEF rs
    <2>4. view.grid.rows = rows /\ view.grid.ih = height
      BY <1>2, <1>8
    <2>5. QED
      BY <2>1, <2>2, <2>3, <2>4 DEF RowsInv
  <1>12. EditOK(view)
    BY <1>2, <1>8 DEF EditOK, EditIn
  <1>13. PendingInv
    BY <1>2, <1>6, <1>8 DEF PendingInv, Same
  <1>14. PhaseInv
    <2>1. w.mode # "edit"
      BY <1>7, <1>8 DEF Same
    <2>2. QED
      BY <1>2, <2>1 DEF PhaseInv
  <1>15. ShownInv
    <2>1. SelectionShown
      BY <1>2, <1>8 DEF SelectionShown, rs
    <2>2. ~InView(cpu, rows)
      <3>1. FindRow(rs, cpu) = NoRow
        <4>1. \/ FindRow(rs, cpu) = NoRow
              \/ FindRow(rs, cpu) \in 0 .. Len(rs) - 1
          BY <1>5, FindRowIs
        <4>2. QED
          BY <1>5, <4>1
      <3>2. QED
        BY <1>2, <3>1 DEF InView, NoRow
    <2>3. FollowShown
      BY <1>2, <1>8, <2>2 DEF FollowShown
    <2>4. view.grid.virtual \in Scrolls
      BY <1>2, <1>8
    <2>5. QED
      BY <2>1, <2>3, <2>4 DEF ShownInv
  <1>16. QED
    BY <1>10, <1>11, <1>12, <1>13, <1>14, <1>15 DEF IInv

\* A step that changes nothing keeps it.
LEMMA StutterKeeps ==
  ASSUME IInv, UNCHANGED vars
  PROVE  IInv'
  <1>1. UNCHANGED <<mem, program, cpu, rows, addr, height, view, phase, renders, frozen, confirmed, torn, followed, stale>>
    BY DEF vars, emulatorVars, stateVars, historyVars
  <1>2. TypeInv'
    BY <1>1 DEF IInv, TypeInv, MemoryOK
  <1>3. RowsInv'
    BY <1>1 DEF IInv, RowsInv
  <1>4. EditOK(view)'
    BY <1>1 DEF IInv, EditOK, FindRow
  <1>5. PendingInv'
    BY <1>1 DEF IInv, PendingInv
  <1>6. PhaseInv'
    BY <1>1 DEF IInv, PhaseInv, InView, FindRow, FetchRows, Read, Byte
  <1>7. ShownInv'
    BY <1>1 DEF IInv, ShownInv, SelectionShown, VisCount, FollowShown, InView, FindRow, ActiveRow
  <1>8. QED
    BY <1>2, <1>3, <1>4, <1>5, <1>6, <1>7 DEF IInv

\* Every step keeps it.
LEMMA NextKeeps ==
  ASSUME IInv, [Next]_vars
  PROVE  IInv'
  <1>1. CASE FollowKey
    BY <1>1, FollowKeyKeeps
  <1>2. CASE OpenAddress
    BY <1>2, OpenAddressKeeps
  <1>3. CASE OpenEdit
    BY <1>3, OpenEditKeeps
  <1>4. CASE ToggleFreeze
    BY <1>4, ToggleFreezeKeeps
  <1>5. CASE Resize
    BY <1>5, ResizeKeeps
  <1>6. ASSUME NEW key \in NavigationKeys, MoveKey(key) \/ MoveInGrid(key)
        PROVE  IInv'
    BY <1>6, MoveKeyKeeps, MoveInGridKeeps
  <1>7. ASSUME NEW key \in Digits \cup {Backspace}, TypeAddress(key)
        PROVE  IInv'
    BY <1>7, TypeAddressKeeps
  <1>8. ASSUME NEW key \in {"Esc", "Enter"}, CloseAddress(key) \/ CloseEdit(key)
        PROVE  IInv'
    BY <1>8, CloseAddressKeeps, CloseEditKeeps
  <1>9. ASSUME NEW text \in Texts, TypeInRow(text)
        PROVE  IInv'
    BY <1>9, TypeInRowKeeps
  <1>10. CASE EmulatorRuns
    BY <1>10, EmulatorRunsKeeps
  <1>11. CASE BeginUpdate
    BY <1>11, BeginUpdateKeeps
  <1>12. CASE ApplyPendingNav
    BY <1>12, ApplyPendingNavKeeps
  <1>13. CASE Fetch
    BY <1>13, FetchKeeps
  <1>14. CASE Refetch
    BY <1>14, RefetchKeeps
  <1>15. CASE RenderFrozen
    BY <1>15, RenderFrozenKeeps
  <1>16. CASE UNCHANGED vars
    BY <1>16, StutterKeeps
  <1>17. QED
    BY ONLY <1>1, <1>2, <1>3, <1>4, <1>5, <1>6, <1>7, <1>8, <1>9, <1>10, <1>11, <1>12, <1>13, <1>14, <1>15,
            <1>16, [Next]_vars DEF Next

\* The invariant holds in every state of the window.
THEOREM Invariance == Spec => []IInv
  <1>1. Init => IInv
    BY InitKeeps
  <1>2. IInv /\ [Next]_vars => IInv'
    BY NextKeeps
  <1>3. QED
    BY <1>1, <1>2, PTL DEF Spec

(***************************************************************************)
(* What the invariant says.                                                *)
(***************************************************************************)

\* What is confirmed unchanged is assembled to what it was.
LEMMA Reassembles ==
  ASSUME IInv
  PROVE  ReassemblesTheSame
  <1>1. /\ rows \in Seq(Instructions) /\ height \in Nat \ {0}
    BY InvGives
  <1>2. /\ \A k \in 1 .. Len(rows) : Cut(rows[k]) => k = Len(rows) /\ (stale \/ k > height)
        /\ view.mode = "edit" => view.editBytes = AssembleOne(view.editAddr, view.editText)
    BY DEF IInv, RowsInv, EditOK
  <1> SUFFICES ASSUME NEW i \in 1 .. VisCount, view.mode = "edit",
                      view.editAddr = rows[i].addr, view.editText = Statement(rows[i])
               PROVE  LET ins == rows[i]
                          op == ins.raw[1]
                          short == \E zp \in Opcodes : /\ MnemonicOf[zp] = MnemonicOf[op]
                                                      /\ <<ModeOf[zp], ModeOf[op]>> \in
                                                           {<<"zpg", "abs">>, <<"zpx", "abx">>, <<"zpy", "aby">>}
                          around == ModeOf[op] = "rel" /\ ins.addr + 2 + Signed(ins.raw[2]) \notin Addresses
                          cut == Size(ins) < ModeSize[ModeOf[op]]
                      IN  \/ view.editBytes = ins.raw
                          \/ cut /\ stale /\ i = Len(rows)
                          \/ around /\ view.editBytes = <<>>
                          \/ /\ short /\ Size(ins) = 3 /\ ins.raw[3] = 0
                             /\ Len(view.editBytes) = 2 /\ view.editBytes[2] = ins.raw[2]
    BY DEF ReassemblesTheSame
  <1> DEFINE ins == rows[i]
             raw == ins.raw
             op == raw[1]
             bytes == view.editBytes
  <1>3. i \in 1 .. Len(rows) /\ i <= height
    BY <1>1, InSeq DEF VisCount, Smaller
  <1>4. ins \in Instructions
    BY <1>1, <1>3, InSeq
  <1>5. ins.addr \in Addresses /\ raw \in Raws /\ ins = DecodedInstruction(ins.addr, raw)
        /\ Size(ins) <= ModeSize[ModeOf[op]] /\ Size(ins) \in 1 .. 3
    BY <1>4, InstructionIs
  <1>6. bytes = AssembleOne(ins.addr, Statement(ins))
    BY <1>2
  <1>7. ModeOf[op] \in Modes /\ ModeSize[ModeOf[op]] \in Nat
    BY <1>5, BytesOf, ModesAre
  <1>8. CASE Size(ins) < ModeSize[ModeOf[op]]
    <2>1. Cut(ins)
      BY <1>8 DEF Cut
    <2>2. i = Len(rows) /\ (stale \/ i > height)
      BY <1>2, <1>3, <2>1
    <2>3. stale
      BY <1>1, <1>3, <2>2
    <2>4. QED
      BY <1>8, <2>2, <2>3
  <1>9. CASE Size(ins) = ModeSize[ModeOf[op]]
    <2> DEFINE a == ins.addr
    <2>1. Len(raw) = ModeSize[ModeOf[raw[1]]]
      BY <1>9 DEF Size
    <2> HIDE DEF a, raw
    <2>2. ins = DecodedInstruction(a, raw)
      BY <1>5 DEF a, raw
    <2>3. LET b == AssembleOne(a, Statement(DecodedInstruction(a, raw)))
          IN  b = raw \/ (LeavesMemory(a, raw) /\ b = <<>>) \/ Shortened(raw, b)
      BY <1>5, <2>1, RoundTrip DEF a, raw
    <2>4. bytes = raw \/ (LeavesMemory(a, raw) /\ bytes = <<>>) \/ Shortened(raw, bytes)
      BY <1>6, <2>2, <2>3 DEF a
    <2>5. QED
      BY <2>4 DEF LeavesMemory, Shortened, a, raw, Size
  <1>10. QED
    BY <1>5, <1>7, <1>8, <1>9

\* Products grow with their factors.
LEMMA Multiples ==
  ASSUME NEW K \in Nat, K > 0, NEW i \in Int, NEW j \in Int, i <= j
  PROVE  i * K <= j * K
  OBVIOUS

\* A quotient of numbers is one.
LEMMA QuotientIs ==
  ASSUME NEW K \in Nat, K > 0, NEW L \in Nat
  PROVE  L \div K \in Nat /\ (L \div K) * K <= L
  <1> DEFINE q == L \div K
             m == L % K
  <1>1. q \in Int /\ q >= 0 /\ m \in Int /\ 0 <= m
    OBVIOUS
  <1>2. L = K * q + m
    OBVIOUS
  <1> HIDE DEF q, m
  <1>3. K * q = q * K /\ q * K \in Int
    BY <1>1
  <1>4. q * K <= L
    BY <1>1, <1>2, <1>3
  <1>5. QED
    BY <1>1, <1>4 DEF q

\* A part of K of r, of no more than all its parts, is no more than r.
LEMMA PartOf ==
  ASSUME NEW K \in Nat, K > 0, NEW o \in Nat, o <= K, NEW r \in Nat
  PROVE  (o * r) \div K \in Nat /\ (o * r) \div K <= r
  <1> DEFINE L == o * r
             q == L \div K
  <1>1. L \in Nat
    OBVIOUS
  <1>2. L <= K * r
    <2>1. CASE r = 0
      BY <2>1
    <2>2. CASE r > 0
      BY <2>2, Multiples
    <2>3. QED
      BY <2>1, <2>2
  <1>3. K * r = r * K /\ r * K \in Int /\ (r + 1) * K = r * K + K
    OBVIOUS
  <1> HIDE DEF L
  <1>4. q \in Nat /\ q * K <= L
    BY <1>1, QuotientIs
  <1> HIDE DEF q
  <1>5. q * K \in Int
    BY <1>4
  <1>6. CASE q >= r + 1
    <2>1. (r + 1) * K <= q * K
      BY <1>4, <1>6, Multiples
    <2>2. QED
      BY <1>1, <1>2, <1>3, <1>4, <1>5, <2>1
  <1>7. CASE q <= r
    BY <1>4, <1>7 DEF q, L
  <1>8. QED
    BY <1>4, <1>6, <1>7

\* The thumb of a bar that stands for something is on the bar.
LEMMA ThumbIs ==
  ASSUME NEW g \in Grids, g.virtual \in Scrolls, g.ih > 0
  PROVE  LET thumb == Thumb(g)
         IN  thumb.top >= 0 /\ thumb.h > 0 /\ thumb.top + thumb.h <= g.ih
  <1> DEFINE s == g.virtual
             vh == g.ih
             part == AtLeast(1, (vh * s.page) \div s.total)
             h == Min({vh, part})
             D == AtLeast(1, s.total - s.page)
             top == (s.offset * (vh - h)) \div D
  <1>1. ViewH(g) = vh /\ vh \in Nat /\ vh > 0
    BY GridIs
  <1>2. /\ s.total \in Int /\ s.page \in Int /\ s.offset \in Int
        /\ 1 <= s.page /\ s.page <= s.total /\ 0 <= s.offset /\ s.offset + s.page <= s.total
    BY DEF Scrolls
  <1>3. s # NoScroll
    <2>1. NoScroll.page = 0
      BY DEF NoScroll
    <2>2. QED
      BY <1>2, <2>1
  <1>4. Thumb(g) = [h |-> h, top |-> top]
    BY <1>1, <1>3 DEF Thumb, ScrollbarMetrics
  <1> HIDE DEF s
  <1>5. part \in Nat /\ part > 0
    <2>1. vh * s.page \in Nat
      BY <1>1, <1>2
    <2> DEFINE L == vh * s.page
    <2> HIDE DEF L
    <2>2. L \div s.total \in Nat
      BY <1>2, <2>1, QuotientIs DEF L
    <2>3. QED
      BY <2>2 DEF AtLeast, L
  <1>6. D \in Nat /\ D > 0 /\ s.offset \in Nat /\ s.offset <= D
    BY <1>2 DEF AtLeast
  <1> HIDE DEF part, D
  <1>7. h \in Nat /\ h > 0 /\ h <= vh
    <2>1. {vh, part} \in SUBSET Nat /\ {vh, part} # {}
      BY <1>1, <1>5
    <2>2. h \in {vh, part} /\ \A y \in {vh, part} : h <= y
      BY <2>1, MinIs
    <2> HIDE DEF h
    <2>3. h = vh \/ h = part
      BY <2>2
    <2>4. h <= vh
      BY <2>2
    <2>5. QED
      BY <1>1, <1>5, <2>3, <2>4
  <1> HIDE DEF h
  <1>8. top \in Nat /\ top <= vh - h
    <2> DEFINE r == vh - h
    <2>1. r \in Nat
      BY <1>1, <1>7
    <2> HIDE DEF r
    <2>2. (s.offset * r) \div D \in Nat /\ (s.offset * r) \div D <= r
      BY <1>6, <2>1, PartOf
    <2>3. QED
      BY <2>2 DEF r
  <1> HIDE DEF top
  <1>9. Thumb(g).h = h /\ Thumb(g).top = top
    BY <1>4
  <1>10. h > 0 /\ top >= 0 /\ top + h <= vh
    BY <1>1, <1>7, <1>8
  <1>11. QED
    BY <1>9, <1>10

\* Between two iterations the window shows the program.
LEMMA Shown ==
  ASSUME IInv
  PROVE  ShowsTheProgram
  <1> SUFFICES ASSUME phase = "keys"
               PROVE  /\ FollowsPC
                      /\ view.grid.rows = rows
                      /\ rows # <<>> => view.grid.selected \in 0 .. VisCount - 1
                      /\ view.grid.offset = 0
                      /\ view.grid.editing => /\ rows[view.grid.editRow + 1].addr = view.editAddr
                                              /\ view.grid.editValue = view.editText
                      /\ LET thumb == Thumb(view.grid)
                         IN  rows # <<>> => thumb.top >= 0 /\ thumb.h > 0 /\ thumb.top + thumb.h <= height
    BY DEF ShowsTheProgram
  <1>1. /\ rows \in Seq(Instructions) /\ Rising(rows) /\ height \in Nat \ {0} /\ view \in Views
        /\ view.grid.rows = rows /\ view.grid.ih = height
    BY InvGives
  <1>2. SelectionShown /\ view.grid.virtual \in Scrolls /\ (followed => FollowShown)
    BY DEF IInv, PhaseInv, ShownInv
  <1>3. followed /\ ~torn => view.follow /\ InView(cpu, rows)
    BY DEF IInv, PhaseInv
  <1>4. view.grid.editing => /\ view.grid.editRow = FindRow(rows, view.editAddr) /\ view.grid.editRow # NoRow
                             /\ view.grid.editValue = view.editText
    BY DEF IInv, EditOK
  <1>5. FollowsPC
    BY <1>2, <1>3 DEF FollowsPC, FollowShown, InView
  <1>6. view.grid.editing => rows[view.grid.editRow + 1].addr = view.editAddr
    <2>1. FindRow(rows, view.editAddr) # NoRow => rows[FindRow(rows, view.editAddr) + 1].addr = view.editAddr
      BY <1>1, FindRowIs
    <2>2. QED
      BY <1>4, <2>1
  <1>7. LET thumb == Thumb(view.grid)
        IN  thumb.top >= 0 /\ thumb.h > 0 /\ thumb.top + thumb.h <= height
    <2> DEFINE g == view.grid
    <2>1. g \in Grids /\ g.virtual \in Scrolls /\ g.ih > 0
      <3>1. view.grid \in Grids
        BY ONLY <1>1, ViewIs
      <3>2. view.grid.ih > 0
        BY ONLY <1>1
      <3>3. QED
        BY <1>2, <3>1, <3>2
    <2> HIDE DEF g
    <2>2. LET thumb == Thumb(g)
          IN  thumb.top >= 0 /\ thumb.h > 0 /\ thumb.top + thumb.h <= g.ih
      BY <2>1, ThumbIs
    <2>3. QED
      BY <1>1, <2>2 DEF g
  <1>8. QED
    BY <1>1, <1>2, <1>4, <1>5, <1>6, <1>7 DEF SelectionShown

\* What a step writes was confirmed.
SendsConfirmed ==
  written' # written =>
    /\ confirmed # NoEdit
    /\ written'.count = written.count + 1
    /\ written'.addr = confirmed.addr
    /\ written'.data = AssembleOne(confirmed.addr, confirmed.text)

\* An update writes the edit that was confirmed, or nothing.
LEMMA BeginUpdateSends ==
  ASSUME IInv, BeginUpdate
  PROVE  SendsConfirmed
  <1> SUFFICES ASSUME written' # written
               PROVE  SendsConfirmed
    BY DEF SendsConfirmed
  <1> DEFINE n == written.count + 1
  <1>1. view.pendingData # <<>>
        /\ written' = [addr |-> view.pendingAddr, data |-> view.pendingData, count |-> n]
    BY DEF BeginUpdate
  <1>2. /\ confirmed # NoEdit /\ view.pendingAddr = confirmed.addr
        /\ view.pendingData = AssembleOne(confirmed.addr, confirmed.text)
    BY <1>1 DEF IInv, PendingInv
  <1> HIDE DEF n
  <1>3. written'.count = n /\ written'.addr = view.pendingAddr /\ written'.data = view.pendingData
    BY <1>1
  <1>4. QED
    BY <1>2, <1>3 DEF SendsConfirmed, n

\* No other step writes.
LEMMA NextSends ==
  ASSUME IInv, [Next]_vars
  PROVE  SendsConfirmed
  <1>1. CASE FollowKey \/ OpenAddress \/ OpenEdit \/ ToggleFreeze \/ RenderFrozen \/ Resize
    BY <1>1 DEF FollowKey, OpenAddress, OpenEdit, ToggleFreeze, RenderFrozen, Resize, Pressed, historyVars, SendsConfirmed
  <1>2. ASSUME NEW key, MoveKey(key) \/ MoveInGrid(key) \/ TypeAddress(key) \/ CloseAddress(key) \/ CloseEdit(key)
        PROVE  SendsConfirmed
    BY <1>2 DEF MoveKey, MoveInGrid, TypeAddress, CloseAddress, CloseEdit, Pressed, SendsConfirmed
  <1>3. ASSUME NEW text, TypeInRow(text)
        PROVE  SendsConfirmed
    BY <1>3 DEF TypeInRow, Pressed, SendsConfirmed
  <1>4. CASE EmulatorRuns
    BY <1>4 DEF EmulatorRuns, SendsConfirmed
  <1>5. CASE BeginUpdate
    BY <1>5, BeginUpdateSends
  <1>6. CASE ApplyPendingNav \/ Fetch \/ Refetch
    BY <1>6 DEF ApplyPendingNav, Fetch, Refetch, SendsConfirmed
  <1>7. CASE UNCHANGED vars
    BY <1>7 DEF vars, historyVars, SendsConfirmed
  <1>8. QED
    BY ONLY <1>1, <1>2, <1>3, <1>4, <1>5, <1>6, <1>7, [Next]_vars DEF Next

\* An instruction that Enter opens and Enter confirms again stays what it is, but for the
\* three exceptions ReassemblesTheSame names (assemble.go:207-282 against disasm.go:134-204).
THEOREM StaysTheSame == Spec => []ReassemblesTheSame
  <1>1. IInv => ReassemblesTheSame
    BY Reassembles
  <1>2. QED
    BY Invariance, <1>1, PTL

\* The window has the program counter in view when it follows, shows the rows of State()
\* and what is typed into one of them, and its bar is inside of it (disassembly.go:124-151).
THEOREM WindowShowsTheProgram == Spec => []ShowsTheProgram
  <1>1. IInv => ShowsTheProgram
    BY Shown
  <1>2. QED
    BY Invariance, <1>1, PTL

\* The emulator gets the bytes of the confirmed statement, at its address and once
\* (disassembly.go:418-434, 644-664).
THEOREM SendsWhatWasConfirmed == Spec => WritesWhatWasConfirmed
  <1>1. IInv /\ [Next]_vars => [SendsConfirmed]_vars
    BY NextSends
  <1>2. Spec => [][SendsConfirmed]_vars
    BY Invariance, <1>1, PTL DEF Spec
  <1>3. QED
    BY <1>2 DEF WritesWhatWasConfirmed, SendsConfirmed
==============================================================================
