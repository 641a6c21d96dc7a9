------------------------------ MODULE Assembler ------------------------------
(***************************************************************************)
(* internal/disasm: the table of 6502 opcodes, the disassembler            *)
(* (disasm.go) and the assembler (assemble.go) as operators.  A statement  *)
(* is a mnemonic and an operand; an operand is the notation it is written  *)
(* in, the values written and the digits of each, which is what printing   *)
(* and parsing tell apart.                                                 *)
(***************************************************************************)
EXTENDS Integers, Sequences

NoTarget == -1
Word == 65536
Addresses == 0 .. Word - 1
Wrap(addr) == addr % Word
WordOf(lo, hi) == lo + 256 * hi
Signed(byte) == IF byte > 127 THEN byte - 256 ELSE byte

opMnemonic == <<
    "BRK", "ORA", "???", "???", "???", "ORA", "ASL", "???", "PHP", "ORA", "ASL", "???", "???", "ORA", "ASL", "???",
    "BPL", "ORA", "???", "???", "???", "ORA", "ASL", "???", "CLC", "ORA", "???", "???", "???", "ORA", "ASL", "???",
    "JSR", "AND", "???", "???", "BIT", "AND", "ROL", "???", "PLP", "AND", "ROL", "???", "BIT", "AND", "ROL", "???",
    "BMI", "AND", "???", "???", "???", "AND", "ROL", "???", "SEC", "AND", "???", "???", "???", "AND", "ROL", "???",
    "RTI", "EOR", "???", "???", "???", "EOR", "LSR", "???", "PHA", "EOR", "LSR", "???", "JMP", "EOR", "LSR", "???",
    "BVC", "EOR", "???", "???", "???", "EOR", "LSR", "???", "CLI", "EOR", "???", "???", "???", "EOR", "LSR", "???",
    "RTS", "ADC", "???", "???", "???", "ADC", "ROR", "???", "PLA", "ADC", "ROR", "???", "JMP", "ADC", "ROR", "???",
    "BVS", "ADC", "???", "???", "???", "ADC", "ROR", "???", "SEI", "ADC", "???", "???", "???", "ADC", "ROR", "???",
    "???", "STA", "???", "???", "STY", "STA", "STX", "???", "DEY", "???", "TXA", "???", "STY", "STA", "STX", "???",
    "BCC", "STA", "???", "???", "STY", "STA", "STX", "???", "TYA", "STA", "TXS", "???", "???", "STA", "???", "???",
    "LDY", "LDA", "LDX", "???", "LDY", "LDA", "LDX", "???", "TAY", "LDA", "TAX", "???", "LDY", "LDA", "LDX", "???",
    "BCS", "LDA", "???", "???", "LDY", "LDA", "LDX", "???", "CLV", "LDA", "TSX", "???", "LDY", "LDA", "LDX", "???",
    "CPY", "CMP", "???", "???", "CPY", "CMP", "DEC", "???", "INY", "CMP", "DEX", "???", "CPY", "CMP", "DEC", "???",
    "BNE", "CMP", "???", "???", "???", "CMP", "DEC", "???", "CLD", "CMP", "???", "???", "???", "CMP", "DEC", "???",
    "CPX", "SBC", "???", "???", "CPX", "SBC", "INC", "???", "INX", "SBC", "NOP", "???", "CPX", "SBC", "INC", "???",
    "BEQ", "SBC", "???", "???", "???", "SBC", "INC", "???", "SED", "SBC", "???", "???", "???", "SBC", "INC", "???" >>

opMode == <<
    "imp", "inx", "imp", "imp", "imp", "zpg", "zpg", "imp", "imp", "imm", "acc", "imp", "imp", "abs", "abs", "imp",
    "rel", "iny", "imp", "imp", "imp", "zpx", "zpx", "imp", "imp", "aby", "imp", "imp", "imp", "abx", "abx", "imp",
    "abs", "inx", "imp", "imp", "zpg", "zpg", "zpg", "imp", "imp", "imm", "acc", "imp", "abs", "abs", "abs", "imp",
    "rel", "iny", "imp", "imp", "imp", "zpx", "zpx", "imp", "imp", "aby", "imp", "imp", "imp", "abx", "abx", "imp",
    "imp", "inx", "imp", "imp", "imp", "zpg", "zpg", "imp", "imp", "imm", "acc", "imp", "abs", "abs", "abs", "imp",
    "rel", "iny", "imp", "imp", "imp", "zpx", "zpx", "imp", "imp", "aby", "imp", "imp", "imp", "abx", "abx", "imp",
    "imp", "inx", "imp", "imp", "imp", "zpg", "zpg", "imp", "imp", "imm", "acc", "imp", "ind", "abs", "abs", "imp",
    "rel", "iny", "imp", "imp", "imp", "zpx", "zpx", "imp", "imp", "aby", "imp", "imp", "imp", "abx", "abx", "imp",
    "imp", "inx", "imp", "imp", "zpg", "zpg", "zpg", "imp", "imp", "imp", "imp", "imp", "abs", "abs", "abs", "imp",
    "rel", "iny", "imp", "imp", "zpx", "zpx", "zpy", "imp", "imp", "aby", "imp", "imp", "imp", "abx", "imp", "imp",
    "imm", "inx", "imm", "imp", "zpg", "zpg", "zpg", "imp", "imp", "imm", "imp", "imp", "abs", "abs", "abs", "imp",
    "rel", "iny", "imp", "imp", "zpx", "zpx", "zpy", "imp", "imp", "aby", "imp", "imp", "abx", "abx", "aby", "imp",
    "imm", "inx", "imp", "imp", "zpg", "zpg", "zpg", "imp", "imp", "imm", "imp", "imp", "abs", "abs", "abs", "imp",
    "rel", "iny", "imp", "imp", "imp", "zpx", "zpx", "imp", "imp", "aby", "imp", "imp", "imp", "abx", "abx", "imp",
    "imm", "inx", "imp", "imp", "zpg", "zpg", "zpg", "imp", "imp", "imm", "imp", "imp", "abs", "abs", "abs", "imp",
    "rel", "iny", "imp", "imp", "imp", "zpx", "zpx", "imp", "imp", "aby", "imp", "imp", "imp", "abx", "abx", "imp" >>

Opcodes == 0 .. 255
MnemonicOf == [op \in Opcodes |-> opMnemonic[op + 1]]
ModeOf == [op \in Opcodes |-> opMode[op + 1]]
Unknown == {op \in Opcodes : MnemonicOf[op] = "???"}

OneByte == {"imp", "acc"}
TwoBytes == {"imm", "inx", "iny", "rel", "zpg", "zpx", "zpy"}
ThreeBytes == {"abs", "abx", "aby", "ind"}
Modes == OneByte \cup TwoBytes \cup ThreeBytes
ModeSize == [mode \in Modes |-> IF mode \in OneByte THEN 1 ELSE IF mode \in TwoBytes THEN 2 ELSE 3]

(***************************************************************************)
(* The disassembler.                                                       *)
(***************************************************************************)
Operand(form, digits, value) == [form |-> form, digits |-> digits, values |-> <<value>>]
Bare(form) == [form |-> form, digits |-> 0, values |-> <<>>]

\* formatOperand: what is printed, and the address it is about; bytes that are
\* missing count as 0.
FormatOperand(mode, pc, raw) ==
    LET byte(i) == IF i <= Len(raw) THEN raw[i] ELSE 0
        word == WordOf(byte(2), byte(3))
        at(form, digits, value) == <<Operand(form, digits, value), value>>
    IN  CASE mode = "imp" -> <<Bare("none"), NoTarget>>
          [] mode = "acc" -> <<Bare("A"), NoTarget>>
          [] mode = "imm" -> <<Operand("#", 2, byte(2)), NoTarget>>
          [] mode = "abs" -> at("mem", 4, word)
          [] mode = "abx" -> at("mem,X", 4, word)
          [] mode = "aby" -> at("mem,Y", 4, word)
          [] mode = "ind" -> at("(mem)", 4, word)
          [] mode = "rel" -> at("mem", 4, Wrap(pc + 2 + Signed(byte(2))))
          [] mode = "zpg" -> at("mem", 2, byte(2))
          [] mode = "zpx" -> at("mem,X", 2, byte(2))
          [] mode = "zpy" -> at("mem,Y", 2, byte(2))
          [] mode = "inx" -> at("(mem,X)", 2, byte(2))
          [] mode = "iny" -> at("(mem),Y", 2, byte(2))

flowMnemonics == {"JMP", "JSR", "BCC", "BCS", "BEQ", "BMI", "BNE", "BPL", "BVC", "BVS", "BRA"}

\* raw are the bytes of the instruction that could be read.
DecodedInstruction(pc, raw) ==
    LET op == raw[1]
        mn == IF op \in Unknown THEN ".DB" ELSE MnemonicOf[op]
        written == IF op \in Unknown THEN <<Operand("data", 2, op), NoTarget>>
                                     ELSE FormatOperand(ModeOf[op], pc, raw)
    IN  [addr |-> pc, raw |-> raw, mnemonic |-> mn, operand |-> written[1],
         target |-> IF mn \in flowMnemonics THEN written[2] ELSE NoTarget]

\* Decode: the instructions from startAddr on, the last one as far as data goes.
Decode(startAddr, data) ==
    LET end(i) == LET e == i + ModeSize[ModeOf[data[i]]] - 1 IN IF e > Len(data) THEN Len(data) ELSE e
        from[i \in 1 .. Len(data) + 1] ==
            IF i > Len(data) THEN <<>>
            ELSE <<DecodedInstruction(Wrap(startAddr + i - 1), SubSeq(data, i, end(i)))>>
                 \o from[end(i) + 1]
    IN  from[1]

Size(ins) == Len(ins.raw)
Statement(ins) == [mnemonic |-> ins.mnemonic, operand |-> ins.operand]

(***************************************************************************)
(* The assembler: the bytes of a statement, none for one it refuses.       *)
(***************************************************************************)
Refused == <<>>

\* asmOpcodesByMnemonic: the first opcode of a mnemonic and a mode counts.
asmOpcodesByMnemonic ==
    [mn \in {MnemonicOf[op] : op \in Opcodes \ Unknown} |->
        LET ops == {op \in Opcodes : MnemonicOf[op] = mn}
        IN  [mode \in {ModeOf[op] : op \in ops} |->
                CHOOSE op \in ops : ModeOf[op] = mode /\ \A p \in ops : ModeOf[p] = mode => op <= p]]

isDataMnemonic(mn) == mn \in {".DB", "DB", ".BYTE", "BYTE"}

\* parseAsmOperand: the notation decides on the mode, but for an address, which may
\* be one of the zero page; digits are not looked at.
Forms == {"none", "A", "#", "(mem,X)", "(mem),Y", "(mem)", "mem", "mem,X", "mem,Y"}
ParsedMode ==
    [form \in Forms |->
        CASE form = "none" -> "imp" [] form = "A" -> "acc" [] form = "#" -> "imm"
          [] form = "(mem,X)" -> "inx" [] form = "(mem),Y" -> "iny" [] form = "(mem)" -> "ind"
          [] form = "mem" -> "mem" [] form = "mem,X" -> "memx" [] form = "mem,Y" -> "memy"]

ByteModes == {"imm", "inx", "iny"}

\* Mutant: an address becomes one of the zero page whatever its value.
ResolveAsmOpcode_NoRange(modes, mode, value) ==
    LET of(zp, ab) == IF zp \in modes THEN {zp} ELSE {ab} \cap modes
    IN  CASE mode = "mem" ->
                 IF modes # {"rel"} /\ of("zpg", "abs") # {} THEN of("zpg", "abs") ELSE {"rel"} \cap modes
          [] mode = "memx" -> of("zpx", "abx")
          [] mode = "memy" -> of("zpy", "aby")
          [] OTHER -> {mode} \cap modes

\* resolveAsmOpcode: the mode taken of those the mnemonic has, if any.
ResolveAsmOpcode(modes, mode, value) ==
    LET of(zp, ab) == IF value <= 255 /\ zp \in modes THEN {zp} ELSE {ab} \cap modes
    IN  CASE mode = "mem" ->
                 IF modes # {"rel"} /\ of("zpg", "abs") # {} THEN of("zpg", "abs") ELSE {"rel"} \cap modes
          [] mode = "memx" -> of("zpx", "abx")
          [] mode = "memy" -> of("zpy", "aby")
          [] OTHER -> {mode} \cap modes

\* encodeAsmInstruction: a branch around the end of memory is out of range.
EncodeAsmInstruction(opcode, mode, value, addr) ==
    LET delta == value - addr - 2
    IN  CASE mode = "rel" -> IF delta \in -128 .. 127 THEN <<opcode, delta % 256>> ELSE Refused
          [] mode # "rel" /\ ModeSize[mode] = 1 -> <<opcode>>
          [] mode # "rel" /\ ModeSize[mode] = 2 -> <<opcode, value % 256>>
          [] OTHER -> <<opcode, value % 256, value \div 256>>

AssembleOne(addr, stmt) ==
    LET text == stmt.operand
        value == IF text.values = <<>> THEN 0 ELSE text.values[1]
        mode == ParsedMode[text.form]
        ops == asmOpcodesByMnemonic[stmt.mnemonic]
        accepted == stmt.mnemonic \in DOMAIN asmOpcodesByMnemonic /\ text.form \in Forms
                    /\ (mode \in ByteModes => value <= 255)
        as == ResolveAsmOpcode(DOMAIN ops, mode, value)
        m == CHOOSE x \in as : TRUE
    IN  CASE isDataMnemonic(stmt.mnemonic) ->
                 IF \A i \in DOMAIN text.values : text.values[i] <= 255 THEN text.values ELSE Refused
          [] ~isDataMnemonic(stmt.mnemonic) /\ accepted /\ as # {} ->
                 EncodeAsmInstruction(ops[m], m, value, addr)
          [] OTHER -> Refused
==============================================================================
