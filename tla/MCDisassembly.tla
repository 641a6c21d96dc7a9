---------------------------- MODULE MCDisassembly ----------------------------
EXTENDS Disassembly

Memory(a, data) == [b \in {Wrap(a + i - 1) : i \in DOMAIN data} |-> data[((b - a) % 65536) + 1]]

\* LDA #0, STA $0601, BNE back, JMP $0600: a program that changes itself.
Code == Memory(1536, <<169, 0, 141, 1, 6, 208, 249, 76, 0, 6>>)
Changing == {[addr |-> 1538, value |-> 255], [addr |-> 1536, value |-> 0]}

\* Every opcode, with operands in and out of the zero page, also at the end of memory.
OneInstruction ==
    {[mem |-> Memory(a, <<op, operand[1], operand[2]>>), pcs |-> {a}, keys |-> {"Enter"}, presses |-> 2, changes |-> {}] :
        op \in Opcodes, operand \in {<<5, 0>>, <<128, 6>>}, a \in {1536, 65534}}

MovedAround ==
    [mem |-> Code, pcs |-> {1536}, changes |-> {}, presses |-> 4,
     keys |-> {"Home", "End", "Up", "Down", "PageUp", "PageDown"}]

Followed ==
    [mem |-> Code, pcs |-> {1536, 1543}, changes |-> Changing, presses |-> 3, keys |-> {"f", "Down", "resize"}]

GoneTo ==
    [mem |-> Code, pcs |-> {1536, 1543}, changes |-> {}, presses |-> 4,
     keys |-> {"/", "digit", "Backspace", "Esc", "Enter", "Down"}]

Edited ==
    [mem |-> Code, pcs |-> {1536}, changes |-> Changing, presses |-> 6,
     keys |-> {"Enter", "Esc", "text", "Down", "freeze"}]

\* A row whose bytes were not all read is seen and edited when the window has grown.
Grown ==
    [mem |-> Code, pcs |-> {1536}, changes |-> {}, presses |-> 5,
     keys |-> {"Enter", "Down", "resize", "freeze"}]

MCPrograms == OneInstruction \cup {MovedAround, Followed, GoneTo, Edited, Grown}

MCTexts == {[mnemonic |-> "JMP", operand |-> Operand("mem", 4, 1536)],
            [mnemonic |-> "LD", operand |-> Bare("none")]}
==============================================================================
