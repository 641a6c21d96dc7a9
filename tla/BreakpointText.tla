---------------------------- MODULE BreakpointText ----------------------------
(***************************************************************************)
(* Breakpoint clauses as they are written (a800mon/breakpoints.go) and as  *)
(* they travel (BPAddClause and BPList of internal/rpc/client.go).  A text *)
(* is a sequence of tokens: the characters of an operator one by one, the  *)
(* other words as a whole.  A clause is a sequence of conditions, all of   *)
(* which must hold; an expression is a sequence of clauses.                *)
(***************************************************************************)
EXTENDS Integers, Sequences, SequencesExt, TLC

Word == 65536
Words == 0 .. Word - 1

Token(kind, name, value) == [kind |-> kind, name |-> name, value |-> value]
Char(c) == Token("op", c, 0)
Name(n) == Token("name", n, 0)
Mem(a) == Token("mem", "", a)         \* mem[addr], mem:addr
Number(digits, v) == Token("number", digits, v)
And == Token("word", "&&", 0)         \* also the word AND, and OR below
Or == Token("word", "||", 0)

bpTypeNames == <<"pc", "a", "x", "y", "s", "read", "write", "access">>
MemType == 9

Symbols == {"<", "=", ">", "!"}
\* All that is written, "other" for what has no meaning; a number is "2" or "4" digits wide.
Spellings ==
    Symbols \cup {bpTypeNames[t] : t \in DOMAIN bpTypeNames}
            \cup {"", "type", "op", "&&", "||", "2", "4", "other"}
Tokens == [kind : {"op", "name", "mem", "number", "word"}, name : Spellings, value : Nat]

bpOpNames == << <<"<">>, <<"<", "=">>, <<"=", "=">>, <<"<", ">">>, <<">", "=">>, <<">">> >>

\* splitBPExpression looks for them in this order; two have a second spelling.
bpOpIDs == << <<<<"<", "=">>, 2>>, <<<<">", "=">>, 5>>, <<<<"=", "=">>, 3>>, <<<<"<", ">">>, 4>>,
              <<<<"!", "=">>, 4>>, <<<<"=">>, 3>>, <<<<"<">>, 1>>, <<<<">">>, 6>> >>

Chars(op) == [i \in DOMAIN op |-> Char(op[i])]
Refused == <<>>
Condition(type, op, a, value) == [type |-> type, op |-> op, addr |-> a, value |-> value]

\* Where an operator is in a text.
Occurs(text, op) ==
    {i \in 1 .. Len(text) - Len(op) + 1 : SubSeq(text, i, i + Len(op) - 1) = Chars(op)}

First(S) == CHOOSE x \in S : \A y \in S : x <= y

\* splitBPExpression: the operators in a text.  One that is also at the very beginning is
\* passed over.
Found(text) ==
    {k \in DOMAIN bpOpIDs : LET at == Occurs(text, bpOpIDs[k][1]) IN at # {} /\ 1 \notin at}

\* What is left and right of an operator.
Sides(text, op) ==
    LET at == First(Occurs(text, op))
    IN  <<SubSeq(text, 1, at - 1), SubSeq(text, at + Len(op), Len(text))>>

\* The rest of ParseBPCondition: a sequence of at most one condition.  What a side names or tells.
NamedBy(side) == {t \in DOMAIN bpTypeNames : side = <<Name(bpTypeNames[t])>>}
Tells(side, kind) == Len(side) = 1 /\ side[1].kind = kind /\ side[1].value \in Words

Compared(left, op, right) ==
    IF ~Tells(right, "number") THEN Refused
    ELSE IF NamedBy(left) # {}
    THEN <<Condition(First(NamedBy(left)), op, 0, right[1].value)>>
    ELSE IF Tells(left, "mem")
    THEN <<Condition(MemType, op, left[1].value, right[1].value)>>
    ELSE Refused

ParseBPCondition(text) ==
    IF Found(text) = {} THEN Refused
    ELSE LET op == bpOpIDs[First(Found(text))]
             sides == Sides(text, op[1])
         IN  Compared(sides[1], op[2], sides[2])

\* strings.Split of a text at one of the two words: a token ends a part or is added to it.
SplitStep(parts, token, word) ==
    IF token = word THEN Append(parts, <<>>)
    ELSE [parts EXCEPT ![Len(parts)] = Append(@, token)]

SplitAt(text, word) ==
    LET parts[i \in 0 .. Len(text)] ==
            IF i = 0 THEN << <<>> >> ELSE SplitStep(parts[i - 1], text[i], word)
    IN  parts[Len(text)]

\* ParseBPClauses: all of them, or none.
ParseBPClauses(text) ==
    LET raw == SplitAt(text, Or)
        parsed == [i \in DOMAIN raw |->
                      LET parts == SplitAt(raw[i], And)
                      IN  [j \in DOMAIN parts |-> ParseBPCondition(parts[j])]]
    IN  IF \E i \in DOMAIN parsed : \E j \in DOMAIN parsed[i] : parsed[i][j] = Refused THEN Refused
        ELSE [i \in DOMAIN parsed |-> [j \in DOMAIN parsed[i] |-> parsed[i][j][1]]]

\* FormatBPCondition; a register is written with two digits.
FormatBPCondition(cond) ==
    LET left == CASE cond.type = MemType -> Mem(cond.addr)
                  [] cond.type \in DOMAIN bpTypeNames -> Name(bpTypeNames[cond.type])
                  [] OTHER -> Name("type")
        op == IF cond.op \in DOMAIN bpOpNames THEN Chars(bpOpNames[cond.op]) ELSE <<Name("op")>>
    IN  <<left>> \o op \o <<Number(IF cond.type \in 2 .. 5 THEN "2" ELSE "4", cond.value)>>

\* strings.Join.
Joined(texts, word) ==
    LET line[i \in 0 .. Len(texts)] ==
            IF i = 0 THEN <<>>
            ELSE IF i = 1 THEN texts[1] ELSE Append(line[i - 1], word) \o texts[i]
    IN  line[Len(texts)]

\* A line of cmdBPList and of the breakpoints window.
FormatClause(clause) == Joined([i \in DOMAIN clause |-> FormatBPCondition(clause[i])], And)

(***************************************************************************)
(* The wire.                                                               *)
(***************************************************************************)
Word16(v) == <<v % 256, (v \div 256) % 256>>
Value16(data, at) == data[at] + 256 * data[at + 1]

\* Records of six bytes, one behind the other.
Packed(records) ==
    [k \in 1 .. 6 * Len(records) |-> records[(k - 1) \div 6 + 1][((k - 1) % 6) + 1]]

\* Mutant: the bytes of a value are swapped.
ConditionBytes_Swapped(cond) ==
    <<cond.type, cond.op>> \o Word16(cond.addr) \o Reverse(Word16(cond.value))

ConditionBytes(cond) == <<cond.type, cond.op>> \o Word16(cond.addr) \o Word16(cond.value)

\* BPAddClause: index FFFF appends.
AddClausePayload(clause) ==
    Word16(Word - 1) \o <<Len(clause), 0>> \o Packed([i \in DOMAIN clause |-> ConditionBytes(clause[i])])

ConditionAt(data, at) ==
    Condition(data[at], data[at + 1], Value16(data, at + 2), Value16(data, at + 4))

\* BPList: what is behind the header, clause by clause; none of it when it is too short.
DecodeClause(p, data) ==
    LET n == data[p.at]
        end == p.at + 2 + n * 6
    IN  IF p.short \/ p.at + 1 > Len(data) THEN [p EXCEPT !.short = TRUE]
        ELSE IF end - 1 > Len(data) THEN [p EXCEPT !.short = TRUE]
        ELSE [at |-> end,
              clauses |-> Append(p.clauses,
                  [j \in 1 .. n |-> ConditionAt(data, p.at + 2 + (j - 1) * 6)]),
              short |-> FALSE]

DecodedList(data) ==
    LET from[i \in 0 .. Value16(data, 2)] ==
            IF i = 0 THEN [at |-> 4, clauses |-> <<>>, short |-> FALSE]
            ELSE DecodeClause(from[i - 1], data)
        all == from[Value16(data, 2)]
    IN  IF all.short THEN <<>> ELSE all.clauses

\* What the emulator makes of it (external).
ServerClause(payload) ==
    [j \in 1 .. payload[3] |-> ConditionAt(payload, 5 + (j - 1) * 6)]

ServerBytes(c) == <<c.type, c.op>> \o Word16(c.addr) \o Word16(c.value)

ServerClauses(table) ==
    LET data[i \in 0 .. Len(table)] ==
            IF i = 0 THEN <<>>
            ELSE data[i - 1] \o <<Len(table[i]), 0>>
                 \o Packed([j \in DOMAIN table[i] |-> ServerBytes(table[i][j])])
    IN  data[Len(table)]

ServerList(enabled, table) ==
    <<IF enabled THEN 1 ELSE 0>> \o Word16(Len(table)) \o ServerClauses(table)
==============================================================================
