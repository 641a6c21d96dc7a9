---------------------------- MODULE SymbolSearch ----------------------------
(***************************************************************************)
(* internal/memorymap/search.go and atari/memorymap.go: the address that a *)
(* line of text stands for, by the names of the memory map first and as a  *)
(* hexadecimal number else.  A text is a sequence of characters in lower   *)
(* case, which is what both sides of the comparison are turned into.       *)
(***************************************************************************)
EXTENDS Integers, Sequences, SequencesExt, FiniteSetsExt

CONSTANT Names          \* the symbols: a function from addresses to their names

NoAddr == -1
HexDigits == <<"0", "1", "2", "3", "4", "5", "6", "7", "8", "9", "a", "b", "c", "d", "e", "f">>

\* A line without the mark of a comment at its beginning.
Query(text) ==
    LET first == SelectInSeq(text, LAMBDA c : c # " ")
    IN  IF first # 0 /\ text[first] = ";" THEN SubSeq(text, first + 1, Len(text)) ELSE text

Blank(query) == \A i \in DOMAIN query : query[i] = " "

\* The words of a query.
Terms(query) ==
    LET words == FoldLeft(LAMBDA ws, c : IF c = " " THEN Append(ws, <<>>)
                                         ELSE [ws EXCEPT ![Len(ws)] = Append(@, c)],
                          << <<>> >>, query)
    IN  SelectSeq(words, LAMBDA w : w # <<>>)

Holds(name, term) ==
    \E i \in 0 .. Len(name) - Len(term) : SubSeq(name, i + 1, i + Len(term)) = term

Lowest(addrs) == IF addrs = {} THEN NoAddr ELSE Min(addrs)

\* One word: the same name before one that begins with it before one that holds
\* it; more words: a name that holds them all.  The lowest address of each.
FindByComment(terms) ==
    LET all     == {a \in DOMAIN Names : \A t \in ToSet(terms) : Holds(Names[a], t)}
        exact   == {a \in all : Names[a] = terms[1]}
        prefix  == {a \in all : IsPrefix(terms[1], Names[a])}
    IN  CASE terms = <<>>                       -> NoAddr
          [] Len(terms) = 1 /\ exact # {}       -> Lowest(exact)
          [] Len(terms) = 1 /\ exact = {} /\ prefix # {} -> Lowest(prefix)
          [] OTHER                              -> Lowest(all)

\* memory.ParseHex of one to four digits.
HexAddr(digits) == FoldLeft(LAMBDA n, c : 16 * n + SelectInSeq(HexDigits, LAMBDA d : d = c) - 1, 0, digits)

FindSymbolOrAddress(text) ==
    LET terms == Terms(Query(text))
        found == FindByComment(terms)
    IN  CASE Blank(Query(text)) -> NoAddr
          [] ~Blank(Query(text)) /\ found # NoAddr -> found
          [] /\ ~Blank(Query(text)) /\ found = NoAddr
             /\ Len(terms) = 1 /\ Len(terms[1]) <= 4
             /\ ToSet(terms[1]) \subseteq ToSet(HexDigits) -> HexAddr(terms[1])
          [] OTHER -> NoAddr
==============================================================================
