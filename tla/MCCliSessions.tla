---------------------------- MODULE MCCliSessions ----------------------------
(* CliSessions with expressions that have every spelling of an operator, both *)
(* words, a value of two bytes, mistakes and a clause that is too long.       *)
EXTENDS CliSessions

MCTexts ==
    {<<Name("pc"), Char("="), Number("4", 513)>>,
     <<Mem(258), Char("<"), Char("="), Number("2", 7), And,
       Name("x"), Char("!"), Char("="), Number("2", 1), Or, Name("write"), Char(">"), Number("4", 513)>>,
     <<Name("a"), Char(">"), Char("="), Number("2", 1), Or>>,
     <<Char("="), Name("pc"), Char("<"), Number("2", 1)>>,
     FoldLeft(LAMBDA text, n : text \o <<And, Name("y"), Char("="), Number("2", n)>>,
              <<Name("y"), Char("="), Number("2", 0)>>, [n \in 1 .. MaxConditions |-> n])}

\* What a text means, and what is no text.
ASSUME ConditionExamples ==
    /\ ParseBPCondition(<<Name("a"), Char("<"), Char(">"), Number("2", 1)>>) = <<Condition(2, 4, 0, 1)>>
    /\ ParseBPCondition(<<Mem(258), Char("="), Char("="), Number("2", 7)>>) = <<Condition(9, 3, 258, 7)>>
    /\ ParseBPCondition(<<Name("a"), Char("<")>>) = Refused
    /\ ParseBPCondition(<<Name("a"), Char("<"), Number("other", 65536)>>) = Refused
    /\ ParseBPCondition(<<Mem(65536), Char("<"), Number("2", 1)>>) = Refused
    /\ ParseBPCondition(<<Char("="), Name("pc"), Char("="), Number("2", 1)>>) = Refused
==============================================================================
