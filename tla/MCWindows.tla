------------------------------ MODULE MCWindows ------------------------------
EXTENDS Windows

\* "b" is the name of 9 and part of that of 5, "c" is a number.
MCNames == 5 :> <<"a", "b", " ", "c">> @@ 9 :> <<"b">>

\* Words in any order, the mark of a comment, and a number of several digits.
ASSUME SearchExamples ==
    /\ FindSymbolOrAddress(<<"c", " ", " ", "a">>) = 5
    /\ FindSymbolOrAddress(<<" ", ";", "b", " ">>) = 9
    /\ FindSymbolOrAddress(<<"a", "b">>) = 5
    /\ FindSymbolOrAddress(<<"1", "f">>) = 31
    /\ FindSymbolOrAddress(<<"1", " ", "f">>) = NoAddr
==============================================================================
