-------------------------- MODULE MCScreenWindows --------------------------
(* ScreenWindows with display lists whose lines wrap, overlap, are contained *)
(* in each other, lack an address or an operand, and differ only inside.     *)
EXTENDS ScreenWindows

MCLists ==
    LET list(bytes, dmactl, hw) == [start |-> 1000, bytes |-> bytes, dmactl |-> dmactl, hw |-> hw]
    IN  {list(<<112, 72, 250, 255, 8, 65, 232, 3>>, 1, 0),
         list(<<72, 0, 1, 8, 8, 9, 1, 0, 4, 9, 65, 232, 3>>, 1, 0),
         list(<<72, 0, 1, 8, 9, 9, 1, 0, 4, 9, 65, 232, 3>>, 1, 0),
         list(<<72, 0, 1, 8, 65, 232, 3>>, 1, 0),
         list(<<72, 8, 1, 88, 4, 1, 0, 8, 88, 0, 2, 72, 1, 2, 65, 232, 3>>, 0, 1),
         list(<<112, 8, 72, 5>>, 0, 0)}
==============================================================================
