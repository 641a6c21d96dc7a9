-------------------------- MODULE CliSessionsProofs --------------------------
(***************************************************************************)
(* What holds of the trainer, of the debug shell and of the breakpoint     *)
(* commands for every range of addresses, all bytes, expressions and       *)
(* numbers, and any number of commands, failures and changes of the        *)
(* emulator: TLAPS proofs of the invariants of CliSessions.                *)
(*                                                                         *)
(* The first part is about the operators of BreakpointText: a breakpoint   *)
(* expression that is written and read again, and a clause that travels to *)
(* the emulator and back, are what they were, for every expression and     *)
(* every table.  The second is the invariant and its steps.                *)
(***************************************************************************)
EXTENDS CliSessions, SequenceTheorems, WellFoundedInduction, TLAPS

\* A condition, as it is parsed and as it travels; a clause has at least one.
Conditions ==
  {c \in [type : 1 .. 9, op : 1 .. 6, addr : Words, value : Words] :
      c.type # MemType => c.addr = 0}
Clauses == Seq(Conditions) \ {<<>>}

(***************************************************************************)
(* Numbers, loops and sequences.                                           *)
(***************************************************************************)

\* A set of natural numbers that is not empty has a least one.
LEMMA LeastOf ==
  ASSUME NEW S \in SUBSET Nat, S # {}
  PROVE  \E x \in S : \A y \in S : x <= y
  <1> DEFINE R == {ss \in Nat \X Nat : ss[1] < ss[2]}
  <1>1. IsWellFoundedOn(R, Nat)
    BY NatLessThanWellFounded DEF OpToRel
  <1>2. PICK x \in S : \A y \in S : <<y, x>> \notin R
    BY <1>1, WFMin
  <1>3. \A y \in S : x <= y
    <2> TAKE y \in S
    <2>1. x \in Nat /\ y \in Nat /\ <<y, x>> \in Nat \X Nat
      BY <1>2
    <2>2. <<y, x>>[1] = y /\ <<y, x>>[2] = x
      OBVIOUS
    <2>3. ~(y < x)
      BY <1>2, <2>1, <2>2
    <2>4. QED
      BY <2>1, <2>3
  <1>4. QED
    BY <1>3

\* Induction up to n, on the set of numbers for which something holds.
LEMMA UpTo ==
  ASSUME NEW n \in Nat, NEW G \in SUBSET Nat, 0 \in G, \A i \in 1 .. n : i - 1 \in G => i \in G
  PROVE  0 .. n \subseteq G
  <1> DEFINE B == {i \in 0 .. n : i \notin G}
  <1>1. ASSUME B # {} PROVE FALSE
    <2>1. B \in SUBSET Nat
      OBVIOUS
    <2>2. PICK x \in B : \A y \in B : x <= y
      BY <1>1, <2>1, LeastOf
    <2>3. x \in 1 .. n /\ x \notin G
      OBVIOUS
    <2>4. x - 1 \in 0 .. n /\ x - 1 \notin B
      BY <2>2, <2>3
    <2>5. QED
      BY <2>3, <2>4
  <1>2. QED
    BY <1>1

\* Every sequence is in a set that has the empty one in it and, with a sequence, that sequence
\* and one element more.
LEMMA OneMore ==
  ASSUME NEW X, NEW G \in SUBSET Seq(X), <<>> \in G,
         \A u \in G : \A x \in X : Append(u, x) \in G
  PROVE  Seq(X) \subseteq G
  <1> SUFFICES ASSUME NEW s \in Seq(X) PROVE s \in G
    OBVIOUS
  <1> DEFINE n == Len(s)
             H == {i \in 0 .. n : SubSeq(s, 1, i) \in G}
  <1>1. n \in Nat /\ \A i \in 1 .. n : s[i] \in X
    BY LenProperties, ElementOfSeq
  <1> HIDE DEF n
  <1>2. 0 \in H
    <2>1. SubSeq(s, 1, 0) = <<>>
      <3>1. 1 \in Int /\ 0 \in Int /\ 0 < 1
        OBVIOUS
      <3>2. QED
        BY <3>1, SubSeqEmpty
    <2>2. SubSeq(s, 1, 0) \in G
      BY ONLY <2>1, <<>> \in G
    <2>4. 0 \in 0 .. n
      BY <1>1
    <2>3. QED
      BY <2>2, <2>4
  <1>3. ASSUME NEW i \in 1 .. n, i - 1 \in H PROVE i \in H
    <2> DEFINE u == SubSeq(s, 1, i - 1)
               v == SubSeq(s, 1, i)
    <2>1. u \in G /\ s[i] \in X /\ i \in 0 .. n
      BY <1>1, <1>3
    <2>2. u \in Seq(X) /\ Len(u) = i - 1 /\ \A k \in 1 .. i - 1 : u[k] = s[k]
      <3>1. \A k \in 1 .. i - 1 : s[k] \in X
        BY <1>1
      <3>2. u \in Seq(X) /\ (Len(u) = IF 1 <= i - 1 THEN i - 1 - 1 + 1 ELSE 0)
            /\ \A k \in 1 .. i - 1 - 1 + 1 : u[k] = s[1 + k - 1]
        BY <3>1, SubSeqProperties
      <3>3. QED
        BY <3>2
    <2>3. v \in Seq(X) /\ Len(v) = i /\ \A k \in 1 .. i : v[k] = s[k]
      <3>1. \A k \in 1 .. i : s[k] \in X
        BY <1>1
      <3>2. v \in Seq(X) /\ (Len(v) = IF 1 <= i THEN i - 1 + 1 ELSE 0)
            /\ \A k \in 1 .. i - 1 + 1 : v[k] = s[1 + k - 1]
        BY <3>1, SubSeqProperties
      <3>3. QED
        BY <3>2
    <2>4. /\ Append(u, s[i]) \in Seq(X) /\ Len(Append(u, s[i])) = i
          /\ \A k \in 1 .. i - 1 : Append(u, s[i])[k] = u[k]
          /\ Append(u, s[i])[i] = s[i]
      <3> HIDE DEF u
      <3> DEFINE x == s[i]
      <3>1. Len(u) + 1 = i /\ u \in Seq(X) /\ x \in X
        BY <2>1, <2>2
      <3> HIDE DEF x
      <3>2. /\ Append(u, x) \in Seq(X) /\ Len(Append(u, x)) = Len(u) + 1
            /\ \A k \in 1 .. Len(u) : Append(u, x)[k] = u[k]
            /\ Append(u, x)[Len(u) + 1] = x
        BY <3>1, AppendProperties
      <3>3. QED
        BY <2>2, <3>1, <3>2 DEF x
    <2> HIDE DEF u, v
    <2>5. \A k \in 1 .. i : v[k] = Append(u, s[i])[k]
      <3> DEFINE w == Append(u, s[i])
      <3>1. /\ \A k \in 1 .. i - 1 : w[k] = s[k]
            /\ w[i] = s[i] /\ i \in Nat
        BY <2>2, <2>4
      <3> HIDE DEF w
      <3>2. \A k \in 1 .. i : v[k] = w[k]
        <4> TAKE k \in 1 .. i
        <4>1. v[k] = s[k]
          BY <2>3
        <4>2. k \in 1 .. i - 1 \/ k = i
          BY <3>1
        <4>3. QED
          BY <3>1, <4>1, <4>2
      <3>3. QED
        BY <3>2 DEF w
    <2>6. v = Append(u, s[i])
      BY <2>3, <2>4, <2>5, SeqEqual
    <2>7. QED
      BY <2>1, <2>6 DEF v
  <1>4. H \in SUBSET Nat
    OBVIOUS
  <1> HIDE DEF H
  <1>5. n \in H
    <2>1. 0 .. n \subseteq H
      BY <1>1, <1>2, <1>3, <1>4, UpTo
    <2>2. QED
      BY <1>1, <2>1
  <1>6. QED
    BY <1>5, SubSeqFull DEF H, n

\* A loop: after i rounds the value is f[i].
Loops(f, n, S, first, step) ==
  /\ f \in [0 .. n -> S] /\ f[0] = first
  /\ \A i \in 1 .. n : f[i] = step[i][f[i - 1]]

\* There is a function of the rounds of a loop.
LEMMA LoopExists ==
  ASSUME NEW n \in Nat, NEW S, NEW first \in S, NEW step \in [1 .. n -> [S -> S]]
  PROVE  \E f : Loops(f, n, S, first, step)
  <1> DEFINE G == {m \in 0 .. n : \E f : Loops(f, m, S, first, step)}
  <1>1. 0 \in G
    <2> DEFINE f == [i \in 0 .. 0 |-> first]
    <2>1. Loops(f, 0, S, first, step)
      BY DEF Loops
    <2>2. QED
      BY <2>1
  <1>2. ASSUME NEW m \in 1 .. n, m - 1 \in G PROVE m \in G
    <2>1. PICK g : Loops(g, m - 1, S, first, step)
      BY <1>2
    <2> DEFINE f == [i \in 0 .. m |-> IF i < m THEN g[i] ELSE step[m][g[m - 1]]]
    <2>2. g[m - 1] \in S /\ step[m] \in [S -> S]
      BY <2>1 DEF Loops
    <2>3. f \in [0 .. m -> S] /\ f[0] = first
      BY <2>1, <2>2 DEF Loops
    <2>4. ASSUME NEW i \in 1 .. m PROVE f[i] = step[i][f[i - 1]]
      BY <2>1 DEF Loops
    <2>5. Loops(f, m, S, first, step)
      <3> HIDE DEF f
      <3>1. QED
        BY <2>3, <2>4 DEF Loops
    <2> HIDE DEF f
    <2>6. QED
      BY <2>5
  <1> HIDE DEF G
  <1>3. n \in G
    <2>1. G \in SUBSET Nat
      BY DEF G
    <2>2. 0 .. n \subseteq G
      BY <1>1, <1>2, <2>1, UpTo
    <2>3. QED
      BY <2>2
  <1>4. QED
    BY <1>3 DEF G

\* Two functions that begin alike and go on alike are alike.
GoAlike(f, g, m) == f[0] = g[0] /\ \A i \in 1 .. m : f[i - 1] = g[i - 1] => f[i] = g[i]
SameUpTo(f, g, m) == \A i \in 0 .. m : f[i] = g[i]

LEMMA Alike ==
  ASSUME NEW m \in Nat, NEW f, NEW g, GoAlike(f, g, m)
  PROVE  SameUpTo(f, g, m)
  <1> DEFINE G == {i \in Nat : f[i] = g[i]}
  <1>1. 0 \in G /\ G \in SUBSET Nat /\ \A i \in 1 .. m : i - 1 \in G => i \in G
    BY DEF GoAlike
  <1> HIDE DEF G
  <1>2. 0 .. m \subseteq G
    BY <1>1, UpTo
  <1>3. QED
    BY <1>2 DEF G, SameUpTo

(***************************************************************************)
(* strings.Split and strings.Join.                                         *)
(***************************************************************************)

\* The parts of a text; there is at least one.
Parts == Seq(Seq(Tokens)) \ {<<>>}

\* One token more.
LEMMA SplitStepIs ==
  ASSUME NEW p \in Parts, NEW x \in Tokens, NEW w
  PROVE  SplitStep(p, x, w) \in Parts
  <1> DEFINE n == Len(p)
             last == Append(p[n], x)
  <1>1. p \in Seq(Seq(Tokens)) /\ n \in 1 .. n /\ n \in Nat
    <2>1. p \in Seq(Seq(Tokens)) /\ p # <<>>
      BY DEF Parts
    <2>2. n \in Nat \ {0}
      BY <2>1, EmptySeq
    <2>3. QED
      BY <2>1, <2>2
  <1>2. CASE x = w
    <2>1. <<>> \in Seq(Tokens)
      BY EmptySeq
    <2>2. Append(p, <<>>) \in Seq(Seq(Tokens)) /\ Append(p, <<>>) # <<>>
      BY <1>1, <2>1, AppendProperties
    <2>3. QED
      BY <1>2, <2>2 DEF SplitStep, Parts
  <1>3. CASE x # w
    <2>1. p[n] \in Seq(Tokens)
      BY <1>1, ElementOfSeq
    <2>2. last \in Seq(Tokens)
      BY <2>1, AppendProperties
    <2> HIDE DEF last
    <2>3. [p EXCEPT ![n] = last] \in Seq(Seq(Tokens)) /\ Len([p EXCEPT ![n] = last]) = n
      BY <1>1, <2>2, ExceptSeq
    <2>4. [p EXCEPT ![n] = last] # <<>>
      BY <1>1, <2>3, EmptySeq
    <2>5. SplitStep(p, x, w) = [p EXCEPT ![n] = last]
      BY <1>3 DEF SplitStep, last
    <2>6. QED
      BY <2>3, <2>4, <2>5 DEF Parts
  <1>4. QED
    BY <1>2, <1>3

\* The rounds of SplitAt.
Splits(f, t, w) ==
  /\ f \in [0 .. Len(t) -> Parts] /\ f[0] = << <<>> >>
  /\ \A i \in 1 .. Len(t) : f[i] = SplitStep(f[i - 1], t[i], w)

LEMMA SplitRounds ==
  ASSUME NEW t \in Seq(Tokens), NEW w
  PROVE  \E f : Splits(f, t, w) /\ SplitAt(t, w) = f[Len(t)]
  <1> DEFINE n == Len(t)
             first == << <<>> >>
             step == [i \in 1 .. n |-> [p \in Parts |-> SplitStep(p, t[i], w)]]
             Rounds(h) == [i \in 0 .. n |-> IF i = 0 THEN first ELSE SplitStep(h[i - 1], t[i], w)]
             f == CHOOSE h : h = Rounds(h)
  <1>1. n \in Nat /\ \A i \in 1 .. n : t[i] \in Tokens
    BY LenProperties, ElementOfSeq
  <1>2. first \in Parts
    <2>1. <<>> \in Seq(Tokens)
      BY EmptySeq
    <2>2. QED
      BY <2>1 DEF Parts
  <1>3. SplitAt(t, w) = f[n]
    BY DEF SplitAt
  <1> HIDE DEF n, first
  <1>4. step \in [1 .. n -> [Parts -> Parts]]
    BY <1>1, SplitStepIs
  <1> HIDE DEF step
  <1>5. PICK g : Loops(g, n, Parts, first, step)
    BY <1>1, <1>2, <1>4, LoopExists
  <1>6. g \in [0 .. n -> Parts] /\ g[0] = first
        /\ \A i \in 1 .. n : g[i] = SplitStep(g[i - 1], t[i], w)
    <2>1. g \in [0 .. n -> Parts] /\ g[0] = first
      BY <1>5 DEF Loops
    <2>2. ASSUME NEW i \in 1 .. n PROVE g[i] = SplitStep(g[i - 1], t[i], w)
      <3>1. g[i - 1] \in Parts /\ g[i] = step[i][g[i - 1]]
        BY <1>1, <2>1, <1>5 DEF Loops
      <3>2. QED
        BY <3>1 DEF step
    <2>3. QED
      BY <2>1, <2>2
  <1>7. g = Rounds(g)
    BY <1>1, <1>6
  <1>8. f = Rounds(f)
    BY <1>7
  <1> HIDE DEF f
  <1>9. \A i \in 0 .. n : f[i] = g[i]
    <2>1. f[0] = g[0]
      BY <1>1, <1>6, <1>8
    <2>2. \A i \in 1 .. n : f[i - 1] = g[i - 1] => f[i] = g[i]
      BY <1>1, <1>6, <1>8
    <2>3. GoAlike(f, g, n)
      BY <2>1, <2>2 DEF GoAlike
    <2>4. n \in Nat
      BY <1>1
    <2>5. SameUpTo(f, g, n)
      BY ONLY <2>3, <2>4, Alike
    <2>6. QED
      BY <2>5 DEF SameUpTo
  <1>10. SplitAt(t, w) = g[n] /\ Splits(g, t, w)
    BY <1>1, <1>3, <1>6, <1>9 DEF Splits, n, first
  <1>11. QED
    BY <1>10 DEF n

\* strings.Split of a text, of the empty one and of a text with one token more.
LEMMA SplitType ==
  ASSUME NEW t \in Seq(Tokens), NEW w
  PROVE  SplitAt(t, w) \in Parts
  <1>1. PICK f : Splits(f, t, w) /\ SplitAt(t, w) = f[Len(t)]
    BY SplitRounds
  <1>2. Len(t) \in 0 .. Len(t)
    BY LenProperties
  <1>3. QED
    BY <1>1, <1>2 DEF Splits

LEMMA SplitEmpty ==
  ASSUME NEW w
  PROVE  SplitAt(<<>>, w) = << <<>> >>
  <1>1. <<>> \in Seq(Tokens) /\ Len(<<>>) = 0
    BY EmptySeq
  <1>2. PICK f : Splits(f, <<>>, w) /\ SplitAt(<<>>, w) = f[Len(<<>>)]
    BY <1>1, SplitRounds
  <1>3. QED
    BY <1>1, <1>2 DEF Splits

LEMMA SplitAppend ==
  ASSUME NEW t \in Seq(Tokens), NEW x \in Tokens, NEW w
  PROVE  SplitAt(Append(t, x), w) = SplitStep(SplitAt(t, w), x, w)
  <1> DEFINE u == Append(t, x)
             n == Len(t)
  <1>1. /\ u \in Seq(Tokens) /\ Len(u) = n + 1 /\ n \in Nat /\ u[n + 1] = x
        /\ \A i \in 1 .. n : u[i] = t[i]
    BY AppendProperties, LenProperties
  <1> HIDE DEF u
  <1>2. PICK f : Splits(f, t, w) /\ SplitAt(t, w) = f[n]
    BY SplitRounds
  <1>3. PICK g : Splits(g, u, w) /\ SplitAt(u, w) = g[n + 1]
    BY <1>1, SplitRounds
  <1> HIDE DEF n
  <1>4. \A i \in 0 .. n : f[i] = g[i]
    <2>1. f[0] = g[0]
      BY <1>2, <1>3 DEF Splits
    <2>2. \A i \in 1 .. n : f[i - 1] = g[i - 1] => f[i] = g[i]
      BY <1>1, <1>2, <1>3 DEF Splits, n
    <2>3. n \in Nat
      BY <1>1
    <2>4. GoAlike(f, g, n)
      BY <2>1, <2>2 DEF GoAlike
    <2>5. SameUpTo(f, g, n)
      BY ONLY <2>3, <2>4, Alike
    <2>6. QED
      BY <2>5 DEF SameUpTo
  <1>5. g[n + 1] = SplitStep(g[n], x, w)
    <2>1. n + 1 \in 1 .. n + 1 /\ n + 1 - 1 = n
      BY <1>1
    <2>2. g[n + 1] = SplitStep(g[n + 1 - 1], u[n + 1], w)
      BY <1>1, <1>3, <2>1 DEF Splits
    <2>3. QED
      BY <1>1, <2>1, <2>2
  <1>6. f[n] = g[n]
    BY <1>1, <1>4
  <1>7. QED
    BY <1>2, <1>3, <1>5, <1>6 DEF u

\* The rounds of Joined.
Joins(f, s, w, T) ==
  /\ f \in [0 .. Len(s) -> Seq(T)] /\ f[0] = <<>>
  /\ \A i \in 1 .. Len(s) : f[i] = IF i = 1 THEN s[1] ELSE Append(f[i - 1], w) \o s[i]

LEMMA JoinedRounds ==
  ASSUME NEW T, NEW w \in T, NEW s \in Seq(Seq(T))
  PROVE  \E f : Joins(f, s, w, T) /\ Joined(s, w) = f[Len(s)]
  <1> DEFINE n == Len(s)
             next(i, p) == IF i = 1 THEN s[1] ELSE Append(p, w) \o s[i]
             step == [i \in 1 .. n |-> [p \in Seq(T) |-> next(i, p)]]
             Rounds(h) == [i \in 0 .. n |-> IF i = 0 THEN <<>> ELSE next(i, h[i - 1])]
             f == CHOOSE h : h = Rounds(h)
  <1>1. n \in Nat /\ \A i \in 1 .. n : s[i] \in Seq(T)
    BY LenProperties, ElementOfSeq
  <1>2. <<>> \in Seq(T)
    BY EmptySeq
  <1>3. Joined(s, w) = f[n]
    BY DEF Joined
  <1> HIDE DEF n
  <1>4. step \in [1 .. n -> [Seq(T) -> Seq(T)]]
    <2>1. ASSUME NEW i \in 1 .. n, NEW p \in Seq(T) PROVE next(i, p) \in Seq(T)
      <3>1. s[i] \in Seq(T) /\ (i = 1 => s[1] \in Seq(T))
        BY <1>1
      <3>2. Append(p, w) \in Seq(T)
        BY AppendProperties
      <3>3. Append(p, w) \o s[i] \in Seq(T)
        BY <3>1, <3>2, ConcatProperties
      <3>4. QED
        BY <3>1, <3>3
    <2> HIDE DEF next
    <2>2. QED
      BY <2>1
  <1> HIDE DEF step
  <1>5. PICK g : Loops(g, n, Seq(T), <<>>, step)
    BY <1>1, <1>2, <1>4, LoopExists
  <1>6. g \in [0 .. n -> Seq(T)] /\ g[0] = <<>> /\ \A i \in 1 .. n : g[i] = next(i, g[i - 1])
    <2>1. g \in [0 .. n -> Seq(T)] /\ g[0] = <<>>
      BY <1>5 DEF Loops
    <2> HIDE DEF next
    <2>2. ASSUME NEW i \in 1 .. n PROVE g[i] = next(i, g[i - 1])
      <3>1. g[i - 1] \in Seq(T) /\ g[i] = step[i][g[i - 1]]
        BY <1>1, <2>1, <1>5 DEF Loops
      <3>2. QED
        BY <3>1 DEF step
    <2>3. QED
      BY <2>1, <2>2
  <1> HIDE DEF next
  <1>7. g = Rounds(g)
    BY <1>1, <1>6
  <1>8. f = Rounds(f)
    BY <1>7
  <1> HIDE DEF f
  <1>9. \A i \in 0 .. n : f[i] = g[i]
    <2>1. f[0] = g[0]
      BY <1>1, <1>6, <1>8
    <2>2. ASSUME NEW i \in 1 .. n, f[i - 1] = g[i - 1] PROVE f[i] = g[i]
      <3>1. f[i] = next(i, f[i - 1])
        <4>1. i \in 0 .. n /\ i # 0
          BY <1>1
        <4>2. QED
          BY <1>8, <4>1
      <3>2. g[i] = next(i, g[i - 1])
        BY <1>6
      <3>3. QED
        BY <2>2, <3>1, <3>2
    <2>3. \A i \in 1 .. n : f[i - 1] = g[i - 1] => f[i] = g[i]
      BY <2>2
    <2>4. n \in Nat
      BY <1>1
    <2>5. GoAlike(f, g, n)
      BY <2>1, <2>3 DEF GoAlike
    <2>6. SameUpTo(f, g, n)
      BY ONLY <2>4, <2>5, Alike
    <2>7. QED
      BY <2>6 DEF SameUpTo
  <1>10. Joined(s, w) = g[n] /\ Joins(g, s, w, T)
    <2>1. Joined(s, w) = g[n]
      BY ONLY <1>1, <1>3, <1>9
    <2>2. Joins(g, s, w, T)
      BY ONLY <1>6 DEF Joins, n, next
    <2>3. QED
      BY ONLY <2>1, <2>2
  <1>11. QED
    BY <1>10 DEF n

\* strings.Join of texts, and of one text more.
LEMMA JoinedType ==
  ASSUME NEW T, NEW w \in T, NEW s \in Seq(Seq(T))
  PROVE  Joined(s, w) \in Seq(T)
  <1>1. PICK f : Joins(f, s, w, T) /\ Joined(s, w) = f[Len(s)]
    BY JoinedRounds
  <1>2. Len(s) \in 0 .. Len(s)
    BY LenProperties
  <1>3. QED
    BY <1>1, <1>2 DEF Joins

LEMMA JoinedAppend ==
  ASSUME NEW T, NEW w \in T, NEW s \in Seq(Seq(T)), NEW x \in Seq(T)
  PROVE  Joined(Append(s, x), w) = IF s = <<>> THEN x ELSE Append(Joined(s, w), w) \o x
  <1> DEFINE u == Append(s, x)
             n == Len(s)
  <1>1. /\ u \in Seq(Seq(T)) /\ Len(u) = n + 1 /\ n \in Nat /\ u[n + 1] = x
        /\ \A i \in 1 .. n : u[i] = s[i]
    BY AppendProperties, LenProperties
  <1>2. s = <<>> <=> n = 0
    BY EmptySeq
  <1> HIDE DEF u
  <1>3. PICK f : Joins(f, s, w, T) /\ Joined(s, w) = f[n]
    BY JoinedRounds
  <1>4. PICK g : Joins(g, u, w, T) /\ Joined(u, w) = g[n + 1]
    BY <1>1, JoinedRounds
  <1> HIDE DEF n
  <1>5. \A i \in 0 .. n : f[i] = g[i]
    <2>1. f[0] = g[0]
      BY <1>3, <1>4 DEF Joins
    <2>2. ASSUME NEW i \in 1 .. n, f[i - 1] = g[i - 1] PROVE f[i] = g[i]
      <3>1. i \in 1 .. n + 1 /\ u[i] = s[i] /\ (i = 1 => u[1] = s[1])
        BY <1>1
      <3>2. f[i] = IF i = 1 THEN s[1] ELSE Append(f[i - 1], w) \o s[i]
        BY <1>3 DEF Joins, n
      <3>3. g[i] = IF i = 1 THEN u[1] ELSE Append(g[i - 1], w) \o u[i]
        BY <1>1, <1>4, <3>1 DEF Joins
      <3>4. QED
        BY <2>2, <3>1, <3>2, <3>3
    <2>3. n \in Nat
      BY <1>1
    <2>4. GoAlike(f, g, n)
      BY <2>1, <2>2 DEF GoAlike
    <2>5. SameUpTo(f, g, n)
      BY ONLY <2>3, <2>4, Alike
    <2>6. QED
      BY <2>5 DEF SameUpTo
  <1>6. g[n + 1] = IF n = 0 THEN x ELSE Append(g[n], w) \o x
    <2>1. n + 1 \in 1 .. n + 1 /\ n + 1 - 1 = n /\ (n = 0 => n + 1 = 1) /\ (n # 0 => n + 1 # 1)
      BY <1>1
    <2>2. g[n + 1] = IF n + 1 = 1 THEN u[1] ELSE Append(g[n + 1 - 1], w) \o u[n + 1]
      BY <1>1, <1>4, <2>1 DEF Joins
    <2>3. QED
      BY <1>1, <2>1, <2>2
  <1>7. f[n] = g[n]
    BY <1>1, <1>5
  <1>8. QED
    BY <1>2, <1>3, <1>4, <1>6, <1>7 DEF u

\* The last part is longer by a text.
Longer(p, v) == [p EXCEPT ![Len(p)] = @ \o v]

\* A text in which the word is not extends the last part.
LEMMA SplitConcat ==
  ASSUME NEW w, NEW t \in Seq(Tokens), NEW v \in Seq(Tokens \ {w})
  PROVE  SplitAt(t \o v, w) = Longer(SplitAt(t, w), v)
  <1> DEFINE X == Tokens \ {w}
             p == SplitAt(t, w)
             n == Len(p)
             G == {u \in Seq(X) : SplitAt(t \o u, w) = Longer(p, u)}
  <1>1. p \in Seq(Seq(Tokens)) /\ n \in Nat /\ n \in 1 .. n /\ p[n] \in Seq(Tokens)
    <2>1. p \in Seq(Seq(Tokens)) /\ p # <<>>
      BY SplitType DEF Parts
    <2> HIDE DEF p
    <2>2. n \in Nat \ {0}
      BY <2>1, EmptySeq
    <2>3. QED
      BY <2>1, <2>2, ElementOfSeq
  <1> HIDE DEF n
  <1>2. <<>> \in G
    <2>1. t \o <<>> = t /\ p[n] \o <<>> = p[n] /\ <<>> \in Seq(X)
      BY <1>1, ConcatEmptySeq, EmptySeq
    <2> HIDE DEF p
    <2>2. Longer(p, <<>>) = p
      <3>1. Longer(p, <<>>) = [p EXCEPT ![n] = p[n]]
        BY <2>1 DEF Longer, n
      <3>2. p \in [1 .. n -> Seq(Tokens)]
        BY <1>1, LenProperties DEF n
      <3>3. QED
        BY <3>1, <3>2
    <2>3. QED
      BY <2>1, <2>2 DEF p
  <1>3. ASSUME NEW u \in G, NEW x \in X PROVE Append(u, x) \in G
    <2>1. u \in Seq(X) /\ u \in Seq(Tokens) /\ x \in Tokens /\ x # w
      <3>1. X \subseteq Tokens /\ u \in Seq(X)
        OBVIOUS
      <3> HIDE DEF X, G
      <3>2. u \in Seq(Tokens)
        BY <3>1, SeqMonotonic
      <3>3. QED
        BY <3>1, <3>2 DEF X
    <2>2. Append(u, x) \in Seq(X) /\ Append(u, x) \in Seq(Tokens)
      BY <2>1, AppendProperties
    <2>3. SplitAt(t \o u, w) = Longer(p, u)
      OBVIOUS
    <2> HIDE DEF G, X
    <2>4. ASSUME NEW a \in Seq(Tokens) PROVE a \o Append(u, x) = Append(a \o u, x)
      <3>1. Append(u, x) = u \o <<x>> /\ <<x>> \in Seq(Tokens) /\ a \o u \in Seq(Tokens)
        BY <2>1, AppendIsConcat, ConcatProperties
      <3>2. a \o (u \o <<x>>) = (a \o u) \o <<x>>
        BY <2>1, <3>1, ConcatAssociative
      <3>3. Append(a \o u, x) = (a \o u) \o <<x>>
        BY <2>1, <3>1, AppendIsConcat
      <3>4. QED
        BY <3>1, <3>2, <3>3
    <2>5. t \o u \in Seq(Tokens)
      BY <2>1, ConcatProperties
    <2>6. SplitAt(t \o Append(u, x), w) = SplitStep(Longer(p, u), x, w)
      BY <2>1, <2>3, <2>4, <2>5, SplitAppend
    <2> HIDE DEF p
    <2> DEFINE q == Longer(p, u)
    <2>7. q = [p EXCEPT ![n] = p[n] \o u]
      BY DEF Longer, n
    <2>8. p[n] \o u \in Seq(Tokens)
      BY <1>1, <2>1, ConcatProperties
    <2>9. Len(q) = n /\ q[n] = p[n] \o u /\ q \in Seq(Seq(Tokens))
      <3> DEFINE e == p[n] \o u
      <3>1. e \in Seq(Tokens)
        BY <2>8
      <3> HIDE DEF e
      <3>2. /\ Len([p EXCEPT ![n] = e]) = n /\ [p EXCEPT ![n] = e] \in Seq(Seq(Tokens))
            /\ [p EXCEPT ![n] = e][n] = e
        BY <1>1, <3>1, ExceptSeq DEF n
      <3>3. QED
        BY <2>7, <3>2 DEF e
    <2> HIDE DEF q
    <2>10. SplitStep(q, x, w) = [q EXCEPT ![n] = Append(q[n], x)]
      BY <2>1, <2>9 DEF SplitStep
    <2>11. SplitStep(q, x, w) = [p EXCEPT ![n] = p[n] \o Append(u, x)]
      <3>1. p[n] \o Append(u, x) = Append(p[n] \o u, x)
        BY <1>1, <2>4
      <3>2. p \in [1 .. n -> Seq(Tokens)]
        BY <1>1, LenProperties DEF n
      <3>3. QED
        BY <2>7, <2>9, <2>10, <3>1, <3>2
    <2>12. SplitAt(t \o Append(u, x), w) = Longer(p, Append(u, x))
      BY <2>6, <2>11 DEF Longer, n, q
    <2>13. QED
      BY <2>2, <2>12 DEF G, p
  <1>4. G \in SUBSET Seq(X)
    OBVIOUS
  <1> HIDE DEF G, X
  <1>5. Seq(X) \subseteq G
    BY <1>2, <1>3, <1>4, OneMore
  <1>6. v \in G
    BY <1>5 DEF X
  <1>7. QED
    BY <1>6 DEF G

\* strings.Split gives the texts that were joined, when the word is in none of them.
LEMMA SplitJoined ==
  ASSUME NEW w \in Tokens, NEW s \in Seq(Seq(Tokens \ {w})), s # <<>>
  PROVE  SplitAt(Joined(s, w), w) = s
  <1> DEFINE X == Tokens \ {w}
             G == {r \in Seq(Seq(X)) : r # <<>> => SplitAt(Joined(r, w), w) = r}
  <1>1. <<>> \in G
    <2>1. <<>> \in Seq(Seq(X))
      BY EmptySeq
    <2>2. QED
      BY <2>1
  <1>2. ASSUME NEW r \in G, NEW x \in Seq(X) PROVE Append(r, x) \in G
    <2>1. X \subseteq Tokens /\ r \in Seq(Seq(X))
      OBVIOUS
    <2>2. x \in Seq(Tokens) /\ Seq(X) \subseteq Seq(Tokens)
      <3> HIDE DEF X, G
      <3>1. \A y \in Seq(X) : y \in Seq(Tokens)
        BY <2>1, SeqMonotonic
      <3>2. QED
        BY <3>1
    <2>3. r \in Seq(Seq(Tokens))
      <3> HIDE DEF X, G
      <3>1. QED
        BY <2>1, <2>2, SeqMonotonic
    <2>4. r # <<>> => SplitAt(Joined(r, w), w) = r
      OBVIOUS
    <2> HIDE DEF G
    <2>5. Append(r, x) \in Seq(Seq(X))
      BY <2>1, AppendProperties
    <2>6. CASE r = <<>>
      <3>1. Joined(Append(r, x), w) = x
        BY <2>2, <2>3, <2>6, JoinedAppend
      <3>2. <<>> \in Seq(Tokens) /\ <<>> \o x = x
        BY <2>2, EmptySeq, ConcatEmptySeq
      <3>3. SplitAt(<<>> \o x, w) = Longer(<< <<>> >>, x)
        BY <3>2, SplitConcat, SplitEmpty
      <3>4. Longer(<< <<>> >>, x) = <<x>>
        BY <3>2 DEF Longer
      <3>5. Append(<<>>, x) = <<x>>
        OBVIOUS
      <3>6. QED
        BY <2>5, <2>6, <3>1, <3>2, <3>3, <3>4, <3>5 DEF G
    <2>7. CASE r # <<>>
      <3> DEFINE j == Joined(r, w)
                 n == Len(r)
      <3>1. Joined(Append(r, x), w) = Append(j, w) \o x
        BY <2>2, <2>3, <2>7, JoinedAppend
      <3>2. j \in Seq(Tokens)
        BY <2>3, JoinedType
      <3>3. SplitAt(j, w) = r
        BY <2>4, <2>7
      <3> HIDE DEF j
      <3>4. Append(j, w) \in Seq(Tokens) /\ <<>> \in Seq(Tokens) /\ <<>> \o x = x
        BY <2>2, <3>2, AppendProperties, EmptySeq, ConcatEmptySeq
      <3>5. SplitAt(Append(j, w), w) = Append(r, <<>>)
        BY <3>2, <3>3, SplitAppend DEF SplitStep
      <3>6. SplitAt(Append(j, w) \o x, w) = Longer(Append(r, <<>>), x)
        BY <3>4, <3>5, SplitConcat
      <3>7. Longer(Append(r, <<>>), x) = Append(r, x)
        <4> DEFINE a == Append(r, <<>>)
                   b == Append(r, x)
                   c == [a EXCEPT ![n + 1] = x]
        <4>1. /\ a \in Seq(Seq(Tokens)) /\ Len(a) = n + 1 /\ n \in Nat
              /\ \A i \in 1 .. n : a[i] = r[i]
              /\ a[n + 1] = <<>>
          BY <2>3, <3>4, AppendProperties, LenProperties
        <4>2. /\ b \in Seq(Seq(Tokens)) /\ Len(b) = n + 1
              /\ \A i \in 1 .. n : b[i] = r[i]
              /\ b[n + 1] = x
          BY <2>2, <2>3, AppendProperties
        <4> HIDE DEF a, b
        <4>3. Longer(a, x) = c
          BY <3>4, <4>1 DEF Longer
        <4> HIDE DEF n
        <4>4. n + 1 \in 1 .. Len(a)
          BY <4>1
        <4>5. /\ c \in Seq(Seq(Tokens)) /\ Len(c) = n + 1
              /\ \A i \in 1 .. n + 1 : c[i] = IF i = n + 1 THEN x ELSE a[i]
          BY <2>2, <4>1, <4>4, ExceptSeq
        <4> HIDE DEF c
        <4>6. \A i \in 1 .. n + 1 : c[i] = b[i]
          <5> TAKE i \in 1 .. n + 1
          <5>1. i \in 1 .. n \/ i = n + 1
            BY <4>1
          <5>2. QED
            BY <4>1, <4>2, <4>5, <5>1
        <4>7. c = b
          BY <4>2, <4>5, <4>6, SeqEqual
        <4>8. QED
          BY <4>3, <4>7 DEF a, b
      <3>8. QED
        BY <2>5, <3>1, <3>6, <3>7 DEF G
    <2>8. QED
      BY <2>6, <2>7
  <1>3. G \in SUBSET Seq(Seq(X))
    OBVIOUS
  <1> HIDE DEF G, X
  <1>4. Seq(Seq(X)) \subseteq G
    BY <1>1, <1>2, <1>3, OneMore
  <1>5. s \in G
    BY <1>4 DEF X
  <1>6. QED
    BY <1>5 DEF G

(***************************************************************************)
(* A condition that is written and parsed again.                           *)
(***************************************************************************)

\* The first of some numbers.
LEMMA FirstIs ==
  ASSUME NEW S \in SUBSET Nat, NEW x \in S, \A y \in S : x <= y
  PROVE  First(S) = x
  <1>1. \A z \in S : (\A y \in S : z <= y) => z = x
    OBVIOUS
  <1>2. QED
    BY <1>1 DEF First

LEMMA FirstIn ==
  ASSUME NEW S \in SUBSET Nat, S # {}
  PROVE  First(S) \in S
  <1>1. \E x \in S : \A y \in S : x <= y
    BY LeastOf
  <1>2. QED
    BY <1>1 DEF First

\* Tokens of a text, and which of them are words.
LEMMA TokensAre ==
  /\ \A c \in Symbols : Char(c) \in Tokens \ {And, Or}
  /\ \A c \in Spellings : Name(c) \in Tokens \ {And, Or}
  /\ \A v \in Nat : Mem(v) \in Tokens \ {And, Or}
  /\ \A v \in Nat, d \in Spellings : Number(d, v) \in Tokens \ {And, Or}
  /\ And \in Tokens /\ Or \in Tokens /\ And # Or
  <1>1. Symbols \subseteq Spellings /\ "" \in Spellings /\ "&&" \in Spellings /\ "||" \in Spellings
    BY DEF Spellings
  <1>2. \A c \in Symbols : Char(c) \in Tokens \ {And, Or}
    BY <1>1 DEF Char, And, Or, Token, Tokens
  <1>3. \A c \in Spellings : Name(c) \in Tokens \ {And, Or}
    BY DEF Name, And, Or, Token, Tokens
  <1>4. \A v \in Nat : Mem(v) \in Tokens \ {And, Or}
    BY <1>1 DEF Mem, And, Or, Token, Tokens
  <1>5. \A v \in Nat, d \in Spellings : Number(d, v) \in Tokens \ {And, Or}
    BY DEF Number, And, Or, Token, Tokens
  <1>6. And \in Tokens /\ Or \in Tokens /\ And # Or
    BY <1>1 DEF And, Or, Token, Tokens
  <1>7. QED
    BY <1>2, <1>3, <1>4, <1>5, <1>6

\* Characters of operators are told from each other and from the other tokens.
LEMMA CharsAre ==
  /\ \A a, b \in Symbols : Char(a) = Char(b) <=> a = b
  /\ \A a \in Symbols : Char(a).kind = "op"
  /\ \A n : Name(n).kind = "name"
  /\ \A a : Mem(a).kind = "mem"
  /\ \A d, v : Number(d, v).kind = "number"
  BY DEF Char, Name, Mem, Number, Token

\* Where an operator is in a text, character by character.
LEMMA OccursIs ==
  ASSUME NEW t \in Seq(Tokens), NEW op \in Seq(Symbols), Len(op) >= 1
  PROVE  Occurs(t, op) = {i \in 1 .. Len(t) - Len(op) + 1 :
                             \A j \in 1 .. Len(op) : t[i + j - 1] = Char(op[j])}
  <1> DEFINE n == Len(t)
             m == Len(op)
  <1>1. /\ n \in Nat /\ m \in Nat \ {0} /\ \A i \in 1 .. n : t[i] \in Tokens
        /\ DOMAIN op = 1 .. m /\ \A j \in 1 .. m : op[j] \in Symbols
    BY LenProperties, ElementOfSeq
  <1> DEFINE c == Chars(op)
  <1>2. c \in Seq(Tokens) /\ Len(c) = m /\ \A j \in 1 .. m : c[j] = Char(op[j])
    <2> HIDE DEF m
    <2>1. c = [j \in 1 .. m |-> Char(op[j])]
      BY <1>1 DEF Chars
    <2>2. \A j \in 1 .. m : Char(op[j]) \in Tokens
      BY <1>1, TokensAre
    <2>3. [j \in 1 .. m |-> Char(op[j])] \in Seq(Tokens)
      BY <1>1, <2>2, IsASeq
    <2>4. [j \in 1 .. m |-> Char(op[j])] \in [1 .. m -> Tokens]
      BY <2>2
    <2>5. QED
      BY <1>1, <2>1, <2>3, <2>4, LenProperties
  <1> HIDE DEF n, m, c
  <1>3. ASSUME NEW i \in 1 .. n - m + 1
        PROVE  SubSeq(t, i, i + m - 1) = c <=> \A j \in 1 .. m : t[i + j - 1] = Char(op[j])
    <2> DEFINE e == i + m - 1
               a == SubSeq(t, i, e)
    <2>1. e \in Int /\ i \in Int /\ i <= e /\ e - i + 1 = m /\ \A k \in i .. e : k \in 1 .. n
      BY <1>1
    <2> HIDE DEF e
    <2>2. \A k \in i .. e : t[k] \in Tokens
      BY <1>1, <2>1
    <2>3. a \in Seq(Tokens) /\ Len(a) = m /\ \A j \in 1 .. m : a[j] = t[i + j - 1]
      BY <2>1, <2>2, SubSeqProperties
    <2> HIDE DEF a
    <2>4. ASSUME \A j \in 1 .. m : a[j] = c[j] PROVE a = c
      BY <1>2, <2>3, <2>4, SeqEqual
    <2>5. a = c <=> \A j \in 1 .. m : t[i + j - 1] = Char(op[j])
      BY <1>2, <2>3, <2>4
    <2>6. QED
      BY <2>5 DEF a, e
  <1>4. Occurs(t, op) = {i \in 1 .. n - m + 1 : SubSeq(t, i, i + m - 1) = c}
    BY DEF Occurs, n, m, c
  <1>5. QED
    BY <1>3, <1>4 DEF n, m

\* Of one character, and of two.
LEMMA OccursOne ==
  ASSUME NEW t \in Seq(Tokens), NEW x \in Symbols
  PROVE  Occurs(t, <<x>>) = {i \in 1 .. Len(t) : t[i] = Char(x)}
  <1> DEFINE op == <<x>>
  <1>1. op \in Seq(Symbols) /\ Len(op) = 1 /\ Len(op) >= 1 /\ op[1] = x
    OBVIOUS
  <1>2. Len(t) \in Nat
    BY LenProperties
  <1> HIDE DEF op
  <1>3. Occurs(t, op) = {i \in 1 .. Len(t) - Len(op) + 1 :
                             \A j \in 1 .. Len(op) : t[i + j - 1] = Char(op[j])}
    BY <1>1, OccursIs
  <1>4. 1 .. Len(t) - Len(op) + 1 = 1 .. Len(t) /\ 1 .. Len(op) = {1}
    BY <1>1, <1>2
  <1>5. \A i \in 1 .. Len(t) :
           (\A j \in 1 .. Len(op) : t[i + j - 1] = Char(op[j])) <=> t[i] = Char(x)
    <2> TAKE i \in 1 .. Len(t)
    <2>1. i + 1 - 1 = i
      BY <1>2
    <2>2. QED
      BY <1>1, <1>4, <2>1
  <1>6. QED
    BY <1>3, <1>4, <1>5 DEF op

LEMMA OccursTwo ==
  ASSUME NEW t \in Seq(Tokens), NEW x \in Symbols, NEW y \in Symbols
  PROVE  Occurs(t, <<x, y>>) = {i \in 1 .. Len(t) - 1 : t[i] = Char(x) /\ t[i + 1] = Char(y)}
  <1> DEFINE op == <<x, y>>
  <1>1. op \in Seq(Symbols) /\ Len(op) = 2 /\ Len(op) >= 1 /\ op[1] = x /\ op[2] = y
    OBVIOUS
  <1>2. Len(t) \in Nat
    BY LenProperties
  <1> HIDE DEF op
  <1>3. Occurs(t, op) = {i \in 1 .. Len(t) - Len(op) + 1 :
                             \A j \in 1 .. Len(op) : t[i + j - 1] = Char(op[j])}
    BY <1>1, OccursIs
  <1>4. 1 .. Len(t) - Len(op) + 1 = 1 .. Len(t) - 1 /\ 1 .. Len(op) = {1, 2}
    BY <1>1, <1>2
  <1>5. \A i \in 1 .. Len(t) - 1 :
           (\A j \in 1 .. Len(op) : t[i + j - 1] = Char(op[j]))
               <=> t[i] = Char(x) /\ t[i + 1] = Char(y)
    <2> TAKE i \in 1 .. Len(t) - 1
    <2>1. i + 1 - 1 = i /\ i + 2 - 1 = i + 1
      BY <1>2
    <2>2. QED
      BY <1>1, <1>4, <2>1
  <1>6. QED
    BY <1>3, <1>4, <1>5 DEF op

\* The operators in the order they are looked for.
LEMMA OpsAre ==
  /\ DOMAIN bpOpIDs = 1 .. 8
  /\ bpOpIDs[1] = << <<"<", "=">>, 2>> /\ bpOpIDs[2] = << <<">", "=">>, 5>>
  /\ bpOpIDs[3] = << <<"=", "=">>, 3>> /\ bpOpIDs[4] = << <<"<", ">">>, 4>>
  /\ bpOpIDs[5] = << <<"!", "=">>, 4>> /\ bpOpIDs[6] = << <<"=">>, 3>>
  /\ bpOpIDs[7] = << <<"<">>, 1>> /\ bpOpIDs[8] = << <<">">>, 6>>
  BY SMT DEF bpOpIDs

\* The operator of a written condition is found, behind its first token.
LEMMA FoundOne ==
  ASSUME NEW l \in Tokens, NEW r \in Tokens, l.kind # "op", r.kind # "op", NEW k \in {7, 8},
         NEW t, t = <<l, Char(bpOpIDs[k][1][1]), r>>
  PROVE  /\ t \in Seq(Tokens) /\ Found(t) = {k}
         /\ Occurs(t, bpOpIDs[k][1]) = {2}
  <1> DEFINE a == bpOpIDs[k][1][1]
  <1>1. a \in Symbols /\ a = IF k = 7 THEN "<" ELSE ">"
    BY OpsAre DEF Symbols
  <1> HIDE DEF a
  <1>2. t \in Seq(Tokens) /\ Len(t) = 3 /\ t[1] = l /\ t[2] = Char(a) /\ t[3] = r
    BY <1>1, TokensAre DEF a
  <1>3. \A x \in Symbols : Occurs(t, <<x>>) = IF x = a THEN {2} ELSE {}
    <2> TAKE x \in Symbols
    <2>1. Occurs(t, <<x>>) = {i \in 1 .. 3 : t[i] = Char(x)}
      BY <1>2, OccursOne
    <2>2. \A i \in 1 .. 3 : t[i] = Char(x) <=> i = 2 /\ x = a
      BY <1>1, <1>2, CharsAre
    <2>3. QED
      BY <2>1, <2>2
  <1>4. \A x, y \in Symbols : Occurs(t, <<x, y>>) = {}
    <2> TAKE x, y \in Symbols
    <2>1. Occurs(t, <<x, y>>) = {i \in 1 .. 3 - 1 : t[i] = Char(x) /\ t[i + 1] = Char(y)}
      BY <1>2, OccursTwo
    <2>2. \A i \in 1 .. 3 - 1 : ~(t[i] = Char(x) /\ t[i + 1] = Char(y))
      BY <1>1, <1>2, CharsAre
    <2>3. QED
      BY <2>1, <2>2
  <1>5. \A i \in 1 .. 8 : Occurs(t, bpOpIDs[i][1]) = IF i = k THEN {2} ELSE {}
    <2>1. /\ "<" \in Symbols /\ "=" \in Symbols /\ ">" \in Symbols /\ "!" \in Symbols
          /\ "=" # a /\ (k = 7 => a # ">") /\ (k = 8 => a # "<")
      BY <1>1 DEF Symbols
    <2>2. \A i \in 1 .. 5 : Occurs(t, bpOpIDs[i][1]) = {}
      BY <1>4, <2>1, OpsAre
    <2>3. Occurs(t, bpOpIDs[6][1]) = {}
      BY <1>3, <2>1, OpsAre
    <2>4. Occurs(t, bpOpIDs[7][1]) = IF 7 = k THEN {2} ELSE {}
      BY <1>1, <1>3, <2>1, OpsAre
    <2>5. Occurs(t, bpOpIDs[8][1]) = IF 8 = k THEN {2} ELSE {}
      BY <1>1, <1>3, <2>1, OpsAre
    <2>6. ASSUME NEW i \in 1 .. 8 PROVE i \in 1 .. 5 \/ i = 6 \/ i = 7 \/ i = 8
      OBVIOUS
    <2>7. \A i \in 1 .. 5 : i # k
      OBVIOUS
    <2>8. QED
      BY <2>2, <2>3, <2>4, <2>5, <2>6, <2>7
  <1>6. DOMAIN bpOpIDs = 1 .. 8
    BY OpsAre
  <1>7. Found(t) = {k}
    BY <1>5, <1>6 DEF Found
  <1>8. QED
    BY <1>2, <1>5, <1>7

LEMMA FoundTwo ==
  ASSUME NEW l \in Tokens, NEW r \in Tokens, l.kind # "op", r.kind # "op", NEW k \in 1 .. 4,
         NEW t, t = <<l, Char(bpOpIDs[k][1][1]), Char(bpOpIDs[k][1][2]), r>>
  PROVE  /\ t \in Seq(Tokens) /\ k \in Found(t) /\ \A i \in Found(t) : k <= i
         /\ Occurs(t, bpOpIDs[k][1]) = {2}
  <1> DEFINE a == bpOpIDs[k][1][1]
             b == bpOpIDs[k][1][2]
  <1>1. a \in Symbols /\ b \in Symbols /\ bpOpIDs[k][1] = <<a, b>>
    <2>1. k = 1 \/ k = 2 \/ k = 3 \/ k = 4
      OBVIOUS
    <2>2. QED
      BY <2>1, OpsAre DEF Symbols
  <1>2. /\ k = 2 => a # "<"
        /\ k = 3 => a = "="
        /\ k = 4 => b = ">"
    BY OpsAre
  <1> HIDE DEF a, b
  <1>3. /\ t \in Seq(Tokens) /\ Len(t) = 4
        /\ t[1] = l /\ t[2] = Char(a) /\ t[3] = Char(b) /\ t[4] = r
    BY <1>1, TokensAre DEF a, b
  <1>4. \A x, y \in Symbols : Occurs(t, <<x, y>>) = IF x = a /\ y = b THEN {2} ELSE {}
    <2> TAKE x, y \in Symbols
    <2>1. Occurs(t, <<x, y>>) = {i \in 1 .. 4 - 1 : t[i] = Char(x) /\ t[i + 1] = Char(y)}
      BY <1>3, OccursTwo
    <2>2. \A i \in 1 .. 4 - 1 : t[i] = Char(x) /\ t[i + 1] = Char(y) <=> i = 2 /\ x = a /\ y = b
      BY <1>1, <1>3, CharsAre
    <2>3. Occurs(t, <<x, y>>) = {i \in 1 .. 4 - 1 : i = 2 /\ x = a /\ y = b}
      BY <2>1, <2>2
    <2>4. {i \in 1 .. 4 - 1 : i = 2 /\ x = a /\ y = b} = IF x = a /\ y = b THEN {2} ELSE {}
      OBVIOUS
    <2>5. QED
      BY ONLY <2>3, <2>4
  <1>5. Occurs(t, bpOpIDs[k][1]) = {2}
    BY <1>1, <1>4
  <1>6. \A i \in 1 .. 8 : i < k => Occurs(t, bpOpIDs[i][1]) = {}
    <2> TAKE i \in 1 .. 8
    <2> SUFFICES ASSUME i < k PROVE Occurs(t, bpOpIDs[i][1]) = {}
      OBVIOUS
    <2>1. "<" \in Symbols /\ "=" \in Symbols /\ ">" \in Symbols
      BY DEF Symbols
    <2>2. CASE i = 1
      <3>1. a # "<" \/ b # "="
        BY <1>2, <2>2
      <3>2. bpOpIDs[i][1] = <<"<", "=">>
        BY <2>2, OpsAre
      <3>3. QED
        BY <1>4, <2>1, <3>1, <3>2
    <2>3. CASE i = 2
      <3>1. a # ">" \/ b # "="
        BY <1>2, <2>3
      <3>2. bpOpIDs[i][1] = <<">", "=">>
        BY <2>3, OpsAre
      <3>3. QED
        BY <1>4, <2>1, <3>1, <3>2
    <2>4. CASE i = 3
      <3>1. a # "=" \/ b # "="
        BY <1>2, <2>4
      <3>2. bpOpIDs[i][1] = <<"=", "=">>
        BY <2>4, OpsAre
      <3>3. QED
        BY <1>4, <2>1, <3>1, <3>2
    <2>5. QED
      BY <2>2, <2>3, <2>4
  <1>7. DOMAIN bpOpIDs = 1 .. 8
    BY OpsAre
  <1>8. k \in Found(t)
    BY <1>5, <1>7 DEF Found
  <1>9. \A i \in Found(t) : k <= i
    BY <1>6, <1>7 DEF Found
  <1>10. QED
    BY <1>3, <1>5, <1>8, <1>9

\* The names of the registers and accesses differ.
LEMMA TypeNames ==
  /\ DOMAIN bpTypeNames = 1 .. 8
  /\ \A i \in 1 .. 8 : bpTypeNames[i] \in Spellings
  /\ \A i, j \in 1 .. 8 : Name(bpTypeNames[i]) = Name(bpTypeNames[j]) => i = j
  <1>1. DOMAIN bpTypeNames = 1 .. 8
    BY DEF bpTypeNames
  <1>2. \A i, j \in 1 .. 8 : bpTypeNames[i] = bpTypeNames[j] => i = j
    BY DEF bpTypeNames
  <1>3. QED
    BY <1>1, <1>2 DEF Spellings, Name, Token

\* Addresses and values are numbers.
LEMMA WordsAre == Words \subseteq Nat /\ 0 \in Words /\ Word - 1 \in Words
  BY SMT DEF Words, Word

\* What is compared is a condition.
LEMMA ConditionIn ==
  ASSUME NEW y \in 1 .. 9, NEW op \in 1 .. 6, NEW a \in Words, NEW v \in Words,
         y # MemType => a = 0
  PROVE  Condition(y, op, a, v) \in Conditions
  BY DEF Condition, Conditions

LEMMA ComparedType ==
  ASSUME NEW left, NEW op \in 1 .. 6, NEW right
  PROVE  Compared(left, op, right) = Refused
            \/ \E c \in Conditions : Compared(left, op, right) = <<c>>
  <1> DEFINE y == First(NamedBy(left))
  <1>1. NamedBy(left) # {} => y \in 1 .. 8
    <2>1. NamedBy(left) \in SUBSET Nat /\ NamedBy(left) \subseteq 1 .. 8
      BY TypeNames DEF NamedBy
    <2>2. QED
      BY <2>1, FirstIn
  <1> HIDE DEF y
  <1>2. ASSUME Tells(right, "number"), NamedBy(left) # {}
        PROVE  Condition(y, op, 0, right[1].value) \in Conditions
    <2>1. y \in 1 .. 9 /\ right[1].value \in Words /\ 0 \in Words
      BY <1>1, <1>2, WordsAre DEF Tells
    <2>2. QED
      BY <2>1, ConditionIn
  <1>3. ASSUME Tells(right, "number"), Tells(left, "mem")
        PROVE  Condition(MemType, op, left[1].value, right[1].value) \in Conditions
    <2>1. right[1].value \in Words /\ left[1].value \in Words /\ MemType \in 1 .. 9
      BY <1>3 DEF Tells, MemType
    <2>2. QED
      BY <2>1, ConditionIn
  <1>4. QED
    BY <1>2, <1>3 DEF Compared, y

\* A text is a condition or is none.
LEMMA ParseType ==
  ASSUME NEW t \in Seq(Tokens)
  PROVE  ParseBPCondition(t) = Refused \/ \E c \in Conditions : ParseBPCondition(t) = <<c>>
  <1>1. CASE Found(t) = {}
    BY <1>1 DEF ParseBPCondition
  <1>2. CASE Found(t) # {}
    <2> DEFINE k == First(Found(t))
               op == bpOpIDs[k]
               sides == Sides(t, op[1])
    <2>1. op[2] \in 1 .. 6
      <3>1. Found(t) \in SUBSET Nat /\ Found(t) \subseteq 1 .. 8
        BY OpsAre DEF Found
      <3>2. k \in 1 .. 8
        BY <1>2, <3>1, FirstIn
      <3> HIDE DEF k
      <3>3. \/ k = 1 \/ k = 2 \/ k = 3 \/ k = 4 \/ k = 5 \/ k = 6 \/ k = 7 \/ k = 8
        BY <3>2
      <3>4. QED
        BY <3>3, OpsAre
    <2>2. ParseBPCondition(t) = Compared(sides[1], op[2], sides[2])
      BY <1>2 DEF ParseBPCondition
    <2> HIDE DEF op, sides
    <2>3. QED
      BY <2>1, <2>2, ComparedType
  <1>3. QED
    BY <1>1, <1>2

\* One element of a sequence; three and four elements.
LEMMA OneOf ==
  ASSUME NEW X, NEW l \in X, NEW t \in Seq(X), NEW n \in 1 .. Len(t), t[n] = l
  PROVE  SubSeq(t, n, n) = <<l>>
  <1>1. n \in Int /\ \A i \in n .. n : t[i] \in X
    BY ElementOfSeq
  <1> DEFINE s == SubSeq(t, n, n)
  <1>2. s \in Seq(X) /\ Len(s) = 1 /\ s[1] = l
    <2>1. /\ s \in Seq(X) /\ (Len(s) = IF n <= n THEN n - n + 1 ELSE 0)
          /\ \A i \in 1 .. n - n + 1 : s[i] = t[n + i - 1]
      BY <1>1, SubSeqProperties
    <2> HIDE DEF s
    <2>2. n - n + 1 = 1 /\ n + 1 - 1 = n
      OBVIOUS
    <2>3. QED
      BY <2>1, <2>2
  <1> HIDE DEF s
  <1>3. <<l>> \in Seq(X) /\ Len(<<l>>) = 1 /\ <<l>>[1] = l
    OBVIOUS
  <1>4. s = <<l>>
    BY <1>2, <1>3, SeqEqual
  <1>5. QED
    BY <1>4 DEF s

LEMMA BothOf ==
  ASSUME NEW X, NEW s \in Seq(X), NEW t \in Seq(X)
  PROVE  /\ s \o t \in Seq(X) /\ Len(s \o t) = Len(s) + Len(t)
         /\ \A i \in 1 .. Len(s) : (s \o t)[i] = s[i]
         /\ \A i \in 1 .. Len(t) : (s \o t)[Len(s) + i] = t[i]
  <1> DEFINE u == s \o t
             m == Len(s)
             n == Len(t)
  <1>1. /\ u \in Seq(X) /\ Len(u) = m + n /\ m \in Nat /\ n \in Nat
        /\ \A i \in 1 .. m + n : u[i] = IF i <= m THEN s[i] ELSE t[i - m]
    BY ConcatProperties, LenProperties
  <1> HIDE DEF u, m, n
  <1>2. \A i \in 1 .. m : u[i] = s[i]
    BY <1>1
  <1>3. \A i \in 1 .. n : u[m + i] = t[i]
    <2> TAKE i \in 1 .. n
    <2>1. m + i \in 1 .. m + n /\ ~(m + i <= m) /\ m + i - m = i
      BY <1>1
    <2>2. QED
      BY <1>1, <2>1
  <1>4. QED
    BY <1>1, <1>2, <1>3 DEF u, m, n

LEMMA Three ==
  ASSUME NEW X, NEW l \in X, NEW a \in X, NEW r \in X
  PROVE  <<l>> \o <<a>> \o <<r>> = <<l, a, r>>
  <1> DEFINE x == <<l>>
             y == <<a>>
             z == <<r>>
             u == x \o y
             v == u \o z
             w == <<l, a, r>>
  <1>1. /\ x \in Seq(X) /\ Len(x) = 1 /\ x[1] = l
        /\ y \in Seq(X) /\ Len(y) = 1 /\ y[1] = a
        /\ z \in Seq(X) /\ Len(z) = 1 /\ z[1] = r
    OBVIOUS
  <1>2. w \in Seq(X) /\ Len(w) = 3 /\ w[1] = l /\ w[2] = a /\ w[3] = r
    OBVIOUS
  <1> HIDE DEF w, x, y, z
  <1>3. u \in Seq(X) /\ Len(u) = 2 /\ u[1] = l /\ u[2] = a
    <2>1. x \in Seq(X) /\ y \in Seq(X)
      BY <1>1
    <2>2. u \in Seq(X) /\ Len(u) = Len(x) + Len(y)
      BY <2>1, BothOf
    <2>3. \A i \in 1 .. Len(x) : u[i] = x[i]
      BY <2>1, BothOf
    <2>4. \A i \in 1 .. Len(y) : u[Len(x) + i] = y[i]
      BY <2>1, BothOf
    <2> HIDE DEF u
    <2>5. QED
      BY <1>1, <2>2, <2>3, <2>4
  <1> HIDE DEF u
  <1>4. v \in Seq(X) /\ Len(v) = 3 /\ v[1] = l /\ v[2] = a /\ v[3] = r
    <2>1. u \in Seq(X) /\ z \in Seq(X)
      BY <1>1, <1>3
    <2>2. v \in Seq(X) /\ Len(v) = Len(u) + Len(z)
      BY <2>1, BothOf
    <2>3. \A i \in 1 .. Len(u) : v[i] = u[i]
      BY <2>1, BothOf
    <2>4. \A i \in 1 .. Len(z) : v[Len(u) + i] = z[i]
      BY ONLY <2>1, BothOf
    <2> HIDE DEF v
    <2>5. QED
      BY <1>1, <1>3, <2>2, <2>3, <2>4
  <1> HIDE DEF v
  <1>5. \A i \in 1 .. 3 : i = 1 \/ i = 2 \/ i = 3
    OBVIOUS
  <1>6. v = w
    BY <1>2, <1>4, <1>5, SeqEqual
  <1>7. QED
    BY <1>6 DEF u, v, w, x, y, z

LEMMA Four ==
  ASSUME NEW X, NEW l \in X, NEW a \in X, NEW b \in X, NEW r \in X
  PROVE  <<l>> \o <<a, b>> \o <<r>> = <<l, a, b, r>>
  <1> DEFINE x == <<l>>
             y == <<a, b>>
             z == <<r>>
             u == x \o y
             v == u \o z
             w == <<l, a, b, r>>
  <1>1. /\ x \in Seq(X) /\ Len(x) = 1 /\ x[1] = l
        /\ y \in Seq(X) /\ Len(y) = 2 /\ y[1] = a /\ y[2] = b
        /\ z \in Seq(X) /\ Len(z) = 1 /\ z[1] = r
    OBVIOUS
  <1>2. w \in Seq(X) /\ Len(w) = 4 /\ w[1] = l /\ w[2] = a /\ w[3] = b /\ w[4] = r
    OBVIOUS
  <1> HIDE DEF w, x, y, z
  <1>3. u \in Seq(X) /\ Len(u) = 3 /\ u[1] = l /\ u[2] = a /\ u[3] = b
    <2>1. x \in Seq(X) /\ y \in Seq(X)
      BY <1>1
    <2>2. u \in Seq(X) /\ Len(u) = Len(x) + Len(y)
      BY <2>1, BothOf
    <2>3. \A i \in 1 .. Len(x) : u[i] = x[i]
      BY <2>1, BothOf
    <2>4. \A i \in 1 .. Len(y) : u[Len(x) + i] = y[i]
      BY <2>1, BothOf
    <2> HIDE DEF u
    <2>5. QED
      BY <1>1, <2>2, <2>3, <2>4
  <1> HIDE DEF u
  <1>4. v \in Seq(X) /\ Len(v) = 4 /\ v[1] = l /\ v[2] = a /\ v[3] = b /\ v[4] = r
    <2>1. u \in Seq(X) /\ z \in Seq(X)
      BY <1>1, <1>3
    <2>2. v \in Seq(X) /\ Len(v) = Len(u) + Len(z)
      BY <2>1, BothOf
    <2>3. \A i \in 1 .. Len(u) : v[i] = u[i]
      BY <2>1, BothOf
    <2>4. \A i \in 1 .. Len(z) : v[Len(u) + i] = z[i]
      BY ONLY <2>1, BothOf
    <2> HIDE DEF v
    <2>5. QED
      BY <1>1, <1>3, <2>2, <2>3, <2>4
  <1> HIDE DEF v
  <1>5. \A i \in 1 .. 4 : i = 1 \/ i = 2 \/ i = 3 \/ i = 4
    OBVIOUS
  <1>6. v = w
    BY <1>2, <1>4, <1>5, SeqEqual
  <1>7. QED
    BY <1>6 DEF u, v, w, x, y, z

LEMMA ThreeTokens ==
  ASSUME NEW X, NEW l \in X, NEW a \in X, NEW r \in X
  PROVE  /\ <<l, a, r>> \in Seq(X) /\ Len(<<l, a, r>>) = 3
         /\ SubSeq(<<l, a, r>>, 1, 1) = <<l>> /\ SubSeq(<<l, a, r>>, 3, 3) = <<r>>
  <1> DEFINE t == <<l, a, r>>
  <1>1. t \in Seq(X) /\ Len(t) = 3 /\ t[1] = l /\ t[3] = r
    OBVIOUS
  <1> HIDE DEF t
  <1>2. 1 \in 1 .. Len(t) /\ 3 \in 1 .. Len(t)
    BY <1>1
  <1>3. SubSeq(t, 1, 1) = <<l>> /\ SubSeq(t, 3, 3) = <<r>>
    BY <1>1, <1>2, OneOf
  <1>4. QED
    BY <1>1, <1>3 DEF t

LEMMA FourTokens ==
  ASSUME NEW X, NEW l \in X, NEW a \in X, NEW b \in X, NEW r \in X
  PROVE  /\ <<l, a, b, r>> \in Seq(X) /\ Len(<<l, a, b, r>>) = 4
         /\ SubSeq(<<l, a, b, r>>, 1, 1) = <<l>> /\ SubSeq(<<l, a, b, r>>, 4, 4) = <<r>>
  <1> DEFINE t == <<l, a, b, r>>
  <1>1. t \in Seq(X) /\ Len(t) = 4 /\ t[1] = l /\ t[4] = r
    OBVIOUS
  <1> HIDE DEF t
  <1>2. 1 \in 1 .. Len(t) /\ 4 \in 1 .. Len(t)
    BY <1>1
  <1>3. SubSeq(t, 1, 1) = <<l>> /\ SubSeq(t, 4, 4) = <<r>>
    BY <1>1, <1>2, OneOf
  <1>4. QED
    BY <1>1, <1>3 DEF t

\* The two sides of a condition as they are written.
LeftToken(c) == IF c.type = MemType THEN Mem(c.addr) ELSE Name(bpTypeNames[c.type])
RightToken(c) == Number(IF c.type \in 2 .. 5 THEN "2" ELSE "4", c.value)

LEMMA FormatIs ==
  ASSUME NEW c \in Conditions
  PROVE  /\ FormatBPCondition(c) = <<LeftToken(c)>> \o Chars(bpOpNames[c.op]) \o <<RightToken(c)>>
         /\ LeftToken(c) \in Tokens \ {And, Or} /\ LeftToken(c).kind # "op"
         /\ RightToken(c) \in Tokens \ {And, Or} /\ RightToken(c).kind # "op"
  <1>1. /\ c.type \in 1 .. 9 /\ c.op \in 1 .. 6 /\ c.addr \in Nat /\ c.value \in Nat
        /\ c.type # MemType => c.type \in DOMAIN bpTypeNames /\ c.type \in 1 .. 8
    <2>1. c \in [type : 1 .. 9, op : 1 .. 6, addr : Words, value : Words]
      BY DEF Conditions
    <2>2. c.type \in 1 .. 9 /\ c.op \in 1 .. 6 /\ c.addr \in Nat /\ c.value \in Nat
      BY <2>1, WordsAre
    <2>3. \A y \in 1 .. 9 : y # 9 => y \in 1 .. 8
      OBVIOUS
    <2>4. QED
      BY <2>2, <2>3, TypeNames DEF MemType
  <1>2. DOMAIN bpOpNames = 1 .. 6
    BY DEF bpOpNames
  <1>3. /\ FormatBPCondition(c) = <<LeftToken(c)>> \o Chars(bpOpNames[c.op]) \o <<RightToken(c)>>
    <2>1. CASE c.type = MemType
      <3>1. c.type \notin DOMAIN bpTypeNames
        BY <2>1, TypeNames DEF MemType
      <3>2. QED
        BY <1>1, <1>2, <2>1, <3>1 DEF FormatBPCondition, LeftToken, RightToken
    <2>2. CASE c.type # MemType
      BY <1>1, <1>2, <2>2 DEF FormatBPCondition, LeftToken, RightToken
    <2>3. QED
      BY <2>1, <2>2
  <1>4. LeftToken(c) \in Tokens \ {And, Or} /\ LeftToken(c).kind # "op"
    BY <1>1, TypeNames, TokensAre, CharsAre DEF LeftToken
  <1>5. RightToken(c) \in Tokens \ {And, Or} /\ RightToken(c).kind # "op"
    <2>1. "2" \in Spellings /\ "4" \in Spellings
      BY DEF Spellings
    <2>2. QED
      BY <1>1, <2>1, TokensAre, CharsAre DEF RightToken
  <1>6. QED
    BY <1>3, <1>4, <1>5

\* The sides that are written for a condition are compared as it says.
LEMMA ComparedKnown ==
  ASSUME NEW c \in Conditions
  PROVE  Compared(<<LeftToken(c)>>, c.op, <<RightToken(c)>>) = <<c>>
  <1> DEFINE left == <<LeftToken(c)>>
             right == <<RightToken(c)>>
  <1>1. /\ c \in [type : 1 .. 9, op : 1 .. 6, addr : Words, value : Words]
        /\ c.type # MemType => c.addr = 0
    BY DEF Conditions
  <1>2. Tells(right, "number") /\ right[1].value = c.value
    BY <1>1 DEF Tells, RightToken, Number, Token
  <1>3. CASE c.type = MemType
    <2>1. left = <<Mem(c.addr)>>
      BY <1>3 DEF LeftToken
    <2>2. Tells(left, "mem") /\ left[1].value = c.addr
      <3>1. left[1] = Mem(c.addr) /\ Len(left) = 1
        BY <2>1
      <3>2. Mem(c.addr).kind = "mem" /\ Mem(c.addr).value = c.addr /\ c.addr \in Words
        BY <1>1 DEF Mem, Token
      <3> HIDE DEF left
      <3>3. QED
        BY <3>1, <3>2 DEF Tells
    <2>3. NamedBy(left) = {}
      BY <2>1, CharsAre DEF NamedBy
    <2>4. Condition(MemType, c.op, c.addr, c.value) = c
      BY <1>1, <1>3 DEF Condition
    <2> HIDE DEF left, right
    <2>5. QED
      BY <1>2, <2>2, <2>3, <2>4 DEF Compared, left, right
  <1>4. CASE c.type # MemType
    <2>1. left = <<Name(bpTypeNames[c.type])>> /\ c.type \in 1 .. 8
      BY <1>1, <1>4 DEF LeftToken, MemType
    <2>2. NamedBy(left) = {c.type}
      BY <2>1, TypeNames DEF NamedBy
    <2>3. First({c.type}) = c.type
      BY <2>1, FirstIs
    <2>4. Condition(c.type, c.op, 0, c.value) = c
      BY <1>1, <1>4 DEF Condition
    <2> HIDE DEF left, right
    <2>5. QED
      BY <1>2, <2>2, <2>3, <2>4 DEF Compared, left, right
  <1>5. QED
    BY <1>3, <1>4

\* A condition whose operator is found, and whose sides are those written.
LEMMA ParseKnown ==
  ASSUME NEW c \in Conditions, NEW t, NEW k \in 1 .. 8, Found(t) # {}, First(Found(t)) = k,
         bpOpIDs[k][2] = c.op, Sides(t, bpOpIDs[k][1]) = << <<LeftToken(c)>>, <<RightToken(c)>> >>
  PROVE  ParseBPCondition(t) = <<c>>
  <1>1. ParseBPCondition(t) = Compared(<<LeftToken(c)>>, c.op, <<RightToken(c)>>)
    BY DEF ParseBPCondition
  <1>2. QED
    BY <1>1, ComparedKnown

\* ParseBPCondition reads what FormatBPCondition writes, and no word is in it.
LEMMA ParseFormat ==
  ASSUME NEW c \in Conditions
  PROVE  /\ FormatBPCondition(c) \in Seq(Tokens \ {And, Or})
         /\ ParseBPCondition(FormatBPCondition(c)) = <<c>>
  <1> DEFINE t == FormatBPCondition(c)
             l == LeftToken(c)
             r == RightToken(c)
             X == Tokens \ {And, Or}
  <1>1. /\ t = <<l>> \o Chars(bpOpNames[c.op]) \o <<r>>
        /\ l \in X /\ r \in X /\ l.kind # "op" /\ r.kind # "op"
        /\ l \in Tokens /\ r \in Tokens
    BY FormatIs
  <1>2. c.op \in 1 .. 6
    BY DEF Conditions
  <1> HIDE DEF t, l, r
  <1>3. ASSUME NEW k \in {7, 8}, bpOpNames[c.op] = bpOpIDs[k][1], c.op = bpOpIDs[k][2]
        PROVE  t \in Seq(X) /\ ParseBPCondition(t) = <<c>>
    <2> DEFINE a == bpOpIDs[k][1][1]
    <2>1. bpOpIDs[k][1] = <<a>> /\ a \in Symbols
      <3>1. k = 7 \/ k = 8
        OBVIOUS
      <3>2. QED
        BY <3>1, OpsAre DEF Symbols
    <2>2. Chars(<<a>>) = <<Char(a)>> /\ Char(a) \in Tokens /\ Char(a) \in X
      BY <2>1, TokensAre DEF Chars
    <2>3. /\ t \in Seq(X) /\ t = <<l, Char(a), r>> /\ Len(t) = 3
          /\ SubSeq(t, 1, 1) = <<l>> /\ SubSeq(t, 3, 3) = <<r>>
      <3> HIDE DEF a, X
      <3>1. t = <<l>> \o <<Char(a)>> \o <<r>>
        BY <1>1, <1>3, <2>1, <2>2
      <3> DEFINE ca == Char(a)
      <3>2. l \in X /\ r \in X /\ ca \in X
        BY <1>1, <2>2
      <3>3. t = <<l>> \o <<ca>> \o <<r>>
        BY <3>1
      <3> HIDE DEF ca
      <3>4. /\ t \in Seq(X) /\ t = <<l, ca, r>>
            /\ Len(t) = 3 /\ SubSeq(t, 1, 1) = <<l>> /\ SubSeq(t, 3, 3) = <<r>>
        <4>1. <<l>> \o <<ca>> \o <<r>> = <<l, ca, r>>
          BY <3>2, Three
        <4>2. QED
          <5>1. <<l, ca, r>> \in Seq(X) /\ Len(<<l, ca, r>>) = 3
            BY <3>2, ThreeTokens
          <5>2. SubSeq(<<l, ca, r>>, 1, 1) = <<l>> /\ SubSeq(<<l, ca, r>>, 3, 3) = <<r>>
            BY <3>2, ThreeTokens
          <5>3. QED
            BY <3>3, <4>1, <5>1, <5>2
      <3>5. QED
        BY <3>4 DEF ca
    <2>4. Found(t) = {k} /\ Occurs(t, bpOpIDs[k][1]) = {2}
      <3>1. t = <<l, Char(bpOpIDs[k][1][1]), r>>
        BY <2>3
      <3>2. l \in Tokens /\ r \in Tokens /\ l.kind # "op" /\ r.kind # "op"
        BY <1>1
      <3>3. QED
        BY <3>1, <3>2, FoundOne
    <2>5. First({k}) = k
      BY FirstIs
    <2>6. Sides(t, bpOpIDs[k][1]) = << <<l>>, <<r>> >>
      <3> DEFINE o == bpOpIDs[k][1]
      <3>1. Len(o) = 1 /\ First(Occurs(t, o)) = 2
        <4>1. First({2}) = 2
          BY FirstIs
        <4>2. QED
          BY <2>1, <2>4, <4>1
      <3> HIDE DEF o
      <3>2. QED
        BY <2>3, <3>1 DEF Sides, o
    <2>8. ParseBPCondition(t) = <<c>>
      <3>1. k \in 1 .. 8 /\ Found(t) # {} /\ First(Found(t)) = k
        BY <2>4, <2>5
      <3>2. QED
        BY <1>3, <2>4, <2>6, <3>1, ParseKnown DEF l, r
    <2>9. QED
      BY <2>3, <2>8
  <1>4. ASSUME NEW k \in 1 .. 4, bpOpNames[c.op] = bpOpIDs[k][1], c.op = bpOpIDs[k][2]
        PROVE  t \in Seq(X) /\ ParseBPCondition(t) = <<c>>
    <2> DEFINE a == bpOpIDs[k][1][1]
               b == bpOpIDs[k][1][2]
    <2>1. bpOpIDs[k][1] = <<a, b>> /\ a \in Symbols /\ b \in Symbols
      <3>1. k = 1 \/ k = 2 \/ k = 3 \/ k = 4
        OBVIOUS
      <3>2. QED
        BY <3>1, OpsAre DEF Symbols
    <2>2. /\ Chars(<<a, b>>) = <<Char(a), Char(b)>> /\ Char(a) \in Tokens /\ Char(a) \in X
          /\ Char(b) \in Tokens /\ Char(b) \in X
      <3> HIDE DEF a, b
      <3>1. Chars(<<a, b>>) = <<Char(a), Char(b)>>
        BY DEF Chars
      <3>2. QED
        BY <2>1, <3>1, TokensAre
    <2>3. /\ t \in Seq(X) /\ t = <<l, Char(a), Char(b), r>> /\ Len(t) = 4
          /\ SubSeq(t, 1, 1) = <<l>> /\ SubSeq(t, 4, 4) = <<r>>
      <3> HIDE DEF a, b, X
      <3>1. t = <<l>> \o <<Char(a), Char(b)>> \o <<r>>
        BY <1>1, <1>4, <2>1, <2>2
      <3> DEFINE ca == Char(a)
                 cb == Char(b)
      <3>2. l \in X /\ r \in X /\ ca \in X /\ cb \in X
        BY <1>1, <2>2
      <3>3. t = <<l>> \o <<ca, cb>> \o <<r>>
        BY <3>1
      <3> HIDE DEF ca, cb
      <3>4. /\ t \in Seq(X) /\ t = <<l, ca, cb, r>>
            /\ Len(t) = 4 /\ SubSeq(t, 1, 1) = <<l>> /\ SubSeq(t, 4, 4) = <<r>>
        <4>1. <<l>> \o <<ca, cb>> \o <<r>> = <<l, ca, cb, r>>
          BY <3>2, Four
        <4>2. QED
          <5>1. <<l, ca, cb, r>> \in Seq(X) /\ Len(<<l, ca, cb, r>>) = 4
            BY <3>2, FourTokens
          <5>2. SubSeq(<<l, ca, cb, r>>, 1, 1) = <<l>> /\ SubSeq(<<l, ca, cb, r>>, 4, 4) = <<r>>
            BY <3>2, FourTokens
          <5>3. QED
            BY <3>3, <4>1, <5>1, <5>2
      <3>5. QED
        BY <3>4 DEF ca, cb
    <2>4. k \in Found(t) /\ (\A i \in Found(t) : k <= i) /\ Occurs(t, bpOpIDs[k][1]) = {2}
      BY <1>1, <2>3, FoundTwo
    <2>5. First(Found(t)) = k
      <3>1. Found(t) \in SUBSET Nat
        BY OpsAre DEF Found
      <3>2. QED
        BY <2>4, <3>1, FirstIs
    <2>6. Sides(t, bpOpIDs[k][1]) = << <<l>>, <<r>> >>
      <3> DEFINE o == bpOpIDs[k][1]
      <3>1. Len(o) = 2 /\ First(Occurs(t, o)) = 2
        <4>1. First({2}) = 2
          BY FirstIs
        <4>2. QED
          BY <2>1, <2>4, <4>1
      <3> HIDE DEF o
      <3>2. QED
        BY <2>3, <3>1 DEF Sides, o
    <2>8. ParseBPCondition(t) = <<c>>
      <3>1. k \in 1 .. 8 /\ Found(t) # {}
        BY <2>4
      <3>2. QED
        BY <1>4, <2>4, <2>5, <2>6, <3>1, ParseKnown DEF l, r
    <2>9. QED
      BY <2>3, <2>8
  <1>5. \/ \E k \in {7, 8} : bpOpNames[c.op] = bpOpIDs[k][1] /\ c.op = bpOpIDs[k][2]
        \/ \E k \in 1 .. 4 : bpOpNames[c.op] = bpOpIDs[k][1] /\ c.op = bpOpIDs[k][2]
    <2>1. /\ bpOpNames[1] = bpOpIDs[7][1] /\ bpOpNames[2] = bpOpIDs[1][1]
          /\ bpOpNames[3] = bpOpIDs[3][1] /\ bpOpNames[4] = bpOpIDs[4][1]
          /\ bpOpNames[5] = bpOpIDs[2][1] /\ bpOpNames[6] = bpOpIDs[8][1]
      BY OpsAre DEF bpOpNames
    <2>2. c.op = 1 \/ c.op = 2 \/ c.op = 3 \/ c.op = 4 \/ c.op = 5 \/ c.op = 6
      BY <1>2
    <2>3. QED
      BY SMTT(30), <2>1, <2>2, OpsAre
  <1>6. QED
    BY <1>3, <1>4, <1>5 DEF t

(***************************************************************************)
(* An expression that is written and parsed again.                         *)
(***************************************************************************)

\* A function on the first numbers is a sequence.
LEMMA FunSeq ==
  ASSUME NEW X, NEW n \in Nat, NEW f \in [1 .. n -> X]
  PROVE  f \in Seq(X) /\ Len(f) = n
  <1>1. f \in Seq(X)
    BY SeqDef
  <1>2. DOMAIN f = 1 .. Len(f) /\ Len(f) \in Nat /\ DOMAIN f = 1 .. n
    BY <1>1, LenProperties
  <1>3. QED
    BY <1>1, <1>2

\* A sequence of elements that are in a smaller or a larger set.
LEMMA SeqIn ==
  ASSUME NEW X, NEW Y, X \subseteq Y
  PROVE  Seq(X) \subseteq Seq(Y)
  <1>1. \A s \in Seq(X) : s \in Seq(Y)
    BY SeqMonotonic
  <1>2. QED
    BY <1>1

\* The conditions of a part of a text.
RowOf(part) == [j \in DOMAIN SplitAt(part, And) |-> ParseBPCondition(SplitAt(part, And)[j])]

LEMMA RowType ==
  ASSUME NEW part \in Seq(Tokens), \A j \in DOMAIN RowOf(part) : RowOf(part)[j] # Refused
  PROVE  [j \in DOMAIN RowOf(part) |-> RowOf(part)[j][1]] \in Clauses
  <1> DEFINE p == SplitAt(part, And)
             n == Len(p)
             f == [j \in 1 .. n |-> ParseBPCondition(p[j])[1]]
  <1>1. /\ p \in Seq(Seq(Tokens)) /\ p # <<>> /\ n \in Nat \ {0} /\ DOMAIN p = 1 .. n
        /\ \A j \in 1 .. n : p[j] \in Seq(Tokens)
    <2>1. p \in Seq(Seq(Tokens)) /\ p # <<>>
      BY SplitType DEF Parts
    <2> HIDE DEF p
    <2>2. QED
      BY <2>1, EmptySeq, LenProperties, ElementOfSeq
  <1>2. DOMAIN RowOf(part) = 1 .. n /\ \A j \in 1 .. n : RowOf(part)[j] = ParseBPCondition(p[j])
    BY <1>1 DEF RowOf
  <1> HIDE DEF p, n
  <1>3. ASSUME NEW j \in 1 .. n PROVE ParseBPCondition(p[j])[1] \in Conditions
    <2>1. ParseBPCondition(p[j]) # Refused /\ p[j] \in Seq(Tokens)
      BY <1>1, <1>2
    <2>2. PICK c \in Conditions : ParseBPCondition(p[j]) = <<c>>
      BY <2>1, ParseType
    <2>3. <<c>>[1] = c
      OBVIOUS
    <2>4. QED
      BY <2>2, <2>3
  <1>4. f \in [1 .. n -> Conditions]
    BY <1>3
  <1>5. [j \in DOMAIN RowOf(part) |-> RowOf(part)[j][1]] = f
    BY <1>2
  <1> HIDE DEF f
  <1>6. f \in Seq(Conditions) /\ Len(f) = n
    BY <1>1, <1>4, FunSeq
  <1>7. f # <<>>
    BY <1>1, <1>6, EmptySeq
  <1>8. QED
    BY <1>5, <1>6, <1>7 DEF Clauses

\* What ParseBPClauses makes of the parts of a text.
LEMMA ClausesAre ==
  ASSUME NEW t, NEW raw, raw = SplitAt(t, Or)
  PROVE  ParseBPClauses(t) =
            IF \E i \in DOMAIN raw : \E j \in DOMAIN RowOf(raw[i]) : RowOf(raw[i])[j] = Refused
            THEN Refused
            ELSE [i \in DOMAIN raw |-> [j \in DOMAIN RowOf(raw[i]) |-> RowOf(raw[i])[j][1]]]
  <1> DEFINE parsed == [i \in DOMAIN raw |-> RowOf(raw[i])]
  <1>1. ParseBPClauses(t) =
            IF \E i \in DOMAIN parsed : \E j \in DOMAIN parsed[i] : parsed[i][j] = Refused
            THEN Refused
            ELSE [i \in DOMAIN parsed |-> [j \in DOMAIN parsed[i] |-> parsed[i][j][1]]]
    BY DEF ParseBPClauses, RowOf
  <1>2. DOMAIN parsed = DOMAIN raw /\ \A i \in DOMAIN raw : parsed[i] = RowOf(raw[i])
    OBVIOUS
  <1> HIDE DEF parsed
  <1>3. QED
    BY <1>1, <1>2

\* An expression is a sequence of clauses.
LEMMA ParsedType ==
  ASSUME NEW t \in Seq(Tokens)
  PROVE  ParseBPClauses(t) \in Seq(Clauses)
  <1> DEFINE raw == SplitAt(t, Or)
             n == Len(raw)
             clause(i) == [j \in DOMAIN RowOf(raw[i]) |-> RowOf(raw[i])[j][1]]
             f == [i \in 1 .. n |-> clause(i)]
             Bad == \E i \in DOMAIN raw : \E j \in DOMAIN RowOf(raw[i]) : RowOf(raw[i])[j] = Refused
  <1>1. n \in Nat /\ DOMAIN raw = 1 .. n /\ \A i \in 1 .. n : raw[i] \in Seq(Tokens)
    <2>1. raw \in Seq(Seq(Tokens))
      BY SplitType DEF Parts
    <2> HIDE DEF raw
    <2>2. QED
      BY <2>1, LenProperties, ElementOfSeq
  <1>2. ParseBPClauses(t) = IF Bad THEN Refused ELSE [i \in DOMAIN raw |-> clause(i)]
    BY ClausesAre
  <1> HIDE DEF raw, n
  <1>3. CASE Bad
    <2>1. <<>> \in Seq(Clauses)
      BY EmptySeq
    <2>2. QED
      BY <1>2, <1>3, <2>1 DEF Refused
  <1>4. CASE ~Bad
    <2>1. ASSUME NEW i \in 1 .. n PROVE clause(i) \in Clauses
      <3>1. raw[i] \in Seq(Tokens) /\ \A j \in DOMAIN RowOf(raw[i]) : RowOf(raw[i])[j] # Refused
        BY <1>1, <1>4
      <3>2. QED
        BY <3>1, RowType
    <2> HIDE DEF clause, Bad
    <2>2. f \in [1 .. n -> Clauses]
      BY <2>1
    <2>3. ParseBPClauses(t) = f
      BY <1>1, <1>2, <1>4
    <2> HIDE DEF f
    <2>4. QED
      BY <1>1, <2>2, <2>3, FunSeq
  <1>5. QED
    BY <1>3, <1>4

\* A line of cmdBPList has one clause, and its parts are the conditions.
LEMMA ClauseText ==
  ASSUME NEW c \in Clauses
  PROVE  /\ FormatClause(c) \in Seq(Tokens \ {Or})
         /\ SplitAt(FormatClause(c), And) = [j \in DOMAIN c |-> FormatBPCondition(c[j])]
  <1> DEFINE s == [j \in DOMAIN c |-> FormatBPCondition(c[j])]
             n == Len(c)
             X == Seq(Tokens \ {And, Or})
  <1>1. /\ n \in Nat \ {0} /\ DOMAIN c = 1 .. n /\ \A j \in 1 .. n : c[j] \in Conditions
    <2>1. c \in Seq(Conditions) /\ c # <<>>
      BY DEF Clauses
    <2>2. QED
      BY <2>1, EmptySeq, LenProperties, ElementOfSeq
  <1> HIDE DEF n
  <1>2. s \in [1 .. n -> X]
    <2>1. \A j \in 1 .. n : FormatBPCondition(c[j]) \in X
      BY <1>1, ParseFormat
    <2> HIDE DEF X
    <2>2. QED
      BY <1>1, <2>1
  <1> HIDE DEF s
  <1>3. s \in Seq(X) /\ s # <<>>
    <2>1. s \in Seq(X) /\ Len(s) = n
      BY <1>1, <1>2, FunSeq
    <2>2. QED
      BY <1>1, <2>1, EmptySeq
  <1>4. X \subseteq Seq(Tokens \ {Or}) /\ X \subseteq Seq(Tokens \ {And})
    <2>1. Tokens \ {And, Or} \subseteq Tokens \ {Or} /\ Tokens \ {And, Or} \subseteq Tokens \ {And}
      OBVIOUS
    <2>2. QED
      BY <2>1, SeqIn
  <1> HIDE DEF X
  <1>5. s \in Seq(Seq(Tokens \ {Or})) /\ s \in Seq(Seq(Tokens \ {And}))
    BY <1>3, <1>4, SeqMonotonic
  <1>6. And \in Tokens \ {Or} /\ And \in Tokens
    BY TokensAre
  <1>7. FormatClause(c) = Joined(s, And)
    BY DEF FormatClause, s
  <1>8. Joined(s, And) \in Seq(Tokens \ {Or})
    <2> DEFINE T == Tokens \ {Or}
    <2>1. And \in T /\ s \in Seq(Seq(T))
      BY <1>5, <1>6
    <2> HIDE DEF T
    <2>2. Joined(s, And) \in Seq(T)
      BY <2>1, JoinedType
    <2>3. QED
      BY <2>2 DEF T
  <1>9. SplitAt(Joined(s, And), And) = s
    BY <1>3, <1>5, <1>6, SplitJoined
  <1>10. QED
    BY <1>7, <1>8, <1>9 DEF s

\* The lines of cmdBPList, joined by the word for "or", are the expression they were made from.
THEOREM LinesText ==
  ASSUME NEW table \in Seq(Clauses), table # <<>>,
         NEW lines, lines = [i \in DOMAIN table |-> FormatClause(table[i])]
  PROVE  ParseBPClauses(Joined(lines, Or)) = table
  <1> DEFINE n == Len(table)
             X == Seq(Tokens \ {Or})
             t == Joined(lines, Or)
  <1>1. n \in Nat \ {0} /\ DOMAIN table = 1 .. n /\ \A i \in 1 .. n : table[i] \in Clauses
    BY EmptySeq, LenProperties, ElementOfSeq
  <1> HIDE DEF n
  <1>2. lines \in Seq(X) /\ lines # <<>> /\ DOMAIN lines = 1 .. n
    <2>1. \A i \in 1 .. n : FormatClause(table[i]) \in X
      BY <1>1, ClauseText
    <2> HIDE DEF X
    <2>2. lines \in [1 .. n -> X]
      BY <1>1, <2>1
    <2>3. lines \in Seq(X) /\ Len(lines) = n
      BY <1>1, <2>2, FunSeq
    <2>4. QED
      BY <1>1, <2>2, <2>3, EmptySeq
  <1>3. SplitAt(t, Or) = lines
    BY <1>2, TokensAre, SplitJoined
  <1> HIDE DEF t
  <1>4. ASSUME NEW i \in 1 .. n
        PROVE  /\ \A j \in DOMAIN RowOf(lines[i]) : RowOf(lines[i])[j] # Refused
               /\ [j \in DOMAIN RowOf(lines[i]) |-> RowOf(lines[i])[j][1]] = table[i]
    <2> DEFINE c == table[i]
               s == [j \in DOMAIN c |-> FormatBPCondition(c[j])]
               m == Len(c)
    <2>1. /\ c \in Clauses /\ c \in Seq(Conditions) /\ m \in Nat /\ DOMAIN c = 1 .. m
          /\ c \in [1 .. m -> Conditions]
          /\ \A j \in 1 .. m : c[j] \in Conditions
      <3>1. c \in Clauses /\ c \in Seq(Conditions)
        BY <1>1 DEF Clauses
      <3> HIDE DEF c
      <3>2. QED
        BY <3>1, LenProperties, ElementOfSeq
    <2>2. lines[i] = FormatClause(c)
      BY <1>1
    <2>3. SplitAt(lines[i], And) = s
      BY <2>1, <2>2, ClauseText
    <2> HIDE DEF c, m
    <2>4. RowOf(lines[i]) = [j \in 1 .. m |-> ParseBPCondition(FormatBPCondition(c[j]))]
      BY <2>1, <2>3 DEF RowOf
    <2>5. \A j \in 1 .. m : ParseBPCondition(FormatBPCondition(c[j])) = <<c[j]>>
      BY <2>1, ParseFormat
    <2>6. DOMAIN RowOf(lines[i]) = 1 .. m /\ \A j \in 1 .. m : RowOf(lines[i])[j] = <<c[j]>>
      BY <2>4, <2>5
    <2>7. \A j \in 1 .. m : <<c[j]>> # <<>> /\ <<c[j]>>[1] = c[j]
      OBVIOUS
    <2>8. \A j \in DOMAIN RowOf(lines[i]) : RowOf(lines[i])[j] # Refused
      BY <2>6, <2>7 DEF Refused
    <2>9. [j \in DOMAIN RowOf(lines[i]) |-> RowOf(lines[i])[j][1]] = c
      <3>1. [j \in DOMAIN RowOf(lines[i]) |-> RowOf(lines[i])[j][1]] = [j \in 1 .. m |-> c[j]]
        BY <2>6, <2>7
      <3>2. QED
        BY <2>1, <3>1
    <2>10. QED
      BY <2>8, <2>9 DEF c
  <1>5. ParseBPClauses(t) =
            IF \E i \in DOMAIN lines : \E j \in DOMAIN RowOf(lines[i]) : RowOf(lines[i])[j] = Refused
            THEN Refused
            ELSE [i \in DOMAIN lines |-> [j \in DOMAIN RowOf(lines[i]) |-> RowOf(lines[i])[j][1]]]
    BY <1>3, ClausesAre
  <1>6. ParseBPClauses(t) = [i \in 1 .. n |-> table[i]]
    <2> DEFINE row(i) == [j \in DOMAIN RowOf(lines[i]) |-> RowOf(lines[i])[j][1]]
    <2>1. \A i \in 1 .. n : row(i) = table[i]
      BY <1>4
    <2>2. ~\E i \in 1 .. n : \E j \in DOMAIN RowOf(lines[i]) : RowOf(lines[i])[j] = Refused
      BY <1>4
    <2>3. ParseBPClauses(t) = [i \in 1 .. n |-> row(i)]
      BY <1>2, <1>5, <2>2
    <2> HIDE DEF row
    <2>4. QED
      BY <2>1, <2>3
  <1>7. table \in [1 .. n -> Clauses]
    BY <1>1, LenProperties DEF n
  <1>8. QED
    BY <1>6, <1>7 DEF t

(***************************************************************************)
(* The wire.                                                               *)
(***************************************************************************)

\* The two bytes of a word.
LEMMA WordBytes ==
  ASSUME NEW v \in Words
  PROVE  /\ v % 256 \in Nat /\ (v \div 256) % 256 \in Nat
         /\ (v % 256) + 256 * ((v \div 256) % 256) = v
  <1> DEFINE q == v \div 256
             r == v % 256
  <1>1. v \in Nat /\ v < 256 * 256
    BY SMTT(30) DEF Words, Word
  <1>2. q \in Nat /\ r \in Nat /\ v = 256 * q + r /\ r < 256
    BY <1>1, SMT
  <1> HIDE DEF q, r
  <1>3. q < 256
    BY <1>1, <1>2, SMT
  <1>4. q % 256 = q
    BY <1>2, <1>3, SMT
  <1>5. r \in Nat /\ q % 256 \in Nat /\ r + 256 * (q % 256) = v
    BY <1>2, <1>4, SMT
  <1>6. QED
    BY <1>5 DEF q, r

\* The place of a byte of the j-th record.
LEMMA PlaceOf ==
  ASSUME NEW n \in Nat, NEW j \in 1 .. n, NEW b \in 1 .. 6
  PROVE  /\ 6 * (j - 1) + b \in 1 .. 6 * n
         /\ (6 * (j - 1) + b - 1) \div 6 + 1 = j
         /\ ((6 * (j - 1) + b - 1) % 6) + 1 = b
  <1> DEFINE q == j - 1
             k == 6 * q + (b - 1)
  <1>1. q \in Nat /\ b - 1 \in 0 .. 5 /\ q <= n - 1
    OBVIOUS
  <1>2. k \div 6 = q /\ k % 6 = b - 1 /\ k \in Nat
    BY <1>1
  <1>3. k = 6 * (j - 1) + b - 1
    BY <1>1
  <1>4. 6 * (j - 1) + b \in 1 .. 6 * n
    BY <1>1
  <1> HIDE DEF k
  <1>5. k \div 6 + 1 = j /\ (k % 6) + 1 = b
    BY <1>1, <1>2
  <1>6. QED
    BY <1>3, <1>4, <1>5

LEMMA PlaceIn ==
  ASSUME NEW n \in Nat, NEW k \in 1 .. 6 * n
  PROVE  (k - 1) \div 6 + 1 \in 1 .. n /\ ((k - 1) % 6) + 1 \in 1 .. 6
  <1> DEFINE m == k - 1
  <1>1. m \in Nat /\ m < 6 * n
    OBVIOUS
  <1> HIDE DEF m
  <1>2. m \div 6 \in Nat /\ m \div 6 < n /\ m % 6 \in 0 .. 5
    BY <1>1
  <1>3. QED
    BY <1>2 DEF m

\* Six bytes, two and two and two.
LEMMA SixBytes ==
  ASSUME NEW a \in Nat, NEW b \in Nat, NEW c \in Nat, NEW d \in Nat, NEW e \in Nat, NEW f \in Nat,
         NEW r, r = <<a, b>> \o <<c, d>> \o <<e, f>>
  PROVE  /\ r \in Seq(Nat) /\ Len(r) = 6
         /\ r[1] = a /\ r[2] = b /\ r[3] = c /\ r[4] = d /\ r[5] = e /\ r[6] = f
  <1> DEFINE x == <<a, b>>
             y == <<c, d>>
             z == <<e, f>>
             u == x \o y
             v == u \o z
  <1>1. /\ x \in Seq(Nat) /\ Len(x) = 2 /\ x[1] = a /\ x[2] = b
        /\ y \in Seq(Nat) /\ Len(y) = 2 /\ y[1] = c /\ y[2] = d
        /\ z \in Seq(Nat) /\ Len(z) = 2 /\ z[1] = e /\ z[2] = f
    OBVIOUS
  <1>2. r = v
    OBVIOUS
  <1> HIDE DEF x, y, z
  <1>3. u \in Seq(Nat) /\ Len(u) = 4 /\ u[1] = a /\ u[2] = b /\ u[3] = c /\ u[4] = d
    <2>1. x \in Seq(Nat) /\ y \in Seq(Nat)
      BY <1>1
    <2>2. u \in Seq(Nat) /\ Len(u) = Len(x) + Len(y)
      BY <2>1, BothOf
    <2>3. \A i \in 1 .. Len(x) : u[i] = x[i]
      BY <2>1, BothOf
    <2>4. \A i \in 1 .. Len(y) : u[Len(x) + i] = y[i]
      BY <2>1, BothOf
    <2> HIDE DEF u
    <2>5. QED
      BY <1>1, <2>2, <2>3, <2>4
  <1> HIDE DEF u
  <1>4. /\ v \in Seq(Nat) /\ Len(v) = 6 /\ v[1] = a /\ v[2] = b /\ v[3] = c /\ v[4] = d
        /\ v[5] = e /\ v[6] = f
    <2>1. u \in Seq(Nat) /\ z \in Seq(Nat)
      BY <1>1, <1>3
    <2>2. v \in Seq(Nat) /\ Len(v) = Len(u) + Len(z)
      BY <2>1, BothOf
    <2>3. \A i \in 1 .. Len(u) : v[i] = u[i]
      BY <2>1, BothOf
    <2>4. \A i \in 1 .. Len(z) : v[Len(u) + i] = z[i]
      BY ONLY <2>1, BothOf
    <2> HIDE DEF v
    <2>5. QED
      BY <1>1, <1>3, <2>2, <2>3, <2>4
  <1>5. QED
    BY <1>2, <1>4

\* The bytes of a condition.
LEMMA RecordIs ==
  ASSUME NEW c \in Conditions, NEW r, r = ConditionBytes(c)
  PROVE  /\ r \in Seq(Nat) /\ Len(r) = 6 /\ r[1] = c.type /\ r[2] = c.op
         /\ r[3] + 256 * r[4] = c.addr /\ r[5] + 256 * r[6] = c.value
  <1>1. c \in [type : 1 .. 9, op : 1 .. 6, addr : Words, value : Words]
    BY DEF Conditions
  <1>2. c.type \in Nat /\ c.op \in Nat /\ c.addr \in Words /\ c.value \in Words
    BY <1>1
  <1> DEFINE a == c.addr % 256
             b == (c.addr \div 256) % 256
             d == c.value % 256
             e == (c.value \div 256) % 256
  <1>3. /\ a \in Nat /\ b \in Nat /\ a + 256 * b = c.addr
        /\ d \in Nat /\ e \in Nat /\ d + 256 * e = c.value
    BY <1>2, WordBytes
  <1>4. r = <<c.type, c.op>> \o <<a, b>> \o <<d, e>>
    BY DEF ConditionBytes, Word16
  <1> HIDE DEF a, b, d, e
  <1>5. /\ r \in Seq(Nat) /\ Len(r) = 6 /\ r[1] = c.type /\ r[2] = c.op
        /\ r[3] = a /\ r[4] = b /\ r[5] = d /\ r[6] = e
    BY <1>2, <1>3, <1>4, SixBytes
  <1>6. QED
    BY <1>3, <1>5

\* A record that stands in the data is read as the condition it was made from.
LEMMA ConditionRead ==
  ASSUME NEW c \in Conditions, NEW data, NEW at \in Nat,
         \A b \in 1 .. 6 : data[at + b - 1] = ConditionBytes(c)[b]
  PROVE  ConditionAt(data, at) = c
  <1> DEFINE r == ConditionBytes(c)
  <1>1. /\ r[1] = c.type /\ r[2] = c.op
        /\ r[3] + 256 * r[4] = c.addr /\ r[5] + 256 * r[6] = c.value
    BY RecordIs
  <1> HIDE DEF r
  <1>2. /\ data[at] = r[1] /\ data[at + 1] = r[2] /\ data[at + 2] = r[3] /\ data[at + 2 + 1] = r[4]
        /\ data[at + 4] = r[5] /\ data[at + 4 + 1] = r[6]
    <2>1. /\ at + 1 - 1 = at /\ at + 2 - 1 = at + 1 /\ at + 3 - 1 = at + 2
          /\ at + 4 - 1 = at + 2 + 1 /\ at + 5 - 1 = at + 4 /\ at + 6 - 1 = at + 4 + 1
      OBVIOUS
    <2>2. \A b \in 1 .. 6 : data[at + b - 1] = r[b]
      BY DEF r
    <2>3. QED
      BY <2>1, <2>2
  <1>3. ConditionAt(data, at) = Condition(c.type, c.op, c.addr, c.value)
    BY <1>1, <1>2 DEF ConditionAt, Value16
  <1>4. c \in [type : 1 .. 9, op : 1 .. 6, addr : Words, value : Words]
    BY DEF Conditions
  <1>5. QED
    BY <1>3, <1>4 DEF Condition

\* The records of a clause.
PackedOf(clause) == Packed([j \in DOMAIN clause |-> ConditionBytes(clause[j])])

LEMMA PackedIs ==
  ASSUME NEW clause \in Seq(Conditions), NEW p, p = PackedOf(clause)
  PROVE  /\ p \in Seq(Nat) /\ Len(p) = 6 * Len(clause)
         /\ \A j \in 1 .. Len(clause) : \A b \in 1 .. 6 :
               p[6 * (j - 1) + b] = ConditionBytes(clause[j])[b]
  <1> DEFINE n == Len(clause)
             rec == [j \in DOMAIN clause |-> ConditionBytes(clause[j])]
  <1>1. n \in Nat /\ DOMAIN clause = 1 .. n /\ \A j \in 1 .. n : clause[j] \in Conditions
    BY LenProperties, ElementOfSeq
  <1> HIDE DEF n
  <1>2. ASSUME NEW j \in 1 .. n
        PROVE  rec[j] = ConditionBytes(clause[j]) /\ rec[j] \in Seq(Nat) /\ Len(rec[j]) = 6
    <2>1. rec[j] = ConditionBytes(clause[j])
      BY <1>1
    <2>2. QED
      BY <1>1, <2>1, RecordIs
  <1>3. rec \in Seq(Seq(Nat)) /\ Len(rec) = n
    <2>1. rec \in [1 .. n -> Seq(Nat)]
      BY <1>1, <1>2
    <2> HIDE DEF rec
    <2>2. QED
      BY <1>1, <2>1, FunSeq
  <1> HIDE DEF rec
  <1>4. p = [k \in 1 .. 6 * n |-> rec[(k - 1) \div 6 + 1][((k - 1) % 6) + 1]]
    BY <1>3 DEF PackedOf, Packed, rec
  <1>5. ASSUME NEW k \in 1 .. 6 * n PROVE rec[(k - 1) \div 6 + 1][((k - 1) % 6) + 1] \in Nat
    <2> DEFINE j == (k - 1) \div 6 + 1
               b == ((k - 1) % 6) + 1
    <2>1. j \in 1 .. n /\ b \in 1 .. 6
      BY <1>1, PlaceIn
    <2> HIDE DEF j, b
    <2>2. rec[j] \in Seq(Nat) /\ b \in 1 .. Len(rec[j])
      BY <1>2, <2>1
    <2>3. rec[j][b] \in Nat
      BY <2>2, ElementOfSeq
    <2>4. QED
      BY <2>3 DEF j, b
  <1>6. p \in Seq(Nat) /\ Len(p) = 6 * n
    <2>1. p \in [1 .. 6 * n -> Nat]
      BY <1>4, <1>5
    <2>2. 6 * n \in Nat
      BY <1>1
    <2>3. QED
      BY <2>1, <2>2, FunSeq
  <1>7. ASSUME NEW j \in 1 .. n, NEW b \in 1 .. 6
        PROVE  p[6 * (j - 1) + b] = ConditionBytes(clause[j])[b]
    <2> DEFINE k == 6 * (j - 1) + b
    <2>1. k \in 1 .. 6 * n /\ (k - 1) \div 6 + 1 = j /\ ((k - 1) % 6) + 1 = b
      BY <1>1, PlaceOf
    <2> HIDE DEF k
    <2>2. p[k] = rec[j][b]
      BY <1>4, <2>1
    <2>3. QED
      BY <1>2, <2>2 DEF k
  <1>8. QED
    BY <1>6, <1>7 DEF n

\* The emulator reads the clause that BPAddClause sent.
THEOREM ServerReads ==
  ASSUME NEW clause \in Seq(Conditions)
  PROVE  ServerClause(AddClausePayload(clause)) = clause
  <1> DEFINE n == Len(clause)
             p == PackedOf(clause)
             x == Word16(Word - 1)
             y == <<n, 0>>
             h == x \o y
             data == h \o p
  <1>1. n \in Nat /\ clause \in [1 .. n -> Conditions] /\ \A j \in 1 .. n : clause[j] \in Conditions
    BY LenProperties, ElementOfSeq
  <1>2. /\ p \in Seq(Nat) /\ Len(p) = 6 * n
        /\ \A j \in 1 .. n : \A b \in 1 .. 6 : p[6 * (j - 1) + b] = ConditionBytes(clause[j])[b]
    <2>1. p = PackedOf(clause) /\ n = Len(clause)
      OBVIOUS
    <2> HIDE DEF p, n
    <2>2. /\ p \in Seq(Nat) /\ Len(p) = 6 * Len(clause)
          /\ \A j \in 1 .. Len(clause) : \A b \in 1 .. 6 : p[6 * (j - 1) + b] = ConditionBytes(clause[j])[b]
      BY ONLY <2>1, clause \in Seq(Conditions), PackedIs
    <2>3. QED
      BY ONLY <2>1, <2>2
  <1>3. AddClausePayload(clause) = data
    BY DEF AddClausePayload, PackedOf
  <1> HIDE DEF n, p
  <1>4. x \in Seq(Nat) /\ Len(x) = 2
    <2>1. (Word - 1) % 256 \in Nat /\ ((Word - 1) \div 256) % 256 \in Nat
      <3> DEFINE last == Word - 1
      <3>1. last \in Words
        BY ONLY WordsAre
      <3> HIDE DEF last
      <3>2. last % 256 \in Nat /\ (last \div 256) % 256 \in Nat
        BY ONLY <3>1, WordBytes
      <3>3. QED
        BY ONLY <3>2 DEF last
    <2>2. QED
      BY <2>1 DEF Word16
  <1>5. y \in Seq(Nat) /\ Len(y) = 2 /\ y[1] = n
    BY <1>1
  <1> HIDE DEF x, y
  <1>6. h \in Seq(Nat) /\ Len(h) = 4 /\ h[3] = n
    <2>1. x \in Seq(Nat) /\ y \in Seq(Nat)
      BY <1>4, <1>5
    <2>2. h \in Seq(Nat) /\ Len(h) = Len(x) + Len(y)
      BY <2>1, BothOf
    <2>3. \A i \in 1 .. Len(y) : h[Len(x) + i] = y[i]
      BY <2>1, BothOf
    <2> HIDE DEF h
    <2>4. QED
      BY <1>4, <1>5, <2>2, <2>3
  <1> HIDE DEF h
  <1>7. data[3] = n /\ \A k \in 1 .. 6 * n : data[4 + k] = p[k]
    <2>1. h \in Seq(Nat) /\ p \in Seq(Nat)
      BY <1>2, <1>6
    <2>2. \A i \in 1 .. Len(h) : data[i] = h[i]
      BY <2>1, BothOf
    <2>3. \A i \in 1 .. Len(p) : data[Len(h) + i] = p[i]
      BY <2>1, BothOf
    <2> HIDE DEF data
    <2>4. QED
      BY <1>2, <1>6, <2>2, <2>3
  <1> HIDE DEF data
  <1>8. ASSUME NEW j \in 1 .. n PROVE ConditionAt(data, 5 + (j - 1) * 6) = clause[j]
    <2> DEFINE at == 5 + (j - 1) * 6
    <2>1. at \in Nat
      BY <1>1
    <2>2. \A b \in 1 .. 6 : data[at + b - 1] = ConditionBytes(clause[j])[b]
      <3> TAKE b \in 1 .. 6
      <3>1. at + b - 1 = 4 + (6 * (j - 1) + b)
        BY <1>1
      <3>2. 6 * (j - 1) + b \in 1 .. 6 * n
        BY <1>1, PlaceOf
      <3>3. QED
        BY <1>2, <1>7, <3>1, <3>2
    <2> HIDE DEF at
    <2>3. ConditionAt(data, at) = clause[j]
      BY <1>1, <2>1, <2>2, ConditionRead
    <2>4. QED
      BY <2>3 DEF at
  <1>9. ServerClause(data) = [j \in 1 .. n |-> clause[j]]
    BY <1>7, <1>8 DEF ServerClause
  <1>10. QED
    BY <1>1, <1>3, <1>9

\* A beginning that is one element longer.
LEMMA LongerBeginning ==
  ASSUME NEW X, NEW s \in Seq(X), NEW i \in 1 .. Len(s)
  PROVE  SubSeq(s, 1, i) = Append(SubSeq(s, 1, i - 1), s[i])
  <1> DEFINE u == SubSeq(s, 1, i - 1)
             v == SubSeq(s, 1, i)
             x == s[i]
             w == Append(u, x)
  <1>1. Len(s) \in Nat /\ \A k \in 1 .. Len(s) : s[k] \in X
    BY LenProperties, ElementOfSeq
  <1>2. u \in Seq(X) /\ Len(u) = i - 1 /\ \A k \in 1 .. i - 1 : u[k] = s[k]
    <2>1. \A k \in 1 .. i - 1 : s[k] \in X
      BY <1>1
    <2>2. u \in Seq(X) /\ (Len(u) = IF 1 <= i - 1 THEN i - 1 - 1 + 1 ELSE 0)
          /\ \A k \in 1 .. i - 1 - 1 + 1 : u[k] = s[1 + k - 1]
      BY <2>1, SubSeqProperties
    <2>3. QED
      BY <2>2
  <1>3. v \in Seq(X) /\ Len(v) = i /\ \A k \in 1 .. i : v[k] = s[k]
    <2>1. \A k \in 1 .. i : s[k] \in X
      BY <1>1
    <2>2. v \in Seq(X) /\ (Len(v) = IF 1 <= i THEN i - 1 + 1 ELSE 0)
          /\ \A k \in 1 .. i - 1 + 1 : v[k] = s[1 + k - 1]
      BY <2>1, SubSeqProperties
    <2>3. QED
      BY <2>2
  <1>4. x \in X /\ i \in Nat
    BY <1>1
  <1> HIDE DEF u, v
  <1>5. /\ w \in Seq(X) /\ Len(w) = Len(u) + 1 /\ w[Len(u) + 1] = x
        /\ \A k \in 1 .. Len(u) : w[k] = u[k]
    <2> HIDE DEF x
    <2>1. QED
      BY <1>2, <1>4, AppendProperties
  <1> HIDE DEF w
  <1>6. \A k \in 1 .. i : v[k] = w[k]
    <2> TAKE k \in 1 .. i
    <2>1. v[k] = s[k]
      BY <1>3
    <2>2. k \in 1 .. i - 1 \/ k = i
      BY <1>4
    <2>3. QED
      BY <1>2, <1>4, <1>5, <2>1, <2>2 DEF x
  <1>7. Len(w) = i
    BY <1>2, <1>4, <1>5
  <1>8. v = w
    BY <1>3, <1>5, <1>6, <1>7, SeqEqual
  <1>9. QED
    BY <1>8 DEF u, v, w, x

\* One clause more in the list.
Listed(d, c) == d \o <<Len(c), 0>> \o PackedOf(c)

OneListed(r, d, c) ==
  /\ r \in Seq(Nat) /\ Len(r) = Len(d) + 2 + 6 * Len(c)
  /\ \A k \in 1 .. Len(d) : r[k] = d[k]
  /\ r[Len(d) + 1] = Len(c)
  /\ \A j \in 1 .. Len(c) : \A b \in 1 .. 6 :
        r[Len(d) + 2 + (6 * (j - 1) + b)] = ConditionBytes(c[j])[b]

LEMMA ListedIs ==
  ASSUME NEW d \in Seq(Nat), NEW c \in Seq(Conditions), NEW r, r = Listed(d, c)
  PROVE  OneListed(r, d, c)
  <1> DEFINE m == Len(d)
             n == Len(c)
             p == PackedOf(c)
             y == <<n, 0>>
             u == d \o y
             v == u \o p
  <1>1. m \in Nat /\ n \in Nat
    BY LenProperties
  <1>2. /\ p \in Seq(Nat) /\ Len(p) = 6 * n
        /\ \A j \in 1 .. n : \A b \in 1 .. 6 : p[6 * (j - 1) + b] = ConditionBytes(c[j])[b]
    <2>1. p = PackedOf(c) /\ n = Len(c)
      OBVIOUS
    <2> HIDE DEF p, n
    <2>2. /\ p \in Seq(Nat) /\ Len(p) = 6 * Len(c)
          /\ \A j \in 1 .. Len(c) : \A b \in 1 .. 6 : p[6 * (j - 1) + b] = ConditionBytes(c[j])[b]
      BY ONLY <2>1, c \in Seq(Conditions), PackedIs
    <2>3. QED
      BY ONLY <2>1, <2>2
  <1>3. r = v
    BY DEF Listed
  <1> HIDE DEF p, n
  <1>4. y \in Seq(Nat) /\ Len(y) = 2 /\ y[1] = n
    BY <1>1
  <1> HIDE DEF y
  <1>5. u \in Seq(Nat) /\ Len(u) = m + 2 /\ u[m + 1] = n /\ \A k \in 1 .. m : u[k] = d[k]
    <2>1. d \in Seq(Nat) /\ y \in Seq(Nat)
      BY <1>4
    <2>2. u \in Seq(Nat) /\ Len(u) = m + Len(y)
      BY <2>1, BothOf
    <2>3. \A i \in 1 .. m : u[i] = d[i]
      BY <2>1, BothOf
    <2>4. \A i \in 1 .. Len(y) : u[m + i] = y[i]
      BY <2>1, BothOf
    <2> HIDE DEF u, m
    <2>5. QED
      BY <1>1, <1>4, <2>2, <2>3, <2>4
  <1> HIDE DEF u
  <1>6. /\ v \in Seq(Nat) /\ Len(v) = m + 2 + 6 * n
        /\ \A k \in 1 .. m + 2 : v[k] = u[k]
        /\ \A k \in 1 .. 6 * n : v[m + 2 + k] = p[k]
    <2>1. u \in Seq(Nat) /\ p \in Seq(Nat)
      BY <1>2, <1>5
    <2>2. v \in Seq(Nat) /\ Len(v) = Len(u) + Len(p)
      BY <2>1, BothOf
    <2>3. \A i \in 1 .. Len(u) : v[i] = u[i]
      BY <2>1, BothOf
    <2>4. \A i \in 1 .. Len(p) : v[Len(u) + i] = p[i]
      BY <2>1, BothOf
    <2> HIDE DEF v, m
    <2>5. QED
      BY <1>1, <1>2, <1>5, <2>2, <2>3, <2>4
  <1> HIDE DEF v
  <1>7. /\ \A k \in 1 .. m : v[k] = d[k]
        /\ v[m + 1] = n
    <2> HIDE DEF m
    <2>1. \A k \in 1 .. m : k \in 1 .. m + 2
      BY <1>1
    <2>2. m + 1 \in 1 .. m + 2
      BY <1>1
    <2>3. QED
      BY <1>5, <1>6, <2>1, <2>2
  <1>8. ASSUME NEW j \in 1 .. n, NEW b \in 1 .. 6
        PROVE  v[m + 2 + (6 * (j - 1) + b)] = ConditionBytes(c[j])[b]
    <2> DEFINE k == 6 * (j - 1) + b
    <2>1. k \in 1 .. 6 * n
      BY <1>1, PlaceOf
    <2>2. p[k] = ConditionBytes(c[j])[b]
      BY <1>2
    <2> HIDE DEF k
    <2>3. v[m + 2 + k] = ConditionBytes(c[j])[b]
      BY <1>6, <2>1, <2>2
    <2>4. QED
      BY <2>3 DEF k
  <1>9. QED
    BY <1>3, <1>6, <1>7, <1>8 DEF n, OneListed

\* The rounds of ServerClauses.
Lists(f, t) ==
  /\ f \in [0 .. Len(t) -> Seq(Nat)] /\ f[0] = <<>>
  /\ \A i \in 1 .. Len(t) : f[i] = Listed(f[i - 1], t[i])

LEMMA ListRounds ==
  ASSUME NEW t \in Seq(Seq(Conditions))
  PROVE  \E f : Lists(f, t) /\ ServerClauses(t) = f[Len(t)]
  <1> DEFINE n == Len(t)
             S == Seq(Nat)
             first == <<>>
             step == [i \in 1 .. n |-> [d \in S |-> Listed(d, t[i])]]
             Rounds(h) == [i \in 0 .. n |-> IF i = 0 THEN first ELSE Listed(h[i - 1], t[i])]
             f == CHOOSE h : h = Rounds(h)
  <1>1. n \in Nat /\ \A i \in 1 .. n : t[i] \in Seq(Conditions)
    BY LenProperties, ElementOfSeq
  <1>2. first \in S
    BY EmptySeq
  <1>3. ServerClauses(t) = f[n]
    BY DEF ServerClauses, ServerBytes, ConditionBytes, Listed, PackedOf
  <1> HIDE DEF n, first, S
  <1>4. step \in [1 .. n -> [S -> S]]
    BY <1>1, ListedIs DEF S, OneListed
  <1> HIDE DEF step
  <1>5. PICK g : Loops(g, n, S, first, step)
    BY <1>1, <1>2, <1>4, LoopExists
  <1>6. g \in [0 .. n -> S] /\ g[0] = first
        /\ \A i \in 1 .. n : g[i] = Listed(g[i - 1], t[i])
    <2>1. g \in [0 .. n -> S] /\ g[0] = first
      BY <1>5 DEF Loops
    <2>2. ASSUME NEW i \in 1 .. n PROVE g[i] = Listed(g[i - 1], t[i])
      <3>1. g[i - 1] \in S /\ g[i] = step[i][g[i - 1]]
        BY <1>1, <2>1, <1>5 DEF Loops
      <3>2. QED
        BY <3>1 DEF step
    <2>3. QED
      BY <2>1, <2>2
  <1>7. g = Rounds(g)
    BY <1>1, <1>6
  <1>8. f = Rounds(f)
    BY <1>7
  <1> HIDE DEF f
  <1>9. \A i \in 0 .. n : f[i] = g[i]
    <2>1. f[0] = g[0]
      BY <1>1, <1>6, <1>8
    <2>2. \A i \in 1 .. n : f[i - 1] = g[i - 1] => f[i] = g[i]
      BY <1>1, <1>6, <1>8
    <2>3. GoAlike(f, g, n)
      BY <2>1, <2>2 DEF GoAlike
    <2>4. n \in Nat
      BY <1>1
    <2>5. SameUpTo(f, g, n)
      BY ONLY <2>3, <2>4, Alike
    <2>6. QED
      BY <2>5 DEF SameUpTo
  <1>10. ServerClauses(t) = g[n] /\ Lists(g, t)
    <2>1. f[n] = g[n]
      BY <1>1, <1>9
    <2>2. Lists(g, t)
      BY <1>6 DEF Lists, n, first, S
    <2>3. QED
      BY <1>3, <2>1, <2>2
  <1>11. QED
    BY <1>10 DEF n

\* What is listed stays where it is.
LEMMA ListedStays ==
  ASSUME NEW t \in Seq(Seq(Conditions)), NEW f, Lists(f, t), NEW i \in 0 .. Len(t)
  PROVE  /\ Len(f[i]) <= Len(f[Len(t)])
         /\ \A k \in 1 .. Len(f[i]) : f[Len(t)][k] = f[i][k]
  <1> DEFINE n == Len(t)
             Begins(x, y) == Len(x) <= Len(y) /\ \A k \in 1 .. Len(x) : y[k] = x[k]
             G == {m \in 0 .. n : m >= i => Begins(f[i], f[m])}
  <1>1. n \in Nat /\ \A m \in 1 .. n : t[m] \in Seq(Conditions)
    BY LenProperties, ElementOfSeq
  <1>2. /\ f \in [0 .. n -> Seq(Nat)] /\ \A m \in 1 .. n : f[m] = Listed(f[m - 1], t[m])
        /\ i \in 0 .. n
    BY DEF Lists
  <1> HIDE DEF n
  <1>3. \A m \in 0 .. n : f[m] \in Seq(Nat) /\ Len(f[m]) \in Nat
    BY <1>2, LenProperties
  <1>4. Begins(f[i], f[i])
    BY <1>2, <1>3
  <1>5. 0 \in G
    <2> HIDE DEF Begins
    <2>1. 0 >= i => i = 0
      BY <1>1, <1>2
    <2>2. 0 \in 0 .. n
      BY <1>1
    <2>3. QED
      BY <1>4, <2>1, <2>2
  <1>6. ASSUME NEW m \in 1 .. n, m - 1 \in G PROVE m \in G
    <2>1. CASE m < i
      BY <1>1, <1>2, <2>1
    <2>2. CASE m = i
      <3> HIDE DEF Begins
      <3>1. QED
        BY <1>2, <1>4, <2>2
    <2>3. CASE m > i
      <3>1. m - 1 \in 0 .. n /\ m \in 0 .. n /\ m - 1 >= i
        BY <1>1, <1>2, <2>3
      <3>2. Begins(f[i], f[m - 1])
        BY <1>6, <3>1
      <3> DEFINE x == f[i]
                 y == f[m - 1]
                 z == f[m]
                 c == t[m]
      <3>3. Len(x) \in Nat /\ Len(y) \in Nat /\ Len(c) \in Nat
        BY <1>1, <1>2, <1>3, <3>1, LenProperties
      <3>4. y \in Seq(Nat) /\ c \in Seq(Conditions) /\ z = Listed(y, c)
        BY <1>1, <1>2, <1>3, <3>1
      <3>5. Begins(x, y)
        BY <3>2
      <3> HIDE DEF x, y, z, c
      <3>6. Begins(x, z)
        <4>1. Len(z) = Len(y) + 2 + 6 * Len(c)
          BY <3>4, ListedIs DEF OneListed
        <4>2. \A k \in 1 .. Len(y) : z[k] = y[k]
          BY <3>4, ListedIs DEF OneListed
        <4>3. Len(x) <= Len(y) /\ \A k \in 1 .. Len(x) : y[k] = x[k]
          BY <3>5
        <4>4. Len(x) <= Len(z)
          BY <3>3, <4>1, <4>3
        <4>5. \A k \in 1 .. Len(x) : z[k] = x[k]
          BY <3>3, <4>2, <4>3
        <4>6. QED
          BY <4>4, <4>5
      <3> HIDE DEF Begins
      <3>7. QED
        BY <3>1, <3>6 DEF x, z
    <2>4. QED
      BY <1>1, <1>2, <2>1, <2>2, <2>3
  <1>7. G \in SUBSET Nat
    OBVIOUS
  <1> HIDE DEF G
  <1>8. 0 .. n \subseteq G
    BY <1>1, <1>5, <1>6, <1>7, UpTo
  <1>9. n \in G /\ n >= i
    BY <1>1, <1>2, <1>8
  <1>10. QED
    BY <1>9 DEF G, n

\* The count of clauses and the bytes behind the header.
Behind(data, n, body) ==
  /\ data \in Seq(Nat) /\ Len(data) = 3 + Len(body)
  /\ Value16(data, 2) = n
  /\ \A k \in 1 .. Len(body) : data[3 + k] = body[k]

LEMMA BehindHeader ==
  ASSUME NEW n \in Words, NEW a \in Nat, NEW body \in Seq(Nat),
         NEW data, data = <<a>> \o Word16(n) \o body
  PROVE  Behind(data, n, body)
  <1> DEFINE x == <<a>>
             y == Word16(n)
             h == x \o y
             v == h \o body
  <1>1. data = v
    OBVIOUS
  <1>2. x \in Seq(Nat) /\ Len(x) = 1
    OBVIOUS
  <1>3. y \in Seq(Nat) /\ Len(y) = 2 /\ y[1] + 256 * y[2] = n
    <2>1. n % 256 \in Nat /\ (n \div 256) % 256 \in Nat /\ (n % 256) + 256 * ((n \div 256) % 256) = n
      BY WordBytes
    <2>2. QED
      BY <2>1 DEF Word16
  <1> HIDE DEF x, y
  <1>4. h \in Seq(Nat) /\ Len(h) = 3 /\ h[2] = y[1] /\ h[3] = y[2]
    <2>1. x \in Seq(Nat) /\ y \in Seq(Nat)
      BY <1>2, <1>3
    <2>2. h \in Seq(Nat) /\ Len(h) = Len(x) + Len(y)
      BY <2>1, BothOf
    <2>3. \A i \in 1 .. Len(y) : h[Len(x) + i] = y[i]
      BY <2>1, BothOf
    <2> HIDE DEF h
    <2>4. QED
      BY <1>2, <1>3, <2>2, <2>3
  <1> HIDE DEF h
  <1>5. /\ v \in Seq(Nat) /\ Len(v) = 3 + Len(body)
        /\ v[2] = h[2] /\ v[3] = h[3]
        /\ \A k \in 1 .. Len(body) : v[3 + k] = body[k]
    <2>1. h \in Seq(Nat) /\ body \in Seq(Nat)
      BY <1>4
    <2>2. v \in Seq(Nat) /\ Len(v) = Len(h) + Len(body)
      BY <2>1, BothOf
    <2>3. \A i \in 1 .. Len(h) : v[i] = h[i]
      BY <2>1, BothOf
    <2>4. \A i \in 1 .. Len(body) : v[Len(h) + i] = body[i]
      BY <2>1, BothOf
    <2> HIDE DEF v
    <2>5. QED
      BY <1>4, <2>2, <2>3, <2>4
  <1> HIDE DEF v
  <1>6. Value16(v, 2) = n
    BY <1>3, <1>4, <1>5 DEF Value16
  <1>7. QED
    BY <1>1, <1>5, <1>6 DEF Behind

\* How far DecodedList is after i clauses.
Decoded(f, t, i) == [at |-> 4 + Len(f[i]), clauses |-> SubSeq(t, 1, i), short |-> FALSE]

\* One round of it.
LEMMA DecodeClauseIs ==
  ASSUME NEW t \in Seq(Seq(Conditions)), NEW f, Lists(f, t), NEW i \in 1 .. Len(t),
         NEW data, Len(data) = 3 + Len(f[Len(t)]),
         \A k \in 1 .. Len(f[Len(t)]) : data[3 + k] = f[Len(t)][k]
  PROVE  DecodeClause(Decoded(f, t, i - 1), data) = Decoded(f, t, i)
  <1> DEFINE n == Len(t)
             body == f[n]
             d == f[i - 1]
             r == f[i]
             c == t[i]
             m == Len(d)
             l == Len(c)
             clauses == SubSeq(t, 1, i - 1)
             p == Decoded(f, t, i - 1)
             end == p.at + 2 + l * 6
             read == [j \in 1 .. l |-> ConditionAt(data, p.at + 2 + (j - 1) * 6)]
  <1>1. n \in Nat /\ c \in Seq(Conditions) /\ l \in Nat /\ i - 1 \in 0 .. n /\ i \in 0 .. n
    BY LenProperties, ElementOfSeq
  <1>2. d \in Seq(Nat) /\ r = Listed(d, c) /\ r \in Seq(Nat) /\ body \in Seq(Nat)
    <2>1. f \in [0 .. n -> Seq(Nat)] /\ \A k \in 1 .. n : f[k] = Listed(f[k - 1], t[k])
      BY DEF Lists
    <2>2. n \in 0 .. n
      BY <1>1
    <2> HIDE DEF n
    <2>3. f[i - 1] \in Seq(Nat) /\ f[i] \in Seq(Nat) /\ f[n] \in Seq(Nat)
      BY <1>1, <2>1, <2>2
    <2>4. i \in 1 .. n
      BY DEF n
    <2>5. f[i] = Listed(f[i - 1], t[i])
      BY <2>1, <2>4
    <2>6. QED
      BY <2>3, <2>5
  <1>3. m \in Nat /\ Len(r) \in Nat /\ Len(body) \in Nat
    BY <1>2, LenProperties
  <1>4. p.at = 4 + m /\ p.clauses = clauses /\ p.short = FALSE
    BY DEF Decoded
  <1>5. Len(data) = 3 + Len(body) /\ \A k \in 1 .. Len(body) : data[3 + k] = body[k]
    OBVIOUS
  <1>6. Len(r) <= Len(body) /\ \A k \in 1 .. Len(r) : body[k] = r[k]
    BY SMTT(30), <1>1, ListedStays
  <1>7. Append(clauses, c) = SubSeq(t, 1, i)
    BY LongerBeginning
  <1>8. /\ c \in [1 .. l -> Conditions] /\ \A j \in 1 .. l : c[j] \in Conditions
    BY <1>1, LenProperties, ElementOfSeq
  <1>9. Decoded(f, t, i) = [at |-> 4 + Len(r), clauses |-> SubSeq(t, 1, i), short |-> FALSE]
    BY DEF Decoded
  <1> HIDE DEF n, body, d, r, c, clauses, p
  <1>10. /\ Len(r) = m + 2 + 6 * l /\ r[m + 1] = l
         /\ \A j \in 1 .. l : \A b \in 1 .. 6 : r[m + 2 + (6 * (j - 1) + b)] = ConditionBytes(c[j])[b]
    <2>1. d \in Seq(Nat) /\ c \in Seq(Conditions) /\ r = Listed(d, c)
      BY <1>1, <1>2
    <2>2. OneListed(r, d, c)
      BY ONLY <2>1, ListedIs
    <2>3. QED
      BY <2>2 DEF OneListed
  <1> HIDE DEF m, l
  <1>11. \A k \in 1 .. Len(r) : data[3 + k] = r[k]
    BY <1>3, <1>5, <1>6
  <1>12. data[p.at] = l
    <2>1. m + 1 \in 1 .. Len(r) /\ p.at = 3 + (m + 1)
      BY <1>1, <1>3, <1>4, <1>10
    <2>2. QED
      BY <1>10, <1>11, <2>1
  <1>13. ASSUME NEW j \in 1 .. l PROVE read[j] = c[j]
    <2> DEFINE at == p.at + 2 + (j - 1) * 6
    <2>1. at \in Nat /\ at = 6 + m + 6 * (j - 1)
      BY <1>1, <1>3, <1>4
    <2>2. read[j] = ConditionAt(data, at)
      OBVIOUS
    <2> HIDE DEF at, read
    <2>3. \A b \in 1 .. 6 : data[at + b - 1] = ConditionBytes(c[j])[b]
      <3> TAKE b \in 1 .. 6
      <3> DEFINE k == 6 * (j - 1) + b
      <3>1. k \in 1 .. 6 * l
        BY <1>1, PlaceOf
      <3>2. at + b - 1 = 3 + (m + 2 + k)
        BY <1>1, <1>3, <2>1
      <3>3. r[m + 2 + k] = ConditionBytes(c[j])[b]
        BY <1>10
      <3> HIDE DEF k
      <3>4. m + 2 + k \in 1 .. Len(r)
        <4>1. Len(r) = m + 2 + 6 * l /\ m \in Nat /\ l \in Nat
          BY <1>1, <1>3, <1>10
        <4>2. QED
          BY ONLY <3>1, <4>1
      <3>5. data[3 + (m + 2 + k)] = r[m + 2 + k]
        BY <1>11, <3>4
      <3>6. QED
        BY <3>2, <3>3, <3>5
    <2>4. ConditionAt(data, at) = c[j]
      BY <1>8, <2>1, <2>3, ConditionRead
    <2>5. QED
      BY <2>2, <2>4
  <1>14. read = c
    <2>1. read = [j \in 1 .. l |-> c[j]]
      BY <1>13
    <2> HIDE DEF read
    <2>2. QED
      BY <1>8, <2>1
  <1>15. end = 4 + Len(r) /\ ~(p.at + 1 > Len(data)) /\ ~(end - 1 > Len(data))
    BY <1>1, <1>3, <1>4, <1>5, <1>6, <1>10
  <1>16. DecodeClause(p, data) = [at |-> end, clauses |-> Append(p.clauses, read), short |-> FALSE]
    <2> HIDE DEF read
    <2>1. DecodeClause(p, data) =
             [at |-> end,
              clauses |-> Append(p.clauses, [j \in 1 .. l |-> ConditionAt(data, p.at + 2 + (j - 1) * 6)]),
              short |-> FALSE]
      BY <1>4, <1>12, <1>15 DEF DecodeClause
    <2>2. QED
      BY <2>1 DEF read
  <1> HIDE DEF read, end
  <1>17. DecodeClause(p, data) = [at |-> 4 + Len(r), clauses |-> SubSeq(t, 1, i), short |-> FALSE]
    BY <1>4, <1>7, <1>14, <1>15, <1>16
  <1>18. QED
    BY <1>9, <1>17 DEF p

\* BPList gives the table that the emulator listed.
THEOREM ListRead ==
  ASSUME NEW t \in Seq(Seq(Conditions)), Len(t) \in Words, NEW e
  PROVE  DecodedList(ServerList(e, t)) = t
  <1> DEFINE n == Len(t)
             data == ServerList(e, t)
             a == IF e THEN 1 ELSE 0
             first == [at |-> 4, clauses |-> <<>>, short |-> FALSE]
             m == Value16(data, 2)
             Rounds(h) == [i \in 0 .. m |-> IF i = 0 THEN first ELSE DecodeClause(h[i - 1], data)]
             from == CHOOSE h : h = Rounds(h)
  <1>1. n \in Nat /\ n \in Words
    BY LenProperties
  <1>2. PICK f : Lists(f, t) /\ ServerClauses(t) = f[n]
    BY ListRounds
  <1>3. f[n] \in Seq(Nat) /\ f[0] = <<>>
    BY <1>1, <1>2 DEF Lists
  <1>4. data = <<a>> \o Word16(n) \o f[n]
    BY <1>2 DEF ServerList
  <1>5. a \in Nat
    OBVIOUS
  <1>6. DecodedList(data) = IF from[m].short THEN <<>> ELSE from[m].clauses
    BY DEF DecodedList
  <1> HIDE DEF a, data, from, n
  <1>7. Behind(data, n, f[n])
    <2> DEFINE body == f[n]
    <2>1. n \in Words /\ a \in Nat /\ body \in Seq(Nat) /\ data = <<a>> \o Word16(n) \o body
      BY <1>1, <1>3, <1>4, <1>5
    <2> HIDE DEF body
    <2>2. Behind(data, n, body)
      BY ONLY <2>1, BehindHeader
    <2>3. QED
      BY <2>2 DEF body
  <1>8. /\ m = n /\ Len(data) = 3 + Len(f[n])
        /\ \A k \in 1 .. Len(f[n]) : data[3 + k] = f[n][k]
    BY <1>7 DEF Behind
  <1> HIDE DEF m
  <1>9. Decoded(f, t, 0) = first
    <2>1. SubSeq(t, 1, 0) = <<>>
      <3>1. 1 \in Int /\ 0 \in Int /\ 0 < 1
        OBVIOUS
      <3>2. QED
        BY <3>1, SubSeqEmpty
    <2>2. 4 + Len(f[0]) = 4
      BY <1>3, EmptySeq
    <2>3. Decoded(f, t, 0) = [at |-> 4 + Len(f[0]), clauses |-> SubSeq(t, 1, 0), short |-> FALSE]
      BY DEF Decoded
    <2>4. QED
      BY ONLY <2>1, <2>2, <2>3
  <1>10. ASSUME NEW i \in 1 .. n
         PROVE  Decoded(f, t, i) = DecodeClause(Decoded(f, t, i - 1), data)
    BY <1>2, <1>8, DecodeClauseIs DEF n
  <1> DEFINE g == [i \in 0 .. n |-> Decoded(f, t, i)]
  <1>11. g[0] = first /\ \A i \in 1 .. n : g[i] = DecodeClause(g[i - 1], data)
    <2>1. 0 \in 0 .. n /\ \A i \in 1 .. n : i \in 0 .. n /\ i - 1 \in 0 .. n
      BY <1>1
    <2> HIDE DEF first
    <2>2. QED
      BY <1>9, <1>10, <2>1
  <1>12. g = Rounds(g)
    <2>1. \A i \in 0 .. n : g[i] = IF i = 0 THEN first ELSE DecodeClause(g[i - 1], data)
      <3> HIDE DEF g, first
      <3> TAKE i \in 0 .. n
      <3>1. i = 0 \/ i \in 1 .. n
        BY <1>1
      <3>2. QED
        BY <1>1, <1>11, <3>1
    <2>2. g = [i \in 0 .. n |-> g[i]]
      OBVIOUS
    <2> HIDE DEF g, first
    <2>3. QED
      BY <1>8, <2>1, <2>2
  <1> HIDE DEF g, first
  <1>13. from = Rounds(from)
    BY <1>12 DEF from
  <1>14. \A i \in 0 .. n : from[i] = g[i]
    <2>1. from[0] = g[0]
      BY <1>1, <1>8, <1>11, <1>13
    <2>2. \A i \in 1 .. n : from[i - 1] = g[i - 1] => from[i] = g[i]
      BY <1>1, <1>8, <1>11, <1>13
    <2>3. GoAlike(from, g, n)
      BY <2>1, <2>2 DEF GoAlike
    <2>4. n \in Nat
      BY <1>1
    <2>5. SameUpTo(from, g, n)
      BY ONLY <2>3, <2>4, Alike
    <2>6. QED
      BY <2>5 DEF SameUpTo
  <1>15. from[m] = Decoded(f, t, n)
    BY <1>1, <1>8, <1>14 DEF g
  <1>16. SubSeq(t, 1, n) = t
    BY SubSeqFull DEF n
  <1>17. QED
    BY <1>6, <1>15, <1>16 DEF Decoded, data

(***************************************************************************)
(* The inductive invariant.                                                *)
(***************************************************************************)

\* A byte that the emulator can give; 0 before anything was read.
Bytes == Values \cup {0}
\* The filters of the trainer, and what is known of one that was applied.
Filters == {"start", "c", "nc"}
Filter == [filter : Filters, value : Bytes, bytes : [Addresses -> Bytes]]
\* A filter whose bytes are being read.
ReadType == [name : {"read"}, filter : Filters, value : Bytes, asked : Nat, data : Seq(Bytes)]

\* The emulator as the trainer and the shell know it: they do not touch its breakpoints.
EmulatorType ==
    [mem : [Addresses -> Bytes], paused : BOOLEAN, wanted : {"", "pause", "run"}, pc : {0, 1},
     enabled : {FALSE}, table : {<<>>}]

\* The candidates are in order; the i-th byte of the range is at this address.
Increasing(s) == \A i, j \in DOMAIN s : i < j => s[i] < s[j]
AddressOf(i) == Start + i - 1

\* Only the first filter is a start. When no answer was short, the bytes put together are, in
\* their places, those that the emulator gave.
ReadInv ==
    cmd \in ReadType =>
        /\ cmd.filter = "start" <=> seen = <<>>
        /\ cmd.asked <= length /\ Len(cmd.data) <= cmd.asked
        /\ Len(cmd.data) = cmd.asked =>
              \A i \in 1 .. cmd.asked : cmd.data[i] = answered[AddressOf(i)]

\* The candidates are the places whose bytes pass all filters, the snapshot is of the last one.
Filtered(t, filters) ==
    /\ t.snapshot = [i \in 1 .. length |-> filters[Len(filters)].bytes[AddressOf(i)]]
    /\ t.candidates \in Seq(1 .. length) /\ Increasing(t.candidates)
    /\ \A i \in 1 .. length : i \in Range(t.candidates) <=> AddressOf(i) \in Matches(filters)

\* The trainer, between its filters and while one is read.
TrainerInv ==
    /\ emulator \in EmulatorType /\ cmd \in {Prompt, Exit} \cup ReadType
    /\ answered \in [Addresses -> Bytes]
    /\ seen \in Seq(Filter) /\ \A k \in DOMAIN seen : seen[k].filter = "start" <=> k = 1
    /\ cmd = Prompt => seen # <<>>
    /\ ReadInv
    /\ seen # <<>> => Filtered(trainer, seen)
    /\ out.kind = "rows" => \E limit \in Nat : out.rows = Rows(trainer, limit)

\* The calls of the shell.
Calls == {"PAUSE", "CONTINUE", "STEP", "STEP_FRAME", "RUN_UNTIL_RETURN"}
CallType == [name : Calls, at : {"first", "again", "status", "ping", "cpu"}]

\* What the shell knows between the calls of a command. Nothing that it has sent can undo what
\* it waits for: no CONTINUE is left to take effect while it waits for the pause, unless one that
\* had timed out was carried out since. What it has printed then stays true until somebody else
\* acts, or such a call does.
ShellInv ==
    /\ emulator \in EmulatorType /\ cmd \in {Prompt, Exit} \cup CallType
    /\ cmd \in CallType /\ cmd.at # "first" =>
          /\ cmd.at # "cpu" => cmd.name \in {"PAUSE", "CONTINUE"}
          /\ cmd.name = "PAUSE" /\ NoneBut("PAUSE") => emulator.wanted # "run"
          /\ cmd.name = "CONTINUE" => cmd.at \notin {"again", "cpu"}
          /\ cmd.name = "CONTINUE" /\ NoneBut("CONTINUE") => emulator.wanted # "pause"
          /\ cmd.name = "PAUSE" /\ cmd.at = "cpu" /\ NoneBut("PAUSE") => emulator.paused \/ others
    /\ out.kind \in {"cpu", "resumed"} => cmd = Prompt
    /\ out.kind = "cpu" /\ out.of = "PAUSE" /\ NoneBut("PAUSE") /\ ~others =>
          emulator.paused /\ emulator.pc = out.pc /\ emulator.wanted # "run"
    /\ out.kind = "resumed" /\ NoneBut("CONTINUE") /\ ~others =>
          ~emulator.paused /\ emulator.wanted # "pause"

\* The emulator as the breakpoint commands know it.
Tables == {t \in Seq(Clauses) : Len(t) <= MaxClauses}
BpEmulatorType ==
    [mem : [Addresses -> Bytes], paused : BOOLEAN, wanted : {"", "pause", "run"}, pc : {0, 1},
     enabled : BOOLEAN, table : Tables]

\* The breakpoint commands.
PlainType == [name : {"list", "clear", "on", "off"}]
DeleteType == [name : {"delete"}, index : Int]
AddType == [name : {"add"}, clauses : Seq(Clauses), added : Seq(Nat)]

\* Those that change the emulator: each of them may fail and be carried out later.
EditType ==
    {c \in PlainType : c.name # "list"} \cup DeleteType
        \cup {c \in AddType : Len(c.added) < Len(c.clauses)}
LateInv ==
    /\ tool = "trainer" => late = {}
    /\ tool = "debug" => \A call \in late : call.cmd \in CallType
    /\ tool = "bp" => \A call \in late : call.cmd \in EditType

\* The numbers are the places of the clauses.
Placed(table, numbers, clauses) ==
    \A k \in DOMAIN numbers : numbers[k] \in DOMAIN table /\ table[numbers[k]] = clauses[k]

\* A command that adds has reported the places of the clauses it has added so far; they are
\* still there unless somebody else has edited the table.
BpInv ==
    /\ emulator \in BpEmulatorType /\ cmd \in {Prompt} \cup PlainType \cup DeleteType \cup AddType
    /\ cmd # Prompt => out = Nothing
    /\ cmd \in AddType =>
          /\ Len(cmd.added) < Len(cmd.clauses)
          /\ ~others => Placed(emulator.table, cmd.added, cmd.clauses)
    /\ out.kind = "list" =>
          /\ out.table \in Seq(Clauses)
          /\ out.lines = [i \in DOMAIN out.table |-> FormatClause(out.table[i])]
    /\ out.kind = "added" /\ ~others => Placed(emulator.table, out.numbers, out.clauses)

\* The trainer and the shell print no list and no numbers.
Quiet == out.kind \notin {"list", "added"}

\* Of all three.
IInv ==
    /\ tool \in {"trainer", "debug", "bp"}
    /\ tool = "trainer" => TrainerInv /\ Quiet
    /\ tool = "debug" => ShellInv /\ Quiet
    /\ tool = "bp" => BpInv
    /\ LateInv

(***************************************************************************)
(* Numbers, and the loop of the trainer.                                   *)
(***************************************************************************)

\* The body of the recursive function in Kept.
Body(s, S, f, i) ==
    IF i = 0 THEN <<>> ELSE IF s[i] \in S THEN Append(f[i - 1], s[i]) ELSE f[i - 1]

\* There is a function with that body, so that the one Kept chooses has it.
LEMMA KeptExists ==
  ASSUME NEW s, NEW S, NEW n \in Nat
  PROVE  \E f : f = [i \in 0 .. n |-> Body(s, S, f, i)]
  <1> DEFINE G == {m \in Nat : \E f : f = [i \in 0 .. m |-> Body(s, S, f, i)]}
  <1>1. 0 \in G
    <2> DEFINE f == [i \in 0 .. 0 |-> <<>>]
    <2>1. f = [i \in 0 .. 0 |-> Body(s, S, f, i)]
      BY DEF Body
    <2>2. QED
      BY <2>1
  <1>2. ASSUME NEW m \in 1 .. n, m - 1 \in G PROVE m \in G
    <2>1. PICK g : g = [i \in 0 .. m - 1 |-> Body(s, S, g, i)]
      BY <1>2
    <2> DEFINE f == [i \in 0 .. m |-> IF i < m THEN g[i] ELSE Body(s, S, g, m)]
    <2>2. ASSUME NEW i \in 0 .. m PROVE f[i] = Body(s, S, f, i)
      <3>1. CASE i = 0
        <4>1. f[i] = g[i] /\ g[i] = Body(s, S, g, i)
          BY <2>1, <3>1
        <4>2. QED
          BY <3>1, <4>1 DEF Body
      <3>2. CASE i # 0
        <4>1. f[i - 1] = g[i - 1]
          BY <3>2
        <4>2. f[i] = Body(s, S, g, i)
          BY <2>1, <3>2
        <4>3. QED
          BY <4>1, <4>2, <3>2 DEF Body
      <3>3. QED
        BY <3>1, <3>2
    <2>3. f = [i \in 0 .. m |-> Body(s, S, f, i)]
      BY <2>2
    <2> HIDE DEF f
    <2>4. m \in Nat
      OBVIOUS
    <2>5. QED
      BY <2>3, <2>4
  <1> HIDE DEF G
  <1>3. 0 .. n \subseteq G
    <2>1. G \in SUBSET Nat
      BY DEF G
    <2>2. QED
      BY <1>1, <1>2, <2>1, UpTo
  <1>4. QED
    BY <1>3 DEF G

\* A larger index appended to a sequence of candidates that is in order.
LEMMA Appended ==
  ASSUME NEW n, NEW s \in Seq(1 .. n), NEW x \in 1 .. n
  PROVE  /\ Append(s, x) \in Seq(1 .. n)
         /\ \A y : y \in Range(Append(s, x)) <=> y \in Range(s) \/ y = x
         /\ Increasing(s) /\ (\A y \in Range(s) : y < x) => Increasing(Append(s, x))
  <1> DEFINE t == Append(s, x)
  <1>1. /\ t \in Seq(1 .. n) /\ Len(t) = Len(s) + 1 /\ Len(s) \in Nat
        /\ \A i \in 1 .. Len(s) : t[i] = s[i]
        /\ t[Len(s) + 1] = x
    BY AppendProperties, LenProperties
  <1> HIDE DEF t
  <1>2. DOMAIN s = 1 .. Len(s) /\ DOMAIN t = 1 .. Len(s) + 1
    BY <1>1, LenProperties
  <1>3. \A y : y \in Range(t) <=> y \in Range(s) \/ y = x
    BY <1>1, <1>2 DEF Range
  <1>4. ASSUME Increasing(s), \A y \in Range(s) : y < x PROVE Increasing(t)
    <2>1. \A i \in DOMAIN s : s[i] < x
      BY <1>4 DEF Range
    <2>2. QED
      BY <1>1, <1>2, <1>4, <2>1 DEF Increasing
  <1>5. QED
    BY <1>1, <1>3, <1>4 DEF t

\* The loop of Trainer.Start, Changed and NotChanged keeps, in order, the candidates that are
\* in S, and no others.
LEMMA KeptIs ==
  ASSUME NEW n, NEW s \in Seq(1 .. n), Increasing(s), NEW S
  PROVE  /\ Kept(s, S) \in Seq(1 .. n) /\ Increasing(Kept(s, S))
         /\ \A x : x \in Range(Kept(s, S)) <=> x \in Range(s) /\ x \in S
  <1> DEFINE l == Len(s)
             f == CHOOSE f : f = [i \in 0 .. l |-> Body(s, S, f, i)]
             Good(i) == /\ f[i] \in Seq(1 .. n) /\ Increasing(f[i])
                        /\ \A x : x \in Range(f[i]) <=> (\E j \in 1 .. i : s[j] = x) /\ x \in S
             G == {i \in 0 .. l : Good(i)}
  <1>1. l \in Nat /\ DOMAIN s = 1 .. l /\ \A i \in 1 .. l : s[i] \in 1 .. n
    BY LenProperties, ElementOfSeq
  <1>2. Kept(s, S) = f[l]
    BY DEF Kept, Body
  <1>3. f = [i \in 0 .. l |-> Body(s, S, f, i)]
    <2>1. \E g : g = [i \in 0 .. l |-> Body(s, S, g, i)]
      BY <1>1, KeptExists
    <2>2. QED
      BY <2>1
  <1> HIDE DEF f, l
  <1>4. \A i \in 0 .. l : f[i] = Body(s, S, f, i)
    BY <1>3
  <1>5. 0 \in G
    <2>1. f[0] = <<>>
      BY <1>1, <1>4 DEF Body
    <2>2. <<>> \in Seq(1 .. n) /\ Increasing(<<>>) /\ \A x : x \notin Range(<<>>)
      BY EmptySeq DEF Increasing, Range
    <2>3. 0 \in 0 .. l /\ 1 .. 0 = {}
      BY <1>1
    <2>4. Good(0)
      BY <2>1, <2>2, <2>3
    <2>5. QED
      BY <2>3, <2>4
  <1>6. ASSUME NEW i \in 1 .. l, i - 1 \in G PROVE i \in G
    <2>1. Good(i - 1) /\ i \in 0 .. l /\ i \in Nat /\ s[i] \in 1 .. n
      BY <1>1, <1>6
    <2>2. \A j \in 1 .. i - 1 : s[j] < s[i]
      BY <1>1 DEF Increasing
    <2>3. \A x : (\E j \in 1 .. i : s[j] = x) <=> (\E j \in 1 .. i - 1 : s[j] = x) \/ x = s[i]
      BY <2>1
    <2>4. CASE s[i] \in S
      <3>1. f[i] = Body(s, S, f, i) /\ i # 0
        BY <1>1, <1>4, <2>1
      <3>2. f[i] = Append(f[i - 1], s[i])
        BY <2>4, <3>1 DEF Body
      <3>3. \A y \in Range(f[i - 1]) : y < s[i]
        BY <2>1, <2>2
      <3>4. f[i - 1] \in Seq(1 .. n) /\ Increasing(f[i - 1])
        BY <2>1
      <3>5. /\ f[i] \in Seq(1 .. n) /\ Increasing(f[i])
            /\ \A y : y \in Range(f[i]) <=> y \in Range(f[i - 1]) \/ y = s[i]
        BY <2>1, <3>2, <3>3, <3>4, Appended
      <3>6. QED
        BY <2>1, <2>3, <2>4, <3>5
    <2>5. CASE s[i] \notin S
      <3>1. f[i] = f[i - 1]
        BY <1>1, <1>4, <2>1, <2>5 DEF Body
      <3>2. QED
        BY <2>1, <2>3, <2>5, <3>1
    <2>6. QED
      BY <2>4, <2>5
  <1> HIDE DEF G
  <1>7. l \in G
    <2>1. G \in SUBSET Nat
      BY DEF G
    <2>2. 0 .. l \subseteq G
      BY <1>1, <1>5, <1>6, <2>1, UpTo
    <2>3. QED
      BY <1>1, <2>2
  <1>8. Good(l)
    BY <1>7 DEF G
  <1>9. \A x : x \in Range(s) <=> \E j \in 1 .. l : s[j] = x
    BY <1>1 DEF Range
  <1>10. QED
    BY <1>2, <1>8, <1>9

(***************************************************************************)
(* The debug shell.                                                        *)
(***************************************************************************)

\* The program counter that the model moves has two values.
LEMMA PcMoved ==
  ASSUME NEW e \in EmulatorType
  PROVE  1 - e.pc \in {0, 1}
  <1>1. e.pc \in {0, 1}
    BY DEF EmulatorType
  <1>2. QED
    BY <1>1

\* A command that waits, ends or calls is told from the others by its name.
LEMMA Names ==
  /\ Prompt \notin CallType /\ Exit \notin CallType /\ Prompt # Exit
  /\ Prompt.name = "prompt" /\ Exit.name = "exit"
  /\ \A c \in CallType : c.name \in Calls /\ c.name \notin {"prompt", "exit"}
  BY DEF Prompt, Exit, CallType, Calls

\* The emulator executes, or does what it was asked to: what was printed stays true.
LEMMA Runs ==
  ASSUME ShellInv, tool = "debug", EmulatorRuns
  PROVE  ShellInv'
  <1>1. /\ emulator' \in EmulatorType
        /\ emulator.paused => emulator'.pc = emulator.pc
        /\ emulator.paused /\ emulator.wanted # "run" => emulator'.paused
        /\ ~emulator.paused /\ emulator.wanted # "pause" => ~emulator'.paused
        /\ emulator'.wanted \in {emulator.wanted, ""}
    <2>1. emulator \in EmulatorType
      BY DEF ShellInv
    <2>2. CASE ~emulator.paused /\ emulator' = [emulator EXCEPT !.pc = 1 - @]
      <3> DEFINE n == 1 - emulator.pc
      <3>1. n \in {0, 1} /\ emulator' = [emulator EXCEPT !.pc = n]
        BY <2>1, <2>2, PcMoved DEF EmulatorType
      <3> HIDE DEF n
      <3>2. QED
        BY <2>1, <2>2, <3>1 DEF EmulatorType
    <2>3. CASE /\ emulator.wanted # ""
               /\ emulator' = [emulator EXCEPT !.paused = (emulator.wanted = "pause"),
                                              !.wanted = ""]
      <3> DEFINE p == emulator.wanted = "pause"
      <3>1. p \in BOOLEAN
        OBVIOUS
      <3>2. emulator' = [emulator EXCEPT !.paused = p, !.wanted = ""]
        BY <2>3
      <3>3. /\ ~p /\ emulator.wanted # "" => emulator.wanted = "run"
            /\ p => emulator.wanted = "pause"
        BY <2>1 DEF EmulatorType
      <3> HIDE DEF p
      <3>4. /\ emulator' \in EmulatorType /\ emulator'.paused = p /\ emulator'.wanted = ""
            /\ emulator'.pc = emulator.pc
        BY <2>1, <3>1, <3>2 DEF EmulatorType
      <3>5. QED
        BY <2>3, <3>1, <3>3, <3>4
    <2>4. QED
      BY <2>2, <2>3 DEF EmulatorRuns
  <1>2. UNCHANGED <<cmd, out, others, overtaken>>
    BY DEF EmulatorRuns
  <1>3. QED
    BY <1>1, <1>2 DEF ShellInv, NoneBut

\* Somebody else acts: nothing is claimed any more of what was printed.
LEMMA Acts ==
  ASSUME ShellInv, tool = "debug", OthersAct
  PROVE  ShellInv'
  <1>1. emulator' \in EmulatorType /\ emulator'.wanted = emulator.wanted
    <2>1. emulator \in EmulatorType
      BY DEF ShellInv
    <2>2. emulator' \in {[emulator EXCEPT !.paused = ~@], [emulator EXCEPT !.pc = 1 - @]}
      BY DEF OthersAct
    <2>3. CASE emulator' = [emulator EXCEPT !.paused = ~@]
      <3>1. (~emulator.paused) \in BOOLEAN
        OBVIOUS
      <3>2. QED
        BY <2>1, <2>3, <3>1 DEF EmulatorType
    <2>4. CASE emulator' = [emulator EXCEPT !.pc = 1 - @]
      <3> DEFINE n == 1 - emulator.pc
      <3>1. n \in {0, 1} /\ emulator' = [emulator EXCEPT !.pc = n]
        BY <2>1, <2>4, PcMoved DEF EmulatorType
      <3> HIDE DEF n
      <3>2. QED
        BY <2>1, <3>1 DEF EmulatorType
    <2>5. QED
      BY <2>2, <2>3, <2>4
  <1>2. others' = TRUE /\ UNCHANGED <<cmd, out, overtaken>>
    BY DEF OthersAct
  <1>3. QED
    BY <1>1, <1>2 DEF ShellInv, NoneBut

\* A command is typed: nothing is printed, the first call is next.
LEMMA Asks ==
  ASSUME ShellInv, tool = "debug", ShellCommand
  PROVE  ShellInv'
  <1>1. /\ cmd' = Exit \/ \E name \in Calls : cmd' = [name |-> name, at |-> "first"]
        /\ out' = Nothing /\ UNCHANGED <<emulator, overtaken>>
    BY DEF ShellCommand, Calls
  <1>2. cmd' \in {Exit} \cup CallType /\ (cmd' \in CallType => cmd'.at = "first")
    BY <1>1, Names DEF CallType
  <1>3. QED
    BY <1>1, <1>2 DEF ShellInv, Nothing, NoneBut

\* What the emulator makes of a call, and what it is asked for then.
LEMMA Obeys ==
  ASSUME NEW e \in EmulatorType, NEW name \in Calls
  PROVE  /\ Obey(e, name) \in EmulatorType
         /\ name = "PAUSE" =>
               /\ Obey(e, name).wanted \in {"", "pause"}
               /\ Obey(e, name).paused = e.paused /\ Obey(e, name).pc = e.pc
         /\ name = "CONTINUE" =>
               Obey(e, name).wanted = "run" /\ Obey(e, name).paused = e.paused
  <1>1. CASE name = "PAUSE"
    BY <1>1 DEF Obey, EmulatorType
  <1>2. CASE name = "CONTINUE"
    BY <1>2 DEF Obey, EmulatorType
  <1>3. CASE name = "STEP"
    <2> DEFINE n == 1 - e.pc
    <2>1. n \in {0, 1} /\ Obey(e, name) = [e EXCEPT !.wanted = "", !.paused = TRUE, !.pc = n]
      BY <1>3, PcMoved DEF Obey, EmulatorType
    <2> HIDE DEF n
    <2>2. QED
      BY <1>3, <2>1 DEF EmulatorType
  <1>4. CASE name \in {"STEP_FRAME", "RUN_UNTIL_RETURN"}
    BY <1>4 DEF Obey, EmulatorType
  <1>5. QED
    BY <1>1, <1>2, <1>3, <1>4 DEF Calls

\* PAUSE, CONTINUE or another call is sent, and is the last one that the emulator has.
LEMMA Sends ==
  ASSUME ShellInv, tool = "debug", Send
  PROVE  ShellInv'
  <1>1. cmd \in CallType /\ cmd.at \in {"first", "again"} /\ UNCHANGED <<out, others>> /\ overtaken' = {}
    BY DEF Send, At, ShellInv, Prompt, Exit
  <1>2. /\ cmd' \in CallType /\ cmd'.name = cmd.name
        /\ cmd'.at = CASE cmd.at = "again" -> "ping"
                       [] cmd.name \in {"PAUSE", "CONTINUE"} -> "status"
                       [] OTHER -> "cpu"
    BY <1>1 DEF Send, CallType
  <1>3. /\ emulator' \in EmulatorType
        /\ cmd.name = "PAUSE" => emulator'.wanted \in {"", "pause"}
        /\ cmd.name = "CONTINUE" => emulator'.wanted = "run"
    <2>1. /\ cmd.name \in Calls /\ emulator \in EmulatorType
          /\ emulator' = Obey(emulator, cmd.name)
      BY <1>1 DEF Send, CallType, ShellInv
    <2>2. QED
      BY <2>1, Obeys
  <1>4. cmd # Prompt /\ cmd.name = "CONTINUE" => cmd.at = "first"
    BY <1>1, Names DEF ShellInv
  <1>5. out.kind \notin {"cpu", "resumed"}
    BY <1>1, Names DEF ShellInv
  <1>6. cmd'.name = "PAUSE" => cmd'.at # "cpu"
    BY <1>2
  <1>7. cmd'.name = "CONTINUE" => cmd'.at \notin {"again", "cpu"}
    BY <1>1, <1>2, <1>4, Names
  <1>8. QED
    BY <1>1, <1>2, <1>3, <1>5, <1>6, <1>7 DEF ShellInv, NoneBut

\* STATUS is answered, or the time is over: what is printed is what it said.
LEMMA Polls ==
  ASSUME ShellInv, tool = "debug", Poll
  PROVE  ShellInv'
  <1>1. /\ cmd \in CallType /\ cmd.at = "status" /\ UNCHANGED <<emulator, overtaken>>
        /\ emulator \in EmulatorType
    <2>1. At("status") /\ UNCHANGED <<emulator, overtaken>>
      BY DEF Poll
    <2>2. QED
      BY <2>1, Names DEF At, ShellInv
  <1>2. out.kind \notin {"cpu", "resumed"}
    BY <1>1, Names DEF ShellInv
  <1>3. /\ cmd.name = "PAUSE" /\ NoneBut("PAUSE") => emulator.wanted # "run"
        /\ cmd.name = "CONTINUE" /\ NoneBut("CONTINUE") => emulator.wanted # "pause"
    BY <1>1 DEF ShellInv
  <1>4. CASE /\ cmd' = Prompt
             /\ out' = [kind |-> IF cmd.name = "PAUSE" THEN "still running" ELSE "still paused"]
    BY <1>1, <1>4, Names DEF ShellInv, NoneBut
  <1>5. CASE cmd.name = "PAUSE" /\ Reached(cmd.name) /\ cmd' = [cmd EXCEPT !.at = "cpu"]
             /\ others' = FALSE /\ UNCHANGED out
    <2>1. cmd' \in CallType /\ cmd'.name = "PAUSE" /\ emulator.paused
      BY <1>1, <1>5 DEF CallType, Reached
    <2>2. QED
      BY <1>1, <1>2, <1>3, <1>5, <2>1 DEF ShellInv, NoneBut
  <1>6. CASE cmd.name = "CONTINUE" /\ Reached(cmd.name) /\ cmd' = Prompt
             /\ out' = [kind |-> "resumed"] /\ others' = FALSE
    <2>1. ~emulator.paused
      BY <1>6 DEF Reached
    <2>2. QED
      BY <1>1, <1>3, <1>6, <2>1, Names DEF ShellInv, NoneBut
  <1>7. CASE cmd' = [cmd EXCEPT !.at = IF cmd.name = "PAUSE" THEN "again" ELSE "ping"]
             /\ others' = FALSE /\ UNCHANGED out
    <2>1. cmd' \in CallType /\ cmd'.name = cmd.name
          /\ cmd'.at = IF cmd.name = "PAUSE" THEN "again" ELSE "ping"
      BY <1>1, <1>7 DEF CallType
    <2>2. QED
      BY <1>1, <1>2, <1>3, <1>7, <2>1 DEF ShellInv, NoneBut
  <1>8. Reached(cmd.name) \in BOOLEAN
    BY DEF Reached
  <1>9. cmd.name \in {"PAUSE", "CONTINUE"}
    BY <1>1 DEF ShellInv
  <1>10. QED
    BY <1>4, <1>5, <1>6, <1>7, <1>8, <1>9 DEF Poll

\* PING lets time pass and changes nothing.
LEMMA Pings ==
  ASSUME ShellInv, tool = "debug", Ping
  PROVE  ShellInv'
  <1>1. /\ cmd \in CallType /\ cmd.at = "ping" /\ cmd' = [cmd EXCEPT !.at = "status"]
        /\ UNCHANGED <<emulator, out, others, overtaken>>
    BY Names DEF Ping, At, ShellInv
  <1>2. cmd' \in CallType /\ cmd'.name = cmd.name /\ cmd'.at = "status"
    BY <1>1 DEF CallType
  <1>3. out.kind \notin {"cpu", "resumed"}
    BY <1>1, Names DEF ShellInv
  <1>4. QED
    BY <1>1, <1>2, <1>3 DEF ShellInv, NoneBut

\* The registers are read after the emulator was seen to be paused.
LEMMA Prints ==
  ASSUME ShellInv, tool = "debug", PrintCPUState
  PROVE  ShellInv'
  <1>1. /\ cmd \in CallType /\ cmd.at = "cpu" /\ cmd' = Prompt
        /\ out' = [kind |-> "cpu", of |-> cmd.name, pc |-> emulator.pc]
        /\ UNCHANGED <<emulator, others, overtaken>>
    BY Names DEF PrintCPUState, At, ShellInv
  <1>2. QED
    BY <1>1, Names DEF ShellInv, NoneBut

\* A call fails: nothing is printed.
LEMMA ShellFails ==
  ASSUME ShellInv, tool = "debug", CallFails
  PROVE  ShellInv'
  <1>1. cmd' = Prompt /\ out' = Nothing /\ UNCHANGED <<emulator, others, overtaken>>
    BY DEF CallFails
  <1>2. QED
    BY <1>1, Names DEF ShellInv, Nothing, NoneBut

\* A call that had timed out is carried out: it is one of the command's own kind, which asks for
\* the same, or nothing is claimed any more.
LEMMA Overtakes ==
  ASSUME ShellInv, LateInv, tool = "debug", LateExecution
  PROVE  ShellInv'
  <1>1. PICK call \in late : /\ emulator' = Obey(emulator, call.cmd.name)
                            /\ overtaken' = overtaken \cup {call.cmd.name}
                            /\ UNCHANGED <<cmd, out, others>>
    BY DEF LateExecution
  <1> DEFINE name == call.cmd.name
  <1>2. name \in Calls /\ emulator \in EmulatorType
    BY Names DEF LateInv, ShellInv
  <1>3. /\ emulator' \in EmulatorType
        /\ name = "PAUSE" => /\ emulator'.wanted \in {"", "pause"}
                             /\ emulator'.paused = emulator.paused /\ emulator'.pc = emulator.pc
        /\ name = "CONTINUE" => emulator'.wanted = "run" /\ emulator'.paused = emulator.paused
    BY <1>1, <1>2, Obeys
  <1>4. /\ NoneBut("PAUSE")' => NoneBut("PAUSE") /\ name = "PAUSE"
        /\ NoneBut("CONTINUE")' => NoneBut("CONTINUE") /\ name = "CONTINUE"
    BY <1>1 DEF NoneBut
  <1> HIDE DEF name
  <1>5. QED
    BY <1>1, <1>3, <1>4 DEF ShellInv

\* Every step keeps the shell's invariant.
LEMMA ShellStep ==
  ASSUME ShellInv, LateInv, tool = "debug", [Next]_vars
  PROVE  ShellInv'
  <1>1. cmd.name \in {"prompt", "exit"} \cup Calls
    BY Names DEF ShellInv
  <1>2. ~Running("read") /\ ~Running("list") /\ ~Running("add") /\ ~Running("delete")
        /\ ~Running("clear") /\ ~Running("on") /\ ~Running("off")
    BY <1>1 DEF Running, Calls
  <1>3. CASE Next
    <2>1. \/ EmulatorRuns \/ OthersAct \/ CallFails \/ LateExecution \/ ShellCommand
          \/ Send \/ Poll \/ Ping \/ PrintCPUState
      BY <1>2, <1>3 DEF Next, MemoryChanges, TrainerCommand, ReadChunk, TakeBytes,
                        BreakpointCommand, AddClause, ChangeTable, ListClauses
    <2>2. QED
      BY <2>1, Runs, Acts, ShellFails, Overtakes, Asks, Sends, Polls, Pings, Prints
  <1>4. CASE UNCHANGED vars
    BY <1>4 DEF vars, ShellInv, NoneBut
  <1>5. QED
    BY <1>3, <1>4

(***************************************************************************)
(* The trainer: its calls.                                                 *)
(***************************************************************************)

\* The range is not empty; no address in it wraps around 16 bits.
LEMMA RangeFacts ==
  /\ Start \in Nat /\ Stop \in Nat /\ length \in Nat \ {0} /\ MaxChunk \in Nat \ {0}
  /\ \A i \in 1 .. length : AddressOf(i) \in Addresses /\ AddressOf(i) % Word = AddressOf(i)
  /\ \A a \in Addresses : a - Start + 1 \in 1 .. length /\ AddressOf(a - Start + 1) = a
  <1>1. Word \in Nat
    BY DEF Word
  <1> DEFINE last == Word - 1
  <1>2. /\ Start \in 0 .. last /\ Stop \in Start .. last /\ MaxChunk \in Nat \ {0}
        /\ last = Word - 1
    BY CliSessionsAssumption
  <1> HIDE DEF last
  <1>3. last \in Int /\ Start \in Nat /\ Stop \in Nat /\ Start <= Stop /\ Stop < Word
    BY <1>1, <1>2
  <1>4. length \in Nat \ {0} /\ length = Stop - Start + 1
    BY <1>3 DEF length
  <1>5. ASSUME NEW i \in 1 .. length
        PROVE  AddressOf(i) \in Addresses /\ AddressOf(i) % Word = AddressOf(i)
    <2>1. AddressOf(i) \in Start .. Stop /\ AddressOf(i) \in Nat
      BY <1>3, <1>4 DEF AddressOf
    <2>2. AddressOf(i) < Word
      BY <1>1, <1>3, <2>1
    <2>3. QED
      BY <1>1, <2>1, <2>2 DEF Addresses
  <1>6. ASSUME NEW a \in Addresses
        PROVE  a - Start + 1 \in 1 .. length /\ AddressOf(a - Start + 1) = a
    BY <1>3, <1>4 DEF Addresses, AddressOf
  <1>7. QED
    BY <1>2, <1>3, <1>4, <1>5, <1>6

\* A trainer that waits, ends or reads is told from the others by its name.
LEMMA TrainerNames ==
  /\ Prompt \notin ReadType /\ Exit \notin ReadType /\ Prompt # Exit
  /\ Prompt.name = "prompt" /\ Exit.name = "exit" /\ Nothing.kind = "nothing"
  /\ \A c \in ReadType : c.name = "read"
  BY DEF Prompt, Exit, Nothing, ReadType

\* A filter that was just asked for has no bytes.
LEMMA ReadingOK ==
  ASSUME NEW f \in Filters, NEW v \in Bytes
  PROVE  /\ Reading(f, v) \in ReadType /\ Reading(f, v).filter = f
         /\ Reading(f, v).asked = 0 /\ Reading(f, v).data = <<>>
  BY EmptySeq DEF Reading, ReadType

\* The bytes of a range are asked for anew.
LEMMA ReadStarts ==
  ASSUME NEW f \in Filters, NEW v \in Bytes, cmd' = Reading(f, v), UNCHANGED seen,
         f = "start" <=> seen = <<>>
  PROVE  cmd' \in ReadType /\ ReadInv'
  <1>1. Len(<<>>) = 0 /\ 0 <= length /\ 1 .. 0 = {}
    BY EmptySeq, RangeFacts
  <1>2. QED
    BY <1>1, ReadingOK DEF ReadInv

\* The memory changes: what was read of it stays as it was.
LEMMA Changes ==
  ASSUME TrainerInv, MemoryChanges
  PROVE  TrainerInv'
  <1>1. emulator' \in EmulatorType
    <2>1. emulator \in EmulatorType
      BY DEF TrainerInv
    <2>2. PICK a \in Addresses, v \in Values : emulator' = [emulator EXCEPT !.mem[a] = v]
      BY DEF MemoryChanges
    <2> DEFINE m == [emulator.mem EXCEPT ![a] = v]
    <2>3. m \in [Addresses -> Bytes]
      BY <2>1 DEF EmulatorType, Bytes
    <2>4. emulator' = [emulator EXCEPT !.mem = m]
      BY <2>2
    <2> HIDE DEF m
    <2>5. QED
      BY <2>1, <2>3, <2>4 DEF EmulatorType
  <1>2. UNCHANGED <<trainer, cmd, out, answered, seen>>
    BY DEF MemoryChanges
  <1>3. QED
    BY <1>1, <1>2 DEF TrainerInv, ReadInv

\* A command of the trainer: another filter, or the rows are printed.
LEMMA Commands ==
  ASSUME TrainerInv, TrainerCommand
  PROVE  TrainerInv'
  <1>1. /\ UNCHANGED <<emulator, trainer, answered, seen>>
        /\ cmd = Prompt
        /\ \/ \E v \in Values : cmd' = Reading("c", v) /\ UNCHANGED out
           \/ cmd' = Reading("nc", 0) /\ UNCHANGED out
           \/ \E limit \in 1 .. 2 :
                 /\ out' = [kind |-> "rows", limit |-> limit, rows |-> Rows(trainer, limit)]
                 /\ UNCHANGED cmd
           \/ cmd' = Exit /\ UNCHANGED out
    BY TrainerNames DEF TrainerCommand, TrainerInv, Running
  <1>2. seen # <<>>
    BY <1>1 DEF TrainerInv
  <1>3. cmd' \in {Prompt, Exit} \cup ReadType /\ (cmd' = Prompt => seen # <<>>) /\ ReadInv'
    <2>1. CASE \E v \in Values : cmd' = Reading("c", v)
      BY <1>1, <1>2, <2>1, ReadStarts DEF Filters, Bytes
    <2>2. CASE cmd' = Reading("nc", 0)
      BY <1>1, <1>2, <2>2, ReadStarts DEF Filters, Bytes
    <2>3. CASE cmd' \in {Prompt, Exit}
      BY <1>2, <2>3, TrainerNames DEF ReadInv
    <2>4. QED
      BY <1>1, <2>1, <2>2, <2>3
  <1>4. out'.kind = "rows" => \E limit \in Nat : out'.rows = Rows(trainer, limit)
    <2>1. CASE UNCHANGED out
      BY <2>1 DEF TrainerInv
    <2>2. CASE \E limit \in 1 .. 2 :
                  out' = [kind |-> "rows", limit |-> limit, rows |-> Rows(trainer, limit)]
      BY <2>2
    <2>3. QED
      BY <1>1, <2>1, <2>2
  <1>5. QED
    BY <1>1, <1>2, <1>3, <1>4 DEF TrainerInv

\* READ_MEM is answered. A short answer leaves fewer bytes than were asked for, and no later
\* one makes up for them, so that only a read without one has its bytes in their places.
LEMMA Chunks ==
  ASSUME TrainerInv, ReadChunk
  PROVE  TrainerInv'
  <1> DEFINE take == IF length - cmd.asked < MaxChunk THEN length - cmd.asked ELSE MaxChunk
             first == Start + cmd.asked
             got(n) == [i \in 1 .. n |-> emulator.mem[first + i - 1]]
  <1>1. /\ cmd \in ReadType /\ cmd.asked < length /\ emulator \in EmulatorType
        /\ UNCHANGED <<emulator, trainer, out, seen>>
    BY TrainerNames DEF ReadChunk, Running, TrainerInv
  <1>2. PICK n \in {take, take - 1} :
           /\ cmd' = [cmd EXCEPT !.asked = @ + take, !.data = @ \o got(n)]
           /\ answered' = [a \in Addresses |->
                 IF a \in first .. first + n - 1 THEN emulator.mem[a] ELSE answered[a]]
    BY DEF ReadChunk
  <1>3. /\ cmd.asked \in Nat /\ cmd.data \in Seq(Bytes) /\ Len(cmd.data) \in Nat
        /\ length \in Nat /\ MaxChunk \in Nat \ {0} /\ Start \in Nat
    BY <1>1, RangeFacts, LenProperties DEF ReadType
  <1>4. /\ take \in Nat /\ take >= 1 /\ cmd.asked + take <= length /\ n \in Nat
        /\ n <= take /\ first \in Nat
    BY <1>1, <1>3
  <1> HIDE DEF take
  <1>5. ASSUME NEW i \in 1 .. n
        PROVE  first + i - 1 \in Addresses /\ first + i - 1 = AddressOf(cmd.asked + i)
    <2>1. cmd.asked + i \in 1 .. length
      BY <1>3, <1>4
    <2>2. first + i - 1 = AddressOf(cmd.asked + i)
      BY <1>3, <1>4 DEF AddressOf
    <2>3. QED
      BY <2>1, <2>2, RangeFacts
  <1>6. got(n) \in Seq(Bytes) /\ Len(got(n)) = n
    <2>1. emulator.mem \in [Addresses -> Bytes]
      BY <1>1 DEF EmulatorType
    <2>2. \A i \in 1 .. n : emulator.mem[first + i - 1] \in Bytes
      BY <1>5, <2>1
    <2>3. got(n) \in Seq(Bytes)
      BY <1>4, <2>2, IsASeq
    <2>4. got(n) \in [1 .. n -> Bytes]
      BY <2>2
    <2>5. QED
      BY <1>4, <2>3, <2>4, LenProperties
  <1> DEFINE d == cmd.data \o got(n)
  <1>7. /\ d \in Seq(Bytes) /\ Len(d) = Len(cmd.data) + n
        /\ \A i \in 1 .. Len(d) :
              d[i] = IF i <= Len(cmd.data) THEN cmd.data[i]
                     ELSE emulator.mem[first + (i - Len(cmd.data)) - 1]
    <2> DEFINE g == got(n)
    <2>1. \A i \in 1 .. n : g[i] = emulator.mem[first + i - 1]
      OBVIOUS
    <2>2. g \in Seq(Bytes) /\ Len(g) = n
      BY <1>6
    <2> HIDE DEF g
    <2>3. /\ cmd.data \o g \in Seq(Bytes) /\ Len(cmd.data \o g) = Len(cmd.data) + n
          /\ \A i \in 1 .. Len(cmd.data) + n :
                (cmd.data \o g)[i] = IF i <= Len(cmd.data) THEN cmd.data[i]
                                     ELSE g[i - Len(cmd.data)]
      BY <1>3, <2>2, ConcatProperties
    <2>4. \A i \in 1 .. Len(cmd.data) + n : ~(i <= Len(cmd.data)) =>
             i - Len(cmd.data) \in 1 .. n
      BY <1>3, <1>4
    <2>5. QED
      BY <2>1, <2>3, <2>4 DEF g
  <1> HIDE DEF d
  <1>8. /\ cmd' \in ReadType /\ cmd'.filter = cmd.filter
        /\ cmd'.asked = cmd.asked + take /\ cmd'.data = d
    <2>1. cmd' = [cmd EXCEPT !.asked = @ + take, !.data = d]
      BY <1>1, <1>2 DEF d, ReadType
    <2>2. cmd.asked + take \in Nat
      BY <1>3, <1>4
    <2>3. QED
      BY <1>1, <1>7, <2>1, <2>2 DEF ReadType
  <1>9. answered' \in [Addresses -> Bytes]
    BY <1>1, <1>2 DEF TrainerInv, EmulatorType
  <1>10. ReadInv'
    <2>1. /\ cmd.filter = "start" <=> seen = <<>>
          /\ Len(cmd.data) <= cmd.asked
          /\ Len(cmd.data) = cmd.asked =>
                \A i \in 1 .. cmd.asked : cmd.data[i] = answered[AddressOf(i)]
      BY <1>1 DEF TrainerInv, ReadInv
    <2>2. cmd'.asked <= length /\ Len(d) <= cmd'.asked
      BY <1>3, <1>4, <1>7, <1>8, <2>1
    <2>3. ASSUME Len(d) = cmd'.asked, NEW i \in 1 .. cmd'.asked
          PROVE  d[i] = answered'[AddressOf(i)]
      <3>1. Len(cmd.data) = cmd.asked /\ n = take /\ i \in 1 .. length
        BY SMTT(30), <1>3, <1>4, <1>7, <1>8, <2>1, <2>3
      <3>2. AddressOf(i) \in Addresses /\ AddressOf(i) = Start + i - 1 /\ i \in 1 .. Len(d)
        BY <2>3, <3>1, RangeFacts DEF AddressOf
      <3>3. AddressOf(i) \in first .. first + n - 1 <=> i > cmd.asked
        BY <1>3, <1>4, <1>8, <3>1, <3>2
      <3>4. CASE i <= cmd.asked
        <4>1. d[i] = cmd.data[i] /\ cmd.data[i] = answered[AddressOf(i)]
          BY <1>7, <1>3, <2>1, <3>1, <3>2, <3>4
        <4>2. answered'[AddressOf(i)] = answered[AddressOf(i)]
          BY <1>2, <1>3, <3>2, <3>3, <3>4
        <4>3. QED
          BY <4>1, <4>2
      <3>5. CASE i > cmd.asked
        <4>1. d[i] = emulator.mem[first + (i - cmd.asked) - 1]
          BY <1>7, <1>3, <3>1, <3>2, <3>5
        <4>2. first + (i - cmd.asked) - 1 = AddressOf(i)
          BY <1>3, <3>2
        <4>3. answered'[AddressOf(i)] = emulator.mem[AddressOf(i)]
          BY <1>2, <3>2, <3>3, <3>5
        <4>4. QED
          BY <4>1, <4>2, <4>3
      <3>6. QED
        BY <1>3, <3>1, <3>4, <3>5
    <2>4. QED
      BY <1>1, <1>8, <2>1, <2>2, <2>3 DEF ReadInv
  <1>11. QED
    BY <1>1, <1>8, <1>9, <1>10, TrainerNames DEF TrainerInv

(***************************************************************************)
(* The trainer: its filters.                                               *)
(***************************************************************************)

\* What filter f, the next one, asks of the byte at address a.
Test(filters, f, a) ==
    /\ f.filter = "start" => f.bytes[a] = f.value
    /\ f.filter = "c" => f.bytes[a] # filters[Len(filters)].bytes[a] /\ f.bytes[a] = f.value
    /\ f.filter = "nc" => f.bytes[a] = filters[Len(filters)].bytes[a]

\* What passes one more filter passed all before it, and the new one.
LEMMA MatchesAppended ==
  ASSUME NEW filters \in Seq(Filter), NEW f \in Filter,
         f.filter = "start" <=> filters = <<>>,
         \A k \in DOMAIN filters : filters[k].filter = "start" <=> k = 1
  PROVE  /\ \A k \in DOMAIN Append(filters, f) :
               Append(filters, f)[k].filter = "start" <=> k = 1
         /\ \A a \in Addresses :
               a \in Matches(Append(filters, f)) <=>
                   a \in Matches(filters) /\ Test(filters, f, a)
  <1> DEFINE new == Append(filters, f)
             n == Len(filters)
  <1>1. /\ n \in Nat /\ DOMAIN filters = 1 .. n /\ DOMAIN new = 1 .. n + 1
        /\ \A k \in 1 .. n : new[k] = filters[k] /\ filters[k] \in Filter
        /\ new[n + 1] = f
        /\ n = 0 <=> filters = <<>>
    BY AppendProperties, LenProperties, ElementOfSeq, EmptySeq
  <1> HIDE DEF new, n
  <1>2. \A k \in DOMAIN new : new[k].filter = "start" <=> k = 1
    BY <1>1
  <1>3. ASSUME NEW k \in 1 .. n, NEW a \in Addresses
        PROVE  Passes(new, a, k) <=> Passes(filters, a, k)
    <2>1. filters[k].filter \in Filters /\ new[k] = filters[k]
      BY <1>1 DEF Filter
    <2>2. filters[k].filter # "start" => k - 1 \in 1 .. n /\ new[k - 1] = filters[k - 1]
      BY <1>1
    <2>3. QED
      BY <2>1, <2>2 DEF Passes, Filters
  <1>4. ASSUME NEW a \in Addresses
        PROVE  Passes(new, a, n + 1) <=> Test(filters, f, a)
    <2>1. f.filter \in Filters /\ new[n + 1] = f /\ (n + 1) - 1 = n
      BY <1>1 DEF Filter
    <2>2. f.filter # "start" => new[n] = filters[n]
      BY <1>1
    <2>3. n = Len(filters)
      BY DEF n
    <2>4. QED
      BY <2>1, <2>2, <2>3 DEF Passes, Test, Filters
  <1>5. ASSUME NEW a \in Addresses
        PROVE  a \in Matches(new) <=> a \in Matches(filters) /\ Test(filters, f, a)
    <2>1. a \in Matches(filters) <=> \A k \in 1 .. n : Passes(filters, a, k)
      BY <1>1 DEF Matches
    <2>2. a \in Matches(new) <=> \A k \in 1 .. n + 1 : Passes(new, a, k)
      BY <1>1 DEF Matches
    <2>3. (\A k \in 1 .. n + 1 : Passes(new, a, k)) <=>
              (\A k \in 1 .. n : Passes(new, a, k)) /\ Passes(new, a, n + 1)
      BY <1>1
    <2>4. QED
      BY <1>3, <1>4, <2>1, <2>2, <2>3
  <1>6. QED
    BY <1>2, <1>5 DEF new

\* The candidates of the start are all places of the range.
LEMMA AllIndicesAre ==
  /\ AllIndices \in Seq(1 .. length) /\ Increasing(AllIndices)
  /\ \A i \in 1 .. length : i \in Range(AllIndices)
  <1>1. AllIndices \in [1 .. length -> 1 .. length] /\ \A i \in 1 .. length : AllIndices[i] = i
    BY DEF AllIndices
  <1>2. QED
    BY <1>1, RangeFacts, SeqDef DEF Increasing, Range

\* A filter narrows the candidates to those that pass it too (Trainer.Start, Changed,
\* NotChanged).
LEMMA Narrowed ==
  ASSUME TrainerInv, cmd \in ReadType, NEW data,
         data = [i \in 1 .. length |-> answered[AddressOf(i)]],
         NEW t,
         t = CASE cmd.filter = "start" -> TrainerStart(data, cmd.value)
               [] cmd.filter = "c" -> TrainerChanged(trainer, data, cmd.value)
               [] cmd.filter = "nc" -> TrainerNotChanged(trainer, data)
  PROVE  Filtered(t, Append(seen, [filter |-> cmd.filter, value |-> cmd.value,
                                   bytes |-> answered]))
  <1> DEFINE f == [filter |-> cmd.filter, value |-> cmd.value, bytes |-> answered]
             new == Append(seen, f)
  <1>1. /\ seen \in Seq(Filter) /\ f \in Filter /\ (f.filter = "start" <=> seen = <<>>)
        /\ \A k \in DOMAIN seen : seen[k].filter = "start" <=> k = 1
        /\ seen # <<>> => Filtered(trainer, seen)
        /\ cmd.filter \in Filters
    BY DEF TrainerInv, ReadInv, ReadType, Filter
  <1>2. \A a \in Addresses : a \in Matches(new) <=> a \in Matches(seen) /\ Test(seen, f, a)
    BY <1>1, MatchesAppended
  <1>3. new[Len(new)] = f
    BY <1>1, AppendProperties, LenProperties
  <1>4. t.snapshot = [i \in 1 .. length |-> new[Len(new)].bytes[AddressOf(i)]]
    <2>1. t.snapshot = data
      BY <1>1 DEF TrainerStart, TrainerChanged, TrainerNotChanged, Filters
    <2>2. new[Len(new)].bytes = answered
      BY <1>3
    <2> HIDE DEF new
    <2>3. QED
      BY <2>1, <2>2
  <1>5. ASSUME NEW cs \in Seq(1 .. length), Increasing(cs), NEW S, t.candidates = Kept(cs, S),
               \A i \in 1 .. length : i \in Range(cs) <=> AddressOf(i) \in Matches(seen),
               \A i \in 1 .. length : i \in S <=> Test(seen, f, AddressOf(i))
        PROVE  Filtered(t, new)
    <2>1. /\ t.candidates \in Seq(1 .. length) /\ Increasing(t.candidates)
          /\ \A i : i \in Range(t.candidates) <=> i \in Range(cs) /\ i \in S
      <3>1. cs \in Seq(1 .. length) /\ Increasing(cs)
        BY <1>5
      <3>2. /\ Kept(cs, S) \in Seq(1 .. length) /\ Increasing(Kept(cs, S))
            /\ \A x : x \in Range(Kept(cs, S)) <=> x \in Range(cs) /\ x \in S
        BY <3>1, KeptIs
      <3>3. t.candidates = Kept(cs, S)
        BY <1>5
      <3>4. QED
        BY <3>2, <3>3
    <2>2. \A i \in 1 .. length : i \in Range(t.candidates) <=> AddressOf(i) \in Matches(new)
      BY <1>2, <1>5, <2>1, RangeFacts
    <2>3. QED
      BY <1>4, <2>1, <2>2 DEF Filtered
  <1>6. CASE cmd.filter = "start"
    <2> DEFINE S == {i \in 1 .. length : data[i] = cmd.value}
    <2>1. t.candidates = Kept(AllIndices, S)
      BY <1>6 DEF TrainerStart
    <2>2. \A i \in 1 .. length : i \in S <=> Test(seen, f, AddressOf(i))
      BY <1>6 DEF Test
    <2> HIDE DEF S
    <2>3. \A a \in Addresses : a \in Matches(seen)
      <3>1. DOMAIN seen = {}
        BY <1>1, <1>6, EmptySeq
      <3>2. QED
        BY <3>1 DEF Matches
    <2>4. \A i \in 1 .. length : i \in Range(AllIndices) <=> AddressOf(i) \in Matches(seen)
      BY <2>3, AllIndicesAre, RangeFacts
    <2>5. QED
      BY <1>5, <2>1, <2>2, <2>4, AllIndicesAre
  <1>7. CASE cmd.filter \in {"c", "nc"}
    <2> DEFINE S == IF cmd.filter = "c"
                    THEN {i \in 1 .. length :
                              data[i] # trainer.snapshot[i] /\ data[i] = cmd.value}
                    ELSE {i \in 1 .. length : data[i] = trainer.snapshot[i]}
    <2>1. t.candidates = Kept(trainer.candidates, S)
      BY <1>7 DEF TrainerChanged, TrainerNotChanged
    <2>2. seen # <<>> /\ Filtered(trainer, seen)
      BY <1>1, <1>7
    <2>3. \A i \in 1 .. length : trainer.snapshot[i] = seen[Len(seen)].bytes[AddressOf(i)]
      BY <2>2 DEF Filtered
    <2>4. \A i \in 1 .. length : i \in S <=> Test(seen, f, AddressOf(i))
      BY <1>7, <2>3 DEF Test
    <2> HIDE DEF S
    <2>5. QED
      BY <1>5, <2>1, <2>2, <2>4 DEF Filtered
  <1>8. QED
    BY <1>1, <1>6, <1>7 DEF Filters

\* The bytes are there: the filter is applied when they are complete.
LEMMA Takes ==
  ASSUME TrainerInv, TakeBytes
  PROVE  TrainerInv'
  <1>1. /\ cmd \in ReadType /\ cmd.asked = length
        /\ UNCHANGED <<emulator, answered>>
    BY TrainerNames DEF TakeBytes, Running, TrainerInv
  <1>2. cmd.data \in Seq(Bytes) /\ Len(cmd.data) \in Nat /\ length \in Nat
    BY <1>1, RangeFacts, LenProperties DEF ReadType
  <1>3. CASE Len(cmd.data) < length
    <2>1. cmd' = Exit /\ UNCHANGED <<trainer, out, seen>>
      BY <1>3 DEF TakeBytes
    <2>2. QED
      BY <1>1, <2>1, TrainerNames DEF TrainerInv, ReadInv
  <1>4. CASE ~(Len(cmd.data) < length)
    <2> DEFINE f == [filter |-> cmd.filter, value |-> cmd.value, bytes |-> answered]
    <2>1. /\ trainer' = CASE cmd.filter = "start" -> TrainerStart(cmd.data, cmd.value)
                          [] cmd.filter = "c" -> TrainerChanged(trainer, cmd.data, cmd.value)
                          [] cmd.filter = "nc" -> TrainerNotChanged(trainer, cmd.data)
          /\ seen' = Append(seen, f)
          /\ cmd' \in {Exit, Prompt}
          /\ \/ out' = [kind |-> "rows", limit |-> 1, rows |-> Rows(trainer', 1)]
             \/ out' = [kind |-> "matches", n |-> Len(trainer'.candidates)]
      BY <1>4 DEF TakeBytes
    <2>2. cmd.data = [i \in 1 .. length |-> answered[AddressOf(i)]]
      <3>1. Len(cmd.data) = length
        BY <1>1, <1>2, <1>4 DEF TrainerInv, ReadInv
      <3>2. \A i \in 1 .. length : cmd.data[i] = answered[AddressOf(i)]
        BY <1>1, <3>1 DEF TrainerInv, ReadInv
      <3>3. cmd.data \in [1 .. length -> Bytes]
        BY <1>2, <3>1, LenProperties
      <3>4. QED
        BY <3>2, <3>3
    <2>3. Filtered(trainer', seen')
      BY <1>1, <2>1, <2>2, Narrowed
    <2>4. /\ seen \in Seq(Filter) /\ f \in Filter /\ (f.filter = "start" <=> seen = <<>>)
          /\ \A k \in DOMAIN seen : seen[k].filter = "start" <=> k = 1
      BY <1>1 DEF TrainerInv, ReadInv, ReadType, Filter
    <2> HIDE DEF f
    <2>5. /\ seen' \in Seq(Filter) /\ seen' # <<>>
          /\ \A k \in DOMAIN seen' : seen'[k].filter = "start" <=> k = 1
      BY <2>1, <2>4, MatchesAppended, AppendProperties
    <2>6. out'.kind = "rows" => \E limit \in Nat : out'.rows = Rows(trainer', limit)
      <3>1. CASE out' = [kind |-> "rows", limit |-> 1, rows |-> Rows(trainer', 1)]
        <4>1. out'.rows = Rows(trainer', 1) /\ 1 \in Nat
          BY <3>1
        <4>2. QED
          BY <4>1
      <3>2. CASE out' = [kind |-> "matches", n |-> Len(trainer'.candidates)]
        BY <3>2
      <3>3. QED
        BY <2>1, <3>1, <3>2
    <2>7. cmd' \in {Prompt, Exit} \cup ReadType /\ ReadInv'
      BY <2>1, TrainerNames DEF ReadInv
    <2>8. QED
      BY <1>1, <2>3, <2>5, <2>6, <2>7 DEF TrainerInv
  <1>5. QED
    BY <1>3, <1>4

\* A call fails: the trainer ends.
LEMMA TrainerFails ==
  ASSUME TrainerInv, tool = "trainer", CallFails
  PROVE  TrainerInv'
  <1>1. cmd' = Exit /\ out' = Nothing /\ UNCHANGED <<emulator, trainer, answered, seen>>
    BY DEF CallFails
  <1>2. QED
    BY <1>1, TrainerNames DEF TrainerInv, ReadInv

\* Every step keeps the trainer's invariant.
LEMMA TrainerStep ==
  ASSUME TrainerInv, tool = "trainer", [Next]_vars
  PROVE  TrainerInv'
  <1>1. cmd.name \in {"prompt", "exit", "read"}
    BY TrainerNames DEF TrainerInv
  <1>2. /\ ~Running("list") /\ ~Running("add") /\ ~Running("delete")
        /\ ~Running("clear") /\ ~Running("on") /\ ~Running("off")
    BY <1>1 DEF Running
  <1>3. CASE Next
    <2>1. MemoryChanges \/ CallFails \/ TrainerCommand \/ ReadChunk \/ TakeBytes
      BY <1>2, <1>3 DEF Next, EmulatorRuns, OthersAct, LateExecution, ShellCommand, Send, Poll,
                        Ping, PrintCPUState, At, BreakpointCommand, AddClause, ChangeTable,
                        ListClauses
    <2>2. QED
      BY <2>1, Changes, TrainerFails, Commands, Chunks, Takes
  <1>4. CASE UNCHANGED vars
    BY <1>4 DEF vars, TrainerInv, ReadInv
  <1>5. QED
    BY <1>3, <1>4

(***************************************************************************)
(* The breakpoint commands.                                                *)
(***************************************************************************)

LEMMA BpNames ==
  /\ Prompt.name = "prompt" /\ Nothing.kind = "nothing"
  /\ \A c \in PlainType : c.name \in {"list", "clear", "on", "off"}
  /\ \A c \in DeleteType : c.name = "delete"
  /\ \A c \in AddType : c.name = "add"
  BY DEF Prompt, Nothing, PlainType, DeleteType, AddType

\* The clauses of an expression, and a table with one clause more or one less.
LEMMA ParsedIs ==
  ASSUME NEW text \in Texts
  PROVE  Parsed[text] \in Seq(Clauses) /\ Range(Parsed[text]) \subseteq Clauses
  <1>1. text \in Seq(Tokens)
    BY CliSessionsAssumption
  <1>2. Parsed[text] = ParseBPClauses(text)
    BY DEF Parsed
  <1> DEFINE s == Parsed[text]
  <1>3. s \in Seq(Clauses)
    BY <1>1, <1>2, ParsedType
  <1> HIDE DEF s
  <1>4. Range(s) \subseteq Clauses
    <2>1. DOMAIN s = 1 .. Len(s) /\ \A i \in 1 .. Len(s) : s[i] \in Clauses
      BY <1>3, LenProperties, ElementOfSeq
    <2>2. QED
      BY <2>1 DEF Range
  <1>5. QED
    BY <1>3, <1>4 DEF s

LEMMA MaxClausesIs == MaxClauses \in Nat /\ 0 .. MaxClauses = Words
  <1>1. Word - 1 \in Nat
    BY WordsAre
  <1>2. QED
    BY <1>1 DEF Words, MaxClauses

LEMMA Grown ==
  ASSUME NEW t \in Tables, NEW c \in Clauses, Len(t) < MaxClauses
  PROVE  /\ Append(t, c) \in Tables /\ Len(Append(t, c)) = Len(t) + 1
         /\ Len(t) \in Nat /\ DOMAIN t = 1 .. Len(t) /\ DOMAIN Append(t, c) = 1 .. Len(t) + 1
         /\ \A i \in DOMAIN t : Append(t, c)[i] = t[i]
         /\ Append(t, c)[Len(t) + 1] = c
  <1> DEFINE u == Append(t, c)
             n == Len(t)
  <1>1. t \in Seq(Clauses) /\ n \in Nat /\ DOMAIN t = 1 .. n
    BY LenProperties DEF Tables
  <1>2. u \in Seq(Clauses) /\ Len(u) = n + 1 /\ u[n + 1] = c /\ \A i \in 1 .. n : u[i] = t[i]
    BY <1>1, AppendProperties
  <1> HIDE DEF u
  <1>3. DOMAIN u = 1 .. n + 1
    BY <1>2, LenProperties
  <1>4. u \in Tables
    BY <1>1, <1>2, MaxClausesIs DEF Tables
  <1>5. QED
    BY <1>1, <1>2, <1>3, <1>4 DEF u

LEMMA Shrunk ==
  ASSUME NEW t \in Tables, NEW i \in DOMAIN t
  PROVE  RemoveAt(t, i) \in Tables
  <1> DEFINE n == Len(t)
             u == SubSeq(t, 1, i - 1)
             v == SubSeq(t, i + 1, n)
             w == u \o v
  <1>1. /\ t \in Seq(Clauses) /\ n \in Nat /\ n <= MaxClauses /\ i \in 1 .. n
        /\ \A k \in 1 .. n : t[k] \in Clauses
    BY LenProperties, ElementOfSeq DEF Tables
  <1> HIDE DEF n
  <1>2. u \in Seq(Clauses) /\ Len(u) = i - 1
    <2>1. \A k \in 1 .. i - 1 : t[k] \in Clauses
      BY <1>1
    <2>2. u \in Seq(Clauses) /\ (Len(u) = IF 1 <= i - 1 THEN i - 1 - 1 + 1 ELSE 0)
      BY <1>1, <2>1, SubSeqProperties
    <2>3. QED
      BY <1>1, <2>2
  <1>3. v \in Seq(Clauses) /\ Len(v) = n - i
    <2>1. \A k \in i + 1 .. n : t[k] \in Clauses
      BY <1>1
    <2>2. v \in Seq(Clauses) /\ (Len(v) = IF i + 1 <= n THEN n - (i + 1) + 1 ELSE 0)
      BY <1>1, <2>1, SubSeqProperties
    <2>3. QED
      BY <1>1, <2>2
  <1> HIDE DEF u, v
  <1>4. w \in Seq(Clauses) /\ Len(w) = Len(u) + Len(v)
    <2>1. u \in Seq(Clauses) /\ v \in Seq(Clauses)
      BY <1>2, <1>3
    <2>2. QED
      BY <2>1, BothOf
  <1>5. RemoveAt(t, i) = w
    BY DEF RemoveAt, u, v, w, n
  <1> HIDE DEF w
  <1>6. Len(w) <= MaxClauses
    BY SMTT(30), <1>1, <1>2, <1>3, <1>4, MaxClausesIs
  <1>7. QED
    BY <1>4, <1>5, <1>6 DEF Tables

\* The clause that is added next.
LEMMA NextIs ==
  ASSUME NEW c \in AddType, Len(c.added) < Len(c.clauses)
  PROVE  /\ NextClause(c) = c.clauses[Len(c.added) + 1] /\ NextClause(c) \in Clauses
         /\ Len(c.added) + 1 \in 1 .. Len(c.clauses)
  <1>1. c.clauses \in Seq(Clauses) /\ Len(c.clauses) \in Nat /\ Len(c.added) \in Nat
    BY LenProperties DEF AddType
  <1>2. Len(c.added) + 1 \in 1 .. Len(c.clauses)
    BY <1>1
  <1>3. QED
    BY <1>1, <1>2, ElementOfSeq DEF NextClause

\* A table that is edited leaves the rest of the emulator alone.
LEMMA TableSet ==
  ASSUME NEW e \in BpEmulatorType, NEW t \in Tables
  PROVE  /\ [e EXCEPT !.table = t] \in BpEmulatorType
         /\ [e EXCEPT !.table = t].table = t /\ e.table \in Tables
  BY DEF BpEmulatorType

\* The emulator adds the clause as it is.
LEMMA AddsTheNext ==
  ASSUME NEW e, NEW c \in AddType, Len(c.added) < Len(c.clauses)
  PROVE  Edited(e, c) = [e EXCEPT !.table = Append(@, NextClause(c))]
  <1> DEFINE clause == NextClause(c)
  <1>1. clause \in Seq(Conditions)
    BY NextIs DEF Clauses
  <1>2. c.name = "add"
    BY BpNames
  <1>3. Edited(e, c) = [e EXCEPT !.table = Append(@, ServerClause(AddClausePayload(clause)))]
    BY <1>2 DEF Edited
  <1> HIDE DEF clause
  <1>4. ServerClause(AddClausePayload(clause)) = clause
    BY <1>1, ServerReads
  <1>5. QED
    BY <1>3, <1>4 DEF clause

\* What the emulator makes of a call that changes the table or its switch.
LEMMA EditedOK ==
  ASSUME NEW e \in BpEmulatorType, NEW c \in EditType,
         c.name = "add" => Len(e.table) < MaxClauses
  PROVE  Edited(e, c) \in BpEmulatorType
  <1>1. e.table \in Tables
    BY DEF BpEmulatorType
  <1>2. \/ c.name = "add" /\ c \in AddType /\ Len(c.added) < Len(c.clauses)
        \/ c.name = "delete" \/ c.name = "clear" \/ c.name \in {"on", "off"}
    BY BpNames DEF EditType
  <1>3. CASE c.name = "add" /\ c \in AddType /\ Len(c.added) < Len(c.clauses)
    <2> DEFINE new == Append(e.table, NextClause(c))
    <2>1. Edited(e, c) = [e EXCEPT !.table = new] /\ NextClause(c) \in Clauses
      BY <1>3, AddsTheNext, NextIs
    <2>2. new \in Tables
      BY <1>1, <1>3, <2>1, Grown
    <2> HIDE DEF new
    <2>3. QED
      BY <2>1, <2>2, TableSet
  <1>4. CASE c.name = "delete"
    <2> DEFINE new == RemoveAt(e.table, Place(c))
    <2>1. \/ Place(c) \in DOMAIN e.table /\ Edited(e, c) = [e EXCEPT !.table = new]
          \/ Edited(e, c) = e
      BY <1>4 DEF Edited
    <2>2. Place(c) \in DOMAIN e.table => new \in Tables
      BY <1>1, Shrunk
    <2> HIDE DEF new
    <2>3. QED
      BY <2>1, <2>2, TableSet
  <1>5. CASE c.name = "clear"
    <2> DEFINE new == <<>>
    <2>1. new \in Tables
      <3>1. new \in Seq(Clauses) /\ Len(new) = 0
        BY EmptySeq
      <3>2. QED
        BY <3>1, MaxClausesIs DEF Tables
    <2>2. Edited(e, c) = [e EXCEPT !.table = new]
      BY <1>5 DEF Edited
    <2> HIDE DEF new
    <2>3. QED
      BY <2>1, <2>2, TableSet
  <1>6. CASE c.name \in {"on", "off"}
    <2>1. Edited(e, c) = [e EXCEPT !.enabled = (c.name = "on")]
      BY <1>6 DEF Edited
    <2>2. \E b \in BOOLEAN : Edited(e, c) = [e EXCEPT !.enabled = b]
      BY <2>1
    <2>3. QED
      BY <2>2 DEF BpEmulatorType
  <1>7. QED
    BY <1>2, <1>3, <1>4, <1>5, <1>6

\* Somebody else edits the table: nothing is claimed of the numbers any more.
LEMMA BpOthers ==
  ASSUME BpInv, tool = "bp", OthersAct
  PROVE  BpInv'
  <1>1. others' = TRUE /\ UNCHANGED <<cmd, out>>
    BY DEF OthersAct
  <1>2. emulator \in BpEmulatorType /\ emulator.table \in Tables
    BY TableSet DEF BpInv, BpEmulatorType
  <1>3. emulator' \in BpEmulatorType
    <2>1. \/ \E t \in Texts : \E c \in Range(Parsed[t]) :
                /\ Len(emulator.table) < MaxClauses
                /\ emulator' = [emulator EXCEPT !.table = Append(@, c)]
          \/ \E i \in DOMAIN emulator.table :
                emulator' = [emulator EXCEPT !.table = RemoveAt(@, i)]
      BY DEF OthersAct
    <2>2. ASSUME NEW t \in Texts, NEW c \in Range(Parsed[t]), Len(emulator.table) < MaxClauses,
                 emulator' = [emulator EXCEPT !.table = Append(@, c)]
          PROVE  emulator' \in BpEmulatorType
      <3> DEFINE new == Append(emulator.table, c)
      <3>1. c \in Clauses
        BY ParsedIs
      <3>2. new \in Tables
        BY <1>2, <2>2, <3>1, Grown
      <3>3. emulator' = [emulator EXCEPT !.table = new]
        BY <2>2
      <3> HIDE DEF new
      <3>4. QED
        BY <1>2, <3>2, <3>3, TableSet
    <2>3. ASSUME NEW i \in DOMAIN emulator.table,
                 emulator' = [emulator EXCEPT !.table = RemoveAt(@, i)]
          PROVE  emulator' \in BpEmulatorType
      <3> DEFINE new == RemoveAt(emulator.table, i)
      <3>1. new \in Tables
        BY <1>2, Shrunk
      <3>2. emulator' = [emulator EXCEPT !.table = new]
        BY <2>3
      <3> HIDE DEF new
      <3>3. QED
        BY <1>2, <3>1, <3>2, TableSet
    <2>4. QED
      BY <2>1, <2>2, <2>3
  <1>4. QED
    BY <1>1, <1>3 DEF BpInv

\* A command begins.
LEMMA BpAsks ==
  ASSUME BpInv, BreakpointCommand
  PROVE  BpInv'
  <1>1. out' = Nothing /\ out'.kind = "nothing" /\ emulator' = emulator
    BY BpNames DEF BreakpointCommand
  <1>2. emulator' \in BpEmulatorType
    BY <1>1 DEF BpInv
  <1>3. \/ \E kind \in {"list", "clear", "on", "off"} : cmd' = [name |-> kind]
        \/ \E i \in Indices : cmd' = IF i <= 0 THEN Prompt ELSE [name |-> "delete", index |-> i]
        \/ \E text \in Texts :
               cmd' = IF Parsed[text] = Refused THEN Prompt
                      ELSE [name |-> "add", clauses |-> Parsed[text], added |-> <<>>]
    BY DEF BreakpointCommand
  <1>4. CASE \E kind \in {"list", "clear", "on", "off"} : cmd' = [name |-> kind]
    <2>1. cmd' \in PlainType
      BY <1>4 DEF PlainType
    <2>2. cmd' \notin AddType
      BY <2>1, BpNames
    <2>3. QED
      BY <1>1, <1>2, <2>1, <2>2 DEF BpInv
  <1>5. CASE cmd' = Prompt
    <2>1. cmd' \notin AddType
      BY <1>5, BpNames
    <2>2. QED
      BY <1>1, <1>2, <1>5, <2>1 DEF BpInv
  <1>6. ASSUME NEW i \in Indices, cmd' = [name |-> "delete", index |-> i]
        PROVE  BpInv'
    <2>1. i \in Int
      BY CliSessionsAssumption
    <2>2. cmd' \in DeleteType
      BY <1>6, <2>1 DEF DeleteType
    <2>3. cmd' \notin AddType
      BY <2>2, BpNames
    <2>4. QED
      BY <1>1, <1>2, <2>2, <2>3 DEF BpInv
  <1>7. ASSUME NEW text \in Texts, Parsed[text] # Refused,
               cmd' = [name |-> "add", clauses |-> Parsed[text], added |-> <<>>]
        PROVE  BpInv'
    <2> DEFINE s == Parsed[text]
               none == <<>>
    <2>1. s \in Seq(Clauses) /\ s # <<>>
      BY <1>7, ParsedIs DEF Refused
    <2>2. none \in Seq(Nat) /\ Len(none) = 0 /\ DOMAIN none = {}
      BY EmptySeq
    <2>3. cmd' = [name |-> "add", clauses |-> s, added |-> none]
      BY <1>7
    <2> HIDE DEF s, none
    <2>4. cmd' \in AddType /\ cmd'.added = none /\ cmd'.clauses = s
      BY <2>1, <2>2, <2>3 DEF AddType
    <2>5. Len(none) < Len(s)
      <3>1. Len(s) \in Nat \ {0}
        BY <2>1, EmptySeq, LenProperties
      <3>2. QED
        BY <2>2, <3>1
    <2>6. Placed(emulator'.table, none, s)
      BY <2>2 DEF Placed
    <2>7. QED
      BY <1>1, <1>2, <2>4, <2>5, <2>6 DEF BpInv
  <1>8. QED
    BY <1>3, <1>4, <1>5, <1>6, <1>7

\* One clause is added: the number that the emulator gives it is its place.
LEMMA BpAdds ==
  ASSUME BpInv, AddClause
  PROVE  BpInv'
  <1> DEFINE added == cmd.added
             clauses == cmd.clauses
             done == Len(added)
             clause == NextClause(cmd)
             old == emulator.table
             new == Append(old, clause)
             numbers == Append(added, Len(new))
  <1>1. cmd \in AddType
    <2>1. cmd.name = "add"
      BY DEF AddClause, Running
    <2>2. QED
      BY <2>1, BpNames DEF BpInv
  <1>2. added \in Seq(Nat) /\ clauses \in Seq(Clauses) /\ cmd = [cmd EXCEPT !.added = added]
    BY <1>1 DEF AddType
  <1>3. done \in Nat /\ DOMAIN added = 1 .. done /\ done < Len(clauses) /\ Len(clauses) \in Nat
    BY <1>1, <1>2, LenProperties DEF BpInv
  <1>4. clause = clauses[done + 1] /\ clause \in Clauses
    BY <1>1, <1>3, NextIs
  <1>5. emulator \in BpEmulatorType /\ old \in Tables
    BY DEF BpInv, BpEmulatorType
  <1>6. ~others => Placed(old, added, clauses)
    BY <1>1 DEF BpInv
  <1>7. out = Nothing
    BY <1>1, BpNames DEF BpInv
  <1>8. others' = others
    BY DEF AddClause
  <1>9. ASSUME Len(clause) > MaxConditions PROVE BpInv'
    <2>1. cmd' = Prompt /\ UNCHANGED <<emulator, out>>
      BY <1>9 DEF AddClause
    <2>2. cmd' \notin AddType /\ out'.kind = "nothing"
      BY <1>7, <2>1, BpNames
    <2>3. QED
      BY <1>5, <2>1, <2>2 DEF BpInv
  <1>10. ASSUME ~(Len(clause) > MaxConditions) PROVE BpInv'
    <2>1. /\ Len(old) < MaxClauses /\ emulator' = Edited(emulator, cmd)
          /\ LET next == Append(added, Len(emulator'.table))
             IN  IF Len(next) < Len(clauses)
                 THEN cmd' = [cmd EXCEPT !.added = next] /\ UNCHANGED out
                 ELSE /\ cmd' = Prompt
                      /\ out' = [kind |-> "added", numbers |-> next, clauses |-> clauses]
      BY <1>10 DEF AddClause
    <2>2. emulator' = [emulator EXCEPT !.table = new]
      BY <1>1, <1>3, <2>1, AddsTheNext
    <2> HIDE DEF old, clause, done, added, clauses
    <2>3. /\ new \in Tables /\ Len(new) = Len(old) + 1
          /\ Len(old) \in Nat /\ DOMAIN old = 1 .. Len(old) /\ DOMAIN new = 1 .. Len(old) + 1
          /\ \A i \in DOMAIN old : new[i] = old[i]
          /\ new[Len(old) + 1] = clause
      BY <1>4, <1>5, <2>1, Grown
    <2> HIDE DEF new
    <2>4. emulator' \in BpEmulatorType /\ emulator'.table = new
      BY <1>5, <2>2, <2>3, TableSet
    <2>5. /\ numbers \in Seq(Nat) /\ Len(numbers) = done + 1 /\ DOMAIN numbers = 1 .. done + 1
          /\ \A k \in 1 .. done : numbers[k] = added[k]
          /\ numbers[done + 1] = Len(new)
      <3>1. Len(new) \in Nat
        BY <2>3
      <3> DEFINE l == Len(new)
      <3> HIDE DEF l
      <3>2. /\ Append(added, l) \in Seq(Nat) /\ Len(Append(added, l)) = done + 1
            /\ \A k \in 1 .. done : Append(added, l)[k] = added[k]
            /\ Append(added, l)[done + 1] = l
        BY <1>2, <3>1, AppendProperties DEF l, done
      <3>3. DOMAIN Append(added, l) = 1 .. Len(Append(added, l))
        <4> DEFINE u == Append(added, l)
        <4>1. u \in Seq(Nat)
          BY <3>2
        <4> HIDE DEF u
        <4>2. DOMAIN u = 1 .. Len(u)
          BY <4>1, LenProperties
        <4>3. QED
          BY <4>2 DEF u
      <3>4. QED
        BY <3>2, <3>3 DEF l
    <2> HIDE DEF numbers
    <2>6. ~others => Placed(new, numbers, clauses)
      <3> SUFFICES ASSUME ~others, NEW k \in DOMAIN numbers
                   PROVE  numbers[k] \in DOMAIN new /\ new[numbers[k]] = clauses[k]
        BY DEF Placed
      <3>1. CASE k \in 1 .. done
        <4>1. added[k] \in DOMAIN old /\ old[added[k]] = clauses[k]
          BY <1>3, <1>6, <3>1 DEF Placed
        <4>2. QED
          BY <2>3, <2>5, <3>1, <4>1
      <3>2. CASE k = done + 1
        BY <1>3, <1>4, <2>3, <2>5, <3>2
      <3>3. QED
        BY <1>3, <2>5, <3>1, <3>2
    <2>7. ASSUME Len(numbers) < Len(clauses) PROVE BpInv'
      <3>1. cmd' = [cmd EXCEPT !.added = numbers] /\ out' = out
        BY <2>1, <2>4, <2>7 DEF numbers
      <3>2. cmd' \in AddType /\ cmd'.added = numbers /\ cmd'.clauses = clauses
        BY <1>1, <2>5, <3>1 DEF AddType, clauses
      <3>3. out'.kind = "nothing"
        BY <1>7, <3>1, BpNames
      <3>4. QED
        BY <1>7, <1>8, <2>4, <2>5, <2>6, <2>7, <3>1, <3>2, <3>3 DEF BpInv
    <2>8. ASSUME ~(Len(numbers) < Len(clauses)) PROVE BpInv'
      <3>1. cmd' = Prompt /\ out' = [kind |-> "added", numbers |-> numbers, clauses |-> clauses]
        BY <2>1, <2>4, <2>8 DEF numbers
      <3>2. cmd' \notin AddType
        BY <3>1, BpNames
      <3>3. out'.kind = "added" /\ out'.numbers = numbers /\ out'.clauses = clauses
        BY <3>1
      <3>4. QED
        BY <1>8, <2>4, <2>6, <3>1, <3>2, <3>3 DEF BpInv
    <2>9. QED
      BY <2>7, <2>8
  <1>11. QED
    BY <1>9, <1>10

\* A clause is deleted, the table is emptied, or its switch is set.
LEMMA BpChanges ==
  ASSUME BpInv, ChangeTable
  PROVE  BpInv'
  <1>1. /\ cmd.name \in {"delete", "clear", "on", "off"} /\ out' = out
        /\ emulator' = Edited(emulator, cmd)
    BY DEF ChangeTable, Running
  <1>2. cmd \in EditType /\ out = Nothing
    BY <1>1, BpNames DEF BpInv, EditType
  <1>3. out'.kind = "nothing" /\ out' = Nothing
    BY <1>1, <1>2, BpNames
  <1>4. emulator \in BpEmulatorType /\ emulator.table \in Tables
    BY DEF BpInv, BpEmulatorType
  <1>5. cmd' \in {Prompt} \cup PlainType
    <2>1. cmd' = Prompt \/ cmd' = [name |-> "list"]
      BY DEF ChangeTable
    <2>2. QED
      BY <2>1 DEF PlainType
  <1>6. emulator' \in BpEmulatorType
    BY <1>1, <1>2, <1>4, EditedOK
  <1>7. cmd' \notin AddType
    BY <1>5, BpNames
  <1>8. QED
    BY <1>3, <1>5, <1>6, <1>7 DEF BpInv

\* The list is printed.
LEMMA BpLists ==
  ASSUME BpInv, ListClauses
  PROVE  BpInv'
  <1> DEFINE table == emulator.table
             data == ServerList(emulator.enabled, table)
             clauses == DecodedList(data)
             lines == [i \in DOMAIN clauses |-> FormatClause(clauses[i])]
  <1>1. /\ out' = [kind |-> "list", enabled |-> data[1] # 0, table |-> table, lines |-> lines]
        /\ cmd' = Prompt /\ emulator' = emulator /\ others' = others
    BY DEF ListClauses
  <1>2. emulator \in BpEmulatorType /\ table \in Tables
    BY DEF BpInv, BpEmulatorType
  <1>3. clauses = table
    <2>1. table \in Seq(Seq(Conditions))
      <3>1. Clauses \subseteq Seq(Conditions)
        BY DEF Clauses
      <3>2. table \in Seq(Clauses)
        BY <1>2 DEF Tables
      <3> HIDE DEF table
      <3>3. QED
        BY <3>1, <3>2, SeqMonotonic
    <2>2. Len(table) \in Words
      <3>1. Len(table) \in Nat /\ Len(table) <= MaxClauses
        BY <1>2, LenProperties DEF Tables
      <3>2. Len(table) \in 0 .. MaxClauses
        BY <3>1, MaxClausesIs
      <3>3. QED
        BY <3>2, MaxClausesIs
    <2> HIDE DEF table
    <2>3. QED
      BY <2>1, <2>2, ListRead
  <1>4. lines = [i \in DOMAIN table |-> FormatClause(table[i])]
    BY <1>3
  <1> HIDE DEF lines, table, data
  <1>5. out'.kind = "list" /\ out'.table = table /\ out'.lines = lines
    BY <1>1
  <1>6. cmd' \notin AddType
    BY <1>1, BpNames
  <1>7. table \in Seq(Clauses)
    BY <1>2 DEF Tables
  <1>8. QED
    BY <1>1, <1>2, <1>4, <1>5, <1>6, <1>7 DEF BpInv

LEMMA BpFails ==
  ASSUME BpInv, tool = "bp", CallFails
  PROVE  BpInv'
  <1>1. cmd' = Prompt /\ out' = Nothing /\ out'.kind = "nothing" /\ UNCHANGED <<emulator, others>>
    BY BpNames DEF CallFails
  <1>2. cmd' \notin AddType
    BY <1>1, BpNames
  <1>3. QED
    BY <1>1, <1>2 DEF BpInv

\* A call of a command that has ended is carried out: that is somebody else's edit.
LEMMA BpOvertakes ==
  ASSUME BpInv, LateInv, tool = "bp", LateExecution
  PROVE  BpInv'
  <1>1. PICK call \in late : /\ call.cmd.name = "add" => Len(emulator.table) < MaxClauses
                            /\ emulator' = Edited(emulator, call.cmd)
                            /\ others' = TRUE /\ UNCHANGED <<cmd, out>>
    BY DEF LateExecution
  <1>2. call.cmd \in EditType /\ emulator \in BpEmulatorType
    BY DEF LateInv, BpInv
  <1>3. emulator' \in BpEmulatorType
    BY <1>1, <1>2, EditedOK
  <1>4. QED
    BY <1>1, <1>3 DEF BpInv

LEMMA BpStep ==
  ASSUME BpInv, LateInv, tool = "bp", [Next]_vars
  PROVE  BpInv'
  <1>1. ~Running("read")
    BY BpNames DEF BpInv, Running
  <1>2. CASE Next
    <2>1. \/ OthersAct \/ CallFails \/ LateExecution
          \/ BreakpointCommand \/ AddClause \/ ChangeTable \/ ListClauses
      BY <1>1, <1>2 DEF Next, MemoryChanges, EmulatorRuns, TrainerCommand, ReadChunk, TakeBytes,
                        ShellCommand, Send, Poll, Ping, PrintCPUState, At
    <2>2. QED
      BY <2>1, BpOthers, BpFails, BpOvertakes, BpAsks, BpAdds, BpChanges, BpLists
  <1>3. CASE UNCHANGED vars
    BY <1>3 DEF vars, BpInv
  <1>4. QED
    BY <1>2, <1>3

\* The steps of the trainer and of the shell print no list and no numbers.
LEMMA QuietStep ==
  ASSUME Quiet, (tool = "trainer" /\ TrainerInv) \/ (tool = "debug" /\ ShellInv), [Next]_vars
  PROVE  Quiet'
  <1>1. ~Running("list") /\ ~Running("add") /\ ~Running("delete")
        /\ ~Running("clear") /\ ~Running("on") /\ ~Running("off")
    <2>1. cmd.name \in {"prompt", "exit", "read"} \cup Calls
      BY TrainerNames, Names DEF TrainerInv, ShellInv
    <2>2. QED
      BY <2>1 DEF Running, Calls
  <1>2. ~BreakpointCommand /\ ~AddClause /\ ~ChangeTable /\ ~ListClauses
    BY <1>1 DEF BreakpointCommand, AddClause, ChangeTable, ListClauses
  <1>3. CASE \/ MemoryChanges \/ EmulatorRuns \/ OthersAct \/ LateExecution
             \/ ReadChunk \/ Send \/ Ping \/ UNCHANGED vars
    BY <1>3 DEF MemoryChanges, EmulatorRuns, OthersAct, LateExecution, ReadChunk, Send, Ping, vars,
                Quiet
  <1>4. CASE CallFails \/ ShellCommand \/ PrintCPUState
    BY <1>4, BpNames DEF CallFails, ShellCommand, PrintCPUState, Quiet
  <1>5. CASE Poll
    <2>1. tool = "debug" /\ ShellInv /\ At("status")
      BY <1>5 DEF Poll, At
    <2>2. cmd.name \in {"PAUSE", "CONTINUE"}
      BY <2>1, Names DEF At, ShellInv
    <2>3. Reached(cmd.name) \in BOOLEAN
      BY DEF Reached
    <2>4. \/ out' = out \/ out' = [kind |-> "resumed"]
          \/ out' = [kind |-> IF cmd.name = "PAUSE" THEN "still running" ELSE "still paused"]
      BY <1>5, <2>2, <2>3 DEF Poll
    <2>5. CASE out' = out
      BY <2>5 DEF Quiet
    <2>6. CASE out' = [kind |-> "resumed"]
      BY <2>6 DEF Quiet
    <2>7. CASE out' = [kind |-> IF cmd.name = "PAUSE" THEN "still running" ELSE "still paused"]
      BY <2>7 DEF Quiet
    <2>8. QED
      BY <2>4, <2>5, <2>6, <2>7
  <1>6. CASE TrainerCommand
    BY <1>6 DEF TrainerCommand, Quiet
  <1>7. CASE TakeBytes
    BY <1>7 DEF TakeBytes, Quiet
  <1>8. QED
    BY <1>2, <1>3, <1>4, <1>5, <1>6, <1>7 DEF Next

(***************************************************************************)
(* Calls that failed.                                                      *)
(***************************************************************************)

\* Only calls that change the emulator are left to be carried out, and what they were sent with.
LEMMA Fails ==
  ASSUME IInv, CallFails, tool' = tool
  PROVE  LateInv'
  <1>1. \A call \in late' : call \in late \/ (Changing /\ call.cmd = cmd)
    <2>1. \A n : [number |-> n, cmd |-> cmd].cmd = cmd
      OBVIOUS
    <2>2. QED
      BY <2>1 DEF CallFails
  <1>2. CASE tool = "trainer"
    BY <1>2 DEF CallFails, Changing, LateInv, IInv
  <1>3. CASE tool = "debug"
    <2>1. cmd \in CallType
      BY <1>3, Names DEF CallFails, Running, IInv, ShellInv
    <2>2. QED
      BY <1>1, <1>3, <2>1 DEF LateInv, IInv
  <1>4. CASE tool = "bp"
    <2>1. Changing => cmd \in EditType
      BY <1>4, BpNames DEF CallFails, Running, Changing, EditType, IInv, BpInv
    <2>2. QED
      BY <1>1, <1>4, <2>1 DEF LateInv, IInv
  <1>5. QED
    BY <1>2, <1>3, <1>4 DEF IInv

LEMMA LateStep ==
  ASSUME IInv, [Next]_vars, tool' = tool
  PROVE  LateInv'
  <1>1. CASE CallFails
    BY <1>1, Fails
  <1>2. CASE LateExecution
    <2>1. late' \subseteq late
      BY <1>2 DEF LateExecution
    <2>2. QED
      BY <2>1 DEF LateInv, IInv
  <1>3. CASE ~CallFails /\ ~LateExecution
    <2>1. late' = late
      BY <1>3 DEF Next, vars, MemoryChanges, EmulatorRuns, OthersAct, TrainerCommand, ReadChunk,
                  TakeBytes, ShellCommand, Send, Poll, Ping, PrintCPUState, BreakpointCommand,
                  AddClause, ChangeTable, ListClauses
    <2>2. QED
      BY <2>1 DEF LateInv, IInv
  <1>4. QED
    BY <1>1, <1>2, <1>3

(***************************************************************************)
(* The theorems.                                                           *)
(***************************************************************************)

\* The invariant holds of a session that begins.
LEMMA InitIInv == Init => IInv
  <1> SUFFICES ASSUME Init PROVE IInv
    OBVIOUS
  <1>1. emulator \in EmulatorType
    <2> DEFINE m == [a \in Addresses |-> 0]
    <2>1. m \in [Addresses -> Bytes]
      BY DEF Bytes
    <2>2. emulator = [mem |-> m, paused |-> FALSE, wanted |-> "", pc |-> 0, enabled |-> FALSE,
                      table |-> <<>>]
      BY DEF Init
    <2> HIDE DEF m
    <2>3. QED
      BY <2>1, <2>2 DEF EmulatorType
  <1>2. ASSUME tool = "trainer" PROVE TrainerInv
    <2>1. PICK v \in Values : cmd = Reading("start", v)
      BY <1>2 DEF Init
    <2>2. /\ cmd \in ReadType /\ cmd.filter = "start" /\ cmd.asked = 0 /\ cmd.data = <<>>
      BY <2>1, ReadingOK DEF Filters, Bytes
    <2>3. /\ seen = <<>> /\ seen \in Seq(Filter) /\ DOMAIN seen = {} /\ Len(<<>>) = 0
      <3>1. seen = <<>>
        BY DEF Init
      <3>2. QED
        BY <3>1, EmptySeq
    <2>4. answered \in [Addresses -> Bytes] /\ out = Nothing
      BY DEF Init, Bytes
    <2>5. 0 <= length /\ 1 .. 0 = {}
      BY RangeFacts
    <2>6. ReadInv
      BY <2>2, <2>3, <2>5 DEF ReadInv
    <2>7. QED
      BY <1>1, <2>2, <2>3, <2>4, <2>6, TrainerNames DEF TrainerInv
  <1>3. ASSUME tool = "debug" PROVE ShellInv
    <2>1. cmd = Prompt /\ out = Nothing
      BY <1>3 DEF Init
    <2>2. QED
      BY <1>1, <2>1, Names DEF ShellInv, Nothing
  <1>4. ASSUME tool = "bp" PROVE BpInv
    <2>1. cmd = Prompt /\ out = Nothing /\ cmd \notin AddType /\ out.kind = "nothing"
      BY <1>4, BpNames DEF Init
    <2>2. emulator \in BpEmulatorType
      <3> DEFINE m == [a \in Addresses |-> 0]
                 none == <<>>
      <3>1. m \in [Addresses -> Bytes]
        BY DEF Bytes
      <3>2. none \in Tables
        <4>1. none \in Seq(Clauses) /\ Len(none) = 0
          BY EmptySeq
        <4>2. QED
          BY <4>1, MaxClausesIs DEF Tables
      <3>3. emulator = [mem |-> m, paused |-> FALSE, wanted |-> "", pc |-> 0, enabled |-> FALSE,
                        table |-> none]
        BY DEF Init
      <3> HIDE DEF m, none
      <3>4. QED
        BY <3>1, <3>2, <3>3 DEF BpEmulatorType
    <2>3. QED
      BY <2>1, <2>2 DEF BpInv
  <1>5. tool \in {"trainer", "debug", "bp"} /\ Quiet
    <2>1. out.kind = "nothing"
      BY BpNames DEF Init
    <2>2. QED
      BY <2>1 DEF Init, Quiet
  <1>6. LateInv
    BY DEF Init, LateInv
  <1>7. QED
    BY <1>2, <1>3, <1>4, <1>5, <1>6 DEF IInv

\* Every step of a session keeps the invariant.
LEMMA NextIInv == IInv /\ [Next]_vars => IInv'
  <1> SUFFICES ASSUME IInv, [Next]_vars PROVE IInv'
    OBVIOUS
  <1>1. tool' = tool
    BY DEF Next, vars, MemoryChanges, EmulatorRuns, OthersAct, CallFails, LateExecution,
           TrainerCommand, ReadChunk, TakeBytes, ShellCommand, Send, Poll, Ping, PrintCPUState, BreakpointCommand,
           AddClause, ChangeTable, ListClauses
  <1>2. QED
    BY <1>1, TrainerStep, ShellStep, QuietStep, BpStep, LateStep DEF IInv

\* The invariant of the three tools, for every range, all bytes and all expressions.
THEOREM Invariance == Spec => []IInv
  BY InitIInv, NextIInv, PTL DEF Spec

\* What the shell prints after "pause" are the registers of a paused emulator, and after a
\* "continue" without a complaint the emulator runs, until somebody else acts on it or another
\* call of the shell, one that had timed out, is carried out (pauseRPC, continueRPC in
\* commands_debugger.go): however late the emulator obeys, however often PAUSE is sent, and
\* whatever commands failed before.
THEOREM ShellIsTruthful == Spec => []ShellTellsTheTruth
  <1>1. IInv => ShellTellsTheTruth
    BY DEF IInv, ShellInv, ShellTellsTheTruth, NoneBut
  <1>2. QED
    BY <1>1, Invariance, PTL

\* Trainer.Rows: the first candidates with their addresses and last bytes.
LEMMA RowsAre ==
  ASSUME NEW t, NEW filters, Filtered(t, filters), NEW limit \in Nat
  PROVE  \E m \in 0 .. Len(t.candidates) :
            /\ Rows(t, limit) \in
                  Seq([addr : Addresses,
                       value : {filters[Len(filters)].bytes[a] : a \in Addresses}])
            /\ Len(Rows(t, limit)) = m
            /\ \A k \in 1 .. m :
                  /\ Rows(t, limit)[k].addr = AddressOf(t.candidates[k])
                  /\ Rows(t, limit)[k].value =
                        filters[Len(filters)].bytes[AddressOf(t.candidates[k])]
            /\ limit = 0 => m = Len(t.candidates)
  <1> DEFINE c == t.candidates
             n == Len(c)
             m == IF limit = 0 \/ limit > n THEN n ELSE limit
             last == filters[Len(filters)].bytes
             row(k) == [addr |-> (Start + c[k] - 1) % Word, value |-> t.snapshot[c[k]]]
             Row == [addr : Addresses, value : {last[a] : a \in Addresses}]
  <1>1. /\ c \in Seq(1 .. length) /\ n \in Nat /\ \A k \in 1 .. n : c[k] \in 1 .. length
        /\ t.snapshot = [i \in 1 .. length |-> last[AddressOf(i)]]
    BY LenProperties, ElementOfSeq DEF Filtered
  <1> HIDE DEF n, c, last
  <1>2. m \in 0 .. n /\ (limit = 0 => m = n)
    BY <1>1
  <1>3. Rows(t, limit) = [k \in 1 .. m |-> row(k)]
    BY DEF Rows, n, c
  <1>4. ASSUME NEW k \in 1 .. m
        PROVE  /\ row(k) \in Row /\ row(k).addr = AddressOf(c[k])
               /\ row(k).value = last[AddressOf(c[k])]
    <2>1. c[k] \in 1 .. length
      BY <1>1, <1>2
    <2>2. (Start + c[k] - 1) % Word = AddressOf(c[k]) /\ AddressOf(c[k]) \in Addresses
      BY <2>1, RangeFacts DEF AddressOf
    <2>3. t.snapshot[c[k]] = last[AddressOf(c[k])]
      BY <1>1, <2>1
    <2>4. QED
      BY <2>2, <2>3
  <1> HIDE DEF m, row, Row
  <1>5. /\ Rows(t, limit) \in Seq(Row) /\ Len(Rows(t, limit)) = m
        /\ \A k \in 1 .. m : Rows(t, limit)[k] = row(k)
    <2>1. m \in Nat
      BY <1>1, <1>2
    <2>2. [k \in 1 .. m |-> row(k)] \in Seq(Row)
      BY <1>4, <2>1, IsASeq
    <2>3. [k \in 1 .. m |-> row(k)] \in [1 .. m -> Row]
      BY <1>4
    <2>4. QED
      BY <1>3, <2>1, <2>2, <2>3, LenProperties
  <1>6. QED
    BY <1>2, <1>4, <1>5 DEF n, c, last, Row

\* The trainer's candidates are the addresses whose bytes, as the emulator gave them, passed
\* every filter since the start, in order and with their last values (Trainer.Start, Changed,
\* NotChanged): for every range and every READ_MEM size, however the memory changes between
\* the chunks, and after any read that failed or was short.
THEOREM TrainerKeepsMatches == Spec => []KeepsMatches
  <1>1. IInv => KeepsMatches
    <2> SUFFICES ASSUME TrainerInv, seen # <<>>, tool = "trainer" PROVE KeepsMatches
      BY DEF IInv, KeepsMatches
    <2> DEFINE all == Rows(trainer, 0)
               c == trainer.candidates
               last == seen[Len(seen)].bytes
               Row == [addr : Addresses, value : {last[a] : a \in Addresses}]
    <2>1. /\ Filtered(trainer, seen) /\ c \in Seq(1 .. length) /\ Increasing(c)
          /\ \A i \in 1 .. length : i \in Range(c) <=> AddressOf(i) \in Matches(seen)
      BY DEF TrainerInv, Filtered
    <2>2. /\ Len(c) \in Nat /\ DOMAIN c = 1 .. Len(c)
          /\ \A k \in 1 .. Len(c) : c[k] \in 1 .. length
      BY <2>1, LenProperties, ElementOfSeq
    <2>3. /\ all \in Seq(Row) /\ Len(all) = Len(c)
          /\ \A k \in 1 .. Len(c) : /\ all[k].addr = AddressOf(c[k])
                                    /\ all[k].value = last[AddressOf(c[k])]
      <3>1. PICK m \in 0 .. Len(c) :
               /\ all \in Seq(Row) /\ Len(all) = m /\ m = Len(c)
               /\ \A k \in 1 .. m : /\ all[k].addr = AddressOf(c[k])
                                    /\ all[k].value = last[AddressOf(c[k])]
        <4>1. 0 \in Nat
          OBVIOUS
        <4> HIDE DEF c
        <4>2. QED
          BY <2>1, <4>1, RowsAre DEF c
      <3> HIDE DEF all, last, Row, c
      <3>2. QED
        BY <3>1
    <2> HIDE DEF all, last, Row
    <2>4. DOMAIN all = 1 .. Len(c)
      BY <2>3, LenProperties
    <2>5. {row.addr : row \in Range(all)} = Matches(seen)
      <3>1. ASSUME NEW a
            PROVE  (\E row \in Range(all) : row.addr = a)
                       <=> \E k \in 1 .. Len(c) : AddressOf(c[k]) = a
        BY <2>3, <2>4 DEF Range
      <3>2. ASSUME NEW a
            PROVE  a \in Matches(seen) <=> \E k \in 1 .. Len(c) : AddressOf(c[k]) = a
        <4>1. ASSUME a \in Matches(seen) PROVE \E k \in 1 .. Len(c) : AddressOf(c[k]) = a
          <5>1. a \in Addresses
            BY <4>1 DEF Matches
          <5>2. a - Start + 1 \in Range(c) /\ AddressOf(a - Start + 1) = a
            BY <2>1, <4>1, <5>1, RangeFacts
          <5>3. QED
            BY <2>2, <5>2 DEF Range
        <4>2. ASSUME NEW k \in 1 .. Len(c), AddressOf(c[k]) = a PROVE a \in Matches(seen)
          <5>1. c[k] \in Range(c) /\ c[k] \in 1 .. length
            BY <2>2 DEF Range
          <5>2. QED
            BY <2>1, <4>2, <5>1
        <4>3. QED
          BY <4>1, <4>2
      <3>3. QED
        BY <3>1, <3>2
    <2>6. \A i, j \in DOMAIN all : i < j => all[i].addr < all[j].addr
      <3> SUFFICES ASSUME NEW i \in 1 .. Len(c), NEW j \in 1 .. Len(c), i < j
                   PROVE  all[i].addr < all[j].addr
        BY <2>4
      <3>1. c[i] < c[j] /\ c[i] \in 1 .. length /\ c[j] \in 1 .. length
        <4> HIDE DEF c
        <4>1. i \in DOMAIN c /\ j \in DOMAIN c
          BY <2>2
        <4>2. QED
          BY <2>1, <2>2, <4>1 DEF Increasing
      <3>2. QED
        BY <2>3, <3>1, RangeFacts DEF AddressOf
    <2>7. \A row \in Range(all) : row.value = last[row.addr]
      BY <2>3, <2>4 DEF Range
    <2>8. out.kind = "rows" => IsPrefix(out.rows, all)
      <3> SUFFICES ASSUME out.kind = "rows" PROVE IsPrefix(out.rows, all)
        OBVIOUS
      <3>1. PICK limit \in Nat : out.rows = Rows(trainer, limit)
        BY DEF TrainerInv
      <3> DEFINE r == Rows(trainer, limit)
      <3>2. PICK m \in 0 .. Len(c) :
               /\ r \in Seq(Row) /\ Len(r) = m
               /\ \A k \in 1 .. m : /\ r[k].addr = AddressOf(c[k])
                                    /\ r[k].value = last[AddressOf(c[k])]
        BY ZenonT(30), <2>1, RowsAre DEF last, Row
      <3> HIDE DEF r
      <3>3. ASSUME NEW k \in 1 .. m PROVE r[k] = all[k]
        <4>1. r[k] \in Row /\ all[k] \in Row /\ k \in 1 .. Len(c)
          BY <2>2, <2>3, <3>2, ElementOfSeq
        <4>2. r[k].addr = all[k].addr /\ r[k].value = all[k].value
          BY <2>3, <3>2, <4>1
        <4>3. QED
          BY <4>1, <4>2 DEF Row
      <3>4. SubSeq(r, 1, m) = SubSeq(all, 1, m)
        <4>1. /\ Len(SubSeq(r, 1, m)) = m /\ SubSeq(r, 1, m) \in Seq(Row)
              /\ \A k \in 1 .. m : SubSeq(r, 1, m)[k] = r[k]
          BY <2>2, <3>2, SubSeqProperties
        <4>2. /\ Len(SubSeq(all, 1, m)) = m /\ SubSeq(all, 1, m) \in Seq(Row)
              /\ \A k \in 1 .. m : SubSeq(all, 1, m)[k] = all[k]
          BY <2>2, <2>3, SubSeqProperties
        <4>3. QED
          BY <3>3, <4>1, <4>2, SeqEqual
      <3>5. QED
        BY <2>2, <2>3, <3>1, <3>2, <3>4 DEF IsPrefix, r
    <2>9. QED
      BY <2>5, <2>6, <2>7, <2>8 DEF KeepsMatches, all, last
  <1>2. QED
    BY <1>1, Invariance, PTL

\* The lines of "bp list" typed in again give the emulator's clauses of that moment, and the
\* numbers "bp add" reports are the places of its clauses while nobody else edits the table
\* (FormatBPCondition, ParseBPClauses, BPAddClause, BPList): for every expression that can be
\* added, every table that the emulator can list, and after any failure.
THEOREM ListsTheTable == Spec => []ReportsTheTable
  <1>1. IInv => ReportsTheTable
    <2> SUFFICES ASSUME IInv PROVE ReportsTheTable
      OBVIOUS
    <2>1. CASE tool # "bp"
      BY <2>1 DEF IInv, Quiet, ReportsTheTable
    <2>2. CASE tool = "bp"
      <3>1. BpInv
        BY <2>2 DEF IInv
      <3>2. ASSUME out.kind = "list"
            PROVE  /\ out.lines # <<>> => ParseBPClauses(Joined(out.lines, Or)) = out.table
                   /\ out.lines = <<>> => out.table = <<>>
        <4> DEFINE table == out.table
                   lines == out.lines
        <4>1. table \in Seq(Clauses) /\ lines = [i \in DOMAIN table |-> FormatClause(table[i])]
          BY <3>1, <3>2 DEF BpInv
        <4> HIDE DEF table, lines
        <4>2. DOMAIN lines = DOMAIN table /\ DOMAIN table = 1 .. Len(table) /\ Len(table) \in Nat
          BY <4>1, LenProperties
        <4>3. lines = <<>> => table = <<>>
          <5>1. lines = <<>> => Len(table) = 0
            BY <4>2
          <5>2. QED
            BY <4>1, <5>1, EmptySeq
        <4>4. table = <<>> => lines = <<>>
          <5>1. table = <<>> => lines = [i \in {} |-> FormatClause(table[i])]
            BY <4>1
          <5>2. QED
            BY <5>1
        <4>5. lines # <<>> => ParseBPClauses(Joined(lines, Or)) = table
          BY <4>1, <4>4, LinesText
        <4>6. QED
          BY <4>3, <4>5 DEF table, lines
      <3>3. (out.kind = "added" /\ ~others) =>
                \A k \in DOMAIN out.numbers :
                    /\ out.numbers[k] \in DOMAIN emulator.table
                    /\ emulator.table[out.numbers[k]] = out.clauses[k]
        BY <3>1 DEF BpInv, Placed
      <3>4. QED
        BY <3>2, <3>3 DEF ReportsTheTable
    <2>3. QED
      BY <2>1, <2>2
  <1>2. QED
    BY <1>1, Invariance, PTL
===============================================================================
