--------------------------- MODULE FullText_proofs ---------------------------
(***************************************************************************)
(* What the indexing of a text promises, for any text, any size of the     *)
(* blocks, the parts and the words, any languages detected and any of the  *)
(* faults.                                                                 *)
(*                                                                         *)
(* The operators are recursive functions of a sequence.  Each has a lemma  *)
(* that says what it is at its first place and at the next one; what       *)
(* follows from that for every place is an induction over a set of them    *)
(* (FromTo), which needs no operator for a parameter.                      *)
(***************************************************************************)
EXTENDS FullText, SequenceTheorems, WellFoundedInduction, FiniteSetTheorems, TLAPS

-----------------------------------------------------------------------------
(* Induction and recursion over an interval *)

(* The numbers of which each is less than the other *)
Less == {p \in Nat \X Nat : p[1] < p[2]}

LEMMA SetInduction ==
  ASSUME NEW T \in SUBSET Nat, 0 \in T, \A n \in T : n + 1 \in T
  PROVE  T = Nat
<1> SUFFICES ASSUME Nat \ T # {} PROVE FALSE
  OBVIOUS
<1>1. IsWellFoundedOn(Less, Nat)
  BY NatLessThanWellFounded DEF OpToRel, Less
<1>2. PICK x \in Nat \ T : \A y \in Nat \ T : <<y, x>> \notin Less
  BY <1>1, WFMin
<1>3. x # 0 /\ x - 1 \in Nat /\ x - 1 < x
  BY <1>2
<1>4. x - 1 \in T
  BY <1>2, <1>3 DEF Less
<1> QED
  BY <1>2, <1>3, <1>4

LEMMA FromTo ==
  ASSUME NEW i \in Nat, NEW m \in Nat, NEW T,
         i \in T, \A k \in (i + 1)..m : k - 1 \in T => k \in T
  PROVE  \A k \in i..m : k \in T
<1> DEFINE U == {n \in Nat : i + n <= m => i + n \in T}
<1>1. 0 \in U
  OBVIOUS
<1>2. ASSUME NEW n \in U PROVE n + 1 \in U
  <2>1. CASE i + (n + 1) <= m
    <3>1. i + n <= m /\ (i + (n + 1)) - 1 = i + n /\ i + (n + 1) \in (i + 1)..m
      BY <2>1
    <3>2. i + n \in T
      BY <3>1
    <3> QED
      BY <3>1, <3>2
  <2> QED
    BY <2>1
<1>3. U = Nat
  <2> HIDE DEF U
  <2>1. U \subseteq Nat
    BY DEF U
  <2> QED
    BY <1>1, <1>2, <2>1, SetInduction
<1>4. ASSUME NEW k \in i..m PROVE k \in T
  <2>1. k - i \in Nat
    OBVIOUS
  <2> HIDE DEF U
  <2>2. k - i \in U
    BY <1>3, <2>1
  <2>3. i + (k - i) = k /\ k <= m
    OBVIOUS
  <2> QED
    BY <2>2, <2>3 DEF U
<1> QED
  BY <1>4

Recursion(f, i, m, init, step) == \A k \in i..m : f[k] = IF k = i THEN init ELSE step[<<k, f[k - 1]>>]

(* A recursive function of an interval exists. *)
LEMMA RecursionExists ==
  ASSUME NEW A, NEW i \in Nat, NEW m \in Nat, i <= m, NEW init \in A, NEW step \in [(i..m) \X A -> A]
  PROVE  \E f \in [i..m -> A] : Recursion(f, i, m, init, step)
<1> DEFINE Is(f, n) == \A k \in i..n : f[k] = IF k = i THEN init ELSE step[<<k, f[k - 1]>>]
           T == {n \in i..m : \E f \in [i..n -> A] : Is(f, n)}
<1>1. i \in T
  <2> DEFINE f == [k \in i..i |-> init]
  <2>1. f \in [i..i -> A] /\ Is(f, i)
    OBVIOUS
  <2>2. i \in i..m
    OBVIOUS
  <2> HIDE DEF f
  <2> QED
    BY <2>1, <2>2
<1>2. ASSUME NEW n \in (i + 1)..m, n - 1 \in T PROVE n \in T
  <2>1. PICK f \in [i..(n - 1) -> A] : Is(f, n - 1)
    BY <1>2
  <2>2. n - 1 \in i..(n - 1) /\ n \in i..m /\ n # i
    OBVIOUS
  <2>3. step[<<n, f[n - 1]>>] \in A
    BY <2>2
  <2> DEFINE g == [k \in i..n |-> IF k = n THEN step[<<n, f[n - 1]>>] ELSE f[k]]
  <2>4. \A k \in i..n : k # n => k \in i..(n - 1)
    OBVIOUS
  <2>5. g \in [i..n -> A]
    BY <2>3, <2>4
  <2>6. ASSUME NEW k \in i..n PROVE g[k] = IF k = i THEN init ELSE step[<<k, g[k - 1]>>]
    <3>1. CASE k = n
      <4>1. g[n] = step[<<n, f[n - 1]>>] /\ g[n - 1] = f[n - 1]
        BY <2>2
      <4> QED
        BY <2>2, <3>1, <4>1
    <3>2. CASE k # n
      <4>1. k \in i..(n - 1) /\ (k # i => k - 1 \in i..(n - 1))
        BY <3>2
      <4>2. g[k] = f[k] /\ (k # i => g[k - 1] = f[k - 1])
        BY <4>1, <3>2
      <4> QED
        BY <2>1, <4>1, <4>2
    <3> QED
      BY <3>1, <3>2
  <2> HIDE DEF g
  <2> QED
    BY <2>2, <2>5, <2>6
<1>3. \A n \in i..m : n \in T
  <2> HIDE DEF T
  <2> QED
    BY <1>1, <1>2, FromTo
<1> QED
  BY <1>3 DEF Recursion

-----------------------------------------------------------------------------
(* The signs of words, and what the loop of next_n_words may be *)

Letters == WordSigns \cup LetterSigns \cup DigitSigns
Words == Seq(Letters)

Loop == [word : Words, pattern_status : {"NORMAL", "STARTED", "DATE", "NUMBER", "EMAIL"},
         words : Seq(Words), counter : Nat, stopped : BOOLEAN]

LEMMA ClearedWord ==
  ASSUME NEW word \in Words
  PROVE  clear_word(word) \in Words
<1> DEFINE L == Len(word)
           T == LetterSigns \cup DigitSigns
           cleared == CHOOSE f : f = [n \in 0..L |->
                        IF n = 0 THEN <<>>
                        ELSE IF word[n] \in T THEN Append(f[n - 1], word[n]) ELSE f[n - 1]]
           step == [p \in (0..L) \X Words |-> IF word[p[1]] \in T THEN Append(p[2], word[p[1]]) ELSE p[2]]
<1>1. clear_word(word) = cleared[L]
  BY DEF clear_word
<1>2. L \in Nat /\ 0 <= L /\ <<>> \in Words /\ 0 \in Nat
  BY DEF Words
<1>3. \A k \in 0..L, s \in Words : (IF word[k] \in T THEN Append(s, word[k]) ELSE s) \in Words
  <2>1. ASSUME NEW s \in Words, NEW g \in T PROVE Append(s, g) \in Words
    BY DEF Words, Letters
  <2> QED
    BY <2>1
<1>4. step \in [(0..L) \X Words -> Words]
  <2> HIDE DEF T
  <2> QED
    BY <1>3
<1>5. \A k \in 0..L, s \in Words : step[<<k, s>>] = IF word[k] \in T THEN Append(s, word[k]) ELSE s
  <2> HIDE DEF T
  <2> QED
    OBVIOUS
<1> HIDE DEF step, T, L
<1>6. PICK f \in [0..L -> Words] : Recursion(f, 0, L, <<>>, step)
  BY <1>2, <1>4, RecursionExists
<1>7. f = [n \in 0..L |-> IF n = 0 THEN <<>> ELSE IF word[n] \in T THEN Append(f[n - 1], word[n]) ELSE f[n - 1]]
  <2>1. ASSUME NEW k \in 0..L, k # 0 PROVE f[k] = IF word[k] \in T THEN Append(f[k - 1], word[k]) ELSE f[k - 1]
    <3>1. k - 1 \in 0..L
      BY <1>2, <2>1
    <3> QED
      BY <1>5, <1>6, <2>1, <3>1 DEF Recursion
  <2>2. \A k \in 0..L : f[k] = IF k = 0 THEN <<>> ELSE IF word[k] \in T THEN Append(f[k - 1], word[k]) ELSE f[k - 1]
    BY <1>6, <2>1 DEF Recursion
  <2> QED
    BY <2>2
<1>8. cleared = [n \in 0..L |->
        IF n = 0 THEN <<>> ELSE IF word[n] \in T THEN Append(cleared[n - 1], word[n]) ELSE cleared[n - 1]]
  BY <1>7
<1> HIDE DEF cleared
<1> DEFINE U == {k \in 0..L : cleared[k] \in Words}
<1>9. \A k \in 0..L : k \in U
  <2>1. 0 \in U
    BY <1>2, <1>8
  <2>2. ASSUME NEW k \in (0 + 1)..L, k - 1 \in U PROVE k \in U
    <3> k \in 0..L /\ k # 0
      BY <1>2
    <3>1. cleared[k] = IF word[k] \in T THEN Append(cleared[k - 1], word[k]) ELSE cleared[k - 1]
      BY <1>2, <1>8
    <3> QED
      BY <1>2, <1>3, <2>2, <3>1
  <2> HIDE DEF U
  <2> QED
    BY <1>2, <2>1, <2>2, FromTo
<1> QED
  BY <1>1, <1>2, <1>9

LEMMA CountedTyped ==
  ASSUME NEW s \in Loop
  PROVE  [s EXCEPT !.counter = @ + 1] \in Loop
BY DEF Loop

LEMMA LoopTyped ==
  ASSUME NEW s \in Loop, NEW g, NEW n \in Nat
  PROVE  /\ terminate_word(s) \in Loop
         /\ Turn(s, g, n) \in Loop
<1>1. ASSUME NEW t \in Loop PROVE terminate_word(t) \in Loop
  <2>1. clear_word(t.word) \in Words /\ t.word \in Words
    BY <1>1, ClearedWord DEF Loop
  <2>2. \A w \in Words : Append(t.words, w) \in Seq(Words)
    BY <1>1 DEF Loop
  <2>3. <<>> \in Words
    BY DEF Words
  <2> QED
    BY <1>1, <2>1, <2>2, <2>3 DEF terminate_word, Loop
<1>2. ASSUME NEW t \in Loop, NEW h \in Letters, NEW p \in {"NORMAL", "STARTED", "DATE", "NUMBER", "EMAIL"}
      PROVE  Push(t, h, p) \in Loop
  <2>1. Append(t.word, h) \in Words
    BY <1>2 DEF Loop, Words
  <2> QED
    BY <2>1 DEF Push, Loop
<1>3. ASSUME NEW t \in Loop PROVE EndOfWord(t, n) \in Loop
  <2>1. terminate_word(t) \in Loop
    BY <1>1
  <2>2. (t.counter >= n) \in BOOLEAN
    OBVIOUS
  <2> QED
    BY <2>1, <2>2 DEF EndOfWord, Loop
<1> DEFINE counted == [s EXCEPT !.counter = @ + 1]
<1>4. counted \in Loop
  BY DEF Loop
<1> HIDE DEF counted
<1>5. IsLexeme(g) => Lexeme(counted, g, n) \in Loop
  <2>1. IsLexeme(g) => g \in Letters
    BY DEF IsLexeme, Letters
  <2>2. counted.pattern_status \in {"NORMAL", "STARTED", "DATE", "NUMBER", "EMAIL"}
    BY <1>4 DEF Loop
  <2> QED
    BY <1>2, <1>3, <1>4, <2>1, <2>2 DEF Lexeme
<1>6. Turn(s, g, n) \in Loop
  BY <1>3, <1>4, <1>5 DEF Turn, counted
<1> QED
  BY <1>1, <1>6

LEMMA NoEmptyWord == Len(<<>>) = 0 /\ ~(0 >= MIN_WORD_LEN)
<1>1. MIN_WORD_LEN \in Nat \ {0}
  BY SignsAssumption
<1> QED
  BY <1>1

LEMMA NewBlockTyped == NewBlock \in Loop
<1> <<>> \in Words /\ <<>> \in Seq(Words)
  BY DEF Words
<1> QED
  BY DEF NewBlock, Loop

LEMMA TurnsAre ==
  ASSUME NEW t \in Seq(Graphemes), NEW i \in 0..Len(t), NEW n \in Nat
  PROVE  /\ Turns(t, i, n) \in [i..Len(t) -> Loop]
         /\ Turns(t, i, n)[i] = NewBlock
         /\ \A k \in (i + 1)..Len(t) : Turns(t, i, n)[k] = Turn(Turns(t, i, n)[k - 1], t[k], n)
<1> DEFINE L == Len(t)
           turns == CHOOSE f : f = [k \in i..L |-> IF k = i THEN NewBlock ELSE Turn(f[k - 1], t[k], n)]
           step == [p \in (i..L) \X Loop |-> Turn(p[2], t[p[1]], n)]
<1>1. Turns(t, i, n) = turns
  BY DEF Turns
<1>2. L \in Nat /\ i \in Nat /\ i <= L /\ NewBlock \in Loop
  BY NewBlockTyped
<1>3. step \in [(i..L) \X Loop -> Loop] /\ \A k \in i..L, s \in Loop : step[<<k, s>>] = Turn(s, t[k], n)
  BY LoopTyped
<1> HIDE DEF step, L
<1>4. PICK f \in [i..L -> Loop] : Recursion(f, i, L, NewBlock, step)
  BY <1>2, <1>3, RecursionExists
<1>5. f = [k \in i..L |-> IF k = i THEN NewBlock ELSE Turn(f[k - 1], t[k], n)]
  <2>1. ASSUME NEW k \in i..L, k # i PROVE f[k] = Turn(f[k - 1], t[k], n)
    <3>1. k - 1 \in i..L
      BY <1>2, <2>1
    <3> QED
      BY <1>3, <1>4, <2>1, <3>1 DEF Recursion
  <2>2. \A k \in i..L : f[k] = IF k = i THEN NewBlock ELSE Turn(f[k - 1], t[k], n)
    BY <1>4, <2>1 DEF Recursion
  <2> QED
    BY <2>2
<1>6. turns = [k \in i..L |-> IF k = i THEN NewBlock ELSE Turn(turns[k - 1], t[k], n)]
  BY <1>5
<1> HIDE DEF turns
<1>7. turns[i] = NewBlock /\ \A k \in (i + 1)..L : turns[k] = Turn(turns[k - 1], t[k], n)
  <2>1. i \in i..L
    BY <1>2
  <2>2. \A k \in (i + 1)..L : k \in i..L /\ k # i
    BY <1>2
  <2> QED
    BY <1>6, <2>1, <2>2
<1> DEFINE U == {k \in i..L : turns[k] \in Loop}
<1>8. \A k \in i..L : k \in U
  <2>1. i \in U
    BY <1>2, <1>7
  <2>2. ASSUME NEW k \in (i + 1)..L, k - 1 \in U PROVE k \in U
    <3> k \in i..L
      BY <1>2
    <3>1. turns[k] = Turn(turns[k - 1], t[k], n)
      BY <1>7
    <3> QED
      BY <2>2, <3>1, LoopTyped
  <2> HIDE DEF U
  <2> QED
    BY <1>2, <2>1, <2>2, FromTo
<1>9. turns \in [i..L -> Loop]
  BY <1>6, <1>8
<1> QED
  BY <1>1, <1>7, <1>9 DEF L

-----------------------------------------------------------------------------
(* Two loops that are at the same place *)

(* The second one has the words of the first one, after some others. *)
Alike(s, t, before) ==
  /\ t.word = s.word
  /\ t.pattern_status = s.pattern_status
  /\ t.words = before \o s.words

LEMMA EndsAlike ==
  ASSUME NEW s \in Loop, NEW t \in Loop, NEW before \in Seq(Words), Alike(s, t, before)
  PROVE  Alike(terminate_word(s), terminate_word(t), before)
<1>1. \A w \in Words : before \o Append(s.words, w) = Append(before \o s.words, w)
  BY DEF Loop
<1>2. clear_word(s.word) \in Words /\ s.word \in Words
  BY ClearedWord DEF Loop
<1> QED
  BY <1>1, <1>2 DEF Alike, terminate_word, Loop

LEMMA TurnsAlike ==
  ASSUME NEW s \in Loop, NEW t \in Loop, NEW before \in Seq(Words), Alike(s, t, before),
         ~s.stopped, ~t.stopped, NEW g, NEW n \in Nat, NEW m \in Nat
  PROVE  Alike(Turn(s, g, n), Turn(t, g, m), before)
<1> DEFINE cs == [s EXCEPT !.counter = @ + 1]
           ct == [t EXCEPT !.counter = @ + 1]
<1>1. cs \in Loop /\ ct \in Loop /\ Alike(cs, ct, before)
  <2>1. cs \in Loop /\ ct \in Loop
    BY CountedTyped
  <2>2. ASSUME NEW u \in Loop, NEW c PROVE c = [u EXCEPT !.counter = @ + 1] =>
          c.word = u.word /\ c.pattern_status = u.pattern_status /\ c.words = u.words
    BY DEF Loop
  <2>3. cs.word = s.word /\ cs.pattern_status = s.pattern_status /\ cs.words = s.words
    BY <2>2
  <2>4. ct.word = t.word /\ ct.pattern_status = t.pattern_status /\ ct.words = t.words
    BY <2>2
  <2> HIDE DEF cs, ct
  <2>5. Alike(cs, ct, before)
    BY <2>3, <2>4 DEF Alike
  <2> QED
    BY <2>1, <2>5
<1>2. Turn(s, g, n) = IF IsLexeme(g) THEN Lexeme(cs, g, n) ELSE EndOfWord(cs, n)
  BY DEF Turn
<1>3. Turn(t, g, m) = IF IsLexeme(g) THEN Lexeme(ct, g, m) ELSE EndOfWord(ct, m)
  BY DEF Turn
<1> HIDE DEF cs, ct
<1>4. Alike(EndOfWord(cs, n), EndOfWord(ct, m), before)
  <2>1. terminate_word(cs) \in Loop /\ terminate_word(ct) \in Loop
    BY <1>1, LoopTyped
  <2>2. Alike(terminate_word(cs), terminate_word(ct), before)
    BY <1>1, EndsAlike
  <2> QED
    BY <2>1, <2>2 DEF EndOfWord, Alike, Loop
<1>5. \A status : Alike(Push(cs, g, status), Push(ct, g, status), before)
  BY <1>1 DEF Push, Alike, Loop
<1>6. cs.pattern_status = ct.pattern_status /\ cs.word = ct.word
      /\ cs.pattern_status \in {"NORMAL", "STARTED", "DATE", "NUMBER", "EMAIL"}
  BY <1>1 DEF Alike, Loop
<1>7. Alike(Lexeme(cs, g, n), Lexeme(ct, g, m), before)
  <2>1. CASE cs.pattern_status = "NORMAL"
    BY <1>4, <1>5, <1>6, <2>1 DEF Lexeme
  <2>2. CASE cs.pattern_status = "STARTED"
    BY <1>4, <1>5, <1>6, <2>2 DEF Lexeme
  <2>3. CASE cs.pattern_status = "DATE"
    BY <1>4, <1>5, <1>6, <2>3 DEF Lexeme
  <2>4. CASE cs.pattern_status \in {"NUMBER", "EMAIL"}
    BY <1>4, <1>5, <1>6, <2>4 DEF Lexeme
  <2> QED
    BY <1>6, <2>1, <2>2, <2>3, <2>4
<1> QED
  BY <1>2, <1>3, <1>4, <1>7

(* A loop counts its turns, and stops at the end of a word only. *)
LEMMA StopsBetweenWords ==
  ASSUME NEW s \in Loop, ~s.stopped, NEW g, NEW n \in Nat
  PROVE  /\ Turn(s, g, n).counter = s.counter + 1
         /\ Turn(s, g, n).stopped => /\ s.counter + 1 >= n
                                     /\ Turn(s, g, n).word = <<>>
                                     /\ Turn(s, g, n).pattern_status = "NORMAL"
<1> DEFINE cs == [s EXCEPT !.counter = @ + 1]
<1>1. cs \in Loop /\ ~cs.stopped /\ cs.counter = s.counter + 1
  BY DEF Loop
<1>2. Turn(s, g, n) = IF IsLexeme(g) THEN Lexeme(cs, g, n) ELSE EndOfWord(cs, n)
  BY DEF Turn
<1> HIDE DEF cs
<1> DEFINE Good(u) == /\ u.counter = cs.counter
                      /\ u.stopped => cs.counter >= n /\ u.word = <<>> /\ u.pattern_status = "NORMAL"
<1>3. Good(EndOfWord(cs, n))
  BY <1>1 DEF EndOfWord, terminate_word, Loop
<1>4. \A status : Good(Push(cs, g, status))
  BY <1>1 DEF Push, Loop
<1>5. cs.pattern_status \in {"NORMAL", "STARTED", "DATE", "NUMBER", "EMAIL"}
  BY <1>1 DEF Loop
<1> HIDE DEF Good
<1>6. Good(Lexeme(cs, g, n))
  <2>1. CASE cs.pattern_status = "NORMAL"
    BY <1>3, <1>4, <2>1 DEF Lexeme
  <2>2. CASE cs.pattern_status = "STARTED"
    BY <1>3, <1>4, <2>2 DEF Lexeme
  <2>3. CASE cs.pattern_status = "DATE"
    BY <1>3, <1>4, <2>3 DEF Lexeme
  <2>4. CASE cs.pattern_status \in {"NUMBER", "EMAIL"}
    BY <1>3, <1>4, <2>4 DEF Lexeme
  <2> QED
    BY <1>5, <2>1, <2>2, <2>3, <2>4
<1> QED
  BY <1>1, <1>2, <1>3, <1>6 DEF Good

(* The whole text, read in one go *)
Whole(t) == Turns(t, 0, Len(t) + 1)

LEMMA WholeIs ==
  ASSUME NEW t \in Seq(Graphemes)
  PROVE  /\ Whole(t) \in [0..Len(t) -> Loop]
         /\ Whole(t)[0] = NewBlock
         /\ \A k \in 1..Len(t) : Whole(t)[k] = Turn(Whole(t)[k - 1], t[k], Len(t) + 1)
<1>1. Len(t) \in Nat /\ 0 \in 0..Len(t) /\ Len(t) + 1 \in Nat /\ 0 + 1 = 1
  OBVIOUS
<1> QED
  BY <1>1, TurnsAre DEF Whole

LEMMA WholeNeverStops ==
  ASSUME NEW t \in Seq(Graphemes)
  PROVE  \A k \in 0..Len(t) : ~Whole(t)[k].stopped /\ Whole(t)[k].counter = k
<1> DEFINE L == Len(t)
           A == Whole(t)
           T == {k \in 0..L : ~A[k].stopped /\ A[k].counter = k}
<1>1. L \in Nat /\ 0 \in Nat
  OBVIOUS
<1>2. A \in [0..L -> Loop] /\ A[0] = NewBlock /\ \A k \in 1..L : A[k] = Turn(A[k - 1], t[k], L + 1)
  BY WholeIs
<1> HIDE DEF A, L
<1>3. 0 \in T
  BY <1>1, <1>2 DEF NewBlock
<1>4. ASSUME NEW k \in (0 + 1)..L, k - 1 \in T PROVE k \in T
  <2>1. k \in 1..L /\ k \in 0..L /\ k - 1 \in 0..L /\ L + 1 \in Nat /\ (k - 1) + 1 = k /\ ~(k >= L + 1)
    BY <1>1
  <2>2. A[k] = Turn(A[k - 1], t[k], L + 1) /\ A[k - 1] \in Loop /\ A[k] \in Loop
    BY <1>2, <2>1
  <2>3. ~A[k - 1].stopped /\ A[k - 1].counter = k - 1
    BY <1>4
  <2> QED
    BY <2>1, <2>2, <2>3, StopsBetweenWords
<1>5. \A k \in 0..L : k \in T
  <2> HIDE DEF T
  <2> QED
    BY <1>1, <1>3, <1>4, FromTo
<1> QED
  BY <1>5 DEF A, L

(* Between two words of the whole text *)
Between(t, i) == Whole(t)[i].word = <<>> /\ Whole(t)[i].pattern_status = "NORMAL"

(* A block that begins between two words goes on as the whole text does,   *)
(* until it stops, between two words again.                                *)
LEMMA BlockFollows ==
  ASSUME NEW t \in Seq(Graphemes), NEW i \in 0..Len(t), Between(t, i), NEW n \in Nat
  PROVE  \A k \in i..Len(t) :
           LET s == Turns(t, i, n)[k]
           IN /\ i + s.counter \in i..k
              /\ Alike(s, Whole(t)[i + s.counter], Whole(t)[i].words)
              /\ s.stopped => s.counter >= n /\ Between(t, i + s.counter) /\ s.word = <<>>
              /\ ~s.stopped => i + s.counter = k
<1> DEFINE L == Len(t)
           A == Whole(t)
           S == Turns(t, i, n)
           Follows(k) ==
             /\ i + S[k].counter \in i..k
             /\ Alike(S[k], A[i + S[k].counter], A[i].words)
             /\ S[k].stopped => S[k].counter >= n /\ Between(t, i + S[k].counter) /\ S[k].word = <<>>
             /\ ~S[k].stopped => i + S[k].counter = k
           T == {k \in i..L : Follows(k)}
<1>1. L \in Nat /\ i \in Nat /\ i <= L
  OBVIOUS
<1>2. A \in [0..L -> Loop] /\ \A k \in 1..L : A[k] = Turn(A[k - 1], t[k], L + 1)
  BY WholeIs
<1>3. S \in [i..L -> Loop] /\ S[i] = NewBlock /\ \A k \in (i + 1)..L : S[k] = Turn(S[k - 1], t[k], n)
  BY TurnsAre
<1>4. \A k \in 0..L : ~A[k].stopped
  BY WholeNeverStops
<1>5. A[i].word = <<>> /\ A[i].pattern_status = "NORMAL"
  BY DEF Between
<1>6. A[i] \in Loop /\ A[i].words \in Seq(Words)
  <2>1. A[i] \in Loop
    BY <1>1, <1>2
  <2> QED
    BY <2>1 DEF Loop
<1>7. \A k \in 0..L : Between(t, k) <=> A[k].word = <<>> /\ A[k].pattern_status = "NORMAL"
  BY DEF Between
<1> HIDE DEF A, L, S
<1>8. i \in T
  <2>1. S[i].counter = 0 /\ ~S[i].stopped /\ i + 0 = i
    BY <1>1, <1>3 DEF NewBlock
  <2>2. A[i].words = A[i].words \o <<>>
    BY <1>6
  <2>3. S[i].word = <<>> /\ S[i].pattern_status = "NORMAL" /\ S[i].words = <<>>
    BY <1>3 DEF NewBlock
  <2> HIDE DEF T
  <2>5. Alike(S[i], A[i], A[i].words)
    BY <1>5, <2>2, <2>3 DEF Alike
  <2>4. i \in i..L /\ i \in i..i
    BY <1>1
  <2> QED
    BY <2>1, <2>5, <2>4 DEF T
<1>9. ASSUME NEW k \in (i + 1)..L, k - 1 \in T PROVE k \in T
  <2>1. k \in i..L /\ k \in 1..L /\ k - 1 \in 0..L /\ k \in 0..L /\ k - 1 \in i..L
    BY <1>1
  <2>2. S[k] = Turn(S[k - 1], t[k], n) /\ S[k - 1] \in Loop
    BY <1>3, <2>1
  <2>3. Follows(k - 1)
    BY <1>9
  <2>4. CASE S[k - 1].stopped
    <3>1. S[k] = S[k - 1]
      BY <2>2, <2>4 DEF Turn
    <3>2. i + S[k].counter \in i..k
      BY <1>1, <2>1, <2>3, <3>1
    <3> HIDE DEF T
    <3>3. Follows(k)
      BY <2>3, <2>4, <3>1, <3>2
    <3> QED
      BY <2>1, <3>3 DEF T
  <2>5. CASE ~S[k - 1].stopped
    <3>1. i + S[k - 1].counter = k - 1 /\ S[k - 1].counter \in Nat
      BY <2>2, <2>3, <2>5 DEF Loop
    <3>2. Alike(S[k - 1], A[k - 1], A[i].words)
      BY <2>3, <3>1
    <3>3. A[k] = Turn(A[k - 1], t[k], L + 1) /\ A[k - 1] \in Loop /\ ~A[k - 1].stopped /\ L + 1 \in Nat
      BY <1>1, <1>2, <1>4, <2>1
    <3>4. Alike(S[k], A[k], A[i].words)
      BY <1>6, <2>2, <2>5, <3>2, <3>3, TurnsAlike
    <3>5. S[k].counter = S[k - 1].counter + 1
          /\ (S[k].stopped => S[k - 1].counter + 1 >= n /\ S[k].word = <<>> /\ S[k].pattern_status = "NORMAL")
      BY <2>2, <2>5, StopsBetweenWords
    <3>6. i + S[k].counter = k /\ k \in i..k
      <4>1. \A c, d : c \in Nat /\ i + c = k - 1 /\ d = c + 1 => i + d = k
        BY <1>1, <2>1
      <4>2. k \in i..k
        BY <1>1, <2>1
      <4> QED
        BY <3>1, <3>5, <4>1, <4>2
    <3>7. S[k].stopped => Between(t, k)
      BY <1>7, <2>1, <3>4, <3>5 DEF Alike
    <3>8. Follows(k)
      BY <3>4, <3>5, <3>6, <3>7
    <3> QED
      BY <2>1, <3>8
  <2> QED
    BY <2>4, <2>5
<1>10. \A k \in i..L : k \in T
  <2> HIDE DEF T
  <2> QED
    BY <1>1, <1>8, <1>9, FromTo
<1> QED
  BY <1>10 DEF A, L, S

(* The words of a block are those of the text after those before it.       *)
LEMMA BlockWords ==
  ASSUME NEW t \in Seq(Graphemes), NEW i \in 0..Len(t), Between(t, i), NEW n \in Nat \ {0},
         NEW block, block = next_n_words(t, i, n)
  PROVE  /\ block.words \in Seq(Words)
         /\ block.index \in i..Len(t)
         /\ \/ /\ Between(t, block.index)
               /\ Whole(t)[block.index].words = Whole(t)[i].words \o block.words
            \/ /\ block.index = Len(t)
               /\ terminate_word(Whole(t)[Len(t)]).words = Whole(t)[i].words \o block.words
<1> DEFINE L == Len(t)
           A == Whole(t)
           s == Turns(t, i, n)[L]
           e == i + s.counter
<1>1. L \in Nat /\ i \in Nat /\ i <= L /\ L \in i..L
  OBVIOUS
<1>2. block.words = terminate_word(s).words /\ block.index = e
  BY DEF next_n_words
<1>3. s \in Loop /\ terminate_word(s) \in Loop
  BY <1>1, TurnsAre, LoopTyped
<1>4. /\ e \in i..L
      /\ Alike(s, A[e], A[i].words)
      /\ s.stopped => Between(t, e) /\ s.word = <<>>
      /\ ~s.stopped => e = L
  BY <1>1, BlockFollows
<1>5. A[e] \in Loop /\ A[i] \in Loop
  BY <1>1, <1>4, WholeIs
<1>6. terminate_word(s).words \in Seq(Words) /\ A[i].words \in Seq(Words)
  BY <1>3, <1>5 DEF Loop
<1> HIDE DEF s, A, L, e
<1>7. CASE s.stopped
  <2>1. Len(s.word) = 0 /\ ~(0 >= MIN_WORD_LEN)
    BY <1>4, <1>7, NoEmptyWord
  <2>2. terminate_word(s).words = s.words
    BY <1>3, <2>1 DEF terminate_word, Loop
  <2> QED
    BY <1>2, <1>4, <1>6, <1>7, <2>2 DEF Alike, A, L
<1>8. CASE ~s.stopped
  <2>1. Alike(terminate_word(s), terminate_word(A[e]), A[i].words)
    BY <1>3, <1>4, <1>5, <1>6, EndsAlike
  <2> QED
    BY <1>2, <1>4, <1>6, <1>8, <2>1 DEF Alike, A, L
<1> QED
  BY <1>7, <1>8

(* After the last grapheme there is no word. *)
LEMMA NoWordsAtTheEnd ==
  ASSUME NEW t \in Seq(Graphemes), NEW n \in Nat
  PROVE  next_n_words(t, Len(t), n) = [words |-> <<>>, index |-> Len(t)]
<1>1. Len(t) \in Nat /\ Len(t) \in 0..Len(t)
  OBVIOUS
<1>2. Turns(t, Len(t), n)[Len(t)] = NewBlock
  BY <1>1, TurnsAre
<1>3. terminate_word(NewBlock).words = <<>>
  BY NoEmptyWord DEF terminate_word, NewBlock
<1>4. NewBlock.counter = 0 /\ Len(t) + 0 = Len(t)
  BY <1>1 DEF NewBlock
<1> QED
  BY <1>2, <1>3, <1>4 DEF next_n_words

-----------------------------------------------------------------------------
(* The words of rows *)

WordsStep(w, n, rows, languages) ==
  IF rows[n].lang \in languages THEN w \o rows[n].words ELSE w

LEMMA WordsOfIs ==
  ASSUME NEW S, NEW rows \in Seq(S), \A x \in S : x.words \in Seq(Words), NEW languages
  PROVE  \E w \in [0..Len(rows) -> Seq(Words)] :
           /\ w[0] = <<>>
           /\ \A n \in 1..Len(rows) : w[n] = WordsStep(w[n - 1], n, rows, languages)
           /\ WordsOf(rows, languages) = w[Len(rows)]
<1> DEFINE L == Len(rows)
           words == CHOOSE f : f = [n \in 0..L |->
                      IF n = 0 THEN <<>>
                      ELSE IF rows[n].lang \in languages THEN f[n - 1] \o rows[n].words ELSE f[n - 1]]
           step == [p \in (0..L) \X Seq(Words) |-> IF p[1] = 0 THEN <<>> ELSE WordsStep(p[2], p[1], rows, languages)]
<1>1. WordsOf(rows, languages) = words[L]
  BY DEF WordsOf
<1>2. L \in Nat /\ 0 <= L /\ <<>> \in Seq(Words) /\ 0 \in Nat
  OBVIOUS
<1>3. ASSUME NEW k \in 1..L, NEW w \in Seq(Words) PROVE WordsStep(w, k, rows, languages) \in Seq(Words)
  <2>1. rows[k].words \in Seq(Words)
    OBVIOUS
  <2> QED
    BY <2>1 DEF WordsStep
<1>4. step \in [(0..L) \X Seq(Words) -> Seq(Words)]
  <2>1. \A k \in 0..L : k = 0 \/ k \in 1..L
    BY <1>2
  <2> QED
    BY <1>2, <1>3, <2>1
<1>5. \A k \in 1..L, w \in Seq(Words) : step[<<k, w>>] = WordsStep(w, k, rows, languages)
  BY <1>2
<1> HIDE DEF step, L
<1>6. PICK f \in [0..L -> Seq(Words)] : Recursion(f, 0, L, <<>>, step)
  BY <1>2, <1>4, RecursionExists
<1>7. f = [n \in 0..L |-> IF n = 0 THEN <<>>
                          ELSE IF rows[n].lang \in languages THEN f[n - 1] \o rows[n].words ELSE f[n - 1]]
  <2>1. ASSUME NEW k \in 0..L, k # 0 PROVE f[k] = WordsStep(f[k - 1], k, rows, languages)
    <3>1. k - 1 \in 0..L /\ k \in 1..L
      BY <1>2, <2>1
    <3> QED
      BY <1>5, <1>6, <2>1, <3>1 DEF Recursion
  <2>2. \A k \in 0..L : f[k] = IF k = 0 THEN <<>>
                          ELSE IF rows[k].lang \in languages THEN f[k - 1] \o rows[k].words ELSE f[k - 1]
    BY <1>6, <2>1 DEF Recursion, WordsStep
  <2> QED
    BY <2>2
<1>8. words = [n \in 0..L |-> IF n = 0 THEN <<>>
                 ELSE IF rows[n].lang \in languages THEN words[n - 1] \o rows[n].words ELSE words[n - 1]]
  BY <1>7
<1> HIDE DEF words
<1>9. words[0] = <<>> /\ \A k \in 1..L : words[k] = WordsStep(words[k - 1], k, rows, languages)
  <2>1. 0 \in 0..L /\ \A k \in 1..L : k \in 0..L /\ k # 0
    BY <1>2
  <2> QED
    BY <1>8, <2>1 DEF WordsStep
<1> DEFINE U == {k \in 0..L : words[k] \in Seq(Words)}
<1>10. \A k \in 0..L : k \in U
  <2>1. 0 \in U
    <3>1. 0 \in 0..L
      BY <1>2
    <3>2. words[0] \in Seq(Words)
      BY <1>2, <1>9
    <3> QED
      BY <3>1, <3>2
  <2>2. ASSUME NEW k \in (0 + 1)..L, k - 1 \in U PROVE k \in U
    <3>1. k \in 1..L /\ k \in 0..L
      BY <1>2
    <3> QED
      BY <1>3, <1>9, <2>2, <3>1
  <2> HIDE DEF U
  <2> QED
    BY <1>2, <2>1, <2>2, FromTo
<1>11. words \in [0..L -> Seq(Words)]
  BY <1>8, <1>10
<1> QED
  BY <1>1, <1>9, <1>11 DEF L

LEMMA WordsOfNone ==
  ASSUME NEW languages
  PROVE  WordsOf(<<>>, languages) = <<>>
<1>1. <<>> \in Seq({}) /\ Len(<<>>) = 0 /\ \A x \in {} : x.words \in Seq(Words)
  OBVIOUS
<1>2. \A rows \in Seq({}) : \E w \in [0..Len(rows) -> Seq(Words)] :
        w[0] = <<>> /\ WordsOf(rows, languages) = w[Len(rows)]
  BY <1>1, WordsOfIs
<1>3. \E w \in [0..Len(<<>>) -> Seq(Words)] : w[0] = <<>> /\ WordsOf(<<>>, languages) = w[Len(<<>>)]
  BY <1>1, <1>2
<1> QED
  BY <1>1, <1>3

LEMMA WordsOfMore ==
  ASSUME NEW S, NEW rows \in Seq(S), \A x \in S : x.words \in Seq(Words), NEW row \in S, NEW languages
  PROVE  /\ WordsOf(rows, languages) \in Seq(Words)
         /\ WordsOf(Append(rows, row), languages) =
              IF row.lang \in languages THEN WordsOf(rows, languages) \o row.words ELSE WordsOf(rows, languages)
<1> DEFINE more == Append(rows, row)
           L == Len(rows)
<1>1. more \in Seq(S) /\ L \in Nat /\ Len(more) = L + 1 /\ more[L + 1] = row /\ \A k \in 1..L : more[k] = rows[k]
  OBVIOUS
<1>2. PICK w \in [0..L -> Seq(Words)] :
        /\ w[0] = <<>>
        /\ \A n \in 1..L : w[n] = WordsStep(w[n - 1], n, rows, languages)
        /\ WordsOf(rows, languages) = w[L]
  BY WordsOfIs
<1> HIDE DEF more, L
<1>3. PICK v \in [0..(L + 1) -> Seq(Words)] :
        /\ v[0] = <<>>
        /\ \A n \in 1..(L + 1) : v[n] = WordsStep(v[n - 1], n, more, languages)
        /\ WordsOf(more, languages) = v[L + 1]
  BY <1>1, WordsOfIs
<1> DEFINE T == {k \in 0..L : v[k] = w[k]}
<1>4. 0 \in T
  BY <1>1, <1>2, <1>3
<1>5. ASSUME NEW k \in (0 + 1)..L, k - 1 \in T PROVE k \in T
  <2>1. k \in 1..L /\ k \in 0..L /\ k \in 1..(L + 1)
    BY <1>1
  <2>2. v[k] = WordsStep(v[k - 1], k, more, languages) /\ w[k] = WordsStep(w[k - 1], k, rows, languages)
        /\ more[k] = rows[k] /\ v[k - 1] = w[k - 1]
    BY <1>1, <1>2, <1>3, <1>5, <2>1
  <2> QED
    BY <2>1, <2>2 DEF WordsStep
<1>6. \A k \in 0..L : k \in T
  <2> HIDE DEF T
  <2> QED
    BY <1>1, <1>4, <1>5, FromTo
<1>7. v[L] = w[L] /\ w[L] \in Seq(Words)
  BY <1>1, <1>2, <1>6
<1>8. v[L + 1] = WordsStep(v[L], L + 1, more, languages)
  <2>1. L + 1 \in 1..(L + 1) /\ (L + 1) - 1 = L
    BY <1>1
  <2> QED
    BY <1>3, <2>1
<1> QED
  BY <1>1, <1>2, <1>3, <1>7, <1>8 DEF WordsStep, more, L

(* A part takes at least a word, and no more than there are. *)
LEMMA PartLengthFits ==
  ASSUME NEW words \in Seq(Words), words # <<>>
  PROVE  PartLength(words) \in 1..Len(words)
<1> DEFINE size == CHOOSE f : f = [n \in 0..Len(words) |-> IF n = 0 THEN 0 ELSE f[n - 1] + Len(words[n])]
           Full(n) == n = Len(words) \/ size[n] >= MAX_LANGUAGE_BUFFER_BLOCK
           First(n) == Full(n) /\ \A m \in 1..(n - 1) : ~Full(m)
           T == {n \in 1..Len(words) : Full(n)}
<1>1. PartLength(words) = CHOOSE n \in DOMAIN words : First(n)
  BY DEF PartLength
<1>2. Len(words) \in Nat \ {0} /\ DOMAIN words = 1..Len(words)
  BY EmptySeq
<1>3. Len(words) \in T
  BY <1>2
<1>4. IsWellFoundedOn(Less, Nat)
  BY NatLessThanWellFounded DEF OpToRel, Less
<1> HIDE DEF size
<1>5. PICK n \in T : \A m \in T : <<m, n>> \notin Less
  <2>1. T \subseteq Nat /\ T # {}
    BY <1>2, <1>3
  <2> HIDE DEF T
  <2> QED
    BY <1>4, <2>1, WFMin
<1>6. \A m \in 1..(n - 1) : ~Full(m)
  <2>1. SUFFICES ASSUME NEW m \in 1..(n - 1), Full(m) PROVE FALSE
    OBVIOUS
  <2>2. n \in 1..Len(words)
    OBVIOUS
  <2>3. m \in 1..Len(words) /\ m \in Nat /\ n \in Nat /\ m < n
    <3>1. \A l, j, k \in Nat : j \in 1..l /\ k \in 1..(j - 1) => k \in 1..l /\ k < j
      OBVIOUS
    <3>2. m \in Nat /\ n \in Nat
      BY <2>2
    <3> HIDE DEF T, Full
    <3> QED
      BY <1>2, <2>2, <3>1, <3>2
  <2>4. m \in T
    BY <2>1, <2>3
  <2>5. <<m, n>> \in Less
    BY <2>3 DEF Less
  <2> HIDE DEF T
  <2> QED
    BY <1>5, <2>4, <2>5
<1>7. n \in DOMAIN words /\ First(n)
  BY <1>2, <1>5, <1>6
<1> HIDE DEF First
<1> QED
  BY <1>1, <1>2, <1>7

-----------------------------------------------------------------------------
(* The reader of a vector *)

Digits == {"0", "1", "2", "3", "4", "5", "6", "7", "8", "9"}
Positioned == Digits \cup {","}
Chars == Letters \cup Positioned \cup {":", "'", " "}

Reader == [mode : {"Clear", "Word", "PendingEnd"}, lexeme : Seq(Chars),
           phrase : Seq([hashed : BOOLEAN, text : Seq(Chars)])]

(* What is not a quote or a colon *)
Plain == Letters \cup Positioned

LEMMA PlainSigns == Plain \subseteq Chars /\ ":" \notin Plain /\ "'" \notin Plain /\ " " \notin Plain
<1>1. ":" \notin Letters /\ "'" \notin Letters /\ " " \notin Letters
  BY SignsAssumption DEF Letters, WordSigns
<1> QED
  BY <1>1 DEF Plain, Chars, Positioned, Digits

LEMMA ReaderTyped ==
  ASSUME NEW s \in Reader, NEW c \in Chars
  PROVE  Sign(s, c) \in Reader
<1> DEFINE E == [hashed : BOOLEAN, text : Seq(Chars)]
<1>1. s.lexeme \in Seq(Chars) /\ s.phrase \in Seq(E) /\ s.mode \in {"Clear", "Word", "PendingEnd"}
  BY DEF Reader
<1>2. ":" \in Chars /\ "'" \in Chars
  BY DEF Chars
<1>3. \A g \in Chars : PureText(g) \in E
  BY DEF PureText
<1>4. \A w \in Seq(Chars) : WordToEncrypt(w) \in E
  BY DEF WordToEncrypt
<1>5. ASSUME NEW lexeme \in Seq(Chars) PROVE Append(lexeme, c) \in Seq(Chars) /\ Append(lexeme, ":") \in Seq(Chars)
                                             /\ lexeme \o <<"'", c>> \in Seq(Chars)
  BY <1>2
<1> HIDE DEF E
<1>6. \A x \in E : Append(s.phrase, x) \in Seq(E)
  BY <1>1
<1>7. s.phrase \o <<WordToEncrypt(s.lexeme), PureText("'"), PureText(":")>> \in Seq(E)
  <2>1. <<WordToEncrypt(s.lexeme), PureText("'"), PureText(":")>> \in Seq(E)
    BY <1>1, <1>2, <1>3, <1>4
  <2> QED
    BY <1>1, <2>1
<1>8. <<>> \in Seq(Chars)
  OBVIOUS
<1>9. \A r : r \in Reader <=> r \in [mode : {"Clear", "Word", "PendingEnd"}, lexeme : Seq(Chars), phrase : Seq(E)]
  BY DEF Reader, E
<1> HIDE DEF Reader
<1>10. s \in [mode : {"Clear", "Word", "PendingEnd"}, lexeme : Seq(Chars), phrase : Seq(E)]
  BY <1>9
<1>11. Colon(s) \in Reader
  BY <1>1, <1>5, <1>7, <1>9, <1>10 DEF Colon
<1>12. SingleQuote(s) \in Reader
  BY <1>1, <1>2, <1>3, <1>6, <1>8, <1>9, <1>10 DEF SingleQuote
<1>13. OtherSign(s, c) \in Reader
  BY <1>1, <1>3, <1>5, <1>6, <1>9, <1>10 DEF OtherSign
<1> QED
  BY <1>11, <1>12, <1>13 DEF Sign

LEMMA ParsedIs ==
  ASSUME NEW vector \in Seq(Chars)
  PROVE  \E r \in [0..Len(vector) -> Reader] :
           /\ r[0] = NewPhrase
           /\ \A n \in 1..Len(vector) : r[n] = Sign(r[n - 1], vector[n])
           /\ parse_vector(vector) = r[Len(vector)]
<1> DEFINE L == Len(vector)
           parsed == CHOOSE f : f = [n \in 0..L |-> IF n = 0 THEN NewPhrase ELSE Sign(f[n - 1], vector[n])]
           step == [p \in (0..L) \X Reader |-> IF p[1] = 0 THEN NewPhrase ELSE Sign(p[2], vector[p[1]])]
<1>1. parse_vector(vector) = parsed[L]
  BY DEF parse_vector
<1>2. L \in Nat /\ 0 <= L /\ 0 \in Nat
  OBVIOUS
<1>3. NewPhrase \in Reader
  BY DEF NewPhrase, Reader
<1>4. ASSUME NEW k \in 1..L, NEW s \in Reader PROVE Sign(s, vector[k]) \in Reader
  <2>1. vector[k] \in Chars
    OBVIOUS
  <2> QED
    BY <2>1, ReaderTyped
<1>5. step \in [(0..L) \X Reader -> Reader]
  <2>1. \A k \in 0..L : k = 0 \/ k \in 1..L
    BY <1>2
  <2> QED
    BY <1>3, <1>4, <2>1
<1>6. \A k \in 1..L, s \in Reader : step[<<k, s>>] = Sign(s, vector[k])
  BY <1>2
<1> HIDE DEF step, L
<1>7. PICK f \in [0..L -> Reader] : Recursion(f, 0, L, NewPhrase, step)
  BY <1>2, <1>3, <1>5, RecursionExists
<1>8. f = [n \in 0..L |-> IF n = 0 THEN NewPhrase ELSE Sign(f[n - 1], vector[n])]
  <2>1. ASSUME NEW k \in 0..L, k # 0 PROVE f[k] = Sign(f[k - 1], vector[k])
    <3>1. k - 1 \in 0..L /\ k \in 1..L
      BY <1>2, <2>1
    <3> QED
      BY <1>6, <1>7, <2>1, <3>1 DEF Recursion
  <2>2. \A k \in 0..L : f[k] = IF k = 0 THEN NewPhrase ELSE Sign(f[k - 1], vector[k])
    BY <1>7, <2>1 DEF Recursion
  <2> QED
    BY <2>2
<1>9. parsed = [n \in 0..L |-> IF n = 0 THEN NewPhrase ELSE Sign(parsed[n - 1], vector[n])]
  BY <1>8
<1> HIDE DEF parsed
<1>10. parsed[0] = NewPhrase /\ \A k \in 1..L : parsed[k] = Sign(parsed[k - 1], vector[k])
  <2>1. 0 \in 0..L /\ \A k \in 1..L : k \in 0..L /\ k # 0
    BY <1>2
  <2> QED
    BY <1>9, <2>1
<1> DEFINE U == {k \in 0..L : parsed[k] \in Reader}
<1>11. \A k \in 0..L : k \in U
  <2>1. 0 \in U
    <3>1. 0 \in 0..L
      BY <1>2
    <3> QED
      BY <1>3, <1>10, <3>1
  <2>2. ASSUME NEW k \in (0 + 1)..L, k - 1 \in U PROVE k \in U
    <3>1. k \in 1..L /\ k \in 0..L
      BY <1>2
    <3> QED
      BY <1>4, <1>10, <2>2, <3>1
  <2> HIDE DEF U
  <2> QED
    BY <1>2, <2>1, <2>2, FromTo
<1>12. parsed \in [0..L -> Reader]
  BY <1>9, <1>11
<1> QED
  BY <1>1, <1>10, <1>12 DEF L

LEMMA ParsedMore ==
  ASSUME NEW vector \in Seq(Chars), NEW c \in Chars
  PROVE  /\ parse_vector(vector) \in Reader
         /\ parse_vector(Append(vector, c)) = Sign(parse_vector(vector), c)
<1> DEFINE more == Append(vector, c)
           L == Len(vector)
<1>1. more \in Seq(Chars) /\ L \in Nat /\ Len(more) = L + 1 /\ more[L + 1] = c /\ \A k \in 1..L : more[k] = vector[k]
  OBVIOUS
<1>2. PICK r \in [0..L -> Reader] :
        /\ r[0] = NewPhrase
        /\ \A n \in 1..L : r[n] = Sign(r[n - 1], vector[n])
        /\ parse_vector(vector) = r[L]
  BY ParsedIs
<1> HIDE DEF more, L
<1>3. PICK q \in [0..(L + 1) -> Reader] :
        /\ q[0] = NewPhrase
        /\ \A n \in 1..(L + 1) : q[n] = Sign(q[n - 1], more[n])
        /\ parse_vector(more) = q[L + 1]
  BY <1>1, ParsedIs
<1> DEFINE T == {k \in 0..L : q[k] = r[k]}
<1>4. 0 \in T
  BY <1>1, <1>2, <1>3
<1>5. ASSUME NEW k \in (0 + 1)..L, k - 1 \in T PROVE k \in T
  <2>1. k \in 1..L /\ k \in 0..L /\ k \in 1..(L + 1)
    BY <1>1
  <2>2. q[k] = Sign(q[k - 1], more[k]) /\ r[k] = Sign(r[k - 1], vector[k]) /\ more[k] = vector[k] /\ q[k - 1] = r[k - 1]
    BY <1>1, <1>2, <1>3, <1>5, <2>1
  <2> QED
    BY <2>1, <2>2
<1>6. \A k \in 0..L : k \in T
  <2> HIDE DEF T
  <2> QED
    BY <1>1, <1>4, <1>5, FromTo
<1>7. q[L] = r[L] /\ r[L] \in Reader
  BY <1>1, <1>2, <1>6
<1>8. q[L + 1] = Sign(q[L], more[L + 1])
  <2>1. L + 1 \in 1..(L + 1) /\ (L + 1) - 1 = L
    BY <1>1
  <2> QED
    BY <1>3, <2>1
<1> QED
  BY <1>1, <1>2, <1>3, <1>7, <1>8 DEF more, L

LEMMA ParsedNone == parse_vector(<<>>) = NewPhrase
<1>1. <<>> \in Seq(Chars) /\ Len(<<>>) = 0
  OBVIOUS
<1>2. \A v \in Seq(Chars) : \E r \in [0..Len(v) -> Reader] : r[0] = NewPhrase /\ parse_vector(v) = r[Len(v)]
  BY ParsedIs
<1>3. \E r \in [0..Len(<<>>) -> Reader] : r[0] = NewPhrase /\ parse_vector(<<>>) = r[Len(<<>>)]
  BY <1>1, <1>2
<1> QED
  BY <1>1, <1>3

LEMMA ConcatAppend ==
  ASSUME NEW S, NEW a \in Seq(S), NEW b \in Seq(S), NEW c \in S
  PROVE  a \o Append(b, c) = Append(a \o b, c) /\ a \o b \in Seq(S)
<1>1. Append(b, c) = b \o <<c>> /\ <<c>> \in Seq(S) /\ a \o b \in Seq(S)
  BY AppendIsConcat
<1>2. Append(a \o b, c) = (a \o b) \o <<c>>
  BY <1>1, AppendIsConcat
<1> QED
  BY <1>1, <1>2, ConcatAssociative

(* In a lexeme, letters are collected; outside, signs are copied. *)
LEMMA LexemeRead ==
  ASSUME NEW vector \in Seq(Chars), NEW word \in Seq(Plain), NEW s, s = parse_vector(vector), s.mode = "Word"
  PROVE  parse_vector(vector \o word) = [s EXCEPT !.lexeme = @ \o word]
<1> DEFINE L == Len(word)
           Upto(k) == SubSeq(word, 1, k)
           T == {k \in 0..L : parse_vector(vector \o Upto(k)) = [s EXCEPT !.lexeme = @ \o Upto(k)]}
<1>1. L \in Nat /\ 0 \in 0..L /\ word \in Seq(Chars) /\ s \in Reader /\ s.lexeme \in Seq(Chars)
  <2>1. s \in Reader
    BY ParsedMore, PlainSigns DEF Chars
  <2>2. word \in Seq(Chars)
    BY PlainSigns, SeqMonotonic
  <2> QED
    BY <2>1, <2>2 DEF Reader
<1>2. Upto(0) = <<>> /\ Upto(L) = word
  BY <1>1, SubSeqFull
<1>3. \A k \in 1..L : /\ Upto(k - 1) \in Seq(Chars) /\ word[k] \in Plain /\ word[k] \in Chars
                      /\ Upto(k) = Append(Upto(k - 1), word[k])
  <2> SUFFICES ASSUME NEW k \in 1..L
               PROVE  /\ Upto(k - 1) \in Seq(Chars) /\ word[k] \in Plain /\ word[k] \in Chars
                      /\ Upto(k) = Append(Upto(k - 1), word[k])
    OBVIOUS
  <2>1. word[k] \in Plain /\ word[k] \in Chars
    <3>1. word[k] \in Plain
      BY ElementOfSeq
    <3> QED
      BY <3>1, PlainSigns
  <2>2. Upto(k - 1) \in Seq(Chars)
    BY <1>1
  <2>3. Upto(k) = Upto(k - 1) \o <<word[k]>>
    BY <1>1, SubSeqRecursiveSecond
  <2> QED
    BY <2>1, <2>2, <2>3, AppendIsConcat
<1> HIDE DEF L, Upto
<1>4. 0 \in T
  <2>1. vector \o <<>> = vector /\ s.lexeme \o <<>> = s.lexeme
    BY <1>1
  <2>2. [s EXCEPT !.lexeme = s.lexeme] = s
    BY <1>1 DEF Reader
  <2> QED
    BY <1>1, <1>2, <2>1, <2>2
<1>5. ASSUME NEW k \in (0 + 1)..L, k - 1 \in T PROVE k \in T
  <2>1. k \in 1..L /\ k \in 0..L
    BY <1>1
  <2> DEFINE before == Upto(k - 1)
             c == word[k]
             r == parse_vector(vector \o before)
  <2>2. before \in Seq(Chars) /\ c \in Plain /\ c \in Chars /\ Upto(k) = Append(before, c)
    BY <1>3, <2>1
  <2>3. r = [s EXCEPT !.lexeme = @ \o before]
    BY <1>5
  <2> HIDE DEF before, c, T
  <2>4. vector \o Append(before, c) = Append(vector \o before, c) /\ vector \o before \in Seq(Chars)
        /\ s.lexeme \o Append(before, c) = Append(s.lexeme \o before, c)
    <3>1. \A a \in Seq(Chars) : a \o Append(before, c) = Append(a \o before, c) /\ a \o before \in Seq(Chars)
      BY <2>2, ConcatAppend, Zenon
    <3> QED
      BY <1>1, <3>1
  <2>5. parse_vector(vector \o Append(before, c)) = Sign(r, c)
    BY <2>2, <2>4, ParsedMore
  <2> HIDE DEF r
  <2>6. c # ":" /\ c # "'"
    BY <2>2, PlainSigns
  <2>7. r.mode = "Word" /\ r.lexeme = s.lexeme \o before
    BY <1>1, <2>3 DEF Reader
  <2>8. Sign(r, c) = [r EXCEPT !.lexeme = Append(@, c)]
    BY <2>6, <2>7 DEF Sign, OtherSign
  <2>9. [r EXCEPT !.lexeme = Append(@, c)] = [s EXCEPT !.lexeme = Append(s.lexeme \o before, c)]
    BY <1>1, <2>3, <2>7 DEF Reader
  <2> QED
    BY <2>1, <2>2, <2>4, <2>5, <2>8, <2>9 DEF T
<1>6. \A k \in 0..L : k \in T
  <2> HIDE DEF T
  <2> QED
    BY <1>1, <1>4, <1>5, FromTo
<1>7. L \in 0..L
  BY <1>1
<1> QED
  BY <1>2, <1>6, <1>7

Copied(signs) == [k \in DOMAIN signs |-> PureText(signs[k])]

LEMMA PositionsRead ==
  ASSUME NEW vector \in Seq(Chars), NEW signs \in Seq(Plain), NEW s, s = parse_vector(vector), s.mode = "Clear"
  PROVE  parse_vector(vector \o signs) = [s EXCEPT !.phrase = @ \o Copied(signs)]
<1> DEFINE L == Len(signs)
           E == [hashed : BOOLEAN, text : Seq(Chars)]
           Upto(k) == SubSeq(signs, 1, k)
           T == {k \in 0..L : parse_vector(vector \o Upto(k)) = [s EXCEPT !.phrase = @ \o Copied(Upto(k))]}
<1>1. L \in Nat /\ 0 \in 0..L /\ signs \in Seq(Chars) /\ s \in Reader /\ s.phrase \in Seq(E)
  <2>1. s \in Reader
    BY ParsedMore, PlainSigns DEF Chars
  <2>2. signs \in Seq(Chars)
    BY PlainSigns, SeqMonotonic
  <2> QED
    BY <2>1, <2>2 DEF Reader
<1>2. Upto(0) = <<>> /\ Upto(L) = signs /\ Copied(<<>>) = <<>>
  BY <1>1, SubSeqFull DEF Copied
<1>3. \A k \in 1..L : /\ Upto(k - 1) \in Seq(Chars) /\ signs[k] \in Plain /\ signs[k] \in Chars
                      /\ Upto(k) = Append(Upto(k - 1), signs[k])
                      /\ Copied(Upto(k - 1)) \in Seq(E)
                      /\ Copied(Upto(k)) = Append(Copied(Upto(k - 1)), PureText(signs[k]))
  <2> SUFFICES ASSUME NEW k \in 1..L
               PROVE  /\ Upto(k - 1) \in Seq(Chars) /\ signs[k] \in Plain /\ signs[k] \in Chars
                      /\ Upto(k) = Append(Upto(k - 1), signs[k])
                      /\ Copied(Upto(k - 1)) \in Seq(E)
                      /\ Copied(Upto(k)) = Append(Copied(Upto(k - 1)), PureText(signs[k]))
    OBVIOUS
  <2>1. signs[k] \in Plain /\ signs[k] \in Chars
    <3>1. signs[k] \in Plain
      BY ElementOfSeq
    <3> QED
      BY <3>1, PlainSigns
  <2>2. Upto(k - 1) \in Seq(Chars)
    BY <1>1
  <2>3. Upto(k) = Upto(k - 1) \o <<signs[k]>>
    BY <1>1, SubSeqRecursiveSecond
  <2>4. Upto(k) = Append(Upto(k - 1), signs[k])
    BY <2>1, <2>2, <2>3, AppendIsConcat
  <2> DEFINE b == Upto(k - 1)
             c == signs[k]
  <2> HIDE DEF Upto, b, c
  <2>5. \A g \in Chars : PureText(g) \in E
    BY DEF PureText
  <2> HIDE DEF E
  <2>6. ASSUME NEW x \in Seq(Chars) PROVE Copied(x) \in Seq(E) /\ Len(Copied(x)) = Len(x)
                                          /\ \A j \in 1..Len(x) : Copied(x)[j] = PureText(x[j])
    <3>1. \A j \in 1..Len(x) : PureText(x[j]) \in E
      BY <2>5
    <3>2. DOMAIN x = 1..Len(x) /\ Len(x) \in Nat
      OBVIOUS
    <3> QED
      BY <3>1, <3>2 DEF Copied
  <2>7. ASSUME NEW x \in Seq(Chars), NEW g \in Chars
        PROVE  Copied(Append(x, g)) = Append(Copied(x), PureText(g))
    <3>1. Append(x, g) \in Seq(Chars) /\ Len(Append(x, g)) = Len(x) + 1 /\ Len(x) \in Nat
          /\ Append(x, g)[Len(x) + 1] = g /\ \A j \in 1..Len(x) : Append(x, g)[j] = x[j]
      OBVIOUS
    <3> DEFINE u == Copied(Append(x, g))
               w == Append(Copied(x), PureText(g))
    <3>2. u \in Seq(E) /\ Len(u) = Len(x) + 1 /\ u[Len(x) + 1] = PureText(g)
          /\ \A j \in 1..Len(x) : u[j] = PureText(x[j])
      <4>1. u \in Seq(E) /\ Len(u) = Len(x) + 1 /\ \A j \in 1..(Len(x) + 1) : u[j] = PureText(Append(x, g)[j])
        BY <2>6, <3>1
      <4>2. Len(x) + 1 \in 1..(Len(x) + 1) /\ \A j \in 1..Len(x) : j \in 1..(Len(x) + 1)
        BY <3>1
      <4> HIDE DEF u
      <4> QED
        BY <3>1, <4>1, <4>2
    <3>3. w \in Seq(E) /\ Len(w) = Len(x) + 1 /\ w[Len(x) + 1] = PureText(g)
          /\ \A j \in 1..Len(x) : w[j] = PureText(x[j])
      BY <2>5, <2>6
    <3> HIDE DEF u, w
    <3>4. \A j \in 1..(Len(x) + 1) : u[j] = w[j]
      <4>1. \A j \in 1..(Len(x) + 1) : j \in 1..Len(x) \/ j = Len(x) + 1
        BY <3>1
      <4> QED
        BY <3>2, <3>3, <4>1
    <3>5. u = w
      BY <3>2, <3>3, <3>4, SeqEqual
    <3> QED
      BY <3>5 DEF u, w
  <2> QED
    BY <2>1, <2>2, <2>4, <2>6, <2>7
<1> HIDE DEF L, Upto
<1>4. 0 \in T
  <2>1. vector \o <<>> = vector /\ s.phrase \o <<>> = s.phrase
    BY <1>1
  <2>2. [s EXCEPT !.phrase = s.phrase] = s
    BY <1>1 DEF Reader
  <2> QED
    BY <1>1, <1>2, <2>1, <2>2
<1>5. ASSUME NEW k \in (0 + 1)..L, k - 1 \in T PROVE k \in T
  <2>1. k \in 1..L /\ k \in 0..L
    BY <1>1
  <2> DEFINE before == Upto(k - 1)
             c == signs[k]
             r == parse_vector(vector \o before)
             copied == Copied(before)
  <2>2. before \in Seq(Chars) /\ c \in Plain /\ c \in Chars /\ Upto(k) = Append(before, c)
        /\ copied \in Seq(E) /\ Copied(Upto(k)) = Append(copied, PureText(c))
    BY <1>3, <2>1
  <2>3. r = [s EXCEPT !.phrase = @ \o copied]
    BY <1>5
  <2> HIDE DEF before, c, T, copied
  <2>4. vector \o Append(before, c) = Append(vector \o before, c) /\ vector \o before \in Seq(Chars)
    BY <1>1, <2>2
  <2>5. s.phrase \o Append(copied, PureText(c)) = Append(s.phrase \o copied, PureText(c))
    <3>1. PureText(c) \in E
      BY <2>2 DEF PureText
    <3> HIDE DEF E
    <3>2. ASSUME NEW a \in Seq(E), NEW b \in Seq(E), NEW x \in E PROVE a \o Append(b, x) = Append(a \o b, x)
      BY ConcatAppend
    <3>3. s.phrase \in Seq(E) /\ copied \in Seq(E)
      BY <1>1, <2>2
    <3> QED
      BY <3>1, <3>2, <3>3, Zenon
  <2>6. parse_vector(vector \o Append(before, c)) = Sign(r, c)
    BY <2>2, <2>4, ParsedMore
  <2> HIDE DEF r
  <2>7. c # ":" /\ c # "'"
    BY <2>2, PlainSigns
  <2>8. r.mode = "Clear" /\ r.phrase = s.phrase \o copied
    BY <1>1, <2>3 DEF Reader
  <2>9. Sign(r, c) = [r EXCEPT !.phrase = Append(@, PureText(c))]
    BY <2>7, <2>8 DEF Sign, OtherSign
  <2>10. [r EXCEPT !.phrase = Append(@, PureText(c))] = [s EXCEPT !.phrase = Append(s.phrase \o copied, PureText(c))]
    BY <1>1, <2>3, <2>8 DEF Reader
  <2> QED
    BY <2>1, <2>2, <2>4, <2>5, <2>6, <2>9, <2>10 DEF T
<1>6. \A k \in 0..L : k \in T
  <2> HIDE DEF T
  <2> QED
    BY <1>1, <1>4, <1>5, FromTo
<1>7. L \in 0..L
  BY <1>1
<1> QED
  BY <1>2, <1>6, <1>7

-----------------------------------------------------------------------------
(* The text of a vector *)

(* A word has no quote that is written twice. *)
LEMMA DoubledWord ==
  ASSUME NEW word \in Seq(Plain)
  PROVE  Doubled(word) = word
<1> DEFINE L == Len(word)
           Turned(d, n) == d \o (IF word[n] = "'" THEN <<"'", "'">> ELSE <<word[n]>>)
           doubled == CHOOSE f : f = [n \in 0..L |-> IF n = 0 THEN <<>> ELSE Turned(f[n - 1], n)]
           step == [p \in (0..L) \X Seq(Plain) |-> IF p[1] = 0 THEN <<>> ELSE Turned(p[2], p[1])]
<1>1. Doubled(word) = doubled[L]
  BY DEF Doubled
<1>2. L \in Nat /\ 0 <= L /\ 0 \in Nat /\ <<>> \in Seq(Plain) /\ 0 \in 0..L
  OBVIOUS
<1>3. ASSUME NEW k \in 1..L, NEW d \in Seq(Plain) PROVE Turned(d, k) = Append(d, word[k]) /\ Turned(d, k) \in Seq(Plain)
  <2>1. word[k] \in Plain
    BY ElementOfSeq
  <2>2. word[k] # "'"
    BY <2>1, PlainSigns
  <2>3. Turned(d, k) = d \o <<word[k]>>
    BY <2>2
  <2> HIDE DEF Turned, L
  <2> QED
    BY <2>1, <2>3, AppendIsConcat
<1>4. step \in [(0..L) \X Seq(Plain) -> Seq(Plain)]
  <2>1. \A k \in 0..L : k = 0 \/ k \in 1..L
    BY <1>2
  <2> HIDE DEF Turned
  <2> QED
    BY <1>2, <1>3, <2>1
<1> HIDE DEF Turned
<1>5. \A k \in 1..L, d \in Seq(Plain) : step[<<k, d>>] = Turned(d, k)
  BY <1>2
<1> HIDE DEF step, L
<1>6. PICK f \in [0..L -> Seq(Plain)] : Recursion(f, 0, L, <<>>, step)
  BY <1>2, <1>4, RecursionExists
<1>7. f = [n \in 0..L |-> IF n = 0 THEN <<>> ELSE Turned(f[n - 1], n)]
  <2>1. ASSUME NEW k \in 0..L, k # 0 PROVE f[k] = Turned(f[k - 1], k)
    <3>1. k - 1 \in 0..L /\ k \in 1..L
      BY <1>2, <2>1
    <3> QED
      BY <1>5, <1>6, <2>1, <3>1 DEF Recursion
  <2>2. \A k \in 0..L : f[k] = IF k = 0 THEN <<>> ELSE Turned(f[k - 1], k)
    BY <1>6, <2>1 DEF Recursion
  <2> QED
    BY <2>2
<1>8. doubled = [n \in 0..L |-> IF n = 0 THEN <<>> ELSE Turned(doubled[n - 1], n)]
  BY <1>7
<1> HIDE DEF doubled
<1>9. doubled[0] = <<>> /\ \A k \in 1..L : doubled[k] = Turned(doubled[k - 1], k)
  <2>1. 0 \in 0..L /\ \A k \in 1..L : k \in 0..L /\ k # 0
    BY <1>2
  <2> QED
    BY <1>8, <2>1
<1> DEFINE U == {k \in 0..L : doubled[k] = SubSeq(word, 1, k)}
<1>10. \A k \in 0..L : k \in U
  <2>1. 0 \in U
    <3>1. SubSeq(word, 1, 0) = <<>>
      BY SubSeqEmpty
    <3> QED
      BY <1>2, <1>9, <3>1
  <2>2. ASSUME NEW k \in (0 + 1)..L, k - 1 \in U PROVE k \in U
    <3>1. k \in 1..L /\ k \in 0..L /\ k - 1 \in 0..L
      BY <1>2
    <3>2. SubSeq(word, 1, k) = SubSeq(word, 1, k - 1) \o <<word[k]>>
      BY <1>2, <3>1, SubSeqRecursiveSecond DEF L
    <3>3. SubSeq(word, 1, k - 1) \in Seq(Plain) /\ word[k] \in Plain
      BY <3>1, ElementOfSeq DEF L
    <3>4. doubled[k] = Append(SubSeq(word, 1, k - 1), word[k])
      BY <1>3, <1>9, <2>2, <3>1, <3>3
    <3> QED
      BY <3>1, <3>2, <3>3, <3>4, AppendIsConcat
  <2> HIDE DEF U
  <2> QED
    BY <1>2, <2>1, <2>2, FromTo
<1>11. doubled[L] = SubSeq(word, 1, L)
  <2>1. L \in 0..L
    BY <1>2
  <2> QED
    BY <1>10, <2>1
<1> QED
  BY <1>1, <1>11, SubSeqFull DEF L

LEMMA PositionsTyped ==
  ASSUME NEW words \in Seq(Words), NEW word
  PROVE  Positions(words, word) \in Seq(Positioned)
<1> DEFINE L == Len(words)
           Turned(d, n) == IF words[n] # word THEN d
                           ELSE d \o (IF d = <<>> THEN <<>> ELSE <<",">>) \o <<PositionSign(n)>>
           positions == CHOOSE f : f = [n \in 0..L |-> IF n = 0 THEN <<>> ELSE Turned(f[n - 1], n)]
           step == [p \in (0..L) \X Seq(Positioned) |-> IF p[1] = 0 THEN <<>> ELSE Turned(p[2], p[1])]
<1>1. Positions(words, word) = positions[L]
  BY DEF Positions
<1>2. L \in Nat /\ 0 <= L /\ 0 \in Nat /\ <<>> \in Seq(Positioned) /\ 0 \in 0..L
  OBVIOUS
<1>3. ASSUME NEW k \in 1..L, NEW d \in Seq(Positioned) PROVE Turned(d, k) \in Seq(Positioned)
  <2>1. k \in Nat
    BY <1>2
  <2>2. k % 10 \in 0..9
    BY <2>1
  <2>3. \A x \in 0..9 : PositionSigns[x + 1] \in Digits
    BY DEF PositionSigns, Digits
  <2>4. PositionSign(k) \in Positioned /\ "," \in Positioned
    BY <2>2, <2>3 DEF PositionSign, Positioned
  <2> HIDE DEF positions, step, L, Turned
  <2>5. ASSUME NEW S, NEW a \in S, NEW b \in S, NEW e \in Seq(S)
        PROVE  e \o (IF e = <<>> THEN <<>> ELSE <<a>>) \o <<b>> \in Seq(S)
    <3>1. <<a>> \in Seq(S) /\ <<b>> \in Seq(S) /\ <<>> \in Seq(S)
      OBVIOUS
    <3> QED
      BY <3>1, ConcatProperties
  <2>6. d \o (IF d = <<>> THEN <<>> ELSE <<",">>) \o <<PositionSign(k)>> \in Seq(Positioned)
    BY <2>4, <2>5
  <2> QED
    BY <2>6 DEF Turned
<1>4. step \in [(0..L) \X Seq(Positioned) -> Seq(Positioned)]
  <2>1. \A k \in 0..L : k = 0 \/ k \in 1..L
    BY <1>2
  <2> HIDE DEF Turned
  <2> QED
    BY <1>2, <1>3, <2>1
<1> HIDE DEF Turned
<1>5. \A k \in 1..L, d \in Seq(Positioned) : step[<<k, d>>] = Turned(d, k)
  BY <1>2
<1> HIDE DEF step, L
<1>6. PICK f \in [0..L -> Seq(Positioned)] : Recursion(f, 0, L, <<>>, step)
  BY <1>2, <1>4, RecursionExists
<1>7. f = [n \in 0..L |-> IF n = 0 THEN <<>> ELSE Turned(f[n - 1], n)]
  <2>1. ASSUME NEW k \in 0..L, k # 0 PROVE f[k] = Turned(f[k - 1], k)
    <3>1. k - 1 \in 0..L /\ k \in 1..L
      BY <1>2, <2>1
    <3> QED
      BY <1>5, <1>6, <2>1, <3>1 DEF Recursion
  <2>2. \A k \in 0..L : f[k] = IF k = 0 THEN <<>> ELSE Turned(f[k - 1], k)
    BY <1>6, <2>1 DEF Recursion
  <2> QED
    BY <2>2
<1>8. positions = [n \in 0..L |-> IF n = 0 THEN <<>> ELSE Turned(positions[n - 1], n)]
  BY <1>7
<1> HIDE DEF positions
<1>9. positions[0] = <<>> /\ \A k \in 1..L : positions[k] = Turned(positions[k - 1], k)
  <2>1. 0 \in 0..L /\ \A k \in 1..L : k \in 0..L /\ k # 0
    BY <1>2
  <2> QED
    BY <1>8, <2>1
<1> DEFINE U == {k \in 0..L : positions[k] \in Seq(Positioned)}
<1>10. \A k \in 0..L : k \in U
  <2>1. 0 \in U
    BY <1>2, <1>9
  <2>2. ASSUME NEW k \in (0 + 1)..L, k - 1 \in U PROVE k \in U
    <3>1. k \in 1..L /\ k \in 0..L
      BY <1>2
    <3> QED
      BY <1>3, <1>9, <2>2, <3>1
  <2> HIDE DEF U
  <2> QED
    BY <1>2, <2>1, <2>2, FromTo
<1> QED
  BY <1>1, <1>2, <1>10

(* What a word adds to the vector, and to its image *)
VectorStep(v, n, words) ==
  IF Repeated(words, n) THEN v
  ELSE v \o (IF n = 1 THEN <<>> ELSE <<" ">>)
         \o <<"'">> \o Doubled(words[n]) \o <<"'", ":">> \o Positions(words, words[n])

HashedStep(h, n, words) ==
  IF Repeated(words, n) THEN h
  ELSE h \o (IF n = 1 THEN <<>> ELSE <<PureText(" ")>>)
         \o <<PureText("'"), WordToEncrypt(words[n]), PureText("'"), PureText(":")>>
         \o Copied(Positions(words, words[n]))

Pieces == [hashed : BOOLEAN, text : Seq(Chars)]
Phrases == Seq(Pieces)

LEMMA AppendTwo ==
  ASSUME NEW x \in Seq(Chars), NEW a \in Chars, NEW b \in Chars
  PROVE  x \o <<a, b>> = Append(Append(x, a), b)
OBVIOUS

LEMMA AppendFour ==
  ASSUME NEW h \in Seq(Pieces), NEW a \in Pieces, NEW b \in Pieces, NEW c \in Pieces
  PROVE  Append(h, a) \o <<b, a, c>> = h \o <<a, b, a, c>>
OBVIOUS

LEMMA PiecesTyped ==
  /\ \A c \in Chars : PureText(c) \in Pieces
  /\ \A x \in Seq(Chars) : WordToEncrypt(x) \in Pieces /\ Copied(x) \in Phrases
<1>1. \A c \in Chars : PureText(c) \in Pieces
  BY DEF PureText, Pieces
<1>2. ASSUME NEW x \in Seq(Chars) PROVE WordToEncrypt(x) \in Pieces /\ Copied(x) \in Phrases
  <2>1. \A k \in 1..Len(x) : x[k] \in Chars
    BY ElementOfSeq
  <2>2. \A k \in 1..Len(x) : PureText(x[k]) \in Pieces
    BY <1>1, <2>1
  <2>3. DOMAIN x = 1..Len(x) /\ Len(x) \in Nat
    OBVIOUS
  <2>4. Copied(x) \in Phrases
    BY <2>2, <2>3 DEF Copied, Phrases
  <2>5. WordToEncrypt(x) \in Pieces
    BY DEF WordToEncrypt, Pieces
  <2> QED
    BY <2>4, <2>5
<1> QED
  BY <1>1, <1>2

LEMMA SignsAreChars == ":" \in Chars /\ "'" \in Chars /\ " " \in Chars
BY DEF Chars

LEMMA AppendedOne ==
  ASSUME NEW S, NEW x \in Seq(S), NEW a \in S
  PROVE  x \o <<a>> = Append(x, a) /\ Append(x, a) \in Seq(S)
BY AppendIsConcat, AppendProperties

LEMMA ReaderFields ==
  ASSUME NEW s \in Reader
  PROVE  /\ s.phrase \in Phrases
         /\ s.lexeme \in Seq(Chars)
BY DEF Reader, Phrases, Pieces

(* Between two lexemes a space is copied. *)
LEMMA SpaceRead ==
  ASSUME NEW v \in Seq(Chars), parse_vector(v).mode = "Clear"
  PROVE  /\ v \o <<" ">> \in Seq(Chars)
         /\ parse_vector(v \o <<" ">>).mode = "Clear"
         /\ parse_vector(v \o <<" ">>).phrase = parse_vector(v).phrase \o <<PureText(" ")>>
<1>1. v \o <<" ">> = Append(v, " ") /\ Append(v, " ") \in Seq(Chars)
  BY SignsAreChars, AppendedOne
<1>2. parse_vector(v) \in Reader /\ parse_vector(Append(v, " ")) = Sign(parse_vector(v), " ")
  BY SignsAreChars, ParsedMore
<1>3. parse_vector(v).phrase \in Phrases /\ PureText(" ") \in Pieces
  BY <1>2, ReaderFields, PiecesTyped, SignsAreChars
<1>4. parse_vector(v).phrase \o <<PureText(" ")>> = Append(parse_vector(v).phrase, PureText(" "))
  BY <1>3, AppendedOne DEF Phrases
<1>5. Sign(parse_vector(v), " ") = [parse_vector(v) EXCEPT !.phrase = Append(@, PureText(" "))]
  BY DEF Sign, OtherSign
<1>6. [parse_vector(v) EXCEPT !.phrase = Append(@, PureText(" "))].mode = "Clear"
  BY <1>2 DEF Reader
<1>7. [parse_vector(v) EXCEPT !.phrase = Append(@, PureText(" "))].phrase
        = Append(parse_vector(v).phrase, PureText(" "))
  BY <1>2 DEF Reader
<1> QED
  BY <1>1, <1>2, <1>4, <1>5, <1>6, <1>7

(* A lexeme between its quotes, and the colon that shows that it ended *)
LEMMA QuotedRead ==
  ASSUME NEW v \in Seq(Chars), parse_vector(v).mode = "Clear", NEW w \in Seq(Plain),
         NEW u, u = ((v \o <<"'">>) \o w) \o <<"'", ":">>
  PROVE  /\ u \in Seq(Chars)
         /\ parse_vector(u).mode = "Clear"
         /\ parse_vector(u).phrase
              = parse_vector(v).phrase \o <<PureText("'"), WordToEncrypt(w), PureText("'"), PureText(":")>>
<1> DEFINE p == parse_vector(v).phrase
           q == Append(p, PureText("'"))
           v1 == v \o <<"'">>
           v2 == v1 \o w
           v3 == Append(v2, "'")
<1>1. p \in Phrases /\ w \in Seq(Chars) /\ PureText("'") \in Pieces /\ PureText(":") \in Pieces /\ WordToEncrypt(w) \in Pieces
  <2>1. parse_vector(v) \in Reader
    BY SignsAreChars, ParsedMore
  <2>2. w \in Seq(Chars)
    BY PlainSigns, SeqMonotonic
  <2> QED
    BY <2>1, <2>2, ReaderFields, PiecesTyped, SignsAreChars
<1>2. v1 \in Seq(Chars) /\ parse_vector(v1) = [mode |-> "Word", lexeme |-> <<>>, phrase |-> q]
  <2>1. v1 = Append(v, "'") /\ Append(v, "'") \in Seq(Chars)
    BY SignsAreChars, AppendedOne
  <2>2. parse_vector(Append(v, "'")) = Sign(parse_vector(v), "'")
    BY SignsAreChars, ParsedMore
  <2>3. Sign(parse_vector(v), "'") = [mode |-> "Word", lexeme |-> <<>>, phrase |-> q]
    BY DEF Sign, SingleQuote
  <2> HIDE DEF v1, q
  <2> QED
    BY <2>1, <2>2, <2>3
<1> HIDE DEF v1
<1>3. v2 \in Seq(Chars) /\ parse_vector(v2) = [mode |-> "Word", lexeme |-> w, phrase |-> q]
  <2> HIDE DEF q
  <2>1. v2 \in Seq(Chars)
    BY <1>1, <1>2, ConcatProperties
  <2>2. parse_vector(v1).mode = "Word"
    BY <1>2
  <2>3. parse_vector(v2) = [parse_vector(v1) EXCEPT !.lexeme = @ \o w]
    BY <1>2, <2>2, LexemeRead
  <2>4. <<>> \o w = w
    BY <1>1
  <2> QED
    BY <1>2, <2>1, <2>3, <2>4
<1> HIDE DEF v2
<1>4. v3 \in Seq(Chars) /\ parse_vector(v3) = [mode |-> "PendingEnd", lexeme |-> w, phrase |-> q]
  <2> HIDE DEF q
  <2>1. v3 \in Seq(Chars)
    BY <1>3, SignsAreChars, AppendedOne
  <2>2. parse_vector(v3) = Sign(parse_vector(v2), "'")
    BY <1>3, SignsAreChars, ParsedMore
  <2>3. Sign([mode |-> "Word", lexeme |-> w, phrase |-> q], "'") = [mode |-> "PendingEnd", lexeme |-> w, phrase |-> q]
    BY DEF Sign, SingleQuote
  <2> HIDE DEF v3
  <2> QED
    BY <1>3, <2>1, <2>2, <2>3
<1>5. u = Append(v3, ":")
  <2>1. v2 \o <<"'", ":">> = Append(v3, ":")
    BY <1>3, SignsAreChars, AppendTwo
  <2> QED
    BY <2>1 DEF v2, v1
<1> HIDE DEF v3
<1>6. u \in Seq(Chars) /\ parse_vector(u) = Sign(parse_vector(v3), ":")
  BY <1>4, <1>5, SignsAreChars, AppendedOne, ParsedMore
<1>7. Sign([mode |-> "PendingEnd", lexeme |-> w, phrase |-> q], ":")
        = [mode |-> "Clear", lexeme |-> w, phrase |-> q \o <<WordToEncrypt(w), PureText("'"), PureText(":")>>]
  <2> HIDE DEF q
  <2> QED
    BY DEF Sign, Colon
<1>8. q \o <<WordToEncrypt(w), PureText("'"), PureText(":")>>
        = p \o <<PureText("'"), WordToEncrypt(w), PureText("'"), PureText(":")>>
  <2>1. p \in Seq(Pieces)
    BY <1>1 DEF Phrases
  <2> HIDE DEF p
  <2> QED
    BY <1>1, <2>1, AppendFour
<1> HIDE DEF p, q
<1>9. parse_vector(u) = [mode |-> "Clear", lexeme |-> w, phrase |-> q \o <<WordToEncrypt(w), PureText("'"), PureText(":")>>]
  <2>1. parse_vector(u) = Sign([mode |-> "PendingEnd", lexeme |-> w, phrase |-> q], ":")
    BY <1>4, <1>6
  <2> QED
    BY <1>7, <2>1
<1>10. parse_vector(u).mode = "Clear"
      /\ parse_vector(u).phrase = q \o <<WordToEncrypt(w), PureText("'"), PureText(":")>>
  <2>1. \A s, h : s = [mode |-> "Clear", lexeme |-> w, phrase |-> h] => s.mode = "Clear" /\ s.phrase = h
    OBVIOUS
  <2> QED
    BY <1>9, <2>1
<1> QED
  BY <1>6, <1>8, <1>10 DEF p

(* An entry is read as its image. *)
LEMMA EntryRead ==
  ASSUME NEW words \in Seq(Words), NEW n \in 1..Len(words), NEW v \in Seq(Chars), parse_vector(v).mode = "Clear"
  PROVE  /\ VectorStep(v, n, words) \in Seq(Chars)
         /\ parse_vector(VectorStep(v, n, words)).mode = "Clear"
         /\ parse_vector(VectorStep(v, n, words)).phrase = HashedStep(parse_vector(v).phrase, n, words)
<1>1. PICK w \in Seq(Plain) : w = words[n] /\ Doubled(words[n]) = w
  <2>1. words[n] \in Seq(Letters)
    BY ElementOfSeq DEF Words
  <2>2. words[n] \in Seq(Plain)
    BY <2>1, SeqMonotonic DEF Plain
  <2> QED
    BY <2>2, DoubledWord
<1>2. PICK ps \in Seq(Plain) : ps = Positions(words, words[n])
  <2>1. Positions(words, words[n]) \in Seq(Positioned)
    BY PositionsTyped
  <2> QED
    BY <2>1, SeqMonotonic DEF Plain
<1>3. ps \in Seq(Chars) /\ Copied(ps) \in Phrases /\ parse_vector(v).phrase \in Phrases
  <2>1. ps \in Seq(Chars)
    BY PlainSigns, SeqMonotonic
  <2>2. parse_vector(v) \in Reader
    BY SignsAreChars, ParsedMore
  <2> QED
    BY <2>1, <2>2, PiecesTyped, ReaderFields
<1>4. CASE Repeated(words, n)
  BY <1>4 DEF VectorStep, HashedStep
<1>5. CASE ~Repeated(words, n)
  <2>1. PICK x \in Seq(Chars) : /\ x = v \o (IF n = 1 THEN <<>> ELSE <<" ">>)
                                /\ parse_vector(x).mode = "Clear"
                                /\ parse_vector(x).phrase
                                     = parse_vector(v).phrase \o (IF n = 1 THEN <<>> ELSE <<PureText(" ")>>)
    <3>1. v \o <<>> = v /\ parse_vector(v).phrase \o <<>> = parse_vector(v).phrase
      BY <1>3 DEF Phrases
    <3> QED
      BY <3>1, SpaceRead
  <2>2. PICK u \in Seq(Chars) : /\ u = ((x \o <<"'">>) \o w) \o <<"'", ":">>
                                /\ parse_vector(u).mode = "Clear"
                                /\ parse_vector(u).phrase
                                     = parse_vector(x).phrase
                                         \o <<PureText("'"), WordToEncrypt(w), PureText("'"), PureText(":")>>
    BY <2>1, QuotedRead
  <2>3. parse_vector(u \o ps) = [parse_vector(u) EXCEPT !.phrase = @ \o Copied(ps)]
    BY <2>2, PositionsRead
  <2>4. parse_vector(u) \in Reader
    BY <2>2, SignsAreChars, ParsedMore
  <2>5. u \o ps \in Seq(Chars)
    BY <1>3, <2>2, ConcatProperties
  <2>6. VectorStep(v, n, words) = u \o ps
    BY <1>1, <1>2, <1>5, <2>1, <2>2 DEF VectorStep
  <2>7. HashedStep(parse_vector(v).phrase, n, words) = parse_vector(u).phrase \o Copied(ps)
    BY <1>1, <1>2, <1>5, <2>1, <2>2 DEF HashedStep
  <2>8. [parse_vector(u) EXCEPT !.phrase = @ \o Copied(ps)].mode = "Clear"
    BY <2>2, <2>4 DEF Reader
  <2>9. [parse_vector(u) EXCEPT !.phrase = @ \o Copied(ps)].phrase = parse_vector(u).phrase \o Copied(ps)
    BY <2>4 DEF Reader
  <2> QED
    BY <2>3, <2>5, <2>6, <2>7, <2>8, <2>9
<1> QED
  BY <1>4, <1>5

LEMMA Tuples ==
  ASSUME NEW S, NEW a \in S, NEW b \in S, NEW c \in S, NEW d \in S
  PROVE  <<>> \in Seq(S) /\ <<a>> \in Seq(S) /\ <<a, b>> \in Seq(S) /\ <<a, b, c, d>> \in Seq(S)
OBVIOUS

LEMMA StepsTyped ==
  ASSUME NEW words \in Seq(Words), NEW n \in 1..Len(words)
  PROVE  /\ \A v \in Seq(Chars) : VectorStep(v, n, words) \in Seq(Chars)
         /\ \A h \in Phrases : HashedStep(h, n, words) \in Phrases
<1>1. PICK w \in Seq(Chars) : w = words[n] /\ Doubled(words[n]) = w
  <2>1. words[n] \in Seq(Letters)
    BY ElementOfSeq DEF Words
  <2>2. words[n] \in Seq(Plain)
    BY <2>1, SeqMonotonic DEF Plain
  <2>3. words[n] \in Seq(Chars)
    BY <2>2, PlainSigns, SeqMonotonic
  <2> QED
    BY <2>2, <2>3, DoubledWord
<1>2. PICK ps \in Seq(Chars) : ps = Positions(words, words[n])
  <2>1. Positions(words, words[n]) \in Seq(Positioned)
    BY PositionsTyped
  <2> QED
    BY <2>1, SeqMonotonic DEF Chars
<1>3. ASSUME NEW v \in Seq(Chars) PROVE VectorStep(v, n, words) \in Seq(Chars)
  <2>1. <<" ">> \in Seq(Chars) /\ <<"'">> \in Seq(Chars) /\ <<"'", ":">> \in Seq(Chars) /\ <<>> \in Seq(Chars)
    <3>1. ASSUME NEW a \in Chars, NEW b \in Chars PROVE <<a>> \in Seq(Chars) /\ <<a, b>> \in Seq(Chars)
      BY Tuples
    <3>2. <<>> \in Seq(Chars)
      OBVIOUS
    <3> QED
      BY <3>1, <3>2, SignsAreChars
  <2>2. \A a, b \in Seq(Chars) : a \o b \in Seq(Chars)
    BY ConcatProperties
  <2> QED
    BY <1>1, <1>2, <2>1, <2>2 DEF VectorStep
<1>4. ASSUME NEW h \in Phrases PROVE HashedStep(h, n, words) \in Phrases
  <2>1. Copied(ps) \in Seq(Pieces) /\ PureText(" ") \in Pieces /\ PureText("'") \in Pieces /\ PureText(":") \in Pieces
        /\ WordToEncrypt(w) \in Pieces
    BY SignsAreChars, PiecesTyped DEF Phrases
  <2>2. <<PureText(" ")>> \in Seq(Pieces) /\ <<>> \in Seq(Pieces)
        /\ <<PureText("'"), WordToEncrypt(w), PureText("'"), PureText(":")>> \in Seq(Pieces)
    <3>1. ASSUME NEW a \in Pieces, NEW b \in Pieces, NEW c \in Pieces, NEW d \in Pieces
          PROVE  <<a>> \in Seq(Pieces) /\ <<a, b, c, d>> \in Seq(Pieces)
      BY Tuples
    <3>2. <<>> \in Seq(Pieces)
      OBVIOUS
    <3> QED
      BY <2>1, <3>1, <3>2
  <2>3. \A a, b \in Seq(Pieces) : a \o b \in Seq(Pieces)
    BY ConcatProperties
  <2> QED
    BY <1>1, <1>2, <2>1, <2>2, <2>3 DEF HashedStep, Phrases
<1> QED
  BY <1>3, <1>4

LEMMA VectorIs ==
  ASSUME NEW words \in Seq(Words)
  PROVE  \E v \in [0..Len(words) -> Seq(Chars)] :
           /\ v[0] = <<>>
           /\ \A n \in 1..Len(words) : v[n] = VectorStep(v[n - 1], n, words)
           /\ to_tsvector(words) = v[Len(words)]
<1> DEFINE L == Len(words)
           Turned(d, n) == IF Repeated(words, n) THEN d
                           ELSE d \o (IF n = 1 THEN <<>> ELSE <<" ">>)
                                  \o <<"'">> \o Doubled(words[n]) \o <<"'", ":">> \o Positions(words, words[n])
           vector == CHOOSE f : f = [n \in 0..L |-> IF n = 0 THEN <<>> ELSE Turned(f[n - 1], n)]
           step == [p \in (0..L) \X Seq(Chars) |-> IF p[1] = 0 THEN <<>> ELSE VectorStep(p[2], p[1], words)]
<1>1. to_tsvector(words) = vector[L]
  BY DEF to_tsvector
<1>2. L \in Nat /\ 0 <= L /\ 0 \in Nat /\ <<>> \in Seq(Chars) /\ 0 \in 0..L
  OBVIOUS
<1>3. \A k \in 1..L, d \in Seq(Chars) : VectorStep(d, k, words) \in Seq(Chars)
  BY StepsTyped
<1>4. step \in [(0..L) \X Seq(Chars) -> Seq(Chars)]
  <2>1. \A k \in 0..L : k = 0 \/ k \in 1..L
    BY <1>2
  <2> QED
    BY <1>2, <1>3, <2>1
<1>5. \A k \in 1..L, d \in Seq(Chars) : step[<<k, d>>] = VectorStep(d, k, words)
  BY <1>2
<1>6. \A d, k : Turned(d, k) = VectorStep(d, k, words)
  BY DEF VectorStep
<1> HIDE DEF Turned, step, L
<1>7. PICK f \in [0..L -> Seq(Chars)] : Recursion(f, 0, L, <<>>, step)
  BY <1>2, <1>4, RecursionExists
<1>8. f = [n \in 0..L |-> IF n = 0 THEN <<>> ELSE Turned(f[n - 1], n)]
  <2>1. ASSUME NEW k \in 0..L, k # 0 PROVE f[k] = Turned(f[k - 1], k)
    <3>1. k - 1 \in 0..L /\ k \in 1..L
      BY <1>2, <2>1
    <3> QED
      BY <1>5, <1>6, <1>7, <2>1, <3>1 DEF Recursion
  <2>2. \A k \in 0..L : f[k] = IF k = 0 THEN <<>> ELSE Turned(f[k - 1], k)
    BY <1>7, <2>1 DEF Recursion
  <2> QED
    BY <2>2
<1>9. vector = [n \in 0..L |-> IF n = 0 THEN <<>> ELSE Turned(vector[n - 1], n)]
  BY <1>8
<1> HIDE DEF vector
<1>10. vector[0] = <<>> /\ \A k \in 1..L : vector[k] = VectorStep(vector[k - 1], k, words)
  <2>1. 0 \in 0..L /\ \A k \in 1..L : k \in 0..L /\ k # 0
    BY <1>2
  <2> QED
    BY <1>6, <1>9, <2>1
<1> DEFINE U == {k \in 0..L : vector[k] \in Seq(Chars)}
<1>11. \A k \in 0..L : k \in U
  <2>1. 0 \in U
    BY <1>2, <1>10
  <2>2. ASSUME NEW k \in (0 + 1)..L, k - 1 \in U PROVE k \in U
    <3>1. k \in 1..L /\ k \in 0..L
      BY <1>2
    <3> QED
      BY <1>3, <1>10, <2>2, <3>1
  <2> HIDE DEF U
  <2> QED
    BY <1>2, <2>1, <2>2, FromTo
<1>12. vector \in [0..L -> Seq(Chars)]
  BY <1>9, <1>11
<1> QED
  BY <1>1, <1>10, <1>12 DEF L

LEMMA HashedIs ==
  ASSUME NEW words \in Seq(Words)
  PROVE  \E h \in [0..Len(words) -> Phrases] :
           /\ h[0] = <<>>
           /\ \A n \in 1..Len(words) : h[n] = HashedStep(h[n - 1], n, words)
           /\ Hashed(words) = h[Len(words)]
<1> DEFINE L == Len(words)
           Turned(d, n) == IF Repeated(words, n) THEN d
                           ELSE d \o (IF n = 1 THEN <<>> ELSE <<PureText(" ")>>)
                                  \o <<PureText("'"), WordToEncrypt(words[n]), PureText("'"), PureText(":")>>
                                  \o [k \in DOMAIN Positions(words, words[n]) |->
                                        PureText(Positions(words, words[n])[k])]
           hashed == CHOOSE f : f = [n \in 0..L |-> IF n = 0 THEN <<>> ELSE Turned(f[n - 1], n)]
           step == [p \in (0..L) \X Phrases |-> IF p[1] = 0 THEN <<>> ELSE HashedStep(p[2], p[1], words)]
<1>1. Hashed(words) = hashed[L]
  BY DEF Hashed
<1>2. L \in Nat /\ 0 <= L /\ 0 \in Nat /\ <<>> \in Phrases /\ 0 \in 0..L
  BY DEF Phrases
<1>3. \A k \in 1..L, d \in Phrases : HashedStep(d, k, words) \in Phrases
  BY StepsTyped
<1>4. step \in [(0..L) \X Phrases -> Phrases]
  <2>1. \A k \in 0..L : k = 0 \/ k \in 1..L
    BY <1>2
  <2> QED
    BY <1>2, <1>3, <2>1
<1>5. \A k \in 1..L, d \in Phrases : step[<<k, d>>] = HashedStep(d, k, words)
  BY <1>2
<1>6. \A d, k : Turned(d, k) = HashedStep(d, k, words)
  BY DEF HashedStep, Copied
<1> HIDE DEF Turned, step, L
<1>7. PICK f \in [0..L -> Phrases] : Recursion(f, 0, L, <<>>, step)
  BY <1>2, <1>4, RecursionExists
<1>8. f = [n \in 0..L |-> IF n = 0 THEN <<>> ELSE Turned(f[n - 1], n)]
  <2>1. ASSUME NEW k \in 0..L, k # 0 PROVE f[k] = Turned(f[k - 1], k)
    <3>1. k - 1 \in 0..L /\ k \in 1..L
      BY <1>2, <2>1
    <3> QED
      BY <1>5, <1>6, <1>7, <2>1, <3>1 DEF Recursion
  <2>2. \A k \in 0..L : f[k] = IF k = 0 THEN <<>> ELSE Turned(f[k - 1], k)
    BY <1>7, <2>1 DEF Recursion
  <2> QED
    BY <2>2
<1>9. hashed = [n \in 0..L |-> IF n = 0 THEN <<>> ELSE Turned(hashed[n - 1], n)]
  BY <1>8
<1> HIDE DEF hashed
<1>10. hashed[0] = <<>> /\ \A k \in 1..L : hashed[k] = HashedStep(hashed[k - 1], k, words)
  <2>1. 0 \in 0..L /\ \A k \in 1..L : k \in 0..L /\ k # 0
    BY <1>2
  <2> QED
    BY <1>6, <1>9, <2>1
<1> DEFINE U == {k \in 0..L : hashed[k] \in Phrases}
<1>11. \A k \in 0..L : k \in U
  <2>1. 0 \in U
    BY <1>2, <1>10
  <2>2. ASSUME NEW k \in (0 + 1)..L, k - 1 \in U PROVE k \in U
    <3>1. k \in 1..L /\ k \in 0..L
      BY <1>2
    <3> QED
      BY <1>3, <1>10, <2>2, <3>1
  <2> HIDE DEF U
  <2> QED
    BY <1>2, <2>1, <2>2, FromTo
<1>12. hashed \in [0..L -> Phrases]
  BY <1>9, <1>11
<1> QED
  BY <1>1, <1>10, <1>12 DEF L

(* The reader finds every lexeme of a vector, and nothing else. *)
LEMMA VectorIsHashed ==
  ASSUME NEW words \in Seq(Words)
  PROVE  encrypt_tsvector(to_tsvector(words)) = Hashed(words)
<1> DEFINE L == Len(words)
<1>1. L \in Nat /\ 0 \in Nat /\ 0 \in 0..L /\ L \in 0..L
  OBVIOUS
<1>2. PICK v \in [0..L -> Seq(Chars)] :
        /\ v[0] = <<>>
        /\ \A n \in 1..L : v[n] = VectorStep(v[n - 1], n, words)
        /\ to_tsvector(words) = v[L]
  BY VectorIs
<1>3. PICK h \in [0..L -> Phrases] :
        /\ h[0] = <<>>
        /\ \A n \in 1..L : h[n] = HashedStep(h[n - 1], n, words)
        /\ Hashed(words) = h[L]
  BY HashedIs
<1> DEFINE T == {k \in 0..L : parse_vector(v[k]).mode = "Clear" /\ parse_vector(v[k]).phrase = h[k]}
<1>4. 0 \in T
  BY <1>1, <1>2, <1>3, ParsedNone DEF NewPhrase
<1>5. ASSUME NEW k \in (0 + 1)..L, k - 1 \in T PROVE k \in T
  <2>1. k \in 1..L /\ k \in 0..L /\ k - 1 \in 0..L
    BY <1>1
  <2>2. v[k] = VectorStep(v[k - 1], k, words) /\ h[k] = HashedStep(h[k - 1], k, words) /\ v[k - 1] \in Seq(Chars)
    BY <1>2, <1>3, <2>1
  <2>3. parse_vector(v[k - 1]).mode = "Clear" /\ parse_vector(v[k - 1]).phrase = h[k - 1]
    BY <1>5
  <2>4. parse_vector(v[k]).mode = "Clear" /\ parse_vector(v[k]).phrase = h[k]
    BY <2>1, <2>2, <2>3, EntryRead
  <2> QED
    BY <2>1, <2>4
<1> HIDE DEF T, L
<1>6. \A k \in 0..L : k \in T
  BY <1>1, <1>4, <1>5, FromTo
<1> QED
  BY <1>1, <1>2, <1>3, <1>6 DEF encrypt_tsvector, T

-----------------------------------------------------------------------------
(* The blocks *)

(* These are the words of a text up to i, between two words or at its end. *)
ReadTo(t, i, words) ==
  \/ Between(t, i) /\ words = Whole(t)[i].words
  \/ i = Len(t) /\ words = terminate_word(Whole(t)[Len(t)]).words

LEMMA WholeTyped ==
  ASSUME NEW t \in Seq(Graphemes), NEW i \in 0..Len(t)
  PROVE  Whole(t)[i].words \in Seq(Words) /\ terminate_word(Whole(t)[Len(t)]).words \in Seq(Words)
<1>1. Len(t) \in 0..Len(t)
  OBVIOUS
<1>2. Whole(t)[i] \in Loop /\ Whole(t)[Len(t)] \in Loop
  BY <1>1, WholeIs
<1>3. terminate_word(Whole(t)[Len(t)]) \in Loop
  BY <1>2, LoopTyped
<1> QED
  BY <1>2, <1>3 DEF Loop

LEMMA NothingRead ==
  ASSUME NEW t \in Seq(Graphemes)
  PROVE  ReadTo(t, 0, <<>>)
<1>1. Whole(t)[0] = NewBlock
  BY WholeIs
<1> QED
  BY <1>1 DEF ReadTo, Between, NewBlock

LEMMA ReadMore ==
  ASSUME NEW t \in Seq(Graphemes), NEW i \in 0..Len(t), NEW n \in Nat \ {0}, NEW words, ReadTo(t, i, words),
         NEW block, block = next_n_words(t, i, n)
  PROVE  /\ block.index \in 0..Len(t)
         /\ block.words \in Seq(Words)
         /\ ReadTo(t, block.index, words \o block.words)
         /\ words \in Seq(Words)
<1>1. words \in Seq(Words)
  BY WholeTyped DEF ReadTo
<1>2. CASE Between(t, i) /\ words = Whole(t)[i].words
  <2>1. /\ block.words \in Seq(Words)
        /\ block.index \in i..Len(t)
        /\ \/ /\ Between(t, block.index)
              /\ Whole(t)[block.index].words = Whole(t)[i].words \o block.words
           \/ /\ block.index = Len(t)
              /\ terminate_word(Whole(t)[Len(t)]).words = Whole(t)[i].words \o block.words
    BY <1>2, BlockWords
  <2>2. block.index \in 0..Len(t)
    <3>1. Len(t) \in Nat /\ i \in Nat
      OBVIOUS
    <3>2. block.index \in i..Len(t)
      BY <2>1
    <3>3. \A k \in i..Len(t) : k \in 0..Len(t)
      BY <3>1
    <3> QED
      BY <3>2, <3>3
  <2>3. \/ Between(t, block.index) /\ Whole(t)[block.index].words = words \o block.words
        \/ block.index = Len(t) /\ terminate_word(Whole(t)[Len(t)]).words = words \o block.words
    BY <1>2, <2>1
  <2>4. ReadTo(t, block.index, words \o block.words)
    BY <2>3 DEF ReadTo
  <2> QED
    BY <1>1, <2>1, <2>2, <2>4
<1>3. CASE i = Len(t) /\ words = terminate_word(Whole(t)[Len(t)]).words
  <2>1. block = [words |-> <<>>, index |-> Len(t)]
    BY <1>3, NoWordsAtTheEnd
  <2>2. words \o <<>> = words /\ <<>> \in Seq(Words)
    BY <1>1
  <2>3. block.words = <<>> /\ block.index = Len(t) /\ Len(t) \in 0..Len(t)
    BY <2>1
  <2>4. ReadTo(t, Len(t), words)
    BY <1>3 DEF ReadTo
  <2> QED
    BY <1>1, <2>2, <2>3, <2>4
<1> QED
  BY <1>2, <1>3 DEF ReadTo

LEMMA ReadIsPrefix ==
  ASSUME NEW t \in Seq(Graphemes), NEW i \in 0..Len(t), NEW words, ReadTo(t, i, words)
  PROVE  IsPrefix(words, next_n_words(t, 0, Len(t) + 1).words)
<1> DEFINE L == Len(t)
           A == Whole(t)
           s == Turns(t, i, L + 1)[L]
           all == terminate_word(A[L]).words
<1>1. L \in Nat /\ L + 1 \in Nat /\ L \in i..L /\ L \in 0..L
  OBVIOUS
<1>2. next_n_words(t, 0, L + 1).words = all
  BY DEF next_n_words, Whole
<1>3. words \in Seq(Words) /\ all \in Seq(Words) /\ A[i].words \in Seq(Words)
  BY WholeTyped DEF ReadTo
<1>4. \E rest \in Seq(Words) : all = words \o rest
  <2>1. CASE Between(t, i) /\ words = A[i].words
    <3>1. /\ i + s.counter \in i..L
          /\ Alike(s, A[i + s.counter], A[i].words)
          /\ s.stopped => s.counter >= L + 1
          /\ ~s.stopped => i + s.counter = L
      BY <1>1, <2>1, BlockFollows
    <3>2. s \in Loop /\ A[L] \in Loop
      BY <1>1, TurnsAre, WholeIs
    <3>3. s.counter \in Nat
      BY <3>2 DEF Loop
    <3> HIDE DEF s, A, L
    <3>4. ~(s.counter >= L + 1)
      BY <1>1, <3>1, <3>3
    <3>5. Alike(s, A[L], A[i].words)
      BY <3>1, <3>4
    <3>6. Alike(terminate_word(s), terminate_word(A[L]), A[i].words)
      BY <1>3, <3>2, <3>5, EndsAlike
    <3>7. terminate_word(s).words \in Seq(Words)
      BY <3>2, LoopTyped DEF Loop
    <3> QED
      BY <2>1, <3>6, <3>7 DEF Alike
  <2>2. CASE i = L /\ words = all
    <3>1. all = all \o <<>> /\ <<>> \in Seq(Words)
      BY <1>3
    <3> HIDE DEF all
    <3> QED
      BY <2>2, <3>1
  <2> QED
    BY <2>1, <2>2 DEF ReadTo
<1> HIDE DEF all
<1>5. PICK rest \in Seq(Words) : all = words \o rest
  BY <1>4
<1>6. Len(words) <= Len(all) /\ SubSeq(words, 1, Len(words)) = SubSeq(all, 1, Len(words))
  <2>1. Len(all) = Len(words) + Len(rest) /\ Len(rest) \in Nat /\ Len(words) \in Nat
    BY <1>3, <1>5
  <2>2. SubSeq(words \o rest, 1, Len(words)) = words /\ SubSeq(words, 1, Len(words)) = words
    BY <1>3, <1>5, SubSeqFull
  <2> QED
    BY <1>5, <2>1, <2>2
<1> QED
  BY <1>2, <1>6 DEF IsPrefix

(* The languages have different names. *)
LEMMA CodesAndNames ==
  /\ \A code : map_code(code) \in DOMAIN LANGUAGES
  /\ \A code \in DOMAIN LANGUAGES : lang_name_from_code_2(code) = LANGUAGES[code] /\ LANGUAGES[code] \in Names
  /\ \A c, d \in DOMAIN LANGUAGES : LANGUAGES[c] = LANGUAGES[d] => c = d
<1>1. \A c, d \in DOMAIN LANGUAGES : LANGUAGES[c] = LANGUAGES[d] => c = d
  BY DEF LANGUAGES
<1>2. "en" \in DOMAIN LANGUAGES /\ "fr" \in DOMAIN LANGUAGES
  BY DEF LANGUAGES
<1> HIDE DEF LANGUAGES
<1> QED
  BY <1>1, <1>2 DEF map_code, Known, lang_name_from_code_2, Names

-----------------------------------------------------------------------------
(* The parts *)

LEMMA LeftIs ==
  ASSUME NEW x \in Seq(Words), NEW y \in Seq(Words)
  PROVE  SubSeq(x \o y, Len(x) + 1, Len(x \o y)) = y
<1>1. Len(x) \in Nat /\ Len(y) \in Nat /\ Len(x \o y) = Len(x) + Len(y) /\ x \o y \in Seq(Words)
  OBVIOUS
<1> DEFINE z == SubSeq(x \o y, Len(x) + 1, Len(x \o y))
<1>2. z \in Seq(Words) /\ Len(z) = Len(y) /\ \A k \in 1..Len(y) : z[k] = y[k]
  <2>1. z \in Seq(Words) /\ Len(z) = Len(y)
    BY <1>1
  <2>2. ASSUME NEW k \in 1..Len(y) PROVE z[k] = y[k]
    BY <1>1
  <2> QED
    BY <2>1, <2>2
<1> HIDE DEF z
<1>3. z = y
  BY <1>2, SeqEqual
<1> QED
  BY <1>3 DEF z

LEMMA Cut ==
  ASSUME NEW y \in Seq(Words), NEW k \in 1..Len(y)
  PROVE  /\ SubSeq(y, 1, k) \in Seq(Words) \ {<<>>}
         /\ SubSeq(y, k + 1, Len(y)) \in Seq(Words)
         /\ y = SubSeq(y, 1, k) \o SubSeq(y, k + 1, Len(y))
<1> DEFINE a == SubSeq(y, 1, k)
           b == SubSeq(y, k + 1, Len(y))
<1>1. Len(y) \in Nat /\ k \in Nat /\ 1 <= k /\ k <= Len(y)
  OBVIOUS
<1>2. a \in Seq(Words) /\ Len(a) = k /\ \A j \in 1..k : a[j] = y[j]
  BY <1>1
<1>3. b \in Seq(Words) /\ Len(b) = Len(y) - k /\ \A j \in 1..(Len(y) - k) : b[j] = y[j + k]
  BY <1>1
<1> HIDE DEF a, b
<1>4. a # <<>>
  BY <1>1, <1>2
<1>5. a \o b \in Seq(Words) /\ Len(a \o b) = Len(y)
  <2>1. a \o b \in Seq(Words) /\ Len(a \o b) = Len(a) + Len(b)
    BY <1>2, <1>3, ConcatProperties
  <2>2. k + (Len(y) - k) = Len(y)
    BY <1>1
  <2> QED
    BY <1>2, <1>3, <2>1, <2>2
<1>6. ASSUME NEW j \in 1..Len(y) PROVE (a \o b)[j] = y[j]
  <2>1. CASE j <= k
    BY <1>1, <1>2, <1>3, <2>1
  <2>2. CASE j > k
    <3>1. (a \o b)[j] = b[j - k] /\ j - k \in 1..(Len(y) - k) /\ (j - k) + k = j
      BY <1>1, <1>2, <1>3, <2>2
    <3> QED
      BY <1>3, <3>1
  <2>3. j <= k \/ j > k
    OBVIOUS
  <2> QED
    BY <2>1, <2>2, <2>3
<1>7. a \o b = y
  BY <1>5, <1>6, SeqEqual
<1> QED
  BY <1>2, <1>3, <1>4, <1>7 DEF a, b

(* The rows with the numbers 0, 1, ... are found in this order. *)
LEMMA InOrderIs ==
  ASSUME NEW S, NEW rows \in Seq(S), \A n \in 1..Len(rows) : rows[n].part_no = n - 1
  PROVE  /\ Cardinality(ToSet(rows)) = Len(rows)
         /\ {row.part_no : row \in ToSet(rows)} = 0..(Len(rows) - 1)
         /\ InOrder(ToSet(rows)) = rows
<1> DEFINE L == Len(rows)
<1>1. L \in Nat /\ DOMAIN rows = 1..L /\ rows = [n \in 1..L |-> rows[n]]
  OBVIOUS
<1>2. ToSet(rows) = {rows[n] : n \in 1..L}
  BY <1>1 DEF ToSet
<1> HIDE DEF L
<1>3. \A n \in 1..L : rows[n].part_no = n - 1
  BY DEF L
<1>4. \A m, n \in 1..L : rows[m] = rows[n] => m = n
  <2> SUFFICES ASSUME NEW m \in 1..L, NEW n \in 1..L, rows[m] = rows[n] PROVE m = n
    OBVIOUS
  <2>1. m - 1 = n - 1 /\ m \in Nat /\ n \in Nat
    BY <1>1, <1>3
  <2> QED
    BY <2>1
<1>5. Cardinality(ToSet(rows)) = L
  <2> DEFINE f == [n \in 1..L |-> rows[n]]
  <2>1. f \in Bijection(1..L, ToSet(rows))
    BY <1>2, <1>4 DEF Bijection, Injection, Surjection, IsInjective
  <2> HIDE DEF f
  <2>2. ExistsBijection(1..L, ToSet(rows))
    BY <2>1 DEF ExistsBijection
  <2>3. IsFiniteSet(1..L) /\ Cardinality(1..L) = L
    BY <1>1, FS_Interval
  <2> QED
    BY <2>2, <2>3, FS_Bijection
<1>6. {row.part_no : row \in ToSet(rows)} = 0..(L - 1)
  <2>1. ASSUME NEW row \in ToSet(rows) PROVE row.part_no \in 0..(L - 1)
    BY <1>1, <1>2, <1>3
  <2>2. ASSUME NEW k \in 0..(L - 1) PROVE \E row \in ToSet(rows) : row.part_no = k
    <3>1. k + 1 \in 1..L /\ (k + 1) - 1 = k
      BY <1>1
    <3>2. rows[k + 1] \in ToSet(rows) /\ rows[k + 1].part_no = k
      BY <1>2, <1>3, <3>1
    <3> QED
      BY <3>2
  <2> QED
    BY <2>1, <2>2
<1>7. ASSUME NEW n \in 1..L PROVE (CHOOSE row \in ToSet(rows) : row.part_no = n - 1) = rows[n]
  <2>1. rows[n] \in ToSet(rows) /\ rows[n].part_no = n - 1
    BY <1>2, <1>3
  <2>2. ASSUME NEW row \in ToSet(rows), row.part_no = n - 1 PROVE row = rows[n]
    <3>1. PICK m \in 1..L : row = rows[m]
      BY <1>2
    <3>2. m - 1 = n - 1 /\ m \in Nat /\ n \in Nat
      BY <1>1, <1>3, <2>2, <3>1
    <3> QED
      BY <3>1, <3>2
  <2> QED
    BY <2>1, <2>2
<1>8. InOrder(ToSet(rows)) = rows
  <2>1. InOrder(ToSet(rows)) = [n \in 1..L |-> CHOOSE row \in ToSet(rows) : row.part_no = n - 1]
    BY <1>5 DEF InOrder
  <2>2. [n \in 1..L |-> CHOOSE row \in ToSet(rows) : row.part_no = n - 1] = [n \in 1..L |-> rows[n]]
    BY <1>7
  <2> QED
    BY <1>1, <2>1, <2>2
<1> QED
  BY <1>5, <1>6, <1>8 DEF L

-----------------------------------------------------------------------------
(* The inductive invariant *)

Block == [words : Seq(Words) \ {<<>>}, lang : Names]
Part == [lang : Names, part_no : Nat, words : Seq(Words) \ {<<>>}, tsv : Phrases]

Stages == {"session", "blocks", "parts", "commit", "replied"}
Replies == [status : {0, 200, 401, 500}, part_count : Nat]

(* The words of a language in the blocks, and whether the parts have them *)
Found(code) == WordsOf(blocks, {LANGUAGES[code]})
Complete == \A code \in DOMAIN LANGUAGES : Inserted(code) = Found(code)

Typed ==
  /\ stage \in Stages
  /\ text \in Seq(Graphemes)
  /\ blocks \in Seq(Block)
  /\ parts \in Seq(Part)
  /\ reply \in Replies

(* The blocks end between two words, or with the text.  After a failure of *)
(* Tika index has gone on, the blocks have not.                            *)
BlocksRead ==
  /\ index \in 0..Len(text)
  /\ \E i \in 0..Len(text) : ReadTo(text, i, WordsOf(blocks, Names))
  /\ stage # "replied" => ReadTo(text, index, WordsOf(blocks, Names))

(* The buffer holds the words of the blocks, by language. *)
Collected ==
  /\ DOMAIN language_buffer_block \subseteq DOMAIN LANGUAGES
  /\ \A code \in DOMAIN LANGUAGES :
       Found(code) = IF code \in DOMAIN language_buffer_block THEN language_buffer_block[code] ELSE <<>>
  /\ blocks # <<>> => \E code \in DOMAIN LANGUAGES : Found(code) # <<>>

(* The parts hold the first words of each language, before COMMIT all. *)
Divided ==
  /\ \A n \in 1..Len(parts) : parts[n].part_no = n - 1 /\ parts[n].tsv = Hashed(parts[n].words)
  /\ stage \in {"session", "blocks"} => parts = <<>>
  /\ \A code \in DOMAIN LANGUAGES : \E left \in Seq(Words) : Found(code) = Inserted(code) \o left
  /\ stage = "commit" => Complete

(* The table has all the parts or none. *)
Stored ==
  /\ stage # "replied" => document = {} /\ reply = NoReply
  /\ document # {} => document = ToSet(parts) /\ Complete
  /\ reply.status = 200 => document = ToSet(parts) /\ reply.part_count = Len(parts) /\ Complete

IInv == Typed /\ BlocksRead /\ Collected /\ Divided /\ Stored

LEMMA BlocksHaveWords == \A x \in Block : x.words \in Seq(Words) /\ x.words # <<>>
BY DEF Block

LEMMA WordsConcat ==
  \A x, y, z \in Seq(Words) : x \o (y \o z) = (x \o y) \o z
BY ConcatAssociative

LEMMA WordsOfOneBlockMore ==
  ASSUME NEW rows \in Seq(Block), NEW row \in Block, NEW languages
  PROVE  /\ WordsOf(rows, languages) \in Seq(Words)
         /\ WordsOf(Append(rows, row), languages) =
              IF row.lang \in languages THEN WordsOf(rows, languages) \o row.words ELSE WordsOf(rows, languages)
<1>1. \A x \in Block : x.words \in Seq(Words)
  BY BlocksHaveWords
<1> QED
  BY <1>1, WordsOfMore

LEMMA PartsHaveWords == \A x \in Part : x.words \in Seq(Words) /\ x.words # <<>>
BY DEF Part

LEMMA FoundTyped ==
  ASSUME NEW b \in Seq(Block), NEW p \in Seq(Part), NEW languages
  PROVE  WordsOf(b, languages) \in Seq(Words) /\ WordsOf(p, languages) \in Seq(Words)
<1>1. PICK w \in [0..Len(b) -> Seq(Words)] : WordsOf(b, languages) = w[Len(b)]
  BY BlocksHaveWords, WordsOfIs
<1>2. PICK v \in [0..Len(p) -> Seq(Words)] : WordsOf(p, languages) = v[Len(p)]
  BY PartsHaveWords, WordsOfIs
<1>3. Len(b) \in 0..Len(b) /\ Len(p) \in 0..Len(p)
  OBVIOUS
<1> QED
  BY <1>1, <1>2, <1>3

LEMMA InitIInv == Init => IInv
<1> SUFFICES ASSUME Init PROVE IInv
  OBVIOUS
<1> USE DEF Init
<1>1. text \in Seq(Graphemes)
  BY FullTextAssumption
<1>2. Typed
  BY <1>1 DEF Typed, Stages, Replies, NoReply
<1>3. \A languages : WordsOf(<<>>, languages) = <<>>
  BY WordsOfNone
<1>4. BlocksRead
  <2>1. 0 \in 0..Len(text)
    BY <1>1
  <2> QED
    BY <1>1, <1>3, <2>1, NothingRead DEF BlocksRead
<1>5. Collected
  BY <1>3 DEF Collected, Found
<1>6. Divided
  <2>1. <<>> = <<>> \o <<>> /\ <<>> \in Seq(Words) /\ 1..Len(<<>>) = {}
    OBVIOUS
  <2> QED
    BY <1>3, <2>1 DEF Divided, Found, Inserted
<1>7. Stored
  BY DEF Stored, NoReply
<1> QED
  BY <1>2, <1>4, <1>5, <1>6, <1>7 DEF IInv

LEMMA StutterKeeps == IInv /\ UNCHANGED vars => IInv'
<1> SUFFICES ASSUME IInv, UNCHANGED vars PROVE IInv'
  OBVIOUS
<1> USE DEF IInv, vars
<1>1. Typed'
  BY DEF Typed
<1>2. BlocksRead'
  BY DEF BlocksRead
<1>3. Collected'
  BY DEF Collected, Found
<1>4. Divided'
  <2>1. \A code : Found(code)' = Found(code) /\ Inserted(code)' = Inserted(code)
    BY DEF Found, Inserted
  <2>2. parts' = parts /\ (stage' \in {"session", "blocks"} => stage \in {"session", "blocks"})
        /\ (stage' = "commit" => stage = "commit")
    OBVIOUS
  <2>3. \A code \in DOMAIN LANGUAGES : \E left \in Seq(Words) : Found(code)' = Inserted(code)' \o left
    BY <2>1 DEF Divided
  <2>4. Complete => Complete'
    BY <2>1 DEF Complete
  <2> QED
    BY <2>2, <2>3, <2>4 DEF Divided
<1>5. Stored'
  BY DEF Stored, Found, Complete, Inserted
<1> QED
  BY <1>1, <1>2, <1>3, <1>4, <1>5

LEMMA BeginKeeps == IInv /\ Begin => IInv'
<1> SUFFICES ASSUME IInv, Begin PROVE IInv'
  OBVIOUS
<1>0. Typed /\ BlocksRead /\ Collected /\ Divided /\ Stored
  BY DEF IInv
<1> USE DEF IInv, Begin, Go, Reply, Failure, NoReply
<1>1. Typed'
  <2>1. stage' \in {"blocks", "replied"}
    OBVIOUS
  <2>2. \/ reply' = reply
        \/ reply'.status \in {401, 500} /\ reply'.part_count = 0 /\ reply' \in Replies
    BY DEF Replies
  <2>3. reply' \in Replies
    BY <1>0, <2>2 DEF Typed
  <2> QED
    BY <1>0, <2>1, <2>3 DEF Typed, Stages
<1>2. BlocksRead'
  BY DEF BlocksRead
<1>3. Collected'
  BY DEF Collected, Found
<1>4. Divided'
  <2>1. \A code : Found(code)' = Found(code) /\ Inserted(code)' = Inserted(code)
    BY DEF Found, Inserted
  <2>2. parts' = parts /\ (stage' \in {"session", "blocks"} => stage \in {"session", "blocks"})
        /\ (stage' = "commit" => stage = "commit")
    OBVIOUS
  <2>3. \A code \in DOMAIN LANGUAGES : \E left \in Seq(Words) : Found(code)' = Inserted(code)' \o left
    BY <2>1 DEF Divided
  <2>4. Complete => Complete'
    BY <2>1 DEF Complete
  <2> QED
    BY <2>2, <2>3, <2>4 DEF Divided
<1>5. Stored'
  BY DEF Stored, Typed, Replies
<1> QED
  BY <1>1, <1>2, <1>3, <1>4, <1>5

LEMMA ReadBlockKeeps == IInv /\ ReadBlock => IInv'
<1> SUFFICES ASSUME IInv, ReadBlock PROVE IInv'
  OBVIOUS
<1> USE DEF IInv
<1> DEFINE block == next_n_words(text, index, FINESSE_LANGUAGE_BLOCK)
           words == WordsOf(blocks, Names)
<1>1. /\ text \in Seq(Graphemes) /\ index \in 0..Len(text) /\ FINESSE_LANGUAGE_BLOCK \in Nat \ {0}
      /\ ReadTo(text, index, words) /\ blocks \in Seq(Block) /\ parts = <<>> /\ stage = "blocks"
      /\ document = {} /\ reply = NoReply /\ Len(text) \in Nat
  BY FullTextAssumption DEF ReadBlock, Typed, BlocksRead, Divided, Stored
<1>2. block.words # <<>> /\ index' = block.index /\ UNCHANGED <<text, parts, document>>
  BY DEF ReadBlock
<1>3. /\ block.index \in 0..Len(text) /\ block.words \in Seq(Words)
      /\ ReadTo(text, block.index, words \o block.words)
  BY <1>1, ReadMore
<1>4. ASSUME stage' = "replied", reply' = Failure, UNCHANGED <<blocks, language_buffer_block>>
      PROVE  IInv'
  <2>1. Typed'
    BY <1>2, <1>4 DEF Typed, Stages, Replies, Failure
  <2>2. BlocksRead'
    BY <1>1, <1>2, <1>3, <1>4 DEF BlocksRead
  <2>3. Collected'
    BY <1>2, <1>4 DEF Collected, Found
  <2>4. Divided'
    BY <1>1, <1>2, <1>4 DEF Divided, Found, Complete, Inserted
  <2>5. Stored'
    BY <1>1, <1>2, <1>4 DEF Stored, Failure
  <2> QED
    BY <2>1, <2>2, <2>3, <2>4, <2>5
<1>5. ASSUME NEW code, stage' = "blocks", reply' = reply, language_buffer_block' = AddWords(map_code(code), block.words),
             blocks' = Append(blocks, [words |-> block.words, lang |-> lang_name_from_code_2(map_code(code))])
      PROVE  IInv'
  <2> DEFINE c == map_code(code)
             row == [words |-> block.words, lang |-> LANGUAGES[c]]
  <2>1. c \in DOMAIN LANGUAGES /\ LANGUAGES[c] \in Names /\ blocks' = Append(blocks, row)
        /\ language_buffer_block' = AddWords(c, block.words)
    BY <1>5, CodesAndNames
  <2> HIDE DEF c
  <2>2. row \in Block /\ row.lang = LANGUAGES[c] /\ row.words = block.words
    BY <1>2, <1>3, <2>1 DEF Block
  <2> HIDE DEF row, block
  <2>3. blocks' \in Seq(Block)
    BY <1>1, <2>1, <2>2, AppendProperties
  <2>4. \A languages : /\ WordsOf(blocks, languages) \in Seq(Words)
                       /\ WordsOf(blocks', languages) = IF LANGUAGES[c] \in languages
                                                        THEN WordsOf(blocks, languages) \o block.words
                                                        ELSE WordsOf(blocks, languages)
    <3>1. ASSUME NEW languages
          PROVE  /\ WordsOf(blocks, languages) \in Seq(Words)
                 /\ WordsOf(Append(blocks, row), languages) = IF row.lang \in languages
                                                  THEN WordsOf(blocks, languages) \o row.words
                                                  ELSE WordsOf(blocks, languages)
      <4>1. blocks \in Seq(Block) /\ row \in Block
        BY <1>1, <2>2
      <4> QED
        BY <4>1, WordsOfOneBlockMore
    <3> QED
      BY <2>1, <2>2, <3>1
  <2>5. Typed'
    BY <1>2, <1>5, <2>3 DEF Typed, Stages
  <2>6. BlocksRead'
    <3>1. WordsOf(blocks', Names) = words \o block.words
      BY <2>1, <2>4
    <3> HIDE DEF words
    <3> QED
      BY <1>2, <1>3, <3>1 DEF BlocksRead
  <2>7. \A d \in DOMAIN LANGUAGES :
          /\ Found(d) \in Seq(Words)
          /\ WordsOf(blocks', {LANGUAGES[d]}) = IF d = c THEN Found(d) \o block.words ELSE Found(d)
    BY <2>1, <2>4, CodesAndNames DEF Found
  <2>8. Collected'
    <3>1. /\ DOMAIN language_buffer_block \subseteq DOMAIN LANGUAGES
          /\ \A d \in DOMAIN LANGUAGES :
               Found(d) = IF d \in DOMAIN language_buffer_block THEN language_buffer_block[d] ELSE <<>>
      BY DEF Collected
    <3>2. DOMAIN language_buffer_block' = DOMAIN language_buffer_block \cup {c}
      BY <2>1 DEF AddWords
    <3>3. ASSUME NEW d \in DOMAIN LANGUAGES, d \in DOMAIN language_buffer_block \cup {c}
          PROVE  language_buffer_block'[d] = IF d = c THEN Found(d) \o block.words ELSE Found(d)
      <4>1. language_buffer_block'[d] = Found(d) \o (IF d = c THEN block.words ELSE <<>>)
        BY <2>1, <3>1, <3>3 DEF AddWords
      <4>2. Found(d) \o <<>> = Found(d)
        BY <2>7
      <4> QED
        BY <4>1, <4>2
    <3>4. \A d \in DOMAIN LANGUAGES :
            WordsOf(blocks', {LANGUAGES[d]})
              = IF d \in DOMAIN language_buffer_block' THEN language_buffer_block'[d] ELSE <<>>
      BY <2>7, <3>1, <3>2, <3>3
    <3>5. WordsOf(blocks', {LANGUAGES[c]}) # <<>>
      <4>1. \A x, y \in Seq(Words) : y # <<>> => x \o y # <<>>
        OBVIOUS
      <4> QED
        BY <1>2, <1>3, <2>1, <2>7, <4>1
    <3> HIDE DEF words
    <3> QED
      BY <2>1, <3>1, <3>2, <3>4, <3>5 DEF Collected, Found
  <2>9. Divided'
    <3>1. \A d \in DOMAIN LANGUAGES : WordsOf(blocks', {LANGUAGES[d]}) \in Seq(Words)
      <4>1. ASSUME NEW x \in Seq(Words), NEW y \in Seq(Words) PROVE x \o y \in Seq(Words)
        OBVIOUS
      <4> HIDE DEF words
      <4> QED
        BY <1>3, <2>7, <4>1
    <3>2. \A x \in Seq(Words) : x = <<>> \o x
      OBVIOUS
    <3>3. \A languages : WordsOf(<<>>, languages) = <<>>
      BY WordsOfNone
    <3>4. parts' = <<>> /\ 1..Len(<<>>) = {} /\ stage' # "commit"
      BY <1>1, <1>2, <1>5
    <3>5. ASSUME NEW d \in DOMAIN LANGUAGES
          PROVE  \E left \in Seq(Words) : WordsOf(blocks', {LANGUAGES[d]}) = WordsOf(parts', {LANGUAGES[d]}) \o left
      <4>1. WordsOf(parts', {LANGUAGES[d]}) = <<>>
        BY <3>3, <3>4
      <4>2. WordsOf(blocks', {LANGUAGES[d]}) = <<>> \o WordsOf(blocks', {LANGUAGES[d]})
        BY <3>1, <3>2
      <4> QED
        BY <3>1, <4>1, <4>2
    <3> HIDE DEF words
    <3> QED
      BY <3>4, <3>5 DEF Divided, Found, Inserted
  <2>10. Stored'
    BY <1>1, <1>2, <1>5 DEF Stored, NoReply
  <2> QED
    BY <2>5, <2>6, <2>8, <2>9, <2>10
<1> QED
  BY <1>4, <1>5 DEF ReadBlock, Go, Reply

LEMMA EmptyBlockKeeps == IInv /\ EmptyBlock => IInv'
<1> SUFFICES ASSUME IInv, EmptyBlock PROVE IInv'
  OBVIOUS
<1> USE DEF IInv
<1> DEFINE block == next_n_words(text, index, FINESSE_LANGUAGE_BLOCK)
           words == WordsOf(blocks, Names)
<1>1. /\ text \in Seq(Graphemes) /\ index \in 0..Len(text) /\ FINESSE_LANGUAGE_BLOCK \in Nat \ {0}
      /\ ReadTo(text, index, words) /\ stage = "blocks"
  BY FullTextAssumption DEF EmptyBlock, Typed, BlocksRead
<1>2. /\ block.words = <<>> /\ index' = block.index /\ stage' = "parts"
      /\ UNCHANGED <<text, blocks, language_buffer_block, parts, document, reply>>
  BY DEF EmptyBlock, Go
<1>3. /\ block.index \in 0..Len(text)
      /\ ReadTo(text, block.index, words \o block.words)
      /\ words \in Seq(Words)
  BY <1>1, ReadMore
<1>4. words \o <<>> = words
  BY <1>3
<1> HIDE DEF block
<1>5. Typed'
  BY <1>2 DEF Typed, Stages
<1>6. BlocksRead'
  BY <1>2, <1>3, <1>4 DEF BlocksRead
<1>7. Collected'
  BY <1>2 DEF Collected, Found
<1>8. Divided'
  BY <1>1, <1>2 DEF Divided, Found, Complete, Inserted
<1>9. Stored'
  BY <1>1, <1>2 DEF Stored, NoReply, Complete, Found, Inserted
<1> QED
  BY <1>5, <1>6, <1>7, <1>8, <1>9

LEMMA InsertPartKeeps == IInv /\ InsertPart => IInv'
<1> SUFFICES ASSUME IInv, InsertPart PROVE IInv'
  OBVIOUS
<1> USE DEF IInv
<1>1. /\ stage = "parts" /\ parts \in Seq(Part) /\ blocks \in Seq(Block) /\ document = {} /\ reply = NoReply
      /\ UNCHANGED <<text, index, blocks, language_buffer_block, document>>
  BY DEF InsertPart, Typed, Stored
<1>2. /\ Typed' <=> stage' \in Stages /\ parts' \in Seq(Part) /\ reply' \in Replies
      /\ BlocksRead'
      /\ Collected'
  <2>1. stage # "replied"
    BY <1>1
  <2>2. Typed' <=> stage' \in Stages /\ parts' \in Seq(Part) /\ reply' \in Replies
    BY <1>1 DEF Typed
  <2>3. BlocksRead'
    BY <1>1, <2>1 DEF BlocksRead
  <2>4. Collected'
    BY <1>1 DEF Collected, Found
  <2> QED
    BY <2>2, <2>3, <2>4
<1>3. ASSUME stage' = "replied", reply' = Failure, UNCHANGED parts PROVE IInv'
  <2>1. Typed'
    BY <1>2, <1>3 DEF Typed, Stages, Replies, Failure
  <2>2. Divided'
    BY <1>1, <1>3 DEF Divided, Found, Complete, Inserted
  <2>3. Stored'
    BY <1>1, <1>3 DEF Stored, Failure
  <2> QED
    BY <1>2, <2>1, <2>2, <2>3
<1>4. ASSUME NEW code \in DOMAIN language_buffer_block, Left(code) # <<>>, stage' = "parts", reply' = reply,
             parts' = Append(parts, Row(code, Len(parts), SubSeq(Left(code), 1, PartLength(Left(code)))))
      PROVE  IInv'
  <2>1. /\ code \in DOMAIN LANGUAGES
        /\ Found(code) = language_buffer_block[code]
    BY DEF Collected
  <2>2. PICK left \in Seq(Words) : Found(code) = Inserted(code) \o left
    BY <2>1 DEF Divided
  <2>3. \A languages : WordsOf(parts, languages) \in Seq(Words)
    BY <1>1, FoundTyped
  <2>4. Left(code) = left
    <3>1. Inserted(code) \in Seq(Words)
      BY <2>3 DEF Inserted
    <3>2. SubSeq(Inserted(code) \o left, Len(Inserted(code)) + 1, Len(Inserted(code) \o left)) = left
      BY <3>1, LeftIs
    <3> QED
      BY <2>1, <2>2, <3>2 DEF Left
  <2> DEFINE k == PartLength(left)
             words == SubSeq(left, 1, k)
             rest == SubSeq(left, k + 1, Len(left))
             row == Row(code, Len(parts), words)
  <2>5. words \in Seq(Words) \ {<<>>} /\ rest \in Seq(Words) /\ left = words \o rest
    <3>1. k \in 1..Len(left)
      BY <1>4, <2>4, PartLengthFits
    <3> QED
      BY <3>1, Cut
  <2>6. parts' = Append(parts, row)
    BY <1>4, <2>4
  <2> HIDE DEF words, rest
  <2>7. /\ row \in Part /\ row.lang = LANGUAGES[code] /\ row.words = words
        /\ row.part_no = Len(parts) /\ row.tsv = Hashed(words)
    <3>1. lang_name_from_code_2(code) = LANGUAGES[code] /\ LANGUAGES[code] \in Names
      BY <2>1, CodesAndNames
    <3>2. encrypt_tsvector(to_tsvector(words)) = Hashed(words)
      BY <2>5, VectorIsHashed
    <3>3. Hashed(words) \in Phrases
      <4>1. PICK h \in [0..Len(words) -> Phrases] : Hashed(words) = h[Len(words)]
        BY <2>5, HashedIs
      <4>2. Len(words) \in 0..Len(words)
        BY <2>5
      <4> QED
        BY <4>1, <4>2
    <3>4. Len(parts) \in Nat
      BY <1>1
    <3> QED
      BY <2>5, <3>1, <3>2, <3>3, <3>4 DEF Part, Row
  <2> HIDE DEF row
  <2>8. parts' \in Seq(Part) /\ Len(parts') = Len(parts) + 1 /\ Len(parts) \in Nat
        /\ parts'[Len(parts) + 1] = row /\ \A n \in 1..Len(parts) : parts'[n] = parts[n]
    BY <1>1, <2>6, <2>7, AppendProperties
  <2>9. \A languages : WordsOf(parts', languages) = IF LANGUAGES[code] \in languages
                                                    THEN WordsOf(parts, languages) \o words
                                                    ELSE WordsOf(parts, languages)
    <3>1. ASSUME NEW languages
          PROVE  WordsOf(Append(parts, row), languages) = IF row.lang \in languages
                                                          THEN WordsOf(parts, languages) \o row.words
                                                          ELSE WordsOf(parts, languages)
      <4>1. parts \in Seq(Part)
        BY <1>1
      <4>2. row \in Part
        BY <2>7
      <4>3. \A x \in Part : x.words \in Seq(Words)
        BY PartsHaveWords
      <4> QED
        BY <4>1, <4>2, <4>3, WordsOfMore
    <3> QED
      BY <2>6, <2>7, <3>1
  <2>10. Typed'
    BY <1>2, <1>4, <2>8 DEF Stages, Typed
  <2>11. Divided'
    <3>1. \A n \in 1..Len(parts') : parts'[n].part_no = n - 1 /\ parts'[n].tsv = Hashed(parts'[n].words)
      <4>1. \A n \in 1..Len(parts) : parts[n].part_no = n - 1 /\ parts[n].tsv = Hashed(parts[n].words)
        BY DEF Divided
      <4>2. \A n \in 1..(Len(parts) + 1) : n \in 1..Len(parts) \/ n = Len(parts) + 1
        BY <2>8
      <4>3. (Len(parts) + 1) - 1 = Len(parts)
        BY <2>8
      <4> QED
        BY <2>7, <2>8, <4>1, <4>2, <4>3
    <3>2. ASSUME NEW d \in DOMAIN LANGUAGES
          PROVE  \E more \in Seq(Words) : Found(d) = WordsOf(parts', {LANGUAGES[d]}) \o more
      <4>1. CASE d = code
        <5>1. WordsOf(parts', {LANGUAGES[d]}) = Inserted(d) \o words
          BY <2>9, <4>1 DEF Inserted
        <5>2. Inserted(d) \in Seq(Words)
          BY <2>3 DEF Inserted
        <5>3. Inserted(d) \o (words \o rest) = (Inserted(d) \o words) \o rest
          <6>1. words \in Seq(Words) /\ rest \in Seq(Words)
            BY <2>5
          <6> QED
            BY <5>2, <6>1, WordsConcat
        <5> QED
          BY <2>2, <2>5, <4>1, <5>1, <5>3
      <4>2. CASE d # code
        <5>1. WordsOf(parts', {LANGUAGES[d]}) = Inserted(d)
          BY <2>1, <2>9, <4>2, CodesAndNames DEF Inserted
        <5> QED
          BY <5>1 DEF Divided
      <4> QED
        BY <4>1, <4>2
    <3> QED
      BY <1>1, <1>4, <3>1, <3>2 DEF Divided, Found, Inserted
  <2>12. Stored'
    BY <1>1, <1>4 DEF Stored, NoReply
  <2> QED
    BY <1>2, <2>10, <2>11, <2>12
<1> QED
  BY <1>3, <1>4 DEF InsertPart, InTurn, Go, Reply

LEMMA NoPartLeftKeeps == IInv /\ NoPartLeft => IInv'
<1> SUFFICES ASSUME IInv, NoPartLeft PROVE IInv'
  OBVIOUS
<1> USE DEF IInv
<1>1. /\ stage = "parts" /\ stage' = "commit"
      /\ UNCHANGED <<text, index, blocks, language_buffer_block, parts, document, reply>>
      /\ \A code \in DOMAIN language_buffer_block : Left(code) = <<>>
  BY DEF NoPartLeft, Go
<1>2. Complete
  <2> SUFFICES ASSUME NEW code \in DOMAIN LANGUAGES PROVE Inserted(code) = Found(code)
    BY DEF Complete
  <2>1. PICK left \in Seq(Words) : Found(code) = Inserted(code) \o left
    BY DEF Divided
  <2>2. Inserted(code) \in Seq(Words)
    <3>1. parts \in Seq(Part) /\ blocks \in Seq(Block)
      BY DEF Typed
    <3> QED
      BY <3>1, FoundTyped DEF Inserted
  <2>3. CASE code \in DOMAIN language_buffer_block
    <3>1. language_buffer_block[code] = Inserted(code) \o left /\ Left(code) = <<>>
      BY <1>1, <2>1, <2>3 DEF Collected
    <3>2. SubSeq(Inserted(code) \o left, Len(Inserted(code)) + 1, Len(Inserted(code) \o left)) = left
      BY <2>2, LeftIs
    <3>3. left = <<>>
      BY <3>1, <3>2 DEF Left
    <3> QED
      BY <2>1, <2>2, <3>3
  <2>4. CASE code \notin DOMAIN language_buffer_block
    <3>1. Inserted(code) \o left = <<>>
      BY <2>1, <2>4 DEF Collected
    <3>2. \A x, y \in Seq(Words) : x \o y = <<>> => x = <<>>
      OBVIOUS
    <3> QED
      BY <2>1, <2>2, <3>1, <3>2
  <2> QED
    BY <2>3, <2>4
<1>3. Typed'
  BY <1>1 DEF Typed, Stages
<1>4. BlocksRead'
  BY <1>1 DEF BlocksRead
<1>5. Collected'
  BY <1>1 DEF Collected, Found
<1>6. Complete'
  BY <1>1, <1>2 DEF Complete, Found, Inserted
<1>7. Divided'
  BY <1>1, <1>6 DEF Divided, Found, Inserted
<1>8. Stored'
  BY <1>1 DEF Stored, NoReply
<1> QED
  BY <1>3, <1>4, <1>5, <1>7, <1>8

LEMMA CommitKeeps == IInv /\ Commit => IInv'
<1> SUFFICES ASSUME IInv, Commit PROVE IInv'
  OBVIOUS
<1> USE DEF IInv
<1>1. /\ stage = "commit" /\ document = {} /\ UNCHANGED <<text, index, blocks, language_buffer_block, parts>>
      /\ parts \in Seq(Part) /\ Len(parts) \in Nat
  BY DEF Commit, Typed, Stored
<1>2. /\ stage' = "replied"
      /\ \/ reply' = [status |-> 200, part_count |-> Len(parts)] /\ document' = ToSet(parts)
         \/ reply' = Failure /\ (document' = ToSet(parts) \/ document' = {})
  BY <1>1 DEF Commit, Reply
<1>3. Complete'
  BY <1>1 DEF Divided, Complete, Found, Inserted
<1>4. Typed'
  BY <1>1, <1>2 DEF Typed, Stages, Replies, Failure
<1>5. BlocksRead'
  BY <1>1, <1>2 DEF BlocksRead
<1>6. Collected'
  BY <1>1 DEF Collected, Found
<1>7. Divided'
  BY <1>1, <1>2, <1>3 DEF Divided, Found, Inserted
<1>8. Stored'
  BY <1>1, <1>2, <1>3 DEF Stored, Failure
<1> QED
  BY <1>4, <1>5, <1>6, <1>7, <1>8

-----------------------------------------------------------------------------
(* The theorems *)

LEMMA Invariant == Spec => []IInv
<1>1. Init => IInv
  BY InitIInv
<1>2. IInv /\ [Next]_vars => IInv'
  <2> SUFFICES ASSUME IInv, [Next]_vars PROVE IInv'
    OBVIOUS
  <2>1. CASE UNCHANGED vars
    BY <2>1, StutterKeeps
  <2>2. CASE Begin
    BY <2>2, BeginKeeps
  <2>3. CASE ReadBlock
    BY <2>3, ReadBlockKeeps
  <2>4. CASE EmptyBlock
    BY <2>4, EmptyBlockKeeps
  <2>5. CASE InsertPart
    BY <2>5, InsertPartKeeps
  <2>6. CASE NoPartLeft
    BY <2>6, NoPartLeftKeeps
  <2>7. CASE Commit
    BY <2>7, CommitKeeps
  <2> QED
    BY <2>1, <2>2, <2>3, <2>4, <2>5, <2>6, <2>7 DEF Next, Step, Done
<1> QED
  BY <1>1, <1>2, PTL DEF Spec

(***************************************************************************)
(* The stage is one of the request's, the blocks and the rows have words,  *)
(* the languages are those of language.rs, and the reply one of its four.  *)
(***************************************************************************)
THEOREM TypeCorrect == Spec => []TypeOK
<1>1. IInv => TypeOK
  <2> SUFFICES ASSUME IInv PROVE TypeOK
    OBVIOUS
  <2> USE DEF IInv
  <2>1. stage \in Stages /\ reply.status \in {0, 200, 401, 500} /\ reply.part_count \in Nat
    BY DEF Typed, Replies
  <2>2. \A n \in DOMAIN blocks : blocks[n].lang \in Names /\ blocks[n].words # <<>>
    <3>1. \A n \in DOMAIN blocks : blocks[n] \in Block
      BY DEF Typed
    <3> QED
      BY <3>1 DEF Block
  <2>3. \A row \in ToSet(parts) : IsRow(row)
    <3>1. \A n \in DOMAIN parts : parts[n] \in Part
      BY DEF Typed
    <3>2. \A row \in Part : IsRow(row)
      BY DEF Part, IsRow
    <3> QED
      BY <3>1, <3>2 DEF ToSet
  <2>4. document = {} \/ document = ToSet(parts)
    BY DEF Stored
  <2> QED
    BY <2>1, <2>2, <2>3, <2>4 DEF TypeOK, BlocksRead, Collected, Stages
<1> QED
  BY <1>1, Invariant, PTL

(***************************************************************************)
(* The blocks of fulltext_indexing hold the words of the text as it would  *)
(* be read in one go, from the first one on: next_n_words ends a block     *)
(* between two words only, and begins the next one as a new text.          *)
(***************************************************************************)
THEOREM BlocksHoldTheText == Spec => []BlocksAreOfTheText
<1>1. IInv => BlocksAreOfTheText
  <2> SUFFICES ASSUME IInv PROVE BlocksAreOfTheText
    OBVIOUS
  <2>1. text \in Seq(Graphemes)
    BY DEF IInv, Typed
  <2>2. PICK i \in 0..Len(text) : ReadTo(text, i, WordsOf(blocks, Names))
    BY DEF IInv, BlocksRead
  <2> QED
    BY <2>1, <2>2, ReadIsPrefix DEF BlocksAreOfTheText, AllWords
<1> QED
  BY <1>1, Invariant, PTL

(***************************************************************************)
(* What insert_document has put in the table is the parts 0, 1, ... of one *)
(* indexing, with every word of the blocks of each language in its order,  *)
(* and as many of them as the reply says.                                  *)
(***************************************************************************)
THEOREM DocumentHoldsTheBlocks == Spec => []PartsHoldTheBlocks
<1>1. IInv => PartsHoldTheBlocks
  <2> SUFFICES ASSUME IInv PROVE PartsHoldTheBlocks
    OBVIOUS
  <2> USE DEF IInv
  <2>1. parts \in Seq(Part) /\ \A n \in 1..Len(parts) : parts[n].part_no = n - 1
    BY DEF Typed, Divided
  <2>2. /\ Cardinality(ToSet(parts)) = Len(parts)
        /\ {row.part_no : row \in ToSet(parts)} = 0..(Len(parts) - 1)
        /\ InOrder(ToSet(parts)) = parts
    BY <2>1, InOrderIs
  <2>3. ASSUME document # {}
        PROVE  /\ {row.part_no : row \in document} = 0..(Cardinality(document) - 1)
               /\ \A lang \in Names : WordsOf(InOrder(document), {lang}) = WordsOf(blocks, {lang})
    <3>1. document = ToSet(parts) /\ Complete
      BY <2>3 DEF Stored
    <3> QED
      BY <2>2, <3>1 DEF Complete, Found, Inserted, Names
  <2>4. ASSUME reply.status = 200
        PROVE  reply.part_count = Cardinality(document) /\ (blocks # <<>> => document # {})
    <3>1. document = ToSet(parts) /\ reply.part_count = Len(parts) /\ Complete
      BY <2>4 DEF Stored
    <3>2. ASSUME blocks # <<>> PROVE document # {}
      <4>1. PICK code \in DOMAIN LANGUAGES : Found(code) # <<>>
        BY <3>2 DEF Collected
      <4>2. Inserted(code) # <<>>
        BY <3>1, <4>1 DEF Complete
      <4>3. parts # <<>>
        BY <4>2, WordsOfNone DEF Inserted
      <4>4. 1 \in DOMAIN parts
        BY <2>1, <4>3
      <4> QED
        BY <3>1, <4>4 DEF ToSet
    <3> QED
      BY <2>2, <3>1, <3>2
  <2> QED
    BY <2>3, <2>4 DEF PartsHoldTheBlocks
<1> QED
  BY <1>1, Invariant, PTL

(***************************************************************************)
(* encrypt_tsvector leaves no lexeme in clear: the vector of a row is its  *)
(* words' vector with a hash for each, since IsLexeme lets no quote, colon *)
(* or space into a word.                                                   *)
(***************************************************************************)
THEOREM NoLexemeInClear == Spec => []VectorsAreHashed
<1>1. IInv => VectorsAreHashed
  <2> SUFFICES ASSUME IInv, NEW row \in document PROVE row.tsv = Hashed(row.words)
    BY DEF VectorsAreHashed
  <2>1. document = ToSet(parts) /\ parts \in Seq(Part)
    BY DEF IInv, Stored, Typed
  <2>2. PICK n \in 1..Len(parts) : row = parts[n]
    BY <2>1 DEF ToSet
  <2> QED
    BY <2>2 DEF IInv, Divided
<1> QED
  BY <1>1, Invariant, PTL
=============================================================================
