-------------------------- MODULE FrameSplit_proofs --------------------------
(***************************************************************************)
(* Proofs about the splitter, for any number of events, any size of buffer *)
(* and any cut of the stream into reads.  Positions are counted in tokens  *)
(* from the beginning of the stream: event n ends at 6 * n, a border, and  *)
(* two newlines in a row stand right before a border and nowhere else.  So *)
(* the splitter cuts at borders, but for one that comes first in a read.   *)
(***************************************************************************)
EXTENDS FrameSplit, SequenceTheorems, WellFoundedInduction, TLAPS

Tokens == [of : Nat, is : {"da", "ta: ", "head", "tail", "nl"}]
Positive == Nat \ {0}

-----------------------------------------------------------------------------
(* Induction, and the recursions of the two loops.                          *)

LEMMA LeastNatural ==
  ASSUME NEW T \in SUBSET Nat, T # {}
  PROVE  \E x \in T : \A y \in T : x <= y
<1>. DEFINE R == OpToRel(<, Nat)
<1>1. IsWellFoundedOn(R, Nat)
  BY NatLessThanWellFounded
<1>2. \A x, y \in Nat : <<y, x>> \in R <=> y < x
  BY DEF OpToRel
<1>. HIDE DEF R
<1>3. PICK x \in T : \A y \in T : ~ (<<y, x>> \in R)
  BY <1>1, WFMin
<1>4. ASSUME NEW y \in T PROVE x <= y
  <2>1. x \in Nat /\ y \in Nat /\ ~(y < x)
    BY <1>2, <1>3
  <2>. QED  BY <2>1
<1>. QED  BY <1>4

LEMMA SetInduction ==
  ASSUME NEW S, 0 \in S, \A n \in Nat : n \in S => n + 1 \in S
  PROVE  \A n \in Nat : n \in S
<1>. SUFFICES ASSUME Nat \ S # {} PROVE FALSE
  OBVIOUS
<1>1. PICK n \in Nat \ S : \A m \in Nat \ S : n <= m
  BY LeastNatural
<1>2. n - 1 \in Nat /\ n - 1 \in S
  BY <1>1
<1>. QED  BY <1>1, <1>2

Nothing == [res |-> << >>, cur |-> << >>, panics |-> FALSE]

\* The states of splitOnDoubleNewline before and after each of its first n bytes.
Cuts(a, s, n) ==
  a = [i \in 0 .. n |-> IF i = 0 THEN Nothing ELSE CutAt(s, a[i - 1], i)]

LEMMA SplitSteps ==
  ASSUME NEW s, Len(s) \in Nat
  PROVE  \E a : /\ Cuts(a, s, Len(s))
                /\ SplitOnDoubleNewline(s)
                     = [chunks |-> IF a[Len(s)].cur = << >> THEN a[Len(s)].res
                                   ELSE Append(a[Len(s)].res, a[Len(s)].cur),
                        panics |-> a[Len(s)].panics]
<1>. DEFINE S == {n \in Nat : \E a : Cuts(a, s, n)}
<1>1. 0 \in S
  <2>1. Cuts([i \in 0 .. 0 |-> Nothing], s, 0)
    BY DEF Cuts
  <2>. QED  BY <2>1
<1>2. ASSUME NEW n \in Nat, n \in S PROVE n + 1 \in S
  <2>1. PICK a : Cuts(a, s, n)
    BY <1>2
  <2>. DEFINE b == [i \in 0 .. n + 1 |-> IF i <= n THEN a[i] ELSE CutAt(s, a[n], n + 1)]
  <2>2. ASSUME NEW i \in 0 .. n + 1
        PROVE  b[i] = IF i = 0 THEN Nothing ELSE CutAt(s, b[i - 1], i)
    <3>1. CASE i <= n
      BY <2>1, <3>1 DEF Cuts
    <3>2. CASE i = n + 1
      BY <3>2
    <3>. QED  BY <3>1, <3>2
  <2>3. b = [i \in 0 .. n + 1 |-> b[i]]
    OBVIOUS
  <2>. HIDE DEF b
  <2>4. Cuts(b, s, n + 1)
    BY <2>2, <2>3 DEF Cuts
  <2>. QED  BY <2>4
<1>. HIDE DEF S
<1>3. Len(s) \in S
  BY <1>1, <1>2, SetInduction
<1>. DEFINE g == CHOOSE a : Cuts(a, s, Len(s))
<1>4. Cuts(g, s, Len(s))
  BY <1>3 DEF S
<1>5. SplitOnDoubleNewline(s)
        = [chunks |-> IF g[Len(s)].cur = << >> THEN g[Len(s)].res
                      ELSE Append(g[Len(s)].res, g[Len(s)].cur),
           panics |-> g[Len(s)].panics]
  BY DEF SplitOnDoubleNewline, Cuts, Nothing
<1>. QED  BY <1>4, <1>5

\* What splitFrames has kept before and after each of its first n chunks.
Unprefixed(c) == SubSeq(c, 3, Len(c))

Keeps(a, chunks, n) ==
  a = [i \in 0 .. n |->
         IF i = 0 THEN << >>
         ELSE IF HasPrefix(chunks[i]) THEN Append(a[i - 1], Unprefixed(chunks[i])) ELSE a[i - 1]]

LEMMA FramesSteps ==
  ASSUME NEW s, NEW chunks, chunks = SplitOnDoubleNewline(s).chunks, Len(chunks) \in Nat
  PROVE  \E a : Keeps(a, chunks, Len(chunks)) /\ Frames(s) = a[Len(chunks)]
<1>. DEFINE S == {n \in Nat : \E a : Keeps(a, chunks, n)}
            More(o, c) == IF HasPrefix(c) THEN Append(o, Unprefixed(c)) ELSE o
<1>1. 0 \in S
  <2>1. Keeps([i \in 0 .. 0 |-> << >>], chunks, 0)
    BY DEF Keeps
  <2>. QED  BY <2>1
<1>2. ASSUME NEW n \in Nat, n \in S PROVE n + 1 \in S
  <2>1. PICK a : Keeps(a, chunks, n)
    BY <1>2
  <2>2. a = [i \in 0 .. n |-> IF i = 0 THEN << >> ELSE More(a[i - 1], chunks[i])]
    BY <2>1 DEF Keeps
  <2>. HIDE DEF More
  <2>. DEFINE b == [i \in 0 .. n + 1 |-> IF i <= n THEN a[i] ELSE More(a[n], chunks[n + 1])]
  <2>3. ASSUME NEW i \in 0 .. n + 1
        PROVE  b[i] = IF i = 0 THEN << >> ELSE More(b[i - 1], chunks[i])
    <3>1. CASE i <= n
      <4>1. b[i] = a[i] /\ i \in 0 .. n
        BY <3>1
      <4>2. i # 0 => b[i - 1] = a[i - 1]
        BY <3>1
      <4>3. a[i] = IF i = 0 THEN << >> ELSE More(a[i - 1], chunks[i])
        BY <2>2, <4>1
      <4>. HIDE DEF b
      <4>. QED  BY <4>1, <4>2, <4>3
    <3>2. CASE i = n + 1
      BY <3>2
    <3>. QED  BY <3>1, <3>2
  <2>4. b = [i \in 0 .. n + 1 |-> b[i]]
    OBVIOUS
  <2>. HIDE DEF b
  <2>5. Keeps(b, chunks, n + 1)
    BY <2>3, <2>4 DEF Keeps, More
  <2>. QED  BY <2>5
<1>. HIDE DEF S
<1>3. Len(chunks) \in S
  BY <1>1, <1>2, SetInduction
<1>. DEFINE g == CHOOSE a : Keeps(a, chunks, Len(chunks))
<1>4. Keeps(g, chunks, Len(chunks))
  BY <1>3 DEF S
<1>5. Frames(s) = g[Len(chunks)]
  BY DEF Frames, Keeps, Unprefixed
<1>. QED  BY <1>4, <1>5

-----------------------------------------------------------------------------
(* The text of the stream.                                                  *)

\* s is the text that follows the first off tokens of the stream.
Along(s, off) ==
  /\ s \in Seq(Tokens)
  /\ \A k \in 1 .. Len(s), n \in Positive, j \in 1 .. 6 :
       off + k = 6 * (n - 1) + j => s[k] = Written(n)[j]

Border(p) == \E n \in Nat : p = 6 * n

LEMMA SixTokens ==
  ASSUME NEW a \in Tokens, NEW b \in Tokens, NEW c \in Tokens, NEW d \in Tokens,
         NEW e \in Tokens, NEW f \in Tokens
  PROVE  /\ <<a, b, c, d, e, f>> \in Seq(Tokens) /\ Len(<<a, b, c, d, e, f>>) = 6
         /\ <<a, b, c, d, e, f>>[1] = a /\ <<a, b, c, d, e, f>>[2] = b
         /\ <<a, b, c, d, e, f>>[3] = c /\ <<a, b, c, d, e, f>>[4] = d
         /\ <<a, b, c, d, e, f>>[5] = e /\ <<a, b, c, d, e, f>>[6] = f
OBVIOUS

LEMMA WrittenText ==
  ASSUME NEW n \in Nat
  PROVE  /\ Written(n) \in Seq(Tokens) /\ Len(Written(n)) = 6
         /\ Written(n)[1] = Token(n, "da") /\ Written(n)[2] = Token(n, "ta: ")
         /\ Written(n)[3] = Token(n, "head") /\ Written(n)[4] = Token(n, "tail")
         /\ Written(n)[5] = Token(n, "nl") /\ Written(n)[6] = Token(n, "nl")
<1>1. /\ Token(n, "da") \in Tokens /\ Token(n, "ta: ") \in Tokens /\ Token(n, "head") \in Tokens
      /\ Token(n, "tail") \in Tokens /\ Token(n, "nl") \in Tokens
  BY DEF Token, Tokens
<1>. QED  BY <1>1, SixTokens DEF Written

LEMMA WrittenParts ==
  ASSUME NEW n \in Nat, NEW j \in 1 .. 6
  PROVE  /\ Written(n)[j].of = n
         /\ IsNewline(Written(n)[j]) <=> j \in {5, 6}
         /\ Written(n)[j].is = "da" <=> j = 1
         /\ Written(n)[j] \in Tokens
<1>. DEFINE Right(t, part) == /\ t.of = n /\ t \in Tokens
                              /\ t.is = part
<1>1. \A part \in {"da", "ta: ", "head", "tail", "nl"} : Right(Token(n, part), part)
  BY DEF Token, Tokens
<1>2. /\ Right(Written(n)[1], "da") /\ Right(Written(n)[2], "ta: ")
      /\ Right(Written(n)[3], "head") /\ Right(Written(n)[4], "tail")
      /\ Right(Written(n)[5], "nl") /\ Right(Written(n)[6], "nl")
  <2>. HIDE DEF Right
  <2>. QED  BY <1>1, WrittenText
<1>3. j = 1 \/ j = 2 \/ j = 3 \/ j = 4 \/ j = 5 \/ j = 6
  OBVIOUS
<1>. QED  BY <1>2, <1>3 DEF IsNewline

LEMMA WrittenHead ==
  ASSUME NEW n \in Nat
  PROVE  /\ Written(n)[1].of = n /\ Written(n)[1].is = "da"
         /\ Written(n)[2].is = "ta: " /\ Written(n)[3].of = n
<1>1. /\ Token(n, "da").of = n /\ Token(n, "da").is = "da"
      /\ Token(n, "ta: ").is = "ta: " /\ Token(n, "head").of = n
  BY DEF Token
<1>. QED  BY <1>1, WrittenText

LEMMA Place ==
  ASSUME NEW p \in Positive
  PROVE  \E n \in Positive, j \in 1 .. 6 : p = 6 * (n - 1) + j
<1>. DEFINE m == (p - 1) \div 6
            j == (p - 1) % 6
<1>1. m \in Nat /\ j \in 0 .. 5 /\ p - 1 = 6 * m + j
  BY DEF Positive
<1>. HIDE DEF m, j
<1>2. m + 1 \in Positive /\ j + 1 \in 1 .. 6 /\ p = 6 * ((m + 1) - 1) + (j + 1)
  BY <1>1 DEF Positive
<1>. QED  BY <1>2

LEMMA TokenAt ==
  ASSUME NEW off \in Nat, NEW s, Along(s, off), NEW k \in 1 .. Len(s)
  PROVE  \E n \in Positive, j \in 1 .. 6 : off + k = 6 * (n - 1) + j /\ s[k] = Written(n)[j]
<1>1. off + k \in Positive
  BY DEF Along, Positive
<1>2. PICK n \in Positive, j \in 1 .. 6 : off + k = 6 * (n - 1) + j
  BY <1>1, Place
<1>. QED  BY <1>2 DEF Along

\* Two newlines in a row stand right before a border, and nowhere else.
LEMMA TwoNewlines ==
  ASSUME NEW off \in Nat, NEW s, Along(s, off), NEW k \in 2 .. Len(s)
  PROVE  IsNewline(s[k - 1]) /\ IsNewline(s[k]) <=> Border(off + k)
<1>1. k \in 1 .. Len(s) /\ k - 1 \in 1 .. Len(s) /\ k \in Nat
  BY DEF Along
<1>2. PICK n \in Positive, j \in 1 .. 6 : off + k = 6 * (n - 1) + j /\ s[k] = Written(n)[j]
  BY <1>1, TokenAt
<1>3. PICK m \in Positive, i \in 1 .. 6 :
        off + (k - 1) = 6 * (m - 1) + i /\ s[k - 1] = Written(m)[i]
  BY <1>1, TokenAt
<1>4. IsNewline(s[k]) <=> j \in {5, 6}
  BY <1>2, WrittenParts DEF Positive
<1>5. IsNewline(s[k - 1]) <=> i \in {5, 6}
  BY <1>3, WrittenParts DEF Positive
<1>6. j = 6 => m = n /\ i = 5
  BY <1>1, <1>2, <1>3 DEF Positive
<1>7. j = 5 => i = 4
  BY <1>1, <1>2, <1>3 DEF Positive
<1>8. Border(off + k) <=> j = 6
  <2>1. ASSUME Border(off + k) PROVE j = 6
    <3>1. PICK q \in Nat : off + k = 6 * q
      BY <2>1 DEF Border
    <3>2. 6 * q = 6 * (n - 1) + j
      BY <1>1, <1>2, <3>1
    <3>. QED  BY <3>2 DEF Positive
  <2>2. ASSUME j = 6 PROVE Border(off + k)
    <3>1. off + k = 6 * n /\ n \in Nat
      BY <1>2, <2>2 DEF Positive
    <3>. QED  BY <3>1 DEF Border
  <2>. QED  BY <2>1, <2>2
<1>. QED  BY <1>4, <1>5, <1>6, <1>7, <1>8

\* The text read first, and the text that is left.
LEMMA TextRead ==
  ASSUME NEW off \in Nat, NEW s, Along(s, off), NEW len \in 1 .. Len(s)
  PROVE  /\ Along(SubSeq(s, 1, len), off) /\ Len(SubSeq(s, 1, len)) = len
         /\ Along(SubSeq(s, len + 1, Len(s)), off + len)
         /\ Len(SubSeq(s, len + 1, Len(s))) = Len(s) - len
<1>. DEFINE a == SubSeq(s, 1, len)
            b == SubSeq(s, len + 1, Len(s))
<1>1. s \in Seq(Tokens) /\ Len(s) \in Nat /\ len \in Nat /\ len <= Len(s)
  BY DEF Along
<1>2. a \in Seq(Tokens) /\ Len(a) = len /\ \A k \in 1 .. len : a[k] = s[k]
  BY <1>1
<1>3. /\ b \in Seq(Tokens) /\ Len(b) = Len(s) - len
      /\ \A k \in 1 .. Len(s) - len : b[k] = s[len + k]
  BY <1>1
<1>. HIDE DEF a, b
<1>4. Along(a, off)
  BY <1>1, <1>2 DEF Along
<1>5. ASSUME NEW k \in 1 .. Len(b), NEW n \in Positive, NEW j \in 1 .. 6,
             off + len + k = 6 * (n - 1) + j
      PROVE  b[k] = Written(n)[j]
  <2>1. b[k] = s[len + k] /\ len + k \in 1 .. Len(s) /\ off + (len + k) = 6 * (n - 1) + j
    BY <1>1, <1>3, <1>5
  <2>. QED  BY <2>1 DEF Along
<1>6. Along(b, off + len)
  BY <1>3, <1>5 DEF Along
<1>. QED  BY <1>2, <1>3, <1>4, <1>6 DEF a, b

-----------------------------------------------------------------------------
(* splitOnDoubleNewline.                                                    *)

\* ch holds the len tokens of s that follow the first c.
Piece(ch, s, c, len) ==
  ch \in Seq(Tokens) /\ Len(ch) = len /\ \A k \in 1 .. len : ch[k] = s[c + k]

\* c is where the loop has cut last when i bytes are behind it.
LastCut(s, off, c, i) ==
  /\ c \in 0 .. i
  /\ c = 0 \/ (c > 1 /\ Border(off + c))
  /\ \A k \in c + 1 .. i : k > 1 => ~Border(off + k)

Fits(ch, n) == Len(ch) <= 5 /\ \A k \in 1 .. Len(ch) : ch[k] = Written(n)[k]

\* What the chunks of the first c tokens are: those that pass for frames belong to
\* one event each, in the order of the events, and no event that lies whole in
\* the text is missing, but one that the text begins a newline before.
Chunks(chunks, off, c) ==
  /\ chunks \in Seq(Seq(Tokens))
  /\ \A m \in 1 .. Len(chunks) : HasPrefix(chunks[m]) =>
       \E n \in Positive : Fits(chunks[m], n) /\ off <= 6 * (n - 1) /\ 6 * (n - 1) < off + c
  /\ \A l, m \in 1 .. Len(chunks) :
       (l < m /\ HasPrefix(chunks[l]) /\ HasPrefix(chunks[m])) => chunks[l][1].of < chunks[m][1].of
  /\ \A n \in Positive :
       (off <= 6 * (n - 1) /\ off + 1 # 6 * (n - 1) /\ 6 * n <= off + c) =>
         \E m \in 1 .. Len(chunks) : Len(chunks[m]) = 4 /\ Fits(chunks[m], n)

\* A state of the loop behind the first i bytes.
Split(acc, s, off, i) ==
  /\ DOMAIN acc = {"res", "cur", "panics"} /\ acc.panics = FALSE
  /\ \E c : /\ LastCut(s, off, c, i)
            /\ Piece(acc.cur, s, c, i - c)
            /\ Chunks(acc.res, off, c)

\* A frame among the chunks: it begins at a border and ends before the next.
LEMMA FrameAt ==
  ASSUME NEW off \in Nat, NEW s, Along(s, off), NEW c \in Nat, NEW len \in Nat,
         c + len <= Len(s), LastCut(s, off, c, c + len),
         NEW ch, Piece(ch, s, c, len), HasPrefix(ch)
  PROVE  \E n \in Positive : off + c = 6 * (n - 1) /\ Fits(ch, n) /\ ch[1].of = n
<1>1. len > 2 /\ ch[1].is = "da" /\ ch[1] = s[c + 1]
  <2>1. len > 2 /\ ch[1].is = "da"
    BY DEF HasPrefix, Piece
  <2>2. 1 \in 1 .. len
    BY <2>1
  <2>. QED  BY <2>1, <2>2 DEF Piece
<1>2. Len(s) \in Nat /\ c + 1 \in 1 .. Len(s)
  BY <1>1 DEF Along
<1>3. PICK n \in Positive, j \in 1 .. 6 :
        off + (c + 1) = 6 * (n - 1) + j /\ s[c + 1] = Written(n)[j]
  <2>. DEFINE k == c + 1
  <2>1. k \in 1 .. Len(s)
    BY <1>2
  <2>. HIDE DEF k
  <2>2. \E n \in Positive, j \in 1 .. 6 : off + k = 6 * (n - 1) + j /\ s[k] = Written(n)[j]
    BY <2>1, TokenAt
  <2>. QED  BY <2>2 DEF k
<1>4. j = 1 /\ ch[1].of = n
  BY <1>1, <1>3, WrittenParts DEF Positive
<1>5. off + c = 6 * (n - 1)
  BY <1>3, <1>4 DEF Positive
<1>6. len <= 5
  <2>. SUFFICES ASSUME len >= 6 PROVE FALSE
    OBVIOUS
  <2>1. c + 6 \in c + 1 .. c + len /\ c + 6 > 1 /\ off + (c + 6) = 6 * n /\ n \in Nat
    BY <1>5 DEF Positive
  <2>2. Border(off + (c + 6))
    BY <2>1 DEF Border
  <2>. QED  BY <2>1, <2>2 DEF LastCut
<1>7. ASSUME NEW k \in 1 .. len PROVE ch[k] = Written(n)[k]
  <2>1. c + k \in 1 .. Len(s) /\ k \in 1 .. 6 /\ off + (c + k) = 6 * (n - 1) + k
    BY <1>2, <1>5, <1>6 DEF Positive
  <2>2. s[c + k] = Written(n)[k]
    BY <2>1 DEF Along
  <2>. QED  BY <2>2 DEF Piece
<1>. QED  BY <1>4, <1>5, <1>6, <1>7 DEF Fits, Piece

\* The piece with one more byte.
LEMMA PieceGrows ==
  ASSUME NEW off \in Nat, NEW s, Along(s, off), NEW i \in 1 .. Len(s), NEW c \in Nat, c <= i - 1,
         NEW ch, Piece(ch, s, c, i - 1 - c)
  PROVE  Piece(Append(ch, s[i]), s, c, i - c)
<1>. DEFINE new == Append(ch, s[i])
<1>1. s \in Seq(Tokens) /\ Len(s) \in Nat /\ i \in Nat /\ s[i] \in Tokens
  BY DEF Along
<1>2. /\ ch \in Seq(Tokens) /\ Len(ch) = i - 1 - c
      /\ \A k \in 1 .. i - 1 - c : ch[k] = s[c + k]
  BY DEF Piece
<1>3. /\ new \in Seq(Tokens) /\ Len(new) = i - c /\ new[i - c] = s[i]
      /\ \A k \in 1 .. i - 1 - c : new[k] = ch[k]
  BY <1>1, <1>2, AppendProperties
<1>. HIDE DEF new
<1>4. ASSUME NEW k \in 1 .. i - c PROVE new[k] = s[c + k]
  <2>1. CASE k \in 1 .. i - 1 - c
    BY <1>2, <1>3, <2>1
  <2>2. CASE k = i - c
    BY <1>1, <1>3, <2>2
  <2>. QED  BY <1>1, <2>1, <2>2
<1>5. Piece(new, s, c, i - c)
  BY <1>3, <1>4 DEF Piece
<1>. QED  BY <1>5 DEF new

\* One more byte that is no second newline.
LEMMA SplitOn ==
  ASSUME NEW off \in Nat, NEW s, Along(s, off), NEW i \in 1 .. Len(s), NEW acc,
         Split(acc, s, off, i - 1), ~(i > 1 /\ Border(off + i))
  PROVE  Split(CutAt(s, acc, i), s, off, i)
<1>. DEFINE new == Append(acc.cur, s[i])
<1>1. Len(s) \in Nat /\ i \in Nat
  BY DEF Along
<1>2. CutAt(s, acc, i) = [acc EXCEPT !.cur = new]
  <2>1. ~(i > 1 /\ IsNewline(s[i - 1]) /\ IsNewline(s[i]))
    BY <1>1, TwoNewlines
  <2>. QED  BY <2>1 DEF CutAt
<1>3. PICK c : LastCut(s, off, c, i - 1) /\ Piece(acc.cur, s, c, i - 1 - c) /\ Chunks(acc.res, off, c)
  BY DEF Split
<1>4. c \in Nat /\ c <= i - 1
  BY <1>1, <1>3 DEF LastCut
<1>5. Piece(new, s, c, i - c)
  BY <1>3, <1>4, PieceGrows
<1>. HIDE DEF new
<1>6. LastCut(s, off, c, i)
  <2>1. ASSUME NEW k \in c + 1 .. i, k > 1 PROVE ~Border(off + k)
    <3>1. CASE k = i
      BY <2>1, <3>1
    <3>2. CASE k # i
      <4>1. k \in c + 1 .. i - 1
        BY <1>1, <1>4, <3>2
      <4>. QED  BY <1>3, <2>1, <4>1 DEF LastCut
    <3>. QED  BY <3>1, <3>2
  <2>2. c \in 0 .. i
    BY <1>1, <1>4
  <2>3. c = 0 \/ (c > 1 /\ Border(off + c))
    BY <1>3 DEF LastCut
  <2>. QED  BY <2>1, <2>2, <2>3 DEF LastCut
<1>. DEFINE next == [acc EXCEPT !.cur = new]
<1>7. DOMAIN next = {"res", "cur", "panics"} /\ next.panics = FALSE /\ next.cur = new /\ next.res = acc.res
  BY DEF Split
<1>8. CutAt(s, acc, i) = next
  BY <1>2 DEF new
<1>. HIDE DEF next
<1>9. Split(next, s, off, i)
  BY <1>3, <1>5, <1>6, <1>7 DEF Split
<1>. QED  BY <1>8, <1>9

\* The chunk that a cut closes, behind those before it.
LEMMA ChunkCloses ==
  ASSUME NEW off \in Nat, NEW s, Along(s, off), NEW c, NEW i \in 1 .. Len(s) + 1,
         LastCut(s, off, c, i - 1), NEW chunks, Chunks(chunks, off, c),
         NEW ch, NEW len \in Nat, Piece(ch, s, c, len), c + len <= i - 1,
         i <= Len(s) => len = i - 2 - c
  PROVE  Chunks(Append(chunks, ch), off, IF i <= Len(s) THEN i ELSE Len(s))
<1>. DEFINE all == Append(chunks, ch)
            last == Len(chunks) + 1
            to == IF i <= Len(s) THEN i ELSE Len(s)
<1>1. Len(s) \in Nat /\ i \in Nat /\ c \in Nat /\ c <= i - 1 /\ to \in Nat /\ i - 1 <= Len(s)
  BY DEF Along, LastCut
<1>2. chunks \in Seq(Seq(Tokens)) /\ ch \in Seq(Tokens)
  BY DEF Chunks, Piece
<1>3. /\ all \in Seq(Seq(Tokens)) /\ Len(all) = last /\ all[last] = ch
      /\ last \in Nat /\ Len(chunks) \in Nat
      /\ \A m \in 1 .. Len(chunks) : all[m] = chunks[m]
  BY <1>2, AppendProperties
<1>. HIDE DEF all
<1>4. ASSUME HasPrefix(ch)
      PROVE  \E n \in Positive : off + c = 6 * (n - 1) /\ Fits(ch, n) /\ ch[1].of = n /\ c < to
  <2>1. c + len <= Len(s)
    BY <1>1
  <2>2. LastCut(s, off, c, c + len)
    <3>1. \A k \in c + 1 .. i - 1 : k > 1 => ~Border(off + k)
      BY DEF LastCut
    <3>2. \A k \in c + 1 .. c + len : k \in c + 1 .. i - 1
      BY <1>1
    <3>3. c \in 0 .. c + len /\ (c = 0 \/ (c > 1 /\ Border(off + c)))
      BY <1>1 DEF LastCut
    <3>. QED  BY <3>1, <3>2, <3>3 DEF LastCut
  <2>3. PICK n \in Positive : off + c = 6 * (n - 1) /\ Fits(ch, n) /\ ch[1].of = n
    <3>1. c \in Nat
      BY <1>1
    <3>. QED  BY <1>4, <2>1, <2>2, <3>1, FrameAt
  <2>4. len > 2
    BY <1>4 DEF HasPrefix, Piece
  <2>5. c < to
    BY <1>1, <2>1, <2>4
  <2>. QED  BY <2>3, <2>5
<1>5. ASSUME NEW m \in 1 .. Len(chunks), HasPrefix(chunks[m])
      PROVE  \E n \in Positive : /\ Fits(chunks[m], n) /\ off <= 6 * (n - 1) /\ 6 * (n - 1) < off + c
                                 /\ chunks[m][1].of = n
  <2>1. PICK n \in Positive : Fits(chunks[m], n) /\ off <= 6 * (n - 1) /\ 6 * (n - 1) < off + c
    BY <1>5 DEF Chunks
  <2>2. Len(chunks[m]) > 2
    BY <1>5 DEF HasPrefix
  <2>3. chunks[m][1] = Written(n)[1]
    <3>1. Len(chunks[m]) \in Nat
      BY <1>2
    <3>2. 1 \in 1 .. Len(chunks[m])
      BY <2>2, <3>1
    <3>. QED  BY <2>1, <3>2 DEF Fits
  <2>4. chunks[m][1].of = n
    BY <2>3, WrittenParts DEF Positive
  <2>. QED  BY <2>1, <2>4
<1>6. c <= to
  BY <1>1
<1>7. ASSUME NEW m \in 1 .. last, HasPrefix(all[m])
      PROVE  \E n \in Positive : Fits(all[m], n) /\ off <= 6 * (n - 1) /\ 6 * (n - 1) < off + to
  <2>1. CASE m = last
    <3>1. PICK n \in Positive : off + c = 6 * (n - 1) /\ Fits(ch, n) /\ c < to
      BY <1>3, <1>4, <1>7, <2>1
    <3>2. off <= 6 * (n - 1) /\ 6 * (n - 1) < off + to
      BY <1>1, <3>1
    <3>. QED  BY <1>3, <2>1, <3>1, <3>2
  <2>2. CASE m \in 1 .. Len(chunks)
    <3>1. PICK n \in Positive : Fits(chunks[m], n) /\ off <= 6 * (n - 1) /\ 6 * (n - 1) < off + c
      BY <1>3, <1>5, <1>7, <2>2
    <3>2. 6 * (n - 1) < off + to
      BY <1>1, <1>6, <3>1 DEF Positive
    <3>. QED  BY <1>3, <2>2, <3>1, <3>2
  <2>. QED  BY <1>3, <2>1, <2>2
<1>8. ASSUME NEW l \in 1 .. last, NEW m \in 1 .. last, l < m, HasPrefix(all[l]), HasPrefix(all[m])
      PROVE  all[l][1].of < all[m][1].of
  <2>1. l \in 1 .. Len(chunks) /\ all[l] = chunks[l]
    <3>1. l \in 1 .. Len(chunks)
      <4>1. Len(chunks) \in Nat
        BY <1>3
      <4>. QED  BY <1>8, <4>1
    <3>. QED  BY <1>3, <3>1
  <2>2. CASE m = last
    <3>1. PICK n \in Positive : off + c = 6 * (n - 1) /\ ch[1].of = n
      BY <1>3, <1>4, <1>8, <2>2
    <3>2. PICK q \in Positive : 6 * (q - 1) < off + c /\ chunks[l][1].of = q
      BY <1>5, <1>8, <2>1
    <3>3. q < n
      BY <3>1, <3>2 DEF Positive
    <3>. QED  BY <1>3, <2>1, <2>2, <3>1, <3>2, <3>3
  <2>3. CASE m \in 1 .. Len(chunks)
    BY <1>3, <1>8, <2>1, <2>3 DEF Chunks
  <2>. QED  BY <1>3, <2>2, <2>3
<1>9. ASSUME NEW n \in Positive, off <= 6 * (n - 1), off + 1 # 6 * (n - 1), 6 * n <= off + to
      PROVE  \E m \in 1 .. last : Len(all[m]) = 4 /\ Fits(all[m], n)
  <2>. DEFINE b == 6 * n - off
              a == 6 * (n - 1) - off
  <2>1. n \in Nat /\ n - 1 \in Nat /\ b \in Nat /\ a \in Nat /\ b = a + 6 /\ a # 1 /\ b <= to
    BY <1>1, <1>9 DEF Positive
  <2>2. off + b = 6 * n /\ off + a = 6 * (n - 1)
    BY <2>1
  <2>3. Border(off + b) /\ Border(off + a)
    BY <2>1, <2>2 DEF Border
  <2>. HIDE DEF a, b
  <2>4. CASE b <= c
    <3>1. 6 * n <= off + c
      BY <1>1, <2>1, <2>2, <2>4
    <3>2. PICK m \in 1 .. Len(chunks) : Len(chunks[m]) = 4 /\ Fits(chunks[m], n)
      BY <1>9, <3>1 DEF Chunks
    <3>. QED  BY <1>3, <3>2
  <2>5. CASE ~(b <= c)
    <3>1. b = i /\ i <= Len(s)
      <4>1. ~(b \in c + 1 .. i - 1)
        BY <1>1, <2>1, <2>3 DEF LastCut
      <4>. QED  BY <1>1, <2>1, <2>5, <4>1
    <3>2. a <= c
      <4>1. a > 1 => ~(a \in c + 1 .. i - 1)
        BY <1>1, <2>1, <2>3 DEF LastCut
      <4>. QED  BY <1>1, <2>1, <3>1, <4>1
    <3>3. c = a
      <4>1. CASE c = 0
        BY <2>1, <3>2, <4>1
      <4>2. CASE c # 0
        <5>1. PICK q \in Nat : off + c = 6 * q
          BY <4>2 DEF LastCut, Border
        <5>2. q = n - 1
          BY <1>1, <2>1, <2>2, <3>1, <3>2, <5>1
        <5>. QED  BY <1>1, <2>1, <2>2, <5>1, <5>2
      <4>. QED  BY <4>1, <4>2
    <3>4. len = 4
      BY <1>1, <2>1, <3>1, <3>3
    <3>5. ASSUME NEW k \in 1 .. 4 PROVE ch[k] = Written(n)[k]
      <4>1. ch[k] = s[c + k]
        BY <3>4, <3>5 DEF Piece
      <4>2. c + k \in 1 .. Len(s) /\ k \in 1 .. 6 /\ off + (c + k) = 6 * (n - 1) + k
        BY <1>1, <2>1, <2>2, <3>1, <3>3
      <4>. QED  BY <4>1, <4>2 DEF Along
    <3>6. Len(ch) = 4
      BY <3>4 DEF Piece
    <3>7. Fits(ch, n)
      BY <3>5, <3>6 DEF Fits
    <3>8. last \in 1 .. last
      BY <1>3
    <3>. QED  BY <1>3, <3>6, <3>7, <3>8
  <2>. QED  BY <2>4, <2>5
<1>10. Chunks(all, off, to)
  BY <1>3, <1>7, <1>8, <1>9 DEF Chunks
<1>. QED  BY <1>10 DEF all

\* A second newline, which cuts; the chunk it closes holds two bytes at least.
LEMMA SplitCuts ==
  ASSUME NEW off \in Nat, NEW s, Along(s, off), NEW i \in 1 .. Len(s), NEW acc,
         Split(acc, s, off, i - 1), i > 1, Border(off + i)
  PROVE  Split(CutAt(s, acc, i), s, off, i)
<1>. DEFINE cur == Append(acc.cur, s[i])
            ch == SubSeq(cur, 1, Len(cur) - 2)
<1>1. Len(s) \in Nat /\ i \in Nat
  BY DEF Along
<1>2. CutAt(s, acc, i) = [res |-> Append(acc.res, ch), cur |-> << >>,
                          panics |-> acc.panics \/ Len(cur) < 2]
  <2>1. i > 1 /\ IsNewline(s[i - 1]) /\ IsNewline(s[i])
    BY <1>1, TwoNewlines
  <2>. QED  BY <2>1 DEF CutAt
<1>3. PICK c : LastCut(s, off, c, i - 1) /\ Piece(acc.cur, s, c, i - 1 - c) /\ Chunks(acc.res, off, c)
  BY DEF Split
<1>4. c \in Nat /\ c <= i - 1
  BY <1>1, <1>3 DEF LastCut
<1>5. Piece(cur, s, c, i - c)
  BY <1>3, <1>4, PieceGrows
<1>6. c # i - 1
  <2>. SUFFICES ASSUME c = i - 1 PROVE FALSE
    OBVIOUS
  <2>1. Border(off + (i - 1))
    BY <1>1, <1>3 DEF LastCut
  <2>2. PICK p \in Nat : off + (i - 1) = 6 * p
    BY <2>1 DEF Border
  <2>3. PICK q \in Nat : off + i = 6 * q
    BY DEF Border
  <2>. QED  BY <1>1, <2>2, <2>3
<1>. DEFINE len == i - 2 - c
<1>7. len \in Nat /\ Len(cur) = len + 2 /\ cur \in Seq(Tokens) /\ \A k \in 1 .. len + 2 : cur[k] = s[c + k]
  BY <1>1, <1>4, <1>5, <1>6 DEF Piece
<1>. HIDE DEF cur
<1>8. Piece(ch, s, c, len)
  BY <1>7 DEF Piece
<1>. HIDE DEF ch
<1>9. Chunks(Append(acc.res, ch), off, i)
  <2>1. i \in 1 .. Len(s) + 1 /\ i <= Len(s) /\ c + len <= i - 1
    BY <1>1, <1>4
  <2>2. Chunks(Append(acc.res, ch), off, IF i <= Len(s) THEN i ELSE Len(s))
    BY <1>3, <1>7, <1>8, <2>1, ChunkCloses
  <2>. QED  BY <2>1, <2>2
<1>. DEFINE next == [res |-> Append(acc.res, ch), cur |-> << >>, panics |-> FALSE]
<1>10. CutAt(s, acc, i) = next
  <2>1. ~(Len(cur) < 2) /\ acc.panics = FALSE
    BY <1>7 DEF Split
  <2>. QED  BY <1>2, <2>1 DEF cur, ch
<1>11. LastCut(s, off, i, i)
  BY <1>1 DEF LastCut
<1>12. Piece(next.cur, s, i, i - i)
  BY <1>1 DEF Piece
<1>13. Split(next, s, off, i)
  <2>1. DOMAIN next = {"res", "cur", "panics"} /\ next.panics = FALSE /\ next.res = Append(acc.res, ch)
    OBVIOUS
  <2>. HIDE DEF next
  <2>. QED  BY <1>9, <1>11, <1>12, <2>1 DEF Split
<1>. QED  BY <1>10, <1>13

\* The whole text of one read: the splitter does not panic, and its chunks are sound.
LEMMA SplitSound ==
  ASSUME NEW off \in Nat, NEW s, Along(s, off)
  PROVE  /\ SplitOnDoubleNewline(s).panics = FALSE
         /\ Chunks(SplitOnDoubleNewline(s).chunks, off, Len(s))
<1>1. s \in Seq(Tokens) /\ Len(s) \in Nat
  BY DEF Along
<1>2. PICK a : /\ Cuts(a, s, Len(s))
               /\ SplitOnDoubleNewline(s)
                    = [chunks |-> IF a[Len(s)].cur = << >> THEN a[Len(s)].res
                                  ELSE Append(a[Len(s)].res, a[Len(s)].cur),
                       panics |-> a[Len(s)].panics]
  BY <1>1, SplitSteps
<1>. DEFINE T == {i \in Nat : i <= Len(s) => Split(a[i], s, off, i)}
<1>3. 0 \in T
  <2>1. a[0] = Nothing
    BY <1>1, <1>2 DEF Cuts
  <2>2. LastCut(s, off, 0, 0) /\ Piece(<< >>, s, 0, 0 - 0)
    BY DEF LastCut, Piece
  <2>3. Chunks(<< >>, off, 0)
    <3>1. ASSUME NEW n \in Positive, off <= 6 * (n - 1), 6 * n <= off + 0 PROVE FALSE
      BY <3>1 DEF Positive
    <3>. QED  BY <3>1 DEF Chunks
  <2>4. Split(Nothing, s, off, 0)
    BY <2>2, <2>3 DEF Split, Nothing
  <2>. QED  BY <2>1, <2>4
<1>4. ASSUME NEW n \in Nat, n \in T PROVE n + 1 \in T
  <2>. SUFFICES ASSUME n + 1 <= Len(s) PROVE Split(a[n + 1], s, off, n + 1)
    OBVIOUS
  <2>. DEFINE i == n + 1
  <2>1. Split(a[i - 1], s, off, i - 1) /\ i \in 1 .. Len(s)
    BY <1>1, <1>4
  <2>2. a[i] = CutAt(s, a[i - 1], i)
    BY <1>1, <1>2, <2>1 DEF Cuts
  <2>. HIDE DEF i
  <2>3. Split(CutAt(s, a[i - 1], i), s, off, i)
    BY <2>1, SplitOn, SplitCuts
  <2>. QED  BY <2>2, <2>3 DEF i
<1>5. \A n \in Nat : n \in T
  <2>. HIDE DEF T
  <2>. QED  BY <1>3, <1>4, SetInduction
<1>. DEFINE acc == a[Len(s)]
<1>6. Split(acc, s, off, Len(s))
  BY <1>1, <1>5
<1>. HIDE DEF acc, T
<1>7. PICK c : LastCut(s, off, c, Len(s)) /\ Piece(acc.cur, s, c, Len(s) - c) /\ Chunks(acc.res, off, c)
  BY <1>6 DEF Split
<1>8. c \in Nat /\ c <= Len(s) /\ Len(acc.cur) = Len(s) - c
  BY <1>1, <1>7 DEF LastCut, Piece
<1>9. SplitOnDoubleNewline(s) = [chunks |-> IF acc.cur = << >> THEN acc.res ELSE Append(acc.res, acc.cur),
                                 panics |-> FALSE]
  BY <1>2, <1>6 DEF Split, acc
<1>10. CASE acc.cur = << >>
  <2>1. c = Len(s)
    BY <1>1, <1>8, <1>10
  <2>. QED  BY <1>7, <1>9, <1>10, <2>1
<1>11. CASE acc.cur # << >>
  <2>. DEFINE i == Len(s) + 1
              len == Len(s) - c
  <2>1. i \in 1 .. Len(s) + 1 /\ i - 1 = Len(s) /\ ~(i <= Len(s)) /\ len \in Nat /\ c + len <= i - 1
    BY <1>1, <1>8
  <2>2. LastCut(s, off, c, i - 1) /\ Piece(acc.cur, s, c, len)
    BY <1>7, <2>1
  <2>. HIDE DEF i, len
  <2>3. Chunks(Append(acc.res, acc.cur), off, IF i <= Len(s) THEN i ELSE Len(s))
    BY <1>7, <2>1, <2>2, ChunkCloses
  <2>. QED  BY <1>9, <1>11, <2>1, <2>3
<1>. QED  BY <1>10, <1>11

-----------------------------------------------------------------------------
(* splitFrames.                                                             *)

From(f, chunks, q) == HasPrefix(chunks[q]) /\ f = Unprefixed(chunks[q])

\* What is kept of the first i chunks: all that pass for frames, in their order.
Kept(out, chunks, i) ==
  /\ out \in Seq(Seq(Tokens))
  /\ \A m \in 1 .. Len(out) : \E q \in 1 .. i : From(out[m], chunks, q)
  /\ \A l, m \in 1 .. Len(out) : l < m =>
       \E p, q \in 1 .. i : p < q /\ From(out[l], chunks, p) /\ From(out[m], chunks, q)
  /\ \A q \in 1 .. i : HasPrefix(chunks[q]) =>
       \E m \in 1 .. Len(out) : From(out[m], chunks, q)

LEMMA KeptMore ==
  ASSUME NEW chunks \in Seq(Seq(Tokens)), NEW i \in 1 .. Len(chunks), NEW out,
         Kept(out, chunks, i - 1)
  PROVE  Kept(IF HasPrefix(chunks[i]) THEN Append(out, Unprefixed(chunks[i])) ELSE out, chunks, i)
<1>1. /\ Len(chunks) \in Nat /\ i \in Nat /\ i \in 1 .. i
      /\ \A q \in 1 .. i - 1 : q \in 1 .. i /\ q < i
      /\ \A q \in 1 .. i : q = i \/ q \in 1 .. i - 1
  OBVIOUS
<1>2. CASE ~HasPrefix(chunks[i])
  <2>1. \A q \in 1 .. i : HasPrefix(chunks[q]) => q \in 1 .. i - 1
    BY <1>1, <1>2
  <2>2. Kept(out, chunks, i)
    BY <1>1, <2>1 DEF Kept
  <2>. QED  BY <1>2, <2>2
<1>3. CASE HasPrefix(chunks[i])
  <2>. DEFINE f == Unprefixed(chunks[i])
              all == Append(out, f)
              last == Len(out) + 1
  <2>1. f \in Seq(Tokens)
    <3>1. chunks[i] \in Seq(Tokens)
      OBVIOUS
    <3>. QED  BY <3>1 DEF Unprefixed
  <2>2. From(f, chunks, i)
    BY <1>3 DEF From
  <2>. HIDE DEF f
  <2>3. out \in Seq(Seq(Tokens)) /\ Len(out) \in Nat
    BY DEF Kept
  <2>4. /\ all \in Seq(Seq(Tokens)) /\ Len(all) = last /\ all[last] = f
        /\ \A m \in 1 .. Len(out) : all[m] = out[m]
    BY <2>1, <2>3, AppendProperties
  <2>5. /\ last \in 1 .. last /\ \A m \in 1 .. Len(out) : m \in 1 .. last /\ m < last
        /\ \A m \in 1 .. last : m = last \/ m \in 1 .. Len(out)
        /\ \A l, m \in 1 .. last : l < m => l \in 1 .. Len(out)
    BY <2>3
  <2>. HIDE DEF all, last
  <2>6. ASSUME NEW m \in 1 .. last PROVE \E q \in 1 .. i : From(all[m], chunks, q)
    <3>1. CASE m = last
      BY <1>1, <2>2, <2>4, <3>1
    <3>2. CASE m \in 1 .. Len(out)
      <4>1. PICK q \in 1 .. i - 1 : From(out[m], chunks, q)
        BY <3>2 DEF Kept
      <4>. QED  BY <1>1, <2>4, <3>2, <4>1
    <3>. QED  BY <2>5, <3>1, <3>2
  <2>7. ASSUME NEW l \in 1 .. last, NEW m \in 1 .. last, l < m
        PROVE  \E p, q \in 1 .. i : p < q /\ From(all[l], chunks, p) /\ From(all[m], chunks, q)
    <3>1. l \in 1 .. Len(out) /\ all[l] = out[l]
      BY <2>4, <2>5, <2>7
    <3>2. CASE m = last
      <4>1. PICK p \in 1 .. i - 1 : From(out[l], chunks, p)
        BY <3>1 DEF Kept
      <4>. QED  BY <1>1, <2>2, <2>4, <3>1, <3>2, <4>1
    <3>3. CASE m \in 1 .. Len(out)
      <4>1. PICK p \in 1 .. i - 1, q \in 1 .. i - 1 :
              p < q /\ From(out[l], chunks, p) /\ From(out[m], chunks, q)
        BY <2>7, <3>1, <3>3 DEF Kept
      <4>. QED  BY <1>1, <2>4, <3>1, <3>3, <4>1
    <3>. QED  BY <2>5, <3>2, <3>3
  <2>8. ASSUME NEW q \in 1 .. i, HasPrefix(chunks[q])
        PROVE  \E m \in 1 .. last : From(all[m], chunks, q)
    <3>1. CASE q = i
      BY <2>2, <2>4, <2>5, <3>1
    <3>2. CASE q \in 1 .. i - 1
      <4>1. PICK m \in 1 .. Len(out) : From(out[m], chunks, q)
        BY <2>8, <3>2 DEF Kept
      <4>. QED  BY <2>4, <2>5, <4>1
    <3>. QED  BY <1>1, <3>1, <3>2
  <2>9. Kept(all, chunks, i)
    BY <2>4, <2>6, <2>7, <2>8 DEF Kept
  <2>. QED  BY <1>3, <2>9 DEF all, f
<1>. QED  BY <1>2, <1>3

LEMMA FramesKept ==
  ASSUME NEW s, SplitOnDoubleNewline(s).chunks \in Seq(Seq(Tokens))
  PROVE  Kept(Frames(s), SplitOnDoubleNewline(s).chunks, Len(SplitOnDoubleNewline(s).chunks))
<1>. DEFINE chunks == SplitOnDoubleNewline(s).chunks
<1>1. chunks \in Seq(Seq(Tokens)) /\ Len(chunks) \in Nat
  OBVIOUS
<1>2. PICK a : Keeps(a, chunks, Len(chunks)) /\ Frames(s) = a[Len(chunks)]
  BY <1>1, FramesSteps
<1>. HIDE DEF chunks
<1>. DEFINE T == {i \in Nat : i <= Len(chunks) => Kept(a[i], chunks, i)}
<1>3. 0 \in T
  <2>1. a[0] = << >>
    BY <1>1, <1>2 DEF Keeps
  <2>2. Kept(<< >>, chunks, 0)
    BY DEF Kept
  <2>. QED  BY <2>1, <2>2
<1>4. ASSUME NEW n \in Nat, n \in T PROVE n + 1 \in T
  <2>. SUFFICES ASSUME n + 1 <= Len(chunks) PROVE Kept(a[n + 1], chunks, n + 1)
    OBVIOUS
  <2>. DEFINE i == n + 1
  <2>1. Kept(a[i - 1], chunks, i - 1) /\ i \in 1 .. Len(chunks)
    BY <1>1, <1>4
  <2>. HIDE DEF i
  <2>2. a[i] = IF HasPrefix(chunks[i]) THEN Append(a[i - 1], Unprefixed(chunks[i])) ELSE a[i - 1]
    <3>1. i \in 0 .. Len(chunks) /\ i # 0
      BY <1>1, <2>1
    <3>. QED  BY <1>2, <3>1 DEF Keeps
  <2>3. Kept(a[i], chunks, i)
    BY <1>1, <2>1, <2>2, KeptMore
  <2>. QED  BY <2>3 DEF i
<1>5. \A n \in Nat : n \in T
  <2>. HIDE DEF T
  <2>. QED  BY <1>3, <1>4, SetInduction
<1>6. Kept(a[Len(chunks)], chunks, Len(chunks))
  BY <1>1, <1>5
<1>. QED  BY <1>2, <1>6 DEF chunks

\* f is a beginning of the text of event n, with at most one of its newlines.
FrameOf(f, n) ==
  f \in Seq(Tokens) /\ 1 <= Len(f) /\ Len(f) <= 3 /\ \A k \in 1 .. Len(f) : f[k] = Written(n)[k + 2]

\* What one read relays.
Relays(out, off, len) ==
  /\ out \in Seq(Seq(Tokens))
  /\ \A m \in 1 .. Len(out) :
       \E n \in Positive : FrameOf(out[m], n) /\ off <= 6 * (n - 1) /\ 6 * (n - 1) < off + len
  /\ \A l, m \in 1 .. Len(out) : l < m => OfEvent(out[l]) < OfEvent(out[m])
  /\ \A n \in Positive : (off <= 6 * (n - 1) /\ off + 1 # 6 * (n - 1) /\ 6 * n <= off + len) =>
       \E m \in 1 .. Len(out) : out[m] = Body(n)

\* A frame of a chunk, behind its prefix.
LEMMA FrameBehind ==
  ASSUME NEW ch, NEW len \in Nat, Piece(ch, ch, 0, len), HasPrefix(ch), NEW n \in Positive, Fits(ch, n)
  PROVE  /\ FrameOf(Unprefixed(ch), n) /\ OfEvent(Unprefixed(ch)) = n /\ ch[1].of = n
         /\ len = 4 => Unprefixed(ch) = Body(n)
<1>. DEFINE f == Unprefixed(ch)
<1>1. Len(ch) = len /\ ch \in Seq(Tokens)
  BY DEF Piece
<1>2. 3 <= len /\ len <= 5
  <2>1. Len(ch) > 2 /\ Len(ch) <= 5
    BY DEF HasPrefix, Fits
  <2>. QED  BY <1>1, <2>1
<1>3. f \in Seq(Tokens) /\ Len(f) = len - 2 /\ \A k \in 1 .. len - 2 : f[k] = ch[k + 2]
  BY <1>1, <1>2 DEF Unprefixed
<1>4. \A k \in 1 .. len - 2 : f[k] = Written(n)[k + 2]
  <2>1. \A k \in 1 .. len - 2 : k + 2 \in 1 .. len
    BY <1>2
  <2>2. \A k \in 1 .. len : ch[k] = Written(n)[k]
    BY <1>1 DEF Fits
  <2>. QED  BY <1>3, <2>1, <2>2
<1>. HIDE DEF f
<1>5. FrameOf(f, n)
  <2>1. 1 <= len - 2 /\ len - 2 <= 3
    BY <1>2
  <2>. QED  BY <1>3, <1>4, <2>1 DEF FrameOf
<1>6. n \in Nat /\ 1 \in 1 .. len - 2 /\ 1 \in 1 .. len
  BY <1>2 DEF Positive
<1>7. OfEvent(f) = n
  <2>1. f[1] = Written(n)[1 + 2]
    BY <1>4, <1>6
  <2>2. Written(n)[3].of = n
    BY <1>6, WrittenHead
  <2>3. f[1] = Written(n)[3]
    <3>1. 1 + 2 = 3
      OBVIOUS
    <3>. QED  BY <2>1, <3>1
  <2>. QED  BY <2>2, <2>3 DEF OfEvent
<1>8. ch[1].of = n
  <2>1. ch[1] = Written(n)[1]
    BY <1>1, <1>6 DEF Fits
  <2>. QED  BY <1>6, <2>1, WrittenHead
<1>9. ASSUME len = 4 PROVE f = Body(n)
  <2>1. /\ Body(n) \in Seq(Tokens) /\ Len(Body(n)) = 2
        /\ \A k \in 1 .. 2 : Body(n)[k] = Written(n)[k + 2]
    <3>. DEFINE w == Written(n)
    <3>1. w \in Seq(Tokens) /\ Len(w) = 6
      BY <1>6, WrittenText
    <3>. HIDE DEF w
    <3>2. /\ SubSeq(w, 3, 4) \in Seq(Tokens) /\ Len(SubSeq(w, 3, 4)) = 2
          /\ \A k \in 1 .. 2 : SubSeq(w, 3, 4)[k] = w[k + 2]
      <4>. DEFINE v == SubSeq(w, 3, 4)
      <4>1. v \in Seq(Tokens)
        <5>1. \A k \in 3 .. 4 : w[k] \in Tokens
          BY <1>6, WrittenParts DEF w
        <5>. QED  BY <5>1, SubSeqProperties
      <4>2. Len(v) = 2
        BY <3>1
      <4>3. ASSUME NEW k \in 1 .. 2 PROVE v[k] = w[k + 2]
        BY <3>1
      <4>. QED  BY <4>1, <4>2, <4>3
    <3>. QED  BY <3>2 DEF Body, w
  <2>2. Len(f) = 2 /\ \A k \in 1 .. Len(f) : f[k] = Body(n)[k]
    BY <1>3, <1>4, <1>9, <2>1
  <2>. QED  BY <1>3, <2>1, <2>2, SeqEqual
<1>. QED  BY <1>5, <1>7, <1>8, <1>9 DEF f

LEMMA ReadRelays ==
  ASSUME NEW off \in Nat, NEW s, Along(s, off)
  PROVE  SplitOnDoubleNewline(s).panics = FALSE /\ Relays(Frames(s), off, Len(s))
<1>. DEFINE chunks == SplitOnDoubleNewline(s).chunks
            out == Frames(s)
<1>1. SplitOnDoubleNewline(s).panics = FALSE /\ Chunks(chunks, off, Len(s))
  BY SplitSound
<1>2. chunks \in Seq(Seq(Tokens))
  BY <1>1 DEF Chunks
<1>3. Kept(out, chunks, Len(chunks))
  BY <1>2, FramesKept
<1>. HIDE DEF chunks, out
<1>4. ASSUME NEW q \in 1 .. Len(chunks)
      PROVE  Len(chunks[q]) \in Nat /\ Piece(chunks[q], chunks[q], 0, Len(chunks[q]))
  <2>1. chunks[q] \in Seq(Tokens)
    BY <1>2
  <2>2. Len(chunks[q]) \in Nat
    BY <2>1
  <2>. QED  BY <2>1, <2>2 DEF Piece
<1>5. ASSUME NEW f, NEW q \in 1 .. Len(chunks), From(f, chunks, q)
      PROVE  \E n \in Positive : /\ FrameOf(f, n) /\ off <= 6 * (n - 1) /\ 6 * (n - 1) < off + Len(s)
                                 /\ OfEvent(f) = n /\ chunks[q][1].of = n
  <2>1. HasPrefix(chunks[q]) /\ f = Unprefixed(chunks[q])
    BY <1>5 DEF From
  <2>2. PICK n \in Positive :
          Fits(chunks[q], n) /\ off <= 6 * (n - 1) /\ 6 * (n - 1) < off + Len(s)
    BY <1>1, <2>1 DEF Chunks
  <2>. QED  BY <1>5, <2>1, <2>2, <1>4, FrameBehind
<1>6. ASSUME NEW m \in 1 .. Len(out)
      PROVE  \E n \in Positive : FrameOf(out[m], n) /\ off <= 6 * (n - 1) /\ 6 * (n - 1) < off + Len(s)
  <2>1. PICK q \in 1 .. Len(chunks) : From(out[m], chunks, q)
    BY <1>3 DEF Kept
  <2>. QED  BY <1>5, <2>1
<1>7. ASSUME NEW l \in 1 .. Len(out), NEW m \in 1 .. Len(out), l < m
      PROVE  OfEvent(out[l]) < OfEvent(out[m])
  <2>1. PICK p \in 1 .. Len(chunks), q \in 1 .. Len(chunks) :
          p < q /\ From(out[l], chunks, p) /\ From(out[m], chunks, q)
    BY <1>3, <1>7 DEF Kept
  <2>2. OfEvent(out[l]) = chunks[p][1].of /\ OfEvent(out[m]) = chunks[q][1].of
    BY <1>5, <2>1
  <2>3. chunks[p][1].of < chunks[q][1].of
    BY <1>1, <2>1 DEF Chunks, From
  <2>. QED  BY <2>2, <2>3
<1>8. ASSUME NEW n \in Positive, off <= 6 * (n - 1), off + 1 # 6 * (n - 1), 6 * n <= off + Len(s)
      PROVE  \E m \in 1 .. Len(out) : out[m] = Body(n)
  <2>1. PICK q \in 1 .. Len(chunks) : Len(chunks[q]) = 4 /\ Fits(chunks[q], n)
    BY <1>1, <1>8 DEF Chunks
  <2>2. HasPrefix(chunks[q])
    <3>1. 1 \in 1 .. Len(chunks[q]) /\ 2 \in 1 .. Len(chunks[q]) /\ n \in Nat
      BY <2>1 DEF Positive
    <3>2. chunks[q][1] = Written(n)[1] /\ chunks[q][2] = Written(n)[2]
      BY <2>1, <3>1 DEF Fits
    <3>3. /\ Written(n)[1].is = "da"
          /\ Written(n)[2].is = "ta: "
      BY <3>1, WrittenHead
    <3>5. chunks[q][1].is = "da" /\ chunks[q][2].is = "ta: "
      BY <3>2, <3>3
    <3>4. Len(chunks[q]) > 2
      BY <2>1
    <3>. QED  BY <3>4, <3>5 DEF HasPrefix
  <2>3. PICK m \in 1 .. Len(out) : From(out[m], chunks, q)
    BY <1>3, <2>2 DEF Kept
  <2>. QED  BY <2>1, <2>2, <2>3, <1>4, FrameBehind DEF From
<1>9. Relays(out, off, Len(s))
  BY <1>3, <1>6, <1>7, <1>8 DEF Relays, Kept
<1>. QED  BY <1>1, <1>9 DEF out

-----------------------------------------------------------------------------
(* The stream.                                                              *)

\* How much of the stream has been read.
Behind == 6 * sent - Len(wire)

Ascending(frames) ==
  \A l, m \in 1 .. Len(frames) : l < m => OfEvent(frames[l]) < OfEvent(frames[m])

Inv ==
  /\ sent \in 0 .. MaxEvents
  /\ Behind \in Nat /\ Along(wire, Behind)
  /\ state \in {"reading", "ended"}
  /\ relayed \in Seq(Seq(Tokens)) /\ Ascending(relayed)
  /\ \A m \in 1 .. Len(relayed) :
       \E n \in Positive : FrameOf(relayed[m], n) /\ 6 * (n - 1) < Behind

LEMMA FrameEvent ==
  ASSUME NEW f, NEW n \in Positive, FrameOf(f, n)
  PROVE  OfEvent(f) = n /\ OfEvent(f) \in Nat
<1>. DEFINE len == Len(f)
<1>1. len \in Nat /\ 1 <= len /\ \A k \in 1 .. len : f[k] = Written(n)[k + 2]
  BY DEF FrameOf
<1>. HIDE DEF len
<1>2. 1 \in 1 .. len /\ 1 + 2 = 3
  BY <1>1
<1>3. f[1] = Written(n)[3]
  BY <1>1, <1>2
<1>4. n \in Nat
  BY DEF Positive
<1>5. Written(n)[3].of = n
  BY <1>4, WrittenHead
<1>. QED  BY <1>3, <1>4, <1>5 DEF OfEvent

\* What a read relays comes behind all that was relayed before.
LEMMA RelaysMore ==
  ASSUME NEW off \in Nat, NEW len \in Nat, NEW old \in Seq(Seq(Tokens)), Ascending(old),
         \A m \in 1 .. Len(old) : \E n \in Positive : FrameOf(old[m], n) /\ 6 * (n - 1) < off,
         NEW out, Relays(out, off, len)
  PROVE  /\ old \o out \in Seq(Seq(Tokens)) /\ Ascending(old \o out)
         /\ \A m \in 1 .. Len(old \o out) :
              \E n \in Positive : FrameOf((old \o out)[m], n) /\ 6 * (n - 1) < off + len
<1>. DEFINE all == old \o out
            p == Len(old)
            q == Len(out)
<1>1. out \in Seq(Seq(Tokens)) /\ p \in Nat /\ q \in Nat
  BY DEF Relays
<1>2. /\ all \in Seq(Seq(Tokens)) /\ Len(all) = p + q
      /\ \A i \in 1 .. p + q : all[i] = IF i <= p THEN old[i] ELSE out[i - p]
  BY <1>1, ConcatProperties
<1>3. \A m \in 1 .. p : \E n \in Positive : FrameOf(old[m], n) /\ 6 * (n - 1) < off
  OBVIOUS
<1>4. \A m \in 1 .. q :
        \E n \in Positive : FrameOf(out[m], n) /\ off <= 6 * (n - 1) /\ 6 * (n - 1) < off + len
  BY DEF Relays
<1>5. /\ \A l, m \in 1 .. p : l < m => OfEvent(old[l]) < OfEvent(old[m])
      /\ \A l, m \in 1 .. q : l < m => OfEvent(out[l]) < OfEvent(out[m])
  BY DEF Ascending, Relays
<1>. HIDE DEF all, p, q
<1>6. ASSUME NEW m \in 1 .. p + q
      PROVE  \E n \in Positive : FrameOf(all[m], n) /\ 6 * (n - 1) < off + len
  <2>1. CASE m <= p
    <3>1. m \in 1 .. p /\ all[m] = old[m]
      BY <1>1, <1>2, <2>1
    <3>2. PICK n \in Positive : FrameOf(old[m], n) /\ 6 * (n - 1) < off
      BY <1>3, <3>1
    <3>3. 6 * (n - 1) < off + len
      BY <3>2 DEF Positive
    <3>. QED  BY <3>1, <3>2, <3>3
  <2>2. CASE ~(m <= p)
    <3>1. m - p \in 1 .. q /\ all[m] = out[m - p]
      BY <1>1, <1>2, <2>2
    <3>. QED  BY <1>4, <3>1
  <2>. QED  BY <2>1, <2>2
<1>7. ASSUME NEW l \in 1 .. p + q, NEW m \in 1 .. p + q, l < m
      PROVE  OfEvent(all[l]) < OfEvent(all[m])
  <2>1. CASE m <= p
    <3>1. l \in 1 .. p /\ m \in 1 .. p /\ all[l] = old[l] /\ all[m] = old[m]
      BY <1>1, <1>2, <1>7, <2>1
    <3>. QED  BY <1>5, <1>7, <3>1
  <2>2. CASE ~(l <= p)
    <3>1. ~(m <= p) /\ l - p \in 1 .. q /\ m - p \in 1 .. q /\ l - p < m - p
      BY <1>1, <1>7, <2>2
    <3>2. all[l] = out[l - p] /\ all[m] = out[m - p]
      BY <1>2, <2>2, <3>1
    <3>. QED  BY <1>5, <3>1, <3>2
  <2>3. CASE l <= p /\ ~(m <= p)
    <3>1. l \in 1 .. p /\ m - p \in 1 .. q /\ all[l] = old[l] /\ all[m] = out[m - p]
      BY <1>1, <1>2, <2>3
    <3>2. PICK n \in Positive : FrameOf(old[l], n) /\ 6 * (n - 1) < off
      BY <1>3, <3>1
    <3>3. PICK r \in Positive : FrameOf(out[m - p], r) /\ off <= 6 * (r - 1)
      BY <1>4, <3>1
    <3>4. OfEvent(old[l]) = n /\ OfEvent(out[m - p]) = r
      BY <3>2, <3>3, FrameEvent
    <3>5. n < r
      BY <3>2, <3>3 DEF Positive
    <3>. QED  BY <3>1, <3>4, <3>5
  <2>. QED  BY <2>1, <2>2, <2>3
<1>8. Ascending(all)
  BY <1>2, <1>7 DEF Ascending
<1>. QED  BY <1>2, <1>6, <1>8 DEF all

LEMMA InitInv == Init => Inv
<1>. SUFFICES ASSUME Init PROVE Inv
  OBVIOUS
<1>1. sent = 0 /\ wire = << >> /\ relayed = << >> /\ state = "reading"
  BY DEF Init
<1>2. Behind = 0
  <2>1. Len(wire) = 0
    BY <1>1
  <2>2. 6 * sent - Len(wire) = 6 * 0 - 0
    BY <1>1, <2>1
  <2>. QED  BY <2>2 DEF Behind
<1>3. Along(wire, Behind)
  BY <1>1 DEF Along
<1>. QED  BY <1>1, <1>2, <1>3, FrameAssumption DEF Inv, Ascending

LEMMA WriteInv == Inv /\ CarrierWrites => Inv'
<1>. SUFFICES ASSUME Inv, CarrierWrites PROVE Inv'
  OBVIOUS
<1>. DEFINE e == sent + 1
            w == Written(e)
            old == Len(wire)
<1>1. /\ sent \in Nat /\ e \in Nat /\ sent' = e /\ e <= MaxEvents /\ MaxEvents \in Nat
      /\ wire \in Seq(Tokens) /\ old \in Nat /\ wire' = wire \o w
  BY FrameAssumption DEF Inv, Along, CarrierWrites
<1>2. w \in Seq(Tokens) /\ Len(w) = 6
  BY <1>1, WrittenText
<1>. HIDE DEF w
<1>3. /\ wire' \in Seq(Tokens) /\ Len(wire') = old + 6
      /\ \A i \in 1 .. old + 6 : wire'[i] = IF i <= old THEN wire[i] ELSE w[i - old]
  <2>1. /\ wire \o w \in Seq(Tokens) /\ Len(wire \o w) = Len(wire) + Len(w)
        /\ \A i \in 1 .. Len(wire) + Len(w) :
             (wire \o w)[i] = IF i <= Len(wire) THEN wire[i] ELSE w[i - Len(wire)]
    BY <1>1, <1>2, ConcatProperties
  <2>. QED  BY <1>1, <1>2, <2>1
<1>4. Behind = 6 * sent - old /\ Behind \in Nat
  BY DEF Inv, Behind
<1>5. Behind' = Behind
  BY <1>1, <1>3, <1>4 DEF Behind
<1>. HIDE DEF e
<1>6. ASSUME NEW k \in 1 .. old + 6, NEW n \in Positive, NEW j \in 1 .. 6,
             Behind + k = 6 * (n - 1) + j
      PROVE  wire'[k] = Written(n)[j]
  <2>1. CASE k <= old
    <3>1. k \in 1 .. old /\ wire'[k] = wire[k]
      BY <1>1, <1>3, <2>1
    <3>. QED  BY <1>6, <3>1 DEF Inv, Along
  <2>2. CASE ~(k <= old)
    <3>1. wire'[k] = w[k - old]
      BY <1>1, <1>3, <2>2
    <3>2. n = sent + 1 /\ j = k - old
      BY <1>1, <1>4, <1>6, <2>2 DEF Positive
    <3>. QED  BY <3>1, <3>2 DEF w, e
  <2>. QED  BY <2>1, <2>2
<1>7. Along(wire', Behind)
  BY <1>3, <1>6 DEF Along
<1>8. relayed' = relayed /\ state' = state
  BY DEF CarrierWrites
<1>9. sent' \in 0 .. MaxEvents
  BY <1>1
<1>. QED  BY <1>5, <1>7, <1>8, <1>9 DEF Inv, Ascending, e

\* What a read is, whatever its length.
LEMMA ReadStep ==
  ASSUME Inv, NEW len \in 1 .. BufLen, Read(len)
  PROVE  /\ len \in Nat /\ Len(wire) - Len(wire') = len /\ Chunk = SubSeq(wire, 1, len)
         /\ Along(Chunk, Behind) /\ Len(Chunk) = len
         /\ Along(wire', Behind + len) /\ Behind' = Behind + len
         /\ Relays(Frames(Chunk), Behind, len)
         /\ relayed' = relayed \o Frames(Chunk) /\ state' = state /\ sent' = sent
<1>1. len \in 1 .. Len(wire) /\ Along(wire, Behind) /\ Behind \in Nat
  BY DEF Inv, Read
<1>2. wire \in Seq(Tokens) /\ Len(wire) \in Nat /\ len \in Nat /\ sent \in Nat
  BY <1>1, FrameAssumption DEF Along, Inv
<1>3. wire' = SubSeq(wire, len + 1, Len(wire)) /\ sent' = sent
  BY DEF Read
<1>4. /\ Along(SubSeq(wire, 1, len), Behind) /\ Len(SubSeq(wire, 1, len)) = len
      /\ Along(wire', Behind + len) /\ Len(wire') = Len(wire) - len
  BY <1>1, <1>3, TextRead
<1>5. Len(wire) - Len(wire') = len
  BY <1>2, <1>4
<1>6. Chunk = SubSeq(wire, 1, len)
  BY <1>5 DEF Chunk
<1>7. Behind' = Behind + len
  <2>1. Behind' = 6 * sent - (Len(wire) - len)
    BY <1>3, <1>4 DEF Behind
  <2>2. Behind = 6 * sent - Len(wire)
    BY DEF Behind
  <2>. QED  BY <1>2, <2>1, <2>2
<1>8. SplitOnDoubleNewline(SubSeq(wire, 1, len)).panics = FALSE /\ Relays(Frames(Chunk), Behind, len)
  <2>. DEFINE s == SubSeq(wire, 1, len)
  <2>1. Along(s, Behind) /\ Len(s) = len /\ s = Chunk
    BY <1>4, <1>6
  <2>. HIDE DEF s
  <2>2. SplitOnDoubleNewline(s).panics = FALSE /\ Relays(Frames(s), Behind, Len(s))
    BY <1>1, <2>1, ReadRelays
  <2>. QED  BY <2>1, <2>2 DEF s
<1>9. relayed' = relayed \o Frames(Chunk) /\ state' = state
  BY <1>6, <1>8 DEF Read
<1>. QED  BY <1>2, <1>3, <1>4, <1>5, <1>6, <1>7, <1>8, <1>9

LEMMA NextInv == Inv /\ [Next]_vars => Inv'
<1>. SUFFICES ASSUME Inv, [Next]_vars PROVE Inv'
  OBVIOUS
<1>1. CASE CarrierWrites
  BY <1>1, WriteInv
<1>2. ASSUME NEW len \in 1 .. BufLen, Read(len) PROVE Inv'
  <2>1. /\ len \in Nat /\ Along(wire', Behind + len) /\ Behind' = Behind + len
        /\ Relays(Frames(Chunk), Behind, len)
        /\ relayed' = relayed \o Frames(Chunk) /\ state' = state /\ sent' = sent
    BY <1>2, ReadStep
  <2>2. /\ Behind \in Nat /\ relayed \in Seq(Seq(Tokens)) /\ Ascending(relayed)
        /\ \A m \in 1 .. Len(relayed) :
             \E n \in Positive : FrameOf(relayed[m], n) /\ 6 * (n - 1) < Behind
    BY DEF Inv
  <2>3. /\ relayed' \in Seq(Seq(Tokens)) /\ Ascending(relayed')
        /\ \A m \in 1 .. Len(relayed') :
             \E n \in Positive : FrameOf(relayed'[m], n) /\ 6 * (n - 1) < Behind + len
    BY <2>1, <2>2, RelaysMore
  <2>4. Ascending(relayed)'
    BY <2>3 DEF Ascending
  <2>5. Behind' \in Nat /\ Along(wire', Behind')
    BY <2>1, <2>2
  <2>6. state' \in {"reading", "ended"} /\ sent' \in 0 .. MaxEvents
    BY <2>1 DEF Inv
  <2>. QED  BY <2>1, <2>3, <2>4, <2>5, <2>6 DEF Inv
<1>3. CASE Ends \/ UNCHANGED vars
  <2>1. sent' = sent /\ wire' = wire /\ relayed' = relayed /\ state' \in {"reading", "ended"}
    BY <1>3 DEF Ends, vars, Inv
  <2>2. Behind' = Behind
    BY <2>1 DEF Behind
  <2>. QED  BY <2>1, <2>2 DEF Inv, Ascending
<1>. QED  BY <1>1, <1>2, <1>3 DEF Next

LEMMA AlwaysInv == Spec => []Inv
BY InitInv, NextInv, PTL DEF Spec

\* However the stream is cut into reads, the splitter does not panic, for any number
\* of events and any buffer.
THEOREM NoPanic == Spec => []NeverPanics
<1>1. Inv => NeverPanics
  BY DEF Inv, NeverPanics
<1>. QED  BY <1>1, AlwaysInv, PTL

LEMMA FrameIsPrefix ==
  ASSUME NEW f, NEW n \in Positive, FrameOf(f, n)
  PROVE  IsPrefix(f, Append(Body(n), Token(n, "nl")))
<1>. DEFINE w == Written(n)
            b == SubSeq(w, 3, 4)
            t == Append(b, w[5])
            len == Len(f)
<1>1. n \in Nat /\ w \in Seq(Tokens) /\ Len(w) = 6 /\ w[5] = Token(n, "nl")
  BY WrittenText DEF Positive
<1>2. \A k \in 1 .. 6 : w[k] \in Tokens
  BY <1>1, WrittenParts
<1>3. /\ f \in Seq(Tokens) /\ len \in Nat /\ 1 <= len /\ len <= 3
      /\ \A k \in 1 .. len : f[k] = w[k + 2]
  BY DEF FrameOf
<1>. HIDE DEF w
<1>4. b \in Seq(Tokens) /\ Len(b) = 2 /\ \A k \in 1 .. 2 : b[k] = w[k + 2]
  <2>1. \A k \in 3 .. 4 : w[k] \in Tokens
    BY <1>2
  <2>2. b \in Seq(Tokens)
    BY <2>1, SubSeqProperties
  <2>3. Len(b) = 2
    BY <1>1
  <2>4. ASSUME NEW k \in 1 .. 2 PROVE b[k] = w[k + 2]
    BY <1>1
  <2>. QED  BY <2>2, <2>3, <2>4
<1>. HIDE DEF b
<1>5. /\ t \in Seq(Tokens) /\ Len(t) = 3 /\ t[3] = w[5]
      /\ \A k \in 1 .. 2 : t[k] = b[k]
  <2>1. w[5] \in Tokens
    BY <1>2
  <2>2. /\ t \in Seq(Tokens) /\ Len(t) = Len(b) + 1 /\ t[Len(b) + 1] = w[5]
        /\ \A k \in 1 .. Len(b) : t[k] = b[k]
    <3>1. b \in Seq(Tokens)
      BY <1>4
    <3>. DEFINE z == w[5]
    <3>2. z \in Tokens
      BY <2>1
    <3>. HIDE DEF z
    <3>3. /\ Append(b, z) \in Seq(Tokens) /\ Len(Append(b, z)) = Len(b) + 1
          /\ Append(b, z)[Len(b) + 1] = z
          /\ \A k \in 1 .. Len(b) : Append(b, z)[k] = b[k]
      BY <3>1, <3>2, AppendProperties
    <3>. QED  BY <3>3 DEF z
  <2>3. Len(b) + 1 = 3 /\ \A k \in 1 .. 2 : k \in 1 .. Len(b)
    BY <1>4
  <2>. QED  BY <2>2, <2>3
<1>6. \A k \in 1 .. 3 : t[k] = w[k + 2]
  <2>1. \A k \in 1 .. 3 : k \in 1 .. 2 \/ k = 3
    OBVIOUS
  <2>2. 3 + 2 = 5
    OBVIOUS
  <2>. QED  BY <1>4, <1>5, <2>1, <2>2
<1>. HIDE DEF t, len
<1>7. len <= Len(t)
  BY <1>3, <1>5
<1>8. \A k \in 1 .. len : k \in 1 .. 3 /\ f[k] \in Tokens /\ t[k] \in Tokens /\ f[k] = t[k]
  <2>1. \A k \in 1 .. len : k \in 1 .. 3 /\ k + 2 \in 1 .. 6
    BY <1>3
  <2>. QED  BY <1>2, <1>3, <1>6, <2>1
<1>. DEFINE u == SubSeq(f, 1, len)
            v == SubSeq(t, 1, len)
<1>9. /\ u \in Seq(Tokens) /\ Len(u) = len /\ \A k \in 1 .. len : u[k] = f[k]
      /\ v \in Seq(Tokens) /\ Len(v) = len /\ \A k \in 1 .. len : v[k] = t[k]
  <2>1. \A k \in 1 .. len : f[k] \in Tokens /\ t[k] \in Tokens
    BY <1>8
  <2>2. /\ u \in Seq(Tokens) /\ Len(u) = (IF 1 <= len THEN len - 1 + 1 ELSE 0)
        /\ \A k \in 1 .. len - 1 + 1 : u[k] = f[1 + k - 1]
    BY <1>3, <2>1, SubSeqProperties
  <2>3. /\ v \in Seq(Tokens) /\ Len(v) = (IF 1 <= len THEN len - 1 + 1 ELSE 0)
        /\ \A k \in 1 .. len - 1 + 1 : v[k] = t[1 + k - 1]
    BY <1>3, <2>1, SubSeqProperties
  <2>. HIDE DEF u, v
  <2>4. len - 1 + 1 = len /\ \A k \in 1 .. len : 1 + k - 1 = k
    BY <1>3
  <2>. QED  BY <1>3, <2>2, <2>3, <2>4
<1>10. u = v
  <2>. HIDE DEF u, v
  <2>1. Len(u) = Len(v) /\ \A k \in 1 .. Len(u) : u[k] = v[k]
    BY <1>8, <1>9
  <2>. QED  BY <1>9, <2>1, SeqEqual
<1>11. IsPrefix(f, t)
  BY <1>7, <1>10 DEF IsPrefix, len
<1>. QED  BY <1>1, <1>11 DEF Body, b, t, w

\* However the stream is cut, every frame relayed is a beginning of one event, and
\* the frames come in the order of their events.
THEOREM FramesAreEvents == Spec => []OneEventPerFrame
<1>1. Inv => OneEventPerFrame
  <2>. SUFFICES ASSUME Inv PROVE OneEventPerFrame
    OBVIOUS
  <2>1. DOMAIN relayed = 1 .. Len(relayed)
    BY DEF Inv
  <2>2. ASSUME NEW i \in 1 .. Len(relayed)
        PROVE  IsPrefix(relayed[i], Append(Body(OfEvent(relayed[i])), Token(OfEvent(relayed[i]), "nl")))
    <3>1. PICK n \in Positive : FrameOf(relayed[i], n)
      BY DEF Inv
    <3>. QED  BY <3>1, FrameEvent, FrameIsPrefix
  <2>3. \A i, j \in 1 .. Len(relayed) : i < j => OfEvent(relayed[i]) < OfEvent(relayed[j])
    BY DEF Inv, Ascending
  <2>. QED  BY <2>1, <2>2, <2>3 DEF OneEventPerFrame
<1>. QED  BY <1>1, AlwaysInv, PTL

\* Where an event stands in the text of a read, and whether it is relayed.
LEMMA WholeRelayed ==
  ASSUME NEW off \in Nat, NEW s, Along(s, off), NEW out, Relays(out, off, Len(s)),
         NEW i \in 1 .. Len(s), NEW n \in Positive,
         i + Len(Written(n)) - 1 <= Len(s),
         SubSeq(s, i, i + Len(Written(n)) - 1) = Written(n),
         ~(i = 2 /\ IsNewline(s[1]))
  PROVE  \E m \in 1 .. Len(out) : out[m] = Body(n)
<1>1. n \in Nat /\ s \in Seq(Tokens) /\ Len(s) \in Nat /\ i \in Nat /\ 1 <= i
  BY DEF Along, Positive
<1>2. Len(Written(n)) = 6 /\ Written(n)[1].of = n /\ Written(n)[1].is = "da"
  BY <1>1, WrittenText, WrittenHead
<1>3. i + 5 <= Len(s) /\ SubSeq(s, i, i + 5) = Written(n)
  <2>1. i + 6 - 1 = i + 5
    BY <1>1
  <2>. QED  BY <1>2, <2>1
<1>4. s[i] = Written(n)[1]
  <2>1. \A k \in i .. i + 5 : s[k] \in Tokens
    BY <1>1, <1>3
  <2>2. \A k \in 1 .. (i + 5) - i + 1 : SubSeq(s, i, i + 5)[k] = s[i + k - 1]
    BY <1>1, <2>1, SubSeqProperties
  <2>3. 1 \in 1 .. (i + 5) - i + 1 /\ i + 1 - 1 = i
    BY <1>1
  <2>4. SubSeq(s, i, i + 5)[1] = s[i]
    BY <2>2, <2>3
  <2>. QED  BY <1>3, <2>4
<1>5. off + i = 6 * (n - 1) + 1
  <2>1. PICK q \in Positive, j \in 1 .. 6 : off + i = 6 * (q - 1) + j /\ s[i] = Written(q)[j]
    BY TokenAt
  <2>2. q \in Nat
    BY DEF Positive
  <2>3. Written(q)[j].of = q /\ (Written(q)[j].is = "da" <=> j = 1)
    BY <2>2, WrittenParts
  <2>4. q = n /\ j = 1
    BY <1>2, <1>4, <2>1, <2>3
  <2>. QED  BY <2>1, <2>4
<1>6. off <= 6 * (n - 1) /\ 6 * n <= off + Len(s)
  BY <1>1, <1>3, <1>5
<1>7. off + 1 # 6 * (n - 1)
  <2>. SUFFICES ASSUME off + 1 = 6 * (n - 1) PROVE FALSE
    OBVIOUS
  <2>1. i = 2 /\ n - 1 \in Positive /\ 1 \in 1 .. Len(s) /\ n - 1 \in Nat
    BY <1>1, <1>3, <1>5 DEF Positive
  <2>2. off + 1 = 6 * ((n - 1) - 1) + 6
    BY <2>1
  <2>3. 6 \in 1 .. 6
    OBVIOUS
  <2>4. s[1] = Written(n - 1)[6]
    BY <2>1, <2>2, <2>3 DEF Along
  <2>5. IsNewline(s[1])
    BY <2>1, <2>3, <2>4, WrittenParts
  <2>. QED  BY <2>1, <2>5
<1>. QED  BY <1>6, <1>7 DEF Relays

\* After any cut the splitter is in step again within one event, for any number of
\* events and any buffer.
THEOREM SoonInStep == Spec => BackInStep
<1>. DEFINE Again ==
       sent' = sent =>
         \A i \in 1 .. Len(Chunk), n \in Events :
           ( /\ i + Len(Written(n)) - 1 <= Len(Chunk)
             /\ SubSeq(Chunk, i, i + Len(Written(n)) - 1) = Written(n)
             /\ ~(i = 2 /\ IsNewline(Chunk[1])) )
           => Body(n) \in Range(relayed')
<1>1. ASSUME Inv, [Next]_vars PROVE [Again]_vars
  <2>1. CASE CarrierWrites
    <3>1. sent' # sent
      BY <1>1, <2>1, FrameAssumption DEF CarrierWrites, Inv
    <3>. QED  BY <3>1
  <2>2. ASSUME NEW len \in 1 .. BufLen, Read(len) PROVE Again
    <3>1. /\ len \in Nat /\ Along(Chunk, Behind) /\ Len(Chunk) = len
          /\ Relays(Frames(Chunk), Behind, len)
          /\ relayed' = relayed \o Frames(Chunk)
      BY <1>1, <2>2, ReadStep
    <3>2. ASSUME NEW i \in 1 .. Len(Chunk), NEW n \in Events,
                 i + Len(Written(n)) - 1 <= Len(Chunk),
                 SubSeq(Chunk, i, i + Len(Written(n)) - 1) = Written(n),
                 ~(i = 2 /\ IsNewline(Chunk[1]))
          PROVE  Body(n) \in Range(relayed')
      <4>1. n \in Positive
        BY FrameAssumption DEF Events, Positive
      <4>2. Behind \in Nat /\ relayed \in Seq(Seq(Tokens))
        BY <1>1 DEF Inv
      <4>. DEFINE s == Chunk
                  out == Frames(s)
      <4>3. Along(s, Behind) /\ Relays(out, Behind, Len(s))
        BY <3>1
      <4>4. \E m \in 1 .. Len(out) : out[m] = Body(n)
        <5>. HIDE DEF out
        <5>. QED  BY <3>2, <4>1, <4>2, <4>3, WholeRelayed
      <4>5. out \in Seq(Seq(Tokens)) /\ relayed' = relayed \o out
        BY <3>1 DEF Relays
      <4>. HIDE DEF out, s
      <4>6. PICK m \in 1 .. Len(out) : out[m] = Body(n)
        BY <4>4
      <4>. DEFINE all == relayed \o out
                  p == Len(relayed)
                  q == Len(out)
      <4>7. /\ p \in Nat /\ q \in Nat /\ all \in Seq(Seq(Tokens)) /\ Len(all) = p + q
            /\ \A k \in 1 .. p + q : all[k] = IF k <= p THEN relayed[k] ELSE out[k - p]
        BY <4>2, <4>5, ConcatProperties
      <4>8. m \in 1 .. q
        BY <4>6
      <4>. HIDE DEF all, p, q
      <4>9. p + m \in 1 .. p + q /\ ~(p + m <= p) /\ (p + m) - p = m
        BY <4>7, <4>8
      <4>10. all[p + m] = Body(n)
        BY <4>6, <4>7, <4>9
      <4>11. p + m \in DOMAIN all
        BY <4>7, <4>9
      <4>12. relayed' = all
        BY <4>5 DEF all
      <4>. QED  BY <4>10, <4>11, <4>12 DEF Range
    <3>. QED  BY <3>2
  <2>3. CASE Ends
    <3>1. wire' = wire /\ Len(wire) \in Nat
      BY <1>1, <2>3 DEF Ends, Inv, Along
    <3>2. Len(wire) - Len(wire') = 0
      BY <3>1
    <3>3. Chunk = << >>
      BY <3>2 DEF Chunk
    <3>4. 1 .. Len(Chunk) = {}
      BY <3>3
    <3>. QED  BY <3>4
  <2>. QED  BY <1>1, <2>1, <2>2, <2>3 DEF Next
<1>. QED  BY <1>1, AlwaysInv, PTL DEF Spec, BackInStep
=============================================================================
