------------------------------ MODULE TextProofs ------------------------------
(***************************************************************************)
(* What the functions of Text read, of any file: characters, then lines,   *)
(* then characters by lines.                                               *)
(***************************************************************************)
EXTENDS TextProps, FoldingProofs, SequenceTheorems

Str == Seq(Byte)

LEMMA AtIsByte ==
  ASSUME NEW s \in Str, NEW p
  PROVE  At(s, p) \in Byte /\ (p \notin 1 .. Len(s) => At(s, p) = Nul)
BY DEF At, Str, Byte, Nul

-----------------------------------------------------------------------------
(* Passing characters. *)

LEMMA PastIs ==
  ASSUME NEW s \in Str, NEW p \in Nat \ {0}, NEW chars, Nul \notin chars
  PROVE  /\ Past(s, p, chars) \in p .. p + Len(s)
         /\ At(s, Past(s, p, chars)) \notin chars
         /\ \A x \in p .. Past(s, p, chars) - 1 : At(s, x) \in chars
<1> DEFINE T == {q \in p .. p + Len(s) : At(s, q) \notin chars}
<1>1. Len(s) \in Nat
  BY DEF Str
<1>2. T \in SUBSET Nat /\ p + Len(s) \in T
  <2>1. p + Len(s) \in p .. p + Len(s) /\ p + Len(s) \notin 1 .. Len(s)
    BY <1>1
  <2> QED
    BY <1>1, <2>1, AtIsByte
<1>3. PICK q \in T : \A m \in T : q <= m
  BY <1>2, LeastNumber
<1>4. \A x \in p .. q - 1 : At(s, x) \in chars
  <2> SUFFICES ASSUME NEW x \in p .. q - 1, At(s, x) \notin chars PROVE FALSE
    OBVIOUS
  <2>1. x \in T
    BY <1>1
  <2> QED
    BY <1>1, <1>3, <2>1
<1>5. q \in p .. p + Len(s) /\ At(s, q) \notin chars
  OBVIOUS
<1> QED
  BY <1>4, <1>5 DEF Past

LEMMA PastAt ==
  ASSUME NEW s \in Str, NEW p \in Nat \ {0}, NEW chars, Nul \notin chars,
         NEW q \in Nat, q >= p, At(s, q) \notin chars, \A x \in p .. q - 1 : At(s, x) \in chars
  PROVE  Past(s, p, chars) = q
<1> DEFINE r == Past(s, p, chars)
<1>1. /\ r \in p .. p + Len(s) /\ At(s, r) \notin chars /\ \A x \in p .. r - 1 : At(s, x) \in chars
      /\ Len(s) \in Nat
  BY PastIs DEF Str
<1> HIDE DEF r
<1>2. ~(q < r) /\ ~(r < q)
  <2>1. q < r => q \in p .. r - 1
    BY <1>1
  <2>2. r < q => r \in p .. q - 1
    BY <1>1
  <2> QED
    BY <1>1, <2>1, <2>2
<1>3. r = q
  BY <1>1, <1>2
<1> QED
  BY <1>3 DEF r

LEMMA CharSets ==
  /\ Nul \notin isspc /\ Nl \notin isspc /\ Nul \notin ishex /\ Nl \notin ishex
  /\ Nul \notin OfLine /\ Nl \notin OfLine /\ \A c \in Byte : c \in OfLine \/ c = Nul \/ c = Nl
BY DEF isspc, ishex, OfLine, Nul, Nl, Space, Tab

-----------------------------------------------------------------------------
(* Numbers. *)

LEMMA DigitIs ==
  \A c : hexdigtoi(c) \in Int
BY DEF hexdigtoi

\* The function of HexValue.
Numbers(f, s, p, e) ==
  /\ f \in [p .. e -> Int] /\ f[p] = 0
  /\ \A q \in p + 1 .. e : f[q] = f[q - 1] * 16 + hexdigtoi(At(s, q - 1))

LEMMA HexValueIs ==
  ASSUME NEW s, NEW p \in Nat, NEW e \in Nat, p <= e
  PROVE  \E f : Numbers(f, s, p, e) /\ HexValue(s, p, e) = f[e]
<1> DEFINE D == p .. e
           stop == {p}
           base == [d \in stop |-> 0]
           next == [d \in D \ stop |-> d - 1]
           step == [z \in (D \ stop) \X Int |-> z[2] * 16 + hexdigtoi(At(s, z[1] - 1))]
           size == [d \in D |-> d - p]
           N == e - p
           Body(f, d) == IF d = p THEN 0 ELSE f[d - 1] * 16 + hexdigtoi(At(s, d - 1))
<1>1. /\ stop \in SUBSET D /\ base \in [stop -> Int] /\ next \in [D \ stop -> D]
      /\ N \in Nat /\ size \in [D -> 0 .. N] /\ \A d \in D \ stop : size[next[d]] < size[d]
  OBVIOUS
<1>2. step \in [(D \ stop) \X Int -> Int]
  BY DigitIs
<1> HIDE DEF D, stop, base, next, step, size, N
<1>3. \E f \in [D -> Int] : IsRecursive(f, D, stop, base, next, step)
  BY <1>1, <1>2, RecursionExists
<1>4. PICK f \in [D -> Int] : IsRecursive(f, D, stop, base, next, step)
  BY <1>3
<1>5. f = [d \in D |-> Body(f, d)]
  <2>1. f = [d \in D |-> IF d \in stop THEN base[d] ELSE step[<<d, f[next[d]]>>]]
    BY <1>4 DEF IsRecursive
  <2>2. ASSUME NEW d \in D
        PROVE  (IF d \in stop THEN base[d] ELSE step[<<d, f[next[d]]>>]) = Body(f, d)
    <3>1. CASE d = p
      BY <3>1 DEF stop, base
    <3>2. CASE d # p
      <4>1. d \in D \ stop /\ next[d] = d - 1 /\ next[d] \in D
        BY <1>1, <3>2 DEF stop, next
      <4>2. f[next[d]] \in Int
        BY <4>1
      <4>3. step[<<d, f[next[d]]>>] = f[next[d]] * 16 + hexdigtoi(At(s, d - 1))
        BY <4>1, <4>2 DEF step
      <4> QED
        BY <3>2, <4>1, <4>3
    <3> QED
      BY <3>1, <3>2
  <2> HIDE DEF Body
  <2> QED
    BY <2>1, <2>2
<1> DEFINE g == CHOOSE number : number = [d \in D |-> Body(number, d)]
<1>6. g = [d \in D |-> Body(g, d)]
  BY <1>5
<1>7. HexValue(s, p, e) = g[e]
  BY DEF HexValue, D
<1> HIDE DEF g
<1>8. g[p] = 0 /\ \A q \in p + 1 .. e : g[q] = g[q - 1] * 16 + hexdigtoi(At(s, q - 1))
  <2>1. \A q \in p .. e : g[q] = Body(g, q)
    BY <1>6 DEF D
  <2> QED
    BY <2>1
<1>9. g \in [p .. e -> Int]
  <2> DEFINE P == {n \in 0 .. N : g[p + n] \in Int}
  <2>1. 0 \in P
    BY <1>1, <1>8
  <2>2. \A n \in 0 .. N - 1 : n \in P => n + 1 \in P
    <3> SUFFICES ASSUME NEW n \in 0 .. N - 1, g[p + n] \in Int PROVE g[p + (n + 1)] \in Int
      BY <1>1
    <3>1. p + (n + 1) \in p + 1 .. e /\ (p + (n + 1)) - 1 = p + n
      BY DEF N
    <3>2. g[p + (n + 1)] = g[p + n] * 16 + hexdigtoi(At(s, p + n))
      BY <1>8, <3>1
    <3> QED
      BY <3>2, DigitIs
  <2> HIDE DEF P
  <2>3. \A n \in 0 .. N : n \in P
    BY <1>1, <2>1, <2>2, UpTo
  <2>4. \A q \in p .. e : g[q] \in Int
    <3> TAKE q \in p .. e
    <3>1. q - p \in 0 .. N /\ p + (q - p) = q
      BY DEF N
    <3> QED
      BY <2>3, <3>1 DEF P
  <2>5. DOMAIN g = p .. e /\ g = [d \in D |-> g[d]]
    BY <1>6 DEF D
  <2> QED
    BY <2>4, <2>5 DEF D
<1> QED
  BY <1>7, <1>8, <1>9 DEF Numbers

-----------------------------------------------------------------------------
(* Characters are read as they are written. *)

LEMMA Heads ==
  /\ \A n \in 2 .. 31 :
       192 + n \in Byte /\ (192 + n) \div 32 = 6 /\ (192 + n) \div 16 # 14 /\ (192 + n) % 32 = n
  /\ \A n \in 0 .. 15 :
       224 + n \in Byte /\ (224 + n) \div 32 = 7 /\ (224 + n) \div 16 = 14 /\ (224 + n) % 16 = n
  /\ \A n \in 0 .. 63 :
       128 + n \in Byte /\ (128 + n) \div 64 = 2 /\ (128 + n) % 64 = n
<1>1. \A n \in 2 .. 31 :
        192 + n \in Byte /\ (192 + n) \div 32 = 6 /\ (192 + n) \div 16 # 14 /\ (192 + n) % 32 = n
  BY DEF Byte
<1>2. \A n \in 0 .. 15 :
        224 + n \in Byte /\ (224 + n) \div 32 = 7 /\ (224 + n) \div 16 = 14 /\ (224 + n) % 16 = n
  BY DEF Byte
<1>3. \A n \in 0 .. 63 : 128 + n \in Byte /\ (128 + n) \div 64 = 2 /\ (128 + n) % 64 = n
  BY DEF Byte
<1> QED
  BY <1>1, <1>2, <1>3

IsChar(ch) == ch \in Nat /\ 0 < ch /\ ch < 65536

LEMMA Two ==
  ASSUME NEW ch \in Nat, ch >= 128, ch < 2048
  PROVE  ch \div 64 \in 2 .. 31 /\ ch % 64 \in 0 .. 63 /\ (ch \div 64) * 64 + (ch % 64) = ch
BY SMTT(20)

\* Dividing in two steps.
LEMMA Halves ==
  ASSUME NEW n \in Nat
  PROVE  (n \div 64) \div 64 = n \div 4096 /\ (n \div 16) \div 16 = n \div 256
         /\ (n \div 256) \div 16 = n \div 4096
<1>1. ASSUME NEW b \in {16, 64, 256}, NEW m \in {16, 64}, NEW bm \in {256, 4096}, bm = b * m
      PROVE  (n \div b) \div m = n \div bm
  <2> DEFINE q == n \div b
             c == n % b
             a == q \div m
             d == q % m
  <2>1. q \in Nat /\ c \in 0 .. b - 1 /\ n = b * q + c
    BY SMTT(20)
  <2> HIDE DEF q, c
  <2>2. a \in Nat /\ d \in 0 .. m - 1 /\ q = m * a + d
    BY <2>1, SMTT(20)
  <2> HIDE DEF a, d
  <2>3. n - bm * a \in 0 .. bm - 1
    BY <1>1, <2>1, <2>2, SMTT(20)
  <2>4. n \div bm = a
    BY <2>2, <2>3, SMTT(20)
  <2> QED
    BY <2>4, SMTT(20) DEF a, q
<1> QED
  BY <1>1, SMTT(20)

LEMMA Three ==
  ASSUME NEW ch, IsChar(ch), ch >= 2048
  PROVE  /\ ch \div 4096 \in 0 .. 15 /\ (ch \div 64) % 64 \in 0 .. 63 /\ ch % 64 \in 0 .. 63
         /\ ch \div 64 = (ch \div 4096) * 64 + ((ch \div 64) % 64)
         /\ ch = (ch \div 64) * 64 + (ch % 64)
<1>1. ch \div 4096 \in 0 .. 15
  <2>1. ch \div 4096 \in Int /\ ch % 4096 \in 0 .. 4095 /\ ch = (ch \div 4096) * 4096 + (ch % 4096)
    BY SMTT(20) DEF IsChar
  <2> QED
    BY <2>1, SMTT(20) DEF IsChar
<1>2. (ch \div 64) % 64 \in 0 .. 63 /\ ch \div 64 = (ch \div 4096) * 64 + ((ch \div 64) % 64)
  <2>1. ch \in Nat /\ ch \div 64 \in Nat
    BY SMTT(20) DEF IsChar
  <2>2. (ch \div 64) \div 64 = ch \div 4096
    BY <2>1, Halves, SMTT(20)
  <2> QED
    BY <2>1, <2>2, SMTT(20)
<1>3. ch % 64 \in 0 .. 63 /\ ch = (ch \div 64) * 64 + (ch % 64)
  BY SMTT(20) DEF IsChar
<1> QED
  BY <1>1, <1>2, <1>3, SMTT(20)

LEMMA Four ==
  ASSUME NEW ch, IsChar(ch)
  PROVE  /\ ch \div 4096 \in 0 .. 15 /\ (ch \div 256) % 16 \in 0 .. 15
         /\ (ch \div 16) % 16 \in 0 .. 15 /\ ch % 16 \in 0 .. 15
         /\ ch \div 256 = (ch \div 4096) * 16 + ((ch \div 256) % 16)
         /\ ch \div 16 = (ch \div 256) * 16 + ((ch \div 16) % 16)
         /\ ch = (ch \div 16) * 16 + (ch % 16)
<1>1. ch \div 4096 \in 0 .. 15
  <2>1. ch \div 4096 \in Int /\ ch % 4096 \in 0 .. 4095 /\ ch = (ch \div 4096) * 4096 + (ch % 4096)
    BY SMTT(20) DEF IsChar
  <2> QED
    BY <2>1, SMTT(20) DEF IsChar
<1>2. (ch \div 256) % 16 \in 0 .. 15 /\ ch \div 256 = (ch \div 4096) * 16 + ((ch \div 256) % 16)
  <2>1. ch \in Nat /\ ch \div 256 \in Nat
    BY SMTT(20) DEF IsChar
  <2>2. (ch \div 256) \div 16 = ch \div 4096
    BY <2>1, Halves, SMTT(20) DEF IsChar
  <2> QED
    BY <2>1, <2>2, SMTT(20) DEF IsChar
<1>3. (ch \div 16) % 16 \in 0 .. 15 /\ ch \div 16 = (ch \div 256) * 16 + ((ch \div 16) % 16)
  <2>1. ch \in Nat /\ ch \div 16 \in Nat
    BY SMTT(20) DEF IsChar
  <2>2. (ch \div 16) \div 16 = ch \div 256
    BY <2>1, Halves, SMTT(20) DEF IsChar
  <2> QED
    BY <2>1, <2>2, SMTT(20) DEF IsChar
<1>4. ch % 16 \in 0 .. 15 /\ ch = (ch \div 16) * 16 + (ch % 16)
  BY SMTT(20) DEF IsChar
<1> QED
  BY <1>1, <1>2, <1>3, <1>4, SMTT(20) DEF IsChar

LEMMA DigitReads ==
  ASSUME NEW d \in 0 .. 15
  PROVE  /\ Digit(d) \in Byte /\ Digit(d) \in ishex /\ hexdigtoi(Digit(d)) = d
         /\ Digit(d) \notin {Minus, Plus, 120} /\ Digit(d) \notin isspc
BY DEF Digit, ishex, hexdigtoi, Minus, Plus, isspc, Space, Tab, Byte

LEMMA AtWritten ==
  ASSUME NEW f \in Str, NEW s \in Str, NEW next \in {<<>>, <<Comma>>, <<Nl>>}
  PROVE  /\ f \o s \o next \in Str
         /\ \A i \in 1 .. Len(s) : At(f \o s \o next, Len(f) + i) = s[i]
         /\ At(f \o s \o next, Len(f) + Len(s) + 1) \in {Nul, Comma, Nl}
<1> DEFINE x == f \o s \o next
<1>1. next \in Str /\ Len(next) \in 0 .. 1 /\ (Len(next) = 1 => next[1] \in {Comma, Nl})
  <2>1. CASE next = <<>>
    BY <2>1 DEF Str
  <2>2. CASE next = <<Comma>>
    BY <2>2 DEF Str, Byte, Comma
  <2>3. CASE next = <<Nl>>
    BY <2>3 DEF Str, Byte, Nl
  <2> QED
    BY <2>1, <2>2, <2>3
<1>2. /\ x \in Str /\ Len(x) = Len(f) + Len(s) + Len(next) /\ Len(f) \in Nat /\ Len(s) \in Nat
      /\ DOMAIN x = 1 .. Len(x)
  BY <1>1 DEF Str
<1>3. \A i \in 1 .. Len(s) : x[Len(f) + i] = s[i]
  BY <1>1, <1>2 DEF Str
<1>4. Len(next) = 1 => x[Len(f) + Len(s) + 1] = next[1]
  BY <1>1, <1>2 DEF Str
<1> HIDE DEF x
<1>5. \A i \in 1 .. Len(s) : At(x, Len(f) + i) = s[i]
  BY <1>1, <1>2, <1>3 DEF At
<1>6. At(x, Len(f) + Len(s) + 1) \in {Nul, Comma, Nl}
  BY <1>1, <1>2, <1>4 DEF At
<1> QED
  BY <1>2, <1>5, <1>6 DEF x

\* The position after p.
Next(p, q) == p \in Nat /\ q \in Nat /\ q = p + 1

\* The bytes of characters that are not one byte, and the bits in them.
IsHead2(c, h) == h \in 2 .. 31 /\ c = 192 + h
IsHead3(c, h) == h \in 0 .. 15 /\ c = 224 + h
IsTail(c, n) == n \in 0 .. 63 /\ c = 128 + n
Adds(v, n, w) == w = v * 64 + n

LEMMA Raw ==
  ASSUME NEW x, NEW p, NEW p1, Next(p, p1), At(x, p) = Equals
  PROVE  read_binding(x, p) = read_utf8_ch(x, p1)
<1>1. Equals \notin {85, 117} /\ p1 = p + 1
  BY DEF Equals, Next
<1>2. read_unicode_char(x, p) = Got(0, p)
  BY <1>1 DEF read_unicode_char
<1>3. read_raw_char(x, p) = read_utf8_ch(x, p1)
  BY <1>1 DEF read_raw_char
<1> QED
  BY <1>2, <1>3 DEF read_binding, OrElse, Got

LEMMA OneByte ==
  ASSUME NEW x, NEW p, NEW p1, Next(p, p1), NEW ch \in 0 .. 127, At(x, p) = ch
  PROVE  read_utf8_ch(x, p) = Got(ch, p1)
<1>1. ch \div 32 # 6 /\ ch \div 16 # 14 /\ ch < 128
  OBVIOUS
<1>2. p1 = p + 1
  BY DEF Next
<1> QED
  BY <1>1, <1>2 DEF read_utf8_ch, Got

\* The state of the loop of read_utf8_ch at p, with value v.
Going(r, v, p) == r = [value |-> v, p |-> p, ended |-> FALSE]

\* A byte that goes on with a character.
LEMMA GoesOn ==
  ASSUME NEW x, NEW p, NEW p1, Next(p, p1), NEW n, IsTail(At(x, p), n),
         NEW v, NEW w, Adds(v, n, w), NEW r, Going(r, v, p)
  PROVE  Going(GoOn(x, r), w, p1)
<1> DEFINE c == At(x, p)
<1>1. c \div 64 = 2 /\ Tail6(c) = n
  BY Heads DEF Tail6, IsTail
<1> HIDE DEF c
<1>2. r.ended = FALSE /\ r.value = v /\ r.p = p
  BY DEF Going
<1>3. GoOn(x, r) = [value |-> v * 64 + Tail6(c), p |-> p + 1, ended |-> FALSE]
  BY <1>1, <1>2 DEF GoOn, c
<1> QED
  BY <1>1, <1>3 DEF Going, Adds, Next

LEMMA TwoBytes ==
  ASSUME NEW x, NEW p, NEW p1, Next(p, p1), NEW p2, Next(p1, p2),
         NEW h, IsHead2(At(x, p), h), NEW n, IsTail(At(x, p1), n), NEW w, Adds(h, n, w)
  PROVE  read_utf8_ch(x, p) = Got(w, p2)
<1> DEFINE c == At(x, p)
           r == [value |-> c % 32, p |-> p + 1, ended |-> FALSE]
           t == GoOn(x, r)
<1>1. c \div 32 = 6 /\ c \div 16 # 14 /\ c % 32 = h
  BY Heads DEF IsHead2
<1> HIDE DEF c
<1>2. Going(r, h, p1)
  BY <1>1 DEF Going, Next
<1> HIDE DEF r
<1>3. Going(t, w, p2)
  BY <1>2, GoesOn
<1> HIDE DEF t
<1>4. read_utf8_ch(x, p) = Got(t.value, t.p)
  BY <1>1 DEF read_utf8_ch, c, r, t
<1>5. t.value = w /\ t.p = p2
  BY <1>3 DEF Going
<1> QED
  BY <1>4, <1>5

LEMMA ThreeBytes ==
  ASSUME NEW x, NEW p, NEW p1, Next(p, p1), NEW p2, Next(p1, p2), NEW p3, Next(p2, p3),
         NEW h, IsHead3(At(x, p), h), NEW m, IsTail(At(x, p1), m), NEW n, IsTail(At(x, p2), n),
         NEW v, Adds(h, m, v), NEW w, Adds(v, n, w)
  PROVE  read_utf8_ch(x, p) = Got(w, p3)
<1> DEFINE c == At(x, p)
           r == [value |-> c % 16, p |-> p + 1, ended |-> FALSE]
           t == GoOn(x, r)
           y == GoOn(x, t)
<1>1. c \div 32 # 6 /\ c \div 16 = 14 /\ c % 16 = h
  BY Heads DEF IsHead3
<1> HIDE DEF c
<1>2. Going(r, h, p1)
  BY <1>1 DEF Going, Next
<1> HIDE DEF r
<1>3. Going(t, v, p2)
  BY <1>2, GoesOn
<1> HIDE DEF t
<1>4. Going(y, w, p3)
  BY <1>3, GoesOn
<1>5. read_utf8_ch(x, p) = Got(y.value, y.p)
  BY <1>1 DEF read_utf8_ch, c, r, t
<1> HIDE DEF y
<1>6. y.value = w /\ y.p = p3
  BY <1>4 DEF Going
<1> QED
  BY <1>5, <1>6

Adds16(v, n, w) == w = v * 16 + n

IsDigit(c, d) == d \in 0 .. 15 /\ c = Digit(d)

LEMMA FourDigits ==
  ASSUME NEW x, x \in Str, NEW p, NEW p1, Next(p, p1), p # 0, NEW p2, Next(p1, p2), NEW p3, Next(p2, p3),
         NEW p4, Next(p3, p4), NEW p5, Next(p4, p5), At(x, p) = 117, At(x, p5) \in {Nul, Comma, Nl},
         NEW a, IsDigit(At(x, p1), a), NEW b, IsDigit(At(x, p2), b),
         NEW c, IsDigit(At(x, p3), c), NEW d, IsDigit(At(x, p4), d),
         NEW r, Adds16(a, b, r), NEW q, Adds16(r, c, q), NEW ch, Adds16(q, d, ch)
  PROVE  read_binding(x, p) = Got(ch, p5)
<1>1. /\ a \in 0 .. 15 /\ b \in 0 .. 15 /\ c \in 0 .. 15 /\ d \in 0 .. 15
      /\ r = a * 16 + b /\ q = r * 16 + c /\ ch = q * 16 + d
  BY DEF Adds16, IsDigit
<1>2. p \in Nat \ {0} /\ p1 = p + 1 /\ p2 = p + 2 /\ p3 = p + 3 /\ p4 = p + 4 /\ p5 = p + 5
  BY DEF Next
<1>3. /\ At(x, p + 1) = Digit(a) /\ At(x, p + 2) = Digit(b)
      /\ At(x, p + 3) = Digit(c) /\ At(x, p + 4) = Digit(d)
      /\ At(x, p) = 117 /\ At(x, p + 5) \in {Nul, Comma, Nl}
  BY <1>2 DEF IsDigit
<1>4. \A y \in p + 1 .. p + 4 : At(x, y) \in ishex
  <2>1. \A y \in p + 1 .. p + 4 : y = p + 1 \/ y = p + 2 \/ y = p + 3 \/ y = p + 4
    BY <1>2
  <2> QED
    BY <1>1, <1>3, <2>1, DigitReads
<1>5. /\ At(x, p + 1) \notin {Minus, Plus} /\ At(x, p + 2) # 120 /\ At(x, p + 1) \notin isspc
  BY <1>1, <1>3, DigitReads
<1>6. HexBegin(x, p + 1) = p + 1
  <2>1. Past(x, p + 1, isspc) = p + 1
    <3>1. p + 1 \in Nat \ {0} /\ \A y \in p + 1 .. (p + 1) - 1 : FALSE
      BY <1>2
    <3> QED
      BY <1>5, <3>1, CharSets, PastAt
  <2>2. (p + 1) + 1 = p + 2
    BY <1>2
  <2> QED
    BY <1>5, <2>1, <2>2 DEF HexBegin, read_spc
<1>7. Past(x, p + 1, ishex) = p + 5
  <2>1. At(x, p + 5) \notin ishex
    BY <1>3 DEF ishex, Nul, Comma, Nl
  <2>2. p + 1 \in Nat \ {0} /\ p + 5 \in Nat /\ p + 5 >= p + 1 /\ (p + 5) - 1 = p + 4
    BY <1>2
  <2> QED
    BY <1>4, <2>1, <2>2, CharSets, PastAt
<1>8. HexValue(x, p + 1, p + 5) = ch
  <2>1. PICK f : Numbers(f, x, p + 1, p + 5) /\ HexValue(x, p + 1, p + 5) = f[p + 5]
    <3>1. p + 1 \in Nat /\ p + 5 \in Nat /\ p + 1 <= p + 5
      BY <1>2
    <3> QED
      BY <3>1, HexValueIs
  <2>2. f[p + 1] = 0 /\ \A y \in (p + 1) + 1 .. p + 5 : f[y] = f[y - 1] * 16 + hexdigtoi(At(x, y - 1))
    BY <2>1 DEF Numbers
  <2>3. /\ hexdigtoi(At(x, p + 1)) = a /\ hexdigtoi(At(x, p + 2)) = b
        /\ hexdigtoi(At(x, p + 3)) = c /\ hexdigtoi(At(x, p + 4)) = d
    BY <1>1, <1>3, DigitReads
  <2>4. f[p + 2] = f[p + 1] * 16 + a
    <3>1. p + 2 \in (p + 1) + 1 .. p + 5 /\ (p + 2) - 1 = p + 1
      BY <1>2
    <3> QED
      BY <2>2, <2>3, <3>1
  <2>5. f[p + 3] = f[p + 2] * 16 + b
    <3>1. p + 3 \in (p + 1) + 1 .. p + 5 /\ (p + 3) - 1 = p + 2
      BY <1>2
    <3> QED
      BY <2>2, <2>3, <3>1
  <2>6. f[p + 4] = f[p + 3] * 16 + c
    <3>1. p + 4 \in (p + 1) + 1 .. p + 5 /\ (p + 4) - 1 = p + 3
      BY <1>2
    <3> QED
      BY <2>2, <2>3, <3>1
  <2>7. f[p + 5] = f[p + 4] * 16 + d
    <3>1. p + 5 \in (p + 1) + 1 .. p + 5 /\ (p + 5) - 1 = p + 4
      BY <1>2
    <3> QED
      BY <2>2, <2>3, <3>1
  <2>8. f[p + 2] = a
    BY <1>1, <2>2, <2>4
  <2> QED
    BY <1>1, <2>1, <2>5, <2>6, <2>7, <2>8
<1>9. read_hex(x, p + 1) = Got(ch, p + 5)
  <2>1. p + 5 # p + 1 /\ At(x, p + 1) # Minus
    BY <1>2, <1>5
  <2> QED
    BY <1>6, <1>7, <1>8, <2>1 DEF read_hex
<1>10. read_unicode_char(x, p) = Got(ch, p + 5)
  <2>1. Got(ch, p + 5).p = p + 5 /\ p + 5 # p + 1
    BY <1>2 DEF Got
  <2> QED
    BY <1>3, <1>9, <2>1 DEF read_unicode_char
<1>11. Got(ch, p + 5).p # p
  BY <1>2 DEF Got
<1> QED
  BY <1>2, <1>10, <1>11 DEF read_binding, OrElse

\* What is written after q.
Spelled(x, q, s) == \A i \in 1 .. Len(s) : At(x, q + i) = s[i]

LEMMA SpelledOut ==
  ASSUME NEW x, NEW q \in Nat
  PROVE  /\ \A a, b : Spelled(x, q, <<a, b>>) => At(x, q + 1) = a /\ At(x, q + 2) = b
         /\ \A a, b, c : Spelled(x, q, <<a, b, c>>) =>
              At(x, q + 1) = a /\ At(x, q + 2) = b /\ At(x, q + 3) = c
         /\ \A a, b, c, d : Spelled(x, q, <<a, b, c, d>>) =>
              At(x, q + 1) = a /\ At(x, q + 2) = b /\ At(x, q + 3) = c /\ At(x, q + 4) = d
         /\ \A a, b, c, d, e : Spelled(x, q, <<a, b, c, d, e>>) =>
              /\ At(x, q + 1) = a /\ At(x, q + 2) = b /\ At(x, q + 3) = c /\ At(x, q + 4) = d
              /\ At(x, q + 5) = e
BY DEF Spelled

LEMMA Positions ==
  ASSUME NEW q \in Nat
  PROVE  /\ Next(q + 1, q + 2) /\ Next(q + 2, q + 3) /\ Next(q + 3, q + 4) /\ Next(q + 4, q + 5)
         /\ Next(q + 5, q + 5 + 1)
BY DEF Next

LEMMA Lengths ==
  /\ \A a, b \in Byte : <<a, b>> \in Str /\ Len(<<a, b>>) = 2
  /\ \A a, b, c \in Byte : <<a, b, c>> \in Str /\ Len(<<a, b, c>>) = 3
  /\ \A a, b, c, d \in Byte : <<a, b, c, d>> \in Str /\ Len(<<a, b, c, d>>) = 4
  /\ \A a, b, c, d, e \in Byte : <<a, b, c, d, e>> \in Str /\ Len(<<a, b, c, d, e>>) = 5
BY DEF Str

\* s is read as ch, wherever it is.
ReadsAs(s, ch, n) ==
  /\ s \in Str /\ Len(s) = n
  /\ \A x \in Str : \A q \in Nat :
       Spelled(x, q, s) /\ At(x, q + n + 1) \in {Nul, Comma, Nl} =>
         read_binding(x, q + 1) = Got(ch, q + n + 1)

LEMMA ItselfIsRead ==
  ASSUME NEW ch, IsChar(ch)
  PROVE  \E n \in 2 .. 4 : ReadsAs(Itself(ch), ch, n)
<1>1. Equals \in Byte /\ ch \in Nat
  BY DEF Equals, Byte, IsChar
<1>2. CASE ch < 128
  <2>1. ch \in 0 .. 127 /\ ch \in Byte
    BY <1>2, SMTT(20) DEF Byte, IsChar
  <2>2. Itself(ch) = <<Equals, ch>>
    BY <1>2, SMTT(20) DEF Itself, IsChar
  <2>3. Itself(ch) \in Str /\ Len(Itself(ch)) = 2
    BY <1>1, <2>1, <2>2, Lengths
  <2>4. ASSUME NEW x \in Str, NEW q \in Nat, Spelled(x, q, Itself(ch))
        PROVE  read_binding(x, q + 1) = Got(ch, q + 2 + 1)
    <3>1. At(x, q + 1) = Equals /\ At(x, q + 2) = ch
      BY <2>2, <2>4, SpelledOut
    <3>2. read_utf8_ch(x, q + 2) = Got(ch, q + 3)
      BY <2>1, <3>1, Positions, OneByte
    <3>3. read_binding(x, q + 1) = Got(ch, q + 3)
      BY <3>1, <3>2, Positions, Raw
    <3>4. q + 3 = q + 2 + 1
      OBVIOUS
    <3> QED
      BY <3>3, <3>4
  <2>5. ReadsAs(Itself(ch), ch, 2)
    BY <2>3, <2>4, Zenon DEF ReadsAs
  <2> QED
    BY <2>5
<1>3. CASE ch >= 128 /\ ch < 2048
  <2> DEFINE h == ch \div 64
             n == ch % 64
  <2>1. h \in 2 .. 31 /\ n \in 0 .. 63 /\ h * 64 + n = ch
    BY <1>1, <1>3, Two, SMTT(20)
  <2>2. Itself(ch) = <<Equals, 192 + h, 128 + n>>
    BY <1>3, SMTT(20) DEF Itself
  <2> HIDE DEF h, n
  <2>3. /\ IsHead2(192 + h, h) /\ IsTail(128 + n, n) /\ Adds(h, n, ch)
        /\ 192 + h \in Byte /\ 128 + n \in Byte
    BY <2>1, Heads DEF IsHead2, IsTail, Adds
  <2>4. Itself(ch) \in Str /\ Len(Itself(ch)) = 3
    BY <1>1, <2>2, <2>3, Lengths
  <2>5. ASSUME NEW x \in Str, NEW q \in Nat, Spelled(x, q, Itself(ch))
        PROVE  read_binding(x, q + 1) = Got(ch, q + 3 + 1)
    <3>1. At(x, q + 1) = Equals /\ At(x, q + 2) = 192 + h /\ At(x, q + 3) = 128 + n
      BY <2>2, <2>5, SpelledOut
    <3>2. IsHead2(At(x, q + 2), h) /\ IsTail(At(x, q + 3), n) /\ Adds(h, n, ch)
      BY <2>3, <3>1, Zenon
    <3>3. read_utf8_ch(x, q + 2) = Got(ch, q + 4)
      <4>1. Next(q + 2, q + 3) /\ Next(q + 3, q + 4)
        BY Positions
      <4> QED
        BY <3>2, <4>1, TwoBytes
    <3>4. read_binding(x, q + 1) = Got(ch, q + 4)
      BY <3>1, <3>3, Positions, Raw, Zenon
    <3>5. q + 4 = q + 3 + 1
      OBVIOUS
    <3> QED
      BY <3>4, <3>5
  <2>6. ReadsAs(Itself(ch), ch, 3)
    BY <2>4, <2>5, Zenon DEF ReadsAs
  <2> QED
    BY <2>6
<1>4. CASE ch >= 2048
  <2> DEFINE h == ch \div 4096
             m == (ch \div 64) % 64
             n == ch % 64
             v == ch \div 64
  <2>1. h \in 0 .. 15 /\ m \in 0 .. 63 /\ n \in 0 .. 63 /\ v = h * 64 + m /\ ch = v * 64 + n
    BY <1>4, Three, SMTT(20)
  <2>2. Itself(ch) = <<Equals, 224 + h, 128 + m, 128 + n>>
    BY <1>1, <1>4, SMTT(20) DEF Itself
  <2> HIDE DEF h, m, n, v
  <2>3. /\ IsHead3(224 + h, h) /\ IsTail(128 + m, m) /\ IsTail(128 + n, n)
        /\ Adds(h, m, v) /\ Adds(v, n, ch)
        /\ 224 + h \in Byte /\ 128 + m \in Byte /\ 128 + n \in Byte
    BY <2>1, Heads DEF IsHead3, IsTail, Adds
  <2>4. Itself(ch) \in Str /\ Len(Itself(ch)) = 4
    BY <1>1, <2>2, <2>3, Lengths
  <2>5. ASSUME NEW x \in Str, NEW q \in Nat, Spelled(x, q, Itself(ch))
        PROVE  read_binding(x, q + 1) = Got(ch, q + 4 + 1)
    <3>1. /\ At(x, q + 1) = Equals /\ At(x, q + 2) = 224 + h
          /\ At(x, q + 3) = 128 + m /\ At(x, q + 4) = 128 + n
      BY <2>2, <2>5, SpelledOut
    <3>2. /\ IsHead3(At(x, q + 2), h) /\ IsTail(At(x, q + 3), m) /\ IsTail(At(x, q + 4), n)
          /\ Adds(h, m, v) /\ Adds(v, n, ch)
      BY <2>3, <3>1, Zenon
    <3>3. read_utf8_ch(x, q + 2) = Got(ch, q + 5)
      <4>1. Next(q + 2, q + 3) /\ Next(q + 3, q + 4) /\ Next(q + 4, q + 5)
        BY Positions
      <4> QED
        BY <3>2, <4>1, ThreeBytes
    <3>4. read_binding(x, q + 1) = Got(ch, q + 5)
      BY <3>1, <3>3, Positions, Raw, Zenon
    <3>5. q + 5 = q + 4 + 1
      OBVIOUS
    <3> QED
      BY <3>4, <3>5
  <2>6. ReadsAs(Itself(ch), ch, 4)
    BY <2>4, <2>5, Zenon DEF ReadsAs
  <2> QED
    BY <2>6
<1> QED
  BY <1>1, <1>2, <1>3, <1>4, SMTT(20)

LEMMA NamedIsRead ==
  ASSUME NEW ch, IsChar(ch)
  PROVE  ReadsAs(Named(ch), ch, 5)
<1> DEFINE a == ch \div 4096
           b == (ch \div 256) % 16
           c == (ch \div 16) % 16
           d == ch % 16
           r == ch \div 256
           k == ch \div 16
           s == Named(ch)
<1>1. /\ a \in 0 .. 15 /\ b \in 0 .. 15 /\ c \in 0 .. 15 /\ d \in 0 .. 15
      /\ r = a * 16 + b /\ k = r * 16 + c /\ ch = k * 16 + d
  BY Four, SMTT(20)
<1>2. s = <<117, Digit(a), Digit(b), Digit(c), Digit(d)>>
  BY SMTT(20) DEF Named
<1> HIDE DEF a, b, c, d, r, k
<1>3. Adds16(a, b, r) /\ Adds16(r, c, k) /\ Adds16(k, d, ch)
  BY <1>1 DEF Adds16
<1>4. /\ 117 \in Byte /\ Digit(a) \in Byte /\ Digit(b) \in Byte
      /\ Digit(c) \in Byte /\ Digit(d) \in Byte
  <2>1. 117 \in Byte
    BY DEF Byte
  <2> QED
    BY <1>1, <2>1, DigitReads
<1> HIDE DEF s
<1>5. s \in Str /\ Len(s) = 5
  BY <1>2, <1>4, Lengths
<1>6. ASSUME NEW x \in Str, NEW q \in Nat, Spelled(x, q, s), At(x, q + 5 + 1) \in {Nul, Comma, Nl}
      PROVE  read_binding(x, q + 1) = Got(ch, q + 5 + 1)
  <2>1. /\ At(x, q + 1) = 117 /\ At(x, q + 2) = Digit(a) /\ At(x, q + 3) = Digit(b)
        /\ At(x, q + 4) = Digit(c) /\ At(x, q + 5) = Digit(d)
    BY <1>2, <1>6, SpelledOut
  <2>2. /\ IsDigit(At(x, q + 2), a) /\ IsDigit(At(x, q + 3), b)
        /\ IsDigit(At(x, q + 4), c) /\ IsDigit(At(x, q + 5), d)
    BY <1>1, <2>1 DEF IsDigit
  <2>3. /\ Next(q + 1, q + 2) /\ Next(q + 2, q + 3) /\ Next(q + 3, q + 4) /\ Next(q + 4, q + 5)
        /\ Next(q + 5, q + 5 + 1) /\ q + 1 # 0
    BY Positions
  <2>4. At(x, q + 1) = 117 /\ At(x, q + 5 + 1) \in {Nul, Comma, Nl} /\ x \in Str
    BY <1>6, <2>1
  <2> QED
    BY <1>3, <2>2, <2>3, <2>4, FourDigits
<1>7. ReadsAs(s, ch, 5)
  BY <1>5, <1>6, Zenon DEF ReadsAs
<1> QED
  BY <1>7 DEF s

-----------------------------------------------------------------------------
(* Any file. *)

TypeOK == file \in Str /\ Len(file) <= MaxBytes

LEMMA Assumed ==
  /\ MaxBytes \in Nat /\ Units \subseteq Str /\ <<>> \in Str /\ Len(<<>>) = 0
  /\ \A ch \in CharSamples : IsChar(ch)
<1>1. \A ch \in CharSamples : IsChar(ch)
  <2>1. \A ch \in Char : IsChar(ch)
    BY DEF IsChar, Char
  <2>2. CharSamples \subseteq Char
    BY TextPropsAssumption, Zenon
  <2> QED
    BY <2>1, <2>2
<1>2. MaxBytes \in Nat /\ Units \subseteq Str
  BY TextPropsAssumption, Zenon DEF Str
<1>3. <<>> \in Str /\ Len(<<>>) = 0
  BY DEF Str
<1> QED
  BY <1>1, <1>2, <1>3

\* A file is a string of at most MaxBytes, whatever it is written with.
THEOREM FileIsString == Spec => []TypeOK
<1>1. Init => TypeOK
  BY Assumed DEF Init, TypeOK
<1>2. TypeOK /\ [Write]_file => TypeOK'
  <2> SUFFICES ASSUME TypeOK, [Write]_file PROVE TypeOK'
    OBVIOUS
  <2>1. CASE UNCHANGED file
    BY <2>1 DEF TypeOK
  <2>2. CASE Write
    <3>1. PICK u \in Units : Len(file) + Len(u) <= MaxBytes /\ file' = file \o u
      BY <2>2 DEF Write
    <3>2. u \in Seq(Byte) /\ file \in Seq(Byte)
      BY Assumed DEF TypeOK, Str
    <3>3. file \o u \in Seq(Byte) /\ Len(file \o u) = Len(file) + Len(u)
      BY <3>2
    <3> QED
      BY <3>1, <3>3 DEF TypeOK, Str
  <2> QED
    BY <2>1, <2>2
<1> QED
  BY <1>1, <1>2, PTL DEF Spec

\* A character written as itself or with its number is read as that character, whatever
\* the file has before it (read_binding, read_utf8_ch, read_hex).
THEOREM CharactersRead == Spec => []CharsReadAsWritten
<1>1. TypeOK => CharsReadAsWritten
  <2> SUFFICES ASSUME TypeOK, NEW ch \in CharSamples, NEW s, NEW next \in {<<>>, <<Comma>>, <<Nl>>},
                      s = Itself(ch) \/ s = Named(ch)
               PROVE  read_binding(file \o s \o next, Len(file) + 1) = Got(ch, Len(file) + Len(s) + 1)
    BY Zenon DEF CharsReadAsWritten
  <2> DEFINE x == file \o s \o next
  <2>1. IsChar(ch) /\ file \in Str /\ Len(file) \in Nat
    BY Assumed DEF TypeOK, Str
  <2>2. PICK n \in Nat : ReadsAs(s, ch, n)
    <3>1. 5 \in Nat /\ \A n \in 2 .. 4 : n \in Nat
      OBVIOUS
    <3> QED
      BY <2>1, <3>1, ItselfIsRead, NamedIsRead, Zenon
  <2>3. s \in Str /\ Len(s) = n
    BY <2>2 DEF ReadsAs
  <2>4. /\ x \in Str /\ Spelled(x, Len(file), s)
        /\ At(x, Len(file) + n + 1) \in {Nul, Comma, Nl}
    BY <2>1, <2>3, AtWritten, Zenon DEF Spelled
  <2> HIDE DEF x
  <2>5. read_binding(x, Len(file) + 1) = Got(ch, Len(file) + Len(s) + 1)
    BY <2>1, <2>2, <2>3, <2>4, Zenon DEF ReadsAs
  <2> QED
    BY <2>5 DEF x
<1> QED
  BY <1>1, FileIsString, PTL

-----------------------------------------------------------------------------
(* The line reader. *)

LEMMA ReadAsSteps ==
  ASSUME NEW f \in Str, NEW p \in Nat \ {0}
  PROVE  /\ \A e \in 1 .. Len(f) + 1 : e <= p => ReadAs(f, p, e) = <<>>
         /\ \A e \in 1 .. Len(f) + 1 : e > p =>
              ReadAs(f, p, e) = IF IsDropped(f, e - 1) THEN ReadAs(f, p, e - 1)
                                ELSE Append(ReadAs(f, p, e - 1), f[e - 1])
<1> DEFINE D == 1 .. Len(f) + 1
           stop == {x \in D : x <= p}
           base == [d \in stop |-> <<>>]
           next == [d \in D \ stop |-> d - 1]
           step == [z \in (D \ stop) \X Str |->
                      IF IsDropped(f, z[1] - 1) THEN z[2] ELSE Append(z[2], f[z[1] - 1])]
           size == [d \in D |-> d]
           N == Len(f) + 1
           Body(g, x) == IF x <= p THEN <<>>
                         ELSE IF IsDropped(f, x - 1) THEN g[x - 1] ELSE Append(g[x - 1], f[x - 1])
<1>0. Len(f) \in Nat /\ \A x \in D \ stop : x - 1 \in D /\ f[x - 1] \in Byte
  BY DEF Str
<1>1. /\ stop \in SUBSET D /\ base \in [stop -> Str] /\ next \in [D \ stop -> D]
      /\ N \in Nat /\ size \in [D -> 0 .. N] /\ \A d \in D \ stop : size[next[d]] < size[d]
  <2>1. <<>> \in Str
    BY DEF Str
  <2> QED
    BY <1>0, <2>1
<1>2. step \in [(D \ stop) \X Str -> Str]
  <2> SUFFICES ASSUME NEW z \in (D \ stop) \X Str
               PROVE  (IF IsDropped(f, z[1] - 1) THEN z[2] ELSE Append(z[2], f[z[1] - 1])) \in Str
    BY Zenon
  <2>1. z[1] \in D \ stop /\ z[2] \in Str
    OBVIOUS
  <2>2. f[z[1] - 1] \in Byte
    BY <1>0, <2>1
  <2>3. Append(z[2], f[z[1] - 1]) \in Str
    BY <2>1, <2>2 DEF Str
  <2> QED
    BY <2>1, <2>3
<1>3. \A d \in D : d \in stop <=> d <= p
  OBVIOUS
<1>4. \A d \in D \ stop : next[d] = d - 1 /\ next[d] \in D
  BY <1>0
<1>5. \A d \in D \ stop : \A y \in Str : step[<<d, y>>] = IF IsDropped(f, d - 1) THEN y ELSE Append(y, f[d - 1])
  OBVIOUS
<1>6. \A d \in stop : base[d] = <<>>
  OBVIOUS
<1> HIDE DEF D, stop, base, next, step, size, N
<1>7. PICK h \in [D -> Str] : IsRecursive(h, D, stop, base, next, step)
  BY <1>1, <1>2, RecursionExists
<1>8. h = [d \in D |-> Body(h, d)]
  <2>1. h = [d \in D |-> IF d \in stop THEN base[d] ELSE step[<<d, h[next[d]]>>]]
    BY <1>7 DEF IsRecursive
  <2>2. ASSUME NEW d \in D
        PROVE  (IF d \in stop THEN base[d] ELSE step[<<d, h[next[d]]>>]) = Body(h, d)
    <3>1. CASE d <= p
      BY <1>3, <1>6, <3>1
    <3>2. CASE ~(d <= p)
      <4>1. d \in D \ stop
        BY <1>3, <3>2
      <4>2. next[d] = d - 1 /\ h[next[d]] \in Str
        BY <1>4, <4>1
      <4>3. step[<<d, h[next[d]]>>] = IF IsDropped(f, d - 1) THEN h[next[d]] ELSE Append(h[next[d]], f[d - 1])
        BY <1>5, <4>1, <4>2
      <4> QED
        BY <3>2, <4>1, <4>2, <4>3
    <3> QED
      BY <3>1, <3>2
  <2> HIDE DEF Body
  <2> QED
    BY <2>1, <2>2
<1> DEFINE g == CHOOSE upto : upto = [d \in D |-> Body(upto, d)]
<1>9. g = [d \in D |-> Body(g, d)]
  BY <1>8
<1>10. \A e : ReadAs(f, p, e) = g[e]
  BY DEF ReadAs, D
<1> HIDE DEF g
<1>11. \A e \in D : g[e] = Body(g, e)
  BY <1>9
<1>12. ASSUME NEW e \in D, e <= p PROVE ReadAs(f, p, e) = <<>>
  BY <1>10, <1>11, <1>12
<1>13. ASSUME NEW e \in D, e > p
       PROVE  ReadAs(f, p, e) = IF IsDropped(f, e - 1) THEN ReadAs(f, p, e - 1)
                                ELSE Append(ReadAs(f, p, e - 1), f[e - 1])
  <2>1. ~(e <= p)
    BY <1>0, <1>13 DEF D
  <2> QED
    BY <1>10, <1>11, <2>1
<1> QED
  BY <1>12, <1>13 DEF D

\* Whatever the bytes are, so is what they are read as.
LEMMA ReadAsTyped ==
  ASSUME NEW f \in Str, NEW p \in Nat \ {0}, NEW e \in 1 .. Len(f) + 1, p <= e,
         NEW S, \A x \in p .. e - 1 : f[x] \in S
  PROVE  ReadAs(f, p, e) \in Seq(S)
<1> DEFINE P == {n \in 0 .. e - p : ReadAs(f, p, p + n) \in Seq(S)}
<1>1. Len(f) \in Nat /\ e - p \in Nat
  BY DEF Str
<1>2. 0 \in P
  <2>1. ReadAs(f, p, p) = <<>>
    BY <1>1, ReadAsSteps
  <2>2. p + 0 = p /\ <<>> \in Seq(S)
    OBVIOUS
  <2> QED
    BY <1>1, <2>1, <2>2
<1>3. \A n \in 0 .. (e - p) - 1 : n \in P => n + 1 \in P
  <2> SUFFICES ASSUME NEW n \in 0 .. (e - p) - 1, ReadAs(f, p, p + n) \in Seq(S)
               PROVE  ReadAs(f, p, p + (n + 1)) \in Seq(S)
    BY <1>1
  <2> DEFINE x == p + (n + 1)
  <2>1. x \in 1 .. Len(f) + 1 /\ x > p /\ x - 1 = p + n /\ x - 1 \in p .. e - 1
    BY <1>1
  <2> HIDE DEF x
  <2>2. ReadAs(f, p, x) = IF IsDropped(f, x - 1) THEN ReadAs(f, p, x - 1)
                          ELSE Append(ReadAs(f, p, x - 1), f[x - 1])
    BY <2>1, ReadAsSteps
  <2>3. f[x - 1] \in S /\ ReadAs(f, p, x - 1) \in Seq(S)
    BY <2>1
  <2>4. Append(ReadAs(f, p, x - 1), f[x - 1]) \in Seq(S)
    BY <2>3
  <2> QED
    BY <2>2, <2>3, <2>4 DEF x
<1> HIDE DEF P
<1>4. \A n \in 0 .. e - p : n \in P
  BY <1>1, <1>2, <1>3, UpTo
<1>5. e - p \in 0 .. e - p /\ p + (e - p) = e
  BY <1>1
<1> QED
  BY <1>4, <1>5 DEF P

LEMMA ReadAsIsString ==
  ASSUME NEW f \in Str, NEW p \in Nat \ {0}, NEW e \in 1 .. Len(f) + 1, p <= e
  PROVE  ReadAs(f, p, e) \in Str
<1>1. \A x \in p .. e - 1 : f[x] \in Byte
  BY DEF Str
<1> QED
  BY <1>1, ReadAsTyped DEF Str

LEMMA ReadAsSplits ==
  ASSUME NEW f \in Str, NEW p \in Nat \ {0}, NEW q \in Nat, p <= q,
         NEW e \in 1 .. Len(f) + 1, q <= e
  PROVE  ReadAs(f, p, e) = ReadAs(f, p, q) \o ReadAs(f, q, e)
<1> DEFINE r == ReadAs(f, p, q)
           Ok(x) == ReadAs(f, p, x) = r \o ReadAs(f, q, x)
           P == {n \in 0 .. e - q : Ok(q + n)}
<1>1. Len(f) \in Nat /\ e - q \in Nat /\ q \in 1 .. Len(f) + 1 /\ q \in Nat \ {0}
  BY DEF Str
<1>2. r \in Seq(Byte)
  BY <1>1, ReadAsIsString DEF Str
<1>3. Ok(q)
  <2>1. ReadAs(f, q, q) = <<>>
    BY <1>1, ReadAsSteps
  <2>2. r \o <<>> = r
    BY <1>2, ConcatEmptySeq
  <2> QED
    BY <2>1, <2>2
<1>4. ASSUME NEW n \in 0 .. (e - q) - 1, Ok(q + n) PROVE Ok(q + (n + 1))
  <2> DEFINE x == q + (n + 1)
             y == x - 1
             a == ReadAs(f, p, y)
             b == ReadAs(f, q, y)
  <2>1. x \in 1 .. Len(f) + 1 /\ x > p /\ x > q /\ y = q + n /\ y \in 1 .. Len(f) + 1 /\ q <= y /\ y \in 1 .. Len(f)
    BY <1>1
  <2>2. Ok(y)
    BY <1>4, <2>1
  <2> HIDE DEF x, Ok
  <2>3. /\ ReadAs(f, p, x) = IF IsDropped(f, y) THEN a ELSE Append(a, f[y])
        /\ ReadAs(f, q, x) = IF IsDropped(f, y) THEN b ELSE Append(b, f[y])
    BY <1>1, <2>1, ReadAsSteps
  <2>4. f[y] \in Byte
    BY <2>1 DEF Str
  <2>5. b \in Seq(Byte)
    BY <1>1, <2>1, ReadAsIsString DEF Str
  <2>6. a = r \o b
    BY <2>2 DEF Ok
  <2> DEFINE c == f[y]
  <2> HIDE DEF y, a, b, c, r
  <2>7. Append(r \o b, c) = r \o Append(b, c)
    <3>1. <<c>> \in Seq(Byte) /\ r \o b \in Seq(Byte)
      BY <1>2, <2>4, <2>5 DEF c
    <3>2. Append(r \o b, c) = (r \o b) \o <<c>> /\ Append(b, c) = b \o <<c>>
      BY <2>4, <2>5, <3>1, AppendIsConcat DEF c
    <3>3. (r \o b) \o <<c>> = r \o (b \o <<c>>)
      BY <1>2, <2>5, <3>1, ConcatAssociative
    <3> QED
      BY <3>2, <3>3
  <2>8. ReadAs(f, p, x) = r \o ReadAs(f, q, x)
    BY <2>3, <2>6, <2>7 DEF c
  <2> QED
    BY <2>8 DEF Ok, x
<1> HIDE DEF Ok
<1>5. 0 \in P /\ \A n \in 0 .. (e - q) - 1 : n \in P => n + 1 \in P
  BY <1>1, <1>3, <1>4
<1> HIDE DEF P
<1>6. \A n \in 0 .. e - q : n \in P
  BY <1>1, <1>5, UpTo
<1>7. e - q \in 0 .. e - q /\ q + (e - q) = e
  BY <1>1
<1>8. Ok(e)
  BY <1>6, <1>7 DEF P
<1> QED
  BY <1>8 DEF Ok, r

\* It is not longer, and as long if nothing is dropped.
LEMMA ReadAsLengths ==
  ASSUME NEW f \in Str, NEW p \in Nat \ {0}, NEW e \in 1 .. Len(f) + 1, p <= e
  PROVE  /\ Len(ReadAs(f, p, e)) \in 0 .. e - p
         /\ (\A x \in p .. e - 1 : ~IsDropped(f, x)) => Len(ReadAs(f, p, e)) = e - p
<1> DEFINE none == \A x \in p .. e - 1 : ~IsDropped(f, x)
           P == {n \in 0 .. e - p : /\ Len(ReadAs(f, p, p + n)) \in 0 .. n
                                    /\ none => Len(ReadAs(f, p, p + n)) = n}
<1>1. Len(f) \in Nat /\ e - p \in Nat
  BY DEF Str
<1>2. 0 \in P
  <2>1. ReadAs(f, p, p) = <<>>
    BY <1>1, ReadAsSteps
  <2>2. p + 0 = p /\ Len(<<>>) = 0
    OBVIOUS
  <2> QED
    BY <1>1, <2>1, <2>2
<1>3. \A n \in 0 .. (e - p) - 1 : n \in P => n + 1 \in P
  <2> SUFFICES ASSUME NEW n \in 0 .. (e - p) - 1, Len(ReadAs(f, p, p + n)) \in 0 .. n,
                      none => Len(ReadAs(f, p, p + n)) = n
               PROVE  /\ Len(ReadAs(f, p, p + (n + 1))) \in 0 .. n + 1
                      /\ none => Len(ReadAs(f, p, p + (n + 1))) = n + 1
    BY <1>1
  <2> DEFINE x == p + (n + 1)
             y == x - 1
             a == ReadAs(f, p, y)
  <2>1. x \in 1 .. Len(f) + 1 /\ x > p /\ y = p + n /\ y \in 1 .. Len(f) /\ p <= y /\ y \in p .. e - 1
    BY <1>1
  <2> HIDE DEF x
  <2>2. ReadAs(f, p, x) = IF IsDropped(f, y) THEN a ELSE Append(a, f[y])
    BY <1>1, <2>1, ReadAsSteps
  <2>3. a \in Seq(Byte) /\ f[y] \in Byte
    <3>1. y \in 1 .. Len(f) + 1
      BY <1>1, <2>1
    <3> QED
      BY <1>1, <2>1, <3>1, ReadAsIsString DEF Str
  <2>4. none => ~IsDropped(f, y)
    BY <2>1
  <2>5. Len(a) \in 0 .. n /\ (none => Len(a) = n)
    BY <2>1
  <2> HIDE DEF y, a, none
  <2>6. Len(Append(a, f[y])) = Len(a) + 1
    BY <2>3
  <2> DEFINE b == ReadAs(f, p, x)
  <2> HIDE DEF b
  <2>7. Len(b) \in 0 .. n + 1 /\ (none => Len(b) = n + 1)
    <3>1. b = a \/ (b = Append(a, f[y]) /\ ~IsDropped(f, y))
      BY <2>2 DEF b
    <3>2. none => b = Append(a, f[y])
      BY <2>2, <2>4 DEF b
    <3>3. Len(b) = Len(a) \/ Len(b) = Len(a) + 1
      BY <2>6, <3>1
    <3>4. none => Len(b) = Len(a) + 1
      BY <2>6, <3>2
    <3> QED
      BY <2>5, <3>3, <3>4
  <2> QED
    BY <2>7 DEF b, x
<1> HIDE DEF P
<1>4. \A n \in 0 .. e - p : n \in P
  BY <1>1, <1>2, <1>3, UpTo
<1>5. e - p \in 0 .. e - p /\ p + (e - p) = e
  BY <1>1
<1> QED
  BY <1>4, <1>5 DEF P

\* A string without a Nul.
Plain == Seq(Byte \ {Nul})

LEMMA PlainIsString ==
  ASSUME NEW s \in Plain
  PROVE  s \in Str /\ Len(s) \in Nat /\ StrLen(s) = Len(s) /\ SubSeq(s, 1, Len(s)) = s
         /\ \A k \in 1 .. Len(s) : s[k] # Nul
<1>1. s \in Str /\ Len(s) \in Nat /\ \A k \in 1 .. Len(s) : s[k] # Nul
  BY DEF Plain, Str
<1>2. SubSeq(s, 1, Len(s)) = s
  BY SubSeqFull DEF Plain
<1> DEFINE Ok(n) == /\ n = Len(s) \/ s[n + 1] = Nul
                    /\ \A k \in 1 .. n : s[k] # Nul
<1>3. Ok(Len(s)) /\ Len(s) \in 0 .. Len(s)
  BY <1>1
<1>4. \A n \in 0 .. Len(s) : Ok(n) => n = Len(s)
  <2> TAKE n \in 0 .. Len(s)
  <2>1. n # Len(s) => n + 1 \in 1 .. Len(s)
    BY <1>1
  <2> QED
    BY <1>1, <2>1
<1>5. StrLen(s) = CHOOSE n \in 0 .. Len(s) : Ok(n)
  BY DEF StrLen
<1> HIDE DEF Ok
<1> QED
  BY <1>1, <1>2, <1>3, <1>4, <1>5

\* What fgets reads into a buffer.
Chunk(f, p, z) == ReadAs(f, p, FgetsEnd(f, p, z))

LEMMA ReadAsPlain ==
  ASSUME NEW f \in Plain, NEW p \in Nat \ {0}, NEW e \in 1 .. Len(f) + 1, p <= e
  PROVE  ReadAs(f, p, e) \in Plain
<1>1. \A x \in p .. e - 1 : f[x] \in Byte \ {Nul}
  BY DEF Plain
<1> QED
  BY <1>1, PlainIsString, ReadAsTyped DEF Plain

LEMMA FgetsEndIs ==
  ASSUME NEW f \in Str, NEW p \in 1 .. Len(f), NEW z
  PROVE  /\ FgetsEnd(f, p, z) \in p + 1 .. Len(f) + 1
         /\ FgetsStops(f, p, z, FgetsEnd(f, p, z))
         /\ \A x \in p + 1 .. FgetsEnd(f, p, z) - 1 : ~FgetsStops(f, p, z, x)
<1> DEFINE T == {e \in p + 1 .. Len(f) + 1 : FgetsStops(f, p, z, e)}
<1>1. Len(f) \in Nat
  BY DEF Str
<1>2. T \in SUBSET Nat /\ Len(f) + 1 \in T
  BY <1>1 DEF FgetsStops
<1>3. PICK e \in T : \A m \in T : e <= m
  BY <1>2, LeastNumber
<1>4. \A x \in p + 1 .. e - 1 : ~FgetsStops(f, p, z, x)
  <2> SUFFICES ASSUME NEW x \in p + 1 .. e - 1, FgetsStops(f, p, z, x) PROVE FALSE
    OBVIOUS
  <2>1. x \in T
    BY <1>1
  <2> QED
    BY <1>1, <1>3, <2>1
<1>5. e \in p + 1 .. Len(f) + 1 /\ FgetsStops(f, p, z, e)
  OBVIOUS
<1> QED
  BY <1>4, <1>5 DEF FgetsEnd

Grown(z) == (z * 3) \div 2

LEMMA GrownIs ==
  ASSUME NEW z \in BufSizes
  PROVE  z \in Nat /\ z > 2 /\ Grown(z) \in BufSizes /\ Grown(z) > z
BY DEF BufSizes, Grown

\* What a full buffer goes back by does not pass the beginning of what was read.
LEMMA GoesBack ==
  ASSUME NEW f \in Plain, NEW p \in 1 .. Len(f), NEW z \in BufSizes
  PROVE  /\ Chunk(f, p, z) \in Plain /\ Len(Chunk(f, p, z)) \in Nat
         /\ FgetsEnd(f, p, z) - Len(Chunk(f, p, z)) \in p .. Len(f) + 1
         /\ Len(Chunk(f, p, z)) >= z - 1 =>
              /\ FgetsEnd(f, p, z) - Len(Chunk(f, p, z)) \in 1 .. Len(f)
              /\ z <= Len(f) + 1
<1> DEFINE e == FgetsEnd(f, p, z)
<1>1. Len(f) \in Nat /\ f \in Str
  BY PlainIsString
<1>2. e \in p + 1 .. Len(f) + 1
  BY <1>1, FgetsEndIs
<1> HIDE DEF e
<1>3. e \in 1 .. Len(f) + 1 /\ p <= e /\ p \in Nat \ {0}
  BY <1>1, <1>2
<1>4. Len(ReadAs(f, p, e)) \in 0 .. e - p /\ ReadAs(f, p, e) \in Plain
  BY <1>1, <1>3, ReadAsLengths, ReadAsPlain
<1> DEFINE n == Len(ReadAs(f, p, e))
<1> HIDE DEF n
<1>5. n \in 0 .. e - p
  BY <1>4 DEF n
<1>6. e - n \in p .. Len(f) + 1
  BY <1>1, <1>2, <1>5
<1>7. n >= z - 1 => n >= 2
  BY <1>5, GrownIs
<1>8. n >= z - 1 => e - n \in 1 .. Len(f) /\ z <= Len(f) + 1
  <2> SUFFICES ASSUME n >= z - 1 PROVE e - n \in 1 .. Len(f) /\ z <= Len(f) + 1
    OBVIOUS
  <2>1. n <= e - p /\ e <= Len(f) + 1 /\ n \in Nat /\ z \in Nat /\ e \in Nat
    BY <1>1, <1>2, <1>5, GrownIs
  <2> QED
    BY <1>1, <1>7, <2>1
<1> QED
  BY <1>4, <1>5, <1>6, <1>8 DEF Chunk, e, n

\* What fread_line returns: it goes on behind p.
Lines(f, p) == [s : Str, p : p + 1 .. Len(f) + 1, size : BufSizes]

LEMMA FreadLineSteps ==
  ASSUME NEW f \in Plain, NEW p \in 1 .. Len(f), NEW z \in BufSizes
  PROVE  /\ fread_line(f, p, z) \in Lines(f, p)
         /\ Len(Chunk(f, p, z)) < z - 1 =>
              fread_line(f, p, z) = [s |-> Chunk(f, p, z), p |-> FgetsEnd(f, p, z), size |-> z]
         /\ ~(Len(Chunk(f, p, z)) < z - 1) =>
              fread_line(f, p, z) =
                fread_line(f, FgetsEnd(f, p, z) - Len(Chunk(f, p, z)), Grown(z))
<1> DEFINE L == Len(f)
           D == (1 .. L) \X BufSizes
           Fits(x, y) == Len(Chunk(f, x, y)) < y - 1
           Here(x, y) == [s |-> Chunk(f, x, y), p |-> FgetsEnd(f, x, y), size |-> y]
           Back(x, y) == FgetsEnd(f, x, y) - Len(Chunk(f, x, y))
           A == UNION {Lines(f, x) : x \in 1 .. L}
           stop == {d \in D : Fits(d[1], d[2])}
           base == [d \in stop |-> Here(d[1], d[2])]
           next == [d \in D \ stop |-> <<Back(d[1], d[2]), Grown(d[2])>>]
           step == [q \in (D \ stop) \X A |-> q[2]]
           size == [d \in D |-> IF d[2] > L + 2 THEN 0 ELSE L + 3 - d[2]]
           N == L + 3
           Body(g, d) == LET e == FgetsEnd(f, d[1], d[2])
                             s == ReadAs(f, d[1], e)
                             i == StrLen(s)
                         IN IF i < d[2] - 1 THEN [s |-> SubSeq(s, 1, i), p |-> e, size |-> d[2]]
                            ELSE g[<<e - i, (d[2] * 3) \div 2>>]
<1>1. L \in Nat /\ f \in Str
  BY PlainIsString
<1>2. ASSUME NEW x \in 1 .. L, NEW y \in BufSizes PROVE Here(x, y) \in Lines(f, x)
  <2>1. FgetsEnd(f, x, y) \in x + 1 .. Len(f) + 1
    BY <1>1, FgetsEndIs
  <2>2. Chunk(f, x, y) \in Str
    BY GoesBack, PlainIsString
  <2> QED
    BY <2>1, <2>2 DEF Lines
<1>3. ASSUME NEW x \in 1 .. L, NEW y \in BufSizes, ~Fits(x, y)
      PROVE  /\ Back(x, y) \in 1 .. L /\ x <= Back(x, y) /\ Grown(y) \in BufSizes
             /\ y \in Nat /\ y <= L + 1 /\ Grown(y) > y /\ Grown(y) \in Nat
  <2>1. Len(Chunk(f, x, y)) \in Nat /\ y \in Nat /\ Grown(y) \in BufSizes /\ Grown(y) > y /\ Grown(y) \in Nat
    BY GoesBack, GrownIs DEF BufSizes
  <2>2. Len(Chunk(f, x, y)) >= y - 1
    BY <1>3, <2>1
  <2>3. Back(x, y) \in 1 .. L /\ y <= L + 1 /\ Back(x, y) \in x .. L + 1
    BY <2>2, GoesBack
  <2> QED
    BY <1>1, <2>1, <2>3
<1>4. ASSUME NEW x \in 1 .. L, NEW y \in BufSizes, NEW g
      PROVE  Body(g, <<x, y>>) = IF Fits(x, y) THEN Here(x, y) ELSE g[<<Back(x, y), Grown(y)>>]
  <2> DEFINE c == Chunk(f, x, y)
  <2>1. StrLen(c) = Len(c) /\ SubSeq(c, 1, Len(c)) = c
    BY GoesBack, PlainIsString
  <2> QED
    BY <2>1 DEF Chunk, Grown
<1> HIDE DEF Fits, Here, Back, Body, L
<1>5. stop \in SUBSET D /\ \A x \in 1 .. L : \A y \in BufSizes : <<x, y>> \in stop <=> Fits(x, y)
  OBVIOUS
<1>6. base \in [stop -> A] /\ \A d \in stop : base[d] = Here(d[1], d[2])
  BY <1>2
<1>7. next \in [D \ stop -> D] /\ \A d \in D \ stop : next[d] = <<Back(d[1], d[2]), Grown(d[2])>>
  BY <1>3
<1>8. step \in [(D \ stop) \X A -> A] /\ \A d \in D \ stop : \A a \in A : step[<<d, a>>] = a
  OBVIOUS
<1>9. N \in Nat /\ size \in [D -> 0 .. N]
  BY <1>1 DEF BufSizes
<1>10. \A d \in D \ stop : size[next[d]] < size[d]
  <2> SUFFICES ASSUME NEW x \in 1 .. L, NEW y \in BufSizes, ~Fits(x, y)
               PROVE  size[<<Back(x, y), Grown(y)>>] < size[<<x, y>>]
    BY <1>7
  <2>1. /\ <<Back(x, y), Grown(y)>> \in D /\ y \in Nat /\ y <= L + 1
        /\ Grown(y) > y /\ Grown(y) \in Nat
    BY <1>3
  <2> DEFINE Left(n) == IF n > L + 2 THEN 0 ELSE L + 3 - n
  <2>2. size[<<x, y>>] = Left(y) /\ size[<<Back(x, y), Grown(y)>>] = Left(Grown(y))
    BY <2>1
  <2> HIDE DEF size
  <2>3. \A n \in Nat : n > y => Left(n) < Left(y)
    BY <1>1, <2>1
  <2> QED
    BY <2>1, <2>2, <2>3
<1> HIDE DEF stop, base, next, step, size, A, N
<1>11. PICK h \in [D -> A] : IsRecursive(h, D, stop, base, next, step)
  BY <1>5, <1>6, <1>7, <1>8, <1>9, <1>10, RecursionExists
<1>12. h = [d \in D |-> Body(h, d)]
  <2>1. h = [d \in D |-> IF d \in stop THEN base[d] ELSE step[<<d, h[next[d]]>>]]
    BY <1>11 DEF IsRecursive
  <2>2. ASSUME NEW d \in D
        PROVE  (IF d \in stop THEN base[d] ELSE step[<<d, h[next[d]]>>]) = Body(h, d)
    <3>1. PICK x \in 1 .. L, y \in BufSizes : d = <<x, y>>
      OBVIOUS
    <3>2. CASE Fits(x, y)
      BY <1>4, <1>5, <1>6, <3>1, <3>2
    <3>3. CASE ~Fits(x, y)
      <4>1. d \in D \ stop
        BY <1>5, <3>1, <3>3
      <4>2. next[d] = <<Back(x, y), Grown(y)>> /\ h[next[d]] \in A
        BY <1>7, <3>1, <4>1
      <4> QED
        BY <1>4, <1>8, <3>1, <3>3, <4>1, <4>2
    <3> QED
      BY <3>2, <3>3
  <2> QED
    BY <2>1, <2>2
<1> DEFINE g == CHOOSE read : read = [d \in D |-> Body(read, d)]
<1>13. g = [d \in D |-> Body(g, d)]
  BY <1>12
<1>14. \A x, y : fread_line(f, x, y) = g[<<x, y>>]
  BY DEF fread_line, Body, L
<1> HIDE DEF g
<1>15. \A x \in 1 .. L : \A y \in BufSizes :
         fread_line(f, x, y) = IF Fits(x, y) THEN Here(x, y) ELSE fread_line(f, Back(x, y), Grown(y))
  <2> TAKE x \in 1 .. L
  <2> TAKE y \in BufSizes
  <2>1. <<x, y>> \in D
    OBVIOUS
  <2>2. g[<<x, y>>] = Body(g, <<x, y>>)
    BY <1>13, <2>1
  <2> QED
    BY <1>4, <1>14, <2>2
<1> DEFINE Q == {d \in D : fread_line(f, d[1], d[2]) \in Lines(f, d[1])}
<1>16. \A d \in D : (\A e \in D : size[e] < size[d] => e \in Q) => d \in Q
  <2> SUFFICES ASSUME NEW x \in 1 .. L, NEW y \in BufSizes, \A e \in D : size[e] < size[<<x, y>>] => e \in Q
               PROVE  fread_line(f, x, y) \in Lines(f, x)
    OBVIOUS
  <2>1. CASE Fits(x, y)
    BY <1>2, <1>15, <2>1
  <2>2. CASE ~Fits(x, y)
    <3>1. <<x, y>> \in D \ stop
      BY <1>5, <2>2
    <3>2. next[<<x, y>>] = <<Back(x, y), Grown(y)>> /\ <<Back(x, y), Grown(y)>> \in D
      BY <1>7, <3>1
    <3>3. <<Back(x, y), Grown(y)>> \in Q
      BY <1>10, <3>1, <3>2
    <3>4. fread_line(f, Back(x, y), Grown(y)) \in Lines(f, Back(x, y))
      BY <3>3
    <3>5. Lines(f, Back(x, y)) \subseteq Lines(f, x)
      <4>1. Back(x, y) \in 1 .. L /\ x <= Back(x, y)
        BY <1>3, <2>2
      <4> QED
        BY <1>1, <4>1 DEF Lines, L
    <3> QED
      BY <1>15, <2>2, <3>4, <3>5
  <2> QED
    BY <2>1, <2>2
<1> HIDE DEF Q, D
<1>17. \A d \in D : d \in Q
  BY <1>9, <1>16, ByMeasure
<1>18. <<p, z>> \in Q
  BY <1>17 DEF L, D
<1>19. fread_line(f, p, z) \in Lines(f, p)
  BY <1>18 DEF Q
<1> QED
  BY <1>15, <1>19 DEF Fits, Here, Back, L

\* The sizes of a buffer: those that matter, and what they grow to.
GoodSize(z) == z \in BufSizes /\ (z \in Sizes \/ z > MaxBytes + 1)

LEMMA SizesGrow ==
  /\ GoodSize(BufSize)
  /\ \A z : GoodSize(z) => GoodSize(Grown(z))
<1> DEFINE D == 0 .. MaxBytes
           stop == {0}
           base == [d \in stop |-> BufSize]
           next == [d \in D \ stop |-> d - 1]
           step == [q \in (D \ stop) \X BufSizes |-> Grown(q[2])]
           measure == [d \in D |-> d]
           Body(g, n) == IF n = 0 THEN BufSize ELSE (g[n - 1] * 3) \div 2
<1>1. MaxBytes \in Nat /\ BufSize \in BufSizes
  BY Assumed, TextAssumption DEF BufSizes
<1>2. /\ stop \in SUBSET D /\ base \in [stop -> BufSizes] /\ next \in [D \ stop -> D]
      /\ measure \in [D -> 0 .. MaxBytes] /\ \A d \in D \ stop : measure[next[d]] < measure[d]
  BY <1>1
<1>3. step \in [(D \ stop) \X BufSizes -> BufSizes]
  BY GrownIs
<1>4. /\ \A d \in stop : d = 0 /\ base[d] = BufSize
      /\ \A d \in D \ stop : d # 0 /\ next[d] = d - 1 /\ d - 1 \in D
      /\ \A d \in D \ stop : \A a \in BufSizes : step[<<d, a>>] = Grown(a)
  BY <1>1
<1>5. 0 \in D /\ \A n \in 0 .. MaxBytes - 1 : n \in D /\ n + 1 \in D /\ n + 1 # 0 /\ (n + 1) - 1 = n
  BY <1>1
<1>6. \A n : n \in D <=> n \in 0 .. MaxBytes
  OBVIOUS
<1> HIDE DEF D, stop, base, next, step, measure
<1>7. PICK h \in [D -> BufSizes] : IsRecursive(h, D, stop, base, next, step)
  BY <1>1, <1>2, <1>3, RecursionExists
<1>8. h = [d \in D |-> Body(h, d)]
  <2>1. h = [d \in D |-> IF d \in stop THEN base[d] ELSE step[<<d, h[next[d]]>>]]
    BY <1>7 DEF IsRecursive
  <2>2. ASSUME NEW d \in D
        PROVE  (IF d \in stop THEN base[d] ELSE step[<<d, h[next[d]]>>]) = Body(h, d)
    <3>1. CASE d \in stop
      BY <1>4, <3>1
    <3>2. CASE d \notin stop
      <4>1. d # 0 /\ next[d] = d - 1 /\ h[next[d]] \in BufSizes
        BY <1>4, <3>2
      <4>2. step[<<d, h[next[d]]>>] = Grown(h[next[d]])
        BY <1>4, <3>2, <4>1
      <4> QED
        BY <3>2, <4>1, <4>2 DEF Grown
    <3> QED
      BY <3>1, <3>2
  <2> HIDE DEF Body
  <2> QED
    BY <2>1, <2>2
<1> DEFINE g == CHOOSE size : size = [d \in D |-> Body(size, d)]
<1>9. g = [d \in D |-> Body(g, d)]
  BY <1>8
<1>10. Sizes = {g[n] : n \in 0 .. MaxBytes}
  BY DEF Sizes, D
<1> HIDE DEF g
<1>11. g[0] = BufSize /\ \A n \in 0 .. MaxBytes - 1 : g[n + 1] = Grown(g[n])
  <2>1. g[0] = BufSize
    BY <1>5, <1>9
  <2>2. ASSUME NEW n \in 0 .. MaxBytes - 1 PROVE g[n + 1] = Grown(g[n])
    <3>1. g[n + 1] = Body(g, n + 1)
      BY <1>5, <1>9
    <3> QED
      BY <1>5, <3>1 DEF Grown
  <2> QED
    BY <2>1, <2>2
<1> DEFINE P == {n \in 0 .. MaxBytes : g[n] \in BufSizes /\ g[n] > n + 2}
<1>12. \A n \in 0 .. MaxBytes : n \in P
  <2>1. 0 \in P
    BY <1>1, <1>11 DEF BufSizes
  <2>2. \A n \in 0 .. MaxBytes - 1 : n \in P => n + 1 \in P
    <3> SUFFICES ASSUME NEW n \in 0 .. MaxBytes - 1, g[n] \in BufSizes, g[n] > n + 2
                 PROVE  g[n + 1] \in BufSizes /\ g[n + 1] > (n + 1) + 2
      BY <1>1
    <3> DEFINE y == g[n]
               x == Grown(y)
    <3>1. x \in BufSizes /\ x > y /\ y \in Nat /\ y > n + 2
      BY GrownIs
    <3>2. g[n + 1] = x
      BY <1>11
    <3>3. x \in Nat
      BY <3>1 DEF BufSizes
    <3> HIDE DEF x, y
    <3> QED
      BY <3>1, <3>2, <3>3
  <2> HIDE DEF P
  <2> QED
    BY <1>1, <2>1, <2>2, UpTo
<1>13. ASSUME NEW z, GoodSize(z) PROVE GoodSize(Grown(z))
  <2>1. z \in Nat /\ Grown(z) \in BufSizes /\ Grown(z) \in Nat /\ Grown(z) > z
    BY <1>13, GrownIs DEF GoodSize, BufSizes
  <2>2. CASE z > MaxBytes + 1
    BY <1>1, <2>1, <2>2 DEF GoodSize
  <2>3. CASE z \in Sizes
    <3>1. PICK n \in 0 .. MaxBytes : z = g[n]
      BY <1>10, <2>3
    <3>2. CASE n = MaxBytes
      <4>1. z > MaxBytes + 2
        BY <1>12, <3>1, <3>2
      <4>2. Grown(z) > MaxBytes + 1
        BY <1>1, <2>1, <4>1
      <4> QED
        BY <2>1, <4>2 DEF GoodSize
    <3>3. CASE n # MaxBytes
      <4>1. n \in 0 .. MaxBytes - 1 /\ n + 1 \in 0 .. MaxBytes
        BY <1>1, <3>3
      <4>2. Grown(z) \in Sizes
        BY <1>10, <1>11, <3>1, <4>1
      <4> QED
        BY <2>1, <4>2 DEF GoodSize
    <3> QED
      BY <3>2, <3>3
  <2> QED
    BY <1>13, <2>2, <2>3 DEF GoodSize
<1>14. GoodSize(BufSize)
  <2>1. 0 \in 0 .. MaxBytes
    BY <1>1
  <2> QED
    BY <1>1, <1>10, <1>11, <2>1 DEF GoodSize
<1> QED
  BY <1>13, <1>14

\* Where the line that goes on at p ends.
LineStop(f, e) == e = Len(f) + 1 \/ f[e - 1] = Nl

IsLine(f, p, e) ==
  e \in p + 1 .. Len(f) + 1 /\ LineStop(f, e) /\ \A x \in p + 1 .. e - 1 : ~LineStop(f, x)

LEMMA LineStops ==
  ASSUME NEW f \in Str, NEW p \in 1 .. Len(f)
  PROVE  \E e : IsLine(f, p, e)
<1> DEFINE T == {e \in p + 1 .. Len(f) + 1 : LineStop(f, e)}
<1>1. Len(f) \in Nat
  BY DEF Str
<1>2. T \in SUBSET Nat /\ Len(f) + 1 \in T
  BY <1>1 DEF LineStop
<1>3. PICK e \in T : \A m \in T : e <= m
  BY <1>2, LeastNumber
<1>4. \A x \in p + 1 .. e - 1 : ~LineStop(f, x)
  <2> SUFFICES ASSUME NEW x \in p + 1 .. e - 1, LineStop(f, x) PROVE FALSE
    OBVIOUS
  <2>1. x \in T
    BY <1>1
  <2> QED
    BY <1>1, <1>3, <2>1
<1>5. e \in p + 1 .. Len(f) + 1 /\ LineStop(f, e)
  OBVIOUS
<1> QED
  BY <1>4, <1>5 DEF IsLine

\* Before fgets stops, the buffer is not full.
LEMMA NotFullYet ==
  ASSUME NEW f \in Str, NEW p \in 1 .. Len(f), NEW z \in BufSizes
  PROVE  /\ \A x \in p .. FgetsEnd(f, p, z) - 1 : Len(ReadAs(f, p, x)) < z - 1
         /\ Len(Chunk(f, p, z)) \in 0 .. z - 1
<1> DEFINE q == FgetsEnd(f, p, z)
           n(x) == Len(ReadAs(f, p, x))
           P == {k \in 0 .. (q - 1) - p : n(p + k) < z - 1}
<1>1. Len(f) \in Nat /\ p \in Nat \ {0} /\ z \in Nat /\ z > 2
  BY GrownIs DEF Str
<1>2. q \in p + 1 .. Len(f) + 1 /\ \A x \in p + 1 .. q - 1 : ~FgetsStops(f, p, z, x)
  BY FgetsEndIs
<1> HIDE DEF q
<1>3. \A x \in p .. q : n(x) \in Nat
  <2> TAKE x \in p .. q
  <2>1. x \in 1 .. Len(f) + 1 /\ p <= x
    BY <1>1, <1>2
  <2> QED
    BY <1>1, <2>1, ReadAsLengths
<1>4. ASSUME NEW x \in p + 1 .. q PROVE n(x) = n(x - 1) \/ n(x) = n(x - 1) + 1
  <2> DEFINE y == x - 1
  <2>1. x \in 1 .. Len(f) + 1 /\ x > p /\ y \in 1 .. Len(f) + 1 /\ p <= y /\ y \in 1 .. Len(f)
    BY <1>1, <1>2
  <2>2. ReadAs(f, p, x) = IF IsDropped(f, y) THEN ReadAs(f, p, y) ELSE Append(ReadAs(f, p, y), f[y])
    BY <1>1, <2>1, ReadAsSteps
  <2>3. ReadAs(f, p, y) \in Seq(Byte) /\ f[y] \in Byte
    BY <1>1, <2>1, ReadAsIsString DEF Str
  <2> HIDE DEF y
  <2>4. Len(Append(ReadAs(f, p, y), f[y])) = Len(ReadAs(f, p, y)) + 1
    BY <2>3
  <2>5. n(x) = n(y) \/ n(x) = n(y) + 1
    BY <2>2, <2>4
  <2> QED
    BY <2>5 DEF y
<1>5. \A x \in p + 1 .. q - 1 : n(x) # z - 1
  BY <1>2 DEF FgetsStops
<1>6. n(p) = 0
  <2>1. p \in 1 .. Len(f) + 1
    BY <1>1
  <2>2. ReadAs(f, p, p) = <<>>
    BY <1>1, <2>1, ReadAsSteps
  <2> QED
    BY <2>2
<1> HIDE DEF n
<1>7. 0 \in P
  BY <1>1, <1>2, <1>6
<1>8. \A k \in 0 .. ((q - 1) - p) - 1 : k \in P => k + 1 \in P
  <2> SUFFICES ASSUME NEW k \in 0 .. ((q - 1) - p) - 1, n(p + k) < z - 1
               PROVE  n(p + (k + 1)) < z - 1
    BY <1>1, <1>2
  <2> DEFINE x == p + (k + 1)
  <2>1. x \in p + 1 .. q - 1 /\ x - 1 = p + k /\ x \in p + 1 .. q /\ x \in p .. q /\ x - 1 \in p .. q
    BY <1>1, <1>2
  <2> HIDE DEF x
  <2>2. n(x) = n(x - 1) \/ n(x) = n(x - 1) + 1
    BY <1>4, <2>1
  <2>3. n(x) # z - 1 /\ n(x - 1) < z - 1 /\ n(x) \in Nat /\ n(x - 1) \in Nat
    BY <1>3, <1>5, <2>1
  <2>4. n(x) < z - 1
    BY <1>1, <2>2, <2>3
  <2> QED
    BY <2>4 DEF x
<1> HIDE DEF P
<1>9. \A k \in 0 .. (q - 1) - p : k \in P
  <2>1. (q - 1) - p \in Nat
    BY <1>1, <1>2
  <2> QED
    BY <1>7, <1>8, <2>1, UpTo
<1>10. \A x \in p .. q - 1 : n(x) < z - 1
  <2> TAKE x \in p .. q - 1
  <2>1. x - p \in 0 .. (q - 1) - p /\ p + (x - p) = x
    BY <1>1, <1>2
  <2> QED
    BY <1>9, <2>1 DEF P
<1>11. n(q) \in 0 .. z - 1
  <2>1. q \in p + 1 .. q /\ q \in p .. q /\ q - 1 \in p .. q /\ q - 1 \in p .. q - 1
    BY <1>1, <1>2
  <2>2. (n(q) = n(q - 1) \/ n(q) = n(q - 1) + 1) /\ n(q) \in Nat /\ n(q - 1) \in Nat /\ n(q - 1) < z - 1
    BY <1>3, <1>4, <1>10, <2>1
  <2> QED
    BY <1>1, <2>2
<1> QED
  BY <1>10, <1>11 DEF q, n, Chunk

\* A line that fits the buffer is read whole, and one that does not is read again.
LEMMA LineOrAgain ==
  ASSUME NEW f \in Plain, NEW p \in 1 .. Len(f), NEW e, IsLine(f, p, e), NEW z \in BufSizes,
         Len(ReadAs(f, p, e)) = e - p \/ Len(ReadAs(f, p, e)) + 1 # z
  PROVE  /\ Len(Chunk(f, p, z)) < z - 1 => FgetsEnd(f, p, z) = e
         /\ ~(Len(Chunk(f, p, z)) < z - 1) => FgetsEnd(f, p, z) - Len(Chunk(f, p, z)) = p
<1> DEFINE q == FgetsEnd(f, p, z)
           n == Len(Chunk(f, p, z))
<1>1. /\ f \in Str /\ Len(f) \in Nat /\ p \in Nat \ {0} /\ z \in Nat /\ z > 2
      /\ e \in p + 1 .. Len(f) + 1 /\ LineStop(f, e) /\ \A x \in p + 1 .. e - 1 : ~LineStop(f, x)
  BY PlainIsString, GrownIs DEF IsLine
<1>2. /\ q \in p + 1 .. Len(f) + 1 /\ FgetsStops(f, p, z, q)
      /\ \A x \in p + 1 .. q - 1 : ~FgetsStops(f, p, z, x)
  BY <1>1, FgetsEndIs
<1>3. n \in 0 .. z - 1 /\ \A x \in p .. q - 1 : Len(ReadAs(f, p, x)) < z - 1
  BY <1>1, NotFullYet
<1>4. n = Len(ReadAs(f, p, q))
  BY DEF Chunk
<1> HIDE DEF q, n
<1>5. q <= e
  <2>1. FgetsStops(f, p, z, e)
    BY <1>1 DEF FgetsStops, LineStop
  <2>2. ~(e \in p + 1 .. q - 1)
    BY <1>2, <2>1
  <2> QED
    BY <1>1, <1>2, <2>2
<1>6. ASSUME n < z - 1 PROVE q = e
  <2>1. LineStop(f, q)
    <3>1. n # z - 1
      BY <1>1, <1>3, <1>6
    <3> QED
      BY <1>2, <1>4, <3>1 DEF FgetsStops, LineStop
  <2>2. ~(q \in p + 1 .. e - 1)
    BY <1>1, <2>1
  <2> QED
    BY <1>1, <1>2, <1>5, <2>2
<1>7. ASSUME ~(n < z - 1) PROVE q - n = p
  <2>1. n = z - 1 /\ z - 1 \in Nat
    BY <1>1, <1>3, <1>7
  <2>2. n = q - p
    <3>1. CASE q = e
      <4>1. Len(ReadAs(f, p, e)) = n
        BY <1>4, <3>1
      <4>2. n + 1 = z
        BY <1>1, <2>1
      <4>3. n = e - p
        BY <4>1, <4>2
      <4> QED
        BY <3>1, <4>3
    <3>2. CASE q # e
      <4>1. \A x \in p .. q - 1 : ~IsDropped(f, x)
        <5> SUFFICES ASSUME NEW x \in p .. q - 1, IsDropped(f, x) PROVE FALSE
          OBVIOUS
        <5>1. x \in Nat /\ x < Len(f) /\ f[x + 1] = Nl
          BY <1>1, <1>2 DEF IsDropped
        <5>2. ~((x + 1) + 1 \in p + 1 .. e - 1)
          <6> DEFINE y == x + 1
          <6>1. f[y] = Nl /\ (y + 1) - 1 = y
            BY <5>1
          <6> HIDE DEF y
          <6>2. LineStop(f, y + 1)
            BY <6>1 DEF LineStop
          <6> QED
            BY <1>1, <6>2 DEF y
        <5>3. x = q - 1
          BY <1>1, <1>2, <1>5, <3>2, <5>1, <5>2
        <5>4. ReadAs(f, p, q) = ReadAs(f, p, x)
          <6>1. q \in 1 .. Len(f) + 1 /\ q > p
            BY <1>1, <1>2
          <6> QED
            BY <1>1, <5>3, <6>1, ReadAsSteps
        <5>5. n < z - 1
          BY <1>3, <1>4, <5>4
        <5> QED
          BY <1>7, <5>5
      <4>2. q \in 1 .. Len(f) + 1 /\ p <= q
        BY <1>1, <1>2
      <4> QED
        BY <1>1, <1>4, <4>1, <4>2, ReadAsLengths
    <3> QED
      BY <3>1, <3>2
  <2> QED
    BY <1>1, <1>2, <2>1, <2>2
<1> QED
  BY <1>6, <1>7 DEF q, n

\* A line, read with a buffer of any size.
LEMMA LineIsRead ==
  ASSUME NEW f \in Plain, Len(f) <= MaxBytes, NEW p \in 1 .. Len(f), NEW e, IsLine(f, p, e),
         Len(ReadAs(f, p, e)) = e - p \/ Len(ReadAs(f, p, e)) + 1 \notin Sizes,
         NEW z, GoodSize(z)
  PROVE  \E y : GoodSize(y) /\ fread_line(f, p, z) = [s |-> ReadAs(f, p, e), p |-> e, size |-> y]
<1> DEFINE L == Len(f)
           Read(x) == \E y : /\ GoodSize(y)
                             /\ fread_line(f, p, x) = [s |-> ReadAs(f, p, e), p |-> e, size |-> y]
           Q == {x \in BufSizes : GoodSize(x) => Read(x)}
           size == [x \in BufSizes |-> IF x > L + 2 THEN 0 ELSE L + 3 - x]
<1>1. L \in Nat /\ f \in Str /\ MaxBytes \in Nat
  BY PlainIsString, Assumed
<1>2. e \in p + 1 .. L + 1 /\ e \in Nat
  BY <1>1 DEF IsLine
<1>3. \A x : GoodSize(x) => Len(ReadAs(f, p, e)) = e - p \/ Len(ReadAs(f, p, e)) + 1 # x
  <2> SUFFICES ASSUME NEW x, GoodSize(x), Len(ReadAs(f, p, e)) + 1 = x, Len(ReadAs(f, p, e)) # e - p
               PROVE FALSE
    OBVIOUS
  <2>1. x > MaxBytes + 1
    BY DEF GoodSize
  <2>2. Len(ReadAs(f, p, e)) \in 0 .. e - p
    <3>1. e \in 1 .. L + 1 /\ p \in Nat \ {0} /\ p <= e
      BY <1>1, <1>2
    <3> QED
      BY <1>1, <3>1, ReadAsLengths
  <2> HIDE DEF Q, size, Read
  <2> QED
    BY <1>1, <1>2, <2>1, <2>2
<1>4. L + 3 \in Nat /\ size \in [BufSizes -> 0 .. L + 3]
  BY <1>1 DEF BufSizes
<1>5. ASSUME NEW x \in BufSizes, \A y \in BufSizes : size[y] < size[x] => y \in Q, GoodSize(x)
      PROVE  Read(x)
  <2>1. /\ Len(Chunk(f, p, x)) < x - 1 => FgetsEnd(f, p, x) = e
        /\ ~(Len(Chunk(f, p, x)) < x - 1) => FgetsEnd(f, p, x) - Len(Chunk(f, p, x)) = p
    BY <1>3, <1>5, LineOrAgain
  <2>2. CASE Len(Chunk(f, p, x)) < x - 1
    <3>1. fread_line(f, p, x) = [s |-> ReadAs(f, p, e), p |-> e, size |-> x]
      BY <2>1, <2>2, FreadLineSteps DEF Chunk
    <3> QED
      BY <1>5, <3>1
  <2>3. CASE ~(Len(Chunk(f, p, x)) < x - 1)
    <3>1. fread_line(f, p, x) = fread_line(f, p, Grown(x))
      BY <2>1, <2>3, FreadLineSteps
    <3>2. Grown(x) \in BufSizes /\ GoodSize(Grown(x)) /\ Grown(x) > x /\ Grown(x) \in Nat /\ x \in Nat
      BY <1>5, SizesGrow, GrownIs DEF BufSizes
    <3>3. x <= L + 1
      <4>1. Len(Chunk(f, p, x)) \in Nat
        BY GoesBack
      <4>2. Len(Chunk(f, p, x)) >= x - 1
        BY <2>3, <3>2, <4>1
      <4> QED
        BY <4>2, GoesBack
    <3>4. size[Grown(x)] < size[x]
      <4> DEFINE Left(n) == IF n > L + 2 THEN 0 ELSE L + 3 - n
      <4>1. size[Grown(x)] = Left(Grown(x)) /\ size[x] = Left(x)
        BY <3>2
      <4>2. \A n \in Nat : n > x => Left(n) < Left(x)
        BY <1>1, <3>2, <3>3
      <4> HIDE DEF size, Left
      <4> QED
        BY <3>2, <4>1, <4>2
    <3>5. Read(Grown(x))
      BY <1>5, <3>2, <3>4
    <3> QED
      BY <3>1, <3>5
  <2> QED
    BY <2>2, <2>3
<1> HIDE DEF Read, size
<1>6. \A x \in BufSizes : (\A y \in BufSizes : size[y] < size[x] => y \in Q) => x \in Q
  BY <1>5
<1> HIDE DEF Q
<1>7. \A x \in BufSizes : x \in Q
  BY <1>4, <1>6, ByMeasure
<1>8. z \in BufSizes
  BY DEF GoodSize
<1> QED
  BY <1>7, <1>8 DEF Q, Read

-----------------------------------------------------------------------------
(* The lines of a string. *)

LEMMA LineEndIs ==
  ASSUME NEW s \in Str, NEW p \in 1 .. Len(s)
  PROVE  /\ LineEnd(s, p) \in p .. Len(s)
         /\ LineEnd(s, p) = Len(s) \/ s[LineEnd(s, p)] = Nl
         /\ \A x \in p .. LineEnd(s, p) - 1 : s[x] # Nl
<1> DEFINE Ok(e) == e = Len(s) \/ s[e] = Nl
           T == {e \in p .. Len(s) : Ok(e)}
<1>1. Len(s) \in Nat
  BY DEF Str
<1>2. T \in SUBSET Nat /\ Len(s) \in T
  BY <1>1
<1>3. PICK e \in T : \A m \in T : e <= m
  BY <1>2, LeastNumber
<1>4. \A x \in p .. e - 1 : s[x] # Nl
  <2> SUFFICES ASSUME NEW x \in p .. e - 1, s[x] = Nl PROVE FALSE
    OBVIOUS
  <2>1. x \in T
    BY <1>1
  <2> QED
    BY <1>1, <1>3, <2>1
<1>5. e \in p .. Len(s) /\ Ok(e)
  OBVIOUS
<1> QED
  BY <1>4, <1>5 DEF LineEnd

LEMMA LineEndAt ==
  ASSUME NEW s \in Str, NEW p \in 1 .. Len(s), NEW e \in p .. Len(s), e = Len(s) \/ s[e] = Nl,
         \A x \in p .. e - 1 : s[x] # Nl
  PROVE  LineEnd(s, p) = e
<1> DEFINE q == LineEnd(s, p)
<1>1. /\ q \in p .. Len(s) /\ (q = Len(s) \/ s[q] = Nl) /\ \A x \in p .. q - 1 : s[x] # Nl
      /\ Len(s) \in Nat
  BY LineEndIs DEF Str
<1> HIDE DEF q
<1>2. ~(q < e)
  <2> SUFFICES ASSUME q < e PROVE FALSE
    OBVIOUS
  <2>1. q \in p .. e - 1 /\ q # Len(s)
    BY <1>1
  <2> QED
    BY <1>1, <2>1
<1>3. ~(e < q)
  <2> SUFFICES ASSUME e < q PROVE FALSE
    OBVIOUS
  <2>1. e \in p .. q - 1 /\ e # Len(s)
    BY <1>1
  <2> QED
    BY <1>1, <2>1
<1>4. q = e
  BY <1>1, <1>2, <1>3
<1> QED
  BY <1>4 DEF q

\* The function of LinesOf.
LineList(g, s) ==
  /\ g \in [1 .. Len(s) + 1 -> Seq(Str)]
  /\ g[Len(s) + 1] = <<>>
  /\ \A p \in 1 .. Len(s) : g[p] = <<SubSeq(s, p, LineEnd(s, p))>> \o g[LineEnd(s, p) + 1]

LEMMA LinesOfIs ==
  ASSUME NEW s \in Str
  PROVE  \E g : LineList(g, s) /\ LinesOf(s) = g[1]
<1> DEFINE L == Len(s)
           D == 1 .. L + 1
           A == Seq(Str)
           Line(p) == SubSeq(s, p, LineEnd(s, p))
           stop == {L + 1}
           base == [d \in stop |-> <<>>]
           next == [d \in D \ stop |-> LineEnd(s, d) + 1]
           step == [q \in (D \ stop) \X A |-> <<Line(q[1])>> \o q[2]]
           size == [d \in D |-> L + 1 - d]
           Body(g, p) == IF p > L THEN <<>> ELSE <<Line(p)>> \o g[LineEnd(s, p) + 1]
<1>1. L \in Nat
  BY DEF Str
<1>2. ASSUME NEW p \in 1 .. L PROVE LineEnd(s, p) \in p .. L /\ LineEnd(s, p) + 1 \in D /\ Line(p) \in Str
  <2>1. LineEnd(s, p) \in p .. L
    BY LineEndIs
  <2>2. Line(p) \in Seq(Byte)
    BY <1>1, <2>1, SubSeqProperties DEF Str
  <2> QED
    BY <1>1, <2>1, <2>2 DEF Str
<1>3. /\ \A d \in D : d \in stop <=> d > L
      /\ \A d \in D : d \notin stop <=> d \in 1 .. L
      /\ L + 1 \in D
  BY <1>1
<1> HIDE DEF Line
<1>4. /\ stop \in SUBSET D /\ base \in [stop -> A] /\ next \in [D \ stop -> D]
      /\ L + 1 \in Nat /\ size \in [D -> 0 .. L + 1] /\ \A d \in D \ stop : size[next[d]] < size[d]
  <2>1. stop \in SUBSET D /\ base \in [stop -> A] /\ size \in [D -> 0 .. L + 1]
    BY <1>1
  <2>2. next \in [D \ stop -> D]
    BY <1>2, <1>3
  <2>3. ASSUME NEW d \in D \ stop PROVE size[next[d]] < size[d]
    <3>1. LineEnd(s, d) \in d .. L /\ LineEnd(s, d) + 1 \in D /\ d \in 1 .. L
      BY <1>2, <1>3
    <3>2. size[next[d]] = L + 1 - (LineEnd(s, d) + 1) /\ size[d] = L + 1 - d
      BY <3>1
    <3> QED
      BY <1>1, <3>1, <3>2
  <2> QED
    BY <1>1, <2>1, <2>2, <2>3
<1>5. /\ step \in [(D \ stop) \X A -> A]
      /\ \A d \in D \ stop : \A a \in A : step[<<d, a>>] = <<Line(d)>> \o a
  <2>1. ASSUME NEW d \in D \ stop, NEW a \in A PROVE <<Line(d)>> \o a \in A
    BY <1>2, <1>3
  <2> QED
    BY <2>1
<1>6. /\ \A d \in stop : base[d] = <<>>
      /\ \A d \in D \ stop : next[d] = LineEnd(s, d) + 1
  OBVIOUS
<1> HIDE DEF D, A, stop, base, next, step, size
<1>7. PICK h \in [D -> A] : IsRecursive(h, D, stop, base, next, step)
  BY <1>4, <1>5, RecursionExists
<1>8. h = [d \in D |-> Body(h, d)]
  <2>1. h = [d \in D |-> IF d \in stop THEN base[d] ELSE step[<<d, h[next[d]]>>]]
    BY <1>7 DEF IsRecursive
  <2>2. ASSUME NEW d \in D
        PROVE  (IF d \in stop THEN base[d] ELSE step[<<d, h[next[d]]>>]) = Body(h, d)
    <3>1. CASE d \in stop
      BY <1>3, <1>6, <3>1
    <3>2. CASE d \notin stop
      <4>1. next[d] \in D /\ h[next[d]] \in A
        BY <1>4, <3>2
      <4>2. step[<<d, h[next[d]]>>] = <<Line(d)>> \o h[next[d]]
        BY <1>5, <3>2, <4>1
      <4> QED
        BY <1>3, <1>6, <3>2, <4>2
    <3> QED
      BY <3>1, <3>2
  <2> HIDE DEF Body
  <2> QED
    BY <2>1, <2>2
<1> DEFINE g == CHOOSE from : from = [d \in D |-> Body(from, d)]
<1>9. g = [d \in D |-> Body(g, d)]
  BY <1>8
<1>10. LinesOf(s) = g[1]
  BY DEF LinesOf, Line, D
<1> HIDE DEF g
<1>11. \A d \in D : g[d] = Body(g, d)
  BY <1>9
<1>12. ASSUME NEW d \in D, d \in stop PROVE g[d] = <<>> /\ g[d] \in A
  <2>1. d > L
    BY <1>3, <1>12
  <2>2. Body(g, d) = <<>>
    BY <2>1
  <2> HIDE DEF Body
  <2>3. g[d] = <<>>
    BY <1>11, <2>2
  <2>4. <<>> \in A
    BY DEF A
  <2> QED
    BY <2>3, <2>4
<1> DEFINE Q == {d \in D : g[d] \in A}
<1>13. ASSUME NEW d \in D, \A e \in D : size[e] < size[d] => e \in Q PROVE d \in Q
  <2>1. CASE d \in stop
    BY <1>12, <2>1
  <2>2. CASE d \notin stop
    <3>1. next[d] \in D /\ next[d] \in Q
      BY <1>4, <1>13, <2>2
    <3>2. g[d] = <<Line(d)>> \o g[next[d]] /\ g[next[d]] \in A
      BY <1>3, <1>6, <1>11, <2>2, <3>1
    <3>3. step[<<d, g[next[d]]>>] \in A
      BY <1>5, <2>2, <3>2
    <3> QED
      BY <1>5, <2>2, <3>2, <3>3
  <2> QED
    BY <2>1, <2>2
<1> HIDE DEF Q
<1>14. \A d \in D : d \in Q
  BY <1>4, <1>13, ByMeasure
<1>15. LineList(g, s)
  <2>1. g \in [D -> A]
    BY <1>9, <1>14 DEF Q
  <2>2. g[L + 1] = <<>>
    <3>1. L + 1 \in D /\ L + 1 \in stop
      BY <1>3 DEF stop
    <3> QED
      BY <1>12, <3>1
  <2>3. ASSUME NEW p \in 1 .. L PROVE g[p] = <<Line(p)>> \o g[LineEnd(s, p) + 1]
    <3>1. p \in D /\ ~(p > L)
      BY <1>1 DEF D
    <3> QED
      BY <1>11, <3>1
  <2> QED
    BY <2>1, <2>2, <2>3 DEF LineList, D, A, Line
<1> QED
  BY <1>10, <1>15

\* The function of LinesRead.
ReadList(g, f) ==
  /\ \A z \in BufSizes : g[<<Len(f) + 1, z>>] = <<>>
  /\ \A p \in 1 .. Len(f) : \A z \in BufSizes :
       g[<<p, z>>] = <<fread_line(f, p, z).s>> \o g[<<fread_line(f, p, z).p, fread_line(f, p, z).size>>]

LEMMA LinesReadIs ==
  ASSUME NEW f \in Plain
  PROVE  \E g : ReadList(g, f) /\ LinesRead(f) = g[<<1, BufSize>>]
<1> DEFINE L == Len(f)
           D == (1 .. L + 1) \X BufSizes
           A == Seq(Str)
           Line(d) == fread_line(f, d[1], d[2])
           After(d) == <<Line(d).p, Line(d).size>>
           stop == {d \in D : d[1] = L + 1}
           base == [d \in stop |-> <<>>]
           next == [d \in D \ stop |-> After(d)]
           step == [q \in (D \ stop) \X A |-> <<Line(q[1]).s>> \o q[2]]
           size == [d \in D |-> L + 1 - d[1]]
           Body(g, d) == IF d[1] = L + 1 THEN <<>> ELSE <<Line(d).s>> \o g[After(d)]
<1>1. L \in Nat
  BY PlainIsString
<1>2. ASSUME NEW p \in 1 .. L, NEW z \in BufSizes
      PROVE  /\ Line(<<p, z>>).p \in p + 1 .. L + 1 /\ Line(<<p, z>>).s \in Str
             /\ After(<<p, z>>) \in D /\ After(<<p, z>>)[1] \in p + 1 .. L + 1
  <2>1. Line(<<p, z>>) \in Lines(f, p)
    BY FreadLineSteps
  <2>2. Line(<<p, z>>).p \in p + 1 .. L + 1 /\ Line(<<p, z>>).s \in Str /\ Line(<<p, z>>).size \in BufSizes
    BY <2>1 DEF Lines
  <2> HIDE DEF Line
  <2> QED
    BY <1>1, <2>2
<1> HIDE DEF Line
<1>3. \A d \in D \ stop : \E p \in 1 .. L : \E z \in BufSizes : d = <<p, z>>
  BY <1>1
<1>4. ASSUME NEW d \in D \ stop
      PROVE  /\ next[d] = After(d) /\ next[d] \in D /\ Line(d).s \in Str
             /\ size[next[d]] < size[d] /\ d[1] # L + 1
  <2>1. PICK p \in 1 .. L, z \in BufSizes : d = <<p, z>>
    BY <1>3
  <2>2. After(d) \in D /\ Line(d).s \in Str /\ After(d)[1] \in p + 1 .. L + 1 /\ d[1] = p
    BY <1>2, <2>1
  <2> HIDE DEF After
  <2>3. next[d] = After(d) /\ size[After(d)] = L + 1 - After(d)[1] /\ size[d] = L + 1 - p
    BY <2>2
  <2>4. size[next[d]] < size[d]
    BY <1>1, <2>2, <2>3
  <2> QED
    BY <2>2, <2>3, <2>4
<1>5. /\ stop \in SUBSET D /\ base \in [stop -> A] /\ next \in [D \ stop -> D]
      /\ L + 1 \in Nat /\ size \in [D -> 0 .. L + 1] /\ \A d \in D \ stop : size[next[d]] < size[d]
  <2>1. stop \in SUBSET D /\ base \in [stop -> A] /\ size \in [D -> 0 .. L + 1]
    BY <1>1
  <2>2. next \in [D \ stop -> D]
    BY <1>4
  <2> HIDE DEF stop, base, size, next, D
  <2> QED
    BY <1>1, <1>4, <2>1, <2>2
<1> HIDE DEF After
<1>6. /\ step \in [(D \ stop) \X A -> A]
      /\ \A d \in D \ stop : \A a \in A : step[<<d, a>>] = <<Line(d).s>> \o a
  <2>1. ASSUME NEW d \in D \ stop, NEW a \in A PROVE <<Line(d).s>> \o a \in A
    <3> DEFINE x == Line(d).s
    <3>1. x \in Str
      BY <1>4
    <3> HIDE DEF x
    <3>2. <<x>> \in Seq(Str)
      BY <3>1
    <3>3. <<x>> \o a \in Seq(Str)
      BY <3>2, ConcatProperties
    <3> QED
      BY <3>3 DEF x
  <2> QED
    BY <2>1
<1>7. \A d \in stop : base[d] = <<>> /\ d[1] = L + 1
  OBVIOUS
<1>8. \A z \in BufSizes : <<L + 1, z>> \in D /\ <<L + 1, z>> \in stop
  BY <1>1
<1>9. \A p \in 1 .. L : \A z \in BufSizes : <<p, z>> \in D \ stop
  BY <1>1
<1>10. <<1, BufSize>> \in D
  BY <1>1, SizesGrow DEF GoodSize
<1> HIDE DEF D, A, stop, base, next, step, size
<1>11. PICK h \in [D -> A] : IsRecursive(h, D, stop, base, next, step)
  BY <1>5, <1>6, RecursionExists
<1>12. h = [d \in D |-> Body(h, d)]
  <2>1. h = [d \in D |-> IF d \in stop THEN base[d] ELSE step[<<d, h[next[d]]>>]]
    BY <1>11 DEF IsRecursive
  <2>2. ASSUME NEW d \in D
        PROVE  (IF d \in stop THEN base[d] ELSE step[<<d, h[next[d]]>>]) = Body(h, d)
    <3>1. CASE d \in stop
      BY <1>7, <3>1
    <3>2. CASE d \notin stop
      <4>1. next[d] = After(d) /\ h[next[d]] \in A /\ d[1] # L + 1
        BY <1>4, <3>2
      <4>2. step[<<d, h[next[d]]>>] = <<Line(d).s>> \o h[next[d]]
        BY <1>6, <3>2, <4>1
      <4> QED
        BY <3>2, <4>1, <4>2
    <3> QED
      BY <3>1, <3>2
  <2> HIDE DEF Body
  <2> QED
    BY <2>1, <2>2
<1> DEFINE g == CHOOSE from : from = [d \in D |-> Body(from, d)]
<1>13. g = [d \in D |-> Body(g, d)]
  BY <1>12
<1>14. LinesRead(f) = g[<<1, BufSize>>]
  BY DEF LinesRead, Line, After, D
<1> HIDE DEF g
<1>15. \A d \in D : g[d] = Body(g, d)
  BY <1>13
<1>16. ASSUME NEW z \in BufSizes PROVE g[<<L + 1, z>>] = <<>>
  <2>1. <<L + 1, z>> \in D /\ <<L + 1, z>>[1] = L + 1
    BY <1>8
  <2>2. Body(g, <<L + 1, z>>) = <<>>
    BY <2>1
  <2> HIDE DEF Body
  <2> QED
    BY <1>15, <2>1, <2>2
<1>17. ASSUME NEW p \in 1 .. L, NEW z \in BufSizes
       PROVE  g[<<p, z>>] = <<Line(<<p, z>>).s>> \o g[After(<<p, z>>)]
  <2>1. <<p, z>> \in D /\ <<p, z>>[1] # L + 1
    BY <1>1, <1>9
  <2> QED
    BY <1>15, <2>1
<1>18. ReadList(g, f)
  BY <1>16, <1>17 DEF ReadList, Line, After
<1> QED
  BY <1>14, <1>18

-----------------------------------------------------------------------------
(* The lines that are read are those of the text. *)

LEMMA ReadToEnd ==
  ASSUME NEW f \in Str, NEW p \in 1 .. Len(f) + 1, NEW e \in 1 .. Len(f) + 1, p <= e
  PROVE  ReadAs(f, p, Len(f) + 1) = ReadAs(f, p, e) \o ReadAs(f, e, Len(f) + 1)
<1> DEFINE x == Len(f) + 1
<1>1. Len(f) \in Nat
  BY DEF Str
<1>2. p \in Nat \ {0} /\ e \in Nat /\ x \in 1 .. Len(f) + 1 /\ e <= x
  BY <1>1
<1> HIDE DEF x
<1>3. ReadAs(f, p, x) = ReadAs(f, p, e) \o ReadAs(f, e, x)
  BY <1>2, ReadAsSplits
<1> QED
  BY <1>3 DEF x

\* Where what is at p is in the text.
InText(f, p) == Len(ReadAs(f, 1, p)) + 1

LEMMA InTextIs ==
  ASSUME NEW f \in Plain, NEW text, text = ReadAs(f, 1, Len(f) + 1), NEW p \in 1 .. Len(f),
         NEW e, IsLine(f, p, e), NEW line, line = ReadAs(f, p, e)
  PROVE  /\ text \in Str /\ line \in Str
         /\ InText(f, p) \in 1 .. Len(text) /\ InText(f, e) \in 1 .. Len(text) + 1
         /\ InText(f, e) = InText(f, p) + Len(line) /\ Len(line) >= 1
         /\ SubSeq(text, InText(f, p), InText(f, e) - 1) = line
         /\ LineEnd(text, InText(f, p)) = InText(f, e) - 1
<1> DEFINE L == Len(f)
           a == ReadAs(f, 1, p)
           c == ReadAs(f, e, L + 1)
           y == e - 1
           d == ReadAs(f, p, y)
           m == Len(a)
           n == Len(line)
<1>1. /\ L \in Nat /\ f \in Str /\ e \in p + 1 .. L + 1 /\ LineStop(f, e)
      /\ \A x \in p + 1 .. e - 1 : ~LineStop(f, x)
  BY PlainIsString DEF IsLine
<1>2. /\ p \in 1 .. L + 1 /\ e \in 1 .. L + 1 /\ 1 <= p /\ p <= e /\ e <= L + 1 /\ L + 1 \in 1 .. L + 1
      /\ p \in Nat \ {0} /\ e \in Nat \ {0} /\ 1 \in Nat \ {0} /\ p \in Nat /\ e \in Nat /\ e > p
      /\ y \in 1 .. L + 1 /\ p <= y /\ y \in 1 .. L /\ 1 <= e /\ 1 <= L + 1
  BY <1>1
<1>3. a \in Seq(Byte) /\ line \in Seq(Byte) /\ c \in Seq(Byte) /\ d \in Seq(Byte)
  BY <1>1, <1>2, ReadAsIsString DEF Str
<1>4. ReadAs(f, 1, e) = a \o line
  BY <1>1, <1>2, ReadAsSplits
<1>5. text = (a \o line) \o c
  <2>1. text = ReadAs(f, 1, e) \o c
    BY <1>1, <1>2, ReadToEnd
  <2> QED
    BY <1>4, <2>1
<1>6. line = Append(d, f[y])
  <2>1. ~IsDropped(f, y)
    <3> SUFFICES ASSUME IsDropped(f, y) PROVE FALSE
      OBVIOUS
    <3>1. y < L /\ f[y] = Cr
      BY DEF IsDropped
    <3>2. f[y] = Nl
      BY <1>1, <1>2, <3>1 DEF LineStop
    <3> QED
      BY <3>1, <3>2 DEF Cr, Nl
  <2>2. ReadAs(f, p, e) = IF IsDropped(f, y) THEN d ELSE Append(d, f[y])
    BY <1>1, <1>2, ReadAsSteps
  <2> QED
    BY <2>1, <2>2
<1>7. d \in Seq(Byte \ {Nl})
  <2>1. \A x \in p .. y - 1 : f[x] \in Byte \ {Nl}
    <3> TAKE x \in p .. y - 1
    <3> DEFINE z == x + 1
    <3>1. z \in p + 1 .. e - 1 /\ z - 1 = x /\ x \in 1 .. L
      BY <1>1, <1>2
    <3> HIDE DEF z
    <3>2. ~LineStop(f, z)
      BY <1>1, <3>1
    <3>3. f[x] \in Byte
      BY <1>1, <3>1 DEF Str
    <3> QED
      BY <3>1, <3>2, <3>3 DEF LineStop
  <2> QED
    BY <1>1, <1>2, <2>1, ReadAsTyped
<1>8. f[y] \in Byte
  BY <1>1, <1>2 DEF Str
<1>9. m \in Nat /\ n \in Nat /\ n >= 1 /\ Len(d) = n - 1 /\ Len(c) \in Nat
  BY <1>3, <1>6, <1>8
<1>10. e = L + 1 => Len(c) = 0
  <2> SUFFICES ASSUME e = L + 1 PROVE Len(c) = 0
    OBVIOUS
  <2>1. c = <<>>
    BY <1>1, <1>2, ReadAsSteps
  <2> QED
    BY <2>1
<1>11. e = L + 1 \/ f[y] = Nl
  BY <1>1 DEF LineStop
<1>12. InText(f, p) = m + 1 /\ InText(f, e) = m + n + 1
  <2>1. Len(a \o line) = m + n
    BY <1>3, ConcatProperties
  <2> QED
    BY <1>4, <2>1 DEF InText
<1>13. \A i \in 1 .. n - 1 : line[i] # Nl
  <2> TAKE i \in 1 .. n - 1
  <2>1. i \in 1 .. Len(d)
    BY <1>9
  <2>2. d[i] \in Byte \ {Nl}
    BY <1>7, <2>1
  <2>3. line[i] = d[i]
    BY <1>3, <1>6, <1>8, <2>1, AppendProperties
  <2> QED
    BY <2>2, <2>3
<1>14. line[n] = f[y]
  BY <1>3, <1>6, <1>8, <1>9, AppendProperties
<1> HIDE DEF a, c, d, y, m, n, L
<1> USE DEF m, n
<1>15. /\ text \in Seq(Byte) /\ Len(text) = Len(a) + Len(line) + Len(c)
       /\ \A i \in 1 .. Len(line) : text[Len(a) + i] = line[i]
  <2> DEFINE b == a \o line
  <2>0. text = b \o c
    BY <1>5
  <2>1. /\ b \in Seq(Byte) /\ Len(b) = Len(a) + Len(line)
        /\ \A i \in 1 .. Len(line) : b[Len(a) + i] = line[i]
    BY <1>3, ConcatProperties
  <2> HIDE DEF b
  <2>2. /\ text \in Seq(Byte) /\ Len(text) = Len(b) + Len(c)
        /\ \A i \in 1 .. Len(b) : text[i] = b[i]
    <3>1. b \o c \in Seq(Byte) /\ Len(b \o c) = Len(b) + Len(c)
      BY <1>3, <2>1, ConcatProperties
    <3>2. \A i \in 1 .. Len(b) : (b \o c)[i] = b[i]
      BY <1>3, <2>1
    <3> QED
      BY <2>0, <3>1, <3>2
  <2>3. ASSUME NEW i \in 1 .. Len(line) PROVE text[Len(a) + i] = line[i]
    <3>1. Len(a) + i \in 1 .. Len(b)
      BY <1>9, <2>1
    <3> QED
      BY <2>1, <2>2, <3>1
  <2> QED
    BY <2>1, <2>2, <2>3
<1>16. SubSeq(text, m + 1, m + n) = line
  <2> DEFINE w == SubSeq(text, m + 1, m + n)
  <2>1. w \in Seq(Byte) /\ Len(w) = n /\ \A i \in 1 .. n : w[i] = text[m + i]
    <3>1. m + 1 \in 1 .. Len(text) + 1 /\ m + n \in m .. Len(text)
      BY <1>9, <1>15
    <3>2. w = [i \in 1 .. n |-> text[m + i]]
      BY <1>9, <1>15, <3>1
    <3> HIDE DEF w
    <3>3. \A i \in 1 .. n : text[m + i] \in Byte
      <4>1. line \in Seq(Byte) /\ \A i \in 1 .. n : text[m + i] = line[i]
        BY <1>3, <1>15
      <4>2. \A i \in 1 .. n : line[i] \in Byte
        BY <4>1
      <4> QED
        BY <4>1, <4>2
    <3>4. n \in Nat
      BY <1>9
    <3> HIDE DEF m, n
    <3> QED
      BY <3>2, <3>3, <3>4
  <2> HIDE DEF w
  <2>2. w = line
    <3>1. Len(w) = Len(line) /\ \A i \in 1 .. Len(w) : w[i] = line[i]
      BY <1>15, <2>1
    <3> QED
      BY <1>3, <2>1, <3>1, SeqEqual
  <2> QED
    BY <2>2 DEF w
<1>17. LineEnd(text, m + 1) = m + n
  <2>1. m + 1 \in 1 .. Len(text) /\ m + n \in m + 1 .. Len(text)
    BY <1>9, <1>15
  <2>2. m + n = Len(text) \/ text[m + n] = Nl
    <3>1. CASE e = L + 1
      BY <1>9, <1>10, <1>15, <3>1
    <3>2. CASE e # L + 1
      <4>1. n \in 1 .. n
        BY <1>9
      <4> QED
        BY <1>11, <1>14, <1>15, <3>2, <4>1
    <3> QED
      BY <3>1, <3>2
  <2>3. \A x \in m + 1 .. (m + n) - 1 : text[x] # Nl
    <3> TAKE x \in m + 1 .. (m + n) - 1
    <3>1. x - m \in 1 .. n - 1 /\ x - m \in 1 .. n /\ m + (x - m) = x
      BY <1>9
    <3> QED
      BY <1>13, <1>15, <3>1
  <2>4. text \in Str
    BY <1>15 DEF Str
  <2> HIDE DEF m, n
  <2> QED
    BY <2>1, <2>2, <2>3, <2>4, LineEndAt
<1> HIDE DEF m, n
<1>18. m + 1 \in 1 .. Len(text) /\ m + n + 1 \in 1 .. Len(text) + 1
  BY <1>9, <1>15 DEF m, n
<1>19. (m + n + 1) - 1 = m + n /\ (m + 1) + n = m + n + 1
  BY <1>9
<1>20. text \in Str /\ line \in Str
  BY <1>3, <1>15 DEF Str
<1> QED
  BY <1>9, <1>12, <1>16, <1>17, <1>18, <1>19, <1>20 DEF n

LEMMA NothingDropped ==
  ASSUME NEW f \in Plain, ReadAs(f, 1, Len(f) + 1) = f, NEW p \in 1 .. Len(f), NEW e, IsLine(f, p, e)
  PROVE  Len(ReadAs(f, p, e)) = e - p
<1> DEFINE L == Len(f)
           a == ReadAs(f, 1, p)
           b == ReadAs(f, p, e)
           c == ReadAs(f, e, L + 1)
<1>1. L \in Nat /\ f \in Str /\ e \in p + 1 .. L + 1
  BY PlainIsString DEF IsLine
<1>2. /\ p \in 1 .. L + 1 /\ e \in 1 .. L + 1 /\ 1 <= p /\ p <= e /\ e <= L + 1 /\ L + 1 \in 1 .. L + 1
      /\ p \in Nat \ {0} /\ e \in Nat \ {0} /\ 1 \in Nat \ {0} /\ p \in Nat /\ e \in Nat /\ p <= L + 1
  <2>1. p \in 1 .. L
    OBVIOUS
  <2> HIDE DEF L
  <2>2. p \in Nat /\ e \in Nat /\ 1 <= p /\ p + 1 <= e /\ e <= L + 1
    BY <1>1, <2>1
  <2> QED
    BY <1>1, <2>2
<1>3. f = a \o (b \o c)
  <2>1. ReadAs(f, p, L + 1) = b \o c
    BY <1>1, <1>2, ReadToEnd
  <2>2. 1 \in 1 .. L + 1
    BY <1>1
  <2>3. ReadAs(f, 1, L + 1) = a \o ReadAs(f, p, L + 1)
    BY <1>1, <1>2, <2>2, ReadToEnd
  <2> QED
    BY <2>1, <2>3
<1>4. a \in Seq(Byte) /\ b \in Seq(Byte) /\ c \in Seq(Byte)
  BY <1>1, <1>2, ReadAsIsString DEF Str
<1>5. Len(a) \in 0 .. p - 1 /\ Len(b) \in 0 .. e - p /\ Len(c) \in 0 .. (L + 1) - e
  BY <1>1, <1>2, ReadAsLengths
<1> HIDE DEF a, b, c
<1>6. Len(f) = Len(a) + (Len(b) + Len(c))
  <2>1. b \o c \in Seq(Byte) /\ Len(b \o c) = Len(b) + Len(c)
    BY <1>4, ConcatProperties
  <2>2. Len(a \o (b \o c)) = Len(a) + Len(b \o c)
    BY <1>4, <2>1, ConcatProperties
  <2> QED
    BY <1>3, <2>1, <2>2
<1>7. Len(b) = e - p
  BY <1>1, <1>2, <1>5, <1>6
<1> QED
  BY <1>7 DEF b

\* A list with one more at its head.
LEMMA OneMore ==
  ASSUME NEW S, NEW x \in S, NEW r \in Seq(S), NEW all, all = <<x>> \o r
  PROVE  /\ Len(all) = 1 + Len(r) /\ Len(r) \in Nat /\ all[1] = x
         /\ \A k \in 1 .. Len(r) : all[k + 1] = r[k]
         /\ DOMAIN all = 1 .. 1 + Len(r) /\ DOMAIN r = 1 .. Len(r)
<1> DEFINE one == <<x>>
<1>1. one \in Seq(S) /\ Len(one) = 1 /\ one[1] = x /\ all = one \o r
  OBVIOUS
<1> HIDE DEF one
<1>2. /\ all \in Seq(S) /\ Len(all) = 1 + Len(r) /\ Len(r) \in Nat
      /\ \A i \in 1 .. 1 + Len(r) : all[i] = IF i <= 1 THEN one[i] ELSE r[i - 1]
  BY <1>1, ConcatProperties, LenProperties
<1>3. 1 \in 1 .. 1 + Len(r) /\ \A k \in 1 .. Len(r) : k + 1 \in 1 .. 1 + Len(r) /\ ~(k + 1 <= 1) /\ (k + 1) - 1 = k
  BY <1>2
<1>4. all[1] = x /\ \A k \in 1 .. Len(r) : all[k + 1] = r[k]
  BY <1>1, <1>2, <1>3
<1>5. DOMAIN all = 1 .. Len(all) /\ DOMAIN r = 1 .. Len(r)
  BY <1>2, LenProperties
<1> QED
  BY <1>2, <1>4, <1>5

LEMMA ReadByLine ==
  ASSUME NEW f \in Plain, Len(f) <= MaxBytes, NEW text, text = ReadAs(f, 1, Len(f) + 1),
         text = f \/ \A k \in DOMAIN LinesOf(text) : Len(LinesOf(text)[k]) + 1 \notin Sizes
  PROVE  LinesRead(f) = LinesOf(text)
<1> DEFINE L == Len(f)
<1>1. L \in Nat /\ f \in Str /\ text \in Str
  <2>1. L \in Nat /\ f \in Str
    BY PlainIsString
  <2>2. L + 1 \in 1 .. Len(f) + 1 /\ 1 \in Nat \ {0} /\ 1 <= L + 1
    BY <2>1
  <2> QED
    BY <2>1, <2>2, ReadAsIsString
<1>2. PICK g : LineList(g, text) /\ LinesOf(text) = g[1]
  BY <1>1, LinesOfIs
<1>3. PICK h : ReadList(h, f) /\ LinesRead(f) = h[<<1, BufSize>>]
  BY LinesReadIs
<1> DEFINE t(p) == InText(f, p)
           Fitting(s) == \A k \in DOMAIN s : Len(s[k]) + 1 \notin Sizes
           Fit(p) == text = f \/ Fitting(g[t(p)])
           Same(p) == Fit(p) => \A z : GoodSize(z) => h[<<p, z>>] = g[t(p)]
           D == 1 .. L + 1
           Q == {p \in D : Same(p)}
           size == [p \in D |-> L + 1 - p]
<1>4. Same(L + 1)
  <2>1. t(L + 1) = Len(text) + 1
    BY DEF InText
  <2>2. \A z : GoodSize(z) => h[<<L + 1, z>>] = <<>>
    BY <1>3 DEF ReadList, GoodSize
  <2>3. g[Len(text) + 1] = <<>>
    BY <1>2 DEF LineList
  <2> QED
    BY <2>1, <2>2, <2>3
<1>5. ASSUME NEW p \in 1 .. L, \A e \in p + 1 .. L + 1 : Same(e), Fit(p), NEW z, GoodSize(z)
      PROVE  h[<<p, z>>] = g[t(p)]
  <2>1. PICK e : IsLine(f, p, e)
    BY <1>1, LineStops
  <2>2. e \in p + 1 .. L + 1
    BY <2>1 DEF IsLine
  <2> DEFINE line == ReadAs(f, p, e)
             rest == g[t(e)]
  <2>3. /\ text \in Str /\ line \in Str
        /\ t(p) \in 1 .. Len(text) /\ t(e) \in 1 .. Len(text) + 1
        /\ SubSeq(text, t(p), t(e) - 1) = line
        /\ LineEnd(text, t(p)) = t(e) - 1
    BY <2>1, InTextIs
  <2>4. rest \in Seq(Str)
    BY <1>2, <2>3 DEF LineList
  <2>5. g[t(p)] = <<line>> \o rest
    <3>1. g[t(p)] = <<SubSeq(text, t(p), LineEnd(text, t(p)))>> \o g[LineEnd(text, t(p)) + 1]
      BY <1>2, <2>3 DEF LineList
    <3>2. (t(e) - 1) + 1 = t(e)
      BY <1>1, <2>3 DEF Str
    <3> HIDE DEF t
    <3> QED
      BY <2>3, <3>1, <3>2
  <2> HIDE DEF line, rest
  <2>6. Fitting(g[t(p)]) => Len(line) + 1 \notin Sizes /\ Fitting(rest)
    <3> DEFINE all == <<line>> \o rest
    <3> HIDE DEF all
    <3>1. /\ Len(all) = 1 + Len(rest) /\ Len(rest) \in Nat /\ all[1] = line
          /\ \A k \in 1 .. Len(rest) : all[k + 1] = rest[k]
          /\ DOMAIN all = 1 .. 1 + Len(rest) /\ DOMAIN rest = 1 .. Len(rest)
      BY <2>3, <2>4, OneMore DEF all
    <3>2. 1 \in DOMAIN all /\ \A k \in DOMAIN rest : k + 1 \in DOMAIN all /\ all[k + 1] = rest[k]
      BY <2>4, <3>1
    <3>3. g[t(p)] = all
      BY <2>5 DEF all
    <3> HIDE DEF t
    <3> QED
      BY <3>1, <3>2, <3>3
  <2>7. Len(line) = e - p \/ Len(line) + 1 \notin Sizes
    BY <1>5, <2>1, <2>6, NothingDropped DEF line
  <2>8. PICK y : GoodSize(y) /\ fread_line(f, p, z) = [s |-> line, p |-> e, size |-> y]
    BY <1>5, <2>1, <2>7, LineIsRead DEF line
  <2>9. h[<<p, z>>] = <<line>> \o h[<<e, y>>]
    <3>1. z \in BufSizes
      BY <1>5 DEF GoodSize
    <3>2. h[<<p, z>>] = <<fread_line(f, p, z).s>> \o h[<<fread_line(f, p, z).p, fread_line(f, p, z).size>>]
      BY <1>3, <3>1 DEF ReadList
    <3>3. /\ fread_line(f, p, z).s = line /\ fread_line(f, p, z).p = e
          /\ fread_line(f, p, z).size = y
      BY <2>8
    <3> QED
      BY <3>2, <3>3
  <2>10. h[<<e, y>>] = rest
    <3>1. Fit(e) /\ Same(e)
      BY <1>5, <2>2, <2>6 DEF rest
    <3> QED
      BY <2>8, <3>1 DEF rest
  <2> QED
    BY <2>5, <2>9, <2>10
<1> HIDE DEF Fit, t
<1>6. ASSUME NEW p \in D, \A e \in D : size[e] < size[p] => e \in Q PROVE p \in Q
  <2>1. CASE p = L + 1
    BY <1>4, <2>1
  <2>2. CASE p # L + 1
    <3>1. p \in 1 .. L
      BY <1>1, <2>2
    <3>2. \A e \in p + 1 .. L + 1 : e \in Q
      <4> TAKE e \in p + 1 .. L + 1
      <4>1. e \in 1 .. L + 1 /\ L + 1 - e < L + 1 - p
        BY <1>1
      <4>2. size[e] = L + 1 - e /\ size[p] = L + 1 - p
        BY <4>1
      <4> HIDE DEF size, Q
      <4> QED
        BY <1>6, <4>1, <4>2
    <3>3. \A e \in p + 1 .. L + 1 : Same(e)
      BY <3>2
    <3>4. Same(p)
      BY <1>5, <3>1, <3>3
    <3> QED
      BY <3>4
  <2> QED
    BY <2>1, <2>2
<1>7. L + 1 \in Nat /\ size \in [D -> 0 .. L + 1]
  BY <1>1
<1> HIDE DEF Q, size, D
<1>8. \A p \in D : p \in Q
  BY <1>6, <1>7, ByMeasure
<1>9. t(1) = 1
  <2>1. ReadAs(f, 1, 1) = <<>>
    <3>1. 1 \in Nat \ {0} /\ 1 \in 1 .. Len(f) + 1
      BY <1>1
    <3> QED
      BY <1>1, <3>1, ReadAsSteps
  <2> QED
    BY <2>1 DEF t, InText
<1>10. Fit(1)
  BY <1>2, <1>9 DEF Fit
<1>11. h[<<1, BufSize>>] = g[t(1)]
  <2>1. 1 \in Q
    BY <1>1, <1>8 DEF D
  <2> QED
    BY <1>10, <2>1, SizesGrow DEF Q
<1> QED
  BY <1>2, <1>3, <1>9, <1>11

\* Compose and key symbol files are read by lines, whatever they are: fread_line returns
\* each line whole and goes on at the next, with any growth of the buffer.
THEOREM FilesAreLines == Spec => []FilesReadByLine
<1>1. TypeOK => FilesReadByLine
  <2> DEFINE text == ReadAs(file, 1, Len(file) + 1)
  <2> SUFFICES ASSUME TypeOK, \A n \in DOMAIN file : file[n] # Nul,
                      text = file \/ \A k \in DOMAIN LinesOf(text) : Len(LinesOf(text)[k]) + 1 \notin Sizes
               PROVE  LinesRead(file) = LinesOf(text)
    BY Zenon DEF FilesReadByLine
  <2>1. file \in Plain
    <3>1. file \in Seq(Byte) /\ Len(file) \in Nat
      BY DEF TypeOK, Str
    <3>2. \A n \in 1 .. Len(file) : file[n] \in Byte \ {Nul}
      BY <3>1
    <3> QED
      BY <3>1, <3>2 DEF Plain
  <2>2. Len(file) <= MaxBytes
    BY DEF TypeOK
  <2> HIDE DEF text
  <2>3. text = ReadAs(file, 1, Len(file) + 1)
    BY DEF text
  <2> QED
    BY <2>1, <2>2, <2>3, ReadByLine
<1> QED
  BY <1>1, FileIsString, PTL

-----------------------------------------------------------------------------
(* Readers do not go back. *)

Reads(r, p) == r.p \in Position /\ r.p >= p

LEMMA ReadsIs ==
  ASSUME NEW v, NEW p \in Position, NEW q \in Position, q >= p
  PROVE  Reads(Got(v, q), p)
BY DEF Reads, Got

LEMMA PastReads ==
  ASSUME NEW s \in Str, NEW p \in Position, NEW chars, Nul \notin chars
  PROVE  Past(s, p, chars) \in Position /\ Past(s, p, chars) >= p
<1>1. Past(s, p, chars) \in p .. p + Len(s) /\ Len(s) \in Nat /\ p \in Nat \ {0}
  BY PastIs DEF Position, Str
<1> HIDE DEF Str
<1> QED
  BY <1>1 DEF Position

LEMMA HexReads ==
  ASSUME NEW s \in Str, NEW p \in Position
  PROVE  Reads(read_hex(s, p), p)
<1>1. p \in Nat /\ p + 1 \in Position /\ p + 2 \in Position /\ p + 1 >= p /\ p + 2 >= p
  BY DEF Position
<1>2. HexBegin(s, p) \in Position /\ HexBegin(s, p) >= p
  <2> DEFINE q == CASE At(s, p) \in {Minus, Plus} -> p + 1
                    [] At(s, p) = 48 /\ At(s, p + 1) = 120 -> p + 2
                    [] OTHER -> p
  <2>1. q \in Position /\ q >= p
    <3>1. 48 \notin {Minus, Plus}
      BY DEF Minus, Plus
    <3>2. q = p \/ q = p + 1 \/ q = p + 2
      BY <3>1
    <3> HIDE DEF q
    <3> QED
      BY <1>1, <3>2
  <2>2. HexBegin(s, p) = read_spc(s, q)
    BY DEF HexBegin
  <2> HIDE DEF q
  <2>3. read_spc(s, q) \in Position /\ read_spc(s, q) >= q
    BY <2>1, CharSets, PastReads DEF read_spc
  <2> QED
    BY <2>1, <2>2, <2>3 DEF Position
<1> DEFINE begin == HexBegin(s, p)
           end == Past(s, begin, ishex)
<1>3. end \in Position /\ end >= begin
  BY <1>2, CharSets, PastReads
<1>4. read_hex(s, p).p \in {p, end}
  BY DEF read_hex, Got
<1> HIDE DEF begin, end
<1>5. end >= p
  BY <1>2, <1>3 DEF begin, Position
<1> QED
  BY <1>1, <1>3, <1>4, <1>5 DEF Reads

LEMMA CharReads ==
  ASSUME NEW s \in Str, NEW p \in Position
  PROVE  Reads(read_utf8_ch(s, p), p)
<1>1. p \in Nat
  BY DEF Position
<1>2. \A r : r.p \in Nat => GoOn(s, r).p \in Nat /\ GoOn(s, r).p >= r.p
  BY DEF GoOn
<1> DEFINE c == At(s, p)
           begun(high) == [value |-> high, p |-> p + 1, ended |-> FALSE]
<1>3. \A v : begun(v).p = p + 1
  OBVIOUS
<1>4. \E v : \E r \in {begun(v), GoOn(s, begun(v)), GoOn(s, GoOn(s, begun(v)))} :
         read_utf8_ch(s, p) = Got(r.value, r.p)
  <2>1. CASE c \div 32 = 6
    <3>1. ~(c \div 16 = 14)
      <4>1. c \in Byte
        BY AtIsByte
      <4> QED
        BY <2>1, <4>1 DEF Byte
    <3>2. read_utf8_ch(s, p) = Got(GoOn(s, begun(c % 32)).value, GoOn(s, begun(c % 32)).p)
      BY <2>1, <3>1 DEF read_utf8_ch
    <3> QED
      BY <3>2
  <2>2. CASE c \div 16 = 14 /\ c \div 32 # 6
    <3> DEFINE r == GoOn(s, GoOn(s, begun(c % 16)))
    <3>1. read_utf8_ch(s, p) = Got(r.value, r.p)
      BY <2>2 DEF read_utf8_ch
    <3> QED
      BY <3>1
  <2>3. CASE c \div 16 # 14 /\ c \div 32 # 6
    <3> DEFINE r == begun(IF c < 128 THEN c ELSE 0)
    <3>1. read_utf8_ch(s, p) = Got(r.value, r.p)
      BY <2>3 DEF read_utf8_ch
    <3> QED
      BY <3>1
  <2> QED
    BY <2>1, <2>2, <2>3
<1>5. PICK v : \E r \in {begun(v), GoOn(s, begun(v)), GoOn(s, GoOn(s, begun(v)))} :
         read_utf8_ch(s, p) = Got(r.value, r.p)
  BY <1>4
<1> DEFINE r == begun(v)
           t == GoOn(s, r)
           y == GoOn(s, t)
<1>6. r.p = p + 1 /\ r.p \in Nat
  BY <1>1
<1> HIDE DEF begun, r
<1>7. t.p \in Nat /\ t.p >= r.p
  BY <1>2, <1>6
<1> HIDE DEF t
<1>8. y.p \in Nat /\ y.p >= t.p
  BY <1>2, <1>7
<1> HIDE DEF y
<1>9. read_utf8_ch(s, p).p \in {r.p, t.p, y.p}
  BY <1>5 DEF Got, r, t, y
<1> QED
  BY <1>1, <1>6, <1>7, <1>8, <1>9 DEF Reads, Position

LEMMA BindingReads ==
  ASSUME NEW s \in Str, NEW p \in Position
  PROVE  Reads(read_binding(s, p), p)
<1>1. p + 1 \in Position /\ p + 1 >= p /\ p >= p /\ p \in Nat
  BY DEF Position
<1>2. Reads(read_hex(s, p + 1), p + 1) /\ Reads(read_utf8_ch(s, p + 1), p + 1)
  BY <1>1, HexReads, CharReads
<1>3. \A r : Reads(r, p + 1) => Reads(r, p)
  BY <1>1 DEF Reads, Position
<1>4. Reads(Got(0, p), p)
  BY <1>1, ReadsIs
<1>5. Reads(read_unicode_char(s, p), p) /\ Reads(read_raw_char(s, p), p)
  BY <1>2, <1>3, <1>4 DEF read_unicode_char, read_raw_char
<1> QED
  BY <1>5 DEF read_binding, OrElse

\* The function of read_bind.
Bound(s, q) == read_binding(s, read_spc(s, q))
EndOf(s, q) == read_spc(s, Bound(s, q).p)
Here(s, q) == IF Bound(s, q).p = read_spc(s, q) THEN <<>> ELSE <<Bound(s, q).value>>

BindList(g, s) ==
  \A q \in Position :
    /\ Reads(g[q], q)
    /\ At(s, EndOf(s, q)) = Comma =>
         g[q] = Got(Here(s, q) \o g[EndOf(s, q) + 1].value, g[EndOf(s, q) + 1].p)
    /\ At(s, EndOf(s, q)) # Comma => g[q] = Got(Here(s, q), EndOf(s, q))

LEMMA EndReads ==
  ASSUME NEW s \in Str, NEW q \in Position
  PROVE  /\ read_spc(s, q) \in Position /\ read_spc(s, q) >= q
         /\ EndOf(s, q) \in Position /\ EndOf(s, q) >= q
<1>1. read_spc(s, q) \in Position /\ read_spc(s, q) >= q
  BY CharSets, PastReads DEF read_spc
<1>2. Bound(s, q).p \in Position /\ Bound(s, q).p >= read_spc(s, q)
  BY <1>1, BindingReads DEF Bound, Reads
<1>3. EndOf(s, q) \in Position /\ EndOf(s, q) >= Bound(s, q).p
  BY <1>2, CharSets, PastReads DEF EndOf, read_spc
<1> QED
  BY <1>1, <1>2, <1>3 DEF Position

LEMMA BindListIs ==
  ASSUME NEW s \in Str
  PROVE  \E g : BindList(g, s) /\ \A p : read_bind(s, p) = IF At(s, p) = Key THEN g[p + 1] ELSE Got(<<>>, p)
<1> DEFINE L == Len(s)
           D == Position
           V == {Bound(s, q).value : q \in Position}
           A == [value : Seq(V), p : Position]
           Ends(q) == EndOf(s, q)
           stop == {q \in D : At(s, Ends(q)) # Comma}
           base == [q \in stop |-> Got(Here(s, q), Ends(q))]
           next == [q \in D \ stop |-> Ends(q) + 1]
           step == [x \in (D \ stop) \X A |-> Got(Here(s, x[1]) \o x[2].value, x[2].p)]
           size == [q \in D |-> IF q > L THEN 0 ELSE L + 1 - q]
           Body(g, q) == IF At(s, Ends(q)) = Comma THEN Got(Here(s, q) \o g[Ends(q) + 1].value, g[Ends(q) + 1].p)
                         ELSE Got(Here(s, q), Ends(q))
<1>1. L \in Nat
  BY DEF Str
<1>2. ASSUME NEW q \in D PROVE Ends(q) \in D /\ Ends(q) >= q /\ Here(s, q) \in Seq(V)
  <2>1. Bound(s, q).value \in V
    OBVIOUS
  <2>2. Here(s, q) \in Seq(V)
    <3> HIDE DEF V
    <3>1. CASE Bound(s, q).p = read_spc(s, q)
      BY <3>1 DEF Here
    <3>2. CASE Bound(s, q).p # read_spc(s, q)
      BY <2>1, <3>2 DEF Here
    <3> QED
      BY <3>1, <3>2
  <2> QED
    BY <2>2, EndReads
<1> HIDE DEF V, Ends
<1>3. ASSUME NEW q \in D \ stop
      PROVE  /\ next[q] = Ends(q) + 1 /\ next[q] \in D /\ next[q] >= q /\ size[next[q]] < size[q]
             /\ At(s, Ends(q)) = Comma
  <2>1. At(s, Ends(q)) = Comma /\ q \in D
    OBVIOUS
  <2>2. Ends(q) \in 1 .. L
    <3>1. At(s, Ends(q)) # Nul
      BY <2>1 DEF Comma, Nul
    <3> QED
      BY <3>1, AtIsByte
  <2>3. Ends(q) >= q /\ q \in Nat /\ Ends(q) \in Nat
    BY <1>2, <2>1, <2>2 DEF Position
  <2>4. next[q] = Ends(q) + 1 /\ Ends(q) + 1 \in D
    BY <2>3 DEF Position
  <2>5. size[Ends(q) + 1] < size[q]
    <3> DEFINE Left(n) == IF n > L THEN 0 ELSE L + 1 - n
               e == Ends(q)
    <3>1. size[Ends(q) + 1] = Left(e + 1) /\ size[q] = Left(q)
      BY <2>4
    <3>2. e \in 1 .. L /\ e >= q
      BY <2>2, <2>3
    <3> HIDE DEF size, e
    <3>3. Left(e + 1) < Left(q)
      BY <1>1, <2>3, <3>2
    <3> HIDE DEF Left
    <3> QED
      BY <3>1, <3>3
  <2>6. Ends(q) + 1 >= q
    BY <2>3
  <2> HIDE DEF next, size, D
  <2> QED
    BY <2>1, <2>4, <2>5, <2>6
<1>4. /\ stop \in SUBSET D /\ base \in [stop -> A] /\ next \in [D \ stop -> D]
      /\ L + 1 \in Nat /\ size \in [D -> 0 .. L + 1] /\ \A d \in D \ stop : size[next[d]] < size[d]
  <2>1. base \in [stop -> A]
    BY <1>2 DEF Got
  <2>2. size \in [D -> 0 .. L + 1]
    BY <1>1 DEF Position
  <2>3. next \in [D \ stop -> D]
    BY <1>3
  <2> HIDE DEF base, next, size
  <2> QED
    BY <1>1, <1>3, <2>1, <2>2, <2>3
<1>5. \A q \in stop : base[q] = Got(Here(s, q), Ends(q)) /\ At(s, Ends(q)) # Comma
  OBVIOUS
<1>6. /\ step \in [(D \ stop) \X A -> A]
      /\ \A d \in D \ stop : \A a \in A : step[<<d, a>>] = Got(Here(s, d) \o a.value, a.p)
  <2>1. ASSUME NEW d \in D \ stop, NEW a \in A PROVE Got(Here(s, d) \o a.value, a.p) \in A
    <3>1. Here(s, d) \in Seq(V) /\ a.value \in Seq(V) /\ a.p \in Position
      BY <1>2
    <3>2. Here(s, d) \o a.value \in Seq(V)
      BY <3>1, ConcatProperties
    <3> QED
      BY <3>1, <3>2 DEF Got
  <2> QED
    BY <2>1
<1> HIDE DEF D, A, stop, base, next, step, size
<1>7. PICK h \in [D -> A] : IsRecursive(h, D, stop, base, next, step)
  BY <1>4, <1>6, RecursionExists
<1>8. h = [d \in D |-> Body(h, d)]
  <2>1. h = [d \in D |-> IF d \in stop THEN base[d] ELSE step[<<d, h[next[d]]>>]]
    BY <1>7 DEF IsRecursive
  <2>2. ASSUME NEW d \in D
        PROVE  (IF d \in stop THEN base[d] ELSE step[<<d, h[next[d]]>>]) = Body(h, d)
    <3>1. CASE d \in stop
      BY <1>5, <3>1
    <3>2. CASE d \notin stop
      <4>1. next[d] = Ends(d) + 1 /\ h[next[d]] \in A /\ At(s, Ends(d)) = Comma
        BY <1>3, <3>2
      <4>2. step[<<d, h[next[d]]>>] = Got(Here(s, d) \o h[next[d]].value, h[next[d]].p)
        BY <1>6, <3>2, <4>1
      <4> QED
        BY <3>2, <4>1, <4>2
    <3> QED
      BY <3>1, <3>2
  <2> HIDE DEF Body
  <2> QED
    BY <2>1, <2>2
<1> DEFINE g == CHOOSE list : list = [d \in D |-> Body(list, d)]
<1>9. g = [d \in D |-> Body(g, d)]
  BY <1>8
<1>10. \A p : read_bind(s, p) = IF At(s, p) = Key THEN g[p + 1] ELSE Got(<<>>, p)
  BY DEF read_bind, D, Ends, EndOf, Here, Bound
<1> HIDE DEF g
<1>11. \A d \in D : g[d] = Body(g, d)
  BY <1>9
<1> HIDE DEF Body
<1> DEFINE Q == {d \in D : Reads(g[d], d)}
<1>12. ASSUME NEW d \in D, \A e \in D : size[e] < size[d] => e \in Q PROVE d \in Q
  <2>1. CASE d \in stop
    <3>1. g[d] = Got(Here(s, d), Ends(d))
      BY <1>5, <1>11, <2>1 DEF Body
    <3>2. d \in Position /\ Ends(d) \in Position /\ Ends(d) >= d
      BY <1>2 DEF D
    <3> QED
      BY <3>1, <3>2, ReadsIs
  <2>2. CASE d \notin stop
    <3> DEFINE e == next[d]
    <3>1. e = Ends(d) + 1 /\ e \in D /\ e >= d /\ size[e] < size[d] /\ At(s, Ends(d)) = Comma
      BY <1>3, <2>2
    <3> HIDE DEF e
    <3>2. Reads(g[e], e)
      BY <1>12, <3>1
    <3>3. g[d].p = g[e].p
      <4> DEFINE v == Here(s, d) \o g[e].value
      <4>1. Body(g, d) = Got(v, g[e].p)
        BY <3>1 DEF Body
      <4> HIDE DEF v
      <4> QED
        BY <1>11, <4>1 DEF Got
    <3>4. d \in Position /\ e \in Position
      BY <3>1 DEF D
    <3> DEFINE r == g[e]
    <3>5. r.p \in Position /\ r.p >= e
      BY <3>2 DEF Reads
    <3>6. g[d].p = r.p
      BY <3>3
    <3> HIDE DEF r, D
    <3>7. g[d].p \in Position /\ g[d].p >= d
      BY <3>1, <3>4, <3>5, <3>6 DEF Position
    <3> QED
      BY <3>7 DEF Reads, D
  <2> QED
    BY <2>1, <2>2
<1> HIDE DEF Q
<1>13. \A d \in D : d \in Q
  BY <1>4, <1>12, ByMeasure
<1>14. BindList(g, s)
  BY <1>11, <1>13 DEF BindList, Q, D, Body, Ends
<1> QED
  BY <1>10, <1>14

LEMMA StatementReads ==
  ASSUME NEW s \in Str, NEW p \in Position
  PROVE  Reads(read_statement(s, p), p)
<1>1. p + 1 \in Position /\ p + 1 >= p /\ p >= p /\ p \in Nat
  BY DEF Position
<1>2. Reads(read_comment(s, p), p)
  <2>1. read_to_eol(s, p) \in Position /\ read_to_eol(s, p) >= p
    BY CharSets, PastReads DEF read_to_eol
  <2> QED
    BY <1>1, <2>1, ReadsIs DEF read_comment
<1>3. Reads(read_bind(s, p), p)
  <2>1. PICK g : /\ BindList(g, s)
                 /\ \A q : read_bind(s, q) = IF At(s, q) = Key THEN g[q + 1] ELSE Got(<<>>, q)
    BY BindListIs
  <2> DEFINE r == g[p + 1]
  <2>2. Reads(r, p + 1)
    BY <1>1, <2>1 DEF BindList
  <2>3. read_bind(s, p) = IF At(s, p) = Key THEN r ELSE Got(<<>>, p)
    BY <2>1
  <2> HIDE DEF r
  <2>4. Reads(r, p)
    BY <1>1, <2>2 DEF Reads, Position
  <2>5. Reads(Got(<<>>, p), p)
    BY <1>1, ReadsIs
  <2> QED
    BY <2>3, <2>4, <2>5
<1> QED
  BY <1>2, <1>3 DEF read_statement, OrElse

\* What parse_str gets from the line at p, and where it goes on.
Said(s, p) == read_statement(s, read_spc(s, p)).value
EndOfLine(s, p) == read_to_eol(s, read_statement(s, read_spc(s, p)).p)
NextLine(s, p) == read_newline(s, EndOfLine(s, p))

LEMMA NextLineIs ==
  ASSUME NEW s \in Plain, NEW p \in Position, p <= Len(s)
  PROVE  NextLine(s, p) \in Position /\ NextLine(s, p) > p
<1>1. s \in Str /\ Len(s) \in Nat /\ p \in 1 .. Len(s) /\ p \in Nat
  BY PlainIsString DEF Position
<1> DEFINE q == read_spc(s, p)
           r == read_statement(s, q)
           e == EndOfLine(s, p)
<1>2. q \in Position /\ q >= p
  BY <1>1, CharSets, PastReads DEF read_spc
<1>3. r.p \in Position /\ r.p >= q
  BY <1>1, <1>2, StatementReads DEF Reads
<1>4. e \in Position /\ e >= r.p /\ At(s, e) \notin OfLine
  <2>1. r.p \in Nat \ {0}
    BY <1>3 DEF Position
  <2>2. At(s, e) \notin OfLine
    BY <1>1, <2>1, CharSets, PastIs DEF EndOfLine, read_to_eol
  <2> QED
    BY <1>1, <1>3, <2>2, CharSets, PastReads DEF EndOfLine, read_to_eol
<1> HIDE DEF q, r, e
<1>5. NextLine(s, p) = IF At(s, e) = Nl THEN e + 1 ELSE e
  BY DEF NextLine, read_newline, e
<1>6. e >= p /\ e \in Nat
  BY <1>1, <1>2, <1>3, <1>4 DEF Position
<1>7. At(s, e) # Nl => e # p
  <2> SUFFICES ASSUME At(s, e) # Nl, e = p PROVE FALSE
    OBVIOUS
  <2>1. At(s, e) = Nul
    BY <1>1, <1>4, AtIsByte, CharSets
  <2>2. At(s, p) # Nul
    BY <1>1, PlainIsString DEF At
  <2> QED
    BY <2>1, <2>2
<1> HIDE DEF Position
<1>8. NextLine(s, p) \in Nat /\ NextLine(s, p) > p
  BY <1>1, <1>5, <1>6, <1>7
<1> QED
  BY <1>1, <1>8 DEF Position

\* The function of parse_str.
SaidIn(s) == {Said(s, p) : p \in Position}

ParseList(g, s) ==
  \A p \in Position :
    /\ g[p] \in Seq(SaidIn(s))
    /\ p > Len(s) => g[p] = <<>>
    /\ p <= Len(s) => g[p] = <<Said(s, p)>> \o g[NextLine(s, p)]

LEMMA ParseListIs ==
  ASSUME NEW s \in Plain
  PROVE  \E g : ParseList(g, s) /\ parse_str(s) = g[1]
<1> DEFINE L == Len(s)
           D == Position
           A == Seq(SaidIn(s))
           Value(p) == Said(s, p)
           After(p) == NextLine(s, p)
           stop == {p \in D : p > L}
           base == [p \in stop |-> <<>>]
           next == [p \in D \ stop |-> After(p)]
           step == [x \in (D \ stop) \X A |-> <<Value(x[1])>> \o x[2]]
           size == [p \in D |-> IF p > L THEN 0 ELSE L + 1 - p]
           Body(g, p) == IF p > L THEN <<>> ELSE <<Value(p)>> \o g[After(p)]
<1>1. L \in Nat
  BY PlainIsString
<1>2. ASSUME NEW p \in D \ stop
      PROVE  /\ next[p] = After(p) /\ next[p] \in D /\ size[next[p]] < size[p]
             /\ Value(p) \in SaidIn(s) /\ ~(p > L)
  <2>1. p \in D /\ ~(p > L) /\ p \in Nat /\ p <= L
    BY <1>1 DEF Position
  <2>2. After(p) \in D /\ After(p) > p
    BY <2>1, NextLineIs
  <2>3. Value(p) \in SaidIn(s)
    BY <2>1 DEF SaidIn
  <2> HIDE DEF After, Value
  <2>4. size[After(p)] < size[p]
    <3> DEFINE Left(n) == IF n > L THEN 0 ELSE L + 1 - n
               e == After(p)
    <3>1. size[After(p)] = Left(e) /\ size[p] = Left(p)
      BY <2>1, <2>2
    <3>2. e \in Nat /\ e > p
      BY <2>2 DEF Position
    <3> HIDE DEF size, e
    <3>3. Left(e) < Left(p)
      BY <1>1, <2>1, <3>2
    <3> HIDE DEF Left
    <3> QED
      BY <3>1, <3>3
  <2>5. next[p] = After(p)
    OBVIOUS
  <2> HIDE DEF size, next, D
  <2> QED
    BY <2>1, <2>2, <2>3, <2>4, <2>5
<1> HIDE DEF Value, After
<1>3. /\ stop \in SUBSET D /\ base \in [stop -> A] /\ next \in [D \ stop -> D]
      /\ L + 1 \in Nat /\ size \in [D -> 0 .. L + 1] /\ \A d \in D \ stop : size[next[d]] < size[d]
  <2>1. base \in [stop -> A]
    OBVIOUS
  <2>2. size \in [D -> 0 .. L + 1]
    BY <1>1 DEF Position
  <2>3. next \in [D \ stop -> D]
    BY <1>2
  <2> HIDE DEF base, next, size
  <2> QED
    BY <1>1, <1>2, <2>1, <2>2, <2>3
<1>4. \A p \in stop : base[p] = <<>> /\ p > L
  OBVIOUS
<1>5. /\ step \in [(D \ stop) \X A -> A]
      /\ \A d \in D \ stop : \A a \in A : step[<<d, a>>] = <<Value(d)>> \o a
  <2>1. ASSUME NEW d \in D \ stop, NEW a \in A PROVE <<Value(d)>> \o a \in A
    <3> DEFINE x == Value(d)
    <3>1. x \in SaidIn(s)
      BY <1>2
    <3> HIDE DEF x
    <3>2. <<x>> \in Seq(SaidIn(s))
      BY <3>1
    <3>3. <<x>> \o a \in Seq(SaidIn(s))
      BY <3>2, ConcatProperties
    <3> QED
      BY <3>3 DEF x
  <2> QED
    BY <2>1
<1>6. 1 \in D /\ \A d \in D : d \in stop <=> d > L
  BY DEF Position
<1> HIDE DEF D, A, stop, base, next, step, size
<1>7. PICK h \in [D -> A] : IsRecursive(h, D, stop, base, next, step)
  BY <1>3, <1>5, RecursionExists
<1>8. h = [d \in D |-> Body(h, d)]
  <2>1. h = [d \in D |-> IF d \in stop THEN base[d] ELSE step[<<d, h[next[d]]>>]]
    BY <1>7 DEF IsRecursive
  <2>2. ASSUME NEW d \in D
        PROVE  (IF d \in stop THEN base[d] ELSE step[<<d, h[next[d]]>>]) = Body(h, d)
    <3>1. CASE d \in stop
      BY <1>4, <3>1
    <3>2. CASE d \notin stop
      <4>1. next[d] = After(d) /\ h[next[d]] \in A /\ ~(d > L)
        BY <1>2, <3>2
      <4>2. step[<<d, h[next[d]]>>] = <<Value(d)>> \o h[next[d]]
        BY <1>5, <3>2, <4>1
      <4> QED
        BY <3>2, <4>1, <4>2
    <3> QED
      BY <3>1, <3>2
  <2> HIDE DEF Body
  <2> QED
    BY <2>1, <2>2
<1> DEFINE g == CHOOSE from : from = [d \in D |-> Body(from, d)]
<1>9. g = [d \in D |-> Body(g, d)]
  BY <1>8
<1>10. parse_str(s) = g[1]
  BY DEF parse_str, D, Value, After, Said, NextLine, EndOfLine
<1> HIDE DEF g
<1>11. ASSUME NEW d \in D
       PROVE  /\ d > L => g[d] = <<>>
              /\ ~(d > L) => g[d] = <<Value(d)>> \o g[After(d)]
  <2>1. g[d] = Body(g, d)
    BY <1>9
  <2>2. CASE d > L
    <3>1. Body(g, d) = <<>>
      BY <2>2
    <3> HIDE DEF Body
    <3> QED
      BY <2>1, <2>2, <3>1
  <2>3. CASE ~(d > L)
    <3>1. Body(g, d) = <<Value(d)>> \o g[After(d)]
      BY <2>3
    <3> HIDE DEF Body
    <3> QED
      BY <2>1, <2>3, <3>1
  <2> QED
    BY <2>2, <2>3
<1> DEFINE Q == {d \in D : g[d] \in A}
<1>12. ASSUME NEW d \in D, \A e \in D : size[e] < size[d] => e \in Q PROVE d \in Q
  <2>1. CASE d \in stop
    <3>1. g[d] = <<>>
      BY <1>6, <1>11, <2>1
    <3>2. <<>> \in A
      BY DEF A
    <3> QED
      BY <3>1, <3>2
  <2>2. CASE d \notin stop
    <3>1. next[d] \in Q /\ next[d] = After(d)
      BY <1>2, <1>12, <2>2
    <3>2. g[d] = <<Value(d)>> \o g[next[d]] /\ g[next[d]] \in A
      BY <1>2, <1>11, <2>2, <3>1
    <3>3. step[<<d, g[next[d]]>>] \in A
      BY <1>5, <2>2, <3>2
    <3> QED
      BY <1>5, <2>2, <3>2, <3>3
  <2> QED
    BY <2>1, <2>2
<1> HIDE DEF Q
<1>13. \A d \in D : d \in Q
  BY <1>3, <1>12, ByMeasure
<1>14. ParseList(g, s)
  <2> SUFFICES ASSUME NEW p \in Position
               PROVE  /\ g[p] \in Seq(SaidIn(s))
                      /\ p > Len(s) => g[p] = <<>>
                      /\ p <= Len(s) => g[p] = <<Said(s, p)>> \o g[NextLine(s, p)]
    BY DEF ParseList
  <2>1. p \in D /\ (p <= Len(s) => ~(p > L))
    BY <1>1 DEF D, Position
  <2>2. g[p] \in A
    BY <1>13, <2>1 DEF Q
  <2> QED
    BY <1>11, <2>1, <2>2 DEF A, Value, After
<1> QED
  BY <1>10, <1>14

-----------------------------------------------------------------------------
(* A line is read in the file as it is read alone. *)

Sh(c, p) == c + p

\* The line l is in s after c, and ends at m: with a Nl, or before a Nul.
LineIn(s, c, l, m) ==
  /\ s \in Str /\ l \in Str /\ c \in Nat /\ m \in Position
  /\ \A x \in 1 .. m : At(s, Sh(c, x)) = At(l, x)
  /\ At(l, m) \in {Nl, Nul}
  /\ \A x \in 1 .. m - 1 : At(l, x) \in OfLine

\* What is read of the file and of the line alone.
Moved(c, r, t) == r.value = t.value /\ r.p = Sh(c, t.p)

LEMMA MovedGot ==
  ASSUME NEW c, NEW v, NEW p
  PROVE  Moved(c, Got(v, Sh(c, p)), Got(v, p))
BY DEF Moved, Got

LEMMA ShIs ==
  ASSUME NEW c \in Nat, NEW p \in Nat
  PROVE  /\ Sh(c, p) \in Nat /\ (p # 0 => Sh(c, p) \in Position)
         /\ Sh(c, p) + 1 = Sh(c, p + 1) /\ Sh(c, p) + 2 = Sh(c, p + 2)
BY DEF Sh, Position

LEMMA ShInjective ==
  ASSUME NEW c \in Nat, NEW p \in Nat, NEW q \in Nat, Sh(c, p) = Sh(c, q)
  PROVE  p = q
BY DEF Sh

LEMMA OnLine ==
  ASSUME NEW s, NEW c, NEW l, NEW m, LineIn(s, c, l, m), NEW p \in 1 .. m
  PROVE  /\ p \in Nat /\ p \in Position /\ Sh(c, p) \in Position /\ c \in Nat /\ s \in Str /\ l \in Str
         /\ At(s, Sh(c, p)) = At(l, p)
         /\ At(l, p) \notin {Nl, Nul} => p + 1 \in 1 .. m
<1>1. m \in Nat /\ p \in Nat /\ p # 0 /\ c \in Nat /\ s \in Str /\ l \in Str
  BY DEF LineIn, Position
<1>2. Sh(c, p) \in Position /\ p \in Position
  BY <1>1, ShIs DEF Position
<1>3. At(l, p) \notin {Nl, Nul} => p # m
  BY DEF LineIn
<1>4. At(s, Sh(c, p)) = At(l, p)
  BY DEF LineIn
<1> QED
  BY <1>1, <1>2, <1>3, <1>4

LEMMA PastMoves ==
  ASSUME NEW s, NEW c, NEW l, NEW m, LineIn(s, c, l, m), NEW p \in 1 .. m,
         NEW chars, Nul \notin chars, Nl \notin chars
  PROVE  /\ Past(l, p, chars) \in p .. m /\ Past(l, p, chars) \in 1 .. m
         /\ Past(s, Sh(c, p), chars) = Sh(c, Past(l, p, chars))
         /\ At(l, Past(l, p, chars)) \notin chars
         /\ \A x \in p .. Past(l, p, chars) - 1 : At(l, x) \in chars
<1> DEFINE q == Past(l, p, chars)
<1>1. m \in Nat /\ p \in Nat \ {0} /\ c \in Nat /\ s \in Str /\ l \in Str /\ At(l, m) \notin chars
  <2>1. m \in Nat /\ p \in Nat \ {0} /\ c \in Nat /\ s \in Str /\ l \in Str
    BY DEF LineIn, Position
  <2>2. At(l, m) \in {Nl, Nul}
    BY DEF LineIn
  <2> QED
    BY <2>1, <2>2
<1>2. q \in p .. p + Len(l) /\ At(l, q) \notin chars /\ \A x \in p .. q - 1 : At(l, x) \in chars
  BY <1>1, PastIs
<1> HIDE DEF q
<1>3. q \in p .. m /\ q \in 1 .. m
  <2>1. ~(m \in p .. q - 1)
    BY <1>1, <1>2
  <2>2. Len(l) \in Nat
    BY <1>1 DEF Str
  <2> QED
    BY <1>1, <1>2, <2>1, <2>2
<1>4. Past(s, Sh(c, p), chars) = Sh(c, q)
  <2>1. Sh(c, p) \in Nat \ {0} /\ Sh(c, q) \in Nat /\ Sh(c, q) >= Sh(c, p)
    BY <1>1, <1>3 DEF Sh
  <2>2. At(s, Sh(c, q)) \notin chars
    BY <1>2, <1>3 DEF LineIn
  <2>3. \A x \in Sh(c, p) .. Sh(c, q) - 1 : At(s, x) \in chars
    <3> TAKE x \in Sh(c, p) .. Sh(c, q) - 1
    <3> DEFINE y == x - c
    <3>1. y \in p .. q - 1 /\ y \in 1 .. m /\ Sh(c, y) = x
      BY <1>1, <1>3 DEF Sh
    <3> HIDE DEF y
    <3>2. At(s, Sh(c, y)) = At(l, y)
      BY <3>1 DEF LineIn
    <3> QED
      BY <1>2, <3>1, <3>2
  <2> HIDE DEF LineIn
  <2> QED
    BY <1>1, <2>1, <2>2, <2>3, PastAt
<1> QED
  BY <1>2, <1>3, <1>4 DEF q

LEMMA SpaceMoves ==
  ASSUME NEW s, NEW c, NEW l, NEW m, LineIn(s, c, l, m), NEW p \in 1 .. m
  PROVE  /\ read_spc(l, p) \in 1 .. m /\ read_spc(l, p) >= p
         /\ read_spc(s, Sh(c, p)) = Sh(c, read_spc(l, p))
BY CharSets, PastMoves DEF read_spc

LEMMA LineMoves ==
  ASSUME NEW s, NEW c, NEW l, NEW m, LineIn(s, c, l, m), NEW p \in 1 .. m
  PROVE  read_to_eol(l, p) = m /\ read_to_eol(s, Sh(c, p)) = Sh(c, m)
<1>1. m \in Nat /\ l \in Str /\ p \in Nat \ {0} /\ m >= p
  BY DEF LineIn, Position
<1>2. At(l, m) \notin OfLine
  BY CharSets DEF LineIn
<1>3. \A x \in p .. m - 1 : At(l, x) \in OfLine
  <2> TAKE x \in p .. m - 1
  <2>1. x \in 1 .. m - 1
    BY <1>1
  <2> QED
    BY <2>1 DEF LineIn
<1>4. Past(l, p, OfLine) = m
  BY <1>1, <1>2, <1>3, CharSets, PastAt
<1>5. Past(s, Sh(c, p), OfLine) = Sh(c, m)
  BY <1>4, CharSets, PastMoves
<1> QED
  BY <1>4, <1>5 DEF read_to_eol

-----------------------------------------------------------------------------
(* Its bindings. *)

LEMMA HexValueMoves ==
  ASSUME NEW s, NEW c, NEW l, NEW m, LineIn(s, c, l, m), NEW p \in 1 .. m, NEW e \in p .. m
  PROVE  HexValue(s, Sh(c, p), Sh(c, e)) = HexValue(l, p, e)
<1>1. m \in Nat /\ p \in Nat /\ e \in Nat /\ c \in Nat /\ p <= e
  BY DEF LineIn, Position
<1>2. Sh(c, p) \in Nat /\ Sh(c, e) \in Nat /\ Sh(c, p) <= Sh(c, e)
  BY <1>1 DEF Sh
<1>3. PICK f : Numbers(f, s, Sh(c, p), Sh(c, e)) /\ HexValue(s, Sh(c, p), Sh(c, e)) = f[Sh(c, e)]
  BY <1>2, HexValueIs
<1>4. PICK g : Numbers(g, l, p, e) /\ HexValue(l, p, e) = g[e]
  BY <1>1, HexValueIs
<1> DEFINE P == {n \in 0 .. e - p : f[Sh(c, p + n)] = g[p + n]}
<1>5. 0 \in P
  <2>1. f[Sh(c, p)] = 0 /\ g[p] = 0
    BY <1>3, <1>4 DEF Numbers
  <2>2. p + 0 = p /\ 0 \in 0 .. e - p
    BY <1>1
  <2> QED
    BY <2>1, <2>2
<1>6. \A n \in 0 .. (e - p) - 1 : n \in P => n + 1 \in P
  <2> SUFFICES ASSUME NEW n \in 0 .. (e - p) - 1, f[Sh(c, p + n)] = g[p + n]
               PROVE  f[Sh(c, p + (n + 1))] = g[p + (n + 1)]
    BY <1>1
  <2> DEFINE x == p + (n + 1)
             y == p + n
             u == Sh(c, x)
             w == Sh(c, y)
  <2>1. x \in p + 1 .. e /\ x - 1 = y /\ y \in 1 .. m
    BY <1>1
  <2>2. u \in Sh(c, p) + 1 .. Sh(c, e) /\ u - 1 = w
    BY <1>1 DEF Sh
  <2>3. f[w] = g[y]
    OBVIOUS
  <2>4. At(s, w) = At(l, y)
    BY <2>1 DEF LineIn
  <2> HIDE DEF x, y, u, w
  <2>5. f[u] = f[w] * 16 + hexdigtoi(At(s, w))
    BY <1>3, <2>2 DEF Numbers
  <2>6. g[x] = g[y] * 16 + hexdigtoi(At(l, y))
    BY <1>4, <2>1 DEF Numbers
  <2>7. f[u] = g[x]
    BY <2>3, <2>4, <2>5, <2>6
  <2> QED
    BY <2>7 DEF u, x
<1> HIDE DEF P
<1>7. \A n \in 0 .. e - p : n \in P
  <2>1. e - p \in Nat
    BY <1>1
  <2> QED
    BY <1>5, <1>6, <2>1, UpTo
<1>8. e - p \in 0 .. e - p /\ p + (e - p) = e
  BY <1>1
<1>9. f[Sh(c, e)] = g[e]
  BY <1>7, <1>8 DEF P
<1> QED
  BY <1>3, <1>4, <1>9

LEMMA HexMoves ==
  ASSUME NEW s, NEW c, NEW l, NEW m, LineIn(s, c, l, m), NEW p \in 1 .. m
  PROVE  read_hex(l, p).p \in 1 .. m /\ Moved(c, read_hex(s, Sh(c, p)), read_hex(l, p))
<1> DEFINE First(z, x) == CASE At(z, x) \in {Minus, Plus} -> x + 1
                            [] At(z, x) = 48 /\ At(z, x + 1) = 120 -> x + 2
                            [] OTHER -> x
           a == First(l, p)
<1>1. c \in Nat /\ p \in Nat /\ At(s, Sh(c, p)) = At(l, p)
  BY OnLine
<1>2. Sh(c, p) + 1 = Sh(c, p + 1) /\ Sh(c, p) + 2 = Sh(c, p + 2)
  BY <1>1, ShIs
<1>3. Minus \notin {Nl, Nul} /\ Plus \notin {Nl, Nul} /\ 48 \notin {Nl, Nul, Minus, Plus} /\ 120 \notin {Nl, Nul}
  BY DEF Minus, Plus, Nl, Nul
<1>4. a \in 1 .. m /\ First(s, Sh(c, p)) = Sh(c, a)
  <2>1. CASE At(l, p) \in {Minus, Plus}
    <3>1. a = p + 1 /\ First(s, Sh(c, p)) = Sh(c, p) + 1
      BY <1>1, <1>3, <2>1
    <3>2. p + 1 \in 1 .. m
      BY <1>3, <2>1, OnLine
    <3> HIDE DEF a, First
    <3> QED
      BY <1>2, <3>1, <3>2
  <2>2. CASE At(l, p) = 48
    <3>1. p + 1 \in 1 .. m
      BY <1>3, <2>2, OnLine
    <3>2. At(s, Sh(c, p) + 1) = At(l, p + 1)
      BY <1>2, <3>1, OnLine
    <3>3. CASE At(l, p + 1) = 120
      <4>1. a = p + 2 /\ First(s, Sh(c, p)) = Sh(c, p) + 2
        BY <1>1, <1>3, <2>2, <3>2, <3>3
      <4>2. (p + 1) + 1 \in 1 .. m
        BY <1>3, <3>1, <3>3, OnLine
      <4>3. (p + 1) + 1 = p + 2
        BY <1>1
      <4> HIDE DEF a, First
      <4> QED
        BY <1>2, <4>1, <4>2, <4>3
    <3>4. CASE At(l, p + 1) # 120
      <4>1. a = p /\ First(s, Sh(c, p)) = Sh(c, p)
        BY <1>1, <1>3, <2>2, <3>2, <3>4
      <4> HIDE DEF a, First
      <4> QED
        BY <4>1
    <3> QED
      BY <3>3, <3>4
  <2>3. CASE At(l, p) \notin {Minus, Plus} /\ At(l, p) # 48
    <3>1. a = p /\ First(s, Sh(c, p)) = Sh(c, p)
      BY <1>1, <2>3
    <3> HIDE DEF a, First
    <3> QED
      BY <3>1
  <2> QED
    BY <2>1, <2>2, <2>3
<1>5. \A z, x : HexBegin(z, x) = read_spc(z, First(z, x))
  BY DEF HexBegin
<1> HIDE DEF First, a
<1> DEFINE b == HexBegin(l, p)
           e == Past(l, b, ishex)
           sb == HexBegin(s, Sh(c, p))
           se == Past(s, sb, ishex)
<1>6. b \in 1 .. m /\ sb = Sh(c, b)
  <2>1. b = read_spc(l, a) /\ sb = read_spc(s, Sh(c, a))
    BY <1>4, <1>5 DEF a
  <2> QED
    BY <1>4, <2>1, SpaceMoves
<1> HIDE DEF b, sb
<1>7. e \in b .. m /\ e \in 1 .. m /\ se = Sh(c, e)
  BY <1>6, CharSets, PastMoves
<1> HIDE DEF e, se
<1>8. HexValue(s, sb, se) = HexValue(l, b, e)
  BY <1>6, <1>7, HexValueMoves
<1>9. se = sb <=> e = b
  <2>1. e \in Nat /\ b \in Nat
    BY <1>6, <1>7, OnLine
  <2>2. Sh(c, e) = Sh(c, b) => e = b
    BY <1>1, <2>1, ShInjective
  <2> QED
    BY <1>6, <1>7, <2>2
<1> DEFINE n == HexValue(l, b, e)
           k == IF At(l, p) = Minus THEN -n ELSE n
<1> HIDE DEF n, k
<1>10. read_hex(l, p) = IF e = b THEN Got(0, p) ELSE Got(k, e)
  BY DEF read_hex, b, e, n, k
<1>11. read_hex(s, Sh(c, p)) = IF e = b THEN Got(0, Sh(c, p)) ELSE Got(k, Sh(c, e))
  <2>1. read_hex(s, Sh(c, p)) = IF se = sb THEN Got(0, Sh(c, p))
                                ELSE Got(IF At(s, Sh(c, p)) = Minus THEN -HexValue(s, sb, se) ELSE HexValue(s, sb, se), se)
    BY DEF read_hex, sb, se
  <2> QED
    <3> DEFINE y == HexValue(s, sb, se)
    <3>1. y = n /\ At(s, Sh(c, p)) = At(l, p)
      BY <1>1, <1>8 DEF n
    <3> HIDE DEF y
    <3>2. (IF At(s, Sh(c, p)) = Minus THEN -y ELSE y) = k
      BY <3>1 DEF k, n
    <3>3. read_hex(s, Sh(c, p)) = IF se = sb THEN Got(0, Sh(c, p)) ELSE Got(k, se)
      BY <2>1, <3>2 DEF y
    <3> QED
      BY <1>7, <1>9, <3>3
<1>12. CASE e = b
  BY <1>10, <1>11, <1>12, MovedGot DEF Got
<1>13. CASE e # b
  BY <1>7, <1>10, <1>11, <1>13, MovedGot DEF Got
<1> QED
  BY <1>12, <1>13

\* The loop of read_utf8_ch, in the file and in the line.
SameLoop(c, t, r) == t.value = r.value /\ t.ended = r.ended /\ t.p = Sh(c, r.p)

LEMMA GoOnMoves ==
  ASSUME NEW s, NEW c, NEW l, NEW m, LineIn(s, c, l, m), NEW r, r.p \in 1 .. m, NEW t, SameLoop(c, t, r)
  PROVE  SameLoop(c, GoOn(s, t), GoOn(l, r)) /\ GoOn(l, r).p \in Nat /\ GoOn(l, r).p >= r.p
<1> DEFINE b == At(l, r.p)
<1>1. At(s, t.p) = b /\ c \in Nat /\ r.p \in Nat /\ t.p = Sh(c, r.p)
  BY OnLine DEF SameLoop
<1>2. t.p + 1 = Sh(c, r.p + 1)
  <2> DEFINE x == r.p
  <2>1. x \in Nat /\ t.p = Sh(c, x)
    BY <1>1
  <2> HIDE DEF x
  <2>2. t.p + 1 = Sh(c, x + 1)
    BY <1>1, <2>1 DEF Sh
  <2> QED
    BY <2>2 DEF x
<1> HIDE DEF b
<1>3. CASE r.ended
  <2>1. GoOn(l, r) = r
    BY <1>3 DEF GoOn
  <2>2. GoOn(s, t) = t
    BY <1>3 DEF GoOn, SameLoop
  <2> QED
    BY <1>1, <2>1, <2>2
<1>4. CASE ~r.ended
  <2>1. /\ GoOn(l, r).value = IF b \div 64 = 2 THEN r.value * 64 + Tail6(b) ELSE r.value
        /\ GoOn(l, r).p = r.p + 1
        /\ GoOn(l, r).ended = (b # Nul /\ b \div 64 # 2)
    BY <1>4 DEF GoOn, b
  <2>2. /\ GoOn(s, t).value = IF b \div 64 = 2 THEN t.value * 64 + Tail6(b) ELSE t.value
        /\ GoOn(s, t).p = t.p + 1
        /\ GoOn(s, t).ended = (b # Nul /\ b \div 64 # 2)
    BY <1>1, <1>4 DEF GoOn, SameLoop
  <2>3. t.value = r.value
    BY DEF SameLoop
  <2> QED
    BY <1>1, <1>2, <2>1, <2>2, <2>3 DEF SameLoop
<1> QED
  BY <1>3, <1>4

LEMMA CharMoves ==
  ASSUME NEW s, NEW c, NEW l, NEW m, LineIn(s, c, l, m), NEW p \in 1 .. m, read_utf8_ch(l, p).p <= m
  PROVE  Moved(c, read_utf8_ch(s, Sh(c, p)), read_utf8_ch(l, p))
<1> DEFINE b == At(l, p)
           begun(x, high) == [value |-> high, p |-> x + 1, ended |-> FALSE]
<1>1. /\ At(s, Sh(c, p)) = b /\ c \in Nat /\ p \in Nat /\ m \in Nat /\ b \in Byte
      /\ Sh(c, p) + 1 = Sh(c, p + 1) /\ p + 1 >= 1
  <2>1. l \in Str /\ c \in Nat /\ p \in Nat
    BY OnLine
  <2>2. b \in Byte /\ m \in Nat
    BY <2>1, AtIsByte DEF LineIn, Position
  <2> QED
    BY <2>1, <2>2, OnLine, ShIs
<1>2. \A v : SameLoop(c, begun(Sh(c, p), v), begun(p, v)) /\ begun(p, v).p = p + 1 /\ begun(p, v).ended = FALSE
  BY <1>1 DEF SameLoop
<1>3. \A r, t : SameLoop(c, t, r) => Moved(c, Got(t.value, t.p), Got(r.value, r.p))
  BY DEF SameLoop, Moved, Got
<1>4. \A r : r.ended = FALSE => GoOn(l, r).p = r.p + 1
  BY DEF GoOn
<1>5. CASE b \div 32 = 6
  <2>1. ~(b \div 16 = 14)
    BY <1>1, <1>5 DEF Byte
  <2> DEFINE r == begun(p, b % 32)
             t == begun(Sh(c, p), b % 32)
  <2>2. SameLoop(c, t, r) /\ r.p = p + 1 /\ r.ended = FALSE
    BY <1>2
  <2>3. read_utf8_ch(l, p) = Got(GoOn(l, r).value, GoOn(l, r).p)
    BY <1>5, <2>1 DEF read_utf8_ch
  <2>4. read_utf8_ch(s, Sh(c, p)) = Got(GoOn(s, t).value, GoOn(s, t).p)
    BY <1>1, <1>5, <2>1 DEF read_utf8_ch
  <2> HIDE DEF begun, r, t, b
  <2>5. r.p \in 1 .. m
    <3>1. GoOn(l, r).p = r.p + 1 /\ GoOn(l, r).p <= m
      BY <1>4, <2>2, <2>3 DEF Got
    <3> QED
      BY <1>1, <2>2, <3>1
  <2>6. SameLoop(c, GoOn(s, t), GoOn(l, r))
    BY <2>2, <2>5, GoOnMoves
  <2> QED
    BY <1>3, <2>3, <2>4, <2>6
<1>6. CASE b \div 16 = 14 /\ b \div 32 # 6
  <2> DEFINE r == begun(p, b % 16)
             t == begun(Sh(c, p), b % 16)
             r1 == GoOn(l, r)
             t1 == GoOn(s, t)
             r2 == GoOn(l, r1)
             t2 == GoOn(s, t1)
  <2>1. SameLoop(c, t, r) /\ r.p = p + 1 /\ r.ended = FALSE
    BY <1>2
  <2>2. read_utf8_ch(l, p) = Got(r2.value, r2.p)
    BY <1>6 DEF read_utf8_ch
  <2>3. read_utf8_ch(s, Sh(c, p)) = Got(t2.value, t2.p)
    BY <1>1, <1>6 DEF read_utf8_ch
  <2> HIDE DEF begun, r, t, b
  <2>4. r1.p = r.p + 1
    BY <1>4, <2>1
  <2>5. r2.p <= m
    BY <2>2 DEF Got
  <2>6. r2.p = r1.p \/ r2.p = r1.p + 1
    BY DEF GoOn
  <2> HIDE DEF r1, t1, r2, t2
  <2>7. r.p \in 1 .. m /\ r1.p \in 1 .. m
    BY <1>1, <2>1, <2>4, <2>5, <2>6
  <2>8. SameLoop(c, t1, r1)
    BY <2>1, <2>7, GoOnMoves DEF r1, t1
  <2>9. SameLoop(c, t2, r2)
    BY <2>7, <2>8, GoOnMoves DEF r2, t2
  <2> QED
    BY <1>3, <2>2, <2>3, <2>9
<1>7. CASE b \div 16 # 14 /\ b \div 32 # 6
  <2> DEFINE v == IF b < 128 THEN b ELSE 0
             r == begun(p, v)
             t == begun(Sh(c, p), v)
  <2>1. SameLoop(c, t, r)
    BY <1>2
  <2>2. read_utf8_ch(l, p) = Got(r.value, r.p)
    BY <1>7 DEF read_utf8_ch
  <2>3. read_utf8_ch(s, Sh(c, p)) = Got(t.value, t.p)
    BY <1>1, <1>7 DEF read_utf8_ch
  <2> HIDE DEF r, t
  <2> QED
    BY <1>3, <2>1, <2>2, <2>3
<1> QED
  BY <1>5, <1>6, <1>7

\* No character after an equals sign of the line goes on behind it.
Closed(l, m) == \A q \in 1 .. m : At(l, q) = Equals => read_utf8_ch(l, q + 1).p <= m

LEMMA BindingMoves ==
  ASSUME NEW s, NEW c, NEW l, NEW m, LineIn(s, c, l, m), Closed(l, m), NEW p \in 1 .. m
  PROVE  /\ read_binding(l, p).p \in 1 .. m /\ read_binding(l, p).p >= p
         /\ Moved(c, read_binding(s, Sh(c, p)), read_binding(l, p))
<1>1. c \in Nat /\ p \in Nat /\ At(s, Sh(c, p)) = At(l, p) /\ Sh(c, p) + 1 = Sh(c, p + 1) /\ l \in Str /\ p \in Position
  BY OnLine, ShIs
<1> DEFINE u == read_unicode_char(l, p)
           su == read_unicode_char(s, Sh(c, p))
           w == read_raw_char(l, p)
           sw == read_raw_char(s, Sh(c, p))
           none == Got(0, p)
           snone == Got(0, Sh(c, p))
<1>2. Moved(c, snone, none) /\ none.p \in 1 .. m /\ none.p = p
  BY MovedGot DEF Got
<1>3. Moved(c, su, u) /\ u.p \in 1 .. m
  <2>1. CASE At(l, p) \in {85, 117}
    <3> DEFINE hex == read_hex(l, p + 1)
               shex == read_hex(s, Sh(c, p + 1))
    <3>1. p + 1 \in 1 .. m
      <4>1. 85 \notin {Nl, Nul} /\ 117 \notin {Nl, Nul}
        BY DEF Nl, Nul
      <4> QED
        BY <2>1, <4>1, OnLine
    <3>2. hex.p \in 1 .. m /\ Moved(c, shex, hex)
      BY <3>1, HexMoves
    <3>3. u = IF hex.p # p + 1 THEN hex ELSE none
      BY <2>1 DEF read_unicode_char
    <3>4. su = IF shex.p # Sh(c, p + 1) THEN shex ELSE snone
      BY <1>1, <2>1 DEF read_unicode_char
    <3> HIDE DEF hex, shex, u, su, none, snone
    <3>5. shex.p = Sh(c, p + 1) <=> hex.p = p + 1
      <4>1. hex.p \in Nat /\ p + 1 \in Nat
        BY <1>1, <3>2
      <4>2. Sh(c, hex.p) = Sh(c, p + 1) => hex.p = p + 1
        BY <1>1, <4>1, ShInjective
      <4> QED
        BY <3>2, <4>2 DEF Moved
    <3> QED
      BY <1>2, <3>2, <3>3, <3>4, <3>5
  <2>2. CASE At(l, p) \notin {85, 117}
    <3>1. u = none /\ su = snone
      BY <1>1, <2>2 DEF read_unicode_char
    <3> QED
      BY <1>2, <3>1
  <2> QED
    BY <2>1, <2>2
<1>4. Moved(c, sw, w) /\ w.p \in 1 .. m
  <2>1. CASE At(l, p) = Equals
    <3>1. p + 1 \in 1 .. m
      <4>1. Equals \notin {Nl, Nul}
        BY DEF Nl, Nul, Equals
      <4> QED
        BY <2>1, <4>1, OnLine
    <3>2. read_utf8_ch(l, p + 1).p <= m
      BY <2>1 DEF Closed
    <3>3. Moved(c, read_utf8_ch(s, Sh(c, p + 1)), read_utf8_ch(l, p + 1))
      BY <3>1, <3>2, CharMoves
    <3>4. w = read_utf8_ch(l, p + 1) /\ sw = read_utf8_ch(s, Sh(c, p + 1))
      BY <1>1, <2>1 DEF read_raw_char
    <3>5. w.p \in 1 .. m
      <4> DEFINE r == read_utf8_ch(l, p + 1)
      <4>1. p + 1 \in Position
        BY <3>1, OnLine
      <4>2. r.p \in Position
        BY <1>1, <4>1, CharReads DEF Reads
      <4>3. m \in Nat
        BY DEF LineIn, Position
      <4> HIDE DEF r
      <4>4. r.p \in 1 .. m
        BY <3>2, <4>2, <4>3 DEF Position, r
      <4> QED
        BY <3>4, <4>4 DEF r
    <3> QED
      BY <3>3, <3>4, <3>5
  <2>2. CASE At(l, p) # Equals
    <3>1. w = none /\ sw = snone
      BY <1>1, <2>2 DEF read_raw_char
    <3> QED
      BY <1>2, <3>1
  <2> QED
    BY <2>1, <2>2
<1>5. read_binding(l, p) = IF u.p # p THEN u ELSE w
  BY DEF read_binding, OrElse
<1>6. read_binding(s, Sh(c, p)) = IF su.p # Sh(c, p) THEN su ELSE sw
  BY DEF read_binding, OrElse
<1>7. read_binding(l, p).p >= p
  BY <1>1, BindingReads DEF Reads
<1> HIDE DEF u, su, w, sw
<1>8. su.p = Sh(c, p) <=> u.p = p
  <2>1. u.p \in Nat
    BY <1>3
  <2>2. Sh(c, u.p) = Sh(c, p) => u.p = p
    BY <1>1, <2>1, ShInjective
  <2> QED
    BY <1>3, <2>2 DEF Moved
<1>9. CASE u.p = p
  BY <1>4, <1>5, <1>6, <1>7, <1>8, <1>9
<1>10. CASE u.p # p
  BY <1>3, <1>5, <1>6, <1>7, <1>8, <1>10
<1> QED
  BY <1>9, <1>10

LEMMA ElementMoves ==
  ASSUME NEW s, NEW c, NEW l, NEW m, LineIn(s, c, l, m), Closed(l, m), NEW q \in 1 .. m
  PROVE  /\ EndOf(l, q) \in 1 .. m /\ EndOf(l, q) >= q
         /\ EndOf(s, Sh(c, q)) = Sh(c, EndOf(l, q)) /\ Here(s, Sh(c, q)) = Here(l, q)
<1> DEFINE start == read_spc(l, q)
           b == Bound(l, q)
           sb == Bound(s, Sh(c, q))
           e == EndOf(l, q)
<1>1. start \in 1 .. m /\ read_spc(s, Sh(c, q)) = Sh(c, start)
  BY SpaceMoves
<1>2. b.p \in 1 .. m /\ sb.value = b.value /\ sb.p = Sh(c, b.p)
  <2>1. b = read_binding(l, start) /\ sb = read_binding(s, Sh(c, start))
    BY <1>1 DEF Bound
  <2>2. Moved(c, sb, b) /\ b.p \in 1 .. m
    BY <1>1, <2>1, BindingMoves
  <2> HIDE DEF b, sb
  <2> QED
    BY <2>2 DEF Moved
<1>3. EndOf(l, q) = read_spc(l, b.p) /\ EndOf(s, Sh(c, q)) = read_spc(s, sb.p)
  BY DEF EndOf
<1>4. Here(l, q) = IF b.p = start THEN <<>> ELSE <<b.value>>
  BY DEF Here
<1>5. Here(s, Sh(c, q)) = IF sb.p = Sh(c, start) THEN <<>> ELSE <<sb.value>>
  BY <1>1 DEF Here
<1> HIDE DEF start, b, sb
<1>6. EndOf(l, q) \in 1 .. m /\ EndOf(s, Sh(c, q)) = Sh(c, EndOf(l, q))
  BY <1>2, <1>3, SpaceMoves
<1>7. EndOf(l, q) >= q
  <2>1. l \in Str /\ q \in Position
    BY OnLine
  <2> QED
    BY <2>1, EndReads
<1>8. sb.p = Sh(c, start) <=> b.p = start
  <2>1. c \in Nat /\ b.p \in Nat /\ start \in Nat
    BY <1>1, <1>2, OnLine
  <2>2. Sh(c, b.p) = Sh(c, start) => b.p = start
    BY <2>1, ShInjective
  <2> QED
    BY <1>2, <2>2
<1>9. Here(s, Sh(c, q)) = Here(l, q)
  BY <1>2, <1>4, <1>5, <1>8
<1> QED
  BY <1>6, <1>7, <1>9

LEMMA ListMoves ==
  ASSUME NEW s, NEW c, NEW l, NEW m, LineIn(s, c, l, m), Closed(l, m),
         NEW g, BindList(g, l), NEW h, BindList(h, s)
  PROVE  \A q \in 1 .. m : g[q].p \in 1 .. m /\ Moved(c, h[Sh(c, q)], g[q])
<1> DEFINE D == 1 .. m
           Ok(q) == g[q].p \in 1 .. m /\ Moved(c, h[Sh(c, q)], g[q])
           Q == {q \in D : Ok(q)}
           size == [q \in D |-> m - q]
<1>1. m \in Nat
  BY DEF LineIn, Position
<1>2. ASSUME NEW q \in 1 .. m, \A x \in q + 1 .. m : Ok(x) PROVE Ok(q)
  <2> DEFINE e == EndOf(l, q)
             v == Here(l, q)
  <2>1. /\ e \in 1 .. m /\ e >= q /\ EndOf(s, Sh(c, q)) = Sh(c, e) /\ Here(s, Sh(c, q)) = v
        /\ q \in Position /\ Sh(c, q) \in Position /\ At(s, Sh(c, e)) = At(l, e) /\ c \in Nat /\ e \in Nat
    BY ElementMoves, OnLine
  <2> HIDE DEF e, v
  <2>2. CASE At(l, e) = Comma
    <3> DEFINE x == e + 1
    <3>1. x \in q + 1 .. m /\ Sh(c, e) + 1 = Sh(c, x)
      <4>1. Comma \notin {Nl, Nul}
        BY DEF Comma, Nl, Nul
      <4>2. e + 1 \in 1 .. m
        BY <2>1, <2>2, <4>1, OnLine
      <4>3. Sh(c, e) + 1 = Sh(c, x)
        BY <2>1, ShIs
      <4> QED
        BY <2>1, <4>2, <4>3
    <3>2. g[q] = Got(v \o g[x].value, g[x].p)
      BY <2>1, <2>2 DEF BindList, e, v
    <3>3. h[Sh(c, q)] = Got(v \o h[Sh(c, x)].value, h[Sh(c, x)].p)
      <4> DEFINE y == Sh(c, q)
      <4>1. y \in Position /\ EndOf(s, y) = Sh(c, e) /\ Here(s, y) = v /\ At(s, EndOf(s, y)) = Comma
        BY <2>1, <2>2
      <4> HIDE DEF y
      <4>2. h[y] = Got(Here(s, y) \o h[EndOf(s, y) + 1].value, h[EndOf(s, y) + 1].p)
        BY <4>1 DEF BindList
      <4>3. EndOf(s, y) + 1 = Sh(c, x)
        BY <3>1, <4>1
      <4> QED
        BY <4>1, <4>2, <4>3 DEF y
    <3> HIDE DEF x
    <3>4. g[x].p \in 1 .. m /\ h[Sh(c, x)].value = g[x].value /\ h[Sh(c, x)].p = Sh(c, g[x].p)
      BY <1>2, <3>1 DEF Moved
    <3> DEFINE w == v \o g[x].value
               k == g[x].p
    <3>5. g[q] = Got(w, k) /\ h[Sh(c, q)] = Got(w, Sh(c, k)) /\ k \in 1 .. m
      BY <3>2, <3>3, <3>4
    <3> HIDE DEF w, k
    <3>6. Got(w, k).p = k
      BY DEF Got
    <3> QED
      BY <3>5, <3>6, MovedGot
  <2>3. CASE At(l, e) # Comma
    <3>1. g[q] = Got(v, e)
      BY <2>1, <2>3 DEF BindList, e, v
    <3>2. h[Sh(c, q)] = Got(v, Sh(c, e))
      BY <2>1, <2>3 DEF BindList
    <3>3. Got(v, e).p = e
      BY DEF Got
    <3> QED
      BY <2>1, <3>1, <3>2, <3>3, MovedGot
  <2> QED
    BY <2>2, <2>3
<1> HIDE DEF Ok
<1>3. ASSUME NEW q \in D, \A x \in D : size[x] < size[q] => x \in Q PROVE q \in Q
  <2>1. \A x \in q + 1 .. m : Ok(x)
    <3> TAKE x \in q + 1 .. m
    <3>1. x \in D /\ m - x < m - q
      BY <1>1
    <3>2. size[x] = m - x /\ size[q] = m - q
      BY <3>1
    <3>3. x \in Q
      BY <1>3, <3>1, <3>2
    <3> QED
      BY <3>3
  <2> QED
    BY <1>2, <2>1
<1>4. size \in [D -> 0 .. m]
  BY <1>1
<1> HIDE DEF Q, size, D
<1>5. \A q \in D : q \in Q
  BY <1>1, <1>3, <1>4, ByMeasure
<1> QED
  BY <1>5 DEF Q, D, Ok

LEMMA StatementMoves ==
  ASSUME NEW s, NEW c, NEW l, NEW m, LineIn(s, c, l, m), Closed(l, m), NEW p \in 1 .. m
  PROVE  /\ read_statement(l, p).p \in 1 .. m
         /\ Moved(c, read_statement(s, Sh(c, p)), read_statement(l, p))
<1>1. /\ c \in Nat /\ p \in Nat /\ At(s, Sh(c, p)) = At(l, p) /\ Sh(c, p) + 1 = Sh(c, p + 1)
      /\ s \in Str /\ l \in Str
  BY OnLine, ShIs
<1> DEFINE u == read_comment(l, p)
           su == read_comment(s, Sh(c, p))
           w == read_bind(l, p)
           sw == read_bind(s, Sh(c, p))
           none == Got(<<>>, p)
           snone == Got(<<>>, Sh(c, p))
<1>2. Moved(c, snone, none) /\ none.p \in 1 .. m
  BY MovedGot DEF Got
<1>3. Moved(c, su, u) /\ u.p \in 1 .. m
  <2>1. CASE At(l, p) = Hash
    <3> DEFINE e == read_to_eol(l, p)
    <3>1. e \in 1 .. m /\ read_to_eol(s, Sh(c, p)) = Sh(c, e)
      BY CharSets, PastMoves DEF read_to_eol
    <3>2. u = Got(<<>>, e) /\ su = Got(<<>>, Sh(c, e))
      BY <1>1, <2>1, <3>1 DEF read_comment
    <3> HIDE DEF e, u, su
    <3>3. Got(<<>>, e).p = e
      BY DEF Got
    <3> QED
      BY <3>1, <3>2, <3>3, MovedGot
  <2>2. CASE At(l, p) # Hash
    <3>1. u = none /\ su = snone
      BY <1>1, <2>2 DEF read_comment
    <3> QED
      BY <1>2, <3>1
  <2> QED
    BY <2>1, <2>2
<1>4. Moved(c, sw, w) /\ w.p \in 1 .. m
  <2>1. PICK g : BindList(g, l) /\ \A q : read_bind(l, q) = IF At(l, q) = Key THEN g[q + 1] ELSE Got(<<>>, q)
    BY <1>1, BindListIs
  <2>2. PICK h : BindList(h, s) /\ \A q : read_bind(s, q) = IF At(s, q) = Key THEN h[q + 1] ELSE Got(<<>>, q)
    BY <1>1, BindListIs
  <2>3. w = IF At(l, p) = Key THEN g[p + 1] ELSE none
    BY <2>1
  <2>4. sw = IF At(l, p) = Key THEN h[Sh(c, p + 1)] ELSE snone
    <3>1. sw = IF At(s, Sh(c, p)) = Key THEN h[Sh(c, p) + 1] ELSE snone
      BY <2>2
    <3> QED
      BY <1>1, <3>1
  <2> HIDE DEF w, sw, none, snone
  <2>5. CASE At(l, p) = Key
    <3>1. Key \notin {Nl, Nul}
      BY TextAssumption DEF Nl, Nul
    <3>2. p + 1 \in 1 .. m
      BY <2>5, <3>1, OnLine
    <3>3. g[p + 1].p \in 1 .. m /\ Moved(c, h[Sh(c, p + 1)], g[p + 1])
      BY <2>1, <2>2, <3>2, ListMoves
    <3> QED
      BY <2>3, <2>4, <2>5, <3>3
  <2>6. CASE At(l, p) # Key
    BY <1>2, <2>3, <2>4, <2>6
  <2> QED
    BY <2>5, <2>6
<1>5. read_statement(l, p) = IF u.p # p THEN u ELSE w
  BY DEF read_statement, OrElse
<1>6. read_statement(s, Sh(c, p)) = IF su.p # Sh(c, p) THEN su ELSE sw
  BY DEF read_statement, OrElse
<1> HIDE DEF u, su, w, sw
<1>7. su.p = Sh(c, p) <=> u.p = p
  <2>1. u.p \in Nat
    BY <1>3
  <2>2. Sh(c, u.p) = Sh(c, p) => u.p = p
    BY <1>1, <2>1, ShInjective
  <2> QED
    BY <1>3, <2>2 DEF Moved
<1>8. CASE u.p = p
  BY <1>4, <1>5, <1>6, <1>7, <1>8
<1>9. CASE u.p # p
  BY <1>3, <1>5, <1>6, <1>7, <1>9
<1> QED
  BY <1>8, <1>9

\* The line says what it says alone, and its end is reached.
LEMMA LineSays ==
  ASSUME NEW s, NEW c, NEW l, NEW m, LineIn(s, c, l, m), Closed(l, m)
  PROVE  /\ Said(s, Sh(c, 1)) = Said(l, 1)
         /\ EndOfLine(l, 1) = m /\ EndOfLine(s, Sh(c, 1)) = Sh(c, m)
<1>1. 1 \in 1 .. m
  BY DEF LineIn, Position
<1> DEFINE q == read_spc(l, 1)
           r == read_statement(l, q)
           sr == read_statement(s, Sh(c, q))
<1>2. q \in 1 .. m /\ read_spc(s, Sh(c, 1)) = Sh(c, q)
  BY <1>1, SpaceMoves
<1>3. r.p \in 1 .. m /\ sr.value = r.value /\ sr.p = Sh(c, r.p)
  BY <1>2, StatementMoves DEF Moved
<1>4. Said(l, 1) = r.value /\ Said(s, Sh(c, 1)) = sr.value
  BY <1>2 DEF Said
<1>5. EndOfLine(l, 1) = read_to_eol(l, r.p) /\ EndOfLine(s, Sh(c, 1)) = read_to_eol(s, sr.p)
  BY <1>2 DEF EndOfLine
<1> HIDE DEF q, r, sr
<1> QED
  BY <1>3, <1>4, <1>5, LineMoves

-----------------------------------------------------------------------------
(* Lines of a configuration file. *)

LEMMA RemovesCr ==
  ASSUME NEW s \in Plain
  PROVE  str_remove_cr(s) \in Plain
<1> DEFINE L == Len(s)
           D == 0 .. L
           stop == {0}
           base == [n \in stop |-> <<>>]
           next == [n \in D \ stop |-> n - 1]
           step == [x \in (D \ stop) \X Plain |-> IF s[x[1]] = Cr THEN x[2] ELSE Append(x[2], s[x[1]])]
           size == [n \in D |-> n]
           Body(g, n) == IF n = 0 THEN <<>> ELSE IF s[n] = Cr THEN g[n - 1] ELSE Append(g[n - 1], s[n])
<1>1. L \in Nat
  BY PlainIsString
<1>2. /\ stop \in SUBSET D /\ base \in [stop -> Plain] /\ next \in [D \ stop -> D]
      /\ L \in Nat /\ size \in [D -> 0 .. L] /\ \A d \in D \ stop : size[next[d]] < size[d]
  <2>1. <<>> \in Plain
    BY DEF Plain
  <2> QED
    BY <1>1, <2>1
<1>3. \A n \in D \ stop : s[n] \in Byte \ {Nul} /\ next[n] = n - 1 /\ n # 0
  BY DEF Plain
<1>4. step \in [(D \ stop) \X Plain -> Plain]
      /\ \A d \in D \ stop : \A a \in Plain : step[<<d, a>>] = IF s[d] = Cr THEN a ELSE Append(a, s[d])
  <2>1. ASSUME NEW d \in D \ stop, NEW a \in Plain
        PROVE  (IF s[d] = Cr THEN a ELSE Append(a, s[d])) \in Plain
    <3>1. Append(a, s[d]) \in Plain
      BY <1>3 DEF Plain
    <3> QED
      BY <3>1
  <2> QED
    BY <2>1
<1>5. base[0] = <<>> /\ 0 \in stop /\ L \in D /\ \A n \in stop : n = 0
  BY <1>1
<1> HIDE DEF D, stop, base, next, step, size
<1>6. PICK h \in [D -> Plain] : IsRecursive(h, D, stop, base, next, step)
  BY <1>2, <1>4, RecursionExists
<1>7. h = [d \in D |-> Body(h, d)]
  <2>1. h = [d \in D |-> IF d \in stop THEN base[d] ELSE step[<<d, h[next[d]]>>]]
    BY <1>6 DEF IsRecursive
  <2>2. ASSUME NEW d \in D
        PROVE  (IF d \in stop THEN base[d] ELSE step[<<d, h[next[d]]>>]) = Body(h, d)
    <3>1. CASE d \in stop
      BY <1>5, <3>1
    <3>2. CASE d \notin stop
      <4>1. next[d] = d - 1 /\ h[next[d]] \in Plain /\ d # 0
        BY <1>2, <1>3, <3>2
      <4>2. step[<<d, h[next[d]]>>] = IF s[d] = Cr THEN h[next[d]] ELSE Append(h[next[d]], s[d])
        BY <1>4, <3>2, <4>1
      <4> QED
        BY <3>2, <4>1, <4>2
    <3> QED
      BY <3>1, <3>2
  <2> HIDE DEF Body
  <2> QED
    BY <2>1, <2>2
<1> DEFINE g == CHOOSE kept : kept = [d \in D |-> Body(kept, d)]
<1>8. g = [d \in D |-> Body(g, d)]
  BY <1>7
<1>9. str_remove_cr(s) = g[L]
  BY DEF str_remove_cr, D
<1> HIDE DEF g
<1>10. g[0] = <<>> /\ \A n \in D \ stop : g[n] = IF s[n] = Cr THEN g[n - 1] ELSE Append(g[n - 1], s[n])
  <2>1. \A n \in D : g[n] = Body(g, n)
    BY <1>8
  <2>2. 0 \in D
    BY <1>2, <1>5
  <2>3. g[0] = <<>>
    <3>1. Body(g, 0) = <<>>
      OBVIOUS
    <3> QED
      BY <2>1, <2>2, <3>1
  <2>4. ASSUME NEW n \in D \ stop PROVE g[n] = IF s[n] = Cr THEN g[n - 1] ELSE Append(g[n - 1], s[n])
    <3>1. n # 0
      BY <1>3
    <3> QED
      BY <2>1, <3>1
  <2> QED
    BY <2>3, <2>4
<1> DEFINE P == {n \in D : g[n] \in Plain}
<1>11. 0 \in P
  <2>1. 0 \in D /\ <<>> \in Plain
    BY <1>2, <1>5 DEF Plain
  <2> QED
    BY <1>10, <2>1
<1>12. \A n \in 0 .. L - 1 : n \in P => n + 1 \in P
  <2> SUFFICES ASSUME NEW n \in 0 .. L - 1, g[n] \in Plain PROVE n + 1 \in P
    OBVIOUS
  <2>1. n + 1 \in D \ stop /\ (n + 1) - 1 = n
    BY <1>1 DEF D, stop
  <2>2. s[n + 1] \in Byte \ {Nul}
    BY <1>3, <2>1
  <2>3. Append(g[n], s[n + 1]) \in Plain
    BY <2>2 DEF Plain
  <2>4. g[n + 1] = IF s[n + 1] = Cr THEN g[n] ELSE Append(g[n], s[n + 1])
    BY <1>10, <2>1
  <2>5. g[n + 1] \in Plain
    BY <2>3, <2>4
  <2> QED
    BY <2>1, <2>5
<1> HIDE DEF P
<1>13. \A n \in 0 .. L : n \in P
  BY <1>1, <1>11, <1>12, UpTo
<1> QED
  BY <1>1, <1>9, <1>13 DEF P

LEMMA ReadToEof ==
  ASSUME NEW f \in Str
  PROVE  fread_to_eof(f) \in Plain
<1> DEFINE s == [n \in DOMAIN f |-> IF f[n] = Nul THEN Nl ELSE f[n]]
<1>1. s \in Plain
  <2>1. DOMAIN f = 1 .. Len(f) /\ Len(f) \in Nat /\ \A n \in DOMAIN f : f[n] \in Byte
    BY DEF Str
  <2>2. Nl \in Byte \ {Nul}
    BY DEF Nl, Nul, Byte
  <2>3. \A n \in 1 .. Len(f) : (IF f[n] = Nul THEN Nl ELSE f[n]) \in Byte \ {Nul}
    BY <2>1, <2>2
  <2>4. s = [n \in 1 .. Len(f) |-> IF f[n] = Nul THEN Nl ELSE f[n]]
    BY <2>1
  <2> QED
    BY <2>1, <2>3, <2>4 DEF Plain
<1>2. fread_to_eof(f) = str_remove_cr(s)
  BY DEF fread_to_eof
<1> HIDE DEF s
<1> QED
  BY <1>1, <1>2, RemovesCr

\* Where the last character of the line is, or its Nul.
LineMark(l) == IF l[Len(l)] = Nl THEN Len(l) ELSE Len(l) + 1

LEMMA LineOfFile ==
  ASSUME NEW s \in Plain, NEW b \in 1 .. Len(s), NEW l, l = SubSeq(s, b, LineEnd(s, b))
  PROVE  /\ l \in Plain /\ Len(l) \in Nat /\ Len(l) >= 1 /\ LineEnd(s, b) = (b - 1) + Len(l)
         /\ LineIn(s, b - 1, l, LineMark(l))
         /\ IF At(l, LineMark(l)) = Nl THEN LineMark(l) = Len(l) ELSE LineMark(l) = Len(l) + 1
<1> DEFINE e == LineEnd(s, b)
           n == Len(l)
           c == b - 1
           m == LineMark(l)
<1>1. /\ s \in Str /\ Len(s) \in Nat /\ b \in Nat /\ c \in Nat
  BY PlainIsString
<1>2. e \in b .. Len(s) /\ (e = Len(s) \/ s[e] = Nl) /\ \A x \in b .. e - 1 : s[x] # Nl
  BY <1>1, LineEndIs
<1> HIDE DEF e
<1>3. l \in Plain /\ n = e - c /\ \A x \in 1 .. n : l[x] = s[c + x]
  <2>1. l = SubSeq(s, b, e)
    BY DEF e
  <2>2. /\ SubSeq(s, b, e) \in Seq(Byte \ {Nul}) /\ Len(SubSeq(s, b, e)) = e - b + 1
        /\ \A x \in 1 .. e - b + 1 : SubSeq(s, b, e)[x] = s[b + x - 1]
    <3>1. s \in Seq(Byte \ {Nul}) /\ b \in 1 .. Len(s) + 1 /\ e \in b - 1 .. Len(s)
      BY <1>1, <1>2 DEF Plain
    <3> QED
      BY <1>1, <1>2, <3>1, SubSeqProperties
  <2>3. e - b + 1 = e - c
    BY <1>1, <1>2
  <2>4. \A x \in 1 .. n : b + x - 1 = c + x
    BY <1>1
  <2> QED
    BY <2>1, <2>2, <2>3, <2>4 DEF Plain
<1>4. n \in Nat /\ n >= 1 /\ e = c + n
  BY <1>1, <1>2, <1>3
<1>5. l \in Str
  BY <1>3, PlainIsString
<1>12. c = b - 1
  OBVIOUS
<1> HIDE DEF n, c, m
<1>6. \A x \in 1 .. n : At(l, x) = l[x] /\ At(s, Sh(c, x)) = l[x] /\ l[x] # Nul /\ l[x] \in Byte
  <2> TAKE x \in 1 .. n
  <2>1. x \in 1 .. Len(l) /\ DOMAIN l = 1 .. Len(l) /\ c + x \in 1 .. Len(s) /\ DOMAIN s = 1 .. Len(s)
    <3>1. x \in 1 .. Len(l)
      BY DEF n
    <3>2. c + x \in 1 .. Len(s)
      BY <1>1, <1>2, <1>4
    <3>3. DOMAIN l = 1 .. Len(l) /\ DOMAIN s = 1 .. Len(s)
      BY <1>1, <1>5 DEF Str
    <3> QED
      BY <3>1, <3>2, <3>3
  <2>2. l[x] # Nul /\ l[x] \in Byte
    BY <1>3, <2>1, PlainIsString DEF Plain
  <2>3. At(l, x) = l[x]
    BY <2>1 DEF At
  <2>4. At(s, Sh(c, x)) = s[c + x]
    BY <2>1 DEF At, Sh
  <2> QED
    BY <1>3, <2>2, <2>3, <2>4
<1>7. At(l, n + 1) = Nul
  <2>1. n + 1 \notin 1 .. n
    BY <1>4
  <2>2. 1 .. n = 1 .. Len(l)
    BY DEF n
  <2>3. n + 1 \notin 1 .. Len(l)
    BY <2>1, <2>2
  <2> QED
    BY <1>5, <2>3, AtIsByte
<1>8. \A x \in 1 .. n - 1 : l[x] # Nl
  <2> TAKE x \in 1 .. n - 1
  <2>1. x \in 1 .. n /\ x \in Nat /\ x >= 1 /\ x <= n - 1
    BY <1>4
  <2>2. e = c + n /\ b = c + 1
    BY <1>1, <1>4, <1>12
  <2>3. c + x \in b .. e - 1
    BY <1>1, <1>4, <2>1, <2>2
  <2>4. l[x] = s[c + x]
    BY <1>3, <2>1
  <2> QED
    BY <1>2, <2>3, <2>4
<1>9. n \in 1 .. n /\ l[n] = s[e]
  <2>1. n \in 1 .. n
    BY <1>4
  <2>2. l[n] = s[c + n]
    BY <1>3, <2>1
  <2> QED
    BY <1>4, <2>1, <2>2
<1>10. CASE l[n] = Nl
  <2>1. m = n
    BY <1>10 DEF LineMark, n, m
  <2>2. m \in Position /\ At(l, m) = Nl
    <3>1. n \in Position /\ n \in 1 .. n
      BY <1>4 DEF Position
    <3>2. At(l, n) = Nl
      BY <1>6, <1>10, <3>1
    <3> QED
      BY <2>1, <3>1, <3>2
  <2>3. \A x \in 1 .. m : At(s, Sh(c, x)) = At(l, x)
    BY <1>6, <2>1
  <2>4. \A x \in 1 .. m - 1 : At(l, x) \in OfLine
    <3> TAKE x \in 1 .. m - 1
    <3>1. x \in 1 .. n - 1 /\ x \in 1 .. n
      BY <1>4, <2>1
    <3> QED
      BY <1>6, <1>8, <3>1, CharSets
  <2>5. LineIn(s, c, l, m)
    BY <1>1, <1>5, <2>2, <2>3, <2>4 DEF LineIn
  <2> QED
    BY <1>3, <1>4, <2>1, <2>2, <2>5 DEF n, c, m, e
<1>11. CASE l[n] # Nl
  <2>1. m = n + 1
    BY <1>11 DEF LineMark, n, m
  <2>2. m \in Position /\ At(l, m) = Nul /\ Nul # Nl
    BY <1>4, <1>7, <2>1 DEF Position, Nul, Nl
  <2>3. At(s, Sh(c, n + 1)) = Nul
    <3>1. Sh(c, n + 1) \notin 1 .. Len(s)
      BY <1>1, <1>2, <1>4, <1>9, <1>11 DEF Sh
    <3> QED
      BY <1>1, <3>1, AtIsByte
  <2>4. \A x \in 1 .. m : At(s, Sh(c, x)) = At(l, x)
    <3> TAKE x \in 1 .. m
    <3>1. x \in 1 .. n \/ x = n + 1
      BY <1>4, <2>1
    <3> QED
      BY <1>6, <1>7, <2>3, <3>1
  <2>5. \A x \in 1 .. m - 1 : At(l, x) \in OfLine
    <3> TAKE x \in 1 .. m - 1
    <3>1. x \in 1 .. n /\ (x \in 1 .. n - 1 \/ x = n)
      BY <1>4, <2>1
    <3>2. l[x] # Nl
      BY <1>8, <1>11, <3>1
    <3> QED
      BY <1>6, <3>1, <3>2, CharSets
  <2>6. LineIn(s, c, l, m)
    BY <1>1, <1>5, <2>2, <2>4, <2>5 DEF LineIn
  <2> QED
    BY <1>3, <1>4, <2>1, <2>2, <2>6 DEF n, c, m, e
<1> QED
  BY <1>10, <1>11

LEMMA NotOpenEnded ==
  ASSUME NEW s, NEW c, NEW l, NEW m, LineIn(s, c, l, m), ~IsOpenEnded(l)
  PROVE  Closed(l, m)
<1> SUFFICES ASSUME NEW q \in 1 .. m, At(l, q) = Equals PROVE read_utf8_ch(l, q + 1).p <= m
  BY DEF Closed
<1> DEFINE r == read_utf8_ch(l, q + 1)
<1>1. l \in Str /\ q \in Nat /\ m \in Nat /\ At(l, m) \in {Nl, Nul} /\ Equals \notin {Nl, Nul}
  BY OnLine DEF LineIn, Position, Equals, Nl, Nul
<1>2. q \in DOMAIN l /\ l[q] = Equals
  BY <1>1 DEF At
<1>3. q + 1 \in 1 .. m /\ q + 1 \in Position
  BY <1>1, OnLine
<1>4. r.p \in Nat
  BY <1>1, <1>3, CharReads DEF Reads, Position
<1>5. \A x \in q + 1 .. r.p - 1 : At(l, x) \notin {Nl, Nul}
  BY <1>2 DEF IsOpenEnded
<1> HIDE DEF r
<1>6. ~(m \in q + 1 .. r.p - 1)
  BY <1>1, <1>5
<1>7. r.p <= m
  BY <1>1, <1>3, <1>4, <1>6
<1> QED
  BY <1>7 DEF r

\* A line means what it means alone, and the next line is read next.
LEMMA LineAlone ==
  ASSUME NEW s \in Plain, NEW b \in 1 .. Len(s), NEW l, l = SubSeq(s, b, LineEnd(s, b)), ~IsOpenEnded(l)
  PROVE  parse_str(l) = <<Said(s, b)>> /\ NextLine(s, b) = LineEnd(s, b) + 1
<1> DEFINE c == b - 1
           n == Len(l)
           m == LineMark(l)
<1>1. /\ l \in Plain /\ n \in Nat /\ n >= 1 /\ LineEnd(s, b) = c + n /\ LineIn(s, c, l, m)
      /\ IF At(l, m) = Nl THEN m = n ELSE m = n + 1
  BY LineOfFile
<1>2. c \in Nat /\ b \in Nat /\ Sh(c, 1) = b /\ 1 \in Position
  BY PlainIsString DEF Sh, Position
<1> HIDE DEF c, n, m
<1>3. /\ Said(s, b) = Said(l, 1) /\ EndOfLine(l, 1) = m /\ EndOfLine(s, b) = Sh(c, m)
  BY <1>1, <1>2, NotOpenEnded, LineSays
<1>4. At(s, Sh(c, m)) = At(l, m) /\ m \in Nat
  <2>1. m \in 1 .. m /\ m \in Nat
    BY <1>1 DEF LineIn, Position
  <2> QED
    BY <1>1, <2>1, OnLine
<1>5. NextLine(l, 1) = n + 1
  BY <1>1, <1>3 DEF NextLine, read_newline
<1>6. NextLine(s, b) = Sh(c, n + 1)
  <2>1. Sh(c, m) + 1 = Sh(c, m + 1)
    BY <1>2, <1>4, ShIs
  <2> QED
    BY <1>1, <1>3, <1>4, <2>1 DEF NextLine, read_newline
<1>7. Sh(c, n + 1) = LineEnd(s, b) + 1
  BY <1>1, <1>2 DEF Sh
<1>8. PICK g : ParseList(g, l) /\ parse_str(l) = g[1]
  BY <1>1, ParseListIs
<1>9. g[1] = <<Said(l, 1)>> \o g[n + 1]
  BY <1>1, <1>2, <1>5, <1>8 DEF ParseList, n
<1>10. g[n + 1] = <<>>
  <2>1. n + 1 \in Position /\ n + 1 > n
    BY <1>1 DEF Position
  <2> QED
    BY <1>8, <2>1 DEF ParseList, n
<1> DEFINE v == Said(l, 1)
<1>11. <<v>> \o <<>> = <<v>>
  <2> HIDE DEF v
  <2>1. <<v>> \in Seq({v})
    OBVIOUS
  <2> QED
    BY <2>1, ConcatEmptySeq
<1> QED
  BY <1>3, <1>6, <1>7, <1>8, <1>9, <1>10, <1>11

\* So the characters of all lines are read as from the lines alone.
LEMMA ConfigByLine ==
  ASSUME NEW s \in Plain, NEW lines, lines = LinesOf(s), \A k \in DOMAIN lines : ~IsOpenEnded(lines[k])
  PROVE  /\ Len(parse_str(s)) = Len(lines)
         /\ \A k \in DOMAIN lines : parse_str(lines[k]) = <<parse_str(s)[k]>>
<1> DEFINE L == Len(s)
<1>1. L \in Nat /\ s \in Str
  BY PlainIsString
<1>2. PICK g : LineList(g, s) /\ LinesOf(s) = g[1]
  BY <1>1, LinesOfIs
<1>3. PICK h : ParseList(h, s) /\ parse_str(s) = h[1]
  BY ParseListIs
<1> DEFINE Alone(x) == \A k \in DOMAIN x : ~IsOpenEnded(x[k])
           Agree(x, y) == Len(y) = Len(x) /\ \A k \in DOMAIN x : parse_str(x[k]) = <<y[k]>>
           Same(b) == Alone(g[b]) => Agree(g[b], h[b])
           D == 1 .. L + 1
           Q == {b \in D : Same(b)}
           size == [b \in D |-> L + 1 - b]
<1>4. Same(L + 1)
  <2>1. g[L + 1] = <<>>
    BY <1>2 DEF LineList
  <2>2. L + 1 \in Position /\ L + 1 > L
    BY <1>1 DEF Position
  <2>3. h[L + 1] = <<>>
    BY <1>3, <2>2 DEF ParseList
  <2>4. Len(<<>>) = Len(<<>>) /\ DOMAIN <<>> = {}
    OBVIOUS
  <2> HIDE DEF L
  <2> QED
    BY <2>1, <2>3, <2>4
<1>5. ASSUME NEW b \in 1 .. L, \A e \in b + 1 .. L + 1 : Same(e), Alone(g[b])
      PROVE  Agree(g[b], h[b])
  <2> DEFINE l == SubSeq(s, b, LineEnd(s, b))
             e == LineEnd(s, b) + 1
             v == Said(s, b)
             a == g[b]
             r == g[e]
             y == h[b]
             w == h[e]
  <2>1. e \in b + 1 .. L + 1 /\ e \in Position /\ b \in Position /\ b <= L /\ b \in 1 .. Len(s)
    <3>1. LineEnd(s, b) \in b .. Len(s)
      BY <1>1, LineEndIs
    <3> QED
      BY <1>1, <3>1 DEF Position
  <2>2. a = <<l>> \o r
    BY <1>2, <2>1 DEF LineList
  <2>3. r \in Seq(Str)
    BY <1>2, <2>1 DEF LineList
  <2>4. l \in Str
    BY <2>1, LineOfFile, PlainIsString
  <2> HIDE DEF a, r, l
  <2>5. /\ Len(a) = 1 + Len(r) /\ Len(r) \in Nat /\ a[1] = l /\ \A k \in 1 .. Len(r) : a[k + 1] = r[k]
        /\ DOMAIN a = 1 .. 1 + Len(r) /\ DOMAIN r = 1 .. Len(r)
    BY <2>2, <2>3, <2>4, OneMore
  <2>6. Alone(a)
    BY <1>5 DEF a
  <2>7. ~IsOpenEnded(l) /\ Alone(r)
    <3>1. 1 \in DOMAIN a /\ \A k \in DOMAIN r : k + 1 \in DOMAIN a
      BY <2>5
    <3> QED
      BY <2>5, <2>6, <3>1
  <2>8. parse_str(l) = <<v>> /\ NextLine(s, b) = e
    BY <2>1, <2>7, LineAlone DEF l
  <2>9. y = <<v>> \o w
    BY <1>3, <2>1, <2>8 DEF ParseList
  <2>10. w \in Seq(SaidIn(s)) /\ v \in SaidIn(s)
    BY <1>3, <2>1 DEF ParseList, SaidIn
  <2> HIDE DEF y, w, v
  <2>11. Len(y) = 1 + Len(w) /\ y[1] = v /\ \A k \in 1 .. Len(w) : y[k + 1] = w[k]
    BY <2>9, <2>10, OneMore
  <2>12. Agree(r, w)
    BY <1>5, <2>1, <2>7 DEF r, w
  <2>13. Len(y) = Len(a)
    BY <2>5, <2>11, <2>12
  <2>14. ASSUME NEW k \in DOMAIN a PROVE parse_str(a[k]) = <<y[k]>>
    <3>1. CASE k = 1
      BY <2>5, <2>8, <2>11, <3>1
    <3>2. CASE k # 1
      <4>1. k - 1 \in 1 .. Len(r) /\ (k - 1) + 1 = k
        BY <2>5, <2>14, <3>2
      <4>2. a[k] = r[k - 1] /\ y[k] = w[k - 1]
        BY <2>5, <2>11, <2>12, <4>1
      <4> QED
        BY <2>5, <2>12, <4>1, <4>2
    <3> QED
      BY <3>1, <3>2
  <2> QED
    BY <2>13, <2>14 DEF a, y
<1> HIDE DEF Same, Agree
<1>6. ASSUME NEW b \in D, \A e \in D : size[e] < size[b] => e \in Q PROVE b \in Q
  <2>1. CASE b = L + 1
    BY <1>4, <2>1
  <2>2. CASE b # L + 1
    <3>1. b \in 1 .. L
      BY <1>1, <2>2
    <3>2. \A e \in b + 1 .. L + 1 : e \in Q
      <4> TAKE e \in b + 1 .. L + 1
      <4>1. e \in 1 .. L + 1 /\ L + 1 - e < L + 1 - b
        BY <1>1
      <4>2. size[e] = L + 1 - e /\ size[b] = L + 1 - b
        BY <4>1
      <4> HIDE DEF size, Q
      <4> QED
        BY <1>6, <4>1, <4>2
    <3>3. \A e \in b + 1 .. L + 1 : Same(e)
      BY <3>2
    <3>4. Alone(g[b]) => Agree(g[b], h[b])
      BY <1>5, <3>1, <3>3
    <3> QED
      BY <3>4 DEF Same
  <2> QED
    BY <2>1, <2>2
<1>7. L + 1 \in Nat /\ size \in [D -> 0 .. L + 1]
  BY <1>1
<1> HIDE DEF Q, size, D
<1>8. \A b \in D : b \in Q
  BY <1>6, <1>7, ByMeasure
<1>9. Same(1)
  BY <1>1, <1>8 DEF D, Q
<1>10. Alone(lines) /\ lines = g[1]
  BY <1>2
<1>11. Agree(lines, parse_str(s))
  BY <1>3, <1>9, <1>10 DEF Same
<1> QED
  BY <1>11 DEF Agree

\* A line of a configuration file means what it means alone, in any file of which no line
\* is open-ended: parse_str says of the file what it says of its lines.
THEOREM ConfigLinesAlone == Spec => []ConfigReadByLine
<1>1. TypeOK => ConfigReadByLine
  <2> DEFINE s == fread_to_eof(file)
  <2> SUFFICES ASSUME TypeOK, \A k \in DOMAIN LinesOf(s) : ~IsOpenEnded(LinesOf(s)[k])
               PROVE  /\ Len(parse_str(s)) = Len(LinesOf(s))
                      /\ \A k \in DOMAIN LinesOf(s) : parse_str(LinesOf(s)[k]) = <<parse_str(s)[k]>>
    BY Zenon DEF ConfigReadByLine
  <2>1. s \in Plain
    BY ReadToEof DEF TypeOK
  <2> HIDE DEF s
  <2> QED
    BY <2>1, ConfigByLine
<1> QED
  BY <1>1, FileIsString, PTL
=============================================================================
