--------------------------------- MODULE Text ---------------------------------
(***************************************************************************)
(* From files to lines and from lines to characters: the line reader of    *)
(* Compose and key symbol files (freadline.c), the reader of configuration *)
(* files (str.c) with the loop of parse_str over its lines, and the        *)
(* characters that a binding names (parse.c).                              *)
(*                                                                         *)
(* A file is a sequence of bytes.  A key with its colon is one byte, Key:  *)
(* which keys have which names does not matter here.                       *)
(***************************************************************************)
EXTENDS Integers, Sequences

CONSTANTS
  BufSize,          \* size of a read_line_buf at first
  Key               \* a byte that is none of the others

Byte == 0 .. 255
Nul == 0
Tab == 9
Nl == 10
Cr == 13
Space == 32
Hash == 35
Plus == 43
Comma == 44
Minus == 45
Equals == 61

ASSUME TextAssumption == BufSize \in Nat /\ BufSize > 2 /\ Key \in 65 .. 90

-----------------------------------------------------------------------------
\* The line reader, on a file opened as text: a Cr before a Nl is not seen.

IsDropped(file, p) == p < Len(file) /\ file[p] = Cr /\ file[p + 1] = Nl

\* What the bytes from p on, and before e, are read as.
ReadAs(file, p, e) ==
  LET upto[x \in 1 .. Len(file) + 1] ==
        IF x <= p THEN <<>>
        ELSE IF IsDropped(file, x - 1) THEN upto[x - 1] ELSE Append(upto[x - 1], file[x - 1])
  IN upto[e]

\* fgets reads to the end of the line, of the buffer or of the file.
FgetsStops(file, p, size, x) ==
  x = Len(file) + 1 \/ file[x - 1] = Nl \/ Len(ReadAs(file, p, x)) = size - 1

FgetsEnd(file, p, size) ==
  CHOOSE e \in p + 1 .. Len(file) + 1 :
    FgetsStops(file, p, size, e) /\ \A x \in p + 1 .. e - 1 : ~FgetsStops(file, p, size, x)

\* The length of a string: what comes after a Nul in the file is not seen.
StrLen(s) == CHOOSE n \in 0 .. Len(s) : /\ n = Len(s) \/ s[n + 1] = Nul
                                       /\ \A k \in 1 .. n : s[k] # Nul

BufSizes == {n \in Nat : n > 2}

\* Mutant of fread_line: it goes back by one too few.
fread_line_Short(file, p, size) ==
  LET read[d \in (1 .. Len(file) + 1) \X BufSizes] ==
        LET e == FgetsEnd(file, d[1], d[2])
            s == ReadAs(file, d[1], e)
            i == StrLen(s)
        IN IF i < d[2] - 1 THEN [s |-> SubSeq(s, 1, i), p |-> e, size |-> d[2]]
           ELSE read[<<e - i + 1, (d[2] * 3) \div 2>>]
  IN read[<<p, size>>]

\* A line that fills the buffer is read again into a larger one; what to go back by is
\* counted in what was read, and not in bytes of the file.
fread_line(file, p, size) ==
  LET read[d \in (1 .. Len(file)) \X BufSizes] ==
        LET e == FgetsEnd(file, d[1], d[2])
            s == ReadAs(file, d[1], e)
            i == StrLen(s)
        IN IF i < d[2] - 1 THEN [s |-> SubSeq(s, 1, i), p |-> e, size |-> d[2]]
           ELSE read[<<e - i, (d[2] * 3) \div 2>>]
  IN read[<<p, size>>]

\* The lines as DK_read_keydef_file and DK_read_compose_file get them.
LinesRead(file) ==
  LET from[d \in (1 .. Len(file) + 1) \X BufSizes] ==
        IF d[1] = Len(file) + 1 THEN <<>>
        ELSE LET line == fread_line(file, d[1], d[2])
             IN <<line.s>> \o from[<<line.p, line.size>>]
  IN from[<<1, BufSize>>]

-----------------------------------------------------------------------------
\* Configuration files.

str_remove_cr(s) ==
  LET kept[n \in 0 .. Len(s)] ==
        IF n = 0 THEN <<>> ELSE IF s[n] = Cr THEN kept[n - 1] ELSE Append(kept[n - 1], s[n])
  IN kept[Len(s)]

fread_to_eof(file) ==
  str_remove_cr([n \in DOMAIN file |-> IF file[n] = Nul THEN Nl ELSE file[n]])

\* Strings end with a Nul; a position is an index of s, or of its Nul.  What follows in
\* memory is not modelled.
Position == Nat \ {0}
At(s, p) == IF p \in DOMAIN s THEN s[p] ELSE Nul

\* Mutant of isspc: as isspace() of the library.
isspc_Library == {Space, Tab, Nl, Cr}

isspc == {Space, Tab}
ishex == (48 .. 57) \cup (97 .. 102) \cup (65 .. 70)
OfLine == Byte \ {Nl, Nul}

\* The first position from p on where there is none of chars.
Past(s, p, chars) ==
  CHOOSE q \in p .. p + Len(s) : At(s, q) \notin chars /\ \A x \in p .. q - 1 : At(s, x) \in chars

read_spc(s, p) == Past(s, p, isspc)
read_to_eol(s, p) == Past(s, p, OfLine)
read_newline(s, p) == IF At(s, p) = Nl THEN p + 1 ELSE p

\* What a reader returns: what it read, and where it ended; at its start if it failed.
Got(value, p) == [value |-> value, p |-> p]

Tail6(c) == c % 64

\* Mutant of read_utf8_ch: the second byte of three is dropped.
read_utf8_ch_LastOnly(s, p) ==
  LET c == At(s, p)
      high == IF c \div 32 = 6 THEN c % 32 ELSE c % 16
      count == IF c \div 32 = 6 THEN 1 ELSE 2
  IN IF c \div 32 = 6 \/ c \div 16 = 14
     THEN Got(high * 64 + Tail6(At(s, p + count)), p + count + 1)
     ELSE Got(IF c < 128 THEN c ELSE 0, p + 1)

\* The loop of read_utf8_ch, once: a byte that does not go on with the character ends it
\* and is passed over; the end of the string is not seen.
GoOn(s, r) ==
  LET c == At(s, r.p)
  IN IF r.ended THEN r
     ELSE [value |-> IF c \div 64 = 2 THEN r.value * 64 + Tail6(c) ELSE r.value,
           p |-> r.p + 1,
           ended |-> c # Nul /\ c \div 64 # 2]

\* One byte, or two or three.  The test for four compares two bits with five and fails,
\* and a byte that begins no character gives 0.
read_utf8_ch(s, p) ==
  LET c == At(s, p)
      begun(high) == [value |-> high, p |-> p + 1, ended |-> FALSE]
      r == CASE c \div 32 = 6  -> GoOn(s, begun(c % 32))
             [] c \div 16 = 14 -> GoOn(s, GoOn(s, begun(c % 16)))
             [] OTHER          -> begun(IF c < 128 THEN c ELSE 0)
  IN Got(r.value, r.p)

hexdigtoi(c) ==
  CASE c \in 48 .. 57  -> c - 48
    [] c \in 97 .. 102 -> c - 87
    [] c \in 65 .. 70  -> c - 55
    [] OTHER           -> -1

\* A sign or 0x, then digits.
HexBegin(s, p) ==
  read_spc(s, CASE At(s, p) \in {Minus, Plus} -> p + 1
                [] At(s, p) = 48 /\ At(s, p + 1) = 120 -> p + 2
                [] OTHER -> p)

\* The digits from p on, and before e.
HexValue(s, p, e) ==
  LET number[q \in p .. e] == IF q = p THEN 0 ELSE number[q - 1] * 16 + hexdigtoi(At(s, q - 1))
  IN number[e]

read_hex(s, p) ==
  LET begin == HexBegin(s, p)
      end == Past(s, begin, ishex)
      n == HexValue(s, begin, end)
  IN IF end = begin THEN Got(0, p) ELSE Got(IF At(s, p) = Minus THEN -n ELSE n, end)

read_unicode_char(s, p) ==
  LET hex == read_hex(s, p + 1)
  IN IF At(s, p) \in {85, 117} /\ hex.p # p + 1 THEN hex ELSE Got(0, p)

read_raw_char(s, p) == IF At(s, p) = Equals THEN read_utf8_ch(s, p + 1) ELSE Got(0, p)

\* Two readers are tried at p: the second where the first did not read.
OrElse(p, first, second) == IF first.p # p THEN first ELSE second

\* Of the bindings, those to a character.
read_binding(s, p) == OrElse(p, read_unicode_char(s, p), read_raw_char(s, p))

\* A list of bindings with commas, of which some may be missing.
read_bind(s, p) ==
  LET list[q \in Position] ==
        LET start == read_spc(s, q)
            bind == read_binding(s, start)
            end == read_spc(s, bind.p)
            here == IF bind.p = start THEN <<>> ELSE <<bind.value>>
        IN IF At(s, end) = Comma THEN Got(here \o list[end + 1].value, list[end + 1].p)
           ELSE Got(here, end)
  IN IF At(s, p) = Key THEN list[p + 1] ELSE Got(<<>>, p)

read_comment(s, p) == IF At(s, p) = Hash THEN Got(<<>>, read_to_eol(s, p)) ELSE Got(<<>>, p)

read_statement(s, p) == OrElse(p, read_comment(s, p), read_bind(s, p))

\* What parse_str gets from the lines it sees: the characters bound.
parse_str(s) ==
  LET from[p \in Position] ==
        LET statement == read_statement(s, read_spc(s, p))
        IN IF p > Len(s) THEN <<>>
           ELSE <<statement.value>> \o from[read_newline(s, read_to_eol(s, statement.p))]
  IN from[1]
===============================================================================
