------------------------------ MODULE TextProps ------------------------------
(***************************************************************************)
(* A file is written, piece by piece, and is read after every piece: what  *)
(* the functions of Text read is what was written.                         *)
(***************************************************************************)
EXTENDS Text

CONSTANTS
  Units,            \* bytes that are written together: a character, the end of a line
  MaxBytes,         \* bound on the length of the file
  CharSamples       \* characters of 16 bits

Char == {ch \in Nat : 0 < ch /\ ch < 65536}

ASSUME TextPropsAssumption ==
  Units \subseteq Seq(Byte) /\ MaxBytes \in Nat /\ CharSamples \subseteq Char

VARIABLE file

Init == file = <<>>

\* The user's editor.
Write == \E u \in Units : Len(file) + Len(u) <= MaxBytes /\ file' = file \o u

Spec == Init /\ [][Write]_file

-----------------------------------------------------------------------------
\* Where the line that begins at p ends.
LineEnd(s, p) ==
  CHOOSE e \in p .. Len(s) : (e = Len(s) \/ s[e] = Nl) /\ \A x \in p .. e - 1 : s[x] # Nl

\* The lines of a text, with their ends.
LinesOf(s) ==
  LET from[p \in 1 .. Len(s) + 1] ==
        IF p > Len(s) THEN <<>> ELSE <<SubSeq(s, p, LineEnd(s, p))>> \o from[LineEnd(s, p) + 1]
  IN from[1]

\* The sizes that a buffer grows to, as far as such a file fills it.
Sizes ==
  LET size[n \in 0 .. MaxBytes] == IF n = 0 THEN BufSize ELSE (size[n - 1] * 3) \div 2
  IN {size[n] : n \in 0 .. MaxBytes}

\* Compose and key symbol files are read by lines, each whole and none twice, however
\* often the buffer grows on the way: growing reads the line again.  In a file with
\* Cr Nl that holds of the lines that do not fill a buffer with their Nl, since what to
\* go back by is then one too few (freadline.c:18-42).
FilesReadByLine ==
  LET text == ReadAs(file, 1, Len(file) + 1)
  IN /\ \A n \in DOMAIN file : file[n] # Nul
     /\ text = file \/ \A k \in DOMAIN LinesOf(text) : Len(LinesOf(text)[k]) + 1 \notin Sizes
     => LinesRead(file) = LinesOf(text)

\* The line has a character after an equals sign that takes the end of the line, or of
\* the file, with it: there is none, or one that is cut.
IsOpenEnded(line) ==
  \E n \in DOMAIN line :
    /\ line[n] = Equals
    /\ \E m \in n + 1 .. read_utf8_ch(line, n + 1).p - 1 : At(line, m) \in {Nl, Nul}

\* A line of a configuration file means what it means alone: reading a binding neither
\* goes on into the next line nor keeps it from being read.  Not so after a line that
\* is open-ended, which takes the end of the line for a part of its character
\* (parse.c:291, 323, 693-718).
ConfigReadByLine ==
  LET s == fread_to_eof(file)
      lines == LinesOf(s)
  IN (\A k \in DOMAIN lines : ~IsOpenEnded(lines[k])) =>
       /\ Len(parse_str(s)) = Len(lines)
       /\ \A k \in DOMAIN lines : parse_str(lines[k]) = <<parse_str(s)[k]>>

\* An equals sign and the character, in UTF-8.
Itself(ch) ==
  CASE ch < 128               -> <<Equals, ch>>
    [] ch >= 128 /\ ch < 2048 -> <<Equals, 192 + ch \div 64, 128 + (ch % 64)>>
    [] OTHER ->
         <<Equals, 224 + ch \div 4096, 128 + ((ch \div 64) % 64), 128 + (ch % 64)>>

Digit(d) == IF d < 10 THEN 48 + d ELSE 87 + d

\* u and four digits.
Named(ch) ==
  <<117, Digit(ch \div 4096), Digit((ch \div 256) % 16), Digit((ch \div 16) % 16), Digit(ch % 16)>>

\* A character written after what the file has, as itself after an equals sign or with
\* its number, is read as that character, and what follows is left (parse.c:73, 282-327).
CharsReadAsWritten ==
  \A ch \in CharSamples : \A s \in {Itself(ch), Named(ch)} :
    \A next \in {<<>>, <<Comma>>, <<Nl>>} :
      read_binding(file \o s \o next, Len(file) + 1) = Got(ch, Len(file) + Len(s) + 1)
===============================================================================
