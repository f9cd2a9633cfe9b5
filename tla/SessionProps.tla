----------------------------- MODULE SessionProps -----------------------------
(***************************************************************************)
(* Properties of Session.                                                  *)
(***************************************************************************)
EXTENDS Session

Phases == {"none", "reading", "parsing", "copying", "running", "exiting"} \cup Modal \cup Over

Messages == [id : 1 .. TableSize - 1, combo : Combos]

\* The types of the state of every instance; a message names an element of the table.
TypeOK ==
  /\ \A f \in DOMAIN disk : f \in Files \cup {Example} /\ disk[f] \in Seq(Lines)
  /\ phase \in [Instances -> Phases]
  /\ \A i \in Instances :
       /\ todo[i] \in Seq(Tasks) /\ rest[i] \in Seq(Lines) /\ queue[i] \in Seq(Messages)
       /\ tables[i] \in Seq({"default", "own"} \X {"keysymdef.h", "Compose"})
  /\ failed \in [Instances -> BOOLEAN] /\ failed_lines \in [Instances -> {"none", "live", "freed"}]
  /\ meaning \in [Instances -> [Cells -> Files \cup {ArgLines, NoFile}]]
  /\ HK_KA_curid \in [Instances -> Nat]
  /\ HK_KA_ary \in [Instances -> [0 .. TableSize - 1 -> KAs \cup {NoKA}]]
  /\ hotkeys \in [Combos -> {Free, Foreign} \cup (Instances \X (1 .. TableSize - 1))]
  /\ quit \in [Instances -> BOOLEAN] /\ KL_active \in [Instances -> BOOLEAN]
  /\ icon \in [Instances -> {"none", "on", "off"}]

LinesGiven == {Args[n] : n \in DOMAIN Args} \cup UNION {ToSet(disk[f]) : f \in DOMAIN disk}

GivenTo(ka, c) == [kind |-> "hotkey", combo |-> c, ka |-> ka] \in LinesGiven

\* A hotkey, registered or waiting in the queue, runs an action that some line of the
\* configuration gives to its combination: ids, the table of actions and what Windows
\* has stay together, however many lines there are, however often a combination is
\* given and whoever else has it (hk.c:47-71).
HotkeyRunsItsLine ==
  /\ \A c \in Combos : hotkeys[c][1] \in Instances =>
       GivenTo(KaOf(hotkeys[c][1], hotkeys[c][2]), c)
  /\ \A i \in Instances : \A n \in DOMAIN queue[i] :
       GivenTo(KaOf(i, queue[i][n].id), queue[i][n].combo)

\* While the program runs, the icon, where there is one, shows whether the hook is
\* active, whichever of main(), a hotkey, a key or the menu changed it (ui.c:35).
IconShowsActive ==
  \A i \in Instances :
    phase[i] \in {"running", "menu"} /\ icon[i] # "none" => icon[i] = IconOf(KL_active[i])

Binds(f, cell) == \E n \in DOMAIN disk[f] : disk[f][n] = [kind |-> "bind", cell |-> cell]

\* Made by a dialog, after another instance went on without it.
Created(f) == f[2] = "main" /\ Example \in DOMAIN disk /\ disk[f] = disk[Example]

\* A default file does not stand against the user's.
OwnFileWins ==
  \A i \in Instances, cell \in Cells :
    LET own == <<"user", meaning[i][cell][2]>>
    IN /\ meaning[i][cell][1] = "default" /\ own \in DOMAIN disk /\ Binds(own, cell)
       => Created(own) \/ own \in ToSet(todo[i])

\* Names come before the sequences made of them.
NamesFirst ==
  \A i \in Instances : \A n \in DOMAIN tables[i] :
    tables[i][n][2] = "Compose" =>
      \/ \E k \in 1 .. n - 1 : tables[i][k][2] = "keysymdef.h"
      \/ <<"user", "main">> \in DOMAIN disk /\ NoDefault(disk[<<"user", "main">>], "keysymdef.h")

\* What a default file binds does not stand against the user's file of the same name
\* once that is read: for the main file, which is looked at twice, and for those of
\* languages, which are read after the arguments (main.c:154, 211).  And no Compose file
\* is read before a file with the names of its keys, unless the user's file says to
\* leave out the default one (main.c:152-153, 165-166).
FilesInOrder == OwnFileWins /\ NamesFirst

HasBadLines(i) ==
  LET file == Head(todo[i])
  IN file # ArgLines /\ \E n \in DOMAIN disk[file] : Unrecognized(disk[file][n])

\* The user is shown a dialog for every file that was read to its end and has lines that
\* were not recognized, and for no other, whatever the files before it held (parse.c:698, ui.c:228).
ReportsBadFiles ==
  [][\A i \in Instances :
       phase[i] = "parsing" /\ phase'[i] \notin {"parsing", "copying", "crashed"} =>
         (phase'[i] = "reporting" <=> HasBadLines(i))]_vars

-----------------------------------------------------------------------------
Busy(i) == phase[i] \in {"reading", "parsing"}

\* No line names a file by more characters than read_dk_file keeps.
NamesFit == \A line \in LinesGiven : line.kind = "table" => line.fits

\* Reading the configuration comes to an end, or to a dialog, if no name of a key
\* symbol or Compose file in it is longer than 255 characters: the copy of such a name
\* does not end (main.c:141-226, parse.c:624, 634).
Settles ==
  \A i \in Instances : Busy(i) /\ NamesFit ~> phase[i] \notin {"reading", "parsing", "copying"}

\* The program ends once it was told to, from its menu or by closing its window, in
\* whatever loop it then is, unless hotkeys are pressed again and again: WM_QUIT comes
\* after the messages posted (main.c:29, ui.c:96, 111).
QuitEnds ==
  \A i \in Instances : (quit[i] ~> phase[i] \in Over) \/ []<>(queue[i] # <<>>)
===============================================================================
