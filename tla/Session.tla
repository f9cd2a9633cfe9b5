-------------------------------- MODULE Session --------------------------------
(***************************************************************************)
(* The life of the program: an instance starts, reads its configuration    *)
(* files, asks and reports with dialogs, registers hotkeys (hk.c), runs    *)
(* its message loop (main.c) with the tray icon and its menu (ui.c), and   *)
(* restarts or ends.                                                       *)
(*                                                                         *)
(* A step is what the main thread does between two points at which others  *)
(* may act: reading a line, handling a message, answering a dialog.  Of    *)
(* the hook only whether it is installed is kept, of the tables only the   *)
(* file that last bound a cell.  What a line means is what its reader      *)
(* takes from it.                                                          *)
(***************************************************************************)
EXTENDS Integers, Sequences, SequencesExt, FiniteSets

CONSTANTS
  MaxInstances,     \* bound: how often the program starts
  Locales,          \* sequence of languages, LM_locales
  Disks,            \* what the files may hold at first: [some of Files -> Seq(Lines)]
  Args,             \* the command line, as lines
  Combos, KAs,      \* combinations of keys; key actions, as hotkeys and keys call them
  Cells,            \* keys at their levels, what a line binds
  TableSize,        \* lenof(HK_KA_ary)
  Taken,            \* combinations that another program has registered
  MaxQueue          \* bound: hotkeys pressed and not handled yet

Instances == 1 .. MaxInstances
NoKA == "none"      \* an element of HK_KA_ary that was not set, an unknown name
NoFile == <<"none", "none">>  \* of a cell that no line bound
Free == <<0, 0>>
Foreign == <<-1, 0>>

\* A configuration file: the user's or the default one, the main one or of a language.
Files == {"user", "default"} \X ({"main"} \cup ToSet(Locales))
Example == <<"default", "example">>
ArgLines == <<"args", "main">>

\* A line; of one that names a table, whether the name fits the 255 characters kept.
Lines == [kind : {"hotkey"}, combo : Combos, ka : KAs] \cup [kind : {"bind"}, cell : Cells]
         \cup [kind : {"nodefault"}, what : {"main", "Compose", "keysymdef.h"}]
         \cup [kind : {"table"}, what : {"Compose", "keysymdef.h"}, fits : BOOLEAN]
         \cup [kind : {"unknown"}]

\* What main() still has to do before the message loop.
Tasks == Files \cup ({"find"} \X ({"main"} \cup ToSet(Locales))) \cup {ArgLines}
         \cup ({"table"} \X {"keysymdef.h", "Compose"})

ASSUME SessionAssumption ==
  /\ MaxInstances \in Nat \ {0} /\ TableSize \in Nat \ {0} /\ MaxQueue \in Nat
  /\ Locales \in Seq(ToSet(Locales)) /\ "main" \notin ToSet(Locales)
  /\ {"toggle", "restart"} \subseteq KAs
  /\ \A disk \in Disks : /\ DOMAIN disk \subseteq Files \cup {Example}
                         /\ \A f \in DOMAIN disk : disk[f] \in Seq(Lines)
  /\ Args \in Seq(Lines) /\ Taken \subseteq Combos

VARIABLES
  disk,             \* the configuration files
  phase,            \* of each instance: what its main thread does
  todo, rest,       \* its Tasks, and the lines left of the file being read
  failed, failed_lines,  \* parse_failed_lines_count > 0, parse_failed_lines
  tables,           \* the key symbol and Compose files read, in their order: default or own
  meaning,          \* [Cells -> the file that last bound it]
  HK_KA_curid, HK_KA_ary,  \* the last id, counted from HK_0; [ids -> key action]
  hotkeys,          \* in Windows: [Combos -> instance and id that it is sent to]
  queue,            \* WM_HOTKEY messages of an instance
  quit,             \* has it posted WM_QUIT?
  KL_active, icon   \* is its hook installed; what its tray icon shows

readVars == <<todo, rest, failed, failed_lines, tables, meaning>>
hkVars == <<HK_KA_curid, HK_KA_ary, hotkeys>>
uiVars == <<quit, KL_active, icon>>
vars == <<disk, phase, readVars, hkVars, queue, uiVars>>

Over == {"ended", "crashed"}
Modal == {"asking", "reporting", "menu"}    \* loops of Windows, not main_loop

Goes(i, ph) == phase' = [phase EXCEPT ![i] = ph]

\* What Windows frees of a process.
Freed(i) ==
  /\ hotkeys' = [c \in Combos |-> IF hotkeys[c][1] = i THEN Free ELSE hotkeys[c]]
  /\ queue' = [queue EXCEPT ![i] = <<>>]

\* A process that crashes does not take its icon from the taskbar.
Crash(i) ==
  /\ Goes(i, "crashed") /\ Freed(i)
  /\ UNCHANGED <<disk, readVars, HK_KA_curid, HK_KA_ary, uiVars>>

\* The instance that a new process is.
IsNext(next) == phase[next] = "none" /\ \A j \in Instances : phase[j] = "none" => next <= j

\* The new process, or none: CreateProcess may fail, which is not looked at.
OS_run_executable == {{}} \cup {{next} : next \in {j \in Instances : IsNext(j)}}

\* restart_the_program: the new process is on its way while the old one ends.
Restarts(i) ==
  \E started \in OS_run_executable :
    phase' = [j \in Instances |-> IF j = i THEN "exiting" ELSE IF j \in started THEN "reading"
                                  ELSE phase[j]]

-----------------------------------------------------------------------------
\* Reading the configuration.

Reading(i, kinds) ==
  /\ phase[i] = "reading" /\ todo[i] # <<>> /\ Head(todo[i])[1] \in kinds

\* The first task gives way to others.
Expands(i, tasks) == todo' = [todo EXCEPT ![i] = tasks \o Tail(@)]

NoDefault(lines, what) ==
  \E n \in DOMAIN lines : lines[n].kind = "nodefault" /\ lines[n].what = what

Unless(cond, task) == IF cond THEN <<>> ELSE <<task>>

DefaultTables == << <<"table", "keysymdef.h">>, <<"table", "Compose">> >>

\* Mutant of MainFiles: the user's file comes first.
MainFiles_UserFirst(lines) ==
  Unless(NoDefault(lines, "keysymdef.h"), <<"table", "keysymdef.h">>)
  \o Unless(NoDefault(lines, "Compose"), <<"table", "Compose">>)
  \o << <<"user", "main">> >> \o Unless(NoDefault(lines, "main"), <<"default", "main">>)

MainFiles(lines) ==
  Unless(NoDefault(lines, "keysymdef.h"), <<"table", "keysymdef.h">>)
  \o Unless(NoDefault(lines, "Compose"), <<"table", "Compose">>)
  \o Unless(NoDefault(lines, "main"), <<"default", "main">>) \o << <<"user", "main">> >>

\* read_main_config_file
FindMain(i) ==
  /\ Reading(i, {"find"}) /\ Head(todo[i])[2] = "main"
  /\ IF <<"user", "main">> \in DOMAIN disk
     THEN Expands(i, MainFiles(disk[<<"user", "main">>])) /\ UNCHANGED phase
     ELSE Goes(i, "asking") /\ UNCHANGED todo
  /\ UNCHANGED <<disk, rest, failed, failed_lines, tables, meaning, hkVars, queue, uiVars>>

\* read_lang_config_files, for one locale
FindLang(i) ==
  /\ Reading(i, {"find"}) /\ Head(todo[i])[2] # "main"
  /\ LET user == <<"user", Head(todo[i])[2]>>
         default == <<"default", Head(todo[i])[2]>>
     IN IF user \in DOMAIN disk
        THEN Expands(i, Unless(NoDefault(disk[user], "main"), default) \o <<user>>)
        ELSE Expands(i, <<default>>)
  /\ UNCHANGED <<disk, phase, rest, failed, failed_lines, tables, meaning, hkVars, queue, uiVars>>

ReadTable(i) ==
  /\ Reading(i, {"table"})
  /\ tables' = [tables EXCEPT ![i] = Append(@, <<"default", Head(todo[i])[2]>>)]
  /\ Expands(i, <<>>)
  /\ UNCHANGED <<disk, phase, rest, failed, failed_lines, meaning, hkVars, queue, uiVars>>

\* Mutant of SkipFile: it is looked for until it is there.
SkipFile_Again(i) ==
  /\ Reading(i, {"user", "default"}) /\ Head(todo[i]) \notin DOMAIN disk
  /\ UNCHANGED vars

\* A default file that is missing is left out.
SkipFile(i) ==
  /\ Reading(i, {"user", "default"}) /\ Head(todo[i]) \notin DOMAIN disk
  /\ Expands(i, <<>>)
  /\ UNCHANGED <<disk, phase, rest, failed, failed_lines, tables, meaning, hkVars, queue, uiVars>>

\* Mutant of ParseFile: the count of failed lines is not reset.
ParseFile_CountKept(i) ==
  /\ Reading(i, {"user", "default"}) /\ Head(todo[i]) \in DOMAIN disk
  /\ Goes(i, "parsing") /\ rest' = [rest EXCEPT ![i] = disk[Head(todo[i])]]
  /\ failed_lines' = [failed_lines EXCEPT ![i] = IF @ = "none" THEN "none" ELSE "freed"]
  /\ UNCHANGED <<disk, todo, failed, tables, meaning, hkVars, queue, uiVars>>

\* parse_str frees the list of failed lines and keeps the pointer: the second time
\* it frees what is free, and may crash.
ParseFile(i) ==
  /\ Reading(i, {"user", "default"}) /\ Head(todo[i]) \in DOMAIN disk
  /\ \/ /\ Goes(i, "parsing")
        /\ rest' = [rest EXCEPT ![i] = disk[Head(todo[i])]]
        /\ failed' = [failed EXCEPT ![i] = FALSE]
        /\ failed_lines' = [failed_lines EXCEPT ![i] = IF @ = "none" THEN "none" ELSE "freed"]
        /\ UNCHANGED <<disk, todo, tables, meaning, hkVars, queue, uiVars>>
     \/ failed_lines[i] = "freed" /\ Crash(i)

\* parse_args: the same statements; the list of failed lines is not touched.
ParseArgs(i) ==
  /\ Reading(i, {"args"}) /\ Goes(i, "parsing")
  /\ rest' = [rest EXCEPT ![i] = Args]
  /\ UNCHANGED <<disk, todo, failed, failed_lines, tables, meaning, hkVars, queue, uiVars>>

-----------------------------------------------------------------------------
\* Lines.

\* Is the line one that parse_str does not recognize?  A nodefault for a table is not:
\* read_nodefault sets its flag and fails.
Unrecognized(line) ==
  line.kind = "unknown" \/ (line.kind = "nodefault" /\ line.what # "main")

KaOf(i, id) == IF id \in DOMAIN HK_KA_ary[i] THEN HK_KA_ary[i][id] ELSE NoKA

\* Mutant of HK_KA_register: the id is not counted up.
HK_KA_register_SameId(i, line) ==
  LET id == HK_KA_curid[i] + (IF HK_KA_curid[i] = 0 THEN 1 ELSE 0)
  IN /\ HK_KA_curid' = [HK_KA_curid EXCEPT ![i] = id]
     /\ HK_KA_ary' = [HK_KA_ary EXCEPT ![i][id] = line.ka]
     /\ hotkeys' = IF hotkeys[line.combo] = Free
                   THEN [hotkeys EXCEPT ![line.combo] = <<i, id>>] ELSE hotkeys

\* Mutant of HK_KA_register: the table's bound does not keep from registering.
HK_KA_register_PastTable(i, line) ==
  LET id == HK_KA_curid[i] + 1
  IN /\ HK_KA_curid' = [HK_KA_curid EXCEPT ![i] = id]
     /\ HK_KA_ary' = IF id < TableSize THEN [HK_KA_ary EXCEPT ![i][id] = line.ka] ELSE HK_KA_ary
     /\ hotkeys' = IF hotkeys[line.combo] = Free
                   THEN [hotkeys EXCEPT ![line.combo] = <<i, id>>] ELSE hotkeys

\* A hotkey gets the next id and an element of the table, if there is one.  Windows
\* refuses a combination that is registered; that is only printed.
HK_KA_register(i, line) ==
  LET id == HK_KA_curid[i] + 1
      fits == id < TableSize
  IN /\ HK_KA_curid' = [HK_KA_curid EXCEPT ![i] = id]
     /\ HK_KA_ary' = IF fits THEN [HK_KA_ary EXCEPT ![i][id] = line.ka] ELSE HK_KA_ary
     /\ hotkeys' = IF fits /\ hotkeys[line.combo] = Free
                   THEN [hotkeys EXCEPT ![line.combo] = <<i, id>>] ELSE hotkeys

NextLine(i) == /\ phase[i] = "parsing" /\ rest[i] # <<>>
               /\ rest' = [rest EXCEPT ![i] = Tail(@)]
               /\ UNCHANGED <<disk, phase, todo, queue, uiVars>>

ReadHotkey(i) ==
  /\ NextLine(i) /\ Head(rest[i]).kind = "hotkey" /\ HK_KA_register(i, Head(rest[i]))
  /\ UNCHANGED <<failed, failed_lines, tables, meaning>>

ReadBind(i) ==
  /\ NextLine(i) /\ Head(rest[i]).kind = "bind"
  /\ meaning' = [meaning EXCEPT ![i][Head(rest[i]).cell] = Head(todo[i])]
  /\ UNCHANGED <<failed, failed_lines, tables, hkVars>>

\* keysym_file, compose_file
ReadOwnTable(i) ==
  /\ NextLine(i) /\ Head(rest[i]).kind = "table" /\ Head(rest[i]).fits
  /\ tables' = [tables EXCEPT ![i] = Append(@, <<"own", Head(rest[i]).what>>)]
  /\ UNCHANGED <<failed, failed_lines, meaning, hkVars>>

\* A longer name: its copy does not go on once 255 characters are stored, and never ends.
ReadLongName(i) ==
  /\ phase[i] = "parsing" /\ rest[i] # <<>>
  /\ Head(rest[i]).kind = "table" /\ ~Head(rest[i]).fits
  /\ Goes(i, "copying")
  /\ UNCHANGED <<disk, readVars, hkVars, queue, uiVars>>

ReadNodefault(i) ==
  /\ NextLine(i) /\ Head(rest[i]).kind = "nodefault" /\ ~Unrecognized(Head(rest[i]))
  /\ UNCHANGED <<failed, failed_lines, tables, meaning, hkVars>>

\* parse_add_failed_line: the list is allocated unless it was before, also when it
\* was freed since, which may crash.  Of an argument nothing is kept.
ReadUnrecognized(i) ==
  /\ rest[i] # <<>> /\ Unrecognized(Head(rest[i]))
  /\ \/ /\ NextLine(i) /\ Head(todo[i]) # ArgLines
        /\ failed' = [failed EXCEPT ![i] = TRUE]
        /\ failed_lines' = [failed_lines EXCEPT ![i] = IF @ = "none" THEN "live" ELSE @]
        /\ UNCHANGED <<tables, meaning, hkVars>>
     \/ /\ NextLine(i) /\ Head(todo[i]) = ArgLines
        /\ UNCHANGED <<failed, failed_lines, tables, meaning, hkVars>>
     \/ /\ phase[i] = "parsing" /\ Head(todo[i]) # ArgLines
        /\ failed_lines[i] = "freed" /\ Crash(i)

\* The end of a file; UI_maybe_show_errors_for_config_file.
EndFile(i) ==
  /\ phase[i] = "parsing" /\ rest[i] = <<>>
  /\ IF failed[i] /\ Head(todo[i]) # ArgLines
     THEN Goes(i, "reporting") /\ UNCHANGED todo
     ELSE Goes(i, "reading") /\ Expands(i, <<>>)
  /\ UNCHANGED <<disk, rest, failed, failed_lines, tables, meaning, hkVars, queue, uiVars>>

-----------------------------------------------------------------------------
\* Dialogs.

\* UI_ask_for_creating_config_file.  No: the defaults alone.  Yes: the example is
\* copied, if there is one and the file can be written (a failure is not looked at),
\* and the file is looked for again.
AnswerAsking(i) ==
  /\ phase[i] = "asking"
  /\ \/ /\ Goes(i, "reading") /\ Expands(i, DefaultTables \o << <<"default", "main">> >>)
        /\ UNCHANGED <<disk, rest, failed, failed_lines, tables, meaning, hkVars, queue, uiVars>>
     \/ /\ Goes(i, "reading")
        /\ disk' = IF Example \in DOMAIN disk
                   THEN [f \in DOMAIN disk \cup {<<"user", "main">>} |->
                           IF f = <<"user", "main">> THEN disk[Example] ELSE disk[f]]
                   ELSE disk
        /\ UNCHANGED <<readVars, hkVars, queue, uiVars>>
     \/ Example \in DOMAIN disk /\ Crash(i)

\* Abort, retry or ignore.
AnswerReporting(i) ==
  /\ phase[i] = "reporting"
  /\ \/ Goes(i, "exiting") /\ UNCHANGED todo
     \/ Restarts(i) /\ UNCHANGED todo
     \/ Goes(i, "reading") /\ Expands(i, <<>>)
  /\ UNCHANGED <<disk, rest, failed, failed_lines, tables, meaning, hkVars, queue, uiVars>>

\* The loops of dialogs and of the menu take messages of the thread too; a hotkey's,
\* which is for no window, is dropped.
ModalDiscard(i) ==
  /\ phase[i] \in Modal /\ queue[i] # <<>> /\ queue' = [queue EXCEPT ![i] = Tail(@)]
  /\ UNCHANGED <<disk, phase, readVars, hkVars, uiVars>>

-----------------------------------------------------------------------------
\* Running.

IconOf(active) == IF active THEN "on" ELSE "off"

\* The window and the icon, either of which may fail.
UI_init(i) == \E shown \in {IconOf(TRUE), "none"} : icon' = [icon EXCEPT ![i] = shown]

\* main(): KL_activate and what follows.
Activate(i) ==
  /\ phase[i] = "reading" /\ todo[i] = <<>> /\ Goes(i, "running")
  /\ KL_active' = [KL_active EXCEPT ![i] = TRUE] /\ UI_init(i)
  /\ UNCHANGED <<disk, readVars, hkVars, queue, quit>>

\* Mutant of KL_toggle: UI_TR_update is called before the flag is set.
KL_toggle_IconBefore(i) ==
  /\ KL_active' = [KL_active EXCEPT ![i] = ~@]
  /\ icon' = [icon EXCEPT ![i] = IF @ = "none" THEN @ ELSE IconOf(KL_active[i])]

KL_toggle(i) ==
  /\ KL_active' = [KL_active EXCEPT ![i] = ~@]
  /\ icon' = [icon EXCEPT ![i] = IF @ = "none" THEN @ ELSE IconOf(~KL_active[i])]

\* What a key action does to the life of the program; most do nothing to it.
KA_call(i, ka) ==
  \/ ka = "toggle" /\ KL_toggle(i) /\ UNCHANGED phase
  \/ ka = "restart" /\ Restarts(i) /\ UNCHANGED <<KL_active, icon>>
  \/ ka \notin {"toggle", "restart"} /\ UNCHANGED <<phase, KL_active, icon>>

\* main_loop
ServeHotkey(i) ==
  /\ phase[i] = "running" /\ queue[i] # <<>> /\ queue' = [queue EXCEPT ![i] = Tail(@)]
  /\ KA_call(i, KaOf(i, Head(queue[i]).id))
  /\ UNCHANGED <<disk, readVars, hkVars, quit>>

\* A key bound to an action: the hook is called on this thread, from its loops.
KeyAction(i, ka) ==
  /\ phase[i] \in {"running", "menu"} /\ KL_active[i] /\ KA_call(i, ka)
  /\ UNCHANGED <<disk, readVars, hkVars, queue, quit>>

\* UI_TR_menu; the icon's message is sent to the window and handled in GetMessage.
OpenMenu(i) ==
  /\ phase[i] = "running" /\ icon[i] # "none" /\ Goes(i, "menu")
  /\ UNCHANGED <<disk, readVars, hkVars, queue, uiVars>>

\* A choice of the menu, or none; next and previous layout change nothing here.
ChooseMenu(i) ==
  /\ phase[i] = "menu"
  /\ \/ Goes(i, "running") /\ KL_toggle(i) /\ UNCHANGED quit
     \/ Restarts(i) /\ UNCHANGED uiVars
     \/ Goes(i, "running") /\ UNCHANGED uiVars
     \/ Goes(i, "running") /\ quit' = [quit EXCEPT ![i] = TRUE] /\ UNCHANGED <<KL_active, icon>>
  /\ UNCHANGED <<disk, readVars, hkVars, queue>>

\* Mutant of MenuQuit: WM_QUIT is used up.
MenuQuit_UsedUp(i) ==
  /\ phase[i] = "menu" /\ quit[i] /\ queue[i] = <<>> /\ Goes(i, "running")
  /\ quit' = [quit EXCEPT ![i] = FALSE]
  /\ UNCHANGED <<disk, readVars, hkVars, queue, KL_active, icon>>

\* The menu's loop ends on WM_QUIT and posts it again.
MenuQuit(i) ==
  /\ phase[i] = "menu" /\ quit[i] /\ queue[i] = <<>> /\ Goes(i, "running")
  /\ UNCHANGED <<disk, readVars, hkVars, queue, uiVars>>

\* WM_CLOSE is sent to the window; UI_quit.
CloseWindow(i) ==
  /\ phase[i] \in {"running", "menu"} /\ quit' = [quit EXCEPT ![i] = TRUE]
  /\ UNCHANGED <<disk, phase, readVars, hkVars, queue, KL_active, icon>>

\* GetMessage gives WM_QUIT after the messages posted; main() returns.
Quit(i) ==
  /\ phase[i] = "running" /\ quit[i] /\ queue[i] = <<>> /\ Goes(i, "exiting")
  /\ UNCHANGED <<disk, readVars, hkVars, queue, uiVars>>

\* exit() calls UI_TR_delete, if main() came to register it.
Exit(i) ==
  /\ phase[i] = "exiting" /\ Goes(i, "ended") /\ Freed(i)
  /\ icon' = [icon EXCEPT ![i] = "none"]
  /\ UNCHANGED <<disk, readVars, HK_KA_curid, HK_KA_ary, quit, KL_active>>

-----------------------------------------------------------------------------
\* The user and Windows.

\* The program is started, also when it is running: nothing keeps from that.
Launch ==
  /\ \E i \in Instances : IsNext(i) /\ Goes(i, "reading")
  /\ UNCHANGED <<disk, readVars, hkVars, queue, uiVars>>

PressHotkey(c) ==
  LET i == hotkeys[c][1]
  IN /\ i \in Instances /\ Len(queue[i]) < MaxQueue
     /\ queue' = [queue EXCEPT ![i] = Append(@, [id |-> hotkeys[c][2], combo |-> c])]
     /\ UNCHANGED <<disk, phase, readVars, hkVars, uiVars>>

\* The taskbar starts anew, without icons; the program does not add its own again.
TaskbarLost ==
  /\ icon' = [i \in Instances |-> "none"] /\ icon' # icon
  /\ UNCHANGED <<disk, phase, readVars, hkVars, queue, quit, KL_active>>

AtStart == << <<"find", "main">>, ArgLines >>
             \o [n \in DOMAIN Locales |-> <<"find", Locales[n]>>]

Init ==
  /\ disk \in Disks
  /\ phase = [i \in Instances |-> "none"]
  /\ todo = [i \in Instances |-> AtStart]
  /\ rest = [i \in Instances |-> <<>>]
  /\ failed = [i \in Instances |-> FALSE] /\ failed_lines = [i \in Instances |-> "none"]
  /\ tables = [i \in Instances |-> <<>>]
  /\ meaning = [i \in Instances |-> [c \in Cells |-> NoFile]]
  /\ HK_KA_curid = [i \in Instances |-> 0]
  /\ HK_KA_ary = [i \in Instances |-> [id \in 0 .. TableSize - 1 |-> NoKA]]
  /\ hotkeys = [c \in Combos |-> IF c \in Taken THEN Foreign ELSE Free]
  /\ queue = [i \in Instances |-> <<>>] /\ quit = [i \in Instances |-> FALSE]
  /\ KL_active = [i \in Instances |-> FALSE] /\ icon = [i \in Instances |-> "none"]

\* What the main thread does by itself.
Thread(i) ==
  \/ FindMain(i) \/ FindLang(i) \/ ReadTable(i) \/ SkipFile(i) \/ ParseFile(i) \/ ParseArgs(i)
  \/ ReadHotkey(i) \/ ReadBind(i) \/ ReadOwnTable(i) \/ ReadLongName(i) \/ ReadNodefault(i)
  \/ ReadUnrecognized(i) \/ EndFile(i) \/ Activate(i) \/ ServeHotkey(i) \/ ModalDiscard(i) \/ MenuQuit(i) \/ Quit(i)
  \/ Exit(i)

Next ==
  \/ \E i \in Instances : \/ Thread(i) \/ AnswerAsking(i) \/ AnswerReporting(i)
                          \/ OpenMenu(i) \/ ChooseMenu(i) \/ CloseWindow(i)
                          \/ \E ka \in KAs : KeyAction(i, ka)
  \/ Launch \/ TaskbarLost \/ \E c \in Combos : PressHotkey(c)

Spec == Init /\ [][Next]_vars

\* The thread of a process runs, and the user, who need not do anything, does not open
\* the menu again at every instant between its loop and GetMessage.
FairSpec == Spec /\ \A i \in Instances : WF_vars(Thread(i)) /\ SF_vars(Quit(i))
===============================================================================
