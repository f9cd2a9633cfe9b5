# A TLA+ model of qwafkey

qwafkey (QWerty As Five-level KEYboard) is a Windows program that alters what
keys do: it installs a low level keyboard hook, tracks the state of modifiers
of its own (level3, level5, latches and locks) next to those of Windows, and
replaces a key by another key, by a character, by a key action or by nothing,
depending on the level, on the input language and on the application. It also
has X11-like Compose sequences.

This directory holds TLA+ modules that model it, the configurations that check
them with TLC on small instances, and proofs that TLAPS checks for every value
of the constants. `PROJECT.json` lists components, runs, mutants (one plausible
bug per property, which the property must catch), the lines of code each
definition stands for, the hazards of the code and the theorems.

    tlc -config typing.cfg MCHook        # or modifiers, compose, ...
    tlc -config layouts.cfg MCLayouts    # or remap_leak
    tlc -config sequences.cfg MCDKTree
    tlc -config config.cfg MCConfig      # or title_fragment
    tlc -config session.cfg MCSession
    tlc -config text.cfg MCText
    tlapm HookProofs.tla                 # about 870 obligations
    tlapm HookKeysProofs.tla             # about 2830 obligations
    tlapm LayoutsProofs.tla              # about 700 obligations
    tlapm DKTreeProofs.tla               # about 1550 obligations
    tlapm ConfigProofs.tla               # about 1820 obligations
    tlapm SessionProofs.tla              # about 2240 obligations
    tlapm TextProofs.tla                 # about 3950 obligations
    tlapm FoldingProofs.tla              # about 250 obligations

## The parts of the program

Within a process, everything that matters happens on one thread: Windows calls the keyboard hook
(KL_proc) and the foreground handler (EH_proc) from the message loop of
`main.c`, which also receives the hotkeys. A callback runs to its end before
the next one. (`ui.c` starts a thread, but the window of the tray icon belongs to
the thread that created it, the main one, and Windows calls its procedure
there; the thread of UI_spawn has no messages to get.) The concurrency that remains is that of the environment:
keys overlap in any order and repeat, windows change between any two key
events, for a part of them the hook is not called at all, and the foreground
handler and the requests to change a window's layout come later than what
they are about. And the program runs beside itself: nothing keeps from starting it
twice, and a restart starts the new process before the old one has ended, while both
want the same hotkeys.

| Part | State | Operations | Talks to |
|---|---|---|---|
| **KM** `km.c` modifier tracker | one record per modifier: in_effect, locked, latch, latch_faked, latch_released, latch_releases, shifts | nonmod, shift, latch, lock event, reset | sends key events for a latch |
| **KL hook** `kl.c` 28-396 | six trackers, KL_phys, KL_phys_mods, KL_received..., KL_dk_in_effect, the table in use | KL_proc, KL_toggle, KL_on_task_switch | KM, KA, DK, Windows |
| **KL tables** `kl.c` 401-711 | KL_kly, KL_vkw, KL_scw, KL_mods_vks, a compiled table per language, KL_bind_kly | bind, add / compile / activate a language, overlay (KL_temp_sc), define_vks | LM, OS |
| **KA** `ka.c` key actions | the table of names | one function per action, KA_call | KM, KL, DK, LM, KR |
| **DK** `dk.c` Compose | a tree, the current node; names of dead keys | descend on a character or a dead key; read the files, grow the tree | KL (sends the character) |
| **EH** `eh.c` | - | EH_proc | KL, LM, KR |
| **LM** `lm.c` input locales | the list of locales, the selected one, the window | get list, activate n-th / next / previous | KL tables, Windows |
| **KR** `kr.c` remapper | active flag, KR_id, applications, titles, classes and their hash tables | bind, hash, apply, clear, on_task_switch, on / off / toggle | KL tables, LM |
| **HK** `hk.c` hotkeys | HK_KA_curid, HK_KA_ary (id -> key action); in Windows, combination -> process and id | register, call | KA, Windows |
| **Parser** `parse.c` | current levels, language, application; the flags of nodefault lines, the list of lines not recognized | read a bind, remap, lang, levels, hotkey, nodefault line; collect what is not recognized | KL, KR, DK, HK, UI |
| **Text** `str.c`, `freadline.c`, `parse.c` | a buffer that grows | a file to lines, a line to characters | Parser, DK |
| **Startup** `main.c` | - | which files are read in which order, message loop, restart | all |
| **UI** `ui.c` | the tray icon, the menu's check mark | icon, menu, window, two dialogs | KL, Startup |
| KN names, most of the OS wrappers | constant tables or none | | |

What makes it hard:

* **Agreement of three views of a modifier**: what is physically held, what the
  tracker says, and what Windows has down. The hook changes the third on its
  own (a latch fakes a left shift, an altered key brings shift, control and alt
  into another state) and decides from the second only.
* **Missed events**: keys pressed or released while the hook is off, or while
  a window of higher integrity level has the focus.
* **Order of presses and releases**: latches depend on which release comes
  first; a level may change while a key is held.
* **Auto-repeat**: the same key goes down many times.
* **State split over two files**: a Compose sequence has a flag in `kl.c` and
  a current node in `dk.c`; the table in use is a copy of a language's
  table with an application's overlay written over it.

* **Two processes and several message loops**: dialogs and the menu have loops of
  their own, which drop hotkeys; WM_QUIT must come through them; a process that
  restarts competes with the one it starts.

What makes each part correct:

* KM: a modifier is in effect exactly when a key, a lock or a latch holds it,
  and moves as the comment in km.c promises, whatever the order of events.
* KL hook: the trackers agree with Windows; nothing stays down or in effect at
  rest; an alteration leaves no trace; the table of modifiers stays.
* DK: a sequence ends with its character and starts at the root; its keys do
  not reach the window. The tree that the files grow stays within its arrays,
  and has the character of the last line for every sequence but those overridden.
* KL tables, LM, KR, EH: the table in use is that of the selected language,
  with the bindings of the window in front over it and no other's, and the window
  is asked to use that language.
* Parser, KL tables: what a key does at a level in a language is what the last line
  for it says, whenever the table is compiled; a line changes the cells it names.
* HK, UI, Startup: a hotkey runs what its line says; the icon tells whether the hook is
  active; the user's files have the last word and lines that are not recognized are
  reported; reading ends, and so does the program when it is told to.
* Text: lines and characters are read as they are written, and a line means what it
  means alone.
* KR's hash tables: a window of a section's name finds one, and none whose name its own
  does not begin with; no element outside of the arrays decides.

## Modules

    KM  DK            operations as pure operators on their part of the state
      \ /
      Hook            the state machine: hook, user, Windows, windows
       |
    HookProps         its properties
     /      \
    |      HookModifier   refinement mapping: Hook implements Modifier (4 times);
    |        |     \      the boards that the theorems are about
    |        |    MCHook  instances for TLC
    |        |
    HookProofs            proofs about any board
        |    \
    HookKeysProofs        Windows, the trackers and the keys; the refinement
                          (with HookModifier and FoldingProofs)

      Layouts             the state machine: tables, languages, windows
       |
    LayoutsProps          its properties
     /        \
    LayoutsProofs  MCLayouts

      DKTree              the state machine: the files that grow the Compose tree
       |
    DKTreeProps --- KeySequences, DK    its properties; the map it implements, and
     /        \                         the lookup that has to find it
    DKTreeProofs  MCDKTree

      Config              the state machine: configuration lines, compiling, hashing
       |
    ConfigProps           its properties
     /        \
    ConfigProofs  MCConfig
       |
    FoldingProofs         lemmas about folds, by which loops are modelled

      Session             the state machine: processes, files, dialogs, hotkeys, the icon
       |
    SessionProps          its properties
     /        \
    SessionProofs  MCSession

      Text                functions that read files, lines and characters
       |
    TextProps             a file that is written, and what is read of it
     /        \
    TextProofs  MCText
       |
    FoldingProofs         (also lemmas about functions that are given by recursion)

* **KM** is km.c. A tracker is a record with the fields of the struct; `shifts`
  is the used part of the array (Len is shifts_count). Each operation returns
  the record, with the key events it sends where it calls keybd_event. Two
  facts of the code are kept with care. (1) The loop that removes a released
  key starts from 0, not i + 1: it drops the first entry whatever key was
  released, and it writes shifts[-1]. That write is undefined behaviour; in the
  layout of the struct it falls on latch_releases (and a byte of padding),
  and the compiler may also drop it, so KM_shift_event is a set of outcomes.
  (2) The count is the last operand of a `||`: with a lock or a latch set the
  array moves down and keeps its length.
* **DK** is the lookup of dk.c. A node is named by the sequence of keys that
  leads to it; the tree is the constant Compose, a function from sequences to
  characters.
* **Hook** is KL_proc with the key actions on trackers and dead keys, and
  KL_on_task_switch and KL_toggle. One step is one event handled to its end.
  That the foreground changes (SwitchWindow) and that EH_proc is called for it
  (TaskSwitch) are two steps: the handler is registered with
  WINEVENT_OUTOFCONTEXT and runs from the message loop, later.
  Events that the hook sends come back to it flagged as injected and change
  nothing (kl.c:168, 223), so they are applied to `keys`, what Windows has
  down, in the same step. `KL_phys`, `KL_phys_mods`, `KL_received` (for
  KL_received_anything_in_this_window), `KL_dk_in_effect`, `DK_cur_node` are
  the variables of the code, `KL_km` its six trackers. `typed` is the character
  the event sent. `held`, `last` and `window` are the environment. The
  table in use (Kly) and the tables of characters are constants: they
  belong to Layouts, below. The key actions toggle, restart, next and previous
  layout, kr_..., dim_screen, close_window and toggle_on_top are not among the
  bindings of this module; Toggle is a step of its own.
* **Layouts** is lm.c, the task switch and the actions of kr.c, EH_proc, the
  activation of tables in kl.c and the startup sequence of main.c. The table
  KL_kly is modelled as where its entries come from: `lang`, the language whose
  compiled table was copied, and `overlay`, for each key the application whose
  binding was written over its first two levels. (A table is compiled when it is
  first activated; the configuration has been read by then, so that compiling
  leaves what later copies give.) The functions of the code are operators on a
  record of the variables they change, composed as the code calls them;
  a handler is one step. `events` are foreground changes that EH_proc was
  not called for yet, `requests` the messages that a window has not answered,
  `fg` and `layout` what Windows knows: the window in front, each window's
  locale (every window has a thread of its own here). Which application a
  window's title or class is matched with is a constant, as are the languages
  and which of them have bindings. What lies around the array of locales, which
  an index out of its bounds reads, is the constant Outside.
  Hook and Layouts share KL_active and the foreground; Hook takes a table
  as given, since what it does is defined for any table, and Layouts says which
  one it is. They meet in EH_proc, which calls KL_on_task_switch (Hook) and then
  the rest (Layouts), on disjoint state.
* **DKTree** is the reading of key symbol and Compose files. A step is a line.
  The tree is a function from the paths that lead to nodes, so that which nodes
  there are is kept apart from what the arrays of their parents list: a child that
  was freed and is still listed, or one that is listed twice, can be told. An array
  is `alloc`, `len` (what nodes[0].count holds, itself counted) and the keys of its
  children. Names are values; that a name is `U+xxxx` hexadecimal digits is the
  constant ucs2. Strings are compared up to 256 characters and stored once,
  both of which the values abstract from. The buffer of a line's keys is local to a line
  but for the character name, DK_code_buf, which the next line may use. The array
  DK_dks is not checked by the code; the guard DksSize stops the model there.
* **Config** is the statements of parse.c, the tables of languages of kl.c that they
  write and that are compiled on first use, and the sections of applications of kr.c
  with the hash tables made of their titles and classes. A step is a line, the start
  of the program (main.c, once the files are read), or the selection of a language.
  A line is what its reader takes from it. A table is a function from cells, a level
  and a key, to bindings; KL_bind_kly, a pointer, is an index. The layouts of Windows
  are constants: which virtual key a scancode is and which key types a character
  (sc_to_vk, VkKeyScan); no two keys have the same virtual key of those that shortcuts are
  listed for (other keys may: both shift keys are VK_SHIFT). Every language of a file has a layout that is installed. The
  tables of characters that compiling fills too (KL_vkw, KL_scw) are left out: they
  depend on the layout alone. qsort is any order with ascending checksums, the element
  past the sorted pairs, which is never set (kr.c:137), any value of Garbage.
  Checksums, "begins with, in any case" and "has as a part" are constants. What Config leaves in the tables
  is the constant that Hook (Kly) and Layouts (which languages have a table, and
  TitleApp and ClassApp) take.
* **Session** is main.c, ui.c, hk.c and the parts of parse.c and ka.c that they need:
  the life of up to MaxInstances processes. A step is what the main thread does
  between two points at which the user or another process may act: a line read, a
  message handled, a dialog answered. `phase` is where it is: reading (between files),
  parsing (in one), copying (the name of a file of more than 255 characters, which never
  ends), asking and reporting (the two dialogs), running (main_loop), menu,
  exiting, and ended or crashed. `todo` is what main() still has to do before
  KL_activate: files to look for (find), to read, tables of key symbols and sequences,
  the arguments. `meaning` is, for a cell of the tables, the file that last bound it;
  what a binding then does is module Config's. A line is what its reader takes from
  it; of the name of a file, whether it `fits`. `hotkeys` is what Windows has registered for whom, and `queue` the WM_HOTKEY
  messages of a process. parse_failed_lines is freed and not forgotten (parse.c:699):
  using it then is a step or a crash. Of the hook, KL_active is kept; a key action is a
  step that is possible while it is set. What Hook and Layouts call Toggle
  is here KL_toggle, with the icon it updates.
* **Text** is functions: fread_line with the buffer that grows and reads a
  line again, fread_to_eof, and the loop of parse_str over lines with comments, lists of
  bindings, and characters written as themselves (UTF-8) or by number. A key with its
  colon is one byte, since the names of keys do not matter. Each loop is a function
  given by recursion on where it is in the file: LET f[p \in S] == ... f[...] ... A
  position is an index of the string, or of the Nul behind it; the loops are functions
  on positions, from 1 on: what is in memory before a string is not read, and what is
  behind its Nul is not modelled.
* **TextProps** is the state machine for them, of one variable, the file: its user writes a
  piece at a time and the program may read it after every piece. So what is said of the
  functions is said of all files, the unfinished ones included.
* **KeySequences** is what Compose files promise: a map from sequences to
  characters, overridden one sequence at a time.
* **Modifier** is the abstract specification: what the header of km.c and
  config/example.txt:112-118 promise of a modifier, in four variables and seven
  actions, without arrays, counters or scancodes.
* **HookModifier** maps each of shift, control, level3 and level5 to it. A
  modifier is pressed, for the abstract specification, by the keys of KL_phys,
  not by those of the array: the refinement says that the array does not
  matter. The module also names the boards that theorems are about, HomeRow
  and OneKeyEach (below).

## What the runs show

The runs of MCHook use keys and bindings of config/hjkl.txt for the US layout
(levels 1 to 6), each board a few keys, and `compose` a table with the bindings that it
has not; those of MCLayouts an editor whose class
has bindings, games known by title, and a console.

| Run | Shows | Size |
|---|---|---|
| modifiers | Refines, with l5_lock (E), l2_latch (S), l3_latch (comma), keys held two at a time in any order, a window the hook does not see, and the hook turned off and on | 556 thousand states |
| typing | semicolon (level5), S and comma (latches), caps lock (control), J and W (altered keys, with shift to add and to remove), Up (passed on unprocessed), up to 5 keys held | 483 thousand |
| compose | two dead keys, keys with and without a character, a remapped scancode, a character binding, the latch of shift, two shift keys and the level5 shift, whose key is marked as temporary in KL_phys_mods; sequences of 2 and 3 keys; room for 2 shifts in the array, the values that the write to shifts[-1] leaves; windows that change | 630 thousand |
| layouts | three windows (class, title, console), three languages of which one has no bindings, events handled late, requests answered late, hook and remapper on and off | 3.6 million |
| sequences | two dead keys of which one has a second name, three names of characters, sequences of 0 to 4 keys that begin, end and lead through one another, a line without a character, files in any order | 220 thousand |
| config | up to four of 22 lines: six bind lines of three keys, level and levels, two languages that exchange two keys and one of which lacks a character, the language of the shortcuts, titles of which two have one checksum, classes, a remap, another file; every start and switch of language | 68 thousand |
| session | two processes, six sets of files: the shipped ones; the example and no file of the user's; more hotkeys than the table holds, one combination twice, one that another program has; lines not recognized in several files; the user's own tables; a name of one that is too long. Dialogs, menu, hotkeys, restarts, crashes, the end of the taskbar | 74 thousand |
| text | all files of up to five bytes, in eleven pieces: a key, what begins a character, a two byte character and half of one, a number, a comma, a blank, a comment sign, the two kinds of line end, a Nul; a buffer that grows twice | 44 thousand |
| title_fragment | violation of FoundByFragment, with the two names of example.txt:167-171 and their checksums | |
| remap_leak | violation of OnlyItsWindow | |
| two_shifts | violation of RestIsNeutral | |
| compose_stale | violation of ComposeStarts | |

* `Refines` (modifiers, typing): every tracker moves as Modifier allows and is
  in effect exactly when Modifier says, also when events are missed.
* `InEffectInOs`: shift, control, alt and win in effect in the tracker means
  that Windows has one of their keys down, whoever pressed it.
* `NothingStuck`: at rest Windows has no modifier down.
* `RestIsNeutral`: at rest no modifier is in effect.
* `FakedShiftTracked`: a left shift down in Windows that nobody holds is one
  that the tracker knows of.
* `AlterationIsTemporary`: an ordinary key leaves the modifiers of Windows as
  they were.
* `Coherent`: in_effect is what the other fields say, after each of the five
  pieces of code that recompute it from some of them.
* `ModifiersStay`: KL_phys_mods, which the level5 shift marks its key in and the hook
  clears the mark of, never loses or gains a modifier.
* `SentEndsSequence`, `SequenceSwallows`: the character sent ends the sequence
  in kl.c and in dk.c, and no key of it reaches Windows.
* `TableOfSelected`: the table in use is that of the selected language when that
  has bindings (and the shortcuts need no other language), although
  a console's handler activates two locales and every reload is a side effect
  of asking the window to change.
* `OverlayKnown`: while KR_id is 0 the table has no application's bindings,
  but those to kr_on_pt. This is what lets a window without bindings be skipped.
* `NoRemapElsewhere`: in a window without a title of its own, the only foreign
  bindings are those of its class, with the hook and the remapper on or off.
* `WindowFollows`: after a foreground event, and after a change of
  layout, the last request of the window leaves it in the selected language, whatever
  requests are unanswered. Of a foreground event this is claimed for all windows but one
  that is `Late`: its layout is of the selected language when EH_proc looks, and a
  request that it has not answered is about to change it. EH_proc asks such a window
  for nothing; without the exception TLC finds it in another language.

* `WithinArrays`, `ChildrenListed`: an array of children never holds more
  than was allocated, and lists every node below it once and nothing else.
* `NoDeadEnd`: every node that is not the end of a sequence leads on to one.
* `LookupAgrees`: the lookup of module DK, which knows only the sequences, goes
  where the arrays of the tree go.
* `NamesKeep`: a name keeps its key in sequences, and the action that bindings call by it,
  when more names are read and more actions are named.
* `Overrides`: the tree implements KeySequences.

* `MeaningIsRead`: what a key does at a level in a language changes only when a line binds
  that key there, in that language or in all. What it does is told from the table
  if it is compiled, and from the two tables it will be made of if not, so that
  compiling, in place and at different times for different languages, may not show. A
  character becomes its key, or no binding when it is on this key already; both are
  the same to the user.
* `PairsAlternate`: the first of two bindings goes to the plain and the second to the
  shifted levels, whichever pairs are selected.
* `ShortcutsOfReference`: the table of shortcuts has, for every listed key, what the key
  means in the language of reference, although it is written in two places.
* `RangesHold`: every range of the hash tables has the names of its
  checksum and no other. The range of the greatest checksum may be lost.
* `NameFound`: a window never gets the bindings of a section whose name its own does not
  begin with, and a window with the very name of a section gets those of one, if the
  checksum is not the greatest. `FoundByFragment` is what the documents say of
  titles, and is false (title_fragment).

* `HotkeyRunsItsLine`: a hotkey, registered or already in the queue, runs an action
  that a line gives to its combination, with two processes, a full table and a
  combination that was given twice or belongs to another program. A hotkey may be
  lost; it is never somebody else's.
* `IconShowsActive`: the icon, if there is one, shows whether the hook is active.
* `FilesInOrder`: after all files, a default file's binding does not stand against the
  user's file of the same name, although the main file is looked at twice and the files
  of languages come after it and after the arguments; and no Compose file is read before
  the key symbols its names come from. An exception is in the property itself (Created):
  the file that one process makes while another already went on without it.
* `ReportsBadFiles`: a dialog is shown for every file that is read to its end and has lines
  that are not recognized, and for no other.
* `Settles`: reading the configuration ends or comes to a dialog, if no name of a file in it
  is longer than 255 characters (NamesFit). With one that is it does not end: TLC finds
  that as soon as NamesFit is left out. `QuitEnds`: a process
  that was told to quit ends, in whatever loop it is, or hotkeys come for ever.
* `FilesReadByLine`, `ConfigReadByLine`, `CharsReadAsWritten`: the readers of Text, over all
  files that are made of the pieces, against a reference definition (LinesOf, and what a
  line or a character says alone). `FilesReadByLine` is about files without a Nul, and leaves out
  a file with Cr Nl and a line that fills a buffer to its Nul; `ConfigReadByLine` leaves out
  files with a line that is open-ended (IsOpenEnded): a character after an equals sign is
  missing there, or cut, and the reader takes the end of the line for it. Both are
  among the disagreements below.

Bounds, and why they suffice. MaxHeld: three keys are a modifier or latch, a
key pressed under it, and one more across; two in `modifiers`, where a lock
stands for a held key, and in `compose`, where a latch does; five in `typing`, where a
level key, a latch, control and two ordinary keys overlap. MaxUnhandled: the
foreground changes before EH_proc hears of it, with key events in between;
one change that is late puts keys typed in the new window before its reset,
a second one would only repeat it. Nested (typing):
keys come up in the reverse order, which leaves room for five of them; that the
properties of this run do not depend on the order is proved (HookKeysProofs assumes
nothing of it), and TLC agrees for three keys with Nested = FALSE, and in `modifiers`.
They do depend on the board: two_shifts shows RestIsNeutral fail with two keys for
shift. MaxShifts is
KM_MAXSHIFTS (4), and 2 in `compose` so that two keys fill the array.
ReleaseCounts: the counter of releases under a latch is only compared with 0,
so 0 to 2 shows every case but the wrap; `compose` adds the values the stray
write leaves. Boards of 3 to 7 keys have every kind of binding among them.
`keys`, `held` and the trackers are finite, so no other bound is needed.

In Layouts: MaxEvents 1, a foreground change that EH_proc comes late for, with any
action in between; MaxRequests 1, user actions and handlers run while each
window is at most one request behind (a handler posts up to two more); MaxBelow
1, the previous layout of the first is at index -1, and going further down only
repeats it. Three locales: two languages with bindings and one without. Requests are answered at any time, also
after the next event of their window was handled: nothing makes a window answer earlier.

In DKTree: MaxLines 5, two lines that define names and three sequences that override
one another, or five sequences; four children of one node take its array from 2
to 3 and 4 elements, twice through the rounding. ReadBufs 3 for the code's 8, so
that a line has too many keys. KA_dkn_count 3 for 32: the
table of dead keys has at most 4 entries (DksSize) and one may have no action.

In Config: MaxLines 4, levels, a language and a binding of each of two kinds, or three
names of windows and a class; four levels (two pairs) for the code's six. KlcsSize and AppsSize
3: the arrays of the code have room for 4 languages and 20 applications before they
are moved, and what happens then is undefined (below). SumLen 4 for 256; three
names in a table, two of them with one checksum, and elements of Garbage equal to
it, to another and to none. In title_fragment SumLen is the 256 of the code.

In Session: MaxInstances 2, a process and the one it restarts into, or two that were
launched. TableSize 3 for the code's 255 (HK_KA_ary; element 0 is not used), so that
a third hotkey finds it full. MaxQueue 1: a second message waiting only repeats
the first, and a message sent while the queue is full would be the same one step later.
Combinations: one free, one free, one that another program has. Two languages, one with
files of its own and one without.

In Text: BufSize 3 for the code's 255, so that a line of five bytes makes the buffer grow
twice, to 4 and to 6. MaxBytes 5: a line, a second one that its end may spoil, and what
is left of a third. CharSamples has the characters at both ends of every length of
UTF-8 that is read. None of the three bounds is in the theorems.

Fairness. The run of Session assumes, of each process, that its thread goes on
(weak fairness of Thread, all that it does without the user), which is Windows'
scheduling, and that the user does not open the menu again at every instant between its
loop and GetMessage (strong fairness of Quit). Nothing is assumed of the user
otherwise: dialogs may stay open for ever, and Settles counts them as an end. The other
modules state no fairness and have no liveness property: there the program is
purely reactive, does one bounded thing per event and sets no timer, and its user is
free never to press a key again.

## What is proved

Every invariant and every action property that a passing run checks is also a theorem, for
every value of the constants; so are both refinements. The two liveness properties (Settles, QuitEnds) are not. The
constants satisfy the assumptions that the modules name; where a theorem needs more, the
hypothesis is in its statement and is listed here.

`HookProofs` proves for any board, binding table, Compose tree, array size and set
of windows:

* TypeCorrect: `Spec => []TypeOK`, in particular that the array of shifts never
  holds more than MaxShifts keys and that the lookup never rests at a bind node;
* TrackersCoherent: `Spec => []Coherent`;
* PhysModsStay: `Spec => []ModifiersStay`;
* SequenceEnds: `Spec => SentEndsSequence`.

The inductive invariant IInv is TypeOK with, for each tracker, Coherent and
what Coherent needs to be inductive. Neither part stands alone: the branches of
km.c recompute in_effect from a part of the fields and are right only because
of what the others hold at that moment. For instance l_release
looks at the shifts and the count and not at the lock, and is right because a
tracker that sees ordinary keys (shift, level3) is never locked; a latch event
clears the lock; alt and win never have a latch. The lemmas follow the code:
one per operation of km.c, one per key action, one per part of KL_proc, one per
step of Next. SequenceEnds needs no more than the type of DK_cur_node, since the
root is not a bind.

`HookKeysProofs` proves, of the trackers, what Windows has down and the held keys, for
any board that satisfies HomeRow and whatever the order of presses and releases:

* EffectReachesWindows: `Spec => []InEffectInOs`;
* FakeIsTracked: `Spec => []FakedShiftTracked`;
* RestNeutral: `Spec => []RestIsNeutral`;
* NoKeyStuck: `Spec => []NothingStuck`;
* AlterationEnds: `Spec => AlterationIsTemporary`;

and SequenceKeepsKeys, `Spec => SequenceSwallows`, for any board whose win keys cannot be
bound (WinKeysOutside; their scancodes are E0 5B and E0 5C, and 0x5B is above KPN, 64).

HomeRow is the use that config/hjkl.txt is made for: no key of the board is one Windows
takes for a modifier, and nothing is altered to one; control and the level5 shift are each
on one key and at every level; nothing locks level5; no event is missed. It is an
assumption about the board and the table only: how many keys, levels and
bindings there are, latches, altered keys, sequences, and what is held with what, are
free. TLC evaluates it for the board of the run `typing` (HomeRowAssumption in MCHook).
It cannot be dropped: with two shift keys RestIsNeutral is false (two_shifts), and the
section on disagreements below says how each of its other parts is needed.

The inductive invariant HInv adds to IInv that Windows has exactly those modifier keys down
that the trackers stand for (Matches: the left shift for a latched shift, LCONTROL for
control), that a latch that is in effect has its left shift faked, that the arrays of
control and level5 hold their key exactly while it is down (ByPhys), and that what the hook
saw go down is held. Matches is what makes the rest go through, and it has to be
followed through the events that one step sends in a row. `keys` is a fold over these
events, so the lemmas first say what Windows has after each of them (EventByEvent,
AfterBoth). Then FixAndUndo: an
alteration sends the reverse of every event that it sent before the key, and the
reverse restores because the event was only sent when the tracker, and by Matches
Windows, had the other state. A latch's two paths, when its own key comes up and when the
next key does, are ReleaseFollowed and LatchFollowed.

It also proves TrackersRefine, `Spec => Refines`: the trackers of shift,
control, level3 and level5 implement Modifier. The hypothesis is OneKeyEach: a modifier has
one key at most, or one latch key, or a lock key; and a latch key is not held while so many
keys come up that the byte latch_releases wraps (ReleaseCounts, a bound of the module).
TLC evaluates it for the boards of `typing` and `modifiers`; events may be missed here,
the hook may be off, windows may change, and Windows' own modifier keys are on the board.
RefInv says of each tracker that its array holds the key of the modifier exactly while that
was last seen going down, and that only the latch key of the modifier is its latch. It is a
step simulation: TrackerStep says what an event does to one tracker, for each path of
KL_proc (a tracker is told first that an ordinary key was released and then that the same
key is its latch key, within one event); LatchKeyMoves, ShiftKeyStep and OtherKeyStep
show that any such step is one of Modifier; and the effect is right in every state
by EffectOfSound.

`LayoutsProofs` proves for any windows, applications, languages and bounds:

* LayoutsTypeCorrect: `Spec => []TypeOK`;
* SelectedTable: `Spec => []TableOfSelected`;
* OverlayIsKnown: `Spec => []OverlayKnown`;
* NoLeak: `Spec => []NoRemapElsewhere`;
* WindowsFollow: `Spec => WindowFollows`.

The invariant is their conjunction with LastIsFront, that the last pending event
is the one of the window in front: without it nothing is known of the
window in front when the queue is empty again. It is carried by a predicate
on the record that the operators take (Sound), one lemma per function of the
code: an activation leaves a table without overlay, KR_clear does so and clears the
flag, and KR_on_task_switch, given a sound record, leaves one that is right
for its window (Fits). OverlayKnown is what makes the last lemma true: when the flag
is 0 the table is not reloaded and must be clean already. WindowsFollow goes function by
function too: what a window is headed for is the last that it was asked, and every function
that asks a window asks last for the selected language. When EH_proc asks for nothing, the window
has its layout already, and no unanswered request can take it away, since
the window is not Late (ArrivingKeeps).

`DKTreeProofs` proves for any names, symbols, lines and files:

* DKTreeTypeCorrect: `Spec => []TypeOK`;
* ArraysHold: `Spec => []WithinArrays`;
* TreeIsListed: `Spec => []ChildrenListed`;
* SequencesEnd: `Spec => []NoDeadEnd`;
* ReadingOverrides: `Spec => Overrides`, the refinement of KeySequences;
* LookupFollows: `Spec => []LookupAgrees`;
* NamesLast: `Spec => NamesKeep`.

TreeInv is the conjunction of the second, the third and the fourth; none is inductive
alone (an array counts its children only if its parent's was grown with it).
The lemma Assigned says what DK_assign leaves at each path, in four cases: the path
itself, the pivots on the way, what was below, the rest; each part of the
invariant follows from it, and AssignOverrides, the step of the refinement, too.
That arrays grow enough is Fetching: of a node that Holds, with one child
more, the size is at least MinSize >= 2 and grows by at least one. LookupFollows needs that
every pivot node is the beginning of a sequence, which NoDeadEnd says for one more key only:
the tree has a depth (Deep), and among the pivots that begin with a node the longest leads to
a bind. NamesLast rests on what the loops over the tables do, take the first entry of a
name (FirstStays), and on DeadFirst, that the name of a dead key is among the dead keys
whenever it is among the characters; for bindings, on NamedIn, that the actions with names are
no more than the dead keys.

`ConfigProofs` proves for any lines, languages, layouts, numbers of levels and checksums:

* ConfigTyped: `Spec => []TypeOK`;
* MeaningKept: `Spec => MeaningIsRead`;
* ShortcutsRefer: `Spec => []ShortcutsOfReference`;
* TwoBindingsAlternate: `Spec => PairsAlternate`;
* HashedRangesHold: `Spec => []RangesHold`;
* NamesAreFound: `Spec => []NameFound`.

TInv adds to the types that a language has one table and the neutral one is never compiled;
that a compiled table has no character left that its layout has a key for, which is why
compiling again says the same; and that the table of the shortcuts' language is compiled
from the start. Compiling is followed as one function on the tables, which keeps what each
cell says (Kept). Of two bindings, the one a level gets is decided by how many selected levels are
below it, which is even where a pair begins (PairsBelow). The loop over the sorted pairs is
a fold with a running checksum: the invariant of the loop (RunOf) is that the ranges
written so far are those of the checksums that are finished. A window whose checksum is
the greatest may go without (IsLast), because of the element after the last.

`SessionProofs` proves for any configuration, languages, size of the table, number of
processes and combinations that other programs have:

* IconTells: `Spec => []IconShowsActive`;
* HotkeysRunTheirLines: `Spec => []HotkeyRunsItsLine`;
* SessionTyped: `Spec => []TypeOK`;
* FilesComeInOrder: `Spec => []FilesInOrder`;
* BadFilesReported: `Spec => ReportsBadFiles`.

HInv, the invariant of the second, adds that the next id is greater than any that is
registered or queued (IdsCounted), so that an element of the table is never
written twice, and that what is still to be read of a file was given (RestGiven).
The dialog that writes the user's file needs UserFileAskedFor, from the
invariant of the first: when it is answered the file may be there already, made by another
process, and is then overwritten by what it holds. RInv, the invariant of the last three, is
about the tasks that are still ahead: a default file is followed by the user's
(DefaultsFirst), and what a default file bound will be bound again by the user's file
that is ahead or is being read (OwnAhead); the names come before what is made of them
(NamesAhead); and a line that is not recognized was counted or is still to come
(BadCounted). The theorems are about Spec, and so about FairSpec, which the run uses.
A new assumption came out of these proofs: the list of installed locales has no
element but its own (SessionAssumption), as every list.

`FoldingProofs` has what the proofs about loops rest on. The models write loops as folds
(FoldLeft, MapThenFoldSet), which the library defines by a function chosen to satisfy an
equation; that such a function exists (FoldExists) is itself an induction. The induction
theorems of the library take an operator that no installed prover instantiates, so the
lemmas here use that a set of numbers has a least element (LeastNumber, UpTo): what holds
of 0 and of n + 1 if of n holds up to N.

`FoldingProofs` does the same for functions that are given by recursion, of which TLA+
only says that they are chosen to satisfy their equation. RecursionExists: where a measure in
0..N goes down at every step, some function of a given type satisfies it; ByMeasure: what holds of an
element if it holds of all of smaller measure holds of all. The measure must be
real: HexValue, at a position after its end, or parse_str at position 0 has no such function,
and of what CHOOSE then gives nothing is known. The domains of the functions of Text are
what makes them total.

`TextProofs` proves for files of any length and bytes, any pieces that they are written in and
any size of the buffer:

* CharactersRead: `Spec => []CharsReadAsWritten`;
* FilesAreLines: `Spec => []FilesReadByLine`;
* ConfigLinesAlone: `Spec => []ConfigReadByLine`;

and FileIsString, that the file is a string of at most MaxBytes, which is all
that they need of the state: the induction is over the file, not over the steps.

Characters: ItselfIsRead and NamedIsRead follow the reader byte by byte for each length of a
character, and the arithmetic is that a number below 65536 is told from its quotients and
remainders by 64 and by 16 (Halves, Three, Four).

Lines: what fgets puts into the buffer is what ReadAs says of the bytes between two positions, and
ReadAs splits (ReadAsSplits). LineIsRead says that fread_line, called where a line begins,
returns this line and the position behind it, by induction on what the buffer still lacks. Either the
line fits (NotFullYet: fgets stopped at its end), or the buffer is full and as many bytes were read as it
goes back by, so that the next try begins where this one did (LineOrAgain). That
is where the hypothesis about Cr Nl is needed: with a Cr that fgets dropped, going back by what was read
ends one byte too late. The buffer keeps its size from one line to the next, so every line has to be
read well at any size that it can have by then (GoodSize). ReadByLine then is an induction from the end of
the file, with InText for the position in the text of a position in the file.

Configuration: parse_str reads one string and never cuts it into lines, so that each of its readers has
to stop in time. LineIn says that a line is in a string after a position, and ends at its
Nl or before a Nul; one lemma for each reader says that it reads there what it reads of the line
alone, as many bytes further on (PastMoves, HexMoves, CharMoves, BindingMoves, ListMoves,
StatementMoves; LineSays for all of it). The readers of blanks, digits and comments stop by
themselves at the end of the line; of a character this has to be assumed, and is
what it means that the line is not open-ended (Closed, NotOpenEnded). ConfigByLine puts the lines together, again from
the end, as the lists that LinesOf and parse_str make grow together (LineAlone).

Only model-checked: Settles and QuitEnds (liveness, and with it the fairness of the run of
Session).

Nothing is assumed in a proof that a run does not evaluate: the assumptions of the
modules are checked by TLC with the constants of every run, HomeRow and OneKeyEach with
the boards they are meant for, WinKeysOutside with every board (none has a win key, so
it is what a keyboard is that justifies it). The
assumption that differs from the program's data is that the byte of every
scancode is not 0 (Hook, HookAssumption): it is needed only for the value that
the write to shifts[-1] leaves.

## Where code and documents disagree

Shown by the violation runs:

1. km.c:60: with two keys for a modifier, releases drop the wrong entry
   of the array, and shift may stay in effect with every key up (two_shifts).
2. kl.c:107-127: a key without a character ends a Compose sequence in kl.c and not in
   dk.c; the next sequence goes on from there (compose_stale).

3. kr.c:295: a window known by its title is overlaid on whatever the table
   has; between two such windows the first one's bindings stay (remap_leak).
4. kr.c:243: the whole title of a window is hashed, and only sections of this checksum are
   compared with its beginning. A section for a part of a title, which example.txt:167
   describes ("An application could also be specified by title fragment"), is not
   found; for a beginning of a title, only when checksums collide (title_fragment).

Met in Layouts, and against a document (example.txt:94, "Shift-Capslock to previous"):
lm.c:103, the test that the index went below the first locale is the wrong way round, so
that the previous layout of any but the first is the element past the end of the array,
and of the first the one at -1; Prev_locale of Layouts does the same.

Met in Layouts, and against a document (example.txt:141, "Keys could be
remapped for a specific language only"): kl.c:598, a language without bindings
keeps the table of the one before, which is why TableOfSelected leaves such
languages out. The same state is reached at start when the language of the
shortcuts is not the selected one: KL_define_vks (kl.c:643) compiles it into
the table in use, over the overlay too.

Met in Layouts, without a run of their own, because no document promises
otherwise: a window that has not answered an earlier request when it is activated, and
still has the selected language, is asked for nothing and then changes (eh.c:27, os.c:64;
Late in WindowFollows; the comment at eh.c:13 says what the handler is for); the next layout drops the bindings of the window in front while
KR_id still says that they are there, so that kr_on_pt does not bring them
back; kr_off does nothing in a window known by its title, whose bindings
KR_resume writes again in full (kr.c:297); turning the hook on does not look up
the title of the window in front; until the first foreground event a selected
layout is posted to HWND 0, that is, to nobody; a shortcut language without
bindings is a NULL pointer (kl.c:642), which LayoutsAssumption excludes.

Met in DKTree, and against a document (example.txt:45, "Another starts with a <dead_...>,
which means a !dead_... key"): dk.c:325, keys of sequences are the action of the first name
of a dead key, and a binding calls the action with the index of the name it is given
(KA_name_to_id); a key bound to an alias such as dead_perispomeni (keysymdef.h:385) starts no
sequence. NamesKeep says of each meaning that it stays, not that they are one. Without a document: a name that is not known is the key of character 0, so that all
sequences with unknown names meet in it; a line without a string gets the
character of the line before (dk.c:682); dead keys after the 31st have no action,
while 52 names are shipped; a second key symbol file overflows DK_dks (dk.c:308).

Met in Config:

* parse.c:336: a binding that is an identifier is taken for the name of a virtual
  key first, and an unknown name is virtual key 0: `qA: qB` and `X: sc01E` bind a key to
  nothing, and the branches for scancodes (parse.c:338, kl.c:407) are not reached.
  The exchange of keys for a language in example.txt:142-148 does not work.
* parse.c:576: in the section of an application `=` remaps a key; the
  sections of example.txt:157-175 use `:`, which read_bind takes for a key line.
  It goes to the selected levels of all languages, or to none.
* kr.c:243: titles are hashed in their case and compared in any case, so that a title in
  another case is found only when the checksums happen to agree.
* parse.c:373: before the first `levels:` of a file no level is selected and key lines do
  nothing, although example.txt:96 says that bindings "would be duplicated" to all levels then.
* kl.c:501-533: KL_mods_vks is written under the layout of the language of reference,
  and again by KL_define_vks under the one of the start (kl.c:626), where virtual keys
  may be on other keys; ShortcutsOfReference leaves those out. Comma and period,
  which the comment (kl.c:655) lists, are not in the list.
* kr.c:136: the element after the sorted pairs is not set; when it happens to hold the
  last checksum, the titles with it are not found (IsLast in RangesHold and NameFound).
* kl.c:464: a fifth language gets a table that is not zeroed; kr.c:81: a 21st
  application moves the array that titles point into (KlcsSize, AppsSize).
* kl.c:429: a scancode of 64 or more writes to the next levels.
* parse.c:359: a line `vk20: ...` binds the scancode 0, which the getter leaves when it reads none.
* `lang: 0` cannot select all languages again (parse.c:449); KR_app is not reset between
  files, so that remap lines of a file may go to the last section of another.

Met in Session, and against a document (example.txt:36-41, which has Compose files
looked for in "<User folder>\qwkeymap" first): main.c:129-139 reads the default ones from
the program's directory only. Without a document:

* A restart starts the new process first (main.c:232): it may read its hotkey lines while
  the old one still has the combinations, and is then without them. A process that cannot
  be started is not noticed, and the program ends.
* Hotkeys pressed while the menu or a dialog is open are dropped (main.c:37 is the only
  place that looks at them).
* For a combination given twice the first line holds (hk.c:38, Windows refuses the
  second), and for keys the last one.
* parse.c:699: parse_failed_lines is freed for every file and keeps its address and its
  length; a second file with lines that are not recognized writes to freed memory, a
  third one frees it again.
* A line `nodefault Compose` or `nodefault keysymdef.h` is obeyed and reported as
  not recognized.
* The default file of a language is read after the user's config.txt and overrides its
  `lang:` section (main.c:211).
* parse.c:624, 634: the copy of the name of a key symbol or Compose file does not go on once
  255 characters are stored; a longer name is read for ever (ReadLongName, NamesFit in Settles).
* The check mark of the menu is set when the menu is made and when it is used
  (ui.c:69, 79), and not when a hotkey or a key turns the hook on or off.
* A new taskbar has no icon, and without it no menu; KL_active is set also when
  SetWindowsHookEx fails; a WM_CLOSE that is posted, not sent, is never dispatched.

Met in Text:

* freadline.c:38: the line that is too long is read again after going back by what was
  read, which in a text file with CR LF is one byte too few when the buffer ends between a
  line's text and its end; its first character is lost then (excluded in FilesReadByLine).
* parse.c:323: `X: =` at the end of a line takes the end of the line for the
  character, and the next line is not read (IsOpenEnded in ConfigReadByLine); at the end
  of the file it goes past it.
* parse.c:291: characters of four bytes are not read: the test compares other bits.

Met in Hook:

* km.c:63: a shift key released while the modifier is locked or latched is not
  removed from the count; unlocked, the modifier stays in effect.
* km.c:24: the release of any key ends an armed latch, also of one pressed
  before the latch: "'shifts' only the next key" (example.txt:118) then does not
  hold.
* km.c:32: 256 releases under a held latch count as none.
* kl.c:364: an altered key that must not have shift sends the left shift up
  and down, also when it is the right one that is held.
* kl.c:205: modifier keys do not count as received, so that a task switch after
  only a shift key forgets that it is held, and leaves a faked left shift down.
* kl.c:326: the release of a dead key sets KL_dk_in_effect again after a sequence
  of dead keys only has ended.
* km.c:109: lock_sc is never assigned, so that a lock key that repeats toggles, against
  example.txt:115 ("until pressed again").
* A key bound to different virtual keys at two levels, pressed at one and
  released at the other, stays down in Windows.
* kl.c:157: LControl and RControl are one key for the hook; releasing either
  ends control.

## Not modelled

* KN: the names of keys, constant tables with linear searches; which name is which key is a
  constant of Config. (KN_sc_to_str, kn.c:269, loops over the length of another table; it
  is used for printing.)
* Joining of strings and paths (str.c), and the wrappers of os.c but starting a process and
  asking a window for a layout: single calls without state.
* The thread of UI_spawn (it gets no messages), printing of hotkeys (HK_to_s) and all
  other printing.
* The actions dim_screen, close_window and toggle_on_top call Windows and change
  nothing here; in Session they are the action "other".
* keybd_event and SendInput are modelled as immediate, in order.
* Shell_NotifyIcon is assumed not to fail when it changes an icon that is there (NIM_MODIFY,
  in KL_toggle of Session).
* The data of keysymdef.h, Compose files and the shipped layouts.

## What is left to prove

Boards with two keys for a modifier, none of which is released while the other is
down: the properties of HomeRow under a hypothesis about what is held, instead of one
about the board. (With a release while the other is down they are false: two_shifts.)
