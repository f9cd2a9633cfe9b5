------------------------------ MODULE MCSession ------------------------------
(***************************************************************************)
(* An instance of Session: two languages, a table of hotkeys with two      *)
(* elements to use, and configurations with and without the files, with    *)
(* lines that are not recognized in several of them.                       *)
(***************************************************************************)
EXTENDS SessionProps

HotkeyLine(combo, ka) == [kind |-> "hotkey", combo |-> combo, ka |-> ka]
BindLine(cell) == [kind |-> "bind", cell |-> cell]
NodefaultLine(what) == [kind |-> "nodefault", what |-> what]
TableLine(what) == [kind |-> "table", what |-> what, fits |-> TRUE]
LongTableLine(what) == [TableLine(what) EXCEPT !.fits = FALSE]
Bad == [kind |-> "unknown"]

MCLocales == <<"en", "ru">>

MCArgs == <<Bad, BindLine("sc1.1")>>

Shipped == [f \in {<<"default", "main">>, <<"default", "ru">>} |->
              IF f[2] = "main"
              THEN <<BindLine("sc1.1"), BindLine("sc2.1"), HotkeyLine("@a", "toggle")>>
              ELSE <<BindLine("sc2.1")>>]

With(files, f, lines) == [g \in DOMAIN files \cup {f} |-> IF g = f THEN lines ELSE files[g]]

\* Nothing of the user's, with and without the example.
Fresh == With(Shipped, Example, <<HotkeyLine("@a", "restart"), HotkeyLine("@c", "toggle")>>)

\* More hotkeys than the table has elements, one combination twice, one that is taken.
Hotkeys == With(With(Shipped, <<"user", "main">>,
                     <<HotkeyLine("@a", "restart"), HotkeyLine("@b", "toggle"),
                       HotkeyLine("@c", "other")>>),
                <<"user", "ru">>, <<BindLine("sc2.1"), HotkeyLine("@c", "toggle")>>)

\* Lines that are not recognized in each of the user's files.
Faulty == With(With(With(Shipped, <<"user", "main">>,
                         <<Bad, BindLine("sc1.1"), NodefaultLine("Compose")>>),
                    <<"user", "en">>, <<BindLine("sc1.1")>>),
               <<"user", "ru">>, <<NodefaultLine("main"), Bad>>)

\* The user's own tables instead of the default ones, and no default file.
OwnTables == With(Shipped, <<"user", "main">>,
                  <<NodefaultLine("keysymdef.h"), NodefaultLine("main"), TableLine("keysymdef.h"),
                    TableLine("Compose"), HotkeyLine("@a", "toggle")>>)

\* A key symbol file whose name is too long.
LongName == With(Shipped, <<"user", "main">>,
                 <<HotkeyLine("@a", "restart"), LongTableLine("keysymdef.h")>>)

MCDisks == {Shipped, Fresh, Hotkeys, Faulty, OwnTables, LongName}
===============================================================================
