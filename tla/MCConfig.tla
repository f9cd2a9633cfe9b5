------------------------------- MODULE MCConfig -------------------------------
(***************************************************************************)
(* An instance of Config: an English and a German layout, which exchange   *)
(* two keys and of which one lacks a character, three names of which two   *)
(* have one checksum, and lines that bind, rebind and select.              *)
(***************************************************************************)
EXTENDS ConfigProps, TLC

Vk(code, mods) == [type |-> "vk", code |-> code, mods |-> mods]

MCsc_to_vk ==
  [l \in Langs |->
     [sc \in Keys |-> CASE sc = "sc3" -> "C"
                       [] sc = "sc1" -> IF l = "en" THEN "Y" ELSE "Z"
                       [] OTHER -> IF l = "en" THEN "Z" ELSE "Y"]]

MCVkKeyScan ==
  [l \in Langs |->
     [ch \in Chars |->
        CASE ch = "c" -> Vk("C", {})
          [] ch = "C" -> Vk("C", {"shift"})
          [] ch = "y" -> Vk("Y", {})
          [] OTHER    -> IF l = "en" THEN NoKey ELSE Vk("Z", {"control", "alt"})]]

MCKN_name_to_vk == [n \in {"left", "qY"} |-> IF n = "left" THEN "LEFT" ELSE NoVk]

Char(ch) == [type |-> "char", code |-> ch]
Key(name) == [type |-> "name", code |-> name]
Act(name) == [type |-> "ka", code |-> name]

Bind(sc, binds) == [kind |-> "bind", sc |-> sc, binds |-> binds]
Level(n) == [kind |-> "level", n |-> n]
Select(ns) == [kind |-> "levels", ns |-> ns]
Section(kind, lang) == [kind |-> kind, lang |-> lang]
Name(kind, str) == [kind |-> kind, str |-> str]
Remap(sc, mods, to) == [sc |-> sc, mods |-> mods, binding |-> to]

KeyLines ==
  {Bind("sc3", <<Char("c"), Char("C")>>), Bind("sc3", <<Char("y")>>), Bind("sc3", <<Key("left"), Act("next")>>),
   Bind("sc1", <<Char("C")>>), Bind("sc1", <<Char("at"), Key("qY")>>), Bind("sc2", <<Act("next"), Char("at")>>),
   Level(1), Level(2), Level(7), Select({1, 2, 3, 4}), Select({1, 2}), Select({2, 3, 9}),
   Section("lang", "en"), Section("lang", "de"), Section("vks_lang", "en"), [kind |-> "file"]}

Exchange == [kind |-> "remap", binds |-> <<Remap("sc1", "sc", "sc2"), Remap("sc2", "sc", "sc1")>>]

NameLines ==
  {Name("title", "game"), Name("title", "games"), Name("title", "other"), Name("class", "game"),
   Name("class", "zzz"), Exchange}

MCLines == KeyLines \cup NameLines

MCStartsWith == {<<s, s>> : s \in Strs} \cup {<<"games", "game">>, <<"other", "game">>}

MCHasPart == MCStartsWith \cup {<<"Games: No Options Game v1.0", "No Options Game">>}

MCSum == [s \in Strs |-> CASE s = "game" -> 0 [] s = "games" -> 4 [] s = "other" -> 1 [] OTHER -> 2]

\* The section and the window of config/example.txt:167-171, with their checksums.
FragmentLines == {Name("title", "No Options Game"), Exchange}

FragmentSum ==
  [s \in Strs |-> IF s = "No Options Game" THEN 2147482471 ELSE 2147481489]
===============================================================================
