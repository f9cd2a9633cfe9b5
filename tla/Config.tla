-------------------------------- MODULE Config --------------------------------
(***************************************************************************)
(* From configuration files to tables: the statements of parse.c, the      *)
(* tables of languages that they write and that are compiled when a        *)
(* language is first activated (kl.c), and the lists of window titles and  *)
(* classes that are hashed at start (kr.c).                                *)
(*                                                                         *)
(* A line is what its reader takes from it; lines that are not recognized  *)
(* are left out.  A binding is read as [type, code]: a character, a        *)
(* virtual key, the name of a key, a key action.  In a table it has        *)
(* modifiers too.  What Windows knows of a language's layout is constant.  *)
(***************************************************************************)
EXTENDS Integers, Sequences, SequencesExt, FiniteSets

CONSTANTS
  KLVN,             \* number of levels
  Keys,             \* scancodes below KPN
  Langs, Neutral,   \* languages, LANG_NEUTRAL
  Vks, Chars, Actions, NoVk,  \* virtual keys, characters, key actions; vk 0
  KN_name_to_vk,    \* [names of keys -> virtual key], NoVk if it has none
  sc_to_vk,         \* MapVirtualKey: [language -> [Keys -> Vks]]
  VkKeyScan,        \* [language -> [Chars -> key that types it]]
  NoKey,            \* the layout has no key for a character
  DefinedVks,       \* the virtual keys listed in KL_define_vks
  Lines,            \* lines of configuration files
  Strs,             \* titles and classes of windows
  StartsWith,       \* pairs of Strs, none empty: the first starts with the second
  Sum, SumLen,      \* [Strs -> checksum], KR_hash_table_len
  Garbage,          \* what the element after the sorted pairs may hold
  KlcsSize,         \* size of KL_klcs; the program does not zero what it adds
  AppsSize,         \* size of KR_apps; titles point into it, it moves past it
  MaxLines          \* bound: lines read

Levels == 0 .. KLVN - 1
Cells == Levels \X Keys
Sums == 0 .. SumLen - 1
Shifted(lv) == IF lv % 2 = 1 THEN {"shift"} ELSE {}

VkBinding == [type : {"vk"}, code : Vks \cup {NoVk}, mods : SUBSET {"shift", "control", "alt"}]
Binding == VkBinding \cup [type : {"char"}, code : Chars, mods : {{}}]
                     \cup [type : {"ka"}, code : Actions, mods : {{}}]
Inactive == [type |-> "none", code |-> NoVk, mods |-> {}]
KLY == [Cells -> Binding \cup {Inactive}]

Tokens == [type : {"char"}, code : Chars] \cup [type : {"vk"}, code : Vks]
          \cup [type : {"name"}, code : DOMAIN KN_name_to_vk]
          \cup [type : {"ka"}, code : Actions]

BindLines == [kind : {"bind"}, sc : Keys, binds : Seq(Tokens)]
KrBind == [sc : Keys, mods : {"sc", "ka", "vk"}, binding : Keys \cup Actions \cup Vks]

ASSUME ConfigAssumption ==
  /\ KLVN \in Nat \ {0} /\ Neutral \notin Langs /\ NoVk \notin Vks
  /\ KN_name_to_vk \in [DOMAIN KN_name_to_vk -> Vks \cup {NoVk}]
  /\ sc_to_vk \in [Langs -> [Keys -> Vks]]
  /\ \A l \in Langs, i, j \in Keys :
       sc_to_vk[l][i] = sc_to_vk[l][j] /\ sc_to_vk[l][i] \in DefinedVks => i = j
  /\ VkKeyScan \in [Langs -> [Chars -> VkBinding \cup {NoKey}]]
  /\ NoKey \notin VkBinding
  /\ \A line \in Lines :
       \/ line \in BindLines /\ line.binds # <<>>
       \/ line.kind = "level" /\ line.n \in Nat
       \/ line.kind = "levels" /\ line.ns \subseteq Nat
       \/ line.kind \in {"lang", "vks_lang"} /\ line.lang \in Langs
       \/ line.kind \in {"title", "class"} /\ line.str \in Strs
       \/ line.kind = "remap" /\ line.binds \in Seq(KrBind)
       \/ line.kind = "file"
  /\ SumLen \in Nat \ {0} /\ Sum \in [Strs -> Nat]
  /\ \A str \in Strs : <<str, str>> \in StartsWith

VARIABLES
  Bind_lvls, Bind_sole_lvl,  \* selected levels; by a level: line, not levels:
  KL_klcs,                   \* sequence of [lang, vks_lang, compiled, kly]
  KL_bind_kly,               \* the index in KL_klcs of the table being written
  KL_vks_lang, KL_mods_vks,  \* language and table of shortcuts
  KR_apps, KR_app,           \* sequence of bindings of applications; the last's index
  KR_titles, KR_wndcs,       \* sequences of [str, app]
  KR_titles_hash_pairs, KR_wndcs_hash_pairs,  \* [sum -> [one, two]]
  selected,                  \* the language Windows has at start; Neutral before it
  lines                      \* lines read

klVars == <<Bind_lvls, Bind_sole_lvl, KL_klcs, KL_bind_kly, KL_vks_lang>>
krVars == <<KR_apps, KR_app, KR_titles, KR_wndcs>>
readVars == <<klVars, krVars>>
startVars == <<KL_mods_vks, KR_titles_hash_pairs, KR_wndcs_hash_pairs, selected>>
vars == <<readVars, startVars, lines>>

-----------------------------------------------------------------------------
\* Statements.

\* A name is taken for one of a virtual key, whatever else it names.
read_binding(token) ==
  IF token.type = "name" THEN [type |-> "vk", code |-> KN_name_to_vk[token.code]]
  ELSE token

\* What KL_bind writes at a level: shift is added at even levels, counted from 1.
LK(bind, lv) == [type |-> bind.type, code |-> bind.code,
                 mods |-> IF bind.type = "vk" THEN Shifted(lv) ELSE {}]

FirstLevel == CHOOSE lv \in Bind_lvls : \A l \in Bind_lvls : lv <= l

\* The levels that a bind line writes: after level:, its shifted partner too.
BoundLevels ==
  IF Bind_sole_lvl /\ Bind_lvls # {}
  THEN {FirstLevel} \cup {lv \in Levels : lv = FirstLevel + 1 /\ lv % 2 = 1}
  ELSE Bind_lvls

\* Mutant of BindingAt: the bindings of a line are not started over.
BindingAt_NotCycled(binds, lv) ==
  LET before == Cardinality({l \in BoundLevels : l < lv})
  IN binds[IF before < Len(binds) THEN before + 1 ELSE Len(binds)]

\* The selected levels get the bindings of a line in turn, over and over.
BindingAt(binds, lv) ==
  LET before == Cardinality({l \in BoundLevels : l < lv})
  IN binds[(before % Len(binds)) + 1]

Reading(line, kind) ==
  /\ selected = Neutral /\ lines < MaxLines /\ line.kind = kind
  /\ lines' = lines + 1 /\ UNCHANGED startVars

read_bind(line) ==
  /\ Reading(line, "bind")
  /\ KL_klcs' = [KL_klcs EXCEPT ![KL_bind_kly].kly =
       [c \in Cells |-> IF c[1] \in BoundLevels /\ c[2] = line.sc
                        THEN LK(read_binding(BindingAt(line.binds, c[1])), c[1])
                        ELSE @[c]]]
  /\ UNCHANGED <<Bind_lvls, Bind_sole_lvl, KL_bind_kly, KL_vks_lang, krVars>>

\* Levels are counted from 1 in files; a line without a valid one changes nothing.
SelectLevels(lvls, sole) ==
  /\ IF lvls \cap Levels = {} THEN UNCHANGED <<Bind_lvls, Bind_sole_lvl>>
     ELSE Bind_lvls' = lvls \cap Levels /\ Bind_sole_lvl' = sole
  /\ UNCHANGED <<KL_klcs, KL_bind_kly, KL_vks_lang, krVars>>

read_levs(line) ==
  \/ Reading(line, "level") /\ SelectLevels({line.n - 1}, TRUE)
  \/ Reading(line, "levels") /\ SelectLevels({n - 1 : n \in line.ns}, FALSE)

NewKlc(lang) == [lang |-> lang, vks_lang |-> FALSE, compiled |-> FALSE,
                 kly |-> [c \in Cells |-> Inactive]]

Klc(klcs, lang) == SelectInSeq(klcs, LAMBDA klc : klc.lang = lang)

\* KL_set_bind_lang: a language that is not there is added at the end.
read_lang(line) ==
  LET i == Klc(KL_klcs, line.lang)
  IN /\ Reading(line, "lang")
     /\ i = 0 => Len(KL_klcs) < KlcsSize
     /\ KL_klcs' = IF i = 0 THEN Append(KL_klcs, NewKlc(line.lang)) ELSE KL_klcs
     /\ KL_bind_kly' = IF i = 0 THEN Len(KL_klcs) + 1 ELSE i
     /\ UNCHANGED <<Bind_lvls, Bind_sole_lvl, KL_vks_lang, krVars>>

\* A section of an application: KR_add_app, then KR_set_bind_title or _class.
read_title(line) ==
  LET entry == [str |-> line.str, app |-> Len(KR_apps) + 1]
  IN /\ Reading(line, "title") \/ Reading(line, "class")
     /\ Len(KR_apps) < AppsSize
     /\ KR_apps' = Append(KR_apps, <<>>) /\ KR_app' = Len(KR_apps) + 1
     /\ IF line.kind = "title"
        THEN KR_titles' = Append(KR_titles, entry) /\ UNCHANGED KR_wndcs
        ELSE KR_wndcs' = Append(KR_wndcs, entry) /\ UNCHANGED KR_titles
     /\ UNCHANGED klVars

\* KR_bind, twice for a swap of two keys.
read_remap(line) ==
  /\ Reading(line, "remap")
  /\ KR_apps' = IF KR_app = 0 THEN KR_apps ELSE [KR_apps EXCEPT ![KR_app] = @ \o line.binds]
  /\ UNCHANGED <<klVars, KR_app, KR_titles, KR_wndcs>>

read_vks_lang(line) ==
  /\ Reading(line, "vks_lang") /\ KL_vks_lang' = line.lang
  /\ UNCHANGED <<Bind_lvls, Bind_sole_lvl, KL_klcs, KL_bind_kly, krVars>>

\* parse_str: another file starts with no levels and no language.
parse_str(line) ==
  /\ Reading(line, "file")
  /\ Bind_lvls' = {} /\ KL_bind_kly' = Klc(KL_klcs, Neutral)
  /\ UNCHANGED <<Bind_sole_lvl, KL_klcs, KL_vks_lang, krVars>>

-----------------------------------------------------------------------------
\* Compiling a language's table under its layout.

\* Mutant of Under: the bindings for all languages come before a language's own.
Under_NeutralFirst(own, common) ==
  [c \in Cells |-> IF common[c] # Inactive THEN common[c] ELSE own[c]]

\* A language's bindings where it has some, elsewhere those for all languages.
Under(own, common) ==
  [c \in Cells |-> IF own[c] # Inactive THEN own[c] ELSE common[c]]

\* A character that the layout has becomes its key, or none if that is this key.
Compiled(lang, c, lk) ==
  IF lk.type # "char" \/ VkKeyScan[lang][lk.code] = NoKey THEN lk
  ELSE LET kp == VkKeyScan[lang][lk.code]
       IN IF c[1] <= 1 /\ kp.mods = Shifted(c[1]) /\ kp.code = sc_to_vk[lang][c[2]]
          THEN Inactive ELSE kp

\* The state that compiling changes; lang # Neutral.  For the language of the
\* shortcuts a character at the first level makes its key a shortcut.
KL_compile_klc(s, i) ==
  LET klc == s.klcs[i]
      raw == Under(klc.kly, s.klcs[Klc(s.klcs, Neutral)].kly)
      kly == [c \in Cells |-> Compiled(klc.lang, c, raw[c])]
  IN [klcs |-> [s.klcs EXCEPT ![i].kly = kly, ![i].compiled = TRUE],
      vks |-> [sc \in Keys |->
                 IF klc.vks_lang /\ raw[<<0, sc>>].type = "char" /\ kly[<<0, sc>>].type = "vk"
                 THEN kly[<<0, sc>>].code ELSE s.vks[sc]]]

\* KL_activate_lang, as far as it compiles; a language without a table is left.
Activated(s, lang) ==
  LET i == Klc(s.klcs, lang)
  IN IF i = 0 \/ lang = Neutral THEN s
     ELSE IF s.klcs[i].compiled THEN s ELSE KL_compile_klc(s, i)

\* Mutant of KL_define_one_vk: any binding counts.
KL_define_one_vk_AnyMods(kly, layout, sc) ==
  IF kly[<<0, sc>>] # Inactive THEN kly[<<0, sc>>].code ELSE sc_to_vk[layout][sc]

\* KL_define_one_vk for every listed key; where a key is, the layout says that
\* Windows has for the program's thread.
KL_define_one_vk(kly, layout, sc) ==
  IF kly[<<0, sc>>].type = "vk" /\ kly[<<0, sc>>].mods = {} THEN kly[<<0, sc>>].code
  ELSE sc_to_vk[layout][sc]

\* Mutant of KL_define_vks: the table is read before it is compiled.
KL_define_vks_Raw(s, lang, layout) ==
  LET i == Klc(s.klcs, lang)
      kly == s.klcs[i].kly
      t == Activated([s EXCEPT !.klcs[i].vks_lang = TRUE], lang)
  IN [t EXCEPT !.vks = [sc \in Keys |-> IF sc_to_vk[layout][sc] \in DefinedVks
                                        THEN KL_define_one_vk(kly, layout, sc) ELSE @[sc]]]

KL_define_vks(s, lang, layout) ==
  LET i == Klc(s.klcs, lang)
      t == Activated([s EXCEPT !.klcs[i].vks_lang = TRUE], lang)
      kly == t.klcs[i].kly
  IN [t EXCEPT !.vks = [sc \in Keys |-> IF sc_to_vk[layout][sc] \in DefinedVks
                                        THEN KL_define_one_vk(kly, layout, sc) ELSE @[sc]]]

-----------------------------------------------------------------------------
\* Hashing titles and classes: the same code twice.

KR_str_checksum(str) == Sum[str] % SumLen

\* What qsort may leave: it keeps no order of elements with equal checksums.
SortedBySum(entries) ==
  {s \in [1 .. Len(entries) -> {entries[i] : i \in 1 .. Len(entries)}] :
     /\ \A e \in {entries[i] : i \in 1 .. Len(entries)} :
          Cardinality({i \in DOMAIN s : s[i] = e}) =
          Cardinality({i \in DOMAIN s : entries[i] = e})
     /\ \A i, j \in DOMAIN s :
          i < j => KR_str_checksum(s[i].str) <= KR_str_checksum(s[j].str)}

NoPairs == [h \in Sums |-> [one |-> 0, two |-> 0]]

\* Mutant of HashPairs: a range ends past its last element.
HashPairs_OnePast(sums) ==
  LET step(acc, i) ==
        IF i = 1 THEN [acc EXCEPT !.sum0 = sums[1]]
        ELSE IF sums[i] = acc.sum0 THEN acc
        ELSE [sum0 |-> sums[i], i1 |-> i - 1,
              pairs |-> [acc.pairs EXCEPT ![acc.sum0] = [one |-> acc.i1 + 1, two |-> i - 1]]]
  IN FoldLeftDomain(step, [sum0 |-> 0, i1 |-> 0, pairs |-> NoPairs], sums).pairs

\* The range of each checksum, as C indices, the first plus 1.  It is written when
\* the next checksum is met: after the last one, what the memory holds there.
HashPairs(sums) ==
  LET step(acc, i) ==
        IF i = 1 THEN [acc EXCEPT !.sum0 = sums[1]]
        ELSE IF sums[i] = acc.sum0 THEN acc
        ELSE [sum0 |-> sums[i], i1 |-> i - 1,
              pairs |-> [acc.pairs EXCEPT ![acc.sum0] = [one |-> acc.i1 + 1, two |-> i - 2]]]
  IN FoldLeftDomain(step, [sum0 |-> 0, i1 |-> 0, pairs |-> NoPairs], sums).pairs

KR_hash(entries, past) ==
  HashPairs(Append([i \in DOMAIN entries |-> KR_str_checksum(entries[i].str)], past))

\* Mutant of NameToApp: the last of the range is not looked at.
NameToApp_BeforeLast(entries, pairs, str) ==
  LET range == pairs[KR_str_checksum(str)]
      found == {i \in range.one .. range.two : <<str, entries[i].str>> \in StartsWith}
  IN IF range.one = 0 \/ found = {} THEN 0
     ELSE entries[CHOOSE i \in found : \A j \in found : i <= j].app

\* KR_hwnd_to_app, KR_wndcls_to_app: the first match in the range of the checksum.
NameToApp(entries, pairs, str) ==
  LET range == pairs[KR_str_checksum(str)]
      found == {i \in range.one .. range.two + 1 : <<str, entries[i].str>> \in StartsWith}
  IN IF range.one = 0 \/ found = {} THEN 0
     ELSE entries[CHOOSE i \in found : \A j \in found : i <= j].app

-----------------------------------------------------------------------------
\* The program.

Init ==
  /\ Bind_lvls = {} /\ Bind_sole_lvl = FALSE
  /\ KL_klcs = <<NewKlc(Neutral)>> /\ KL_bind_kly = 1 /\ KL_vks_lang = Neutral
  /\ KL_mods_vks = [sc \in Keys |-> NoVk]
  /\ KR_apps = <<>> /\ KR_app = 0 /\ KR_titles = <<>> /\ KR_wndcs = <<>>
  /\ KR_titles_hash_pairs = NoPairs /\ KR_wndcs_hash_pairs = NoPairs
  /\ selected = Neutral /\ lines = 0

\* main() once the files are read.  The language of the shortcuts needs a table.
Start(lang) ==
  /\ selected = Neutral /\ selected' = lang
  /\ Klc(KL_klcs, KL_vks_lang) # 0
  /\ LET s == KL_define_vks(Activated([klcs |-> KL_klcs, vks |-> KL_mods_vks], lang),
                            KL_vks_lang, lang)
     IN KL_klcs' = s.klcs /\ KL_mods_vks' = s.vks
  /\ KR_titles' \in SortedBySum(KR_titles)
  /\ KR_wndcs' \in SortedBySum(KR_wndcs)
  /\ \E past \in Garbage : KR_titles_hash_pairs' = KR_hash(KR_titles', past)
  /\ \E past \in Garbage : KR_wndcs_hash_pairs' = KR_hash(KR_wndcs', past)
  /\ UNCHANGED <<Bind_lvls, Bind_sole_lvl, KL_bind_kly, KL_vks_lang, KR_apps, KR_app, lines>>

\* A language is selected later on.
KL_activate_lang(lang) ==
  /\ selected # Neutral
  /\ LET s == Activated([klcs |-> KL_klcs, vks |-> KL_mods_vks], lang)
     IN KL_klcs' = s.klcs /\ KL_mods_vks' = s.vks
  /\ UNCHANGED <<Bind_lvls, Bind_sole_lvl, KL_bind_kly, KL_vks_lang, krVars,
                 KR_titles_hash_pairs, KR_wndcs_hash_pairs, selected, lines>>

Next ==
  \/ \E line \in Lines :
       \/ read_bind(line) \/ read_levs(line) \/ read_lang(line) \/ read_title(line)
       \/ read_remap(line) \/ read_vks_lang(line) \/ parse_str(line)
  \/ \E lang \in Langs : Start(lang) \/ KL_activate_lang(lang)

Spec == Init /\ [][Next]_vars
===============================================================================
