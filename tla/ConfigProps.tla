----------------------------- MODULE ConfigProps -----------------------------
(***************************************************************************)
(* The correctness properties of Config.                                   *)
(***************************************************************************)
EXTENDS Config

CONSTANT HasPart  \* pairs of Strs: the first has the second as a part

ASSUME HasPartAssumption == StartsWith \subseteq HasPart

Klcs == [lang : Langs \cup {Neutral}, vks_lang : BOOLEAN, compiled : BOOLEAN, kly : KLY]
Entries == [str : Strs, app : Nat \ {0}]

\* Each variable stays in its range (the tables of kl.c and kr.c).
TypeOK ==
  /\ Bind_lvls \subseteq Levels /\ Bind_sole_lvl \in BOOLEAN
  /\ KL_klcs \in Seq(Klcs) /\ KL_bind_kly \in DOMAIN KL_klcs
  /\ KL_vks_lang \in Langs \cup {Neutral}
  /\ KL_mods_vks \in [Keys -> Vks \cup {NoVk}]
  /\ KR_apps \in Seq(Seq(KrBind)) /\ KR_app \in 0 .. Len(KR_apps)
  /\ KR_titles \in Seq(Entries) /\ KR_wndcs \in Seq(Entries)
  /\ selected \in Langs \cup {Neutral} /\ lines \in Nat

-----------------------------------------------------------------------------
\* What a key does at a level in a language, as far as the tables say.

\* What the hook does with a binding: without one, at the first two levels, the key
\* itself; a character that the layout has is as good as the key that types it.
Does(lang, c, lk) ==
  IF lk.type = "none" /\ c[1] <= 1
  THEN [type |-> "vk", code |-> sc_to_vk[lang][c[2]], mods |-> Shifted(c[1])]
  ELSE IF lk.type = "char" /\ VkKeyScan[lang][lk.code] # NoKey
  THEN VkKeyScan[lang][lk.code]
  ELSE lk

\* What the language with index i has in a cell: once compiled, what its table says;
\* before, its own binding or else the one for all languages.
Entry(i, c) ==
  LET own == KL_klcs[i].kly[c]
  IN IF KL_klcs[i].compiled \/ own # Inactive THEN own
     ELSE KL_klcs[Klc(KL_klcs, Neutral)].kly[c]

Says(i, c) == Does(KL_klcs[i].lang, c, Entry(i, c))

LangsRead == {i \in DOMAIN KL_klcs : KL_klcs[i].lang # Neutral}

\* What a key does at a level in a language changes when a line binds that key, at
\* that level, in that language or in all, and never otherwise: another line does
\* not touch it, and compiling a table, whenever that happens, gives what was read
\* (kl.c:401-611, parse.c:354-407).
MeaningIsRead ==
  [][\A i \in LangsRead, c \in Cells :
       \/ Says(i, c)' = Says(i, c)
       \/ \E line \in Lines :
            /\ read_bind(line)
            /\ c[2] = line.sc /\ c[1] \in BoundLevels
            /\ KL_klcs[KL_bind_kly].lang \in {KL_klcs[i].lang, Neutral}]_vars

\* Without choosing a pair of levels, the first of two bindings "would be duplicated
\* to 3th and 5th", the second "to 4th and 6th levels" (config/example.txt:96-97):
\* while the levels bound are pairs, all or some, the first is for the plain and the
\* second for the shifted levels (parse.c:372-402).
PairsAlternate ==
  [][\A line \in Lines :
       /\ read_bind(line) /\ Len(line.binds) = 2
       /\ \A lv \in Levels : lv \in BoundLevels <=> (lv - (lv % 2)) \in BoundLevels
       => \A lv \in BoundLevels :
            KL_klcs[KL_bind_kly].kly'[<<lv, line.sc>>] =
              LK(read_binding(line.binds[1 + (lv % 2)]), lv)]_vars

\* A shortcut is what its key means in the language of reference, at the first level:
\* "One language, however, needs to be the reference" (config/example.txt:133).  This
\* holds for the listed keys that are where they are in the language selected at
\* start, compiled before or after (kl.c:501-505, 626-660).
ShortcutsOfReference ==
  selected # Neutral /\ KL_vks_lang # Neutral =>
    \A sc \in Keys :
      sc_to_vk[selected][sc] = sc_to_vk[KL_vks_lang][sc]
        /\ sc_to_vk[selected][sc] \in DefinedVks =>
      LET means == Says(Klc(KL_klcs, KL_vks_lang), <<0, sc>>)
      IN KL_mods_vks[sc] = IF means.type = "vk" /\ means.mods = {} THEN means.code
                           ELSE sc_to_vk[selected][sc]

-----------------------------------------------------------------------------
\* Titles and classes.

Tables == {<<KR_titles, KR_titles_hash_pairs>>, <<KR_wndcs, KR_wndcs_hash_pairs>>}

WithSum(entries, h) == {i \in DOMAIN entries : KR_str_checksum(entries[i].str) = h}

\* Is h the greatest checksum?  Its range is written only if the memory after the
\* sorted pairs does not happen to hold the same (kr.c:136, 180).
IsLast(entries, h) == \A i \in DOMAIN entries : KR_str_checksum(entries[i].str) <= h

\* The range of a checksum is where its names are, and no other (kr.c:109-147, 153-191).
RangesHold ==
  selected # Neutral =>
    \A t \in Tables, h \in Sums :
      LET range == t[2][h]
      IN IF range.one = 0 THEN WithSum(t[1], h) = {} \/ IsLast(t[1], h)
         ELSE range.one .. range.two + 1 = WithSum(t[1], h)

\* A window gets the bindings of no section whose name it does not begin with.  And a
\* window with the very name of a section gets those of one, wherever the sorting put
\* it among the others, unless the checksum of its name is the greatest (kr.c:235-273).
NameFound ==
  selected # Neutral =>
    \A t \in Tables, str \in Strs :
      LET app == NameToApp(t[1], t[2], str)
      IN /\ app # 0 =>
              \E i \in DOMAIN t[1] : t[1][i].app = app /\ <<str, t[1][i].str>> \in StartsWith
         /\ app = 0 /\ ~IsLast(t[1], KR_str_checksum(str)) =>
              \A i \in DOMAIN t[1] : t[1][i].str # str

-----------------------------------------------------------------------------
\* What the documents say and the code does not do.

\* "An application could also be specified by title fragment"
\* (config/example.txt:167): a window whose title has that of a section as a part
\* gets the bindings of a section.
FoundByFragment ==
  selected # Neutral =>
    \A str \in Strs :
      (\E i \in DOMAIN KR_titles : <<str, KR_titles[i].str>> \in HasPart) =>
        NameToApp(KR_titles, KR_titles_hash_pairs, str) # 0
==============================================================================
