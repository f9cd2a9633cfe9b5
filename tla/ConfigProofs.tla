---------------------------- MODULE ConfigProofs ----------------------------
(***************************************************************************)
(* Proofs about Config: its type invariant, that a key keeps its meaning   *)
(* while tables are compiled, how the bindings of a line go to levels,     *)
(* what a shortcut is, and that hashed names are found, for any layouts,   *)
(* lines and checksums.                                                    *)
(***************************************************************************)
EXTENDS ConfigProps, FoldingProofs, FiniteSetTheorems

-----------------------------------------------------------------------------
\* The tables of languages.

LangsDistinct(klcs) == \A i, j \in DOMAIN klcs : klcs[i].lang = klcs[j].lang => i = j

\* The table of LANG_NEUTRAL is the first, and is not compiled.
NeutralFirst(klcs) == 1 \in DOMAIN klcs /\ klcs[1].lang = Neutral /\ ~klcs[1].compiled

\* A compiled table has no character that the layout has a key for.
NoCharLeft(klcs) ==
  \A i \in DOMAIN klcs, c \in Cells :
    klcs[i].compiled /\ klcs[i].kly[c].type = "char" =>
      VkKeyScan[klcs[i].lang][klcs[i].kly[c].code] = NoKey

WellTabled(klcs) ==
  klcs \in Seq(Klcs) /\ LangsDistinct(klcs) /\ NeutralFirst(klcs) /\ NoCharLeft(klcs)

\* Nothing is compiled before a language is selected.
NothingCompiled ==
  selected = Neutral =>
    \A i \in DOMAIN KL_klcs : ~KL_klcs[i].compiled /\ ~KL_klcs[i].vks_lang

\* Of the language of the shortcuts, the table is compiled from the start.
ReferenceCompiled ==
  /\ \A i \in DOMAIN KL_klcs : KL_klcs[i].vks_lang => KL_klcs[i].lang = KL_vks_lang
  /\ selected # Neutral /\ KL_vks_lang # Neutral =>
       \E i \in DOMAIN KL_klcs : KL_klcs[i].lang = KL_vks_lang /\ KL_klcs[i].compiled

TInv == TypeOK /\ WellTabled(KL_klcs) /\ NothingCompiled /\ ReferenceCompiled

LEMMA KlcFinds ==
  ASSUME NEW klcs \in Seq(Klcs), NEW lang
  PROVE  \/ Klc(klcs, lang) = 0 /\ \A i \in DOMAIN klcs : klcs[i].lang # lang
         \/ Klc(klcs, lang) \in DOMAIN klcs /\ klcs[Klc(klcs, lang)].lang = lang
<1> DEFINE I == {i \in 1 .. Len(klcs) : klcs[i].lang = lang}
<1>1. Klc(klcs, lang) = IF I # {} THEN Min(I) ELSE 0
  BY DEF Klc, SelectInSeq
<1>2. DOMAIN klcs = 1 .. Len(klcs) /\ I \in SUBSET Nat
  OBVIOUS
<1>3. CASE I = {}
  BY <1>1, <1>2, <1>3
<1>4. CASE I # {}
  <2>1. \E n \in I : \A m \in I : n <= m
    BY <1>2, <1>4, LeastNumber
  <2>2. Min(I) \in I
    BY <2>1 DEF Min
  <2> QED
    BY <1>1, <1>2, <1>4, <2>2
<1> QED
  BY <1>3, <1>4

LEMMA KlcIs ==
  ASSUME NEW klcs, WellTabled(klcs), NEW i \in DOMAIN klcs
  PROVE  Klc(klcs, klcs[i].lang) = i
BY KlcFinds DEF WellTabled, LangsDistinct

LEMMA KlcNeutral ==
  ASSUME NEW klcs, WellTabled(klcs)
  PROVE  1 \in DOMAIN klcs /\ Klc(klcs, Neutral) = 1
BY KlcIs DEF WellTabled, NeutralFirst

LEMMA KlcSame ==
  ASSUME NEW klcs, WellTabled(klcs), NEW new, WellTabled(new), NEW lang,
         DOMAIN new = DOMAIN klcs, \A i \in DOMAIN klcs : new[i].lang = klcs[i].lang
  PROVE  Klc(new, lang) = Klc(klcs, lang)
<1>1. klcs \in Seq(Klcs) /\ new \in Seq(Klcs)
  BY DEF WellTabled
<1>2. \/ Klc(new, lang) = 0 /\ \A i \in DOMAIN new : new[i].lang # lang
      \/ Klc(new, lang) \in DOMAIN new /\ new[Klc(new, lang)].lang = lang
  BY <1>1, KlcFinds
<1>3. \/ Klc(klcs, lang) = 0 /\ \A i \in DOMAIN klcs : klcs[i].lang # lang
      \/ Klc(klcs, lang) \in DOMAIN klcs /\ klcs[Klc(klcs, lang)].lang = lang
  BY <1>1, KlcFinds
<1> QED
  BY <1>2, <1>3 DEF WellTabled, LangsDistinct

\* A sequence with one element replaced.
LEMMA Replaced ==
  ASSUME NEW S, NEW s \in Seq(S), NEW i \in DOMAIN s, NEW e \in S
  PROVE  LET t == [s EXCEPT ![i] = e]
         IN /\ t \in Seq(S) /\ DOMAIN t = DOMAIN s
            /\ \A j \in DOMAIN s : t[j] = IF j = i THEN e ELSE s[j]
OBVIOUS

-----------------------------------------------------------------------------
\* What a key does.

EntryOf(klcs, i, c) ==
  LET own == klcs[i].kly[c]
  IN IF klcs[i].compiled \/ own # Inactive THEN own ELSE klcs[Klc(klcs, Neutral)].kly[c]

SaysOf(klcs, i, c) == Does(klcs[i].lang, c, EntryOf(klcs, i, c))

LEMMA SaysIsOf == \A i, c : Says(i, c) = SaysOf(KL_klcs, i, c)
BY DEF Says, Entry, SaysOf, EntryOf

\* Compiling a binding keeps what it does.
LEMMA DoesCompiled ==
  ASSUME NEW lang \in Langs, NEW c \in Cells, NEW lk \in Binding \cup {Inactive}
  PROVE  /\ Compiled(lang, c, lk) \in Binding \cup {Inactive}
         /\ Does(lang, c, Compiled(lang, c, lk)) = Does(lang, c, lk)
         /\ Compiled(lang, c, lk).type = "char" =>
              VkKeyScan[lang][Compiled(lang, c, lk).code] = NoKey
<1>1. CASE lk.type # "char"
  BY <1>1 DEF Compiled
<1>2. CASE lk.type = "char"
  <2>1. lk.code \in Chars
    BY <1>2 DEF Binding, VkBinding, Inactive
  <2>2. CASE VkKeyScan[lang][lk.code] = NoKey
    BY <2>2 DEF Compiled
  <2>3. CASE VkKeyScan[lang][lk.code] # NoKey
    <3> DEFINE kp == VkKeyScan[lang][lk.code]
    <3>1. kp \in VkBinding
      BY <2>1, <2>3, ConfigAssumption
    <3>2. /\ kp.type = "vk"
          /\ kp = [type |-> "vk", code |-> kp.code, mods |-> kp.mods]
      BY <3>1 DEF VkBinding
    <3>3. Does(lang, c, lk) = kp
      BY <1>2, <2>3 DEF Does
    <3> DEFINE self == c[1] <= 1 /\ kp.mods = Shifted(c[1]) /\ kp.code = sc_to_vk[lang][c[2]]
    <3>4. Compiled(lang, c, lk) = IF self THEN Inactive ELSE kp
      BY <1>2, <2>3 DEF Compiled
    <3> HIDE DEF kp
    <3>5. CASE self
      <4>1. Does(lang, c, Inactive) = kp
        BY <3>2, <3>5 DEF Does, Inactive
      <4> QED
        BY <3>3, <3>4, <3>5, <4>1 DEF Inactive
    <3>6. CASE ~self
      <4>1. Does(lang, c, kp) = kp
        BY <3>2 DEF Does
      <4>2. kp \in Binding \cup {Inactive} /\ kp.type # "char"
        BY <3>1, <3>2 DEF Binding
      <4> HIDE DEF self
      <4> QED
        BY <3>3, <3>4, <3>6, <4>1, <4>2
    <3> QED
      BY <3>5, <3>6
  <2> QED
    BY <2>2, <2>3
<1> QED
  BY <1>1, <1>2

-----------------------------------------------------------------------------
\* Compiling a table, and all that is done at start, keeps what every key does.

TableStates == [klcs : Seq(Klcs), vks : [Keys -> Vks \cup {NoVk}]]

Good(s) == s \in TableStates /\ WellTabled(s.klcs)

Kept(s, t) ==
  /\ DOMAIN t.klcs = DOMAIN s.klcs
  /\ \A i \in DOMAIN s.klcs :
       /\ t.klcs[i].lang = s.klcs[i].lang
       /\ s.klcs[i].compiled => t.klcs[i].compiled
       /\ s.klcs[i].lang # Neutral => \A c \in Cells : SaysOf(t.klcs, i, c) = SaysOf(s.klcs, i, c)

SameFlags(s, t) == \A i \in DOMAIN s.klcs : t.klcs[i].vks_lang = s.klcs[i].vks_lang

LEMMA KeptTwice ==
  ASSUME NEW s, NEW t, NEW u, Kept(s, t), Kept(t, u)
  PROVE  Kept(s, u)
BY DEF Kept

LEMMA KlcTyped ==
  ASSUME NEW klc \in Klcs
  PROVE  /\ klc.lang \in Langs \cup {Neutral} /\ klc.vks_lang \in BOOLEAN
         /\ klc.compiled \in BOOLEAN /\ klc.kly \in KLY
         /\ klc = [lang |-> klc.lang, vks_lang |-> klc.vks_lang, compiled |-> klc.compiled,
                   kly |-> klc.kly]
BY DEF Klcs

LEMMA VksLangSet ==
  ASSUME NEW klc \in Klcs
  PROVE  /\ [klc EXCEPT !.vks_lang = TRUE] =
              [lang |-> klc.lang, vks_lang |-> TRUE, compiled |-> klc.compiled, kly |-> klc.kly]
         /\ [klc EXCEPT !.vks_lang = TRUE] \in Klcs
BY KlcTyped, Zenon DEF Klcs

\* One table of a state replaced: what must be looked at.
LEMMA WellTabledReplaced ==
  ASSUME NEW klcs, WellTabled(klcs), NEW i \in DOMAIN klcs, NEW klc \in Klcs,
         klc.lang = klcs[i].lang, klc.lang = Neutral => ~klc.compiled,
         \A c \in Cells : klc.compiled /\ klc.kly[c].type = "char" =>
                            VkKeyScan[klc.lang][klc.kly[c].code] = NoKey
  PROVE  WellTabled([klcs EXCEPT ![i] = klc])
<1> DEFINE new == [klcs EXCEPT ![i] = klc]
<1>1. /\ new \in Seq(Klcs) /\ DOMAIN new = DOMAIN klcs
      /\ \A j \in DOMAIN klcs : new[j] = IF j = i THEN klc ELSE klcs[j]
  BY Replaced DEF WellTabled
<1> HIDE DEF new
<1>2. LangsDistinct(new)
  BY <1>1 DEF WellTabled, LangsDistinct
<1>3. NeutralFirst(new)
  BY <1>1 DEF WellTabled, NeutralFirst
<1>4. NoCharLeft(new)
  BY <1>1 DEF WellTabled, NoCharLeft
<1>5. WellTabled(new)
  BY <1>1, <1>2, <1>3, <1>4 DEF WellTabled
<1> QED
  BY <1>5 DEF new

LEMMA CompileKeeps ==
  ASSUME NEW s, Good(s), NEW i \in DOMAIN s.klcs,
         s.klcs[i].lang # Neutral, ~s.klcs[i].compiled
  PROVE  LET t == KL_compile_klc(s, i)
         IN /\ Good(t) /\ Kept(s, t) /\ SameFlags(s, t) /\ t.klcs[i].compiled
            /\ ~s.klcs[i].vks_lang => t.vks = s.vks
<1> DEFINE klcs == s.klcs
           klc == klcs[i]
           common == klcs[Klc(klcs, Neutral)].kly
           raw == Under(klc.kly, common)
           kly == [c \in Cells |-> Compiled(klc.lang, c, raw[c])]
           klc2 == [klc EXCEPT !.kly = kly, !.compiled = TRUE]
           new == [klcs EXCEPT ![i] = klc2]
           vks == [sc \in Keys |->
                     IF klc.vks_lang /\ raw[<<0, sc>>].type = "char" /\ kly[<<0, sc>>].type = "vk"
                     THEN kly[<<0, sc>>].code ELSE s.vks[sc]]
           t == KL_compile_klc(s, i)
<1>1. t = [klcs |-> new, vks |-> vks]
  BY DEF KL_compile_klc, Good, TableStates
<1>2. WellTabled(klcs) /\ klcs \in Seq(Klcs) /\ s.vks \in [Keys -> Vks \cup {NoVk}]
  BY DEF Good, TableStates, WellTabled
<1>3. klc \in Klcs
  BY <1>2
<1>4. klc.lang \in Langs /\ klc.kly \in KLY
  BY <1>3, KlcTyped
<1>5. common \in KLY
  BY <1>2, KlcNeutral, KlcTyped
<1>6. /\ raw \in KLY
      /\ \A c \in Cells : raw[c] = IF klc.kly[c] # Inactive THEN klc.kly[c] ELSE common[c]
  <2> HIDE DEF klc, common
  <2> QED
    BY <1>4, <1>5 DEF Under, KLY
<1>7. \A c \in Cells : /\ kly[c] \in Binding \cup {Inactive}
                       /\ Does(klc.lang, c, kly[c]) = Does(klc.lang, c, raw[c])
                       /\ kly[c].type = "char" => VkKeyScan[klc.lang][kly[c].code] = NoKey
  <2> HIDE DEF klc, raw
  <2>1. \A c \in Cells : raw[c] \in Binding \cup {Inactive}
    BY <1>6 DEF KLY
  <2> QED
    BY <1>4, <2>1, DoesCompiled
<1>8. kly \in KLY
  <2>1. kly = [c \in Cells |-> kly[c]]
    OBVIOUS
  <2> HIDE DEF kly
  <2> QED
    BY <1>7, <2>1 DEF KLY
<1> HIDE DEF kly
<1>9. /\ klc2 = [lang |-> klc.lang, vks_lang |-> klc.vks_lang, compiled |-> TRUE, kly |-> kly]
      /\ klc2 \in Klcs
  <2> HIDE DEF klc
  <2> QED
    BY <1>3, <1>8, KlcTyped DEF Klcs
<1>10. vks \in [Keys -> Vks \cup {NoVk}]
  <2>1. \A sc \in Keys : <<0, sc>> \in Cells
    BY ConfigAssumption DEF Cells, Levels
  <2>2. \A sc \in Keys : kly[<<0, sc>>].type = "vk" => kly[<<0, sc>>].code \in Vks \cup {NoVk}
    BY <1>7, <2>1 DEF Binding, VkBinding, Inactive
  <2> HIDE DEF klc, raw
  <2> QED
    BY <1>2, <2>2
<1>11. WellTabled(new)
  <2>1. /\ klc2.lang = klcs[i].lang /\ klc2.lang # Neutral
        /\ klc2.kly = kly
    BY <1>9
  <2>2. \A c \in Cells : klc2.kly[c].type = "char" =>
                            VkKeyScan[klc2.lang][klc2.kly[c].code] = NoKey
    BY <1>7, <2>1
  <2> HIDE DEF klc2, klcs
  <2> QED
    BY <1>2, <1>9, <2>1, <2>2, WellTabledReplaced DEF klcs
<1>12. /\ DOMAIN new = DOMAIN klcs
       /\ \A j \in DOMAIN klcs : new[j] = IF j = i THEN klc2 ELSE klcs[j]
  BY <1>2, <1>9, Replaced
<1>13. t \in TableStates
  <2>1. new \in Seq(Klcs)
    BY <1>11 DEF WellTabled
  <2> HIDE DEF new, vks, t
  <2> QED
    BY <1>1, <1>10, <2>1 DEF TableStates
<1> HIDE DEF t
<1>14. t.klcs = new /\ t.vks = vks
  BY <1>1
<1>15. Good(t) /\ SameFlags(s, t) /\ t.klcs[i].compiled
  <2>1. Good(t)
    BY <1>11, <1>13, <1>14 DEF Good
  <2>2. SameFlags(s, t)
    BY <1>9, <1>12, <1>14 DEF SameFlags
  <2> QED
    BY <1>9, <1>12, <1>14, <2>1, <2>2
<1>16. ~s.klcs[i].vks_lang => t.vks = s.vks
  BY <1>2, <1>14
<1>17. Kept(s, t)
  <2> HIDE DEF new, klc2, vks
  <2>1. ASSUME NEW j \in DOMAIN klcs
        PROVE  new[j].lang = klcs[j].lang /\ (klcs[j].compiled => new[j].compiled)
    BY <1>9, <1>12
  <2>2. Klc(klcs, Neutral) = 1 /\ 1 \in DOMAIN klcs /\ Klc(new, Neutral) = 1 /\ i # 1
    BY <1>2, <1>11, KlcNeutral DEF WellTabled, NeutralFirst
  <2>3. ASSUME NEW j \in DOMAIN klcs, NEW c \in Cells
        PROVE  SaysOf(new, j, c) = SaysOf(klcs, j, c)
    <3>1. CASE j # i
      <4>1. new[j] = klcs[j] /\ new[1] = klcs[1]
        BY <1>12, <2>2, <3>1
      <4> QED
        BY <2>2, <4>1 DEF SaysOf, EntryOf
    <3>2. CASE j = i
      <4>1. EntryOf(new, j, c) = kly[c]
        BY <1>9, <1>12, <3>2 DEF EntryOf
      <4>2. EntryOf(klcs, j, c) = raw[c]
        BY <1>6, <3>2 DEF EntryOf
      <4>3. new[j].lang = klcs[j].lang /\ klcs[j] = klc
        BY <2>1, <3>2
      <4> QED
        BY <1>7, <4>1, <4>2, <4>3 DEF SaysOf
    <3> QED
      BY <3>1, <3>2
  <2> QED
    BY <1>12, <1>14, <2>1, <2>3 DEF Kept
<1> QED
  BY <1>15, <1>16, <1>17 DEF t

\* KL_activate_lang.
LEMMA ActivatedKeeps ==
  ASSUME NEW s, Good(s), NEW lang
  PROVE  LET t == Activated(s, lang)
         IN /\ Good(t) /\ Kept(s, t) /\ SameFlags(s, t)
            /\ \A i \in DOMAIN s.klcs :
                 s.klcs[i].lang = lang /\ lang # Neutral => t.klcs[i].compiled
            /\ (\A i \in DOMAIN s.klcs : s.klcs[i].vks_lang => s.klcs[i].compiled)
               => t.vks = s.vks
<1> DEFINE i == Klc(s.klcs, lang)
<1>1. Kept(s, s) /\ SameFlags(s, s)
  BY DEF Kept, SameFlags
<1>2. \/ i = 0 /\ \A j \in DOMAIN s.klcs : s.klcs[j].lang # lang
      \/ i \in DOMAIN s.klcs /\ s.klcs[i].lang = lang
  BY KlcFinds DEF Good, WellTabled
<1>3. \A j \in DOMAIN s.klcs : s.klcs[j].lang = lang => j = i
  BY <1>2 DEF Good, WellTabled, LangsDistinct
<1>4. i = 0 => i \notin DOMAIN s.klcs
  BY DEF Good, WellTabled
<1>5. Activated(s, lang) = IF i = 0 \/ lang = Neutral THEN s
                           ELSE IF s.klcs[i].compiled THEN s ELSE KL_compile_klc(s, i)
  BY DEF Activated
<1>6. CASE i = 0 \/ lang = Neutral
  <2>1. Activated(s, lang) = s
    BY <1>5, <1>6
  <2> HIDE DEF i
  <2> QED
    BY <1>1, <1>2, <1>3, <1>4, <1>6, <2>1
<1>7. CASE ~(i = 0 \/ lang = Neutral) /\ s.klcs[i].compiled
  <2>1. Activated(s, lang) = s
    BY <1>5, <1>7
  <2> HIDE DEF i
  <2> QED
    BY <1>1, <1>2, <1>3, <1>7, <2>1
<1>8. CASE ~(i = 0 \/ lang = Neutral) /\ ~s.klcs[i].compiled
  <2>1. i \in DOMAIN s.klcs /\ s.klcs[i].lang # Neutral
    BY <1>2, <1>8
  <2> DEFINE t == KL_compile_klc(s, i)
  <2>2. /\ Good(t) /\ Kept(s, t) /\ SameFlags(s, t) /\ t.klcs[i].compiled
        /\ ~s.klcs[i].vks_lang => t.vks = s.vks
    BY <1>8, <2>1, CompileKeeps
  <2>3. Activated(s, lang) = t
    BY <1>5, <1>8
  <2> HIDE DEF t, i
  <2> QED
    BY <1>3, <1>8, <2>1, <2>2, <2>3
<1> QED
  BY <1>6, <1>7, <1>8

\* KL_define_vks, before any table has the flag of the language of the shortcuts.
LEMMA DefineKeeps ==
  ASSUME NEW s, Good(s), NEW lang, NEW layout \in Langs, Klc(s.klcs, lang) # 0,
         \A i \in DOMAIN s.klcs : ~s.klcs[i].vks_lang
  PROVE  LET t == KL_define_vks(s, lang, layout)
             r == Klc(s.klcs, lang)
         IN /\ Good(t) /\ Kept(s, t)
            /\ r \in DOMAIN s.klcs /\ s.klcs[r].lang = lang
            /\ \A i \in DOMAIN s.klcs : t.klcs[i].vks_lang => i = r
            /\ lang # Neutral => t.klcs[r].compiled
            /\ \A sc \in Keys : sc_to_vk[layout][sc] \in DefinedVks =>
                 t.vks[sc] = KL_define_one_vk(t.klcs[r].kly, layout, sc)
<1> DEFINE klcs == s.klcs
           i == Klc(s.klcs, lang)
           klc2 == [klcs[i] EXCEPT !.vks_lang = TRUE]
           new == [klcs EXCEPT ![i] = klc2]
           u == [s EXCEPT !.klcs[i].vks_lang = TRUE]
           t == Activated(u, lang)
           kly == t.klcs[i].kly
           vks == [sc \in Keys |-> IF sc_to_vk[layout][sc] \in DefinedVks
                                   THEN KL_define_one_vk(kly, layout, sc) ELSE t.vks[sc]]
           v == KL_define_vks(s, lang, layout)
<1>1. i \in DOMAIN klcs /\ klcs[i].lang = lang /\ WellTabled(klcs) /\ klcs \in Seq(Klcs)
  BY KlcFinds DEF Good, WellTabled
<1>2. u = [klcs |-> new, vks |-> s.vks]
  <2>1. s \in TableStates
    BY DEF Good
  <2>2. u = [s EXCEPT !.klcs = [s.klcs EXCEPT ![i] = [s.klcs[i] EXCEPT !.vks_lang = TRUE]]]
    OBVIOUS
  <2>3. \A x : [s EXCEPT !.klcs = x] = [klcs |-> x, vks |-> s.vks]
    BY <2>1 DEF TableStates
  <2> HIDE DEF i
  <2> QED
    BY <2>2, <2>3
<1>3. /\ klc2 = [lang |-> klcs[i].lang, vks_lang |-> TRUE, compiled |-> klcs[i].compiled,
                 kly |-> klcs[i].kly]
      /\ klc2 \in Klcs
  <2>1. klcs[i] \in Klcs
    BY <1>1
  <2> DEFINE klc == klcs[i]
  <2>2. klc \in Klcs
    BY <2>1
  <2> HIDE DEF klc
  <2>3. /\ [klc EXCEPT !.vks_lang = TRUE] =
             [lang |-> klc.lang, vks_lang |-> TRUE, compiled |-> klc.compiled, kly |-> klc.kly]
        /\ [klc EXCEPT !.vks_lang = TRUE] \in Klcs
    BY <2>2, VksLangSet
  <2> QED
    BY <2>3 DEF klc
<1>4. WellTabled(new)
  <2>1. /\ klc2.lang = klcs[i].lang
        /\ klc2.lang = Neutral => ~klc2.compiled
        /\ \A c \in Cells : klc2.compiled /\ klc2.kly[c].type = "char" =>
                              VkKeyScan[klc2.lang][klc2.kly[c].code] = NoKey
    <3>1. /\ klc2.lang = klcs[i].lang /\ klc2.compiled = klcs[i].compiled
          /\ klc2.kly = klcs[i].kly
      BY <1>3
    <3> HIDE DEF klc2, klcs, i
    <3>2. klcs[i].lang = Neutral => i = 1 /\ ~klcs[i].compiled
      BY <1>1 DEF WellTabled, LangsDistinct, NeutralFirst
    <3>3. \A c \in Cells : klcs[i].compiled /\ klcs[i].kly[c].type = "char" =>
                             VkKeyScan[klcs[i].lang][klcs[i].kly[c].code] = NoKey
      BY <1>1 DEF WellTabled, NoCharLeft
    <3> QED
      BY <3>1, <3>2, <3>3
  <2> HIDE DEF klc2, klcs, i
  <2> QED
    BY <1>1, <1>3, <2>1, WellTabledReplaced
<1>5. /\ DOMAIN new = DOMAIN klcs
      /\ \A j \in DOMAIN klcs : new[j] = IF j = i THEN klc2 ELSE klcs[j]
  BY <1>1, <1>3, Replaced
<1>6. Good(u)
  <2>1. new \in Seq(Klcs) /\ s.vks \in [Keys -> Vks \cup {NoVk}]
    BY <1>4 DEF WellTabled, Good, TableStates
  <2> HIDE DEF new, u
  <2> QED
    BY <1>2, <1>4, <2>1 DEF Good, TableStates
<1>7. Kept(s, u)
  <2> HIDE DEF new, u, klc2, i
  <2>1. \A j \in DOMAIN klcs : /\ new[j].lang = klcs[j].lang /\ new[j].kly = klcs[j].kly
                               /\ new[j].compiled = klcs[j].compiled
    BY <1>3, <1>5
  <2>2. Klc(klcs, Neutral) = 1 /\ 1 \in DOMAIN klcs /\ Klc(new, Neutral) = 1
    BY <1>1, <1>4, KlcNeutral
  <2>3. \A j \in DOMAIN klcs, c \in Cells : SaysOf(new, j, c) = SaysOf(klcs, j, c)
    BY <2>1, <2>2 DEF SaysOf, EntryOf
  <2> QED
    BY <1>2, <1>5, <2>1, <2>3 DEF Kept
<1>8. /\ Good(t) /\ Kept(u, t) /\ SameFlags(u, t)
      /\ \A j \in DOMAIN u.klcs :
           u.klcs[j].lang = lang /\ lang # Neutral => t.klcs[j].compiled
  <2> HIDE DEF u
  <2> QED
    BY <1>6, ActivatedKeeps
<1>9. v = [t EXCEPT !.vks = vks]
  BY DEF KL_define_vks
<1> HIDE DEF u, t, v
<1>10. Kept(s, t) /\ t \in TableStates /\ WellTabled(t.klcs)
  BY <1>7, <1>8, KeptTwice DEF Good
<1>11. v = [klcs |-> t.klcs, vks |-> vks]
  BY <1>9, <1>10 DEF TableStates
<1>12. vks \in [Keys -> Vks \cup {NoVk}]
  <2>1. t.klcs[i] \in Klcs
    <3>1. i \in DOMAIN t.klcs /\ t.klcs \in Seq(Klcs)
      BY <1>1, <1>10 DEF Kept, WellTabled
    <3> HIDE DEF i
    <3> QED
      BY <3>1
  <2>2. kly \in KLY
    BY <2>1, KlcTyped
  <2> HIDE DEF kly
  <2>3. ASSUME NEW sc \in Keys PROVE KL_define_one_vk(kly, layout, sc) \in Vks \cup {NoVk}
    <3>1. <<0, sc>> \in Cells
      BY ConfigAssumption DEF Cells, Levels
    <3>2. kly[<<0, sc>>] \in Binding \cup {Inactive}
      BY <2>2, <3>1 DEF KLY
    <3>3. kly[<<0, sc>>].type = "vk" => kly[<<0, sc>>].code \in Vks \cup {NoVk}
      BY <3>2 DEF Binding, VkBinding, Inactive
    <3>4. sc_to_vk[layout][sc] \in Vks
      BY ConfigAssumption
    <3> QED
      BY <3>3, <3>4 DEF KL_define_one_vk
  <2>4. t.vks \in [Keys -> Vks \cup {NoVk}]
    BY <1>10 DEF TableStates
  <2> QED
    BY <2>3, <2>4
<1>13. v.klcs = t.klcs /\ v.vks = vks
  BY <1>11
<1>14. Good(v)
  <2>1. t.klcs \in Seq(Klcs)
    BY <1>10 DEF WellTabled
  <2> HIDE DEF vks
  <2>2. v \in TableStates
    BY <1>11, <1>12, <2>1 DEF TableStates
  <2> QED
    BY <1>10, <1>13, <2>2 DEF Good
<1>15. Kept(s, v)
  BY <1>10, <1>13 DEF Kept
<1>16. \A j \in DOMAIN klcs : v.klcs[j].vks_lang => j = i
  <2>1. u.klcs = new
    BY <1>2 DEF u
  <2> HIDE DEF new, klc2, i
  <2> QED
    BY <1>5, <1>8, <1>13, <2>1 DEF SameFlags
<1>17. lang # Neutral => v.klcs[i].compiled
  <2>1. DOMAIN u.klcs = DOMAIN klcs /\ u.klcs[i].lang = lang
    BY <1>1, <1>7 DEF Kept
  <2> HIDE DEF i
  <2> QED
    BY <1>1, <1>8, <1>13, <2>1
<1>18. \A sc \in Keys : sc_to_vk[layout][sc] \in DefinedVks =>
         v.vks[sc] = KL_define_one_vk(v.klcs[i].kly, layout, sc)
  BY <1>13
<1> QED
  BY <1>1, <1>14, <1>15, <1>16, <1>17, <1>18 DEF v

-----------------------------------------------------------------------------
\* Statements.

LEMMA LevelsFinite ==
  /\ IsFiniteSet(Levels)
  /\ \A S \in SUBSET Levels : IsFiniteSet(S) /\ Cardinality(S) \in Nat
<1>1. IsFiniteSet(Levels)
  <2>1. 0 \in Int /\ KLVN - 1 \in Int
    BY ConfigAssumption
  <2> QED
    BY <2>1, FS_Interval DEF Levels
<1> QED
  BY <1>1, FS_Subset, FS_CardinalityType

\* The levels that a line binds are levels that there are.
LEMMA BoundLevelsAre ==
  ASSUME Bind_lvls \subseteq Levels
  PROVE  BoundLevels \subseteq Levels
<1>1. CASE Bind_lvls = {}
  BY <1>1 DEF BoundLevels
<1>2. CASE Bind_lvls # {}
  <2>1. Bind_lvls \in SUBSET Nat
    BY ConfigAssumption DEF Levels
  <2>2. \E lv \in Bind_lvls : \A l \in Bind_lvls : lv <= l
    BY <1>2, <2>1, LeastNumber
  <2>3. FirstLevel \in Bind_lvls
    BY <2>2 DEF FirstLevel
  <2> QED
    BY <2>3 DEF BoundLevels
<1> QED
  BY <1>1, <1>2

LEMMA BindingTyped ==
  ASSUME NEW binds \in Seq(Tokens), binds # <<>>, Bind_lvls \subseteq Levels, NEW lv \in Levels
  PROVE  LK(read_binding(BindingAt(binds, lv)), lv) \in Binding
<1> DEFINE before == Cardinality({l \in BoundLevels : l < lv})
<1>1. before \in Nat
  BY BoundLevelsAre, LevelsFinite
<1>2. Len(binds) \in Nat /\ Len(binds) > 0 /\ DOMAIN binds = 1 .. Len(binds)
  OBVIOUS
<1> HIDE DEF before
<1>3. (before % Len(binds)) + 1 \in DOMAIN binds
  BY <1>1, <1>2
<1>4. BindingAt(binds, lv) = binds[(before % Len(binds)) + 1]
  BY DEF BindingAt, before
<1>5. BindingAt(binds, lv) \in Tokens
  BY <1>3, <1>4
<1> DEFINE token == BindingAt(binds, lv)
           bind == read_binding(token)
<1> HIDE DEF token
<1>6. token \in Tokens
  BY <1>5 DEF token
<1>7. \/ bind.type = "char" /\ bind.code \in Chars
      \/ bind.type = "vk" /\ bind.code \in Vks \cup {NoVk}
      \/ bind.type = "ka" /\ bind.code \in Actions
  BY <1>6, ConfigAssumption DEF read_binding, Tokens
<1> HIDE DEF bind
<1>8. Shifted(lv) \in SUBSET {"shift", "control", "alt"}
  BY DEF Shifted
<1>9. LK(bind, lv) \in Binding
  BY <1>7, <1>8 DEF LK, Binding, VkBinding
<1> QED
  BY <1>9 DEF bind, token

\* What is so of a line that is read, by its kind.
LEMMA LineIs ==
  ASSUME NEW line \in Lines
  PROVE  /\ line.kind = "bind" => line \in BindLines /\ line.binds # <<>>
         /\ line.kind = "level" => line.n \in Nat
         /\ line.kind = "levels" => line.ns \subseteq Nat
         /\ line.kind \in {"lang", "vks_lang"} => line.lang \in Langs
         /\ line.kind \in {"title", "class"} => line.str \in Strs
         /\ line.kind = "remap" => line.binds \in Seq(KrBind)
<1>1. \/ line \in BindLines /\ line.binds # <<>>
      \/ line.kind = "level" /\ line.n \in Nat
      \/ line.kind = "levels" /\ line.ns \subseteq Nat
      \/ line.kind \in {"lang", "vks_lang"} /\ line.lang \in Langs
      \/ line.kind \in {"title", "class"} /\ line.str \in Strs
      \/ line.kind = "remap" /\ line.binds \in Seq(KrBind)
      \/ line.kind = "file"
  BY ConfigAssumption
<1>2. line \in BindLines => line.kind = "bind"
  BY DEF BindLines
<1> QED
  BY <1>1, <1>2

\* Every language keeps what its keys do.
SaysKept(old, new) ==
  \A i \in DOMAIN old, c \in Cells :
    old[i].lang # Neutral => SaysOf(new, i, c) = SaysOf(old, i, c)

\* What a bind line writes.
BoundTo(line, klcs, new, k) ==
  /\ new \in Seq(Klcs) /\ DOMAIN new = DOMAIN klcs
  /\ \A i \in DOMAIN klcs : /\ new[i].lang = klcs[i].lang /\ new[i].compiled = klcs[i].compiled
                            /\ new[i].vks_lang = klcs[i].vks_lang
  /\ \A i \in DOMAIN klcs, c \in Cells :
       new[i].kly[c] = IF i = k /\ c[1] \in BoundLevels /\ c[2] = line.sc
                       THEN LK(read_binding(BindingAt(line.binds, c[1])), c[1])
                       ELSE klcs[i].kly[c]

LEMMA BindWrites ==
  ASSUME TInv, NEW line \in Lines, read_bind(line)
  PROVE  WellTabled(KL_klcs') /\ BoundTo(line, KL_klcs, KL_klcs', KL_bind_kly)
<1> DEFINE klcs == KL_klcs
           k == KL_bind_kly
           klc == klcs[k]
           kly == [c \in Cells |-> IF c[1] \in BoundLevels /\ c[2] = line.sc
                                   THEN LK(read_binding(BindingAt(line.binds, c[1])), c[1])
                                   ELSE klc.kly[c]]
           klc2 == [klc EXCEPT !.kly = kly]
<1>1. /\ WellTabled(klcs) /\ klcs \in Seq(Klcs) /\ k \in DOMAIN klcs
      /\ Bind_lvls \subseteq Levels /\ selected = Neutral /\ ~klc.compiled
  BY DEF TInv, TypeOK, NothingCompiled, read_bind, Reading
<1>2. line.sc \in Keys /\ line.binds \in Seq(Tokens) /\ line.binds # <<>>
  BY LineIs DEF read_bind, Reading, BindLines
<1>3. KL_klcs' = [klcs EXCEPT ![k] = klc2]
  BY DEF read_bind
<1>4. klc \in Klcs
  BY <1>1
<1>5. kly \in KLY
  <2>1. \A c \in Cells : klc.kly[c] \in Binding \cup {Inactive}
    BY <1>4, KlcTyped DEF KLY
  <2>2. \A c \in Cells : LK(read_binding(BindingAt(line.binds, c[1])), c[1]) \in Binding
    BY <1>1, <1>2, BindingTyped DEF Cells
  <2> HIDE DEF klc
  <2> QED
    BY <2>1, <2>2 DEF KLY
<1>6. /\ klc2 = [lang |-> klc.lang, vks_lang |-> klc.vks_lang, compiled |-> klc.compiled,
                 kly |-> kly]
      /\ klc2 \in Klcs
  <2> HIDE DEF klc, kly
  <2> QED
    BY <1>4, <1>5, KlcTyped DEF Klcs
<1>7. WellTabled([klcs EXCEPT ![k] = klc2])
  <2>1. klc2.lang = klcs[k].lang /\ ~klc2.compiled
    BY <1>1, <1>6
  <2> HIDE DEF klc2, klcs
  <2> QED
    BY <1>1, <1>6, <2>1, WellTabledReplaced
<1>8. /\ DOMAIN KL_klcs' = DOMAIN klcs
      /\ \A i \in DOMAIN klcs : KL_klcs'[i] = IF i = k THEN klc2 ELSE klcs[i]
  <2> HIDE DEF klc2
  <2> QED
    BY <1>1, <1>3, <1>6, Replaced
<1>9. BoundTo(line, klcs, KL_klcs', k)
  <2>1. KL_klcs' \in Seq(Klcs)
    BY <1>3, <1>7 DEF WellTabled
  <2>2. \A i \in DOMAIN klcs : /\ KL_klcs'[i].lang = klcs[i].lang
                               /\ KL_klcs'[i].compiled = klcs[i].compiled
                               /\ KL_klcs'[i].vks_lang = klcs[i].vks_lang
                               /\ KL_klcs'[i].kly = IF i = k THEN kly ELSE klcs[i].kly
    <3> HIDE DEF kly
    <3> QED
      BY <1>6, <1>8
  <2>3. \A i \in DOMAIN klcs, c \in Cells :
          KL_klcs'[i].kly[c] = IF i = k /\ c[1] \in BoundLevels /\ c[2] = line.sc
                               THEN LK(read_binding(BindingAt(line.binds, c[1])), c[1])
                               ELSE klcs[i].kly[c]
    <3>1. \A c \in Cells : kly[c] = IF c[1] \in BoundLevels /\ c[2] = line.sc
                                    THEN LK(read_binding(BindingAt(line.binds, c[1])), c[1])
                                    ELSE klcs[k].kly[c]
      OBVIOUS
    <3> HIDE DEF kly, klc, klcs
    <3> QED
      BY <2>2, <3>1
  <2> HIDE DEF klcs, k, kly, klc2
  <2> QED
    BY <1>8, <2>1, <2>2, <2>3 DEF BoundTo
<1> QED
  BY <1>3, <1>7, <1>9

LEMMA BindStep ==
  ASSUME TInv, NEW line \in Lines, read_bind(line)
  PROVE  /\ TInv'
         /\ \A i \in DOMAIN KL_klcs, c \in Cells :
              \/ SaysOf(KL_klcs', i, c) = SaysOf(KL_klcs, i, c)
              \/ /\ c[2] = line.sc /\ c[1] \in BoundLevels
                 /\ KL_klcs[KL_bind_kly].lang \in {KL_klcs[i].lang, Neutral}
<1>1. /\ WellTabled(KL_klcs') /\ BoundTo(line, KL_klcs, KL_klcs', KL_bind_kly)
      /\ WellTabled(KL_klcs)
  BY BindWrites DEF TInv
<1>2. selected = Neutral /\ selected' = Neutral
  BY DEF read_bind, Reading, startVars
<1>3. TypeOK'
  <2>1. lines' \in Nat
    BY DEF read_bind, Reading, TInv, TypeOK
  <2>2. UNCHANGED <<Bind_lvls, Bind_sole_lvl, KL_bind_kly, KL_vks_lang, KR_apps, KR_app,
                    KR_titles, KR_wndcs, KL_mods_vks, selected>>
    BY DEF read_bind, Reading, krVars, startVars
  <2>3. KL_klcs' \in Seq(Klcs) /\ KL_bind_kly' \in DOMAIN KL_klcs'
    BY <1>1, <2>2 DEF BoundTo, TInv, TypeOK
  <2> QED
    BY <2>1, <2>2, <2>3 DEF TInv, TypeOK
<1>4. NothingCompiled' /\ ReferenceCompiled'
  BY <1>1, <1>2 DEF TInv, BoundTo, NothingCompiled, ReferenceCompiled
<1>5. ASSUME NEW i \in DOMAIN KL_klcs, NEW c \in Cells,
             ~(/\ c[2] = line.sc /\ c[1] \in BoundLevels
               /\ KL_klcs[KL_bind_kly].lang \in {KL_klcs[i].lang, Neutral})
      PROVE  SaysOf(KL_klcs', i, c) = SaysOf(KL_klcs, i, c)
  <2>1. /\ Klc(KL_klcs, Neutral) = 1 /\ Klc(KL_klcs', Neutral) = 1
        /\ 1 \in DOMAIN KL_klcs /\ KL_klcs[1].lang = Neutral
    BY <1>1, KlcNeutral DEF WellTabled, NeutralFirst
  <2>2. KL_klcs'[i].kly[c] = KL_klcs[i].kly[c] /\ KL_klcs'[1].kly[c] = KL_klcs[1].kly[c]
    BY <1>1, <1>5, <2>1 DEF BoundTo
  <2> QED
    BY <1>1, <2>1, <2>2 DEF BoundTo, SaysOf, EntryOf
<1> QED
  BY <1>1, <1>3, <1>4, <1>5 DEF TInv

LEMMA LangStep ==
  ASSUME TInv, NEW line \in Lines, read_lang(line)
  PROVE  TInv' /\ SaysKept(KL_klcs, KL_klcs')
<1> DEFINE i == Klc(KL_klcs, line.lang)
<1>1. line.lang \in Langs /\ line.lang # Neutral
  BY LineIs, ConfigAssumption DEF read_lang, Reading
<1>2. WellTabled(KL_klcs) /\ KL_klcs \in Seq(Klcs) /\ selected = Neutral /\ selected' = Neutral
  BY DEF TInv, TypeOK, read_lang, Reading, startVars
<1>3. NewKlc(line.lang) \in Klcs
  BY <1>1 DEF NewKlc, Klcs, KLY
<1>4. \/ i = 0 /\ \A j \in DOMAIN KL_klcs : KL_klcs[j].lang # line.lang
      \/ i \in DOMAIN KL_klcs /\ i # 0
  BY <1>2, KlcFinds
<1>5. CASE i # 0
  <2>1. KL_klcs' = KL_klcs /\ KL_bind_kly' = i /\ i \in DOMAIN KL_klcs
    BY <1>4, <1>5 DEF read_lang
  <2>2. TypeOK'
    <3>1. UNCHANGED <<Bind_lvls, Bind_sole_lvl, KL_vks_lang, KR_apps, KR_app,
                      KR_titles, KR_wndcs, KL_mods_vks, selected>> /\ lines' \in Nat
      BY DEF read_lang, Reading, krVars, startVars, TInv, TypeOK
    <3> HIDE DEF i
    <3> QED
      BY <2>1, <3>1 DEF TInv, TypeOK
  <2>3. NothingCompiled' /\ ReferenceCompiled'
    BY <1>2, <2>1 DEF TInv, NothingCompiled, ReferenceCompiled, read_lang, Reading, startVars
  <2> QED
    BY <1>2, <2>1, <2>2, <2>3 DEF TInv, SaysKept
<1>6. CASE i = 0
  <2> DEFINE new == Append(KL_klcs, NewKlc(line.lang))
             n == Len(KL_klcs) + 1
  <2>1. KL_klcs' = new /\ KL_bind_kly' = n
    BY <1>6 DEF read_lang
  <2>2. /\ new \in Seq(Klcs) /\ DOMAIN new = DOMAIN KL_klcs \cup {n} /\ n \notin DOMAIN KL_klcs
        /\ \A j \in DOMAIN KL_klcs : new[j] = KL_klcs[j]
        /\ new[n] = NewKlc(line.lang)
    <3>1. DOMAIN new = 1 .. n /\ DOMAIN KL_klcs = 1 .. n - 1 /\ n \in Nat /\ new \in Seq(Klcs)
      BY <1>2, <1>3
    <3> QED
      BY <1>2, <1>3, <3>1
  <2>3. new[n].lang = line.lang /\ ~new[n].compiled /\ ~new[n].vks_lang
    BY <2>2 DEF NewKlc
  <2> HIDE DEF new, n
  <2>4. WellTabled(new)
    <3>1. LangsDistinct(new)
      BY <1>2, <1>4, <1>6, <2>2, <2>3 DEF WellTabled, LangsDistinct
    <3>2. NeutralFirst(new)
      BY <1>2, <2>2 DEF WellTabled, NeutralFirst
    <3>3. NoCharLeft(new)
      BY <1>2, <2>2, <2>3 DEF WellTabled, NoCharLeft
    <3> QED
      BY <2>2, <3>1, <3>2, <3>3 DEF WellTabled
  <2>5. TypeOK'
    <3>1. UNCHANGED <<Bind_lvls, Bind_sole_lvl, KL_vks_lang, KR_apps, KR_app,
                      KR_titles, KR_wndcs, KL_mods_vks, selected>> /\ lines' \in Nat
      BY DEF read_lang, Reading, krVars, startVars, TInv, TypeOK
    <3> QED
      BY <2>1, <2>2, <3>1 DEF TInv, TypeOK
  <2>6. NothingCompiled' /\ ReferenceCompiled'
    BY <1>2, <2>1, <2>2, <2>3 DEF TInv, NothingCompiled, ReferenceCompiled, read_lang, Reading,
      startVars
  <2>7. SaysKept(KL_klcs, new)
    <3>1. /\ Klc(KL_klcs, Neutral) = 1 /\ Klc(new, Neutral) = 1 /\ 1 \in DOMAIN KL_klcs
      BY <1>2, <2>4, KlcNeutral
    <3> QED
      BY <2>2, <3>1 DEF SaysKept, SaysOf, EntryOf
  <2> QED
    BY <2>1, <2>4, <2>5, <2>6, <2>7 DEF TInv
<1> QED
  BY <1>5, <1>6

LEMMA TitleStep ==
  ASSUME TInv, NEW line \in Lines, read_title(line)
  PROVE  /\ KR_apps' \in Seq(Seq(KrBind)) /\ KR_app' \in 0 .. Len(KR_apps')
         /\ KR_titles' \in Seq(Entries) /\ KR_wndcs' \in Seq(Entries)
<1> DEFINE entry == [str |-> line.str, app |-> Len(KR_apps) + 1]
<1>1. /\ KR_apps \in Seq(Seq(KrBind)) /\ KR_titles \in Seq(Entries) /\ KR_wndcs \in Seq(Entries)
  BY DEF TInv, TypeOK
<1>2. line.str \in Strs
  BY LineIs DEF read_title, Reading
<1>3. entry \in Entries
  BY <1>1, <1>2 DEF Entries
<1>4. KR_apps' = Append(KR_apps, <<>>) /\ KR_app' = Len(KR_apps) + 1
  BY DEF read_title
<1>5. KR_titles' \in {Append(KR_titles, entry), KR_titles}
  BY DEF read_title
<1>6. KR_wndcs' \in {Append(KR_wndcs, entry), KR_wndcs}
  BY DEF read_title
<1> HIDE DEF entry
<1>7. Append(KR_titles, entry) \in Seq(Entries) /\ Append(KR_wndcs, entry) \in Seq(Entries)
  BY <1>1, <1>3
<1>8. KR_titles' \in Seq(Entries) /\ KR_wndcs' \in Seq(Entries)
  BY <1>1, <1>5, <1>6, <1>7
<1>9. <<>> \in Seq(KrBind)
  OBVIOUS
<1>10. KR_apps' \in Seq(Seq(KrBind)) /\ Len(KR_apps') = Len(KR_apps) + 1 /\ Len(KR_apps) \in Nat
  BY <1>1, <1>4, <1>9
<1> QED
  BY <1>4, <1>8, <1>10

LEMMA RemapStep ==
  ASSUME TInv, NEW line \in Lines, read_remap(line)
  PROVE  KR_apps' \in Seq(Seq(KrBind)) /\ Len(KR_apps') = Len(KR_apps)
<1>1. KR_apps \in Seq(Seq(KrBind)) /\ KR_app \in 0 .. Len(KR_apps)
  BY DEF TInv, TypeOK
<1>2. line.binds \in Seq(KrBind)
  BY LineIs DEF read_remap, Reading
<1>3. CASE KR_app = 0
  BY <1>1, <1>3 DEF read_remap
<1>4. CASE KR_app # 0
  <2> DEFINE binds == KR_apps[KR_app] \o line.binds
  <2>1. KR_app \in DOMAIN KR_apps /\ KR_apps[KR_app] \in Seq(KrBind)
    BY <1>1, <1>4
  <2>2. binds \in Seq(KrBind)
    BY <1>2, <2>1
  <2>3. KR_apps' = [KR_apps EXCEPT ![KR_app] = binds]
    BY <1>4 DEF read_remap
  <2> HIDE DEF binds
  <2> QED
    BY <1>1, <2>1, <2>2, <2>3
<1> QED
  BY <1>3, <1>4

\* Lines that leave the tables of languages alone.
LEMMA OtherStep ==
  ASSUME TInv, NEW line \in Lines,
         \/ read_levs(line) \/ read_title(line) \/ read_remap(line)
         \/ read_vks_lang(line) \/ parse_str(line)
  PROVE  TInv' /\ KL_klcs' = KL_klcs
<1>1. /\ KL_klcs' = KL_klcs /\ KL_mods_vks' = KL_mods_vks
      /\ selected = Neutral /\ selected' = Neutral /\ lines' = lines + 1
  BY DEF read_levs, read_title, read_remap, read_vks_lang, parse_str, Reading, SelectLevels,
    startVars, klVars
<1>2. WellTabled(KL_klcs') /\ NothingCompiled' /\ ReferenceCompiled'
  BY <1>1 DEF TInv, NothingCompiled, ReferenceCompiled
<1>3. lines' \in Nat
  BY <1>1 DEF TInv, TypeOK
<1>4. CASE read_levs(line)
  <2>1. UNCHANGED <<KL_bind_kly, KL_vks_lang, KR_apps, KR_app, KR_titles, KR_wndcs>>
    BY <1>4 DEF read_levs, SelectLevels, krVars
  <2>2. Bind_lvls' \subseteq Levels /\ Bind_sole_lvl' \in BOOLEAN
    BY <1>4 DEF read_levs, SelectLevels, TInv, TypeOK
  <2> QED
    BY <1>1, <1>2, <1>3, <2>1, <2>2 DEF TInv, TypeOK
<1>5. CASE read_title(line)
  <2>1. UNCHANGED <<Bind_lvls, Bind_sole_lvl, KL_bind_kly, KL_vks_lang>>
    BY <1>5 DEF read_title, klVars
  <2> QED
    BY <1>1, <1>2, <1>3, <1>5, <2>1, TitleStep DEF TInv, TypeOK
<1>6. CASE read_remap(line)
  <2>1. UNCHANGED <<Bind_lvls, Bind_sole_lvl, KL_bind_kly, KL_vks_lang, KR_app, KR_titles, KR_wndcs>>
    BY <1>6 DEF read_remap, klVars
  <2> QED
    BY <1>1, <1>2, <1>3, <1>6, <2>1, RemapStep DEF TInv, TypeOK
<1>7. CASE read_vks_lang(line)
  <2>1. UNCHANGED <<Bind_lvls, Bind_sole_lvl, KL_bind_kly, KR_apps, KR_app, KR_titles, KR_wndcs>>
    BY <1>7 DEF read_vks_lang, krVars
  <2>2. KL_vks_lang' \in Langs
    BY <1>7, LineIs DEF read_vks_lang, Reading
  <2> QED
    BY <1>1, <1>2, <1>3, <2>1, <2>2 DEF TInv, TypeOK
<1>8. CASE parse_str(line)
  <2>1. UNCHANGED <<Bind_sole_lvl, KL_vks_lang, KR_apps, KR_app, KR_titles, KR_wndcs>>
    BY <1>8 DEF parse_str, krVars
  <2>2. Bind_lvls' = {} /\ KL_bind_kly' = 1 /\ 1 \in DOMAIN KL_klcs
    BY <1>8, KlcNeutral DEF parse_str, TInv
  <2> QED
    BY <1>1, <1>2, <1>3, <2>1, <2>2 DEF TInv, TypeOK
<1> QED
  BY <1>4, <1>5, <1>6, <1>7, <1>8

-----------------------------------------------------------------------------
\* The start and the selection of a language.

LEMMA SortedTyped ==
  ASSUME NEW entries \in Seq(Entries), NEW s \in SortedBySum(entries)
  PROVE  /\ s \in Seq(Entries) /\ DOMAIN s = 1 .. Len(s)
         /\ \A i, j \in DOMAIN s : i < j => KR_str_checksum(s[i].str) <= KR_str_checksum(s[j].str)
<1> DEFINE n == Len(entries)
           R == {entries[i] : i \in 1 .. n}
<1>1. n \in Nat /\ \A i \in 1 .. n : entries[i] \in Entries
  OBVIOUS
<1>2. s \in [1 .. n -> R]
  BY DEF SortedBySum
<1>3. R \subseteq Entries
  BY <1>1
<1> HIDE DEF R, n
<1>4. s \in [1 .. n -> Entries]
  BY <1>2, <1>3
<1>5. s \in Seq(Entries)
  BY <1>1, <1>4
<1> QED
  BY <1>5 DEF SortedBySum

\* The tables at a step: how compiling is reflected in the variables.
LEMMA StateIsGood ==
  ASSUME TInv
  PROVE  Good([klcs |-> KL_klcs, vks |-> KL_mods_vks])
BY DEF TInv, TypeOK, Good, TableStates

LEMMA StartStep ==
  ASSUME TInv, NEW lang \in Langs, Start(lang)
  PROVE  /\ TInv' /\ SaysKept(KL_klcs, KL_klcs')
         /\ \A i \in DOMAIN KL_klcs' : KL_klcs'[i].lang = KL_vks_lang =>
              \A sc \in Keys : sc_to_vk[lang][sc] \in DefinedVks =>
                KL_mods_vks'[sc] = KL_define_one_vk(KL_klcs'[i].kly, lang, sc)
<1> DEFINE s == [klcs |-> KL_klcs, vks |-> KL_mods_vks]
           t == Activated(s, lang)
           u == KL_define_vks(t, KL_vks_lang, lang)
           r == Klc(t.klcs, KL_vks_lang)
<1>1. /\ selected = Neutral /\ selected' = lang /\ lang # Neutral
      /\ KL_klcs' = u.klcs /\ KL_mods_vks' = u.vks /\ Klc(KL_klcs, KL_vks_lang) # 0
  BY ConfigAssumption DEF Start
<1>2. Good(s) /\ s.klcs = KL_klcs
  BY StateIsGood
<1> HIDE DEF s
<1>3. Good(t) /\ Kept(s, t) /\ SameFlags(s, t)
  BY <1>2, ActivatedKeeps
<1>4. \A i \in DOMAIN t.klcs : ~t.klcs[i].vks_lang
  BY <1>1, <1>2, <1>3 DEF TInv, NothingCompiled, Kept, SameFlags
<1>5. r # 0
  <2>1. r = Klc(s.klcs, KL_vks_lang)
    <3> HIDE DEF t
    <3> QED
      BY <1>2, <1>3, KlcSame DEF Good, Kept
  <2> QED
    BY <1>1, <1>2, <2>1
<1> HIDE DEF t
<1>6. /\ Good(u) /\ Kept(t, u)
      /\ r \in DOMAIN t.klcs /\ t.klcs[r].lang = KL_vks_lang
      /\ \A i \in DOMAIN t.klcs : u.klcs[i].vks_lang => i = r
      /\ KL_vks_lang # Neutral => u.klcs[r].compiled
      /\ \A sc \in Keys : sc_to_vk[lang][sc] \in DefinedVks =>
           u.vks[sc] = KL_define_one_vk(u.klcs[r].kly, lang, sc)
  BY <1>3, <1>4, <1>5, DefineKeeps
<1> HIDE DEF u, r
<1>7. Kept(s, u)
  BY <1>3, <1>6, KeptTwice
<1>8. WellTabled(KL_klcs') /\ KL_klcs' \in Seq(Klcs) /\ KL_mods_vks' \in [Keys -> Vks \cup {NoVk}]
  BY <1>1, <1>6 DEF Good, TableStates
<1>9. DOMAIN KL_klcs' = DOMAIN KL_klcs /\ DOMAIN KL_klcs' = DOMAIN t.klcs
  BY <1>1, <1>2, <1>6, <1>7 DEF Kept
<1>10. r \in DOMAIN KL_klcs' /\ KL_klcs'[r].lang = KL_vks_lang
  BY <1>1, <1>6 DEF Kept
<1>11. KL_vks_lang' = KL_vks_lang
  BY DEF Start
<1>12. TypeOK'
  <2>1. UNCHANGED <<Bind_lvls, Bind_sole_lvl, KL_bind_kly, KL_vks_lang, KR_apps, KR_app, lines>>
    BY DEF Start
  <2>2. KR_titles' \in Seq(Entries) /\ KR_wndcs' \in Seq(Entries)
    BY SortedTyped DEF Start, TInv, TypeOK
  <2> QED
    BY <1>1, <1>8, <1>9, <2>1, <2>2 DEF TInv, TypeOK
<1>13. NothingCompiled'
  BY <1>1 DEF NothingCompiled
<1>14. ReferenceCompiled'
  BY <1>1, <1>6, <1>9, <1>10, <1>11 DEF ReferenceCompiled
<1>15. SaysKept(KL_klcs, KL_klcs')
  BY <1>1, <1>2, <1>7 DEF Kept, SaysKept
<1>16. \A i \in DOMAIN KL_klcs' : KL_klcs'[i].lang = KL_vks_lang => i = r
  BY <1>8, <1>10 DEF WellTabled, LangsDistinct
<1> QED
  BY <1>1, <1>6, <1>8, <1>12, <1>13, <1>14, <1>15, <1>16 DEF TInv

LEMMA ActivateStep ==
  ASSUME TInv, NEW lang \in Langs, KL_activate_lang(lang)
  PROVE  /\ TInv' /\ SaysKept(KL_klcs, KL_klcs')
         /\ DOMAIN KL_klcs' = DOMAIN KL_klcs
         /\ \A i \in DOMAIN KL_klcs : KL_klcs'[i].lang = KL_klcs[i].lang
         /\ KL_vks_lang # Neutral => KL_mods_vks' = KL_mods_vks
<1> DEFINE s == [klcs |-> KL_klcs, vks |-> KL_mods_vks]
           t == Activated(s, lang)
<1>1. selected # Neutral /\ KL_klcs' = t.klcs /\ KL_mods_vks' = t.vks
  BY DEF KL_activate_lang
<1>2. Good(s) /\ s.klcs = KL_klcs /\ s.vks = KL_mods_vks
  BY StateIsGood
<1> HIDE DEF s
<1>3. /\ Good(t) /\ Kept(s, t) /\ SameFlags(s, t)
      /\ (\A i \in DOMAIN s.klcs : s.klcs[i].vks_lang => s.klcs[i].compiled) => t.vks = s.vks
  BY <1>2, ActivatedKeeps
<1> HIDE DEF t
<1>4. /\ UNCHANGED <<Bind_lvls, Bind_sole_lvl, KL_bind_kly, KL_vks_lang, KR_apps, KR_app,
                     KR_titles, KR_wndcs>>
      /\ UNCHANGED <<selected, lines>>
  BY DEF KL_activate_lang, krVars
<1>5. WellTabled(KL_klcs') /\ KL_klcs' \in Seq(Klcs) /\ KL_mods_vks' \in [Keys -> Vks \cup {NoVk}]
  BY <1>1, <1>3 DEF Good, TableStates
<1>6. /\ DOMAIN KL_klcs' = DOMAIN KL_klcs
      /\ \A i \in DOMAIN KL_klcs : /\ KL_klcs'[i].lang = KL_klcs[i].lang
                                   /\ KL_klcs'[i].vks_lang = KL_klcs[i].vks_lang
                                   /\ KL_klcs[i].compiled => KL_klcs'[i].compiled
  BY <1>1, <1>2, <1>3 DEF Kept, SameFlags
<1>7. TypeOK'
  BY <1>4, <1>5, <1>6 DEF TInv, TypeOK
<1>8. NothingCompiled' /\ ReferenceCompiled'
  BY <1>1, <1>4, <1>6 DEF TInv, NothingCompiled, ReferenceCompiled
<1>9. KL_vks_lang # Neutral => KL_mods_vks' = KL_mods_vks
  <2> SUFFICES ASSUME KL_vks_lang # Neutral PROVE KL_mods_vks' = KL_mods_vks
    OBVIOUS
  <2>1. \A i \in DOMAIN KL_klcs : KL_klcs[i].vks_lang => KL_klcs[i].compiled
    BY <1>1 DEF TInv, ReferenceCompiled, WellTabled, LangsDistinct
  <2> QED
    BY <1>1, <1>2, <1>3, <2>1
<1>10. SaysKept(KL_klcs, KL_klcs')
  BY <1>1, <1>2, <1>3 DEF Kept, SaysKept
<1> QED
  BY <1>5, <1>6, <1>7, <1>8, <1>9, <1>10 DEF TInv

LEMMA ConfigInit == Init => TInv
<1> SUFFICES ASSUME Init PROVE TInv
  OBVIOUS
<1>1. NewKlc(Neutral) \in Klcs
  BY DEF NewKlc, Klcs, KLY
<1>2. /\ KL_klcs \in Seq(Klcs) /\ DOMAIN KL_klcs = {1} /\ KL_klcs[1] = NewKlc(Neutral)
  BY <1>1 DEF Init
<1>3. /\ KL_klcs[1].lang = Neutral /\ ~KL_klcs[1].compiled /\ ~KL_klcs[1].vks_lang
  BY <1>2 DEF NewKlc
<1>4. TypeOK
  <2>1. Bind_lvls \subseteq Levels /\ Bind_sole_lvl \in BOOLEAN /\ KL_bind_kly \in DOMAIN KL_klcs
    BY <1>2 DEF Init
  <2>2. /\ KR_apps \in Seq(Seq(KrBind)) /\ KR_app \in 0 .. Len(KR_apps)
        /\ KR_titles \in Seq(Entries) /\ KR_wndcs \in Seq(Entries)
    BY DEF Init
  <2>3. /\ KL_vks_lang \in Langs \cup {Neutral} /\ KL_mods_vks \in [Keys -> Vks \cup {NoVk}]
        /\ selected \in Langs \cup {Neutral} /\ lines \in Nat
    BY DEF Init
  <2> QED
    BY <1>2, <2>1, <2>2, <2>3 DEF TypeOK
<1>5. WellTabled(KL_klcs)
  BY <1>2, <1>3 DEF WellTabled, LangsDistinct, NeutralFirst, NoCharLeft
<1>6. NothingCompiled /\ ReferenceCompiled
  BY <1>2, <1>3 DEF Init, NothingCompiled, ReferenceCompiled
<1> QED
  BY <1>4, <1>5, <1>6 DEF TInv

LEMMA ConfigStep ==
  ASSUME TInv, [Next]_vars
  PROVE  TInv'
<1>1. CASE Next
  <2>1. ASSUME NEW line \in Lines,
               \/ read_bind(line) \/ read_levs(line) \/ read_lang(line) \/ read_title(line)
               \/ read_remap(line) \/ read_vks_lang(line) \/ parse_str(line)
        PROVE  TInv'
    BY <2>1, BindStep, LangStep, OtherStep
  <2>2. ASSUME NEW lang \in Langs, Start(lang) \/ KL_activate_lang(lang)
        PROVE  TInv'
    BY <2>2, StartStep, ActivateStep
  <2> QED
    BY <1>1, <2>1, <2>2 DEF Next
<1>2. CASE UNCHANGED vars
  BY <1>2 DEF vars, readVars, klVars, krVars, startVars, TInv, TypeOK, NothingCompiled,
    ReferenceCompiled
<1> QED
  BY <1>1, <1>2

LEMMA ConfigInvariant == Spec => []TInv
BY ConfigInit, ConfigStep, PTL DEF Spec

\* The types of the tables, whatever the files say and however the layouts are.
THEOREM ConfigTyped == Spec => []TypeOK
<1>1. TInv => TypeOK
  BY DEF TInv
<1> QED
  BY <1>1, ConfigInvariant, PTL

\* What a key does at a level in a language is what was read: no line but one that binds
\* that key changes it, nor does compiling a table, at whatever moment and under whatever
\* layout: the key that a character becomes does what the character did (kl.c:401-611).
THEOREM MeaningKept == Spec => MeaningIsRead
<1>1. ASSUME TInv, [Next]_vars, NEW i \in LangsRead, NEW c \in Cells
      PROVE  \/ UNCHANGED vars
             \/ Says(i, c)' = Says(i, c)
             \/ \E line \in Lines :
                  /\ read_bind(line)
                  /\ c[2] = line.sc /\ c[1] \in BoundLevels
                  /\ KL_klcs[KL_bind_kly].lang \in {KL_klcs[i].lang, Neutral}
  <2>1. i \in DOMAIN KL_klcs /\ KL_klcs[i].lang # Neutral
    BY DEF LangsRead
  <2>2. Says(i, c) = SaysOf(KL_klcs, i, c) /\ Says(i, c)' = SaysOf(KL_klcs', i, c)
    BY DEF Says, Entry, SaysOf, EntryOf
  <2>3. ASSUME NEW line \in Lines, read_bind(line)
        PROVE  \/ SaysOf(KL_klcs', i, c) = SaysOf(KL_klcs, i, c)
               \/ /\ c[2] = line.sc /\ c[1] \in BoundLevels
                  /\ KL_klcs[KL_bind_kly].lang \in {KL_klcs[i].lang, Neutral}
    BY <1>1, <2>1, <2>3, BindStep
  <2>4. ASSUME NEW line \in Lines,
               \/ read_levs(line) \/ read_lang(line) \/ read_title(line)
               \/ read_remap(line) \/ read_vks_lang(line) \/ parse_str(line)
        PROVE  SaysOf(KL_klcs', i, c) = SaysOf(KL_klcs, i, c)
    BY <1>1, <2>1, <2>4, LangStep, OtherStep DEF SaysKept
  <2>5. ASSUME NEW lang \in Langs, Start(lang) \/ KL_activate_lang(lang)
        PROVE  SaysOf(KL_klcs', i, c) = SaysOf(KL_klcs, i, c)
    BY <1>1, <2>1, <2>5, StartStep, ActivateStep DEF SaysKept
  <2> QED
    BY <1>1, <2>2, <2>3, <2>4, <2>5 DEF Next
<1>2. TInv /\ [Next]_vars =>
        [\A i \in LangsRead, c \in Cells :
           \/ Says(i, c)' = Says(i, c)
           \/ \E line \in Lines :
                /\ read_bind(line)
                /\ c[2] = line.sc /\ c[1] \in BoundLevels
                /\ KL_klcs[KL_bind_kly].lang \in {KL_klcs[i].lang, Neutral}]_vars
  BY <1>1
<1> QED
  BY <1>2, ConfigInvariant, PTL DEF Spec, MeaningIsRead

-----------------------------------------------------------------------------
\* Shortcuts.

\* What KL_define_one_vk finds in a compiled table is what the key does.
LEMMA ShortcutDoes ==
  ASSUME NEW klcs, WellTabled(klcs), NEW i \in DOMAIN klcs, klcs[i].compiled,
         klcs[i].lang \in Langs, NEW layout \in Langs, NEW sc \in Keys,
         sc_to_vk[layout][sc] = sc_to_vk[klcs[i].lang][sc]
  PROVE  LET means == SaysOf(klcs, i, <<0, sc>>)
         IN KL_define_one_vk(klcs[i].kly, layout, sc) =
              IF means.type = "vk" /\ means.mods = {} THEN means.code ELSE sc_to_vk[layout][sc]
<1> DEFINE c == <<0, sc>>
           lk == klcs[i].kly[c]
           lang == klcs[i].lang
           means == SaysOf(klcs, i, c)
<1>1. c \in Cells /\ c[1] = 0 /\ c[2] = sc
  BY ConfigAssumption DEF Cells, Levels
<1>2. klcs[i].kly \in KLY
  <2>1. klcs[i] \in Klcs
    BY DEF WellTabled
  <2> QED
    BY <2>1, KlcTyped
<1>3. lk \in Binding \cup {Inactive}
  BY <1>1, <1>2 DEF KLY
<1>4. lk.type = "char" => VkKeyScan[lang][lk.code] = NoKey
  BY <1>1 DEF WellTabled, NoCharLeft
<1>5. means = Does(lang, c, lk)
  BY DEF SaysOf, EntryOf
<1>6. KL_define_one_vk(klcs[i].kly, layout, sc) =
        IF lk.type = "vk" /\ lk.mods = {} THEN lk.code ELSE sc_to_vk[layout][sc]
  BY DEF KL_define_one_vk
<1>7. lk.type \in {"none", "vk", "char", "ka"}
  BY <1>3 DEF Binding, VkBinding, Inactive
<1>8. Shifted(0) = {}
  BY DEF Shifted
<1> HIDE DEF lk, lang, means, c
<1>9. CASE lk.type = "none"
  <2>1. means = [type |-> "vk", code |-> sc_to_vk[lang][sc], mods |-> {}]
    BY <1>1, <1>5, <1>8, <1>9 DEF Does
  <2>2. sc_to_vk[layout][sc] = sc_to_vk[lang][sc]
    BY DEF lang
  <2> QED
    BY <1>6, <1>9, <2>1, <2>2 DEF means, c
<1>10. CASE lk.type # "none"
  <2>1. means = lk
    BY <1>4, <1>5, <1>10 DEF Does
  <2> QED
    BY <1>6, <2>1 DEF means, c
<1> QED
  BY <1>9, <1>10

LEMMA ShortcutsStep ==
  ASSUME TInv, ShortcutsOfReference, [Next]_vars
  PROVE  ShortcutsOfReference'
<1>1. CASE UNCHANGED vars
  BY <1>1 DEF vars, readVars, klVars, krVars, startVars, ShortcutsOfReference, Says, Entry
<1>2. ASSUME NEW line \in Lines,
             \/ read_bind(line) \/ read_levs(line) \/ read_lang(line) \/ read_title(line)
             \/ read_remap(line) \/ read_vks_lang(line) \/ parse_str(line)
      PROVE  ShortcutsOfReference'
  <2>1. selected' = Neutral
    BY <1>2 DEF read_bind, read_levs, read_lang, read_title, read_remap, read_vks_lang, parse_str,
      Reading, startVars
  <2> QED
    BY <2>1 DEF ShortcutsOfReference
<1>3. ASSUME NEW lang \in Langs, Start(lang), KL_vks_lang' # Neutral, NEW sc \in Keys,
             sc_to_vk[selected'][sc] = sc_to_vk[KL_vks_lang'][sc],
             sc_to_vk[selected'][sc] \in DefinedVks
      PROVE  LET means == SaysOf(KL_klcs', Klc(KL_klcs', KL_vks_lang'), <<0, sc>>)
             IN KL_mods_vks'[sc] = IF means.type = "vk" /\ means.mods = {} THEN means.code
                                   ELSE sc_to_vk[selected'][sc]
  <2>1. selected' = lang /\ KL_vks_lang' = KL_vks_lang /\ lang # Neutral
    BY <1>3, ConfigAssumption DEF Start
  <2>2. /\ TInv'
        /\ \A i \in DOMAIN KL_klcs' : KL_klcs'[i].lang = KL_vks_lang =>
             KL_mods_vks'[sc] = KL_define_one_vk(KL_klcs'[i].kly, lang, sc)
    BY <1>3, <2>1, StartStep
  <2>3. PICK i \in DOMAIN KL_klcs' : KL_klcs'[i].lang = KL_vks_lang /\ KL_klcs'[i].compiled
    BY <1>3, <2>1, <2>2 DEF TInv, ReferenceCompiled
  <2>4. WellTabled(KL_klcs') /\ KL_vks_lang \in Langs
    BY <1>3, <2>1, <2>2 DEF TInv, TypeOK
  <2>5. Klc(KL_klcs', KL_vks_lang) = i
    BY <2>3, <2>4, KlcIs
  <2> DEFINE means == SaysOf(KL_klcs', i, <<0, sc>>)
  <2>6. KL_define_one_vk(KL_klcs'[i].kly, lang, sc) =
          IF means.type = "vk" /\ means.mods = {} THEN means.code ELSE sc_to_vk[lang][sc]
    BY <1>3, <2>1, <2>3, <2>4, ShortcutDoes
  <2> QED
    BY <2>1, <2>2, <2>3, <2>5, <2>6
<1>4. ASSUME NEW lang \in Langs, KL_activate_lang(lang), KL_vks_lang' # Neutral, NEW sc \in Keys,
             sc_to_vk[selected'][sc] = sc_to_vk[KL_vks_lang'][sc],
             sc_to_vk[selected'][sc] \in DefinedVks
      PROVE  LET means == SaysOf(KL_klcs', Klc(KL_klcs', KL_vks_lang'), <<0, sc>>)
             IN KL_mods_vks'[sc] = IF means.type = "vk" /\ means.mods = {} THEN means.code
                                   ELSE sc_to_vk[selected'][sc]
  <2>1. selected' = selected /\ selected # Neutral /\ KL_vks_lang' = KL_vks_lang
    BY <1>4 DEF KL_activate_lang
  <2>2. /\ TInv' /\ SaysKept(KL_klcs, KL_klcs') /\ KL_mods_vks' = KL_mods_vks
        /\ DOMAIN KL_klcs' = DOMAIN KL_klcs
        /\ \A i \in DOMAIN KL_klcs : KL_klcs'[i].lang = KL_klcs[i].lang
    BY <1>4, <2>1, ActivateStep
  <2>3. PICK i \in DOMAIN KL_klcs : KL_klcs[i].lang = KL_vks_lang
    BY <1>4, <2>1 DEF TInv, ReferenceCompiled
  <2>4. WellTabled(KL_klcs') /\ WellTabled(KL_klcs)
    BY <2>2 DEF TInv
  <2>5. Klc(KL_klcs, KL_vks_lang) = i
    BY <2>3, <2>4, KlcIs
  <2>6. Klc(KL_klcs', KL_vks_lang) = i
    BY <2>2, <2>4, <2>5, KlcSame
  <2> DEFINE means == SaysOf(KL_klcs, i, <<0, sc>>)
  <2>7. Says(i, <<0, sc>>) = means
    BY SaysIsOf
  <2>8. KL_mods_vks[sc] = IF means.type = "vk" /\ means.mods = {} THEN means.code
                          ELSE sc_to_vk[selected][sc]
    BY <1>4, <2>1, <2>5, <2>7 DEF ShortcutsOfReference
  <2>9. SaysOf(KL_klcs', i, <<0, sc>>) = means
    <3>1. <<0, sc>> \in Cells
      BY ConfigAssumption DEF Cells, Levels
    <3> QED
      BY <1>4, <2>1, <2>2, <2>3, <3>1 DEF SaysKept
  <2> QED
    BY <2>1, <2>2, <2>6, <2>8, <2>9
<1>5. ASSUME NEW lang \in Langs, Start(lang) \/ KL_activate_lang(lang)
      PROVE  ShortcutsOfReference'
  <2>1. \A i, c : Says(i, c)' = SaysOf(KL_klcs', i, c)
    BY DEF Says, Entry, SaysOf, EntryOf
  <2> QED
    BY <1>3, <1>4, <1>5, <2>1 DEF ShortcutsOfReference
<1> QED
  BY <1>1, <1>2, <1>5 DEF Next

\* A shortcut is what its key means, at the first level, in the language of reference,
\* for the listed keys that the two layouts have at one place: with any tables, any order
\* in which the two languages are compiled, and any languages selected later.
THEOREM ShortcutsRefer == Spec => []ShortcutsOfReference
<1>1. Init => ShortcutsOfReference
  BY DEF Init, ShortcutsOfReference
<1> QED
  BY <1>1, ConfigInvariant, ShortcutsStep, PTL DEF Spec

-----------------------------------------------------------------------------
\* The bindings of a line among the levels.

InPairs(B) == \A lv \in Levels : lv \in B <=> (lv - (lv % 2)) \in B

\* Of levels that come in pairs, those below a level are even in number if it is even.
LEMMA PairsBelow ==
  ASSUME NEW B \in SUBSET Levels, InPairs(B), NEW lv \in B
  PROVE  Cardinality({l \in B : l < lv}) \in Nat /\ Cardinality({l \in B : l < lv}) % 2 = lv % 2
<1> DEFINE Below(n) == {l \in B : l < n}
           C(n) == Cardinality(Below(n))
           P == {n \in 0 .. KLVN - 1 :
                   C(n) % 2 = IF n % 2 = 1 /\ n - 1 \in B THEN 1 ELSE 0}
<1>1. KLVN \in Nat /\ KLVN > 0 /\ Levels = 0 .. KLVN - 1 /\ \A l \in B : l \in Nat
  BY ConfigAssumption DEF Levels
<1>2. \A n \in Nat : IsFiniteSet(Below(n)) /\ C(n) \in Nat
  <2> TAKE n \in Nat
  <2>1. Below(n) \in SUBSET Levels
    OBVIOUS
  <2> QED
    BY <2>1, LevelsFinite
<1>3. \A n \in Nat : C(n + 1) = C(n) + IF n \in B THEN 1 ELSE 0
  <2> TAKE n \in Nat
  <2>1. CASE n \in B
    <3>1. (\A l \in B : l < n + 1 <=> l < n \/ l = n) /\ ~(n < n)
      BY <1>1
    <3>2. Below(n + 1) = Below(n) \cup {n} /\ n \notin Below(n)
      BY <2>1, <3>1
    <3> HIDE DEF Below
    <3>3. Cardinality(Below(n) \cup {n}) = Cardinality(Below(n)) + 1
      BY <1>2, <3>2, FS_AddElement
    <3> QED
      BY <2>1, <3>2, <3>3
  <2>2. CASE n \notin B
    <3>1. \A l \in B : l < n + 1 <=> l < n
      BY <1>1, <2>2
    <3>2. Below(n + 1) = Below(n)
      BY <3>1
    <3> HIDE DEF Below
    <3> QED
      BY <1>2, <2>2, <3>2
  <2> QED
    BY <2>1, <2>2
<1>4. 0 \in P
  <2>0. \A l \in B : ~(l < 0)
    BY <1>1
  <2>1. Below(0) = {}
    BY <2>0
  <2>2. C(0) = 0
    BY <2>1, FS_EmptySet
  <2> HIDE DEF C
  <2> QED
    BY <1>1, <2>2
<1>5. ASSUME NEW n \in 0 .. (KLVN - 1) - 1, n \in P PROVE n + 1 \in P
  <2> HIDE DEF C, Below
  <2>1. C(n) \in Nat /\ C(n + 1) = C(n) + IF n \in B THEN 1 ELSE 0
    BY <1>2, <1>3
  <2>2. n \in Levels /\ n \in Nat /\ n + 1 \in 0 .. KLVN - 1
    BY <1>1
  <2>3. n % 2 \in {0, 1}
    BY <2>2
  <2>4. CASE n % 2 = 0
    <3>1. C(n) % 2 = 0 /\ (n + 1) % 2 = 1 /\ (n + 1) - 1 = n
      BY <1>5, <2>2, <2>4
    <3>2. C(n + 1) % 2 = IF n \in B THEN 1 ELSE 0
      BY <2>1, <3>1
    <3> QED
      BY <2>2, <3>1, <3>2
  <2>5. CASE n % 2 = 1
    <3>1. n \in B <=> n - 1 \in B
      BY <2>2, <2>5 DEF InPairs
    <3>2. C(n) % 2 = (IF n \in B THEN 1 ELSE 0) /\ (n + 1) % 2 = 0
      BY <1>5, <2>2, <2>5, <3>1
    <3>3. C(n + 1) % 2 = 0
      BY <2>1, <3>2
    <3> QED
      BY <2>2, <3>2, <3>3
  <2> QED
    BY <2>3, <2>4, <2>5
<1>6. lv \in 0 .. KLVN - 1 /\ lv \in Nat
  BY <1>1 DEF Levels
<1>7. lv \in P
  <2>1. KLVN - 1 \in Nat
    BY <1>1
  <2> HIDE DEF P
  <2> QED
    BY <1>4, <1>5, <1>6, <2>1, UpTo
<1>8. C(lv) \in Nat
  BY <1>2, <1>6
<1>9. lv % 2 = 1 => lv - 1 \in B
  BY <1>6 DEF InPairs
<1> HIDE DEF C
<1>10. C(lv) % 2 = lv % 2
  BY <1>6, <1>7, <1>9
<1> QED
  BY <1>8, <1>10 DEF C

\* Two bindings of a line go to the plain and to the shifted levels, while the levels bound
\* are pairs: for any number of levels, all bound or some (parse.c:372-402).
THEOREM TwoBindingsAlternate == Spec => PairsAlternate
<1>1. ASSUME TInv, NEW line \in Lines, read_bind(line), Len(line.binds) = 2,
             InPairs(BoundLevels), NEW lv \in BoundLevels
      PROVE  KL_klcs[KL_bind_kly].kly'[<<lv, line.sc>>] =
               LK(read_binding(line.binds[1 + (lv % 2)]), lv)
  <2> DEFINE before == Cardinality({l \in BoundLevels : l < lv})
  <2>1. BoundLevels \subseteq Levels /\ lv \in Levels
    BY <1>1, BoundLevelsAre DEF TInv, TypeOK
  <2>2. before \in Nat /\ before % 2 = lv % 2
    BY <1>1, <2>1, PairsBelow
  <2>3. BindingAt(line.binds, lv) = line.binds[(before % 2) + 1]
    BY <1>1 DEF BindingAt
  <2> HIDE DEF before
  <2>4. (before % 2) + 1 = 1 + (lv % 2)
    <3>1. lv \in Nat
      BY <2>1, ConfigAssumption DEF Levels
    <3> QED
      BY <2>2, <3>1
  <2>5. line.sc \in Keys
    BY <1>1, LineIs DEF read_bind, Reading, BindLines
  <2>6. <<lv, line.sc>> \in Cells
    BY <2>1, <2>5 DEF Cells
  <2>7. KL_bind_kly' = KL_bind_kly /\ KL_bind_kly \in DOMAIN KL_klcs
    BY <1>1 DEF read_bind, TInv, TypeOK
  <2>8. KL_klcs'[KL_bind_kly].kly[<<lv, line.sc>>] =
          LK(read_binding(BindingAt(line.binds, lv)), lv)
    BY <1>1, <2>6, <2>7, BindWrites DEF BoundTo
  <2> QED
    BY <2>3, <2>4, <2>7, <2>8
<1>2. TInv /\ [Next]_vars =>
        [\A line \in Lines :
           /\ read_bind(line) /\ Len(line.binds) = 2
           /\ \A lv \in Levels : lv \in BoundLevels <=> (lv - (lv % 2)) \in BoundLevels
           => \A lv \in BoundLevels :
                KL_klcs[KL_bind_kly].kly'[<<lv, line.sc>>] =
                  LK(read_binding(line.binds[1 + (lv % 2)]), lv)]_vars
  BY <1>1 DEF InPairs
<1> QED
  BY <1>2, ConfigInvariant, PTL DEF Spec, PairsAlternate

-----------------------------------------------------------------------------
\* Hashed names.

\* The loop of KR_hash, from its element i on: acc as HashPairs has it.
HashStep(sums, acc, i) ==
  IF i = 1 THEN [acc EXCEPT !.sum0 = sums[1]]
  ELSE IF sums[i] = acc.sum0 THEN acc
  ELSE [sum0 |-> sums[i], i1 |-> i - 1,
        pairs |-> [acc.pairs EXCEPT ![acc.sum0] = [one |-> acc.i1 + 1, two |-> i - 2]]]

HashBase == [sum0 |-> 0, i1 |-> 0, pairs |-> NoPairs]

Ranges == [Sums -> [one : Nat, two : Int]]
HashStates(V, N) == [sum0 : V, i1 : 0 .. N, pairs : Ranges]

LEMMA HashPairsIs ==
  ASSUME NEW sums
  PROVE  HashPairs(sums) =
           (CHOOSE iter : iter = [s \in SUBSET DOMAIN sums |->
              IF s = {} THEN HashBase
              ELSE HashStep(sums, iter[s \ {Max(s)}], [i \in DOMAIN sums |-> i][Max(s)])])
           [DOMAIN sums].pairs
BY DEF HashPairs, FoldLeftDomain, FoldLeft, MapThenFoldSet, HashStep, HashBase

\* f is what the loop has after some of the elements.
HashRun(f, sums, N) ==
  \A s \in SUBSET (1 .. N) :
    f[s] = IF s = {} THEN HashBase ELSE HashStep(sums, f[s \ {Max(s)}], Max(s))

LEMMA HashRunOnce ==
  ASSUME NEW N \in Nat, NEW sums, NEW f, NEW h, HashRun(f, sums, N), HashRun(h, sums, N)
  PROVE  f[1 .. N] = h[1 .. N]
<1> DEFINE P == {n \in 0 .. N : \A s \in SUBSET (1 .. n) : h[s] = f[s]}
<1>1. 0 \in P
  <2>1. \A s \in SUBSET (1 .. 0) : s = {}
    OBVIOUS
  <2>2. {} \in SUBSET (1 .. N)
    OBVIOUS
  <2>3. h[{}] = f[{}]
    BY <2>2 DEF HashRun
  <2>4. \A s \in SUBSET (1 .. 0) : h[s] = f[s]
    BY <2>1, <2>3
  <2>5. 0 \in 0 .. N
    OBVIOUS
  <2> QED
    BY <2>4, <2>5
<1>2. ASSUME NEW n \in 0 .. N - 1, n \in P PROVE n + 1 \in P
  <2>1. ASSUME NEW s \in SUBSET (1 .. n + 1) PROVE h[s] = f[s]
    <3>1. s \in SUBSET (1 .. N)
      OBVIOUS
    <3>2. CASE s = {}
      BY <3>1, <3>2 DEF HashRun
    <3>3. CASE s # {}
      <4> DEFINE m == Max(s)
      <4>1. m \in s /\ \A y \in s : y <= m
        BY <3>1, <3>3, MaxProperties
      <4>2. /\ h[s] = HashStep(sums, h[s \ {m}], m)
            /\ f[s] = HashStep(sums, f[s \ {m}], m)
        BY <3>1, <3>3 DEF HashRun
      <4> HIDE DEF m
      <4>3. s \ {m} \in SUBSET (1 .. n)
        BY <4>1
      <4>4. h[s \ {m}] = f[s \ {m}]
        BY <1>2, <4>3
      <4> QED
        BY <4>2, <4>4
    <3> QED
      BY <3>2, <3>3
  <2>2. n + 1 \in 0 .. N
    OBVIOUS
  <2> QED
    BY <2>1, <2>2
<1>3. N \in 0 .. N
  OBVIOUS
<1> HIDE DEF P
<1>4. N \in P
  BY <1>1, <1>2, <1>3, UpTo
<1> QED
  BY <1>4 DEF P

\* What the loop has after each element.
HashTrace(f, sums, N) ==
  /\ f \in [SUBSET (1 .. N) -> HashStates({0} \cup {sums[i] : i \in 1 .. N}, N)]
  /\ HashPairs(sums) = f[1 .. N].pairs
  /\ f[{}] = HashBase
  /\ \A i \in 1 .. N : f[1 .. i] = HashStep(sums, f[1 .. i - 1], i)

LEMMA HashLoop ==
  ASSUME NEW N \in Nat, N > 0, NEW sums, DOMAIN sums = 1 .. N
  PROVE  \E f : HashTrace(f, sums, N)
<1> DEFINE V == {0} \cup {sums[i] : i \in 1 .. N}
           A == HashStates(V, N)
           D == DOMAIN sums
           g == [x \in A \X D |-> HashStep(sums, x[1], x[2])]
<1> HIDE DEF D
<1>0. D = 1 .. N
  BY DEF D
<1>1. HashBase \in A
  BY DEF HashBase, HashStates, NoPairs, Ranges
<1>2. ASSUME NEW acc \in A, NEW i \in D PROVE HashStep(sums, acc, i) \in A
  <2>1. /\ acc.sum0 \in V /\ acc.i1 \in 0 .. N /\ acc.pairs \in Ranges
        /\ acc = [sum0 |-> acc.sum0, i1 |-> acc.i1, pairs |-> acc.pairs]
    BY DEF HashStates
  <2>2. sums[i] \in V /\ sums[1] \in V /\ i \in 1 .. N
    BY <1>0
  <2> HIDE DEF V
  <2>3. CASE i = 1
    <3>1. HashStep(sums, acc, i) = [sum0 |-> sums[1], i1 |-> acc.i1, pairs |-> acc.pairs]
      BY <2>1, <2>3 DEF HashStep
    <3> QED
      BY <2>1, <2>2, <3>1 DEF HashStates
  <2>4. CASE i # 1 /\ sums[i] = acc.sum0
    BY <2>4 DEF HashStep
  <2>5. CASE i # 1 /\ sums[i] # acc.sum0
    <3> DEFINE range == [one |-> acc.i1 + 1, two |-> i - 2]
               pairs == [acc.pairs EXCEPT ![acc.sum0] = range]
    <3>1. range \in [one : Nat, two : Int]
      BY <2>1, <2>2
    <3> HIDE DEF range
    <3>2. pairs \in Ranges
      BY <2>1, <3>1 DEF Ranges
    <3>3. HashStep(sums, acc, i) = [sum0 |-> sums[i], i1 |-> i - 1, pairs |-> pairs]
      BY <2>5 DEF HashStep, range
    <3>4. i - 1 \in 0 .. N
      BY <2>2
    <3> HIDE DEF pairs
    <3> QED
      BY <2>2, <3>2, <3>3, <3>4 DEF HashStates
  <2> QED
    BY <2>3, <2>4, <2>5
<1>3. g \in [A \X D -> A] /\ \A acc \in A, i \in D : g[<<acc, i>>] = HashStep(sums, acc, i)
  BY <1>2
<1> HIDE DEF A, g
<1>4. PICK f \in [SUBSET D -> A] : IsFold(f, HashBase, g, N)
  BY <1>0, <1>1, <1>3, FoldExists
<1>5. ASSUME NEW s \in SUBSET D, s # {}
      PROVE  /\ Max(s) \in D /\ s \ {Max(s)} \in SUBSET D
             /\ f[s] = HashStep(sums, f[s \ {Max(s)}], Max(s))
  <2>1. Max(s) \in s
    BY <1>0, <1>5, MaxProperties
  <2> QED
    BY <1>0, <1>3, <1>4, <1>5, <2>1 DEF IsFold
<1>6. f[{}] = HashBase
  BY <1>4 DEF IsFold
<1> DEFINE F(iter) == [s \in SUBSET D |->
                         IF s = {} THEN HashBase
                         ELSE HashStep(sums, iter[s \ {Max(s)}], [i \in D |-> i][Max(s)])]
<1>7. f = F(f)
  <2>1. \A s \in SUBSET D : f[s] = F(f)[s]
    BY <1>5, <1>6
  <2> QED
    BY <1>4, <2>1
<1>8. ASSUME NEW h, h = F(h) PROVE h[D] = f[D]
  <2>1. \A s \in SUBSET D :
          h[s] = IF s = {} THEN HashBase
                 ELSE HashStep(sums, h[s \ {Max(s)}], [i \in D |-> i][Max(s)])
    BY <1>8
  <2>2. HashRun(h, sums, N)
    <3>1. ASSUME NEW s \in SUBSET (1 .. N), s # {} PROVE Max(s) \in D
      BY <1>0, <1>5, <3>1
    <3> QED
      BY <1>0, <2>1, <3>1 DEF HashRun
  <2>3. HashRun(f, sums, N)
    BY <1>0, <1>5, <1>6 DEF HashRun
  <2> QED
    BY <1>0, <2>2, <2>3, HashRunOnce
<1>9. HashPairs(sums) = f[D].pairs
  <2>1. HashPairs(sums) = (CHOOSE iter : iter = F(iter))[D].pairs
    BY HashPairsIs DEF D
  <2> HIDE DEF F
  <2>2. (CHOOSE iter : iter = F(iter)) = F(CHOOSE iter : iter = F(iter))
    BY <1>7
  <2> QED
    BY <1>8, <2>1, <2>2
<1>10. ASSUME NEW i \in 1 .. N PROVE f[1 .. i] = HashStep(sums, f[1 .. i - 1], i)
  <2>1. Max(1 .. i) = i /\ (1 .. i) \ {i} = 1 .. i - 1
    BY MaxOfFirst
  <2>2. (1 .. i) \in SUBSET D /\ 1 .. i # {}
    BY <1>0
  <2>3. f[1 .. i] = HashStep(sums, f[(1 .. i) \ {Max(1 .. i)}], Max(1 .. i))
    BY <1>5, <2>2
  <2> QED
    BY <2>1, <2>3
<1> QED
  BY <1>0, <1>4, <1>6, <1>9, <1>10 DEF A, HashTrace

LEMMA ChecksumTyped ==
  ASSUME NEW str \in Strs
  PROVE  KR_str_checksum(str) \in Sums /\ KR_str_checksum(str) \in Nat
<1>1. Sum[str] \in Nat /\ SumLen \in Nat /\ SumLen > 0
  BY ConfigAssumption
<1>2. Sum[str] % SumLen \in 0 .. SumLen - 1
  BY <1>1
<1> QED
  BY <1>1, <1>2 DEF KR_str_checksum, Sums

\* What is so after the element i: the run of equal checksums that i is in began after
\* i1, and every checksum before it has the range of all its elements.
RunOf(sums, i, acc) ==
  /\ acc.sum0 = sums[i] /\ acc.i1 \in 0 .. i - 1 /\ acc.pairs \in Ranges
  /\ \A k \in acc.i1 + 1 .. i : sums[k] = sums[i]
  /\ acc.i1 > 0 => sums[acc.i1] # sums[acc.i1 + 1]
  /\ \A h \in Sums :
       /\ acc.pairs[h].one = 0 => \A k \in 1 .. acc.i1 : sums[k] # h
       /\ acc.pairs[h].one # 0 =>
            /\ \E k \in 1 .. acc.i1 : sums[k] = h
            /\ \A k : k \in acc.pairs[h].one .. acc.pairs[h].two + 1 <=>
                     k \in 1 .. acc.i1 /\ sums[k] = h

LEMMA RunGoesOn ==
  ASSUME NEW N \in Nat, NEW sums, NEW i \in 1 .. N - 1, NEW acc, RunOf(sums, i, acc),
         acc = [sum0 |-> acc.sum0, i1 |-> acc.i1, pairs |-> acc.pairs],
         \A k \in 1 .. N - 1 : sums[k] \in Sums,
         \A j, k \in 1 .. N - 1 : j < k => sums[j] <= sums[k]
  PROVE  RunOf(sums, i + 1, HashStep(sums, acc, i + 1))
<1> DEFINE i1 == acc.i1
           new == HashStep(sums, acc, i + 1)
<1>1. i + 1 # 1 /\ i \in 1 .. N - 1 /\ i1 \in 0 .. i - 1
  BY DEF RunOf
<1>2. CASE sums[i + 1] = acc.sum0
  <2>1. new = acc
    BY <1>1, <1>2 DEF HashStep
  <2>2. \A k \in i1 + 1 .. i + 1 : sums[k] = sums[i + 1]
    BY <1>1, <1>2 DEF RunOf
  <2> HIDE DEF new
  <2>3. acc.sum0 = sums[i + 1] /\ acc.i1 \in 0 .. (i + 1) - 1
    BY <1>1, <1>2
  <2>4. RunOf(sums, i + 1, acc)
    BY <2>2, <2>3 DEF RunOf
  <2> QED
    BY <2>1, <2>4 DEF new
<1>3. CASE sums[i + 1] # acc.sum0
  <2> DEFINE s == acc.sum0
             range == [one |-> i1 + 1, two |-> i - 1]
             pairs == [acc.pairs EXCEPT ![s] = range]
  <2>1. new = [sum0 |-> sums[i + 1], i1 |-> i, pairs |-> pairs]
    <3>1. (i + 1) - 1 = i /\ (i + 1) - 2 = i - 1
      BY <1>1
    <3> QED
      BY <1>1, <1>3, <3>1 DEF HashStep
  <2>2. s = sums[i] /\ s \in Sums /\ acc.pairs \in Ranges
    BY DEF RunOf
  <2>3. pairs \in Ranges /\ \A h \in Sums : pairs[h] = IF h = s THEN range ELSE acc.pairs[h]
    <3>1. range \in [one : Nat, two : Int]
      BY <1>1
    <3> HIDE DEF range, s
    <3> QED
      BY <2>2, <3>1 DEF Ranges
  <2>4. range.one = i1 + 1 /\ range.two + 1 = i
    BY <1>1
  <2> HIDE DEF pairs, range
  <2>5. \A k \in 1 .. i1 : sums[k] # s
    <3> SUFFICES ASSUME NEW k \in 1 .. i1, sums[k] = s PROVE FALSE
      OBVIOUS
    <3>1. i1 \in 1 .. N - 1 /\ i1 + 1 \in 1 .. N - 1 /\ i1 < i1 + 1 /\ k \in 1 .. N - 1
      BY <1>1
    <3>2. sums[i1 + 1] = s /\ sums[i1] # s
      BY <1>1, <2>2, <3>1 DEF RunOf
    <3>3. sums[i1] <= s
      BY <3>1, <3>2
    <3>4. s <= sums[i1]
      <4>1. k # i1
        BY <3>2
      <4>2. k < i1
        BY <1>1, <4>1
      <4> QED
        BY <3>1, <4>2
    <3>5. sums[i1] \in Sums /\ s \in Sums /\ \A x \in Sums : x \in Int
      BY <2>2, <3>1 DEF Sums
    <3> QED
      BY <3>2, <3>3, <3>4, <3>5
  <2>6. \A k \in i1 + 1 .. i : sums[k] = s
    BY <2>2 DEF RunOf
  <2>7. ASSUME NEW h \in Sums
        PROVE  /\ pairs[h].one = 0 => \A k \in 1 .. i : sums[k] # h
               /\ pairs[h].one # 0 =>
                    /\ \E k \in 1 .. i : sums[k] = h
                    /\ \A k : k \in pairs[h].one .. pairs[h].two + 1 <=>
                             k \in 1 .. i /\ sums[k] = h
    <3>1. CASE h = s
      <4>1. pairs[h].one = i1 + 1 /\ pairs[h].two + 1 = i
        BY <2>3, <2>4, <3>1
      <4>2. \A k : k \in i1 + 1 .. i <=> k \in 1 .. i /\ sums[k] = h
        <5>1. \A k : k \in i1 + 1 .. i => k \in 1 .. i /\ sums[k] = h
          BY <1>1, <2>6, <3>1
        <5>2. \A k \in 1 .. i : k \in 1 .. i1 \/ k \in i1 + 1 .. i
          BY <1>1
        <5> QED
          BY <2>5, <3>1, <5>1, <5>2
      <4>3. i \in 1 .. i /\ sums[i] = h /\ i1 + 1 # 0
        BY <1>1, <2>2, <3>1
      <4> QED
        BY <4>1, <4>2, <4>3
    <3>2. CASE h # s
      <4>1. pairs[h] = acc.pairs[h]
        BY <2>3, <3>2
      <4>2. \A k : k \in 1 .. i /\ sums[k] = h <=> k \in 1 .. i1 /\ sums[k] = h
        <5>1. \A k \in 1 .. i : k \in 1 .. i1 \/ k \in i1 + 1 .. i
          BY <1>1
        <5>2. \A k \in 1 .. i1 : k \in 1 .. i
          BY <1>1
        <5> QED
          BY <2>6, <3>2, <5>1, <5>2
      <4>3. /\ acc.pairs[h].one = 0 => \A k \in 1 .. i1 : sums[k] # h
            /\ acc.pairs[h].one # 0 =>
                 /\ \E k \in 1 .. i1 : sums[k] = h
                 /\ \A k : k \in acc.pairs[h].one .. acc.pairs[h].two + 1 <=>
                          k \in 1 .. i1 /\ sums[k] = h
        BY DEF RunOf
      <4> QED
        BY <4>1, <4>2, <4>3
    <3> QED
      BY <3>1, <3>2
  <2>8. new.sum0 = sums[i + 1] /\ new.i1 = i /\ new.pairs = pairs
    BY <2>1
  <2> HIDE DEF new, s
  <2>9. \A k \in new.i1 + 1 .. i + 1 : sums[k] = sums[i + 1]
    BY <1>1, <2>8
  <2>10. sums[new.i1] # sums[new.i1 + 1] /\ new.i1 \in 0 .. (i + 1) - 1
    BY <1>1, <1>3, <2>2, <2>8 DEF s
  <2>11. RunOf(sums, i + 1, new)
    BY <2>3, <2>7, <2>8, <2>9, <2>10 DEF RunOf
  <2> QED
    BY <2>11 DEF new
<1> QED
  BY <1>2, <1>3

SortedEntries(s) ==
  /\ s \in Seq(Entries)
  /\ \A i, j \in DOMAIN s : i < j => KR_str_checksum(s[i].str) <= KR_str_checksum(s[j].str)

RangeHolds(entries, pairs, h) ==
  IF pairs[h].one = 0 THEN WithSum(entries, h) = {} \/ IsLast(entries, h)
  ELSE pairs[h].one .. pairs[h].two + 1 = WithSum(entries, h)

\* KR_hash: the ranges of sorted names, whatever the memory after them holds.
LEMMA HashRanges ==
  ASSUME NEW entries, SortedEntries(entries), NEW past
  PROVE  \A h \in Sums : RangeHolds(entries, KR_hash(entries, past), h)
<1> DEFINE n == Len(entries)
           N == n + 1
           front == [i \in DOMAIN entries |-> KR_str_checksum(entries[i].str)]
           sums == Append(front, past)
           V == {0} \cup {sums[i] : i \in 1 .. N}
           A == HashStates(V, N)
<1>1. entries \in Seq(Entries) /\ n \in Nat /\ DOMAIN entries = 1 .. n
  BY DEF SortedEntries
<1>2. \A i \in 1 .. n : front[i] = KR_str_checksum(entries[i].str) /\ front[i] \in Sums
  <2>1. \A i \in 1 .. n : entries[i] \in Entries
    BY <1>1
  <2>2. \A i \in 1 .. n : entries[i].str \in Strs
    BY <2>1 DEF Entries
  <2> QED
    BY <1>1, <2>2, ChecksumTyped
<1>3. front \in Seq(Sums) /\ Len(front) = n
  <2>1. front \in [1 .. n -> Sums]
    BY <1>1, <1>2
  <2> HIDE DEF front, n
  <2> QED
    BY <1>1, <2>1
<1> HIDE DEF front, n
<1>4. /\ DOMAIN sums = 1 .. N
      /\ \A i \in 1 .. n : sums[i] = KR_str_checksum(entries[i].str) /\ sums[i] \in Sums
  <2>1. front \in Seq(Sums \cup {past})
    BY <1>3
  <2>2. DOMAIN sums = 1 .. n + 1 /\ \A i \in 1 .. n : sums[i] = front[i]
    BY <1>1, <1>3, <2>1
  <2> QED
    BY <1>2, <2>2
<1>5. \A j, k \in 1 .. n : j < k => sums[j] <= sums[k]
  <2> HIDE DEF sums
  <2> QED
    BY <1>1, <1>4 DEF SortedEntries
<1>6. KR_hash(entries, past) = HashPairs(sums)
  BY DEF KR_hash, front
<1> HIDE DEF sums
<1>7. N \in Nat /\ N > 0 /\ N - 1 = n
  BY <1>1
<1>8. PICK f : HashTrace(f, sums, N)
  <2> HIDE DEF N
  <2> QED
    BY <1>4, <1>7, HashLoop
<1>9. ASSUME NEW i \in 0 .. N
      PROVE  f[1 .. i] = [sum0 |-> f[1 .. i].sum0, i1 |-> f[1 .. i].i1, pairs |-> f[1 .. i].pairs]
  <2>1. (1 .. i) \in SUBSET (1 .. N)
    BY <1>7
  <2>2. f[1 .. i] \in A
    BY <1>8, <2>1 DEF HashTrace
  <2> HIDE DEF V, N
  <2> QED
    BY <2>2 DEF HashStates
<1>10. RunOf(sums, 1, f[1 .. 1])
  <2> DEFINE acc == f[1 .. 1]
  <2>1. 1 .. 1 - 1 = {} /\ 1 \in 1 .. N
    BY <1>7
  <2>2. acc = HashStep(sums, HashBase, 1)
    BY <1>8, <2>1 DEF HashTrace
  <2>3. acc = [sum0 |-> sums[1], i1 |-> 0, pairs |-> NoPairs]
    BY <2>2 DEF HashStep, HashBase
  <2> HIDE DEF acc
  <2>4. NoPairs \in Ranges /\ \A h \in Sums : NoPairs[h].one = 0
    BY DEF NoPairs, Ranges
  <2>5. \A k \in acc.i1 + 1 .. 1 : sums[k] = sums[1]
    BY <2>3
  <2>6. acc.sum0 = sums[1] /\ acc.i1 = 0 /\ acc.pairs = NoPairs /\ 0 \in 0 .. 1 - 1
    BY <2>3
  <2>7. RunOf(sums, 1, acc)
    BY <2>4, <2>5, <2>6 DEF RunOf
  <2> QED
    BY <2>7 DEF acc
<1> DEFINE P == {i \in 0 .. N : i = 0 \/ RunOf(sums, i, f[1 .. i])}
<1>11. N \in P
  <2>1. 0 \in P
    BY <1>7
  <2>2. ASSUME NEW i \in 0 .. N - 1, i \in P PROVE i + 1 \in P
    <3>1. i + 1 \in 1 .. N /\ i + 1 \in 0 .. N
      BY <1>7
    <3>2. RunOf(sums, i + 1, f[1 .. i + 1])
      <4>1. CASE i = 0
        BY <1>10, <4>1
      <4>2. CASE i # 0
        <5>1. i \in 1 .. N - 1 /\ i \in 0 .. N /\ RunOf(sums, i, f[1 .. i]) /\ (i + 1) - 1 = i
          BY <1>7, <2>2, <4>2
        <5>2. f[1 .. i + 1] = HashStep(sums, f[1 .. i], i + 1)
          BY <1>8, <3>1, <5>1 DEF HashTrace
        <5>3. f[1 .. i] = [sum0 |-> f[1 .. i].sum0, i1 |-> f[1 .. i].i1,
                           pairs |-> f[1 .. i].pairs]
          BY <1>9, <5>1
        <5> DEFINE acc == f[1 .. i]
        <5> HIDE DEF N, acc
        <5>4. RunOf(sums, i + 1, HashStep(sums, acc, i + 1))
          BY <1>4, <1>5, <1>7, <5>1, <5>3, RunGoesOn DEF acc
        <5> QED
          BY <5>2, <5>4 DEF acc
      <4> QED
        BY <4>1, <4>2
    <3> QED
      BY <3>1, <3>2
  <2> HIDE DEF P, N
  <2> QED
    BY <1>7, <2>1, <2>2, UpTo
<1>12. RunOf(sums, N, f[1 .. N])
  BY <1>7, <1>11
<1> DEFINE acc == f[1 .. N]
           i1 == acc.i1
<1> HIDE DEF acc, P
<1>13. RunOf(sums, N, acc) /\ KR_hash(entries, past) = acc.pairs /\ i1 \in 0 .. n
  BY <1>6, <1>7, <1>8, <1>12 DEF acc, RunOf, HashTrace
<1>14. ASSUME NEW h \in Sums PROVE RangeHolds(entries, acc.pairs, h)
  <2>1. \A k : k \in WithSum(entries, h) <=> k \in 1 .. n /\ sums[k] = h
    BY <1>1, <1>4 DEF WithSum
  <2>2. \A k \in i1 + 1 .. n : sums[k] = sums[N]
    BY <1>7, <1>13 DEF RunOf
  <2>3. CASE acc.pairs[h].one = 0
    <3>1. \A k \in 1 .. i1 : sums[k] # h
      BY <1>13, <2>3 DEF RunOf
    <3>2. CASE WithSum(entries, h) = {}
      BY <2>3, <3>2 DEF RangeHolds
    <3>3. CASE WithSum(entries, h) # {}
      <4>1. PICK k \in 1 .. n : sums[k] = h
        BY <2>1, <3>3
      <4>2. k \in i1 + 1 .. n /\ n \in i1 + 1 .. n /\ n \in 1 .. n
        BY <1>1, <1>13, <3>1, <4>1
      <4>3. sums[n] = h
        BY <2>2, <4>1, <4>2
      <4>4. ASSUME NEW j \in 1 .. n PROVE sums[j] <= h
        <5>1. CASE j < n
          BY <1>5, <4>2, <4>3, <5>1
        <5>2. CASE j = n
          <6>1. h \in Int
            BY DEF Sums
          <6> QED
            BY <4>3, <5>2, <6>1
        <5> QED
          BY <1>1, <5>1, <5>2
      <4>5. IsLast(entries, h)
        BY <1>1, <1>4, <4>4 DEF IsLast
      <4> QED
        BY <2>3, <4>5 DEF RangeHolds
    <3> QED
      BY <3>2, <3>3
  <2>4. CASE acc.pairs[h].one # 0
    <3>1. PICK j \in 1 .. i1 : sums[j] = h
      BY <1>13, <2>4 DEF RunOf
    <3>2. \A k : k \in acc.pairs[h].one .. acc.pairs[h].two + 1 <=> k \in 1 .. i1 /\ sums[k] = h
      BY <1>13, <2>4 DEF RunOf
    <3>3. ASSUME NEW k \in i1 + 1 .. n, sums[k] = h PROVE FALSE
      <4>1. i1 > 0 /\ i1 \in 1 .. n /\ i1 + 1 \in 1 .. n /\ i1 < i1 + 1 /\ i1 + 1 \in i1 + 1 .. n
        BY <1>1, <1>13, <3>1, <3>3
      <4>2. sums[i1 + 1] = h /\ sums[i1] # h
        <5>1. sums[i1 + 1] = sums[k]
          BY <2>2, <4>1
        <5> QED
          BY <1>13, <3>3, <4>1, <5>1 DEF RunOf
      <4>3. sums[i1] <= h
        BY <1>5, <4>1, <4>2
      <4>4. h <= sums[i1]
        <5>1. j \in 1 .. n /\ (j < i1 \/ j = i1)
          BY <1>1, <1>13, <3>1
        <5>2. j # i1
          BY <3>1, <4>2
        <5> QED
          BY <1>5, <3>1, <4>1, <5>1, <5>2
      <4>5. sums[i1] \in Int /\ h \in Int
        BY <1>4, <4>1 DEF Sums
      <4> QED
        BY <4>2, <4>3, <4>4, <4>5
    <3>4. \A k : k \in 1 .. n /\ sums[k] = h <=> k \in 1 .. i1 /\ sums[k] = h
      <4>1. \A k \in 1 .. n : k \in 1 .. i1 \/ k \in i1 + 1 .. n
        BY <1>1, <1>13
      <4>2. \A k \in 1 .. i1 : k \in 1 .. n
        BY <1>1, <1>13
      <4> QED
        BY <3>3, <4>1, <4>2
    <3>5. acc.pairs[h].one .. acc.pairs[h].two + 1 = WithSum(entries, h)
      BY <2>1, <3>2, <3>4
    <3> QED
      BY <2>4, <3>5 DEF RangeHolds
  <2> QED
    BY <2>3, <2>4
<1> QED
  BY <1>13, <1>14

\* Once a language is selected, titles and classes are sorted and hashed.
HashedAs(entries, pairs) ==
  SortedEntries(entries) /\ \E past \in Garbage : pairs = KR_hash(entries, past)

Hashed ==
  selected # Neutral =>
    HashedAs(KR_titles, KR_titles_hash_pairs) /\ HashedAs(KR_wndcs, KR_wndcs_hash_pairs)

LEMMA HashedStep ==
  ASSUME TInv, Hashed, [Next]_vars
  PROVE  Hashed'
<1>1. CASE UNCHANGED vars
  BY <1>1 DEF vars, readVars, krVars, startVars, Hashed
<1>2. ASSUME NEW line \in Lines,
             \/ read_bind(line) \/ read_levs(line) \/ read_lang(line) \/ read_title(line)
             \/ read_remap(line) \/ read_vks_lang(line) \/ parse_str(line)
      PROVE  Hashed'
  <2>1. selected' = Neutral
    BY <1>2 DEF read_bind, read_levs, read_lang, read_title, read_remap, read_vks_lang, parse_str,
      Reading, startVars
  <2> QED
    BY <2>1 DEF Hashed
<1>3. ASSUME NEW lang \in Langs, Start(lang) PROVE Hashed'
  <2>1. /\ KR_titles' \in SortedBySum(KR_titles) /\ KR_wndcs' \in SortedBySum(KR_wndcs)
        /\ \E past \in Garbage : KR_titles_hash_pairs' = KR_hash(KR_titles', past)
        /\ \E past \in Garbage : KR_wndcs_hash_pairs' = KR_hash(KR_wndcs', past)
    BY <1>3 DEF Start
  <2>2. SortedEntries(KR_titles') /\ SortedEntries(KR_wndcs')
    BY <2>1, SortedTyped DEF SortedEntries, TInv, TypeOK
  <2> QED
    BY <2>1, <2>2 DEF Hashed, HashedAs
<1>4. ASSUME NEW lang \in Langs, KL_activate_lang(lang) PROVE Hashed'
  BY <1>4 DEF KL_activate_lang, krVars, Hashed
<1> QED
  BY <1>1, <1>2, <1>3, <1>4 DEF Next

LEMMA HashedInvariant == Spec => []Hashed
<1>1. Init => Hashed
  BY DEF Init, Hashed
<1> QED
  BY <1>1, ConfigInvariant, HashedStep, PTL DEF Spec

\* The range that is kept for a checksum is that of its names, and only the greatest may
\* be without: for any names and checksums, in any order that the sorting leaves equal
\* ones in, and whatever the memory after the last holds (kr.c:109-191).
THEOREM HashedRangesHold == Spec => []RangesHold
<1>1. Hashed => RangesHold
  <2> SUFFICES ASSUME Hashed, selected # Neutral, NEW t \in Tables, NEW h \in Sums
               PROVE  RangeHolds(t[1], t[2], h)
    BY DEF RangesHold, RangeHolds
  <2>1. HashedAs(t[1], t[2])
    BY DEF Hashed, Tables
  <2> QED
    BY <2>1, HashRanges DEF HashedAs
<1> QED
  BY <1>1, HashedInvariant, PTL

\* The lookup of a name finds what the sections say, where the ranges hold.
LEMMA LookupFinds ==
  ASSUME NEW entries \in Seq(Entries), NEW pairs, NEW str \in Strs,
         RangeHolds(entries, pairs, KR_str_checksum(str))
  PROVE  LET h == KR_str_checksum(str)
             app == NameToApp(entries, pairs, str)
             right == {entries[i].app : i \in {j \in WithSum(entries, h) :
                                                <<str, entries[j].str>> \in StartsWith}}
         IN \/ app \in right
            \/ app = 0 /\ (right = {} \/ IsLast(entries, h))
<1> DEFINE h == KR_str_checksum(str)
           range == pairs[h]
           app == NameToApp(entries, pairs, str)
           matching == {j \in WithSum(entries, h) : <<str, entries[j].str>> \in StartsWith}
           right == {entries[i].app : i \in matching}
           found == {i \in range.one .. range.two + 1 : <<str, entries[i].str>> \in StartsWith}
           first == CHOOSE i \in found : \A j \in found : i <= j
<1>1. app = IF range.one = 0 \/ found = {} THEN 0 ELSE entries[first].app
  BY DEF NameToApp
<1>2. CASE range.one = 0
  <2>1. WithSum(entries, h) = {} \/ IsLast(entries, h)
    BY <1>2 DEF RangeHolds
  <2>2. WithSum(entries, h) = {} => right = {}
    OBVIOUS
  <2> HIDE DEF range, right, app, found, first, h
  <2> QED
    BY <1>1, <1>2, <2>1, <2>2 DEF h, right, app
<1>3. CASE range.one # 0
  <2>1. range.one .. range.two + 1 = WithSum(entries, h)
    BY <1>3 DEF RangeHolds
  <2>2. found = matching
    BY <2>1
  <2>3. CASE found = {}
    <3>1. app = 0
      BY <1>1, <2>3
    <3>2. right = {}
      BY <2>2, <2>3
    <3> QED
      BY <3>1, <3>2
  <2>4. CASE found # {}
    <3>1. found \in SUBSET Nat
      <4>1. WithSum(entries, h) \in SUBSET Nat
        BY DEF WithSum
      <4> QED
        BY <2>2, <4>1
    <3> HIDE DEF found, matching
    <3>2. \E i \in found : \A j \in found : i <= j
      BY <2>4, <3>1, LeastNumber
    <3>3. first \in found
      BY <3>2
    <3>4. app = entries[first].app
      BY <1>1, <1>3, <2>4
    <3> HIDE DEF first
    <3>5. app \in right
      BY <2>2, <3>3, <3>4
    <3> QED
      BY <3>5 DEF matching
  <2> QED
    BY <2>3, <2>4
<1> QED
  BY <1>2, <1>3

\* A window gets the bindings of no section whose name it does not begin with, and one
\* with the very name of a section gets those of one unless its checksum is the greatest,
\* whatever the sections are and in whatever order (kr.c:235-273).
THEOREM NamesAreFound == Spec => []NameFound
<1>1. Hashed => NameFound
  <2> SUFFICES ASSUME Hashed, selected # Neutral, NEW t \in Tables, NEW str \in Strs
               PROVE  LET app == NameToApp(t[1], t[2], str)
                      IN /\ app # 0 => \E i \in DOMAIN t[1] :
                                         t[1][i].app = app /\ <<str, t[1][i].str>> \in StartsWith
                         /\ app = 0 /\ ~IsLast(t[1], KR_str_checksum(str)) =>
                              \A i \in DOMAIN t[1] : t[1][i].str # str
    BY DEF NameFound
  <2> DEFINE h == KR_str_checksum(str)
             app == NameToApp(t[1], t[2], str)
             matching == {j \in WithSum(t[1], h) : <<str, t[1][j].str>> \in StartsWith}
             right == {t[1][i].app : i \in matching}
  <2>1. HashedAs(t[1], t[2])
    BY DEF Hashed, Tables
  <2>2. t[1] \in Seq(Entries) /\ RangeHolds(t[1], t[2], KR_str_checksum(str))
    BY <2>1, HashRanges, ChecksumTyped DEF HashedAs, SortedEntries
  <2>3. app \in right \/ (app = 0 /\ (right = {} \/ IsLast(t[1], h)))
    BY <2>2, LookupFinds
  <2>4. matching \subseteq DOMAIN t[1]
    BY DEF WithSum
  <2>5. \A i \in DOMAIN t[1] : t[1][i].app # 0
    <3>1. \A i \in DOMAIN t[1] : t[1][i] \in Entries
      BY <2>2
    <3>2. \A e \in Entries : e.app # 0
      BY DEF Entries
    <3> QED
      BY <3>1, <3>2
  <2>6. ASSUME NEW i \in DOMAIN t[1], t[1][i].str = str PROVE i \in matching
    BY <2>6, ConfigAssumption DEF WithSum
  <2> HIDE DEF app, h
  <2>7. app # 0 => \E i \in DOMAIN t[1] : t[1][i].app = app /\ <<str, t[1][i].str>> \in StartsWith
    BY <2>3, <2>4
  <2> HIDE DEF matching
  <2>8. app = 0 /\ ~IsLast(t[1], h) => \A i \in DOMAIN t[1] : t[1][i].str # str
    <3>1. app = 0 => app \notin right
      BY <2>4, <2>5
    <3>2. right = {} => matching = {}
      OBVIOUS
    <3> HIDE DEF right
    <3> QED
      BY <2>3, <2>6, <3>1, <3>2
  <2> QED
    BY <2>7, <2>8 DEF app, h
<1> QED
  BY <1>1, HashedInvariant, PTL
=============================================================================
