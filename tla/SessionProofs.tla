---------------------------- MODULE SessionProofs ----------------------------
(***************************************************************************)
(* Proofs about Session: that a hotkey runs what its line says, that the   *)
(* icon shows whether the hook is active, in which order the files are     *)
(* read and which of them are reported, for any configuration and          *)
(* languages, any number of instances, any size of the table and whoever   *)
(* has registered combinations before.                                     *)
(***************************************************************************)
EXTENDS SessionProps, TLAPS

\* The variables that hotkeys depend on.
hotkeyVars == <<disk, rest, HK_KA_curid, HK_KA_ary, hotkeys, queue>>

HotkeysTyped ==
  /\ \A f \in DOMAIN disk : disk[f] \in Seq(Lines)
  /\ rest \in [Instances -> Seq(Lines)] /\ queue \in [Instances -> Seq(Messages)]
  /\ HK_KA_curid \in [Instances -> Nat]
  /\ HK_KA_ary \in [Instances -> [0 .. TableSize - 1 -> KAs \cup {NoKA}]]
  /\ hotkeys \in [Combos -> {Free, Foreign} \cup (Instances \X (1 .. TableSize - 1))]

\* What is still to be read was given.
RestGiven == \A i \in Instances : \A n \in DOMAIN rest[i] : rest[i][n] \in LinesGiven

\* The next id is new.
IdsCounted ==
  /\ \A c \in Combos : hotkeys[c][1] \in Instances => hotkeys[c][2] <= HK_KA_curid[hotkeys[c][1]]
  /\ \A i \in Instances : \A n \in DOMAIN queue[i] : queue[i][n].id <= HK_KA_curid[i]

HInv == HotkeysTyped /\ RestGiven /\ IdsCounted /\ HotkeyRunsItsLine

\* A user's file that is there when the user is asked for it was made of the example.
UserFileAskedFor ==
  \A i \in Instances :
    phase[i] = "asking" /\ <<"user", "main">> \in DOMAIN disk =>
      Example \in DOMAIN disk /\ disk[<<"user", "main">>] = disk[Example]

\* What the icon depends on.
LifeTyped ==
  /\ phase \in [Instances -> Phases]
  /\ KL_active \in [Instances -> BOOLEAN] /\ icon \in [Instances -> {"none", "on", "off"}]

LInv == LifeTyped /\ UserFileAskedFor /\ IconShowsActive

-----------------------------------------------------------------------------
LEMMA ArgsGiven == \A n \in DOMAIN Args : Args[n] \in LinesGiven
BY DEF LinesGiven

LEMMA DiskGiven == \A f \in DOMAIN disk : \A n \in DOMAIN disk[f] : disk[f][n] \in LinesGiven
BY DEF LinesGiven, ToSet

\* A step that leaves hotkeys and messages alone, and reads on or begins a file.
LEMMA Reads ==
  ASSUME HInv, NEW i \in Instances, NEW lines \in Seq(Lines),
         \A n \in DOMAIN lines : lines[n] \in LinesGiven,
         rest' = [rest EXCEPT ![i] = lines],
         UNCHANGED <<disk, HK_KA_curid, HK_KA_ary, hotkeys, queue>>
  PROVE  HInv'
<1>1. LinesGiven' = LinesGiven
  BY DEF LinesGiven
<1>2. HotkeysTyped'
  BY DEF HInv, HotkeysTyped
<1>3. RestGiven'
  BY <1>1 DEF HInv, HotkeysTyped, RestGiven
<1>4. IdsCounted'
  BY DEF HInv, IdsCounted
<1>5. HotkeyRunsItsLine'
  BY <1>1 DEF HInv, HotkeyRunsItsLine, GivenTo, KaOf
<1> QED
  BY <1>2, <1>3, <1>4, <1>5 DEF HInv

LEMMA Keeps ==
  ASSUME HInv, UNCHANGED hotkeyVars
  PROVE  HInv'
<1>1. LinesGiven' = LinesGiven
  BY DEF LinesGiven, hotkeyVars
<1>2. HotkeysTyped' /\ RestGiven' /\ IdsCounted'
  BY <1>1 DEF HInv, HotkeysTyped, RestGiven, IdsCounted, hotkeyVars
<1>3. HotkeyRunsItsLine'
  BY <1>1 DEF HInv, HotkeyRunsItsLine, GivenTo, KaOf, hotkeyVars
<1> QED
  BY <1>2, <1>3 DEF HInv

LEMMA NextLineReads ==
  ASSUME HInv, NEW i \in Instances, NextLine(i), UNCHANGED <<HK_KA_curid, HK_KA_ary, hotkeys>>
  PROVE  HInv'
<1>1. /\ rest[i] \in Seq(Lines) /\ rest[i] # <<>>
      /\ rest' = [rest EXCEPT ![i] = Tail(rest[i])] /\ UNCHANGED <<disk, queue>>
  BY DEF NextLine, HInv, HotkeysTyped
<1>2. Tail(rest[i]) \in Seq(Lines)
  BY <1>1
<1>3. \A n \in DOMAIN Tail(rest[i]) : Tail(rest[i])[n] \in LinesGiven
  <2>1. \A n \in DOMAIN Tail(rest[i]) :
          n + 1 \in DOMAIN rest[i] /\ Tail(rest[i])[n] = rest[i][n + 1]
    BY <1>1
  <2> QED
    BY <2>1 DEF HInv, RestGiven
<1> QED
  BY <1>1, <1>2, <1>3, Reads

\* A process that is gone has no hotkeys and no messages.
LEMMA Frees ==
  ASSUME HInv, NEW i \in Instances, Freed(i), UNCHANGED <<disk, rest, HK_KA_curid, HK_KA_ary>>
  PROVE  HInv'
<1>1. LinesGiven' = LinesGiven
  BY DEF LinesGiven
<1>2. \A c \in Combos : hotkeys'[c] = hotkeys[c] \/ hotkeys'[c] = Free
  BY DEF Freed
<1>3. \A j \in Instances : queue'[j] = queue[j] \/ queue'[j] = <<>>
  BY DEF Freed, HInv, HotkeysTyped
<1>4. HotkeysTyped'
  <2>1. hotkeys' \in [Combos -> {Free, Foreign} \cup (Instances \X (1 .. TableSize - 1))]
    BY DEF Freed, HInv, HotkeysTyped
  <2>2. queue' \in [Instances -> Seq(Messages)]
    BY DEF Freed, HInv, HotkeysTyped
  <2> QED
    BY <2>1, <2>2 DEF HInv, HotkeysTyped
<1>5. RestGiven'
  BY <1>1 DEF HInv, RestGiven
<1>6. Free[1] \notin Instances
  BY SessionAssumption DEF Free, Instances
<1>7. IdsCounted'
  BY <1>2, <1>3, <1>6 DEF HInv, IdsCounted
<1>8. HotkeyRunsItsLine'
  BY <1>1, <1>2, <1>3, <1>6 DEF HInv, HotkeyRunsItsLine, GivenTo, KaOf
<1> QED
  BY <1>4, <1>5, <1>7, <1>8 DEF HInv

\* Messages are taken off.
LEMMA Takes ==
  ASSUME HInv, NEW i \in Instances, queue[i] # <<>>, queue' = [queue EXCEPT ![i] = Tail(queue[i])],
         UNCHANGED <<disk, rest, HK_KA_curid, HK_KA_ary, hotkeys>>
  PROVE  HInv'
<1>1. LinesGiven' = LinesGiven
  BY DEF LinesGiven
<1>2. queue[i] \in Seq(Messages)
  BY DEF HInv, HotkeysTyped
<1>3. Tail(queue[i]) \in Seq(Messages)
  BY <1>2
<1>4. \A n \in DOMAIN Tail(queue[i]) :
        n + 1 \in DOMAIN queue[i] /\ Tail(queue[i])[n] = queue[i][n + 1]
  BY <1>2
<1>5. HotkeysTyped' /\ RestGiven'
  BY <1>1, <1>3 DEF HInv, HotkeysTyped, RestGiven
<1>6. \A j \in Instances : \A n \in DOMAIN queue'[j] :
        \E k \in DOMAIN queue[j] : queue'[j][n] = queue[j][k]
  <2> SUFFICES ASSUME NEW j \in Instances, NEW n \in DOMAIN queue'[j]
               PROVE  \E k \in DOMAIN queue[j] : queue'[j][n] = queue[j][k]
    OBVIOUS
  <2>1. queue'[j] = IF j = i THEN Tail(queue[i]) ELSE queue[j]
    BY DEF HInv, HotkeysTyped
  <2> QED
    BY <1>4, <2>1
<1>7. IdsCounted'
  BY <1>6 DEF HInv, IdsCounted
<1>8. HotkeyRunsItsLine'
  <2>1. \A j, id, combo : GivenTo(KaOf(j, id), combo) => GivenTo(KaOf(j, id), combo)'
    BY <1>1 DEF GivenTo, KaOf
  <2>2. \A j \in Instances : \A n \in DOMAIN queue'[j] :
          GivenTo(KaOf(j, queue'[j][n].id), queue'[j][n].combo)
    BY <1>6 DEF HInv, HotkeyRunsItsLine
  <2> QED
    BY <2>1, <2>2 DEF HInv, HotkeyRunsItsLine
<1> QED
  BY <1>5, <1>7, <1>8 DEF HInv

\* A hotkey's message brings its id.
LEMMA Presses ==
  ASSUME HInv, NEW c \in Combos, PressHotkey(c)
  PROVE  HInv'
<1> DEFINE i == hotkeys[c][1]
           message == [id |-> hotkeys[c][2], combo |-> c]
<1>1. /\ i \in Instances /\ queue' = [queue EXCEPT ![i] = Append(queue[i], message)]
      /\ UNCHANGED <<disk, rest, HK_KA_curid, HK_KA_ary, hotkeys>>
  BY DEF PressHotkey, readVars, hkVars
<1>2. LinesGiven' = LinesGiven
  BY <1>1 DEF LinesGiven
<1>3. hotkeys[c] \in Instances \X (1 .. TableSize - 1)
  <2>1. hotkeys[c] \in {Free, Foreign} \cup (Instances \X (1 .. TableSize - 1))
    BY DEF HInv, HotkeysTyped
  <2>2. Free[1] \notin Instances /\ Foreign[1] \notin Instances
    BY SessionAssumption DEF Free, Foreign, Instances
  <2> QED
    BY <1>1, <2>1, <2>2
<1>4. message \in Messages
  BY <1>3 DEF Messages
<1>5. queue[i] \in Seq(Messages) /\ queue \in [Instances -> Seq(Messages)]
  BY <1>1 DEF HInv, HotkeysTyped
<1> HIDE DEF message, i
<1>6. Append(queue[i], message) \in Seq(Messages)
  BY <1>4, <1>5
<1>7. HotkeysTyped' /\ RestGiven'
  BY <1>1, <1>2, <1>6 DEF HInv, HotkeysTyped, RestGiven
<1>8. \A n \in DOMAIN Append(queue[i], message) :
        Append(queue[i], message)[n] = message
        \/ (n \in DOMAIN queue[i] /\ Append(queue[i], message)[n] = queue[i][n])
  BY <1>4, <1>5
<1>9. \A j \in Instances : \A n \in DOMAIN queue'[j] :
        (j = i /\ queue'[j][n] = message) \/ \E k \in DOMAIN queue[j] : queue'[j][n] = queue[j][k]
  BY <1>1, <1>5, <1>8
<1>10. message.id = hotkeys[c][2] /\ message.combo = c
  BY DEF message
<1>11. message.id <= HK_KA_curid[i] /\ GivenTo(KaOf(i, message.id), message.combo)
  BY <1>1, <1>10 DEF HInv, IdsCounted, HotkeyRunsItsLine, i
<1>12. IdsCounted'
  BY <1>1, <1>9, <1>11 DEF HInv, IdsCounted
<1>13. HotkeyRunsItsLine'
  <2>1. \A d \in Combos : hotkeys'[d][1] \in Instances =>
          GivenTo(KaOf(hotkeys[d][1], hotkeys[d][2]), d)
    BY <1>1 DEF HInv, HotkeyRunsItsLine
  <2>2. \A j \in Instances : \A n \in DOMAIN queue'[j] :
          GivenTo(KaOf(j, queue'[j][n].id), queue'[j][n].combo)
    <3>1. SUFFICES ASSUME NEW j \in Instances, NEW n \in DOMAIN queue'[j]
                   PROVE  GivenTo(KaOf(j, queue'[j][n].id), queue'[j][n].combo)
      OBVIOUS
    <3>2. CASE j = i /\ queue'[j][n] = message
      <4>1. GivenTo(KaOf(i, message.id), message.combo)
        BY <1>11
      <4> QED
        BY <3>2, <4>1, Zenon
    <3>3. CASE \E k \in DOMAIN queue[j] : queue'[j][n] = queue[j][k]
      BY <3>3 DEF HInv, HotkeyRunsItsLine
    <3> QED
      BY <1>9, <3>2, <3>3
  <2>3. \A j, id, combo : GivenTo(KaOf(j, id), combo) => GivenTo(KaOf(j, id), combo)'
    BY <1>1, <1>2 DEF GivenTo, KaOf
  <2> QED
    BY <1>1, <2>1, <2>2, <2>3 DEF HotkeyRunsItsLine
<1> QED
  BY <1>7, <1>12, <1>13 DEF HInv

\* The user's file is made of the example, or was made so by another instance.
LEMMA Creates ==
  ASSUME HInv, UserFileAskedFor, UNCHANGED <<rest, HK_KA_curid, HK_KA_ary, hotkeys, queue>>,
         NEW i \in Instances, phase[i] = "asking", Example \in DOMAIN disk,
         disk' = [f \in DOMAIN disk \cup {<<"user", "main">>} |->
                    IF f = <<"user", "main">> THEN disk[Example] ELSE disk[f]]
  PROVE  HInv'
<1>1. \A f \in DOMAIN disk : f \in DOMAIN disk' /\ disk'[f] = disk[f]
  BY DEF UserFileAskedFor
<1>2. ASSUME NEW line \in LinesGiven PROVE line \in LinesGiven'
  <2>1. CASE \E n \in DOMAIN Args : line = Args[n]
    BY <2>1 DEF LinesGiven
  <2>2. CASE \E f \in DOMAIN disk : line \in ToSet(disk[f])
    <3>1. PICK f \in DOMAIN disk : line \in ToSet(disk[f])
      BY <2>2
    <3>2. f \in DOMAIN disk' /\ line \in ToSet(disk'[f])
      BY <1>1, <3>1
    <3> QED
      BY <3>2 DEF LinesGiven
  <2> QED
    BY <2>1, <2>2 DEF LinesGiven
<1>3. HotkeysTyped'
  BY DEF HInv, HotkeysTyped
<1>4. RestGiven' /\ IdsCounted'
  BY <1>2 DEF HInv, RestGiven, IdsCounted
<1>5. HotkeyRunsItsLine'
  BY <1>2 DEF HInv, HotkeyRunsItsLine, GivenTo, KaOf
<1> QED
  BY <1>3, <1>4, <1>5 DEF HInv

LEMMA IdsTyped ==
  ASSUME HotkeysTyped
  PROVE  /\ \A c \in Combos : hotkeys[c][2] \in Int
         /\ \A j \in Instances : \A n \in DOMAIN queue[j] : queue[j][n].id \in Int
<1>1. ASSUME NEW c \in Combos PROVE hotkeys[c][2] \in Int
  <2>1. hotkeys[c] \in {Free, Foreign} \cup (Instances \X (1 .. TableSize - 1))
    BY DEF HotkeysTyped
  <2>2. CASE hotkeys[c] \in {Free, Foreign}
    BY <2>2 DEF Free, Foreign
  <2>3. CASE hotkeys[c] \in Instances \X (1 .. TableSize - 1)
    BY <2>3
  <2> QED
    BY <2>1, <2>2, <2>3
<1>2. ASSUME NEW j \in Instances, NEW n \in DOMAIN queue[j] PROVE queue[j][n].id \in Int
  <2>1. queue[j] \in Seq(Messages)
    BY DEF HotkeysTyped
  <2>2. queue[j][n] \in Messages
    BY <2>1
  <2> QED
    BY <2>2 DEF Messages
<1> QED
  BY <1>1, <1>2

\* A hotkey's id is new, so that neither what is registered nor what waits in the queue
\* gets its action.
LEMMA Registers ==
  ASSUME HInv, NEW i \in Instances, ReadHotkey(i)
  PROVE  HInv'
<1> DEFINE line == Head(rest[i])
           id == HK_KA_curid[i] + 1
<1>1. /\ rest[i] \in Seq(Lines) /\ rest[i] # <<>> /\ line.kind = "hotkey"
      /\ rest' = [rest EXCEPT ![i] = Tail(rest[i])] /\ UNCHANGED <<disk, queue>>
      /\ HK_KA_curid' = [HK_KA_curid EXCEPT ![i] = id]
  BY DEF ReadHotkey, NextLine, HK_KA_register, HInv, HotkeysTyped
<1>2. LinesGiven' = LinesGiven
  BY <1>1 DEF LinesGiven
<1>3. line \in Lines /\ line = rest[i][1] /\ 1 \in DOMAIN rest[i]
  BY <1>1
<1>4. /\ line.combo \in Combos /\ line.ka \in KAs
      /\ line = [kind |-> "hotkey", combo |-> line.combo, ka |-> line.ka]
  BY <1>1, <1>3 DEF Lines
<1>5. GivenTo(line.ka, line.combo)
  BY <1>3, <1>4 DEF GivenTo, HInv, RestGiven
<1>6. id \in Nat /\ id > 0 /\ HK_KA_curid \in [Instances -> Nat]
  BY DEF HInv, HotkeysTyped
<1>7. /\ HK_KA_ary' = IF id < TableSize THEN [HK_KA_ary EXCEPT ![i][id] = line.ka] ELSE HK_KA_ary
      /\ hotkeys' = IF id < TableSize /\ hotkeys[line.combo] = Free
                    THEN [hotkeys EXCEPT ![line.combo] = <<i, id>>] ELSE hotkeys
  BY DEF ReadHotkey, HK_KA_register
<1> HIDE DEF line, id
<1>8. /\ id < TableSize => id \in 1 .. TableSize - 1
      /\ HK_KA_curid'[i] = id /\ HK_KA_curid[i] < id
      /\ \A j \in Instances : HK_KA_curid[j] <= HK_KA_curid'[j]
      /\ HK_KA_curid' \in [Instances -> Nat]
  BY <1>1, <1>6, SessionAssumption DEF id
<1>9. HotkeysTyped'
  <2>1. rest' \in [Instances -> Seq(Lines)]
    BY <1>1 DEF HInv, HotkeysTyped
  <2>2. HK_KA_ary' \in [Instances -> [0 .. TableSize - 1 -> KAs \cup {NoKA}]]
    BY <1>4, <1>7 DEF HInv, HotkeysTyped
  <2>3. hotkeys' \in [Combos -> {Free, Foreign} \cup (Instances \X (1 .. TableSize - 1))]
    BY <1>7, <1>8 DEF HInv, HotkeysTyped
  <2> QED
    BY <1>1, <1>8, <2>1, <2>2, <2>3 DEF HInv, HotkeysTyped
<1>10. RestGiven'
  <2>1. \A n \in DOMAIN Tail(rest[i]) :
          n + 1 \in DOMAIN rest[i] /\ Tail(rest[i])[n] = rest[i][n + 1]
    BY <1>1
  <2> QED
    BY <1>1, <1>2, <2>1 DEF HInv, HotkeysTyped, RestGiven
<1>11. \A c \in Combos : \/ hotkeys'[c] = hotkeys[c]
                         \/ c = line.combo /\ hotkeys'[c] = <<i, id>> /\ id < TableSize
  BY <1>4, <1>7 DEF HInv, HotkeysTyped
<1>12. IdsCounted'
  <2>1. \A c \in Combos : hotkeys'[c][1] \in Instances =>
          hotkeys'[c][2] <= HK_KA_curid'[hotkeys'[c][1]]
    <3>1. SUFFICES ASSUME NEW c \in Combos, hotkeys'[c][1] \in Instances
                   PROVE  hotkeys'[c][2] <= HK_KA_curid'[hotkeys'[c][1]]
      OBVIOUS
    <3>2. CASE hotkeys'[c] = <<i, id>>
      BY <3>2, <1>6, <1>8
    <3>3. CASE hotkeys'[c] = hotkeys[c]
      <4>1. hotkeys[c][2] \in Int
        BY IdsTyped DEF HInv
      <4>2. hotkeys[c][2] <= HK_KA_curid[hotkeys[c][1]]
        BY <3>1, <3>3 DEF HInv, IdsCounted
      <4> QED
        BY <3>1, <3>3, <4>1, <4>2, <1>6, <1>8
    <3> QED
      BY <1>11, <3>2, <3>3
  <2>2. \A j \in Instances : \A n \in DOMAIN queue[j] : queue[j][n].id <= HK_KA_curid'[j]
    <3>1. SUFFICES ASSUME NEW j \in Instances, NEW n \in DOMAIN queue[j]
                   PROVE  queue[j][n].id <= HK_KA_curid'[j]
      OBVIOUS
    <3>2. queue[j][n].id \in Int
      BY IdsTyped DEF HInv
    <3>3. queue[j][n].id <= HK_KA_curid[j]
      BY DEF HInv, IdsCounted
    <3> QED
      BY <3>2, <3>3, <1>6, <1>8
  <2> QED
    BY <1>1, <2>1, <2>2 DEF IdsCounted
<1>13. ASSUME NEW j \in Instances, NEW k \in Int, k <= HK_KA_curid[j]
       PROVE  KaOf(j, k)' = KaOf(j, k)
  <2>1. j # i \/ k # id
    BY <1>8, <1>13, <1>6
  <2>2. \A x : HK_KA_ary'[j][x] = HK_KA_ary[j][x] \/ (j = i /\ x = id)
    BY <1>7 DEF HInv, HotkeysTyped
  <2>3. DOMAIN HK_KA_ary'[j] = DOMAIN HK_KA_ary[j]
    BY <1>9 DEF HInv, HotkeysTyped
  <2> QED
    BY <2>1, <2>2, <2>3 DEF KaOf
<1>14. ASSUME id < TableSize, NEW k, k = id PROVE KaOf(i, k)' = line.ka
  <2>1. id \in DOMAIN HK_KA_ary[i] /\ HK_KA_ary' = [HK_KA_ary EXCEPT ![i][id] = line.ka]
    <3>1. id \in 0 .. TableSize - 1
      BY <1>6, <1>8, <1>14, SessionAssumption
    <3>2. HK_KA_ary[i] \in [0 .. TableSize - 1 -> KAs \cup {NoKA}]
      BY DEF HInv, HotkeysTyped
    <3> QED
      BY <1>7, <1>14, <3>1, <3>2
  <2>2. id \in DOMAIN HK_KA_ary'[i] /\ HK_KA_ary'[i][id] = line.ka
    <3>1. DOMAIN HK_KA_ary'[i] = DOMAIN HK_KA_ary[i]
      BY <1>9 DEF HInv, HotkeysTyped
    <3> QED
      BY <2>1, <3>1 DEF HInv, HotkeysTyped
  <2> QED
    BY <2>2, <1>14 DEF KaOf
<1>15. HotkeyRunsItsLine'
  <2>1. ASSUME NEW c \in Combos, hotkeys'[c][1] \in Instances
        PROVE  GivenTo(KaOf(hotkeys[c][1], hotkeys[c][2])', c)
    <3>1. CASE c = line.combo /\ hotkeys'[c] = <<i, id>> /\ id < TableSize
      <4>1. hotkeys'[c][1] = i /\ hotkeys'[c][2] = id
        BY <3>1
      <4>2. KaOf(hotkeys[c][1], hotkeys[c][2])' = line.ka
        BY <3>1, <4>1, <1>14 DEF KaOf
      <4> QED
        BY <3>1, <4>2, <1>5
    <3>2. CASE hotkeys'[c] = hotkeys[c]
      <4>1. hotkeys[c][2] \in Int
        BY IdsTyped DEF HInv
      <4>2. /\ hotkeys[c][2] <= HK_KA_curid[hotkeys[c][1]]
            /\ GivenTo(KaOf(hotkeys[c][1], hotkeys[c][2]), c)
        BY <2>1, <3>2 DEF HInv, IdsCounted, HotkeyRunsItsLine
      <4>3. KaOf(hotkeys[c][1], hotkeys[c][2])' = KaOf(hotkeys[c][1], hotkeys[c][2])
        BY <2>1, <3>2, <4>1, <4>2, <1>13 DEF KaOf
      <4> QED
        BY <4>2, <4>3
    <3> QED
      BY <1>11, <3>1, <3>2
  <2>2. ASSUME NEW j \in Instances, NEW n \in DOMAIN queue[j]
        PROVE  GivenTo(KaOf(j, queue[j][n].id)', queue[j][n].combo)
    <3>1. queue[j][n].id \in Int
      BY IdsTyped DEF HInv
    <3>2. queue[j][n].id <= HK_KA_curid[j] /\ GivenTo(KaOf(j, queue[j][n].id), queue[j][n].combo)
      BY DEF HInv, IdsCounted, HotkeyRunsItsLine
    <3>3. KaOf(j, queue[j][n].id)' = KaOf(j, queue[j][n].id)
      BY <1>1, <1>13, <3>1, <3>2 DEF KaOf
    <3> QED
      BY <3>2, <3>3
  <2> QED
    BY <1>1, <1>2, <2>1, <2>2 DEF HotkeyRunsItsLine, GivenTo
<1> QED
  BY <1>9, <1>10, <1>12, <1>15 DEF HInv

-----------------------------------------------------------------------------
\* What an instance does without its icon and its hook.
LEMMA Moves ==
  ASSUME LInv, phase' \in [Instances -> Phases], UNCHANGED <<disk, KL_active, icon>>,
         \A j \in Instances :
           \/ phase'[j] = phase[j]
           \/ phase'[j] \notin {"asking", "running", "menu"}
           \/ phase'[j] \in {"running", "menu"} /\ phase[j] \in {"running", "menu"}
  PROVE  LInv'
<1>1. LifeTyped'
  BY DEF LInv, LifeTyped
<1>2. UserFileAskedFor'
  BY DEF LInv, UserFileAskedFor
<1>3. IconShowsActive'
  BY DEF LInv, IconShowsActive
<1> QED
  BY <1>1, <1>2, <1>3 DEF LInv

LEMMA MovesOne ==
  ASSUME LInv, NEW i \in Instances, NEW ph \in Phases, Goes(i, ph),
         UNCHANGED <<disk, KL_active, icon>>,
         \/ ph \notin {"asking", "running", "menu"}
         \/ ph \in {"running", "menu"} /\ phase[i] \in {"running", "menu"}
  PROVE  LInv'
<1>1. phase \in [Instances -> Phases]
  BY DEF LInv, LifeTyped
<1> QED
  BY <1>1, Moves DEF Goes

LEMMA Stays ==
  ASSUME LInv, UNCHANGED <<disk, phase, KL_active, icon>>
  PROVE  LInv'
BY DEF LInv, LifeTyped, UserFileAskedFor, IconShowsActive

LEMMA RestartsMoves ==
  ASSUME LInv, NEW i \in Instances, Restarts(i), UNCHANGED <<disk, KL_active, icon>>
  PROVE  LInv'
<1>1. PICK started \in OS_run_executable :
        phase' = [j \in Instances |-> IF j = i THEN "exiting" ELSE IF j \in started THEN "reading"
                                      ELSE phase[j]]
  BY DEF Restarts
<1>2. phase' \in [Instances -> Phases]
  BY <1>1 DEF Phases, LInv, LifeTyped
<1> QED
  BY <1>1, <1>2, Moves

\* The flag, the icon and no dialog.
LEMMA Toggles ==
  ASSUME LInv, NEW i \in Instances, KL_toggle(i), phase' \in [Instances -> Phases],
         \A j \in Instances : phase'[j] = phase[j] \/ j = i,
         phase'[i] \in {"running", "menu"}, phase[i] \in {"running", "menu"}, UNCHANGED disk
  PROVE  LInv'
<1>1. /\ KL_active' \in [Instances -> BOOLEAN] /\ icon' \in [Instances -> {"none", "on", "off"}]
      /\ KL_active'[i] = ~KL_active[i]
      /\ icon'[i] # "none" => icon'[i] = IconOf(~KL_active[i])
      /\ \A j \in Instances : j # i => KL_active'[j] = KL_active[j] /\ icon'[j] = icon[j]
  BY DEF KL_toggle, IconOf, LInv, LifeTyped
<1>2. LifeTyped'
  BY <1>1 DEF LifeTyped
<1>3. UserFileAskedFor'
  BY DEF LInv, UserFileAskedFor
<1>4. IconShowsActive'
  BY <1>1 DEF LInv, IconShowsActive, IconOf
<1> QED
  BY <1>2, <1>3, <1>4 DEF LInv

LEMMA Calls ==
  ASSUME LInv, NEW i \in Instances, NEW ka, KA_call(i, ka), phase[i] \in {"running", "menu"},
         UNCHANGED disk
  PROVE  LInv'
<1>1. CASE KL_toggle(i) /\ UNCHANGED phase
  BY <1>1, Toggles DEF LInv, LifeTyped
<1>2. CASE Restarts(i) /\ UNCHANGED <<KL_active, icon>>
  BY <1>2, RestartsMoves
<1>3. CASE UNCHANGED <<phase, KL_active, icon>>
  BY <1>3, Stays
<1> QED
  BY <1>1, <1>2, <1>3 DEF KA_call

\* An icon goes, with its process or with the taskbar; or it comes, when the hook is set.
LEMMA IconMoves ==
  ASSUME LInv, phase' \in [Instances -> Phases], KL_active' \in [Instances -> BOOLEAN],
         icon' \in [Instances -> {"none", "on", "off"}], UNCHANGED disk,
         \A j \in Instances :
           /\ phase'[j] = phase[j] \/ phase'[j] # "asking"
           /\ \/ UNCHANGED <<phase[j], KL_active[j], icon[j]>>
              \/ icon'[j] = "none" \/ icon'[j] = IconOf(KL_active'[j])
  PROVE  LInv'
<1>1. LifeTyped'
  BY DEF LifeTyped
<1>2. UserFileAskedFor'
  BY DEF LInv, UserFileAskedFor
<1>3. IconShowsActive'
  BY DEF LInv, IconShowsActive
<1> QED
  BY <1>1, <1>2, <1>3 DEF LInv

LEMMA LifeInit == Init => LInv
<1> SUFFICES ASSUME Init PROVE LInv
  OBVIOUS
<1>1. LifeTyped
  BY DEF Init, LifeTyped, Phases
<1>2. \A i \in Instances : phase[i] = "none"
  BY DEF Init
<1> QED
  BY <1>1, <1>2 DEF LInv, UserFileAskedFor, IconShowsActive

LEMMA LifeReading ==
  ASSUME LInv, NEW i \in Instances,
         \/ FindMain(i) \/ FindLang(i) \/ ReadTable(i) \/ SkipFile(i)
         \/ ParseFile(i) \/ ParseArgs(i) \/ ReadHotkey(i)
         \/ ReadBind(i) \/ ReadOwnTable(i) \/ ReadLongName(i)
         \/ ReadNodefault(i) \/ ReadUnrecognized(i) \/ EndFile(i)
  PROVE  LInv'
<1> USE DEF uiVars, Phases, Modal, Over
<1>1. CASE FindMain(i)
  <2>1. CASE <<"user", "main">> \in DOMAIN disk
    BY <1>1, <2>1, Stays DEF FindMain
  <2>2. CASE <<"user", "main">> \notin DOMAIN disk
    <3>1. Goes(i, "asking") /\ UNCHANGED <<disk, KL_active, icon>>
      BY <1>1, <2>2 DEF FindMain
    <3>2. LifeTyped' /\ UserFileAskedFor'
      BY <2>2, <3>1 DEF LInv, LifeTyped, UserFileAskedFor, Goes
    <3>3. IconShowsActive'
      BY <3>1 DEF LInv, LifeTyped, IconShowsActive, Goes
    <3> QED
      BY <3>2, <3>3 DEF LInv
  <2> QED
    BY <2>1, <2>2
<1>2. CASE FindLang(i) \/ ReadTable(i) \/ SkipFile(i)
  <2>1. UNCHANGED <<disk, phase, KL_active, icon>>
    BY <1>2 DEF FindLang, ReadTable, SkipFile
  <2> QED
    BY <2>1, Stays
<1>3. ASSUME Crash(i) PROVE LInv'
  BY <1>3, MovesOne DEF Crash
<1>4. CASE ParseFile(i)
  <2>1. CASE Crash(i)
    BY <1>3, <2>1
  <2>2. CASE Goes(i, "parsing") /\ UNCHANGED <<disk, KL_active, icon>>
    BY <2>2, MovesOne
  <2> QED
    BY <1>4, <2>1, <2>2 DEF ParseFile
<1>5. CASE ParseArgs(i) \/ ReadLongName(i)
  BY <1>5, MovesOne DEF ParseArgs, ReadLongName
<1>6. ASSUME NextLine(i) PROVE LInv'
  BY <1>6, Stays DEF NextLine
<1>7. CASE ReadHotkey(i) \/ ReadBind(i) \/ ReadOwnTable(i) \/ ReadNodefault(i)
  BY <1>6, <1>7 DEF ReadHotkey, ReadBind, ReadOwnTable, ReadNodefault
<1>8. CASE ReadUnrecognized(i)
  BY <1>3, <1>6, <1>8 DEF ReadUnrecognized
<1>9. CASE EndFile(i)
  <2>1. UNCHANGED <<disk, KL_active, icon>> /\ (Goes(i, "reporting") \/ Goes(i, "reading"))
    BY <1>9 DEF EndFile
  <2> QED
    BY <2>1, MovesOne
<1> QED
  BY <1>1, <1>2, <1>4, <1>5, <1>7, <1>8, <1>9

LEMMA LifeDialogs ==
  ASSUME LInv, NEW i \in Instances, AnswerAsking(i) \/ AnswerReporting(i) \/ ModalDiscard(i)
  PROVE  LInv'
<1> USE DEF uiVars, Phases, Modal, Over
<1>1. CASE AnswerAsking(i)
  <2>1. CASE Goes(i, "reading") /\ UNCHANGED <<disk, KL_active, icon>>
    BY <2>1, MovesOne
  <2>2. CASE /\ Goes(i, "reading") /\ UNCHANGED <<KL_active, icon>> /\ Example \in DOMAIN disk
             /\ disk' = [f \in DOMAIN disk \cup {<<"user", "main">>} |->
                           IF f = <<"user", "main">> THEN disk[Example] ELSE disk[f]]
    <3>1. LifeTyped' /\ IconShowsActive'
      BY <2>2 DEF LInv, LifeTyped, IconShowsActive, Goes
    <3>2. Example # <<"user", "main">>
      BY DEF Example
    <3>3. UserFileAskedFor'
      BY <2>2, <3>2 DEF UserFileAskedFor
    <3> QED
      BY <3>1, <3>3 DEF LInv
  <2>3. CASE Crash(i)
    BY <2>3, MovesOne DEF Crash
  <2> QED
    BY <1>1, <2>1, <2>2, <2>3 DEF AnswerAsking
<1>2. CASE AnswerReporting(i)
  <2>1. UNCHANGED <<disk, KL_active, icon>>
    BY <1>2 DEF AnswerReporting
  <2>2. Goes(i, "exiting") \/ Restarts(i) \/ Goes(i, "reading")
    BY <1>2 DEF AnswerReporting
  <2> QED
    BY <2>1, <2>2, MovesOne, RestartsMoves
<1>3. CASE ModalDiscard(i)
  BY <1>3, Stays DEF ModalDiscard
<1> QED
  BY <1>1, <1>2, <1>3

LEMMA LifeRunning ==
  ASSUME LInv, NEW i \in Instances,
         \/ Activate(i) \/ ServeHotkey(i) \/ OpenMenu(i) \/ ChooseMenu(i) \/ MenuQuit(i)
         \/ CloseWindow(i) \/ Quit(i) \/ Exit(i) \/ \E ka \in KAs : KeyAction(i, ka)
  PROVE  LInv'
<1> USE DEF uiVars, Phases, Modal, Over
<1>1. CASE Activate(i)
  <2>1. /\ phase' = [phase EXCEPT ![i] = "running"] /\ UNCHANGED disk
        /\ KL_active' = [KL_active EXCEPT ![i] = TRUE]
    BY <1>1 DEF Activate, Goes
  <2>2. PICK shown \in {IconOf(TRUE), "none"} : icon' = [icon EXCEPT ![i] = shown]
    BY <1>1 DEF Activate, UI_init
  <2>3. /\ phase' \in [Instances -> Phases] /\ KL_active' \in [Instances -> BOOLEAN]
        /\ icon' \in [Instances -> {"none", "on", "off"}]
    BY <2>1, <2>2 DEF LInv, LifeTyped, IconOf
  <2>4. /\ phase'[i] = "running" /\ KL_active'[i] = TRUE
        /\ icon'[i] = "none" \/ icon'[i] = IconOf(KL_active'[i])
        /\ \A j \in Instances : j # i => UNCHANGED <<phase[j], KL_active[j], icon[j]>>
    BY <2>1, <2>2 DEF LInv, LifeTyped
  <2> QED
    BY <2>1, <2>3, <2>4, IconMoves
<1>2. CASE ServeHotkey(i)
  BY <1>2, Calls DEF ServeHotkey
<1>3. CASE \E ka \in KAs : KeyAction(i, ka)
  BY <1>3, Calls DEF KeyAction
<1>4. CASE OpenMenu(i)
  BY <1>4, MovesOne DEF OpenMenu
<1>5. CASE ChooseMenu(i)
  <2>1. phase[i] = "menu" /\ UNCHANGED disk
    BY <1>5 DEF ChooseMenu
  <2>2. CASE Goes(i, "running") /\ KL_toggle(i)
    <3>1. /\ phase' \in [Instances -> Phases] /\ phase'[i] = "running"
          /\ \A j \in Instances : phase'[j] = phase[j] \/ j = i
      BY <2>2 DEF LInv, LifeTyped, Goes
    <3> QED
      BY <2>1, <2>2, <3>1, Toggles
  <2>3. CASE Restarts(i) /\ UNCHANGED uiVars
    BY <2>1, <2>3, RestartsMoves
  <2>4. CASE Goes(i, "running") /\ UNCHANGED <<KL_active, icon>>
    BY <2>1, <2>4, MovesOne
  <2> QED
    BY <1>5, <2>2, <2>3, <2>4 DEF ChooseMenu
<1>6. CASE MenuQuit(i)
  BY <1>6, MovesOne DEF MenuQuit
<1>7. CASE CloseWindow(i)
  BY <1>7, Stays DEF CloseWindow
<1>8. CASE Quit(i)
  BY <1>8, MovesOne DEF Quit
<1>9. CASE Exit(i)
  <2>1. /\ phase' = [phase EXCEPT ![i] = "ended"] /\ icon' = [icon EXCEPT ![i] = "none"]
        /\ UNCHANGED <<disk, KL_active>>
    BY <1>9 DEF Exit, Goes
  <2>2. /\ phase' \in [Instances -> Phases] /\ KL_active' \in [Instances -> BOOLEAN]
        /\ icon' \in [Instances -> {"none", "on", "off"}]
    BY <2>1 DEF LInv, LifeTyped
  <2>3. /\ phase'[i] = "ended" /\ icon'[i] = "none"
        /\ \A k \in Instances : k # i => UNCHANGED <<phase[k], KL_active[k], icon[k]>>
    BY <2>1 DEF LInv, LifeTyped
  <2> QED
    BY <2>1, <2>2, <2>3, IconMoves
<1> QED
  BY <1>1, <1>2, <1>3, <1>4, <1>5, <1>6, <1>7, <1>8, <1>9

LEMMA LifeStep == LInv /\ [Next]_vars => LInv'
<1> SUFFICES ASSUME LInv, [Next]_vars PROVE LInv'
  OBVIOUS
<1> USE DEF uiVars
<1>1. CASE Launch
  <2>1. PICK i \in Instances : Goes(i, "reading")
    BY <1>1 DEF Launch
  <2> QED
    BY <1>1, <2>1, MovesOne DEF Launch, Phases
<1>2. CASE TaskbarLost
  <2>1. icon' = [i \in Instances |-> "none"] /\ UNCHANGED <<disk, phase, KL_active>>
    BY <1>2 DEF TaskbarLost
  <2> QED
    BY <2>1, IconMoves DEF LInv, LifeTyped
<1>3. CASE \E c \in Combos : PressHotkey(c)
  BY <1>3, Stays DEF PressHotkey
<1>4. CASE UNCHANGED vars
  BY <1>4, Stays DEF vars
<1> QED
  BY <1>1, <1>2, <1>3, <1>4, LifeReading, LifeDialogs, LifeRunning DEF Next, Thread

\* The icon shows whether the hook is active: whatever is toggled by the menu, by a
\* hotkey or by a key, whatever restarts or is launched beside it (ui.c:35).
THEOREM IconTells == Spec => []IconShowsActive
<1>1. Spec => []LInv
  BY LifeInit, LifeStep, PTL DEF Spec
<1>2. LInv => IconShowsActive
  BY DEF LInv
<1> QED
  BY <1>1, <1>2, PTL

-----------------------------------------------------------------------------
LEMMA HotkeysInit == Init => HInv
<1> SUFFICES ASSUME Init PROVE HInv
  OBVIOUS
<1>1. 0 \notin Instances /\ -1 \notin Instances
  BY SessionAssumption DEF Instances
<1>2. \A c \in Combos : hotkeys[c] \in {Free, Foreign}
  BY DEF Init
<1>3. \A c \in Combos : hotkeys[c][1] \notin Instances
  BY <1>1, <1>2 DEF Free, Foreign
<1>4. \A i \in Instances : queue[i] = <<>> /\ rest[i] = <<>>
  BY DEF Init
<1>5. HotkeysTyped
  <2>1. \A f \in DOMAIN disk : disk[f] \in Seq(Lines)
    BY SessionAssumption DEF Init
  <2>2. rest \in [Instances -> Seq(Lines)] /\ queue \in [Instances -> Seq(Messages)]
    BY DEF Init
  <2>3. hotkeys \in [Combos -> {Free, Foreign} \cup (Instances \X (1 .. TableSize - 1))]
    BY DEF Init
  <2>4. /\ HK_KA_curid \in [Instances -> Nat]
        /\ HK_KA_ary \in [Instances -> [0 .. TableSize - 1 -> KAs \cup {NoKA}]]
    BY DEF Init
  <2> QED
    BY <2>1, <2>2, <2>3, <2>4 DEF HotkeysTyped
<1> QED
  BY <1>3, <1>4, <1>5 DEF HInv, RestGiven, IdsCounted, HotkeyRunsItsLine

LEMMA HotkeysReading ==
  ASSUME HInv, NEW i \in Instances,
         \/ FindMain(i) \/ FindLang(i) \/ ReadTable(i) \/ SkipFile(i)
         \/ ParseFile(i) \/ ParseArgs(i) \/ ReadHotkey(i)
         \/ ReadBind(i) \/ ReadOwnTable(i) \/ ReadLongName(i)
         \/ ReadNodefault(i) \/ ReadUnrecognized(i) \/ EndFile(i)
  PROVE  HInv'
<1> USE DEF hkVars, readVars
<1>1. CASE \/ FindMain(i) \/ FindLang(i) \/ ReadTable(i) \/ SkipFile(i) \/ ReadLongName(i)
           \/ EndFile(i)
  <2>1. UNCHANGED hotkeyVars
    BY <1>1 DEF FindMain, FindLang, ReadTable, SkipFile, ReadLongName, EndFile, hotkeyVars
  <2> QED
    BY <2>1, Keeps
<1>2. ASSUME Crash(i) PROVE HInv'
  BY <1>2, Frees DEF Crash
<1>3. CASE ParseFile(i)
  <2>1. CASE Crash(i)
    BY <1>2, <2>1
  <2>2. CASE /\ Head(todo[i]) \in DOMAIN disk /\ rest' = [rest EXCEPT ![i] = disk[Head(todo[i])]]
             /\ UNCHANGED <<disk, HK_KA_curid, HK_KA_ary, hotkeys, queue>>
    <3>1. disk[Head(todo[i])] \in Seq(Lines)
      BY <2>2 DEF HInv, HotkeysTyped
    <3> QED
      BY <2>2, <3>1, DiskGiven, Reads
  <2> QED
    BY <1>3, <2>1, <2>2 DEF ParseFile
<1>4. CASE ParseArgs(i)
  BY <1>4, SessionAssumption, ArgsGiven, Reads DEF ParseArgs
<1>5. CASE ReadHotkey(i)
  BY <1>5, Registers
<1>6. CASE ReadBind(i) \/ ReadOwnTable(i) \/ ReadNodefault(i)
  BY <1>6, NextLineReads DEF ReadBind, ReadOwnTable, ReadNodefault
<1>7. CASE ReadUnrecognized(i)
  BY <1>2, <1>7, NextLineReads DEF ReadUnrecognized
<1> QED
  BY <1>1, <1>3, <1>4, <1>5, <1>6, <1>7

LEMMA HotkeysLiving ==
  ASSUME HInv, LInv, NEW i \in Instances,
         \/ AnswerAsking(i) \/ AnswerReporting(i) \/ ModalDiscard(i) \/ Activate(i)
         \/ ServeHotkey(i) \/ OpenMenu(i) \/ ChooseMenu(i) \/ MenuQuit(i) \/ CloseWindow(i)
         \/ Quit(i) \/ Exit(i) \/ \E ka \in KAs : KeyAction(i, ka)
  PROVE  HInv'
<1> USE DEF hkVars, readVars
<1>1. CASE AnswerAsking(i)
  <2>1. CASE UNCHANGED hotkeyVars
    BY <2>1, Keeps
  <2>2. CASE Crash(i)
    BY <2>2, Frees DEF Crash
  <2>3. CASE /\ phase[i] = "asking" /\ Example \in DOMAIN disk
             /\ disk' = [f \in DOMAIN disk \cup {<<"user", "main">>} |->
                           IF f = <<"user", "main">> THEN disk[Example] ELSE disk[f]]
             /\ UNCHANGED <<rest, HK_KA_curid, HK_KA_ary, hotkeys, queue>>
    BY <2>3, Creates DEF LInv
  <2> QED
    BY <1>1, <2>1, <2>2, <2>3 DEF AnswerAsking, hotkeyVars
<1>2. CASE \/ AnswerReporting(i) \/ Activate(i) \/ OpenMenu(i) \/ ChooseMenu(i) \/ MenuQuit(i)
           \/ CloseWindow(i) \/ Quit(i) \/ \E ka \in KAs : KeyAction(i, ka)
  <2>1. UNCHANGED hotkeyVars
    BY <1>2 DEF AnswerReporting, Activate, OpenMenu, ChooseMenu, MenuQuit, CloseWindow, Quit,
                KeyAction, hotkeyVars
  <2> QED
    BY <2>1, Keeps
<1>3. CASE ModalDiscard(i) \/ ServeHotkey(i)
  BY <1>3, Takes DEF ModalDiscard, ServeHotkey
<1>4. CASE Exit(i)
  BY <1>4, Frees DEF Exit
<1> QED
  BY <1>1, <1>2, <1>3, <1>4

LEMMA HotkeysStep == HInv /\ LInv /\ [Next]_vars => HInv'
<1> SUFFICES ASSUME HInv, LInv, [Next]_vars PROVE HInv'
  OBVIOUS
<1> USE DEF hkVars, readVars
<1>1. CASE Launch \/ TaskbarLost \/ UNCHANGED vars
  <2>1. UNCHANGED hotkeyVars
    BY <1>1 DEF Launch, TaskbarLost, vars, hotkeyVars
  <2> QED
    BY <2>1, Keeps
<1>2. CASE \E c \in Combos : PressHotkey(c)
  BY <1>2, Presses
<1> QED
  BY <1>1, <1>2, HotkeysReading, HotkeysLiving DEF Next, Thread

\* Every hotkey runs what a line of the configuration gives to its combination, with any
\* number of hotkeys, size of the table and number of instances that contend for them
\* (hk.c:47-71).
THEOREM HotkeysRunTheirLines == Spec => []HotkeyRunsItsLine
<1>1. Spec => [](LInv /\ HInv)
  BY LifeInit, LifeStep, HotkeysInit, HotkeysStep, PTL DEF Spec
<1>2. HInv => HotkeyRunsItsLine
  BY DEF HInv
<1> QED
  BY <1>1, <1>2, PTL

-----------------------------------------------------------------------------
(* How the configuration is read. *)

Own == <<"user", "main">>
TableNames == {"keysymdef.h", "Compose"}

ReadingTyped ==
  /\ \A f \in DOMAIN disk : f \in Files \cup {Example}
  /\ todo \in [Instances -> Seq(Tasks)]
  /\ tables \in [Instances -> Seq({"default", "own"} \X TableNames)]
  /\ failed \in [Instances -> BOOLEAN] /\ failed_lines \in [Instances -> {"none", "live", "freed"}]
  /\ meaning \in [Instances -> [Cells -> Files \cup {ArgLines, NoFile}]]
  /\ quit \in [Instances -> BOOLEAN]

\* The task that a loop or a dialog is about is the first.
AtHead(i) ==
  /\ phase[i] \in {"parsing", "reporting"} =>
       todo[i] # <<>> /\ Head(todo[i]) \in Files \cup {ArgLines}
  /\ phase[i] = "asking" => todo[i] # <<>> /\ Head(todo[i]) = <<"find", "main">>

HasBad(lines) == \E n \in DOMAIN lines : Unrecognized(lines[n])

\* A line that is not recognized was counted, or is still to be read.
BadCounted(i) ==
  phase[i] = "parsing" /\ Head(todo[i]) # ArgLines =>
    /\ Head(todo[i]) \in DOMAIN disk
    /\ HasBad(disk[Head(todo[i])]) <=> failed[i] \/ HasBad(rest[i])

HasNames(i) == \E k \in DOMAIN tables[i] : tables[i][k][2] = "keysymdef.h"
NoNames == Own \in DOMAIN disk /\ NoDefault(disk[Own], "keysymdef.h")

\* Nothing is read before the names are.
NamesAhead(i) ==
  \/ HasNames(i) \/ NoNames
  \/ todo[i] # <<>> /\ Head(todo[i]) \in {<<"find", "main">>, <<"table", "keysymdef.h">>}

NamesFirstOf(i) ==
  \A n \in DOMAIN tables[i] :
    tables[i][n][2] = "Compose" =>
      NoNames \/ \E k \in 1 .. n - 1 : tables[i][k][2] = "keysymdef.h"

\* The user's file comes after the default one.
Follows(s, n, own) == \E m \in DOMAIN s : m > n /\ s[m] = own
DefaultsFirst(s) ==
  \A n \in DOMAIN s :
    s[n][1] = "default" /\ <<"user", s[n][2]>> \in DOMAIN disk =>
      Created(<<"user", s[n][2]>>) \/ Follows(s, n, <<"user", s[n][2]>>)

\* What a file that is read still has to bind.
StillBinds(i, own, cell) ==
  /\ todo[i] # <<>> /\ Head(todo[i]) = own
  /\ \/ phase[i] \notin {"parsing", "reporting"}
     \/ phase[i] = "parsing" /\ [kind |-> "bind", cell |-> cell] \in ToSet(rest[i])

\* What was bound by a default file, the user's will bind.
OwnAhead(i) ==
  \A cell \in Cells :
    LET own == <<"user", meaning[i][cell][2]>>
    IN /\ meaning[i][cell][1] = "default" /\ own \in DOMAIN disk /\ Binds(own, cell)
       => Created(own) \/ Follows(todo[i], 1, own) \/ StillBinds(i, own, cell)

Reader(i) ==
  /\ AtHead(i) /\ BadCounted(i) /\ NamesAhead(i) /\ NamesFirstOf(i)
  /\ DefaultsFirst(todo[i]) /\ OwnAhead(i)

RInv == ReadingTyped /\ \A i \in Instances : Reader(i)

-----------------------------------------------------------------------------
\* The files on the disk: the user's main file may come, made of the example.
DiskGrows ==
  /\ \A f \in DOMAIN disk : f \in DOMAIN disk' /\ disk'[f] = disk[f]
  /\ \A f \in DOMAIN disk' :
       f \in DOMAIN disk \/ (f = Own /\ Example \in DOMAIN disk /\ disk'[f] = disk[Example])

LEMMA DiskStays ==
  ASSUME UNCHANGED disk
  PROVE  DiskGrows
BY DEF DiskGrows

LEMMA CreatedStays ==
  ASSUME DiskGrows
  PROVE  /\ \A f \in DOMAIN disk : Created(f) => Created(f)'
         /\ \A f \in DOMAIN disk' : f \in DOMAIN disk \/ Created(f)'
<1>1. Example # Own
  BY DEF Example, Own
<1>2. ASSUME NEW f \in DOMAIN disk, Created(f) PROVE Created(f)'
  BY <1>2 DEF Created, DiskGrows
<1>3. ASSUME NEW f \in DOMAIN disk', f \notin DOMAIN disk PROVE Created(f)'
  BY <1>1, <1>3 DEF Created, DiskGrows, Own
<1> QED
  BY <1>2, <1>3

LEMMA NoNamesStays == DiskGrows /\ NoNames => NoNames'
BY DEF DiskGrows, NoNames

LEMMA DefaultsStay ==
  ASSUME DiskGrows, NEW s, DefaultsFirst(s), NEW t, t = s
  PROVE  DefaultsFirst(t)'
<1> SUFFICES ASSUME NEW n \in DOMAIN s, s[n][1] = "default", <<"user", s[n][2]>> \in DOMAIN disk'
             PROVE  Created(<<"user", s[n][2]>>)' \/ Follows(s, n, <<"user", s[n][2]>>)
  BY DEF DefaultsFirst, Follows
<1>1. CASE <<"user", s[n][2]>> \in DOMAIN disk
  BY <1>1, CreatedStays DEF DefaultsFirst
<1>2. CASE <<"user", s[n][2]>> \notin DOMAIN disk
  BY <1>2, CreatedStays
<1> QED
  BY <1>1, <1>2

\* What a default file bound, when nothing is bound and the user's file is still ahead.
LEMMA OwnStays ==
  ASSUME DiskGrows, NEW i \in Instances, OwnAhead(i), UNCHANGED meaning[i],
         \A own, cell : Follows(todo[i], 1, own) \/ StillBinds(i, own, cell) =>
                          Follows(todo[i], 1, own)' \/ StillBinds(i, own, cell)'
  PROVE  OwnAhead(i)'
<1> SUFFICES ASSUME NEW cell \in Cells, NEW own, own = <<"user", meaning[i][cell][2]>>,
                    meaning[i][cell][1] = "default", own \in DOMAIN disk', Binds(own, cell)'
             PROVE  Created(own)' \/ Follows(todo[i], 1, own)' \/ StillBinds(i, own, cell)'
  BY DEF OwnAhead
<1>1. CASE own \in DOMAIN disk
  <2>1. Binds(own, cell)
    BY <1>1 DEF Binds, DiskGrows
  <2>2. Created(own) \/ Follows(todo[i], 1, own) \/ StillBinds(i, own, cell)
    BY <1>1, <2>1 DEF OwnAhead
  <2>3. Created(own) => Created(own)'
    BY <1>1, CreatedStays
  <2> QED
    BY <2>2, <2>3
<1>2. CASE own \notin DOMAIN disk
  BY <1>2, CreatedStays
<1> QED
  BY <1>1, <1>2

\* An instance that does not read.
LEMMA Others ==
  ASSUME DiskGrows, NEW i \in Instances, Reader(i),
         UNCHANGED <<todo[i], rest[i], failed[i], tables[i], meaning[i]>>,
         phase'[i] = phase[i] \/ phase'[i] \notin {"asking", "parsing", "reporting"}
  PROVE  Reader(i)'
<1>1. AtHead(i)'
  BY DEF Reader, AtHead
<1>2. BadCounted(i)'
  BY DEF Reader, BadCounted, DiskGrows, HasBad
<1>3. NamesAhead(i)' /\ NamesFirstOf(i)'
  BY NoNamesStays DEF Reader, NamesAhead, NamesFirstOf, HasNames
<1>4. DefaultsFirst(todo[i])'
  BY DefaultsStay DEF Reader
<1>5. OwnAhead(i)'
  <2>1. \A own, cell : /\ Follows(todo[i], 1, own) => Follows(todo[i], 1, own)'
                       /\ StillBinds(i, own, cell) => StillBinds(i, own, cell)'
    BY DEF Follows, StillBinds
  <2> QED
    BY <2>1, OwnStays DEF Reader
<1> QED
  BY <1>1, <1>2, <1>3, <1>4, <1>5 DEF Reader

-----------------------------------------------------------------------------
\* Tasks instead of the first.
InPlaceOfHead(u, tasks, s) ==
  /\ u \in Seq(Tasks) /\ Len(u) = Len(tasks) + Len(s) - 1
  /\ \A n \in DOMAIN u :
       \/ n \in DOMAIN tasks /\ u[n] = tasks[n]
       \/ n - Len(tasks) + 1 \in DOMAIN s /\ n > Len(tasks) /\ u[n] = s[n - Len(tasks) + 1]
  /\ \A n \in DOMAIN tasks : n \in DOMAIN u /\ u[n] = tasks[n]
  /\ \A n \in DOMAIN s : n > 1 =>
       n + Len(tasks) - 1 \in DOMAIN u /\ u[n + Len(tasks) - 1] = s[n]

LEMMA Expanded ==
  ASSUME NEW s \in Seq(Tasks), s # <<>>, NEW tasks \in Seq(Tasks), NEW u, u = tasks \o Tail(s)
  PROVE  InPlaceOfHead(u, tasks, s)
<1> DEFINE t == Tail(s)
<1>1. /\ t \in Seq(Tasks) /\ Len(t) = Len(s) - 1 /\ Len(s) \in Nat \ {0} /\ Len(tasks) \in Nat
      /\ \A n \in 1 .. Len(s) - 1 : t[n] = s[n + 1]
  OBVIOUS
<1>a. u = tasks \o t
  OBVIOUS
<1> HIDE DEF t
<1>2. u \in Seq(Tasks) /\ Len(u) = Len(tasks) + Len(t)
  BY <1>1, <1>a
<1>b. \A n \in 1 .. Len(tasks) + Len(t) :
        u[n] = IF n <= Len(tasks) THEN tasks[n] ELSE t[n - Len(tasks)]
  BY <1>1, <1>a
<1>3. /\ DOMAIN s = 1 .. Len(s) /\ DOMAIN tasks = 1 .. Len(tasks)
      /\ DOMAIN u = 1 .. Len(tasks) + Len(t)
  BY <1>1, <1>2
<1>4. \A n \in DOMAIN u :
        \/ n \in DOMAIN tasks /\ u[n] = tasks[n]
        \/ n - Len(tasks) + 1 \in DOMAIN s /\ n > Len(tasks) /\ u[n] = s[n - Len(tasks) + 1]
  <2> TAKE n \in DOMAIN u
  <2>1. CASE n <= Len(tasks)
    BY <1>1, <1>b, <1>3, <2>1
  <2>2. CASE n > Len(tasks)
    <3>1. n - Len(tasks) \in 1 .. Len(s) - 1
      BY <1>1, <1>3, <2>2
    <3>2. t[n - Len(tasks)] = s[n - Len(tasks) + 1]
      BY <1>1, <3>1
    <3> QED
      BY <1>1, <1>b, <1>3, <2>2, <3>1, <3>2
  <2> QED
    BY <1>1, <1>3, <2>1, <2>2
<1>5. \A n \in DOMAIN tasks : n \in DOMAIN u /\ u[n] = tasks[n]
  BY <1>1, <1>b, <1>3
<1>6. \A n \in DOMAIN s : n > 1 =>
        n + Len(tasks) - 1 \in DOMAIN u /\ u[n + Len(tasks) - 1] = s[n]
  <2> SUFFICES ASSUME NEW n \in DOMAIN s, n > 1
               PROVE  n + Len(tasks) - 1 \in DOMAIN u /\ u[n + Len(tasks) - 1] = s[n]
    OBVIOUS
  <2>1. n - 1 \in 1 .. Len(s) - 1 /\ t[n - 1] = s[n]
    BY <1>1, <1>3
  <2>2. n + Len(tasks) - 1 \in 1 .. Len(tasks) + Len(t) /\ n + Len(tasks) - 1 > Len(tasks)
    BY <1>1, <1>3, <2>1
  <2>3. (n + Len(tasks) - 1) - Len(tasks) = n - 1
    BY <1>1, <1>3
  <2> QED
    <3> DEFINE m == n + Len(tasks) - 1
    <3>2. m \in 1 .. Len(tasks) + Len(t) /\ ~(m <= Len(tasks))
      BY <1>1, <1>3, <2>2
    <3> HIDE DEF m
    <3>3. u[m] = t[m - Len(tasks)]
      BY <1>b, <3>2
    <3>1. u[n + Len(tasks) - 1] = t[(n + Len(tasks) - 1) - Len(tasks)]
      BY <3>3 DEF m
    <3> QED
      BY <1>3, <2>1, <2>2, <2>3, <3>1
<1> QED
  BY <1>1, <1>2, <1>4, <1>5, <1>6 DEF InPlaceOfHead

\* The user's file is among the tasks that its default file is among.
Paired(tasks) ==
  \A n \in DOMAIN tasks :
    tasks[n][1] = "default" =>
      \/ <<"user", tasks[n][2]>> \notin DOMAIN disk \/ Created(<<"user", tasks[n][2]>>)
      \/ Follows(tasks, n, <<"user", tasks[n][2]>>)

\* The first task is done, or gives way to others.
LEMMA Expands_Reader ==
  ASSUME ReadingTyped, NEW i \in Instances, Reader(i), NEW tasks \in Seq(Tasks),
         Expands(i, tasks), todo[i] # <<>>, UNCHANGED <<disk, meaning, rest>>, phase'[i] = "reading",
         Paired(tasks),
         \A cell \in Cells : Head(todo[i]) \in DOMAIN disk => ~StillBinds(i, Head(todo[i]), cell)
  PROVE  /\ AtHead(i)' /\ BadCounted(i)' /\ DefaultsFirst(todo[i])' /\ OwnAhead(i)'
         /\ todo' \in [Instances -> Seq(Tasks)]
         /\ tasks # <<>> => todo'[i] # <<>> /\ Head(todo'[i]) = tasks[1]
<1>1. /\ todo[i] \in Seq(Tasks) /\ todo' = [todo EXCEPT ![i] = tasks \o Tail(todo[i])]
      /\ todo'[i] = tasks \o Tail(todo[i])
  BY DEF Expands, ReadingTyped
<1> DEFINE s == todo[i]
           t == todo'[i]
<1>2. /\ t \in Seq(Tasks) /\ s \in Seq(Tasks) /\ s # <<>> /\ Len(t) = Len(tasks) + Len(s) - 1
      /\ \A n \in DOMAIN t :
           \/ n \in DOMAIN tasks /\ t[n] = tasks[n]
           \/ n - Len(tasks) + 1 \in DOMAIN s /\ n > Len(tasks) /\ t[n] = s[n - Len(tasks) + 1]
      /\ \A n \in DOMAIN tasks : n \in DOMAIN t /\ t[n] = tasks[n]
      /\ \A n \in DOMAIN s : n > 1 => n + Len(tasks) - 1 \in DOMAIN t /\ t[n + Len(tasks) - 1] = s[n]
  <2>1. s \in Seq(Tasks) /\ s # <<>> /\ t = tasks \o Tail(s)
    BY <1>1
  <2>2. tasks \in Seq(Tasks)
    OBVIOUS
  <2> HIDE DEF s, t
  <2> QED
    <3>1. InPlaceOfHead(t, tasks, s)
      BY <2>1, <2>2, Expanded
    <3> QED
      BY <2>1, <3>1 DEF InPlaceOfHead
<1>3. /\ Len(tasks) \in Nat /\ DOMAIN t = 1 .. Len(t) /\ DOMAIN s = 1 .. Len(s)
      /\ DOMAIN tasks = 1 .. Len(tasks) /\ Len(t) \in Nat /\ Len(s) \in Nat
  BY <1>2
<1> HIDE DEF s, t
<1>4. AtHead(i)' /\ BadCounted(i)'
  BY DEF AtHead, BadCounted
<1>5. todo' \in [Instances -> Seq(Tasks)]
  BY <1>1, <1>2 DEF ReadingTyped, t
<1>6. ASSUME tasks # <<>> PROVE todo'[i] # <<>> /\ Head(todo'[i]) = tasks[1]
  <2>1. 1 \in DOMAIN t /\ t[1] = tasks[1]
    <3>1. 1 \in DOMAIN tasks
      BY <1>3, <1>6
    <3> QED
      BY <1>2, <3>1
  <2> QED
    BY <1>2, <2>1 DEF t
<1>7. DefaultsFirst(todo[i])'
  <2> SUFFICES ASSUME NEW n \in DOMAIN t, NEW own, own = <<"user", t[n][2]>>, t[n][1] = "default",
                      own \in DOMAIN disk
               PROVE  Created(own) \/ Follows(t, n, own)
    <3>1. \A n \in DOMAIN t : \A own : Created(own)' <=> Created(own)
      BY DEF Created
    <3> QED
      BY <3>1 DEF DefaultsFirst, Follows, t
  <2>1. CASE n \in DOMAIN tasks /\ t[n] = tasks[n]
    <3>1. Created(own) \/ Follows(tasks, n, own)
      BY <2>1 DEF Paired
    <3>2. ASSUME NEW m \in DOMAIN tasks, m > n, tasks[m] = own PROVE Follows(t, n, own)
      BY <1>2, <3>2 DEF Follows
    <3> QED
      BY <3>1, <3>2 DEF Follows
  <2>2. CASE n - Len(tasks) + 1 \in DOMAIN s /\ n > Len(tasks) /\ t[n] = s[n - Len(tasks) + 1]
    <3>1. Created(own) \/ Follows(s, n - Len(tasks) + 1, own)
      BY <2>2 DEF DefaultsFirst, Reader, s
    <3>2. ASSUME NEW m \in DOMAIN s, m > n - Len(tasks) + 1, s[m] = own PROVE Follows(t, n, own)
      <4>1. m + Len(tasks) - 1 \in DOMAIN t /\ t[m + Len(tasks) - 1] = own
        BY <1>2, <1>3, <2>2, <3>2
      <4>2. m + Len(tasks) - 1 > n
        BY <1>3, <3>2
      <4> QED
        BY <4>1, <4>2 DEF Follows
    <3> QED
      BY <3>1, <3>2 DEF Follows
  <2> QED
    BY <1>2, <2>1, <2>2
<1>8. OwnAhead(i)'
  <2> SUFFICES ASSUME NEW cell \in Cells, NEW own, own = <<"user", meaning[i][cell][2]>>,
                      meaning[i][cell][1] = "default", own \in DOMAIN disk, Binds(own, cell)
               PROVE  Created(own) \/ Follows(t, 1, own) \/ StillBinds(i, own, cell)'
    BY DEF OwnAhead, Created, Binds, t, Follows
  <2>1. Created(own) \/ Follows(s, 1, own)
    BY DEF Reader, OwnAhead, StillBinds, s
  <2>2. ASSUME NEW m \in DOMAIN s, m > 1, s[m] = own
        PROVE  Follows(t, 1, own) \/ StillBinds(i, own, cell)'
    <3>1. m + Len(tasks) - 1 \in DOMAIN t /\ t[m + Len(tasks) - 1] = own
      BY <1>2, <2>2
    <3>2. CASE m + Len(tasks) - 1 > 1
      BY <3>1, <3>2 DEF Follows
    <3>3. CASE m + Len(tasks) - 1 = 1
      <4>1. t # <<>> /\ Head(t) = own
        BY <1>2, <3>1, <3>3
      <4> QED
        BY <4>1 DEF StillBinds, t
    <3> QED
      BY <1>3, <2>2, <3>2, <3>3
  <2> QED
    BY <2>1, <2>2 DEF Follows
<1> QED
  BY <1>4, <1>5, <1>6, <1>7, <1>8 DEF t

\* The last of a sequence of tasks, when no other is the user's.
LEMMA LastFollows ==
  ASSUME NEW S, NEW front \in Seq(S), NEW last, NEW s, s = front \o <<last>>
  PROVE  /\ s # <<>> /\ \A n \in DOMAIN s : s[n] \in S \/ (s[n] = last /\ n = Len(front) + 1)
         /\ \A n \in DOMAIN s : s[n] \in S => s[n] = last \/ Follows(s, n, last)
         /\ front # <<>> => s[1] = front[1]
         /\ front = <<>> => s[1] = last
<1>1. s \in Seq(S \cup {last}) /\ Len(s) = Len(front) + 1 /\ Len(front) \in Nat
  OBVIOUS
<1>2. /\ DOMAIN s = 1 .. Len(front) + 1 /\ s[Len(front) + 1] = last
      /\ \A n \in 1 .. Len(front) : s[n] = front[n] /\ front[n] \in S
  BY <1>1
<1>3. \A n \in DOMAIN s : n \in 1 .. Len(front) \/ n = Len(front) + 1
  BY <1>1, <1>2
<1>4. \A n \in 1 .. Len(front) : Follows(s, n, last)
  BY <1>1, <1>2 DEF Follows
<1>5. front # <<>> => s[1] = front[1]
  BY <1>1, <1>2
<1>6. front = <<>> => s[1] = last
  BY <1>1, <1>2
<1> QED
  BY <1>1, <1>2, <1>3, <1>4, <1>5, <1>6

LEMMA MainFilesPaired ==
  ASSUME NEW lines
  PROVE  /\ MainFiles(lines) \in Seq(Tasks) /\ Paired(MainFiles(lines)) /\ MainFiles(lines) # <<>>
         /\ NoDefault(lines, "keysymdef.h") \/ MainFiles(lines)[1] = <<"table", "keysymdef.h">>
<1> DEFINE S == {<<"table", "keysymdef.h">>, <<"table", "Compose">>, <<"default", "main">>}
           A == Unless(NoDefault(lines, "keysymdef.h"), <<"table", "keysymdef.h">>)
           B == Unless(NoDefault(lines, "Compose"), <<"table", "Compose">>)
           C == Unless(NoDefault(lines, "main"), <<"default", "main">>)
           s == MainFiles(lines)
<1>1. A \in Seq(S) /\ B \in Seq(S) /\ C \in Seq(S)
  BY DEF Unless
<1>2. NoDefault(lines, "keysymdef.h") \/ A = << <<"table", "keysymdef.h">> >>
  BY DEF Unless
<1>3. s = ((A \o B) \o C) \o <<Own>>
  BY DEF MainFiles, Own
<1>4. S \subseteq Tasks /\ Own \in Tasks
  BY DEF Tasks, Files, Own
<1>5. \A x \in S : x[1] = "default" => <<"user", x[2]>> = Own
  BY DEF Own
<1> HIDE DEF S, A, B, C, s
<1>6. A \o B \in Seq(S)
  BY <1>1
<1>7. (A \o B) \o C \in Seq(S)
  BY <1>1, <1>6
<1> DEFINE front == (A \o B) \o C
<1>8. A = << <<"table", "keysymdef.h">> >> => front # <<>> /\ front[1] = <<"table", "keysymdef.h">>
  <2>1. SUFFICES ASSUME A = << <<"table", "keysymdef.h">> >>
                 PROVE  front # <<>> /\ front[1] = <<"table", "keysymdef.h">>
    OBVIOUS
  <2>2. Len(A) = 1 /\ A[1] = <<"table", "keysymdef.h">>
    BY <2>1
  <2>3. Len(A \o B) >= 1 /\ (A \o B)[1] = A[1]
    <3>1. Len(A \o B) = Len(A) + Len(B) /\ Len(B) \in Nat
      BY <1>1
    <3>2. (A \o B)[1] = A[1]
      BY <1>1, <2>2, <3>1
    <3> QED
      BY <2>2, <3>1, <3>2
  <2>4. Len(front) >= 1 /\ front[1] = (A \o B)[1]
    <3> DEFINE h == A \o B
    <3>1. h \in Seq(S) /\ C \in Seq(S) /\ Len(h) >= 1 /\ front = h \o C
      BY <1>1, <1>6, <2>3
    <3> HIDE DEF h, front
    <3>2. Len(front) = Len(h) + Len(C) /\ Len(h) \in Nat /\ Len(C) \in Nat
      BY <3>1
    <3>3. front[1] = h[1]
      BY <3>1, <3>2
    <3> QED
      BY <3>1, <3>2, <3>3 DEF h
  <2> QED
    BY <2>2, <2>3, <2>4
<1> HIDE DEF front
<1>9. s = front \o <<Own>> /\ front \in Seq(S)
  BY <1>3, <1>7 DEF front
<1>10. /\ s # <<>> /\ \A n \in DOMAIN s : s[n] \in S \/ s[n] = Own
       /\ \A n \in DOMAIN s : s[n] \in S => s[n] = Own \/ Follows(s, n, Own)
       /\ front # <<>> => s[1] = front[1]
  <2>1. s # <<>>
    BY <1>9, LastFollows
  <2>2. \A n \in DOMAIN s : s[n] \in S \/ s[n] = Own
    BY <1>9, LastFollows
  <2>3. \A n \in DOMAIN s : s[n] \in S => s[n] = Own \/ Follows(s, n, Own)
    BY <1>9, LastFollows
  <2>4. front # <<>> => s[1] = front[1]
    BY <1>9, LastFollows
  <2> QED
    BY <2>1, <2>2, <2>3, <2>4
<1>11. s \in Seq(Tasks)
  <2>1. front \in Seq(Tasks) /\ <<Own>> \in Seq(Tasks)
    BY <1>4, <1>9
  <2> QED
    BY <1>9, <2>1
<1>12. Paired(s)
  <2> SUFFICES ASSUME NEW n \in DOMAIN s, s[n][1] = "default"
               PROVE  Follows(s, n, <<"user", s[n][2]>>)
    BY DEF Paired
  <2>1. Own[1] # "default"
    BY DEF Own
  <2>2. s[n] \in S /\ s[n] # Own
    BY <1>10, <2>1
  <2> QED
    BY <1>5, <1>10, <2>2
<1> QED
  BY <1>2, <1>8, <1>10, <1>11, <1>12 DEF s

\* The part of an instance that is about tables.
NamesPart(i) == NamesAhead(i) /\ NamesFirstOf(i)

\* No table is read, and what is read next does not come before the names.
LEMMA NamesStay ==
  ASSUME DiskGrows, NEW i \in Instances, NamesPart(i), UNCHANGED tables[i],
         \/ HasNames(i) \/ NoNames
         \/ NoNames'
         \/ /\ todo'[i] # <<>>
            /\ Head(todo'[i]) \in {<<"find", "main">>, <<"table", "keysymdef.h">>}
  PROVE  NamesPart(i)'
BY NoNamesStays DEF NamesPart, NamesAhead, NamesFirstOf, HasNames

LEMMA FindMainKeeps ==
  ASSUME RInv, LInv, NEW i \in Instances, FindMain(i)
  PROVE  Reader(i)' /\ todo' \in [Instances -> Seq(Tasks)]
<1>1. /\ ReadingTyped /\ Reader(i) /\ todo[i] # <<>> /\ Head(todo[i]) = <<"find", "main">>
      /\ phase[i] = "reading" /\ UNCHANGED <<disk, rest, failed, tables, meaning>> /\ DiskGrows
  <2>1. /\ Head(todo[i])[1] = "find" /\ Head(todo[i])[2] = "main" /\ todo[i] # <<>>
        /\ phase[i] = "reading" /\ UNCHANGED <<disk, rest, failed, tables, meaning>>
    BY DEF FindMain, Reading
  <2>2. Head(todo[i]) \in Tasks
    BY <2>1 DEF RInv, ReadingTyped
  <2>3. Head(todo[i]) = <<"find", "main">>
    BY <2>1, <2>2 DEF Tasks, Files, ArgLines
  <2> QED
    BY <2>1, <2>3, DiskStays DEF RInv
<1>2. CASE Own \in DOMAIN disk
  <2> DEFINE tasks == MainFiles(disk[Own])
  <2>1. Expands(i, tasks) /\ UNCHANGED phase
    BY <1>2 DEF FindMain, Own
  <2>2. /\ tasks \in Seq(Tasks) /\ Paired(tasks) /\ tasks # <<>>
        /\ NoDefault(disk[Own], "keysymdef.h") \/ tasks[1] = <<"table", "keysymdef.h">>
    BY MainFilesPaired
  <2>3. Head(todo[i]) \notin DOMAIN disk
    <3>1. \A f \in Files \cup {Example} : f[1] # "find"
      BY DEF Files, Example
    <3> QED
      <4>1. Head(todo[i])[1] = "find"
        BY <1>1
      <4>2. \A f \in DOMAIN disk : f \in Files \cup {Example}
        BY <1>1 DEF ReadingTyped
      <4> QED
        BY <3>1, <4>1, <4>2
  <2> HIDE DEF tasks
  <2>4. /\ AtHead(i)' /\ BadCounted(i)' /\ DefaultsFirst(todo[i])' /\ OwnAhead(i)'
        /\ todo' \in [Instances -> Seq(Tasks)] /\ todo'[i] # <<>> /\ Head(todo'[i]) = tasks[1]
    BY <1>1, <2>1, <2>2, <2>3, Expands_Reader
  <2>5. NamesPart(i)'
    <3>1. NoNames \/ Head(todo'[i]) = <<"table", "keysymdef.h">>
      BY <1>2, <2>2, <2>4 DEF NoNames
    <3> QED
      BY <1>1, <2>4, <3>1, NamesStay DEF Reader, NamesPart
  <2> QED
    BY <2>4, <2>5 DEF Reader, NamesPart
<1>3. CASE Own \notin DOMAIN disk
  <2>1. Goes(i, "asking") /\ UNCHANGED todo
    BY <1>3 DEF FindMain, Own
  <2>2. phase'[i] = "asking"
    BY <2>1 DEF Goes, LInv, LifeTyped
  <2>3. AtHead(i)' /\ BadCounted(i)'
    BY <1>1, <2>1, <2>2 DEF AtHead, BadCounted
  <2>4. NamesPart(i)'
    BY <1>1, <2>1, NamesStay DEF Reader, NamesPart
  <2>5. DefaultsFirst(todo[i])'
    BY <1>1, <2>1, DefaultsStay DEF Reader
  <2>6. OwnAhead(i)'
    <3>1. \A own, cell : Follows(todo[i], 1, own) \/ StillBinds(i, own, cell) =>
                            Follows(todo[i], 1, own)' \/ StillBinds(i, own, cell)'
      BY <2>1, <2>2 DEF Follows, StillBinds
    <3> QED
      BY <1>1, <3>1, OwnStays DEF Reader
  <2> QED
    BY <1>1, <2>1, <2>3, <2>4, <2>5, <2>6 DEF Reader, NamesPart, ReadingTyped
<1> QED
  BY <1>2, <1>3

\* What is at the head of a task list is known to be a file or not by its first part.
LEMMA Heads ==
  ASSUME ReadingTyped, NEW i \in Instances, todo[i] # <<>>, NEW h, h = Head(todo[i])
  PROVE  /\ h \in Tasks /\ h = todo[i][1] /\ 1 \in DOMAIN todo[i]
         /\ h[1] \in {"user", "default"} => h \in Files
         /\ h[1] = "find" => h[2] \in {"main"} \cup ToSet(Locales) /\ h \notin DOMAIN disk
         /\ h[1] = "table" => h[2] \in TableNames /\ h = <<"table", h[2]>> /\ h \notin DOMAIN disk
         /\ h[1] = "args" => h = ArgLines /\ h \notin DOMAIN disk
<1>1. h \in Tasks /\ h = todo[i][1] /\ 1 \in DOMAIN todo[i]
  BY DEF ReadingTyped
<1>2. \A f \in Files : f[1] \in {"user", "default"}
  BY DEF Files
<1>3. \A f \in DOMAIN disk : f[1] \in {"user", "default"}
  <2>1. Example[1] = "default"
    BY DEF Example
  <2> QED
    BY <1>2, <2>1 DEF ReadingTyped
<1>4. \/ h \in Files
      \/ h \in {"find"} \X ({"main"} \cup ToSet(Locales))
      \/ h = ArgLines
      \/ h \in {"table"} \X {"keysymdef.h", "Compose"}
  BY <1>1 DEF Tasks
<1>5. ArgLines[1] = "args"
  BY DEF ArgLines
<1>6. CASE h \in Files
  BY <1>1, <1>2, <1>6
<1>7. CASE h \in {"find"} \X ({"main"} \cup ToSet(Locales))
  BY <1>1, <1>3, <1>7
<1>8. CASE h = ArgLines
  BY <1>1, <1>3, <1>5, <1>8
<1>9. CASE h \in {"table"} \X {"keysymdef.h", "Compose"}
  BY <1>1, <1>3, <1>9 DEF TableNames
<1> QED
  BY <1>4, <1>6, <1>7, <1>8, <1>9

LEMMA UnlessSeq ==
  ASSUME NEW cond, NEW task
  PROVE  Unless(cond, task) \in Seq({task})
<1> DEFINE S == {task}
<1>1. task \in S
  OBVIOUS
<1> HIDE DEF S
<1>2. <<>> \in Seq(S) /\ <<task>> \in Seq(S)
  BY <1>1
<1>3. Unless(cond, task) = <<>> \/ Unless(cond, task) = <<task>>
  BY DEF Unless
<1> QED
  BY <1>2, <1>3 DEF S

LEMMA FindLangKeeps ==
  ASSUME RInv, NEW i \in Instances, FindLang(i)
  PROVE  Reader(i)' /\ todo' \in [Instances -> Seq(Tasks)]
<1> DEFINE x == Head(todo[i])[2]
           user == <<"user", x>>
           default == <<"default", x>>
<1>1. /\ ReadingTyped /\ Reader(i) /\ todo[i] # <<>> /\ Head(todo[i])[1] = "find" /\ x # "main"
      /\ phase'[i] = "reading" /\ UNCHANGED <<disk, rest, failed, tables, meaning>> /\ DiskGrows
  BY DiskStays DEF FindLang, Reading, RInv
<1>2. /\ x \in ToSet(Locales) /\ Head(todo[i]) \notin DOMAIN disk
      /\ Head(todo[i]) # <<"find", "main">> /\ Head(todo[i]) # <<"table", "keysymdef.h">>
  <2>1. x \in {"main"} \cup ToSet(Locales) /\ Head(todo[i]) \notin DOMAIN disk
    BY <1>1, Heads
  <2> QED
    BY <1>1, <2>1
<1>3. default \in Tasks /\ user \in Tasks /\ default # user
  BY <1>2 DEF Tasks, Files
<1>4. PICK tasks \in Seq(Tasks) : Expands(i, tasks) /\ Paired(tasks)
  <2>1. CASE user \in DOMAIN disk
    <3> DEFINE front == Unless(NoDefault(disk[user], "main"), default)
               tasks == front \o <<user>>
    <3>1. Expands(i, tasks)
      BY <2>1 DEF FindLang
    <3>2. front \in Seq({default})
      BY UnlessSeq
    <3> HIDE DEF front
    <3>3. tasks \in Seq(Tasks)
      <4>1. front \in Seq(Tasks)
        BY <1>3, <3>2
      <4>2. <<user>> \in Seq(Tasks)
        BY <1>3
      <4> QED
        BY <4>1, <4>2
    <3> DEFINE own == user
    <3>a. tasks = front \o <<own>>
      OBVIOUS
    <3> HIDE DEF own, tasks
    <3>4. \A n \in DOMAIN tasks : tasks[n] \in {default} \/ tasks[n] = own
      BY <3>2, <3>a, LastFollows
    <3>5. \A n \in DOMAIN tasks : tasks[n] \in {default} => tasks[n] = own \/ Follows(tasks, n, own)
      BY <3>2, <3>a, LastFollows
    <3>6. Paired(tasks)
      BY <1>3, <3>4, <3>5 DEF Paired, own
    <3> QED
      BY <3>1, <3>3, <3>6
  <2>2. CASE user \notin DOMAIN disk
    <3>1. Expands(i, <<default>>)
      BY <2>2 DEF FindLang
    <3>2. <<default>> \in Seq(Tasks) /\ Paired(<<default>>)
      BY <1>3, <2>2 DEF Paired
    <3> QED
      BY <3>1, <3>2
  <2> QED
    BY <2>1, <2>2
<1>5. /\ AtHead(i)' /\ BadCounted(i)' /\ DefaultsFirst(todo[i])' /\ OwnAhead(i)'
      /\ todo' \in [Instances -> Seq(Tasks)]
  BY <1>1, <1>2, <1>4, Expands_Reader
<1>6. NamesPart(i)'
  BY <1>1, <1>2, NamesStay DEF Reader, NamesPart, NamesAhead
<1> QED
  BY <1>5, <1>6 DEF Reader, NamesPart

\* A task is done and nothing comes instead.
LEMMA Done ==
  ASSUME ReadingTyped, NEW i \in Instances, Reader(i), todo[i] # <<>>,
         Expands(i, <<>>), UNCHANGED <<disk, meaning, rest>>, phase'[i] = "reading",
         \A cell \in Cells : Head(todo[i]) \in DOMAIN disk => ~StillBinds(i, Head(todo[i]), cell)
  PROVE  /\ AtHead(i)' /\ BadCounted(i)' /\ DefaultsFirst(todo[i])' /\ OwnAhead(i)'
         /\ todo' \in [Instances -> Seq(Tasks)]
<1>1. <<>> \in Seq(Tasks) /\ Paired(<<>>)
  BY DEF Paired
<1> QED
  BY <1>1, Expands_Reader

LEMMA ReadTableKeeps ==
  ASSUME RInv, NEW i \in Instances, ReadTable(i)
  PROVE  Reader(i)' /\ ReadingTyped'
<1> DEFINE name == Head(todo[i])[2]
<1>1. /\ ReadingTyped /\ Reader(i) /\ todo[i] # <<>> /\ Head(todo[i])[1] = "table"
      /\ phase'[i] = "reading" /\ UNCHANGED <<disk, rest, failed, failed_lines, meaning, quit>>
      /\ Expands(i, <<>>) /\ tables[i] \in Seq({"default", "own"} \X TableNames)
      /\ tables' = [tables EXCEPT ![i] = Append(tables[i], <<"default", name>>)]
  BY DEF ReadTable, Reading, RInv, ReadingTyped, uiVars
<1>2. /\ Head(todo[i]) \notin DOMAIN disk /\ name \in TableNames
      /\ Head(todo[i]) = <<"table", name>>
  BY <1>1, Heads
<1> HIDE DEF name
<1>3. /\ AtHead(i)' /\ BadCounted(i)' /\ DefaultsFirst(todo[i])' /\ OwnAhead(i)'
      /\ todo' \in [Instances -> Seq(Tasks)]
  BY <1>1, <1>2, Done
<1>4. <<"default", name>> \in {"default", "own"} \X TableNames
  BY <1>2
<1> DEFINE s == Append(tables[i], <<"default", name>>)
<1>5. /\ s \in Seq({"default", "own"} \X TableNames) /\ Len(s) = Len(tables[i]) + 1
      /\ \A n \in 1 .. Len(tables[i]) : s[n] = tables[i][n]
      /\ s[Len(tables[i]) + 1] = <<"default", name>>
  BY <1>1, <1>4
<1>6. ReadingTyped' /\ tables'[i] = s
  BY <1>1, <1>3, <1>5 DEF ReadingTyped
<1> HIDE DEF s
<1>7. DOMAIN s = 1 .. Len(tables[i]) + 1 /\ DOMAIN tables[i] = 1 .. Len(tables[i])
      /\ Len(tables[i]) \in Nat
  BY <1>1, <1>5
<1>8. NamesFirstOf(i)'
  <2> SUFFICES ASSUME NEW n \in DOMAIN s, s[n][2] = "Compose"
               PROVE  NoNames \/ \E k \in 1 .. n - 1 : s[k][2] = "keysymdef.h"
    BY <1>1, <1>6 DEF NamesFirstOf, NoNames
  <2>1. CASE n \in DOMAIN tables[i]
    <3>1. tables[i][n][2] = "Compose"
      BY <1>5, <1>7, <2>1
    <3>2. NoNames \/ \E k \in 1 .. n - 1 : tables[i][k][2] = "keysymdef.h"
      BY <1>1, <2>1, <3>1 DEF Reader, NamesFirstOf
    <3>3. \A k \in 1 .. n - 1 : s[k] = tables[i][k]
      BY <1>5, <1>7, <2>1
    <3> QED
      BY <3>2, <3>3
  <2>2. CASE n = Len(tables[i]) + 1
    <3>1. name = "Compose"
      BY <1>5, <2>2
    <3>2. HasNames(i) \/ NoNames
      BY <1>1, <1>2, <3>1 DEF Reader, NamesAhead
    <3> QED
      BY <1>5, <1>7, <2>2, <3>2 DEF HasNames
  <2> QED
    BY <1>7, <2>1, <2>2
<1>9. NamesAhead(i)'
  <2>1. HasNames(i) => HasNames(i)'
    BY <1>5, <1>6, <1>7 DEF HasNames
  <2>2. NoNames => NoNames'
    BY <1>1 DEF NoNames
  <2>3. CASE name = "keysymdef.h"
    BY <1>5, <1>6, <1>7, <2>3 DEF NamesAhead, HasNames
  <2>4. CASE name = "Compose"
    BY <1>1, <1>2, <2>1, <2>2, <2>4 DEF Reader, NamesAhead
  <2> QED
    BY <1>2, <2>3, <2>4 DEF TableNames
<1> QED
  BY <1>3, <1>6, <1>8, <1>9 DEF Reader

LEMMA SkipFileKeeps ==
  ASSUME RInv, NEW i \in Instances, SkipFile(i)
  PROVE  Reader(i)' /\ todo' \in [Instances -> Seq(Tasks)]
<1>1. /\ ReadingTyped /\ Reader(i) /\ todo[i] # <<>> /\ Head(todo[i]) \notin DOMAIN disk
      /\ Head(todo[i])[1] \in {"user", "default"}
      /\ phase'[i] = "reading" /\ UNCHANGED <<disk, rest, failed, tables, meaning>>
      /\ Expands(i, <<>>) /\ DiskGrows
  BY DiskStays DEF SkipFile, Reading, RInv
<1>2. /\ AtHead(i)' /\ BadCounted(i)' /\ DefaultsFirst(todo[i])' /\ OwnAhead(i)'
      /\ todo' \in [Instances -> Seq(Tasks)]
  BY <1>1, Done
<1>3. HasNames(i) \/ NoNames
  BY <1>1 DEF Reader, NamesAhead
<1>4. NamesPart(i)'
  BY <1>1, <1>3, NamesStay DEF Reader, NamesPart
<1> QED
  BY <1>2, <1>4 DEF Reader, NamesPart

LEMMA ParseFileKeeps ==
  ASSUME RInv, HInv, LInv, NEW i \in Instances,
         phase[i] = "reading", todo[i] # <<>>, Head(todo[i]) \in DOMAIN disk,
         Head(todo[i])[1] \in {"user", "default"}, Goes(i, "parsing"),
         rest' = [rest EXCEPT ![i] = disk[Head(todo[i])]], failed' = [failed EXCEPT ![i] = FALSE],
         UNCHANGED <<disk, todo, tables, meaning>>
  PROVE  Reader(i)'
<1> DEFINE f == Head(todo[i])
<1>1. /\ ReadingTyped /\ Reader(i) /\ DiskGrows /\ phase'[i] = "parsing"
      /\ rest'[i] = disk[f] /\ failed'[i] = FALSE
  BY DiskStays DEF RInv, LInv, LifeTyped, HInv, HotkeysTyped, ReadingTyped, Goes
<1>2. f \in Files
  BY <1>1, Heads
<1>3. AtHead(i)' /\ BadCounted(i)'
  BY <1>1, <1>2 DEF AtHead, BadCounted
<1>4. HasNames(i) \/ NoNames
  BY <1>1 DEF Reader, NamesAhead
<1>5. NamesPart(i)'
  BY <1>1, <1>4, NamesStay DEF Reader, NamesPart
<1>6. DefaultsFirst(todo[i])'
  BY <1>1, DefaultsStay DEF Reader
<1>7. OwnAhead(i)'
  <2> SUFFICES ASSUME NEW cell \in Cells, NEW own, own = <<"user", meaning[i][cell][2]>>,
                      meaning[i][cell][1] = "default", own \in DOMAIN disk, Binds(own, cell)
               PROVE  Created(own) \/ Follows(todo[i], 1, own) \/ StillBinds(i, own, cell)'
    BY DEF OwnAhead, Created, Binds, Follows
  <2>1. Created(own) \/ Follows(todo[i], 1, own) \/ StillBinds(i, own, cell)
    BY <1>1 DEF Reader, OwnAhead
  <2>2. ASSUME StillBinds(i, own, cell) PROVE StillBinds(i, own, cell)'
    <3>1. own = f
      BY <2>2 DEF StillBinds
    <3>2. \E n \in DOMAIN rest'[i] : rest'[i][n] = [kind |-> "bind", cell |-> cell]
      BY <1>1, <3>1 DEF Binds
    <3> QED
      BY <1>1, <2>2, <3>2 DEF StillBinds, ToSet
  <2> QED
    BY <2>1, <2>2
<1> QED
  BY <1>3, <1>5, <1>6, <1>7 DEF Reader, NamesPart

LEMMA ParseArgsKeeps ==
  ASSUME RInv, LInv, NEW i \in Instances, ParseArgs(i)
  PROVE  Reader(i)'
<1>1. /\ ReadingTyped /\ Reader(i) /\ DiskGrows /\ phase'[i] = "parsing" /\ phase[i] = "reading"
      /\ UNCHANGED <<disk, todo, failed, tables, meaning>> /\ todo[i] # <<>>
      /\ Head(todo[i])[1] = "args"
  BY DiskStays DEF RInv, LInv, LifeTyped, Goes, ParseArgs, Reading
<1>2. Head(todo[i]) = ArgLines /\ ArgLines \notin DOMAIN disk
  BY <1>1, Heads
<1>3. AtHead(i)' /\ BadCounted(i)'
  BY <1>1, <1>2 DEF AtHead, BadCounted
<1>4. HasNames(i) \/ NoNames
  BY <1>1 DEF Reader, NamesAhead
<1>5. NamesPart(i)'
  BY <1>1, <1>4, NamesStay DEF Reader, NamesPart
<1>6. DefaultsFirst(todo[i])'
  BY <1>1, DefaultsStay DEF Reader
<1>7. OwnAhead(i)'
  <2> SUFFICES ASSUME NEW cell \in Cells, NEW own, own = <<"user", meaning[i][cell][2]>>,
                      meaning[i][cell][1] = "default", own \in DOMAIN disk, Binds(own, cell)
               PROVE  Created(own) \/ Follows(todo[i], 1, own)
    BY <1>1 DEF OwnAhead, Created, Binds, Follows
  <2>1. Created(own) \/ Follows(todo[i], 1, own) \/ StillBinds(i, own, cell)
    BY <1>1 DEF Reader, OwnAhead
  <2> QED
    BY <1>2, <2>1 DEF StillBinds
<1> QED
  BY <1>3, <1>5, <1>6, <1>7 DEF Reader, NamesPart

\* A line is taken off.
LEMMA Lined ==
  ASSUME NEW s \in Seq(Lines), s # <<>>
  PROVE  /\ Head(s) \in Lines
         /\ HasBad(s) <=> Unrecognized(Head(s)) \/ HasBad(Tail(s))
         /\ \A line : line \in ToSet(s) => line = Head(s) \/ line \in ToSet(Tail(s))
<1>1. /\ DOMAIN s = 1 .. Len(s) /\ DOMAIN Tail(s) = 1 .. Len(s) - 1 /\ Len(s) \in Nat \ {0}
      /\ Head(s) = s[1] /\ \A n \in 1 .. Len(s) - 1 : Tail(s)[n] = s[n + 1]
  OBVIOUS
<1>2. ASSUME NEW n \in DOMAIN s
      PROVE  s[n] = Head(s) \/ \E m \in DOMAIN Tail(s) : Tail(s)[m] = s[n]
  <2>1. CASE n = 1
    BY <1>1, <2>1
  <2>2. CASE n > 1
    <3>1. n - 1 \in 1 .. Len(s) - 1 /\ Tail(s)[n - 1] = s[(n - 1) + 1] /\ (n - 1) + 1 = n
      BY <1>1, <2>2
    <3> QED
      BY <1>1, <3>1
  <2> QED
    BY <1>1, <2>1, <2>2
<1>3. \A m \in DOMAIN Tail(s) : m + 1 \in DOMAIN s /\ Tail(s)[m] = s[m + 1]
  BY <1>1
<1>4. 1 \in DOMAIN s /\ Head(s) = s[1]
  BY <1>1
<1>5. HasBad(s) <=> Unrecognized(Head(s)) \/ HasBad(Tail(s))
  BY <1>2, <1>3, <1>4 DEF HasBad
<1>6. \A line : line \in ToSet(s) => line = Head(s) \/ line \in ToSet(Tail(s))
  BY <1>2 DEF ToSet
<1> QED
  BY <1>5, <1>6

\* The next line, whatever it does to the tables and to the cells.
LEMMA NextLineKeeps ==
  ASSUME RInv, HInv, LInv, NEW i \in Instances, NextLine(i),
         Head(todo[i]) # ArgLines => failed'[i] = (failed[i] \/ Unrecognized(Head(rest[i])))
  PROVE  /\ AtHead(i)' /\ BadCounted(i)' /\ DefaultsFirst(todo[i])'
         /\ todo[i] # <<>> /\ Head(todo[i]) \in Files \cup {ArgLines}
         /\ HasNames(i) \/ NoNames
         /\ \A own, cell : Follows(todo[i], 1, own) => Follows(todo[i], 1, own)'
         /\ \A own, cell : StillBinds(i, own, cell) =>
              StillBinds(i, own, cell)' \/ Head(rest[i]) = [kind |-> "bind", cell |-> cell]
<1>1. /\ ReadingTyped /\ Reader(i) /\ DiskGrows /\ phase[i] = "parsing" /\ rest[i] # <<>>
      /\ UNCHANGED <<disk, phase, todo>> /\ rest[i] \in Seq(Lines) /\ rest'[i] = Tail(rest[i])
  BY DiskStays DEF RInv, NextLine, HInv, HotkeysTyped
<1>2. todo[i] # <<>> /\ Head(todo[i]) \in Files \cup {ArgLines}
  BY <1>1 DEF Reader, AtHead
<1>3. /\ HasBad(rest[i]) <=> Unrecognized(Head(rest[i])) \/ HasBad(rest'[i])
      /\ \A line : line \in ToSet(rest[i]) => line = Head(rest[i]) \/ line \in ToSet(rest'[i])
  BY <1>1, Lined
<1>4. AtHead(i)'
  BY <1>1 DEF Reader, AtHead
<1>5. BadCounted(i)'
  <2>1. BadCounted(i) /\ HasBad(rest[i])' = HasBad(rest'[i])
    BY <1>1 DEF Reader, HasBad
  <2> QED
    BY <1>1, <1>3, <2>1 DEF BadCounted, HasBad
<1>6. DefaultsFirst(todo[i])'
  BY <1>1, DefaultsStay DEF Reader
<1>7. HasNames(i) \/ NoNames
  <2>1. \A f \in Files : f[1] \in {"user", "default"}
    BY DEF Files
  <2>2. Head(todo[i]) # <<"find", "main">> /\ Head(todo[i]) # <<"table", "keysymdef.h">>
    BY <1>2, <2>1 DEF ArgLines
  <2> QED
    BY <1>1, <2>2 DEF Reader, NamesAhead
<1>8. \A own : Follows(todo[i], 1, own) => Follows(todo[i], 1, own)'
  BY <1>1 DEF Follows
<1>9. \A own, cell : StillBinds(i, own, cell) =>
        StillBinds(i, own, cell)' \/ Head(rest[i]) = [kind |-> "bind", cell |-> cell]
  BY <1>1, <1>3 DEF StillBinds
<1> QED
  BY <1>2, <1>4, <1>5, <1>6, <1>7, <1>8, <1>9

LEMMA TableAppended ==
  ASSUME ReadingTyped, NEW i \in Instances, NamesPart(i), HasNames(i) \/ NoNames, UNCHANGED disk,
         NEW e \in {"default", "own"} \X TableNames, tables' = [tables EXCEPT ![i] = Append(@, e)]
  PROVE  NamesPart(i)' /\ tables' \in [Instances -> Seq({"default", "own"} \X TableNames)]
<1> DEFINE s == Append(tables[i], e)
<1>1. /\ tables[i] \in Seq({"default", "own"} \X TableNames)
      /\ tables' = [tables EXCEPT ![i] = s]
  BY DEF ReadingTyped
<1>2. /\ s \in Seq({"default", "own"} \X TableNames) /\ Len(s) = Len(tables[i]) + 1
      /\ \A n \in 1 .. Len(tables[i]) : s[n] = tables[i][n]
      /\ DOMAIN s = 1 .. Len(tables[i]) + 1 /\ DOMAIN tables[i] = 1 .. Len(tables[i])
      /\ Len(tables[i]) \in Nat
  BY <1>1
<1> HIDE DEF s
<1>3. /\ tables' \in [Instances -> Seq({"default", "own"} \X TableNames)] /\ tables'[i] = s
  BY <1>1, <1>2 DEF ReadingTyped
<1>4. HasNames(i) => HasNames(i)'
  BY <1>2, <1>3 DEF HasNames
<1>5. NoNames <=> NoNames'
  BY DEF NoNames
<1>6. NamesFirstOf(i)'
  <2> SUFFICES ASSUME NEW n \in DOMAIN tables'[i], tables'[i][n][2] = "Compose"
               PROVE  NoNames' \/ \E k \in 1 .. n - 1 : tables'[i][k][2] = "keysymdef.h"
    BY DEF NamesFirstOf
  <2> SUFFICES NoNames \/ \E k \in 1 .. n - 1 : s[k][2] = "keysymdef.h"
    BY <1>3, <1>5, Zenon
  <2>n. n \in DOMAIN s /\ s[n][2] = "Compose"
    BY <1>3
  <2>1. CASE n \in DOMAIN tables[i]
    <3>1. tables[i][n][2] = "Compose"
      BY <1>2, <2>1, <2>n
    <3>2. NoNames \/ \E k \in 1 .. n - 1 : tables[i][k][2] = "keysymdef.h"
      BY <2>1, <3>1 DEF NamesPart, NamesFirstOf
    <3>3. \A k \in 1 .. n - 1 : s[k] = tables[i][k]
      BY <1>2, <2>1
    <3> QED
      BY <3>2, <3>3
  <2>2. CASE n = Len(tables[i]) + 1
    BY <1>2, <2>2 DEF HasNames
  <2> QED
    BY <1>2, <2>1, <2>2, <2>n
<1> QED
  BY <1>3, <1>4, <1>5, <1>6 DEF NamesPart, NamesAhead

LEMMA ReadsKeep ==
  ASSUME RInv, HInv, LInv, NEW i \in Instances,
         \/ ReadHotkey(i) \/ ReadBind(i) \/ ReadOwnTable(i) \/ ReadNodefault(i)
         \/ ReadUnrecognized(i) /\ ~Crash(i)
  PROVE  Reader(i)' /\ ReadingTyped'
<1> USE DEF uiVars
<1> DEFINE line == Head(rest[i])
<1>1. /\ ReadingTyped /\ Reader(i) /\ NextLine(i) /\ line \in Lines /\ DiskGrows
      /\ rest[i] \in Seq(Lines) /\ rest[i] # <<>> /\ UNCHANGED <<disk, todo, quit>>
  <2>1. NextLine(i)
    BY DEF ReadHotkey, ReadBind, ReadOwnTable, ReadNodefault, ReadUnrecognized
  <2>2. rest[i] \in Seq(Lines) /\ rest[i] # <<>> /\ UNCHANGED <<disk, todo, quit>>
    BY <2>1 DEF NextLine, HInv, HotkeysTyped
  <2> QED
    BY <2>1, <2>2, DiskStays, Lined DEF RInv
<1>2. /\ Head(todo[i]) # ArgLines => failed'[i] = (failed[i] \/ Unrecognized(line))
      /\ failed' \in [Instances -> BOOLEAN] /\ failed_lines' \in [Instances -> {"none", "live", "freed"}]
  <2>1. CASE ReadHotkey(i) \/ ReadBind(i) \/ ReadOwnTable(i) \/ ReadNodefault(i)
    <3>1. UNCHANGED <<failed, failed_lines>>
      BY <2>1 DEF ReadHotkey, ReadBind, ReadOwnTable, ReadNodefault
    <3>2. ~Unrecognized(line)
      BY <2>1 DEF ReadHotkey, ReadBind, ReadOwnTable, ReadNodefault, Unrecognized
    <3>3. failed[i] \in BOOLEAN
      BY <1>1 DEF ReadingTyped
    <3> QED
      BY <1>1, <3>1, <3>2, <3>3 DEF ReadingTyped
  <2>2. CASE ReadUnrecognized(i) /\ ~Crash(i)
    <3>1. Unrecognized(line)
      BY <2>2 DEF ReadUnrecognized
    <3>2. CASE /\ failed' = [failed EXCEPT ![i] = TRUE]
               /\ failed_lines' = [failed_lines EXCEPT ![i] = IF @ = "none" THEN "live" ELSE @]
      BY <1>1, <3>1, <3>2 DEF ReadingTyped
    <3>3. CASE Head(todo[i]) = ArgLines /\ UNCHANGED <<failed, failed_lines>>
      BY <1>1, <3>3 DEF ReadingTyped
    <3> QED
      BY <2>2, <3>2, <3>3 DEF ReadUnrecognized
  <2> QED
    BY <2>1, <2>2
<1>3. /\ AtHead(i)' /\ BadCounted(i)' /\ DefaultsFirst(todo[i])'
      /\ todo[i] # <<>> /\ Head(todo[i]) \in Files \cup {ArgLines}
      /\ HasNames(i) \/ NoNames
      /\ \A own : Follows(todo[i], 1, own) => Follows(todo[i], 1, own)'
      /\ \A own, cell : StillBinds(i, own, cell) =>
           StillBinds(i, own, cell)' \/ line = [kind |-> "bind", cell |-> cell]
  BY <1>1, <1>2, NextLineKeeps
<1>4. /\ NamesPart(i)' /\ tables' \in [Instances -> Seq({"default", "own"} \X TableNames)]
  <2>1. CASE UNCHANGED tables
    BY <1>1, <1>3, <2>1, NamesStay DEF Reader, NamesPart, ReadingTyped
  <2>2. CASE line.kind = "table" /\ tables' = [tables EXCEPT ![i] = Append(@, <<"own", line.what>>)]
    <3>1. <<"own", line.what>> \in {"default", "own"} \X TableNames
      BY <1>1, <2>2 DEF Lines, TableNames
    <3> QED
      BY <1>1, <1>3, <2>2, <3>1, TableAppended DEF Reader, NamesPart
  <2> QED
    BY <2>1, <2>2 DEF ReadHotkey, ReadBind, ReadOwnTable, ReadNodefault, ReadUnrecognized
<1>5. OwnAhead(i)' /\ meaning' \in [Instances -> [Cells -> Files \cup {ArgLines, NoFile}]]
  <2>1. CASE UNCHANGED meaning /\ line.kind # "bind"
    <3>1. \A cell : line # [kind |-> "bind", cell |-> cell]
      BY <2>1
    <3>2. OwnAhead(i)'
      BY <1>1, <1>3, <2>1, <3>1, OwnStays DEF Reader
    <3> QED
      BY <1>1, <2>1, <3>2 DEF ReadingTyped
  <2>2. CASE line.kind = "bind" /\ meaning' = [meaning EXCEPT ![i][line.cell] = Head(todo[i])]
    <3>1. line.cell \in Cells
      BY <1>1, <2>2 DEF Lines
    <3>2. /\ meaning' \in [Instances -> [Cells -> Files \cup {ArgLines, NoFile}]]
          /\ \A cell \in Cells : \/ cell # line.cell /\ meaning'[i][cell] = meaning[i][cell]
                                 \/ cell = line.cell /\ meaning'[i][cell] = Head(todo[i])
      BY <1>1, <1>3, <2>2, <3>1 DEF ReadingTyped
    <3>3. ASSUME NEW cell \in Cells, NEW own, own = <<"user", meaning'[i][cell][2]>>,
                 meaning'[i][cell][1] = "default", own \in DOMAIN disk, Binds(own, cell)
          PROVE  Created(own) \/ Follows(todo[i], 1, own) \/ StillBinds(i, own, cell)'
      <4>1. CASE cell # line.cell /\ meaning'[i][cell] = meaning[i][cell]
        <5>1. Created(own) \/ Follows(todo[i], 1, own) \/ StillBinds(i, own, cell)
          BY <1>1, <3>3, <4>1 DEF Reader, OwnAhead
        <5>2. line # [kind |-> "bind", cell |-> cell]
          BY <4>1
        <5> QED
          BY <1>3, <5>1, <5>2
      <4>2. CASE meaning'[i][cell] = Head(todo[i])
        <5>1. Head(todo[i]) = todo[i][1] /\ 1 \in DOMAIN todo[i]
          BY <1>1, <1>3, Heads
        <5> QED
          BY <1>1, <3>3, <4>2, <5>1 DEF Reader, DefaultsFirst
      <4> QED
        BY <3>2, <4>1, <4>2
    <3>4. OwnAhead(i)'
      BY <1>1, <3>3 DEF OwnAhead, Created, Binds, Follows
    <3> QED
      BY <3>2, <3>4
  <2> QED
    BY <2>1, <2>2 DEF ReadHotkey, ReadBind, ReadOwnTable, ReadNodefault, ReadUnrecognized, Unrecognized
<1> QED
  BY <1>1, <1>2, <1>3, <1>4, <1>5 DEF Reader, NamesPart, ReadingTyped

\* A file whose lines were read is done with, unless it is reported.
LEMMA FileDone ==
  ASSUME RInv, NEW i \in Instances, phase[i] = "reporting" \/ (phase[i] = "parsing" /\ rest[i] = <<>>),
         Expands(i, <<>>), phase'[i] = "reading", UNCHANGED <<disk, meaning, rest, tables>>
  PROVE  Reader(i)' /\ todo' \in [Instances -> Seq(Tasks)]
<1>1. ReadingTyped /\ Reader(i) /\ todo[i] # <<>> /\ Head(todo[i]) \in Files \cup {ArgLines}
  BY DEF RInv, Reader, AtHead
<1>2. \A own, cell : ~StillBinds(i, own, cell)
  BY DEF StillBinds, ToSet
<1>3. /\ AtHead(i)' /\ BadCounted(i)' /\ DefaultsFirst(todo[i])' /\ OwnAhead(i)'
      /\ todo' \in [Instances -> Seq(Tasks)]
  BY <1>1, <1>2, Done
<1>4. HasNames(i) \/ NoNames
  <2>1. \A f \in Files : f[1] \in {"user", "default"}
    BY DEF Files
  <2>2. Head(todo[i]) # <<"find", "main">> /\ Head(todo[i]) # <<"table", "keysymdef.h">>
    BY <1>1, <2>1 DEF ArgLines
  <2> QED
    BY <1>1, <2>2 DEF Reader, NamesAhead
<1>5. NamesPart(i)'
  BY <1>1, <1>4, NamesStay, DiskStays DEF Reader, NamesPart
<1> QED
  BY <1>3, <1>5 DEF Reader, NamesPart

LEMMA EndFileKeeps ==
  ASSUME RInv, LInv, NEW i \in Instances, EndFile(i)
  PROVE  Reader(i)' /\ todo' \in [Instances -> Seq(Tasks)]
<1>1. /\ ReadingTyped /\ Reader(i) /\ phase[i] = "parsing" /\ rest[i] = <<>>
      /\ UNCHANGED <<disk, rest, failed, tables, meaning>> /\ phase \in [Instances -> Phases]
  BY DEF EndFile, RInv, LInv, LifeTyped
<1>2. CASE Goes(i, "reading") /\ Expands(i, <<>>)
  BY <1>1, <1>2, FileDone DEF Goes
<1>3. CASE Goes(i, "reporting") /\ UNCHANGED todo
  <2>1. phase'[i] = "reporting"
    BY <1>1, <1>3 DEF Goes
  <2>2. AtHead(i)' /\ BadCounted(i)'
    BY <1>1, <1>3, <2>1 DEF Reader, AtHead, BadCounted
  <2>3. NamesPart(i)'
    BY <1>1, <1>3, NamesStay, DiskStays DEF Reader, NamesPart, NamesAhead
  <2>4. DefaultsFirst(todo[i])'
    BY <1>1, <1>3, DefaultsStay, DiskStays DEF Reader
  <2>5. \A own, cell : ~StillBinds(i, own, cell)
    BY <1>1 DEF StillBinds, ToSet
  <2>6. OwnAhead(i)'
    BY <1>1, <1>3, <2>5, OwnStays, DiskStays DEF Reader, Follows
  <2> QED
    BY <1>1, <1>3, <2>2, <2>3, <2>4, <2>6 DEF Reader, NamesPart, ReadingTyped
<1> QED
  BY <1>2, <1>3 DEF EndFile

\* The answer no: the defaults alone.
LEMMA DefaultsAlone ==
  ASSUME RInv, LInv, NEW i \in Instances, phase[i] = "asking", Goes(i, "reading"),
         Expands(i, DefaultTables \o << <<"default", "main">> >>),
         UNCHANGED <<disk, rest, failed, tables, meaning>>
  PROVE  Reader(i)' /\ todo' \in [Instances -> Seq(Tasks)]
<1> DEFINE S == {<<"table", "keysymdef.h">>, <<"table", "Compose">>}
           last == <<"default", "main">>
           tasks == DefaultTables \o <<last>>
<1>1. /\ ReadingTyped /\ Reader(i) /\ todo[i] # <<>> /\ Head(todo[i]) = <<"find", "main">>
      /\ phase'[i] = "reading"
  BY DEF RInv, Reader, AtHead, LInv, LifeTyped, Goes
<1>2. /\ DefaultTables \in Seq(S) /\ DefaultTables # <<>>
      /\ DefaultTables[1] = <<"table", "keysymdef.h">>
  BY DEF DefaultTables
<1>a. S \subseteq Tasks /\ last \in Tasks /\ last[2] = "main" /\ \A x \in S : x[1] = "table"
  BY DEF Tasks, Files
<1>b. Expands(i, tasks)
  OBVIOUS
<1>c. tasks = DefaultTables \o <<last>>
  OBVIOUS
<1> HIDE DEF tasks, S, last
<1>3. tasks \in Seq(Tasks) /\ tasks # <<>> /\ tasks[1] = <<"table", "keysymdef.h">>
  <2>1. DefaultTables \in Seq(Tasks) /\ <<last>> \in Seq(Tasks)
    BY <1>2, <1>a
  <2>2. tasks \in Seq(Tasks)
    BY <1>c, <2>1
  <2>3. tasks # <<>>
    BY <1>2, <1>c, LastFollows
  <2>4. tasks[1] = DefaultTables[1]
    BY <1>2, <1>c, LastFollows
  <2> QED
    BY <1>2, <2>2, <2>3, <2>4
<1>4. Paired(tasks)
  <2>1. Own \in DOMAIN disk => Created(Own)
    BY DEF LInv, UserFileAskedFor, Created, Own
  <2>2. \A n \in DOMAIN tasks : tasks[n] \in S \/ tasks[n] = last
    BY <1>2, <1>c, LastFollows
  <2>3. \A n \in DOMAIN tasks : tasks[n][1] = "default" => <<"user", tasks[n][2]>> = Own
    BY <1>a, <2>2 DEF Own
  <2> QED
    BY <2>1, <2>3 DEF Paired
<1>5. Head(todo[i]) \notin DOMAIN disk
  <2>1. Head(todo[i])[1] = "find"
    BY <1>1
  <2> QED
    BY <1>1, <2>1, Heads
<1>6. /\ AtHead(i)' /\ BadCounted(i)' /\ DefaultsFirst(todo[i])' /\ OwnAhead(i)'
      /\ todo' \in [Instances -> Seq(Tasks)] /\ todo'[i] # <<>>
      /\ Head(todo'[i]) = <<"table", "keysymdef.h">>
  BY <1>1, <1>b, <1>3, <1>4, <1>5, Expands_Reader
<1>7. NamesPart(i)'
  BY <1>1, <1>6, NamesStay, DiskStays DEF Reader, NamesPart
<1> QED
  BY <1>6, <1>7 DEF Reader, NamesPart

-----------------------------------------------------------------------------
LEMMA DiskStep == LInv /\ [Next]_vars => DiskGrows
<1> SUFFICES ASSUME LInv, [Next]_vars PROVE DiskGrows
  OBVIOUS
<1>1. CASE UNCHANGED disk
  BY <1>1, DiskStays
<1>2. ASSUME NEW i \in Instances, AnswerAsking(i) PROVE DiskGrows
  <2>1. Example # Own
    BY DEF Example, Own
  <2>2. CASE /\ phase[i] = "asking" /\ Example \in DOMAIN disk
             /\ disk' = [f \in DOMAIN disk \cup {Own} |-> IF f = Own THEN disk[Example] ELSE disk[f]]
    BY <2>2 DEF DiskGrows, LInv, UserFileAskedFor, Own
  <2>3. UNCHANGED disk \/ (Example \in DOMAIN disk /\ disk' =
           [f \in DOMAIN disk \cup {Own} |-> IF f = Own THEN disk[Example] ELSE disk[f]])
    BY <1>2 DEF AnswerAsking, Crash, Own
  <2> QED
    BY <1>1, <1>2, <2>2, <2>3 DEF AnswerAsking
<1>3. CASE \E i \in Instances : Thread(i)
  <2> SUFFICES UNCHANGED disk
    BY <1>1
  <2> PICK i \in Instances : Thread(i)
    BY <1>3
  <2>1. CASE \/ FindMain(i) \/ FindLang(i) \/ ReadTable(i) \/ SkipFile(i) \/ ParseFile(i)
           \/ ParseArgs(i) \/ ReadLongName(i)
    BY <2>1 DEF FindMain, FindLang, ReadTable, SkipFile, ParseFile, ParseArgs, NextLine,
      ReadLongName, Crash
  <2>2. CASE \/ ReadHotkey(i) \/ ReadBind(i) \/ ReadOwnTable(i) \/ ReadNodefault(i)
           \/ ReadUnrecognized(i) \/ EndFile(i)
    BY <2>2 DEF ReadHotkey, ReadBind, ReadOwnTable, ReadNodefault, ReadUnrecognized, NextLine,
      EndFile, Crash
  <2>3. CASE \/ Activate(i) \/ ServeHotkey(i) \/ ModalDiscard(i) \/ MenuQuit(i) \/ Quit(i)
           \/ Exit(i)
    BY <2>3 DEF Activate, ServeHotkey, ModalDiscard, MenuQuit, Quit, Exit, Crash
  <2> QED
    BY <2>1, <2>2, <2>3 DEF Thread
<1>4. CASE \E i \in Instances : \/ AnswerReporting(i) \/ OpenMenu(i) \/ ChooseMenu(i) \/ CloseWindow(i)
                                \/ \E ka \in KAs : KeyAction(i, ka)
  BY <1>1, <1>4 DEF AnswerReporting, OpenMenu, ChooseMenu, CloseWindow, KeyAction
<1>5. CASE Launch \/ TaskbarLost \/ (\E c \in Combos : PressHotkey(c)) \/ UNCHANGED vars
  BY <1>1, <1>5 DEF Launch, TaskbarLost, PressHotkey, vars
<1> QED
  BY <1>2, <1>3, <1>4, <1>5 DEF Next

\* It goes on, or is started.
Starts(j) == phase'[j] = phase[j] \/ (phase[j] = "none" /\ phase'[j] = "reading")

\* What one instance reads is nothing to another; it may start it.
LEMMA Elsewhere ==
  ASSUME ReadingTyped, HInv, LInv, NEW i \in Instances, NEW j \in Instances, j # i,
         \/ Thread(i) \/ AnswerAsking(i) \/ AnswerReporting(i) \/ OpenMenu(i)
         \/ ChooseMenu(i) \/ CloseWindow(i) \/ \E ka \in KAs : KeyAction(i, ka)
  PROVE  /\ UNCHANGED <<todo[j], rest[j], failed[j], tables[j], meaning[j]>>
         /\ Starts(j)
<1> USE DEF readVars, uiVars, Starts
<1>1. ASSUME Crash(i)
      PROVE  /\ UNCHANGED <<todo[j], rest[j], failed[j], tables[j], meaning[j]>>
             /\ phase'[j] = phase[j]
  BY <1>1 DEF Crash, Goes, LInv, LifeTyped
<1>2. CASE FindMain(i) \/ FindLang(i) \/ ReadTable(i) \/ SkipFile(i)
  BY <1>2 DEF FindMain, FindLang, ReadTable, SkipFile, Expands, Goes, ReadingTyped, LInv, LifeTyped
<1>3. CASE ParseFile(i) \/ ParseArgs(i) \/ EndFile(i)
  <2>1. CASE ParseFile(i) /\ ~Crash(i)
    BY <2>1 DEF ParseFile, Goes, ReadingTyped, LInv, LifeTyped, HInv, HotkeysTyped
  <2>2. CASE ParseArgs(i)
    BY <2>2 DEF ParseArgs, Goes, LInv, LifeTyped, HInv, HotkeysTyped
  <2>3. CASE EndFile(i)
    BY <2>3 DEF EndFile, Expands, Goes, ReadingTyped, LInv, LifeTyped
  <2> QED
    BY <1>1, <1>3, <2>1, <2>2, <2>3
<1>4. CASE ReadHotkey(i) \/ ReadBind(i) \/ ReadOwnTable(i) \/ ReadNodefault(i)
           \/ (ReadUnrecognized(i) /\ ~Crash(i))
  <2>1. NextLine(i)
    BY <1>4 DEF ReadHotkey, ReadBind, ReadOwnTable, ReadNodefault, ReadUnrecognized
  <2>2. rest'[j] = rest[j] /\ todo'[j] = todo[j] /\ phase'[j] = phase[j]
    BY <2>1 DEF NextLine, HInv, HotkeysTyped
  <2>3. meaning'[j] = meaning[j]
    BY <1>4 DEF ReadHotkey, ReadBind, ReadOwnTable, ReadNodefault, ReadUnrecognized, ReadingTyped
  <2>4. tables'[j] = tables[j]
    BY <1>4 DEF ReadHotkey, ReadBind, ReadOwnTable, ReadNodefault, ReadUnrecognized, ReadingTyped
  <2>5. failed'[j] = failed[j]
    BY <1>4 DEF ReadHotkey, ReadBind, ReadOwnTable, ReadNodefault, ReadUnrecognized, ReadingTyped
  <2> QED
    BY <2>2, <2>3, <2>4, <2>5
<1>5. ASSUME Restarts(i) PROVE Starts(j)
  BY <1>5 DEF Restarts, OS_run_executable, IsNext
<1>6. ASSUME NEW ka, KA_call(i, ka) PROVE Starts(j)
  BY <1>5, <1>6 DEF KA_call
<1>7. CASE \/ ReadLongName(i)
           \/ Activate(i) \/ ServeHotkey(i) \/ ModalDiscard(i) \/ MenuQuit(i) \/ Quit(i) \/ Exit(i)
           \/ OpenMenu(i) \/ ChooseMenu(i) \/ CloseWindow(i) \/ \E ka \in KAs : KeyAction(i, ka)
  <2>1. UNCHANGED <<todo, rest, failed, tables, meaning>>
    BY <1>7 DEF ReadLongName, Activate, ServeHotkey, ModalDiscard, MenuQuit, Quit, Exit, OpenMenu, ChooseMenu,
      CloseWindow, KeyAction
  <2>2. \/ UNCHANGED phase \/ (\E ph : Goes(i, ph)) \/ Restarts(i) \/ \E ka : KA_call(i, ka)
    BY <1>7 DEF ReadLongName, Activate, ServeHotkey, ModalDiscard, MenuQuit, Quit, Exit, OpenMenu, ChooseMenu,
      CloseWindow, KeyAction
  <2>3. Starts(j)
    BY <1>5, <1>6, <2>2 DEF Goes, LInv, LifeTyped
  <2> QED
    BY <2>1, <2>3
<1>8. CASE AnswerAsking(i) /\ ~Crash(i)
  <2>1. UNCHANGED <<rest, failed, tables, meaning>> /\ Goes(i, "reading")
    BY <1>8 DEF AnswerAsking
  <2>2. todo'[j] = todo[j]
    BY <1>8 DEF AnswerAsking, Expands, ReadingTyped
  <2> QED
    BY <2>1, <2>2 DEF Goes, LInv, LifeTyped
<1>9. CASE AnswerReporting(i)
  <2>1. UNCHANGED <<rest, failed, tables, meaning>> /\ todo'[j] = todo[j]
    BY <1>9 DEF AnswerReporting, Expands, ReadingTyped
  <2>2. (\E ph : Goes(i, ph)) \/ Restarts(i)
    BY <1>9 DEF AnswerReporting
  <2> QED
    BY <1>5, <2>1, <2>2 DEF Goes, LInv, LifeTyped
<1> QED
  BY <1>1, <1>2, <1>3, <1>4, <1>7, <1>8, <1>9 DEF Thread

\* What the rest of an instance's life does to what it read: nothing.
LEMMA TypedKeeps ==
  ASSUME ReadingTyped, DiskGrows, todo' \in [Instances -> Seq(Tasks)], UNCHANGED <<tables, meaning>>,
         failed' \in [Instances -> BOOLEAN], failed_lines' \in [Instances -> {"none", "live", "freed"}],
         quit' \in [Instances -> BOOLEAN]
  PROVE  ReadingTyped'
<1>1. Own \in Files
  BY DEF Own, Files
<1>2. \A f \in DOMAIN disk' : f \in Files \cup {Example}
  BY <1>1 DEF ReadingTyped, DiskGrows
<1> QED
  BY <1>2 DEF ReadingTyped

\* A process that is gone reads no more.
LEMMA CrashKeeps ==
  ASSUME RInv, LInv, NEW i \in Instances, Crash(i)
  PROVE  Reader(i)' /\ ReadingTyped'
<1>1. /\ UNCHANGED <<disk, todo, rest, failed, failed_lines, tables, meaning, quit>>
      /\ phase'[i] = "crashed"
  BY DEF Crash, Goes, readVars, uiVars, LInv, LifeTyped
<1>2. Reader(i)'
  BY <1>1, Others, DiskStays DEF RInv
<1> QED
  BY <1>1, <1>2 DEF RInv, ReadingTyped

LEMMA ReadingKeeps ==
  ASSUME RInv, HInv, LInv, NEW i \in Instances,
         \/ FindMain(i) \/ FindLang(i) \/ ReadTable(i) \/ SkipFile(i)
         \/ ParseFile(i) \/ ParseArgs(i) \/ ReadHotkey(i)
         \/ ReadBind(i) \/ ReadOwnTable(i) \/ ReadLongName(i)
         \/ ReadNodefault(i) \/ ReadUnrecognized(i) \/ EndFile(i)
  PROVE  Reader(i)' /\ ReadingTyped'
<1> USE DEF uiVars
<1>1. ReadingTyped
  BY DEF RInv
<1>2. ASSUME Reader(i)', todo' \in [Instances -> Seq(Tasks)],
             UNCHANGED <<disk, failed, failed_lines, tables, meaning, quit>>
      PROVE  Reader(i)' /\ ReadingTyped'
  BY <1>1, <1>2 DEF ReadingTyped
<1>3. CASE FindMain(i)
  <2>1. UNCHANGED <<disk, failed, failed_lines, tables, meaning, quit>>
    BY <1>3 DEF FindMain
  <2> QED
    BY <1>2, <1>3, <2>1, FindMainKeeps
<1>4. CASE FindLang(i)
  <2>1. UNCHANGED <<disk, failed, failed_lines, tables, meaning, quit>>
    BY <1>4 DEF FindLang
  <2> QED
    BY <1>2, <1>4, <2>1, FindLangKeeps
<1>5. CASE ReadTable(i)
  BY <1>5, ReadTableKeeps
<1>6. CASE SkipFile(i)
  <2>1. UNCHANGED <<disk, failed, failed_lines, tables, meaning, quit>>
    BY <1>6 DEF SkipFile
  <2> QED
    BY <1>2, <1>6, <2>1, SkipFileKeeps
<1>7. CASE ParseFile(i)
  <2>1. CASE Crash(i)
    BY <2>1, CrashKeeps
  <2>2. CASE ~Crash(i)
    <3>1. /\ phase[i] = "reading" /\ todo[i] # <<>> /\ Head(todo[i]) \in DOMAIN disk
          /\ Head(todo[i])[1] \in {"user", "default"} /\ Goes(i, "parsing")
          /\ rest' = [rest EXCEPT ![i] = disk[Head(todo[i])]]
          /\ failed' = [failed EXCEPT ![i] = FALSE] /\ UNCHANGED <<disk, todo, tables, meaning, quit>>
          /\ failed_lines' = [failed_lines EXCEPT ![i] = IF @ = "none" THEN "none" ELSE "freed"]
      BY <1>7, <2>2 DEF ParseFile, Reading
    <3>2. Reader(i)'
      BY <3>1, ParseFileKeeps
    <3> QED
      BY <1>1, <3>1, <3>2 DEF ReadingTyped
  <2> QED
    BY <2>1, <2>2
<1>8. CASE ParseArgs(i)
  <2>1. UNCHANGED <<disk, todo, failed, failed_lines, tables, meaning, quit>>
    BY <1>8 DEF ParseArgs
  <2> QED
    BY <1>1, <1>8, <2>1, ParseArgsKeeps DEF ReadingTyped
<1>9. CASE ReadHotkey(i) \/ ReadBind(i) \/ ReadOwnTable(i) \/ ReadNodefault(i)
  BY <1>9, ReadsKeep
<1>10. CASE ReadUnrecognized(i)
  BY <1>10, ReadsKeep, CrashKeeps
<1>11. CASE EndFile(i)
  <2>1. UNCHANGED <<disk, failed, failed_lines, tables, meaning, quit>>
    BY <1>11 DEF EndFile
  <2> QED
    BY <1>2, <1>11, <2>1, EndFileKeeps
<1>12. CASE ReadLongName(i)
  <2>1. /\ UNCHANGED <<disk, todo, rest, failed, failed_lines, tables, meaning, quit>>
        /\ phase'[i] = "copying"
    BY <1>12 DEF ReadLongName, Goes, readVars, LInv, LifeTyped
  <2> QED
    BY <1>1, <2>1, Others, DiskStays DEF RInv, ReadingTyped
<1> QED
  BY <1>3, <1>4, <1>5, <1>6, <1>7, <1>8, <1>9, <1>10, <1>11, <1>12

LEMMA DialogsKeep ==
  ASSUME RInv, HInv, LInv, DiskGrows, NEW i \in Instances, AnswerAsking(i) \/ AnswerReporting(i)
  PROVE  Reader(i)' /\ ReadingTyped'
<1> USE DEF uiVars, readVars
<1>1. ReadingTyped /\ Reader(i) /\ phase \in [Instances -> Phases]
  BY DEF RInv, LInv, LifeTyped
<1>2. CASE Crash(i)
  BY <1>2, CrashKeeps
<1>3. CASE AnswerAsking(i) /\ ~Crash(i)
  <2>1. /\ phase[i] = "asking" /\ Goes(i, "reading") /\ phase'[i] = "reading"
        /\ UNCHANGED <<rest, failed, failed_lines, tables, meaning, quit>>
    BY <1>1, <1>3 DEF AnswerAsking, Goes
  <2>2. CASE UNCHANGED todo
    <3>1. Reader(i)'
      BY <1>1, <2>1, <2>2, Others
    <3> QED
      BY <1>1, <2>1, <2>2, <3>1, TypedKeeps DEF ReadingTyped
  <2>3. CASE Expands(i, DefaultTables \o << <<"default", "main">> >>) /\ UNCHANGED disk
    BY <1>1, <2>1, <2>3, DefaultsAlone, TypedKeeps DEF ReadingTyped
  <2> QED
    BY <1>3, <2>2, <2>3 DEF AnswerAsking
<1>4. CASE AnswerReporting(i)
  <2>1. phase[i] = "reporting" /\ UNCHANGED <<disk, rest, failed, failed_lines, tables, meaning, quit>>
    BY <1>4 DEF AnswerReporting
  <2>2. CASE Goes(i, "reading") /\ Expands(i, <<>>)
    <3>1. phase'[i] = "reading"
      BY <1>1, <2>2 DEF Goes
    <3>2. UNCHANGED <<disk, meaning, rest, tables>> /\ Expands(i, <<>>)
      BY <2>1, <2>2
    <3>3. Reader(i)'
      BY <2>1, <3>1, <3>2, FileDone
    <3>4. todo' \in [Instances -> Seq(Tasks)]
      BY <2>1, <3>1, <3>2, FileDone
    <3> QED
      BY <1>1, <2>1, <3>3, <3>4, TypedKeeps DEF ReadingTyped
  <2>3. CASE (Goes(i, "exiting") \/ Restarts(i)) /\ UNCHANGED todo
    <3>1. phase'[i] = "exiting"
      BY <1>1, <2>3 DEF Goes, Restarts
    <3> QED
      BY <1>1, <2>1, <2>3, <3>1, Others, TypedKeeps DEF ReadingTyped
  <2> QED
    BY <1>4, <2>2, <2>3 DEF AnswerReporting
<1> QED
  BY <1>2, <1>3, <1>4

LEMMA RunningKeeps ==
  ASSUME RInv, LInv, NEW i \in Instances,
         \/ Activate(i) \/ ServeHotkey(i) \/ ModalDiscard(i) \/ MenuQuit(i) \/ Quit(i) \/ Exit(i)
         \/ OpenMenu(i) \/ ChooseMenu(i) \/ CloseWindow(i) \/ \E ka \in KAs : KeyAction(i, ka)
  PROVE  Reader(i)' /\ ReadingTyped'
<1> USE DEF uiVars, readVars
<1>1. ReadingTyped /\ Reader(i) /\ phase \in [Instances -> Phases]
  BY DEF RInv, LInv, LifeTyped
<1>2. UNCHANGED <<disk, todo, rest, failed, failed_lines, tables, meaning>>
  BY DEF Activate, ServeHotkey, ModalDiscard, MenuQuit, Quit, Exit, OpenMenu, ChooseMenu,
    CloseWindow, KeyAction
<1>3. ASSUME Restarts(i) PROVE phase'[i] = "exiting"
  BY <1>3 DEF Restarts
<1>4. ASSUME NEW ka, KA_call(i, ka) PROVE phase'[i] = phase[i] \/ phase'[i] = "exiting"
  BY <1>3, <1>4 DEF KA_call
<1>5. ASSUME NEW ph, Goes(i, ph) PROVE phase'[i] = ph
  BY <1>1, <1>5 DEF Goes
<1>6. phase'[i] = phase[i] \/ phase'[i] \in {"running", "exiting", "menu", "ended"}
  <2>1. CASE Activate(i) \/ MenuQuit(i) \/ Quit(i) \/ Exit(i) \/ OpenMenu(i)
    BY <1>5, <2>1 DEF Activate, MenuQuit, Quit, Exit, OpenMenu
  <2>2. CASE ServeHotkey(i) \/ \E ka \in KAs : KeyAction(i, ka)
    BY <1>4, <2>2 DEF ServeHotkey, KeyAction
  <2>3. CASE ChooseMenu(i)
    BY <1>3, <1>5, <2>3 DEF ChooseMenu
  <2>4. CASE ModalDiscard(i) \/ CloseWindow(i)
    BY <2>4 DEF ModalDiscard, CloseWindow
  <2> QED
    BY <2>1, <2>2, <2>3, <2>4
<1>7. quit' \in [Instances -> BOOLEAN]
  <2>1. UNCHANGED quit \/ quit' = [quit EXCEPT ![i] = TRUE]
    BY DEF Activate, ServeHotkey, ModalDiscard, MenuQuit, Quit, Exit, OpenMenu, ChooseMenu,
      CloseWindow, KeyAction
  <2> QED
    BY <1>1, <2>1 DEF ReadingTyped
<1>8. Reader(i)'
  BY <1>1, <1>2, <1>6, Others, DiskStays
<1> QED
  BY <1>1, <1>2, <1>7, <1>8 DEF ReadingTyped

LEMMA ReadingStep == RInv /\ HInv /\ LInv /\ [Next]_vars => RInv'
<1> SUFFICES ASSUME RInv, HInv, LInv, [Next]_vars PROVE RInv'
  OBVIOUS
<1>1. DiskGrows /\ ReadingTyped /\ \A j \in Instances : Reader(j)
  BY DiskStep DEF RInv
<1>2. ASSUME NEW i \in Instances,
             \/ Thread(i) \/ AnswerAsking(i) \/ AnswerReporting(i) \/ OpenMenu(i)
             \/ ChooseMenu(i) \/ CloseWindow(i) \/ \E ka \in KAs : KeyAction(i, ka)
      PROVE  RInv'
  <2>1. Reader(i)' /\ ReadingTyped'
    BY <1>1, <1>2, ReadingKeeps, DialogsKeep, RunningKeeps DEF Thread
  <2>2. ASSUME NEW j \in Instances, j # i PROVE Reader(j)'
    <3>1. /\ UNCHANGED <<todo[j], rest[j], failed[j], tables[j], meaning[j]>>
          /\ phase'[j] = phase[j] \/ phase'[j] = "reading"
      BY <1>1, <1>2, <2>2, Elsewhere DEF Starts
    <3> QED
      BY <1>1, <3>1, Others
  <2> QED
    BY <2>1, <2>2 DEF RInv
<1>3. CASE Launch \/ TaskbarLost \/ (\E c \in Combos : PressHotkey(c)) \/ UNCHANGED vars
  <2>1. UNCHANGED <<disk, todo, rest, failed, failed_lines, tables, meaning, quit>>
    BY <1>3 DEF Launch, TaskbarLost, PressHotkey, vars, readVars, uiVars
  <2>2. \A j \in Instances : phase'[j] = phase[j] \/ phase'[j] = "reading"
    BY <1>3 DEF Launch, TaskbarLost, PressHotkey, vars, Goes, LInv, LifeTyped
  <2>3. \A j \in Instances : Reader(j)'
    BY <1>1, <2>1, <2>2, Others
  <2> QED
    BY <1>1, <2>1, <2>3 DEF RInv, ReadingTyped
<1> QED
  BY <1>2, <1>3 DEF Next

LEMMA ConcatHead ==
  ASSUME NEW S, NEW s \in Seq(S), NEW t \in Seq(S), s # <<>>
  PROVE  s \o t \in Seq(S) /\ s \o t # <<>> /\ (s \o t)[1] = s[1]
<1>1. s \o t \in Seq(S) /\ Len(s \o t) = Len(s) + Len(t) /\ Len(s) \in Nat \ {0} /\ Len(t) \in Nat
  OBVIOUS
<1>2. (s \o t)[1] = s[1]
  BY <1>1
<1> QED
  BY <1>1, <1>2

LEMMA ReadingInit == Init => RInv
<1> SUFFICES ASSUME Init PROVE RInv
  OBVIOUS
<1>1. AtStart \in Seq(Tasks) /\ AtStart # <<>> /\ Head(AtStart) = <<"find", "main">>
      /\ \A n \in DOMAIN AtStart : AtStart[n][1] # "default"
  <2> DEFINE front == << <<"find", "main">>, ArgLines >>
             langs == [n \in DOMAIN Locales |-> <<"find", Locales[n]>>]
             S == ({"find"} \X ({"main"} \cup ToSet(Locales))) \cup {ArgLines}
  <2>1. langs \in Seq(S)
    <3>1. Locales \in Seq(ToSet(Locales))
      BY SessionAssumption
    <3>2. DOMAIN Locales = 1 .. Len(Locales) /\ Len(Locales) \in Nat
      BY <3>1
    <3>3. \A n \in 1 .. Len(Locales) : Locales[n] \in ToSet(Locales)
      BY <3>1
    <3>4. \A n \in 1 .. Len(Locales) : <<"find", Locales[n]>> \in S
      BY <3>3
    <3> HIDE DEF S
    <3>5. langs \in [1 .. Len(Locales) -> S]
      BY <3>2, <3>4
    <3> QED
      BY <3>2, <3>5
  <2>2. front \in Seq(S) /\ front # <<>> /\ front[1] = <<"find", "main">>
    OBVIOUS
  <2>3. S \subseteq Tasks /\ \A x \in S : x[1] # "default"
    BY DEF Tasks, ArgLines
  <2> DEFINE s == front \o langs
  <2>4. AtStart = s
    BY DEF AtStart
  <2> HIDE DEF front, langs, S
  <2>5. s \in Seq(S) /\ s # <<>> /\ s[1] = front[1]
    <3>1. /\ front \o langs \in Seq(S) /\ front \o langs # <<>>
          /\ (front \o langs)[1] = front[1]
      BY <2>1, <2>2, ConcatHead
    <3> QED
      BY <3>1
  <2> HIDE DEF s
  <2>6. Head(s) = s[1] /\ \A n \in DOMAIN s : s[n] \in S
    BY <2>5
  <2>7. s \in Seq(Tasks)
    BY <2>3, <2>5
  <2> QED
    BY <2>2, <2>3, <2>4, <2>5, <2>6, <2>7
<1>2. \A i \in Instances : /\ phase[i] = "none" /\ todo[i] = AtStart /\ tables[i] = <<>>
                           /\ \A cell \in Cells : meaning[i][cell] = NoFile
  BY DEF Init
<1>3. ReadingTyped
  <2>1. \A f \in DOMAIN disk : f \in Files \cup {Example}
    BY SessionAssumption DEF Init
  <2>2. todo \in [Instances -> Seq(Tasks)]
    BY <1>1 DEF Init
  <2>3. /\ tables \in [Instances -> Seq({"default", "own"} \X TableNames)]
        /\ failed \in [Instances -> BOOLEAN] /\ quit \in [Instances -> BOOLEAN]
        /\ failed_lines \in [Instances -> {"none", "live", "freed"}]
        /\ meaning \in [Instances -> [Cells -> Files \cup {ArgLines, NoFile}]]
    BY DEF Init
  <2> QED
    BY <2>1, <2>2, <2>3 DEF ReadingTyped
<1>4. ASSUME NEW i \in Instances PROVE Reader(i)
  <2>1. AtHead(i) /\ BadCounted(i) /\ NamesAhead(i) /\ DefaultsFirst(todo[i])
    BY <1>1, <1>2 DEF AtHead, BadCounted, NamesAhead, DefaultsFirst
  <2>2. NamesFirstOf(i)
    BY <1>2 DEF NamesFirstOf
  <2>3. OwnAhead(i)
    BY <1>2 DEF OwnAhead, NoFile
  <2> QED
    BY <2>1, <2>2, <2>3 DEF Reader
<1> QED
  BY <1>3, <1>4 DEF RInv

LEMMA ReadingInvariant == Spec => [](LInv /\ HInv /\ RInv)
BY LifeInit, LifeStep, HotkeysInit, HotkeysStep, ReadingInit, ReadingStep, PTL DEF Spec

\* The types of the state of every instance, whatever the files hold.
THEOREM SessionTyped == Spec => []TypeOK
<1>1. LInv /\ HInv /\ RInv => TypeOK
  <2> SUFFICES ASSUME LInv, HInv, RInv PROVE TypeOK
    OBVIOUS
  <2> QED
    BY DEF LInv, LifeTyped, HInv, HotkeysTyped, RInv, ReadingTyped, TypeOK, TableNames
<1> QED
  BY <1>1, ReadingInvariant, PTL

\* What a default file binds does not stand against the user's file, and names are read
\* before the sequences made of them: with any files on the disk, any languages, whatever
\* another instance makes of the user's file meanwhile (main.c:152-226).
THEOREM FilesComeInOrder == Spec => []FilesInOrder
<1>1. RInv => FilesInOrder
  <2> SUFFICES ASSUME RInv PROVE FilesInOrder
    OBVIOUS
  <2>1. OwnFileWins
    <3> SUFFICES ASSUME NEW i \in Instances, NEW cell \in Cells,
                        NEW own, own = <<"user", meaning[i][cell][2]>>,
                        meaning[i][cell][1] = "default", own \in DOMAIN disk, Binds(own, cell)
                 PROVE  Created(own) \/ own \in ToSet(todo[i])
      BY DEF OwnFileWins
    <3>1. Created(own) \/ Follows(todo[i], 1, own) \/ StillBinds(i, own, cell)
      BY DEF RInv, Reader, OwnAhead
    <3>2. Follows(todo[i], 1, own) => own \in ToSet(todo[i])
      BY DEF Follows, ToSet
    <3>3. ASSUME StillBinds(i, own, cell) PROVE own \in ToSet(todo[i])
      <4>1. Head(todo[i]) = todo[i][1] /\ 1 \in DOMAIN todo[i]
        BY <3>3, Heads DEF StillBinds, RInv
      <4> QED
        BY <3>3, <4>1 DEF StillBinds, ToSet
    <3> QED
      BY <3>1, <3>2, <3>3
  <2>2. NamesFirst
    BY DEF RInv, Reader, NamesFirstOf, NoNames, Own, NamesFirst
  <2> QED
    BY <2>1, <2>2 DEF FilesInOrder
<1> QED
  BY <1>1, ReadingInvariant, PTL

\* One instance's reading is not moved on by another.
LEMMA PhaseOfOther ==
  ASSUME RInv, HInv, LInv, NEW j \in Instances, phase[j] = "parsing", phase'[j] # "parsing",
         [Next]_vars
  PROVE  ReadUnrecognized(j) \/ ReadLongName(j) \/ ParseFile(j) \/ EndFile(j)
<1>1. ASSUME NEW i \in Instances,
             \/ Thread(i) \/ AnswerAsking(i) \/ AnswerReporting(i) \/ OpenMenu(i)
             \/ ChooseMenu(i) \/ CloseWindow(i) \/ \E ka \in KAs : KeyAction(i, ka)
      PROVE  ReadUnrecognized(j) \/ ReadLongName(j) \/ ParseFile(j) \/ EndFile(j)
  <2>1. CASE i # j
    <3>1. Starts(j)
      BY <1>1, <2>1, Elsewhere DEF RInv
    <3> QED
      BY <3>1 DEF Starts
  <2>2. CASE i = j
    <3>1. ~(\/ FindMain(i) \/ FindLang(i) \/ ReadTable(i) \/ SkipFile(i) \/ ParseArgs(i))
      BY <2>2 DEF FindMain, FindLang, ReadTable, SkipFile, ParseArgs, Reading
    <3>2. ~(ReadHotkey(i) \/ ReadBind(i) \/ ReadOwnTable(i) \/ ReadNodefault(i))
      BY <2>2 DEF ReadHotkey, ReadBind, ReadOwnTable, ReadNodefault, NextLine
    <3>3. ~(\/ Activate(i) \/ ServeHotkey(i) \/ ModalDiscard(i) \/ MenuQuit(i) \/ Quit(i) \/ Exit(i))
      BY <2>2 DEF Activate, ServeHotkey, ModalDiscard, MenuQuit, Quit, Exit, Modal
    <3>4. ~(\/ AnswerAsking(i) \/ AnswerReporting(i) \/ OpenMenu(i) \/ ChooseMenu(i)
            \/ CloseWindow(i) \/ \E ka \in KAs : KeyAction(i, ka))
      BY <2>2 DEF AnswerAsking, AnswerReporting, OpenMenu, ChooseMenu, CloseWindow, KeyAction
    <3> QED
      BY <1>1, <2>2, <3>1, <3>2, <3>3, <3>4 DEF Thread
  <2> QED
    BY <2>1, <2>2
<1>2. ASSUME Launch PROVE FALSE
  BY <1>2 DEF Launch, IsNext, Goes, LInv, LifeTyped
<1>3. CASE TaskbarLost \/ (\E c \in Combos : PressHotkey(c)) \/ UNCHANGED vars
  BY <1>3 DEF TaskbarLost, PressHotkey, vars
<1> QED
  BY <1>1, <1>2, <1>3 DEF Next

\* A dialog is shown for a file read to its end just when it has lines that were not
\* recognized, with any number of files before it that had some or had none
\* (parse.c:698, ui.c:228).
THEOREM BadFilesReported == Spec => ReportsBadFiles
<1>1. ASSUME RInv, HInv, LInv, [Next]_vars, NEW i \in Instances,
             phase[i] = "parsing", phase'[i] \notin {"parsing", "copying", "crashed"}
      PROVE  phase'[i] = "reporting" <=> HasBadLines(i)
  <2>1. ASSUME Crash(i) PROVE FALSE
    BY <1>1, <2>1 DEF Crash, Goes, LInv, LifeTyped
  <2>2. EndFile(i)
    <3>1. ~ParseFile(i)
      BY <1>1, <2>1 DEF ParseFile, Reading
    <3>2. ~ReadUnrecognized(i)
      BY <1>1, <2>1 DEF ReadUnrecognized, NextLine
    <3>3. ~ReadLongName(i)
      BY <1>1 DEF ReadLongName, Goes, LInv, LifeTyped
    <3> QED
      BY <1>1, <3>1, <3>2, <3>3, PhaseOfOther
  <2>3. /\ rest[i] = <<>>
        /\ phase'[i] = "reporting" <=> failed[i] /\ Head(todo[i]) # ArgLines
    BY <1>1, <2>2 DEF EndFile, Goes, LInv, LifeTyped
  <2>4. Head(todo[i]) # ArgLines => (HasBad(disk[Head(todo[i])]) <=> failed[i])
    BY <1>1, <2>3 DEF RInv, Reader, BadCounted, HasBad
  <2> QED
    BY <2>3, <2>4 DEF HasBadLines, HasBad
<1>2. RInv /\ HInv /\ LInv /\ [Next]_vars =>
        [\A i \in Instances :
           phase[i] = "parsing" /\ phase'[i] \notin {"parsing", "copying", "crashed"} =>
             (phase'[i] = "reporting" <=> HasBadLines(i))]_vars
  BY <1>1
<1> QED
  BY <1>2, ReadingInvariant, PTL DEF Spec, ReportsBadFiles
===============================================================================
