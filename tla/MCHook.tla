-------------------------------- MODULE MCHook --------------------------------
(***************************************************************************)
(* Instances of the hook: boards of a few keys, with the bindings of       *)
(* config/hjkl.txt as KL_compile_klc leaves them for the US English layout *)
(* (a character the layout has is the virtual key that types it).          *)
(***************************************************************************)
EXTENDS HookModifier

KeyW == 17   KeyE == 18   KeyU == 22   LCtrl == 29   KeyA == 30   KeyS == 31
KeyJ == 36   KeySemicolon == 39   LShift == 42   KeyN == 49   KeyComma == 51
RShift == 54 CapsLock == 58    Esc == 1
RCtrl == LCtrl + SC_EXTENDED_BIT         Up == 72 + SC_EXTENDED_BIT

MCVkOf(k) ==
  CASE k = KeyW -> "W"       [] k = KeyE -> "E"      [] k = KeyU -> "U"
    [] k = KeyA -> "A"       [] k = KeyS -> "S"      [] k = KeyJ -> "J"
    [] k = KeyN -> "N"       [] k = KeySemicolon -> "OEM_1"
    [] k = KeyComma -> "OEM_COMMA"                   [] k = CapsLock -> "CAPITAL"
    [] k = LCtrl -> "LCONTROL"  [] k = RCtrl -> "RCONTROL"
    [] k = Esc -> "ESCAPE"      [] k \in {Code(Up), Up} -> "UP"
    [] k = LShift -> "LSHIFT"   [] k = RShift -> "RSHIFT"

\* The characters that the sequences below tell apart.
MCVkChar(shift, vk) ==
  CASE vk \in {"CAPITAL", "DOWN", "ESCAPE"}      -> NoChar
    [] shift = 0 /\ vk \in {"A", "E", "U"}       -> vk
    [] OTHER                                     -> "other"

MCScChar(shift, sc) == MCVkChar(shift, MCVkOf(sc))

dead_diaeresis == 9
MCCompose == <<DeadKey(0), CharKey("A"), CharKey("A")>> :> "ring"
             @@ <<DeadKey(dead_diaeresis), DeadKey(dead_diaeresis)>> :> "diaeresis"
             @@ <<DeadKey(dead_diaeresis), CharKey("A")>> :> "a with diaeresis"
NoCompose == [s \in {} |-> "none"]

\* The binding of a key at a level (1 to 6, as they are written there).
HJKL(lv, c) ==
  CASE c = KeySemicolon            -> ToKA("l5_shift")
    [] c = CapsLock                -> ToKA("control")
    [] c = KeyComma /\ lv <= 4     -> ToKA("l3_latch")
    [] c = KeyS /\ lv >= 5         -> ToKA("l2_latch")
    [] c = KeyJ /\ lv \in {3, 4}   -> ToVk("OEM_MINUS", {"shift"})
    [] c = KeyJ /\ lv = 5          -> ToVk("DOWN", {})
    [] c = KeyJ /\ lv = 6          -> ToVk("DOWN", {"shift"})
    [] c = KeyN /\ lv \in {3, 4}   -> DeadKeyKA(0)
    [] c = KeyU /\ lv \in {3, 4}   -> DeadKeyKA(dead_diaeresis)
    [] c = KeyW /\ lv = 5          -> ToVk("OEM_1", {"shift"})
    [] c = KeyW /\ lv = 6          -> ToVk("OEM_COMMA", {})
    [] OTHER                       -> Inactive

\* The same with a level5 lock (config/example.txt:113).
WithLock(lv, c) == IF c = KeyE THEN ToKA("l5_lock") ELSE HJKL(lv, c)

\* What the table does not have: a scancode remapped for an application (KL_temp_sc), a
\* character that the layout has not, and dead keys, a latch and a level5 shift where
\* there are few keys.
Shifted(lv, c) ==
  CASE c = KeyW            -> ToScancode(KeyA)
    [] c = KeyS            -> ToKA("l2_latch")
    [] c = KeyN /\ lv = 1  -> DeadKeyKA(0)
    [] c = KeyN /\ lv = 2  -> DeadKeyKA(dead_diaeresis)
    [] c = Esc /\ lv = 2   -> ToChar("u20AC")
    [] c = Esc             -> ToKA("l5_shift")
    [] OTHER               -> HJKL(lv, c)

Table(Of(_, _)) == [lv \in 0 .. KLVN - 1 |-> [c \in Bindable |-> Of(lv + 1, c)]]
KlyHJKL == Table(HJKL)
KlyModifiers == Table(WithLock)
KlyShifted == Table(Shifted)

\* vks_lang: 409.  The letters keep their virtual keys.
MCModsVks ==
  [c \in Bindable |-> IF c \in {CapsLock, Esc} THEN NoVk ELSE MCVkOf(c)]

\* Values of latch_releases that are explored: the first few, and those
\* near the ones the write to shifts[-1] leaves.
SmallCounts == 0 .. 2
ShiftCounts == SmallCounts \cup UNION {c .. c + 1 : c \in Codes}

BoardModifiers == {KeyE, KeyS, KeyComma}
BoardVi == {KeySemicolon, CapsLock, KeyS, KeyJ, KeyW, KeyComma, Up}
BoardCompose == {KeyComma, KeyN, KeyU, KeyW, KeyE, Esc}
BoardShifted == {LShift, RShift, KeyS, KeyN, KeyW, Esc}
BoardTwo == {LShift, RShift, KeyJ}

\* The board of the run about typing is one the theorems are about.
ASSUME HomeRowAssumption == Board = BoardVi => HomeRow

\* And so are those of the runs about the promised modifiers.
ASSUME OneKeyAssumption == Board \in {BoardVi, BoardModifiers} => OneKeyEach

\* No key of a board is a win key that could be bound: a keyboard's are beyond
\* the bindable scancodes.
ASSUME WinKeysAssumption == WinKeysOutside
=============================================================================
