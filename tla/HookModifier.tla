----------------------------- MODULE HookModifier -----------------------------
(***************************************************************************)
(* The trackers of the hook implement the modifier that km.c promises.     *)
(***************************************************************************)
EXTENDS HookProps

AlwaysKA(c, ka) ==
  c \in Bindable /\ \A lv \in DOMAIN Kly : Kly[lv][c] = ToKA(ka)

\* The boards on which no key but those of the configuration has to do with
\* modifiers, as config/hjkl.txt is meant to be typed with: the hook sees every
\* event; none of the keys, and nothing a key is altered to, is one Windows
\* takes for a modifier; control and the level5 shift are on one key each, on
\* it at every level; and the level5 lock is not bound.
HomeRow ==
  /\ AdminWindows = {} /\ ~MayToggle /\ MaxUnhandled = 0
  /\ \A k \in Board \cup Codes : VkOf(k) \notin ModVks
  /\ \A c \in Bindable : ModsVks[c] \notin ModVks
  /\ \A lv \in DOMAIN Kly, c \in Bindable :
       LET lk == Kly[lv][c] IN
       /\ lk.type = "sc" => VkOf(lk.binding) \notin ModVks
       /\ lk.type = "vk" => lk.binding \notin ModVks
       /\ lk.type = "ka" => lk.binding # "l5_lock"
       /\ \A ka \in {"control", "l5_shift"} :
            lk.type = "ka" /\ lk.binding = ka => AlwaysKA(c, ka)
  /\ \A ka \in {"control", "l5_shift"}, c \in Bindable : AlwaysKA(c, ka) =>
       /\ \A d \in Bindable : AlwaysKA(d, ka) => d = c
       /\ \A k \in Board : Code(k) = c => k = c

\* The keys that act as shift for a modifier, at whatever level.
KeysOf ==
  [m \in Modifiers |->
     {c \in Codes : \/ InitialMods[c] = m
                    \/ m = "l5" /\ AlwaysKA(c, "l5_shift")
                    \/ m = "control" /\ AlwaysKA(c, "control")}]

\* The boards on which every modifier is pressed by one key at most, latched by
\* one key at most, and not both pressed by a key and latched or locked.  The
\* keys bound to control and to the level5 shift are so at every level, and are
\* neither modifiers for Windows nor share their scancode with another key.
\* Fewer keys are released while a latch key is down than the byte
\* latch_releases can count.
OneKeyEach ==
  /\ \A m \in {"shift", "control", "l3", "l5"} : \A c, d \in KeysOf[m] : c = d
  /\ \A lv \in DOMAIN Kly, c \in Bindable : Kly[lv][c].type = "ka" =>
       LET ka == Kly[lv][c].binding IN
       /\ ka \in {"control", "l5_shift"} => AlwaysKA(c, ka)
       /\ ka = "l2_latch" => KeysOf["shift"] = {}
       /\ ka = "l5_lock" => KeysOf["l5"] = {}
       /\ ka \in {"l2_latch", "l3_latch"} =>
            \A lw \in DOMAIN Kly, d \in Bindable :
              Kly[lw][d].type = "ka" /\ Kly[lw][d].binding = ka => d = c
  /\ \A ka \in {"control", "l5_shift"}, c \in Bindable : AlwaysKA(c, ka) =>
       InitialMods[c] = "none" /\ \A k \in Board : Code(k) = c => k = c
  /\ ReleasesMod - 1 \notin ReleaseCounts

\* The scancodes of the win keys, without SC_EXTENDED_BIT, are not those of
\* keys that are bound (they are 0x5B and 0x5C).
WinKeysOutside == \A j \in Board : ModOfVk(VkOf(j)) = "win" => Code(j) >= KPN

\* A latch key that was released unseen at its own level leaves its latch set
\* and without effect until a key is released: such a latch is off.
LatchIn(km) ==
  CASE km.latch = NoKey    -> "off"
    [] km.latch # NoKey /\ ~km.latch_released ->
         IF km.latch_releases = 0 THEN "down" ELSE "used"
    [] OTHER               -> IF km.latch_releases = 0 THEN "armed" ELSE "off"

LatchOf(m) == LatchIn(KL_km[m])

Pressed(m) == {c \in KeysOf[m] : KL_phys[c]}

Shift == INSTANCE Modifier WITH
  ShiftKeys <- KeysOf["shift"], pressed <- Pressed("shift"), locked <- KL_km["shift"].locked,
  latch <- LatchOf("shift"), on <- KL_km["shift"].in_effect

Control == INSTANCE Modifier WITH
  ShiftKeys <- KeysOf["control"], pressed <- Pressed("control"), locked <- KL_km["control"].locked,
  latch <- LatchOf("control"), on <- KL_km["control"].in_effect

L3 == INSTANCE Modifier WITH
  ShiftKeys <- KeysOf["l3"], pressed <- Pressed("l3"), locked <- KL_km["l3"].locked,
  latch <- LatchOf("l3"), on <- KL_km["l3"].in_effect

L5 == INSTANCE Modifier WITH
  ShiftKeys <- KeysOf["l5"], pressed <- Pressed("l5"), locked <- KL_km["l5"].locked,
  latch <- LatchOf("l5"), on <- KL_km["l5"].in_effect

\* Whatever the user does, and whatever the hook misses, each tracker moves as
\* the promised modifier does, and is in effect exactly when that one is: by
\* what is physically pressed as the hook has seen it (KL_phys), not by what
\* the tracker has in its array.
Refines == Shift!Spec /\ Control!Spec /\ L3!Spec /\ L5!Spec
=============================================================================
