--------------------------------- MODULE Hook ---------------------------------
(***************************************************************************)
(* The low level keyboard hook of kl.c, with the modifier trackers (KM)    *)
(* and the Compose lookup (DK) it drives through the key actions of ka.c,  *)
(* and its environment: a user at a keyboard, Windows, and the windows     *)
(* that come to the foreground.                                            *)
(*                                                                         *)
(* The hook, the foreground-change handler and the hotkeys run on one      *)
(* thread, each to its end, so an event is one step.  The handler is told  *)
(* of a change some time after it (WINEVENT_OUTOFCONTEXT), with key events *)
(* in between.  The events that the hook itself generates come back to it  *)
(* flagged as injected and are passed on without any effect on its state   *)
(* (kl.c:168, 223).                                                        *)
(***************************************************************************)
EXTENDS KM, DK

CONSTANTS
  Board,          \* the keys: scancodes, SC_EXTENDED_BIT added if extended
  VkOf(_),        \* the virtual key Windows gives to a key
  Kly,            \* KL_kly, the table in use: level -> scancode -> binding
  ModsVks,        \* KL_mods_vks: scancode -> virtual key under control, alt, win
  VkChar(_, _),   \* KL_vkw: the character of a virtual key, without or with shift
  ScChar(_, _),   \* KL_scw: the same for a scancode
  Windows,        \* the windows
  AdminWindows,   \* those whose keyboard input the hook does not receive
  MayToggle,      \* the user turns the hook off and on
  Nested,         \* bound: keys are released in the reverse order of presses
  MaxHeld,        \* bound: number of keys held at a time
  MaxUnhandled,   \* bound: number of foreground changes not handled yet
  ReleaseCounts   \* bound: values of latch_releases that are explored

SC_EXTENDED_BIT == 256
KPN == 64
KLVN == 6

\* The scancode as the hook receives it: LControl and RControl share one.
Code(k) == k % SC_EXTENDED_BIT
Codes == {Code(k) : k \in Board}
Bindable == {c \in Codes : c < KPN}

Modifiers == {"shift", "control", "alt", "win", "l3", "l5"}

\* A binding (LK): what a key is altered to.
Inactive       == [type |-> "none", mods |-> {}]
ToScancode(sc) == [type |-> "sc", binding |-> sc, mods |-> {}]
ToChar(ch)     == [type |-> "wchar", binding |-> ch, mods |-> {}]
ToVk(vk, mods) == [type |-> "vk", binding |-> vk, mods |-> mods]
DeadKeyKA(n)   == [type |-> "dk", binding |-> n, mods |-> {}]
ToKA(ka)       == [type |-> "ka", binding |-> ka, mods |-> {}]

\* The key actions of ka.c that act on the trackers.
TrackerKAs == {"control", "l5_shift", "l5_lock", "l3_latch", "l2_latch"}

ModOfVk(vk) ==
  CASE vk \in {"LSHIFT", "RSHIFT"}     -> "shift"
    [] vk \in {"LCONTROL", "RCONTROL"} -> "control"
    [] vk \in {"LMENU", "RMENU"}       -> "alt"
    [] vk \in {"LWIN", "RWIN"}         -> "win"
    [] OTHER                           -> "none"

\* KL_phys_mods as KL_init leaves it: by the key that has the scancode without
\* SC_EXTENDED_BIT, except for the win keys, looked up by virtual key.
InitialMods ==
  [c \in Codes |->
     IF \E k \in Board : Code(k) = c /\ ModOfVk(VkOf(k)) = "win" THEN "win"
     ELSE ModOfVk(VkOf(c))]

HookAssumption ==
  /\ Board \subseteq Nat /\ NoKey \notin Board
  /\ \A c \in Codes : c % ReleasesMod # 0     \* a byte, and no scancode is 0
  /\ DOMAIN Kly = 0 .. KLVN - 1
  /\ \A lv \in DOMAIN Kly : DOMAIN Kly[lv] = Bindable
  /\ \A lv \in DOMAIN Kly, c \in Bindable :
       Kly[lv][c].type = "ka" => Kly[lv][c].binding \in TrackerKAs
  /\ AdminWindows \subseteq Windows /\ {MayToggle, Nested} \subseteq BOOLEAN
  /\ MaxUnhandled \in Nat
ASSUME HookAssumption

VARIABLES
  KL_active,         \* the hook is installed
  KL_phys,           \* scancode -> the key was last seen going down
  KL_phys_mods,      \* scancode -> the modifier the key is, "temp", or "none"
  KL_km,             \* the six trackers
  KL_received,       \* KL_received_anything_in_this_window
  KL_dk_in_effect,   \* a dead key sequence is being typed
  DK_cur_node,       \* where in the Compose tree
  typed,             \* the character sent by the last event, or NoChar
  keys,              \* the virtual keys that are down, for Windows
  held,              \* the keys that are physically down, as they were pressed
  last,              \* the one that auto-repeats, or NoKey
  window,            \* the window in the foreground
  unhandled          \* number of changes of it that EH_proc was not called for

dkVars == <<KL_dk_in_effect, DK_cur_node, typed>>
hookVars == <<KL_phys, KL_phys_mods, KL_km, KL_received, dkVars>>
userVars == <<held, last>>
windowVars == <<window, unhandled>>
vars == <<KL_active, hookVars, keys, userVars, windowVars>>

Init ==
  /\ KL_active = TRUE
  /\ KL_phys = [c \in Codes |-> FALSE]
  /\ KL_phys_mods = InitialMods
  /\ KL_km = [m \in Modifiers |-> KM_init]
  /\ KL_received = FALSE
  /\ KL_dk_in_effect = FALSE
  /\ DK_cur_node = DK_node
  /\ typed = NoChar
  /\ keys = {}
  /\ held = <<>>
  /\ last = NoKey
  /\ window \in Windows
  /\ unhandled = 0

-----------------------------------------------------------------------------
(* What Windows makes of the events sent and passed on to it. *)

Event(vk, down) == [vk |-> vk, down |-> down]

Press(set, event) ==
  IF event.down THEN set \cup {event.vk} ELSE set \ {event.vk}

Send(events) == keys' = FoldLeft(Press, keys, events)

-----------------------------------------------------------------------------
(* The dead key sequence. *)

DkUnchanged ==
  /\ typed' = NoChar
  /\ UNCHANGED <<KL_dk_in_effect, DK_cur_node>>

\* KL_dk_on_sc, KL_dk_on_vk and KL_dk_on_wchar, given the character.
DkOnChar(ch) ==
  IF ch = NoChar
  THEN /\ KL_dk_in_effect' = FALSE
       /\ typed' = NoChar
       /\ UNCHANGED DK_cur_node
  ELSE LET step == DK_descend(DK_cur_node, CharKey(ch)) IN
       /\ KL_dk_in_effect' = step.more
       /\ typed' = step.sent
       /\ DK_cur_node' = step.node

\* Mutant of DkOnDeadKey: the flag stays set when the character is sent.
DkOnDeadKey_FlagKept(n) ==
  LET step == DK_descend(DK_cur_node, DeadKey(n)) IN
  /\ KL_dk_in_effect' = TRUE
  /\ typed' = step.sent
  /\ DK_cur_node' = step.node

\* DK_dkn.  Sending the character ends the sequence (KL_dk_send_wchar).
DkOnDeadKey(n) ==
  LET step == DK_descend(DK_cur_node, DeadKey(n)) IN
  /\ KL_dk_in_effect' = (step.sent = NoChar)
  /\ typed' = step.sent
  /\ DK_cur_node' = step.node

\* A key goes down or up while a sequence is being typed.
DkKey(down, ch) == IF down THEN DkOnChar(ch) ELSE DkUnchanged

-----------------------------------------------------------------------------
(***************************************************************************)
(* The rest of KL_proc for a key with the scancode sc that is not passed   *)
(* on unprocessed.  km: the trackers once they have seen the key; phys:    *)
(* KL_phys_mods; sent: the events already sent; lv, lk: level and binding. *)
(***************************************************************************)
Level(km) ==
  (IF km["l3"].in_effect THEN 2 ELSE IF km["l5"].in_effect THEN 4 ELSE 0)
  + (IF km["shift"].in_effect THEN 1 ELSE 0)

Keep(km, phys) == KL_km' = km /\ KL_phys_mods' = phys

\* The alteration under control, alt or win, unless it would cancel an action.
AlteredByModifier(km, sc, lv, lk) ==
  /\ lv <= 1
  /\ \E m \in {"alt", "control", "win"} : km[m].in_effect
  /\ ModsVks[sc] # NoVk
  /\ lk.type \notin {"ka", "dk"}

\* No alteration: the key passes at levels 1 and 2, is stopped above.
NotAltered(k, down, lv, sent) ==
  IF KL_dk_in_effect /\ lv < 4
  THEN DkKey(down, VkChar(lv % 2, VkOf(k))) /\ Send(sent)
  ELSE /\ DkUnchanged
       /\ Send(IF lv < 2 THEN Append(sent, Event(VkOf(k), down)) ELSE sent)

\* Mutant of ScancodeSent: the sequence is not looked at.
ScancodeSent_PastSequence(down, lv, lk, sent) ==
  DkUnchanged /\ Send(Append(sent, Event(VkOf(lk.binding), down)))

ScancodeSent(down, lv, lk, sent) ==
  IF KL_dk_in_effect
  THEN DkKey(down, ScChar(lv % 2, lk.binding)) /\ Send(sent)
  ELSE DkUnchanged /\ Send(Append(sent, Event(VkOf(lk.binding), down)))

CharSent(down, lk, sent) ==
  /\ Send(sent)
  /\ IF KL_dk_in_effect THEN DkKey(down, lk.binding)
     ELSE /\ typed' = IF down THEN lk.binding ELSE NoChar
          /\ UNCHANGED <<KL_dk_in_effect, DK_cur_node>>

\* Mutant of VkSent: the modifiers are not restored.
VkSent_NotRestored(km, down, lv, lk, sent) ==
  LET need(m) == m \in lk.mods
      fix == IF km["shift"].in_effect = need("shift") THEN <<>>
             ELSE <<Event("LSHIFT", need("shift"))>>
  IN DkUnchanged /\ Send(sent \o fix \o <<Event(lk.binding, down)>>)

\* Shift, control and alt are sent before the key and the reverse after it.
VkSent(km, down, lv, lk, sent) ==
  LET need(m) == m \in lk.mods
      fix == (IF km["shift"].in_effect = need("shift") THEN <<>>
              ELSE <<Event("LSHIFT", need("shift"))>>)
             \o (IF need("control") /\ ~km["control"].in_effect
                 THEN <<KeyDown("LCONTROL")>> ELSE <<>>)
             \o (IF need("alt") /\ ~km["alt"].in_effect
                 THEN <<KeyDown("RMENU")>> ELSE <<>>)
      undo == [i \in DOMAIN fix |-> Event(fix[i].vk, ~fix[i].down)]
  IN IF KL_dk_in_effect
     THEN /\ DkKey(down, VkChar(IF need("shift") THEN 1 ELSE lv % 2, lk.binding))
          /\ Send(sent)
     ELSE DkUnchanged /\ Send(sent \o fix \o <<Event(lk.binding, down)>> \o undo)

-----------------------------------------------------------------------------
(* The key actions (ka.c). *)

\* Mutants of KA_control: the condition to send the key is the wrong way round;
\* control is sent when the key goes up only.
KA_control_Inverted(km, phys, down, sc, sent) ==
  \E control \in KM_shift_event(km["control"], down, sc) :
    /\ Keep([km EXCEPT !["control"] = control], phys)
    /\ Send(IF ~down /\ control.shifts = <<>> THEN sent
            ELSE Append(sent, Event("LCONTROL", down)))

KA_control_OnlyUp(km, phys, down, sc, sent) ==
  \E control \in KM_shift_event(km["control"], down, sc) :
    /\ Keep([km EXCEPT !["control"] = control], phys)
    /\ Send(IF down THEN sent ELSE Append(sent, Event("LCONTROL", down)))

KA_control(km, phys, down, sc, sent) ==
  \E control \in KM_shift_event(km["control"], down, sc) :
    /\ Keep([km EXCEPT !["control"] = control], phys)
    /\ Send(IF ~down /\ control.shifts # <<>> THEN sent
            ELSE Append(sent, Event("LCONTROL", down)))

\* Mutant of KA_l5_shift: the key is marked as a modifier of the keyboard.
KA_l5_shift_Marked(km, phys, down, sc, sent) ==
  \E l5 \in KM_shift_event(km["l5"], down, sc) :
    /\ Keep([km EXCEPT !["l5"] = l5], [phys EXCEPT ![sc] = "l5"])
    /\ Send(sent)

KA_l5_shift(km, phys, down, sc, sent) ==
  \E l5 \in KM_shift_event(km["l5"], down, sc) :
    /\ Keep([km EXCEPT !["l5"] = l5], [phys EXCEPT ![sc] = "temp"])
    /\ Send(sent)

KA_l5_lock(km, phys, down, sc, sent) ==
  /\ Keep([km EXCEPT !["l5"] = KM_lock_event(km["l5"], down, sc)], phys)
  /\ Send(sent)

KA_l3_latch(km, phys, down, sc, sent) ==
  LET l3 == KM_latch_event(km["l3"], down, sc) IN
  /\ Keep([km EXCEPT !["l3"] = l3.km], phys)
  /\ Send(sent \o l3.sent)

KA_l2_latch(km, phys, down, sc, sent) ==
  LET shift == KM_latch_event([km["shift"] EXCEPT !.latch_faked = "LSHIFT"], down, sc)
  IN /\ Keep([km EXCEPT !["shift"] = shift.km], phys)
     /\ Send(sent \o shift.sent)

KA_call(ka, km, phys, down, sc, sent) ==
  \/ ka = "control"  /\ KA_control(km, phys, down, sc, sent)
  \/ ka = "l5_shift" /\ KA_l5_shift(km, phys, down, sc, sent)
  \/ ka = "l5_lock"  /\ KA_l5_lock(km, phys, down, sc, sent)
  \/ ka = "l3_latch" /\ KA_l3_latch(km, phys, down, sc, sent)
  \/ ka = "l2_latch" /\ KA_l2_latch(km, phys, down, sc, sent)

\* KA_compose and KA_dkn_n.  KL_proc sets KL_dk_in_effect before the call,
\* when the key goes down and when it goes up.
DeadKeyCalled(down, n, sent) ==
  /\ Send(sent)
  /\ IF down THEN DkOnDeadKey(n)
     ELSE /\ KL_dk_in_effect' = TRUE
          /\ typed' = NoChar
          /\ UNCHANGED DK_cur_node

-----------------------------------------------------------------------------
(* KL_proc. *)

\* The part of KL_proc after the trackers have seen the key k.
Process(k, down, km, phys, sent) ==
  LET sc == Code(k)
      lv == Level(km)
      lk == Kly[lv][sc]
  IN CASE AlteredByModifier(km, sc, lv, lk) ->
            /\ Keep(km, phys) /\ DkUnchanged
            /\ Send(Append(sent, Event(ModsVks[sc], down)))
       [] lk.type = "ka" ->
            KA_call(lk.binding, km, phys, down, sc, sent) /\ DkUnchanged
       [] OTHER ->
            /\ Keep(km, phys)
            /\ \/ lk.type = "none"  /\ NotAltered(k, down, lv, sent)
               \/ lk.type = "sc"    /\ ScancodeSent(down, lv, lk, sent)
               \/ lk.type = "wchar" /\ CharSent(down, lk, sent)
               \/ lk.type = "dk"    /\ DeadKeyCalled(down, lk.binding, sent)
               \/ lk.type = "vk"    /\ VkSent(km, down, lv, lk, sent)

\* A key that Windows takes for shift, control, alt or win.
ModifierKey(k, down) ==
  LET m == KL_phys_mods[Code(k)] IN
  /\ m \in Modifiers
  /\ \E km \in KM_shift_event(KL_km[m], down, Code(k)) :
       KL_km' = [KL_km EXCEPT ![m] = km]
  /\ Send(<<Event(VkOf(k), down)>>)
  /\ DkUnchanged
  /\ UNCHANGED <<KL_phys_mods, KL_received>>

\* Any other key.  The trackers do not see one that is marked "temp".
OrdinaryKey(k, down) ==
  LET sc == Code(k)
      temp == KL_phys_mods[sc] = "temp"
      shift == KM_nonmod_event(KL_km["shift"], down, sc)
      l3 == KM_nonmod_event(KL_km["l3"], down, sc)
      km == IF temp THEN KL_km
            ELSE [KL_km EXCEPT !["shift"] = shift.km, !["l3"] = l3.km]
      sent == IF temp THEN <<>> ELSE shift.sent \o l3.sent
      phys == [KL_phys_mods EXCEPT ![sc] = "none"]
  IN /\ KL_phys_mods[sc] \notin Modifiers
     /\ IF k >= KPN
        THEN /\ Keep(km, phys) /\ DkUnchanged
             /\ Send(Append(sent, Event(VkOf(k), down)))
             /\ UNCHANGED KL_received
        ELSE /\ KL_received' = TRUE
             /\ Process(k, down, km, phys, sent)

\* The hook is not called, or takes the release of a key for a faked one.
Unseen(k, down) ==
  /\ Send(<<Event(VkOf(k), down)>>)
  /\ DkUnchanged
  /\ UNCHANGED <<KL_phys, KL_phys_mods, KL_km, KL_received>>

KL_proc(k, down) ==
  IF ~down /\ ~KL_phys[Code(k)] THEN Unseen(k, down)
  ELSE /\ KL_phys' = [KL_phys EXCEPT ![Code(k)] = down]
       /\ ModifierKey(k, down) \/ OrdinaryKey(k, down)

KeyEvent(k, down) ==
  /\ IF KL_active /\ window \notin AdminWindows
     THEN KL_proc(k, down) ELSE Unseen(k, down)
  /\ \A m \in Modifiers : KL_km'[m].latch_releases \in ReleaseCounts
  /\ UNCHANGED <<KL_active, windowVars>>

-----------------------------------------------------------------------------
(* The user, and the windows. *)

PressKey(k) ==
  /\ k \notin ToSet(held) /\ Len(held) < MaxHeld
  /\ held' = Append(held, k)
  /\ last' = k
  /\ KeyEvent(k, TRUE)

\* The last key pressed repeats while it is held.
RepeatKey ==
  /\ last # NoKey
  /\ KeyEvent(last, TRUE)
  /\ UNCHANGED userVars

ReleaseKey(k) ==
  /\ \E i \in DOMAIN held : /\ held[i] = k /\ (Nested => i = Len(held))
                             /\ held' = RemoveAt(held, i)
  /\ last' = IF last = k THEN NoKey ELSE last
  /\ KeyEvent(k, FALSE)

SwitchWindow(w) ==
  /\ w # window /\ unhandled < MaxUnhandled
  /\ window' = w
  /\ unhandled' = unhandled + 1
  /\ DkUnchanged
  /\ UNCHANGED <<KL_active, KL_phys, KL_phys_mods, KL_km, KL_received, keys, userVars>>

\* EH_proc: KL_on_task_switch.  (Its calls to lm.c and kr.c reload the table.)
TaskSwitch ==
  /\ unhandled > 0
  /\ unhandled' = unhandled - 1
  /\ IF KL_received THEN UNCHANGED <<KL_phys, KL_km>>
     ELSE /\ KL_phys' = [c \in Codes |-> FALSE]
          /\ KL_km' = [m \in Modifiers |-> KM_init]
  /\ KL_received' = FALSE
  /\ DkUnchanged
  /\ UNCHANGED <<KL_active, KL_phys_mods, keys, userVars, window>>

\* KL_toggle, from the tray icon or a hotkey.
Toggle ==
  /\ MayToggle
  /\ KL_active' = ~KL_active
  /\ DkUnchanged
  /\ UNCHANGED <<KL_phys, KL_phys_mods, KL_km, KL_received, keys, userVars, windowVars>>

Next ==
  \/ \E k \in Board : PressKey(k)
  \/ RepeatKey
  \/ \E k \in Board : ReleaseKey(k)
  \/ \E w \in Windows : SwitchWindow(w)
  \/ TaskSwitch
  \/ Toggle

Spec == Init /\ [][Next]_vars
=============================================================================
