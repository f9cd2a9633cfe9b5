------------------------------- MODULE HookProps ------------------------------
(***************************************************************************)
(* The properties of the keyboard hook.                                    *)
(***************************************************************************)
EXTENDS Hook

\* The state has the types of kl.c: six trackers, byte tables by scancode,
\* and a current Compose node that is a pivot (dk.c never stops at a bind).
TypeOK ==
  /\ KL_active \in BOOLEAN
  /\ KL_phys \in [Codes -> BOOLEAN]
  /\ KL_phys_mods \in [Codes -> Modifiers \cup {"none", "temp"}]
  /\ KL_km \in [Modifiers -> KMs(Codes, {"LSHIFT"})]
  /\ \A m \in Modifiers : Len(KL_km[m].shifts) <= MaxShifts
  /\ KL_received \in BOOLEAN
  /\ KL_dk_in_effect \in BOOLEAN
  /\ DK_is_pivotNode(DK_cur_node)
  /\ held \in Seq(Board) /\ last \in Board \cup {NoKey}
  /\ window \in Windows /\ unhandled \in 0 .. MaxUnhandled

-----------------------------------------------------------------------------
(* The flag in_effect, which the level of every key is computed from. *)

\* What makes a modifier be in effect: a lock, a shift key, a latch key that
\* is down, or one that is up and waits for the next key.
Reason(km) ==
  \/ km.locked
  \/ km.shifts # <<>>
  \/ km.latch # NoKey /\ (~km.latch_released \/ km.latch_releases = 0)

\* in_effect is recomputed by five pieces of km.c, each from other fields, and
\* yet always says what all the fields together say: a modifier is in effect
\* exactly when there is a reason for it.
Coherent == \A m \in Modifiers : KL_km[m].in_effect = Reason(KL_km[m])

\* The key actions and task switches leave alone what KL_init found out: the
\* keys Windows takes for shift, control, alt and win stay modifiers, whatever
\* is bound to them, and no other key ever becomes one.
ModifiersStay ==
  \A c \in Codes : KL_phys_mods[c] # InitialMods[c] =>
                     InitialMods[c] = "none" /\ KL_phys_mods[c] = "temp"

-----------------------------------------------------------------------------
(* The trackers, the keyboard and Windows. *)

VksOf(m) ==
  CASE m = "shift" -> {"LSHIFT", "RSHIFT"} [] m = "control" -> {"LCONTROL", "RCONTROL"}
    [] m = "alt" -> {"LMENU", "RMENU"}     [] m = "win" -> {"LWIN", "RWIN"}

InOs(m) == VksOf(m) \cap keys # {}

\* The hook decides what to send before and after a key from the trackers
\* alone.  A modifier that is in effect there is one Windows has down.
InEffectInOs == \A m \in {"shift", "control", "alt", "win"} :
                  KL_km[m].in_effect => InOs(m)

ModVks == UNION {VksOf(m) : m \in {"shift", "control", "alt", "win"}}

\* When every key is up and no latch waits, Windows has no modifier key down:
\* each one the hook sent, for an alteration, a latch or a key bound to control,
\* has been released, though the level may have changed in between.
NothingStuck ==
  held = <<>> /\ (\A m \in Modifiers : KL_km[m].latch = NoKey)
    => keys \cap ModVks = {}

NewlyPressed == ToSet(held') \ ToSet(held)

\* Shift, control and alt are brought into the state an alteration requires
\* only while its key is sent: an ordinary key that changes no tracker leaves
\* in Windows every modifier key as it was.
AlterationIsTemporary ==
  [][\A k \in NewlyPressed :
       KL_phys_mods[Code(k)] \notin Modifiers /\ KL_km' = KL_km
         => keys' \cap ModVks = keys \cap ModVks]_vars

\* With every key up and nothing locked or latched, no modifier is in effect.
RestIsNeutral ==
  \A m \in Modifiers :
    held = <<>> /\ ~KL_km[m].locked /\ KL_km[m].latch = NoKey => ~KL_km[m].in_effect

\* The left shift key that Windows has down without its being held is the one
\* faked for a latch: shift is in effect in the tracker.
FakedShiftTracked ==
  "LSHIFT" \in keys /\ (\A k \in ToSet(held) : VkOf(k) # "LSHIFT")
    => KL_km["shift"].in_effect

-----------------------------------------------------------------------------
(* The Compose lookup and the flag KL_dk_in_effect of the hook. *)

\* A character sent in the middle of a sequence is the end of it: the hook is
\* back to ordinary typing and the lookup back at its root, whether the last
\* key was looked up by KL_proc itself or by a key action, before whose call
\* KL_proc sets the flag.
SentEndsSequence ==
  [][KL_dk_in_effect /\ typed' # NoChar
       => ~KL_dk_in_effect' /\ DK_cur_node' = DK_node]_vars

\* A key that goes down in the middle of a sequence is for the sequence: Windows
\* sees none but the modifiers, whatever the key is bound to.
SequenceSwallows ==
  [][\A k \in NewlyPressed :
       KL_dk_in_effect /\ KL_active /\ window \notin AdminWindows /\ k < KPN
       /\ (\A m \in {"control", "alt", "win"} : ~KL_km[m].in_effect)
         => keys' \ ModVks \subseteq keys]_vars

\* The first key of a sequence is looked up as the first key: a sequence that
\* was given up halfway does not go on in the next one.
ComposeStarts ==
  [][NewlyPressed # {} /\ ~KL_dk_in_effect /\ KL_dk_in_effect'
       => Len(DK_cur_node') = 1]_vars
=============================================================================
