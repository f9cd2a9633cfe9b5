------------------------------- MODULE Modifier -------------------------------
(***************************************************************************)
(* What km.c promises of a modifier (km.c:3-11, config/example.txt:115):   *)
(* it may be pressed, as shift; toggled, as caps lock; and latched, which  *)
(* acts as shift if another key is released while the latch key is down    *)
(* and otherwise holds until the next key is released.                     *)
(***************************************************************************)
CONSTANT ShiftKeys      \* the keys that act as shift for this modifier

VARIABLES
  pressed,   \* those of them that are down
  locked,    \* toggled on
  latch,     \* "off"; "down": the latch key is down; "used": and has acted as
             \* shift; "armed": it is up, and waits for a key to be released
  on         \* whether the modifier is in effect

modVars == <<pressed, locked, latch, on>>

TypeOK ==
  /\ pressed \subseteq ShiftKeys
  /\ locked \in BOOLEAN /\ on \in BOOLEAN
  /\ latch \in {"off", "down", "used", "armed"}

\* The reasons to be in effect; on' always follows them.
InEffect == pressed # {} \/ locked \/ latch # "off"

Init == pressed = {} /\ locked = FALSE /\ latch = "off" /\ on = FALSE

ShiftDown(k) == pressed' = pressed \cup {k} /\ UNCHANGED <<locked, latch>>

ShiftUp(k) == pressed' = pressed \ {k} /\ UNCHANGED <<locked, latch>>

LockPressed == locked' = ~locked /\ UNCHANGED <<pressed, latch>>

LatchDown ==
  /\ latch \in {"off", "armed"}
  /\ latch' = "down"
  /\ locked' = FALSE
  /\ UNCHANGED pressed

LatchUp ==
  /\ latch \in {"down", "used"}
  /\ latch' = IF latch = "down" THEN "armed" ELSE "off"
  /\ UNCHANGED <<pressed, locked>>

OtherUp ==
  /\ latch \in {"down", "armed"}
  /\ latch' = IF latch = "down" THEN "used" ELSE "off"
  /\ UNCHANGED <<pressed, locked>>

\* The keys may have been released unseen: start afresh.
Forget == pressed' = {} /\ locked' = FALSE /\ latch' = "off"

Next ==
  /\ \/ \E k \in ShiftKeys : ShiftDown(k) \/ ShiftUp(k)
     \/ LockPressed \/ LatchDown \/ LatchUp \/ OtherUp \/ Forget
  /\ on' = InEffect'

Spec == Init /\ [][Next]_modVars
=============================================================================
