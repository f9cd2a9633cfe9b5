---------------------------------- MODULE KM ----------------------------------
(***************************************************************************)
(* The modifier tracker of km.c, as operators on its state record.  One    *)
(* record is kept for each of shift, control, alt, win, level3 and level5  *)
(* (see Hook).  An operation that calls keybd_event returns the record     *)
(* together with the sequence of key events it sends.                      *)
(*                                                                         *)
(* shifts is the used part of the C array: its length is shifts_count, and *)
(* what the array holds beyond that is never read.                         *)
(***************************************************************************)
EXTENDS Integers, Sequences

CONSTANTS
  MaxShifts,     \* KM_MAXSHIFTS, the size of the shifts array
  ReleasesMod    \* number of values of the UCHAR latch_releases

ASSUME KMAssumption == MaxShifts \in Nat \ {0} /\ ReleasesMod \in Nat \ {0, 1}

NoKey == 0       \* scancode 0: no key
NoVk == "none"   \* virtual key code 0: no key

KeyDown(vk) == [vk |-> vk, down |-> TRUE]
KeyUp(vk)   == [vk |-> vk, down |-> FALSE]

\* The states of a tracker fed with the scancodes Scs and the virtual keys Vks.
KMs(Scs, Vks) ==
  [in_effect : BOOLEAN, locked : BOOLEAN, lock_sc : {NoKey},
   latch : Scs \cup {NoKey}, latch_faked : Vks \cup {NoVk},
   latch_released : BOOLEAN, latch_releases : 0 .. ReleasesMod - 1,
   shifts : Seq(Scs)]

\* KM_init, and KM_reset, which does the same.
KM_init ==
  [in_effect |-> FALSE, locked |-> FALSE, lock_sc |-> NoKey,
   latch |-> NoKey, latch_faked |-> NoVk,
   latch_released |-> FALSE, latch_releases |-> 0,
   shifts |-> <<>>]

Silent(km) == [km |-> km, sent |-> <<>>]

\* Mutant of l_release: the key faked for the latch is not released.
l_release_KeyKept(km) ==
  Silent([km EXCEPT !.in_effect = km.shifts # <<>> \/ km.latch_releases = 0])

\* If the modifier has gone out of effect, release the key faked for the latch.
l_release(km) ==
  LET on == km.shifts # <<>> \/ km.latch_releases = 0 IN
  IF on \/ km.latch_faked = NoVk
  THEN Silent([km EXCEPT !.in_effect = on])
  ELSE [km   |-> [km EXCEPT !.in_effect = FALSE, !.latch_faked = NoVk],
        sent |-> <<KeyUp(km.latch_faked)>>]

\* Mutant of KM_nonmod_event: latch_releases = 1 is missing.
KM_nonmod_event_NotCounted(km, down, sc) ==
  CASE km.latch = NoKey \/ down -> Silent(km)
    [] km.latch # NoKey /\ ~down /\ km.latch_released ->
         l_release([km EXCEPT !.latch = NoKey])
    [] km.latch # NoKey /\ ~down /\ ~km.latch_released /\ km.latch = sc ->
         l_release([km EXCEPT !.latch_released = TRUE])
    [] OTHER ->
         Silent([km EXCEPT !.latch_releases = (@ + 1) % ReleasesMod])

\* A key that is no modifier goes down or up.
KM_nonmod_event(km, down, sc) ==
  CASE km.latch = NoKey \/ down -> Silent(km)
    [] km.latch # NoKey /\ ~down /\ km.latch_released ->
         l_release([km EXCEPT !.latch = NoKey, !.latch_releases = 1])
    [] km.latch # NoKey /\ ~down /\ ~km.latch_released /\ km.latch = sc ->
         l_release([km EXCEPT !.latch_released = TRUE])
    [] OTHER ->
         Silent([km EXCEPT !.latch_releases = (@ + 1) % ReleasesMod])

-----------------------------------------------------------------------------
(***************************************************************************)
(* A shift key.  On release the inner loop starts from 0 instead of i + 1: *)
(* it moves every entry down by one whatever the index of the released     *)
(* key, so that the first entry is lost, and it writes shifts[-1].  That   *)
(* write is undefined; where the compiler keeps it, it lands on            *)
(* latch_releases, the byte before the array (with a byte of padding).     *)
(* The count is decremented only when neither locked nor latch is set (the *)
(* decrement is the last operand of a ||).                                 *)
(***************************************************************************)
InShifts(km, sc) == \E i \in DOMAIN km.shifts : km.shifts[i] = sc

MovedDown(s) == [i \in 1 .. Len(s) |-> IF i < Len(s) THEN s[i + 1] ELSE s[i]]

\* Mutant of ShiftPressed: the bound of the array is off by one.
ShiftPressed_OffByOne(km, sc) ==
  IF InShifts(km, sc) THEN [km EXCEPT !.in_effect = TRUE]
  ELSE IF Len(km.shifts) <= MaxShifts
       THEN [km EXCEPT !.shifts = Append(@, sc), !.in_effect = TRUE]
       ELSE km

ShiftPressed(km, sc) ==
  IF InShifts(km, sc) THEN [km EXCEPT !.in_effect = TRUE]
  ELSE IF Len(km.shifts) < MaxShifts
       THEN [km EXCEPT !.shifts = Append(@, sc), !.in_effect = TRUE]
       ELSE km

\* Mutants of ShiftReleased: in_effect is not recomputed; it is, from the
\* count alone.
ShiftReleased_NotRecomputed(km, releases) ==
  [km EXCEPT !.latch_releases = releases, !.shifts = Tail(@)]

ShiftReleased_CountAlone(km, releases) ==
  [km EXCEPT !.latch_releases = releases, !.in_effect = Len(km.shifts) > 1,
             !.shifts = Tail(@)]

ShiftReleased(km, releases) ==
  IF km.locked \/ km.latch # NoKey
  THEN [km EXCEPT !.latch_releases = releases, !.in_effect = TRUE,
                  !.shifts = MovedDown(@)]
  ELSE [km EXCEPT !.latch_releases = releases, !.in_effect = Len(km.shifts) > 1,
                  !.shifts = Tail(@)]

\* The set of the possible outcomes.
KM_shift_event(km, down, sc) ==
  IF down THEN {ShiftPressed(km, sc)}
  ELSE IF InShifts(km, sc)
       THEN {ShiftReleased(km, r) :
               r \in {km.latch_releases, km.shifts[1] % ReleasesMod}}
       ELSE {km}

-----------------------------------------------------------------------------
Latched(km, down, sc) ==
  CASE down /\ (km.latch = NoKey \/ km.latch_released) ->
         [km   |-> [km EXCEPT !.latch = sc, !.latch_released = FALSE,
                              !.latch_releases = 0],
          sent |-> IF km.latch_faked = NoVk THEN <<>>
                   ELSE <<KeyDown(km.latch_faked)>>]
    [] down /\ ~(km.latch = NoKey \/ km.latch_released) -> Silent(km)
    [] ~down /\ km.latch_releases = 0 ->
         Silent([km EXCEPT !.latch_released = TRUE])
    [] OTHER ->
         [km   |-> [km EXCEPT !.latch_released = TRUE, !.latch = NoKey,
                              !.latch_faked = NoVk],
          sent |-> IF km.latch_faked = NoVk THEN <<>>
                   ELSE <<KeyUp(km.latch_faked)>>]

\* A latch key.
KM_latch_event(km, down, sc) ==
  LET l == Latched([km EXCEPT !.locked = FALSE], down, sc) IN
  [l EXCEPT !.km.in_effect = l.km.latch # NoKey \/ l.km.shifts # <<>>]

\* Mutant of KM_lock_event: unlocking leaves the modifier in effect.
KM_lock_event_EffectKept(km, down, sc) ==
  IF down /\ km.lock_sc # sc THEN [km EXCEPT !.locked = ~@, !.in_effect = TRUE]
  ELSE km

\* A lock key.
KM_lock_event(km, down, sc) ==
  IF down /\ km.lock_sc # sc
  THEN [km EXCEPT !.locked = ~@,
                  !.in_effect = ~km.locked \/ km.latch # NoKey \/ km.shifts # <<>>]
  ELSE km
=============================================================================
