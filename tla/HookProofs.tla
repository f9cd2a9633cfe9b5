------------------------------ MODULE HookProofs ------------------------------
(***************************************************************************)
(* Type correctness and coherence of the trackers, for every board, table  *)
(* of bindings, set of windows, Compose tree and array size.               *)
(*                                                                         *)
(* The operations of km.c are taken one by one, on a tracker alone; the    *)
(* steps of the hook then follow from what they do to each tracker.        *)
(***************************************************************************)
EXTENDS HookProps, TLAPS, SequenceTheorems

\* What every tracker always is.
GoodKM(km) ==
  /\ km \in KMs(Codes, {"LSHIFT"})
  /\ Len(km.shifts) <= MaxShifts
  /\ km.in_effect = Reason(km)

\* Only shift and level3 are ever latched, and they are never locked.
Latching == {"shift", "l3"}

GoodKMs(kms) ==
  /\ kms \in [Modifiers -> KMs(Codes, {"LSHIFT"})]
  /\ \A m \in Modifiers : GoodKM(kms[m])
  /\ \A m \in Modifiers :
       IF m \in Latching THEN ~kms[m].locked ELSE kms[m].latch = NoKey

\* What KL_phys_mods always is: ModifiersStay of a table phys.
GoodPhys(phys) ==
  /\ phys \in [Codes -> Modifiers \cup {"none", "temp"}]
  /\ \A c \in Codes : phys[c] # InitialMods[c] =>
                        InitialMods[c] = "none" /\ phys[c] = "temp"

-----------------------------------------------------------------------------
(* The operations of km.c. *)

LEMMA CodesAreNat == Codes \subseteq Nat
  <1>1. \A k \in Nat : k % 256 \in Nat
    OBVIOUS
  <1>2. QED
    BY <1>1, HookAssumption DEF HookAssumption, Codes, Code, SC_EXTENDED_BIT

LEMMA Counts ==
  /\ ReleasesMod \in Nat
  /\ 0 \in 0 .. ReleasesMod - 1 /\ 1 \in 0 .. ReleasesMod - 1
  /\ \A n \in Nat : n % ReleasesMod \in 0 .. ReleasesMod - 1
  BY KMAssumption DEF KMAssumption

LEMMA CodeNotNone == NoKey \notin Codes
  <1>1. 0 % ReleasesMod = 0
    BY KMAssumption DEF KMAssumption
  <1>2. QED
    BY <1>1, HookAssumption DEF HookAssumption, NoKey

LEMMA InitGood == GoodKM(KM_init) /\ ~KM_init.locked
  BY KMAssumption DEF KMAssumption, GoodKM, KMs, KM_init, Reason, NoKey, NoVk

LEMMA FieldsGood ==
  ASSUME NEW km \in KMs(Codes, {"LSHIFT"}), Len(km.shifts) <= MaxShifts,
         km.in_effect <=> Reason(km)
  PROVE  GoodKM(km)
  <1>1. km.in_effect \in BOOLEAN
    BY DEF KMs
  <1>2. Reason(km) \in BOOLEAN
    BY DEF Reason
  <1>3. km.in_effect = Reason(km)
    BY <1>1, <1>2
  <1>4. QED
    BY <1>3 DEF GoodKM

LEMMA TailFacts ==
  ASSUME NEW S, NEW s \in Seq(S), s # <<>>
  PROVE  /\ s[1] \in S
         /\ Tail(s) \in Seq(S) /\ Len(Tail(s)) = Len(s) - 1
         /\ Len(s) > 1 <=> Tail(s) # <<>>
  <1>1. Tail(s) \in Seq(S) /\ Len(Tail(s)) = Len(s) - 1
    BY HeadTailProperties
  <1>2. Len(s) \in Nat \ {0}
    BY EmptySeq
  <1>3. s[1] \in S
    BY <1>2, ElementOfSeq
  <1>4. Tail(s) = <<>> => Len(Tail(s)) = 0
    BY EmptySeq
  <1>5. Tail(s) # <<>> => Len(Tail(s)) \in Nat \ {0}
    BY <1>1, EmptySeq
  <1>6. Len(s) > 1 <=> Tail(s) # <<>>
    <2>1. Len(Tail(s)) = Len(s) - 1
      BY <1>1
    <2> QED BY <1>2, <2>1, <1>4, <1>5
  <1>7. QED
    BY <1>1, <1>3, <1>6

LEMMA MovedDownFacts ==
  ASSUME NEW S, NEW s \in Seq(S), s # <<>>
  PROVE  /\ MovedDown(s) \in Seq(S) /\ Len(MovedDown(s)) = Len(s)
         /\ MovedDown(s) # <<>>
  <1>1. Len(s) \in Nat \ {0}
    BY EmptySeq
  <1>2. \A i \in 1 .. Len(s) : (IF i < Len(s) THEN s[i + 1] ELSE s[i]) \in S
    <2>1. TAKE i \in 1 .. Len(s)
    <2>2. CASE i < Len(s)
      <3>1. i + 1 \in 1 .. Len(s)
        BY <1>1, <2>2
      <3>2. QED
        BY <3>1, <2>2, ElementOfSeq
    <2>3. CASE ~(i < Len(s))
      BY <2>3, ElementOfSeq
    <2>4. QED
      BY <2>2, <2>3
  <1>3. MovedDown(s) \in Seq(S)
    BY <1>1, <1>2, IsASeq DEF MovedDown
  <1>4. DOMAIN MovedDown(s) = 1 .. Len(s)
    BY DEF MovedDown
  <1>5. Len(MovedDown(s)) = Len(s)
    BY <1>1, <1>3, <1>4, LenProperties
  <1>6. MovedDown(s) # <<>>
    BY <1>1, <1>5, EmptySeq
  <1>7. QED
    BY <1>3, <1>5, <1>6

LEMMA AppendFacts ==
  ASSUME NEW S, NEW s \in Seq(S), NEW e \in S
  PROVE  /\ Append(s, e) \in Seq(S) /\ Len(Append(s, e)) = Len(s) + 1
         /\ Append(s, e) # <<>>
  <1>1. Append(s, e) \in Seq(S) /\ Len(Append(s, e)) = Len(s) + 1
    OBVIOUS
  <1>2. Len(s) \in Nat
    BY LenProperties
  <1>3. QED
    BY <1>1, <1>2, EmptySeq

LEMMA ReleaseGood ==
  ASSUME NEW km, km \in KMs(Codes, {"LSHIFT"}), Len(km.shifts) <= MaxShifts,
         ~km.locked,
         IF km.latch = NoKey THEN km.latch_releases # 0 ELSE km.latch_released
  PROVE  GoodKM(l_release(km).km) /\ ~l_release(km).km.locked
  BY DEF KMs, l_release, Silent, GoodKM, Reason, NoVk, NoKey


LEMMA NonmodGood ==
  ASSUME NEW km, GoodKM(km), ~km.locked, NEW down \in BOOLEAN, NEW sc \in Codes
  PROVE  /\ GoodKM(KM_nonmod_event(km, down, sc).km)
         /\ ~KM_nonmod_event(km, down, sc).km.locked
  <1>0. km \in KMs(Codes, {"LSHIFT"}) /\ Len(km.shifts) <= MaxShifts
    BY DEF GoodKM
  <1>1. CASE km.latch = NoKey \/ down
    BY <1>1 DEF KM_nonmod_event, Silent
  <1>2. CASE km.latch # NoKey /\ ~down /\ km.latch_released
    <2> DEFINE new == [km EXCEPT !.latch = NoKey, !.latch_releases = 1]
    <2>1. new \in KMs(Codes, {"LSHIFT"})
      BY <1>0, Counts DEF KMs
    <2>2. /\ new.shifts = km.shifts /\ new.locked = km.locked
          /\ new.latch = NoKey /\ new.latch_releases # 0
      BY <1>0 DEF KMs
    <2>3. KM_nonmod_event(km, down, sc) = l_release(new)
      BY <1>2 DEF KM_nonmod_event
    <2> HIDE DEF new
    <2>4. Len(new.shifts) <= MaxShifts /\ ~new.locked
      BY <1>0, <2>2
    <2>5. GoodKM(l_release(new).km) /\ ~l_release(new).km.locked
      BY <2>1, <2>2, <2>4, ReleaseGood
    <2>6. QED
      BY <2>3, <2>5
  <1>3. CASE km.latch # NoKey /\ ~down /\ ~km.latch_released /\ km.latch = sc
    <2> DEFINE new == [km EXCEPT !.latch_released = TRUE]
    <2>1. new \in KMs(Codes, {"LSHIFT"})
      BY <1>0 DEF KMs
    <2>2. /\ new.shifts = km.shifts /\ new.locked = km.locked
          /\ new.latch = km.latch /\ new.latch_released
      BY <1>0 DEF KMs
    <2>3. KM_nonmod_event(km, down, sc) = l_release(new)
      BY <1>3 DEF KM_nonmod_event
    <2> HIDE DEF new
    <2>4. QED
      BY <1>0, <1>3, <2>1, <2>2, <2>3, ReleaseGood
  <1>4. CASE km.latch # NoKey /\ ~down /\ ~km.latch_released /\ km.latch # sc
    <2> DEFINE n == (km.latch_releases + 1) % ReleasesMod
               new == [km EXCEPT !.latch_releases = n]
    <2>1. KM_nonmod_event(km, down, sc) = Silent(new)
      BY <1>4 DEF KM_nonmod_event
    <2>2. n \in 0 .. ReleasesMod - 1
      BY <1>0, KMAssumption DEF KMAssumption, KMs
    <2> HIDE DEF n
    <2>3. new \in KMs(Codes, {"LSHIFT"})
      BY <1>0, <2>2 DEF KMs
    <2>4. /\ new.in_effect = km.in_effect /\ new.shifts = km.shifts
          /\ new.locked = km.locked /\ new.latch = km.latch
          /\ new.latch_released = km.latch_released
      BY <1>0 DEF KMs
    <2>5. Silent(new).km = new
      BY DEF Silent
    <2> HIDE DEF new
    <2>6. new.in_effect <=> Reason(new)
      BY <1>4, <2>4 DEF GoodKM, Reason
    <2>7. QED
      BY <1>0, <2>1, <2>3, <2>4, <2>5, <2>6, FieldsGood
  <1>5. QED
    BY <1>1, <1>2, <1>3, <1>4

LEMMA PressedGood ==
  ASSUME NEW km, GoodKM(km), NEW sc \in Codes
  PROVE  /\ GoodKM(ShiftPressed(km, sc))
         /\ ShiftPressed(km, sc).locked = km.locked
         /\ ShiftPressed(km, sc).latch = km.latch
  <1>0. /\ km \in KMs(Codes, {"LSHIFT"}) /\ Len(km.shifts) <= MaxShifts
        /\ km.shifts \in Seq(Codes)
    BY DEF GoodKM, KMs
  <1>1. CASE InShifts(km, sc)
    <2> DEFINE new == [km EXCEPT !.in_effect = TRUE]
    <2>1. ShiftPressed(km, sc) = new
      BY <1>1 DEF ShiftPressed
    <2>2. km.shifts # <<>>
      BY <1>1 DEF InShifts
    <2>3. new \in KMs(Codes, {"LSHIFT"})
      BY <1>0 DEF KMs
    <2>4. /\ new.in_effect = TRUE /\ new.shifts = km.shifts
          /\ new.locked = km.locked /\ new.latch = km.latch
      BY <1>0 DEF KMs
    <2> HIDE DEF new
    <2>5. new.in_effect <=> Reason(new)
      BY <2>2, <2>4 DEF Reason
    <2>6. QED
      BY <1>0, <2>1, <2>3, <2>4, <2>5, FieldsGood
  <1>2. CASE ~InShifts(km, sc) /\ Len(km.shifts) < MaxShifts
    <2> DEFINE more == Append(km.shifts, sc)
               new == [km EXCEPT !.shifts = more, !.in_effect = TRUE]
    <2>1. ShiftPressed(km, sc) = new
      BY <1>2 DEF ShiftPressed
    <2>2. more \in Seq(Codes) /\ Len(more) = Len(km.shifts) + 1 /\ more # <<>>
      BY <1>0, AppendFacts
    <2>3. Len(more) <= MaxShifts
      BY <1>0, <1>2, <2>2, LenProperties, KMAssumption DEF KMAssumption
    <2> HIDE DEF more
    <2>4. new \in KMs(Codes, {"LSHIFT"})
      BY <1>0, <2>2 DEF KMs
    <2>5. /\ new.in_effect = TRUE /\ new.shifts = more
          /\ new.locked = km.locked /\ new.latch = km.latch
      BY <1>0 DEF KMs
    <2> HIDE DEF new
    <2>6. new.in_effect <=> Reason(new)
      BY <2>2, <2>5 DEF Reason
    <2>7. QED
      BY <2>1, <2>3, <2>4, <2>5, <2>6, FieldsGood
  <1>3. CASE ~InShifts(km, sc) /\ ~(Len(km.shifts) < MaxShifts)
    BY <1>3 DEF ShiftPressed
  <1>4. QED
    BY <1>1, <1>2, <1>3

LEMMA ReleasedGood ==
  ASSUME NEW km, GoodKM(km), km.shifts # <<>>, NEW r \in 0 .. ReleasesMod - 1
  PROVE  /\ GoodKM(ShiftReleased(km, r))
         /\ ShiftReleased(km, r).locked = km.locked
         /\ ShiftReleased(km, r).latch = km.latch
  <1>0. /\ km \in KMs(Codes, {"LSHIFT"}) /\ Len(km.shifts) <= MaxShifts
        /\ km.shifts \in Seq(Codes) /\ Len(km.shifts) \in Nat
    BY LenProperties DEF GoodKM, KMs
  <1>1. CASE km.locked \/ km.latch # NoKey
    <2> DEFINE moved == MovedDown(km.shifts)
               new == [km EXCEPT !.latch_releases = r, !.in_effect = TRUE,
                                 !.shifts = moved]
    <2>1. ShiftReleased(km, r) = new
      BY <1>1 DEF ShiftReleased
    <2>2. moved \in Seq(Codes) /\ Len(moved) = Len(km.shifts) /\ moved # <<>>
      BY <1>0, MovedDownFacts
    <2> HIDE DEF moved
    <2>3. new \in KMs(Codes, {"LSHIFT"})
      BY <1>0, <2>2 DEF KMs
    <2>4. /\ new.in_effect = TRUE /\ new.shifts = moved
          /\ new.locked = km.locked /\ new.latch = km.latch
      BY <1>0 DEF KMs
    <2> HIDE DEF new
    <2>5. new.in_effect <=> Reason(new)
      BY <2>2, <2>4 DEF Reason
    <2>6. QED
      BY <1>0, <2>1, <2>2, <2>3, <2>4, <2>5, FieldsGood
  <1>2. CASE ~(km.locked \/ km.latch # NoKey)
    <2> DEFINE rest == Tail(km.shifts)
               on == Len(km.shifts) > 1
               new == [km EXCEPT !.latch_releases = r, !.in_effect = on,
                                 !.shifts = rest]
    <2>1. ShiftReleased(km, r) = new
      BY <1>2 DEF ShiftReleased
    <2>2. /\ rest \in Seq(Codes) /\ Len(rest) = Len(km.shifts) - 1
          /\ on <=> rest # <<>>
      BY <1>0, TailFacts
    <2>3. Len(rest) <= MaxShifts /\ on \in BOOLEAN
      BY <1>0, <2>2, KMAssumption DEF KMAssumption
    <2> HIDE DEF rest, on
    <2>4. new \in KMs(Codes, {"LSHIFT"})
      BY <1>0, <2>2, <2>3 DEF KMs
    <2>5. /\ new.in_effect = on /\ new.shifts = rest
          /\ new.locked = km.locked /\ new.latch = km.latch
      BY <1>0 DEF KMs
    <2> HIDE DEF new
    <2>6. new.in_effect <=> Reason(new)
      BY <1>2, <2>2, <2>5 DEF Reason
    <2>7. QED
      BY <2>1, <2>3, <2>4, <2>5, <2>6, FieldsGood
  <1>3. QED
    BY <1>1, <1>2

LEMMA ShiftGood ==
  ASSUME NEW km, GoodKM(km), NEW down \in BOOLEAN, NEW sc \in Codes,
         NEW new \in KM_shift_event(km, down, sc)
  PROVE  GoodKM(new) /\ new.locked = km.locked /\ new.latch = km.latch
  <1>1. CASE down
    BY <1>1, PressedGood DEF KM_shift_event
  <1>2. CASE ~down /\ InShifts(km, sc)
    <2>1. km.shifts \in Seq(Codes) /\ km.latch_releases \in 0 .. ReleasesMod - 1
      BY DEF GoodKM, KMs
    <2>2. km.shifts # <<>>
      BY <1>2 DEF InShifts
    <2>3. km.shifts[1] \in Nat
      BY <2>1, <2>2, TailFacts, CodesAreNat
    <2>4. PICK r \in {km.latch_releases, km.shifts[1] % ReleasesMod} :
            new = ShiftReleased(km, r)
      BY <1>2 DEF KM_shift_event
    <2>5. r \in 0 .. ReleasesMod - 1
      BY <2>1, <2>3, Counts
    <2>6. QED
      BY <2>2, <2>4, <2>5, ReleasedGood
  <1>3. CASE ~down /\ ~InShifts(km, sc)
    BY <1>3 DEF KM_shift_event
  <1>4. QED
    BY <1>1, <1>2, <1>3

LEMMA HeldShift ==
  ASSUME NEW km, GoodKM(km), km.latch = NoKey, ~km.locked, NEW sc \in Codes,
         km.shifts = <<>> \/ km.shifts = <<sc>>,
         NEW down \in BOOLEAN, NEW new \in KM_shift_event(km, down, sc)
  PROVE  /\ new.shifts = IF down THEN <<sc>> ELSE <<>>
         /\ new.in_effect = down /\ ~new.locked
<1>0. /\ km \in KMs(Codes, {"LSHIFT"}) /\ km.in_effect = Reason(km)
      /\ km.in_effect \in BOOLEAN /\ MaxShifts \in Nat \ {0}
  BY KMAssumption DEF GoodKM, KMs, KMAssumption
<1>1. InShifts(km, sc) <=> km.shifts = <<sc>>
  BY DEF InShifts
<1>2. CASE down
  <2>1. new = ShiftPressed(km, sc)
    BY <1>2 DEF KM_shift_event
  <2>2. CASE km.shifts = <<sc>>
    <3> DEFINE rec == [km EXCEPT !.in_effect = TRUE]
    <3>1. new = rec
      BY <1>1, <2>1, <2>2 DEF ShiftPressed
    <3>2. rec.shifts = <<sc>> /\ rec.in_effect = TRUE /\ rec.locked = km.locked
      BY <1>0, <2>2 DEF KMs
    <3> QED
      BY <1>2, <3>1, <3>2
  <2>3. CASE km.shifts = <<>>
    <3> DEFINE more == Append(km.shifts, sc)
               rec == [km EXCEPT !.shifts = more, !.in_effect = TRUE]
    <3>1. ~InShifts(km, sc) /\ Len(km.shifts) < MaxShifts
      BY <1>0, <1>1, <2>3
    <3>2. new = rec
      BY <2>1, <3>1 DEF ShiftPressed
    <3>3. more = <<sc>>
      BY <2>3
    <3> HIDE DEF more
    <3>4. rec.shifts = <<sc>> /\ rec.in_effect = TRUE /\ rec.locked = km.locked
      BY <1>0, <3>3 DEF KMs
    <3> QED
      BY <1>2, <3>2, <3>4
  <2> QED
    BY <2>2, <2>3
<1>3. CASE ~down /\ km.shifts = <<sc>>
  <2>1. PICK r : new = ShiftReleased(km, r)
    BY <1>1, <1>3 DEF KM_shift_event
  <2> DEFINE rest == Tail(km.shifts)
             on == Len(km.shifts) > 1
             rec == [km EXCEPT !.latch_releases = r, !.in_effect = on, !.shifts = rest]
  <2>2. new = rec
    BY <2>1 DEF ShiftReleased
  <2>3. rest = <<>> /\ on = FALSE
    BY <1>3
  <2> HIDE DEF rest, on
  <2>4. rec.shifts = <<>> /\ rec.in_effect = FALSE /\ rec.locked = km.locked
    BY <1>0, <2>3 DEF KMs
  <2> QED
    BY <1>3, <2>2, <2>4
<1>4. CASE ~down /\ km.shifts = <<>>
  <2>1. new = km
    BY <1>1, <1>4 DEF KM_shift_event
  <2>2. ~km.in_effect
    BY <1>0, <1>4 DEF Reason
  <2> QED
    BY <1>0, <1>4, <2>1, <2>2
<1> QED
  BY <1>2, <1>3, <1>4

LEMMA LatchedFacts ==
  ASSUME NEW km \in KMs(Codes, {"LSHIFT"}), NEW down \in BOOLEAN, NEW sc \in Codes
  PROVE  LET l == Latched(km, down, sc).km IN
         /\ l \in KMs(Codes, {"LSHIFT"})
         /\ l.shifts = km.shifts /\ l.locked = km.locked
         /\ l.latch # NoKey => ~l.latch_released \/ l.latch_releases = 0
  <1>1. CASE down /\ (km.latch = NoKey \/ km.latch_released)
    <2> DEFINE new == [km EXCEPT !.latch = sc, !.latch_released = FALSE,
                                 !.latch_releases = 0]
    <2>1. Latched(km, down, sc).km = new
      BY <1>1 DEF Latched
    <2>2. new \in KMs(Codes, {"LSHIFT"})
      BY Counts DEF KMs
    <2>3. new.shifts = km.shifts /\ new.locked = km.locked /\ ~new.latch_released
      BY DEF KMs
    <2>4. QED
      BY <2>1, <2>2, <2>3
  <1>2. CASE down /\ ~(km.latch = NoKey \/ km.latch_released)
    <2>1. Latched(km, down, sc).km = km
      BY <1>2 DEF Latched, Silent
    <2>2. QED
      BY <1>2, <2>1
  <1>3. CASE ~down /\ km.latch_releases = 0
    <2> DEFINE new == [km EXCEPT !.latch_released = TRUE]
    <2>1. Latched(km, down, sc).km = new
      BY <1>3 DEF Latched, Silent
    <2>2. new \in KMs(Codes, {"LSHIFT"})
      BY DEF KMs
    <2>3. /\ new.shifts = km.shifts /\ new.locked = km.locked
          /\ new.latch_releases = km.latch_releases
      BY DEF KMs
    <2>4. QED
      BY <1>3, <2>1, <2>2, <2>3
  <1>4. CASE ~down /\ km.latch_releases # 0
    <2> DEFINE new == [km EXCEPT !.latch_released = TRUE, !.latch = NoKey,
                                 !.latch_faked = NoVk]
    <2>1. Latched(km, down, sc).km = new
      BY <1>4 DEF Latched
    <2>2. new \in KMs(Codes, {"LSHIFT"})
      BY DEF KMs
    <2>3. new.shifts = km.shifts /\ new.locked = km.locked /\ new.latch = NoKey
      BY DEF KMs
    <2>4. QED
      BY <2>1, <2>2, <2>3
  <1>5. QED
    BY <1>1, <1>2, <1>3, <1>4

LEMMA LatchGood ==
  ASSUME NEW km \in KMs(Codes, {"LSHIFT"}), Len(km.shifts) <= MaxShifts,
         NEW down \in BOOLEAN, NEW sc \in Codes
  PROVE  /\ GoodKM(KM_latch_event(km, down, sc).km)
         /\ ~KM_latch_event(km, down, sc).km.locked
  <1> DEFINE km1 == [km EXCEPT !.locked = FALSE]
             l == Latched(km1, down, sc).km
             on == l.latch # NoKey \/ l.shifts # <<>>
             new == [l EXCEPT !.in_effect = on]
  <1>1. km1 \in KMs(Codes, {"LSHIFT"})
    BY DEF KMs
  <1>2. km1.locked = FALSE /\ km1.shifts = km.shifts
    BY DEF KMs
  <1>3. /\ l \in KMs(Codes, {"LSHIFT"})
        /\ l.shifts = km.shifts /\ l.locked = FALSE
        /\ l.latch # NoKey => ~l.latch_released \/ l.latch_releases = 0
    BY <1>1, <1>2, LatchedFacts
  <1>4. KM_latch_event(km, down, sc).km = new
    BY DEF KM_latch_event, Latched, Silent
  <1>5. on \in BOOLEAN
    OBVIOUS
  <1> HIDE DEF l, on
  <1>6. new \in KMs(Codes, {"LSHIFT"})
    BY <1>3, <1>5 DEF KMs
  <1>7. /\ new.in_effect = on /\ new.shifts = l.shifts /\ new.locked = l.locked
        /\ new.latch = l.latch /\ new.latch_released = l.latch_released
        /\ new.latch_releases = l.latch_releases
    BY <1>3 DEF KMs
  <1> HIDE DEF new
  <1>8. new.in_effect <=> Reason(new)
    BY <1>3, <1>7 DEF Reason, on
  <1>9. QED
    BY <1>3, <1>4, <1>6, <1>7, <1>8, FieldsGood

\* KM_lock_event takes any latch as a reason, even a latch key that was
\* released at another level; the hook never locks and latches one modifier.
LEMMA LockGood ==
  ASSUME NEW km, GoodKM(km), km.latch = NoKey, NEW down \in BOOLEAN, NEW sc \in Codes
  PROVE  GoodKM(KM_lock_event(km, down, sc)) /\ KM_lock_event(km, down, sc).latch = NoKey
  <1> DEFINE on == ~km.locked \/ km.latch # NoKey \/ km.shifts # <<>>
             new == [km EXCEPT !.locked = ~@, !.in_effect = on]
  <1>1. CASE ~(down /\ km.lock_sc # sc)
    BY <1>1 DEF KM_lock_event
  <1>2. CASE down /\ km.lock_sc # sc
    <2>1. KM_lock_event(km, down, sc) = new
      BY <1>2 DEF KM_lock_event
    <2>2. on \in BOOLEAN
      OBVIOUS
    <2> HIDE DEF on
    <2>3. new \in KMs(Codes, {"LSHIFT"}) /\ Len(new.shifts) <= MaxShifts
      BY <2>2 DEF GoodKM, KMs
    <2>4. /\ new.in_effect = on /\ new.locked = ~km.locked
          /\ new.latch = km.latch /\ new.shifts = km.shifts
      BY DEF GoodKM, KMs
    <2> HIDE DEF new
    <2>5. new.in_effect <=> Reason(new)
      BY <2>4 DEF Reason, on
    <2>6. QED
      BY <2>1, <2>3, <2>4, <2>5, FieldsGood
  <1>3. QED
    BY <1>1, <1>2
-----------------------------------------------------------------------------
(* The trackers and KL_phys_mods under the steps of the hook. *)

LEMMA ModifierNames ==
  /\ Modifiers = {"shift", "control", "alt", "win", "l3", "l5"}
  /\ Latching = {"shift", "l3"}
BY DEF Modifiers, Latching

LEMMA LevelType ==
  ASSUME NEW kms, GoodKMs(kms)
  PROVE  Level(kms) \in DOMAIN Kly
<1>1. \A m \in Modifiers : kms[m].in_effect \in BOOLEAN
  BY DEF GoodKMs, KMs
<1>2. DOMAIN Kly = 0 .. 5
  BY HookAssumption DEF HookAssumption, KLVN
<1> QED
  BY <1>1, <1>2, ModifierNames DEF Level

LEMMA SetGood ==
  ASSUME NEW kms, GoodKMs(kms), NEW m \in Modifiers, NEW km, GoodKM(km),
         IF m \in Latching THEN ~km.locked ELSE km.latch = NoKey
  PROVE  GoodKMs([kms EXCEPT ![m] = km])
  <1> DEFINE new == [kms EXCEPT ![m] = km]
  <1>1. km \in KMs(Codes, {"LSHIFT"})
    BY DEF GoodKM
  <1>2. new \in [Modifiers -> KMs(Codes, {"LSHIFT"})]
    BY <1>1 DEF GoodKMs
  <1>3. \A n \in Modifiers : new[n] = IF n = m THEN km ELSE kms[n]
    BY DEF GoodKMs
  <1> HIDE DEF new
  <1>4. \A n \in Modifiers : GoodKM(new[n])
    BY <1>3 DEF GoodKMs
  <1>5. \A n \in Modifiers :
          IF n \in Latching THEN ~new[n].locked ELSE new[n].latch = NoKey
    BY <1>3 DEF GoodKMs
  <1>6. GoodKMs(new)
    BY <1>2, <1>4, <1>5 DEF GoodKMs
  <1>7. QED
    BY <1>6 DEF new

\* A shift key, of any modifier.
LEMMA ShiftStepGood ==
  ASSUME NEW kms, GoodKMs(kms), NEW m \in Modifiers, NEW down \in BOOLEAN,
         NEW sc \in Codes, NEW km \in KM_shift_event(kms[m], down, sc)
  PROVE  GoodKMs([kms EXCEPT ![m] = km])
  <1>1. /\ GoodKM(kms[m])
        /\ IF m \in Latching THEN ~kms[m].locked ELSE kms[m].latch = NoKey
    BY DEF GoodKMs
  <1>2. GoodKM(km) /\ km.locked = kms[m].locked /\ km.latch = kms[m].latch
    BY <1>1, ShiftGood
  <1>3. QED
    BY <1>1, <1>2, SetGood

LEMMA InitialModsType ==
  InitialMods \in [Codes -> Modifiers \cup {"none"}]
  <1>1. \A vk : ModOfVk(vk) \in Modifiers \cup {"none"}
    BY DEF ModOfVk, Modifiers
  <1>2. QED
    BY <1>1 DEF InitialMods, Modifiers

\* The key actions of ka.c that act on the trackers, called for a key that
\* Windows does not take for a modifier.
LEMMA KAGood ==
  ASSUME NEW ka, NEW km, GoodKMs(km), NEW phys, GoodPhys(phys),
         NEW down \in BOOLEAN, NEW sc \in Codes, NEW sent,
         InitialMods[sc] = "none", KA_call(ka, km, phys, down, sc, sent)
  PROVE  GoodKMs(KL_km') /\ GoodPhys(KL_phys_mods')
  <1>0. {"shift", "control", "l3", "l5"} \subseteq Modifiers
    BY DEF Modifiers
  <1>1. CASE KA_control(km, phys, down, sc, sent)
    <2>1. PICK control \in KM_shift_event(km["control"], down, sc) :
            KL_km' = [km EXCEPT !["control"] = control] /\ KL_phys_mods' = phys
      BY <1>1 DEF KA_control, Keep
    <2>2. "control" \in Modifiers
      BY <1>0
    <2>3. GoodKMs([km EXCEPT !["control"] = control])
      BY <2>2, ShiftStepGood
    <2>4. QED
      BY <2>1, <2>3
  <1>2. CASE KA_l5_shift(km, phys, down, sc, sent)
    <2>1. PICK l5 \in KM_shift_event(km["l5"], down, sc) :
            /\ KL_km' = [km EXCEPT !["l5"] = l5]
            /\ KL_phys_mods' = [phys EXCEPT ![sc] = "temp"]
      BY <1>2 DEF KA_l5_shift, Keep
    <2>2. "l5" \in Modifiers
      BY <1>0
    <2>3. GoodKMs([km EXCEPT !["l5"] = l5])
      BY <2>2, ShiftStepGood
    <2>4. GoodPhys(KL_phys_mods')
      BY <2>1 DEF GoodPhys
    <2>5. QED
      BY <2>1, <2>3, <2>4
  <1>3. CASE KA_l5_lock(km, phys, down, sc, sent)
    <2>1. GoodKM(km["l5"]) /\ km["l5"].latch = NoKey
      BY <1>0 DEF GoodKMs, Latching
    <2>2. /\ GoodKM(KM_lock_event(km["l5"], down, sc))
          /\ KM_lock_event(km["l5"], down, sc).latch = NoKey
      BY <2>1, LockGood
    <2>3. "l5" \notin Latching
      BY DEF Latching
    <2>4. GoodKMs([km EXCEPT !["l5"] = KM_lock_event(km["l5"], down, sc)])
      BY <1>0, <2>2, <2>3, SetGood
    <2>5. QED
      BY <1>3, <2>4 DEF KA_l5_lock, Keep
  <1>4. CASE KA_l3_latch(km, phys, down, sc, sent)
    <2> DEFINE new == KM_latch_event(km["l3"], down, sc).km
    <2>1. km["l3"] \in KMs(Codes, {"LSHIFT"}) /\ Len(km["l3"].shifts) <= MaxShifts
      BY <1>0 DEF GoodKMs, GoodKM
    <2>2. GoodKM(new) /\ ~new.locked
      BY <2>1, LatchGood
    <2>3. "l3" \in Latching
      BY DEF Latching
    <2>4. KL_km' = [km EXCEPT !["l3"] = new] /\ KL_phys_mods' = phys
      BY <1>4 DEF KA_l3_latch, Keep
    <2> HIDE DEF new
    <2>5. QED
      BY <1>0, <2>2, <2>3, <2>4, SetGood
  <1>5. CASE KA_l2_latch(km, phys, down, sc, sent)
    <2> DEFINE old == [km["shift"] EXCEPT !.latch_faked = "LSHIFT"]
               new == KM_latch_event(old, down, sc).km
    <2>1. km["shift"] \in KMs(Codes, {"LSHIFT"}) /\ Len(km["shift"].shifts) <= MaxShifts
      BY <1>0 DEF GoodKMs, GoodKM
    <2>2. old \in KMs(Codes, {"LSHIFT"}) /\ Len(old.shifts) <= MaxShifts
      BY <2>1 DEF KMs
    <2>3. GoodKM(new) /\ ~new.locked
      BY <2>2, LatchGood
    <2>4. "shift" \in Latching
      BY DEF Latching
    <2>5. KL_km' = [km EXCEPT !["shift"] = new] /\ KL_phys_mods' = phys
      BY <1>5 DEF KA_l2_latch, Keep
    <2> HIDE DEF new
    <2>6. QED
      BY <1>0, <2>3, <2>4, <2>5, SetGood
  <1>6. QED
    BY <1>1, <1>2, <1>3, <1>4, <1>5 DEF KA_call

\* The rest of KL_proc either keeps what the trackers have come to or calls a
\* key action.
LEMMA ProcessGood ==
  ASSUME NEW k \in Board, NEW down \in BOOLEAN, NEW km, GoodKMs(km),
         NEW phys, GoodPhys(phys), NEW sent, InitialMods[Code(k)] = "none",
         Process(k, down, km, phys, sent)
  PROVE  GoodKMs(KL_km') /\ GoodPhys(KL_phys_mods')
  <1> DEFINE sc == Code(k)
             lk == Kly[Level(km)][sc]
  <1>1. sc \in Codes
    BY DEF Codes
  <1>2. \/ Keep(km, phys)
        \/ KA_call(lk.binding, km, phys, down, sc, sent)
    BY DEF Process
  <1>3. CASE Keep(km, phys)
    BY <1>3 DEF Keep
  <1>4. CASE KA_call(lk.binding, km, phys, down, sc, sent)
    BY <1>1, <1>4, KAGood
  <1>5. QED
    BY <1>2, <1>3, <1>4

LEMMA ModifierKeyGood ==
  ASSUME NEW k \in Board, NEW down \in BOOLEAN, GoodKMs(KL_km),
         GoodPhys(KL_phys_mods), ModifierKey(k, down)
  PROVE  GoodKMs(KL_km') /\ GoodPhys(KL_phys_mods')
  <1>1. Code(k) \in Codes
    BY DEF Codes
  <1> DEFINE m == KL_phys_mods[Code(k)]
  <1>2. m \in Modifiers /\ KL_phys_mods' = KL_phys_mods
    BY DEF ModifierKey
  <1>3. PICK km \in KM_shift_event(KL_km[m], down, Code(k)) :
          KL_km' = [KL_km EXCEPT ![m] = km]
    BY DEF ModifierKey
  <1>4. GoodKMs([KL_km EXCEPT ![m] = km])
    BY <1>1, <1>2, ShiftStepGood
  <1>5. QED
    BY <1>2, <1>3, <1>4

LEMMA OrdinaryKeyGood ==
  ASSUME NEW k \in Board, NEW down \in BOOLEAN, GoodKMs(KL_km),
         GoodPhys(KL_phys_mods), OrdinaryKey(k, down)
  PROVE  GoodKMs(KL_km') /\ GoodPhys(KL_phys_mods')
  <1> DEFINE sc == Code(k)
             temp == KL_phys_mods[sc] = "temp"
             shift == KM_nonmod_event(KL_km["shift"], down, sc)
             l3 == KM_nonmod_event(KL_km["l3"], down, sc)
             seen == [KL_km EXCEPT !["shift"] = shift.km, !["l3"] = l3.km]
             km == IF temp THEN KL_km ELSE seen
             sent == IF temp THEN <<>> ELSE shift.sent \o l3.sent
             phys == [KL_phys_mods EXCEPT ![sc] = "none"]
  <1>1. sc \in Codes
    BY DEF Codes
  <1>2. GoodKMs(km)
    <2>1. "shift" \in Modifiers /\ "l3" \in Modifiers
      BY DEF Modifiers
    <2>2. "shift" \in Latching /\ "l3" \in Latching
      BY DEF Latching
    <2>3. GoodKM(KL_km["shift"]) /\ ~KL_km["shift"].locked
      BY <2>1, <2>2 DEF GoodKMs
    <2>4. GoodKM(KL_km["l3"]) /\ ~KL_km["l3"].locked
      BY <2>1, <2>2 DEF GoodKMs
    <2>5. GoodKM(shift.km) /\ ~shift.km.locked
      BY <1>1, <2>3, NonmodGood
    <2>6. GoodKM(l3.km) /\ ~l3.km.locked
      BY <1>1, <2>4, NonmodGood
    <2> HIDE DEF shift, l3
    <2>7. GoodKMs([KL_km EXCEPT !["shift"] = shift.km])
      BY <2>1, <2>2, <2>5, SetGood
    <2>8. GoodKMs([[KL_km EXCEPT !["shift"] = shift.km] EXCEPT !["l3"] = l3.km])
      BY <2>1, <2>2, <2>6, <2>7, SetGood
    <2>9. seen = [[KL_km EXCEPT !["shift"] = shift.km] EXCEPT !["l3"] = l3.km]
      OBVIOUS
    <2>10. QED
      BY <2>8, <2>9
  <1>3. InitialMods[sc] = "none"
    BY <1>1, InitialModsType DEF OrdinaryKey, GoodPhys
  <1>4. GoodPhys(phys)
    BY <1>1, <1>3 DEF GoodPhys
  <1>5. \/ Keep(km, phys)
        \/ Process(k, down, km, phys, sent)
    BY DEF OrdinaryKey
  <1> HIDE DEF km, phys, sent
  <1>6. CASE Keep(km, phys)
    BY <1>2, <1>4, <1>6 DEF Keep
  <1>7. CASE Process(k, down, km, phys, sent)
    BY <1>2, <1>3, <1>4, <1>7, ProcessGood
  <1>8. QED
    BY <1>5, <1>6, <1>7

LEMMA KeyEventGood ==
  ASSUME NEW k \in Board, NEW down \in BOOLEAN, GoodKMs(KL_km),
         GoodPhys(KL_phys_mods), KeyEvent(k, down)
  PROVE  GoodKMs(KL_km') /\ GoodPhys(KL_phys_mods')
  <1>1. \/ Unseen(k, down) \/ ModifierKey(k, down) \/ OrdinaryKey(k, down)
    BY DEF KeyEvent, KL_proc
  <1>2. CASE Unseen(k, down)
    BY <1>2 DEF Unseen
  <1>3. QED
    BY <1>1, <1>2, ModifierKeyGood, OrdinaryKeyGood

-----------------------------------------------------------------------------
(* The dead key sequence. *)

LEMMA RootIsPivot == DK_is_pivotNode(DK_node)
  BY DEF DK_is_pivotNode, PivotNodes

LEMMA DescendType ==
  ASSUME NEW node, NEW key
  PROVE  /\ DK_descend(node, key).more \in BOOLEAN
         /\ DK_is_pivotNode(DK_descend(node, key).node)
         /\ DK_descend(node, key).sent # NoChar
              => /\ ~DK_descend(node, key).more
                 /\ DK_descend(node, key).node = DK_node
  BY RootIsPivot DEF DK_descend

\* What a key event does to the sequence.
DkStep ==
  /\ KL_dk_in_effect' \in BOOLEAN
  /\ DK_is_pivotNode(DK_cur_node')
  /\ KL_dk_in_effect /\ typed' # NoChar => ~KL_dk_in_effect' /\ DK_cur_node' = DK_node

LEMMA DkUnchangedGood ==
  ASSUME KL_dk_in_effect \in BOOLEAN, DK_is_pivotNode(DK_cur_node), DkUnchanged
  PROVE  DkStep
  BY DEF DkUnchanged, DkStep

LEMMA DkKeyGood ==
  ASSUME KL_dk_in_effect \in BOOLEAN, DK_is_pivotNode(DK_cur_node),
         NEW down, NEW ch, DkKey(down, ch)
  PROVE  DkStep
  <1>1. CASE DkUnchanged
    BY <1>1, DkUnchangedGood
  <1>2. CASE DkOnChar(ch) /\ ch = NoChar
    BY <1>2 DEF DkOnChar, DkStep
  <1>3. CASE DkOnChar(ch) /\ ch # NoChar
    <2> DEFINE step == DK_descend(DK_cur_node, CharKey(ch))
    <2>1. /\ KL_dk_in_effect' = step.more /\ typed' = step.sent
          /\ DK_cur_node' = step.node
      BY <1>3 DEF DkOnChar
    <2>2. QED
      BY <2>1, DescendType DEF DkStep
  <1>4. QED
    BY <1>1, <1>2, <1>3 DEF DkKey

LEMMA DeadKeyGood ==
  ASSUME KL_dk_in_effect \in BOOLEAN, DK_is_pivotNode(DK_cur_node),
         NEW down, NEW n, NEW sent, DeadKeyCalled(down, n, sent)
  PROVE  DkStep
  <1>1. CASE down
    <2> DEFINE step == DK_descend(DK_cur_node, DeadKey(n))
    <2>1. /\ KL_dk_in_effect' = (step.sent = NoChar) /\ typed' = step.sent
          /\ DK_cur_node' = step.node
      BY <1>1 DEF DeadKeyCalled, DkOnDeadKey
    <2>2. QED
      BY <2>1, DescendType DEF DkStep
  <1>2. CASE ~down
    BY <1>2 DEF DeadKeyCalled, DkStep
  <1>3. QED
    BY <1>1, <1>2

LEMMA ProcessDk ==
  ASSUME KL_dk_in_effect \in BOOLEAN, DK_is_pivotNode(DK_cur_node),
         NEW k, NEW down, NEW km, NEW phys, NEW sent,
         Process(k, down, km, phys, sent)
  PROVE  DkStep
  <1> DEFINE sc == Code(k)
             lv == Level(km)
             lk == Kly[lv][sc]
  <1>1. \/ DkUnchanged
        \/ NotAltered(k, down, lv, sent)
        \/ ScancodeSent(down, lv, lk, sent)
        \/ CharSent(down, lk, sent)
        \/ DeadKeyCalled(down, lk.binding, sent)
        \/ VkSent(km, down, lv, lk, sent)
    BY DEF Process
  <1> HIDE DEF sc, lv, lk
  <1>2. CASE DkUnchanged
    BY <1>2, DkUnchangedGood
  <1>3. CASE NotAltered(k, down, lv, sent)
    BY <1>3, DkKeyGood, DkUnchangedGood DEF NotAltered
  <1>4. CASE ScancodeSent(down, lv, lk, sent)
    BY <1>4, DkKeyGood, DkUnchangedGood DEF ScancodeSent
  <1>5. CASE CharSent(down, lk, sent)
    <2>1. CASE KL_dk_in_effect
      BY <1>5, <2>1, DkKeyGood DEF CharSent
    <2>2. CASE ~KL_dk_in_effect
      BY <1>5, <2>2 DEF CharSent, DkStep
    <2>3. QED
      BY <2>1, <2>2
  <1>6. CASE DeadKeyCalled(down, lk.binding, sent)
    BY <1>6, DeadKeyGood
  <1>7. CASE VkSent(km, down, lv, lk, sent)
    BY <1>7, DkKeyGood, DkUnchangedGood DEF VkSent
  <1>8. QED
    BY <1>1, <1>2, <1>3, <1>4, <1>5, <1>6, <1>7

LEMMA KeyEventDk ==
  ASSUME KL_dk_in_effect \in BOOLEAN, DK_is_pivotNode(DK_cur_node),
         NEW k, NEW down, KeyEvent(k, down)
  PROVE  DkStep
  <1>1. DkUnchanged \/ OrdinaryKey(k, down)
    BY DEF KeyEvent, KL_proc, Unseen, ModifierKey
  <1>2. CASE OrdinaryKey(k, down)
    <2>1. DkUnchanged \/ \E km, phys, sent : Process(k, down, km, phys, sent)
      BY <1>2 DEF OrdinaryKey
    <2>2. QED
      BY <2>1, DkUnchangedGood, ProcessDk
  <1>3. QED
    BY <1>1, <1>2, DkUnchangedGood

-----------------------------------------------------------------------------
(* The rest of the state. *)

LEMMA KeyEventRest ==
  ASSUME NEW k \in Board, NEW down \in BOOLEAN, KL_phys \in [Codes -> BOOLEAN],
         KL_received \in BOOLEAN, KeyEvent(k, down)
  PROVE  KL_phys' \in [Codes -> BOOLEAN] /\ KL_received' \in BOOLEAN
  <1>1. \/ Unseen(k, down)
        \/ KL_phys' = [KL_phys EXCEPT ![Code(k)] = down]
    BY DEF KeyEvent, KL_proc
  <1>2. KL_phys' \in [Codes -> BOOLEAN]
    BY <1>1 DEF Unseen
  <1>3. KL_received' = KL_received \/ KL_received' = TRUE
    BY DEF KeyEvent, KL_proc, Unseen, ModifierKey, OrdinaryKey
  <1>4. QED
    BY <1>2, <1>3

LEMMA RemoveAtType ==
  ASSUME NEW S, NEW s \in Seq(S), NEW i \in DOMAIN s
  PROVE  RemoveAt(s, i) \in Seq(S)
  <1>1. Len(s) \in Nat /\ DOMAIN s = 1 .. Len(s)
    BY LenProperties
  <1>2. i \in 1 .. Len(s)
    BY <1>1
  <1>3. \A j \in 1 .. Len(s) : s[j] \in S
    BY ElementOfSeq
  <1>4. SubSeq(s, 1, i - 1) \in Seq(S)
    BY <1>1, <1>2, <1>3, SubSeqProperties
  <1>5. SubSeq(s, i + 1, Len(s)) \in Seq(S)
    BY <1>1, <1>2, <1>3, SubSeqProperties
  <1>6. QED
    BY <1>4, <1>5, ConcatProperties DEF RemoveAt

-----------------------------------------------------------------------------
(* The inductive invariant. *)

IInv ==
  /\ TypeOK
  /\ GoodKMs(KL_km)
  /\ GoodPhys(KL_phys_mods)

LEMMA KMInitsGood == GoodKMs([m \in Modifiers |-> KM_init])
  <1>1. GoodKM(KM_init) /\ ~KM_init.locked /\ KM_init.latch = NoKey
    BY InitGood DEF KM_init
  <1>2. KM_init \in KMs(Codes, {"LSHIFT"})
    BY <1>1 DEF GoodKM
  <1>3. QED
    BY <1>1, <1>2 DEF GoodKMs

LEMMA IInvInit == Init => IInv
  <1> SUFFICES ASSUME Init PROVE IInv
    OBVIOUS
  <1>1. GoodKMs(KL_km)
    BY KMInitsGood DEF Init
  <1>2. GoodPhys(KL_phys_mods)
    BY InitialModsType DEF Init, GoodPhys
  <1>3. 0 \in 0 .. MaxUnhandled
    BY HookAssumption DEF HookAssumption
  <1>4. TypeOK
    BY <1>1, <1>2, <1>3, RootIsPivot, EmptySeq DEF Init, TypeOK, GoodKMs, GoodKM, GoodPhys
  <1>5. QED
    BY <1>1, <1>2, <1>4 DEF IInv

LEMMA IInvKeyEvent ==
  ASSUME IInv, NEW k \in Board, NEW down \in BOOLEAN, KeyEvent(k, down),
         held' \in Seq(Board), last' \in Board \cup {NoKey}
  PROVE  IInv'
  <1>1. GoodKMs(KL_km') /\ GoodPhys(KL_phys_mods')
    BY KeyEventGood DEF IInv
  <1>2. DkStep
    BY KeyEventDk DEF IInv, TypeOK
  <1>3. KL_phys' \in [Codes -> BOOLEAN] /\ KL_received' \in BOOLEAN
    BY KeyEventRest DEF IInv, TypeOK
  <1>4. /\ KL_active' \in BOOLEAN /\ window' \in Windows
        /\ unhandled' \in 0 .. MaxUnhandled
    BY DEF IInv, TypeOK, KeyEvent, windowVars
  <1>5. TypeOK'
    BY <1>1, <1>2, <1>3, <1>4
       DEF TypeOK, GoodKMs, GoodKM, GoodPhys, DkStep, DK_is_pivotNode, PivotNodes, DK_node
  <1>6. QED
    BY <1>1, <1>5 DEF IInv, GoodKMs, GoodPhys, GoodKM

LEMMA IInvNext == IInv /\ [Next]_vars => IInv'
  <1> SUFFICES ASSUME IInv, [Next]_vars PROVE IInv'
    OBVIOUS
  <1>0. held \in Seq(Board) /\ last \in Board \cup {NoKey}
    BY DEF IInv, TypeOK
  <1>1. ASSUME NEW k \in Board, PressKey(k) PROVE IInv'
    <2>1. held' \in Seq(Board) /\ last' \in Board \cup {NoKey}
      BY <1>0, <1>1, AppendFacts DEF PressKey
    <2>2. QED
      BY <1>1, <2>1, IInvKeyEvent DEF PressKey
  <1>2. CASE RepeatKey
    BY <1>0, <1>2, IInvKeyEvent DEF RepeatKey, userVars
  <1>3. ASSUME NEW k \in Board, ReleaseKey(k) PROVE IInv'
    <2>1. held' \in Seq(Board) /\ last' \in Board \cup {NoKey}
      BY <1>0, <1>3, RemoveAtType DEF ReleaseKey
    <2>2. QED
      BY <1>3, <2>1, IInvKeyEvent DEF ReleaseKey
  <1>4. ASSUME NEW w \in Windows, SwitchWindow(w) PROVE IInv'
    <2>1. unhandled' \in 0 .. MaxUnhandled
      BY <1>4, HookAssumption DEF SwitchWindow, IInv, TypeOK, HookAssumption
    <2>2. /\ KL_phys' = KL_phys /\ KL_phys_mods' = KL_phys_mods /\ KL_km' = KL_km
          /\ KL_active' = KL_active /\ KL_received' = KL_received /\ window' = w
          /\ KL_dk_in_effect' = KL_dk_in_effect /\ DK_cur_node' = DK_cur_node
          /\ held' = held /\ last' = last
      BY <1>4 DEF SwitchWindow, DkUnchanged, userVars
    <2>3. QED
      BY <2>1, <2>2
         DEF IInv, TypeOK, GoodKMs, GoodPhys, GoodKM, DK_is_pivotNode, PivotNodes, DK_node
  <1>5. CASE TaskSwitch
    <2>1. GoodKMs(KL_km')
      <3>1. GoodKMs([m \in Modifiers |-> KM_init])
        BY KMInitsGood
      <3>2. QED
        BY <1>5, <3>1 DEF TaskSwitch, IInv
    <2>2. KL_phys' \in [Codes -> BOOLEAN] /\ unhandled' \in 0 .. MaxUnhandled
      <3>1. KL_phys' \in [Codes -> BOOLEAN]
        BY <1>5 DEF TaskSwitch, IInv, TypeOK
      <3>2. unhandled' \in 0 .. MaxUnhandled
        <4>1. /\ unhandled \in 0 .. MaxUnhandled /\ unhandled > 0
              /\ unhandled' = unhandled - 1
          BY <1>5 DEF TaskSwitch, IInv, TypeOK
        <4>2. MaxUnhandled \in Nat
          BY HookAssumption DEF HookAssumption
        <4>3. QED
          BY <4>1, <4>2
      <3>3. QED
        BY <3>1, <3>2
    <2>3. /\ KL_phys_mods' = KL_phys_mods /\ KL_active' = KL_active
          /\ window' = window /\ KL_received' = FALSE
          /\ KL_dk_in_effect' = KL_dk_in_effect /\ DK_cur_node' = DK_cur_node
          /\ held' = held /\ last' = last
      BY <1>5 DEF TaskSwitch, DkUnchanged, userVars
    <2>4. TypeOK'
      BY <2>1, <2>2, <2>3 DEF TypeOK, IInv, GoodKMs, GoodKM, DK_is_pivotNode, PivotNodes, DK_node
    <2>5. QED
      BY <2>1, <2>3, <2>4 DEF IInv, GoodKMs, GoodPhys, GoodKM
  <1>6. CASE Toggle
    BY <1>6 DEF Toggle, DkUnchanged, userVars, windowVars, IInv, TypeOK, GoodKMs, GoodPhys, GoodKM
  <1>7. CASE UNCHANGED vars
    BY <1>7 DEF vars, hookVars, dkVars, userVars, windowVars, IInv, TypeOK, GoodKMs, GoodPhys, GoodKM
  <1>8. QED
    BY <1>1, <1>2, <1>3, <1>4, <1>5, <1>6, <1>7 DEF Next

\* Type correctness.
THEOREM TypeCorrect == Spec => []TypeOK
  <1>1. IInv => TypeOK
    BY DEF IInv
  <1>2. QED
    BY <1>1, IInvInit, IInvNext, PTL DEF Spec

\* A modifier is in effect exactly when there is a reason for it.
THEOREM TrackersCoherent == Spec => []Coherent
  <1>1. IInv => Coherent
    BY DEF IInv, GoodKMs, GoodKM, Coherent
  <1>2. QED
    BY <1>1, IInvInit, IInvNext, PTL DEF Spec

\* A key is a modifier exactly if KL_init found it to be one.
THEOREM PhysModsStay == Spec => []ModifiersStay
  <1>1. IInv => ModifiersStay
    BY DEF IInv, GoodPhys, ModifiersStay
  <1>2. QED
    BY <1>1, IInvInit, IInvNext, PTL DEF Spec

\* The character that a sequence sends ends it.
THEOREM SequenceEnds == Spec => SentEndsSequence
  <1> DEFINE Ends == KL_dk_in_effect /\ typed' # NoChar
                       => ~KL_dk_in_effect' /\ DK_cur_node' = DK_node
  <1>1. ASSUME IInv, Next PROVE Ends
    <2>1. KL_dk_in_effect \in BOOLEAN /\ DK_is_pivotNode(DK_cur_node)
      BY <1>1 DEF IInv, TypeOK
    <2>2. CASE \E k \in Board, down \in BOOLEAN : KeyEvent(k, down)
      BY <2>1, <2>2, KeyEventDk DEF DkStep
    <2>3. CASE DkUnchanged
      BY <2>1, <2>3, DkUnchangedGood DEF DkStep
    <2>4. \/ \E k \in Board, down \in BOOLEAN : KeyEvent(k, down)
          \/ DkUnchanged
      <3>1. last \in Board \cup {NoKey}
        BY <1>1 DEF IInv, TypeOK
      <3>2. QED
        BY <1>1, <3>1 DEF Next, PressKey, RepeatKey, ReleaseKey, SwitchWindow,
                           TaskSwitch, Toggle
    <2>5. QED
      BY <2>2, <2>3, <2>4
  <1>2. IInv /\ [Next]_vars => [Ends]_vars
    BY <1>1
  <1>3. QED
    BY <1>2, IInvInit, IInvNext, PTL DEF Spec, SentEndsSequence
=============================================================================
