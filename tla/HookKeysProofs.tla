---------------------------- MODULE HookKeysProofs ----------------------------
(***************************************************************************)
(* What Windows has down, and what the trackers say: on a home row board   *)
(* the modifier keys that are down for Windows are, after every event, the *)
(* ones the trackers call for, whatever is typed and however the level     *)
(* changes while keys are down.  On every board: a Compose sequence keeps  *)
(* its keys to itself.  And the trackers implement the modifier of km.c.   *)
(***************************************************************************)
EXTENDS HookProofs, HookModifier, FoldingProofs

-----------------------------------------------------------------------------
(* Sending a list of events. *)

After(base, events) == FoldLeft(Press, base, events)

\* f is what Windows has down after some of the events.
SendRun(f, base, events, N) ==
  \A s \in SUBSET (1 .. N) :
    f[s] = IF s = {} THEN base ELSE Press(f[s \ {Max(s)}], events[Max(s)])

LEMMA AfterIs ==
  ASSUME NEW base, NEW events
  PROVE  After(base, events) =
           (CHOOSE iter : iter = [s \in SUBSET DOMAIN events |->
              IF s = {} THEN base
              ELSE Press(iter[s \ {Max(s)}], events[Max(s)])])[DOMAIN events]
BY DEF After, FoldLeft, MapThenFoldSet

LEMMA SendRunOnce ==
  ASSUME NEW N \in Nat, NEW base, NEW events, NEW f, NEW h,
         SendRun(f, base, events, N), SendRun(h, base, events, N)
  PROVE  f[1 .. N] = h[1 .. N]
<1> DEFINE P == {n \in 0 .. N : \A s \in SUBSET (1 .. n) : h[s] = f[s]}
<1>1. 0 \in P
  <2>1. \A s \in SUBSET (1 .. 0) : s = {}
    OBVIOUS
  <2>2. {} \in SUBSET (1 .. N)
    OBVIOUS
  <2>3. h[{}] = f[{}]
    BY <2>2 DEF SendRun
  <2>4. \A s \in SUBSET (1 .. 0) : h[s] = f[s]
    BY <2>1, <2>3
  <2>5. 0 \in 0 .. N
    OBVIOUS
  <2> QED
    BY <2>4, <2>5
<1>2. ASSUME NEW n \in 0 .. N - 1, n \in P PROVE n + 1 \in P
  <2>1. ASSUME NEW s \in SUBSET (1 .. n + 1) PROVE h[s] = f[s]
    <3>1. s \in SUBSET (1 .. N)
      OBVIOUS
    <3>2. CASE s = {}
      BY <3>1, <3>2 DEF SendRun
    <3>3. CASE s # {}
      <4> DEFINE m == Max(s)
      <4>1. m \in s /\ \A y \in s : y <= m
        BY <3>1, <3>3, MaxProperties
      <4>2. /\ h[s] = Press(h[s \ {m}], events[m])
            /\ f[s] = Press(f[s \ {m}], events[m])
        BY <3>1, <3>3 DEF SendRun
      <4> HIDE DEF m
      <4>3. s \ {m} \in SUBSET (1 .. n)
        BY <4>1
      <4>4. h[s \ {m}] = f[s \ {m}]
        BY <1>2, <4>3
      <4> QED
        BY <4>2, <4>4
    <3> QED
      BY <3>2, <3>3
  <2>2. n + 1 \in 0 .. N
    OBVIOUS
  <2> QED
    BY <2>1, <2>2
<1>3. N \in 0 .. N
  OBVIOUS
<1> HIDE DEF P
<1>4. N \in P
  BY <1>1, <1>2, <1>3, UpTo
<1> QED
  BY <1>4 DEF P

\* What Windows has down after each event.
SendTrace(f, base, events, N) ==
  /\ After(base, events) = f[1 .. N]
  /\ f[1 .. 0] = base
  /\ \A i \in 1 .. N : f[1 .. i] = Press(f[1 .. i - 1], events[i])

LEMMA EventByEvent ==
  ASSUME NEW base, NEW N \in Nat, NEW events, DOMAIN events = 1 .. N
  PROVE  \E f : SendTrace(f, base, events, N)
<1> DEFINE A == SUBSET (base \cup {events[i].vk : i \in 1 .. N})
           D == DOMAIN events
           g == [x \in A \X D |-> Press(x[1], events[x[2]])]
<1> HIDE DEF D
<1>0. D = 1 .. N
  BY DEF D
<1>1. base \in A
  OBVIOUS
<1>2. ASSUME NEW acc \in A, NEW i \in D PROVE Press(acc, events[i]) \in A
  BY <1>0 DEF Press
<1>3. g \in [A \X D -> A] /\ \A acc \in A, i \in D : g[<<acc, i>>] = Press(acc, events[i])
  BY <1>2
<1> HIDE DEF A, g
<1>4. PICK f \in [SUBSET D -> A] : IsFold(f, base, g, N)
  BY <1>0, <1>1, <1>3, FoldExists
<1>5. ASSUME NEW s \in SUBSET D, s # {}
      PROVE  /\ Max(s) \in D /\ s \ {Max(s)} \in SUBSET D
             /\ f[s] = Press(f[s \ {Max(s)}], events[Max(s)])
  <2>1. Max(s) \in s
    BY <1>0, <1>5, MaxProperties
  <2> QED
    BY <1>0, <1>3, <1>4, <1>5, <2>1 DEF IsFold
<1>6. f[{}] = base
  BY <1>4 DEF IsFold
<1> DEFINE F(iter) == [s \in SUBSET D |->
                         IF s = {} THEN base ELSE Press(iter[s \ {Max(s)}], events[Max(s)])]
<1>7. f = F(f)
  <2>1. \A s \in SUBSET D : f[s] = F(f)[s]
    BY <1>5, <1>6
  <2> QED
    BY <1>4, <2>1
<1>8. ASSUME NEW h, h = F(h) PROVE h[D] = f[D]
  <2>1. \A s \in SUBSET D :
          h[s] = IF s = {} THEN base ELSE Press(h[s \ {Max(s)}], events[Max(s)])
    BY <1>8
  <2>2. SendRun(h, base, events, N)
    BY <1>0, <2>1 DEF SendRun
  <2>3. SendRun(f, base, events, N)
    BY <1>0, <1>5, <1>6 DEF SendRun
  <2> QED
    BY <1>0, <2>2, <2>3, SendRunOnce
<1>9. After(base, events) = f[D]
  <2>1. After(base, events) = (CHOOSE iter : iter = F(iter))[D]
    BY AfterIs DEF D
  <2> HIDE DEF F
  <2>2. (CHOOSE iter : iter = F(iter)) = F(CHOOSE iter : iter = F(iter))
    BY <1>7
  <2> QED
    BY <1>8, <2>1, <2>2
<1>10. ASSUME NEW i \in 1 .. N PROVE f[1 .. i] = Press(f[1 .. i - 1], events[i])
  <2>1. Max(1 .. i) = i /\ (1 .. i) \ {i} = 1 .. i - 1
    BY MaxOfFirst
  <2>2. (1 .. i) \in SUBSET D /\ 1 .. i # {}
    BY <1>0
  <2>3. f[1 .. i] = Press(f[(1 .. i) \ {Max(1 .. i)}], events[Max(1 .. i)])
    BY <1>5, <2>2
  <2> QED
    BY <2>1, <2>3
<1>11. f[1 .. 0] = base
  <2>1. 1 .. 0 = {}
    OBVIOUS
  <2> QED
    BY <1>6, <2>1
<1> QED
  BY <1>0, <1>9, <1>10, <1>11 DEF SendTrace

\* A key that all its events leave in the same state is in that state.
LEMMA AllAlike ==
  ASSUME NEW base, NEW N \in Nat, NEW events, DOMAIN events = 1 .. N,
         NEW vk, NEW d \in BOOLEAN,
         \A i \in 1 .. N : events[i].vk = vk => (events[i].down <=> d),
         (\A i \in 1 .. N : events[i].vk # vk) => (vk \in base <=> d)
  PROVE  vk \in After(base, events) <=> d
<1>1. PICK f : SendTrace(f, base, events, N)
  BY EventByEvent
<1> DEFINE In(n) == IF \E i \in 1 .. n : events[i].vk = vk THEN d ELSE vk \in base
           P == {n \in 0 .. N : vk \in f[1 .. n] <=> In(n)}
<1>2. 0 \in P
  <2>1. ~\E i \in 1 .. 0 : events[i].vk = vk
    OBVIOUS
  <2>2. 0 \in 0 .. N
    OBVIOUS
  <2> QED
    BY <1>1, <2>1, <2>2 DEF SendTrace
<1>3. ASSUME NEW n \in 0 .. N - 1, n \in P PROVE n + 1 \in P
  <2>1. n + 1 \in 1 .. N /\ n + 1 \in 0 .. N /\ (n + 1) - 1 = n
    OBVIOUS
  <2>2. f[1 .. n + 1] = Press(f[1 .. n], events[n + 1])
    BY <1>1, <2>1 DEF SendTrace
  <2>3. \A i : i \in 1 .. n + 1 <=> i \in 1 .. n \/ i = n + 1
    OBVIOUS
  <2>4. CASE events[n + 1].vk = vk
    <3>1. vk \in f[1 .. n + 1] <=> d
      BY <2>1, <2>2, <2>4 DEF Press
    <3>2. \E i \in 1 .. n + 1 : events[i].vk = vk
      BY <2>3, <2>4
    <3> QED
      BY <2>1, <3>1, <3>2
  <2>5. CASE events[n + 1].vk # vk
    <3>1. vk \in f[1 .. n + 1] <=> vk \in f[1 .. n]
      BY <2>2, <2>5 DEF Press
    <3>2. (\E i \in 1 .. n + 1 : events[i].vk = vk) <=> \E i \in 1 .. n : events[i].vk = vk
      BY <2>3, <2>5
    <3> QED
      BY <1>3, <2>1, <3>1, <3>2
  <2> QED
    BY <2>4, <2>5
<1>4. N \in 0 .. N
  OBVIOUS
<1> HIDE DEF P
<1>5. N \in P
  BY <1>2, <1>3, <1>4, UpTo
<1>6. vk \in f[1 .. N] <=> In(N)
  BY <1>5 DEF P
<1> QED
  BY <1>1, <1>6 DEF SendTrace

LEMMA AfterNothing ==
  ASSUME NEW base
  PROVE  After(base, <<>>) = base
<1>1. 0 \in Nat /\ DOMAIN <<>> = 1 .. 0
  OBVIOUS
<1>2. PICK f : SendTrace(f, base, <<>>, 0)
  BY <1>1, EventByEvent
<1> QED
  BY <1>2 DEF SendTrace

LEMMA AfterBoth ==
  ASSUME NEW base, NEW S, NEW s \in Seq(S), NEW t \in Seq(S)
  PROVE  After(base, s \o t) = After(After(base, s), t)
<1> DEFINE N == Len(s)
           M == Len(t)
           st == s \o t
           mid == After(base, s)
<1>1. N \in Nat /\ M \in Nat /\ DOMAIN s = 1 .. N /\ DOMAIN t = 1 .. M
  OBVIOUS
<1>2. /\ DOMAIN st = 1 .. N + M
      /\ \A i \in 1 .. N : st[i] = s[i]
      /\ \A i \in 1 .. M : st[N + i] = t[i]
  BY ConcatProperties
<1>3. N + M \in Nat
  BY <1>1
<1> HIDE DEF st, N, M
<1>4. PICK f : SendTrace(f, base, st, N + M)
  BY <1>2, <1>3, EventByEvent
<1>5. PICK g : SendTrace(g, base, s, N)
  BY <1>1, EventByEvent
<1>6. PICK h : SendTrace(h, mid, t, M)
  BY <1>1, EventByEvent
<1>7. f[1 .. N] = mid
  <2> DEFINE P == {n \in 0 .. N : f[1 .. n] = g[1 .. n]}
  <2>1. 0 \in P
    <3>1. 0 \in 0 .. N
      BY <1>1
    <3> QED
      BY <1>4, <1>5, <3>1 DEF SendTrace
  <2>2. ASSUME NEW n \in 0 .. N - 1, n \in P PROVE n + 1 \in P
    <3>1. /\ n + 1 \in 1 .. N /\ n + 1 \in 0 .. N /\ (n + 1) - 1 = n
          /\ n + 1 \in 1 .. N + M
      BY <1>1
    <3>2. f[1 .. n + 1] = Press(f[1 .. n], st[n + 1])
      BY <1>4, <3>1 DEF SendTrace
    <3>3. g[1 .. n + 1] = Press(g[1 .. n], s[n + 1])
      BY <1>5, <3>1 DEF SendTrace
    <3>4. f[1 .. n] = g[1 .. n] /\ st[n + 1] = s[n + 1]
      BY <1>2, <2>2, <3>1
    <3> QED
      BY <3>1, <3>2, <3>3, <3>4
  <2>3. N \in 0 .. N
    BY <1>1
  <2> HIDE DEF P
  <2>4. N \in P
    BY <1>1, <2>1, <2>2, <2>3, UpTo
  <2> QED
    BY <1>5, <2>4 DEF P, SendTrace
<1> HIDE DEF mid
<1>8. f[1 .. N + M] = h[1 .. M]
  <2> DEFINE P == {n \in 0 .. M : f[1 .. N + n] = h[1 .. n]}
  <2>1. 0 \in P
    <3>1. 0 \in 0 .. M /\ N + 0 = N
      BY <1>1
    <3> QED
      BY <1>6, <1>7, <3>1 DEF SendTrace
  <2>2. ASSUME NEW n \in 0 .. M - 1, n \in P PROVE n + 1 \in P
    <3>1. /\ n + 1 \in 1 .. M /\ n + 1 \in 0 .. M /\ (n + 1) - 1 = n
          /\ N + (n + 1) \in 1 .. N + M /\ (N + (n + 1)) - 1 = N + n
      BY <1>1
    <3>2. f[1 .. N + (n + 1)] = Press(f[1 .. N + n], st[N + (n + 1)])
      BY <1>4, <3>1 DEF SendTrace
    <3>3. h[1 .. n + 1] = Press(h[1 .. n], t[n + 1])
      BY <1>6, <3>1 DEF SendTrace
    <3>4. f[1 .. N + n] = h[1 .. n] /\ st[N + (n + 1)] = t[n + 1]
      BY <1>2, <2>2, <3>1
    <3> QED
      BY <3>1, <3>2, <3>3, <3>4
  <2>3. M \in 0 .. M
    BY <1>1
  <2> HIDE DEF P
  <2>4. M \in P
    BY <1>1, <2>1, <2>2, <2>3, UpTo
  <2> QED
    BY <2>4 DEF P
<1> QED
  BY <1>4, <1>6, <1>8 DEF SendTrace, st, mid

LEMMA AfterOne ==
  ASSUME NEW base, NEW e
  PROVE  After(base, <<e>>) = Press(base, e)
<1>1. 1 \in Nat /\ DOMAIN <<e>> = 1 .. 1 /\ <<e>>[1] = e /\ 1 \in 1 .. 1 /\ 1 - 1 = 0
  OBVIOUS
<1>2. PICK f : SendTrace(f, base, <<e>>, 1)
  BY <1>1, EventByEvent
<1>3. f[1 .. 1] = Press(f[1 .. 0], e)
  BY <1>1, <1>2 DEF SendTrace
<1> QED
  BY <1>2, <1>3 DEF SendTrace

LEMMA AfterAppended ==
  ASSUME NEW base, NEW S, NEW s \in Seq(S), NEW e \in S
  PROVE  After(base, Append(s, e)) = Press(After(base, s), e)
<1>1. Append(s, e) = s \o <<e>> /\ <<e>> \in Seq(S)
  OBVIOUS
<1>2. After(base, s \o <<e>>) = After(After(base, s), <<e>>)
  <2>1. \A t \in Seq(S) : After(base, s \o t) = After(After(base, s), t)
    BY AfterBoth
  <2> QED
    BY <1>1, <2>1, Zenon
<1>3. After(After(base, s), <<e>>) = Press(After(base, s), e)
  BY AfterOne
<1> QED
  BY <1>1, <1>2, <1>3

-----------------------------------------------------------------------------
(* The keys that are down for Windows, as the trackers call for. *)

LEMMA ModVksIs ==
  ModVks = {"LSHIFT", "RSHIFT", "LCONTROL", "RCONTROL", "LMENU", "RMENU", "LWIN", "RWIN"}
BY DEF ModVks, VksOf

\* The modifier keys the trackers call for.
DrivenBy(kms) ==
  (IF kms["shift"].in_effect THEN {"LSHIFT"} ELSE {})
  \cup (IF kms["control"].in_effect THEN {"LCONTROL"} ELSE {})

Matches(set, kms) == \A vk \in ModVks : vk \in set <=> vk \in DrivenBy(kms)

\* The trackers of a home row board: shift and level3 are latched only, and
\* level3 fakes no key for it; control and level5 are never locked; alt and win
\* are never in effect.
HomeKMs(kms) ==
  /\ GoodKMs(kms)
  /\ \A m \in Modifiers \ {"control", "l5"} : kms[m].shifts = <<>>
  /\ \A m \in Modifiers : ~kms[m].locked
  /\ kms["shift"].in_effect => kms["shift"].latch_faked = "LSHIFT"
  /\ kms["l3"].latch_faked = NoVk

LEMMA AltWinOff ==
  ASSUME NEW kms, HomeKMs(kms), NEW m \in {"alt", "win"}
  PROVE  ~kms[m].in_effect
<1>1. m \in Modifiers \ {"control", "l5"} /\ m \in Modifiers /\ m \notin Latching
  BY DEF Modifiers, Latching
<1>2. /\ kms[m].in_effect = Reason(kms[m]) /\ kms[m].latch = NoKey
      /\ ~kms[m].locked /\ kms[m].shifts = <<>>
  BY <1>1 DEF HomeKMs, GoodKMs, GoodKM
<1> QED
  BY <1>2 DEF Reason

\* An event of a key that is no modifier leaves the modifiers alone.
LEMMA OtherKeySent ==
  ASSUME NEW kms, NEW base, NEW sent, NEW S, sent \in Seq(S), NEW vk, NEW down,
         Event(vk, down) \in S, Matches(After(base, sent), kms), vk \notin ModVks
  PROVE  Matches(After(base, Append(sent, Event(vk, down))), kms)
<1>1. After(base, Append(sent, Event(vk, down))) = Press(After(base, sent), Event(vk, down))
  BY AfterAppended
<1> QED
  BY <1>1 DEF Matches, Press, Event

-----------------------------------------------------------------------------
(* The events that the trackers of shift and level3 send. *)

\* Events sent that bring Windows from what a shift tracker called for to what
\* it calls for now.
LSHIFTs == {Event("LSHIFT", TRUE), Event("LSHIFT", FALSE)}

ShiftFollowed(old, new, sent) ==
  /\ new.shifts = <<>>
  /\ new.in_effect => new.latch_faked = "LSHIFT"
  /\ \/ sent = <<>> /\ new.in_effect = old.in_effect
     \/ \E down \in BOOLEAN : sent = <<Event("LSHIFT", down)>> /\ new.in_effect = down

LEMMA ReleaseFollowed ==
  ASSUME NEW km, km \in KMs(Codes, {"LSHIFT"}), km.shifts = <<>>, NEW old,
         IF km.latch_releases = 0 THEN old.in_effect = TRUE /\ km.latch_faked = "LSHIFT"
         ELSE old.in_effect \in BOOLEAN /\ (old.in_effect => km.latch_faked = "LSHIFT")
  PROVE  ShiftFollowed(old, l_release(km).km, l_release(km).sent)
<1>1. km.latch_faked \in {"LSHIFT", NoVk}
  BY DEF KMs
<1>2. CASE km.latch_releases = 0
  <2> DEFINE new == [km EXCEPT !.in_effect = TRUE]
  <2>1. l_release(km) = Silent(new)
    BY <1>2 DEF l_release
  <2>2. new.shifts = <<>> /\ new.in_effect = TRUE /\ new.latch_faked = "LSHIFT"
    BY <1>2 DEF KMs
  <2>3. l_release(km).km = new /\ l_release(km).sent = <<>> /\ old.in_effect = TRUE
    BY <1>2, <2>1 DEF Silent
  <2> HIDE DEF new
  <2> QED
    BY <2>2, <2>3 DEF ShiftFollowed
<1>3. CASE km.latch_releases # 0 /\ km.latch_faked = NoVk
  <2> DEFINE new == [km EXCEPT !.in_effect = FALSE]
  <2>1. l_release(km) = Silent(new)
    BY <1>3 DEF l_release
  <2>2. new.shifts = <<>> /\ new.in_effect = FALSE
    BY <1>3 DEF KMs
  <2>3. old.in_effect = FALSE
    BY <1>3 DEF NoVk
  <2>4. l_release(km).km = new /\ l_release(km).sent = <<>>
    BY <2>1 DEF Silent
  <2> HIDE DEF new
  <2> QED
    BY <2>2, <2>3, <2>4 DEF ShiftFollowed
<1>4. CASE km.latch_releases # 0 /\ km.latch_faked = "LSHIFT"
  <2> DEFINE new == [km EXCEPT !.in_effect = FALSE, !.latch_faked = NoVk]
  <2>1. l_release(km) = [km |-> new, sent |-> <<KeyUp("LSHIFT")>>]
    BY <1>4 DEF l_release, NoVk
  <2>2. new.shifts = <<>> /\ new.in_effect = FALSE
    BY <1>4 DEF KMs
  <2>3. KeyUp("LSHIFT") = Event("LSHIFT", FALSE)
    BY DEF KeyUp, Event
  <2> HIDE DEF new
  <2> DEFINE r == l_release(km)
  <2>4. r.km = new /\ r.sent = <<KeyUp("LSHIFT")>>
    BY <2>1
  <2> HIDE DEF r
  <2>5. \E down \in BOOLEAN : r.sent = <<Event("LSHIFT", down)>> /\ r.km.in_effect = down
    BY <2>2, <2>3, <2>4
  <2>6. r.km.shifts = <<>> /\ ~r.km.in_effect
    BY <2>2, <2>4
  <2>7. ShiftFollowed(old, r.km, r.sent)
    BY <2>5, <2>6, Zenon DEF ShiftFollowed
  <2> QED
    BY <2>7 DEF r
<1> QED
  BY <1>1, <1>2, <1>3, <1>4

LEMMA NonmodFollowed ==
  ASSUME NEW km, GoodKM(km), ~km.locked, km.shifts = <<>>,
         km.in_effect => km.latch_faked = "LSHIFT", NEW down \in BOOLEAN, NEW sc \in Codes
  PROVE  ShiftFollowed(km, KM_nonmod_event(km, down, sc).km,
                       KM_nonmod_event(km, down, sc).sent)
<1>0. /\ km \in KMs(Codes, {"LSHIFT"}) /\ km.in_effect = Reason(km)
      /\ km.in_effect \in BOOLEAN /\ NoKey # sc
  BY CodeNotNone DEF GoodKM, KMs
<1>1. CASE km.latch = NoKey \/ down
  BY <1>1 DEF KM_nonmod_event, Silent, ShiftFollowed
<1>2. CASE km.latch # NoKey /\ ~down /\ km.latch_released
  <2> DEFINE new == [km EXCEPT !.latch = NoKey, !.latch_releases = 1]
  <2>1. new \in KMs(Codes, {"LSHIFT"})
    BY <1>0, Counts DEF KMs
  <2>2. /\ new.shifts = <<>> /\ new.latch_faked = km.latch_faked
        /\ new.latch_releases = 1 /\ 1 # 0
    BY <1>0 DEF KMs
  <2>3. KM_nonmod_event(km, down, sc) = l_release(new)
    BY <1>2 DEF KM_nonmod_event
  <2> HIDE DEF new
  <2> QED
    BY <1>0, <2>1, <2>2, <2>3, ReleaseFollowed
<1>3. CASE km.latch # NoKey /\ ~down /\ ~km.latch_released /\ km.latch = sc
  <2> DEFINE new == [km EXCEPT !.latch_released = TRUE]
  <2>1. new \in KMs(Codes, {"LSHIFT"})
    BY <1>0 DEF KMs
  <2>2. new.shifts = <<>> /\ new.latch_faked = km.latch_faked
    BY <1>0 DEF KMs
  <2>3. KM_nonmod_event(km, down, sc) = l_release(new)
    BY <1>3 DEF KM_nonmod_event
  <2>4. km.in_effect = TRUE
    BY <1>0, <1>3 DEF Reason
  <2> HIDE DEF new
  <2> QED
    BY <1>0, <2>1, <2>2, <2>3, <2>4, ReleaseFollowed
<1>4. CASE km.latch # NoKey /\ ~down /\ ~km.latch_released /\ km.latch # sc
  <2> DEFINE new == [km EXCEPT !.latch_releases = (@ + 1) % ReleasesMod]
  <2>1. KM_nonmod_event(km, down, sc) = Silent(new)
    BY <1>4 DEF KM_nonmod_event
  <2>2. /\ new.shifts = <<>> /\ new.latch_faked = km.latch_faked
        /\ new.in_effect = km.in_effect
    BY <1>0 DEF KMs
  <2> HIDE DEF new
  <2> QED
    BY <2>1, <2>2 DEF Silent, ShiftFollowed
<1> QED
  BY <1>1, <1>2, <1>3, <1>4

LEMMA LatchFollowed ==
  ASSUME NEW km, GoodKM(km), ~km.locked, km.shifts = <<>>,
         NEW down \in BOOLEAN, NEW sc \in Codes
  PROVE  LET new == KM_latch_event([km EXCEPT !.latch_faked = "LSHIFT"], down, sc)
         IN  ShiftFollowed(km, new.km, new.sent)
<1> DEFINE faked == [km EXCEPT !.latch_faked = "LSHIFT"]
           km1 == [faked EXCEPT !.locked = FALSE]
           l == Latched(km1, down, sc)
           on == l.km.latch # NoKey \/ l.km.shifts # <<>>
           new == KM_latch_event(faked, down, sc)
<1>0. /\ km \in KMs(Codes, {"LSHIFT"}) /\ km.in_effect = Reason(km)
      /\ km.in_effect \in BOOLEAN /\ NoKey # sc /\ "LSHIFT" # NoVk
  BY CodeNotNone DEF GoodKM, KMs, NoVk
<1>1. /\ km1.locked = FALSE /\ km1.latch_faked = "LSHIFT" /\ km1.latch = km.latch
      /\ km1.latch_released = km.latch_released /\ km1.shifts = <<>>
      /\ km1.latch_releases = km.latch_releases
      /\ km1 \in KMs(Codes, {"LSHIFT"})
  BY <1>0 DEF KMs
<1>2. l.km \in KMs(Codes, {"LSHIFT"}) /\ l.km.shifts = <<>>
  BY <1>1, LatchedFacts
<1>3. /\ new.sent = l.sent /\ new.km.shifts = <<>> /\ new.km.in_effect = on
      /\ new.km.latch_faked = l.km.latch_faked
  <2>1. new = [l EXCEPT !.km.in_effect = on]
    BY DEF KM_latch_event
  <2>2. DOMAIN l = {"km", "sent"}
    BY DEF Latched, Silent
  <2> HIDE DEF l, new, on
  <2>3. new.sent = l.sent /\ new.km = [l.km EXCEPT !.in_effect = on]
    BY <2>1, <2>2
  <2> QED
    BY <1>2, <2>3 DEF KMs
<1> HIDE DEF km1, new
<1>4. ASSUME down /\ (km.latch = NoKey \/ km.latch_released)
      PROVE  ShiftFollowed(km, new.km, new.sent)
  <2> DEFINE rec == [km1 EXCEPT !.latch = sc, !.latch_released = FALSE, !.latch_releases = 0]
  <2>1. l = [km |-> rec, sent |-> <<KeyDown("LSHIFT")>>]
    BY <1>0, <1>1, <1>4 DEF Latched
  <2>2. rec.latch = sc /\ rec.latch_faked = "LSHIFT"
    BY <1>1 DEF KMs
  <2>0. KeyDown("LSHIFT") = Event("LSHIFT", TRUE)
    BY DEF KeyDown, Event
  <2> HIDE DEF l, rec
  <2>3. l.km = rec /\ l.sent = <<Event("LSHIFT", TRUE)>>
    BY <2>1, <2>0
  <2>4. on = TRUE
    BY <1>0, <2>2, <2>3
  <2>5. \E d \in BOOLEAN : new.sent = <<Event("LSHIFT", d)>> /\ new.km.in_effect = d
    BY <1>3, <2>3, <2>4
  <2> QED
    BY <1>3, <2>2, <2>3, <2>5 DEF ShiftFollowed
<1>5. ASSUME \/ down /\ ~(km.latch = NoKey \/ km.latch_released)
             \/ ~down /\ km.latch_releases = 0
      PROVE  ShiftFollowed(km, new.km, new.sent)
  <2>1. /\ l.sent = <<>> /\ l.km.latch = km.latch /\ l.km.latch_faked = "LSHIFT"
        /\ l.km.shifts = <<>>
    <3>1. CASE down
      BY <1>1, <1>5, <3>1 DEF Latched, Silent
    <3>2. CASE ~down
      <4> DEFINE rec == [km1 EXCEPT !.latch_released = TRUE]
      <4>1. l = Silent(rec)
        BY <1>1, <1>5, <3>2 DEF Latched
      <4>2. rec.latch = km.latch /\ rec.latch_faked = "LSHIFT" /\ rec.shifts = <<>>
        BY <1>1 DEF KMs
      <4>3. l.km = rec /\ l.sent = <<>>
        BY <4>1 DEF Silent
      <4> HIDE DEF l, rec
      <4> QED
        BY <4>2, <4>3
    <3> QED
      BY <3>1, <3>2
  <2> HIDE DEF l
  <2>2. on = km.in_effect
    <3>1. km.in_effect <=> km.latch # NoKey
      BY <1>0, <1>5 DEF Reason
    <3>2. on <=> km.latch # NoKey
      BY <2>1
    <3> QED
      BY <1>0, <3>1, <3>2
  <2> HIDE DEF on
  <2> QED
    BY <1>3, <2>1, <2>2 DEF ShiftFollowed
<1>6. ASSUME ~down /\ km.latch_releases # 0
      PROVE  ShiftFollowed(km, new.km, new.sent)
  <2> DEFINE rec == [km1 EXCEPT !.latch_released = TRUE, !.latch = NoKey,
                                !.latch_faked = NoVk]
  <2>1. l = [km |-> rec, sent |-> <<KeyUp("LSHIFT")>>]
    BY <1>0, <1>1, <1>6 DEF Latched
  <2>2. rec.latch = NoKey /\ rec.shifts = <<>>
    BY <1>1 DEF KMs
  <2>0. KeyUp("LSHIFT") = Event("LSHIFT", FALSE)
    BY DEF KeyUp, Event
  <2> HIDE DEF l, rec
  <2>3. l.km = rec /\ l.sent = <<Event("LSHIFT", FALSE)>>
    BY <2>1, <2>0
  <2>4. on = FALSE
    BY <2>2, <2>3
  <2>5. \E d \in BOOLEAN : new.sent = <<Event("LSHIFT", d)>> /\ new.km.in_effect = d
    BY <1>3, <2>3, <2>4
  <2>6. ~new.km.in_effect
    BY <1>3, <2>4
  <2> QED
    BY <1>3, <2>5, <2>6, Zenon DEF ShiftFollowed
<1>7. ShiftFollowed(km, new.km, new.sent)
  BY <1>4, <1>5, <1>6
<1> QED
  BY <1>7 DEF new

\* Level3 fakes no key: it sends nothing.
Quiet(new) == new.km.shifts = <<>> /\ new.km.latch_faked = NoVk /\ new.sent = <<>>

LEMMA NonmodQuiet ==
  ASSUME NEW km, GoodKM(km), ~km.locked, km.shifts = <<>>, km.latch_faked = NoVk,
         NEW down \in BOOLEAN, NEW sc \in Codes
  PROVE  Quiet(KM_nonmod_event(km, down, sc))
BY DEF GoodKM, KMs, KM_nonmod_event, l_release, Silent, Quiet

LEMMA LatchQuiet ==
  ASSUME NEW km, GoodKM(km), ~km.locked, km.shifts = <<>>, km.latch_faked = NoVk,
         NEW down \in BOOLEAN, NEW sc \in Codes
  PROVE  Quiet(KM_latch_event(km, down, sc))
BY DEF GoodKM, KMs, KM_latch_event, Latched, Silent, Quiet

-----------------------------------------------------------------------------
(* A key of a home row board that is no shift key: the trackers of shift and *)
(* level3 see it.                                                            *)

\* The shift tracker changed, and what it sent made Windows follow.
LEMMA FollowedMatches ==
  ASSUME NEW old, NEW new, NEW base, NEW sent, Matches(base, old),
         new["control"].in_effect = old["control"].in_effect,
         ShiftFollowed(old["shift"], new["shift"], sent)
  PROVE  Matches(After(base, sent), new) /\ sent \in Seq(LSHIFTs)
<1>1. CASE sent = <<>> /\ new["shift"].in_effect = old["shift"].in_effect
  <2>1. After(base, sent) = base
    BY <1>1, AfterNothing
  <2>2. sent \in Seq(LSHIFTs)
    BY <1>1
  <2> QED
    BY <1>1, <2>1, <2>2 DEF Matches, DrivenBy
<1>2. CASE \E down \in BOOLEAN : /\ sent = <<Event("LSHIFT", down)>>
                               /\ new["shift"].in_effect = down
  <2>1. PICK down \in BOOLEAN : /\ sent = <<Event("LSHIFT", down)>>
                               /\ new["shift"].in_effect = down
    BY <1>2
  <2>2. After(base, sent) = Press(base, Event("LSHIFT", down))
    BY <2>1, AfterOne
  <2>3. Event("LSHIFT", down) \in LSHIFTs
    BY DEF LSHIFTs
  <2>4. sent \in Seq(LSHIFTs)
    BY <2>1, <2>3
  <2> QED
    BY <1>2, <2>1, <2>2, <2>4 DEF Matches, DrivenBy, Press, Event
<1> QED
  BY <1>1, <1>2 DEF ShiftFollowed

\* The trackers once the ones of shift and level3 have seen a key.
Seen(new, old, base, sent) ==
  /\ HomeKMs(new) /\ sent \in Seq(LSHIFTs) /\ Matches(After(base, sent), new)
  /\ new["control"] = old["control"] /\ new["l5"] = old["l5"]

LEMMA TrackersSee ==
  ASSUME NEW kms, HomeKMs(kms), NEW base, Matches(base, kms),
         NEW down \in BOOLEAN, NEW sc \in Codes
  PROVE  LET shift == KM_nonmod_event(kms["shift"], down, sc)
             l3 == KM_nonmod_event(kms["l3"], down, sc)
         IN  Seen([kms EXCEPT !["shift"] = shift.km, !["l3"] = l3.km], kms, base,
                  shift.sent \o l3.sent)
<1> DEFINE shift == KM_nonmod_event(kms["shift"], down, sc)
           l3 == KM_nonmod_event(kms["l3"], down, sc)
           one == [kms EXCEPT !["shift"] = shift.km]
           new == [one EXCEPT !["l3"] = l3.km]
           sent == shift.sent \o l3.sent
<1>1. /\ "shift" \in Modifiers \ {"control", "l5"} /\ "l3" \in Modifiers \ {"control", "l5"}
      /\ "shift" \in Latching /\ "l3" \in Latching
      /\ "shift" \in Modifiers /\ "l3" \in Modifiers
  BY ModifierNames
<1>2. /\ GoodKM(kms["shift"]) /\ ~kms["shift"].locked /\ kms["shift"].shifts = <<>>
      /\ kms["shift"].in_effect => kms["shift"].latch_faked = "LSHIFT"
      /\ GoodKM(kms["l3"]) /\ ~kms["l3"].locked /\ kms["l3"].shifts = <<>>
      /\ kms["l3"].latch_faked = NoVk
      /\ GoodKMs(kms)
  BY <1>1 DEF HomeKMs, GoodKMs
<1>3. ShiftFollowed(kms["shift"], shift.km, shift.sent)
  BY <1>2, NonmodFollowed
<1>4. Quiet(l3)
  BY <1>2, NonmodQuiet
<1>5. GoodKM(shift.km) /\ ~shift.km.locked /\ GoodKM(l3.km) /\ ~l3.km.locked
  BY <1>2, NonmodGood
<1> HIDE DEF shift, l3
<1>6. GoodKMs(one)
  BY <1>1, <1>2, <1>5, SetGood
<1> HIDE DEF one
<1>7. GoodKMs(new)
  BY <1>1, <1>5, <1>6, SetGood
<1>8. /\ new["shift"] = shift.km /\ new["l3"] = l3.km
      /\ \A m \in Modifiers \ {"shift", "l3"} : new[m] = kms[m]
  <2>1. DOMAIN kms = Modifiers /\ DOMAIN one = Modifiers
    BY <1>2, <1>6 DEF GoodKMs
  <2> QED
    BY <1>1, <2>1 DEF one
<1> HIDE DEF new
<1>9. HomeKMs(new)
  <2>1. \A m \in Modifiers \ {"control", "l5"} : new[m].shifts = <<>>
    BY <1>3, <1>4, <1>8 DEF HomeKMs, ShiftFollowed, Quiet
  <2>2. \A m \in Modifiers : ~new[m].locked
    BY <1>5, <1>8 DEF HomeKMs
  <2>3. /\ new["shift"].in_effect => new["shift"].latch_faked = "LSHIFT"
        /\ new["l3"].latch_faked = NoVk
    BY <1>3, <1>4, <1>8 DEF ShiftFollowed, Quiet
  <2> QED
    BY <1>7, <2>1, <2>2, <2>3 DEF HomeKMs
<1>10. new["control"] = kms["control"] /\ new["l5"] = kms["l5"]
  BY <1>8, ModifierNames
<1>11. ShiftFollowed(kms["shift"], new["shift"], shift.sent)
  BY <1>3, <1>8
<1>12. Matches(After(base, shift.sent), new) /\ shift.sent \in Seq(LSHIFTs)
  BY <1>10, <1>11, FollowedMatches
<1>13. sent = shift.sent
  BY <1>4, <1>12 DEF Quiet
<1>14. Seen(new, kms, base, sent)
  BY <1>9, <1>10, <1>12, <1>13 DEF Seen
<1>15. new = [kms EXCEPT !["shift"] = shift.km, !["l3"] = l3.km]
  BY DEF new, one
<1> QED
  BY <1>14, <1>15 DEF shift, l3

-----------------------------------------------------------------------------
(* The keys bound to control and to the level5 shift. *)

\* c is bound, at every level, to the key action that presses m.
IsKey(c, m) ==
  \/ m = "control" /\ AlwaysKA(c, "control")
  \/ m = "l5" /\ AlwaysKA(c, "l5_shift")

\* The tracker of m has its key in the array exactly while the key is down, as
\* the hook has seen it.
ByPhys(m, km, phys) ==
  /\ km.shifts # <<>> => \E c \in Codes : IsKey(c, m) /\ phys[c] /\ km.shifts = <<c>>
  /\ \A c \in Codes : IsKey(c, m) /\ phys[c] => km.shifts = <<c>>

Keyed == {"control", "l5"}

LEMMA KeyBinding ==
  ASSUME HomeRow, NEW c \in Bindable, NEW lv \in DOMAIN Kly, NEW m \in Keyed
  PROVE  /\ IsKey(c, m) => /\ Kly[lv][c].type = "ka"
                           /\ Kly[lv][c].binding = IF m = "control" THEN "control"
                                                   ELSE "l5_shift"
         /\ Kly[lv][c].type = "ka" /\ Kly[lv][c].binding = "control" => IsKey(c, "control")
         /\ Kly[lv][c].type = "ka" /\ Kly[lv][c].binding = "l5_shift" => IsKey(c, "l5")
<1>1. /\ Kly[lv][c].type = "ka" /\ Kly[lv][c].binding = "control" => AlwaysKA(c, "control")
      /\ Kly[lv][c].type = "ka" /\ Kly[lv][c].binding = "l5_shift" => AlwaysKA(c, "l5_shift")
  BY DEF HomeRow
<1>2. \A ka : AlwaysKA(c, ka) => Kly[lv][c].type = "ka" /\ Kly[lv][c].binding = ka
  BY DEF AlwaysKA, ToKA
<1> QED
  BY <1>1, <1>2 DEF IsKey, Keyed

LEMMA KeyIsBindable ==
  ASSUME NEW c, NEW m \in Keyed, IsKey(c, m)
  PROVE  c \in Bindable
BY DEF IsKey, AlwaysKA, Keyed

LEMMA OnlyKey ==
  ASSUME HomeRow, NEW c, NEW m \in Keyed, IsKey(c, m)
  PROVE  /\ \A d : IsKey(d, m) => d = c
         /\ \A k \in Board : Code(k) = c => k = c
<1>1. c \in Bindable /\ \A d : IsKey(d, m) => d \in Bindable
  BY KeyIsBindable
<1> QED
  BY <1>1 DEF HomeRow, IsKey, Keyed

\* What the array of a keyed tracker is after an event of the key sc.
KeyShifts(old, m, sc, down) ==
  IF IsKey(sc, m) THEN IF down THEN <<sc>> ELSE <<>> ELSE old[m].shifts

LEMMA ByPhysStep ==
  ASSUME HomeRow, NEW m \in Keyed, NEW km, NEW new, NEW sc \in Codes, NEW down \in BOOLEAN,
         NEW phys \in [Codes -> BOOLEAN], ByPhys(m, km, phys),
         new.shifts = IF IsKey(sc, m) THEN IF down THEN <<sc>> ELSE <<>> ELSE km.shifts
  PROVE  ByPhys(m, new, [phys EXCEPT ![sc] = down])
<1> DEFINE after == [phys EXCEPT ![sc] = down]
<1>1. after[sc] = down /\ \A c \in Codes : c # sc => after[c] = phys[c]
  OBVIOUS
<1>2. CASE IsKey(sc, m)
  <2>1. \A c : IsKey(c, m) => c = sc
    BY <1>2, OnlyKey
  <2>2. new.shifts = IF down THEN <<sc>> ELSE <<>>
    BY <1>2
  <2>3. new.shifts # <<>> => down
    BY <2>2
  <2> QED
    BY <1>1, <1>2, <2>1, <2>2, <2>3 DEF ByPhys
<1>3. CASE ~IsKey(sc, m)
  <2>1. new.shifts = km.shifts
    BY <1>3
  <2> QED
    BY <1>1, <1>3, <2>1 DEF ByPhys
<1> QED
  BY <1>2, <1>3

\* What an event of the key sc does, given the trackers that have seen it.
KeyDone(km, sc, down) ==
  /\ HomeKMs(KL_km') /\ Matches(keys', KL_km')
  /\ \A m \in Keyed : KL_km'[m].shifts = KeyShifts(km, m, sc, down)

\* The trackers stay as they are, and sc is none of the keys of Keyed.
LEMMA KeptDone ==
  ASSUME NEW km, HomeKMs(km), NEW phys, NEW sc, NEW down, Keep(km, phys),
         \A m \in Keyed : ~IsKey(sc, m), Matches(keys', km)
  PROVE  KeyDone(km, sc, down)
BY DEF KeyDone, Keep, KeyShifts

LEMMA AppendedKept ==
  ASSUME NEW km, NEW sent \in Seq(LSHIFTs), Matches(After(keys, sent), km),
         NEW vk, NEW down, vk \notin ModVks, Send(Append(sent, Event(vk, down)))
  PROVE  Matches(keys', km)
<1> DEFINE S == LSHIFTs \cup {Event(vk, down)}
<1>1. sent \in Seq(S) /\ Event(vk, down) \in S
  <2>1. \A i \in 1 .. Len(sent) : sent[i] \in S
    BY ElementOfSeq
  <2>2. sent = [i \in 1 .. Len(sent) |-> sent[i]] /\ Len(sent) \in Nat
    OBVIOUS
  <2> HIDE DEF S
  <2>3. [i \in 1 .. Len(sent) |-> sent[i]] \in Seq(S)
    BY <2>1, <2>2, IsASeq
  <2> QED
    BY <2>2, <2>3 DEF S
<1>2. keys' = After(keys, Append(sent, Event(vk, down)))
  BY DEF Send, After
<1> HIDE DEF S
<1> QED
  BY <1>1, <1>2, OtherKeySent

LEMMA SentKept ==
  ASSUME NEW km, NEW sent, Matches(After(keys, sent), km), Send(sent)
  PROVE  Matches(keys', km)
BY DEF Send, After

\* The trackers but m stay as they are; m follows its rules.
LEMMA OneTrackerSet ==
  ASSUME NEW km, HomeKMs(km), NEW m \in Modifiers, NEW new, ~new.locked,
         GoodKMs([km EXCEPT ![m] = new]),
         m \notin Keyed => new.shifts = <<>>,
         m = "shift" /\ new.in_effect => new.latch_faked = "LSHIFT",
         m = "l3" => new.latch_faked = NoVk
  PROVE  /\ HomeKMs([km EXCEPT ![m] = new])
         /\ [km EXCEPT ![m] = new][m] = new
         /\ \A n \in Modifiers \ {m} : [km EXCEPT ![m] = new][n] = km[n]
<1> DEFINE kms == [km EXCEPT ![m] = new]
<1>1. DOMAIN km = Modifiers
  BY DEF HomeKMs, GoodKMs
<1>2. kms[m] = new /\ \A n \in Modifiers \ {m} : kms[n] = km[n]
  BY <1>1
<1>3. "shift" \in Modifiers /\ "l3" \in Modifiers
  BY ModifierNames
<1> HIDE DEF kms
<1>4. \A n \in Modifiers \ {"control", "l5"} : kms[n].shifts = <<>>
  BY <1>2 DEF HomeKMs, Keyed
<1>5. \A n \in Modifiers : ~kms[n].locked
  BY <1>2 DEF HomeKMs
<1>6. kms["shift"].in_effect => kms["shift"].latch_faked = "LSHIFT"
  BY <1>2, <1>3 DEF HomeKMs
<1>7. kms["l3"].latch_faked = NoVk
  BY <1>2, <1>3 DEF HomeKMs
<1>8. GoodKMs(kms)
  BY DEF kms
<1>9. HomeKMs(kms)
  BY <1>4, <1>5, <1>6, <1>7, <1>8 DEF HomeKMs
<1> QED
  BY <1>2, <1>9 DEF kms

-----------------------------------------------------------------------------
(* The rest of KL_proc, by the type of the binding. *)

LEMMA ControlDone ==
  ASSUME HomeRow, NEW km, HomeKMs(km), NEW phys, NEW sc \in Codes, NEW down \in BOOLEAN,
         IsKey(sc, "control"), ~IsKey(sc, "l5"),
         km["control"].shifts = <<>> \/ km["control"].shifts = <<sc>>,
         NEW sent \in Seq(LSHIFTs), Matches(After(keys, sent), km),
         KA_control(km, phys, down, sc, sent)
  PROVE  KeyDone(km, sc, down)
<1>1. /\ "control" \in Modifiers /\ "control" \notin Latching /\ "control" # "shift"
      /\ "control" # "l3" /\ "control" \in Keyed /\ "l5" \in Modifiers
  BY ModifierNames DEF Keyed
<1>2. GoodKM(km["control"]) /\ km["control"].latch = NoKey /\ ~km["control"].locked
  BY <1>1 DEF HomeKMs, GoodKMs
<1>3. PICK control \in KM_shift_event(km["control"], down, sc) :
        /\ Keep([km EXCEPT !["control"] = control], phys)
        /\ Send(IF ~down /\ control.shifts # <<>> THEN sent
                ELSE Append(sent, Event("LCONTROL", down)))
  BY DEF KA_control
<1>4. /\ control.shifts = IF down THEN <<sc>> ELSE <<>>
      /\ control.in_effect = down /\ ~control.locked
  BY <1>2, HeldShift
<1>5. Send(Append(sent, Event("LCONTROL", down)))
  BY <1>3, <1>4
<1>6. GoodKMs([km EXCEPT !["control"] = control])
  BY <1>1, ShiftStepGood DEF HomeKMs
<1> DEFINE kms == [km EXCEPT !["control"] = control]
<1>7. /\ HomeKMs(kms) /\ kms["control"] = control
      /\ \A n \in Modifiers \ {"control"} : kms[n] = km[n]
  BY <1>1, <1>4, <1>6, OneTrackerSet
<1>8. KL_km' = kms
  BY <1>3 DEF Keep
<1> HIDE DEF kms
<1>9. keys' = Press(After(keys, sent), Event("LCONTROL", down))
  <2> DEFINE S == LSHIFTs \cup {Event("LCONTROL", down)}
  <2>1. sent \in Seq(S) /\ Event("LCONTROL", down) \in S
    <3>1. \A i \in 1 .. Len(sent) : sent[i] \in S
      BY ElementOfSeq
    <3>2. sent = [i \in 1 .. Len(sent) |-> sent[i]] /\ Len(sent) \in Nat
      OBVIOUS
    <3> HIDE DEF S
    <3>3. [i \in 1 .. Len(sent) |-> sent[i]] \in Seq(S)
      BY <3>1, <3>2, IsASeq
    <3> QED
      BY <3>2, <3>3 DEF S
  <2>2. keys' = After(keys, Append(sent, Event("LCONTROL", down)))
    BY <1>5 DEF Send, After
  <2> HIDE DEF S
  <2> QED
    BY <2>1, <2>2, AfterAppended
<1>10. kms["shift"] = km["shift"] /\ kms["l5"] = km["l5"]
  BY <1>1, <1>7, ModifierNames
<1>11. Matches(keys', kms)
  BY <1>4, <1>7, <1>9, <1>10 DEF Matches, DrivenBy, Press, Event
<1>12. \A m \in Keyed : kms[m].shifts = KeyShifts(km, m, sc, down)
  BY <1>4, <1>7, <1>10 DEF KeyShifts, Keyed
<1> QED
  BY <1>7, <1>8, <1>11, <1>12 DEF KeyDone

LEMMA L5Done ==
  ASSUME HomeRow, NEW km, HomeKMs(km), NEW phys, NEW sc \in Codes, NEW down \in BOOLEAN,
         IsKey(sc, "l5"), ~IsKey(sc, "control"),
         km["l5"].shifts = <<>> \/ km["l5"].shifts = <<sc>>,
         NEW sent \in Seq(LSHIFTs), Matches(After(keys, sent), km),
         KA_l5_shift(km, phys, down, sc, sent)
  PROVE  KeyDone(km, sc, down)
<1>1. /\ "l5" \in Modifiers /\ "l5" \notin Latching /\ "l5" # "shift"
      /\ "l5" # "l3" /\ "l5" \in Keyed /\ "control" \in Modifiers
  BY ModifierNames DEF Keyed
<1>2. GoodKM(km["l5"]) /\ km["l5"].latch = NoKey /\ ~km["l5"].locked
  BY <1>1 DEF HomeKMs, GoodKMs
<1>3. PICK l5 \in KM_shift_event(km["l5"], down, sc) :
        KL_km' = [km EXCEPT !["l5"] = l5] /\ Send(sent)
  BY DEF KA_l5_shift, Keep
<1>4. l5.shifts = (IF down THEN <<sc>> ELSE <<>>) /\ ~l5.locked
  BY <1>2, HeldShift
<1>5. GoodKMs([km EXCEPT !["l5"] = l5])
  BY <1>1, ShiftStepGood DEF HomeKMs
<1> DEFINE kms == [km EXCEPT !["l5"] = l5]
<1>6. /\ HomeKMs(kms) /\ kms["l5"] = l5
      /\ \A n \in Modifiers \ {"l5"} : kms[n] = km[n]
  BY <1>1, <1>4, <1>5, OneTrackerSet
<1>7. KL_km' = kms
  BY <1>3
<1> HIDE DEF kms
<1>8. kms["shift"] = km["shift"] /\ kms["control"] = km["control"]
  BY <1>6, ModifierNames
<1>9. Matches(keys', kms)
  BY <1>3, <1>8, SentKept DEF Matches, DrivenBy
<1>10. \A m \in Keyed : kms[m].shifts = KeyShifts(km, m, sc, down)
  BY <1>4, <1>6, <1>8 DEF KeyShifts, Keyed
<1> QED
  BY <1>6, <1>7, <1>9, <1>10 DEF KeyDone

LEMMA L3LatchDone ==
  ASSUME HomeRow, NEW km, HomeKMs(km), NEW phys, NEW sc \in Codes, NEW down \in BOOLEAN,
         \A m \in Keyed : ~IsKey(sc, m),
         NEW sent \in Seq(LSHIFTs), Matches(After(keys, sent), km),
         KA_l3_latch(km, phys, down, sc, sent)
  PROVE  KeyDone(km, sc, down)
<1> DEFINE l3 == KM_latch_event(km["l3"], down, sc)
           kms == [km EXCEPT !["l3"] = l3.km]
<1>1. /\ "l3" \in Modifiers /\ "l3" \in Latching /\ "l3" # "shift"
      /\ "l3" \notin Keyed /\ "l3" \in Modifiers \ {"control", "l5"}
  BY ModifierNames DEF Keyed
<1>2. /\ GoodKM(km["l3"]) /\ ~km["l3"].locked /\ km["l3"].shifts = <<>>
      /\ km["l3"].latch_faked = NoVk /\ GoodKMs(km)
  BY <1>1 DEF HomeKMs, GoodKMs
<1>3. Quiet(l3)
  BY <1>2, LatchQuiet
<1>4. GoodKM(l3.km) /\ ~l3.km.locked
  BY <1>2, LatchGood DEF GoodKM
<1>5. KL_km' = kms /\ Send(sent \o l3.sent)
  BY DEF KA_l3_latch, Keep
<1> HIDE DEF l3
<1>6. GoodKMs(kms)
  BY <1>1, <1>2, <1>4, SetGood
<1>7. HomeKMs(kms) /\ \A n \in Modifiers \ {"l3"} : kms[n] = km[n]
  BY <1>1, <1>3, <1>4, <1>6, OneTrackerSet DEF Quiet
<1> HIDE DEF kms
<1>8. kms["shift"] = km["shift"] /\ kms["control"] = km["control"] /\ kms["l5"] = km["l5"]
  BY <1>7, ModifierNames
<1>9. Send(sent)
  <2>1. sent \o l3.sent = sent
    BY <1>3 DEF Quiet
  <2> QED
    BY <1>5, <2>1
<1>10. Matches(keys', kms)
  BY <1>8, <1>9, SentKept DEF Matches, DrivenBy
<1>11. \A m \in Keyed : kms[m].shifts = KeyShifts(km, m, sc, down)
  BY <1>8 DEF KeyShifts, Keyed
<1> QED
  BY <1>5, <1>7, <1>10, <1>11 DEF KeyDone

LEMMA L2LatchDone ==
  ASSUME HomeRow, NEW km, HomeKMs(km), NEW phys, NEW sc \in Codes, NEW down \in BOOLEAN,
         \A m \in Keyed : ~IsKey(sc, m),
         NEW sent \in Seq(LSHIFTs), Matches(After(keys, sent), km),
         KA_l2_latch(km, phys, down, sc, sent)
  PROVE  KeyDone(km, sc, down)
<1> DEFINE faked == [km["shift"] EXCEPT !.latch_faked = "LSHIFT"]
           shift == KM_latch_event(faked, down, sc)
           kms == [km EXCEPT !["shift"] = shift.km]
<1>1. /\ "shift" \in Modifiers /\ "shift" \in Latching /\ "l3" # "shift"
      /\ "shift" \notin Keyed /\ "shift" \in Modifiers \ {"control", "l5"}
  BY ModifierNames DEF Keyed
<1>2. /\ GoodKM(km["shift"]) /\ ~km["shift"].locked /\ km["shift"].shifts = <<>>
      /\ GoodKMs(km)
  BY <1>1 DEF HomeKMs, GoodKMs
<1>3. ShiftFollowed(km["shift"], shift.km, shift.sent)
  BY <1>2, LatchFollowed
<1>4. GoodKM(shift.km) /\ ~shift.km.locked
  <2>1. faked \in KMs(Codes, {"LSHIFT"}) /\ Len(faked.shifts) <= MaxShifts
    BY <1>2 DEF GoodKM, KMs
  <2> HIDE DEF faked
  <2> QED
    BY <2>1, LatchGood
<1>5. KL_km' = kms /\ Send(sent \o shift.sent)
  BY DEF KA_l2_latch, Keep
<1> HIDE DEF shift
<1>6. GoodKMs(kms)
  BY <1>1, <1>2, <1>4, SetGood
<1>7. /\ HomeKMs(kms) /\ kms["shift"] = shift.km
      /\ \A n \in Modifiers \ {"shift"} : kms[n] = km[n]
  BY <1>1, <1>3, <1>4, <1>6, OneTrackerSet DEF ShiftFollowed
<1> HIDE DEF kms
<1>8. kms["control"] = km["control"] /\ kms["l5"] = km["l5"]
  BY <1>7, ModifierNames
<1>9. Matches(After(After(keys, sent), shift.sent), kms) /\ shift.sent \in Seq(LSHIFTs)
  BY <1>3, <1>7, <1>8, FollowedMatches
<1>10. keys' = After(After(keys, sent), shift.sent)
  <2>1. keys' = After(keys, sent \o shift.sent)
    BY <1>5 DEF Send, After
  <2> QED
    BY <1>9, <2>1, AfterBoth
<1>11. Matches(keys', kms)
  BY <1>9, <1>10
<1>12. \A m \in Keyed : kms[m].shifts = KeyShifts(km, m, sc, down)
  BY <1>8 DEF KeyShifts, Keyed
<1> QED
  BY <1>5, <1>7, <1>11, <1>12 DEF KeyDone

\* The events that bring shift, control and alt into the state that a virtual
\* key needs, and their reverse.
Fix(km, shift, control, alt) ==
  (IF km["shift"].in_effect = shift THEN <<>> ELSE <<Event("LSHIFT", shift)>>)
  \o (IF control /\ ~km["control"].in_effect THEN <<KeyDown("LCONTROL")>> ELSE <<>>)
  \o (IF alt /\ ~km["alt"].in_effect THEN <<KeyDown("RMENU")>> ELSE <<>>)

Undo(fix) == [i \in DOMAIN fix |-> Event(fix[i].vk, ~fix[i].down)]

Events == [vk : {"LSHIFT", "LCONTROL", "RMENU"}, down : BOOLEAN]

\* Each event of a fix changes what the trackers call for.
Fixes(fix, km) ==
  \A i \in DOMAIN fix : fix[i].down <=> fix[i].vk \notin DrivenBy(km)

LEMMA FixesFix ==
  ASSUME NEW km, HomeKMs(km), NEW shift \in BOOLEAN, NEW control \in BOOLEAN,
         NEW alt \in BOOLEAN
  PROVE  /\ Fix(km, shift, control, alt) \in Seq(Events)
         /\ Fixes(Fix(km, shift, control, alt), km)
<1> DEFINE a == IF km["shift"].in_effect = shift THEN <<>> ELSE <<Event("LSHIFT", shift)>>
           b == IF control /\ ~km["control"].in_effect THEN <<KeyDown("LCONTROL")>> ELSE <<>>
           c == IF alt /\ ~km["alt"].in_effect THEN <<KeyDown("RMENU")>> ELSE <<>>
           D == {e \in Events : e.down <=> e.vk \notin DrivenBy(km)}
<1>1. km["shift"].in_effect \in BOOLEAN
  BY ModifierNames DEF HomeKMs, GoodKMs, KMs
<1>2. /\ Event("LSHIFT", shift) \in Events /\ KeyDown("LCONTROL") \in Events
      /\ KeyDown("RMENU") \in Events
      /\ Event("LSHIFT", shift).vk = "LSHIFT" /\ Event("LSHIFT", shift).down = shift
      /\ KeyDown("LCONTROL").vk = "LCONTROL" /\ KeyDown("LCONTROL").down
      /\ KeyDown("RMENU").vk = "RMENU" /\ KeyDown("RMENU").down
  BY DEF Events, Event, KeyDown
<1>3. /\ "LSHIFT" \in DrivenBy(km) <=> km["shift"].in_effect
      /\ "LCONTROL" \in DrivenBy(km) <=> km["control"].in_effect
      /\ "RMENU" \notin DrivenBy(km)
  BY DEF DrivenBy
<1>4. a \in Seq(D)
  <2>1. CASE km["shift"].in_effect = shift
    BY <2>1
  <2>2. CASE km["shift"].in_effect # shift
    <3>1. Event("LSHIFT", shift) \in D
      BY <1>1, <1>2, <1>3, <2>2
    <3> HIDE DEF D
    <3> QED
      BY <2>2, <3>1
  <2> QED
    BY <2>1, <2>2
<1>5. b \in Seq(D)
  <2>1. CASE ~(control /\ ~km["control"].in_effect)
    BY <2>1
  <2>2. CASE control /\ ~km["control"].in_effect
    <3>1. KeyDown("LCONTROL") \in D
      BY <1>2, <1>3, <2>2
    <3> HIDE DEF D
    <3> QED
      BY <2>2, <3>1
  <2> QED
    BY <2>1, <2>2
<1>6. c \in Seq(D)
  <2>1. KeyDown("RMENU") \in D
    BY <1>2, <1>3
  <2> HIDE DEF D
  <2> QED
    BY <2>1
<1> HIDE DEF a, b, c, D
<1>7. a \o b \in Seq(D)
  BY <1>4, <1>5
<1>8. (a \o b) \o c \in Seq(D)
  BY <1>6, <1>7
<1> DEFINE fix == Fix(km, shift, control, alt)
<1>9. fix = (a \o b) \o c
  BY DEF Fix, a, b, c
<1>10. fix \in Seq(D)
  BY <1>8, <1>9
<1> HIDE DEF fix
<1>11. \A i \in 1 .. Len(fix) : fix[i] \in D
  BY <1>10, ElementOfSeq
<1>12. fix = [i \in 1 .. Len(fix) |-> fix[i]] /\ Len(fix) \in Nat /\ DOMAIN fix = 1 .. Len(fix)
  BY <1>10
<1>13. fix \in Seq(Events)
  <2>1. \A i \in 1 .. Len(fix) : fix[i] \in Events
    BY <1>11 DEF D
  <2>2. [i \in 1 .. Len(fix) |-> fix[i]] \in Seq(Events)
    BY <1>12, <2>1, IsASeq
  <2> QED
    BY <1>12, <2>2
<1>14. Fixes(fix, km)
  BY <1>11, <1>12 DEF Fixes, D
<1> QED
  BY <1>13, <1>14 DEF fix

\* A fix, any other key, and the reverse of the fix leave the modifiers as they
\* were.
LEMMA FixAndUndo ==
  ASSUME NEW km, NEW base, Matches(base, km), NEW fix \in Seq(Events), Fixes(fix, km),
         NEW vk, vk \notin ModVks, NEW down
  PROVE  Matches(After(Press(After(base, fix), Event(vk, down)), Undo(fix)), km)
<1> DEFINE undo == Undo(fix)
           one == After(base, fix)
           two == Press(one, Event(vk, down))
<1>1. DOMAIN fix = 1 .. Len(fix) /\ Len(fix) \in Nat /\ DOMAIN undo = 1 .. Len(fix)
  BY DEF Undo
<1>2. \A i \in 1 .. Len(fix) : fix[i].down \in BOOLEAN
  <2>1. \A i \in 1 .. Len(fix) : fix[i] \in Events
    BY ElementOfSeq
  <2> QED
    BY <2>1 DEF Events
<1>3. \A i \in 1 .. Len(fix) : undo[i].vk = fix[i].vk /\ undo[i].down = ~fix[i].down
  BY <1>1 DEF Undo, Event
<1> SUFFICES ASSUME NEW mod \in ModVks
             PROVE  mod \in After(two, undo) <=> mod \in DrivenBy(km)
  BY DEF Matches
<1>4. mod \in two <=> mod \in one
  BY DEF Press, Event
<1>5. mod \in base <=> mod \in DrivenBy(km)
  BY DEF Matches
<1> DEFINE d == mod \in DrivenBy(km)
<1>6. d \in BOOLEAN /\ (d <=> mod \in DrivenBy(km))
  OBVIOUS
<1> HIDE DEF undo, two, d
<1>7. \A i \in 1 .. Len(fix) : undo[i].vk = mod => (undo[i].down <=> d)
  BY <1>1, <1>2, <1>3, <1>6 DEF Fixes
<1>8. ASSUME \A i \in 1 .. Len(fix) : undo[i].vk # mod PROVE mod \in two <=> d
  <2>1. \A i \in 1 .. Len(fix) : fix[i].vk = mod => (fix[i].down <=> d)
    BY <1>3, <1>8
  <2>2. mod \in After(base, fix) <=> d
    BY <1>1, <1>5, <1>6, <2>1, AllAlike
  <2> QED
    BY <1>4, <2>2
<1>9. mod \in After(two, undo) <=> d
  BY <1>1, <1>6, <1>7, <1>8, AllAlike
<1> QED
  BY <1>6, <1>9

LEMMA WiderSeq ==
  ASSUME NEW S, NEW T, S \subseteq T, NEW s \in Seq(S)
  PROVE  s \in Seq(T)
<1>1. \A i \in 1 .. Len(s) : s[i] \in T
  BY ElementOfSeq
<1>2. s = [i \in 1 .. Len(s) |-> s[i]] /\ Len(s) \in Nat
  OBVIOUS
<1>3. [i \in 1 .. Len(s) |-> s[i]] \in Seq(T)
  BY <1>1, <1>2, IsASeq
<1> QED
  BY <1>2, <1>3

LEMMA VkSentKept ==
  ASSUME NEW km, HomeKMs(km), NEW sent \in Seq(LSHIFTs), Matches(After(keys, sent), km),
         NEW down, NEW lv, NEW lk, lk.binding \notin ModVks, VkSent(km, down, lv, lk, sent)
  PROVE  Matches(keys', km)
<1> DEFINE shift == "shift" \in lk.mods
           control == "control" \in lk.mods
           alt == "alt" \in lk.mods
           fix == Fix(km, shift, control, alt)
           e == Event(lk.binding, down)
<1>1. \/ Send(sent)
      \/ Send(sent \o fix \o <<e>> \o Undo(fix))
  BY DEF VkSent, Fix, Undo
<1>2. CASE Send(sent)
  BY <1>2, SentKept
<1>3. CASE Send(sent \o fix \o <<e>> \o Undo(fix))
  <2> DEFINE S == LSHIFTs \cup Events \cup {e}
  <2>1. fix \in Seq(Events) /\ Fixes(fix, km)
    <3>1. shift \in BOOLEAN /\ control \in BOOLEAN /\ alt \in BOOLEAN
      OBVIOUS
    <3> HIDE DEF shift, control, alt
    <3> QED
      BY <3>1, FixesFix
  <2> HIDE DEF fix
  <2>2. Undo(fix) \in Seq(Events)
    <3>1. DOMAIN fix = 1 .. Len(fix) /\ Len(fix) \in Nat
      BY <2>1
    <3>2. \A i \in 1 .. Len(fix) : Event(fix[i].vk, ~fix[i].down) \in Events
      <4>1. \A i \in 1 .. Len(fix) : fix[i] \in Events
        BY <2>1, ElementOfSeq
      <4> QED
        BY <4>1 DEF Events, Event
    <3>3. [i \in 1 .. Len(fix) |-> Event(fix[i].vk, ~fix[i].down)] \in Seq(Events)
      BY <3>1, <3>2, IsASeq
    <3> QED
      BY <3>1, <3>3 DEF Undo
  <2>3. /\ sent \in Seq(S) /\ fix \in Seq(S) /\ Undo(fix) \in Seq(S) /\ e \in S
    <3>1. LSHIFTs \subseteq S /\ Events \subseteq S /\ e \in S
      OBVIOUS
    <3> HIDE DEF S
    <3> QED
      BY <2>1, <2>2, <3>1, WiderSeq
  <2> DEFINE undo == Undo(fix)
  <2> HIDE DEF S, undo, e
  <2>4. <<e>> \in Seq(S) /\ sent \o fix \in Seq(S) /\ sent \o fix \o <<e>> \in Seq(S)
    BY <2>3
  <2>5. keys' = After(keys, sent \o fix \o <<e>> \o undo)
    BY <1>3 DEF Send, After, undo
  <2>6. undo \in Seq(S)
    BY <2>3 DEF undo
  <2>7. keys' = After(After(keys, sent \o fix \o <<e>>), undo)
    <3>1. \A s, t \in Seq(S) : After(keys, s \o t) = After(After(keys, s), t)
      BY AfterBoth
    <3> QED
      BY <2>4, <2>5, <2>6, <3>1, Zenon
  <2>8. After(keys, sent \o fix \o <<e>>) = After(After(keys, sent \o fix), <<e>>)
    <3>1. \A s, t \in Seq(S) : After(keys, s \o t) = After(After(keys, s), t)
      BY AfterBoth
    <3> QED
      BY <2>4, <3>1, Zenon
  <2>9. After(keys, sent \o fix) = After(After(keys, sent), fix)
    BY <2>3, AfterBoth
  <2>10. After(After(After(keys, sent), fix), <<e>>) = Press(After(After(keys, sent), fix), e)
    BY AfterOne
  <2>11. keys' = After(Press(After(After(keys, sent), fix), e), undo)
    BY <2>7, <2>8, <2>9, <2>10
  <2>12. Matches(After(Press(After(After(keys, sent), fix), e), undo), km)
    BY <2>1, FixAndUndo DEF e, undo
  <2> QED
    BY <2>11, <2>12
<1> QED
  BY <1>1, <1>2, <1>3

LEMMA HomeCodes ==
  ASSUME HomeRow, NEW k \in Board
  PROVE  /\ Code(k) \in Codes /\ VkOf(k) \notin ModVks
         /\ k < KPN => Code(k) = k /\ Code(k) \in Bindable
<1>1. k \in Nat
  BY HookAssumption DEF HookAssumption
<1>2. Code(k) \in Codes
  BY DEF Codes
<1>3. k < KPN => Code(k) = k
  BY <1>1 DEF KPN, Code, SC_EXTENDED_BIT
<1> QED
  BY <1>2, <1>3 DEF HomeRow, Bindable

LEMMA ProcessDone ==
  ASSUME HomeRow, NEW k \in Board, k < KPN, NEW down \in BOOLEAN, NEW km, HomeKMs(km),
         NEW phys, NEW sent \in Seq(LSHIFTs), Matches(After(keys, sent), km),
         \A m \in Keyed : ByPhys(m, km[m], KL_phys), Process(k, down, km, phys, sent)
  PROVE  KeyDone(km, Code(k), down)
<1> DEFINE sc == Code(k)
           lv == Level(km)
           lk == Kly[lv][sc]
<1>1. sc \in Codes /\ sc \in Bindable /\ VkOf(k) \notin ModVks
  BY HomeCodes
<1>2. lv \in DOMAIN Kly
  BY LevelType DEF HomeKMs
<1> HIDE DEF sc, lv
<1>3. /\ ModsVks[sc] \notin ModVks
      /\ lk.type = "sc" => VkOf(lk.binding) \notin ModVks
      /\ lk.type = "vk" => lk.binding \notin ModVks
      /\ lk.type = "ka" => lk.binding # "l5_lock"
  BY <1>1, <1>2 DEF HomeRow
<1>4. "control" \in Keyed /\ "l5" \in Keyed
  BY DEF Keyed
<1>5. /\ \A m \in Keyed : IsKey(sc, m) =>
             lk.type = "ka" /\ lk.binding = IF m = "control" THEN "control" ELSE "l5_shift"
      /\ lk.type = "ka" /\ lk.binding = "control" => IsKey(sc, "control")
      /\ lk.type = "ka" /\ lk.binding = "l5_shift" => IsKey(sc, "l5")
  BY <1>1, <1>2, <1>4, KeyBinding
<1>6. ASSUME Keep(km, phys), lk.type # "ka", Matches(keys', km)
      PROVE  KeyDone(km, sc, down)
  <2>1. \A m \in Keyed : ~IsKey(sc, m)
    BY <1>5, <1>6
  <2> QED
    BY <1>6, <2>1, KeptDone
<1> HIDE DEF lk
<1>7. CASE AlteredByModifier(km, sc, lv, lk)
  <2>1. lk.type # "ka"
    BY <1>7 DEF AlteredByModifier
  <2>2. Keep(km, phys) /\ Send(Append(sent, Event(ModsVks[sc], down)))
    BY <1>7, <2>1 DEF Process, sc, lv, lk
  <2>3. Matches(keys', km)
    BY <1>3, <2>2, AppendedKept
  <2> QED
    BY <1>6, <2>1, <2>2, <2>3 DEF sc
<1>8. CASE ~AlteredByModifier(km, sc, lv, lk) /\ lk.type = "ka"
  <2>1. KA_call(lk.binding, km, phys, down, sc, sent)
    BY <1>8 DEF Process, sc, lv, lk
  <2>2. \A m \in Keyed : IsKey(sc, m) => km[m].shifts = <<>> \/ km[m].shifts = <<sc>>
    <3> SUFFICES ASSUME NEW m \in Keyed, IsKey(sc, m), km[m].shifts # <<>>
                 PROVE  km[m].shifts = <<sc>>
      OBVIOUS
    <3>1. PICK c \in Codes : IsKey(c, m) /\ km[m].shifts = <<c>>
      BY DEF ByPhys
    <3>2. c = sc
      BY <3>1, OnlyKey
    <3> QED
      BY <3>1, <3>2
  <2>3. CASE lk.binding = "control" /\ KA_control(km, phys, down, sc, sent)
    <3>1. IsKey(sc, "control") /\ ~IsKey(sc, "l5")
      BY <1>4, <1>5, <1>8, <2>3
    <3>2. km["control"].shifts = <<>> \/ km["control"].shifts = <<sc>>
      BY <1>4, <2>2, <3>1
    <3> QED
      BY <1>1, <2>3, <3>1, <3>2, ControlDone DEF sc
  <2>4. CASE lk.binding = "l5_shift" /\ KA_l5_shift(km, phys, down, sc, sent)
    <3>1. IsKey(sc, "l5") /\ ~IsKey(sc, "control")
      BY <1>4, <1>5, <1>8, <2>4
    <3>2. km["l5"].shifts = <<>> \/ km["l5"].shifts = <<sc>>
      BY <1>4, <2>2, <3>1
    <3> QED
      BY <1>1, <2>4, <3>1, <3>2, L5Done DEF sc
  <2>5. CASE lk.binding = "l3_latch" /\ KA_l3_latch(km, phys, down, sc, sent)
    <3>1. \A m \in Keyed : ~IsKey(sc, m)
      BY <1>5, <2>5
    <3> QED
      BY <1>1, <2>5, <3>1, L3LatchDone DEF sc
  <2>6. CASE lk.binding = "l2_latch" /\ KA_l2_latch(km, phys, down, sc, sent)
    <3>1. \A m \in Keyed : ~IsKey(sc, m)
      BY <1>5, <2>6
    <3> QED
      BY <1>1, <2>6, <3>1, L2LatchDone DEF sc
  <2>7. lk.binding # "l5_lock"
    BY <1>3, <1>8
  <2>8. \/ lk.binding = "control" /\ KA_control(km, phys, down, sc, sent)
        \/ lk.binding = "l5_shift" /\ KA_l5_shift(km, phys, down, sc, sent)
        \/ lk.binding = "l3_latch" /\ KA_l3_latch(km, phys, down, sc, sent)
        \/ lk.binding = "l2_latch" /\ KA_l2_latch(km, phys, down, sc, sent)
    BY <2>1, <2>7 DEF KA_call
  <2> QED
    BY <2>3, <2>4, <2>5, <2>6, <2>8
<1>9. CASE ~AlteredByModifier(km, sc, lv, lk) /\ lk.type # "ka"
  <2>1. /\ Keep(km, phys)
        /\ \/ lk.type = "none"  /\ NotAltered(k, down, lv, sent)
           \/ lk.type = "sc"    /\ ScancodeSent(down, lv, lk, sent)
           \/ lk.type = "wchar" /\ CharSent(down, lk, sent)
           \/ lk.type = "dk"    /\ DeadKeyCalled(down, lk.binding, sent)
           \/ lk.type = "vk"    /\ VkSent(km, down, lv, lk, sent)
    BY <1>9 DEF Process, sc, lv, lk
  <2>2. Matches(keys', km)
    <3>1. CASE NotAltered(k, down, lv, sent)
      <4>1. Send(sent) \/ Send(Append(sent, Event(VkOf(k), down)))
        BY <3>1 DEF NotAltered
      <4> QED
        BY <1>1, <4>1, SentKept, AppendedKept
    <3>2. CASE lk.type = "sc" /\ ScancodeSent(down, lv, lk, sent)
      <4>1. Send(sent) \/ Send(Append(sent, Event(VkOf(lk.binding), down)))
        BY <3>2 DEF ScancodeSent
      <4> QED
        BY <1>3, <3>2, <4>1, SentKept, AppendedKept
    <3>3. CASE CharSent(down, lk, sent)
      BY <3>3, SentKept DEF CharSent
    <3>4. CASE DeadKeyCalled(down, lk.binding, sent)
      BY <3>4, SentKept DEF DeadKeyCalled
    <3>5. CASE lk.type = "vk" /\ VkSent(km, down, lv, lk, sent)
      BY <1>3, <3>5, VkSentKept
    <3> QED
      BY <2>1, <3>1, <3>2, <3>3, <3>4, <3>5
  <2> QED
    BY <1>6, <1>9, <2>1, <2>2 DEF sc
<1> QED
  BY <1>7, <1>8, <1>9

-----------------------------------------------------------------------------
(* The hook and its environment. *)

\* The inductive invariant.
HInv ==
  /\ IInv
  /\ KL_active /\ unhandled = 0
  /\ last \in ToSet(held) \cup {NoKey}
  /\ HomeKMs(KL_km) /\ Matches(keys, KL_km)
  /\ \A m \in Keyed : ByPhys(m, KL_km[m], KL_phys)
  /\ \A m \in Keyed, c \in Codes : IsKey(c, m) /\ KL_phys[c] => c \in ToSet(held)

\* What an event of the key k does to the trackers and to Windows.
LEMMA KeyEventHome ==
  ASSUME HomeRow, HInv, NEW k \in Board, NEW down \in BOOLEAN, KeyEvent(k, down)
  PROVE  /\ HomeKMs(KL_km') /\ Matches(keys', KL_km')
         /\ \A m \in Keyed : ByPhys(m, KL_km'[m], KL_phys')
         /\ KL_phys' = [KL_phys EXCEPT ![Code(k)] = down]
<1> DEFINE sc == Code(k)
<1>1. sc \in Codes /\ VkOf(k) \notin ModVks /\ KL_phys \in [Codes -> BOOLEAN]
  BY HomeCodes DEF HInv, IInv, TypeOK
<1>2. KL_proc(k, down)
  BY DEF KeyEvent, HInv, HomeRow
<1>3. CASE ~down /\ ~KL_phys[sc]
  <2>1. /\ Send(<<Event(VkOf(k), down)>>)
        /\ KL_phys' = KL_phys /\ KL_km' = KL_km
    BY <1>2, <1>3 DEF KL_proc, Unseen
  <2>2. keys' = Press(keys, Event(VkOf(k), down))
    BY <2>1, AfterOne DEF Send, After
  <2>3. Matches(keys', KL_km)
    BY <1>1, <2>2 DEF HInv, Matches, Press, Event
  <2>4. KL_phys' = [KL_phys EXCEPT ![sc] = down]
    BY <1>1, <1>3, <2>1
  <2> QED
    BY <2>1, <2>3, <2>4 DEF HInv
<1>4. CASE down \/ KL_phys[sc]
  <2>1. /\ KL_phys' = [KL_phys EXCEPT ![sc] = down]
        /\ ModifierKey(k, down) \/ OrdinaryKey(k, down)
    BY <1>2, <1>4 DEF KL_proc
  <2>2. KL_phys_mods[sc] \notin Modifiers
    <3>1. InitialMods[sc] = "none"
      <4>1. \A j \in Board \cup Codes : ModOfVk(VkOf(j)) = "none"
        BY ModVksIs DEF HomeRow, ModOfVk
      <4>2. \A j \in Board : ModOfVk(VkOf(j)) # "win"
        BY <4>1
      <4> QED
        BY <1>1, <4>1, <4>2 DEF InitialMods
    <3> QED
      BY <1>1, <3>1, ModifierNames DEF HInv, IInv, GoodPhys
  <2>3. OrdinaryKey(k, down)
    BY <2>1, <2>2 DEF ModifierKey
  <2> DEFINE temp == KL_phys_mods[sc] = "temp"
             shift == KM_nonmod_event(KL_km["shift"], down, sc)
             l3 == KM_nonmod_event(KL_km["l3"], down, sc)
             km == IF temp THEN KL_km
                   ELSE [KL_km EXCEPT !["shift"] = shift.km, !["l3"] = l3.km]
             sent == IF temp THEN <<>> ELSE shift.sent \o l3.sent
             phys == [KL_phys_mods EXCEPT ![sc] = "none"]
  <2>4. IF k >= KPN THEN Keep(km, phys) /\ Send(Append(sent, Event(VkOf(k), down)))
        ELSE Process(k, down, km, phys, sent)
    BY <2>3 DEF OrdinaryKey
  <2>5. Seen(km, KL_km, keys, sent)
    <3>1. CASE temp
      <4>1. After(keys, <<>>) = keys /\ <<>> \in Seq(LSHIFTs)
        BY AfterNothing
      <4> QED
        BY <3>1, <4>1 DEF Seen, HInv
    <3>2. CASE ~temp
      <4>1. Seen([KL_km EXCEPT !["shift"] = shift.km, !["l3"] = l3.km], KL_km, keys,
                 shift.sent \o l3.sent)
        BY <1>1, TrackersSee DEF HInv
      <4> HIDE DEF shift, l3
      <4> QED
        BY <3>2, <4>1
    <3> QED
      BY <3>1, <3>2
  <2> HIDE DEF km, sent, phys, temp
  <2>6. /\ HomeKMs(km) /\ sent \in Seq(LSHIFTs) /\ Matches(After(keys, sent), km)
        /\ \A m \in Keyed : km[m] = KL_km[m]
    BY <2>5 DEF Seen, Keyed
  <2>7. KeyDone(km, sc, down)
    <3>1. CASE k >= KPN
      <4>1. Keep(km, phys) /\ Send(Append(sent, Event(VkOf(k), down)))
        BY <2>4, <3>1
      <4>2. Matches(keys', km)
        BY <1>1, <2>6, <4>1, AppendedKept
      <4>3. \A m \in Keyed : ~IsKey(sc, m)
        <5> SUFFICES ASSUME NEW m \in Keyed, IsKey(sc, m) PROVE FALSE
          OBVIOUS
        <5>1. k = sc /\ sc \in Bindable
          BY OnlyKey, KeyIsBindable
        <5>2. sc < KPN /\ k \in Nat
          BY <5>1, HookAssumption DEF Bindable, HookAssumption
        <5> QED
          BY <3>1, <5>1, <5>2 DEF KPN
      <4> QED
        BY <2>6, <4>1, <4>2, <4>3, KeptDone
    <3>2. CASE ~(k >= KPN)
      <4>1. k < KPN
        BY <3>2, HookAssumption DEF HookAssumption, KPN
      <4>2. Process(k, down, km, phys, sent)
        BY <2>4, <3>2
      <4>3. \A m \in Keyed : ByPhys(m, km[m], KL_phys)
        BY <2>6 DEF HInv
      <4> QED
        BY <2>6, <4>1, <4>2, <4>3, ProcessDone
    <3> QED
      BY <3>1, <3>2
  <2>8. ASSUME NEW m \in Keyed PROVE ByPhys(m, KL_km'[m], KL_phys')
    <3>1. KL_km'[m].shifts = IF IsKey(sc, m) THEN IF down THEN <<sc>> ELSE <<>>
                             ELSE KL_km[m].shifts
      BY <2>6, <2>7 DEF KeyDone, KeyShifts
    <3>2. ByPhys(m, KL_km[m], KL_phys)
      BY DEF HInv
    <3>3. ByPhys(m, KL_km'[m], [KL_phys EXCEPT ![sc] = down])
      BY <1>1, <3>1, <3>2, ByPhysStep
    <3> QED
      BY <2>1, <3>3
  <2> QED
    BY <2>1, <2>7, <2>8 DEF KeyDone
<1> QED
  BY <1>3, <1>4

LEMMA HInvInit == HomeRow /\ Init => HInv
<1> SUFFICES ASSUME HomeRow, Init PROVE HInv
  OBVIOUS
<1>1. \A m \in Modifiers : KL_km[m] = KM_init
  BY DEF Init
<1>2. /\ KM_init.shifts = <<>> /\ ~KM_init.locked /\ KM_init.in_effect = FALSE
      /\ KM_init.latch_faked = NoVk
  BY DEF KM_init
<1>3. \A m \in Keyed : m \in Modifiers
  BY ModifierNames DEF Keyed
<1>4. GoodKMs(KL_km)
  BY KMInitsGood DEF Init
<1>5. HomeKMs(KL_km)
  BY <1>1, <1>2, <1>4, ModifierNames DEF HomeKMs
<1>6. Matches(keys, KL_km)
  BY <1>1, <1>2, ModifierNames DEF Init, Matches, DrivenBy
<1>7. \A c \in Codes : ~KL_phys[c]
  BY DEF Init
<1>8. \A m \in Keyed : ByPhys(m, KL_km[m], KL_phys)
  BY <1>1, <1>2, <1>3, <1>7 DEF ByPhys
<1> QED
  BY <1>5, <1>6, <1>7, <1>8, IInvInit DEF HInv, Init

\* An event of the key k, with the keys held and the repeating one after it.
LEMMA HInvKeyEvent ==
  ASSUME HomeRow, HInv, IInv', NEW k \in Board, NEW down \in BOOLEAN, KeyEvent(k, down),
         last' \in ToSet(held') \cup {NoKey},
         down => k \in ToSet(held'),
         \A j \in ToSet(held) : j # k => j \in ToSet(held')
  PROVE  HInv'
<1>1. /\ HomeKMs(KL_km') /\ Matches(keys', KL_km')
      /\ \A m \in Keyed : ByPhys(m, KL_km'[m], KL_phys')
      /\ KL_phys' = [KL_phys EXCEPT ![Code(k)] = down]
  BY KeyEventHome
<1>2. KL_active' = KL_active /\ unhandled' = unhandled
  BY DEF KeyEvent, windowVars
<1>3. ASSUME NEW m \in Keyed, NEW c \in Codes, IsKey(c, m), KL_phys'[c]
      PROVE  c \in ToSet(held')
  <2>1. Code(k) = c => k = c
    BY <1>3, OnlyKey
  <2>2. KL_phys \in [Codes -> BOOLEAN]
    BY DEF HInv, IInv, TypeOK
  <2>3. CASE Code(k) = c
    <3>1. KL_phys'[c] = down
      BY <1>1, <2>2, <2>3
    <3> QED
      BY <1>3, <2>1, <2>3, <3>1
  <2>4. CASE Code(k) # c
    <3>1. KL_phys'[c] = KL_phys[c]
      BY <1>1, <2>2, <2>4
    <3>2. c \in ToSet(held)
      BY <1>3, <3>1 DEF HInv
    <3>3. c # k
      <4>1. c \in Bindable
        BY <1>3, KeyIsBindable
      <4>2. c = k => Code(k) = k
        BY <4>1, HomeCodes DEF Bindable
      <4> QED
        BY <2>4, <4>2
    <3> QED
      BY <3>2, <3>3
  <2> QED
    BY <2>3, <2>4
<1> QED
  BY <1>1, <1>2, <1>3 DEF HInv, HomeKMs, Matches, DrivenBy, ByPhys

LEMMA RemovedAt ==
  ASSUME NEW S, NEW s \in Seq(S), NEW i \in 1 .. Len(s)
  PROVE  /\ DOMAIN RemoveAt(s, i) = 1 .. Len(s) - 1
         /\ \A j \in 1 .. Len(s) - 1 : RemoveAt(s, i)[j] = IF j < i THEN s[j] ELSE s[j + 1]
<1> DEFINE a == SubSeq(s, 1, i - 1)
           b == SubSeq(s, i + 1, Len(s))
<1>1. Len(s) \in Nat /\ i \in Nat /\ i >= 1 /\ i <= Len(s)
  OBVIOUS
<1>2. a \in Seq(S) /\ Len(a) = i - 1 /\ \A j \in 1 .. i - 1 : a[j] = s[j]
  BY <1>1
<1>3. b \in Seq(S) /\ Len(b) = Len(s) - i /\ \A j \in 1 .. Len(s) - i : b[j] = s[i + j]
  BY <1>1
<1> HIDE DEF a, b
<1>4. /\ a \o b \in Seq(S) /\ Len(a \o b) = Len(s) - 1
      /\ \A j \in 1 .. Len(s) - 1 : (a \o b)[j] = IF j <= i - 1 THEN a[j] ELSE b[j - (i - 1)]
  <2>1. /\ a \o b \in Seq(S) /\ Len(a \o b) = Len(a) + Len(b)
        /\ \A j \in 1 .. Len(a) + Len(b) : (a \o b)[j] = IF j <= Len(a) THEN a[j]
                                                         ELSE b[j - Len(a)]
    BY <1>2, <1>3, ConcatProperties
  <2>2. Len(a) + Len(b) = Len(s) - 1
    BY <1>1, <1>2, <1>3
  <2> DEFINE ab == a \o b
  <2> HIDE DEF ab
  <2>3. /\ ab \in Seq(S) /\ Len(ab) = Len(s) - 1
        /\ \A j \in 1 .. Len(s) - 1 : ab[j] = IF j <= i - 1 THEN a[j] ELSE b[j - (i - 1)]
    <3>1. /\ ab \in Seq(S) /\ Len(ab) = Len(a) + Len(b)
          /\ \A j \in 1 .. Len(a) + Len(b) : ab[j] = IF j <= Len(a) THEN a[j]
                                                     ELSE b[j - Len(a)]
      BY <2>1 DEF ab
    <3> QED
      BY <1>2, <2>2, <3>1
  <2> QED
    BY <2>3 DEF ab
<1>5. ASSUME NEW j \in 1 .. Len(s) - 1
      PROVE  (a \o b)[j] = IF j < i THEN s[j] ELSE s[j + 1]
  <2>1. CASE j < i
    BY <1>1, <1>2, <1>4, <2>1
  <2>2. CASE ~(j < i)
    <3>1. j - (i - 1) \in 1 .. Len(s) - i /\ i + (j - (i - 1)) = j + 1 /\ ~(j <= i - 1)
      BY <1>1, <2>2
    <3> QED
      BY <1>3, <1>4, <2>2, <3>1
  <2> QED
    BY <2>1, <2>2
<1>6. RemoveAt(s, i) = a \o b
  BY DEF RemoveAt, a, b
<1>7. DOMAIN (a \o b) = 1 .. Len(s) - 1
  BY <1>4
<1> QED
  BY <1>5, <1>6, <1>7

LEMMA HInvNext == HomeRow /\ HInv /\ [Next]_vars => HInv'
<1> SUFFICES ASSUME HomeRow, HInv, [Next]_vars PROVE HInv'
  OBVIOUS
<1>0. IInv' /\ IInv
  BY IInvNext DEF HInv
<1>1. held \in Seq(Board) /\ last \in Board \cup {NoKey} /\ last \in ToSet(held) \cup {NoKey}
  BY DEF HInv, IInv, TypeOK
<1>2. ASSUME NEW k \in Board, PressKey(k) PROVE HInv'
  <2>1. held' = Append(held, k) /\ last' = k /\ KeyEvent(k, TRUE)
    BY <1>2 DEF PressKey
  <2>2. k \in ToSet(held') /\ \A j \in ToSet(held) : j \in ToSet(held')
    <3>1. /\ DOMAIN held = 1 .. Len(held) /\ Len(held) \in Nat
          /\ DOMAIN Append(held, k) = 1 .. Len(held) + 1
          /\ Append(held, k)[Len(held) + 1] = k
          /\ \A i \in 1 .. Len(held) : Append(held, k)[i] = held[i]
      BY <1>1
    <3> QED
      BY <2>1, <3>1 DEF ToSet
  <2> QED
    BY <1>0, <2>1, <2>2, HInvKeyEvent
<1>3. CASE RepeatKey
  <2>1. last \in ToSet(held) /\ last \in Board /\ KeyEvent(last, TRUE)
        /\ held' = held /\ last' = last
    BY <1>1, <1>3 DEF RepeatKey, userVars
  <2>2. ToSet(held') = ToSet(held)
    BY <2>1
  <2> QED
    BY <1>0, <2>1, <2>2, HInvKeyEvent
<1>4. ASSUME NEW k \in Board, ReleaseKey(k) PROVE HInv'
  <2>1. PICK i \in DOMAIN held : held[i] = k /\ held' = RemoveAt(held, i)
    BY <1>4 DEF ReleaseKey
  <2>2. KeyEvent(k, FALSE) /\ last' = IF last = k THEN NoKey ELSE last
    BY <1>4 DEF ReleaseKey
  <2>3. \A j \in ToSet(held) : j # k => j \in ToSet(held')
    <3> SUFFICES ASSUME NEW n \in DOMAIN held, held[n] # k
                 PROVE  held[n] \in ToSet(RemoveAt(held, i))
      BY <2>1 DEF ToSet
    <3> DEFINE rest == RemoveAt(held, i)
    <3>1. /\ DOMAIN held = 1 .. Len(held) /\ Len(held) \in Nat /\ n # i
          /\ i \in 1 .. Len(held) /\ n \in 1 .. Len(held)
      BY <1>1, <2>1
    <3>2. /\ DOMAIN rest = 1 .. Len(held) - 1
          /\ \A j \in 1 .. Len(held) - 1 : rest[j] = IF j < i THEN held[j] ELSE held[j + 1]
      BY <1>1, <3>1, RemovedAt
    <3> HIDE DEF rest
    <3>3. CASE n < i
      <4>1. n \in 1 .. Len(held) - 1 /\ rest[n] = held[n]
        BY <3>1, <3>2, <3>3
      <4> QED
        BY <3>2, <4>1 DEF ToSet, rest
    <3>4. CASE ~(n < i)
      <4>1. n - 1 \in 1 .. Len(held) - 1 /\ ~(n - 1 < i) /\ (n - 1) + 1 = n
        BY <3>1, <3>4
      <4>2. rest[n - 1] = held[n]
        BY <3>2, <4>1
      <4> QED
        BY <3>2, <4>1, <4>2 DEF ToSet, rest
    <3> QED
      BY <3>3, <3>4
  <2>4. last' \in ToSet(held') \cup {NoKey}
    BY <1>1, <2>2, <2>3
  <2> QED
    BY <1>0, <2>2, <2>3, <2>4, HInvKeyEvent
<1>5. ASSUME NEW w \in Windows, SwitchWindow(w) PROVE FALSE
  BY <1>5 DEF SwitchWindow, HomeRow, HInv
<1>6. CASE TaskSwitch
  BY <1>6 DEF TaskSwitch, HInv
<1>7. CASE Toggle
  BY <1>7 DEF Toggle, HomeRow
<1>8. CASE UNCHANGED vars
  BY <1>0, <1>8 DEF vars, hookVars, userVars, windowVars, HInv, HomeKMs, Matches, DrivenBy, ByPhys
<1> QED
  BY <1>2, <1>3, <1>4, <1>5, <1>6, <1>7, <1>8 DEF Next

-----------------------------------------------------------------------------
(* What follows from the invariant. *)

LEMMA HInvModVks ==
  ASSUME HInv
  PROVE  \A vk \in ModVks : /\ vk \in keys => vk \in {"LSHIFT", "LCONTROL"}
                            /\ vk = "LSHIFT" => (vk \in keys <=> KL_km["shift"].in_effect)
                            /\ vk = "LCONTROL" => (vk \in keys <=> KL_km["control"].in_effect)
BY DEF HInv, Matches, DrivenBy

\* On a home row board, a modifier that is in effect is one Windows has down.
THEOREM EffectReachesWindows ==
  ASSUME HomeRow
  PROVE  Spec => []InEffectInOs
<1>1. HInv => InEffectInOs
  <2> SUFFICES ASSUME HInv, NEW m \in {"shift", "control", "alt", "win"}, KL_km[m].in_effect
               PROVE  InOs(m)
    BY DEF InEffectInOs
  <2>1. m \notin {"alt", "win"}
    BY AltWinOff DEF HInv
  <2>2. "LSHIFT" \in ModVks /\ "LCONTROL" \in ModVks
    BY ModVksIs
  <2>3. CASE m = "shift"
    BY <2>2, <2>3, HInvModVks DEF InOs, VksOf
  <2>4. CASE m = "control"
    BY <2>2, <2>4, HInvModVks DEF InOs, VksOf
  <2> QED
    BY <2>1, <2>3, <2>4
<1> QED
  BY <1>1, HInvInit, HInvNext, PTL DEF Spec

\* The left shift that is down for Windows and not held is the one faked for a
\* latch: on a home row board the tracker of shift is in effect.
THEOREM FakeIsTracked ==
  ASSUME HomeRow
  PROVE  Spec => []FakedShiftTracked
<1>1. HInv => FakedShiftTracked
  BY HInvModVks, ModVksIs DEF FakedShiftTracked
<1> QED
  BY <1>1, HInvInit, HInvNext, PTL DEF Spec

LEMMA NothingHeld ==
  ASSUME HInv, held = <<>>, NEW m \in Modifiers, KL_km[m].latch = NoKey
  PROVE  ~KL_km[m].in_effect
<1>1. KL_km[m].in_effect = Reason(KL_km[m]) /\ ~KL_km[m].locked
  BY DEF HInv, HomeKMs, GoodKMs, GoodKM
<1>2. KL_km[m].shifts = <<>>
  <2>1. CASE m \in Keyed
    <3>1. \A c \in Codes : IsKey(c, m) => ~KL_phys[c]
      BY <2>1 DEF HInv, ToSet
    <3> QED
      BY <2>1, <3>1 DEF HInv, ByPhys
  <2>2. CASE m \notin Keyed
    BY <2>2 DEF HInv, HomeKMs, Keyed
  <2> QED
    BY <2>1, <2>2
<1> QED
  BY <1>1, <1>2 DEF Reason

\* On a home row board, with every key up and nothing locked or latched no
\* modifier is in effect.
THEOREM RestNeutral ==
  ASSUME HomeRow
  PROVE  Spec => []RestIsNeutral
<1>1. HInv => RestIsNeutral
  BY NothingHeld DEF RestIsNeutral
<1> QED
  BY <1>1, HInvInit, HInvNext, PTL DEF Spec

\* On a home row board, with every key up and no latch waiting Windows has no
\* modifier key down.
THEOREM NoKeyStuck ==
  ASSUME HomeRow
  PROVE  Spec => []NothingStuck
<1>1. HInv => NothingStuck
  <2> SUFFICES ASSUME HInv, held = <<>>, \A m \in Modifiers : KL_km[m].latch = NoKey,
                      NEW vk \in ModVks, vk \in keys
               PROVE  FALSE
    BY DEF NothingStuck
  <2>1. ~KL_km["shift"].in_effect /\ ~KL_km["control"].in_effect
    BY NothingHeld, ModifierNames
  <2> QED
    BY <2>1, HInvModVks
<1> QED
  BY <1>1, HInvInit, HInvNext, PTL DEF Spec

\* On a home row board, a key that changes no tracker leaves every modifier key
\* in Windows as it was, whatever it is altered to.
THEOREM AlterationEnds ==
  ASSUME HomeRow
  PROVE  Spec => AlterationIsTemporary
<1> DEFINE Temporary ==
      \A k \in NewlyPressed :
        KL_phys_mods[Code(k)] \notin Modifiers /\ KL_km' = KL_km
          => keys' \cap ModVks = keys \cap ModVks
<1>1. HInv /\ HInv' /\ [Next]_vars => [Temporary]_vars
  <2> SUFFICES ASSUME HInv, HInv', KL_km' = KL_km
               PROVE  keys' \cap ModVks = keys \cap ModVks
    OBVIOUS
  <2>1. Matches(keys, KL_km)
    BY DEF HInv
  <2>2. Matches(keys', KL_km')
    BY DEF HInv, Matches, DrivenBy
  <2> QED
    BY <2>1, <2>2 DEF Matches
<1>2. HInv /\ [Next]_vars => HInv'
  BY HInvNext
<1> QED
  BY <1>1, <1>2, HInvInit, PTL DEF Spec, AlterationIsTemporary

-----------------------------------------------------------------------------
(* A Compose sequence keeps its keys to itself. *)

\* What is sent is nothing, or one event of a modifier key.
ModifierSent(events) ==
  events = <<>> \/ \E vk \in ModVks, down \in BOOLEAN : events = <<Event(vk, down)>>

LEMMA ModifierSentKeeps ==
  ASSUME NEW events, ModifierSent(events), Send(events)
  PROVE  keys' \ ModVks \subseteq keys
<1>1. keys' = After(keys, events)
  BY DEF Send, After
<1>2. CASE events = <<>>
  BY <1>1, <1>2, AfterNothing
<1>3. CASE \E vk \in ModVks, down \in BOOLEAN : events = <<Event(vk, down)>>
  <2>1. PICK vk \in ModVks, down \in BOOLEAN : events = <<Event(vk, down)>>
    BY <1>3
  <2>2. keys' = Press(keys, Event(vk, down))
    BY <1>1, <2>1, AfterOne
  <2> QED
    BY <2>2 DEF Press, Event
<1> QED
  BY <1>2, <1>3 DEF ModifierSent

LEMMA LatchSends ==
  ASSUME NEW km \in KMs(Codes, {"LSHIFT"}), NEW sc
  PROVE  ModifierSent(KM_latch_event(km, TRUE, sc).sent)
<1> DEFINE km1 == [km EXCEPT !.locked = FALSE]
           l == Latched(km1, TRUE, sc)
           on == l.km.latch # NoKey \/ l.km.shifts # <<>>
<1>1. km1.latch_faked = km.latch_faked /\ km.latch_faked \in {"LSHIFT", NoVk}
  BY DEF KMs
<1> HIDE DEF km1
<1>2. \/ l.sent = <<>>
      \/ km1.latch_faked # NoVk /\ l.sent = <<KeyDown(km1.latch_faked)>>
  BY DEF Latched, Silent
<1>3. DOMAIN l = {"km", "sent"}
  BY DEF Latched, Silent
<1>4. KM_latch_event(km, TRUE, sc) = [l EXCEPT !.km.in_effect = on]
  BY DEF KM_latch_event, km1
<1> HIDE DEF l, on
<1>5. KM_latch_event(km, TRUE, sc).sent = l.sent
  BY <1>3, <1>4
<1>6. KeyDown("LSHIFT") = Event("LSHIFT", TRUE) /\ "LSHIFT" \in ModVks
  BY ModVksIs DEF KeyDown, Event
<1>7. l.sent = <<>> \/ l.sent = <<Event("LSHIFT", TRUE)>>
  BY <1>1, <1>2, <1>6
<1>8. ModifierSent(l.sent)
  BY <1>6, <1>7 DEF ModifierSent
<1> QED
  BY <1>5, <1>8

LEMMA SequenceProcess ==
  ASSUME IInv, KL_dk_in_effect, \A m \in {"control", "alt", "win"} : ~KL_km[m].in_effect,
         NEW k, NEW phys, Process(k, TRUE, KL_km, phys, <<>>)
  PROVE  keys' \ ModVks \subseteq keys
<1> DEFINE sc == Code(k)
           lv == Level(KL_km)
           lk == Kly[lv][sc]
<1>1. ~AlteredByModifier(KL_km, sc, lv, lk)
  BY DEF AlteredByModifier
<1> HIDE DEF sc, lv, lk
<1>2. CASE lk.type = "ka"
  <2>1. KA_call(lk.binding, KL_km, phys, TRUE, sc, <<>>)
    BY <1>1, <1>2 DEF Process, sc, lv, lk
  <2>2. \E events : ModifierSent(events) /\ Send(events)
    <3>1. CASE KA_control(KL_km, phys, TRUE, sc, <<>>)
      <4>1. Send(Append(<<>>, Event("LCONTROL", TRUE)))
        BY <3>1 DEF KA_control
      <4>2. Append(<<>>, Event("LCONTROL", TRUE)) = <<Event("LCONTROL", TRUE)>>
        OBVIOUS
      <4>3. "LCONTROL" \in ModVks
        BY ModVksIs
      <4>4. ModifierSent(<<Event("LCONTROL", TRUE)>>)
        BY <4>3 DEF ModifierSent
      <4> QED
        BY <4>1, <4>2, <4>4
    <3>2. CASE KA_l5_shift(KL_km, phys, TRUE, sc, <<>>)
      BY <3>2 DEF KA_l5_shift, ModifierSent
    <3>3. CASE KA_l5_lock(KL_km, phys, TRUE, sc, <<>>)
      BY <3>3 DEF KA_l5_lock, ModifierSent
    <3>4. CASE KA_l3_latch(KL_km, phys, TRUE, sc, <<>>)
      <4> DEFINE events == KM_latch_event(KL_km["l3"], TRUE, sc).sent
      <4>1. Send(<<>> \o events)
        BY <3>4 DEF KA_l3_latch
      <4>2. ModifierSent(events)
        <5>1. KL_km["l3"] \in KMs(Codes, {"LSHIFT"})
          BY ModifierNames DEF IInv, GoodKMs
        <5> QED
          BY <5>1, LatchSends
      <4> HIDE DEF events
      <4>3. <<>> \o events = events
        BY <4>2 DEF ModifierSent
      <4> QED
        BY <4>1, <4>2, <4>3
    <3>5. CASE KA_l2_latch(KL_km, phys, TRUE, sc, <<>>)
      <4> DEFINE faked == [KL_km["shift"] EXCEPT !.latch_faked = "LSHIFT"]
                 events == KM_latch_event(faked, TRUE, sc).sent
      <4>1. Send(<<>> \o events)
        BY <3>5 DEF KA_l2_latch
      <4>2. ModifierSent(events)
        <5>1. KL_km["shift"] \in KMs(Codes, {"LSHIFT"})
          BY ModifierNames DEF IInv, GoodKMs
        <5>2. faked \in KMs(Codes, {"LSHIFT"})
          BY <5>1 DEF KMs
        <5> HIDE DEF faked
        <5> QED
          BY <5>2, LatchSends
      <4> HIDE DEF events
      <4>3. <<>> \o events = events
        BY <4>2 DEF ModifierSent
      <4> QED
        BY <4>1, <4>2, <4>3
    <3> QED
      BY <2>1, <3>1, <3>2, <3>3, <3>4, <3>5 DEF KA_call
  <2> QED
    BY <2>2, ModifierSentKeeps
<1>3. CASE lk.type # "ka"
  <2>1. \/ NotAltered(k, TRUE, lv, <<>>)
        \/ ScancodeSent(TRUE, lv, lk, <<>>)
        \/ CharSent(TRUE, lk, <<>>)
        \/ DeadKeyCalled(TRUE, lk.binding, <<>>)
        \/ VkSent(KL_km, TRUE, lv, lk, <<>>)
    BY <1>1, <1>3 DEF Process, sc, lv, lk
  <2>2. lv \in 0 .. 5
    BY LevelType, HookAssumption DEF IInv, HookAssumption, KLVN, lv
  <2>3. Send(<<>>)
    <3>1. CASE NotAltered(k, TRUE, lv, <<>>)
      <4>1. lv < 4 \/ ~(lv < 2)
        BY <2>2
      <4> QED
        BY <3>1, <4>1 DEF NotAltered
    <3>2. CASE ScancodeSent(TRUE, lv, lk, <<>>)
      BY <3>2 DEF ScancodeSent
    <3>3. CASE CharSent(TRUE, lk, <<>>)
      BY <3>3 DEF CharSent
    <3>4. CASE DeadKeyCalled(TRUE, lk.binding, <<>>)
      BY <3>4 DEF DeadKeyCalled
    <3>5. CASE VkSent(KL_km, TRUE, lv, lk, <<>>)
      BY <3>5 DEF VkSent
    <3> QED
      BY <2>1, <3>1, <3>2, <3>3, <3>4, <3>5
  <2> QED
    BY <2>3, ModifierSentKeeps DEF ModifierSent
<1> QED
  BY <1>2, <1>3

LEMMA SequenceKey ==
  ASSUME WinKeysOutside, IInv, KL_dk_in_effect, KL_active, window \notin AdminWindows,
         \A m \in {"control", "alt", "win"} : ~KL_km[m].in_effect,
         NEW k \in Board, k < KPN, KeyEvent(k, TRUE)
  PROVE  keys' \ ModVks \subseteq keys
<1> DEFINE sc == Code(k)
<1>1. k \in Nat /\ sc = k /\ sc \in Codes
  BY HookAssumption DEF HookAssumption, Codes, Code, KPN, SC_EXTENDED_BIT
<1>2. ModifierKey(k, TRUE) \/ OrdinaryKey(k, TRUE)
  BY DEF KeyEvent, KL_proc
<1>3. CASE ModifierKey(k, TRUE)
  <2>1. KL_phys_mods[sc] \in Modifiers /\ Send(<<Event(VkOf(k), TRUE)>>)
    BY <1>3 DEF ModifierKey
  <2>2. InitialMods[sc] = KL_phys_mods[sc]
    BY <1>1, <2>1, ModifierNames DEF IInv, GoodPhys
  <2>3. ~\E j \in Board : Code(j) = sc /\ ModOfVk(VkOf(j)) = "win"
    <3> SUFFICES ASSUME NEW j \in Board, Code(j) = sc, ModOfVk(VkOf(j)) = "win" PROVE FALSE
      OBVIOUS
    <3>1. Code(j) >= KPN
      BY DEF WinKeysOutside
    <3> QED
      BY <1>1, <3>1 DEF KPN
  <2>4. InitialMods[sc] = ModOfVk(VkOf(k))
    BY <1>1, <2>3 DEF InitialMods
  <2>5. ModOfVk(VkOf(k)) # "none"
    BY <2>1, <2>2, <2>4, ModifierNames
  <2>6. VkOf(k) \in ModVks
    BY <2>5, ModVksIs DEF ModOfVk
  <2> QED
    BY <2>1, <2>6, ModifierSentKeeps DEF ModifierSent
<1>4. CASE OrdinaryKey(k, TRUE)
  <2> DEFINE temp == KL_phys_mods[sc] = "temp"
             shift == KM_nonmod_event(KL_km["shift"], TRUE, sc)
             l3 == KM_nonmod_event(KL_km["l3"], TRUE, sc)
             km == IF temp THEN KL_km
                   ELSE [KL_km EXCEPT !["shift"] = shift.km, !["l3"] = l3.km]
             sent == IF temp THEN <<>> ELSE shift.sent \o l3.sent
             phys == [KL_phys_mods EXCEPT ![sc] = "none"]
  <2>0. ~(k >= KPN)
    BY <1>1 DEF KPN
  <2>1. Process(k, TRUE, km, phys, sent)
    BY <1>4, <2>0 DEF OrdinaryKey
  <2>2. shift = Silent(KL_km["shift"]) /\ l3 = Silent(KL_km["l3"])
    BY DEF KM_nonmod_event
  <2> HIDE DEF shift, l3
  <2>3. shift.km = KL_km["shift"] /\ l3.km = KL_km["l3"] /\ shift.sent = <<>> /\ l3.sent = <<>>
    BY <2>2 DEF Silent
  <2>4. km = KL_km
    <3>1. KL_km = [m \in Modifiers |-> KL_km[m]]
      BY DEF IInv, GoodKMs
    <3> QED
      BY <2>3, <3>1
  <2>5. sent = <<>>
    BY <2>3
  <2> HIDE DEF km, sent, phys
  <2> QED
    BY <2>1, <2>4, <2>5, SequenceProcess
<1> QED
  BY <1>2, <1>3, <1>4

\* A key that goes down in the middle of a sequence is for the sequence: Windows
\* sees none but the modifiers, whatever is bound to it, on every board whose
\* win keys are where they are.
THEOREM SequenceKeepsKeys ==
  ASSUME WinKeysOutside
  PROVE  Spec => SequenceSwallows
<1> DEFINE Swallows ==
      \A k \in NewlyPressed :
        KL_dk_in_effect /\ KL_active /\ window \notin AdminWindows /\ k < KPN
        /\ (\A m \in {"control", "alt", "win"} : ~KL_km[m].in_effect)
          => keys' \ ModVks \subseteq keys
<1>1. ASSUME IInv, Next, NEW k \in NewlyPressed PROVE PressKey(k) /\ k \in Board
  <2>1. held \in Seq(Board) /\ k \in ToSet(held') /\ k \notin ToSet(held)
    BY <1>1 DEF IInv, TypeOK, NewlyPressed
  <2>2. CASE \E j \in Board : PressKey(j)
    <3>1. PICK j \in Board : PressKey(j)
      BY <2>2
    <3>2. held' = Append(held, j)
      BY <3>1 DEF PressKey
    <3>3. /\ DOMAIN held = 1 .. Len(held) /\ Len(held) \in Nat
          /\ DOMAIN Append(held, j) = 1 .. Len(held) + 1
          /\ Append(held, j)[Len(held) + 1] = j
          /\ \A i \in 1 .. Len(held) : Append(held, j)[i] = held[i]
      BY <2>1
    <3>4. k = j
      BY <2>1, <3>2, <3>3 DEF ToSet
    <3> QED
      BY <3>1, <3>4
  <2>3. CASE \E j \in Board : ReleaseKey(j)
    <3>1. PICK i \in DOMAIN held : held' = RemoveAt(held, i)
      BY <2>3 DEF ReleaseKey
    <3> DEFINE rest == RemoveAt(held, i)
    <3>2. i \in 1 .. Len(held) /\ DOMAIN held = 1 .. Len(held) /\ Len(held) \in Nat
      BY <2>1
    <3>3. /\ DOMAIN rest = 1 .. Len(held) - 1
          /\ \A j \in 1 .. Len(held) - 1 : rest[j] = IF j < i THEN held[j] ELSE held[j + 1]
      BY <2>1, <3>2, RemovedAt
    <3> HIDE DEF rest
    <3>4. PICK j \in 1 .. Len(held) - 1 : rest[j] = k
      BY <2>1, <3>1, <3>3 DEF ToSet, rest
    <3>5. j \in DOMAIN held /\ j + 1 \in DOMAIN held
      BY <3>2
    <3> QED
      BY <2>1, <3>3, <3>4, <3>5 DEF ToSet
  <2>4. CASE UNCHANGED held
    BY <2>1, <2>4
  <2> QED
    BY <1>1, <2>2, <2>3, <2>4 DEF Next, RepeatKey, SwitchWindow, TaskSwitch, Toggle, userVars
<1>2. IInv /\ [Next]_vars => [Swallows]_vars
  <2> SUFFICES ASSUME IInv, Next, NEW k \in NewlyPressed,
                      KL_dk_in_effect, KL_active, window \notin AdminWindows, k < KPN,
                      \A m \in {"control", "alt", "win"} : ~KL_km[m].in_effect
               PROVE  keys' \ ModVks \subseteq keys
    OBVIOUS
  <2>1. k \in Board /\ KeyEvent(k, TRUE)
    BY <1>1 DEF PressKey
  <2> QED
    BY <2>1, SequenceKey
<1> QED
  BY <1>2, IInvInit, IInvNext, PTL DEF Spec, SequenceSwallows

-----------------------------------------------------------------------------
(* The trackers of the hook implement the modifier that km.c promises, on  *)
(* every board that has one key for each (OneKeyEach).                     *)
(*                                                                         *)
(* What an event does to one tracker is found out first (TrackerStep), for *)
(* each path through KL_proc; that such a step is one of the promised      *)
(* modifier then follows from the operations of km.c alone.                *)
Tracked == {"shift", "control", "l3", "l5"}

\* c is, at some level, the latch key of m.
LatchKey(m, c) ==
  /\ c \in Bindable
  /\ \E lv \in DOMAIN Kly :
       /\ Kly[lv][c].type = "ka"
       /\ Kly[lv][c].binding = IF m = "l3" THEN "l3_latch" ELSE "l2_latch"

\* The tracker of m has in its array the key of m exactly while that is down,
\* as the hook has seen it; and only a latch key of m can be its latch.
Sound(m, km, phys) ==
  /\ km.shifts # <<>> => \E c \in KeysOf[m] : phys[c] /\ km.shifts = <<c>>
  /\ \A c \in KeysOf[m] : phys[c] => km.shifts = <<c>>
  /\ KeysOf[m] # {} => km.latch = NoKey /\ ~km.locked
  /\ km.latch # NoKey => LatchKey(m, km.latch)
  /\ km.latch_releases # ReleasesMod - 1

RefInv == IInv /\ \A m \in Tracked : Sound(m, KL_km[m], KL_phys)

-----------------------------------------------------------------------------
(* The latches. *)

\* The steps of the latch of Modifier.
LatchMoves(a, b) ==
  \/ a = b
  \/ a \in {"off", "armed"} /\ b = "down"
  \/ a \in {"down", "used"} /\ b = IF a = "down" THEN "armed" ELSE "off"
  \/ a \in {"down", "armed"} /\ b = IF a = "down" THEN "used" ELSE "off"

LEMMA LatchStates ==
  ASSUME NEW km
  PROVE  /\ km.latch = NoKey => LatchIn(km) = "off"
         /\ km.latch # NoKey /\ ~km.latch_released /\ km.latch_releases = 0
              => LatchIn(km) = "down"
         /\ km.latch # NoKey /\ ~km.latch_released /\ km.latch_releases # 0
              => LatchIn(km) = "used"
         /\ km.latch # NoKey /\ km.latch_released /\ km.latch_releases = 0
              => LatchIn(km) = "armed"
         /\ km.latch # NoKey /\ km.latch_released /\ km.latch_releases # 0
              => LatchIn(km) = "off"
BY DEF LatchIn

LEMMA ReleaseFields ==
  ASSUME NEW km \in KMs(Codes, {"LSHIFT"})
  PROVE  LET new == l_release(km).km IN
         /\ new.shifts = km.shifts /\ new.locked = km.locked /\ new.latch = km.latch
         /\ new.latch_released = km.latch_released /\ new.latch_releases = km.latch_releases
<1> DEFINE on == km.shifts # <<>> \/ km.latch_releases = 0
<1>1. CASE on \/ km.latch_faked = NoVk
  <2> DEFINE rec == [km EXCEPT !.in_effect = on]
  <2>1. l_release(km).km = rec
    BY <1>1 DEF l_release, Silent
  <2> HIDE DEF on
  <2>2. /\ rec.shifts = km.shifts /\ rec.locked = km.locked /\ rec.latch = km.latch
        /\ rec.latch_released = km.latch_released /\ rec.latch_releases = km.latch_releases
    BY DEF KMs
  <2> QED
    BY <2>1, <2>2
<1>2. CASE ~(on \/ km.latch_faked = NoVk)
  <2> DEFINE rec == [km EXCEPT !.in_effect = FALSE, !.latch_faked = NoVk]
  <2>1. l_release(km).km = rec
    BY <1>2 DEF l_release, Silent
  <2>2. /\ rec.shifts = km.shifts /\ rec.locked = km.locked /\ rec.latch = km.latch
        /\ rec.latch_released = km.latch_released /\ rec.latch_releases = km.latch_releases
    BY DEF KMs
  <2> QED
    BY <2>1, <2>2
<1> QED
  BY <1>1, <1>2

\* What an event of the key sc does to the latch of a tracker that is told it is
\* the event of no modifier.
NonmodFields(km, new, down, sc) ==
  /\ new.shifts = km.shifts /\ new.locked = km.locked
  /\ \/ new.latch = km.latch /\ LatchIn(new) = LatchIn(km)
     \/ /\ ~down /\ new.latch = NoKey
        /\ LatchIn(km) \in {"armed", "off"} /\ LatchIn(new) = "off"
     \/ /\ ~down /\ km.latch = sc /\ new.latch = km.latch
        /\ LatchIn(km) \in {"down", "used"}
        /\ LatchIn(new) = IF LatchIn(km) = "down" THEN "armed" ELSE "off"
     \/ /\ ~down /\ km.latch # NoKey /\ km.latch # sc /\ new.latch = km.latch
        /\ LatchIn(km) \in {"down", "used"} /\ LatchIn(new) = "used"

LEMMA NonmodLatch ==
  ASSUME NEW km \in KMs(Codes, {"LSHIFT"}), NEW down \in BOOLEAN, NEW sc \in Codes,
         km.latch_releases # ReleasesMod - 1
  PROVE  NonmodFields(km, KM_nonmod_event(km, down, sc).km, down, sc)
<1> DEFINE new == KM_nonmod_event(km, down, sc).km
<1>1. CASE km.latch = NoKey \/ down
  <2>1. new = km
    BY <1>1 DEF KM_nonmod_event, Silent
  <2> QED
    BY <2>1 DEF NonmodFields
<1>2. CASE km.latch # NoKey /\ ~down /\ km.latch_released
  <2> DEFINE rec == [km EXCEPT !.latch = NoKey, !.latch_releases = 1]
  <2>1. new = l_release(rec).km
    BY <1>2 DEF KM_nonmod_event
  <2>2. rec \in KMs(Codes, {"LSHIFT"})
    BY Counts DEF KMs
  <2>3. rec.shifts = km.shifts /\ rec.locked = km.locked /\ rec.latch = NoKey
    BY DEF KMs
  <2> HIDE DEF rec, new
  <2>4. new.shifts = km.shifts /\ new.locked = km.locked /\ new.latch = NoKey
    BY <2>1, <2>2, <2>3, ReleaseFields
  <2>5. LatchIn(new) = "off" /\ LatchIn(km) \in {"armed", "off"}
    BY <1>2, <2>4, LatchStates
  <2> QED
    BY <1>2, <2>4, <2>5 DEF NonmodFields, new
<1>3. CASE km.latch # NoKey /\ ~down /\ ~km.latch_released /\ km.latch = sc
  <2> DEFINE rec == [km EXCEPT !.latch_released = TRUE]
  <2>1. new = l_release(rec).km
    BY <1>3 DEF KM_nonmod_event
  <2>2. rec \in KMs(Codes, {"LSHIFT"})
    BY DEF KMs
  <2>3. /\ rec.shifts = km.shifts /\ rec.locked = km.locked /\ rec.latch = km.latch
        /\ rec.latch_released /\ rec.latch_releases = km.latch_releases
    BY DEF KMs
  <2> HIDE DEF rec, new
  <2>4. /\ new.shifts = km.shifts /\ new.locked = km.locked /\ new.latch = km.latch
        /\ new.latch_released /\ new.latch_releases = km.latch_releases
    BY <2>1, <2>2, <2>3, ReleaseFields
  <2>5. /\ LatchIn(km) \in {"down", "used"}
        /\ LatchIn(new) = IF LatchIn(km) = "down" THEN "armed" ELSE "off"
    BY <1>3, <2>4, LatchStates
  <2> QED
    BY <1>3, <2>4, <2>5 DEF NonmodFields, new
<1>4. CASE km.latch # NoKey /\ ~down /\ ~km.latch_released /\ km.latch # sc
  <2> DEFINE count == (km.latch_releases + 1) % ReleasesMod
             rec == [km EXCEPT !.latch_releases = count]
  <2>1. new = rec
    BY <1>4 DEF KM_nonmod_event, Silent
  <2>2. km.latch_releases \in 0 .. ReleasesMod - 1 /\ ReleasesMod \in Nat
    BY Counts DEF KMs
  <2>3. count = km.latch_releases + 1
    <3>1. km.latch_releases + 1 \in 0 .. ReleasesMod - 1
      BY <2>2
    <3> QED
      BY <2>2, <3>1
  <2>4. count # 0
    BY <2>2, <2>3
  <2> HIDE DEF count
  <2>5. /\ rec.shifts = km.shifts /\ rec.locked = km.locked /\ rec.latch = km.latch
        /\ rec.latch_released = km.latch_released /\ rec.latch_releases = count
    BY DEF KMs
  <2> HIDE DEF rec, new
  <2>6. LatchIn(km) \in {"down", "used"} /\ LatchIn(new) = "used"
    BY <1>4, <2>1, <2>4, <2>5, LatchStates
  <2> QED
    BY <1>4, <2>1, <2>5, <2>6 DEF NonmodFields, new
<1> QED
  BY <1>1, <1>2, <1>3, <1>4

\* What the latch key does to the latch: the first event of it sets the latch,
\* and its release leaves it armed or, if it has acted as shift, off.
LatchKeyState(a, down) ==
  IF down THEN IF a \in {"off", "armed"} THEN "down" ELSE a
  ELSE IF a \in {"down", "armed"} THEN "armed" ELSE "off"

LEMMA LatchEvent ==
  ASSUME NEW km \in KMs(Codes, {"LSHIFT"}), NEW down \in BOOLEAN, NEW sc \in Codes
  PROVE  LET new == KM_latch_event(km, down, sc).km IN
         /\ new.shifts = km.shifts /\ ~new.locked /\ new.latch \in {km.latch, sc, NoKey}
         /\ LatchIn(new) = LatchKeyState(LatchIn(km), down)
<1> DEFINE km1 == [km EXCEPT !.locked = FALSE]
           l == Latched(km1, down, sc).km
           on == l.latch # NoKey \/ l.shifts # <<>>
           new == [l EXCEPT !.in_effect = on]
<1>0. sc # NoKey
  BY CodeNotNone
<1>1. /\ km1 \in KMs(Codes, {"LSHIFT"}) /\ km1.locked = FALSE
      /\ km1.shifts = km.shifts /\ km1.latch = km.latch
      /\ km1.latch_released = km.latch_released /\ km1.latch_releases = km.latch_releases
  BY DEF KMs
<1>2. KM_latch_event(km, down, sc).km = new
  BY DEF KM_latch_event, Latched, Silent
<1>3. l \in KMs(Codes, {"LSHIFT"}) /\ l.shifts = km.shifts /\ l.locked = FALSE
  BY <1>1, LatchedFacts
<1> HIDE DEF on
<1>4. LatchIn(new) = LatchIn(l) /\ new.shifts = l.shifts /\ new.locked = l.locked
      /\ new.latch = l.latch
  <2> HIDE DEF l
  <2>1. /\ new.shifts = l.shifts /\ new.locked = l.locked /\ new.latch = l.latch
        /\ new.latch_released = l.latch_released /\ new.latch_releases = l.latch_releases
    BY <1>3 DEF KMs
  <2> HIDE DEF new
  <2> QED
    BY <2>1 DEF LatchIn
<1> HIDE DEF km1
<1>5. l.latch \in {km.latch, sc, NoKey} /\ LatchIn(l) = LatchKeyState(LatchIn(km), down)
  <2>1. CASE down /\ (km.latch = NoKey \/ km.latch_released)
    <3> DEFINE rec == [km1 EXCEPT !.latch = sc, !.latch_released = FALSE,
                                  !.latch_releases = 0]
    <3>1. l = rec
      BY <1>1, <2>1 DEF Latched
    <3>2. rec.latch = sc /\ rec.latch_released = FALSE /\ rec.latch_releases = 0
      BY <1>1 DEF KMs
    <3> HIDE DEF rec, l
    <3>3. LatchIn(l) = "down"
      BY <1>0, <3>1, <3>2, LatchStates
    <3>4. LatchIn(km) \in {"off", "armed"}
      BY <2>1, LatchStates
    <3> QED
      BY <2>1, <3>1, <3>2, <3>3, <3>4 DEF LatchKeyState
  <2>2. CASE down /\ ~(km.latch = NoKey \/ km.latch_released)
    <3>1. l = km1
      BY <1>1, <2>2 DEF Latched, Silent
    <3> HIDE DEF l
    <3>2. LatchIn(l) = LatchIn(km)
      BY <1>1, <3>1 DEF LatchIn
    <3>3. LatchIn(km) \in {"down", "used"}
      BY <2>2, LatchStates
    <3> QED
      BY <1>1, <2>2, <3>1, <3>2, <3>3 DEF LatchKeyState
  <2>3. CASE ~down /\ km.latch_releases = 0
    <3> DEFINE rec == [km1 EXCEPT !.latch_released = TRUE]
    <3>1. l = rec
      BY <1>1, <2>3 DEF Latched, Silent
    <3>2. rec.latch = km.latch /\ rec.latch_released /\ rec.latch_releases = 0
      BY <1>1, <2>3 DEF KMs
    <3> HIDE DEF rec, l
    <3>3. km.latch = NoKey => LatchIn(km) = "off" /\ LatchIn(l) = "off"
      BY <3>1, <3>2, LatchStates
    <3>4. km.latch # NoKey => LatchIn(km) \in {"down", "armed"} /\ LatchIn(l) = "armed"
      BY <2>3, <3>1, <3>2, LatchStates
    <3> QED
      BY <2>3, <3>1, <3>2, <3>3, <3>4 DEF LatchKeyState
  <2>4. CASE ~down /\ km.latch_releases # 0
    <3> DEFINE rec == [km1 EXCEPT !.latch_released = TRUE, !.latch = NoKey,
                                  !.latch_faked = NoVk]
    <3>1. l = rec
      BY <1>1, <2>4 DEF Latched
    <3>2. rec.latch = NoKey
      BY <1>1 DEF KMs
    <3> HIDE DEF rec, l
    <3>3. LatchIn(l) = "off"
      BY <3>1, <3>2, LatchStates
    <3>4. LatchIn(km) \in {"used", "off"}
      BY <2>4, LatchStates
    <3> QED
      BY <2>4, <3>1, <3>2, <3>3, <3>4 DEF LatchKeyState
  <2> QED
    BY <2>1, <2>2, <2>3, <2>4
<1> QED
  BY <1>2, <1>3, <1>4, <1>5

\* The latch key of a tracker, whether or not the tracker was told first.
LEMMA LatchKeyMoves ==
  ASSUME NEW km, NEW mid \in KMs(Codes, {"LSHIFT"}), NEW down \in BOOLEAN, NEW sc \in Codes,
         NonmodFields(km, mid, down, sc), km.latch \in {NoKey, sc}
  PROVE  LET new == KM_latch_event(mid, down, sc).km IN
         /\ new.shifts = km.shifts /\ ~new.locked /\ new.latch \in {sc, NoKey}
         /\ LatchMoves(LatchIn(km), LatchIn(new))
<1> DEFINE new == KM_latch_event(mid, down, sc).km
           a == LatchIn(km)
           b == LatchIn(mid)
<1>1. /\ new.shifts = mid.shifts /\ ~new.locked /\ new.latch \in {mid.latch, sc, NoKey}
      /\ LatchIn(new) = LatchKeyState(b, down)
  BY LatchEvent
<1>2. a \in {"off", "down", "used", "armed"}
  BY DEF LatchIn
<1>3. /\ mid.shifts = km.shifts /\ mid.latch \in {NoKey, sc}
  BY DEF NonmodFields
<1>4. \/ b = a
      \/ ~down /\ a \in {"armed", "off"} /\ b = "off"
      \/ ~down /\ a \in {"down", "used"} /\ b = IF a = "down" THEN "armed" ELSE "off"
  BY DEF NonmodFields
<1> HIDE DEF new, a, b
<1>5. LatchMoves(a, LatchKeyState(b, down))
  BY <1>2, <1>4 DEF LatchMoves, LatchKeyState
<1> QED
  BY <1>1, <1>3, <1>5 DEF new, a

-----------------------------------------------------------------------------
(* The steps of a tracker. *)

\* What an event of the key sc does to the tracker of m.
TrackerStep(m, km, new, sc, down) ==
  IF sc \in KeysOf[m] THEN new \in KM_shift_event(km, down, sc)
  ELSE \/ new = km
       \/ m = "l5" /\ KeysOf["l5"] = {} /\ new = KM_lock_event(km, down, sc)
       \/ /\ m \in Latching
          /\ \E mid \in KMs(Codes, {"LSHIFT"}) :
               /\ NonmodFields(km, mid, down, sc)
               /\ \/ new = mid
                  \/ LatchKey(m, sc) /\ new = KM_latch_event(mid, down, sc).km

PressedIn(m, phys) == {c \in KeysOf[m] : phys[c]}

\* The steps of Modifier, on a tracker and the keys that are down.
Moves(m, km, new, phys, after) ==
  \/ /\ \E k \in KeysOf[m] : PressedIn(m, after) \in {PressedIn(m, phys) \cup {k},
                                                      PressedIn(m, phys) \ {k}}
     /\ new.locked = km.locked /\ LatchIn(new) = LatchIn(km)
  \/ /\ PressedIn(m, after) = PressedIn(m, phys)
     /\ new.locked = ~km.locked /\ LatchIn(new) = LatchIn(km)
  \/ /\ PressedIn(m, after) = PressedIn(m, phys)
     /\ new.locked = km.locked
     /\ \/ LatchIn(new) = LatchIn(km)
        \/ ~km.locked /\ LatchMoves(LatchIn(km), LatchIn(new))

LEMMA OneShiftKey ==
  ASSUME OneKeyEach, NEW m \in Tracked, NEW c \in KeysOf[m], NEW d \in KeysOf[m]
  PROVE  c = d
BY DEF OneKeyEach, Tracked

LEMMA KeysAreCodes ==
  ASSUME NEW m \in Tracked
  PROVE  KeysOf[m] \subseteq Codes /\ KeysOf["l3"] = {}
<1>1. m \in Modifiers /\ "l3" \in Modifiers
  BY ModifierNames DEF Tracked
<1>2. \A vk : ModOfVk(vk) # "l3"
  BY DEF ModOfVk
<1>3. \A c \in Codes : InitialMods[c] # "l3"
  BY <1>2 DEF InitialMods
<1> QED
  BY <1>1, <1>3 DEF KeysOf

\* A modifier that a key presses has no latch key, and one that has one has no
\* other.
LEMMA OneLatchKey ==
  ASSUME OneKeyEach, NEW m \in Latching, NEW c, LatchKey(m, c)
  PROVE  KeysOf[m] = {} /\ \A d : LatchKey(m, d) => d = c
<1>1. m \in Tracked /\ m \in {"shift", "l3"}
  BY DEF Latching, Tracked
<1> DEFINE ka == IF m = "l3" THEN "l3_latch" ELSE "l2_latch"
<1>2. /\ c \in Bindable
      /\ \E lv \in DOMAIN Kly : Kly[lv][c].type = "ka" /\ Kly[lv][c].binding = ka
  BY DEF LatchKey
<1>3. ka \in {"l2_latch", "l3_latch"} /\ (m = "shift" => ka = "l2_latch")
  OBVIOUS
<1>4. KeysOf[m] = {}
  <2>1. CASE m = "l3"
    BY <1>1, <2>1, KeysAreCodes
  <2>2. CASE m = "shift"
    BY <1>2, <1>3, <2>2 DEF OneKeyEach
  <2> QED
    BY <1>1, <2>1, <2>2
<1>5. \A d : LatchKey(m, d) =>
        d \in Bindable
        /\ \E lv \in DOMAIN Kly : Kly[lv][d].type = "ka" /\ Kly[lv][d].binding = ka
  BY DEF LatchKey
<1> HIDE DEF ka
<1>6. \A d : LatchKey(m, d) => d = c
  BY <1>2, <1>3, <1>5 DEF OneKeyEach
<1> QED
  BY <1>4, <1>6

LEMMA ShiftKeyStep ==
  ASSUME OneKeyEach, NEW m \in Tracked, NEW km, GoodKM(km), NEW phys \in [Codes -> BOOLEAN],
         Sound(m, km, phys), NEW sc \in KeysOf[m], NEW down \in BOOLEAN,
         NEW new \in KM_shift_event(km, down, sc), new.latch_releases # ReleasesMod - 1
  PROVE  /\ Sound(m, new, [phys EXCEPT ![sc] = down])
         /\ Moves(m, km, new, phys, [phys EXCEPT ![sc] = down])
<1> DEFINE after == [phys EXCEPT ![sc] = down]
<1>1. sc \in Codes /\ KeysOf[m] \subseteq Codes
  BY KeysAreCodes
<1>2. \A c \in KeysOf[m] : c = sc
  BY OneShiftKey
<1>3. km.latch = NoKey /\ ~km.locked
  BY DEF Sound
<1>4. km.shifts = <<>> \/ km.shifts = <<sc>>
  BY <1>2 DEF Sound
<1>5. new.shifts = (IF down THEN <<sc>> ELSE <<>>) /\ ~new.locked
  BY <1>1, <1>3, <1>4, HeldShift
<1>6. new.locked = km.locked /\ new.latch = NoKey
  BY <1>1, <1>3, ShiftGood
<1>7. after[sc] = down /\ \A c \in Codes : c # sc => after[c] = phys[c]
  BY <1>1
<1>8. LatchIn(new) = LatchIn(km)
  BY <1>3, <1>6, LatchStates
<1> HIDE DEF after
<1>9. Sound(m, new, after)
  <2>1. new.shifts # <<>> => \E c \in KeysOf[m] : after[c] /\ new.shifts = <<c>>
    BY <1>5, <1>7
  <2>2. \A c \in KeysOf[m] : after[c] => new.shifts = <<c>>
    BY <1>2, <1>5, <1>7
  <2> QED
    BY <1>5, <1>6, <2>1, <2>2 DEF Sound
<1>10. PressedIn(m, after) \in {PressedIn(m, phys) \cup {sc}, PressedIn(m, phys) \ {sc}}
  <2>1. CASE down
    <3>1. PressedIn(m, after) = PressedIn(m, phys) \cup {sc}
      BY <1>2, <1>7, <2>1 DEF PressedIn
    <3> QED
      BY <3>1
  <2>2. CASE ~down
    <3>1. PressedIn(m, after) = PressedIn(m, phys) \ {sc}
      BY <1>2, <1>7, <2>2 DEF PressedIn
    <3> QED
      BY <3>1
  <2> QED
    BY <2>1, <2>2
<1>11. Moves(m, km, new, phys, after)
  BY <1>6, <1>8, <1>10 DEF Moves
<1> QED
  BY <1>9, <1>11 DEF after

LEMMA LatchType ==
  ASSUME NEW km \in KMs(Codes, {"LSHIFT"}), NEW down \in BOOLEAN, NEW sc \in Codes
  PROVE  KM_latch_event(km, down, sc).km \in KMs(Codes, {"LSHIFT"})
<1> DEFINE km1 == [km EXCEPT !.locked = FALSE]
           l == Latched(km1, down, sc).km
           on == l.latch # NoKey \/ l.shifts # <<>>
<1>1. km1 \in KMs(Codes, {"LSHIFT"})
  BY DEF KMs
<1>2. l \in KMs(Codes, {"LSHIFT"})
  BY <1>1, LatchedFacts
<1>3. KM_latch_event(km, down, sc).km = [l EXCEPT !.in_effect = on]
  BY DEF KM_latch_event, Latched, Silent
<1>4. on \in BOOLEAN
  OBVIOUS
<1> HIDE DEF l, on
<1> QED
  BY <1>2, <1>3, <1>4 DEF KMs

LEMMA OtherKeyStep ==
  ASSUME OneKeyEach, NEW m \in Tracked, NEW km, GoodKM(km),
         IF m \in Latching THEN ~km.locked ELSE km.latch = NoKey,
         NEW phys \in [Codes -> BOOLEAN], Sound(m, km, phys),
         NEW sc \in Codes, sc \notin KeysOf[m], NEW down \in BOOLEAN,
         NEW new, TrackerStep(m, km, new, sc, down), new.latch_releases # ReleasesMod - 1
  PROVE  /\ Sound(m, new, [phys EXCEPT ![sc] = down])
         /\ Moves(m, km, new, phys, [phys EXCEPT ![sc] = down])
<1> DEFINE after == [phys EXCEPT ![sc] = down]
<1>1. \A c \in KeysOf[m] : after[c] = phys[c]
  BY KeysAreCodes
<1>2. PressedIn(m, after) = PressedIn(m, phys)
  BY <1>1 DEF PressedIn
<1> HIDE DEF after
<1>3. km.latch # NoKey => LatchKey(m, km.latch)
  BY DEF Sound
\* What is left to show of a step that keeps the array.
<1>4. ASSUME new.shifts = km.shifts, KeysOf[m] # {} => new.latch = NoKey /\ ~new.locked,
             new.latch # NoKey => LatchKey(m, new.latch)
      PROVE  Sound(m, new, after)
  <2>1. new.shifts # <<>> => \E c \in KeysOf[m] : after[c] /\ new.shifts = <<c>>
    BY <1>1, <1>4 DEF Sound
  <2>2. \A c \in KeysOf[m] : after[c] => new.shifts = <<c>>
    BY <1>1, <1>4 DEF Sound
  <2> QED
    BY <1>4, <2>1, <2>2 DEF Sound
<1>5. CASE new = km
  <2>1. Sound(m, new, after)
    BY <1>3, <1>4, <1>5 DEF Sound
  <2>2. Moves(m, km, new, phys, after)
    BY <1>2, <1>5 DEF Moves
  <2> QED
    BY <2>1, <2>2 DEF after
<1>6. CASE m = "l5" /\ KeysOf["l5"] = {} /\ new = KM_lock_event(km, down, sc) /\ new # km
  <2> DEFINE on == ~km.locked \/ km.latch # NoKey \/ km.shifts # <<>>
             rec == [km EXCEPT !.locked = ~@, !.in_effect = on]
  <2>1. new = rec
    BY <1>6 DEF KM_lock_event
  <2> HIDE DEF on
  <2>2. /\ rec.locked = ~km.locked /\ rec.shifts = km.shifts /\ rec.latch = km.latch
        /\ rec.latch_released = km.latch_released /\ rec.latch_releases = km.latch_releases
    BY DEF GoodKM, KMs
  <2> HIDE DEF rec
  <2>3. LatchIn(new) = LatchIn(km)
    BY <2>1, <2>2 DEF LatchIn
  <2>4. Sound(m, new, after)
    BY <1>3, <1>4, <1>6, <2>1, <2>2
  <2>5. Moves(m, km, new, phys, after)
    BY <1>2, <2>1, <2>2, <2>3 DEF Moves
  <2> QED
    BY <2>4, <2>5 DEF after
<1>7. ASSUME m \in Latching, NEW mid \in KMs(Codes, {"LSHIFT"}), NonmodFields(km, mid, down, sc),
             \/ new = mid
             \/ LatchKey(m, sc) /\ new = KM_latch_event(mid, down, sc).km
      PROVE  Sound(m, new, after) /\ Moves(m, km, new, phys, after)
  <2>0. ~km.locked /\ (KeysOf[m] # {} => km.latch = NoKey)
    BY <1>7 DEF Sound
  <2>1. CASE new = mid
    <3>1. new.shifts = km.shifts /\ new.locked = km.locked /\ new.latch \in {km.latch, NoKey}
      BY <1>7, <2>1 DEF NonmodFields
    <3>2. \/ LatchIn(new) = LatchIn(km)
          \/ LatchIn(km) \in {"armed", "off"} /\ LatchIn(new) = "off"
          \/ /\ LatchIn(km) \in {"down", "used"}
             /\ LatchIn(new) = IF LatchIn(km) = "down" THEN "armed" ELSE "off"
          \/ LatchIn(km) \in {"down", "used"} /\ LatchIn(new) = "used"
      BY <1>7, <2>1 DEF NonmodFields
    <3>3. LatchMoves(LatchIn(km), LatchIn(new))
      BY <3>2 DEF LatchMoves
    <3>4. Sound(m, new, after)
      BY <1>3, <1>4, <2>0, <3>1
    <3>5. Moves(m, km, new, phys, after)
      BY <1>2, <2>0, <3>1, <3>3 DEF Moves
    <3> QED
      BY <3>4, <3>5
  <2>2. CASE LatchKey(m, sc) /\ new = KM_latch_event(mid, down, sc).km
    <3>1. KeysOf[m] = {} /\ \A d : LatchKey(m, d) => d = sc
      BY <1>7, <2>2, OneLatchKey
    <3>2. km.latch \in {NoKey, sc}
      BY <1>3, <3>1
    <3>3. /\ new.shifts = km.shifts /\ ~new.locked /\ new.latch \in {sc, NoKey}
          /\ LatchMoves(LatchIn(km), LatchIn(new))
      BY <1>7, <2>2, <3>2, LatchKeyMoves
    <3>4. Sound(m, new, after)
      BY <1>4, <2>2, <3>1, <3>3
    <3>5. new.locked \in BOOLEAN /\ km.locked \in BOOLEAN
      <4>1. new \in KMs(Codes, {"LSHIFT"})
        BY <2>2, <1>7, LatchType
      <4> QED
        BY <4>1 DEF GoodKM, KMs
    <3>6. new.locked = km.locked
      BY <2>0, <3>3, <3>5
    <3>7. Moves(m, km, new, phys, after)
      BY <1>2, <2>0, <3>3, <3>6 DEF Moves
    <3> QED
      BY <3>4, <3>7
  <2> QED
    BY <1>7, <2>1, <2>2
<1>8. \/ new = km
      \/ m = "l5" /\ KeysOf["l5"] = {} /\ new = KM_lock_event(km, down, sc)
      \/ /\ m \in Latching
         /\ \E mid \in KMs(Codes, {"LSHIFT"}) :
              /\ NonmodFields(km, mid, down, sc)
              /\ \/ new = mid
                 \/ LatchKey(m, sc) /\ new = KM_latch_event(mid, down, sc).km
  BY DEF TrackerStep
<1>9. Sound(m, new, after) /\ Moves(m, km, new, phys, after)
  BY <1>5, <1>6, <1>7, <1>8 DEF after
<1> QED
  BY <1>9 DEF after

\* A sound tracker is in effect for the reasons that Modifier gives.
LEMMA EffectOfSound ==
  ASSUME NEW m \in Tracked, NEW km, GoodKM(km), NEW phys, Sound(m, km, phys)
  PROVE  km.in_effect = (PressedIn(m, phys) # {} \/ km.locked \/ LatchIn(km) # "off")
<1>1. km.in_effect \in BOOLEAN /\ km.locked \in BOOLEAN /\ km.in_effect = Reason(km)
  BY DEF GoodKM, KMs
<1>2. PressedIn(m, phys) # {} <=> km.shifts # <<>>
  <2>1. \A c : <<c>> # <<>>
    OBVIOUS
  <2> QED
    BY <2>1 DEF Sound, PressedIn
<1>3. LatchIn(km) # "off" <=> km.latch # NoKey /\ (~km.latch_released \/ km.latch_releases = 0)
  BY LatchStates
<1> QED
  BY <1>1, <1>2, <1>3 DEF Reason

-----------------------------------------------------------------------------
(* KL_proc. *)

\* Each tracker makes the step of an event of the key sc.
TrackersStep(kms, new, sc, down) ==
  \A m \in Tracked : TrackerStep(m, kms[m], new[m], sc, down)

\* The trackers as they have seen the key sc, before its binding is looked at.
SeenBy(kms, km, sc, down) ==
  /\ km["control"] = kms["control"] /\ km["l5"] = kms["l5"]
  /\ \A m \in Latching : km[m] \in KMs(Codes, {"LSHIFT"})
                         /\ NonmodFields(kms[m], km[m], down, sc)

LEMMA TrackedNames ==
  /\ Tracked \subseteq Modifiers /\ Latching \subseteq Tracked
  /\ Tracked = Latching \cup {"control", "l5"}
  /\ "l5" \notin Latching /\ "control" \notin Latching
  /\ "shift" \in Latching /\ "l3" \in Latching
BY DEF Tracked, Modifiers, Latching

\* The keys that press a modifier without Windows taking them for one.
LEMMA BoundKey ==
  ASSUME OneKeyEach, NEW sc \in Codes, InitialMods[sc] \notin Modifiers, NEW m \in Tracked
  PROVE  sc \in KeysOf[m] <=>
           (m = "l5" /\ AlwaysKA(sc, "l5_shift")) \/ (m = "control" /\ AlwaysKA(sc, "control"))
<1>1. m \in Modifiers
  BY TrackedNames
<1> QED
  BY <1>1 DEF KeysOf

LEMMA ModifierKeySteps ==
  ASSUME OneKeyEach, GoodKMs(KL_km), GoodPhys(KL_phys_mods), NEW k \in Board,
         NEW down \in BOOLEAN, ModifierKey(k, down)
  PROVE  TrackersStep(KL_km, KL_km', Code(k), down)
<1> DEFINE sc == Code(k)
           n == KL_phys_mods[sc]
<1>1. sc \in Codes
  BY DEF Codes
<1>2. n \in Modifiers
  BY DEF ModifierKey
<1>3. PICK km \in KM_shift_event(KL_km[n], down, sc) : KL_km' = [KL_km EXCEPT ![n] = km]
  BY DEF ModifierKey
<1>4. InitialMods[sc] = n
  <2>1. "none" \notin Modifiers /\ "temp" \notin Modifiers
    BY DEF Modifiers
  <2> QED
    BY <1>1, <1>2, <2>1 DEF GoodPhys
<1>5. InitialMods[sc] # "none"
  BY <1>2, <1>4 DEF Modifiers
<1>6. \A ka \in {"control", "l5_shift"} : ~AlwaysKA(sc, ka)
  <2>1. \A ka : AlwaysKA(sc, ka) => sc \in Bindable
    BY DEF AlwaysKA
  <2> QED
    BY <1>5, <2>1 DEF OneKeyEach
<1>7. \A m \in Modifiers : sc \in KeysOf[m] <=> m = n
  BY <1>1, <1>4, <1>6 DEF KeysOf
<1>8. KL_km'[n] = km /\ \A m \in Modifiers \ {n} : KL_km'[m] = KL_km[m]
  BY <1>2, <1>3 DEF GoodKMs
<1> HIDE DEF sc, n
<1>9. ASSUME NEW m \in Tracked PROVE TrackerStep(m, KL_km[m], KL_km'[m], sc, down)
  <2>1. m \in Modifiers
    BY TrackedNames
  <2>2. CASE m = n
    BY <1>3, <1>7, <1>8, <2>1, <2>2 DEF TrackerStep
  <2>3. CASE m # n
    BY <1>7, <1>8, <2>1, <2>3 DEF TrackerStep
  <2> QED
    BY <2>2, <2>3
<1> QED
  BY <1>9 DEF TrackersStep, sc

\* A key that is bound to no key action leaves the trackers as they have seen it.
LEMMA SeenSteps ==
  ASSUME NEW kms, NEW km, NEW sc, NEW down, SeenBy(kms, km, sc, down),
         \A m \in Tracked : sc \notin KeysOf[m]
  PROVE  TrackersStep(kms, km, sc, down)
<1>1. ASSUME NEW m \in Tracked PROVE TrackerStep(m, kms[m], km[m], sc, down)
  <2>1. CASE m \in Latching
    BY <2>1 DEF SeenBy, TrackerStep
  <2>2. CASE m \notin Latching
    <3>1. km[m] = kms[m]
      BY <2>2, TrackedNames DEF SeenBy
    <3> QED
      BY <3>1 DEF TrackerStep
  <2> QED
    BY <2>1, <2>2
<1> QED
  BY <1>1 DEF TrackersStep

\* One tracker makes its step after the others have seen the key.
LEMMA OneStep ==
  ASSUME NEW kms, NEW km, GoodKMs(km), NEW sc, NEW down, SeenBy(kms, km, sc, down),
         NEW n \in Tracked, \A m \in Tracked \ {n} : sc \notin KeysOf[m],
         NEW new, TrackerStep(n, kms[n], new, sc, down)
  PROVE  TrackersStep(kms, [km EXCEPT ![n] = new], sc, down)
<1> DEFINE after == [km EXCEPT ![n] = new]
<1>1. after[n] = new /\ \A m \in Tracked \ {n} : after[m] = km[m]
  BY TrackedNames DEF GoodKMs
<1> HIDE DEF after
<1>2. ASSUME NEW m \in Tracked PROVE TrackerStep(m, kms[m], after[m], sc, down)
  <2>1. CASE m = n
    BY <1>1, <2>1
  <2>2. CASE m # n /\ m \in Latching
    BY <1>1, <2>2 DEF SeenBy, TrackerStep
  <2>3. CASE m # n /\ m \notin Latching
    <3>1. after[m] = kms[m]
      BY <1>1, <2>3, TrackedNames DEF SeenBy
    <3> QED
      BY <2>3, <3>1 DEF TrackerStep
  <2> QED
    BY <2>1, <2>2, <2>3
<1> QED
  BY <1>2 DEF TrackersStep, after

\* A key action.
LEMMA KASteps ==
  ASSUME OneKeyEach, NEW kms, GoodKMs(kms), NEW km, GoodKMs(km), NEW phys,
         NEW sc \in Bindable, InitialMods[sc] = "none", NEW down \in BOOLEAN,
         SeenBy(kms, km, sc, down), NEW sent,
         NEW lv \in DOMAIN Kly, NEW ka, Kly[lv][sc].type = "ka", Kly[lv][sc].binding = ka,
         KA_call(ka, km, phys, down, sc, sent)
  PROVE  TrackersStep(kms, KL_km', sc, down)
<1>0. sc \in Codes /\ InitialMods[sc] \notin Modifiers
  BY DEF Bindable, Modifiers
<1>1. \A kb : AlwaysKA(sc, kb) => kb = ka
  BY DEF AlwaysKA, ToKA
<1>2. ka \in {"control", "l5_shift"} => AlwaysKA(sc, ka)
  BY DEF OneKeyEach
<1>3. \A m \in Tracked :
        sc \in KeysOf[m] <=> (m = "l5" /\ ka = "l5_shift") \/ (m = "control" /\ ka = "control")
  BY <1>0, <1>1, <1>2, BoundKey
<1>4. {"control", "l5", "l3", "shift"} \subseteq Tracked
  BY DEF Tracked
<1>5. CASE ka = "control" /\ KA_control(km, phys, down, sc, sent)
  <2>1. PICK new \in KM_shift_event(km["control"], down, sc) :
          KL_km' = [km EXCEPT !["control"] = new]
    BY <1>5 DEF KA_control, Keep
  <2>2. TrackerStep("control", kms["control"], new, sc, down)
    BY <1>3, <1>4, <1>5, <2>1 DEF TrackerStep, SeenBy
  <2>3. \A m \in Tracked \ {"control"} : sc \notin KeysOf[m]
    BY <1>3, <1>5
  <2> QED
    BY <1>4, <2>1, <2>2, <2>3, OneStep
<1>6. CASE ka = "l5_shift" /\ KA_l5_shift(km, phys, down, sc, sent)
  <2>1. PICK new \in KM_shift_event(km["l5"], down, sc) : KL_km' = [km EXCEPT !["l5"] = new]
    BY <1>6 DEF KA_l5_shift, Keep
  <2>2. TrackerStep("l5", kms["l5"], new, sc, down)
    BY <1>3, <1>4, <1>6, <2>1 DEF TrackerStep, SeenBy
  <2>3. \A m \in Tracked \ {"l5"} : sc \notin KeysOf[m]
    BY <1>3, <1>6
  <2> QED
    BY <1>4, <2>1, <2>2, <2>3, OneStep
<1>7. CASE ka = "l5_lock" /\ KA_l5_lock(km, phys, down, sc, sent)
  <2> DEFINE new == KM_lock_event(km["l5"], down, sc)
  <2>1. KL_km' = [km EXCEPT !["l5"] = new]
    BY <1>7 DEF KA_l5_lock, Keep
  <2>2. \A m \in Tracked : sc \notin KeysOf[m]
    BY <1>3, <1>7
  <2>3. KeysOf["l5"] = {}
    BY <1>7 DEF OneKeyEach
  <2>4. TrackerStep("l5", kms["l5"], new, sc, down)
    BY <1>4, <2>2, <2>3 DEF TrackerStep, SeenBy
  <2> HIDE DEF new
  <2> QED
    BY <1>4, <2>1, <2>2, <2>4, OneStep
<1>8. CASE ka = "l3_latch" /\ KA_l3_latch(km, phys, down, sc, sent)
  <2> DEFINE new == KM_latch_event(km["l3"], down, sc).km
  <2>1. KL_km' = [km EXCEPT !["l3"] = new]
    BY <1>8 DEF KA_l3_latch, Keep
  <2>2. \A m \in Tracked : sc \notin KeysOf[m]
    BY <1>3, <1>8
  <2>3. LatchKey("l3", sc)
    BY <1>8 DEF LatchKey
  <2>4. TrackerStep("l3", kms["l3"], new, sc, down)
    <3>1. "l3" \in Latching /\ km["l3"] \in KMs(Codes, {"LSHIFT"})
          /\ NonmodFields(kms["l3"], km["l3"], down, sc)
      BY TrackedNames DEF SeenBy
    <3> QED
      BY <1>4, <2>2, <2>3, <3>1 DEF TrackerStep
  <2> HIDE DEF new
  <2> QED
    BY <1>4, <2>1, <2>2, <2>4, OneStep
<1>9. CASE ka = "l2_latch" /\ KA_l2_latch(km, phys, down, sc, sent)
  <2> DEFINE mid == [km["shift"] EXCEPT !.latch_faked = "LSHIFT"]
             new == KM_latch_event(mid, down, sc).km
  <2>1. KL_km' = [km EXCEPT !["shift"] = new]
    BY <1>9 DEF KA_l2_latch, Keep
  <2>2. \A m \in Tracked : sc \notin KeysOf[m]
    BY <1>3, <1>9
  <2>3. LatchKey("shift", sc)
    BY <1>9 DEF LatchKey
  <2>4. mid \in KMs(Codes, {"LSHIFT"}) /\ NonmodFields(kms["shift"], mid, down, sc)
    <3>1. /\ km["shift"] \in KMs(Codes, {"LSHIFT"})
          /\ NonmodFields(kms["shift"], km["shift"], down, sc)
      BY TrackedNames DEF SeenBy
    <3>2. /\ mid \in KMs(Codes, {"LSHIFT"})
          /\ mid.shifts = km["shift"].shifts /\ mid.locked = km["shift"].locked
          /\ mid.latch = km["shift"].latch
          /\ mid.latch_released = km["shift"].latch_released
          /\ mid.latch_releases = km["shift"].latch_releases
      BY <3>1 DEF KMs
    <3> HIDE DEF mid
    <3>3. LatchIn(mid) = LatchIn(km["shift"])
      BY <3>2 DEF LatchIn
    <3> QED
      BY <3>1, <3>2, <3>3 DEF NonmodFields
  <2> HIDE DEF mid
  <2>5. TrackerStep("shift", kms["shift"], new, sc, down)
    BY <1>4, <2>2, <2>3, <2>4, TrackedNames DEF TrackerStep
  <2> HIDE DEF new
  <2> QED
    BY <1>4, <2>1, <2>2, <2>5, OneStep
<1> QED
  BY <1>5, <1>6, <1>7, <1>8, <1>9 DEF KA_call

\* A binding is a key action, or KL_proc keeps the trackers.
LEMMA ProcessIs ==
  ASSUME NEW k, NEW down, NEW km, NEW phys, NEW sent, Process(k, down, km, phys, sent)
  PROVE  LET lk == Kly[Level(km)][Code(k)] IN
         \/ lk.type # "ka" /\ KL_km' = km
         \/ lk.type = "ka" /\ KA_call(lk.binding, km, phys, down, Code(k), sent)
<1> DEFINE sc == Code(k)
           lv == Level(km)
           lk == Kly[lv][sc]
<1>1. CASE AlteredByModifier(km, sc, lv, lk)
  <2>1. lk.type # "ka"
    BY <1>1 DEF AlteredByModifier
  <2>2. Keep(km, phys)
    BY <1>1, <2>1 DEF Process
  <2> QED
    BY <2>1, <2>2 DEF Keep
<1>2. CASE ~AlteredByModifier(km, sc, lv, lk) /\ lk.type = "ka"
  BY <1>2 DEF Process
<1>3. CASE ~AlteredByModifier(km, sc, lv, lk) /\ lk.type # "ka"
  <2>1. Keep(km, phys)
    BY <1>3 DEF Process
  <2> QED
    BY <1>3, <2>1 DEF Keep
<1> QED
  BY <1>1, <1>2, <1>3

LEMMA OrdinaryKeySteps ==
  ASSUME OneKeyEach, GoodKMs(KL_km), GoodPhys(KL_phys_mods),
         \A m \in Latching : KL_km[m].latch_releases # ReleasesMod - 1,
         NEW k \in Board, NEW down \in BOOLEAN, OrdinaryKey(k, down)
  PROVE  TrackersStep(KL_km, KL_km', Code(k), down)
<1> DEFINE sc == Code(k)
           temp == KL_phys_mods[sc] = "temp"
           shift == KM_nonmod_event(KL_km["shift"], down, sc)
           l3 == KM_nonmod_event(KL_km["l3"], down, sc)
           seen == [KL_km EXCEPT !["shift"] = shift.km, !["l3"] = l3.km]
           km == IF temp THEN KL_km ELSE seen
           sent == IF temp THEN <<>> ELSE shift.sent \o l3.sent
           phys == [KL_phys_mods EXCEPT ![sc] = "none"]
<1>1. sc \in Codes
  BY DEF Codes
<1>2. {"shift", "l3", "control", "l5"} \subseteq Modifiers /\ Latching = {"shift", "l3"}
  BY DEF Modifiers, Latching
<1>3. GoodKMs(km)
  <2>1. GoodKM(KL_km["shift"]) /\ ~KL_km["shift"].locked
    BY <1>2 DEF GoodKMs
  <2>2. GoodKM(KL_km["l3"]) /\ ~KL_km["l3"].locked
    BY <1>2 DEF GoodKMs
  <2>3. GoodKM(shift.km) /\ ~shift.km.locked
    BY <1>1, <2>1, NonmodGood
  <2>4. GoodKM(l3.km) /\ ~l3.km.locked
    BY <1>1, <2>2, NonmodGood
  <2> HIDE DEF shift, l3
  <2>5. GoodKMs([KL_km EXCEPT !["shift"] = shift.km])
    BY <1>2, <2>3, SetGood
  <2>6. GoodKMs([[KL_km EXCEPT !["shift"] = shift.km] EXCEPT !["l3"] = l3.km])
    BY <1>2, <2>4, <2>5, SetGood
  <2>7. seen = [[KL_km EXCEPT !["shift"] = shift.km] EXCEPT !["l3"] = l3.km]
    OBVIOUS
  <2> QED
    BY <2>6, <2>7
<1>4. SeenBy(KL_km, km, sc, down)
  <2>1. \A m \in Modifiers : KL_km[m] \in KMs(Codes, {"LSHIFT"})
    BY DEF GoodKMs
  <2>2. CASE temp
    <3>1. \A m \in Latching : NonmodFields(KL_km[m], KL_km[m], down, sc)
      BY DEF NonmodFields
    <3> QED
      BY <1>2, <2>1, <2>2, <3>1 DEF SeenBy
  <2>3. CASE ~temp
    <3>1. NonmodFields(KL_km["shift"], shift.km, down, sc)
      BY <1>1, <1>2, <2>1, NonmodLatch
    <3>2. NonmodFields(KL_km["l3"], l3.km, down, sc)
      BY <1>1, <1>2, <2>1, NonmodLatch
    <3> HIDE DEF shift, l3
    <3>3. /\ seen["shift"] = shift.km /\ seen["l3"] = l3.km
          /\ seen["control"] = KL_km["control"] /\ seen["l5"] = KL_km["l5"]
      BY <1>2 DEF GoodKMs
    <3>4. km = seen
      BY <2>3
    <3>5. \A m \in Latching : km[m] \in KMs(Codes, {"LSHIFT"})
      BY <1>2, <1>3 DEF GoodKMs
    <3> HIDE DEF seen, km
    <3> QED
      BY <1>2, <3>1, <3>2, <3>3, <3>4, <3>5 DEF SeenBy
  <2> QED
    BY <2>2, <2>3
<1>5. InitialMods[sc] = "none"
  BY <1>1, InitialModsType DEF OrdinaryKey, GoodPhys
<1>6. \/ k >= KPN /\ Keep(km, phys)
      \/ k < KPN /\ Process(k, down, km, phys, sent)
  <2>1. k \in Nat
    BY HookAssumption DEF HookAssumption
  <2> QED
    BY <2>1 DEF OrdinaryKey, KPN
<1> HIDE DEF km, phys, sent
<1>7. k \in Nat /\ (k < KPN => sc \in Bindable)
  <2>1. k \in Nat
    BY HookAssumption DEF HookAssumption
  <2>2. k < 64 => k % 256 = k
    BY <2>1
  <2> QED
    BY <1>1, <2>1, <2>2 DEF Bindable, KPN, Code, SC_EXTENDED_BIT
<1>8. InitialMods[sc] \notin Modifiers
  BY <1>5 DEF Modifiers
<1>9. CASE k >= KPN /\ Keep(km, phys)
  <2>1. \A ka : AlwaysKA(sc, ka) => sc \in Bindable
    BY DEF AlwaysKA
  <2>2. \A ka \in {"control", "l5_shift"} : AlwaysKA(sc, ka) => k = sc
    BY <2>1 DEF OneKeyEach
  <2>3. \A c \in Bindable : c \in Nat /\ c < KPN
    BY CodesAreNat DEF Bindable
  <2>4. \A ka \in {"control", "l5_shift"} : ~AlwaysKA(sc, ka)
    BY <1>7, <1>9, <2>1, <2>2, <2>3 DEF KPN
  <2>5. \A m \in Tracked : sc \notin KeysOf[m]
    BY <1>1, <1>8, <2>4, BoundKey
  <2> QED
    BY <1>4, <1>9, <2>5, SeenSteps DEF Keep
<1>10. CASE k < KPN /\ Process(k, down, km, phys, sent)
  <2> DEFINE lv == Level(km)
             lk == Kly[lv][sc]
  <2>1. lv \in DOMAIN Kly
    BY <1>3, LevelType
  <2>2. \/ lk.type # "ka" /\ KL_km' = km
        \/ lk.type = "ka" /\ KA_call(lk.binding, km, phys, down, sc, sent)
    BY <1>10, ProcessIs
  <2>3. CASE lk.type # "ka" /\ KL_km' = km
    <3>1. \A ka : ~AlwaysKA(sc, ka)
      BY <2>1, <2>3 DEF AlwaysKA, ToKA
    <3>2. \A m \in Tracked : sc \notin KeysOf[m]
      BY <1>1, <1>8, <3>1, BoundKey
    <3> QED
      BY <1>4, <2>3, <3>2, SeenSteps
  <2>4. CASE lk.type = "ka" /\ KA_call(lk.binding, km, phys, down, sc, sent)
    <3> HIDE DEF lv
    <3>1. sc \in Bindable
      BY <1>7, <1>10
    <3> HIDE DEF sc
    <3>2. TrackersStep(KL_km, KL_km', sc, down)
      BY <1>3, <1>4, <1>5, <2>1, <2>4, <3>1, KASteps
    <3> QED
      BY <3>2 DEF sc
  <2> QED
    BY <2>2, <2>3, <2>4
<1> QED
  BY <1>6, <1>9, <1>10

-----------------------------------------------------------------------------
(* The steps of the hook. *)

\* Nothing was received in the window that is left: start afresh.
Forgotten == KL_phys' = [c \in Codes |-> FALSE] /\ KL_km' = [m \in Modifiers |-> KM_init]

\* What a step of the hook is to the trackers.
RefStep == \/ \A m \in Tracked : Moves(m, KL_km[m], KL_km'[m], KL_phys, KL_phys')
           \/ Forgotten

LEMMA Stands ==
  ASSUME KL_km' = KL_km, KL_phys' = KL_phys, RefInv, IInv'
  PROVE  RefInv' /\ RefStep
<1>1. \A m \in Tracked : Sound(m, KL_km'[m], KL_phys')
  BY DEF RefInv
<1>2. RefInv'
  BY <1>1 DEF RefInv, Sound
<1>3. \A m \in Tracked : Moves(m, KL_km[m], KL_km'[m], KL_phys, KL_phys')
  BY DEF Moves
<1> QED
  BY <1>2, <1>3 DEF RefStep

LEMMA RefKeyEvent ==
  ASSUME OneKeyEach, RefInv, IInv', NEW k \in Board, NEW down \in BOOLEAN, KeyEvent(k, down)
  PROVE  RefInv' /\ RefStep
<1> DEFINE sc == Code(k)
<1>1. sc \in Codes
  BY DEF Codes
<1>2. GoodKMs(KL_km) /\ GoodPhys(KL_phys_mods) /\ KL_phys \in [Codes -> BOOLEAN]
  BY DEF RefInv, IInv, TypeOK
<1>3. \A m \in Tracked : Sound(m, KL_km[m], KL_phys)
  BY DEF RefInv
<1>4. \A m \in Tracked : KL_km'[m].latch_releases # ReleasesMod - 1
  BY TrackedNames DEF KeyEvent, OneKeyEach
<1>5. CASE Unseen(k, down)
  <2>1. KL_km' = KL_km /\ KL_phys' = KL_phys
    BY <1>5 DEF Unseen
  <2> QED
    BY <2>1, Stands
<1>6. CASE ~Unseen(k, down)
  <2>1. /\ KL_phys' = [KL_phys EXCEPT ![sc] = down]
        /\ ModifierKey(k, down) \/ OrdinaryKey(k, down)
    BY <1>6 DEF KeyEvent, KL_proc
  <2>2. \A m \in Latching : KL_km[m].latch_releases # ReleasesMod - 1
    BY <1>3, TrackedNames DEF Sound
  <2>3. TrackersStep(KL_km, KL_km', sc, down)
    BY <1>2, <2>1, <2>2, ModifierKeySteps, OrdinaryKeySteps
  <2> HIDE DEF sc
  <2>4. ASSUME NEW m \in Tracked
        PROVE  /\ Sound(m, KL_km'[m], KL_phys')
               /\ Moves(m, KL_km[m], KL_km'[m], KL_phys, KL_phys')
    <3>1. /\ GoodKM(KL_km[m]) /\ Sound(m, KL_km[m], KL_phys)
          /\ IF m \in Latching THEN ~KL_km[m].locked ELSE KL_km[m].latch = NoKey
      BY <1>2, <1>3, TrackedNames DEF GoodKMs
    <3>2. TrackerStep(m, KL_km[m], KL_km'[m], sc, down)
      BY <2>3 DEF TrackersStep
    <3>3. KL_km'[m].latch_releases # ReleasesMod - 1
      BY <1>4
    <3>4. CASE sc \in KeysOf[m]
      <4>1. KL_km'[m] \in KM_shift_event(KL_km[m], down, sc)
        BY <3>2, <3>4 DEF TrackerStep
      <4> QED
        BY <1>2, <2>1, <3>1, <3>3, <3>4, <4>1, ShiftKeyStep
    <3>5. CASE sc \notin KeysOf[m]
      BY <1>1, <1>2, <2>1, <3>1, <3>2, <3>3, <3>5, OtherKeyStep
    <3> QED
      BY <3>4, <3>5
  <2>5. RefInv'
    BY <2>4 DEF RefInv, Sound
  <2> QED
    BY <2>4, <2>5 DEF RefStep
<1> QED
  BY <1>5, <1>6

LEMMA SoundInit ==
  ASSUME NEW m \in Tracked
  PROVE  Sound(m, KM_init, [c \in Codes |-> FALSE])
<1>1. 0 # ReleasesMod - 1
  BY KMAssumption DEF KMAssumption
<1>2. \A c \in KeysOf[m] : [d \in Codes |-> FALSE][c] = FALSE
  BY KeysAreCodes
<1> QED
  BY <1>1, <1>2 DEF Sound, KM_init, NoKey

LEMMA RefInvInit == Init => RefInv
<1> SUFFICES ASSUME Init PROVE RefInv
  OBVIOUS
<1>1. KL_phys = [c \in Codes |-> FALSE] /\ \A m \in Tracked : KL_km[m] = KM_init
  BY TrackedNames DEF Init
<1> QED
  BY <1>1, IInvInit, SoundInit DEF RefInv

LEMMA RefInvNext ==
  ASSUME OneKeyEach, RefInv, [Next]_vars
  PROVE  RefInv' /\ RefStep
<1>0. IInv'
  BY IInvNext DEF RefInv
<1>1. ASSUME NEW k \in Board, PressKey(k) PROVE RefInv' /\ RefStep
  BY <1>0, <1>1, RefKeyEvent DEF PressKey
<1>2. CASE RepeatKey
  <2>1. last \in Board
    BY <1>2 DEF RepeatKey, RefInv, IInv, TypeOK
  <2> QED
    BY <1>0, <1>2, <2>1, RefKeyEvent DEF RepeatKey
<1>3. ASSUME NEW k \in Board, ReleaseKey(k) PROVE RefInv' /\ RefStep
  BY <1>0, <1>3, RefKeyEvent DEF ReleaseKey
<1>4. CASE \E w \in Windows : SwitchWindow(w)
  BY <1>0, <1>4, Stands DEF SwitchWindow
<1>5. CASE TaskSwitch
  <2>1. CASE KL_received
    <3>1. KL_km' = KL_km /\ KL_phys' = KL_phys
      BY <1>5, <2>1 DEF TaskSwitch
    <3> QED
      BY <1>0, <3>1, Stands
  <2>2. CASE ~KL_received
    <3>1. Forgotten
      BY <1>5, <2>2 DEF TaskSwitch, Forgotten
    <3>2. ASSUME NEW m \in Tracked PROVE Sound(m, KL_km'[m], KL_phys')
      <4>1. KL_km'[m] = KM_init /\ KL_phys' = [c \in Codes |-> FALSE]
        BY <3>1, TrackedNames DEF Forgotten
      <4> QED
        BY <4>1, SoundInit
    <3>3. RefInv'
      BY <1>0, <3>2 DEF RefInv, Sound
    <3> QED
      BY <3>1, <3>3 DEF RefStep
  <2> QED
    BY <2>1, <2>2
<1>6. CASE Toggle
  BY <1>0, <1>6, Stands DEF Toggle
<1>7. CASE UNCHANGED vars
  <2>1. KL_km' = KL_km /\ KL_phys' = KL_phys
    BY <1>7 DEF vars, hookVars
  <2> QED
    BY <1>0, <2>1, Stands
<1> QED
  BY <1>1, <1>2, <1>3, <1>4, <1>5, <1>6, <1>7 DEF Next

\* The effect of a tracker, before a step and after it.
LEMMA EffectThen ==
  ASSUME RefInv, NEW m \in Tracked
  PROVE  KL_km[m].in_effect = (PressedIn(m, KL_phys) # {} \/ KL_km[m].locked
                                 \/ LatchIn(KL_km[m]) # "off")
<1>1. GoodKM(KL_km[m]) /\ Sound(m, KL_km[m], KL_phys)
  BY TrackedNames DEF RefInv, IInv, GoodKMs
<1> QED
  BY <1>1, EffectOfSound

LEMMA EffectAfter ==
  ASSUME RefInv', NEW m \in Tracked
  PROVE  KL_km'[m].in_effect = (PressedIn(m, KL_phys') # {} \/ KL_km'[m].locked
                                  \/ LatchIn(KL_km'[m]) # "off")
<1>1. GoodKM(KL_km'[m]) /\ Sound(m, KL_km'[m], KL_phys')
  BY TrackedNames DEF RefInv, IInv, GoodKMs, GoodKM, Reason, Sound
<1> QED
  BY <1>1, EffectOfSound

-----------------------------------------------------------------------------
(* The refinement, a modifier at a time. *)

\* A step of Modifier, of the keys that are down, the lock and the latch.
ModifierStep(S, p, q, lock, lock2, a, b) ==
  \/ p = q /\ lock = lock2 /\ a = b
  \/ \E k \in S : q \in {p \cup {k}, p \ {k}} /\ lock2 = lock /\ b = a
  \/ q = p /\ lock2 = ~lock /\ b = a
  \/ q = p /\ a \in {"off", "armed"} /\ b = "down" /\ lock2 = FALSE
  \/ /\ q = p /\ a \in {"down", "used"} /\ lock2 = lock
     /\ b = IF a = "down" THEN "armed" ELSE "off"
  \/ /\ q = p /\ a \in {"down", "armed"} /\ lock2 = lock
     /\ b = IF a = "down" THEN "used" ELSE "off"
  \/ q = {} /\ lock2 = FALSE /\ b = "off"

LEMMA StepOfModifier ==
  ASSUME RefInv, RefInv', RefStep, NEW m \in Tracked
  PROVE  ModifierStep(KeysOf[m], PressedIn(m, KL_phys), PressedIn(m, KL_phys'),
                      KL_km[m].locked, KL_km'[m].locked,
                      LatchIn(KL_km[m]), LatchIn(KL_km'[m]))
<1>1. KL_km[m].locked \in BOOLEAN
  BY TrackedNames DEF RefInv, IInv, GoodKMs, KMs
<1>2. CASE Moves(m, KL_km[m], KL_km'[m], KL_phys, KL_phys')
  <2> DEFINE lock == KL_km[m].locked
             lock2 == KL_km'[m].locked
             a == LatchIn(KL_km[m])
             b == LatchIn(KL_km'[m])
             p == PressedIn(m, KL_phys)
             q == PressedIn(m, KL_phys')
  <2>1. \/ (\E k \in KeysOf[m] : q \in {p \cup {k}, p \ {k}}) /\ lock2 = lock /\ b = a
        \/ q = p /\ lock2 = ~lock /\ b = a
        \/ q = p /\ lock2 = lock /\ (b = a \/ (~lock /\ LatchMoves(a, b)))
    BY <1>2 DEF Moves
  <2>2. lock \in BOOLEAN
    BY <1>1
  <2> HIDE DEF lock, lock2, a, b, p, q
  <2>3. ModifierStep(KeysOf[m], p, q, lock, lock2, a, b)
    BY <2>1, <2>2 DEF ModifierStep, LatchMoves
  <2> QED
    BY <2>3 DEF lock, lock2, a, b, p, q
<1>3. CASE Forgotten
  <2>1. KL_km'[m] = KM_init /\ KL_phys' = [c \in Codes |-> FALSE]
    BY <1>3, TrackedNames DEF Forgotten
  <2>2. PressedIn(m, KL_phys') = {}
    BY <2>1, KeysAreCodes DEF PressedIn
  <2>3. KL_km'[m].locked = FALSE /\ LatchIn(KL_km'[m]) = "off"
    <3>1. KM_init.locked = FALSE /\ KM_init.latch = NoKey
      BY DEF KM_init
    <3> QED
      BY <2>1, <3>1, LatchStates
  <2> QED
    BY <2>2, <2>3 DEF ModifierStep
<1> QED
  BY <1>2, <1>3 DEF RefStep

LEMMA ShiftSteps == ASSUME RefInv, RefInv', RefStep PROVE [Shift!Next]_(Shift!modVars)
<1> DEFINE p == Pressed("shift")
           lock == KL_km["shift"].locked
           a == LatchOf("shift")
           on == KL_km["shift"].in_effect
<1>1. /\ p = PressedIn("shift", KL_phys) /\ p' = PressedIn("shift", KL_phys')
      /\ a = LatchIn(KL_km["shift"]) /\ a' = LatchIn(KL_km'["shift"])
  BY DEF Pressed, PressedIn, LatchOf, LatchIn
<1>2. "shift" \in Tracked
  BY DEF Tracked
<1>3. ModifierStep(KeysOf["shift"], p, p', lock, lock', a, a')
  BY <1>1, <1>2, StepOfModifier
<1>4. on = (p # {} \/ lock \/ a # "off") /\ on' = (p' # {} \/ lock' \/ a' # "off")
  BY <1>1, <1>2, EffectThen, EffectAfter
<1> HIDE DEF p, lock, a, on
<1>5. \/ p' = p /\ lock' = lock /\ a' = a /\ on' = on
      \/ Shift!Next
  BY <1>3, <1>4
     DEF ModifierStep, Shift!Next, Shift!InEffect, Shift!ShiftDown, Shift!ShiftUp, Shift!LockPressed,
         Shift!LatchDown, Shift!LatchUp, Shift!OtherUp, Shift!Forget, p, lock, a, on
<1> QED
  BY <1>5 DEF Shift!modVars, p, lock, a, on

LEMMA ControlSteps == ASSUME RefInv, RefInv', RefStep PROVE [Control!Next]_(Control!modVars)
<1> DEFINE p == Pressed("control")
           lock == KL_km["control"].locked
           a == LatchOf("control")
           on == KL_km["control"].in_effect
<1>1. /\ p = PressedIn("control", KL_phys) /\ p' = PressedIn("control", KL_phys')
      /\ a = LatchIn(KL_km["control"]) /\ a' = LatchIn(KL_km'["control"])
  BY DEF Pressed, PressedIn, LatchOf, LatchIn
<1>2. "control" \in Tracked
  BY DEF Tracked
<1>3. ModifierStep(KeysOf["control"], p, p', lock, lock', a, a')
  BY <1>1, <1>2, StepOfModifier
<1>4. on = (p # {} \/ lock \/ a # "off") /\ on' = (p' # {} \/ lock' \/ a' # "off")
  BY <1>1, <1>2, EffectThen, EffectAfter
<1> HIDE DEF p, lock, a, on
<1>5. \/ p' = p /\ lock' = lock /\ a' = a /\ on' = on
      \/ Control!Next
  BY <1>3, <1>4
     DEF ModifierStep, Control!Next, Control!InEffect, Control!ShiftDown, Control!ShiftUp, Control!LockPressed,
         Control!LatchDown, Control!LatchUp, Control!OtherUp, Control!Forget, p, lock, a, on
<1> QED
  BY <1>5 DEF Control!modVars, p, lock, a, on

LEMMA L3Steps == ASSUME RefInv, RefInv', RefStep PROVE [L3!Next]_(L3!modVars)
<1> DEFINE p == Pressed("l3")
           lock == KL_km["l3"].locked
           a == LatchOf("l3")
           on == KL_km["l3"].in_effect
<1>1. /\ p = PressedIn("l3", KL_phys) /\ p' = PressedIn("l3", KL_phys')
      /\ a = LatchIn(KL_km["l3"]) /\ a' = LatchIn(KL_km'["l3"])
  BY DEF Pressed, PressedIn, LatchOf, LatchIn
<1>2. "l3" \in Tracked
  BY DEF Tracked
<1>3. ModifierStep(KeysOf["l3"], p, p', lock, lock', a, a')
  BY <1>1, <1>2, StepOfModifier
<1>4. on = (p # {} \/ lock \/ a # "off") /\ on' = (p' # {} \/ lock' \/ a' # "off")
  BY <1>1, <1>2, EffectThen, EffectAfter
<1> HIDE DEF p, lock, a, on
<1>5. \/ p' = p /\ lock' = lock /\ a' = a /\ on' = on
      \/ L3!Next
  BY <1>3, <1>4
     DEF ModifierStep, L3!Next, L3!InEffect, L3!ShiftDown, L3!ShiftUp, L3!LockPressed,
         L3!LatchDown, L3!LatchUp, L3!OtherUp, L3!Forget, p, lock, a, on
<1> QED
  BY <1>5 DEF L3!modVars, p, lock, a, on

LEMMA L5Steps == ASSUME RefInv, RefInv', RefStep PROVE [L5!Next]_(L5!modVars)
<1> DEFINE p == Pressed("l5")
           lock == KL_km["l5"].locked
           a == LatchOf("l5")
           on == KL_km["l5"].in_effect
<1>1. /\ p = PressedIn("l5", KL_phys) /\ p' = PressedIn("l5", KL_phys')
      /\ a = LatchIn(KL_km["l5"]) /\ a' = LatchIn(KL_km'["l5"])
  BY DEF Pressed, PressedIn, LatchOf, LatchIn
<1>2. "l5" \in Tracked
  BY DEF Tracked
<1>3. ModifierStep(KeysOf["l5"], p, p', lock, lock', a, a')
  BY <1>1, <1>2, StepOfModifier
<1>4. on = (p # {} \/ lock \/ a # "off") /\ on' = (p' # {} \/ lock' \/ a' # "off")
  BY <1>1, <1>2, EffectThen, EffectAfter
<1> HIDE DEF p, lock, a, on
<1>5. \/ p' = p /\ lock' = lock /\ a' = a /\ on' = on
      \/ L5!Next
  BY <1>3, <1>4
     DEF ModifierStep, L5!Next, L5!InEffect, L5!ShiftDown, L5!ShiftUp, L5!LockPressed,
         L5!LatchDown, L5!LatchUp, L5!OtherUp, L5!Forget, p, lock, a, on
<1> QED
  BY <1>5 DEF L5!modVars, p, lock, a, on

LEMMA InitOfModifiers ==
  ASSUME Init
  PROVE  Shift!Init /\ Control!Init /\ L3!Init /\ L5!Init
<1>1. ASSUME NEW m \in Tracked
      PROVE  /\ Pressed(m) = {} /\ KL_km[m].locked = FALSE
             /\ LatchOf(m) = "off" /\ KL_km[m].in_effect = FALSE
  <2>1. KL_km[m] = KM_init /\ KL_phys = [c \in Codes |-> FALSE]
    BY TrackedNames DEF Init
  <2>2. KM_init.locked = FALSE /\ KM_init.latch = NoKey /\ KM_init.in_effect = FALSE
    BY DEF KM_init
  <2>3. LatchOf(m) = "off"
    BY <2>1, <2>2, LatchStates DEF LatchOf
  <2>4. Pressed(m) = {}
    BY <2>1, KeysAreCodes DEF Pressed
  <2> QED
    BY <2>1, <2>2, <2>3, <2>4
<1>2. {"shift", "control", "l3", "l5"} \subseteq Tracked
  BY DEF Tracked
<1> QED
  BY <1>1, <1>2 DEF Shift!Init, Control!Init, L3!Init, L5!Init

\* Each of the trackers of shift, control, level3 and level5 is the modifier
\* that km.c promises: pressed by what is physically pressed, locked and latched
\* only by the steps of Modifier, and in effect exactly when that modifier is,
\* whatever the hook misses and whichever keys share an event.
THEOREM TrackersRefine == ASSUME OneKeyEach PROVE Spec => Refines
<1>1. Init => RefInv
  BY RefInvInit
<1>2. RefInv /\ [Next]_vars => RefInv'
  BY RefInvNext
<1>3. RefInv /\ RefInv' /\ [Next]_vars =>
        /\ [Shift!Next]_(Shift!modVars) /\ [Control!Next]_(Control!modVars)
        /\ [L3!Next]_(L3!modVars) /\ [L5!Next]_(L5!modVars)
  BY RefInvNext, ShiftSteps, ControlSteps, L3Steps, L5Steps
<1>4. Init => Shift!Init /\ Control!Init /\ L3!Init /\ L5!Init
  BY InitOfModifiers
<1> QED
  BY <1>1, <1>2, <1>3, <1>4, PTL DEF Spec, Refines, Shift!Spec, Control!Spec, L3!Spec, L5!Spec
=============================================================================
