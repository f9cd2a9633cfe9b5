---------------------------- MODULE LayoutsProofs ----------------------------
(***************************************************************************)
(* For any windows, applications, locales and languages: the types of      *)
(* Layouts, and that the table in use is the one of the selected language  *)
(* with no other application's bindings over it.                           *)
(*                                                                         *)
(* The argument follows the calls of the code.  The invariant is stated    *)
(* for a record of the variables that the functions change (Sound), each   *)
(* function is shown to preserve it, and KR_on_task_switch to establish    *)
(* what the window it is called for needs (Fits).                          *)
(***************************************************************************)
EXTENDS LayoutsProps, TLAPS

Tables == [lang : Klcs \cup {ZeroTable}, overlay : Overlays]
States == [kly : Tables, id : {0, 1}, sel : Int,
           hwnd : Windows \cup {NoWindow}, requests : [Windows -> Seq(Int)]]

Selected(t) == LangAt(t.sel) \in Klcs

\* TypeOK, TableOfSelected and OverlayKnown of a record.
Sound(t) ==
  /\ t \in States
  /\ KL_vks_lang = Neutral /\ Selected(t) => t.kly.lang = LangAt(t.sel)
  /\ Selected(t) /\ t.id = 0 => RemappedIn(t.kly.overlay) = {}

\* NoRemapElsewhere of a record, when w is in front.
Fits(t, w) ==
  Selected(t) /\ TitleApp[w] = NoApp
    => \A k \in RemappedIn(t.kly.overlay) : t.kly.overlay[k] = ClassApp[w]

-----------------------------------------------------------------------------
(***************************************************************************)
(* The functions.                                                          *)
(***************************************************************************)

\* A table as it was compiled has the type of a table and no key remapped.
LEMMA FreshTable ==
  ASSUME NEW lang \in Klcs \cup {ZeroTable}
  PROVE  TableOf(lang) \in Tables /\ RemappedIn(TableOf(lang).overlay) = {}
  BY LayoutsAssumption DEF TableOf, NoOverlay, Tables, Overlays, RemappedIn

\* Posting a request keeps the type of the queues.
LEMMA Posting ==
  ASSUME NEW posted \in [Windows -> Seq(Int)], NEW w, NEW i \in Int
  PROVE  OS_activate_layout(posted, w, i) \in [Windows -> Seq(Int)]
  BY DEF OS_activate_layout

\* Activating a locale changes the table and the requests; the table becomes
\* that of the language, if it has one.
LEMMA Activating ==
  ASSUME NEW t \in States, NEW i \in Int
  PROVE  LET s == LM_activate_nth_locale(t, i)
         IN /\ s \in States
            /\ s.id = t.id /\ s.sel = t.sel /\ s.hwnd = t.hwnd
            /\ s.kly = IF LangAt(i) \in Klcs THEN TableOf(LangAt(i)) ELSE t.kly
<1> DEFINE s == LM_activate_nth_locale(t, i)
<1>1. OS_activate_layout(t.requests, t.hwnd, i) \in [Windows -> Seq(Int)]
  BY Posting DEF States
<1>2. KL_activate_lang(t.kly, LangAt(i)) \in Tables
  BY FreshTable DEF KL_activate_lang, States
<1>3. s \in States
  BY <1>1, <1>2 DEF LM_activate_nth_locale, States
<1>4. /\ s.kly = KL_activate_lang(t.kly, LangAt(i))
      /\ s.id = t.id /\ s.sel = t.sel /\ s.hwnd = t.hwnd
  BY DEF LM_activate_nth_locale, States
<1> QED
  BY <1>3, <1>4 DEF KL_activate_lang

\* Activating the selected locale leaves a table without remapped keys.
LEMMA ActivatingSelected ==
  ASSUME NEW t \in States
  PROVE  LET s == LM_activate_selected_locale(t)
         IN /\ Sound(s) \/ ~Selected(t)
            /\ s \in States
            /\ s.id = t.id /\ s.sel = t.sel /\ s.hwnd = t.hwnd
            /\ Selected(t) => RemappedIn(s.kly.overlay) = {} /\ s.kly.lang = LangAt(t.sel)
<1> DEFINE s == LM_activate_selected_locale(t)
<1>1. t.sel \in Int
  BY DEF States
<1>2. /\ s \in States
      /\ s.id = t.id /\ s.sel = t.sel /\ s.hwnd = t.hwnd
      /\ s.kly = IF LangAt(t.sel) \in Klcs THEN TableOf(LangAt(t.sel)) ELSE t.kly
  BY <1>1, Activating DEF LM_activate_selected_locale
<1>3. CASE Selected(t)
  <2>1. s.kly = TableOf(LangAt(t.sel))
    BY <1>2, <1>3 DEF Selected
  <2>2. RemappedIn(s.kly.overlay) = {} /\ s.kly.lang = LangAt(t.sel)
    BY <1>3, <2>1, FreshTable DEF Selected, TableOf
  <2> QED
    BY <1>2, <2>2 DEF Sound, Selected
<1> QED
  BY <1>2, <1>3

\* The same, said of Sound.
LEMMA SelectedSound ==
  ASSUME NEW t \in States
  PROVE  Sound(LM_activate_selected_locale(t))
<1> DEFINE s == LM_activate_selected_locale(t)
<1>1. s \in States /\ s.sel = t.sel /\ (Sound(s) \/ ~Selected(t))
  BY ActivatingSelected
<1> QED
  BY <1>1 DEF Sound, Selected

\* KR_clear: what it does for the table, and that it makes the flag 0.
LEMMA Clearing ==
  ASSUME NEW t \in States
  PROVE  LET s == KR_clear(t)
         IN /\ Sound(s) /\ s.id = 0 /\ s.sel = t.sel /\ s.hwnd = t.hwnd
            /\ Selected(t) => RemappedIn(s.kly.overlay) = {}
<1> DEFINE r == [t EXCEPT !.id = 0]
<1>1. r \in States /\ r.id = 0 /\ r.sel = t.sel /\ r.hwnd = t.hwnd
  BY DEF States
<1>2. Sound(LM_activate_selected_locale(r))
  BY <1>1, SelectedSound
<1> QED
  BY <1>1, <1>2, ActivatingSelected DEF KR_clear, Selected

\* Writing an application's bindings over a table.
LEMMA Applying ==
  ASSUME NEW t \in States, NEW app \in Apps, NEW on_pt_only \in BOOLEAN
  PROVE  LET s == KR_apply(t, app, on_pt_only)
         IN /\ s \in States
            /\ s.sel = t.sel /\ s.hwnd = t.hwnd /\ s.kly.lang = t.kly.lang
            /\ s.id = IF on_pt_only THEN t.id ELSE 1
            /\ \A k \in RemappedIn(s.kly.overlay) :
                 \/ s.kly.overlay[k] = app /\ ~on_pt_only
                 \/ k \in RemappedIn(t.kly.overlay) /\ s.kly.overlay[k] = t.kly.overlay[k]
<1> DEFINE keys == IF on_pt_only THEN PtBinds[app] ELSE Binds[app]
           over == [k \in Keys |-> IF k \in keys THEN app ELSE t.kly.overlay[k]]
           s == KR_apply(t, app, on_pt_only)
<1>1. t.kly \in Tables /\ t.kly.overlay \in Overlays
  BY DEF States, Tables
<1>2. /\ s.kly.lang = t.kly.lang /\ s.kly.overlay = over
      /\ s.id = IF on_pt_only THEN t.id ELSE 1
      /\ s.sel = t.sel /\ s.hwnd = t.hwnd
  BY <1>1 DEF KR_apply, States, Tables
<1>3. over \in Overlays
  BY <1>1 DEF Overlays
<1>4. s \in States
  <2>1. [t.kly EXCEPT !.overlay = over] \in Tables
    BY <1>1, <1>3 DEF Tables
  <2> QED
    BY <2>1 DEF KR_apply, States
<1>5. ASSUME NEW k \in RemappedIn(over)
      PROVE  \/ over[k] = app /\ ~on_pt_only
             \/ k \in RemappedIn(t.kly.overlay) /\ over[k] = t.kly.overlay[k]
  <2>1. k \in Keys /\ over[k] # NoApp /\ k \notin PtBinds[over[k]]
    BY <1>5 DEF RemappedIn
  <2>2. CASE k \in keys
    BY <2>1, <2>2
  <2>3. CASE k \notin keys
    BY <2>1, <2>3 DEF RemappedIn
  <2> QED
    BY <2>2, <2>3
<1> QED
  BY <1>2, <1>4, <1>5

\* The bindings of a window's class, over a table that has none if it is
\* that of the selected language: right for that window.
LEMMA ApplyingClass ==
  ASSUME NEW t, Sound(t), NEW w \in Windows, NEW on_pt_only \in BOOLEAN,
         Selected(t) => RemappedIn(t.kly.overlay) = {}
  PROVE  LET s == KR_wndcls(t, w, on_pt_only)
         IN Sound(s) /\ Fits(s, w) /\ s.sel = t.sel /\ s.hwnd = t.hwnd
<1> DEFINE s == KR_wndcls(t, w, on_pt_only)
<1>1. CASE ClassApp[w] = NoApp
  BY <1>1 DEF KR_wndcls, Fits
<1>2. CASE ClassApp[w] # NoApp
  <2>1. ClassApp[w] \in Apps /\ s = KR_apply(t, ClassApp[w], on_pt_only)
    BY <1>2, LayoutsAssumption DEF KR_wndcls
  <2>2. t \in States
    BY DEF Sound
  <2>3. /\ s \in States
        /\ s.sel = t.sel /\ s.hwnd = t.hwnd /\ s.kly.lang = t.kly.lang
        /\ s.id = IF on_pt_only THEN t.id ELSE 1
        /\ \A k \in RemappedIn(s.kly.overlay) :
             \/ s.kly.overlay[k] = ClassApp[w] /\ ~on_pt_only
             \/ k \in RemappedIn(t.kly.overlay) /\ s.kly.overlay[k] = t.kly.overlay[k]
    BY <2>1, <2>2, Applying
  <2>4. Fits(s, w)
    BY <2>3 DEF Fits, Selected
  <2>5. Selected(s) /\ s.id = 0 => RemappedIn(s.kly.overlay) = {}
    BY <2>3 DEF Selected
  <2> QED
    BY <2>3, <2>4, <2>5 DEF Sound, Selected
<1> QED
  BY <1>1, <1>2

\* KR_on_task_switch keeps the invariant and is right for its window.
LEMMA Switching ==
  ASSUME NEW t, Sound(t), NEW w \in Windows,
         NEW titles \in BOOLEAN, NEW on_pt_only \in BOOLEAN
  PROVE  LET s == KR_on_task_switch(t, w, titles, on_pt_only)
         IN Sound(s) /\ Fits(s, w) /\ s.sel = t.sel /\ s.hwnd = t.hwnd
<1> DEFINE s == KR_on_task_switch(t, w, titles, on_pt_only)
<1>1. t \in States
  BY DEF Sound
<1>2. CASE titles /\ TitleApp[w] # NoApp
  <2> DEFINE r == KR_apply(t, TitleApp[w], FALSE)
  <2>1. TitleApp[w] \in Apps /\ TitleApp[w] # NoApp
    BY <1>2, LayoutsAssumption
  <2>2. s = r
    BY <1>2 DEF KR_on_task_switch
  <2>3. PICK b \in BOOLEAN : b = FALSE
    OBVIOUS
  <2>4. /\ KR_apply(t, TitleApp[w], b) \in States
        /\ KR_apply(t, TitleApp[w], b).sel = t.sel
        /\ KR_apply(t, TitleApp[w], b).hwnd = t.hwnd
        /\ KR_apply(t, TitleApp[w], b).kly.lang = t.kly.lang
        /\ KR_apply(t, TitleApp[w], b).id = IF b THEN t.id ELSE 1
    BY <1>1, <2>1, Applying
  <2>5. KR_apply(t, TitleApp[w], b) = r
    BY <2>3, Zenon
  <2>6. r \in States /\ r.sel = t.sel /\ r.hwnd = t.hwnd /\ r.kly.lang = t.kly.lang
    BY <2>4, <2>5
  <2>7. r.id # 0
    <3>1. (IF b THEN t.id ELSE 1) = 1
      BY <2>3, Zenon
    <3>2. r.id = 1
      BY <2>4, <2>5, <3>1, Zenon
    <3> HIDE DEF r
    <3> QED
      BY <3>2
  <2>8. Sound(r) /\ Fits(r, w)
    BY <2>1, <2>6, <2>7 DEF Sound, Selected, Fits
  <2> QED
    BY <2>2, <2>6, <2>8
<1>3. CASE ~(titles /\ TitleApp[w] # NoApp)
  <2> DEFINE r == IF t.id # 0 THEN KR_clear(t) ELSE t
  <2>1. s = KR_wndcls(r, w, on_pt_only)
    BY <1>3 DEF KR_on_task_switch
  <2>2. /\ Sound(r) /\ r.sel = t.sel /\ r.hwnd = t.hwnd
        /\ Selected(r) => RemappedIn(r.kly.overlay) = {}
    BY <1>1, Clearing DEF Sound, Selected
  <2> HIDE DEF r
  <2> QED
    BY <2>1, <2>2, ApplyingClass
<1> QED
  BY <1>2, <1>3

-----------------------------------------------------------------------------
(***************************************************************************)
(* The invariant.  NoRemapElsewhere speaks of the window in front, the     *)
(* handler of the window of the event: the last event is the one of the    *)
(* window in front.                                                        *)
(***************************************************************************)

LastIsFront == events # <<>> => events[Len(events)] = fg

IInv ==
  /\ TypeOK
  /\ TableOfSelected
  /\ OverlayKnown
  /\ NoRemapElsewhere
  /\ LastIsFront

\* The invariant says of the variables what Sound says of their record.
LEMMA StateSound ==
  ASSUME IInv
  PROVE  Sound(State)
<1>1. State \in States
  BY DEF IInv, TypeOK, State, States, Tables
<1>2. /\ KL_vks_lang = Neutral /\ Selected(State) => State.kly.lang = LangAt(State.sel)
      /\ Selected(State) /\ State.id = 0 => RemappedIn(State.kly.overlay) = {}
  BY DEF IInv, TableOfSelected, OverlayKnown, InUse, Remapped, State, Selected
<1> QED
  BY <1>1, <1>2 DEF Sound

\* And back, for the record that a step leaves.
LEMMA BecomesSound ==
  ASSUME NEW t, Sound(t), Becomes(t)
  PROVE  /\ KL_kly' \in Tables /\ KR_id' \in {0, 1} /\ LM_selected_locale' \in Int
         /\ LM_hwnd' \in Windows \cup {NoWindow} /\ requests' \in [Windows -> Seq(Int)]
         /\ TableOfSelected' /\ OverlayKnown'
<1>1. t \in States
  BY DEF Sound
<1>2. /\ KL_kly' = t.kly /\ KR_id' = t.id /\ LM_selected_locale' = t.sel
      /\ LM_hwnd' = t.hwnd /\ requests' = t.requests
  BY DEF Becomes
<1>3. /\ KL_vks_lang = Neutral /\ Selected(t) => t.kly.lang = LangAt(t.sel)
      /\ Selected(t) /\ t.id = 0 => RemappedIn(t.kly.overlay) = {}
  BY DEF Sound
<1>4. TableOfSelected' /\ OverlayKnown'
  BY <1>2, <1>3 DEF TableOfSelected, OverlayKnown, InUse, Remapped, Selected, LangAt, RemappedIn
<1> QED
  BY <1>1, <1>2, <1>4 DEF States

\* A record that is right for the window in front.
LEMMA BecomesFits ==
  ASSUME NEW t, Becomes(t), Fits(t, fg), fg' = fg
  PROVE  NoRemapElsewhere'
<1>1. KL_kly' = t.kly /\ LM_selected_locale' = t.sel
  BY DEF Becomes
<1> QED
  BY <1>1 DEF Fits, NoRemapElsewhere, InUse, Remapped, Selected, LangAt, RemappedIn

\* A table without remapped keys is right for any window.
LEMMA EmptyFits ==
  ASSUME NEW t, NEW w, Selected(t) => RemappedIn(t.kly.overlay) = {}
  PROVE  Fits(t, w)
  BY DEF Fits

\* The handler of foreground events, for either kind of window.
LEMMA Arriving ==
  ASSUME IInv, NEW w \in Windows
  PROVE  LET t == [State EXCEPT !.hwnd = w]
             s == IF w \in Consoles THEN ConsoleArrived(t) ELSE WindowArrived(t, w)
         IN Sound(s) /\ Fits(s, w)
<1> DEFINE t == [State EXCEPT !.hwnd = w]
<1>1. Sound(State) /\ State \in States
  BY StateSound DEF Sound
<1>2. /\ t \in States /\ t.sel = State.sel /\ t.id = State.id /\ t.kly = State.kly
  BY <1>1 DEF States
<1>3. Sound(t)
  BY <1>1, <1>2 DEF Sound, Selected
<1> HIDE DEF t
<1>4. Sound(ConsoleArrived(t)) /\ Fits(ConsoleArrived(t), w)
  <2> DEFINE r == LM_activate_nth_locale(t, 0)
  <2>1. r \in States
    BY <1>2, Activating
  <2>2. ConsoleArrived(t) = LM_activate_selected_locale(r)
    BY DEF ConsoleArrived
  <2> HIDE DEF r
  <2>3. /\ LM_activate_selected_locale(r).sel = r.sel
        /\ Selected(r) => RemappedIn(LM_activate_selected_locale(r).kly.overlay) = {}
    BY <2>1, ActivatingSelected
  <2> QED
    BY <2>1, <2>2, <2>3, SelectedSound, EmptyFits DEF Selected
<1>5. Sound(WindowArrived(t, w)) /\ Fits(WindowArrived(t, w), w)
  <2> DEFINE r == IF KL_active /\ LangAt(t.sel) # Lang[layout[w]]
                  THEN LM_activate_selected_locale(t) ELSE t
  <2>1. Sound(r)
    BY <1>2, <1>3, SelectedSound
  <2>2. (KL_active /\ KR_active) \in BOOLEAN /\ FALSE \in BOOLEAN
    OBVIOUS
  <2>3. WindowArrived(t, w) = KR_on_task_switch(r, w, KL_active /\ KR_active, FALSE)
    BY DEF WindowArrived
  <2> HIDE DEF r
  <2> QED
    BY <2>1, <2>2, <2>3, Switching, Zenon
<1> QED
  BY <1>4, <1>5 DEF t

-----------------------------------------------------------------------------
(***************************************************************************)
(* The initial state and the steps.                                        *)
(***************************************************************************)

\* What a step that leaves a sound record for the window in front has shown.
LEMMA StepTo ==
  ASSUME IInv, NEW t, Becomes(t), Sound(t), Fits(t, fg), KR_active' \in BOOLEAN,
         UNCHANGED <<KL_active, fg, events, layout>>
  PROVE  IInv'
<1>1. /\ KL_kly' \in Tables /\ KR_id' \in {0, 1} /\ LM_selected_locale' \in Int
      /\ LM_hwnd' \in Windows \cup {NoWindow} /\ requests' \in [Windows -> Seq(Int)]
      /\ TableOfSelected' /\ OverlayKnown'
  BY BecomesSound
<1>2. NoRemapElsewhere'
  BY BecomesFits
<1> QED
  BY <1>1, <1>2 DEF IInv, TypeOK, LastIsFront, Tables

\* main() leaves a sound table, and one that is right for the window in
\* front: the language of the shortcuts has no bindings over it.
LEMMA Starting ==
  ASSUME Init
  PROVE  IInv
<1>1. PICK sel \in Locales :
        LET t == KR_resume(LM_activate_selected_locale(Start(sel)), TRUE, FALSE)
            s == KL_define_vks(t, {Lang[sel]})
        IN /\ KL_kly = s.kly /\ KR_id = s.id /\ LM_selected_locale = s.sel
           /\ LM_hwnd = s.hwnd /\ requests = s.requests
  BY DEF Init
<1> DEFINE a == LM_activate_selected_locale(Start(sel))
           t == KR_resume(a, TRUE, FALSE)
           s == KL_define_vks(t, {Lang[sel]})
<1>2. fg \in Windows /\ sel \in Int
  BY LayoutsAssumption DEF Init, Locales
<1>3. Start(sel) \in States
  <2>1. TableOf(ZeroTable) \in Tables
    BY FreshTable
  <2>2. [w \in Windows |-> <<>>] \in [Windows -> Seq(Int)]
    OBVIOUS
  <2> QED
    BY <1>2, <2>1, <2>2 DEF Start, States
<1>4. Sound(a)
  BY <1>3, SelectedSound
<1>5. Sound(t) /\ Fits(t, fg)
  <2>1. TRUE \in BOOLEAN /\ FALSE \in BOOLEAN
    OBVIOUS
  <2>2. t = KR_on_task_switch(a, fg, TRUE, FALSE)
    BY DEF KR_resume
  <2> HIDE DEF a, t
  <2> QED
    BY <1>2, <1>4, <2>1, <2>2, Switching, Zenon
<1> HIDE DEF t
<1>6. Sound(s) /\ Fits(s, fg)
  <2>1. CASE s = t
    BY <1>5, <2>1
  <2>2. CASE s # t
    <3>1. s = [t EXCEPT !.kly = TableOf(KL_vks_lang)] /\ KL_vks_lang # Neutral
      BY <2>2 DEF KL_define_vks
    <3>2. TableOf(KL_vks_lang) \in Tables /\ RemappedIn(TableOf(KL_vks_lang).overlay) = {}
      BY <3>1, FreshTable, LayoutsAssumption
    <3>3. s \in States /\ s.kly = TableOf(KL_vks_lang)
      BY <1>5, <3>1, <3>2 DEF Sound, States
    <3> QED
      BY <3>1, <3>2, <3>3, EmptyFits DEF Sound
  <2> QED
    BY <2>1, <2>2
<1>7. /\ KL_kly = s.kly /\ KR_id = s.id /\ LM_selected_locale = s.sel
      /\ LM_hwnd = s.hwnd /\ requests = s.requests
  BY <1>1 DEF t
<1> HIDE DEF s
<1>8. TypeOK
  <2>1. layout \in [Windows -> Locales] /\ events \in Seq(Windows)
    BY DEF Init
  <2> QED
    BY <1>2, <1>6, <1>7, <2>1 DEF Init, TypeOK, Sound, States, Tables
<1>9. TableOfSelected /\ OverlayKnown
  BY <1>6, <1>7 DEF TableOfSelected, OverlayKnown, InUse, Remapped, Sound, Selected
<1>10. NoRemapElsewhere
  BY <1>6, <1>7 DEF NoRemapElsewhere, InUse, Remapped, Fits, Selected
<1> QED
  BY <1>8, <1>9, <1>10 DEF Init, IInv, LastIsFront

\* A foreground event waits in the queue.
LEMMA ForegroundStep ==
  ASSUME IInv, NEW w \in Windows, Foreground(w)
  PROVE  IInv'
<1>1. events \in Seq(Windows) /\ events' = Append(events, w) /\ fg' = w
  BY DEF IInv, TypeOK, Foreground
<1>2. events' \in Seq(Windows) /\ events' # <<>> /\ events'[Len(events')] = w
  BY <1>1
<1>3. TypeOK' /\ TableOfSelected' /\ OverlayKnown'
  BY <1>1, <1>2 DEF IInv, TypeOK, TableOfSelected, OverlayKnown, InUse, LangAt,
       Remapped, RemappedIn, Foreground, flags, tableVars
<1> QED
  BY <1>1, <1>2, <1>3 DEF IInv, NoRemapElsewhere, LastIsFront

\* The handler: the window of the last event is the one in front.
LEMMA EventStep ==
  ASSUME IInv, EH_proc
  PROVE  IInv'
<1> DEFINE w == Head(events)
           t == [State EXCEPT !.hwnd = w]
           s == IF w \in Consoles THEN ConsoleArrived(t) ELSE WindowArrived(t, w)
<1>1. events \in Seq(Windows) /\ events # <<>> /\ w \in Windows
  BY DEF IInv, TypeOK, EH_proc
<1>2. Becomes(s) /\ events' = Tail(events) /\ UNCHANGED <<flags, fg, layout>>
  BY DEF EH_proc
<1>3. Sound(s) /\ Fits(s, w)
  BY <1>1, Arriving
<1> HIDE DEF s
<1>4. /\ KL_kly' \in Tables /\ KR_id' \in {0, 1} /\ LM_selected_locale' \in Int
      /\ LM_hwnd' \in Windows \cup {NoWindow} /\ requests' \in [Windows -> Seq(Int)]
      /\ TableOfSelected' /\ OverlayKnown'
  BY <1>2, <1>3, BecomesSound
<1>5. events' \in Seq(Windows)
  BY <1>1, <1>2
<1>6. events' # <<>> => events'[Len(events')] = fg
  BY <1>1, <1>2 DEF IInv, LastIsFront
<1>7. NoRemapElsewhere'
  <2>1. CASE events' = <<>>
    <3>1. w = fg
      <4>1. Tail(events) = <<>>
        BY <1>2, <2>1
      <4>2. Len(Tail(events)) = Len(events) - 1 /\ Len(events) \in Nat
        BY <1>1
      <4>3. Len(<<>>) = 0
        OBVIOUS
      <4>4. Len(Tail(events)) = 0
        BY <4>1, <4>3
      <4>5. Len(events) = 1
        BY <4>2, <4>4
      <4> QED
        BY <1>1, <4>5 DEF IInv, LastIsFront
    <3> QED
      BY <1>2, <1>3, <3>1, BecomesFits DEF flags
  <2> QED
    BY <2>1 DEF NoRemapElsewhere
<1> QED
  BY <1>2, <1>4, <1>5, <1>6, <1>7 DEF IInv, TypeOK, LastIsFront, Tables, flags

\* The next or the previous layout.
LEMMA SelectStep ==
  ASSUME IInv, NEW i \in Int, Select(i)
  PROVE  IInv'
<1> DEFINE t == [State EXCEPT !.sel = i]
<1>1. t \in States
  BY StateSound DEF Sound, States
<1> HIDE DEF t
<1> DEFINE s == LM_activate_selected_locale(t)
<1>2. Sound(s) /\ Fits(s, fg)
  <2>1. s.sel = t.sel /\ (Selected(t) => RemappedIn(s.kly.overlay) = {})
    BY <1>1, ActivatingSelected
  <2> QED
    BY <1>1, <2>1, SelectedSound, EmptyFits DEF Selected
<1>3. Becomes(s) /\ UNCHANGED <<flags, fg, events, layout>>
  BY DEF Select, t
<1> HIDE DEF s
<1>4. KR_active' \in BOOLEAN
  BY <1>3 DEF IInv, TypeOK, flags
<1> QED
  BY <1>2, <1>3, <1>4, StepTo DEF flags

\* KR_resume is right for the window in front.
LEMMA Resuming ==
  ASSUME IInv, NEW t, Sound(t), NEW titles \in BOOLEAN, NEW on_pt_only \in BOOLEAN
  PROVE  Sound(KR_resume(t, titles, on_pt_only)) /\ Fits(KR_resume(t, titles, on_pt_only), fg)
<1>1. fg \in Windows
  BY DEF IInv, TypeOK
<1> QED
  BY <1>1, Switching DEF KR_resume

\* Remapping turned on: kr_toggle and kr_on_pt.
LEMMA ActivateStep ==
  ASSUME IInv, KR_activate, UNCHANGED <<KL_active, fg, events, layout>>
  PROVE  IInv'
<1> DEFINE s == KR_resume(State, KL_active, FALSE)
<1>1. Sound(State) /\ KL_active \in BOOLEAN /\ FALSE \in BOOLEAN
  BY StateSound DEF IInv, TypeOK
<1>2. Sound(s) /\ Fits(s, fg)
  BY <1>1, Resuming, Zenon
<1>3. Becomes(s) /\ KR_active' \in BOOLEAN
  BY DEF KR_activate
<1> HIDE DEF s
<1> QED
  BY <1>2, <1>3, StepTo

\* Remapping turned off.
LEMMA DeactivateStep ==
  ASSUME IInv, KR_deactivate, UNCHANGED <<KL_active, fg, events, layout>>
  PROVE  IInv'
<1> DEFINE s == KR_clear(State)
<1>1. Sound(s) /\ s.sel = State.sel /\ (Selected(State) => RemappedIn(s.kly.overlay) = {})
  BY StateSound, Clearing DEF Sound
<1>2. Becomes(s) /\ KR_active' \in BOOLEAN
  BY DEF KR_deactivate
<1> HIDE DEF s
<1>3. Fits(s, fg)
  BY <1>1, EmptyFits DEF Selected
<1> QED
  BY <1>1, <1>2, <1>3, StepTo

\* kr_off and kr_off_pt.
LEMMA OffStep ==
  ASSUME IInv, KA_kr_off
  PROVE  IInv'
<1> DEFINE r == KR_clear(State)
           b == KL_active /\ KR_active
           s == KR_resume(r, b, TRUE)
<1>1. Sound(r)
  BY StateSound, Clearing DEF Sound
<1>2. b \in BOOLEAN /\ TRUE \in BOOLEAN
  OBVIOUS
<1>3. Becomes(s) /\ UNCHANGED <<flags, fg, events, layout>>
  BY DEF KA_kr_off
<1> HIDE DEF r, b
<1>4. Sound(s) /\ Fits(s, fg)
  BY <1>1, <1>2, Resuming, Zenon
<1> HIDE DEF s
<1>5. KR_active' \in BOOLEAN
  BY <1>3 DEF IInv, TypeOK, flags
<1> QED
  BY <1>3, <1>4, <1>5, StepTo DEF flags

\* A step that changes neither the table, nor KR_id, nor the selection.
LEMMA QuietStep ==
  ASSUME IInv, TypeOK', UNCHANGED <<KL_kly, KR_id, LM_selected_locale, fg, events>>
  PROVE  IInv'
  BY DEF IInv, TableOfSelected, OverlayKnown, NoRemapElsewhere, InUse, LangAt,
       Remapped, RemappedIn, LastIsFront

\* A window answers a request.
LEMMA RequestStep ==
  ASSUME IInv, NEW w \in Windows, HandleRequest(w)
  PROVE  IInv'
<1>1. requests \in [Windows -> Seq(Int)] /\ layout \in [Windows -> Locales]
  BY DEF IInv, TypeOK
<1>2. requests[w] \in Seq(Int) /\ requests[w] # <<>>
  BY <1>1 DEF HandleRequest
<1>3. Tail(requests[w]) \in Seq(Int)
  BY <1>2
<1>4. requests' \in [Windows -> Seq(Int)] /\ layout' \in [Windows -> Locales]
  BY <1>1, <1>3 DEF HandleRequest
<1>5. TypeOK'
  BY <1>4 DEF IInv, TypeOK, HandleRequest, flags
<1> QED
  BY <1>5, QuietStep DEF HandleRequest

\* The invariant is inductive.
LEMMA Inductive ==
  ASSUME IInv, [Next]_vars
  PROVE  IInv'
<1>1. CASE UNCHANGED vars
  <2>1. TypeOK'
    BY <1>1 DEF IInv, TypeOK, vars, flags, tableVars
  <2> QED
    BY <1>1, <2>1, QuietStep DEF vars, tableVars
<1>2. ASSUME NEW w \in Windows, Foreground(w) \/ HandleRequest(w)
      PROVE  IInv'
  BY <1>2, ForegroundStep, RequestStep
<1>3. CASE EH_proc
  BY <1>3, EventStep
<1>4. CASE LM_activate_next_locale \/ LM_activate_prev_locale
  <2>1. LM_selected_locale \in Int /\ Count \in Int
    BY LayoutsAssumption DEF IInv, TypeOK
  <2>2. Next_locale(LM_selected_locale) \in Int /\ Prev_locale(LM_selected_locale) \in Int
    BY <2>1 DEF Next_locale, Prev_locale
  <2> QED
    BY <1>4, <2>2, SelectStep DEF LM_activate_next_locale, LM_activate_prev_locale
<1>5. CASE KL_toggle
  <2>1. TypeOK'
    BY <1>5 DEF IInv, TypeOK, KL_toggle, tableVars
  <2> QED
    BY <1>5, <2>1, QuietStep DEF KL_toggle, tableVars
<1>6. CASE KR_toggle
  BY <1>6, ActivateStep, DeactivateStep DEF KR_toggle
<1>7. CASE KA_kr_on_pt
  BY <1>7, ActivateStep DEF KA_kr_on_pt
<1>8. CASE KA_kr_off
  BY <1>8, OffStep
<1> QED
  BY <1>1, <1>2, <1>3, <1>4, <1>5, <1>6, <1>7, <1>8 DEF Next

LEMMA Invariance == Spec => []IInv
  BY Starting, Inductive, PTL DEF Spec

\* The types: in particular the table is always that of a language with
\* bindings, or the one of zeros it was at start.
THEOREM LayoutsTypeCorrect == Spec => []TypeOK
  BY Invariance, PTL DEF IInv

\* The table in use is the one of the selected language, for any languages
\* and windows (lm.c, eh.c).
THEOREM SelectedTable == Spec => []TableOfSelected
  BY Invariance, PTL DEF IInv

\* KR_id is 0 only when no bindings of an application are in the table
\* (kr.c:289, 299).
THEOREM OverlayIsKnown == Spec => []OverlayKnown
  BY Invariance, PTL DEF IInv

\* A window without a title of its own never works with the bindings of
\* another application (kr.c:287-313).
THEOREM NoLeak == Spec => []NoRemapElsewhere
  BY Invariance, PTL DEF IInv

-----------------------------------------------------------------------------
(***************************************************************************)
(* The window that keys go to gets the selected language.  Each function   *)
(* that asks a window for a layout asks for the selected one last, so it   *)
(* is enough that a window that is not asked has it already.               *)
(***************************************************************************)

\* WindowFollows of a record: where its window is headed.
Headed(t) == IF t.requests[t.hwnd] = <<>> THEN layout[t.hwnd] ELSE Last(t.requests[t.hwnd])
Aimed(t) == LangAt(Headed(t)) = LangAt(t.sel)

\* Asking for the selected locale.
LEMMA AskingAims ==
  ASSUME NEW t \in States, t.hwnd \in Windows
  PROVE  Aimed(LM_activate_selected_locale(t))
<1> DEFINE s == LM_activate_selected_locale(t)
<1>1. t.requests[t.hwnd] \in Seq(Int) /\ t.sel \in Int
  BY DEF States
<1>2. s.hwnd = t.hwnd /\ s.sel = t.sel
  BY ActivatingSelected
<1>3. s.requests = [t.requests EXCEPT ![t.hwnd] = Append(@, t.sel)]
  BY DEF LM_activate_selected_locale, LM_activate_nth_locale, OS_activate_layout, States
<1>4. s.requests[t.hwnd] = Append(t.requests[t.hwnd], t.sel)
  BY <1>3 DEF States
<1> HIDE DEF s
<1>5. ASSUME NEW q \in Seq(Int), NEW i \in Int PROVE Append(q, i) # <<>> /\ Last(Append(q, i)) = i
  BY DEF Last
<1>6. s.requests[s.hwnd] # <<>> /\ Last(s.requests[s.hwnd]) = t.sel
  BY <1>1, <1>2, <1>4, <1>5
<1>7. Headed(s) = s.sel
  BY <1>2, <1>6 DEF Headed
<1> QED
  BY <1>7 DEF Aimed, s

\* Writing an application's bindings asks for nothing.
LEMMA ApplyingAims ==
  ASSUME NEW t \in States, Aimed(t), NEW app, NEW on_pt_only
  PROVE  Aimed(KR_apply(t, app, on_pt_only))
<1>1. /\ KR_apply(t, app, on_pt_only).requests = t.requests
      /\ KR_apply(t, app, on_pt_only).hwnd = t.hwnd
      /\ KR_apply(t, app, on_pt_only).sel = t.sel
  BY DEF KR_apply, States, Tables
<1> QED
  BY <1>1 DEF Aimed, Headed

\* Looking for an application's bindings, and clearing those of another.
LEMMA SwitchingAims ==
  ASSUME NEW t \in States, Aimed(t), t.hwnd \in Windows,
         NEW w, NEW titles, NEW on_pt_only
  PROVE  Aimed(KR_on_task_switch(t, w, titles, on_pt_only))
<1> DEFINE s == KR_on_task_switch(t, w, titles, on_pt_only)
           r == IF t.id # 0 THEN KR_clear(t) ELSE t
           z == [t EXCEPT !.id = 0]
<1>1. CASE titles /\ TitleApp[w] # NoApp
  BY <1>1, ApplyingAims DEF KR_on_task_switch
<1>2. CASE ~(titles /\ TitleApp[w] # NoApp)
  <2>1. s = KR_wndcls(r, w, on_pt_only)
    BY <1>2 DEF KR_on_task_switch
  <2>2. z \in States /\ z.hwnd \in Windows
    BY DEF States
  <2>3. KR_clear(t) = LM_activate_selected_locale(z)
    BY DEF KR_clear
  <2> HIDE DEF z
  <2>4. LM_activate_selected_locale(z) \in States /\ Aimed(LM_activate_selected_locale(z))
    BY <2>2, ActivatingSelected, AskingAims
  <2>5. r \in States /\ Aimed(r)
    BY <2>3, <2>4
  <2> HIDE DEF r
  <2> QED
    BY <2>1, <2>5, ApplyingAims DEF KR_wndcls
<1> QED
  BY <1>1, <1>2

\* The handler of foreground events: it selects nothing.
LEMMA ArrivingKeeps ==
  ASSUME IInv, NEW w \in Windows
  PROVE  LET t == [State EXCEPT !.hwnd = w]
             s == IF w \in Consoles THEN ConsoleArrived(t) ELSE WindowArrived(t, w)
         IN s.hwnd = w /\ s.sel = LM_selected_locale
<1> DEFINE t == [State EXCEPT !.hwnd = w]
<1>1. Sound(State) /\ State \in States /\ State.sel = LM_selected_locale
  BY StateSound DEF Sound, State
<1>2. t \in States /\ t.hwnd = w /\ t.sel = LM_selected_locale
  BY <1>1 DEF States
<1>3. Sound(t)
  BY <1>1 DEF Sound, Selected, States
<1> HIDE DEF t
<1>4. ConsoleArrived(t).hwnd = w /\ ConsoleArrived(t).sel = LM_selected_locale
  <2> DEFINE r == LM_activate_nth_locale(t, 0)
  <2>1. r \in States /\ r.hwnd = w /\ r.sel = LM_selected_locale
    BY <1>2, Activating
  <2>2. ConsoleArrived(t) = LM_activate_selected_locale(r)
    BY DEF ConsoleArrived
  <2> HIDE DEF r
  <2> QED
    BY <2>1, <2>2, ActivatingSelected
<1>5. WindowArrived(t, w).hwnd = w /\ WindowArrived(t, w).sel = LM_selected_locale
  <2> DEFINE r == IF KL_active /\ LangAt(t.sel) # Lang[layout[w]]
                  THEN LM_activate_selected_locale(t) ELSE t
  <2>1. Sound(r) /\ r.hwnd = w /\ r.sel = LM_selected_locale
    BY <1>2, <1>3, SelectedSound, ActivatingSelected
  <2>2. (KL_active /\ KR_active) \in BOOLEAN /\ FALSE \in BOOLEAN
    OBVIOUS
  <2>3. WindowArrived(t, w) = KR_on_task_switch(r, w, KL_active /\ KR_active, FALSE)
    BY DEF WindowArrived
  <2> HIDE DEF r
  <2>4. LET s == KR_on_task_switch(r, w, KL_active /\ KR_active, FALSE)
        IN s.hwnd = w /\ s.sel = LM_selected_locale
    BY <2>1, <2>2, Switching, Zenon
  <2> QED
    BY <2>3, <2>4
<1> QED
  BY <1>4, <1>5 DEF t

\* A window that is not late is headed for the selected language then.
LEMMA ArrivingAims ==
  ASSUME IInv, NEW w \in Windows, KL_active, ~Late(w)
  PROVE  LET t == [State EXCEPT !.hwnd = w]
             s == IF w \in Consoles THEN ConsoleArrived(t) ELSE WindowArrived(t, w)
         IN Aimed(s)
<1> DEFINE t == [State EXCEPT !.hwnd = w]
<1>1. Sound(State) /\ State \in States /\ State.requests = requests
  BY StateSound DEF Sound, State
<1>2. /\ t \in States /\ t.hwnd = w
      /\ t.sel = LM_selected_locale /\ t.requests = requests
  BY <1>1 DEF States, State
<1>3. Sound(t)
  BY <1>1 DEF Sound, Selected, States
<1> HIDE DEF t
<1>4. Aimed(ConsoleArrived(t))
  <2> DEFINE r == LM_activate_nth_locale(t, 0)
  <2>1. r \in States /\ r.hwnd = w
    BY <1>2, Activating
  <2>2. ConsoleArrived(t) = LM_activate_selected_locale(r)
    BY DEF ConsoleArrived
  <2> HIDE DEF r
  <2> QED
    BY <2>1, <2>2, AskingAims, ActivatingSelected
<1>5. ASSUME w \notin Consoles
      PROVE  Aimed(WindowArrived(t, w))
  <2> DEFINE asked == LangAt(t.sel) # Lang[layout[w]]
             r == IF KL_active /\ asked THEN LM_activate_selected_locale(t) ELSE t
  <2>1. Sound(r) /\ r.hwnd = w
    BY <1>2, <1>3, SelectedSound, ActivatingSelected
  <2>2. Aimed(r)
    <3>1. CASE asked
      BY <1>2, <3>1, AskingAims
    <3>2. CASE ~asked
      <4>1. r = t /\ layout[w] \in Locales
        BY <3>2 DEF IInv, TypeOK
      <4>2. LangAt(layout[w]) = LangAt(t.sel)
        BY <3>2, <4>1 DEF LangAt
      <4>3. requests[w] = <<>>
        BY <1>2, <1>5, <3>2 DEF Late
      <4> HIDE DEF r
      <4> QED
        BY <1>2, <4>1, <4>2, <4>3 DEF Aimed, Headed
    <3> QED
      BY <3>1, <3>2
  <2>3. WindowArrived(t, w) = KR_on_task_switch(r, w, KL_active /\ KR_active, FALSE)
    BY DEF WindowArrived
  <2> HIDE DEF r
  <2>4. Aimed(KR_on_task_switch(r, w, KL_active /\ KR_active, FALSE))
    BY <2>1, <2>2, SwitchingAims DEF Sound
  <2> QED
    BY <2>3, <2>4
<1> QED
  BY <1>4, <1>5 DEF t

\* What an aimed record says of the variables.
LEMMA BecomesAimed ==
  ASSUME NEW t, Becomes(t), Aimed(t), layout' = layout
  PROVE  LangAt(Destined(LM_hwnd)') = LangAt(LM_selected_locale')
<1>1. LM_selected_locale' = t.sel /\ LM_hwnd' = t.hwnd /\ requests' = t.requests
  BY DEF Becomes
<1>2. Destined(LM_hwnd)' = Headed(t)
  BY <1>1 DEF Destined, Headed, Last
<1> QED
  BY <1>1, <1>2 DEF Aimed

\* The functions of the remapper select nothing.
LEMMA SameSelection ==
  ASSUME IInv, KR_activate \/ KR_deactivate \/ KA_kr_off
  PROVE  LM_selected_locale' = LM_selected_locale
<1>1. Sound(State) /\ State \in States /\ State.sel = LM_selected_locale
  BY StateSound DEF Sound, State
<1>2. fg \in Windows /\ KL_active \in BOOLEAN /\ TRUE \in BOOLEAN /\ FALSE \in BOOLEAN
      /\ (KL_active /\ KR_active) \in BOOLEAN
  BY DEF IInv, TypeOK
<1>3. CASE KR_activate
  <2>1. KR_on_task_switch(State, fg, KL_active, FALSE).sel = State.sel
    BY <1>1, <1>2, Switching, Zenon
  <2> QED
    BY <1>1, <1>3, <2>1 DEF KR_activate, KR_resume, Becomes
<1>4. Sound(KR_clear(State)) /\ KR_clear(State).sel = State.sel
  BY <1>1, Clearing
<1>5. CASE KR_deactivate
  BY <1>1, <1>4, <1>5 DEF KR_deactivate, Becomes
<1>6. CASE KA_kr_off
  <2>1. KR_on_task_switch(KR_clear(State), fg, KL_active /\ KR_active, TRUE).sel
          = KR_clear(State).sel
    BY <1>2, <1>4, Switching, Zenon
  <2> QED
    BY <1>1, <1>4, <1>6, <2>1 DEF KA_kr_off, KR_resume, Becomes
<1> QED
  BY <1>3, <1>5, <1>6

\* A window that is not late when it comes to the front has the selected language
\* once EH_proc was called for it, or will have it when it has answered what it is
\* asked then, and so has the window in front after each selection, whether it is
\* a console or not and whatever the remapper clears (eh.c:27-39, lm.c:82-108).
THEOREM WindowsFollow == Spec => WindowFollows
<1> DEFINE A == KL_active
                /\ \/ Len(events') < Len(events) /\ ~Late(LM_hwnd')
                   \/ LM_selected_locale' # LM_selected_locale
                /\ LM_hwnd' # NoWindow
                => LangAt(Destined(LM_hwnd)') = LangAt(LM_selected_locale')
<1>1. ASSUME IInv, Next PROVE A
  <2>1. ASSUME NEW i \in Int, Select(i) PROVE A
    <3> DEFINE t == [State EXCEPT !.sel = i]
               s == LM_activate_selected_locale(t)
    <3>1. t \in States /\ t.hwnd = LM_hwnd
      BY StateSound, <1>1 DEF Sound, States, State
    <3>2. Becomes(s) /\ layout' = layout
      BY <2>1 DEF Select
    <3> HIDE DEF t
    <3>3. LM_hwnd' = LM_hwnd /\ LM_hwnd \in Windows \cup {NoWindow}
      BY <1>1, <3>1, <3>2, ActivatingSelected DEF Becomes, IInv, TypeOK
    <3>4. CASE LM_hwnd # NoWindow
      <4>1. Aimed(s)
        BY <3>1, <3>3, <3>4, AskingAims
      <4> HIDE DEF s
      <4> QED
        BY <3>2, <4>1, BecomesAimed
    <3> QED
      BY <3>3, <3>4
  <2>2. CASE EH_proc
    <3> DEFINE w == Head(events)
               t == [State EXCEPT !.hwnd = w]
               s == IF w \in Consoles THEN ConsoleArrived(t) ELSE WindowArrived(t, w)
    <3>1. w \in Windows /\ Becomes(s) /\ layout' = layout
      BY <1>1, <2>2 DEF IInv, TypeOK, EH_proc
    <3>2. CASE KL_active /\ ~Late(w)
      <4>1. Aimed(s)
        BY <1>1, <3>1, <3>2, ArrivingAims
      <4> HIDE DEF s
      <4> QED
        BY <3>1, <4>1, BecomesAimed
    <3>3. CASE KL_active /\ Late(w)
      <4>1. s.hwnd = w /\ s.sel = LM_selected_locale
        BY <1>1, <3>1, ArrivingKeeps
      <4> HIDE DEF s, w
      <4>2. LM_hwnd' = w /\ LM_selected_locale' = LM_selected_locale
        BY <3>1, <4>1 DEF Becomes
      <4> QED
        BY <3>3, <4>2
    <3> QED
      BY <3>2, <3>3
  <2>3. CASE LM_activate_next_locale \/ LM_activate_prev_locale
    <3>1. LM_selected_locale \in Int /\ Count \in Int
      BY <1>1, LayoutsAssumption DEF IInv, TypeOK
    <3>2. Next_locale(LM_selected_locale) \in Int /\ Prev_locale(LM_selected_locale) \in Int
      BY <3>1 DEF Next_locale, Prev_locale
    <3> QED
      BY <2>1, <2>3, <3>2 DEF LM_activate_next_locale, LM_activate_prev_locale
  <2>4. CASE KR_toggle \/ KA_kr_on_pt \/ KA_kr_off
    <3>1. LM_selected_locale' = LM_selected_locale
      BY <1>1, <2>4, SameSelection DEF KR_toggle, KA_kr_on_pt
    <3>2. events' = events
      BY <2>4 DEF KR_toggle, KA_kr_on_pt, KA_kr_off
    <3> QED
      BY <3>1, <3>2
  <2>5. ASSUME NEW w \in Windows, Foreground(w) \/ HandleRequest(w) PROVE A
    <3>1. Len(events') >= Len(events) /\ LM_selected_locale' = LM_selected_locale
      BY <1>1, <2>5 DEF IInv, TypeOK, Foreground, HandleRequest, tableVars
    <3>2. Len(events) \in Nat /\ Len(events') \in Nat
      BY <1>1, <2>5 DEF IInv, TypeOK, Foreground, HandleRequest
    <3> QED
      BY <3>1, <3>2
  <2>6. CASE KL_toggle
    <3>1. events' = events /\ LM_selected_locale' = LM_selected_locale
      BY <2>6 DEF KL_toggle, tableVars
    <3> QED
      BY <3>1
  <2> QED
    BY <1>1, <2>2, <2>3, <2>4, <2>5, <2>6 DEF Next
<1>2. IInv /\ [Next]_vars => [A]_vars
  BY <1>1
<1> QED
  BY <1>2, Invariance, PTL DEF Spec, WindowFollows
=============================================================================
