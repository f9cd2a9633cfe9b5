------------------------------- MODULE Layouts -------------------------------
(***************************************************************************)
(* Which table of alterations is in use: the part of the program that      *)
(* follows the input language (lm.c), the window in front (eh.c, kr.c)     *)
(* and the flags that turn alteration and remapping on and off.            *)
(*                                                                         *)
(* KL_kly is the table that the hook reads.  It is a copy of a language's  *)
(* compiled table over whose first two levels the bindings of an           *)
(* application may have been written, so it is modelled as the language    *)
(* it was copied from and, for each key, the application that wrote it.    *)
(* A compiled table depends only on the bindings read at start, so that    *)
(* the first activation, which compiles, leaves what later ones copy.      *)
(*                                                                         *)
(* All of it runs on the thread of the message loop; an event is one step. *)
(* Windows delivers foreground changes (events) and requests to change     *)
(* the layout (requests) later, each in order.                             *)
(***************************************************************************)
EXTENDS Integers, Sequences, FiniteSets

CONSTANTS
  Windows, NoWindow,   \* windows; HWND 0
  Consoles,            \* windows of class ConsoleWindowClass
  Apps, NoApp,         \* KR_apps: the groups of bindings for windows
  TitleApp, ClassApp,  \* the application found for a window's title, its class
  Keys,                \* scancodes
  Binds,               \* the keys that an application binds
  PtBinds,             \* those it binds to the key action kr_on_pt
  Count, Lang,         \* LM_locales: their number, the language of each
  Outside,             \* the language read from memory around the array
  Klcs,                \* languages that the configuration has bindings for
  ZeroTable,           \* stands for the language of the table of zeros
  Neutral, KL_vks_lang,\* LANG_NEUTRAL; the language of the shortcuts
  MaxEvents, MaxRequests, MaxBelow  \* bounds on the queues, on a negative index

Locales == 0 .. Count - 1

ASSUME LayoutsAssumption ==
  /\ NoWindow \notin Windows /\ Consoles \subseteq Windows
  /\ NoApp \notin Apps
  /\ TitleApp \in [Windows -> Apps \cup {NoApp}]
  /\ ClassApp \in [Windows -> Apps \cup {NoApp}]
  /\ Binds \in [Apps -> SUBSET Keys]
  /\ PtBinds \in [Apps -> SUBSET Keys]
  /\ \A a \in Apps : PtBinds[a] \subseteq Binds[a]
  /\ Count \in Nat \ {0} /\ DOMAIN Lang = Locales
  /\ ZeroTable \notin Klcs /\ Neutral \notin Klcs
  /\ KL_vks_lang \in Klcs \cup {Neutral}
  /\ MaxEvents \in Nat /\ MaxRequests \in Nat /\ MaxBelow \in Nat

VARIABLES
  KL_active, KR_active,  \* is the hook installed; are titles looked up
  KL_kly,                \* the table in use
  KR_id,                 \* 1 when an application's bindings were applied
  LM_selected_locale,    \* index into LM_locales
  LM_hwnd,               \* window of the last foreground event
  fg,                    \* environment: the window in front
  events,                \* foreground events that EH_proc was not called for
  requests,              \* WM_INPUTLANGCHANGEREQUESTs posted to each window
  layout                 \* the locale that each window has

flags == <<KL_active, KR_active>>
tableVars == <<KL_kly, KR_id, LM_selected_locale, LM_hwnd, requests>>
vars == <<flags, tableVars, fg, events, layout>>

-----------------------------------------------------------------------------
(***************************************************************************)
(* The functions of lm.c, kl.c and kr.c that the handlers call, on the     *)
(* part of the state that they change.                                     *)
(***************************************************************************)

NoOverlay == [k \in Keys |-> NoApp]
TableOf(lang) == [lang |-> lang, overlay |-> NoOverlay]

State == [kly |-> KL_kly, id |-> KR_id, sel |-> LM_selected_locale,
          hwnd |-> LM_hwnd, requests |-> requests]

Becomes(t) == /\ KL_kly' = t.kly /\ KR_id' = t.id
              /\ LM_selected_locale' = t.sel /\ LM_hwnd' = t.hwnd
              /\ requests' = t.requests

LangAt(i) == IF i \in Locales THEN Lang[i] ELSE Outside

\* Mutant of KL_activate_lang: any language has a table.
KL_activate_lang_Any(kly, lang) == TableOf(lang)

\* A language without bindings is "no such lang!": the table stays.
KL_activate_lang(kly, lang) == IF lang \in Klcs THEN TableOf(lang) ELSE kly

\* PostMessage.  A message to HWND 0 goes to the program's own loop, which
\* ignores it.
OS_activate_layout(posted, w, i) ==
  IF w \in Windows THEN [posted EXCEPT ![w] = Append(@, i)] ELSE posted

LM_activate_nth_locale(t, i) ==
  [t EXCEPT !.kly = KL_activate_lang(@, LangAt(i)),
            !.requests = OS_activate_layout(@, t.hwnd, i)]

LM_activate_selected_locale(t) == LM_activate_nth_locale(t, t.sel)

KR_apply(t, app, on_pt_only) ==
  LET keys == IF on_pt_only THEN PtBinds[app] ELSE Binds[app]
  IN [t EXCEPT !.id = IF on_pt_only THEN @ ELSE 1,
               !.kly.overlay = [k \in Keys |-> IF k \in keys THEN app ELSE @[k]]]

\* Mutant of KR_clear: the table is left as it is.
KR_clear_Kept(t) == [t EXCEPT !.id = 0]

KR_clear(t) == LM_activate_selected_locale([t EXCEPT !.id = 0])

KR_wndcls(t, w, on_pt_only) ==
  IF ClassApp[w] = NoApp THEN t ELSE KR_apply(t, ClassApp[w], on_pt_only)

\* Mutant of KR_on_task_switch: it does nothing while remapping is off.
KR_on_task_switch_OffKept(t, w, titles, on_pt_only) ==
  IF ~titles THEN t
  ELSE IF TitleApp[w] # NoApp THEN KR_apply(t, TitleApp[w], FALSE)
  ELSE KR_wndcls(IF t.id # 0 THEN KR_clear(t) ELSE t, w, on_pt_only)

\* titles: KL_active && KR_active
KR_on_task_switch(t, w, titles, on_pt_only) ==
  IF titles /\ TitleApp[w] # NoApp THEN KR_apply(t, TitleApp[w], FALSE)
  ELSE KR_wndcls(IF t.id # 0 THEN KR_clear(t) ELSE t, w, on_pt_only)

KR_resume(t, titles, on_pt_only) == KR_on_task_switch(t, fg, titles, on_pt_only)

\* The language of the shortcuts is compiled, into KL_kly, unless it is the
\* one that was activated.
KL_define_vks(t, compiled) ==
  IF KL_vks_lang = Neutral \/ KL_vks_lang \in compiled THEN t
  ELSE [t EXCEPT !.kly = TableOf(KL_vks_lang)]

-----------------------------------------------------------------------------
(***************************************************************************)
(* main(): the first locale, the hook, the remapper, the shortcuts.  No    *)
(* foreground event has come yet, so LM_hwnd is 0.                         *)
(***************************************************************************)
Start(sel) == [kly |-> TableOf(ZeroTable), id |-> 0, sel |-> sel,
               hwnd |-> NoWindow, requests |-> [w \in Windows |-> <<>>]]

Init ==
  /\ KL_active = TRUE /\ KR_active = TRUE
  /\ fg \in Windows /\ events = <<>>
  /\ \E i \in Locales : layout = [w \in Windows |-> i]
  /\ \E sel \in Locales :
       LET t == KR_resume(LM_activate_selected_locale(Start(sel)), TRUE, FALSE)
           s == KL_define_vks(t, {Lang[sel]})
       IN /\ KL_kly = s.kly /\ KR_id = s.id /\ LM_selected_locale = s.sel
          /\ LM_hwnd = s.hwnd /\ requests = s.requests

\* The user may act when the windows do not lag too far behind.
Room == \A w \in Windows : Len(requests[w]) <= MaxRequests

Foreground(w) ==
  /\ w # fg /\ Len(events) < MaxEvents
  /\ fg' = w
  /\ events' = Append(events, w)
  /\ UNCHANGED <<flags, tableVars, layout>>

\* Mutant of ConsoleArrived: only the first locale.
ConsoleArrived_First(t) == LM_activate_nth_locale(t, 0)

\* A console gets the first locale and then the selected one.
ConsoleArrived(t) ==
  LM_activate_selected_locale(LM_activate_nth_locale(t, 0))

\* Mutant of WindowArrived: the layout is left alone while remapping is off.
WindowArrived_KrOnly(t, w) ==
  KR_on_task_switch(
    IF KL_active /\ KR_active /\ LangAt(t.sel) # Lang[layout[w]]
    THEN LM_activate_selected_locale(t) ELSE t,
    w, KL_active /\ KR_active, FALSE)

WindowArrived(t, w) ==
  KR_on_task_switch(
    IF KL_active /\ LangAt(t.sel) # Lang[layout[w]]
    THEN LM_activate_selected_locale(t) ELSE t,
    w, KL_active /\ KR_active, FALSE)

\* EH_proc.  (It also calls KL_on_task_switch: see Hook.)
EH_proc ==
  /\ events # <<>> /\ Room
  /\ LET w == Head(events)
         t == [State EXCEPT !.hwnd = w]
     IN Becomes(IF w \in Consoles THEN ConsoleArrived(t) ELSE WindowArrived(t, w))
  /\ events' = Tail(events)
  /\ UNCHANGED <<flags, fg, layout>>

Next_locale(sel) == IF sel + 1 >= Count THEN 0 ELSE sel + 1
Prev_locale(sel) == IF sel - 1 >= 0 THEN Count ELSE sel - 1

Select(i) ==
  /\ Room
  /\ Becomes(LM_activate_selected_locale([State EXCEPT !.sel = i]))
  /\ UNCHANGED <<flags, fg, events, layout>>

\* From a key, a hotkey or the tray.
LM_activate_next_locale == Select(Next_locale(LM_selected_locale))
LM_activate_prev_locale ==
  /\ LM_selected_locale > -MaxBelow
  /\ Select(Prev_locale(LM_selected_locale))

KL_toggle ==
  /\ KL_active' = ~KL_active
  /\ UNCHANGED <<KR_active, tableVars, fg, events, layout>>

KR_activate ==
  /\ KR_active' = TRUE
  /\ Becomes(KR_resume(State, KL_active, FALSE))

KR_deactivate ==
  /\ KR_active' = FALSE
  /\ Becomes(KR_clear(State))

KR_toggle ==
  /\ Room
  /\ \/ KR_active /\ KR_deactivate
     \/ ~KR_active /\ KR_activate
  /\ UNCHANGED <<KL_active, fg, events, layout>>

\* The first press of a key bound to kr_on_pt; it is then passed on.
KA_kr_on_pt ==
  /\ Room
  /\ ~KR_active \/ KR_id = 0
  /\ KR_activate
  /\ UNCHANGED <<KL_active, fg, events, layout>>

\* kr_off, and kr_off_pt, which also passes the key on.
KA_kr_off ==
  /\ Room
  /\ KR_active
  /\ Becomes(KR_resume(KR_clear(State), KL_active /\ KR_active, TRUE))
  /\ UNCHANGED <<flags, fg, events, layout>>

\* A window answers a request; a handle that is none is refused.
HandleRequest(w) ==
  /\ requests[w] # <<>>
  /\ layout' = IF Head(requests[w]) \in Locales
               THEN [layout EXCEPT ![w] = Head(requests[w])] ELSE layout
  /\ requests' = [requests EXCEPT ![w] = Tail(@)]
  /\ UNCHANGED <<flags, KL_kly, KR_id, LM_selected_locale, LM_hwnd, fg, events>>

Next ==
  \/ \E w \in Windows : Foreground(w) \/ HandleRequest(w)
  \/ EH_proc
  \/ LM_activate_next_locale \/ LM_activate_prev_locale
  \/ KL_toggle \/ KR_toggle \/ KA_kr_on_pt \/ KA_kr_off

Spec == Init /\ [][Next]_vars
=============================================================================
