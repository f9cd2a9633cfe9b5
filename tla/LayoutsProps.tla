---------------------------- MODULE LayoutsProps ----------------------------
(***************************************************************************)
(* The properties of Layouts.                                              *)
(***************************************************************************)
EXTENDS Layouts, SequencesExt

Overlays == [Keys -> Apps \cup {NoApp}]

\* Types: the table is that of a language with bindings, or of zeros.
TypeOK ==
  /\ KL_active \in BOOLEAN /\ KR_active \in BOOLEAN
  /\ KL_kly \in [lang : Klcs \cup {ZeroTable}, overlay : Overlays]
  /\ KR_id \in {0, 1}
  /\ LM_selected_locale \in Int
  /\ LM_hwnd \in Windows \cup {NoWindow}
  /\ fg \in Windows
  /\ events \in Seq(Windows)
  /\ requests \in [Windows -> Seq(Int)]
  /\ layout \in [Windows -> Locales]

\* The selected language has bindings of its own.
InUse == LangAt(LM_selected_locale) \in Klcs

\* Whatever the windows, the hotkeys and the remapper do, and also after a
\* console was given the first locale in between, the table in use is that
\* of the selected language (lm.c, eh.c:33-37, kr.c:279).  It holds when the
\* shortcuts need no language of their own: see KL_define_vks.
TableOfSelected ==
  KL_vks_lang = Neutral /\ InUse => KL_kly.lang = LangAt(LM_selected_locale)

\* Keys that an application's bindings were written over, other than by the
\* binds that turn remapping on again.
RemappedIn(overlay) ==
  {k \in Keys : overlay[k] # NoApp /\ k \notin PtBinds[overlay[k]]}
Remapped == RemappedIn(KL_kly.overlay)

\* KR_id tells the truth: while it says that no bindings were applied, the
\* table has none, so that a window that needs none can be skipped
\* (kr.c:289, 299).
OverlayKnown == InUse /\ KR_id = 0 => Remapped = {}

\* In a window without a title of its own, once its foreground event was
\* handled, no key has the bindings of another application, whatever was in
\* front before and whether remapping and the hook were on or off
\* (kr.c:287-313; config/example.txt:157).
NoRemapElsewhere ==
  InUse /\ events = <<>> /\ TitleApp[fg] = NoApp
    => \A k \in Remapped : KL_kly.overlay[k] = ClassApp[fg]

\* The layout that a window will have once it has answered every request.
Destined(w) == IF requests[w] = <<>> THEN layout[w] ELSE Last(requests[w])

\* EH_proc asks a window, other than a console, for nothing when it finds its
\* layout to be of the selected language (eh.c:27, 37), although a request posted
\* to it before (os.c:64) may still wait to change that layout.
Late(w) ==
  /\ w \notin Consoles
  /\ requests[w] # <<>>
  /\ Lang[layout[w]] = LangAt(LM_selected_locale)

\* The window that keys go to gets the selected language: whenever a
\* foreground event was handled, or the selection changed, with the hook on,
\* the last request of the window of that event leaves it so, whatever requests
\* of it and of other windows are unanswered (eh.c:27-39, lm.c:82-108).  It is
\* claimed of an event for all windows but a late one, which EH_proc may leave
\* headed for the language selected before.
WindowFollows ==
  [][/\ KL_active
     /\ \/ Len(events') < Len(events) /\ ~Late(LM_hwnd')
        \/ LM_selected_locale' # LM_selected_locale
     /\ LM_hwnd' # NoWindow
     => LangAt(Destined(LM_hwnd)') = LangAt(LM_selected_locale')]_vars

-----------------------------------------------------------------------------
\* What the documents say and the code does not do.

\* "Keys could also be remapped for a specific window only"
\* (config/example.txt:157): no key has the bindings of an application that
\* the window in front is not named by.
OnlyItsWindow ==
  events = <<>> => \A k \in Remapped : KL_kly.overlay[k] \in {TitleApp[fg], ClassApp[fg]}
=============================================================================
