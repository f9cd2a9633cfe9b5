------------------------------ MODULE MCLayouts ------------------------------
(***************************************************************************)
(* Instances of Layouts: an editor whose class has bindings, one of them   *)
(* to kr_on_pt, two games known by title, a plain window and a console.    *)
(***************************************************************************)
EXTENDS LayoutsProps, TLC

MCTitleApp == [w \in Windows |->
  CASE w = "game" -> "arrows" [] w = "chess" -> "moves" [] OTHER -> NoApp]
MCClassApp == [w \in Windows |-> IF w = "editor" THEN "vi" ELSE NoApp]

MCBinds == ("vi" :> {"i", "esc"}) @@ ("arrows" :> {"i"}) @@ ("moves" :> {"j"})
MCPtBinds == ("vi" :> {"esc"}) @@ ("arrows" :> {}) @@ ("moves" :> {})

\* English and Russian, for which config has bindings, and German.
MCLang == [i \in Locales |-> <<"en", "ru", "de">>[i + 1]]
=============================================================================
