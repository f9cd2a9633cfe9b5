------------------------------- MODULE MCDKTree -------------------------------
(***************************************************************************)
(* An instance of DKTree: two dead keys and an alias of the first, as in   *)
(* config/keysymdef.h:384-385, and sequences that begin, end and lead      *)
(* through one another, with up to four children of one node.              *)
(***************************************************************************)
EXTENDS DKTreeProps, TLC

MCucs2 == [n \in Names |-> IF n = "Ua" THEN 97 ELSE NoCode]

Def(name, sym, code) == [name |-> name, sym |-> sym, code |-> code]

MCKeydefLines ==
  {Def("dead_tilde", "fe53", NoCode), Def("dead_perispomeni", "fe53", NoCode),
   Def("dead_perispomeni", NoSym, 98), Def("dead_tilde", "fe53", 98),
   Def("a", NoSym, 97), Def("b", NoSym, 98), Def("b", NoSym, 97)}

Line(keys, code) == [keys |-> keys, code |-> code]

MCComposeLines ==
  {Line(<<Multi_key>>, "a"), Line(<<Multi_key, "a">>, "b"),
   Line(<<Multi_key, "a", "b">>, "a"), Line(<<Multi_key, "b">>, Unquoted),
   Line(<<Multi_key, Multi_key>>, "a"), Line(<<Multi_key, "Ua", Multi_key>>, "a"),
   Line(<<"dead_tilde", "a">>, "b"), Line(<<"dead_perispomeni", "a">>, "a"),
   Line(<<Multi_key, "dead_tilde">>, "b"), Line(<<"a", "b">>, "b"), Line(<<>>, "a"),
   Line(<<Multi_key, "a", "b", "a">>, "b")}
===============================================================================
