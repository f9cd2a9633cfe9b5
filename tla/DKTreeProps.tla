----------------------------- MODULE DKTreeProps -----------------------------
(***************************************************************************)
(* The correctness properties of DKTree.                                   *)
(***************************************************************************)
EXTENDS DKTree

Paths == DOMAIN DK_tree
PivotPaths == {q \in Paths : DK_is_pivotNode(DK_tree[q])}
BindPaths == Paths \ PivotPaths

KnownCodes == Codes \cup {NoCode}
DK_Keys == [type : {"char"}, code : KnownCodes] \cup [type : {"ka"}, code : Nat]

Nodes == [alloc : Nat, len : Nat, keys : Seq(DK_Keys), code : KnownCodes]

\* Each variable stays in its range (the state of dk.c while files are read).
TypeOK ==
  /\ DK_dks \in Seq([sym : Syms \cup {NoSym}, name : Names])
  /\ DK_cns \in Seq([name : Names, code : Codes])
  /\ Paths \subseteq Seq(DK_Keys)
  /\ \A q \in Paths : DK_tree[q] \in Nodes
  /\ DK_code_buf \in Names \cup {Unquoted}
  /\ KA_named \in Nat
  /\ reading \in {"none", "keydefs", "compose"}
  /\ lines \in Nat

Holds(node) ==
  /\ node.alloc >= MinSize
  /\ node.len <= node.alloc
  /\ node.len = IF node.keys = <<>> THEN 0 ELSE Len(node.keys) + 1

\* The used part of an array of children, its first element included, is within
\* what was allocated, and counts the children (dk.c:112-122): the array starts
\* with two elements and grows by half, rounded down, and only when it is full.
WithinArrays == \A q \in PivotPaths : Holds(DK_tree[q])

\* The children that the array of a node lists are the nodes that there are one
\* key further, each listed once, and a bind node has none: nothing that was freed
\* is reachable and nothing reachable was freed (dk.c:57-77, 85-134).
ChildrenListed ==
  /\ <<>> \in PivotPaths
  /\ \A q \in Paths :
       /\ \A i \in 1 .. Len(DK_tree[q].keys) :
            /\ Append(q, DK_tree[q].keys[i]) \in Paths
            /\ \A j \in 1 .. Len(DK_tree[q].keys) :
                 DK_tree[q].keys[i] = DK_tree[q].keys[j] => i = j
       /\ q \in BindPaths => DK_tree[q].keys = <<>>
       /\ \A l \in 0 .. Len(q) - 1 :
            /\ SubSeq(q, 1, l) \in PivotPaths
            /\ \E i \in 1 .. Len(DK_tree[SubSeq(q, 1, l)].keys) :
                 DK_tree[SubSeq(q, 1, l)].keys[i] = q[l + 1]

\* Whoever has typed the beginning of a sequence can type on to its end: no line,
\* whatever it overrides, leaves a pivot node without children (dk.c:77, 118-128).
NoDeadEnd == \A q \in PivotPaths \ {<<>>} : DK_tree[q].keys # <<>>

\* The tree as the lookup of module DK sees it: DK is given the sequences alone and
\* takes their prefixes for the pivot nodes (dk.c:34, 478-509).
Sequences == [q \in BindPaths |-> DK_tree[q].code]
Lookup == INSTANCE DK WITH Compose <- Sequences, NoChar <- NoCode

LookupAgrees ==
  \A q \in Paths :
    /\ Lookup!DK_is_pivotNode(q) <=> q \in PivotPaths
    /\ q \in PivotPaths =>
         \A i \in 1 .. Len(DK_tree[q].keys) :
           LET key == DK_tree[q].keys[i]
               child == DK_tree[Append(q, key)]
               step == Lookup!DK_descend(q, key)
           IN IF DK_is_pivotNode(child)
              THEN step.more /\ step.node = Append(q, key)
              ELSE ~step.more /\ step.node = <<>> /\ step.sent = child.code

Known(name) == DK_Key_from_charbuf(name) # [type |-> "char", code |-> NoCode]

\* A key name that had a meaning in sequences, or in bindings, keeps it when more names
\* are read and more actions get names, so that what lines read before and after call by
\* one name is one key (dk.c:345-385, ka.c:173-197).
NamesKeep ==
  [][\A name \in Names :
       /\ Known(name) => DK_Key_from_charbuf(name)' = DK_Key_from_charbuf(name)
       /\ KA_name_to_id(name) # -1 => KA_name_to_id(name)' = KA_name_to_id(name)]_vars

\* Reading files implements overriding one sequence at a time in a map without
\* sequences that lead through others (dk.c:403-430).
Map == INSTANCE KeySequences WITH meaning <- Sequences
Overrides == Map!Spec
===============================================================================
