---------------------------------- MODULE DK ----------------------------------
(***************************************************************************)
(* Looking up a Compose sequence, key by key (dk.c).  A node of the        *)
(* Compose tree is named by the sequence of keys that leads to it from the *)
(* root DK_node: the bind nodes are the domain of Compose, the pivot nodes *)
(* the root and the proper prefixes of the sequences.                      *)
(***************************************************************************)
EXTENDS Sequences, SequencesExt

CONSTANTS
  Compose,   \* [sequence of DK keys -> character]: the tree as read
  NoChar     \* no character: WCHAR 0

\* No sequence leads through another one: a node is a pivot or a bind.
ASSUME ComposeAssumption ==
  /\ <<>> \notin DOMAIN Compose
  /\ \A s, t \in DOMAIN Compose : ~IsStrictPrefix(s, t)
  /\ \A s \in DOMAIN Compose : Compose[s] # NoChar

\* The kinds of DK_Key: a character, or the n-th dead key (0 is <compose>).
CharKey(ch) == [type |-> "char", code |-> ch]
DeadKey(n)  == [type |-> "ka", code |-> n]

DK_node == <<>>

PivotNodes == {DK_node} \cup UNION {Prefixes(s) \ {s} : s \in DOMAIN Compose}

DK_is_pivotNode(node) == node \in PivotNodes

(***************************************************************************)
(* Follow a key from a pivot node: the new current node, the character     *)
(* sent, if any, and whether more keys are expected.                       *)
(***************************************************************************)
DK_descend(node, key) ==
  LET child == Append(node, key) IN
  CASE DK_is_pivotNode(child)  -> [node |-> child, sent |-> NoChar, more |-> TRUE]
    [] child \in DOMAIN Compose ->  [node |-> DK_node, sent |-> Compose[child],
                                     more |-> FALSE]
    [] OTHER                     -> [node |-> DK_node, sent |-> NoChar, more |-> FALSE]
=============================================================================
