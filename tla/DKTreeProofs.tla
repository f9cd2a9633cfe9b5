----------------------------- MODULE DKTreeProofs -----------------------------
(***************************************************************************)
(* For any names, symbols and lines of key symbol and Compose files: the   *)
(* types of DKTree, that the tree is kept within the arrays allocated for  *)
(* it and is what its arrays list, without dead ends, that assigning a     *)
(* line overrides one sequence in the map of module KeySequences, that a   *)
(* name keeps what it means, and that the lookup follows the tree.         *)
(***************************************************************************)
EXTENDS DKTreeProps, FoldingProofs, SequenceTheorems, TLAPS

-----------------------------------------------------------------------------
(***************************************************************************)
(* Prefixes, element by element.                                           *)
(***************************************************************************)

\* The first l elements of a sequence.
LEMMA FirstOf ==
  ASSUME NEW S, NEW s \in Seq(S), NEW l \in 0 .. Len(s)
  PROVE  /\ SubSeq(s, 1, l) \in Seq(S)
         /\ Len(SubSeq(s, 1, l)) = l
         /\ \A i \in 1 .. l : SubSeq(s, 1, l)[i] = s[i]
  BY SubSeqProperties, \A i \in 1 .. l : s[i] \in S

\* A prefix agrees with the sequence on its own length.
LEMMA PrefixDef ==
  ASSUME NEW S, NEW s \in Seq(S), NEW t \in Seq(S)
  PROVE  IsPrefix(s, t) <=> Len(s) <= Len(t) /\ \A i \in 1 .. Len(s) : s[i] = t[i]
<1>1. SubSeq(s, 1, Len(s)) = s
  BY SubSeqFull
<1>2. CASE Len(s) <= Len(t)
  <2>1. /\ SubSeq(t, 1, Len(s)) \in Seq(S)
        /\ Len(SubSeq(t, 1, Len(s))) = Len(s)
        /\ \A i \in 1 .. Len(s) : SubSeq(t, 1, Len(s))[i] = t[i]
    BY <1>2, FirstOf, LenProperties
  <2>2. s = SubSeq(t, 1, Len(s)) <=> \A i \in 1 .. Len(s) : s[i] = t[i]
    BY <2>1, SeqEqual
  <2> QED BY <1>1, <1>2, <2>2 DEF IsPrefix
<1> QED BY <1>2 DEF IsPrefix

\* A strict prefix is a shorter one.
LEMMA StrictDef ==
  ASSUME NEW S, NEW s \in Seq(S), NEW t \in Seq(S)
  PROVE  IsStrictPrefix(s, t)
           <=> Len(s) < Len(t) /\ \A i \in 1 .. Len(s) : s[i] = t[i]
<1>1. Len(s) = Len(t) /\ (\A i \in 1 .. Len(s) : s[i] = t[i]) => s = t
  BY SeqEqual
<1> QED BY <1>1, PrefixDef, LenProperties DEF IsStrictPrefix

\* The prefixes of a sequence are its strict prefixes and itself.
LEMMA PrefixesDef ==
  ASSUME NEW S, NEW s \in Seq(S)
  PROVE  /\ Prefixes(s) \subseteq Seq(S)
         /\ s \in Prefixes(s)
         /\ \A q \in Seq(S) : q \in Prefixes(s) <=> q = s \/ IsStrictPrefix(q, s)
         /\ \A l \in 0 .. Len(s) : SubSeq(s, 1, l) \in Prefixes(s)
<1>1. /\ Prefixes(s) \subseteq Seq(S)
      /\ \A l \in 0 .. Len(s) : SubSeq(s, 1, l) \in Prefixes(s)
  BY FirstOf DEF Prefixes
<1>2. s \in Prefixes(s)
  <2>1. Len(s) \in 0 .. Len(s)
    BY LenProperties
  <2> QED BY <1>1, <2>1, SubSeqFull
<1>3. ASSUME NEW q \in Seq(S), q \in Prefixes(s)
      PROVE  q = s \/ IsStrictPrefix(q, s)
  <2>1. PICK l \in 0 .. Len(s) : q = SubSeq(s, 1, l)
    BY <1>3 DEF Prefixes
  <2>2. Len(q) = l /\ \A i \in 1 .. l : q[i] = s[i]
    BY <2>1, FirstOf
  <2>3. IsPrefix(q, s)
    BY <2>2, PrefixDef, LenProperties
  <2> QED BY <2>3 DEF IsStrictPrefix
<1>4. ASSUME NEW q \in Seq(S), IsStrictPrefix(q, s)
      PROVE  q \in Prefixes(s)
  <2>1. Len(q) < Len(s) /\ \A i \in 1 .. Len(q) : q[i] = s[i]
    BY <1>4, StrictDef
  <2>2. Len(q) \in 0 .. Len(s)
    BY <2>1, LenProperties
  <2>3. q = SubSeq(s, 1, Len(q))
    BY <2>1, <2>2, FirstOf, SeqEqual
  <2> QED BY <1>1, <2>2, <2>3
<1> QED BY <1>1, <1>2, <1>3, <1>4

\* One element more.
LEMMA OneMore ==
  ASSUME NEW S, NEW q \in Seq(S), NEW k \in S
  PROVE  /\ Append(q, k) \in Seq(S)
         /\ Len(Append(q, k)) = Len(q) + 1
         /\ Append(q, k)[Len(q) + 1] = k
         /\ \A i \in 1 .. Len(q) : Append(q, k)[i] = q[i]
  BY AppendProperties

\* The prefix after a strict prefix.
LEMMA NextPrefix ==
  ASSUME NEW S, NEW q \in Seq(S), NEW s \in Seq(S), IsStrictPrefix(q, s)
  PROVE  Append(q, s[Len(q) + 1]) \in Prefixes(s)
<1> DEFINE n == Len(q) + 1
<1>1. Len(q) < Len(s) /\ \A i \in 1 .. Len(q) : q[i] = s[i]
  BY StrictDef
<1>2. n \in 1 .. Len(s) /\ s[n] \in S
  BY <1>1, LenProperties
<1>3. /\ Append(q, s[n]) \in Seq(S) /\ Len(Append(q, s[n])) = n
      /\ \A i \in 1 .. n : Append(q, s[n])[i] = s[i]
  BY <1>1, <1>2, OneMore, LenProperties
<1>4. Append(q, s[n]) = SubSeq(s, 1, n)
  BY <1>2, <1>3, FirstOf, SeqEqual
<1> QED BY <1>2, <1>4, PrefixesDef
-----------------------------------------------------------------------------
(***************************************************************************)
(* Nodes.                                                                  *)
(***************************************************************************)

\* What fetching a key from a pivot node leaves: room for the children, those
\* there were in their places, and one for the key.
LEMMA Fetching ==
  ASSUME NEW node \in Nodes, Holds(node), NEW key \in DK_Keys,
         \A i, j \in 1 .. Len(node.keys) : node.keys[i] = node.keys[j] => i = j
  PROVE  LET new == DK_pivotNode_fetch(node, key)
         IN /\ new \in Nodes /\ Holds(new) /\ DK_is_pivotNode(new)
            /\ new.keys # <<>>
            /\ Len(node.keys) <= Len(new.keys)
            /\ \A i \in 1 .. Len(node.keys) : new.keys[i] = node.keys[i]
            /\ \E i \in 1 .. Len(new.keys) : new.keys[i] = key
            /\ \A i \in 1 .. Len(new.keys) :
                 \/ new.keys[i] = key
                 \/ i \in 1 .. Len(node.keys)
            /\ \A i, j \in 1 .. Len(new.keys) : new.keys[i] = new.keys[j] => i = j
<1> DEFINE new == DK_pivotNode_fetch(node, key)
           len == IF node.len = 0 THEN 2 ELSE node.len + 1
           alloc == IF node.alloc < len THEN (node.alloc * 3) \div 2 ELSE node.alloc
<1>1. /\ node.alloc \in Nat /\ node.len \in Nat
      /\ node.keys \in Seq(DK_Keys) /\ node.code \in KnownCodes
  BY DEF Nodes
<1>2. /\ MinSize \in Nat /\ MinSize >= 2 /\ node.alloc >= MinSize
      /\ node.len <= node.alloc
      /\ node.len = IF node.keys = <<>> THEN 0 ELSE Len(node.keys) + 1
  BY DKTreeAssumption DEF Holds
<1>3. CASE \E i \in 1 .. Len(node.keys) : node.keys[i] = key
  <2>1. new = node
    BY <1>3 DEF DK_pivotNode_fetch
  <2>2. node.keys # <<>>
    BY <1>1, <1>3, EmptySeq
  <2>3. DK_is_pivotNode(node)
    BY <1>1, <1>2 DEF DK_is_pivotNode
  <2> QED BY <1>1, <1>3, <2>1, <2>2, <2>3
<1>4. CASE ~\E i \in 1 .. Len(node.keys) : node.keys[i] = key
  <2>1. new = [node EXCEPT !.len = len, !.keys = Append(@, key), !.alloc = alloc]
    BY <1>4, Zenon DEF DK_pivotNode_fetch
  <2>2. /\ new.len = len /\ new.alloc = alloc /\ new.code = node.code
        /\ new.keys = Append(node.keys, key)
    BY <2>1 DEF Nodes
  <2>3. /\ new.keys \in Seq(DK_Keys) /\ new.keys # <<>>
        /\ Len(new.keys) = Len(node.keys) + 1
        /\ \A i \in 1 .. Len(node.keys) : new.keys[i] = node.keys[i]
        /\ new.keys[Len(node.keys) + 1] = key
    <3>1. /\ Append(node.keys, key) \in Seq(DK_Keys) /\ Append(node.keys, key) # <<>>
          /\ Len(Append(node.keys, key)) = Len(node.keys) + 1
          /\ \A i \in 1 .. Len(node.keys) : Append(node.keys, key)[i] = node.keys[i]
          /\ Append(node.keys, key)[Len(node.keys) + 1] = key
      <4> HIDE DEF new, len, alloc
      <4> QED BY <1>1, AppendProperties
    <3> HIDE DEF new, len, alloc
    <3> QED BY <2>2, <3>1, Zenon
  <2>4. Len(node.keys) \in Nat /\ (node.keys = <<>> <=> Len(node.keys) = 0)
    BY <1>1, EmptySeq, LenProperties
  <2>5. len = Len(new.keys) + 1
    BY <1>2, <2>3, <2>4
  <2>6. alloc \in Nat /\ alloc >= MinSize /\ len <= alloc
    BY <1>1, <1>2
  <2>7. Holds(new)
    BY <2>2, <2>3, <2>5, <2>6 DEF Holds
  <2>8. new \in Nodes
    <3>1. len \in Nat /\ Append(node.keys, key) \in Seq(DK_Keys)
      BY <1>1, <2>2, <2>3
    <3> HIDE DEF new, len, alloc
    <3> QED BY <2>1, <2>6, <3>1 DEF Nodes
  <2>9. DK_is_pivotNode(new)
    BY <1>2, <2>2, <2>6 DEF DK_is_pivotNode
  <2>10. \A i, j \in 1 .. Len(new.keys) : new.keys[i] = new.keys[j] => i = j
    <3>1. TAKE i, j \in 1 .. Len(new.keys)
    <3>2. CASE i \in 1 .. Len(node.keys) /\ j \in 1 .. Len(node.keys)
      BY <2>3, <3>2
    <3>3. CASE i = Len(node.keys) + 1 \/ j = Len(node.keys) + 1
      <4>1. \A n \in 1 .. Len(node.keys) : new.keys[n] # new.keys[Len(node.keys) + 1]
        BY <1>4, <2>3
      <4>2. i \in 1 .. Len(node.keys) \cup {Len(node.keys) + 1}
            /\ j \in 1 .. Len(node.keys) \cup {Len(node.keys) + 1}
        BY <2>3, <2>4
      <4> HIDE DEF new
      <4> QED BY <3>3, <4>1, <4>2
    <3>4. i \in 1 .. Len(node.keys) + 1 /\ j \in 1 .. Len(node.keys) + 1
      BY <2>3, <2>4
    <3> QED BY <1>1, <3>2, <3>3, <3>4
  <2>11. \A i \in 1 .. Len(new.keys) : new.keys[i] = key \/ i \in 1 .. Len(node.keys)
    BY <2>3, <2>4
  <2>12. \E i \in 1 .. Len(new.keys) : new.keys[i] = key
    BY <2>3, <2>4
  <2> QED BY <2>3, <2>4, <2>7, <2>8, <2>9, <2>10, <2>11, <2>12
<1> QED BY <1>3, <1>4
-----------------------------------------------------------------------------
(***************************************************************************)
(* Names.                                                                  *)
(***************************************************************************)

\* What Min, with which SelectInSeq is defined, is.
LEMMA MinLeast ==
  ASSUME NEW I, I \subseteq Nat, I # {}
  PROVE  Min(I) \in I /\ \A n \in I : Min(I) <= n
<1>1. \E m \in I : \A n \in I : m <= n
  BY LeastNumber
<1> QED BY <1>1, Zenon DEF Min

\* The first entry for a name is an index of the table, or 0 if there is none.
LEMMA FirstByName ==
  ASSUME NEW table, NEW name, Len(table) \in Nat
  PROVE  /\ ByName(table, name) \in 0 .. Len(table)
         /\ ByName(table, name) # 0 => table[ByName(table, name)].name = name
         /\ ByName(table, name) = 0
              <=> \A i \in 1 .. Len(table) : table[i].name # name
<1> DEFINE I == {i \in 1 .. Len(table) : table[i].name = name}
<1>1. ByName(table, name) = IF I # {} THEN Min(I) ELSE 0
  BY DEF ByName, SelectInSeq
<1>2. ASSUME I # {} PROVE Min(I) \in I
  <2>1. I \subseteq Nat
    OBVIOUS
  <2> HIDE DEF I
  <2> QED BY <1>2, <2>1, MinLeast
<1> QED BY <1>1, <1>2

\* The first entry for a symbol, likewise.
LEMMA FirstBySym ==
  ASSUME NEW sym, Len(DK_dks) \in Nat,
         NEW i \in 1 .. Len(DK_dks), DK_dks[i].sym = sym
  PROVE  BySym(sym) \in 1 .. i
<1> DEFINE I == {j \in 1 .. Len(DK_dks) : DK_dks[j].sym = sym}
<1>1. BySym(sym) = IF I # {} THEN Min(I) ELSE 0
  BY DEF BySym, SelectInSeq
<1>2. i \in I
  OBVIOUS
<1>3. Min(I) \in I /\ \A j \in I : Min(I) <= j
  <2>1. I \subseteq Nat
    OBVIOUS
  <2> HIDE DEF I
  <2> QED BY <1>2, <2>1, MinLeast
<1> QED BY <1>1, <1>2, <1>3

\* A name stands for a key, and for a character, of the types that keys have.
LEMMA KeyOfName ==
  ASSUME TypeOK, NEW name \in Names
  PROVE  /\ DK_Key_from_charbuf(name) \in DK_Keys
         /\ DK_Bind_from_charbuf(name) \in KnownCodes
<1>1. Len(DK_dks) \in Nat /\ Len(DK_cns) \in Nat
  BY LenProperties DEF TypeOK
<1>2. DK_Bind_from_charbuf(name) \in KnownCodes
  <2>1. CASE ucs2[name] # NoCode
    BY <2>1, DKTreeAssumption DEF DK_Bind_from_charbuf, KnownCodes
  <2>2. CASE ucs2[name] = NoCode /\ ByName(DK_cns, name) # 0
    <3>1. ByName(DK_cns, name) \in 1 .. Len(DK_cns)
      BY <1>1, <2>2, FirstByName
    <3>2. DK_cns[ByName(DK_cns, name)].code \in Codes
      <4>1. DK_cns \in Seq([name : Names, code : Codes])
        BY DEF TypeOK
      <4>2. DK_cns[ByName(DK_cns, name)] \in [name : Names, code : Codes]
        BY <3>1, <4>1, ElementOfSeq
      <4> QED BY <4>2
    <3> QED BY <2>2, <3>2 DEF DK_Bind_from_charbuf, KnownCodes
  <2>3. CASE ucs2[name] = NoCode /\ ByName(DK_cns, name) = 0
    BY <2>3 DEF DK_Bind_from_charbuf, KnownCodes
  <2> QED BY <2>1, <2>2, <2>3
<1>3. DK_Key_from_charbuf(name) \in DK_Keys
  <2>1. CASE ucs2[name] = NoCode /\ ByName(DK_dks, name) # 0
    <3> DEFINE i == ByName(DK_dks, name)
    <3>1. i \in 1 .. Len(DK_dks)
      BY <1>1, <2>1, FirstByName
    <3>2. BySym(DK_dks[i].sym) \in 1 .. i
      BY <1>1, <3>1, FirstBySym
    <3>3. DK_dksym_to_ka(name) \in Nat
      BY <3>1, <3>2 DEF DK_dksym_to_ka
    <3> QED BY <2>1, <3>3 DEF DK_Key_from_charbuf, DK_Keys
  <2>2. CASE ~(ucs2[name] = NoCode /\ ByName(DK_dks, name) # 0)
    BY <1>2, <2>2 DEF DK_Key_from_charbuf, DK_Keys
  <2> QED BY <2>1, <2>2
<1> QED BY <1>2, <1>3

-----------------------------------------------------------------------------
(***************************************************************************)
(* Assigning a sequence.                                                   *)
(***************************************************************************)

TreeType == Paths \subseteq Seq(DK_Keys) /\ \A q \in Paths : DK_tree[q] \in Nodes

TreeInv == TreeType /\ WithinArrays /\ ChildrenListed /\ NoDeadEnd

\* The node made a pivot, or left one, at a path has the form that Fetching needs,
\* and keeps the children that the tree has there.
LEMMA PivotNode ==
  ASSUME TreeInv, NEW q
  PROVE  /\ PivotAt(DK_tree, q) \in Nodes /\ Holds(PivotAt(DK_tree, q))
         /\ \A i, j \in 1 .. Len(PivotAt(DK_tree, q).keys) :
              PivotAt(DK_tree, q).keys[i] = PivotAt(DK_tree, q).keys[j] => i = j
         /\ IF q \in PivotPaths THEN PivotAt(DK_tree, q) = DK_tree[q]
                                ELSE Len(PivotAt(DK_tree, q).keys) = 0
<1>1. CASE q \in PivotPaths
  <2>1. PivotAt(DK_tree, q) = DK_tree[q] /\ q \in Paths
    BY <1>1 DEF PivotAt, PivotPaths, Paths
  <2> QED BY <1>1, <2>1 DEF TreeInv, TreeType, WithinArrays, ChildrenListed
<1>2. CASE q \notin PivotPaths
  <2>1. PivotAt(DK_tree, q) = NewPivot
    BY <1>2 DEF PivotAt, PivotPaths, Paths
  <2>2. NewPivot \in Nodes /\ Holds(NewPivot) /\ Len(NewPivot.keys) = 0
    <3>1. MinSize \in Nat /\ MinSize >= 2
      BY DKTreeAssumption
    <3>2. <<>> \in Seq(DK_Keys) /\ Len(<<>>) = 0
      BY EmptySeq
    <3> QED BY <3>1, <3>2 DEF NewPivot, Nodes, KnownCodes, Holds
  <2> QED BY <1>2, <2>1, <2>2
<1> QED BY <1>1, <1>2

\* The nodes after an assignment: the bind node, the pivot nodes on the way to it,
\* and the rest, as they were.
LEMMA Assigned ==
  ASSUME TreeInv, NEW path \in Seq(DK_Keys), path # <<>>, NEW code \in KnownCodes
  PROVE  LET tree == DK_assign(DK_tree, path, code)
             Rest == {q \in Paths : q \notin Prefixes(path) /\ ~IsStrictPrefix(path, q)}
             OnTheWay == {q \in Prefixes(path) : q # path}
         IN /\ DOMAIN tree = Rest \cup OnTheWay \cup {path}
            /\ DOMAIN tree \subseteq Seq(DK_Keys)
            /\ tree[path] = BindNode(code)
            /\ \A q \in Rest : tree[q] = DK_tree[q]
            /\ \A q \in OnTheWay :
                 /\ IsStrictPrefix(q, path)
                 /\ path[Len(q) + 1] \in DK_Keys
                 /\ tree[q] = DK_pivotNode_fetch(PivotAt(DK_tree, q), path[Len(q) + 1])
<1> DEFINE tree == DK_assign(DK_tree, path, code)
           Rest == {q \in Paths : q \notin Prefixes(path) /\ ~IsStrictPrefix(path, q)}
           OnTheWay == {q \in Prefixes(path) : q # path}
           Kept == {p \in Paths : ~IsStrictPrefix(path, p)}
<1>1. /\ Prefixes(path) \subseteq Seq(DK_Keys) /\ path \in Prefixes(path)
      /\ \A q \in Seq(DK_Keys) : q \in Prefixes(path) <=> q = path \/ IsStrictPrefix(q, path)
  BY PrefixesDef
<1>2. Paths \subseteq Seq(DK_Keys)
  BY DEF TreeInv, TreeType
<1>3. ~IsStrictPrefix(path, path)
  BY DEF IsStrictPrefix
<1>4. /\ DOMAIN tree = Kept \cup Prefixes(path)
      /\ \A q \in Kept \cup Prefixes(path) :
           tree[q] = CASE q = path -> BindNode(code)
                       [] IsStrictPrefix(q, path) ->
                            DK_pivotNode_fetch(PivotAt(DK_tree, q), path[Len(q) + 1])
                       [] OTHER -> DK_tree[q]
  BY DEF DK_assign, Paths
<1> HIDE DEF tree
<1>5. tree[path] = BindNode(code)
  BY <1>1, <1>3, <1>4
<1>6. \A q \in Rest : tree[q] = DK_tree[q]
  BY <1>1, <1>2, <1>4
<1>7. \A q \in OnTheWay :
        /\ IsStrictPrefix(q, path)
        /\ tree[q] = DK_pivotNode_fetch(PivotAt(DK_tree, q), path[Len(q) + 1])
  BY <1>1, <1>4
<1>8. ASSUME NEW q \in OnTheWay PROVE path[Len(q) + 1] \in DK_Keys
  <2>1. Len(q) < Len(path) /\ Len(q) \in Nat /\ Len(path) \in Nat
    BY <1>1, <1>7, StrictDef, LenProperties
  <2>2. Len(q) + 1 \in 1 .. Len(path)
    BY <2>1
  <2> QED BY <2>2, ElementOfSeq
<1>9. DOMAIN tree = Rest \cup OnTheWay \cup {path}
  BY <1>1, <1>4
<1>10. DOMAIN tree \subseteq Seq(DK_Keys)
  BY <1>1, <1>2, <1>4
<1> QED BY <1>5, <1>6, <1>7, <1>8, <1>9, <1>10 DEF tree

\* Assigning a sequence keeps the tree in order.
LEMMA AssignKeeps ==
  ASSUME TreeInv, NEW path \in Seq(DK_Keys), path # <<>>, NEW code \in KnownCodes,
         DK_tree' = DK_assign(DK_tree, path, code)
  PROVE  TreeInv'
<1> DEFINE Rest == {q \in Paths : q \notin Prefixes(path) /\ ~IsStrictPrefix(path, q)}
           OnTheWay == {q \in Prefixes(path) : q # path}
           Old(q) == PivotAt(DK_tree, q)
<1>1. /\ Paths' = Rest \cup OnTheWay \cup {path}
      /\ Paths' \subseteq Seq(DK_Keys)
      /\ DK_tree'[path] = BindNode(code)
      /\ \A q \in Rest : DK_tree'[q] = DK_tree[q]
      /\ \A q \in OnTheWay :
           /\ IsStrictPrefix(q, path)
           /\ path[Len(q) + 1] \in DK_Keys
           /\ DK_tree'[q] = DK_pivotNode_fetch(Old(q), path[Len(q) + 1])
  BY Assigned DEF Paths
<1>2. /\ Prefixes(path) \subseteq Seq(DK_Keys) /\ path \in Prefixes(path)
      /\ \A q \in Seq(DK_Keys) : q \in Prefixes(path) <=> q = path \/ IsStrictPrefix(q, path)
      /\ \A l \in 0 .. Len(path) : SubSeq(path, 1, l) \in Prefixes(path)
  BY PrefixesDef
<1>3. Paths \subseteq Seq(DK_Keys)
  BY DEF TreeInv, TreeType
<1>4. ASSUME NEW q \in OnTheWay
      PROVE  LET new == DK_tree'[q]
             IN /\ new \in Nodes /\ Holds(new) /\ DK_is_pivotNode(new)
                /\ new.keys # <<>>
                /\ Len(Old(q).keys) <= Len(new.keys)
                /\ \A i \in 1 .. Len(Old(q).keys) : new.keys[i] = Old(q).keys[i]
                /\ \E i \in 1 .. Len(new.keys) : new.keys[i] = path[Len(q) + 1]
                /\ \A i \in 1 .. Len(new.keys) :
                     \/ new.keys[i] = path[Len(q) + 1]
                     \/ i \in 1 .. Len(Old(q).keys)
                /\ \A i, j \in 1 .. Len(new.keys) : new.keys[i] = new.keys[j] => i = j
  <2> DEFINE key == path[Len(q) + 1]
             node == Old(q)
  <2>1. /\ node \in Nodes /\ Holds(node)
        /\ \A i, j \in 1 .. Len(node.keys) : node.keys[i] = node.keys[j] => i = j
    BY PivotNode
  <2>2. key \in DK_Keys /\ DK_tree'[q] = DK_pivotNode_fetch(node, key)
    BY <1>1
  <2> HIDE DEF key, node
  <2>3. LET new == DK_pivotNode_fetch(node, key)
        IN /\ new \in Nodes /\ Holds(new) /\ DK_is_pivotNode(new)
           /\ new.keys # <<>>
           /\ Len(node.keys) <= Len(new.keys)
           /\ \A i \in 1 .. Len(node.keys) : new.keys[i] = node.keys[i]
           /\ \E i \in 1 .. Len(new.keys) : new.keys[i] = key
           /\ \A i \in 1 .. Len(new.keys) :
                new.keys[i] = key \/ i \in 1 .. Len(node.keys)
           /\ \A i, j \in 1 .. Len(new.keys) : new.keys[i] = new.keys[j] => i = j
    BY <2>1, <2>2, Fetching
  <2> QED BY <2>2, <2>3 DEF key, node
<1>5. BindNode(code) \in Nodes /\ ~DK_is_pivotNode(BindNode(code)) /\ BindNode(code).keys = <<>>
  BY EmptySeq DEF BindNode, Nodes, DK_is_pivotNode
<1>6. /\ path \notin Rest /\ path \notin OnTheWay
      /\ \A q \in OnTheWay : q \notin Rest
  BY <1>2
<1>7. \A q \in Rest : q \in PivotPaths' <=> q \in PivotPaths
  BY <1>1, <1>6 DEF PivotPaths, Paths
<1>8. /\ OnTheWay \subseteq PivotPaths' /\ path \in BindPaths'
      /\ \A q \in Rest : q \in BindPaths' <=> q \in BindPaths
  BY <1>1, <1>4, <1>5, <1>7 DEF PivotPaths, BindPaths
<1>9. PivotPaths' = OnTheWay \cup {q \in Rest : q \in PivotPaths}
  BY <1>1, <1>7, <1>8 DEF PivotPaths, BindPaths
<1> HIDE DEF Rest, OnTheWay, Old
<1>10. TreeType'
  BY <1>1, <1>4, <1>5 DEF TreeInv, TreeType, Rest
<1>11. WithinArrays'
  <2> SUFFICES ASSUME NEW q \in PivotPaths' PROVE Holds(DK_tree'[q])
    BY DEF WithinArrays, Holds
  <2> QED BY <1>1, <1>4, <1>9 DEF TreeInv, WithinArrays
<1>12. NoDeadEnd'
  BY <1>1, <1>4, <1>9 DEF TreeInv, NoDeadEnd
<1>13. <<>> \in OnTheWay
  <2>1. SubSeq(path, 1, 0) = <<>> /\ 0 \in 0 .. Len(path)
    BY LenProperties, SubSeqEmpty
  <2> QED BY <1>2, <2>1 DEF OnTheWay
<1>14. \A q \in OnTheWay : /\ q \in Seq(DK_Keys) /\ Len(q) < Len(path)
                           /\ Len(q) \in Nat /\ Len(path) \in Nat
                           /\ \A i \in 1 .. Len(q) : q[i] = path[i]
  BY <1>1, <1>2, StrictDef, LenProperties DEF OnTheWay
<1>15. ASSUME NEW c \in Paths, ~IsStrictPrefix(path, c)
       PROVE  c \in Paths'
  BY <1>1, <1>15 DEF Rest, OnTheWay
<1>16. ASSUME NEW q \in OnTheWay, NEW i \in 1 .. Len(Old(q).keys)
       PROVE  q \in PivotPaths /\ Old(q) = DK_tree[q]
  <2>1. IF q \in PivotPaths THEN Old(q) = DK_tree[q] ELSE Len(Old(q).keys) = 0
    BY PivotNode DEF Old
  <2> QED BY <2>1
<1>17. ASSUME NEW q \in Paths', NEW i \in 1 .. Len(DK_tree'[q].keys)
       PROVE  Append(q, DK_tree'[q].keys[i]) \in Paths'
  <2>1. CASE q = path
    BY <1>1, <1>5, <2>1, EmptySeq
  <2>2. CASE q \in OnTheWay
    <3>1. CASE DK_tree'[q].keys[i] = path[Len(q) + 1]
      <4>1. Append(q, path[Len(q) + 1]) \in Prefixes(path)
        BY <1>1, <1>2, <2>2, NextPrefix DEF OnTheWay
      <4> QED BY <1>1, <3>1, <4>1 DEF OnTheWay
    <3>2. CASE i \in 1 .. Len(Old(q).keys)
      <4>1. /\ q \in PivotPaths /\ Old(q) = DK_tree[q]
            /\ DK_tree'[q].keys[i] = DK_tree[q].keys[i]
        BY <1>4, <1>16, <2>2, <3>2
      <4> DEFINE c == Append(q, DK_tree[q].keys[i])
      <4>2. c \in Paths /\ q \in Paths /\ DK_tree[q].keys[i] \in DK_Keys
        <5>1. q \in Paths /\ DK_tree[q].keys \in Seq(DK_Keys)
          BY <4>1 DEF TreeInv, TreeType, PivotPaths, Nodes
        <5> QED BY <3>2, <4>1, <5>1, ElementOfSeq DEF TreeInv, ChildrenListed
      <4>3. Len(c) = Len(q) + 1
        BY <1>14, <2>2, <4>2, OneMore
      <4>4. c \in Seq(DK_Keys) /\ ~(Len(path) < Len(c))
        BY <1>3, <1>14, <2>2, <4>2, <4>3
      <4>5. ~IsStrictPrefix(path, c)
        <5> HIDE DEF c
        <5> QED BY <4>4, StrictDef
      <4> QED BY <1>15, <4>1, <4>2, <4>5
    <3> QED BY <1>4, <2>2, <3>1, <3>2
  <2>3. CASE q \in Rest
    <3> DEFINE c == Append(q, DK_tree[q].keys[i])
    <3>1. /\ q \in Paths /\ q \in Seq(DK_Keys) /\ DK_tree'[q] = DK_tree[q]
          /\ q \notin Prefixes(path) /\ ~IsStrictPrefix(path, q)
      BY <1>1, <1>3, <2>3 DEF Rest
    <3>2. c \in Paths /\ DK_tree[q].keys[i] \in DK_Keys
      <4>1. DK_tree[q].keys \in Seq(DK_Keys)
        BY <3>1 DEF TreeInv, TreeType, Nodes
      <4> QED BY <3>1, <4>1, ElementOfSeq DEF TreeInv, ChildrenListed
    <3>3. c \in Seq(DK_Keys) /\ Len(c) = Len(q) + 1 /\ \A j \in 1 .. Len(q) : c[j] = q[j]
      BY <3>1, <3>2, OneMore
    <3>4. ASSUME IsStrictPrefix(path, c) PROVE FALSE
      <4>1. Len(path) < Len(c) /\ \A j \in 1 .. Len(path) : path[j] = c[j]
        <5> HIDE DEF c
        <5> QED BY <3>3, <3>4, StrictDef
      <4>2. Len(path) <= Len(q) /\ \A j \in 1 .. Len(path) : path[j] = q[j]
        BY <3>1, <3>3, <4>1, LenProperties
      <4>3. IsPrefix(path, q)
        BY <3>1, <4>2, PrefixDef
      <4> QED BY <1>2, <3>1, <4>3 DEF IsStrictPrefix
    <3> QED BY <1>15, <3>1, <3>2, <3>4
  <2> QED BY <1>1, <2>1, <2>2, <2>3
<1>18. ASSUME NEW q \in Paths',
              NEW i \in 1 .. Len(DK_tree'[q].keys), NEW j \in 1 .. Len(DK_tree'[q].keys),
              DK_tree'[q].keys[i] = DK_tree'[q].keys[j]
       PROVE  i = j
  <2>1. CASE q = path
    BY <1>1, <1>5, <2>1, EmptySeq
  <2>2. CASE q \in OnTheWay
    BY <1>4, <1>18, <2>2
  <2>3. CASE q \in Rest
    BY <1>1, <1>18, <2>3 DEF TreeInv, ChildrenListed, Rest
  <2> QED BY <1>1, <2>1, <2>2, <2>3
<1>19. ASSUME NEW q \in BindPaths' PROVE DK_tree'[q].keys = <<>>
  <2>1. q = path \/ q \in Rest
    BY <1>1, <1>8 DEF BindPaths
  <2>2. CASE q = path
    BY <1>1, <1>5, <2>2
  <2>3. CASE q \in Rest
    BY <1>1, <1>8, <2>3 DEF TreeInv, ChildrenListed, Rest
  <2> QED BY <2>1, <2>2, <2>3
<1>20. ASSUME NEW q \in Paths', NEW l \in 0 .. Len(q) - 1
       PROVE  /\ SubSeq(q, 1, l) \in PivotPaths'
              /\ \E i \in 1 .. Len(DK_tree'[SubSeq(q, 1, l)].keys) :
                   DK_tree'[SubSeq(q, 1, l)].keys[i] = q[l + 1]
  <2> DEFINE r == SubSeq(q, 1, l)
  <2>1. q \in Seq(DK_Keys) /\ Len(q) \in Nat /\ l \in 0 .. Len(q)
    BY <1>1, LenProperties
  <2>2. r \in Seq(DK_Keys) /\ Len(r) = l /\ \A i \in 1 .. l : r[i] = q[i]
    BY <2>1, FirstOf
  <2> HIDE DEF r
  <2>3. CASE q = path \/ q \in OnTheWay
    <3>1. /\ Len(q) <= Len(path) /\ Len(path) \in Nat
          /\ \A i \in 1 .. Len(q) : q[i] = path[i]
      BY <1>14, <2>1, <2>3, LenProperties
    <3>2. IsStrictPrefix(r, path)
      BY <2>1, <2>2, <3>1, StrictDef
    <3>3. r \in OnTheWay /\ path[Len(r) + 1] = q[l + 1]
      BY <1>2, <2>1, <2>2, <3>1, <3>2 DEF OnTheWay, IsStrictPrefix
    <3>4. r \in PivotPaths'
      BY <1>8, <3>3
    <3>5. \E i \in 1 .. Len(DK_tree'[r].keys) : DK_tree'[r].keys[i] = q[l + 1]
      BY <1>4, <3>3
    <3> QED BY <3>4, <3>5 DEF r
  <2>4. CASE q \in Rest
    <3>1. q \in Paths /\ q \notin Prefixes(path) /\ ~IsStrictPrefix(path, q)
      BY <2>4 DEF Rest
    <3>2. /\ r \in PivotPaths
          /\ \E i \in 1 .. Len(DK_tree[r].keys) : DK_tree[r].keys[i] = q[l + 1]
      BY <3>1 DEF TreeInv, ChildrenListed, r
    <3>3. r # path /\ ~IsStrictPrefix(path, r)
      <4>1. IsStrictPrefix(r, q)
        BY <2>1, <2>2, StrictDef
      <4>2. ASSUME IsStrictPrefix(path, r) PROVE IsStrictPrefix(path, q)
        <5>1. Len(path) < Len(r) /\ \A i \in 1 .. Len(path) : path[i] = r[i]
          BY <2>2, <4>2, StrictDef
        <5>2. Len(path) < Len(q) /\ \A i \in 1 .. Len(path) : path[i] = q[i]
          BY <2>1, <2>2, <5>1, LenProperties
        <5> QED BY <2>1, <5>2, StrictDef
      <4> QED BY <3>1, <4>1, <4>2
    <3>4. CASE r \in Rest
      BY <1>1, <1>9, <3>2, <3>4 DEF r
    <3>5. CASE r \in OnTheWay
      <4>1. Old(r) = DK_tree[r]
        BY <3>2, PivotNode DEF Old
      <4>2. PICK i \in 1 .. Len(Old(r).keys) : Old(r).keys[i] = q[l + 1]
        BY <3>2, <4>1
      <4>3. Len(Old(r).keys) <= Len(DK_tree'[r].keys) /\ DK_tree'[r].keys[i] = q[l + 1]
        BY <1>4, <3>5, <4>2
      <4>4. Len(Old(r).keys) \in Nat /\ Len(DK_tree'[r].keys) \in Nat
        <5>1. Old(r).keys \in Seq(DK_Keys) /\ DK_tree'[r].keys \in Seq(DK_Keys)
          BY <1>4, <3>2, <3>5, <4>1 DEF TreeInv, TreeType, PivotPaths, Nodes
        <5> QED BY <5>1, LenProperties
      <4>5. i \in 1 .. Len(DK_tree'[r].keys)
        BY <4>2, <4>3, <4>4
      <4> QED BY <1>9, <3>5, <4>3, <4>5 DEF r
    <3> QED BY <3>2, <3>3, <3>4, <3>5 DEF Rest, OnTheWay, PivotPaths
  <2> QED BY <1>1, <2>3, <2>4
<1>21. ChildrenListed'
  BY <1>9, <1>13, <1>17, <1>18, <1>19, <1>20 DEF ChildrenListed
<1> QED BY <1>10, <1>11, <1>12, <1>21 DEF TreeInv

\* In the map of KeySequences the assignment overrides: the sequence gets its
\* character, those related to it go, the others stay.
LEMMA AssignOverrides ==
  ASSUME TreeInv, NEW path \in Seq(DK_Keys), path # <<>>, NEW code \in KnownCodes,
         DK_tree' = DK_assign(DK_tree, path, code)
  PROVE  /\ path \in BindPaths' /\ Sequences'[path] = code
         /\ Map!Assign(path, code)
<1> DEFINE Rest == {q \in Paths : q \notin Prefixes(path) /\ ~IsStrictPrefix(path, q)}
           OnTheWay == {q \in Prefixes(path) : q # path}
           Kept == {q \in BindPaths : ~Map!Related(q, path)}
<1>1. /\ Paths' = Rest \cup OnTheWay \cup {path}
      /\ DK_tree'[path] = BindNode(code)
      /\ \A q \in Rest : DK_tree'[q] = DK_tree[q]
      /\ \A q \in OnTheWay :
           /\ path[Len(q) + 1] \in DK_Keys
           /\ DK_tree'[q] = DK_pivotNode_fetch(PivotAt(DK_tree, q), path[Len(q) + 1])
  BY Assigned DEF Paths
<1>2. /\ path \in Prefixes(path)
      /\ \A q \in Seq(DK_Keys) : q \in Prefixes(path) <=> q = path \/ IsStrictPrefix(q, path)
  BY PrefixesDef
<1>3. Paths \subseteq Seq(DK_Keys)
  BY DEF TreeInv, TreeType
<1>4. ASSUME NEW q \in OnTheWay PROVE DK_is_pivotNode(DK_tree'[q])
  <2> DEFINE key == path[Len(q) + 1]
             node == PivotAt(DK_tree, q)
  <2>1. /\ node \in Nodes /\ Holds(node)
        /\ \A i, j \in 1 .. Len(node.keys) : node.keys[i] = node.keys[j] => i = j
    BY PivotNode
  <2>2. key \in DK_Keys /\ DK_tree'[q] = DK_pivotNode_fetch(node, key)
    BY <1>1
  <2> HIDE DEF key, node
  <2> QED BY <2>1, <2>2, Fetching
<1>5. ~DK_is_pivotNode(DK_tree'[path]) /\ DK_tree'[path].code = code
  BY <1>1 DEF BindNode, DK_is_pivotNode
<1>6. BindPaths' = {q \in Rest : q \in BindPaths} \cup {path}
  BY <1>1, <1>4, <1>5 DEF BindPaths, PivotPaths, Paths
<1>7. ASSUME NEW q \in BindPaths
      PROVE  q \in Rest <=> ~Map!Related(q, path)
  <2>1. q \in Paths /\ q \in Seq(DK_Keys)
    BY <1>3 DEF BindPaths
  <2>2. IsPrefix(path, path)
    BY PrefixDef, LenProperties
  <2>3. /\ IsPrefix(q, path) <=> q = path \/ IsStrictPrefix(q, path)
        /\ IsPrefix(path, q) <=> q = path \/ IsStrictPrefix(path, q)
    BY <2>2 DEF IsStrictPrefix
  <2>4. Map!Related(q, path) <=> IsPrefix(q, path) \/ IsPrefix(path, q)
    BY DEF Map!Related, Map!IsPrefix, IsPrefix
  <2>5. Map!Related(q, path) <=> q \in Prefixes(path) \/ IsStrictPrefix(path, q)
    BY <1>2, <2>1, <2>3, <2>4
  <2> QED BY <2>1, <2>5
<1>8. BindPaths' = Kept \cup {path} /\ path \notin Kept /\ Kept \subseteq Rest
  BY <1>2, <1>6, <1>7
<1>9. Sequences' = [q \in Kept \cup {path} |-> IF q = path THEN code ELSE Sequences[q]]
  <2>1. \A q \in Kept \cup {path} :
          DK_tree'[q].code = IF q = path THEN code ELSE Sequences[q]
    BY <1>1, <1>5, <1>8 DEF Sequences
  <2> QED BY <1>8, <2>1 DEF Sequences
<1>10. DOMAIN Sequences = BindPaths
  BY DEF Sequences
<1> HIDE DEF Rest, OnTheWay
<1> QED BY <1>8, <1>9, <1>10 DEF Map!Assign

-----------------------------------------------------------------------------
(***************************************************************************)
(* The specification.                                                      *)
(***************************************************************************)

IInv == TypeOK /\ TreeInv

LEMMA InitInv == DK_init => IInv
<1> SUFFICES ASSUME DK_init PROVE IInv
  OBVIOUS
<1>1. Paths = {<<>>} /\ DK_tree[<<>>] = NewPivot
  BY DEF DK_init, Paths
<1>2. MinSize \in Nat /\ MinSize >= 2 /\ <<>> \in Seq(DK_Keys) /\ Len(<<>>) = 0
  BY DKTreeAssumption, EmptySeq
<1>3. NewPivot \in Nodes /\ Holds(NewPivot) /\ DK_is_pivotNode(NewPivot)
  BY <1>2 DEF NewPivot, Nodes, KnownCodes, Holds, DK_is_pivotNode
<1>4. PivotPaths = {<<>>} /\ BindPaths = {}
  BY <1>1, <1>3 DEF PivotPaths, BindPaths
<1>5. TreeInv
  <2>1. NewPivot.keys = <<>>
    BY DEF NewPivot
  <2> QED BY <1>1, <1>2, <1>3, <1>4, <2>1
       DEF TreeInv, TreeType, WithinArrays, ChildrenListed, NoDeadEnd
<1>6. TypeOK
  <2>1. [sym |-> NoSym, name |-> Multi_key] \in [sym : Syms \cup {NoSym}, name : Names]
    BY DKTreeAssumption
  <2> QED BY <1>5, <2>1 DEF DK_init, TypeOK, TreeInv, TreeType
<1> QED BY <1>5, <1>6 DEF IInv

\* The keys of a line's names are a sequence of keys.
LEMMA KeysOfLine ==
  ASSUME TypeOK, NEW keynames \in Seq(Names)
  PROVE  /\ KeysOf(keynames) \in Seq(DK_Keys)
         /\ keynames # <<>> => KeysOf(keynames) # <<>>
<1>1. Len(keynames) \in Nat /\ \A i \in 1 .. Len(keynames) : keynames[i] \in Names
  BY LenProperties, ElementOfSeq
<1>2. KeysOf(keynames) \in [1 .. Len(keynames) -> DK_Keys]
  BY <1>1, KeyOfName DEF KeysOf
<1>3. KeysOf(keynames) \in Seq(DK_Keys)
  BY <1>1, <1>2, SeqDef
<1>4. ASSUME keynames # <<>> PROVE KeysOf(keynames) # <<>>
  <2>1. Len(keynames) > 0 /\ DOMAIN KeysOf(keynames) = 1 .. Len(keynames)
    BY <1>1, <1>2, <1>4, EmptySeq
  <2> QED BY <2>1
<1> QED BY <1>3, <1>4

\* What a line of a Compose file does to the tree.
LEMMA ComposeLine ==
  ASSUME IInv, NEW line \in ComposeLines, DK_read_compose_line(line)
  PROVE  \/ DK_tree' = DK_tree
         \/ \E path \in Seq(DK_Keys) \ {<<>>}, code \in KnownCodes :
              DK_tree' = DK_assign(DK_tree, path, code)
<1> DEFINE buf == IF line.code = Unquoted THEN DK_code_buf ELSE line.code
           code == IF buf = Unquoted THEN NoCode ELSE DK_Bind_from_charbuf(buf)
<1>1. line.keys \in Seq(Names) /\ line.code \in Names \cup {Unquoted}
  BY DKTreeAssumption
<1>2. code \in KnownCodes
  BY <1>1, KeyOfName DEF IInv, TypeOK, KnownCodes
<1>3. KeysOf(line.keys) \in Seq(DK_Keys)
      /\ (line.keys # <<>> => KeysOf(line.keys) # <<>>)
  BY <1>1, KeysOfLine DEF IInv
<1>4. \/ DK_tree' = DK_tree
      \/ line.keys # <<>> /\ DK_tree' = DK_assign(DK_tree, KeysOf(line.keys), code)
  BY DEF DK_read_compose_line
<1> HIDE DEF code
<1> QED BY <1>2, <1>3, <1>4

\* The invariant of the tree speaks of no other variable.
LEMMA TreeUnchanged ==
  ASSUME TreeInv, DK_tree' = DK_tree
  PROVE  TreeInv'
<1>1. Paths' = Paths
  BY DEF Paths
<1>2. PivotPaths' = PivotPaths
  BY <1>1 DEF PivotPaths
<1>3. BindPaths' = BindPaths
  BY <1>1, <1>2 DEF BindPaths
<1>4. TreeType'
  BY <1>1 DEF TreeInv, TreeType
<1>5. WithinArrays'
  BY <1>2 DEF TreeInv, WithinArrays
<1>6. ChildrenListed'
  BY <1>1, <1>2, <1>3 DEF TreeInv, ChildrenListed
<1>7. NoDeadEnd'
  BY <1>2 DEF TreeInv, NoDeadEnd
<1> QED BY <1>4, <1>5, <1>6, <1>7 DEF TreeInv

LEMMA NextInv == IInv /\ [Next]_vars => IInv'
<1> SUFFICES ASSUME IInv, [Next]_vars PROVE IInv'
  OBVIOUS
<1> USE DEF IInv
<1>1. ASSUME UNCHANGED <<names, DK_tree, DK_code_buf>>, KA_named' \in Nat, lines' \in Nat,
             reading' \in {"none", "keydefs", "compose"}
      PROVE  IInv'
  <2>1. TypeOK'
    BY <1>1 DEF TypeOK, names, Paths
  <2>2. TreeInv'
    BY <1>1, TreeUnchanged
  <2> QED BY <2>1, <2>2
<1>2. CASE UNCHANGED vars
  <2>1. /\ UNCHANGED <<names, DK_tree, DK_code_buf>>
        /\ KA_named' = KA_named /\ lines' = lines /\ reading' = reading
    BY <1>2 DEF vars, names
  <2>2. KA_named \in Nat /\ lines \in Nat /\ reading \in {"none", "keydefs", "compose"}
    BY DEF TypeOK
  <2> QED BY <1>1, <2>1, <2>2
<1>3. CASE Open("keydefs") \/ Open("compose")
  BY <1>1, <1>3 DEF Open, TypeOK
<1>4. CASE CloseCompose
  BY <1>1, <1>4 DEF CloseCompose, TypeOK
<1>5. CASE CloseKeydefs
  <2>1. Len(DK_dks) \in Nat
    BY LenProperties DEF TypeOK
  <2>2. KA_dkn_count \in Nat
    BY DKTreeAssumption
  <2> QED BY <1>1, <1>5, <2>1, <2>2 DEF CloseKeydefs, TypeOK
<1>6. ASSUME NEW line \in ComposeLines, TooManyKeys(line) PROVE IInv'
  BY <1>1, <1>6 DEF TooManyKeys, TypeOK
<1>7. ASSUME NEW line \in KeydefLines, DK_read_keydef_line(line) PROVE IInv'
  <2>1. /\ line.name \in Names /\ line.sym \in Syms \cup {NoSym}
        /\ line.code \in Codes \cup {NoCode}
    BY DKTreeAssumption
  <2>2. DK_dks' \in Seq([sym : Syms \cup {NoSym}, name : Names])
    <3>1. [sym |-> line.sym, name |-> line.name] \in [sym : Syms \cup {NoSym}, name : Names]
      BY <2>1
    <3> QED BY <1>7, <3>1, AppendProperties DEF DK_read_keydef_line, TypeOK
  <2>3. DK_cns' \in Seq([name : Names, code : Codes])
    <3>1. CASE line.code = NoCode
      BY <1>7, <3>1 DEF DK_read_keydef_line, DK_cns_push, TypeOK
    <3>2. CASE line.code # NoCode
      <4>1. [name |-> line.name, code |-> line.code] \in [name : Names, code : Codes]
        BY <2>1, <3>2
      <4> QED BY <1>7, <4>1, AppendProperties DEF DK_read_keydef_line, DK_cns_push, TypeOK
    <3> QED BY <3>1, <3>2
  <2>4. TypeOK'
    BY <1>7, <2>2, <2>3 DEF DK_read_keydef_line, TypeOK, Paths
  <2>5. TreeInv'
    BY <1>7, TreeUnchanged DEF DK_read_keydef_line
  <2> QED BY <2>4, <2>5
<1>8. ASSUME NEW line \in ComposeLines, DK_read_compose_line(line) PROVE IInv'
  <2>1. TreeInv'
    <3>1. CASE DK_tree' = DK_tree
      BY <3>1, TreeUnchanged
    <3>2. CASE \E path \in Seq(DK_Keys) \ {<<>>}, code \in KnownCodes :
                 DK_tree' = DK_assign(DK_tree, path, code)
      BY <3>2, AssignKeeps
    <3> QED BY <1>8, <3>1, <3>2, ComposeLine
  <2>2. line.code \in Names \cup {Unquoted}
    BY DKTreeAssumption
  <2>3. TypeOK'
    BY <1>8, <2>1, <2>2 DEF DK_read_compose_line, TypeOK, TreeInv, TreeType, names
  <2> QED BY <2>1, <2>3
<1> QED BY <1>2, <1>3, <1>4, <1>5, <1>6, <1>7, <1>8 DEF Next

LEMMA Invariant == Spec => []IInv
  BY InitInv, NextInv, PTL DEF Spec

\* Every variable stays in its range, whatever the files say (dk.c).
THEOREM DKTreeTypeCorrect == Spec => []TypeOK
<1>1. IInv => TypeOK
  BY DEF IInv
<1> QED BY <1>1, Invariant, PTL

\* No array of children is written or read past what was allocated for it
\* (dk.c:112-122), for any sequence of lines of any length.
THEOREM ArraysHold == Spec => []WithinArrays
<1>1. IInv => WithinArrays
  BY DEF IInv, TreeInv
<1> QED BY <1>1, Invariant, PTL

\* The nodes that there are are the ones that the arrays list (dk.c:57-134).
THEOREM TreeIsListed == Spec => []ChildrenListed
<1>1. IInv => ChildrenListed
  BY DEF IInv, TreeInv
<1> QED BY <1>1, Invariant, PTL

\* A sequence that can be begun can be ended (dk.c:77, 118-128).
THEOREM SequencesEnd == Spec => []NoDeadEnd
<1>1. IInv => NoDeadEnd
  BY DEF IInv, TreeInv
<1> QED BY <1>1, Invariant, PTL

\* Reading files implements the map of KeySequences (dk.c:403-430).
THEOREM ReadingOverrides == Spec => Overrides
<1>1. DK_init => Map!Init
  <2> SUFFICES ASSUME DK_init PROVE Sequences = <<>>
    BY DEF Map!Init
  <2>1. Paths = {<<>>} /\ DK_tree[<<>>] = NewPivot
    BY DEF DK_init, Paths
  <2>2. DK_is_pivotNode(NewPivot)
    BY DKTreeAssumption DEF NewPivot, DK_is_pivotNode
  <2>3. BindPaths = {}
    BY <2>1, <2>2 DEF PivotPaths, BindPaths
  <2> QED BY <2>3 DEF Sequences
<1>2. IInv /\ [Next]_vars => [Map!Next]_Sequences
  <2> SUFFICES ASSUME IInv, [Next]_vars PROVE [Map!Next]_Sequences
    OBVIOUS
  <2>1. CASE DK_tree' = DK_tree
    <3>1. Sequences' = Sequences
      BY <2>1 DEF Sequences, BindPaths, PivotPaths, Paths
    <3> QED BY <3>1
  <2>2. ASSUME NEW line \in ComposeLines, DK_read_compose_line(line)
        PROVE  [Map!Next]_Sequences
    <3>1. ASSUME NEW path \in Seq(DK_Keys) \ {<<>>}, NEW code \in KnownCodes,
                 DK_tree' = DK_assign(DK_tree, path, code)
          PROVE  Map!Next
      <4>1. path \in BindPaths' /\ Sequences'[path] = code /\ Map!Assign(path, code)
        BY <3>1, AssignOverrides DEF IInv
      <4>2. path \in DOMAIN Sequences'
        BY <4>1 DEF Sequences
      <4> QED BY <3>1, <4>1, <4>2 DEF Map!Next
    <3> QED BY <2>1, <2>2, <3>1, ComposeLine
  <2> QED BY <2>1, <2>2 DEF Next, Open, CloseKeydefs, CloseCompose, DK_read_keydef_line,
                            TooManyKeys, vars
<1> QED BY <1>1, <1>2, Invariant, PTL DEF Spec, Overrides, Map!Spec

-----------------------------------------------------------------------------
(***************************************************************************)
(* Names that had a meaning keep it.  A table only grows at its end, and   *)
(* is searched from its beginning; what is not clear from that is that a   *)
(* name that stood for a character does not get an entry among the dead    *)
(* keys, which are searched first.                                         *)
(***************************************************************************)

\* A table grows at its end.
Extends(table, more) ==
  /\ Len(table) <= Len(more)
  /\ \A i \in 1 .. Len(table) : more[i] = table[i]

LEMMA LeastIs ==
  ASSUME NEW I, I \subseteq Nat, NEW m \in I, \A n \in I : m <= n
  PROVE  Min(I) = m
<1>1. Min(I) \in I /\ Min(I) <= m
  BY MinLeast
<1> DEFINE x == Min(I)
<1>2. x \in Nat /\ m \in Nat /\ m <= x /\ x <= m
  BY <1>1
<1> HIDE DEF x
<1>3. x = m
  BY <1>2
<1> QED BY <1>3 DEF x

\* The first number of a set stays the first when only greater ones are added.
LEMMA FirstStays ==
  ASSUME NEW I, NEW J, NEW n \in Nat, J \subseteq Nat, I # {},
         I = {i \in J : i <= n}
  PROVE  Min(J) = Min(I)
<1>1. Min(I) \in I /\ \A i \in I : Min(I) <= i
  BY MinLeast
<1> DEFINE m == Min(I)
<1>2. m \in J /\ m <= n
  BY <1>1
<1>3. \A j \in J : m <= j
  <2> TAKE j \in J
  <2>1. j \in Nat /\ m \in Nat /\ (j <= n => j \in I)
    BY <1>2
  <2>2. j \in I => m <= j
    BY <1>1
  <2> HIDE DEF m
  <2> QED BY <1>2, <2>1, <2>2
<1> HIDE DEF m
<1>4. Min(J) = m
  BY <1>2, <1>3, LeastIs
<1> QED BY <1>4 DEF m

\* Where a name is found, it is found in the table that has grown.
LEMMA NameStays ==
  ASSUME NEW table, NEW more, Len(table) \in Nat, Len(more) \in Nat,
         Extends(table, more), NEW name, ByName(table, name) # 0
  PROVE  ByName(more, name) = ByName(table, name)
<1> DEFINE I == {i \in 1 .. Len(table) : table[i].name = name}
           J == {i \in 1 .. Len(more) : more[i].name = name}
<1>1. ByName(table, name) = IF I # {} THEN Min(I) ELSE 0
  BY DEF ByName, SelectInSeq
<1>2. ByName(more, name) = IF J # {} THEN Min(J) ELSE 0
  BY DEF ByName, SelectInSeq
<1>3. I # {} /\ J \subseteq Nat
  BY <1>1
<1>4. I = {i \in J : i <= Len(table)}
  BY DEF Extends
<1> HIDE DEF I, J
<1>5. J # {}
  BY <1>3, <1>4
<1> QED BY <1>1, <1>2, <1>3, <1>4, <1>5, FirstStays

\* Likewise a symbol.
LEMMA SymbolStays ==
  ASSUME Len(DK_dks) \in Nat, Len(DK_dks') \in Nat, Extends(DK_dks, DK_dks'),
         NEW i \in 1 .. Len(DK_dks)
  PROVE  BySym(DK_dks[i].sym)' = BySym(DK_dks[i].sym)
<1> DEFINE sym == DK_dks[i].sym
           I == {j \in 1 .. Len(DK_dks) : DK_dks[j].sym = sym}
           J == {j \in 1 .. Len(DK_dks') : DK_dks'[j].sym = sym}
<1>1. BySym(sym) = IF I # {} THEN Min(I) ELSE 0
  BY DEF BySym, SelectInSeq
<1>2. DK_dks'[i] = DK_dks[i]
  BY DEF Extends
<1>3. BySym(DK_dks[i].sym)' = IF J # {} THEN Min(J) ELSE 0
  BY <1>2 DEF BySym, SelectInSeq
<1>4. I # {} /\ J \subseteq Nat
  OBVIOUS
<1>5. I = {j \in J : j <= Len(DK_dks)}
  BY DEF Extends
<1> HIDE DEF I, J
<1>6. J # {}
  BY <1>4, <1>5
<1> QED BY <1>1, <1>3, <1>4, <1>5, <1>6, FirstStays

\* The tables after a step.
LEMMA TablesGrow ==
  ASSUME IInv, [Next]_vars
  PROVE  Extends(DK_dks, DK_dks') /\ Extends(DK_cns, DK_cns')
<1>1. Len(DK_dks) \in Nat /\ Len(DK_cns) \in Nat
  BY LenProperties DEF IInv, TypeOK
<1>2. CASE UNCHANGED names
  BY <1>1, <1>2 DEF names, Extends
<1>3. ASSUME NEW line \in KeydefLines, DK_read_keydef_line(line)
      PROVE  Extends(DK_dks, DK_dks') /\ Extends(DK_cns, DK_cns')
  <2>1. \/ DK_dks' = DK_dks
        \/ DK_dks' = Append(DK_dks, [sym |-> line.sym, name |-> line.name])
    BY <1>3 DEF DK_read_keydef_line
  <2>2. \/ DK_cns' = DK_cns
        \/ DK_cns' = Append(DK_cns, [name |-> line.name, code |-> line.code])
    BY <1>3 DEF DK_read_keydef_line, DK_cns_push
  <2>3. \A S, s, e : s \in Seq(S) => Extends(s, Append(s, e))
    <3> TAKE S, s, e
    <3> HAVE s \in Seq(S)
    <3> DEFINE T == S \cup {e}
    <3>1. \A i \in 1 .. Len(s) : s[i] \in T
      BY ElementOfSeq
    <3>2. s \in Seq(T)
      BY SeqDef, LenProperties, <3>1
    <3> QED BY <3>2, AppendProperties, LenProperties DEF Extends
  <2>4. \A e : Extends(DK_dks, Append(DK_dks, e)) /\ Extends(DK_cns, Append(DK_cns, e))
    BY <2>3 DEF IInv, TypeOK
  <2>5. Extends(DK_dks, DK_dks) /\ Extends(DK_cns, DK_cns)
    BY <1>1 DEF Extends
  <2> QED BY <2>1, <2>2, <2>4, <2>5
<1> QED BY <1>2, <1>3 DEF Next, Open, CloseKeydefs, CloseCompose, DK_read_compose_line,
                          TooManyKeys, vars, names

\* A dead key that has an entry among the characters has one among the dead keys.
DeadFirst ==
  \A i \in 1 .. Len(DK_cns) :
    DK_cns[i].name \in DeadNames => ByName(DK_dks, DK_cns[i].name) # 0

\* What a line of a key symbol file adds to the tables.
LEMMA LineAdds ==
  ASSUME IInv, NEW line \in KeydefLines, DK_read_keydef_line(line)
  PROVE  /\ Len(DK_dks') \in Nat /\ Len(DK_cns') \in Nat
         /\ \A i \in 1 .. Len(DK_dks') :
              \/ i \in 1 .. Len(DK_dks)
              \/ DK_dks'[i].name = line.name /\ line.name \in DeadNames
         /\ \A i \in 1 .. Len(DK_cns') :
              \/ i \in 1 .. Len(DK_cns)
              \/ /\ DK_cns'[i].name = line.name
                 /\ line.name \in DeadNames =>
                      \E j \in 1 .. Len(DK_dks') : DK_dks'[j].name = line.name
<1> DEFINE dk == [sym |-> line.sym, name |-> line.name]
           cn == [name |-> line.name, code |-> line.code]
           skip == line.name \in DeadNames /\ line.sym = NoSym
<1>1. Len(DK_dks) \in Nat /\ Len(DK_cns) \in Nat
  BY LenProperties DEF IInv, TypeOK
<1>2. line.name \in Names /\ line.sym \in Syms \cup {NoSym} /\ line.code \in Codes \cup {NoCode}
  BY DKTreeAssumption
<1>3. /\ Len(Append(DK_dks, dk)) = Len(DK_dks) + 1
      /\ Append(DK_dks, dk)[Len(DK_dks) + 1] = dk
  <2>1. dk \in [sym : Syms \cup {NoSym}, name : Names]
    BY <1>2
  <2> HIDE DEF dk
  <2> QED BY <2>1, AppendProperties DEF IInv, TypeOK
<1>4. DK_dks' = IF line.name \in DeadNames /\ ~skip THEN Append(DK_dks, dk) ELSE DK_dks
  BY DEF DK_read_keydef_line
<1>5. CASE skip
  <2>1. DK_dks' = DK_dks /\ DK_cns' = DK_cns
    BY <1>5 DEF DK_read_keydef_line
  <2> QED BY <1>1, <2>1
<1>6. CASE ~skip
  <2>1. DK_cns' = IF line.code = NoCode THEN DK_cns ELSE Append(DK_cns, cn)
    BY <1>6 DEF DK_read_keydef_line, DK_cns_push
  <2>2. line.code # NoCode => /\ Len(Append(DK_cns, cn)) = Len(DK_cns) + 1
                              /\ Append(DK_cns, cn)[Len(DK_cns) + 1] = cn
    <3>1. line.code # NoCode => cn \in [name : Names, code : Codes]
      BY <1>2
    <3> HIDE DEF cn
    <3> QED BY <3>1, AppendProperties DEF IInv, TypeOK
  <2>3. /\ Len(DK_dks') \in Nat
        /\ \A i \in 1 .. Len(DK_dks') :
             \/ i \in 1 .. Len(DK_dks)
             \/ DK_dks'[i].name = line.name /\ line.name \in DeadNames
        /\ line.name \in DeadNames =>
             \E j \in 1 .. Len(DK_dks') : DK_dks'[j].name = line.name
    <3>1. CASE line.name \in DeadNames
      <4>1. DK_dks' = Append(DK_dks, dk)
        BY <1>4, <1>6, <3>1
      <4>2. dk.name = line.name
        OBVIOUS
      <4> HIDE DEF dk
      <4>3. Len(DK_dks') = Len(DK_dks) + 1 /\ DK_dks'[Len(DK_dks) + 1].name = line.name
        BY <1>3, <4>1, <4>2
      <4> QED BY <1>1, <3>1, <4>3
    <3>2. CASE line.name \notin DeadNames
      BY <1>1, <1>4, <3>2
    <3> QED BY <3>1, <3>2
  <2>4. /\ Len(DK_cns') \in Nat
        /\ \A i \in 1 .. Len(DK_cns') :
             i \in 1 .. Len(DK_cns) \/ DK_cns'[i].name = line.name
    <3>1. cn.name = line.name
      OBVIOUS
    <3> HIDE DEF cn
    <3> QED BY <1>1, <2>1, <2>2, <3>1
  <2> QED BY <2>3, <2>4
<1> QED BY <1>5, <1>6

NInv == IInv /\ DeadFirst

LEMMA DeadStayFirst ==
  ASSUME NInv, [Next]_vars, IInv'
  PROVE  DeadFirst'
<1> USE DEF NInv
<1>1. Extends(DK_dks, DK_dks') /\ Extends(DK_cns, DK_cns')
  BY TablesGrow
<1>2. /\ Len(DK_dks) \in Nat /\ Len(DK_dks') \in Nat
      /\ Len(DK_cns) \in Nat /\ Len(DK_cns') \in Nat
  BY LenProperties DEF IInv, TypeOK
<1>3. ASSUME NEW i \in 1 .. Len(DK_cns), DK_cns'[i].name \in DeadNames
      PROVE  ByName(DK_dks', DK_cns'[i].name) # 0
  <2>1. DK_cns'[i] = DK_cns[i]
    BY <1>1 DEF Extends
  <2>2. ByName(DK_dks, DK_cns[i].name) # 0
    BY <1>3, <2>1 DEF DeadFirst
  <2> QED BY <1>1, <1>2, <2>1, <2>2, NameStays
<1>4. ASSUME NEW i \in 1 .. Len(DK_cns'), i \notin 1 .. Len(DK_cns),
             DK_cns'[i].name \in DeadNames
      PROVE  ByName(DK_dks', DK_cns'[i].name) # 0
  <2>1. ~(DK_cns' = DK_cns)
    BY <1>4
  <2>2. PICK line \in KeydefLines : DK_read_keydef_line(line)
    BY <2>1 DEF Next, Open, CloseKeydefs, CloseCompose, DK_read_compose_line,
                TooManyKeys, vars, names
  <2>3. \E j \in 1 .. Len(DK_dks') : DK_dks'[j].name = DK_cns'[i].name
    BY <1>4, <2>2, LineAdds
  <2> QED BY <1>2, <2>3, FirstByName
<1> QED BY <1>3, <1>4 DEF DeadFirst

LEMMA NInvariant == Spec => []NInv
<1>1. DK_init => NInv
  BY InitInv DEF NInv, DeadFirst, DK_init
<1>2. NInv /\ [Next]_vars => NInv'
  BY NextInv, DeadStayFirst DEF NInv
<1> QED BY <1>1, <1>2, PTL DEF Spec

\* What a name means does not change in a step, if it meant something.
LEMMA NameKept ==
  ASSUME NInv, [Next]_vars, IInv', NEW name \in Names, Known(name)
  PROVE  DK_Key_from_charbuf(name)' = DK_Key_from_charbuf(name)
<1> USE DEF NInv
<1>1. Extends(DK_dks, DK_dks') /\ Extends(DK_cns, DK_cns')
  BY TablesGrow
<1>2. /\ Len(DK_dks) \in Nat /\ Len(DK_dks') \in Nat
      /\ Len(DK_cns) \in Nat /\ Len(DK_cns') \in Nat
  BY LenProperties DEF IInv, TypeOK
<1>3. /\ ByName(DK_dks, name)' = ByName(DK_dks', name)
      /\ ByName(DK_cns, name)' = ByName(DK_cns', name)
  BY DEF ByName, SelectInSeq
<1>4. CASE ucs2[name] # NoCode
  BY <1>4 DEF DK_Key_from_charbuf, DK_Bind_from_charbuf
<1>5. CASE ucs2[name] = NoCode /\ ByName(DK_dks, name) # 0
  <2>1. PICK i \in 1 .. Len(DK_dks) : i = ByName(DK_dks, name)
    BY <1>2, <1>5, FirstByName
  <2>2. ByName(DK_dks, name)' = i
    BY <1>1, <1>2, <1>3, <1>5, <2>1, NameStays
  <2>3. BySym(DK_dks[i].sym)' = BySym(DK_dks[i].sym)
    BY <1>1, <1>2, <2>1, SymbolStays
  <2>4. DK_dksym_to_ka(name)' = DK_dksym_to_ka(name)
    <3>1. DK_dks'[i] = DK_dks[i]
      BY <1>1, <2>1 DEF Extends
    <3>2. DK_dksym_to_ka(name)' = BySym(DK_dks[i].sym)' - 1
      BY <2>2, <3>1 DEF DK_dksym_to_ka
    <3> QED BY <2>1, <2>3, <3>2 DEF DK_dksym_to_ka
  <2> QED BY <1>5, <2>2, <2>4 DEF DK_Key_from_charbuf
<1>6. CASE ucs2[name] = NoCode /\ ByName(DK_dks, name) = 0
  <2>1. DK_Bind_from_charbuf(name) # NoCode
    BY <1>6 DEF Known, DK_Key_from_charbuf
  <2>2. ByName(DK_cns, name) # 0
    BY <1>6, <2>1 DEF DK_Bind_from_charbuf
  <2>3. PICK i \in 1 .. Len(DK_cns) : i = ByName(DK_cns, name) /\ DK_cns[i].name = name
    BY <1>2, <2>2, FirstByName
  <2>4. ByName(DK_cns, name)' = i /\ DK_cns'[i] = DK_cns[i]
    <3>1. ByName(DK_cns', name) = i
      BY <1>1, <1>2, <2>2, <2>3, NameStays
    <3> QED BY <1>1, <1>3, <2>3, <3>1 DEF Extends
  <2>5. name \notin DeadNames
    BY <1>6, <2>3 DEF DeadFirst
  <2>6. ByName(DK_dks, name)' = 0
    <3>1. ASSUME NEW j \in 1 .. Len(DK_dks'), DK_dks'[j].name = name PROVE FALSE
      <4>1. j \notin 1 .. Len(DK_dks)
        <5>1. \A k \in 1 .. Len(DK_dks) : DK_dks[k].name # name
          BY <1>2, <1>6, FirstByName
        <5> QED BY <1>1, <3>1, <5>1 DEF Extends
      <4>2. ~(DK_dks' = DK_dks)
        BY <4>1
      <4>3. PICK line \in KeydefLines : DK_read_keydef_line(line)
        BY <4>2 DEF Next, Open, CloseKeydefs, CloseCompose, DK_read_compose_line,
                    TooManyKeys, vars, names
      <4> QED BY <2>5, <3>1, <4>1, <4>3, LineAdds
    <3>2. ByName(DK_dks', name) = 0
      BY <1>2, <3>1, FirstByName
    <3> QED BY <1>3, <3>2
  <2>7. DK_Bind_from_charbuf(name)' = DK_Bind_from_charbuf(name)
    BY <1>6, <2>2, <2>3, <2>4 DEF DK_Bind_from_charbuf
  <2> QED BY <1>6, <2>6, <2>7 DEF DK_Key_from_charbuf
<1> QED BY <1>4, <1>5, <1>6

\* The actions that have names are among the dead keys.
NamedIn == KA_named > 1 => KA_named <= Len(DK_dks) /\ KA_named <= KA_dkn_count

\* The names of actions after a step.
LEMMA NamedGrow ==
  ASSUME IInv, IInv', [Next]_vars, NamedIn
  PROVE  NamedIn' /\ (KA_named > 1 => KA_named <= KA_named')
<1>1. /\ KA_named \in Nat /\ KA_named' \in Nat /\ KA_dkn_count \in Nat
      /\ Len(DK_dks) \in Nat /\ Len(DK_dks') \in Nat
  BY LenProperties, DKTreeAssumption DEF IInv, TypeOK
<1>2. Len(DK_dks) <= Len(DK_dks')
  BY TablesGrow DEF Extends
<1>3. CASE KA_named' = KA_named
  BY <1>1, <1>2, <1>3 DEF NamedIn
<1>4. CASE CloseKeydefs
  <2>1. KA_named' = IF Len(DK_dks) < KA_dkn_count THEN Len(DK_dks) ELSE KA_dkn_count
    BY <1>4 DEF CloseKeydefs
  <2> QED BY <1>1, <1>2, <2>1 DEF NamedIn
<1> QED BY <1>3, <1>4 DEF Next, Open, CloseCompose, DK_read_keydef_line,
                          DK_read_compose_line, TooManyKeys, vars

\* What a part of a table is, and that it grows with the table.  (The prover takes the
\* library's fact for an m, not for the number 2.)
LEMMA PartOf ==
  ASSUME NEW s, NEW n \in Nat
  PROVE  /\ n <= 1 => Len(SubSeq(s, 2, n)) = 0
         /\ n > 1 => /\ Len(SubSeq(s, 2, n)) = n - 1
                     /\ \A i \in 1 .. n - 1 : SubSeq(s, 2, n)[i] = s[i + 1]
<1>1. PICK m \in Int : m = 2
  OBVIOUS
<1> DEFINE S == {s[i] : i \in m .. n}
           part == SubSeq(s, m, n)
<1>2. (\A i \in m .. n : s[i] \in S) /\ n \in Int
  OBVIOUS
<1> HIDE DEF S
<1>3. /\ Len(part) = IF m <= n THEN n - m + 1 ELSE 0
      /\ \A i \in 1 .. n - m + 1 : part[i] = s[m + i - 1]
  BY <1>2, SubSeqProperties
<1> HIDE DEF part
<1>4. ASSUME n > 1, NEW i \in 1 .. n - 1 PROVE part[i] = s[i + 1]
  <2>1. i \in 1 .. n - m + 1 /\ m + i - 1 = i + 1
    BY <1>1, <1>4
  <2>2. part[i] = s[m + i - 1]
    BY <1>3, <2>1
  <2> QED BY <2>1, <2>2
<1>5. /\ n <= 1 => Len(part) = 0
      /\ n > 1 => Len(part) = n - 1
  BY <1>1, <1>3
<1>6. part = SubSeq(s, 2, n)
  BY <1>1 DEF part
<1> QED BY <1>4, <1>5, <1>6

LEMMA PartGrows ==
  ASSUME NEW s, NEW t, Len(s) \in Nat, Extends(s, t), NEW m \in Nat, NEW n \in Nat,
         1 < m, m <= n, m <= Len(s)
  PROVE  /\ Extends(SubSeq(s, 2, m), SubSeq(t, 2, n))
         /\ Len(SubSeq(s, 2, m)) \in Nat /\ Len(SubSeq(t, 2, n)) \in Nat
<1> DEFINE table == SubSeq(s, 2, m)
           more  == SubSeq(t, 2, n)
<1>1. n > 1
  OBVIOUS
<1>2. Len(table) = m - 1 /\ \A i \in 1 .. m - 1 : table[i] = s[i + 1]
  BY PartOf
<1>3. Len(more) = n - 1 /\ \A i \in 1 .. n - 1 : more[i] = t[i + 1]
  BY <1>1, PartOf
<1> HIDE DEF table, more
<1>4. ASSUME NEW i \in 1 .. m - 1 PROVE more[i] = table[i]
  <2>1. i + 1 \in 1 .. Len(s) /\ i \in 1 .. n - 1
    BY <1>4
  <2>2. t[i + 1] = s[i + 1]
    BY <2>1 DEF Extends
  <2> QED BY <1>2, <1>3, <2>1, <2>2
<1>5. Extends(table, more) /\ Len(table) \in Nat /\ Len(more) \in Nat
  BY <1>2, <1>3, <1>4 DEF Extends
<1> QED BY <1>5 DEF table, more

\* The action that bindings call by a name does not change in a step, if there is one.
LEMMA ActionKept ==
  ASSUME IInv, IInv', [Next]_vars, NamedIn, NEW name \in Names, KA_name_to_id(name) # -1
  PROVE  KA_name_to_id(name)' = KA_name_to_id(name)
<1> DEFINE table == SubSeq(DK_dks, 2, KA_named)
           more  == SubSeq(DK_dks', 2, KA_named')
<1>1. KA_named \in Nat /\ KA_named' \in Nat /\ Len(DK_dks) \in Nat
  BY LenProperties DEF IInv, TypeOK
<1>2. ByName(table, name) # 0
  BY DEF KA_name_to_id
<1>3. Extends(DK_dks, DK_dks')
  BY TablesGrow
<1>4. KA_named > 1
  <2> SUFFICES ASSUME KA_named <= 1 PROVE FALSE
    BY <1>1
  <2>1. Len(table) = 0
    BY <1>1, PartOf
  <2> HIDE DEF table
  <2>2. ByName(table, name) \in 0 .. 0
    BY <2>1, FirstByName
  <2> QED BY <1>2, <2>2
<1>5. KA_named <= Len(DK_dks) /\ KA_named <= KA_named'
  BY <1>4, NamedGrow DEF NamedIn
<1>6. Extends(table, more) /\ Len(table) \in Nat /\ Len(more) \in Nat
  BY <1>1, <1>3, <1>4, <1>5, PartGrows
<1>7. ByName(more, name) = ByName(table, name)
  <2> HIDE DEF table, more
  <2> QED BY <1>2, <1>6, NameStays
<1>8. KA_name_to_id(name)' = IF ByName(more, name) = 0 THEN -1 ELSE ByName(more, name)
  BY DEF KA_name_to_id, ByName, SelectInSeq
<1>9. KA_name_to_id(name) = IF ByName(table, name) = 0 THEN -1 ELSE ByName(table, name)
  BY DEF KA_name_to_id
<1> HIDE DEF table, more
<1> QED BY <1>7, <1>8, <1>9

\* What lines read before and after call by one name is one key, in whatever order and
\* however often the names are defined; likewise in bindings (dk.c:345-385, ka.c:173-197).
THEOREM NamesLast == Spec => NamesKeep
<1>1. NInv /\ IInv' /\ NamedIn /\ [Next]_vars
        => [\A name \in Names :
              /\ Known(name) => DK_Key_from_charbuf(name)' = DK_Key_from_charbuf(name)
              /\ KA_name_to_id(name) # -1 => KA_name_to_id(name)' = KA_name_to_id(name)]_vars
  BY NameKept, ActionKept DEF NInv
<1>2. DK_init => NamedIn
  BY DEF DK_init, NamedIn
<1>3. IInv /\ IInv' /\ NamedIn /\ [Next]_vars => NamedIn'
  BY NamedGrow
<1> QED BY <1>1, <1>2, <1>3, NInvariant, Invariant, PTL DEF Spec, NamesKeep

-----------------------------------------------------------------------------
(***************************************************************************)
(* The tree and its lookup.  The lookup is given the sequences only, and   *)
(* takes what leads to them for the pivot nodes.  That every pivot node    *)
(* leads to a sequence follows from NoDeadEnd when the tree is finite: of  *)
(* the pivot nodes that begin with it, the longest has a child that is a   *)
(* bind node.                                                              *)
(***************************************************************************)

\* The tree has a depth.
Within(n) == \A q \in Paths : Len(q) <= n
Deep == \E n \in Nat : Within(n)

LEMMA DeepAssigned ==
  ASSUME TreeInv, Deep, NEW path \in Seq(DK_Keys) \ {<<>>}, NEW code \in KnownCodes,
         DK_tree' = DK_assign(DK_tree, path, code)
  PROVE  Deep'
<1>1. PICK n \in Nat : Within(n)
  BY DEF Deep
<1>2. Len(path) \in Nat
  BY LenProperties
<1>3. PICK m \in Nat : n <= m /\ Len(path) <= m
  <2>1. CASE n <= Len(path)
    BY <1>2, <2>1
  <2>2. CASE Len(path) <= n
    BY <1>2, <2>2
  <2> QED BY <1>2, <2>1, <2>2
<1>4. ASSUME NEW q \in Paths' PROVE Len(q) <= m
  <2>1. q \in Paths \/ q \in Prefixes(path)
    BY <1>4 DEF Paths, DK_assign
  <2>2. CASE q \in Paths
    <3>1. Len(q) \in Nat /\ Len(q) <= n
      BY <1>1, <2>2, LenProperties DEF Within, TreeInv, TreeType
    <3> QED BY <1>3, <3>1
  <2>3. CASE q \in Prefixes(path)
    <3>1. q \in Seq(DK_Keys) /\ (q = path \/ IsStrictPrefix(q, path))
      BY <2>3, PrefixesDef
    <3>2. Len(q) <= Len(path) /\ Len(q) \in Nat
      BY <1>2, <3>1, StrictDef, LenProperties
    <3> QED BY <1>2, <1>3, <3>2
  <2> QED BY <2>1, <2>2, <2>3
<1>5. Within(m)'
  BY <1>4 DEF Within
<1> QED BY <1>5 DEF Deep

LInv == IInv /\ Deep

LEMMA LInvariant == Spec => []LInv
<1>1. DK_init => LInv
  <2> SUFFICES ASSUME DK_init PROVE LInv
    OBVIOUS
  <2>1. Paths = {<<>>} /\ Len(<<>>) = 0
    BY DEF DK_init, Paths
  <2>2. Within(0)
    BY <2>1 DEF Within
  <2> QED BY <2>2, InitInv DEF LInv, Deep
<1>2. LInv /\ [Next]_vars => LInv'
  <2> SUFFICES ASSUME LInv, [Next]_vars PROVE Deep'
    BY NextInv DEF LInv
  <2>1. CASE DK_tree' = DK_tree
    BY <2>1 DEF LInv, Deep, Within, Paths
  <2>2. ASSUME NEW line \in ComposeLines, DK_read_compose_line(line) PROVE Deep'
    <3>1. CASE DK_tree' = DK_tree
      BY <2>1, <3>1
    <3>2. CASE \E path \in Seq(DK_Keys) \ {<<>>}, code \in KnownCodes :
                 DK_tree' = DK_assign(DK_tree, path, code)
      BY <3>2, DeepAssigned DEF LInv, IInv
    <3> QED BY <2>2, <3>1, <3>2, ComposeLine DEF LInv
  <2> QED BY <2>1, <2>2 DEF Next, Open, CloseKeydefs, CloseCompose, DK_read_keydef_line,
                            TooManyKeys, vars
<1> QED BY <1>1, <1>2, PTL DEF Spec

\* A node with a strict prefix on the way is below a pivot.
LEMMA AboveIsPivot ==
  ASSUME TreeInv, NEW s \in Paths, NEW q \in Prefixes(s) \ {s}
  PROVE  q \in PivotPaths
<1>1. s \in Seq(DK_Keys)
  BY DEF TreeInv, TreeType
<1>2. q \in Seq(DK_Keys) /\ IsStrictPrefix(q, s)
  BY <1>1, PrefixesDef
<1>3. /\ Len(q) \in Nat /\ Len(s) \in Nat /\ Len(q) < Len(s)
      /\ \A i \in 1 .. Len(q) : q[i] = s[i]
  BY <1>1, <1>2, StrictDef, LenProperties
<1>4. q = SubSeq(s, 1, Len(q))
  <2>1. Len(q) \in 0 .. Len(s)
    BY <1>3
  <2> QED BY <1>1, <1>2, <1>3, <2>1, FirstOf, SeqEqual
<1>5. Len(q) \in 0 .. Len(s) - 1
  BY <1>3
<1>6. SubSeq(s, 1, Len(q)) \in PivotPaths
  BY <1>5 DEF TreeInv, ChildrenListed
<1> QED BY <1>4, <1>6

\* A child of a pivot node is in the tree, one longer, and begins with it.
LEMMA ChildOf ==
  ASSUME TreeInv, NEW p \in PivotPaths, NEW i \in 1 .. Len(DK_tree[p].keys)
  PROVE  LET c == Append(p, DK_tree[p].keys[i])
         IN  /\ c \in Paths /\ p \in Seq(DK_Keys) /\ c \in Seq(DK_Keys)
             /\ Len(p) \in Nat /\ Len(c) = Len(p) + 1
             /\ \A j \in 1 .. Len(p) : c[j] = p[j]
<1> DEFINE k == DK_tree[p].keys[i]
<1>1. p \in Paths /\ p \in Seq(DK_Keys) /\ DK_tree[p] \in Nodes
  BY DEF TreeInv, TreeType, PivotPaths
<1>2. Len(p) \in Nat
  BY <1>1, LenProperties
<1>3. k \in DK_Keys
  BY <1>1, ElementOfSeq DEF Nodes
<1>4. Append(p, k) \in Paths
  BY <1>1 DEF TreeInv, ChildrenListed
<1> HIDE DEF k
<1>5. /\ Append(p, k) \in Seq(DK_Keys) /\ Len(Append(p, k)) = Len(p) + 1
      /\ \A j \in 1 .. Len(p) : Append(p, k)[j] = p[j]
  BY <1>1, <1>3, OneMore
<1> QED BY <1>1, <1>2, <1>4, <1>5 DEF k

\* Every pivot node but the root leads to a bind node.
LEMMA LeadsToBind ==
  ASSUME LInv, NEW q \in PivotPaths, q # <<>>
  PROVE  \E s \in BindPaths : IsStrictPrefix(q, s)
<1>1. TreeInv
  BY DEF LInv, IInv
<1>2. PICK n \in Nat : Within(n)
  BY DEF LInv, Deep
<1>3. \A p \in Paths : p \in Seq(DK_Keys) /\ Len(p) \in 0 .. n
  BY <1>1, <1>2, LenProperties DEF TreeInv, TreeType, Within
<1>4. PivotPaths \subseteq Paths
  BY DEF PivotPaths
<1> DEFINE Begins(p) == Len(q) <= Len(p) /\ \A i \in 1 .. Len(q) : q[i] = p[i]
           T == {n - Len(p) : p \in {r \in PivotPaths : Begins(r)}}
<1>5. T \subseteq Nat /\ n - Len(q) \in T
  <2>1. Begins(q)
    BY <1>3, <1>4
  <2>2. \A p \in PivotPaths : n - Len(p) \in Nat
    BY <1>3, <1>4
  <2> HIDE DEF Begins
  <2> QED BY <2>1, <2>2
<1>6. PICK m \in T : \A x \in T : m <= x
  BY <1>5, LeastNumber
<1>7. PICK p \in PivotPaths : Begins(p) /\ m = n - Len(p)
  BY <1>6
<1>8. \A r \in PivotPaths : Begins(r) => Len(r) <= Len(p)
  <2> SUFFICES ASSUME NEW r \in PivotPaths, Begins(r) PROVE Len(r) <= Len(p)
    OBVIOUS
  <2>1. n - Len(p) <= n - Len(r)
    BY <1>6, <1>7
  <2> QED BY <1>3, <1>4, <2>1
<1>9. p # <<>> /\ DK_tree[p].keys # <<>>
  <2>1. Len(q) # 0 /\ Len(q) \in Nat
    BY <1>3, <1>4, EmptySeq
  <2>2. p # <<>>
    BY <1>3, <1>4, <1>7, <2>1, EmptySeq
  <2> QED BY <1>1, <2>2 DEF TreeInv, NoDeadEnd
<1>10. 1 \in 1 .. Len(DK_tree[p].keys)
  <2>1. DK_tree[p].keys \in Seq(DK_Keys)
    BY <1>1, <1>4 DEF TreeInv, TreeType, Nodes
  <2> QED BY <1>9, <2>1, EmptySeq, LenProperties
<1> DEFINE c == Append(p, DK_tree[p].keys[1])
<1>11. /\ c \in Paths /\ c \in Seq(DK_Keys) /\ Len(p) \in Nat /\ Len(c) = Len(p) + 1
       /\ \A j \in 1 .. Len(p) : c[j] = p[j]
  BY <1>1, <1>10, ChildOf
<1> HIDE DEF c
<1>12. Begins(c) /\ Len(q) < Len(c)
  <2>1. Len(q) \in Nat
    BY <1>3, <1>4
  <2> QED BY <1>7, <1>11, <2>1
<1>13. c \in BindPaths
  <2>1. c \notin PivotPaths
    BY <1>8, <1>11, <1>12
  <2> QED BY <1>11, <2>1 DEF BindPaths
<1>14. IsStrictPrefix(q, c)
  BY <1>3, <1>4, <1>11, <1>12, StrictDef
<1> QED BY <1>13, <1>14

\* The lookup takes for pivot nodes those that are.
LEMMA SamePivots ==
  ASSUME LInv, NEW q \in Paths
  PROVE  Lookup!DK_is_pivotNode(q) <=> q \in PivotPaths
<1>1. TreeInv
  BY DEF LInv, IInv
<1>2. Lookup!DK_is_pivotNode(q)
        <=> q = <<>> \/ \E s \in BindPaths : q \in Prefixes(s) \ {s}
  <2>1. DOMAIN Sequences = BindPaths
    BY DEF Sequences
  <2>2. \A s : Lookup!Prefixes(s) = Prefixes(s)
    BY DEF Prefixes, Lookup!Prefixes
  <2> QED BY <2>1, <2>2 DEF Lookup!DK_is_pivotNode, Lookup!PivotNodes, Lookup!DK_node
<1>3. ASSUME NEW s \in BindPaths, q \in Prefixes(s) \ {s} PROVE q \in PivotPaths
  BY <1>1, <1>3, AboveIsPivot DEF BindPaths
<1>4. <<>> \in PivotPaths
  BY <1>1 DEF TreeInv, ChildrenListed
<1>5. ASSUME q \in PivotPaths, q # <<>>
      PROVE  \E s \in BindPaths : q \in Prefixes(s) \ {s}
  <2>1. PICK s \in BindPaths : IsStrictPrefix(q, s)
    BY <1>5, LeadsToBind
  <2>2. s \in Seq(DK_Keys) /\ q \in Seq(DK_Keys)
    BY <1>1 DEF TreeInv, TreeType, BindPaths
  <2>3. q \in Prefixes(s) /\ q # s
    BY <2>1, <2>2, PrefixesDef DEF IsStrictPrefix
  <2> QED BY <2>3
<1> QED BY <1>2, <1>3, <1>4, <1>5

\* The lookup of module DK, which Hook follows key by key, goes the way that the
\* arrays of the tree lead and sends what their bind nodes hold, whatever was read
\* in whatever order (dk.c:34, 57-77, 478-509).
THEOREM LookupFollows == Spec => []LookupAgrees
<1>1. LInv => LookupAgrees
  <2> SUFFICES ASSUME LInv PROVE LookupAgrees
    OBVIOUS
  <2>1. TreeInv
    BY DEF LInv, IInv
  <2>2. ASSUME NEW q \in PivotPaths, NEW i \in 1 .. Len(DK_tree[q].keys)
        PROVE  LET key == DK_tree[q].keys[i]
                   child == DK_tree[Append(q, key)]
                   step == Lookup!DK_descend(q, key)
               IN IF DK_is_pivotNode(child)
                  THEN step.more /\ step.node = Append(q, key)
                  ELSE ~step.more /\ step.node = <<>> /\ step.sent = child.code
    <3> DEFINE key == DK_tree[q].keys[i]
               c == Append(q, key)
               step == Lookup!DK_descend(q, key)
    <3>1. c \in Paths
      BY <2>1, ChildOf
    <3>2. Lookup!DK_is_pivotNode(c) <=> DK_is_pivotNode(DK_tree[c])
      <4> HIDE DEF c
      <4> QED BY <3>1, SamePivots DEF PivotPaths
    <3>3. step = CASE Lookup!DK_is_pivotNode(c) -> [node |-> c, sent |-> NoCode, more |-> TRUE]
                   [] c \in DOMAIN Sequences ->
                        [node |-> <<>>, sent |-> Sequences[c], more |-> FALSE]
                   [] OTHER -> [node |-> <<>>, sent |-> NoCode, more |-> FALSE]
      BY DEF Lookup!DK_descend, Lookup!DK_node
    <3>4. IF DK_is_pivotNode(DK_tree[c]) THEN c \notin DOMAIN Sequences
          ELSE c \in DOMAIN Sequences /\ Sequences[c] = DK_tree[c].code
      <4> HIDE DEF c
      <4> QED BY <3>1 DEF Sequences, BindPaths, PivotPaths
    <3>5. CASE DK_is_pivotNode(DK_tree[c])
      <4>1. step = [node |-> c, sent |-> NoCode, more |-> TRUE]
        <5> HIDE DEF c, step
        <5> QED BY <3>2, <3>3, <3>4, <3>5
      <4> HIDE DEF step
      <4>2. step.more /\ step.node = c
        BY <4>1
      <4> QED BY <3>5, <4>2 DEF step
    <3>6. CASE ~DK_is_pivotNode(DK_tree[c])
      <4>1. step = [node |-> <<>>, sent |-> Sequences[c], more |-> FALSE]
        <5> HIDE DEF c, step
        <5> QED BY <3>2, <3>3, <3>4, <3>6
      <4> HIDE DEF step
      <4>2. ~step.more /\ step.node = <<>> /\ step.sent = Sequences[c]
        BY <4>1
      <4> QED BY <3>4, <3>6, <4>2 DEF step
    <3> QED BY <3>5, <3>6
  <2> QED BY <2>2, SamePivots DEF LookupAgrees
<1> QED BY <1>1, LInvariant, PTL

===============================================================================
