-------------------------------- MODULE DKTree --------------------------------
(***************************************************************************)
(* Reading the key symbol and Compose files (dk.c): the names of dead keys *)
(* and of characters, and the tree of Compose sequences that grows line by *)
(* line.                                                                   *)
(*                                                                         *)
(* A node of the tree is named by the sequence of keys that leads to it    *)
(* from the root DK_node.  It keeps what the C struct and its array of     *)
(* children keep: alloc, the size of the array, 0 for a bind node; len,    *)
(* the used part of it, which nodes[0] holds and counts; keys, those of    *)
(* the children from nodes[1] on; code, the character of a bind node.      *)
(*                                                                         *)
(* A name or a symbol is a value of a small set; a line is what the reader *)
(* takes from it.  Lines of which it takes nothing are left out.           *)
(***************************************************************************)
EXTENDS Integers, Sequences, SequencesExt

CONSTANTS
  Names,        \* key names
  Multi_key,    \* the name of the Compose key
  DeadNames,    \* the names that begin with dead_
  Codes,        \* characters
  NoCode,       \* character 0: a name that is not known
  ucs2,         \* [Names -> character], NoCode if the name is not U+xxxx
  Syms,         \* symbols of dead keys
  NoSym,        \* symbol 0
  KeydefLines,  \* [name, sym, code]: lines of key symbol files
  ComposeLines, \* [keys, code]: lines of Compose files
  Unquoted,     \* the code of a line without a string after its colon
  ReadBufs,     \* number of DK_read_bufs: keys a line may have
  MinSize,      \* DK_Node_MINSIZE
  DksSize,      \* size of the array DK_dks; the reader does not check it
  KA_dkn_count, \* number of dead key actions, the Compose key included
  MaxLines      \* bound: lines read

ASSUME DKTreeAssumption ==
  /\ Multi_key \in Names /\ DeadNames \subseteq Names \ {Multi_key}
  /\ NoCode \notin Codes /\ ucs2 \in [Names -> Codes \cup {NoCode}]
  /\ NoSym \notin Syms
  /\ KeydefLines \subseteq
       [name : Names, sym : Syms \cup {NoSym}, code : Codes \cup {NoCode}]
  /\ Unquoted \notin Names
  /\ ComposeLines \subseteq [keys : Seq(Names), code : Names \cup {Unquoted}]
  /\ MinSize \in Nat \ {0, 1} /\ KA_dkn_count \in Nat

VARIABLES
  DK_dks,       \* sequence of [sym, name]: dead keys; its indices are key actions
  DK_cns,       \* sequence of [name, code]: characters
  DK_tree,      \* [path -> node]
  DK_code_buf,  \* the character name read last
  KA_named,     \* how many dead key actions have their name from DK_dks
  reading,      \* the kind of file that is open, or "none"
  lines         \* lines read, up to MaxLines

names == <<DK_dks, DK_cns>>
vars == <<DK_dks, DK_cns, DK_tree, DK_code_buf, KA_named, reading, lines>>

-----------------------------------------------------------------------------
\* Key names.

\* The index of the first entry for a name, or for a symbol: 0 if there is none.
ByName(table, name) == SelectInSeq(table, LAMBDA e : e.name = name)
BySym(sym) == SelectInSeq(DK_dks, LAMBDA e : e.sym = sym)

\* DK_dksym_to_ka of DK_name_to_dksym: the action of the first name of a symbol.
DK_dksym_to_ka(name) == BySym(DK_dks[ByName(DK_dks, name)].sym) - 1

\* The character of a name: DK_Bind_from_charbuf.
DK_Bind_from_charbuf(name) ==
  CASE ucs2[name] # NoCode        -> ucs2[name]
    [] /\ ucs2[name] = NoCode
       /\ ByName(DK_cns, name) # 0 -> DK_cns[ByName(DK_cns, name)].code
    [] OTHER                       -> NoCode

\* Mutant of DK_Key_from_charbuf: characters are looked up before dead keys.
DK_Key_from_charbuf_CharFirst(name) ==
  IF DK_Bind_from_charbuf(name) = NoCode /\ ByName(DK_dks, name) # 0
  THEN [type |-> "ka", code |-> DK_dksym_to_ka(name)]
  ELSE [type |-> "char", code |-> DK_Bind_from_charbuf(name)]

\* The key of a name: the action of a dead key, or a character.
DK_Key_from_charbuf(name) ==
  IF ucs2[name] = NoCode /\ ByName(DK_dks, name) # 0
  THEN [type |-> "ka", code |-> DK_dksym_to_ka(name)]
  ELSE [type |-> "char", code |-> DK_Bind_from_charbuf(name)]

\* The dead key action that a binding !name calls, -1 if there is none (ka.c).
KA_name_to_id(name) ==
  LET i == ByName(SubSeq(DK_dks, 2, KA_named), name)
  IN IF i = 0 THEN -1 ELSE i

-----------------------------------------------------------------------------
\* The tree.

NewPivot == [alloc |-> MinSize, len |-> 0, keys |-> <<>>, code |-> NoCode]
BindNode(code) == [alloc |-> 0, len |-> 0, keys |-> <<>>, code |-> code]

DK_is_pivotNode(node) == node.alloc > 0

\* Mutant of DK_pivotNode_fetch: the array grows when its used part is past it.
DK_pivotNode_fetch_Late(node, key) ==
  LET len == IF node.len = 0 THEN 2 ELSE node.len + 1
  IN IF \E i \in 1 .. Len(node.keys) : node.keys[i] = key THEN node
     ELSE [node EXCEPT !.len = len, !.keys = Append(@, key),
                       !.alloc = IF @ < len - 1 THEN (@ * 3) \div 2 ELSE @]

\* Mutant of DK_pivotNode_fetch: a key that is there already is not looked for.
DK_pivotNode_fetch_Twice(node, key) ==
  LET len == IF node.len = 0 THEN 2 ELSE node.len + 1
  IN [node EXCEPT !.len = len, !.keys = Append(@, key),
                  !.alloc = IF @ < len THEN (@ * 3) \div 2 ELSE @]

\* A pivot node with a child for the key; the child itself is set by DK_assign.
DK_pivotNode_fetch(node, key) ==
  LET len == IF node.len = 0 THEN 2 ELSE node.len + 1
  IN IF \E i \in 1 .. Len(node.keys) : node.keys[i] = key THEN node
     ELSE [node EXCEPT !.len = len, !.keys = Append(@, key),
                       !.alloc = IF @ < len THEN (@ * 3) \div 2 ELSE @]

\* The pivot node at a path, which is made one if it is not (DK_bindNode_toPivot).
PivotAt(tree, path) ==
  IF path \in DOMAIN tree /\ DK_is_pivotNode(tree[path]) THEN tree[path] ELSE NewPivot

\* Mutant of DK_assign: making a pivot a bind node does not free its children.
DK_assign_NotFreed(tree, path, code) ==
  [q \in DOMAIN tree \cup Prefixes(path) |->
     CASE q = path -> BindNode(code)
       [] IsStrictPrefix(q, path) ->
            DK_pivotNode_fetch(PivotAt(tree, q), path[Len(q) + 1])
       [] OTHER -> tree[q]]

\* Mutant of DK_assign: the pivot nodes are made, the bind node is not.
DK_assign_NoBind(tree, path, code) ==
  [q \in {p \in DOMAIN tree : ~IsStrictPrefix(path, p)} \cup Prefixes(path) |->
     CASE q = path -> NewPivot
       [] IsStrictPrefix(q, path) ->
            DK_pivotNode_fetch(PivotAt(tree, q), path[Len(q) + 1])
       [] OTHER -> tree[q]]

\* Descend along the path, making pivot nodes of those on the way and a bind node
\* of the last, of which what is below is freed (DK_pivotNode_toBind).
DK_assign(tree, path, code) ==
  [q \in {p \in DOMAIN tree : ~IsStrictPrefix(path, p)} \cup Prefixes(path) |->
     CASE q = path -> BindNode(code)
       [] IsStrictPrefix(q, path) ->
            DK_pivotNode_fetch(PivotAt(tree, q), path[Len(q) + 1])
       [] OTHER -> tree[q]]

-----------------------------------------------------------------------------
\* Reading files.

DK_init ==
  /\ DK_dks = <<[sym |-> NoSym, name |-> Multi_key]>>
  /\ DK_cns = <<>>
  /\ DK_tree = [q \in {<<>>} |-> NewPivot]
  /\ DK_code_buf = Unquoted
  /\ KA_named = 1
  /\ reading = "none" /\ lines = 0

Open(kind) ==
  /\ reading = "none" /\ lines < MaxLines
  /\ reading' = kind
  /\ UNCHANGED <<names, DK_tree, DK_code_buf, KA_named, lines>>

\* The end of a key symbol file: its dead keys name the actions that there are.
CloseKeydefs ==
  /\ reading = "keydefs" /\ reading' = "none"
  /\ KA_named' = IF Len(DK_dks) < KA_dkn_count THEN Len(DK_dks) ELSE KA_dkn_count
  /\ UNCHANGED <<names, DK_tree, DK_code_buf, lines>>

CloseCompose ==
  /\ reading = "compose" /\ reading' = "none"
  /\ UNCHANGED <<names, DK_tree, DK_code_buf, KA_named, lines>>

\* Mutant of DK_cns_push: a name is added also if no character was read for it.
DK_cns_push_Zero(name, code) == Append(DK_cns, [name |-> name, code |-> code])

\* The table of characters once the character of a name, if there is one, is added.
DK_cns_push(name, code) ==
  IF code = NoCode THEN DK_cns ELSE Append(DK_cns, [name |-> name, code |-> code])

\* A #define of a key symbol file.  A dead key without a symbol is skipped; an
\* alias, with the symbol of an entry, gets an entry of its own.
DK_read_keydef_line(line) ==
  LET dead == line.name \in DeadNames
      skip == dead /\ line.sym = NoSym
  IN /\ reading = "keydefs" /\ lines < MaxLines
     /\ dead => Len(DK_dks) < DksSize
     /\ DK_dks' = IF dead /\ ~skip
                  THEN Append(DK_dks, [sym |-> line.sym, name |-> line.name])
                  ELSE DK_dks
     /\ DK_cns' = IF skip THEN DK_cns ELSE DK_cns_push(line.name, line.code)
     /\ lines' = lines + 1
     /\ UNCHANGED <<DK_tree, DK_code_buf, KA_named, reading>>

KeysOf(keynames) == [i \in 1 .. Len(keynames) |-> DK_Key_from_charbuf(keynames[i])]

\* A line of a Compose file: only sequences that start with the Compose key or a
\* dead key are assigned; a line without a string assigns the character name
\* that the buffer has from a line before.
DK_read_compose_line(line) ==
  LET buf == IF line.code = Unquoted THEN DK_code_buf ELSE line.code
  IN /\ reading = "compose" /\ lines < MaxLines
     /\ Len(line.keys) <= ReadBufs
     /\ DK_code_buf' = buf
     /\ DK_tree' = IF line.keys # <<>> /\ line.keys[1] \in DeadNames \cup {Multi_key}
                   THEN DK_assign(DK_tree, KeysOf(line.keys),
                          IF buf = Unquoted THEN NoCode ELSE DK_Bind_from_charbuf(buf))
                   ELSE DK_tree
     /\ lines' = lines + 1
     /\ UNCHANGED <<names, KA_named, reading>>

\* A line with more keys than there are buffers ends the reading of the file.
TooManyKeys(line) ==
  /\ reading = "compose" /\ lines < MaxLines
  /\ Len(line.keys) > ReadBufs
  /\ reading' = "none" /\ lines' = lines + 1
  /\ UNCHANGED <<names, DK_tree, DK_code_buf, KA_named>>

Next ==
  \/ Open("keydefs") \/ Open("compose") \/ CloseKeydefs \/ CloseCompose
  \/ \E line \in KeydefLines : DK_read_keydef_line(line)
  \/ \E line \in ComposeLines : DK_read_compose_line(line) \/ TooManyKeys(line)

Spec == DK_init /\ [][Next]_vars
===============================================================================
