----------------------------- MODULE KeySequences -----------------------------
(***************************************************************************)
(* What Compose files promise: a map from sequences of keys to characters, *)
(* in which no sequence leads through another one.  A line that assigns a  *)
(* sequence overrides the sequences it leads through or that lead through  *)
(* it; all others keep their character.                                    *)
(***************************************************************************)
EXTENDS Sequences, SequencesExt

VARIABLE meaning    \* [sequence of keys -> character]

Related(s, t) == IsPrefix(s, t) \/ IsPrefix(t, s)

Init == meaning = <<>>

Assign(seq, char) ==
  meaning' = [s \in {t \in DOMAIN meaning : ~Related(t, seq)} \cup {seq} |->
                IF s = seq THEN char ELSE meaning[s]]

Next == \E seq \in DOMAIN meaning' : seq # <<>> /\ Assign(seq, meaning'[seq])

Spec == Init /\ [][Next]_meaning
===============================================================================
