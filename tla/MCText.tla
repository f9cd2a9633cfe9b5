-------------------------------- MODULE MCText --------------------------------
(***************************************************************************)
(* An instance of TextProps: all files of a few bytes, read with a buffer  *)
(* that has to grow twice for them.                                        *)
(***************************************************************************)
EXTENDS TextProps

\* A key, what begins a character, an e with an accent, half of it, a number, and what
\* separates, hides and ends; and a byte that files should not have.
MCUnits ==
  {<<Key>>, <<Equals>>, <<195, 169>>, <<195>>, <<117, 52>>, <<Comma>>, <<Space>>, <<Hash>>,
   <<Nl>>, <<Cr, Nl>>, <<Nul>>}
===============================================================================
