------------------------- MODULE MCInterpretations -------------------------
(***************************************************************************)
(* Small requests over the percent sign and three hex digits: their        *)
(* escapes decode to a percent sign, a slash, an underscore or a raw byte, *)
(* and every incomplete escape occurs.                                     *)
(***************************************************************************)
EXTENDS Interpretations, SequencesExt

CONSTANTS Alphabet, MaxLen

MCRequests == {<<Slash>> \o s : s \in BoundedSeq(Alphabet, MaxLen)}
=============================================================================
