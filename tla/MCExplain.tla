----------------------------- MODULE MCExplain -----------------------------
(***************************************************************************)
(* The tables, configurations and requests of MCGuard, asked for the verdict *)
(* and then for the unchecked match and the explanation.                   *)
(***************************************************************************)
EXTENDS MCGuard, Explain
=============================================================================
