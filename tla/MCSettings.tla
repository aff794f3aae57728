---------------------------- MODULE MCSettings ----------------------------
(***************************************************************************)
(* Every sequence of a few calls, and requests each of which some class,   *)
(* spelling or probe denies.                                               *)
(***************************************************************************)
EXTENDS Settings

MCEmpty == << >>
MCStar == <<-1>>
MCSegments == Seq(Byte \ {Slash}) \ {<< >>}

\* A subtree beside another rule.
MCTables ==
  {[nodes |-> {<< >>, <<<<97>>>>, <<<<98>>>>},
    rule  |-> [t \in {[node |-> <<<<97>>>>, slot |-> s] : s \in Slots} \cup {[node |-> <<<<98>>>>, slot |-> "leaf"]} |->
                 IF t.node = <<<<97>>>> THEN 1 ELSE 2]]}

MCRequests ==
  {<<47, 97>>,                                          \* /a
   <<47, 97, 92, 46, 46, 47, 98>>,                      \* /a\../b
   <<47, 97, 37, 51, 102>>,                             \* /a%3f
   <<47, 97, 37, 50, 51>>,                              \* /a%23
   <<47, 37, 99, 48, 37, 97, 102>>,                     \* /%c0%af
   <<47, 97, 47, 239, 188, 142, 239, 188, 142, 47, 98>>}  \* /a/../b in fullwidth dots
=============================================================================
