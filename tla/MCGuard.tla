------------------------------ MODULE MCGuard ------------------------------
(***************************************************************************)
(* Requests of up to MaxTokens tokens against a few tables that differ in   *)
(* where rules meet, under configurations that turn each knob alone and all *)
(* of them at once.                                                         *)
(***************************************************************************)
EXTENDS Guard

CONSTANTS Vocabulary, MaxTokens

Token(name) ==
  CASE name = "slash"  -> <<47>>
    [] name = ".."     -> <<46, 46>>
    [] name = "semi"   -> <<59>>
    [] name = "back"   -> <<92>>
    [] name = "a"      -> <<97>>
    [] name = "b"      -> <<98>>
    [] name = "A"      -> <<65>>
    [] name = "nul"    -> <<37, 48, 48>>
    [] name = "%2f"    -> <<37, 50, 102>>
    [] name = "%2e"    -> <<37, 50, 101>>
    [] name = "%61"    -> <<37, 54, 49>>
    [] name = "%2561"  -> <<37, 50, 53, 54, 49>>
    [] name = "%3f"    -> <<37, 51, 102>>
    [] name = "wide."  -> <<239, 188, 142>>
    [] name = "wideback" -> <<239, 188, 188>>
    [] name = "%5c"    -> <<37, 53, 99>>
    [] name = "%"      -> <<37>>

MCRequests ==
  {<<Slash>> \o FlattenSeq([k \in DOMAIN s |-> Token(s[k])]) : s \in BoundedSeq(Vocabulary, MaxTokens)}
  \cup {<<Asterisk>>, <<97>>, <<Slash, 97, Question>>}

MCEmpty == << >>
MCStar == <<-1>>
MCSegments == Seq(Byte \ {Slash}) \ {<< >>}
SegA == <<97>>
SegB == <<98>>

ViewOf(rows) ==
  LET T == {[node |-> r[1], slot |-> r[2]] : r \in rows}
  IN  [nodes |-> {<< >>} \cup UNION {{SubSeq(t.node, 1, d) : d \in 0..Len(t.node)} : t \in T},
       rule  |-> [t \in T |-> (CHOOSE r \in rows : r[1] = t.node /\ r[2] = t.slot)[3]]]

Subtree(node, rule) == {<<node, slot, rule>> : slot \in Slots}

\* Literals in front of and behind a wildcard, everything else on a catch-all.
Crossing ==
  {<<<<Star>>, "leaf", 1>>, <<<<SegA>>, "leaf", 2>>, <<<<SegA, Star>>, "leaf", 1>>,
   <<<<Star, SegA>>, "leaf", 2>>, << << >>, "catchall", 1>>}

MCTables == {
  \* one subtree beside an exact path
  ViewOf(Subtree(<<SegA>>, 1) \cup {<<<<SegB>>, "leaf", 2>>}),
  ViewOf(Crossing),
  \* a whole-table subtree with a blocking method gap inside a nested one
  ViewOf({<< << >>, "leaf", 1>>, << << >>, "catchall", 1>>, <<<<SegA>>, "leaf", DENIED_RULE>>,
          <<<<SegB, SegA>>, "leaf", 1>>})}

Off == [overlong_slash |-> FALSE, overlong_dot |-> FALSE, unicode |-> FALSE]
On  == [overlong_slash |-> TRUE,  overlong_dot |-> TRUE,  unicode |-> TRUE]
Conf(mode, wide, two, insensitive, max, probes) ==
  [mode |-> mode, options |-> IF wide THEN {"Backslash", "Query", "Fragment"} ELSE {},
   enc |-> IF wide THEN On ELSE Off, up_to_two |-> two, insensitive |-> insensitive,
   max_len |-> max, probes |-> probes]

MCConfigs ==
  {Conf("RejectAmbiguous", k[1], k[2], k[3], 100, << >>) :
     k \in {<<FALSE, FALSE, FALSE>>, <<TRUE, FALSE, FALSE>>, <<FALSE, TRUE, FALSE>>,
            <<FALSE, FALSE, TRUE>>, <<TRUE, TRUE, TRUE>>}}
  \cup {Conf("RequireCanonical", on, TRUE, on, 100, << >>) : on \in BOOLEAN}
  \cup {Conf(m, FALSE, FALSE, TRUE, 3, p) : m \in {"RejectAmbiguous", "RequireCanonical"}, p \in {<< >>, <<FALSE>>}}
  \cup {Conf("RejectAmbiguous", FALSE, FALSE, FALSE, 100, <<FALSE, TRUE, TRUE>>), Conf("Disabled", FALSE, FALSE, FALSE, 100, << >>)}
=============================================================================
