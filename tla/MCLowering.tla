----------------------------- MODULE MCLowering -----------------------------
(***************************************************************************)
(* Every text of the grammar's own bytes up to a length, and short texts   *)
(* of tokens with structure in them, each as a path and as a subtree.      *)
(***************************************************************************)
EXTENDS Lowering

CONSTANTS GrammarBytes, MaxBytes, Vocabulary, MaxTokens

Token(name) ==
  CASE name = "slash"  -> <<47>>
    [] name = ".."     -> <<46, 46>>
    [] name = "semi"   -> <<59>>
    [] name = "?"      -> <<63>>
    [] name = "a"      -> <<97>>
    [] name = "A"      -> <<65>>
    [] name = "%2f"    -> <<37, 50, 102>>
    [] name = "%25"    -> <<37, 50, 53>>
    [] name = "2f"     -> <<50, 102>>
    [] name = "%61"    -> <<37, 54, 49>>
    [] name = "{A}"    -> <<123, 65, 125>>
    [] name = "wide."  -> <<239, 188, 142>>

MCEmpty == << >>
MCStar == <<-1>>
MCSegments == Seq(Byte \ {Slash}) \ {<< >>}

GrammarTexts == {<<Slash>> \o s : s \in BoundedSeq(GrammarBytes, MaxBytes)} \cup {<< >>, <<97>>, <<97, Slash>>}
TokenTexts ==
  {<<Slash>> \o FlattenSeq([k \in DOMAIN s |-> Token(s[k])]) : s \in BoundedSeq(Vocabulary, MaxTokens)}
MCTexts == GrammarTexts \cup TokenTexts

MCRequests == {<<Slash>> \o s : s \in BoundedSeq({Slash, OpenBrace, 97}, 3)}

Conf(mode, wide, insensitive) ==
  [mode |-> mode, options |-> IF wide THEN {"Backslash", "Query", "Fragment"} ELSE {},
   enc |-> [overlong_slash |-> wide, overlong_dot |-> wide, unicode |-> wide],
   up_to_two |-> wide, insensitive |-> insensitive, max_len |-> 100, probes |-> << >>]

MCConfigs == {Conf("RequireCanonical", TRUE, TRUE), Conf("RejectAmbiguous", FALSE, FALSE),
              Conf("Disabled", TRUE, TRUE)}
=============================================================================
