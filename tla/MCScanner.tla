----------------------------- MODULE MCScanner -----------------------------
(***************************************************************************)
(* Every interpretation of every request made of up to MaxTokens tokens.   *)
(* Requests are valid UTF-8, as the code's &str are: overlong bytes come    *)
(* only from escapes, fullwidth forms also raw.                            *)
(***************************************************************************)
EXTENDS Scanner, SequencesExt

CONSTANTS MaxTokens, Vocabulary

Token(name) ==
  CASE name = "slash"   -> <<47>>
    [] name = "dot"     -> <<46>>
    [] name = "semi"    -> <<59>>
    [] name = "back"    -> <<92>>
    [] name = "nul"     -> <<0>>
    [] name = "a"       -> <<97>>
    [] name = "A"       -> <<65>>
    [] name = "%2f"     -> <<37, 50, 102>>
    [] name = "%2e"     -> <<37, 50, 101>>
    [] name = "%3f"     -> <<37, 51, 102>>
    [] name = "%23"     -> <<37, 50, 51>>
    [] name = "%25"     -> <<37, 50, 53>>
    [] name = "2e"      -> <<50, 101>>
    [] name = "%c0%ae"  -> <<37, 99, 48, 37, 97, 101>>
    [] name = "%c0%af"  -> <<37, 99, 48, 37, 97, 102>>
    [] name = "wide."   -> <<239, 188, 142>>
    [] name = "wide/"   -> <<239, 188, 143>>
    [] name = "wide;"   -> <<239, 188, 155>>

Requests ==
  {<<Slash>> \o FlattenSeq([k \in DOMAIN s |-> Token(s[k])]) : s \in BoundedSeq(Vocabulary, MaxTokens)}

DepthView(request, depth) ==
  LET views == Interpretations(request, TRUE) IN views[Lesser(depth, Len(views))]

MCViews == {DepthView(r, d) : r \in Requests, d \in 1..3}

AllOptions == SUBSET {"Backslash", "Query", "Fragment"}
Off == [overlong_slash |-> FALSE, overlong_dot |-> FALSE, unicode |-> FALSE]
On  == [overlong_slash |-> TRUE,  overlong_dot |-> TRUE,  unicode |-> TRUE]

MCConfigs == {[enabled |-> EnabledClasses(o), enc |-> e] : 
                o \in {{}, {"Backslash", "Query", "Fragment"}}, e \in {Off, On}}
=============================================================================
