--------------------------- MODULE SettingsProofs ---------------------------
(***************************************************************************)
(* However its calls are ordered, a configuration is what they say: it can *)
(* be read off them, and a call that adds a class, a spelling or a probe   *)
(* only ever denies more.  The first is inductive once the classes in hand *)
(* are read off the calls as well; the second rests on StricterPermits.    *)
(***************************************************************************)
EXTENDS Settings, PathProofs

Names == {"with", "without", "overlong", "fullwidth", "probe", "classes", "mode", "max_len"}
Arguments == Delimiters \cup (SUBSET {"Slash", "Dot"}) \cup BOOLEAN \cup Modes \cup Lengths
Calls == [call : Names, on : Arguments]
ClassSets == [options : SUBSET Delimiters, probes : Seq(BOOLEAN), enc : Encodings]

Typed ==
  /\ classes \in ClassSets
  /\ config \in Config
  /\ calls \in Seq(Calls)

\* Only the classes of a configuration are written in between.
Same(c, d) ==
  /\ c.options = d.options
  /\ c.enc = d.enc
  /\ c.probes = d.probes

-----------------------------------------------------------------------------
(***************************************************************************)
(* Each call, as what it does to the classes and the configuration.        *)
(***************************************************************************)
\* The calls that write the classes, and their opposites' absence aside, only add.
Wrote(c, name, argument, d) ==
  \/ /\ name = "with" /\ argument \in Delimiters
     /\ d.options = c.options \cup {argument} /\ d.enc = c.enc /\ d.probes = c.probes
  \/ /\ name = "without" /\ argument \in Delimiters
     /\ d.options = c.options \ {argument} /\ d.enc = c.enc /\ d.probes = c.probes
  \/ /\ name = "overlong" /\ argument \in SUBSET {"Slash", "Dot"}
     /\ d.options = c.options /\ d.probes = c.probes
     /\ d.enc.overlong_slash <=> (c.enc.overlong_slash \/ "Slash" \in argument)
     /\ d.enc.overlong_dot <=> (c.enc.overlong_dot \/ "Dot" \in argument)
     /\ d.enc.unicode = c.enc.unicode
  \/ /\ name = "fullwidth" /\ argument = {}
     /\ d.options = c.options /\ d.probes = c.probes
     /\ d.enc.overlong_slash = c.enc.overlong_slash /\ d.enc.overlong_dot = c.enc.overlong_dot
     /\ d.enc.unicode
  \/ /\ name = "probe" /\ argument \in BOOLEAN
     /\ d.options = c.options /\ d.enc = c.enc /\ d.probes = Append(c.probes, argument)

\* A call of the classes: written, and the configuration left alone.
OfClasses(name, argument) ==
  /\ calls' = Append(calls, [call |-> name, on |-> argument])
  /\ classes' \in ClassSets
  /\ Wrote(classes, name, argument, classes')
  /\ config' = config

OfTaking ==
  /\ calls' = Append(calls, [call |-> "classes", on |-> {}])
  /\ classes' = DefaultClasses
  /\ config' \in Config
  /\ Same(config', classes)
  /\ config'.mode = config.mode /\ config'.max_len = config.max_len

OfMode(mode) ==
  /\ calls' = Append(calls, [call |-> "mode", on |-> mode])
  /\ classes' = classes
  /\ config' \in Config
  /\ Same(config', config)
  /\ config'.mode = mode /\ config'.max_len = config.max_len

OfLength(n) ==
  /\ calls' = Append(calls, [call |-> "max_len", on |-> n])
  /\ classes' = classes
  /\ config' \in Config
  /\ Same(config', config)
  /\ config'.mode = config.mode /\ config'.max_len = n

\* One step is one of these calls.
LEMMA EveryCall ==
  ASSUME Typed, Next
  PROVE  \/ \E name \in Names, argument \in Arguments : OfClasses(name, argument)
         \/ OfTaking
         \/ \E mode \in Modes : OfMode(mode)
         \/ \E n \in Lengths : OfLength(n)
<1> USE DEF Typed, ClassSets, Config
<1>1. /\ classes.options \in SUBSET Delimiters /\ classes.enc \in Encodings
      /\ classes.probes \in Seq(BOOLEAN)
      /\ classes = [options |-> classes.options, probes |-> classes.probes, enc |-> classes.enc]
  OBVIOUS
<1>2. /\ classes.enc.overlong_slash \in BOOLEAN /\ classes.enc.overlong_dot \in BOOLEAN
      /\ classes.enc.unicode \in BOOLEAN
      /\ classes.enc = [overlong_slash |-> classes.enc.overlong_slash,
                        overlong_dot |-> classes.enc.overlong_dot, unicode |-> classes.enc.unicode]
  BY DEF Encodings
<1>3. ASSUME NEW d \in Delimiters, WithDelimiter(d)
      PROVE  OfClasses("with", d)
  <2>1. classes' = [options |-> classes.options \cup {d}, probes |-> classes.probes, enc |-> classes.enc]
    BY <1>3, <1>1 DEF WithDelimiter
  <2>2. classes' \in ClassSets
    BY <2>1, <1>1
  <2>3. Wrote(classes, "with", d, classes')
    BY <2>1 DEF Wrote
  <2> QED BY <1>3, <2>2, <2>3 DEF WithDelimiter, Call, OfClasses
<1>4. ASSUME NEW d \in Delimiters, WithoutDelimiter(d)
      PROVE  OfClasses("without", d)
  <2>1. classes' = [options |-> classes.options \ {d}, probes |-> classes.probes, enc |-> classes.enc]
    BY <1>4, <1>1 DEF WithoutDelimiter
  <2>2. classes' \in ClassSets
    BY <2>1, <1>1
  <2>3. Wrote(classes, "without", d, classes')
    BY <2>1 DEF Wrote
  <2> QED BY <1>4, <2>2, <2>3 DEF WithoutDelimiter, Call, OfClasses
<1>5. ASSUME NEW chars \in SUBSET {"Slash", "Dot"}, WithOverlong(chars)
      PROVE  OfClasses("overlong", chars)
  <2>1. PICK s, d : /\ s = (classes.enc.overlong_slash \/ "Slash" \in chars)
                    /\ d = (classes.enc.overlong_dot \/ "Dot" \in chars)
    OBVIOUS
  <2>2. PICK e : e = [overlong_slash |-> s, overlong_dot |-> d, unicode |-> classes.enc.unicode]
    OBVIOUS
  <2>3. e \in Encodings
    <3>1. s \in BOOLEAN /\ d \in BOOLEAN
      BY <2>1, Zenon
    <3> QED BY <3>1, <2>2, <1>2, SMT DEF Encodings
  <2>6. classes' = [options |-> classes.options, probes |-> classes.probes, enc |-> e]
    <3>1. classes' = [classes EXCEPT !.enc.overlong_slash = s, !.enc.overlong_dot = d]
      BY <1>5, <2>1, Zenon DEF WithOverlong
    <3>2. PICK m : m = [classes EXCEPT !.enc.overlong_slash = s]
      OBVIOUS
    <3>3. /\ m = [options |-> classes.options, probes |-> classes.probes, enc |-> m.enc]
          /\ m.enc = [overlong_slash |-> s, overlong_dot |-> classes.enc.overlong_dot,
                      unicode |-> classes.enc.unicode]
      BY <3>2, <1>1, <1>2, SMT
    <3>4. classes' = [m EXCEPT !.enc.overlong_dot = d]
      BY <3>1, <3>2, SMT
    <3> QED BY <3>3, <3>4, <2>2, SMT
  <2>4. classes' \in ClassSets
    BY <2>3, <2>6, <1>1
  <2>5. Wrote(classes, "overlong", chars, classes')
    <3>1. classes'.options = classes.options /\ classes'.probes = classes.probes /\ classes'.enc = e
      BY <2>6
    <3>2. e.overlong_slash = s /\ e.overlong_dot = d /\ e.unicode = classes.enc.unicode
      BY <2>2, SMT
    <3> QED BY <3>1, <3>2, <2>1, Zenon DEF Wrote
  <2> QED BY <1>5, <2>4, <2>5 DEF WithOverlong, Call, OfClasses
<1>6. ASSUME WithFullwidthStructure
      PROVE  OfClasses("fullwidth", {})
  <2>1. PICK e : e = [overlong_slash |-> classes.enc.overlong_slash,
                      overlong_dot   |-> classes.enc.overlong_dot,
                      unicode        |-> TRUE]
    OBVIOUS
  <2>2. e \in Encodings
    BY <2>1, <1>2 DEF Encodings
  <2>3. classes' = [options |-> classes.options, probes |-> classes.probes, enc |-> e]
    <3>1. PICK yes : yes = TRUE
      OBVIOUS
    <3>2. classes' = [classes EXCEPT !.enc.unicode = yes]
      BY <1>6, <3>1, Zenon DEF WithFullwidthStructure
    <3>3. e = [overlong_slash |-> classes.enc.overlong_slash,
               overlong_dot |-> classes.enc.overlong_dot, unicode |-> yes]
      BY <2>1, <3>1, Zenon
    <3> QED BY <3>2, <3>3, <1>1, <1>2, SMT
  <2>4. classes' \in ClassSets
    BY <2>2, <2>3, <1>1
  <2>5. Wrote(classes, "fullwidth", {}, classes')
    <3>1. classes'.options = classes.options /\ classes'.probes = classes.probes /\ classes'.enc = e
      BY <2>3
    <3>2. /\ e.overlong_slash = classes.enc.overlong_slash /\ e.overlong_dot = classes.enc.overlong_dot
          /\ e.unicode
      BY <2>1
    <3> QED BY <3>1, <3>2, Zenon DEF Wrote
  <2> QED BY <1>6, <2>4, <2>5 DEF WithFullwidthStructure, Call, OfClasses
<1>7. ASSUME NEW matches \in BOOLEAN, WithProbe(matches)
      PROVE  OfClasses("probe", matches)
  <2>1. classes' = [options |-> classes.options, probes |-> Append(classes.probes, matches), enc |-> classes.enc]
    BY <1>7, <1>1 DEF WithProbe
  <2>2. classes' \in ClassSets
    BY <2>1, <1>1
  <2>3. Wrote(classes, "probe", matches, classes')
    BY <2>1 DEF Wrote
  <2> QED BY <1>7, <2>2, <2>3 DEF WithProbe, Call, OfClasses
<1>8. Delimiters = {"Backslash", "Query", "Fragment"}
  BY DEF Delimiters
<1>9. ASSUME WithStructuralClasses
      PROVE  OfTaking
  <2>1. config' = [[[config EXCEPT !.options = classes.options] EXCEPT !.enc = classes.enc]
                     EXCEPT !.probes = classes.probes]
    BY <1>9 DEF WithStructuralClasses
  <2>2. config' \in Config
    BY <2>1, <1>1, <1>8
  <2>3. /\ Same(config', classes)
        /\ config'.mode = config.mode /\ config'.max_len = config.max_len
    BY <2>1 DEF Same
  <2> QED BY <1>9, <2>2, <2>3 DEF WithStructuralClasses, Call, OfTaking
<1>10. ASSUME NEW mode \in Modes, WithMode(mode)
       PROVE  OfMode(mode)
  <2>1. config' = [config EXCEPT !.mode = mode] /\ classes' = classes
    BY <1>10 DEF WithMode
  <2>2. config' \in Config
    BY <2>1
  <2>3. /\ Same(config', config)
        /\ config'.mode = mode /\ config'.max_len = config.max_len
    BY <2>1 DEF Same
  <2> QED BY <1>10, <2>1, <2>2, <2>3 DEF WithMode, Call, OfMode
<1>11. ASSUME NEW n \in Lengths, WithMaxAnalysisPathLen(n)
       PROVE  OfLength(n)
  <2>1. config' = [config EXCEPT !.max_len = n] /\ classes' = classes
    BY <1>11 DEF WithMaxAnalysisPathLen
  <2>2. config' \in Config
    BY <2>1, LengthsAssumption
  <2>3. /\ Same(config', config)
        /\ config'.mode = config.mode /\ config'.max_len = n
    BY <2>1 DEF Same
  <2> QED BY <1>11, <2>1, <2>2, <2>3 DEF WithMaxAnalysisPathLen, Call, OfLength
<1>12. \A name \in {"with", "without", "overlong", "fullwidth", "probe"} : name \in Names
  BY DEF Names
<1>13. \A x : x \in Delimiters \/ x \in SUBSET {"Slash", "Dot"} \/ x \in BOOLEAN => x \in Arguments
  BY DEF Arguments
<1>14. \A chars \in {{"Slash"}, {"Dot"}, {"Slash", "Dot"}} : chars \in SUBSET {"Slash", "Dot"}
  OBVIOUS
<1>15. {} \in SUBSET {"Slash", "Dot"}
  OBVIOUS
<1>16. CASE \E d \in Delimiters : WithDelimiter(d) \/ WithoutDelimiter(d)
  BY <1>16, <1>3, <1>4, <1>12, <1>13
<1>17. CASE \E chars \in {{"Slash"}, {"Dot"}, {"Slash", "Dot"}} : WithOverlong(chars)
  BY <1>17, <1>5, <1>12, <1>13, <1>14
<1>18. CASE WithFullwidthStructure
  BY <1>18, <1>6, <1>12, <1>13, <1>15
<1>19. CASE \E matches \in BOOLEAN : WithProbe(matches)
  BY <1>19, <1>7, <1>12, <1>13
<1> QED BY <1>9, <1>10, <1>11, <1>16, <1>17, <1>18, <1>19 DEF Next

\* Every reachable configuration, and what is being written, has its type.
LEMMA TypedInvariance == Spec => []Typed
<1>1. ASSUME Init PROVE Typed
  <2>1. DefaultClasses.enc \in Encodings
    BY DEF DefaultClasses, Encodings
  <2>2. DefaultClasses \in ClassSets
    BY <2>1 DEF ClassSets, DefaultClasses, Encodings
  <2>3. << >> \in Seq(Calls)
    BY EmptySeq
  <2>4. PICK insensitive \in BOOLEAN, up_to_two \in BOOLEAN : config = NewConfig(insensitive, up_to_two)
    BY <1>1 DEF Init
  <2>5. DefaultClasses.options = {"Backslash", "Query", "Fragment"} /\ DefaultClasses.probes = << >>
    BY DEF DefaultClasses, Delimiters
  <2>6. << >> \in Seq(BOOLEAN) /\ 8192 \in Nat
    BY EmptySeq
  <2>7. config \in Config
    BY <2>1, <2>4, <2>5, <2>6 DEF Config, NewConfig, Modes
  <2> QED BY <1>1, <2>2, <2>3, <2>7 DEF Init, Typed
<1>2. ASSUME Typed, [Next]_vars PROVE Typed'
  <2>1. \A name \in Names, argument \in Arguments : [call |-> name, on |-> argument] \in Calls
    BY DEF Calls
  <2>2. "classes" \in Names /\ "mode" \in Names /\ "max_len" \in Names
    BY DEF Names
  <2>3. {} \in Arguments /\ (\A mode \in Modes : mode \in Arguments) /\ \A n \in Lengths : n \in Arguments
    BY DEF Arguments
  <2>4. \A x \in Calls : Append(calls, x) \in Seq(Calls)
    BY <1>2 DEF Typed
  <2>5. ASSUME NEW name \in Names, NEW argument \in Arguments, OfClasses(name, argument)
        PROVE  Typed'
    BY <1>2, <2>1, <2>4, <2>5 DEF Typed, OfClasses
  <2>6. ASSUME OfTaking PROVE Typed'
    <3>1. DefaultClasses.enc \in Encodings
      BY DEF DefaultClasses, Encodings
    <3>2. DefaultClasses \in ClassSets
      BY <3>1 DEF ClassSets, DefaultClasses, Encodings
    <3> QED BY <1>2, <2>1, <2>2, <2>3, <2>4, <2>6, <3>2 DEF Typed, OfTaking
  <2>7. ASSUME NEW mode \in Modes, OfMode(mode) PROVE Typed'
    BY <1>2, <2>1, <2>2, <2>3, <2>4, <2>7 DEF Typed, OfMode
  <2>8. ASSUME NEW n \in Lengths, OfLength(n) PROVE Typed'
    BY <1>2, <2>1, <2>2, <2>3, <2>4, <2>8 DEF Typed, OfLength
  <2>9. CASE UNCHANGED vars
    BY <1>2, <2>9 DEF Typed, vars
  <2> QED BY <1>2, <2>5, <2>6, <2>7, <2>8, <2>9, EveryCall
<1> QED BY <1>1, <1>2, PTL DEF Spec

-----------------------------------------------------------------------------
(***************************************************************************)
(* Adding only denies.                                                     *)
(***************************************************************************)
\* The configuration g with the classes c.
With(g, c) ==
  [mode |-> g.mode, options |-> c.options, enc |-> c.enc, up_to_two |-> g.up_to_two,
   insensitive |-> g.insensitive, max_len |-> g.max_len, probes |-> c.probes]

LEMMA TakenIsWith ==
  ASSUME NEW g \in Config, NEW c \in ClassSets
  PROVE  /\ [g EXCEPT !.options = c.options, !.enc = c.enc, !.probes = c.probes] = With(g, c)
         /\ With(g, c) \in Config
<1>1. /\ c.options \in SUBSET {"Backslash", "Query", "Fragment"} /\ c.enc \in Encodings
      /\ c.probes \in Seq(BOOLEAN)
  BY DEF ClassSets, Delimiters
<1>2. /\ g.mode \in Modes /\ g.up_to_two \in BOOLEAN /\ g.insensitive \in BOOLEAN /\ g.max_len \in Nat
  BY DEF Config
<1>3. [g EXCEPT !.options = c.options, !.enc = c.enc, !.probes = c.probes] = With(g, c)
  <2>1. PICK o, e, p : o = c.options /\ e = c.enc /\ p = c.probes
    OBVIOUS
  <2>2. PICK m, u, s, n : m = g.mode /\ u = g.up_to_two /\ s = g.insensitive /\ n = g.max_len
    OBVIOUS
  <2>3. g = [mode |-> m, options |-> g.options, enc |-> g.enc, up_to_two |-> u,
             insensitive |-> s, max_len |-> n, probes |-> g.probes]
    BY <2>2 DEF Config
  <2>4. PICK g1 : g1 = [g EXCEPT !.options = o]
    OBVIOUS
  <2>5. g1 = [mode |-> m, options |-> o, enc |-> g.enc, up_to_two |-> u,
              insensitive |-> s, max_len |-> n, probes |-> g.probes]
    BY <2>3, <2>4, SMT
  <2>6. PICK g2 : g2 = [g1 EXCEPT !.enc = e]
    OBVIOUS
  <2>7. g2 = [mode |-> m, options |-> o, enc |-> e, up_to_two |-> u,
              insensitive |-> s, max_len |-> n, probes |-> g.probes]
    BY <2>5, <2>6, SMT
  <2>8. [g2 EXCEPT !.probes = p] =
          [mode |-> m, options |-> o, enc |-> e, up_to_two |-> u, insensitive |-> s, max_len |-> n, probes |-> p]
    BY <2>7, SMT
  <2>9. [g EXCEPT !.options = o, !.enc = e, !.probes = p] = [g2 EXCEPT !.probes = p]
    BY <2>4, <2>6
  <2> QED BY <2>1, <2>2, <2>8, <2>9, Zenon DEF With
<1> QED BY <1>1, <1>2, <1>3 DEF Config, With

\* With more delimiters, spellings or probes every knob is at least as strict.
LEMMA AddedIsStricter ==
  ASSUME NEW g \in Config, NEW c \in ClassSets, NEW d \in ClassSets,
         NEW name \in {"with", "overlong", "fullwidth", "probe"}, NEW argument,
         Wrote(c, name, argument, d)
  PROVE  AtLeastAsStrict(With(g, d), With(g, c))
<1>1. c.options \subseteq d.options
  BY Zenon DEF Wrote
<1>2. \A e \in DOMAIN c.enc : c.enc[e] => d.enc[e]
  <2>1. c.enc \in Encodings
    BY DEF ClassSets
  <2>2. DOMAIN c.enc = {"overlong_slash", "overlong_dot", "unicode"}
    BY <2>1 DEF Encodings
  <2>3. CASE d.enc = c.enc
    BY <2>3
  <2>4. CASE /\ c.enc.overlong_slash => d.enc.overlong_slash
             /\ c.enc.overlong_dot => d.enc.overlong_dot
             /\ c.enc.unicode => d.enc.unicode
    BY <2>2, <2>4
  <2> QED BY <2>3, <2>4, Zenon DEF Wrote
<1>3. IsPrefix(c.probes, d.probes)
  <2>1. PICK p : p = c.probes
    OBVIOUS
  <2>2. p \in Seq(BOOLEAN)
    BY <2>1 DEF ClassSets
  <2>3. IsPrefix(p, p)
    BY <2>2 DEF IsPrefix
  <2>4. \A x \in BOOLEAN : IsPrefix(p, Append(p, x))
    BY <2>2 DEF IsPrefix
  <2>5. d.probes = p \/ \E x \in BOOLEAN : d.probes = Append(p, x)
    BY <2>1, Zenon DEF Wrote
  <2> QED BY <2>1, <2>3, <2>4, <2>5, Zenon
<1>4. g.max_len \in Nat
  BY DEF Config
<1>5. g.max_len <= g.max_len
  BY <1>4
<1> QED BY <1>1, <1>2, <1>3, <1>5, Zenon DEF AtLeastAsStrict, With

\* A call that adds a class, a spelling or a probe can only ever deny more: no request
\* answered under the classes after it was denied under the ones before
\* (structural_classes in config.rs).
THEOREM AddingAlwaysDenies == Spec => AddingOnlyDenies
<1>1. ASSUME Typed, Next, classes' # classes,
             Last(calls').call \in {"with", "overlong", "fullwidth", "probe"},
             NEW table \in Tables, NEW request \in Requests, Permits(table, Taken', request)
      PROVE  Permits(table, Taken, request)
  <2>1. \A x \in Calls : Last(Append(calls, x)) = x
    BY <1>1 DEF Typed, Last
  <2>2. PICK name \in Names, argument \in Arguments : OfClasses(name, argument)
    <3>1. ~OfTaking
      <4>1. [call |-> "classes", on |-> {}] \in Calls
        BY DEF Calls, Names, Arguments
      <4>2. ASSUME OfTaking PROVE Last(calls').call = "classes"
        <5>1. PICK x : x = [call |-> "classes", on |-> {}]
          OBVIOUS
        <5>2. Last(calls') = x
          BY <2>1, <4>1, <4>2, <5>1, Zenon DEF OfTaking
        <5> QED BY <5>1, <5>2, SMT
      <4> QED BY <1>1, <4>2
    <3>2. /\ \A mode \in Modes : ~OfMode(mode)
          /\ \A n \in Lengths : ~OfLength(n)
      BY <1>1 DEF OfMode, OfLength
    <3> QED BY <1>1, <3>1, <3>2, EveryCall
  <2>3. name \in {"with", "overlong", "fullwidth", "probe"}
    <3>1. [call |-> name, on |-> argument] \in Calls
      BY DEF Calls
    <3>2. Last(calls') = [call |-> name, on |-> argument]
      BY <2>1, <2>2, <3>1 DEF OfClasses
    <3> QED BY <1>1, <3>2
  <2>4. PICK g, c, d : g = config /\ c = classes /\ d = classes'
    OBVIOUS
  <2>5. /\ g \in Config /\ c \in ClassSets /\ d \in ClassSets
        /\ Wrote(c, name, argument, d) /\ config' = g
    BY <1>1, <2>2, <2>4 DEF Typed, OfClasses
  <2>6. Taken = With(g, c) /\ Taken' = With(g, d) /\ With(g, c) \in Config /\ With(g, d) \in Config
    BY <2>4, <2>5, TakenIsWith, Zenon DEF Taken
  <2>7. AtLeastAsStrict(With(g, d), With(g, c))
    BY <2>3, <2>5, AddedIsStricter
  <2>8. IsView(table) /\ request \in Seq(Byte) /\ request # << >> /\ Len(request) < NoOffset
    BY TablesAssumption, RequestsAssumption
  <2>9. /\ With(g, d).mode = With(g, c).mode
        /\ With(g, d).insensitive = With(g, c).insensitive
    BY DEF With
  <2>10. ~FoldedAway(table, With(g, d), With(g, c), request)
    BY <2>9 DEF FoldedAway
  <2>11. ~StrayPercentOverBudget(With(g, d), With(g, c), request)
    BY <2>9 DEF StrayPercentOverBudget
  <2> QED BY <1>1, <2>6, <2>7, <2>8, <2>10, <2>11, StricterPermits
<1>2. Typed /\ [Next]_vars =>
        [(classes' # classes /\ Last(calls').call \in {"with", "overlong", "fullwidth", "probe"}) =>
           \A table \in Tables, request \in Requests :
             Permits(table, Taken', request) => Permits(table, Taken, request)]_vars
  BY <1>1
<1> QED BY <1>2, TypedInvariance, PTL DEF Spec, AddingOnlyDenies

-----------------------------------------------------------------------------
(***************************************************************************)
(* One more call, and what can be read off the calls.                      *)
(***************************************************************************)
LEMMA LastAmongIs ==
  ASSUME NEW n \in Nat, NEW S \in SUBSET (1..n), NEW m \in S \cup {0}, \A j \in S : j <= m
  PROVE  LastAmong(S) = m
<1>1. \A k \in S : k \in Nat /\ 1 <= k
  OBVIOUS
<1>2. ASSUME NEW k \in S \cup {0}, \A j \in S : j <= k PROVE k = m
  <2>1. CASE S = {}
    BY <2>1, <1>2
  <2>2. CASE S # {}
    <3>1. k # 0 /\ m # 0
      <4>1. PICK j \in S : TRUE
        BY <2>2
      <4> QED BY <1>1, <1>2, <4>1
    <3>2. k \in S /\ m \in S
      BY <3>1
    <3> QED BY <3>2, <1>1, <1>2
  <2> QED BY <2>1, <2>2
<1> QED BY <1>2 DEF LastAmong

LEMMA LastAmongExists ==
  ASSUME NEW n \in Nat, NEW S \in SUBSET (1..n)
  PROVE  LastAmong(S) \in S \cup {0} /\ (\A j \in S : j <= LastAmong(S)) /\ LastAmong(S) \in 0..n
<1>1. \E m \in S \cup {0} : \A j \in S : j <= m
  <2>1. CASE S = {}
    BY <2>1
  <2>2. CASE S # {}
    BY <2>2, GreatestNatural
  <2> QED BY <2>1, <2>2
<1>2. PICK m \in S \cup {0} : \A j \in S : j <= m
  BY <1>1
<1>3. LastAmong(S) = m
  BY <1>2, LastAmongIs
<1>4. m \in 0..n
  OBVIOUS
<1> QED BY <1>2, <1>3, <1>4

\* The places of the calls already made keep, and there is one more.
LEMMA Appended ==
  ASSUME NEW s \in Seq(Calls), NEW x \in Calls
  PROVE  /\ Append(s, x) \in Seq(Calls) /\ Len(Append(s, x)) = Len(s) + 1 /\ Len(s) \in Nat
         /\ \A k \in 1..Len(s) : Append(s, x)[k] = s[k]
         /\ Append(s, x)[Len(s) + 1] = x
         /\ DOMAIN s = 1..Len(s) /\ DOMAIN Append(s, x) = 1..(Len(s) + 1)
OBVIOUS

LEMMA IndicesAppended ==
  ASSUME NEW s \in Seq(Calls), NEW x \in Calls, NEW names
  PROVE  /\ Indices(s, names) \in SUBSET (1..Len(s))
         /\ x.call \in names => Indices(Append(s, x), names) = Indices(s, names) \cup {Len(s) + 1}
         /\ x.call \notin names => Indices(Append(s, x), names) = Indices(s, names)
<1>1. PICK n \in Nat : n = Len(s)
  OBVIOUS
<1>2. PICK z : z = Append(s, x)
  OBVIOUS
<1>3. /\ \A k \in 1..n : z[k] = s[k]
      /\ z[n + 1] = x /\ DOMAIN s = 1..n /\ DOMAIN z = 1..(n + 1)
  BY <1>1, <1>2, Appended
<1>4. 1..(n + 1) = 1..n \cup {n + 1} /\ n + 1 \notin 1..n
  OBVIOUS
<1>5. Indices(s, names) \in SUBSET (1..n)
  BY <1>3 DEF Indices
<1>6. \A k : k \in Indices(z, names) <=> (k \in Indices(s, names) \/ (k = n + 1 /\ x.call \in names))
  BY <1>3, <1>4 DEF Indices
<1> QED BY <1>1, <1>2, <1>5, <1>6

LEMMA LastOfAppended ==
  ASSUME NEW s \in Seq(Calls), NEW x \in Calls, NEW name, NEW default
  PROVE  /\ x.call = name => LastOf(Append(s, x), name, default) = x.on
         /\ x.call # name => LastOf(Append(s, x), name, default) = LastOf(s, name, default)
<1>1. PICK n \in Nat : n = Len(s)
  OBVIOUS
<1>2. PICK z : z = Append(s, x)
  OBVIOUS
<1>3. (\A k \in 1..n : z[k] = s[k]) /\ z[n + 1] = x
  BY <1>1, <1>2, Appended
<1>4. PICK I : I = Indices(s, {name})
  OBVIOUS
<1>5. I \in SUBSET (1..n)
  BY <1>1, <1>4, IndicesAppended
<1>6. ASSUME x.call = name PROVE LastOf(z, name, default) = x.on
  <2>1. Indices(z, {name}) = I \cup {n + 1}
    BY <1>1, <1>2, <1>4, <1>6, IndicesAppended
  <2>2. LastAmong(I \cup {n + 1}) = n + 1
    <3>1. PICK J, m : J = I \cup {n + 1} /\ m = n + 1
      OBVIOUS
    <3>2. \A j \in I : j \in 1..n
      BY <1>5
    <3>3. m \in Nat /\ J \in SUBSET (1..m) /\ m \in J \cup {0} /\ \A j \in J : j <= m
      BY <3>1, <3>2
    <3> QED BY <3>1, <3>3, LastAmongIs
  <2> QED BY <1>3, <2>1, <2>2 DEF LastOf
<1>7. ASSUME x.call # name PROVE LastOf(z, name, default) = LastOf(s, name, default)
  <2>1. Indices(z, {name}) = I
    BY <1>1, <1>2, <1>4, <1>7, IndicesAppended
  <2>2. CASE I = {}
    BY <1>4, <2>1, <2>2 DEF LastOf
  <2>3. CASE I # {}
    <3>1. LastAmong(I) \in I \cup {0} /\ \A j \in I : j <= LastAmong(I)
      BY <1>5, LastAmongExists
    <3>2. LastAmong(I) \in 1..n
      <4>1. \A j \in I : j \in 1..n
        BY <1>5
      <4>2. PICK j \in I : TRUE
        BY <2>3
      <4>3. LastAmong(I) # 0
        BY <3>1, <4>1, <4>2
      <4> QED BY <3>1, <4>1, <4>3
    <3> QED BY <1>3, <1>4, <2>1, <3>2 DEF LastOf
  <2> QED BY <2>2, <2>3
<1> QED BY <1>2, <1>6, <1>7

LEMMA TakenTyped ==
  ASSUME NEW s \in Seq(Calls)
  PROVE  TakenAt(s) \in 0..Len(s) /\ TakenBefore(s) \in 0..Len(s)
<1>a. PICK n \in Nat : n = Len(s) /\ DOMAIN s = 1..n
  OBVIOUS
<1>b. PICK I : I = Indices(s, {"classes"})
  OBVIOUS
<1>1. n = Len(s) /\ I = Indices(s, {"classes"}) /\ DOMAIN s = 1..n
  BY <1>a, <1>b
<1>2. I \in SUBSET (1..n)
  BY <1>1 DEF Indices
<1>3. {k \in I : k < TakenAt(s)} \in SUBSET (1..n)
  BY <1>2
<1> QED BY <1>1, <1>2, <1>3, LastAmongExists DEF TakenAt, TakenBefore

\* Only a taking-in moves the places between which the configuration is read.
LEMMA TakenAppended ==
  ASSUME NEW s \in Seq(Calls), NEW x \in Calls
  PROVE  /\ x.call # "classes" => /\ TakenAt(Append(s, x)) = TakenAt(s)
                                  /\ TakenBefore(Append(s, x)) = TakenBefore(s)
         /\ x.call = "classes" => /\ TakenAt(Append(s, x)) = Len(s) + 1
                                  /\ TakenBefore(Append(s, x)) = TakenAt(s)
<1>a. PICK n \in Nat : n = Len(s)
  OBVIOUS
<1>b. PICK I : I = Indices(s, {"classes"})
  OBVIOUS
<1>1. n = Len(s) /\ I = Indices(s, {"classes"})
  BY <1>a, <1>b
<1>2. PICK z : z = Append(s, x)
  OBVIOUS
<1>3. I \in SUBSET (1..n)
  BY <1>1, IndicesAppended
<1>4. CASE x.call # "classes"
  <2>1. Indices(z, {"classes"}) = I
    BY <1>1, <1>2, <1>4, IndicesAppended
  <2> QED BY <1>1, <1>2, <1>4, <2>1 DEF TakenAt, TakenBefore
<1>5. CASE x.call = "classes"
  <2>1. Indices(z, {"classes"}) = I \cup {n + 1}
    BY <1>1, <1>2, <1>5, IndicesAppended
  <2>2. LastAmong(I \cup {n + 1}) = n + 1
    <3>1. PICK J, m : J = I \cup {n + 1} /\ m = n + 1
      OBVIOUS
    <3>2. \A j \in I : j \in 1..n
      BY <1>3
    <3>3. m \in Nat /\ J \in SUBSET (1..m) /\ m \in J \cup {0} /\ \A j \in J : j <= m
      BY <3>1, <3>2
    <3> QED BY <3>1, <3>3, LastAmongIs
  <2>3. {k \in I \cup {n + 1} : k < n + 1} = I
    <3>1. \A j \in I : j \in Int /\ j < n + 1
      BY <1>3
    <3> QED BY <1>1, <3>1
  <2> QED BY <1>1, <1>2, <1>5, <2>1, <2>2, <2>3 DEF TakenAt, TakenBefore
<1> QED BY <1>4, <1>5

\* What was read before a place is read there still.
LEMMA WithinKept ==
  ASSUME NEW s \in Seq(Calls), NEW x \in Calls, NEW names, NEW since \in Nat, NEW until \in 0..(Len(s) + 1)
  PROVE  /\ Within(Append(s, x), names, since, until) = Within(s, names, since, until)
         /\ Within(s, names, since, until) \in SUBSET (1..Len(s))
<1>a. PICK n \in Nat : n = Len(s)
  OBVIOUS
<1>b. PICK z : z = Append(s, x)
  OBVIOUS
<1>1. n = Len(s) /\ z = Append(s, x)
  BY <1>a, <1>b
<1>2. \A k : k \in Indices(z, names) /\ k < until <=> k \in Indices(s, names) /\ k < until
  BY <1>1, IndicesAppended
<1>3. Indices(s, names) \in SUBSET (1..n)
  BY <1>1, IndicesAppended
<1> QED BY <1>1, <1>2, <1>3 DEF Within

LEMMA WrittenKept ==
  ASSUME NEW s \in Seq(Calls), NEW x \in Calls, NEW since \in Nat, NEW until \in 0..(Len(s) + 1),
         NEW c, NEW d, Same(d, c), Written(s, c, since, until)
  PROVE  Written(Append(s, x), d, since, until)
<1>a. PICK n \in Nat : n = Len(s)
  OBVIOUS
<1>b. PICK z : z = Append(s, x)
  OBVIOUS
<1>1. n = Len(s) /\ z = Append(s, x)
  BY <1>a, <1>b
<1>2. \A k \in 1..n : z[k] = s[k]
  BY <1>1, Appended
<1>3. \A names : /\ Within(z, names, since, until) = Within(s, names, since, until)
                 /\ Within(s, names, since, until) \in SUBSET (1..n)
  BY <1>1, WithinKept
<1>4. OptionsOf(z, since, until) = OptionsOf(s, since, until)
  <2>1. PICK W : W = Within(s, {"with", "without"}, since, until)
    OBVIOUS
  <2>2. W = Within(z, {"with", "without"}, since, until) /\ \A k \in W : z[k] = s[k]
    BY <1>2, <1>3, <2>1
  <2>3. \A d1 : {k \in W : z[k].on = d1} = {k \in W : s[k].on = d1}
    BY <2>2
  <2> QED BY <2>1, <2>2, <2>3, Zenon DEF OptionsOf
<1>5. SpellingsOf(z, since, until) = SpellingsOf(s, since, until)
  <2>1. PICK W : W = Within(s, {"overlong"}, since, until)
    OBVIOUS
  <2>2. W = Within(z, {"overlong"}, since, until) /\ \A k \in W : z[k] = s[k]
    BY <1>2, <1>3, <2>1
  <2>3. UNION {z[k].on : k \in W} = UNION {s[k].on : k \in W}
    BY <2>2
  <2> QED BY <2>1, <2>2, <2>3 DEF SpellingsOf
<1>6. ASSUME NEW p, AreProbesOf(p, s, since, until) PROVE AreProbesOf(p, z, since, until)
  <2>1. PICK W : W = Within(s, {"probe"}, since, until)
    OBVIOUS
  <2>2. W = Within(z, {"probe"}, since, until) /\ \A k \in W : z[k] = s[k]
    BY <1>2, <1>3, <2>1
  <2> QED BY <1>6, <2>1, <2>2 DEF AreProbesOf
<1>7. AreProbesOf(d.probes, z, since, until)
  BY <1>6 DEF Written, Same
<1>8. Within(z, {"fullwidth"}, since, until) = Within(s, {"fullwidth"}, since, until)
  BY <1>3
<1> QED BY <1>1, <1>4, <1>5, <1>7, <1>8, Zenon DEF Written, Same

\* A call is read with the ones before it.
LEMMA WithinExtended ==
  ASSUME NEW s \in Seq(Calls), NEW x \in Calls, NEW names, NEW since \in 0..Len(s)
  PROVE  /\ Within(s, names, since, Len(s) + 1) \in SUBSET (1..Len(s))
         /\ x.call \in names => Within(Append(s, x), names, since, Len(s) + 2) =
                                  Within(s, names, since, Len(s) + 1) \cup {Len(s) + 1}
         /\ x.call \notin names => Within(Append(s, x), names, since, Len(s) + 2) =
                                     Within(s, names, since, Len(s) + 1)
<1>a. PICK n \in Nat : n = Len(s)
  OBVIOUS
<1>b. PICK z : z = Append(s, x)
  OBVIOUS
<1>1. n = Len(s) /\ z = Append(s, x)
  BY <1>a, <1>b
<1>2. PICK I : I = Indices(s, names)
  OBVIOUS
<1>3. \A j \in I : j \in 1..n /\ j < n + 1 /\ j < n + 2
  <2>1. I \in SUBSET (1..n)
    BY <1>1, <1>2, IndicesAppended
  <2> QED BY <2>1
<1>4. since < n + 1 /\ n + 1 < n + 2
  BY <1>1
<1>5. Within(s, names, since, n + 1) = {k \in I : since < k}
  BY <1>2, <1>3 DEF Within
<1>6. CASE x.call \in names
  <2>1. Indices(z, names) = I \cup {n + 1}
    BY <1>1, <1>2, <1>6, IndicesAppended
  <2>2. Within(z, names, since, n + 2) = {k \in I : since < k} \cup {n + 1}
    BY <1>3, <1>4, <2>1 DEF Within
  <2> QED BY <1>1, <1>3, <1>5, <1>6, <2>2
<1>7. CASE x.call \notin names
  <2>1. Indices(z, names) = I
    BY <1>1, <1>2, <1>7, IndicesAppended
  <2>2. Within(z, names, since, n + 2) = {k \in I : since < k}
    BY <1>3, <2>1 DEF Within
  <2> QED BY <1>1, <1>3, <1>5, <1>7, <2>2
<1> QED BY <1>6, <1>7

\* The word on a delimiter is the last one.
LEMMA OptionsExtended ==
  ASSUME NEW s \in Seq(Calls), NEW x \in Calls, NEW since \in 0..Len(s),
         NEW before, before = OptionsOf(s, since, Len(s) + 1),
         NEW after, after = OptionsOf(Append(s, x), since, Len(s) + 2)
  PROVE  /\ x.call = "with" /\ x.on \in Delimiters => after = before \cup {x.on}
         /\ x.call = "without" => after = before \ {x.on}
         /\ x.call \notin {"with", "without"} => after = before
<1>a. PICK n \in Nat : n = Len(s)
  OBVIOUS
<1>b. PICK z : z = Append(s, x)
  OBVIOUS
<1>1. n = Len(s) /\ z = Append(s, x)
  BY <1>a, <1>b
<1>2. (\A k \in 1..n : z[k] = s[k]) /\ z[n + 1] = x
  BY <1>1, Appended
<1> DEFINE names == {"with", "without"}
           Said(d) == {k \in Within(s, names, since, n + 1) : s[k].on = d}
           Words(d) == {k \in Within(z, names, since, n + 2) : z[k].on = d}
<1>3. PICK W : W = Within(s, names, since, n + 1)
  OBVIOUS
<1>4. \A k \in W : k \in 1..n /\ k < n + 1 /\ z[k] = s[k]
  <2>1. W \in SUBSET (1..n)
    BY <1>1, <1>3, WithinExtended
  <2> QED BY <1>2, <2>1
<1>5. \A d : Said(d) = {k \in W : s[k].on = d}
  BY <1>3
<1>6. /\ before = {d \in Delimiters : \A k \in Said(d) : (\A j \in Said(d) : j <= k) => s[k].call = "with"}
      /\ after = {d \in Delimiters : \A k \in Words(d) : (\A j \in Words(d) : j <= k) => z[k].call = "with"}
  BY <1>1, Zenon DEF OptionsOf
<1>7. CASE x.call \notin names
  <2>1. Within(z, names, since, n + 2) = W
    BY <1>1, <1>3, <1>7, WithinExtended
  <2>2. \A d : Words(d) = Said(d)
    BY <1>4, <1>5, <2>1
  <2>3. \A d : \A k \in Said(d) : z[k] = s[k]
    BY <1>4, <1>5
  <2> HIDE DEF Said, Words
  <2>4. after = before
    BY <1>6, <2>2, <2>3
  <2> QED BY <1>7, <2>4
<1>8. CASE x.call \in names
  <2>1. Within(z, names, since, n + 2) = W \cup {n + 1}
    BY <1>1, <1>3, <1>8, WithinExtended
  <2>2. \A d : d # x.on => Words(d) = Said(d)
    BY <1>2, <1>4, <1>5, <2>1
  <2>3. n + 1 \in Words(x.on) /\ \A j \in Words(x.on) : j \in Int /\ j <= n + 1
    BY <1>2, <1>4, <2>1
  <2>4. \A d : \A k \in Said(d) : z[k] = s[k]
    BY <1>4, <1>5
  <2> HIDE DEF Said, Words
  <2>5. \A d : d # x.on => (d \in after <=> d \in before)
    BY <1>6, <2>2, <2>4
  <2>6. x.on \in after <=> (x.on \in Delimiters /\ x.call = "with")
    <3>1. \A k \in Words(x.on) : (\A j \in Words(x.on) : j <= k) => k = n + 1
      BY <2>3
    <3>2. \A j \in Words(x.on) : j <= n + 1
      BY <2>3
    <3> QED BY <1>2, <1>6, <2>3, <3>1, <3>2
  <2> HIDE DEF names
  <2>7. x.call = "with" /\ x.on \in Delimiters => after = before \cup {x.on}
    BY <2>5, <2>6
  <2>8. x.call = "without" => after = before \ {x.on}
    BY <2>5, <2>6
  <2> QED BY <1>8, <2>7, <2>8 DEF names
<1> QED BY <1>7, <1>8

LEMMA SpellingsExtended ==
  ASSUME NEW s \in Seq(Calls), NEW x \in Calls, NEW since \in 0..Len(s)
  PROVE  /\ x.call = "overlong" => SpellingsOf(Append(s, x), since, Len(s) + 2) =
                                     SpellingsOf(s, since, Len(s) + 1) \cup x.on
         /\ x.call # "overlong" => SpellingsOf(Append(s, x), since, Len(s) + 2) =
                                     SpellingsOf(s, since, Len(s) + 1)
<1>a. PICK n \in Nat : n = Len(s)
  OBVIOUS
<1>b. PICK z : z = Append(s, x)
  OBVIOUS
<1>1. n = Len(s) /\ z = Append(s, x)
  BY <1>a, <1>b
<1>2. (\A k \in 1..n : z[k] = s[k]) /\ z[n + 1] = x
  BY <1>1, Appended
<1>3. PICK W : W = Within(s, {"overlong"}, since, n + 1)
  OBVIOUS
<1>4. \A k \in W : k \in 1..n /\ z[k] = s[k]
  <2>1. W \in SUBSET (1..n)
    BY <1>1, <1>3, WithinExtended
  <2> QED BY <1>2, <2>1
<1>5. UNION {z[k].on : k \in W} = UNION {s[k].on : k \in W}
  BY <1>4
<1>6. CASE x.call = "overlong"
  <2>1. Within(z, {"overlong"}, since, n + 2) = W \cup {n + 1}
    BY <1>1, <1>3, <1>6, WithinExtended
  <2>2. {z[k].on : k \in W \cup {n + 1}} = {z[k].on : k \in W} \cup {x.on}
    BY <1>2
  <2>3. UNION {z[k].on : k \in W \cup {n + 1}} = (UNION {z[k].on : k \in W}) \cup x.on
    BY <2>2
  <2>4. SpellingsOf(z, since, n + 2) = UNION {z[k].on : k \in W \cup {n + 1}}
    BY <2>1, Zenon DEF SpellingsOf
  <2>5. SpellingsOf(s, since, n + 1) = UNION {s[k].on : k \in W}
    BY <1>3, Zenon DEF SpellingsOf
  <2> QED BY <1>1, <1>5, <1>6, <2>3, <2>4, <2>5
<1>7. CASE x.call # "overlong"
  <2>1. Within(z, {"overlong"}, since, n + 2) = W
    BY <1>1, <1>3, <1>7, WithinExtended
  <2> QED BY <1>1, <1>3, <1>5, <1>7, <2>1, Zenon DEF SpellingsOf
<1> QED BY <1>6, <1>7

LEMMA ProbesExtended ==
  ASSUME NEW s \in Seq(Calls), NEW x \in Calls, NEW since \in 0..Len(s), NEW T, NEW p \in Seq(T),
         AreProbesOf(p, s, since, Len(s) + 1)
  PROVE  /\ x.call = "probe" /\ x.on \in T =>
              AreProbesOf(Append(p, x.on), Append(s, x), since, Len(s) + 2)
         /\ x.call # "probe" => AreProbesOf(p, Append(s, x), since, Len(s) + 2)
<1>a. PICK n \in Nat : n = Len(s)
  OBVIOUS
<1>b. PICK z : z = Append(s, x)
  OBVIOUS
<1>1. n = Len(s) /\ z = Append(s, x)
  BY <1>a, <1>b
<1>2. (\A k \in 1..n : z[k] = s[k]) /\ z[n + 1] = x
  BY <1>1, Appended
<1>3. PICK W : W = Within(s, {"probe"}, since, n + 1)
  OBVIOUS
<1>4. W \in SUBSET (1..n)
  BY <1>1, <1>3, WithinExtended
<1>5. \A k \in W : k \in 1..n /\ k <= n /\ z[k] = s[k]
  BY <1>2, <1>4
<1>6. Len(p) = Cardinality(W) /\ \A k \in W : p[Cardinality({j \in W : j <= k})] = s[k].on
  BY <1>1, <1>3 DEF AreProbesOf
<1>7. CASE x.call # "probe"
  <2>1. Within(z, {"probe"}, since, n + 2) = W
    BY <1>1, <1>3, <1>7, WithinExtended
  <2>2. \A k \in W : p[Cardinality({j \in W : j <= k})] = z[k].on
    BY <1>5, <1>6
  <2> QED BY <1>1, <1>6, <1>7, <2>1, <2>2 DEF AreProbesOf
<1>8. CASE x.call = "probe" /\ x.on \in T
  <2>1. Within(z, {"probe"}, since, n + 2) = W \cup {n + 1}
    BY <1>1, <1>3, <1>8, WithinExtended
  <2>2. PICK V : V = W \cup {n + 1}
    OBVIOUS
  <2>3. IsFiniteSet(W)
    <3>1. IsFiniteSet(1..n)
      BY FS_Interval
    <3> QED BY <1>4, <3>1, FS_Subset
  <2>4. n + 1 \notin W
    BY <1>5
  <2>5. Cardinality(V) = Cardinality(W) + 1 /\ Cardinality(W) \in Nat
    BY <2>2, <2>3, <2>4, FS_AddElement, FS_CardinalityType
  <2>6. PICK q : q = Append(p, x.on)
    OBVIOUS
  <2>7. Len(q) = Cardinality(V) /\ q[Cardinality(V)] = x.on /\ \A k \in 1..Cardinality(W) : q[k] = p[k]
    BY <1>6, <1>8, <2>5, <2>6
  <2>8. ASSUME NEW k \in W PROVE q[Cardinality({j \in V : j <= k})] = z[k].on
    <3>1. PICK U : U = {j \in W : j <= k}
      OBVIOUS
    <3>2. {j \in V : j <= k} = U
      BY <1>5, <2>2, <3>1
    <3>3. U \in SUBSET W /\ k \in U
      BY <1>5, <3>1
    <3>4. IsFiniteSet(U) /\ Cardinality(U) <= Cardinality(W)
      BY <2>3, <3>3, FS_Subset
    <3>5. Cardinality(U) \in Nat /\ Cardinality(U) # 0
      BY <3>3, <3>4, FS_CardinalityType, FS_EmptySet
    <3>6. Cardinality(U) \in 1..Cardinality(W)
      BY <2>5, <3>4, <3>5
    <3>7. q[Cardinality(U)] = p[Cardinality(U)] /\ p[Cardinality(U)] = s[k].on
      BY <1>6, <2>7, <3>1, <3>6
    <3> QED BY <1>5, <3>2, <3>7
  <2>9. q[Cardinality({j \in V : j <= n + 1})] = z[n + 1].on
    <3>1. {j \in V : j <= n + 1} = V
      BY <1>5, <2>2
    <3> QED BY <1>2, <2>7, <3>1
  <2>10. \A k \in V : q[Cardinality({j \in V : j <= k})] = z[k].on
    BY <2>2, <2>8, <2>9
  <2> QED BY <1>1, <1>8, <2>1, <2>2, <2>6, <2>7, <2>10, Zenon DEF AreProbesOf
<1> QED BY <1>7, <1>8

\* What the calls say of the classes in hand follows every call that writes them.
LEMMA WrittenExtended ==
  ASSUME NEW s \in Seq(Calls), NEW x \in Calls, NEW since \in 0..Len(s),
         NEW c \in ClassSets, NEW d,
         Written(s, c, since, Len(s) + 1),
         Wrote(c, x.call, x.on, d) \/ (x.call \in {"mode", "max_len"} /\ d = c)
  PROVE  Written(Append(s, x), d, since, Len(s) + 2)
<1>a. PICK n \in Nat : n = Len(s)
  OBVIOUS
<1>b. PICK z : z = Append(s, x)
  OBVIOUS
<1>1. n = Len(s) /\ z = Append(s, x)
  BY <1>a, <1>b
<1>2. PICK S, S2 : S = SpellingsOf(s, since, n + 1) /\ S2 = SpellingsOf(z, since, n + 2)
  OBVIOUS
<1>3. PICK O, O2 : O = OptionsOf(s, since, n + 1) /\ O2 = OptionsOf(z, since, n + 2)
  OBVIOUS
<1>4. PICK F, F2 : /\ F = Within(s, {"fullwidth"}, since, n + 1)
                   /\ F2 = Within(z, {"fullwidth"}, since, n + 2)
  OBVIOUS
<1>5. /\ x.call = "overlong" => S2 = S \cup x.on
      /\ x.call # "overlong" => S2 = S
  BY <1>1, <1>2, SpellingsExtended
<1>6. /\ x.call = "with" /\ x.on \in Delimiters => O2 = O \cup {x.on}
      /\ x.call = "without" => O2 = O \ {x.on}
      /\ x.call \notin {"with", "without"} => O2 = O
  BY <1>1, <1>3, OptionsExtended
<1>7. /\ x.call = "fullwidth" => F2 = F \cup {n + 1}
      /\ x.call # "fullwidth" => F2 = F
  BY <1>1, <1>4, WithinExtended
<1>8. PICK p : p = c.probes
  OBVIOUS
<1>9. /\ x.call = "probe" /\ x.on \in BOOLEAN => AreProbesOf(Append(p, x.on), z, since, n + 2)
      /\ x.call # "probe" => AreProbesOf(p, z, since, n + 2)
  <2>1. p \in Seq(BOOLEAN) /\ AreProbesOf(p, s, since, n + 1)
    BY <1>1, <1>8, Zenon DEF Written, ClassSets
  <2> QED BY <1>1, <2>1, ProbesExtended
<1>10. /\ c.options = O
       /\ c.enc.overlong_slash <=> "Slash" \in S
       /\ c.enc.overlong_dot <=> "Dot" \in S
       /\ c.enc.unicode <=> F # {}
  BY <1>1, <1>2, <1>3, <1>4, Zenon DEF Written
<1>11. ASSUME /\ d.options = O2
              /\ d.enc.overlong_slash <=> "Slash" \in S2
              /\ d.enc.overlong_dot <=> "Dot" \in S2
              /\ d.enc.unicode <=> F2 # {}
              /\ AreProbesOf(d.probes, z, since, n + 2)
       PROVE  Written(z, d, since, n + 2)
  BY <1>2, <1>3, <1>4, <1>11, Zenon DEF Written
<1>12. CASE d = c /\ x.call \in {"mode", "max_len"}
  <2>1. S2 = S /\ O2 = O /\ F2 = F /\ AreProbesOf(p, z, since, n + 2)
    BY <1>5, <1>6, <1>7, <1>9, <1>12
  <2> QED BY <1>1, <1>8, <1>10, <1>11, <1>12, <2>1
<1>13. CASE /\ x.call = "with" /\ x.on \in Delimiters
            /\ d.options = c.options \cup {x.on} /\ d.enc = c.enc /\ d.probes = c.probes
  <2>1. S2 = S /\ O2 = O \cup {x.on} /\ F2 = F /\ AreProbesOf(p, z, since, n + 2)
    BY <1>5, <1>6, <1>7, <1>9, <1>13
  <2> QED BY <1>1, <1>8, <1>10, <1>11, <1>13, <2>1
<1>14. CASE /\ x.call = "without" /\ x.on \in Delimiters
            /\ d.options = c.options \ {x.on} /\ d.enc = c.enc /\ d.probes = c.probes
  <2>1. S2 = S /\ O2 = O \ {x.on} /\ F2 = F /\ AreProbesOf(p, z, since, n + 2)
    BY <1>5, <1>6, <1>7, <1>9, <1>14
  <2> QED BY <1>1, <1>8, <1>10, <1>11, <1>14, <2>1
<1>15. CASE /\ x.call = "overlong" /\ x.on \in SUBSET {"Slash", "Dot"}
            /\ d.options = c.options /\ d.probes = c.probes
            /\ d.enc.overlong_slash <=> (c.enc.overlong_slash \/ "Slash" \in x.on)
            /\ d.enc.overlong_dot <=> (c.enc.overlong_dot \/ "Dot" \in x.on)
            /\ d.enc.unicode = c.enc.unicode
  <2>1. S2 = S \cup x.on /\ O2 = O /\ F2 = F /\ AreProbesOf(p, z, since, n + 2)
    BY <1>5, <1>6, <1>7, <1>9, <1>15
  <2> QED BY <1>1, <1>8, <1>10, <1>11, <1>15, <2>1
<1>16. CASE /\ x.call = "fullwidth" /\ x.on = {}
            /\ d.options = c.options /\ d.probes = c.probes
            /\ d.enc.overlong_slash = c.enc.overlong_slash /\ d.enc.overlong_dot = c.enc.overlong_dot
            /\ d.enc.unicode
  <2>1. S2 = S /\ O2 = O /\ F2 = F \cup {n + 1} /\ AreProbesOf(p, z, since, n + 2)
    BY <1>5, <1>6, <1>7, <1>9, <1>16
  <2> QED BY <1>1, <1>8, <1>10, <1>11, <1>16, <2>1
<1>17. CASE /\ x.call = "probe" /\ x.on \in BOOLEAN
            /\ d.options = c.options /\ d.enc = c.enc /\ d.probes = Append(c.probes, x.on)
  <2>1. S2 = S /\ O2 = O /\ F2 = F /\ AreProbesOf(Append(p, x.on), z, since, n + 2)
    BY <1>5, <1>6, <1>7, <1>9, <1>17
  <2> QED BY <1>1, <1>8, <1>10, <1>11, <1>17, <2>1
<1> QED BY <1>12, <1>13, <1>14, <1>15, <1>16, <1>17, Zenon DEF Wrote

\* Where nothing was said the classes are the default.
LEMMA NothingWritten ==
  ASSUME NEW s \in Seq(Calls), NEW since \in Nat, NEW until \in Nat, until <= since + 1
  PROVE  Written(s, DefaultClasses, since, until)
<1>1. \A names : Within(s, names, since, until) = {}
  <2>1. ASSUME NEW names, NEW k \in Indices(s, names), since < k, k < until PROVE FALSE
    <3>1. k \in Nat
      BY DEF Indices
    <3> QED BY <2>1, <3>1
  <2> QED BY <2>1 DEF Within
<1>2. OptionsOf(s, since, until) = Delimiters
  BY <1>1 DEF OptionsOf
<1>3. SpellingsOf(s, since, until) = {}
  BY <1>1 DEF SpellingsOf
<1>4. AreProbesOf(<< >>, s, since, until)
  BY <1>1, FS_EmptySet, EmptySeq DEF AreProbesOf
<1>5. /\ DefaultClasses.options = Delimiters /\ DefaultClasses.probes = << >>
      /\ ~DefaultClasses.enc.overlong_slash /\ ~DefaultClasses.enc.overlong_dot
      /\ ~DefaultClasses.enc.unicode
  BY DEF DefaultClasses
<1> QED BY <1>1, <1>2, <1>3, <1>4, <1>5, Zenon DEF Written

-----------------------------------------------------------------------------
(***************************************************************************)
(* A configuration reads as written.                                       *)
(***************************************************************************)
LEMMA ReadInit ==
  ASSUME Init
  PROVE  ReadsAsWritten /\ Written(calls, classes, TakenAt(calls), Len(calls) + 1)
<1>1. calls = << >> /\ classes = DefaultClasses /\ << >> \in Seq(Calls) /\ Len(<< >>) = 0
  BY EmptySeq DEF Init
<1>2. \A names : Indices(<< >>, names) = {}
  BY EmptySeq DEF Indices
<1>3. TakenAt(<< >>) = 0 /\ TakenBefore(<< >>) = 0
  <2>1. PICK e : e = << >>
    OBVIOUS
  <2>2. e \in Seq(Calls) /\ Len(e) = 0
    BY <1>1, <2>1
  <2>3. TakenAt(e) \in 0..0 /\ TakenBefore(e) \in 0..0
    BY <2>2, TakenTyped
  <2> QED BY <2>1, <2>3
<1>4. /\ Written(<< >>, DefaultClasses, 0, 0)
      /\ Written(<< >>, DefaultClasses, 0, 1)
  <2>1. PICK e : e = << >>
    OBVIOUS
  <2>2. e \in Seq(Calls) /\ 0 \in Nat /\ 1 \in Nat /\ 0 <= 0 + 1 /\ 1 <= 0 + 1
    BY <1>1, <2>1
  <2>3. Written(e, DefaultClasses, 0, 0) /\ Written(e, DefaultClasses, 0, 1)
    BY <2>2, NothingWritten
  <2> QED BY <2>1, <2>3
<1>5. /\ config.mode = "RejectAmbiguous" /\ config.max_len = 8192
      /\ Same(config, DefaultClasses)
  BY DEF Init, NewConfig, Same
<1>6. Written(<< >>, config, 0, 0)
  <2>1. PICK c, k : c = config /\ k = DefaultClasses
    OBVIOUS
  <2>2. c.options = k.options /\ c.enc = k.enc /\ c.probes = k.probes /\ Written(<< >>, k, 0, 0)
    BY <1>4, <1>5, <2>1 DEF Same
  <2>3. Written(<< >>, c, 0, 0)
    BY <2>2, Zenon DEF Written
  <2> QED BY <2>1, <2>3
<1>7. /\ LastOf(<< >>, "mode", "RejectAmbiguous") = "RejectAmbiguous"
      /\ LastOf(<< >>, "max_len", 8192) = 8192
  BY <1>2 DEF LastOf
<1> QED BY <1>1, <1>3, <1>4, <1>5, <1>6, <1>7 DEF ReadsAsWritten

\* The configuration c, given these calls and the classes k in hand, is read off them.
IsRead(c, k, s) ==
  /\ c.mode = LastOf(s, "mode", "RejectAmbiguous")
  /\ c.max_len = LastOf(s, "max_len", 8192)
  /\ Written(s, c, TakenBefore(s), TakenAt(s))
  /\ Written(s, k, TakenAt(s), Len(s) + 1)

LEMMA ReadNext ==
  ASSUME NEW s \in Seq(Calls), NEW x \in Calls, NEW c, NEW d, NEW k \in ClassSets, NEW l,
         IsRead(c, k, s),
         \/ /\ Wrote(k, x.call, x.on, l) /\ d = c
         \/ /\ x.call = "classes" /\ l = DefaultClasses /\ Same(d, k)
            /\ d.mode = c.mode /\ d.max_len = c.max_len
         \/ /\ x.call = "mode" /\ l = k /\ Same(d, c) /\ d.mode = x.on /\ d.max_len = c.max_len
         \/ /\ x.call = "max_len" /\ l = k /\ Same(d, c) /\ d.mode = c.mode /\ d.max_len = x.on
  PROVE  IsRead(d, l, Append(s, x))
<1>a. PICK n \in Nat : n = Len(s)
  OBVIOUS
<1>b. PICK z : z = Append(s, x)
  OBVIOUS
<1>1. n = Len(s) /\ z = Append(s, x)
  BY <1>a, <1>b
<1>2. z \in Seq(Calls) /\ Len(z) = n + 1
  BY <1>1, Appended
<1>3. TakenAt(s) \in 0..n /\ TakenBefore(s) \in 0..n
  BY <1>1, TakenTyped
<1>4. PICK a, b : a = TakenAt(s) /\ b = TakenBefore(s)
  OBVIOUS
<1>5. /\ Written(s, c, b, a) /\ Written(s, k, a, n + 1)
      /\ c.mode = LastOf(s, "mode", "RejectAmbiguous")
      /\ c.max_len = LastOf(s, "max_len", 8192)
  BY <1>1, <1>4 DEF IsRead
<1>6. /\ x.call = "mode" => LastOf(z, "mode", "RejectAmbiguous") = x.on
      /\ x.call # "mode" => LastOf(z, "mode", "RejectAmbiguous") = c.mode
  BY <1>1, <1>5, LastOfAppended
<1>7. /\ x.call = "max_len" => LastOf(z, "max_len", 8192) = x.on
      /\ x.call # "max_len" => LastOf(z, "max_len", 8192) = c.max_len
  BY <1>1, <1>5, LastOfAppended
<1>8. /\ x.call # "classes" => TakenAt(z) = a /\ TakenBefore(z) = b
      /\ x.call = "classes" => TakenAt(z) = n + 1 /\ TakenBefore(z) = a
  BY <1>1, <1>4, TakenAppended
<1>9. a \in 0..n /\ b \in Nat /\ a \in 0..(n + 1) /\ n + 1 \in 0..(n + 1)
  BY <1>3, <1>4
<1>10. ASSUME NEW e, Same(e, c) PROVE Written(z, e, b, a)
  BY <1>1, <1>5, <1>9, <1>10, WrittenKept
<1>11. CASE Wrote(k, x.call, x.on, l) /\ d = c
  <2>1. x.call \in {"with", "without", "overlong", "fullwidth", "probe"}
    BY <1>11, Zenon DEF Wrote
  <2>2. Written(z, l, a, n + 2)
    BY <1>1, <1>5, <1>9, <1>11, WrittenExtended
  <2>3. Written(z, d, b, a)
    BY <1>10, <1>11 DEF Same
  <2> QED BY <1>1, <1>2, <1>6, <1>7, <1>8, <1>11, <2>1, <2>2, <2>3 DEF IsRead
<1>12. CASE /\ x.call = "classes" /\ l = DefaultClasses /\ Same(d, k)
            /\ d.mode = c.mode /\ d.max_len = c.max_len
  <2>1. Written(z, d, a, n + 1)
    BY <1>1, <1>5, <1>9, <1>12, WrittenKept
  <2>2. Written(z, l, n + 1, n + 2)
    BY <1>2, <1>12, NothingWritten
  <2> QED BY <1>1, <1>2, <1>6, <1>7, <1>8, <1>12, <2>1, <2>2 DEF IsRead
<1>13. ASSUME x.call \in {"mode", "max_len"}, l = k, Same(d, c)
       PROVE  Written(z, l, a, n + 2) /\ Written(z, d, b, a)
  BY <1>1, <1>5, <1>9, <1>10, <1>13, WrittenExtended
<1>14. CASE /\ x.call = "mode" /\ l = k /\ Same(d, c) /\ d.mode = x.on /\ d.max_len = c.max_len
  BY <1>1, <1>2, <1>6, <1>7, <1>8, <1>13, <1>14 DEF IsRead
<1>15. CASE /\ x.call = "max_len" /\ l = k /\ Same(d, c) /\ d.mode = c.mode /\ d.max_len = x.on
  BY <1>1, <1>2, <1>6, <1>7, <1>8, <1>13, <1>15 DEF IsRead
<1> QED BY <1>11, <1>12, <1>14, <1>15

\* However the calls are ordered, the configuration is what they say: the last mode and
\* budget, and the classes of the last taking-in alone (config.rs:284, structural_classes).
THEOREM AlwaysReadsAsWritten == Spec => []ReadsAsWritten
<1>1. Init => Written(calls, classes, TakenAt(calls), Len(calls) + 1) /\ ReadsAsWritten
  BY ReadInit
<1>2. ASSUME Typed, Next, IsRead(config, classes, calls)
      PROVE  IsRead(config', classes', calls')
  <2>1. PICK s, c, k : s = calls /\ c = config /\ k = classes
    OBVIOUS
  <2>2. PICK d, l : d = config' /\ l = classes'
    OBVIOUS
  <2>3. s \in Seq(Calls) /\ k \in ClassSets /\ IsRead(c, k, s)
    BY <1>2, <2>1 DEF Typed
  <2>4. ASSUME NEW name \in Names, NEW argument \in Arguments, OfClasses(name, argument)
        PROVE  IsRead(config', classes', calls')
    <3>1. PICK x : x = [call |-> name, on |-> argument]
      OBVIOUS
    <3>2. x \in Calls /\ x.call = name /\ x.on = argument
      BY <3>1 DEF Calls
    <3>3. calls' = Append(s, x) /\ Wrote(k, x.call, x.on, l) /\ d = c
      BY <2>1, <2>2, <2>4, <3>1, <3>2 DEF OfClasses
    <3>4. IsRead(d, l, Append(s, x))
      BY <2>3, <3>2, <3>3, ReadNext
    <3> QED BY <2>2, <3>3, <3>4
  <2>5. ASSUME OfTaking
        PROVE  IsRead(config', classes', calls')
    <3>1. PICK x : x = [call |-> "classes", on |-> {}]
      OBVIOUS
    <3>2. x \in Calls /\ x.call = "classes"
      BY <3>1 DEF Calls, Names, Arguments
    <3>3. /\ calls' = Append(s, x) /\ l = DefaultClasses /\ Same(d, k)
          /\ d.mode = c.mode /\ d.max_len = c.max_len
      BY <2>1, <2>2, <2>5, <3>1 DEF OfTaking
    <3>4. IsRead(d, l, Append(s, x))
      BY <2>3, <3>2, <3>3, ReadNext
    <3> QED BY <2>2, <3>3, <3>4
  <2>6. ASSUME NEW mode \in Modes, OfMode(mode)
        PROVE  IsRead(config', classes', calls')
    <3>1. PICK x : x = [call |-> "mode", on |-> mode]
      OBVIOUS
    <3>2. x \in Calls /\ x.call = "mode" /\ x.on = mode
      BY <3>1 DEF Calls, Names, Arguments
    <3>3. calls' = Append(s, x) /\ l = k /\ Same(d, c) /\ d.mode = x.on /\ d.max_len = c.max_len
      BY <2>1, <2>2, <2>6, <3>1, <3>2 DEF OfMode
    <3>4. IsRead(d, l, Append(s, x))
      BY <2>3, <3>2, <3>3, ReadNext
    <3> QED BY <2>2, <3>3, <3>4
  <2>7. ASSUME NEW n \in Lengths, OfLength(n)
        PROVE  IsRead(config', classes', calls')
    <3>1. PICK x : x = [call |-> "max_len", on |-> n]
      OBVIOUS
    <3>2. x \in Calls /\ x.call = "max_len" /\ x.on = n
      BY <3>1 DEF Calls, Names, Arguments
    <3>3. calls' = Append(s, x) /\ l = k /\ Same(d, c) /\ d.mode = c.mode /\ d.max_len = x.on
      BY <2>1, <2>2, <2>7, <3>1, <3>2 DEF OfLength
    <3>4. IsRead(d, l, Append(s, x))
      BY <2>3, <3>2, <3>3, ReadNext
    <3> QED BY <2>2, <3>3, <3>4
  <2> QED BY <1>2, <2>4, <2>5, <2>6, <2>7, EveryCall
<1> DEFINE Inv == IsRead(config, classes, calls)
<1>3. Init => Inv
  BY <1>1 DEF ReadsAsWritten, IsRead
<1>4. Typed /\ Inv /\ [Next]_vars => Inv'
  <2>1. CASE UNCHANGED vars
    BY <2>1 DEF vars
  <2>2. CASE Next
    BY <1>2, <2>2
  <2> QED BY <2>1, <2>2
<1>5. Inv => ReadsAsWritten
  BY DEF IsRead, ReadsAsWritten
<1> QED BY <1>3, <1>4, <1>5, TypedInvariance, PTL DEF Spec

=============================================================================
