------------------------------ MODULE Settings ------------------------------
(***************************************************************************)
(* Writing a guard configuration (config.rs): required declarations and    *)
(* defaults, then fluent calls in any order on the structural classes and  *)
(* on the configuration that takes them in.                                *)
(***************************************************************************)
EXTENDS Permission

CONSTANTS
  Lengths,     \* the budgets a caller may set
  MaxCalls,    \* bound on the calls of one configuration
  Tables,      \* the tables the settings are used on
  Requests     \* the requests they are asked about

ASSUME LengthsAssumption == Lengths \subseteq Nat /\ MaxCalls \in Nat
ASSUME TablesAssumption == \A v \in Tables : IsView(v)
ASSUME RequestsAssumption == \A r \in Requests : r \in Seq(Byte) /\ r # << >> /\ Len(r) < NoOffset

Delimiters == {"Backslash", "Query", "Fragment"}

\* StructuralClasses::default, of which new is the public name.
DefaultClasses ==
  [options |-> Delimiters, probes |-> << >>,
   enc     |-> [overlong_slash |-> FALSE, overlong_dot |-> FALSE, unicode |-> FALSE]]

\* GuardConfig::new.
NewConfig(insensitive, up_to_two) ==
  [mode |-> "RejectAmbiguous", options |-> DefaultClasses.options, enc |-> DefaultClasses.enc,
   probes |-> DefaultClasses.probes, up_to_two |-> up_to_two, insensitive |-> insensitive,
   max_len |-> 8192]

VARIABLES
  classes,   \* the structural classes being written
  config,    \* the configuration being written
  calls      \* the calls made so far

vars == <<classes, config, calls>>

Init ==
  /\ classes = DefaultClasses
  /\ \E insensitive, up_to_two \in BOOLEAN : config = NewConfig(insensitive, up_to_two)
  /\ calls = << >>

-----------------------------------------------------------------------------
Call(name, argument) ==
  /\ Len(calls) < MaxCalls
  /\ calls' = Append(calls, [call |-> name, on |-> argument])

\* with_fragment_truncation, with_query_truncation, with_backslash, and their opposites.
WithDelimiter(d) ==
  /\ Call("with", d)
  /\ classes' = [classes EXCEPT !.options = @ \cup {d}]
  /\ UNCHANGED config

WithoutDelimiter(d) ==
  /\ Call("without", d)
  /\ classes' = [classes EXCEPT !.options = @ \ {d}]
  /\ UNCHANGED config

\* Slip: the characters named replace the ones named before.
WithOverlongOnly(chars) ==
  /\ Call("overlong", chars)
  /\ classes' = [classes EXCEPT !.enc.overlong_slash = "Slash" \in chars,
                                !.enc.overlong_dot   = "Dot" \in chars]
  /\ UNCHANGED config

WithOverlong(chars) ==
  /\ Call("overlong", chars)
  /\ classes' = [classes EXCEPT !.enc.overlong_slash = @ \/ "Slash" \in chars,
                                !.enc.overlong_dot   = @ \/ "Dot" \in chars]
  /\ UNCHANGED config

WithFullwidthStructure ==
  /\ Call("fullwidth", {})
  /\ classes' = [classes EXCEPT !.enc.unicode = TRUE]
  /\ UNCHANGED config

WithProbe(matches) ==
  /\ Call("probe", matches)
  /\ classes' = [classes EXCEPT !.probes = Append(@, matches)]
  /\ UNCHANGED config

\* Slip: the classes of an earlier call are kept where the new ones say nothing.
WithStructuralClassesMerged ==
  /\ Call("classes", {})
  /\ config' = [config EXCEPT !.options = @ \cap classes.options, !.enc = classes.enc,
                              !.probes  = @ \o classes.probes]
  /\ classes' = DefaultClasses

\* The classes move into the configuration; the next ones start from the default.
WithStructuralClasses ==
  /\ Call("classes", {})
  /\ config' = [config EXCEPT !.options = classes.options, !.enc = classes.enc,
                              !.probes  = classes.probes]
  /\ classes' = DefaultClasses

WithMode(mode) ==
  /\ Call("mode", mode)
  /\ config' = [config EXCEPT !.mode = mode]
  /\ UNCHANGED classes

WithMaxAnalysisPathLen(n) ==
  /\ Call("max_len", n)
  /\ config' = [config EXCEPT !.max_len = n]
  /\ UNCHANGED classes

Next ==
  \/ \E d \in Delimiters : WithDelimiter(d) \/ WithoutDelimiter(d)
  \/ \E chars \in {{"Slash"}, {"Dot"}, {"Slash", "Dot"}} : WithOverlong(chars)
  \/ WithFullwidthStructure
  \/ \E matches \in BOOLEAN : WithProbe(matches)
  \/ WithStructuralClasses
  \/ \E mode \in Modes : WithMode(mode)
  \/ \E n \in Lengths : WithMaxAnalysisPathLen(n)

Spec == Init /\ [][Next]_vars

-----------------------------------------------------------------------------
\* The configuration if the classes in hand were taken in now.
Taken == [config EXCEPT !.options = classes.options, !.enc = classes.enc, !.probes = classes.probes]

(***************************************************************************)
(* Properties.                                                             *)
(***************************************************************************)
Indices(s, names) == {k \in DOMAIN s : s[k].call \in names}

\* The greatest of these places in the calls, or 0.
LastAmong(indices) == CHOOSE k \in indices \cup {0} : \A j \in indices : j <= k

\* What the last call of this name says, or the default.
LastOf(s, name, default) ==
  LET said == Indices(s, {name})
  IN  IF said = {} THEN default ELSE s[LastAmong(said)].on

\* When the configuration last took classes in, and the time before that.
TakenAt(s) == LastAmong(Indices(s, {"classes"}))
TakenBefore(s) == LastAmong({k \in Indices(s, {"classes"}) : k < TakenAt(s)})

\* The calls of these names between two places.
Within(s, names, since, until) == {k \in Indices(s, names) : since < k /\ k < until}

\* Of each delimiter the last word.
OptionsOf(s, since, until) ==
  LET Words(d) == {k \in Within(s, {"with", "without"}, since, until) : s[k].on = d}
  IN  {d \in Delimiters : \A k \in Words(d) : (\A j \in Words(d) : j <= k) => s[k].call = "with"}

\* Of the spellings every one named.
SpellingsOf(s, since, until) == UNION {s[k].on : k \in Within(s, {"overlong"}, since, until)}

\* Of the probes all, in the order they were added.
AreProbesOf(probes, s, since, until) ==
  LET added == Within(s, {"probe"}, since, until)
  IN  /\ Len(probes) = Cardinality(added)
      /\ \A k \in added : probes[Cardinality({j \in added : j <= k})] = s[k].on

\* The classes are what the calls between two places say.
Written(s, c, since, until) ==
  /\ c.options = OptionsOf(s, since, until)
  /\ c.enc.overlong_slash <=> "Slash" \in SpellingsOf(s, since, until)
  /\ c.enc.overlong_dot <=> "Dot" \in SpellingsOf(s, since, until)
  /\ c.enc.unicode <=> Within(s, {"fullwidth"}, since, until) # {}
  /\ AreProbesOf(c.probes, s, since, until)

\* The configuration can be read off the calls: of mode and budget the last call
\* counts, the classes are those of the last taking-in alone, built from the calls since
\* the one before it.
ReadsAsWritten ==
  /\ config.mode = LastOf(calls, "mode", "RejectAmbiguous")
  /\ config.max_len = LastOf(calls, "max_len", 8192)
  /\ Written(calls, config, TakenBefore(calls), TakenAt(calls))

\* What the documentation says of every call that adds a class, a spelling or a probe:
\* it can only ever deny more.  No request answered under the classes after such a call
\* was denied under the ones before, in any table.
AddingOnlyDenies ==
  [][(classes' # classes /\ Last(calls').call \in {"with", "overlong", "fullwidth", "probe"}) =>
       \A table \in Tables, request \in Requests :
         Permits(table, Taken', request) => Permits(table, Taken, request)]_vars
=============================================================================
