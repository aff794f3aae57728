----------------------------- MODULE Permission -----------------------------
(***************************************************************************)
(* When a request may be answered, stated without the guard's pipeline,    *)
(* and when one configuration is at least as strict as another.            *)
(***************************************************************************)
EXTENDS Analysis

\* The original spelling and every spelling a backend may route instead.
Spellings(cfg, b) ==
  LET views == Interpretations(b, cfg.up_to_two)
      bytes == {views[k].bytes : k \in DOMAIN views}
  IN  IF cfg.insensitive THEN {Lowered(v) : v \in bytes} ELSE bytes

\* No probe matches; what is too long to be shown to a probe fails one.
ProbesPass(cfg, b) ==
  cfg.probes # << >> => Len(b) <= cfg.max_len /\ \A k \in DOMAIN cfg.probes : ~cfg.probes[k]

\* No reinterpretation of the request can reach another rule.
Unambiguous(tbl, cfg, b) ==
  LET raw     == Resolve(tbl, b)
      found   == ScanAll(cfg, b, Positional(cfg))
      present == found.classes \cap Positional(cfg)
  IN  /\ present # {} => /\ "Truncation" \notin present
                         /\ found.earliest # NoOffset   \* it has a place to be anchored at
                         /\ RulesBeyond(tbl, AnchorFor(b, found, cfg.insensitive)) = {raw}
      /\ \A v \in Spellings(cfg, b) : Resolve(tbl, v) = raw
      \* beyond the budget nothing is analysed, so nothing may need analysis
      /\ Len(b) > cfg.max_len =>
           /\ present = {}
           /\ \A i \in DOMAIN b : b[i] \notin ContentBytes(cfg.insensitive)

Canonical(cfg, b) ==
  /\ ScanAll(cfg, b, Strict(cfg)).classes \cap Strict(cfg) = {}
  /\ ~HasEscape(b)

Permits(tbl, cfg, b) ==
  /\ IsRequestPath(b)
  /\ Resolve(tbl, b) # DENIED_RULE
  /\ CASE cfg.mode = "Disabled"         -> TRUE
       [] cfg.mode = "RejectAmbiguous"  -> Unambiguous(tbl, cfg, b) /\ ProbesPass(cfg, b)
       [] cfg.mode = "RequireCanonical" -> Canonical(cfg, b) /\ ProbesPass(cfg, b)

\* Every knob of c is at least as strict as that of d.
AtLeastAsStrict(c, d) ==
  /\ \/ c.mode = d.mode
     \/ d.mode = "Disabled"
     \/ d.mode = "RejectAmbiguous" /\ c.mode = "RequireCanonical"
  /\ d.options \subseteq c.options
  /\ \A e \in DOMAIN d.enc : d.enc[e] => c.enc[e]
  /\ d.up_to_two => c.up_to_two
  /\ d.insensitive => c.insensitive
  /\ c.max_len <= d.max_len
  /\ IsPrefix(d.probes, c.probes)

\* The laxer configuration routes a spelling with uppercase as it stands, where the
\* stricter one routes the folded spelling alone (interpretation_rule_deny).
FoldedAway(tbl, c, d, b) ==
  /\ c.mode = "RejectAmbiguous" /\ c.insensitive /\ ~d.insensitive
  /\ \E v \in Spellings(d, b) : HasUppercase(v) /\ Resolve(tbl, v) # Resolve(tbl, b)

\* The default mode counts any percent sign against the budget, the strict mode only a
\* complete escape (interpretations_deny, escape_present).
StrayPercentOverBudget(c, d, b) ==
  /\ c.mode = "RequireCanonical" /\ d.mode = "RejectAmbiguous"
  /\ Len(b) > d.max_len
  /\ \E i \in DOMAIN b : b[i] = PercentSign

\* A path as a client is expected to write it: every byte stands for itself under every
\* configuration, no empty segment and no dot-segment.
Plain(b) ==
  /\ Rooted(b)
  /\ \A i \in DOMAIN b :
       /\ b[i] \in 1..127
       /\ b[i] \notin Uppercase \cup {PercentSign, Semicolon, Backslash, Question, Hash}
  /\ \A k \in DOMAIN PathOf(b) :
       /\ PathOf(b)[k] \notin {<<Dot>>, <<Dot, Dot>>}
       /\ PathOf(b)[k] = Empty => k = Len(PathOf(b))
=============================================================================
