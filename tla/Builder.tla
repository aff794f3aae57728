------------------------------ MODULE Builder ------------------------------
(***************************************************************************)
(* Writing a route table with the fluent calls (PathRegistration,          *)
(* RuleRouterBuilder): drafts are written in any order, also side by side, *)
(* a draft handed to the builder is moved there, and building runs         *)
(* Registration on what has been handed over.                              *)
(*                                                                         *)
(* register_path and its kin are a constructor, calls and a registration;  *)
(* from_registrations is register_all on an empty builder, then build.     *)
(***************************************************************************)
EXTENDS Registration, SequencesExt

CONSTANTS
  Lists,       \* the pattern lists a draft can start from
  Subtrees,    \* the paths of subtrees it can start from, as terminals
  Added,       \* the paths added to a draft, alone or with their subtrees
  KeyLists,    \* the keys of one definition, as listed
  MaxDrafts,   \* bound on the drafts
  MaxCalls     \* bound on the calls on drafts

\* Where `//` lowers to.  Its subtree has a tail that is no pattern, and no path claims
\* it: it is not written here.
RootSlash == [node |-> << >>, slot |-> "leaf_slash"]

ASSUME WrittenAssumption ==
  /\ Subtrees \cup Added \subseteq {t \in Terminals : t.slot # "catchall" /\ t # RootSlash}
  /\ \A list \in Lists : list \in Seq(Malformed \cup Terminals)
  /\ \A keys \in KeyLists : keys \in Seq(Methods \cup {All})
ASSUME BoundsAssumption == MaxDrafts \in Nat /\ MaxCalls \in Nat

VARIABLES
  drafts,     \* the drafts written so far
  handed,     \* those the builder has, in order
  log,        \* the calls that wrote each draft, which only the properties read
  building

allvars == <<vars, drafts, handed, log, building>>

BInit ==
  /\ Init /\ registrations = << >>
  /\ drafts = << >> /\ handed = << >> /\ log = << >> /\ building = FALSE

\* What the calls on drafts leave alone.
buildVars == <<config, phase, current, next, fallbacks, entries, ruleCount, slots, views, failure>>

-----------------------------------------------------------------------------
\* subtree_patterns: a path with a trailing slash leaves out the bare one.
SubtreeOf(path) ==
  LET slash == [path EXCEPT !.slot = "leaf_slash"]
      tail  == [path EXCEPT !.slot = "catchall"]
  IN  IF path.slot = "leaf_slash" \/ path.node = << >> THEN <<path, tail>> ELSE <<path, slash, tail>>

\* A draft before any rule: path, patterns, subtree and exclusive_subtree.
NewDraft(name, patterns, exclusive) ==
  /\ ~building /\ Len(drafts) < MaxDrafts
  /\ drafts' = Append(drafts, [patterns |-> patterns, rules |-> << >>,
                               exclusive |-> exclusive, inherit |-> FALSE])
  /\ log' = Append(log, <<[call |-> name, arg |-> patterns]>>)
  /\ UNCHANGED <<buildVars, registrations, handed, building>>

Patterns(list) == NewDraft("patterns", list, FALSE)
Subtree(path) == NewDraft("subtree", SubtreeOf(path), FALSE)
ExclusiveSubtree(path) == NewDraft("exclusive_subtree", SubtreeOf(path), TRUE)

\* A call on a draft still in hand.
Rewrite(d, name, arg, draft) ==
  /\ ~building /\ d \notin Range(handed)
  /\ Len(FlattenSeq(log)) < Len(log) + MaxCalls
  /\ drafts' = [drafts EXCEPT ![d] = draft]
  /\ log' = [log EXCEPT ![d] = Append(@, [call |-> name, arg |-> arg])]
  /\ UNCHANGED <<buildVars, registrations, handed, building>>

WithPath(d, path) ==
  Rewrite(d, "with_path", <<path>>, [drafts[d] EXCEPT !.patterns = Append(@, path)])

WithSubtree(d, path) ==
  Rewrite(d, "with_subtree", SubtreeOf(path), [drafts[d] EXCEPT !.patterns = @ \o SubtreeOf(path)])

\* all, method and methods.
Define(d, keys) == Rewrite(d, "define", keys, [drafts[d] EXCEPT !.rules = Append(@, keys)])

FallbackInherit(d, inherit) ==
  Rewrite(d, "fallback_inherit", inherit, [drafts[d] EXCEPT !.inherit = inherit])

-----------------------------------------------------------------------------
\* Slip: the latest registration comes first.
RegisterInFront(d) ==
  /\ ~building /\ d \notin Range(handed)
  /\ registrations' = <<drafts[d]>> \o registrations
  /\ handed' = Append(handed, d)
  /\ UNCHANGED <<buildVars, drafts, log, building>>

\* register; register_all is one after the other.
Register(d) ==
  /\ ~building /\ d \notin Range(handed)
  /\ registrations' = Append(registrations, drafts[d])
  /\ handed' = Append(handed, d)
  /\ UNCHANGED <<buildVars, drafts, log, building>>

\* build takes the builder; drafts still in hand are never heard of again.
Build ==
  /\ ~building /\ building' = TRUE
  /\ UNCHANGED <<buildVars, registrations, drafts, handed, log>>

Run == building /\ Next /\ UNCHANGED <<drafts, handed, log, building>>

BNext ==
  \/ \E list \in Lists : Patterns(list)
  \/ \E path \in Subtrees : Subtree(path) \/ ExclusiveSubtree(path)
  \/ \E d \in DOMAIN drafts :
       \/ \E path \in Added : WithPath(d, path) \/ WithSubtree(d, path)
       \/ \E keys \in KeyLists : Define(d, keys)
       \/ FallbackInherit(d, ~drafts[d].inherit)   \* repeating the setting changes nothing
       \/ Register(d)
  \/ Build \/ Run

BSpec == BInit /\ [][BNext]_allvars

-----------------------------------------------------------------------------
(***************************************************************************)
(* What the calls say, whatever their order within a draft.                *)
(***************************************************************************)
CallsOf(d, names) == {k \in DOMAIN log[d] : log[d][k].call \in names}

PatternsOf(d) ==
  UNION {Range(log[d][k].arg) : k \in CallsOf(d, {"patterns", "subtree", "exclusive_subtree",
                                                  "with_path", "with_subtree"})}
Asked == Range(handed)

\* Definitions are numbered over the registrations in order, then over the calls.
NumberOf(d, k) ==
  LET before == {e \in Asked : \E i, j \in DOMAIN handed : i < j /\ handed[i] = e /\ handed[j] = d}
      written(e) == {e} \X CallsOf(e, {"define"})
  IN  Cardinality((UNION {written(e) : e \in before}) \cup {c \in written(d) : c[2] < k})

DefinedFor(t, key) ==
  UNION {{NumberOf(d, k) : k \in {j \in CallsOf(d, {"define"}) : key \in Range(log[d][j].arg)}} :
           d \in {e \in Asked : t \in PatternsOf(e)}}
Serving(t, method) == IF DefinedFor(t, method) # {} THEN DefinedFor(t, method) ELSE DefinedFor(t, All)

LastSays(d) ==
  LET said == CallsOf(d, {"fallback_inherit"})
  IN  said # {} /\ log[d][CHOOSE k \in said : \A j \in said : j <= k].arg
HandsOver(t) == \E d \in Asked : t \in PatternsOf(d) /\ LastSays(d)

\* The terminals a lookup for a path can end at.
Ends(path, method) ==
  {t \in UNION {PatternsOf(d) : d \in Asked} :
     Claims(t, path) /\ (Serving(t, method) # {} \/ ~HandsOver(t))}

(***************************************************************************)
(* Properties.                                                             *)
(***************************************************************************)

\* A router answers what the calls say, in whatever order and interleaving they wrote
\* their drafts: rules, fallback and patterns of a draft belong together whichever was
\* written last, the ids follow the order of registration and not that of the calls, and
\* a draft never handed over answers nothing.  Exclusivity covers the patterns added
\* later too: no other terminal comes first in any of its tails (with_path,
\* with_subtree, exclusive_subtree, fallback_inherit, register, compile_method).
AnswersAsCalled ==
  Built =>
    /\ \A path \in Requests : \A method \in Methods \cup {Other} :
         LET ends == Ends(path, method)
             best == CHOOSE t \in ends : IsBest(t, ends)
         IN  {RuleOf(ViewFor(method), path)} =
               IF ends = {} THEN {DEFAULT_RULE}
               ELSE IF Serving(best, method) = {} THEN {DENIED_RULE} ELSE Serving(best, method)
    /\ \A d \in {e \in Asked : log[e][1].call = "exclusive_subtree"} :
         \A t \in {u \in PatternsOf(d) : u.slot = "catchall"} :
           \A path \in {p \in Requests : Claims(t, p)} : \A m \in DOMAIN views :
             \A c \in Candidates(views[m], path, {}) : ~Precedes(c.node, t.node)
=============================================================================
