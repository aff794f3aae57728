--------------------------- MODULE MatcherProofs ---------------------------
(***************************************************************************)
(* For every view, path and ignored terminal the walk claims the terminal  *)
(* of highest precedence, or finds that nothing matches.  The inductive    *)
(* invariant is that nothing claimable lies in a branch already given up.  *)
(***************************************************************************)
EXTENDS Matcher, SequenceTheorems, TLAPS

Arguments == IsView(view) /\ path \in Paths

\* The inductive invariant.
IInv == Arguments /\ TypeOK /\ NothingGivenUp /\ ClaimsBestMatch

-----------------------------------------------------------------------------
\* A node that fits a path up to its end, or up to one trailing slash, has no
\* proper extension that fits: no edge takes the empty segment.
LEMMA NothingFitsBelow ==
  ASSUME NEW p \in Paths, NEW n \in Addresses, NEW c \in Addresses,
         Fits(n, p), Fits(c, p), ~MoreAt(Len(n), p)
  PROVE  Len(c) <= Len(n)
<1>1. Len(n) \in Nat /\ Len(c) \in Nat /\ Len(p) \in Nat
  BY DEF Addresses, Paths
<1>2. SUFFICES ASSUME Len(c) > Len(n) PROVE FALSE
  BY <1>1
<1>3. SlashAt(Len(n), p) /\ Len(c) = Len(n) + 1
  BY <1>1, <1>2 DEF MoreAt, Fits, SlashAt
<1>4. Takes(c[Len(c)], Empty)
  BY <1>1, <1>3 DEF Fits, SlashAt
<1>5. c[Len(c)] \in Segments \cup {Star}
  BY <1>1, <1>3 DEF Addresses
<1> QED BY <1>4, <1>5, SegmentsAssumption DEF Takes

\* The terminals a path other than the bare root can claim.
LEMMA CandidateShape ==
  ASSUME NEW v, IsView(v), NEW p \in Paths, p # Bare, NEW ign,
         NEW t \in Candidates(v, p, ign)
  PROVE  /\ t \in Terminals /\ t.node \in Addresses /\ t.node \in v.nodes
         /\ t = [node |-> t.node, slot |-> t.slot]
         /\ t \in DOMAIN v.rule \ ign
         /\ Fits(t.node, p)
         /\ t.slot = "leaf" => EndsAt(Len(t.node), p)
         /\ t.slot = "leaf_slash" => SlashAt(Len(t.node), p) /\ Len(t.node) # 0
         /\ t.slot = "catchall" => MoreAt(Len(t.node), p)
         /\ t.slot \in Slots
<1>1. t \in DOMAIN v.rule \ ign /\ Claims(t, p)
  BY DEF Candidates
<1>2. t \in Terminals /\ t.node \in v.nodes
  BY <1>1 DEF IsView
<1>3. t.node \in Addresses /\ t.slot \in Slots /\ t = [node |-> t.node, slot |-> t.slot]
  BY <1>2 DEF Terminals
<1>4. Fits(t.node, p)
  BY <1>1 DEF Claims
<1>5. t.slot = "leaf" => EndsAt(Len(t.node), p)
  BY <1>1 DEF Claims
<1>6. t.slot = "leaf_slash" => SlashAt(Len(t.node), p) /\ Len(t.node) # 0
  BY <1>1 DEF Claims
<1>7. t.slot = "catchall" => MoreAt(Len(t.node), p)
  BY <1>1 DEF Claims
<1> QED BY <1>1, <1>2, <1>3, <1>4, <1>5, <1>6, <1>7

\* While the walk runs, the call stack is as the type invariant says.
LEMMA RunningFacts ==
  ASSUME IInv, Running
  PROVE  /\ node \in Addresses /\ Depth \in Nat /\ Len(path) \in Nat /\ Depth < Len(path)
         /\ path \in Seq(Segments \cup {Empty})
         /\ \A i \in 1..Len(path) : path[i] # Star
         /\ Here \in Segments \cup {Empty}
         /\ stages \in Seq({"literal", "wildcard", "catchall"}) /\ Len(stages) = Depth + 1
         /\ node \in view.nodes /\ Fits(node, path) /\ MoreAt(Depth, path)
         /\ path # Bare /\ ~outcome.over
<1>1. path # Bare /\ ~outcome.over
  BY DEF Running
<1>2. /\ node \in view.nodes /\ Fits(node, path) /\ MoreAt(Depth, path)
      /\ stages \in Seq({"literal", "wildcard", "catchall"}) /\ Len(stages) = Depth + 1
  BY <1>1 DEF IInv, TypeOK
<1>3. node \in Addresses
  BY <1>2 DEF IInv, Arguments, IsView
<1>4. path \in Seq(Segments \cup {Empty})
  BY DEF IInv, Arguments, Paths
<1>5. Depth \in Nat /\ Len(path) \in Nat
  BY <1>3, <1>4 DEF Depth, Addresses
<1>6. Depth < Len(path)
  BY <1>2 DEF MoreAt
<1>7. \A i \in 1..Len(path) : path[i] # Star
  BY <1>4, SegmentsAssumption
<1>8. Here \in Segments \cup {Empty}
  BY <1>4, <1>5, <1>6 DEF Here
<1> QED BY <1>1, <1>2, <1>3, <1>4, <1>5, <1>6, <1>7, <1>8

\* A call waiting in its wildcard branch has nothing claimable left in its literal one.
LEMMA NoLiteralMissed ==
  ASSUME IInv, Running, NEW c \in Claimable, NEW i \in 1..Depth,
         Len(c.node) >= i, \A j \in 1..(i - 1) : c.node[j] = node[j],
         c.node[i] # Star, node[i] = Star
  PROVE  FALSE
<1>1. i \in 1..(Depth + 1) /\ i \in 1..Len(path)
  BY RunningFacts
<1>2. stages[i] = "catchall"
  BY <1>1, RunningFacts DEF IInv, TypeOK
<1>3. \/ stages[i] = "literal"
      \/ stages[i] = "wildcard" /\ c.node[i] = Star
      \/ i <= Depth /\ c.node[i] = node[i]
  BY <1>1, RunningFacts DEF IInv, NothingGivenUp
<1> QED BY <1>2, <1>3

\* The node one edge below the current one.
LEMMA ChildShape ==
  ASSUME IInv, Running, NEW e \in {Here, Star}
  PROVE  /\ Len(Append(node, e)) = Depth + 1
         /\ \A j \in 1..Depth : Append(node, e)[j] = node[j]
         /\ Append(node, e)[Depth + 1] = e
<1> DEFINE S == Segments \cup {Empty, Star}
<1>1. node \in Seq(S)
  BY RunningFacts DEF Addresses
<1>2. e \in S
  BY RunningFacts
<1> QED BY <1>1, <1>2, AppendProperties DEF Depth

\* What the walk claims has the highest precedence: its node extends the current one
\* by the branch being tried, or is the current one at its catch-all.
LEMMA ClaimIsBest ==
  ASSUME IInv, Running, NEW t \in Claimable,
         \/ /\ t.node = Append(node, Here) /\ Here # Star
            /\ ~MoreAt(Depth + 1, path)
         \/ /\ t.node = Append(node, Star) /\ Stage = "wildcard"
            /\ ~MoreAt(Depth + 1, path)
         \/ t.node = node /\ Stage = "catchall"
  PROVE  IsBest(t, Claimable)
<1> DEFINE n == t.node
<1>1. SUFFICES ASSUME NEW c \in Claimable, Precedes(c.node, n) PROVE FALSE
  BY DEF IsBest
<1>2. PICK k \in 1..Len(c.node) :
        /\ Len(n) >= k - 1
        /\ \A j \in 1..(k - 1) : c.node[j] = n[j]
        /\ Len(n) = k - 1 \/ (Len(n) >= k /\ c.node[k] # Star /\ n[k] = Star)
  BY <1>1 DEF Precedes
<1>3. /\ c.node \in Addresses /\ n \in Addresses /\ Fits(c.node, path) /\ Fits(n, path)
  BY <1>1, RunningFacts, CandidateShape DEF Claimable, IInv, Arguments
<1>4. /\ Depth \in Nat /\ Len(c.node) \in Nat /\ k \in Nat /\ Depth = Len(node)
  BY <1>3, RunningFacts DEF Addresses, Depth
<1>5. \A j \in 1..Depth : n[j] = node[j]
  BY ChildShape
<1>6. CASE k <= Depth
  <2>0. Len(n) >= Depth
    BY <1>3, <1>4, ChildShape DEF Addresses
  <2>1. Len(n) >= k /\ c.node[k] # Star /\ node[k] = Star
    BY <1>2, <1>4, <1>5, <1>6, <2>0
  <2>2. \A j \in 1..(k - 1) : c.node[j] = node[j]
    BY <1>2, <1>4, <1>5, <1>6
  <2> QED BY <1>1, <1>2, <1>4, <1>6, <2>1, <2>2, NoLiteralMissed
<1>7. CASE k > Depth /\ n = node /\ Stage = "catchall"
  <2>1. k = Depth + 1
    BY <1>2, <1>4, <1>7
  <2>2. \A j \in 1..(k - 1) : c.node[j] = node[j]
    BY <1>2, <1>7
  <2> QED BY <1>1, <1>4, <1>7, <2>1, <2>2, RunningFacts DEF IInv, NothingGivenUp, Stage
<1>8. ASSUME NEW e \in {Here, Star}, n = Append(node, e), ~MoreAt(Depth + 1, path), k > Depth,
             (e = Here /\ Here # Star) \/ Stage = "wildcard"
      PROVE  FALSE
  <2>1. Len(n) = Depth + 1 /\ n[Depth + 1] = e
    BY <1>8, ChildShape
  <2>2. Len(c.node) <= Depth + 1
    BY <1>3, <1>8, <2>1, NothingFitsBelow DEF IInv, Arguments
  <2>3. k = Depth + 1 /\ c.node[k] # Star /\ e = Star
    BY <1>2, <1>4, <1>8, <2>1, <2>2
  <2>4. Stage = "wildcard"
    BY <1>8, <2>3
  <2>5. \A j \in 1..(k - 1) : c.node[j] = node[j]
    BY <1>2, <1>4, <1>5, <2>3
  <2> QED BY <1>1, <1>4, <2>3, <2>4, <2>5, RunningFacts DEF IInv, NothingGivenUp, Stage
<1>9. k \in Nat /\ Depth \in Nat
  BY <1>4
<1>10. CASE t.node = Append(node, Here) /\ Here # Star /\ ~MoreAt(Depth + 1, path)
  BY <1>6, <1>8, <1>9, <1>10
<1>11. CASE t.node = Append(node, Star) /\ Stage = "wildcard" /\ ~MoreAt(Depth + 1, path)
  BY <1>6, <1>8, <1>9, <1>11
<1>12. CASE t.node = node /\ Stage = "catchall"
  BY <1>6, <1>7, <1>9, <1>12
<1> QED BY <1>10, <1>11, <1>12

-----------------------------------------------------------------------------
\* The branch a call gives up and the stage it goes on with.
Branch(e, next) ==
  \/ Stage = "literal" /\ e = Here /\ next = "wildcard"
  \/ Stage = "wildcard" /\ e = Star /\ next = "catchall"

\* A terminal goes through the child of the current node by edge e.
Through(t, e) ==
  /\ Len(t.node) >= Depth + 1
  /\ \A j \in 1..Depth : t.node[j] = node[j]
  /\ t.node[Depth + 1] = e

\* A branch with nothing claimable may be given up.
LEMMA GiveUpBranch ==
  ASSUME IInv, Running, NEW e, NEW next, Branch(e, next),
         \A t \in Claimable : ~Through(t, e),
         stages' = [stages EXCEPT ![Depth + 1] = next],
         UNCHANGED <<arguments, node, outcome>>
  PROVE  IInv'
<1>1. UNCHANGED <<view, path, ignored, node, outcome>> /\ Depth' = Depth /\ Claimable' = Claimable
  BY DEF arguments, Depth, Claimable
<1>2. Depth \in Nat /\ Len(stages) = Depth + 1 /\ next \in {"wildcard", "catchall"}
  BY RunningFacts DEF Branch
<1>3. /\ stages' \in Seq({"literal", "wildcard", "catchall"}) /\ Len(stages') = Depth + 1
      /\ stages'[Depth + 1] = next /\ \A i \in 1..Depth : stages'[i] = stages[i]
  BY <1>2, RunningFacts
<1>4. Arguments'
  BY <1>1 DEF IInv, Arguments
<1>5. TypeOK'
  BY <1>1, <1>2, <1>3, RunningFacts DEF IInv, TypeOK
<1>6. NothingGivenUp'
  <2>1. SUFFICES ASSUME NEW t \in Claimable, NEW i \in 1..(Depth + 1), Len(t.node) >= i,
                        \A j \in 1..(i - 1) : t.node[j] = node[j]
                 PROVE  \/ stages'[i] = "literal"
                        \/ stages'[i] = "wildcard" /\ t.node[i] = Star
                        \/ i <= Depth /\ t.node[i] = node[i]
    BY <1>1 DEF NothingGivenUp
  <2>2. \/ stages[i] = "literal"
        \/ stages[i] = "wildcard" /\ t.node[i] = Star
        \/ i <= Depth /\ t.node[i] = node[i]
    BY <2>1, RunningFacts DEF IInv, NothingGivenUp
  <2>3. CASE i <= Depth
    BY <1>2, <1>3, <2>2, <2>3
  <2>4. CASE i = Depth + 1
    <3>1. Fits(t.node, path) /\ t.node \in Addresses
      BY RunningFacts, CandidateShape DEF Claimable, IInv, Arguments
    <3>2. t.node[i] = Here \/ t.node[i] = Star
      BY <1>2, <2>1, <2>4, <3>1, RunningFacts DEF Fits, Takes, Here, Addresses
    <3>3. t.node[i] # e
      BY <2>1, <2>4, <1>2 DEF Through
    <3> QED BY <1>2, <1>3, <2>2, <2>4, <3>2, <3>3 DEF Branch, Stage
  <2> QED BY <1>2, <2>3, <2>4
<1>7. ClaimsBestMatch'
  BY <1>1, RunningFacts DEF ClaimsBestMatch
<1> QED BY <1>4, <1>5, <1>6, <1>7 DEF IInv

\* Claiming the best terminal ends the walk as promised.
LEMMA ClaimStep ==
  ASSUME IInv, Running, NEW t \in Claimable, IsBest(t, Claimable),
         outcome' = Claimed(t), UNCHANGED <<arguments, node, stages>>
  PROVE  IInv'
<1>1. UNCHANGED <<view, path, ignored, node, stages>> /\ Depth' = Depth /\ Claimable' = Claimable
  BY DEF arguments, Depth, Claimable
<1>2. outcome'.found /\ outcome'.over /\ outcome'.terminal = t
  BY DEF Claimed
<1>3. t \in Terminals
  BY RunningFacts, CandidateShape DEF Claimable, IInv, Arguments
<1>4. Arguments'
  BY <1>1 DEF IInv, Arguments
<1>5. TypeOK'
  BY <1>1, <1>2, <1>3 DEF IInv, TypeOK, Claimed
<1>6. NothingGivenUp'
  BY <1>2 DEF NothingGivenUp
<1>7. ClaimsBestMatch'
  BY <1>1, <1>2 DEF ClaimsBestMatch
<1> QED BY <1>4, <1>5, <1>6, <1>7 DEF IInv

\* The call stack of a call on a child.
LEMMA PushedStack ==
  ASSUME NEW s \in Seq({"literal", "wildcard", "catchall"}), Len(s) \in Nat \ {0},
         NEW next \in {"wildcard", "catchall"}
  PROVE  LET pushed == Append([s EXCEPT ![Len(s)] = next], "literal")
         IN  /\ pushed \in Seq({"literal", "wildcard", "catchall"}) /\ Len(pushed) = Len(s) + 1
             /\ pushed[Len(s) + 1] = "literal" /\ pushed[Len(s)] = next
             /\ \A i \in 1..(Len(s) - 1) : pushed[i] = s[i]
<1> DEFINE waiting == [s EXCEPT ![Len(s)] = next]
<1>1. /\ waiting \in Seq({"literal", "wildcard", "catchall"}) /\ Len(waiting) = Len(s)
      /\ waiting[Len(s)] = next /\ \A i \in 1..(Len(s) - 1) : waiting[i] = s[i]
  OBVIOUS
<1> HIDE DEF waiting
<1>2. LET pushed == Append(waiting, "literal")
      IN  /\ pushed \in Seq({"literal", "wildcard", "catchall"}) /\ Len(pushed) = Len(s) + 1
          /\ pushed[Len(s) + 1] = "literal" /\ pushed[Len(s)] = next
          /\ \A i \in 1..(Len(s) - 1) : pushed[i] = s[i]
  BY <1>1
<1> QED BY <1>2 DEF waiting

\* A call on a child leaves the caller's other branches to its next stage.
LEMMA EnterChild ==
  ASSUME IInv, Running, NEW e, NEW next, Branch(e, next), Takes(e, Here),
         node' \in view.nodes, MoreAt(Depth + 1, path),
         Depth' = Depth + 1, node'[Depth + 1] = e, \A j \in 1..Depth : node'[j] = node[j],
         stages' \in Seq({"literal", "wildcard", "catchall"}), Len(stages') = Depth + 2,
         stages'[Depth + 2] = "literal", stages'[Depth + 1] = next,
         \A i \in 1..Depth : stages'[i] = stages[i],
         UNCHANGED <<arguments, outcome>>
  PROVE  IInv'
<1>1. UNCHANGED <<view, path, ignored, outcome>> /\ Claimable' = Claimable
  BY DEF arguments, Claimable
<1>2. Depth \in Nat /\ next \in {"wildcard", "catchall"} /\ e \in {Here, Star}
  BY RunningFacts DEF Branch
<1>3. /\ Depth' = Depth + 1 /\ node'[Depth + 1] = e
      /\ \A j \in 1..Depth : node'[j] = node[j]
  OBVIOUS
<1>5. /\ stages' \in Seq({"literal", "wildcard", "catchall"}) /\ Len(stages') = Depth + 2
      /\ stages'[Depth + 2] = "literal" /\ stages'[Depth + 1] = next
      /\ \A i \in 1..Depth : stages'[i] = stages[i]
  OBVIOUS
<1>6. Arguments'
  BY <1>1 DEF IInv, Arguments
<1>7. TypeOK'
  <2>1. Fits(node', path)
    <3>1. Depth + 1 <= Len(path) /\ Takes(node'[Depth + 1], path[Depth + 1])
      BY <1>2, <1>3, RunningFacts DEF Here
    <3>2. \A j \in 1..Depth : Takes(node'[j], path[j])
      BY <1>3, RunningFacts DEF Fits, Depth
    <3> QED BY <1>2, <1>3, <3>1, <3>2 DEF Fits, Depth
  <2>2. \A i \in 1..Depth' : \/ stages'[i] = "wildcard" /\ node'[i] = path[i]
                             \/ stages'[i] = "catchall" /\ node'[i] = Star
    <3>1. SUFFICES ASSUME NEW i \in 1..(Depth + 1)
                   PROVE  \/ stages'[i] = "wildcard" /\ node'[i] = path[i]
                          \/ stages'[i] = "catchall" /\ node'[i] = Star
      BY <1>3
    <3>2. CASE i <= Depth
      <4>1. \A j \in 1..Depth : \/ stages[j] = "wildcard" /\ node[j] = path[j]
                                \/ stages[j] = "catchall" /\ node[j] = Star
        BY RunningFacts DEF IInv, TypeOK
      <4>2. i \in 1..Depth
        BY <1>2, <3>2
      <4>3. stages'[i] = stages[i] /\ node'[i] = node[i]
        BY <1>3, <1>5, <4>2
      <4> QED BY <4>1, <4>2, <4>3
    <3>3. CASE i = Depth + 1
      BY <1>3, <1>5, <3>3 DEF Branch, Here
    <3> QED BY <1>2, <3>2, <3>3
  <2> QED BY <1>1, <1>2, <1>3, <1>5, <2>1, <2>2, RunningFacts DEF IInv, TypeOK
<1>8. NothingGivenUp'
  <2>1. SUFFICES ASSUME NEW t \in Claimable, NEW i \in 1..(Depth + 2), Len(t.node) >= i,
                        \A j \in 1..(i - 1) : t.node[j] = node'[j]
                 PROVE  \/ stages'[i] = "literal"
                        \/ stages'[i] = "wildcard" /\ t.node[i] = Star
                        \/ i <= Depth + 1 /\ t.node[i] = node'[i]
    BY <1>1, <1>2, <1>3 DEF NothingGivenUp
  <2>2. CASE i = Depth + 2
    BY <1>5, <2>2
  <2>3. CASE i <= Depth + 1
    <3>1. \A j \in 1..(i - 1) : t.node[j] = node[j]
      BY <1>2, <1>3, <2>1, <2>3
    <3>2. \/ stages[i] = "literal"
          \/ stages[i] = "wildcard" /\ t.node[i] = Star
          \/ i <= Depth /\ t.node[i] = node[i]
      BY <1>2, <2>1, <2>3, <3>1, RunningFacts DEF IInv, NothingGivenUp
    <3>3. CASE i <= Depth
      BY <1>2, <1>3, <1>5, <3>2, <3>3
    <3>4. CASE i = Depth + 1
      <4>1. Fits(t.node, path) /\ t.node \in Addresses
        BY RunningFacts, CandidateShape DEF Claimable, IInv, Arguments
      <4>2. t.node[i] = Here \/ t.node[i] = Star
        BY <1>2, <2>1, <3>4, <4>1, RunningFacts DEF Fits, Takes, Here, Addresses
      <4> QED BY <1>2, <1>3, <1>5, <3>2, <3>4, <4>2 DEF Branch, Stage
    <3> QED BY <1>2, <2>3, <3>3, <3>4
  <2> QED BY <1>2, <2>2, <2>3
<1>9. ClaimsBestMatch'
  BY <1>1, RunningFacts DEF ClaimsBestMatch
<1> QED BY <1>6, <1>7, <1>8, <1>9 DEF IInv

\* A terminal that goes through a child where the path ends is a terminal of that child.
LEMMA EndsInChild ==
  ASSUME IInv, Running, NEW e \in {Here, Star}, Append(node, e) \in view.nodes,
         Takes(e, Here), ~MoreAt(Depth + 1, path), NEW t \in Claimable, Through(t, e)
  PROVE  t.node = Append(node, e)
         /\ t.slot = IF EndsAt(Depth + 1, path) THEN "leaf" ELSE "leaf_slash"
<1> DEFINE child == Append(node, e)
<1>1. /\ Len(child) = Depth + 1 /\ child[Depth + 1] = e
      /\ \A j \in 1..Depth : child[j] = node[j]
  BY ChildShape
<1>2. child \in Addresses
  BY DEF IInv, Arguments, IsView
<1>3. /\ t.node \in Addresses /\ Fits(t.node, path) /\ t.slot \in Slots
      /\ t.slot = "leaf" => EndsAt(Len(t.node), path)
      /\ t.slot = "leaf_slash" => SlashAt(Len(t.node), path)
      /\ t.slot = "catchall" => MoreAt(Len(t.node), path)
  BY RunningFacts, CandidateShape DEF Claimable, IInv, Arguments
<1> HIDE DEF child
<1>4. Fits(child, path)
  <2>1. \A j \in 1..Depth : Takes(child[j], path[j])
    BY <1>1, RunningFacts DEF Fits, Depth
  <2>2. Takes(child[Depth + 1], path[Depth + 1])
    BY <1>1 DEF Here
  <2> QED BY <1>1, <2>1, <2>2, RunningFacts DEF Fits
<1>5. Len(t.node) = Depth + 1
  <2>1. Len(t.node) <= Depth + 1
    BY <1>1, <1>2, <1>3, <1>4, NothingFitsBelow DEF IInv, Arguments
  <2>2. Len(t.node) >= Depth + 1
    BY DEF Through
  <2>3. Len(t.node) \in Nat /\ Depth \in Nat
    BY <1>3, RunningFacts DEF Addresses
  <2> QED BY <2>1, <2>2, <2>3
<1>6. \A j \in 1..(Depth + 1) : t.node[j] = child[j]
  BY <1>1, RunningFacts DEF Through
<1>7. t.node = child
  BY <1>1, <1>2, <1>3, <1>5, <1>6 DEF Addresses
<1>8. t.slot = IF EndsAt(Depth + 1, path) THEN "leaf" ELSE "leaf_slash"
  BY <1>3, <1>5 DEF Slots, MoreAt, EndsAt, SlashAt
<1> QED BY <1>7, <1>8 DEF child

-----------------------------------------------------------------------------
\* A branch that is not there leads to nothing claimable: the tree keeps the nodes on
\* the way to every terminal.
LEMMA NoSuchBranch ==
  ASSUME IInv, Running, NEW e \in {Here, Star}, NEW t \in Claimable, Through(t, e)
  PROVE  Takes(e, Here) /\ Append(node, e) \in view.nodes
<1> DEFINE child == Append(node, e)
<1>1. /\ Len(child) = Depth + 1 /\ child[Depth + 1] = e
      /\ \A j \in 1..Depth : child[j] = node[j]
  BY ChildShape
<1>2. t.node \in Addresses /\ t.node \in view.nodes /\ Fits(t.node, path)
  BY RunningFacts, CandidateShape DEF Claimable, IInv, Arguments
<1>3. Depth \in Nat /\ Len(t.node) \in Nat /\ Len(t.node) >= Depth + 1
  BY <1>2, RunningFacts DEF Addresses, Through
<1>4. Takes(e, Here)
  BY <1>2, <1>3 DEF Fits, Through, Here
<1>5. SubSeq(t.node, 1, Depth + 1) \in view.nodes
  BY <1>2, <1>3 DEF IInv, Arguments, IsView
<1>6. child \in Seq(Segments \cup {Empty, Star})
  BY RunningFacts, AppendProperties DEF Addresses
<1>7. SubSeq(t.node, 1, Depth + 1) = child
  <2>1. /\ SubSeq(t.node, 1, Depth + 1) \in Seq(Segments \cup {Star})
        /\ Len(SubSeq(t.node, 1, Depth + 1)) = Depth + 1
        /\ \A j \in 1..(Depth + 1) : SubSeq(t.node, 1, Depth + 1)[j] = t.node[j]
    BY <1>2, <1>3 DEF Addresses
  <2>2. \A j \in 1..(Depth + 1) : t.node[j] = child[j]
    BY <1>1, <1>3 DEF Through
  <2> HIDE DEF child
  <2> QED BY <1>1, <1>3, <1>6, <2>1, <2>2
<1> QED BY <1>4, <1>5, <1>7

\* Passing over a branch that is not there.
LEMMA SkipStep ==
  ASSUME IInv, Running, NEW e \in {Here, Star}, NEW next, Branch(e, next),
         ~(Takes(e, Here) /\ Append(node, e) \in view.nodes), Skip(next)
  PROVE  IInv'
<1>1. \A t \in Claimable : ~Through(t, e)
  BY NoSuchBranch
<1> QED BY <1>1, GiveUpBranch DEF Skip

\* Descending into a child: a call on it, its terminal, or nothing.
LEMMA DescendStep ==
  ASSUME IInv, Running, NEW e \in {Here, Star}, NEW next, Branch(e, next), Takes(e, Here),
         Append(node, e) \in view.nodes, Descend(Append(node, e), next)
  PROVE  IInv'
<1> DEFINE child == Append(node, e)
           slot == IF EndsAt(Depth + 1, path) THEN "leaf" ELSE "leaf_slash"
<1>1. /\ Len(child) = Depth + 1 /\ child[Depth + 1] = e
      /\ \A j \in 1..Depth : child[j] = node[j]
  BY ChildShape
<1>2. Depth \in Nat /\ next \in {"wildcard", "catchall"}
  BY RunningFacts DEF Branch
<1>3. CASE MoreAt(Depth + 1, path)
  <2>1. /\ node' = child /\ UNCHANGED <<arguments, outcome>>
        /\ stages' = Append([stages EXCEPT ![Depth + 1] = next], "literal")
    BY <1>3 DEF Descend
  <2>2. /\ stages' \in Seq({"literal", "wildcard", "catchall"}) /\ Len(stages') = Depth + 2
        /\ stages'[Depth + 2] = "literal" /\ stages'[Depth + 1] = next
        /\ \A i \in 1..Depth : stages'[i] = stages[i]
    BY <1>2, <2>1, RunningFacts, PushedStack
  <2>3. Depth' = Depth + 1
    BY <1>1, <2>1 DEF Depth
  <2>4. node'[Depth + 1] = e /\ \A j \in 1..Depth : node'[j] = node[j]
    BY <1>1, <2>1
  <2> QED BY <1>3, <2>1, <2>2, <2>3, <2>4, EnterChild
<1>4. CASE ~MoreAt(Depth + 1, path) /\ Available(child, slot)
  <2> DEFINE t == [node |-> child, slot |-> slot]
  <2>1. outcome' = Claimed(t) /\ UNCHANGED <<arguments, node, stages>>
    BY <1>4 DEF Descend, Claim
  <2>2. t \in Claimable
    <3>1. Fits(child, path)
      <4>1. \A j \in 1..Depth : Takes(child[j], path[j])
        BY <1>1, RunningFacts DEF Fits, Depth
      <4>2. Takes(child[Depth + 1], path[Depth + 1])
        BY <1>1 DEF Here
      <4> HIDE DEF child
      <4> QED BY <1>1, <1>2, <4>1, <4>2, RunningFacts DEF Fits
    <3>2. EndsAt(Depth + 1, path) \/ SlashAt(Depth + 1, path)
      BY <1>2, <1>4, RunningFacts DEF MoreAt, EndsAt
    <3>3. Claims(t, path)
      <4> HIDE DEF child
      <4> QED BY <1>1, <1>2, <3>1, <3>2, RunningFacts DEF Claims
    <3>4. t \in DOMAIN view.rule \ ignored
      BY <1>4 DEF Available
    <3> QED BY <3>3, <3>4 DEF Claimable, Candidates
  <2>3. \/ t.node = Append(node, Here) /\ Here # Star
        \/ t.node = Append(node, Star) /\ Stage = "wildcard"
    BY RunningFacts, SegmentsAssumption DEF Branch
  <2>4. IsBest(t, Claimable)
    <3> HIDE DEF t
    <3> QED BY <1>4, <2>2, <2>3, ClaimIsBest
  <2> HIDE DEF t
  <2> QED BY <2>1, <2>2, <2>4, ClaimStep
<1>5. CASE ~MoreAt(Depth + 1, path) /\ ~Available(child, slot)
  <2>1. /\ stages' = [stages EXCEPT ![Depth + 1] = next]
        /\ UNCHANGED <<arguments, node, outcome>>
    BY <1>5 DEF Descend
  <2>2. ASSUME NEW t \in Claimable, Through(t, e) PROVE FALSE
    <3>1. t.node = child /\ t.slot = slot
      BY <1>5, <2>2, EndsInChild
    <3>2. t \in DOMAIN view.rule \ ignored /\ t = [node |-> t.node, slot |-> t.slot]
      BY RunningFacts, CandidateShape DEF Claimable, IInv, Arguments
    <3> QED BY <1>5, <3>1, <3>2 DEF Available
  <2> QED BY <2>1, <2>2, GiveUpBranch
<1> QED BY <1>3, <1>4, <1>5

-----------------------------------------------------------------------------
\* A call whose catch-all finds nothing leaves nothing claimable below its node.
LEMMA NothingBelow ==
  ASSUME IInv, Running, Stage = "catchall", ~Available(node, "catchall"),
         NEW t \in Claimable, Len(t.node) >= Depth, \A j \in 1..Depth : t.node[j] = node[j]
  PROVE  FALSE
<1>1. /\ t.node \in Addresses /\ t.slot \in Slots /\ t \in DOMAIN view.rule \ ignored
      /\ t = [node |-> t.node, slot |-> t.slot] /\ Fits(t.node, path)
      /\ t.slot = "leaf" => EndsAt(Len(t.node), path)
      /\ t.slot = "leaf_slash" => SlashAt(Len(t.node), path)
  BY RunningFacts, CandidateShape DEF Claimable, IInv, Arguments
<1>2. Depth \in Nat /\ Len(t.node) \in Nat /\ node \in Addresses /\ Depth = Len(node)
  BY <1>1, RunningFacts DEF Addresses, Depth
<1>3. CASE Len(t.node) >= Depth + 1
  <2>1. Depth + 1 \in 1..(Depth + 1) /\ \A j \in 1..((Depth + 1) - 1) : t.node[j] = node[j]
    BY <1>2
  <2>2. \/ stages[Depth + 1] = "literal"
        \/ stages[Depth + 1] = "wildcard" /\ t.node[Depth + 1] = Star
        \/ Depth + 1 <= Depth /\ t.node[Depth + 1] = node[Depth + 1]
    BY <1>3, <2>1, RunningFacts DEF IInv, NothingGivenUp
  <2> QED BY <1>2, <2>2 DEF Stage
<1>4. CASE Len(t.node) = Depth
  <2>1. t.node = node
    BY <1>1, <1>2, <1>4 DEF Addresses
  <2>2. t.slot = "catchall"
    BY <1>1, <1>2, <2>1, RunningFacts DEF Slots, MoreAt, EndsAt
  <2> QED BY <1>1, <2>1, <2>2 DEF Available
<1> QED BY <1>2, <1>3, <1>4

\* Returning to the caller.
LEMMA ReturnStep ==
  ASSUME IInv, Running, Stage = "catchall", ~Available(node, "catchall"), Depth # 0,
         node' = SubSeq(node, 1, Depth - 1), stages' = SubSeq(stages, 1, Depth),
         UNCHANGED <<arguments, outcome>>
  PROVE  IInv'
<1>1. UNCHANGED <<view, path, ignored, outcome>> /\ Claimable' = Claimable
  BY DEF arguments, Claimable
<1>2. Depth \in Nat \ {0} /\ node \in Addresses /\ Depth = Len(node)
  BY RunningFacts DEF Depth
<1>3. /\ node' \in view.nodes /\ Len(node') = Depth - 1
      /\ \A j \in 1..(Depth - 1) : node'[j] = node[j]
  <2>1. node' \in view.nodes
    BY <1>2, RunningFacts DEF IInv, Arguments, IsView
  <2> QED BY <1>2, <2>1 DEF Addresses
<1>4. Depth' = Depth - 1
  BY <1>3 DEF Depth
<1>5. /\ stages' \in Seq({"literal", "wildcard", "catchall"}) /\ Len(stages') = Depth
      /\ \A i \in 1..Depth : stages'[i] = stages[i]
  BY <1>2, RunningFacts
<1>6. Arguments'
  BY <1>1 DEF IInv, Arguments
<1>7. TypeOK'
  <2>1. Fits(node', path)
    <3>1. Depth <= Len(path) /\ \A j \in 1..Depth : Takes(node[j], path[j])
      BY <1>2, RunningFacts DEF Fits
    <3>2. \A j \in 1..(Depth - 1) : Takes(node'[j], path[j])
      BY <1>2, <1>3, <3>1
    <3>3. Len(path) \in Nat
      BY RunningFacts
    <3> QED BY <1>2, <1>3, <3>1, <3>2, <3>3 DEF Fits
  <2>2. MoreAt(Depth - 1, path)
    BY <1>2, RunningFacts DEF MoreAt, SlashAt
  <2>3. ASSUME NEW i \in 1..(Depth - 1)
        PROVE  \/ stages'[i] = "wildcard" /\ node'[i] = path[i]
               \/ stages'[i] = "catchall" /\ node'[i] = Star
    <3>1. \A j \in 1..Depth : \/ stages[j] = "wildcard" /\ node[j] = path[j]
                              \/ stages[j] = "catchall" /\ node[j] = Star
      BY RunningFacts DEF IInv, TypeOK
    <3>2. i \in 1..Depth
      BY <1>2
    <3> QED BY <1>3, <1>5, <3>1, <3>2
  <2>4. Len(stages') = (Depth - 1) + 1
    BY <1>2, <1>5
  <2> QED BY <1>1, <1>3, <1>4, <1>5, <2>1, <2>2, <2>3, <2>4, RunningFacts DEF IInv, TypeOK
<1>8. NothingGivenUp'
  <2>1. SUFFICES ASSUME NEW t \in Claimable, NEW i \in 1..Depth, Len(t.node) >= i,
                        \A j \in 1..(i - 1) : t.node[j] = node'[j]
                 PROVE  \/ stages'[i] = "literal"
                        \/ stages'[i] = "wildcard" /\ t.node[i] = Star
                        \/ i <= Depth - 1 /\ t.node[i] = node'[i]
    <3>1. Depth' + 1 = Depth /\ path' = path
      BY <1>1, <1>2, <1>4
    <3>2. SUFFICES ASSUME NEW t \in Claimable', NEW i \in 1..(Depth' + 1), Len(t.node) >= i,
                          \A j \in 1..(i - 1) : t.node[j] = node'[j]
                   PROVE  \/ stages'[i] = "literal"
                          \/ stages'[i] = "wildcard" /\ t.node[i] = Star
                          \/ i <= Depth' /\ t.node[i] = node'[i]
      BY DEF NothingGivenUp
    <3> QED BY <1>1, <1>4, <2>1, <3>1, <3>2
  <2>2. \A j \in 1..(i - 1) : t.node[j] = node[j]
    BY <1>2, <1>3, <2>1
  <2>3. i \in 1..(Depth + 1)
    BY <1>2
  <2>4. \/ stages[i] = "literal"
        \/ stages[i] = "wildcard" /\ t.node[i] = Star
        \/ i <= Depth /\ t.node[i] = node[i]
    BY <2>1, <2>2, <2>3, RunningFacts DEF IInv, NothingGivenUp
  <2>5. CASE i = Depth /\ t.node[i] = node[i]
    <3>1. \A j \in 1..Depth : t.node[j] = node[j]
      BY <1>2, <2>2, <2>5
    <3>2. Len(t.node) >= Depth
      BY <2>1, <2>5
    <3> QED BY <3>1, <3>2, NothingBelow
  <2>6. CASE i # Depth
    BY <1>2, <1>3, <1>5, <2>4, <2>6
  <2>7. CASE i = Depth /\ t.node[i] # node[i]
    BY <1>5, <2>4, <2>7
  <2> QED BY <2>5, <2>6, <2>7
<1>9. ClaimsBestMatch'
  BY <1>1, RunningFacts DEF ClaimsBestMatch
<1> QED BY <1>6, <1>7, <1>8, <1>9 DEF IInv

\* The last branch of a call.
LEMMA CatchAllStep ==
  ASSUME IInv, TryCatchAll
  PROVE  IInv'
<1>1. Running /\ Stage = "catchall" /\ UNCHANGED arguments
  BY DEF TryCatchAll
<1>2. CASE Available(node, "catchall")
  <2> DEFINE t == [node |-> node, slot |-> "catchall"]
  <2>1. outcome' = Claimed(t) /\ UNCHANGED <<arguments, node, stages>>
    BY <1>1, <1>2 DEF TryCatchAll, Claim
  <2>2. Claims(t, path)
    BY <1>1, RunningFacts DEF Claims, Depth
  <2>3. t \in Claimable
    BY <1>2, <2>2 DEF Claimable, Candidates, Available
  <2>4. t.node = node
    OBVIOUS
  <2> HIDE DEF t
  <2>5. IsBest(t, Claimable)
    BY <1>1, <2>3, <2>4, ClaimIsBest
  <2> QED BY <1>1, <2>1, <2>3, <2>5, ClaimStep
<1>3. CASE ~Available(node, "catchall") /\ Depth = 0
  <2>1. outcome' = NoMatch /\ UNCHANGED <<arguments, node, stages>>
    BY <1>1, <1>3 DEF TryCatchAll
  <2>2. Claimable = {}
    <3>1. ASSUME NEW t \in Claimable PROVE FALSE
      <4>1. Len(t.node) \in Nat
        BY <1>1, RunningFacts, CandidateShape DEF Claimable, IInv, Arguments, Addresses
      <4> QED BY <1>1, <1>3, <4>1, NothingBelow
    <3> QED BY <3>1
  <2>3. UNCHANGED <<view, path, ignored, node, stages>> /\ Depth' = Depth /\ Claimable' = Claimable
    BY <2>1 DEF arguments, Depth, Claimable
  <2>4. ~outcome'.found /\ outcome'.over
    BY <2>1 DEF NoMatch
  <2>5. Arguments' /\ TypeOK'
    BY <2>1, <2>3, <2>4 DEF IInv, Arguments, TypeOK
  <2>6. NothingGivenUp' /\ ClaimsBestMatch'
    BY <2>2, <2>3, <2>4 DEF NothingGivenUp, ClaimsBestMatch
  <2> QED BY <2>5, <2>6 DEF IInv
<1>4. CASE ~Available(node, "catchall") /\ Depth # 0
  BY <1>1, <1>4, ReturnStep DEF TryCatchAll
<1> QED BY <1>2, <1>3, <1>4

\* The bare root claims the leaf of the root or nothing.
LEMMA BareRootStep ==
  ASSUME IInv, MatchBareRoot
  PROVE  IInv'
<1>1. path = Bare /\ UNCHANGED <<view, path, ignored, node, stages>>
  BY DEF MatchBareRoot, arguments
<1>2. Depth' = Depth /\ Claimable' = Claimable
  BY <1>1 DEF Depth, Claimable
<1>3. ASSUME NEW c \in Claimable
      PROVE  c = [node |-> << >>, slot |-> "leaf"] /\ c \in DOMAIN view.rule \ ignored
  <2>1. c \in DOMAIN view.rule \ ignored /\ Claims(c, Bare)
    BY <1>1 DEF Claimable, Candidates
  <2>2. Len(c.node) = 0 /\ c.slot = "leaf"
    BY <2>1 DEF Claims
  <2>3. c \in Terminals
    BY <2>1 DEF IInv, Arguments, IsView
  <2>4. c = [node |-> c.node, slot |-> c.slot] /\ c.node = << >>
    BY <2>2, <2>3 DEF Terminals, Addresses
  <2> QED BY <2>1, <2>2, <2>4
<1>4. Arguments'
  BY <1>1 DEF IInv, Arguments
<1>5. CASE Available(<< >>, "leaf")
  <2> DEFINE t == [node |-> << >>, slot |-> "leaf"]
  <2>1. outcome' = Claimed(t)
    BY <1>5 DEF MatchBareRoot, Claim
  <2>2. t \in Terminals /\ t \in DOMAIN view.rule \ ignored
    BY <1>5 DEF Available, IInv, Arguments, IsView
  <2>3. Claims(t, path)
    BY <1>1 DEF Claims
  <2>4. t \in Claimable
    BY <2>2, <2>3 DEF Claimable, Candidates
  <2>5. IsBest(t, Claimable)
    BY <1>3, <2>4 DEF IsBest, Precedes
  <2> HIDE DEF t
  <2>6. outcome'.found /\ outcome'.over /\ outcome'.terminal = t
    BY <2>1 DEF Claimed
  <2>7. TypeOK'
    BY <1>1, <2>1, <2>2, <2>6 DEF IInv, TypeOK, Claimed
  <2>8. NothingGivenUp' /\ ClaimsBestMatch'
    BY <1>2, <2>5, <2>6 DEF NothingGivenUp, ClaimsBestMatch
  <2> QED BY <1>4, <2>7, <2>8 DEF IInv
<1>6. CASE ~Available(<< >>, "leaf")
  <2>1. outcome' = NoMatch
    BY <1>6 DEF MatchBareRoot
  <2>2. Claimable = {}
    BY <1>3, <1>6 DEF Available
  <2>3. ~outcome'.found /\ outcome'.over
    BY <2>1 DEF NoMatch
  <2>4. TypeOK'
    BY <1>1, <2>1, <2>3 DEF IInv, TypeOK
  <2>5. NothingGivenUp' /\ ClaimsBestMatch'
    BY <1>2, <2>2, <2>3 DEF NothingGivenUp, ClaimsBestMatch
  <2> QED BY <1>4, <2>4, <2>5 DEF IInv
<1> QED BY <1>5, <1>6

-----------------------------------------------------------------------------
LEMMA InitIInv == Init => IInv
<1> SUFFICES ASSUME Init PROVE IInv
  OBVIOUS
<1>1. Arguments
  BY ViewsAssumption, RequestsAssumption DEF Init, Arguments
<1>2. ~outcome.over /\ ~outcome.found /\ outcome = Searching
  BY DEF Init, Searching
<1>3. node = << >> /\ Depth = 0 /\ stages = <<"literal">>
  BY DEF Init, Depth
<1>4. TypeOK
  <2>1. ASSUME path # Bare PROVE MoreAt(0, path)
    <3>1. path \in Seq(Segments \cup {Empty}) /\ Len(path) # 0
      BY <1>1 DEF Arguments, Paths
    <3>2. ~(Len(path) = 1 /\ path[1] = Empty)
      BY <2>1, <3>1 DEF Bare
    <3> QED BY <3>1, <3>2 DEF MoreAt, SlashAt
  <2>2. Len(path) \in Nat
    BY <1>1 DEF Arguments, Paths
  <2>3. Fits(<< >>, path)
    BY <2>2 DEF Fits
  <2>4. << >> \in view.nodes
    BY <1>1 DEF Arguments, IsView
  <2>5. /\ stages \in Seq({"literal", "wildcard", "catchall"}) /\ Len(stages) = 0 + 1
    BY <1>3
  <2> QED BY <1>2, <1>3, <2>1, <2>3, <2>4, <2>5 DEF TypeOK
<1>5. NothingGivenUp
  BY <1>3 DEF NothingGivenUp
<1>6. ClaimsBestMatch
  BY <1>2 DEF ClaimsBestMatch
<1> QED BY <1>1, <1>4, <1>5, <1>6 DEF IInv

LEMMA NextIInv == IInv /\ [Next]_vars => IInv'
<1> SUFFICES ASSUME IInv, [Next]_vars PROVE IInv'
  OBVIOUS
<1>1. CASE TryLiteral
  <2>1. Running /\ Branch(Here, "wildcard") /\ Takes(Here, Here)
    BY <1>1 DEF TryLiteral, Branch, Takes
  <2>2. CASE Append(node, Here) \in view.nodes
    BY <1>1, <2>1, <2>2, DescendStep DEF TryLiteral
  <2>3. CASE Append(node, Here) \notin view.nodes
    BY <1>1, <2>1, <2>3, SkipStep DEF TryLiteral
  <2> QED BY <2>2, <2>3
<1>2. CASE TryWildcard
  <2>1. Running /\ Branch(Star, "catchall")
    BY <1>2 DEF TryWildcard, Branch
  <2>2. Takes(Star, Here) <=> Here # Empty
    BY <2>1, RunningFacts, SegmentsAssumption DEF Takes
  <2>3. CASE Here # Empty /\ Append(node, Star) \in view.nodes
    BY <1>2, <2>1, <2>2, <2>3, DescendStep DEF TryWildcard
  <2>4. CASE ~(Here # Empty /\ Append(node, Star) \in view.nodes)
    BY <1>2, <2>1, <2>2, <2>4, SkipStep DEF TryWildcard
  <2> QED BY <2>3, <2>4
<1>3. CASE TryCatchAll
  BY <1>3, CatchAllStep
<1>4. CASE MatchBareRoot
  BY <1>4, BareRootStep
<1>5. CASE UNCHANGED vars
  <2>1. UNCHANGED <<view, path, ignored, node, stages, outcome>>
    BY <1>5 DEF vars
  <2>2. Depth' = Depth /\ Claimable' = Claimable
    BY <2>1 DEF Depth, Claimable
  <2>3. Arguments' /\ TypeOK'
    BY <2>1, <2>2 DEF IInv, Arguments, TypeOK
  <2>4. NothingGivenUp' /\ ClaimsBestMatch'
    BY <2>1, <2>2 DEF IInv, NothingGivenUp, ClaimsBestMatch
  <2> QED BY <2>3, <2>4 DEF IInv
<1> QED BY <1>1, <1>2, <1>3, <1>4, <1>5 DEF Next

\* In every reachable state of the matcher the inductive invariant holds.
THEOREM Invariance == Spec => []IInv
<1>1. Init => IInv
  BY InitIInv
<1>2. IInv /\ [Next]_vars => IInv'
  BY NextIInv
<1> QED BY <1>1, <1>2, PTL DEF Spec

\* The call stack of route_skipping fits the path and its calls wait where they should.
THEOREM TypeCorrect == Spec => []TypeOK
<1>1. IInv => TypeOK
  BY DEF IInv
<1> QED BY <1>1, Invariance, PTL

\* Backtracking claims the terminal of highest precedence, or finds that none matches,
\* for every view, path and ignored terminal (Router::at, route_skipping, descend).
THEOREM BestMatchClaimed == Spec => []ClaimsBestMatch
<1>1. IInv => ClaimsBestMatch
  BY DEF IInv
<1> QED BY <1>1, Invariance, PTL

\* The walk never abandons a branch that still holds a claimable terminal.
THEOREM NoBranchLost == Spec => []NothingGivenUp
<1>1. IInv => NothingGivenUp
  BY DEF IInv
<1> QED BY <1>1, Invariance, PTL

-----------------------------------------------------------------------------
(***************************************************************************)
(* The walk implements the one-step lookup.                                *)
(***************************************************************************)
\* A lookup over NoMatch and Claimed answers is the one Matcher makes.
LEMMA SameAnswers ==
  /\ Caller!Searching = Searching /\ Caller!NoMatch = NoMatch
  /\ \A t : Caller!Claimed(t) = Claimed(t)
BY DEF Caller!Searching, Caller!NoMatch, Caller!Claimed, Searching, NoMatch, Claimed

\* The lookup speaks of the same tree: its operators are those of RouteTree.
LEMMA SamePaths == Caller!Paths = Paths
BY DEF Caller!Paths, Paths

LEMMA SameViews == \A v : Caller!IsView(v) <=> IsView(v)
<1>1. Caller!Addresses = Addresses /\ Caller!Slots = Slots
  BY DEF Caller!Addresses, Addresses, Caller!Slots, Slots
<1>2. Caller!Terminals = Terminals
  BY <1>1 DEF Caller!Terminals, Terminals
<1> QED BY <1>1, <1>2 DEF Caller!IsView, IsView

LEMMA SameCandidates ==
  \A v, p, i : Caller!Candidates(v, p, i) = Candidates(v, p, i)
<1>1. \A n, p : Caller!Fits(n, p) <=> Fits(n, p)
  BY DEF Caller!Fits, Fits, Caller!Takes, Takes
<1>2. \A d, p : /\ Caller!EndsAt(d, p) <=> EndsAt(d, p)
                /\ Caller!SlashAt(d, p) <=> SlashAt(d, p)
                /\ Caller!MoreAt(d, p) <=> MoreAt(d, p)
  BY DEF Caller!EndsAt, EndsAt, Caller!SlashAt, SlashAt, Caller!MoreAt, MoreAt
<1>3. \A t, p : Caller!Claims(t, p) <=> Claims(t, p)
  BY <1>1, <1>2 DEF Caller!Claims, Claims, Caller!Bare, Bare
<1> QED BY <1>3 DEF Caller!Candidates, Candidates

LEMMA SameBest == \A t, C : Caller!IsBest(t, C) <=> IsBest(t, C)
<1>1. \A m, n : Caller!Precedes(m, n) <=> Precedes(m, n)
  BY DEF Caller!Precedes, Precedes
<1> QED BY <1>1 DEF Caller!IsBest, IsBest

LEMMA InitRefines == Init => Caller!Init
<1>1. SUFFICES ASSUME Init PROVE Caller!Init
  OBVIOUS
<1>2. IsView(view) /\ path \in Paths
  BY <1>1, ViewsAssumption, RequestsAssumption DEF Init
<1> QED BY <1>1, <1>2, SameAnswers, SamePaths, SameViews, SameCandidates, SameBest
  DEF Init, Caller!Init, Bare, Caller!Bare

\* No step changes the arguments, and a step that changes the outcome ends a search.
LEMMA StepShape ==
  [Next]_vars => /\ UNCHANGED arguments
                 /\ outcome' = outcome \/ (~outcome.over /\ outcome'.over)
<1>1. SUFFICES ASSUME [Next]_vars
               PROVE  UNCHANGED arguments /\ (outcome' = outcome \/ (~outcome.over /\ outcome'.over))
  OBVIOUS
<1>2. NoMatch.over /\ \A t : Claimed(t).over
  BY DEF NoMatch, Claimed
<1>3. ASSUME Running, NEW child, NEW next, Descend(child, next)
      PROVE  UNCHANGED arguments /\ (outcome' = outcome \/ (~outcome.over /\ outcome'.over))
  BY <1>2, <1>3 DEF Running, Descend, Claim
<1>4. ASSUME NEW next, Skip(next) PROVE UNCHANGED arguments /\ outcome' = outcome
  BY <1>4 DEF Skip
<1>5. CASE TryLiteral
  BY <1>3, <1>4, <1>5 DEF TryLiteral
<1>6. CASE TryWildcard
  BY <1>3, <1>4, <1>6 DEF TryWildcard
<1>7. CASE TryCatchAll
  BY <1>2, <1>7 DEF TryCatchAll, Running, Claim
<1>8. CASE MatchBareRoot
  BY <1>2, <1>8 DEF MatchBareRoot, Claim
<1>9. CASE UNCHANGED vars
  BY <1>9 DEF vars, arguments
<1> QED BY <1>1, <1>5, <1>6, <1>7, <1>8, <1>9 DEF Next

\* A step that ends the search is the step of the lookup, any other one a stutter.
LEMMA StepRefines == IInv /\ IInv' /\ [Next]_vars => [Caller!Answer]_(Caller!vars)
<1>1. SUFFICES ASSUME IInv, IInv', [Next]_vars PROVE [Caller!Answer]_(Caller!vars)
  OBVIOUS
<1>2. UNCHANGED <<view, path, ignored>>
  BY <1>1, StepShape DEF arguments
<1>3. CASE outcome' = outcome
  BY <1>2, <1>3 DEF Caller!vars
<1>4. CASE ~outcome.over /\ outcome'.over
  <2>1. outcome = Searching
    <3>1. CASE outcome.found
      BY <1>1, <1>4, <3>1 DEF IInv, TypeOK, Claimed
    <3>2. CASE ~outcome.found
      BY <1>1, <1>4, <3>2 DEF IInv, TypeOK, Searching, NoMatch
    <3> QED BY <3>1, <3>2
  <2>2. Claimable' = Candidates(view, path, ignored)
    BY <1>2 DEF Claimable
  <2>3. CASE outcome'.found
    <3>1. outcome' = Claimed(outcome'.terminal)
      BY <1>1, <2>3 DEF IInv, TypeOK
    <3>2. IsBest(outcome'.terminal, Candidates(view, path, ignored))
      BY <1>1, <1>4, <2>2, <2>3 DEF IInv, ClaimsBestMatch
    <3>3. outcome'.terminal \in Candidates(view, path, ignored)
      BY <3>2 DEF IsBest
    <3> QED BY <1>2, <2>1, <3>1, <3>2, <3>3, SameAnswers, SameCandidates, SameBest DEF Caller!Answer
  <2>4. CASE ~outcome'.found
    <3>1. outcome' = NoMatch
      BY <1>1, <1>4, <2>4 DEF IInv, TypeOK, Searching, NoMatch
    <3>2. Candidates(view, path, ignored) = {}
      BY <1>1, <1>4, <2>2, <2>4 DEF IInv, ClaimsBestMatch
    <3> QED BY <1>2, <2>1, <3>1, <3>2, SameAnswers, SameCandidates, SameBest DEF Caller!Answer
  <2> QED BY <2>3, <2>4
<1> QED BY <1>1, <1>3, <1>4, StepShape

\* The walk implements the lookup its callers rely on, in every view and for every
\* path: one answer, the best match or none, and nothing else observable.  (That it
\* always answers is left to the model checker.)
THEOREM RefinesLookup == Spec => Caller!Safety
<1>1. Init => Caller!Init
  BY InitRefines
<1>2. IInv /\ IInv' /\ [Next]_vars => [Caller!Answer]_(Caller!vars)
  BY StepRefines
<1> QED BY <1>1, <1>2, Invariance, PTL DEF Spec, Caller!Safety
=============================================================================
