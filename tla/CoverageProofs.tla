--------------------------- MODULE CoverageProofs ---------------------------
(***************************************************************************)
(* For every view and anchor the coverage walk reports exactly the rules a *)
(* path extending the anchor can match.  The inductive invariant is that   *)
(* the walk has gathered what the nodes behind it contribute, and that     *)
(* none of them would have ended it.                                       *)
(***************************************************************************)
EXTENDS Coverage, PathProofs

-----------------------------------------------------------------------------
(***************************************************************************)
(* What lies behind a walk at node n in the given stage: the branches its  *)
(* calls have left.  A call waiting in its wildcard branch has left its    *)
(* literal one.                                                            *)
(***************************************************************************)
Through(m, n, e) ==
  /\ Len(m) > Len(n)
  /\ \A j \in 1..Len(n) : m[j] = n[j]
  /\ m[Len(n) + 1] = e

Below(m, n) == Len(m) > Len(n) /\ \A j \in 1..Len(n) : m[j] = n[j]

PassedAt(m, n, stage, k) ==
  /\ Len(m) >= k
  /\ \A j \in 1..(k - 1) : m[j] = n[j]
  /\ \/ k <= Len(n) /\ n[k] = Star /\ m[k] # Star
     \/ k = Len(n) + 1 /\ stage = "wildcard" /\ m[k] # Star
     \/ k = Len(n) + 1 /\ stage = "catchall"

Passed(m, n, stage) == \E k \in 1..(Len(n) + 1) : PassedAt(m, n, stage, k)

Behind(v, q, n, stage) == {m \in Along(v, q) : Passed(m, n, stage)}

\* The branch a call of the walk takes in a stage, and its next stage.
Turn(stage, e, next, here) ==
  \/ stage = "literal" /\ e = here /\ next = "wildcard"
  \/ stage = "wildcard" /\ e = Star /\ next = "catchall"

\* A call waits in the branch by edge e when its next stage is the one after it.
Waits(e, next, here) ==
  \/ next = "wildcard" /\ e = here
  \/ next = "catchall" /\ e = Star

\* A node with the edges above it and a child of it.
LEMMA ChildOf ==
  ASSUME NEW n \in Addresses, NEW e \in Segments \cup {Star}
  PROVE  /\ Append(n, e) \in Addresses /\ Len(Append(n, e)) = Len(n) + 1 /\ Len(n) \in Nat
         /\ \A j \in 1..Len(n) : Append(n, e)[j] = n[j]
         /\ Append(n, e)[Len(n) + 1] = e
BY AppendProperties DEF Addresses

LEMMA AlongFacts ==
  ASSUME NEW v, IsView(v), NEW q \in Seq(Segments), NEW m \in Along(v, q)
  PROVE  /\ m \in Addresses /\ m \in v.nodes /\ Len(m) \in Nat /\ Len(q) \in Nat
         /\ Len(m) <= Len(q)
         /\ \A i \in 1..Len(m) : m[i] = q[i] \/ m[i] = Star
         /\ \A i \in 1..Len(q) : q[i] \in Segments /\ q[i] # Star /\ q[i] # Empty
<1>1. m \in v.nodes /\ m \in Addresses /\ Fits(m, q)
  BY DEF Along, IsView
<1>2. \A i \in 1..Len(q) : q[i] \in Segments /\ q[i] # Star /\ q[i] # Empty
  BY SegmentsAssumption
<1>3. Len(m) \in Nat /\ Len(q) \in Nat
  BY <1>1 DEF Addresses
<1> QED BY <1>1, <1>2, <1>3 DEF Fits, Takes

\* Leaving a branch puts behind what goes through it.
LEMMA LeaveBranch ==
  ASSUME NEW v, IsView(v), NEW q \in Seq(Segments), NEW n \in Along(v, q), Len(n) < Len(q),
         NEW stage, NEW e, NEW next, Turn(stage, e, next, q[Len(n) + 1]),
         NEW m \in Along(v, q)
  PROVE  Passed(m, n, next) <=> (Passed(m, n, stage) \/ Through(m, n, e))
<1>1. /\ Len(n) \in Nat /\ Len(m) \in Nat /\ q[Len(n) + 1] # Star
      /\ Len(m) >= Len(n) + 1 => m[Len(n) + 1] = q[Len(n) + 1] \/ m[Len(n) + 1] = Star
  BY AlongFacts
<1>2. \A k \in 1..Len(n) : PassedAt(m, n, next, k) <=> PassedAt(m, n, stage, k)
  BY <1>1 DEF PassedAt
<1>3. PassedAt(m, n, next, Len(n) + 1)
        <=> PassedAt(m, n, stage, Len(n) + 1) \/ Through(m, n, e)
  BY <1>1 DEF PassedAt, Through, Turn
<1>4. \A k \in 1..(Len(n) + 1) : k \in 1..Len(n) \/ k = Len(n) + 1
  BY <1>1
<1>5. Len(n) + 1 \in 1..(Len(n) + 1) /\ \A k \in 1..Len(n) : k \in 1..(Len(n) + 1)
  BY <1>1
<1> QED BY <1>2, <1>3, <1>4, <1>5 DEF Passed

\* A call on a child leaves behind what its caller had.
LEMMA EnterChild ==
  ASSUME NEW v, IsView(v), NEW q \in Seq(Segments), NEW n \in Along(v, q), Len(n) < Len(q),
         NEW stage, NEW e, NEW next, Turn(stage, e, next, q[Len(n) + 1]),
         NEW m \in Along(v, q)
  PROVE  Passed(m, Append(n, e), "literal") <=> Passed(m, n, stage)
<1> DEFINE c == Append(n, e)
<1>1. /\ Len(n) \in Nat /\ Len(m) \in Nat /\ q[Len(n) + 1] # Star /\ n \in Addresses
      /\ q[Len(n) + 1] \in Segments
  BY AlongFacts
<1>2. e \in Segments \cup {Star}
  BY <1>1 DEF Turn
<1>3. Len(c) = Len(n) + 1 /\ c[Len(n) + 1] = e /\ \A j \in 1..Len(n) : c[j] = n[j]
  BY <1>1, <1>2, ChildOf
<1> HIDE DEF c
<1>4. \A k \in 1..Len(n) : PassedAt(m, c, "literal", k) <=> PassedAt(m, n, stage, k)
  BY <1>1, <1>3 DEF PassedAt
<1>5. PassedAt(m, c, "literal", Len(n) + 1) <=> PassedAt(m, n, stage, Len(n) + 1)
  BY <1>1, <1>3 DEF PassedAt, Turn
<1>6. ~PassedAt(m, c, "literal", Len(n) + 2)
  BY <1>1, <1>3 DEF PassedAt
<1>7. \A k \in 1..(Len(n) + 2) : k \in 1..Len(n) \/ k = Len(n) + 1 \/ k = Len(n) + 2
  BY <1>1
<1>8. \A k \in 1..(Len(n) + 1) : k \in 1..Len(n) \/ k = Len(n) + 1
  BY <1>1
<1>9. Len(n) + 1 \in 1..(Len(n) + 2) /\ \A k \in 1..Len(n) : k \in 1..(Len(n) + 2)
  BY <1>1
<1>10. Len(n) + 1 \in 1..(Len(n) + 1) /\ \A k \in 1..Len(n) : k \in 1..(Len(n) + 1)
  BY <1>1
<1>11. Len(c) + 1 = Len(n) + 2
  BY <1>1, <1>3
<1>12. Passed(m, c, "literal") <=> Passed(m, n, stage)
  BY <1>4, <1>5, <1>6, <1>7, <1>8, <1>9, <1>10, <1>11 DEF Passed
<1> QED BY <1>12 DEF c

\* What goes through a branch is the child or lies below it.
LEMMA ThroughChild ==
  ASSUME NEW v, IsView(v), NEW q \in Seq(Segments), NEW n \in Along(v, q), Len(n) < Len(q),
         NEW e \in Segments \cup {Star}, NEW m \in Along(v, q)
  PROVE  /\ Through(m, n, e) => Append(n, e) \in v.nodes
         /\ Len(n) + 1 = Len(q) => (Through(m, n, e) <=> m = Append(n, e))
         /\ Through(m, n, e) <=> (m = Append(n, e) \/ Below(m, Append(n, e)))
<1> DEFINE c == Append(n, e)
<1>1. /\ Len(n) \in Nat /\ Len(m) \in Nat /\ n \in Addresses /\ m \in Addresses
      /\ m \in v.nodes /\ Len(m) <= Len(q) /\ Len(q) \in Nat
  BY AlongFacts
<1>2. /\ c \in Addresses /\ Len(c) = Len(n) + 1 /\ c[Len(n) + 1] = e
      /\ \A j \in 1..Len(n) : c[j] = n[j]
  BY <1>1, ChildOf
<1> HIDE DEF c
<1>3. Through(m, n, e) <=> Len(m) > Len(n) /\ \A j \in 1..(Len(n) + 1) : m[j] = c[j]
  BY <1>1, <1>2 DEF Through
<1>4. Through(m, n, e) /\ Len(m) = Len(n) + 1 => m = c
  BY <1>1, <1>2, <1>3, SeqEqual DEF Addresses
<1>5. m = c => Through(m, n, e)
  BY <1>1, <1>2 DEF Through
<1>6. ASSUME Through(m, n, e) PROVE c \in v.nodes
  <2> DEFINE d == SubSeq(m, 1, Len(n) + 1)
  <2>1. Len(m) >= Len(n) + 1
    BY <1>1, <1>3, <1>6
  <2>2. d \in v.nodes
    BY <1>1, <2>1 DEF IsView
  <2>3. d \in Addresses /\ Len(d) = Len(n) + 1 /\ \A j \in 1..(Len(n) + 1) : d[j] = m[j]
    BY <1>1, <2>1 DEF Addresses
  <2> HIDE DEF d
  <2>4. d = c
    BY <1>1, <1>2, <1>3, <1>6, <2>3, SeqEqual DEF Addresses
  <2> QED BY <2>2, <2>4
<1>7. Len(n) + 1 = Len(q) => (Through(m, n, e) <=> m = c)
  BY <1>1, <1>3, <1>4, <1>5
<1>8. Through(m, n, e) <=> m = c \/ Below(m, c)
  BY <1>1, <1>2, <1>3, <1>4, <1>5 DEF Below
<1> QED BY <1>6, <1>7, <1>8 DEF c

\* A call that returns leaves behind what it had, and its node.
LEMMA ReturnFrom ==
  ASSUME NEW v, IsView(v), NEW q \in Seq(Segments), NEW n \in Along(v, q), Len(n) < Len(q),
         NEW e, NEW next, Waits(e, next, q[Len(n) + 1]),
         NEW m \in Along(v, q)
  PROVE  Passed(m, n, next) <=> (Passed(m, Append(n, e), "catchall") \/ m = Append(n, e))
<1> DEFINE c == Append(n, e)
<1>0. PICK stage \in {"literal", "wildcard"} : Turn(stage, e, next, q[Len(n) + 1])
  BY DEF Waits, Turn
<1>1. /\ Len(n) \in Nat /\ Len(m) \in Nat /\ n \in Addresses /\ q[Len(n) + 1] \in Segments
  BY AlongFacts
<1>2. e \in Segments \cup {Star}
  BY <1>0, <1>1 DEF Turn
<1>3. Len(c) = Len(n) + 1
  BY <1>1, <1>2, ChildOf
<1>4. /\ Passed(m, n, next) <=> Passed(m, n, stage) \/ Through(m, n, e)
      /\ Passed(m, c, "literal") <=> Passed(m, n, stage)
  BY <1>0, LeaveBranch, EnterChild
<1>5. Through(m, n, e) <=> (m = c \/ Below(m, c))
  BY <1>2, ThroughChild
<1> HIDE DEF c
<1>6. PassedAt(m, c, "catchall", Len(n) + 2)
        <=> Below(m, c)
  BY <1>1, <1>3 DEF PassedAt, Below
<1>7. \A k \in 1..(Len(n) + 1) : PassedAt(m, c, "catchall", k) <=> PassedAt(m, c, "literal", k)
  BY <1>1, <1>3 DEF PassedAt
<1>8. ~PassedAt(m, c, "literal", Len(n) + 2)
  BY <1>1, <1>3 DEF PassedAt
<1>9. \A k : k \in 1..(Len(c) + 1) <=> k \in 1..(Len(n) + 1) \/ k = Len(n) + 2
  BY <1>1, <1>3
<1>10. Passed(m, c, "catchall") <=> Passed(m, c, "literal") \/ PassedAt(m, c, "catchall", Len(n) + 2)
  BY <1>7, <1>8, <1>9 DEF Passed
<1>11. Passed(m, n, next) <=> Passed(m, c, "catchall") \/ m = c
  BY <1>4, <1>5, <1>6, <1>10
<1> QED BY <1>11 DEF c

\* Behind a walk at its catch-all lies what precedes its node.
LEMMA BehindNode ==
  ASSUME NEW v, IsView(v), NEW q \in Seq(Segments), NEW n \in Along(v, q), NEW m \in Along(v, q)
  PROVE  Passed(m, n, "catchall") <=> Precedes(m, n)
<1>1. Len(n) \in Nat /\ Len(m) \in Nat
  BY AlongFacts
<1>2. ASSUME NEW k \in 1..(Len(n) + 1), PassedAt(m, n, "catchall", k) PROVE Precedes(m, n)
  BY <1>1, <1>2 DEF PassedAt, Precedes
<1>3. ASSUME NEW k \in 1..Len(m), PrecedesAt(m, n, k)
      PROVE  k \in 1..(Len(n) + 1) /\ PassedAt(m, n, "catchall", k)
  BY <1>1, <1>3 DEF PassedAt, PrecedesAt
<1> QED BY <1>1, <1>2, <1>3 DEF Passed, Precedes, PrecedesAt

\* At the anchor's depth, what lies behind is what precedes the child.
LEMMA BehindChild ==
  ASSUME NEW v, IsView(v), NEW q \in Seq(Segments), NEW n \in Along(v, q), Len(n) + 1 = Len(q),
         NEW stage, NEW e, NEW next, Turn(stage, e, next, q[Len(n) + 1]),
         Append(n, e) \in Along(v, q), NEW m \in Along(v, q)
  PROVE  Passed(m, n, stage) <=> Precedes(m, Append(n, e))
<1> DEFINE c == Append(n, e)
<1>1. /\ Len(n) \in Nat /\ Len(m) \in Nat /\ n \in Addresses /\ q[Len(n) + 1] \in Segments
      /\ Len(m) <= Len(n) + 1 /\ Len(n) < Len(q)
  BY AlongFacts
<1>2. e \in Segments \cup {Star}
  BY <1>1 DEF Turn
<1>3. Len(c) = Len(n) + 1
  BY <1>1, <1>2, ChildOf
<1>4. Passed(m, c, "literal") <=> Passed(m, n, stage)
  BY <1>1, EnterChild
<1>5. Passed(m, c, "catchall") <=> Precedes(m, c)
  BY BehindNode
<1> HIDE DEF c
<1>6. \A k \in 1..(Len(c) + 1) : PassedAt(m, c, "literal", k) <=> PassedAt(m, c, "catchall", k)
  BY <1>1, <1>3 DEF PassedAt
<1>7. Passed(m, n, stage) <=> Precedes(m, c)
  BY <1>4, <1>5, <1>6 DEF Passed
<1> QED BY <1>7 DEF c

-----------------------------------------------------------------------------
(***************************************************************************)
(* The walk.                                                               *)
(***************************************************************************)
Arguments == IsView(view) /\ anchor \in Seq(Segments)

\* The call stack runs along the anchor; a waiting call is past the branch it waits in.
StackOK ==
  Walking =>
    /\ node \in Along(view, anchor) /\ Len(node) < Len(anchor)
    /\ stages \in Seq({"literal", "wildcard", "catchall"}) /\ Len(stages) = Len(node) + 1
    /\ \A i \in 1..Len(node) : \/ stages[i] = "wildcard" /\ node[i] = anchor[i]
                               \/ stages[i] = "catchall" /\ node[i] = Star

BehindWalk == Behind(view, anchor, node, Stage)

GathersBehind ==
  /\ status = "walking" /\ anchor = << >> => ids = {}
  /\ Walking => /\ ids = RulesAt(view, anchor, BehindWalk)
                /\ \A m \in BehindWalk : ~Completes(view, m, anchor)

\* The inductive invariant.
IInv == Arguments /\ StackOK /\ GathersBehind /\ WalkCollects

LEMMA WalkingFacts ==
  ASSUME IInv, Walking
  PROVE  /\ IsView(view) /\ anchor \in Seq(Segments) /\ anchor # << >> /\ status = "walking"
         /\ node \in Along(view, anchor) /\ node \in Addresses /\ node \in view.nodes
         /\ Depth = Len(node) /\ Depth \in Nat /\ Depth < Len(anchor) /\ Len(anchor) \in Nat
         /\ Here \in Segments /\ Here # Star /\ Here # Empty /\ Here = anchor[Depth + 1]
         /\ stages \in Seq({"literal", "wildcard", "catchall"}) /\ Len(stages) = Depth + 1
         /\ \A i \in 1..Depth : \/ stages[i] = "wildcard" /\ node[i] = anchor[i]
                                \/ stages[i] = "catchall" /\ node[i] = Star
         /\ ids = RulesAt(view, anchor, BehindWalk)
         /\ \A m \in BehindWalk : ~Completes(view, m, anchor)
<1>1. /\ IsView(view) /\ anchor \in Seq(Segments) /\ anchor # << >> /\ status = "walking"
      /\ node \in Along(view, anchor) /\ Len(node) < Len(anchor)
      /\ stages \in Seq({"literal", "wildcard", "catchall"}) /\ Len(stages) = Len(node) + 1
      /\ \A i \in 1..Len(node) : \/ stages[i] = "wildcard" /\ node[i] = anchor[i]
                                 \/ stages[i] = "catchall" /\ node[i] = Star
      /\ ids = RulesAt(view, anchor, BehindWalk)
      /\ \A m \in BehindWalk : ~Completes(view, m, anchor)
  BY DEF IInv, Arguments, StackOK, GathersBehind, Walking
<1>2. /\ node \in Addresses /\ node \in view.nodes /\ Len(node) \in Nat /\ Len(anchor) \in Nat
      /\ \A i \in 1..Len(anchor) : anchor[i] \in Segments /\ anchor[i] # Star /\ anchor[i] # Empty
  BY <1>1, AlongFacts
<1>3. Len(node) + 1 \in 1..Len(anchor)
  BY <1>1, <1>2
<1> QED BY <1>1, <1>2, <1>3 DEF Depth, Here

\* The set behind the walk and one more node determine the next one.
LEMMA StillWalking ==
  ASSUME Arguments, Walking, UNCHANGED arguments, status' = "walking",
         node' \in Along(view, anchor), Len(node') < Len(anchor),
         stages' \in Seq({"literal", "wildcard", "catchall"}), Len(stages') = Len(node') + 1,
         \A i \in 1..Len(node') : \/ stages'[i] = "wildcard" /\ node'[i] = anchor[i]
                                  \/ stages'[i] = "catchall" /\ node'[i] = Star,
         ids' = RulesAt(view, anchor, BehindWalk'),
         \A m \in BehindWalk' : ~Completes(view, m, anchor)
  PROVE  IInv'
<1>1. view' = view /\ anchor' = anchor /\ anchor # << >>
  BY DEF arguments, Walking
<1>2. Arguments' /\ StackOK' /\ WalkCollects'
  BY <1>1 DEF Arguments, StackOK, WalkCollects
<1>3. GathersBehind'
  BY <1>1 DEF GathersBehind
<1> QED BY <1>2, <1>3 DEF IInv

\* A walk that is over is correct when it holds the anchor's rules.
LEMMA WalkOver ==
  ASSUME Arguments, UNCHANGED arguments, status' # "walking", ids' = AnchorIds(view, anchor)
  PROVE  IInv'
BY DEF IInv, Arguments, arguments, StackOK, GathersBehind, WalkCollects, Walking

\* An initial walk is at the root with nothing behind it.
LEMMA InitCorrect ==
  ASSUME Init
  PROVE  IInv
<1>1. Arguments
  BY ViewsAssumption, AnchorsAssumption DEF Init, Arguments
<1>2. << >> \in Along(view, anchor) /\ Len(<< >>) = 0
  BY <1>1, EmptySeq DEF Arguments, Along, IsView, Fits
<1>3. Len(anchor) \in Nat /\ (anchor # << >> => 0 < Len(anchor))
  BY <1>1, EmptySeq DEF Arguments
<1>4. StackOK
  BY <1>2, <1>3 DEF Init, StackOK, Walking
<1>5. BehindWalk = {}
  BY <1>2 DEF Init, BehindWalk, Behind, Passed, PassedAt, Stage, Depth
<1>6. GathersBehind
  BY <1>5 DEF Init, GathersBehind, RulesAt
<1>7. WalkCollects
  BY DEF Init, WalkCollects
<1> QED BY <1>1, <1>4, <1>6, <1>7 DEF IInv

\* A branch: what goes through it is nowhere, left to a call on the child, or the
\* child itself.
LEMMA BranchStep ==
  ASSUME IInv, Walking, NEW e, NEW next, Turn(Stage, e, next, Here), Branch(Append(node, e), next)
  PROVE  IInv'
<1> DEFINE c == Append(node, e)
<1>1. UNCHANGED arguments /\ view' = view /\ anchor' = anchor
  BY DEF Branch, arguments
<1>2. /\ IsView(view) /\ anchor \in Seq(Segments) /\ anchor # << >> /\ status = "walking"
      /\ node \in Along(view, anchor) /\ node \in Addresses /\ Depth = Len(node) /\ Depth \in Nat
      /\ Len(node) < Len(anchor) /\ Len(anchor) \in Nat
      /\ Here # Star /\ Here \in Segments /\ Here # Empty /\ Here = anchor[Len(node) + 1]
      /\ stages \in Seq({"literal", "wildcard", "catchall"}) /\ Len(stages) = Len(node) + 1
  BY WalkingFacts
<1>3. e \in Segments \cup {Star} /\ Takes(e, Here) /\ next \in {"wildcard", "catchall"}
  BY <1>2 DEF Turn, Takes
<1>4. /\ c \in Addresses /\ Len(c) = Len(node) + 1 /\ c[Len(node) + 1] = e
      /\ \A j \in 1..Len(node) : c[j] = node[j]
  BY <1>2, <1>3, ChildOf
<1>5. c \in view.nodes => c \in Along(view, anchor)
  <2>1. Fits(node, anchor)
    BY <1>2 DEF Along
  <2>2. Fits(c, anchor)
    BY <1>2, <1>3, <1>4, <2>1 DEF Fits
  <2> QED BY <2>2 DEF Along
<1>6. Turn(Stage, e, next, anchor[Len(node) + 1])
  BY <1>2
<1>7. \A m \in Along(view, anchor) : Passed(m, node, next) <=> (Passed(m, node, Stage) \/ Through(m, node, e))
  BY <1>2, <1>6, LeaveBranch
<1>8. Arguments
  BY DEF IInv
<1>9. /\ ids = RulesAt(view, anchor, BehindWalk)
      /\ \A m \in BehindWalk : ~Completes(view, m, anchor)
      /\ \A i \in 1..Len(node) : \/ stages[i] = "wildcard" /\ node[i] = anchor[i]
                                 \/ stages[i] = "catchall" /\ node[i] = Star
  BY <1>2, WalkingFacts
<1> DEFINE turned == [stages EXCEPT ![Depth + 1] = next]
<1>10. /\ turned \in Seq({"literal", "wildcard", "catchall"}) /\ Len(turned) = Len(node) + 1
       /\ turned[Len(node) + 1] = next /\ \A i \in 1..Len(node) : turned[i] = stages[i]
  BY <1>2, <1>3
<1> HIDE DEF c, turned
<1>11. CASE c \notin view.nodes
  <2>1. stages' = turned /\ node' = node /\ ids' = ids /\ status' = "walking"
    BY <1>2, <1>11 DEF Branch, Then, c, turned
  <2>2. \A m \in Along(view, anchor) : ~Through(m, node, e)
    BY <1>2, <1>3, <1>11, ThroughChild DEF c
  <2>3. Stage' = next
    BY <1>10, <2>1 DEF Stage, Depth
  <2>4. BehindWalk' = BehindWalk
    BY <1>1, <1>7, <2>1, <2>2, <2>3 DEF BehindWalk, Behind
  <2> QED BY <1>1, <1>2, <1>8, <1>9, <1>10, <2>1, <2>4, StillWalking
<1>12. CASE c \in view.nodes /\ Depth + 1 < Len(anchor)
  <2>1. node' = c /\ stages' = Append(turned, "literal") /\ ids' = ids /\ status' = "walking"
    BY <1>2, <1>12 DEF Branch, c, turned
  <2>2. /\ stages' \in Seq({"literal", "wildcard", "catchall"}) /\ Len(stages') = Len(node) + 2
        /\ stages'[Len(node) + 2] = "literal" /\ stages'[Len(node) + 1] = next
        /\ \A i \in 1..Len(node) : stages'[i] = stages[i]
    BY <1>2, <1>10, <2>1
  <2>3. Stage' = "literal"
    BY <1>2, <1>4, <2>1, <2>2 DEF Stage, Depth
  <2>4. BehindWalk' = BehindWalk
    <3>1. \A m \in Along(view, anchor) : Passed(m, c, "literal") <=> Passed(m, node, Stage)
      BY <1>2, <1>6, EnterChild DEF c
    <3> QED BY <1>1, <2>1, <2>3, <3>1 DEF BehindWalk, Behind
  <2>5. \A i \in 1..Len(c) : \/ stages'[i] = "wildcard" /\ c[i] = anchor[i]
                             \/ stages'[i] = "catchall" /\ c[i] = Star
    <3>1. SUFFICES ASSUME NEW i \in 1..(Len(node) + 1)
                   PROVE  \/ stages'[i] = "wildcard" /\ c[i] = anchor[i]
                          \/ stages'[i] = "catchall" /\ c[i] = Star
      BY <1>4
    <3>2. CASE i <= Len(node)
      <4>1. i \in 1..Len(node)
        BY <1>2, <3>2
      <4>2. stages'[i] = stages[i] /\ c[i] = node[i]
        BY <1>4, <2>2, <4>1
      <4> QED BY <1>9, <4>1, <4>2
    <3>3. CASE i = Len(node) + 1
      BY <1>2, <1>4, <1>6, <2>2, <3>3 DEF Turn
    <3> QED BY <1>2, <3>2, <3>3
  <2>6. Len(c) < Len(anchor) /\ Len(stages') = Len(c) + 1
    BY <1>2, <1>4, <1>12, <2>2
  <2>7. c \in Along(view, anchor)
    BY <1>5, <1>12
  <2> QED BY <1>1, <1>2, <1>8, <1>9, <2>1, <2>2, <2>4, <2>5, <2>6, <2>7, StillWalking
<1>13. CASE c \in view.nodes /\ Depth + 1 >= Len(anchor)
  <2>1. /\ ids' = ids \cup Identities(view, c, FALSE) /\ node' = node /\ stages' = turned
        /\ status' = IF Has(view, c, "catchall") /\ Has(view, c, "leaf_slash")
                       THEN "complete" ELSE status
    <3>1. /\ Gather(Summary(view)[c].below, Identities(view, c, FALSE))
          /\ status' = IF Has(view, c, "catchall") /\ Has(view, c, "leaf_slash")
                         THEN "complete" ELSE status
          /\ Then(next)
          /\ node' = node
      <4>1. c \in view.nodes /\ ~(Depth + 1 < Len(anchor))
        BY <1>2, <1>13
      <4> QED BY <4>1, Zenon DEF Branch, c
    <3> QED BY <3>1 DEF Gather, Then, turned
  <2>2. Len(node) + 1 = Len(anchor) /\ c \in Along(view, anchor)
    BY <1>2, <1>5, <1>13
  <2>3. Contribution(view, anchor, c) = Identities(view, c, FALSE)
    BY <1>2, <1>4, <2>2 DEF Contribution
  <2>4. Deep(c, anchor) /\ ~Shallow(c, anchor)
    BY <1>2, <1>4, <2>2 DEF Deep, Shallow, Along
  <2>5. Completes(view, c, anchor) <=> (Has(view, c, "catchall") /\ Has(view, c, "leaf_slash"))
    BY <1>2, <2>4 DEF Completes
  <2>6. CASE Completes(view, c, anchor)
    <3>1. BehindWalk = {m \in Along(view, anchor) : Precedes(m, c)}
      <4>1. \A m \in Along(view, anchor) : Passed(m, node, Stage) <=> Precedes(m, c)
        BY <1>2, <1>6, <2>2, BehindChild DEF c
      <4> QED BY <4>1 DEF BehindWalk, Behind
    <3>2. AnchorIds(view, anchor) =
            RulesAt(view, anchor, BehindWalk) \cup Contribution(view, anchor, c)
      <4>1. c \in view.nodes
        BY <1>13
      <4> QED BY <1>2, <1>9, <2>6, <3>1, <4>1, CompleteIds
    <3>3. ids' = AnchorIds(view, anchor)
      BY <1>9, <2>1, <2>3, <3>2
    <3>4. status' = "complete"
      BY <2>1, <2>5, <2>6
    <3> QED BY <1>1, <1>8, <3>3, <3>4, WalkOver
  <2>7. CASE ~Completes(view, c, anchor)
    <3>1. Stage' = next
      BY <1>10, <2>1 DEF Stage, Depth
    <3>2. \A m \in Along(view, anchor) : Through(m, node, e) <=> m = c
      BY <1>2, <1>3, <2>2, ThroughChild DEF c
    <3>3. BehindWalk' = BehindWalk \cup {c}
      BY <1>1, <1>7, <2>1, <2>2, <3>1, <3>2 DEF BehindWalk, Behind
    <3>4. RulesAt(view, anchor, BehindWalk \cup {c})
            = RulesAt(view, anchor, BehindWalk) \cup Contribution(view, anchor, c)
      BY GatherOne
    <3>5. ids' = RulesAt(view, anchor, BehindWalk')
      BY <1>9, <2>1, <2>3, <3>3, <3>4
    <3>6. \A m \in BehindWalk' : ~Completes(view, m, anchor)
      BY <1>9, <2>7, <3>3
    <3>7. status' = "walking"
      BY <1>2, <2>1, <2>5, <2>7
    <3>8. node' = node /\ stages' = turned
      BY <2>1
    <3> QED BY <1>1, <1>2, <1>8, <1>9, <1>10, <3>5, <3>6, <3>7, <3>8, StillWalking
  <2> QED BY <2>6, <2>7
<1> QED BY <1>2, <1>11, <1>12, <1>13

\* The catch-all of the current node ends the walk, or its call returns: above the
\* root there is nothing, and the walk is over.
LEMMA CatchAllStep ==
  ASSUME IInv, WalkCatchAll
  PROVE  IInv'
<1>1. UNCHANGED arguments /\ view' = view /\ anchor' = anchor /\ Walking /\ Stage = "catchall"
  BY DEF WalkCatchAll, arguments
<1>2. /\ IsView(view) /\ anchor \in Seq(Segments) /\ anchor # << >> /\ status = "walking"
      /\ node \in Along(view, anchor) /\ node \in Addresses /\ node \in view.nodes
      /\ Depth = Len(node) /\ Depth \in Nat
      /\ Len(node) < Len(anchor) /\ Len(anchor) \in Nat
      /\ stages \in Seq({"literal", "wildcard", "catchall"}) /\ Len(stages) = Len(node) + 1
      /\ \A i \in 1..Len(node) : \/ stages[i] = "wildcard" /\ node[i] = anchor[i]
                                 \/ stages[i] = "catchall" /\ node[i] = Star
      /\ ids = RulesAt(view, anchor, BehindWalk)
      /\ \A m \in BehindWalk : ~Completes(view, m, anchor)
  BY <1>1, WalkingFacts
<1>3. Arguments
  BY DEF IInv
<1>4. BehindWalk = Behind(view, anchor, node, "catchall")
  BY <1>1 DEF BehindWalk
<1>5. Shallow(node, anchor) /\ ~Deep(node, anchor)
  BY <1>2 DEF Shallow, Deep, Along
<1>6. Completes(view, node, anchor) <=> Has(view, node, "catchall")
  BY <1>5 DEF Completes
<1>7. Contribution(view, anchor, node) =
        IF Has(view, node, "catchall") THEN {view.rule[[node |-> node, slot |-> "catchall"]]} ELSE {}
  BY <1>2 DEF Contribution
<1>8. CASE Has(view, node, "catchall")
  <2>1. /\ ids' = ids \cup {view.rule[[node |-> node, slot |-> "catchall"]]}
        /\ status' = "complete"
    <3>1. /\ Gather(Slot(view, node, "catchall"), {view.rule[[node |-> node, slot |-> "catchall"]]})
          /\ status' = "complete"
      BY <1>8 DEF WalkCatchAll
    <3> QED BY <3>1 DEF Gather
  <2>2. BehindWalk = {m \in Along(view, anchor) : Precedes(m, node)}
    <3>1. \A m \in Along(view, anchor) : Passed(m, node, "catchall") <=> Precedes(m, node)
      BY <1>2, BehindNode
    <3> QED BY <1>4, <3>1 DEF Behind
  <2>3. AnchorIds(view, anchor) =
          RulesAt(view, anchor, BehindWalk) \cup Contribution(view, anchor, node)
    BY <1>2, <1>6, <1>8, <2>2, CompleteIds
  <2>4. ids' = AnchorIds(view, anchor)
    BY <1>2, <1>7, <1>8, <2>1, <2>3
  <2> QED BY <1>1, <1>3, <2>1, <2>4, WalkOver
<1>9. CASE ~Has(view, node, "catchall") /\ Depth = 0
  <2>1. status' = "open" /\ ids' = ids \cup {DEFAULT_RULE}
    <3>1. Open(None, {})
      BY <1>9 DEF WalkCatchAll
    <3> QED BY <3>1 DEF Open, Gather
  <2>2. Along(view, anchor) = BehindWalk \cup {node}
    <3>1. ASSUME NEW m \in Along(view, anchor), m # node PROVE m \in BehindWalk
      <4>1. Len(m) \in Nat /\ m \in Addresses
        BY <1>2, AlongFacts
      <4>2. Len(m) >= 1
        <5>1. node = << >>
          BY <1>2, <1>9, EmptySeq DEF Addresses
        <5>2. Len(m) # 0
          BY <3>1, <4>1, <5>1, EmptySeq DEF Addresses
        <5> QED BY <4>1, <5>2
      <4>3. PassedAt(m, node, "catchall", 1)
        BY <1>2, <1>9, <4>1, <4>2 DEF PassedAt
      <4> QED BY <1>2, <1>4, <1>9, <4>3 DEF Behind, Passed
    <3> QED BY <1>2, <3>1 DEF BehindWalk, Behind
  <2>3. \A m \in view.nodes : ~Completes(view, m, anchor)
    <3>1. \A m \in view.nodes : Completes(view, m, anchor) => m \in Along(view, anchor)
      BY DEF Completes, Shallow, Deep, Along
    <3> QED BY <1>2, <1>6, <1>9, <2>2, <3>1
  <2>4. AnchorIds(view, anchor) = RulesAt(view, anchor, BehindWalk \cup {node}) \cup {DEFAULT_RULE}
    BY <1>2, <2>2, <2>3, OpenIds
  <2>5. RulesAt(view, anchor, BehindWalk \cup {node})
          = RulesAt(view, anchor, BehindWalk) \cup Contribution(view, anchor, node)
    BY GatherOne
  <2>6. ids' = AnchorIds(view, anchor)
    BY <1>2, <1>7, <1>9, <2>1, <2>4, <2>5
  <2> QED BY <1>1, <1>3, <2>1, <2>6, WalkOver
<1>10. CASE ~Has(view, node, "catchall") /\ Depth # 0
  <2>0. PICK n, e, next : /\ n = SubSeq(node, 1, Len(node) - 1)
                          /\ e = node[Len(node)] /\ next = stages[Len(node)]
    OBVIOUS
  <2>1. node' = n /\ stages' = SubSeq(stages, 1, Len(node)) /\ ids' = ids /\ status' = "walking"
    BY <1>2, <1>10, <2>0 DEF WalkCatchAll
  <2>2. Len(node) \in 1..Len(node) /\ Len(node) - 1 \in Nat
    BY <1>2, <1>10
  <2>3. /\ n \in Addresses /\ Len(n) = Len(node) - 1 /\ n \in view.nodes
        /\ \A j \in 1..Len(n) : n[j] = node[j]
    <3>1. n \in Addresses /\ Len(n) = Len(node) - 1 /\ \A j \in 1..Len(n) : n[j] = node[j]
      BY <1>2, <2>0, <2>2 DEF Addresses
    <3>2. Len(node) - 1 \in 0..Len(node)
      BY <2>2
    <3>3. n \in view.nodes
      BY <1>2, <2>0, <3>2 DEF IsView
    <3> QED BY <3>1, <3>3
  <2>4. e \in Segments \cup {Star}
    BY <1>2, <2>0, <2>2 DEF Addresses
  <2>5. /\ stages' \in Seq({"literal", "wildcard", "catchall"}) /\ Len(stages') = Len(node)
        /\ \A i \in 1..Len(node) : stages'[i] = stages[i]
    BY <1>2, <2>1, <2>2
  <2>6. Append(n, e) = node
    <3>1. /\ Append(n, e) \in Addresses /\ Len(Append(n, e)) = Len(node)
          /\ \A j \in 1..Len(n) : Append(n, e)[j] = node[j]
          /\ Append(n, e)[Len(node)] = node[Len(node)]
      BY <2>0, <2>2, <2>3, <2>4, ChildOf
    <3>2. \A j \in 1..Len(node) : Append(n, e)[j] = node[j]
      BY <1>2, <2>2, <2>3, <3>1
    <3> QED BY <1>2, <3>1, <3>2, SeqEqual DEF Addresses
  <2>7. n \in Along(view, anchor) /\ Len(n) < Len(anchor)
    <3>1. Fits(node, anchor)
      BY <1>2 DEF Along
    <3>2. Len(n) < Len(anchor) /\ \A j \in 1..Len(n) : Takes(n[j], anchor[j])
      BY <1>2, <2>2, <2>3, <3>1 DEF Fits
    <3>3. Fits(n, anchor)
      BY <1>2, <2>2, <2>3, <3>2 DEF Fits
    <3> QED BY <2>3, <3>2, <3>3 DEF Along
  <2>8. Waits(e, next, anchor[Len(n) + 1])
    BY <1>2, <2>0, <2>2, <2>3 DEF Waits
  <2>9. \A m \in Along(view, anchor) : Passed(m, n, next) <=> (Passed(m, node, "catchall") \/ m = node)
    <3>1. \A m \in Along(view, anchor) :
            Passed(m, n, next) <=> (Passed(m, Append(n, e), "catchall") \/ m = Append(n, e))
      BY <1>2, <2>7, <2>8, ReturnFrom
    <3> QED BY <2>6, <3>1
  <2>10. Stage' = next
    BY <1>2, <2>0, <2>1, <2>2, <2>3, <2>5 DEF Stage, Depth
  <2>11. BehindWalk' = BehindWalk \cup {node}
    BY <1>1, <1>2, <1>4, <2>1, <2>9, <2>10 DEF BehindWalk, Behind
  <2>12. RulesAt(view, anchor, BehindWalk \cup {node})
           = RulesAt(view, anchor, BehindWalk) \cup Contribution(view, anchor, node)
    BY GatherOne
  <2>13. ids' = RulesAt(view, anchor, BehindWalk')
    BY <1>2, <1>7, <1>10, <2>1, <2>11, <2>12
  <2>14. \A m \in BehindWalk' : ~Completes(view, m, anchor)
    BY <1>2, <1>6, <1>10, <2>11
  <2>15. \A i \in 1..Len(n) : \/ stages'[i] = "wildcard" /\ n[i] = anchor[i]
                              \/ stages'[i] = "catchall" /\ n[i] = Star
    <3>1. \A i \in 1..Len(n) : i \in 1..Len(node)
      BY <1>2, <2>2, <2>3
    <3> QED BY <1>2, <2>3, <2>5, <3>1
  <2>16. Len(stages') = Len(n) + 1
    BY <1>2, <2>2, <2>3, <2>5
  <2> QED BY <1>1, <1>3, <2>1, <2>5, <2>7, <2>13, <2>14, <2>15, <2>16, StillWalking
<1> QED BY <1>8, <1>9, <1>10

\* The root anchor: the whole view, and the default rule unless nothing gets past the
\* root.
LEMMA RootStep ==
  ASSUME IInv, CoverRoot
  PROVE  IInv'
<1>1. /\ UNCHANGED arguments /\ status = "walking" /\ anchor = << >> /\ anchor \in Seq(Segments)
      /\ IsView(view) /\ Arguments /\ Len(anchor) = 0
  BY EmptySeq DEF CoverRoot, IInv, Arguments
<1>2. ids = {}
  BY <1>1 DEF IInv, GathersBehind
<1>3. << >> \in view.nodes /\ Fits(<< >>, anchor) /\ Len(<< >>) = 0
  BY <1>1, EmptySeq DEF IsView, Fits
<1>4. \A m \in Along(view, anchor) : m = << >>
  <2>1. SUFFICES ASSUME NEW m \in Along(view, anchor) PROVE m = << >>
    OBVIOUS
  <2>2. m \in Addresses /\ Len(m) \in Nat /\ Len(m) <= 0
    BY <1>1, AlongFacts
  <2> QED BY <2>2, EmptySeq DEF Addresses
<1>5. Along(view, anchor) = {<< >>}
  BY <1>3, <1>4 DEF Along
<1>6. Contribution(view, anchor, << >>) = Identities(view, << >>, TRUE)
  BY <1>1, <1>3 DEF Contribution
<1>7. Completes(view, << >>, anchor) <=> (Has(view, << >>, "leaf") /\ Has(view, << >>, "catchall"))
  BY <1>1, <1>3 DEF Completes, Shallow, Deep
<1>8. \A m \in view.nodes : Completes(view, m, anchor) => m = << >>
  BY <1>4 DEF Completes, Shallow, Deep, Along
<1>9. CASE Has(view, << >>, "leaf") /\ Has(view, << >>, "catchall")
  <2>1. ids' = Identities(view, << >>, TRUE) /\ status' = "complete"
    <3>1. /\ Gather(Summary(view)[<< >>].all, Identities(view, << >>, TRUE))
          /\ status' = "complete"
      BY <1>9 DEF CoverRoot
    <3> QED BY <1>2, <3>1 DEF Gather
  <2>2. {m \in Along(view, anchor) : Precedes(m, << >>)} = {}
    BY <1>3, <1>5 DEF Precedes
  <2>3. RulesAt(view, anchor, {}) = {}
    BY DEF RulesAt
  <2>4. AnchorIds(view, anchor) = {} \cup Contribution(view, anchor, << >>)
    <3>1. \A m \in Along(view, anchor) : Precedes(m, << >>) => ~Completes(view, m, anchor)
      BY <2>2
    <3>2. AnchorIds(view, anchor) =
            RulesAt(view, anchor, {m \in Along(view, anchor) : Precedes(m, << >>)})
              \cup Contribution(view, anchor, << >>)
      BY <1>1, <1>3, <1>7, <1>9, <3>1, CompleteIds
    <3> QED BY <2>2, <2>3, <3>2
  <2> QED BY <1>1, <1>6, <2>1, <2>4, WalkOver
<1>10. CASE ~(Has(view, << >>, "leaf") /\ Has(view, << >>, "catchall"))
  <2>1. ids' = Identities(view, << >>, TRUE) \cup {DEFAULT_RULE} /\ status' = "open"
    <3>1. Open(Summary(view)[<< >>].all, Identities(view, << >>, TRUE))
      BY <1>10 DEF CoverRoot
    <3> QED BY <1>2, <3>1 DEF Open, Gather
  <2>2. \A m \in view.nodes : ~Completes(view, m, anchor)
    BY <1>7, <1>8, <1>10
  <2>3. AnchorIds(view, anchor) = RulesAt(view, anchor, {<< >>}) \cup {DEFAULT_RULE}
    BY <1>1, <1>5, <2>2, OpenIds
  <2>4. RulesAt(view, anchor, {<< >>}) = Contribution(view, anchor, << >>)
    BY DEF RulesAt
  <2> QED BY <1>1, <1>6, <2>1, <2>3, <2>4, WalkOver
<1> QED BY <1>9, <1>10

LEMMA StepCorrect ==
  ASSUME IInv, [Next]_vars
  PROVE  IInv'
<1>1. CASE WalkLiteral
  BY <1>1, BranchStep DEF WalkLiteral, Turn
<1>2. CASE WalkWildcard
  BY <1>2, BranchStep DEF WalkWildcard, Turn
<1>3. CASE WalkCatchAll
  BY <1>3, CatchAllStep
<1>4. CASE CoverRoot
  BY <1>4, RootStep
<1>5. CASE UNCHANGED vars
  BY <1>5 DEF vars, arguments, IInv, Arguments, StackOK, GathersBehind, WalkCollects, Walking,
              BehindWalk, Behind, Stage, Depth
<1> QED BY <1>1, <1>2, <1>3, <1>4, <1>5 DEF Next

-----------------------------------------------------------------------------
(***************************************************************************)
(* Theorems.                                                               *)
(***************************************************************************)
\* A walk that is over holds the rules of the branches that are live along its anchor,
\* nothing behind a complete one, and the default rule exactly when none is complete.
THEOREM WalkCollectsExactly == Spec => []WalkCollects
<1>1. Init => IInv
  BY InitCorrect
<1>2. IInv /\ [Next]_vars => IInv'
  BY StepCorrect
<1>3. IInv => WalkCollects
  BY DEF IInv
<1> QED BY <1>1, <1>2, <1>3, PTL DEF Spec

\* Whatever path a backend makes out of an anchor by appending to it, the rule it
\* matches is one the walk reported.
THEOREM NothingOutsideCover == Spec => []NoRuleOutsideCover
<1>1. Init => IInv
  BY InitCorrect
<1>2. IInv /\ [Next]_vars => IInv'
  BY StepCorrect
<1>3. IInv => NoRuleOutsideCover
  <2>1. SUFFICES ASSUME IInv, status # "walking", NEW remainder \in Remainders
                 PROVE  RuleOf(view, anchor \o remainder) \in ids
    BY DEF NoRuleOutsideCover
  <2>2. IsView(view) /\ anchor \in Seq(Segments) /\ ids = AnchorIds(view, anchor)
    BY <2>1 DEF IInv, Arguments, WalkCollects
  <2>3. remainder \in Paths
    BY RemaindersAssumption
  <2> QED BY <2>2, <2>3, ContinuationCovered
<1> QED BY <1>1, <1>2, <1>3, PTL DEF Spec

-----------------------------------------------------------------------------
(***************************************************************************)
(* Covers.  Joined, in whatever order, they tell whether there is no rule, *)
(* one or more than one; the cached summaries therefore are the covers of  *)
(* the rules that an explanation collects.                                 *)
(***************************************************************************)
\* The join of a set of covers, without an order.
Joint(S) ==
  IF S \subseteq {None} THEN None
  ELSE IF \A c, d \in S \ {None} : c = d THEN CHOOSE c \in S \ {None} : TRUE ELSE Mixed

LEMMA CoversDiffer ==
  /\ None # Mixed
  /\ \A r : Uniform(r) # None /\ Uniform(r) # Mixed /\ Uniform(r).rule = r
BY DEF None, Mixed, Uniform

LEMMA JointTakes ==
  ASSUME NEW S, NEW x \in S
  PROVE  Join(x, Joint(S \ {x})) = Joint(S)
<1> DEFINE R == S \ {x}
<1>1. CASE x = None
  <2>1. S \ {None} = R \ {None} /\ (S \subseteq {None} <=> R \subseteq {None})
    BY <1>1
  <2> QED BY <1>1, <2>1 DEF Join, Joint
<1>2. CASE x # None /\ R \subseteq {None}
  <2>1. S \ {None} = {x} /\ ~(S \subseteq {None})
    BY <1>2
  <2>2. Joint(R) = None /\ Joint(S) = x
    BY <1>2, <2>1 DEF Joint
  <2> QED BY <1>2, <2>2 DEF Join
<1>3. CASE x # None /\ ~(R \subseteq {None})
  <2>1. PICK y \in R \ {None} : y # x
    BY <1>3
  <2>2. Joint(S) = Mixed
    BY <1>3, <2>1 DEF Joint
  <2>3. Joint(R) = Mixed \/ Joint(R) \in R \ {None}
    BY <1>3 DEF Joint
  <2>4. Joint(R) # None /\ (Joint(R) = x => x = Mixed)
    BY <2>3, CoversDiffer
  <2> QED BY <1>3, <2>2, <2>4 DEF Join
<1> QED BY <1>1, <1>2, <1>3

First(s) == CHOOSE x \in s : TRUE

LEMMA FirstIn == ASSUME NEW s, s # {} PROVE First(s) \in s
BY DEF First

\* JoinAll as a recursive function.
Folds(f, S) ==
  f = [s \in SUBSET S |-> IF s = {} THEN None ELSE Join(First(s), f[s \ {First(s)}])]

LEMMA JoinAllFolds ==
  ASSUME NEW S
  PROVE  \E f : Folds(f, S) /\ JoinAll(S) = f[S]
<1> DEFINE g == [s \in SUBSET S |-> Joint(s)]
<1>1. Folds(g, S)
  <2>1. Joint({}) = None
    BY DEF Joint
  <2>2. \A s \in SUBSET S : s # {} => Joint(s) = Join(First(s), Joint(s \ {First(s)}))
    BY FirstIn, JointTakes
  <2>3. \A s \in SUBSET S : s \ {First(s)} \in SUBSET S
    OBVIOUS
  <2>4. \A s \in SUBSET S : g[s] = IF s = {} THEN None ELSE Join(First(s), g[s \ {First(s)}])
    BY <2>1, <2>2, <2>3
  <2> QED BY <2>4 DEF Folds
<1> HIDE DEF g
<1>2. JoinAll(S) = (CHOOSE f : Folds(f, S))[S]
  BY DEF JoinAll, FoldSet, MapThenFoldSet, Folds, First
<1>3. Folds(CHOOSE f : Folds(f, S), S)
  BY <1>1
<1> QED BY <1>2, <1>3

LEMMA FoldsJoint ==
  ASSUME NEW S, IsFiniteSet(S), NEW f, Folds(f, S)
  PROVE  f[S] = Joint(S)
<1> DEFINE Good == {k \in Nat : \A s \in SUBSET S : Cardinality(s) = k => f[s] = Joint(s)}
<1>0. \A s \in SUBSET S : f[s] = IF s = {} THEN None ELSE Join(First(s), f[s \ {First(s)}])
  BY DEF Folds
<1>1. \A s \in SUBSET S : IsFiniteSet(s) /\ Cardinality(s) \in Nat
  BY FS_Subset, FS_CardinalityType
<1>2. 0 \in Good
  <2>1. ASSUME NEW s \in SUBSET S, Cardinality(s) = 0 PROVE f[s] = Joint(s)
    <3>1. s = {}
      BY <1>1, <2>1, FS_EmptySet
    <3> QED BY <3>1 DEF Folds, Joint
  <2> QED BY <2>1
<1>3. ASSUME NEW k \in Good PROVE k + 1 \in Good
  <2>1. ASSUME NEW s \in SUBSET S, Cardinality(s) = k + 1 PROVE f[s] = Joint(s)
    <3>0. k \in Nat
      BY <1>3
    <3>1. s # {}
      BY <2>1, <3>0, FS_EmptySet
    <3>2. PICK x : x = First(s)
      OBVIOUS
    <3>3. x \in s
      BY <3>1, <3>2, FirstIn
    <3>4. f[s] = Join(x, f[s \ {x}])
      BY <1>0, <3>1, <3>2
    <3>5. s \ {x} \in SUBSET S /\ Cardinality(s \ {x}) = k
      <4>1. Cardinality(s \ {x}) = Cardinality(s) - 1
        BY <1>1, <3>3, FS_RemoveElement
      <4> QED BY <2>1, <3>0, <4>1
    <3>6. f[s \ {x}] = Joint(s \ {x})
      BY <1>3, <3>5
    <3> QED BY <3>3, <3>4, <3>6, JointTakes
  <2>2. k + 1 \in Nat
    BY <1>3
  <2> QED BY <2>1, <2>2
<1>4. Good = Nat
  <2> HIDE DEF Good
  <2>1. Good \in SUBSET Nat
    BY DEF Good
  <2> QED BY <1>2, <1>3, <2>1, EveryNatural
<1>5. Cardinality(S) \in Good
  BY <1>1, <1>4
<1> QED BY <1>5

LEMMA JoinAllJoint ==
  ASSUME NEW S, IsFiniteSet(S)
  PROVE  JoinAll(S) = Joint(S)
BY JoinAllFolds, FoldsJoint

\* The cover of one rule, and the cover of a union.
LEMMA CoverOfOne ==
  ASSUME NEW r
  PROVE  CoverOf({r}) = Uniform(r)
BY DEF CoverOf

LEMMA CoverIs ==
  ASSUME NEW T
  PROVE  /\ CoverOf(T) = None <=> T = {}
         /\ \A r : CoverOf(T) = Uniform(r) <=> T = {r}
         /\ CoverOf(T) \in {None, Mixed} \/ \E r \in T : CoverOf(T) = Uniform(r)
<1>1. CASE T = {}
  BY <1>1, CoversDiffer DEF CoverOf
<1>2. CASE T # {} /\ \A r, s \in T : r = s
  <2>1. PICK r \in T : T = {r}
    BY <1>2
  <2>2. CoverOf(T) = Uniform(r)
    BY <2>1, CoverOfOne
  <2>3. \A q : Uniform(r) = Uniform(q) => r = q
    BY CoversDiffer
  <2> QED BY <1>2, <2>1, <2>2, <2>3, CoversDiffer
<1>3. CASE T # {} /\ ~\A r, s \in T : r = s
  <2>1. CoverOf(T) = Mixed
    BY <1>3 DEF CoverOf
  <2> QED BY <1>3, <2>1, CoversDiffer
<1> QED BY <1>1, <1>2, <1>3

LEMMA CoverOfUnion ==
  ASSUME NEW F
  PROVE  Joint({CoverOf(T) : T \in F}) = CoverOf(UNION F)
<1> DEFINE S == {CoverOf(T) : T \in F}
<1>1. CASE UNION F = {}
  <2>1. \A T \in F : T = {}
    BY <1>1
  <2>2. S \subseteq {None}
    BY <2>1, CoverIs
  <2> QED BY <1>1, <2>2, CoverIs DEF Joint
<1>2. CASE \E r : UNION F = {r}
  <2>1. PICK r : UNION F = {r}
    BY <1>2
  <2>2. \A T \in F : T = {} \/ T = {r}
    BY <2>1
  <2>3. {r} \in F
    BY <2>1, <2>2
  <2>4. S \ {None} = {Uniform(r)}
    BY <2>2, <2>3, CoverIs, CoverOfOne, CoversDiffer
  <2>5. Joint(S) = Uniform(r)
    BY <2>4 DEF Joint
  <2> QED BY <2>1, <2>5, CoverOfOne
<1>3. CASE UNION F # {} /\ ~\E r : UNION F = {r}
  <2>1. CoverOf(UNION F) = Mixed
    <3>1. \E r, s \in UNION F : r # s
      BY <1>3
    <3> QED BY <3>1 DEF CoverOf
  <2>2. PICK r \in UNION F, s \in UNION F : r # s
    BY <1>3
  <2>3. PICK A \in F, B \in F : r \in A /\ s \in B
    BY <2>2
  <2>4. CoverOf(A) \in {Uniform(r), Mixed} /\ CoverOf(B) \in {Uniform(s), Mixed}
    BY <2>3, CoverIs
  <2>5. CoverOf(A) \in S \ {None} /\ CoverOf(B) \in S \ {None}
    BY <2>3, CoverIs
  <2>6. Uniform(r) # Uniform(s)
    BY <2>2, CoversDiffer
  <2> HIDE DEF S
  <2>7. Joint(S) = Mixed
    <3>1. CASE \A c, d \in S \ {None} : c = d
      <4>1. CoverOf(A) = Mixed
        BY <2>4, <2>5, <2>6, <3>1, CoversDiffer
      <4>2. S \ {None} = {Mixed}
        BY <2>5, <3>1, <4>1
      <4> QED BY <4>2 DEF Joint
    <3>2. CASE ~\A c, d \in S \ {None} : c = d
      BY <2>5, <3>2 DEF Joint
    <3> QED BY <3>1, <3>2
  <2> QED BY <2>1, <2>7 DEF S
<1> QED BY <1>1, <1>2, <1>3

\* Two covers joined are the cover of both sets of rules.
LEMMA JoinIsUnion ==
  ASSUME NEW A, NEW B
  PROVE  Join(CoverOf(A), CoverOf(B)) = CoverOf(A \cup B)
<1>1. CASE A = {}
  <2>1. CoverOf(A) = None /\ A \cup B = B
    BY <1>1, CoverIs
  <2> QED BY <2>1 DEF Join
<1>2. CASE B = {}
  <2>1. CoverOf(B) = None /\ A \cup B = A
    BY <1>2, CoverIs
  <2> QED BY <2>1 DEF Join
<1>3. CASE A # {} /\ B # {}
  <2>1. CoverOf(A) # None /\ CoverOf(B) # None
    BY <1>3, CoverIs
  <2>2. CASE \E r : A \cup B = {r}
    <3>1. PICK r : A \cup B = {r}
      BY <2>2
    <3>2. A = {r} /\ B = {r}
      BY <1>3, <3>1
    <3> QED BY <3>2 DEF Join
  <2>3. CASE ~\E r : A \cup B = {r}
    <3>1. CoverOf(A \cup B) = Mixed
      <4>1. \E r, s \in A \cup B : r # s
        BY <1>3, <2>3
      <4> QED BY <4>1 DEF CoverOf
    <3>2. CoverOf(A) = CoverOf(B) => CoverOf(A) = Mixed
      <4>1. ASSUME CoverOf(A) = CoverOf(B), CoverOf(A) # Mixed PROVE FALSE
        <5>1. PICK r \in A : CoverOf(A) = Uniform(r)
          BY <2>1, <4>1, CoverIs
        <5>2. A = {r} /\ B = {r}
          BY <4>1, <5>1, CoverIs
        <5> QED BY <2>3, <5>2
      <4> QED BY <4>1
    <3> QED BY <2>1, <3>1, <3>2 DEF Join
  <2> QED BY <2>2, <2>3
<1> QED BY <1>1, <1>2, <1>3

\* The rule at a terminal, if it has one.
RulesIn(v, n, slot) == {v.rule[t] : t \in {s \in DOMAIN v.rule : s = [node |-> n, slot |-> slot]}}

LEMMA SlotCover ==
  ASSUME NEW v, NEW n, NEW slot
  PROVE  Slot(v, n, slot) = CoverOf(RulesIn(v, n, slot))
<1> DEFINE t == [node |-> n, slot |-> slot]
<1>1. CASE t \in DOMAIN v.rule
  <2>1. RulesIn(v, n, slot) = {v.rule[t]}
    BY <1>1 DEF RulesIn
  <2>2. Slot(v, n, slot) = Uniform(v.rule[t])
    BY <1>1 DEF Slot
  <2> HIDE DEF t
  <2> QED BY <2>1, <2>2, CoverOfOne
<1>2. CASE t \notin DOMAIN v.rule
  <2>1. RulesIn(v, n, slot) = {}
    BY <1>2 DEF RulesIn
  <2>2. Slot(v, n, slot) = None
    BY <1>2 DEF Slot
  <2> QED BY <2>1, <2>2, CoverIs
<1> QED BY <1>1, <1>2

ChildrenOf(v, n) == {m \in v.nodes : Len(m) = Len(n) + 1 /\ SubSeq(m, 1, Len(n)) = n}
DownFrom(v, n) == {m \in v.nodes : Len(m) >= Len(n) /\ SubSeq(m, 1, Len(n)) = n}

LEMMA DownThrough ==
  ASSUME NEW v, IsView(v), NEW n \in v.nodes, NEW c \in ChildrenOf(v, n), NEW m \in v.nodes,
         Len(m) >= Len(c), SubSeq(m, 1, Len(c)) = c
  PROVE  Len(m) > Len(n) /\ SubSeq(m, 1, Len(n)) = n
<1>1. /\ n \in Addresses /\ c \in Addresses /\ m \in Addresses /\ Len(c) = Len(n) + 1
      /\ Len(n) \in Nat /\ Len(m) \in Nat /\ SubSeq(c, 1, Len(n)) = n
  BY DEF IsView, ChildrenOf, Addresses
<1>2. /\ SubSeq(m, 1, Len(n)) \in Addresses /\ Len(SubSeq(m, 1, Len(n))) = Len(n)
      /\ \A i \in 1..Len(n) : SubSeq(m, 1, Len(n))[i] = m[i]
  BY <1>1 DEF Addresses
<1>3. \A i \in 1..Len(c) : c[i] = m[i]
  BY <1>1 DEF Addresses
<1>4. \A i \in 1..Len(n) : n[i] = c[i] /\ i \in 1..Len(c)
  BY <1>1 DEF Addresses
<1>5. SubSeq(m, 1, Len(n)) = n
  BY <1>1, <1>2, <1>3, <1>4, SeqEqual DEF Addresses
<1> QED BY <1>1, <1>5

LEMMA ChildSmaller ==
  ASSUME NEW v, IsView(v), IsFiniteSet(v.nodes), NEW n \in v.nodes, NEW c \in ChildrenOf(v, n)
  PROVE  /\ Cardinality(DownFrom(v, c)) \in Nat /\ Cardinality(DownFrom(v, n)) \in Nat
         /\ Cardinality(DownFrom(v, c)) < Cardinality(DownFrom(v, n))
<1>1. DownFrom(v, c) \subseteq DownFrom(v, n)
  <2>1. SUFFICES ASSUME NEW m \in DownFrom(v, c) PROVE m \in DownFrom(v, n)
    OBVIOUS
  <2>2. Len(m) > Len(n) /\ SubSeq(m, 1, Len(n)) = n /\ m \in v.nodes
    BY <2>1, DownThrough DEF DownFrom
  <2>3. Len(m) \in Nat /\ Len(n) \in Nat
    BY <2>2 DEF IsView, Addresses
  <2> QED BY <2>2, <2>3 DEF DownFrom
<1>2. Len(n) \in Nat /\ Len(c) = Len(n) + 1 /\ n \in Addresses
  BY DEF IsView, Addresses, ChildrenOf
<1>3. n \in DownFrom(v, n) /\ n \notin DownFrom(v, c)
  <2>1. SubSeq(n, 1, Len(n)) = n
    BY <1>2 DEF Addresses
  <2> QED BY <1>2, <2>1 DEF DownFrom
<1>4. IsFiniteSet(DownFrom(v, n))
  BY FS_Subset DEF DownFrom
<1>5. IsFiniteSet(DownFrom(v, c)) /\ Cardinality(DownFrom(v, c)) <= Cardinality(DownFrom(v, n))
  BY <1>1, <1>4, FS_Subset
<1>6. Cardinality(DownFrom(v, c)) # Cardinality(DownFrom(v, n))
  BY <1>1, <1>3, <1>4, FS_Subset
<1>7. Cardinality(DownFrom(v, c)) \in Nat /\ Cardinality(DownFrom(v, n)) \in Nat
  BY <1>4, <1>5, FS_CardinalityType
<1> QED BY <1>5, <1>6, <1>7

\* What a subtree collects: the slots of its top and what its children collect.
PartsOf(v, n) ==
  {RulesIn(v, n, "leaf_slash"), RulesIn(v, n, "catchall")}
    \cup {Identities(v, c, TRUE) : c \in ChildrenOf(v, n)}

LEMMA IdentitiesSplit ==
  ASSUME NEW v, IsView(v), NEW n \in v.nodes
  PROVE  /\ Identities(v, n, FALSE) = UNION PartsOf(v, n)
         /\ Identities(v, n, TRUE) = Identities(v, n, FALSE) \cup RulesIn(v, n, "leaf")
<1>0. n \in Addresses /\ Len(n) \in Nat /\ SubSeq(n, 1, Len(n)) = n
  BY DEF IsView, Addresses
<1> DEFINE under(s) == Len(s.node) >= Len(n) /\ SubSeq(s.node, 1, Len(n)) = n
           leaf == [node |-> n, slot |-> "leaf"]
<1>1. \A s \in DOMAIN v.rule : /\ s.node \in v.nodes /\ s.node \in Addresses /\ Len(s.node) \in Nat
                               /\ s.slot \in Slots /\ s = [node |-> s.node, slot |-> s.slot]
  BY DEF IsView, Terminals, Addresses
<1>2. \A r : r \in Identities(v, n, FALSE) <=> \E s \in DOMAIN v.rule : r = v.rule[s] /\ under(s) /\ s # leaf
  BY DEF Identities
<1>3. \A r : r \in Identities(v, n, TRUE) <=> \E s \in DOMAIN v.rule : r = v.rule[s] /\ under(s)
  BY DEF Identities
<1>4. ASSUME NEW s \in DOMAIN v.rule, under(s), s # leaf
      PROVE  \E T \in PartsOf(v, n) : v.rule[s] \in T
  <2>1. CASE Len(s.node) = Len(n)
    <3>1. s.node = n
      BY <1>0, <1>1, <1>4, <2>1 DEF Addresses
    <3>2. s.slot = "leaf_slash" \/ s.slot = "catchall"
      BY <1>1, <1>4, <3>1 DEF Slots
    <3>3. v.rule[s] \in RulesIn(v, n, s.slot)
      BY <1>1, <3>1 DEF RulesIn
    <3> QED BY <3>2, <3>3 DEF PartsOf
  <2>2. CASE Len(s.node) # Len(n)
    <3>1. Len(s.node) >= Len(n) + 1 /\ Len(n) + 1 \in 0..Len(s.node)
      BY <1>0, <1>1, <1>4, <2>2
    <3>2. PICK c : c = SubSeq(s.node, 1, Len(n) + 1)
      OBVIOUS
    <3>3. c \in v.nodes
      BY <1>1, <3>1, <3>2 DEF IsView
    <3>4. /\ c \in Addresses /\ Len(c) = Len(n) + 1
          /\ \A i \in 1..Len(c) : c[i] = s.node[i]
      BY <1>0, <1>1, <3>1, <3>2 DEF Addresses
    <3>5. \A i \in 1..Len(n) : n[i] = s.node[i]
      BY <1>0, <1>1, <1>4 DEF Addresses
    <3>6. SubSeq(c, 1, Len(n)) = n
      <4>1. /\ SubSeq(c, 1, Len(n)) \in Addresses /\ Len(SubSeq(c, 1, Len(n))) = Len(n)
            /\ \A i \in 1..Len(n) : SubSeq(c, 1, Len(n))[i] = c[i]
        BY <1>0, <3>4 DEF Addresses
      <4>2. \A i \in 1..Len(n) : i \in 1..Len(c)
        BY <1>0, <3>4
      <4> QED BY <1>0, <3>4, <3>5, <4>1, <4>2, SeqEqual DEF Addresses
    <3>7. c \in ChildrenOf(v, n)
      BY <3>3, <3>4, <3>6 DEF ChildrenOf
    <3>8. v.rule[s] \in Identities(v, c, TRUE)
      BY <3>1, <3>2, <3>4 DEF Identities
    <3> QED BY <3>7, <3>8 DEF PartsOf
  <2> QED BY <2>1, <2>2
<1>5. ASSUME NEW T \in PartsOf(v, n), NEW r \in T
      PROVE  r \in Identities(v, n, FALSE)
  <2>1. CASE \E slot \in {"leaf_slash", "catchall"} : T = RulesIn(v, n, slot)
    <3>1. PICK slot \in {"leaf_slash", "catchall"} : r \in RulesIn(v, n, slot)
      BY <1>5, <2>1
    <3>2. PICK s \in DOMAIN v.rule : s = [node |-> n, slot |-> slot] /\ r = v.rule[s]
      BY <3>1 DEF RulesIn
    <3>3. s.node = n /\ s.slot # "leaf"
      BY <3>2
    <3>4. under(s) /\ s # leaf
      BY <1>0, <3>3
    <3> HIDE DEF under, leaf
    <3> QED BY <1>2, <3>2, <3>4
  <2>2. CASE \E c \in ChildrenOf(v, n) : T = Identities(v, c, TRUE)
    <3>1. PICK c \in ChildrenOf(v, n) : r \in Identities(v, c, TRUE)
      BY <1>5, <2>2
    <3>2. PICK s \in DOMAIN v.rule : r = v.rule[s] /\ Len(s.node) >= Len(c) /\ SubSeq(s.node, 1, Len(c)) = c
      BY <3>1 DEF Identities
    <3>3. Len(s.node) > Len(n) /\ SubSeq(s.node, 1, Len(n)) = n
      BY <1>1, <3>2, DownThrough
    <3>4. s.node # n
      BY <1>0, <3>3
    <3>5. under(s) /\ s # leaf
      BY <1>0, <1>1, <3>2, <3>3, <3>4
    <3> HIDE DEF under, leaf
    <3> QED BY <1>2, <3>2, <3>5
  <2> QED BY <1>5, <2>1, <2>2 DEF PartsOf
<1>6. Identities(v, n, FALSE) = UNION PartsOf(v, n)
  <2>1. ASSUME NEW r \in Identities(v, n, FALSE) PROVE r \in UNION PartsOf(v, n)
    <3>1. PICK s \in DOMAIN v.rule : r = v.rule[s] /\ under(s) /\ s # leaf
      BY <1>2
    <3> QED BY <1>4, <3>1
  <2> QED BY <1>5, <2>1
<1>7. \A r : r \in RulesIn(v, n, "leaf") <=> \E s \in DOMAIN v.rule : r = v.rule[s] /\ s = leaf
  BY DEF RulesIn
<1>8. under(leaf)
  BY <1>0
<1>9. Identities(v, n, TRUE) = Identities(v, n, FALSE) \cup RulesIn(v, n, "leaf")
  <2> HIDE DEF under, leaf
  <2> QED BY <1>2, <1>3, <1>7, <1>8
<1> QED BY <1>6, <1>9

\* The summaries as a recursive function.
SumUp(v, all, n) ==
  LET below == JoinAll({Slot(v, n, "leaf_slash"), Slot(v, n, "catchall")}
                         \cup {all[m].all : m \in ChildrenOf(v, n)})
  IN  [below |-> below, all |-> Join(below, Slot(v, n, "leaf"))]

Sums(v, all) == all = [n \in v.nodes |-> SumUp(v, all, n)]

CoversOf(v, n) == [below |-> CoverOf(Identities(v, n, FALSE)), all |-> CoverOf(Identities(v, n, TRUE))]

\* With the summaries of its children right, a node's is.
LEMMA SumUpIs ==
  ASSUME NEW v, IsView(v), IsFiniteSet(v.nodes), NEW n \in v.nodes, NEW all,
         \A c \in ChildrenOf(v, n) : all[c].all = CoverOf(Identities(v, c, TRUE))
  PROVE  SumUp(v, all, n) = CoversOf(v, n)
<1> DEFINE covers == {Slot(v, n, "leaf_slash"), Slot(v, n, "catchall")}
                       \cup {all[m].all : m \in ChildrenOf(v, n)}
<1>1. covers = {CoverOf(T) : T \in PartsOf(v, n)}
  <2>1. \A c : c \in covers <=> \/ c = Slot(v, n, "leaf_slash") \/ c = Slot(v, n, "catchall")
                               \/ \E m \in ChildrenOf(v, n) : c = CoverOf(Identities(v, m, TRUE))
    OBVIOUS
  <2>2. \A T : T \in PartsOf(v, n) <=> \/ T = RulesIn(v, n, "leaf_slash") \/ T = RulesIn(v, n, "catchall")
                                      \/ \E m \in ChildrenOf(v, n) : T = Identities(v, m, TRUE)
    BY DEF PartsOf
  <2>3. \A c : c \in covers <=> \E T \in PartsOf(v, n) : c = CoverOf(T)
    <3> HIDE DEF covers
    <3> QED BY <2>1, <2>2, SlotCover
  <2> HIDE DEF covers
  <2> QED BY <2>3
<1>2. IsFiniteSet(covers)
  <2>1. PICK f : f = [m \in ChildrenOf(v, n) |-> all[m].all]
    OBVIOUS
  <2>2. IsFiniteSet(ChildrenOf(v, n))
    BY FS_Subset DEF ChildrenOf
  <2>3. DOMAIN f = ChildrenOf(v, n) /\ {all[m].all : m \in ChildrenOf(v, n)} = {f[m] : m \in DOMAIN f}
    BY <2>1
  <2>4. IsFiniteSet({all[m].all : m \in ChildrenOf(v, n)})
    BY <2>2, <2>3, ImageFinite
  <2>5. \A a, b : IsFiniteSet({a, b})
    <3>1. SUFFICES ASSUME NEW a, NEW b PROVE IsFiniteSet({a, b})
      OBVIOUS
    <3>2. IsFiniteSet({}) /\ IsFiniteSet({} \cup {a}) /\ {} \cup {a} = {a}
      BY FS_EmptySet, FS_AddElement
    <3>3. IsFiniteSet({a} \cup {b}) /\ {a} \cup {b} = {a, b}
      BY <3>2, FS_AddElement
    <3> QED BY <3>3
  <2> QED BY <2>4, <2>5, FS_Union
<1> HIDE DEF covers
<1>3. JoinAll(covers) = CoverOf(Identities(v, n, FALSE))
  BY <1>1, <1>2, JoinAllJoint, CoverOfUnion, IdentitiesSplit
<1>4. Join(CoverOf(Identities(v, n, FALSE)), Slot(v, n, "leaf")) = CoverOf(Identities(v, n, TRUE))
  <2>1. PICK A, B : A = Identities(v, n, FALSE) /\ B = RulesIn(v, n, "leaf")
    OBVIOUS
  <2>2. Slot(v, n, "leaf") = CoverOf(B)
    BY <2>1, SlotCover
  <2>3. Identities(v, n, TRUE) = A \cup B
    BY <2>1, IdentitiesSplit
  <2>4. Join(CoverOf(A), CoverOf(B)) = CoverOf(A \cup B)
    BY JoinIsUnion
  <2> QED BY <2>1, <2>2, <2>3, <2>4
<1>5. SumUp(v, all, n) = [below |-> JoinAll(covers), all |-> Join(JoinAll(covers), Slot(v, n, "leaf"))]
  BY DEF SumUp, covers
<1> QED BY <1>3, <1>4, <1>5 DEF CoversOf

LEMMA SummarySums ==
  ASSUME NEW v, IsView(v), IsFiniteSet(v.nodes)
  PROVE  Sums(v, Summary(v))
<1> DEFINE g == [n \in v.nodes |-> CoversOf(v, n)]
<1>1. \A n \in v.nodes : SumUp(v, g, n) = CoversOf(v, n)
  <2>1. ASSUME NEW n \in v.nodes, NEW c \in ChildrenOf(v, n)
        PROVE  g[c].all = CoverOf(Identities(v, c, TRUE))
    BY DEF ChildrenOf, CoversOf
  <2> HIDE DEF g
  <2> QED BY <2>1, SumUpIs
<1>2. Sums(v, g)
  BY <1>1 DEF Sums
<1> HIDE DEF g
<1>3. Summary(v) = CHOOSE all : Sums(v, all)
  BY DEF Summary, Sums, SumUp, ChildrenOf
<1> QED BY <1>2, <1>3

\* The summary cached at a node is the cover of what the node's subtree collects.
LEMMA SummaryIs ==
  ASSUME NEW v, IsView(v), IsFiniteSet(v.nodes), NEW n \in v.nodes
  PROVE  Summary(v)[n] = CoversOf(v, n)
<1> DEFINE Wrong == {m \in v.nodes : Summary(v)[m] # CoversOf(v, m)}
           Sizes == {Cardinality(DownFrom(v, m)) : m \in Wrong}
<1> SUFFICES ASSUME Wrong # {} PROVE FALSE
  OBVIOUS
<1>1. Sizes \in SUBSET Nat /\ Sizes # {}
  <2>1. \A m \in v.nodes : Cardinality(DownFrom(v, m)) \in Nat
    BY FS_Subset, FS_CardinalityType DEF DownFrom
  <2> QED BY <2>1
<1>2. PICK k \in Sizes : \A j \in Sizes : k <= j
  <2> HIDE DEF Sizes
  <2> QED BY <1>1, LeastNatural
<1>3. PICK m \in Wrong : k = Cardinality(DownFrom(v, m))
  BY <1>2
<1>4. ASSUME NEW c \in ChildrenOf(v, m) PROVE Summary(v)[c].all = CoverOf(Identities(v, c, TRUE))
  <2>1. c \in v.nodes /\ m \in v.nodes
    BY DEF ChildrenOf
  <2>2. /\ Cardinality(DownFrom(v, c)) \in Nat /\ Cardinality(DownFrom(v, m)) \in Nat
        /\ Cardinality(DownFrom(v, c)) < Cardinality(DownFrom(v, m))
    BY <2>1, ChildSmaller
  <2>3. c \notin Wrong
    <3>1. ASSUME c \in Wrong PROVE FALSE
      <4>1. Cardinality(DownFrom(v, c)) \in Sizes
        BY <3>1
      <4>2. k <= Cardinality(DownFrom(v, c))
        BY <1>2, <4>1
      <4> QED BY <1>3, <2>2, <4>2
    <3> QED BY <3>1
  <2>4. Summary(v)[c] = CoversOf(v, c)
    BY <2>1, <2>3
  <2>5. CoversOf(v, c).all = CoverOf(Identities(v, c, TRUE))
    BY DEF CoversOf
  <2> QED BY <2>4, <2>5
<1>5. SumUp(v, Summary(v), m) = CoversOf(v, m)
  BY <1>3, <1>4, SumUpIs
<1>6. Summary(v)[m] = SumUp(v, Summary(v), m)
  <2>1. PICK f : f = Summary(v)
    OBVIOUS
  <2>2. f = [j \in v.nodes |-> SumUp(v, f, j)]
    BY <2>1, SummarySums DEF Sums
  <2>3. f[m] = SumUp(v, f, m)
    BY <1>3, <2>2
  <2> QED BY <2>1, <2>3
<1> QED BY <1>3, <1>5, <1>6

-----------------------------------------------------------------------------
GatherCovers == IsFiniteSet(view.nodes) /\ CoverAgrees

\* Whatever a step gathers, it joins the cover of the rules it collects.
LEMMA GatherKeeps ==
  ASSUME GatherCovers, NEW S, Gather(CoverOf(S), S)
  PROVE  CoverAgrees'
<1>1. cover = CoverOf(ids) /\ cover' = Join(cover, CoverOf(S)) /\ ids' = ids \cup S
  BY DEF GatherCovers, CoverAgrees, Gather
<1>2. PICK i : i = ids
  OBVIOUS
<1>3. cover' = CoverOf(i \cup S)
  BY <1>1, <1>2, JoinIsUnion
<1> QED BY <1>1, <1>2, <1>3 DEF CoverAgrees

LEMMA OpenKeeps ==
  ASSUME GatherCovers, NEW S, Open(CoverOf(S), S)
  PROVE  CoverAgrees'
<1>1. Join(CoverOf(S), Uniform(DEFAULT_RULE)) = CoverOf(S \cup {DEFAULT_RULE})
  BY CoverOfOne, JoinIsUnion
<1>2. Gather(CoverOf(S \cup {DEFAULT_RULE}), S \cup {DEFAULT_RULE})
  BY <1>1 DEF Open
<1> QED BY <1>2, GatherKeeps

LEMMA StillCovers ==
  ASSUME GatherCovers, UNCHANGED <<cover, ids>>
  PROVE  CoverAgrees'
BY DEF GatherCovers, CoverAgrees

LEMMA BranchCovers ==
  ASSUME IInv, GatherCovers, NEW child, NEW next, Branch(child, next)
  PROVE  CoverAgrees'
<1>1. CASE UNCHANGED <<cover, ids>>
  BY <1>1, StillCovers
<1>2. CASE child \in view.nodes /\ Gather(Summary(view)[child].below, Identities(view, child, FALSE))
  <2>1. PICK v : v = view
    OBVIOUS
  <2>2. IsView(v) /\ IsFiniteSet(v.nodes) /\ child \in v.nodes
    BY <1>2, <2>1 DEF IInv, Arguments, GatherCovers
  <2>3. Summary(v)[child].below = CoverOf(Identities(v, child, FALSE))
    <3>1. Summary(v)[child] = CoversOf(v, child)
      BY <2>2, SummaryIs
    <3> QED BY <3>1 DEF CoversOf
  <2>4. PICK S : S = Identities(v, child, FALSE)
    OBVIOUS
  <2> QED BY <1>2, <2>1, <2>3, <2>4, GatherKeeps
<1> QED BY <1>1, <1>2 DEF Branch

LEMMA CatchAllCovers ==
  ASSUME IInv, GatherCovers, WalkCatchAll
  PROVE  CoverAgrees'
<1>1. CASE UNCHANGED <<cover, ids>>
  BY <1>1, StillCovers
<1>2. CASE Open(None, {})
  <2>1. None = CoverOf({})
    BY CoverIs
  <2>2. Open(CoverOf({}), {})
    BY <1>2, <2>1
  <2> QED BY <2>2, OpenKeeps
<1>3. CASE /\ Has(view, node, "catchall")
           /\ Gather(Slot(view, node, "catchall"), {view.rule[[node |-> node, slot |-> "catchall"]]})
  <2>1. PICK r : r = view.rule[[node |-> node, slot |-> "catchall"]]
    OBVIOUS
  <2>2. Slot(view, node, "catchall") = Uniform(r)
    BY <1>3, <2>1 DEF Slot, Has
  <2>3. Gather(CoverOf({r}), {r})
    BY <1>3, <2>1, <2>2, CoverOfOne
  <2> QED BY <2>3, GatherKeeps
<1> QED BY <1>1, <1>2, <1>3 DEF WalkCatchAll

LEMMA RootCovers ==
  ASSUME IInv, GatherCovers, CoverRoot
  PROVE  CoverAgrees'
<1>1. PICK v, S, c : v = view /\ S = Identities(v, << >>, TRUE) /\ c = Summary(v)[<< >>].all
  OBVIOUS
<1>2. IsView(v) /\ IsFiniteSet(v.nodes) /\ << >> \in v.nodes
  BY <1>1 DEF IInv, Arguments, GatherCovers, IsView
<1>3. c = CoverOf(S)
  <2>1. Summary(v)[<< >>] = CoversOf(v, << >>)
    BY <1>2, SummaryIs
  <2> QED BY <1>1, <2>1 DEF CoversOf
<1>4. Gather(c, S) \/ Open(c, S)
  BY <1>1 DEF CoverRoot
<1> QED BY <1>3, <1>4, GatherKeeps, OpenKeeps

\* The cover the verdict compares, read off the cached summaries, is at every step the
\* cover of the rules that the diagnostic walk has collected.
THEOREM CoversAlwaysAgree == Spec => []CoverAgrees
<1>1. Init => IInv /\ GatherCovers
  <2>1. ASSUME Init PROVE CoverAgrees
    BY <2>1, CoverIs DEF Init, CoverAgrees
  <2> QED BY <2>1, InitCorrect, ViewsFinite DEF Init, GatherCovers
<1>2. IInv /\ GatherCovers /\ [Next]_vars => IInv' /\ GatherCovers'
  <2>1. SUFFICES ASSUME IInv, GatherCovers, [Next]_vars PROVE IInv' /\ GatherCovers'
    OBVIOUS
  <2>2. IInv'
    BY <2>1, StepCorrect
  <2>3. view' = view
    BY <2>1 DEF Next, WalkLiteral, WalkWildcard, WalkCatchAll, CoverRoot, Branch, arguments, vars
  <2>4. CoverAgrees'
    <3>1. CASE WalkLiteral
      BY <2>1, <3>1, BranchCovers DEF WalkLiteral
    <3>2. CASE WalkWildcard
      BY <2>1, <3>2, BranchCovers DEF WalkWildcard
    <3>3. CASE WalkCatchAll
      BY <2>1, <3>3, CatchAllCovers
    <3>4. CASE CoverRoot
      BY <2>1, <3>4, RootCovers
    <3>5. CASE UNCHANGED vars
      BY <2>1, <3>5, StillCovers DEF vars
    <3> QED BY <2>1, <3>1, <3>2, <3>3, <3>4, <3>5 DEF Next
  <2> QED BY <2>1, <2>2, <2>3, <2>4 DEF GatherCovers
<1>3. GatherCovers => CoverAgrees
  BY DEF GatherCovers
<1> QED BY <1>1, <1>2, <1>3, PTL DEF Spec
=============================================================================
