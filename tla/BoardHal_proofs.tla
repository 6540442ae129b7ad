-------------------------- MODULE BoardHal_proofs --------------------------
(***************************************************************************)
(* What the board shows between two calls is what the authority reports of *)
(* it, for any groups, settings, curves, table sizes and numbers of calls, *)
(* bus losses, dropped writes and failing steps.                           *)
(*                                                                         *)
(* A program is a sequence of operations, each of which sets one key: the  *)
(* lanes of a group, or the curve that runs.  The invariant follows what   *)
(* the rest of the program makes of every key: an apply takes it to the    *)
(* new configuration, a rollback to what was read before, and whatever     *)
(* fails, the program that follows takes over from where the registers are *)
(* (GoalIsReached).  It needs that no program touches more than differs    *)
(* (StaysWithin), so what is left alone is still as it was, and what is    *)
(* known inside a mask's and a curve's program (MaskKnows, FanKnows), so   *)
(* an operation that returns has set its key.                              *)
(***************************************************************************)
EXTENDS BoardHal, TLAPS

\* What an operation sets: the mask of a group, the running curve, or nothing.
FanKey == <<FanBranch, 0>>
Nothing == <<0, 0>>
Keys == Groups \cup {FanKey}
Key(op) == CASE op.op = "mask" -> op.group [] op.op = "fan" -> FanKey [] op.op = "step" -> Nothing
Value(op) == CASE op.op = "mask" -> op.lanes [] op.op = "fan" -> op.fan [] op.op = "step" -> Blank

\* What runs now, and what a configuration asks for.
Running == IF fan[Mode] = "lut" THEN fan[Limit] ELSE Blank
Mask(masks, k) == masks[k[1]][k[2]]
Now(k) == IF k = FanKey THEN Running ELSE Mask(nibbles, k)
Wanted(c, k) == IF k = FanKey THEN c.fan ELSE GroupMask(c.group[k])
Before(k) == IF k = FanKey THEN configuration.fan ELSE Mask(before, k)

\* What a program makes of a key that holds x: y.
Silent(s, k) == \A i \in 1..Len(s) : Key(s[i]) # k
Sets(s, k, y) ==
  \E i \in 1..Len(s) : Key(s[i]) = k /\ Value(s[i]) = y /\ \A j \in 1..Len(s) : j > i => Key(s[j]) # k
Ends(s, k, x, y) == Sets(s, k, y) \/ (Silent(s, k) /\ x = y)

\* Keys that two configurations ask different things of.
Touched(a, b) == Affected(a, b) \cup (IF a.fan # b.fan THEN {FanKey} ELSE {})

\* Keys of which nothing is promised while nothing runs.
Excused == degraded \cup (IF broken \/ (manual /\ call # "release") THEN {FanKey} ELSE {})
Sure(k) == k \notin Excused \/ (call \in {"apply", "rollback"} /\ k \in Touched(configuration, target))
Goal(k) ==
  CASE call = "apply" -> Wanted(target, k)
    [] call = "rollback" -> Before(k)
    [] call \in {"idle", "boot", "release", "mute"} -> Wanted(configuration, k)

\* Whatever runs leaves every key at its goal.
GoalIsReached == \A k \in Keys : Sure(k) => Ends(ops, k, Now(k), Goal(k))

\* An apply, and what undoes it, touch only what differs.
StaysWithin ==
  /\ call \in {"apply", "rollback", "mute"} =>
       \A i \in 1..Len(ops) : Key(ops[i]) \in Touched(configuration, target) \cup {Nothing}
  /\ call = "mute" => /\ broken /\ Affected(configuration, target) \subseteq degraded
                      /\ \A i \in 1..Len(ops) : Key(ops[i]) # FanKey
  /\ call = "release" => manual /\ \A i \in 1..Len(ops) : Key(ops[i]) = FanKey
  /\ call \in {"apply", "rollback"} =>
       \A g \in Groups \ degraded : Mask(before, g) = Wanted(configuration, g)

\* What is known inside an access.
MaskKnows ==
  \/ ops = <<>> \/ Op.op # "mask"
  \/ (at = 3 \/ (at = 2 /\ Op.group[2] = 2)) => Mask(nibbles, Op.group) = Op.lanes
FanKnows ==
  \/ ops = <<>> \/ Op.op # "fan"
  \/ /\ at \in 2..LastWrite => fan[Mode] = "direct"
     /\ at \in 2..(LastWrite + 1) =>
          /\ \A i \in 1..Points : i + 2 < at => fan[Lut(i)] = Op.fan
          /\ at > Points + 3 => fan[Limit] = Op.fan
     /\ at = LastWrite + 1 => fan[Mode] = "lut"

Ops == [op : {"mask"}, group : Groups, lanes : SUBSET Lanes] \cup [op : {"fan"}, fan : Curves] \cup {Step}
Masks == [Mpos -> [0..2 -> SUBSET Lanes]]

BoardTypes ==
  /\ nibbles \in Masks /\ before \in Masks
  /\ fan \in [Registers -> Curves \cup {Blank, "direct", "lut", "full"}]
  /\ call \in {"idle", "boot", "apply", "rollback", "mute", "release"}
  /\ ops \in Seq(Ops) /\ (ops = <<>> <=> call = "idle")
  /\ at \in Nat
  /\ {configuration, target, pending} \subseteq Configs
  /\ degraded \subseteq Groups /\ manual \in BOOLEAN /\ broken \in BOOLEAN

BoardInv ==
  BoardTypes /\ GoalIsReached /\ StaysWithin /\ MaskKnows /\ FanKnows /\ AutomaticIsWhole

\* Keys of different operations are different.
LEMMA KeysApart ==
  /\ \A g \in Groups : g # FanKey /\ g # Nothing /\ g \in Mpos \X (0..2)
  /\ FanKey # Nothing
  <1>1. \A g \in Groups : g[1] \in {1, 2} /\ g \in Mpos \X (0..2)
    BY BoardAssumption DEF BoardAssumption, Mpos
  <1>2. FanKey[1] = 8 /\ Nothing[1] = 0
    BY DEF FanKey, Nothing, FanBranch
  <1> QED
    BY <1>1, <1>2

\* What each operation is, and sets.
LEMMA MaskOpIs ==
  ASSUME NEW g \in Groups, NEW lanes \in SUBSET Lanes
  PROVE  MaskOp(g, lanes) \in Ops /\ Key(MaskOp(g, lanes)) = g /\ Value(MaskOp(g, lanes)) = lanes
  BY DEF MaskOp, Ops, Key, Value

\* A curve's operation sets the running curve.
LEMMA FanOpIs ==
  ASSUME NEW c \in Curves
  PROVE  FanOp(c) \in Ops /\ Key(FanOp(c)) = FanKey /\ Value(FanOp(c)) = c
  BY DEF FanOp, Ops, Key, Value

\* A step sets nothing.
LEMMA StepIs == Step \in Ops /\ Key(Step) = Nothing
  BY DEF Step, Ops, Key

\* The three shapes of an operation, each with what it sets.
LEMMA OpIs ==
  ASSUME NEW op \in Ops
  PROVE  \/ op.op = "mask" /\ op.group \in Groups /\ op.lanes \in SUBSET Lanes
              /\ Key(op) = op.group /\ Value(op) = op.lanes
         \/ op.op = "fan" /\ op.fan \in Curves /\ Key(op) = FanKey /\ Value(op) = op.fan
         \/ op.op = "step" /\ Key(op) = Nothing
  <1>1. CASE op \in [op : {"mask"}, group : Groups, lanes : SUBSET Lanes]
    BY <1>1 DEF Key, Value
  <1>2. CASE op \in [op : {"fan"}, fan : Curves]
    BY <1>2 DEF Key, Value
  <1>3. CASE op = Step
    BY <1>3 DEF Step, Key
  <1> QED
    BY <1>1, <1>2, <1>3 DEF Ops

(***************************************************************************)
(* Programs: what a sequence of operations leaves of a key.                *)
(***************************************************************************)
\* While the operation that stands at a key is the first of a program, the
\* program sets that key, whatever it holds.
LEMMA HeadDecides ==
  ASSUME NEW s \in Seq(Ops), s # <<>>, NEW k, NEW x, NEW y, Ends(s, k, x, y), Key(Head(s)) = k
  PROVE  Sets(s, k, y)
  <1>1. 1 \in 1..Len(s) /\ Head(s) = s[1]
    OBVIOUS
  <1> QED
    BY <1>1 DEF Ends, Silent

\* An operation that is done has left its key as it sets it, and the rest of
\* the program ends as the whole would have.
LEMMA TailEnds ==
  ASSUME NEW s \in Seq(Ops), s # <<>>, NEW k, NEW x, NEW y, Ends(s, k, x, y),
         Key(Head(s)) = k => x = Value(Head(s))
  PROVE  Ends(Tail(s), k, x, y)
  <1> DEFINE t == Tail(s)
  <1>1. /\ Len(s) \in Nat /\ Len(s) >= 1 /\ Len(t) = Len(s) - 1
        /\ \A i \in 1..Len(t) : t[i] = s[i + 1] /\ i + 1 \in 1..Len(s)
        /\ 1 \in 1..Len(s) /\ Head(s) = s[1]
    OBVIOUS
  <1> HIDE DEF t
  <1>2. CASE Silent(s, k)
    <2>1. Silent(t, k)
      BY <1>1, <1>2 DEF Silent
    <2>2. x = y
      BY <1>2 DEF Ends, Silent, Sets
    <2> QED
      BY <2>1, <2>2 DEF Ends, t
  <1>3. CASE Sets(s, k, y)
    <2>1. PICK i \in 1..Len(s) : /\ Key(s[i]) = k /\ Value(s[i]) = y
                                 /\ \A j \in 1..Len(s) : j > i => Key(s[j]) # k
      BY <1>3 DEF Sets
    <2>2. CASE i = 1
      <3>1. \A j \in 1..Len(t) : Key(t[j]) # k
        BY <1>1, <2>1, <2>2
      <3>2. x = y
        BY <1>1, <2>1, <2>2
      <3> QED
        BY <3>1, <3>2 DEF Ends, Silent, t
    <2>3. CASE i # 1
      <3>1. i - 1 \in 1..Len(t) /\ (i - 1) + 1 = i
        BY <1>1, <2>3
      <3>2. t[i - 1] = s[i]
        BY <1>1, <3>1
      <3>3. \A j \in 1..Len(t) : j > i - 1 => Key(t[j]) # k
        BY <1>1, <2>1
      <3>4. Sets(t, k, y)
        BY <2>1, <3>1, <3>2, <3>3 DEF Sets
      <3> QED
        BY <3>4 DEF Ends, t
    <2> QED
      BY <2>2, <2>3
  <1> QED
    BY <1>2, <1>3 DEF Ends

\* An empty program leaves everything as it is.
LEMMA EmptyEnds == ASSUME NEW k, NEW x, NEW y PROVE Ends(<<>>, k, x, y) <=> x = y
  BY DEF Ends, Sets, Silent

\* Two programs one after the other leave alone what both leave alone.
LEMMA CatSilent ==
  ASSUME NEW s \in Seq(Ops), NEW t \in Seq(Ops), NEW k, Silent(s, k), Silent(t, k)
  PROVE  Silent(s \o t, k)
  <1>1. \A i \in 1..Len(s \o t) : \/ i \in 1..Len(s) /\ (s \o t)[i] = s[i]
                                  \/ i - Len(s) \in 1..Len(t) /\ (s \o t)[i] = t[i - Len(s)]
    OBVIOUS
  <1> QED
    BY <1>1 DEF Silent

\* Two programs one after the other set what the second sets, or the first
\* sets and the second leaves alone.
LEMMA CatSets ==
  ASSUME NEW s \in Seq(Ops), NEW t \in Seq(Ops), NEW k, NEW y,
         Sets(t, k, y) \/ (Sets(s, k, y) /\ Silent(t, k))
  PROVE  Sets(s \o t, k, y)
  <1> DEFINE u == s \o t
  <1>1. /\ Len(s) \in Nat /\ Len(t) \in Nat /\ Len(u) = Len(s) + Len(t)
        /\ \A i \in 1..Len(s) : u[i] = s[i]
        /\ \A i \in 1..Len(t) : u[Len(s) + i] = t[i]
    OBVIOUS
  <1> HIDE DEF u
  <1>2. CASE Sets(t, k, y)
    <2>1. PICK i \in 1..Len(t) : /\ Key(t[i]) = k /\ Value(t[i]) = y
                                 /\ \A j \in 1..Len(t) : j > i => Key(t[j]) # k
      BY <1>2 DEF Sets
    <2>2. Len(s) + i \in 1..Len(u)
      BY <1>1
    <2>3. ASSUME NEW j \in 1..Len(u), j > Len(s) + i PROVE Key(u[j]) # k
      <3>1. j - Len(s) \in 1..Len(t) /\ j - Len(s) > i /\ Len(s) + (j - Len(s)) = j
        BY <1>1, <2>3
      <3> QED
        BY <1>1, <2>1, <3>1
    <2> QED
      BY <1>1, <2>1, <2>2, <2>3 DEF Sets, u
  <1>3. CASE Sets(s, k, y) /\ Silent(t, k)
    <2>1. PICK i \in 1..Len(s) : /\ Key(s[i]) = k /\ Value(s[i]) = y
                                 /\ \A j \in 1..Len(s) : j > i => Key(s[j]) # k
      BY <1>3 DEF Sets
    <2>2. i \in 1..Len(u)
      BY <1>1
    <2>3. ASSUME NEW j \in 1..Len(u), j > i PROVE Key(u[j]) # k
      <3>1. CASE j <= Len(s)
        BY <1>1, <2>1, <2>3, <3>1
      <3>2. CASE j > Len(s)
        <4>1. j - Len(s) \in 1..Len(t) /\ Len(s) + (j - Len(s)) = j
          BY <1>1, <3>2
        <4> QED
          BY <1>1, <1>3, <4>1 DEF Silent
      <3> QED
        BY <1>1, <3>1, <3>2
    <2> QED
      BY <1>1, <2>1, <2>2, <2>3 DEF Sets, u
  <1> QED
    BY <1>2, <1>3

\* One operation sets its key and no other.
LEMMA OneOp ==
  ASSUME NEW op
  PROVE  /\ Sets(<<op>>, Key(op), Value(op))
         /\ \A k : k # Key(op) => Silent(<<op>>, k)
  BY DEF Sets, Silent

\* The blocks of the groups in the order of PHYSICAL: what one block sets and
\* the others leave alone is set; what none touches is not.
LEMMA PartIs ==
  ASSUME NEW block, \A g \in DOMAIN block : block[g] \in Seq(Ops), NEW m, NEW p
  PROVE  Part(block, m, p) \in Seq(Ops)
  BY DEF Part

\* An empty program is one and leaves every key alone.
LEMMA EmptySilent == <<>> \in Seq(Ops) /\ \A k : Silent(<<>>, k)
  BY DEF Silent

\* The blocks of the groups together are a program.
LEMMA EachIs ==
  ASSUME NEW block, \A g \in DOMAIN block : block[g] \in Seq(Ops)
  PROVE  Each(block) \in Seq(Ops)
  <1> DEFINE P(m, p) == Part(block, m, p)
  <1>1. \A m, p : P(m, p) \in Seq(Ops)
    BY PartIs
  <1>2. \A s, t \in Seq(Ops) : s \o t \in Seq(Ops)
    OBVIOUS
  <1>3. Each(block) = P(1, 0) \o P(1, 1) \o P(1, 2) \o P(2, 0) \o P(2, 1) \o P(2, 2)
    BY DEF Each
  <1> HIDE DEF P
  <1> QED
    BY <1>1, <1>2, <1>3

\* What no block touches the whole does not.
LEMMA EachSilent ==
  ASSUME NEW block, \A g \in DOMAIN block : block[g] \in Seq(Ops),
         NEW k, \A g \in DOMAIN block : Silent(block[g], k)
  PROVE  Silent(Each(block), k)
  <1> DEFINE P(m, p) == Part(block, m, p)
  <1>1. \A m, p : P(m, p) \in Seq(Ops) /\ Silent(P(m, p), k)
    <2> SUFFICES ASSUME NEW m, NEW p PROVE P(m, p) \in Seq(Ops) /\ Silent(P(m, p), k)
      OBVIOUS
    <2>1. P(m, p) \in Seq(Ops)
      BY PartIs
    <2>2. Silent(P(m, p), k)
      BY EmptySilent DEF Part
    <2> QED
      BY <2>1, <2>2
  <1>2. \A s, t \in Seq(Ops) : s \o t \in Seq(Ops)
    OBVIOUS
  <1>3. \A s, t \in Seq(Ops) : Silent(s, k) /\ Silent(t, k) => Silent(s \o t, k)
    BY CatSilent
  <1>4. Each(block) = P(1, 0) \o P(1, 1) \o P(1, 2) \o P(2, 0) \o P(2, 1) \o P(2, 2)
    BY DEF Each
  <1> HIDE DEF P
  <1> QED
    BY <1>1, <1>2, <1>3, <1>4

\* What one block sets and no other touches, the whole sets.
LEMMA EachSets ==
  ASSUME NEW block, \A g \in DOMAIN block : block[g] \in Seq(Ops),
         NEW k \in DOMAIN block, k \in Mpos \X (0..2), NEW y, Sets(block[k], k, y),
         \A g \in DOMAIN block : g # k => Silent(block[g], k)
  PROVE  Sets(Each(block), k, y)
  <1> DEFINE P(m, p) == Part(block, m, p)
  <1>1. \A m, p : /\ P(m, p) \in Seq(Ops)
                  /\ <<m, p>> = k => Sets(P(m, p), k, y)
                  /\ <<m, p>> # k => Silent(P(m, p), k)
    <2> SUFFICES ASSUME NEW m, NEW p
                 PROVE  /\ P(m, p) \in Seq(Ops)
                        /\ <<m, p>> = k => Sets(P(m, p), k, y)
                        /\ <<m, p>> # k => Silent(P(m, p), k)
      OBVIOUS
    <2>1. P(m, p) \in Seq(Ops)
      BY PartIs
    <2>2. CASE <<m, p>> = k
      BY <2>1, <2>2 DEF Part
    <2>3. CASE <<m, p>> # k
      BY <2>1, <2>3, EmptySilent DEF Part
    <2> QED
      BY <2>2, <2>3
  <1>2. \A s, t \in Seq(Ops) : s \o t \in Seq(Ops)
    OBVIOUS
  <1>3. \A s, t \in Seq(Ops) : Sets(t, k, y) => Sets(s \o t, k, y)
    BY CatSets
  <1>4. \A s, t \in Seq(Ops) : Sets(s, k, y) /\ Silent(t, k) => Sets(s \o t, k, y)
    BY CatSets
  <1>5. Each(block) = P(1, 0) \o P(1, 1) \o P(1, 2) \o P(2, 0) \o P(2, 1) \o P(2, 2)
    BY DEF Each
  <1>6. k \in {<<1, 0>>, <<1, 1>>, <<1, 2>>, <<2, 0>>, <<2, 1>>, <<2, 2>>}
    <2>1. PICK m \in {1, 2}, p \in 0..2 : k = <<m, p>>
      BY DEF Mpos
    <2>2. p = 0 \/ p = 1 \/ p = 2
      OBVIOUS
    <2> QED
      BY <2>1, <2>2
  <1>7. /\ <<1, 0>> # <<1, 1>> /\ <<1, 0>> # <<1, 2>> /\ <<1, 1>> # <<1, 2>> /\ <<2, 0>> # <<2, 1>>
        /\ <<2, 0>> # <<2, 2>> /\ <<2, 1>> # <<2, 2>>
        /\ \A p, q : <<1, p>> # <<2, q>>
    OBVIOUS
  <1> HIDE DEF P
  <1> DEFINE a == P(1, 0)
             b == a \o P(1, 1)
             c == b \o P(1, 2)
             d == c \o P(2, 0)
             e == d \o P(2, 1)
             f == e \o P(2, 2)
  <1>8. a \in Seq(Ops) /\ b \in Seq(Ops) /\ c \in Seq(Ops) /\ d \in Seq(Ops) /\ e \in Seq(Ops)
    BY <1>1, <1>2
  <1>9. <<1, 0>> = k => Sets(a, k, y)
    BY <1>1
  <1> HIDE DEF a
  <1>10. Sets(a, k, y) \/ <<1, 1>> = k => Sets(b, k, y)
    BY <1>1, <1>3, <1>4, <1>8
  <1> HIDE DEF b
  <1>11. Sets(b, k, y) \/ <<1, 2>> = k => Sets(c, k, y)
    BY <1>1, <1>3, <1>4, <1>8
  <1> HIDE DEF c
  <1>12. Sets(c, k, y) \/ <<2, 0>> = k => Sets(d, k, y)
    BY <1>1, <1>3, <1>4, <1>8
  <1> HIDE DEF d
  <1>13. Sets(d, k, y) \/ <<2, 1>> = k => Sets(e, k, y)
    BY <1>1, <1>3, <1>4, <1>8
  <1> HIDE DEF e
  <1>14. Sets(e, k, y) \/ <<2, 2>> = k => Sets(f, k, y)
    BY <1>1, <1>3, <1>4, <1>8
  <1>15. Each(block) = f
    BY <1>5 DEF a, b, c, d, e
  <1> HIDE DEF f
  <1> QED
    BY <1>6, <1>9, <1>10, <1>11, <1>12, <1>13, <1>14, <1>15

\* A program that has one mask for each of some groups.
LEMMA MasksFor ==
  ASSUME NEW S \in SUBSET Groups, NEW lanes \in [S -> SUBSET Lanes], NEW s,
         s = Each([g \in S |-> <<MaskOp(g, lanes[g])>>])
  PROVE  /\ s \in Seq(Ops)
         /\ \A g \in S : Sets(s, g, lanes[g])
         /\ \A k : k \notin S => Silent(s, k)
  <1> DEFINE block == [g \in S |-> <<MaskOp(g, lanes[g])>>]
  <1>1. \A g \in S : /\ block[g] \in Seq(Ops) /\ Sets(block[g], g, lanes[g])
                     /\ \A k : k # g => Silent(block[g], k)
    <2> SUFFICES ASSUME NEW g \in S
                 PROVE  /\ block[g] \in Seq(Ops) /\ Sets(block[g], g, lanes[g])
                        /\ \A k : k # g => Silent(block[g], k)
      OBVIOUS
    <2> DEFINE op == MaskOp(g, lanes[g])
    <2>1. op \in Ops /\ Key(op) = g /\ Value(op) = lanes[g] /\ block[g] = <<op>>
      BY MaskOpIs
    <2> HIDE DEF op, block
    <2>2. <<op>> \in Seq(Ops)
      BY <2>1
    <2> QED
      BY <2>1, <2>2, OneOp
  <1>2. \A g \in S : g \in Mpos \X (0..2)
    BY KeysApart
  <1>3. DOMAIN block = S /\ s = Each(block)
    OBVIOUS
  <1> HIDE DEF block
  <1>4. s \in Seq(Ops)
    BY <1>1, <1>3, EachIs
  <1>5. \A g \in S : Sets(s, g, lanes[g])
    BY <1>1, <1>2, <1>3, EachSets
  <1>6. ASSUME NEW k, k \notin S PROVE Silent(s, k)
    BY <1>1, <1>3, <1>6, EachSilent
  <1> QED
    BY <1>4, <1>5, <1>6

\* The masks of a configuration are sets of lanes, its curve is one.
LEMMA WantedIs ==
  ASSUME NEW c \in Configs
  PROVE  /\ \A g \in Groups : GroupMask(c.group[g]) \in SUBSET Lanes
         /\ c.fan \in Curves /\ c.fan # Blank
         /\ DOMAIN c.group = Groups
  <1>1. c \in [group : [Groups -> Settings], fan : Curves] /\ Blank \notin Curves
    BY BoardAssumption DEF BoardAssumption
  <1>2. \A s \in Settings : s.ports \subseteq Lanes
    BY BoardAssumption DEF BoardAssumption
  <1> QED
    BY <1>1, <1>2 DEF GroupMask

\* The program at the start sets every key as the configuration asks.
LEMMA RestoreIs ==
  ASSUME NEW c \in Configs
  PROVE  /\ RestoreHardware(c) \in Seq(Ops) /\ RestoreHardware(c) # <<>>
         /\ \A k \in Keys : Sets(RestoreHardware(c), k, Wanted(c, k))
  <1> DEFINE lanes == [g \in Groups |-> GroupMask(c.group[g])]
             s == Each([g \in Groups |-> <<MaskOp(g, lanes[g])>>])
             t == <<FanOp(c.fan)>>
  <1>1. lanes \in [Groups -> SUBSET Lanes]
    BY WantedIs
  <1>2. [g \in Groups |-> <<MaskOp(g, lanes[g])>>] = [g \in Groups |-> <<MaskOp(g, GroupMask(c.group[g]))>>]
    OBVIOUS
  <1>3. RestoreHardware(c) = s \o t
    BY <1>2 DEF RestoreHardware
  <1>4. \A g \in Groups : lanes[g] = Wanted(c, g)
    BY KeysApart DEF Wanted
  <1> HIDE DEF lanes
  <1>5. s \in Seq(Ops) /\ (\A g \in Groups : Sets(s, g, lanes[g]))
    BY <1>1, MasksFor
  <1>6. /\ t \in Seq(Ops) /\ Sets(t, FanKey, c.fan) /\ \A k : k # FanKey => Silent(t, k)
    BY FanOpIs, OneOp, WantedIs
  <1>7. t # <<>>
    OBVIOUS
  <1> HIDE DEF s, t
  <1>10. s \o t \in Seq(Ops) /\ s \o t # <<>>
    BY <1>5, <1>6, <1>7
  <1>8. Sets(s \o t, FanKey, c.fan) /\ c.fan = Wanted(c, FanKey)
    BY <1>5, <1>6, CatSets DEF Wanted
  <1>9. \A g \in Groups : Sets(s \o t, g, lanes[g])
    BY <1>5, <1>6, CatSets, KeysApart
  <1> QED
    BY <1>3, <1>4, <1>8, <1>9, <1>10 DEF Keys

\* The program of one group in an apply: its lanes off, then the new ones on.
LEMMA FiveOps ==
  ASSUME NEW g \in Groups, NEW first \in SUBSET Lanes, NEW last \in SUBSET Lanes, NEW s,
         s = <<Step, MaskOp(g, first), Step, MaskOp(g, last), Step>>
  PROVE  /\ s \in Seq(Ops) /\ Sets(s, g, last)
         /\ \A k : k \notin {g, Nothing} => Silent(s, k)
  <1>1. /\ Step \in Ops /\ MaskOp(g, first) \in Ops /\ MaskOp(g, last) \in Ops
        /\ Key(Step) = Nothing /\ Key(MaskOp(g, first)) = g /\ Key(MaskOp(g, last)) = g
        /\ Value(MaskOp(g, last)) = last /\ g # Nothing
    BY MaskOpIs, StepIs, KeysApart
  <1>2. /\ Len(s) = 5 /\ s[1] = Step /\ s[2] = MaskOp(g, first) /\ s[3] = Step
        /\ s[4] = MaskOp(g, last) /\ s[5] = Step
    OBVIOUS
  <1>3. s \in Seq(Ops)
    BY <1>1
  <1>4. Sets(s, g, last)
    <2>1. 4 \in 1..Len(s) /\ \A j \in 1..Len(s) : j > 4 => j = 5
      BY <1>2
    <2> QED
      BY <1>1, <1>2, <2>1 DEF Sets
  <1>5. ASSUME NEW k, k \notin {g, Nothing} PROVE Silent(s, k)
    <2>1. \A i \in 1..Len(s) : i \in {1, 2, 3, 4, 5}
      BY <1>2
    <2> QED
      BY <1>1, <1>2, <1>5, <2>1 DEF Silent
  <1> QED
    BY <1>3, <1>4, <1>5

\* An apply sets what differs as the new configuration asks, and touches
\* nothing else.
LEMMA ApplyIs ==
  ASSUME NEW a \in Configs, NEW b \in Configs, NEW s, s = ApplyHardware(a, b)
  PROVE  /\ s \in Seq(Ops) /\ s # <<>>
         /\ \A k \in Touched(a, b) : Sets(s, k, Wanted(b, k))
         /\ \A k : k \notin Touched(a, b) \cup {Nothing} => Silent(s, k)
  <1> DEFINE S == Affected(a, b)
             block == [g \in S |-> <<Step, MaskOp(g, {}), Step, MaskOp(g, GroupMask(b.group[g])), Step>>]
             f == IfFanDiffers(a, b, <<Step, FanOp(b.fan)>>)
             u == Each(block) \o f
             t == <<Step>>
  <1>1. s = u \o t
    BY DEF ApplyHardware
  <1>2. \A g \in S : g \in Groups /\ g \in Mpos \X (0..2) /\ g # Nothing /\ g # FanKey
    BY KeysApart DEF Affected
  <1>3. \A g \in S : /\ block[g] \in Seq(Ops) /\ Sets(block[g], g, Wanted(b, g))
                     /\ \A k : k \notin {g, Nothing} => Silent(block[g], k)
    BY <1>2, FiveOps, WantedIs DEF Wanted
  <1>4. DOMAIN block = S
    OBVIOUS
  <1> HIDE DEF block
  <1>5. Each(block) \in Seq(Ops)
    BY <1>3, <1>4, EachIs
  <1>6. \A g \in S : Sets(Each(block), g, Wanted(b, g))
    BY <1>2, <1>3, <1>4, EachSets
  <1>7. ASSUME NEW k, k \notin S \cup {Nothing} PROVE Silent(Each(block), k)
    BY <1>3, <1>4, <1>7, EachSilent
  <1>8. /\ f \in Seq(Ops)
        /\ a.fan # b.fan => Sets(f, FanKey, b.fan)
        /\ a.fan = b.fan => f = <<>>
        /\ \A k : k # FanKey /\ k # Nothing => Silent(f, k)
    <2>1. CASE a.fan = b.fan
      BY <2>1 DEF IfFanDiffers, Silent
    <2>2. CASE a.fan # b.fan
      <3>1. f = <<Step, FanOp(b.fan)>>
        BY <2>2 DEF IfFanDiffers
      <3>2. /\ Step \in Ops /\ FanOp(b.fan) \in Ops /\ Key(Step) = Nothing
            /\ Key(FanOp(b.fan)) = FanKey /\ Value(FanOp(b.fan)) = b.fan
        BY StepIs, FanOpIs, WantedIs
      <3> HIDE DEF f
      <3>3. f \in Seq(Ops) /\ Len(f) = 2 /\ f[1] = Step /\ f[2] = FanOp(b.fan)
        BY <3>1, <3>2
      <3>4. Sets(f, FanKey, b.fan)
        <4>1. 2 \in 1..Len(f) /\ \A j \in 1..Len(f) : ~ j > 2
          BY <3>3
        <4> QED
          BY <3>2, <3>3, <4>1 DEF Sets
      <3>5. \A k : k # FanKey /\ k # Nothing => Silent(f, k)
        <4>1. \A i \in 1..Len(f) : i = 1 \/ i = 2
          BY <3>3
        <4> QED
          BY <3>2, <3>3, <4>1 DEF Silent
      <3> QED
        BY <2>2, <3>3, <3>4, <3>5
    <2> QED
      BY <2>1, <2>2
  <1>9. t \in Seq(Ops) /\ t # <<>> /\ \A k : k # Nothing => Silent(t, k)
    BY StepIs, OneOp
  <1> HIDE DEF f
  <1>10. u \in Seq(Ops)
    BY <1>5, <1>8
  <1>11. s \in Seq(Ops) /\ s # <<>>
    BY <1>1, <1>9, <1>10
  <1> HIDE DEF t
  <1>12. \A g \in S : Sets(u, g, Wanted(b, g))
    BY <1>2, <1>5, <1>6, <1>8, CatSets
  <1>13. a.fan # b.fan => Sets(u, FanKey, b.fan)
    BY <1>5, <1>8, CatSets
  <1>14. ASSUME NEW k, k \notin Touched(a, b) \cup {Nothing} PROVE Silent(u, k)
    <2>1. Silent(Each(block), k)
      BY <1>7, <1>14 DEF Touched
    <2>2. Silent(f, k)
      BY <1>8, <1>14 DEF Touched, Silent
    <2> QED
      BY <1>5, <1>8, <2>1, <2>2, CatSilent
  <1> HIDE DEF u
  <1>15. ASSUME NEW k \in Touched(a, b) PROVE Sets(s, k, Wanted(b, k))
    <2>1. Sets(u, k, Wanted(b, k)) /\ k # Nothing
      BY <1>2, <1>12, <1>13, KeysApart DEF Touched, Wanted
    <2> QED
      BY <1>1, <1>9, <1>10, <2>1, CatSets
  <1>16. ASSUME NEW k, k \notin Touched(a, b) \cup {Nothing} PROVE Silent(s, k)
    BY <1>1, <1>9, <1>10, <1>14, <1>16, CatSilent
  <1> QED
    BY <1>11, <1>15, <1>16

\* A rollback sets what differs as it was, and touches nothing else.
LEMMA RollbackIs ==
  ASSUME NEW a \in Configs, NEW b \in Configs, NEW masks \in Masks, NEW s,
         s = RollbackHardware(a, b, masks)
  PROVE  /\ s \in Seq(Ops)
         /\ \A k \in Touched(a, b) :
              Sets(s, k, IF k = FanKey THEN a.fan ELSE Mask(masks, k))
         /\ \A k : k \notin Touched(a, b) => Silent(s, k)
  <1> DEFINE S == Affected(a, b)
             lanes == [g \in S |-> Mask(masks, g)]
             u == Each([g \in S |-> <<MaskOp(g, lanes[g])>>])
             f == IfFanDiffers(a, b, <<FanOp(a.fan)>>)
  <1>1. S \subseteq Groups /\ \A g \in S : g # FanKey /\ g \in Mpos \X (0..2)
    BY KeysApart DEF Affected
  <1>2. lanes \in [S -> SUBSET Lanes]
    BY <1>1 DEF Mask, Masks
  <1>3. [g \in S |-> <<MaskOp(g, lanes[g])>>] = [g \in S |-> <<MaskOp(g, masks[g[1]][g[2]])>>]
    BY DEF Mask
  <1>4. s = u \o f
    BY <1>3 DEF RollbackHardware
  <1>5. \A g \in S : lanes[g] = Mask(masks, g)
    OBVIOUS
  <1> HIDE DEF lanes
  <1>6. u \in Seq(Ops) /\ (\A g \in S : Sets(u, g, lanes[g])) /\ (\A k : k \notin S => Silent(u, k))
    BY <1>1, <1>2, MasksFor
  <1>7. /\ f \in Seq(Ops) /\ (a.fan # b.fan => Sets(f, FanKey, a.fan))
        /\ a.fan = b.fan => \A k : Silent(f, k)
        /\ \A k : k # FanKey => Silent(f, k)
    <2>1. CASE a.fan = b.fan
      BY <2>1 DEF IfFanDiffers, Silent
    <2>2. CASE a.fan # b.fan
      BY <2>2, FanOpIs, OneOp, WantedIs DEF IfFanDiffers
    <2> QED
      BY <2>1, <2>2
  <1> HIDE DEF u, f
  <1>8. s \in Seq(Ops)
    BY <1>4, <1>6, <1>7
  <1>9. \A g \in S : Sets(s, g, Mask(masks, g))
    BY <1>1, <1>4, <1>5, <1>6, <1>7, CatSets
  <1>10. a.fan # b.fan => Sets(s, FanKey, a.fan)
    BY <1>4, <1>6, <1>7, CatSets
  <1>11. ASSUME NEW k, k \notin Touched(a, b) PROVE Silent(s, k)
    <2>1. Silent(u, k) /\ Silent(f, k)
      BY <1>6, <1>7, <1>11 DEF Touched
    <2> QED
      BY <1>4, <1>6, <1>7, <2>1, CatSilent
  <1> QED
    BY <1>1, <1>8, <1>9, <1>10, <1>11 DEF Touched

\* Muting touches the groups that differ, and nothing else.
LEMMA MuteIs ==
  ASSUME NEW a \in Configs, NEW b \in Configs, NEW s, s = MuteAll(a, b)
  PROVE  /\ s \in Seq(Ops) /\ (Affected(a, b) # {} => s # <<>>)
         /\ \A k : k \notin Affected(a, b) => Silent(s, k)
  <1> DEFINE S == Affected(a, b)
             lanes == [g \in S |-> {}]
  <1>1. S \subseteq Groups /\ lanes \in [S -> SUBSET Lanes]
    BY DEF Affected
  <1>2. [g \in S |-> <<MaskOp(g, lanes[g])>>] = [g \in S |-> <<MaskOp(g, {})>>]
    OBVIOUS
  <1>3. s = Each([g \in S |-> <<MaskOp(g, lanes[g])>>])
    BY <1>2 DEF MuteAll
  <1> HIDE DEF lanes, S
  <1>4. s \in Seq(Ops) /\ (\A g \in S : Sets(s, g, lanes[g])) /\ (\A k : k \notin S => Silent(s, k))
    BY <1>1, <1>3, MasksFor
  <1>5. \A g \in S : s # <<>>
    BY <1>4 DEF Sets
  <1> QED
    BY <1>4, <1>5 DEF S

(***************************************************************************)
(* How an operation ends.                                                  *)
(***************************************************************************)
\* A program that leaves a key alone leaves it as it is.
LEMMA SilentEnds == ASSUME NEW s, NEW k, NEW x, NEW y, Silent(s, k) PROVE Ends(s, k, x, y) <=> x = y
  BY DEF Ends, Sets, Silent

\* A program whose operations stay within some keys leaves the others alone.
LEMMA SilentWithin ==
  ASSUME NEW s, NEW T, NEW k, \A i \in 1..Len(s) : Key(s[i]) \in T, k \notin T
  PROVE  Silent(s, k)
  BY DEF Silent

\* The groups and the fan's curve are different keys, and what is not touched
\* is asked alike by both configurations.
LEMMA TouchedKeys ==
  /\ Touched(configuration, target) \subseteq Keys
  /\ Affected(configuration, target) = Touched(configuration, target) \ {FanKey}
  /\ Nothing \notin Keys /\ FanKey \in Keys
  /\ \A k \in Keys : k = FanKey \/ (k \in Groups /\ k # FanKey)
  /\ degraded \subseteq Groups => FanKey \notin degraded
  /\ \A k \in Keys : k \notin Touched(configuration, target) =>
       Wanted(target, k) = Wanted(configuration, k)
  BY KeysApart DEF Touched, Affected, Keys, Wanted

\* What an apply does not touch is still as the configuration has it.
LEMMA UntouchedStands ==
  ASSUME BoardTypes, GoalIsReached, StaysWithin, call \in {"apply", "rollback"},
         NEW k \in Keys, k \notin Touched(configuration, target), k \notin Excused
  PROVE  Now(k) = Wanted(configuration, k)
  <1>1. Ends(ops, k, Now(k), Goal(k))
    BY DEF GoalIsReached, Sure
  <1>2. Silent(ops, k)
    <2>1. k # Nothing
      BY TouchedKeys
    <2> QED
      BY <2>1, SilentWithin DEF StaysWithin
  <1>3. Now(k) = Goal(k)
    BY <1>1, <1>2, SilentEnds
  <1>4. Goal(k) = Wanted(configuration, k)
    <2>1. CASE call = "apply"
      BY <2>1, TouchedKeys DEF Goal
    <2>2. CASE call = "rollback"
      <3>1. CASE k = FanKey
        BY <2>2, <3>1 DEF Goal, Before, Wanted
      <3>2. CASE k # FanKey
        <4>1. k \in Groups \ degraded
          BY <3>2, TouchedKeys DEF Excused
        <4> QED
          BY <2>2, <3>2, <4>1 DEF Goal, Before, StaysWithin
      <3> QED
        BY <3>1, <3>2
    <2> QED
      BY <2>1, <2>2
  <1> QED
    BY <1>3, <1>4

\* The registers a key stands for do not change while the bus is at rest.
LEMMA NowStays ==
  ASSUME UNCHANGED <<nibbles, fan>>
  PROVE  \A k : Now(k)' = Now(k)
  BY DEF Now, Running, Mask

\* Nothing needs to be known at the first access of an operation.
LEMMA Between ==
  ASSUME at' = 0
  PROVE  MaskKnows' /\ FanKnows'
  <1>1. LastWrite \in Nat /\ LastWrite > 0
    BY BoardAssumption DEF BoardAssumption, LastWrite
  <1>2. ~(0 \in 2..LastWrite) /\ ~(0 \in 2..(LastWrite + 1)) /\ 0 # LastWrite + 1 /\ 0 # 2 /\ 0 # 3
    BY <1>1
  <1>3. MaskKnows'
    BY <1>2 DEF MaskKnows
  <1>4. FanKnows'
    BY <1>2 DEF FanKnows
  <1> QED
    BY <1>3, <1>4

\* The call moves on to its next operation.
LEMMA NextOperation ==
  ASSUME BoardInv, Len(ops) > 1, Done, UNCHANGED <<nibbles, fan>>,
         \/ call = "mute" \/ Key(Op) = Nothing \/ Now(Key(Op)) = Value(Op)
  PROVE  BoardInv'
  <1> USE DEF BoardInv
  <1>1. /\ ops' = Tail(ops) /\ at' = 0 /\ call' = call
        /\ manual' = (manual /\ ~(call = "apply" /\ Op.op = "fan"))
        /\ UNCHANGED <<configuration, target, before, pending, awaiting, degraded, broken>>
    BY DEF Done
  <1>2. ops \in Seq(Ops) /\ ops # <<>> /\ Op \in Ops
    BY DEF BoardTypes, Op
  <1>3. ops' \in Seq(Ops) /\ ops' # <<>> /\ \A i \in 1..Len(ops') : \E j \in 1..Len(ops) : ops'[i] = ops[j]
    <2>1. ops' \in Seq(Ops) /\ Len(ops') = Len(ops) - 1 /\ Len(ops) \in Nat
          /\ \A i \in 1..Len(ops') : i + 1 \in 1..Len(ops) /\ ops'[i] = ops[i + 1]
      BY <1>1, <1>2
    <2> QED
      BY <2>1
  <1>4. BoardTypes'
    <2>1. manual' \in BOOLEAN
      BY <1>1
    <2> QED
      BY <1>1, <1>3, <2>1 DEF BoardTypes
  <1>5. StaysWithin'
    <2>1. call = "release" => manual'
      BY <1>1 DEF StaysWithin
    <2> QED
      BY <1>1, <1>3, <2>1 DEF StaysWithin, Touched, Affected, Mask, Wanted
  <1>6. Key(Op) = Key(ops[1]) /\ 1 \in 1..Len(ops) /\ Len(ops) \in Nat
    BY <1>2 DEF Op
  <1>7. ASSUME NEW k \in Keys, Sure(k)' PROVE Sure(k)
    <2>1. CASE call = "apply" /\ Op.op = "fan"
      <3>1. Key(Op) = FanKey
        BY <1>2, <2>1, OpIs
      <3>2. FanKey \in Touched(configuration, target)
        BY <1>6, <2>1, <3>1, KeysApart DEF StaysWithin
      <3>3. CASE k = FanKey
        BY <2>1, <3>2, <3>3 DEF Sure
      <3>4. CASE k # FanKey
        BY <1>1, <1>7, <2>1, <3>4 DEF Sure, Excused, Touched, Affected
      <3> QED
        BY <3>3, <3>4
    <2>2. CASE ~(call = "apply" /\ Op.op = "fan")
      <3>1. Excused' = Excused
        BY <1>1, <2>2 DEF Excused, BoardTypes
      <3> QED
        BY <1>1, <1>7, <3>1 DEF Sure, Touched, Affected
    <2> QED
      BY <2>1, <2>2
  <1>8. ASSUME NEW k \in Keys, Sure(k), Key(Op) = k PROVE Now(k) = Value(Op)
    <2>1. CASE call = "mute"
      <3>1. k \in Affected(configuration, target)
        BY <1>6, <1>8, <2>1, TouchedKeys DEF StaysWithin
      <3>2. k \in Excused
        BY <2>1, <3>1 DEF StaysWithin, Excused
      <3> QED
        BY <1>8, <2>1, <3>2 DEF Sure
    <2>2. CASE call # "mute"
      BY <1>8, <2>2, TouchedKeys
    <2> QED
      BY <2>1, <2>2
  <1>9. GoalIsReached'
    <2> SUFFICES ASSUME NEW k \in Keys, Sure(k)' PROVE Ends(ops', k, Now(k)', Goal(k)')
      BY DEF GoalIsReached
    <2>1. Ends(ops, k, Now(k), Goal(k))
      BY <1>7 DEF GoalIsReached
    <2>2. Ends(Tail(ops), k, Now(k), Goal(k))
      BY <1>2, <1>7, <1>8, <2>1, TailEnds DEF Op
    <2>3. Goal(k)' = Goal(k)
      BY <1>1 DEF Goal, Before, Mask, Wanted
    <2> QED
      BY <1>1, <2>2, <2>3, NowStays
  <1>10. MaskKnows' /\ FanKnows' /\ AutomaticIsWhole'
    BY <1>1, Between DEF AutomaticIsWhole
  <1> QED
    BY <1>4, <1>5, <1>9, <1>10

\* The call is over.
LEMMA LastOperation ==
  ASSUME BoardInv, ops # <<>>, ~ Len(ops) > 1, Done, UNCHANGED <<nibbles, fan>>,
         \/ call = "mute" \/ Key(Op) = Nothing \/ Now(Key(Op)) = Value(Op)
  PROVE  BoardInv'
  <1> USE DEF BoardInv
  <1>1. ops' = <<>> /\ at' = 0 /\ call' = "idle" /\ Finished
    BY DEF Done, Settle
  <1>2. ops \in Seq(Ops) /\ Op \in Ops /\ Tail(ops) = <<>> /\ Op = ops[1] /\ 1 \in 1..Len(ops)
    BY DEF BoardTypes, Op
  <1>3. BoardTypes'
    BY <1>1, EmptySilent DEF Finished, KeepAuthority, authority, BoardTypes
  <1>4. StaysWithin' /\ MaskKnows' /\ FanKnows' /\ AutomaticIsWhole'
    BY <1>1, Between DEF StaysWithin, AutomaticIsWhole
  <1>5. ASSUME NEW k \in Keys, Sure(k) PROVE Now(k) = Goal(k)
    <2>1. Key(Op) = k => Now(k) = Value(Op)
      <3>1. CASE call = "mute"
        <4>1. Key(Op) = k => k \in Affected(configuration, target)
          BY <1>2, <3>1, TouchedKeys DEF StaysWithin
        <4>2. k \in Affected(configuration, target) => k \in Excused
          BY <3>1 DEF StaysWithin, Excused
        <4> QED
          BY <1>5, <3>1, <4>1, <4>2 DEF Sure
      <3>2. CASE call # "mute"
        BY <3>2, TouchedKeys
      <3> QED
        BY <3>1, <3>2
    <2>2. Ends(ops, k, Now(k), Goal(k))
      BY <1>5 DEF GoalIsReached
    <2>3. Ends(Tail(ops), k, Now(k), Goal(k))
      BY <1>2, <2>1, <2>2, TailEnds DEF Op
    <2>4. Ends(<<>>, k, Now(k), Goal(k))
      BY <1>2, <2>3
    <2> HIDE DEF BoardInv
    <2> QED
      BY ONLY <2>4, EmptyEnds
  <1>6. ASSUME NEW k \in Keys, Sure(k)' PROVE Now(k) = Wanted(configuration, k)'
    <2>1. k \notin Excused'
      BY <1>1, <1>6 DEF Sure
    <2>2. CASE call \in {"boot", "mute"}
      <3>1. Sure(k)
        BY <1>1, <2>1, <2>2 DEF Sure, Excused, Finished, KeepAuthority, authority
      <3> QED
        BY <1>1, <1>5, <2>2, <3>1 DEF Finished, KeepAuthority, authority, Goal, Wanted
    <2>3. CASE call = "rollback"
      <3>1. k \notin Excused /\ UNCHANGED configuration
        BY <1>1, <2>1, <2>3 DEF Excused, Finished, KeepAuthority, authority
      <3>2. Now(k) = Before(k)
        BY <1>5, <2>3, <3>1 DEF Sure, Goal
      <3>3. CASE k = FanKey
        BY <3>1, <3>2, <3>3 DEF Before, Wanted
      <3>4. CASE k # FanKey
        <4>1. k \in Groups \ degraded
          BY <3>1, <3>4, TouchedKeys DEF Excused
        <4> QED
          BY <2>3, <3>1, <3>2, <3>4, <4>1 DEF Before, StaysWithin, Wanted
      <3> QED
        BY <3>3, <3>4
    <2>4. CASE call = "release"
      <3>1. UNCHANGED <<configuration, degraded, broken>>
        BY <1>1, <2>4 DEF Finished
      <3>2. k \notin Excused
        BY <2>1, <2>4, <3>1 DEF Excused
      <3> QED
        BY <1>5, <2>4, <3>1, <3>2 DEF Sure, Goal, Wanted
    <2>5. CASE call = "apply"
      <3>1. /\ configuration' = target /\ degraded' = degraded \ Affected(configuration, target)
            /\ UNCHANGED <<broken, manual>>
        BY <1>1, <2>5 DEF Finished
      <3>2. Sure(k)
        <4>1. CASE k \in Touched(configuration, target)
          BY <2>5, <4>1 DEF Sure
        <4>2. CASE k \notin Touched(configuration, target)
          <5>1. k \notin Excused
            BY <1>1, <2>1, <2>5, <3>1, <4>2, TouchedKeys DEF Excused
          <5> QED
            BY <5>1 DEF Sure
        <4> QED
          BY <4>1, <4>2
      <3> QED
        BY <1>5, <2>5, <3>1, <3>2 DEF Goal, Wanted
    <2> QED
      BY <2>2, <2>3, <2>4, <2>5 DEF BoardTypes
  <1>7. GoalIsReached'
    <2> SUFFICES ASSUME NEW k \in Keys, Sure(k)' PROVE Ends(ops', k, Now(k)', Goal(k)')
      BY DEF GoalIsReached
    <2>1. Goal(k)' = Wanted(configuration, k)'
      BY <1>1 DEF Goal
    <2>2. Now(k)' = Wanted(configuration, k)'
      BY <1>6, NowStays
    <2> QED
      BY <1>1, <2>1, <2>2, EmptyEnds
  <1> QED
    BY <1>3, <1>4, <1>7

\* An operation is done.
LEMMA DoneHolds ==
  ASSUME BoardInv, ops # <<>>, Done, UNCHANGED <<nibbles, fan>>,
         \/ call = "mute" \/ Key(Op) = Nothing \/ Now(Key(Op)) = Value(Op)
  PROVE  BoardInv'
  BY NextOperation, LastOperation

\* The restoration failed as well, or is not tried: what differs is muted.
LEMMA MuteHolds ==
  ASSUME BoardInv, call \in {"apply", "rollback"}, StartMute, UNCHANGED <<nibbles, fan>>
  PROVE  BoardInv'
  <1> USE DEF BoardInv
  <1> DEFINE S == Affected(configuration, target)
             list == MuteAll(configuration, target)
  <1>1. /\ degraded' = degraded \cup S /\ broken' = TRUE /\ at' = 0
        /\ UNCHANGED <<configuration, target, before, pending, awaiting, manual>>
    BY DEF StartMute, Settle, Run
  <1>2. \/ S = {} /\ call' = "idle" /\ ops' = <<>>
        \/ S # {} /\ call' = "mute" /\ ops' = list
    BY DEF StartMute, Settle, Run
  <1>3. configuration \in Configs /\ target \in Configs /\ S \subseteq Groups
    BY DEF BoardTypes, Affected
  <1>4. /\ list \in Seq(Ops) /\ (S # {} => list # <<>>)
        /\ \A k : k \notin S => Silent(list, k)
    BY <1>3, MuteIs
  <1>5. /\ ops' \in Seq(Ops) /\ (ops' = <<>> <=> call' = "idle")
        /\ \A k : k \notin S => Silent(ops', k)
    BY <1>2, <1>4, EmptySilent
  <1> HIDE DEF list
  <1>6. BoardTypes'
    BY <1>1, <1>2, <1>3, <1>5 DEF BoardTypes
  <1>7. StaysWithin'
    <2>1. \A i \in 1..Len(ops') : Key(ops'[i]) \in S
      BY <1>5 DEF Silent
    <2>2. \A i \in 1..Len(ops') : Key(ops'[i]) # FanKey /\ Key(ops'[i]) \in Touched(configuration, target)
      BY <2>1, TouchedKeys
    <2>3. S' = S /\ Touched(configuration, target)' = Touched(configuration, target)
      BY <1>1 DEF Affected, Touched
    <2> HIDE DEF S
    <2>4. S \subseteq degraded' /\ broken'
      BY <1>1
    <2> QED
      BY <1>2, <2>2, <2>3, <2>4 DEF StaysWithin, S
  <1>8. GoalIsReached'
    <2> SUFFICES ASSUME NEW k \in Keys, Sure(k)' PROVE Ends(ops', k, Now(k)', Goal(k)')
      BY DEF GoalIsReached
    <2>1. k \notin degraded' /\ k # FanKey
      BY <1>1, <1>2 DEF Sure, Excused
    <2>2. k \notin S /\ k \notin Touched(configuration, target) /\ k \notin Excused
      BY <1>1, <2>1, TouchedKeys DEF Excused
    <2>3. Now(k) = Wanted(configuration, k)
      BY <2>2, UntouchedStands
    <2>4. Goal(k)' = Wanted(configuration, k)
      BY <1>1, <1>2 DEF Goal, Wanted
    <2> QED
      BY <1>5, <2>2, <2>3, <2>4, SilentEnds, NowStays
  <1> QED
    BY <1>1, <1>6, <1>7, <1>8, Between DEF AutomaticIsWhole

\* A step failed: what was written is taken back.
LEMMA RollbackHolds ==
  ASSUME BoardInv, call = "apply", StartRollback, UNCHANGED <<nibbles, fan>>
  PROVE  BoardInv'
  <1> USE DEF BoardInv
  <1> DEFINE list == RollbackHardware(configuration, target, before)
             T == Touched(configuration, target)
  <1>1. at' = 0 /\ UNCHANGED <<configuration, target, before, pending, awaiting, degraded, manual, broken>>
    BY DEF StartRollback, Settle, Run, KeepAuthority, authority
  <1>2. \/ list = <<>> /\ call' = "idle" /\ ops' = <<>>
        \/ list # <<>> /\ call' = "rollback" /\ ops' = list
    BY DEF StartRollback, Settle, Run
  <1>3. configuration \in Configs /\ target \in Configs /\ before \in Masks
    BY DEF BoardTypes
  <1>4. /\ list \in Seq(Ops)
        /\ \A k \in T : Sets(list, k, Before(k))
        /\ \A k : k \notin T => Silent(list, k)
    BY <1>3, RollbackIs DEF Before
  <1> HIDE DEF list
  <1>5. BoardTypes'
    BY <1>1, <1>2, <1>4, EmptySilent DEF BoardTypes
  <1>6. Excused' = Excused /\ T' = T
    BY <1>1, <1>2 DEF Excused, Touched, Affected
  <1>7. \A k : Before(k)' = Before(k) /\ Wanted(configuration, k)' = Wanted(configuration, k)
    BY <1>1 DEF Before, Mask, Wanted
  <1>8. ASSUME NEW k \in Keys, k \notin T, k \notin Excused PROVE Now(k) = Wanted(configuration, k)
    BY <1>8, UntouchedStands
  <1>9. ASSUME NEW k \in Keys, k \notin Excused PROVE Before(k) = Wanted(configuration, k)
    <2>1. CASE k = FanKey
      BY <2>1 DEF Before, Wanted
    <2>2. CASE k # FanKey
      <3>1. k \in Groups \ degraded
        BY <1>9, <2>2, TouchedKeys DEF Excused
      <3> QED
        BY <2>2, <3>1 DEF Before, StaysWithin
    <2> QED
      BY <2>1, <2>2
  <1>10. GoalIsReached'
    <2> SUFFICES ASSUME NEW k \in Keys, Sure(k)' PROVE Ends(ops', k, Now(k)', Goal(k)')
      BY DEF GoalIsReached
    <2>1. CASE list = <<>>
      <3>1. k \notin Excused /\ k \notin T
        <4>1. k \notin Excused
          BY <1>2, <1>6, <2>1 DEF Sure
        <4>2. ~ Sets(<<>>, k, Before(k))
          BY DEF Sets
        <4> QED
          BY <1>4, <2>1, <4>1, <4>2
      <3>2. Goal(k)' = Wanted(configuration, k)'
        BY <1>2, <2>1 DEF Goal
      <3> QED
        BY <1>2, <1>7, <1>8, <2>1, <3>1, <3>2, EmptyEnds, NowStays
    <2>2. CASE list # <<>>
      <3>1. Goal(k)' = Before(k)
        BY <1>2, <1>7, <2>2 DEF Goal
      <3>2. CASE k \in T
        BY <1>2, <1>4, <2>2, <3>1, <3>2 DEF Ends
      <3>3. CASE k \notin T
        <4>1. k \notin Excused
          BY <1>6, <3>3 DEF Sure
        <4>2. Silent(list, k) /\ Now(k) = Before(k)
          BY <1>4, <1>8, <1>9, <3>3, <4>1
        <4> QED
          BY <1>2, <2>2, <3>1, <4>2, SilentEnds, NowStays
      <3> QED
        BY <3>2, <3>3
    <2> QED
      BY <2>1, <2>2
  <1>11. StaysWithin'
    <2>1. \A i \in 1..Len(list) : Key(list[i]) \in T
      BY <1>4 DEF Silent
    <2>2. \A g \in Groups \ degraded : Mask(before, g) = Wanted(configuration, g)
      BY DEF StaysWithin
    <2>3. \A g \in Groups \ degraded' : Mask(before, g)' = Wanted(configuration, g)'
      BY <1>1, <2>2 DEF Mask, Wanted
    <2> QED
      BY <1>2, <1>6, <2>1, <2>3 DEF StaysWithin
  <1> QED
    BY <1>1, <1>5, <1>10, <1>11, Between DEF AutomaticIsWhole

\* The curve could not be written at the end of the manual test, which goes on.
LEMMA ReleaseFails ==
  ASSUME BoardInv, call = "release", Settle, KeepAuthority, UNCHANGED <<nibbles, fan>>
  PROVE  BoardInv'
  <1> USE DEF BoardInv
  <1>1. at' = 0 /\ call' = "idle" /\ ops' = <<>> /\ UNCHANGED authority
    BY DEF Settle, KeepAuthority
  <1>2. UNCHANGED <<configuration, target, before, pending, awaiting, degraded, manual, broken>>
    BY <1>1 DEF authority
  <1>3. BoardTypes'
    BY <1>1, <1>2, EmptySilent DEF BoardTypes
  <1>4. ASSUME NEW k \in Keys, Sure(k)' PROVE Now(k) = Wanted(configuration, k)
    <2>1. k # FanKey /\ k \notin Excused
      BY <1>1, <1>2, <1>4 DEF Sure, Excused, StaysWithin
    <2>2. Ends(ops, k, Now(k), Wanted(configuration, k))
      BY <2>1 DEF GoalIsReached, Sure, Goal
    <2>3. Silent(ops, k)
      BY <2>1 DEF StaysWithin, Silent
    <2> QED
      BY <2>2, <2>3, SilentEnds
  <1>5. GoalIsReached'
    <2> SUFFICES ASSUME NEW k \in Keys, Sure(k)' PROVE Ends(ops', k, Now(k)', Goal(k)')
      BY DEF GoalIsReached
    <2>1. Goal(k)' = Wanted(configuration, k)
      BY <1>1, <1>2 DEF Goal, Wanted
    <2> QED
      BY <1>1, <1>4, <2>1, EmptyEnds, NowStays
  <1>6. StaysWithin'
    BY <1>1 DEF StaysWithin
  <1> QED
    BY <1>1, <1>3, <1>5, <1>6, Between DEF AutomaticIsWhole

\* An operation raised.
LEMMA RaiseHolds ==
  ASSUME BoardInv, ops # <<>>, Raise, UNCHANGED <<nibbles, fan>>
  PROVE  BoardInv'
  <1>1. CASE call = "apply" /\ StartRollback
    BY <1>1, RollbackHolds
  <1>2. CASE call = "rollback" /\ StartMute
    BY <1>2, MuteHolds
  <1>3. CASE call = "mute" /\ Done
    BY <1>3, DoneHolds
  <1>4. CASE call = "release" /\ Settle /\ KeepAuthority
    BY <1>4, ReleaseFails
  <1> QED
    BY <1>1, <1>2, <1>3, <1>4 DEF Raise

(***************************************************************************)
(* Calls of the simulator.                                                 *)
(***************************************************************************)
\* While nothing runs, what is promised is there.
LEMMA IdleStands ==
  ASSUME BoardInv, call = "idle", NEW k \in Keys, k \notin Excused
  PROVE  Now(k) = Wanted(configuration, k)
  <1>1. ops = <<>> /\ Goal(k) = Wanted(configuration, k) /\ Ends(ops, k, Now(k), Goal(k))
    BY DEF BoardInv, BoardTypes, GoalIsReached, Sure, Goal
  <1>2. Ends(<<>>, k, Now(k), Wanted(configuration, k))
    BY <1>1
  <1> QED
    BY ONLY <1>2, EmptyEnds

\* A board that starts has nothing to excuse, and its program sets every key.
LEMMA BoardInitHolds == BoardInit => BoardInv
  <1> SUFFICES ASSUME BoardInit PROVE BoardInv
    OBVIOUS
  <1>1. /\ configuration = Default /\ target = Default /\ pending = Default /\ Default \in Configs
        /\ call = "boot" /\ ops = RestoreHardware(Default) /\ at = 0
        /\ degraded = {} /\ manual = FALSE /\ broken = FALSE
        /\ nibbles = [m \in Mpos |-> [p \in 0..2 |-> {}]] /\ before = nibbles
        /\ fan = [r \in Registers |-> Blank]
    BY BoardAssumption DEF BoardInit, BoardAssumption
  <1>2. /\ ops \in Seq(Ops) /\ ops # <<>>
        /\ \A k \in Keys : Sets(ops, k, Wanted(configuration, k))
    BY <1>1, RestoreIs
  <1>3. BoardTypes
    <2>1. nibbles \in Masks /\ before \in Masks
      BY <1>1 DEF Masks
    <2>2. fan \in [Registers -> Curves \cup {Blank, "direct", "lut", "full"}]
      BY <1>1
    <2> QED
      BY <1>1, <1>2, <2>1, <2>2 DEF BoardTypes
  <1>4. GoalIsReached
    BY <1>1, <1>2 DEF GoalIsReached, Goal, Ends
  <1>5. StaysWithin
    BY <1>1 DEF StaysWithin
  <1>6. MaskKnows /\ FanKnows
    <2>1. LastWrite \in Nat /\ LastWrite > 0
      BY BoardAssumption DEF BoardAssumption, LastWrite
    <2>2. ~(0 \in 2..LastWrite) /\ ~(0 \in 2..(LastWrite + 1)) /\ 0 # LastWrite + 1 /\ 0 # 2 /\ 0 # 3
      BY <2>1
    <2>3. MaskKnows
      BY <1>1, <2>2 DEF MaskKnows
    <2>4. FanKnows
      BY <1>1, <2>2 DEF FanKnows
    <2> QED
      BY <2>3, <2>4
  <1>7. AutomaticIsWhole
    <2>1. Mode \in Registers
      BY DEF Registers
    <2>2. fan[Mode] = Blank
      BY <1>1, <2>1
    <2> QED
      BY <2>2, BoardAssumption DEF BoardAssumption, AutomaticIsWhole
  <1> QED
    BY <1>3, <1>4, <1>5, <1>6, <1>7 DEF BoardInv

\* A configuration, or what it replaced, is about to be applied.
LEMMA ApplyHolds ==
  ASSUME BoardInv, NEW c \in Configs, ApplyTo(c), pending' \in Configs
  PROVE  BoardInv'
  <1> USE DEF BoardInv
  <1> DEFINE list == ApplyHardware(configuration, c)
             T == Touched(configuration, c)
  <1>1. /\ call = "idle" /\ call' = "apply" /\ ops' = list /\ at' = 0
        /\ before' = nibbles /\ target' = c
        /\ UNCHANGED <<nibbles, fan, configuration, degraded, manual, broken>>
    BY DEF ApplyTo, Run, bus
  <1>2. configuration \in Configs /\ nibbles \in Masks
    BY DEF BoardTypes
  <1>3. /\ list \in Seq(Ops) /\ list # <<>>
        /\ \A k \in T : Sets(list, k, Wanted(c, k))
        /\ \A k : k \notin T \cup {Nothing} => Silent(list, k)
    BY <1>2, ApplyIs
  <1> HIDE DEF list
  <1>4. BoardTypes'
    BY <1>1, <1>2, <1>3 DEF BoardTypes
  <1>5. Touched(configuration, target)' = T /\ Excused' = Excused
    BY <1>1 DEF Excused, Touched, Affected
  <1>6. ASSUME NEW g \in Groups \ degraded PROVE Mask(nibbles, g) = Wanted(configuration, g)
    <2>1. g \in Keys /\ g # FanKey /\ g \notin Excused
      BY KeysApart DEF Keys, Excused
    <2>2. Now(g) = Wanted(configuration, g)
      BY <1>1, <2>1, IdleStands
    <2> QED
      BY <2>1, <2>2 DEF Now
  <1>7. StaysWithin'
    <2>1. \A i \in 1..Len(list) : Key(list[i]) \in T \cup {Nothing}
      BY <1>3 DEF Silent
    <2>2. \A g \in Groups \ degraded' : Mask(before, g)' = Wanted(configuration, g)'
      BY <1>1, <1>6 DEF Mask, Wanted
    <2> QED
      BY <1>1, <1>5, <2>1, <2>2 DEF StaysWithin
  <1>8. GoalIsReached'
    <2> SUFFICES ASSUME NEW k \in Keys, Sure(k)' PROVE Ends(ops', k, Now(k)', Goal(k)')
      BY DEF GoalIsReached
    <2>1. Goal(k)' = Wanted(c, k)
      BY <1>1 DEF Goal, Wanted
    <2>2. CASE k \in T
      BY <1>1, <1>3, <2>1, <2>2 DEF Ends
    <2>3. CASE k \notin T
      <3>1. k \notin Excused
        BY <1>5, <2>3 DEF Sure
      <3>2. Now(k) = Wanted(configuration, k)
        BY <1>1, <3>1, IdleStands
      <3>3. Wanted(c, k) = Wanted(configuration, k)
        BY <2>3 DEF Touched, Affected, Wanted, Keys
      <3>4. Silent(list, k)
        BY <1>3, <2>3, TouchedKeys
      <3> QED
        BY <1>1, <2>1, <3>2, <3>3, <3>4, SilentEnds, NowStays
    <2> QED
      BY <2>2, <2>3
  <1>9. AutomaticIsWhole'
    BY <1>1 DEF AutomaticIsWhole
  <1> QED
    BY <1>1, <1>4, <1>7, <1>8, <1>9, Between

\* The curve is about to be written at the end of a manual test.
LEMMA ExpireHolds == ASSUME BoardInv, Expire PROVE BoardInv'
  <1> USE DEF BoardInv
  <1> DEFINE list == <<FanOp(configuration.fan)>>
  <1>1. /\ call = "idle" /\ call' = "release" /\ ops' = list /\ at' = 0 /\ manual
        /\ UNCHANGED <<nibbles, fan, authority>>
    BY DEF Expire, Run, bus
  <1>2. UNCHANGED <<configuration, target, before, pending, awaiting, degraded, manual, broken>>
    BY <1>1 DEF authority
  <1>3. configuration \in Configs
    BY DEF BoardTypes
  <1>4. /\ list \in Seq(Ops) /\ list # <<>> /\ Sets(list, FanKey, configuration.fan)
        /\ \A k : k # FanKey => Silent(list, k)
    BY <1>3, FanOpIs, WantedIs, OneOp
  <1> HIDE DEF list
  <1>5. BoardTypes'
    BY <1>1, <1>2, <1>4 DEF BoardTypes
  <1>6. StaysWithin'
    <2>1. \A i \in 1..Len(list) : Key(list[i]) = FanKey
      BY <1>4 DEF Silent
    <2> QED
      BY <1>1, <1>2, <2>1 DEF StaysWithin
  <1>7. GoalIsReached'
    <2> SUFFICES ASSUME NEW k \in Keys, Sure(k)' PROVE Ends(ops', k, Now(k)', Goal(k)')
      BY DEF GoalIsReached
    <2>1. Goal(k)' = Wanted(configuration, k)
      BY <1>1, <1>2 DEF Goal, Wanted
    <2>2. CASE k = FanKey
      BY <1>1, <1>4, <2>1, <2>2 DEF Ends, Wanted
    <2>3. CASE k # FanKey
      <3>1. k \notin Excused
        BY <1>1, <1>2, <2>3 DEF Sure, Excused
      <3>2. Now(k) = Wanted(configuration, k)
        BY <1>1, <3>1, IdleStands
      <3> QED
        BY <1>1, <1>4, <2>1, <2>3, <3>2, SilentEnds, NowStays
    <2> QED
      BY <2>2, <2>3
  <1>8. AutomaticIsWhole'
    BY <1>1 DEF AutomaticIsWhole
  <1> QED
    BY <1>1, <1>5, <1>6, <1>7, <1>8, Between

\* Nothing the invariant speaks of changes, but that less may be promised.
LEMMA QuietHolds ==
  ASSUME BoardInv,
         UNCHANGED <<nibbles, fan, call, ops, at, configuration, target, before, pending, degraded, broken>>,
         manual' = manual \/ (manual' = TRUE /\ call = "idle")
  PROVE  BoardInv'
  <1> USE DEF BoardInv
  <1>1. BoardTypes' /\ MaskKnows' /\ FanKnows' /\ AutomaticIsWhole'
    BY DEF BoardTypes, MaskKnows, FanKnows, AutomaticIsWhole, Op, Mask
  <1>2. StaysWithin'
    BY DEF StaysWithin, Touched, Affected, Mask, Wanted
  <1>3. \A k : Sure(k)' => Sure(k)
    BY DEF Sure, Excused, Touched, Affected
  <1>4. \A k : Goal(k)' = Goal(k) /\ Now(k)' = Now(k)
    BY NowStays DEF Goal, Before, Mask, Wanted
  <1>5. GoalIsReached'
    BY <1>3, <1>4 DEF GoalIsReached
  <1> QED
    BY <1>1, <1>2, <1>5

(***************************************************************************)
(* One access of the bus.                                                  *)
(***************************************************************************)
\* While an operation is at its key, the others are as they were, and the key
\* will be what the program makes of it.
LEMMA AccessKeeps ==
  ASSUME BoardInv, ops # <<>>, UNCHANGED <<call, ops, authority>>,
         \A k \in Keys : k # Key(Op) => Now(k)' = Now(k)
  PROVE  GoalIsReached' /\ StaysWithin'
  <1> USE DEF BoardInv
  <1>1. UNCHANGED <<configuration, target, before, pending, awaiting, degraded, manual, broken>>
    BY DEF authority
  <1>2. \A k : Goal(k)' = Goal(k) /\ (Sure(k)' => Sure(k))
    BY <1>1 DEF Goal, Before, Mask, Wanted, Sure, Excused, Touched, Affected
  <1>3. ASSUME NEW k \in Keys, Sure(k)' PROVE Ends(ops', k, Now(k)', Goal(k)')
    <2>1. Ends(ops, k, Now(k), Goal(k)) /\ ops \in Seq(Ops)
      BY <1>2, <1>3 DEF GoalIsReached, BoardTypes
    <2>2. CASE k # Key(Op)
      BY <1>2, <2>1, <2>2
    <2>3. CASE k = Key(Op)
      <3>1. Sets(ops, k, Goal(k))
        BY <2>1, <2>3, HeadDecides DEF Op
      <3> QED
        BY <1>2, <3>1 DEF Ends
    <2> QED
      BY <2>2, <2>3
  <1>4. GoalIsReached'
    BY <1>3 DEF GoalIsReached
  <1>5. StaysWithin'
    BY <1>1 DEF StaysWithin, Touched, Affected, Mask, Wanted
  <1> QED
    BY <1>4, <1>5

\* Entering and leaving selected_bus.
LEMMA EnterHolds ==
  ASSUME BoardInv, ops # <<>>, NEW branch, Enter(branch)
  PROVE  BoardInv'
  <1>1. CASE ~available /\ Raise /\ UNCHANGED bus
    BY <1>1, RaiseHolds DEF bus
  <1>2. CASE ~(~available /\ Raise /\ UNCHANGED bus)
    <2>1. at' = 1 /\ UNCHANGED <<call, ops, nibbles, fan, authority>>
      BY <1>2 DEF Enter, KeepAuthority
    <2>2. UNCHANGED <<configuration, target, before, pending, awaiting, degraded, manual, broken>>
      BY <2>1 DEF authority
    <2>3. GoalIsReached' /\ StaysWithin'
      BY <2>1, NowStays, AccessKeeps
    <2>4. BoardTypes'
      BY <2>1, <2>2 DEF BoardInv, BoardTypes
    <2>5. MaskKnows' /\ FanKnows'
      <3>1. LastWrite \in Nat /\ LastWrite > 0
        BY BoardAssumption DEF BoardAssumption, LastWrite
      <3>2. ~(1 \in 2..LastWrite) /\ ~(1 \in 2..(LastWrite + 1)) /\ 1 # LastWrite + 1 /\ 1 # 2 /\ 1 # 3
        BY <3>1
      <3>3. MaskKnows'
        BY <2>1, <3>2 DEF MaskKnows
      <3>4. FanKnows'
        BY <2>1, <3>2 DEF FanKnows
      <3> QED
        BY <3>3, <3>4
    <2>6. AutomaticIsWhole'
      BY <2>1 DEF BoardInv, AutomaticIsWhole
    <2> QED
      BY <2>3, <2>4, <2>5, <2>6 DEF BoardInv
  <1> QED
    BY <1>1, <1>2

\* Leaving after a success; the branch may fail to be given back.
LEMMA LeaveHolds ==
  ASSUME BoardInv, ops # <<>>, NEW n, Leave(n), Now(Key(Op)) = Value(Op)
  PROVE  BoardInv'
  <1>1. UNCHANGED <<nibbles, fan>> /\ (Done \/ Raise)
    BY DEF Leave
  <1>2. CASE Done
    BY <1>1, <1>2, DoneHolds
  <1>3. CASE Raise
    BY <1>1, <1>3, RaiseHolds
  <1> QED
    BY <1>1, <1>2, <1>3

\* Leaving after a failure.
LEMMA LeaveRaisingHolds ==
  ASSUME BoardInv, ops # <<>>, NEW n, LeaveRaising(n)
  PROVE  BoardInv'
  BY RaiseHolds DEF LeaveRaising

\* One byte of the mask: the other groups' lanes in it stay, and once it holds
\* its value, so does the group's nibble if it is in it.
LEMMA MaskByteWrites ==
  ASSUME BoardTypes, ops # <<>>, Op.op = "mask", NEW n, NEW positions \in SUBSET (0..2),
         MaskByte(n, positions)
  PROVE  /\ nibbles' \in Masks
         /\ \A m \in Mpos, p \in 0..2 : nibbles'[m][p] # nibbles[m][p] =>
              Op.group = <<m, p>> /\ p \in positions
         /\ UNCHANGED <<call, ops, authority, reserved, fan>> /\ Op' = Op
         /\ \/ at' = 4
            \/ at' = n /\ at = n
            \/ /\ at' = n + 1 /\ at = n /\ UNCHANGED nibbles
               /\ Op.group[2] \in positions => Mask(nibbles, Op.group) = Op.lanes
  <1> DEFINE m == Op.group[1]
             q == Op.group[2]
             want == MaskTarget(Op.group, Op.lanes)
             written == [p \in 0..2 |-> IF p \in positions THEN want[p] ELSE nibbles[m][p]]
  <1>1. Op \in Ops
    BY DEF BoardTypes, Op
  <1>2. /\ m \in Mpos /\ q \in 0..2 /\ Op.group = <<m, q>> /\ Op.lanes \in SUBSET Lanes
    <2>1. Op.group \in Groups /\ Op.lanes \in SUBSET Lanes
      BY <1>1, OpIs
    <2>2. Op.group \in Mpos \X (0..2)
      BY <2>1, KeysApart
    <2> QED
      BY <2>1, <2>2
  <1>3. nibbles \in [Mpos -> [0..2 -> SUBSET Lanes]]
    BY DEF BoardTypes, Masks
  <1>4. want = [nibbles[m] EXCEPT ![q] = Op.lanes]
    BY DEF MaskTarget
  <1> HIDE DEF m, q, want
  <1>5. /\ want \in [0..2 -> SUBSET Lanes] /\ want[q] = Op.lanes
        /\ \A p \in 0..2 : p # q => want[p] = nibbles[m][p]
    BY <1>2, <1>3, <1>4
  <1>6. UNCHANGED <<call, ops, authority, reserved, fan>> /\ Op' = Op
    BY DEF MaskByte, Goto, KeepAuthority, Op
  <1>7. \/ UNCHANGED nibbles
        \/ nibbles' = [nibbles EXCEPT ![m] = written]
    BY DEF MaskByte, m, want
  <1>8. /\ nibbles' \in Masks
        /\ \A a \in Mpos, p \in 0..2 : nibbles'[a][p] # nibbles[a][p] => a = m /\ p = q /\ p \in positions
    <2>1. CASE UNCHANGED nibbles
      BY <1>3, <2>1 DEF Masks
    <2>2. CASE nibbles' = [nibbles EXCEPT ![m] = written]
      <3>1. written \in [0..2 -> SUBSET Lanes]
        BY <1>2, <1>3, <1>5
      <3>2. \A p \in 0..2 : written[p] # nibbles[m][p] => p = q /\ p \in positions
        BY <1>5
      <3> HIDE DEF written
      <3>3. nibbles' \in Masks
        BY <1>2, <1>3, <2>2, <3>1 DEF Masks
      <3>4. \A a \in Mpos : nibbles'[a] = IF a = m THEN written ELSE nibbles[a]
        BY <1>2, <1>3, <2>2
      <3> QED
        BY <3>2, <3>3, <3>4
    <2> QED
      BY <1>7, <2>1, <2>2
  <1>9. \/ at' = 4
        \/ at' = n /\ at = n
        \/ /\ at' = n + 1 /\ at = n /\ UNCHANGED nibbles
           /\ \A p \in positions : nibbles[m][p] = want[p]
    BY DEF MaskByte, Goto, m, want
  <1>10. (\A p \in positions : nibbles[m][p] = want[p]) /\ q \in positions => Mask(nibbles, Op.group) = Op.lanes
    BY <1>2, <1>5 DEF Mask
  <1> QED
    BY <1>2, <1>6, <1>8, <1>9, <1>10 DEF q

\* A write of one byte, or its read-back, concerns the operation's group.
LEMMA MaskByteHolds ==
  ASSUME BoardInv, ops # <<>>, Op.op = "mask",
         \/ MaskByte(1, {2})
         \/ MaskByte(2, {0, 1})
  PROVE  BoardInv'
  <1> USE DEF BoardInv
  <1>1. PICK n \in {1, 2}, positions \in {{2}, {0, 1}} :
          MaskByte(n, positions) /\ (n = 1 => positions = {2}) /\ (n = 2 => positions = {0, 1})
    OBVIOUS
  <1>2. /\ nibbles' \in Masks
        /\ \A m \in Mpos, p \in 0..2 : nibbles'[m][p] # nibbles[m][p] =>
              Op.group = <<m, p>> /\ p \in positions
        /\ UNCHANGED <<call, ops, authority, reserved, fan>> /\ Op' = Op
        /\ \/ at' = 4
           \/ at' = n /\ at = n
           \/ /\ at' = n + 1 /\ at = n /\ UNCHANGED nibbles
              /\ Op.group[2] \in positions => Mask(nibbles, Op.group) = Op.lanes
    <2>1. positions \in SUBSET (0..2)
      OBVIOUS
    <2> QED
      BY <1>1, <2>1, MaskByteWrites
  <1>3. UNCHANGED <<configuration, target, before, pending, awaiting, degraded, manual, broken>>
    BY <1>2 DEF authority
  <1>4. BoardTypes'
    BY <1>2, <1>3 DEF BoardTypes
  <1>5. /\ Op \in Ops /\ Op.group \in Groups /\ Key(Op) = Op.group
        /\ Op.group \in Mpos \X (0..2)
    <2>1. Op \in Ops
      BY DEF BoardTypes, Op
    <2> QED
      BY <2>1, OpIs, KeysApart
  <1>6. ASSUME NEW k \in Keys, k # Key(Op) PROVE Now(k)' = Now(k)
    <2>1. CASE k = FanKey
      BY <1>2, <2>1 DEF Now, Running
    <2>2. CASE k # FanKey
      <3>1. k \in Mpos \X (0..2)
        BY <2>2, KeysApart DEF Keys
      <3>2. k = <<k[1], k[2]>> /\ k[1] \in Mpos /\ k[2] \in 0..2
        BY <3>1
      <3>3. nibbles'[k[1]][k[2]] = nibbles[k[1]][k[2]]
        BY <1>2, <1>5, <1>6, <3>2
      <3> QED
        BY <2>2, <3>3 DEF Now, Mask
    <2> QED
      BY <2>1, <2>2
  <1>7. GoalIsReached' /\ StaysWithin'
    BY <1>2, <1>6, AccessKeeps
  <1>8. MaskKnows'
    <2>1. Op.group[2] \in {0, 1, 2}
      BY <1>5
    <2>2. CASE at' = 4
      BY <2>2 DEF MaskKnows
    <2>3. CASE at' = n /\ at = n
      <3>1. CASE n = 1
        BY <2>3, <3>1 DEF MaskKnows
      <3>2. CASE n = 2
        <4>1. Op.group[2] = 2 => Mask(nibbles, Op.group) = Op.lanes
          BY <2>3, <3>2 DEF MaskKnows
        <4>2. Op.group[2] = 2 => Mask(nibbles, Op.group)' = Mask(nibbles, Op.group)
          <5>1. positions = {0, 1}
            BY <1>1, <3>2
          <5>2. Op.group[1] \in Mpos /\ Op.group[2] \in 0..2
            BY <1>5
          <5> QED
            BY <1>2, <5>1, <5>2 DEF Mask
        <4> QED
          BY <1>2, <2>3, <3>2, <4>1, <4>2 DEF MaskKnows, Mask
      <3> QED
        BY <3>1, <3>2
    <2>4. CASE /\ at' = n + 1 /\ at = n /\ UNCHANGED nibbles
               /\ Op.group[2] \in positions => Mask(nibbles, Op.group) = Op.lanes
      <3>1. CASE n = 1
        BY <1>1, <1>2, <2>4, <3>1 DEF MaskKnows, Mask
      <3>2. CASE n = 2
        <4>1. Op.group[2] = 2 => Mask(nibbles, Op.group) = Op.lanes
          BY <2>4, <3>2 DEF MaskKnows
        <4>2. Op.group[2] # 2 => Mask(nibbles, Op.group) = Op.lanes
          BY <1>1, <2>1, <2>4, <3>2
        <4> QED
          BY <1>2, <2>4, <4>1, <4>2 DEF MaskKnows, Mask
      <3> QED
        BY <3>1, <3>2
    <2> QED
      BY <1>2, <2>2, <2>3, <2>4
  <1>9. FanKnows' /\ AutomaticIsWhole'
    BY <1>2 DEF FanKnows, AutomaticIsWhole
  <1> QED
    BY <1>4, <1>7, <1>8, <1>9

\* The program of a transmit mask.
LEMMA MaskAccessHolds == ASSUME BoardInv, MaskAccess PROVE BoardInv'
  <1>1. ops # <<>> /\ Op.op = "mask"
    BY DEF MaskAccess
  <1>2. CASE Leave(3)
    <2>1. Op \in Ops
      BY <1>1 DEF BoardInv, BoardTypes, Op
    <2>2. Key(Op) = Op.group /\ Value(Op) = Op.lanes /\ Op.group # FanKey
      BY <1>1, <2>1, OpIs, KeysApart
    <2>3. Mask(nibbles, Op.group) = Op.lanes
      BY <1>1, <1>2 DEF BoardInv, MaskKnows, Leave
    <2>4. Now(Key(Op)) = Value(Op)
      BY <2>2, <2>3 DEF Now
    <2> QED
      BY <1>1, <1>2, <2>4, LeaveHolds
  <1>3. CASE MaskByte(1, {2}) \/ MaskByte(2, {0, 1})
    BY <1>1, <1>3, MaskByteHolds
  <1>4. CASE Enter(Branch(Op.group[1]))
    BY <1>1, <1>4, EnterHolds
  <1>5. CASE LeaveRaising(4)
    BY <1>1, <1>5, LeaveRaisingHolds
  <1> QED
    BY <1>2, <1>3, <1>4, <1>5 DEF MaskAccess

(***************************************************************************)
(* The fan controller.                                                     *)
(***************************************************************************)
\* The registers of the fan controller are different ones.
LEMMA RegistersApart ==
  /\ Mode # Pwm /\ Mode # Limit /\ Pwm # Limit
  /\ \A i : Lut(i) # Mode /\ Lut(i) # Pwm /\ Lut(i) # Limit
  /\ \A i, j : Lut(i) = Lut(j) => i = j
  /\ {Mode, Pwm, Limit} \subseteq Registers
  /\ \A i \in 1..Points : Lut(i) \in Registers
  <1>1. Mode[1] = "mode" /\ Pwm[1] = "pwm" /\ Limit[1] = "limit"
    BY DEF Mode, Pwm, Limit
  <1>2. \A i : Lut(i)[1] = "lut" /\ Lut(i)[2] = i
    BY DEF Lut
  <1> QED
    BY <1>1, <1>2 DEF Registers

\* The writes of a curve, by their numbers.
LEMMA FanWriteIs ==
  ASSUME NEW c
  PROVE  /\ FanWrite(c, 1) = [register |-> Mode, value |-> "direct"]
         /\ FanWrite(c, 2) = [register |-> Pwm, value |-> "full"]
         /\ \A k \in 3..(Points + 2) : FanWrite(c, k) = [register |-> Lut(k - 2), value |-> c]
         /\ FanWrite(c, Points + 3) = [register |-> Limit, value |-> c]
         /\ FanWrite(c, LastWrite) = [register |-> Mode, value |-> "lut"]
         /\ \A k \in 1..LastWrite : k = 1 \/ k = 2 \/ k \in 3..(Points + 2) \/ k = Points + 3 \/ k = LastWrite
  <1>1. Points \in Nat /\ Points > 0 /\ LastWrite = Points + 4
    BY BoardAssumption DEF BoardAssumption, LastWrite
  <1> QED
    BY <1>1 DEF FanWrite

\* The register and the value of each write.
LEMMA FanWriteFields ==
  ASSUME NEW c, NEW k \in 1..LastWrite, NEW w, w = FanWrite(c, k)
  PROVE  /\ k = 1 => w.register = Mode /\ w.value = "direct"
         /\ k = 2 => w.register = Pwm /\ w.value = "full"
         /\ k \in 3..(Points + 2) => w.register = Lut(k - 2) /\ w.value = c
         /\ k = Points + 3 => w.register = Limit /\ w.value = c
         /\ k = LastWrite => w.register = Mode /\ w.value = "lut"
  <1>1. FanWrite(c, 1) = [register |-> Mode, value |-> "direct"]
    BY FanWriteIs
  <1>2. FanWrite(c, 2) = [register |-> Pwm, value |-> "full"]
    BY FanWriteIs
  <1>3. k \in 3..(Points + 2) => FanWrite(c, k) = [register |-> Lut(k - 2), value |-> c]
    BY FanWriteIs
  <1>4. FanWrite(c, Points + 3) = [register |-> Limit, value |-> c]
    BY FanWriteIs
  <1>5. FanWrite(c, LastWrite) = [register |-> Mode, value |-> "lut"]
    BY FanWriteIs
  <1> QED
    BY <1>1, <1>2, <1>3, <1>4, <1>5

\* What the table and its limit are once the writes before the k-th have worked.
Written(k) ==
  /\ k \in 2..LastWrite => fan[Mode] = "direct"
  /\ k \in 2..(LastWrite + 1) => /\ \A i \in 1..Points : i + 2 < k => fan[Lut(i)] = Op.fan
                                 /\ k > Points + 3 => fan[Limit] = Op.fan
  /\ k = LastWrite + 1 => fan[Mode] = "lut"

\* The writes of a curve one by one: with each the next is known, and the table
\* never runs before it is whole.
LEMMA FanWrites ==
  ASSUME fan \in [Registers -> Curves \cup {Blank, "direct", "lut", "full"}],
         AutomaticIsWhole, Op.fan \in Curves, Op' = Op,
         NEW k \in 1..LastWrite, Written(k), NEW w, w = FanWrite(Op.fan, k),
         fan' = [fan EXCEPT ![w.register] = w.value]
  PROVE  /\ fan' \in [Registers -> Curves \cup {Blank, "direct", "lut", "full"}]
         /\ AutomaticIsWhole' /\ Written(k + 1)'
  <1>1. /\ Points \in Nat /\ Points > 0 /\ LastWrite = Points + 4 /\ k \in Nat
    BY BoardAssumption DEF BoardAssumption, LastWrite
  <1>2. CASE k = 1
    <2>1. w.register = Mode /\ w.value = "direct"
      BY <1>2, FanWriteFields
    <2>2. /\ fan' \in [Registers -> Curves \cup {Blank, "direct", "lut", "full"}]
          /\ fan'[Mode] = "direct"
      BY <2>1, RegistersApart
    <2>3. AutomaticIsWhole'
      BY <2>2 DEF AutomaticIsWhole
    <2>4. Written(2)'
      BY <1>1, <2>2 DEF Written
    <2> QED
      BY <1>2, <2>2, <2>3, <2>4
  <1>3. CASE k = 2
    <2>1. w.register = Pwm /\ w.value = "full" /\ fan[Mode] = "direct"
      BY <1>1, <1>3, FanWriteFields DEF Written
    <2>2. /\ fan' \in [Registers -> Curves \cup {Blank, "direct", "lut", "full"}]
          /\ fan'[Mode] = "direct"
      BY <2>1, RegistersApart
    <2>3. AutomaticIsWhole'
      BY <2>2 DEF AutomaticIsWhole
    <2>4. Written(3)'
      BY <1>1, <2>2 DEF Written
    <2> QED
      BY <1>3, <2>2, <2>3, <2>4
  <1>4. CASE k \in 3..(Points + 2)
    <2>1. w.register = Lut(k - 2) /\ w.value = Op.fan /\ k - 2 \in 1..Points
      BY <1>1, <1>4, FanWriteFields
    <2>2. /\ fan[Mode] = "direct" /\ \A i \in 1..Points : i + 2 < k => fan[Lut(i)] = Op.fan
      BY <1>1, <1>4 DEF Written
    <2>3. /\ fan' \in [Registers -> Curves \cup {Blank, "direct", "lut", "full"}]
          /\ fan'[Mode] = "direct" /\ fan'[Lut(k - 2)] = Op.fan
          /\ \A i \in 1..Points : i # k - 2 => fan'[Lut(i)] = fan[Lut(i)]
      BY <2>1, <2>2, RegistersApart
    <2>4. AutomaticIsWhole'
      BY <2>3 DEF AutomaticIsWhole
    <2>5. \A i \in 1..Points : i + 2 < k + 1 => fan'[Lut(i)] = Op.fan
      BY <1>1, <2>2, <2>3
    <2>6. Written(k + 1)'
      BY <1>1, <1>4, <2>3, <2>5 DEF Written
    <2> QED
      BY <2>3, <2>4, <2>6
  <1>5. CASE k = Points + 3
    <2>1. w.register = Limit /\ w.value = Op.fan
      BY <1>5, FanWriteFields
    <2>2. /\ fan[Mode] = "direct" /\ \A i \in 1..Points : fan[Lut(i)] = Op.fan
      BY <1>1, <1>5 DEF Written
    <2>3. /\ fan' \in [Registers -> Curves \cup {Blank, "direct", "lut", "full"}]
          /\ fan'[Mode] = "direct" /\ fan'[Limit] = Op.fan
          /\ \A i \in 1..Points : fan'[Lut(i)] = Op.fan
      BY <2>1, <2>2, RegistersApart
    <2>4. AutomaticIsWhole'
      BY <2>3 DEF AutomaticIsWhole
    <2>5. Written(k + 1)'
      BY <1>1, <1>5, <2>3 DEF Written
    <2> QED
      BY <2>3, <2>4, <2>5
  <1>6. CASE k = LastWrite
    <2>1. w.register = Mode /\ w.value = "lut"
      BY <1>6, FanWriteFields
    <2>2. fan[Limit] = Op.fan /\ \A i \in 1..Points : fan[Lut(i)] = Op.fan
      BY <1>1, <1>6 DEF Written
    <2>3. /\ fan' \in [Registers -> Curves \cup {Blank, "direct", "lut", "full"}]
          /\ fan'[Mode] = "lut" /\ fan'[Limit] = Op.fan
          /\ \A i \in 1..Points : fan'[Lut(i)] = Op.fan
      BY <2>1, <2>2, RegistersApart
    <2>4. AutomaticIsWhole'
      BY <2>3 DEF AutomaticIsWhole
    <2>5. Written(k + 1)'
      BY <1>1, <1>6, <2>3 DEF Written
    <2> QED
      BY <2>3, <2>4, <2>5
  <1> QED
    BY <1>2, <1>3, <1>4, <1>5, <1>6, FanWriteIs

\* A write that is lost, but whose register held the value.
LEMMA FanHeld ==
  ASSUME AutomaticIsWhole, NEW k \in 1..LastWrite, Written(k), FanHolds(FanWrite(Op.fan, k)),
         fan \in [Registers -> Curves \cup {Blank, "direct", "lut", "full"}], Op.fan \in Curves
  PROVE  Written(k + 1)
  <1> DEFINE w == FanWrite(Op.fan, k)
  <1>1. /\ Points \in Nat /\ Points > 0 /\ LastWrite = Points + 4 /\ k \in Nat
    BY BoardAssumption DEF BoardAssumption, LastWrite
  <1>2. fan[w.register] = w.value
    BY DEF FanHolds
  <1> HIDE DEF w
  <1>3. CASE k = 1
    <2>1. fan[Mode] = "direct"
      BY <1>2, <1>3, FanWriteFields DEF w
    <2> QED
      BY <1>1, <1>3, <2>1 DEF Written
  <1>4. CASE k = 2
    BY <1>1, <1>4 DEF Written
  <1>5. CASE k \in 3..(Points + 2)
    <2>1. fan[Lut(k - 2)] = Op.fan
      BY <1>2, <1>5, FanWriteFields DEF w
    <2>2. fan[Mode] = "direct" /\ \A i \in 1..Points : i + 2 < k => fan[Lut(i)] = Op.fan
      BY <1>1, <1>5 DEF Written
    <2>3. \A i \in 1..Points : i + 2 < k + 1 => fan[Lut(i)] = Op.fan
      <3> SUFFICES ASSUME NEW i \in 1..Points, i + 2 < k + 1 PROVE fan[Lut(i)] = Op.fan
        OBVIOUS
      <3>1. i + 2 < k \/ i = k - 2
        BY <1>1
      <3> QED
        BY <2>1, <2>2, <3>1
    <2> QED
      BY <1>1, <1>5, <2>2, <2>3 DEF Written
  <1>6. CASE k = Points + 3
    <2>1. fan[Limit] = Op.fan
      BY <1>2, <1>6, FanWriteFields DEF w
    <2> QED
      BY <1>1, <1>6, <2>1 DEF Written
  <1>7. CASE k = LastWrite
    <2>1. fan[Mode] = "lut"
      BY <1>2, <1>7, FanWriteFields DEF w
    <2> QED
      BY <1>1, <1>7, <2>1 DEF Written
  <1> QED
    BY <1>3, <1>4, <1>5, <1>6, <1>7, FanWriteIs

\* What is known inside the program of a curve is what has been written.
LEMMA FanKnowsNext ==
  ASSUME NEW n, at' = n, Written(n)'
  PROVE  FanKnows'
  BY DEF FanKnows, Written

\* Once a write has failed nothing is.
LEMMA GoesWrongNext ==
  ASSUME NEW n \in {LastWrite + 2, LastWrite + 3, LastWrite + 4}
  PROVE  Written(n)'
  <1>1. LastWrite \in Nat
    BY BoardAssumption DEF BoardAssumption, LastWrite
  <1>2. n \notin 2..LastWrite /\ n \notin 2..(LastWrite + 1) /\ n # LastWrite + 1
    BY <1>1
  <1> QED
    BY <1>2 DEF Written

\* An access to the fan controller concerns nothing else.
LEMMA FanStepHolds ==
  ASSUME BoardInv, ops # <<>>, Op.op = "fan", UNCHANGED <<call, ops, authority, nibbles>>,
         NEW n \in Nat, at' = n, fan' \in [Registers -> Curves \cup {Blank, "direct", "lut", "full"}],
         AutomaticIsWhole', Written(n)'
  PROVE  BoardInv'
  <1>1. UNCHANGED <<configuration, target, before, pending, awaiting, degraded, manual, broken>>
    BY DEF authority
  <1>2. BoardTypes'
    BY <1>1 DEF BoardInv, BoardTypes
  <1>3. Key(Op) = FanKey
    <2>1. Op \in Ops
      BY DEF BoardInv, BoardTypes, Op
    <2> QED
      BY <2>1, OpIs
  <1>4. \A k \in Keys : k # Key(Op) => Now(k)' = Now(k)
    BY <1>3 DEF Now, Mask
  <1>5. GoalIsReached' /\ StaysWithin'
    BY <1>4, AccessKeeps
  <1>6. Op' = Op
    BY DEF Op
  <1>7. MaskKnows'
    BY <1>6 DEF MaskKnows
  <1>8. FanKnows'
    BY FanKnowsNext
  <1> QED
    BY <1>2, <1>5, <1>7, <1>8 DEF BoardInv

\* One register of the curve.
LEMMA FanAccessHolds ==
  ASSUME BoardInv, ops # <<>>, Op.op = "fan", NEW k \in 1..LastWrite, FanAccess(k)
  PROVE  BoardInv'
  <1> DEFINE w == FanWrite(Op.fan, k)
  <1>1. /\ LastWrite \in Nat /\ k \in Nat /\ k + 1 \in Nat /\ LastWrite + 2 \in Nat
    BY BoardAssumption DEF BoardAssumption, LastWrite
  <1>2. Op.fan \in Curves /\ Op' = Op
    <2>1. Op \in Ops
      BY DEF BoardInv, BoardTypes, Op
    <2>2. ops' = ops
      BY DEF FanAccess, Goto
    <2> QED
      BY <2>1, <2>2, OpIs DEF Op
  <1>3. fan \in [Registers -> Curves \cup {Blank, "direct", "lut", "full"}] /\ AutomaticIsWhole
    BY DEF BoardInv, BoardTypes
  <1>4. at = k /\ Written(k)
    <2>1. at = k
      BY DEF FanAccess
    <2>2. Written(at)
      BY DEF BoardInv, FanKnows, Written
    <2> QED
      BY <2>1, <2>2
  <1>5. UNCHANGED <<call, ops, authority, nibbles>>
    BY DEF FanAccess, Goto, KeepAuthority
  <1>6. \/ UNCHANGED fan /\ at' = LastWrite + 2
        \/ fan' = FanAfter(w) /\ at' = k + 1
        \/ UNCHANGED fan /\ FanHolds(w) /\ at' = k + 1
        \/ fan' = FanAfter(w) /\ at' = LastWrite + 2
    BY DEF FanAccess, Goto
  <1>7. Written(LastWrite + 2)'
    BY GoesWrongNext
  <1>8. CASE UNCHANGED fan /\ at' = LastWrite + 2
    <2>1. AutomaticIsWhole'
      BY <1>3, <1>8 DEF AutomaticIsWhole
    <2> QED
      BY <1>1, <1>3, <1>5, <1>7, <1>8, <2>1, FanStepHolds
  <1>9. ASSUME fan' = FanAfter(w)
        PROVE  /\ fan' \in [Registers -> Curves \cup {Blank, "direct", "lut", "full"}]
               /\ AutomaticIsWhole' /\ Written(k + 1)'
    <2>1. PICK v : v = w
      OBVIOUS
    <2>2. fan' = [fan EXCEPT ![v.register] = v.value]
      BY <1>9, <2>1 DEF FanAfter
    <2> QED
      BY <1>2, <1>3, <1>4, <2>1, <2>2, FanWrites
  <1>10. CASE fan' = FanAfter(w) /\ at' = k + 1
    BY <1>1, <1>5, <1>9, <1>10, FanStepHolds
  <1>11. CASE fan' = FanAfter(w) /\ at' = LastWrite + 2
    BY <1>1, <1>5, <1>7, <1>9, <1>11, FanStepHolds
  <1>12. CASE UNCHANGED fan /\ FanHolds(w) /\ at' = k + 1
    <2>1. Written(k + 1)
      BY <1>2, <1>3, <1>4, <1>12, FanHeld
    <2>2. Written(k + 1)'
      BY <1>2, <1>12, <2>1 DEF Written
    <2>3. AutomaticIsWhole'
      BY <1>3, <1>12 DEF AutomaticIsWhole
    <2> QED
      BY <1>1, <1>3, <1>5, <1>12, <2>2, <2>3, FanStepHolds
  <1> QED
    BY <1>6, <1>8, <1>10, <1>11, <1>12

\* After a failure: neither direct mode nor the PWM makes a table run.
LEMMA BestEffortHolds ==
  ASSUME BoardInv, ops # <<>>, Op.op = "fan", NEW c, NEW k \in {1, 2}, NEW n,
         n = LastWrite + 1 + k, BestEffort(n, FanWrite(c, k))
  PROVE  BoardInv'
  <1> DEFINE w == FanWrite(c, k)
  <1>1. LastWrite \in Nat /\ LastWrite + 3 \in Nat /\ LastWrite + 4 \in Nat /\ k \in 1..LastWrite
    BY BoardAssumption DEF BoardAssumption, LastWrite
  <1>2. fan \in [Registers -> Curves \cup {Blank, "direct", "lut", "full"}] /\ AutomaticIsWhole
    BY DEF BoardInv, BoardTypes
  <1>3. UNCHANGED <<call, ops, authority, nibbles>>
    BY DEF BestEffort, Goto, KeepAuthority
  <1>4. /\ fan' = fan \/ fan' = FanAfter(w)
        /\ at' = n + 1 \/ at' = LastWrite + 4
    BY DEF BestEffort, Goto
  <1>5. PICK m \in {LastWrite + 3, LastWrite + 4} : at' = m
    BY <1>1, <1>4
  <1>6. Written(m)'
    BY GoesWrongNext
  <1>7. /\ fan' \in [Registers -> Curves \cup {Blank, "direct", "lut", "full"}]
        /\ AutomaticIsWhole'
    <2>1. CASE fan' = fan
      BY <1>2, <2>1 DEF AutomaticIsWhole
    <2>2. CASE fan' = FanAfter(w)
      <3>1. PICK v : v = w
        OBVIOUS
      <3>2. fan' = [fan EXCEPT ![v.register] = v.value]
        BY <2>2, <3>1 DEF FanAfter
      <3>3. CASE k = 1
        <4>1. v.register = Mode /\ v.value = "direct"
          BY <1>1, <3>1, <3>3, FanWriteFields
        <4>2. /\ fan' \in [Registers -> Curves \cup {Blank, "direct", "lut", "full"}]
              /\ fan'[Mode] = "direct"
          BY <1>2, <3>2, <4>1, RegistersApart
        <4> QED
          BY <4>2 DEF AutomaticIsWhole
      <3>4. CASE k = 2
        <4>1. v.register = Pwm /\ v.value = "full"
          BY <1>1, <3>1, <3>4, FanWriteFields
        <4>2. /\ fan' \in [Registers -> Curves \cup {Blank, "direct", "lut", "full"}]
              /\ fan'[Mode] = fan[Mode] /\ fan'[Limit] = fan[Limit]
              /\ \A i \in 1..Points : fan'[Lut(i)] = fan[Lut(i)]
          BY <1>2, <3>2, <4>1, RegistersApart
        <4> QED
          BY <1>2, <4>2 DEF AutomaticIsWhole
      <3> QED
        BY <3>3, <3>4
    <2> QED
      BY <1>4, <2>1, <2>2
  <1>8. m \in Nat
    BY <1>1
  <1> QED
    BY <1>3, <1>5, <1>6, <1>7, <1>8, FanStepHolds

\* The program of a curve.
LEMMA ApplyFanCurveHolds == ASSUME BoardInv, ApplyFanCurve PROVE BoardInv'
  <1>1. ops # <<>> /\ Op.op = "fan"
    BY DEF ApplyFanCurve
  <1>2. CASE Enter(FanBranch)
    BY <1>1, <1>2, EnterHolds
  <1>3. CASE \E k \in 1..LastWrite : FanAccess(k)
    BY <1>1, <1>3, FanAccessHolds
  <1>4. CASE Leave(LastWrite + 1)
    <2>1. LastWrite \in Nat /\ Points \in Nat /\ LastWrite = Points + 4
      BY BoardAssumption DEF BoardAssumption, LastWrite
    <2>2. at = LastWrite + 1
      BY <1>4 DEF Leave
    <2>3. at \in 2..(LastWrite + 1) /\ at > Points + 3
      BY <2>1, <2>2
    <2>4. fan[Mode] = "lut" /\ fan[Limit] = Op.fan
      BY <1>1, <2>2, <2>3 DEF BoardInv, FanKnows
    <2>5. Key(Op) = FanKey /\ Value(Op) = Op.fan
      <3>1. Op \in Ops
        BY <1>1 DEF BoardInv, BoardTypes, Op
      <3> QED
        BY <1>1, <3>1, OpIs
    <2>6. Now(Key(Op)) = Value(Op)
      BY <2>4, <2>5 DEF Now, Running
    <2> QED
      BY <1>1, <1>4, <2>6, LeaveHolds
  <1>5. CASE BestEffort(LastWrite + 2, FanWrite(Op.fan, 1))
    <2>1. PICK c, n : c = Op.fan /\ n = LastWrite + 2 /\ LastWrite + 2 = LastWrite + 1 + 1
      BY BoardAssumption DEF BoardAssumption, LastWrite
    <2>2. BestEffort(n, FanWrite(c, 1))
      BY <1>5, <2>1
    <2> QED
      BY <1>1, <2>1, <2>2, BestEffortHolds
  <1>6. CASE BestEffort(LastWrite + 3, FanWrite(Op.fan, 2))
    <2>1. PICK c, n : c = Op.fan /\ n = LastWrite + 3 /\ LastWrite + 3 = LastWrite + 1 + 2
      BY BoardAssumption DEF BoardAssumption, LastWrite
    <2>2. BestEffort(n, FanWrite(c, 2))
      BY <1>6, <2>1
    <2> QED
      BY <1>1, <2>1, <2>2, BestEffortHolds
  <1>7. CASE LeaveRaising(LastWrite + 4)
    BY <1>1, <1>7, LeaveRaisingHolds
  <1> QED
    BY <1>2, <1>3, <1>4, <1>5, <1>6, <1>7 DEF ApplyFanCurve

\* A step of the SDK, which may fail.
LEMMA StepHardwareHolds == ASSUME BoardInv, StepHardware PROVE BoardInv'
  <1>1. ops # <<>> /\ Op.op = "step" /\ UNCHANGED <<nibbles, fan>>
    BY DEF StepHardware, bus
  <1>2. CASE Done
    <2>1. Op \in Ops
      BY <1>1 DEF BoardInv, BoardTypes, Op
    <2>2. Key(Op) = Nothing
      BY <1>1, <2>1, OpIs
    <2> QED
      BY <1>1, <1>2, <2>2, DoneHolds
  <1>3. CASE Raise
    BY <1>1, <1>3, RaiseHolds
  <1>4. CASE call = "apply" /\ StartMute
    BY <1>1, <1>4, MuteHolds
  <1> QED
    BY <1>2, <1>3, <1>4 DEF StepHardware

\* The invariant is inductive.
LEMMA BoardStepHolds == BoardInv /\ [BoardNext]_boardVars => BoardInv'
  <1> SUFFICES ASSUME BoardInv, [BoardNext]_boardVars PROVE BoardInv'
    OBVIOUS
  <1>1. {configuration, target, pending} \subseteq Configs
    BY DEF BoardInv, BoardTypes
  <1>2. CASE Apply
    <2>1. PICK c \in Configs : ApplyTo(c)
      BY <1>2 DEF Apply
    <2>2. pending' \in Configs
      BY <1>1, <1>2 DEF Apply
    <2> QED
      BY <2>1, <2>2, ApplyHolds
  <1>3. CASE TakeBack
    <2>1. PICK c \in Configs : c = pending
      BY <1>1
    <2>2. ApplyTo(c) /\ pending' \in Configs
      BY <1>1, <1>3, <2>1 DEF TakeBack
    <2> QED
      BY <2>2, ApplyHolds
  <1>4. CASE Confirm
    BY <1>4, QuietHolds DEF Confirm, bus, process
  <1>5. CASE Manual
    BY <1>5, QuietHolds DEF Manual, bus, process
  <1>6. CASE Expire
    BY <1>6, ExpireHolds
  <1>7. CASE MaskAccess
    BY <1>7, MaskAccessHolds
  <1>8. CASE ApplyFanCurve
    BY <1>8, ApplyFanCurveHolds
  <1>9. CASE StepHardware
    BY <1>9, StepHardwareHolds
  <1>10. CASE LoseBus \/ RegainBus
    BY <1>10, QuietHolds DEF LoseBus, RegainBus, bus, process, authority
  <1>11. CASE UNCHANGED boardVars
    BY <1>11, QuietHolds DEF boardVars, bus, process, authority
  <1> QED
    BY <1>2, <1>3, <1>4, <1>5, <1>6, <1>7, <1>8, <1>9, <1>10, <1>11 DEF BoardNext

\* Whatever fails, the running table is always the whole table of one curve.
THEOREM RunningCurveIsWhole == BoardSpec => []AutomaticIsWhole
  <1>1. BoardInv => AutomaticIsWhole
    BY DEF BoardInv
  <1> QED
    BY <1>1, BoardInitHolds, BoardStepHolds, PTL DEF BoardSpec

\* Between two calls the board does what the authority reports of it: the
\* lanes of every group that is not degraded, and the fan's table.
THEOREM ReportsAreTrue == BoardSpec => []ClaimsHold
  <1>1. ASSUME BoardInv PROVE ClaimsHold
    <2> SUFFICES ASSUME call = "idle" PROVE
          /\ \A g \in Groups \ degraded : nibbles[g[1]][g[2]] = GroupMask(configuration.group[g])
          /\ ~broken /\ ~manual => fan[Mode] = "lut" /\ fan[Limit] = configuration.fan
      BY DEF ClaimsHold
    <2>1. ASSUME NEW g \in Groups \ degraded
          PROVE  nibbles[g[1]][g[2]] = GroupMask(configuration.group[g])
      <3>1. g \in Keys /\ g # FanKey /\ g \notin Excused
        BY KeysApart DEF Keys, Excused
      <3>2. Now(g) = Wanted(configuration, g)
        BY <1>1, <3>1, IdleStands
      <3> QED
        BY <3>1, <3>2 DEF Now, Mask, Wanted
    <2>2. ASSUME ~broken, ~manual PROVE fan[Mode] = "lut" /\ fan[Limit] = configuration.fan
      <3>1. FanKey \in Keys /\ FanKey \notin Excused
        BY <1>1, <2>2, TouchedKeys DEF Excused, BoardInv, BoardTypes
      <3>2. Running = configuration.fan
        BY <1>1, <3>1, IdleStands DEF Now, Wanted
      <3>3. configuration.fan # Blank
        BY <1>1, BoardAssumption, WantedIs DEF BoardInv, BoardTypes, BoardAssumption
      <3> QED
        BY <3>2, <3>3 DEF Running
    <2> QED
      BY <2>1, <2>2
  <1> QED
    BY <1>1, BoardInitHolds, BoardStepHolds, PTL DEF BoardSpec

\* A step that writes a mask register changes no lane of another group, and
\* no step changes the reserved nibble.
THEOREM OthersStay == BoardSpec => OthersUntouched
  <1> DEFINE Untouched ==
        /\ reserved' = reserved
        /\ \A m \in Mpos, p \in 0..2 : nibbles'[m][p] # nibbles[m][p] =>
             ops # <<>> /\ Op.op = "mask" /\ Op.group = <<m, p>>
  <1>1. ASSUME BoardInv, BoardNext PROVE Untouched
    <2>1. CASE MaskAccess
      <3>1. ops # <<>> /\ Op.op = "mask"
        BY <2>1 DEF MaskAccess
      <3>2. CASE MaskByte(1, {2}) \/ MaskByte(2, {0, 1})
        <4>1. PICK n \in {1, 2}, positions \in SUBSET (0..2) : MaskByte(n, positions)
          <5>1. {2} \in SUBSET (0..2) /\ {0, 1} \in SUBSET (0..2)
            OBVIOUS
          <5> QED
            BY <3>2, <5>1
        <4> QED
          BY <1>1, <3>1, <4>1, MaskByteWrites DEF BoardInv
      <3>3. CASE Enter(Branch(Op.group[1])) \/ Leave(3) \/ LeaveRaising(4)
        <4>1. UNCHANGED <<nibbles, reserved>>
          BY <3>3 DEF Enter, Leave, LeaveRaising, bus
        <4> QED
          BY <4>1
      <3> QED
        BY <2>1, <3>2, <3>3 DEF MaskAccess
    <2>2. CASE ApplyFanCurve
      <3>1. UNCHANGED <<nibbles, reserved>>
        BY <2>2 DEF ApplyFanCurve, Enter, Leave, LeaveRaising, FanAccess, BestEffort, bus
      <3> QED
        BY <3>1
    <2>3. CASE ~MaskAccess /\ ~ApplyFanCurve
      <3>1. UNCHANGED <<nibbles, reserved>>
        BY <1>1, <2>3 DEF BoardNext, Apply, TakeBack, ApplyTo, Confirm, Manual, Expire, StepHardware,
                          LoseBus, RegainBus, bus
      <3> QED
        BY <3>1
    <2> QED
      BY <2>1, <2>2, <2>3
  <1>2. UNCHANGED boardVars => UNCHANGED <<nibbles, reserved>>
    BY DEF boardVars, bus
  <1>3. BoardInv /\ [BoardNext]_boardVars => [Untouched]_boardVars
    BY <1>1
  <1> QED
    BY <1>3, BoardInitHolds, BoardStepHolds, PTL DEF BoardSpec, OthersUntouched

(***************************************************************************)
(* The types of what the invariant does not speak of.                      *)
(***************************************************************************)
Counters == at \in 0..(LastWrite + 4) /\ tries \in 0..Retries /\ previous \in {1, 2, FanBranch}
Others ==
  /\ reserved \in [Mpos -> 0..15] /\ mux \in {1, 2, FanBranch}
  /\ available \in BOOLEAN /\ awaiting \in BOOLEAN

\* An operation that ends starts the next one at its first access.
LEMMA EndingTypes ==
  ASSUME Counters, Others, Done \/ Raise \/ StartMute
  PROVE  Counters' /\ awaiting' \in BOOLEAN
  <1>1. 0 \in 0..(LastWrite + 4) /\ 0 \in 0..Retries
    BY BoardAssumption DEF BoardAssumption, LastWrite
  <1>2. at' = 0 /\ tries' = 0 /\ previous' = previous
    BY DEF Done, Raise, StartRollback, StartMute, Settle, Run
  <1>3. awaiting' = awaiting \/ awaiting' = ~awaiting
    BY DEF Done, Finished, Raise, StartRollback, StartMute, KeepAuthority, authority
  <1> QED
    BY <1>1, <1>2, <1>3 DEF Counters, Others

\* An access goes on to one of the operation's other accesses.
LEMMA AccessTypes ==
  ASSUME Counters, Others,
         \/ \E branch \in {1, 2, FanBranch} : Enter(branch)
         \/ \E n \in {3, 4, LastWrite + 1, LastWrite + 4} : Leave(n) \/ LeaveRaising(n)
         \/ \E n \in {1, 2}, positions \in {{2}, {0, 1}} : MaskByte(n, positions)
         \/ \E k \in 1..LastWrite : FanAccess(k)
         \/ \E n \in {LastWrite + 2, LastWrite + 3}, w \in {FanWrite(Op.fan, 1), FanWrite(Op.fan, 2)} :
              BestEffort(n, w)
  PROVE  Counters' /\ Others'
  <1>1. LastWrite \in Nat /\ LastWrite >= 5 /\ Retries \in Nat
    BY BoardAssumption DEF BoardAssumption, LastWrite
  <1>2. CASE \E branch \in {1, 2, FanBranch} : Enter(branch)
    <2>1. PICK branch \in {1, 2, FanBranch} : Enter(branch)
      BY <1>2
    <2>2. CASE ~available /\ Raise /\ UNCHANGED bus
      <3>1. UNCHANGED <<reserved, mux, available>>
        BY <2>1, <2>2 DEF Enter, bus
      <3> QED
        BY <2>2, <3>1, EndingTypes DEF Others
    <2>3. CASE ~(~available /\ Raise /\ UNCHANGED bus)
      <3>1. /\ at' = 1 /\ previous' = mux /\ mux' = branch
            /\ UNCHANGED <<tries, reserved, available, awaiting>>
        BY <2>1, <2>3 DEF Enter, KeepAuthority, authority
      <3>2. 1 \in 0..(LastWrite + 4)
        BY <1>1
      <3> QED
        BY <3>1, <3>2 DEF Counters, Others
    <2> QED
      BY <2>2, <2>3
  <1>3. CASE \E n \in {3, 4, LastWrite + 1, LastWrite + 4} : Leave(n) \/ LeaveRaising(n)
    <2>1. /\ Done \/ Raise
          /\ mux' = previous \/ mux' = mux
          /\ UNCHANGED <<reserved, available>>
      BY <1>3 DEF Leave, LeaveRaising
    <2> QED
      BY <2>1, EndingTypes DEF Counters, Others
  <1>4. CASE \E n \in {1, 2}, positions \in {{2}, {0, 1}} : MaskByte(n, positions)
    <2>1. PICK n \in {1, 2}, positions \in {{2}, {0, 1}} : MaskByte(n, positions)
      BY <1>4
    <2>2. /\ UNCHANGED <<mux, reserved, available, previous, awaiting>>
          /\ \/ tries' = 0 /\ (at' = 4 \/ at' = n + 1)
             \/ tries < Retries /\ tries' = tries + 1 /\ at' = at
      BY <2>1 DEF MaskByte, Goto, KeepAuthority, authority
    <2>3. at' \in 0..(LastWrite + 4)
      BY <1>1, <2>2 DEF Counters
    <2>4. tries' \in 0..Retries
      BY <1>1, <2>2 DEF Counters
    <2> QED
      BY <2>2, <2>3, <2>4 DEF Counters, Others
  <1>5. CASE \E k \in 1..LastWrite : FanAccess(k)
    <2>1. PICK k \in 1..LastWrite : FanAccess(k)
      BY <1>5
    <2>2. /\ UNCHANGED <<mux, reserved, previous, awaiting>>
          /\ tries' = 0 /\ (at' = k + 1 \/ at' = LastWrite + 2)
          /\ available' = available \/ available' = FALSE
      BY <2>1 DEF FanAccess, Goto, KeepAuthority, authority
    <2>3. at' \in 0..(LastWrite + 4) /\ tries' \in 0..Retries
      BY <1>1, <2>2
    <2> QED
      BY <2>2, <2>3 DEF Counters, Others
  <1>6. CASE \E n \in {LastWrite + 2, LastWrite + 3}, w \in {FanWrite(Op.fan, 1), FanWrite(Op.fan, 2)} :
               BestEffort(n, w)
    <2>1. PICK n \in {LastWrite + 2, LastWrite + 3}, w \in {FanWrite(Op.fan, 1), FanWrite(Op.fan, 2)} :
            BestEffort(n, w)
      BY <1>6
    <2>2. /\ UNCHANGED <<mux, reserved, available, previous, awaiting>>
          /\ tries' = 0 /\ (at' = n + 1 \/ at' = LastWrite + 4)
      BY <2>1 DEF BestEffort, Goto, KeepAuthority, authority
    <2>3. at' \in 0..(LastWrite + 4) /\ tries' \in 0..Retries
      BY <1>1, <2>2
    <2> QED
      BY <2>2, <2>3 DEF Counters, Others
  <1> QED
    BY <1>2, <1>3, <1>4, <1>5, <1>6

\* Every step keeps these types.
LEMMA OtherTypesHold == Counters /\ Others /\ [BoardNext]_boardVars => Counters' /\ Others'
  <1> SUFFICES ASSUME Counters, Others, [BoardNext]_boardVars PROVE Counters' /\ Others'
    OBVIOUS
  <1>1. 0 \in 0..(LastWrite + 4) /\ 0 \in 0..Retries
    BY BoardAssumption DEF BoardAssumption, LastWrite
  <1>2. CASE Apply \/ TakeBack \/ Expire
    <2>1. at' = 0 /\ tries' = 0 /\ UNCHANGED <<previous, reserved, mux, available, awaiting>>
      BY <1>2 DEF Apply, TakeBack, Expire, ApplyTo, Run, bus, authority
    <2> QED
      BY <1>1, <2>1 DEF Counters, Others
  <1>3. CASE Confirm \/ Manual \/ LoseBus \/ RegainBus \/ UNCHANGED boardVars
    <2>1. /\ UNCHANGED <<at, tries, previous, reserved, mux>>
          /\ awaiting' = awaiting \/ awaiting' = FALSE
          /\ available' = available \/ available' \in {TRUE, FALSE}
      BY <1>3 DEF Confirm, Manual, LoseBus, RegainBus, boardVars, bus, process, authority
    <2> QED
      BY <2>1 DEF Counters, Others
  <1>4. CASE MaskAccess
    <2>1. Branch(Op.group[1]) \in {1, 2, FanBranch}
      BY DEF Branch
    <2> QED
      BY <1>4, <2>1, AccessTypes DEF MaskAccess
  <1>5. CASE ApplyFanCurve
    BY <1>5, AccessTypes DEF ApplyFanCurve
  <1>6. CASE StepHardware
    <2>1. (Done \/ Raise \/ StartMute) /\ UNCHANGED <<reserved, mux, available>>
      BY <1>6 DEF StepHardware, bus
    <2> QED
      BY <2>1, EndingTypes DEF Others
  <1> QED
    BY <1>2, <1>3, <1>4, <1>5, <1>6 DEF BoardNext

\* Every variable keeps its type.
THEOREM BoardTypesHold == BoardSpec => []BoardTypeOK
  <1>1. BoardInit => Counters /\ Others
    <2>1. 0 \in 0..(LastWrite + 4) /\ 0 \in 0..Retries
      BY BoardAssumption DEF BoardAssumption, LastWrite
    <2> SUFFICES ASSUME BoardInit PROVE Counters /\ Others
      OBVIOUS
    <2>2. reserved \in [Mpos -> 0..15]
      BY DEF BoardInit
    <2>3. at = 0 /\ tries = 0 /\ previous = 1 /\ mux = 1 /\ available = TRUE /\ awaiting = FALSE
      BY DEF BoardInit
    <2> QED
      BY <2>1, <2>2, <2>3 DEF Counters, Others
  <1>2. BoardInv /\ Counters /\ Others => BoardTypeOK
    <2> SUFFICES ASSUME BoardInv, Counters, Others PROVE BoardTypeOK
      OBVIOUS
    <2>1. /\ nibbles \in [Mpos -> [0..2 -> SUBSET Lanes]]
          /\ fan \in [Registers -> Curves \cup {Blank, "direct", "lut", "full"}]
          /\ call \in {"idle", "boot", "apply", "rollback", "mute", "release"}
          /\ {configuration, target, pending} \subseteq Configs /\ degraded \subseteq Groups
      BY DEF BoardInv, BoardTypes, Masks
    <2>2. (ops = <<>>) <=> (call = "idle")
      BY DEF BoardInv, BoardTypes
    <2>3. {available, awaiting, manual, broken} \subseteq BOOLEAN
      BY DEF BoardInv, BoardTypes, Others
    <2>4. /\ reserved \in [Mpos -> 0..15] /\ mux \in {1, 2, FanBranch} /\ previous \in {1, 2, FanBranch}
          /\ at \in 0..(LastWrite + 4) /\ tries \in 0..Retries
      BY DEF Counters, Others
    <2> QED
      BY <2>1, <2>2, <2>3, <2>4 DEF BoardTypeOK
  <1> QED
    BY <1>1, <1>2, BoardInitHolds, BoardStepHolds, OtherTypesHold, PTL DEF BoardSpec
=============================================================================
