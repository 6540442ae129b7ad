--------------------------- MODULE Operations_proofs ---------------------------
(***************************************************************************)
(* What the scripts and helpers outside the switch say of their work is    *)
(* so, for any number of connections, probes, servers and faults.  The     *)
(* modules share no state; each has an invariant of its own.               *)
(***************************************************************************)
EXTENDS EcnGateway, TimeSync, EcnLab, NativeBoot, SequenceTheorems, TLAPS

(***************************************************************************)
(* The ECN gateway.  What makes NicsComeHome inductive: the list on disk   *)
(* is the list in memory, a NIC is only ever away in its own namespace and *)
(* while on the list, and before it is moved both are prepared.            *)
(***************************************************************************)
GatewayTypeOK ==
  /\ place \in [Sides -> {Home} \cup Sides] /\ up \subseteq Sides /\ before \subseteq Sides
  /\ gatewayReport = [owned |-> gatewayReport.owned, moved |-> gatewayReport.moved,
                      ready |-> gatewayReport.ready, cleaned |-> gatewayReport.cleaned]

\* What the script relies on where it is.
Prepared ==
  /\ At("add2") => 1 \in spaces
  /\ gatewayAt \in {"record1", "move1", "record2", "move2"} => Sides \subseteq spaces
  /\ At("move1") => 1 \in moved
  /\ At("move2") => 2 \in moved

Away == \A side \in Sides : place[side] # Home => place[side] = side /\ side \in moved \cap spaces

Done ==
  gatewayReport.cleaned => /\ At("end") /\ Restored
                           /\ gatewayReport.owned = {} /\ gatewayReport.moved = {}

GatewayInv == GatewayTypeOK /\ Prepared /\ Away /\ Done /\ gatewayReport.moved = moved

USE DEF Sides, Home

\* At the start every NIC is at home.
LEMMA GatewayInitHolds == GatewayInit => GatewayInv
  BY DEF GatewayInit, GatewayInv, GatewayTypeOK, Prepared, Away, Done, At

\* A step keeps it.
LEMMA GatewayStepHolds == GatewayInv /\ [GatewayNext]_gatewayVars => GatewayInv'
  <1> SUFFICES ASSUME GatewayInv, [GatewayNext]_gatewayVars PROVE GatewayInv'
    OBVIOUS
  <1> USE DEF GatewayInv, At, To
  <1>1. ASSUME NEW side \in Sides, NEW here, NEW next, Inspect(side, here, next),
               <<here, next>> \in {<<"inspect1", "inspect2">>, <<"inspect2", "add1">>}
        PROVE GatewayInv'
    BY <1>1 DEF Inspect, nics, GatewayTypeOK, Prepared, Away, Done, Restored
  <1>2. ASSUME NEW name \in Sides, NEW here, NEW next, AddSpace(name, here, next),
               <<name, here, next>> \in {<<1, "add1", "add2">>, <<2, "add2", "record1">>}
        PROVE GatewayInv'
    BY <1>2 DEF AddSpace, SaveLists, Save, nics, GatewayTypeOK, Prepared, Away, Done, Restored
  <1>3. ASSUME NEW side \in Sides, NEW here, NEW next, RecordNic(side, here, next),
               <<side, here, next>> \in {<<1, "record1", "move1">>, <<2, "record2", "move2">>}
        PROVE GatewayInv'
    BY <1>3 DEF RecordNic, Record, SaveLists, Save, nics, GatewayTypeOK, Prepared, Away, Done, Restored
  <1>4. ASSUME NEW side \in Sides, NEW here, NEW next, MoveNic(side, here, next),
               <<side, here, next>> \in {<<1, "move1", "record2">>, <<2, "move2", "configure">>}
        PROVE GatewayInv'
    BY <1>4 DEF MoveNic, Put, nics, lists, GatewayTypeOK, Prepared, Away, Done, Restored
  <1>5. CASE ConfigureGateway
    BY <1>5 DEF ConfigureGateway, Save, lists, GatewayTypeOK, Prepared, Away, Done, Restored
  <1>6. CASE StopServing
    BY <1>6 DEF StopServing, nics, lists, GatewayTypeOK, Prepared, Away, Done, Restored
  <1>7. ASSUME NEW side \in Sides, NEW here, NEW next, ReturnNic(side, here, next),
               <<side, here, next>> \in {<<2, "return2", "return1">>, <<1, "return1", "delete2">>}
        PROVE GatewayInv'
    <2>1. CASE side \notin moved
      BY <1>7, <2>1 DEF ReturnNic, nics, GatewayTypeOK, Prepared, Away, Done, Restored
    <2>2. CASE side \in moved /\ NeverLeft(side)
      BY <1>7, <2>2 DEF ReturnNic, NeverLeft, SaveLists, Save, nics, GatewayTypeOK, Prepared, Away, Done, Restored
    <2>3. CASE side \in moved /\ Back(side)
      BY <1>7, <2>3 DEF ReturnNic, Back, SaveLists, Save, GatewayTypeOK, Prepared, Away, Done, Restored
    <2>4. CASE side \in moved /\ Stuck(side)
      BY <1>7, <2>4 DEF ReturnNic, Stuck, Put, SaveLists, Save, nics, GatewayTypeOK, Prepared, Away, Done, Restored
    <2> QED
      BY <1>7, <2>1, <2>2, <2>3, <2>4 DEF ReturnNic
  <1>8. ASSUME NEW name \in Sides, NEW here, NEW next, DeleteSpace(name, here, next),
               <<here, next>> \in {<<"delete2", "delete1">>, <<"delete1", "check">>}
        PROVE GatewayInv'
    BY <1>8 DEF DeleteSpace, nics, GatewayTypeOK, Prepared, Away, Done, Restored
  <1>9. CASE CheckResult
    BY <1>9 DEF CheckResult, Save, nics, GatewayTypeOK, Prepared, Away, Done, Restored
  <1>10. CASE GatewayKilled
    BY <1>10 DEF GatewayKilled, nics, lists, GatewayTypeOK, Prepared, Away, Done, Restored
  <1>11. CASE NicGoesDown
    BY <1>11 DEF NicGoesDown, lists, GatewayTypeOK, Prepared, Away, Done, Restored
  <1>12. CASE UNCHANGED gatewayVars
    BY <1>12 DEF gatewayVars, GatewayTypeOK, Prepared, Away, Done, Restored
  <1> QED
    BY <1>1, <1>2, <1>3, <1>4, <1>5, <1>6, <1>7, <1>8, <1>9, <1>10, <1>11, <1>12 DEF GatewayNext

\* A NIC that is away is on the list on disk, and "cleaned up" is true.
THEOREM NoNicIsLost == GatewaySpec => []NicsComeHome
  <1>1. GatewayInv => NicsComeHome
    BY DEF GatewayInv, Away, Done, Restored, NicsComeHome
  <1> QED
    BY <1>1, GatewayInitHolds, GatewayStepHolds, PTL DEF GatewaySpec

HIDE DEF Sides, Home

(***************************************************************************)
(* Time synchronisation.  What makes AnswersHold inductive: a helper that  *)
(* has passed the lock still holds it, so what it has done and what it has *)
(* found still stands.                                                     *)
(***************************************************************************)
Working == {"look", "write", "enable", "restart", "check", "undo", "undoDaemon"}

\* What has been done, and what the helper knows, by where it is.
Stands(h) ==
  LET it == helper[h]
  IN /\ it.at \in Working => lockHolder = h
     /\ it.at \in Working \ {"look"} /\ it.was => ntp
     /\ it.at \in {"enable", "restart", "check"} /\ it.wants # Keep => dropin = it.wants
     /\ it.at \in {"restart", "check"} => ntp
     /\ it.at = "undoDaemon" /\ it.wants # Keep => dropin = it.old

Places == Working \cup {"ask", "answered", "gone"}
Said == {None, "busy", "refused", "ok", "service-error", "restored", "unrestored"}
HelperType ==
  [at : Places, wants : ServerLists \cup {Keep}, old : ServerLists \cup {None},
   was : BOOLEAN, answer : Said]
TimeInv ==
  /\ ntp \in BOOLEAN /\ dropin \in ServerLists \cup {None}
  /\ helper \in [Helpers -> HelperType]
  /\ \A h \in Helpers : Stands(h)

\* At the start nobody works.
LEMMA TimeInitHolds == TimeInit => TimeInv
  BY DEF TimeInit, TimeInv, Stands, Working, Places, Said, HelperType, None, Keep

\* Whatever the holder of the lock changes, nobody else relied on.
LEMMA OthersStand ==
  ASSUME TimeInv, NEW h \in Helpers, lockHolder = h,
         NEW o \in Helpers, o # h, helper'[o] = helper[o]
  PROVE  Stands(o)'
  BY DEF TimeInv, Stands, Working

\* What a step of a helper leaves of the others' records, and of the lock.
HelperActs(h) ==
  \/ Lock(h) \/ Look(h) \/ Write(h) \/ Enable(h) \/ Restart(h) \/ Check(h)
  \/ UndoFile(h) \/ UndoDaemon(h) \/ HelperKilled(h)

LEMMA OnlyHolderActs ==
  ASSUME TimeInv, NEW h \in Helpers, HelperActs(h)
  PROVE  /\ helper' \in [Helpers -> HelperType]
         /\ \A o \in Helpers \ {h} : helper'[o] = helper[o]
         /\ ntp' \in BOOLEAN /\ dropin' \in ServerLists \cup {None}
  <1> USE DEF TimeInv, HelperType, Places, Said, Working, Goes, Answers, None, Keep
  <1>1. CASE Lock(h)
    BY <1>1 DEF Lock, system
  <1>2. CASE Look(h)
    BY <1>2 DEF Look, system
  <1>3. CASE Write(h)
    BY <1>3 DEF Write
  <1>4. CASE Enable(h)
    <2>1. ntp' \in BOOLEAN
      BY <1>4 DEF Enable, SetNtp
    <2>2. \E at \in Places : helper' = [helper EXCEPT ![h].at = at]
      BY <1>4 DEF Enable
    <2> QED
      BY <1>4, <2>1, <2>2 DEF Enable
  <1>5. CASE Restart(h)
    BY <1>5 DEF Restart
  <1>6. CASE Check(h)
    BY <1>6 DEF Check, ReadBack, Shown, system
  <1>7. CASE UndoFile(h)
    BY <1>7 DEF UndoFile, OldFile
  <1>8. CASE UndoDaemon(h)
    <2>1. ntp' \in BOOLEAN
      BY <1>8 DEF UndoDaemon, Undone
    <2>2. \E said \in Said : helper' = [helper EXCEPT ![h].at = "answered", ![h].answer = said]
      BY <1>8 DEF UndoDaemon
    <2> QED
      BY <1>8, <2>1, <2>2 DEF UndoDaemon
  <1>9. CASE HelperKilled(h)
    BY <1>9 DEF HelperKilled, system
  <1> QED
    BY <1>1, <1>2, <1>3, <1>4, <1>5, <1>6, <1>7, <1>8, <1>9 DEF HelperActs

\* What a step makes of the helper itself.
LEMMA HolderStands ==
  ASSUME TimeInv, NEW h \in Helpers, HelperActs(h)
  PROVE  /\ Stands(h)'
         /\ helper[h].at # "answered" /\ helper'[h].at = "answered" => AnswerHolds(h)
  <1> USE DEF TimeInv, HelperType, Places, Said, Working, Goes, Answers, Stays, Stands, AnswerHolds, None, Keep
  <1>1. CASE Lock(h)
    BY <1>1 DEF Lock, system
  <1>2. CASE Look(h)
    BY <1>2 DEF Look, system
  <1>3. CASE Write(h)
    BY <1>3 DEF Write
  <1>4. CASE Enable(h)
    BY <1>4 DEF Enable, SetNtp
  <1>5. CASE Restart(h)
    BY <1>5 DEF Restart
  <1>6. CASE Check(h)
    BY <1>6 DEF Check, ReadBack, Shown, system
  <1>7. CASE UndoFile(h)
    BY <1>7 DEF UndoFile, OldFile
  <1>8. CASE UndoDaemon(h)
    <2>1. CASE Answers(h, "restored") /\ Undone(h)
      <3>1. helper[h].was \in BOOLEAN /\ ntp \in BOOLEAN /\ (helper[h].was => ntp)
        BY <1>8 DEF UndoDaemon
      <3>2. ntp' = helper[h].was
        BY <2>1, <3>1, Zenon DEF Undone
      <3>3. dropin' = dropin /\ (helper[h].wants # Keep => dropin = helper[h].old)
        BY <1>8 DEF UndoDaemon
      <3>4. daemon' \in {Off, Source(dropin')}
        BY <1>8, <2>1 DEF UndoDaemon, Undone, Source
      <3>5. helper'[h] = [helper[h] EXCEPT !.at = "answered", !.answer = "restored"]
        BY <2>1
      <3> QED
        BY <3>2, <3>3, <3>4, <3>5
    <2>2. CASE Answers(h, "unrestored")
      BY <1>8, <2>2 DEF UndoDaemon
    <2> QED
      BY <1>8, <2>1, <2>2 DEF UndoDaemon
  <1>9. CASE HelperKilled(h)
    BY <1>9 DEF HelperKilled, system
  <1> QED
    BY <1>1, <1>2, <1>3, <1>4, <1>5, <1>6, <1>7, <1>8, <1>9 DEF HelperActs

\* A helper that works and another that acts: the other one was refused.
LEMMA OthersStill ==
  ASSUME TimeInv, NEW h \in Helpers, HelperActs(h), NEW o \in Helpers \ {h}
  PROVE  Stands(o)'
  <1>1. CASE lockHolder = h
    BY <1>1, OnlyHolderActs, OthersStand
  <1>2. CASE lockHolder # h
    <2>1. Lock(h)
      <3>1. helper[h].at \notin Working
        BY <1>2 DEF TimeInv, Stands
      <3> QED
        BY <3>1 DEF HelperActs, TimeInv, HelperType, Places, Working, Look, Write, Enable, Restart, Check,
                    UndoFile, UndoDaemon, HelperKilled
    <2>2. helper'[o] = helper[o]
      BY OnlyHolderActs
    <2> QED
      BY <1>2, <2>1, <2>2, TimeAssumption DEF Lock, Answers, system, TimeInv, Stands, Working
  <1> QED
    BY <1>1, <1>2

\* A step of a helper keeps the invariant, and the answer it may give holds.
LEMMA HelperStep ==
  ASSUME TimeInv, NEW h \in Helpers, HelperActs(h)
  PROVE  /\ TimeInv'
         /\ \A o \in Helpers : helper[o].at # "answered" /\ helper'[o].at = "answered" => AnswerHolds(o)
  BY OnlyHolderActs, HolderStands, OthersStill DEF TimeInv

\* Every step keeps it.
LEMMA TimeStepHolds ==
  ASSUME TimeInv, [TimeNext]_timeVars
  PROVE  /\ TimeInv'
         /\ \A o \in Helpers : helper[o].at # "answered" /\ helper'[o].at = "answered" => AnswerHolds(o)
  <1>1. CASE DaemonStops
    BY <1>1 DEF DaemonStops, TimeInv, Stands
  <1>2. CASE UNCHANGED timeVars
    BY <1>2 DEF timeVars, TimeInv, Stands
  <1> QED
    BY <1>1, <1>2, HelperStep DEF TimeNext, HelperActs

\* "ok" and "restored" are true when they are said.
THEOREM AnswersAreTrue == TimeSpec => AnswersHold
  <1>1. TimeInv /\ [TimeNext]_timeVars => TimeInv'
    BY TimeStepHolds
  <1>2. TimeInv /\ [TimeNext]_timeVars =>
          [\A h \in Helpers : helper[h].at # "answered" /\ helper'[h].at = "answered" => AnswerHolds(h)]_timeVars
    BY TimeStepHolds
  <1> QED
    BY <1>1, <1>2, TimeInitHolds, PTL DEF TimeSpec, AnswersHold

(***************************************************************************)
(* The ECN laboratory.  A report says "passed" at its end only, after      *)
(* three stages each of which behaved: a probe that was lost stops the     *)
(* stage before it is judged, so what the captures do not show was kept by *)
(* the queue.                                                              *)
(***************************************************************************)
Records == [case : Cases, fate : Fates, ingress : BOOLEAN, egress : BOOLEAN]
Reports == [passed : BOOLEAN, cleaned : BOOLEAN]
AtWork == {"create", "ingress", "egress", "send", "verify", "judge"}

LabTypes ==
  /\ stage \in Stages /\ probes \in Seq(Records)
  /\ red \in [marked : BOOLEAN, early : BOOLEAN, held : BOOLEAN]
  /\ verdicts \in Seq(BOOLEAN) /\ truth \in BOOLEAN
  /\ labReport \in Reports /\ labDisk \in Reports
  /\ labAt \in AtWork \cup {"finally", "cleanup", "end"}

\* What is captured and counted is what happened.
CapturesHold ==
  /\ labAt \in {"send", "verify"} =>
       (\A i \in DOMAIN probes : probes[i].fate = "held" /\ probes[i].case # "bypass" => red.held)
  /\ labAt = "verify" => \A i \in DOMAIN probes : ~Lost(probes[i])
  /\ labAt \notin {"send", "verify"} /\ labAt \in AtWork => probes = <<>>

\* A verdict for every stage, and a true one.
VerdictsHold ==
  /\ labAt \in AtWork \ {"judge"} => Len(verdicts) = stage
  /\ labAt = "judge" => Len(verdicts) = 3
  /\ labAt \in AtWork => ((\A i \in DOMAIN verdicts : verdicts[i]) => truth)

\* Nothing is said before the end, and what is said is earned.
ReportHolds ==
  /\ labAt \in AtWork => kernel \subseteq owned /\ ~labReport.passed /\ ~labReport.cleaned
  /\ labAt \in {"verify", "judge"} => capturing = {}
  /\ labReport.passed => truth /\ Len(verdicts) = 3 /\ kernel \subseteq owned /\ capturing = {}
  /\ labAt # "end" => ~labDisk.passed /\ ~labDisk.cleaned
  /\ EvidenceIsReal

LabInv == LabTypes /\ CapturesHold /\ VerdictsHold /\ ReportHolds

\* A stage that is judged well behaved well.
LEMMA VerdictIsTrue ==
  ASSUME LabTypes, CapturesHold, labAt = "verify", CapturesAgree, QueueAgrees,
         \A c \in Cases : CasePasses(c)
  PROVE  Behaved
  <1>1. /\ \A i \in DOMAIN probes : probes[i] \in Records
        /\ \A i \in DOMAIN probes : probes[i].ingress
        /\ \A i \in DOMAIN probes :
             probes[i].egress => probes[i].fate = "same" \/ (probes[i].fate = "marked" /\ probes[i].case = "ect")
        /\ \A i \in DOMAIN probes : ~Lost(probes[i])
        /\ \A i \in DOMAIN probes : probes[i].fate = "held" => probes[i].case = "bypass"
    BY DEF LabTypes, CapturesHold, CapturesAgree, QueueAgrees
  <1>2. \A c : Keys(c) = Fated(c, Fates) /\ Received(c) \subseteq Keys(c)
    BY <1>1 DEF Keys, Received, Fated, Records
  <1>3. \A i \in DOMAIN probes :
          /\ probes[i].egress <=> probes[i].fate \in {"same", "marked"}
          /\ probes[i].fate # "altered"
          /\ probes[i].fate = "marked" => probes[i].case = "ect"
    BY <1>1 DEF Lost, Passes, Records, Fates
  <1>4. \A c \in Cases : \A i \in Keys(c) : i \in DOMAIN probes /\ probes[i].case = c
    BY DEF Keys
  <1>5. \A c \in Cases : \A S : S \subseteq Received(c) /\ Marked(S) = {} => S \subseteq Fated(c, {"same"})
    BY <1>3 DEF Received, Keys, Marked, Fated
  <1>6. ASSUME NEW c \in Cases, Keys(c) \subseteq Fated(c, {"same"})
        PROVE  Fated(c, Fates \ {"same"}) = {}
    BY <1>2, <1>6 DEF Fated
  <1>7. ASSUME NEW c \in Cases, stage = 0 \/ c = "bypass"
        PROVE  Keys(c) \subseteq Fated(c, {"same"}) /\ Keys(c) # {}
    <2>1. Received(c) = Keys(c) /\ Marked(Received(c)) = {} /\ Keys(c) # {}
      BY <1>7 DEF CasePasses
    <2> QED
      BY <1>5, <2>1
  <1>8. Fated("bypass", Fates \ {"same"}) = {}
    BY <1>6, <1>7 DEF Cases
  <1>9. stage = 0 => Fated("ect", {"same"}) # {} /\ Fated("ect", Fates \ {"same"}) = {}
    BY <1>6, <1>7 DEF Cases, DataCases
  <1>10. stage = 1 => Fated("ect", {"marked"}) # {} /\ Fated("not_ect", {"dropped"}) # {}
    <2> SUFFICES ASSUME stage = 1 PROVE Fated("ect", {"marked"}) # {} /\ Fated("not_ect", {"dropped"}) # {}
      OBVIOUS
    <2>1. Marked(Received("ect")) # {} /\ Received("not_ect") # Keys("not_ect")
      BY DEF CasePasses, Cases, DataCases
    <2>2. Fated("ect", {"marked"}) # {}
      BY <2>1 DEF Marked, Received, Keys, Fated
    <2>3. PICK i \in Keys("not_ect") : i \notin Received("not_ect")
      BY <1>2, <2>1
    <2>4. i \in DOMAIN probes /\ probes[i].case = "not_ect" /\ ~probes[i].egress
      BY <2>3 DEF Received, Keys
    <2>5. probes[i].fate = "dropped"
      BY <1>1, <1>3, <2>4 DEF Records, Fates
    <2> QED
      BY <2>2, <2>4, <2>5 DEF Fated
  <1>11. stage = 2 => \A c \in DataCases : Window(Fated(c, Fates)) \subseteq Fated(c, {"same"})
    <2> SUFFICES ASSUME stage = 2, NEW c \in DataCases
                 PROVE  Window(Fated(c, Fates)) \subseteq Fated(c, {"same"})
      OBVIOUS
    <2>1. Window(Keys(c)) \subseteq Received(c) /\ Marked(Window(Keys(c))) = {}
      BY DEF CasePasses, Cases, DataCases
    <2> QED
      BY <1>2, <1>5, <2>1 DEF Cases
  <1> QED
    BY <1>3, <1>8, <1>9, <1>10, <1>11 DEF Behaved

\* A probe of one of the cases, counted when the queue keeps it.
LEMMA ProbeHolds == ASSUME LabInv, SendProbe PROVE LabInv'
  <1> USE DEF LabInv, AtWork
  <1>1. PICK fate \in Fates, in \in BOOLEAN, out \in BOOLEAN :
          /\ probes' = Append(probes, [case |-> NextCase, fate |-> fate, ingress |-> in,
                                       egress |-> out /\ Passes(fate)])
          /\ red' = IF NextCase = "bypass" THEN red
                    ELSE [ marked |-> red.marked \/ fate = "marked",
                           early |-> red.early \/ fate = "dropped",
                           held |-> red.held \/ fate = "held" ]
    BY DEF SendProbe
  <1>2. labAt = "send" /\ UNCHANGED <<kernel, owned, capturing, workers, labAt, stage, verdicts,
                                      labReport, labDisk, truth>>
    BY DEF SendProbe
  <1>3. NextCase \in Cases
    <2>1. Len(probes) \in Nat
      BY DEF LabTypes
    <2>2. \A x \in Nat : x % 4 \in 0..3 /\ x \div 4 \in Nat
      OBVIOUS
    <2>3. (Len(probes) + Len(probes) \div 4) % 4 \in 0..3
      BY <2>1, <2>2
    <2>4. ((Len(probes) + Len(probes) \div 4) % 4) + 1 \in 1..4
      BY <2>3
    <2>5. \A i \in 1..4 : CaseOrder[i] \in Cases
      BY DEF CaseOrder, Cases, DataCases
    <2>6. Len(CaseOrder) = 4
      BY DEF CaseOrder
    <2> QED
      BY <2>4, <2>5, <2>6 DEF NextCase
  <1> DEFINE exits == out /\ Passes(fate)
             probe == [case |-> NextCase, fate |-> fate, ingress |-> in, egress |-> exits]
  <1>4. probes' = Append(probes, probe)
    BY <1>1
  <1>5. exits \in BOOLEAN
    OBVIOUS
  <1> HIDE DEF exits
  <1>6. probe \in Records /\ probe.fate = fate /\ probe.case = NextCase
    BY <1>3, <1>5 DEF Records
  <1> HIDE DEF probe
  <1>7. /\ red' \in [marked : BOOLEAN, early : BOOLEAN, held : BOOLEAN]
        /\ red.held => red'.held
        /\ fate = "held" /\ NextCase # "bypass" => red'.held
    <2>1. CASE NextCase = "bypass"
      BY <1>1, <2>1 DEF LabTypes
    <2>2. CASE NextCase # "bypass"
      <3> DEFINE m == red.marked \/ fate = "marked"
                 e == red.early \/ fate = "dropped"
                 k == red.held \/ fate = "held"
      <3>1. red' = [marked |-> m, early |-> e, held |-> k]
        BY <1>1, <2>2
      <3>2. m \in BOOLEAN /\ e \in BOOLEAN /\ k \in BOOLEAN /\ (red.held \/ fate = "held" => k)
        OBVIOUS
      <3> HIDE DEF m, e, k
      <3>3. red' \in [marked : BOOLEAN, early : BOOLEAN, held : BOOLEAN] /\ red'.held = k
        BY <3>1, <3>2
      <3> QED
        BY <3>2, <3>3
    <2> QED
      BY <2>1, <2>2
  <1>8. /\ probes' \in Seq(Records) /\ Len(probes') = Len(probes) + 1 /\ Len(probes) \in Nat
        /\ \A i \in DOMAIN probes' : (i \in DOMAIN probes /\ probes'[i] = probes[i]) \/ probes'[i] = probe
    BY <1>4, <1>6 DEF LabTypes
  <1>9. LabTypes'
    BY <1>2, <1>7, <1>8 DEF LabTypes
  <1>10. CapturesHold'
    BY <1>2, <1>6, <1>7, <1>8 DEF CapturesHold
  <1> QED
    BY <1>2, <1>9, <1>10 DEF VerdictsHold, ReportHolds, EvidenceIsReal

\* A stage is judged, and the next one starts with nothing captured.
LEMMA VerifyHolds == ASSUME LabInv, VerifyStage PROVE LabInv'
  <1> USE DEF LabInv, AtWork
  <1> DEFINE verdict == CapturesAgree /\ (\A c \in Cases : CasePasses(c)) /\ QueueAgrees
  <1>1. /\ labAt = "verify" /\ verdicts' = Append(verdicts, verdict)
        /\ probes' = <<>> /\ red' = [red EXCEPT !.held = FALSE]
        /\ UNCHANGED <<kernel, owned, capturing, labReport>> /\ labDisk' = labReport
        /\ \/ stage = 2 /\ labAt' = "judge" /\ UNCHANGED stage
           \/ stage # 2 /\ labAt' = "ingress" /\ stage' = stage + 1
    BY DEF VerifyStage, Checkpoint
  <1>2. truth' = (truth /\ Behaved)
    BY DEF VerifyStage
  <1>3. verdict => Behaved
    BY <1>1, VerdictIsTrue
  <1>4. verdict \in BOOLEAN /\ truth' \in BOOLEAN
    BY <1>2
  <1> HIDE DEF verdict
  <1>5. /\ verdicts' \in Seq(BOOLEAN) /\ Len(verdicts') = Len(verdicts) + 1 /\ Len(verdicts) \in Nat
        /\ verdicts'[Len(verdicts) + 1] = verdict
        /\ \A i \in DOMAIN verdicts : i \in DOMAIN verdicts' /\ verdicts'[i] = verdicts[i]
        /\ Len(verdicts) + 1 \in DOMAIN verdicts'
    BY <1>1, <1>4 DEF LabTypes
  <1>6. (\A i \in DOMAIN verdicts' : verdicts'[i]) => truth'
    BY <1>1, <1>2, <1>3, <1>5 DEF VerdictsHold
  <1>7. stage' \in Stages /\ Len(verdicts') = IF labAt' = "judge" THEN 3 ELSE stage'
    BY <1>1, <1>5 DEF LabTypes, VerdictsHold, Stages
  <1>8. red' \in [marked : BOOLEAN, early : BOOLEAN, held : BOOLEAN]
    BY <1>1 DEF LabTypes
  <1>9. LabTypes'
    BY <1>1, <1>4, <1>5, <1>7, <1>8, EmptySeq DEF LabTypes
  <1>10. VerdictsHold'
    BY <1>1, <1>6, <1>7 DEF VerdictsHold
  <1>11. CapturesHold'
    BY <1>1 DEF CapturesHold
  <1>12. ReportHolds'
    BY <1>1 DEF ReportHolds, EvidenceIsReal
  <1> QED
    BY <1>9, <1>10, <1>11, <1>12

\* At the start nothing is said.
LEMMA LabInitHolds == LabInit => LabInv
  <1> SUFFICES ASSUME LabInit PROVE LabInv
    OBVIOUS
  <1>1. /\ <<>> \in Seq(Records) /\ <<>> \in Seq(BOOLEAN) /\ Len(<<>>) = 0
    BY EmptySeq
  <1>2. labReport = [passed |-> FALSE, cleaned |-> FALSE] /\ labDisk = labReport
    BY DEF LabInit
  <1>3. labReport \in Reports /\ ~labReport.passed /\ ~labReport.cleaned
    BY <1>2 DEF Reports
  <1>4. labDisk \in Reports /\ ~labDisk.passed /\ ~labDisk.cleaned
    BY <1>2 DEF Reports
  <1> QED
    BY <1>1, <1>3, <1>4
       DEF LabInit, LabInv, LabTypes, CapturesHold, VerdictsHold, ReportHolds, EvidenceIsReal, AtWork, Stages

\* A step of the script or its captures keeps it.
LEMMA LabStepHolds == LabInv /\ [LabNext]_labVars => LabInv'
  <1> SUFFICES ASSUME LabInv, [LabNext]_labVars PROVE LabInv'
    OBVIOUS
  <1> USE DEF LabInv, evidence, AtWork
  <1>1. CASE CreateNamespace
    <2>1. /\ kernel' \subseteq owned' \/ labAt' = "finally"
          /\ UNCHANGED <<capturing, workers, stage, probes, red, verdicts, truth, labReport>>
          /\ labDisk' = labReport /\ labAt = "create" /\ labAt' \in {"create", "finally"}
      BY <1>1 DEF CreateNamespace, Checkpoint, Raises, ReportHolds
    <2> QED
      BY <2>1 DEF LabTypes, CapturesHold, VerdictsHold, ReportHolds, EvidenceIsReal
  <1>2. CASE Configure
    BY <1>2 DEF Configure, Raises, LabTypes, CapturesHold, VerdictsHold, ReportHolds, EvidenceIsReal
  <1>3. CASE StartCapture("ingress", "egress") \/ StartCapture("egress", "send")
    BY <1>3 DEF StartCapture, Raises, LabTypes, CapturesHold, VerdictsHold, ReportHolds, EvidenceIsReal
  <1>4. CASE SendProbe
    BY <1>4, ProbeHolds
  <1>5. CASE SendFails
    BY <1>5 DEF SendFails, Raises, LabTypes, CapturesHold, VerdictsHold, ReportHolds, EvidenceIsReal
  <1>6. CASE StopCaptures
    BY <1>6 DEF StopCaptures, LabTypes, CapturesHold, VerdictsHold, ReportHolds, EvidenceIsReal
  <1>7. CASE VerifyStage
    BY <1>7, VerifyHolds
  <1>8. CASE Judge
    <2>1. labReport' = [labReport EXCEPT !.passed = \A i \in DOMAIN verdicts : verdicts[i]]
      BY <1>8 DEF Judge
    <2>2. /\ labAt = "judge" /\ labAt' = "finally"
          /\ UNCHANGED <<kernel, owned, capturing, workers, stage, probes, red, verdicts, truth, labDisk>>
      BY <1>8 DEF Judge
    <2>3. (\A i \in DOMAIN verdicts : verdicts[i]) \in BOOLEAN
      OBVIOUS
    <2>4. labReport' \in Reports
      BY <2>1, <2>3 DEF LabTypes, Reports
    <2>5. labReport'.passed => \A i \in DOMAIN verdicts : verdicts[i]
      BY <2>1 DEF LabTypes, Reports
    <2> QED
      BY <2>2, <2>4, <2>5 DEF LabTypes, CapturesHold, VerdictsHold, ReportHolds, EvidenceIsReal
  <1>9. CASE Interrupted \/ Killed \/ IgnoreSignals
    BY <1>9 DEF Interrupted, Killed, IgnoreSignals, LabTypes, CapturesHold, VerdictsHold, ReportHolds, EvidenceIsReal
  <1>10. CASE Cleanup
    <2>1. PICK failed \in SUBSET owned :
            /\ \E gone \in SUBSET failed : kernel' = kernel \ ((owned \ failed) \cup gone)
            /\ labReport' = [passed |-> labReport.passed /\ failed = {}, cleaned |-> failed = {}]
      BY <1>10 DEF Cleanup
    <2>2. /\ labAt = "cleanup" /\ labAt' = "end" /\ labDisk' = labReport'
          /\ UNCHANGED <<owned, workers, stage, probes, red, verdicts, truth>>
          /\ capturing' = capturing \ workers
      BY <1>10 DEF Cleanup
    <2> DEFINE clean == failed = {}
               passes == labReport.passed /\ clean
    <2>3. labReport' = [passed |-> passes, cleaned |-> clean] /\ passes \in BOOLEAN /\ clean \in BOOLEAN
      BY <2>1
    <2>4. /\ passes => clean /\ truth /\ Len(verdicts) = 3 /\ kernel \subseteq owned /\ capturing = {}
          /\ clean => kernel' \cap owned = {}
      BY <2>1 DEF ReportHolds
    <2> HIDE DEF passes, clean
    <2>5. labReport' \in Reports /\ labReport'.passed = passes /\ labReport'.cleaned = clean
      BY <2>3 DEF Reports
    <2>6. kernel' \subseteq kernel
      BY <2>1
    <2>7. /\ labReport'.passed => truth /\ Len(verdicts) = 3 /\ kernel' = {} /\ capturing' = {}
          /\ labReport'.cleaned => kernel' \cap owned = {}
      BY <2>2, <2>4, <2>5, <2>6
    <2> QED
      BY <2>2, <2>5, <2>7 DEF LabTypes, CapturesHold, VerdictsHold, ReportHolds, EvidenceIsReal
  <1>11. CASE WorkerExpires
    BY <1>11 DEF WorkerExpires, LabTypes, CapturesHold, VerdictsHold, ReportHolds, EvidenceIsReal
  <1>12. CASE UNCHANGED labVars
    BY <1>12 DEF labVars, LabTypes, CapturesHold, VerdictsHold, ReportHolds, EvidenceIsReal, Lost, Passes
  <1> QED
    BY <1>1, <1>2, <1>3, <1>4, <1>5, <1>6, <1>7, <1>8, <1>9, <1>10, <1>11, <1>12 DEF LabNext

\* A report that says "passed" is earned, whatever was lost or interrupted
\* (EvidenceIsReal).
THEOREM PassedIsEarned == LabSpec => []EvidenceIsReal
  <1>1. LabInv => EvidenceIsReal
    BY DEF LabInv, ReportHolds
  <1> QED
    BY <1>1, LabInitHolds, LabStepHolds, PTL DEF LabSpec

(***************************************************************************)
(* The startup files.  The guard compares digests, so as long as every     *)
(* manifest that is or will be written is of one configuration (Honest),   *)
(* what it lets start is (FilesHold).  Until the control is native, the    *)
(* files fit or a copy taken by the script that was cut off brings them    *)
(* back, since a script writes only what it has copied (BeforeControl);    *)
(* under control the checkpoint of a deployment does (UnderControl).  A    *)
(* script can start only on files that fit, because the digests match at   *)
(* no other time.                                                          *)
(***************************************************************************)
Fields == {"active", "platform", "sdk", "manifest", "env", "tx_counter", "rollback",
           "runtime", "package", "absent"}
Baselines == {"observe", "basic100g"}
Sdks == [config : Baselines, edition : {0, 1, 2}]
Manifests == [mode : Baselines \cup {"control"}, baseline : Baselines, seed : {1, 2},
              sha256 : [active : Baselines, platform : Baselines, sdk : Sdks]]
Scripts == {"none", "stage_basic100g", "stage_native_control", "refresh_boot", "stage_restore",
            "deploy_roce", "deploy_restore"}

\* A manifest of one configuration.
Honest(m) ==
  /\ m \in Manifests
  /\ m.sha256.active = m.baseline /\ m.sha256.platform = m.baseline
  /\ m.sha256.sdk.config = m.baseline
  /\ m.mode \in {"control", m.baseline}

FilesHold ==
  /\ DOMAIN files = Fields
  /\ files.active \in Baselines /\ files.sdk \in Sdks /\ files.tx_counter \in Nat
  /\ Honest(files.manifest)

\* With files f the board starts, and runs one release; a copy that makes them so.
Safe(f) == MayStart(f) /\ f.runtime = f.package /\ Honest(f.manifest)
Mends(c) == c \in backups /\ DOMAIN c \subseteq Fields /\ Safe(Over(c, files))
MendedBy(names) == \E c \in backups : Mends(c) /\ DOMAIN c = names

BeforeControl ==
  /\ files.absent = {} /\ files.runtime = "old" /\ files.package = "old"
  /\ script \notin {"deploy_roce", "deploy_restore"} /\ report = "none"
  /\ DigestsMatch(files) => SeedStands(files) /\ files.env = files.manifest.baseline
  /\ Safe(files) \/ \E c \in backups : Mends(c)

UnderControl ==
  /\ files.manifest.mode = "control"
  /\ script \in {"none", "stage_native_control", "deploy_roce", "deploy_restore"}
  /\ script = "stage_native_control" => todo = <<>>
  /\ (script \in {"none", "stage_native_control"} /\ Safe(files)) \/ MendedBy(Fields \ {"env"})

(***************************************************************************)
(* What each script has still to write, and what it has written.           *)
(***************************************************************************)
\* The last n writes of stage_basic100g.
BasicRest(n) ==
  LET m == "basic100g"
      w1 == [manifest |-> Manifest(m, m, 2, Digests(m, m, Sdk(m, 0)))]
      w2 == [tx_counter |-> 2]
      w3 == [env |-> m]
      w4 == [sdk |-> Sdk(m, 0)]
      w5 == [platform |-> m]
      w6 == [active |-> m]
      w7 == [rollback |-> Over(Revision(2, m), files.rollback)]
  IN CASE n = 0 -> <<>>
       [] n = 1 -> <<w1>>
       [] n = 2 -> <<w2, w1>>
       [] n = 3 -> <<w3, w2, w1>>
       [] n = 4 -> <<w4, w3, w2, w1>>
       [] n = 5 -> <<w5, w4, w3, w2, w1>>
       [] n = 6 -> <<w6, w5, w4, w3, w2, w1>>
       [] n = 7 -> <<w7, w6, w5, w4, w3, w2, w1>>
BasicNames == {"active", "platform", "sdk", "manifest", "env", "tx_counter"}
StagingBasic ==
  \E n \in 0..7 :
    /\ todo = BasicRest(n) /\ files.env # "control"
    /\ n # 0 =>
         /\ files.manifest.sha256.active = "observe"
         /\ \E c \in backups : Mends(c) /\ DOMAIN c = BasicNames /\ c.tx_counter = 1
    /\ n < 7 => 2 \in DOMAIN files.rollback /\ files.rollback[2] = "basic100g"
    /\ n < 6 => files.active = "basic100g"
    /\ n < 3 => files.env = "basic100g"
    /\ files.tx_counter = IF n < 2 THEN 2 ELSE 1

StagingControl ==
  LET m == [manifest |-> [files.manifest EXCEPT !.mode = "control"]]
      e == [env |-> "control"]
  IN /\ todo \in {<<m, e>>, <<e>>, <<>>}
     /\ todo = <<>> => files.env = "control"
     /\ todo # <<>> =>
          /\ DigestsMatch(files) /\ files.active = files.manifest.baseline
          /\ files.env # "control" /\ MendedBy({"manifest", "env"})
     /\ todo = <<e>> => files.manifest.mode = "control"

StagingRestore ==
  LET m == [manifest |-> [files.manifest EXCEPT !.mode = files.manifest.baseline]]
      e == [env |-> files.manifest.baseline]
  IN /\ todo \in {<<m, e>>, <<e>>, <<>>} /\ files.env # "control"
     /\ DigestsMatch(files) /\ MendedBy({"manifest", "env"})

Refreshing ==
  LET s == [sdk |-> Sdk(files.active, 1)]
      m == [manifest |-> [files.manifest EXCEPT !.sha256.sdk = Sdk(files.active, 1)]]
  IN /\ todo \in {<<s, m>>, <<m>>, <<>>} /\ files.env = files.manifest.baseline
     /\ SeedStands(files) /\ files.active = files.manifest.baseline
     /\ MendedBy({"manifest", "sdk"})

Deploying ==
  LET s == [sdk |-> [files.sdk EXCEPT !.edition = 2]]
      m == [manifest |-> [files.manifest EXCEPT !.sha256.sdk = [files.sdk EXCEPT !.edition = 2]]]
      r1 == [runtime |-> "mixed"]
      r2 == [runtime |-> "new"]
      p1 == [package |-> "mixed"]
      p2 == [package |-> "new"]
      ready == files.runtime = "new" /\ files.sdk.edition = 2
  IN /\ files.env = "control" /\ files.sdk.config = files.manifest.baseline
     /\ \/ todo \in {<<r1, r2, s, m, p1, p2>>, <<r2, s, m, p1, p2>>}
        \/ todo \in {<<r1, r2, p1, p2>>, <<r2, p1, p2>>} /\ files.sdk.edition = 2
        \/ todo = <<s, m, p1, p2>> /\ files.runtime = "new"
        \/ todo \in {<<m, p1, p2>>, <<p1, p2>>, <<p2>>} /\ ready
        \/ todo = <<>> /\ ready /\ files.package = "new"

\* The last n writes of the restoration from c.
RestoreRest(c, n) ==
  LET w8 == [absent |-> {"native"}]
      w7 == [runtime |-> c.runtime, absent |-> {}]
      w6 == [absent |-> {"boot"}]
      w5 == [active |-> c.active, platform |-> c.platform, sdk |-> c.sdk, manifest |-> c.manifest, absent |-> {}]
      w4 == [absent |-> {"config"}]
      w3 == [tx_counter |-> c.tx_counter, rollback |-> c.rollback, absent |-> {}]
      w2 == [package |-> "mixed"]
      w1 == [package |-> c.package]
  IN CASE n = 0 -> <<>>
       [] n = 1 -> <<w1>>
       [] n = 2 -> <<w2, w1>>
       [] n = 3 -> <<w3, w2, w1>>
       [] n = 4 -> <<w4, w3, w2, w1>>
       [] n = 5 -> <<w5, w4, w3, w2, w1>>
       [] n = 6 -> <<w6, w5, w4, w3, w2, w1>>
       [] n = 7 -> <<w7, w6, w5, w4, w3, w2, w1>>
       [] n = 8 -> <<w8, w7, w6, w5, w4, w3, w2, w1>>
Restoring ==
  \E n \in 0..8 :
    /\ todo = RestoreRest(checkpoint, n) /\ files.env = "control"
    /\ n < 7 => files.runtime = checkpoint.runtime
    /\ n < 5 => files.sdk = checkpoint.sdk /\ files.manifest = checkpoint.manifest
    /\ n < 1 => files.package = checkpoint.package

CheckpointHolds ==
  /\ Honest(checkpoint.manifest) /\ checkpoint.manifest.mode = "control"
  /\ checkpoint.active \in Baselines /\ checkpoint.sdk \in Sdks /\ checkpoint.tx_counter \in Nat

ScriptHolds ==
  /\ script \in Scripts
  /\ script = "none" => todo = <<>>
  /\ script = "stage_basic100g" => StagingBasic
  /\ script = "stage_native_control" => StagingControl
  /\ script = "stage_restore" => StagingRestore
  /\ script = "refresh_boot" => Refreshing
  /\ script = "deploy_roce" => Deploying
  /\ script = "deploy_restore" => Restoring
  /\ script \in {"deploy_roce", "deploy_restore"} => CheckpointHolds

BoardReportHolds ==
  /\ report \in {"none", "installed", "restored"}
  /\ report # "none" => Idle /\ files.env = "control"
  /\ report = "installed" => files.runtime = "new" /\ files.package = "new" /\ files.sdk.edition = 2
  /\ report = "restored" =>
       MayStart(files) /\ \A name \in {"runtime", "package", "sdk", "manifest"} : files[name] = checkpoint[name]

SwitchHolds == switching \in BOOLEAN /\ (switching => Idle /\ MayStart(files))
ControlHolds == IF files.env = "control" THEN UnderControl ELSE BeforeControl

BootInv == FilesHold /\ SwitchHolds /\ ControlHolds /\ ScriptHolds /\ BoardReportHolds

(***************************************************************************)
(* Files written over others.                                              *)
(***************************************************************************)
\* What a file is with others written over it.
LEMMA Overs ==
  ASSUME NEW w, NEW f
  PROVE  /\ DOMAIN Over(w, f) = DOMAIN w \cup DOMAIN f
         /\ \A n \in DOMAIN w : Over(w, f)[n] = w[n]
         /\ \A n \in DOMAIN f : n \notin DOMAIN w => Over(w, f)[n] = f[n]
  BY DEF Over

\* What is written over does not show.
LEMMA Unseen ==
  ASSUME NEW c, NEW f, NEW g, DOMAIN f = DOMAIN g,
         \A n \in DOMAIN f : n \notin DOMAIN c => f[n] = g[n]
  PROVE  Over(c, f) = Over(c, g)
  BY DEF Over

\* Copies of safe files, put back at once, leave them safe.
LEMMA CopiesAreSafe ==
  ASSUME DOMAIN files = Fields, Safe(files),
         NEW c, DOMAIN c \subseteq Fields, \A n \in DOMAIN c : c[n] = files[n]
  PROVE  Safe(Over(c, files))
  <1>1. \A n \in Fields : Over(c, files)[n] = files[n]
    BY Overs
  <1> QED
    BY <1>1 DEF Safe, MayStart, DigestsMatch, ReplayStands, SeedStands, Fields

\* A write keeps every copy that covers it as good as it was.
LEMMA WritesAreCovered ==
  ASSUME DOMAIN files = Fields, NEW w, DOMAIN w \subseteq Fields,
         files' = Over(w, files), backups' = backups
  PROVE  /\ DOMAIN files' = Fields
         /\ \A n \in Fields : files'[n] = IF n \in DOMAIN w THEN w[n] ELSE files[n]
         /\ \A c : Mends(c) /\ DOMAIN w \subseteq DOMAIN c => Mends(c)'
         /\ \A names : MendedBy(names) /\ DOMAIN w \subseteq names => MendedBy(names)'
  <1>1. DOMAIN files' = Fields /\ \A n \in Fields : files'[n] = IF n \in DOMAIN w THEN w[n] ELSE files[n]
    BY DEF Over
  <1>2. ASSUME NEW c, Mends(c), DOMAIN w \subseteq DOMAIN c PROVE Mends(c)'
    <2>1. Over(c, files') = Over(c, files)
      BY <1>1, <1>2, Unseen
    <2> QED
      BY <1>2, <2>1 DEF Mends
  <1> QED
    BY <1>1, <1>2 DEF MendedBy

\* What the guard lets start, of files with an honest manifest, is one configuration.
LEMMA StartsAreWhole ==
  ASSUME NEW f, Honest(f.manifest), MayStart(f)
  PROVE  OneConfiguration(f)
  BY DEF Honest, MayStart, OneConfiguration, DigestsMatch, Digests, SeedStands

(***************************************************************************)
(* Steps that write no file.                                               *)
(***************************************************************************)
\* A step that writes no file, and at most ends the script, leaves them as they held.
LEMMA FilesStay ==
  ASSUME FilesHold, ControlHolds, files' = files, backups' = backups,
         (script' = script /\ todo' = todo) \/ script' = "none", BoardReportHolds, BoardReportHolds'
  PROVE  FilesHold' /\ ControlHolds'
  <1>1. FilesHold' /\ (Safe(files) => Safe(files)') /\ (DigestsMatch(files)' => DigestsMatch(files))
          /\ (SeedStands(files) => SeedStands(files)')
    BY DEF FilesHold, Safe, DigestsMatch, SeedStands
  <1>2. /\ \A c : Mends(c) => Mends(c)'
        /\ \A names : MendedBy(names) => MendedBy(names)'
    BY DEF Mends, MendedBy
  <1>3. CASE files.env = "control"
    BY <1>1, <1>2, <1>3 DEF ControlHolds, UnderControl
  <1>4. CASE files.env # "control"
    BY <1>1, <1>2, <1>4 DEF ControlHolds, BeforeControl, BoardReportHolds
  <1> QED
    BY <1>1, <1>3, <1>4

\* The observation that prepare left is safe.
LEMMA BootInitHolds == BootInit => BootInv
  <1> SUFFICES ASSUME BootInit PROVE BootInv
    OBVIOUS
  <1> USE DEF BootInit, Sdk, Digests, Manifest, Revision
  <1>1. FilesHold
    BY DEF FilesHold, Honest, Manifests, Sdks, Baselines, Fields
  <1>2. MayStart(files) /\ SeedStands(files)
    BY DEF MayStart, DigestsMatch, SeedStands
  <1>3. ControlHolds
    BY <1>1, <1>2 DEF ControlHolds, BeforeControl, Safe, FilesHold
  <1> QED
    BY <1>1, <1>3 DEF BootInv, SwitchHolds, ScriptHolds, Scripts, BoardReportHolds, Idle

\* The guard has looked at the files: they stay as they were.
LEMMA StartHolds == ASSUME BootInv, Start PROVE BootInv'
  BY FilesStay DEF BootInv, Start, SwitchHolds, ScriptHolds, BoardReportHolds, Idle, Scripts

\* A stop writes nothing.
LEMMA StopSwitchHolds == ASSUME BootInv, StopSwitch PROVE BootInv'
  BY FilesStay DEF BootInv, StopSwitch, SwitchHolds, ScriptHolds, BoardReportHolds, Idle, Scripts

\* A script is cut off, or has ended.
LEMMA PowerFailsHolds == ASSUME BootInv, PowerFails PROVE BootInv'
  BY FilesStay DEF BootInv, PowerFails, Ends, SwitchHolds, ScriptHolds, BoardReportHolds, Idle, Scripts

\* A staging script ends when it has nothing left to write.
LEMMA StagingEndsHolds == ASSUME BootInv, StagingEnds PROVE BootInv'
  BY FilesStay DEF BootInv, StagingEnds, SwitchHolds, ScriptHolds, BoardReportHolds, Idle, Scripts

\* A restoration that is cut off leaves the checkpoint to restore from.
LEMMA RestoreFailsHolds == ASSUME BootInv, RestoreFails PROVE BootInv'
  BY FilesStay DEF BootInv, RestoreFails, Ends, SwitchHolds, ScriptHolds, BoardReportHolds, Idle, Scripts

\* configd's commits leave what a deployment's checkpoint covers aside.
LEMMA CommitRevisionHolds == ASSUME BootInv, CommitRevision PROVE BootInv'
  <1> DEFINE covered == {"tx_counter", "rollback"}
  <1>1. /\ DOMAIN files' = Fields
        /\ \A n \in Fields : n \notin covered => files'[n] = files[n]
        /\ files.tx_counter \in Nat /\ files'.tx_counter = files.tx_counter + 1
        /\ files'.tx_counter \in DOMAIN files'.rollback
    <2> DEFINE next == files.tx_counter + 1
               r == Over(Revision(next, "user"), files.rollback)
    <2>1. next \in DOMAIN r
      BY DEF Over, Revision, r
    <2>2. files' = [files EXCEPT !.tx_counter = next, !.rollback = r]
      BY DEF CommitRevision
    <2>3. DOMAIN files = Fields /\ files.tx_counter \in Nat
      BY DEF BootInv, FilesHold
    <2> HIDE DEF next, r
    <2>4. /\ DOMAIN files' = Fields /\ files'.tx_counter = next /\ files'.rollback = r
          /\ \A n \in Fields : n \notin covered => files'[n] = files[n]
      BY <2>2, <2>3 DEF Fields
    <2> QED
      BY <2>1, <2>3, <2>4 DEF next
  <1>2. MayStart(files)' /\ (Safe(files) => Safe(files)') /\ FilesHold'
    BY <1>1 DEF BootInv, CommitRevision, SwitchHolds, MayStart, DigestsMatch, ReplayStands, ControlHolds,
                UnderControl, Safe, FilesHold, Fields, Honest, Manifests
  <1>3. MendedBy(Fields \ {"env"}) => MendedBy(Fields \ {"env"})'
    <2> SUFFICES ASSUME NEW c \in backups, Mends(c), DOMAIN c = Fields \ {"env"}
                 PROVE Mends(c)'
      BY DEF MendedBy, CommitRevision
    <2>1. Over(c, files') = Over(c, files)
      BY <1>1, Unseen DEF BootInv, FilesHold, Fields
    <2> QED
      BY <2>1 DEF Mends, CommitRevision
  <1>4. ControlHolds'
    BY <1>1, <1>2, <1>3 DEF BootInv, CommitRevision, ControlHolds, UnderControl, Fields, Idle
  <1>5. BoardReportHolds'
    BY <1>1, <1>2 DEF BootInv, CommitRevision, BoardReportHolds, Fields, Idle
  <1> QED
    BY <1>2, <1>4, <1>5 DEF BootInv, CommitRevision, SwitchHolds, ScriptHolds, Scripts, Idle

(***************************************************************************)
(* A script begins: it has copied what it will write.                      *)
(***************************************************************************)
\* What the copies a script begins with give, from safe files or from others.
LEMMA Begins ==
  ASSUME FilesHold, NEW c, DOMAIN c \subseteq Fields, \A n \in DOMAIN c : c[n] = files[n],
         files' = files, backups' = backups \cup {c}
  PROVE  /\ Safe(files) => Mends(c)' /\ Safe(files)'
         /\ \A d : Mends(d) => Mends(d)'
         /\ \A names : MendedBy(names) \/ (Safe(files) /\ names = DOMAIN c) => MendedBy(names)'
         /\ FilesHold'
         /\ BeforeControl /\ script' \notin {"deploy_roce", "deploy_restore"} /\ report' = "none" => BeforeControl'
  <1>1. Safe(files) => Mends(c)' /\ Safe(files)'
    BY CopiesAreSafe DEF FilesHold, Mends
  <1>2. \A d : Mends(d) => Mends(d)'
    BY DEF Mends
  <1>3. FilesHold' /\ (DigestsMatch(files)' => DigestsMatch(files)) /\ (SeedStands(files) => SeedStands(files)')
    BY DEF FilesHold, DigestsMatch, SeedStands
  <1> QED
    BY <1>1, <1>2, <1>3 DEF MendedBy, BeforeControl

\* Where the control is not native yet, matching digests are of safe files.
LEMMA MatchesAreSafe ==
  ASSUME FilesHold, ControlHolds, files.manifest.mode # "control", DigestsMatch(files),
         files.active = files.manifest.baseline
  PROVE  BeforeControl /\ Safe(files)
  BY DEF FilesHold, ControlHolds, UnderControl, BeforeControl, Safe, MayStart, Honest

\* A copy holds what is on disk.
LEMMA CopyIs ==
  ASSUME NEW names PROVE DOMAIN Copy(names) = names /\ \A n \in names : Copy(names)[n] = files[n]
  BY DEF Copy

\* The pointer is copied, and is still 1 in the copy.
LEMMA StageBasicHolds == ASSUME BootInv, StageBasic PROVE BootInv'
  <1> PICK c : c = BasicCopies
    OBVIOUS
  <1>1. BeforeControl /\ Safe(files)
    BY MatchesAreSafe DEF BootInv, StageBasic, FilesHold, Honest
  <1>2. DOMAIN c = BasicNames /\ \A n \in BasicNames : c[n] = files[n]
    BY CopyIs DEF BasicCopies, BasicNames
  <1>3. files' = files /\ backups' = backups \cup {c}
    BY DEF StageBasic, Begin
  <1>4. Mends(c)' /\ FilesHold' /\ BeforeControl'
    <2>1. BasicNames \subseteq Fields
      BY DEF BasicNames, Fields
    <2>2. script' \notin {"deploy_roce", "deploy_restore"} /\ report' = "none"
      BY <1>1 DEF StageBasic, Begin, BeforeControl
    <2> QED
      BY <1>1, <1>2, <1>3, <2>1, <2>2, Begins DEF BootInv
  <1>5. files.env # "control"
    BY DEF StageBasic
  <1>6. todo' = BasicRest(7)'
    BY <1>3 DEF StageBasic, Begin, BasicRest
  <1>7. StagingBasic'
    <2>1. files.manifest.sha256.active = "observe" /\ files.tx_counter = 1 /\ c.tx_counter = 1
      BY <1>2 DEF StageBasic, DigestsMatch, Digests, BasicNames
    <2> QED
      BY <1>2, <1>3, <1>4, <1>5, <1>6, <2>1 DEF StagingBasic
  <1> QED
    BY <1>3, <1>4, <1>5, <1>7
    DEF BootInv, StageBasic, Begin, SwitchHolds, ControlHolds, ScriptHolds, Scripts, BoardReportHolds, BeforeControl,
        Idle

\* The manifest and the mode are copied.
LEMMA StageControlHolds == ASSUME BootInv, StageControl PROVE BootInv'
  <1> DEFINE c == Copy({"manifest", "env"})
  <1>1. BeforeControl /\ Safe(files)
    BY MatchesAreSafe DEF BootInv, StageControl, FilesHold, Honest
  <1>2. files' = files /\ backups' = backups \cup {c}
    BY DEF StageControl, Begin
  <1>3. MendedBy({"manifest", "env"})' /\ FilesHold' /\ BeforeControl'
    <2>1. DOMAIN c = {"manifest", "env"} /\ \A n \in DOMAIN c : c[n] = files[n]
      BY CopyIs
    <2>2. script' \notin {"deploy_roce", "deploy_restore"} /\ report' = "none" /\ DOMAIN c \subseteq Fields
      BY <1>1, <2>1 DEF StageControl, Begin, BeforeControl, Fields
    <2> HIDE DEF c
    <2> QED
      BY <1>1, <1>2, <2>1, <2>2, Begins DEF BootInv
  <1>4. files.env # "control"
    BY DEF StageControl
  <1>5. StagingControl'
    BY <1>2, <1>3, <1>4 DEF StageControl, Begin, StagingControl, DigestsMatch
  <1> QED
    BY <1>2, <1>3, <1>4, <1>5
    DEF BootInv, StageControl, Begin, SwitchHolds, ControlHolds, ScriptHolds, Scripts, BoardReportHolds, BeforeControl,
        Idle

\* The manifest and the SDK file are copied; the mode is the one of the baseline.
LEMMA RefreshBootHolds == ASSUME BootInv, RefreshBoot PROVE BootInv'
  <1> DEFINE c == Copy({"manifest", "sdk"})
  <1>1. BeforeControl /\ Safe(files)
    BY MatchesAreSafe DEF BootInv, RefreshBoot, FilesHold, Honest
  <1>2. files' = files /\ backups' = backups \cup {c}
    BY DEF RefreshBoot, Begin
  <1>3. MendedBy({"manifest", "sdk"})' /\ FilesHold' /\ BeforeControl'
    <2>1. DOMAIN c = {"manifest", "sdk"} /\ \A n \in DOMAIN c : c[n] = files[n]
      BY CopyIs
    <2>2. script' \notin {"deploy_roce", "deploy_restore"} /\ report' = "none" /\ DOMAIN c \subseteq Fields
      BY <1>1, <2>1 DEF RefreshBoot, Begin, BeforeControl, Fields
    <2> HIDE DEF c
    <2> QED
      BY <1>1, <1>2, <2>1, <2>2, Begins DEF BootInv
  <1>4. files.env # "control" /\ files.env = files.manifest.baseline
    BY <1>1 DEF RefreshBoot, BeforeControl, BootInv, FilesHold, Honest, Manifests, Baselines
  <1>5. Refreshing'
    BY <1>2, <1>3, <1>4 DEF RefreshBoot, Begin, Refreshing, SeedStands
  <1> QED
    BY <1>2, <1>3, <1>4, <1>5
    DEF BootInv, RefreshBoot, Begin, SwitchHolds, ControlHolds, ScriptHolds, Scripts, BoardReportHolds, BeforeControl,
        Idle

\* The checkpoint covers all files but the mode, or an older one still does.
LEMMA DeployRoceHolds == ASSUME BootInv, DeployRoce PROVE BootInv'
  <1> DEFINE c == DeployCheckpoint
  <1>1. PICK keep \in BOOLEAN : /\ keep => files.sdk.edition = 2
                                /\ Begin("deploy_roce", Installs(keep), DeployCheckpoint)
    BY DEF DeployRoce
  <1>2. files' = files /\ backups' = backups \cup {c} /\ script' = "deploy_roce" /\ todo' = Installs(keep)
    BY <1>1 DEF Begin
  <1>3. UnderControl /\ MayStart(files) /\ files.env = "control" /\ FilesHold
    BY DEF DeployRoce, BootInv, SwitchHolds, ControlHolds
  <1>4. DOMAIN c = Fields \ {"env"} /\ \A n \in DOMAIN c : c[n] = files[n]
    <2> DEFINE kept == Copy({"runtime", "package", "active", "platform", "sdk", "manifest", "tx_counter", "rollback"})
               a == [absent |-> {}]
    <2>1. DOMAIN kept = Fields \ {"env", "absent"} /\ \A n \in DOMAIN kept : kept[n] = files[n]
      BY CopyIs DEF Fields
    <2>2. DOMAIN a = {"absent"} /\ a["absent"] = files["absent"]
      BY <1>3 DEF MayStart
    <2>3. c = Over(a, kept)
      BY DEF DeployCheckpoint
    <2> HIDE DEF kept, a, c
    <2>4. DOMAIN c = DOMAIN a \cup DOMAIN kept /\ \A n \in DOMAIN a : c[n] = a[n]
      BY <2>3 DEF Over
    <2>5. \A n \in DOMAIN kept : n \notin DOMAIN a => c[n] = kept[n]
      BY <2>3 DEF Over
    <2> QED
      BY <2>1, <2>2, <2>4, <2>5 DEF Fields
  <1>5. MendedBy(Fields \ {"env"})' /\ FilesHold'
    <2> HIDE DEF c
    <2> QED
      BY <1>2, <1>3, <1>4, Begins DEF UnderControl
  <1>6. UnderControl'
    BY <1>2, <1>3, <1>5 DEF UnderControl
  <1>7. CheckpointHolds'
    <2>1. checkpoint' = c
      BY DEF DeployRoce
    <2> HIDE DEF c
    <2> QED
      BY <1>3, <1>4, <2>1 DEF CheckpointHolds, FilesHold, UnderControl, Fields
  <1>8. files.sdk.config = files.manifest.baseline
    BY <1>3 DEF FilesHold, Honest, MayStart, DigestsMatch, Digests
  <1>9. Deploying'
    BY <1>1, <1>2, <1>3, <1>8 DEF Deploying, Installs
  <1> QED
    BY <1>2, <1>3, <1>5, <1>6, <1>7, <1>9
    DEF BootInv, DeployRoce, SwitchHolds, ControlHolds, ScriptHolds, Scripts, BoardReportHolds, Idle

(***************************************************************************)
(* A deployment ends, or a write fails.                                    *)
(***************************************************************************)
\* What the report says is how the last write has left the files.
LEMMA DeployStartsHolds ==
  ASSUME BootInv, NEW name, NEW says, DeployStarts(name, says),
         <<name, says>> \in {<<"deploy_roce", "installed">>, <<"deploy_restore", "restored">>}
  PROVE  BootInv'
  <1>1. FilesHold' /\ MayStart(files)'
    BY DEF BootInv, DeployStarts, FilesHold, MayStart, DigestsMatch, ReplayStands, SeedStands
  <1>2. files.env = "control" /\ UnderControl
    BY DEF BootInv, DeployStarts, ControlHolds, BeforeControl
  <1>3. UnderControl'
    <2>1. MendedBy(Fields \ {"env"})
      BY <1>2 DEF UnderControl, DeployStarts
    <2>2. MendedBy(Fields \ {"env"})'
      BY <2>1 DEF MendedBy, Mends, DeployStarts
    <2> QED
      BY <1>2, <2>2 DEF UnderControl, DeployStarts
  <1>4. says = "installed" => files.runtime = "new" /\ files.package = "new" /\ files.sdk.edition = 2
    BY DEF BootInv, DeployStarts, ScriptHolds, Deploying
  <1>5. says = "restored" =>
          \A n \in {"runtime", "package", "sdk", "manifest"} : files[n] = checkpoint[n]
    <2> SUFFICES ASSUME name = "deploy_restore"
                 PROVE \A n \in {"runtime", "package", "sdk", "manifest"} : files[n] = checkpoint[n]
      OBVIOUS
    <2>1. PICK n \in 0..8 : /\ todo = RestoreRest(checkpoint, n)
                            /\ n < 7 => files.runtime = checkpoint.runtime
                            /\ n < 5 => files.sdk = checkpoint.sdk /\ files.manifest = checkpoint.manifest
                            /\ n < 1 => files.package = checkpoint.package
      BY DEF BootInv, DeployStarts, ScriptHolds, Restoring
    <2>2. n = 0
      BY <2>1 DEF DeployStarts, RestoreRest
    <2> QED
      BY <2>1, <2>2
  <1> QED
    BY <1>1, <1>2, <1>3, <1>4, <1>5
    DEF BootInv, DeployStarts, SwitchHolds, ControlHolds, ScriptHolds, Scripts, BoardReportHolds, Idle

\* A failed deployment goes back to its checkpoint, or leaves it behind.
LEMMA DeployFailsHolds == ASSUME BootInv, DeployFails PROVE BootInv'
  <1>1. BoardReportHolds' /\ FilesHold' /\ SwitchHolds'
    BY DEF BootInv, DeployFails, Ends, FilesHold, BoardReportHolds, SwitchHolds, Idle
  <1>2. ControlHolds'
    <2>1. files.env = "control" /\ UnderControl
      BY DEF BootInv, DeployFails, ControlHolds, BeforeControl
    <2>2. MendedBy(Fields \ {"env"})
      BY <2>1 DEF UnderControl, DeployFails
    <2>3. MendedBy(Fields \ {"env"})'
      BY <2>2 DEF MendedBy, Mends, DeployFails
    <2> QED
      BY <2>1, <2>3 DEF ControlHolds, UnderControl, DeployFails, Ends
  <1>3. ScriptHolds'
    <2>1. CheckpointHolds' /\ files.env = "control"
      BY DEF BootInv, DeployFails, ScriptHolds, CheckpointHolds, Deploying
    <2>2. CASE script' = "deploy_restore" /\ todo' = Restores(checkpoint)
      <3>1. todo' = RestoreRest(checkpoint, 8)'
        <4>1. \A c : RestoreRest(c, 8) = Restores(c)
          BY DEF Restores, RestoreRest
        <4> QED
          BY <2>2, <4>1 DEF DeployFails
      <3> QED
        BY <2>1, <2>2, <3>1 DEF ScriptHolds, Scripts, Restoring, DeployFails
    <2>3. CASE Ends
      BY <2>3 DEF ScriptHolds, Scripts, Ends
    <2> QED
      BY <2>2, <2>3 DEF DeployFails
  <1> QED
    BY <1>1, <1>2, <1>3 DEF BootInv

\* Only stage_native_control goes back itself; the others leave their copies.
LEMMA StagingFailsHolds == ASSUME BootInv, StagingFails PROVE BootInv'
  <1>1. CASE Ends
    BY <1>1, FilesStay DEF BootInv, StagingFails, Ends, SwitchHolds, ScriptHolds, BoardReportHolds, Idle, Scripts
  <1>2. CASE script = "stage_native_control" /\ script' = "stage_restore" /\ ~Ends
    <2>1. StagingControl /\ todo # <<>>
      BY <1>2 DEF BootInv, ScriptHolds, StagingFails
    <2>2. files.env # "control" /\ BeforeControl
      BY <2>1 DEF StagingControl, BootInv, ControlHolds
    <2>3. FilesHold' /\ BoardReportHolds' /\ SwitchHolds'
      BY <1>2 DEF BootInv, StagingFails, FilesHold, BoardReportHolds, SwitchHolds, Idle
    <2>4. (\A c : Mends(c) => Mends(c)') /\ (MendedBy({"manifest", "env"}) => MendedBy({"manifest", "env"})')
      BY DEF Mends, MendedBy, StagingFails
    <2>5. /\ Safe(files) => Safe(files)'
          /\ DigestsMatch(files)' = DigestsMatch(files) /\ SeedStands(files)' = SeedStands(files)
      BY DEF Safe, DigestsMatch, SeedStands, StagingFails
    <2>6. ControlHolds'
      BY <1>2, <2>2, <2>4, <2>5 DEF ControlHolds, BeforeControl, StagingFails
    <2>7. StagingRestore'
      BY <1>2, <2>1, <2>2, <2>4, <2>5 DEF StagingControl, StagingRestore, StagingFails, Ends
    <2> QED
      BY <1>2, <2>3, <2>6, <2>7 DEF BootInv, ScriptHolds, Scripts
  <1> QED
    BY <1>1, <1>2 DEF StagingFails

(***************************************************************************)
(* stage_basic100g writes.                                                 *)
(***************************************************************************)
\* Until the manifest, written last, the digests do not match and the copies
\* mend; the new revision does not show under the old pointer.
LEMMA BasicWritesHold == ASSUME BootInv, WriteNext, script = "stage_basic100g" PROVE BootInv'
  <1> DEFINE m == "basic100g"
  <1>1. PICK n \in 0..7 :
          /\ todo = BasicRest(n) /\ files.env # "control"
          /\ n # 0 =>
               /\ files.manifest.sha256.active = "observe"
               /\ \E c \in backups : Mends(c) /\ DOMAIN c = BasicNames /\ c.tx_counter = 1
          /\ n < 7 => 2 \in DOMAIN files.rollback /\ files.rollback[2] = m
          /\ n < 6 => files.active = m
          /\ n < 3 => files.env = m
          /\ files.tx_counter = IF n < 2 THEN 2 ELSE 1
    BY DEF BootInv, ScriptHolds, StagingBasic
  <1>2. n \in 1..7
    BY <1>1 DEF BasicRest, WriteNext
  <1>3. PICK c \in backups : Mends(c) /\ DOMAIN c = BasicNames /\ c.tx_counter = 1
    BY <1>1, <1>2
  <1>4. BeforeControl /\ FilesHold
    BY <1>1 DEF BootInv, ControlHolds
  <1>5. PICK w : w = Head(todo)
    OBVIOUS
  <1>6. todo' = BasicRest(n - 1)
    BY <1>1, <1>2 DEF BasicRest, WriteNext
  <1>7. w = CASE n = 7 -> [rollback |-> Over(Revision(2, m), files.rollback)]
              [] n = 6 -> [active |-> m]
              [] n = 5 -> [platform |-> m]
              [] n = 4 -> [sdk |-> Sdk(m, 0)]
              [] n = 3 -> [env |-> m]
              [] n = 2 -> [tx_counter |-> 2]
              [] n = 1 -> [manifest |-> Manifest(m, m, 2, Digests(m, m, Sdk(m, 0)))]
    BY <1>1, <1>2, <1>5 DEF BasicRest
  <1>8. /\ DOMAIN w \subseteq Fields /\ (n # 7 => DOMAIN w \subseteq BasicNames)
    BY <1>2, <1>7 DEF Fields, BasicNames
  <1>9. /\ DOMAIN files' = Fields
        /\ \A name \in Fields : files'[name] = IF name \in DOMAIN w THEN w[name] ELSE files[name]
        /\ Mends(c) /\ DOMAIN w \subseteq DOMAIN c => Mends(c)'
    BY <1>4, <1>5, <1>8, WritesAreCovered DEF FilesHold, WriteNext
  <1>10. /\ files'.absent = files.absent /\ files'.runtime = files.runtime /\ files'.package = files.package
         /\ files'.rollback = IF n = 7 THEN Over(Revision(2, m), files.rollback) ELSE files.rollback
         /\ files'.active = IF n = 6 THEN m ELSE files.active
         /\ files'.platform = IF n = 5 THEN m ELSE files.platform
         /\ files'.sdk = IF n = 4 THEN Sdk(m, 0) ELSE files.sdk
         /\ files'.env = IF n = 3 THEN m ELSE files.env
         /\ files'.tx_counter = IF n = 2 THEN 2 ELSE files.tx_counter
         /\ files'.manifest = IF n = 1 THEN Manifest(m, m, 2, Digests(m, m, Sdk(m, 0))) ELSE files.manifest
    BY <1>2, <1>7, <1>9 DEF Fields
  <1>11. FilesHold'
    BY <1>2, <1>4, <1>9, <1>10 DEF FilesHold, Honest, Manifests, Manifest, Digests, Sdks, Sdk, Baselines
  <1>12. /\ \A r \in DOMAIN files.rollback :
              r # 2 => r \in DOMAIN files'.rollback /\ files'.rollback[r] = files.rollback[r]
         /\ 2 \in DOMAIN files'.rollback /\ files'.rollback[2] = m
    <2>1. CASE n = 7
      <3>1. files'.rollback = Over(Revision(2, m), files.rollback)
        BY <1>10, <2>1
      <3> QED
        BY <3>1 DEF Over, Revision
    <2>2. CASE n # 7
      BY <1>1, <1>2, <1>10, <2>2
    <2> QED
      BY <2>1, <2>2
  <1>13. Mends(c)'
    <2>1. CASE n = 7
      <3> DEFINE f == Over(c, files)
                 g == Over(c, files')
      <3>1. /\ \A name \in Fields : name # "rollback" => g[name] = f[name]
            /\ f.rollback = files.rollback /\ g.rollback = files'.rollback /\ f.tx_counter = 1
        BY <1>3, <1>4, <1>9, <1>10, <2>1 DEF Over, Fields, BasicNames, FilesHold
      <3> HIDE DEF f, g
      <3>2. Safe(f)
        BY <1>3 DEF Mends, f
      <3>3. Safe(g)
        BY <1>12, <3>1, <3>2 DEF Safe, MayStart, DigestsMatch, ReplayStands, SeedStands, Fields
      <3> QED
        BY <1>3, <3>3 DEF Mends, g, WriteNext
    <2>2. CASE n # 7
      BY <1>3, <1>8, <1>9, <2>2
    <2> QED
      BY <2>1, <2>2
  <1>14. BeforeControl'
    <2>1. DigestsMatch(files)' => SeedStands(files)' /\ files'.env = files'.manifest.baseline
      <3>1. CASE n = 1
        BY <1>1, <1>10, <1>12, <3>1 DEF DigestsMatch, SeedStands, Manifest, Digests
      <3>2. CASE n = 7
        BY <1>1, <1>4, <1>10, <1>12, <3>2 DEF BeforeControl, DigestsMatch, SeedStands
      <3>3. CASE n \in 2..6
        BY <1>1, <1>10, <3>3 DEF DigestsMatch, Digests
      <3> QED
        BY <1>2, <3>1, <3>2, <3>3
    <2> QED
      BY <1>3, <1>4, <1>10, <1>13, <2>1 DEF BeforeControl, WriteNext
  <1>15. StagingBasic'
    <2>1. todo' = BasicRest(n - 1)'
      BY <1>2, <1>6 DEF BasicRest
    <2>2. /\ files'.env # "control" /\ n - 1 \in 0..7
          /\ n - 1 # 0 => files'.manifest.sha256.active = "observe"
          /\ n - 1 < 7 => 2 \in DOMAIN files'.rollback /\ files'.rollback[2] = m
          /\ n - 1 < 6 => files'.active = m
          /\ n - 1 < 3 => files'.env = m
          /\ files'.tx_counter = IF n - 1 < 2 THEN 2 ELSE 1
      BY <1>1, <1>2, <1>10, <1>12
    <2> QED
      BY <1>3, <1>13, <2>1, <2>2 DEF StagingBasic, WriteNext
  <1> QED
    BY <1>10, <1>11, <1>14, <1>15, <1>1
    DEF BootInv, WriteNext, SwitchHolds, ControlHolds, ScriptHolds, Scripts, BoardReportHolds, Idle

(***************************************************************************)
(* stage_native_control and refresh-boot write.                            *)
(***************************************************************************)
\* The board is safe again when the mode is written too, and under control.
LEMMA ControlWritesHold == ASSUME BootInv, WriteNext, script = "stage_native_control" PROVE BootInv'
  <1> DEFINE m == [manifest |-> [files.manifest EXCEPT !.mode = "control"]]
             e == [env |-> "control"]
  <1>1. /\ todo \in {<<m, e>>, <<e>>} /\ DigestsMatch(files) /\ files.active = files.manifest.baseline
        /\ files.env # "control" /\ MendedBy({"manifest", "env"})
        /\ todo = <<e>> => files.manifest.mode = "control"
    BY DEF BootInv, ScriptHolds, StagingControl, WriteNext
  <1>2. BeforeControl /\ FilesHold
    BY <1>1 DEF BootInv, ControlHolds
  <1>3. CASE todo = <<m, e>>
    <2>1. files' = Over(m, files) /\ todo' = <<e>>
      BY <1>3 DEF WriteNext
    <2>2. DOMAIN m = {"manifest"} /\ m.manifest = [files.manifest EXCEPT !.mode = "control"]
      OBVIOUS
    <2> HIDE DEF m
    <2>3. /\ DOMAIN files' = Fields
          /\ \A name \in Fields : files'[name] = IF name = "manifest" THEN m.manifest ELSE files[name]
          /\ MendedBy({"manifest", "env"})'
      BY <1>1, <1>2, <2>1, <2>2, WritesAreCovered DEF FilesHold, WriteNext, Fields
    <2>4. FilesHold'
      BY <1>2, <2>2, <2>3 DEF FilesHold, Honest, Manifests, Fields
    <2>5. DigestsMatch(files)' /\ SeedStands(files)'
      BY <1>1, <1>2, <2>2, <2>3 DEF DigestsMatch, SeedStands, BeforeControl, FilesHold, Honest, Manifests, Fields
    <2>6. BeforeControl'
      BY <1>1, <1>2, <2>2, <2>3, <2>5 DEF BeforeControl, MendedBy, WriteNext, FilesHold, Honest, Manifests, Fields
    <2>7. StagingControl'
      BY <1>1, <1>2, <2>1, <2>2, <2>3, <2>5 DEF StagingControl, FilesHold, Honest, Manifests, Fields
    <2> QED
      BY <1>1, <1>3, <2>3, <2>4, <2>6, <2>7
      DEF BootInv, WriteNext, SwitchHolds, ControlHolds, ScriptHolds, Scripts, BoardReportHolds, Idle, Fields
  <1>4. CASE todo = <<e>>
    <2>1. files' = Over(e, files) /\ todo' = <<>>
      BY <1>4 DEF WriteNext
    <2>2. DOMAIN e = {"env"} /\ e.env = "control"
      OBVIOUS
    <2> HIDE DEF e
    <2>3. /\ DOMAIN files' = Fields
          /\ \A name \in Fields : files'[name] = IF name = "env" THEN "control" ELSE files[name]
      BY <1>2, <2>1, <2>2, WritesAreCovered DEF FilesHold, WriteNext, Fields
    <2>4. FilesHold'
      BY <1>2, <2>3 DEF FilesHold, Fields
    <2>5. Safe(files)'
      BY <1>1, <1>2, <1>4, <2>3, <2>4
      DEF DigestsMatch, SeedStands, ReplayStands, BeforeControl, FilesHold, Honest, Manifests, Fields, Safe, MayStart
    <2>6. UnderControl'
      BY <1>1, <1>4, <2>1, <2>3, <2>5 DEF UnderControl, WriteNext, Fields
    <2>7. StagingControl'
      BY <2>1, <2>3 DEF StagingControl, Fields
    <2> QED
      BY <1>1, <1>4, <2>3, <2>4, <2>6, <2>7
      DEF BootInv, WriteNext, SwitchHolds, ControlHolds, ScriptHolds, Scripts, BoardReportHolds, Idle, Fields
  <1> QED
    BY <1>1, <1>3, <1>4

\* The digests never cover the mode.
LEMMA RestoreWritesHold == ASSUME BootInv, WriteNext, script = "stage_restore" PROVE BootInv'
  <1> DEFINE m == [manifest |-> [files.manifest EXCEPT !.mode = files.manifest.baseline]]
             e == [env |-> files.manifest.baseline]
  <1>1. todo \in {<<m, e>>, <<e>>} /\ files.env # "control" /\ DigestsMatch(files) /\ MendedBy({"manifest", "env"})
    BY DEF BootInv, ScriptHolds, StagingRestore, WriteNext
  <1>2. BeforeControl /\ FilesHold
    BY <1>1 DEF BootInv, ControlHolds
  <1>3. PICK w : w = Head(todo)
    OBVIOUS
  <1>4. /\ (w = m /\ todo' = <<e>>) \/ (w = e /\ todo' = <<>>)
        /\ DOMAIN w \subseteq {"manifest", "env"}
    <2>1. DOMAIN m \cup DOMAIN e \subseteq {"manifest", "env"}
      OBVIOUS
    <2>2. todo' = Tail(todo)
      BY DEF WriteNext
    <2> HIDE DEF m, e
    <2>3. CASE todo = <<m, e>>
      BY <1>3, <2>1, <2>2, <2>3
    <2>4. CASE todo = <<e>>
      BY <1>3, <2>1, <2>2, <2>4
    <2> QED
      BY <1>1, <2>3, <2>4
  <1>5. /\ DOMAIN files' = Fields
        /\ \A name \in Fields : files'[name] = IF name \in DOMAIN w THEN w[name] ELSE files[name]
        /\ MendedBy({"manifest", "env"})'
    BY <1>1, <1>2, <1>3, <1>4, WritesAreCovered DEF FilesHold, WriteNext, Fields
  <1>6. /\ \A name \in Fields : name \notin {"manifest", "env"} => files'[name] = files[name]
        /\ files'.manifest \in {files.manifest, m.manifest} /\ files'.env \in {files.env, e.env}
    BY <1>4, <1>5 DEF Fields
  <1>7. FilesHold' /\ files'.manifest.baseline = files.manifest.baseline
    BY <1>2, <1>6, <1>5 DEF FilesHold, Honest, Manifests, Fields
  <1>8. DigestsMatch(files)' /\ SeedStands(files)'
    BY <1>1, <1>2, <1>6 DEF DigestsMatch, SeedStands, BeforeControl, FilesHold, Honest, Manifests, Fields
  <1>9. files'.env # "control" /\ files'.env = files'.manifest.baseline
    BY <1>1, <1>2, <1>6, <1>7 DEF BeforeControl, FilesHold, Honest, Manifests, Baselines
  <1>10. BeforeControl'
    BY <1>2, <1>5, <1>6, <1>8, <1>9 DEF BeforeControl, MendedBy, WriteNext, Fields
  <1>11. StagingRestore'
    BY <1>2, <1>4, <1>5, <1>7, <1>8, <1>9 DEF StagingRestore
  <1> QED
    BY <1>5, <1>6, <1>7, <1>9, <1>10, <1>11
    DEF BootInv, WriteNext, SwitchHolds, ControlHolds, ScriptHolds, Scripts, BoardReportHolds, BeforeControl,
        Idle, Fields

\* Between the SDK file and the manifest the copies mend.
LEMMA RefreshWritesHold == ASSUME BootInv, WriteNext, script = "refresh_boot" PROVE BootInv'
  <1> DEFINE s == [sdk |-> Sdk(files.active, 1)]
             m == [manifest |-> [files.manifest EXCEPT !.sha256.sdk = Sdk(files.active, 1)]]
  <1>1. /\ todo \in {<<s, m>>, <<m>>} /\ files.env = files.manifest.baseline
        /\ SeedStands(files) /\ files.active = files.manifest.baseline /\ MendedBy({"manifest", "sdk"})
    BY DEF BootInv, ScriptHolds, Refreshing, WriteNext
  <1>2. BeforeControl /\ FilesHold /\ files.env # "control"
    BY <1>1 DEF BootInv, ControlHolds, FilesHold, Honest, Manifests, Baselines
  <1>3. PICK w : w = Head(todo)
    OBVIOUS
  <1>4. /\ (w = s /\ todo' = <<m>>) \/ (w = m /\ todo' = <<>>)
        /\ DOMAIN w \subseteq {"manifest", "sdk"}
    <2>1. DOMAIN s \cup DOMAIN m \subseteq {"manifest", "sdk"}
      OBVIOUS
    <2>2. todo' = Tail(todo)
      BY DEF WriteNext
    <2> HIDE DEF s, m
    <2>3. CASE todo = <<s, m>>
      BY <1>3, <2>1, <2>2, <2>3
    <2>4. CASE todo = <<m>>
      BY <1>3, <2>1, <2>2, <2>4
    <2> QED
      BY <1>1, <2>3, <2>4
  <1>5. /\ DOMAIN files' = Fields
        /\ \A name \in Fields : files'[name] = IF name \in DOMAIN w THEN w[name] ELSE files[name]
        /\ MendedBy({"manifest", "sdk"})'
    BY <1>1, <1>2, <1>3, <1>4, WritesAreCovered DEF FilesHold, WriteNext, Fields
  <1>6. /\ \A name \in Fields : name \notin {"manifest", "sdk"} => files'[name] = files[name]
        /\ \/ files'.sdk = Sdk(files.active, 1) /\ files'.manifest = files.manifest /\ todo' = <<m>>
           \/ files'.sdk = files.sdk /\ files'.manifest = m.manifest /\ todo' = <<>>
    BY <1>4, <1>5 DEF Fields
  <1>7. /\ FilesHold' /\ files'.manifest.baseline = files.manifest.baseline
        /\ files'.manifest.seed = files.manifest.seed
    BY <1>1, <1>2, <1>6, <1>5 DEF FilesHold, Honest, Manifests, Fields, Sdk, Sdks
  <1>8. SeedStands(files)' /\ files'.env = files'.manifest.baseline /\ files'.env # "control"
    BY <1>1, <1>2, <1>6, <1>7 DEF SeedStands, Fields
  <1>9. BeforeControl'
    BY <1>2, <1>5, <1>6, <1>8 DEF BeforeControl, MendedBy, WriteNext, Fields
  <1>10. Refreshing'
    BY <1>1, <1>2, <1>5, <1>6, <1>7, <1>8 DEF Refreshing, Fields
  <1> QED
    BY <1>5, <1>6, <1>7, <1>8, <1>9, <1>10
    DEF BootInv, WriteNext, SwitchHolds, ControlHolds, ScriptHolds, Scripts, BoardReportHolds, BeforeControl,
        Idle, Fields

(***************************************************************************)
(* deploy_roce writes, forward and back.                                   *)
(***************************************************************************)
\* Whatever it writes is in its checkpoint.
LEMMA CheckpointCovers ==
  ASSUME FilesHold, UnderControl, files.env = "control", script \in {"deploy_roce", "deploy_restore"},
         WriteNext, NEW w, w = Head(todo), DOMAIN w \subseteq Fields \ {"env"}
  PROVE  /\ DOMAIN files' = Fields
         /\ \A name \in Fields : files'[name] = IF name \in DOMAIN w THEN w[name] ELSE files[name]
         /\ files'.env = "control" /\ (files'.manifest.mode = "control" => UnderControl')
  <1>1. MendedBy(Fields \ {"env"})
    BY DEF UnderControl
  <1>2. /\ DOMAIN files' = Fields
        /\ \A name \in Fields : files'[name] = IF name \in DOMAIN w THEN w[name] ELSE files[name]
        /\ MendedBy(Fields \ {"env"})'
    BY <1>1, WritesAreCovered DEF FilesHold, WriteNext, Fields
  <1>3. files'.env = "control"
    BY <1>2 DEF Fields
  <1> QED
    BY <1>2, <1>3 DEF UnderControl, WriteNext

\* No write of a deployment is outside the checkpoint.
LEMMA DeployWritesHold == ASSUME BootInv, WriteNext, script = "deploy_roce" PROVE BootInv'
  <1> DEFINE s == [sdk |-> [files.sdk EXCEPT !.edition = 2]]
             m == [manifest |-> [files.manifest EXCEPT !.sha256.sdk = [files.sdk EXCEPT !.edition = 2]]]
             r1 == [runtime |-> "mixed"]
             r2 == [runtime |-> "new"]
             p1 == [package |-> "mixed"]
             p2 == [package |-> "new"]
             ready == files.runtime = "new" /\ files.sdk.edition = 2
  <1>1. /\ files.env = "control" /\ files.sdk.config = files.manifest.baseline
        /\ \/ todo \in {<<r1, r2, s, m, p1, p2>>, <<r2, s, m, p1, p2>>}
           \/ todo \in {<<r1, r2, p1, p2>>, <<r2, p1, p2>>} /\ files.sdk.edition = 2
           \/ todo = <<s, m, p1, p2>> /\ files.runtime = "new"
           \/ todo \in {<<m, p1, p2>>, <<p1, p2>>, <<p2>>} /\ ready
    BY DEF BootInv, ScriptHolds, Deploying, WriteNext
  <1>2. UnderControl /\ FilesHold /\ CheckpointHolds
    BY <1>1 DEF BootInv, ControlHolds, ScriptHolds
  <1>3. PICK w : w = Head(todo)
    OBVIOUS
  <1>4. \/ w = r1 /\ \/ todo' = <<r2, s, m, p1, p2>>
                     \/ todo' = <<r2, p1, p2>> /\ files.sdk.edition = 2
        \/ w = r2 /\ \/ todo' = <<s, m, p1, p2>>
                     \/ todo' = <<p1, p2>> /\ files.sdk.edition = 2
        \/ w = s /\ todo' = <<m, p1, p2>> /\ files.runtime = "new"
        \/ w = m /\ todo' = <<p1, p2>> /\ ready
        \/ w = p1 /\ todo' = <<p2>> /\ ready
        \/ w = p2 /\ todo' = <<>> /\ ready
    <2>1. todo' = Tail(todo)
      BY DEF WriteNext
    <2> HIDE DEF s, m, r1, r2, p1, p2
    <2>2. CASE todo = <<r1, r2, s, m, p1, p2>>
      BY <1>3, <2>1, <2>2
    <2>3. CASE todo = <<r2, s, m, p1, p2>>
      BY <1>3, <2>1, <2>3
    <2>4. CASE todo = <<r1, r2, p1, p2>> /\ files.sdk.edition = 2
      BY <1>3, <2>1, <2>4
    <2>5. CASE todo = <<r2, p1, p2>> /\ files.sdk.edition = 2
      BY <1>3, <2>1, <2>5
    <2>6. CASE todo = <<s, m, p1, p2>> /\ files.runtime = "new"
      BY <1>3, <2>1, <2>6
    <2>7. CASE todo = <<m, p1, p2>> /\ ready
      BY <1>3, <2>1, <2>7
    <2>8. CASE todo = <<p1, p2>> /\ ready
      BY <1>3, <2>1, <2>8
    <2>9. CASE todo = <<p2>> /\ ready
      BY <1>3, <2>1, <2>9
    <2> QED
      BY <1>1, <2>2, <2>3, <2>4, <2>5, <2>6, <2>7, <2>8, <2>9
  <1>5. DOMAIN w \subseteq Fields \ {"env"}
    BY <1>4 DEF Fields
  <1>6. /\ DOMAIN files' = Fields
        /\ \A name \in Fields : files'[name] = IF name \in DOMAIN w THEN w[name] ELSE files[name]
        /\ files'.env = "control" /\ (files'.manifest.mode = "control" => UnderControl')
    BY <1>1, <1>2, <1>3, <1>5, CheckpointCovers
  <1>7. CASE w \in {r1, r2, p1, p2}
    <2>1. \A name \in Fields : name \notin {"runtime", "package"} => files'[name] = files[name]
      BY <1>6, <1>7
    <2>2. FilesHold' /\ UnderControl'
      BY <1>2, <1>6, <2>1 DEF FilesHold, Fields, UnderControl
    <2>3. Deploying'
      BY <1>1, <1>2, <1>4, <1>6, <1>7, <2>1 DEF Deploying, Fields
    <2> QED
      BY <1>1, <1>2, <1>6, <2>2, <2>3
      DEF BootInv, WriteNext, SwitchHolds, ControlHolds, ScriptHolds, Scripts, BoardReportHolds, CheckpointHolds, Idle
  <1>8. CASE w = s
    <2>1. /\ \A name \in Fields : name # "sdk" => files'[name] = files[name]
          /\ files'.sdk = [files.sdk EXCEPT !.edition = 2]
      BY <1>6, <1>8 DEF Fields
    <2>2. FilesHold' /\ UnderControl'
      BY <1>2, <1>6, <2>1 DEF FilesHold, Fields, UnderControl, Sdks
    <2>3. Deploying'
      BY <1>1, <1>2, <1>4, <1>6, <1>8, <2>1 DEF Deploying, Fields, FilesHold, Sdks
    <2> QED
      BY <1>1, <1>2, <1>6, <2>2, <2>3
      DEF BootInv, WriteNext, SwitchHolds, ControlHolds, ScriptHolds, Scripts, BoardReportHolds, CheckpointHolds, Idle
  <1>9. CASE w = m
    <2>1. /\ \A name \in Fields : name # "manifest" => files'[name] = files[name]
          /\ files'.manifest = [files.manifest EXCEPT !.sha256.sdk = [files.sdk EXCEPT !.edition = 2]]
      BY <1>6, <1>9 DEF Fields
    <2>2. FilesHold' /\ UnderControl'
      BY <1>1, <1>2, <1>6, <2>1 DEF FilesHold, Fields, UnderControl, Sdks, Honest, Manifests
    <2>3. Deploying'
      BY <1>1, <1>2, <1>4, <1>6, <1>9, <2>1 DEF Deploying, Fields, FilesHold, Honest, Manifests
    <2> QED
      BY <1>1, <1>2, <1>6, <2>2, <2>3
      DEF BootInv, WriteNext, SwitchHolds, ControlHolds, ScriptHolds, Scripts, BoardReportHolds, CheckpointHolds, Idle
  <1> QED
    BY <1>4, <1>7, <1>8, <1>9

\* The restoration ends with the very files of the checkpoint.
LEMMA BackWritesHold == ASSUME BootInv, WriteNext, script = "deploy_restore" PROVE BootInv'
  <1> PICK c : c = checkpoint
    OBVIOUS
  <1>1. PICK n \in 0..8 :
          /\ todo = RestoreRest(c, n) /\ files.env = "control"
          /\ n < 7 => files.runtime = c.runtime
          /\ n < 5 => files.sdk = c.sdk /\ files.manifest = c.manifest
          /\ n < 1 => files.package = c.package
    BY DEF BootInv, ScriptHolds, Restoring
  <1>2. n \in 1..8
    BY <1>1 DEF RestoreRest, WriteNext
  <1>3. UnderControl /\ FilesHold /\ CheckpointHolds
    BY <1>1 DEF BootInv, ControlHolds, ScriptHolds
  <1>4. PICK w : w = Head(todo)
    OBVIOUS
  <1>5. todo' = RestoreRest(c, n - 1)
    BY <1>1, <1>2 DEF RestoreRest, WriteNext
  <1>6. w = CASE n = 8 -> [absent |-> {"native"}]
              [] n = 7 -> [runtime |-> c.runtime, absent |-> {}]
              [] n = 6 -> [absent |-> {"boot"}]
              [] n = 5 -> [active |-> c.active, platform |-> c.platform, sdk |-> c.sdk,
                           manifest |-> c.manifest, absent |-> {}]
              [] n = 4 -> [absent |-> {"config"}]
              [] n = 3 -> [tx_counter |-> c.tx_counter, rollback |-> c.rollback, absent |-> {}]
              [] n = 2 -> [package |-> "mixed"]
              [] n = 1 -> [package |-> c.package]
    BY <1>1, <1>2, <1>4 DEF RestoreRest
  <1>7. DOMAIN w \subseteq Fields \ {"env"}
    BY <1>2, <1>6 DEF Fields
  <1>8. /\ DOMAIN files' = Fields
        /\ \A name \in Fields : files'[name] = IF name \in DOMAIN w THEN w[name] ELSE files[name]
        /\ files'.env = "control" /\ (files'.manifest.mode = "control" => UnderControl')
    BY <1>1, <1>3, <1>4, <1>7, CheckpointCovers
  <1>9. /\ files'.active = IF n = 5 THEN c.active ELSE files.active
        /\ files'.sdk = IF n = 5 THEN c.sdk ELSE files.sdk
        /\ files'.manifest = IF n = 5 THEN c.manifest ELSE files.manifest
        /\ files'.runtime = IF n = 7 THEN c.runtime ELSE files.runtime
        /\ files'.tx_counter = IF n = 3 THEN c.tx_counter ELSE files.tx_counter
        /\ n = 1 => files'.package = c.package
    BY <1>2, <1>6, <1>8 DEF Fields
  <1>10. FilesHold' /\ UnderControl'
    BY <1>3, <1>8, <1>9 DEF FilesHold, UnderControl, CheckpointHolds
  <1>11. Restoring'
    <2>1. checkpoint' = c /\ todo' = RestoreRest(checkpoint, n - 1)'
      BY <1>5 DEF WriteNext
    <2>2. /\ n - 1 \in 0..8 /\ files'.env = "control"
          /\ n - 1 < 7 => files'.runtime = c.runtime
          /\ n - 1 < 5 => files'.sdk = c.sdk /\ files'.manifest = c.manifest
          /\ n - 1 < 1 => files'.package = c.package
      BY <1>1, <1>2, <1>8, <1>9
    <2> QED
      BY <2>1, <2>2 DEF Restoring
  <1> QED
    BY <1>3, <1>8, <1>10, <1>11
    DEF BootInv, WriteNext, SwitchHolds, ControlHolds, ScriptHolds, Scripts, BoardReportHolds, CheckpointHolds, Idle

(***************************************************************************)
(* Together.                                                               *)
(***************************************************************************)
\* A step keeps the invariant.
LEMMA BootStepHolds == BootInv /\ [BootNext]_bootVars => BootInv'
  <1> SUFFICES ASSUME BootInv, [BootNext]_bootVars PROVE BootInv'
    OBVIOUS
  <1>1. CASE WriteNext
    <2>1. script \in {"stage_basic100g", "stage_native_control", "stage_restore", "refresh_boot",
                      "deploy_roce", "deploy_restore"}
      BY <1>1 DEF BootInv, ScriptHolds, Scripts, WriteNext
    <2> QED
      BY <1>1, <2>1, BasicWritesHold, ControlWritesHold, RestoreWritesHold, RefreshWritesHold,
         DeployWritesHold, BackWritesHold
  <1>2. CASE Start \/ StopSwitch \/ CommitRevision
    BY <1>2, StartHolds, StopSwitchHolds, CommitRevisionHolds
  <1>3. CASE StageBasic \/ StageControl \/ RefreshBoot \/ DeployRoce
    BY <1>3, StageBasicHolds, StageControlHolds, RefreshBootHolds, DeployRoceHolds
  <1>4. CASE DeployStarts("deploy_roce", "installed") \/ DeployStarts("deploy_restore", "restored")
    BY <1>4, DeployStartsHolds
  <1>5. CASE StagingEnds \/ StagingFails \/ DeployFails \/ RestoreFails \/ PowerFails
    BY <1>5, StagingEndsHolds, StagingFailsHolds, DeployFailsHolds, RestoreFailsHolds, PowerFailsHolds
  <1>6. CASE UNCHANGED bootVars
    <2>1. BootInv /\ UNCHANGED <<files, switching, script, todo, backups, checkpoint, report>>
      BY <1>6 DEF bootVars
    <2>2. FilesHold' /\ ControlHolds'
      BY <2>1, FilesStay DEF BootInv, BoardReportHolds, MayStart, DigestsMatch, ReplayStands, SeedStands, Idle
    <2> QED
      BY <2>1, <2>2 DEF BootInv, SwitchHolds, ScriptHolds, BoardReportHolds, Idle, MayStart,
         DigestsMatch, ReplayStands, SeedStands, StagingBasic, StagingControl, StagingRestore, Refreshing, Deploying, Restoring,
         CheckpointHolds, BasicRest, RestoreRest, Mends, MendedBy
  <1> QED
    BY <1>1, <1>2, <1>3, <1>4, <1>5, <1>6 DEF BootNext

\* BoardStartsOrRestores of the specification: switchd is let start only on
\* startup files of one configuration, at any moment a board that would not
\* start can be restored from copies, and the report is true.
THEOREM BoardIsSafe == BootSpec => []BoardStartsOrRestores
  <1>1. ASSUME BootInv PROVE BoardStartsOrRestores
    <2> USE <1>1 DEF BootInv
    <2>1. switching => OneConfiguration(files)
      BY StartsAreWhole DEF SwitchHolds, FilesHold
    <2>2. ASSUME Idle, ~(MayStart(files) /\ files.runtime = files.package)
          PROVE  \E copy \in backups : LET f == Over(copy, files) IN
                   MayStart(f) /\ OneConfiguration(f) /\ f.runtime = f.package
      <3>1. PICK c \in backups : Mends(c)
        BY <2>2 DEF ControlHolds, BeforeControl, UnderControl, MendedBy, Mends, Safe, Idle
      <3>2. Safe(Over(c, files))
        BY <3>1 DEF Mends
      <3> QED
        BY <3>2, StartsAreWhole DEF Safe
    <2> QED
      BY <2>1, <2>2 DEF BoardStartsOrRestores, BoardReportHolds
  <1> QED
    BY <1>1, BootInitHolds, BootStepHolds, PTL DEF BootSpec
=============================================================================
