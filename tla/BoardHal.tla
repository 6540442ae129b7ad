------------------------------ MODULE BoardHal ------------------------------
(***************************************************************************)
(* The board algorithms of backend/fm10k_controlpanel/board.py, driven as  *)
(* simulator.py drives them: one access of the I2C bus is one step.        *)
(*                                                                         *)
(* Two optical modules (MPO) hold a 12-bit transmit mask each, in offset   *)
(* 56 (a reserved nibble, and the lanes of position 2) and offset 57 (the  *)
(* lanes of positions 0 and 1): three port groups share one mask.  A       *)
(* nibble is the set of its lanes.  The fan controller runs a temperature  *)
(* curve out of its own registers once it is switched to "lut" mode.  The  *)
(* bus may be lost, and may come back, between any two accesses, and a     *)
(* write may not latch.  The simulator's lock makes the calls sequential.  *)
(***************************************************************************)
EXTENDS Integers, Sequences

CONSTANTS
  Groups,       \* port groups, <<mpo, position>>
  Settings,     \* settings of a group: [mode, ports]
  Curves,       \* fan curves
  Blank,        \* what a fan register holds before the first curve
  Configs,      \* configurations: [group, fan]
  Default,      \* SwitchConfiguration(): what a fresh simulator starts with
  Points,       \* entries of the lookup table (12 in the chip)
  Retries,      \* writes of a mask register before it counts as not latching
  MaxCalls,     \* bound: configurations applied and manual overrides
  MaxFaults     \* bound: bus losses, dropped writes and injected step failures

Mpos == {1, 2}
Lanes == 0..3

ASSUME BoardAssumption ==
  /\ Groups \subseteq Mpos \X (0..2)
  /\ \A s \in Settings : s.mode \in {"100g", "40g", "split"} /\ s.ports \subseteq Lanes
  /\ Configs \subseteq [group : [Groups -> Settings], fan : Curves]
  /\ Default \in Configs
  /\ Blank \notin Curves \cup {"lut"}
  /\ Points \in Nat \ {0} /\ Retries \in Nat
  /\ MaxCalls \in Nat /\ MaxFaults \in Nat

VARIABLES
  nibbles,       \* transmit mask registers: [mpo][position], the lanes that are on
  reserved,      \* high nibble of offset 56, by mpo
  mux,           \* branch of the bus the switch at 0x58 selects
  fan,           \* registers of the fan controller
  available,     \* the bus answers
  call,          \* what the code runs: "idle", "boot", "apply", "rollback", "mute", "release"
  ops,           \* operations the call still has to run
  at,            \* the bus access the first of them has come to
  previous,      \* branch that selected_bus found and restores
  tries,         \* writes of the current mask register so far
  configuration, \* the authority's configuration
  target,        \* the one being applied
  before,        \* masks read before the first write
  pending,       \* before-image of the commit that awaits confirmation, or the same configuration
  awaiting,      \* such a commit exists
  degraded,      \* groups whose ports are in degraded_ports
  manual,        \* a manual PWM override is on
  broken,        \* history: a RollbackError has been raised
  calls, faults  \* bounds

bus == <<nibbles, reserved, mux, fan>>
process == <<call, ops, at, previous, tries>>
authority == <<configuration, target, before, pending, awaiting, degraded, manual, broken>>
boardVars == <<bus, available, process, authority, calls, faults>>

(***************************************************************************)
(* The programs the calls run, as sequences of operations.                 *)
(***************************************************************************)
Branch(mpo) == IF mpo = 1 THEN 1 ELSE 2        \* 1 << (mpo - 1)
FanBranch == 8

\* The lanes of a group that its enabled ports light.
GroupMask(s) ==
  CASE s.mode = "split" -> s.ports
    [] s.mode # "split" -> IF 0 \in s.ports THEN Lanes ELSE {}

MaskOp(g, lanes) == [op |-> "mask", group |-> g, lanes |-> lanes]
FanOp(c) == [op |-> "fan", fan |-> c]
Step == [op |-> "step"]

\* Registers of the fan controller, and the writes of one curve: direct mode
\* and full PWM first, the mode that runs the table last.
Mode == <<"mode", 0>>
Pwm == <<"pwm", 0>>
Limit == <<"limit", 0>>
Lut(i) == <<"lut", i>>
Registers == {Mode, Pwm, Limit} \cup {Lut(i) : i \in 1..Points}
LastWrite == Points + 4

\* Mutant: the table is switched on before the critical limit is written.
FanWriteEarly(c, k) ==
  CASE k = 1 -> [register |-> Mode, value |-> "direct"]
    [] k = 2 -> [register |-> Pwm, value |-> "full"]
    [] k \in 3..(Points + 2) -> [register |-> Lut(k - 2), value |-> c]
    [] k = Points + 3 -> [register |-> Mode, value |-> "lut"]
    [] k = LastWrite -> [register |-> Limit, value |-> c]

FanWrite(c, k) ==
  CASE k = 1 -> [register |-> Mode, value |-> "direct"]
    [] k = 2 -> [register |-> Pwm, value |-> "full"]
    [] k \in 3..(Points + 2) -> [register |-> Lut(k - 2), value |-> c]
    [] k = Points + 3 -> [register |-> Limit, value |-> c]
    [] k = LastWrite -> [register |-> Mode, value |-> "lut"]

FanHolds(w) == fan[w.register] = w.value
FanAfter(w) == [fan EXCEPT ![w.register] = w.value]

\* What is done for each of some groups, one after the other in the order of PHYSICAL.
Part(block, m, p) == IF <<m, p>> \in DOMAIN block THEN block[<<m, p>>] ELSE <<>>
Each(block) ==
  Part(block, 1, 0) \o Part(block, 1, 1) \o Part(block, 1, 2)
    \o Part(block, 2, 0) \o Part(block, 2, 1) \o Part(block, 2, 2)

Affected(a, b) == {g \in Groups : a.group[g] # b.group[g]}
IfFanDiffers(a, b, list) == IF a.fan # b.fan THEN list ELSE <<>>

RestoreHardware(c) ==
  Each([g \in Groups |-> <<MaskOp(g, GroupMask(c.group[g]))>>]) \o <<FanOp(c.fan)>>
ApplyHardware(a, b) ==
  Each([g \in Affected(a, b) |->
         <<Step, MaskOp(g, {}), Step, MaskOp(g, GroupMask(b.group[g])), Step>>])
    \o IfFanDiffers(a, b, <<Step, FanOp(b.fan)>>) \o <<Step>>
\* Mutant: the rollback leaves the fan on the refused curve.
RollbackLanesOnly(a, b, masks) ==
  Each([g \in Affected(a, b) |-> <<MaskOp(g, masks[g[1]][g[2]])>>])

RollbackHardware(a, b, masks) ==
  Each([g \in Affected(a, b) |-> <<MaskOp(g, masks[g[1]][g[2]])>>])
    \o IfFanDiffers(a, b, <<FanOp(a.fan)>>)
MuteAll(a, b) == Each([g \in Affected(a, b) |-> <<MaskOp(g, {})>>])

Op == Head(ops)

BoardInit ==
  /\ nibbles = [m \in Mpos |-> [p \in 0..2 |-> {}]]
  /\ reserved = [m \in Mpos |-> 0]
  /\ mux = 1
  /\ fan = [r \in Registers |-> Blank]
  /\ available = TRUE
  /\ call = "boot" /\ ops = RestoreHardware(Default)
  /\ at = 0 /\ previous = 1 /\ tries = 0
  /\ configuration = Default /\ target = Default /\ pending = Default
  /\ before = nibbles /\ awaiting = FALSE /\ degraded = {} /\ manual = FALSE /\ broken = FALSE
  /\ calls = 0 /\ faults = 0

(***************************************************************************)
(* Calls of the simulator.                                                 *)
(***************************************************************************)
Run(what, list) == call' = what /\ ops' = list /\ at' = 0 /\ tries' = 0 /\ UNCHANGED previous
Settle == call' = "idle" /\ ops' = <<>> /\ at' = 0 /\ tries' = 0 /\ UNCHANGED previous

\* _apply_hardware reads the masks outside its own try, then runs the steps.
ApplyTo(c) ==
  /\ call = "idle" /\ (available \/ Affected(configuration, c) = {})
  /\ before' = nibbles /\ target' = c
  /\ Run("apply", ApplyHardware(configuration, c))
  /\ UNCHANGED <<bus, available, configuration, awaiting, degraded, manual, broken, faults>>

Apply ==
  /\ calls < MaxCalls /\ ~awaiting
  /\ \E c \in Configs : ApplyTo(c)
  /\ pending' = configuration /\ calls' = calls + 1

\* rollback, asked for or by the timer of tick.
TakeBack == awaiting /\ ApplyTo(pending) /\ UNCHANGED <<pending, calls>>

Confirm ==
  /\ call = "idle" /\ awaiting
  /\ awaiting' = FALSE
  /\ UNCHANGED <<bus, available, process, configuration, target, before, pending, degraded,
                 manual, broken, calls, faults>>

\* manual: an override of the reported PWM, for at most a minute.
Manual ==
  /\ call = "idle" /\ ~awaiting /\ ~manual /\ calls < MaxCalls
  /\ manual' = TRUE /\ calls' = calls + 1
  /\ UNCHANGED <<bus, available, process, configuration, target, before, pending, awaiting,
                 degraded, broken, faults>>

\* tick: the minute is over and the curve is written again.
Expire ==
  /\ call = "idle" /\ manual
  /\ Run("release", <<FanOp(configuration.fan)>>)
  /\ UNCHANGED <<bus, available, authority, calls, faults>>

(***************************************************************************)
(* How an operation ends.                                                  *)
(***************************************************************************)
KeepAuthority == UNCHANGED authority

Finished ==
  \/ /\ call \in {"boot", "rollback", "mute"}
     /\ KeepAuthority
  \/ /\ call = "release" /\ manual' = FALSE
     /\ UNCHANGED <<configuration, target, before, pending, awaiting, degraded, broken>>
  \/ /\ call = "apply"
     /\ configuration' = target /\ awaiting' = ~awaiting
     /\ degraded' = degraded \ Affected(configuration, target)
     /\ UNCHANGED <<target, before, pending, manual, broken>>

\* A curve that is applied ends the manual override.
Done ==
  IF Len(ops) > 1
    THEN /\ ops' = Tail(ops) /\ at' = 0 /\ tries' = 0
         /\ manual' = (manual /\ ~(call = "apply" /\ Op.op = "fan"))
         /\ UNCHANGED <<call, previous>>
         /\ UNCHANGED <<configuration, target, before, pending, awaiting, degraded, broken>>
    ELSE Settle /\ Finished

StartMute ==
  /\ IF Affected(configuration, target) = {}
       THEN Settle
       ELSE Run("mute", MuteAll(configuration, target))
  /\ degraded' = degraded \cup Affected(configuration, target) /\ broken' = TRUE
  /\ UNCHANGED <<configuration, target, before, pending, awaiting, manual>>

StartRollback ==
  LET list == RollbackHardware(configuration, target, before)
  IN /\ IF list = <<>> THEN Settle ELSE Run("rollback", list)
     /\ KeepAuthority

\* The operation raised.
Raise ==
  \/ call = "apply" /\ StartRollback
  \/ call = "rollback" /\ StartMute
  \/ call = "mute" /\ Done
  \/ call = "release" /\ Settle /\ KeepAuthority

Goto(n) == at' = n /\ tries' = 0 /\ UNCHANGED <<call, ops, previous>> /\ KeepAuthority
Fault == faults < MaxFaults /\ call # "boot" /\ faults' = faults + 1

(***************************************************************************)
(* selected_bus.                                                           *)
(***************************************************************************)
Enter(branch) ==
  /\ at = 0
  /\ \/ /\ available
        /\ previous' = mux /\ mux' = branch /\ at' = 1
        /\ UNCHANGED <<call, ops, tries, nibbles, reserved, fan>> /\ KeepAuthority
     \/ ~available /\ Raise /\ UNCHANGED bus
  /\ UNCHANGED <<available, calls, faults>>

Leave(n) ==
  /\ at = n
  /\ IF available
       THEN mux' = previous /\ Done
       ELSE Raise /\ UNCHANGED mux
  /\ UNCHANGED <<nibbles, reserved, fan, available, calls, faults>>

LeaveRaising(n) ==
  /\ at = n
  /\ mux' = IF available THEN previous ELSE mux
  /\ Raise
  /\ UNCHANGED <<nibbles, reserved, fan, available, calls, faults>>

(***************************************************************************)
(* update_tx_mask: offset 56, then offset 57, each until it reads back.    *)
(***************************************************************************)
\* Mutant: the other groups' bits are not merged into the byte.
MaskTargetAlone(g, lanes) ==
  [p \in 0..2 |-> IF p = g[2] THEN lanes ELSE {}]
MaskTarget(g, lanes) == [nibbles[g[1]] EXCEPT ![g[2]] = lanes]

MaskByte(n, positions) ==
  LET m == Op.group[1]
      want == MaskTarget(Op.group, Op.lanes)
      held == \A p \in positions : nibbles[m][p] = want[p]
  IN
  /\ at = n
  /\ UNCHANGED <<mux, reserved, fan, available, calls>>
  /\ \/ /\ ~available /\ Goto(4) /\ UNCHANGED <<nibbles, faults>>
     \/ /\ available /\ held /\ Goto(n + 1) /\ UNCHANGED <<nibbles, faults>>
     \/ /\ available /\ ~held /\ tries = Retries /\ Goto(4) /\ UNCHANGED <<nibbles, faults>>
     \/ /\ available /\ ~held /\ tries < Retries
        /\ tries' = tries + 1 /\ UNCHANGED <<call, ops, at, previous>> /\ KeepAuthority
        /\ \/ /\ nibbles' = [nibbles EXCEPT ![m] =
                               [p \in 0..2 |-> IF p \in positions THEN want[p] ELSE @[p]]]
              /\ UNCHANGED faults
           \/ Fault /\ UNCHANGED nibbles

MaskAccess ==
  /\ ops # <<>> /\ Op.op = "mask"
  /\ \/ Enter(Branch(Op.group[1]))
     \/ MaskByte(1, {2})
     \/ MaskByte(2, {0, 1})
     \/ Leave(3)
     \/ LeaveRaising(4)

(***************************************************************************)
(* apply_fan_curve.                                                        *)
(***************************************************************************)
\* One register: written and read back, lost on the way, or the bus goes
\* away after the write and the read raises.
FanAccess(k) ==
  LET w == FanWrite(Op.fan, k)
  IN
  /\ at = k
  /\ UNCHANGED <<nibbles, reserved, mux, calls>>
  /\ \/ ~available /\ Goto(LastWrite + 2) /\ UNCHANGED <<fan, available, faults>>
     \/ available /\ fan' = FanAfter(w) /\ Goto(k + 1) /\ UNCHANGED <<available, faults>>
     \/ available /\ Fault /\ Goto(IF FanHolds(w) THEN k + 1 ELSE LastWrite + 2)
          /\ UNCHANGED <<fan, available>>
     \/ available /\ Fault /\ fan' = FanAfter(w) /\ available' = FALSE /\ Goto(LastWrite + 2)

\* After a failure: direct mode and full PWM, neither of them verified.
BestEffort(n, w) ==
  /\ at = n
  /\ \/ ~available /\ Goto(LastWrite + 4) /\ UNCHANGED <<fan, faults>>
     \/ available /\ fan' = FanAfter(w) /\ Goto(n + 1) /\ UNCHANGED faults
     \/ available /\ Fault /\ Goto(n + 1) /\ UNCHANGED fan
  /\ UNCHANGED <<nibbles, reserved, mux, available, calls>>

ApplyFanCurve ==
  /\ ops # <<>> /\ Op.op = "fan"
  /\ \/ Enter(FanBranch)
     \/ \E k \in 1..LastWrite : FanAccess(k)
     \/ Leave(LastWrite + 1)
     \/ BestEffort(LastWrite + 2, FanWrite(Op.fan, 1))
     \/ BestEffort(LastWrite + 3, FanWrite(Op.fan, 2))
     \/ LeaveRaising(LastWrite + 4)

\* _step: a step of the SDK, which may fail.
StepHardware ==
  /\ ops # <<>> /\ Op.op = "step"
  /\ \/ Done /\ UNCHANGED faults
     \/ Fault /\ Raise
     \/ Fault /\ call = "apply" /\ StartMute     \* fail_rollback is armed as well
  /\ UNCHANGED <<bus, available, calls>>

LoseBus ==
  /\ available /\ Fault /\ available' = FALSE
  /\ UNCHANGED <<bus, process, authority, calls>>
RegainBus ==
  /\ ~available /\ available' = TRUE
  /\ UNCHANGED <<bus, process, authority, calls, faults>>

BoardNext ==
  \/ Apply \/ TakeBack \/ Confirm \/ Manual \/ Expire
  \/ MaskAccess \/ ApplyFanCurve \/ StepHardware
  \/ LoseBus \/ RegainBus

BoardSpec == BoardInit /\ [][BoardNext]_boardVars

(***************************************************************************)
(* Properties.                                                             *)
(***************************************************************************)

\* Every variable has its type.
BoardTypeOK ==
  /\ nibbles \in [Mpos -> [0..2 -> SUBSET Lanes]] /\ reserved \in [Mpos -> 0..15]
  /\ mux \in {1, 2, FanBranch} /\ previous \in {1, 2, FanBranch}
  /\ fan \in [Registers -> Curves \cup {Blank, "direct", "lut", "full"}]
  /\ call \in {"idle", "boot", "apply", "rollback", "mute", "release"}
  /\ (ops = <<>>) <=> (call = "idle")
  /\ at \in 0..(LastWrite + 4) /\ tries \in 0..Retries
  /\ {configuration, target, pending} \subseteq Configs
  /\ degraded \subseteq Groups /\ {available, awaiting, manual, broken} \subseteq BOOLEAN

\* Writing one group's lanes never changes a lane of another group, nor the
\* reserved nibble, though three groups share two registers, at any access
\* and whatever write is lost (board.py update_tx_mask).
OthersUntouched ==
  [][ /\ reserved' = reserved
      /\ \A m \in Mpos, p \in 0..2 : nibbles'[m][p] # nibbles[m][p] =>
           ops # <<>> /\ Op.op = "mask" /\ Op.group = <<m, p>> ]_boardVars

\* The fan controller runs its table on its own only when the table and the
\* critical limit are those of one curve: a curve that is half written, because
\* the bus went away or a write did not latch, is never the running one.
AutomaticIsWhole ==
  fan[Mode] = "lut" =>
    \E c \in Curves : fan[Limit] = c /\ \A i \in 1..Points : fan[Lut(i)] = c

\* Between two calls every group that is not reported degraded transmits on
\* exactly the lanes of the configuration the authority reports, and the
\* running fan table is that configuration's unless a rollback failed.
ClaimsHold ==
  call = "idle" =>
    /\ \A g \in Groups \ degraded :
         nibbles[g[1]][g[2]] = GroupMask(configuration.group[g])
    /\ ~broken /\ ~manual => fan[Mode] = "lut" /\ fan[Limit] = configuration.fan
=============================================================================
