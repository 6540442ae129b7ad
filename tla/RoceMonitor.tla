---------------------------- MODULE RoceMonitor ----------------------------
(***************************************************************************)
(* The history of RoCE samples (roce_monitor.py): a port is suspected of a *)
(* pause stall only after samples that leave no room for a recovery in     *)
(* between.  One port is modelled; the others are observed alike, and      *)
(* forgotten with it.                                                      *)
(*                                                                         *)
(* A reading takes several remote calls (netlab.py _read_roce), while the  *)
(* switch (external) is reconfigured and its counters go on.               *)
(***************************************************************************)
EXTENDS Integers, Sequences

CONSTANTS
  Interval,               \* interval_seconds
  StallSeconds,           \* a stall is suspected from here on
  Pauses,                 \* the times between two readings that are tried
  Unread,                 \* no reading, no value
  MaxReadings, MaxRoceRevisions \* bounds

ASSUME MonitorAssumption ==
  /\ Interval \in Nat \ {0} /\ StallSeconds \in Nat \ {0} /\ Pauses \subseteq Nat
  /\ Unread \notin Nat

VARIABLES
  roceSwitch,  \* [revision, pending, generation, tx]: configuration and counters
  roceClock,   \* the monotonic clock, at the last reading
  reading,     \* the reading that runs, or Unread
  monitor,     \* last_read, revision, generation, and previous of the port
  stalls,      \* history: the stalled samples since the last other one
  readings     \* bound

monitorVars == <<roceSwitch, roceClock, reading, monitor, stalls, readings>>

NothingPrior == [stalled |-> FALSE, observed |-> 0, alarm |-> FALSE, tx |-> Unread]

MonitorInit ==
  /\ roceSwitch = [revision |-> 1, pending |-> FALSE, generation |-> 0, tx |-> 0]
  /\ roceClock = 0 /\ reading = Unread /\ stalls = <<>> /\ readings = 0
  /\ monitor = [lastRead |-> Unread, revision |-> Unread, generation |-> Unread,
                prior |-> NothingPrior]

(***************************************************************************)
(* The switch: a transaction, a fresh set of counters, bytes transmitted.  *)
(***************************************************************************)
RoceApply ==
  /\ ~roceSwitch.pending /\ roceSwitch.revision < MaxRoceRevisions
  /\ roceSwitch' = [roceSwitch EXCEPT !.pending = TRUE, !.revision = @ + 1]
  /\ UNCHANGED <<roceClock, reading, monitor, stalls, readings>>
RoceCommitted ==
  /\ roceSwitch.pending
  /\ roceSwitch' = [roceSwitch EXCEPT !.pending = FALSE]
  /\ UNCHANGED <<roceClock, reading, monitor, stalls, readings>>
Transmit ==
  /\ roceSwitch.tx < readings + 1
  /\ roceSwitch' = [roceSwitch EXCEPT !.tx = readings + 1]
  /\ UNCHANGED <<roceClock, reading, monitor, stalls, readings>>

(***************************************************************************)
(* RoceMonitor.observe.                                                    *)
(***************************************************************************)
\* gap: what was observed before counts no longer.
\* Mutant: a reading that failed leaves no gap.
NoGap(m) == m
Gap(m) == [m EXCEPT !.generation = Unread, !.prior = NothingPrior]

Continuous(m, sample, now) ==
  /\ m.lastRead # Unread /\ now - m.lastRead > 0 /\ now - m.lastRead <= 3 * Interval
  /\ sample.generation # Unread /\ m.generation # Unread
  /\ sample.generation > m.generation

Known(m, sample, now) ==
  LET same == IF sample.revision = m.revision THEN m ELSE Gap(m)
  IN IF Continuous(same, sample, now) THEN same.prior ELSE NothingPrior
Observe(m, sample, now) ==
  LET prior == Known(m, sample, now)
      still == sample.stalled /\ prior.stalled /\ sample.tx = prior.tx
      observed == IF still THEN prior.observed + now - m.lastRead ELSE 0
  IN [lastRead |-> now, revision |-> sample.revision, generation |-> sample.generation,
      prior |-> [stalled |-> sample.stalled, observed |-> observed,
                 alarm |-> sample.stalled /\ observed >= StallSeconds, tx |-> sample.tx]]

(***************************************************************************)
(* NetlabBackend._read_roce and operational.                               *)
(***************************************************************************)
\* Some time after the last one; a transaction in progress refuses it.
ReadRoce ==
  /\ reading = Unread /\ readings < MaxReadings
  /\ \E d \in Pauses : roceClock' = roceClock + d
  /\ readings' = readings + 1
  /\ IF roceSwitch.pending
     THEN monitor' = Gap(monitor) /\ stalls' = <<>> /\ UNCHANGED reading
     ELSE reading' = [revision |-> roceSwitch.revision, sample |-> Unread] /\ UNCHANGED <<monitor, stalls>>
  /\ UNCHANGED roceSwitch

\* The counters, taken anew or those of the reading before, or not to be had.
ReadParts ==
  /\ reading # Unread /\ reading.sample = Unread
  /\ \E stalled \in BOOLEAN, generation \in {roceSwitch.generation, roceSwitch.generation + 1, Unread} :
       /\ reading' = [reading EXCEPT !.sample =
            [revision |-> roceSwitch.revision, generation |-> generation,
             stalled |-> stalled /\ generation # Unread, tx |-> roceSwitch.tx]]
       /\ roceSwitch' = [roceSwitch EXCEPT !.generation = IF generation = Unread THEN @ ELSE generation]
  /\ UNCHANGED <<roceClock, monitor, stalls, readings>>

\* Mutant: the configuration is not asked for again.
AnyRevision(read) == TRUE
OneRevision(read) == read.revision = roceSwitch.revision /\ ~roceSwitch.pending

Sampled ==
  /\ reading # Unread /\ reading.sample # Unread /\ OneRevision(reading)
  /\ LET sample == [reading.sample EXCEPT !.revision = roceSwitch.revision]
         entry == [at |-> roceClock, revision |-> reading.sample.revision, applied |-> ~roceSwitch.pending,
                   generation |-> sample.generation, tx |-> sample.tx]
     IN /\ monitor' = Observe(monitor, sample, roceClock)
        /\ stalls' = IF sample.stalled THEN Append(stalls, entry) ELSE <<>>
  /\ reading' = Unread /\ UNCHANGED <<roceSwitch, roceClock, readings>>

\* A call failed, or the configuration is another one: operational notes a gap.
ReadingFails ==
  /\ reading # Unread
  /\ monitor' = Gap(monitor) /\ stalls' = <<>> /\ reading' = Unread
  /\ UNCHANGED <<roceSwitch, roceClock, readings>>

MonitorNext ==
  RoceApply \/ RoceCommitted \/ Transmit \/ ReadRoce \/ ReadParts \/ Sampled \/ ReadingFails

MonitorSpec == MonitorInit /\ [][MonitorNext]_monitorVars

(***************************************************************************)
(* Properties.                                                             *)
(***************************************************************************)

\* Stalled samples from the i-th on, of one confirmed configuration, with
\* fresh counters each time, no byte sent, and no longer pause than three
\* intervals between two of them.
Unbroken(i) ==
  \A j \in i..Len(stalls) :
    /\ stalls[j].revision = stalls[Len(stalls)].revision /\ stalls[j].applied
    /\ j > i => /\ stalls[j].generation > stalls[j - 1].generation
                /\ stalls[j].tx = stalls[j - 1].tx
                /\ stalls[j].at - stalls[j - 1].at \in 1..(3 * Interval)

\* The port is suspected exactly while the last samples earn it: they are
\* stalled and unbroken for the whole time, with no failed reading, no
\* transaction and no repeated counters among them.
AlarmIsEarned ==
  monitor.prior.alarm <=>
    \E i \in DOMAIN stalls :
      Unbroken(i) /\ stalls[Len(stalls)].at - stalls[i].at >= StallSeconds
=============================================================================
