------------------------------ MODULE TimeSync ------------------------------
(***************************************************************************)
(* Time synchronisation: time_helper.py, one root helper per connection,   *)
(* at most one of them at work (flock), each of which writes a drop-in of  *)
(* systemd-timesyncd, enables and restarts the daemon and reads back, or   *)
(* puts everything back.                                                   *)
(*                                                                         *)
(* systemctl and timedatectl may fail, or time out after the work is done; *)
(* the daemon may stop; systemd ends a helper that takes over 35 seconds.  *)
(***************************************************************************)
EXTENDS Integers, FiniteSets

CONSTANTS
  Helpers,        \* connections
  ServerLists,    \* lists of servers a request may name
  MaxTimeFaults   \* bound: failures, timeouts, stops, kills

None == "none"    \* no drop-in, no higher setting
Keep == "keep"    \* a request that names no servers
Off == "off"      \* the daemon does not run
ASSUME TimeAssumption == MaxTimeFaults \in Nat /\ {None, Keep, Off} \cap ServerLists = {} /\ None \notin Helpers

VARIABLES
  dropin,     \* 99-fm10k-panel.conf: the list in it, or None
  override,   \* a system setting of higher priority, or None
  ntp,        \* the service is enabled
  daemon,     \* the list the daemon runs with, or Off
  lockHolder, \* helper that holds operation.lock, or None
  helper,     \* by helper: [at, wants, old, was, answer]
  timeFaults

timeVars == <<dropin, override, ntp, daemon, lockHolder, helper, timeFaults>>
system == <<dropin, ntp, daemon>>

\* The list a daemon that starts runs with; None is the distribution's.
Source(file) == IF override # None THEN override ELSE file

TimeInit ==
  /\ dropin \in ServerLists \cup {None} /\ override \in ServerLists \cup {None}
  /\ ntp \in BOOLEAN /\ daemon \in {Off, Source(dropin)}
  /\ lockHolder = None /\ timeFaults = 0
  /\ helper \in [Helpers -> [at : {"ask"}, wants : ServerLists \cup {Keep}, old : {None},
                             was : {FALSE}, answer : {None}]]

TimeFault == timeFaults < MaxTimeFaults /\ timeFaults' = timeFaults + 1
NoFault == UNCHANGED timeFaults
Goes(h, at) == helper' = [helper EXCEPT ![h].at = at]
Answers(h, answer) ==
  /\ helper' = [helper EXCEPT ![h].at = "answered", ![h].answer = answer]
  /\ lockHolder' = IF lockHolder = h THEN None ELSE lockHolder
Stays == UNCHANGED lockHolder

Lock(h) ==
  /\ helper[h].at = "ask" /\ NoFault
  /\ IF lockHolder = None THEN Goes(h, "look") /\ lockHolder' = h ELSE Answers(h, "busy")
  /\ UNCHANGED <<system, override>>

\* sync: the state before; another NTP service ends it here.
Look(h) ==
  /\ helper[h].at = "look"
  /\ \/ /\ NoFault /\ Stays
        /\ helper' = [helper EXCEPT ![h].at = "write", ![h].old = dropin, ![h].was = ntp]
     \/ TimeFault /\ Answers(h, "refused")
  /\ UNCHANGED <<system, override>>

\* write_config: all of the file, or none of it.
Write(h) ==
  /\ helper[h].at = "write" /\ Stays
  /\ \/ /\ NoFault /\ Goes(h, "enable")
        /\ dropin' = IF helper[h].wants = Keep THEN dropin ELSE helper[h].wants
     \/ TimeFault /\ helper[h].wants # Keep /\ Goes(h, "undo") /\ UNCHANGED dropin
  /\ UNCHANGED <<ntp, daemon, override>>

\* timedatectl set-ntp true: the daemon starts if it does not run.
SetNtp == ntp' = TRUE /\ daemon' = IF daemon = Off THEN Source(dropin) ELSE daemon
Enable(h) ==
  /\ helper[h].at = "enable" /\ Stays
  /\ \/ NoFault /\ Goes(h, "restart") /\ SetNtp
     \/ TimeFault /\ Goes(h, "undo") /\ (SetNtp \/ UNCHANGED <<ntp, daemon>>)
  /\ UNCHANGED <<dropin, override>>

Restart(h) ==
  /\ helper[h].at = "restart" /\ Stays
  /\ \/ NoFault /\ Goes(h, "check") /\ daemon' = Source(dropin)
     \/ TimeFault /\ Goes(h, "undo") /\ daemon' \in {daemon, Off, Source(dropin)}
  /\ UNCHANGED <<dropin, ntp, override>>

\* status: the servers of the daemon, or of the file when it does not run.
Shown == IF daemon # Off THEN daemon ELSE dropin
\* Mutant: the servers are not read back.
ReadBackNothing(h) == TRUE
ReadBack(h) == helper[h].wants \in {Keep, Shown}
Check(h) ==
  /\ helper[h].at = "check"
  /\ \/ /\ NoFault /\ ReadBack(h)
        /\ Answers(h, IF daemon = Off THEN "service-error" ELSE "ok")
     \/ /\ (NoFault /\ ~ReadBack(h)) \/ TimeFault
        /\ Goes(h, "undo") /\ Stays
  /\ UNCHANGED <<system, override>>

\* The old file; then the daemon.
\* Mutant: a file that did not exist is left.
OldFileKept(h) == IF helper[h].wants = Keep \/ helper[h].old = None THEN dropin ELSE helper[h].old
OldFile(h) == IF helper[h].wants = Keep THEN dropin ELSE helper[h].old
UndoFile(h) ==
  /\ helper[h].at = "undo"
  /\ \/ NoFault /\ Goes(h, "undoDaemon") /\ Stays /\ dropin' = OldFile(h)
     \/ TimeFault /\ helper[h].wants # Keep /\ Answers(h, "unrestored") /\ UNCHANGED dropin
  /\ UNCHANGED <<ntp, daemon, override>>
Undone(h) ==
  IF helper[h].was THEN daemon' = Source(dropin) /\ UNCHANGED ntp ELSE daemon' = Off /\ ntp' = FALSE
UndoDaemon(h) ==
  /\ helper[h].at = "undoDaemon"
  /\ \/ NoFault /\ Answers(h, "restored") /\ Undone(h)
     \/ TimeFault /\ Answers(h, "unrestored") /\ (Undone(h) \/ UNCHANGED <<ntp, daemon>>)
  /\ UNCHANGED <<dropin, override>>

HelperKilled(h) ==
  /\ helper[h].at \notin {"ask", "answered", "gone"} /\ TimeFault
  /\ Goes(h, "gone") /\ lockHolder' = None
  /\ UNCHANGED <<system, override>>
DaemonStops ==
  /\ daemon # Off /\ TimeFault /\ daemon' = Off
  /\ UNCHANGED <<dropin, override, ntp, lockHolder, helper>>

TimeNext ==
  \/ \E h \in Helpers : \/ Lock(h) \/ Look(h) \/ Write(h) \/ Enable(h) \/ Restart(h) \/ Check(h)
                        \/ UndoFile(h) \/ UndoDaemon(h) \/ HelperKilled(h)
  \/ DaemonStops

TimeSpec == TimeInit /\ [][TimeNext]_timeVars

(***************************************************************************)
(* Properties.                                                             *)
(***************************************************************************)

\* What a helper says of the settings is so when it says it, with others at the
\* door and others killed half-way before it: "ok" means enabled, the drop-in
\* and the daemon with the servers asked for; "restored" means the drop-in and
\* the enabling are what this helper found, and no daemon runs with the list it
\* had tried; "busy" and "refused" mean that it changed nothing.
AnswerHolds(h) ==
  LET it == helper'[h]
      asked == it.wants # Keep
  IN CASE it.answer = "ok" -> ntp' /\ (asked => dropin' = it.wants /\ daemon' = it.wants)
       [] it.answer = "service-error" -> ntp' /\ (asked => dropin' = it.wants)
       [] it.answer = "restored" -> /\ ntp' = it.was /\ (asked => dropin' = it.old)
                                    /\ daemon' \in {Off, Source(dropin')}
       [] OTHER -> TRUE
AnswersHold ==
  [][\A h \in Helpers : helper[h].at # "answered" /\ helper'[h].at = "answered" => AnswerHolds(h)]_timeVars
=============================================================================
