------------------------------ MODULE EyeScan ------------------------------
(***************************************************************************)
(* One eye diagram: the native scan of a lane (fm10k_eye_scan.c), which    *)
(* pauses the equalizer, borrows the sampler and gives both back, and the  *)
(* panel's retrieval of its columns page by page (eye.py, service.py).     *)
(*                                                                         *)
(* A remote call is atomic; the scan goes on between two calls, and the    *)
(* panel holds its owner thread during a whole read.                       *)
(***************************************************************************)
EXTENDS Integers, Sequences, FiniteSets, SequencesExt, Functions

CONSTANTS
  ScanIds,           \* request identifiers
  Columns,           \* x_points
  PageRows,          \* columns of one reply
  ExtraReads,        \* further pages of one read_eye
  CacheLimit,        \* scans the panel keeps
  MaxScans, MaxEyeTroubles \* bounds

ASSUME EyeAssumption ==
  /\ "none" \notin ScanIds
  /\ Columns \in Nat \ {0} /\ PageRows \in Nat \ {0}
  /\ ExtraReads \in Nat /\ CacheLimit \in Nat \ {0}

VARIABLES
  scan,        \* the native scan; run stands for started_at
  lane,        \* what the scan changes on the lane
  eyeCache,    \* _eye_cache: values by id
  eyeOrder,    \* the ids of _eye_cache, oldest first
  eyeRead,     \* the read_eye that runs: [value, left]
  scans, eyeTroubles \* bounds

eyeVars == <<scan, lane, eyeCache, eyeOrder, eyeRead, scans, eyeTroubles>>

NoScan == [id |-> "none", run |-> 0, state |-> "idle", done |-> 0, cancel |-> FALSE,
           paused |-> FALSE, prepared |-> FALSE, configured |-> FALSE,
           restored |-> FALSE, restoreFailed |-> FALSE]
WholeLane == [equalizer |-> "running", source |-> "own", compare |-> "mission"]
NoValue == [id |-> "none", run |-> 0, state |-> "none", done |-> 0, rows |-> <<>>,
            restored |-> FALSE]
NoRead == [value |-> NoValue, left |-> 0]

EyeInit ==
  /\ scan = NoScan /\ lane = WholeLane
  /\ eyeCache = <<>> /\ eyeOrder = <<>> /\ eyeRead = NoRead
  /\ scans = 0 /\ eyeTroubles = 0

(***************************************************************************)
(* The native scan.                                                        *)
(***************************************************************************)
Scanning(s) == s.state \in {"preparing", "running"}

\* A write to the lane: an error reply can follow a successful write.
Outcomes == {"done", "unacknowledged", "refused"}
Takes(outcome) == outcome # "refused"
Costs(outcomes) ==
  eyeTroubles' = eyeTroubles + Cardinality({w \in DOMAIN outcomes : outcomes[w] # "done"})
  /\ eyeTroubles' <= MaxEyeTroubles

\* finish: each restoration is tried, also after another one failed; the
\* equalizer stays paused when the shared firmware could not be restored.
Finish(s, l, state) ==
  \E o \in [{"compare", "restore", "resume"} -> Outcomes] :
    LET borrowed == s.prepared \/ s.configured
        lost == borrowed /\ o["restore"] = "refused"
        resumes == s.paused /\ ~lost
        failed == \/ s.configured /\ o["compare"] # "done"
                  \/ borrowed /\ o["restore"] # "done"
                  \/ resumes /\ o["resume"] # "done"
    IN /\ Costs(o)
       /\ lane' = [equalizer |-> IF resumes /\ Takes(o["resume"]) THEN "running" ELSE l.equalizer,
                   source |-> IF borrowed /\ Takes(o["restore"]) THEN "own" ELSE l.source,
                   compare |-> IF s.configured /\ Takes(o["compare"]) THEN "mission" ELSE l.compare]
       /\ scan' = [s EXCEPT !.state = IF failed THEN "failed" ELSE state,
                   !.restored = ~failed, !.restoreFailed = failed, !.paused = s.paused /\ lost]

\* The pause is noted before it is asked for.
\* Mutant: it is noted once it is acknowledged.
PausedWhenAcknowledged(s, outcome) == [s EXCEPT !.paused = outcome = "done"]
Paused(s, outcome) == [s EXCEPT !.paused = TRUE]

\* fm10k_eye_start
Begin(id) ==
  LET fresh == [NoScan EXCEPT !.id = id, !.run = scans + 1, !.state = "preparing"]
  IN \/ Finish(fresh, lane, "failed")        \* no signal
     \/ \E o \in Outcomes :
          LET paused == Paused(fresh, o)
              after == IF Takes(o) THEN [lane EXCEPT !.equalizer = "paused"] ELSE lane
          IN IF o = "done" THEN scan' = paused /\ lane' = after /\ UNCHANGED eyeTroubles
             ELSE eyeTroubles < MaxEyeTroubles /\ Finish(paused, after, "failed")

\* fm10k_eye_tick: the equalizer has stopped; prepare, setup and the first sample.
Ready ==
  /\ scan.state = "preparing" /\ ~scan.cancel
  /\ \E o \in [{"prepare", "setup"} -> Outcomes] :
       LET s == [scan EXCEPT !.prepared = TRUE, !.configured = o["prepare"] = "done"]
           l == [lane EXCEPT !.source = IF Takes(o["prepare"]) THEN "borrowed" ELSE @,
                   !.compare = IF s.configured /\ Takes(o["setup"]) THEN "sampling" ELSE @]
       IN IF o["prepare"] = "done" /\ o["setup"] = "done"
          THEN scan' = [s EXCEPT !.state = "running"] /\ lane' = l /\ UNCHANGED eyeTroubles
          ELSE eyeTroubles < MaxEyeTroubles /\ Finish(s, l, "failed")
  /\ UNCHANGED <<eyeCache, eyeOrder, eyeRead, scans>>

\* fm10k_eye_tick: a column has been gathered.
Column ==
  /\ scan.state = "running"
  /\ LET s == [scan EXCEPT !.done = @ + 1]
     IN IF s.cancel THEN Finish(s, lane, "cancelled")
        ELSE IF s.done = Columns THEN Finish(s, lane, "complete")
        ELSE scan' = s /\ UNCHANGED <<lane, eyeTroubles>>
  /\ UNCHANGED <<eyeCache, eyeOrder, eyeRead, scans>>

\* A cancelled scan stops before its next column; a timeout or a lost signal fails it.
CancelTakesEffect ==
  /\ Scanning(scan) /\ scan.cancel /\ Finish(scan, lane, "cancelled")
  /\ UNCHANGED <<eyeCache, eyeOrder, eyeRead, scans>>
ScanFails ==
  /\ Scanning(scan) /\ eyeTroubles < MaxEyeTroubles
  /\ Finish(scan, lane, "failed")
  /\ UNCHANGED <<eyeCache, eyeOrder, eyeRead, scans>>

\* The native service starts anew, with the switch.
NativeRestart ==
  /\ eyeTroubles < MaxEyeTroubles /\ eyeTroubles' = eyeTroubles + 1
  /\ scan' = NoScan /\ lane' = WholeLane
  /\ UNCHANGED <<eyeCache, eyeOrder, eyeRead, scans>>

(***************************************************************************)
(* A page, and what the panel makes of it.                                 *)
(***************************************************************************)
\* fm10k_eye_format: the columns from one on, each marked with its run.
Page(s, column) ==
  [id |-> s.id, run |-> s.run, done |-> s.done, offset |-> column, restored |-> s.restored,
   state |-> IF Scanning(s) /\ s.cancel THEN "cancelling" ELSE s.state,
   failed |-> s.restoreFailed,
   rows |-> [i \in 1..(IF s.done - column < PageRows THEN s.done - column ELSE PageRows) |-> s.run]]

\* validate_chunk
ValidPage(page) ==
  /\ page.offset + Len(page.rows) <= page.done /\ page.done <= Columns
  /\ page.state = "complete" => page.done = Columns /\ page.restored /\ ~page.failed

\* merge_chunk: what it refuses, and what it returns.
Mergeable(previous, page) ==
  /\ ValidPage(page)
  /\ previous # NoValue =>
       previous.id = page.id /\ previous.run = page.run /\ page.done >= previous.done
  /\ page.offset <= Len(previous.rows)
  /\ \A i \in DOMAIN page.rows :
       page.offset + i <= Len(previous.rows) => previous.rows[page.offset + i] = page.rows[i]

\* Mutant: the state of the native scan is shown while columns are still missing.
StateOfScan(page, rows) == page.state
StateShown(page, rows) ==
  IF page.state = "complete" /\ Len(rows) # Columns THEN "reading" ELSE page.state
Merge(previous, page) ==
  LET rows == previous.rows \o
        SubSeq(page.rows, Len(previous.rows) - page.offset + 1, Len(page.rows))
  IN [id |-> page.id, run |-> page.run, done |-> page.done, rows |-> rows,
      restored |-> page.restored, state |-> StateShown(page, rows)]

Cached(id) == IF id \in DOMAIN eyeCache THEN eyeCache[id] ELSE NoValue
\* A dictionary keeps the place of a key it holds already.
Placed(order, id) == IF Contains(order, id) THEN order ELSE Append(order, id)
Keep(value) ==
  /\ eyeCache' = [i \in DOMAIN eyeCache \cup {value.id} |->
                    IF i = value.id THEN value ELSE eyeCache[i]]
  /\ eyeOrder' = Placed(eyeOrder, value.id)
KeepIfMergeable(page) ==
  IF Mergeable(Cached(page.id), page) THEN Keep(Merge(Cached(page.id), page))
  ELSE UNCHANGED <<eyeCache, eyeOrder>>

(***************************************************************************)
(* service.py: start_eye, cancel_eye and read_eye, on the owner thread.    *)
(***************************************************************************)
\* An identifier the native service knows gives its scan, and starts none.
StartEye(id) ==
  /\ eyeRead = NoRead /\ scans < MaxScans
  /\ id # scan.id => ~Scanning(scan) /\ ~scan.restoreFailed
  /\ IF id = scan.id THEN UNCHANGED <<scan, lane, scans, eyeTroubles>>
     ELSE Begin(id) /\ scans' = scans + 1
  /\ KeepIfMergeable(Page(scan', 0))
  /\ UNCHANGED eyeRead

CancelEye ==
  /\ eyeRead = NoRead /\ scan # NoScan
  /\ scan' = IF Scanning(scan) THEN [scan EXCEPT !.cancel = TRUE] ELSE scan
  /\ KeepIfMergeable(Page(scan', 0))
  /\ UNCHANGED <<lane, eyeRead, scans, eyeTroubles>>

\* A saved value with all the columns of an ended scan is answered as it is.
EyeActive == {"preparing", "running", "cancelling", "reading"}
Complete(value) ==
  value # NoValue /\ value.state \notin EyeActive /\ Len(value.rows) = value.done
ReadBegins ==
  /\ eyeRead = NoRead /\ scan # NoScan /\ ~Complete(Cached(scan.id))
  /\ Mergeable(Cached(scan.id), Page(scan, 0))
  /\ eyeRead' = [value |-> Merge(Cached(scan.id), Page(scan, 0)), left |-> ExtraReads]
  /\ UNCHANGED <<scan, lane, eyeCache, eyeOrder, scans, eyeTroubles>>

Wants(read) == read.left > 0 /\ Len(read.value.rows) < read.value.done
NextPage == Page(scan, Len(eyeRead.value.rows))
ReadsOn ==
  /\ eyeRead # NoRead /\ Wants(eyeRead)
  /\ eyeRead' = IF scan.id = eyeRead.value.id /\ Mergeable(eyeRead.value, NextPage)
                THEN [value |-> Merge(eyeRead.value, NextPage), left |-> eyeRead.left - 1]
                ELSE NoRead
  /\ UNCHANGED <<scan, lane, eyeCache, eyeOrder, scans, eyeTroubles>>

\* The value is kept, and the oldest ones beyond the limit are dropped.
ReadEnds ==
  /\ eyeRead # NoRead /\ ~Wants(eyeRead)
  /\ LET order == Placed(eyeOrder, eyeRead.value.id)
         excess == IF Len(order) > CacheLimit THEN Len(order) - CacheLimit ELSE 0
         kept == SubSeq(order, excess + 1, Len(order))
     IN /\ eyeOrder' = kept
        /\ eyeCache' = [i \in ToSet(kept) |-> IF i = eyeRead.value.id THEN eyeRead.value ELSE eyeCache[i]]
  /\ eyeRead' = NoRead
  /\ UNCHANGED <<scan, lane, scans, eyeTroubles>>

EyeNext ==
  \/ \E id \in ScanIds : StartEye(id)
  \/ CancelEye \/ ReadBegins \/ ReadsOn \/ ReadEnds
  \/ Ready \/ Column \/ CancelTakesEffect \/ ScanFails \/ NativeRestart

EyeSpec == EyeInit /\ [][EyeNext]_eyeVars

(***************************************************************************)
(* Properties.                                                             *)
(***************************************************************************)

\* Whatever page was lost, and whenever the scan went on, was cancelled or the
\* service restarted between two pages: the columns the panel keeps are of one
\* run, there are no more than the scan has measured, and it shows a scan as
\* complete only with every column and the lane given back.
EyeIsWhole ==
  \A id \in DOMAIN eyeCache :
    LET value == eyeCache[id]
    IN /\ \A i \in DOMAIN value.rows : value.rows[i] = value.run
       /\ Len(value.rows) <= value.done
       /\ value.state = "complete" => Len(value.rows) = Columns /\ value.restored

\* When no scan runs and none has reported a failed restoration, the equalizer
\* runs and the lane is as it was, whichever write failed or was not
\* acknowledged: no scan starts on a lane another one left changed.
LaneIsGivenBack == ~Scanning(scan) /\ ~scan.restoreFailed => lane = WholeLane
=============================================================================
