----------------------------- MODULE OwnerQueue -----------------------------
(***************************************************************************)
(* The single thread that owns the IPC transport to configd, service.py,   *)
(* class OwnerQueue.  Web requests and the sampler hand it work through a  *)
(* bounded priority queue; work submitted under a key is dropped while the *)
(* key is in use; close() lets the accepted work drain before the          *)
(* finalizer closes the transport, on this thread.                         *)
(*                                                                         *)
(* A client is one place in the program that submits, waits for its future *)
(* and may submit again.  What a future holds is left out: set_result and  *)
(* set_exception take the same path.  The lock is modelled, because work   *)
(* is put in the queue before its key is recorded.                         *)
(***************************************************************************)
EXTENDS Naturals, FiniteSets

CONSTANTS
  Clients,       \* the submitting places
  Priority,      \* the priority each of them submits with: 0 is served first
  Key,           \* the key each of them submits under, or NoKey
  NoKey,
  Capacity,      \* the bound of the queue
  Closers,       \* the callers of close()
  Nobody         \* neither a client nor a closer

Keys == {Key[c] : c \in Clients} \ {NoKey}

ASSUME QueueAssumption ==
  /\ Priority \in [Clients -> Nat]
  /\ \A c \in Clients : Key[c] \in Keys \cup {NoKey}
  /\ Capacity \in Nat \ {0}
  /\ Nobody \notin Clients \cup Closers

VARIABLES
  lock,        \* who holds self.lock: a client between its put and its add, or Nobody
  queued,      \* the clients with work in the queue
  older,       \* <<c, d>>: c's work was put in the queue before d's
  keys,        \* self.keys
  future,      \* per client: "none", "pending" (accepted, unresolved), "resolved"
  stopping,    \* the event
  finalizer,   \* the closer whose finalizer will run, or Nobody
  owner,       \* where the owner thread is
  current      \* the client whose work it has, or Nobody

vars == <<lock, queued, older, keys, future, stopping, finalizer, owner, current>>

Init ==
  /\ lock = Nobody
  /\ queued = {}
  /\ older = {}
  /\ keys = {}
  /\ future = [c \in Clients |-> "none"]
  /\ stopping = FALSE
  /\ finalizer = Nobody
  /\ owner = "loop"
  /\ current = Nobody
-----------------------------------------------------------------------------
(* submit(), by client c, which waits for its previous future.             *)

Keyed(c) == Key[c] # NoKey

\* Mutant: stopping is not looked at.
AcceptsWhileStopping(c) == ~(Keyed(c) /\ Key[c] \in keys) /\ Cardinality(queued) < Capacity

\* Neither shutting down, nor coalesced with work under the same key, nor full.
Accepts(c) ==
  /\ ~stopping
  /\ ~(Keyed(c) /\ Key[c] \in keys)
  /\ Cardinality(queued) < Capacity

\* The first half, under the lock: put_nowait makes the work visible to the owner.
Put(c) ==
  /\ lock = Nobody
  /\ future[c] # "pending"
  /\ Accepts(c)
  /\ lock' = c
  /\ older' = older \cup (queued \X {c})
  /\ queued' = queued \cup {c}
  /\ future' = [future EXCEPT ![c] = "pending"]
  /\ UNCHANGED <<keys, stopping, finalizer, owner, current>>

\* The second half: the key is recorded and the lock released.
AddKey(c) ==
  /\ lock = c
  /\ keys' = IF Keyed(c) THEN keys \cup {Key[c]} ELSE keys
  /\ lock' = Nobody
  /\ UNCHANGED <<queued, older, future, stopping, finalizer, owner, current>>

\* Refused (PanelError) or coalesced (None): nothing is queued for the client.
Declined(c) ==
  /\ lock = Nobody
  /\ future[c] # "pending"
  /\ ~Accepts(c)
  /\ future' = [future EXCEPT ![c] = "none"]
  /\ UNCHANGED <<lock, queued, older, keys, stopping, finalizer, owner, current>>

Close(k) ==
  /\ lock = Nobody
  /\ ~stopping
  /\ finalizer' = k
  /\ stopping' = TRUE
  /\ UNCHANGED <<lock, queued, older, keys, future, owner, current>>
-----------------------------------------------------------------------------
(* _run(), the owner thread.                                               *)

\* Mutant: among equals, the newest first.
PrecedesNewestFirst(c, d) ==
  Priority[c] < Priority[d] \/ (Priority[c] = Priority[d] /\ <<d, c>> \in older)

\* The order of the heap: priority, then the sequence number.
Precedes(c, d) == Priority[c] < Priority[d] \/ (Priority[c] = Priority[d] /\ <<c, d>> \in older)

\* Mutant: the loop ends as soon as it is told to stop.
LeaveOnStop ==
  /\ owner = "loop"
  /\ stopping
  /\ owner' = "finalize"
  /\ UNCHANGED <<lock, queued, older, keys, future, stopping, finalizer, current>>

\* The loop condition fails: stopping is set and the queue is empty.
Leave ==
  /\ owner = "loop"
  /\ stopping
  /\ queued = {}
  /\ owner' = "finalize"
  /\ UNCHANGED <<lock, queued, older, keys, future, stopping, finalizer, current>>

\* The loop condition holds on ~stopping; get() may find nothing for 0.2 s
\* (Empty, and the loop again), so the owner can be in get() when close() runs.
EnterGet ==
  /\ owner = "loop"
  /\ ~stopping \/ queued # {}
  /\ owner' = "get"
  /\ UNCHANGED <<lock, queued, older, keys, future, stopping, finalizer, current>>

Empty ==
  /\ owner = "get"
  /\ queued = {}
  /\ owner' = "loop"
  /\ UNCHANGED <<lock, queued, older, keys, future, stopping, finalizer, current>>

Take(c) ==
  /\ owner = "get"
  /\ c \in queued
  /\ \A d \in queued \ {c} : Precedes(c, d)
  /\ queued' = queued \ {c}
  /\ older' = {p \in older : c \notin {p[1], p[2]}}
  /\ current' = c
  /\ owner' = "execute"
  /\ UNCHANGED <<lock, keys, future, stopping, finalizer>>

\* function() returns or raises: the future is resolved, the key still held.
Resolve ==
  /\ owner = "execute"
  /\ future' = [future EXCEPT ![current] = "resolved"]
  /\ owner' = "discard"
  /\ UNCHANGED <<lock, queued, older, keys, stopping, finalizer, current>>

\* Mutant: the key is discarded without taking the lock.
DiscardKeyUnlocked ==
  /\ owner = "discard"
  /\ keys' = keys \ {Key[current]}
  /\ current' = Nobody
  /\ owner' = "loop"
  /\ UNCHANGED <<lock, queued, older, future, stopping, finalizer>>

\* finally: the key becomes free, under the lock.
DiscardKey ==
  /\ owner = "discard"
  /\ lock = Nobody
  /\ keys' = keys \ {Key[current]}
  /\ current' = Nobody
  /\ owner' = "loop"
  /\ UNCHANGED <<lock, queued, older, future, stopping, finalizer>>

\* self.finalizer() closes the transport; the thread ends.
Finalize ==
  /\ owner = "finalize"
  /\ owner' = "ended"
  /\ UNCHANGED <<lock, queued, older, keys, future, stopping, finalizer, current>>

Owner ==
  \/ Leave
  \/ EnterGet
  \/ Empty
  \/ \E c \in Clients : Take(c)
  \/ Resolve
  \/ DiscardKey
  \/ Finalize

Next ==
  \/ \E c \in Clients : Put(c) \/ AddKey(c) \/ Declined(c)
  \/ \E k \in Closers : Close(k)
  \/ Owner

Spec == Init /\ [][Next]_vars

\* The owner thread is scheduled, work it executes ends (every RPC has a
\* timeout), and a client that has put its work goes on to release the lock.
\* The owner contends for the lock with every submitter, so its own turn at it
\* needs strong fairness: an unfair lock could be taken ahead of it for ever.
Fairness ==
  /\ WF_vars(Owner)
  /\ SF_vars(DiscardKey)
  /\ \A c \in Clients : WF_vars(AddKey(c))

FairSpec == Spec /\ Fairness
-----------------------------------------------------------------------------
TypeOK ==
  /\ lock \in Clients \cup {Nobody}
  /\ queued \subseteq Clients
  /\ older \subseteq Clients \X Clients
  /\ keys \subseteq Keys
  /\ future \in [Clients -> {"none", "pending", "resolved"}]
  /\ stopping \in BOOLEAN
  /\ finalizer \in Closers \cup {Nobody}
  /\ owner \in {"loop", "get", "execute", "discard", "finalize", "ended"}
  /\ current \in Clients \cup {Nobody}

\* A key in use belongs to work that is queued or in the owner's hands.  A key
\* that outlived its work would silence the sampler, whose work it coalesces,
\* for the rest of the process.
NoKeyOutlivesItsWork ==
  \A k \in keys : \E c \in queued \cup {current} : c \in Clients /\ Key[c] = k

\* Work under one key is queued or executed at most once at a time.
OnePerKey ==
  \A c, d \in queued \cup ({current} \ {Nobody}) : Keyed(c) /\ Key[c] = Key[d] => c = d

\* The transport is closed only after all accepted work: no future that a
\* caller waits on is left behind by a shutdown, whenever close() came in.
NothingLeftBehind ==
  owner \in {"finalize", "ended"} => \A c \in Clients : future[c] # "pending"

\* A shutdown completes, however much work was accepted before it and however
\* the submitters contend for the lock.
ShutdownCompletes == stopping ~> (owner = "ended")

\* Work of the most urgent priority is served in turn: it cannot be overtaken
\* for ever.  (Less urgent work can: the sampler waits while requests arrive.)
UrgentIsServed ==
  \A c \in Clients : Priority[c] = 0 => (future[c] = "pending") ~> (future[c] # "pending")
=============================================================================
