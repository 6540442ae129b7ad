-------------------------- MODULE OwnerQueue_proofs --------------------------
(***************************************************************************)
(* The safety of the owner queue for any number of clients, keys and       *)
(* priorities and any capacity.  The invariant says where accepted work    *)
(* is, and that the only moment a key is not recorded for its work is      *)
(* while the submitter still holds the lock.                               *)
(***************************************************************************)
EXTENDS OwnerQueue, TLAPS

\* An unresolved future belongs to work that is queued or being executed.
WorkIsSomewhere ==
  \A c \in Clients : future[c] = "pending" => c \in queued \/ (owner = "execute" /\ current = c)

QueuedIsPending ==
  /\ \A c \in queued : future[c] = "pending"
  /\ owner = "execute" => future[current] = "pending"

OwnerHasWork ==
  /\ owner \in {"execute", "discard"} <=> current # Nobody
  /\ owner = "execute" => current \notin queued

OwnerLeaves == owner \in {"finalize", "ended"} => stopping /\ queued = {}

Held == queued \cup ({current} \ {Nobody})

KeyIsHeld == \A c \in Held : Keyed(c) /\ lock # c => Key[c] \in keys

\* The work of a submitter inside its critical section is there, its key is not yet.
LockedKey == lock # Nobody => lock \in Held /\ (Keyed(lock) => Key[lock] \notin keys)

NotTwice == current # Nobody /\ Keyed(current) => current \notin queued

KeysHaveWork == \A k \in keys : \E c \in Held : Key[c] = k

IInv ==
  /\ TypeOK
  /\ WorkIsSomewhere
  /\ QueuedIsPending
  /\ OwnerHasWork
  /\ OwnerLeaves
  /\ KeyIsHeld
  /\ LockedKey
  /\ NotTwice
  /\ OnePerKey
  /\ KeysHaveWork
-----------------------------------------------------------------------------
LEMMA TypeStep ==
  ASSUME TypeOK, OwnerHasWork, [Next]_vars
  PROVE  TypeOK'
<1> USE QueueAssumption DEF TypeOK
<1>1. ASSUME NEW c \in Clients, Put(c) PROVE TypeOK'
  BY <1>1 DEF Put
<1>2. ASSUME NEW c \in Clients, AddKey(c) PROVE TypeOK'
  BY <1>2 DEF AddKey, Keyed, Keys
<1>3. ASSUME NEW c \in Clients, Declined(c) PROVE TypeOK'
  BY <1>3 DEF Declined
<1>4. ASSUME NEW k \in Closers, Close(k) PROVE TypeOK'
  BY <1>4 DEF Close
<1>5. ASSUME NEW c \in Clients, Take(c) PROVE TypeOK'
  BY <1>5 DEF Take
<1>6. CASE Resolve
  BY <1>6 DEF Resolve, OwnerHasWork
<1>7. CASE DiscardKey
  BY <1>7 DEF DiscardKey
<1>8. CASE Leave \/ EnterGet \/ Empty \/ Finalize
  BY <1>8 DEF Leave, EnterGet, Empty, Finalize
<1>9. CASE UNCHANGED vars
  BY <1>9 DEF vars
<1> QED
  BY <1>1, <1>2, <1>3, <1>4, <1>5, <1>6, <1>7, <1>8, <1>9 DEF Next, Owner

\* Where the accepted work is.
Places == WorkIsSomewhere /\ QueuedIsPending /\ OwnerHasWork /\ OwnerLeaves

LEMMA PlacesStep ==
  ASSUME TypeOK, Places, LockedKey, [Next]_vars
  PROVE  Places'
<1> USE QueueAssumption DEF TypeOK, Places, WorkIsSomewhere, QueuedIsPending, OwnerHasWork, OwnerLeaves
<1>1. ASSUME NEW c \in Clients, Put(c) PROVE Places'
  BY <1>1 DEF Put, Accepts
<1>2. ASSUME NEW c \in Clients, AddKey(c) PROVE Places'
  BY <1>2 DEF AddKey
<1>3. ASSUME NEW c \in Clients, Declined(c) PROVE Places'
  BY <1>3 DEF Declined
<1>4. ASSUME NEW k \in Closers, Close(k) PROVE Places'
  BY <1>4 DEF Close
<1>5. ASSUME NEW c \in Clients, Take(c) PROVE Places'
  BY <1>5 DEF Take
<1>6. CASE Resolve
  BY <1>6 DEF Resolve
<1>7. CASE DiscardKey
  BY <1>7 DEF DiscardKey
<1>8. CASE Leave \/ EnterGet \/ Empty \/ Finalize
  BY <1>8 DEF Leave, EnterGet, Empty, Finalize
<1>9. CASE UNCHANGED vars
  BY <1>9 DEF vars
<1> QED
  BY <1>1, <1>2, <1>3, <1>4, <1>5, <1>6, <1>7, <1>8, <1>9 DEF Next, Owner

\* Which keys are recorded.
Recorded == KeyIsHeld /\ LockedKey /\ NotTwice /\ OnePerKey /\ KeysHaveWork

LEMMA RecordedStep ==
  ASSUME TypeOK, Places, Recorded, [Next]_vars
  PROVE  Recorded'
<1> USE QueueAssumption
        DEF TypeOK, Recorded, KeyIsHeld, LockedKey, NotTwice, OnePerKey, KeysHaveWork, Held, Keyed
<1>1. ASSUME NEW c \in Clients, Put(c) PROVE Recorded'
  BY <1>1 DEF Put, Accepts, Places, OwnerHasWork
<1>2. ASSUME NEW c \in Clients, AddKey(c) PROVE Recorded'
  BY <1>2 DEF AddKey
<1>3. ASSUME NEW c \in Clients, Declined(c) PROVE Recorded'
  BY <1>3 DEF Declined
<1>4. ASSUME NEW k \in Closers, Close(k) PROVE Recorded'
  BY <1>4 DEF Close
<1>5. ASSUME NEW c \in Clients, Take(c) PROVE Recorded'
  <2>1. current = Nobody /\ current' = c /\ Held' = Held /\ lock' = lock /\ keys' = keys
    BY <1>5 DEF Take, Places, OwnerHasWork
  <2> QED
    BY <1>5, <2>1 DEF Take
<1>6. CASE Resolve
  BY <1>6 DEF Resolve
<1>7. CASE DiscardKey
  <2>1. /\ current # Nobody /\ current \in Clients /\ lock = Nobody
        /\ keys' = keys \ {Key[current]} /\ current' = Nobody
        /\ queued' = queued /\ lock' = lock
    BY <1>7 DEF DiscardKey, Places, OwnerHasWork
  <2>2. \A c \in queued : Keyed(c) => Key[c] # Key[current]
    BY <2>1
  <2> QED
    BY <2>1, <2>2
<1>8. CASE Leave \/ EnterGet \/ Empty \/ Finalize
  BY <1>8 DEF Leave, EnterGet, Empty, Finalize
<1>9. CASE UNCHANGED vars
  BY <1>9 DEF vars
<1> QED
  BY <1>1, <1>2, <1>3, <1>4, <1>5, <1>6, <1>7, <1>8, <1>9 DEF Next, Owner

LEMMA Inductive == Spec => []IInv
<1>1. Init => IInv
  BY QueueAssumption
  DEF Init, IInv, TypeOK, WorkIsSomewhere, QueuedIsPending, OwnerHasWork, OwnerLeaves, KeyIsHeld,
      LockedKey, NotTwice, OnePerKey, KeysHaveWork, Held
<1>2. IInv /\ [Next]_vars => IInv'
  BY TypeStep, PlacesStep, RecordedStep DEF IInv, Places, Recorded
<1> QED
  BY <1>1, <1>2, PTL DEF Spec
-----------------------------------------------------------------------------
\* The queue's state is well typed for every set of clients and keys.
THEOREM TypeCorrect == Spec => []TypeOK
<1>1. IInv => TypeOK
  BY DEF IInv
<1> QED
  BY <1>1, Inductive, PTL

\* No interleaving of submitters with the owner leaves a key behind.
THEOREM KeysCorrect == Spec => []NoKeyOutlivesItsWork
<1>1. IInv => NoKeyOutlivesItsWork
  BY DEF IInv, TypeOK, KeysHaveWork, Held, NoKeyOutlivesItsWork
<1> QED
  BY <1>1, Inductive, PTL

\* Coalescing works: one piece of work per key, queued or in execution.
THEOREM CoalescingCorrect == Spec => []OnePerKey
<1>1. IInv => OnePerKey
  BY DEF IInv
<1> QED
  BY <1>1, Inductive, PTL

\* Whenever close() comes in, the transport outlives all accepted work.
THEOREM ShutdownCorrect == Spec => []NothingLeftBehind
<1>1. IInv => NothingLeftBehind
  BY DEF IInv, WorkIsSomewhere, OwnerLeaves, NothingLeftBehind
<1> QED
  BY <1>1, Inductive, PTL
=============================================================================
