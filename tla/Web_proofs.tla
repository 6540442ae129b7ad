----------------------------- MODULE Web_proofs -----------------------------
(***************************************************************************)
(* What the web process keeps between requests is as old as it says, for   *)
(* any number of browsers, port groups, scans and readings, and the        *)
(* lossless profile it edits is what the switch runs, for any ports, any   *)
(* drafts and any weights.  The modules share no state; each has an        *)
(* invariant of its own.                                                   *)
(***************************************************************************)
EXTENDS Sessions, OpticsCache, EyeScan, RoceMonitor, RoceCommissioning,
  SequenceTheorems, FiniteSetTheorems, TLAPS

(***************************************************************************)
(* Sessions.  What makes SessionsFollowCredentials inductive: while there  *)
(* is no administrator there is no session either, so the first generation *)
(* has none to inherit.                                                    *)
(***************************************************************************)
\* Every session is of the generation on disk, and without one there is none.
CredentialsHold ==
  /\ generation \in Nat
  /\ SessionsFollowCredentials
  /\ generation = 0 => sessions = {}

\* A new session is of the generation it is opened with, and so are those kept.
LEMMA NewSessionFollows ==
  ASSUME NEW client, NEW kept, NEW g, NewSession(client, kept, g),
         \A s \in kept : s.generation = g
  PROVE  \A s \in sessions' : s.generation = g
  <1>1. PICK gone : sessions' = (kept \ gone) \cup
          {[token |-> issued + 1, generation |-> g, deadline |-> moment + Lifetime]}
    BY DEF NewSession
  <1> QED
    BY <1>1

\* No administrator, no session.
LEMMA SessionsInitHolds == SessionsInit => CredentialsHold
  BY DEF SessionsInit, CredentialsHold, SessionsFollowCredentials

\* A step keeps it.
LEMMA SessionsStepHolds == CredentialsHold /\ [SessionsNext]_sessionsVars => CredentialsHold'
  <1> SUFFICES ASSUME CredentialsHold, [SessionsNext]_sessionsVars PROVE CredentialsHold'
    OBVIOUS
  <1> USE DEF CredentialsHold, SessionsFollowCredentials
  <1>1. CASE Setup
    <2>1. CASE \E c \in Clients : NewSession(c, Live, 1)
      <3>1. Live = {}
        BY <1>1 DEF Setup, Live
      <3> QED
        BY <1>1, <2>1, <3>1, NewSessionFollows DEF Setup
    <2>2. CASE UNCHANGED <<sessions, cookie, issued>>
      BY <1>1, <2>2 DEF Setup
    <2> QED
      BY <1>1, <2>1, <2>2 DEF Setup
  <1>2. ASSUME NEW c \in Clients, NEW a \in Addresses, Login(c, a) PROVE CredentialsHold'
    <2>1. CASE UNCHANGED <<sessions, cookie, issued>>
      BY <1>2, <2>1 DEF Login
    <2>2. CASE NewSession(c, Live, generation)
      <3>1. \A s \in Live : s.generation = generation
        BY DEF Live
      <3> QED
        BY <1>2, <2>2, <3>1, NewSessionFollows DEF Login
    <2> QED
      BY <1>2, <2>1, <2>2 DEF Login
  <1>3. ASSUME NEW c \in Clients, Admitted(c) \/ Logout(c) \/ Answer(c) PROVE CredentialsHold'
    BY <1>3 DEF Admitted, Logout, Answer
  <1>4. ASSUME NEW c \in Clients, NEW a \in Addresses, UpdateAdministrator(c, a) PROVE CredentialsHold'
    <2>1. CASE Wrong(a) /\ UNCHANGED <<generation, sessions, cookie, issued>>
      BY <2>1
    <2>2. CASE Replaced(c)
      BY <2>2, NewSessionFollows DEF Replaced
    <2>3. CASE Uncertain
      BY <2>3 DEF Uncertain
    <2>4. CASE /\ sessions' = {s \in sessions : s.token # admitted[c]}
               /\ UNCHANGED <<generation, failures, cookie, issued, guesses>>
      BY <2>4
    <2> QED
      BY <1>4, <2>1, <2>2, <2>3, <2>4 DEF UpdateAdministrator
  <1>5. CASE Tick
    BY <1>5 DEF Tick
  <1>6. CASE SessionsRestart
    BY <1>6 DEF SessionsRestart
  <1>7. CASE UNCHANGED sessionsVars
    BY <1>7 DEF sessionsVars
  <1> QED
    BY <1>1, <1>2, <1>3, <1>4, <1>5, <1>6, <1>7 DEF SessionsNext

\* No session outlives the credentials it was opened with.
THEOREM NoSessionOutlivesCredentials == SessionsSpec => []SessionsFollowCredentials
  <1>1. CredentialsHold => SessionsFollowCredentials
    BY DEF CredentialsHold
  <1> QED
    BY <1>1, SessionsInitHolds, SessionsStepHolds, PTL DEF SessionsSpec

(***************************************************************************)
(* The throttle.  What is kept of the failures of an address is some of    *)
(* its wrong passwords, and of those that still count all, whatever was    *)
(* pruned and whenever; they are in the order of their times.  So when the *)
(* one Attempts before a new one is still within the window, those since   *)
(* are too, are kept, and are enough to refuse it.                         *)
(***************************************************************************)
\* A failure as it is kept.
Failure(times, i) == [number |-> i, at |-> times[i]]

\* The wrong passwords were given in the order of their times.
InOrder(times, now) ==
  /\ \A i \in 1..Len(times) : times[i] <= now
  /\ \A i, k \in 1..Len(times) : i <= k => times[i] <= times[k]

\* What is kept of them are some, and of those that still count all.
Kept(kept, times, now) ==
  /\ IsFiniteSet(kept)
  /\ \A f \in kept : \E i \in 1..Len(times) : f = Failure(times, i)
  /\ \A i \in 1..Len(times) : now - times[i] < Window => Failure(times, i) \in kept

\* No more than Attempts of them are within one window.
Bounded(times) == \A i \in 1..Len(times) : i > Attempts => times[i] - times[i - Attempts] >= Window

\* Of every address.
GuessesKept ==
  /\ moment \in Nat
  /\ guesses \in [Addresses -> Seq(Nat)]
  /\ DOMAIN failures = Addresses
  /\ \A a \in Addresses : /\ InOrder(guesses[a], moment) /\ Kept(failures[a], guesses[a], moment)
                          /\ Bounded(guesses[a])

\* A set that holds so many failures has so many members.
LEMMA CountFailures ==
  ASSUME NEW times, NEW a \in Int, NEW b \in Int, a <= b, NEW kept, IsFiniteSet(kept),
         \A i \in a..b : Failure(times, i) \in kept
  PROVE  Cardinality(kept) >= b - a + 1
  <1> DEFINE name == [i \in a..b |-> Failure(times, i)]
  <1>1. name \in Injection(a..b, kept)
    <2>1. name \in [a..b -> kept]
      OBVIOUS
    <2>2. \A i, k \in a..b : name[i] = name[k] => i = k
      BY DEF Failure
    <2> HIDE DEF name
    <2> QED
      BY <2>1, <2>2 DEF Injection, IsInjective
  <1>2. Cardinality(a..b) = b - a + 1
    BY FS_Interval
  <1>3. Cardinality(a..b) <= Cardinality(kept)
    BY <1>1, FS_Injection
  <1> QED
    BY <1>2, <1>3, FS_CardinalityType

\* Pruning keeps what counts.
LEMMA PrunedKept ==
  ASSUME NEW a \in Addresses, Kept(failures[a], guesses[a], moment)
  PROVE  /\ Kept(Recent(a), guesses[a], moment)
         /\ Pruned[a] = Recent(a)
  <1>1. IsFiniteSet(Recent(a))
    BY FS_Subset DEF Kept, Recent
  <1>2. \A i \in 1..Len(guesses[a]) :
          moment - guesses[a][i] < Window => Failure(guesses[a], i) \in Recent(a)
    BY DEF Kept, Recent, Failure
  <1>3. \A f \in Recent(a) : \E i \in 1..Len(guesses[a]) : f = Failure(guesses[a], i)
    BY DEF Kept, Recent
  <1> QED
    BY <1>1, <1>2, <1>3 DEF Kept, Pruned

\* An address that is let in has given fewer than Attempts within the window.
LEMMA FewCount ==
  ASSUME SessionsAssumption, NEW now \in Nat, NEW times \in Seq(Nat), InOrder(times, now),
         NEW kept, Kept(kept, times, now), ~ Cardinality(kept) >= Attempts,
         Len(times) >= Attempts
  PROVE  now - times[Len(times) + 1 - Attempts] >= Window
  <1> DEFINE first == Len(times) + 1 - Attempts
  <1>1. /\ Len(times) \in Nat /\ first \in 1..Len(times) /\ Attempts \in Nat /\ Window \in Nat
        /\ \A i \in 1..Len(times) : times[i] \in Nat
    BY DEF SessionsAssumption
  <1>2. SUFFICES ASSUME now - times[first] < Window PROVE FALSE
    BY <1>1
  <1>3. \A i \in first..Len(times) : i \in 1..Len(times) /\ times[first] <= times[i]
    BY <1>1 DEF InOrder
  <1>4. \A i \in first..Len(times) : now - times[i] < Window
    BY <1>1, <1>2, <1>3
  <1>5. \A i \in first..Len(times) : Failure(times, i) \in kept
    BY <1>3, <1>4 DEF Kept
  <1>6. first \in Int /\ Len(times) \in Int /\ first <= Len(times)
    BY <1>1
  <1> HIDE DEF first
  <1>7. Cardinality(kept) >= Len(times) - first + 1
    BY <1>5, <1>6, CountFailures DEF Kept
  <1> QED
    BY <1>1, <1>7, FS_CardinalityType DEF Kept, first

\* One more wrong password.
LEMMA OneMore ==
  ASSUME SessionsAssumption, NEW now \in Nat, NEW times \in Seq(Nat), InOrder(times, now),
         NEW kept, Kept(kept, times, now), Bounded(times), ~ Cardinality(kept) >= Attempts
  PROVE  /\ InOrder(Append(times, now), now) /\ Bounded(Append(times, now))
         /\ Kept(kept \cup {[number |-> Len(times) + 1, at |-> now]}, Append(times, now), now)
  <1> DEFINE more == Append(times, now)
             n == Len(times) + 1
             all == kept \cup {[number |-> n, at |-> now]}
  <1>1. /\ Len(times) \in Nat /\ Len(more) = n /\ more[n] = now /\ n \in Nat
        /\ \A i \in 1..Len(times) : more[i] = times[i] /\ times[i] \in Nat
        /\ \A i \in 1..n : i \in 1..Len(times) \/ i = n
    OBVIOUS
  <1>2. /\ Attempts \in Nat /\ Attempts > 0 /\ Window \in Nat
    BY DEF SessionsAssumption
  <1>3. Len(times) >= Attempts => now - times[n - Attempts] >= Window
    BY FewCount
  <1> HIDE DEF more, n
  <1>4. InOrder(more, now)
    <2>1. \A i \in 1..n : more[i] <= now
      BY <1>1 DEF InOrder
    <2>2. ASSUME NEW i \in 1..n, NEW k \in 1..n, i <= k PROVE more[i] <= more[k]
      <3>1. CASE k = n
        BY <1>1, <2>1, <3>1
      <3>2. CASE k # n
        <4>1. k \in 1..Len(times) /\ i \in 1..Len(times)
          BY <1>1, <2>2, <3>2
        <4>2. times[i] <= times[k]
          BY <4>1, <2>2 DEF InOrder
        <4> QED
          BY <1>1, <4>1, <4>2
      <3> QED
        BY <3>1, <3>2
    <2> QED
      BY <1>1, <2>1, <2>2 DEF InOrder
  <1>5. Bounded(more)
    <2> SUFFICES ASSUME NEW i \in 1..n, i > Attempts PROVE more[i] - more[i - Attempts] >= Window
      BY <1>1 DEF Bounded
    <2>1. i - Attempts \in 1..Len(times)
      BY <1>1, <1>2 DEF n
    <2>2. CASE i = n
      <3>1. Len(times) >= Attempts
        BY <1>1, <1>2, <2>2 DEF n
      <3> QED
        BY <1>1, <1>3, <2>1, <2>2, <3>1
    <2>3. CASE i # n
      <3>1. i \in 1..Len(times)
        BY <1>1, <2>3
      <3>2. times[i] - times[i - Attempts] >= Window
        BY <3>1 DEF Bounded
      <3> QED
        BY <1>1, <2>1, <3>1, <3>2
    <2> QED
      BY <2>2, <2>3
  <1>6. Kept(all, more, now)
    <2>1. IsFiniteSet(all)
      BY FS_AddElement DEF Kept
    <2>2. \A i \in 1..Len(times) : Failure(more, i) = Failure(times, i)
      BY <1>1 DEF Failure
    <2>3. Failure(more, n) = [number |-> n, at |-> now] /\ n \in 1..n /\ \A i \in 1..Len(times) : i \in 1..n
      BY <1>1 DEF Failure, n
    <2>4. \A f \in all : \E i \in 1..n : f = Failure(more, i)
      BY <2>2, <2>3 DEF Kept
    <2>5. \A i \in 1..n : now - more[i] < Window => Failure(more, i) \in all
      BY <1>1, <2>2, <2>3 DEF Kept
    <2> QED
      BY <1>1, <2>1, <2>4, <2>5 DEF Kept
  <1> QED
    BY <1>4, <1>5, <1>6 DEF more, n

\* Without wrong passwords all is well.
LEMMA NoneKept ==
  /\ <<>> \in Seq(Nat)
  /\ \A now : InOrder(<<>>, now) /\ Kept({}, <<>>, now)
  /\ Bounded(<<>>)
  BY FS_EmptySet DEF InOrder, Kept, Bounded

\* At the start nothing was given and nothing is kept.
LEMMA GuessesInitHolds == SessionsInit => GuessesKept
  BY NoneKept DEF SessionsInit, GuessesKept, NoFailures, NoGuesses

\* A wrong password of an address that is let in.
LEMMA WrongHolds ==
  ASSUME GuessesKept, NEW a \in Addresses, ~Throttled(a), Wrong(a), UNCHANGED moment
  PROVE  GuessesKept'
  <1> DEFINE times(b) == IF b = a THEN Append(guesses[a], moment) ELSE guesses[b]
             kept(b) == IF b = a THEN Recent(a) \cup {[number |-> Len(guesses[a]) + 1, at |-> moment]}
                                 ELSE Recent(b)
  <1>1. guesses' = [b \in Addresses |-> times(b)] /\ failures' = [b \in Addresses |-> kept(b)]
    BY DEF Wrong, Pruned, GuessesKept
  <1>2. \A b \in Addresses : guesses[b] \in Seq(Nat) /\ times(b) \in Seq(Nat) /\ moment \in Nat
    BY DEF GuessesKept
  <1>3. ASSUME NEW b \in Addresses
        PROVE  InOrder(times(b), moment) /\ Kept(kept(b), times(b), moment) /\ Bounded(times(b))
    <2>1. /\ InOrder(guesses[b], moment) /\ Kept(Recent(b), guesses[b], moment) /\ Bounded(guesses[b])
      BY PrunedKept DEF GuessesKept
    <2>2. CASE b # a
      BY <2>1, <2>2
    <2>3. CASE b = a
      BY <1>2, <2>1, <2>3, OneMore, SessionsAssumption DEF Throttled
    <2> QED
      BY <2>2, <2>3
  <1>4. \A b \in Addresses : guesses'[b] = times(b) /\ failures'[b] = kept(b)
    BY <1>1
  <1>5. guesses' \in [Addresses -> Seq(Nat)] /\ DOMAIN failures' = Addresses /\ moment' \in Nat /\ moment' = moment
    BY <1>1, <1>2 DEF GuessesKept
  <1> HIDE DEF times, kept
  <1> QED
    BY <1>3, <1>4, <1>5 DEF GuessesKept

\* The right password: what the address gave before is forgotten.
LEMMA RightHolds ==
  ASSUME GuessesKept, NEW a \in Addresses, failures' = [Pruned EXCEPT ![a] = {}],
         guesses' = [guesses EXCEPT ![a] = <<>>], UNCHANGED moment
  PROVE  GuessesKept'
  <1>1. /\ guesses' \in [Addresses -> Seq(Nat)] /\ DOMAIN failures' = Addresses
        /\ moment' \in Nat /\ moment' = moment
    BY NoneKept DEF GuessesKept, Pruned
  <1>2. ASSUME NEW b \in Addresses
        PROVE  InOrder(guesses'[b], moment) /\ Kept(failures'[b], guesses'[b], moment) /\ Bounded(guesses'[b])
    <2>1. CASE b # a
      <3>1. guesses'[b] = guesses[b] /\ failures'[b] = Recent(b)
        BY <2>1 DEF GuessesKept, Pruned
      <3> QED
        BY <3>1, PrunedKept DEF GuessesKept
    <2>2. CASE b = a
      <3>1. guesses'[b] = <<>> /\ failures'[b] = {}
        BY <2>2 DEF GuessesKept, Pruned
      <3> QED
        BY <3>1, NoneKept
    <2> QED
      BY <2>1, <2>2
  <1> QED
    BY <1>1, <1>2 DEF GuessesKept

\* A change of the administrator and a restart forget all failures.
LEMMA ForgottenHolds ==
  ASSUME GuessesKept, failures' = NoFailures, guesses' = NoGuesses, UNCHANGED moment
  PROVE  GuessesKept'
  <1>1. \A a \in Addresses : guesses'[a] = <<>> /\ failures'[a] = {}
    BY DEF NoFailures, NoGuesses
  <1>2. guesses' \in [Addresses -> Seq(Nat)] /\ DOMAIN failures' = Addresses /\ moment' \in Nat
    BY NoneKept DEF NoFailures, NoGuesses, GuessesKept
  <1> QED
    BY <1>1, <1>2, NoneKept DEF GuessesKept

\* Pruning alone loses nothing that counts.
LEMMA PruningHolds ==
  ASSUME GuessesKept, failures' = Pruned, UNCHANGED <<guesses, moment>>
  PROVE  GuessesKept'
  <1>1. \A a \in Addresses : guesses'[a] = guesses[a] /\ failures'[a] = Recent(a)
    BY DEF Pruned
  <1>2. guesses' \in [Addresses -> Seq(Nat)] /\ DOMAIN failures' = Addresses /\ moment' \in Nat /\ moment' = moment
    BY DEF Pruned, GuessesKept
  <1> QED
    BY <1>1, <1>2, PrunedKept DEF GuessesKept

\* As time passes fewer of them count.
LEMMA WaitingHolds ==
  ASSUME GuessesKept, moment' = moment + 1, UNCHANGED <<failures, guesses>>
  PROVE  GuessesKept'
  <1>1. moment \in Nat /\ moment' \in Nat /\ Window \in Nat /\ \A a \in Addresses : \A i \in 1..Len(guesses[a]) : guesses[a][i] \in Nat
    BY SessionsAssumption DEF GuessesKept, SessionsAssumption
  <1>2. ASSUME NEW a \in Addresses PROVE InOrder(guesses[a], moment + 1) /\ Kept(failures[a], guesses[a], moment + 1)
    BY <1>1, <1>2 DEF GuessesKept, InOrder, Kept
  <1> QED
    BY <1>1, <1>2 DEF GuessesKept

\* The other requests leave the failures alone.
LEMMA StillHolds == ASSUME GuessesKept, UNCHANGED <<failures, guesses, moment>> PROVE GuessesKept'
  BY DEF GuessesKept

\* A step keeps it.
LEMMA GuessesStepHolds == GuessesKept /\ [SessionsNext]_sessionsVars => GuessesKept'
  <1> SUFFICES ASSUME GuessesKept, [SessionsNext]_sessionsVars PROVE GuessesKept'
    OBVIOUS
  <1>1. ASSUME NEW c \in Clients, NEW a \in Addresses, Login(c, a) PROVE GuessesKept'
    BY <1>1, WrongHolds, RightHolds DEF Login
  <1>2. ASSUME NEW c \in Clients, NEW a \in Addresses, UpdateAdministrator(c, a) PROVE GuessesKept'
    <2>1. UNCHANGED moment
      BY <1>2 DEF UpdateAdministrator
    <2>2. CASE ~Throttled(a) /\ Wrong(a)
      BY <2>1, <2>2, WrongHolds
    <2>3. CASE Replaced(c)
      BY <2>1, <2>3, ForgottenHolds DEF Replaced
    <2>4. CASE Uncertain
      BY <2>1, <2>4, PruningHolds DEF Uncertain
    <2>5. CASE UNCHANGED <<generation, failures, cookie, issued, guesses>>
      BY <2>1, <2>5, StillHolds
    <2> QED
      BY <1>2, <2>2, <2>3, <2>4, <2>5 DEF UpdateAdministrator
  <1>3. CASE SessionsRestart
    BY <1>3, ForgottenHolds DEF SessionsRestart
  <1>4. CASE Tick
    BY <1>4, WaitingHolds DEF Tick
  <1>5. CASE Setup \/ (\E c \in Clients : Admitted(c) \/ Logout(c) \/ Answer(c)) \/ UNCHANGED sessionsVars
    BY <1>5, StillHolds DEF Setup, Admitted, Logout, Answer, sessionsVars
  <1> QED
    BY <1>1, <1>2, <1>3, <1>4, <1>5 DEF SessionsNext

\* An address is held to Attempts wrong passwords within any window, through
\* the login and the account page together, with any number of browsers and
\* whatever restarts, changes of the administrator and failed saves come between.
THEOREM GuessesStayBounded == SessionsSpec => []GuessesAreBounded
  <1>1. GuessesKept => GuessesAreBounded
    BY DEF GuessesKept, GuessesAreBounded, Bounded
  <1> QED
    BY <1>1, GuessesInitHolds, GuessesStepHolds, PTL DEF SessionsSpec

(***************************************************************************)
(* The tables.  What must be added to the types is that the tables are     *)
(* finite, and whose entries they hold.                                    *)
(***************************************************************************)
TablesHold ==
  /\ SessionsTypeOK
  /\ IsFiniteSet(sessions)
  /\ DOMAIN failures = Addresses /\ \A a \in Addresses : IsFiniteSet(failures[a])
  /\ cookie \in [Clients -> Nat] /\ admitted \in [Clients -> Nat]

\* The table of sessions, and who holds a token of it.
SessionTable(table, count, now) ==
  /\ IsFiniteSet(table) /\ Cardinality(table) <= Capacity
  /\ \A s \in table : s.token \in 1..count /\ s.deadline \in 1..(now + Lifetime)
Tokens(held, count) == held \in [Clients -> Nat] /\ \A c \in Clients : held[c] \in 0..count

\* The table of failures.
FailureTable(table) ==
  /\ DOMAIN table = Addresses
  /\ \A a \in Addresses : IsFiniteSet(table[a]) /\ Cardinality(table[a]) <= Attempts

\* The invariant in its three parts.
LEMMA TablesAre ==
  TablesHold <=> /\ {generation, moment, issued} \subseteq Nat
                 /\ SessionTable(sessions, issued, moment) /\ FailureTable(failures)
                 /\ Tokens(cookie, issued) /\ Tokens(admitted, issued)
  <1>1. TablesHold => /\ {generation, moment, issued} \subseteq Nat
                      /\ SessionTable(sessions, issued, moment) /\ FailureTable(failures)
                      /\ Tokens(cookie, issued) /\ Tokens(admitted, issued)
    BY DEF TablesHold, SessionsTypeOK, SessionTable, FailureTable, Tokens
  <1>2. ASSUME {generation, moment, issued} \subseteq Nat,
               SessionTable(sessions, issued, moment), FailureTable(failures),
               Tokens(cookie, issued), Tokens(admitted, issued)
        PROVE  TablesHold
    BY <1>2 DEF TablesHold, SessionsTypeOK, SessionTable, FailureTable, Tokens
  <1> QED
    BY <1>1, <1>2

\* Some of the sessions are a table as well.
LEMMA FewerSessions ==
  ASSUME NEW table, NEW count, NEW now, SessionTable(table, count, now), NEW some \in SUBSET table
  PROVE  SessionTable(some, count, now)
  <1>1. IsFiniteSet(table) /\ Cardinality(table) <= Capacity
    BY DEF SessionTable
  <1>2. IsFiniteSet(some) /\ Cardinality(some) <= Cardinality(table)
    BY <1>1, FS_Subset
  <1>3. Cardinality(some) \in Nat /\ Cardinality(table) \in Nat /\ Capacity \in Nat
    BY <1>1, <1>2, FS_CardinalityType, SessionsAssumption DEF SessionsAssumption
  <1>4. Cardinality(some) <= Capacity
    BY <1>1, <1>2, <1>3
  <1> QED
    BY <1>2, <1>4 DEF SessionTable

\* Time and tokens only run on.
LEMMA OlderSessions ==
  ASSUME NEW table, NEW count \in Nat, NEW now \in Nat, SessionTable(table, count, now),
         NEW more \in Nat, NEW later \in Nat, more >= count, later >= now
  PROVE  SessionTable(table, more, later)
  <1>1. Lifetime \in Nat
    BY SessionsAssumption DEF SessionsAssumption
  <1> QED
    BY <1>1 DEF SessionTable

\* A new session takes the place of another when the table is full.
LEMMA NewSessionFits ==
  ASSUME {moment, issued} \subseteq Nat, NEW c \in Clients, NEW kept, NEW g,
         SessionTable(kept, issued, moment), Tokens(cookie, issued), NewSession(c, kept, g)
  PROVE  /\ issued' \in Nat /\ issued' = issued + 1
         /\ SessionTable(sessions', issued', moment) /\ Tokens(cookie', issued')
  <1>1. issued' = issued + 1 /\ cookie' = [cookie EXCEPT ![c] = issued + 1]
    BY DEF NewSession
  <1>2. PICK gone \in IF Cardinality(kept) >= Capacity THEN {{s} : s \in Earliest(kept)} ELSE {{}} :
          sessions' = (kept \ gone) \cup
            {[token |-> issued + 1, generation |-> g, deadline |-> moment + Lifetime]}
    BY DEF NewSession
  <1> DEFINE new == [token |-> issued + 1, generation |-> g, deadline |-> moment + Lifetime]
             rest == kept \ gone
  <1>3. IsFiniteSet(kept) /\ Cardinality(kept) \in Nat /\ Cardinality(kept) <= Capacity
    BY FS_CardinalityType DEF SessionTable
  <1>4. Capacity \in Nat /\ Capacity > 0 /\ Lifetime \in Nat /\ Lifetime > 0
    BY SessionsAssumption DEF SessionsAssumption
  <1>5. IsFiniteSet(rest) /\ Cardinality(rest) \in Nat /\ Cardinality(rest) < Capacity
    <2>1. CASE Cardinality(kept) >= Capacity
      <3>1. PICK s \in Earliest(kept) : gone = {s}
        BY <1>2, <2>1
      <3>2. s \in kept /\ rest = kept \ {s}
        BY <3>1 DEF Earliest
      <3>3. IsFiniteSet(kept \ {s}) /\ Cardinality(kept \ {s}) = Cardinality(kept) - 1
        BY <1>3, <3>2, FS_RemoveElement
      <3>4. Cardinality(rest) \in Nat
        BY <3>2, <3>3, FS_CardinalityType
      <3>5. IsFiniteSet(rest) /\ Cardinality(rest) = Cardinality(kept) - 1
        BY <3>2, <3>3
      <3> HIDE DEF rest
      <3> QED
        BY <1>3, <1>4, <3>4, <3>5
    <2>2. CASE ~(Cardinality(kept) >= Capacity)
      <3>1. gone = {}
        BY <1>2, <2>2
      <3>2. rest = kept
        BY <3>1
      <3>3. IsFiniteSet(rest) /\ Cardinality(rest) = Cardinality(kept)
        BY <1>3, <3>2
      <3> HIDE DEF rest
      <3> QED
        BY <1>3, <1>4, <2>2, <3>3
    <2> QED
      BY <2>1, <2>2
  <1>6. \A s \in rest : s.token \in 1..issued /\ s.deadline \in 1..(moment + Lifetime)
    BY DEF SessionTable
  <1> HIDE DEF rest, new
  <1>7. sessions' = rest \cup {new}
    BY <1>2 DEF rest, new
  <1>8. IsFiniteSet(rest \cup {new}) /\ Cardinality(rest \cup {new}) <= Capacity
    <2>1. /\ IsFiniteSet(rest \cup {new})
          /\ Cardinality(rest \cup {new}) = IF new \in rest THEN Cardinality(rest) ELSE Cardinality(rest) + 1
      BY <1>5, FS_AddElement
    <2> QED
      BY <1>4, <1>5, <2>1
  <1>9. new.token = issued + 1 /\ new.deadline = moment + Lifetime
    BY DEF new
  <1>10. \A s \in rest \cup {new} : s.token \in 1..(issued + 1) /\ s.deadline \in 1..(moment + Lifetime)
    <2>1. new.token \in 1..(issued + 1) /\ new.deadline \in 1..(moment + Lifetime)
      BY <1>4, <1>9
    <2>2. \A s \in rest : s.token \in 1..(issued + 1) /\ s.deadline \in 1..(moment + Lifetime)
      BY <1>6
    <2> QED
      BY <2>1, <2>2
  <1>11. Tokens(cookie', issued + 1)
    BY <1>1 DEF Tokens
  <1> QED
    BY <1>1, <1>7, <1>8, <1>10, <1>11 DEF SessionTable

\* What is pruned is a table, and an address that is not refused has room in it.
LEMMA PrunedFits ==
  ASSUME FailureTable(failures)
  PROVE  /\ FailureTable(Pruned) /\ FailureTable(NoFailures)
         /\ \A a \in Addresses : FailureTable([Pruned EXCEPT ![a] = {}])
         /\ \A f : \A a \in Addresses : ~Throttled(a) => FailureTable([Pruned EXCEPT ![a] = @ \cup {f}])
  <1>1. Attempts \in Nat
    BY SessionsAssumption DEF SessionsAssumption
  <1>2. ASSUME NEW a \in Addresses
        PROVE  /\ IsFiniteSet(Recent(a)) /\ Cardinality(Recent(a)) \in Nat
               /\ Cardinality(Recent(a)) <= Attempts
    <2>1. IsFiniteSet(failures[a]) /\ Cardinality(failures[a]) <= Attempts /\ Recent(a) \subseteq failures[a]
      BY DEF FailureTable, Recent
    <2>2. /\ IsFiniteSet(Recent(a)) /\ Cardinality(Recent(a)) <= Cardinality(failures[a])
          /\ Cardinality(Recent(a)) \in Nat /\ Cardinality(failures[a]) \in Nat
      BY <2>1, FS_Subset, FS_CardinalityType
    <2> QED
      BY <1>1, <2>1, <2>2
  <1>3. FailureTable(Pruned)
    BY <1>2 DEF FailureTable, Pruned
  <1>4. IsFiniteSet({}) /\ Cardinality({}) <= Attempts
    BY <1>1, FS_EmptySet
  <1>5. FailureTable(NoFailures)
    BY <1>4 DEF FailureTable, NoFailures
  <1>6. ASSUME NEW a \in Addresses PROVE FailureTable([Pruned EXCEPT ![a] = {}])
    BY <1>3, <1>4 DEF FailureTable
  <1>7. ASSUME NEW a \in Addresses, NEW f, ~Throttled(a)
        PROVE  FailureTable([Pruned EXCEPT ![a] = @ \cup {f}])
    <2>1. Cardinality(Recent(a)) < Attempts
      BY <1>1, <1>2, <1>7 DEF Throttled
    <2>2. /\ IsFiniteSet(Recent(a) \cup {f})
          /\ Cardinality(Recent(a) \cup {f}) =
               IF f \in Recent(a) THEN Cardinality(Recent(a)) ELSE Cardinality(Recent(a)) + 1
      BY <1>2, FS_AddElement
    <2>3. Cardinality(Recent(a) \cup {f}) <= Attempts
      BY <1>1, <1>2, <2>1, <2>2
    <2>4. Pruned[a] = Recent(a)
      BY DEF Pruned
    <2> QED
      BY <1>3, <2>2, <2>3, <2>4 DEF FailureTable
  <1> QED
    BY <1>3, <1>5, <1>6, <1>7

\* Tokens that have been issued stay so.
LEMMA OlderTokens ==
  ASSUME NEW held, NEW count \in Nat, Tokens(held, count)
  PROVE  /\ Tokens(held, count + 1)
         /\ \A c \in Clients : Tokens([held EXCEPT ![c] = 0], count) /\ Tokens([held EXCEPT ![c] = 0], count + 1)
  BY DEF Tokens

\* The tables start empty.
LEMMA TablesInit == SessionsInit => TablesHold
  <1> SUFFICES ASSUME SessionsInit PROVE TablesHold
    OBVIOUS
  <1>1. IsFiniteSet({}) /\ Cardinality({}) = 0
    BY FS_EmptySet
  <1>2. Capacity \in Nat /\ Attempts \in Nat
    BY SessionsAssumption DEF SessionsAssumption
  <1>3. SessionTable(sessions, issued, moment)
    BY <1>1, <1>2 DEF SessionsInit, SessionTable
  <1>4. FailureTable(failures)
    BY <1>1, <1>2 DEF SessionsInit, NoFailures, FailureTable
  <1>5. Tokens(cookie, issued) /\ Tokens(admitted, issued) /\ {generation, moment, issued} \subseteq Nat
    BY DEF SessionsInit, Tokens
  <1> QED
    BY <1>3, <1>4, <1>5, TablesAre

\* Every step keeps them within their bounds.
LEMMA TablesStep == TablesHold /\ [SessionsNext]_sessionsVars => TablesHold'
  <1> SUFFICES ASSUME TablesHold, [SessionsNext]_sessionsVars PROVE TablesHold'
    OBVIOUS
  <1>1. /\ {generation, moment, issued} \subseteq Nat
        /\ SessionTable(sessions, issued, moment) /\ FailureTable(failures)
        /\ Tokens(cookie, issued) /\ Tokens(admitted, issued)
    BY TablesAre
  <1> DEFINE After == /\ generation' \in Nat /\ moment' \in Nat /\ issued' \in Nat
                      /\ SessionTable(sessions', issued', moment') /\ FailureTable(failures')
                      /\ Tokens(cookie', issued') /\ Tokens(admitted', issued')
  <1>2. ASSUME After PROVE TablesHold'
    <2>1. {generation', moment', issued'} \subseteq Nat
      BY <1>2
    <2> QED
      BY <1>2, <2>1 DEF TablesHold, SessionsTypeOK, SessionTable, FailureTable, Tokens
  <1>3. SessionTable(Live, issued, moment) /\ SessionTable({}, issued, moment)
    BY <1>1, FewerSessions DEF Live
  <1>4. ASSUME NEW c \in Clients, NEW kept, NEW g, NewSession(c, kept, g),
               SessionTable(kept, issued, moment), UNCHANGED moment
        PROVE  /\ issued' \in Nat /\ issued' = issued + 1
               /\ SessionTable(sessions', issued', moment') /\ Tokens(cookie', issued')
    BY <1>1, <1>4, NewSessionFits
  <1>5. ASSUME NEW a \in Addresses, Wrong(a), ~Throttled(a) PROVE FailureTable(failures')
    BY <1>1, <1>5, PrunedFits DEF Wrong
  <1>6. CASE Setup
    <2>1. UNCHANGED <<failures, moment, admitted>> /\ generation' = 1
      BY <1>6 DEF Setup
    <2>2. CASE \E c \in Clients : NewSession(c, Live, 1)
      BY <1>1, <1>2, <1>3, <1>4, <2>1, <2>2, OlderTokens
    <2>3. CASE UNCHANGED <<sessions, cookie, issued>>
      BY <1>1, <1>2, <2>1, <2>3
    <2> QED
      BY <1>6, <2>2, <2>3 DEF Setup
  <1>7. CASE Tick
    <2>1. moment' = moment + 1 /\ UNCHANGED <<generation, sessions, failures, cookie, admitted, issued>>
      BY <1>7 DEF Tick
    <2> QED
      BY <1>1, <1>2, <2>1, OlderSessions
  <1>8. CASE SessionsRestart
    <2>1. /\ issued' = issued + 1 /\ sessions' = {} /\ failures' = NoFailures
          /\ admitted' = [c \in Clients |-> 0] /\ UNCHANGED <<generation, moment, cookie>>
      BY <1>8 DEF SessionsRestart
    <2>2. Tokens(admitted', issued')
      BY <1>1, <2>1 DEF Tokens
    <2> QED
      BY <1>1, <1>2, <1>3, <2>1, <2>2, OlderSessions, OlderTokens, PrunedFits
  <1>9. ASSUME NEW c \in Clients, Admitted(c) \/ Logout(c) \/ Answer(c) PROVE TablesHold'
    <2>1. /\ UNCHANGED <<generation, failures, moment, issued>> /\ sessions' \in SUBSET sessions
          /\ cookie' = cookie \/ cookie' = [cookie EXCEPT ![c] = 0]
          /\ \/ admitted' = admitted \/ admitted' = [admitted EXCEPT ![c] = 0]
             \/ admitted' = [admitted EXCEPT ![c] = cookie[c]]
      BY <1>9 DEF Admitted, Logout, Answer
    <2>2. Tokens(cookie', issued')
      BY <1>1, <2>1, OlderTokens
    <2>3. Tokens(admitted', issued')
      BY <1>1, <2>1 DEF Tokens
    <2> QED
      BY <1>1, <1>2, <2>1, <2>2, <2>3, FewerSessions
  <1>10. ASSUME NEW c \in Clients, NEW a \in Addresses, Login(c, a) PROVE TablesHold'
    <2>1. ~Throttled(a) /\ UNCHANGED <<generation, moment, admitted>>
      BY <1>10 DEF Login
    <2>2. CASE Wrong(a) /\ UNCHANGED <<sessions, cookie, issued>>
      BY <1>1, <1>2, <1>5, <2>1, <2>2
    <2>3. CASE failures' = [Pruned EXCEPT ![a] = {}] /\ NewSession(c, Live, generation)
      BY <1>1, <1>2, <1>3, <1>4, <2>1, <2>3, OlderTokens, PrunedFits
    <2> QED
      BY <1>10, <2>2, <2>3 DEF Login
  <1>11. ASSUME NEW c \in Clients, NEW a \in Addresses, UpdateAdministrator(c, a) PROVE TablesHold'
    <2>1. UNCHANGED moment /\ admitted' = [admitted EXCEPT ![c] = 0]
      BY <1>11 DEF UpdateAdministrator
    <2>2. CASE ~Throttled(a) /\ Wrong(a) /\ UNCHANGED <<generation, sessions, cookie, issued>>
      BY <1>1, <1>2, <1>5, <2>1, <2>2, OlderTokens
    <2>3. CASE Replaced(c)
      <3>1. generation' = generation + 1 /\ failures' = NoFailures /\ NewSession(c, {}, generation + 1)
        BY <2>3 DEF Replaced
      <3>2. /\ issued' \in Nat /\ issued' = issued + 1
            /\ SessionTable(sessions', issued', moment') /\ Tokens(cookie', issued')
        BY <1>3, <1>4, <2>1, <3>1
      <3>3. FailureTable(failures')
        BY <1>1, <3>1, PrunedFits
      <3>4. Tokens(admitted', issued')
        BY <1>1, <2>1, <3>2, OlderTokens
      <3> QED
        BY <1>1, <1>2, <2>1, <3>1, <3>2, <3>3, <3>4
    <2>4. CASE Uncertain
      <3>1. /\ generation' \in Nat /\ sessions' = {} /\ failures' = Pruned
            /\ UNCHANGED <<cookie, issued>>
        BY <1>1, <2>4 DEF Uncertain
      <3> QED
        BY <1>1, <1>2, <1>3, <2>1, <3>1, OlderTokens, PrunedFits
    <2>5. CASE sessions' \in SUBSET sessions /\ UNCHANGED <<generation, issued, failures, cookie>>
      BY <1>1, <1>2, <2>1, <2>5, FewerSessions, OlderTokens
    <2>6. \/ ~Throttled(a) /\ Wrong(a) /\ UNCHANGED <<generation, sessions, cookie, issued>>
          \/ Replaced(c) \/ Uncertain
          \/ sessions' \in SUBSET sessions /\ UNCHANGED <<generation, issued, failures, cookie>>
      BY <1>11 DEF UpdateAdministrator
    <2> QED
      BY <2>2, <2>3, <2>4, <2>5, <2>6
  <1>12. CASE UNCHANGED sessionsVars
    BY <1>1, <1>2, <1>12 DEF sessionsVars
  <1> QED
    BY <1>6, <1>7, <1>8, <1>9, <1>10, <1>11, <1>12 DEF SessionsNext

\* The types, and that neither the table of sessions nor that of an address's
\* failures outgrows its capacity.
THEOREM TablesStayBounded == SessionsSpec => []SessionsTypeOK
  <1>1. TablesHold => SessionsTypeOK
    BY DEF TablesHold
  <1> QED
    BY <1>1, TablesInit, TablesStep, PTL DEF SessionsSpec

(***************************************************************************)
(* Optics.  A reading is of the revision seen last already while it is     *)
(* collected: the owner thread, which alone moves that revision, is at it. *)
(***************************************************************************)
Readings == [revision : Nat \cup {None},
             quality : {"valid", "stale", "pending", "unavailable", "unsupported"},
             mode : OpticsModes \cup {None}, taken : OpticsModes \cup {None}]

\* The reading is one that may be shown of group e.
Current(r, e) ==
  r.quality # "unavailable" =>
    /\ seen \in DOMAIN modes /\ r.revision = seen
    /\ r.quality \in Readable => r.taken = modes[seen][e]
    /\ r.quality = "unsupported" => modes[seen][e] = "split"

OpticsInv ==
  /\ modes \in Seq([Epls -> OpticsModes]) /\ modes # <<>>
  /\ phy \in [Epls -> OpticsModes]
  /\ cached \in [Epls -> Readings \cup {None}]
  /\ queued \subseteq Epls
  /\ \A e \in Epls : cached[e] # None => Current(cached[e], e)
  /\ task # None =>
       /\ task \in [epl : Epls, at : {"configuration", "phy", "store", "done"},
                    read : Readings \cup {None}]
       /\ task.at \in {"phy", "store"} => task.read \in Readings
       /\ task.at = "phy" =>
            /\ seen \in DOMAIN modes /\ task.read.revision = seen
            /\ task.read.mode = modes[seen][task.epl] /\ task.read.quality = "pending"
       /\ task.at = "store" => Current(task.read, task.epl)

\* Nothing is cached yet.
LEMMA OpticsInitHolds == OpticsInit => OpticsInv
  BY DEF OpticsInit, OpticsInv

\* A step keeps it.
LEMMA OpticsStepHolds == OpticsInv /\ [OpticsNext]_opticsVars => OpticsInv'
  <1> SUFFICES ASSUME OpticsInv, [OpticsNext]_opticsVars PROVE OpticsInv'
    OBVIOUS
  <1> USE DEF OpticsInv, Current, Readings, Readable, Entry, OpticsModes
  <1>1. CASE Reconfigure
    BY <1>1 DEF Reconfigure
  <1>2. CASE PhyFollows
    BY <1>2 DEF PhyFollows
  <1>3. CASE Sample
    BY <1>3 DEF Sample, Observes
  <1>4. CASE DueAgain \/ AddInflight \/ UNCHANGED opticsVars
    BY <1>4 DEF DueAgain, AddInflight, opticsVars
  <1>5. ASSUME NEW e \in Epls, Submit(e) PROVE OpticsInv'
    BY <1>5 DEF Submit
  <1>6. ASSUME NEW e \in Epls, SubmitRefused(e) PROVE OpticsInv'
    BY <1>6 DEF SubmitRefused
  <1>7. CASE TakeTask
    BY <1>7 DEF TakeTask
  <1>8. CASE ReadConfiguration
    <2> DEFINE read == Entry(Len(modes), "pending", modes[Len(modes)][task.epl])
    <2>1. read \in Readings /\ Len(modes) \in DOMAIN modes
      BY <1>8 DEF ReadConfiguration
    <2>2. /\ task' = [task EXCEPT !.at = "phy", !.read = read]
          /\ seen' = Len(modes) /\ UNCHANGED <<modes, phy, queued>>
      BY <1>8 DEF ReadConfiguration, Observes
    <2>3. /\ cached' \in [Epls -> Readings \cup {None}]
          /\ \A e \in Epls : cached'[e] = None \/ (cached'[e] = cached[e] /\ seen' = seen)
      BY <1>8 DEF ReadConfiguration, Observes
    <2>4. /\ read.revision = Len(modes) /\ read.quality = "pending"
          /\ read.mode = modes[Len(modes)][task.epl]
      OBVIOUS
    <2>5. /\ task' \in [epl : Epls, at : {"phy"}, read : {read}] /\ task'.epl = task.epl
      BY <1>8, <2>2 DEF ReadConfiguration
    <2> HIDE DEF read
    <2>6. (\A e \in Epls : cached[e] # None => Current(cached[e], e))'
      BY <2>2, <2>3
    <2> QED
      BY <2>1, <2>2, <2>3, <2>4, <2>5, <2>6
  <1>9. CASE ReadPhy
    BY <1>9 DEF ReadPhy, QualityOf
  <1>10. CASE CollectFails
    <2> DEFINE e == task.epl
               keeps == cached[e] # None /\ cached[e].revision = seen /\ cached[e].quality \in Readable
               read == IF keeps THEN [cached[e] EXCEPT !.quality = "stale"]
                       ELSE IF task.read = None THEN Entry(None, "unavailable", None)
                       ELSE [task.read EXCEPT !.quality = "unavailable"]
    <2>1. task' = [task EXCEPT !.at = "store", !.read = read]
      BY <1>10 DEF CollectFails
    <2>2. task.epl \in Epls /\ UNCHANGED <<modes, phy, seen, cached, queued>>
      BY <1>10 DEF CollectFails
    <2>3. read \in Readings /\ (read.quality # "unavailable" => Current(read, task.epl))
      <3>1. CASE keeps
        <4>1. read = [cached[e] EXCEPT !.quality = "stale"]
          BY <3>1
        <4>2. cached[e] \in Readings /\ Current(cached[e], e) /\ cached[e].quality \in Readable
          BY <2>2, <3>1
        <4> HIDE DEF read, keeps
        <4>3. read \in Readings
          BY <4>1, <4>2
        <4>4. Current(read, e)
          BY <4>1, <4>2
        <4> QED
          BY <4>3, <4>4
      <3>2. CASE ~keeps
        <4>1. task.read \in Readings \cup {None} /\ (task.read # None => task.read \in Readings)
          BY <1>10 DEF CollectFails
        <4>2. CASE task.read = None
          <5>1. read = Entry(None, "unavailable", None)
            BY <3>2, <4>2
          <5> QED
            BY <5>1
        <4>3. CASE task.read # None
          <5>1. read = [task.read EXCEPT !.quality = "unavailable"] /\ task.read \in Readings
            BY <3>2, <4>1, <4>3
          <5> HIDE DEF read
          <5> QED
            BY <5>1
        <4> QED
          BY <4>2, <4>3
      <3> QED
        BY <3>1, <3>2
    <2> HIDE DEF read
    <2>4. task' \in [epl : Epls, at : {"store"}, read : {read}] /\ task'.epl = task.epl
      BY <1>10, <2>1 DEF CollectFails
    <2> QED
      BY <2>2, <2>3, <2>4
  <1>11. CASE Store
    BY <1>11 DEF Store
  <1>12. CASE DiscardOpticsKey
    BY <1>12 DEF DiscardOpticsKey
  <1> QED
    BY <1>1, <1>2, <1>3, <1>4, <1>5, <1>6, <1>7, <1>8, <1>9, <1>10, <1>11, <1>12 DEF OpticsNext

\* A reading is shown only for the revision it was taken under (OpticsAreCurrent).
THEOREM ReadingsAreCurrent == OpticsSpec => []OpticsAreCurrent
  <1>1. OpticsInv => OpticsAreCurrent
    BY DEF OpticsInv, OpticsAreCurrent, Current, Readable
  <1> QED
    BY <1>1, OpticsInitHolds, OpticsStepHolds, PTL DEF OpticsSpec

(***************************************************************************)
(* Eye diagrams.  What the scan knows of the lane is what it has changed   *)
(* (ScanKnows), so finishing restores all of it or says that it has not;   *)
(* and every column the panel has is of the run it says (ValueHolds).      *)
(***************************************************************************)
\* The lane is changed in no more than the scan has noted.
Noted(s, l) ==
  /\ s.paused \/ l.equalizer = "running"
  /\ s.prepared \/ s.configured \/ l.source = "own"
  /\ s.configured \/ l.compare = "mission"

Scans == [id : ScanIds \cup {"none"}, run : Nat, done : Nat,
          state : {"idle", "preparing", "running", "complete", "cancelled", "failed"},
          cancel : BOOLEAN, paused : BOOLEAN, prepared : BOOLEAN, configured : BOOLEAN,
          restored : BOOLEAN, restoreFailed : BOOLEAN]

Lanes == [equalizer : {"running", "paused"}, source : {"own", "borrowed"},
          compare : {"mission", "sampling"}]

ScanKnows ==
  /\ scan \in Scans
  /\ lane \in Lanes
  /\ Scanning(scan) => Noted(scan, lane)
  /\ scan.state = "preparing" => ~scan.configured
  /\ LaneIsGivenBack

Values == [id : ScanIds \cup {"none"}, run : Nat, done : Nat, rows : Seq(Nat), restored : BOOLEAN,
           state : {"none", "idle", "preparing", "running", "complete", "cancelled", "failed",
                    "cancelling", "reading"}]

ValueHolds(value) ==
  /\ value \in Values
  /\ \A i \in DOMAIN value.rows : value.rows[i] = value.run
  /\ Len(value.rows) <= value.done
  /\ value.state = "complete" => Len(value.rows) = Columns /\ value.restored

CacheHolds ==
  /\ \A id \in DOMAIN eyeCache : ValueHolds(eyeCache[id])
  /\ eyeOrder \in Seq(DOMAIN eyeCache)
  /\ ValueHolds(eyeRead.value)

EyeInv == ScanKnows /\ CacheHolds /\ scans \in Nat

\* Whatever was borrowed is restored, or the scan says that it was not.
LEMMA FinishRestores ==
  ASSUME NEW s \in Scans, NEW l \in Lanes, NEW state \in {"complete", "cancelled", "failed"},
         Noted(s, l), Finish(s, l, state)
  PROVE  /\ scan' \in Scans /\ ~Scanning(scan') /\ lane' \in Lanes
         /\ lane' = WholeLane \/ scan'.restoreFailed
  <1> USE DEF Noted, WholeLane, Takes, Outcomes, Scans, Lanes, Scanning
  <1>1. PICK o \in [{"compare", "restore", "resume"} -> Outcomes] :
          LET borrowed == s.prepared \/ s.configured
              lost == borrowed /\ o["restore"] = "refused"
              resumes == s.paused /\ ~lost
              failed == \/ s.configured /\ o["compare"] # "done"
                        \/ borrowed /\ o["restore"] # "done"
                        \/ resumes /\ o["resume"] # "done"
          IN /\ lane' = [equalizer |-> IF resumes /\ Takes(o["resume"]) THEN "running" ELSE l.equalizer,
                         source |-> IF borrowed /\ Takes(o["restore"]) THEN "own" ELSE l.source,
                         compare |-> IF s.configured /\ Takes(o["compare"]) THEN "mission" ELSE l.compare]
             /\ scan' = [s EXCEPT !.state = IF failed THEN "failed" ELSE state,
                         !.restored = ~failed, !.restoreFailed = failed, !.paused = s.paused /\ lost]
    BY DEF Finish
  <1> QED
    BY <1>1

\* What a scan does to the lane keeps the account of it.
LEMMA ScanStepHolds ==
  ASSUME ScanKnows, scans \in Nat,
         \/ Ready \/ Column \/ CancelTakesEffect \/ ScanFails \/ NativeRestart \/ CancelEye
         \/ \E id \in ScanIds : StartEye(id)
  PROVE  ScanKnows' /\ scans' \in Nat
  <1> USE EyeAssumption DEF ScanKnows, Scans, Lanes, Scanning, LaneIsGivenBack
  <1>1. ASSUME NEW s \in Scans, NEW l \in Lanes, NEW state \in {"complete", "cancelled", "failed"},
               Noted(s, l), Finish(s, l, state)
        PROVE  ScanKnows'
    BY <1>1, FinishRestores
  <1>2. CASE Ready
    <2>1. PICK o \in [{"prepare", "setup"} -> Outcomes] :
            LET s == [scan EXCEPT !.prepared = TRUE, !.configured = o["prepare"] = "done"]
                l == [lane EXCEPT !.source = IF Takes(o["prepare"]) THEN "borrowed" ELSE @,
                        !.compare = IF s.configured /\ Takes(o["setup"]) THEN "sampling" ELSE @]
            IN \/ scan' = [s EXCEPT !.state = "running"] /\ lane' = l
               \/ Finish(s, l, "failed")
      BY <1>2 DEF Ready
    <2> DEFINE s == [scan EXCEPT !.prepared = TRUE, !.configured = o["prepare"] = "done"]
               l == [lane EXCEPT !.source = IF Takes(o["prepare"]) THEN "borrowed" ELSE @,
                       !.compare = IF s.configured /\ Takes(o["setup"]) THEN "sampling" ELSE @]
    <2>2. s \in Scans /\ l \in Lanes /\ Noted(s, l)
      <3>1. s \in Scans
        BY <1>2 DEF Ready
      <3>2. l \in Lanes
        BY <1>2 DEF Ready
      <3>3. Noted(s, l)
        BY <1>2 DEF Ready, Noted
      <3> QED
        BY <3>1, <3>2, <3>3
    <2>3. s.state = "preparing" /\ s.restoreFailed = scan.restoreFailed /\ scans' = scans
      BY <1>2 DEF Ready
    <2> HIDE DEF s, l
    <2>4. CASE scan' = [s EXCEPT !.state = "running"] /\ lane' = l
      BY <2>2, <2>3, <2>4 DEF Noted
    <2> QED
      BY <1>1, <2>1, <2>2, <2>3, <2>4 DEF s, l
  <1>3. CASE Column
    <2> DEFINE s == [scan EXCEPT !.done = @ + 1]
    <2>1. s \in Scans /\ Noted(s, lane) /\ s.state = "running" /\ scans' = scans
      BY <1>3 DEF Column, Noted
    <2>2. CASE scan' = s /\ UNCHANGED lane
      BY <2>1, <2>2 DEF Noted
    <2> HIDE DEF s
    <2>3. CASE Finish(s, lane, "cancelled") \/ Finish(s, lane, "complete")
      BY <1>1, <2>1, <2>3
    <2> QED
      BY <1>3, <2>2, <2>3 DEF Column, s
  <1>4. CASE CancelTakesEffect \/ ScanFails
    BY <1>1, <1>4 DEF CancelTakesEffect, ScanFails
  <1>5. CASE NativeRestart
    BY <1>5 DEF NativeRestart, NoScan, WholeLane
  <1>6. CASE CancelEye
    BY <1>6 DEF CancelEye, Noted
  <1>7. ASSUME NEW id \in ScanIds, StartEye(id) PROVE ScanKnows' /\ scans' \in Nat
    <2>1. CASE id = scan.id
      BY <1>7, <2>1 DEF StartEye, Noted
    <2>2. CASE id # scan.id
      <3> DEFINE fresh == [NoScan EXCEPT !.id = id, !.run = scans + 1, !.state = "preparing"]
      <3>1. /\ fresh \in Scans /\ Noted(fresh, lane) /\ lane = WholeLane
            /\ fresh.state = "preparing" /\ fresh.configured = FALSE
        <4>1. lane = WholeLane
          BY <1>7, <2>2 DEF StartEye
        <4>2. fresh \in Scans
          <5>1. NoScan \in Scans /\ scans + 1 \in Nat
            BY DEF NoScan
          <5> QED
            BY <5>1
        <4>3. fresh.state = "preparing" /\ fresh.configured = FALSE
          BY DEF NoScan
        <4> QED
          BY <4>1, <4>2, <4>3 DEF Noted, WholeLane
      <3>2. scans' = scans + 1 /\ Begin(id)
        BY <1>7, <2>2 DEF StartEye
      <3>3. CASE Finish(fresh, lane, "failed")
        BY <1>1, <3>1, <3>2, <3>3
      <3>4. ASSUME NEW o \in Outcomes, 
                   LET after == IF Takes(o) THEN [lane EXCEPT !.equalizer = "paused"] ELSE lane
                   IN \/ scan' = Paused(fresh, o) /\ lane' = after
                      \/ Finish(Paused(fresh, o), after, "failed")
            PROVE  ScanKnows'
        <4> DEFINE after == IF Takes(o) THEN [lane EXCEPT !.equalizer = "paused"] ELSE lane
                   paused == Paused(fresh, o)
        <4>1. paused \in Scans /\ after \in Lanes /\ Noted(paused, after)
              /\ paused.state = "preparing" /\ ~paused.configured
          <5> HIDE DEF fresh
          <5>1. paused \in Scans /\ paused.paused /\ paused.state = "preparing" /\ ~paused.configured
            BY <3>1 DEF Paused
          <5>2. after \in Lanes /\ after.source = "own" /\ after.compare = "mission"
            BY <3>1 DEF WholeLane
          <5> QED
            BY <5>1, <5>2 DEF Noted
        <4> HIDE DEF fresh, after, paused
        <4>2. CASE scan' = paused /\ lane' = after
          BY <4>1, <4>2
        <4> QED
          BY <1>1, <3>4, <4>1, <4>2 DEF after, paused
      <3> QED
        BY <3>2, <3>3, <3>4 DEF Begin
    <2> QED
      BY <2>1, <2>2
  <1> QED
    BY <1>2, <1>3, <1>4, <1>5, <1>6, <1>7 DEF CancelTakesEffect, ScanFails, NativeRestart, CancelEye

\* The columns of a page are marked with the run of the scan.
LEMMA PageHolds ==
  ASSUME NEW s \in Scans, NEW column \in Nat
  PROVE  /\ Page(s, column).rows \in Seq({s.run})
         /\ Page(s, column).state \in {"idle", "preparing", "running", "complete", "cancelled",
                                       "failed", "cancelling"}
  <1> DEFINE size == IF s.done - column < PageRows THEN s.done - column ELSE PageRows
             n == IF size < 0 THEN 0 ELSE size
  <1>1. size \in Int /\ n \in Nat /\ 1..size = 1..n
    BY EyeAssumption DEF Scans
  <1>2. Page(s, column).rows = [i \in 1..n |-> s.run]
    BY <1>1 DEF Page
  <1>3. Page(s, column).rows \in [1..n -> {s.run}]
    BY <1>2
  <1>4. Page(s, column).rows \in Seq({s.run})
    BY <1>1, <1>3
  <1> QED
    BY <1>4 DEF Page, Scans, Scanning

\* What is merged of one run is of that run, and no more than was measured.
LEMMA MergeHolds ==
  ASSUME NEW previous, ValueHolds(previous), NEW s \in Scans, NEW column \in Nat,
         Mergeable(previous, Page(s, column))
  PROVE  ValueHolds(Merge(previous, Page(s, column)))
  <1> DEFINE page == Page(s, column)
             first == Len(previous.rows) - page.offset + 1
             more == SubSeq(page.rows, first, Len(page.rows))
             rows == previous.rows \o more
  <1>1. /\ page.rows \in Seq({s.run}) /\ page.id = s.id /\ page.run = s.run /\ page.done = s.done
        /\ page.offset = column /\ page.restored = s.restored
        /\ page.state \in {"idle", "preparing", "running", "complete", "cancelled", "failed", "cancelling"}
    BY PageHolds DEF Page
  <1>2. /\ previous.rows \in Seq(Nat) /\ Len(previous.rows) \in Nat
        /\ \A i \in DOMAIN previous.rows : previous.rows[i] = previous.run
        /\ Len(previous.rows) <= previous.done /\ previous.done \in Nat
    BY DEF ValueHolds, Values
  <1>3. /\ column + Len(page.rows) <= s.done /\ column <= Len(previous.rows)
        /\ page.state = "complete" => page.done = Columns /\ page.restored
        /\ previous = NoValue \/ (previous.run = s.run /\ s.done >= previous.done)
    BY <1>1 DEF Mergeable, ValidPage
  <1>4. Len(previous.rows) <= s.done /\ \A i \in DOMAIN previous.rows : previous.rows[i] = s.run
    BY <1>2, <1>3 DEF NoValue, Scans
  <1>5. first \in Int /\ first >= 1 /\ Len(page.rows) \in Nat /\ s.run \in Nat /\ s.done \in Nat
    BY <1>1, <1>2, <1>3 DEF Scans
  <1>6. \A i \in first..Len(page.rows) : page.rows[i] \in {s.run}
    BY <1>1, <1>5
  <1>7. /\ more \in Seq({s.run}) /\ more \in Seq(Nat)
        /\ Len(more) = IF first <= Len(page.rows) THEN Len(page.rows) - first + 1 ELSE 0
    BY <1>5, <1>6, SubSeqProperties
  <1> HIDE DEF more
  <1>8. /\ rows \in Seq(Nat) /\ Len(rows) = Len(previous.rows) + Len(more)
        /\ \A i \in DOMAIN rows : rows[i] = s.run
    <2>1. /\ rows \in Seq(Nat) /\ Len(rows) = Len(previous.rows) + Len(more)
          /\ \A i \in 1..(Len(previous.rows) + Len(more)) :
               rows[i] = IF i <= Len(previous.rows) THEN previous.rows[i] ELSE more[i - Len(previous.rows)]
      BY <1>2, <1>7, ConcatProperties
    <2> HIDE DEF rows
    <2>2. ASSUME NEW i \in DOMAIN rows PROVE rows[i] = s.run
      <3>1. i \in 1..(Len(previous.rows) + Len(more)) /\ Len(more) \in Nat
        BY <1>7, <2>1
      <3>2. CASE i <= Len(previous.rows)
        <4>1. i \in DOMAIN previous.rows
          BY <1>2, <3>1, <3>2
        <4> QED
          BY <1>4, <2>1, <3>1, <3>2, <4>1
      <3>3. CASE i > Len(previous.rows)
        <4>1. i - Len(previous.rows) \in 1..Len(more)
          BY <1>2, <3>1, <3>3
        <4>2. more[i - Len(previous.rows)] \in {s.run}
          BY <1>7, <4>1
        <4>3. ~(i <= Len(previous.rows))
          BY <1>2, <3>1, <3>3
        <4> QED
          BY <2>1, <3>1, <4>2, <4>3
      <3> QED
        BY <1>2, <3>1, <3>2, <3>3
    <2> QED
      BY <2>1, <2>2
  <1>9. Len(rows) <= s.done
    <2>1. first = Len(previous.rows) - column + 1
      BY <1>1
    <2>2. /\ Len(more) = IF first <= Len(page.rows) THEN Len(page.rows) - first + 1 ELSE 0
          /\ Len(rows) = Len(previous.rows) + Len(more) /\ column + Len(page.rows) <= s.done
          /\ Len(previous.rows) <= s.done
      BY <1>3, <1>4, <1>7, <1>8
    <2> HIDE DEF rows, page, first
    <2>3. CASE first <= Len(page.rows)
      BY <1>2, <1>5, <2>1, <2>2, <2>3
    <2>4. CASE ~(first <= Len(page.rows))
      BY <1>2, <1>5, <2>2, <2>4
    <2> QED
      BY <2>3, <2>4
  <1>10. Merge(previous, page) = [id |-> s.id, run |-> s.run, done |-> s.done, rows |-> rows,
                                  restored |-> s.restored, state |-> StateShown(page, rows)]
    BY <1>1 DEF Merge, more
  <1> HIDE DEF rows, page
  <1>11. /\ StateShown(page, rows) \in {"none", "idle", "preparing", "running", "complete", "cancelled",
                                        "failed", "cancelling", "reading"}
         /\ StateShown(page, rows) = "complete" => page.state = "complete" /\ Len(rows) = Columns
    BY <1>1 DEF StateShown
  <1> QED
    BY <1>1, <1>3, <1>8, <1>9, <1>10, <1>11 DEF ValueHolds, Values, Scans, page

\* What is known of a scan nothing is cached of.
LEMMA NothingHolds == ValueHolds(NoValue)
  <1>1. /\ NoValue.rows = <<>> /\ NoValue.state = "none" /\ NoValue.done = 0
        /\ NoValue \in [id : {"none"}, run : {0}, done : {0}, rows : {<<>>}, restored : {FALSE}, state : {"none"}]
    BY DEF NoValue
  <1>2. <<>> \in Seq(Nat) /\ Len(<<>>) = 0
    BY EmptySeq
  <1>3. NoValue \in Values
    BY <1>2 DEF NoValue, Values
  <1> QED
    BY <1>1, <1>2, <1>3 DEF ValueHolds

\* The order goes on with a new identifier, or stays.
LEMMA PlacedHolds ==
  ASSUME NEW S, NEW order \in Seq(S), NEW id
  PROVE  Placed(order, id) \in Seq(S \cup {id})
  <1>1. order \in Seq(S \cup {id})
    BY SeqMonotonic
  <1> QED
    BY <1>1 DEF Placed

\* What a call answered is merged into what is cached of its scan.
LEMMA KeepHolds ==
  ASSUME CacheHolds, NEW s \in Scans, KeepIfMergeable(Page(s, 0)), UNCHANGED eyeRead
  PROVE  CacheHolds'
  <1>1. CASE UNCHANGED <<eyeCache, eyeOrder>>
    BY <1>1 DEF CacheHolds
  <1> DEFINE value == Merge(Cached(Page(s, 0).id), Page(s, 0))
  <1>2. CASE Mergeable(Cached(Page(s, 0).id), Page(s, 0)) /\ Keep(value)
    <2>1. ValueHolds(Cached(Page(s, 0).id))
      BY NothingHolds DEF Cached, CacheHolds
    <2>2. ValueHolds(value)
      BY <1>2, <2>1, MergeHolds
    <2> HIDE DEF value
    <2>3. /\ eyeCache' = [i \in DOMAIN eyeCache \cup {value.id} |->
                            IF i = value.id THEN value ELSE eyeCache[i]]
          /\ eyeOrder' = Placed(eyeOrder, value.id)
      BY <1>2 DEF Keep
    <2>4. eyeOrder' \in Seq(DOMAIN eyeCache')
      BY <2>3, PlacedHolds DEF CacheHolds
    <2>5. \A i \in DOMAIN eyeCache' : ValueHolds(eyeCache'[i])
      BY <2>2, <2>3 DEF CacheHolds
    <2> QED
      BY <2>4, <2>5 DEF CacheHolds
  <1> QED
    BY <1>1, <1>2 DEF KeepIfMergeable

\* The oldest values are dropped, the others are as they were.
LEMMA ReadEndHolds == ASSUME CacheHolds, ReadEnds PROVE CacheHolds'
  <1> DEFINE id == eyeRead.value.id
             S == DOMAIN eyeCache \cup {id}
             order == Placed(eyeOrder, id)
             first == (IF Len(order) > CacheLimit THEN Len(order) - CacheLimit ELSE 0) + 1
             kept == SubSeq(order, first, Len(order))
  <1>1. /\ eyeOrder' = kept /\ eyeRead' = NoRead
        /\ eyeCache' = [i \in ToSet(kept) |-> IF i = id THEN eyeRead.value ELSE eyeCache[i]]
    BY DEF ReadEnds
  <1>2. order \in Seq(S)
    BY PlacedHolds DEF CacheHolds
  <1> HIDE DEF order
  <1>3. first \in Nat \ {0} /\ Len(order) \in Nat
    BY <1>2, EyeAssumption
  <1> HIDE DEF first
  <1>4. \A i \in first..Len(order) : order[i] \in S
    BY <1>2, <1>3
  <1>5. kept \in Seq(S)
    BY <1>3, <1>4, SubSeqProperties
  <1> HIDE DEF kept, S
  <1>6. ToSet(kept) \subseteq S /\ kept \in Seq(ToSet(kept))
    <2>1. /\ Len(kept) \in Nat /\ DOMAIN kept = 1..Len(kept)
          /\ \A i \in 1..Len(kept) : kept[i] \in S
      BY <1>5
    <2>2. \A i \in 1..Len(kept) : kept[i] \in ToSet(kept)
      BY <2>1 DEF ToSet
    <2>3. SubSeq(kept, 1, Len(kept)) = kept
      BY <1>5, SubSeqFull
    <2>4. SubSeq(kept, 1, Len(kept)) \in Seq(ToSet(kept))
      BY <2>1, <2>2, SubSeqProperties
    <2> QED
      BY <2>1, <2>3, <2>4 DEF ToSet
  <1>7. \A i \in DOMAIN eyeCache' : ValueHolds(eyeCache'[i])
    BY <1>1, <1>6 DEF CacheHolds, S
  <1>8. ValueHolds(eyeRead'.value)
    BY <1>1, NothingHolds DEF NoRead
  <1>9. eyeOrder' \in Seq(DOMAIN eyeCache')
    BY <1>1, <1>6
  <1> QED
    BY <1>7, <1>8, <1>9 DEF CacheHolds

\* A first page, and the ones after it, make a value that holds.
LEMMA ReadHolds == ASSUME CacheHolds, scan \in Scans, ReadBegins \/ ReadsOn PROVE CacheHolds'
  <1>1. UNCHANGED <<eyeCache, eyeOrder>>
    BY DEF ReadBegins, ReadsOn
  <1>2. CASE ReadBegins
    <2>1. ValueHolds(Cached(scan.id))
      BY NothingHolds DEF Cached, CacheHolds
    <2>2. ValueHolds(Merge(Cached(scan.id), Page(scan, 0)))
      BY <1>2, <2>1, MergeHolds DEF ReadBegins
    <2>3. eyeRead'.value = Merge(Cached(scan.id), Page(scan, 0))
      BY <1>2 DEF ReadBegins
    <2> QED
      BY <1>1, <2>2, <2>3 DEF CacheHolds
  <1>3. CASE ReadsOn
    <2>1. CASE eyeRead' = NoRead
      <3>1. ValueHolds(eyeRead'.value)
        BY <2>1, NothingHolds DEF NoRead
      <3> QED
        BY <1>1, <3>1 DEF CacheHolds
    <2>2. CASE eyeRead'.value = Merge(eyeRead.value, NextPage) /\ Mergeable(eyeRead.value, NextPage)
      <3>1. ValueHolds(eyeRead.value) /\ Len(eyeRead.value.rows) \in Nat
        BY DEF CacheHolds, ValueHolds, Values
      <3>2. ValueHolds(Merge(eyeRead.value, NextPage))
        BY <2>2, <3>1, MergeHolds DEF NextPage
      <3> QED
        BY <1>1, <2>2, <3>2 DEF CacheHolds
    <2> QED
      BY <1>3, <2>1, <2>2 DEF ReadsOn
  <1> QED
    BY <1>2, <1>3

\* The panel process starts with nothing cached, before any scan.
LEMMA EyeInitHolds == EyeInit => EyeInv
  <1> SUFFICES ASSUME EyeInit PROVE EyeInv
    OBVIOUS
  <1>1. ScanKnows
    <2>1. scan \in Scans
      BY DEF EyeInit, NoScan, Scans
    <2>2. lane = WholeLane /\ lane \in Lanes
      BY DEF EyeInit, WholeLane, Lanes
    <2>3. scan.state = "idle" /\ ~Scanning(scan)
      BY DEF EyeInit, NoScan, Scanning
    <2> QED
      BY <2>1, <2>2, <2>3 DEF ScanKnows, LaneIsGivenBack
  <1>2. CacheHolds
    BY NothingHolds, EmptySeq DEF EyeInit, CacheHolds, NoRead
  <1> QED
    BY <1>1, <1>2 DEF EyeInit, EyeInv

\* A step keeps it.
LEMMA EyeStepHolds == EyeInv /\ [EyeNext]_eyeVars => EyeInv'
  <1> SUFFICES ASSUME EyeInv, [EyeNext]_eyeVars PROVE EyeInv'
    OBVIOUS
  <1>0. ScanKnows /\ CacheHolds /\ scans \in Nat /\ scan \in Scans
    BY DEF EyeInv, ScanKnows
  <1>1. ASSUME NEW id \in ScanIds, StartEye(id) PROVE EyeInv'
    <2>1. ScanKnows' /\ scans' \in Nat
      BY <1>0, <1>1, ScanStepHolds
    <2>2. scan' \in Scans
      BY <2>1 DEF ScanKnows
    <2>3. KeepIfMergeable(Page(scan', 0)) /\ UNCHANGED eyeRead
      BY <1>1 DEF StartEye
    <2>4. CacheHolds'
      BY <1>0, <2>2, <2>3, KeepHolds
    <2> QED
      BY <2>1, <2>4 DEF EyeInv
  <1>2. CASE CancelEye
    <2>1. ScanKnows' /\ scans' \in Nat
      BY <1>0, <1>2, ScanStepHolds
    <2>2. scan' \in Scans
      BY <2>1 DEF ScanKnows
    <2>3. KeepIfMergeable(Page(scan', 0)) /\ UNCHANGED eyeRead
      BY <1>2 DEF CancelEye
    <2>4. CacheHolds'
      BY <1>0, <2>2, <2>3, KeepHolds
    <2> QED
      BY <2>1, <2>4 DEF EyeInv
  <1>3. CASE ReadBegins \/ ReadsOn \/ ReadEnds
    <2>1. CacheHolds'
      BY <1>0, <1>3, ReadHolds, ReadEndHolds
    <2>2. UNCHANGED <<scan, lane, scans>>
      BY <1>3 DEF ReadBegins, ReadsOn, ReadEnds
    <2> QED
      BY <1>0, <2>1, <2>2 DEF EyeInv, ScanKnows, LaneIsGivenBack
  <1>4. CASE Ready \/ Column \/ CancelTakesEffect \/ ScanFails \/ NativeRestart
    <2>1. ScanKnows' /\ scans' \in Nat
      BY <1>0, <1>4, ScanStepHolds
    <2>2. UNCHANGED <<eyeCache, eyeOrder, eyeRead>>
      BY <1>4 DEF Ready, Column, CancelTakesEffect, ScanFails, NativeRestart
    <2> QED
      BY <1>0, <2>1, <2>2 DEF EyeInv, CacheHolds
  <1>5. CASE UNCHANGED eyeVars
    BY <1>0, <1>5 DEF eyeVars, EyeInv, ScanKnows, LaneIsGivenBack, CacheHolds
  <1> QED
    BY <1>1, <1>2, <1>3, <1>4, <1>5 DEF EyeNext

\* A lane no scan runs on is as it was, unless a scan says that it is not
\* (LaneIsGivenBack).
THEOREM LanesAreGivenBack == EyeSpec => []LaneIsGivenBack
  <1>1. EyeInv => LaneIsGivenBack
    BY DEF EyeInv, ScanKnows
  <1> QED
    BY <1>1, EyeInitHolds, EyeStepHolds, PTL DEF EyeSpec

\* The columns the panel keeps are of one run, and a complete diagram has all
\* of them and its lane back (EyeIsWhole).
THEOREM EyesAreWhole == EyeSpec => []EyeIsWhole
  <1>1. EyeInv => EyeIsWhole
    BY DEF EyeInv, CacheHolds, ValueHolds, EyeIsWhole
  <1> QED
    BY <1>1, EyeInitHolds, EyeStepHolds, PTL DEF EyeSpec

(***************************************************************************)
(* RoCE monitor.  What the alarm is decided from is the history: there is  *)
(* a sample from which on the last ones are unbroken, the time observed    *)
(* has run since then, and what the monitor compares the next sample with  *)
(* is the last one (Accounted).                                            *)
(***************************************************************************)
Stalls == [at : Nat, revision : Nat, applied : {TRUE}, generation : Nat, tx : Nat]

Samples == [revision : Nat, generation : Nat \cup {Unread}, stalled : BOOLEAN, tx : Nat]

MonitorTypes ==
  /\ roceSwitch \in [revision : Nat, pending : BOOLEAN, generation : Nat, tx : Nat]
  /\ roceClock \in Nat /\ readings \in Nat
  /\ reading = Unread \/ reading \in [revision : Nat, sample : Samples \cup {Unread}]
  /\ monitor \in [lastRead : Nat \cup {Unread}, revision : Nat \cup {Unread},
                  generation : Nat \cup {Unread},
                  prior : [stalled : BOOLEAN, observed : Nat, alarm : BOOLEAN,
                           tx : Nat \cup {Unread}]]
  /\ stalls \in Seq(Stalls)

\* The parts of a reading are no older than its configuration, and no newer
\* than the one of the switch.
ReadingIsOrdered ==
  reading # Unread =>
    /\ reading.revision <= roceSwitch.revision
    /\ reading.sample # Unread =>
         /\ reading.revision <= reading.sample.revision
         /\ reading.sample.revision <= roceSwitch.revision
         /\ reading.sample.stalled => reading.sample.generation # Unread

\* The clock never runs backwards.
StallsAreOrdered ==
  \A j \in 1..Len(stalls) :
    stalls[j].at <= roceClock /\ \A i \in 1..j : stalls[i].at <= stalls[j].at

\* The samples are unbroken from the k-th on, and from no earlier one.
UnbrokenFrom(k) == \A i \in 1..Len(stalls) : Unbroken(i) <=> k <= i

Accounted ==
  IF stalls = <<>> THEN ~monitor.prior.stalled /\ ~monitor.prior.alarm
  ELSE LET last == stalls[Len(stalls)]
       IN /\ monitor.lastRead = last.at /\ monitor.revision = last.revision
          /\ monitor.generation = last.generation
          /\ monitor.prior.tx = last.tx /\ monitor.prior.stalled
          /\ monitor.prior.alarm <=> monitor.prior.observed >= StallSeconds
          /\ \E k \in 1..Len(stalls) :
               UnbrokenFrom(k) /\ monitor.prior.observed = last.at - stalls[k].at

MonitorInv == MonitorTypes /\ ReadingIsOrdered /\ StallsAreOrdered /\ Accounted

\* The entry follows the last sample without a break.
Follows(entry) ==
  LET last == stalls[Len(stalls)]
  IN /\ entry.revision = last.revision
     /\ entry.generation > last.generation
     /\ entry.tx = last.tx
     /\ entry.at - last.at \in 1..(3 * Interval)

\* What is unbroken stays so exactly when the next sample follows.
LEMMA UnbrokenAfter ==
  ASSUME MonitorTypes, NEW entry \in Stalls, stalls' = Append(stalls, entry)
  PROVE  /\ \A i \in 1..Len(stalls) : (Unbroken(i))' <=> (Unbroken(i) /\ Follows(entry))
         /\ \A i : i = Len(stalls) + 1 => (Unbroken(i))'
  <1> DEFINE n == Len(stalls)
  <1>1. /\ n \in Nat /\ Len(stalls') = n + 1 /\ stalls'[n + 1] = entry
        /\ \A j \in 1..n : stalls'[j] = stalls[j] /\ stalls[j] \in Stalls
    BY DEF MonitorTypes
  <1> HIDE DEF n
  <1>0. entry.applied
    <2>1. entry.applied = TRUE
      BY DEF Stalls
    <2> QED
      BY <2>1
  <1>2. ASSUME NEW i, i = n + 1 PROVE (Unbroken(i))'
    <2>1. \A j \in i..(n + 1) : j = n + 1
      BY <1>1, <1>2
    <2>2. \A j \in i..(n + 1) :
            /\ stalls'[j].revision = stalls'[n + 1].revision /\ stalls'[j].applied
            /\ ~(j > i)
      BY <1>0, <1>1, <1>2, <2>1
    <2> QED
      BY <1>1, <2>2 DEF Unbroken
  <1>3. ASSUME NEW i \in 1..n PROVE (Unbroken(i))' <=> (Unbroken(i) /\ Follows(entry))
    <2>1. i \in Nat /\ 1 <= i /\ i <= n
      BY <1>1, <1>3
    <2>2. ASSUME (Unbroken(i))' PROVE Unbroken(i) /\ Follows(entry)
      <3>1. \A j \in i..(n + 1) :
              /\ stalls'[j].revision = entry.revision /\ stalls'[j].applied
              /\ j > i => /\ stalls'[j].generation > stalls'[j - 1].generation
                          /\ stalls'[j].tx = stalls'[j - 1].tx
                          /\ stalls'[j].at - stalls'[j - 1].at \in 1..(3 * Interval)
        BY <1>1, <2>2 DEF Unbroken
      <3>2. n \in i..(n + 1) /\ n + 1 \in i..(n + 1) /\ n + 1 > i /\ (n + 1) - 1 = n /\ n \in 1..n
        BY <1>1, <2>1
      <3>3. Follows(entry)
        <4>1. stalls'[n] = stalls[n]
          BY <1>1, <3>2
        <4>2. /\ stalls[n].revision = entry.revision
              /\ entry.generation > stalls[n].generation /\ entry.tx = stalls[n].tx
              /\ entry.at - stalls[n].at \in 1..(3 * Interval)
          BY <1>1, <3>1, <3>2, <4>1
        <4> QED
          BY <4>2 DEF Follows, n
      <3>4. ASSUME NEW j \in i..n
            PROVE  /\ stalls[j].revision = stalls[n].revision /\ stalls[j].applied
                   /\ j > i => /\ stalls[j].generation > stalls[j - 1].generation
                               /\ stalls[j].tx = stalls[j - 1].tx
                               /\ stalls[j].at - stalls[j - 1].at \in 1..(3 * Interval)
        <4>1. j \in i..(n + 1) /\ j \in 1..n
          BY <1>1, <2>1
        <4>2. stalls'[j] = stalls[j] /\ stalls'[n] = stalls[n]
          BY <1>1, <3>2, <4>1
        <4>3. j > i => stalls'[j - 1] = stalls[j - 1]
          BY <1>1, <2>1, <4>1
        <4>4. stalls[j].revision = stalls[n].revision
          BY <3>1, <3>2, <4>1, <4>2
        <4> QED
          BY <3>1, <4>1, <4>2, <4>3, <4>4
      <3> QED
        BY <3>3, <3>4 DEF Unbroken, n
    <2>3. ASSUME Unbroken(i), Follows(entry) PROVE (Unbroken(i))'
      <3>1. \A j \in i..n :
              /\ stalls[j].revision = stalls[n].revision /\ stalls[j].applied
              /\ j > i => /\ stalls[j].generation > stalls[j - 1].generation
                          /\ stalls[j].tx = stalls[j - 1].tx
                          /\ stalls[j].at - stalls[j - 1].at \in 1..(3 * Interval)
        BY <2>3 DEF Unbroken, n
      <3>2. /\ entry.revision = stalls[n].revision
            /\ entry.generation > stalls[n].generation /\ entry.tx = stalls[n].tx
            /\ entry.at - stalls[n].at \in 1..(3 * Interval)
        BY <2>3 DEF Follows, n
      <3>3. stalls'[n] = stalls[n]
        BY <1>1, <2>1
      <3>4. ASSUME NEW j \in i..(n + 1)
            PROVE  /\ stalls'[j].revision = entry.revision /\ stalls'[j].applied
                   /\ j > i => /\ stalls'[j].generation > stalls'[j - 1].generation
                               /\ stalls'[j].tx = stalls'[j - 1].tx
                               /\ stalls'[j].at - stalls'[j - 1].at \in 1..(3 * Interval)
        <4>1. CASE j = n + 1
          <5>1. j - 1 = n
            BY <1>1, <4>1
          <5> QED
            BY <1>0, <1>1, <3>2, <3>3, <4>1, <5>1
        <4>2. CASE j \in i..n
          <5>1. stalls'[j] = stalls[j] /\ (j > i => stalls'[j - 1] = stalls[j - 1])
            BY <1>1, <2>1, <4>2
          <5> QED
            BY <3>1, <3>2, <4>2, <5>1
        <4> QED
          BY <1>1, <2>1, <4>1, <4>2
      <3> QED
        BY <1>1, <3>4 DEF Unbroken
    <2> QED
      BY <2>2, <2>3
  <1> QED
    BY <1>2, <1>3 DEF n

\* After a stalled sample the monitor has observed since the same sample as
\* before if this one follows, and nothing otherwise.
LEMMA StalledIsAccounted ==
  ASSUME MonitorInv, MonitorTypes', NEW sample \in Samples, NEW entry \in Stalls,
         sample.stalled, sample.generation # Unread,
         entry.at = roceClock, entry.revision = sample.revision,
         entry.generation = sample.generation, entry.tx = sample.tx,
         monitor' = Observe(monitor, sample, roceClock), stalls' = Append(stalls, entry)
  PROVE  Accounted'
  <1> USE MonitorAssumption
  <1> DEFINE n == Len(stalls)
             prior == Known(monitor, sample, roceClock)
             still == sample.stalled /\ prior.stalled /\ sample.tx = prior.tx
             observed == IF still THEN prior.observed + roceClock - monitor.lastRead ELSE 0
             alarm == sample.stalled /\ observed >= StallSeconds
  <1>1. /\ n \in Nat /\ Len(stalls') = n + 1 /\ stalls'[n + 1] = entry /\ stalls' # <<>>
        /\ \A j \in 1..n : stalls'[j] = stalls[j] /\ stalls[j] \in Stalls
    BY DEF MonitorInv, MonitorTypes
  <1>2. /\ \A i \in 1..n : (Unbroken(i))' <=> (Unbroken(i) /\ Follows(entry))
        /\ \A i : i = n + 1 => (Unbroken(i))'
    BY UnbrokenAfter DEF MonitorInv
  <1>3. /\ entry.at \in Nat /\ entry.generation \in Nat /\ roceClock \in Nat
        /\ monitor.prior.observed \in Nat
    BY DEF MonitorInv, MonitorTypes, Stalls
  <1>4. monitor' = [lastRead |-> roceClock, revision |-> sample.revision,
                    generation |-> sample.generation,
                    prior |-> [stalled |-> sample.stalled, observed |-> observed,
                               alarm |-> alarm, tx |-> sample.tx]]
    BY DEF Observe
  <1> HIDE DEF observed, alarm
  <1>9. /\ monitor'.lastRead = roceClock /\ monitor'.revision = sample.revision
        /\ monitor'.generation = sample.generation
        /\ monitor'.prior.stalled = sample.stalled /\ monitor'.prior.observed = observed
        /\ monitor'.prior.alarm = alarm /\ monitor'.prior.tx = sample.tx
    <2> DEFINE m == monitor'
               stalled == sample.stalled
    <2>1. m = [lastRead |-> roceClock, revision |-> sample.revision, generation |-> sample.generation,
               prior |-> [stalled |-> stalled, observed |-> observed, alarm |-> alarm, tx |-> sample.tx]]
      BY <1>4
    <2> HIDE DEF m, stalled
    <2>2. /\ m.lastRead = roceClock /\ m.revision = sample.revision
          /\ m.generation = sample.generation
          /\ m.prior.stalled = stalled /\ m.prior.observed = observed
          /\ m.prior.alarm = alarm /\ m.prior.tx = sample.tx
      BY <2>1
    <2> QED
      BY <2>2, Zenon DEF m, stalled
  <1>5. /\ monitor'.lastRead = entry.at /\ monitor'.revision = entry.revision
        /\ monitor'.generation = entry.generation /\ monitor'.prior.tx = entry.tx
        /\ monitor'.prior.stalled /\ monitor'.prior.observed = observed
        /\ monitor'.prior.alarm = alarm
    BY <1>9, Zenon
  <1>6. alarm <=> observed >= StallSeconds
    BY DEF alarm
  <1>7. CASE stalls # <<>> /\ Follows(entry)
    <2> DEFINE last == stalls[n]
    <2>1. n \in 1..n
      BY <1>1, <1>7 DEF MonitorInv, MonitorTypes
    <2>2. /\ monitor.lastRead = last.at /\ monitor.revision = last.revision
          /\ monitor.generation = last.generation /\ monitor.prior.tx = last.tx
          /\ monitor.prior.stalled
      BY <1>7 DEF MonitorInv, Accounted
    <2>3. PICK k \in 1..n : UnbrokenFrom(k) /\ monitor.prior.observed = last.at - stalls[k].at
      BY <1>7 DEF MonitorInv, Accounted
    <2>4. /\ entry.revision = last.revision /\ entry.generation > last.generation
          /\ entry.tx = last.tx /\ entry.at - last.at \in 1..(3 * Interval)
          /\ last.at \in Nat /\ last.generation \in Nat /\ stalls[k].at \in Nat
      BY <1>1, <1>7, <2>1, <2>3 DEF Follows, Stalls
    <2>5. Continuous(monitor, sample, roceClock)
      BY <1>3, <2>2, <2>4 DEF Continuous
    <2>6. prior = monitor.prior
      BY <2>2, <2>4, <2>5 DEF Known
    <2>7. observed = monitor.prior.observed + roceClock - monitor.lastRead
      BY <2>2, <2>4, <2>6 DEF observed
    <2>8. observed = entry.at - stalls'[k].at
      <3>1. /\ observed = monitor.prior.observed + entry.at - last.at
            /\ monitor.prior.observed = last.at - stalls[k].at
        BY <2>2, <2>3, <2>7
      <3>2. stalls'[k] = stalls[k]
        BY <1>1
      <3>3. last.at \in Nat /\ stalls[k].at \in Nat
        BY <2>4
      <3> HIDE DEF last, n
      <3> QED
        BY <1>3, <3>1, <3>2, <3>3
    <2>9. (UnbrokenFrom(k))'
      BY <1>1, <1>2, <1>7, <2>3 DEF UnbrokenFrom
    <2> QED
      BY <1>1, <1>5, <1>6, <2>3, <2>8, <2>9 DEF Accounted
  <1>8. CASE stalls = <<>> \/ ~Follows(entry)
    <2>1. ~still
      <3>1. CASE stalls = <<>>
        <4>1. ~monitor.prior.stalled
          BY <3>1 DEF MonitorInv, Accounted
        <4>2. prior = NothingPrior \/ prior = monitor.prior
          BY DEF Known, Gap, Continuous, MonitorInv, MonitorTypes
        <4> QED
          BY <4>1, <4>2 DEF NothingPrior
      <3>2. CASE stalls # <<>> /\ ~Follows(entry)
        <4> DEFINE last == stalls[n]
        <4>1. n \in 1..n
          BY <1>1, <3>2 DEF MonitorInv, MonitorTypes
        <4>2. /\ monitor.lastRead = last.at /\ monitor.revision = last.revision
              /\ monitor.generation = last.generation /\ monitor.prior.tx = last.tx
          BY <3>2 DEF MonitorInv, Accounted
        <4>3. /\ last.at \in Nat /\ last.generation \in Nat
          BY <1>1, <4>1 DEF Stalls
        <4>4. CASE sample.revision # monitor.revision
          <5>1. prior = NothingPrior
            BY <4>4 DEF Known, Gap, Continuous, MonitorInv, MonitorTypes
          <5> QED
            BY <5>1 DEF NothingPrior
        <4>5. CASE sample.revision = monitor.revision
          <5>1. CASE ~Continuous(monitor, sample, roceClock)
            <6>1. prior = NothingPrior
              BY <4>5, <5>1 DEF Known
            <6> QED
              BY <6>1 DEF NothingPrior
          <5>2. CASE Continuous(monitor, sample, roceClock)
            <6>1. prior = monitor.prior
              BY <4>5, <5>2 DEF Known
            <6>2. /\ entry.revision = last.revision /\ entry.generation > last.generation
                  /\ entry.at - last.at \in 1..(3 * Interval)
              BY <1>3, <4>2, <4>3, <4>5, <5>2 DEF Continuous
            <6>3. entry.tx # last.tx
              BY <3>2, <6>2 DEF Follows
            <6> QED
              BY <4>2, <6>1, <6>3
          <5> QED
            BY <5>1, <5>2
        <4> QED
          BY <4>4, <4>5
      <3> QED
        BY <1>8, <3>1, <3>2
    <2>2. observed = 0
      BY <2>1 DEF observed
    <2>3. \A i \in 1..n : ~(Unbroken(i))'
      <3>1. CASE stalls = <<>>
        BY <1>1, <3>1
      <3>2. CASE ~Follows(entry)
        BY <1>2, <3>2
      <3> QED
        BY <1>8, <3>1, <3>2
    <2>4. \A k : k = n + 1 => (UnbrokenFrom(k))'
      BY <1>1, <1>2, <2>3 DEF UnbrokenFrom
    <2>5. \A k : k = n + 1 => k \in 1..Len(stalls') /\ observed = entry.at - stalls'[k].at
      BY <1>1, <1>3, <2>2
    <2> QED
      BY <1>1, <1>5, <1>6, <2>4, <2>5 DEF Accounted
  <1> QED
    BY <1>7, <1>8

\* What the monitor keeps has its types.
LEMMA ObserveHasTypes ==
  ASSUME MonitorTypes, NEW sample \in Samples
  PROVE  /\ Observe(monitor, sample, roceClock) \in
              [lastRead : Nat \cup {Unread}, revision : Nat \cup {Unread},
               generation : Nat \cup {Unread},
               prior : [stalled : BOOLEAN, observed : Nat, alarm : BOOLEAN,
                        tx : Nat \cup {Unread}]]
         /\ ~sample.stalled => /\ ~Observe(monitor, sample, roceClock).prior.stalled
                               /\ ~Observe(monitor, sample, roceClock).prior.alarm
  <1> USE MonitorAssumption
  <1> DEFINE prior == Known(monitor, sample, roceClock)
             stalled == sample.stalled
             still == sample.stalled /\ prior.stalled /\ sample.tx = prior.tx
             observed == IF still THEN prior.observed + roceClock - monitor.lastRead ELSE 0
             alarm == sample.stalled /\ observed >= StallSeconds
  <1>1. /\ roceClock \in Nat /\ monitor.lastRead \in Nat \cup {Unread}
        /\ monitor.prior.observed \in Nat
        /\ sample.revision \in Nat /\ sample.generation \in Nat \cup {Unread} /\ sample.tx \in Nat
    BY DEF MonitorTypes, Samples
  <1>2. stalled \in BOOLEAN /\ alarm \in BOOLEAN
    BY DEF Samples
  <1>3. Observe(monitor, sample, roceClock) =
          [lastRead |-> roceClock, revision |-> sample.revision, generation |-> sample.generation,
           prior |-> [stalled |-> stalled, observed |-> observed, alarm |-> alarm, tx |-> sample.tx]]
    BY DEF Observe
  <1>4. observed \in Nat
    <2>1. CASE still
      <3>1. prior = NothingPrior \/ (Continuous(monitor, sample, roceClock) /\ prior = monitor.prior)
        BY DEF Known, Gap, Continuous, MonitorTypes
      <3>2. Continuous(monitor, sample, roceClock) /\ prior = monitor.prior
        BY <2>1, <3>1 DEF NothingPrior
      <3>3. roceClock - monitor.lastRead > 0 /\ monitor.lastRead \in Nat
        BY <1>1, <3>2 DEF Continuous
      <3>4. observed = monitor.prior.observed + roceClock - monitor.lastRead
        BY <2>1, <3>2
      <3> HIDE DEF observed
      <3> QED
        BY <1>1, <3>3, <3>4
    <2>2. CASE ~still
      BY <2>2
    <2> QED
      BY <2>1, <2>2
  <1>5. ~stalled => ~alarm
    OBVIOUS
  <1> HIDE DEF observed, alarm, stalled
  <1>6. [stalled |-> stalled, observed |-> observed, alarm |-> alarm, tx |-> sample.tx]
          \in [stalled : BOOLEAN, observed : Nat, alarm : BOOLEAN, tx : Nat \cup {Unread}]
    BY <1>1, <1>2, <1>4
  <1>7. Observe(monitor, sample, roceClock) \in
              [lastRead : Nat \cup {Unread}, revision : Nat \cup {Unread},
               generation : Nat \cup {Unread},
               prior : [stalled : BOOLEAN, observed : Nat, alarm : BOOLEAN,
                        tx : Nat \cup {Unread}]]
    BY <1>1, <1>3, <1>6
  <1>8. /\ Observe(monitor, sample, roceClock).prior.stalled = stalled
        /\ Observe(monitor, sample, roceClock).prior.alarm = alarm
    BY <1>3
  <1> QED
    BY <1>5, <1>7, <1>8, Zenon DEF stalled

\* A monitor that has read nothing.
LEMMA MonitorInitHolds == MonitorInit => MonitorInv
  <1> SUFFICES ASSUME MonitorInit PROVE MonitorInv
    OBVIOUS
  <1>1. stalls = <<>> /\ Len(stalls) = 0 /\ stalls \in Seq(Stalls) /\ reading = Unread
    BY EmptySeq DEF MonitorInit
  <1>2. NothingPrior \in [stalled : BOOLEAN, observed : Nat, alarm : BOOLEAN, tx : Nat \cup {Unread}]
    BY DEF NothingPrior
  <1>3. MonitorTypes
    BY <1>1, <1>2 DEF MonitorTypes, MonitorInit
  <1>4. ~monitor.prior.stalled /\ ~monitor.prior.alarm
    BY DEF MonitorInit, NothingPrior
  <1> QED
    BY <1>1, <1>3, <1>4 DEF MonitorInv, ReadingIsOrdered, StallsAreOrdered, Accounted

\* After a gap nothing is observed.
LEMMA GapHolds ==
  ASSUME MonitorInv, monitor' = Gap(monitor), stalls' = <<>>,
         roceSwitch' \in [revision : Nat, pending : BOOLEAN, generation : Nat, tx : Nat],
         roceClock' \in Nat, readings' \in Nat, reading' = Unread
  PROVE  MonitorInv'
  <1>1. stalls' = <<>> /\ Len(stalls') = 0 /\ stalls' \in Seq(Stalls)
    BY EmptySeq
  <1>2. NothingPrior \in [stalled : BOOLEAN, observed : Nat, alarm : BOOLEAN, tx : Nat \cup {Unread}]
    BY DEF NothingPrior
  <1>3. MonitorTypes'
    BY <1>1, <1>2 DEF MonitorInv, MonitorTypes, Gap
  <1>4. ~monitor'.prior.stalled /\ ~monitor'.prior.alarm
    <2>1. monitor'.prior = NothingPrior
      BY DEF Gap, MonitorInv, MonitorTypes
    <2> QED
      BY <2>1 DEF NothingPrior
  <1> QED
    BY <1>1, <1>3, <1>4 DEF MonitorInv, ReadingIsOrdered, StallsAreOrdered, Accounted

\* A sample is accounted for.
LEMMA SampledHolds == ASSUME MonitorInv, Sampled PROVE MonitorInv'
  <1> USE MonitorAssumption
  <1> DEFINE sample == [reading.sample EXCEPT !.revision = roceSwitch.revision]
             entry == [at |-> roceClock, revision |-> reading.sample.revision,
                       applied |-> ~roceSwitch.pending,
                       generation |-> sample.generation, tx |-> sample.tx]
  <1>1. /\ reading.sample \in Samples /\ reading.revision \in Nat
        /\ reading.revision <= reading.sample.revision
        /\ reading.sample.revision <= roceSwitch.revision
        /\ reading.sample.stalled => reading.sample.generation # Unread
    BY DEF Sampled, MonitorInv, MonitorTypes, ReadingIsOrdered
  <1>2. /\ reading.revision = roceSwitch.revision /\ ~roceSwitch.pending /\ reading' = Unread
        /\ UNCHANGED <<roceSwitch, roceClock, readings>>
        /\ monitor' = Observe(monitor, sample, roceClock)
        /\ stalls' = IF sample.stalled THEN Append(stalls, entry) ELSE <<>>
    BY DEF Sampled, OneRevision
  <1>3. roceSwitch.revision \in Nat /\ roceClock \in Nat
    BY DEF MonitorInv, MonitorTypes
  <1>4. reading.sample.revision = roceSwitch.revision
    BY <1>1, <1>2, <1>3 DEF Samples
  <1>5. sample \in Samples
    BY <1>1, <1>3 DEF Samples
  <1>6. sample.generation = reading.sample.generation /\ sample.revision = roceSwitch.revision
    BY <1>1 DEF Samples
  <1>7. sample.stalled => sample.generation # Unread
    BY <1>1 DEF Samples
  <1> HIDE DEF sample
  <1>8. ReadingIsOrdered'
    BY <1>2 DEF ReadingIsOrdered
  <1>9. /\ monitor' \in [lastRead : Nat \cup {Unread}, revision : Nat \cup {Unread},
                         generation : Nat \cup {Unread},
                         prior : [stalled : BOOLEAN, observed : Nat, alarm : BOOLEAN,
                                  tx : Nat \cup {Unread}]]
        /\ ~sample.stalled => ~monitor'.prior.stalled /\ ~monitor'.prior.alarm
    BY <1>2, <1>5, ObserveHasTypes DEF MonitorInv
  <1>10. CASE sample.stalled
    <2>1. entry \in Stalls
      <3>1. sample.generation \in Nat /\ sample.tx \in Nat
        BY <1>5, <1>7, <1>10 DEF Samples
      <3>2. ~roceSwitch.pending \in {TRUE}
        BY <1>2
      <3> QED
        BY <1>3, <1>4, <3>1, <3>2 DEF Stalls
    <2>2. /\ entry.at = roceClock /\ entry.revision = sample.revision
          /\ entry.generation = sample.generation /\ entry.tx = sample.tx
      BY <1>4, <1>6
    <2>3. stalls' = Append(stalls, entry)
      BY <1>2, <1>10
    <2> HIDE DEF entry
    <2>4. stalls' \in Seq(Stalls)
      BY <2>1, <2>3 DEF MonitorInv, MonitorTypes
    <2>5. MonitorTypes'
      BY <1>2, <1>9, <2>4 DEF MonitorInv, MonitorTypes
    <2>6. Accounted'
      BY <1>2, <1>5, <1>7, <1>10, <2>1, <2>2, <2>3, <2>5, StalledIsAccounted
    <2>7. StallsAreOrdered'
      <3> DEFINE n == Len(stalls)
      <3>1. /\ n \in Nat /\ Len(stalls') = n + 1 /\ stalls'[n + 1] = entry
            /\ \A j \in 1..n : stalls'[j] = stalls[j] /\ stalls[j] \in Stalls
        BY <2>3 DEF MonitorInv, MonitorTypes
      <3>2. \A j \in 1..n : stalls[j].at <= roceClock /\ \A i \in 1..j : stalls[i].at <= stalls[j].at
        BY DEF MonitorInv, StallsAreOrdered
      <3> HIDE DEF n
      <3>3. ASSUME NEW j \in 1..(n + 1), NEW i \in 1..j
            PROVE  stalls'[j].at <= roceClock /\ stalls'[i].at <= stalls'[j].at
        <4>1. CASE j = n + 1
          <5>1. CASE i = n + 1
            BY <1>3, <2>2, <3>1, <4>1, <5>1
          <5>2. CASE i \in 1..n
            BY <1>3, <2>2, <3>1, <3>2, <4>1, <5>2
          <5> QED
            BY <3>1, <4>1, <5>1, <5>2
        <4>2. CASE j \in 1..n
          <5>1. i \in 1..n
            BY <3>1, <4>2
          <5> QED
            BY <3>1, <3>2, <4>2, <5>1
        <4> QED
          BY <3>1, <4>1, <4>2
      <3>4. n + 1 \in Nat
        BY <3>1
      <3> QED
        BY <1>2, <3>1, <3>3, <3>4 DEF StallsAreOrdered
    <2> QED
      BY <1>8, <2>5, <2>6, <2>7 DEF MonitorInv
  <1>11. CASE ~sample.stalled
    <2>1. stalls' = <<>> /\ Len(stalls') = 0 /\ stalls' \in Seq(Stalls)
      BY <1>2, <1>11, EmptySeq
    <2>2. MonitorTypes'
      BY <1>2, <1>9, <2>1 DEF MonitorInv, MonitorTypes
    <2> QED
      BY <1>8, <1>9, <1>11, <2>1, <2>2 DEF MonitorInv, StallsAreOrdered, Accounted
  <1> QED
    BY <1>10, <1>11

\* What the history is decided from stays as it is.
LEMMA HistoryStays ==
  ASSUME MonitorInv, UNCHANGED <<monitor, stalls>>, roceClock <= roceClock', roceClock' \in Nat
  PROVE  StallsAreOrdered' /\ Accounted'
  <1>1. Accounted'
    <2>1. \A k : UnbrokenFrom(k) => (UnbrokenFrom(k))'
      BY DEF UnbrokenFrom, Unbroken
    <2> QED
      BY <2>1 DEF MonitorInv, Accounted
  <1>2. \A j \in 1..Len(stalls) : stalls[j].at \in Nat
    <2>1. \A j \in 1..Len(stalls) : stalls[j] \in Stalls
      BY DEF MonitorInv, MonitorTypes
    <2> QED
      BY <2>1 DEF Stalls
  <1>3. \A j \in 1..Len(stalls) : stalls[j].at <= roceClock /\ \A i \in 1..j : stalls[i].at <= stalls[j].at
    BY DEF MonitorInv, StallsAreOrdered
  <1>4. roceClock \in Nat
    BY DEF MonitorInv, MonitorTypes
  <1>5. \A j \in 1..Len(stalls) : stalls[j].at <= roceClock'
    BY <1>2, <1>3, <1>4
  <1>6. StallsAreOrdered'
    BY <1>3, <1>5 DEF StallsAreOrdered
  <1> QED
    BY <1>1, <1>6

\* A step keeps it.
LEMMA MonitorStepHolds == MonitorInv /\ [MonitorNext]_monitorVars => MonitorInv'
  <1> SUFFICES ASSUME MonitorInv, [MonitorNext]_monitorVars PROVE MonitorInv'
    OBVIOUS
  <1> USE MonitorAssumption
  <1>0. /\ roceSwitch \in [revision : Nat, pending : BOOLEAN, generation : Nat, tx : Nat]
        /\ roceClock \in Nat /\ readings \in Nat
    BY DEF MonitorInv, MonitorTypes
  <1>1. CASE RoceApply \/ RoceCommitted \/ Transmit
    <2>1. roceSwitch' \in [revision : Nat, pending : BOOLEAN, generation : Nat, tx : Nat]
          /\ roceSwitch.revision <= roceSwitch'.revision
      <3>0. ASSUME NEW b \in BOOLEAN, NEW n \in Nat
            PROVE  LET next == [roceSwitch EXCEPT !.pending = b, !.revision = n]
                   IN /\ next \in [revision : Nat, pending : BOOLEAN, generation : Nat, tx : Nat]
                      /\ next.revision = n
        BY <1>0
      <3>1. CASE RoceApply
        <4>1. roceSwitch' = [roceSwitch EXCEPT !.pending = TRUE, !.revision = roceSwitch.revision + 1]
          BY <3>1 DEF RoceApply
        <4>2. roceSwitch.revision \in Nat /\ roceSwitch.revision + 1 \in Nat /\ TRUE \in BOOLEAN
          BY <1>0
        <4>3. /\ roceSwitch' \in [revision : Nat, pending : BOOLEAN, generation : Nat, tx : Nat]
              /\ roceSwitch'.revision = roceSwitch.revision + 1
          BY <3>0, <4>1, <4>2, Zenon
        <4> QED
          BY <4>2, <4>3
      <3>2. CASE RoceCommitted
        <4>1. roceSwitch' = [roceSwitch EXCEPT !.pending = FALSE, !.revision = roceSwitch.revision]
          BY <1>0, <3>2 DEF RoceCommitted
        <4>2. roceSwitch.revision \in Nat /\ FALSE \in BOOLEAN
          BY <1>0
        <4>3. /\ roceSwitch' \in [revision : Nat, pending : BOOLEAN, generation : Nat, tx : Nat]
              /\ roceSwitch'.revision = roceSwitch.revision
          BY <3>0, <4>1, <4>2, Zenon
        <4> QED
          BY <4>2, <4>3
      <3>3. CASE Transmit
        BY <1>0, <3>3 DEF Transmit
      <3> QED
        BY <1>1, <3>1, <3>2, <3>3
    <2>2. UNCHANGED <<roceClock, reading, monitor, stalls, readings>>
      BY <1>1 DEF RoceApply, RoceCommitted, Transmit
    <2>3. MonitorTypes'
      BY <2>1, <2>2 DEF MonitorInv, MonitorTypes
    <2>4. ReadingIsOrdered'
      BY <1>0, <2>1, <2>2 DEF MonitorInv, MonitorTypes, ReadingIsOrdered, Samples
    <2>5. StallsAreOrdered' /\ Accounted'
      BY <1>0, <2>2, HistoryStays
    <2> QED
      BY <2>3, <2>4, <2>5 DEF MonitorInv
  <1>2. CASE ReadRoce
    <2>1. roceClock' \in Nat /\ roceClock <= roceClock' /\ readings' \in Nat
          /\ UNCHANGED roceSwitch /\ reading = Unread
      BY <1>0, <1>2 DEF ReadRoce
    <2>2. CASE monitor' = Gap(monitor) /\ stalls' = <<>> /\ UNCHANGED reading
      BY <1>0, <2>1, <2>2, GapHolds
    <2>3. CASE /\ reading' = [revision |-> roceSwitch.revision, sample |-> Unread]
               /\ UNCHANGED <<monitor, stalls>>
      <3>1. reading' \in [revision : Nat, sample : Samples \cup {Unread}]
        BY <1>0, <2>3
      <3>2. MonitorTypes'
        BY <2>1, <2>3, <3>1 DEF MonitorInv, MonitorTypes
      <3>3. ReadingIsOrdered'
        BY <1>0, <2>1, <2>3 DEF ReadingIsOrdered
      <3>4. StallsAreOrdered' /\ Accounted'
        BY <2>1, <2>3, HistoryStays
      <3> QED
        BY <3>2, <3>3, <3>4 DEF MonitorInv
    <2> QED
      BY <1>2, <2>2, <2>3 DEF ReadRoce
  <1>3. CASE ReadParts
    <2>1. PICK stalled \in BOOLEAN,
               g \in {roceSwitch.generation, roceSwitch.generation + 1, Unread} :
            /\ reading' = [reading EXCEPT !.sample =
                 [revision |-> roceSwitch.revision, generation |-> g,
                  stalled |-> stalled /\ g # Unread, tx |-> roceSwitch.tx]]
            /\ roceSwitch' = [roceSwitch EXCEPT !.generation = IF g = Unread THEN @ ELSE g]
      BY <1>3 DEF ReadParts
    <2>2. /\ reading # Unread /\ UNCHANGED <<roceClock, monitor, stalls, readings>>
          /\ reading \in [revision : Nat, sample : Samples \cup {Unread}]
          /\ reading.revision <= roceSwitch.revision
      BY <1>3 DEF ReadParts, MonitorInv, MonitorTypes, ReadingIsOrdered
    <2> DEFINE shown == stalled /\ g # Unread
               taken == [revision |-> roceSwitch.revision, generation |-> g,
                         stalled |-> shown, tx |-> roceSwitch.tx]
    <2>3. shown \in BOOLEAN /\ (shown => g # Unread) /\ g \in Nat \cup {Unread}
      BY <1>0
    <2>4. /\ roceSwitch' \in [revision : Nat, pending : BOOLEAN, generation : Nat, tx : Nat]
          /\ roceSwitch'.revision = roceSwitch.revision
      BY <1>0, <2>1, <2>3
    <2>5. reading' = [reading EXCEPT !.sample = taken]
      BY <2>1
    <2> HIDE DEF shown
    <2>6. taken \in Samples /\ taken.revision = roceSwitch.revision
      BY <1>0, <2>3 DEF Samples
    <2>7. taken.stalled => taken.generation # Unread
      BY <2>3
    <2> HIDE DEF taken
    <2>8. /\ reading' \in [revision : Nat, sample : Samples \cup {Unread}]
          /\ reading'.sample = taken /\ reading'.revision = reading.revision
      BY <2>2, <2>5, <2>6
    <2>9. MonitorTypes'
      BY <2>2, <2>4, <2>8 DEF MonitorInv, MonitorTypes
    <2>10. ReadingIsOrdered'
      BY <1>0, <2>2, <2>4, <2>6, <2>7, <2>8 DEF ReadingIsOrdered
    <2>11. StallsAreOrdered' /\ Accounted'
      BY <1>0, <2>2, HistoryStays
    <2> QED
      BY <2>9, <2>10, <2>11 DEF MonitorInv
  <1>4. CASE Sampled
    BY <1>4, SampledHolds
  <1>5. CASE ReadingFails
    BY <1>0, <1>5, GapHolds DEF ReadingFails
  <1>6. CASE UNCHANGED monitorVars
    <2>1. UNCHANGED <<roceSwitch, roceClock, reading, monitor, stalls, readings>>
      BY <1>6 DEF monitorVars
    <2>2. StallsAreOrdered' /\ Accounted'
      BY <1>0, <2>1, HistoryStays
    <2>3. MonitorTypes' /\ ReadingIsOrdered'
      BY <2>1 DEF MonitorInv, MonitorTypes, ReadingIsOrdered
    <2> QED
      BY <2>2, <2>3 DEF MonitorInv
  <1> QED
    BY <1>1, <1>2, <1>3, <1>4, <1>5, <1>6 DEF MonitorNext

\* The alarm is the one the history earns.
LEMMA AccountedIsEarned == MonitorInv => AlarmIsEarned
  <1> SUFFICES ASSUME MonitorInv PROVE AlarmIsEarned
    OBVIOUS
  <1> USE MonitorAssumption
  <1>1. CASE stalls = <<>>
    BY <1>1 DEF MonitorInv, Accounted, AlarmIsEarned
  <1>2. CASE stalls # <<>>
    <2> DEFINE n == Len(stalls)
    <2>1. /\ n \in Nat /\ DOMAIN stalls = 1..n
          /\ \A j \in 1..n : stalls[j].at \in Nat
      <3>1. n \in Nat /\ DOMAIN stalls = 1..n /\ \A j \in 1..n : stalls[j] \in Stalls
        BY DEF MonitorInv, MonitorTypes
      <3> QED
        BY <3>1 DEF Stalls
    <2>2. PICK k \in 1..n : UnbrokenFrom(k) /\ monitor.prior.observed = stalls[n].at - stalls[k].at
      BY <1>2 DEF MonitorInv, Accounted
    <2>3. \A j \in 1..n : \A i \in 1..j : stalls[i].at <= stalls[j].at
      BY DEF MonitorInv, StallsAreOrdered
    <2>4. \A i \in 1..n : Unbroken(i) <=> k <= i
      BY <2>2 DEF UnbrokenFrom
    <2>5. monitor.prior.alarm <=> monitor.prior.observed >= StallSeconds
      BY <1>2 DEF MonitorInv, Accounted
    <2> HIDE DEF n
    <2>6. n \in 1..n
      BY <2>1, <2>2
    <2>7. ASSUME NEW i \in 1..n, Unbroken(i), stalls[n].at - stalls[i].at >= StallSeconds
          PROVE  monitor.prior.observed >= StallSeconds
      <3>1. k \in 1..i
        BY <2>1, <2>2, <2>4, <2>7
      <3>2. stalls[k].at <= stalls[i].at
        BY <2>3, <3>1
      <3>3. stalls[k].at \in Nat /\ stalls[i].at \in Nat /\ stalls[n].at \in Nat
        BY <2>1, <2>6
      <3> QED
        BY <2>2, <2>7, <3>2, <3>3
    <2>8. Unbroken(k)
      BY <2>1, <2>4
    <2> QED
      BY <2>1, <2>2, <2>5, <2>7, <2>8 DEF AlarmIsEarned, n
  <1> QED
    BY <1>1, <1>2

\* A port is suspected exactly while the last samples earn it (AlarmIsEarned).
THEOREM AlarmsAreEarned == MonitorSpec => []AlarmIsEarned
  BY AccountedIsEarned, MonitorInitHolds, MonitorStepHolds, PTL DEF MonitorSpec

(***************************************************************************)
(* The ETS shares.  A sum over classes, and how many members a set has.    *)
(***************************************************************************)
\* Terms of one kind for each member of a set add up to their number.
LEMMA CountsAddUp ==
  ASSUME NEW S \in SUBSET Tcs
  PROVE  /\ IsFiniteSet(S) /\ Cardinality(S) \in Nat
         /\ Over8([tc \in Tcs |-> IF tc \in S THEN 1 ELSE 0]) = Cardinality(S)
  <1> DEFINE Below(n) == {tc \in S : tc < n}
             one == [tc \in Tcs |-> IF tc \in S THEN 1 ELSE 0]
  <1>1. IsFiniteSet(S) /\ Cardinality(S) \in Nat
    <2>1. \A n \in Nat : IsFiniteSet(0..n)
      BY FS_Interval
    <2> QED
      BY <2>1, FS_Subset, FS_CardinalityType DEF Tcs
  <1>0. \A tc \in S : tc \in 0..7
    BY DEF Tcs
  <1>2. \A n \in 0..8 : IsFiniteSet(Below(n)) /\ Cardinality(Below(n)) \in Nat
    <2> SUFFICES ASSUME NEW n \in 0..8 PROVE IsFiniteSet(Below(n)) /\ Cardinality(Below(n)) \in Nat
      OBVIOUS
    <2>1. Below(n) \in SUBSET S
      OBVIOUS
    <2> QED
      BY <1>1, <2>1, FS_Subset, FS_CardinalityType
  <1>3. ASSUME NEW n \in 0..7
        PROVE  Cardinality(Below(n + 1)) = Cardinality(Below(n)) + one[n]
    <2>1. CASE n \in S
      <3>1. Below(n + 1) = Below(n) \cup {n} /\ n \notin Below(n)
        <4>1. \A tc \in S : tc < n + 1 <=> tc < n \/ tc = n
          BY <1>0
        <4>2. ~(n < n)
          OBVIOUS
        <4> QED
          BY <2>1, <4>1, <4>2
      <3>0. IsFiniteSet(Below(n))
        BY <1>2
      <3> HIDE DEF Below
      <3>2. Cardinality(Below(n) \cup {n}) = Cardinality(Below(n)) + 1
        BY <3>0, <3>1, FS_AddElement
      <3>3. one[n] = 1
        BY <2>1 DEF Tcs
      <3> QED
        BY <3>1, <3>2, <3>3
    <2>2. CASE n \notin S
      <3>1. Below(n + 1) = Below(n)
        BY <1>0, <2>2
      <3>2. one[n] = 0
        BY <2>2 DEF Tcs
      <3>3. Cardinality(Below(n)) \in Nat
        BY <1>2
      <3> HIDE DEF Below, one
      <3> QED
        BY <3>1, <3>2, <3>3
    <2> QED
      BY <2>1, <2>2
  <1>4. Cardinality(Below(0)) = 0 /\ Below(8) = S
    <2>1. Below(0) = {} /\ Below(8) = S
      BY <1>0
    <2> HIDE DEF Below
    <2> QED
      BY <2>1, FS_EmptySet
  <1>5. \A n \in 0..7 : one[n] \in Nat
    BY DEF Tcs
  <1> HIDE DEF Below, one
  <1>6. /\ Cardinality(Below(1)) = Cardinality(Below(0)) + one[0]
        /\ Cardinality(Below(2)) = Cardinality(Below(1)) + one[1]
        /\ Cardinality(Below(3)) = Cardinality(Below(2)) + one[2]
        /\ Cardinality(Below(4)) = Cardinality(Below(3)) + one[3]
        /\ Cardinality(Below(5)) = Cardinality(Below(4)) + one[4]
        /\ Cardinality(Below(6)) = Cardinality(Below(5)) + one[5]
        /\ Cardinality(Below(7)) = Cardinality(Below(6)) + one[6]
        /\ Cardinality(Below(8)) = Cardinality(Below(7)) + one[7]
    <2>1. ASSUME NEW n \in 0..7, NEW m, m = n + 1 PROVE Cardinality(Below(m)) = Cardinality(Below(n)) + one[n]
      BY <1>3, <2>1
    <2> QED
      BY <2>1
  <1>7. Over8(one) = Cardinality(Below(8))
    BY <1>4, <1>5, <1>6 DEF Over8
  <1> QED
    BY <1>1, <1>4, <1>7 DEF one

\* The first few classes, in the order of the remainders, are as many as they should be.
LEMMA FirstAreSoMany ==
  ASSUME NEW classes \in SUBSET Tcs, NEW fraction \in [Tcs -> Nat],
         NEW left \in 0..Cardinality(classes)
  PROVE  Cardinality({tc \in classes : Cardinality(Earlier(classes, fraction, tc)) < left}) = left
  <1> DEFINE Before(tc) == Earlier(classes, fraction, tc)
             k == Cardinality(classes)
             rank == [tc \in classes |-> Cardinality(Before(tc))]
             first == {tc \in classes : rank[tc] < left}
  <1>1. IsFiniteSet(classes) /\ k \in Nat
    BY CountsAddUp
  <1>2. \A tc \in classes : /\ IsFiniteSet(Before(tc)) /\ rank[tc] \in 0..(k - 1)
                            /\ rank[tc] = Cardinality(Before(tc))
    <2> SUFFICES ASSUME NEW tc \in classes
                 PROVE  IsFiniteSet(Before(tc)) /\ Cardinality(Before(tc)) \in 0..(k - 1)
      OBVIOUS
    <2>1. Before(tc) \in SUBSET (classes \ {tc})
      BY DEF Earlier, Tcs
    <2>2. IsFiniteSet(classes \ {tc}) /\ Cardinality(classes \ {tc}) = k - 1
      BY <1>1, FS_RemoveElement
    <2> HIDE DEF Before, k
    <2> QED
      BY <1>1, <2>1, <2>2, FS_Subset, FS_CardinalityType
  <1>3. ASSUME NEW a \in classes, NEW b \in classes, a \in Before(b) PROVE rank[a] < rank[b]
    <2>1. Before(a) \in SUBSET Before(b) /\ a \notin Before(a)
      <3>1. /\ \A o \in classes : o \in 0..7 /\ fraction[o] \in Nat
            /\ fraction[a] > fraction[b] \/ (fraction[a] = fraction[b] /\ a < b)
        BY <1>3 DEF Earlier, Tcs
      <3>2. \A o \in Before(a) : o \in classes /\ (fraction[o] > fraction[a] \/ (fraction[o] = fraction[a] /\ o < a))
        BY DEF Earlier
      <3>3. \A o \in Before(a) : o \in Before(b)
        BY <3>1, <3>2 DEF Earlier
      <3>4. a \notin Before(a)
        BY <3>1, <3>2
      <3> QED
        BY <3>3, <3>4
    <2>2. Before(a) # Before(b)
      BY <1>3, <2>1
    <2> HIDE DEF Before, k
    <2>3. Cardinality(Before(a)) <= Cardinality(Before(b)) /\ Cardinality(Before(a)) # Cardinality(Before(b))
      BY <1>2, <2>1, <2>2, FS_Subset
    <2>4. Cardinality(Before(a)) \in Nat /\ Cardinality(Before(b)) \in Nat
      BY <1>2, FS_CardinalityType
    <2> QED
      BY <2>3, <2>4
  <1>4. \A a, b \in classes : a # b => a \in Before(b) \/ b \in Before(a)
    BY DEF Earlier, Tcs
  <1>5. \A a, b \in classes : rank[a] = rank[b] => a = b
    BY <1>1, <1>2, <1>3, <1>4
  <1>6. \A i \in 0..(k - 1) : \E tc \in classes : rank[tc] = i
    <2>1. rank \in Injection(classes, 0..(k - 1))
      BY <1>2, <1>5 DEF Injection, IsInjective
    <2>2. IsFiniteSet(0..(k - 1)) /\ Cardinality(0..(k - 1)) = k
      <3> HIDE DEF k
      <3>1. k - 1 \in Int
        BY <1>1
      <3> QED
        BY <1>1, <3>1, FS_Interval
    <2> HIDE DEF rank, k
    <2>3. rank \in Surjection(classes, 0..(k - 1))
      BY <2>1, <2>2, FS_Injection DEF k
    <2> QED
      BY <2>3 DEF Surjection
  <1>7. ExistsBijection(first, 0..(left - 1))
    <2> DEFINE g == [tc \in first |-> rank[tc]]
    <2>1. g \in [first -> 0..(left - 1)]
      BY <1>1, <1>2
    <2>2. g \in Injection(first, 0..(left - 1))
      BY <1>5, <2>1 DEF Injection, IsInjective
    <2>3. g \in Surjection(first, 0..(left - 1))
      <3>1. ASSUME NEW i \in 0..(left - 1) PROVE \E tc \in first : g[tc] = i
        <4> HIDE DEF rank, k
        <4>1. PICK tc \in classes : rank[tc] = i
          BY <1>1, <1>6 DEF k
        <4> QED
          BY <4>1
      <3> QED
        BY <2>1, <3>1 DEF Surjection
    <2> QED
      BY <2>2, <2>3 DEF ExistsBijection, Bijection
  <1>8. IsFiniteSet(first)
    BY <1>1, FS_Subset
  <1>9. Cardinality(0..(left - 1)) = left
    BY <1>1, FS_Interval
  <1>10. first = {tc \in classes : Cardinality(Before(tc)) < left}
    OBVIOUS
  <1> HIDE DEF first
  <1>11. Cardinality(first) = left
    BY <1>7, <1>8, <1>9, FS_Bijection
  <1> QED
    BY <1>10, <1>11

\* A sum over classes is no less than any term.
LEMMA SumsOfNumbers ==
  ASSUME NEW classes \in SUBSET Tcs, NEW f \in [Tcs -> Nat]
  PROVE  /\ Among(classes, f) \in Nat
         /\ \A tc \in classes : f[tc] <= Among(classes, f)
  <1> DEFINE u == [tc \in Tcs |-> IF tc \in classes THEN f[tc] ELSE 0]
  <1>1. /\ u[0] \in Nat /\ u[1] \in Nat /\ u[2] \in Nat /\ u[3] \in Nat
        /\ u[4] \in Nat /\ u[5] \in Nat /\ u[6] \in Nat /\ u[7] \in Nat
        /\ \A tc \in classes : tc \in 0..7 /\ f[tc] = u[tc]
    BY DEF Tcs
  <1>2. Among(classes, f) = u[0] + u[1] + u[2] + u[3] + u[4] + u[5] + u[6] + u[7]
    BY DEF Among, Over8
  <1> HIDE DEF u
  <1>3. \A tc \in 0..7 : u[tc] <= Among(classes, f)
    BY <1>1, <1>2
  <1> QED
    BY <1>1, <1>2, <1>3

\* The sum of sums.
LEMMA SumsSplit ==
  ASSUME NEW classes \in SUBSET Tcs, NEW f \in [Tcs -> Nat], NEW g \in [Tcs -> Nat], NEW h \in [Tcs -> Nat],
         \A tc \in classes : h[tc] = f[tc] + g[tc]
  PROVE  Among(classes, h) = Among(classes, f) + Among(classes, g)
  <1> DEFINE u == [tc \in Tcs |-> IF tc \in classes THEN f[tc] ELSE 0]
             v == [tc \in Tcs |-> IF tc \in classes THEN g[tc] ELSE 0]
             w == [tc \in Tcs |-> IF tc \in classes THEN h[tc] ELSE 0]
  <1>1. \A tc \in 0..7 : u[tc] \in Nat /\ v[tc] \in Nat /\ w[tc] = u[tc] + v[tc]
    BY DEF Tcs
  <1> HIDE DEF u, v, w
  <1>2. Over8(w) = Over8(u) + Over8(v)
    BY <1>1 DEF Over8
  <1> QED
    BY <1>2 DEF Among, u, v, w

\* A factor common to every term.
LEMMA SumsScale ==
  ASSUME NEW classes \in SUBSET Tcs, NEW r \in Nat, NEW f \in [Tcs -> Nat], NEW h \in [Tcs -> Nat],
         \A tc \in classes : h[tc] = f[tc] * r
  PROVE  Among(classes, h) = Among(classes, f) * r
  <1> DEFINE u == [tc \in Tcs |-> IF tc \in classes THEN f[tc] ELSE 0]
             v == [tc \in Tcs |-> IF tc \in classes THEN h[tc] ELSE 0]
  <1>1. ASSUME NEW tc \in Tcs PROVE u[tc] \in Nat /\ v[tc] = u[tc] * r
    BY <1>1
  <1> HIDE DEF u, v
  <1>2. Over8(v) = Over8(u) * r
    <2>1. /\ v[0] = u[0] * r /\ v[1] = u[1] * r /\ v[2] = u[2] * r /\ v[3] = u[3] * r
          /\ v[4] = u[4] * r /\ v[5] = u[5] * r /\ v[6] = u[6] * r /\ v[7] = u[7] * r
          /\ u[0] \in Nat /\ u[1] \in Nat /\ u[2] \in Nat /\ u[3] \in Nat
          /\ u[4] \in Nat /\ u[5] \in Nat /\ u[6] \in Nat /\ u[7] \in Nat
      BY <1>1 DEF Tcs
    <2> QED
      BY <2>1 DEF Over8
  <1> QED
    BY <1>2 DEF Among, u, v

\* Terms that are no larger add up to no more.
LEMMA SumsOrder ==
  ASSUME NEW classes \in SUBSET Tcs, NEW f \in [Tcs -> Nat], NEW g \in [Tcs -> Nat],
         \A tc \in classes : f[tc] <= g[tc]
  PROVE  Among(classes, f) <= Among(classes, g)
  BY DEF Among, Over8, Tcs

\* Division with remainder.
LEMMA Division ==
  ASSUME NEW a \in Nat, NEW b \in Nat \ {0}
  PROVE  /\ a \div b \in Nat /\ a % b \in 0..(b - 1)
         /\ a = (a \div b) * b + (a % b)
  <1>1. a \div b \in Nat
    OBVIOUS
  <1>2. a % b \in 0..(b - 1)
    OBVIOUS
  <1>3. a = (a \div b) * b + (a % b)
    OBVIOUS
  <1> QED
    BY <1>1, <1>2, <1>3

\* What lies between 0 and k times a number is a multiple between 0 and k.
LEMMA Multiples ==
  ASSUME NEW a \in Int, NEW k \in Nat \ {0}, NEW t \in Nat \ {0}, a * t >= 0, a * t < k * t
  PROVE  a \in 0..(k - 1)
  <1>1. a >= 0
    OBVIOUS
  <1>2. (k - a) * t > 0
    OBVIOUS
  <1>3. k - a > 0
    BY <1>2
  <1> QED
    BY <1>1, <1>3

\* The shares are whole: what rounding leaves is what the fractions add up to,
\* which is less than one for each class.
LEMMA SharesAddUp ==
  ASSUME NEW classes \in SUBSET Tcs, classes # {}, NEW weights \in [Tcs -> Nat \ {0}]
  PROVE  /\ Over8(Shares(classes, weights)) = 100
         /\ \A tc \in Tcs : /\ Shares(classes, weights)[tc] \in Nat
                            /\ Shares(classes, weights)[tc] > 0 <=> tc \in classes
         /\ \A a, b \in classes :
              weights[a] > weights[b] => Shares(classes, weights)[a] >= Shares(classes, weights)[b]
  <1> DEFINE k == Cardinality(classes)
             r == 100 - k
             total == Among(classes, weights)
             scaled == [tc \in Tcs |-> r * weights[tc]]
             q == [tc \in Tcs |-> scaled[tc] \div total]
             whole == [tc \in Tcs |-> 1 + scaled[tc] \div total]
             fraction == [tc \in Tcs |-> scaled[tc] % total]
             left == 100 - Among(classes, whole)
             ones == [tc \in Tcs |-> 1]
             first == {tc \in classes : Cardinality(Earlier(classes, fraction, tc)) < left}
             extra == [tc \in Tcs |-> IF tc \in first THEN 1 ELSE 0]
             share == Shares(classes, weights)
  <1>1. k \in 1..8
    <2>1. IsFiniteSet(classes) /\ k \in Nat /\ k # 0
      BY CountsAddUp, FS_EmptySet
    <2> DEFINE one == [tc \in Tcs |-> IF tc \in classes THEN 1 ELSE 0]
    <2>2. Over8(one) = k
      BY CountsAddUp
    <2>3. \A tc \in 0..7 : one[tc] \in 0..1
      BY DEF Tcs
    <2> HIDE DEF one
    <2>4. Over8(one) <= 8
      BY <2>3 DEF Over8
    <2> QED
      BY <2>1, <2>2, <2>4
  <1>2. total \in Nat \ {0} /\ weights \in [Tcs -> Nat]
    <2>1. PICK tc \in classes : TRUE
      OBVIOUS
    <2>2. weights \in [Tcs -> Nat] /\ weights[tc] \in Nat \ {0}
      OBVIOUS
    <2>3. total \in Nat /\ weights[tc] <= total
      BY <2>2, SumsOfNumbers
    <2> QED
      BY <2>2, <2>3
  <1>3. scaled \in [Tcs -> Nat] /\ \A tc \in Tcs : scaled[tc] = weights[tc] * r
    <2> HIDE DEF k
    <2> QED
      BY <1>1
  <1>4. share = [tc \in Tcs |-> IF tc \in classes THEN whole[tc] + extra[tc] ELSE 0]
    BY DEF Shares
  <1>5. /\ q \in [Tcs -> Nat] /\ fraction \in [Tcs -> Nat] /\ whole \in [Tcs -> Nat]
        /\ \A tc \in Tcs : /\ whole[tc] = ones[tc] + q[tc] /\ fraction[tc] < total
                           /\ scaled[tc] = q[tc] * total + fraction[tc]
    <2> HIDE DEF scaled, total
    <2>1. ASSUME NEW tc \in Tcs
          PROVE  /\ scaled[tc] \div total \in Nat /\ scaled[tc] % total \in 0..(total - 1)
                 /\ scaled[tc] = (scaled[tc] \div total) * total + (scaled[tc] % total)
      BY <1>2, <1>3, Division
    <2> QED
      BY <1>2, <2>1
  <1>6. ones \in [Tcs -> Nat] /\ \A tc \in Tcs : ones[tc] = 1
    OBVIOUS
  <1>7. Among(classes, ones) = k
    <2>1. [tc \in Tcs |-> IF tc \in classes THEN ones[tc] ELSE 0] = [tc \in Tcs |-> IF tc \in classes THEN 1 ELSE 0]
      OBVIOUS
    <2> QED
      BY <2>1, CountsAddUp DEF Among
  <1>8. Among(classes, extra) = Cardinality(first)
    <2>1. [tc \in Tcs |-> IF tc \in classes THEN extra[tc] ELSE 0] = [tc \in Tcs |-> IF tc \in first THEN 1 ELSE 0]
      OBVIOUS
    <2>2. first \in SUBSET Tcs
      OBVIOUS
    <2> QED
      BY <2>1, <2>2, CountsAddUp DEF Among
  <1>9. Over8(share) = Among(classes, share)
    <2>1. [tc \in Tcs |-> IF tc \in classes THEN share[tc] ELSE 0] = share
      BY <1>4
    <2> QED
      BY <2>1 DEF Among
  <1>10. extra \in [Tcs -> Nat]
    OBVIOUS
  <1>11. share \in [Tcs -> Nat] /\ \A tc \in classes : share[tc] = whole[tc] + extra[tc]
    BY <1>4, <1>5, <1>10
  <1>12. first = {tc \in classes : Cardinality(Earlier(classes, fraction, tc)) < left}
    OBVIOUS
  <1>13. \A tc \in Tcs : extra[tc] = IF tc \in first THEN 1 ELSE 0
    OBVIOUS
  <1>14. left = 100 - Among(classes, whole)
    OBVIOUS
  <1>15. r = 100 - k
    OBVIOUS
  <1> HIDE DEF k, r, total, scaled, q, whole, fraction, left, ones, first, extra, share
  <1>16. left \in 0..(k - 1)
    <2> DEFINE qt == [tc \in Tcs |-> q[tc] * total]
               most == [tc \in Tcs |-> total - 1]
    <2>1. qt \in [Tcs -> Nat] /\ most \in [Tcs -> Nat] /\ \A tc \in Tcs : qt[tc] = q[tc] * total
            /\ scaled[tc] = qt[tc] + fraction[tc] /\ fraction[tc] <= most[tc] /\ most[tc] = ones[tc] * (total - 1)
      BY <1>2, <1>5, <1>6
    <2> HIDE DEF qt, most
    <2>2. Among(classes, scaled) = total * r /\ r \in Nat
      BY <1>1, <1>2, <1>3, <1>15, SumsScale DEF total
    <2>3. Among(classes, scaled) = Among(classes, qt) + Among(classes, fraction)
      BY <1>3, <1>5, <2>1, SumsSplit
    <2>4. Among(classes, qt) = Among(classes, q) * total
      BY <1>2, <1>5, <2>1, SumsScale
    <2>5. Among(classes, whole) = Among(classes, ones) + Among(classes, q)
      BY <1>5, <1>6, SumsSplit
    <2>6. Among(classes, q) \in Nat /\ Among(classes, fraction) \in Nat
      BY <1>5, SumsOfNumbers
    <2>7. left = r - Among(classes, q)
      BY <1>1, <1>7, <1>14, <1>15, <2>5, <2>6
    <2>8. left * total = Among(classes, fraction)
      BY <1>2, <2>2, <2>3, <2>4, <2>6, <2>7
    <2>9. Among(classes, fraction) <= k * (total - 1)
      <3>1. Among(classes, fraction) <= Among(classes, most)
        BY <1>5, <2>1, SumsOrder
      <3>2. Among(classes, most) = k * (total - 1)
        <4>1. total - 1 \in Nat
          BY <1>2
        <4> QED
          BY <1>6, <1>7, <2>1, <4>1, SumsScale
      <3> QED
        BY <3>1, <3>2
    <2>10. left * total >= 0 /\ left * total < k * total /\ left \in Int
      BY <1>1, <1>2, <2>2, <2>6, <2>7, <2>8, <2>9
    <2>11. k \in Nat \ {0}
      BY <1>1
    <2> QED
      BY <1>2, <2>10, <2>11, Multiples
  <1>17. Cardinality(first) = left
    <2>1. left \in 0..Cardinality(classes)
      BY <1>1, <1>16 DEF k
    <2> QED
      BY <1>5, <1>12, <2>1, FirstAreSoMany
  <1>18. Among(classes, share) = Among(classes, whole) + Among(classes, extra)
    BY <1>5, <1>10, <1>11, SumsSplit
  <1>19. Over8(share) = 100
    <2>1. Among(classes, whole) \in Nat
      BY <1>5, SumsOfNumbers
    <2> QED
      BY <1>8, <1>9, <1>14, <1>17, <1>18, <2>1
  <1>20. \A tc \in Tcs : share[tc] \in Nat /\ (share[tc] > 0 <=> tc \in classes)
    <2>1. \A tc \in Tcs : tc \notin classes => share[tc] = 0
      BY <1>4
    <2>2. \A tc \in classes : share[tc] = 1 + q[tc] + extra[tc] /\ q[tc] \in Nat /\ extra[tc] \in Nat
      BY <1>5, <1>6, <1>10, <1>11
    <2> QED
      BY <1>11, <2>1, <2>2
  <1>21. ASSUME NEW a \in classes, NEW b \in classes, weights[a] > weights[b]
         PROVE  share[a] >= share[b]
    <2>1. /\ a \in Tcs /\ b \in Tcs /\ r \in Nat \ {0} /\ weights[a] \in Nat /\ weights[b] \in Nat
          /\ scaled[a] \in Nat /\ scaled[b] \in Nat /\ q[a] \in Nat /\ q[b] \in Nat
          /\ fraction[a] \in Nat /\ fraction[b] \in Nat
      BY <1>1, <1>2, <1>3, <1>5, <1>15
    <2>2. scaled[a] > scaled[b]
      BY <1>3, <1>21, <2>1
    <2>3. /\ scaled[a] = q[a] * total + fraction[a] /\ fraction[a] < total
          /\ scaled[b] = q[b] * total + fraction[b] /\ fraction[b] < total
      BY <1>5, <2>1
    <2>4. q[a] >= q[b]
      <3> SUFFICES ASSUME q[a] < q[b] PROVE FALSE
        BY <2>1
      <3>1. (q[b] - q[a]) * total >= total
        BY <1>2, <2>1
      <3> QED
        BY <1>2, <2>1, <2>2, <2>3, <3>1
    <2>5. q[a] = q[b] => (b \in first => a \in first)
      <3> SUFFICES ASSUME q[a] = q[b], b \in first PROVE a \in first
        OBVIOUS
      <3>1. fraction[a] > fraction[b]
        BY <1>2, <2>1, <2>2, <2>3
      <3>2. \A o \in classes : fraction[o] \in Nat /\ o \in 0..7
        BY <1>5 DEF Tcs
      <3>3. Earlier(classes, fraction, a) \in SUBSET Earlier(classes, fraction, b)
        BY <3>1, <3>2 DEF Earlier
      <3>4. Earlier(classes, fraction, b) \in SUBSET Tcs /\ Earlier(classes, fraction, a) \in SUBSET Tcs
        BY DEF Earlier
      <3>5. Cardinality(Earlier(classes, fraction, a)) <= Cardinality(Earlier(classes, fraction, b))
        BY <3>3, <3>4, CountsAddUp, FS_Subset
      <3>6. /\ Cardinality(Earlier(classes, fraction, a)) \in Nat
            /\ Cardinality(Earlier(classes, fraction, b)) \in Nat
        BY <3>4, CountsAddUp
      <3> QED
        BY <1>12, <1>16, <1>1, <3>5, <3>6
    <2>6. share[a] = 1 + q[a] + extra[a] /\ share[b] = 1 + q[b] + extra[b]
      BY <1>5, <1>6, <1>11, <2>1
    <2> QED
      BY <1>13, <2>1, <2>4, <2>5, <2>6
  <1> QED
    BY <1>19, <1>20, <1>21 DEF share

(***************************************************************************)
(* The switch.  Only a group that pauses is ever released, by a watchdog   *)
(* that is on; what the switch is to run has passed the checks, and draft  *)
(* and configuration have their types.                                     *)
(***************************************************************************)
LeasesHold ==
  \A n \in leased : device[<<"pfc", n>>].rx # {} /\ device[<<"pfc", n>>].watchdog[1] > 0

RoceInv ==
  /\ IsDraft(draft) /\ IsDraft(config) /\ ValidConfig(config)
  /\ DOMAIN device = RegisterGroups /\ leased \subseteq Ports /\ LeasesHold

\* The suggestions change values, not types.
LEMMA SuggestedIsDraft == ASSUME NEW c, IsDraft(c) PROVE IsDraft(Suggested(c))
  <1>1. CASE ~c.enabled \/ ~BaseValid(c)
    BY <1>1 DEF Suggested
  <1>2. CASE c.enabled /\ BaseValid(c)
    <2> DEFINE d == Suggested(c)
    <2>1. /\ DOMAIN d = DOMAIN c
          /\ \A f \in DOMAIN c : f \notin {"port", "map", "default", "lldp", "trust"} => d[f] = c[f]
          /\ d.port = [n \in Ports |-> SuggestedPort(c, n)] /\ d.map = SuggestedMap(c)
          /\ d.default \in {0, c.default} /\ d.lldp \in {c.lldp \/ c.dcbx = "ieee"} /\ d.trust \in {"none", c.trust}
      BY <1>2 DEF Suggested, IsDraft, Holds, Field
    <2>2. SuggestedMap(c) \in [0..7 -> 0..7]
      BY DEF SuggestedMap, IsDraft, Holds, Field, CnpPriority, CnpTc
    <2>3. \A n \in Ports : Holds(SuggestedPort(c, n), PortField) /\ DOMAIN SuggestedPort(c, n) = DOMAIN PortField
      <3> SUFFICES ASSUME NEW n \in Ports
                   PROVE  Holds(SuggestedPort(c, n), PortField) /\ DOMAIN SuggestedPort(c, n) = DOMAIN PortField
        OBVIOUS
      <3>1. Holds(c.port[n], PortField) /\ DOMAIN c.port[n] = DOMAIN PortField
        BY DEF IsDraft
      <3>2. CASE ~(n \in c.ports /\ Eligible(c, n))
        BY <3>1, <3>2 DEF SuggestedPort
      <3>3. CASE n \in c.ports /\ Eligible(c, n)
        <4> DEFINE p == c.port[n]
                   o == SuggestedPort(c, n)
        <4>1. /\ DOMAIN o = DOMAIN p /\ o.enabled = TRUE /\ o.ingress = 0 /\ o.egress \in {0, p.egress}
              /\ o.lldp = (p.lldp \/ c.dcbx = "ieee") /\ o.mode = p.mode /\ o.pvid = p.pvid
              /\ o.tagged = p.tagged /\ o.mtu = p.mtu
          BY <3>1, <3>3 DEF SuggestedPort, PortField
        <4>2. p.egress \in Nat /\ \A f \in {"mode", "pvid", "tagged", "mtu"} : p[f] \in PortField[f]
          BY <3>1 DEF Holds, PortField
        <4> HIDE DEF o, p
        <4>3. o.ingress \in Nat /\ o.egress \in Nat
          BY <4>1, <4>2
        <4>4. o.lldp \in BOOLEAN /\ o.enabled \in BOOLEAN
          BY <4>1, Zenon
        <4> QED
          BY <3>1, <4>1, <4>2, <4>3, <4>4 DEF Holds, PortField, o, p
      <3> QED
        BY <3>2, <3>3
    <2> HIDE DEF d
    <2>4. Holds(d, Field)
      <3>1. \A f \in DOMAIN Field : f \in DOMAIN c /\ c[f] \in Field[f]
        BY DEF IsDraft, Holds
      <3>2. \A f \in DOMAIN Field : f \notin {"map", "default", "lldp", "trust"} => d[f] \in Field[f]
        <4>1. "port" \notin DOMAIN Field
          BY DEF Field
        <4> QED
          BY <2>1, <3>1, <4>1
      <3>3. d.map \in Field.map
        BY <2>1, <2>2 DEF Field
      <3>4. d.default \in Field.default
        BY <2>1, <3>1 DEF Field
      <3>5. d.lldp \in Field.lldp
        BY <2>1 DEF Field
      <3>6. d.trust \in Field.trust
        BY <2>1, <3>1 DEF Field
      <3> QED
        BY <2>1, <3>1, <3>2, <3>3, <3>4, <3>5, <3>6 DEF Holds
    <2> QED
      BY <2>1, <2>3, <2>4 DEF IsDraft, d
  <1> QED
    BY <1>1, <1>2

\* The switch begins with a configuration it may run.
LEMMA RoceInitHolds == RoceInit => RoceInv
  BY RoceAssumption DEF RoceInit, RoceInv, LeasesHold, Compiled

\* A step keeps it.
LEMMA RoceStepHolds == RoceInv /\ [RoceNext]_roceVars => RoceInv'
  <1> SUFFICES ASSUME RoceInv, [RoceNext]_roceVars PROVE RoceInv'
    OBVIOUS
  <1> USE DEF RoceInv
  <1>1. CASE Edit
    <2>1. ASSUME NEW f \in DOMAIN Offers, NEW v \in Offers[f], draft' = [draft EXCEPT ![f] = v]
          PROVE  IsDraft(draft')
      <3>1. f \in DOMAIN Field /\ v \in Field[f] /\ "port" \notin DOMAIN Field
        BY RoceAssumption DEF Field
      <3>2. DOMAIN draft' = DOMAIN draft /\ \A g \in DOMAIN draft : draft'[g] = IF g = f THEN v ELSE draft[g]
        BY <2>1
      <3>3. f # "port" /\ "port" \in DOMAIN draft /\ DOMAIN Field \subseteq DOMAIN draft
        BY <3>1 DEF IsDraft
      <3>4. draft'.port = draft.port
        BY <3>2, <3>3
      <3> QED
        BY <3>1, <3>2, <3>3, <3>4 DEF IsDraft, Holds
    <2>2. ASSUME NEW n \in Ports, NEW f \in DOMAIN PortOffers, NEW v \in PortOffers[f],
                 draft' = [draft EXCEPT !.port[n][f] = v]
          PROVE  IsDraft(draft')
      <3>1. f \in DOMAIN PortField /\ v \in PortField[f] /\ "port" \notin DOMAIN Field
        BY RoceAssumption DEF Field
      <3>2. DOMAIN draft' = DOMAIN draft /\ \A g \in DOMAIN draft : g # "port" => draft'[g] = draft[g]
        BY <2>2
      <3>3. draft'.port = [draft.port EXCEPT ![n] = [draft.port[n] EXCEPT ![f] = v]]
        BY <2>2 DEF IsDraft
      <3>4. DOMAIN draft'.port = Ports
        BY <3>3 DEF IsDraft
      <3>5. \A m \in Ports : Holds(draft'.port[m], PortField) /\ DOMAIN draft'.port[m] = DOMAIN PortField
        BY <3>1, <3>3 DEF IsDraft, Holds
      <3> QED
        BY <3>1, <3>2, <3>4, <3>5 DEF IsDraft, Holds
    <2> QED
      BY <1>1, <2>1, <2>2 DEF Edit, LeasesHold
  <1>2. CASE ApplySuggestions
    BY <1>2, SuggestedIsDraft DEF ApplySuggestions, LeasesHold
  <1>3. CASE Commit
    BY <1>3 DEF Commit, LeasesHold
  <1>4. CASE Program
    <2>1. PICK g \in RegisterGroups :
            /\ device' = [device EXCEPT ![g] = Compiled(config)[g]]
            /\ leased' = IF g[1] = "pfc" THEN leased \ {g[2]} ELSE leased
      BY <1>4 DEF Program
    <2>2. ASSUME NEW n \in leased' PROVE n \in leased /\ g # <<"pfc", n>>
      BY <2>1
    <2>3. \A n \in leased' : device'[<<"pfc", n>>] = device[<<"pfc", n>>]
      BY <2>1, <2>2 DEF RegisterGroups
    <2> QED
      BY <1>4, <2>1, <2>2, <2>3 DEF Program, LeasesHold
  <1>5. CASE Release
    BY <1>5 DEF Release, LeasesHold
  <1>6. CASE Resume
    BY <1>6 DEF Resume, LeasesHold
  <1>7. CASE UNCHANGED roceVars
    BY <1>7 DEF roceVars, LeasesHold
  <1> QED
    BY <1>1, <1>2, <1>3, <1>4, <1>5, <1>6, <1>7 DEF RoceNext

\* The invariant holds in every state.
LEMMA RoceInvariant == RoceSpec => []RoceInv
  BY RoceInitHolds, RoceStepHolds, PTL DEF RoceSpec

\* SharesAreWhole of the specification: the advertised shares are percentages.
THEOREM SharesAreCorrect == RoceSpec => []SharesAreWhole
  <1>1. ASSUME RoceInv PROVE SharesAreWhole
    <2>1. EtsClasses(draft) \in SUBSET Tcs /\ EtsClasses(draft) # {}
      BY DEF EtsClasses, Tcs, CnpTc
    <2>2. draft.weights \in [Tcs -> Nat \ {0}]
      BY <1>1 DEF RoceInv, IsDraft, Holds, Field
    <2>3. PICK classes, weights : classes = EtsClasses(draft) /\ weights = draft.weights
      OBVIOUS
    <2>4. classes \in SUBSET Tcs /\ classes # {} /\ weights \in [Tcs -> Nat \ {0}]
      BY <2>1, <2>2, <2>3
    <2>5. Over8(Shares(classes, weights)) = 100
      BY <2>4, SharesAddUp
    <2>6. ASSUME NEW tc \in Tcs PROVE Shares(classes, weights)[tc] > 0 <=> tc \in classes
      BY <2>4, SharesAddUp
    <2>7. ASSUME NEW a \in classes, NEW b \in classes, weights[a] > weights[b]
          PROVE  Shares(classes, weights)[a] >= Shares(classes, weights)[b]
      BY <2>4, <2>7, SharesAddUp
    <2> QED
      BY <2>3, <2>5, <2>6, <2>7 DEF SharesAreWhole
  <1> QED
    BY <1>1, RoceInvariant, PTL

(***************************************************************************)
(* The read-back.                                                          *)
(***************************************************************************)
\* What the checks of an enabled profile leave true.
LEMMA ChecksHold ==
  ASSUME NEW c, IsDraft(c), ValidConfig(c), c.enabled
  PROVE  /\ c.ports # {} /\ c.ports \subseteq Active(c) /\ Selected(c) = c.ports
         /\ KeepsTo(c.map, 3, 3)
         /\ c.classification = "dscp" => KeepsTo(c.map, CnpPriority, CnpTc) /\ c.dscp # c.cnp
         /\ c.dcbx = "ieee" => c.lldp /\ \A n \in c.ports : c.port[n].lldp
  <1>0. Issues(c) = {}
    BY DEF ValidConfig
  <1>1. /\ When(Cardinality(c.ports) < 2, 0, "ports") = {}
        /\ When(~KeepsTo(c.map, 3, 3), 0, "map") = {}
        /\ When(c.classification = "dscp" /\ ~KeepsTo(c.map, CnpPriority, CnpTc), 0, "map") = {}
        /\ When(c.dcbx = "ieee" /\ ~c.lldp, 0, "lldp") = {}
        /\ UNION {PortIssues(c, n) : n \in c.ports} = {}
    <2>1. ASSUME NEW q PROVE q \notin When(Cardinality(c.ports) < 2, 0, "ports")
      BY <1>0 DEF Issues
    <2>2. ASSUME NEW q PROVE q \notin When(~KeepsTo(c.map, 3, 3), 0, "map")
      BY <1>0 DEF Issues
    <2>3. ASSUME NEW q
          PROVE  q \notin When(c.classification = "dscp" /\ ~KeepsTo(c.map, CnpPriority, CnpTc), 0, "map")
      BY <1>0 DEF Issues
    <2>4. ASSUME NEW q PROVE q \notin When(c.dcbx = "ieee" /\ ~c.lldp, 0, "lldp")
      BY <1>0 DEF Issues
    <2>5. ASSUME NEW q PROVE q \notin UNION {PortIssues(c, n) : n \in c.ports}
      BY <1>0 DEF Issues
    <2> QED
      BY <2>1, <2>2, <2>3, <2>4, <2>5
  <1>2. \A n \in c.ports : PortIssues(c, n) = {}
    BY <1>1
  <1>3. ASSUME NEW n \in c.ports PROVE When(c.dcbx = "ieee" /\ ~c.port[n].lldp, n, "lldp") = {}
    BY <1>2, Zenon DEF PortIssues
  <1>4. c.ports # {}
    <2>1. ~(Cardinality(c.ports) < 2)
      BY <1>1 DEF When
    <2> QED
      BY <2>1, FS_EmptySet
  <1>5. c.ports \subseteq Active(c) /\ Selected(c) = c.ports
    BY DEF ValidConfig, Selected
  <1>6. KeepsTo(c.map, 3, 3)
    BY <1>1, Zenon DEF When
  <1>7. c.classification = "dscp" => KeepsTo(c.map, CnpPriority, CnpTc) /\ c.dscp # c.cnp
    BY <1>1, Zenon DEF When, ValidConfig, BaseValid
  <1>8. c.dcbx = "ieee" => c.lldp /\ \A n \in c.ports : c.port[n].lldp
    BY <1>1, <1>3, Zenon DEF When
  <1> QED
    BY <1>4, <1>5, <1>6, <1>7, <1>8

\* What the codec sends, group by group.
LEMMA GroupsCompiled ==
  ASSUME NEW c
  PROVE  /\ Compiled(c)[<<"dscp", 0>>] = DscpMap(c)
         /\ Compiled(c)[<<"partition", 0>>] = [tc \in Tcs |-> IF Selected(c) # {} /\ tc = 3 THEN 1 ELSE 0]
         /\ Compiled(c)[<<"forwarding", 0>>] = Forwarding(c)
         /\ Compiled(c)[<<"buffers", 0>>] = [ready |-> Selected(c) # {}, mac |-> Selected(c) # {}]
         /\ \A n \in Ports : /\ Compiled(c)[<<"pfc", n>>] = Pfc(c, n)
                             /\ Compiled(c)[<<"scheduler", n>>] = Scheduler(c, n)
                             /\ Compiled(c)[<<"dcbx", n>>] = Dcbx(c, n)
  <1>1. /\ \A k \in Whole : <<k, 0>> \in RegisterGroups
        /\ \A n \in Ports : /\ <<"pfc", n>> \in RegisterGroups /\ <<"scheduler", n>> \in RegisterGroups
                            /\ <<"dcbx", n>> \in RegisterGroups
    BY DEF RegisterGroups
  <1>2. Compiled(c)[<<"dscp", 0>>] = DscpMap(c)
    BY <1>1 DEF Compiled, Whole
  <1>3. Compiled(c)[<<"partition", 0>>] = [tc \in Tcs |-> IF Selected(c) # {} /\ tc = 3 THEN 1 ELSE 0]
    BY <1>1 DEF Compiled, Whole
  <1>4. Compiled(c)[<<"forwarding", 0>>] = Forwarding(c)
    BY <1>1 DEF Compiled, Whole
  <1>5. Compiled(c)[<<"buffers", 0>>] = [ready |-> Selected(c) # {}, mac |-> Selected(c) # {}]
    BY <1>1 DEF Compiled, Whole
  <1>6. ASSUME NEW n \in Ports PROVE Compiled(c)[<<"pfc", n>>] = Pfc(c, n)
    BY <1>1 DEF Compiled
  <1>7. ASSUME NEW n \in Ports PROVE Compiled(c)[<<"scheduler", n>>] = Scheduler(c, n)
    BY <1>1 DEF Compiled
  <1>8. ASSUME NEW n \in Ports PROVE Compiled(c)[<<"dcbx", n>>] = Dcbx(c, n)
    BY <1>1 DEF Compiled
  <1> QED
    BY <1>2, <1>3, <1>4, <1>5, <1>6, <1>7, <1>8

\* FaithfulIsApplied of the specification: what the codec sent, the read-back
\* recognises, a port its watchdog has released included.
THEOREM FaithfulIsRecognised == RoceSpec => []FaithfulIsApplied
  <1>1. ASSUME RoceInv, device = Compiled(config) PROVE Applied(config)
    <2>0. PICK c : c = config
      OBVIOUS
    <2>1. /\ IsDraft(c) /\ ValidConfig(c) /\ leased \subseteq Ports
          /\ \A n \in leased : device[<<"pfc", n>>].rx # {} /\ device[<<"pfc", n>>].watchdog[1] > 0
      BY <1>1, <2>0 DEF RoceInv, LeasesHold
    <2>2. /\ device[<<"dscp", 0>>] = DscpMap(c)
          /\ device[<<"partition", 0>>] = [tc \in Tcs |-> IF Selected(c) # {} /\ tc = 3 THEN 1 ELSE 0]
          /\ device[<<"forwarding", 0>>] = Forwarding(c)
          /\ device[<<"buffers", 0>>] = [ready |-> Selected(c) # {}, mac |-> Selected(c) # {}]
      BY <1>1, <2>0, GroupsCompiled
    <2>3. \A n \in Ports : /\ device[<<"pfc", n>>] = Pfc(c, n)
                           /\ device[<<"scheduler", n>>] = Scheduler(c, n)
                           /\ device[<<"dcbx", n>>] = Dcbx(c, n)
      BY <1>1, <2>0, GroupsCompiled
    <2>4. c.ports \subseteq Ports /\ Active(c) \subseteq Ports
      BY <2>1 DEF IsDraft, Holds, Field, Active
    <2>5. \A tc \in Tcs : device[<<"partition", 0>>][tc] = IF Selected(c) # {} /\ tc = 3 THEN 1 ELSE 0
      BY <2>2
    <2>6. \A p \in 0..7 : device[<<"forwarding", 0>>][p] = c.map[p]
      BY <2>2 DEF Forwarding, Priorities
    <2>7. Selected(c) # {} =>
            \A p \in 8..15 :
              device[<<"forwarding", 0>>][p] = IF p = 11 \/ (DscpMode(c) /\ p = 15) THEN 0 ELSE p % 8
      BY <2>2 DEF Forwarding, Priorities
    <2>8. Selected(c) # {} => device[<<"buffers", 0>>].mac /\ device[<<"buffers", 0>>].ready
      <3>1. Selected(c) # {} => device[<<"buffers", 0>>] = [ready |-> TRUE, mac |-> TRUE]
        BY <2>2
      <3> QED
        BY <3>1
    <2>9. ASSUME NEW n \in Active(c) PROVE PfcMatches(c, n)
      <3>1. n \in Ports /\ device[<<"pfc", n>>] = Pfc(c, n)
        BY <2>3, <2>4
      <3>2. n \in leased => Lease(c, n)
        <4>1. n \in leased => Pfc(c, n).rx # {} /\ Pfc(c, n).watchdog[1] > 0
          BY <2>1, <3>1
        <4>2. n \in leased => n \in Selected(c)
          BY <4>1 DEF Pfc
        <4>3. n \in Selected(c) => Pfc(c, n).rx = {3} /\ Pfc(c, n).watchdog = <<c.detect, c.recovery, c.cooldown>>
          BY DEF Pfc
        <4>4. n \in leased => c.detect > 0
          BY <4>1, <4>2, <4>3
        <4> QED
          BY <3>1, <4>2, <4>3, <4>4 DEF Lease, WatchdogOn
      <3> QED
        BY <3>1, <3>2 DEF PfcMatches
    <2>10. ASSUME NEW n \in Active(c) PROVE SchedulerMatches(c, n)
      <3>1. device[<<"scheduler", n>>] = Scheduler(c, n)
        BY <2>3, <2>4
      <3> SUFFICES ASSUME n \in Selected(c), NEW tc \in Tcs
                   PROVE  LET group == Scheduler(c, n)[tc]
                          IN /\ group.strict = (DscpMode(c) /\ tc = CnpTc)
                             /\ group.quantum = 2 * Frame(c.port[n].mtu) *
                                  (IF Ieee(c) THEN Max({1, DcbxPolicy(c).bandwidth[tc]}) ELSE c.weights[tc])
                             /\ c.port[n].egress = 0 => group.shaping = "class"
        BY <3>1 DEF SchedulerMatches
      <3>2. Scheduler(c, n)[tc] = [ strict |-> tc = CnpTc /\ DscpMode(c), quantum |-> Quantum(c, n, tc),
                                    shaping |-> IF c.port[n].egress > 0 THEN "port" ELSE "class" ]
        BY DEF Scheduler
      <3>3. Quantum(c, n, tc) = 2 * Frame(c.port[n].mtu) *
              (IF Ieee(c) THEN Max({1, DcbxPolicy(c).bandwidth[tc]}) ELSE c.weights[tc])
        BY DEF Quantum
      <3>4. Scheduler(c, n)[tc].strict = (DscpMode(c) /\ tc = CnpTc)
        BY <3>2
      <3> QED
        BY <3>2, <3>3, <3>4
    <2>11. DcbxMatches(c)
      <3>1. \A n \in Ports : /\ device[<<"dcbx", n>>].seen <=> Ieee(c) /\ n \in Selected(c)
                             /\ device[<<"dcbx", n>>].lldp = (c.lldp /\ c.port[n].lldp)
                             /\ Ieee(c) /\ n \in Selected(c) => device[<<"dcbx", n>>].policy = DcbxPolicy(c)
        <4> SUFFICES ASSUME NEW n \in Ports
                     PROVE  LET d == Dcbx(c, n)
                            IN /\ d.seen <=> Ieee(c) /\ n \in Selected(c)
                               /\ d.lldp = (c.lldp /\ c.port[n].lldp)
                               /\ Ieee(c) /\ n \in Selected(c) => d.policy = DcbxPolicy(c)
          BY <2>3
        <4>1. CASE Ieee(c) /\ n \in Selected(c)
          <5>1. Dcbx(c, n) = [seen |-> TRUE, lldp |-> c.lldp /\ c.port[n].lldp, policy |-> DcbxPolicy(c)]
            BY <4>1, Zenon DEF Dcbx
          <5> QED
            BY <4>1, <5>1
        <4>2. CASE ~(Ieee(c) /\ n \in Selected(c))
          <5>1. Dcbx(c, n) = [seen |-> FALSE, lldp |-> c.lldp /\ c.port[n].lldp, policy |-> NoPolicy]
            BY <4>2, Zenon DEF Dcbx
          <5> QED
            BY <4>2, <5>1
        <4> QED
          BY <4>1, <4>2
      <3>2. CASE Ieee(c)
        <4>1. c.enabled /\ c.dcbx = "ieee" /\ Selected(c) = c.ports
          BY <3>2 DEF Ieee, Selected
        <4>2. c.lldp /\ \A n \in c.ports : c.port[n].lldp
          BY <2>1, <4>1, ChecksHold
        <4> QED
          BY <2>4, <3>1, <3>2, <4>1, <4>2 DEF DcbxMatches
      <3>3. CASE ~Ieee(c)
        BY <3>1, <3>3 DEF DcbxMatches
      <3> QED
        BY <3>2, <3>3
    <2>12. Applied(c)
      BY <2>2, <2>5, <2>6, <2>7, <2>8, <2>9, <2>10, <2>11 DEF Applied
    <2> QED
      BY <2>0, <2>12
  <1> QED
    BY <1>1, RoceInvariant, PTL DEF FaithfulIsApplied

\* The larger of 1 and a number that is not less.
LEMMA AtLeastOne == ASSUME NEW b \in Nat, b > 0 PROVE Max({1, b}) = b
  <1>1. \E x \in {1, b} : \A y \in {1, b} : x >= y
    OBVIOUS
  <1>2. Max({1, b}) \in {1, b} /\ \A y \in {1, b} : Max({1, b}) >= y
    BY <1>1 DEF Max
  <1> QED
    BY <1>2

\* AppliedIsLossless of the specification: what the read-back calls applied is
\* lossless for the data class alone.
THEOREM AppliedIsCorrect == RoceSpec => []AppliedIsLossless
  <1>1. ASSUME RoceInv, Applied(config), config.enabled PROVE AppliedIsLossless
    <2>0. PICK c : c = config
      OBVIOUS
    <2> DEFINE forwarding == device[<<"forwarding", 0>>]
               code == device[<<"dscp", 0>>]
               dscp == c.classification = "dscp"
    <2>1. IsDraft(c) /\ ValidConfig(c) /\ c.enabled /\ Applied(c)
      BY <1>1, <2>0 DEF RoceInv
    <2>2. /\ c.ports # {} /\ c.ports \subseteq Active(c) /\ Selected(c) = c.ports
          /\ KeepsTo(c.map, 3, 3)
          /\ dscp => KeepsTo(c.map, CnpPriority, CnpTc) /\ c.dscp # c.cnp
      BY <2>1, ChecksHold
    <2>3. c.dscp \in Dscps /\ c.cnp \in Dscps /\ c.weights \in [Tcs -> Nat \ {0}]
      BY <2>1 DEF IsDraft, Holds, Field
    <2>4. DscpMode(c) <=> dscp
      BY <2>2 DEF DscpMode
    <2>5. \A p \in Priorities : forwarding[p] =
            IF p < 8 THEN c.map[p] ELSE IF p = 11 \/ (dscp /\ p = 15) THEN 0 ELSE p % 8
      <3>1. \A p \in 0..7 : forwarding[p] = c.map[p]
        BY <2>1 DEF Applied
      <3>2. \A p \in 8..15 : forwarding[p] = IF p = 11 \/ (dscp /\ p = 15) THEN 0 ELSE p % 8
        BY <2>1, <2>2, <2>4 DEF Applied
      <3> HIDE DEF forwarding, dscp
      <3> QED
        BY <3>1, <3>2 DEF Priorities
    <2>6. {p \in Priorities : forwarding[p] = 3} = {3}
      <3> HIDE DEF forwarding, dscp
      <3>1. c.map[3] = 3 /\ \A p \in 0..7 : p # 3 => c.map[p] # 3
        BY <2>2 DEF KeepsTo
      <3>2. \A p \in 8..15 : p # 11 => p % 8 # 3
        OBVIOUS
      <3> QED
        BY <2>5, <3>1, <3>2 DEF Priorities
    <2>7. {tc \in Tcs : device[<<"partition", 0>>][tc] = 1} = {3}
      <3>1. \A tc \in Tcs : device[<<"partition", 0>>][tc] = IF Selected(c) # {} /\ tc = 3 THEN 1 ELSE 0
        BY <2>1 DEF Applied
      <3> QED
        BY <2>2, <3>1 DEF Tcs
    <2>8. code = DscpMap(c)
      BY <2>1 DEF Applied
    <2>9. {d \in Dscps : code[d] = 3} = IF dscp THEN {c.dscp} ELSE {}
      BY <2>3, <2>4, <2>8 DEF DscpMap, CnpPriority
    <2>10. ASSUME dscp
           PROVE  /\ {d \in Dscps : code[d] = 6} = {c.cnp}
                  /\ {p \in Priorities : forwarding[p] = CnpTc} = {CnpPriority}
      <3>1. {d \in Dscps : code[d] = 6} = {c.cnp}
        BY <2>2, <2>3, <2>4, <2>8, <2>10 DEF DscpMap, CnpPriority
      <3>2. {p \in Priorities : forwarding[p] = CnpTc} = {CnpPriority}
        <4>1. c.map[6] = 7 /\ \A p \in 0..7 : p # 6 => c.map[p] # 7
          BY <2>2, <2>10 DEF KeepsTo, CnpPriority, CnpTc
        <4>2. \A p \in 8..15 : p # 15 => p % 8 # 7
          OBVIOUS
        <4>3. dscp
          BY <2>10
        <4> HIDE DEF forwarding, dscp
        <4> QED
          BY <2>5, <4>1, <4>2, <4>3 DEF Priorities, CnpPriority, CnpTc
      <3> QED
        BY <3>1, <3>2
    <2>11. ASSUME NEW n \in Active(c), n \notin c.ports
           PROVE  device[<<"pfc", n>>].rx = {} /\ device[<<"pfc", n>>].lossless = {}
      <3>1. PfcMatches(c, n) /\ n \notin Selected(c)
        BY <2>1, <2>2, <2>11 DEF Applied
      <3>2. Pfc(c, n).rx = {} /\ Pfc(c, n).lossless = {}
        BY <3>1 DEF Pfc
      <3> QED
        BY <3>1, <3>2 DEF PfcMatches, Lease
    <2>12. ASSUME NEW n \in Active(c), n \in c.ports
           PROVE  LET pfc == device[<<"pfc", n>>]
                      group == device[<<"scheduler", n>>]
                  IN /\ pfc.tx = {3} /\ pfc.lossless = {1} /\ pfc.shared = {1}
                     /\ pfc.rx = {3}
                     /\ n \in leased => pfc.watchdog[1] > 0
                     /\ {tc \in Tcs : group[tc].strict} = IF dscp THEN {CnpTc} ELSE {}
                     /\ device[<<"dcbx", n>>].seen =>
                          \A tc \in device[<<"dcbx", n>>].policy.ets :
                            group[tc].quantum = 2 * Frame(c.port[n].mtu) *
                              device[<<"dcbx", n>>].policy.bandwidth[tc]
      <3>1. PfcMatches(c, n) /\ SchedulerMatches(c, n) /\ DcbxMatches(c) /\ n \in Selected(c)
        BY <2>1, <2>2, <2>12 DEF Applied
      <3>2. /\ Pfc(c, n).rx = {3} /\ Pfc(c, n).tx = {3} /\ Pfc(c, n).lossless = {1} /\ Pfc(c, n).shared = {1}
        BY <3>1 DEF Pfc
      <3>3. /\ device[<<"pfc", n>>].tx = {3} /\ device[<<"pfc", n>>].lossless = {1}
            /\ device[<<"pfc", n>>].shared = {1} /\ device[<<"pfc", n>>].rx = {3}
        BY <3>1, <3>2 DEF PfcMatches, Lease
      <3>4. n \in leased => device[<<"pfc", n>>].watchdog[1] > 0
        BY <1>1 DEF RoceInv, LeasesHold
      <3>5. \A tc \in Tcs :
              /\ device[<<"scheduler", n>>][tc].strict = (DscpMode(c) /\ tc = CnpTc)
              /\ device[<<"scheduler", n>>][tc].quantum = 2 * Frame(c.port[n].mtu) *
                   (IF Ieee(c) THEN Max({1, DcbxPolicy(c).bandwidth[tc]}) ELSE c.weights[tc])
        BY <3>1, Zenon DEF SchedulerMatches
      <3>6. {tc \in Tcs : device[<<"scheduler", n>>][tc].strict} = IF dscp THEN {CnpTc} ELSE {}
        <4>1. CnpTc \in Tcs
          BY DEF CnpTc, Tcs
        <4>2. CASE dscp
          <5>1. \A tc \in Tcs : device[<<"scheduler", n>>][tc].strict <=> tc = CnpTc
            BY <2>4, <3>5, <4>2, Zenon
          <5> QED
            BY <4>1, <4>2, <5>1
        <4>3. CASE ~dscp
          <5>1. \A tc \in Tcs : ~device[<<"scheduler", n>>][tc].strict
            BY <2>4, <3>5, <4>3, Zenon
          <5> QED
            BY <4>3, <5>1
        <4> QED
          BY <4>2, <4>3
      <3>7. ASSUME device[<<"dcbx", n>>].seen, NEW tc \in device[<<"dcbx", n>>].policy.ets
            PROVE  device[<<"scheduler", n>>][tc].quantum =
                     2 * Frame(c.port[n].mtu) * device[<<"dcbx", n>>].policy.bandwidth[tc]
        <4>1. n \in Ports
          BY DEF Active
        <4>2. Ieee(c) /\ device[<<"dcbx", n>>].policy = DcbxPolicy(c)
          <5>1. n \in {m \in Ports : device[<<"dcbx", m>>].seen}
            BY <3>7, <4>1
          <5> QED
            BY <3>1, <5>1 DEF DcbxMatches
        <4>3. tc \in EtsClasses(c) /\ DcbxPolicy(c).bandwidth = Shares(EtsClasses(c), c.weights)
          BY <3>7, <4>2 DEF DcbxPolicy
        <4>4. EtsClasses(c) \in SUBSET Tcs /\ EtsClasses(c) # {}
          BY <4>3 DEF EtsClasses
        <4>5. tc \in Tcs /\ DcbxPolicy(c).bandwidth[tc] \in Nat /\ DcbxPolicy(c).bandwidth[tc] > 0
          <5>1. PICK classes, weights : classes = EtsClasses(c) /\ weights = c.weights
            OBVIOUS
          <5>2. classes \in SUBSET Tcs /\ classes # {} /\ weights \in [Tcs -> Nat \ {0}]
            BY <2>3, <4>4, <5>1
          <5>3. ASSUME NEW k \in Tcs
                PROVE  Shares(classes, weights)[k] \in Nat /\ (Shares(classes, weights)[k] > 0 <=> k \in classes)
            BY <5>2, SharesAddUp
          <5> QED
            BY <4>3, <4>4, <5>1, <5>3
        <4>6. Max({1, DcbxPolicy(c).bandwidth[tc]}) = DcbxPolicy(c).bandwidth[tc]
          BY <4>5, AtLeastOne
        <4> QED
          BY <3>5, <4>2, <4>5, <4>6
      <3> QED
        BY <3>3, <3>4, <3>6, <3>7
    <2>13. \A n \in Active(c) :
             LET pfc == device[<<"pfc", n>>]
                 group == device[<<"scheduler", n>>]
             IN IF n \notin c.ports THEN pfc.rx = {} /\ pfc.lossless = {}
                ELSE /\ pfc.tx = {3} /\ pfc.lossless = {1} /\ pfc.shared = {1}
                     /\ pfc.rx = {3}
                     /\ n \in leased => pfc.watchdog[1] > 0
                     /\ {tc \in Tcs : group[tc].strict} = IF dscp THEN {CnpTc} ELSE {}
                     /\ device[<<"dcbx", n>>].seen =>
                          \A tc \in device[<<"dcbx", n>>].policy.ets :
                            group[tc].quantum = 2 * Frame(c.port[n].mtu) *
                              device[<<"dcbx", n>>].policy.bandwidth[tc]
      <3> HIDE DEF dscp
      <3> QED
        BY <2>11, <2>12
    <2>14. dscp => /\ {d \in Dscps : code[d] = 6} = {c.cnp}
                   /\ {p \in Priorities : forwarding[p] = CnpTc} = {CnpPriority}
      BY <2>10
    <2> QED
      BY <2>0, <2>6, <2>7, <2>9, <2>13, <2>14, Zenon DEF AppliedIsLossless
  <1>2. RoceInv => AppliedIsLossless
    BY <1>1 DEF AppliedIsLossless
  <1> QED
    BY <1>2, RoceInvariant, PTL

(***************************************************************************)
(* The suggestions.                                                        *)
(***************************************************************************)
\* What the suggestions leave alone.
LEMMA SuggestedKeeps ==
  ASSUME NEW c, IsDraft(c), c.enabled, BaseValid(c)
  PROVE  \A f \in DOMAIN Field \ {"map", "default", "lldp", "trust"} : Suggested(c)[f] = c[f]
  BY DEF Suggested, IsDraft, Field

\* What it makes of the map, the default, LLDP and trust.
LEMMA SuggestedFields ==
  ASSUME NEW c, IsDraft(c), c.enabled, BaseValid(c)
  PROVE  /\ \A n \in Ports : Suggested(c).port[n] = SuggestedPort(c, n)
         /\ Suggested(c).map = SuggestedMap(c)
         /\ Suggested(c).default # 3
         /\ c.classification = "dscp" => Suggested(c).default # CnpPriority
         /\ c.dcbx = "ieee" => Suggested(c).lldp
         /\ Suggested(c).trust = IF <<0, "trust">> \in Issues(c) THEN "none" ELSE c.trust
  <1> DEFINE d == Suggested(c)
  <1>1. /\ d.port = [n \in Ports |-> SuggestedPort(c, n)] /\ d.map = SuggestedMap(c)
        /\ d.default = IF c.default = 3 \/ (c.classification = "dscp" /\ c.default = CnpPriority) THEN 0 ELSE c.default
        /\ d.trust = IF <<0, "trust">> \in Issues(c) THEN "none" ELSE c.trust
    BY DEF Suggested, IsDraft, Field
  <1>2. d.lldp = (c.lldp \/ c.dcbx = "ieee")
    BY DEF Suggested, IsDraft, Field
  <1>3. c.dcbx = "ieee" => d.lldp
    BY <1>2, Zenon
  <1> HIDE DEF d
  <1>4. d.default # 3 /\ (c.classification = "dscp" => d.default # CnpPriority)
    BY <1>1 DEF CnpPriority
  <1>5. \A n \in Ports : d.port[n] = SuggestedPort(c, n)
    BY <1>1
  <1> QED
    BY <1>1, <1>3, <1>4, <1>5 DEF d

\* No suggestion touches the VLANs or the MTU of a port.
LEMMA SuggestedPortKeeps ==
  ASSUME NEW c, IsDraft(c), NEW n \in Ports
  PROVE  /\ SuggestedPort(c, n).mode = c.port[n].mode /\ SuggestedPort(c, n).pvid = c.port[n].pvid
         /\ SuggestedPort(c, n).tagged = c.port[n].tagged /\ SuggestedPort(c, n).mtu = c.port[n].mtu
  <1>1. DOMAIN c.port[n] = DOMAIN PortField
    BY DEF IsDraft
  <1> QED
    BY <1>1 DEF SuggestedPort, PortField

\* What it makes of a port it reaches.
LEMMA SuggestedPortFields ==
  ASSUME NEW c, IsDraft(c), NEW n \in Ports, n \in c.ports, Eligible(c, n)
  PROVE  /\ SuggestedPort(c, n).enabled = TRUE /\ SuggestedPort(c, n).ingress = 0
         /\ SuggestedPort(c, n).egress \in {0, c.port[n].egress}
         /\ c.classification = "dscp" => SuggestedPort(c, n).egress = 0
         /\ c.dcbx = "ieee" => SuggestedPort(c, n).lldp
  <1> DEFINE o == SuggestedPort(c, n)
  <1>1. DOMAIN c.port[n] = DOMAIN PortField
    BY DEF IsDraft
  <1>2. /\ o.enabled = TRUE /\ o.ingress = 0
        /\ o.egress = IF c.classification = "dscp" THEN 0 ELSE c.port[n].egress
    BY <1>1 DEF SuggestedPort, PortField
  <1>3. o.lldp = (c.port[n].lldp \/ c.dcbx = "ieee")
    BY <1>1 DEF SuggestedPort, PortField
  <1>4. c.dcbx = "ieee" => o.lldp
    BY <1>3, Zenon
  <1> HIDE DEF o
  <1> QED
    BY <1>2, <1>4 DEF o

\* A path a rule names is one of the issues.
LEMMA IssuesNamed ==
  ASSUME NEW c, c.enabled
  PROVE  /\ Cardinality(c.ports) < 2 => <<0, "ports">> \in Issues(c)
         /\ c.trust # "none" /\ (\E n \in Ports \ c.ports : c.port[n].enabled) => <<0, "trust">> \in Issues(c)
         /\ \A n \in c.ports : PortIssues(c, n) \subseteq Issues(c)
         /\ {v \in UNION {PortVlans(c.port[n], c.classification) : n \in c.ports} :
               \A n \in c.ports : v \in PortVlans(c.port[n], c.classification)} = {} => <<0, "ports">> \in Issues(c)
         /\ Remaining(LargestMtu(c)) <= 192 => <<0, "enabled">> \in Issues(c)
  <1>1. Cardinality(c.ports) < 2 => <<0, "ports">> \in Issues(c)
    <2>1. Cardinality(c.ports) < 2 => <<0, "ports">> \in When(Cardinality(c.ports) < 2, 0, "ports")
      BY DEF When
    <2> QED
      BY <2>1 DEF Issues
  <1>2. c.trust # "none" /\ (\E n \in Ports \ c.ports : c.port[n].enabled) => <<0, "trust">> \in Issues(c)
    <2> SUFFICES ASSUME c.trust # "none" /\ \E n \in Ports \ c.ports : c.port[n].enabled
                 PROVE  <<0, "trust">> \in Issues(c)
      OBVIOUS
    <2>1. <<0, "trust">> \in When(c.trust # "none" /\ \E n \in Ports \ c.ports : c.port[n].enabled, 0, "trust")
      BY Zenon DEF When
    <2> QED
      BY <2>1 DEF Issues
  <1>3. \A n \in c.ports : PortIssues(c, n) \subseteq Issues(c)
    <2>1. \A n \in c.ports : PortIssues(c, n) \subseteq UNION {PortIssues(c, m) : m \in c.ports}
      OBVIOUS
    <2>2. ASSUME NEW q \in UNION {PortIssues(c, m) : m \in c.ports} PROVE q \in Issues(c)
      BY DEF Issues
    <2> QED
      BY <2>1, <2>2
  <1>4. {v \in UNION {PortVlans(c.port[n], c.classification) : n \in c.ports} :
           \A n \in c.ports : v \in PortVlans(c.port[n], c.classification)} = {} => <<0, "ports">> \in Issues(c)
    <2> DEFINE common == {v \in UNION {PortVlans(c.port[n], c.classification) : n \in c.ports} :
                            \A n \in c.ports : v \in PortVlans(c.port[n], c.classification)}
    <2>1. common = {} => <<0, "ports">> \in When(common = {}, 0, "ports")
      BY Zenon DEF When
    <2>2. ASSUME NEW q \in When(common = {}, 0, "ports") PROVE q \in Issues(c)
      BY DEF Issues
    <2> QED
      BY <2>1, <2>2
  <1>5. Remaining(LargestMtu(c)) <= 192 => <<0, "enabled">> \in Issues(c)
    <2>1. Remaining(LargestMtu(c)) <= 192 => <<0, "enabled">> \in When(Remaining(LargestMtu(c)) <= 192, 0, "enabled")
      BY Zenon DEF When
    <2> QED
      BY <2>1 DEF Issues
  <1> QED
    BY <1>1, <1>2, <1>3, <1>4, <1>5

\* And so is a path a rule names for one port.
LEMMA PortIssuesNamed ==
  ASSUME NEW c, NEW n
  PROVE  /\ n \notin Active(c) \/ n \in c.lag => <<0, "ports">> \in PortIssues(c, n)
         /\ c.speed[n] \notin Speeds => <<n, "enabled">> \in PortIssues(c, n)
         /\ Headroom(c.speed[n], c.port[n].mtu, c.cable, c.response) > PauseBuffer =>
              <<0, "response">> \in PortIssues(c, n)
  <1>1. n \notin Active(c) \/ n \in c.lag => <<0, "ports">> \in When(n \notin Active(c) \/ n \in c.lag, 0, "ports")
    BY Zenon DEF When
  <1>2. c.speed[n] \notin Speeds =>
          <<n, "enabled">> \in When(~c.port[n].enabled \/ c.speed[n] \notin Speeds, n, "enabled")
    BY Zenon DEF When
  <1>3. Headroom(c.speed[n], c.port[n].mtu, c.cable, c.response) > PauseBuffer =>
          <<0, "response">> \in
             When(Headroom(c.speed[n], c.port[n].mtu, c.cable, c.response) > PauseBuffer, 0, "response")
    BY Zenon DEF When
  <1> QED
    BY <1>1, <1>2, <1>3 DEF PortIssues

\* The suggested map gives the data class, and the CNP class, to one priority.
LEMMA SuggestedMapKeeps ==
  ASSUME NEW c, IsDraft(c)
  PROVE  /\ KeepsTo(SuggestedMap(c), 3, 3)
         /\ c.classification = "dscp" => KeepsTo(SuggestedMap(c), CnpPriority, CnpTc)
  BY DEF SuggestedMap, KeepsTo, CnpPriority, CnpTc, IsDraft, Holds, Field

\* Issues that stand at fields the suggestions change leave only ports that
\* the suggestions reach.
LEMMA SuggestionsReach ==
  ASSUME NEW c, IsDraft(c), c.enabled, BaseValid(c), Issues(c) \subseteq Changed(c, Suggested(c))
  PROVE  /\ ~(Cardinality(c.ports) < 2) /\ ~(Remaining(LargestMtu(c)) <= 192)
         /\ {v \in UNION {PortVlans(c.port[n], c.classification) : n \in c.ports} :
               \A n \in c.ports : v \in PortVlans(c.port[n], c.classification)} # {}
         /\ \A n \in c.ports : /\ n \in Ports /\ Eligible(c, n)
                               /\ ~(Headroom(c.speed[n], c.port[n].mtu, c.cable, c.response) > PauseBuffer)
  <1> DEFINE d == Suggested(c)
  <1>0. 0 \notin Ports /\ c.ports \subseteq Ports
    BY RoceAssumption DEF IsDraft, Holds, Field
  <1>1. \A f \in {"ports", "enabled", "response"} : <<0, f>> \notin Issues(c)
    <2>1. \A f \in {"ports", "enabled", "response"} : d[f] = c[f]
      <3>1. {"ports", "enabled", "response"} \subseteq DOMAIN Field \ {"map", "default", "lldp", "trust"}
        BY DEF Field
      <3> QED
        BY <3>1, SuggestedKeeps
    <2> HIDE DEF d
    <2>2. \A f \in {"ports", "enabled", "response"} : <<0, f>> \notin Changed(c, d)
      BY <1>0, <2>1 DEF Changed
    <2> QED
      BY <2>2 DEF d
  <1>2. \A n \in c.ports : PortIssues(c, n) \subseteq Issues(c)
    BY IssuesNamed
  <1>3. ASSUME NEW n \in c.ports
        PROVE  /\ n \in Active(c) \ c.lag
               /\ ~(Headroom(c.speed[n], c.port[n].mtu, c.cable, c.response) > PauseBuffer)
    BY <1>1, <1>2, PortIssuesNamed
  <1>4. ASSUME NEW n \in c.ports PROVE c.speed[n] \in Speeds
    <2> SUFFICES ASSUME c.speed[n] \notin Speeds PROVE FALSE
      OBVIOUS
    <2>1. <<n, "enabled">> \in Changed(c, d)
      BY <1>2, PortIssuesNamed
    <2>2. d.port[n] = c.port[n]
      <3>1. ~Eligible(c, n)
        BY DEF Eligible
      <3> QED
        BY <1>0, <3>1, SuggestedFields DEF SuggestedPort
    <2> HIDE DEF d
    <2> QED
      BY <1>0, <2>1, <2>2 DEF Changed
  <1>5. ~(Cardinality(c.ports) < 2) /\ ~(Remaining(LargestMtu(c)) <= 192)
    BY <1>1, IssuesNamed
  <1>6. {v \in UNION {PortVlans(c.port[n], c.classification) : n \in c.ports} :
           \A n \in c.ports : v \in PortVlans(c.port[n], c.classification)} # {}
    BY <1>1, IssuesNamed
  <1> QED
    BY <1>0, <1>3, <1>4, <1>5, <1>6 DEF Eligible

\* The suggested draft meets the rules the draft met.
LEMMA SuggestedIsBaseValid ==
  ASSUME NEW c, IsDraft(c), c.enabled, BaseValid(c), Issues(c) \subseteq Changed(c, Suggested(c))
  PROVE  BaseValid(Suggested(c))
  <1>0. PICK d : d = Suggested(c)
    OBVIOUS
  <1>1. /\ d.classification = c.classification /\ d.dscp = c.dscp /\ d.cnp = c.cnp
        /\ d.cooldown = c.cooldown /\ d.detect = c.detect /\ d.lag = c.lag /\ d.speed = c.speed
    <2>1. {"classification", "dscp", "cnp", "cooldown", "detect", "lag", "speed"} \subseteq
            DOMAIN Field \ {"map", "default", "lldp", "trust"}
      BY DEF Field
    <2>2. \A f \in {"classification", "dscp", "cnp", "cooldown", "detect", "lag", "speed"} : d[f] = c[f]
      BY <1>0, <2>1, SuggestedKeeps
    <2> QED
      BY <2>2
  <1>2. \A n \in Ports : d.port[n] = SuggestedPort(c, n)
    BY <1>0, SuggestedFields
  <1>3. Active(d) = Active(c)
    BY <1>1 DEF Active
  <1>4. c.lag \subseteq Ports /\ \A n \in Ports : c.speed[n] \in Nat
    BY DEF IsDraft, Holds, Field
  <1>5. ASSUME NEW n \in Ports PROVE ValidPort(d, n)
    <2>1. ValidPort(c, n)
      BY DEF BaseValid
    <2>2. CASE n \in c.ports
      <3> DEFINE p == c.port[n]
                 o == d.port[n]
      <3>1. Eligible(c, n)
        BY <2>2, SuggestionsReach
      <3>2. /\ o.mode = p.mode /\ o.pvid = p.pvid /\ o.tagged = p.tagged
            /\ o.enabled = TRUE /\ o.ingress = 0 /\ o.egress \in {0, p.egress}
        <4>1. d.port[n] = SuggestedPort(c, n)
          BY <1>2
        <4>2. /\ SuggestedPort(c, n).enabled = TRUE /\ SuggestedPort(c, n).ingress = 0
              /\ SuggestedPort(c, n).egress \in {0, c.port[n].egress}
          BY <2>2, <3>1, SuggestedPortFields
        <4> QED
          BY <4>1, <4>2, SuggestedPortKeeps
      <3>3. p.pvid \cup p.tagged # {}
        <4>1. PortVlans(p, c.classification) # {}
          BY <2>2, SuggestionsReach
        <4> QED
          BY <4>1 DEF PortVlans
      <3>4. n \in Active(d)
        BY <1>3, <3>1 DEF Eligible
      <3>5. /\ p.mode = "access" => p.tagged = {}
            /\ p.pvid \cap p.tagged = {} /\ p.egress <= c.speed[n] * 1000000
        BY <2>1 DEF ValidPort
      <3>6. c.speed[n] \in Nat
        BY <1>4
      <3> HIDE DEF o, p
      <3> DEFINE rate == c.speed[n] * 1000000
      <3>7. rate \in Nat /\ p.egress <= rate
        BY <3>5, <3>6
      <3> HIDE DEF rate
      <3>8. 0 <= rate /\ o.egress <= rate
        BY <3>2, <3>7
      <3>9. /\ ~(o.ingress \in 1..(MinimumRate - 1))
            /\ o.mode = "access" => o.tagged = {}
            /\ o.pvid \cap o.tagged = {}
            /\ o.enabled => o.pvid \cup o.tagged # {}
            /\ o.ingress <= rate
        BY <3>2, <3>3, <3>5, <3>8
      <3> QED
        BY <1>1, <3>4, <3>8, <3>9 DEF ValidPort, rate, o
    <2>3. CASE n \notin c.ports
      <3>1. d.port[n] = c.port[n]
        BY <1>2, <2>3 DEF SuggestedPort
      <3> QED
        BY <1>1, <1>3, <2>1, <3>1 DEF ValidPort, References
    <2> QED
      BY <2>2, <2>3
  <1>6. \A n, m \in d.lag : Profile(d, n) = Profile(d, m)
    <2>1. \A n \in c.lag : Profile(d, n) = Profile(c, n)
      BY <1>1, <1>2, <1>4, SuggestedPortKeeps DEF Profile
    <2>2. \A n, m \in c.lag : Profile(c, n) = Profile(c, m)
      BY DEF BaseValid
    <2> QED
      BY <1>1, <2>1, <2>2
  <1>7. /\ d.classification = "dscp" => d.dscp # d.cnp
        /\ d.cooldown >= d.detect /\ d.lag \subseteq Active(d)
    BY <1>1, <1>3 DEF BaseValid
  <1> QED
    BY <1>0, <1>5, <1>6, <1>7 DEF BaseValid

\* No rule has an issue with the suggested draft.
LEMMA SuggestedHasNoIssues ==
  ASSUME NEW c, IsDraft(c), c.enabled, BaseValid(c), Issues(c) \subseteq Changed(c, Suggested(c))
  PROVE  Issues(Suggested(c)) = {} /\ \A n \in Selected(Suggested(c)) : n \in Active(Suggested(c))
  <1>0. PICK d : d = Suggested(c)
    OBVIOUS
  <1>1. /\ d.classification = c.classification /\ d.dcbx = c.dcbx /\ d.cable = c.cable /\ d.response = c.response
        /\ d.ports = c.ports /\ d.lag = c.lag /\ d.speed = c.speed /\ d.enabled = c.enabled
    <2>1. {"classification", "dcbx", "cable", "response", "ports", "lag", "speed", "enabled"} \subseteq
            DOMAIN Field \ {"map", "default", "lldp", "trust"}
      BY DEF Field
    <2>2. \A f \in {"classification", "dcbx", "cable", "response", "ports", "lag", "speed", "enabled"} : d[f] = c[f]
      BY <1>0, <2>1, SuggestedKeeps
    <2> QED
      BY <2>2
  <1>2. /\ \A n \in Ports : d.port[n] = SuggestedPort(c, n)
        /\ d.map = SuggestedMap(c)
        /\ d.default # 3 /\ (c.classification = "dscp" => d.default # CnpPriority)
        /\ c.dcbx = "ieee" => d.lldp
        /\ d.trust = IF <<0, "trust">> \in Issues(c) THEN "none" ELSE c.trust
    BY <1>0, SuggestedFields
  <1>3. Active(d) = Active(c) /\ c.ports \subseteq Ports
    BY <1>1 DEF Active, IsDraft, Holds, Field
  <1>4. \A n \in Ports : /\ d.port[n].mode = c.port[n].mode /\ d.port[n].pvid = c.port[n].pvid
                         /\ d.port[n].tagged = c.port[n].tagged /\ d.port[n].mtu = c.port[n].mtu
    BY <1>2, SuggestedPortKeeps
  <1>5. \A n \in c.ports : /\ Eligible(c, n)
                           /\ ~(Headroom(c.speed[n], c.port[n].mtu, c.cable, c.response) > PauseBuffer)
    BY SuggestionsReach
  <1>6. \A n \in c.ports : PortVlans(d.port[n], d.classification) = PortVlans(c.port[n], c.classification)
    BY <1>1, <1>3, <1>4 DEF PortVlans
  <1>7. {v \in UNION {PortVlans(d.port[n], d.classification) : n \in d.ports} :
           \A n \in d.ports : v \in PortVlans(d.port[n], d.classification)} # {}
    <2>1. PICK v \in UNION {PortVlans(c.port[n], c.classification) : n \in c.ports} :
                 \A n \in c.ports : v \in PortVlans(c.port[n], c.classification)
      BY SuggestionsReach
    <2>2. v \in UNION {PortVlans(d.port[n], d.classification) : n \in d.ports}
      BY <1>1, <1>6, <2>1
    <2>3. \A n \in d.ports : v \in PortVlans(d.port[n], d.classification)
      BY <1>1, <1>6, <2>1
    <2> QED
      BY <2>2, <2>3
  <1>8. ASSUME NEW n \in c.ports PROVE PortIssues(d, n) = {}
    <2>1. n \in Ports /\ Eligible(c, n) /\ n \in Active(d) /\ n \notin d.lag /\ d.speed[n] \in Speeds
      BY <1>1, <1>3, <1>5 DEF Eligible
    <2>2. /\ d.port[n].enabled = TRUE /\ d.port[n].ingress = 0
          /\ d.classification = "dscp" => d.port[n].egress = 0
      <3>1. /\ SuggestedPort(c, n).enabled = TRUE /\ SuggestedPort(c, n).ingress = 0
            /\ c.classification = "dscp" => SuggestedPort(c, n).egress = 0
        BY <2>1, SuggestedPortFields
      <3> QED
        BY <1>1, <1>2, <2>1, <3>1
    <2>3. d.dcbx = "ieee" => d.port[n].lldp
      <3>1. c.dcbx = "ieee" => SuggestedPort(c, n).lldp
        BY <2>1, SuggestedPortFields
      <3> QED
        BY <1>1, <1>2, <2>1, <3>1
    <2>4. PortVlans(d.port[n], d.classification) # {}
      BY <1>1, <1>7
    <2>5. ~(Headroom(d.speed[n], d.port[n].mtu, d.cable, d.response) > PauseBuffer)
      BY <1>1, <1>4, <1>5, <2>1
    <2>6. /\ When(n \notin Active(d) \/ n \in d.lag, 0, "ports") = {}
          /\ When(~d.port[n].enabled \/ d.speed[n] \notin Speeds, n, "enabled") = {}
          /\ When(PortVlans(d.port[n], d.classification) = {}, n, "tagged") = {}
          /\ When(d.dcbx = "ieee" /\ ~d.port[n].lldp, n, "lldp") = {}
          /\ When(d.classification = "dscp" /\ d.port[n].egress > 0, n, "egress") = {}
          /\ When(d.port[n].ingress > 0, n, "ingress") = {}
          /\ When(Headroom(d.speed[n], d.port[n].mtu, d.cable, d.response) > PauseBuffer, 0, "response") = {}
      <3>1. ~(d.classification = "dscp" /\ d.port[n].egress > 0) /\ ~(d.port[n].ingress > 0)
        BY <2>2
      <3> QED
        BY <2>1, <2>2, <2>3, <2>4, <2>5, <3>1, Zenon DEF When
    <2>7. ASSUME NEW q \in PortIssues(d, n) PROVE FALSE
      BY <2>6, <2>7 DEF PortIssues
    <2> QED
      BY <2>7
  <1>9. ~(Remaining(LargestMtu(d)) <= 192)
    <2>1. {d.port[n].mtu : n \in Ports} = {c.port[n].mtu : n \in Ports}
      BY <1>4
    <2>2. LargestMtu(d) = LargestMtu(c)
      BY <2>1 DEF LargestMtu
    <2> QED
      BY <2>2, SuggestionsReach
  <1>10. ~(Cardinality(d.ports) < 2)
    BY <1>1, SuggestionsReach
  <1>11. /\ KeepsTo(d.map, 3, 3)
         /\ d.classification = "dscp" => KeepsTo(d.map, CnpPriority, CnpTc)
    BY <1>1, <1>2, SuggestedMapKeeps
  <1>12. d.default # 3 /\ ~(d.classification = "dscp" /\ d.default = CnpPriority)
    BY <1>1, <1>2
  <1>13. ~(d.dcbx = "ieee" /\ ~d.lldp)
    BY <1>1, <1>2, Zenon
  <1>14. ~(d.trust # "none" /\ \E n \in Ports \ d.ports : d.port[n].enabled)
    <2>1. \A n \in Ports \ c.ports : d.port[n] = c.port[n]
      BY <1>2 DEF SuggestedPort
    <2>2. CASE <<0, "trust">> \in Issues(c)
      BY <1>2, <2>2
    <2>3. CASE <<0, "trust">> \notin Issues(c)
      <3>1. ~(c.trust # "none" /\ \E n \in Ports \ c.ports : c.port[n].enabled) /\ d.trust = c.trust
        BY <1>2, <2>3, IssuesNamed
      <3> QED
        BY <1>1, <2>1, <3>1
    <2> QED
      BY <2>2, <2>3
  <1>15. ASSUME NEW q \in Issues(d) PROVE FALSE
    <2>1. /\ When(Cardinality(d.ports) < 2, 0, "ports") = {}
          /\ When(~KeepsTo(d.map, 3, 3), 0, "map") = {}
          /\ When(d.default = 3, 0, "default") = {}
          /\ When(d.classification = "dscp" /\ ~KeepsTo(d.map, CnpPriority, CnpTc), 0, "map") = {}
          /\ When(d.classification = "dscp" /\ d.default = CnpPriority, 0, "default") = {}
          /\ When(d.dcbx = "ieee" /\ ~d.lldp, 0, "lldp") = {}
      BY <1>10, <1>11, <1>12, <1>13, Zenon DEF When
    <2>2. /\ When(d.trust # "none" /\ \E n \in Ports \ d.ports : d.port[n].enabled, 0, "trust") = {}
          /\ When(Remaining(LargestMtu(d)) <= 192, 0, "enabled") = {}
      BY <1>9, <1>14, Zenon DEF When
    <2>3. When({v \in UNION {PortVlans(d.port[n], d.classification) : n \in d.ports} :
                  \A n \in d.ports : v \in PortVlans(d.port[n], d.classification)} = {}, 0, "ports") = {}
      BY <1>7, Zenon DEF When
    <2>4. UNION {PortIssues(d, n) : n \in d.ports} = {}
      BY <1>1, <1>8
    <2> QED
      BY <1>15, <2>1, <2>2, <2>3, <2>4 DEF Issues
  <1>16. \A n \in Selected(d) : n \in Active(d)
    BY <1>1, <1>3, <1>5 DEF Selected, Eligible
  <1> QED
    BY <1>0, <1>15, <1>16

\* SuggestionsSuffice of the specification: when every issue stands at a field
\* the suggestions change, the draft with the suggestions can be committed.
THEOREM SuggestionsAreEnough == RoceSpec => []SuggestionsSuffice
  <1>1. ASSUME RoceInv, BaseValid(draft), Issues(draft) \subseteq Changed(draft, Suggested(draft))
        PROVE  ValidConfig(Suggested(draft))
    <2>0. PICK c : c = draft
      OBVIOUS
    <2>1. IsDraft(c) /\ BaseValid(c) /\ Issues(c) \subseteq Changed(c, Suggested(c))
      BY <1>1, <2>0 DEF RoceInv
    <2>2. CASE c.enabled
      BY <2>0, <2>1, <2>2, SuggestedIsBaseValid, SuggestedHasNoIssues DEF ValidConfig
    <2>3. CASE ~c.enabled
      <3>1. Suggested(c) = c /\ Issues(c) = {} /\ Selected(c) = {}
        BY <2>3 DEF Suggested, Issues, Selected
      <3> QED
        BY <2>0, <2>1, <3>1 DEF ValidConfig
    <2> QED
      BY <2>2, <2>3
  <1> QED
    BY <1>1, RoceInvariant, PTL DEF SuggestionsSuffice
=============================================================================
