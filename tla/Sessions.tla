------------------------------ MODULE Sessions ------------------------------
(***************************************************************************)
(* The administrator, the sessions and the throttle of auth.py, with the   *)
(* handlers of app.py that use them.  Auth holds one lock, so each of its  *)
(* calls is a step; a request is two: the dependency that admits it reads  *)
(* the session, and the handler runs later, in a thread of its own.        *)
(*                                                                         *)
(* Credentials are counted: generation n is the n-th user name and         *)
(* password; who knows the password is the caller's choice.  Time is the   *)
(* monotonic clock in steps.                                               *)
(***************************************************************************)
EXTENDS Integers, FiniteSets, Sequences

CONSTANTS
  Clients,      \* browsers, each with one cookie
  Addresses,    \* client addresses
  Capacity,     \* sessions kept (64)
  Lifetime,     \* of a session (12 hours)
  Window,       \* a wrong password counts for so long (60 seconds)
  Attempts,     \* wrong passwords an address may give within it (5)
  MaxTokens, MaxTime      \* bounds

ASSUME SessionsAssumption ==
  /\ Capacity \in Nat \ {0} /\ Lifetime \in Nat \ {0}
  /\ Window \in Nat \ {0} /\ Attempts \in Nat \ {0}
  /\ MaxTokens \in Nat /\ MaxTime \in Nat

VARIABLES
  generation,   \* accounts.json: which credentials it holds (0: no administrator)
  sessions,     \* [token, generation, deadline] of each session
  failures,     \* by address: [number, at] of each wrong password that still counts
  moment,       \* monotonic()
  cookie,       \* by client: the token it presents (0: none)
  admitted,     \* by client: the token its request was admitted with (0: none)
  issued,       \* tokens issued so far
  guesses       \* history, by address: wrong passwords since the last right one

sessionsVars ==
  <<generation, sessions, failures, moment, cookie, admitted, issued, guesses>>

Live == {s \in sessions : s.deadline > moment}
Valid(token) == \E s \in Live : s.token = token

\* _attempts: old failures are forgotten, then counted.  The number of a
\* failure only keeps those of one moment apart.
Recent(address) == {f \in failures[address] : moment - f.at < Window}
Throttled(address) == Cardinality(Recent(address)) >= Attempts
Pruned == [a \in Addresses |-> Recent(a)]
NoFailures == [a \in Addresses |-> {}]
NoGuesses == [a \in Addresses |-> <<>>]

\* new_session: the expired go first, then, when the table is full, one that
\* would expire first.  The caller answers with the new cookie.
Earliest(S) == {s \in S : \A o \in S : s.deadline <= o.deadline}
NewSession(client, kept, g) ==
  /\ issued < MaxTokens
  /\ issued' = issued + 1 /\ cookie' = [cookie EXCEPT ![client] = issued + 1]
  /\ \E gone \in IF Cardinality(kept) >= Capacity THEN {{s} : s \in Earliest(kept)} ELSE {{}} :
       sessions' = (kept \ gone) \cup
         {[token |-> issued + 1, generation |-> g, deadline |-> moment + Lifetime]}

SessionsInit ==
  /\ generation = 0 /\ sessions = {} /\ failures = NoFailures /\ moment = 0
  /\ cookie = [c \in Clients |-> 0] /\ admitted = [c \in Clients |-> 0]
  /\ issued = 0 /\ guesses = NoGuesses

\* setup: the first administrator; the save may fail after its rename.
Setup ==
  /\ generation = 0 /\ generation' = 1
  /\ \/ \E c \in Clients : NewSession(c, Live, 1)
     \/ UNCHANGED <<sessions, cookie, issued>>
  /\ UNCHANGED <<failures, moment, admitted, guesses>>

Wrong(address) ==
  /\ failures' = [Pruned EXCEPT ![address] =
                    @ \cup {[number |-> Len(guesses[address]) + 1, at |-> moment]}]
  /\ guesses' = [guesses EXCEPT ![address] = Append(@, moment)]

\* Mutant: a refused address is not refused.
LoginUnthrottled(c, address) ==
  /\ generation > 0
  /\ \/ Wrong(address) /\ UNCHANGED <<sessions, cookie, issued>>
     \/ /\ failures' = [Pruned EXCEPT ![address] = {}]
        /\ guesses' = [guesses EXCEPT ![address] = <<>>]
        /\ NewSession(c, Live, generation)
  /\ UNCHANGED <<generation, moment, admitted>>
Login(c, address) ==
  /\ generation > 0 /\ ~Throttled(address)
  /\ \/ Wrong(address) /\ UNCHANGED <<sessions, cookie, issued>>
     \/ /\ failures' = [Pruned EXCEPT ![address] = {}]
        /\ guesses' = [guesses EXCEPT ![address] = <<>>]
        /\ NewSession(c, Live, generation)
  /\ UNCHANGED <<generation, moment, admitted>>

\* session: the dependency of every handler; an expired session goes.
Admitted(c) ==
  /\ cookie[c] # 0 /\ admitted[c] = 0
  /\ IF Valid(cookie[c])
       THEN admitted' = [admitted EXCEPT ![c] = cookie[c]] /\ UNCHANGED sessions
       ELSE sessions' = {s \in sessions : s.token # cookie[c]} /\ UNCHANGED admitted
  /\ UNCHANGED <<generation, failures, moment, cookie, issued, guesses>>

\* logout; and a handler that leaves all this alone, such as a change of the
\* administrator that is throttled or that changes nothing.
Logout(c) ==
  /\ admitted[c] # 0
  /\ sessions' = {s \in sessions : s.token # admitted[c]}
  /\ admitted' = [admitted EXCEPT ![c] = 0] /\ cookie' = [cookie EXCEPT ![c] = 0]
  /\ UNCHANGED <<generation, failures, moment, issued, guesses>>
Answer(c) ==
  /\ admitted[c] # 0 /\ admitted' = [admitted EXCEPT ![c] = 0]
  /\ UNCHANGED <<generation, sessions, failures, moment, cookie, issued, guesses>>

(***************************************************************************)
(* update_administrator: the session is looked up again under the lock.    *)
(***************************************************************************)
\* The file is replaced, or the write fails before or after its rename.
\* Mutant: the other sessions stay signed in.
ReplacedQuietly(c) ==
  /\ generation' = generation + 1
  /\ failures' = NoFailures /\ guesses' = NoGuesses
  /\ NewSession(c, Live, generation + 1)
Replaced(c) ==
  /\ generation' = generation + 1
  /\ failures' = NoFailures /\ guesses' = NoGuesses
  /\ NewSession(c, {}, generation + 1)
Uncertain ==
  /\ generation' \in {generation, generation + 1}
  /\ sessions' = {} /\ failures' = Pruned
  /\ UNCHANGED <<cookie, issued, guesses>>

UpdateAdministrator(c, address) ==
  /\ admitted[c] # 0
  /\ \/ /\ Valid(admitted[c]) /\ ~Throttled(address)
        /\ \/ Wrong(address) /\ UNCHANGED <<generation, sessions, cookie, issued>>
           \/ Replaced(c)
           \/ Uncertain
     \/ /\ ~Valid(admitted[c])         \* 401
        /\ sessions' = {s \in sessions : s.token # admitted[c]}
        /\ UNCHANGED <<generation, failures, cookie, issued, guesses>>
  /\ admitted' = [admitted EXCEPT ![c] = 0]
  /\ UNCHANGED moment

Tick ==
  /\ moment < MaxTime /\ moment' = moment + 1
  /\ UNCHANGED <<generation, sessions, failures, cookie, admitted, issued, guesses>>

\* The service restarts: sessions and failures live in memory only.
SessionsRestart ==
  /\ issued < MaxTokens /\ issued' = issued + 1
  /\ sessions' = {} /\ failures' = NoFailures /\ guesses' = NoGuesses
  /\ admitted' = [c \in Clients |-> 0]
  /\ UNCHANGED <<generation, moment, cookie>>

SessionsNext ==
  \/ Setup \/ Tick \/ SessionsRestart
  \/ \E c \in Clients : Admitted(c) \/ Logout(c) \/ Answer(c)
  \/ \E c \in Clients, a \in Addresses : Login(c, a) \/ UpdateAdministrator(c, a)

SessionsSpec == SessionsInit /\ [][SessionsNext]_sessionsVars

(***************************************************************************)
(* Properties.                                                             *)
(***************************************************************************)

\* Every variable has its type; the table never holds more than its capacity.
SessionsTypeOK ==
  /\ {generation, moment, issued} \subseteq Nat
  /\ \A s \in sessions : s.token \in 1..issued /\ s.deadline \in 1..(moment + Lifetime)
  /\ Cardinality(sessions) <= Capacity
  /\ \A a \in Addresses : Cardinality(failures[a]) <= Attempts
  /\ \A c \in Clients : {cookie[c], admitted[c]} \subseteq 0..issued

\* No session outlives the credentials it was opened with: however requests of
\* several browsers interleave with a change of the administrator, and also
\* when the save of the new one fails half way, a token that still opens the
\* panel was issued for what accounts.json now holds.
SessionsFollowCredentials == \A s \in sessions : s.generation = generation

\* An address gives no more than Attempts wrong passwords within any Window
\* before one is right, through the login and the account page together.
GuessesAreBounded ==
  \A a \in Addresses :
    \A i \in 1..Len(guesses[a]) :
      i > Attempts => guesses[a][i] - guesses[a][i - Attempts] >= Window
=============================================================================
