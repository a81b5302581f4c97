---------------------------- MODULE LoginLimiter ----------------------------
(***************************************************************************)
(* The limit on administrator logins and refreshes (server/enterprise.go,  *)
(* registerEnterpriseRoutes): per remote address a window that starts with *)
(* its first attempt, in a table of bounded size that every attempt sweeps *)
(* and that a restart empties.  An attempt reads the time and then holds   *)
(* the mutex throughout; the wait between, a few sweeps long, is left out, *)
(* and so are restarts, which forget every window.                         *)
(***************************************************************************)
EXTENDS Integers, FiniteSets

CONSTANTS
  Remotes,     \* addresses
  Window,      \* one minute, in ticks
  Limit,       \* attempts in a window
  MaxEntries,  \* entries of the table
  MaxTime      \* bound of the clock

ASSUME LoginsAssumption ==
  Window \in Nat \ {0} /\ Limit \in Nat /\ MaxEntries \in Nat /\ MaxTime \in Nat

VARIABLES
  now,         \* the clock
  attempts,    \* attempts[x]: count and end of the window, count 0 without an entry
  passed       \* history: the attempts let through, each the number-th of a window

loginVars == <<now, attempts, passed>>

Times == 0..MaxTime
Ends == 0..(MaxTime + Window)
NoEntry == [count |-> 0, until |-> 0]

LoginsTypeOK ==
  /\ now \in Times
  /\ attempts \in [Remotes -> [count : 0..Limit, until : Ends]]
  /\ passed \subseteq [remote : Remotes, until : Ends, number : 1..Limit, time : Times]

LoginsInit ==
  /\ now = 0
  /\ attempts = [x \in Remotes |-> NoEntry]
  /\ passed = {}
---------------------------------------------------------------------------
Tick ==
  /\ now < MaxTime
  /\ now' = now + 1
  /\ UNCHANGED <<attempts, passed>>

\* The table without the windows that are over.
Swept == [x \in Remotes |-> IF now < attempts[x].until THEN attempts[x] ELSE NoEntry]
Entries(table) == {x \in Remotes : table[x].count > 0}

Limited(table, x) ==
  \/ table[x].count >= Limit
  \/ x \notin Entries(table) /\ Cardinality(Entries(table)) >= MaxEntries

\* A slip: the window ends before the minute is over.
UntilShort(entry) == IF entry.count = 0 THEN now + 1 ELSE entry.until

\* A new entry's window ends a minute after its first attempt.
Until(entry) == IF entry.count = 0 THEN now + Window ELSE entry.until

Attempt(x) ==
  LET number == Swept[x].count + 1  until == Until(Swept[x]) IN
  /\ IF Limited(Swept, x)
       THEN attempts' = Swept /\ UNCHANGED passed
       ELSE /\ attempts' = [Swept EXCEPT ![x] = [count |-> number, until |-> until]]
            /\ passed' = passed \cup
                 {[remote |-> x, until |-> until, number |-> number, time |-> now]}
  /\ UNCHANGED now

LoginsNext == Tick \/ \E x \in Remotes : Attempt(x)

LoginsSpec == LoginsInit /\ [][LoginsNext]_loginVars
---------------------------------------------------------------------------
\* What remote x got through in the minute that starts at `from`.
Burst(x, from) == {p \in passed : p.remote = x /\ p.time \in from..from + Window - 1}

\* As its windows do not slide, a remote gets more than its limit through in
\* some minutes, but never twice the limit.
BurstBelowTwice ==
  Limit > 0 => \A x \in Remotes, from \in Times : Cardinality(Burst(x, from)) < 2 * Limit

\* The table never outgrows its bound, whatever addresses come.
TableBounded == Cardinality(Entries(attempts)) <= MaxEntries

\* Guessing a password is slow and costs the gateway no more than its table.
LoginsAreLimited == BurstBelowTwice /\ TableBounded
---------------------------------------------------------------------------
\* An attempt in its window: the first one starts it.
InWindow(p) ==
  /\ p.time <= now /\ p.until - Window <= p.time /\ p.time < p.until
  /\ p.number = 1 => p.time = p.until - Window

\* Windows of one remote are apart, and number their attempts.
Apart(p, q) ==
  p.remote = q.remote =>
    /\ p.until < q.until => p.until <= q.until - Window
    /\ p.until = q.until /\ p.number = q.number => p = q

\* The table has the last window of each remote, as long as it is not over.
LastWindow(p) ==
  LET entry == attempts[p.remote] IN
  IF entry.count = 0 THEN p.until <= now
  ELSE \/ p.until = entry.until /\ p.number <= entry.count
       \/ p.until <= entry.until - Window

\* The inductive invariant.
LoginsInv ==
  /\ LoginsTypeOK
  /\ \A p \in passed : InWindow(p) /\ LastWindow(p)
  /\ \A p, q \in passed : Apart(p, q)
  /\ \A x \in Entries(attempts) : attempts[x].until <= now + Window
  /\ IsFiniteSet(Entries(attempts)) /\ TableBounded
=============================================================================
