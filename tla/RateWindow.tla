----------------------------- MODULE RateWindow -----------------------------
(***************************************************************************)
(* The budgets of one assistant channel (assistant/store.go Take): each    *)
(* question counts in a minute of its user and in a day of the channel.    *)
(* A transaction knows the time from its begin, then waits for the         *)
(* channel's lock, under which it counts in both windows or, when either   *)
(* is used up, rolls back; so a window may be counted in after it is over. *)
(***************************************************************************)
EXTENDS Integers, FiniteSets

CONSTANTS
  Questions,    \* slots for questions in progress
  Askers,       \* who asks
  Minute, Day,  \* the lengths of the windows, in ticks
  PerMinute,    \* budget of a user in a minute
  PerDay,       \* budget of the channel in a day
  MaxTime,      \* bound of the clock
  NoAsker       \* no user

ASSUME RateAssumption ==
  /\ Minute \in Nat \ {0} /\ Day \in Nat \ {0} /\ MaxTime \in Nat
  /\ PerMinute \in Nat /\ PerDay \in Nat
  /\ NoAsker \notin Askers

VARIABLES
  now,          \* the database's clock
  used,         \* assistant_rate_windows, counts by user and minute, and by day
  take,         \* take[r]: the transaction of r, if it has begun
  asked         \* history: the questions let through, each the number-th of its day

rateVars == <<now, used, take, asked>>

Times == 0..MaxTime
Minutes == {t \div Minute : t \in Times}
Days == {t \div Day : t \in Times}
NoTake == [user |-> NoAsker, at |-> 0]

RateTypeOK ==
  /\ now \in Times
  /\ used \in [minute : [Askers \X Minutes -> 0..PerMinute], day : [Days -> 0..PerDay]]
  /\ take \in [Questions -> [user : Askers \cup {NoAsker}, at : Times]]
  /\ asked \subseteq [user : Askers, at : Times, number : 1..PerDay]

RateInit ==
  /\ now = 0
  /\ used = [minute |-> [b \in Askers \X Minutes |-> 0], day |-> [d \in Days |-> 0]]
  /\ take = [r \in Questions |-> NoTake]
  /\ asked = {}
---------------------------------------------------------------------------
Open(r) == take[r].user # NoAsker

\* No transaction is open for the day after which its windows are deleted.
Tick ==
  /\ now < MaxTime
  /\ \A r \in Questions : Open(r) => now < take[r].at + Day
  /\ now' = now + 1
  /\ UNCHANGED <<used, take, asked>>

\* now() is the time of the begin, before the wait for the lock.
Begin(r, u) ==
  /\ ~Open(r)
  /\ take' = [take EXCEPT ![r] = [user |-> u, at |-> now]]
  /\ UNCHANGED <<now, used, asked>>

\* The windows r counts in, with what they come to.
MinuteOf(r) == <<take[r].user, take[r].at \div Minute>>
DayOf(r) == take[r].at \div Day
NumberInMinute(r) == used.minute[MinuteOf(r)] + 1
NumberInDay(r) == used.day[DayOf(r)] + 1

Over(r) == NumberInMinute(r) > PerMinute \/ NumberInDay(r) > PerDay

\* A slip: the windows of yesterday go as soon as today begins.
ExpiredAtMidnight(end, time) == end < time

\* Windows that ended more than a day ago are deleted.
Expired(end, time) == end < time - Day

Swept(minute, day, time) ==
  [minute |-> [b \in Askers \X Minutes |->
                 IF Expired((b[2] + 1) * Minute, time) THEN 0 ELSE minute[b]],
   day |-> [d \in Days |-> IF Expired((d + 1) * Day, time) THEN 0 ELSE day[d]]]

\* Refused, or broken off: rolled back.
Refuse(r) ==
  /\ Open(r)
  /\ take' = [take EXCEPT ![r] = NoTake]
  /\ UNCHANGED <<now, used, asked>>

Count(r) ==
  /\ Open(r)
  /\ ~Over(r)
  /\ used' = Swept([used.minute EXCEPT ![MinuteOf(r)] = NumberInMinute(r)],
                   [used.day EXCEPT ![DayOf(r)] = NumberInDay(r)], take[r].at)
  /\ asked' = asked \cup
       {[user |-> take[r].user, at |-> take[r].at, number |-> NumberInDay(r)]}
  /\ take' = [take EXCEPT ![r] = NoTake]
  /\ UNCHANGED now

RateNext ==
  \/ Tick
  \/ \E r \in Questions : (\E u \in Askers : Begin(r, u)) \/ Refuse(r) \/ Count(r)

RateSpec == RateInit /\ [][RateNext]_rateVars
---------------------------------------------------------------------------
OfMinute(b) == {q \in asked : <<q.user, q.at \div Minute>> = b}
OfDay(d) == {q \in asked : q.at \div Day = d}

\* No window lets more questions through than its budget, though late ones are
\* counted after its end and old windows are deleted meanwhile (Take).
WithinBudgets ==
  /\ \A b \in Askers \X Minutes : Cardinality(OfMinute(b)) <= PerMinute
  /\ \A d \in Days : Cardinality(OfDay(d)) <= PerDay

\* A window that a question may still be counted in has counted exactly the
\* questions that went through: nobody pays for what was refused.
CountsAreQuestions ==
  /\ \A b \in Askers \X Minutes :
       used.minute[b] = Cardinality(OfMinute(b)) \/ Expired((b[2] + 1) * Minute, now)
  /\ \A d \in Days :
       used.day[d] = Cardinality(OfDay(d)) \/ Expired((d + 1) * Day, now)

\* A channel's users get their budgets, no more and no less.
BudgetsAreKept == WithinBudgets /\ CountsAreQuestions
---------------------------------------------------------------------------
\* A transaction's windows are there for as long as it is open.
TakesAreRecent ==
  \A r \in Questions : Open(r) => take[r].at <= now /\ now <= take[r].at + Day

\* The questions of a day are numbered, so that each is a question of its own.
NumbersAreCounts ==
  /\ \A d \in Days, q \in asked :
       q.at \div Day = d => q.number <= used.day[d] \/ Expired((d + 1) * Day, now)
  /\ \A b \in Askers \X Minutes : IsFiniteSet(OfMinute(b))
  /\ \A d \in Days : IsFiniteSet(OfDay(d))

\* The inductive invariant.
RateInv == RateTypeOK /\ TakesAreRecent /\ NumbersAreCounts /\ BudgetsAreKept
=============================================================================
