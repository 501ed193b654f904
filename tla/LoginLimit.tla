----------------------------- MODULE LoginLimit -----------------------------
(***************************************************************************)
(* The lock-out of server/api/ratelimit.py, as login of                    *)
(* server/api/auth_routes.py uses it.  login looks at the limiter, awaits  *)
(* the database for the user's row, checks the password, and tells the     *)
(* limiter: requests of one client overlap between the look and the report. *)
(*                                                                         *)
(* A Key is a client address with a user name.  Time is counted in ticks,  *)
(* Second of them to a second, because check_allowed cuts fractions off.   *)
(* The code compares only differences of times, which is what is kept: the *)
(* age of the last failure, and what is left of the lock.  A missing entry *)
(* is Fresh, for it is treated as an entry whose window has passed.        *)
(***************************************************************************)
EXTENDS Integers, FiniteSets

CONSTANTS
    Key,
    Attempt,                \* slots for login requests
    KeyOf,                  \* the client and user of each
    Second,                 \* ticks per second
    MAX_FAILURES,           \* the constants of ratelimit.py, times in ticks
    BASE_LOCK_SECONDS,
    MAX_LOCK_SECONDS,
    FAILURE_WINDOW_SECONDS,
    MaxFlight,              \* bound on the time a login takes
    MaxFaults               \* bound on restarts of the server

ASSUME KeyAssumption == KeyOf \in [Attempt -> Key]
ASSUME LimitsAssumption ==
    /\ Second \in Nat \ {0, 1} /\ MAX_FAILURES \in Nat \ {0}
    /\ BASE_LOCK_SECONDS \in Nat /\ MAX_LOCK_SECONDS \in Nat
    /\ BASE_LOCK_SECONDS <= MAX_LOCK_SECONDS
    /\ FAILURE_WINDOW_SECONDS \in Nat
    /\ MaxFlight \in Nat /\ MaxFaults \in Nat
\* A login ends before the failures it overlapped with are forgotten (the
\* database gives up on a lock long before; the window is 15 minutes).
ASSUME FlightAssumption == MaxFlight <= FAILURE_WINDOW_SECONDS

VARIABLES
    entry,      \* _state of each key
    pc,         \* where each login is
    flight,     \* how long each has been under way
    faults      \* restarts so far

vars == <<entry, pc, flight, faults>>

Expired == FAILURE_WINDOW_SECONDS + 1

Entry == [count : Nat, level : Nat, age : 0..Expired, left : Nat]

TypeOK ==
    /\ entry \in [Key -> Entry]
    /\ \A k \in Key : entry[k].count < MAX_FAILURES
    /\ pc \in [Attempt -> {"idle", "verifying"}]
    /\ flight \in [Attempt -> 0..MaxFlight]
    /\ faults \in 0..MaxFaults

Fresh == [count |-> 0, level |-> 0, age |-> Expired, left |-> 0]

Init ==
    /\ entry = [k \in Key |-> Fresh]
    /\ pc = [a \in Attempt |-> "idle"]
    /\ flight = [a \in Attempt |-> 0]
    /\ faults = 0

-----------------------------------------------------------------------------
(* ratelimit.py.                                                           *)

\* Mutant: a key counts as locked since it has been locked once.
Locked_Once(k) == entry[k].level > 0

\* check_allowed returns whole seconds, and 0 stands for "not locked": the
\* last fraction of a lock is not part of it.
Locked(k) == entry[k].left >= Second

Least(m, n) == IF m <= n THEN m ELSE n

LockTime(level) ==
    Least(BASE_LOCK_SECONDS * 2^(level - 1), MAX_LOCK_SECONDS)

\* Mutant: only the count is forgotten with the window.
Current_KeepLevel(e) ==
    IF e.age > FAILURE_WINDOW_SECONDS THEN [e EXCEPT !.count = 0] ELSE e

\* Failures older than the window are forgotten, and with them the level.
Current(e) == IF e.age > FAILURE_WINDOW_SECONDS THEN Fresh ELSE e

\* Mutant: the count is not started again with the lock.
AfterFailure_CountOn(e) ==
    LET c == Current(e)
    IN  IF c.count + 1 >= MAX_FAILURES
        THEN [count |-> c.count + 1, level |-> c.level + 1, age |-> 0,
              left |-> LockTime(c.level + 1)]
        ELSE [c EXCEPT !.count = c.count + 1, !.age = 0]

\* record_failure.
AfterFailure(e) ==
    LET c == Current(e)
    IN  IF c.count + 1 >= MAX_FAILURES
        THEN [count |-> 0, level |-> c.level + 1, age |-> 0,
              left |-> LockTime(c.level + 1)]
        ELSE [c EXCEPT !.count = c.count + 1, !.age = 0]

-----------------------------------------------------------------------------
(* login.                                                                  *)

\* Mutant: the limiter is not asked.
Begin_Unchecked(a) ==
    /\ pc[a] = "idle"
    /\ pc' = [pc EXCEPT ![a] = "verifying"]
    /\ flight' = [flight EXCEPT ![a] = 0]
    /\ UNCHANGED <<entry, faults>>

\* From the look at the limiter to the await of the user's row.  A request
\* that finds the key locked is answered 429 and changes nothing.
Begin(a) ==
    /\ pc[a] = "idle"
    /\ ~Locked(KeyOf[a])
    /\ pc' = [pc EXCEPT ![a] = "verifying"]
    /\ flight' = [flight EXCEPT ![a] = 0]
    /\ UNCHANGED <<entry, faults>>

End(a) ==
    /\ pc[a] = "verifying"
    /\ pc' = [pc EXCEPT ![a] = "idle"]
    /\ flight' = [flight EXCEPT ![a] = 0]
    /\ UNCHANGED faults

\* No such user, or the wrong password.
Fail(a) ==
    /\ End(a)
    /\ entry' = [entry EXCEPT ![KeyOf[a]] = AfterFailure(@)]

\* record_success drops the entry, whatever it says by now.
Succeed(a) ==
    /\ End(a)
    /\ entry' = [entry EXCEPT ![KeyOf[a]] = Fresh]

\* The database raises: the request ends with 500 and counts for nothing.
Abort(a) ==
    /\ End(a)
    /\ UNCHANGED entry

-----------------------------------------------------------------------------

Older(e) == [e EXCEPT !.age = Least(@ + 1, Expired),
                      !.left = IF @ = 0 THEN 0 ELSE @ - 1]

Tick ==
    /\ \A a \in Attempt : pc[a] = "verifying" => flight[a] < MaxFlight
    /\ entry' = [k \in Key |-> Older(entry[k])]
    /\ flight' = [a \in Attempt |-> IF pc[a] = "verifying" THEN flight[a] + 1 ELSE 0]
    /\ UNCHANGED <<pc, faults>>

\* The limiter lives in the memory of the one server process.
Restart ==
    /\ faults < MaxFaults
    /\ faults' = faults + 1
    /\ entry' = [k \in Key |-> Fresh]
    /\ pc' = [a \in Attempt |-> "idle"]
    /\ flight' = [a \in Attempt |-> 0]

Next ==
    \/ \E a \in Attempt : Begin(a) \/ Fail(a) \/ Succeed(a) \/ Abort(a)
    \/ Tick \/ Restart

Safety == Init /\ [][Next]_vars

\* Time passes, and with it every login under way comes to its end.
Fairness ==
    /\ WF_vars(Tick)
    /\ \A a \in Attempt : WF_vars(Fail(a) \/ Succeed(a) \/ Abort(a))

Spec == Safety /\ Fairness

-----------------------------------------------------------------------------
(* Properties.                                                             *)

Slots(k) == {a \in Attempt : KeyOf[a] = k}

\* What LongestLock needs: the logins of a key that run at once end so soon that
\* a lock of level 3 outlasts the window of every failure they report (300 * 4
\* seconds against 900).
ASSUME SlotsAssumption == \A k \in Key : IsFiniteSet(Slots(k))
ASSUME WindowAssumption ==
    FAILURE_WINDOW_SECONDS + MaxFlight + Second <= LockTime(3)

\* A lock that has more than its last second to go is never cut short by
\* failures: neither the reports of logins that passed the check before it,
\* nor a window that ends during it, nor the lock of a lower level that a
\* reset would give.  Only time, a login that succeeds, admitted before the
\* lock, and a restart take it away.
LockStands ==
    [][\A k \in Key :
        (/\ Locked(k)
         /\ ~\E a \in Attempt : KeyOf[a] = k /\ Succeed(a)
         /\ ~Restart)
            => entry'[k].left >= entry[k].left - 1]_vars

\* The highest level that a burst of logins brings: the failures of those that
\* were admitted together with the one that brought level 3 are still counted
\* while that lock stands.
TopLevel(k) == 3 + (Cardinality(Slots(k)) - 1) \div MAX_FAILURES

\* The longest lock there is.  A lock of level 3 outlasts the window, so that
\* the failure after it starts again from level 1, however long the client goes
\* on; the level rises further only within the burst that brought level 3, once
\* for every MAX_FAILURES logins of it.
LongestLock ==
    \A k \in Key : entry[k].left <= LockTime(TopLevel(k))

\* A key is not locked for ever, however often the client goes on trying: the
\* refused attempts do not prolong the lock.
LockEnds ==
    \A k \in Key : Locked(k) ~> ~Locked(k)
=============================================================================
