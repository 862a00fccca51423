---------------------------- MODULE QuotaManager ----------------------------
(***************************************************************************)
(* The Gemini quota of one model: check_and_reserve as many callers run it *)
(* at once, over the table of window rows in PostgreSQL, and the job that  *)
(* removes old rows.                                                       *)
(*                                                                         *)
(* A reservation is one transaction of three statements, each an action of *)
(* its own: make the rows, lock and read them, charge them and commit.     *)
(* Time is counted in minutes.  Rows inserted are seen at once; as they    *)
(* hold no count, nobody can tell that from seeing them at the commit.     *)
(***************************************************************************)
EXTENDS Integers

CONSTANTS
  Caller,           \* the calls of check_and_reserve
  RpmCap,           \* GEMINI_RPM_CAP
  DailyCapEnabled,  \* GEMINI_DAILY_CAP_ENABLED
  RpdCap,           \* GEMINI_RPD_CAP
  MaxTries,         \* the loop's range(120)
  MinutesPerDay,
  CleanupAge,       \* minutes until a minute row is removed, 120 in the code
  Stall,            \* minutes a reservation may be under way (command_timeout)
  FreeMinutes,      \* bound: minutes that pass while nobody waits for one
  LastMinute,       \* bound: the last minute of the clock
  MaxFaults,        \* bound: statements that raise
  Free              \* no caller

ASSUME CallerAssumption == Free \notin Caller
ASSUME CapAssumption ==
  /\ RpmCap \in Nat /\ RpdCap \in Nat /\ DailyCapEnabled \in BOOLEAN
  /\ MaxTries \in Nat
ASSUME TimeAssumption ==
  /\ MinutesPerDay \in Nat \ {0}
  /\ Stall \in Nat /\ CleanupAge \in Nat /\ Stall <= CleanupAge
  /\ FreeMinutes \in Nat /\ LastMinute \in Nat /\ MaxFaults \in Nat

Minute == 0 .. LastMinute

\* The rows a call is charged to; the daily key is a date.
MinuteRow(m) == <<"minute", m>>
DailyRow(m)  == <<"daily", m \div MinutesPerDay>>
WindowsOf(m) == {MinuteRow(m), DailyRow(m)}
Window       == UNION {WindowsOf(m) : m \in Minute}

VARIABLES
  clock,
  rows,     \* the rows of gemini_quota
  count,    \* request_count, 0 where there is no row
  lock,     \* who holds the lock of a row
  pc,       \* where a caller is
  key,      \* the minute its keys were made in
  seen,     \* the counts it read, daily and minute
  tries,    \* iterations of its loop that were turned away
  granted,  \* history: the calls admitted in each window
  faults

table  == <<rows, count, lock>>
caller == <<pc, key, seen, tries>>
qvars  == <<clock, table, caller, granted, faults>>

InFlight == {"insert", "lock", "locked"}
Ended    == {"granted", "refused", "raised"}
QuotaPc  == {"idle", "start", "wait"} \cup InFlight \cup Ended

NothingSeen == [daily |-> 0, minute |-> 0]

QInit ==
  /\ clock = 0
  /\ rows = {}
  /\ count = [w \in Window |-> 0]
  /\ lock = [w \in Window |-> Free]
  /\ pc = [c \in Caller |-> "idle"]
  /\ key = [c \in Caller |-> 0]
  /\ seen = [c \in Caller |-> NothingSeen]
  /\ tries = [c \in Caller |-> 0]
  /\ granted = [w \in Window |-> 0]
  /\ faults = 0

-----------------------------------------------------------------------------
Move(c, to) == pc' = [pc EXCEPT ![c] = to]

\* The call returns or raises, and its locals are gone.
Finish(c, outcome) ==
  /\ Move(c, outcome)
  /\ key' = [key EXCEPT ![c] = 0]
  /\ seen' = [seen EXCEPT ![c] = NothingSeen]
  /\ tries' = [tries EXCEPT ![c] = 0]

\* Mutant: the locks outlive the transaction.
MutReleased(c) == lock

Released(c) == [w \in Window |-> IF lock[w] = c THEN Free ELSE lock[w]]

\* The code calls check_and_reserve.
CheckAndReserve(c) ==
  /\ pc[c] = "idle"
  /\ Move(c, "start")
  /\ UNCHANGED <<clock, table, key, seen, tries, granted, faults>>

\* The next round of the loop makes its keys; after the last one it gives up.
WindowKeys(c) ==
  /\ pc[c] = "start"
  /\ IF tries[c] < MaxTries
     THEN key' = [key EXCEPT ![c] = clock] /\ Move(c, "insert") /\ UNCHANGED <<seen, tries>>
     ELSE Finish(c, "refused")
  /\ UNCHANGED <<clock, table, granted, faults>>

\* Mutant: an upsert that sets the count.
MutEnsured(S) == rows' = rows \cup S /\ count' = [w \in Window |-> IF w \in S THEN 0 ELSE count[w]]

Ensured(S) == rows' = rows \cup S /\ UNCHANGED count

EnsureRows(c) ==
  /\ pc[c] = "insert"
  /\ Ensured(WindowsOf(key[c]))
  /\ Move(c, "lock")
  /\ UNCHANGED <<clock, lock, key, seen, tries, granted, faults>>

\* Mutant: SELECT without FOR UPDATE.
MutMayLock(c) == TRUE

MayLock(c) == \A w \in WindowsOf(key[c]) : lock[w] = Free

LockAndRead(c) ==
  LET m == key[c] IN
  /\ pc[c] = "lock"
  /\ MayLock(c)
  /\ lock' = [w \in Window |-> IF w \in WindowsOf(m) THEN c ELSE lock[w]]
  /\ seen' = [seen EXCEPT ![c] = [daily |-> count[DailyRow(m)], minute |-> count[MinuteRow(m)]]]
  /\ Move(c, "locked")
  /\ UNCHANGED <<clock, rows, count, key, tries, granted, faults>>

DailyExceeded(c) == DailyCapEnabled /\ seen[c].daily >= RpdCap
MinuteExceeded(c) == seen[c].minute >= RpmCap

Increment(c) ==
  count' = [w \in Window |-> IF w \in WindowsOf(key[c]) \cap rows THEN count[w] + 1 ELSE count[w]]

Reserve(c) ==
  /\ pc[c] = "locked" /\ ~DailyExceeded(c) /\ ~MinuteExceeded(c)
  /\ Increment(c)
  /\ granted' = [w \in Window |-> IF w \in WindowsOf(key[c]) THEN granted[w] + 1 ELSE granted[w]]
  /\ lock' = Released(c)
  /\ Finish(c, "granted")
  /\ UNCHANGED <<clock, rows, faults>>

\* Over a cap the caller is refused for the day, or sleeps into the minute
\* that follows the one it was turned away in.
TurnAway(c) ==
  /\ pc[c] = "locked" /\ (DailyExceeded(c) \/ MinuteExceeded(c))
  /\ lock' = Released(c)
  /\ IF DailyExceeded(c)
     THEN Finish(c, "refused")
     ELSE /\ Move(c, "wait")
          /\ key' = [key EXCEPT ![c] = clock]
          /\ seen' = [seen EXCEPT ![c] = NothingSeen]
          /\ UNCHANGED tries
  /\ UNCHANGED <<clock, rows, count, granted, faults>>

WakeUp(c) ==
  /\ pc[c] = "wait" /\ clock > key[c]
  /\ tries' = [tries EXCEPT ![c] = @ + 1]
  /\ Move(c, "start")
  /\ UNCHANGED <<clock, table, key, seen, granted, faults>>

\* A statement raises: the transaction is rolled back, or the connection was
\* lost after its commit.
StatementRaises(c) ==
  /\ pc[c] \in InFlight /\ faults < MaxFaults
  /\ faults' = faults + 1
  /\ \/ UNCHANGED count
     \/ pc[c] = "locked" /\ ~DailyExceeded(c) /\ ~MinuteExceeded(c) /\ Increment(c)
  /\ lock' = Released(c)
  /\ Finish(c, "raised")
  /\ UNCHANGED <<clock, rows, granted>>

-----------------------------------------------------------------------------
\* A minute row is written in its minute, or within Stall of it, so its key
\* says how old it is.
OldRows == {w \in rows : w[1] = "minute" /\ w[2] + CleanupAge < clock}

\* The DELETE waits for a locked row, and then finds it fresh.
CleanupOldWindows ==
  LET old == {w \in OldRows : lock[w] = Free} IN
  /\ old # {}
  /\ rows' = rows \ old
  /\ count' = [w \in Window |-> IF w \in old THEN 0 ELSE count[w]]
  /\ UNCHANGED <<clock, lock, caller, granted, faults>>

Tick ==
  /\ clock < LastMinute
  /\ clock < FreeMinutes \/ \E c \in Caller : pc[c] = "wait" /\ key[c] = clock
  /\ \A c \in Caller : pc[c] \in InFlight => clock < key[c] + Stall
  /\ clock' = clock + 1
  /\ UNCHANGED <<table, caller, granted, faults>>

ReserveStep(c) ==
  \/ WindowKeys(c) \/ EnsureRows(c) \/ LockAndRead(c)
  \/ Reserve(c) \/ TurnAway(c) \/ WakeUp(c)

QNext ==
  \/ \E c \in Caller : CheckAndReserve(c) \/ ReserveStep(c) \/ StatementRaises(c)
  \/ CleanupOldWindows \/ Tick

QSpec == QInit /\ [][QNext]_qvars

-----------------------------------------------------------------------------
QTypeOK ==
  /\ clock \in Minute
  /\ rows \subseteq Window
  /\ count \in [Window -> Nat]
  /\ lock \in [Window -> Caller \cup {Free}]
  /\ pc \in [Caller -> QuotaPc]
  /\ key \in [Caller -> Minute]
  /\ seen \in [Caller -> [daily : Nat, minute : Nat]]
  /\ tries \in [Caller -> Nat]
  /\ granted \in [Window -> Nat]
  /\ faults \in Nat

\* The callers together are a rate limiter: however their transactions
\* interleave, stall or fail, and whatever the cleanup removes, no window admits
\* more calls than its cap (_try_reserve locks the rows it reads and charges).
Limited == {MinuteRow(m) : m \in Minute}
             \cup (IF DailyCapEnabled THEN {DailyRow(m) : m \in Minute} ELSE {})
CapOf   == [w \in Window |-> IF w[1] = "minute" THEN RpmCap ELSE RpdCap]
Limiter == INSTANCE RateLimiter WITH
  Charges <- {WindowsOf(m) : m \in Minute},
  Cap     <- CapOf
LimitsRate == Limiter!Spec

\* The table never shows less than what was admitted, so the usage endpoint and
\* the next reservation never underrate a window.
CountsCoverGrants == \A w \in rows : granted[w] <= count[w]
=============================================================================
