------------------------- MODULE GeminiExtract_proofs -------------------------
(***************************************************************************)
(* Proofs about the quota and the extractions that reserve from it, for    *)
(* any callers, caps, times and limits. Of QuotaManager alone: its types,  *)
(* that the table never understates what was admitted, and that the        *)
(* callers together are a RateLimiter. Of GeminiExtract: that the last     *)
(* also holds under extractions, its types, and the bound on the calls of  *)
(* a page.                                                                 *)
(***************************************************************************)
EXTENDS GeminiExtract, TLAPS

-----------------------------------------------------------------------------
(* The rows: what tells them apart, with the day's number left opaque.     *)

LEMMA RowFacts ==
  ASSUME NEW m \in Minute
  PROVE  /\ WindowsOf(m) = {MinuteRow(m), DailyRow(m)}
         /\ WindowsOf(m) \subseteq Window
         /\ MinuteRow(m)[1] = "minute" /\ MinuteRow(m)[2] = m
         /\ DailyRow(m)[1] = "daily"
  BY DEF WindowsOf, Window, MinuteRow, DailyRow

LEMMA FinishType ==
  ASSUME NEW c \in Caller, NEW to \in QuotaPc, QTypeOK, Finish(c, to)
  PROVE  /\ pc' \in [Caller -> QuotaPc] /\ key' \in [Caller -> Minute]
         /\ seen' \in [Caller -> [daily : Nat, minute : Nat]]
         /\ tries' \in [Caller -> Nat]
<1>1. 0 \in Minute /\ NothingSeen \in [daily : Nat, minute : Nat]
  BY TimeAssumption DEF Minute, NothingSeen
<1> QED
  BY <1>1 DEF Finish, Move, QTypeOK

LEMMA ReleasedType ==
  ASSUME NEW c \in Caller, QTypeOK, lock' = Released(c)
  PROVE  lock' \in [Window -> Caller \cup {Free}]
  BY DEF Released, QTypeOK

LEMMA IncrementType ==
  ASSUME NEW c \in Caller, QTypeOK, Increment(c)
  PROVE  count' \in [Window -> Nat]
  BY DEF Increment, QTypeOK

LEMMA InitTypes == QInit => QTypeOK
<1>1. 0 \in Minute /\ NothingSeen \in [daily : Nat, minute : Nat]
  BY TimeAssumption DEF Minute, NothingSeen
<1> QED
  BY <1>1 DEF QInit, QTypeOK, QuotaPc

LEMMA NextTypes == QTypeOK /\ [QNext]_qvars => QTypeOK'
<1> SUFFICES ASSUME QTypeOK, [QNext]_qvars PROVE QTypeOK'
  OBVIOUS
<1>pc. {"start", "insert", "lock", "locked", "wait", "granted", "refused", "raised"} \subseteq QuotaPc
  BY DEF QuotaPc, InFlight, Ended
<1>1. CASE UNCHANGED qvars
  BY <1>1 DEF qvars, table, caller, QTypeOK
<1>2. ASSUME NEW c \in Caller, CheckAndReserve(c) PROVE QTypeOK'
  BY <1>2, <1>pc DEF CheckAndReserve, Move, table, QTypeOK
<1>3. ASSUME NEW c \in Caller, WindowKeys(c) PROVE QTypeOK'
  BY <1>3, <1>pc, FinishType DEF WindowKeys, Move, table, QTypeOK
<1>4. ASSUME NEW c \in Caller, EnsureRows(c) PROVE QTypeOK'
  BY <1>4, <1>pc, RowFacts DEF EnsureRows, Ensured, Move, QTypeOK
<1>5. ASSUME NEW c \in Caller, LockAndRead(c) PROVE QTypeOK'
  <2>1. DailyRow(key[c]) \in Window /\ MinuteRow(key[c]) \in Window
    BY RowFacts DEF QTypeOK
  <2>2. [daily |-> count[DailyRow(key[c])], minute |-> count[MinuteRow(key[c])]]
          \in [daily : Nat, minute : Nat]
    BY <2>1 DEF QTypeOK
  <2> QED
    BY <1>5, <1>pc, <2>2 DEF LockAndRead, Move, QTypeOK
<1>6. ASSUME NEW c \in Caller, Reserve(c) PROVE QTypeOK'
  <2>1. granted' \in [Window -> Nat]
    BY <1>6 DEF Reserve, QTypeOK
  <2> QED
    BY <1>6, <1>pc, <2>1, FinishType, ReleasedType, IncrementType DEF Reserve, QTypeOK
<1>7. ASSUME NEW c \in Caller, TurnAway(c) PROVE QTypeOK'
  <2>1. NothingSeen \in [daily : Nat, minute : Nat]
    BY DEF NothingSeen
  <2> QED
    BY <1>7, <1>pc, <2>1, FinishType, ReleasedType DEF TurnAway, Move, QTypeOK
<1>8. ASSUME NEW c \in Caller, WakeUp(c) PROVE QTypeOK'
  BY <1>8, <1>pc DEF WakeUp, Move, table, QTypeOK
<1>9. ASSUME NEW c \in Caller, StatementRaises(c) PROVE QTypeOK'
  BY <1>9, <1>pc, FinishType, ReleasedType, IncrementType DEF StatementRaises, QTypeOK
<1>10. CASE CleanupOldWindows
  BY <1>10 DEF CleanupOldWindows, caller, QTypeOK
<1>11. CASE Tick
  BY <1>11, TimeAssumption DEF Tick, Minute, table, caller, QTypeOK
<1> QED
  BY <1>1, <1>2, <1>3, <1>4, <1>5, <1>6, <1>7, <1>8, <1>9, <1>10, <1>11
     DEF QNext, ReserveStep

\* The types hold in every reachable state of the quota.
THEOREM QuotaTypes == QSpec => []QTypeOK
  BY InitTypes, NextTypes, PTL DEF QSpec

-----------------------------------------------------------------------------
(* The inductive invariant.  A lock is held exactly by the caller that has *)
(* read its row, which makes what that caller read still true; a row is    *)
(* removed only when its minute is too old for any reservation under way,  *)
(* so no admission is forgotten while it still matters.                    *)

LocksHeld == \A w \in Window : lock[w] # Free =>
  pc[lock[w]] = "locked" /\ w \in WindowsOf(key[lock[w]])

ReadsFresh == \A c \in Caller : pc[c] = "locked" =>
  /\ \A w \in WindowsOf(key[c]) : lock[w] = c /\ w \in rows
  /\ seen[c].daily = count[DailyRow(key[c])]
  /\ seen[c].minute = count[MinuteRow(key[c])]

RowsMade == \A c \in Caller : pc[c] = "lock" => WindowsOf(key[c]) \subseteq rows

NotStalled == \A c \in Caller : pc[c] \in InFlight => clock <= key[c] + Stall

GoneIsOld == \A w \in Window \ rows :
  granted[w] > 0 => w[1] = "minute" /\ w[2] + CleanupAge < clock

QInv ==
  /\ QTypeOK /\ LocksHeld /\ ReadsFresh /\ RowsMade
  /\ NotStalled /\ GoneIsOld /\ CountsCoverGrants

LEMMA WindowFact ==
  ASSUME NEW m \in Minute, NEW w \in WindowsOf(m)
  PROVE  /\ w \in Window
         /\ w = MinuteRow(m) \/ w = DailyRow(m)
         /\ w[1] = "minute" => w[2] = m
BY RowFacts

LEMMA InitInv == QInit => QInv
<1> SUFFICES ASSUME QInit PROVE QInv
  OBVIOUS
<1>1. QTypeOK
  BY InitTypes
<1>2. LocksHeld
  BY DEF QInit, LocksHeld
<1>3. ReadsFresh /\ RowsMade /\ NotStalled
  BY DEF QInit, ReadsFresh, RowsMade, NotStalled, InFlight
<1>4. GoneIsOld /\ CountsCoverGrants
  BY DEF QInit, GoneIsOld, CountsCoverGrants
<1> QED
  BY <1>1, <1>2, <1>3, <1>4 DEF QInv

\* A caller that leaves its transaction gives back its locks and disturbs no
\* other's, whether or not it charged its rows.
LEMMA Leaving ==
  ASSUME NEW c \in Caller, NEW to \in {"wait", "granted", "refused", "raised"},
         NEW k, NEW s, QInv,
         Move(c, to), key' = [key EXCEPT ![c] = k], seen' = [seen EXCEPT ![c] = s],
         lock' = Released(c), UNCHANGED <<clock, rows>>,
         UNCHANGED count \/ (pc[c] = "locked" /\ Increment(c))
  PROVE  LocksHeld' /\ ReadsFresh' /\ RowsMade' /\ NotStalled'
<1>pc. /\ pc' = [pc EXCEPT ![c] = to] /\ to \notin InFlight
       /\ \A d \in Caller : d # c => pc'[d] = pc[d] /\ key'[d] = key[d] /\ seen'[d] = seen[d]
       /\ pc'[c] \notin InFlight
  BY DEF Move, QInv, QTypeOK, InFlight
<1>lock. \A w \in Window : lock'[w] = IF lock[w] = c THEN Free ELSE lock[w]
  BY DEF Released
<1>1. LocksHeld'
  <2> SUFFICES ASSUME NEW w \in Window, lock'[w] # Free
               PROVE  pc'[lock'[w]] = "locked" /\ w \in WindowsOf(key'[lock'[w]])
    BY DEF LocksHeld, WindowsOf, MinuteRow, DailyRow
  <2>1. lock'[w] = lock[w] /\ lock[w] # c /\ lock[w] \in Caller /\ lock[w] # Free
    BY <1>lock DEF QInv, QTypeOK
  <2> QED
    BY <1>pc, <2>1 DEF QInv, LocksHeld
<1>2. ReadsFresh'
  <2> SUFFICES ASSUME NEW d \in Caller, pc'[d] = "locked"
               PROVE  /\ \A w \in WindowsOf(key'[d]) : lock'[w] = d /\ w \in rows'
                      /\ seen'[d].daily = count'[DailyRow(key'[d])]
                      /\ seen'[d].minute = count'[MinuteRow(key'[d])]
    BY DEF ReadsFresh, WindowsOf, MinuteRow, DailyRow
  <2>1. d # c /\ pc[d] = "locked" /\ key'[d] = key[d] /\ seen'[d] = seen[d]
    BY <1>pc DEF InFlight
  <2>2. \A w \in WindowsOf(key[d]) : w \in Window /\ lock[w] = d /\ w \in rows
    BY <2>1, RowFacts DEF QInv, ReadsFresh, QTypeOK
  <2>3. \A w \in WindowsOf(key[d]) : count'[w] = count[w]
    <3>1. CASE UNCHANGED count
      BY <3>1
    <3>2. CASE pc[c] = "locked" /\ Increment(c)
      <4>1. \A w \in WindowsOf(key[c]) : lock[w] = c
        BY <3>2 DEF QInv, ReadsFresh
      <4> QED
        BY <2>1, <2>2, <3>2, <4>1 DEF Increment
    <3> QED
      BY <3>1, <3>2
  <2>4. DailyRow(key[d]) \in WindowsOf(key[d]) /\ MinuteRow(key[d]) \in WindowsOf(key[d])
    BY DEF WindowsOf
  <2> QED
    BY <1>lock, <2>1, <2>2, <2>3, <2>4 DEF QInv, ReadsFresh
<1>3. RowsMade'
  <2> SUFFICES ASSUME NEW d \in Caller, pc'[d] = "lock" PROVE WindowsOf(key'[d]) \subseteq rows'
    BY DEF RowsMade, WindowsOf, MinuteRow, DailyRow
  <2> QED
    BY <1>pc DEF QInv, RowsMade, InFlight
<1>4. NotStalled'
  <2> SUFFICES ASSUME NEW d \in Caller, pc'[d] \in InFlight PROVE clock' <= key'[d] + Stall
    BY DEF NotStalled, InFlight
  <2> QED
    BY <1>pc DEF QInv, NotStalled
<1> QED
  BY <1>1, <1>2, <1>3, <1>4

\* No lock was held on the rows of a caller that does not hold them, and the
\* step that only moves the caller's own pc disturbs nothing else.
LEMMA Moving ==
  ASSUME NEW c \in Caller, NEW to \in {"start", "insert"}, NEW k, QInv,
         pc[c] # "locked", Move(c, to), key' = [key EXCEPT ![c] = k],
         to = "insert" => k = clock,
         UNCHANGED <<clock, table, seen>>
  PROVE  LocksHeld' /\ ReadsFresh' /\ RowsMade' /\ NotStalled'
<1>pc. /\ pc'[c] = to
       /\ to = "insert" => key'[c] = clock
       /\ \A d \in Caller : d # c => pc'[d] = pc[d] /\ key'[d] = key[d]
  BY DEF Move, QInv, QTypeOK
<1>1. LocksHeld'
  <2> SUFFICES ASSUME NEW w \in Window, lock[w] # Free
               PROVE  pc'[lock[w]] = "locked" /\ w \in WindowsOf(key'[lock[w]])
    BY DEF LocksHeld, WindowsOf, MinuteRow, DailyRow, table
  <2>1. lock[w] \in Caller /\ pc[lock[w]] = "locked" /\ lock[w] # c
    BY DEF QInv, QTypeOK, LocksHeld
  <2> QED
    BY <1>pc, <2>1 DEF QInv, LocksHeld
<1>2. ReadsFresh'
  <2> SUFFICES ASSUME NEW d \in Caller, pc'[d] = "locked"
               PROVE  /\ \A w \in WindowsOf(key'[d]) : lock[w] = d /\ w \in rows
                      /\ seen[d].daily = count[DailyRow(key'[d])]
                      /\ seen[d].minute = count[MinuteRow(key'[d])]
    BY DEF ReadsFresh, WindowsOf, MinuteRow, DailyRow, table
  <2> QED
    BY <1>pc DEF QInv, ReadsFresh
<1>3. RowsMade'
  <2> SUFFICES ASSUME NEW d \in Caller, pc'[d] = "lock" PROVE WindowsOf(key'[d]) \subseteq rows
    BY DEF RowsMade, WindowsOf, MinuteRow, DailyRow, table
  <2> QED
    BY <1>pc DEF QInv, RowsMade
<1>4. NotStalled'
  <2> SUFFICES ASSUME NEW d \in Caller, pc'[d] \in InFlight PROVE clock <= key'[d] + Stall
    BY DEF NotStalled, InFlight
  <2>1. CASE d = c
    BY <1>pc, <2>1, TimeAssumption DEF QInv, QTypeOK, Minute, InFlight
  <2>2. CASE d # c
    BY <1>pc, <2>2 DEF QInv, NotStalled
  <2> QED
    BY <2>1, <2>2
<1> QED
  BY <1>1, <1>2, <1>3, <1>4

LEMMA EnsureRowsKeeps ==
  ASSUME NEW c \in Caller, QInv, EnsureRows(c)
  PROVE  LocksHeld' /\ ReadsFresh' /\ RowsMade' /\ NotStalled' /\ GoneIsOld' /\ CountsCoverGrants'
<1>pc. /\ pc[c] = "insert" /\ pc'[c] = "lock"
       /\ \A d \in Caller : d # c => pc'[d] = pc[d]
       /\ rows' = rows \cup WindowsOf(key[c])
       /\ UNCHANGED <<clock, count, lock, key, seen, granted>>
  BY DEF EnsureRows, Ensured, Move, QInv, QTypeOK
<1>1. LocksHeld'
  <2> SUFFICES ASSUME NEW w \in Window, lock[w] # Free
               PROVE  pc'[lock[w]] = "locked" /\ w \in WindowsOf(key[lock[w]])
    BY <1>pc DEF LocksHeld, WindowsOf, MinuteRow, DailyRow
  <2>1. lock[w] \in Caller /\ pc[lock[w]] = "locked" /\ lock[w] # c
    BY <1>pc DEF QInv, QTypeOK, LocksHeld
  <2> QED
    BY <1>pc, <2>1 DEF QInv, LocksHeld
<1>2. ReadsFresh'
  <2> SUFFICES ASSUME NEW d \in Caller, pc'[d] = "locked"
               PROVE  /\ \A w \in WindowsOf(key[d]) : lock[w] = d /\ w \in rows'
                      /\ seen[d].daily = count[DailyRow(key[d])]
                      /\ seen[d].minute = count[MinuteRow(key[d])]
    BY <1>pc DEF ReadsFresh, WindowsOf, MinuteRow, DailyRow
  <2> QED
    BY <1>pc DEF QInv, ReadsFresh
<1>3. RowsMade'
  <2> SUFFICES ASSUME NEW d \in Caller, pc'[d] = "lock" PROVE WindowsOf(key[d]) \subseteq rows'
    BY <1>pc DEF RowsMade, WindowsOf, MinuteRow, DailyRow
  <2> QED
    BY <1>pc DEF QInv, RowsMade
<1>4. NotStalled'
  <2> SUFFICES ASSUME NEW d \in Caller, pc'[d] \in InFlight PROVE clock <= key[d] + Stall
    BY <1>pc DEF NotStalled, InFlight
  <2> QED
    BY <1>pc DEF QInv, NotStalled, InFlight
<1>5. GoneIsOld'
  BY <1>pc DEF QInv, GoneIsOld
<1>6. CountsCoverGrants'
  <2> SUFFICES ASSUME NEW w \in rows' PROVE granted[w] <= count[w]
    BY <1>pc DEF CountsCoverGrants
  <2>1. CASE w \in rows
    BY <2>1 DEF QInv, CountsCoverGrants
  <2>2. CASE w \notin rows
    <3>1. key[c] \in Minute /\ w \in WindowsOf(key[c]) /\ clock <= key[c] + Stall
      BY <1>pc, <2>2 DEF QInv, QTypeOK, NotStalled, InFlight
    <3>2. w \in Window /\ (w[1] = "minute" => w[2] = key[c])
      BY <3>1, WindowFact
    <3>3. ~ (granted[w] > 0)
      BY <2>2, <3>1, <3>2, TimeAssumption DEF QInv, GoneIsOld, QTypeOK, Minute
    <3> QED
      BY <3>2, <3>3 DEF QInv, QTypeOK
  <2> QED
    BY <2>1, <2>2
<1> QED
  BY <1>1, <1>2, <1>3, <1>4, <1>5, <1>6

LEMMA LockAndReadKeeps ==
  ASSUME NEW c \in Caller, QInv, LockAndRead(c)
  PROVE  LocksHeld' /\ ReadsFresh' /\ RowsMade' /\ NotStalled' /\ GoneIsOld' /\ CountsCoverGrants'
<1>pc. /\ pc[c] = "lock" /\ pc'[c] = "locked"
       /\ \A d \in Caller : d # c => pc'[d] = pc[d] /\ seen'[d] = seen[d]
       /\ seen'[c] = [daily |-> count[DailyRow(key[c])], minute |-> count[MinuteRow(key[c])]]
       /\ UNCHANGED <<clock, rows, count, key, granted>>
  BY DEF LockAndRead, Move, QInv, QTypeOK
<1>lock. /\ \A w \in WindowsOf(key[c]) : lock[w] = Free
         /\ \A w \in Window : lock'[w] = IF w \in WindowsOf(key[c]) THEN c ELSE lock[w]
  BY DEF LockAndRead, MayLock
<1>rows. \A d \in Caller : WindowsOf(key[d]) \subseteq Window
  BY RowFacts DEF QInv, QTypeOK
<1>1. LocksHeld'
  <2> SUFFICES ASSUME NEW w \in Window, lock'[w] # Free
               PROVE  pc'[lock'[w]] = "locked" /\ w \in WindowsOf(key[lock'[w]])
    BY <1>pc DEF LocksHeld, WindowsOf, MinuteRow, DailyRow
  <2>1. CASE w \in WindowsOf(key[c])
    BY <1>pc, <1>lock, <2>1
  <2>2. CASE w \notin WindowsOf(key[c])
    <3>1. lock'[w] = lock[w] /\ lock[w] \in Caller /\ lock[w] # Free
      BY <1>lock, <2>2 DEF QInv, QTypeOK
    <3> QED
      BY <1>pc, <3>1 DEF QInv, LocksHeld
  <2> QED
    BY <2>1, <2>2
<1>2. ReadsFresh'
  <2> SUFFICES ASSUME NEW d \in Caller, pc'[d] = "locked"
               PROVE  /\ \A w \in WindowsOf(key[d]) : lock'[w] = d /\ w \in rows
                      /\ seen'[d].daily = count[DailyRow(key[d])]
                      /\ seen'[d].minute = count[MinuteRow(key[d])]
    BY <1>pc DEF ReadsFresh, WindowsOf, MinuteRow, DailyRow
  <2>1. CASE d = c
    BY <1>pc, <1>lock, <1>rows, <2>1 DEF QInv, RowsMade
  <2>2. CASE d # c
    <3>1. pc[d] = "locked" /\ seen'[d] = seen[d] /\ d # Free
      BY <1>pc, <2>2, CallerAssumption
    <3>2. \A w \in WindowsOf(key[d]) : lock[w] = d
      BY <3>1 DEF QInv, ReadsFresh
    <3>3. \A w \in WindowsOf(key[d]) : lock'[w] = lock[w]
      BY <1>lock, <1>rows, <3>1, <3>2
    <3> QED
      BY <3>1, <3>2, <3>3 DEF QInv, ReadsFresh
  <2> QED
    BY <2>1, <2>2
<1>3. RowsMade'
  <2> SUFFICES ASSUME NEW d \in Caller, pc'[d] = "lock" PROVE WindowsOf(key[d]) \subseteq rows
    BY <1>pc DEF RowsMade, WindowsOf, MinuteRow, DailyRow
  <2> QED
    BY <1>pc DEF QInv, RowsMade
<1>4. NotStalled'
  <2> SUFFICES ASSUME NEW d \in Caller, pc'[d] \in InFlight PROVE clock <= key[d] + Stall
    BY <1>pc DEF NotStalled, InFlight
  <2> QED
    BY <1>pc DEF QInv, NotStalled, InFlight
<1>5. GoneIsOld' /\ CountsCoverGrants'
  BY <1>pc DEF QInv, GoneIsOld, CountsCoverGrants
<1> QED
  BY <1>1, <1>2, <1>3, <1>4, <1>5

LEMMA ReserveKeeps ==
  ASSUME NEW c \in Caller, QInv, Reserve(c)
  PROVE  LocksHeld' /\ ReadsFresh' /\ RowsMade' /\ NotStalled' /\ GoneIsOld' /\ CountsCoverGrants'
<1>1. LocksHeld' /\ ReadsFresh' /\ RowsMade' /\ NotStalled'
  BY Leaving DEF Reserve, Finish
<1>rows. /\ UNCHANGED <<clock, rows>>
         /\ \A w \in WindowsOf(key[c]) : w \in rows
         /\ \A w \in Window : /\ count'[w] = IF w \in WindowsOf(key[c]) THEN count[w] + 1 ELSE count[w]
                              /\ granted'[w] = IF w \in WindowsOf(key[c]) THEN granted[w] + 1 ELSE granted[w]
  BY DEF Reserve, Increment, QInv, ReadsFresh
<1>2. GoneIsOld'
  BY <1>rows DEF QInv, GoneIsOld
<1>3. CountsCoverGrants'
  <2> SUFFICES ASSUME NEW w \in rows PROVE granted'[w] <= count'[w]
    BY <1>rows DEF CountsCoverGrants
  <2>1. w \in Window /\ granted[w] <= count[w] /\ granted[w] \in Nat /\ count[w] \in Nat
    BY DEF QInv, QTypeOK, CountsCoverGrants
  <2> QED
    BY <1>rows, <2>1
<1> QED
  BY <1>1, <1>2, <1>3

LEMMA TurnAwayKeeps ==
  ASSUME NEW c \in Caller, QInv, TurnAway(c)
  PROVE  LocksHeld' /\ ReadsFresh' /\ RowsMade' /\ NotStalled' /\ GoneIsOld' /\ CountsCoverGrants'
<1>1. LocksHeld' /\ ReadsFresh' /\ RowsMade' /\ NotStalled'
  <2>1. CASE DailyExceeded(c)
    BY <2>1, Leaving DEF TurnAway, Finish
  <2>2. CASE ~DailyExceeded(c)
    BY <2>2, Leaving DEF TurnAway
  <2> QED
    BY <2>1, <2>2
<1>2. GoneIsOld' /\ CountsCoverGrants'
  BY DEF TurnAway, QInv, GoneIsOld, CountsCoverGrants
<1> QED
  BY <1>1, <1>2

LEMMA StatementRaisesKeeps ==
  ASSUME NEW c \in Caller, QInv, StatementRaises(c)
  PROVE  LocksHeld' /\ ReadsFresh' /\ RowsMade' /\ NotStalled' /\ GoneIsOld' /\ CountsCoverGrants'
<1>1. LocksHeld' /\ ReadsFresh' /\ RowsMade' /\ NotStalled'
  BY Leaving DEF StatementRaises, Finish
<1>2. GoneIsOld'
  BY DEF StatementRaises, QInv, GoneIsOld
<1>3. CountsCoverGrants'
  <2> SUFFICES ASSUME NEW w \in rows PROVE granted[w] <= count'[w]
    BY DEF StatementRaises, CountsCoverGrants
  <2>1. w \in Window /\ granted[w] <= count[w] /\ granted[w] \in Nat /\ count[w] \in Nat
    BY DEF QInv, QTypeOK, CountsCoverGrants
  <2>2. count'[w] = count[w] \/ count'[w] = count[w] + 1
    BY <2>1 DEF StatementRaises, Increment
  <2> QED
    BY <2>1, <2>2
<1> QED
  BY <1>1, <1>2, <1>3

LEMMA CleanupKeeps ==
  ASSUME QInv, CleanupOldWindows
  PROVE  LocksHeld' /\ ReadsFresh' /\ RowsMade' /\ NotStalled' /\ GoneIsOld' /\ CountsCoverGrants'
<1> DEFINE old == {w \in OldRows : lock[w] = Free}
<1>old. /\ UNCHANGED <<clock, lock, pc, key, seen, granted>>
        /\ rows' = rows \ old
        /\ \A w \in Window \ old : count'[w] = count[w]
        /\ \A w \in old : w[1] = "minute" /\ w[2] + CleanupAge < clock /\ lock[w] = Free
  BY DEF CleanupOldWindows, OldRows, caller
<1> HIDE DEF old
<1>1. LocksHeld'
  BY <1>old DEF QInv, LocksHeld, WindowsOf, MinuteRow, DailyRow
<1>2. ReadsFresh'
  <2> SUFFICES ASSUME NEW d \in Caller, pc[d] = "locked"
               PROVE  /\ \A w \in WindowsOf(key[d]) : lock[w] = d /\ w \in rows'
                      /\ seen[d].daily = count'[DailyRow(key[d])]
                      /\ seen[d].minute = count'[MinuteRow(key[d])]
    BY <1>old DEF ReadsFresh, WindowsOf, MinuteRow, DailyRow
  <2>1. \A w \in WindowsOf(key[d]) : w \in Window /\ lock[w] = d /\ w \in rows /\ w \notin old
    BY <1>old, RowFacts, CallerAssumption DEF QInv, QTypeOK, ReadsFresh
  <2>2. DailyRow(key[d]) \in WindowsOf(key[d]) /\ MinuteRow(key[d]) \in WindowsOf(key[d])
    BY DEF WindowsOf
  <2> QED
    BY <1>old, <2>1, <2>2 DEF QInv, ReadsFresh
<1>3. RowsMade'
  <2> SUFFICES ASSUME NEW d \in Caller, pc[d] = "lock", NEW w \in WindowsOf(key[d]) PROVE w \in rows'
    BY <1>old DEF RowsMade, WindowsOf, MinuteRow, DailyRow
  <2>1. key[d] \in Minute /\ clock \in Minute /\ clock <= key[d] + Stall /\ w \in rows
    BY DEF QInv, QTypeOK, NotStalled, InFlight, RowsMade
  <2>2. w[1] = "minute" => w[2] = key[d]
    BY <2>1, WindowFact
  <2>3. w \notin old
    BY <1>old, <2>1, <2>2, TimeAssumption DEF Minute
  <2> QED
    BY <1>old, <2>1, <2>3
<1>4. NotStalled'
  BY <1>old DEF QInv, NotStalled, InFlight
<1>5. GoneIsOld'
  BY <1>old DEF QInv, GoneIsOld
<1>6. CountsCoverGrants'
  BY <1>old DEF QInv, QTypeOK, CountsCoverGrants
<1> QED
  BY <1>1, <1>2, <1>3, <1>4, <1>5, <1>6

LEMMA TickKeeps ==
  ASSUME QInv, Tick
  PROVE  LocksHeld' /\ ReadsFresh' /\ RowsMade' /\ NotStalled' /\ GoneIsOld' /\ CountsCoverGrants'
<1>t. /\ UNCHANGED <<rows, count, lock, pc, key, seen, granted>>
      /\ \A c \in Caller : pc[c] \in InFlight => clock < key[c] + Stall
      /\ clock' = clock + 1 /\ clock \in Minute
  BY DEF Tick, table, caller, QInv, QTypeOK
<1>1. LocksHeld' /\ ReadsFresh' /\ RowsMade' /\ CountsCoverGrants'
  BY <1>t DEF QInv, LocksHeld, ReadsFresh, RowsMade, CountsCoverGrants, WindowsOf, MinuteRow, DailyRow
<1>2. NotStalled'
  <2> SUFFICES ASSUME NEW c \in Caller, pc[c] \in InFlight PROVE clock + 1 <= key[c] + Stall
    BY <1>t DEF NotStalled, InFlight
  <2>1. key[c] \in Minute
    BY DEF QInv, QTypeOK
  <2> QED
    BY <1>t, <2>1, TimeAssumption DEF Minute
<1>3. GoneIsOld'
  <2> SUFFICES ASSUME NEW w \in Window \ rows, granted[w] > 0
               PROVE  w[1] = "minute" /\ w[2] + CleanupAge < clock + 1
    BY <1>t DEF GoneIsOld
  <2>1. w[1] = "minute" /\ w[2] + CleanupAge < clock
    BY DEF QInv, GoneIsOld
  <2>2. PICK m \in Minute : w \in WindowsOf(m)
    BY DEF Window
  <2>3. w[2] \in Minute
    BY <2>1, <2>2, WindowFact
  <2> QED
    BY <1>t, <2>1, <2>3, TimeAssumption DEF Minute
<1> QED
  BY <1>1, <1>2, <1>3

LEMMA NextInv == QInv /\ [QNext]_qvars => QInv'
<1> SUFFICES ASSUME QInv, [QNext]_qvars PROVE QInv'
  OBVIOUS
<1> DEFINE Locks == LocksHeld' /\ ReadsFresh' /\ RowsMade' /\ NotStalled'
<1> DEFINE Kept == Locks /\ GoneIsOld' /\ CountsCoverGrants'
<1>0. QTypeOK'
  BY NextTypes DEF QInv
<1>1. ASSUME UNCHANGED qvars PROVE Kept
  BY <1>1 DEF qvars, table, caller, QInv, LocksHeld, ReadsFresh, RowsMade, NotStalled, GoneIsOld,
     CountsCoverGrants, WindowsOf, MinuteRow, DailyRow, InFlight
<1>2. ASSUME NEW c \in Caller, CheckAndReserve(c) PROVE Kept
  <2>1. key' = [key EXCEPT ![c] = key[c]]
    BY <1>2 DEF CheckAndReserve, QInv, QTypeOK
  <2>2. LocksHeld' /\ ReadsFresh' /\ RowsMade' /\ NotStalled'
    BY <1>2, <2>1, Moving DEF CheckAndReserve
  <2>3. GoneIsOld' /\ CountsCoverGrants'
    BY <1>2 DEF CheckAndReserve, table, QInv, GoneIsOld, CountsCoverGrants
  <2> QED
    BY <2>2, <2>3
<1>3. ASSUME NEW c \in Caller, WindowKeys(c) PROVE Kept
  <2>1. ASSUME tries[c] < MaxTries PROVE Locks
    BY <1>3, <2>1, Moving DEF WindowKeys
  <2>2. ASSUME ~(tries[c] < MaxTries) PROVE Locks
    <3>1. lock' = Released(c)
      <4>1. \A w \in Window : lock[w] # c
        BY <1>3, CallerAssumption DEF WindowKeys, QInv, LocksHeld
      <4> QED
        BY <1>3, <4>1 DEF WindowKeys, table, Released, QInv, QTypeOK
    <3> QED
      BY <1>3, <2>2, <3>1, Leaving DEF WindowKeys, Finish, table
  <2>3. GoneIsOld' /\ CountsCoverGrants'
    BY <1>3 DEF WindowKeys, table, QInv, GoneIsOld, CountsCoverGrants
  <2> QED
    BY <2>1, <2>2, <2>3
<1>4. ASSUME NEW c \in Caller, WakeUp(c) PROVE Kept
  <2>1. key' = [key EXCEPT ![c] = key[c]]
    BY <1>4 DEF WakeUp, QInv, QTypeOK
  <2>2. LocksHeld' /\ ReadsFresh' /\ RowsMade' /\ NotStalled'
    BY <1>4, <2>1, Moving DEF WakeUp
  <2>3. GoneIsOld' /\ CountsCoverGrants'
    BY <1>4 DEF WakeUp, table, QInv, GoneIsOld, CountsCoverGrants
  <2> QED
    BY <2>2, <2>3
<1>5. ASSUME NEW c \in Caller, EnsureRows(c) \/ LockAndRead(c) \/ Reserve(c) \/ TurnAway(c) \/ StatementRaises(c)
      PROVE  Kept
  BY <1>5, EnsureRowsKeeps, LockAndReadKeeps, ReserveKeeps, TurnAwayKeeps, StatementRaisesKeeps
<1>6. ASSUME CleanupOldWindows PROVE Kept
  BY <1>6, CleanupKeeps
<1>7. ASSUME Tick PROVE Kept
  BY <1>7, TickKeeps
<1>8. Kept
  <2> HIDE DEF Kept
  <2> QED
    BY <1>1, <1>2, <1>3, <1>4, <1>5, <1>6, <1>7 DEF QNext, ReserveStep
<1> QED
  BY <1>0, <1>8 DEF QInv

\* The usage shown and read by the next reservation never falls below what was
\* admitted, whatever statements fail and rows are removed (_try_reserve).
THEOREM CountsCoverGrantsAlways == QSpec => []CountsCoverGrants
<1>1. QInv => CountsCoverGrants
  BY DEF QInv
<1> QED
  BY <1>1, InitInv, NextInv, PTL DEF QSpec

-----------------------------------------------------------------------------
(* Refinement: Reserve is the step Admit, every other step a stutter.      *)

LEMMA ReserveAdmits ==
  ASSUME NEW c \in Caller, QInv, Reserve(c)
  PROVE  Limiter!Next
<1> DEFINE S == WindowsOf(key[c])
<1>1. key[c] \in Minute /\ S \in {WindowsOf(m) : m \in Minute}
  BY DEF QInv, QTypeOK
<1>2. /\ granted' = [w \in Window |-> IF w \in S THEN granted[w] + 1 ELSE granted[w]]
      /\ \A w \in S : w \in Window /\ w \in rows
      /\ seen[c].daily = count[DailyRow(key[c])] /\ seen[c].minute = count[MinuteRow(key[c])]
  BY <1>1, RowFacts DEF Reserve, QInv, ReadsFresh
<1>3. ASSUME NEW w \in S \cap Limited PROVE granted[w] < CapOf[w]
  <2>1. w \in Window /\ granted[w] <= count[w] /\ granted[w] \in Nat /\ count[w] \in Nat
    BY <1>2 DEF QInv, QTypeOK, CountsCoverGrants
  <2>2. CASE w = MinuteRow(key[c])
    <3>1. CapOf[w] = RpmCap
      BY <1>1, <2>1, <2>2, RowFacts DEF CapOf
    <3>2. count[w] < RpmCap
      BY <1>2, <2>1, <2>2, CapAssumption DEF Reserve, MinuteExceeded
    <3> QED
      BY <2>1, <3>1, <3>2, CapAssumption
  <2>3. CASE w = DailyRow(key[c])
    <3>1. w[1] = "daily"
      BY <1>1, <2>3, RowFacts
    <3>2. CapOf[w] = RpdCap
      BY <2>1, <3>1 DEF CapOf
    <3>3. DailyCapEnabled
      <4>1. \A m \in Minute : w # MinuteRow(m)
        BY <3>1, RowFacts
      <4> QED
        BY <4>1 DEF Limited
    <3>4. count[w] < RpdCap
      BY <1>2, <2>1, <2>3, <3>3, CapAssumption DEF Reserve, DailyExceeded
    <3> QED
      BY <2>1, <3>2, <3>4, CapAssumption
  <2> QED
    BY <1>1, <2>2, <2>3, WindowFact
<1>4. Limiter!Admit(S)
  BY <1>2, <1>3 DEF Limiter!Admit
<1> QED
  BY <1>1, <1>4 DEF Limiter!Next

\* check_and_reserve limits the rate: the callers together, interleaved, failing
\* and with old rows removed under them, never admit a call beyond a cap.
THEOREM LimitsRateAlways == QSpec => LimitsRate
<1>1. QInit => Limiter!Init
  BY DEF QInit, Limiter!Init
<1>2. QInv /\ [QNext]_qvars => [Limiter!Next]_granted
  <2> SUFFICES ASSUME QInv, [QNext]_qvars PROVE Limiter!Next \/ UNCHANGED granted
    OBVIOUS
  <2>1. ASSUME NEW c \in Caller, Reserve(c) PROVE Limiter!Next
    BY <2>1, ReserveAdmits
  <2>2. ASSUME NEW c \in Caller,
               CheckAndReserve(c) \/ WindowKeys(c) \/ EnsureRows(c) \/ LockAndRead(c)
                 \/ TurnAway(c) \/ WakeUp(c) \/ StatementRaises(c)
        PROVE  UNCHANGED granted
    BY <2>2 DEF CheckAndReserve, WindowKeys, EnsureRows, LockAndRead, TurnAway, WakeUp, StatementRaises
  <2>3. CleanupOldWindows \/ Tick \/ UNCHANGED qvars => UNCHANGED granted
    BY DEF CleanupOldWindows, Tick, qvars
  <2> QED
    BY <2>1, <2>2, <2>3 DEF QNext, ReserveStep
<1> QED
  BY <1>1, <1>2, InitInv, NextInv, PTL DEF QSpec, LimitsRate, Limiter!Spec


-----------------------------------------------------------------------------
(* Extractions: the quota underneath them.                                *)

\* An extraction takes steps of the quota and leaves it alone otherwise.
LEMMA QuotaUnderExtraction == [Next]_vars => [QNext]_qvars
<1> SUFFICES ASSUME [Next]_vars PROVE QNext \/ UNCHANGED qvars
  OBVIOUS
<1>1. ASSUME NEW c \in Caller, ExtractStep(c) PROVE UNCHANGED qvars
  BY <1>1 DEF ExtractStep, Reserved, Generate, Answered, CallFails, PrepareFails, BackOff
<1>2. ASSUME QuotaStep PROVE QNext
  BY <1>2 DEF QuotaStep, QNext
<1> QED
  BY <1>1, <1>2 DEF Next, vars

LEMMA QuotaOfExtraction == Spec => QSpec
<1>1. Init => QInit
  BY DEF Init
<1> QED
  BY <1>1, QuotaUnderExtraction, PTL DEF Spec, QSpec

\* The pages that are extracted at once stay within the caps together.
THEOREM ExtractionLimitsRate == Spec => LimitsRate
  BY QuotaOfExtraction, LimitsRateAlways, PTL

-----------------------------------------------------------------------------
(* The ladder.  Until the loop ends each counter is below its limit, and a *)
(* call that has failed has moved one of them, so calls are at most one    *)
(* ahead of the counters together.                                         *)

PageTypeOK ==
  /\ stage \in [Caller -> Stage]
  /\ attempt \in [Caller -> 0 .. MaxRetries]
  /\ busy \in [Caller -> 0 .. Max503]
  /\ limited \in [Caller -> 0 .. Max429]
  /\ calls \in [Caller -> Nat]

Going == {"reserve", "prepare", "sleep", "call"}

Rung(c) == attempt[c] + busy[c] + limited[c]

LadderOf(c) ==
  /\ stage[c] \in Going => attempt[c] < MaxRetries /\ busy[c] < Max503 /\ limited[c] < Max429
  /\ stage[c] \in Going \ {"call"} => calls[c] <= Rung(c)
  /\ stage[c] = "call" => calls[c] <= Rung(c) + 1
  /\ calls[c] <= MaxRetries + Max503 + Max429 - 2

LadderInv == PageTypeOK /\ \A c \in Caller : LadderOf(c)

LEMMA LadderInit == Init => LadderInv
<1> SUFFICES ASSUME Init PROVE LadderInv
  OBVIOUS
<1>1. PageTypeOK
  BY LadderAssumption DEF Init, PageTypeOK, Stage
<1>2. ASSUME NEW c \in Caller PROVE LadderOf(c)
  <2>1. stage[c] = "reserve" /\ attempt[c] = 0 /\ busy[c] = 0 /\ limited[c] = 0 /\ calls[c] = 0
    BY DEF Init
  <2> QED
    BY <2>1, LadderAssumption DEF LadderOf, Rung
<1> QED
  BY <1>1, <1>2 DEF LadderInv

\* What a step of extraction c leaves of the others.
LEMMA OthersLadder ==
  ASSUME NEW c \in Caller, NEW d \in Caller, d # c, LadderOf(d),
         /\ stage'[d] = stage[d] /\ attempt'[d] = attempt[d] /\ busy'[d] = busy[d]
         /\ limited'[d] = limited[d] /\ calls'[d] = calls[d]
  PROVE  LadderOf(d)'
BY DEF LadderOf, Rung, Going

LEMMA FailsKeeps ==
  ASSUME LadderInv, NEW c \in Caller, NEW kind \in Failure, stage[c] \in {"prepare", "call"},
         Fails(c, kind), UNCHANGED calls
  PROVE  LadderInv'
<1>0. /\ attempt[c] \in Nat /\ busy[c] \in Nat /\ limited[c] \in Nat /\ calls[c] \in Nat
      /\ attempt[c] < MaxRetries /\ busy[c] < Max503 /\ limited[c] < Max429
      /\ calls[c] <= attempt[c] + busy[c] + limited[c] + 1
      /\ calls[c] <= MaxRetries + Max503 + Max429 - 2
  BY LadderAssumption DEF LadderInv, PageTypeOK, LadderOf, Going, Rung
<1>1. CASE kind = "notFound"
  <2>1. stage' = [stage EXCEPT ![c] = "raised"] /\ UNCHANGED ladder
    BY <1>1 DEF Fails, Goto
  <2>2. PageTypeOK'
    BY <2>1 DEF LadderInv, PageTypeOK, Stage, Over, ladder
  <2>3. ASSUME NEW d \in Caller PROVE LadderOf(d)'
    BY <1>0, <2>1, OthersLadder DEF LadderInv, PageTypeOK, LadderOf, Rung, Going, ladder
  <2> QED
    BY <2>2, <2>3 DEF LadderInv
<1>2. CASE kind \in {"badJson", "timeout", "other"}
  <2>1. /\ attempt' = [attempt EXCEPT ![c] = @ + 1] /\ UNCHANGED <<busy, limited>>
        /\ \E to \in {"none", "prepare", "sleep"} :
             /\ stage' = [stage EXCEPT ![c] = to]
             /\ to # "none" => attempt[c] + 1 < MaxRetries
    BY <1>0, <1>2, LadderAssumption DEF Fails, Spent
  <2>2. PageTypeOK'
    BY <1>0, <2>1, LadderAssumption DEF LadderInv, PageTypeOK, Stage, Over
  <2>3. ASSUME NEW d \in Caller PROVE LadderOf(d)'
    <3>1. CASE d = c
      BY <1>0, <2>1, <3>1, LadderAssumption DEF LadderInv, PageTypeOK, LadderOf, Rung, Going
    <3>2. CASE d # c
      BY <2>1, <3>2, OthersLadder DEF LadderInv, PageTypeOK
    <3> QED
      BY <3>1, <3>2
  <2> QED
    BY <2>2, <2>3 DEF LadderInv
<1>3. CASE kind = "unavailable"
  <2>1. /\ busy' = [busy EXCEPT ![c] = @ + 1] /\ UNCHANGED <<attempt, limited>>
        /\ \E to \in {"none", "sleep"} :
             /\ stage' = [stage EXCEPT ![c] = to]
             /\ to # "none" => busy[c] + 1 < Max503
    BY <1>0, <1>3, LadderAssumption DEF Fails, Spent, Counted
  <2>2. PageTypeOK'
    BY <1>0, <2>1, LadderAssumption DEF LadderInv, PageTypeOK, Stage, Over
  <2>3. ASSUME NEW d \in Caller PROVE LadderOf(d)'
    <3>1. CASE d = c
      BY <1>0, <2>1, <3>1, LadderAssumption DEF LadderInv, PageTypeOK, LadderOf, Rung, Going
    <3>2. CASE d # c
      BY <2>1, <3>2, OthersLadder DEF LadderInv, PageTypeOK
    <3> QED
      BY <3>1, <3>2
  <2> QED
    BY <2>2, <2>3 DEF LadderInv
<1>4. CASE kind = "limited"
  <2>1. /\ limited' = [limited EXCEPT ![c] = @ + 1] /\ UNCHANGED <<attempt, busy>>
        /\ \E to \in {"raised", "sleep"} :
             /\ stage' = [stage EXCEPT ![c] = to]
             /\ to # "raised" => limited[c] + 1 < Max429
    BY <1>0, <1>4, LadderAssumption DEF Fails, Spent, Counted
  <2>2. PageTypeOK'
    BY <1>0, <2>1, LadderAssumption DEF LadderInv, PageTypeOK, Stage, Over
  <2>3. ASSUME NEW d \in Caller PROVE LadderOf(d)'
    <3>1. CASE d = c
      BY <1>0, <2>1, <3>1, LadderAssumption DEF LadderInv, PageTypeOK, LadderOf, Rung, Going
    <3>2. CASE d # c
      BY <2>1, <3>2, OthersLadder DEF LadderInv, PageTypeOK
    <3> QED
      BY <3>1, <3>2
  <2> QED
    BY <2>2, <2>3 DEF LadderInv
<1> QED
  BY <1>1, <1>2, <1>3, <1>4 DEF Failure

LEMMA LadderNext == LadderInv /\ [Next]_vars => LadderInv'
<1> SUFFICES ASSUME LadderInv, [Next]_vars PROVE LadderInv'
  OBVIOUS
<1>1. ASSUME UNCHANGED evars PROVE LadderInv'
  BY <1>1 DEF evars, ladder, LadderInv, PageTypeOK, LadderOf, Rung
<1>2. ASSUME NEW c \in Caller, Reserved(c) PROVE LadderInv'
  <2>1. \E to \in {"prepare", "none", "raised"} : stage' = [stage EXCEPT ![c] = to]
    BY <1>2 DEF Reserved, Ended
  <2>2. PageTypeOK'
    BY <1>2, <2>1 DEF Reserved, ladder, LadderInv, PageTypeOK, Stage, Over
  <2>3. ASSUME NEW d \in Caller PROVE LadderOf(d)'
    BY <1>2, <2>1 DEF Reserved, ladder, LadderInv, PageTypeOK, LadderOf, Rung, Going
  <2> QED
    BY <2>2, <2>3 DEF LadderInv
<1>3. ASSUME NEW c \in Caller, Generate(c) PROVE LadderInv'
  <2>2. PageTypeOK'
    BY <1>3 DEF Generate, Goto, ladder, LadderInv, PageTypeOK, Stage
  <2>3. ASSUME NEW d \in Caller PROVE LadderOf(d)'
    BY <1>3, LadderAssumption DEF Generate, Goto, ladder, LadderInv, PageTypeOK, LadderOf, Rung, Going
  <2> QED
    BY <2>2, <2>3 DEF LadderInv
<1>4. ASSUME NEW c \in Caller, Answered(c) \/ BackOff(c) PROVE LadderInv'
  <2>2. PageTypeOK'
    BY <1>4 DEF Answered, BackOff, Goto, ladder, LadderInv, PageTypeOK, Stage, Over
  <2>3. ASSUME NEW d \in Caller PROVE LadderOf(d)'
    BY <1>4 DEF Answered, BackOff, Goto, ladder, LadderInv, PageTypeOK, LadderOf, Rung, Going
  <2> QED
    BY <2>2, <2>3 DEF LadderInv
<1>5. ASSUME NEW c \in Caller, CallFails(c) \/ PrepareFails(c) PROVE LadderInv'
  BY <1>5, FailsKeeps DEF CallFails, PrepareFails, Failure
<1> QED
  BY <1>1, <1>2, <1>3, <1>4, <1>5 DEF Next, QuotaStep, ExtractStep, vars

LEMMA LadderAlways == Spec => []LadderInv
  BY LadderInit, LadderNext, PTL DEF Spec

\* The types of the quota and of the extractions hold in every reachable state.
THEOREM ExtractTypes == Spec => []ExtractTypeOK
<1>1. QTypeOK /\ LadderInv => ExtractTypeOK
  BY DEF LadderInv, PageTypeOK, ExtractTypeOK
<1> QED
  BY <1>1, QuotaOfExtraction, QuotaTypes, LadderAlways, PTL

\* However the errors of the three ladders alternate, a page is given up before
\* it costs a call more than they allow together (extract_with_blueprint).
THEOREM LadderBoundedAlways == Spec => []LadderBounded
<1>1. LadderInv => LadderBounded
  BY DEF LadderInv, LadderOf, LadderBounded
<1> QED
  BY <1>1, LadderAlways, PTL

=============================================================================
