----------------------- MODULE BlueprintBuilder_proofs -----------------------
(***************************************************************************)
(* What is proved of the blueprint editor. Its types hold whatever the     *)
(* user does. The rest is proved of the patient user, in layers, each the  *)
(* ground the next stands on:                                              *)
(*   Turns   which handlers can be under way together, and on which page   *)
(*   Sole    no two rows, of the page or of handlers, stand for one field  *)
(*   Agree   the page and the store differ only by what is under way       *)
(*   Orders  the orders rise along the page, and every row yet to come or  *)
(*           to be stored falls where the page shows it                    *)
(***************************************************************************)
EXTENDS BlueprintBuilder, FiniteSetTheorems, SequenceTheorems, TLAPS

-----------------------------------------------------------------------------
(* Rows picked out of a list by their positions.                           *)

\* The n-th of a set of positions, for every n up to their number, and each once.
LEMMA NthFacts ==
  ASSUME NEW len \in Nat, NEW I \in SUBSET (1 .. len)
  PROVE  /\ IsFiniteSet(I) /\ Cardinality(I) \in Nat /\ Cardinality(I) <= len
         /\ \A n \in 1 .. Cardinality(I) : Nth(I, n) \in I
         /\ \A i \in I : \E n \in 1 .. Cardinality(I) : Nth(I, n) = i
         /\ \A m, n \in 1 .. Cardinality(I) : m < n => Nth(I, m) < Nth(I, n)
<1> DEFINE upto(i) == {j \in I : j <= i}
           N == Cardinality(I)
           rank == [i \in I |-> Cardinality(upto(i))]
<1>0. I \subseteq Int
  OBVIOUS
<1>1. IsFiniteSet(1 .. len) /\ Cardinality(1 .. len) = len
  BY FS_Interval
<1>2. IsFiniteSet(I) /\ N \in Nat /\ N <= len
  BY <1>1, FS_Subset, FS_CardinalityType
<1>3. \A i \in I : IsFiniteSet(upto(i)) /\ Cardinality(upto(i)) \in 1 .. N
  <2> SUFFICES ASSUME NEW i \in I PROVE IsFiniteSet(upto(i)) /\ Cardinality(upto(i)) \in 1 .. N
    OBVIOUS
  <2>1. IsFiniteSet(upto(i)) /\ Cardinality(upto(i)) <= N /\ Cardinality(upto(i)) \in Nat
    BY <1>2, FS_Subset, FS_CardinalityType
  <2>2. i \in upto(i)
    OBVIOUS
  <2>3. Cardinality(upto(i)) # 0
    BY <2>1, <2>2, FS_EmptySet
  <2> QED
    BY <1>2, <2>1, <2>3
<1>4. ASSUME NEW i \in I, NEW k \in I, i < k PROVE rank[i] < rank[k]
  <2>0. i \in Int /\ k \in Int
    BY <1>0
  <2>1. upto(i) \in SUBSET upto(k)
    <3> SUFFICES ASSUME NEW j \in I, j <= i PROVE j <= k
      OBVIOUS
    <3>1. j \in Int
      BY <1>0
    <3> QED
      BY <1>4, <2>0, <3>1
  <2>3. k \in upto(k) /\ k \notin upto(i)
    BY <1>4, <2>0
  <2>2. Cardinality(upto(i)) <= Cardinality(upto(k)) /\ Cardinality(upto(i)) # Cardinality(upto(k))
    BY <1>3, <2>1, <2>3, FS_Subset
  <2> QED
    BY <1>3, <2>2
<1>5. rank \in Injection(I, 1 .. N)
  <2>1. rank \in [I -> 1 .. N]
    BY <1>3
  <2>2. \A i, k \in I : rank[i] = rank[k] => i = k
    BY <1>3, <1>4, <2>1
  <2> QED
    BY <2>1, <2>2 DEF Injection, IsInjective
<1>6. IsFiniteSet(1 .. N) /\ Cardinality(1 .. N) = N
  BY <1>2, FS_Interval
<1>7. rank \in Surjection(I, 1 .. N)
  BY <1>5, <1>6, FS_Injection
<1>8. \A n \in 1 .. N : \E i \in I : rank[i] = n
  BY <1>7 DEF Surjection
<1>9. \A n \in 1 .. N : Nth(I, n) \in I /\ rank[Nth(I, n)] = n
  <2> SUFFICES ASSUME NEW n \in 1 .. N PROVE Nth(I, n) \in I /\ rank[Nth(I, n)] = n
    OBVIOUS
  <2>1. PICK i \in I : Cardinality({j \in I : j <= i}) = n
    BY <1>8
  <2> QED
    BY <2>1 DEF Nth
<1>10. \A i \in I : Nth(I, rank[i]) = i
  BY <1>3, <1>5, <1>9 DEF Injection, IsInjective
<1> HIDE DEF rank, upto
<1>11. ASSUME NEW m \in 1 .. N, NEW n \in 1 .. N, m < n PROVE Nth(I, m) < Nth(I, n)
  <2>1. Nth(I, m) \in Int /\ Nth(I, n) \in Int
    BY <1>0, <1>9
  <2>2. ASSUME Nth(I, n) < Nth(I, m) PROVE FALSE
    <3>1. rank[Nth(I, n)] < rank[Nth(I, m)]
      BY <1>4, <1>9, <2>2
    <3> QED
      BY <1>9, <1>11, <3>1
  <2>3. Nth(I, n) # Nth(I, m)
    BY <1>9, <1>11
  <2> QED
    BY <2>1, <2>2, <2>3
<1>12. \A i \in I : rank[i] \in 1 .. N
  BY <1>5 DEF Injection
<1> HIDE DEF N
<1> QED
  BY <1>2, <1>9, <1>10, <1>11, <1>12 DEF N

LEMMA AtFacts ==
  ASSUME NEW S, NEW rows \in Seq(S), NEW I \in SUBSET DOMAIN rows
  PROVE  /\ At(rows, I) \in Seq(S) /\ Len(At(rows, I)) = Cardinality(I)
         /\ DOMAIN At(rows, I) = 1 .. Cardinality(I)
         /\ \A n \in DOMAIN At(rows, I) : Nth(I, n) \in I /\ At(rows, I)[n] = rows[Nth(I, n)]
         /\ \A i \in I : \E n \in DOMAIN At(rows, I) : Nth(I, n) = i
         /\ \A m, n \in DOMAIN At(rows, I) : m # n => Nth(I, m) # Nth(I, n)
         /\ At(rows, I) = <<>> <=> I = {}
<1>1. Len(rows) \in Nat /\ DOMAIN rows = 1 .. Len(rows)
  OBVIOUS
<1>2. /\ IsFiniteSet(I) /\ Cardinality(I) \in Nat
      /\ \A n \in 1 .. Cardinality(I) : Nth(I, n) \in I
      /\ \A i \in I : \E n \in 1 .. Cardinality(I) : Nth(I, n) = i
      /\ \A m, n \in 1 .. Cardinality(I) : m < n => Nth(I, m) < Nth(I, n)
  BY <1>1, NthFacts
<1>3. /\ DOMAIN At(rows, I) = 1 .. Cardinality(I)
      /\ \A n \in 1 .. Cardinality(I) : At(rows, I)[n] = rows[Nth(I, n)]
  BY DEF At
<1>4. At(rows, I) \in Seq(S) /\ Len(At(rows, I)) = Cardinality(I)
  <2>1. At(rows, I) \in [1 .. Cardinality(I) -> S]
    BY <1>1, <1>2 DEF At
  <2> QED
    BY <1>2, <2>1
<1>5. At(rows, I) = <<>> <=> I = {}
  BY <1>2, <1>4, FS_EmptySet
<1>6. \A m, n \in 1 .. Cardinality(I) : m # n => Nth(I, m) # Nth(I, n)
  <2> SUFFICES ASSUME NEW m \in 1 .. Cardinality(I), NEW n \in 1 .. Cardinality(I), m # n
               PROVE  Nth(I, m) # Nth(I, n)
    OBVIOUS
  <2>1. Nth(I, m) \in Int /\ Nth(I, n) \in Int
    BY <1>1, <1>2
  <2>2. m < n \/ n < m
    BY <1>2
  <2> QED
    BY <1>2, <2>1, <2>2
<1> QED
  BY <1>2, <1>3, <1>4, <1>5, <1>6

-----------------------------------------------------------------------------
(* The types, with what a handler's rows have to be for its step to make   *)
(* sense of them.                                                          *)

Kinds == OnList \cup {"meta", "test"}

\* A row without an id was made on the page.
RowOK(row) == ~Saved(row) => row.key[1] = "new"

HandlerOK(r) ==
  /\ r.do \in Persist => /\ r.todo # <<>>
                         /\ \A i \in DOMAIN r.todo : RowOK(r.todo[i]) /\ r.todo[i].text # Blank
                         /\ r.at = "ok" => r.got.rows # <<>>
  /\ r.do = "delete" => r.todo # <<>> /\ Saved(r.todo[1])
  /\ r.do = "generate" => Len(r.got.rows) <= Generated
  /\ r.do \notin {"generate", "idle"} => \A i \in DOMAIN r.got.rows : Saved(r.got.rows[i])

Generating == {h \in Slot : handler[h].do = "generate"}

Types ==
  /\ TypeOK
  /\ \A i \in DOMAIN fields : RowOK(fields[i])
  /\ \A h \in Slot : HandlerOK(handler[h])
  /\ nextTemp - 1 + Generated * Cardinality(Generating) <= MaxRows

LEMMA HandlerFacts ==
  ASSUME NEW r \in Handler
  PROVE  /\ r.do \in Kinds \cup {"idle"} /\ (r = Idle <=> r.do = "idle")
         /\ r # Idle =>
              /\ r.do \in Kinds /\ r.on \in BOOLEAN /\ r.at \in {"asked", "ok", "no"}
              /\ r.todo \in Seq(Row) /\ r.start \in Nat /\ r.patch \in Patch
              /\ r.got \in [rows : Seq(Row), meta : Meta]
              /\ r.got.rows \in Seq(Row) /\ r.got.meta \in Meta
<1>1. CASE r = Idle
  BY <1>1 DEF Idle
<1>2. CASE r # Idle
  <2>1. r \in [do : Kinds, on : BOOLEAN, at : {"asked", "ok", "no"}, todo : Seq(Row), start : Nat,
               patch : Patch, got : [rows : Seq(Row), meta : Meta]]
    BY <1>2 DEF Handler, Kinds
  <2>2. /\ r.do \in Kinds /\ r.on \in BOOLEAN /\ r.at \in {"asked", "ok", "no"}
        /\ r.todo \in Seq(Row) /\ r.start \in Nat /\ r.patch \in Patch
        /\ r.got \in [rows : Seq(Row), meta : Meta]
    BY <2>1
  <2>3. r.got.rows \in Seq(Row) /\ r.got.meta \in Meta
    BY <2>2
  <2>4. "idle" \notin Kinds
    BY DEF Kinds, OnList, Persist
  <2> QED
    BY <1>2, <2>2, <2>3, <2>4
<1> QED
  BY <1>1, <1>2

LEMMA Values ==
  /\ Nothing \in [rows : Seq(Row), meta : Meta] /\ Nothing.rows = <<>> /\ DOMAIN Nothing.rows = {}
  /\ Nothing.meta = Off /\ Off \in Meta /\ NoPatch \in Patch
  /\ NoKey \in Key /\ <<>> \in Seq(Row)
  /\ Idle \in Handler /\ HandlerOK(Idle) /\ Idle.do = "idle"
<1>1. Off \in Meta /\ NoPatch \in Patch /\ NoKey \in Key /\ <<>> \in Seq(Row)
  BY DEF Off, Meta, NoPatch, Patch, NoKey, Key
<1>2. Nothing \in [rows : Seq(Row), meta : Meta] /\ Nothing.rows = <<>> /\ Nothing.meta = Off
  BY <1>1 DEF Nothing
<1>3. Idle \in Handler /\ Idle.do = "idle"
  BY DEF Idle, Handler
<1>4. HandlerOK(Idle)
  BY <1>3 DEF HandlerOK, Persist
<1>5. DOMAIN Nothing.rows = {}
  BY <1>2
<1> QED
  BY <1>1, <1>2, <1>3, <1>4, <1>5

\* A new handler.
Begun(do, todo, start, patch) ==
  [do |-> do, on |-> TRUE, at |-> "asked", todo |-> todo, start |-> start, patch |-> patch,
   got |-> Nothing]

LEMMA BegunFacts ==
  ASSUME NEW do \in Kinds, NEW todo \in Seq(Row), NEW start \in Nat, NEW patch \in Patch
  PROVE  /\ Begun(do, todo, start, patch) \in Handler
         /\ Begun(do, todo, start, patch) # Idle
         /\ Begun(do, todo, start, patch).do = do /\ Begun(do, todo, start, patch).on = TRUE
         /\ Begun(do, todo, start, patch).at = "asked" /\ Begun(do, todo, start, patch).todo = todo
         /\ Begun(do, todo, start, patch).start = start /\ Begun(do, todo, start, patch).patch = patch
         /\ Begun(do, todo, start, patch).got = Nothing
<1>1. Begun(do, todo, start, patch).do = do
  BY DEF Begun
<1>2. "idle" \notin Kinds
  BY DEF Kinds, OnList, Persist
<1> QED
  BY <1>1, <1>2, Values DEF Begun, Handler, Kinds, Idle

LEMMA StartFacts ==
  ASSUME NEW do, NEW todo, NEW start, NEW patch, Start(do, todo, start, patch)
  PROVE  \E h \in Slot : handler[h] = Idle /\ handler' = [handler EXCEPT ![h] = Begun(do, todo, start, patch)]
  BY DEF Start, Begun

\* A handler that was answered.
LEMMA AnswerFacts ==
  ASSUME handler \in [Slot -> Handler], NEW h \in Slot, handler[h] # Idle,
         NEW at \in {"asked", "ok", "no"}, NEW got \in [rows : Seq(Row), meta : Meta], Answer(h, at, got)
  PROVE  \E r \in Handler :
           /\ handler' = [handler EXCEPT ![h] = r] /\ r # Idle
           /\ r.do = handler[h].do /\ r.on = handler[h].on /\ r.at = at /\ r.todo = handler[h].todo
           /\ r.start = handler[h].start /\ r.patch = handler[h].patch /\ r.got = got
<1> DEFINE r == [handler[h] EXCEPT !.at = at, !.got = got]
<1>1. handler' = [handler EXCEPT ![h] = r]
  BY DEF Answer
<1>2. handler[h] \in [do : Kinds, on : BOOLEAN, at : {"asked", "ok", "no"}, todo : Seq(Row), start : Nat,
                      patch : Patch, got : [rows : Seq(Row), meta : Meta]]
  BY DEF Handler, Kinds
<1>3. /\ r \in [do : Kinds, on : BOOLEAN, at : {"asked", "ok", "no"}, todo : Seq(Row), start : Nat,
                patch : Patch, got : [rows : Seq(Row), meta : Meta]]
      /\ r.do = handler[h].do /\ r.on = handler[h].on /\ r.at = at /\ r.todo = handler[h].todo
      /\ r.start = handler[h].start /\ r.patch = handler[h].patch /\ r.got = got
  BY <1>2
<1>4. "idle" \notin Kinds
  BY DEF Kinds, OnList, Persist
<1>5. r \in Handler /\ r # Idle
  BY <1>2, <1>3, <1>4 DEF Handler, Kinds, Idle
<1> HIDE DEF r
<1> QED
  BY <1>1, <1>3, <1>5

-----------------------------------------------------------------------------
(* The lists the page makes of its rows.                                   *)

LEMMA UnsavedFacts ==
  ASSUME fields \in Seq(Row)
  PROVE  /\ unsavedRows \in Seq(Row)
         /\ \A j \in DOMAIN unsavedRows : \E i \in DOMAIN fields : unsavedRows[j] = fields[i] /\ ~Saved(fields[i])
         /\ \A j, k \in DOMAIN unsavedRows : j # k =>
              \E i, l \in DOMAIN fields : i # l /\ unsavedRows[j] = fields[i] /\ unsavedRows[k] = fields[l]
         /\ unsavedRows = <<>> <=> \A i \in DOMAIN fields : Saved(fields[i])
<1> DEFINE I == {i \in DOMAIN fields : ~Saved(fields[i])}
<1>0. I \in SUBSET DOMAIN fields
  OBVIOUS
<1> HIDE DEF I
<1>1. /\ At(fields, I) \in Seq(Row)
      /\ \A n \in DOMAIN At(fields, I) : Nth(I, n) \in I /\ At(fields, I)[n] = fields[Nth(I, n)]
      /\ \A m, n \in DOMAIN At(fields, I) : m # n => Nth(I, m) # Nth(I, n)
      /\ At(fields, I) = <<>> <=> I = {}
  BY <1>0, AtFacts
<1>2. unsavedRows = At(fields, I)
  BY DEF unsavedRows, I
<1>3. I \subseteq DOMAIN fields /\ \A i \in I : ~Saved(fields[i])
  BY DEF I
<1>4. I = {} <=> \A i \in DOMAIN fields : Saved(fields[i])
  BY DEF I
<1> QED
  BY <1>1, <1>2, <1>3, <1>4

LEMMA CompleteFacts ==
  ASSUME NEW rows \in Seq(Row), NEW todo, todo = Complete(rows)
  PROVE  /\ todo \in Seq(Row)
         /\ \A j \in DOMAIN todo : \E i \in DOMAIN rows : todo[j] = rows[i] /\ rows[i].text # Blank
         /\ \A j, k \in DOMAIN todo : j # k =>
              \E i, l \in DOMAIN rows : i # l /\ todo[j] = rows[i] /\ todo[k] = rows[l]
<1> DEFINE I == {i \in DOMAIN rows : rows[i].text # Blank}
<1>0. I \in SUBSET DOMAIN rows
  OBVIOUS
<1> HIDE DEF I
<1>1. /\ At(rows, I) \in Seq(Row)
      /\ \A n \in DOMAIN At(rows, I) : Nth(I, n) \in I /\ At(rows, I)[n] = rows[Nth(I, n)]
      /\ \A m, n \in DOMAIN At(rows, I) : m # n => Nth(I, m) # Nth(I, n)
  BY <1>0, AtFacts
<1>2. todo = At(rows, I)
  BY DEF Complete, I
<1>3. I \subseteq DOMAIN rows /\ \A i \in I : rows[i].text # Blank
  BY DEF I
<1> QED
  BY <1>1, <1>2, <1>3

LEMMA WithoutFacts ==
  ASSUME fields \in Seq(Row), NEW key
  PROVE  /\ Without(key) \in Seq(Row)
         /\ \A j \in DOMAIN Without(key) : \E i \in DOMAIN fields : Without(key)[j] = fields[i] /\ fields[i].key # key
         /\ \A j, k \in DOMAIN Without(key) : j # k =>
              \E i, l \in DOMAIN fields : i # l /\ Without(key)[j] = fields[i] /\ Without(key)[k] = fields[l]
         /\ \A i \in DOMAIN fields : fields[i].key # key => \E j \in DOMAIN Without(key) : Without(key)[j] = fields[i]
<1> DEFINE I == {i \in DOMAIN fields : fields[i].key # key}
<1>0. I \in SUBSET DOMAIN fields
  OBVIOUS
<1> HIDE DEF I
<1>1. /\ At(fields, I) \in Seq(Row)
      /\ \A n \in DOMAIN At(fields, I) : Nth(I, n) \in I /\ At(fields, I)[n] = fields[Nth(I, n)]
      /\ \A i \in I : \E n \in DOMAIN At(fields, I) : Nth(I, n) = i
      /\ \A m, n \in DOMAIN At(fields, I) : m # n => Nth(I, m) # Nth(I, n)
  BY <1>0, AtFacts
<1>2. Without(key) = At(fields, I)
  BY DEF Without, I
<1>3. I \subseteq DOMAIN fields /\ \A i \in I : fields[i].key # key
  BY DEF I
<1>4. \A i \in DOMAIN fields : fields[i].key # key => i \in I
  BY DEF I
<1> QED
  BY <1>1, <1>2, <1>3, <1>4

\* What becomes of the rows when the answer to a save arrives.
LEMMA ReplacedFacts ==
  ASSUME fields \in Seq(Row), NEW key \in Key, NEW saved \in Row,
         NEW new, new = [i \in DOMAIN fields |-> saved] \/ new = [i \in DOMAIN fields |-> Merged(saved, fields[i])],
         NEW rows, rows = Replaced(key, new)
  PROVE  /\ rows \in Seq(Row) /\ DOMAIN rows = DOMAIN fields /\ Len(rows) = Len(fields)
         /\ \A i \in DOMAIN fields : fields[i].key # key => rows[i] = fields[i]
         /\ \A i \in DOMAIN fields : fields[i].key = key =>
              rows[i] = new[i] /\ rows[i].id = saved.id /\ rows[i].order = saved.order
<1>1. Len(fields) \in Nat /\ DOMAIN fields = 1 .. Len(fields) /\ \A i \in DOMAIN fields : fields[i] \in Row
  OBVIOUS
<1>2. \A i \in DOMAIN fields :
        /\ Merged(saved, fields[i]) \in Row
        /\ Merged(saved, fields[i]).id = saved.id /\ Merged(saved, fields[i]).order = saved.order
  BY <1>1 DEF Merged, Row
<1>3. \A i \in DOMAIN fields : new[i] \in Row /\ new[i].id = saved.id /\ new[i].order = saved.order
  BY <1>2
<1>4. rows \in [1 .. Len(fields) -> Row]
  BY <1>1, <1>3 DEF Replaced
<1>5. \A i \in DOMAIN fields : rows[i] = IF fields[i].key = key THEN new[i] ELSE fields[i]
  BY DEF Replaced
<1>6. rows \in Seq(Row) /\ DOMAIN rows = DOMAIN fields /\ Len(rows) = Len(fields)
  BY <1>1, <1>4
<1> QED
  BY <1>3, <1>5, <1>6

-----------------------------------------------------------------------------
(* Every step keeps the types.  They fall into parts a step keeps for      *)
(* reasons of their own.                                                   *)

DataOK ==
  /\ DOMAIN server \subseteq 1 .. MaxFields
  /\ \A i \in DOMAIN server : server[i] \in [text : Text, order : Nat]
  /\ stored \in Meta /\ exists \in BOOLEAN
  /\ made \in [1 .. MaxRows -> Nat] /\ nextId \in 1 .. MaxFields + 1

ListOK == fields \in Seq(Row) /\ \A i \in DOMAIN fields : RowOK(fields[i])

HandlersOK == handler \in [Slot -> Handler] /\ \A h \in Slot : HandlerOK(handler[h])

RoomOK == nextTemp \in 1 .. MaxRows + 1 /\ nextTemp - 1 + Generated * Cardinality(Generating) <= MaxRows

RestOK ==
  /\ page \in {"loading", "shown", "missing", "upload", "left"} /\ shownMeta \in Meta
  /\ rowBusy \in Key /\ savingMeta \in BOOLEAN /\ generating \in BOOLEAN
  /\ testing \in BOOLEAN /\ savingAll \in BOOLEAN
  /\ unsure \in BOOLEAN /\ gap \in BOOLEAN
  /\ ops \in 0 .. MaxOps /\ opens \in 0 .. MaxOpens /\ faults \in 0 .. MaxFaults

LEMMA TypesParts ==
  /\ Types <=> DataOK /\ ListOK /\ HandlersOK /\ RoomOK /\ RestOK
  /\ Types' <=> (DataOK /\ ListOK /\ HandlersOK /\ RoomOK /\ RestOK)'
<1>1. /\ {savingMeta, generating, testing, savingAll} \subseteq BOOLEAN <=>
           savingMeta \in BOOLEAN /\ generating \in BOOLEAN /\ testing \in BOOLEAN /\ savingAll \in BOOLEAN
      /\ {savingMeta', generating', testing', savingAll'} \subseteq BOOLEAN <=>
           savingMeta' \in BOOLEAN /\ generating' \in BOOLEAN /\ testing' \in BOOLEAN /\ savingAll' \in BOOLEAN
  BY Zenon
<1> QED
  BY <1>1 DEF Types, TypeOK, DataOK, ListOK, HandlersOK, RoomOK, RestOK

LEMMA BoundsNat ==
  /\ MaxRows \in Nat /\ Generated \in Nat /\ MaxFields \in Nat
  /\ MaxOps \in Nat /\ MaxOpens \in Nat /\ MaxFaults \in Nat
  BY BuilderAssumption

LEMMA GeneratingFinite == IsFiniteSet(Generating) /\ Cardinality(Generating) \in Nat
<1>1. Generating \in SUBSET Slot
  BY DEF Generating
<1> QED
  BY <1>1, BuilderAssumption, FS_Subset, FS_CardinalityType

\* One handler changes.
LEMMA OneHandler ==
  ASSUME HandlersOK, NEW h \in Slot, NEW r \in Handler, HandlerOK(r), handler' = [handler EXCEPT ![h] = r]
  PROVE  /\ HandlersOK'
         /\ \A g \in Slot : g # h => handler'[g] = handler[g]
         /\ handler'[h] = r
         /\ r.do = "generate" => Generating' = Generating \cup {h}
         /\ r.do # "generate" => Generating' = Generating \ {h}
  BY DEF HandlersOK, Generating

LEMMA RoomKept ==
  ASSUME HandlersOK, RoomOK, UNCHANGED nextTemp, NEW h \in Slot, NEW r \in Handler, HandlerOK(r),
         handler' = [handler EXCEPT ![h] = r], r.do = "generate" => handler[h].do = "generate"
  PROVE  RoomOK'
<1>1. Generating' \in SUBSET Generating
  BY OneHandler DEF Generating
<1>2. Cardinality(Generating') <= Cardinality(Generating) /\ Cardinality(Generating') \in Nat
  BY <1>1, GeneratingFinite, FS_Subset, FS_CardinalityType
<1>3. Generated * Cardinality(Generating') <= Generated * Cardinality(Generating)
  <2>1. Generated \in Nat
    BY BoundsNat
  <2>2. \A a, b, c \in Nat : b <= c => a * b <= a * c
    OBVIOUS
  <2> QED
    BY <1>2, <2>1, <2>2, GeneratingFinite
<1> QED
  BY <1>2, <1>3, GeneratingFinite, BoundsNat DEF RoomOK

\* A handler starts that generates nothing.
LEMMA StartTypes ==
  ASSUME Types, NEW do \in Kinds \ {"generate"}, NEW todo \in Seq(Row), NEW start \in Nat,
         NEW patch \in Patch, Start(do, todo, start, patch), UNCHANGED nextTemp,
         do \in Persist => todo # <<>> /\ \A i \in DOMAIN todo : RowOK(todo[i]) /\ todo[i].text # Blank,
         do = "delete" => todo # <<>> /\ Saved(todo[1])
  PROVE  HandlersOK' /\ RoomOK'
<1>1. PICK h \in Slot : handler[h] = Idle /\ handler' = [handler EXCEPT ![h] = Begun(do, todo, start, patch)]
  BY StartFacts
<1>0. do \in Kinds
  OBVIOUS
<1>a. /\ Begun(do, todo, start, patch) \in Handler
      /\ Begun(do, todo, start, patch).do = do /\ Begun(do, todo, start, patch).todo = todo
      /\ Begun(do, todo, start, patch).at = "asked" /\ Begun(do, todo, start, patch).got = Nothing
  <2>1. Begun(do, todo, start, patch) \in Handler
    BY <1>0, BegunFacts, Zenon
  <2> QED
    BY <2>1 DEF Begun
<1>2. PICK r \in Handler : r = Begun(do, todo, start, patch) /\ r.do = do /\ r.todo = todo
                           /\ r.at = "asked" /\ r.got = Nothing
  BY <1>a
<1>3. HandlerOK(r)
  BY <1>2, Values DEF HandlerOK
<1>4. HandlersOK /\ RoomOK /\ handler' = [handler EXCEPT ![h] = r]
  BY <1>1, <1>2, TypesParts
<1> QED
  BY <1>2, <1>3, <1>4, OneHandler, RoomKept

LEMMA InitTypes == Init => Types
<1> SUFFICES ASSUME Init PROVE Types
  OBVIOUS
<1>1. handler = [h \in Slot |-> Idle]
  BY DEF Init
<1>2. HandlersOK
  BY <1>1, Values DEF HandlersOK
<1>3. Generating = {}
  BY <1>1, Values DEF Generating
<1>4. RoomOK
  <2>1. Cardinality(Generating) = 0
    BY <1>3, FS_EmptySet
  <2> QED
    BY <2>1, BoundsNat DEF RoomOK, Init
<1>5. DataOK
  BY Values, BoundsNat DEF DataOK, Init
<1>6. ListOK
  BY Values DEF ListOK, Init
<1>7. RestOK
  <2>1. ops \in 0 .. MaxOps /\ opens \in 0 .. MaxOpens /\ faults \in 0 .. MaxFaults
    BY BoundsNat DEF Init
  <2>2. /\ savingMeta \in BOOLEAN /\ generating \in BOOLEAN /\ testing \in BOOLEAN /\ savingAll \in BOOLEAN
        /\ unsure \in BOOLEAN /\ gap \in BOOLEAN
    BY DEF Init
  <2>3. page = "left" /\ shownMeta \in Meta /\ rowBusy \in Key
    BY Values DEF Init
  <2> QED
    BY <2>1, <2>2, <2>3 DEF RestOK
<1> QED
  BY <1>2, <1>4, <1>5, <1>6, <1>7, TypesParts

-----------------------------------------------------------------------------
(* The user's steps.                                                       *)

LEMMA OpenTypes == Types /\ Open => Types'
<1> SUFFICES ASSUME Types, Open PROVE Types'
  OBVIOUS
<1>1. HandlersOK' /\ RoomOK'
  BY StartTypes, Values DEF Open, Kinds, OnList, Persist
<1>2. DataOK' /\ ListOK' /\ RestOK'
  BY TypesParts, BoundsNat DEF Open, DataOK, ListOK, RestOK, RowOK, Saved, data, flags
<1> QED
  BY <1>1, <1>2, TypesParts

LEMMA UnmountTypes ==
  ASSUME Types, NEW next \in {"upload", "left"}, Unmount(next), ops' \in 0 .. MaxOps
  PROVE  Types'
<1>1. \A h \in Slot : handler[h] # Idle =>
        /\ [handler[h] EXCEPT !.on = FALSE] \in Handler /\ HandlerOK([handler[h] EXCEPT !.on = FALSE])
        /\ [handler[h] EXCEPT !.on = FALSE].do = handler[h].do
  <2> SUFFICES ASSUME NEW h \in Slot, handler[h] # Idle
               PROVE  /\ [handler[h] EXCEPT !.on = FALSE] \in Handler /\ HandlerOK([handler[h] EXCEPT !.on = FALSE])
                      /\ [handler[h] EXCEPT !.on = FALSE].do = handler[h].do
    OBVIOUS
  <2>1. handler[h] \in [do : Kinds, on : BOOLEAN, at : {"asked", "ok", "no"}, todo : Seq(Row), start : Nat,
                        patch : Patch, got : [rows : Seq(Row), meta : Meta]] /\ HandlerOK(handler[h])
    BY TypesParts DEF HandlersOK, Handler, Kinds
  <2>2. PICK r : r = [handler[h] EXCEPT !.on = FALSE]
    OBVIOUS
  <2>3. /\ r \in [do : Kinds, on : BOOLEAN, at : {"asked", "ok", "no"}, todo : Seq(Row), start : Nat,
                  patch : Patch, got : [rows : Seq(Row), meta : Meta]]
        /\ r.do = handler[h].do /\ r.at = handler[h].at /\ r.todo = handler[h].todo /\ r.got = handler[h].got
    BY <2>1, <2>2
  <2>4. r \in Handler
    BY <2>3 DEF Handler, Kinds
  <2>5. HandlerOK(r)
    BY <2>1, <2>3 DEF HandlerOK
  <2> QED
    BY <2>2, <2>3, <2>4, <2>5
<1>2. handler' = [h \in Slot |-> IF handler[h] = Idle THEN Idle ELSE [handler[h] EXCEPT !.on = FALSE]]
  BY DEF Unmount
<1>3. \A h \in Slot : handler'[h] \in Handler /\ HandlerOK(handler'[h]) /\ handler'[h].do = handler[h].do
  BY <1>1, <1>2, Values
<1>4. HandlersOK'
  BY <1>2, <1>3 DEF HandlersOK
<1>5. Generating' = Generating
  BY <1>3 DEF Generating
<1>6. RoomOK'
  BY <1>5, TypesParts DEF RoomOK, Unmount
<1>7. DataOK' /\ ListOK' /\ RestOK'
  BY TypesParts, Values DEF Unmount, DataOK, ListOK, RestOK, data
<1> QED
  BY <1>4, <1>6, <1>7, TypesParts

LEMMA OperationTypes ==
  ASSUME Types, Operation
  PROVE  ops' \in 0 .. MaxOps
  BY TypesParts, BoundsNat DEF Operation, RestOK

LEMMA LeaveTypes == Types /\ (GoUpload \/ Leave) => Types'
<1>1. ASSUME Types, GoUpload PROVE Types'
  BY <1>1, OperationTypes, UnmountTypes DEF GoUpload
<1>2. ASSUME Types, Leave PROVE Types'
  <2>1. ops' \in 0 .. MaxOps
    BY <1>2, TypesParts DEF Leave, RestOK
  <2> QED
    BY <1>2, <2>1, UnmountTypes DEF Leave
<1> QED
  BY <1>1, <1>2

LEMMA DeleteBlueprintTypes == Types /\ DeleteBlueprint => Types'
<1> SUFFICES ASSUME Types, DeleteBlueprint PROVE Types'
  OBVIOUS
<1>1. DataOK' /\ RestOK'
  <2>1. DOMAIN server' = {}
    BY DEF DeleteBlueprint
  <2>2. DataOK'
    BY <2>1, TypesParts DEF DeleteBlueprint, DataOK
  <2>3. RestOK'
    BY TypesParts, BoundsNat DEF DeleteBlueprint, RestOK, screen, flags
  <2> QED
    BY <2>2, <2>3
<1>2. ListOK' /\ HandlersOK' /\ RoomOK'
  BY TypesParts DEF DeleteBlueprint, ListOK, HandlersOK, RoomOK, Generating, screen
<1> QED
  BY <1>1, <1>2, TypesParts

LEMMA StillTypes ==
  ASSUME Types, UNCHANGED <<handler, nextTemp>>
  PROVE  HandlersOK' /\ RoomOK'
<1>1. Generating' = Generating
  BY DEF Generating
<1> QED
  BY <1>1, TypesParts DEF HandlersOK, RoomOK

LEMMA KindFacts ==
  /\ {"save", "bulk", "keep", "generate", "delete", "move", "load", "meta", "test"} = Kinds
  /\ OnList = {"save", "bulk", "keep", "generate", "delete", "move", "load"}
  /\ Persist = {"save", "bulk", "keep"}
  BY DEF Kinds, OnList, Persist

LEMMA updateMetaTypes ==
  ASSUME Types, NEW column \in {"thinking", "override"}, updateMeta(column)
  PROVE  Types'
<1>1. PICK value \in BOOLEAN : Start("meta", <<>>, 0, [column |-> column, value |-> value])
  BY DEF updateMeta
<1>2. PICK patch \in Patch : Start("meta", <<>>, 0, patch)
  <2>1. [column |-> column, value |-> value] \in Patch
    BY DEF Patch
  <2> QED
    BY <1>1, <2>1
<1>3. HandlersOK' /\ RoomOK'
  <2>1. UNCHANGED nextTemp
    BY DEF updateMeta
  <2> QED
    BY <1>2, <2>1, StartTypes, Values, KindFacts
<1>4. DataOK' /\ ListOK'
  BY TypesParts DEF updateMeta, DataOK, ListOK, data
<1>5. RestOK'
  BY TypesParts, OperationTypes DEF updateMeta, RestOK
<1> QED
  BY <1>3, <1>4, <1>5, TypesParts

LEMMA updateRowTypes ==
  ASSUME Types, NEW i \in DOMAIN fields, updateRow(i)
  PROVE  Types'
<1>1. PICK text \in Text \cup {Blank} : fields' = [fields EXCEPT ![i].text = text]
  BY DEF updateRow
<1>2. fields \in Seq(Row) /\ fields[i] \in Row
  BY TypesParts DEF ListOK
<1>3. PICK row : row = [fields[i] EXCEPT !.text = text]
  OBVIOUS
<1>4. row \in Row /\ row.key = fields[i].key /\ row.id = fields[i].id
  BY <1>2, <1>3 DEF Row
<1>5. fields' = [fields EXCEPT ![i] = row]
  BY <1>1, <1>3
<1>6. ListOK'
  <2>1. fields' \in Seq(Row) /\ DOMAIN fields' = DOMAIN fields
    BY <1>2, <1>4, <1>5
  <2>2. \A j \in DOMAIN fields : fields'[j] = IF j = i THEN row ELSE fields[j]
    BY <1>2, <1>5
  <2> QED
    BY <1>4, <2>1, <2>2, TypesParts DEF ListOK, RowOK, Saved
<1>7. HandlersOK' /\ RoomOK'
  BY StillTypes DEF updateRow
<1>8. DataOK' /\ RestOK'
  BY TypesParts DEF updateRow, DataOK, RestOK, data, flags, bounds
<1> QED
  BY <1>6, <1>7, <1>8, TypesParts

LEMMA NewRow ==
  ASSUME NEW n \in 1 .. MaxRows, NEW text \in Text \cup {Blank}, NEW order \in Nat
  PROVE  /\ blankField(n, text, order) \in Row /\ RowOK(blankField(n, text, order))
         /\ blankField(n, text, order).key = <<"new", n>> /\ blankField(n, text, order).id = NoId
         /\ blankField(n, text, order).text = text /\ blankField(n, text, order).order = order
<1>1. <<"new", n>> \in Key
  BY DEF Key
<1>2. NoId \in 0 .. MaxFields
  BY BoundsNat DEF NoId
<1> QED
  BY <1>1, <1>2 DEF blankField, Row, RowOK

LEMMA addRowTypes == Types /\ addRow => Types'
<1> SUFFICES ASSUME Types, addRow PROVE Types'
  OBVIOUS
<1>1. /\ fields \in Seq(Row) /\ Len(fields) \in Nat /\ nextTemp \in Nat \ {0} /\ nextTemp - 1 < MaxRows
      /\ nextTemp + Generated * Cardinality(Generating) <= MaxRows
  <2>1. nextTemp + 1 - 1 + Generated * Cardinality(Generating) <= MaxRows
    BY DEF addRow, Room, Generating
  <2>2. Generated * Cardinality(Generating) \in Nat
    BY BoundsNat, GeneratingFinite
  <2> QED
    BY <2>1, <2>2, TypesParts, BoundsNat DEF ListOK, RoomOK
<1>2. PICK row : row = blankField(nextTemp, Blank, Len(fields))
  OBVIOUS
<1>3. row \in Row /\ RowOK(row)
  <2>1. nextTemp \in 1 .. MaxRows /\ Blank \in Text \cup {Blank} /\ Len(fields) \in Nat
    BY <1>1, BoundsNat
  <2> QED
    BY <1>2, <2>1, NewRow
<1>4. fields' = Append(fields, row)
  BY <1>2 DEF addRow
<1>5. ListOK'
  <2>1. fields' \in Seq(Row) /\ \A j \in DOMAIN fields' : fields'[j] = row \/ (j \in DOMAIN fields /\ fields'[j] = fields[j])
    BY <1>1, <1>3, <1>4
  <2> QED
    BY <1>3, <2>1, TypesParts DEF ListOK
<1>6. Generating' = Generating /\ HandlersOK'
  BY TypesParts DEF addRow, Generating, HandlersOK
<1>7. RoomOK'
  BY <1>1, <1>6, BoundsNat, GeneratingFinite DEF RoomOK, addRow
<1>8. DataOK'
  BY TypesParts DEF addRow, DataOK, data
<1>9. RestOK'
  BY TypesParts, OperationTypes DEF addRow, RestOK, flags
<1> QED
  BY <1>5, <1>6, <1>7, <1>8, <1>9, TypesParts

LEMMA saveRowTypes ==
  ASSUME Types, NEW i \in DOMAIN fields, saveRow(i)
  PROVE  Types'
<1>1. fields[i] \in Row /\ RowOK(fields[i])
  BY TypesParts DEF ListOK
<1>2. HandlersOK' /\ RoomOK'
  <2>1. CASE UNCHANGED handler
    BY <2>1, StillTypes DEF saveRow
  <2>2. CASE fields[i].text # Blank /\ Start("save", <<fields[i]>>, 0, NoPatch)
    <3>1. PICK todo : todo = <<fields[i]>>
      OBVIOUS
    <3>2. todo \in Seq(Row) /\ todo # <<>> /\ \A j \in DOMAIN todo : todo[j] = fields[i]
      BY <1>1, <3>1
    <3>3. UNCHANGED nextTemp
      BY DEF saveRow
    <3>4. Start("save", todo, 0, NoPatch) /\ "save" \in Kinds \ {"generate"}
      BY <2>2, <3>1, KindFacts
    <3> QED
      BY <1>1, <2>2, <3>2, <3>3, <3>4, StartTypes, Values
  <2> QED
    BY <2>1, <2>2 DEF saveRow
<1>3. DataOK' /\ ListOK'
  BY TypesParts DEF saveRow, DataOK, ListOK, data
<1>4. RestOK'
  <2>1. rowBusy' \in Key
    BY <1>1, Values DEF saveRow, Row
  <2> QED
    BY <2>1, TypesParts, OperationTypes DEF saveRow, RestOK
<1> QED
  BY <1>2, <1>3, <1>4, TypesParts

LEMMA saveAllUnsavedTypes == Types /\ saveAllUnsaved => Types'
<1> SUFFICES ASSUME Types, saveAllUnsaved PROVE Types'
  OBVIOUS
<1>1. fields \in Seq(Row) /\ \A i \in DOMAIN fields : RowOK(fields[i])
  BY TypesParts DEF ListOK
<1>2. PICK todo : todo = Complete(unsavedRows)
  OBVIOUS
<1>3. todo \in Seq(Row) /\ \A j \in DOMAIN todo : RowOK(todo[j]) /\ todo[j].text # Blank
  <2>1. unsavedRows \in Seq(Row) /\ \A j \in DOMAIN unsavedRows : RowOK(unsavedRows[j])
    BY <1>1, UnsavedFacts
  <2>2. PICK rows \in Seq(Row) : rows = unsavedRows /\ \A j \in DOMAIN rows : RowOK(rows[j])
    BY <2>1
  <2> QED
    BY <1>2, <2>2, CompleteFacts
<1>4. HandlersOK' /\ RoomOK'
  <2>1. CASE UNCHANGED handler
    BY <2>1, StillTypes DEF saveAllUnsaved
  <2>2. CASE todo # <<>> /\ Start("bulk", todo, 0, NoPatch)
    <3>1. UNCHANGED nextTemp
      BY DEF saveAllUnsaved
    <3>2. "bulk" \in Kinds \ {"generate"}
      BY KindFacts
    <3> QED
      BY <1>3, <2>2, <3>1, <3>2, StartTypes, Values
  <2> QED
    BY <1>2, <2>1, <2>2 DEF saveAllUnsaved
<1>5. DataOK' /\ ListOK'
  BY TypesParts DEF saveAllUnsaved, DataOK, ListOK, data
<1>6. RestOK'
  <2>1. savingAll' \in BOOLEAN
    BY TypesParts DEF saveAllUnsaved, RestOK
  <2> QED
    BY <2>1, TypesParts, OperationTypes DEF saveAllUnsaved, RestOK
<1> QED
  BY <1>4, <1>5, <1>6, TypesParts

LEMMA deleteRowTypes ==
  ASSUME Types, NEW i \in DOMAIN fields, deleteRow(i)
  PROVE  Types'
<1>1. fields \in Seq(Row) /\ fields[i] \in Row /\ \A j \in DOMAIN fields : RowOK(fields[j])
  BY TypesParts DEF ListOK
<1>2. UNCHANGED nextTemp
  BY DEF deleteRow
<1>3. CASE ~Saved(fields[i]) /\ fields' = Without(fields[i].key) /\ UNCHANGED <<rowBusy, handler>>
  <2>1. ListOK'
    BY <1>1, <1>3, WithoutFacts DEF ListOK
  <2>2. HandlersOK' /\ RoomOK'
    BY <1>2, <1>3, StillTypes
  <2>3. RestOK'
    BY <1>3, TypesParts, OperationTypes DEF deleteRow, RestOK
  <2>4. DataOK'
    BY TypesParts DEF deleteRow, DataOK, data
  <2> QED
    BY <2>1, <2>2, <2>3, <2>4, TypesParts
<1>4. CASE Saved(fields[i]) /\ rowBusy' = fields[i].key /\ Start("delete", <<fields[i]>>, 0, NoPatch) /\ UNCHANGED fields
  <2>1. ListOK'
    BY <1>1, <1>4 DEF ListOK
  <2>2. HandlersOK' /\ RoomOK'
    <3>1. PICK todo : todo = <<fields[i]>>
      OBVIOUS
    <3>2. todo \in Seq(Row) /\ todo # <<>> /\ Saved(todo[1])
      BY <1>1, <1>4, <3>1
    <3>3. Start("delete", todo, 0, NoPatch) /\ "delete" \in Kinds \ {"generate"} /\ "delete" \notin Persist
      BY <1>4, <3>1, KindFacts
    <3> QED
      BY <1>2, <3>2, <3>3, StartTypes, Values
  <2>3. RestOK'
    <3>1. rowBusy' \in Key
      BY <1>1, <1>4 DEF Row
    <3> QED
      BY <3>1, TypesParts, OperationTypes DEF deleteRow, RestOK
  <2>4. DataOK'
    BY TypesParts DEF deleteRow, DataOK, data
  <2> QED
    BY <2>1, <2>2, <2>3, <2>4, TypesParts
<1> QED
  BY <1>3, <1>4 DEF deleteRow

\* Two rows change places.
LEMMA SwapFacts ==
  ASSUME fields \in Seq(Row), NEW i \in DOMAIN fields, i + 1 \in DOMAIN fields,
         NEW swapped, swapped = [fields EXCEPT ![i] = fields[i + 1], ![i + 1] = fields[i]]
  PROVE  /\ swapped \in Seq(Row) /\ DOMAIN swapped = DOMAIN fields
         /\ swapped[i] = fields[i + 1] /\ swapped[i + 1] = fields[i]
         /\ \A j \in DOMAIN fields \ {i, i + 1} : swapped[j] = fields[j]
  OBVIOUS

LEMMA moveRowTypes ==
  ASSUME Types, NEW i \in DOMAIN fields, moveRow(i)
  PROVE  Types'
<1>1. fields \in Seq(Row) /\ \A j \in DOMAIN fields : RowOK(fields[j])
  BY TypesParts DEF ListOK
<1>2. PICK swapped : swapped = [fields EXCEPT ![i] = fields[i + 1], ![i + 1] = fields[i]]
  OBVIOUS
<1>3. i + 1 \in DOMAIN fields /\ fields' = swapped /\ Start("move", swapped, 0, NoPatch) /\ UNCHANGED nextTemp
  BY <1>2 DEF moveRow
<1>4. swapped \in Seq(Row) /\ \A j \in DOMAIN swapped : RowOK(swapped[j])
  BY <1>1, <1>2, <1>3, SwapFacts
<1>5. HandlersOK' /\ RoomOK'
  <2>1. "move" \in Kinds \ {"generate"} /\ "move" \notin Persist
    BY KindFacts
  <2> QED
    BY <1>3, <1>4, <2>1, StartTypes, Values
<1>6. ListOK'
  BY <1>3, <1>4 DEF ListOK
<1>7. DataOK' /\ RestOK'
  BY TypesParts, OperationTypes DEF moveRow, DataOK, RestOK, data, flags
<1> QED
  BY <1>5, <1>6, <1>7, TypesParts

LEMMA handleGenerateTypes == Types /\ handleGenerate => Types'
<1> SUFFICES ASSUME Types, handleGenerate PROVE Types'
  OBVIOUS
<1>1. fields \in Seq(Row) /\ Len(fields) \in Nat /\ UNCHANGED nextTemp
  BY TypesParts DEF ListOK, handleGenerate
<1>2. Start("generate", <<>>, Len(fields), NoPatch)
  BY DEF handleGenerate
<1>3. PICK h \in Slot : handler[h] = Idle /\ handler' = [handler EXCEPT ![h] = Begun("generate", <<>>, Len(fields), NoPatch)]
  BY <1>2, StartFacts
<1>4. PICK r \in Handler : r = Begun("generate", <<>>, Len(fields), NoPatch) /\ r.do = "generate"
                           /\ r.todo = <<>> /\ r.at = "asked" /\ r.got = Nothing
  <2>1. "generate" \in Kinds
    BY KindFacts
  <2>2. Begun("generate", <<>>, Len(fields), NoPatch) \in Handler
    BY <1>1, <2>1, Values, BegunFacts
  <2> QED
    BY <2>2 DEF Begun
<1>5. HandlerOK(r)
  <2>1. Len(r.got.rows) = 0
    BY <1>4, Values
  <2> QED
    BY <1>4, <2>1, BoundsNat, KindFacts DEF HandlerOK
<1>6. HandlersOK /\ handler' = [handler EXCEPT ![h] = r]
  BY <1>3, <1>4, TypesParts
<1>7. HandlersOK' /\ Generating' = Generating \cup {h}
  BY <1>4, <1>5, <1>6, OneHandler
<1>8. RoomOK'
  <2>1. h \notin Generating
    BY <1>3, Values DEF Generating
  <2>2. Cardinality(Generating') = Cardinality(Generating) + 1
    BY <1>7, <2>1, GeneratingFinite, FS_AddElement
  <2>3. nextTemp + Generated - 1 + Generated * Cardinality(Generating) <= MaxRows
    BY DEF handleGenerate, Room, Generating
  <2>4. Generated * (Cardinality(Generating) + 1) = Generated * Cardinality(Generating) + Generated
    BY GeneratingFinite, BoundsNat
  <2>5. Generated * Cardinality(Generating) \in Nat
    BY GeneratingFinite, BoundsNat
  <2>6. nextTemp' = nextTemp /\ nextTemp \in 1 .. MaxRows + 1
    BY <1>1, TypesParts DEF RoomOK
  <2> QED
    BY <2>2, <2>3, <2>4, <2>5, <2>6, BoundsNat DEF RoomOK
<1>9. DataOK' /\ ListOK'
  BY TypesParts DEF handleGenerate, DataOK, ListOK, data
<1>10. RestOK'
  BY TypesParts, OperationTypes DEF handleGenerate, RestOK
<1> QED
  BY <1>7, <1>8, <1>9, <1>10, TypesParts

LEMMA handleTestTypes == Types /\ handleTest => Types'
<1> SUFFICES ASSUME Types, handleTest PROVE Types'
  OBVIOUS
<1>1. PICK todo \in Seq(Row) : Start("test", todo, 0, NoPatch)
  BY TypesParts DEF ListOK, handleTest
<1>2. HandlersOK' /\ RoomOK'
  <2>1. UNCHANGED nextTemp
    BY DEF handleTest
  <2>2. "test" \in Kinds \ {"generate"} /\ "test" \notin Persist
    BY KindFacts
  <2> QED
    BY <1>1, <2>1, <2>2, StartTypes, Values
<1>3. DataOK' /\ ListOK'
  BY TypesParts DEF handleTest, DataOK, ListOK, data
<1>4. RestOK'
  BY TypesParts, OperationTypes DEF handleTest, RestOK
<1> QED
  BY <1>2, <1>3, <1>4, TypesParts

-----------------------------------------------------------------------------
(* What the endpoints answer.                                              *)

Answerable == [rows : Seq(Row), meta : Meta]

LEMMA HeadFacts ==
  ASSUME NEW todo \in Seq(Row), todo # <<>>
  PROVE  /\ Head(todo) = todo[1] /\ todo[1] \in Row /\ 1 \in DOMAIN todo
         /\ Tail(todo) \in Seq(Row) /\ DOMAIN Tail(todo) = 1 .. Len(todo) - 1 /\ Len(todo) \in Nat \ {0}
         /\ \A j \in DOMAIN Tail(todo) : j + 1 \in DOMAIN todo /\ Tail(todo)[j] = todo[j + 1]
         /\ Tail(todo) = <<>> <=> Len(todo) = 1
<1>1. /\ Tail(todo) \in Seq(Row) /\ Len(Tail(todo)) = Len(todo) - 1 /\ Len(todo) \in Nat \ {0}
      /\ \A j \in 1 .. Len(Tail(todo)) : Tail(todo)[j] = todo[j + 1]
  BY HeadTailProperties
<1>2. DOMAIN Tail(todo) = 1 .. Len(todo) - 1 /\ DOMAIN todo = 1 .. Len(todo)
  BY <1>1
<1>3. Tail(todo) = <<>> <=> Len(todo) = 1
  BY <1>1
<1>4. Head(todo) = todo[1] /\ todo[1] \in Row /\ 1 \in DOMAIN todo
  BY <1>1
<1>5. \A j \in DOMAIN Tail(todo) : j + 1 \in DOMAIN todo /\ Tail(todo)[j] = todo[j + 1]
  BY <1>1, <1>2
<1> QED
  BY <1>1, <1>2, <1>3, <1>4, <1>5

LEMMA AskedFacts ==
  ASSUME Types, NEW h \in Slot, Asked(h)
  PROVE  /\ handler \in [Slot -> Handler] /\ handler[h] \in Handler /\ HandlerOK(handler[h])
         /\ handler[h] # Idle /\ handler[h].at = "asked" /\ handler[h].todo \in Seq(Row)
         /\ handler[h].patch \in Patch
         /\ handler[h].do \in Persist \cup {"delete"} =>
              Head(handler[h].todo) = handler[h].todo[1] /\ handler[h].todo[1] \in Row
         /\ handler[h].do \in Persist =>
              RowOK(handler[h].todo[1]) /\ handler[h].todo[1].text \in Text
<1>1. handler \in [Slot -> Handler] /\ handler[h] \in Handler /\ HandlerOK(handler[h])
  BY TypesParts DEF HandlersOK
<1>2. handler[h].todo \in Seq(Row) /\ handler[h].patch \in Patch /\ handler[h].do \in Kinds
  BY <1>1, HandlerFacts DEF Asked
<1>3. ASSUME handler[h].do \in Persist \cup {"delete"}
      PROVE  Head(handler[h].todo) = handler[h].todo[1] /\ handler[h].todo[1] \in Row /\ 1 \in DOMAIN handler[h].todo
  <2>1. handler[h].todo # <<>>
    BY <1>1, <1>3 DEF HandlerOK
  <2> QED
    BY <1>2, <2>1, HeadFacts
<1>4. ASSUME handler[h].do \in Persist PROVE RowOK(handler[h].todo[1]) /\ handler[h].todo[1].text \in Text
  <2>1. handler[h].todo[1] \in Row /\ 1 \in DOMAIN handler[h].todo
    BY <1>3, <1>4
  <2>2. RowOK(handler[h].todo[1]) /\ handler[h].todo[1].text # Blank
    BY <1>1, <1>4, <2>1 DEF HandlerOK
  <2> QED
    BY <2>1, <2>2 DEF Row
<1> QED
  BY <1>1, <1>2, <1>3, <1>4 DEF Asked

LEMMA FromServerFacts ==
  ASSUME NEW id \in 1 .. MaxFields, NEW field \in [text : Text, order : Nat]
  PROVE  /\ FromServer(id, field) \in Row /\ Saved(FromServer(id, field)) /\ FromServer(id, field).id = id
         /\ FromServer(id, field).key = <<"id", id>> /\ FromServer(id, field).order = field.order
<1>1. <<"id", id>> \in Key /\ id \in 0 .. MaxFields /\ id # NoId
  BY BoundsNat DEF Key, NoId
<1> QED
  BY <1>1 DEF FromServer, Row, Saved

LEMMA OneRow ==
  ASSUME NEW row \in Row
  PROVE  /\ [Nothing EXCEPT !.rows = <<row>>] \in Answerable
         /\ [Nothing EXCEPT !.rows = <<row>>].rows = <<row>>
<1>1. <<row>> \in Seq(Row)
  OBVIOUS
<1>2. [Nothing EXCEPT !.rows = <<row>>] = [rows |-> <<row>>, meta |-> Off]
  BY DEF Nothing
<1> QED
  BY <1>1, <1>2, Values DEF Answerable

\* A field that is inserted, once or, by db_retry, twice.
LEMMA create_fieldFacts ==
  ASSUME Types, NEW h \in Slot, Asked(h), NEW heard, NEW times \in {1, 2}, create_field(h, heard, times)
  PROVE  /\ DataOK' /\ UNCHANGED <<stored, exists>> /\ exists
         /\ handler[h].do \in Persist /\ ~Saved(handler[h].todo[1]) /\ handler[h].todo[1].key[2] \in 1 .. MaxRows
         /\ \E got \in Answerable :
              /\ Answer(h, heard, got)
              /\ got.rows = <<FromServer(nextId + times - 1, [text |-> handler[h].todo[1].text, order |-> handler[h].todo[1].order])>>
              /\ Saved(got.rows[1])
<1>1. PICK row : row = handler[h].todo[1]
  OBVIOUS
<1>2. PICK field : field = [text |-> row.text, order |-> row.order]
  OBVIOUS
<1>3. PICK last : last = nextId + times - 1
  OBVIOUS
<1>4. PICK new : new = nextId .. last
  OBVIOUS
<1>a. handler[h].do \in Persist
  BY DEF create_field
<1>5. row = Head(handler[h].todo) /\ row \in Row /\ RowOK(row) /\ row.text \in Text
  BY <1>1, <1>a, AskedFacts
<1>6. /\ ~Saved(row) /\ exists /\ last <= MaxFields
      /\ server' = [i \in DOMAIN server \cup new |-> IF i \in new THEN field ELSE server[i]]
      /\ nextId' = nextId + times /\ made' = [made EXCEPT ![row.key[2]] = made[row.key[2]] + times]
      /\ Answer(h, heard, [Nothing EXCEPT !.rows = <<FromServer(last, field)>>])
      /\ UNCHANGED <<stored, exists>>
  BY <1>2, <1>3, <1>4, <1>5 DEF create_field
<1>7. nextId \in 1 .. MaxFields + 1 /\ last \in 1 .. MaxFields /\ new \subseteq 1 .. MaxFields
  BY <1>3, <1>4, <1>6, TypesParts, BoundsNat DEF DataOK
<1>8. field \in [text : Text, order : Nat]
  BY <1>2, <1>5 DEF Row
<1>9. row.key[2] \in 1 .. MaxRows
  <2>1. row.key \in Key /\ row.key[1] = "new"
    BY <1>5, <1>6 DEF Row, RowOK
  <2> QED
    BY <2>1 DEF Key, NoKey
<1>10. DataOK'
  <2>1. DOMAIN server' \subseteq 1 .. MaxFields
    BY <1>6, <1>7, TypesParts DEF DataOK
  <2>2. \A i \in DOMAIN server' : server'[i] \in [text : Text, order : Nat]
    BY <1>6, <1>8, TypesParts DEF DataOK
  <2>3. made' \in [1 .. MaxRows -> Nat]
    BY <1>6, <1>9, TypesParts DEF DataOK
  <2>4. nextId' \in 1 .. MaxFields + 1
    BY <1>3, <1>6, <1>7, BoundsNat
  <2> QED
    BY <1>6, <2>1, <2>2, <2>3, <2>4, TypesParts DEF DataOK
<1>11. FromServer(last, field) \in Row /\ Saved(FromServer(last, field))
  BY <1>7, <1>8, FromServerFacts
<1>12. PICK got \in Answerable : got = [Nothing EXCEPT !.rows = <<FromServer(last, field)>>]
                                 /\ got.rows = <<FromServer(last, field)>>
  BY <1>11, OneRow
<1>13. Answer(h, heard, got)
  BY <1>6, <1>12
<1>14. Saved(got.rows[1])
  BY <1>11, <1>12
<1> QED
  BY <1>1, <1>2, <1>3, <1>6, <1>9, <1>10, <1>12, <1>13, <1>14, <1>a

LEMMA update_fieldFacts ==
  ASSUME Types, NEW h \in Slot, Asked(h), NEW heard, update_field(h, heard)
  PROVE  /\ DataOK' /\ UNCHANGED <<stored, exists, made, nextId>>
         /\ handler[h].do \in Persist /\ handler[h].todo[1].id \in DOMAIN server
         /\ DOMAIN server' = DOMAIN server
         /\ server' = [server EXCEPT ![handler[h].todo[1].id] =
                         [text |-> handler[h].todo[1].text, order |-> handler[h].todo[1].order]]
         /\ \E got \in Answerable :
              /\ Answer(h, heard, got)
              /\ got.rows = <<FromServer(handler[h].todo[1].id, [text |-> handler[h].todo[1].text, order |-> handler[h].todo[1].order])>>
              /\ Saved(got.rows[1])
<1>1. PICK row : row = handler[h].todo[1]
  OBVIOUS
<1>2. PICK field : field = [text |-> row.text, order |-> row.order]
  OBVIOUS
<1>a. handler[h].do \in Persist
  BY DEF update_field
<1>3. row = Head(handler[h].todo) /\ row \in Row /\ row.text \in Text
  BY <1>1, <1>a, AskedFacts
<1>4. /\ row.id \in DOMAIN server /\ server' = [server EXCEPT ![row.id] = field]
      /\ Answer(h, heard, [Nothing EXCEPT !.rows = <<FromServer(row.id, field)>>])
      /\ UNCHANGED <<stored, exists, made, nextId>>
  BY <1>2, <1>3 DEF update_field
<1>5. field \in [text : Text, order : Nat]
  BY <1>2, <1>3 DEF Row
<1>6. DOMAIN server' = DOMAIN server
  BY <1>4
<1>7. DataOK'
  BY <1>4, <1>5, <1>6, TypesParts DEF DataOK
<1>8. FromServer(row.id, field) \in Row /\ Saved(FromServer(row.id, field))
  BY <1>4, <1>5, TypesParts, FromServerFacts DEF DataOK
<1>9. PICK got \in Answerable : got = [Nothing EXCEPT !.rows = <<FromServer(row.id, field)>>]
                                /\ got.rows = <<FromServer(row.id, field)>>
  BY <1>8, OneRow
<1>10. Answer(h, heard, got) /\ Saved(got.rows[1])
  BY <1>4, <1>8, <1>9
<1> QED
  BY <1>1, <1>2, <1>4, <1>6, <1>7, <1>9, <1>10, <1>a

LEMMA delete_fieldFacts ==
  ASSUME Types, NEW h \in Slot, Asked(h), NEW heard, delete_field(h, heard)
  PROVE  /\ DataOK' /\ UNCHANGED <<stored, exists, made, nextId>>
         /\ handler[h].do = "delete" /\ handler[h].todo[1].id \in DOMAIN server
         /\ DOMAIN server' = DOMAIN server \ {handler[h].todo[1].id}
         /\ Answer(h, heard, Nothing) /\ Nothing \in Answerable
<1>a. handler[h].do = "delete"
  BY DEF delete_field
<1>1. Head(handler[h].todo) = handler[h].todo[1]
  BY <1>a, AskedFacts
<1>2. PICK id : id = handler[h].todo[1].id
  OBVIOUS
<1>3. /\ id \in DOMAIN server /\ server' = [i \in DOMAIN server \ {id} |-> server[i]]
      /\ Answer(h, heard, Nothing) /\ UNCHANGED <<stored, exists, made, nextId>>
  BY <1>1, <1>2 DEF delete_field
<1>4. DOMAIN server' = DOMAIN server \ {id} /\ \A i \in DOMAIN server' : server'[i] = server[i]
  BY <1>3
<1>5. DataOK'
  BY <1>3, <1>4, TypesParts DEF DataOK
<1> QED
  BY <1>2, <1>3, <1>4, <1>5, <1>a, Values DEF Answerable

LEMMA update_blueprintFacts ==
  ASSUME Types, NEW h \in Slot, Asked(h), NEW heard, update_blueprint(h, heard)
  PROVE  /\ DataOK' /\ UNCHANGED <<server, exists, made, nextId>> /\ exists /\ handler[h].do = "meta"
         /\ \E got \in Answerable : Answer(h, heard, got) /\ got.rows = <<>> /\ got.meta = stored'
<1>1. PICK column, value : column = handler[h].patch.column /\ value = handler[h].patch.value
  OBVIOUS
<1>2. column \in {"none", "thinking", "override"} /\ value \in BOOLEAN
  BY <1>1, AskedFacts DEF Patch
<1>3. PICK meta : meta = [stored EXCEPT ![column] = value]
  OBVIOUS
<1>4. /\ stored' = meta /\ Answer(h, heard, [Nothing EXCEPT !.meta = meta])
      /\ UNCHANGED <<server, exists, made, nextId>> /\ exists /\ handler[h].do = "meta"
  BY <1>1, <1>3 DEF update_blueprint
<1>5. meta \in Meta
  <2>1. stored \in Meta
    BY TypesParts DEF DataOK
  <2> QED
    BY <1>2, <1>3, <2>1 DEF Meta
<1>6. DataOK'
  BY <1>4, <1>5, TypesParts DEF DataOK
<1>7. PICK got \in Answerable : got = [Nothing EXCEPT !.meta = meta] /\ got.rows = <<>> /\ got.meta = meta
  <2>1. [Nothing EXCEPT !.meta = meta] = [rows |-> <<>>, meta |-> meta]
    BY DEF Nothing
  <2>2. [rows |-> <<>>, meta |-> meta] \in Answerable
    BY <1>5, Values DEF Answerable
  <2> QED
    BY <2>1, <2>2
<1> QED
  BY <1>4, <1>6, <1>7

\* What a load is answered with: the fields in their order, or nothing.
Listed(got) ==
  \/ ~exists /\ DOMAIN got.rows = {}
  \/ \E s \in _ordered_fields :
       /\ DOMAIN got.rows = 1 .. Cardinality(DOMAIN server)
       /\ Len(got.rows) = Cardinality(DOMAIN server) /\ Cardinality(DOMAIN server) \in Nat
       /\ \A i \in DOMAIN got.rows : s[i] \in DOMAIN server /\ got.rows[i] = FromServer(s[i], server[s[i]])
       /\ got.meta = stored

LEMMA get_blueprintFacts ==
  ASSUME Types, NEW h \in Slot, Asked(h), get_blueprint(h)
  PROVE  /\ handler[h].do = "load" /\ UNCHANGED data
         /\ \E got \in Answerable :
              /\ Answer(h, "ok", got) /\ \A i \in DOMAIN got.rows : Saved(got.rows[i])
              /\ Listed(got)
<1>1. CASE ~exists /\ Answer(h, "ok", Nothing)
  BY <1>1, Values DEF get_blueprint, Answerable, Listed
<1>2. CASE exists /\ \E s \in _ordered_fields :
             Answer(h, "ok", [rows |-> [i \in DOMAIN s |-> FromServer(s[i], server[s[i]])], meta |-> stored])
  <2>1. PICK s \in _ordered_fields :
          Answer(h, "ok", [rows |-> [i \in DOMAIN s |-> FromServer(s[i], server[s[i]])], meta |-> stored])
    BY <1>2
  <2>2. PICK n : n = Cardinality(DOMAIN server)
    OBVIOUS
  <2>3. n \in Nat
    <3>1. DOMAIN server \in SUBSET (1 .. MaxFields) /\ MaxFields \in Int /\ 1 \in Int
      BY TypesParts, BoundsNat DEF DataOK
    <3> QED
      BY <2>2, <3>1, FS_Interval, FS_Subset, FS_CardinalityType
  <2>4. s \in [1 .. n -> DOMAIN server]
    BY <2>2 DEF _ordered_fields, Bijection, Injection
  <2>5. PICK rows : rows = [i \in DOMAIN s |-> FromServer(s[i], server[s[i]])]
    OBVIOUS
  <2>6. \A i \in 1 .. n : s[i] \in 1 .. MaxFields /\ server[s[i]] \in [text : Text, order : Nat]
    BY <2>4, TypesParts DEF DataOK
  <2>7. \A i \in 1 .. n : FromServer(s[i], server[s[i]]) \in Row /\ Saved(FromServer(s[i], server[s[i]]))
    BY <2>6, FromServerFacts
  <2>8. DOMAIN rows = 1 .. n /\ \A i \in 1 .. n : rows[i] = FromServer(s[i], server[s[i]])
    BY <2>4, <2>5
  <2>9. rows \in [1 .. n -> Row]
    BY <2>4, <2>5, <2>7
  <2>10. rows \in Seq(Row) /\ Len(rows) = n
    BY <2>3, <2>9
  <2>11. PICK got : got = [rows |-> rows, meta |-> stored]
    OBVIOUS
  <2>12. got \in Answerable /\ got.rows = rows /\ got.meta = stored
    BY <2>10, <2>11, TypesParts DEF Answerable, DataOK
  <2>13. Answer(h, "ok", got)
    BY <2>1, <2>5, <2>11
  <2>14. \A i \in DOMAIN got.rows : Saved(got.rows[i]) /\ s[i] \in DOMAIN server
    BY <2>4, <2>7, <2>8, <2>12
  <2> QED
    BY <2>2, <2>3, <2>8, <2>10, <2>12, <2>13, <2>14 DEF get_blueprint, Listed
<1> QED
  BY <1>1, <1>2 DEF get_blueprint

LEMMA generate_fieldsFacts ==
  ASSUME Types, NEW h \in Slot, Asked(h), generate_fields(h)
  PROVE  /\ handler[h].do = "generate" /\ UNCHANGED data /\ exists
         /\ \E got \in Answerable : Answer(h, "ok", got) /\ Len(got.rows) <= Generated
<1>0. PICK n \in 0 .. Generated : \E texts \in [1 .. n -> Text \cup {Blank}] :
        Answer(h, "ok", [Nothing EXCEPT !.rows =
           [i \in 1 .. n |-> [key |-> NoKey, id |-> NoId, text |-> texts[i], order |-> 0]]])
  BY DEF generate_fields
<1>1. PICK texts \in [1 .. n -> Text \cup {Blank}] :
        Answer(h, "ok", [Nothing EXCEPT !.rows =
           [i \in 1 .. n |-> [key |-> NoKey, id |-> NoId, text |-> texts[i], order |-> 0]]])
  BY <1>0
<1>2. PICK rows : rows = [i \in 1 .. n |-> [key |-> NoKey, id |-> NoId, text |-> texts[i], order |-> 0]]
  OBVIOUS
<1>3. rows \in [1 .. n -> Row]
  BY <1>2, Values, BoundsNat DEF Row, NoId
<1>4. rows \in Seq(Row) /\ Len(rows) <= Generated
  BY <1>3, BoundsNat
<1>5. [Nothing EXCEPT !.rows = rows] = [rows |-> rows, meta |-> Off]
  BY DEF Nothing
<1>6. PICK got : got = [rows |-> rows, meta |-> Off]
  OBVIOUS
<1>7. got \in Answerable /\ got.rows = rows
  BY <1>4, <1>6, Values DEF Answerable
<1> QED
  BY <1>1, <1>2, <1>4, <1>5, <1>6, <1>7 DEF generate_fields

\* Handlers that have to do with single rows.
OnRows == Persist \cup {"delete"}

\* Handler h becomes r, answered.
Echo(h, r) ==
  /\ handler[h] # Idle /\ handler[h].at = "asked" /\ r # Idle
  /\ handler' = [handler EXCEPT ![h] = r]
  /\ r.do = handler[h].do /\ r.on = handler[h].on /\ r.todo = handler[h].todo
  /\ r.start = handler[h].start /\ r.patch = handler[h].patch
  /\ UNCHANGED <<screen, nextTemp, gap, ops, opens>>

Failed(h, r) ==
  /\ r.at = "no" /\ r.got = Nothing /\ UNCHANGED <<data, unsure>>
  /\ \/ faults' = faults + 1
     \/ UNCHANGED faults /\ ~exists
     \/ UNCHANGED faults /\ handler[h].do = "move"
     \/ UNCHANGED faults /\ handler[h].do \in OnRows /\ Saved(handler[h].todo[1])

LoadServed(h, r) ==
  /\ handler[h].do = "load" /\ r.at = "ok" /\ UNCHANGED <<data, unsure, faults>>
  /\ \A i \in DOMAIN r.got.rows : Saved(r.got.rows[i])
  /\ Listed(r.got)

NothingStored(h, r) ==
  handler[h].do \in {"generate", "test"} /\ r.at = "ok" /\ UNCHANGED <<data, unsure, faults>>

MetaServed(h, r) ==
  /\ handler[h].do = "meta" /\ r.at = "ok" /\ r.got.meta = stored'
  /\ UNCHANGED <<server, exists, made, nextId, unsure, faults>>

\* What a row is stored as.
Field(row) == [text |-> row.text, order |-> row.order]

Created(h, r) ==
  LET row == handler[h].todo[1] IN
  /\ handler[h].do \in Persist /\ ~Saved(row) /\ row.key[2] \in 1 .. MaxRows
  /\ nextId \in 1 .. MaxFields /\ nextId' = nextId + 1
  /\ server' = [i \in DOMAIN server \cup {nextId} |-> IF i = nextId THEN Field(row) ELSE server[i]]
  /\ made' = [made EXCEPT ![row.key[2]] = made[row.key[2]] + 1]
  /\ r.at = "ok" /\ r.got.rows = <<FromServer(nextId, Field(row))>>
  /\ UNCHANGED <<stored, exists, unsure, faults>>

Changed(h, r) ==
  LET row == handler[h].todo[1] IN
  /\ handler[h].do \in Persist /\ row.id \in DOMAIN server
  /\ server' = [server EXCEPT ![row.id] = Field(row)] /\ DOMAIN server' = DOMAIN server
  /\ r.at = "ok" /\ r.got.rows = <<FromServer(row.id, Field(row))>>
  /\ UNCHANGED <<stored, exists, made, nextId, unsure, faults>>

Removed(h, r) ==
  LET id == handler[h].todo[1].id IN
  /\ handler[h].do = "delete" /\ id \in DOMAIN server /\ DOMAIN server' = DOMAIN server \ {id}
  /\ r.at = "ok"
  /\ UNCHANGED <<stored, exists, made, nextId, unsure, faults>>

\* What an answer stands for, short of one that is lost.
Heeded(h, r) ==
  \/ Failed(h, r) \/ LoadServed(h, r) \/ NothingStored(h, r) \/ MetaServed(h, r)
  \/ Created(h, r) \/ Changed(h, r) \/ Removed(h, r)

\* The answered handler, given what it is answered with.
LEMMA EchoFacts ==
  ASSUME Types, NEW h \in Slot, Asked(h), NEW at \in {"ok", "no"}, NEW got \in Answerable,
         Answer(h, at, got), UNCHANGED <<screen, nextTemp, gap, ops, opens>>,
         at = "ok" => /\ handler[h].do \in Persist => got.rows # <<>>
                      /\ handler[h].do = "generate" => Len(got.rows) <= Generated
                      /\ handler[h].do # "generate" => \A i \in DOMAIN got.rows : Saved(got.rows[i]),
         at = "no" => got = Nothing \/ (handler[h].do # "generate" /\ \A i \in DOMAIN got.rows : Saved(got.rows[i]))
  PROVE  /\ \E r \in Handler : Echo(h, r) /\ HandlerOK(r) /\ r.at = at /\ r.got = got
         /\ HandlersOK' /\ ListOK' /\ RoomOK'
<1>1. HandlersOK /\ RoomOK /\ ListOK /\ handler[h] # Idle /\ handler[h].at = "asked" /\ HandlerOK(handler[h])
  BY AskedFacts, TypesParts
<1>2. PICK r \in Handler :
           /\ handler' = [handler EXCEPT ![h] = r] /\ r # Idle
           /\ r.do = handler[h].do /\ r.on = handler[h].on /\ r.at = at /\ r.todo = handler[h].todo
           /\ r.start = handler[h].start /\ r.patch = handler[h].patch /\ r.got = got
  BY <1>1, AnswerFacts DEF HandlersOK, Answerable
<1>3. HandlerOK(r)
  <2>1. Len(Nothing.rows) = 0 /\ DOMAIN Nothing.rows = {}
    BY Values
  <2> QED
    BY <1>1, <1>2, <2>1, BoundsNat DEF HandlerOK
<1>4. HandlersOK' /\ RoomOK'
  BY <1>1, <1>2, <1>3, OneHandler, RoomKept
<1>5. ListOK'
  BY <1>1 DEF ListOK, screen
<1> QED
  BY <1>1, <1>2, <1>3, <1>4, <1>5 DEF Echo

Replied(h) ==
  \E r \in Handler : HandlerOK(r) /\ Echo(h, r) /\ (Heeded(h, r) \/ (unsure' = TRUE /\ faults' = faults + 1))

\* Whatever the server does with a request is one of these.
LEMMA ServerStep ==
  ASSUME Types, NEW h \in Slot, Serve(h) \/ Refuse(h) \/ Unheard(h)
  PROVE  Types' /\ Replied(h)
<1> DEFINE Kept == DataOK' /\ HandlersOK' /\ ListOK' /\ RoomOK' /\ Replied(h)
<1>1. /\ Asked(h) /\ handler[h] \in Handler /\ HandlerOK(handler[h])
      /\ DataOK /\ RestOK /\ UNCHANGED <<screen, nextTemp, gap, ops, opens>>
  <2>1. Asked(h) /\ UNCHANGED <<screen, nextTemp, gap, ops, opens>>
    BY DEF Serve, Refuse, Unheard, bounds
  <2> QED
    BY <2>1, AskedFacts, TypesParts
<1>u. /\ UNCHANGED faults \/ (faults < MaxFaults /\ faults' = faults + 1)
      /\ UNCHANGED unsure \/ unsure' = TRUE
  BY DEF Serve, Refuse, Unheard, bounds
<1>2. RestOK'
  <2>1. unsure' \in BOOLEAN
    BY <1>1, <1>u DEF RestOK
  <2>2. faults' \in 0 .. MaxFaults
    BY <1>1, <1>u, BoundsNat DEF RestOK
  <2> QED
    BY <1>1, <2>1, <2>2 DEF RestOK, screen, flags
<1>3. ASSUME UNCHANGED data PROVE DataOK'
  BY <1>1, <1>3 DEF DataOK, data
<1>4. ASSUME Answer(h, "no", Nothing), UNCHANGED <<data, unsure>>,
             \/ faults' = faults + 1
             \/ UNCHANGED faults /\ ~exists
             \/ UNCHANGED faults /\ handler[h].do = "move"
             \/ UNCHANGED faults /\ handler[h].do \in OnRows /\ Saved(handler[h].todo[1])
      PROVE  Kept
  <2>1. HandlersOK' /\ ListOK' /\ RoomOK' /\ \E r \in Handler : Echo(h, r) /\ HandlerOK(r) /\ r.at = "no" /\ r.got = Nothing
    BY <1>1, <1>4, EchoFacts, Values DEF Answerable
  <2>2. PICK r \in Handler : Echo(h, r) /\ HandlerOK(r) /\ r.at = "no" /\ r.got = Nothing
    BY <2>1
  <2>3. Failed(h, r)
    BY <1>4, <2>2 DEF Failed
  <2> QED
    BY <1>3, <1>4, <2>1, <2>2, <2>3 DEF Heeded, Replied
<1>5. CASE Refuse(h)
  BY <1>2, <1>4, <1>5, TypesParts DEF Refuse
<1>6. CASE Serve(h)
  <2>0. UNCHANGED <<unsure, faults>>
    BY <1>6 DEF Serve, bounds
  <2>1. CASE get_blueprint(h)
    <3>1. handler[h].do = "load" /\ UNCHANGED data
      BY <1>1, <2>1, get_blueprintFacts
    <3>2. PICK got \in Answerable :
              /\ Answer(h, "ok", got) /\ \A i \in DOMAIN got.rows : Saved(got.rows[i])
              /\ Listed(got)
      BY <1>1, <2>1, get_blueprintFacts
    <3>3. HandlersOK' /\ ListOK' /\ RoomOK' /\ \E r \in Handler : Echo(h, r) /\ HandlerOK(r) /\ r.at = "ok" /\ r.got = got
      BY <1>1, <3>1, <3>2, EchoFacts, KindFacts
    <3>4. PICK r \in Handler : Echo(h, r) /\ HandlerOK(r) /\ r.at = "ok" /\ r.got = got
      BY <3>3
    <3>5. LoadServed(h, r)
      BY <2>0, <3>1, <3>2, <3>4 DEF LoadServed
    <3> QED
      BY <1>2, <1>3, <3>1, <3>3, <3>4, <3>5, TypesParts DEF Heeded, Replied
  <2>2. CASE generate_fields(h)
    <3>1. handler[h].do = "generate" /\ UNCHANGED data
      BY <1>1, <2>2, generate_fieldsFacts
    <3>2. PICK got \in Answerable : Answer(h, "ok", got) /\ Len(got.rows) <= Generated
      BY <1>1, <2>2, generate_fieldsFacts
    <3>3. HandlersOK' /\ ListOK' /\ RoomOK' /\ \E r \in Handler : Echo(h, r) /\ HandlerOK(r) /\ r.at = "ok" /\ r.got = got
      BY <1>1, <3>1, <3>2, EchoFacts, KindFacts
    <3>4. PICK r \in Handler : Echo(h, r) /\ HandlerOK(r) /\ r.at = "ok" /\ r.got = got
      BY <3>3
    <3>5. NothingStored(h, r)
      BY <2>0, <3>1, <3>2, <3>4 DEF NothingStored
    <3> QED
      BY <1>2, <1>3, <3>1, <3>3, <3>4, <3>5, TypesParts DEF Heeded, Replied
  <2>3. CASE test_blueprint(h)
    <3>1. handler[h].do = "test" /\ UNCHANGED data /\ Answer(h, "ok", Nothing)
      BY <2>3 DEF test_blueprint
    <3>3. HandlersOK' /\ ListOK' /\ RoomOK' /\ \E r \in Handler : Echo(h, r) /\ HandlerOK(r) /\ r.at = "ok" /\ r.got = Nothing
      BY <1>1, <3>1, EchoFacts, KindFacts, Values DEF Answerable
    <3>4. PICK r \in Handler : Echo(h, r) /\ HandlerOK(r) /\ r.at = "ok"
      BY <3>3
    <3>5. NothingStored(h, r)
      BY <2>0, <3>1, <3>4 DEF NothingStored
    <3> QED
      BY <1>2, <1>3, <3>1, <3>3, <3>4, <3>5, TypesParts DEF Heeded, Replied
  <2>4. CASE reorder_fields(h)
    BY <1>2, <1>4, <2>0, <2>4, TypesParts DEF reorder_fields
  <2>5. CASE NotFound(h)
    <3>1. Answer(h, "no", Nothing) /\ UNCHANGED <<data, unsure>>
      BY <2>0, <2>5 DEF NotFound
    <3>2. ~exists \/ (handler[h].do \in OnRows /\ Saved(handler[h].todo[1]))
      <4>1. handler[h].do \in Persist \cup {"delete"} => Head(handler[h].todo) = handler[h].todo[1]
        BY <1>1, AskedFacts
      <4> QED
        BY <2>5, <4>1 DEF NotFound, OnRows
    <3> QED
      BY <1>2, <1>4, <2>0, <3>1, <3>2, TypesParts
  <2>6. CASE update_blueprint(h, "ok")
    <3>1. handler[h].do = "meta" /\ UNCHANGED <<server, exists, made, nextId>> /\ DataOK'
      BY <1>1, <2>6, update_blueprintFacts
    <3>2. PICK got \in Answerable : Answer(h, "ok", got) /\ got.rows = <<>> /\ got.meta = stored'
      BY <1>1, <2>6, update_blueprintFacts
    <3>3. HandlersOK' /\ ListOK' /\ RoomOK' /\ \E r \in Handler : Echo(h, r) /\ HandlerOK(r) /\ r.at = "ok" /\ r.got = got
      BY <1>1, <3>1, <3>2, EchoFacts, KindFacts
    <3>4. PICK r \in Handler : Echo(h, r) /\ HandlerOK(r) /\ r.at = "ok" /\ r.got = got
      BY <3>3
    <3>5. MetaServed(h, r)
      BY <2>0, <3>1, <3>2, <3>4 DEF MetaServed
    <3> QED
      BY <1>2, <3>1, <3>3, <3>4, <3>5, TypesParts DEF Heeded, Replied
  <2>7. CASE create_field(h, "ok", 1)
    <3>0. 1 \in {1, 2} /\ nextId + 1 - 1 = nextId /\ nextId \in 1 .. MaxFields
      <4>1. nextId + 1 - 1 <= MaxFields
        BY <2>7 DEF create_field
      <4> QED
        BY <1>1, <4>1, BoundsNat DEF DataOK
    <3>1. /\ DataOK' /\ handler[h].do \in Persist /\ ~Saved(handler[h].todo[1])
          /\ handler[h].todo[1].key[2] \in 1 .. MaxRows
      BY <1>1, <2>7, <3>0, create_fieldFacts
    <3>2. PICK got \in Answerable : Answer(h, "ok", got) /\ Saved(got.rows[1])
                                    /\ got.rows = <<FromServer(nextId, Field(handler[h].todo[1]))>>
      BY <1>1, <2>7, <3>0, create_fieldFacts DEF Field
    <3>3. HandlersOK' /\ ListOK' /\ RoomOK' /\ \E r \in Handler : Echo(h, r) /\ HandlerOK(r) /\ r.at = "ok" /\ r.got = got
      <4>1. DOMAIN got.rows = {1} /\ got.rows # <<>>
        BY <3>2
      <4> QED
        BY <1>1, <3>1, <3>2, <4>1, EchoFacts, KindFacts
    <3>4. PICK r \in Handler : Echo(h, r) /\ HandlerOK(r) /\ r.at = "ok" /\ r.got = got
      BY <3>3
    <3>5. Created(h, r)
      <4>1. Head(handler[h].todo) = handler[h].todo[1]
        BY <1>1, <3>1, AskedFacts
      <4>2. nextId .. nextId + 1 - 1 = {nextId}
        BY <3>0
      <4> QED
        BY <2>0, <2>7, <3>0, <3>1, <3>2, <3>4, <4>1, <4>2 DEF Created, create_field, Field
    <3> QED
      BY <1>2, <3>1, <3>3, <3>4, <3>5, TypesParts DEF Heeded, Replied
  <2>8. CASE update_field(h, "ok")
    <3>1. /\ DataOK' /\ handler[h].do \in Persist /\ UNCHANGED <<stored, exists, made, nextId>>
          /\ handler[h].todo[1].id \in DOMAIN server /\ DOMAIN server' = DOMAIN server
          /\ server' = [server EXCEPT ![handler[h].todo[1].id] = Field(handler[h].todo[1])]
      BY <1>1, <2>8, update_fieldFacts DEF Field
    <3>2. PICK got \in Answerable : Answer(h, "ok", got) /\ Saved(got.rows[1])
                                    /\ got.rows = <<FromServer(handler[h].todo[1].id, Field(handler[h].todo[1]))>>
      BY <1>1, <2>8, update_fieldFacts DEF Field
    <3>3. HandlersOK' /\ ListOK' /\ RoomOK' /\ \E r \in Handler : Echo(h, r) /\ HandlerOK(r) /\ r.at = "ok" /\ r.got = got
      <4>1. DOMAIN got.rows = {1} /\ got.rows # <<>>
        BY <3>2
      <4> QED
        BY <1>1, <3>1, <3>2, <4>1, EchoFacts, KindFacts
    <3>4. PICK r \in Handler : Echo(h, r) /\ HandlerOK(r) /\ r.at = "ok" /\ r.got = got
      BY <3>3
    <3>5. Changed(h, r)
      BY <2>0, <3>1, <3>2, <3>4 DEF Changed
    <3> QED
      BY <1>2, <3>1, <3>3, <3>4, <3>5, TypesParts DEF Heeded, Replied
  <2>9. CASE delete_field(h, "ok")
    <3>1. /\ DataOK' /\ handler[h].do = "delete" /\ UNCHANGED <<stored, exists, made, nextId>>
          /\ handler[h].todo[1].id \in DOMAIN server /\ DOMAIN server' = DOMAIN server \ {handler[h].todo[1].id}
          /\ Answer(h, "ok", Nothing)
      BY <1>1, <2>9, delete_fieldFacts
    <3>3. HandlersOK' /\ ListOK' /\ RoomOK' /\ \E r \in Handler : Echo(h, r) /\ HandlerOK(r) /\ r.at = "ok" /\ r.got = Nothing
      BY <1>1, <3>1, EchoFacts, KindFacts, Values DEF Answerable
    <3>4. PICK r \in Handler : Echo(h, r) /\ HandlerOK(r) /\ r.at = "ok"
      BY <3>3
    <3>5. Removed(h, r)
      BY <2>0, <3>1, <3>4 DEF Removed
    <3> QED
      BY <1>2, <3>1, <3>3, <3>4, <3>5, TypesParts DEF Heeded, Replied
  <2> QED
    BY <1>6, <2>1, <2>2, <2>3, <2>4, <2>5, <2>6, <2>7, <2>8, <2>9 DEF Serve, Effect
<1>7. CASE Unheard(h)
  <2>0. unsure' = TRUE /\ faults' = faults + 1
    BY <1>7 DEF Unheard
  <2>1. ASSUME NEW heard \in {"ok", "no"}, NEW times \in {1, 2}, create_field(h, heard, times)
        PROVE  Types' /\ Replied(h)
    <3>1. DataOK' /\ handler[h].do \in Persist
      BY <1>1, <2>1, create_fieldFacts
    <3>2. PICK got \in Answerable :
            /\ Answer(h, heard, got) /\ Saved(got.rows[1])
            /\ got.rows = <<FromServer(nextId + times - 1, Field(handler[h].todo[1]))>>
      BY <1>1, <2>1, create_fieldFacts DEF Field
    <3>3. HandlersOK' /\ ListOK' /\ RoomOK' /\ \E r \in Handler : Echo(h, r) /\ HandlerOK(r)
      <4>1. got.rows # <<>> /\ DOMAIN got.rows = {1}
        BY <3>2
      <4> QED
        BY <1>1, <3>1, <3>2, <4>1, EchoFacts, KindFacts
    <3> QED
      BY <1>2, <2>0, <3>1, <3>3, TypesParts DEF Replied
  <2>2. CASE update_field(h, "no")
    <3>1. DataOK' /\ handler[h].do \in Persist
      BY <1>1, <2>2, update_fieldFacts
    <3>2. PICK got \in Answerable :
            /\ Answer(h, "no", got) /\ Saved(got.rows[1])
            /\ got.rows = <<FromServer(handler[h].todo[1].id, Field(handler[h].todo[1]))>>
      BY <1>1, <2>2, update_fieldFacts DEF Field
    <3>3. HandlersOK' /\ ListOK' /\ RoomOK' /\ \E r \in Handler : Echo(h, r) /\ HandlerOK(r)
      <4>1. got.rows # <<>> /\ DOMAIN got.rows = {1}
        BY <3>2
      <4> QED
        BY <1>1, <3>1, <3>2, <4>1, EchoFacts, KindFacts
    <3> QED
      BY <1>2, <2>0, <3>1, <3>3, TypesParts DEF Replied
  <2>3. CASE delete_field(h, "no")
    <3>1. DataOK' /\ Answer(h, "no", Nothing)
      BY <1>1, <2>3, delete_fieldFacts
    <3>3. HandlersOK' /\ ListOK' /\ RoomOK' /\ \E r \in Handler : Echo(h, r) /\ HandlerOK(r)
      BY <1>1, <3>1, EchoFacts, KindFacts, Values DEF Answerable
    <3> QED
      BY <1>2, <2>0, <3>1, <3>3, TypesParts DEF Replied
  <2>4. CASE update_blueprint(h, "no")
    <3>1. DataOK' /\ handler[h].do = "meta"
      BY <1>1, <2>4, update_blueprintFacts
    <3>2. PICK got \in Answerable : Answer(h, "no", got) /\ DOMAIN got.rows = {}
      BY <1>1, <2>4, update_blueprintFacts
    <3>3. HandlersOK' /\ ListOK' /\ RoomOK' /\ \E r \in Handler : Echo(h, r) /\ HandlerOK(r)
      BY <1>1, <3>1, <3>2, EchoFacts, KindFacts
    <3> QED
      BY <1>2, <2>0, <3>1, <3>3, TypesParts DEF Replied
  <2> QED
    BY <1>7, <2>1, <2>2, <2>3, <2>4 DEF Unheard, Effect
<1> QED
  BY <1>5, <1>6, <1>7

-----------------------------------------------------------------------------
(* What a handler does with its answer.                                    *)

LEMMA AnsweredFacts ==
  ASSUME Types, NEW h \in Slot, handler[h] # Idle
  PROVE  /\ handler \in [Slot -> Handler] /\ handler[h] \in Handler /\ HandlerOK(handler[h])
         /\ handler[h].do \in Kinds /\ handler[h].on \in BOOLEAN /\ handler[h].at \in {"asked", "ok", "no"}
         /\ handler[h].todo \in Seq(Row) /\ handler[h].start \in Nat /\ handler[h].patch \in Patch
         /\ handler[h].got.rows \in Seq(Row) /\ handler[h].got.meta \in Meta
         /\ handler[h].do \in OnRows =>
              /\ handler[h].todo # <<>> /\ Head(handler[h].todo) = handler[h].todo[1]
              /\ handler[h].todo[1] \in Row /\ handler[h].todo[1].key \in Key
         /\ handler[h].do \in Persist /\ handler[h].at = "ok" =>
              handler[h].got.rows[1] \in Row /\ Saved(handler[h].got.rows[1])
<1>1. handler \in [Slot -> Handler] /\ handler[h] \in Handler /\ HandlerOK(handler[h])
  BY TypesParts DEF HandlersOK
<1>2. /\ handler[h].do \in Kinds /\ handler[h].on \in BOOLEAN /\ handler[h].at \in {"asked", "ok", "no"}
      /\ handler[h].todo \in Seq(Row) /\ handler[h].start \in Nat /\ handler[h].patch \in Patch
      /\ handler[h].got.rows \in Seq(Row) /\ handler[h].got.meta \in Meta
  BY <1>1, HandlerFacts
<1>3. ASSUME handler[h].do \in OnRows
      PROVE  /\ handler[h].todo # <<>> /\ Head(handler[h].todo) = handler[h].todo[1]
             /\ handler[h].todo[1] \in Row /\ handler[h].todo[1].key \in Key
  <2>1. handler[h].todo # <<>>
    BY <1>1, <1>3 DEF HandlerOK, OnRows
  <2>2. handler[h].todo[1] \in Row /\ Head(handler[h].todo) = handler[h].todo[1]
    BY <1>2, <2>1, HeadFacts
  <2> QED
    BY <2>1, <2>2 DEF Row
<1>4. ASSUME handler[h].do \in Persist, handler[h].at = "ok"
      PROVE  handler[h].got.rows[1] \in Row /\ Saved(handler[h].got.rows[1])
  <2>1. handler[h].got.rows # <<>>
    BY <1>1, <1>4 DEF HandlerOK
  <2>2. 1 \in DOMAIN handler[h].got.rows
    BY <1>2, <2>1
  <2> QED
    BY <1>1, <1>2, <1>4, <2>2, KindFacts DEF HandlerOK
<1> QED
  BY <1>1, <1>2, <1>3, <1>4

\* A handler that goes on to other rows.
Resumed(old, do, todo) ==
  [do |-> do, on |-> old.on, at |-> "asked", todo |-> todo, start |-> old.start, patch |-> old.patch,
   got |-> Nothing]

LEMMA ResumeFacts ==
  ASSUME NEW old \in Handler, NEW do \in Kinds, NEW todo \in Seq(Row), old # Idle
  PROVE  Resumed(old, do, todo) \in Handler /\ Resumed(old, do, todo) # Idle
<1>1. old \in [do : Kinds, on : BOOLEAN, at : {"asked", "ok", "no"}, todo : Seq(Row), start : Nat,
               patch : Patch, got : [rows : Seq(Row), meta : Meta]]
  BY DEF Handler, Kinds
<1>2. /\ Resumed(old, do, todo) \in [do : Kinds, on : BOOLEAN, at : {"asked", "ok", "no"}, todo : Seq(Row),
                start : Nat, patch : Patch, got : [rows : Seq(Row), meta : Meta]]
      /\ Resumed(old, do, todo).do = do
  BY <1>1, Values DEF Resumed
<1>3. "idle" \notin Kinds
  BY KindFacts
<1> QED
  BY <1>2, <1>3 DEF Handler, Kinds, Idle

LEMMA ResumeIs ==
  ASSUME NEW old \in Handler, NEW do \in Kinds, NEW todo \in Seq(Row), old # Idle
  PROVE  [old EXCEPT !.do = do, !.at = "asked", !.todo = todo, !.got = Nothing] = Resumed(old, do, todo)
<1> DEFINE Records == [do : Kinds, on : BOOLEAN, at : {"asked", "ok", "no"}, todo : Seq(Row), start : Nat,
                       patch : Patch, got : [rows : Seq(Row), meta : Meta]]
<1>1. old \in Records
  BY DEF Handler, Kinds
<1>2. PICK r : r = [old EXCEPT !.do = do, !.at = "asked", !.todo = todo, !.got = Nothing]
  OBVIOUS
<1>3. /\ r \in Records /\ r.do = do /\ r.on = old.on /\ r.at = "asked" /\ r.todo = todo
      /\ r.start = old.start /\ r.patch = old.patch /\ r.got = Nothing
  BY <1>1, <1>2, Values
<1>4. r = Resumed(old, do, todo)
  BY <1>3 DEF Resumed
<1> QED
  BY <1>2, <1>4

LEMMA ContinueIs ==
  ASSUME NEW old \in Handler, NEW todo \in Seq(Row), old # Idle
  PROVE  [old EXCEPT !.at = "asked", !.todo = todo, !.got = Nothing] = Resumed(old, old.do, todo)
<1> DEFINE Records == [do : Kinds, on : BOOLEAN, at : {"asked", "ok", "no"}, todo : Seq(Row), start : Nat,
                       patch : Patch, got : [rows : Seq(Row), meta : Meta]]
<1>1. old \in Records
  BY DEF Handler, Kinds
<1>2. PICK r : r = [old EXCEPT !.at = "asked", !.todo = todo, !.got = Nothing]
  OBVIOUS
<1>3. /\ r \in Records /\ r.do = old.do /\ r.on = old.on /\ r.at = "asked" /\ r.todo = todo
      /\ r.start = old.start /\ r.patch = old.patch /\ r.got = Nothing
  BY <1>1, <1>2, Values
<1>4. r = Resumed(old, old.do, todo)
  BY <1>3 DEF Resumed
<1> QED
  BY <1>2, <1>4

LEMMA NextSavedFacts ==
  ASSUME Types, NEW h \in Slot, handler[h] # Idle, NextSaved(h)
  PROVE  /\ handler[h].do \in {"bulk", "keep"}
         /\ \E r \in Handler :
              /\ handler' = [handler EXCEPT ![h] = r] /\ HandlerOK(r)
              /\ Len(handler[h].todo) = 1 => r = Idle
              /\ Len(handler[h].todo) # 1 =>
                   /\ r # Idle /\ r.do = handler[h].do /\ r.on = handler[h].on /\ r.at = "asked"
                   /\ r.todo = Tail(handler[h].todo) /\ r.start = handler[h].start /\ r.got = Nothing
<1>1. handler[h].do \in {"bulk", "keep"}
  BY DEF NextSaved
<1>2. /\ handler[h] \in Handler /\ HandlerOK(handler[h]) /\ handler[h].todo \in Seq(Row)
      /\ handler[h].todo # <<>> /\ handler[h].do \in Kinds
  BY <1>1, AnsweredFacts, KindFacts DEF OnRows
<1>3. PICK rest : rest = Tail(handler[h].todo)
  OBVIOUS
<1>4. /\ rest \in Seq(Row) /\ (rest = <<>> <=> Len(handler[h].todo) = 1)
      /\ \A j \in DOMAIN rest : j + 1 \in DOMAIN handler[h].todo /\ rest[j] = handler[h].todo[j + 1]
  BY <1>2, <1>3, HeadFacts
<1>5. CASE rest = <<>>
  <2>1. handler' = [handler EXCEPT ![h] = Idle]
    BY <1>3, <1>5 DEF NextSaved, Pending
  <2> QED
    BY <1>1, <1>4, <1>5, <2>1, Values
<1>6. CASE rest # <<>>
  <2>1. handler' = [handler EXCEPT ![h] = [handler[h] EXCEPT !.at = "asked", !.todo = rest, !.got = Nothing]]
    BY <1>3, <1>6 DEF NextSaved, Pending
  <2>2. PICK r : r = Resumed(handler[h], handler[h].do, rest)
    OBVIOUS
  <2>3. /\ r \in Handler /\ r # Idle /\ r.do = handler[h].do /\ r.on = handler[h].on /\ r.at = "asked"
        /\ r.todo = rest /\ r.start = handler[h].start /\ r.got = Nothing
        /\ r = [handler[h] EXCEPT !.at = "asked", !.todo = rest, !.got = Nothing]
    <3>1. handler[h] \in Handler /\ handler[h] # Idle /\ handler[h].do \in Kinds /\ rest \in Seq(Row)
      BY <1>2, <1>4
    <3> QED
      <4>1. /\ Resumed(handler[h], handler[h].do, rest) \in Handler /\ Resumed(handler[h], handler[h].do, rest) # Idle
            /\ Resumed(handler[h], handler[h].do, rest) = [handler[h] EXCEPT !.at = "asked", !.todo = rest, !.got = Nothing]
        <5>1. Resumed(handler[h], handler[h].do, rest) \in Handler /\ Resumed(handler[h], handler[h].do, rest) # Idle
          BY <3>1, ResumeFacts, Zenon
        <5>2. [handler[h] EXCEPT !.at = "asked", !.todo = rest, !.got = Nothing] = Resumed(handler[h], handler[h].do, rest)
          BY <3>1, ContinueIs, Zenon
        <5> QED
          BY <5>1, <5>2, Zenon
      <4> QED
        BY <2>2, <4>1 DEF Resumed
  <2>5. HandlerOK(r)
    <3>1. handler[h].do \in Persist /\ handler[h].do \notin {"delete", "generate"}
      BY <1>1, KindFacts
    <3>2. \A j \in DOMAIN rest : RowOK(rest[j]) /\ rest[j].text # Blank
      BY <1>2, <1>4, <3>1 DEF HandlerOK
    <3> QED
      BY <1>6, <2>3, <3>1, <3>2, Values DEF HandlerOK
  <2> QED
    BY <1>1, <1>3, <1>4, <1>6, <2>1, <2>3, <2>5
<1> QED
  BY <1>5, <1>6

\* What becomes of the rows a prompt generated: new are appended, todo are saved by r.
Grown(h, new, todo, r) ==
  /\ handler[h].do = "generate"
  /\ Len(new) = Len(handler[h].got.rows) /\ Len(new) <= Generated
  /\ nextTemp + Len(new) <= MaxRows + 1 /\ nextTemp' = nextTemp + Len(new)
  /\ \A i \in DOMAIN new :
       /\ new[i].key = <<"new", nextTemp + i - 1>> /\ new[i].id = NoId
       /\ new[i].order = handler[h].start + i - 1 /\ RowOK(new[i])
  /\ fields' = IF Shown(h) THEN fields \o new ELSE fields
  /\ \A j \in DOMAIN todo : \E i \in DOMAIN new : todo[j] = new[i] /\ new[i].text # Blank
  /\ \A j, k \in DOMAIN todo : j # k => \E i, l \in DOMAIN new : i # l /\ todo[j] = new[i] /\ todo[k] = new[l]
  /\ gap' = (gap \/ (~Shown(h) /\ todo # new))
  /\ handler' = [handler EXCEPT ![h] = r] /\ HandlerOK(r)
  /\ generating' = IF todo = <<>> THEN StillBusy(generating, h) ELSE generating
  /\ todo = <<>> => r = Idle
  /\ todo # <<>> =>
       /\ r # Idle /\ r.do = "keep" /\ r.on = handler[h].on /\ r.at = "asked"
       /\ r.todo = todo /\ r.start = handler[h].start /\ r.got = Nothing

LEMMA RowsGeneratedFacts ==
  ASSUME Types, NEW h \in Slot, handler[h] # Idle, RowsGenerated(h)
  PROVE  \E new \in Seq(Row), todo \in Seq(Row), r \in Handler : Grown(h, new, todo, r)
<1>1. handler[h].do = "generate"
  BY DEF RowsGenerated
<1>2. /\ handler \in [Slot -> Handler] /\ handler[h] \in Handler /\ HandlerOK(handler[h])
      /\ handler[h].got.rows \in Seq(Row) /\ handler[h].start \in Nat
  BY AnsweredFacts
<1>3. PICK got : got = handler[h].got.rows
  OBVIOUS
<1>4. got \in Seq(Row) /\ Len(got) \in Nat /\ DOMAIN got = 1 .. Len(got) /\ Len(got) <= Generated
  BY <1>1, <1>2, <1>3 DEF HandlerOK
<1>5. PICK new : new = [i \in DOMAIN got |-> blankField(nextTemp + i - 1, got[i].text, handler[h].start + i - 1)]
  OBVIOUS
<1>6. nextTemp \in Nat \ {0} /\ nextTemp + Len(got) <= MaxRows + 1
  <2>1. h \in Generating
    BY <1>1 DEF Generating
  <2>2. Cardinality(Generating) >= 1
    BY <2>1, GeneratingFinite, FS_EmptySet
  <2>3. Generated * Cardinality(Generating) >= Generated
    BY <2>2, GeneratingFinite, BoundsNat
  <2>4. Generated * Cardinality(Generating) \in Nat
    BY GeneratingFinite, BoundsNat
  <2> QED
    BY <1>4, <2>3, <2>4, TypesParts, BoundsNat DEF RoomOK
<1>7. \A i \in DOMAIN got :
        /\ new[i] \in Row /\ RowOK(new[i]) /\ new[i].key = <<"new", nextTemp + i - 1>> /\ new[i].id = NoId
        /\ new[i].order = handler[h].start + i - 1
  <2> SUFFICES ASSUME NEW i \in DOMAIN got
               PROVE  /\ new[i] \in Row /\ RowOK(new[i]) /\ new[i].key = <<"new", nextTemp + i - 1>> /\ new[i].id = NoId
                      /\ new[i].order = handler[h].start + i - 1
    OBVIOUS
  <2>a. i \in Nat \ {0} /\ i <= Len(got)
    BY <1>4
  <2>b. nextTemp + i - 1 \in 1 .. MaxRows
    BY <1>4, <1>6, <2>a, BoundsNat
  <2>c. handler[h].start + i - 1 \in Nat
    BY <1>2, <2>a
  <2>d. got[i] \in Row
    BY <1>4
  <2>1. /\ nextTemp + i - 1 \in 1 .. MaxRows /\ handler[h].start + i - 1 \in Nat
        /\ got[i].text \in Text \cup {Blank}
    BY <2>b, <2>c, <2>d DEF Row
  <2>2. new[i] = blankField(nextTemp + i - 1, got[i].text, handler[h].start + i - 1)
    BY <1>5
  <2> QED
    BY <2>1, <2>2, NewRow
<1>8. new \in Seq(Row) /\ Len(new) = Len(got) /\ DOMAIN new = DOMAIN got
  <2>1. new \in [1 .. Len(got) -> Row]
    BY <1>4, <1>5, <1>7
  <2> QED
    BY <1>4, <2>1
<1>9. PICK todo : todo = Complete(new)
  OBVIOUS
<1>10. /\ todo \in Seq(Row)
       /\ \A j \in DOMAIN todo : \E i \in DOMAIN new : todo[j] = new[i] /\ new[i].text # Blank
       /\ \A j, k \in DOMAIN todo : j # k => \E i, l \in DOMAIN new : i # l /\ todo[j] = new[i] /\ todo[k] = new[l]
  <2>1. new \in Seq(Row)
    BY <1>8
  <2> QED
    BY <1>9, <2>1, CompleteFacts
<1>11. /\ fields' = IF Shown(h) THEN fields \o new ELSE fields
       /\ nextTemp' = nextTemp + Len(got) /\ gap' = (gap \/ (~Shown(h) /\ todo # new))
       /\ generating' = IF todo = <<>> THEN StillBusy(generating, h) ELSE generating
       /\ handler' = [handler EXCEPT ![h] = IF todo = <<>> THEN Idle
            ELSE [handler[h] EXCEPT !.do = "keep", !.at = "asked", !.todo = todo, !.got = Nothing]]
  BY <1>3, <1>5, <1>9 DEF RowsGenerated
<1>12. \E r \in Handler :
         /\ handler' = [handler EXCEPT ![h] = r] /\ HandlerOK(r)
         /\ todo = <<>> => r = Idle
         /\ todo # <<>> =>
              /\ r # Idle /\ r.do = "keep" /\ r.on = handler[h].on /\ r.at = "asked"
              /\ r.todo = todo /\ r.start = handler[h].start /\ r.got = Nothing
  <2>1. CASE todo = <<>>
    BY <1>11, <2>1, Values
  <2>2. CASE todo # <<>>
    <3>1. PICK r : r = Resumed(handler[h], "keep", todo)
      OBVIOUS
    <3>2. /\ r = [handler[h] EXCEPT !.do = "keep", !.at = "asked", !.todo = todo, !.got = Nothing]
          /\ r \in Handler /\ r # Idle /\ r.do = "keep" /\ r.on = handler[h].on /\ r.at = "asked"
          /\ r.todo = todo /\ r.start = handler[h].start /\ r.got = Nothing
      <4>1. "keep" \in Kinds
        BY KindFacts
      <4>2. handler[h] \in Handler /\ handler[h] # Idle /\ todo \in Seq(Row)
        BY <1>2, <1>10
      <4> QED
        <5>1. /\ Resumed(handler[h], "keep", todo) \in Handler /\ Resumed(handler[h], "keep", todo) # Idle
              /\ Resumed(handler[h], "keep", todo) =
                   [handler[h] EXCEPT !.do = "keep", !.at = "asked", !.todo = todo, !.got = Nothing]
          <6>1. Resumed(handler[h], "keep", todo) \in Handler /\ Resumed(handler[h], "keep", todo) # Idle
            BY <4>1, <4>2, ResumeFacts, Zenon
          <6>2. [handler[h] EXCEPT !.do = "keep", !.at = "asked", !.todo = todo, !.got = Nothing]
                  = Resumed(handler[h], "keep", todo)
            BY <4>1, <4>2, ResumeIs, Zenon
          <6> QED
            BY <6>1, <6>2, Zenon
        <5> QED
          BY <3>1, <5>1 DEF Resumed
    <3>3. \A j \in DOMAIN todo : RowOK(todo[j]) /\ todo[j].text # Blank
      BY <1>7, <1>8, <1>10
    <3>4. HandlerOK(r)
      BY <2>2, <3>2, <3>3, Values DEF HandlerOK
    <3> QED
      BY <1>11, <2>2, <3>2, <3>4
  <2> QED
    BY <2>1, <2>2
<1>13. PICK r \in Handler :
         /\ handler' = [handler EXCEPT ![h] = r] /\ HandlerOK(r)
         /\ todo = <<>> => r = Idle
         /\ todo # <<>> =>
              /\ r # Idle /\ r.do = "keep" /\ r.on = handler[h].on /\ r.at = "asked"
              /\ r.todo = todo /\ r.start = handler[h].start /\ r.got = Nothing
  BY <1>12
<1> HIDE <1>12
<1>14. /\ Len(new) = Len(handler[h].got.rows) /\ Len(new) <= Generated
       /\ nextTemp + Len(new) <= MaxRows + 1 /\ nextTemp' = nextTemp + Len(new)
       /\ \A i \in DOMAIN new :
            /\ new[i].key = <<"new", nextTemp + i - 1>> /\ new[i].id = NoId
            /\ new[i].order = handler[h].start + i - 1 /\ RowOK(new[i])
  BY <1>3, <1>4, <1>6, <1>7, <1>8, <1>11
<1>15. Grown(h, new, todo, r)
  BY <1>1, <1>10, <1>11, <1>13, <1>14 DEF Grown
<1> QED
  BY <1>8, <1>10, <1>15

LEMMA EndTypes ==
  ASSUME Types, NEW h \in Slot, Ends(h), UNCHANGED nextTemp
  PROVE  HandlersOK' /\ RoomOK'
<1>1. handler' = [handler EXCEPT ![h] = Idle] /\ Idle.do # "generate"
  BY Values DEF Ends
<1> QED
  BY <1>1, OneHandler, RoomKept, Values, TypesParts

\* The answer to a save goes into the row that asked.
LEMMA SavedRowFacts ==
  ASSUME Types, NEW h \in Slot, handler[h] # Idle, handler[h].do \in Persist, handler[h].at = "ok",
         NEW new, \/ new = [i \in DOMAIN fields |-> handler[h].got.rows[1]]
                  \/ new = [i \in DOMAIN fields |-> Merged(handler[h].got.rows[1], fields[i])]
  PROVE  /\ Replaced(handler[h].todo[1].key, new) \in Seq(Row)
         /\ \A i \in DOMAIN Replaced(handler[h].todo[1].key, new) : RowOK(Replaced(handler[h].todo[1].key, new)[i])
<1>1. PICK key, saved : key = handler[h].todo[1].key /\ saved = handler[h].got.rows[1]
  OBVIOUS
<1>2. key \in Key /\ saved \in Row /\ Saved(saved)
  BY <1>1, AnsweredFacts, KindFacts DEF OnRows
<1>3. fields \in Seq(Row) /\ \A i \in DOMAIN fields : RowOK(fields[i])
  BY TypesParts DEF ListOK
<1>4. new = [i \in DOMAIN fields |-> saved] \/ new = [i \in DOMAIN fields |-> Merged(saved, fields[i])]
  BY <1>1
<1>5. PICK rows : rows = Replaced(key, new)
  OBVIOUS
<1>6. /\ rows \in Seq(Row) /\ DOMAIN rows = DOMAIN fields
      /\ \A i \in DOMAIN fields : rows[i] = fields[i] \/ rows[i].id = saved.id
  BY <1>2, <1>3, <1>4, <1>5, ReplacedFacts
<1>7. \A i \in DOMAIN rows : RowOK(rows[i])
  BY <1>2, <1>3, <1>6 DEF RowOK, Saved
<1> QED
  BY <1>1, <1>5, <1>6, <1>7

LEMMA ContinueTypes ==
  ASSUME Types, NEW h \in Slot, Continue(h)
  PROVE  Types'
<1>0. handler[h] # Idle /\ handler[h].at # "asked" /\ UNCHANGED <<data, unsure, bounds>>
  BY DEF Continue
<1>a. /\ handler \in [Slot -> Handler] /\ handler[h] \in Handler /\ HandlerOK(handler[h])
      /\ handler[h].do \in Kinds /\ handler[h].on \in BOOLEAN /\ handler[h].at \in {"asked", "ok", "no"}
      /\ handler[h].todo \in Seq(Row) /\ handler[h].start \in Nat
      /\ handler[h].got.rows \in Seq(Row) /\ handler[h].got.meta \in Meta
  BY <1>0, AnsweredFacts
<1>b. handler[h].do \in OnRows => Head(handler[h].todo) = handler[h].todo[1] /\ handler[h].todo[1].key \in Key
  BY <1>0, AnsweredFacts
<1>c. DataOK /\ ListOK /\ HandlersOK /\ RoomOK /\ RestOK
  BY TypesParts
<1>d. DataOK' /\ unsure' \in BOOLEAN /\ ops' \in 0 .. MaxOps /\ opens' \in 0 .. MaxOpens /\ faults' \in 0 .. MaxFaults
  BY <1>0, <1>c DEF DataOK, RestOK, data, bounds
<1> SUFFICES ListOK' /\ HandlersOK' /\ RoomOK' /\ RestOK'
  BY <1>d, TypesParts
<1>1. CASE Loaded(h) /\ UNCHANGED gap
  <2>1. HandlersOK' /\ RoomOK'
    BY <1>1, EndTypes DEF Loaded
  <2>2. handler[h].do = "load"
    BY <1>1 DEF Loaded
  <2>3. \A i \in DOMAIN handler[h].got.rows : RowOK(handler[h].got.rows[i])
    BY <1>a, <2>2 DEF HandlerOK, RowOK
  <2>4. ListOK'
    <3>1. CASE fields' = fields
      BY <1>c, <3>1 DEF ListOK
    <3>2. CASE fields' = handler[h].got.rows
      BY <1>a, <2>3, <3>2 DEF ListOK
    <3> QED
      BY <1>1, <3>1, <3>2 DEF Loaded
  <2>5. RestOK'
    <3>1. page' \in {"loading", "shown", "missing", "upload", "left"}
      BY <1>1, <1>c DEF Loaded, RestOK
    <3>2. shownMeta' \in Meta
      BY <1>1, <1>a, <1>c DEF Loaded, RestOK
    <3> QED
      BY <1>1, <1>c, <1>d, <3>1, <3>2 DEF Loaded, RestOK, flags
  <2> QED
    BY <2>1, <2>4, <2>5
<1>2. CASE MetaUpdated(h) /\ UNCHANGED gap
  <2>1. HandlersOK' /\ RoomOK'
    BY <1>2, EndTypes DEF MetaUpdated
  <2>2. ListOK'
    BY <1>2, <1>c DEF MetaUpdated, ListOK
  <2>3. shownMeta' \in Meta
    BY <1>2, <1>a, <1>c DEF MetaUpdated, RestOK
  <2>4. savingMeta' \in BOOLEAN
    BY <1>2 DEF MetaUpdated, StillBusy
  <2>5. RestOK'
    BY <1>2, <1>c, <1>d, <2>3, <2>4 DEF MetaUpdated, RestOK
  <2> QED
    BY <2>1, <2>2, <2>5
<1>3. CASE RowSaved(h) /\ UNCHANGED gap
  <2>1. HandlersOK' /\ RoomOK'
    BY <1>3, EndTypes DEF RowSaved
  <2>2. handler[h].do = "save" /\ handler[h].do \in Persist /\ handler[h].do \in OnRows
    BY <1>3, KindFacts DEF RowSaved, OnRows
  <2>3. ListOK'
    <3>1. CASE ~Heard(h)
      BY <1>3, <1>c, <3>1 DEF RowSaved, ListOK
    <3>2. CASE Heard(h)
      <4>1. PICK new : new = [i \in DOMAIN fields |-> Merged(handler[h].got.rows[1], fields[i])]
        OBVIOUS
      <4>2. fields' = Replaced(handler[h].todo[1].key, new)
        BY <1>3, <1>b, <2>2, <3>2, <4>1 DEF RowSaved
      <4>3. handler[h].at = "ok"
        BY <3>2 DEF Heard
      <4> QED
        BY <1>0, <2>2, <4>1, <4>2, <4>3, SavedRowFacts DEF ListOK
    <3> QED
      BY <3>1, <3>2
  <2>4. rowBusy' \in Key
    BY <1>3, <1>c, Values DEF RowSaved, RestOK
  <2>5. RestOK'
    BY <1>3, <1>c, <1>d, <2>4 DEF RowSaved, RestOK
  <2> QED
    BY <2>1, <2>3, <2>5
<1>4. CASE NextSaved(h) /\ UNCHANGED gap
  <2>1. PICK r \in Handler : handler' = [handler EXCEPT ![h] = r] /\ HandlerOK(r) /\ r.do # "generate"
    <3>1. Idle.do # "generate"
      BY Values
    <3> QED
      BY <1>0, <1>4, <3>1, NextSavedFacts
  <2>a. UNCHANGED nextTemp
    BY <1>4 DEF NextSaved
  <2>2. HandlersOK' /\ RoomOK'
    BY <1>c, <2>1, <2>a, OneHandler, RoomKept
  <2>3. handler[h].do \in Persist /\ handler[h].do \in OnRows
    BY <1>4, KindFacts DEF NextSaved, OnRows
  <2>4. ListOK'
    <3>1. CASE ~Heard(h)
      BY <1>4, <1>c, <3>1 DEF NextSaved, ListOK
    <3>2. CASE Heard(h)
      <4>1. PICK new : new = [i \in DOMAIN fields |-> handler[h].got.rows[1]]
        OBVIOUS
      <4>2. fields' = Replaced(handler[h].todo[1].key, new)
        BY <1>4, <1>b, <2>3, <3>2, <4>1 DEF NextSaved
      <4>3. handler[h].at = "ok"
        BY <3>2 DEF Heard
      <4> QED
        BY <1>0, <2>3, <4>1, <4>2, <4>3, SavedRowFacts DEF ListOK
    <3> QED
      BY <3>1, <3>2
  <2>5. savingAll' \in BOOLEAN /\ generating' \in BOOLEAN
    <3>1. savingAll' \in {savingAll, StillBusy(savingAll, h)} /\ generating' \in {generating, StillBusy(generating, h)}
      BY <1>4 DEF NextSaved
    <3>2. savingAll \in BOOLEAN /\ generating \in BOOLEAN
      BY <1>c DEF RestOK
    <3> QED
      BY <3>1, <3>2 DEF StillBusy
  <2>6. RestOK'
    BY <1>4, <1>c, <1>d, <2>5 DEF NextSaved, RestOK
  <2> QED
    BY <2>2, <2>4, <2>6
<1>5. CASE RowDeleted(h) /\ UNCHANGED gap
  <2>1. HandlersOK' /\ RoomOK'
    BY <1>5, EndTypes DEF RowDeleted
  <2>2. ListOK'
    <3>1. CASE fields' = fields
      BY <1>c, <3>1 DEF ListOK
    <3>2. CASE fields' = Without(Head(handler[h].todo).key)
      BY <1>c, <3>2, WithoutFacts DEF ListOK
    <3> QED
      BY <1>5, <3>1, <3>2 DEF RowDeleted, Remaining
  <2>3. rowBusy' \in Key
    BY <1>5, <1>c, Values DEF RowDeleted, RestOK
  <2>4. RestOK'
    BY <1>5, <1>c, <1>d, <2>3 DEF RowDeleted, RestOK
  <2> QED
    BY <2>1, <2>2, <2>4
<1>6. CASE MoveFailed(h) /\ UNCHANGED gap
  <2>1. handler[h] \in [do : Kinds, on : BOOLEAN, at : {"asked", "ok", "no"}, todo : Seq(Row), start : Nat,
                        patch : Patch, got : [rows : Seq(Row), meta : Meta]]
    BY <1>0, <1>a DEF Handler, Kinds
  <2>2. PICK r : r = [handler[h] EXCEPT !.do = "load", !.at = "asked", !.todo = <<>>]
    OBVIOUS
  <2>3. handler' = [handler EXCEPT ![h] = r]
    BY <1>6, <2>2 DEF MoveFailed
  <2>4. r.do = "load" /\ r.got = handler[h].got /\ handler[h].do = "move" /\ r.do \in Kinds
    BY <1>6, <2>1, <2>2, KindFacts DEF MoveFailed
  <2>5. r \in Handler
    <3>1. r \in [do : Kinds, on : BOOLEAN, at : {"asked", "ok", "no"}, todo : Seq(Row), start : Nat,
                 patch : Patch, got : [rows : Seq(Row), meta : Meta]]
      BY <2>1, <2>2, <2>4, Values
    <3> QED
      BY <3>1 DEF Handler, Kinds
  <2>6. HandlerOK(r)
    BY <1>a, <2>4, KindFacts DEF HandlerOK
  <2>7. HandlersOK' /\ RoomOK'
    BY <1>6, <1>c, <2>3, <2>4, <2>5, <2>6, OneHandler, RoomKept DEF MoveFailed
  <2>8. ListOK' /\ RestOK'
    BY <1>6, <1>c, <1>d DEF MoveFailed, ListOK, RestOK, screen, flags
  <2> QED
    BY <2>7, <2>8
<1>7. CASE Tested(h) /\ UNCHANGED gap
  <2>1. HandlersOK' /\ RoomOK'
    BY <1>7, EndTypes DEF Tested
  <2>2. ListOK'
    BY <1>7, <1>c DEF Tested, ListOK
  <2>3. testing' \in BOOLEAN
    BY <1>7 DEF Tested, StillBusy
  <2>4. RestOK'
    BY <1>7, <1>c, <1>d, <2>3 DEF Tested, RestOK
  <2> QED
    BY <2>1, <2>2, <2>4
<1>8. CASE RowsGenerated(h)
  <2>0. PICK new \in Seq(Row), todo \in Seq(Row), r \in Handler : Grown(h, new, todo, r)
    BY <1>0, <1>8, RowsGeneratedFacts
  <2>1. /\ Len(new) <= Generated /\ nextTemp + Len(new) <= MaxRows + 1
        /\ \A i \in DOMAIN new : RowOK(new[i])
        /\ nextTemp' = nextTemp + Len(new)
        /\ fields' = IF Shown(h) THEN fields \o new ELSE fields
        /\ handler' = [handler EXCEPT ![h] = r] /\ HandlerOK(r)
        /\ r.do # "generate"
    BY <2>0, Values DEF Grown
  <2>a. generating' \in {StillBusy(generating, h), generating} /\ gap' = (gap \/ (~Shown(h) /\ todo # new))
    BY <2>0 DEF Grown
  <2>2. handler[h].do = "generate"
    BY <1>8 DEF RowsGenerated
  <2>3. HandlersOK' /\ Generating' = Generating \ {h} /\ h \in Generating
    <3>1. h \in Generating
      BY <2>2 DEF Generating
    <3> QED
      BY <1>c, <2>1, <3>1, OneHandler
  <2>4. RoomOK'
    <3>1. Cardinality(Generating') = Cardinality(Generating) - 1
      BY <2>3, GeneratingFinite, FS_RemoveElement
    <3>2. Cardinality(Generating) >= 1
      BY <2>3, GeneratingFinite, FS_EmptySet
    <3>3. PICK n \in Nat : n = Cardinality(Generating')
      BY <3>1, <3>2, GeneratingFinite
    <3>4. Cardinality(Generating) = n + 1
      BY <3>1, <3>3, GeneratingFinite
    <3>5. Generated * (n + 1) = Generated * n + Generated /\ Generated * n \in Nat
      BY BoundsNat
    <3>6. nextTemp - 1 + Generated * (n + 1) <= MaxRows /\ nextTemp \in Nat \ {0}
      BY <1>c, <3>4, BoundsNat DEF RoomOK
    <3>7. Len(new) \in Nat
      OBVIOUS
    <3>8. nextTemp' \in 1 .. MaxRows + 1
      BY <2>1, <3>6, <3>7, BoundsNat
    <3>9. nextTemp' - 1 + Generated * n <= MaxRows
      BY <2>1, <3>5, <3>6, <3>7, BoundsNat
    <3> QED
      BY <3>3, <3>8, <3>9 DEF RoomOK
  <2>5. ListOK'
    <3>1. CASE fields' = fields
      BY <1>c, <3>1 DEF ListOK
    <3>2. CASE fields' = fields \o new
      <4>1. fields \in Seq(Row) /\ \A i \in DOMAIN fields : RowOK(fields[i])
        BY <1>c DEF ListOK
      <4>2. fields' \in Seq(Row)
        BY <3>2, <4>1
      <4>3. \A i \in DOMAIN fields' : \/ i \in DOMAIN fields /\ fields'[i] = fields[i]
                                      \/ i - Len(fields) \in DOMAIN new /\ fields'[i] = new[i - Len(fields)]
        BY <3>2, <4>1
      <4> QED
        BY <2>1, <4>1, <4>2, <4>3 DEF ListOK
    <3> QED
      BY <2>1, <3>1, <3>2
  <2>6. gap' \in BOOLEAN /\ generating' \in BOOLEAN
    BY <1>c, <2>a DEF RestOK, StillBusy
  <2>7. RestOK'
    BY <1>8, <1>c, <1>d, <2>6 DEF RowsGenerated, RestOK
  <2> QED
    BY <2>3, <2>4, <2>5, <2>7
<1> QED
  BY <1>1, <1>2, <1>3, <1>4, <1>5, <1>6, <1>7, <1>8 DEF Continue

LEMMA NextTypes == Types /\ [Next]_vars => Types'
<1> SUFFICES ASSUME Types, [Next]_vars PROVE Types'
  OBVIOUS
<1>1. CASE UNCHANGED vars
  <2>1. HandlersOK' /\ RoomOK'
    BY <1>1, StillTypes DEF vars
  <2> QED
    BY <1>1, <2>1, TypesParts DEF vars, DataOK, ListOK, RestOK, data, screen, flags, bounds
<1>2. ASSUME NEW column \in {"thinking", "override"}, updateMeta(column) PROVE Types'
  BY <1>2, updateMetaTypes
<1>3. ASSUME NEW i \in DOMAIN fields, updateRow(i) \/ saveRow(i) \/ deleteRow(i) \/ moveRow(i) PROVE Types'
  BY <1>3, updateRowTypes, saveRowTypes, deleteRowTypes, moveRowTypes
<1>4. ASSUME NEW h \in Slot, Serve(h) \/ Refuse(h) \/ Unheard(h) \/ Continue(h) PROVE Types'
  BY <1>4, ServerStep, ContinueTypes
<1> QED
  BY <1>1, <1>2, <1>3, <1>4, OpenTypes, LeaveTypes, DeleteBlueprintTypes, addRowTypes, saveAllUnsavedTypes,
     handleGenerateTypes, handleTestTypes DEF Next

LEMMA TypesAlways == Spec => []Types
  BY InitTypes, NextTypes, PTL DEF Spec

\* Every row has a key and, once it is stored, an id; every handler is one of its kinds, with
\* what that kind needs to go on; and the rows and fields stay within their bounds, whatever
\* the handlers do to each other's rows.
THEOREM TypeCorrect == Spec => []TypeOK
<1>1. Types => TypeOK
  BY DEF Types
<1> QED
  BY <1>1, TypesAlways, PTL

-----------------------------------------------------------------------------
(* What the user's steps come to on the page that is shown, when the user  *)
(* is patient.                                                             *)

Quiet == ~Working({"move", "load"})

\* A handler of that kind starts.
Began(h, r, do) ==
  /\ handler[h] = Idle /\ handler' = [handler EXCEPT ![h] = r]
  /\ r # Idle /\ r.do = do /\ r.on = TRUE /\ r.at = "asked" /\ r.got = Nothing

\* What no step of the user changes.
Common ==
  /\ page = "shown" /\ UNCHANGED <<data, page, shownMeta, unsure, faults>>
  /\ gap' = gap \/ gap' = TRUE

MetaBegun(h, r) ==
  /\ Began(h, r, "meta") /\ Quiet /\ ~Working({"meta"})
  /\ UNCHANGED <<fields, nextTemp, generating, gap>>

TestBegun(h, r) == Began(h, r, "test") /\ UNCHANGED <<fields, nextTemp, generating, gap>>

GenerateBegun(h, r) ==
  /\ Began(h, r, "generate") /\ Quiet /\ ~generating /\ generating' = TRUE /\ r.start = Len(fields)
  /\ UNCHANGED <<fields, nextTemp, gap>>

MoveBegun(h, r) ==
  /\ Began(h, r, "move") /\ ~Working(OnList \cup {"meta"})
  /\ \A i \in DOMAIN fields : Saved(fields[i])
  /\ \E i \in DOMAIN fields : i + 1 \in DOMAIN fields /\ fields' = [fields EXCEPT ![i] = fields[i + 1], ![i + 1] = fields[i]]
  /\ UNCHANGED <<nextTemp, generating, gap>>

\* Rows of the list that no handler has anything to do with are sent, each once.
Sent(todo) ==
  /\ \A j \in DOMAIN todo : \E i \in DOMAIN fields : todo[j] = fields[i] /\ fields[i].key \notin Touched
  /\ \A j, k \in DOMAIN todo : j # k => \E i, l \in DOMAIN fields : i # l /\ todo[j] = fields[i] /\ todo[k] = fields[l]

RowsBegun(h, r) ==
  /\ Quiet /\ Sent(r.todo) /\ UNCHANGED <<fields, nextTemp, generating>>
  /\ \/ Began(h, r, "save") /\ Len(r.todo) = 1 /\ UNCHANGED gap
     \/ Began(h, r, "bulk") /\ (\A j \in DOMAIN r.todo : ~Saved(r.todo[j])) /\ UNCHANGED gap
     \/ Began(h, r, "delete") /\ Len(r.todo) = 1 /\ gap' = TRUE

Typed ==
  /\ Len(fields') = Len(fields) /\ DOMAIN fields' = DOMAIN fields
  /\ \A i \in DOMAIN fields : /\ fields'[i].key = fields[i].key /\ fields'[i].id = fields[i].id
                              /\ fields'[i].order = fields[i].order
  /\ UNCHANGED <<handler, nextTemp, generating, gap>>

Added ==
  /\ Quiet /\ ~Working({"generate"}) /\ nextTemp \in 1 .. MaxRows /\ nextTemp' = nextTemp + 1
  /\ fields' = Append(fields, blankField(nextTemp, Blank, Len(fields)))
  /\ UNCHANGED <<handler, generating, gap>>

Dropped ==
  /\ Quiet /\ gap' = TRUE
  /\ \E i \in DOMAIN fields : /\ ~Saved(fields[i]) /\ fields[i].key \notin Touched
                              /\ fields' = Without(fields[i].key)
  /\ UNCHANGED <<handler, nextTemp, generating>>

UserStep ==
  /\ Common
  /\ \/ \E h \in Slot, r \in Handler :
          MetaBegun(h, r) \/ TestBegun(h, r) \/ GenerateBegun(h, r) \/ MoveBegun(h, r) \/ RowsBegun(h, r)
     \/ Typed \/ Added \/ Dropped

BeganWith(h, r, do, todo, start) == Began(h, r, do) /\ r.todo = todo /\ r.start = start

LEMMA StartedFacts ==
  ASSUME NEW do \in Kinds, NEW todo \in Seq(Row), NEW start \in Nat, NEW patch \in Patch,
         Start(do, todo, start, patch)
  PROVE  \E h \in Slot, r \in Handler : BeganWith(h, r, do, todo, start)
<1>1. PICK h \in Slot : handler[h] = Idle /\ handler' = [handler EXCEPT ![h] = Begun(do, todo, start, patch)]
  BY StartFacts
<1>2. PICK r : r = Begun(do, todo, start, patch)
  OBVIOUS
<1>a. Begun(do, todo, start, patch) \in Handler /\ Begun(do, todo, start, patch) # Idle
  <2>1. Begun(do, todo, start, patch) \in Handler
    BY BegunFacts, Zenon
  <2>2. "idle" \notin Kinds /\ Begun(do, todo, start, patch).do = do
    BY KindFacts DEF Begun
  <2> QED
    BY <2>1, <2>2, Values
<1>3. r \in Handler /\ r # Idle
  BY <1>2, <1>a
<1>4. BeganWith(h, r, do, todo, start)
  BY <1>1, <1>2, <1>3 DEF BeganWith, Began, Begun
<1> QED
  BY <1>3, <1>4

LEMMA FreeFacts ==
  ASSUME Patient, NEW keys, Free(keys)
  PROVE  Quiet /\ \A key \in keys : key \notin Touched
  BY DEF Free, Quiet

LEMMA UserStepFacts ==
  ASSUME Types, Patient,
         \/ addRow \/ saveAllUnsaved \/ handleGenerate \/ handleTest
         \/ \E column \in {"thinking", "override"} : updateMeta(column)
         \/ \E i \in DOMAIN fields : updateRow(i) \/ saveRow(i) \/ deleteRow(i) \/ moveRow(i)
  PROVE  UserStep
<1>0. fields \in Seq(Row) /\ Len(fields) \in Nat /\ \A i \in DOMAIN fields : fields[i] \in Row
  BY TypesParts DEF ListOK
<1>a. 0 \in Nat /\ <<>> \in Seq(Row) /\ NoPatch \in Patch
  BY Values
<1>1. CASE addRow
  <2>1. Quiet /\ ~Working({"generate"})
    BY <1>1, FreeFacts DEF addRow
  <2>2. nextTemp \in 1 .. MaxRows
    <3>1. nextTemp + 1 - 1 + Generated * Cardinality(Generating) <= MaxRows
      BY <1>1 DEF addRow, Room, Generating
    <3>2. Generated * Cardinality(Generating) \in Nat
      BY BoundsNat, GeneratingFinite
    <3> QED
      BY <3>1, <3>2, BoundsNat, TypesParts DEF RoomOK
  <2>3. Added
    BY <1>1, <2>1, <2>2 DEF addRow, Added, flags
  <2> QED
    BY <1>1, <2>3 DEF addRow, Operation, Common, UserStep
<1>2. CASE saveAllUnsaved
  <2>0. Common /\ UNCHANGED <<fields, nextTemp, generating, gap>>
    BY <1>2 DEF saveAllUnsaved, Operation, Common
  <2>1. CASE UNCHANGED handler
    BY <2>0, <2>1 DEF Typed, UserStep
  <2>2. CASE ~UNCHANGED handler
    <3>1. PICK rows, todo : rows = unsavedRows /\ todo = Complete(unsavedRows)
      OBVIOUS
    <3>2. /\ rows \in Seq(Row)
          /\ \A j \in DOMAIN rows : \E i \in DOMAIN fields : rows[j] = fields[i] /\ ~Saved(fields[i])
          /\ \A j, k \in DOMAIN rows : j # k =>
               \E i, l \in DOMAIN fields : i # l /\ rows[j] = fields[i] /\ rows[k] = fields[l]
      BY <1>0, <3>1, UnsavedFacts
    <3>3. /\ todo \in Seq(Row)
          /\ \A j \in DOMAIN todo : \E i \in DOMAIN rows : todo[j] = rows[i]
          /\ \A j, k \in DOMAIN todo : j # k => \E i, l \in DOMAIN rows : i # l /\ todo[j] = rows[i] /\ todo[k] = rows[l]
      BY <3>1, <3>2, CompleteFacts
    <3>4. Quiet /\ \A j \in DOMAIN rows : rows[j].key \notin Touched
      <4>1. Quiet /\ \A key \in KeysOf(rows) : key \notin Touched
        BY <1>2, <3>1, FreeFacts DEF saveAllUnsaved
      <4> QED
        BY <4>1 DEF KeysOf
    <3>5. Sent(todo) /\ \A j \in DOMAIN todo : ~Saved(todo[j])
      BY <3>2, <3>3, <3>4 DEF Sent
    <3>6. Start("bulk", todo, 0, NoPatch)
      BY <1>2, <2>2, <3>1 DEF saveAllUnsaved
    <3>7. "bulk" \in Kinds
      BY KindFacts
    <3>8. PICK h \in Slot, r \in Handler : BeganWith(h, r, "bulk", todo, 0)
      BY <1>a, <3>3, <3>6, <3>7, StartedFacts
    <3>9. RowsBegun(h, r)
      BY <2>0, <3>4, <3>5, <3>8 DEF RowsBegun, BeganWith
    <3> QED
      BY <2>0, <3>9 DEF UserStep
  <2> QED
    BY <2>1, <2>2
<1>3. CASE handleGenerate
  <2>1. Quiet
    BY <1>3, FreeFacts DEF handleGenerate
  <2>2. Start("generate", <<>>, Len(fields), NoPatch) /\ "generate" \in Kinds
    BY <1>3, KindFacts DEF handleGenerate
  <2>3. PICK h \in Slot, r \in Handler : BeganWith(h, r, "generate", <<>>, Len(fields))
    BY <1>0, <1>a, <2>2, StartedFacts
  <2>4. GenerateBegun(h, r)
    BY <1>3, <2>1, <2>3 DEF handleGenerate, GenerateBegun, BeganWith
  <2> QED
    BY <1>3, <2>4 DEF handleGenerate, Operation, Common, UserStep
<1>4. CASE handleTest
  <2>1. Start("test", fields, 0, NoPatch) /\ "test" \in Kinds
    BY <1>4, KindFacts DEF handleTest
  <2>2. PICK h \in Slot, r \in Handler : BeganWith(h, r, "test", fields, 0)
    BY <1>0, <1>a, <2>1, StartedFacts
  <2>3. TestBegun(h, r)
    BY <1>4, <2>2 DEF handleTest, TestBegun, BeganWith
  <2> QED
    BY <1>4, <2>3 DEF handleTest, Operation, Common, UserStep
<1>5. ASSUME NEW column \in {"thinking", "override"}, updateMeta(column) PROVE UserStep
  <2>1. PICK value \in BOOLEAN : Start("meta", <<>>, 0, [column |-> column, value |-> value])
    BY <1>5 DEF updateMeta
  <2>2. PICK patch \in Patch : Start("meta", <<>>, 0, patch)
    <3>1. [column |-> column, value |-> value] \in Patch
      BY DEF Patch
    <3> QED
      BY <2>1, <3>1
  <2>3. PICK h \in Slot, r \in Handler : BeganWith(h, r, "meta", <<>>, 0)
    BY <1>a, <2>2, KindFacts, StartedFacts
  <2>4. Quiet /\ ~Working({"meta"})
    BY <1>5 DEF updateMeta, Quiet, Working
  <2>5. MetaBegun(h, r)
    BY <1>5, <2>3, <2>4 DEF updateMeta, MetaBegun, BeganWith
  <2> QED
    BY <1>5, <2>5 DEF updateMeta, Operation, Common, UserStep
<1>6. ASSUME NEW i \in DOMAIN fields, updateRow(i) PROVE UserStep
  <2>1. PICK text : fields' = [fields EXCEPT ![i].text = text]
    BY <1>6 DEF updateRow
  <2>2. PICK row : row = [fields[i] EXCEPT !.text = text]
    OBVIOUS
  <2>3. row.key = fields[i].key /\ row.id = fields[i].id /\ row.order = fields[i].order
    BY <1>0, <2>2 DEF Row
  <2>4. fields' = [fields EXCEPT ![i] = row]
    BY <2>1, <2>2
  <2>5. Len(fields') = Len(fields) /\ DOMAIN fields' = DOMAIN fields
    BY <1>0, <2>4
  <2>6. \A j \in DOMAIN fields : fields'[j] = IF j = i THEN row ELSE fields[j]
    BY <1>0, <2>4
  <2>7. Typed
    BY <1>6, <2>3, <2>5, <2>6 DEF Typed, updateRow, flags
  <2> QED
    BY <1>6, <2>7 DEF updateRow, Common, UserStep, bounds
<1>7. ASSUME NEW i \in DOMAIN fields, saveRow(i) PROVE UserStep
  <2>0. Common /\ UNCHANGED <<fields, nextTemp, generating, gap>>
    BY <1>7 DEF saveRow, Operation, Common
  <2>1. CASE UNCHANGED handler
    BY <2>0, <2>1 DEF Typed, UserStep
  <2>2. CASE ~UNCHANGED handler
    <3>1. PICK todo : todo = <<fields[i]>>
      OBVIOUS
    <3>2. todo \in Seq(Row) /\ Len(todo) = 1 /\ DOMAIN todo = {1} /\ todo[1] = fields[i]
      BY <1>0, <3>1
    <3>3. Start("save", todo, 0, NoPatch) /\ "save" \in Kinds
      BY <1>7, <2>2, <3>1, KindFacts DEF saveRow
    <3>4. PICK h \in Slot, r \in Handler : BeganWith(h, r, "save", todo, 0)
      BY <1>a, <3>2, <3>3, StartedFacts
    <3>5. Quiet /\ fields[i].key \notin Touched
      BY <1>7, FreeFacts DEF saveRow
    <3>6. RowsBegun(h, r)
      BY <2>0, <3>2, <3>4, <3>5 DEF RowsBegun, Sent, BeganWith
    <3> QED
      BY <2>0, <3>6 DEF UserStep
  <2> QED
    BY <2>1, <2>2
<1>8. ASSUME NEW i \in DOMAIN fields, deleteRow(i) PROVE UserStep
  <2>0. Common /\ UNCHANGED <<nextTemp, generating>> /\ gap' = TRUE /\ Quiet /\ fields[i].key \notin Touched
    <3>1. Quiet /\ fields[i].key \notin Touched
      BY <1>8, FreeFacts DEF deleteRow
    <3> QED
      BY <1>8, <3>1 DEF deleteRow, Operation, Common
  <2>1. CASE ~Saved(fields[i])
    <3>1. Dropped
      BY <1>8, <2>0, <2>1 DEF deleteRow, Dropped
    <3> QED
      BY <2>0, <3>1 DEF UserStep
  <2>2. CASE Saved(fields[i])
    <3>1. PICK todo : todo = <<fields[i]>>
      OBVIOUS
    <3>2. todo \in Seq(Row) /\ Len(todo) = 1 /\ DOMAIN todo = {1} /\ todo[1] = fields[i]
      BY <1>0, <3>1
    <3>3. Start("delete", todo, 0, NoPatch) /\ "delete" \in Kinds /\ UNCHANGED fields
      BY <1>8, <2>2, <3>1, KindFacts DEF deleteRow
    <3>4. PICK h \in Slot, r \in Handler : BeganWith(h, r, "delete", todo, 0)
      BY <1>a, <3>2, <3>3, StartedFacts
    <3>5. RowsBegun(h, r)
      BY <2>0, <3>2, <3>3, <3>4 DEF RowsBegun, Sent, BeganWith
    <3> QED
      BY <2>0, <3>5 DEF UserStep
  <2> QED
    BY <2>1, <2>2
<1>9. ASSUME NEW i \in DOMAIN fields, moveRow(i) PROVE UserStep
  <2>1. PICK swapped : swapped = [fields EXCEPT ![i] = fields[i + 1], ![i + 1] = fields[i]]
    OBVIOUS
  <2>2. /\ i + 1 \in DOMAIN fields /\ fields' = swapped /\ Start("move", swapped, 0, NoPatch)
        /\ ~Working(OnList \cup {"meta"}) /\ unsavedRows = <<>>
    BY <1>9, <2>1 DEF moveRow
  <2>3. swapped \in Seq(Row)
    BY <1>0, <2>1, <2>2, SwapFacts
  <2>4. PICK h \in Slot, r \in Handler : BeganWith(h, r, "move", swapped, 0)
    BY <1>a, <2>2, <2>3, KindFacts, StartedFacts
  <2>5. \A j \in DOMAIN fields : Saved(fields[j])
    BY <1>0, <2>2, UnsavedFacts
  <2>6. MoveBegun(h, r)
    BY <1>9, <2>1, <2>2, <2>4, <2>5 DEF moveRow, MoveBegun, flags, BeganWith
  <2> QED
    BY <1>9, <2>6 DEF moveRow, Operation, Common, UserStep
<1> QED
  BY <1>1, <1>2, <1>3, <1>4, <1>5, <1>6, <1>7, <1>8, <1>9

-----------------------------------------------------------------------------
(* What a handler's own steps come to.                                     *)

\* Handler h becomes r, for good or for its next request.
Went(h, r) ==
  /\ handler[h] # Idle /\ handler[h].at \in {"ok", "no"} /\ handler' = [handler EXCEPT ![h] = r]
  /\ UNCHANGED <<data, unsure, bounds>>

LoadDone(h, r) ==
  /\ handler[h].do = "load" /\ r = Idle
  /\ page' = IF Heard(h) THEN "shown" ELSE IF Shown(h) /\ page = "loading" THEN "missing" ELSE page
  /\ fields' = IF Heard(h) THEN handler[h].got.rows ELSE fields
  /\ shownMeta' = IF Heard(h) THEN handler[h].got.meta ELSE shownMeta
  /\ UNCHANGED <<nextTemp, generating, gap>>

MetaDone(h, r) ==
  /\ handler[h].do = "meta" /\ r = Idle
  /\ shownMeta' = IF Heard(h) THEN handler[h].got.meta ELSE shownMeta
  /\ UNCHANGED <<page, fields, nextTemp, generating, gap>>

TestDone(h, r) ==
  /\ handler[h].do = "test" /\ r = Idle
  /\ UNCHANGED <<page, fields, shownMeta, nextTemp, generating, gap>>

\* The rows that asked have the answer.
Filled(h) ==
  LET key == handler[h].todo[1].key
      saved == handler[h].got.rows[1]
  IN
  /\ DOMAIN fields' = DOMAIN fields /\ Len(fields') = Len(fields)
  /\ \A i \in DOMAIN fields : fields[i].key # key => fields'[i] = fields[i]
  /\ \A i \in DOMAIN fields : fields[i].key = key =>
       /\ fields'[i].id = saved.id /\ fields'[i].order = saved.order
       /\ fields'[i].key = IF handler[h].do = "save" THEN key ELSE saved.key

SaveDone(h, r) ==
  /\ handler[h].do \in Persist
  /\ Heard(h) => Filled(h)
  /\ ~Heard(h) => UNCHANGED fields
  /\ \/ handler[h].do = "save" /\ r = Idle
     \/ handler[h].do # "save" /\ Len(handler[h].todo) = 1 /\ r = Idle
     \/ /\ handler[h].do # "save" /\ Len(handler[h].todo) # 1
        /\ r # Idle /\ r.do = handler[h].do /\ r.on = handler[h].on /\ r.at = "asked"
        /\ r.todo = Tail(handler[h].todo) /\ r.got = Nothing
  /\ (r = Idle /\ handler[h].do = "keep") \/ UNCHANGED generating
  /\ ~Shown(h) => UNCHANGED generating
  /\ UNCHANGED <<page, shownMeta, nextTemp, gap>>

DeleteDone(h, r) ==
  /\ handler[h].do = "delete" /\ r = Idle
  /\ fields' = IF Heard(h) THEN Without(handler[h].todo[1].key) ELSE fields
  /\ UNCHANGED <<page, shownMeta, nextTemp, generating, gap>>

MoveDone(h, r) ==
  /\ handler[h].do = "move" /\ r # Idle /\ r.do = "load" /\ r.at = "asked" /\ r.on = handler[h].on
  /\ UNCHANGED <<page, fields, shownMeta, nextTemp, generating, gap>>

GenerateDone(h, r) ==
  /\ \E new \in Seq(Row), todo \in Seq(Row) : Grown(h, new, todo, r)
  /\ UNCHANGED <<page, shownMeta>>

HandlerStep(h, r) ==
  /\ Went(h, r)
  /\ \/ LoadDone(h, r) \/ MetaDone(h, r) \/ TestDone(h, r) \/ SaveDone(h, r) \/ DeleteDone(h, r)
     \/ MoveDone(h, r) \/ GenerateDone(h, r)

LEMMA FilledFacts ==
  ASSUME Types, NEW h \in Slot, handler[h] # Idle, handler[h].do \in Persist, handler[h].at = "ok",
         \/ handler[h].do # "save" /\ fields' = Replaced(handler[h].todo[1].key, [i \in DOMAIN fields |-> handler[h].got.rows[1]])
         \/ /\ handler[h].do = "save"
            /\ fields' = Replaced(handler[h].todo[1].key, [i \in DOMAIN fields |-> Merged(handler[h].got.rows[1], fields[i])])
  PROVE  Filled(h)
<1>1. PICK key, saved : key = handler[h].todo[1].key /\ saved = handler[h].got.rows[1]
  OBVIOUS
<1>2. key \in Key /\ saved \in Row /\ Saved(saved)
  BY <1>1, AnsweredFacts, KindFacts DEF OnRows
<1>3. fields \in Seq(Row) /\ \A i \in DOMAIN fields : fields[i] \in Row
  BY TypesParts DEF ListOK
<1>4. CASE handler[h].do # "save" /\ fields' = Replaced(key, [i \in DOMAIN fields |-> saved])
  <2>1. PICK new : new = [i \in DOMAIN fields |-> saved]
    OBVIOUS
  <2>2. fields' = Replaced(key, new)
    BY <1>4, <2>1
  <2>3. PICK rows : rows = Replaced(key, new)
    OBVIOUS
  <2>4. /\ DOMAIN rows = DOMAIN fields /\ Len(rows) = Len(fields)
        /\ \A i \in DOMAIN fields : fields[i].key # key => rows[i] = fields[i]
        /\ \A i \in DOMAIN fields : fields[i].key = key =>
             rows[i] = new[i] /\ rows[i].id = saved.id /\ rows[i].order = saved.order
    <3>1. new = [i \in DOMAIN fields |-> saved] \/ new = [i \in DOMAIN fields |-> Merged(saved, fields[i])]
      BY <2>1
    <3> QED
      BY <1>2, <1>3, <2>3, <3>1, ReplacedFacts
  <2>5. \A i \in DOMAIN fields : fields[i].key = key => rows[i].key = saved.key
    BY <2>1, <2>4
  <2> QED
    BY <1>1, <1>4, <2>2, <2>3, <2>4, <2>5 DEF Filled
<1>5. CASE handler[h].do = "save" /\ fields' = Replaced(key, [i \in DOMAIN fields |-> Merged(saved, fields[i])])
  <2>1. PICK new : new = [i \in DOMAIN fields |-> Merged(saved, fields[i])]
    OBVIOUS
  <2>2. fields' = Replaced(key, new)
    BY <1>5, <2>1
  <2>3. PICK rows : rows = Replaced(key, new)
    OBVIOUS
  <2>4. /\ DOMAIN rows = DOMAIN fields /\ Len(rows) = Len(fields)
        /\ \A i \in DOMAIN fields : fields[i].key # key => rows[i] = fields[i]
        /\ \A i \in DOMAIN fields : fields[i].key = key =>
             rows[i] = new[i] /\ rows[i].id = saved.id /\ rows[i].order = saved.order
    <3>1. new = [i \in DOMAIN fields |-> saved] \/ new = [i \in DOMAIN fields |-> Merged(saved, fields[i])]
      BY <2>1
    <3> QED
      BY <1>2, <1>3, <2>3, <3>1, ReplacedFacts
  <2>5. \A i \in DOMAIN fields : fields[i].key = key => rows[i].key = key
    <3>1. \A i \in DOMAIN fields : Merged(saved, fields[i]).key = fields[i].key
      BY <1>2, <1>3 DEF Merged, Row
    <3> QED
      BY <2>1, <2>3, <3>1 DEF Replaced
  <2> QED
    BY <1>1, <1>5, <2>2, <2>3, <2>4, <2>5 DEF Filled
<1> QED
  BY <1>1, <1>4, <1>5

LEMMA HandlerStepFacts ==
  ASSUME Types, NEW h \in Slot, Continue(h)
  PROVE  \E r \in Handler : HandlerStep(h, r)
<1>0. handler[h] # Idle /\ handler[h].at # "asked" /\ UNCHANGED <<data, unsure, bounds>>
  BY DEF Continue
<1>a. handler[h].at \in {"ok", "no"} /\ handler[h] \in Handler
  BY <1>0, AnsweredFacts
<1>b. handler[h].do \in OnRows => Head(handler[h].todo) = handler[h].todo[1]
  BY <1>0, AnsweredFacts
<1>c. Idle \in Handler
  BY Values
<1>d. Ends(h) => Went(h, Idle)
  BY <1>0, <1>a DEF Ends, Went
<1>1. CASE Loaded(h) /\ UNCHANGED gap
  <2>1. LoadDone(h, Idle) /\ Ends(h)
    BY <1>1 DEF Loaded, LoadDone, flags
  <2> QED
    BY <1>c, <1>d, <2>1 DEF HandlerStep
<1>2. CASE MetaUpdated(h) /\ UNCHANGED gap
  <2>1. MetaDone(h, Idle) /\ Ends(h)
    BY <1>2 DEF MetaUpdated, MetaDone
  <2> QED
    BY <1>c, <1>d, <2>1 DEF HandlerStep
<1>3. CASE RowSaved(h) /\ UNCHANGED gap
  <2>0. handler[h].do = "save" /\ handler[h].do \in Persist /\ handler[h].do \in OnRows /\ Ends(h)
    BY <1>3, KindFacts DEF RowSaved, OnRows
  <2>1. Heard(h) => Filled(h)
    BY <1>0, <1>3, <1>b, <2>0, FilledFacts DEF RowSaved, Heard
  <2>2. SaveDone(h, Idle)
    BY <1>3, <2>0, <2>1 DEF RowSaved, SaveDone
  <2> QED
    BY <1>c, <1>d, <2>0, <2>2 DEF HandlerStep
<1>4. CASE NextSaved(h) /\ UNCHANGED gap
  <2>0. handler[h].do \in {"bulk", "keep"} /\ handler[h].do # "save" /\ handler[h].do \in Persist /\ handler[h].do \in OnRows
    BY <1>4, KindFacts DEF NextSaved, OnRows
  <2>1. Heard(h) => Filled(h)
    BY <1>0, <1>4, <1>b, <2>0, FilledFacts DEF NextSaved, Heard
  <2>2. PICK r \in Handler :
              /\ handler' = [handler EXCEPT ![h] = r] /\ HandlerOK(r)
              /\ Len(handler[h].todo) = 1 => r = Idle
              /\ Len(handler[h].todo) # 1 =>
                   /\ r # Idle /\ r.do = handler[h].do /\ r.on = handler[h].on /\ r.at = "asked"
                   /\ r.todo = Tail(handler[h].todo) /\ r.start = handler[h].start /\ r.got = Nothing
    BY <1>0, <1>4, NextSavedFacts
  <2>3. Len(handler[h].todo) = 1 <=> Tail(handler[h].todo) = <<>>
    BY <1>0, <2>0, AnsweredFacts, HeadFacts
  <2>4. (r = Idle /\ handler[h].do = "keep") \/ UNCHANGED generating
    BY <1>4, <2>2, <2>3 DEF NextSaved, Pending
  <2>5. ~Shown(h) => UNCHANGED generating
    <3>1. generating \in BOOLEAN
      BY TypesParts DEF RestOK
    <3> QED
      BY <1>4, <3>1 DEF NextSaved, StillBusy
  <2>6. SaveDone(h, r)
    BY <1>4, <2>0, <2>1, <2>2, <2>4, <2>5 DEF NextSaved, SaveDone
  <2>7. Went(h, r)
    BY <1>0, <1>a, <2>2 DEF Went
  <2> QED
    BY <2>6, <2>7 DEF HandlerStep
<1>5. CASE RowDeleted(h) /\ UNCHANGED gap
  <2>1. handler[h].do = "delete" /\ handler[h].do \in OnRows
    BY <1>5, KindFacts DEF RowDeleted, OnRows
  <2>2. DeleteDone(h, Idle) /\ Ends(h)
    BY <1>5, <1>b, <2>1 DEF RowDeleted, DeleteDone, Remaining
  <2> QED
    BY <1>c, <1>d, <2>2 DEF HandlerStep
<1>6. CASE MoveFailed(h) /\ UNCHANGED gap
  <2>1. handler[h] \in [do : Kinds, on : BOOLEAN, at : {"asked", "ok", "no"}, todo : Seq(Row), start : Nat,
                        patch : Patch, got : [rows : Seq(Row), meta : Meta]]
    BY <1>0, <1>a DEF Handler, Kinds
  <2>2. PICK r : r = [handler[h] EXCEPT !.do = "load", !.at = "asked", !.todo = <<>>]
    OBVIOUS
  <2>3. handler' = [handler EXCEPT ![h] = r]
    BY <1>6, <2>2 DEF MoveFailed
  <2>4. r.do = "load" /\ r.at = "asked" /\ r.on = handler[h].on /\ handler[h].do = "move" /\ r.do \in Kinds
    BY <1>6, <2>1, <2>2, KindFacts DEF MoveFailed
  <2>5. r \in Handler /\ r # Idle
    <3>1. r \in [do : Kinds, on : BOOLEAN, at : {"asked", "ok", "no"}, todo : Seq(Row), start : Nat,
                 patch : Patch, got : [rows : Seq(Row), meta : Meta]]
      BY <2>1, <2>2, <2>4, Values
    <3> QED
      BY <2>4, <3>1, Values DEF Handler, Kinds
  <2>6. MoveDone(h, r)
    BY <1>6, <2>4, <2>5 DEF MoveFailed, MoveDone, screen, flags
  <2>7. Went(h, r)
    BY <1>0, <1>a, <2>3 DEF Went
  <2> QED
    BY <2>5, <2>6, <2>7 DEF HandlerStep
<1>7. CASE Tested(h) /\ UNCHANGED gap
  <2>1. TestDone(h, Idle) /\ Ends(h)
    BY <1>7 DEF Tested, TestDone
  <2> QED
    BY <1>c, <1>d, <2>1 DEF HandlerStep
<1>8. CASE RowsGenerated(h)
  <2>1. PICK new \in Seq(Row), todo \in Seq(Row), r \in Handler : Grown(h, new, todo, r)
    BY <1>0, <1>8, RowsGeneratedFacts
  <2>2. GenerateDone(h, r)
    BY <1>8, <2>1 DEF RowsGenerated, GenerateDone
  <2>3. Went(h, r)
    BY <1>0, <1>a, <2>1 DEF Went, Grown
  <2> QED
    BY <2>2, <2>3 DEF HandlerStep
<1> QED
  BY <1>1, <1>2, <1>3, <1>4, <1>5, <1>6, <1>7, <1>8 DEF Continue

-----------------------------------------------------------------------------
(* Every step is of one of these kinds.                                    *)

\* The handlers of the page that is left go on without it.
Unmounted ==
  /\ page' \in {"upload", "left"} /\ fields' = <<>>
  /\ \A h \in Slot :
       /\ handler[h] = Idle => handler'[h] = Idle
       /\ handler[h] # Idle =>
            /\ handler'[h] # Idle /\ handler'[h].on = FALSE
            /\ handler'[h].do = handler[h].do /\ handler'[h].at = handler[h].at /\ handler'[h].todo = handler[h].todo
            /\ handler'[h].start = handler[h].start /\ handler'[h].got = handler[h].got
  /\ gap' = (gap \/ unsavedRows # <<>>)
  /\ UNCHANGED <<data, nextTemp, unsure, faults>>

Opened(h, r) ==
  /\ page \in {"upload", "left"} /\ page' = "loading" /\ (\A g \in Slot : handler[g] = Idle)
  /\ Began(h, r, "load")
  /\ UNCHANGED <<data, fields, shownMeta, nextTemp, generating, unsure, gap, faults>>

Gone ==
  /\ exists' = FALSE /\ DOMAIN server' = {} /\ faults' = faults + 1
  /\ UNCHANGED <<made, nextId, page, fields, shownMeta, generating, nextTemp, handler, unsure, gap>>

LEMMA Steps ==
  ASSUME Types, Patient, [Next]_vars
  PROVE  \/ UNCHANGED vars \/ Unmounted \/ Gone \/ UserStep
         \/ \E h \in Slot : Replied(h)
         \/ \E h \in Slot, r \in Handler : Opened(h, r) \/ HandlerStep(h, r)
<1>1. CASE GoUpload \/ Leave
  <2>1. PICK next \in {"upload", "left"} : Unmount(next) /\ UNCHANGED faults
    BY <1>1 DEF GoUpload, Leave, Unmount
  <2>2. \A h \in Slot : handler[h] # Idle =>
          /\ [handler[h] EXCEPT !.on = FALSE] # Idle /\ [handler[h] EXCEPT !.on = FALSE].on = FALSE
          /\ [handler[h] EXCEPT !.on = FALSE].do = handler[h].do /\ [handler[h] EXCEPT !.on = FALSE].at = handler[h].at
          /\ [handler[h] EXCEPT !.on = FALSE].todo = handler[h].todo
          /\ [handler[h] EXCEPT !.on = FALSE].start = handler[h].start
          /\ [handler[h] EXCEPT !.on = FALSE].got = handler[h].got
    <3> SUFFICES ASSUME NEW h \in Slot, handler[h] # Idle, NEW r, r = [handler[h] EXCEPT !.on = FALSE]
                 PROVE  /\ r # Idle /\ r.on = FALSE /\ r.do = handler[h].do /\ r.at = handler[h].at
                        /\ r.todo = handler[h].todo /\ r.start = handler[h].start /\ r.got = handler[h].got
      OBVIOUS
    <3>1. handler[h] \in [do : Kinds, on : BOOLEAN, at : {"asked", "ok", "no"}, todo : Seq(Row), start : Nat,
                          patch : Patch, got : [rows : Seq(Row), meta : Meta]]
      BY TypesParts DEF HandlersOK, Handler, Kinds
    <3>2. /\ r.on = FALSE /\ r.do = handler[h].do /\ r.at = handler[h].at
          /\ r.todo = handler[h].todo /\ r.start = handler[h].start /\ r.got = handler[h].got
      BY <3>1
    <3>3. r # Idle
      BY <3>1, <3>2, KindFacts, Values
    <3> QED
      BY <3>2, <3>3
  <2>3. \A h \in Slot : /\ handler[h] = Idle => handler'[h] = Idle
                        /\ handler[h] # Idle => handler'[h] = [handler[h] EXCEPT !.on = FALSE]
    BY <2>1 DEF Unmount
  <2>4. Unmounted
    BY <2>1, <2>2, <2>3 DEF Unmount, Unmounted
  <2> QED
    BY <2>4
<1>2. CASE Open
  <2>1. Start("load", <<>>, 0, NoPatch) /\ "load" \in Kinds
    BY <1>2, KindFacts DEF Open
  <2>2. PICK h \in Slot, r \in Handler : BeganWith(h, r, "load", <<>>, 0)
    BY <2>1, Values, StartedFacts
  <2>3. Opened(h, r)
    BY <1>2, <2>2 DEF Open, Opened, BeganWith, flags
  <2> QED
    BY <2>3
<1>3. CASE DeleteBlueprint
  <2>1. DOMAIN server' = {}
    BY <1>3 DEF DeleteBlueprint
  <2>2. Gone
    BY <1>3, <2>1 DEF DeleteBlueprint, Gone, screen, flags
  <2> QED
    BY <2>2
<1>4. ASSUME \/ addRow \/ saveAllUnsaved \/ handleGenerate \/ handleTest
             \/ \E column \in {"thinking", "override"} : updateMeta(column)
             \/ \E i \in DOMAIN fields : updateRow(i) \/ saveRow(i) \/ deleteRow(i) \/ moveRow(i)
      PROVE  UserStep
  BY <1>4, UserStepFacts
<1>5. ASSUME NEW h \in Slot, Serve(h) \/ Refuse(h) \/ Unheard(h) PROVE Replied(h)
  BY <1>5, ServerStep
<1>6. ASSUME NEW h \in Slot, Continue(h) PROVE \E r \in Handler : HandlerStep(h, r)
  BY <1>6, HandlerStepFacts
<1> QED
  BY <1>1, <1>2, <1>3, <1>4, <1>5, <1>6 DEF Next

-----------------------------------------------------------------------------
(* Who works at the same time, when the user is patient.                   *)

Mounted == page \in {"loading", "shown", "missing"}

Turns ==
  /\ \A h \in Slot : handler[h] # Idle => (handler[h].on <=> Mounted)
  /\ page # "shown" => fields = <<>>
  /\ page = "loading" => \A h \in Slot : handler[h].do \in {"idle", "load"}
  /\ page = "missing" => \A h \in Slot : handler[h] = Idle
  /\ \A g, h \in Slot : g # h /\ handler[h].do \in {"move", "load"} => handler[g].do \in {"idle", "test"}
  /\ \A g, h \in Slot : g # h /\ handler[h].do = "meta" => handler[g].do # "meta"
  /\ \A g, h \in Slot : g # h /\ handler[h].do \in {"generate", "keep"} => handler[g].do \notin {"generate", "keep"}
  /\ \A h \in Slot : page = "shown" /\ handler[h].do \in {"generate", "keep"} => generating

\* What each handler is.
LEMMA SomeHandler ==
  ASSUME Types, NEW h \in Slot
  PROVE  /\ handler[h] \in Handler /\ handler[h].do \in Kinds \cup {"idle"}
         /\ handler[h] = Idle <=> handler[h].do = "idle"
  BY TypesParts, HandlerFacts DEF HandlersOK

\* One handler changes, and fits in with the others.
LEMMA TurnsOne ==
  ASSUME Types, Turns, NEW h \in Slot, NEW r \in Handler, handler' = [handler EXCEPT ![h] = r],
         Mounted' <=> Mounted, r # Idle => (r.on <=> Mounted),
         page' # "shown" => fields' = <<>>,
         page' = "loading" => page = "loading" /\ r.do \in {"idle", "load"},
         page' = "missing" => r = Idle /\ \A g \in Slot \ {h} : handler[g] = Idle,
         r.do \in {"move", "load"} => \A g \in Slot \ {h} : handler[g].do \in {"idle", "test"},
         r.do \notin {"idle", "test"} => \A g \in Slot \ {h} : handler[g].do \notin {"move", "load"},
         r.do = "meta" => \A g \in Slot \ {h} : handler[g].do # "meta",
         r.do \in {"generate", "keep"} => \A g \in Slot \ {h} : handler[g].do \notin {"generate", "keep"},
         page' = "shown" /\ r.do \in {"generate", "keep"} => generating',
         \A g \in Slot \ {h} : page' = "shown" /\ handler[g].do \in {"generate", "keep"} => generating'
  PROVE  Turns'
<1>1. handler'[h] = r /\ \A g \in Slot \ {h} : handler'[g] = handler[g]
  BY TypesParts DEF HandlersOK
<1>2. r.do = "idle" <=> r = Idle
  BY HandlerFacts
<1>3. (\A g \in Slot : handler[g] # Idle => (handler[g].on <=> Mounted))'
  BY <1>1 DEF Turns
<1>4. (page = "loading" => \A g \in Slot : handler[g].do \in {"idle", "load"})'
  BY <1>1 DEF Turns
<1>5. (page = "missing" => \A g \in Slot : handler[g] = Idle)'
  BY <1>1 DEF Turns
<1>6. (\A f, g \in Slot : f # g /\ handler[g].do \in {"move", "load"} => handler[f].do \in {"idle", "test"})'
  <2> SUFFICES ASSUME NEW f \in Slot, NEW g \in Slot, f # g, handler'[g].do \in {"move", "load"}
               PROVE  handler'[f].do \in {"idle", "test"}
    OBVIOUS
  <2>1. CASE g = h
    BY <1>1, <2>1
  <2>2. CASE f = h
    BY <1>1, <2>2
  <2>3. CASE f # h /\ g # h
    BY <1>1, <2>3 DEF Turns
  <2> QED
    BY <2>1, <2>2, <2>3
<1>7. (\A f, g \in Slot : f # g /\ handler[g].do = "meta" => handler[f].do # "meta")'
  BY <1>1 DEF Turns
<1>8. (\A f, g \in Slot : f # g /\ handler[g].do \in {"generate", "keep"} => handler[f].do \notin {"generate", "keep"})'
  BY <1>1 DEF Turns
<1>9. (\A g \in Slot : page = "shown" /\ handler[g].do \in {"generate", "keep"} => generating)'
  BY <1>1
<1> QED
  BY <1>3, <1>4, <1>5, <1>6, <1>7, <1>8, <1>9 DEF Turns

\* One handler changes that stays of its kind, or a kind that had its place, or is over.
LEMMA TurnsOn ==
  ASSUME Types, Turns, NEW h \in Slot, NEW r \in Handler, handler' = [handler EXCEPT ![h] = r], handler[h] # Idle,
         \/ r = Idle
         \/ /\ r # Idle /\ r.on = handler[h].on
            /\ \/ r.do = handler[h].do
               \/ handler[h].do = "move" /\ r.do = "load"
               \/ handler[h].do = "generate" /\ r.do = "keep",
         UNCHANGED page, page # "shown" => UNCHANGED fields,
         (handler[h].do \in {"generate", "keep"} /\ r = Idle) \/ UNCHANGED generating
  PROVE  Turns'
<1>1. handler[h].do \in Kinds /\ (r = Idle <=> r.do = "idle")
  BY SomeHandler, HandlerFacts
<1>2. Mounted' <=> Mounted
  BY DEF Mounted
<1>3. r # Idle => (r.on <=> Mounted)
  BY DEF Turns
<1>4. page' # "shown" => fields' = <<>>
  BY DEF Turns
<1>5. page' = "loading" => page = "loading" /\ r.do \in {"idle", "load"}
  BY <1>1, KindFacts DEF Turns
<1>6. page' = "missing" => r = Idle /\ \A g \in Slot \ {h} : handler[g] = Idle
  BY DEF Turns
<1>7. r.do \in {"move", "load"} => \A g \in Slot \ {h} : handler[g].do \in {"idle", "test"}
  BY <1>1 DEF Turns
<1>8. r.do \notin {"idle", "test"} => \A g \in Slot \ {h} : handler[g].do \notin {"move", "load"}
  <2> SUFFICES ASSUME r.do \notin {"idle", "test"}, NEW g \in Slot \ {h}, handler[g].do \in {"move", "load"}
               PROVE  FALSE
    OBVIOUS
  <2>1. handler[h].do \in {"idle", "test"}
    BY DEF Turns
  <2>2. handler[h].do = "test"
    BY <1>1, <2>1, SomeHandler
  <2> QED
    BY <1>1, <2>2
<1>9. r.do = "meta" => \A g \in Slot \ {h} : handler[g].do # "meta"
  BY <1>1 DEF Turns
<1>10. r.do \in {"generate", "keep"} => \A g \in Slot \ {h} : handler[g].do \notin {"generate", "keep"}
  BY <1>1 DEF Turns
<1>11. page' = "shown" /\ r.do \in {"generate", "keep"} => generating'
  <2> SUFFICES ASSUME page' = "shown", r.do \in {"generate", "keep"} PROVE generating'
    OBVIOUS
  <2>1. r # Idle /\ handler[h].do \in {"generate", "keep"}
    BY <1>1
  <2>2. generating /\ UNCHANGED generating
    BY <2>1 DEF Turns
  <2> QED
    BY <2>2
<1>12. \A g \in Slot \ {h} : page' = "shown" /\ handler[g].do \in {"generate", "keep"} => generating'
  <2> SUFFICES ASSUME NEW g \in Slot \ {h}, page' = "shown", handler[g].do \in {"generate", "keep"} PROVE generating'
    OBVIOUS
  <2>1. generating /\ handler[h].do \notin {"generate", "keep"}
    BY DEF Turns
  <2> QED
    BY <2>1
<1> QED
  BY <1>2, <1>3, <1>4, <1>5, <1>6, <1>7, <1>8, <1>9, <1>10, <1>11, <1>12, TurnsOne

\* A handler that works, and not for a load, belongs to the page that is shown, or to none.
LEMMA OnShown ==
  ASSUME Types, Turns, NEW h \in Slot, handler[h] # Idle, handler[h].do # "load"
  PROVE  /\ handler[h].on => page = "shown"
         /\ ~handler[h].on => page # "shown" /\ fields = <<>>
<1>1. handler[h].do # "idle"
  BY SomeHandler
<1> QED
  BY <1>1 DEF Turns, Mounted

LEMMA InitTurns == Init => Turns
  BY Values DEF Init, Turns, Mounted

\* A handler the user starts.
LEMMA TurnsBegun ==
  ASSUME Types, Turns, NEW h \in Slot, NEW r \in Handler, NEW do \in Kinds, Began(h, r, do),
         page = "shown", UNCHANGED page,
         do = "move" => \A g \in Slot \ {h} : handler[g].do \in {"idle", "test"},
         do # "test" => Quiet, do # "load",
         do = "meta" => ~Working({"meta"}), do # "keep",
         do = "generate" => ~generating /\ generating' = TRUE,
         do # "generate" => UNCHANGED generating
  PROVE  Turns'
<1>1. r.do = do /\ r # Idle /\ r.on = TRUE /\ handler' = [handler EXCEPT ![h] = r] /\ do # "idle"
  BY KindFacts DEF Began
<1>2. (Mounted' <=> Mounted) /\ (r # Idle => (r.on <=> Mounted))
  BY <1>1 DEF Mounted
<1>3. r.do \in {"move", "load"} => \A g \in Slot \ {h} : handler[g].do \in {"idle", "test"}
  BY <1>1
<1>4. r.do \notin {"idle", "test"} => \A g \in Slot \ {h} : handler[g].do \notin {"move", "load"}
  BY <1>1 DEF Quiet, Working
<1>5. r.do = "meta" => \A g \in Slot \ {h} : handler[g].do # "meta"
  BY <1>1 DEF Working
<1>6. r.do \in {"generate", "keep"} => \A g \in Slot \ {h} : handler[g].do \notin {"generate", "keep"}
  BY <1>1 DEF Turns
<1>7. page' = "shown" /\ r.do \in {"generate", "keep"} => generating'
  BY <1>1
<1>8. \A g \in Slot \ {h} : page' = "shown" /\ handler[g].do \in {"generate", "keep"} => generating'
  <2> SUFFICES ASSUME NEW g \in Slot \ {h}, handler[g].do \in {"generate", "keep"} PROVE generating'
    OBVIOUS
  <2>1. generating
    BY DEF Turns
  <2> QED
    BY <2>1
<1> QED
  BY <1>1, <1>2, <1>3, <1>4, <1>5, <1>6, <1>7, <1>8, TurnsOne

LEMMA NextTurns ==
  ASSUME Patient, Types, Turns, [Next]_vars
  PROVE  Turns'
<1>1. CASE UNCHANGED vars
  BY <1>1 DEF vars, screen, flags, Turns, Mounted
<1>2. CASE Unmounted
  <2>1. \A h \in Slot : (handler[h] = Idle <=> handler'[h] = Idle) /\ handler'[h].do = handler[h].do
    BY <1>2 DEF Unmounted
  <2>2. ~Mounted' /\ page' # "shown" /\ page' # "loading" /\ page' # "missing" /\ fields' = <<>>
    BY <1>2 DEF Unmounted, Mounted
  <2>3. \A h \in Slot : handler'[h] # Idle => handler'[h].on = FALSE
    BY <1>2, <2>1 DEF Unmounted
  <2> QED
    BY <2>1, <2>2, <2>3 DEF Turns
<1>3. CASE Gone
  BY <1>3 DEF Gone, Turns, Mounted
<1>4. CASE UserStep
  <2>1. page = "shown" /\ UNCHANGED page
    BY <1>4 DEF UserStep, Common
  <2>2. ASSUME NEW h \in Slot, NEW r \in Handler, MetaBegun(h, r) PROVE Turns'
    BY <2>1, <2>2, KindFacts, TurnsBegun DEF MetaBegun
  <2>3. ASSUME NEW h \in Slot, NEW r \in Handler, TestBegun(h, r) PROVE Turns'
    BY <2>1, <2>3, KindFacts, TurnsBegun DEF TestBegun
  <2>4. ASSUME NEW h \in Slot, NEW r \in Handler, GenerateBegun(h, r) PROVE Turns'
    BY <2>1, <2>4, KindFacts, TurnsBegun DEF GenerateBegun
  <2>5. ASSUME NEW h \in Slot, NEW r \in Handler, MoveBegun(h, r) PROVE Turns'
    <3>1. \A g \in Slot : handler[g].do \in {"idle", "test"}
      BY <2>5, SomeHandler, KindFacts DEF MoveBegun, Working
    <3>2. Quiet
      BY <3>1 DEF Quiet, Working
    <3> QED
      BY <2>1, <2>5, <3>1, <3>2, KindFacts, TurnsBegun DEF MoveBegun
  <2>6. ASSUME NEW h \in Slot, NEW r \in Handler, RowsBegun(h, r) PROVE Turns'
    <3>1. Quiet /\ UNCHANGED generating
      BY <2>6 DEF RowsBegun
    <3>2. Began(h, r, "save") \/ Began(h, r, "bulk") \/ Began(h, r, "delete")
      BY <2>6 DEF RowsBegun
    <3> QED
      BY <2>1, <3>1, <3>2, KindFacts, TurnsBegun
  <2>7. CASE Typed \/ Added \/ Dropped
    <3>1. UNCHANGED <<handler, generating>>
      BY <2>7 DEF Typed, Added, Dropped
    <3> QED
      BY <2>1, <3>1 DEF Turns, Mounted
  <2> QED
    BY <1>4, <2>2, <2>3, <2>4, <2>5, <2>6, <2>7 DEF UserStep
<1>5. ASSUME NEW h \in Slot, Replied(h) PROVE Turns'
  <2>1. PICK r \in Handler : Echo(h, r)
    BY <1>5 DEF Replied
  <2> QED
    BY <2>1, TurnsOn DEF Echo, screen, flags
<1>6. ASSUME NEW h \in Slot, NEW r \in Handler, Opened(h, r) PROVE Turns'
  <2>1. /\ \A g \in Slot \ {h} : handler'[g] = Idle /\ handler'[g].do = "idle"
        /\ handler'[h] # Idle /\ handler'[h].do = "load" /\ handler'[h].on = TRUE /\ page' = "loading" /\ fields' = <<>>
    <3>1. handler' = [handler EXCEPT ![h] = r] /\ handler \in [Slot -> Handler]
      BY <1>6, TypesParts DEF Opened, Began, HandlersOK
    <3> QED
      BY <1>6, <3>1, Values DEF Opened, Began, Turns
  <2>2. Mounted'
    BY <2>1 DEF Mounted
  <2> QED
    BY <2>1, <2>2 DEF Turns
<1>7. ASSUME NEW h \in Slot, NEW r \in Handler, HandlerStep(h, r) PROVE Turns'
  <2>0. handler[h] # Idle /\ handler' = [handler EXCEPT ![h] = r]
    BY <1>7 DEF HandlerStep, Went
  <2>1. CASE LoadDone(h, r)
    <3>1. r = Idle /\ handler[h].do = "load" /\ r.do = "idle" /\ UNCHANGED generating
      BY <2>1, Values DEF LoadDone
    <3>2. \A g \in Slot \ {h} : handler[g].do \in {"idle", "test"}
      BY <3>1 DEF Turns
    <3>3. handler[h].on <=> Mounted
      BY <2>0 DEF Turns
    <3>4. Mounted' <=> Mounted
      BY <2>1, <3>3 DEF LoadDone, Mounted, Heard, Shown
    <3>5. page' # "shown" => fields' = <<>>
      <4>1. page' # "shown" => page # "shown" /\ fields' = fields
        BY <2>1 DEF LoadDone
      <4> QED
        BY <4>1 DEF Turns
    <3>6. page' = "loading" => page = "loading" /\ r.do \in {"idle", "load"}
      BY <2>1, <3>1 DEF LoadDone
    <3>7. page' = "missing" => r = Idle /\ \A g \in Slot \ {h} : handler[g] = Idle
      <4>1. page' = "missing" => page = "loading" \/ page = "missing"
        BY <2>1 DEF LoadDone
      <4>2. page # "missing"
        BY <2>0 DEF Turns
      <4>3. page = "loading" => \A g \in Slot \ {h} : handler[g].do = "idle"
        BY <3>2 DEF Turns
      <4> QED
        BY <3>1, <4>1, <4>2, <4>3, SomeHandler
    <3> QED
      BY <2>0, <3>1, <3>2, <3>3, <3>4, <3>5, <3>6, <3>7, TurnsOne
  <2>2. CASE MetaDone(h, r) \/ TestDone(h, r)
    BY <2>0, <2>2, TurnsOn DEF MetaDone, TestDone
  <2>3. CASE SaveDone(h, r)
    <3>1. page # "shown" => UNCHANGED fields
      BY <2>0, <2>3, OnShown, KindFacts DEF SaveDone, Heard, Shown
    <3>2. r = Idle \/ (r # Idle /\ r.on = handler[h].on /\ r.do = handler[h].do)
      BY <2>3 DEF SaveDone
    <3>3. (handler[h].do \in {"generate", "keep"} /\ r = Idle) \/ UNCHANGED generating
      BY <2>3 DEF SaveDone
    <3> QED
      BY <2>0, <2>3, <3>1, <3>2, <3>3, TurnsOn DEF SaveDone
  <2>4. CASE DeleteDone(h, r)
    <3>1. page # "shown" => UNCHANGED fields
      BY <2>0, <2>4, OnShown, KindFacts DEF DeleteDone, Heard, Shown
    <3> QED
      BY <2>0, <2>4, <3>1, TurnsOn DEF DeleteDone
  <2>5. CASE MoveDone(h, r)
    BY <2>0, <2>5, TurnsOn DEF MoveDone
  <2>6. CASE GenerateDone(h, r)
    <3>0. PICK new, todo : Grown(h, new, todo, r)
      BY <2>6 DEF GenerateDone
    <3>1. handler[h].do = "generate"
      BY <3>0 DEF Grown
    <3>2. page # "shown" => UNCHANGED fields
      BY <2>0, <3>0, <3>1, OnShown DEF Grown, Shown
    <3>3. \/ r = Idle
          \/ r # Idle /\ r.on = handler[h].on /\ r.do = "keep"
      BY <3>0 DEF Grown
    <3>4. r = Idle \/ UNCHANGED generating
      BY <3>0 DEF Grown
    <3> QED
      BY <2>0, <2>6, <3>1, <3>2, <3>3, <3>4, TurnsOn DEF GenerateDone
  <2> QED
    BY <1>7, <2>1, <2>2, <2>3, <2>4, <2>5, <2>6 DEF HandlerStep
<1> QED
  BY <1>1, <1>2, <1>3, <1>4, <1>5, <1>6, <1>7, Steps

LEMMA TurnsAlways ==
  ASSUME Patient
  PROVE  Spec => [](Types /\ Turns)
<1>1. Init => Types /\ Turns
  BY InitTypes, InitTurns
<1>2. Types /\ Turns /\ [Next]_vars => (Types /\ Turns)'
  BY NextTypes, NextTurns
<1> QED
  BY <1>1, <1>2, PTL DEF Spec

-----------------------------------------------------------------------------
(* A row is in one place: on the list under a key of its own, and with one *)
(* handler at a time; and until its insert is answered nothing is stored   *)
(* for it.                                                                 *)

\* What a row's key says.
KeyOK(row) ==
  /\ row.id < nextId
  /\ row.key[1] = "new" => row.key[2] < nextTemp
  /\ row.key[1] = "id" => row.id = row.key[2]
  /\ row.key # NoKey

Lone(rows) == \A i, j \in DOMAIN rows : i # j => rows[i].key # rows[j].key

Same(a, b)    == a.key = b.key /\ a.id = b.id /\ a.order = b.order
InList(row)   == \E i \in DOMAIN fields : Same(fields[i], row)
Freed(row)    == ~Saved(row) => made[row.key[2]] = 0

\* A handler whose first row has been inserted, which the page has not taken in yet.
Inserted(r) == r.do \in Persist /\ r.at = "ok" /\ ~Saved(r.todo[1])

RowsSole(r) ==
  /\ \A j \in DOMAIN r.todo : KeyOK(r.todo[j])
  /\ Lone(r.todo)
  /\ page = "shown" => \A j \in DOMAIN r.todo : InList(r.todo[j])

Shape(r) ==
  /\ r.do \in {"save", "delete"} => Len(r.todo) = 1
  /\ r.do \in {"bulk", "keep"} => \A j \in DOMAIN r.todo : ~Saved(r.todo[j])

GotSole(r) ==
  /\ r.got.rows[1].id < nextId /\ r.got.rows[1].order = r.todo[1].order
  /\ r.got.rows[1].key = <<"id", r.got.rows[1].id>>
  /\ Saved(r.todo[1]) => r.got.rows[1].id = r.todo[1].id

LoadSole(r) ==
  /\ \A i \in DOMAIN r.got.rows : r.got.rows[i].id < nextId /\ r.got.rows[i].key = <<"id", r.got.rows[i].id>>
  /\ \A i, j \in DOMAIN r.got.rows : i # j => r.got.rows[i].id # r.got.rows[j].id

HandlerSole(r) ==
  /\ Shape(r)
  /\ r.do \in OnRows => RowsSole(r)
  /\ r.do \in Persist => \A j \in DOMAIN r.todo : (r.at = "ok" => j # 1) => Freed(r.todo[j])
  /\ r.do \in Persist /\ r.at = "ok" => GotSole(r)
  /\ Inserted(r) => \A i \in DOMAIN fields : fields[i].id # r.got.rows[1].id
  /\ r.do = "load" /\ r.at = "ok" => LoadSole(r)

StoreSole ==
  /\ \A i \in DOMAIN server : i < nextId
  /\ \A n \in 1 .. MaxRows : made[n] <= 1 /\ (made[n] > 0 => n < nextTemp)

FieldsSole ==
  /\ \A i \in DOMAIN fields : KeyOK(fields[i])
  /\ Lone(fields)
  /\ \A i, j \in DOMAIN fields : i # j /\ Saved(fields[i]) => fields[i].id # fields[j].id
  /\ \A i \in DOMAIN fields :
       (\A h \in Slot : Inserted(handler[h]) => handler[h].todo[1].key # fields[i].key) => Freed(fields[i])

ApartFrom(q, r) ==
  q.do \in OnRows /\ r.do \in OnRows =>
    /\ \A j \in DOMAIN q.todo : \A k \in DOMAIN r.todo : q.todo[j].key # r.todo[k].key
    /\ Inserted(q) /\ Inserted(r) => q.got.rows[1].id # r.got.rows[1].id

Sole ==
  /\ StoreSole /\ FieldsSole
  /\ \A h \in Slot : HandlerSole(handler[h])
  /\ \A g, h \in Slot : g # h => ApartFrom(handler[g], handler[h])

LEMMA KeyFacts ==
  ASSUME NEW key \in Key, key # NoKey
  PROVE  \/ key[1] = "new" /\ key[2] \in 1 .. MaxRows /\ key = <<"new", key[2]>>
         \/ key[1] = "id" /\ key[2] \in 1 .. MaxFields /\ key = <<"id", key[2]>>
  BY DEF Key

\* The rows a handler works on.
LEMMA TodoFacts ==
  ASSUME Types, NEW h \in Slot, handler[h].do \in OnRows
  PROVE  /\ handler[h] # Idle /\ handler[h].todo \in Seq(Row) /\ 1 \in DOMAIN handler[h].todo
         /\ \A j \in DOMAIN handler[h].todo :
              handler[h].todo[j] \in Row /\ handler[h].todo[j].key \in Key /\ handler[h].todo[j].id \in Nat
         /\ handler[h].do \in Persist => \A j \in DOMAIN handler[h].todo : RowOK(handler[h].todo[j])
<1>1. handler[h] # Idle
  <2>1. "idle" \notin OnRows
    BY KindFacts DEF OnRows
  <2> QED
    BY <2>1, Values
<1>2. /\ handler[h].todo \in Seq(Row) /\ handler[h].todo # <<>> /\ HandlerOK(handler[h])
  BY <1>1, AnsweredFacts
<1>3. 1 \in DOMAIN handler[h].todo
  BY <1>2, HeadFacts
<1>4. \A j \in DOMAIN handler[h].todo : handler[h].todo[j] \in Row
  BY <1>2
<1>5. \A j \in DOMAIN handler[h].todo : handler[h].todo[j].key \in Key /\ handler[h].todo[j].id \in Nat
  BY <1>4, BoundsNat DEF Row
<1>6. handler[h].do \in Persist => \A j \in DOMAIN handler[h].todo : RowOK(handler[h].todo[j])
  BY <1>2 DEF HandlerOK
<1> QED
  BY <1>1, <1>2, <1>3, <1>4, <1>5, <1>6

LEMMA FieldFacts ==
  ASSUME Types, NEW i \in DOMAIN fields
  PROVE  fields[i] \in Row /\ fields[i].key \in Key /\ fields[i].id \in Nat /\ fields[i].order \in Nat /\ RowOK(fields[i])
<1>1. fields[i] \in Row /\ RowOK(fields[i])
  BY TypesParts DEF ListOK
<1> QED
  BY <1>1, BoundsNat DEF Row

Counters == nextId \in Nat /\ nextId' \in Nat /\ nextId <= nextId' /\ nextTemp \in Nat /\ nextTemp' \in Nat /\ nextTemp <= nextTemp'

LEMMA KeyKept ==
  ASSUME Counters, NEW row, row.key \in Key, row.id \in Nat, KeyOK(row)
  PROVE  KeyOK(row)'
<1>1. row.id < nextId'
  BY DEF Counters, KeyOK
<1>2. row.key[1] = "new" => row.key[2] < nextTemp'
  <2> SUFFICES ASSUME row.key[1] = "new" PROVE row.key[2] < nextTemp'
    OBVIOUS
  <2>1. row.key[2] < nextTemp /\ row.key # NoKey
    BY DEF KeyOK
  <2>2. row.key[2] \in 1 .. MaxRows
    BY <2>1, KeyFacts
  <2> QED
    BY <2>1, <2>2, BoundsNat DEF Counters
<1> QED
  BY <1>1, <1>2 DEF KeyOK

\* A handler that stays as it is, while its rows stay where they are.
LEMMA HandlerSoleKept ==
  ASSUME Types, Counters, NEW g \in Slot, handler'[g] = handler[g], HandlerSole(handler[g]),
         page' = "shown" /\ handler[g].do \in OnRows =>
           page = "shown" /\ \A j \in DOMAIN handler[g].todo : InList(handler[g].todo[j]) =>
                               \E i \in DOMAIN fields' : Same(fields'[i], handler[g].todo[j]),
         handler[g].do \in Persist =>
           \A j \in DOMAIN handler[g].todo : Freed(handler[g].todo[j]) /\ ~Saved(handler[g].todo[j]) =>
                               made'[handler[g].todo[j].key[2]] = 0,
         Inserted(handler[g]) => \A i \in DOMAIN fields' : fields'[i].id # handler[g].got.rows[1].id
  PROVE  HandlerSole(handler[g])'
<1>1. PICK r : r = handler[g]
  OBVIOUS
<1>2. Shape(r) /\ (r.do \in OnRows => RowsSole(r))
  BY <1>1 DEF HandlerSole
<1>3. r.do \in OnRows => RowsSole(r)'
  <2> SUFFICES ASSUME r.do \in OnRows PROVE RowsSole(r)'
    OBVIOUS
  <2>1. \A j \in DOMAIN r.todo : KeyOK(r.todo[j])'
    <3>1. \A j \in DOMAIN r.todo : r.todo[j].key \in Key /\ r.todo[j].id \in Nat
      BY <1>1, TodoFacts
    <3>2. \A j \in DOMAIN r.todo : KeyOK(r.todo[j])
      BY <1>2 DEF RowsSole
    <3> QED
      BY <3>1, <3>2, KeyKept
  <2>2. page' = "shown" => \A j \in DOMAIN r.todo : \E i \in DOMAIN fields' : Same(fields'[i], r.todo[j])
    BY <1>1, <1>2 DEF RowsSole
  <2> QED
    BY <1>2, <2>1, <2>2 DEF RowsSole, InList
<1>4. r.do \in Persist => \A j \in DOMAIN r.todo : (r.at = "ok" => j # 1) => (~Saved(r.todo[j]) => made'[r.todo[j].key[2]] = 0)
  BY <1>1 DEF HandlerSole
<1>5. r.do \in Persist /\ r.at = "ok" => GotSole(r)'
  <2> SUFFICES ASSUME r.do \in Persist, r.at = "ok" PROVE GotSole(r)'
    OBVIOUS
  <2>0. handler[g] # Idle
    BY <1>1, KindFacts, Values
  <2>1. r.got.rows[1] \in Row
    BY <1>1, <2>0, AnsweredFacts
  <2>2. r.got.rows[1].id \in Nat
    BY <2>1, BoundsNat DEF Row
  <2>3. GotSole(r)
    BY <1>1 DEF HandlerSole
  <2> QED
    BY <2>2, <2>3 DEF GotSole, Counters
<1>6. r.do = "load" /\ r.at = "ok" => LoadSole(r)'
  <2> SUFFICES ASSUME r.do = "load", r.at = "ok" PROVE LoadSole(r)'
    OBVIOUS
  <2>0. handler[g] # Idle
    BY <1>1, KindFacts, Values
  <2>1. r.got.rows \in Seq(Row)
    BY <1>1, <2>0, AnsweredFacts
  <2>2. \A i \in DOMAIN r.got.rows : r.got.rows[i] \in Row
    BY <2>1
  <2>3. \A i \in DOMAIN r.got.rows : r.got.rows[i].id \in Nat
    BY <2>2, BoundsNat DEF Row
  <2>4. LoadSole(r)
    BY <1>1 DEF HandlerSole
  <2> QED
    BY <2>3, <2>4 DEF LoadSole, Counters
<1>7. Inserted(r) => \A i \in DOMAIN fields' : fields'[i].id # r.got.rows[1].id
  BY <1>1
<1>8. HandlerSole(r)'
  BY <1>2, <1>3, <1>4, <1>5, <1>6, <1>7 DEF HandlerSole, Freed
<1> QED
  BY <1>1, <1>8 DEF HandlerSole, RowsSole, GotSole, LoadSole, Freed, InList, KeyOK

\* What one handler does leaves the rows of the others where they are.
Undisturbed(h) ==
  \A g \in Slot \ {h} :
    /\ handler'[g] = handler[g]
    /\ page' = "shown" /\ handler[g].do \in OnRows =>
         page = "shown" /\ \A j \in DOMAIN handler[g].todo : \E i \in DOMAIN fields' : Same(fields'[i], handler[g].todo[j])
    /\ handler[g].do \in Persist =>
         \A j \in DOMAIN handler[g].todo :
           Freed(handler[g].todo[j]) /\ ~Saved(handler[g].todo[j]) => made'[handler[g].todo[j].key[2]] = 0
    /\ Inserted(handler[g]) => \A i \in DOMAIN fields' : fields'[i].id # handler[g].got.rows[1].id

LEMMA ApartBack ==
  ASSUME NEW q, NEW r, ApartFrom(q, r)
  PROVE  ApartFrom(r, q)
  BY DEF ApartFrom

\* One handler changes, and what it becomes fits in with the others.
LEMMA SoleOne ==
  ASSUME Types, Counters, Sole, NEW h, NEW r, Undisturbed(h),
         h \in Slot => handler'[h] = r /\ HandlerSole(r)' /\ \A g \in Slot \ {h} : ApartFrom(handler[g], r),
         StoreSole', FieldsSole'
  PROVE  Sole'
<1>1. ASSUME NEW g \in Slot PROVE HandlerSole(handler[g])'
  <2>1. CASE g = h
    BY <2>1 DEF HandlerSole, RowsSole, GotSole, LoadSole, Freed, InList, KeyOK
  <2>2. CASE g # h
    <3>1. HandlerSole(handler[g]) /\ g \in Slot \ {h}
      BY <2>2 DEF Sole
    <3>2. /\ handler'[g] = handler[g]
          /\ page' = "shown" /\ handler[g].do \in OnRows =>
               page = "shown" /\ \A j \in DOMAIN handler[g].todo : \E i \in DOMAIN fields' : Same(fields'[i], handler[g].todo[j])
          /\ handler[g].do \in Persist =>
               \A j \in DOMAIN handler[g].todo :
                 Freed(handler[g].todo[j]) /\ ~Saved(handler[g].todo[j]) => made'[handler[g].todo[j].key[2]] = 0
          /\ Inserted(handler[g]) => \A i \in DOMAIN fields' : fields'[i].id # handler[g].got.rows[1].id
      BY <3>1 DEF Undisturbed
    <3> QED
      BY <3>1, <3>2, HandlerSoleKept
  <2> QED
    BY <2>1, <2>2
<1>2. ASSUME NEW f \in Slot, NEW g \in Slot, f # g PROVE ApartFrom(handler'[f], handler'[g])
  <2>1. ApartFrom(handler[f], handler[g])
    BY <1>2 DEF Sole
  <2>2. \A e \in Slot \ {h} : handler'[e] = handler[e]
    BY DEF Undisturbed
  <2>3. CASE f # h /\ g # h
    BY <2>1, <2>2, <2>3
  <2>4. CASE g = h
    BY <1>2, <2>2, <2>4
  <2>5. CASE f = h
    BY <1>2, <2>2, <2>5, ApartBack
  <2> QED
    BY <2>3, <2>4, <2>5
<1>3. (\A f, g \in Slot : f # g => ApartFrom(handler[f], handler[g]))'
  BY <1>2 DEF ApartFrom, Inserted
<1> QED
  BY <1>1, <1>3 DEF Sole

\* The rows are the old ones, in part or in another order, but for what is written in them.
Copied ==
  /\ \A i \in DOMAIN fields' : \E k \in DOMAIN fields : Same(fields'[i], fields[k])
  /\ \A i, j \in DOMAIN fields' : i # j =>
       \E k, l \in DOMAIN fields : k # l /\ Same(fields'[i], fields[k]) /\ Same(fields'[j], fields[l])

LEMMA SoleCopied ==
  ASSUME Types, Types', Sole, Copied, UNCHANGED <<made, nextId, nextTemp>>,
         DOMAIN server' \subseteq DOMAIN server, page' # page => page' # "shown", NEW h, NEW r,
         \A g \in Slot \ {h} : handler'[g] = handler[g],
         h \in Slot => /\ handler'[h] = r /\ HandlerSole(r)' /\ (\A g \in Slot \ {h} : ApartFrom(handler[g], r))
                       /\ Inserted(handler[h]) => \A i \in DOMAIN fields' : fields'[i].key # handler[h].todo[1].key,
         page' = "shown" =>
           \A g \in Slot \ {h} : handler[g].do \in OnRows =>
             \A j \in DOMAIN handler[g].todo : \E i \in DOMAIN fields' : Same(fields'[i], handler[g].todo[j])
  PROVE  Sole'
<1>1. Counters
  BY TypesParts DEF Counters, DataOK, RoomOK
<1>2. StoreSole'
  BY DEF StoreSole, Sole
<1>3. FieldsSole'
  <2>1. (\A i \in DOMAIN fields : KeyOK(fields[i]))'
    BY DEF Copied, Same, Sole, FieldsSole, KeyOK
  <2>2. Lone(fields)'
    BY DEF Copied, Same, Sole, FieldsSole, Lone
  <2>3. (\A i, j \in DOMAIN fields : i # j /\ Saved(fields[i]) => fields[i].id # fields[j].id)'
    <3> SUFFICES ASSUME NEW i \in DOMAIN fields', NEW j \in DOMAIN fields', i # j, Saved(fields'[i])
                 PROVE  fields'[i].id # fields'[j].id
      BY DEF Saved
    <3>1. PICK k, l \in DOMAIN fields : k # l /\ Same(fields'[i], fields[k]) /\ Same(fields'[j], fields[l])
      BY DEF Copied
    <3> QED
      BY <3>1 DEF Same, Sole, FieldsSole, Saved
  <2>4. ASSUME NEW i \in DOMAIN fields',
               \A g \in Slot : Inserted(handler'[g]) => handler'[g].todo[1].key # fields'[i].key
        PROVE  ~Saved(fields'[i]) => made'[fields'[i].key[2]] = 0
    <3>1. PICK k \in DOMAIN fields : Same(fields'[i], fields[k])
      BY DEF Copied
    <3>2. \A g \in Slot : Inserted(handler[g]) => handler[g].todo[1].key # fields[k].key
      <4> SUFFICES ASSUME NEW g \in Slot, Inserted(handler[g]) PROVE handler[g].todo[1].key # fields'[i].key
        BY <3>1 DEF Same
      <4>1. CASE g = h
        BY <4>1
      <4>2. CASE g # h
        BY <2>4, <4>2
      <4> QED
        BY <4>1, <4>2
    <3>3. Freed(fields[k])
      BY <3>2 DEF Sole, FieldsSole
    <3> QED
      BY <3>1, <3>3 DEF Freed, Saved, Same
  <2>5. (\A i \in DOMAIN fields :
           (\A g \in Slot : Inserted(handler[g]) => handler[g].todo[1].key # fields[i].key) => Freed(fields[i]))'
    BY <2>4 DEF Freed, Inserted, Saved
  <2> QED
    BY <2>1, <2>2, <2>3, <2>5 DEF FieldsSole
<1>4. Undisturbed(h)
  <2> SUFFICES ASSUME NEW g \in Slot \ {h}
               PROVE  /\ page' = "shown" /\ handler[g].do \in OnRows =>
                           page = "shown" /\ \A j \in DOMAIN handler[g].todo : \E i \in DOMAIN fields' : Same(fields'[i], handler[g].todo[j])
                      /\ handler[g].do \in Persist =>
                           \A j \in DOMAIN handler[g].todo :
                             Freed(handler[g].todo[j]) /\ ~Saved(handler[g].todo[j]) => made'[handler[g].todo[j].key[2]] = 0
                      /\ Inserted(handler[g]) => \A i \in DOMAIN fields' : fields'[i].id # handler[g].got.rows[1].id
    BY DEF Undisturbed
  <2>1. Inserted(handler[g]) => \A i \in DOMAIN fields' : fields'[i].id # handler[g].got.rows[1].id
    <3>1. HandlerSole(handler[g])
      BY DEF Sole
    <3> QED
      BY <3>1 DEF HandlerSole, Copied, Same
  <2>2. handler[g].do \in Persist =>
           \A j \in DOMAIN handler[g].todo :
             Freed(handler[g].todo[j]) /\ ~Saved(handler[g].todo[j]) => made'[handler[g].todo[j].key[2]] = 0
    BY DEF Freed
  <2> QED
    BY <2>1, <2>2
<1> QED
  BY <1>1, <1>2, <1>3, <1>4, SoleOne

LEMMA UnchangedCopied ==
  ASSUME UNCHANGED fields
  PROVE  Copied
  BY DEF Copied, Same

\* The rows of a handler while the page is shown are on it.
LEMMA RowsThere ==
  ASSUME Sole, NEW g \in Slot, handler[g].do \in OnRows, page = "shown"
  PROVE  \A j \in DOMAIN handler[g].todo : \E i \in DOMAIN fields : Same(fields[i], handler[g].todo[j])
<1>1. HandlerSole(handler[g])
  BY DEF Sole
<1> QED
  BY <1>1 DEF HandlerSole, RowsSole, InList

\* One handler changes and the list does not.
LEMMA SoleHandler ==
  ASSUME Types, Types', Sole, UNCHANGED <<fields, made, nextId, nextTemp>>,
         DOMAIN server' \subseteq DOMAIN server, page' # page => page' # "shown",
         NEW h \in Slot, NEW r, handler' = [handler EXCEPT ![h] = r],
         HandlerSole(r), \A g \in Slot \ {h} : ApartFrom(handler[g], r),
         Inserted(handler[h]) => \A i \in DOMAIN fields : fields[i].key # handler[h].todo[1].key
  PROVE  Sole'
<1>1. handler'[h] = r /\ \A g \in Slot \ {h} : handler'[g] = handler[g]
  BY TypesParts DEF HandlersOK
<1>2. HandlerSole(r)'
  BY DEF HandlerSole, RowsSole, GotSole, LoadSole, Freed, InList, KeyOK
<1>3. page' = "shown" =>
        \A g \in Slot \ {h} : handler[g].do \in OnRows =>
          \A j \in DOMAIN handler[g].todo : \E i \in DOMAIN fields' : Same(fields'[i], handler[g].todo[j])
  BY RowsThere
<1>4. Copied
  BY UnchangedCopied
<1> QED
  BY <1>1, <1>2, <1>3, <1>4, SoleCopied

\* Rows that were never anywhere are appended.
Grew(n) ==
  /\ n \in Nat /\ nextTemp' = nextTemp + n
  /\ \A i \in DOMAIN fields : i \in DOMAIN fields' /\ fields'[i] = fields[i]
  /\ \A i \in DOMAIN fields' \ DOMAIN fields :
       \E m \in 1 .. n : /\ i = Len(fields) + m /\ fields'[i].id = NoId
                         /\ fields'[i].key = <<"new", nextTemp + m - 1>>

\* A key of the rows to come is the key of no row.
LEMMA KeyToCome ==
  ASSUME Types, NEW row, row.key \in Key, KeyOK(row), NEW m \in Nat \ {0}
  PROVE  row.key # <<"new", nextTemp + m - 1>>
<1>1. nextTemp \in Nat
  BY TypesParts DEF RoomOK
<1>2. CASE row.key[1] = "new"
  <2>1. row.key[2] \in 1 .. MaxRows /\ row.key[2] < nextTemp
    BY <1>2, KeyFacts DEF KeyOK
  <2>2. row.key[2] # nextTemp + m - 1
    BY <1>1, <2>1
  <2> QED
    BY <2>2
<1>3. CASE row.key[1] # "new"
  BY <1>3
<1> QED
  BY <1>2, <1>3

LEMMA SoleGrew ==
  ASSUME Types, Types', Sole, NEW n, Grew(n), UNCHANGED <<server, made, nextId, page>>, NEW h, NEW r,
         \A g \in Slot \ {h} : handler'[g] = handler[g],
         h \in Slot => /\ handler'[h] = r /\ HandlerSole(r)' /\ (\A g \in Slot \ {h} : ApartFrom(handler[g], r))
                       /\ ~Inserted(handler[h])
  PROVE  Sole'
<1>0. nextTemp \in Nat \ {0} /\ nextTemp' \in Nat /\ nextTemp' <= MaxRows + 1 /\ n \in Nat /\ nextTemp' = nextTemp + n /\ nextId \in Nat
      /\ made \in [1 .. MaxRows -> Nat]
  BY TypesParts, BoundsNat DEF RoomOK, Grew, DataOK
<1>1. Counters
  BY <1>0 DEF Counters
<1>2. StoreSole'
  BY <1>0 DEF StoreSole, Sole
<1>3. ASSUME NEW i \in DOMAIN fields' \ DOMAIN fields
      PROVE  \E m \in 1 .. n : /\ i = Len(fields) + m /\ fields'[i].id = NoId /\ fields'[i].key = <<"new", nextTemp + m - 1>>
                               /\ nextTemp + m - 1 \in 1 .. MaxRows
  <2>1. PICK m \in 1 .. n : i = Len(fields) + m /\ fields'[i].id = NoId /\ fields'[i].key = <<"new", nextTemp + m - 1>>
    BY <1>3 DEF Grew
  <2>2. nextTemp + m - 1 \in 1 .. MaxRows
    BY <1>0, BoundsNat
  <2> QED
    BY <2>1, <2>2
<1>4. \A i \in DOMAIN fields : /\ i \in DOMAIN fields' /\ fields'[i] = fields[i] /\ fields[i].key \in Key /\ fields[i].id \in Nat
                               /\ KeyOK(fields[i])
  BY FieldFacts DEF Grew, Sole, FieldsSole
<1>5. FieldsSole'
  <2>1. (\A i \in DOMAIN fields : KeyOK(fields[i]))'
    <3> SUFFICES ASSUME NEW i \in DOMAIN fields' PROVE KeyOK(fields[i])'
      OBVIOUS
    <3>1. CASE i \in DOMAIN fields
      <4>1. PICK row : row = fields[i]
        OBVIOUS
      <4>2. KeyOK(row)'
        BY <1>1, <1>4, <3>1, <4>1, KeyKept
      <4> QED
        BY <1>4, <3>1, <4>1, <4>2 DEF KeyOK
    <3>2. CASE i \notin DOMAIN fields
      <4>1. PICK m \in 1 .. n : fields'[i].id = NoId /\ fields'[i].key = <<"new", nextTemp + m - 1>>
        BY <1>3, <3>2
      <4>2. nextTemp + m - 1 < nextTemp' /\ NoId < nextId'
        <5>1. nextId \in 1 .. MaxFields + 1
          BY TypesParts DEF DataOK
        <5> QED
          BY <1>0, <5>1, BoundsNat DEF NoId
      <4> QED
        BY <4>1, <4>2 DEF KeyOK, NoKey
    <3> QED
      BY <3>1, <3>2
  <2>2. Lone(fields)'
    <3> SUFFICES ASSUME NEW i \in DOMAIN fields', NEW j \in DOMAIN fields', i # j PROVE fields'[i].key # fields'[j].key
      BY DEF Lone
    <3>1. ASSUME NEW k \in DOMAIN fields, NEW l \in DOMAIN fields' \ DOMAIN fields PROVE fields'[k].key # fields'[l].key
      <4>1. PICK m \in 1 .. n : fields'[l].key = <<"new", nextTemp + m - 1>>
        BY <1>3
      <4>2. m \in Nat \ {0}
        OBVIOUS
      <4>3. fields[k].key # <<"new", nextTemp + m - 1>>
        BY <1>4, <4>2, KeyToCome
      <4> QED
        BY <1>4, <4>1, <4>3
    <3>2. CASE i \in DOMAIN fields /\ j \in DOMAIN fields
      BY <1>4, <3>2 DEF Sole, FieldsSole, Lone
    <3>3. CASE i \notin DOMAIN fields /\ j \notin DOMAIN fields
      <4>1. PICK m \in 1 .. n : i = Len(fields) + m /\ fields'[i].key = <<"new", nextTemp + m - 1>>
        BY <1>3, <3>3
      <4>2. PICK m2 \in 1 .. n : j = Len(fields) + m2 /\ fields'[j].key = <<"new", nextTemp + m2 - 1>>
        BY <1>3, <3>3
      <4>3. m # m2
        BY <4>1, <4>2
      <4>4. nextTemp + m - 1 # nextTemp + m2 - 1
        BY <1>0, <4>3
      <4> QED
        BY <4>1, <4>2, <4>4
    <3> QED
      BY <3>1, <3>2, <3>3
  <2>3. (\A i, j \in DOMAIN fields : i # j /\ Saved(fields[i]) => fields[i].id # fields[j].id)'
    <3> SUFFICES ASSUME NEW i \in DOMAIN fields', NEW j \in DOMAIN fields', i # j, fields'[i].id # NoId
                 PROVE  fields'[i].id # fields'[j].id
      BY DEF Saved
    <3>1. i \in DOMAIN fields
      BY <1>3
    <3>2. CASE j \in DOMAIN fields
      BY <1>4, <3>1, <3>2 DEF Sole, FieldsSole, Saved
    <3>3. CASE j \notin DOMAIN fields
      BY <1>3, <3>3
    <3> QED
      BY <3>2, <3>3
  <2>4. ASSUME NEW i \in DOMAIN fields',
               \A g \in Slot : Inserted(handler'[g]) => handler'[g].todo[1].key # fields'[i].key
        PROVE  ~Saved(fields'[i]) => made'[fields'[i].key[2]] = 0
    <3>1. CASE i \in DOMAIN fields
      <4>1. \A g \in Slot : Inserted(handler[g]) => handler[g].todo[1].key # fields[i].key
        BY <1>4, <2>4, <3>1
      <4>2. Freed(fields[i])
        BY <3>1, <4>1 DEF Sole, FieldsSole
      <4> QED
        BY <1>4, <3>1, <4>2 DEF Freed
    <3>2. CASE i \notin DOMAIN fields
      <4>1. PICK m \in 1 .. n : fields'[i].key = <<"new", nextTemp + m - 1>> /\ nextTemp + m - 1 \in 1 .. MaxRows
        BY <1>3, <3>2
      <4>2. ~(made[nextTemp + m - 1] > 0) /\ made[nextTemp + m - 1] \in Nat
        <5>1. ~(nextTemp + m - 1 < nextTemp)
          BY <1>0
        <5> QED
          BY <1>0, <4>1, <5>1 DEF Sole, StoreSole
      <4>3. made[nextTemp + m - 1] = 0
        BY <4>2
      <4> QED
        BY <4>1, <4>3
    <3> QED
      BY <3>1, <3>2
  <2>5. (\A i \in DOMAIN fields :
           (\A g \in Slot : Inserted(handler[g]) => handler[g].todo[1].key # fields[i].key) => Freed(fields[i]))'
    BY <2>4 DEF Freed, Inserted, Saved
  <2> QED
    BY <2>1, <2>2, <2>3, <2>5 DEF FieldsSole
<1>6. Undisturbed(h)
  <2> SUFFICES ASSUME NEW g \in Slot \ {h}
               PROVE  /\ page' = "shown" /\ handler[g].do \in OnRows =>
                           page = "shown" /\ \A j \in DOMAIN handler[g].todo : \E i \in DOMAIN fields' : Same(fields'[i], handler[g].todo[j])
                      /\ handler[g].do \in Persist =>
                           \A j \in DOMAIN handler[g].todo :
                             Freed(handler[g].todo[j]) /\ ~Saved(handler[g].todo[j]) => made'[handler[g].todo[j].key[2]] = 0
                      /\ Inserted(handler[g]) => \A i \in DOMAIN fields' : fields'[i].id # handler[g].got.rows[1].id
    BY DEF Undisturbed
  <2>1. Inserted(handler[g]) => \A i \in DOMAIN fields' : fields'[i].id # handler[g].got.rows[1].id
    <3> SUFFICES ASSUME Inserted(handler[g]), NEW i \in DOMAIN fields' PROVE fields'[i].id # handler[g].got.rows[1].id
      OBVIOUS
    <3>1. CASE i \in DOMAIN fields
      <4>1. HandlerSole(handler[g])
        BY DEF Sole
      <4> QED
        BY <1>4, <3>1, <4>1 DEF HandlerSole
    <3>2. CASE i \notin DOMAIN fields
      <4>0. handler[g].do \in Persist /\ handler[g].at = "ok" /\ handler[g] # Idle
        BY Values, KindFacts DEF Inserted
      <4>1. Saved(handler[g].got.rows[1])
        BY <4>0, AnsweredFacts
      <4> QED
        BY <1>3, <3>2, <4>1 DEF Saved
    <3> QED
      BY <3>1, <3>2
  <2>2. handler[g].do \in Persist =>
           \A j \in DOMAIN handler[g].todo :
             Freed(handler[g].todo[j]) /\ ~Saved(handler[g].todo[j]) => made'[handler[g].todo[j].key[2]] = 0
    BY DEF Freed
  <2>3. page' = "shown" /\ handler[g].do \in OnRows =>
          page = "shown" /\ \A j \in DOMAIN handler[g].todo : \E i \in DOMAIN fields' : Same(fields'[i], handler[g].todo[j])
    <3> SUFFICES ASSUME page = "shown", handler[g].do \in OnRows, NEW j \in DOMAIN handler[g].todo
                 PROVE  \E i \in DOMAIN fields' : Same(fields'[i], handler[g].todo[j])
      OBVIOUS
    <3>1. PICK i \in DOMAIN fields : Same(fields[i], handler[g].todo[j])
      BY RowsThere
    <3> QED
      BY <1>4, <3>1
  <2> QED
    BY <2>1, <2>2, <2>3, Zenon
<1>7. h \in Slot => handler'[h] = r /\ HandlerSole(r)' /\ \A g \in Slot \ {h} : ApartFrom(handler[g], r)
  OBVIOUS
<1> QED
  BY <1>1, <1>2, <1>5, <1>6, <1>7, SoleOne

\* What the user does keeps every row in its place.
LEMMA SoleUser ==
  ASSUME Types, Types', Sole, UserStep
  PROVE  Sole'
<1>0. /\ UNCHANGED <<server, made, nextId, page>> /\ page = "shown" /\ DOMAIN server' \subseteq DOMAIN server
      /\ fields \in Seq(Row) /\ \A i \in DOMAIN fields : KeyOK(fields[i]) /\ fields[i] \in Row
  BY TypesParts DEF UserStep, Common, data, Sole, FieldsSole, ListOK
<1>a. FieldsSole /\ \A h \in Slot : HandlerSole(handler[h])
  BY DEF Sole
<1>b. -1 \notin Slot
  BY BuilderAssumption
<1>1. ASSUME NEW h \in Slot, NEW r \in Handler, MetaBegun(h, r) \/ TestBegun(h, r) \/ GenerateBegun(h, r)
      PROVE  Sole'
  <2>1. /\ handler[h] = Idle /\ handler' = [handler EXCEPT ![h] = r] /\ r.do \in {"meta", "test", "generate"}
        /\ UNCHANGED <<fields, nextTemp>>
    BY <1>1 DEF MetaBegun, TestBegun, GenerateBegun, Began
  <2>2. r.do \notin OnRows /\ r.do \notin Persist /\ r.do # "load" /\ ~Inserted(handler[h]) /\ ~Inserted(r)
    BY <2>1, Values, KindFacts DEF OnRows, Inserted
  <2>3. HandlerSole(r) /\ \A g \in Slot \ {h} : ApartFrom(handler[g], r)
    BY <2>1, <2>2 DEF HandlerSole, ApartFrom, Shape
  <2> QED
    BY <1>0, <2>1, <2>2, <2>3, SoleHandler
<1>2. ASSUME NEW h \in Slot, NEW r \in Handler, MoveBegun(h, r) PROVE Sole'
  <2>1. /\ handler[h] = Idle /\ handler' = [handler EXCEPT ![h] = r] /\ r.do = "move" /\ ~Working(OnList \cup {"meta"})
        /\ UNCHANGED nextTemp
    BY <1>2 DEF MoveBegun, Began
  <2>2. r.do \notin OnRows /\ r.do \notin Persist /\ r.do # "load" /\ ~Inserted(handler[h]) /\ ~Inserted(r)
    BY <2>1, Values, KindFacts DEF OnRows, Inserted
  <2>3. HandlerSole(r)' /\ \A g \in Slot \ {h} : ApartFrom(handler[g], r)
    BY <2>1, <2>2 DEF HandlerSole, ApartFrom, Shape
  <2>4. \A g \in Slot : handler[g].do \notin OnRows
    BY <2>1, KindFacts DEF Working, OnRows
  <2>5. handler'[h] = r /\ \A g \in Slot \ {h} : handler'[g] = handler[g]
    BY <2>1, TypesParts DEF HandlersOK
  <2>6. PICK i \in DOMAIN fields : i + 1 \in DOMAIN fields /\ fields' = [fields EXCEPT ![i] = fields[i + 1], ![i + 1] = fields[i]]
    BY <1>2 DEF MoveBegun
  <2>7. /\ DOMAIN fields' = DOMAIN fields /\ fields'[i] = fields[i + 1] /\ fields'[i + 1] = fields[i] /\ i # i + 1
        /\ \A j \in DOMAIN fields \ {i, i + 1} : fields'[j] = fields[j]
    <3>1. i # i + 1
      BY <1>0
    <3> QED
      BY <1>0, <2>6, <3>1, SwapFacts
  <2>8. Copied
    <3> DEFINE from(j) == IF j = i THEN i + 1 ELSE IF j = i + 1 THEN i ELSE j
    <3>1. \A j \in DOMAIN fields' : from(j) \in DOMAIN fields /\ fields'[j] = fields[from(j)]
      BY <2>6, <2>7
    <3>2. \A j, k \in DOMAIN fields' : j # k => from(j) # from(k)
      BY <2>7
    <3> HIDE DEF from
    <3> QED
      BY <3>1, <3>2 DEF Copied, Same
  <2> QED
    BY <1>0, <2>1, <2>2, <2>3, <2>4, <2>5, <2>8, SoleCopied
<1>3. ASSUME NEW h \in Slot, NEW r \in Handler, RowsBegun(h, r) PROVE Sole'
  <2>1. /\ handler[h] = Idle /\ handler' = [handler EXCEPT ![h] = r] /\ r.do \in {"save", "bulk", "delete"} /\ r.at = "asked"
        /\ UNCHANGED <<fields, nextTemp>> /\ Sent(r.todo) /\ Shape(r) /\ r.do \in OnRows
    BY <1>3, KindFacts DEF RowsBegun, Began, Shape, OnRows
  <2>2. ~Inserted(handler[h]) /\ ~Inserted(r)
    BY <2>1, Values, KindFacts DEF Inserted
  <2>3. \A g \in Slot : handler[g].do \in OnRows =>
          \A j \in DOMAIN handler[g].todo : handler[g].todo[j].key \in Touched
    BY KindFacts DEF OnRows, Touched, KeysOf
  <2>4. \A g \in Slot \ {h} : ApartFrom(handler[g], r)
    BY <2>1, <2>2, <2>3 DEF ApartFrom, Sent
  <2>5. RowsSole(r)
    <3>1. \A j \in DOMAIN r.todo : KeyOK(r.todo[j]) /\ InList(r.todo[j])
      BY <1>a, <2>1 DEF Sent, FieldsSole, InList, Same
    <3>2. Lone(r.todo)
      BY <1>a, <2>1 DEF Sent, FieldsSole, Lone
    <3> QED
      BY <3>1, <3>2 DEF RowsSole
  <2>6. \A j \in DOMAIN r.todo : Freed(r.todo[j])
    <3> SUFFICES ASSUME NEW j \in DOMAIN r.todo PROVE Freed(r.todo[j])
      OBVIOUS
    <3>1. PICK i \in DOMAIN fields : r.todo[j] = fields[i] /\ fields[i].key \notin Touched
      BY <2>1 DEF Sent
    <3>2. ASSUME NEW g \in Slot, Inserted(handler[g]) PROVE handler[g].todo[1].key # fields[i].key
      <4>1. handler[g].do \in OnRows
        BY <3>2 DEF Inserted, OnRows
      <4>2. 1 \in DOMAIN handler[g].todo
        BY <4>1, TodoFacts
      <4> QED
        BY <2>3, <3>1, <4>1, <4>2
    <3> QED
      BY <1>a, <3>1, <3>2 DEF FieldsSole
  <2>7. HandlerSole(r)
    BY <2>1, <2>2, <2>5, <2>6 DEF HandlerSole
  <2> QED
    BY <1>0, <2>1, <2>2, <2>4, <2>7, SoleHandler
<1>4. CASE Typed
  <2>1. UNCHANGED <<handler, nextTemp>> /\ DOMAIN fields' = DOMAIN fields /\ \A i \in DOMAIN fields : Same(fields'[i], fields[i])
    BY <1>4 DEF Typed, Same
  <2>2. Copied
    BY <2>1 DEF Copied
  <2>3. \A g \in Slot : handler[g].do \in OnRows =>
             \A j \in DOMAIN handler[g].todo : \E i \in DOMAIN fields' : Same(fields'[i], handler[g].todo[j])
    BY <1>0, <2>1, RowsThere DEF Same
  <2> QED
    BY <1>0, <1>b, <2>1, <2>2, <2>3, SoleCopied
<1>5. CASE Added
  <2>1. /\ UNCHANGED handler /\ nextTemp \in Nat /\ nextTemp' = nextTemp + 1
        /\ fields' = Append(fields, blankField(nextTemp, Blank, Len(fields)))
    BY <1>5, TypesParts DEF Added, RoomOK
  <2>2. PICK row : row = blankField(nextTemp, Blank, Len(fields))
    OBVIOUS
  <2>3. row.key = <<"new", nextTemp>> /\ row.id = NoId
    BY <2>2 DEF blankField
  <2>4. /\ Len(fields) \in Nat /\ DOMAIN fields = 1 .. Len(fields) /\ DOMAIN fields' = 1 .. Len(fields) + 1
        /\ fields'[Len(fields) + 1] = row /\ \A i \in DOMAIN fields : fields'[i] = fields[i]
    BY <1>0, <2>1, <2>2
  <2>5. \A i \in DOMAIN fields' \ DOMAIN fields : i = Len(fields) + 1
    BY <2>4
  <2>6. nextTemp + 1 - 1 = nextTemp /\ 1 \in 1 .. 1
    BY <2>1
  <2>7. Grew(1)
    BY <2>1, <2>3, <2>4, <2>5, <2>6 DEF Grew
  <2> QED
    BY <1>0, <1>b, <2>1, <2>7, SoleGrew
<1>6. CASE Dropped
  <2>0. PICK k \in DOMAIN fields : fields[k].key \notin Touched /\ fields' = Without(fields[k].key)
    BY <1>6 DEF Dropped
  <2>1. /\ UNCHANGED <<handler, nextTemp>>
        /\ \A j \in DOMAIN fields' : \E i \in DOMAIN fields : fields'[j] = fields[i]
        /\ \A j, l \in DOMAIN fields' : j # l => \E i, m \in DOMAIN fields : i # m /\ fields'[j] = fields[i] /\ fields'[l] = fields[m]
        /\ \A i \in DOMAIN fields : fields[i].key # fields[k].key => \E j \in DOMAIN fields' : fields'[j] = fields[i]
    BY <1>0, <1>6, <2>0, WithoutFacts DEF Dropped
  <2>2. Copied
    BY <2>1 DEF Copied, Same
  <2>3. ASSUME NEW g \in Slot, handler[g].do \in OnRows, NEW j \in DOMAIN handler[g].todo
        PROVE  \E i \in DOMAIN fields' : Same(fields'[i], handler[g].todo[j])
    <3>1. PICK i \in DOMAIN fields : Same(fields[i], handler[g].todo[j])
      BY <1>0, <2>3, RowsThere
    <3>2. handler[g].todo[j].key \in Touched
      BY <2>3, KindFacts DEF OnRows, Touched, KeysOf
    <3>3. fields[i].key # fields[k].key
      BY <2>0, <3>1, <3>2 DEF Same
    <3> QED
      BY <2>1, <3>1, <3>3
  <2> QED
    BY <1>0, <1>b, <2>1, <2>2, <2>3, SoleCopied
<1> QED
  BY <1>1, <1>2, <1>3, <1>4, <1>5, <1>6 DEF UserStep

LEMMA NewKeys ==
  ASSUME NEW a, NEW b, a.key \in Key, b.key \in Key, RowOK(a), RowOK(b), ~Saved(a), ~Saved(b), a.key # b.key
  PROVE  a.key[2] \in 1 .. MaxRows /\ a.key[2] # b.key[2]
<1>1. a.key[1] = "new" /\ b.key[1] = "new"
  BY DEF RowOK
<1>2. a.key # NoKey /\ b.key # NoKey
  BY <1>1 DEF NoKey
<1> QED
  BY <1>1, <1>2, KeyFacts

\* A row is inserted that nothing was stored for.
LEMMA SoleCreated ==
  ASSUME Types, Types', Sole, NEW h \in Slot, NEW r \in Handler, Echo(h, r), Created(h, r)
  PROVE  Sole'
<1> DEFINE row == handler[h].todo[1]
<1>0. /\ handler[h] # Idle /\ handler[h].at = "asked" /\ handler[h].do \in Persist /\ handler[h].do \in OnRows
      /\ handler' = [handler EXCEPT ![h] = r] /\ r.do = handler[h].do /\ r.todo = handler[h].todo /\ r.at = "ok"
      /\ UNCHANGED <<page, fields, nextTemp>> /\ nextId' = nextId + 1
      /\ row.key[2] \in 1 .. MaxRows /\ ~Saved(row) /\ made' = [made EXCEPT ![row.key[2]] = made[row.key[2]] + 1]
      /\ DOMAIN server' = DOMAIN server \cup {nextId}
  BY DEF Echo, Created, screen, OnRows
<1>1. r.got.rows[1].id = nextId /\ r.got.rows[1].key = <<"id", nextId>> /\ r.got.rows[1].order = row.order
  BY DEF Created, FromServer, Field
<1>2. handler'[h] = r /\ \A g \in Slot \ {h} : handler'[g] = handler[g]
  BY <1>0, TypesParts DEF HandlersOK
<1>3. nextId \in Nat \ {0} /\ made \in [1 .. MaxRows -> Nat] /\ nextTemp \in Nat /\ Counters
  <2>1. DataOK /\ RoomOK /\ DataOK' /\ RoomOK'
    BY TypesParts
  <2>2. nextId \in 1 .. MaxFields + 1 /\ nextTemp \in 1 .. MaxRows + 1 /\ made \in [1 .. MaxRows -> Nat]
    BY <2>1 DEF DataOK, RoomOK
  <2> QED
    BY <1>0, <2>2, BoundsNat DEF Counters
<1>4. HandlerSole(handler[h])
  BY DEF Sole
<1>5. /\ 1 \in DOMAIN handler[h].todo /\ handler[h].todo \in Seq(Row)
      /\ \A j \in DOMAIN handler[h].todo : /\ handler[h].todo[j].key \in Key /\ handler[h].todo[j].id \in Nat
                                           /\ RowOK(handler[h].todo[j])
  BY <1>0, TodoFacts
<1>6. made[row.key[2]] = 0
  BY <1>0, <1>4, <1>5 DEF HandlerSole, Freed
<1>7. row.key[1] = "new" /\ row.key[2] < nextTemp
  BY <1>0, <1>4, <1>5 DEF RowOK, HandlerSole, RowsSole, KeyOK
<1>8. \A other : other.key \in Key /\ RowOK(other) /\ ~Saved(other) /\ other.key # row.key =>
        made'[other.key[2]] = made[other.key[2]]
  BY <1>0, <1>3, <1>5, NewKeys
<1>9. ~Inserted(handler[h]) /\ Inserted(r)
  BY <1>0 DEF Inserted
<1>10. StoreSole'
  <2>1. \A i \in DOMAIN server' : i < nextId'
    <3>1. \A i \in DOMAIN server : i < nextId /\ i \in Nat
      BY TypesParts DEF Sole, StoreSole, DataOK
    <3> QED
      BY <1>0, <1>3, <3>1
  <2>2. \A n \in 1 .. MaxRows : made'[n] <= 1 /\ (made'[n] > 0 => n < nextTemp')
    <3>1. \A n \in 1 .. MaxRows : made[n] <= 1 /\ (made[n] > 0 => n < nextTemp)
      BY DEF Sole, StoreSole
    <3>2. \A n \in 1 .. MaxRows : made'[n] = IF n = row.key[2] THEN 1 ELSE made[n]
      BY <1>0, <1>3, <1>6
    <3> QED
      BY <1>0, <1>7, <3>1, <3>2
  <2> QED
    BY <2>1, <2>2 DEF StoreSole
<1>11. FieldsSole'
  <2>1. (\A i \in DOMAIN fields : KeyOK(fields[i]))'
    <3> SUFFICES ASSUME NEW i \in DOMAIN fields, NEW other, other = fields[i] PROVE KeyOK(other)'
      BY <1>0 DEF KeyOK
    <3>1. other.key \in Key /\ other.id \in Nat /\ KeyOK(other)
      BY FieldFacts DEF Sole, FieldsSole
    <3> QED
      BY <1>3, <3>1, KeyKept
  <2>2. Lone(fields)' /\ (\A i, j \in DOMAIN fields : i # j /\ Saved(fields[i]) => fields[i].id # fields[j].id)'
    BY <1>0 DEF Sole, FieldsSole, Lone, Saved
  <2>3. ASSUME NEW i \in DOMAIN fields',
               \A g \in Slot : Inserted(handler'[g]) => handler'[g].todo[1].key # fields'[i].key
        PROVE  ~Saved(fields'[i]) => made'[fields'[i].key[2]] = 0
    <3>1. \A g \in Slot : Inserted(handler[g]) => handler[g].todo[1].key # fields[i].key
      BY <1>0, <1>2, <1>9, <2>3
    <3>2. Freed(fields[i])
      BY <1>0, <3>1 DEF Sole, FieldsSole
    <3>3. fields[i].key # row.key
      BY <1>0, <1>2, <1>9, <2>3
    <3>4. fields[i].key \in Key /\ RowOK(fields[i])
      BY <1>0, FieldFacts
    <3> QED
      BY <1>0, <1>8, <3>2, <3>3, <3>4 DEF Freed
  <2>4. (\A i \in DOMAIN fields :
           (\A g \in Slot : Inserted(handler[g]) => handler[g].todo[1].key # fields[i].key) => Freed(fields[i]))'
    BY <2>3 DEF Freed, Inserted, Saved
  <2> QED
    BY <2>1, <2>2, <2>4 DEF FieldsSole
<1>12. HandlerSole(r)'
  <2>1. Shape(r)
    BY <1>0, <1>4 DEF HandlerSole, Shape
  <2>2. \A j \in DOMAIN r.todo : KeyOK(r.todo[j])'
    <3>1. \A j \in DOMAIN r.todo : KeyOK(r.todo[j])
      BY <1>0, <1>4 DEF HandlerSole, RowsSole
    <3> QED
      BY <1>0, <1>3, <1>5, <3>1, KeyKept
  <2>3. RowsSole(r)'
    <3>1. Lone(r.todo) /\ (page = "shown" => \A j \in DOMAIN r.todo : InList(r.todo[j]))
      BY <1>0, <1>4 DEF HandlerSole, RowsSole
    <3> QED
      BY <1>0, <2>2, <3>1 DEF RowsSole, InList
  <2>4. \A j \in DOMAIN r.todo : j # 1 => (~Saved(r.todo[j]) => made'[r.todo[j].key[2]] = 0)
    <3> SUFFICES ASSUME NEW j \in DOMAIN r.todo, j # 1, ~Saved(r.todo[j]) PROVE made'[r.todo[j].key[2]] = 0
      OBVIOUS
    <3>1. r.todo[j].key # row.key
      BY <1>0, <1>4, <1>5 DEF HandlerSole, RowsSole, Lone
    <3>2. made[r.todo[j].key[2]] = 0
      BY <1>0, <1>4 DEF HandlerSole, Freed
    <3> QED
      BY <1>0, <1>5, <1>8, <3>1, <3>2
  <2>5. GotSole(r)'
    BY <1>0, <1>1, <1>3 DEF GotSole
  <2>6. \A i \in DOMAIN fields' : fields'[i].id # r.got.rows[1].id
    <3>1. \A i \in DOMAIN fields : fields[i].id \in Nat /\ fields[i].id < nextId
      BY FieldFacts DEF Sole, FieldsSole, KeyOK
    <3> QED
      BY <1>0, <1>1, <1>3, <3>1
  <2>7. r.do # "load"
    BY <1>0, KindFacts
  <2> QED
    BY <1>0, <2>1, <2>3, <2>4, <2>5, <2>6, <2>7 DEF HandlerSole, Freed
<1>13. \A g \in Slot \ {h} : ApartFrom(handler[g], r)
  <2> SUFFICES ASSUME NEW g \in Slot \ {h}, handler[g].do \in OnRows PROVE ApartFrom(handler[g], r)
    BY DEF ApartFrom
  <2>1. ApartFrom(handler[g], handler[h]) /\ HandlerSole(handler[g])
    BY DEF Sole
  <2>2. \A j \in DOMAIN handler[g].todo : \A k \in DOMAIN r.todo : handler[g].todo[j].key # r.todo[k].key
    BY <1>0, <2>1 DEF ApartFrom
  <2>3. Inserted(handler[g]) => handler[g].got.rows[1].id # nextId
    <3> SUFFICES ASSUME Inserted(handler[g]) PROVE handler[g].got.rows[1].id # nextId
      OBVIOUS
    <3>1. handler[g].got.rows[1].id < nextId
      BY <2>1 DEF HandlerSole, Inserted, GotSole
    <3> QED
      BY <1>3, <3>1
  <2> QED
    BY <1>1, <2>2, <2>3 DEF ApartFrom
<1>14. Undisturbed(h)
  <2> SUFFICES ASSUME NEW g \in Slot \ {h}
               PROVE  /\ page' = "shown" /\ handler[g].do \in OnRows =>
                           page = "shown" /\ \A j \in DOMAIN handler[g].todo : \E i \in DOMAIN fields' : Same(fields'[i], handler[g].todo[j])
                      /\ handler[g].do \in Persist =>
                           \A j \in DOMAIN handler[g].todo :
                             Freed(handler[g].todo[j]) /\ ~Saved(handler[g].todo[j]) => made'[handler[g].todo[j].key[2]] = 0
                      /\ Inserted(handler[g]) => \A i \in DOMAIN fields' : fields'[i].id # handler[g].got.rows[1].id
    BY <1>2 DEF Undisturbed
  <2>0. HandlerSole(handler[g]) /\ ApartFrom(handler[g], handler[h])
    BY DEF Sole
  <2>1. Inserted(handler[g]) => \A i \in DOMAIN fields' : fields'[i].id # handler[g].got.rows[1].id
    BY <1>0, <2>0 DEF HandlerSole
  <2>2. ASSUME handler[g].do \in Persist, NEW j \in DOMAIN handler[g].todo, Freed(handler[g].todo[j]), ~Saved(handler[g].todo[j])
        PROVE  made'[handler[g].todo[j].key[2]] = 0
    <3>1. handler[g].do \in OnRows
      BY <2>2 DEF OnRows
    <3>2. handler[g].todo[j].key \in Key /\ RowOK(handler[g].todo[j])
      BY <2>2, <3>1, TodoFacts
    <3>3. handler[g].todo[j].key # row.key
      BY <1>0, <1>5, <2>0, <3>1 DEF ApartFrom
    <3> QED
      BY <1>8, <2>2, <3>2, <3>3 DEF Freed
  <2>3. page' = "shown" /\ handler[g].do \in OnRows =>
          page = "shown" /\ \A j \in DOMAIN handler[g].todo : \E i \in DOMAIN fields' : Same(fields'[i], handler[g].todo[j])
    BY <1>0, RowsThere
  <2> QED
    BY <2>1, <2>2, <2>3
<1>15. h \in Slot => handler'[h] = r /\ HandlerSole(r)' /\ \A g \in Slot \ {h} : ApartFrom(handler[g], r)
  BY <1>2, <1>12, <1>13
<1> QED
  BY <1>3, <1>10, <1>11, <1>14, <1>15, SoleOne

\* The answers the server gives.
LEMMA SoleHeeded ==
  ASSUME Types, Types', Sole, NEW h \in Slot, NEW r \in Handler, Echo(h, r), Heeded(h, r)
  PROVE  Sole'
<1>0. /\ handler[h] # Idle /\ handler[h].at = "asked" /\ handler' = [handler EXCEPT ![h] = r]
      /\ r.do = handler[h].do /\ r.todo = handler[h].todo /\ UNCHANGED <<page, fields, nextTemp>>
  BY DEF Echo, screen
<1>1. HandlerSole(handler[h]) /\ ~Inserted(handler[h])
  BY <1>0 DEF Sole, Inserted
<1>2. Shape(r) /\ (r.do \in OnRows => RowsSole(r)) /\ (r.do \in Persist => \A j \in DOMAIN r.todo : Freed(r.todo[j]))
  BY <1>0, <1>1 DEF HandlerSole, Shape, RowsSole
<1>3. ASSUME ~Inserted(r), UNCHANGED <<made, nextId>>, DOMAIN server' \subseteq DOMAIN server,
             r.do \in Persist /\ r.at = "ok" => GotSole(r), r.do = "load" /\ r.at = "ok" => LoadSole(r)
      PROVE  Sole'
  <2>1. HandlerSole(r)
    BY <1>2, <1>3 DEF HandlerSole
  <2>2. \A g \in Slot \ {h} : ApartFrom(handler[g], r)
    BY <1>0, <1>3 DEF Sole, ApartFrom
  <2> QED
    BY <1>0, <1>1, <1>3, <2>1, <2>2, SoleHandler
<1>4. CASE Failed(h, r)
  BY <1>3, <1>4 DEF Failed, Inserted, data
<1>5. CASE LoadServed(h, r)
  <2>1. r.do = "load" /\ r.do \notin Persist /\ UNCHANGED <<server, made, nextId>>
    BY <1>0, <1>5, KindFacts DEF LoadServed, data
  <2>2. LoadSole(r)
    <3>1. CASE DOMAIN r.got.rows = {}
      BY <3>1 DEF LoadSole
    <3>2. CASE DOMAIN r.got.rows # {}
      <4>1. PICK s \in _ordered_fields :
              /\ DOMAIN r.got.rows = 1 .. Cardinality(DOMAIN server)
              /\ \A i \in DOMAIN r.got.rows : s[i] \in DOMAIN server /\ r.got.rows[i] = FromServer(s[i], server[s[i]])
        BY <1>5, <3>2 DEF LoadServed, Listed
      <4>2. \A i \in DOMAIN r.got.rows : r.got.rows[i].id = s[i] /\ r.got.rows[i].key = <<"id", s[i]>> /\ s[i] < nextId
        <5>1. \A i \in DOMAIN server : i < nextId
          BY DEF Sole, StoreSole
        <5>2. \A id, field : FromServer(id, field).id = id /\ FromServer(id, field).key = <<"id", id>>
          BY DEF FromServer
        <5> QED
          BY <4>1, <5>1, <5>2
      <4>3. \A i, j \in 1 .. Cardinality(DOMAIN server) : i # j => s[i] # s[j]
        BY DEF _ordered_fields, Bijection, Injection, IsInjective
      <4> QED
        BY <4>1, <4>2, <4>3 DEF LoadSole
    <3> QED
      BY <3>1, <3>2
  <2> QED
    BY <1>3, <2>1, <2>2 DEF Inserted
<1>6. CASE NothingStored(h, r) \/ MetaServed(h, r) \/ Removed(h, r)
  <2>1. r.do \notin Persist /\ r.do # "load" /\ UNCHANGED <<made, nextId>> /\ DOMAIN server' \subseteq DOMAIN server
    BY <1>0, <1>6, KindFacts DEF NothingStored, MetaServed, Removed, data
  <2> QED
    BY <1>3, <2>1 DEF Inserted
<1>7. CASE Created(h, r)
  BY <1>7, SoleCreated
<1>8. CASE Changed(h, r)
  <2>1. /\ handler[h].do \in Persist /\ handler[h].todo[1].id \in DOMAIN server /\ DOMAIN server' = DOMAIN server
        /\ r.got.rows = <<FromServer(handler[h].todo[1].id, Field(handler[h].todo[1]))>> /\ UNCHANGED <<made, nextId>>
    BY <1>8 DEF Changed
  <2>2. Saved(handler[h].todo[1]) /\ r.do # "load"
    <3>1. handler[h].todo[1].id \in 1 .. MaxFields
      BY <2>1, TypesParts DEF DataOK
    <3> QED
      BY <1>0, <2>1, <3>1, KindFacts DEF Saved, NoId
  <2>3. GotSole(r)
    <3>1. handler[h].todo[1].id < nextId
      BY <2>1 DEF Sole, StoreSole
    <3> QED
      BY <1>0, <2>1, <3>1 DEF GotSole, FromServer, Field
  <2> QED
    BY <1>0, <1>3, <2>1, <2>2, <2>3 DEF Inserted
<1> QED
  BY <1>4, <1>5, <1>6, <1>7, <1>8 DEF Heeded

LEMMA IdleSole == HandlerSole(Idle) /\ HandlerSole(Idle)' /\ ~Inserted(Idle) /\ \A q : ApartFrom(q, Idle)
<1>1. Idle.do = "idle" /\ "idle" \notin OnRows /\ "idle" \notin Persist
  BY Values, KindFacts DEF OnRows
<1> QED
  BY <1>1 DEF HandlerSole, Shape, Inserted, ApartFrom

\* A handler that goes on with the rest of its rows.
LEMMA RestSole ==
  ASSUME Types, Sole, NEW h \in Slot, handler[h].do \in {"bulk", "keep"}, NEW r,
         r.do = handler[h].do, r.at = "asked", r.todo = Tail(handler[h].todo)
  PROVE  /\ HandlerSole(r) /\ ~Inserted(r) /\ \A g \in Slot \ {h} : ApartFrom(handler[g], r)
         /\ \A j \in DOMAIN r.todo : r.todo[j].key # handler[h].todo[1].key
<1>0. handler[h].do \in Persist /\ handler[h].do \in OnRows /\ r.do # "load"
  BY KindFacts DEF OnRows
<1>1. handler[h].todo \in Seq(Row) /\ handler[h].todo # <<>> /\ 1 \in DOMAIN handler[h].todo
  BY <1>0, TodoFacts
<1>2. \A j \in DOMAIN r.todo : j \in Nat \ {0} /\ j + 1 \in DOMAIN handler[h].todo /\ r.todo[j] = handler[h].todo[j + 1]
  BY <1>1, HeadFacts
<1>3. HandlerSole(handler[h])
  BY DEF Sole
<1>4. \A j \in DOMAIN r.todo : KeyOK(r.todo[j]) /\ Freed(r.todo[j]) /\ ~Saved(r.todo[j]) /\ r.todo[j].key # handler[h].todo[1].key
  <2>1. \A i \in DOMAIN handler[h].todo : i # 1 =>
          /\ KeyOK(handler[h].todo[i]) /\ Freed(handler[h].todo[i]) /\ ~Saved(handler[h].todo[i])
          /\ handler[h].todo[i].key # handler[h].todo[1].key
    BY <1>0, <1>1, <1>3 DEF HandlerSole, RowsSole, Shape, Lone
  <2>2. \A j \in DOMAIN r.todo : j + 1 # 1
    BY <1>2
  <2> QED
    BY <1>2, <2>1, <2>2
<1>5. Lone(r.todo)
  <2>1. \A j, k \in DOMAIN r.todo : j # k => j + 1 # k + 1
    BY <1>2
  <2>2. Lone(handler[h].todo)
    BY <1>0, <1>3 DEF HandlerSole, RowsSole
  <2> QED
    BY <1>2, <2>1, <2>2 DEF Lone
<1>6. page = "shown" => \A j \in DOMAIN r.todo : InList(r.todo[j])
  BY <1>0, <1>2, <1>3 DEF HandlerSole, RowsSole
<1>7. HandlerSole(r) /\ ~Inserted(r)
  BY <1>0, <1>4, <1>5, <1>6 DEF HandlerSole, RowsSole, Shape, Inserted
<1>8. \A g \in Slot \ {h} : ApartFrom(handler[g], r)
  BY <1>0, <1>2, <1>7 DEF Sole, ApartFrom
<1> QED
  BY <1>4, <1>7, <1>8

\* The page takes in what a row was saved as.
LEMMA SoleFilled ==
  ASSUME Types, Types', Sole, NEW h \in Slot, NEW r, handler' = [handler EXCEPT ![h] = r],
         handler[h].do \in Persist, handler[h].at = "ok", page = "shown", Filled(h),
         UNCHANGED <<data, page, nextTemp>>,
         HandlerSole(r), ~Inserted(r), \A g \in Slot \ {h} : ApartFrom(handler[g], r), r.do # "load",
         r.do \in OnRows => \A j \in DOMAIN r.todo : r.todo[j].key # handler[h].todo[1].key
  PROVE  Sole'
<1> DEFINE key == handler[h].todo[1].key
           old == handler[h].todo[1]
           saved == handler[h].got.rows[1]
<1>0. handler[h].do \in OnRows /\ handler[h] # Idle /\ UNCHANGED <<server, made, nextId>>
  BY TodoFacts DEF OnRows, data
<1>1. handler'[h] = r /\ \A g \in Slot \ {h} : handler'[g] = handler[g]
  BY TypesParts DEF HandlersOK
<1>2. HandlerSole(handler[h]) /\ 1 \in DOMAIN handler[h].todo /\ KeyOK(old) /\ old.key \in Key /\ GotSole(handler[h])
  BY <1>0, TodoFacts DEF Sole, HandlerSole, RowsSole
<1>3. PICK i0 \in DOMAIN fields : Same(fields[i0], old)
  BY <1>0, <1>2, RowsThere
<1>4. \A i \in DOMAIN fields : fields[i].key = key <=> i = i0
  BY <1>3 DEF Same, Sole, FieldsSole, Lone
<1>5. /\ DOMAIN fields' = DOMAIN fields
      /\ \A i \in DOMAIN fields : i # i0 => fields'[i] = fields[i]
      /\ fields'[i0].id = saved.id /\ fields'[i0].order = saved.order
      /\ fields'[i0].key = IF handler[h].do = "save" THEN key ELSE saved.key
  BY <1>4 DEF Filled
<1>6. saved \in Row /\ Saved(saved) /\ saved.id < nextId /\ saved.key = <<"id", saved.id>> /\ (Saved(old) => saved.id = old.id)
  BY <1>0, <1>2, AnsweredFacts DEF GotSole
<1>7. \A i \in DOMAIN fields : i # i0 => fields[i].id # saved.id
  <2>1. CASE Saved(old)
    BY <1>3, <1>6, <2>1 DEF Same, Sole, FieldsSole, Saved
  <2>2. CASE ~Saved(old)
    BY <1>2, <2>2 DEF HandlerSole, Inserted
  <2> QED
    BY <2>1, <2>2
<1>8. Counters
  <2>1. DataOK /\ RoomOK
    BY TypesParts
  <2> QED
    BY <1>0, <2>1 DEF DataOK, RoomOK, Counters
<1>9. StoreSole'
  BY <1>0 DEF Sole, StoreSole
<1>10. FieldsSole'
  <2>1. (\A i \in DOMAIN fields : KeyOK(fields[i]))'
    <3>1. \A i \in DOMAIN fields : KeyOK(fields[i])
      BY DEF Sole, FieldsSole
    <3>2. /\ fields'[i0].id < nextId /\ fields'[i0].key # NoKey
          /\ fields'[i0].key[1] = "new" => fields'[i0].key[2] < nextTemp
          /\ fields'[i0].key[1] = "id" => fields'[i0].id = fields'[i0].key[2]
      <4>1. CASE handler[h].do = "save"
        <5>1. old.key[1] = "id" => Saved(old)
          <6> SUFFICES ASSUME old.key[1] = "id" PROVE Saved(old)
            OBVIOUS
          <6>1. old.id = old.key[2] /\ old.key # NoKey
            BY <1>2 DEF KeyOK
          <6>2. old.key[2] \in 1 .. MaxFields
            BY <1>2, <6>1, KeyFacts
          <6> QED
            BY <6>1, <6>2, BoundsNat DEF Saved, NoId
        <5> QED
          BY <1>2, <1>5, <1>6, <4>1, <5>1 DEF KeyOK
      <4>2. CASE handler[h].do # "save"
        BY <1>5, <1>6, <4>2 DEF NoKey
      <4> QED
        BY <4>1, <4>2
    <3> QED
      BY <1>0, <1>5, <3>1, <3>2 DEF KeyOK
  <2>2. Lone(fields)'
    <3>1. \A i \in DOMAIN fields : i # i0 => fields[i].key # fields'[i0].key
      <4>1. CASE handler[h].do = "save"
        BY <1>4, <1>5, <4>1
      <4>2. CASE handler[h].do # "save"
        <5>1. \A i \in DOMAIN fields : fields[i].key[1] = "id" => fields[i].id = fields[i].key[2]
          BY DEF Sole, FieldsSole, KeyOK
        <5> QED
          BY <1>5, <1>6, <1>7, <4>2, <5>1
      <4> QED
        BY <4>1, <4>2
    <3>2. Lone(fields)
      BY DEF Sole, FieldsSole
    <3>3. ASSUME NEW i \in DOMAIN fields, NEW j \in DOMAIN fields, i # j PROVE fields'[i].key # fields'[j].key
      BY <1>5, <3>1, <3>2, <3>3 DEF Lone
    <3> QED
      BY <1>5, <3>3 DEF Lone
  <2>3. (\A i, j \in DOMAIN fields : i # j /\ Saved(fields[i]) => fields[i].id # fields[j].id)'
    <3>1. \A i, j \in DOMAIN fields : i # j /\ Saved(fields[i]) => fields[i].id # fields[j].id
      BY DEF Sole, FieldsSole
    <3>2. ASSUME NEW i \in DOMAIN fields, NEW j \in DOMAIN fields, i # j, fields'[i].id # NoId
          PROVE  fields'[i].id # fields'[j].id
      BY <1>5, <1>7, <3>1, <3>2 DEF Saved
    <3> QED
      BY <1>5, <3>2 DEF Saved
  <2>4. ASSUME NEW i \in DOMAIN fields',
               \A g \in Slot : Inserted(handler'[g]) => handler'[g].todo[1].key # fields'[i].key
        PROVE  ~Saved(fields'[i]) => made'[fields'[i].key[2]] = 0
    <3>1. CASE i = i0
      BY <1>5, <1>6, <3>1 DEF Saved
    <3>2. CASE i # i0
      <4>1. fields'[i] = fields[i] /\ i \in DOMAIN fields /\ fields[i].key # key
        BY <1>4, <1>5, <3>2
      <4>2. \A g \in Slot : Inserted(handler[g]) => handler[g].todo[1].key # fields[i].key
        <5> SUFFICES ASSUME NEW g \in Slot, Inserted(handler[g]) PROVE handler[g].todo[1].key # fields[i].key
          OBVIOUS
        <5>1. CASE g = h
          BY <4>1, <5>1
        <5>2. CASE g # h
          BY <1>1, <2>4, <4>1, <5>2
        <5> QED
          BY <5>1, <5>2
      <4>3. Freed(fields[i])
        BY <4>1, <4>2 DEF Sole, FieldsSole
      <4> QED
        BY <1>0, <4>1, <4>3 DEF Freed
    <3> QED
      BY <3>1, <3>2
  <2>5. (\A i \in DOMAIN fields :
           (\A g \in Slot : Inserted(handler[g]) => handler[g].todo[1].key # fields[i].key) => Freed(fields[i]))'
    BY <2>4 DEF Freed, Inserted, Saved
  <2> QED
    BY <2>1, <2>2, <2>3, <2>5 DEF FieldsSole
<1>11. \A row : row.key # key /\ (\E i \in DOMAIN fields : Same(fields[i], row)) => \E i \in DOMAIN fields' : Same(fields'[i], row)
  BY <1>3, <1>5 DEF Same
<1>12. HandlerSole(r)'
  <2>1. r.do \in OnRows => RowsSole(r)'
    BY <1>0, <1>11 DEF HandlerSole, RowsSole, InList, KeyOK
  <2> QED
    BY <1>0, <2>1 DEF HandlerSole, GotSole, Freed, Inserted
<1>13. Undisturbed(h)
  <2> SUFFICES ASSUME NEW g \in Slot \ {h}
               PROVE  /\ page' = "shown" /\ handler[g].do \in OnRows =>
                           page = "shown" /\ \A j \in DOMAIN handler[g].todo : \E i \in DOMAIN fields' : Same(fields'[i], handler[g].todo[j])
                      /\ handler[g].do \in Persist =>
                           \A j \in DOMAIN handler[g].todo :
                             Freed(handler[g].todo[j]) /\ ~Saved(handler[g].todo[j]) => made'[handler[g].todo[j].key[2]] = 0
                      /\ Inserted(handler[g]) => \A i \in DOMAIN fields' : fields'[i].id # handler[g].got.rows[1].id
    BY <1>1 DEF Undisturbed
  <2>0. ApartFrom(handler[g], handler[h]) /\ HandlerSole(handler[g])
    BY DEF Sole
  <2>1. handler[g].do \in OnRows => \A j \in DOMAIN handler[g].todo : \E i \in DOMAIN fields' : Same(fields'[i], handler[g].todo[j])
    <3> SUFFICES ASSUME handler[g].do \in OnRows, NEW j \in DOMAIN handler[g].todo
                 PROVE  \E i \in DOMAIN fields' : Same(fields'[i], handler[g].todo[j])
      OBVIOUS
    <3>1. handler[g].todo[j].key # key
      BY <1>0, <1>2, <2>0 DEF ApartFrom
    <3>2. \E i \in DOMAIN fields : Same(fields[i], handler[g].todo[j])
      BY RowsThere
    <3> QED
      BY <1>11, <3>1, <3>2
  <2>2. handler[g].do \in Persist =>
           \A j \in DOMAIN handler[g].todo :
             Freed(handler[g].todo[j]) /\ ~Saved(handler[g].todo[j]) => made'[handler[g].todo[j].key[2]] = 0
    BY <1>0 DEF Freed
  <2>3. Inserted(handler[g]) => \A i \in DOMAIN fields' : fields'[i].id # handler[g].got.rows[1].id
    <3> SUFFICES ASSUME Inserted(handler[g]) PROVE \A i \in DOMAIN fields' : fields'[i].id # handler[g].got.rows[1].id
      OBVIOUS
    <3>1. \A i \in DOMAIN fields : fields[i].id # handler[g].got.rows[1].id
      BY <2>0 DEF HandlerSole
    <3>2. saved.id # handler[g].got.rows[1].id
      <4>1. CASE Saved(old)
        BY <1>3, <1>6, <3>1, <4>1 DEF Same
      <4>2. CASE ~Saved(old)
        <5>1. Inserted(handler[h]) /\ handler[g].do \in OnRows
          BY <4>2 DEF Inserted, OnRows
        <5> QED
          BY <1>0, <2>0, <5>1 DEF ApartFrom
      <4> QED
        BY <4>1, <4>2
    <3> QED
      BY <1>5, <3>1, <3>2
  <2> QED
    BY <2>1, <2>2, <2>3
<1>14. h \in Slot => handler'[h] = r /\ HandlerSole(r)' /\ \A g \in Slot \ {h} : ApartFrom(handler[g], r)
  BY <1>1, <1>12
<1> QED
  BY <1>8, <1>9, <1>10, <1>13, <1>14, SoleOne

\* What the other handlers do with their answers.
LEMMA SoleLoaded ==
  ASSUME Types, Types', Turns, Sole, NEW h \in Slot, NEW r, Went(h, r), LoadDone(h, r)
  PROVE  Sole'
<1>0. /\ handler' = [handler EXCEPT ![h] = r] /\ r = Idle /\ handler[h].do = "load" /\ handler[h] # Idle
      /\ UNCHANGED <<data, nextTemp>> /\ UNCHANGED <<server, made, nextId>>
  BY DEF Went, LoadDone, data
<1>1. ~Inserted(handler[h])
  BY <1>0, KindFacts DEF Inserted
<1>2. CASE ~Heard(h)
  <2>1. UNCHANGED fields /\ (page' # page => page' # "shown")
    BY <1>2 DEF LoadDone
  <2> QED
    BY <1>0, <1>1, <2>1, IdleSole, SoleHandler
<1>3. CASE Heard(h)
  <2>1. /\ fields' = handler[h].got.rows /\ handler[h].at = "ok"
        /\ LoadSole(handler[h]) /\ \A i \in DOMAIN fields' : Saved(fields'[i])
    <3>1. HandlerSole(handler[h]) /\ HandlerOK(handler[h])
      BY <1>0, AnsweredFacts DEF Sole
    <3> QED
      BY <1>0, <1>3, <3>1 DEF LoadDone, Heard, HandlerSole, HandlerOK
  <2>2. \A g \in Slot \ {h} : handler[g].do \notin OnRows /\ handler[g].do \notin Persist
    <3>1. \A g \in Slot \ {h} : handler[g].do \in {"idle", "test"}
      BY <1>0 DEF Turns
    <3> QED
      BY <3>1, KindFacts DEF OnRows
  <2>3. handler'[h] = Idle /\ \A g \in Slot \ {h} : handler'[g] = handler[g]
    BY <1>0, TypesParts DEF HandlersOK
  <2>4. Undisturbed(h)
    BY <2>2, <2>3 DEF Undisturbed, Inserted
  <2>5. Counters
    <3>1. DataOK /\ RoomOK
      BY TypesParts
    <3> QED
      BY <1>0, <3>1 DEF DataOK, RoomOK, Counters
  <2>6. StoreSole'
    BY <1>0 DEF Sole, StoreSole
  <2>7. FieldsSole'
    <3>1. (\A i \in DOMAIN fields : KeyOK(fields[i]))'
      BY <1>0, <2>1 DEF LoadSole, KeyOK, NoKey
    <3>2. Lone(fields)'
      BY <2>1 DEF LoadSole, Lone
    <3>3. (\A i, j \in DOMAIN fields : i # j /\ Saved(fields[i]) => fields[i].id # fields[j].id)'
      BY <2>1 DEF LoadSole, Saved
    <3>4. (\A i \in DOMAIN fields :
             (\A g \in Slot : Inserted(handler[g]) => handler[g].todo[1].key # fields[i].key) => Freed(fields[i]))'
      BY <2>1 DEF Freed, Saved
    <3> QED
      BY <3>1, <3>2, <3>3, <3>4 DEF FieldsSole
  <2>8. h \in Slot => handler'[h] = Idle /\ HandlerSole(Idle)' /\ \A g \in Slot \ {h} : ApartFrom(handler[g], Idle)
    BY <2>3, IdleSole
  <2> QED
    BY <2>4, <2>5, <2>6, <2>7, <2>8, SoleOne
<1> QED
  BY <1>2, <1>3

LEMMA SoleSaved ==
  ASSUME Types, Types', Turns, Sole, NEW h \in Slot, NEW r, Went(h, r), SaveDone(h, r)
  PROVE  Sole'
<1>0. /\ handler' = [handler EXCEPT ![h] = r] /\ handler[h].do \in Persist /\ handler[h] # Idle
      /\ UNCHANGED <<data, page, nextTemp>> /\ UNCHANGED <<server, made, nextId>>
  BY DEF Went, SaveDone, data
<1>1. \/ r = Idle
      \/ handler[h].do \in {"bulk", "keep"} /\ r.do = handler[h].do /\ r.at = "asked" /\ r.todo = Tail(handler[h].todo)
  BY <1>0, KindFacts DEF SaveDone
<1>2. /\ HandlerSole(r) /\ ~Inserted(r) /\ (\A g \in Slot \ {h} : ApartFrom(handler[g], r)) /\ r.do # "load"
      /\ r.do \in OnRows => \A j \in DOMAIN r.todo : r.todo[j].key # handler[h].todo[1].key
  <2>1. CASE r = Idle
    BY <2>1, IdleSole, Values, KindFacts DEF OnRows
  <2>2. CASE handler[h].do \in {"bulk", "keep"} /\ r.do = handler[h].do /\ r.at = "asked" /\ r.todo = Tail(handler[h].todo)
    BY <2>2, RestSole
  <2> QED
    BY <1>1, <2>1, <2>2
<1>3. CASE Heard(h)
  <2>1. Filled(h) /\ handler[h].at = "ok" /\ page = "shown"
    BY <1>0, <1>3, OnShown, KindFacts DEF SaveDone, Heard, Shown
  <2> QED
    BY <1>0, <1>2, <2>1, SoleFilled
<1>4. CASE ~Heard(h)
  <2>1. UNCHANGED fields
    BY <1>4 DEF SaveDone
  <2>2. Inserted(handler[h]) => \A i \in DOMAIN fields : fields[i].key # handler[h].todo[1].key
    <3> SUFFICES ASSUME Inserted(handler[h]) PROVE DOMAIN fields = {}
      OBVIOUS
    <3>1. ~handler[h].on
      BY <1>4 DEF Heard, Shown, Inserted
    <3>2. fields = <<>>
      BY <1>0, <3>1, OnShown, KindFacts
    <3> QED
      BY <3>2
  <2> QED
    BY <1>0, <1>2, <2>1, <2>2, SoleHandler
<1> QED
  BY <1>3, <1>4

LEMMA SoleDeleted ==
  ASSUME Types, Types', Turns, Sole, NEW h \in Slot, NEW r, Went(h, r), DeleteDone(h, r)
  PROVE  Sole'
<1>0. /\ handler' = [handler EXCEPT ![h] = r] /\ handler[h].do = "delete" /\ handler[h] # Idle /\ r = Idle
      /\ UNCHANGED <<server, made, nextId, page, nextTemp>> /\ ~Inserted(handler[h]) /\ handler[h].do \in OnRows
  BY KindFacts DEF Went, DeleteDone, data, Inserted, OnRows
<1>1. CASE ~Heard(h)
  <2>1. UNCHANGED fields
    BY <1>1 DEF DeleteDone
  <2> QED
    BY <1>0, <2>1, IdleSole, SoleHandler
<1>2. CASE Heard(h)
  <2>0. fields' = Without(handler[h].todo[1].key) /\ page = "shown"
    BY <1>0, <1>2, OnShown DEF DeleteDone, Heard, Shown
  <2>1. /\ \A j \in DOMAIN fields' : \E i \in DOMAIN fields : fields'[j] = fields[i]
        /\ \A j, l \in DOMAIN fields' : j # l => \E i, m \in DOMAIN fields : i # m /\ fields'[j] = fields[i] /\ fields'[l] = fields[m]
        /\ \A i \in DOMAIN fields : fields[i].key # handler[h].todo[1].key => \E j \in DOMAIN fields' : fields'[j] = fields[i]
    <3>1. fields \in Seq(Row)
      BY TypesParts DEF ListOK
    <3> QED
      BY <2>0, <3>1, WithoutFacts
  <2>2. Copied
    BY <2>1 DEF Copied, Same
  <2>3. ASSUME NEW g \in Slot \ {h}, handler[g].do \in OnRows, NEW j \in DOMAIN handler[g].todo
        PROVE  \E i \in DOMAIN fields' : Same(fields'[i], handler[g].todo[j])
    <3>1. PICK i \in DOMAIN fields : Same(fields[i], handler[g].todo[j])
      BY <2>0, <2>3, RowsThere
    <3>2. handler[g].todo[j].key # handler[h].todo[1].key
      <4>1. ApartFrom(handler[g], handler[h]) /\ 1 \in DOMAIN handler[h].todo
        BY <1>0, TodoFacts DEF Sole
      <4> QED
        BY <1>0, <2>3, <4>1 DEF ApartFrom
    <3> QED
      BY <2>1, <3>1, <3>2 DEF Same
  <2>4. handler'[h] = Idle /\ \A g \in Slot \ {h} : handler'[g] = handler[g]
    BY <1>0, TypesParts DEF HandlersOK
  <2> QED
    BY <1>0, <2>2, <2>3, <2>4, IdleSole, SoleCopied
<1> QED
  BY <1>1, <1>2

LEMMA SoleGenerated ==
  ASSUME Types, Types', Turns, Sole, NEW h \in Slot, NEW r, Went(h, r), UNCHANGED page,
         NEW new \in Seq(Row), NEW todo \in Seq(Row), Grown(h, new, todo, r)
  PROVE  Sole'
<1>0. /\ handler' = [handler EXCEPT ![h] = r] /\ handler[h].do = "generate" /\ handler[h] # Idle
      /\ UNCHANGED <<server, made, nextId, page>> /\ ~Inserted(handler[h])
      /\ Len(new) \in Nat /\ DOMAIN new = 1 .. Len(new) /\ nextTemp' = nextTemp + Len(new)
  BY KindFacts DEF Went, Grown, data, Inserted
<1>1. nextTemp \in Nat \ {0} /\ nextTemp + Len(new) <= MaxRows + 1 /\ nextId \in 1 .. MaxFields + 1
      /\ made \in [1 .. MaxRows -> Nat] /\ Len(fields) \in Nat /\ DOMAIN fields = 1 .. Len(fields)
  <2>1. DataOK /\ RoomOK /\ ListOK
    BY TypesParts
  <2> QED
    BY <2>1, BoundsNat DEF DataOK, RoomOK, ListOK, Grown
<1>2. handler'[h] = r /\ \A g \in Slot \ {h} : handler'[g] = handler[g]
  BY <1>0, TypesParts DEF HandlersOK
<1>3. \A i \in DOMAIN new : new[i].key = <<"new", nextTemp + i - 1>> /\ new[i].id = NoId /\ nextTemp + i - 1 \in 1 .. MaxRows
  <2>1. \A i \in DOMAIN new : nextTemp + i - 1 \in 1 .. MaxRows
    BY <1>0, <1>1, BoundsNat
  <2> QED
    BY <2>1 DEF Grown
<1>4. Grew(Len(new))
  <2>1. CASE Shown(h)
    <3>1. fields' = fields \o new /\ fields \in Seq(Row)
      BY <2>1, TypesParts DEF Grown, ListOK
    <3>2. /\ \A i \in DOMAIN fields : i \in DOMAIN fields' /\ fields'[i] = fields[i]
          /\ DOMAIN fields' = 1 .. Len(fields) + Len(new)
          /\ \A i \in DOMAIN fields' \ DOMAIN fields : i - Len(fields) \in 1 .. Len(new) /\ fields'[i] = new[i - Len(fields)]
      BY <1>0, <1>1, <3>1
    <3>3. ASSUME NEW i \in DOMAIN fields' \ DOMAIN fields
          PROVE  \E m \in 1 .. Len(new) : i = Len(fields) + m /\ fields'[i].id = NoId /\ fields'[i].key = <<"new", nextTemp + m - 1>>
      <4>1. PICK m : m = i - Len(fields)
        OBVIOUS
      <4>2. m \in 1 .. Len(new) /\ i = Len(fields) + m /\ fields'[i] = new[m]
        BY <1>1, <3>2, <4>1
      <4> QED
        BY <1>0, <1>3, <4>2
    <3> QED
      BY <1>0, <3>2, <3>3 DEF Grew
  <2>2. CASE ~Shown(h)
    BY <1>0, <2>2 DEF Grew, Grown
  <2> QED
    BY <2>1, <2>2
<1>5. CASE r = Idle
  BY <1>0, <1>2, <1>4, <1>5, IdleSole, SoleGrew
<1>6. CASE r # Idle
  <2>1. r.do = "keep" /\ r.at = "asked" /\ r.todo = todo /\ r.do \in Persist /\ r.do \in OnRows /\ r.do # "load"
    BY <1>6, KindFacts DEF Grown, OnRows
  <2>2. /\ \A j \in DOMAIN todo : \E i \in DOMAIN new : todo[j] = new[i]
        /\ \A j, k \in DOMAIN todo : j # k => \E i, l \in DOMAIN new : i # l /\ todo[j] = new[i] /\ todo[k] = new[l]
    BY DEF Grown
  <2>3. \A i, l \in DOMAIN new : i # l => new[i].key # new[l].key
    <3>1. \A i, l \in DOMAIN new : i # l => nextTemp + i - 1 # nextTemp + l - 1
      BY <1>0, <1>1
    <3> QED
      BY <1>3, <3>1
  <2>4. Lone(todo) /\ \A j \in DOMAIN todo : ~Saved(todo[j])
    <3>1. \A j \in DOMAIN todo : todo[j].id = NoId
      BY <1>3, <2>2
    <3>2. ASSUME NEW j \in DOMAIN todo, NEW k \in DOMAIN todo, j # k PROVE todo[j].key # todo[k].key
      BY <2>2, <2>3, <3>2
    <3> QED
      BY <3>1, <3>2 DEF Lone, Saved
  <2>5. \A j \in DOMAIN todo : KeyOK(todo[j])'
    <3> SUFFICES ASSUME NEW i \in DOMAIN new PROVE KeyOK(new[i])'
      BY <2>2
    <3>1. nextTemp + i - 1 < nextTemp' /\ NoId < nextId
      BY <1>0, <1>1, BoundsNat DEF NoId
    <3> QED
      BY <1>0, <1>3, <3>1 DEF KeyOK, NoKey
  <2>6. page' = "shown" => \A j \in DOMAIN todo : \E i \in DOMAIN fields' : Same(fields'[i], todo[j])
    <3> SUFFICES ASSUME page = "shown", NEW k \in DOMAIN new PROVE \E i \in DOMAIN fields' : Same(fields'[i], new[k])
      BY <1>0, <2>2
    <3>1. Shown(h)
      BY <1>0, OnShown, KindFacts, AnsweredFacts DEF Shown
    <3>2. fields' = fields \o new /\ fields \in Seq(Row)
      BY <3>1, TypesParts DEF Grown, ListOK
    <3>3. Len(fields) + k \in DOMAIN fields' /\ fields'[Len(fields) + k] = new[k]
      BY <1>0, <1>1, <3>2
    <3> QED
      BY <3>3 DEF Same
  <2>7. \A j \in DOMAIN todo : made'[todo[j].key[2]] = 0
    <3>1. \A n \in 1 .. MaxRows : made[n] > 0 => n < nextTemp
      BY DEF Sole, StoreSole
    <3> SUFFICES ASSUME NEW i \in DOMAIN new PROVE made[new[i].key[2]] = 0
      BY <1>0, <2>2
    <3>2. PICK n : n = nextTemp + i - 1
      OBVIOUS
    <3>3. n \in 1 .. MaxRows /\ ~(n < nextTemp) /\ new[i].key[2] = n
      BY <1>0, <1>1, <1>3, <3>2
    <3>4. made[n] \in Nat /\ ~(made[n] > 0)
      BY <1>1, <3>1, <3>3
    <3> QED
      BY <3>3, <3>4
  <2>8. HandlerSole(r)'
    <3>1. RowsSole(r)'
      BY <2>1, <2>4, <2>5, <2>6 DEF RowsSole, InList
    <3> QED
      BY <2>1, <2>4, <2>7, <3>1 DEF HandlerSole, Shape, Inserted, Freed
  <2>9. \A g \in Slot \ {h} : ApartFrom(handler[g], r)
    <3> SUFFICES ASSUME NEW g \in Slot \ {h}, handler[g].do \in OnRows, NEW j \in DOMAIN handler[g].todo, NEW i \in DOMAIN new
                 PROVE  handler[g].todo[j].key # new[i].key
      BY <2>1, <2>2 DEF ApartFrom, Inserted
    <3>1. handler[g].todo[j].key \in Key /\ KeyOK(handler[g].todo[j])
      BY TodoFacts DEF Sole, HandlerSole, RowsSole
    <3>2. i \in Nat \ {0}
      BY <1>0
    <3>3. handler[g].todo[j].key # <<"new", nextTemp + i - 1>>
      BY <3>1, <3>2, KeyToCome
    <3> QED
      BY <1>3, <3>3
  <2> QED
    BY <1>0, <1>2, <1>4, <2>8, <2>9, SoleGrew
<1> QED
  BY <1>5, <1>6

LEMMA SoleContinue ==
  ASSUME Types, Types', Turns, Sole, NEW h \in Slot, NEW r \in Handler, HandlerStep(h, r)
  PROVE  Sole'
<1>0. Went(h, r) /\ handler' = [handler EXCEPT ![h] = r] /\ UNCHANGED <<server, made, nextId>>
  BY DEF HandlerStep, Went, data
<1>1. CASE LoadDone(h, r)
  BY <1>0, <1>1, SoleLoaded
<1>2. CASE MetaDone(h, r) \/ TestDone(h, r) \/ MoveDone(h, r)
  <2>1. /\ handler[h].do \in {"meta", "test", "move"} /\ UNCHANGED <<page, fields, nextTemp>>
        /\ r = Idle \/ (r.do = "load" /\ r.at = "asked")
    BY <1>2 DEF MetaDone, TestDone, MoveDone
  <2>2. ~Inserted(handler[h]) /\ HandlerSole(r) /\ \A g \in Slot \ {h} : ApartFrom(handler[g], r)
    <3>1. ~Inserted(handler[h])
      BY <2>1, KindFacts DEF Inserted
    <3>2. CASE r = Idle
      BY <3>1, <3>2, IdleSole
    <3>3. CASE r.do = "load" /\ r.at = "asked"
      BY <3>1, <3>3, KindFacts DEF HandlerSole, Shape, Inserted, ApartFrom, OnRows
    <3> QED
      BY <2>1, <3>2, <3>3
  <2> QED
    BY <1>0, <2>1, <2>2, SoleHandler
<1>3. CASE SaveDone(h, r)
  BY <1>0, <1>3, SoleSaved
<1>4. CASE DeleteDone(h, r)
  BY <1>0, <1>4, SoleDeleted
<1>5. CASE GenerateDone(h, r)
  BY <1>0, <1>5, SoleGenerated DEF GenerateDone
<1> QED
  BY <1>1, <1>2, <1>3, <1>4, <1>5 DEF HandlerStep

LEMMA SoleUnmounted ==
  ASSUME Types, Types', Sole, Unmounted
  PROVE  Sole'
<1>0. /\ UNCHANGED <<server, made, nextId, nextTemp>> /\ DOMAIN fields' = {} /\ page' # "shown"
      /\ \A h \in Slot : handler'[h] = Idle \/
            (handler'[h].do = handler[h].do /\ handler'[h].at = handler[h].at /\ handler'[h].todo = handler[h].todo
               /\ handler'[h].got = handler[h].got)
  BY DEF Unmounted, data
<1>1. StoreSole' /\ FieldsSole'
  BY <1>0 DEF Sole, StoreSole, FieldsSole, Lone
<1>2. ASSUME NEW h \in Slot PROVE HandlerSole(handler[h])'
  <2>1. CASE handler'[h] = Idle
    BY <2>1, IdleSole DEF HandlerSole, RowsSole, GotSole, LoadSole, Freed, InList, KeyOK
  <2>2. CASE handler'[h] # Idle
    <3>1. HandlerSole(handler[h])
      BY DEF Sole
    <3> QED
      BY <1>0, <2>2, <3>1 DEF HandlerSole, Shape, Inserted, RowsSole, GotSole, LoadSole, Freed, InList, KeyOK
  <2> QED
    BY <2>1, <2>2
<1>3. ASSUME NEW g \in Slot, NEW h \in Slot, g # h PROVE ApartFrom(handler'[g], handler'[h])
  <2>1. CASE handler'[g] = Idle \/ handler'[h] = Idle
    BY <2>1, IdleSole, ApartBack
  <2>2. CASE handler'[g] # Idle /\ handler'[h] # Idle
    <3>1. ApartFrom(handler[g], handler[h])
      BY <1>3 DEF Sole
    <3> QED
      BY <1>0, <2>2, <3>1 DEF ApartFrom, Inserted
  <2> QED
    BY <2>1, <2>2
<1>4. (\A g, h \in Slot : g # h => ApartFrom(handler[g], handler[h]))'
  BY <1>3 DEF ApartFrom, Inserted
<1> QED
  BY <1>1, <1>2, <1>4 DEF Sole

LEMMA InitSole == Init => Sole
<1> SUFFICES ASSUME Init PROVE Sole
  OBVIOUS
<1>1. /\ DOMAIN server = {} /\ (\A n \in 1 .. MaxRows : made[n] = 0) /\ DOMAIN fields = {}
      /\ \A h \in Slot : handler[h] = Idle
  BY DEF Init
<1> QED
  BY <1>1, IdleSole DEF Sole, StoreSole, FieldsSole, Lone

LEMMA NextSole ==
  ASSUME Patient, Types, Types', Turns, [Next]_vars, Sole
  PROVE  unsure' \/ Sole'
<1>1. CASE UNCHANGED vars
  BY <1>1 DEF vars, data, screen, Sole, StoreSole, FieldsSole, HandlerSole, RowsSole, GotSole, LoadSole, Freed, InList, KeyOK
<1>2. CASE Unmounted
  BY <1>2, SoleUnmounted
<1>3. CASE Gone
  <2>1. UNCHANGED <<made, nextId, page, fields, nextTemp, handler>> /\ DOMAIN server' \subseteq DOMAIN server
    BY <1>3 DEF Gone
  <2>2. Copied /\ -1 \notin Slot
    BY <2>1, UnchangedCopied, BuilderAssumption
  <2> QED
    BY <2>1, <2>2, RowsThere, SoleCopied
<1>4. CASE UserStep
  BY <1>4, SoleUser
<1>5. ASSUME NEW h \in Slot, Replied(h) PROVE unsure' \/ Sole'
  BY <1>5, SoleHeeded DEF Replied
<1>6. ASSUME NEW h \in Slot, NEW r \in Handler, Opened(h, r) PROVE Sole'
  <2>1. /\ handler' = [handler EXCEPT ![h] = r] /\ r.do = "load" /\ r.at = "asked" /\ page' # "shown"
        /\ UNCHANGED <<server, made, nextId, fields, nextTemp>> /\ handler[h] = Idle
    BY <1>6 DEF Opened, Began, data
  <2>2. ~Inserted(handler[h]) /\ HandlerSole(r) /\ \A g \in Slot \ {h} : ApartFrom(handler[g], r)
    BY <2>1, IdleSole, KindFacts DEF HandlerSole, Shape, Inserted, ApartFrom, OnRows
  <2> QED
    BY <2>1, <2>2, SoleHandler
<1>7. ASSUME NEW h \in Slot, NEW r \in Handler, HandlerStep(h, r) PROVE Sole'
  BY <1>7, SoleContinue
<1> QED
  BY <1>1, <1>2, <1>3, <1>4, <1>5, <1>6, <1>7, Steps

SoleInv == ~unsure => Sole

\* Once an answer was lost, it stays unsure.
LEMMA Unsure == ASSUME [Next]_vars, ~unsure' PROVE ~unsure
  BY DEF Next, vars, Open, Leave, GoUpload, DeleteBlueprint, addRow, saveAllUnsaved, handleGenerate, handleTest,
         updateMeta, updateRow, saveRow, deleteRow, moveRow, Unmount, Serve, Refuse, Unheard, Continue

LEMMA SoleAlways ==
  ASSUME Patient
  PROVE  Spec => [](Types /\ Turns /\ SoleInv)
<1>1. Init => SoleInv
  BY InitSole DEF SoleInv
<1>2. Types /\ Types' /\ Turns /\ SoleInv /\ [Next]_vars => SoleInv'
  BY NextSole, Unsure DEF SoleInv
<1>3. Spec => [](Types /\ Turns)
  BY TurnsAlways
<1>4. (Types /\ Turns /\ SoleInv) /\ Types' /\ [Next]_vars => SoleInv'
  BY <1>2
<1> QED
  BY <1>1, <1>3, <1>4, PTL DEF Spec

-----------------------------------------------------------------------------
(* What the page shows is what is stored, but for the answers the page has *)
(* not taken in yet.                                                       *)

Listing(id)  == \E i \in DOMAIN fields : fields[i].id = id
Leaves(r, id)  == r.do = "delete" /\ r.at = "ok" /\ r.todo[1].id = id
Arrives(r, id) == Inserted(r) /\ r.got.rows[1].id = id
Leaving(id)  == \E h \in Slot : Leaves(handler[h], id)
Arriving(id) == \E h \in Slot : Arrives(handler[h], id)
MetaIn(r)    == r.do = "meta" /\ r.at = "ok"

LoadAgrees(r) ==
  r.do = "load" /\ r.at = "ok" =>
    /\ r.got.meta = stored
    /\ \A id \in 1 .. MaxFields : id \in DOMAIN server <=> \E i \in DOMAIN r.got.rows : r.got.rows[i].id = id

ListAgrees == \A id \in 1 .. MaxFields : id \in DOMAIN server <=> (Listing(id) /\ ~Leaving(id)) \/ Arriving(id)

MetaAgrees ==
  /\ \A h \in Slot : MetaIn(handler[h]) => handler[h].got.meta = stored
  /\ (\A h \in Slot : ~MetaIn(handler[h])) => shownMeta = stored

Agree ==
  /\ \A h \in Slot : LoadAgrees(handler[h])
  /\ page = "shown" => ListAgrees /\ MetaAgrees

\* A handler that holds nothing the page has not taken in.
Plain(r) == (r.do \in {"load", "meta", "delete"} => r.at # "ok") /\ ~Inserted(r)

LEMMA PlainFacts ==
  ASSUME NEW r, Plain(r)
  PROVE  /\ \A id : ~Leaves(r, id) /\ ~Arrives(r, id)
         /\ ~MetaIn(r) /\ (r.do = "load" => r.at # "ok")
  BY DEF Plain, Leaves, Arrives, MetaIn

LEMMA AskedPlain ==
  ASSUME NEW r, r.at = "asked" \/ r.at = "no" \/ r = Idle
  PROVE  Plain(r)
  BY IdleSole, Values DEF Plain, Inserted

\* One handler changes, and says nothing of what is stored.
LEMMA AgreeSame ==
  ASSUME Agree, DOMAIN server' = DOMAIN server, UNCHANGED stored, NEW h, NEW r,
         \A g \in Slot \ {h} : handler'[g] = handler[g],
         h \in Slot => handler'[h] = r /\ Plain(r) /\ (page' = "shown" => Plain(handler[h])),
         page' = "shown" => page = "shown" /\ UNCHANGED shownMeta /\ \A id \in 1 .. MaxFields : Listing(id)' <=> Listing(id)
  PROVE  Agree'
<1>1. (\A g \in Slot : LoadAgrees(handler[g]))'
  <2> SUFFICES ASSUME NEW g \in Slot PROVE LoadAgrees(handler[g])'
    OBVIOUS
  <2>1. CASE g = h
    BY <2>1, PlainFacts DEF LoadAgrees
  <2>2. CASE g # h
    BY <2>2 DEF Agree, LoadAgrees
  <2> QED
    BY <2>1, <2>2
<1>2. ASSUME page' = "shown" PROVE ListAgrees'
  <2>1. \A g \in Slot : \A id : /\ Leaves(handler'[g], id) <=> Leaves(handler[g], id)
                                /\ Arrives(handler'[g], id) <=> Arrives(handler[g], id)
    BY <1>2, PlainFacts
  <2>2. \A id : (Leaving(id)' <=> Leaving(id)) /\ (Arriving(id)' <=> Arriving(id))
    BY <2>1 DEF Leaving, Arriving, Leaves, Arrives, Inserted
  <2>3. ListAgrees
    BY <1>2 DEF Agree
  <2> QED
    BY <1>2, <2>2, <2>3 DEF ListAgrees
<1>3. ASSUME page' = "shown" PROVE MetaAgrees'
  <2>1. \A g \in Slot : (MetaIn(handler'[g]) <=> MetaIn(handler[g])) /\ (MetaIn(handler[g]) => handler'[g] = handler[g])
    BY <1>3, PlainFacts
  <2>2. MetaAgrees
    BY <1>3 DEF Agree
  <2> QED
    BY <1>3, <2>1, <2>2 DEF MetaAgrees, MetaIn
<1> QED
  BY <1>1, <1>2, <1>3 DEF Agree

\* Ids of the rows that are copied are the ids there were.
LEMMA SameListing ==
  ASSUME \A i \in DOMAIN fields' : (\E k \in DOMAIN fields : fields'[i].id = fields[k].id) \/ ~Saved(fields'[i]),
         \A k \in DOMAIN fields : (\E i \in DOMAIN fields' : fields'[i].id = fields[k].id) \/ ~Saved(fields[k]),
         NEW id \in 1 .. MaxFields
  PROVE  Listing(id)' <=> Listing(id)
<1>1. id # NoId
  BY DEF NoId
<1> QED
  BY <1>1 DEF Listing, Saved

LEMMA AgreeUser ==
  ASSUME Types, Types', Sole, Agree, UserStep
  PROVE  Agree'
<1>0. /\ UNCHANGED <<server, stored, page, shownMeta>> /\ page = "shown" /\ fields \in Seq(Row) /\ DOMAIN server' = DOMAIN server
  BY TypesParts DEF UserStep, Common, data, ListOK
<1>b. -1 \notin Slot
  BY BuilderAssumption
<1>1. ASSUME NEW h \in Slot, NEW r \in Handler,
             MetaBegun(h, r) \/ TestBegun(h, r) \/ GenerateBegun(h, r) \/ MoveBegun(h, r) \/ RowsBegun(h, r)
      PROVE  Agree'
  <2>1. handler[h] = Idle /\ handler' = [handler EXCEPT ![h] = r] /\ r.at = "asked"
    BY <1>1 DEF MetaBegun, TestBegun, GenerateBegun, MoveBegun, RowsBegun, Began
  <2>2. handler'[h] = r /\ Plain(r) /\ Plain(handler[h]) /\ \A g \in Slot \ {h} : handler'[g] = handler[g]
    BY <2>1, AskedPlain, TypesParts DEF HandlersOK
  <2>3. /\ \A i \in DOMAIN fields' : \E k \in DOMAIN fields : fields'[i].id = fields[k].id
        /\ \A k \in DOMAIN fields : \E i \in DOMAIN fields' : fields'[i].id = fields[k].id
    <3>1. CASE UNCHANGED fields
      BY <3>1
    <3>2. CASE MoveBegun(h, r)
      <4>1. PICK i \in DOMAIN fields : i + 1 \in DOMAIN fields /\ fields' = [fields EXCEPT ![i] = fields[i + 1], ![i + 1] = fields[i]]
        BY <3>2 DEF MoveBegun
      <4>2. /\ DOMAIN fields' = DOMAIN fields /\ fields'[i] = fields[i + 1] /\ fields'[i + 1] = fields[i]
            /\ \A j \in DOMAIN fields \ {i, i + 1} : fields'[j] = fields[j]
        BY <1>0, <4>1, SwapFacts
      <4> QED
        BY <4>1, <4>2
    <3> QED
      BY <1>1, <3>1, <3>2 DEF MetaBegun, TestBegun, GenerateBegun, RowsBegun
  <2>4. \A id \in 1 .. MaxFields : Listing(id)' <=> Listing(id)
    BY <2>3, SameListing
  <2> QED
    BY <1>0, <2>2, <2>4, AgreeSame
<1>2. CASE Typed
  <2>1. UNCHANGED handler /\ DOMAIN fields' = DOMAIN fields /\ \A i \in DOMAIN fields : fields'[i].id = fields[i].id
    BY <1>2 DEF Typed
  <2>2. \A id \in 1 .. MaxFields : Listing(id)' <=> Listing(id)
    BY <2>1 DEF Listing
  <2> QED
    BY <1>0, <1>b, <2>1, <2>2, AgreeSame
<1>3. CASE Added
  <2>1. /\ UNCHANGED handler /\ fields' = Append(fields, blankField(nextTemp, Blank, Len(fields)))
    BY <1>3 DEF Added
  <2>2. PICK row : row = blankField(nextTemp, Blank, Len(fields))
    OBVIOUS
  <2>3. ~Saved(row)
    BY <2>2 DEF blankField, Saved
  <2>4. /\ DOMAIN fields = 1 .. Len(fields) /\ DOMAIN fields' = 1 .. Len(fields) + 1 /\ Len(fields) \in Nat
        /\ fields'[Len(fields) + 1] = row /\ \A i \in DOMAIN fields : fields'[i] = fields[i]
    BY <1>0, <2>1, <2>2
  <2>5. \A id \in 1 .. MaxFields : Listing(id)' <=> Listing(id)
    <3>1. \A i \in DOMAIN fields' : i \in DOMAIN fields \/ i = Len(fields) + 1
      BY <2>4
    <3>2. \A i \in DOMAIN fields : i \in DOMAIN fields'
      BY <2>4
    <3> QED
      BY <2>3, <2>4, <3>1, <3>2, SameListing
  <2> QED
    BY <1>0, <1>b, <2>1, <2>5, AgreeSame
<1>4. CASE Dropped
  <2>1. UNCHANGED handler
    BY <1>4 DEF Dropped
  <2>2. PICK k \in DOMAIN fields : ~Saved(fields[k]) /\ fields' = Without(fields[k].key)
    BY <1>4 DEF Dropped
  <2>3. /\ \A j \in DOMAIN fields' : \E i \in DOMAIN fields : fields'[j] = fields[i]
        /\ \A i \in DOMAIN fields : fields[i].key # fields[k].key => \E j \in DOMAIN fields' : fields'[j] = fields[i]
    BY <1>0, <2>2, WithoutFacts
  <2>4. \A i \in DOMAIN fields : fields[i].key = fields[k].key => i = k
    BY DEF Sole, FieldsSole, Lone
  <2>5. \A id \in 1 .. MaxFields : Listing(id)' <=> Listing(id)
    BY <2>2, <2>3, <2>4, SameListing
  <2> QED
    BY <1>0, <1>b, <2>1, <2>5, AgreeSame
<1> QED
  BY <1>1, <1>2, <1>3, <1>4 DEF UserStep

LEMMA HeldThen ==
  \A id : /\ Leaving(id)' <=> \E g \in Slot : Leaves(handler'[g], id)
          /\ Arriving(id)' <=> \E g \in Slot : Arrives(handler'[g], id)
  BY DEF Leaving, Arriving, Leaves, Arrives, Inserted

\* The answers the server gives.
LEMMA AgreeHeeded ==
  ASSUME Types, Types', Turns, Sole, Agree, exists, NEW h \in Slot, NEW r \in Handler, Echo(h, r), Heeded(h, r)
  PROVE  Agree'
<1>0. /\ handler[h] # Idle /\ handler[h].at = "asked" /\ r.do = handler[h].do /\ r.todo = handler[h].todo
      /\ UNCHANGED <<page, fields, shownMeta>> /\ handler[h].do # "idle"
  BY SomeHandler DEF Echo, screen
<1>1. handler'[h] = r /\ \A g \in Slot \ {h} : handler'[g] = handler[g]
  BY TypesParts DEF Echo, HandlersOK
<1>2. Plain(handler[h])
  BY <1>0, AskedPlain
<1>3. \A id \in 1 .. MaxFields : Listing(id)' <=> Listing(id)
  BY <1>0 DEF Listing
<1>4. ASSUME Plain(r), DOMAIN server' = DOMAIN server, UNCHANGED stored PROVE Agree'
  BY <1>0, <1>1, <1>2, <1>3, <1>4, AgreeSame
<1>5. CASE Failed(h, r)
  <2>1. Plain(r) /\ UNCHANGED <<server, stored>>
    BY <1>5, AskedPlain DEF Failed, data
  <2> QED
    BY <1>4, <2>1
<1>6. CASE NothingStored(h, r)
  <2>1. Plain(r) /\ UNCHANGED <<server, stored>>
    BY <1>0, <1>6, KindFacts DEF NothingStored, data, Plain, Inserted
  <2> QED
    BY <1>4, <2>1
<1>7. CASE Changed(h, r)
  <2>1. handler[h].todo[1].id \in 1 .. MaxFields /\ handler[h].do \in Persist /\ DOMAIN server' = DOMAIN server /\ UNCHANGED stored
    BY <1>7, TypesParts DEF Changed, DataOK
  <2>2. Saved(handler[h].todo[1])
    BY <2>1, BoundsNat DEF Saved, NoId
  <2>3. Plain(r)
    BY <1>0, <2>1, <2>2, KindFacts DEF Plain, Inserted
  <2> QED
    BY <1>4, <2>1, <2>3
<1>8. \A g \in Slot : g # h /\ handler[h].do \in {"load", "meta"} \cup OnRows => handler[g].do # "load"
  BY <1>0, KindFacts DEF Turns, OnRows
<1>9. CASE LoadServed(h, r)
  <2>0. r.do = "load" /\ r.at = "ok" /\ UNCHANGED <<server, stored>>
    BY <1>0, <1>9 DEF LoadServed, data
  <2>1. LoadAgrees(r)'
    <3>1. PICK s \in _ordered_fields :
           /\ DOMAIN r.got.rows = 1 .. Cardinality(DOMAIN server)
           /\ \A i \in DOMAIN r.got.rows : s[i] \in DOMAIN server /\ r.got.rows[i] = FromServer(s[i], server[s[i]])
           /\ r.got.meta = stored
      BY <1>9 DEF LoadServed, Listed
    <3>2. \A id, field : FromServer(id, field).id = id
      BY DEF FromServer
    <3>3. \A i \in DOMAIN r.got.rows : r.got.rows[i].id = s[i] /\ s[i] \in DOMAIN server
      BY <3>1, <3>2
    <3>4. \A id \in DOMAIN server : \E i \in DOMAIN r.got.rows : s[i] = id
      BY <3>1 DEF _ordered_fields, Bijection, Surjection
    <3> QED
      BY <2>0, <3>1, <3>3, <3>4 DEF LoadAgrees
  <2>2. (\A g \in Slot : LoadAgrees(handler[g]))'
    BY <1>1, <2>0, <2>1 DEF Agree, LoadAgrees
  <2>3. ~Inserted(r) /\ ~MetaIn(r) /\ \A id : ~Leaves(r, id) /\ ~Arrives(r, id)
    BY <2>0, KindFacts DEF Inserted, MetaIn, Leaves, Arrives
  <2>4. page = "shown" => ListAgrees'
    <3>1. \A id : (Leaving(id)' <=> Leaving(id)) /\ (Arriving(id)' <=> Arriving(id))
      <4>1. \A g \in Slot : \A id : /\ Leaves(handler'[g], id) <=> Leaves(handler[g], id)
                                    /\ Arrives(handler'[g], id) <=> Arrives(handler[g], id)
        BY <1>1, <1>2, <2>3, PlainFacts
      <4> QED
        BY <4>1, HeldThen DEF Leaving, Arriving
    <3> QED
      BY <1>3, <2>0, <3>1 DEF Agree, ListAgrees
  <2>5. page = "shown" => MetaAgrees'
    <3>1. \A g \in Slot : (MetaIn(handler'[g]) <=> MetaIn(handler[g])) /\ (MetaIn(handler[g]) => handler'[g] = handler[g])
      BY <1>1, <1>2, <2>3, PlainFacts
    <3> QED
      BY <1>0, <2>0, <3>1 DEF Agree, MetaAgrees, MetaIn
  <2> QED
    BY <1>0, <2>2, <2>4, <2>5 DEF Agree
<1>10. CASE MetaServed(h, r)
  <2>0. r.do = "meta" /\ r.at = "ok" /\ r.got.meta = stored' /\ UNCHANGED server /\ handler[h].do = "meta"
    BY <1>0, <1>10 DEF MetaServed
  <2>1. \A g \in Slot : handler'[g].do # "load"
    BY <1>1, <1>8, <2>0
  <2>2. \A g \in Slot : g # h => handler[g].do # "meta"
    BY <2>0 DEF Turns
  <2>3. ~Inserted(r) /\ \A id : ~Leaves(r, id) /\ ~Arrives(r, id)
    BY <2>0, KindFacts DEF Inserted, Leaves, Arrives
  <2>4. page = "shown" => ListAgrees'
    <3>1. \A id : (Leaving(id)' <=> Leaving(id)) /\ (Arriving(id)' <=> Arriving(id))
      <4>1. \A g \in Slot : \A id : /\ Leaves(handler'[g], id) <=> Leaves(handler[g], id)
                                    /\ Arrives(handler'[g], id) <=> Arrives(handler[g], id)
        BY <1>1, <1>2, <2>3, PlainFacts
      <4> QED
        BY <4>1, HeldThen DEF Leaving, Arriving
    <3> QED
      BY <1>3, <2>0, <3>1 DEF Agree, ListAgrees
  <2>5. MetaAgrees'
    BY <1>1, <2>0, <2>2 DEF MetaAgrees, MetaIn
  <2> QED
    BY <1>0, <2>1, <2>4, <2>5 DEF Agree, LoadAgrees
<1>11. CASE Created(h, r)
  <2>0. /\ r.do \in Persist /\ r.at = "ok" /\ ~Saved(r.todo[1]) /\ DOMAIN server' = DOMAIN server \cup {nextId} /\ UNCHANGED stored
        /\ r.got.rows[1].id = nextId /\ handler[h].do \in OnRows /\ nextId \in 1 .. MaxFields
    BY <1>0, <1>11 DEF Created, FromServer, Field, OnRows
  <2>1. \A g \in Slot : handler'[g].do # "load"
    BY <1>0, <1>1, <1>8, <2>0, KindFacts
  <2>2. ~MetaIn(r) /\ \A id : ~Leaves(r, id) /\ (Arrives(r, id) <=> id = nextId)
    BY <2>0, KindFacts DEF Inserted, Leaves, Arrives, MetaIn
  <2>3. \A id : (Leaving(id)' <=> Leaving(id)) /\ (Arriving(id)' <=> Arriving(id) \/ id = nextId)
    <3>1. \A g \in Slot : \A id : /\ Leaves(handler'[g], id) <=> Leaves(handler[g], id)
                                  /\ Arrives(handler'[g], id) <=> Arrives(handler[g], id) \/ (g = h /\ id = nextId)
      BY <1>1, <1>2, <2>2, PlainFacts
    <3> QED
      BY <3>1, HeldThen DEF Leaving, Arriving
  <2>4. page = "shown" => ListAgrees'
    <3> SUFFICES ASSUME page = "shown", NEW id \in 1 .. MaxFields
                 PROVE  id \in DOMAIN server' <=> (Listing(id)' /\ ~Leaving(id)') \/ Arriving(id)'
      BY DEF ListAgrees
    <3>1. id \in DOMAIN server <=> (Listing(id) /\ ~Leaving(id)) \/ Arriving(id)
      BY DEF Agree, ListAgrees
    <3> QED
      BY <1>3, <2>0, <2>3, <3>1
  <2>5. page = "shown" => MetaAgrees'
    <3>1. \A g \in Slot : (MetaIn(handler'[g]) <=> MetaIn(handler[g])) /\ (MetaIn(handler[g]) => handler'[g] = handler[g])
      BY <1>1, <1>2, <2>2, PlainFacts
    <3> QED
      BY <1>0, <2>0, <3>1 DEF Agree, MetaAgrees, MetaIn
  <2> QED
    BY <1>0, <2>1, <2>4, <2>5 DEF Agree, LoadAgrees
<1>12. CASE Removed(h, r)
  <2> DEFINE gone == handler[h].todo[1].id
  <2>0. /\ r.do = "delete" /\ r.at = "ok" /\ r.todo[1].id = gone /\ DOMAIN server' = DOMAIN server \ {gone} /\ UNCHANGED stored
        /\ handler[h].do \in OnRows /\ handler[h].do = "delete" /\ gone \in DOMAIN server
    BY <1>0, <1>12 DEF Removed, OnRows
  <2>1. \A g \in Slot : handler'[g].do # "load"
    BY <1>0, <1>1, <1>8, <2>0
  <2>2. ~MetaIn(r) /\ \A id : ~Arrives(r, id) /\ (Leaves(r, id) <=> id = gone)
    BY <2>0, KindFacts DEF Inserted, Leaves, Arrives, MetaIn
  <2>3. \A id : (Leaving(id)' <=> Leaving(id) \/ id = gone) /\ (Arriving(id)' <=> Arriving(id))
    <3>1. \A g \in Slot : \A id : /\ Leaves(handler'[g], id) <=> Leaves(handler[g], id) \/ (g = h /\ id = gone)
                                  /\ Arrives(handler'[g], id) <=> Arrives(handler[g], id)
      BY <1>1, <1>2, <2>2, PlainFacts
    <3> QED
      BY <3>1, HeldThen DEF Leaving, Arriving
  <2>4. page = "shown" => ~Arriving(gone)
    <3> SUFFICES ASSUME page = "shown", NEW g \in Slot, Arrives(handler[g], gone) PROVE FALSE
      BY DEF Arriving
    <3>1. 1 \in DOMAIN handler[h].todo
      BY <2>0, TodoFacts
    <3>2. PICK i \in DOMAIN fields : Same(fields[i], handler[h].todo[1])
      BY <2>0, <3>1, RowsThere
    <3>3. HandlerSole(handler[g])
      BY DEF Sole
    <3> QED
      BY <3>2, <3>3 DEF HandlerSole, Arrives, Same
  <2>5. page = "shown" => ListAgrees'
    <3> SUFFICES ASSUME page = "shown", NEW id \in 1 .. MaxFields
                 PROVE  id \in DOMAIN server' <=> (Listing(id)' /\ ~Leaving(id)') \/ Arriving(id)'
      BY DEF ListAgrees
    <3>1. id \in DOMAIN server <=> (Listing(id) /\ ~Leaving(id)) \/ Arriving(id)
      BY DEF Agree, ListAgrees
    <3>2. CASE id = gone
      BY <2>0, <2>3, <2>4, <3>2
    <3>3. CASE id # gone
      BY <1>3, <2>0, <2>3, <3>1, <3>3
    <3> QED
      BY <3>2, <3>3
  <2>6. page = "shown" => MetaAgrees'
    <3>1. \A g \in Slot : (MetaIn(handler'[g]) <=> MetaIn(handler[g])) /\ (MetaIn(handler[g]) => handler'[g] = handler[g])
      BY <1>1, <1>2, <2>2, PlainFacts
    <3> QED
      BY <1>0, <2>0, <3>1 DEF Agree, MetaAgrees, MetaIn
  <2> QED
    BY <1>0, <2>1, <2>5, <2>6 DEF Agree, LoadAgrees
<1> QED
  BY <1>5, <1>6, <1>7, <1>9, <1>10, <1>11, <1>12 DEF Heeded

\* What a handler does with its answer.
LEMMA AgreeLoaded ==
  ASSUME Types, Types', Turns, Agree, NEW h \in Slot, NEW r, Went(h, r), LoadDone(h, r)
  PROVE  Agree'
<1>0. /\ handler' = [handler EXCEPT ![h] = r] /\ r = Idle /\ handler[h].do = "load" /\ handler[h] # Idle
      /\ UNCHANGED <<server, stored>> /\ handler[h].at \in {"ok", "no"} /\ handler[h].on \in BOOLEAN
  BY AnsweredFacts DEF Went, LoadDone, data
<1>1. handler'[h] = r /\ \A g \in Slot \ {h} : handler'[g] = handler[g]
  BY <1>0, TypesParts DEF HandlersOK
<1>2. CASE ~Heard(h)
  <2>1. UNCHANGED <<fields, shownMeta>> /\ (page' = "shown" => page = "shown")
    BY <1>2 DEF LoadDone
  <2>2. page = "shown" => Plain(handler[h])
    <3>1. page = "shown" => handler[h].on
      BY <1>0 DEF Turns, Mounted
    <3> QED
      BY <1>0, <1>2, <3>1, AskedPlain DEF Heard, Shown
  <2>3. Plain(r)
    BY <1>0, AskedPlain
  <2>4. \A id \in 1 .. MaxFields : Listing(id)' <=> Listing(id)
    BY <2>1 DEF Listing
  <2> QED
    BY <1>0, <1>1, <2>1, <2>2, <2>3, <2>4, AgreeSame
<1>3. CASE Heard(h)
  <2>1. \A g \in Slot : handler'[g].do \in {"idle", "test"}
    <3>1. \A g \in Slot \ {h} : handler[g].do \in {"idle", "test"}
      BY <1>0 DEF Turns
    <3> QED
      BY <1>0, <1>1, <3>1, Values
  <2>2. /\ fields' = handler[h].got.rows /\ shownMeta' = handler[h].got.meta /\ LoadAgrees(handler[h])
        /\ handler[h].do = "load" /\ handler[h].at = "ok"
    BY <1>0, <1>3 DEF LoadDone, Heard, Agree
  <2>3. \A g \in Slot : ~MetaIn(handler'[g]) /\ \A id : ~Leaves(handler'[g], id) /\ ~Arrives(handler'[g], id)
    BY <2>1, KindFacts DEF MetaIn, Leaves, Arrives, Inserted
  <2>4. ListAgrees'
    <3>1. \A id \in 1 .. MaxFields : id \in DOMAIN server <=> Listing(id)'
      BY <2>2 DEF LoadAgrees, Listing
    <3>2. \A id : ~Leaving(id)' /\ ~Arriving(id)'
      BY <2>3, HeldThen
    <3> QED
      BY <1>0, <3>1, <3>2 DEF ListAgrees
  <2>5. MetaAgrees'
    BY <1>0, <2>2, <2>3 DEF MetaAgrees, MetaIn, LoadAgrees
  <2>6. (\A g \in Slot : LoadAgrees(handler[g]))'
    BY <2>1 DEF LoadAgrees
  <2> QED
    BY <2>4, <2>5, <2>6 DEF Agree
<1> QED
  BY <1>2, <1>3

LEMMA AgreeMetaDone ==
  ASSUME Types, Types', Turns, Agree, NEW h \in Slot, NEW r, Went(h, r), MetaDone(h, r)
  PROVE  Agree'
<1>0. /\ handler' = [handler EXCEPT ![h] = r] /\ r = Idle /\ handler[h].do = "meta" /\ handler[h] # Idle
      /\ UNCHANGED <<server, stored, page, fields>> /\ handler[h].at \in {"ok", "no"} /\ handler[h].on \in BOOLEAN
  BY AnsweredFacts DEF Went, MetaDone, data
<1>1. handler'[h] = r /\ \A g \in Slot \ {h} : handler'[g] = handler[g]
  BY <1>0, TypesParts DEF HandlersOK
<1>2. Plain(r)
  BY <1>0, AskedPlain
<1>3. (\A g \in Slot : LoadAgrees(handler[g]))'
  <2> SUFFICES ASSUME NEW g \in Slot PROVE LoadAgrees(handler[g])'
    OBVIOUS
  <2>1. CASE g = h
    BY <1>1, <1>2, <2>1, PlainFacts DEF LoadAgrees
  <2>2. CASE g # h
    BY <1>0, <1>1, <2>2 DEF Agree, LoadAgrees
  <2> QED
    BY <2>1, <2>2
<1>4. ASSUME page = "shown" PROVE ListAgrees'
  <2>1. \A id : ~Leaves(handler[h], id) /\ ~Arrives(handler[h], id)
    BY <1>0, KindFacts DEF Leaves, Arrives, Inserted
  <2>2. \A g \in Slot : \A id : /\ Leaves(handler'[g], id) <=> Leaves(handler[g], id)
                                /\ Arrives(handler'[g], id) <=> Arrives(handler[g], id)
    BY <1>1, <1>2, <2>1, PlainFacts
  <2>3. \A id : (Leaving(id)' <=> Leaving(id)) /\ (Arriving(id)' <=> Arriving(id))
    BY <2>2, HeldThen DEF Leaving, Arriving
  <2> QED
    BY <1>0, <1>4, <2>3 DEF Agree, ListAgrees, Listing
<1>5. ASSUME page = "shown" PROVE MetaAgrees'
  <2>0. MetaAgrees
    BY <1>5 DEF Agree
  <2>1. \A g \in Slot : g # h => handler[g].do # "meta"
    BY <1>0 DEF Turns
  <2>2. \A g \in Slot : ~MetaIn(handler'[g])
    BY <1>1, <1>2, <2>1, PlainFacts DEF MetaIn
  <2>3. shownMeta' = stored'
    <3>1. CASE handler[h].at = "ok"
      <4>1. Heard(h)
        BY <1>0, <1>5, <3>1, OnShown DEF Heard, Shown
      <4>2. MetaIn(handler[h])
        BY <1>0, <3>1 DEF MetaIn
      <4> QED
        BY <1>0, <2>0, <4>1, <4>2 DEF MetaDone, MetaAgrees
    <3>2. CASE handler[h].at = "no"
      <4>1. \A g \in Slot : ~MetaIn(handler[g])
        BY <2>1, <3>2 DEF MetaIn
      <4> QED
        BY <1>0, <2>0, <3>2, <4>1 DEF MetaDone, MetaAgrees, Heard
    <3> QED
      BY <1>0, <3>1, <3>2
  <2> QED
    BY <2>2, <2>3 DEF MetaAgrees, MetaIn
<1> QED
  BY <1>0, <1>3, <1>4, <1>5 DEF Agree

\* A row is taken out, or its id filled in.
LEMMA AgreeListed ==
  ASSUME Types, Types', Turns, Sole, Agree, NEW h \in Slot, NEW r, handler' = [handler EXCEPT ![h] = r], Plain(r),
         UNCHANGED <<server, stored, page, shownMeta>>, page = "shown", handler[h].do \in OnRows,
         \A id \in 1 .. MaxFields : (Listing(id)' /\ ~Leaving(id)') \/ Arriving(id)' <=> (Listing(id) /\ ~Leaving(id)) \/ Arriving(id)
  PROVE  Agree'
<1>1. handler'[h] = r /\ \A g \in Slot \ {h} : handler'[g] = handler[g]
  BY TypesParts DEF HandlersOK
<1>2. (\A g \in Slot : LoadAgrees(handler[g]))'
  <2> SUFFICES ASSUME NEW g \in Slot PROVE LoadAgrees(handler[g])'
    OBVIOUS
  <2>1. CASE g = h
    BY <1>1, <2>1, PlainFacts DEF LoadAgrees
  <2>2. CASE g # h
    BY <1>1, <2>2 DEF Agree, LoadAgrees
  <2> QED
    BY <2>1, <2>2
<1>3. ListAgrees'
  BY DEF Agree, ListAgrees
<1>4. MetaAgrees'
  <2>1. ~MetaIn(handler[h])
    BY KindFacts DEF MetaIn, OnRows
  <2>2. \A g \in Slot : (MetaIn(handler'[g]) <=> MetaIn(handler[g])) /\ (MetaIn(handler[g]) => handler'[g] = handler[g])
    BY <1>1, <2>1, PlainFacts
  <2> QED
    BY <2>2 DEF Agree, MetaAgrees, MetaIn
<1> QED
  BY <1>2, <1>3, <1>4 DEF Agree

LEMMA AgreeSaved ==
  ASSUME Types, Types', Turns, Sole, Agree, NEW h \in Slot, NEW r, Went(h, r), SaveDone(h, r)
  PROVE  Agree'
<1> DEFINE old == handler[h].todo[1]
           saved == handler[h].got.rows[1]
<1>0. /\ handler' = [handler EXCEPT ![h] = r] /\ handler[h].do \in Persist /\ handler[h].do \in OnRows /\ handler[h] # Idle
      /\ UNCHANGED <<server, stored, page, shownMeta>> /\ handler[h].at \in {"ok", "no"}
      /\ handler[h].do \notin {"load", "meta", "delete"}
  BY KindFacts DEF Went, SaveDone, data, OnRows
<1>1. handler'[h] = r /\ \A g \in Slot \ {h} : handler'[g] = handler[g]
  BY <1>0, TypesParts DEF HandlersOK
<1>2. Plain(r)
  BY AskedPlain DEF SaveDone
<1>3. CASE page = "shown" /\ handler[h].at = "ok"
  <2>1. Filled(h)
    <3>1. Heard(h)
      BY <1>0, <1>3, OnShown, AnsweredFacts DEF Heard, Shown
    <3> QED
      BY <3>1 DEF SaveDone
  <2>2. HandlerSole(handler[h]) /\ 1 \in DOMAIN handler[h].todo /\ GotSole(handler[h]) /\ Saved(saved)
    BY <1>0, <1>3, TodoFacts, AnsweredFacts DEF Sole, HandlerSole
  <2>3. PICK i0 \in DOMAIN fields : Same(fields[i0], old)
    BY <1>0, <1>3, <2>2, RowsThere
  <2>4. \A i \in DOMAIN fields : fields[i].key = old.key <=> i = i0
    BY <2>3 DEF Same, Sole, FieldsSole, Lone
  <2>5. /\ DOMAIN fields' = DOMAIN fields /\ fields'[i0].id = saved.id
        /\ \A i \in DOMAIN fields : i # i0 => fields'[i] = fields[i]
    BY <2>1, <2>4 DEF Filled
  <2>6. CASE Saved(old)
    <3>1. saved.id = fields[i0].id
      BY <2>2, <2>3, <2>6 DEF GotSole, Same
    <3>2. \A id \in 1 .. MaxFields : Listing(id)' <=> Listing(id)
      BY <2>5, <3>1, SameListing
    <3>3. Plain(handler[h])
      BY <1>0, <2>6 DEF Plain, Inserted
    <3> QED
      BY <1>0, <1>1, <1>2, <3>2, <3>3, AgreeSame
  <2>7. CASE ~Saved(old)
    <3>1. Inserted(handler[h]) /\ \A id : (Arrives(handler[h], id) <=> id = saved.id) /\ ~Leaves(handler[h], id)
      BY <1>0, <1>3, <2>7 DEF Inserted, Arrives, Leaves
    <3>2. \A g \in Slot : \A id : /\ Leaves(handler'[g], id) <=> Leaves(handler[g], id)
                                  /\ Arrives(handler[g], id) <=> Arrives(handler'[g], id) \/ (g = h /\ id = saved.id)
      BY <1>1, <1>2, <3>1, PlainFacts
    <3>3. \A id : (Leaving(id)' <=> Leaving(id)) /\ (Arriving(id) <=> Arriving(id)' \/ id = saved.id)
      BY <3>2, HeldThen DEF Leaving, Arriving
    <3>4. \A id \in 1 .. MaxFields : Listing(id)' <=> Listing(id) \/ id = saved.id
      <4>1. \A id \in 1 .. MaxFields : fields[i0].id # id
        BY <2>3, <2>7 DEF Same, Saved, NoId
      <4> QED
        BY <2>5, <4>1 DEF Listing
    <3>5. ~Leaving(saved.id)
      <4> SUFFICES ASSUME NEW g \in Slot, Leaves(handler[g], saved.id) PROVE FALSE
        BY DEF Leaving
      <4>1. handler[g].do \in OnRows /\ 1 \in DOMAIN handler[g].todo
        BY TodoFacts DEF Leaves, OnRows
      <4>2. PICK i \in DOMAIN fields : Same(fields[i], handler[g].todo[1])
        BY <1>3, <4>1, RowsThere
      <4> QED
        BY <2>2, <3>1, <4>2 DEF HandlerSole, Leaves, Same
    <3>6. \A id \in 1 .. MaxFields :
            (Listing(id)' /\ ~Leaving(id)') \/ Arriving(id)' <=> (Listing(id) /\ ~Leaving(id)) \/ Arriving(id)
      BY <3>3, <3>4, <3>5
    <3> QED
      BY <1>0, <1>2, <1>3, <3>6, AgreeListed
  <2> QED
    BY <2>6, <2>7
<1>4. CASE ~(page = "shown" /\ handler[h].at = "ok")
  <2>1. page = "shown" => Plain(handler[h])
    BY <1>0, <1>4, AskedPlain
  <2>2. page = "shown" => UNCHANGED fields
    BY <1>4 DEF SaveDone, Heard
  <2>3. page = "shown" => \A id \in 1 .. MaxFields : Listing(id)' <=> Listing(id)
    BY <2>2 DEF Listing
  <2> QED
    BY <1>0, <1>1, <1>2, <2>1, <2>3, AgreeSame
<1> QED
  BY <1>3, <1>4

LEMMA AgreeDeleted ==
  ASSUME Types, Types', Turns, Sole, Agree, NEW h \in Slot, NEW r, Went(h, r), DeleteDone(h, r)
  PROVE  Agree'
<1> DEFINE gone == handler[h].todo[1].id
<1>0. /\ handler' = [handler EXCEPT ![h] = r] /\ handler[h].do = "delete" /\ handler[h].do \in OnRows /\ handler[h] # Idle
      /\ UNCHANGED <<server, stored, page, shownMeta>> /\ handler[h].at \in {"ok", "no"} /\ r = Idle
  BY DEF Went, DeleteDone, data, OnRows
<1>1. handler'[h] = r /\ \A g \in Slot \ {h} : handler'[g] = handler[g]
  BY <1>0, TypesParts DEF HandlersOK
<1>2. Plain(r)
  BY <1>0, AskedPlain
<1>3. CASE page = "shown" /\ handler[h].at = "ok"
  <2>1. fields' = Without(handler[h].todo[1].key)
    <3>1. Heard(h)
      BY <1>0, <1>3, OnShown, AnsweredFacts DEF Heard, Shown
    <3> QED
      BY <3>1 DEF DeleteDone
  <2>2. 1 \in DOMAIN handler[h].todo
    BY <1>0, TodoFacts
  <2>3. PICK i0 \in DOMAIN fields : Same(fields[i0], handler[h].todo[1])
    BY <1>0, <1>3, <2>2, RowsThere
  <2>4. \A i \in DOMAIN fields : fields[i].key = handler[h].todo[1].key <=> i = i0
    BY <2>3 DEF Same, Sole, FieldsSole, Lone
  <2>5. Saved(fields[i0]) /\ fields[i0].id = gone
    BY <1>0, <2>3, AnsweredFacts DEF HandlerOK, Same, Saved
  <2>6. /\ \A j \in DOMAIN fields' : \E i \in DOMAIN fields : i # i0 /\ fields'[j] = fields[i]
        /\ \A i \in DOMAIN fields : i # i0 => \E j \in DOMAIN fields' : fields'[j] = fields[i]
    <3>1. fields \in Seq(Row)
      BY TypesParts DEF ListOK
    <3> QED
      BY <2>1, <2>4, <3>1, WithoutFacts
  <2>7. \A i \in DOMAIN fields : i # i0 => fields[i].id # gone
    BY <2>5 DEF Sole, FieldsSole
  <2>8. \A id \in 1 .. MaxFields : Listing(id)' <=> Listing(id) /\ id # gone
    BY <2>5, <2>6, <2>7 DEF Listing
  <2>9. \A id : (Leaves(handler[h], id) <=> id = gone) /\ ~Arrives(handler[h], id)
    BY <1>0, <1>3, KindFacts DEF Inserted, Arrives, Leaves
  <2>10. \A g \in Slot : \A id : /\ Leaves(handler[g], id) <=> Leaves(handler'[g], id) \/ (g = h /\ id = gone)
                                 /\ Arrives(handler[g], id) <=> Arrives(handler'[g], id)
    BY <1>1, <1>2, <2>9, PlainFacts
  <2>11. \A id : (Leaving(id) <=> Leaving(id)' \/ id = gone) /\ (Arriving(id) <=> Arriving(id)')
    BY <2>10, HeldThen DEF Leaving, Arriving
  <2>12. \A id \in 1 .. MaxFields :
            (Listing(id)' /\ ~Leaving(id)') \/ Arriving(id)' <=> (Listing(id) /\ ~Leaving(id)) \/ Arriving(id)
    BY <2>8, <2>11
  <2> QED
    BY <1>0, <1>2, <1>3, <2>12, AgreeListed
<1>4. CASE ~(page = "shown" /\ handler[h].at = "ok")
  <2>1. page = "shown" => Plain(handler[h])
    BY <1>0, <1>4, AskedPlain
  <2>2. page = "shown" => UNCHANGED fields
    BY <1>4 DEF DeleteDone, Heard
  <2>3. page = "shown" => \A id \in 1 .. MaxFields : Listing(id)' <=> Listing(id)
    BY <2>2 DEF Listing
  <2> QED
    BY <1>0, <1>1, <1>2, <2>1, <2>3, AgreeSame
<1> QED
  BY <1>3, <1>4

LEMMA AgreeRest ==
  ASSUME Types, Types', Turns, Sole, Agree, NEW h \in Slot, NEW r \in Handler, HandlerStep(h, r),
         TestDone(h, r) \/ MoveDone(h, r) \/ GenerateDone(h, r)
  PROVE  Agree'
<1>0. /\ handler' = [handler EXCEPT ![h] = r] /\ UNCHANGED <<server, stored, page, shownMeta>> /\ handler[h] # Idle
      /\ handler[h].do \in {"test", "move", "generate"} /\ (r = Idle \/ r.at = "asked")
  BY DEF HandlerStep, Went, TestDone, MoveDone, GenerateDone, Grown, data
<1>1. handler'[h] = r /\ \A g \in Slot \ {h} : handler'[g] = handler[g]
  BY <1>0, TypesParts DEF HandlersOK
<1>2. Plain(r) /\ Plain(handler[h])
  <2>1. Plain(handler[h])
    BY <1>0, KindFacts DEF Plain, Inserted
  <2> QED
    BY <1>0, <2>1, AskedPlain
<1>3. \A id \in 1 .. MaxFields : Listing(id)' <=> Listing(id)
  <2>1. CASE UNCHANGED fields
    BY <2>1 DEF Listing
  <2>2. CASE GenerateDone(h, r) /\ ~UNCHANGED fields
    <3>1. PICK new \in Seq(Row), todo \in Seq(Row) : Grown(h, new, todo, r)
      BY <2>2 DEF GenerateDone
    <3>2. fields' = fields \o new /\ fields \in Seq(Row)
      BY <2>2, <3>1, TypesParts DEF Grown, ListOK
    <3>3. /\ DOMAIN fields = 1 .. Len(fields) /\ DOMAIN fields' = 1 .. Len(fields) + Len(new) /\ Len(new) \in Nat
          /\ Len(fields) \in Nat /\ \A i \in DOMAIN fields : fields'[i] = fields[i]
          /\ \A i \in DOMAIN new : fields'[Len(fields) + i] = new[i]
      BY <3>2
    <3>4. \A i \in DOMAIN fields' : i \in DOMAIN fields \/ \E k \in DOMAIN new : i = Len(fields) + k
      <4> SUFFICES ASSUME NEW i \in DOMAIN fields', i \notin DOMAIN fields PROVE \E k \in DOMAIN new : i = Len(fields) + k
        OBVIOUS
      <4>1. i - Len(fields) \in DOMAIN new /\ i = Len(fields) + (i - Len(fields))
        BY <3>3
      <4> QED
        BY <4>1
    <3>5. \A k \in DOMAIN new : ~Saved(new[k])
      BY <3>1 DEF Grown, Saved
    <3>6. \A i \in DOMAIN fields : i \in DOMAIN fields'
      BY <3>3
    <3> QED
      BY <3>3, <3>4, <3>5, <3>6, SameListing
  <2> QED
    BY <2>1, <2>2 DEF TestDone, MoveDone
<1> QED
  BY <1>0, <1>1, <1>2, <1>3, AgreeSame

LEMMA AgreeUnmounted ==
  ASSUME Types, Agree, Unmounted
  PROVE  Agree'
<1>1. ASSUME NEW h \in Slot PROVE LoadAgrees(handler[h])'
  <2>1. CASE handler'[h] = Idle
    BY <2>1, Values DEF LoadAgrees
  <2>2. CASE handler'[h] # Idle
    BY <2>2 DEF Unmounted, Agree, LoadAgrees, data
  <2> QED
    BY <2>1, <2>2
<1>2. page' # "shown"
  BY DEF Unmounted
<1> QED
  BY <1>1, <1>2 DEF Agree

AgreeInv == exists /\ ~unsure => Agree

LEMMA InitAgree == Init => AgreeInv
  BY Values DEF Init, AgreeInv, Agree, LoadAgrees

\* A blueprint that is gone does not come back.
LEMMA Exists ==
  ASSUME [Next]_vars, exists'
  PROVE  exists
<1>1. ASSUME NEW h \in Slot, Serve(h) \/ Refuse(h) \/ Unheard(h) PROVE exists' = exists
  BY <1>1 DEF Serve, Refuse, Unheard, Effect, update_blueprint, create_field, update_field, delete_field, get_blueprint,
         reorder_fields, generate_fields, test_blueprint, NotFound, data
<1>2. ASSUME NEW h \in Slot, Continue(h) PROVE exists' = exists
  BY <1>2 DEF Continue, data
<1>3. CASE UNCHANGED vars
  BY <1>3 DEF vars, data
<1> QED
  BY <1>1, <1>2, <1>3 DEF Next, Open, Leave, GoUpload, DeleteBlueprint, addRow, saveAllUnsaved, handleGenerate, handleTest,
         updateMeta, updateRow, saveRow, deleteRow, moveRow, Unmount, data

LEMMA NextAgree ==
  ASSUME Patient, Types, Types', Turns, SoleInv, AgreeInv, [Next]_vars
  PROVE  AgreeInv'
<1> SUFFICES ASSUME exists', ~unsure' PROVE Agree'
  BY DEF AgreeInv
<1>0. exists /\ ~unsure /\ Sole /\ Agree
  BY Exists, Unsure DEF SoleInv, AgreeInv
<1>1. CASE UNCHANGED vars
  <2>1. -1 \notin Slot
    BY BuilderAssumption
  <2>2. UNCHANGED <<server, stored, page, shownMeta, fields, handler>>
    BY <1>1 DEF vars, data, screen
  <2>3. \A id \in 1 .. MaxFields : Listing(id)' <=> Listing(id)
    BY <2>2 DEF Listing
  <2> QED
    BY <1>0, <2>1, <2>2, <2>3, AgreeSame
<1>2. CASE Unmounted
  BY <1>0, <1>2, AgreeUnmounted
<1>3. CASE Gone
  BY <1>3 DEF Gone
<1>4. CASE UserStep
  BY <1>0, <1>4, AgreeUser
<1>5. ASSUME NEW h \in Slot, Replied(h) PROVE Agree'
  <2>1. PICK r \in Handler : Echo(h, r) /\ Heeded(h, r)
    BY <1>5 DEF Replied
  <2> QED
    BY <1>0, <2>1, AgreeHeeded
<1>6. ASSUME NEW h \in Slot, NEW r \in Handler, Opened(h, r) PROVE Agree'
  <2>1. /\ handler' = [handler EXCEPT ![h] = r] /\ r.at = "asked" /\ page' # "shown" /\ UNCHANGED <<server, stored>>
    BY <1>6 DEF Opened, Began, data
  <2>2. handler'[h] = r /\ Plain(r) /\ \A g \in Slot \ {h} : handler'[g] = handler[g]
    BY <2>1, AskedPlain, TypesParts DEF HandlersOK
  <2> QED
    BY <1>0, <2>1, <2>2, AgreeSame
<1>7. ASSUME NEW h \in Slot, NEW r \in Handler, HandlerStep(h, r) PROVE Agree'
  BY <1>0, <1>7, AgreeLoaded, AgreeMetaDone, AgreeSaved, AgreeDeleted, AgreeRest DEF HandlerStep
<1> QED
  BY <1>1, <1>2, <1>3, <1>4, <1>5, <1>6, <1>7, Steps

LEMMA AgreeAlways ==
  ASSUME Patient
  PROVE  Spec => [](Types /\ Turns /\ SoleInv /\ AgreeInv)
<1>1. (Types /\ Turns /\ SoleInv) /\ Types' /\ AgreeInv /\ [Next]_vars => AgreeInv'
  BY NextAgree
<1> QED
  BY <1>1, InitAgree, SoleAlways, PTL DEF Spec

\* Once nothing is under way for the list or the columns, the page shows the fields the
\* blueprint has, no more and no fewer, and its columns (load, saveRow, saveAllUnsaved,
\* deleteRow, moveRow, handleGenerate and updateMeta against the endpoints), when no answer
\* was lost, the blueprint is there, and the user was patient.
THEOREM ScreenAlwaysAgrees ==
  ASSUME Patient
  PROVE  Spec => []ScreenAgrees
<1>1. ASSUME Types, AgreeInv PROVE ScreenAgrees
  <2> SUFFICES ASSUME page = "shown", exists, ~unsure, ~Working(OnList \cup {"meta"})
               PROVE  ShownIds = DOMAIN server /\ shownMeta = stored
    BY DEF ScreenAgrees
  <2>1. ListAgrees /\ MetaAgrees
    BY <1>1 DEF AgreeInv, Agree
  <2>2. \A h \in Slot : ~MetaIn(handler[h]) /\ \A id : ~Leaves(handler[h], id) /\ ~Arrives(handler[h], id)
    BY KindFacts DEF Working, MetaIn, Leaves, Arrives, Inserted
  <2>3. shownMeta = stored
    BY <2>1, <2>2 DEF MetaAgrees
  <2>4. \A id \in 1 .. MaxFields : id \in DOMAIN server <=> Listing(id)
    BY <2>1, <2>2 DEF ListAgrees, Leaving, Arriving
  <2>5. \A i \in DOMAIN fields : fields[i].id # NoId => fields[i].id \in 1 .. MaxFields
    <3> SUFFICES ASSUME NEW i \in DOMAIN fields, fields[i].id # NoId PROVE fields[i].id \in 1 .. MaxFields
      OBVIOUS
    <3>1. fields[i].id \in 0 .. MaxFields
      BY <1>1, FieldFacts DEF Row
    <3> QED
      BY <3>1, BoundsNat DEF NoId
  <2>6. DOMAIN server \subseteq 1 .. MaxFields /\ NoId \notin 1 .. MaxFields
    BY <1>1, TypesParts DEF DataOK, NoId
  <2>7. \A id : id \in ShownIds <=> id \in DOMAIN server
    BY <2>4, <2>5, <2>6 DEF ShownIds, Listing
  <2> QED
    BY <2>3, <2>7
<1> QED
  BY <1>1, AgreeAlways, PTL

-----------------------------------------------------------------------------
(* The orders of the rows, as long as no row is deleted or lost and nothing *)
(* fails: what is stored and what is shown count from 0, each row once.     *)

Rising(rows) ==
  /\ \A i, j \in DOMAIN rows : i < j => rows[i].order < rows[j].order
  /\ \A i \in DOMAIN rows : rows[i].order < Len(rows)

StoredOrders ==
  /\ \A a, b \in DOMAIN server : a # b => server[a].order # server[b].order
  /\ \A a \in DOMAIN server : server[a].order < Cardinality(DOMAIN server)

Held(row) == Saved(row) => row.id \in DOMAIN server /\ server[row.id].order = row.order

\* What works for a page that was left: only a list that was saved to the last row was.
OffOrder(r) ==
  /\ r.do # "bulk" /\ (r.do = "save" => Saved(r.todo[1]))
  /\ r.do = "generate" => r.start = Cardinality(DOMAIN server)
  /\ r.do = "keep" /\ r.at = "asked" => \A j \in DOMAIN r.todo : r.todo[j].order + 1 = Cardinality(DOMAIN server) + j
  /\ r.do = "keep" /\ r.at = "ok"    => \A j \in DOMAIN r.todo : r.todo[j].order + 2 = Cardinality(DOMAIN server) + j

HandlerOrder(r) ==
  /\ r.do # "delete" /\ (r.do \in {"load", "keep"} => r.at # "no")
  /\ r.do \in Persist => Held(r.todo[1])
  /\ r.do \in Persist /\ r.at = "ok" => Held(r.got.rows[1])
  /\ r.do = "load" /\ r.at = "ok" => Rising(r.got.rows) /\ \A i \in DOMAIN r.got.rows : Held(r.got.rows[i])
  /\ r.do = "generate" /\ page = "shown" => r.start = Len(fields)
  /\ page # "shown" => OffOrder(r)

Orders ==
  /\ page = "shown" /\ Quiet => Rising(fields)
  /\ page # "shown" \/ ~Quiet => StoredOrders
  /\ \A i \in DOMAIN fields : Held(fields[i])
  /\ \A h \in Slot : HandlerOrder(handler[h])

LEMMA RisingSame ==
  ASSUME NEW a, NEW b, Rising(a), DOMAIN a = DOMAIN b, Len(a) = Len(b), \A i \in DOMAIN a : a[i].order = b[i].order
  PROVE  Rising(b)
  BY DEF Rising

\* Rows are put at the end, in their order.
LEMMA RisingOn ==
  ASSUME NEW a \in Seq(Row), NEW b \in Seq(Row), Rising(a), \A i \in DOMAIN b : b[i].order = Len(a) + i - 1
  PROVE  Rising(a \o b)
<1>1. PICK c : c = a \o b
  OBVIOUS
<1>2. /\ Len(a) \in Nat /\ Len(b) \in Nat /\ DOMAIN a = 1 .. Len(a) /\ DOMAIN b = 1 .. Len(b)
      /\ Len(c) = Len(a) + Len(b) /\ DOMAIN c = 1 .. Len(a) + Len(b)
      /\ \A i \in DOMAIN a : c[i] = a[i]
      /\ \A i \in DOMAIN b : c[Len(a) + i] = b[i]
  BY <1>1
<1>3. \A i \in DOMAIN a : a[i].order \in Nat
  <2>1. \A i \in DOMAIN a : a[i] \in Row
    OBVIOUS
  <2> QED
    BY <2>1 DEF Row
<1>4. ASSUME NEW i \in DOMAIN c
      PROVE  /\ i \in DOMAIN a => c[i].order < Len(a) /\ c[i].order \in Nat
             /\ i \notin DOMAIN a => c[i].order = i - 1
  <2>1. CASE i \in DOMAIN a
    BY <1>2, <1>3, <2>1 DEF Rising
  <2>2. CASE i \notin DOMAIN a
    <3>1. PICK k : k = i - Len(a)
      OBVIOUS
    <3>2. k \in DOMAIN b /\ i = Len(a) + k
      BY <1>2, <2>2, <3>1
    <3>3. c[i] = b[k] /\ b[k].order = Len(a) + k - 1
      BY <1>2, <3>2
    <3> QED
      BY <1>2, <2>2, <3>2, <3>3
  <2> QED
    BY <2>1, <2>2
<1>5. ASSUME NEW i \in DOMAIN c, NEW j \in DOMAIN c, i < j PROVE c[i].order < c[j].order
  <2>0. i \in Nat /\ j \in Nat
    BY <1>2
  <2>1. CASE j \in DOMAIN a
    <3>1. i \in DOMAIN a
      BY <1>2, <1>5, <2>0, <2>1
    <3>2. a[i].order < a[j].order
      BY <1>5, <2>1, <3>1 DEF Rising
    <3> QED
      BY <1>2, <2>1, <3>1, <3>2
  <2>2. CASE i \in DOMAIN a /\ j \notin DOMAIN a
    <3>1. c[i].order < Len(a) /\ c[i].order \in Nat /\ c[j].order = j - 1 /\ j > Len(a)
      BY <1>2, <1>4, <2>0, <2>2
    <3> QED
      BY <1>2, <2>0, <3>1
  <2>3. CASE i \notin DOMAIN a /\ j \notin DOMAIN a
    <3>1. c[i].order = i - 1 /\ c[j].order = j - 1
      BY <1>4, <2>3
    <3> QED
      BY <1>5, <2>0, <3>1
  <2> QED
    BY <2>1, <2>2, <2>3
<1>6. ASSUME NEW i \in DOMAIN c PROVE c[i].order < Len(c)
  <2>1. CASE i \in DOMAIN a
    <3>1. c[i].order < Len(a) /\ c[i].order \in Nat
      BY <1>4, <2>1
    <3> QED
      BY <1>2, <3>1
  <2>2. CASE i \notin DOMAIN a
    <3>1. c[i].order = i - 1
      BY <1>4, <2>2
    <3> QED
      BY <1>2, <3>1
  <2> QED
    BY <2>1, <2>2
<1>7. Rising(c)
  BY <1>5, <1>6 DEF Rising
<1> QED
  BY <1>1, <1>7

\* What is stored stays, and keeps its order.
Lasting == \A id \in DOMAIN server : id \in DOMAIN server' /\ server'[id].order = server[id].order

LEMMA HeldOn == ASSUME Lasting, NEW row, Held(row) PROVE Held(row)'
  BY DEF Lasting, Held

\* A handler that stays as it is.
LEMMA HandlerOrderKept ==
  ASSUME NEW r, HandlerOrder(r), Lasting, page' = "shown" <=> page = "shown",
         r.do = "generate" /\ page = "shown" => Len(fields') = Len(fields),
         r.do \in {"generate", "keep"} /\ page # "shown" => DOMAIN server' = DOMAIN server
  PROVE  HandlerOrder(r)'
<1>1. r.do \in Persist => Held(r.todo[1])'
  BY HeldOn DEF HandlerOrder
<1>2. r.do \in Persist /\ r.at = "ok" => Held(r.got.rows[1])'
  BY HeldOn DEF HandlerOrder
<1>3. r.do = "load" /\ r.at = "ok" => \A i \in DOMAIN r.got.rows : Held(r.got.rows[i])'
  BY HeldOn DEF HandlerOrder
<1>4. page' # "shown" => OffOrder(r)'
  BY DEF HandlerOrder, OffOrder
<1> QED
  BY <1>1, <1>2, <1>3, <1>4 DEF HandlerOrder, Rising

\* A list that is saved to the last row, when nothing is arriving and nothing leaving, is
\* what is stored.
LEMMA OrdersListed ==
  ASSUME Types, Sole, Agree, page = "shown", Rising(fields), \A i \in DOMAIN fields : Held(fields[i]) /\ Saved(fields[i]),
         \A h \in Slot : ~Inserted(handler[h]) /\ handler[h].do # "delete"
  PROVE  StoredOrders /\ Cardinality(DOMAIN server) = Len(fields)
<1>0. /\ Len(fields) \in Nat /\ DOMAIN fields = 1 .. Len(fields) /\ \A i \in DOMAIN fields : fields[i].order \in Nat
      /\ DOMAIN server \subseteq 1 .. MaxFields
  BY FieldFacts, TypesParts DEF ListOK, DataOK
<1>1. \A id \in DOMAIN server : \E i \in DOMAIN fields : fields[i].id = id
  <2>1. \A id : ~Leaving(id) /\ ~Arriving(id)
    BY DEF Leaving, Arriving, Leaves, Arrives
  <2> QED
    BY <1>0, <2>1 DEF Agree, ListAgrees, Listing
<1>2. \A i \in DOMAIN fields : fields[i].id \in DOMAIN server /\ server[fields[i].id].order = fields[i].order
  BY DEF Held
<1>3. \A i, j \in DOMAIN fields : i # j => fields[i].id # fields[j].id
  BY DEF Sole, FieldsSole
<1>4. Cardinality(DOMAIN server) = Len(fields)
  <2>1. PICK f : f = [i \in DOMAIN fields |-> fields[i].id]
    OBVIOUS
  <2>2. f \in Bijection(1 .. Len(fields), DOMAIN server)
    <3>1. f \in [DOMAIN fields -> DOMAIN server] /\ \A i \in DOMAIN fields : f[i] = fields[i].id
      BY <1>2, <2>1
    <3>2. f \in Injection(DOMAIN fields, DOMAIN server)
      BY <1>3, <3>1 DEF Injection, IsInjective
    <3>3. f \in Surjection(DOMAIN fields, DOMAIN server)
      BY <1>1, <3>1 DEF Surjection
    <3> QED
      BY <1>0, <3>2, <3>3 DEF Bijection
  <2>3. IsFiniteSet(1 .. Len(fields)) /\ Cardinality(1 .. Len(fields)) = Len(fields)
    <3>1. /\ IsFiniteSet(1 .. Len(fields))
          /\ Cardinality(1 .. Len(fields)) = IF 1 > Len(fields) THEN 0 ELSE Len(fields) - 1 + 1
      BY <1>0, FS_Interval
    <3> QED
      BY <1>0, <3>1
  <2>4. ExistsBijection(1 .. Len(fields), DOMAIN server)
    BY <2>2 DEF ExistsBijection
  <2> QED
    BY <2>3, <2>4, FS_Bijection
<1>5. ASSUME NEW a \in DOMAIN server, NEW b \in DOMAIN server, a # b PROVE server[a].order # server[b].order
  <2>1. PICK i \in DOMAIN fields : fields[i].id = a
    BY <1>1
  <2>2. PICK j \in DOMAIN fields : fields[j].id = b
    BY <1>1
  <2>3. i < j \/ j < i
    BY <1>0, <1>5, <2>1, <2>2
  <2>4. fields[i].order # fields[j].order
    BY <1>0, <2>3 DEF Rising
  <2> QED
    BY <1>2, <2>1, <2>2, <2>4
<1>6. ASSUME NEW a \in DOMAIN server PROVE server[a].order < Cardinality(DOMAIN server)
  <2>1. PICK i \in DOMAIN fields : fields[i].id = a
    BY <1>1
  <2> QED
    BY <1>2, <1>4, <2>1 DEF Rising
<1> QED
  BY <1>4, <1>5, <1>6 DEF StoredOrders

\* What is stored is as it was.
LEMMA StoredKept ==
  ASSUME StoredOrders, UNCHANGED server
  PROVE  StoredOrders'
  BY DEF StoredOrders

\* What the user does.
LEMMA OrdersUser ==
  ASSUME Types, Types', Sole, Agree, Orders, UserStep, ~gap'
  PROVE  Orders'
<1>0. /\ UNCHANGED <<server, page>> /\ page = "shown" /\ fields \in Seq(Row) /\ Lasting /\ ~gap
      /\ fields' \in Seq(Row) /\ Len(fields) \in Nat /\ DOMAIN fields = 1 .. Len(fields)
  BY TypesParts DEF UserStep, Common, data, ListOK, Lasting
<1>1. \A row : Held(row) => Held(row)'
  BY <1>0, HeldOn
<1>2. StoredOrders => StoredOrders'
  BY <1>0, StoredKept
<1>3. ASSUME NEW g \in Slot, handler'[g] = handler[g], handler[g].do = "generate" => Len(fields') = Len(fields)
      PROVE  HandlerOrder(handler[g])'
  <2>1. PICK q : q = handler[g]
    OBVIOUS
  <2>2. HandlerOrder(q)
    BY <2>1 DEF Orders
  <2>3. HandlerOrder(q)'
    BY <1>0, <1>3, <2>1, <2>2, HandlerOrderKept
  <2> QED
    BY <1>3, <2>1, <2>3 DEF HandlerOrder, OffOrder, Held
<1>4. ASSUME NEW h \in Slot, NEW r \in Handler,
             MetaBegun(h, r) \/ TestBegun(h, r) \/ GenerateBegun(h, r) \/ MoveBegun(h, r) \/ RowsBegun(h, r)
      PROVE  Orders'
  <2>1. /\ handler[h] = Idle /\ handler' = [handler EXCEPT ![h] = r] /\ r.at = "asked" /\ handler'[h] = r
        /\ r.do \in {"meta", "test", "generate", "move", "save", "bulk"} /\ \A g \in Slot \ {h} : handler'[g] = handler[g]
    BY <1>4, TypesParts DEF MetaBegun, TestBegun, GenerateBegun, MoveBegun, RowsBegun, Began, HandlersOK
  <2>2. HandlerOrder(r)'
    <3>1. r.do \in Persist => Held(r.todo[1])'
      <4> SUFFICES ASSUME r.do \in Persist PROVE Held(r.todo[1])'
        OBVIOUS
      <4>1. RowsBegun(h, r)
        BY <1>4, <2>1, KindFacts DEF MetaBegun, TestBegun, GenerateBegun, MoveBegun, Began
      <4>2. HandlerOK(r) /\ r # Idle
        BY <2>1, KindFacts, TypesParts, Values DEF HandlersOK
      <4>3. 1 \in DOMAIN r.todo
        BY <4>2, HandlerFacts, HeadFacts DEF HandlerOK
      <4>4. PICK i \in DOMAIN fields : r.todo[1] = fields[i]
        BY <4>1, <4>3 DEF RowsBegun, Sent
      <4> QED
        BY <1>1, <4>4 DEF Orders
    <3>2. r.do = "generate" => r.start = Len(fields')
      BY <1>4, KindFacts DEF MetaBegun, TestBegun, GenerateBegun, MoveBegun, RowsBegun, Began
    <3> QED
      BY <1>0, <2>1, <3>1, <3>2, KindFacts DEF HandlerOrder
  <2>3. Len(fields') = Len(fields) /\ \A i \in DOMAIN fields' : \E k \in DOMAIN fields : fields'[i] = fields[k]
    <3>1. CASE UNCHANGED fields
      BY <3>1
    <3>2. CASE MoveBegun(h, r)
      <4>1. PICK i \in DOMAIN fields : i + 1 \in DOMAIN fields /\ fields' = [fields EXCEPT ![i] = fields[i + 1], ![i + 1] = fields[i]]
        BY <3>2 DEF MoveBegun
      <4>2. /\ DOMAIN fields' = DOMAIN fields /\ fields'[i] = fields[i + 1] /\ fields'[i + 1] = fields[i]
            /\ \A j \in DOMAIN fields \ {i, i + 1} : fields'[j] = fields[j]
        BY <1>0, <4>1, SwapFacts
      <4>3. Len(fields') = Len(fields)
        BY <1>0, <4>2
      <4> QED
        BY <4>1, <4>2, <4>3
    <3> QED
      BY <1>4, <3>1, <3>2 DEF MetaBegun, TestBegun, GenerateBegun, RowsBegun
  <2>4. (\A g \in Slot : HandlerOrder(handler[g]))'
    <3> SUFFICES ASSUME NEW g \in Slot PROVE HandlerOrder(handler[g])'
      OBVIOUS
    <3>1. CASE g = h
      BY <2>1, <2>2, <3>1 DEF HandlerOrder, OffOrder, Held
    <3>2. CASE g # h
      BY <1>3, <2>1, <2>3, <3>2
    <3> QED
      BY <3>1, <3>2
  <2>5. (\A i \in DOMAIN fields : Held(fields[i]))'
    <3> SUFFICES ASSUME NEW i \in DOMAIN fields', NEW row, row = fields'[i] PROVE Held(row)'
      BY DEF Held
    <3> QED
      BY <1>1, <2>3 DEF Orders
  <2>6. CASE MoveBegun(h, r)
    <3>1. ~Quiet'
      BY <2>1, <2>6 DEF Quiet, Working, MoveBegun, Began
    <3>2. \A g \in Slot : handler[g].do \notin OnList
      BY <2>6 DEF MoveBegun, Working
    <3>3. Quiet /\ \A g \in Slot : ~Inserted(handler[g]) /\ handler[g].do # "delete"
      BY <3>2, KindFacts DEF Quiet, Working, Inserted
    <3>4. StoredOrders
      BY <1>0, <2>6, <3>3, OrdersListed DEF Orders, MoveBegun
    <3> QED
      BY <1>2, <2>4, <2>5, <3>1, <3>4 DEF Orders
  <2>7. CASE ~MoveBegun(h, r)
    <3>1. Quiet' <=> Quiet
      <4>1. r.do \notin {"move", "load"} /\ handler[h].do \notin {"move", "load"}
        BY <1>4, <2>1, <2>7, Values DEF MetaBegun, TestBegun, GenerateBegun, RowsBegun, Began
      <4>2. \A g \in Slot : handler'[g].do \in {"move", "load"} <=> handler[g].do \in {"move", "load"}
        BY <2>1, <4>1
      <4> QED
        BY <4>2 DEF Quiet, Working
    <3>2. UNCHANGED fields
      BY <1>4, <2>7 DEF MetaBegun, TestBegun, GenerateBegun, RowsBegun
    <3> QED
      BY <1>0, <1>2, <2>4, <2>5, <3>1, <3>2 DEF Orders, Rising
  <2> QED
    BY <2>6, <2>7
<1>5. CASE Typed
  <2>1. /\ UNCHANGED handler /\ DOMAIN fields' = DOMAIN fields /\ Len(fields') = Len(fields)
        /\ \A i \in DOMAIN fields : fields'[i].id = fields[i].id /\ fields'[i].order = fields[i].order
    BY <1>5 DEF Typed
  <2>2. (\A g \in Slot : HandlerOrder(handler[g]))'
    BY <1>3, <2>1
  <2>3. (\A i \in DOMAIN fields : Held(fields[i]))'
    <3> SUFFICES ASSUME NEW i \in DOMAIN fields, NEW row, row = fields'[i] PROVE Held(row)'
      BY <2>1 DEF Held
    <3>1. Held(fields[i])
      BY DEF Orders
    <3> QED
      BY <1>0, <2>1, <3>1 DEF Held, Saved
  <2>4. Quiet' <=> Quiet
    BY <2>1 DEF Quiet, Working
  <2>5. Rising(fields) => Rising(fields')
    BY <2>1, RisingSame
  <2> QED
    BY <1>0, <1>2, <2>2, <2>3, <2>4, <2>5 DEF Orders, Rising
<1>6. CASE Added
  <2>0. PICK row : row = blankField(nextTemp, Blank, Len(fields))
    OBVIOUS
  <2>1. UNCHANGED handler /\ fields' = Append(fields, row) /\ Quiet /\ \A g \in Slot : handler[g].do # "generate"
    BY <1>6, <2>0 DEF Added, Working
  <2>2. (\A g \in Slot : HandlerOrder(handler[g]))'
    BY <1>3, <2>1
  <2>3. row \in Row /\ ~Saved(row) /\ row.order = Len(fields)
    <3>1. row.order = Len(fields) /\ ~Saved(row)
      BY <2>0 DEF blankField, Saved
    <3>2. Len(fields) + 1 \in DOMAIN fields' /\ fields'[Len(fields) + 1] = row
      BY <1>0, <2>1
    <3> QED
      BY <1>0, <3>1, <3>2
  <2>4. (\A i \in DOMAIN fields : Held(fields[i]))'
    <3> SUFFICES ASSUME NEW i \in DOMAIN fields', NEW other, other = fields'[i] PROVE Held(other)'
      BY DEF Held
    <3>1. other = row \/ \E k \in DOMAIN fields : other = fields[k]
      BY <1>0, <2>1
    <3> QED
      BY <1>1, <2>3, <3>1 DEF Orders, Held
  <2>5. Rising(fields')
    <3>1. PICK b : b = <<row>>
      OBVIOUS
    <3>2. b \in Seq(Row) /\ DOMAIN b = {1} /\ b[1] = row /\ fields' = fields \o b
      BY <1>0, <2>1, <2>3, <3>1
    <3>3. \A i \in DOMAIN b : b[i].order = Len(fields) + i - 1
      BY <1>0, <2>3, <3>2
    <3> QED
      BY <1>0, <2>1, <3>2, <3>3, RisingOn DEF Orders
  <2>6. Quiet'
    BY <2>1 DEF Quiet, Working
  <2> QED
    BY <1>0, <2>2, <2>4, <2>5, <2>6 DEF Orders, Rising
<1>7. ~Dropped
  BY DEF Dropped
<1> QED
  BY <1>4, <1>5, <1>6, <1>7 DEF UserStep

\* What a handler is answered when nothing fails.
LEMMA OrdersHeeded ==
  ASSUME Types, Types', Turns, Sole, Orders, exists, NEW h \in Slot, NEW r \in Handler, Echo(h, r), Heeded(h, r),
         UNCHANGED faults
  PROVE  Orders'
<1>0. /\ handler[h] # Idle /\ handler[h].at = "asked" /\ r.do = handler[h].do /\ r.todo = handler[h].todo
      /\ r.start = handler[h].start /\ UNCHANGED <<page, fields>> /\ handler[h].do # "idle"
  BY SomeHandler DEF Echo, screen
<1>1. handler'[h] = r /\ \A g \in Slot \ {h} : handler'[g] = handler[g]
  BY TypesParts DEF Echo, HandlersOK
<1>2. HandlerOrder(handler[h]) /\ HandlerSole(handler[h])
  BY DEF Orders, Sole
<1>3. Quiet' <=> Quiet
  <2>1. \A g \in Slot : handler'[g].do = handler[g].do
    BY <1>0, <1>1
  <2> QED
    BY <2>1 DEF Quiet, Working
<1>4. IsFiniteSet(DOMAIN server) /\ Cardinality(DOMAIN server) \in Nat /\ DOMAIN server \subseteq 1 .. MaxFields
  <2>1. IsFiniteSet(1 .. MaxFields)
    BY BoundsNat, FS_Interval
  <2> QED
    BY <2>1, FS_Subset, FS_CardinalityType, TypesParts DEF DataOK
<1>5. ASSUME Lasting, HandlerOrder(r)', StoredOrders' \/ (page = "shown" /\ Quiet),
             \A g \in Slot \ {h} : handler[g].do \in {"generate", "keep"} /\ page # "shown" => DOMAIN server' = DOMAIN server
      PROVE  Orders'
  <2>1. (\A g \in Slot : HandlerOrder(handler[g]))'
    <3> SUFFICES ASSUME NEW g \in Slot, NEW q, q = handler'[g] PROVE HandlerOrder(q)'
      BY DEF HandlerOrder, OffOrder, Held
    <3>1. CASE g = h
      BY <1>1, <1>5, <3>1
    <3>2. CASE g # h
      <4>1. q = handler[g] /\ HandlerOrder(q)
        BY <1>1, <3>2 DEF Orders
      <4> QED
        BY <1>0, <1>5, <3>2, <4>1, HandlerOrderKept
    <3> QED
      BY <3>1, <3>2
  <2>2. (\A i \in DOMAIN fields : Held(fields[i]))'
    <3> SUFFICES ASSUME NEW i \in DOMAIN fields, NEW row, row = fields[i] PROVE Held(row)'
      BY <1>0 DEF Held
    <3> QED
      BY <1>5, HeldOn DEF Orders
  <2> QED
    BY <1>0, <1>3, <1>5, <2>1, <2>2 DEF Orders, Rising
<1>6. ASSUME UNCHANGED server, HandlerOrder(r)' PROVE Orders'
  <2>1. Lasting /\ (StoredOrders' \/ (page = "shown" /\ Quiet))
    BY <1>6, StoredKept DEF Orders, Lasting
  <2> QED
    BY <1>5, <1>6, <2>1
<1>7. handler[h].do \in {"bulk", "keep"} => ~Saved(handler[h].todo[1])
  <2>1. handler[h].do \in {"bulk", "keep"} => 1 \in DOMAIN handler[h].todo
    BY TodoFacts, KindFacts DEF OnRows
  <2> QED
    BY <1>2, <2>1 DEF HandlerSole, Shape
<1>8. CASE Failed(h, r)
  <2>1. r.at = "no" /\ UNCHANGED server /\ (handler[h].do = "move" \/ (handler[h].do \in OnRows /\ Saved(handler[h].todo[1])))
    <3>1. faults' # faults + 1
      BY TypesParts, BoundsNat DEF RestOK
    <3> QED
      BY <1>8, <3>1 DEF Failed, data
  <2>2. r.do # "keep" /\ r.do # "generate" /\ r.do # "load"
    BY <1>0, <1>7, <2>1, KindFacts DEF OnRows
  <2>3. HandlerOrder(r)'
    BY <1>0, <1>2, <2>1, <2>2 DEF HandlerOrder, OffOrder, Held
  <2> QED
    BY <1>6, <2>1, <2>3
<1>9. CASE NothingStored(h, r) \/ MetaServed(h, r)
  <2>1. r.do \in {"generate", "test", "meta"} /\ UNCHANGED server
    BY <1>0, <1>9 DEF NothingStored, MetaServed, data
  <2>2. HandlerOrder(r)'
    BY <1>0, <1>2, <2>1, KindFacts DEF HandlerOrder, OffOrder
  <2> QED
    BY <1>6, <2>1, <2>2
<1>10. CASE LoadServed(h, r)
  <2>1. r.do = "load" /\ r.at = "ok" /\ UNCHANGED server /\ handler[h].do = "load"
    BY <1>0, <1>10 DEF LoadServed, data
  <2>2. StoredOrders
    BY <2>1 DEF Orders, Quiet, Working
  <2>3. PICK s \in _ordered_fields :
         /\ DOMAIN r.got.rows = 1 .. Cardinality(DOMAIN server)
         /\ \A i \in DOMAIN r.got.rows : s[i] \in DOMAIN server /\ r.got.rows[i] = FromServer(s[i], server[s[i]])
    BY <1>10 DEF LoadServed, Listed
  <2>4. \A id, field : FromServer(id, field).id = id /\ FromServer(id, field).order = field.order
    BY DEF FromServer
  <2>5. \A i \in DOMAIN r.got.rows : r.got.rows[i].id = s[i] /\ r.got.rows[i].order = server[s[i]].order /\ s[i] \in DOMAIN server
    BY <2>3, <2>4
  <2>6. /\ \A i, j \in DOMAIN r.got.rows : i < j => server[s[i]].order <= server[s[j]].order
        /\ \A i, j \in DOMAIN r.got.rows : i # j => s[i] # s[j]
    BY <2>3 DEF _ordered_fields, Bijection, Injection, IsInjective
  <2>7. Len(r.got.rows) = Cardinality(DOMAIN server)
    <3>1. r # Idle
      BY <2>1, Values
    <3>2. r.got.rows \in Seq(Row)
      BY <3>1, HandlerFacts
    <3> QED
      BY <1>4, <2>3, <3>2
  <2>8. Rising(r.got.rows)
    <3>1. ASSUME NEW i \in DOMAIN r.got.rows, NEW j \in DOMAIN r.got.rows, i < j PROVE r.got.rows[i].order < r.got.rows[j].order
      <4>1. server[s[i]].order <= server[s[j]].order /\ i # j
        BY <2>3, <2>6, <3>1, <1>4
      <4>2. server[s[i]].order # server[s[j]].order
        BY <2>2, <2>5, <2>6, <4>1 DEF StoredOrders
      <4>3. server[s[i]].order \in Nat /\ server[s[j]].order \in Nat
        BY <2>5, TypesParts DEF DataOK
      <4> QED
        BY <2>5, <4>1, <4>2, <4>3
    <3>2. \A i \in DOMAIN r.got.rows : r.got.rows[i].order < Len(r.got.rows)
      BY <2>2, <2>5, <2>7 DEF StoredOrders
    <3> QED
      BY <3>1, <3>2 DEF Rising
  <2>9. \A i \in DOMAIN r.got.rows : Held(r.got.rows[i])'
    BY <2>1, <2>5 DEF Held
  <2>10. HandlerOrder(r)'
    BY <2>1, <2>8, <2>9, KindFacts DEF HandlerOrder, OffOrder
  <2> QED
    BY <1>6, <2>1, <2>10
<1>11. CASE Changed(h, r)
  <2> DEFINE row == handler[h].todo[1]
  <2>1. /\ handler[h].do \in Persist /\ row.id \in DOMAIN server /\ DOMAIN server' = DOMAIN server /\ r.at = "ok"
        /\ server' = [server EXCEPT ![row.id] = Field(row)] /\ r.got.rows[1] = FromServer(row.id, Field(row))
    BY <1>11 DEF Changed
  <2>2. Saved(row)
    BY <1>4, <2>1, BoundsNat DEF Saved, NoId
  <2>3. server[row.id].order = row.order /\ Field(row).order = row.order
    BY <1>2, <2>1, <2>2 DEF HandlerOrder, Held, Field
  <2>4. Lasting /\ \A id \in DOMAIN server : server'[id].order = server[id].order
    <3>1. \A id \in DOMAIN server : server'[id] = IF id = row.id THEN Field(row) ELSE server[id]
      BY <2>1
    <3> QED
      BY <2>1, <2>3, <3>1 DEF Lasting
  <2>5. StoredOrders => StoredOrders'
    BY <2>1, <2>4 DEF StoredOrders
  <2>6. HandlerOrder(r)'
    <3>1. Held(r.got.rows[1])'
      <4>1. r.got.rows[1].id = row.id /\ r.got.rows[1].order = row.order
        BY <2>1, <2>3 DEF FromServer
      <4> QED
        BY <2>1, <2>3, <2>4, <4>1 DEF Held
    <3>2. Held(r.todo[1])'
      BY <1>0, <2>1, <2>3, <2>4 DEF Held
    <3>3. r.do # "keep" /\ r.do # "bulk" /\ r.do = "save"
      BY <1>0, <1>7, <2>1, <2>2, KindFacts
    <3> QED
      BY <1>0, <2>1, <2>2, <3>1, <3>2, <3>3, KindFacts DEF HandlerOrder, OffOrder
  <2>7. StoredOrders' \/ (page = "shown" /\ Quiet)
    BY <2>5 DEF Orders
  <2> QED
    BY <1>5, <2>1, <2>4, <2>6, <2>7
<1>12. CASE Created(h, r)
  <2> DEFINE row == handler[h].todo[1]
  <2>1. /\ handler[h].do \in Persist /\ ~Saved(row) /\ r.at = "ok" /\ DOMAIN server' = DOMAIN server \cup {nextId}
        /\ r.got.rows[1] = FromServer(nextId, Field(row)) /\ handler[h].do \in OnRows
        /\ \A id \in DOMAIN server' : server'[id] = IF id = nextId THEN Field(row) ELSE server[id]
    BY <1>12 DEF Created, OnRows
  <2>2. nextId \notin DOMAIN server
    <3>1. \A id \in DOMAIN server : id < nextId
      BY DEF Sole, StoreSole
    <3>2. nextId \in Nat
      BY BoundsNat, TypesParts DEF DataOK
    <3> QED
      BY <3>1, <3>2
  <2>3. Lasting
    BY <2>1, <2>2 DEF Lasting
  <2>4. Cardinality(DOMAIN server') = Cardinality(DOMAIN server) + 1
    BY <1>4, <2>1, <2>2, FS_AddElement
  <2>5. page # "shown" => handler[h].do = "keep"
    <3>1. page # "shown" => OffOrder(handler[h])
      BY <1>2 DEF HandlerOrder
    <3> QED
      BY <2>1, <3>1, KindFacts DEF OffOrder
  <2>6. 1 \in DOMAIN handler[h].todo /\ \A j \in DOMAIN handler[h].todo : j \in Nat /\ handler[h].todo[j].order \in Nat
    <3>1. handler[h].todo \in Seq(Row) /\ 1 \in DOMAIN handler[h].todo
      BY <2>1, TodoFacts
    <3>2. \A j \in DOMAIN handler[h].todo : j \in Nat /\ handler[h].todo[j] \in Row
      BY <3>1
    <3> QED
      BY <3>1, <3>2 DEF Row
  <2>7. page # "shown" => \A j \in DOMAIN handler[h].todo : handler[h].todo[j].order + 1 = Cardinality(DOMAIN server) + j
    BY <1>0, <1>2, <2>5 DEF HandlerOrder, OffOrder
  <2>8. page # "shown" => StoredOrders'
    <3> SUFFICES ASSUME page # "shown" PROVE StoredOrders'
      OBVIOUS
    <3>1. row.order = Cardinality(DOMAIN server) /\ Field(row).order = row.order
      <4>1. row.order + 1 = Cardinality(DOMAIN server) + 1 /\ row.order \in Nat
        BY <2>6, <2>7
      <4> QED
        BY <1>4, <4>1 DEF Field
    <3>2. StoredOrders
      BY DEF Orders
    <3>3. \A id \in DOMAIN server : server'[id].order = server[id].order /\ server[id].order < Cardinality(DOMAIN server) /\ server[id].order \in Nat
      BY <2>1, <2>2, <3>2, TypesParts DEF StoredOrders, DataOK
    <3>4. server'[nextId].order = Cardinality(DOMAIN server)
      BY <2>1, <3>1
    <3>5. \A a, b \in DOMAIN server' : a # b => server'[a].order # server'[b].order
      <4> SUFFICES ASSUME NEW a \in DOMAIN server', NEW b \in DOMAIN server', a # b PROVE server'[a].order # server'[b].order
        OBVIOUS
      <4>1. CASE a = nextId
        BY <1>4, <2>1, <3>3, <3>4, <4>1
      <4>2. CASE b = nextId
        BY <1>4, <2>1, <3>3, <3>4, <4>2
      <4>3. CASE a # nextId /\ b # nextId
        BY <2>1, <3>2, <3>3, <4>3 DEF StoredOrders
      <4> QED
        BY <4>1, <4>2, <4>3
    <3>6. \A a \in DOMAIN server' : server'[a].order < Cardinality(DOMAIN server')
      BY <1>4, <2>1, <2>4, <3>3, <3>4
    <3> QED
      BY <3>5, <3>6 DEF StoredOrders
  <2>9. page = "shown" => Quiet
    <3>1. \A g \in Slot : handler[g].do \notin {"move", "load"}
      <4> SUFFICES ASSUME NEW g \in Slot, handler[g].do \in {"move", "load"} PROVE FALSE
        OBVIOUS
      <4>1. g # h
        BY <2>1, KindFacts
      <4>2. handler[h].do \in {"idle", "test"}
        BY <4>1 DEF Turns
      <4> QED
        BY <2>1, <4>2, KindFacts
    <3> QED
      BY <3>1 DEF Quiet, Working
  <2>10. HandlerOrder(r)'
    <3>1. Held(r.got.rows[1])'
      <4>1. r.got.rows[1].id = nextId /\ r.got.rows[1].order = row.order
        BY <2>1 DEF FromServer, Field
      <4> QED
        BY <2>1, <4>1 DEF Held, Field
    <3>2. Held(r.todo[1])'
      BY <1>0, <2>1 DEF Held
    <3>3. page # "shown" => \A j \in DOMAIN r.todo : r.todo[j].order + 2 = Cardinality(DOMAIN server') + j
      <4> SUFFICES ASSUME page # "shown", NEW j \in DOMAIN handler[h].todo
                   PROVE  handler[h].todo[j].order + 2 = Cardinality(DOMAIN server') + j
        BY <1>0
      <4>1. handler[h].todo[j].order + 1 = Cardinality(DOMAIN server) + j
        BY <2>7
      <4> QED
        BY <1>4, <2>4, <2>6, <4>1
    <3>4. page # "shown" => OffOrder(r)'
      BY <1>0, <2>1, <2>5, <3>3 DEF OffOrder
    <3> QED
      BY <1>0, <2>1, <3>1, <3>2, <3>4, KindFacts DEF HandlerOrder
  <2>11. \A g \in Slot \ {h} : handler[g].do \in {"generate", "keep"} /\ page # "shown" => DOMAIN server' = DOMAIN server
    BY <2>5 DEF Turns
  <2> QED
    BY <1>5, <2>3, <2>8, <2>9, <2>10, <2>11
<1>13. ~Removed(h, r)
  BY <1>2 DEF Removed, HandlerOrder
<1> QED
  BY <1>8, <1>9, <1>10, <1>11, <1>12, <1>13 DEF Heeded

\* A handler that says nothing of orders.
LEMMA OrderFree ==
  ASSUME NEW r, r.do \in {"idle", "test", "meta", "move"} \/ (r.do = "load" /\ r.at = "asked")
  PROVE  HandlerOrder(r)'
  BY KindFacts DEF HandlerOrder, OffOrder

\* The orders hold of every handler when they hold of what each becomes.
LEMMA HandlersOrder ==
  ASSUME \A g \in Slot : \A q : q = handler'[g] => HandlerOrder(q)'
  PROVE  (\A g \in Slot : HandlerOrder(handler[g]))'
  BY DEF HandlerOrder, OffOrder, Held

\* One handler goes on, on the same page.
LEMMA OrdersOn ==
  ASSUME Types, Orders, NEW h \in Slot, NEW r, handler' = [handler EXCEPT ![h] = r], UNCHANGED <<server, page>>,
         r.do \in {"move", "load"} <=> handler[h].do \in {"move", "load"}, HandlerOrder(r)',
         Len(fields') = Len(fields) \/ \A g \in Slot \ {h} : handler[g].do # "generate",
         page = "shown" /\ Quiet => Rising(fields'), \A i \in DOMAIN fields' : Held(fields'[i])
  PROVE  Orders'
<1>1. handler'[h] = r /\ (\A g \in Slot \ {h} : handler'[g] = handler[g]) /\ Lasting
  BY TypesParts DEF HandlersOK, Lasting
<1>2. Quiet' <=> Quiet
  <2>1. \A g \in Slot : handler'[g].do \in {"move", "load"} <=> handler[g].do \in {"move", "load"}
    BY <1>1
  <2> QED
    BY <2>1 DEF Quiet, Working
<1>3. (\A g \in Slot : HandlerOrder(handler[g]))'
  <2> SUFFICES ASSUME NEW g \in Slot, NEW q, q = handler'[g] PROVE HandlerOrder(q)'
    BY HandlersOrder
  <2>1. CASE g = h
    BY <1>1, <2>1
  <2>2. CASE g # h
    <3>1. q = handler[g] /\ HandlerOrder(q)
      BY <1>1, <2>2 DEF Orders
    <3> QED
      BY <1>1, <2>2, <3>1, HandlerOrderKept
  <2> QED
    BY <2>1, <2>2
<1>4. (\A i \in DOMAIN fields : Held(fields[i]))'
  <2> SUFFICES ASSUME NEW i \in DOMAIN fields', NEW row, row = fields'[i] PROVE Held(row)'
    BY DEF Held
  <2>1. Held(row)
    OBVIOUS
  <2> QED
    BY <1>1, <2>1, HeldOn
<1>5. StoredOrders => StoredOrders'
  BY StoredKept
<1> QED
  BY <1>2, <1>3, <1>4, <1>5 DEF Orders, Rising

LEMMA OrdersLoaded ==
  ASSUME Types, Types', Turns, Orders, NEW h \in Slot, NEW r, Went(h, r), LoadDone(h, r)
  PROVE  Orders'
<1>0. /\ handler' = [handler EXCEPT ![h] = r] /\ r = Idle /\ handler[h].do = "load" /\ handler[h] # Idle
      /\ UNCHANGED server /\ handler[h].at \in {"ok", "no"} /\ r.do = "idle" /\ handler[h].on \in BOOLEAN
  BY Values, AnsweredFacts DEF Went, LoadDone, data
<1>1. handler'[h] = r /\ (\A g \in Slot \ {h} : handler'[g] = handler[g]) /\ Lasting
  BY <1>0, TypesParts DEF HandlersOK, Lasting
<1>2. HandlerOrder(handler[h]) /\ handler[h].at = "ok" /\ StoredOrders'
  <2>1. HandlerOrder(handler[h]) /\ StoredOrders
    BY <1>0 DEF Orders, Quiet, Working
  <2> QED
    BY <1>0, <2>1, StoredKept DEF HandlerOrder
<1>3. \A g \in Slot : handler'[g].do \in {"idle", "test"}
  BY <1>0, <1>1 DEF Turns
<1>4. Quiet' /\ (\A g \in Slot : HandlerOrder(handler[g]))'
  <2>1. Quiet'
    BY <1>3 DEF Quiet, Working
  <2>2. ASSUME NEW g \in Slot, NEW q, q = handler'[g] PROVE HandlerOrder(q)'
    BY <1>3, <2>2, OrderFree
  <2> QED
    BY <2>1, <2>2, HandlersOrder
<1>5. CASE Heard(h)
  <2>1. page' = "shown" /\ fields' = handler[h].got.rows
    BY <1>5 DEF LoadDone
  <2>2. Rising(fields') /\ \A i \in DOMAIN fields' : Held(fields'[i])
    BY <1>0, <1>2, <2>1 DEF HandlerOrder
  <2>3. (\A i \in DOMAIN fields : Held(fields[i]))'
    <3> SUFFICES ASSUME NEW i \in DOMAIN fields', NEW row, row = fields'[i] PROVE Held(row)'
      BY DEF Held
    <3> QED
      BY <1>1, <2>2, HeldOn
  <2> QED
    BY <1>4, <2>1, <2>2, <2>3 DEF Orders, Rising
<1>6. CASE ~Heard(h)
  <2>1. ~handler[h].on
    BY <1>2, <1>6 DEF Heard, Shown
  <2>2. page # "shown" /\ page' # "shown" /\ DOMAIN fields' = {}
    BY <1>0, <1>6, <2>1 DEF Turns, Mounted, LoadDone, Shown
  <2> QED
    BY <1>2, <1>4, <2>2 DEF Orders
<1> QED
  BY <1>5, <1>6

LEMMA OrdersSaved ==
  ASSUME Types, Types', Turns, Sole, Orders, NEW h \in Slot, NEW r, Went(h, r), SaveDone(h, r)
  PROVE  Orders'
<1> DEFINE todo == handler[h].todo
           saved == handler[h].got.rows[1]
<1>0. /\ handler' = [handler EXCEPT ![h] = r] /\ handler[h].do \in Persist /\ handler[h].do \in OnRows /\ handler[h] # Idle
      /\ UNCHANGED <<server, page>> /\ handler[h].at \in {"ok", "no"} /\ handler[h].do \notin {"move", "load", "idle"}
  BY KindFacts DEF Went, SaveDone, data, OnRows
<1>1. HandlerOrder(handler[h]) /\ HandlerSole(handler[h]) /\ todo \in Seq(Row) /\ 1 \in DOMAIN todo /\ todo # <<>>
  BY <1>0, TodoFacts DEF Orders, Sole
<1>2. /\ DOMAIN fields' = DOMAIN fields /\ Len(fields') = Len(fields)
      /\ \A i \in DOMAIN fields' : fields'[i].order = fields[i].order /\ Held(fields'[i])
  <2>1. CASE Heard(h)
    <3>1. Filled(h) /\ page = "shown" /\ handler[h].at = "ok"
      BY <1>0, <2>1, OnShown DEF SaveDone, Heard, Shown
    <3>2. PICK i0 \in DOMAIN fields : Same(fields[i0], todo[1])
      BY <1>0, <1>1, <3>1, RowsThere
    <3>3. \A i \in DOMAIN fields : fields[i].key = todo[1].key <=> i = i0
      BY <3>2 DEF Same, Sole, FieldsSole, Lone
    <3>4. fields'[i0].id = saved.id /\ fields'[i0].order = saved.order
      BY <3>1, <3>3 DEF Filled
    <3>5. DOMAIN fields' = DOMAIN fields /\ Len(fields') = Len(fields) /\ \A i \in DOMAIN fields : i # i0 => fields'[i] = fields[i]
      BY <3>1, <3>3 DEF Filled
    <3>6. saved.order = fields[i0].order
      BY <1>0, <1>1, <3>1, <3>2 DEF HandlerSole, GotSole, Same
    <3>7. Held(fields'[i0])
      BY <1>0, <1>1, <3>1, <3>4 DEF HandlerOrder, Held, Saved
    <3> QED
      BY <3>4, <3>5, <3>6, <3>7 DEF Orders
  <2>2. CASE ~Heard(h)
    BY <2>2 DEF SaveDone, Orders
  <2> QED
    BY <2>1, <2>2
<1>3. HandlerOrder(r)' /\ r.do \notin {"move", "load"}
  <2>1. CASE r = Idle
    BY <2>1, Values, OrderFree
  <2>2. CASE r # Idle
    <3>1. /\ r.do = handler[h].do /\ r.do \in {"bulk", "keep"} /\ r.at = "asked" /\ r.todo = Tail(todo) /\ Len(todo) # 1
      BY <1>0, <2>2, KindFacts DEF SaveDone
    <3>2. /\ DOMAIN Tail(todo) = 1 .. Len(todo) - 1 /\ Len(todo) \in Nat \ {0}
          /\ \A j \in DOMAIN Tail(todo) : j + 1 \in DOMAIN todo /\ Tail(todo)[j] = todo[j + 1]
      BY <1>1, HeadFacts
    <3>3. \A j \in DOMAIN Tail(todo) : ~Saved(Tail(todo)[j]) /\ Tail(todo)[j].order \in Nat
      <4>1. \A j \in DOMAIN todo : ~Saved(todo[j])
        BY <1>1, <3>1 DEF HandlerSole, Shape
      <4>2. \A j \in DOMAIN todo : todo[j].order \in Nat
        <5>1. \A j \in DOMAIN todo : todo[j] \in Row
          BY <1>1
        <5> QED
          BY <5>1 DEF Row
      <4> QED
        BY <3>2, <4>1, <4>2
    <3>4. 1 \in DOMAIN Tail(todo)
      <4>1. \A n \in Nat \ {0} : n # 1 => 1 \in 1 .. n - 1
        OBVIOUS
      <4>2. Len(todo) # 1
        BY <3>1
      <4> QED
        BY <3>2, <4>1, <4>2
    <3>5. page # "shown" => OffOrder(r)'
      <4> SUFFICES ASSUME page # "shown" PROVE OffOrder(r)'
        OBVIOUS
      <4>1. OffOrder(handler[h])
        BY <1>1 DEF HandlerOrder
      <4>2. r.do = "keep" /\ handler[h].do = "keep"
        BY <3>1, <4>1 DEF OffOrder
      <4>3. handler[h].at = "ok"
        BY <1>0, <1>1, <4>2 DEF HandlerOrder
      <4>4. \A j \in DOMAIN todo : todo[j].order + 2 = Cardinality(DOMAIN server) + j
        BY <4>1, <4>2, <4>3 DEF OffOrder
      <4>5. ASSUME NEW j \in DOMAIN Tail(todo) PROVE Tail(todo)[j].order + 1 = Cardinality(DOMAIN server) + j
        <5>1. Tail(todo)[j].order + 2 = Cardinality(DOMAIN server) + (j + 1)
          BY <3>2, <4>4
        <5>2. Tail(todo)[j].order \in Nat /\ j \in Nat /\ Cardinality(DOMAIN server) \in Nat
          <6>1. IsFiniteSet(1 .. MaxFields)
            BY BoundsNat, FS_Interval
          <6>2. IsFiniteSet(DOMAIN server)
            BY <6>1, FS_Subset, TypesParts DEF DataOK
          <6> QED
            BY <3>2, <3>3, <6>2, FS_CardinalityType
        <5>3. \A a, c, k \in Nat : a + 2 = c + (k + 1) => a + 1 = c + k
          OBVIOUS
        <5> HIDE DEF todo
        <5> QED
          BY <5>1, <5>2, <5>3
      <4> QED
        BY <1>0, <3>1, <4>2, <4>5 DEF OffOrder
    <3>6. Held(r.todo[1])'
      BY <3>1, <3>3, <3>4 DEF Held
    <3> QED
      BY <1>0, <3>1, <3>5, <3>6, KindFacts DEF HandlerOrder
  <2> QED
    BY <2>1, <2>2
<1>4. page = "shown" /\ Quiet => Rising(fields')
  BY <1>2, RisingSame DEF Orders
<1> QED
  BY <1>0, <1>2, <1>3, <1>4, OrdersOn

LEMMA OrdersGenerated ==
  ASSUME Types, Types', Turns, Orders, NEW h \in Slot, NEW r \in Handler, Went(h, r), GenerateDone(h, r), ~gap'
  PROVE  Orders'
<1>0. PICK new \in Seq(Row), todo \in Seq(Row) : Grown(h, new, todo, r)
  BY DEF GenerateDone
<1>1. /\ handler' = [handler EXCEPT ![h] = r] /\ handler[h].do = "generate" /\ handler[h] # Idle
      /\ UNCHANGED <<server, page>> /\ handler[h].start \in Nat /\ r.do \in {"idle", "keep"}
      /\ fields \in Seq(Row) /\ HandlerOrder(handler[h])
  BY <1>0, AnsweredFacts, Values, TypesParts DEF Went, GenerateDone, Grown, data, ListOK, Orders
<1>2. /\ \A i \in DOMAIN new : ~Saved(new[i]) /\ new[i].order = handler[h].start + i - 1
      /\ \A j \in DOMAIN todo : ~Saved(todo[j])
  BY <1>0 DEF Grown, Saved
<1>3. HandlerOrder(r)'
  <2>1. CASE r = Idle
    BY <2>1, Values, OrderFree
  <2>2. CASE r # Idle
    <3>1. r.do = "keep" /\ r.at = "asked" /\ r.todo = todo /\ todo # <<>>
      BY <1>0, <2>2 DEF Grown
    <3>2. Held(r.todo[1])'
      <4>1. 1 \in DOMAIN todo
        BY <3>1, HeadFacts
      <4> QED
        BY <1>2, <3>1, <4>1 DEF Held
    <3>3. page # "shown" => OffOrder(r)'
      <4> SUFFICES ASSUME page # "shown" PROVE OffOrder(r)'
        OBVIOUS
      <4>1. ~Shown(h)
        BY <1>1, OnShown DEF Shown
      <4>2. todo = new
        BY <1>0, <4>1 DEF Grown
      <4>3. handler[h].start = Cardinality(DOMAIN server)
        BY <1>1 DEF HandlerOrder, OffOrder
      <4>4. \A j \in DOMAIN new : new[j].order + 1 = Cardinality(DOMAIN server) + j
        <5>1. \A j \in DOMAIN new : j \in Nat
          OBVIOUS
        <5> QED
          BY <1>1, <1>2, <4>3, <5>1
      <4> QED
        BY <1>1, <3>1, <4>2, <4>4 DEF OffOrder
    <3> QED
      BY <1>1, <3>1, <3>2, <3>3, KindFacts DEF HandlerOrder
  <2> QED
    BY <2>1, <2>2
<1>4. \A g \in Slot \ {h} : handler[g].do # "generate"
  BY <1>1 DEF Turns
<1>5. CASE Shown(h)
  <2>1. page = "shown" /\ fields' = fields \o new /\ handler[h].start = Len(fields)
    BY <1>0, <1>1, <1>5, OnShown DEF Grown, Shown, HandlerOrder
  <2>2. page = "shown" /\ Quiet => Rising(fields')
    BY <1>1, <1>2, <2>1, RisingOn DEF Orders
  <2>3. \A i \in DOMAIN fields' : Held(fields'[i])
    <3>1. \A i \in DOMAIN fields' : (\E k \in DOMAIN fields : fields'[i] = fields[k]) \/ (\E k \in DOMAIN new : fields'[i] = new[k])
      BY <1>1, <2>1
    <3> QED
      BY <1>2, <3>1 DEF Orders, Held
  <2> QED
    BY <1>1, <1>3, <1>4, <2>2, <2>3, OrdersOn
<1>6. CASE ~Shown(h)
  <2>1. UNCHANGED fields
    BY <1>0, <1>6 DEF Grown
  <2> QED
    BY <1>1, <1>3, <2>1, OrdersOn DEF Orders
<1> QED
  BY <1>5, <1>6

LEMMA OrdersContinue ==
  ASSUME Types, Types', Turns, Sole, Orders, NEW h \in Slot, NEW r \in Handler, HandlerStep(h, r), ~gap'
  PROVE  Orders'
<1>0. Went(h, r) /\ handler' = [handler EXCEPT ![h] = r] /\ UNCHANGED server
  BY DEF HandlerStep, Went, data
<1>1. CASE MetaDone(h, r) \/ TestDone(h, r) \/ MoveDone(h, r)
  <2>1. /\ UNCHANGED <<page, fields>> /\ (r.do \in {"move", "load"} <=> handler[h].do \in {"move", "load"})
        /\ (r.do = "idle" \/ (r.do = "load" /\ r.at = "asked"))
    BY <1>1, Values DEF MetaDone, TestDone, MoveDone
  <2>2. HandlerOrder(r)'
    BY <2>1, OrderFree
  <2> QED
    BY <1>0, <2>1, <2>2, OrdersOn DEF Orders
<1>2. ~DeleteDone(h, r)
  <2>1. HandlerOrder(handler[h])
    BY DEF Orders
  <2> QED
    BY <2>1 DEF DeleteDone, HandlerOrder
<1> QED
  BY <1>0, <1>1, <1>2, OrdersLoaded, OrdersSaved, OrdersGenerated DEF HandlerStep

\* The page is left.
LEMMA OrdersUnmounted ==
  ASSUME Types, Types', Turns, Sole, Agree, Orders, Unmounted, ~gap'
  PROVE  Orders'
<1>0. /\ UNCHANGED server /\ Lasting /\ page' # "shown" /\ DOMAIN fields' = {}
      /\ \A h \in Slot : handler'[h] = Idle \/
            (handler'[h].do = handler[h].do /\ handler'[h].at = handler[h].at /\ handler'[h].todo = handler[h].todo
               /\ handler'[h].start = handler[h].start /\ handler'[h].got = handler[h].got)
  BY DEF Unmounted, data, Lasting
<1>1. \A i \in DOMAIN fields : Saved(fields[i])
  <2>1. unsavedRows = <<>>
    BY DEF Unmounted
  <2> QED
    BY <2>1, UnsavedFacts, TypesParts DEF ListOK
<1>2. ASSUME NEW h \in Slot, page = "shown"
      PROVE  /\ handler[h].do \in Persist => handler[h].do = "save" /\ Saved(handler[h].todo[1])
             /\ handler[h].do # "delete"
  <2>1. HandlerOrder(handler[h]) /\ HandlerSole(handler[h])
    BY DEF Orders, Sole
  <2>2. handler[h].do # "delete"
    BY <2>1 DEF HandlerOrder
  <2>3. handler[h].do \in Persist => Saved(handler[h].todo[1])
    <3> SUFFICES ASSUME handler[h].do \in Persist PROVE Saved(handler[h].todo[1])
      OBVIOUS
    <3>1. handler[h].do \in OnRows /\ 1 \in DOMAIN handler[h].todo
      BY TodoFacts DEF OnRows
    <3>2. PICK i \in DOMAIN fields : Same(fields[i], handler[h].todo[1])
      BY <1>2, <3>1, RowsThere
    <3> QED
      BY <1>1, <3>2 DEF Same, Saved
  <2>4. handler[h].do \notin {"bulk", "keep"}
    <3> SUFFICES ASSUME handler[h].do \in {"bulk", "keep"} PROVE FALSE
      OBVIOUS
    <3>1. handler[h].do \in Persist /\ handler[h].do \in OnRows
      BY KindFacts DEF OnRows
    <3>2. 1 \in DOMAIN handler[h].todo
      BY <3>1, TodoFacts
    <3> QED
      BY <2>1, <2>3, <3>1, <3>2 DEF HandlerSole, Shape
  <2> QED
    BY <2>2, <2>3, <2>4, KindFacts
<1>3. page = "shown" /\ Quiet => StoredOrders /\ Cardinality(DOMAIN server) = Len(fields)
  <2> SUFFICES ASSUME page = "shown", Quiet PROVE StoredOrders /\ Cardinality(DOMAIN server) = Len(fields)
    OBVIOUS
  <2>1. \A h \in Slot : ~Inserted(handler[h]) /\ handler[h].do # "delete"
    BY <1>2 DEF Inserted
  <2> QED
    BY <1>1, <2>1, OrdersListed DEF Orders
<1>4. StoredOrders'
  BY <1>0, <1>3, StoredKept DEF Orders
<1>5. ASSUME NEW h \in Slot, NEW q, q = handler'[h] PROVE HandlerOrder(q)'
  <2>1. CASE q = Idle
    BY <2>1, Values, OrderFree
  <2>2. CASE q # Idle
    <3>1. PICK p : p = handler[h]
      OBVIOUS
    <3>2. q.do = p.do /\ q.at = p.at /\ q.todo = p.todo /\ q.start = p.start /\ q.got = p.got
      BY <1>0, <1>5, <2>2, <3>1
    <3>3. HandlerOrder(p)
      BY <3>1 DEF Orders
    <3>4. OffOrder(p)
      <4>1. CASE page = "shown"
        <5>1. p.do # "bulk" /\ p.do # "keep" /\ (p.do = "save" => Saved(p.todo[1]))
          BY <1>2, <3>1, <4>1, KindFacts
        <5>2. p.do = "generate" => p.start = Cardinality(DOMAIN server)
          <6> SUFFICES ASSUME p.do = "generate" PROVE p.start = Cardinality(DOMAIN server)
            OBVIOUS
          <6>1. \A g \in Slot : handler[g].do \notin {"move", "load"}
            BY <3>1 DEF Turns
          <6>2. Quiet
            BY <6>1 DEF Quiet, Working
          <6> QED
            BY <1>3, <3>3, <4>1, <6>2 DEF HandlerOrder
        <5> QED
          BY <5>1, <5>2 DEF OffOrder
      <4>2. CASE page # "shown"
        BY <3>3, <4>2 DEF HandlerOrder
      <4> QED
        BY <4>1, <4>2
    <3>5. OffOrder(q)'
      BY <1>0, <3>2, <3>4 DEF OffOrder
    <3>6. /\ q.do \in Persist => Held(q.todo[1])'
          /\ q.do \in Persist /\ q.at = "ok" => Held(q.got.rows[1])'
          /\ q.do = "load" /\ q.at = "ok" => Rising(q.got.rows) /\ \A i \in DOMAIN q.got.rows : Held(q.got.rows[i])'
      BY <1>0, <3>2, <3>3, HeldOn DEF HandlerOrder
    <3> QED
      BY <1>0, <3>2, <3>3, <3>5, <3>6 DEF HandlerOrder
  <2> QED
    BY <2>1, <2>2
<1>6. (\A h \in Slot : HandlerOrder(handler[h]))'
  BY <1>5, HandlersOrder
<1> QED
  BY <1>0, <1>4, <1>6 DEF Orders

LEMMA OrdersOpened ==
  ASSUME Types, Turns, Orders, NEW h \in Slot, NEW r \in Handler, Opened(h, r)
  PROVE  Orders'
<1>0. /\ UNCHANGED <<server, fields>> /\ Lasting /\ page # "shown" /\ page' # "shown" /\ r.do = "load" /\ r.at = "asked"
      /\ (\A g \in Slot : handler[g] = Idle) /\ handler' = [handler EXCEPT ![h] = r]
  BY DEF Opened, Began, data, Lasting
<1>1. StoredOrders'
  BY <1>0, StoredKept DEF Orders
<1>2. ASSUME NEW g \in Slot, NEW q, q = handler'[g] PROVE HandlerOrder(q)'
  <2>1. q = r \/ q = Idle
    BY <1>0, <1>2, TypesParts DEF HandlersOK
  <2> QED
    BY <1>0, <2>1, Values, OrderFree
<1>3. (\A g \in Slot : HandlerOrder(handler[g]))'
  BY <1>2, HandlersOrder
<1>4. DOMAIN fields' = {}
  BY <1>0 DEF Turns
<1> QED
  BY <1>0, <1>1, <1>3, <1>4 DEF Orders

FaultsInv == faults = 0 => exists /\ ~unsure
OrdersInv == ~gap /\ faults = 0 => Orders

\* What takes the blueprint away or loses an answer is counted.
LEMMA Counted ==
  ASSUME [Next]_vars
  PROVE  faults' = faults + 1 \/ UNCHANGED <<faults, exists, unsure>>
<1>1. ASSUME NEW h \in Slot, Serve(h) \/ Refuse(h) \/ Unheard(h)
      PROVE  faults' = faults + 1 \/ UNCHANGED <<faults, exists, unsure>>
  BY <1>1 DEF Serve, Refuse, Unheard, Effect, update_blueprint, create_field, update_field, delete_field, get_blueprint,
         reorder_fields, generate_fields, test_blueprint, NotFound, data, bounds
<1>2. ASSUME NEW h \in Slot, Continue(h) PROVE UNCHANGED <<faults, exists, unsure>>
  BY <1>2 DEF Continue, data, bounds
<1>3. CASE UNCHANGED vars
  BY <1>3 DEF vars, data, bounds
<1> QED
  BY <1>1, <1>2, <1>3 DEF Next, Open, Leave, GoUpload, DeleteBlueprint, addRow, saveAllUnsaved, handleGenerate, handleTest,
         updateMeta, updateRow, saveRow, deleteRow, moveRow, Unmount, data, bounds, Operation

\* A hole in the orders stays.
LEMMA Gaps == ASSUME [Next]_vars, ~gap' PROVE ~gap
<1>1. ASSUME NEW h \in Slot, Continue(h) PROVE ~gap
  BY <1>1 DEF Continue, RowsGenerated
<1> QED
  BY <1>1 DEF Next, vars, Open, Leave, GoUpload, DeleteBlueprint, addRow, saveAllUnsaved, handleGenerate, handleTest,
         updateMeta, updateRow, saveRow, deleteRow, moveRow, Unmount, Serve, Refuse, Unheard

LEMMA NextFaults ==
  ASSUME Types, FaultsInv, [Next]_vars
  PROVE  FaultsInv' /\ (faults' = 0 => faults = 0 /\ UNCHANGED faults)
<1>1. faults \in Nat
  BY TypesParts, BoundsNat DEF RestOK
<1>2. faults' = 0 => UNCHANGED <<faults, exists, unsure>>
  BY <1>1, Counted
<1> QED
  BY <1>2 DEF FaultsInv

LEMMA NextOrders ==
  ASSUME Patient, Types, Types', Turns, SoleInv, AgreeInv, FaultsInv, OrdersInv, [Next]_vars
  PROVE  OrdersInv'
<1> SUFFICES ASSUME ~gap', faults' = 0 PROVE Orders'
  BY DEF OrdersInv
<1>0. faults = 0 /\ UNCHANGED faults /\ exists /\ ~unsure /\ ~gap /\ Sole /\ Agree /\ Orders
  BY NextFaults, Gaps DEF FaultsInv, SoleInv, AgreeInv, OrdersInv
<1>1. CASE UNCHANGED vars
  <2>1. UNCHANGED <<server, page, fields, handler>>
    BY <1>1 DEF vars, data, screen
  <2>2. Lasting
    BY <2>1 DEF Lasting
  <2>3. ASSUME NEW g \in Slot, NEW q, q = handler'[g] PROVE HandlerOrder(q)'
    <3>1. HandlerOrder(q)
      BY <1>0, <2>1, <2>3 DEF Orders
    <3> QED
      BY <2>1, <2>2, <3>1, HandlerOrderKept
  <2>4. (\A g \in Slot : HandlerOrder(handler[g]))'
    BY <2>3, HandlersOrder
  <2>5. Quiet' <=> Quiet
    BY <2>1 DEF Quiet, Working
  <2> QED
    BY <1>0, <2>1, <2>4, <2>5, StoredKept DEF Orders, Rising, Held
<1>2. CASE Unmounted
  BY <1>0, <1>2, OrdersUnmounted
<1>3. CASE Gone
  BY <1>0, <1>3 DEF Gone
<1>4. CASE UserStep
  BY <1>0, <1>4, OrdersUser
<1>5. ASSUME NEW h \in Slot, Replied(h) PROVE Orders'
  <2>1. PICK r \in Handler : Echo(h, r) /\ Heeded(h, r)
    BY <1>0, <1>5 DEF Replied
  <2> QED
    BY <1>0, <2>1, OrdersHeeded
<1>6. ASSUME NEW h \in Slot, NEW r \in Handler, Opened(h, r) PROVE Orders'
  BY <1>0, <1>6, OrdersOpened
<1>7. ASSUME NEW h \in Slot, NEW r \in Handler, HandlerStep(h, r) PROVE Orders'
  BY <1>0, <1>7, OrdersContinue
<1> QED
  BY <1>1, <1>2, <1>3, <1>4, <1>5, <1>6, <1>7, Steps

LEMMA InitOrders == Init => FaultsInv /\ OrdersInv
<1> SUFFICES ASSUME Init PROVE FaultsInv /\ Orders
  BY DEF OrdersInv
<1>1. /\ DOMAIN server = {} /\ DOMAIN fields = {} /\ page # "shown" /\ \A h \in Slot : handler[h] = Idle
      /\ exists /\ ~unsure
  BY DEF Init
<1>2. \A h \in Slot : HandlerOrder(handler[h])
  BY <1>1, Values, KindFacts DEF HandlerOrder, OffOrder
<1> QED
  BY <1>1, <1>2 DEF FaultsInv, Orders, StoredOrders

LEMMA OrdersAlways ==
  ASSUME Patient
  PROVE  Spec => [](Types /\ Turns /\ FaultsInv /\ OrdersInv)
<1>1. (Types /\ Turns /\ SoleInv /\ AgreeInv) /\ Types' /\ FaultsInv /\ OrdersInv /\ [Next]_vars => FaultsInv' /\ OrdersInv'
  BY NextFaults, NextOrders
<1> QED
  BY <1>1, InitOrders, AgreeAlways, PTL DEF Spec

\* As long as no row is deleted, or lost unsaved, and no request fails, the rows of the page
\* stand in the order the server will give them back in, however saves, prompts, moves and
\* visits of the page follow one another (addRow, saveRow, handleGenerate and moveRow against
\* ORDER BY sort_order), when the user was patient.
THEOREM OrderAlwaysKept ==
  ASSUME Patient
  PROVE  Spec => []OrderKept
<1>1. ASSUME Turns, OrdersInv PROVE OrderKept
  <2>1. page # "shown" => DOMAIN fields = {}
    BY <1>1 DEF Turns
  <2> QED
    BY <1>1, <2>1 DEF OrdersInv, Orders, Quiet, Rising, OrderKept
<1> QED
  BY <1>1, OrdersAlways, PTL

=============================================================================
