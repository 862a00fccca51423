-------------------------- MODULE BlueprintBuilder --------------------------
(***************************************************************************)
(* The blueprint editor: one browser page with its rows, the asynchronous  *)
(* handlers behind its buttons, and the endpoints that keep the fields.    *)
(* A handler sends a request, waits, and goes on with what it captured     *)
(* when it was started, while the user goes on using the page. A handler   *)
(* of a page that was left runs to its end, only its set-state calls do    *)
(* nothing.                                                                *)
(*                                                                         *)
(* A row's key, label, type and the rest are one text, Blank when the key  *)
(* or the label is missing. Left out: the prompt box and the mode switch.  *)
(***************************************************************************)
EXTENDS Naturals, Sequences, FiniteSets, Functions

CONSTANTS
  Text,         \* what the user or Gemini may write in a row
  Slot,         \* bound: handlers that may be under way at once, 1 .. n
  MaxRows,      \* bound: rows ever made on the page
  Generated,    \* bound: rows one prompt generates
  MaxFields,    \* bound: fields ever made on the server
  MaxOps,       \* bound: operations of the user, what is typed in a row apart
  MaxOpens,     \* bound: times the page is opened again
  MaxFaults,    \* bound: requests that fail, or whose answer is lost
  Patient       \* the user leaves alone what a request is under way for

ASSUME BuilderAssumption ==
  /\ {MaxRows, Generated, MaxFields, MaxOps, MaxOpens, MaxFaults} \subseteq Nat
  /\ Patient \in BOOLEAN /\ Slot \subseteq Nat /\ IsFiniteSet(Slot)

Blank == "blank"
NoId  == 0
NoKey == <<"none", 0>>
Key   == {NoKey} \cup ({"new"} \X (1 .. MaxRows)) \cup ({"id"} \X (1 .. MaxFields))
Row   == [key : Key, id : 0 .. MaxFields, text : Text \cup {Blank}, order : Nat]
Meta  == [thinking : BOOLEAN, override : BOOLEAN]
Patch == [column : {"none", "thinking", "override"}, value : BOOLEAN]

VARIABLES
  \* the server
  server,       \* the stored fields: a function on their ids
  stored,       \* the blueprint's own columns
  exists,       \* the blueprint has a row
  made,         \* how many fields each row made on the page was stored as
  nextId,
  \* the page
  page,         \* "loading", "shown", "missing", "upload" or "left"
  fields, shownMeta,
  savingMeta, generating, testing, rowBusy, savingAll,
  nextTemp,     \* the module's tempId, which outlives the page
  handler,      \* the handlers under way
  \* what has happened
  unsure,       \* a request took effect and the page was told otherwise
  gap,          \* a row was deleted or left unsaved: the orders have a hole
  ops, opens, faults

data   == <<server, stored, exists, made, nextId>>
flags  == <<savingMeta, generating, testing, rowBusy, savingAll>>
screen == <<page, fields, shownMeta, flags>>
bounds == <<ops, opens, faults>>
vars   == <<data, screen, nextTemp, handler, unsure, gap, bounds>>

Idle    == [do |-> "idle"]
Off     == [thinking |-> FALSE, override |-> FALSE]
NoPatch == [column |-> "none", value |-> FALSE]
Nothing == [rows |-> <<>>, meta |-> Off]
Persist == {"save", "bulk", "keep"}       \* persistField is under way
OnList  == Persist \cup {"generate", "delete", "move", "load"}
Handler ==
  {Idle} \cup [do : OnList \cup {"meta", "test"}, on : BOOLEAN, at : {"asked", "ok", "no"},
               todo : Seq(Row), start : Nat, patch : Patch, got : [rows : Seq(Row), meta : Meta]]

TypeOK ==
  /\ DOMAIN server \subseteq 1 .. MaxFields
  /\ \A i \in DOMAIN server : server[i] \in [text : Text, order : Nat]
  /\ stored \in Meta /\ shownMeta \in Meta /\ exists \in BOOLEAN
  /\ made \in [1 .. MaxRows -> Nat] /\ nextId \in 1 .. MaxFields + 1
  /\ page \in {"loading", "shown", "missing", "upload", "left"}
  /\ fields \in Seq(Row) /\ rowBusy \in Key
  /\ {savingMeta, generating, testing, savingAll} \subseteq BOOLEAN
  /\ nextTemp \in 1 .. MaxRows + 1
  /\ handler \in [Slot -> Handler]
  /\ unsure \in BOOLEAN /\ gap \in BOOLEAN
  /\ ops \in 0 .. MaxOps /\ opens \in 0 .. MaxOpens /\ faults \in 0 .. MaxFaults

-----------------------------------------------------------------------------
(* Rows and handlers. *)

\* The rows at the positions in I, in the order they stand in.
Nth(I, n)   == CHOOSE i \in I : Cardinality({j \in I : j <= i}) = n
At(rows, I) == [n \in 1 .. Cardinality(I) |-> rows[Nth(I, n)]]

Saved(row)     == row.id # NoId
unsavedRows    == At(fields, {i \in DOMAIN fields : ~Saved(fields[i])})
KeysOf(rows)   == {rows[i].key : i \in DOMAIN rows}
MutComplete(rows) == rows                                       \* validation dropped
Complete(rows) == At(rows, {i \in DOMAIN rows : rows[i].text # Blank})
MutblankField(n, text, order) ==                                \* no sort_order
  [key |-> <<"new", n>>, id |-> NoId, text |-> text, order |-> 0]
blankField(n, text, order) == [key |-> <<"new", n>>, id |-> NoId, text |-> text, order |-> order]
FromServer(id, field) == [key |-> <<"id", id>>, id |-> id, text |-> field.text, order |-> field.order]

\* The rows with every row of that key replaced by what stands at its place in new.
Replaced(key, new) == [i \in DOMAIN fields |-> IF fields[i].key = key THEN new[i] ELSE fields[i]]
Without(key)         == At(fields, {i \in DOMAIN fields : fields[i].key # key})

Working(kinds) == \E h \in Slot : handler[h].do \in kinds
Touched == UNION {KeysOf(handler[h].todo) : h \in {k \in Slot : handler[k].do \in OnList}}

\* The patient user's restraint: no row whose request is under way, and nothing while a
\* move and the reload after it are.
Free(keys) == Patient => keys \cap Touched = {} /\ ~Working({"move", "load"})

\* A handler starts, on the page that is open, and sends its first request.
Start(do, todo, start, patch) ==
  \E h \in Slot :
  /\ handler[h] = Idle /\ \A l \in Slot : handler[l] = Idle => h <= l
  /\ handler' = [handler EXCEPT ![h] = [do |-> do, on |-> TRUE, at |-> "asked",
                                     todo |-> todo, start |-> start, patch |-> patch,
                                     got |-> Nothing]]

\* The bound on rows leaves room for those that are being generated.
Room(n) == nextTemp + n - 1 + Generated * Cardinality({h \in Slot : handler[h].do = "generate"}) <= MaxRows

\* The user does something on the page.
Operation == page = "shown" /\ ops < MaxOps /\ ops' = ops + 1

-----------------------------------------------------------------------------
(* What the user does. *)

Init ==
  /\ server = <<>> /\ stored = Off /\ exists = TRUE
  /\ made = [n \in 1 .. MaxRows |-> 0] /\ nextId = 1
  /\ page = "left" /\ fields = <<>> /\ shownMeta = Off
  /\ savingMeta = FALSE /\ generating = FALSE /\ testing = FALSE
  /\ rowBusy = NoKey /\ savingAll = FALSE
  /\ nextTemp = 1 /\ handler = [h \in Slot |-> Idle]
  /\ unsure = FALSE /\ gap = FALSE
  /\ ops = 0 /\ opens = 0 /\ faults = 0

\* The page is mounted and loads the blueprint.
Open ==
  /\ page \in {"upload", "left"} /\ opens < MaxOpens
  /\ Patient => \A h \in Slot : handler[h] = Idle
  /\ page' = "loading" /\ opens' = opens + 1
  /\ Start("load", <<>>, 0, NoPatch)
  /\ UNCHANGED <<data, fields, shownMeta, flags, nextTemp, unsure, gap, ops, faults>>

updateMeta(column) ==
  /\ Operation
  /\ column = "thinking" => ~savingMeta          \* the text area is never disabled
  /\ Patient => ~Working({"meta", "move", "load"})
  /\ \E value \in BOOLEAN :
       /\ column = "thinking" => value = ~shownMeta.thinking     \* it toggles what is shown
       /\ Start("meta", <<>>, 0, [column |-> column, value |-> value])
  /\ savingMeta' = TRUE
  /\ UNCHANGED <<data, page, fields, shownMeta, generating, testing, rowBusy, savingAll,
                 nextTemp, unsure, gap, opens, faults>>

updateRow(i) ==
  /\ page = "shown" /\ Free({fields[i].key})
  /\ \E text \in (Text \cup {Blank}) \ {fields[i].text} : fields' = [fields EXCEPT ![i].text = text]
  /\ UNCHANGED <<data, page, shownMeta, flags, nextTemp, handler, unsure, gap, bounds>>

addRow ==
  /\ Operation /\ Room(1)
  /\ Free({}) /\ (Patient => ~Working({"generate"}))
  /\ fields' = Append(fields, blankField(nextTemp, Blank, Len(fields)))
  /\ nextTemp' = nextTemp + 1
  /\ UNCHANGED <<data, page, shownMeta, flags, handler, unsure, gap, opens, faults>>

\* A row that is not complete makes persistField throw before it sends anything.
saveRow(i) ==
  LET row == fields[i] IN
  /\ Operation /\ rowBusy # row.key /\ Free({row.key})
  /\ \/ row.text = Blank /\ rowBusy' = NoKey /\ UNCHANGED handler
     \/ row.text # Blank /\ rowBusy' = row.key /\ Start("save", <<row>>, 0, NoPatch)
  /\ UNCHANGED <<data, page, fields, shownMeta, savingMeta, generating, testing, savingAll,
                 nextTemp, unsure, gap, opens, faults>>

saveAllUnsaved ==
  LET todo == Complete(unsavedRows) IN
  /\ Operation /\ unsavedRows # <<>> /\ ~savingAll /\ Free(KeysOf(unsavedRows))
  /\ \/ todo = <<>> /\ UNCHANGED <<savingAll, handler>>
     \/ todo # <<>> /\ savingAll' = TRUE /\ Start("bulk", todo, 0, NoPatch)
  /\ UNCHANGED <<data, page, fields, shownMeta, savingMeta, generating, testing, rowBusy,
                 nextTemp, unsure, gap, opens, faults>>

deleteRow(i) ==
  LET row == fields[i] IN
  /\ Operation /\ Free({row.key})
  /\ gap' = TRUE
  /\ \/ ~Saved(row) /\ fields' = Without(row.key) /\ UNCHANGED <<rowBusy, handler>>
     \/ Saved(row) /\ rowBusy' = row.key /\ Start("delete", <<row>>, 0, NoPatch) /\ UNCHANGED fields
  /\ UNCHANGED <<data, page, shownMeta, savingMeta, generating, testing, savingAll,
                 nextTemp, unsure, opens, faults>>

\* Refused on the spot while a row is unsaved.
moveRow(i) ==
  LET swapped == [fields EXCEPT ![i] = fields[i + 1], ![i + 1] = fields[i]] IN
  /\ Operation /\ i + 1 \in DOMAIN fields /\ unsavedRows = <<>>
  /\ Patient => ~Working(OnList \cup {"meta"})
  /\ fields' = swapped
  /\ Start("move", swapped, 0, NoPatch)
  /\ UNCHANGED <<data, page, shownMeta, flags, nextTemp, unsure, gap, opens, faults>>

\* The order of the rows to come is fixed here, by the list the click saw.
handleGenerate ==
  /\ Operation /\ Room(Generated) /\ ~generating /\ Free({})
  /\ generating' = TRUE
  /\ Start("generate", <<>>, Len(fields), NoPatch)
  /\ UNCHANGED <<data, page, fields, shownMeta, savingMeta, testing, rowBusy, savingAll,
                 nextTemp, unsure, gap, opens, faults>>

handleTest ==
  /\ Operation /\ ~testing
  /\ testing' = TRUE
  /\ Start("test", fields, 0, NoPatch)
  /\ UNCHANGED <<data, page, fields, shownMeta, savingMeta, generating, rowBusy, savingAll,
                 nextTemp, unsure, gap, opens, faults>>

\* The page is unmounted: its state goes, its handlers stay.
Unmount(next) ==
  /\ page' = next /\ fields' = <<>> /\ shownMeta' = Off
  /\ savingMeta' = FALSE /\ generating' = FALSE /\ testing' = FALSE
  /\ rowBusy' = NoKey /\ savingAll' = FALSE
  /\ handler' = [h \in Slot |-> IF handler[h] = Idle THEN Idle ELSE [handler[h] EXCEPT !.on = FALSE]]
  /\ gap' = (gap \/ unsavedRows # <<>>)
  /\ UNCHANGED <<data, nextTemp, unsure, opens, faults>>

\* "Upload with this blueprint", which an unsaved row or an empty list refuses.
GoUpload == Operation /\ unsavedRows = <<>> /\ fields # <<>> /\ Unmount("upload")

\* The breadcrumb, "Back", or any entry of the sidebar.
Leave == page \in {"loading", "shown", "missing"} /\ UNCHANGED ops /\ Unmount("left")

-----------------------------------------------------------------------------
(* What the server does. Each endpoint first looks the blueprint up; a     *)
(* field it does not find, or a blueprint that is gone, is a 404.          *)

Answer(h, at, got) == handler' = [handler EXCEPT ![h].at = at, ![h].got = got]

\* ORDER BY sort_order says nothing of fields with the same one.
_ordered_fields ==
  {s \in Bijection(1 .. Cardinality(DOMAIN server), DOMAIN server) :
     \A i, j \in DOMAIN s : i < j => server[s[i]].order <= server[s[j]].order}

\* The page does not look at the status: a 404 is an answer without rows.
get_blueprint(h) ==
  /\ handler[h].do = "load"
  /\ \/ exists /\ \E s \in _ordered_fields :
          Answer(h, "ok", [rows |-> [i \in DOMAIN s |-> FromServer(s[i], server[s[i]])], meta |-> stored])
     \/ ~exists /\ Answer(h, "ok", Nothing)
  /\ UNCHANGED data

update_blueprint(h, heard) ==
  LET patch == handler[h].patch IN
  /\ handler[h].do = "meta" /\ exists
  /\ stored' = [stored EXCEPT ![patch.column] = patch.value]
  /\ Answer(h, heard, [Nothing EXCEPT !.meta = stored'])
  /\ UNCHANGED <<server, exists, made, nextId>>

\* "times" is 2 when db_retry repeats an insert whose commit had gone through.
create_field(h, heard, times) ==
  LET row == Head(handler[h].todo)
      new == nextId .. nextId + times - 1
      field == [text |-> row.text, order |-> row.order]
  IN
  /\ handler[h].do \in Persist /\ ~Saved(row) /\ exists
  /\ nextId + times - 1 <= MaxFields
  /\ server' = [i \in DOMAIN server \cup new |-> IF i \in new THEN field ELSE server[i]]
  /\ nextId' = nextId + times
  /\ made' = [made EXCEPT ![row.key[2]] = @ + times]
  /\ Answer(h, heard, [Nothing EXCEPT !.rows = <<FromServer(nextId + times - 1, field)>>])
  /\ UNCHANGED <<stored, exists>>

update_field(h, heard) ==
  LET row == Head(handler[h].todo)
      field == [text |-> row.text, order |-> row.order]
  IN
  /\ handler[h].do \in Persist /\ row.id \in DOMAIN server
  /\ server' = [server EXCEPT ![row.id] = field]
  /\ Answer(h, heard, [Nothing EXCEPT !.rows = <<FromServer(row.id, field)>>])
  /\ UNCHANGED <<stored, exists, made, nextId>>

delete_field(h, heard) ==
  LET id == Head(handler[h].todo).id IN
  /\ handler[h].do = "delete" /\ id \in DOMAIN server
  /\ server' = [i \in DOMAIN server \ {id} |-> server[i]]
  /\ Answer(h, heard, Nothing)
  /\ UNCHANGED <<stored, exists, made, nextId>>

\* PATCH .../fields/reorder is matched by PATCH .../fields/{field_id}, which is declared
\* first: "reorder" is no UUID, and the request fails whatever it asks for.
reorder_fields(h) == handler[h].do = "move" /\ Answer(h, "no", Nothing) /\ UNCHANGED data

\* generate-fields writes nothing: it answers with rows, complete or not.
generate_fields(h) ==
  /\ handler[h].do = "generate" /\ exists
  /\ \E n \in 0 .. Generated : \E texts \in [1 .. n -> Text \cup {Blank}] :
       Answer(h, "ok", [Nothing EXCEPT !.rows =
         [i \in 1 .. n |-> [key |-> NoKey, id |-> NoId, text |-> texts[i], order |-> 0]]])
  /\ UNCHANGED data

\* The test extraction reads the rows it was sent.
test_blueprint(h) == handler[h].do = "test" /\ exists /\ Answer(h, "ok", Nothing) /\ UNCHANGED data

\* What the request finds is not there.
NotFound(h) ==
  /\ \/ handler[h].do \in {"meta", "generate", "test"} /\ ~exists
     \/ handler[h].do \in Persist /\ ~Saved(Head(handler[h].todo)) /\ ~exists
     \/ handler[h].do \in Persist \cup {"delete"} /\ Saved(Head(handler[h].todo))
          /\ Head(handler[h].todo).id \notin DOMAIN server
  /\ Answer(h, "no", Nothing)
  /\ UNCHANGED data

Effect(h, heard) ==
  \/ update_blueprint(h, heard) \/ create_field(h, heard, 1)
  \/ update_field(h, heard) \/ delete_field(h, heard)

Asked(h) == handler[h] # Idle /\ handler[h].at = "asked"

Serve(h) ==
  /\ Asked(h)
  /\ \/ Effect(h, "ok") \/ get_blueprint(h) \/ reorder_fields(h)
     \/ generate_fields(h) \/ test_blueprint(h) \/ NotFound(h)
  /\ UNCHANGED <<screen, nextTemp, unsure, gap, bounds>>

\* The request fails before it has any effect.
Refuse(h) ==
  /\ Asked(h) /\ faults < MaxFaults
  /\ faults' = faults + 1
  /\ Answer(h, "no", Nothing)
  /\ UNCHANGED <<data, screen, nextTemp, unsure, gap, ops, opens>>

\* It has its effect, and the answer is lost, or db_retry repeats the handler: a second
\* insert makes a second field, a second delete is answered with a 404.
Unheard(h) ==
  /\ Asked(h) /\ faults < MaxFaults
  /\ faults' = faults + 1 /\ unsure' = TRUE
  /\ Effect(h, "no") \/ create_field(h, "ok", 2)
  /\ UNCHANGED <<screen, nextTemp, gap, ops, opens>>

\* Somebody deletes the blueprint from another tab; its fields go with it.
DeleteBlueprint ==
  /\ exists /\ exists' = FALSE /\ server' = <<>>
  /\ faults < MaxFaults /\ faults' = faults + 1
  /\ UNCHANGED <<stored, made, nextId, screen, nextTemp, handler, unsure, gap, ops, opens>>

-----------------------------------------------------------------------------
(* What a handler does with its answer. *)

Ends(h)  == handler' = [handler EXCEPT ![h] = Idle]
Shown(h) == handler[h].on          \* its set-state calls reach the page
Heard(h) == Shown(h) /\ handler[h].at = "ok"

\* The finally clause takes the flag down.
MutStillBusy(flag, h) == flag /\ ~Heard(h)                       \* not in a finally clause
StillBusy(flag, h)    == flag /\ ~Shown(h)

\* What saveRow puts in the row's place: the answer, under the row's own key.
Merged(saved, row) == [saved EXCEPT !.key = row.key]

\* What is left to save, whether or not the page is still there.
MutPending(h) == IF Shown(h) THEN Tail(handler[h].todo) ELSE <<>>
Pending(h)    == Tail(handler[h].todo)

\* The list once a deletion is answered.
MutRemaining(h) == IF Shown(h) THEN Without(Head(handler[h].todo).key) ELSE fields   \* res.ok not looked at
Remaining(h)    == IF Heard(h) THEN Without(Head(handler[h].todo).key) ELSE fields

\* load, after mounting or after a move. Only a request that fails leads to "not found".
Loaded(h) ==
  /\ handler[h].do = "load" /\ Ends(h)
  /\ page' = IF Heard(h) THEN "shown" ELSE IF Shown(h) /\ page = "loading" THEN "missing" ELSE page
  /\ fields' = IF Heard(h) THEN handler[h].got.rows ELSE fields
  /\ shownMeta' = IF Heard(h) THEN handler[h].got.meta ELSE shownMeta
  /\ UNCHANGED <<flags, nextTemp>>

MetaUpdated(h) ==
  /\ handler[h].do = "meta" /\ Ends(h)
  /\ shownMeta' = IF Heard(h) THEN handler[h].got.meta ELSE shownMeta
  /\ savingMeta' = StillBusy(savingMeta, h)
  /\ UNCHANGED <<page, fields, generating, testing, rowBusy, savingAll, nextTemp>>

\* The row keeps its key, and takes the rest from the answer, whatever was typed since.
RowSaved(h) ==
  LET saved == handler[h].got.rows[1] IN
  /\ handler[h].do = "save" /\ Ends(h)
  /\ fields' = IF Heard(h)
                 THEN Replaced(Head(handler[h].todo).key, [i \in DOMAIN fields |-> Merged(saved, fields[i])])
                 ELSE fields
  /\ rowBusy' = IF Shown(h) THEN NoKey ELSE rowBusy
  /\ UNCHANGED <<page, shownMeta, savingMeta, generating, testing, savingAll, nextTemp>>

\* Save all, and the rows just generated: one after the other, past those that fail.
NextSaved(h) ==
  LET saved == handler[h].got.rows[1]
      rest  == Pending(h)
      done  == rest = <<>>
  IN
  /\ handler[h].do \in {"bulk", "keep"}
  /\ fields' = IF Heard(h) THEN Replaced(Head(handler[h].todo).key, [i \in DOMAIN fields |-> saved])
                           ELSE fields
  /\ handler' = [handler EXCEPT ![h] = IF done THEN Idle
                    ELSE [handler[h] EXCEPT !.at = "asked", !.todo = rest, !.got = Nothing]]
  /\ savingAll'  = IF done /\ handler[h].do = "bulk" THEN StillBusy(savingAll, h)  ELSE savingAll
  /\ generating' = IF done /\ handler[h].do = "keep" THEN StillBusy(generating, h) ELSE generating
  /\ UNCHANGED <<page, shownMeta, savingMeta, testing, rowBusy, nextTemp>>

RowDeleted(h) ==
  /\ handler[h].do = "delete" /\ Ends(h)
  /\ fields' = Remaining(h)
  /\ rowBusy' = IF Shown(h) THEN NoKey ELSE rowBusy
  /\ UNCHANGED <<page, shownMeta, savingMeta, generating, testing, savingAll, nextTemp>>

\* The move was shown before it was asked for; what the server has is loaded again.
MoveFailed(h) ==
  /\ handler[h].do = "move"
  /\ handler' = [handler EXCEPT ![h].do = "load", ![h].at = "asked", ![h].todo = <<>>]
  /\ UNCHANGED <<screen, nextTemp>>

\* The rows are appended unsaved, and the same handler goes on to save them; on a page that
\* was left, those that are not complete are gone.
RowsGenerated(h) ==
  LET got     == handler[h].got.rows
      newRows == [i \in DOMAIN got |-> blankField(nextTemp + i - 1, got[i].text, handler[h].start + i - 1)]
      todo    == Complete(newRows)
  IN
  /\ handler[h].do = "generate"
  /\ fields' = IF Shown(h) THEN fields \o newRows ELSE fields
  /\ nextTemp' = nextTemp + Len(got)
  /\ handler' = [handler EXCEPT ![h] = IF todo = <<>> THEN Idle
                    ELSE [handler[h] EXCEPT !.do = "keep", !.at = "asked", !.todo = todo,
                                            !.got = Nothing]]
  /\ generating' = IF todo = <<>> THEN StillBusy(generating, h) ELSE generating
  /\ gap' = (gap \/ (~Shown(h) /\ todo # newRows))
  /\ UNCHANGED <<page, shownMeta, savingMeta, testing, rowBusy, savingAll>>

Tested(h) ==
  /\ handler[h].do = "test" /\ Ends(h)
  /\ testing' = StillBusy(testing, h)
  /\ UNCHANGED <<page, fields, shownMeta, savingMeta, generating, rowBusy, savingAll, nextTemp>>

Continue(h) ==
  /\ handler[h] # Idle /\ handler[h].at # "asked"
  /\ \/ /\ \/ Loaded(h) \/ MetaUpdated(h) \/ RowSaved(h) \/ NextSaved(h)
           \/ RowDeleted(h) \/ MoveFailed(h) \/ Tested(h)
        /\ UNCHANGED gap
     \/ RowsGenerated(h)
  /\ UNCHANGED <<data, unsure, bounds>>

-----------------------------------------------------------------------------

Next ==
  \/ Open \/ Leave \/ GoUpload \/ DeleteBlueprint
  \/ addRow \/ saveAllUnsaved \/ handleGenerate \/ handleTest
  \/ \E column \in {"thinking", "override"} : updateMeta(column)
  \/ \E i \in DOMAIN fields : updateRow(i) \/ saveRow(i) \/ deleteRow(i) \/ moveRow(i)
  \/ \E h \in Slot : Serve(h) \/ Refuse(h) \/ Unheard(h) \/ Continue(h)

\* The server answers what it is asked, and the browser runs what waits for an answer.
Spec == Init /\ [][Next]_vars
          /\ \A h \in Slot : WF_vars(Serve(h)) /\ WF_vars(Continue(h))

-----------------------------------------------------------------------------
(* Properties. *)

ShownIds == {fields[i].id : i \in DOMAIN fields} \ {NoId}

\* When nothing is under way for the list, the page shows the fields the blueprint has, no
\* more and no fewer, and its columns (load, saveRow, saveAllUnsaved, deleteRow, moveRow and
\* handleGenerate against the endpoints), unless an answer was lost or the blueprint is gone.
ScreenAgrees ==
  (page = "shown" /\ exists /\ ~unsure /\ ~Working(OnList \cup {"meta"}))
     => ShownIds = DOMAIN server /\ shownMeta = stored

\* Until a row is deleted, or left unsaved, the rows stand in the order the server will give
\* them back in: sort_order is taken from the length of a list (addRow, handleGenerate). When
\* the reload after a move fails, the page keeps the order it asked for in vain.
OrderKept ==
  (~gap /\ faults = 0 /\ ~Working({"move", "load"}))
     => \A i, j \in DOMAIN fields : i < j => fields[i].order < fields[j].order

Busy == savingMeta \/ generating \/ testing \/ savingAll \/ rowBusy # NoKey

\* Whatever fails, no button stays disabled.
BusyEnds == Busy ~> ~Busy

\* Every complete row a prompt generated becomes a field, also when the user leaves the page
\* at once, unless a request fails (handleGenerate's "Persist immediately").
GeneratedKept ==
  \A n \in 1 .. MaxRows :
     (\E h \in Slot : handler[h].do = "keep" /\ <<"new", n>> \in KeysOf(handler[h].todo))
        ~> (made[n] > 0 \/ faults > 0)
=============================================================================
