----------------------------- MODULE Checklists -----------------------------
(***************************************************************************)
(* Checklists of cards and their items: tables checklists and              *)
(* checklist_items, and the requests of internal/service/                  *)
(* checklist_service.go.                                                   *)
(*                                                                         *)
(* A checklist lies under a card as an item lies under a checklist: both   *)
(* get their position from MAX(position) of the rows beside them, read one *)
(* statement before the INSERT, and both are found again, with what they   *)
(* lie under, before they are changed.  So both are rows of one relation   *)
(* here.  No transaction holds two statements together.                    *)
(*                                                                         *)
(* Left out: titles, assignees and due dates, which no check reads; who    *)
(* may do what: an access check may pass or refuse at any time (module     *)
(* Cards has the roles); and the activity log.                             *)
(***************************************************************************)
EXTENDS FiniteSetsExt

CONSTANTS Workers, Cards, Checklists, Items, None

Rows == Checklists \cup Items

ASSUME RowsAssumption ==
    /\ Checklists \cap Items = {} /\ Cards \cap Rows = {}
    /\ None \notin Cards \cup Rows

VARIABLES
    under,     \* under[n]: card_id of a checklist, checklist_id of an item,
               \*           None: no such row
    position,  \* position[n]: in units of InitialGap, 0: no such row
    done,      \* items with is_completed (and completed_at, completed_by)
    retired,   \* rows that were deleted; ids are not used again
    req,       \* req[w]: the request worker w is serving
    older,     \* history: older[n]: the rows n's position was to exceed
    crossed    \* history: workers whose item was toggled by somebody else
               \*          since they read it

table == <<under, position, done, retired>>
vars == <<table, req, older, crossed>>

Ops == {"create", "edit", "delete", "toggle"}
Requests == [pc : {"idle", "access", "max", "insert", "write", "read", "toggle"},
             op : Ops,
             row : Rows \cup {None},
             into : Cards \cup Checklists \cup {None},  \* what row lies under
             max : Nat,           \* MAX(position) as read
             beside : SUBSET Rows, \* history: the rows it was read from
             wasDone : BOOLEAN]   \* is_completed as last read
Idle == [pc |-> "idle", op |-> "edit", row |-> None, into |-> None,
         max |-> 0, beside |-> {}, wasDone |-> FALSE]

TypeOK ==
    /\ under \in [Rows -> Cards \cup Checklists \cup {None}]
    /\ \A n \in Rows : under[n] # None => (n \in Items <=> under[n] \in Checklists)
    /\ position \in [Rows -> Nat]
    /\ \A n \in Rows : under[n] # None <=> position[n] > 0
    /\ done \in SUBSET {i \in Items : under[i] # None}
    /\ retired \in SUBSET {n \in Rows : under[n] = None}
    /\ req \in [Workers -> Requests]
    /\ older \in [Rows -> SUBSET Rows]
    /\ crossed \in SUBSET {w \in Workers : req[w].pc = "toggle"}

Init ==
    /\ under = [n \in Rows |-> None]
    /\ position = [n \in Rows |-> 0]
    /\ done = {} /\ retired = {}
    /\ req = [w \in Workers |-> Idle]
    /\ older = [n \in Rows |-> {}]
    /\ crossed = {}

-----------------------------------------------------------------------------
\* Cards are archived but never deleted.
Exists(p) == p \in Cards \/ (p \in Checklists /\ under[p] # None)
RowsUnder(p) == {n \in Rows : under[n] = p}

Become(w, r) == req' = [req EXCEPT ![w] = r]
Goto(w, from, to) ==
    /\ req[w].pc = from
    /\ Become(w, IF to = "idle" THEN Idle ELSE [req[w] EXCEPT !.pc = to])

\* FindByID of the checklist an item is to lie under, or of the row the
\* request is about.
Start(w) ==
    /\ req[w].pc = "idle"
    /\ \/ \E p \in Cards \cup Checklists :
             /\ Exists(p)
             /\ Become(w, [Idle EXCEPT !.pc = "access", !.op = "create", !.into = p])
       \/ \E n \in Rows, op \in Ops \ {"create"} :
             /\ under[n] # None /\ (op = "toggle" => n \in Items)
             /\ Become(w, [Idle EXCEPT !.pc = "access", !.op = op, !.row = n,
                                       !.into = under[n], !.wasDone = n \in done])
    /\ UNCHANGED <<table, older, crossed>>

AfterAccess(op) == CASE op = "create" -> "max"
                     [] op = "toggle" -> "read"
                     [] op \in {"edit", "delete"} -> "write"

\* FindCardIDByChecklistID, which the items' requests need, then
\* FindBoardIDByCardID and CanUserAccess.
CheckAccess(w) ==
    /\ Goto(w, "access", IF req[w].op = "create" \/ Exists(req[w].into)
                         THEN AfterAccess(req[w].op) ELSE "idle")
    /\ UNCHANGED <<table, older, crossed>>

\* GetMaxPosition, GetItemMaxPosition.
ReadMax(w) ==
    LET beside == RowsUnder(req[w].into)
    IN  /\ req[w].pc = "max"
        /\ Become(w, [req[w] EXCEPT !.pc = "insert", !.beside = beside,
                                    !.max = Max({position[n] : n \in beside} \cup {0})])
        /\ UNCHANGED <<table, older, crossed>>

\* Mutant: the position is counted, as if no row was ever deleted.
NextPositionCounted(r) == Cardinality(r.beside) + 1

\* Mutant: the first row gets what COALESCE returns for none.
NextPositionFromZero(r) == IF r.beside = {} THEN 0 ELSE r.max + 1

\* NextPosition, in units of InitialGap.
NextPosition(r) == r.max + 1

\* Mutant: no foreign key.
ReferencedUnchecked(p) == TRUE

\* The foreign keys of checklists and checklist_items.
Referenced(p) == Exists(p)

\* INSERT, Create and CreateItem of the repository.
Insert(w) ==
    LET p == req[w].into
    IN  /\ Goto(w, "insert", "idle")
        /\ Referenced(p)
        /\ \E n \in Rows \ retired :
              /\ under[n] = None /\ (n \in Items <=> p \in Checklists)
              /\ under' = [under EXCEPT ![n] = p]
              /\ position' = [position EXCEPT ![n] = NextPosition(req[w])]
              /\ older' = [older EXCEPT ![n] = req[w].beside]
        /\ UNCHANGED <<done, retired, crossed>>

\* Mutant: UpdateItem writes the whole row it has read.
EditWholeRow(w) ==
    /\ req[w].op = "edit" /\ Goto(w, "write", "idle")
    /\ done' = IF req[w].row \in Items /\ under[req[w].row] # None /\ req[w].wasDone
               THEN done \cup {req[w].row} ELSE done \ {req[w].row}
    /\ UNCHANGED <<under, position, retired, older, crossed>>

\* Update, UpdateItem of the repository: title, assignee_id and due_date.
Edit(w) ==
    /\ req[w].op = "edit" /\ Goto(w, "write", "idle")
    /\ UNCHANGED <<table, older, crossed>>

\* Delete, DeleteItem; items go with their checklist (ON DELETE CASCADE).
Delete(w) ==
    LET gone == {n \in RowsUnder(req[w].row) \cup {req[w].row} : under[n] # None}
    IN  /\ req[w].op = "delete" /\ Goto(w, "write", "idle")
        /\ under' = [n \in Rows |-> IF n \in gone THEN None ELSE under[n]]
        /\ position' = [n \in Rows |-> IF n \in gone THEN 0 ELSE position[n]]
        /\ done' = done \ gone
        /\ retired' = retired \cup gone
        /\ older' = [n \in Rows |-> IF n \in gone THEN {} ELSE older[n] \ gone]
        /\ UNCHANGED crossed

\* Mutant: ToggleItemComplete is given the item that the service read.
ReadItemOnce(w) ==
    /\ Goto(w, "read", "toggle")
    /\ UNCHANGED <<table, older, crossed>>

\* ToggleItemComplete: FindItemByID ...
ReadItem(w) ==
    /\ req[w].pc = "read" /\ under[req[w].row] # None
    /\ Become(w, [req[w] EXCEPT !.pc = "toggle", !.wasDone = req[w].row \in done])
    /\ UNCHANGED <<table, older, crossed>>

\* ... and one UPDATE or the other, which may find no row.
ToggleItem(w) ==
    LET i == req[w].row
    IN  /\ Goto(w, "toggle", "idle")
        /\ done' = IF req[w].wasDone \/ under[i] = None THEN done \ {i}
                   ELSE done \cup {i}
        /\ crossed' = (crossed \cup {v \in Workers : /\ req[v].pc = "toggle"
                                                    /\ req[v].row = i}) \ {w}
        /\ UNCHANGED <<under, position, retired, older>>

\* A check refuses, a row is not found, a statement fails or the process dies.
Fails(w) ==
    /\ req[w].pc # "idle" /\ Become(w, Idle)
    /\ crossed' = crossed \ {w}
    /\ UNCHANGED <<table, older>>

Next ==
    \E w \in Workers :
        \/ Start(w) \/ CheckAccess(w) \/ ReadMax(w) \/ Insert(w)
        \/ Edit(w) \/ Delete(w) \/ ReadItem(w) \/ ToggleItem(w) \/ Fails(w)

Spec == Init /\ [][Next]_vars

-----------------------------------------------------------------------------
\* A row comes after all rows that were there when its position was computed,
\* whatever was deleted or inserted before and since.  (Rows whose creations
\* overlap may share a position, or be in either order.)
PlacedAfterOlder ==
    \A n \in Rows : \A m \in older[n] : position[m] < position[n]

\* No item is left without its checklist, although the checklist may be deleted
\* between its look-up by CreateItem and the INSERT.
ItemsHaveChecklist ==
    \A i \in Items : under[i] # None => under[under[i]] # None

\* A toggle is about to negate what the item is, unless another toggle wrote it
\* since the repository read it: edits in flight do not write completion back,
\* and what happened during the access check does not count.
ToggleNegates ==
    \A w \in Workers :
        req[w].pc = "toggle" /\ w \notin crossed /\ under[req[w].row] # None
            => (req[w].wasDone <=> req[w].row \in done)
=============================================================================
