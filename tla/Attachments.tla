----------------------------- MODULE Attachments -----------------------------
(***************************************************************************)
(* Attachments of cards: table attachments, the column                     *)
(* cards.cover_attachment_id, the object store, and the requests of        *)
(* internal/service/attachment_service.go.                                 *)
(*                                                                         *)
(* SetCover and RemoveCover of the repository are the only transactions of *)
(* the program: they clear is_cover on the card's attachments, set it on   *)
(* one, and point the card to it.  PostgreSQL runs them at READ COMMITTED: *)
(* the first UPDATE takes the rows it saw when it began, and the rows it   *)
(* writes are locked until the commit.  As all writes are constants and    *)
(* conflicting transactions wait for each other, a transaction is two      *)
(* steps here: the beginning of its first UPDATE, and the commit.          *)
(*                                                                         *)
(* Left out: file names, sizes and types, and who may do what: an access   *)
(* check may pass or refuse at any time (module Cards has the roles).      *)
(***************************************************************************)
EXTENDS Naturals

CONSTANTS Workers, Cards, Attachments, NoCard, NoAttachment

ASSUME NullAssumption == NoCard \notin Cards /\ NoAttachment \notin Attachments

VARIABLES
    cardOf,   \* attachments.card_id, NoCard: no row
    deleted,  \* attachments with deleted_at
    flagged,  \* attachments with is_cover
    cover,    \* cards.cover_attachment_id
    objects,  \* attachments whose file is in the object store
    req,      \* req[w]: the request worker w is serving
    slipped   \* history: rows inserted while a cover of their card was changed

vars == <<cardOf, deleted, flagged, cover, objects, req, slipped>>

Requests == [pc : {"idle", "store", "insert", "delete", "begin", "commit"},
             card : Cards \cup {NoCard},
             file : Attachments \cup {NoAttachment},
             seen : SUBSET Attachments]   \* the rows the first UPDATE saw
Idle == [pc |-> "idle", card |-> NoCard, file |-> NoAttachment, seen |-> {}]

TypeOK ==
    /\ cardOf \in [Attachments -> Cards \cup {NoCard}]
    /\ deleted \in SUBSET Attachments
    /\ flagged \in SUBSET Attachments
    /\ cover \in [Cards -> Attachments \cup {NoAttachment}]
    /\ objects \in SUBSET Attachments
    /\ req \in [Workers -> Requests]
    /\ slipped \in SUBSET Attachments

Init ==
    /\ cardOf = [a \in Attachments |-> NoCard]
    /\ deleted = {} /\ flagged = {}
    /\ cover = [c \in Cards |-> NoAttachment]
    /\ objects = {}
    /\ req = [w \in Workers |-> Idle]
    /\ slipped = {}

-----------------------------------------------------------------------------
Live(a) == cardOf[a] # NoCard /\ a \notin deleted
RowsOf(c) == {a \in Attachments : cardOf[a] = c}

\* Transactions on the cover of c that have begun.
Changing(c) == {w \in Workers : req[w].pc = "commit" /\ req[w].card = c}

Become(w, r) == req' = [req EXCEPT ![w] = r]

\* Upload, with a new object key and id.
StartUpload(w, c, a) ==
    /\ req[w].pc = "idle"
    /\ a \notin objects /\ cardOf[a] = NoCard
    /\ \A v \in Workers : req[v].file # a
    /\ Become(w, [Idle EXCEPT !.pc = "store", !.card = c, !.file = a])
    /\ UNCHANGED <<cardOf, deleted, flagged, cover, objects, slipped>>

\* Mutant: the error of the object store is not looked at.
StoreUnchecked(w) ==
    /\ req[w].pc = "store"
    /\ \/ objects' = objects \cup {req[w].file}
       \/ UNCHANGED objects
    /\ Become(w, [req[w] EXCEPT !.pc = "insert"])
    /\ UNCHANGED <<cardOf, deleted, flagged, cover, slipped>>

\* storage.Upload; after an error the file may be there.
Store(w) ==
    /\ req[w].pc = "store"
    /\ objects' = objects \cup {req[w].file}
    /\ Become(w, [req[w] EXCEPT !.pc = "insert"]) \/ Become(w, Idle)
    /\ UNCHANGED <<cardOf, deleted, flagged, cover, slipped>>

\* INSERT of the row.
Insert(w) ==
    /\ req[w].pc = "insert"
    /\ cardOf' = [cardOf EXCEPT ![req[w].file] = req[w].card]
    /\ slipped' = IF Changing(req[w].card) = {} THEN slipped
                  ELSE slipped \cup {req[w].file}
    /\ Become(w, Idle)
    /\ UNCHANGED <<deleted, flagged, cover, objects>>

\* FindByID of an attachment that is there, for Delete or SetCover.
Find(w, a, pc) ==
    /\ req[w].pc = "idle" /\ pc \in {"delete", "begin"} /\ Live(a)
    /\ Become(w, [Idle EXCEPT !.pc = pc, !.card = cardOf[a], !.file = a])
    /\ UNCHANGED <<cardOf, deleted, flagged, cover, objects, slipped>>

StartRemoveCover(w, c) ==
    /\ req[w].pc = "idle"
    /\ Become(w, [Idle EXCEPT !.pc = "begin", !.card = c])
    /\ UNCHANGED <<cardOf, deleted, flagged, cover, objects, slipped>>

\* Delete leaves is_cover, the card and the object as they are.
SoftDelete(w) ==
    /\ req[w].pc = "delete"
    /\ deleted' = deleted \cup {req[w].file}
    /\ Become(w, Idle)
    /\ UNCHANGED <<cardOf, flagged, cover, objects, slipped>>

\* Begin, and the rows the first UPDATE sees.
Begin(w) ==
    /\ req[w].pc = "begin"
    /\ Become(w, [req[w] EXCEPT !.pc = "commit", !.seen = RowsOf(req[w].card)])
    /\ UNCHANGED <<cardOf, deleted, flagged, cover, objects, slipped>>

\* Mutant: the first UPDATE skips deleted attachments.
ClearedIfLive(w) == req[w].seen \ deleted

Cleared(w) == req[w].seen

\* Mutant: the second UPDATE asks for deleted_at IS NULL.
FlaggedIfLive(w) == {req[w].file} \ (deleted \cup {NoAttachment})

\* Mutant: RemoveCover sets the flag of its null attachment as SetCover does.
FlaggedNull(w) == {req[w].file}

Flagged(w) == {req[w].file} \ {NoAttachment}

\* The three UPDATEs of SetCover, or the two of RemoveCover, become visible.
Commit(w) ==
    /\ req[w].pc = "commit"
    /\ flagged' = (flagged \ Cleared(w)) \cup Flagged(w)
    /\ cover' = [cover EXCEPT ![req[w].card] = req[w].file]
    /\ Become(w, Idle)
    /\ UNCHANGED <<cardOf, deleted, objects, slipped>>

\* The access check refuses, a statement fails, or the process dies; an open
\* transaction is rolled back.
Fails(w) ==
    /\ req[w].pc # "idle" /\ Become(w, Idle)
    /\ UNCHANGED <<cardOf, deleted, flagged, cover, objects, slipped>>

Next ==
    \E w \in Workers :
        \/ \E c \in Cards : \/ StartRemoveCover(w, c)
                            \/ \E a \in Attachments : StartUpload(w, c, a)
        \/ \E a \in Attachments, pc \in {"delete", "begin"} : Find(w, a, pc)
        \/ Store(w) \/ Insert(w) \/ SoftDelete(w)
        \/ Begin(w) \/ Commit(w) \/ Fails(w)

Spec == Init /\ [][Next]_vars

-----------------------------------------------------------------------------
\* A row has its file in the object store, whichever statement of an upload is
\* the last one to succeed.  (Files without a row do accumulate.)
FileBehindRow ==
    \A a \in Attachments : cardOf[a] # NoCard => a \in objects

\* The cover a card points to is flagged, and belongs to the card, although
\* the two are written to two tables and the attachment may be deleted since
\* SetCover found it.
CoverIsFlagged ==
    \A c \in Cards : cover[c] # NoAttachment =>
        cover[c] \in flagged /\ cardOf[cover[c]] = c

\* Nothing else is flagged, so that a card shows one cover, but for attachments
\* that were inserted between the first UPDATE of a change of the cover and its
\* commit: that UPDATE did not see them.
OneCover ==
    \A a \in flagged \ slipped : cover[cardOf[a]] = a
=============================================================================
