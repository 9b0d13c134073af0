-------------------------- MODULE AttachmentsProofs --------------------------
(***************************************************************************)
(* Proofs about Attachments, for any workers, cards and attachments.       *)
(*                                                                         *)
(* What a card shows and what is flagged are two tables, so the invariant  *)
(* must say what a request knows between its statements: an upload is the  *)
(* only one with its file and has stored it before the INSERT; a change of *)
(* the cover has a file of its own card, and has seen every row of that    *)
(* card but those that slipped in since.                                   *)
(***************************************************************************)
EXTENDS Attachments, TLAPS

USE NullAssumption

Uploading(w) == req[w].pc \in {"store", "insert"}

\* An upload has a file that is nobody else's and has no row yet.
UploadsOwn ==
    \A w \in Workers : Uploading(w) =>
        /\ req[w].card \in Cards
        /\ req[w].file \in Attachments
        /\ cardOf[req[w].file] = NoCard
        /\ \A v \in Workers \ {w} : Uploading(v) => req[v].file # req[w].file

StoredBeforeInsert ==
    \A w \in Workers : req[w].pc = "insert" => req[w].file \in objects

\* A change of a cover is about a card and a row of it, if any.
ChangesFit ==
    \A w \in Workers : req[w].pc \in {"begin", "commit"} =>
        /\ req[w].card \in Cards
        /\ req[w].file # NoAttachment => cardOf[req[w].file] = req[w].card

\* Its first UPDATE saw rows of this card, and all that did not slip in since.
SeenFits ==
    \A w \in Workers : req[w].pc = "commit" =>
        /\ req[w].seen \subseteq RowsOf(req[w].card)
        /\ RowsOf(req[w].card) \ req[w].seen \subseteq slipped

DeletesFit ==
    \A w \in Workers : req[w].pc = "delete" => req[w].file \in Attachments

FlaggedHaveRow == \A a \in flagged : cardOf[a] # NoCard

InFlight ==
    UploadsOwn /\ StoredBeforeInsert /\ ChangesFit /\ SeenFits /\ DeletesFit

IInv ==
    /\ TypeOK /\ InFlight
    /\ FileBehindRow /\ FlaggedHaveRow /\ CoverIsFlagged /\ OneCover

-----------------------------------------------------------------------------
LEMMA IdleIsRequest == Idle \in Requests
  BY DEF Idle, Requests

\* A request that turns into another one, while no row changes hands, leaves
\* what is known of the rest.
LEMMA BecomeIdle ==
  ASSUME IInv, NEW w \in Workers, Become(w, Idle),
         cardOf' = cardOf, slipped' = slipped, objects \subseteq objects'
  PROVE  InFlight' /\ req' \in [Workers -> Requests]
<1>1. req' \in [Workers -> Requests] /\ req'[w] = Idle
      /\ \A v \in Workers \ {w} : req'[v] = req[v]
  BY IdleIsRequest DEF IInv, TypeOK, Become
<1>2. Idle.pc = "idle"
  BY DEF Idle
<1> QED
  BY <1>1, <1>2 DEF IInv, InFlight, UploadsOwn, StoredBeforeInsert, ChangesFit,
       SeenFits, DeletesFit, Uploading, RowsOf

THEOREM Initial == Init => IInv
  BY DEF Init, IInv, TypeOK, InFlight, UploadsOwn, StoredBeforeInsert,
       ChangesFit, SeenFits, DeletesFit, Uploading, FileBehindRow,
       FlaggedHaveRow, CoverIsFlagged, OneCover, Idle, Requests

LEMMA StepStartUpload ==
  ASSUME IInv, NEW w \in Workers, NEW c \in Cards, NEW a \in Attachments,
         StartUpload(w, c, a)
  PROVE  IInv'
<1> DEFINE r == [Idle EXCEPT !.pc = "store", !.card = c, !.file = a]
<1>1. r \in Requests /\ r.pc = "store" /\ r.card = c /\ r.file = a
  BY DEF Idle, Requests
<1>2. req' \in [Workers -> Requests] /\ req'[w] = r
      /\ \A v \in Workers \ {w} : req'[v] = req[v]
  BY <1>1 DEF IInv, TypeOK, StartUpload, Become
<1> HIDE DEF r
<1>3. TypeOK'
  BY <1>2 DEF IInv, TypeOK, StartUpload
<1>4. InFlight'
  BY <1>1, <1>2 DEF IInv, InFlight, UploadsOwn, StoredBeforeInsert, ChangesFit,
       SeenFits, DeletesFit, Uploading, RowsOf, StartUpload
<1> QED
  BY <1>3, <1>4 DEF IInv, FileBehindRow, FlaggedHaveRow, CoverIsFlagged,
       OneCover, StartUpload

LEMMA StepStore ==
  ASSUME IInv, NEW w \in Workers, Store(w)
  PROVE  IInv'
<1> DEFINE r == [req[w] EXCEPT !.pc = "insert"]
<1>0. req[w] \in Requests /\ req[w].file \in Attachments /\ req[w].pc = "store"
  BY DEF IInv, TypeOK, InFlight, UploadsOwn, Uploading, Store
<1>1. r \in Requests /\ r.pc = "insert" /\ r.card = req[w].card
      /\ r.file = req[w].file
  BY <1>0 DEF Requests
<1>2. InFlight' /\ req' \in [Workers -> Requests]
  <2>1. CASE Become(w, Idle)
    BY <2>1, BecomeIdle DEF Store
  <2>2. CASE Become(w, r)
    <3>1. req' \in [Workers -> Requests] /\ req'[w] = r
          /\ \A v \in Workers \ {w} : req'[v] = req[v]
      BY <1>1, <2>2 DEF IInv, TypeOK, Become
    <3> HIDE DEF r
    <3> QED
      BY <1>0, <1>1, <3>1 DEF IInv, InFlight, UploadsOwn, StoredBeforeInsert,
           ChangesFit, SeenFits, DeletesFit, Uploading, RowsOf, Store
  <2> QED
    BY <2>1, <2>2 DEF Store
<1> HIDE DEF r
<1> QED
  BY <1>0, <1>2 DEF IInv, TypeOK, FileBehindRow, FlaggedHaveRow, CoverIsFlagged,
       OneCover, Store

\* The new row is no cover and not flagged, because it had no row before.
LEMMA StepInsert ==
  ASSUME IInv, NEW w \in Workers, Insert(w)
  PROVE  IInv'
<1> DEFINE a == req[w].file
           c == req[w].card
<1>1. a \in Attachments /\ c \in Cards /\ cardOf[a] = NoCard /\ a \in objects
  BY DEF IInv, InFlight, UploadsOwn, StoredBeforeInsert, Uploading, Insert
<1>2. cardOf' \in [Attachments -> Cards \cup {NoCard}] /\ cardOf'[a] = c
      /\ \A b \in Attachments \ {a} : cardOf'[b] = cardOf[b]
  BY <1>1 DEF IInv, TypeOK, Insert
<1>3. req' \in [Workers -> Requests] /\ req'[w] = Idle
      /\ \A v \in Workers \ {w} : req'[v] = req[v]
  BY IdleIsRequest DEF IInv, TypeOK, Insert, Become
<1>4. Idle.pc = "idle"
  BY DEF Idle
<1>5. slipped' \in SUBSET Attachments /\ slipped \subseteq slipped'
      /\ (slipped' = slipped => Changing(c) = {} \/ a \in slipped)
      /\ (Changing(c) # {} => a \in slipped')
  BY <1>1 DEF IInv, TypeOK, Insert
<1>6. TypeOK'
  BY <1>2, <1>3, <1>5 DEF IInv, TypeOK, Insert
<1>7. UploadsOwn' /\ StoredBeforeInsert' /\ DeletesFit'
  BY <1>1, <1>2, <1>3, <1>4 DEF IInv, InFlight, UploadsOwn, StoredBeforeInsert,
       DeletesFit, Uploading, Insert
<1>8. ChangesFit'
  <2> SUFFICES ASSUME NEW v \in Workers, req'[v].pc \in {"begin", "commit"}
               PROVE  /\ req'[v].card \in Cards
                      /\ req'[v].file # NoAttachment
                           => cardOf'[req'[v].file] = req'[v].card
    BY DEF ChangesFit
  <2>1. v # w /\ req'[v] = req[v]
    BY <1>3, <1>4
  <2>2. req[v] \in Requests /\ req[v].file \in Attachments \cup {NoAttachment}
    BY DEF IInv, TypeOK, Requests
  <2> QED
    BY <1>1, <1>2, <2>1, <2>2 DEF IInv, InFlight, ChangesFit
<1>9. SeenFits'
  <2> SUFFICES ASSUME NEW v \in Workers, req'[v].pc = "commit"
               PROVE  /\ req'[v].seen \subseteq RowsOf(req[v].card)'
                      /\ RowsOf(req[v].card)' \ req'[v].seen \subseteq slipped'
    BY DEF SeenFits
  <2>1. v # w /\ req'[v] = req[v]
    BY <1>3, <1>4
  <2>2. req[v].card = c => v \in Changing(c)
    BY <2>1 DEF Changing
  <2> QED
    BY <1>1, <1>2, <1>5, <2>1, <2>2 DEF IInv, InFlight, SeenFits, ChangesFit, RowsOf
<1>10. FileBehindRow' /\ FlaggedHaveRow'
  BY <1>1, <1>2 DEF IInv, TypeOK, FileBehindRow, FlaggedHaveRow, Insert
<1>11. CoverIsFlagged' /\ OneCover'
  <2>1. a \notin flagged
    BY <1>1 DEF IInv, FlaggedHaveRow
  <2>2. \A b \in flagged : cardOf'[b] = cardOf[b]
    BY <1>2, <2>1 DEF IInv, TypeOK
  <2> QED
    BY <1>5, <2>1, <2>2 DEF IInv, CoverIsFlagged, OneCover, Insert
<1> QED
  BY <1>6, <1>7, <1>8, <1>9, <1>10, <1>11 DEF IInv, InFlight

LEMMA StepFind ==
  ASSUME IInv, NEW w \in Workers, NEW a \in Attachments,
         NEW pc \in {"delete", "begin"}, Find(w, a, pc)
  PROVE  IInv'
<1> DEFINE r == [Idle EXCEPT !.pc = pc, !.card = cardOf[a], !.file = a]
<1>0. cardOf[a] \in Cards
  BY DEF IInv, TypeOK, Find, Live
<1>1. r \in Requests /\ r.pc = pc /\ r.card = cardOf[a] /\ r.file = a
  BY <1>0 DEF Idle, Requests
<1>2. req' \in [Workers -> Requests] /\ req'[w] = r
      /\ \A v \in Workers \ {w} : req'[v] = req[v]
  BY <1>1 DEF IInv, TypeOK, Find, Become
<1> HIDE DEF r
<1>3. TypeOK'
  BY <1>2 DEF IInv, TypeOK, Find
<1>4. InFlight'
  BY <1>0, <1>1, <1>2 DEF IInv, InFlight, UploadsOwn, StoredBeforeInsert,
       ChangesFit, SeenFits, DeletesFit, Uploading, RowsOf, Find
<1> QED
  BY <1>3, <1>4 DEF IInv, FileBehindRow, FlaggedHaveRow, CoverIsFlagged,
       OneCover, Find

LEMMA StepStartRemoveCover ==
  ASSUME IInv, NEW w \in Workers, NEW c \in Cards, StartRemoveCover(w, c)
  PROVE  IInv'
<1> DEFINE r == [Idle EXCEPT !.pc = "begin", !.card = c]
<1>1. r \in Requests /\ r.pc = "begin" /\ r.card = c /\ r.file = NoAttachment
  BY DEF Idle, Requests
<1>2. req' \in [Workers -> Requests] /\ req'[w] = r
      /\ \A v \in Workers \ {w} : req'[v] = req[v]
  BY <1>1 DEF IInv, TypeOK, StartRemoveCover, Become
<1> HIDE DEF r
<1>3. TypeOK'
  BY <1>2 DEF IInv, TypeOK, StartRemoveCover
<1>4. InFlight'
  BY <1>1, <1>2 DEF IInv, InFlight, UploadsOwn, StoredBeforeInsert, ChangesFit,
       SeenFits, DeletesFit, Uploading, RowsOf, StartRemoveCover
<1> QED
  BY <1>3, <1>4 DEF IInv, FileBehindRow, FlaggedHaveRow, CoverIsFlagged,
       OneCover, StartRemoveCover

\* The first UPDATE sees all rows the card has now.
LEMMA StepBegin ==
  ASSUME IInv, NEW w \in Workers, Begin(w)
  PROVE  IInv'
<1> DEFINE r == [req[w] EXCEPT !.pc = "commit", !.seen = RowsOf(req[w].card)]
<1>0. req[w] \in Requests /\ req[w].pc = "begin"
      /\ RowsOf(req[w].card) \in SUBSET Attachments
  BY DEF IInv, TypeOK, Begin, RowsOf
<1>1. r \in Requests /\ r.pc = "commit" /\ r.card = req[w].card
      /\ r.file = req[w].file /\ r.seen = RowsOf(req[w].card)
  BY <1>0 DEF Requests
<1>2. req' \in [Workers -> Requests] /\ req'[w] = r
      /\ \A v \in Workers \ {w} : req'[v] = req[v]
  BY <1>1 DEF IInv, TypeOK, Begin, Become
<1> HIDE DEF r
<1>3. TypeOK'
  BY <1>2 DEF IInv, TypeOK, Begin
<1>4. InFlight'
  BY <1>0, <1>1, <1>2 DEF IInv, InFlight, UploadsOwn, StoredBeforeInsert,
       ChangesFit, SeenFits, DeletesFit, Uploading, RowsOf, Begin
<1> QED
  BY <1>3, <1>4 DEF IInv, FileBehindRow, FlaggedHaveRow, CoverIsFlagged,
       OneCover, Begin

\* What is cleared is of this card, so the covers of the others stay flagged;
\* what is not cleared is of another card or slipped in.
LEMMA StepCommit ==
  ASSUME IInv, NEW w \in Workers, Commit(w)
  PROVE  IInv'
<1> DEFINE a == req[w].file
           c == req[w].card
<1>1. /\ c \in Cards /\ a \in Attachments \cup {NoAttachment}
      /\ a # NoAttachment => cardOf[a] = c
  BY DEF IInv, TypeOK, Requests, InFlight, ChangesFit, Commit
<1>2. /\ req[w].seen \subseteq {b \in Attachments : cardOf[b] = c}
      /\ {b \in Attachments : cardOf[b] = c} \ req[w].seen \subseteq slipped
  BY DEF IInv, InFlight, SeenFits, RowsOf, Commit
<1>3. cover' \in [Cards -> Attachments \cup {NoAttachment}] /\ cover'[c] = a
      /\ \A d \in Cards \ {c} : cover'[d] = cover[d]
  BY <1>1 DEF IInv, TypeOK, Commit
<1>4. flagged' = (flagged \ req[w].seen) \cup ({a} \ {NoAttachment})
  BY DEF Commit, Cleared, Flagged
<1>5. InFlight' /\ req' \in [Workers -> Requests]
  BY BecomeIdle DEF Commit
<1>6. TypeOK'
  BY <1>1, <1>3, <1>4, <1>5 DEF IInv, TypeOK, Commit
<1>7. FileBehindRow' /\ FlaggedHaveRow'
  BY <1>1, <1>4 DEF IInv, FileBehindRow, FlaggedHaveRow, Commit
<1>8. CoverIsFlagged'
  <2> SUFFICES ASSUME NEW d \in Cards, cover'[d] # NoAttachment
               PROVE  cover'[d] \in flagged' /\ cardOf[cover'[d]] = d
    BY DEF CoverIsFlagged, Commit
  <2>1. CASE d = c
    BY <1>1, <1>3, <1>4, <2>1
  <2>2. CASE d # c
    BY <1>2, <1>3, <1>4, <2>2 DEF IInv, CoverIsFlagged
  <2> QED
    BY <2>1, <2>2
<1>9. OneCover'
  <2> SUFFICES ASSUME NEW b \in flagged' \ slipped
               PROVE  cover'[cardOf[b]] = b
    BY DEF OneCover, Commit
  <2>1. CASE b = a /\ a # NoAttachment
    BY <1>1, <1>3, <2>1
  <2>2. CASE b \in flagged \ req[w].seen
    <3>1. b \in Attachments /\ cardOf[b] \in Cards /\ cover[cardOf[b]] = b
      BY <2>2 DEF IInv, TypeOK, FlaggedHaveRow, OneCover
    <3>2. cardOf[b] # c
      BY <1>2, <2>2, <3>1
    <3> QED
      BY <1>3, <3>1, <3>2
  <2> QED
    BY <1>4, <2>1, <2>2
<1> QED
  BY <1>5, <1>6, <1>7, <1>8, <1>9 DEF IInv

LEMMA StepSoftDeleteOrFails ==
  ASSUME IInv, NEW w \in Workers, SoftDelete(w) \/ Fails(w)
  PROVE  IInv'
<1>1. InFlight' /\ req' \in [Workers -> Requests]
  BY BecomeIdle DEF SoftDelete, Fails
<1>2. deleted' \in SUBSET Attachments
  BY DEF IInv, TypeOK, InFlight, DeletesFit, SoftDelete, Fails
<1> QED
  BY <1>1, <1>2 DEF IInv, TypeOK, FileBehindRow, FlaggedHaveRow, CoverIsFlagged,
       OneCover, SoftDelete, Fails

-----------------------------------------------------------------------------
THEOREM Inductive == IInv /\ [Next]_vars => IInv'
<1> SUFFICES ASSUME IInv, [Next]_vars PROVE IInv'
  OBVIOUS
<1>1. CASE UNCHANGED vars
  BY <1>1 DEF vars, IInv, TypeOK, InFlight, UploadsOwn, StoredBeforeInsert,
       ChangesFit, SeenFits, DeletesFit, Uploading, RowsOf, FileBehindRow,
       FlaggedHaveRow, CoverIsFlagged, OneCover
<1>2. CASE Next
  <2> PICK w \in Workers :
        \/ \E c \in Cards : \/ StartRemoveCover(w, c)
                            \/ \E a \in Attachments : StartUpload(w, c, a)
        \/ \E a \in Attachments, pc \in {"delete", "begin"} : Find(w, a, pc)
        \/ Store(w) \/ Insert(w) \/ SoftDelete(w)
        \/ Begin(w) \/ Commit(w) \/ Fails(w)
    BY <1>2 DEF Next
  <2> QED
    BY StepStartUpload, StepStore, StepInsert, StepFind, StepStartRemoveCover,
       StepBegin, StepCommit, StepSoftDeleteOrFails
<1> QED
  BY <1>1, <1>2

THEOREM Invariant == Spec => []IInv
  BY Initial, Inductive, PTL DEF Spec

\* The tables and requests of attachments keep their types.
THEOREM TypeCorrect == Spec => []TypeOK
<1>1. IInv => TypeOK
  BY DEF IInv
<1> QED
  BY Invariant, <1>1, PTL

\* However uploads fail and interleave, a row of attachments never points to a
\* file that is not in the object store.
THEOREM FilesBehindRows == Spec => []FileBehindRow
<1>1. IInv => FileBehindRow
  BY DEF IInv
<1> QED
  BY Invariant, <1>1, PTL

\* The cover of a card is an attachment of this card that is flagged, for any
\* number of changes of covers, deletions and uploads at once.
THEOREM CoversAreFlagged == Spec => []CoverIsFlagged
<1>1. IInv => CoverIsFlagged
  BY DEF IInv
<1> QED
  BY Invariant, <1>1, PTL

\* No other attachment of a card stays flagged, but for rows inserted while the
\* cover was being changed.
THEOREM NoSecondCover == Spec => []OneCover
<1>1. IInv => OneCover
  BY DEF IInv
<1> QED
  BY Invariant, <1>1, PTL
=============================================================================
