------------------------------- MODULE Cards -------------------------------
(***************************************************************************)
(* What a board holds: tables lists, cards, labels and card_labels, and    *)
(* the requests of internal/service/list_service.go, card_service.go and   *)
(* label_service.go that decide which board a list, a card or a label      *)
(* belongs to, who is assigned and which labels a card has.                *)
(*                                                                         *)
(* A request looks up the board of what it is about, checks the actor's    *)
(* role on it (CanUserAccess), for some operations reads a second object,  *)
(* and writes.  Each is one SQL statement in no transaction, and a request *)
(* may die between any two.  Roles change meanwhile (module Boards).       *)
(*                                                                         *)
(* Left out: titles, priorities, due dates, completion and the positions   *)
(* in a list, which none of these checks reads.                            *)
(***************************************************************************)
EXTENDS Naturals

CONSTANTS Workers, Users, Boards, Lists, Cards, Labels,
          NoBoard, NoList, NoCard, NoLabel, NoUser,
          Roles       \* the roles that occur; "owner" is checked as "admin"

ASSUME NullAssumption ==
    /\ NoBoard \notin Boards /\ NoList \notin Lists /\ NoCard \notin Cards
    /\ NoLabel \notin Labels /\ NoUser \notin Users

ASSUME RolesAssumption == Roles \subseteq {"none", "viewer", "member", "admin"}

VARIABLES
    role,       \* role[b][u]: board_members.role, "none": no row
    listBoard,  \* listBoard[l]: lists.board_id, NoBoard: not created
    cardList,   \* cardList[c]: cards.list_id, NoList: not created
    archived,   \* cards with is_archived
    assignee,   \* assignee[c]: cards.assignee_id
    labelBoard, \* labelBoard[k]: labels.board_id, NoBoard: no such label
    tags,       \* card_labels: pairs of a card and a label
    retired,    \* labels that were deleted; ids are not used again
    req         \* req[w]: the request worker w is serving

content == <<listBoard, cardList, archived, assignee, labelBoard, tags, retired>>
vars == <<role, content, req>>

Ops == {"createList", "copyList", "createCard", "moveCard", "archive",
        "restore", "assign", "unassign", "createLabel", "deleteLabel",
        "tag", "untag"}
Steps == {"idle", "access", "findList", "findLabel", "findAssignee", "write",
          "readCards", "copyCards"}

Requests ==
    [pc : Steps,
     op : Ops,
     actor : Users \cup {NoUser},
     board : Boards \cup {NoBoard},   \* the board that was looked up
     list : Lists \cup {NoList},      \* source or target list
     card : Cards \cup {NoCard},
     label : Labels \cup {NoLabel},
     user : Users \cup {NoUser},      \* the assignee
     copy : Lists \cup {NoList},      \* the list made by a copy
     todo : SUBSET Cards]             \* cards a copy has still to make

Idle == [pc |-> "idle", op |-> "createList", actor |-> NoUser,
         board |-> NoBoard, list |-> NoList, card |-> NoCard,
         label |-> NoLabel, user |-> NoUser, copy |-> NoList, todo |-> {}]

TypeOK ==
    /\ role \in [Boards -> [Users -> Roles]]
    /\ listBoard \in [Lists -> Boards \cup {NoBoard}]
    /\ cardList \in [Cards -> Lists \cup {NoList}]
    /\ archived \in SUBSET Cards
    /\ assignee \in [Cards -> Users \cup {NoUser}]
    /\ labelBoard \in [Labels -> Boards \cup {NoBoard}]
    /\ tags \in SUBSET (Cards \X Labels)
    /\ retired \in SUBSET Labels
    /\ req \in [Workers -> Requests]

Init ==
    /\ role \in [Boards -> [Users -> Roles]]
    /\ listBoard = [l \in Lists |-> NoBoard]
    /\ cardList = [c \in Cards |-> NoList]
    /\ archived = {}
    /\ assignee = [c \in Cards |-> NoUser]
    /\ labelBoard = [k \in Labels |-> NoBoard]
    /\ tags = {}
    /\ retired = {}
    /\ req = [w \in Workers |-> Idle]

-----------------------------------------------------------------------------
\* FindBoardIDByListID and FindBoardIDByCardID; NoBoard is ErrNotFound.
BoardOfList(l) == IF l = NoList THEN NoBoard ELSE listBoard[l]
BoardOfCard(c) == BoardOfList(cardList[c])

CanEdit(r) == r \in {"member", "admin"}
CanManage(r) == r = "admin"              \* and CanEditLists

\* What CanUserAccess must say of the actor for op.
Allowed(op, r) ==
    IF op \in {"createList", "copyList", "createLabel", "deleteLabel"}
    THEN CanManage(r) ELSE CanEdit(r)

\* What op reads between the access check and its write.
AfterAccess(op) ==
    IF op = "moveCard" THEN "findList"
    ELSE IF op = "assign" THEN "findAssignee"
    ELSE IF op = "tag" THEN "findLabel"
    ELSE "write"

Step(w, from, to) ==
    /\ req[w].pc = from
    /\ req' = [req EXCEPT ![w] = IF to = "idle" THEN Idle
                                 ELSE [@ EXCEPT !.pc = to]]

\* A request r arrives and looks up the board of what it is about.
Take(w, r) ==
    /\ req[w].pc = "idle"
    /\ r.board # NoBoard
    /\ req' = [req EXCEPT ![w] = r]
    /\ UNCHANGED <<role, content>>

StartOnBoard(w, op, u, b) ==
    Take(w, [Idle EXCEPT !.pc = "access", !.op = op, !.actor = u, !.board = b])

StartOnList(w, op, u, l) ==
    Take(w, [Idle EXCEPT !.pc = "access", !.op = op, !.actor = u, !.list = l,
                         !.board = BoardOfList(l)])

StartOnLabel(w, u, k) ==
    Take(w, [Idle EXCEPT !.pc = "access", !.op = "deleteLabel", !.actor = u,
                         !.label = k, !.board = labelBoard[k]])

\* l, k and v are the list, label or assignee of a move, a label or an
\* assignment, null for the others.
StartOnCard(w, op, u, c, l, k, v) ==
    Take(w, [Idle EXCEPT !.pc = "access", !.op = op, !.actor = u, !.card = c,
                         !.list = l, !.label = k, !.user = v,
                         !.board = BoardOfCard(c)])

\* CanUserAccess
CheckAccess(w) ==
    /\ Step(w, "access", IF Allowed(req[w].op, role[req[w].board][req[w].actor])
                         THEN AfterAccess(req[w].op) ELSE "idle")
    /\ UNCHANGED <<role, content>>

\* Mutant: Move does not compare the boards.
SameBoardUnchecked(b, r) == b # NoBoard

\* The list or label of request r was found, and on the card's board.
SameBoard(b, r) == b # NoBoard /\ b = r.board

\* FindBoardIDByListID of the list a card moves to.
FindList(w) ==
    /\ Step(w, "findList", IF SameBoard(BoardOfList(req[w].list), req[w])
                           THEN "write" ELSE "idle")
    /\ UNCHANGED <<role, content>>

\* FindBoardIDByLabelID of the label a card gets.
FindLabel(w) ==
    /\ Step(w, "findLabel", IF SameBoard(labelBoard[req[w].label], req[w])
                            THEN "write" ELSE "idle")
    /\ UNCHANGED <<role, content>>

\* CanUserAccess of the user a card is assigned to.
FindAssignee(w) ==
    /\ Step(w, "findAssignee",
            IF role[req[w].board][req[w].user] # "none" THEN "write" ELSE "idle")
    /\ UNCHANGED <<role, content>>

-----------------------------------------------------------------------------
\* Worker w performs the write of op and is done.
Write(w, op) == req[w].op = op /\ Step(w, "write", "idle")

CreateList(w) ==
    /\ Write(w, "createList")
    /\ \E l \in Lists : /\ listBoard[l] = NoBoard
                        /\ listBoard' = [listBoard EXCEPT ![l] = req[w].board]
    /\ UNCHANGED <<role, cardList, archived, assignee, labelBoard, tags, retired>>

\* Mutant: the INSERT gets the board's id where the list's belongs.
PutCardOnBoard(w) ==
    /\ Write(w, "createCard")
    /\ \E c \in Cards : cardList[c] = NoList
                        /\ cardList' = [cardList EXCEPT ![c] = req[w].board]
    /\ UNCHANGED <<role, listBoard, archived, assignee, labelBoard, tags, retired>>

\* Create, Move: the card is put into the request's list.
PutCard(w) ==
    /\ \/ /\ Write(w, "createCard")
          /\ \E c \in Cards : /\ cardList[c] = NoList
                              /\ cardList' = [cardList EXCEPT ![c] = req[w].list]
       \/ /\ Write(w, "moveCard")
          /\ cardList' = [cardList EXCEPT ![req[w].card] = req[w].list]
    /\ UNCHANGED <<role, listBoard, archived, assignee, labelBoard, tags, retired>>

\* Copy: the new list ...
CopyList(w) ==
    /\ req[w].op = "copyList" /\ req[w].pc = "write"
    /\ \E l \in Lists :
          /\ listBoard[l] = NoBoard
          /\ listBoard' = [listBoard EXCEPT ![l] = req[w].board]
          /\ req' = [req EXCEPT ![w] = [@ EXCEPT !.pc = "readCards", !.copy = l]]
    /\ UNCHANGED <<role, cardList, archived, assignee, labelBoard, tags, retired>>

\* ... FindByListID, without the archived cards ...
ReadCards(w) ==
    /\ req[w].pc = "readCards"
    /\ req' = [req EXCEPT ![w] =
                 [@ EXCEPT !.pc = "copyCards",
                           !.todo = {c \in Cards : cardList[c] = req[w].list}
                                       \ archived]]
    /\ UNCHANGED <<role, content>>

\* ... and one INSERT for each; the copies have no assignee and no label.
CopyCard(w) ==
    /\ req[w].pc = "copyCards"
    /\ \/ /\ req[w].todo = {}
          /\ Step(w, "copyCards", "idle") /\ UNCHANGED cardList
       \/ \E c \in req[w].todo, d \in Cards :
             /\ cardList[d] = NoList
             /\ cardList' = [cardList EXCEPT ![d] = req[w].copy]
             /\ req' = [req EXCEPT ![w] = [@ EXCEPT !.todo = req[w].todo \ {c}]]
    /\ UNCHANGED <<role, listBoard, archived, assignee, labelBoard, tags, retired>>

ArchiveCard(w) ==
    /\ \/ Write(w, "archive") /\ archived' = archived \cup {req[w].card}
       \/ Write(w, "restore") /\ archived' = archived \ {req[w].card}
    /\ UNCHANGED <<role, listBoard, cardList, assignee, labelBoard, tags, retired>>

\* Assign and Unassign.
AssignCard(w) ==
    /\ Write(w, "assign") \/ Write(w, "unassign")
    /\ assignee' = [assignee EXCEPT ![req[w].card] = req[w].user]
    /\ UNCHANGED <<role, listBoard, cardList, archived, labelBoard, tags, retired>>

CreateLabel(w) ==
    /\ Write(w, "createLabel")
    /\ \E k \in Labels \ retired :
          /\ labelBoard[k] = NoBoard
          /\ labelBoard' = [labelBoard EXCEPT ![k] = req[w].board]
    /\ UNCHANGED <<role, listBoard, cardList, archived, assignee, tags, retired>>

\* Delete of a label; card_labels rows go with it (ON DELETE CASCADE).
DeleteLabel(w) ==
    /\ Write(w, "deleteLabel")
    /\ labelBoard' = [labelBoard EXCEPT ![req[w].label] = NoBoard]
    /\ tags' = {t \in tags : t[2] # req[w].label}
    /\ retired' = retired \cup {req[w].label}
    /\ UNCHANGED <<role, listBoard, cardList, archived, assignee>>

\* Mutant: card_labels has no foreign key to labels.
TaggableUnchecked(k) == TRUE

\* The foreign key of card_labels.
Taggable(k) == labelBoard[k] # NoBoard

\* AssignToCard and RemoveFromCard of a label.
TagCard(w) ==
    /\ \/ /\ Write(w, "tag")
          /\ tags' = tags \cup IF Taggable(req[w].label)
                               THEN {<<req[w].card, req[w].label>>} ELSE {}
       \/ /\ Write(w, "untag")
          /\ tags' = tags \ {<<req[w].card, req[w].label>>}
    /\ UNCHANGED <<role, listBoard, cardList, archived, assignee, labelBoard, retired>>

\* A statement fails without effect, or the process dies.
Fails(w) ==
    /\ req[w].pc # "idle" /\ Step(w, req[w].pc, "idle")
    /\ UNCHANGED <<role, content>>

\* A user joins, leaves or is given another role.
RoleChanges(b, u, r) ==
    /\ role[b][u] # r
    /\ role' = [role EXCEPT ![b][u] = r]
    /\ UNCHANGED <<content, req>>

Start(w) ==
    \E u \in Users :
        \/ \E b \in Boards, op \in {"createList", "createLabel"} :
              StartOnBoard(w, op, u, b)
        \/ \E l \in Lists, op \in {"copyList", "createCard"} :
              StartOnList(w, op, u, l)
        \/ \E k \in Labels : StartOnLabel(w, u, k)
        \/ \E c \in Cards :
              \/ \E op \in {"archive", "restore", "unassign"} :
                    StartOnCard(w, op, u, c, NoList, NoLabel, NoUser)
              \/ \E l \in Lists :
                    StartOnCard(w, "moveCard", u, c, l, NoLabel, NoUser)
              \/ \E k \in Labels, op \in {"tag", "untag"} :
                    StartOnCard(w, op, u, c, NoList, k, NoUser)
              \/ \E v \in Users :
                    StartOnCard(w, "assign", u, c, NoList, NoLabel, v)

Continue(w) ==
    \/ CheckAccess(w) \/ FindList(w) \/ FindLabel(w) \/ FindAssignee(w)
    \/ CreateList(w) \/ PutCard(w)
    \/ CopyList(w) \/ ReadCards(w) \/ CopyCard(w)
    \/ ArchiveCard(w) \/ AssignCard(w)
    \/ CreateLabel(w) \/ DeleteLabel(w) \/ TagCard(w)
    \/ Fails(w)

Next ==
    \/ \E w \in Workers : Start(w) \/ Continue(w)
    \/ \E b \in Boards, u \in Users, r \in Roles : RoleChanges(b, u, r)

Spec == Init /\ [][Next]_vars

-----------------------------------------------------------------------------
\* A card never changes board: Move compares the boards of the card and of the
\* target list before it writes, and no interleaving of moves, copies and
\* creations makes that comparison stale.
CardsKeepTheirBoard ==
    [][\A c \in Cards : cardList[c] # NoList =>
          BoardOfCard(c)' = BoardOfCard(c)]_vars

\* A card carries labels of its own board only, and only labels that exist,
\* although the label may be deleted or the card moved after the check.
LabelsOfOwnBoard ==
    \A t \in tags : /\ labelBoard[t[2]] # NoBoard
                    /\ labelBoard[t[2]] = BoardOfCard(t[1])
=============================================================================
