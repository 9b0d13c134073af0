------------------------------ MODULE Comments ------------------------------
(***************************************************************************)
(* Comments on cards: table comments, who is notified of a comment, and    *)
(* the requests of internal/service/comment_service.go.                    *)
(*                                                                         *)
(* A comment is one INSERT; its notifications follow, one access check and *)
(* one INSERT for each mention, while members come and go.  ListByCard     *)
(* reads the live comments of a card, oldest first, and nests them in      *)
(* buildCommentTree.                                                       *)
(*                                                                         *)
(* Left out: the text, of which only matters whom it mentions: the regular *)
(* expression may yield any users in any order, repeated ones and the      *)
(* author included; the role CanEdit asks for (module Cards): a check of   *)
(* it may pass or refuse at any time; and NotifyCommentAdded, which goes   *)
(* to the assignee of the card without a check (module Events has what     *)
(* becomes of a notification).                                             *)
(***************************************************************************)
EXTENDS SequencesExt

CONSTANTS Workers, Users, Cards, Comments, NoUser, NoCard, NoComment

ASSUME NullAssumption ==
    NoUser \notin Users /\ NoCard \notin Cards /\ NoComment \notin Comments

VARIABLES
    row,       \* row[c]: card_id, author_id, parent_id; NoCard: no such row
    thread,    \* the comments, and those about to be inserted or that never
               \* were, by created_at
    deleted,   \* comments with deleted_at
    edited,    \* comments with is_edited
    member,    \* users with access to the board of the cards
    req        \* req[w]: the request worker w is serving

table == <<row, thread, deleted, edited>>
vars == <<table, member, req>>

Rows == [card : Cards \cup {NoCard}, author : Users \cup {NoUser},
         parent : Comments \cup {NoComment}]
NoRow == [card |-> NoCard, author |-> NoUser, parent |-> NoComment]

Requests == [pc : {"idle", "insert", "mentions", "mention", "edit", "delete"},
             comment : Comments \cup {NoComment},
             row : Rows,                \* the row to insert
             user : Users \cup {NoUser}, \* whose mention passed the check
             notified : SUBSET Users,   \* notifiedUsers
             sent : [Users -> 0..2],    \* history: its notifications, 2: or more
             seen : SUBSET Users]       \* history: who had access meanwhile
Idle == [pc |-> "idle", comment |-> NoComment, row |-> NoRow,
         user |-> NoUser, notified |-> {},
         sent |-> [u \in Users |-> 0], seen |-> {}]

TypeOK ==
    /\ row \in [Comments -> Rows]
    /\ thread \in Seq(Comments) /\ IsInjective(thread)
    /\ \A c \in Comments : row[c] # NoRow => c \in ToSet(thread)
    /\ deleted \in SUBSET {c \in Comments : row[c] # NoRow}
    /\ edited \in SUBSET {c \in Comments : row[c] # NoRow}
    /\ member \in SUBSET Users
    /\ req \in [Workers -> Requests]

Init ==
    /\ row = [c \in Comments |-> NoRow]
    /\ thread = <<>> /\ deleted = {} /\ edited = {}
    /\ member \in SUBSET Users
    /\ req = [w \in Workers |-> Idle]

-----------------------------------------------------------------------------
Become(w, r) == req' = [req EXCEPT ![w] = r]
Goto(w, from, to) ==
    /\ req[w].pc = from
    /\ Become(w, IF to = "idle" THEN Idle ELSE [req[w] EXCEPT !.pc = to])

Live(c) == row[c] # NoRow /\ c \notin deleted

\* Create up to created_at.  A client knows the ids of comments that were
\* inserted, of any card, and of deleted ones.
StartCreate(w, u, x, p) ==
    /\ req[w].pc = "idle"
    /\ u \in member
    /\ p # NoComment => row[p] # NoRow
    /\ \E c \in Comments \ ToSet(thread) :
          /\ Become(w, [Idle EXCEPT !.pc = "insert", !.comment = c,
                            !.row = [card |-> x, author |-> u, parent |-> p]])
          /\ thread' = Append(thread, c)
    /\ UNCHANGED <<row, deleted, edited, member>>

\* The INSERT.
Insert(w) ==
    LET c == req[w].comment
    IN  /\ req[w].pc = "insert"
        /\ row' = [row EXCEPT ![c] = req[w].row]
        /\ Become(w, [req[w] EXCEPT !.pc = "mentions", !.seen = member])
        /\ UNCHANGED <<thread, deleted, edited, member>>

\* Whom processMentions passes over.
PassedOver(r) == r.notified \cup {r.row.author}

HasAccess(u) == u \in member

\* One more match of the regular expression: FindByID and CanUserAccess.
FindMentioned(w) ==
    /\ req[w].pc = "mentions"
    /\ \E u \in Users \ PassedOver(req[w]) :
          /\ HasAccess(u)
          /\ Become(w, [req[w] EXCEPT !.pc = "mention", !.user = u])
    /\ UNCHANGED <<table, member>>

\* Mutant: notifiedUsers is not filled.
NotedNobody(r) == r.notified

\* Mutant: the user is reset before it is noted.
NotedReset(r) == r.notified \cup {NoUser}

Noted(r) == r.notified \cup {r.user}

\* NotifyMention, whose error is ignored, and notifiedUsers.
NotifyMention(w) ==
    LET r == req[w]
        n == r.sent[r.user]
    IN  /\ r.pc = "mention"
        /\ \E k \in {n, IF n = 2 THEN 2 ELSE n + 1} :
              Become(w, [r EXCEPT !.pc = "mentions", !.notified = Noted(r),
                                  !.sent = [r.sent EXCEPT ![r.user] = k],
                                  !.user = NoUser])
        /\ UNCHANGED <<table, member>>

MentionsDone(w) ==
    /\ Goto(w, "mentions", "idle")
    /\ UNCHANGED <<table, member>>

\* FindByID of a comment and the checks of Update (the author's) or Delete (the
\* author's or a manager's).
StartChange(w, c, pc) ==
    /\ req[w].pc = "idle" /\ Live(c) /\ pc \in {"edit", "delete"}
    /\ Become(w, [Idle EXCEPT !.pc = pc, !.comment = c])
    /\ UNCHANGED <<table, member>>

\* Mutant: the UPDATE does not ask for deleted_at IS NULL.
WritableIfThere(c) == row[c] # NoRow

\* WHERE deleted_at IS NULL
Writable(c) == Live(c)

\* Update and SoftDelete of the repository.
Change(w) ==
    LET c == req[w].comment
    IN  /\ req[w].pc \in {"edit", "delete"} /\ Become(w, Idle)
        /\ Writable(c)
        /\ \/ /\ req[w].pc = "edit"
              /\ edited' = edited \cup {c}
              /\ UNCHANGED deleted
           \/ /\ req[w].pc = "delete"
              /\ deleted' = deleted \cup {c}
              /\ UNCHANGED edited
        /\ UNCHANGED <<row, thread, member>>

\* A check refuses, a statement fails or the process dies.
Fails(w) ==
    /\ req[w].pc # "idle" /\ Become(w, Idle)
    /\ UNCHANGED <<table, member>>

\* A user joins or leaves the board (module Boards).
MembersChange(u) ==
    /\ member' = IF u \in member THEN member \ {u} ELSE member \cup {u}
    /\ req' = [w \in Workers |->
                 IF req[w].pc \in {"mentions", "mention"}
                 THEN [req[w] EXCEPT !.seen = req[w].seen \cup {u}] ELSE req[w]]
    /\ UNCHANGED <<table>>

Next ==
    \/ \E w \in Workers :
          \/ \E u \in Users, x \in Cards, p \in Comments \cup {NoComment} :
                StartCreate(w, u, x, p)
          \/ \E c \in Comments, pc \in {"edit", "delete"} : StartChange(w, c, pc)
          \/ Insert(w) \/ FindMentioned(w) \/ NotifyMention(w) \/ MentionsDone(w)
          \/ Change(w) \/ Fails(w)
    \/ \E u \in Users : MembersChange(u)

Spec == Init /\ [][Next]_vars

-----------------------------------------------------------------------------
\* Mutant: FindByCardID does not ask for deleted_at IS NULL.
FoundWithDeleted(x) == {c \in Comments : row[c] # NoRow /\ row[c].card = x}

\* FindByCardID of the repository, whose rows come in the order of thread.
Found(x) == {c \in Comments : Live(c) /\ row[c].card = x}

\* A comment as ListByCard returns it; replies is a copy.
Node(c, replies) == [id |-> c, replies |-> replies]

\* One round of the loop of buildCommentTree, which only sees rows that were
\* found: tree[p] is Replies of p in commentMap, tree[NoComment] is topLevel.
Attach(tree, c) ==
    LET p == row[c].parent
    IN  IF {c, p} \subseteq DOMAIN tree
        THEN [tree EXCEPT ![p] = Append(tree[p], Node(c, tree[c]))]
        ELSE tree

\* The tree after each round.
Tree(x) ==
    LET tree[i \in 0..Len(thread)] ==
            IF i = 0 THEN [c \in Found(x) \cup {NoComment} |-> <<>>]
                     ELSE Attach(tree[i - 1], thread[i])
    IN  tree

\* buildCommentTree: topLevel reversed, with the Replies its comments have then.
Shown(x) ==
    LET tree == Tree(x)[Len(thread)]
        top  == Reverse(tree[NoComment])
    IN  [i \in DOMAIN top |-> Node(top[i].id, tree[top[i].id])]

-----------------------------------------------------------------------------
\* ListByCard shows each live comment that starts a thread once, newest first,
\* with its live replies on that card once each, oldest first, whatever else
\* was deleted, answers a reply, or answers a comment of another card.
ThreadsShown ==
    \A x \in Cards :
        LET Age(c) == CHOOSE i \in DOMAIN thread : thread[i] = c
            shown == Shown(x)
            Of(i) == shown[i].replies
        IN  /\ {shown[i].id : i \in DOMAIN shown} =
                  {c \in Comments : Live(c) /\ row[c].card = x /\ row[c].parent = NoComment}
            /\ \A i, j \in DOMAIN shown : i < j => Age(shown[i].id) > Age(shown[j].id)
            /\ \A i \in DOMAIN shown :
                  /\ {Of(i)[k].id : k \in DOMAIN Of(i)} =
                        {c \in Comments : /\ Live(c) /\ row[c].card = x
                                          /\ row[c].parent = shown[i].id}
                  /\ \A k, l \in DOMAIN Of(i) : k < l => Age(Of(i)[k].id) < Age(Of(i)[l].id)

\* "Get all comments with threaded replies" (swagger.yaml): what is shown of a
\* reply holds the live answers to that reply.
AnswersThreaded ==
    \A x \in Cards :
        \A thr \in Range(Shown(x)) :
            \A reply \in Range(thr.replies) :
                {a.id : a \in Range(reply.replies)} =
                    {c \in Found(x) : row[c].parent = reply.id}

\* A deleted comment is what it was when it was deleted, although an edit that
\* found it alive may be in flight.
DeletedIsFinal ==
    [][\A c \in deleted : c \in deleted' /\ (c \in edited' => c \in edited)]_vars

\* A comment notifies a user of a mention at most once however often the text
\* repeats it, never its author, and nobody who had no access to the board at
\* any time since the comment was there.
MentionsReach ==
    \A w \in Workers, u \in Users :
        req[w].sent[u] > 0 => /\ req[w].sent[u] = 1
                              /\ u # req[w].row.author
                              /\ u \in req[w].seen
=============================================================================
