---------------------------- MODULE CardsProofs ----------------------------
(***************************************************************************)
(* Proofs about Cards: type correctness, and that a card keeps its board   *)
(* and carries labels of its board only, for any number of workers, users, *)
(* boards, lists, cards and labels.                                        *)
(***************************************************************************)
EXTENDS Cards, TLAPS

CardOps == {"moveCard", "archive", "restore", "assign", "unassign",
            "tag", "untag"}

\* What stays true of a request r in progress: the list or card it looked up
\* is still on the board it found, ...
LookedUp(r) ==
    /\ r.board \in Boards
    /\ r.op \in CardOps => /\ r.card \in Cards
                           /\ cardList[r.card] \in Lists
                           /\ listBoard[cardList[r.card]] = r.board
    /\ r.op \in {"createCard", "copyList"} => /\ r.list \in Lists
                                              /\ listBoard[r.list] = r.board
    /\ r.op \in {"tag", "untag", "deleteLabel"} => r.label \in Labels

\* ... and so are the list and the label it compared, unless the label is gone.
\* Only the operations that compare something have the steps that do.
Compared(r) ==
    /\ r.pc = "findList" => r.op = "moveCard"
    /\ r.pc = "findLabel" => r.op = "tag"
    /\ r.pc = "findAssignee" => r.op = "assign"
    /\ r.pc = "write" /\ r.op = "moveCard"
          => r.list \in Lists /\ listBoard[r.list] = r.board
    /\ r.pc = "write" /\ r.op = "tag"
          => labelBoard[r.label] = r.board \/ r.label \in retired
    /\ r.pc \in {"readCards", "copyCards"}
          => r.copy \in Lists /\ listBoard[r.copy] \in Boards

SameLookup(r, s) ==
    /\ s.op = r.op /\ s.board = r.board /\ s.list = r.list
    /\ s.card = r.card /\ s.label = r.label

RequestOK(r) == r.pc # "idle" => LookedUp(r) /\ Compared(r)

\* A card is in a list that was created.
CardsPlaced ==
    \A c \in Cards : cardList[c] # NoList => listBoard[cardList[c]] # NoBoard

RetiredGone == \A k \in retired : labelBoard[k] = NoBoard

\* The inductive invariant.
IInv ==
    /\ TypeOK
    /\ \A w \in Workers : RequestOK(req[w])
    /\ CardsPlaced
    /\ RetiredGone
    /\ LabelsOfOwnBoard

\* What a step does to the boards of lists, cards and labels.
Kept ==
    /\ \A l \in Lists : listBoard[l] # NoBoard => listBoard'[l] = listBoard[l]
    /\ \A c \in Cards : cardList[c] # NoList =>
          /\ cardList'[c] # NoList
          /\ listBoard'[cardList'[c]] = listBoard[cardList[c]]
    /\ \A k \in Labels : labelBoard[k] # NoBoard =>
          labelBoard'[k] = labelBoard[k] \/ k \in retired'
    /\ retired \subseteq retired'
-----------------------------------------------------------------------------
LEMMA IdleType == Idle \in Requests /\ Idle.pc = "idle" /\ Idle.op = "createList"
BY DEF Idle, Requests, Steps, Ops

\* Request s is request r gone on to step "to" and otherwise unchanged.
Moved(r, s, to) ==
    /\ s.pc = to /\ s.op = r.op /\ s.actor = r.actor /\ s.board = r.board
    /\ s.list = r.list /\ s.card = r.card /\ s.label = r.label
    /\ s.user = r.user /\ s.copy = r.copy /\ s.todo = r.todo

\* What going on to another step does to the requests.
LEMMA StepEffect ==
    ASSUME TypeOK, NEW w \in Workers, NEW from, NEW to \in Steps,
           Step(w, from, to)
    PROVE  /\ req' \in [Workers -> Requests]
           /\ req[w].pc = from
           /\ to = "idle" => req'[w] = Idle
           /\ to # "idle" => Moved(req[w], req'[w], to)
           /\ \A v \in Workers \ {w} : req'[v] = req[v]
<1>1. [req[w] EXCEPT !.pc = to] \in Requests
  BY DEF TypeOK, Requests
<1>2. Moved(req[w], [req[w] EXCEPT !.pc = to], to)
  BY DEF TypeOK, Requests, Moved
<1>3. QED
  BY <1>1, <1>2, IdleType DEF TypeOK, Step

\* What taking a request does to the requests.
LEMMA TakeEffect ==
    ASSUME TypeOK, NEW w \in Workers, NEW r \in Requests, Take(w, r)
    PROVE  /\ req' \in [Workers -> Requests]
           /\ req'[w] = r /\ r.board # NoBoard
           /\ \A v \in Workers \ {w} : req'[v] = req[v]
           /\ UNCHANGED <<role, content>>
BY DEF TypeOK, Take

\* A request that does not move keeps what is known of it.
LEMMA OthersKeep ==
    ASSUME TypeOK, TypeOK', Kept,
           NEW w \in Workers, req'[w] = req[w], RequestOK(req[w])
    PROVE  RequestOK(req[w])'
<1>1. req[w] \in Requests
  BY DEF TypeOK
<1>2. CASE req[w].pc = "idle"
  BY <1>2 DEF RequestOK
<1>3. CASE req[w].pc # "idle"
  <2>1. LookedUp(req[w]) /\ Compared(req[w])
    BY <1>3 DEF RequestOK
  <2>2. \A l \in Lists : listBoard[l] \in Boards => listBoard'[l] = listBoard[l]
    BY NullAssumption DEF Kept
  <2>3. \A c \in Cards : cardList[c] \in Lists /\ listBoard[cardList[c]] \in Boards
            => cardList'[c] \in Lists
               /\ listBoard'[cardList'[c]] = listBoard[cardList[c]]
    BY NullAssumption DEF Kept, TypeOK
  <2>4. \A k \in Labels : labelBoard[k] \in Boards \/ k \in retired
            => labelBoard'[k] = labelBoard[k] \/ k \in retired'
    BY NullAssumption DEF Kept
  <2>5. LookedUp(req[w])'
    BY <2>1, <2>2, <2>3 DEF LookedUp, CardOps
  <2>6. Compared(req[w])'
    <3>1. CASE req[w].pc = "write" /\ req[w].op = "moveCard"
      BY <2>1, <2>2, <3>1 DEF LookedUp, Compared
    <3>2. CASE req[w].pc = "write" /\ req[w].op = "tag"
      <4>1. req[w].label \in Labels
        BY <2>1, <3>2 DEF LookedUp
      <4>2. labelBoard[req[w].label] = req[w].board \/ req[w].label \in retired
        BY <2>1, <3>2 DEF Compared
      <4>3. labelBoard'[req[w].label] = req[w].board \/ req[w].label \in retired'
        BY <2>1, <2>4, <4>1, <4>2 DEF LookedUp, Kept
      <4>4. QED
        BY <3>2, <4>3 DEF Compared
    <3>3. CASE req[w].pc \in {"readCards", "copyCards"}
      BY <2>1, <2>2, <3>3 DEF Compared
    <3>4. /\ req[w].pc = "findList" => req[w].op = "moveCard"
          /\ req[w].pc = "findLabel" => req[w].op = "tag"
          /\ req[w].pc = "findAssignee" => req[w].op = "assign"
      BY <2>1 DEF Compared
    <3>5. CASE /\ ~(req[w].pc = "write" /\ req[w].op \in {"moveCard", "tag"})
               /\ req[w].pc \notin {"readCards", "copyCards"}
      BY <3>4, <3>5 DEF Compared
    <3>6. QED
      BY <3>1, <3>2, <3>3, <3>5
  <2>7. QED
    BY <2>5, <2>6 DEF RequestOK
<1>4. QED
  BY <1>2, <1>3

LEMMA IdleOK == ASSUME NEW w, req'[w] = Idle PROVE RequestOK(req[w])'
BY IdleType DEF RequestOK

\* What a moving request had looked up stays true.
LEMMA LookedUpKeeps ==
    ASSUME TypeOK, TypeOK', Kept, NEW w \in Workers, LookedUp(req[w]),
           SameLookup(req[w], req'[w])
    PROVE  LookedUp(req[w])'
<1>1. \A l \in Lists : listBoard[l] \in Boards => listBoard'[l] = listBoard[l]
  BY NullAssumption DEF Kept
<1>2. \A c \in Cards : cardList[c] \in Lists /\ listBoard[cardList[c]] \in Boards
          => cardList'[c] \in Lists
             /\ listBoard'[cardList'[c]] = listBoard[cardList[c]]
  BY NullAssumption DEF Kept, TypeOK
<1>3. QED
  BY <1>1, <1>2 DEF LookedUp, CardOps, SameLookup

\* The invariant from what an action of worker w establishes.
LEMMA Assemble ==
    ASSUME IInv, NEW w \in Workers,
           TypeOK', Kept, CardsPlaced', RetiredGone', LabelsOfOwnBoard',
           RequestOK(req[w])', \A v \in Workers \ {w} : req'[v] = req[v]
    PROVE  IInv' /\ Kept
<1>1. ASSUME NEW v \in Workers PROVE RequestOK(req[v])'
  <2>1. CASE v = w
    BY <2>1
  <2>2. CASE v # w
    BY <2>2, OthersKeep DEF IInv
  <2>3. QED
    BY <2>1, <2>2
<1>2. QED
  BY <1>1 DEF IInv

\* Nothing but a request changes.
LEMMA ContentKept ==
    ASSUME IInv, UNCHANGED content
    PROVE  Kept /\ CardsPlaced' /\ RetiredGone' /\ LabelsOfOwnBoard'
<1>1. Kept
  BY DEF content, Kept
<1>2. CardsPlaced'
  BY DEF IInv, content, CardsPlaced
<1>3. RetiredGone'
  BY DEF IInv, content, RetiredGone
<1>4. LabelsOfOwnBoard'
  BY DEF IInv, content, LabelsOfOwnBoard, BoardOfCard, BoardOfList
<1>5. QED
  BY <1>1, <1>2, <1>3, <1>4

\* A request arrives and has looked up the board of what it is about.
LEMMA TakeKeeps ==
    ASSUME IInv, NEW w \in Workers, NEW r \in Requests, Take(w, r),
           r.pc = "access",
           r.board \in Boards => LookedUp(r)
    PROVE  IInv' /\ Kept
<1>1. /\ req' \in [Workers -> Requests]
      /\ req'[w] = r /\ r.board # NoBoard
      /\ \A v \in Workers \ {w} : req'[v] = req[v]
      /\ UNCHANGED <<role, content>>
  BY TakeEffect DEF IInv
<1>2. LookedUp(r)
  BY <1>1 DEF Requests
<1>3. LookedUp(req[w])'
  BY <1>1, <1>2 DEF LookedUp, content
<1>4. RequestOK(req[w])'
  BY <1>1, <1>3 DEF RequestOK, Compared
<1>5. TypeOK'
  BY <1>1 DEF IInv, TypeOK, content
<1>6. QED
  BY <1>1, <1>4, <1>5, ContentKept, Assemble

LEMMA BoardTypes ==
    ASSUME TypeOK
    PROVE  /\ \A l \in Lists \cup {NoList} :
                 /\ BoardOfList(l) \in Boards \cup {NoBoard}
                 /\ BoardOfList(l) \in Boards => l \in Lists /\ BoardOfList(l) = listBoard[l]
           /\ \A c \in Cards :
                 /\ BoardOfCard(c) \in Boards \cup {NoBoard}
                 /\ BoardOfCard(c) \in Boards =>
                       cardList[c] \in Lists /\ BoardOfCard(c) = listBoard[cardList[c]]
BY NullAssumption DEF TypeOK, BoardOfList, BoardOfCard

LEMMA StartKeeps == ASSUME IInv, NEW w \in Workers, Start(w) PROVE IInv' /\ Kept
<1> USE DEF Steps, Ops
<1>1. ASSUME NEW u \in Users, NEW b \in Boards,
             NEW op \in {"createList", "createLabel"}, StartOnBoard(w, op, u, b)
      PROVE  IInv' /\ Kept
  <2> DEFINE r == [Idle EXCEPT !.pc = "access", !.op = op, !.actor = u,
                               !.board = b]
  <2>1. r \in Requests /\ r.pc = "access" /\ LookedUp(r)
    BY <1>1 DEF Idle, Requests, LookedUp, CardOps
  <2>2. Take(w, r)
    BY <1>1 DEF StartOnBoard
  <2> HIDE DEF r
  <2>3. QED
    BY <2>1, <2>2, TakeKeeps
<1>2. ASSUME NEW u \in Users, NEW l \in Lists,
             NEW op \in {"copyList", "createCard"}, StartOnList(w, op, u, l)
      PROVE  IInv' /\ Kept
  <2> DEFINE r == [Idle EXCEPT !.pc = "access", !.op = op, !.actor = u,
                               !.list = l, !.board = BoardOfList(l)]
  <2>1. /\ BoardOfList(l) \in Boards \cup {NoBoard}
        /\ BoardOfList(l) \in Boards => BoardOfList(l) = listBoard[l]
    BY BoardTypes DEF IInv
  <2>2. r \in Requests /\ r.pc = "access"
    BY <1>2, <2>1 DEF Idle, Requests
  <2>3. r.board \in Boards => LookedUp(r)
    BY <1>2, <2>1 DEF Idle, LookedUp, CardOps
  <2>4. Take(w, r)
    BY <1>2 DEF StartOnList
  <2> HIDE DEF r
  <2>5. QED
    BY <2>2, <2>3, <2>4, TakeKeeps
<1>3. ASSUME NEW u \in Users, NEW k \in Labels, StartOnLabel(w, u, k)
      PROVE  IInv' /\ Kept
  <2> DEFINE r == [Idle EXCEPT !.pc = "access", !.op = "deleteLabel",
                               !.actor = u, !.label = k,
                               !.board = labelBoard[k]]
  <2>1. labelBoard[k] \in Boards \cup {NoBoard}
    BY DEF IInv, TypeOK
  <2>2. r \in Requests /\ r.pc = "access" /\ (r.board \in Boards => LookedUp(r))
    BY <1>3, <2>1 DEF Idle, Requests, LookedUp, CardOps
  <2>3. Take(w, r)
    BY <1>3 DEF StartOnLabel
  <2> HIDE DEF r
  <2>4. QED
    BY <2>2, <2>3, TakeKeeps
<1>4. ASSUME NEW u \in Users, NEW c \in Cards, NEW op \in CardOps,
             NEW l \in Lists \cup {NoList}, NEW k \in Labels \cup {NoLabel},
             NEW v \in Users \cup {NoUser},
             op \in {"tag", "untag"} => k \in Labels,
             StartOnCard(w, op, u, c, l, k, v)
      PROVE  IInv' /\ Kept
  <2> DEFINE r == [Idle EXCEPT !.pc = "access", !.op = op, !.actor = u,
                               !.card = c, !.list = l, !.label = k, !.user = v,
                               !.board = BoardOfCard(c)]
  <2>1. /\ BoardOfCard(c) \in Boards \cup {NoBoard}
        /\ BoardOfCard(c) \in Boards =>
              cardList[c] \in Lists /\ BoardOfCard(c) = listBoard[cardList[c]]
    BY BoardTypes DEF IInv
  <2>2. r \in Requests /\ r.pc = "access"
    BY <1>4, <2>1 DEF Idle, Requests, CardOps
  <2>3. r.board \in Boards => LookedUp(r)
    BY <1>4, <2>1 DEF Idle, LookedUp, CardOps
  <2>4. Take(w, r)
    BY <1>4 DEF StartOnCard
  <2> HIDE DEF r
  <2>5. QED
    BY <2>2, <2>3, <2>4, TakeKeeps
<1>5. QED
  BY <1>1, <1>2, <1>3, <1>4 DEF Start, CardOps

\* A request that only goes on to step "to", or ends.
LEMMA StepKeeps ==
    ASSUME IInv, NEW w \in Workers, NEW from \in Steps, NEW to \in Steps,
           from # "idle", Step(w, from, to), UNCHANGED <<role, content>>,
           to # "idle" => Compared(req'[w])
    PROVE  IInv' /\ Kept
<1>1. /\ req' \in [Workers -> Requests]
      /\ req[w].pc = from
      /\ to = "idle" => req'[w] = Idle
      /\ to # "idle" => Moved(req[w], req'[w], to)
      /\ \A v \in Workers \ {w} : req'[v] = req[v]
  BY StepEffect DEF IInv
<1>2. TypeOK'
  BY <1>1 DEF IInv, TypeOK, content
<1>3. RequestOK(req[w])'
  <2>1. CASE to = "idle"
    BY <1>1, <2>1, IdleType DEF RequestOK
  <2>2. CASE to # "idle"
    <3>1. LookedUp(req[w])
      BY <1>1 DEF IInv, RequestOK
    <3>2. LookedUp(req[w])'
      BY <1>1, <1>2, <2>2, <3>1, ContentKept, LookedUpKeeps
         DEF IInv, Moved, SameLookup
    <3>3. Compared(req[w])'
      BY <1>1, <2>2 DEF Compared, Moved, content
    <3>4. QED
      BY <3>2, <3>3 DEF RequestOK
  <2>3. QED
    BY <2>1, <2>2
<1>4. QED
  BY <1>1, <1>2, <1>3, ContentKept, Assemble

LEMMA CheckKeeps ==
    ASSUME IInv, NEW w \in Workers,
           CheckAccess(w) \/ FindList(w) \/ FindLabel(w) \/ FindAssignee(w)
               \/ Fails(w)
    PROVE  IInv' /\ Kept
<1> USE DEF Steps
<1>0. req[w] \in Requests /\ RequestOK(req[w])
  BY DEF IInv, TypeOK
<1>1. CASE CheckAccess(w)
  <2> DEFINE to == IF Allowed(req[w].op, role[req[w].board][req[w].actor])
                   THEN AfterAccess(req[w].op) ELSE "idle"
  <2>1. Step(w, "access", to) /\ UNCHANGED <<role, content>>
    BY <1>1 DEF CheckAccess
  <2>2. to \in Steps /\ to \notin {"readCards", "copyCards"}
    BY DEF AfterAccess
  <2>3. /\ to = "write" => req[w].op \notin {"moveCard", "tag"}
        /\ to = "findList" => req[w].op = "moveCard"
        /\ to = "findLabel" => req[w].op = "tag"
        /\ to = "findAssignee" => req[w].op = "assign"
    BY DEF AfterAccess
  <2> HIDE DEF to
  <2>4. to # "idle" => Compared(req'[w])
    BY <2>1, <2>2, <2>3, StepEffect DEF IInv, Compared, Moved
  <2>5. QED
    BY <2>1, <2>2, <2>4, StepKeeps
<1>2. CASE FindList(w)
  <2> DEFINE to == IF SameBoard(BoardOfList(req[w].list), req[w])
                   THEN "write" ELSE "idle"
  <2>1. Step(w, "findList", to) /\ UNCHANGED <<role, content>>
    BY <1>2 DEF FindList
  <2>2. to \in {"write", "idle"}
    OBVIOUS
  <2>3. to = "write" => req[w].list \in Lists
                        /\ listBoard[req[w].list] = req[w].board
    BY <1>0 DEF SameBoard, BoardOfList, Requests
  <2>4. /\ req[w].pc = "findList"
        /\ req'[w] = IF to = "idle" THEN Idle ELSE [req[w] EXCEPT !.pc = to]
    BY <2>1 DEF Step, IInv, TypeOK
  <2> HIDE DEF to
  <2>5. to # "idle" => Compared(req'[w])
    <3>1. Moved(req[w], req'[w], "write") \/ to = "idle"
      BY <2>1, <2>2, StepEffect DEF IInv
    <3>2. req[w].op # "tag"
      BY <1>0, <2>4 DEF RequestOK, Compared
    <3>3. QED
      BY <2>2, <2>3, <3>1, <3>2 DEF Compared, Moved
  <2>6. QED
    BY <2>1, <2>2, <2>5, StepKeeps
<1>3. CASE FindLabel(w)
  <2> DEFINE to == IF SameBoard(labelBoard[req[w].label], req[w])
                   THEN "write" ELSE "idle"
  <2>1. Step(w, "findLabel", to) /\ UNCHANGED <<role, content>>
    BY <1>3 DEF FindLabel
  <2>2. to \in {"write", "idle"}
    OBVIOUS
  <2>3. to = "write" => labelBoard[req[w].label] = req[w].board
    BY DEF SameBoard
  <2> HIDE DEF to
  <2>4. req[w].pc = "findLabel"
    BY <2>1 DEF Step
  <2>5. to # "idle" => Compared(req'[w])
    <3>1. Moved(req[w], req'[w], "write") \/ to = "idle"
      BY <2>1, <2>2, StepEffect DEF IInv
    <3>2. req[w].op = "tag"
      BY <1>0, <2>4 DEF RequestOK, Compared
    <3>3. QED
      BY <2>2, <2>3, <3>1, <3>2 DEF Compared, Moved
  <2>6. QED
    BY <2>1, <2>2, <2>5, StepKeeps
<1>4. CASE FindAssignee(w)
  <2> DEFINE to == IF role[req[w].board][req[w].user] # "none"
                   THEN "write" ELSE "idle"
  <2>1. Step(w, "findAssignee", to) /\ UNCHANGED <<role, content>>
    BY <1>4 DEF FindAssignee
  <2>2. to \in {"write", "idle"}
    OBVIOUS
  <2> HIDE DEF to
  <2>4. req[w].pc = "findAssignee"
    BY <2>1 DEF Step
  <2>5. to # "idle" => Compared(req'[w])
    <3>1. Moved(req[w], req'[w], "write") \/ to = "idle"
      BY <2>1, <2>2, StepEffect DEF IInv
    <3>2. req[w].op = "assign"
      BY <1>0, <2>4 DEF RequestOK, Compared
    <3>3. QED
      BY <3>1, <3>2 DEF Compared, Moved
  <2>6. QED
    BY <2>1, <2>2, <2>5, StepKeeps
<1>5. CASE Fails(w)
  <2>1. /\ req[w].pc \in Steps /\ req[w].pc # "idle"
        /\ Step(w, req[w].pc, "idle") /\ UNCHANGED <<role, content>>
    BY <1>0, <1>5 DEF Fails, Requests
  <2>2. QED
    BY <2>1, StepKeeps
<1>6. QED
  BY <1>1, <1>2, <1>3, <1>4, <1>5

-----------------------------------------------------------------------------
\* What is known of a request that writes and ends.
LEMMA Writing ==
    ASSUME IInv, NEW w \in Workers, NEW op, Write(w, op)
    PROVE  /\ req[w] \in Requests /\ req[w].pc = "write" /\ req[w].op = op
           /\ LookedUp(req[w]) /\ Compared(req[w])
           /\ req' \in [Workers -> Requests]
           /\ RequestOK(req[w])'
           /\ \A v \in Workers \ {w} : req'[v] = req[v]
<1>1. Step(w, "write", "idle") /\ req[w].op = op
  BY DEF Write
<1>2. "idle" \in Steps
  BY DEF Steps
<1>3. /\ req' \in [Workers -> Requests] /\ req[w].pc = "write"
      /\ req'[w] = Idle /\ \A v \in Workers \ {w} : req'[v] = req[v]
  BY <1>1, <1>2, StepEffect DEF IInv
<1>4. RequestOK(req[w])'
  BY <1>3, IdleOK
<1>5. LookedUp(req[w]) /\ Compared(req[w])
  BY <1>3 DEF IInv, RequestOK
<1>6. QED
  BY <1>1, <1>3, <1>4, <1>5 DEF IInv, TypeOK

\* A card that is in a list of a board stays on that board.
LEMMA BoardFollows ==
    ASSUME TypeOK, TypeOK', Kept, NEW c \in Cards, cardList[c] # NoList
    PROVE  BoardOfCard(c)' = BoardOfCard(c)
BY DEF Kept, BoardOfCard, BoardOfList

\* Labels stay on cards as long as the labels stay.
LEMMA TagsFollow ==
    ASSUME TypeOK, TypeOK', Kept, LabelsOfOwnBoard, tags' \subseteq tags,
           \A t \in tags' : labelBoard'[t[2]] = labelBoard[t[2]]
    PROVE  LabelsOfOwnBoard'
<1>1. ASSUME NEW t \in tags'
      PROVE  /\ labelBoard'[t[2]] # NoBoard
             /\ labelBoard'[t[2]] = BoardOfCard(t[1])'
  <2>1. t \in tags /\ t[1] \in Cards
    BY DEF TypeOK
  <2>2. labelBoard[t[2]] # NoBoard /\ labelBoard[t[2]] = BoardOfCard(t[1])
    BY <2>1 DEF LabelsOfOwnBoard
  <2>3. cardList[t[1]] # NoList
    BY <2>2 DEF BoardOfCard, BoardOfList
  <2>4. BoardOfCard(t[1])' = BoardOfCard(t[1])
    BY <2>1, <2>3, BoardFollows
  <2>5. QED
    BY <2>2, <2>4
<1>2. QED
  BY <1>1 DEF LabelsOfOwnBoard

LEMMA CreateListKeeps ==
    ASSUME IInv, NEW w \in Workers, CreateList(w) PROVE IInv' /\ Kept
<1>1. PICK l \in Lists : /\ listBoard[l] = NoBoard
                         /\ listBoard' = [listBoard EXCEPT ![l] = req[w].board]
  BY DEF CreateList
<1>2. /\ Write(w, "createList")
      /\ UNCHANGED <<role, cardList, archived, assignee, labelBoard, tags, retired>>
  BY DEF CreateList
<1>3. req[w].board \in Boards /\ req' \in [Workers -> Requests]
  BY <1>2, Writing DEF LookedUp
<1>4. TypeOK'
  BY <1>1, <1>2, <1>3 DEF IInv, TypeOK
<1>5. Kept
  BY <1>1, <1>2 DEF IInv, TypeOK, CardsPlaced, Kept
<1>6. CardsPlaced'
  BY <1>1, <1>2, <1>3, NullAssumption DEF IInv, TypeOK, CardsPlaced
<1>7. RetiredGone'
  BY <1>2 DEF IInv, RetiredGone
<1>8. LabelsOfOwnBoard'
  BY <1>2, <1>4, <1>5, TagsFollow DEF IInv
<1>9. QED
  BY <1>2, <1>4, <1>5, <1>6, <1>7, <1>8, Writing, Assemble

LEMMA PutCardKeeps ==
    ASSUME IInv, NEW w \in Workers, PutCard(w) PROVE IInv' /\ Kept
<1>1. UNCHANGED <<role, listBoard, archived, assignee, labelBoard, tags, retired>>
  BY DEF PutCard
<1>2. PICK c \in Cards, op \in {"createCard", "moveCard"} :
         /\ Write(w, op)
         /\ op = "createCard" => cardList[c] = NoList
         /\ op = "moveCard" => c = req[w].card
         /\ cardList' = [cardList EXCEPT ![c] = req[w].list]
  <2>1. CASE Write(w, "createCard")
    BY <2>1 DEF PutCard, Write
  <2>2. CASE Write(w, "moveCard")
    <3>1. req[w].card \in Cards /\ req[w].op = "moveCard"
      BY <2>2, Writing DEF LookedUp, CardOps
    <3>2. QED
      BY <2>2, <3>1 DEF PutCard, Write
  <2>3. QED
    BY <2>1, <2>2 DEF PutCard
<1>3. /\ req[w].list \in Lists /\ req[w].board \in Boards
      /\ listBoard[req[w].list] = req[w].board
      /\ op = "moveCard" => listBoard[cardList[c]] = req[w].board
      /\ req' \in [Workers -> Requests]
  BY <1>2, Writing DEF LookedUp, Compared, CardOps
<1>4. TypeOK'
  BY <1>1, <1>2, <1>3 DEF IInv, TypeOK
<1>5. Kept
  BY <1>1, <1>2, <1>3, NullAssumption DEF IInv, TypeOK, Kept
<1>6. CardsPlaced'
  BY <1>1, <1>2, <1>3, NullAssumption DEF IInv, TypeOK, CardsPlaced
<1>7. RetiredGone'
  BY <1>1 DEF IInv, RetiredGone
<1>8. LabelsOfOwnBoard'
  BY <1>1, <1>4, <1>5, TagsFollow DEF IInv
<1>9. QED
  BY <1>2, <1>4, <1>5, <1>6, <1>7, <1>8, Writing, Assemble

LEMMA CopyListKeeps ==
    ASSUME IInv, NEW w \in Workers, CopyList(w) PROVE IInv' /\ Kept
<1>1. PICK l \in Lists :
         /\ listBoard[l] = NoBoard
         /\ listBoard' = [listBoard EXCEPT ![l] = req[w].board]
         /\ req' = [req EXCEPT ![w] = [@ EXCEPT !.pc = "readCards", !.copy = l]]
  BY DEF CopyList
<1>2. /\ req[w].op = "copyList" /\ req[w].pc = "write"
      /\ UNCHANGED <<role, cardList, archived, assignee, labelBoard, tags, retired>>
  BY DEF CopyList
<1>3. req[w] \in Requests /\ LookedUp(req[w])
  BY <1>2 DEF IInv, TypeOK, RequestOK
<1>4. req[w].board \in Boards
  BY <1>3 DEF LookedUp
<1>5. /\ req' \in [Workers -> Requests]
      /\ req'[w].pc = "readCards" /\ req'[w].copy = l
      /\ SameLookup(req[w], req'[w])
      /\ \A v \in Workers \ {w} : req'[v] = req[v]
  BY <1>1, <1>3 DEF IInv, TypeOK, Requests, Steps, SameLookup
<1>6. TypeOK'
  BY <1>1, <1>2, <1>4, <1>5 DEF IInv, TypeOK
<1>7. Kept
  BY <1>1, <1>2 DEF IInv, TypeOK, CardsPlaced, Kept
<1>8. CardsPlaced'
  BY <1>1, <1>2, <1>4, NullAssumption DEF IInv, TypeOK, CardsPlaced
<1>9. RetiredGone'
  BY <1>2 DEF IInv, RetiredGone
<1>10. LabelsOfOwnBoard'
  BY <1>2, <1>6, <1>7, TagsFollow DEF IInv
<1>11. RequestOK(req[w])'
  <2>1. LookedUp(req[w])'
    BY <1>3, <1>5, <1>6, <1>7, LookedUpKeeps DEF IInv
  <2>2. listBoard'[l] \in Boards
    BY <1>1, <1>4 DEF IInv, TypeOK
  <2>3. Compared(req[w])'
    BY <1>5, <2>2 DEF Compared
  <2>4. QED
    BY <2>1, <2>3 DEF RequestOK
<1>12. QED
  BY <1>5, <1>6, <1>7, <1>8, <1>9, <1>10, <1>11, Assemble

LEMMA ReadCardsKeeps ==
    ASSUME IInv, NEW w \in Workers, ReadCards(w) PROVE IInv' /\ Kept
<1>1. /\ req[w].pc = "readCards" /\ UNCHANGED <<role, content>>
      /\ req[w] \in Requests /\ LookedUp(req[w]) /\ Compared(req[w])
  BY DEF ReadCards, IInv, TypeOK, RequestOK
<1>2. /\ req' \in [Workers -> Requests]
      /\ req'[w].pc = "copyCards" /\ req'[w].copy = req[w].copy
      /\ SameLookup(req[w], req'[w])
      /\ \A v \in Workers \ {w} : req'[v] = req[v]
  BY <1>1 DEF ReadCards, IInv, TypeOK, Requests, Steps, SameLookup
<1>3. TypeOK'
  BY <1>1, <1>2 DEF IInv, TypeOK, content
<1>4. Kept
  BY <1>1, ContentKept
<1>5. LookedUp(req[w])'
  BY <1>1, <1>2, <1>3, <1>4, LookedUpKeeps DEF IInv
<1>6. Compared(req[w])'
  BY <1>1, <1>2 DEF Compared, content
<1>7. RequestOK(req[w])'
  BY <1>5, <1>6 DEF RequestOK
<1>8. QED
  BY <1>1, <1>2, <1>3, <1>7, ContentKept, Assemble

LEMMA CopyCardKeeps ==
    ASSUME IInv, NEW w \in Workers, CopyCard(w) PROVE IInv' /\ Kept
<1>1. /\ req[w].pc = "copyCards"
      /\ UNCHANGED <<role, listBoard, archived, assignee, labelBoard, tags, retired>>
      /\ req[w] \in Requests /\ LookedUp(req[w]) /\ Compared(req[w])
  BY DEF CopyCard, IInv, TypeOK, RequestOK
<1>2. CASE Step(w, "copyCards", "idle") /\ UNCHANGED cardList
  <2>1. UNCHANGED <<role, content>>
    BY <1>1, <1>2 DEF content
  <2>2. QED
    BY <1>2, <2>1, StepKeeps DEF Steps
<1>3. ASSUME NEW c \in req[w].todo, NEW d \in Cards,
             cardList[d] = NoList,
             cardList' = [cardList EXCEPT ![d] = req[w].copy],
             req' = [req EXCEPT ![w] = [@ EXCEPT !.todo = req[w].todo \ {c}]]
      PROVE  IInv' /\ Kept
  <2>1. req[w].copy \in Lists /\ listBoard[req[w].copy] \in Boards
    BY <1>1 DEF Compared
  <2>2. /\ req' \in [Workers -> Requests]
        /\ req'[w].pc = "copyCards" /\ req'[w].copy = req[w].copy
        /\ SameLookup(req[w], req'[w])
        /\ \A v \in Workers \ {w} : req'[v] = req[v]
    <3>1. /\ [req[w] EXCEPT !.todo = req[w].todo \ {c}] \in Requests
          /\ SameLookup(req[w], [req[w] EXCEPT !.todo = req[w].todo \ {c}])
          /\ [req[w] EXCEPT !.todo = req[w].todo \ {c}].pc = "copyCards"
          /\ [req[w] EXCEPT !.todo = req[w].todo \ {c}].copy = req[w].copy
      BY <1>1 DEF Requests, SameLookup
    <3>2. QED
      BY <1>3, <3>1 DEF IInv, TypeOK
  <2>3. TypeOK'
    BY <1>1, <1>3, <2>1, <2>2 DEF IInv, TypeOK
  <2>4. Kept
    BY <1>1, <1>3 DEF IInv, TypeOK, Kept
  <2>5. CardsPlaced'
    BY <1>1, <1>3, <2>1, NullAssumption DEF IInv, TypeOK, CardsPlaced
  <2>6. RetiredGone'
    BY <1>1 DEF IInv, RetiredGone
  <2>7. LabelsOfOwnBoard'
    BY <1>1, <2>3, <2>4, TagsFollow DEF IInv
  <2>8. LookedUp(req[w])'
    BY <1>1, <2>2, <2>3, <2>4, LookedUpKeeps DEF IInv
  <2>9. Compared(req[w])'
    BY <1>1, <2>1, <2>2 DEF Compared
  <2>10. RequestOK(req[w])'
    BY <2>8, <2>9 DEF RequestOK
  <2>11. QED
    BY <2>2, <2>3, <2>4, <2>5, <2>6, <2>7, <2>10, Assemble
<1>4. QED
  BY <1>2, <1>3 DEF CopyCard

\* Archiving, restoring, assigning and unassigning move nothing.
LEMMA CardFieldKeeps ==
    ASSUME IInv, NEW w \in Workers, ArchiveCard(w) \/ AssignCard(w) PROVE IInv' /\ Kept
<1>1. PICK op \in {"archive", "restore", "assign", "unassign"} : Write(w, op)
  BY DEF ArchiveCard, AssignCard
<1>2. UNCHANGED <<role, listBoard, cardList, labelBoard, tags, retired>>
  BY DEF ArchiveCard, AssignCard
<1>3. /\ req[w].card \in Cards /\ req[w].user \in Users \cup {NoUser}
      /\ req' \in [Workers -> Requests]
  BY <1>1, Writing DEF LookedUp, CardOps, Requests
<1>4. archived' \in SUBSET Cards /\ assignee' \in [Cards -> Users \cup {NoUser}]
  BY <1>3 DEF ArchiveCard, AssignCard, IInv, TypeOK
<1>5. TypeOK'
  BY <1>2, <1>3, <1>4 DEF IInv, TypeOK
<1>6. Kept
  BY <1>2 DEF Kept
<1>7. CardsPlaced' /\ RetiredGone'
  BY <1>2 DEF IInv, CardsPlaced, RetiredGone
<1>8. LabelsOfOwnBoard'
  BY <1>2, <1>5, <1>6, TagsFollow DEF IInv
<1>9. QED
  BY <1>1, <1>5, <1>6, <1>7, <1>8, Writing, Assemble

LEMMA CreateLabelKeeps ==
    ASSUME IInv, NEW w \in Workers, CreateLabel(w) PROVE IInv' /\ Kept
<1>1. PICK k \in Labels \ retired :
         /\ labelBoard[k] = NoBoard
         /\ labelBoard' = [labelBoard EXCEPT ![k] = req[w].board]
  BY DEF CreateLabel
<1>2. /\ Write(w, "createLabel")
      /\ UNCHANGED <<role, listBoard, cardList, archived, assignee, tags, retired>>
  BY DEF CreateLabel
<1>3. req[w].board \in Boards /\ req' \in [Workers -> Requests]
  BY <1>2, Writing DEF LookedUp
<1>4. TypeOK'
  BY <1>1, <1>2, <1>3 DEF IInv, TypeOK
<1>5. Kept
  BY <1>1, <1>2 DEF IInv, TypeOK, Kept
<1>6. CardsPlaced' /\ RetiredGone'
  BY <1>1, <1>2 DEF IInv, TypeOK, CardsPlaced, RetiredGone
<1>7. \A t \in tags' : labelBoard'[t[2]] = labelBoard[t[2]]
  BY <1>1, <1>2 DEF IInv, TypeOK, LabelsOfOwnBoard
<1>8. LabelsOfOwnBoard'
  BY <1>2, <1>4, <1>5, <1>7, TagsFollow DEF IInv
<1>9. QED
  BY <1>2, <1>4, <1>5, <1>6, <1>8, Writing, Assemble

LEMMA DeleteLabelKeeps ==
    ASSUME IInv, NEW w \in Workers, DeleteLabel(w) PROVE IInv' /\ Kept
<1> DEFINE k == req[w].label
<1>1. /\ Write(w, "deleteLabel")
      /\ labelBoard' = [labelBoard EXCEPT ![k] = NoBoard]
      /\ tags' = {t \in tags : t[2] # k}
      /\ retired' = retired \cup {k}
      /\ UNCHANGED <<role, listBoard, cardList, archived, assignee>>
  BY DEF DeleteLabel
<1>2. k \in Labels /\ req' \in [Workers -> Requests]
  BY <1>1, Writing DEF LookedUp
<1> HIDE DEF k
<1>3. TypeOK'
  BY <1>1, <1>2 DEF IInv, TypeOK
<1>4. Kept
  BY <1>1, <1>2 DEF IInv, TypeOK, Kept
<1>5. CardsPlaced' /\ RetiredGone'
  BY <1>1, <1>2 DEF IInv, TypeOK, CardsPlaced, RetiredGone
<1>6. \A t \in tags' : labelBoard'[t[2]] = labelBoard[t[2]]
  BY <1>1 DEF IInv, TypeOK
<1>7. LabelsOfOwnBoard'
  BY <1>1, <1>3, <1>4, <1>6, TagsFollow DEF IInv
<1>8. QED
  BY <1>1, <1>3, <1>4, <1>5, <1>7, Writing, Assemble

LEMMA TagCardKeeps ==
    ASSUME IInv, NEW w \in Workers, TagCard(w) PROVE IInv' /\ Kept
<1> DEFINE c == req[w].card
           k == req[w].label
<1>1. UNCHANGED <<role, listBoard, cardList, archived, assignee, labelBoard, retired>>
  BY DEF TagCard
<1>2. PICK op \in {"tag", "untag"} : Write(w, op)
  BY DEF TagCard
<1>3. /\ c \in Cards /\ k \in Labels /\ req' \in [Workers -> Requests]
      /\ cardList[c] \in Lists /\ listBoard[cardList[c]] = req[w].board
      /\ op = "tag" => labelBoard[k] = req[w].board \/ k \in retired
      /\ req[w].op = op
  BY <1>2, Writing DEF LookedUp, Compared, CardOps
<1>4. \/ tags' \subseteq tags
      \/ op = "tag" /\ tags' = tags \cup {<<c, k>>} /\ labelBoard[k] # NoBoard
  BY <1>2, <1>3 DEF TagCard, Write, Taggable
<1> HIDE DEF c, k
<1>5. TypeOK'
  BY <1>1, <1>3, <1>4 DEF IInv, TypeOK
<1>6. Kept
  BY <1>1 DEF Kept
<1>7. CardsPlaced' /\ RetiredGone'
  BY <1>1 DEF IInv, CardsPlaced, RetiredGone
<1>8. LabelsOfOwnBoard'
  <2>1. CASE tags' \subseteq tags
    BY <1>1, <1>5, <1>6, <2>1, TagsFollow DEF IInv
  <2>2. CASE op = "tag" /\ tags' = tags \cup {<<c, k>>} /\ labelBoard[k] # NoBoard
    <3>1. labelBoard[k] = req[w].board
      BY <1>3, <2>2 DEF IInv, RetiredGone
    <3>2. BoardOfCard(c) = req[w].board
      BY <1>3, NullAssumption DEF BoardOfCard, BoardOfList
    <3>3. \A t \in tags : labelBoard[t[2]] # NoBoard
                          /\ labelBoard[t[2]] = BoardOfCard(t[1])
      BY DEF IInv, LabelsOfOwnBoard
    <3>4. \A t \in tags' : labelBoard[t[2]] # NoBoard
                           /\ labelBoard[t[2]] = BoardOfCard(t[1])
      BY <2>2, <3>1, <3>2, <3>3
    <3>5. QED
      BY <1>1, <3>4 DEF LabelsOfOwnBoard, BoardOfCard, BoardOfList
  <2>3. QED
    BY <1>4, <2>1, <2>2
<1>9. QED
  BY <1>2, <1>5, <1>6, <1>7, <1>8, Writing, Assemble

\* No request moves: a role changes, or nothing at all.
LEMMA RestKeeps ==
    ASSUME IInv, UNCHANGED <<content, req>>, role' \in [Boards -> [Users -> Roles]]
    PROVE  IInv' /\ Kept
<1>1. TypeOK'
  BY DEF IInv, TypeOK, content
<1>2. \A w \in Workers : RequestOK(req[w])'
  BY <1>1, ContentKept, OthersKeep DEF IInv
<1>3. QED
  BY <1>1, <1>2, ContentKept DEF IInv

LEMMA ActionKeeps == ASSUME IInv, NEW w \in Workers, Continue(w) PROVE IInv' /\ Kept
BY CheckKeeps, CreateListKeeps, PutCardKeeps, CopyListKeeps, ReadCardsKeeps,
   CopyCardKeeps, CardFieldKeeps, CreateLabelKeeps, DeleteLabelKeeps,
   TagCardKeeps
   DEF Continue

LEMMA InitHolds == Init => IInv
<1> SUFFICES ASSUME Init PROVE IInv
  OBVIOUS
<1>1. TypeOK
  BY IdleType DEF Init, TypeOK
<1>2. \A w \in Workers : RequestOK(req[w])
  BY IdleType DEF Init, RequestOK
<1>3. CardsPlaced /\ RetiredGone /\ LabelsOfOwnBoard
  BY DEF Init, CardsPlaced, RetiredGone, LabelsOfOwnBoard
<1>4. QED
  BY <1>1, <1>2, <1>3 DEF IInv

LEMMA NextKeeps == IInv /\ [Next]_vars => IInv' /\ Kept
<1> SUFFICES ASSUME IInv, [Next]_vars PROVE IInv' /\ Kept
  OBVIOUS
<1>1. CASE UNCHANGED vars
  BY <1>1, RestKeeps DEF vars, IInv, TypeOK
<1>2. ASSUME NEW w \in Workers, Start(w) \/ Continue(w) PROVE IInv' /\ Kept
  BY <1>2, StartKeeps, ActionKeeps
<1>3. ASSUME NEW b \in Boards, NEW u \in Users, NEW r \in Roles,
             RoleChanges(b, u, r)
      PROVE  IInv' /\ Kept
  <2>1. role' \in [Boards -> [Users -> Roles]] /\ UNCHANGED <<content, req>>
    BY <1>3 DEF RoleChanges, IInv, TypeOK
  <2>2. QED
    BY <2>1, RestKeeps
<1>4. QED
  BY <1>1, <1>2, <1>3 DEF Next

\* Whatever the numbers of workers, users, boards, lists, cards and labels,
\* every state has its type.
THEOREM TypeCorrect == Spec => []TypeOK
<1>1. IInv => TypeOK
  BY DEF IInv
<1>2. QED
  BY <1>1, InitHolds, NextKeeps, PTL DEF Spec

\* A card carries only labels that exist and are of the card's own board,
\* whatever is moved or deleted between a check of AssignToCard and its write.
THEOREM LabelsOwn == Spec => []LabelsOfOwnBoard
<1>1. IInv => LabelsOfOwnBoard
  BY DEF IInv
<1>2. QED
  BY <1>1, InitHolds, NextKeeps, PTL DEF Spec

\* A card that exists stays on its board for ever, whatever moves, copies and
\* creations interleave.
THEOREM BoardKept == Spec => CardsKeepTheirBoard
<1>1. IInv /\ IInv' /\ Kept =>
         [\A c \in Cards : cardList[c] # NoList =>
             BoardOfCard(c)' = BoardOfCard(c)]_vars
  BY BoardFollows DEF IInv
<1>2. IInv /\ [Next]_vars =>
         [\A c \in Cards : cardList[c] # NoList =>
             BoardOfCard(c)' = BoardOfCard(c)]_vars
  BY <1>1, NextKeeps
<1>3. QED
  BY <1>2, InitHolds, NextKeeps, PTL DEF Spec, CardsKeepTheirBoard
=============================================================================
