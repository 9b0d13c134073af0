-------------------------- MODULE ChecklistsProofs --------------------------
(***************************************************************************)
(* Proofs about Checklists, for any workers, cards, checklists and items.  *)
(*                                                                         *)
(* The rows a position was computed from may be deleted before the INSERT, *)
(* so what keeps the order is that ids are not used again: a row that was  *)
(* read is there unchanged or retired (Remembered).  That MAX(position) is *)
(* a maximum needs that the positions in use are bounded.                  *)
(***************************************************************************)
EXTENDS Checklists, WellFoundedInduction, TLAPS

USE RowsAssumption DEF Rows

Steps == {"access", "max", "insert", "write", "read", "toggle"}

\* What a request has looked up before it does something with it.
LookedUp ==
    \A w \in Workers :
        /\ req[w].pc \in {"max", "insert"} => req[w].op = "create"
        /\ req[w].pc \in {"read", "toggle"} => req[w].op = "toggle"
        /\ req[w].pc \in Steps =>
              /\ req[w].op = "create" => req[w].into \in Cards \cup Checklists
              /\ req[w].op # "create" => req[w].row \in Rows
              /\ req[w].op = "toggle" => req[w].row \in Items

Remembered(n) == under[n] # None \/ n \in retired

RemembersRows ==
    /\ \A n \in Rows : \A m \in older[n] : Remembered(m)
    /\ \A w \in Workers : req[w].pc = "insert" =>
          \A m \in req[w].beside : Remembered(m) /\ position[m] <= req[w].max
    /\ \A w \in Workers : req[w].pc = "toggle" => Remembered(req[w].row)

Bounded == \E b \in Nat : \A n \in Rows : position[n] <= b

IInv ==
    /\ TypeOK /\ LookedUp /\ Bounded /\ RemembersRows
    /\ PlacedAfterOlder /\ ItemsHaveChecklist /\ ToggleNegates

-----------------------------------------------------------------------------
\* A bounded set of naturals that is not empty has its Max.
LEMMA MaxOfBounded ==
  ASSUME NEW S \in SUBSET Nat, S # {}, NEW b \in Nat, \A x \in S : x <= b
  PROVE  Max(S) \in S /\ \A x \in S : x <= Max(S)
<1> DEFINE U == {u \in Nat : \A x \in S : x <= u}
<1>1. PICK m \in U : \A u \in U : ~(u < m)
  <2>1. IsWellFoundedOn(OpToRel(<, Nat), Nat)
    BY NatLessThanWellFounded
  <2>2. PICK m \in U : \A u \in U : ~(<<u, m>> \in OpToRel(<, Nat))
    <3> HIDE DEF U
    <3>1. b \in U /\ U \subseteq Nat
      BY DEF U
    <3> QED
      BY <2>1, <3>1, WFMin
  <2>3. \A u \in U : <<u, m>> \in OpToRel(<, Nat) <=> u < m
    BY DEF OpToRel
  <2> QED
    BY <2>2, <2>3
<1>2. m \in S
  <2> SUFFICES ASSUME m \notin S PROVE FALSE
    OBVIOUS
  <2>1. \A x \in S : x < m
    BY <1>1
  <2>2. m \in Nat /\ m > 0
    <3> PICK x \in S : TRUE
      OBVIOUS
    <3> QED
      BY <2>1
  <2>3. m - 1 \in Nat /\ \A x \in S : x <= m - 1
    <3> HIDE DEF U
    <3> QED
      BY <2>1, <2>2
  <2> QED
    BY <1>1, <2>2, <2>3
<1>3. \A y \in S : m >= y
  BY <1>1
<1> HIDE DEF U
<1> QED
  BY <1>2, <1>3 DEF Max

\* A request that turns into one that remembers nothing leaves what is known of
\* the others, as long as the tables stay.
LEMMA BecomeKeepsOthers ==
  ASSUME IInv, NEW w \in Workers, NEW r \in Requests, Become(w, r),
         UNCHANGED <<table, older>>,
         /\ r.pc \in {"max", "insert"} => r.op = "create"
         /\ r.pc \in {"read", "toggle"} => r.op = "toggle"
         /\ r.pc \in Steps =>
              /\ r.op = "create" => r.into \in Cards \cup Checklists
              /\ r.op # "create" => r.row \in Rows
              /\ r.op = "toggle" => r.row \in Items,
         r.pc = "insert" => \A m \in r.beside : Remembered(m) /\ position[m] <= r.max,
         r.pc = "toggle" => Remembered(r.row) /\ (r.wasDone <=> r.row \in done),
         crossed' \in SUBSET crossed, r.pc # "toggle" => w \notin crossed',
         \A v \in crossed \ crossed' : v = w
  PROVE  IInv'
<1>1. req' \in [Workers -> Requests] /\ req'[w] = r
      /\ \A v \in Workers \ {w} : req'[v] = req[v]
  BY DEF IInv, TypeOK, Become
<1>2. TypeOK'
  BY <1>1 DEF IInv, TypeOK, table
<1>3. LookedUp'
  BY <1>1 DEF IInv, LookedUp
<1>4. Bounded' /\ PlacedAfterOlder' /\ ItemsHaveChecklist'
  BY DEF IInv, Bounded, PlacedAfterOlder, ItemsHaveChecklist, table
<1>5. RemembersRows'
  BY <1>1 DEF IInv, RemembersRows, Remembered, table
<1>6. ToggleNegates'
  BY <1>1 DEF IInv, ToggleNegates, table
<1> QED
  BY <1>2, <1>3, <1>4, <1>5, <1>6 DEF IInv

LEMMA IdleIsRequest == Idle \in Requests /\ Idle.pc = "idle"
  BY DEF Idle, Requests, Ops

THEOREM Initial == Init => IInv
<1> SUFFICES ASSUME Init PROVE IInv
  OBVIOUS
<1>1. TypeOK
  BY IdleIsRequest DEF Init, TypeOK
<1>2. \A w \in Workers : req[w].pc = "idle"
  BY IdleIsRequest DEF Init
<1> QED
  BY <1>1, <1>2 DEF Init, IInv, LookedUp, Steps, Bounded, RemembersRows,
       PlacedAfterOlder, ItemsHaveChecklist, ToggleNegates

LEMMA StepFails ==
  ASSUME IInv, NEW w \in Workers, Fails(w)
  PROVE  IInv'
<1>1. Become(w, Idle) /\ crossed' = crossed \ {w} /\ UNCHANGED <<table, older>>
  BY DEF Fails
<1> QED
  BY <1>1, IdleIsRequest, BecomeKeepsOthers DEF Steps

LEMMA NotCrossed ==
  ASSUME IInv, NEW w \in Workers, req[w].pc # "toggle"
  PROVE  w \notin crossed /\ req[w] \in Requests
BY DEF IInv, TypeOK

LEMMA StepStart ==
  ASSUME IInv, NEW w \in Workers, Start(w)
  PROVE  IInv'
<1>1. w \notin crossed
  BY NotCrossed DEF Start
<1>2. UNCHANGED <<table, older, crossed>>
  BY DEF Start
<1>3. CASE \E p \in Cards \cup Checklists :
             Become(w, [Idle EXCEPT !.pc = "access", !.op = "create", !.into = p])
  <2> PICK p \in Cards \cup Checklists :
        Become(w, [Idle EXCEPT !.pc = "access", !.op = "create", !.into = p])
    BY <1>3
  <2> DEFINE r == [Idle EXCEPT !.pc = "access", !.op = "create", !.into = p]
  <2>1. r \in Requests /\ r.pc = "access" /\ r.op = "create" /\ r.into = p
    BY DEF Idle, Requests, Ops
  <2>2. Become(w, r)
    OBVIOUS
  <2> HIDE DEF r
  <2> QED
    BY <1>1, <1>2, <2>1, <2>2, BecomeKeepsOthers
<1>4. CASE \E n \in Rows, op \in Ops \ {"create"} :
             /\ under[n] # None /\ (op = "toggle" => n \in Items)
             /\ Become(w, [Idle EXCEPT !.pc = "access", !.op = op, !.row = n,
                                       !.into = under[n], !.wasDone = n \in done])
  <2> PICK n \in Rows, op \in Ops \ {"create"} :
             /\ under[n] # None /\ (op = "toggle" => n \in Items)
             /\ Become(w, [Idle EXCEPT !.pc = "access", !.op = op, !.row = n,
                                       !.into = under[n], !.wasDone = n \in done])
    BY <1>4
  <2> DEFINE d == n \in done
             r == [Idle EXCEPT !.pc = "access", !.op = op, !.row = n,
                               !.into = under[n], !.wasDone = d]
  <2>0. under[n] \in Cards \cup Checklists \cup {None} /\ d \in BOOLEAN
    BY DEF IInv, TypeOK
  <2>3. Become(w, r)
    OBVIOUS
  <2> HIDE DEF d
  <2>1. r \in Requests /\ r.pc = "access" /\ r.op = op /\ r.row = n
    BY <2>0 DEF Idle, Requests
  <2> HIDE DEF r
  <2> QED
    BY <1>1, <1>2, <2>1, <2>3, BecomeKeepsOthers
<1> QED
  BY <1>3, <1>4 DEF Start

LEMMA StepCheckAccess ==
  ASSUME IInv, NEW w \in Workers, CheckAccess(w)
  PROVE  IInv'
<1> DEFINE op == req[w].op
<1>1. /\ w \notin crossed /\ req[w] \in Requests /\ req[w].pc = "access"
      /\ UNCHANGED <<table, older, crossed>>
  BY NotCrossed DEF CheckAccess, Goto
<1>2. CASE Become(w, Idle)
  BY <1>1, <1>2, IdleIsRequest, BecomeKeepsOthers DEF Steps
<1>3. CASE Become(w, [req[w] EXCEPT !.pc = AfterAccess(op)])
  <2> DEFINE r == [req[w] EXCEPT !.pc = AfterAccess(op)]
  <2>1. op \in Ops
    BY <1>1 DEF Requests
  <2>2. /\ op = "create" => AfterAccess(op) = "max"
        /\ op = "toggle" => AfterAccess(op) = "read"
        /\ op \in {"edit", "delete"} => AfterAccess(op) = "write"
    BY DEF AfterAccess
  <2>3. r \in Requests
    BY <1>1, <2>1, <2>2 DEF Requests, Ops
  <2>4. r.pc = AfterAccess(op) /\ r.op = op /\ r.row = req[w].row
        /\ r.into = req[w].into
    BY <1>1 DEF Requests
  <2>5. Become(w, r)
    BY <1>3
  <2> HIDE DEF r
  <2>6. /\ op = "create" => req[w].into \in Cards \cup Checklists
        /\ op # "create" => req[w].row \in Rows
        /\ op = "toggle" => req[w].row \in Items
    BY <1>1 DEF IInv, LookedUp, Steps
  <2> QED
    BY <1>1, <2>1, <2>2, <2>3, <2>4, <2>5, <2>6, BecomeKeepsOthers DEF Ops
<1>4. Become(w, Idle) \/ Become(w, [req[w] EXCEPT !.pc = AfterAccess(op)])
  BY DEF CheckAccess, Goto
<1> QED
  BY <1>2, <1>3, <1>4

LEMMA StepReadMax ==
  ASSUME IInv, NEW w \in Workers, ReadMax(w)
  PROVE  IInv'
<1> DEFINE beside == RowsUnder(req[w].into)
           S == {position[n] : n \in beside} \cup {0}
           r == [req[w] EXCEPT !.pc = "insert", !.beside = beside, !.max = Max(S)]
<1>1. /\ w \notin crossed /\ req[w] \in Requests /\ req[w].pc = "max"
      /\ UNCHANGED <<table, older, crossed>> /\ Become(w, r)
  BY NotCrossed DEF ReadMax
<1>2. req[w].op = "create" /\ req[w].into \in Cards \cup Checklists
  BY <1>1 DEF IInv, LookedUp, Steps
<1>3. beside \in SUBSET Rows /\ \A n \in beside : Remembered(n)
  BY <1>2 DEF RowsUnder, Remembered
<1>4. Max(S) \in Nat /\ \A n \in beside : position[n] <= Max(S)
  <2>1. \A n \in beside : position[n] \in Nat
    BY <1>3 DEF IInv, TypeOK
  <2>2. PICK b \in Nat : \A n \in Rows : position[n] <= b
    BY DEF IInv, Bounded
  <2>3. S \in SUBSET Nat /\ S # {} /\ \A x \in S : x <= b
    BY <1>3, <2>1, <2>2
  <2>4. Max(S) \in S /\ \A x \in S : x <= Max(S)
    <3> HIDE DEF S
    <3> QED
      BY <2>3, MaxOfBounded
  <2> QED
    BY <2>3, <2>4
<1> HIDE DEF S, beside
<1>5. /\ r \in Requests /\ r.pc = "insert" /\ r.op = "create"
      /\ r.into = req[w].into /\ r.beside = beside /\ r.max = Max(S)
  BY <1>1, <1>2, <1>3, <1>4 DEF Requests
<1> HIDE DEF r
<1> QED
  BY <1>1, <1>2, <1>3, <1>4, <1>5, BecomeKeepsOthers

\* ReadItem remembers the item as it is.
LEMMA StepReadItem ==
  ASSUME IInv, NEW w \in Workers, ReadItem(w)
  PROVE  IInv'
<1> DEFINE d == req[w].row \in done
           r == [req[w] EXCEPT !.pc = "toggle", !.wasDone = d]
<1>1. /\ w \notin crossed /\ req[w] \in Requests /\ req[w].pc = "read"
      /\ UNCHANGED <<table, older, crossed>> /\ Become(w, r)
      /\ under[req[w].row] # None
  BY NotCrossed DEF ReadItem
<1>2. req[w].op = "toggle" /\ req[w].row \in Items /\ Remembered(req[w].row)
  BY <1>1 DEF IInv, LookedUp, Steps, Remembered
<1>3. d \in BOOLEAN /\ (d <=> req[w].row \in done)
  OBVIOUS
<1> HIDE DEF d
<1>4. /\ r \in Requests /\ r.pc = "toggle" /\ r.op = "toggle"
      /\ r.row = req[w].row /\ r.wasDone = d
  BY <1>1, <1>2, <1>3 DEF Requests
<1> HIDE DEF r
<1> QED
  BY <1>1, <1>2, <1>3, <1>4, BecomeKeepsOthers

LEMMA StepEdit ==
  ASSUME IInv, NEW w \in Workers, Edit(w)
  PROVE  IInv'
<1>1. w \notin crossed /\ Become(w, Idle) /\ UNCHANGED <<table, older, crossed>>
  BY NotCrossed DEF Edit, Goto
<1> QED
  BY <1>1, IdleIsRequest, BecomeKeepsOthers DEF Steps

\* The row of a toggle is what it was, or retired and then not done.
LEMMA StepToggleItem ==
  ASSUME IInv, NEW w \in Workers, ToggleItem(w)
  PROVE  IInv'
<1> DEFINE i == req[w].row
<1>1. /\ req[w].pc = "toggle" /\ Become(w, Idle)
      /\ UNCHANGED <<under, position, retired, older>>
      /\ done' = IF req[w].wasDone \/ under[i] = None THEN done \ {i} ELSE done \cup {i}
      /\ crossed' = (crossed \cup {v \in Workers : req[v].pc = "toggle" /\ req[v].row = i})
                      \ {w}
  BY DEF ToggleItem, Goto
<1>2. i \in Items
  BY <1>1 DEF IInv, LookedUp, Steps
<1>3. req' \in [Workers -> Requests] /\ req'[w] = Idle
      /\ \A v \in Workers \ {w} : req'[v] = req[v]
  BY <1>1, IdleIsRequest DEF IInv, TypeOK, Become
<1>4. TypeOK'
  <2>1. done' \in SUBSET {j \in Items : under'[j] # None}
    BY <1>1, <1>2 DEF IInv, TypeOK
  <2>2. crossed' \in SUBSET {v \in Workers : req'[v].pc = "toggle"}
    BY <1>1, <1>3 DEF IInv, TypeOK
  <2> QED
    BY <1>1, <1>3, <2>1, <2>2 DEF IInv, TypeOK
<1>5. LookedUp' /\ RemembersRows'
  BY <1>1, <1>3, IdleIsRequest DEF IInv, LookedUp, RemembersRows, Remembered, Steps
<1>6. Bounded' /\ PlacedAfterOlder' /\ ItemsHaveChecklist'
  BY <1>1 DEF IInv, Bounded, PlacedAfterOlder, ItemsHaveChecklist
<1>7. ToggleNegates'
  <2> SUFFICES ASSUME NEW v \in Workers, req'[v].pc = "toggle", v \notin crossed',
                      under'[req'[v].row] # None
               PROVE  req'[v].wasDone <=> req'[v].row \in done'
    BY DEF ToggleNegates
  <2>1. v # w /\ req'[v] = req[v]
    BY <1>3, IdleIsRequest
  <2>2. req[v].row # i /\ v \notin crossed
    BY <1>1, <2>1
  <2>3. req[v].wasDone <=> req[v].row \in done
    BY <1>1, <2>1, <2>2 DEF IInv, ToggleNegates
  <2>4. req[v].row \in done' <=> req[v].row \in done
    BY <1>1, <2>2
  <2> QED
    BY <2>1, <2>3, <2>4
<1> QED
  BY <1>4, <1>5, <1>6, <1>7 DEF IInv

\* The new id was never used, so nothing that is remembered is about it.
LEMMA StepInsert ==
  ASSUME IInv, NEW w \in Workers, Insert(w)
  PROVE  IInv'
<1> DEFINE p == req[w].into
           place == req[w].max + 1
<1>1. /\ req[w].pc = "insert" /\ Become(w, Idle) /\ Exists(p)
      /\ UNCHANGED <<done, retired, crossed>>
  BY DEF Insert, Goto, Referenced
<1>2. PICK n \in Rows \ retired :
        /\ under[n] = None /\ (n \in Items <=> p \in Checklists)
        /\ under' = [under EXCEPT ![n] = p]
        /\ position' = [position EXCEPT ![n] = place]
        /\ older' = [older EXCEPT ![n] = req[w].beside]
  BY DEF Insert, NextPosition
<1>3. /\ req[w] \in Requests /\ p \in Cards \cup Checklists /\ place \in Nat
      /\ place > 0 /\ req[w].beside \in SUBSET Rows /\ p # None
  BY <1>1 DEF IInv, TypeOK, LookedUp, Steps, Requests
<1>4. /\ under' \in [Rows -> Cards \cup Checklists \cup {None}] /\ under'[n] = p
      /\ \A m \in Rows \ {n} : under'[m] = under[m]
  BY <1>2, <1>3 DEF IInv, TypeOK
<1>5. /\ position' \in [Rows -> Nat] /\ position'[n] = place
      /\ \A m \in Rows \ {n} : position'[m] = position[m]
  BY <1>2, <1>3 DEF IInv, TypeOK
<1>6. /\ older' \in [Rows -> SUBSET Rows] /\ older'[n] = req[w].beside
      /\ \A m \in Rows \ {n} : older'[m] = older[m]
  BY <1>2, <1>3 DEF IInv, TypeOK
<1>7. req' \in [Workers -> Requests] /\ req'[w] = Idle
      /\ \A v \in Workers \ {w} : req'[v] = req[v]
  BY <1>1, IdleIsRequest DEF IInv, TypeOK, Become
<1>8. ~Remembered(n) /\ (\A m \in Rows : Remembered(m) => m # n)
  BY <1>2 DEF Remembered
<1>9. \A m \in Rows : Remembered(m) => Remembered(m)'
  BY <1>1, <1>4, <1>8 DEF Remembered
<1>10. TypeOK'
  <2>1. \A m \in Rows : under'[m] # None => (m \in Items <=> under'[m] \in Checklists)
    BY <1>2, <1>4 DEF IInv, TypeOK
  <2>2. \A m \in Rows : under'[m] # None <=> position'[m] > 0
    BY <1>3, <1>4, <1>5 DEF IInv, TypeOK
  <2>3. done' \in SUBSET {i \in Items : under'[i] # None}
    BY <1>1, <1>3, <1>4 DEF IInv, TypeOK
  <2>4. retired' \in SUBSET {m \in Rows : under'[m] = None}
    BY <1>1, <1>2, <1>4 DEF IInv, TypeOK
  <2>5. crossed' \in SUBSET {v \in Workers : req'[v].pc = "toggle"}
    BY <1>1, <1>7 DEF IInv, TypeOK
  <2> QED
    BY <1>4, <1>5, <1>6, <1>7, <2>1, <2>2, <2>3, <2>4, <2>5 DEF TypeOK
<1>11. LookedUp'
  BY <1>7, IdleIsRequest DEF IInv, LookedUp, Steps
<1>12. Bounded'
  <2>1. PICK b \in Nat : \A m \in Rows : position[m] <= b
    BY DEF IInv, Bounded
  <2>2. b + place \in Nat /\ \A m \in Rows : position'[m] <= b + place
    BY <1>3, <1>5, <2>1 DEF IInv, TypeOK
  <2> QED
    BY <2>2 DEF Bounded
<1>13. RemembersRows'
  <2>1. \A k \in Rows : \A m \in older'[k] : Remembered(m)'
    BY <1>1, <1>3, <1>6, <1>9 DEF IInv, TypeOK, RemembersRows
  <2>2. ASSUME NEW v \in Workers, req'[v].pc = "insert", NEW m \in req'[v].beside
        PROVE  Remembered(m)' /\ position'[m] <= req'[v].max
    <3>1. v # w /\ req'[v] = req[v] /\ m \in Rows
      BY <1>7, <2>2, IdleIsRequest DEF Requests
    <3>2. Remembered(m) /\ position[m] <= req[v].max
      BY <2>2, <3>1 DEF IInv, RemembersRows
    <3> QED
      BY <1>5, <1>8, <1>9, <3>1, <3>2
  <2>3. ASSUME NEW v \in Workers, req'[v].pc = "toggle"
        PROVE  Remembered(req[v].row)' /\ v # w
    <3>1. v # w /\ req'[v] = req[v]
      BY <1>7, <2>3, IdleIsRequest
    <3>2. req[v].row \in Rows /\ Remembered(req[v].row)
      BY <2>3, <3>1 DEF IInv, RemembersRows, LookedUp, Steps
    <3> QED
      BY <1>4, <1>1, <1>8, <3>1, <3>2, <1>7 DEF Remembered
  <2> QED
    BY <2>1, <2>2, <2>3 DEF RemembersRows, Remembered
<1>14. PlacedAfterOlder'
  <2> SUFFICES ASSUME NEW k \in Rows, NEW m \in older'[k]
               PROVE  position'[m] < position'[k]
    BY DEF PlacedAfterOlder
  <2>1. m \in Rows /\ Remembered(m)
    BY <1>1, <1>3, <1>6 DEF IInv, TypeOK, RemembersRows
  <2>2. m # n /\ position'[m] = position[m] /\ position[m] \in Nat
    BY <1>5, <1>8, <2>1 DEF IInv, TypeOK
  <2>3. CASE k = n
    <3>1. position[m] <= req[w].max /\ req[w].max \in Nat
      BY <1>1, <1>3, <1>6, <2>3 DEF IInv, RemembersRows, Requests
    <3> QED
      BY <1>5, <2>2, <2>3, <3>1
  <2>4. CASE k # n
    BY <1>5, <1>6, <2>2, <2>4 DEF IInv, PlacedAfterOlder
  <2> QED
    BY <2>3, <2>4
<1>15. ItemsHaveChecklist'
  <2> SUFFICES ASSUME NEW i \in Items, under'[i] # None
               PROVE  under'[under'[i]] # None
    BY DEF ItemsHaveChecklist
  <2>1. CASE i = n
    <3>1. p \in Checklists /\ under[p] # None
      BY <1>1, <1>2, <2>1 DEF Exists
    <3> QED
      BY <1>2, <1>4, <2>1, <3>1
  <2>2. CASE i # n
    <3>1. under'[i] = under[i] /\ under[i] \in Checklists /\ under[under[i]] # None
      BY <1>4, <2>2 DEF IInv, TypeOK, ItemsHaveChecklist
    <3> QED
      BY <1>2, <1>4, <3>1
  <2> QED
    BY <2>1, <2>2
<1>16. ToggleNegates'
  <2> SUFFICES ASSUME NEW v \in Workers, req'[v].pc = "toggle", v \notin crossed',
                      under'[req'[v].row] # None
               PROVE  req'[v].wasDone <=> req'[v].row \in done'
    BY DEF ToggleNegates
  <2>1. v # w /\ req'[v] = req[v]
    BY <1>7, IdleIsRequest
  <2>2. req[v].row \in Rows /\ Remembered(req[v].row)
    BY <2>1 DEF IInv, RemembersRows, LookedUp, Steps
  <2>3. under[req[v].row] # None
    BY <1>4, <1>8, <2>1, <2>2
  <2> QED
    BY <1>1, <2>1, <2>3 DEF IInv, ToggleNegates
<1> QED
  BY <1>10, <1>11, <1>12, <1>13, <1>14, <1>15, <1>16 DEF IInv

\* What goes is retired; an item goes with its checklist, and a checklist lies
\* under a card, which is not deleted.
LEMMA StepDelete ==
  ASSUME IInv, NEW w \in Workers, Delete(w)
  PROVE  IInv'
<1> DEFINE x == req[w].row
           gone == {n \in RowsUnder(x) \cup {x} : under[n] # None}
<1>1. /\ req[w].pc = "write" /\ req[w].op = "delete" /\ Become(w, Idle)
      /\ under' = [n \in Rows |-> IF n \in gone THEN None ELSE under[n]]
      /\ position' = [n \in Rows |-> IF n \in gone THEN 0 ELSE position[n]]
      /\ done' = done \ gone
      /\ retired' = retired \cup gone
      /\ older' = [n \in Rows |-> IF n \in gone THEN {} ELSE older[n] \ gone]
      /\ crossed' = crossed
  BY DEF Delete, Goto
<1>2. x \in Rows /\ gone \in SUBSET Rows
  BY <1>1 DEF IInv, LookedUp, Steps, RowsUnder
<1>3. \A i \in Items \ gone : under[i] # None => under[i] \notin gone
  <2> SUFFICES ASSUME NEW i \in Items \ gone, under[i] # None, under[i] \in gone
               PROVE  FALSE
    OBVIOUS
  <2>1. under[i] \in Checklists
    BY DEF IInv, TypeOK
  <2>2. CASE under[i] = x
    BY <2>2 DEF RowsUnder
  <2>3. CASE under[under[i]] = x
    <3>1. under[under[i]] \in Cards \cup {None}
      BY <2>1 DEF IInv, TypeOK
    <3> QED
      BY <1>2, <2>3, <3>1
  <2> QED
    BY <2>2, <2>3 DEF RowsUnder
<1> HIDE DEF gone
<1>4. req' \in [Workers -> Requests] /\ req'[w] = Idle
      /\ \A v \in Workers \ {w} : req'[v] = req[v]
  BY <1>1, IdleIsRequest DEF IInv, TypeOK, Become
<1>5. \A m \in Rows : (Remembered(m) => Remembered(m)') /\ position'[m] <= position[m]
  BY <1>1 DEF IInv, TypeOK, Remembered
<1>6. TypeOK'
  <2>1. under' \in [Rows -> Cards \cup Checklists \cup {None}]
        /\ \A m \in Rows : under'[m] # None => (m \in Items <=> under'[m] \in Checklists)
    BY <1>1 DEF IInv, TypeOK
  <2>2. position' \in [Rows -> Nat] /\ \A m \in Rows : under'[m] # None <=> position'[m] > 0
    BY <1>1 DEF IInv, TypeOK
  <2>3. done' \in SUBSET {i \in Items : under'[i] # None}
    BY <1>1 DEF IInv, TypeOK
  <2>4. retired' \in SUBSET {m \in Rows : under'[m] = None}
    BY <1>1, <1>2 DEF IInv, TypeOK
  <2>5. crossed' \in SUBSET {v \in Workers : req'[v].pc = "toggle"}
    BY <1>1, <1>4 DEF IInv, TypeOK
  <2>6. older' \in [Rows -> SUBSET Rows]
    BY <1>1 DEF IInv, TypeOK
  <2> QED
    BY <1>4, <2>1, <2>2, <2>3, <2>4, <2>5, <2>6 DEF TypeOK
<1>7. LookedUp'
  BY <1>4, IdleIsRequest DEF IInv, LookedUp, Steps
<1>8. Bounded'
  <2>1. PICK b \in Nat : \A m \in Rows : position[m] <= b
    BY DEF IInv, Bounded
  <2>2. \A m \in Rows : position'[m] <= b
    BY <1>1, <2>1
  <2> QED
    BY <2>2 DEF Bounded
<1>9. RemembersRows'
  <2>1. \A k \in Rows : \A m \in older'[k] : Remembered(m)'
    BY <1>1, <1>5 DEF IInv, TypeOK, RemembersRows
  <2>2. ASSUME NEW v \in Workers, req'[v].pc = "insert", NEW m \in req'[v].beside
        PROVE  Remembered(m)' /\ position'[m] <= req'[v].max
    <3>1. v # w /\ req'[v] = req[v] /\ m \in Rows /\ req[v].max \in Nat
      BY <1>4, <2>2, IdleIsRequest DEF Requests
    <3>2. Remembered(m) /\ position[m] <= req[v].max /\ position[m] \in Nat
      BY <2>2, <3>1 DEF IInv, TypeOK, RemembersRows
    <3>3. position'[m] \in Nat
      BY <1>6, <3>1 DEF TypeOK
    <3> QED
      BY <1>5, <3>1, <3>2, <3>3
  <2>3. ASSUME NEW v \in Workers, req'[v].pc = "toggle"
        PROVE  (under'[req'[v].row] # None \/ req'[v].row \in retired')
    <3>1. v # w /\ req'[v] = req[v]
      BY <1>4, <2>3, IdleIsRequest
    <3>2. req[v].row \in Rows /\ Remembered(req[v].row)
      BY <2>3, <3>1 DEF IInv, RemembersRows, LookedUp, Steps
    <3> QED
      BY <1>1, <3>1, <3>2 DEF Remembered
  <2> QED
    BY <2>1, <2>2, <2>3 DEF RemembersRows, Remembered
<1>10. PlacedAfterOlder'
  BY <1>1 DEF IInv, TypeOK, PlacedAfterOlder
<1>11. ItemsHaveChecklist'
  BY <1>1, <1>3 DEF IInv, TypeOK, ItemsHaveChecklist
<1>12. ToggleNegates'
  <2> SUFFICES ASSUME NEW v \in Workers, req'[v].pc = "toggle", v \notin crossed',
                      under'[req'[v].row] # None
               PROVE  req'[v].wasDone <=> req'[v].row \in done'
    BY DEF ToggleNegates
  <2>1. v # w /\ req'[v] = req[v]
    BY <1>4, IdleIsRequest
  <2>2. req[v].row \in Rows
    BY <2>1 DEF IInv, LookedUp, Steps
  <2>3. req[v].row \notin gone /\ under[req[v].row] # None
    BY <1>1, <2>1, <2>2
  <2> QED
    BY <1>1, <2>1, <2>3 DEF IInv, ToggleNegates
<1> QED
  BY <1>6, <1>7, <1>8, <1>9, <1>10, <1>11, <1>12 DEF IInv

-----------------------------------------------------------------------------
THEOREM Inductive == IInv /\ [Next]_vars => IInv'
<1> SUFFICES ASSUME IInv, [Next]_vars PROVE IInv'
  OBVIOUS
<1>1. CASE UNCHANGED vars
  BY <1>1 DEF vars, table, IInv, TypeOK, LookedUp, Bounded, RemembersRows, Remembered,
       PlacedAfterOlder, ItemsHaveChecklist, ToggleNegates
<1>2. CASE Next
  BY <1>2, StepStart, StepCheckAccess, StepReadMax, StepInsert, StepEdit,
     StepDelete, StepReadItem, StepToggleItem, StepFails DEF Next
<1> QED
  BY <1>1, <1>2

THEOREM Invariant == Spec => []IInv
  BY Initial, Inductive, PTL DEF Spec

\* The tables and requests of checklists keep their types; positions are
\* positive for exactly the rows that are there.
THEOREM TypeCorrect == Spec => []TypeOK
<1>1. IInv => TypeOK
  BY DEF IInv
<1> QED
  BY Invariant, <1>1, PTL

\* A row comes after the rows its position was computed from, for any number of
\* creations and deletions at once.
THEOREM OrderKept == Spec => []PlacedAfterOlder
<1>1. IInv => PlacedAfterOlder
  BY DEF IInv
<1> QED
  BY Invariant, <1>1, PTL

\* No item is left without its checklist.
THEOREM NoOrphans == Spec => []ItemsHaveChecklist
<1>1. IInv => ItemsHaveChecklist
  BY DEF IInv
<1> QED
  BY Invariant, <1>1, PTL

\* A toggle negates what the item is, unless another toggle crossed it.
THEOREM TogglesNegate == Spec => []ToggleNegates
<1>1. IInv => ToggleNegates
  BY DEF IInv
<1> QED
  BY Invariant, <1>1, PTL
=============================================================================
