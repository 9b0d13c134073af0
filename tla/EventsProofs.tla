---------------------------- MODULE EventsProofs ----------------------------
(***************************************************************************)
(* Proofs about Events, for any workers, users, streams, notifications and *)
(* capacity of the channels.                                               *)
(*                                                                         *)
(* That Events implements Feed rests on who may send what: a notification  *)
(* is pushed by the one request that stored it, so as long as a stream is  *)
(* still to be sent it, the stream neither holds nor has shown it; and a   *)
(* stream is only sent what is addressed to its viewer, because nobody     *)
(* leaves the client table while a request goes through it.                *)
(***************************************************************************)
EXTENDS Events, TLAPS

USE NullAssumption, CapacityAssumption

Pushing(w) == req[w].pc \in {"lock", "send"}

\* A push is of a stored notification, to its addressee, and of one request.
PushesFit ==
    /\ \A w \in Workers : Pushing(w) =>
          /\ req[w].note \in Notifications /\ req[w].user \in Users
          /\ addressee[req[w].note] = req[w].user
    /\ \A v, w \in Workers : v # w /\ Pushing(v) /\ Pushing(w)
                                => req[v].note # req[w].note
    /\ \A w \in Workers :
          /\ req[w].pc # "send" => req[w].todo = {}
          /\ req[w].pc \in {"read", "delete"} => req[w].note \in Notifications

Opened == \A s \in Streams : viewer[s] = Nobody <=> conn[s] = "none"

In(q, n) == \E i \in 1..Len(q) : q[i] = n
Once(q) == \A i, j \in 1..Len(q) : q[i] = q[j] => i = j

\* What a stream holds or has shown is addressed to its viewer, and held once.
HeldFits ==
    \A s \in Streams :
        /\ Once(buffer[s])
        /\ \A n \in Notifications :
              /\ In(buffer[s], n) \/ In(shown[s], n)
                    => addressee[n] = viewer[s] /\ viewer[s] # Nobody
              /\ ~(In(buffer[s], n) /\ In(shown[s], n))

\* Request w is still to send to stream s, or may be.
Owes(w, s) == req[w].pc = "lock" \/ (req[w].pc = "send" /\ s \in req[w].todo)

OwedIsNew ==
    \A w \in Workers, s \in Streams : Owes(w, s) =>
        ~In(buffer[s], req[w].note) /\ ~In(shown[s], req[w].note)

IInv ==
    /\ TypeOK /\ PushesFit /\ Opened /\ HeldFits /\ OwedIsNew /\ SendsToClients

-----------------------------------------------------------------------------
\* What Append and Tail do to the members of a queue.
LEMMA AppendMembers ==
  ASSUME NEW S, NEW q \in Seq(S), NEW n \in S
  PROVE  /\ Append(q, n) \in Seq(S) /\ Len(Append(q, n)) = Len(q) + 1
         /\ \A m : In(Append(q, n), m) <=> In(q, m) \/ m = n
         /\ Once(q) /\ ~In(q, n) => Once(Append(q, n))
<1> DEFINE a == Append(q, n)
<1>1. /\ a \in Seq(S) /\ Len(a) = Len(q) + 1 /\ Len(q) \in Nat
      /\ \A i \in 1..Len(q) : a[i] = q[i]
      /\ a[Len(q) + 1] = n
  OBVIOUS
<1> HIDE DEF a
<1>2. \A i \in 1..Len(a) : i \in 1..Len(q) \/ i = Len(q) + 1
  BY <1>1
<1>3. \A i \in 1..Len(q) : i \in 1..Len(a)
  BY <1>1
<1>4. Len(q) + 1 \in 1..Len(a)
  BY <1>1
<1>5. \A m : In(a, m) <=> In(q, m) \/ m = n
  BY <1>1, <1>2, <1>3, <1>4 DEF In
<1>6. Once(q) /\ ~In(q, n) => Once(a)
  BY <1>1, <1>2 DEF In, Once
<1> QED
  BY <1>1, <1>5, <1>6 DEF a

LEMMA TailMembers ==
  ASSUME NEW S, NEW q \in Seq(S), q # <<>>
  PROVE  /\ Head(q) \in S /\ In(q, Head(q))
         /\ Tail(q) \in Seq(S) /\ Len(Tail(q)) <= Len(q)
         /\ \A m : In(Tail(q), m) => In(q, m)
         /\ Once(q) => Once(Tail(q)) /\ ~In(Tail(q), Head(q))
<1> DEFINE t == Tail(q)
<1>1. /\ t \in Seq(S) /\ Len(t) = Len(q) - 1 /\ Len(q) \in Nat /\ Len(q) > 0
      /\ \A i \in 1..Len(t) : t[i] = q[i + 1]
      /\ Head(q) = q[1] /\ q[1] \in S
  OBVIOUS
<1> HIDE DEF t
<1>2. \A i \in 1..Len(t) : i + 1 \in 1..Len(q) /\ i + 1 # 1
  BY <1>1
<1>3. 1 \in 1..Len(q)
  BY <1>1
<1>4. In(q, Head(q)) /\ \A m : In(t, m) => In(q, m)
  BY <1>1, <1>2, <1>3 DEF In
<1>5. ASSUME Once(q) PROVE Once(t) /\ ~In(t, Head(q))
  <2>1. \A i, j \in 1..Len(t) : t[i] = t[j] => i = j
    <3> TAKE i, j \in 1..Len(t)
    <3> HAVE t[i] = t[j]
    <3>1. i + 1 = j + 1
      BY <1>1, <1>2, <1>5 DEF Once
    <3> QED
      BY <3>1
  <2>2. ~In(t, Head(q))
    BY <1>1, <1>2, <1>3, <1>5 DEF Once, In
  <2> QED
    BY <2>1, <2>2 DEF Once
<1> QED
  BY <1>1, <1>4, <1>5 DEF t

LEMMA EmptyMembers == Once(<<>>) /\ \A m : ~In(<<>>, m)
  BY DEF Once, In

LEMMA IdleIsRequest ==
  /\ Idle \in Requests /\ Idle.pc = "idle" /\ Idle.todo = {} /\ Idle.note = NoNote
  BY DEF Idle, Requests, Steps

-----------------------------------------------------------------------------
\* Streams and requests that are not in the middle of a push leave the queues
\* and who sees what.
queues == <<addressee, viewer, clients, buffer, shown>>

\* One request goes on to r, which owes nothing that w did not owe.
LEMMA RequestGoesOn ==
  ASSUME IInv, NEW w \in Workers, NEW r \in Requests,
         req' = [req EXCEPT ![w] = r], UNCHANGED queues,
         r.pc \in {"lock", "send"} =>
            req[w].pc \in {"lock", "send"} /\ r.note = req[w].note /\ r.user = req[w].user,
         r.pc = "lock" => req[w].pc = "lock",
         \A s \in r.todo : Owes(w, s) /\ s \in ClientsOf(req[w].user) /\ r.pc = "send",
         r.pc \in {"read", "delete"} => r.note \in Notifications
  PROVE  PushesFit' /\ OwedIsNew' /\ SendsToClients' /\ HeldFits'
         /\ req' \in [Workers -> Requests]
<1>1. req' \in [Workers -> Requests] /\ req'[w] = r
      /\ \A v \in Workers \ {w} : req'[v] = req[v]
  BY DEF IInv, TypeOK
<1>2. PushesFit'
  <2>1. \A v \in Workers : Pushing(v)' =>
          Pushing(v) /\ req'[v].note = req[v].note /\ req'[v].user = req[v].user
    BY <1>1 DEF Pushing
  <2>2. \A v \in Workers :
          /\ req'[v].pc # "send" => req'[v].todo = {}
          /\ req'[v].pc \in {"read", "delete"} => req'[v].note \in Notifications
    <3>1. r.pc # "send" => r.todo = {}
      OBVIOUS
    <3> QED
      BY <1>1, <3>1 DEF IInv, PushesFit
  <2> QED
    BY <2>1, <2>2 DEF IInv, PushesFit, queues
<1>3. OwedIsNew'
  <2>1. \A v \in Workers, s \in Streams : Owes(v, s)' => Owes(v, s) /\ req'[v].note = req[v].note
    BY <1>1 DEF Owes
  <2> QED
    BY <2>1 DEF IInv, OwedIsNew, queues
<1>4. SendsToClients'
  <2> SUFFICES ASSUME NEW v \in Workers, NEW s \in req'[v].todo
               PROVE  s \in clients /\ viewer[s] = req'[v].user /\ s \in Streams
    BY DEF SendsToClients, ClientsOf, queues, IInv, TypeOK
  <2>1. CASE v = w
    <3>1. r.pc = "send" /\ s \in ClientsOf(req[w].user) /\ r.user = req[w].user
      BY <1>1, <2>1
    <3> QED
      BY <1>1, <2>1, <3>1 DEF ClientsOf, IInv, TypeOK
  <2>2. CASE v # w
    BY <1>1, <2>2 DEF IInv, TypeOK, SendsToClients, ClientsOf
  <2> QED
    BY <2>1, <2>2
<1>5. HeldFits'
  BY DEF IInv, HeldFits, queues
<1> QED
  BY <1>1, <1>2, <1>3, <1>4, <1>5

THEOREM Initial == Init => IInv
<1> SUFFICES ASSUME Init PROVE IInv
  OBVIOUS
<1>1. \A s \in Streams : buffer[s] = <<>> /\ shown[s] = <<>>
  BY DEF Init
<1>2. \A w \in Workers : req[w] = Idle
  BY DEF Init
<1>3. TypeOK
  BY IdleIsRequest DEF Init, TypeOK
<1>4. PushesFit /\ Opened /\ SendsToClients
  BY <1>2, IdleIsRequest DEF Init, PushesFit, Pushing, Opened, SendsToClients
<1>5. HeldFits /\ OwedIsNew
  BY <1>1, <1>2, EmptyMembers, IdleIsRequest DEF HeldFits, OwedIsNew, Owes
<1> QED
  BY <1>3, <1>4, <1>5 DEF IInv

LEMMA StepOpen ==
  ASSUME IInv, NEW s \in Streams, NEW u \in Users, Open(s, u)
  PROVE  IInv'
<1>1. viewer' \in [Streams -> Users \cup {Nobody}] /\ viewer'[s] = u
      /\ \A t \in Streams \ {s} : viewer'[t] = viewer[t]
  BY DEF IInv, TypeOK, Open
<1>2. conn' \in [Streams -> {"none", "live", "late", "done"}] /\ conn'[s] = "live"
      /\ \A t \in Streams \ {s} : conn'[t] = conn[t]
  BY DEF IInv, TypeOK, Open
<1>3. UNCHANGED <<addressee, deleted, read, buffer, missed, shown, req>>
      /\ viewer[s] = Nobody
  BY DEF Open, table
<1>4. TypeOK'
  BY <1>1, <1>2, <1>3 DEF IInv, TypeOK, Open
<1>5. PushesFit' /\ OwedIsNew'
  BY <1>3 DEF IInv, PushesFit, Pushing, OwedIsNew, Owes
<1>6. Opened'
  BY <1>1, <1>2 DEF IInv, Opened
<1>7. HeldFits'
  BY <1>1, <1>3 DEF IInv, HeldFits
<1>8. SendsToClients'
  <2>1. \A w \in Workers : req[w].pc # "send"
    BY DEF Open, NoReaders, Readers
  <2> QED
    BY <1>3, <2>1 DEF IInv, PushesFit, SendsToClients
<1> QED
  BY <1>4, <1>5, <1>6, <1>7, <1>8 DEF IInv

\* What happens to a connection without a notification being moved.
LEMMA StepConnection ==
  ASSUME IInv, NEW s \in Streams,
         Disconnect(s) \/ DeadlinePasses(s) \/ Ping(s) \/ Return(s)
  PROVE  IInv'
<1>1. UNCHANGED <<table, viewer, hub, shown, req>>
  BY DEF Disconnect, DeadlinePasses, Ping, Return
<1>2. /\ conn' \in [Streams -> {"none", "live", "late", "done"}]
      /\ \A t \in Streams : conn'[t] = "none" <=> conn[t] = "none"
      /\ loop' \in SUBSET Streams
  BY DEF IInv, TypeOK, Disconnect, DeadlinePasses, Ping, Written, Return
<1>3. TypeOK' /\ Opened'
  BY <1>1, <1>2 DEF IInv, TypeOK, Opened, table, hub
<1>4. PushesFit' /\ HeldFits' /\ OwedIsNew' /\ SendsToClients'
  BY <1>1 DEF IInv, PushesFit, Pushing, HeldFits, OwedIsNew, Owes,
       SendsToClients, ClientsOf, table, hub
<1> QED
  BY <1>3, <1>4 DEF IInv

\* The notification leaves the buffer, to be shown or lost.
LEMMA StepForward ==
  ASSUME IInv, NEW s \in Streams, Forward(s)
  PROVE  IInv'
<1> DEFINE q == buffer[s]
           n == Head(q)
<1>1. /\ q \in Seq(Notifications) /\ q # <<>> /\ shown[s] \in Seq(Notifications)
      /\ Len(q) <= Capacity
  BY DEF IInv, TypeOK, Forward
<1>2. /\ n \in Notifications /\ In(q, n)
      /\ Tail(q) \in Seq(Notifications) /\ Len(Tail(q)) <= Len(q)
      /\ \A m : In(Tail(q), m) => In(q, m)
      /\ Once(q) => Once(Tail(q)) /\ ~In(Tail(q), n)
  BY <1>1, TailMembers
<1>3. /\ Append(shown[s], n) \in Seq(Notifications)
      /\ \A m : In(Append(shown[s], n), m) <=> In(shown[s], m) \/ m = n
  BY <1>1, <1>2, AppendMembers
<1>4. buffer' \in [Streams -> Seq(Notifications)] /\ buffer'[s] = Tail(q)
      /\ \A t \in Streams \ {s} : buffer'[t] = buffer[t]
  BY <1>2 DEF IInv, TypeOK, Forward
<1>5. shown' \in [Streams -> Seq(Notifications)]
      /\ (shown'[s] = shown[s] \/ shown'[s] = Append(shown[s], n))
      /\ \A t \in Streams \ {s} : shown'[t] = shown[t]
  BY <1>3 DEF IInv, TypeOK, Forward
<1>6. /\ conn' \in [Streams -> {"none", "live", "late", "done"}]
      /\ \A t \in Streams : conn'[t] = "none" <=> conn[t] = "none"
      /\ UNCHANGED <<addressee, deleted, read, viewer, loop, clients, missed, req>>
  BY DEF IInv, TypeOK, Forward, Written, table
<1> HIDE DEF q, n
<1>7. Once(buffer[s]) /\ buffer[s] = q
  BY DEF IInv, HeldFits, q
<1>8. \A t \in Streams, m \in Notifications :
        /\ In(buffer'[t], m) => In(buffer[t], m)
        /\ In(shown'[t], m) => In(shown[t], m) \/ In(buffer[t], m)
        /\ ~(In(buffer[t], m) /\ In(shown[t], m)) =>
              ~(In(buffer'[t], m) /\ In(shown'[t], m))
  <2> TAKE t \in Streams, m \in Notifications
  <2>1. CASE t = s
    BY <1>2, <1>3, <1>4, <1>5, <1>7, <2>1
  <2>2. CASE t # s
    BY <1>4, <1>5, <2>2
  <2> QED
    BY <2>1, <2>2
<1>9. TypeOK'
  <2>1. Len(Tail(q)) \in Nat /\ Len(q) \in Nat
    BY <1>1, <1>2
  <2>2. \A t \in Streams : Len(buffer'[t]) <= Capacity
    BY <1>1, <1>2, <1>4, <2>1 DEF IInv, TypeOK
  <2> QED
    BY <1>4, <1>5, <1>6, <2>2 DEF IInv, TypeOK
<1>10. HeldFits'
  <2>1. \A t \in Streams : Once(buffer'[t])
    BY <1>2, <1>4, <1>7 DEF IInv, HeldFits
  <2> QED
    BY <1>6, <1>8, <2>1 DEF IInv, HeldFits
<1>11. OwedIsNew'
  <2> SUFFICES ASSUME NEW w \in Workers, NEW t \in Streams, Owes(w, t)
               PROVE  ~In(buffer'[t], req[w].note) /\ ~In(shown'[t], req[w].note)
    BY <1>6 DEF OwedIsNew, Owes
  <2>1. req[w].note \in Notifications
    BY DEF IInv, PushesFit, Pushing, Owes
  <2> QED
    BY <1>8, <2>1 DEF IInv, OwedIsNew
<1>12. PushesFit' /\ Opened' /\ SendsToClients'
  BY <1>6 DEF IInv, PushesFit, Pushing, Opened, SendsToClients, ClientsOf
<1> QED
  BY <1>9, <1>10, <1>11, <1>12 DEF IInv

\* Nobody is going through the clients.
LEMMA StepUnregister ==
  ASSUME IInv, NEW s \in Streams, Unregister(s)
  PROVE  IInv'
<1>1. UNCHANGED <<addressee, deleted, read, viewer, conn, loop, buffer, missed, shown, req>>
      /\ clients' = clients \ {s}
  BY DEF Unregister, table
<1>2. \A w \in Workers : req[w].pc # "send"
  BY DEF Unregister, NoReaders, Readers
<1>3. SendsToClients'
  BY <1>1, <1>2 DEF IInv, PushesFit, SendsToClients
<1> QED
  BY <1>1, <1>3 DEF IInv, TypeOK, PushesFit, Pushing, Opened, HeldFits,
       OwedIsNew, Owes

-----------------------------------------------------------------------------
\* A stored notification is new: no stream holds it and no request has it.
LEMMA StepNotify ==
  ASSUME IInv, NEW w \in Workers, NEW n \in Notifications, NEW u \in Users,
         Notify(w, n, u)
  PROVE  IInv'
<1> PICK pc \in {"lock", "idle"} : AfterInsert(w, n, u, pc)
  BY DEF Notify
<1> DEFINE r == IF pc = "idle" THEN Idle
                ELSE [Idle EXCEPT !.pc = pc, !.note = n, !.user = u]
<1>1. /\ r \in Requests /\ r.todo = {} /\ r.pc = pc
      /\ pc = "lock" => r.note = n /\ r.user = u
  BY DEF Idle, Requests, Steps
<1>2. req' \in [Workers -> Requests] /\ req'[w] = r
      /\ \A v \in Workers \ {w} : req'[v] = req[v]
  BY <1>1 DEF IInv, TypeOK, AfterInsert
<1> HIDE DEF r
<1>3. /\ addressee[n] = Nobody /\ \A v \in Workers : req[v].note # n
      /\ UNCHANGED <<deleted, read, viewer, conn, loop, clients, buffer, missed, shown>>
  BY DEF Notify, IsNew, hub
<1>4. addressee' \in [Notifications -> Users \cup {Nobody}] /\ addressee'[n] = u
      /\ \A m \in Notifications \ {n} : addressee'[m] = addressee[m]
  BY DEF IInv, TypeOK, Notify
<1>5. \A s \in Streams : ~In(buffer[s], n) /\ ~In(shown[s], n)
  BY <1>3 DEF IInv, HeldFits
<1>6. TypeOK' /\ Opened'
  BY <1>2, <1>3, <1>4 DEF IInv, TypeOK, Opened
<1>7. PushesFit'
  <2>1. ASSUME NEW v \in Workers, Pushing(v)'
        PROVE  /\ req'[v].note \in Notifications /\ req'[v].user \in Users
               /\ addressee'[req'[v].note] = req'[v].user
    <3>1. CASE v = w
      BY <1>1, <1>2, <1>4, <2>1, <3>1 DEF Pushing
    <3>2. CASE v # w
      BY <1>2, <1>3, <1>4, <2>1, <3>2 DEF Pushing, IInv, PushesFit
    <3> QED
      BY <3>1, <3>2
  <2>2. \A v, x \in Workers : v # x /\ Pushing(v)' /\ Pushing(x)'
                                => req'[v].note # req'[x].note
    BY <1>1, <1>2, <1>3 DEF IInv, PushesFit, Pushing
  <2>3. \A v \in Workers :
          /\ req'[v].pc # "send" => req'[v].todo = {}
          /\ req'[v].pc \in {"read", "delete"} => req'[v].note \in Notifications
    BY <1>1, <1>2 DEF IInv, PushesFit
  <2> QED
    BY <2>1, <2>2, <2>3 DEF PushesFit
<1>8. HeldFits'
  BY <1>3, <1>4, <1>5 DEF IInv, HeldFits
<1>9. OwedIsNew'
  BY <1>1, <1>2, <1>3, <1>5 DEF IInv, OwedIsNew, Owes
<1>10. SendsToClients'
  BY <1>1, <1>2, <1>3 DEF IInv, SendsToClients, ClientsOf
<1> QED
  BY <1>6, <1>7, <1>8, <1>9, <1>10 DEF IInv

LEMMA StepLock ==
  ASSUME IInv, NEW w \in Workers, Lock(w)
  PROVE  IInv'
<1> DEFINE C == ClientsOf(req[w].user)
           r == [req[w] EXCEPT !.pc = "send", !.todo = C]
<1>1. req[w] \in Requests /\ req[w].pc = "lock" /\ C \in SUBSET Streams
  BY DEF IInv, TypeOK, Lock, ClientsOf
<1>2. /\ req' = [req EXCEPT ![w] = r]
      /\ UNCHANGED <<table, viewer, conn, loop, hub, shown>>
  BY DEF Lock
<1>3. /\ r \in Requests /\ r.pc = "send" /\ r.todo = C
      /\ r.note = req[w].note /\ r.user = req[w].user
  BY <1>1 DEF Requests, Steps
<1>4. UNCHANGED queues
  BY <1>2 DEF queues, table, hub
<1> HIDE DEF r
<1>5. PushesFit' /\ OwedIsNew' /\ SendsToClients' /\ HeldFits'
      /\ req' \in [Workers -> Requests]
  BY <1>1, <1>2, <1>3, <1>4, RequestGoesOn DEF Owes
<1> QED
  BY <1>2, <1>5 DEF IInv, TypeOK, Opened, table, hub

LEMMA StepSend ==
  ASSUME IInv, NEW w \in Workers, NEW s \in Streams, Send(w, s)
  PROVE  IInv'
<1> DEFINE n == req[w].note
           r == [req[w] EXCEPT !.todo = req[w].todo \ {s}]
<1>1. req[w] \in Requests /\ req[w].pc = "send" /\ s \in req[w].todo
  BY DEF IInv, TypeOK, Send
<1>2. /\ r \in Requests /\ r.pc = "send" /\ r.todo = req[w].todo \ {s}
      /\ r.note = n /\ r.user = req[w].user
  BY <1>1 DEF Requests
<1>3. /\ req' = [req EXCEPT ![w] = r]
      /\ UNCHANGED <<addressee, deleted, read, viewer, conn, loop, clients, shown>>
  BY DEF Send, table
<1>4. /\ n \in Notifications /\ addressee[n] = viewer[s] /\ viewer[s] # Nobody
      /\ ~In(buffer[s], n) /\ ~In(shown[s], n)
  BY <1>1 DEF IInv, PushesFit, Pushing, OwedIsNew, Owes, SendsToClients, ClientsOf
<1> HIDE DEF r
<1>5. CASE UNCHANGED buffer
  <2>1. \A t \in r.todo : Owes(w, t) /\ t \in ClientsOf(req[w].user)
    BY <1>1, <1>2 DEF Owes, IInv, SendsToClients
  <2>2. UNCHANGED queues
    BY <1>3, <1>5 DEF queues
  <2>3. PushesFit' /\ OwedIsNew' /\ SendsToClients' /\ HeldFits'
        /\ req' \in [Workers -> Requests]
    BY <1>1, <1>2, <1>3, <2>1, <2>2, RequestGoesOn
  <2>4. missed' \in SUBSET (Streams \X Notifications)
    BY <1>4 DEF Send, IInv, TypeOK
  <2> QED
    BY <1>3, <1>5, <2>3, <2>4 DEF IInv, TypeOK, Opened
<1>6. CASE HasRoom(s)
  <2> DEFINE q == Append(buffer[s], n)
  <2>1. buffer[s] \in Seq(Notifications) /\ Once(buffer[s])
    BY DEF IInv, TypeOK, HeldFits
  <2>2. /\ q \in Seq(Notifications) /\ Len(q) = Len(buffer[s]) + 1
        /\ \A m : In(q, m) <=> In(buffer[s], m) \/ m = n
        /\ Once(q)
    BY <1>4, <2>1, AppendMembers
  <2>3. /\ buffer' \in [Streams -> Seq(Notifications)] /\ buffer'[s] = q
        /\ \A t \in Streams \ {s} : buffer'[t] = buffer[t]
        /\ UNCHANGED missed
    BY <1>6, <2>2 DEF Send, IInv, TypeOK
  <2> HIDE DEF q, n
  <2>4. req' \in [Workers -> Requests] /\ req'[w] = r
        /\ \A v \in Workers \ {w} : req'[v] = req[v]
    BY <1>2, <1>3 DEF IInv, TypeOK
  <2>5. TypeOK'
    <3>1. Len(q) <= Capacity
      BY <1>6, <2>1, <2>2 DEF HasRoom
    <3>2. \A t \in Streams : Len(buffer'[t]) <= Capacity
      BY <2>3, <3>1 DEF IInv, TypeOK
    <3> QED
      BY <1>3, <2>3, <2>4, <3>2 DEF IInv, TypeOK
  <2>6. \A v \in Workers : req'[v].note = req[v].note /\ req'[v].user = req[v].user
                           /\ req'[v].pc = req[v].pc /\ req'[v].todo \subseteq req[v].todo
    BY <1>1, <1>2, <2>4 DEF n
  <2>7. PushesFit' /\ SendsToClients' /\ Opened'
    BY <1>3, <2>6 DEF IInv, PushesFit, Pushing, SendsToClients, ClientsOf, Opened
  <2>8. HeldFits'
    BY <1>3, <1>4, <2>2, <2>3 DEF IInv, HeldFits
  <2>9. OwedIsNew'
    <3> SUFFICES ASSUME NEW v \in Workers, NEW t \in Streams, Owes(v, t)'
                 PROVE  ~In(buffer'[t], req'[v].note) /\ ~In(shown'[t], req'[v].note)
      BY DEF OwedIsNew
    <3>1. Owes(v, t) /\ ~In(buffer[t], req[v].note) /\ ~In(shown[t], req[v].note)
      BY <2>6 DEF Owes, IInv, OwedIsNew
    <3>2. t = s => v # w
      BY <1>1, <1>2, <2>4 DEF Owes
    <3>3. t = s => req[v].note # n
      BY <1>1, <3>1, <3>2 DEF Owes, IInv, PushesFit, Pushing, n
    <3> QED
      BY <1>3, <2>2, <2>3, <2>6, <3>1, <3>3
  <2> QED
    BY <2>5, <2>7, <2>8, <2>9 DEF IInv
<1>7. HasRoom(s) \/ UNCHANGED buffer
  BY DEF Send
<1> QED
  BY <1>5, <1>6, <1>7

\* The steps of a request that end it, or that only look a notification up.
LEMMA StepUnlockWriteFindFails ==
  ASSUME IInv, NEW w \in Workers,
         \/ Unlock(w) \/ WriteNote(w) \/ Fails(w)
         \/ \E n \in Notifications, u \in Users, pc \in Steps : FindNote(w, pc, n, u)
  PROVE  IInv'
<1>1. CASE req' = [req EXCEPT ![w] = Idle]
  <2>1. UNCHANGED <<addressee, viewer, conn, loop, hub, shown>>
    BY <1>1, IdleIsRequest DEF Unlock, WriteNote, Fails, FindNote, table, IInv, TypeOK
  <2>2. UNCHANGED queues
    BY <2>1 DEF queues, hub
  <2>3. PushesFit' /\ OwedIsNew' /\ SendsToClients' /\ HeldFits'
        /\ req' \in [Workers -> Requests]
    BY <1>1, <2>2, IdleIsRequest, RequestGoesOn
  <2>4. deleted' \in SUBSET Notifications /\ read' \in SUBSET Notifications
    BY DEF IInv, TypeOK, PushesFit, Unlock, WriteNote, Fails, FindNote, Goto, table
  <2> QED
    BY <2>1, <2>3, <2>4 DEF IInv, TypeOK, Opened, hub
<1>2. CASE \E n \in Notifications, u \in Users, pc \in Steps : FindNote(w, pc, n, u)
  <2> PICK n \in Notifications, u \in Users, pc \in Steps : FindNote(w, pc, n, u)
    BY <1>2
  <2> DEFINE r == [Idle EXCEPT !.pc = pc, !.note = n, !.user = u]
  <2>1. /\ r \in Requests /\ r.pc = pc /\ r.note = n /\ r.todo = {}
        /\ pc \in {"read", "delete"}
    BY DEF FindNote, Idle, Requests, Steps
  <2>2. req' = [req EXCEPT ![w] = r] /\ UNCHANGED <<table, viewer, conn, loop, hub, shown>>
    BY DEF FindNote
  <2>3. UNCHANGED queues
    BY <2>2 DEF queues, table, hub
  <2> HIDE DEF r
  <2>4. PushesFit' /\ OwedIsNew' /\ SendsToClients' /\ HeldFits'
        /\ req' \in [Workers -> Requests]
    BY <2>1, <2>2, <2>3, RequestGoesOn
  <2> QED
    BY <2>2, <2>4 DEF IInv, TypeOK, Opened, table, hub
<1>3. CASE Unlock(w) \/ WriteNote(w) \/ Fails(w)
  <2>1. req' = [req EXCEPT ![w] = Idle]
    BY <1>3 DEF Unlock, WriteNote, Fails, Goto
  <2> QED
    BY <1>1, <2>1
<1> QED
  BY <1>2, <1>3

LEMMA StepMarkAll ==
  ASSUME IInv, NEW u \in Users, MarkAll(u)
  PROVE  IInv'
<1>1. UNCHANGED <<addressee, deleted, viewer, conn, loop, clients, buffer, missed, shown, req>>
      /\ read' \in SUBSET Notifications
  BY DEF IInv, TypeOK, MarkAll, hub
<1> QED
  BY <1>1 DEF IInv, TypeOK, PushesFit, Pushing, Opened, HeldFits, OwedIsNew,
       Owes, SendsToClients, ClientsOf

LEMMA StepRestart ==
  ASSUME IInv, Restart
  PROVE  IInv'
<1>1. /\ conn' \in [Streams -> {"none", "live", "late", "done"}]
      /\ \A s \in Streams : conn'[s] = "none" <=> conn[s] = "none"
      /\ loop' = {} /\ clients' = {}
      /\ buffer' = [s \in Streams |-> <<>>]
      /\ req' \in [Workers -> Requests] /\ \A w \in Workers : req'[w] = Idle
      /\ UNCHANGED <<addressee, deleted, read, viewer, missed, shown>>
  BY IdleIsRequest DEF IInv, TypeOK, Restart, table
<1>2. \A s \in Streams : buffer'[s] = <<>> /\ Len(buffer'[s]) = 0
  BY <1>1
<1>3. TypeOK'
  BY <1>1, <1>2 DEF IInv, TypeOK
<1>4. PushesFit' /\ Opened' /\ OwedIsNew' /\ SendsToClients'
  BY <1>1, IdleIsRequest DEF IInv, PushesFit, Pushing, Opened, OwedIsNew, Owes,
     SendsToClients
<1>5. HeldFits'
  BY <1>1, <1>2, EmptyMembers DEF IInv, HeldFits
<1> QED
  BY <1>3, <1>4, <1>5 DEF IInv

-----------------------------------------------------------------------------
THEOREM Inductive == IInv /\ [Next]_vars => IInv'
<1> SUFFICES ASSUME IInv, [Next]_vars PROVE IInv'
  OBVIOUS
<1>1. CASE UNCHANGED vars
  BY <1>1 DEF vars, table, hub, IInv, TypeOK, PushesFit, Pushing, Opened,
     HeldFits, OwedIsNew, Owes, SendsToClients, ClientsOf
<1>2. CASE Next
  BY <1>2, StepOpen, StepConnection, StepForward, StepUnregister, StepNotify,
     StepLock, StepSend, StepUnlockWriteFindFails, StepMarkAll, StepRestart
     DEF Next, Push
<1> QED
  BY <1>1, <1>2

THEOREM Invariant == Spec => []IInv
  BY Initial, Inductive, PTL DEF Spec

\* The table, the streams and the requests keep their types, and no channel
\* holds more than its capacity.
THEOREM TypeCorrect == Spec => []TypeOK
<1>1. IInv => TypeOK
  BY DEF IInv
<1> QED
  BY Invariant, <1>1, PTL

\* SendToUser only sends on channels of clients that are registered.
THEOREM SendersSeeClients == Spec => []SendsToClients
<1>1. IInv => SendsToClients
  BY DEF IInv
<1> QED
  BY Invariant, <1>1, PTL

-----------------------------------------------------------------------------
\* A step of Forward shows the client a notification, finds out that the
\* connection is late, or drops what nobody reads.
LEMMA ForwardIsFeed ==
  ASSUME IInv, NEW s \in Streams, Forward(s)
  PROVE  [F!FeedNext]_(F!feed)
<1> DEFINE n == Head(buffer[s])
<1>1. /\ n \in Notifications /\ In(buffer[s], n)
  BY TailMembers DEF IInv, TypeOK, Forward
<1>2. UNCHANGED <<addressee, viewer>>
  BY DEF Forward, table
<1>3. CASE conn[s] = "live"
  <2>1. /\ conn' = conn /\ shown' = [shown EXCEPT ![s] = Append(shown[s], n)]
    BY <1>3 DEF Forward, Written, IInv, TypeOK
  <2>2. /\ viewer[s] # Nobody /\ addressee[n] = viewer[s] /\ ~In(shown[s], n)
    BY <1>1 DEF IInv, HeldFits
  <2>3. over' = over /\ s \notin over
    BY <1>3, <2>1 DEF over
  <2>4. F!Show(s, n)
    BY <1>2, <2>1, <2>2, <2>3 DEF F!Show, In
  <2> QED
    BY <1>1, <2>4 DEF F!FeedNext
<1>4. CASE conn[s] # "live"
  <2>1. shown' = shown /\ over' = over \cup (IF conn[s] = "late" THEN {s} ELSE {})
    BY <1>4 DEF Forward, Written, IInv, TypeOK, over
  <2> DEFINE ended == IF conn[s] = "late" THEN {s} ELSE {}
  <2>2. F!End(ended) /\ ended \in SUBSET Streams
    BY <1>2, <2>1 DEF F!End
  <2> QED
    BY <2>2 DEF F!FeedNext
<1> QED
  BY <1>3, <1>4

LEMMA NextIsFeed ==
  ASSUME IInv, Next
  PROVE  [F!FeedNext]_(F!feed)
<1>1. ASSUME NEW s \in Streams, NEW u \in Users, Open(s, u)
      PROVE  F!Connect(s, u)
  <2>1. conn[s] = "none"
    BY <1>1 DEF Open, IInv, Opened
  <2>2. over' = over
    BY <1>1, <2>1 DEF Open, over, IInv, TypeOK
  <2> QED
    BY <1>1, <2>2 DEF Open, F!Connect, table
<1>2. ASSUME NEW s \in Streams, Disconnect(s) \/ Ping(s)
      PROVE  F!End({s})
  <2>1. over' = over \cup {s}
    BY <1>2 DEF Disconnect, Ping, Written, over, IInv, TypeOK
  <2> QED
    BY <1>2, <2>1 DEF Disconnect, Ping, F!End, table
<1>3. ASSUME NEW s \in Streams, DeadlinePasses(s) \/ Return(s) \/ Unregister(s)
      PROVE  UNCHANGED F!feed
  <2>1. over' = over
    BY <1>3 DEF DeadlinePasses, Return, Unregister, over, IInv, TypeOK
  <2> QED
    BY <1>3, <2>1 DEF DeadlinePasses, Return, Unregister, F!feed, table
<1>4. ASSUME NEW w \in Workers, NEW n \in Notifications, NEW u \in Users, Notify(w, n, u)
      PROVE  F!Store(n, u)
  <2>1. over' = over
    BY <1>4 DEF Notify, over
  <2> QED
    BY <1>4, <2>1 DEF Notify, IsNew, F!Store
<1>5. ASSUME NEW w \in Workers,
             \/ Push(w) \/ WriteNote(w) \/ Fails(w)
             \/ \E n \in Notifications, u \in Users, pc \in Steps : FindNote(w, pc, n, u)
      PROVE  UNCHANGED F!feed
  <2>1. UNCHANGED <<addressee, viewer, conn, shown>>
    BY <1>5 DEF Push, Lock, Send, Unlock, WriteNote, Fails, FindNote, table
  <2> QED
    BY <2>1 DEF F!feed, over
<1>6. ASSUME NEW u \in Users, MarkAll(u)
      PROVE  UNCHANGED F!feed
  BY <1>6 DEF MarkAll, F!feed, over
<1>7. ASSUME Restart
      PROVE  \E ended \in SUBSET Streams : F!End(ended)
  <2> DEFINE ended == {s \in Streams : conn[s] # "none"}
  <2>1. over' = over \cup ended
    BY <1>7 DEF Restart, over, IInv, TypeOK
  <2>2. F!End(ended)
    BY <1>7, <2>1 DEF Restart, F!End, table
  <2> QED
    BY <2>2
<1>8. ASSUME NEW s \in Streams, F!End({s}) PROVE F!FeedNext
  BY <1>8 DEF F!FeedNext
<1> QED
  BY <1>1, <1>2, <1>3, <1>4, <1>5, <1>6, <1>7, <1>8, ForwardIsFeed DEF Next, F!FeedNext

\* The stream implements Feed: a client is shown what is stored for its user,
\* each notification at most once, and nothing after its connection is over,
\* for any number of requests, streams and crashes.
THEOREM ImplementsFeed == Spec => KeepsFeed
<1>1. Init => F!FeedInit
  BY DEF Init, F!FeedInit, over
<1>2. IInv /\ [Next]_vars => [F!FeedNext]_(F!feed)
  <2> SUFFICES ASSUME IInv, [Next]_vars PROVE [F!FeedNext]_(F!feed)
    OBVIOUS
  <2>1. CASE UNCHANGED vars
    BY <2>1 DEF vars, table, F!feed, over
  <2> QED
    BY <2>1, NextIsFeed
<1> QED
  BY <1>1, <1>2, Invariant, PTL DEF Spec, KeepsFeed, F!FeedSpec
=============================================================================
