------------------------------- MODULE Events -------------------------------
(***************************************************************************)
(* Notifications and their stream: table notifications, the requests of    *)
(* internal/service/notification_service.go, the client table of           *)
(* sse_manager.go with its RWMutex, and the handler Stream of              *)
(* handler/notification_handler.go: a goroutine that forwards a buffered   *)
(* channel to the connection and a second one that unregisters the client  *)
(* when the context of its request is done.                                *)
(*                                                                         *)
(* A connection is "late" once the server's WriteTimeout has passed: it is *)
(* found out by the next write, which fails and cancels the context.       *)
(* Streams are the client ids, which are not used again.                   *)
(*                                                                         *)
(* Left out: the content of notifications, BroadcastToBoard with the table *)
(* boardUsers, and the kinds of notification that no code sends.           *)
(***************************************************************************)
EXTENDS Naturals, Sequences

CONSTANTS Workers, Users, Streams, Notifications, Nobody, NoNote, Capacity

ASSUME NullAssumption == Nobody \notin Users /\ NoNote \notin Notifications
ASSUME CapacityAssumption == Capacity \in Nat \ {0}

VARIABLES
    addressee,  \* notifications.user_id; stays when the row is deleted
    deleted,    \* notifications whose row was deleted
    read,       \* notifications with is_read
    viewer,     \* viewer[s]: the user of stream s, Nobody: not opened
    conn,       \* conn[s]: the connection of stream s
    loop,       \* streams whose handler runs its loop
    clients,    \* m.clients: the registered streams
    buffer,     \* buffer[s]: clientChan
    shown,      \* shown[s]: what reached the client
    missed,     \* history: <<s, n>>: n was pushed when the channel was full
    req         \* req[w]: the request worker w is serving

table == <<addressee, deleted, read>>
hub == <<clients, buffer, missed>>
vars == <<table, viewer, conn, loop, hub, shown, req>>

Steps == {"idle", "lock", "send", "read", "delete"}
Requests == [pc : Steps, note : Notifications \cup {NoNote},
             user : Users \cup {Nobody},   \* addressee, or the caller
             todo : SUBSET Streams]        \* clients still to be sent to
Idle == [pc |-> "idle", note |-> NoNote, user |-> Nobody, todo |-> {}]

TypeOK ==
    /\ addressee \in [Notifications -> Users \cup {Nobody}]
    /\ deleted \in SUBSET Notifications
    /\ read \in SUBSET Notifications
    /\ viewer \in [Streams -> Users \cup {Nobody}]
    /\ conn \in [Streams -> {"none", "live", "late", "done"}]
    /\ loop \in SUBSET Streams
    /\ clients \in SUBSET Streams
    /\ buffer \in [Streams -> Seq(Notifications)]
    /\ \A s \in Streams : Len(buffer[s]) <= Capacity
    /\ shown \in [Streams -> Seq(Notifications)]
    /\ missed \in SUBSET (Streams \X Notifications)
    /\ req \in [Workers -> Requests]

Init ==
    /\ addressee = [n \in Notifications |-> Nobody]
    /\ deleted = {} /\ read = {}
    /\ viewer = [s \in Streams |-> Nobody]
    /\ conn = [s \in Streams |-> "none"]
    /\ loop = {} /\ clients = {}
    /\ buffer = [s \in Streams |-> <<>>]
    /\ shown = [s \in Streams |-> <<>>]
    /\ missed = {}
    /\ req = [w \in Workers |-> Idle]

Stored(n) == addressee[n] # Nobody /\ n \notin deleted

-----------------------------------------------------------------------------
\* The RWMutex: SendToUser holds it for reading while it goes through the
\* clients of the user, Register and Unregister take it alone.
Readers == {w \in Workers : req[w].pc = "send"}

\* Mutant: SendToUser gives the lock back before it sends.
NoReadersAfterCopy == TRUE

NoReaders == Readers = {}

\* Stream is called: headers, Register, the first event.
Open(s, u) ==
    /\ viewer[s] = Nobody /\ NoReaders
    /\ viewer' = [viewer EXCEPT ![s] = u]
    /\ conn' = [conn EXCEPT ![s] = "live"]
    /\ clients' = clients \cup {s}
    /\ loop' = loop \cup {s}
    /\ UNCHANGED <<table, buffer, missed, shown, req>>

\* The client goes away, which net/http notices and cancels the context.
Disconnect(s) ==
    /\ conn[s] \in {"live", "late"}
    /\ conn' = [conn EXCEPT ![s] = "done"]
    /\ UNCHANGED <<table, viewer, loop, hub, shown, req>>

\* WriteTimeout after the request was read.
DeadlinePasses(s) ==
    /\ conn[s] = "live"
    /\ conn' = [conn EXCEPT ![s] = "late"]
    /\ UNCHANGED <<table, viewer, loop, hub, shown, req>>

\* A write of the loop: a late one fails and cancels the context.
Written(s) == conn' = [conn EXCEPT ![s] = IF @ = "late" THEN "done" ELSE @]

\* case event := <-clientChan, also when the context is done: select takes any
\* case that is ready.
Forward(s) ==
    /\ s \in loop /\ buffer[s] # <<>>
    /\ buffer' = [buffer EXCEPT ![s] = Tail(buffer[s])]
    /\ shown' = IF conn[s] = "live"
                THEN [shown EXCEPT ![s] = Append(shown[s], Head(buffer[s]))]
                ELSE shown
    /\ Written(s)
    /\ UNCHANGED <<table, viewer, loop, clients, missed, req>>

\* Mutant: Stream has no ticker.
PingNever(s) == FALSE /\ UNCHANGED vars

\* case <-ticker.C: a ping.
Ping(s) ==
    /\ s \in loop /\ conn[s] = "late"   \* on a live connection no effect
    /\ Written(s)
    /\ UNCHANGED <<table, viewer, loop, hub, shown, req>>

\* case <-ctx.Done(): the handler returns.
Return(s) ==
    /\ s \in loop /\ conn[s] = "done"
    /\ loop' = loop \ {s}
    /\ UNCHANGED <<table, viewer, conn, hub, shown, req>>

\* The goroutine that waits for ctx.Done().
Unregister(s) ==
    /\ s \in clients /\ conn[s] = "done" /\ NoReaders
    /\ clients' = clients \ {s}
    /\ UNCHANGED <<table, viewer, conn, loop, buffer, missed, shown, req>>

-----------------------------------------------------------------------------
Goto(w, from, to) ==
    /\ req[w].pc = from
    /\ req' = [req EXCEPT ![w] = IF to = "idle" THEN Idle
                                 ELSE [req[w] EXCEPT !.pc = to]]

\* Where a request goes once its INSERT has returned.
AfterInsert(w, n, u, pc) ==
    req' = [req EXCEPT ![w] = IF pc = "idle" THEN Idle
                              ELSE [Idle EXCEPT !.pc = pc, !.note = n, !.user = u]]

IsNew(n) == addressee[n] = Nobody /\ \A w \in Workers : req[w].note # n

\* Mutant: the notification is pushed although the INSERT failed.
NotifyUnstored(w, n, u) ==
    /\ req[w].pc = "idle" /\ IsNew(n)
    /\ \/ addressee' = [addressee EXCEPT ![n] = u]
       \/ UNCHANGED addressee
    /\ AfterInsert(w, n, u, "lock")
    /\ UNCHANGED <<deleted, read, viewer, conn, loop, hub, shown>>

\* NotifyCardAssigned, NotifyCommentAdded or NotifyMention of somebody else
\* INSERTs a row; after an error nothing is pushed, although it may be there.
Notify(w, n, u) ==
    /\ req[w].pc = "idle" /\ IsNew(n)
    /\ \E pc \in {"lock", "idle"} : AfterInsert(w, n, u, pc)
    /\ addressee' = [addressee EXCEPT ![n] = u]
    /\ UNCHANGED <<deleted, read, viewer, conn, loop, hub, shown>>

ClientsOf(u) == {s \in clients : viewer[s] = u}

\* Mutant: the clients are looked up under the notification's id.
LockWrongKey(w) ==
    /\ req[w].pc = "lock"
    /\ req' = [req EXCEPT ![w] = [req[w] EXCEPT !.pc = "send", !.todo = {}]]
    /\ UNCHANGED <<table, viewer, conn, loop, hub, shown>>

\* SendToUser takes the lock ...
Lock(w) ==
    /\ req[w].pc = "lock"
    /\ req' = [req EXCEPT ![w] = [req[w] EXCEPT !.pc = "send",
                                                !.todo = ClientsOf(req[w].user)]]
    /\ UNCHANGED <<table, viewer, conn, loop, hub, shown>>

\* Mutant: a channel that grows.
HasRoomAlways(s) == TRUE

HasRoom(s) == Len(buffer[s]) < Capacity

\* ... and sends to the client's channels in any order, without waiting.
Send(w, s) ==
    /\ req[w].pc = "send" /\ s \in req[w].todo
    /\ req' = [req EXCEPT ![w] = [req[w] EXCEPT !.todo = req[w].todo \ {s}]]
    /\ IF HasRoom(s)
       THEN /\ buffer' = [buffer EXCEPT ![s] = Append(buffer[s], req[w].note)]
            /\ UNCHANGED missed
       ELSE /\ missed' = missed \cup {<<s, req[w].note>>}
            /\ UNCHANGED buffer
    /\ UNCHANGED <<table, viewer, conn, loop, clients, shown>>

Unlock(w) ==
    /\ req[w].todo = {} /\ Goto(w, "send", "idle")
    /\ UNCHANGED <<table, viewer, conn, loop, hub, shown>>

\* MarkAsRead and Delete of one notification: FindByID, the owner compared ...
FindNote(w, pc, n, u) ==
    /\ req[w].pc = "idle" /\ pc \in {"read", "delete"}
    /\ Stored(n) /\ addressee[n] = u
    /\ req' = [req EXCEPT ![w] = [Idle EXCEPT !.pc = pc, !.note = n, !.user = u]]
    /\ UNCHANGED <<table, viewer, conn, loop, hub, shown>>

\* ... and the UPDATE or DELETE.
WriteNote(w) ==
    /\ \/ /\ Goto(w, "read", "idle")
          /\ read' = IF Stored(req[w].note) THEN read \cup {req[w].note} ELSE read
          /\ UNCHANGED deleted
       \/ /\ Goto(w, "delete", "idle")
          /\ deleted' = deleted \cup {req[w].note} /\ read' = read \ {req[w].note}
    /\ UNCHANGED <<addressee, viewer, conn, loop, hub, shown>>

\* MarkAllAsRead: one UPDATE.
MarkAll(u) ==
    /\ read' = read \cup {n \in Notifications : Stored(n) /\ addressee[n] = u}
    /\ read' # read
    /\ UNCHANGED <<addressee, deleted, viewer, conn, loop, hub, shown, req>>

\* The UPDATE or DELETE fails.  Nothing fails between an INSERT and its push.
Fails(w) ==
    /\ req[w].pc \in {"read", "delete"} /\ Goto(w, req[w].pc, "idle")
    /\ UNCHANGED <<table, viewer, conn, loop, hub, shown>>

\* The process ends (main gives open requests 10 s) and is started again: the
\* table is what is left.
Restart ==
    /\ conn' = [s \in Streams |-> IF conn[s] = "none" THEN "none" ELSE "done"]
    /\ loop' = {} /\ clients' = {}
    /\ buffer' = [s \in Streams |-> <<>>]
    /\ req' = [w \in Workers |-> Idle]
    /\ UNCHANGED <<table, viewer, missed, shown>>

Push(w) == Lock(w) \/ Unlock(w) \/ \E s \in Streams : Send(w, s)

Next ==
    \/ \E w \in Workers :
          \/ \E n \in Notifications, u \in Users :
                \/ Notify(w, n, u)
                \/ \E pc \in Steps : FindNote(w, pc, n, u)
          \/ Push(w) \/ WriteNote(w) \/ Fails(w)
    \/ \E s \in Streams :
          \/ \E u \in Users : Open(s, u)
          \/ Disconnect(s) \/ DeadlinePasses(s)
          \/ Forward(s) \/ Ping(s) \/ Return(s) \/ Unregister(s)
    \/ \E u \in Users : MarkAll(u)
    \/ Restart

Spec == Init /\ [][Next]_vars

\* Goroutines run on; the ticker ticks; select takes a case that stays ready; a
\* waiting Lock of an RWMutex keeps new readers out, so Unregister, which is
\* not always enabled, gets its turn.  No client is assumed to go away and no
\* deadline to pass.
FairSpec ==
    /\ Spec
    /\ \A w \in Workers : WF_vars(Push(w))
    /\ \A s \in Streams :
          /\ WF_vars(Ping(s)) /\ WF_vars(Forward(s)) /\ WF_vars(Return(s))
          /\ SF_vars(Unregister(s))

-----------------------------------------------------------------------------
\* The stream keeps what Feed promises.
over == {s \in Streams : conn[s] = "done"}
F == INSTANCE Feed
KeepsFeed == F!FeedSpec

\* The client table does not keep dead connections: a stream whose client went
\* away, or whose deadline has passed, which only a write finds out, leaves the
\* table although requests keep sending to its user.
StreamsEnd == \A s \in Streams : s \in clients /\ conn[s] # "live" ~> s \notin clients

\* What is pushed to a registered client reaches it, unless its channel was
\* full or the connection is late or over.
PushesArrive ==
    \A s \in Streams, n \in Notifications :
        (\E w \in Workers : req[w].pc = "lock" /\ req[w].note = n
                            /\ s \in ClientsOf(req[w].user))
        ~> \/ \E i \in 1..Len(shown[s]) : shown[s][i] = n
           \/ <<s, n>> \in missed
           \/ conn[s] # "live"

\* A channel only has senders while its client is registered: whoever goes
\* through the clients holds the lock Unregister needs.
SendsToClients ==
    \A w \in Workers : req[w].todo \subseteq ClientsOf(req[w].user)
=============================================================================
