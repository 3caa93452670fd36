----------------------------- MODULE TCPServer ------------------------------
(***************************************************************************)
(* TCPServer.cpp over MacTCP.cpp: a thread that accepts connections and    *)
(* reads from them, a queue of events under a mutex, and the main loop     *)
(* that handles the events, runs one task for each connection and closes a *)
(* connection when its task has finished.                                  *)
(*                                                                         *)
(* The mutex guards the queue only.  The slots of _clientSockets are read, *)
(* closed and cleared by both threads, so each of these is a step.         *)
(* Events of kind Error and SentData change nothing and are left out; the  *)
(* task manager is taken to remove the task it is asked to.                *)
(***************************************************************************)
EXTENDS Naturals, FiniteSets, Sequences, FiniteSetsExt

CONSTANTS
    Conns,           \* the clients that may connect, each once
    NoConn,          \* no connection, and no task
    MaxConnections,  \* the slots for connections (TCP.h has 4)
    MaxClients,      \* bound on the clients the host knows at a time
    Talking,         \* the clients that say something, once
    Finishing,       \* the connections whose task may finish by itself
    HangingUp        \* the connections whose client may close its end

ASSUME ServerAssumption ==
    /\ NoConn \notin Conns
    /\ MaxConnections \in Nat \ {0}
    /\ MaxClients \in Nat \ {0}
    /\ Talking \subseteq Conns
    /\ Finishing \subseteq Conns
    /\ HangingUp \subseteq Conns

Slots == 1..MaxConnections
FDs == 1..(MaxConnections + 1)

VARIABLES
    peer,      \* what each client has done
    backlog,   \* the clients that wait for accept(), in order
    unread,    \* the clients that have sent something nobody has read
    file,      \* the connection each file descriptor stands for
    slot,      \* _clientSockets, 0 for a free one
    events,    \* _events
    server,    \* the server thread: where it is and its local variables
    main,      \* the main thread likewise
    task,      \* the task of _connections[i], named by its connection
    home,      \* the connectionId a task's finish callback has captured
    live       \* the tasks the task manager has

netVars == <<peer, backlog, unread, file>>
vars == <<netVars, slot, events, server, main, task, home, live>>

Events == [kind : {"Connected", "Disconnected", "ReceivedData"},
           id : Slots, conn : Conns \cup {NoConn}]

NoEvent == [kind |-> "Disconnected", id |-> 1, conn |-> NoConn]

Init ==
    /\ peer = [c \in Conns |-> "away"]
    /\ backlog = <<>>
    /\ unread = {}
    /\ file = [fd \in FDs |-> NoConn]
    /\ slot = [i \in Slots |-> 0]
    /\ events = <<>>
    /\ server = [pc |-> "select", listen |-> FALSE, ready |-> {}, at |-> 0,
                 event |-> NoEvent]
    /\ main = [pc |-> "idle", at |-> 0, id |-> 0, fd |-> 0]
    /\ task = [i \in Slots |-> NoConn]
    /\ home = [c \in Conns |-> 1]
    /\ live = {}

-----------------------------------------------------------------------------
(* The clients. *)
Known == {c \in Conns : c \in {backlog[k] : k \in DOMAIN backlog}
                        \/ \E fd \in FDs : file[fd] = c}

Connect(c) ==
    /\ peer[c] = "away"
    /\ Cardinality(Known) < MaxClients
    /\ peer' = [peer EXCEPT ![c] = "up"]
    /\ backlog' = Append(backlog, c)
    /\ UNCHANGED <<unread, file, slot, events, server, main, task, home, live>>

Say(c) ==
    /\ c \in Talking /\ peer[c] = "up"
    /\ peer' = [peer EXCEPT ![c] = "said"]
    /\ unread' = unread \cup {c}
    /\ UNCHANGED <<backlog, file, slot, events, server, main, task, home, live>>

HangUp(c) ==
    /\ c \in HangingUp /\ peer[c] \in {"up", "said"}
    /\ peer' = [peer EXCEPT ![c] = "down"]
    /\ UNCHANGED <<backlog, unread, file, slot, events, server, main, task, home, live>>

-----------------------------------------------------------------------------
(* The server thread. *)
At(pc) == server.pc = pc

Readable(fd) ==
    /\ file[fd] # NoConn
    /\ file[fd] \in unread \/ peer[file[fd]] = "down"

(* select() on the listening socket and on the slots in use.               *)
Select ==
    /\ At("select")
    /\ LET listen == backlog # <<>>
           ready == {fd \in FDs : Readable(fd) /\ \E i \in Slots : slot[i] = fd}
       IN  /\ listen \/ ready # {}
           /\ server' = [server EXCEPT !.pc = "accept", !.listen = listen,
                                       !.ready = ready, !.at = 1]
    /\ UNCHANGED <<netVars, slot, events, main, task, home, live>>

NoClient ==
    /\ At("accept") /\ ~server.listen
    /\ server' = [server EXCEPT !.pc = "scan"]
    /\ UNCHANGED <<netVars, slot, events, main, task, home, live>>

FreeSlots == {i \in Slots : slot[i] = 0}
FreeFDs == {fd \in FDs : file[fd] = NoConn}

(* The server thread has an event of slot i to post.                       *)
Posting(kind, i, c) ==
    [server EXCEPT !.pc = "post", !.at = i, !.event = [kind |-> kind, id |-> i, conn |-> c]]

(* A new connection takes the first free slot; accept() returns the lowest *)
(* free descriptor.                                                        *)
Accept ==
    /\ At("accept") /\ server.listen
    /\ FreeSlots # {}
    /\ LET c  == Head(backlog)
           fd == Min(FreeFDs)
           i  == Min(FreeSlots)
       IN  /\ file' = [file EXCEPT ![fd] = c]
           /\ slot' = [slot EXCEPT ![i] = fd]
           /\ server' = Posting("Connected", i, c)
    /\ backlog' = Tail(backlog)
    /\ UNCHANGED <<peer, unread, events, main, task, home, live>>

(* "Too many connections on port": the loop is left for good.              *)
Refuse ==
    /\ At("accept") /\ server.listen
    /\ FreeSlots = {}
    /\ backlog' = Tail(backlog)
    /\ server' = [server EXCEPT !.pc = "exited"]
    /\ UNCHANGED <<peer, unread, file, slot, events, main, task, home, live>>

(* The scan of the slots, which passes those select() has not reported.    *)
ScanEnds ==
    /\ At("scan") /\ server.at > MaxConnections
    /\ server' = [server EXCEPT !.pc = "select", !.ready = {}, !.at = 0]
    /\ UNCHANGED <<netVars, slot, events, main, task, home, live>>

Reported == server.at <= MaxConnections /\ slot[server.at] \in server.ready

Pass ==
    /\ At("scan") /\ server.at <= MaxConnections /\ ~Reported
    /\ server' = [server EXCEPT !.at = @ + 1]
    /\ UNCHANGED <<netVars, slot, events, main, task, home, live>>

(* read() of a slot that select() has reported: data, the end of the       *)
(* stream, or an error because the descriptor has been closed since.  With *)
(* nothing to read it waits.                                               *)
Read ==
    /\ At("scan") /\ Reported
    /\ LET c == file[slot[server.at]]
       IN  \/ /\ c = NoConn
              /\ server' = [server EXCEPT !.at = @ + 1]
              /\ UNCHANGED unread
           \/ /\ c \in unread
              /\ server' = Posting("ReceivedData", server.at, c)
              /\ unread' = unread \ {c}
           \/ /\ c \in Conns \ unread /\ peer[c] = "down"
              /\ server' = Posting("Disconnected", server.at, c)
              /\ UNCHANGED unread
    /\ UNCHANGED <<peer, backlog, file, slot, events, main, task, home, live>>

(* The mutex is free unless the main thread is in handleEvents.            *)
Unlocked == main.pc # "handling"

(* The event is put before those that wait. *)
PostFirst ==
    /\ At("post") /\ Unlocked
    /\ events' = <<server.event>> \o events
    /\ server' = CASE server.event.kind = "Connected"    -> [server EXCEPT !.pc = "scan", !.at = 1, !.event = NoEvent]
                   [] server.event.kind = "ReceivedData" -> [server EXCEPT !.pc = "scan", !.at = @ + 1, !.event = NoEvent]
                   [] server.event.kind = "Disconnected" -> [server EXCEPT !.pc = "close", !.event = NoEvent]
    /\ UNCHANGED <<netVars, slot, main, task, home, live>>

Post ==
    /\ At("post") /\ Unlocked
    /\ events' = Append(events, server.event)
    /\ server' = CASE server.event.kind = "Connected"    -> [server EXCEPT !.pc = "scan", !.at = 1, !.event = NoEvent]
                   [] server.event.kind = "ReceivedData" -> [server EXCEPT !.pc = "scan", !.at = @ + 1, !.event = NoEvent]
                   [] server.event.kind = "Disconnected" -> [server EXCEPT !.pc = "close", !.event = NoEvent]
    /\ UNCHANGED <<netVars, slot, main, task, home, live>>

Closed(fd) == [f \in FDs |-> IF f = fd THEN NoConn ELSE file[f]]

(* After the end of the stream: close(socket), then socket = 0.  socket is *)
(* a reference to the slot, whose value is read again.                     *)
Close ==
    /\ At("close")
    /\ file' = Closed(slot[server.at])
    /\ server' = [server EXCEPT !.pc = "zero"]
    /\ UNCHANGED <<peer, backlog, unread, slot, events, main, task, home, live>>

Zero ==
    /\ At("zero")
    /\ slot' = [slot EXCEPT ![server.at] = 0]
    /\ server' = [server EXCEPT !.pc = "scan", !.at = @ + 1]
    /\ UNCHANGED <<netVars, events, main, task, home, live>>

ServerStep == Select \/ NoClient \/ Accept \/ Refuse \/ ScanEnds \/ Pass \/ Read \/ Post \/ Close \/ Zero

-----------------------------------------------------------------------------
(* The main thread. *)
HandleEvents ==
    /\ main.pc = "idle" /\ events # <<>>
    /\ main' = [main EXCEPT !.pc = "handling", !.at = 1]
    /\ UNCHANGED <<netVars, slot, events, server, task, home, live>>

Handling == main.pc = "handling" /\ main.at <= Len(events)

Current == events[main.at]

(* A task for the new connection, over whatever the slot has had.  It has  *)
(* no error: the tasks of the terminal are given a shell, not a file.      *)
Connected ==
    /\ Handling /\ Current.kind = "Connected"
    /\ task' = [task EXCEPT ![Current.id] = Current.conn]
    /\ home' = [home EXCEPT ![Current.conn] = Current.id]
    /\ live' = live \cup {Current.conn}
    /\ main' = [main EXCEPT !.at = @ + 1]
    /\ UNCHANGED <<netVars, slot, events, server>>

(* The task is reset but goes on. *)
DisconnectedKeepsTask ==
    /\ Handling /\ Current.kind = "Disconnected"
    /\ task' = [task EXCEPT ![Current.id] = NoConn]
    /\ main' = [main EXCEPT !.at = @ + 1]
    /\ UNCHANGED <<netVars, slot, events, server, home, live>>

(* All the tasks of the server are terminated. *)
DisconnectedEndsAll ==
    /\ Handling /\ Current.kind = "Disconnected"
    /\ live' = {}
    /\ task' = [task EXCEPT ![Current.id] = NoConn]
    /\ main' = [main EXCEPT !.at = @ + 1]
    /\ UNCHANGED <<netVars, slot, events, server, home>>

(* The task of the slot is terminated.  reset() forgets it only if it held *)
(* the last reference.                                                     *)
Disconnected ==
    /\ Handling /\ Current.kind = "Disconnected"
    /\ live' = live \ {task[Current.id]}
    /\ \E left \in {NoConn, task[Current.id]} : task' = [task EXCEPT ![Current.id] = left]
    /\ main' = [main EXCEPT !.at = @ + 1]
    /\ UNCHANGED <<netVars, slot, events, server, home>>

(* The data go to the task of the slot, if there is one.                   *)
ReceivedData ==
    /\ Handling /\ Current.kind = "ReceivedData"
    /\ main' = [main EXCEPT !.at = @ + 1]
    /\ UNCHANGED <<netVars, slot, events, server, task, home, live>>

HandledAll ==
    /\ main.pc = "handling" /\ main.at > Len(events)
    /\ events' = <<>>
    /\ main' = [main EXCEPT !.pc = "idle", !.at = 0, !.id = 0, !.fd = 0]
    /\ UNCHANGED <<netVars, slot, server, task, home, live>>

(* A task finishes: disconnect() reads the socket of the connectionId that *)
(* the callback has captured, clears the slot, closes the socket and posts *)
(* the event; then the slot's task is reset.                               *)
Finish(c) ==
    /\ main.pc = "idle" /\ c \in live
    /\ live' = live \ {c}
    /\ main' = [main EXCEPT !.pc = "clear", !.id = home[c], !.fd = slot[home[c]]]
    /\ UNCHANGED <<netVars, slot, events, server, task, home>>

(* The slot keeps the socket. *)
ClearForgotten ==
    /\ main.pc = "clear"
    /\ main' = [main EXCEPT !.pc = "close"]
    /\ UNCHANGED <<netVars, slot, events, server, task, home, live>>

ClearSlot ==
    /\ main.pc = "clear"
    /\ slot' = [slot EXCEPT ![main.id] = 0]
    /\ main' = [main EXCEPT !.pc = "close"]
    /\ UNCHANGED <<netVars, events, server, task, home, live>>

CloseSocket ==
    /\ main.pc = "close"
    /\ file' = Closed(main.fd)
    /\ main' = [main EXCEPT !.pc = "post"]
    /\ UNCHANGED <<peer, backlog, unread, slot, events, server, task, home, live>>

PostDisconnected ==
    /\ main.pc = "post"
    /\ events' = Append(events, [kind |-> "Disconnected", id |-> main.id, conn |-> NoConn])
    /\ main' = [main EXCEPT !.pc = "reset"]
    /\ UNCHANGED <<netVars, slot, server, task, home, live>>

ResetTask ==
    /\ main.pc = "reset"
    /\ \E left \in {NoConn, task[main.id]} : task' = [task EXCEPT ![main.id] = left]
    /\ main' = [main EXCEPT !.pc = "idle", !.at = 0, !.id = 0, !.fd = 0]
    /\ UNCHANGED <<netVars, slot, events, server, home, live>>

MainStep ==
    \/ HandleEvents \/ Connected \/ Disconnected \/ ReceivedData \/ HandledAll
    \/ ClearSlot \/ CloseSocket \/ PostDisconnected \/ ResetTask

Next ==
    \/ \E c \in Conns : Connect(c) \/ Say(c) \/ HangUp(c)
    \/ \E c \in Finishing : Finish(c)
    \/ ServerStep
    \/ MainStep

Spec == Init /\ [][Next]_vars

(* Both threads run; neither client nor task need do anything.             *)
FairSpec == Spec /\ WF_vars(ServerStep) /\ WF_vars(MainStep)

-----------------------------------------------------------------------------
(* A slot in use stands for an open connection, and for one that no other  *)
(* slot stands for (serverTask's accept and close, disconnect).            *)
SlotsAreDistinctConnections ==
    \A i \in Slots : slot[i] # 0 =>
        /\ file[slot[i]] # NoConn \/ (At("zero") /\ server.at = i)
        /\ \A j \in Slots \ {i} : slot[j] # slot[i]

(* "Communications to and from that connection go to that task": what is   *)
(* received is handed to the task of the connection it came from, or to    *)
(* none, although the event names a slot.                                  *)
DataReachesItsTask ==
    Handling /\ Current.kind = "ReceivedData" =>
        task[Current.id] \in {NoConn, Current.conn}

(* Only a connection whose own task has finished can end the task of the   *)
(* next one in its slot: disconnect() frees the slot before it posts the   *)
(* event, the server thread posts the event first.                         *)
HadFinished(d) == d \in Finishing /\ peer[d] # "away" /\ d \notin Known

TaskEndsForItsSlot ==
    [][\A c \in Conns : c \in live /\ c \notin live' =>
          \/ Finish(c) \/ peer[c] = "down"
          \/ \E d \in Conns \ {c} : HadFinished(d) /\ home[d] = home[c]]_vars

(* read() of a descriptor that select() has reported waits all the same    *)
(* when disconnect() has closed it and accept() has given it to a client   *)
(* that says nothing.                                                      *)
WaitsInRead ==
    /\ At("scan") /\ Reported
    /\ file[slot[server.at]] # NoConn /\ ~Readable(slot[server.at])

(* The task of a client that has hung up ends, unless the server thread    *)
(* has left its loop or waits for another client (serverTask).             *)
HangUpEndsTask ==
    \A c \in HangingUp :
        c \in live /\ peer[c] = "down" ~> c \notin live \/ At("exited") \/ WaitsInRead
=============================================================================
