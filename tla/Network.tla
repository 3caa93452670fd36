------------------------------ MODULE Network -------------------------------
(***************************************************************************)
(* The network of the ESP: the handler of the Wifi events (RtosWifi.cpp),  *)
(* the list of system events (SystemInterface.h), the application's loop   *)
(* that starts the servers (Application.cpp), and the HTTP server          *)
(* (HTTPServer.cpp) over its TCP task (RtosTCP.cpp, TCP.cpp).  No list is  *)
(* locked: push_back and pop_back read the size and write it back later.   *)
(* On the Mac there is no Wifi, the network is started once and a mutex    *)
(* guards the events of the server, held while they are handled            *)
(* (MacTCP.cpp); the plan says which of the two runs.                      *)
(*                                                                         *)
(* A request is two units: either the whole of it or each of them is sent  *)
(* in a packet, and its line, which is all the server asks for, may be in  *)
(* the first of them.  A response is its header and its body.  Descriptors *)
(* are left out, a slot holds a client (TCPServer has their races).        *)
(***************************************************************************)
EXTENDS Naturals, FiniteSets, Sequences, FiniteSetsExt

CONSTANTS
    Clients,         \* the clients that may connect, each once
    NoClient,        \* nobody
    MaxConnections,  \* the slots for connections (TCP.h has 4)
    Splitting,       \* the clients that send a request in two packets
    Missing,         \* the clients that ask for a file that is not there
    HangingUp,       \* the clients that may hang up
    ReconnectTries,  \* the disconnects the station answers (RtosWifi.cpp has 5)
    MaxAddresses,    \* bound on the addresses the station is given
    MaxQueue,        \* bound on the events of a server
    Plans            \* who takes part: on which system, and how often each may act

Slots   == 1..MaxConnections
Servers == 1..MaxAddresses      \* an HTTP server for each start of the network

ASSUME NetworkAssumption ==
    /\ NoClient \notin Clients
    /\ Splitting \cup Missing \cup HangingUp \subseteq Clients
    /\ MaxConnections \in Nat \ {0} /\ MaxAddresses \in Nat \ {0}
    /\ ReconnectTries \in Nat /\ MaxQueue \in Nat
    /\ Plans \subseteq [locked : BOOLEAN, slots : Slots, clients : SUBSET Clients,
                       addresses : 0..MaxAddresses, losses : Nat, phones : Nat]

VARIABLES
    plan,      \* who takes part; locked is TRUE on the Mac
    link,      \* what the station does
    wifiQ,     \* the events the driver has for the handler
    wifi,      \* RtosWifi: the tries, the configuration task, the rest of push_back
    list,      \* SystemInterface::_events: its elements and its size
    due,       \* an address was announced, with no one else at the list, and no
               \* server has been started since
    peer,      \* what each client has done
    sent,      \* the units each client has sent
    unread,    \* the units of each client nobody has read
    home,      \* the server and slot a client was accepted in
    got,       \* what each client has been sent
    unseen,    \* the clients of whom an invalid half was read or an event cleared unseen
    backlog,   \* the clients that wait for accept()
    task,      \* the TCP task of each server
    slot,      \* _clientSockets of each server
    events,    \* _events of each server
    web,       \* Application::_webServer
    main       \* the main task

stationVars == <<link, wifiQ, wifi>>
sysVars     == <<list, due>>
clientVars  == <<peer, sent, unread, home, got, unseen>>
serverVars  == <<backlog, task, slot, events>>
vars == <<plan, stationVars, sysVars, clientVars, serverVars, web, main>>

(* An event; `valid' is what parseRequest will say of its data.            *)
Entry(kind, i, c, valid) == [kind |-> kind, id |-> i, of |-> c, valid |-> valid]
Junk == Entry("Error", 0, NoClient, FALSE)     \* a default EventEntry; id 0 is -1

Idle == [pc |-> "idle", at |-> 0, end |-> 0, moved |-> FALSE, event |-> "None", back |-> "idle"]
Resting(pc) == [pc |-> pc, port |-> FALSE, ready |-> {}, at |-> 1, entry |-> Junk, size |-> 0]

(* The Application's constructor has started the network: the Mac          *)
(* announces it at once, the ESP has set up the station.                   *)
Init ==
    /\ plan \in Plans
    /\ link = "idle"
    /\ wifiQ = IF plan.locked THEN <<>> ELSE <<"start">>
    /\ wifi = [pc |-> "idle", tries |-> 0, config |-> 0, phones |-> 0, addresses |-> 0, losses |-> 0,
               size |-> 0, alone |-> FALSE]
    /\ list = [data |-> [k \in 1..MaxAddresses |-> IF plan.locked THEN "NetworkStarted" ELSE "None"],
               size |-> IF plan.locked THEN 1 ELSE 0]
    /\ due = plan.locked
    /\ peer = [c \in Clients |-> "away"]
    /\ sent = [c \in Clients |-> 0]
    /\ unread = [c \in Clients |-> 0]
    /\ home = [c \in Clients |-> <<0, 0>>]
    /\ got = [c \in Clients |-> {}]
    /\ unseen = {}
    /\ backlog = <<>>
    /\ task = [s \in Servers |-> Resting("none")]
    /\ slot = [s \in Servers |-> [i \in Slots |-> NoClient]]
    /\ events = [s \in Servers |-> <<>>]
    /\ web = 0
    /\ main = Idle

-----------------------------------------------------------------------------
(* The driver of the radio and the phone that configures it. *)
Answers ==
    /\ link = "asked"
    /\ \/ /\ wifi.addresses < plan.addresses
          /\ link' = "up" /\ wifiQ' = Append(wifiQ, "gotIp")
          /\ wifi' = [wifi EXCEPT !.addresses = @ + 1]
       \/ /\ wifi.losses < plan.losses
          /\ link' = "idle" /\ wifiQ' = Append(wifiQ, "disconnected")
          /\ wifi' = [wifi EXCEPT !.losses = @ + 1]
    /\ UNCHANGED <<plan, sysVars, clientVars, serverVars, web, main>>

Lose ==
    /\ link = "up" /\ wifi.losses < plan.losses
    /\ link' = "idle" /\ wifiQ' = Append(wifiQ, "disconnected")
    /\ wifi' = [wifi EXCEPT !.losses = @ + 1]
    /\ UNCHANGED <<plan, sysVars, clientVars, serverVars, web, main>>

(* sc_callback: the station disconnects and connects with what was sent,   *)
(* and the newest configuration task ends.                                 *)
Provision ==
    /\ wifi.config > 0 /\ wifi.phones < plan.phones
    /\ wifiQ' = IF link = "up" THEN Append(wifiQ, "disconnected") ELSE wifiQ
    /\ link' = "asked"
    /\ wifi' = [wifi EXCEPT !.config = @ - 1, !.phones = @ + 1]
    /\ UNCHANGED <<plan, sysVars, clientVars, serverVars, web, main>>

-----------------------------------------------------------------------------
(* The main task is about to take a system event. *)
Taking == main.pc \in {"size", "data"}

(* RtosWifi::eventHandler, in the task of the event loop.  _state is never *)
(* anything but InitialTry.                                                *)
WifiEvent(e) == wifi.pc = "idle" /\ wifiQ # <<>> /\ Head(wifiQ) = e

Connect ==      \* esp_wifi_connect
    link' = IF link = "idle" THEN "asked" ELSE link

StaStart ==
    /\ WifiEvent("start")
    /\ Connect
    /\ wifiQ' = Tail(wifiQ)
    /\ UNCHANGED <<plan, wifi, sysVars, clientVars, serverVars, web, main>>

(* The last try is refused although it is within the limit, and nothing is *)
(* started in its place.                                                   *)
DisconnectedGivesUp ==
    /\ WifiEvent("disconnected")
    /\ wifiQ' = Tail(wifiQ)
    /\ wifi' = [wifi EXCEPT !.tries = @ + 1,
                            !.config = @ + IF wifi.tries + 1 > ReconnectTries THEN 1 ELSE 0]
    /\ IF wifi.tries + 1 >= ReconnectTries THEN UNCHANGED link ELSE Connect
    /\ UNCHANGED <<plan, sysVars, clientVars, serverVars, web, main>>

(* The tries are those of the station's whole life.                        *)
StaDisconnected ==
    /\ WifiEvent("disconnected")
    /\ wifiQ' = Tail(wifiQ)
    /\ IF wifi.tries + 1 > ReconnectTries
       THEN /\ wifi' = [wifi EXCEPT !.tries = @ + 1, !.config = @ + 1]
            /\ UNCHANGED link
       ELSE /\ wifi' = [wifi EXCEPT !.tries = @ + 1]
            /\ Connect
    /\ UNCHANGED <<plan, sysVars, clientVars, serverVars, web, main>>

(* system()->addEvent: push_back reads the size, then writes the element   *)
(* and the size in the order the compiler likes.                           *)
StaGotIp ==
    /\ WifiEvent("gotIp")
    /\ wifi' = [wifi EXCEPT !.pc = "push", !.size = list.size, !.alone = ~Taking]
    /\ UNCHANGED <<plan, link, wifiQ, sysVars, clientVars, serverVars, web, main>>

WithElement == [list EXCEPT !.data[wifi.size + 1] = "NetworkStarted"]
WithSize    == [list EXCEPT !.size = wifi.size + 1]

AddEventBegins ==
    /\ wifi.pc = "push"
    /\ \/ list' = WithElement /\ wifi' = [wifi EXCEPT !.pc = "size"]
       \/ list' = WithSize    /\ wifi' = [wifi EXCEPT !.pc = "element"]
    /\ UNCHANGED <<plan, link, wifiQ, due, clientVars, serverVars, web, main>>

AddEventEnds ==
    /\ wifi.pc \in {"size", "element"}
    /\ list' = IF wifi.pc = "size" THEN WithSize ELSE WithElement
    /\ due' = (due \/ wifi.alone)
    /\ wifiQ' = Tail(wifiQ)
    /\ wifi' = [wifi EXCEPT !.pc = "idle", !.size = 0, !.alone = FALSE]
    /\ UNCHANGED <<plan, link, clientVars, serverVars, web, main>>

WifiStep == StaStart \/ StaDisconnected \/ StaGotIp \/ AddEventBegins \/ AddEventEnds

-----------------------------------------------------------------------------
(* The clients. *)
(* A port is held until its socket is closed, and no server is destroyed.  *)
Listening == {s \in Servers : task[s].port}

Dial(c) ==
    /\ c \in plan.clients /\ peer[c] = "away" /\ Listening # {}
    /\ peer' = [peer EXCEPT ![c] = "up"]
    /\ backlog' = Append(backlog, c)
    /\ UNCHANGED <<plan, stationVars, sysVars, sent, unread, home, got, unseen, task, slot, events, web, main>>

Ask(c) ==
    /\ peer[c] = "up" /\ sent[c] < 2
    /\ LET units == IF c \in Splitting THEN 1 ELSE 2 IN
       /\ sent' = [sent EXCEPT ![c] = @ + units]
       /\ unread' = [unread EXCEPT ![c] = @ + units]
    /\ UNCHANGED <<plan, stationVars, sysVars, peer, home, got, unseen, serverVars, web, main>>

HangUp(c) ==
    /\ c \in HangingUp /\ peer[c] = "up"
    /\ peer' = [peer EXCEPT ![c] = "down"]
    /\ UNCHANGED <<plan, stationVars, sysVars, sent, unread, home, got, unseen, serverVars, web, main>>

-----------------------------------------------------------------------------
(* The TCP task of server s: RtosTCP::serverTask, MacTCP's thread. *)
At(s, pc) == task[s].pc = pc

(* socket, bind and listen, for a port the first server has already.       *)
Bound(s) == IF Listening = {} THEN [Resting("select") EXCEPT !.port = TRUE]
            ELSE [Resting("post") EXCEPT !.entry = Junk, !.at = 0]

Bind(s) ==
    /\ At(s, "bind")
    /\ task' = [task EXCEPT ![s] = Bound(s)]
    /\ UNCHANGED <<plan, stationVars, sysVars, clientVars, backlog, slot, events, web, main>>

Select(s) ==
    /\ At(s, "select")
    /\ LET ready == {c \in Clients : (unread[c] > 0 \/ peer[c] = "down")
                                     /\ \E i \in Slots : slot[s][i] = c}
       IN  /\ backlog # <<>> \/ ready # {}
           /\ task' = [task EXCEPT ![s].ready = ready, ![s].at = 1,
                                   ![s].pc = IF backlog # <<>> THEN "accept" ELSE "scan"]
    /\ UNCHANGED <<plan, stationVars, sysVars, clientVars, backlog, slot, events, web, main>>

(* The task has an event to add; `next' is the slot it goes on with, 0 if  *)
(* it leaves its loop.                                                     *)
Posting(s, e, next) == [task EXCEPT ![s].pc = "post", ![s].entry = e, ![s].at = next]

Free(s) == {i \in 1..plan.slots : slot[s][i] = NoClient}

(* The first free slot, or "Too many connections on port".                 *)
Accept(s) ==
    /\ At(s, "accept")
    /\ backlog' = Tail(backlog)
    /\ LET c == Head(backlog) IN
       IF Free(s) = {}
       THEN /\ task' = Posting(s, Junk, 0)
            /\ peer' = [peer EXCEPT ![c] = "dropped"]
            /\ UNCHANGED <<slot, home>>
       ELSE LET i == Min(Free(s)) IN
            /\ slot' = [slot EXCEPT ![s][i] = c]
            /\ home' = [home EXCEPT ![c] = <<s, i>>]
            /\ task' = Posting(s, Entry("Connected", i, c, FALSE), 1)
            /\ UNCHANGED peer
    /\ UNCHANGED <<plan, stationVars, sysVars, sent, unread, got, unseen, events, web, main>>

(* The next slot that select() has reported: what the client has sent so   *)
(* far, the end of its stream or an error.  The slot of the stream that    *)
(* has ended is closed after the event is added.  A request that is whole  *)
(* is valid, one that lacks its first half is not.                         *)
Reported(s) == {i \in Slots : i >= task[s].at /\ slot[s][i] \in task[s].ready}

Read(s) ==
    /\ At(s, "scan") /\ Reported(s) # {}
    /\ LET i == Min(Reported(s))
           c == slot[s][i]
       IN  IF unread[c] > 0
           THEN /\ \E valid \in BOOLEAN :
                      /\ unread[c] = 2 => valid
                      /\ valid => unread[c] = sent[c]
                      /\ task' = Posting(s, Entry("Data", i, c, valid), i + 1)
                      /\ unseen' = IF valid THEN unseen ELSE unseen \cup {c}
                /\ unread' = [unread EXCEPT ![c] = 0]
           ELSE /\ \/ task' = Posting(s, Entry("Disconnected", i, c, FALSE), i)
                   \/ /\ peer[c] = "down" /\ Len(events[s]) < MaxQueue
                      /\ task' = Posting(s, Entry("Error", i, c, FALSE), i + 1)
                /\ UNCHANGED <<unread, unseen>>
    /\ UNCHANGED <<plan, stationVars, sysVars, peer, sent, home, got, backlog, slot, events, web, main>>

ScanEnds(s) ==
    /\ At(s, "scan") /\ Reported(s) = {}
    /\ task' = [task EXCEPT ![s].pc = "select", ![s].ready = {}, ![s].at = 1]
    /\ UNCHANGED <<plan, stationVars, sysVars, clientVars, backlog, slot, events, web, main>>

(* addEvent, push_back again: the size is read and either written back at  *)
(* once or with the element.  On the Mac the mutex is held in between.     *)
Handling(s) == web = s /\ main.end > 0

PushBegins(s) ==
    /\ At(s, "post") /\ (plan.locked => ~Handling(s))
    /\ \/ /\ task' = [task EXCEPT ![s].pc = "push", ![s].size = Len(events[s])]
          /\ UNCHANGED events
       \/ /\ ~plan.locked
          /\ task' = [task EXCEPT ![s].pc = "element", ![s].size = Len(events[s])]
          /\ events' = [events EXCEPT ![s] = Append(@, Junk)]
    /\ UNCHANGED <<plan, stationVars, sysVars, clientVars, backlog, slot, web, main>>

Pushed(s) ==
    LET n == task[s].size IN
    IF At(s, "element")
    THEN [k \in DOMAIN events[s] |-> IF k = n + 1 THEN task[s].entry ELSE events[s][k]]
    ELSE [k \in 1..n |-> IF k <= Len(events[s]) THEN events[s][k] ELSE Junk] \o <<task[s].entry>>

Asks(e) == IF e.kind = "Data" THEN {e.of} ELSE {}

(* The element is written behind the size, or behind the loop.             *)
PushedUnseen(s) ==
    At(s, "element") /\ (Len(events[s]) <= task[s].size
                         \/ (Handling(s) /\ main.at > task[s].size + 1))

PushEnds(s) ==
    /\ At(s, "push") \/ At(s, "element")
    /\ events' = [events EXCEPT ![s] = Pushed(s)]
    /\ \E grows \in BOOLEAN :     \* a vector that grows moves, under the loop that walks it
          main' = [main EXCEPT !.moved = @ \/ (grows /\ Handling(s))]
    /\ LET e == task[s].entry IN
       /\ slot' = IF e.kind = "Disconnected" THEN [slot EXCEPT ![s][e.id] = NoClient] ELSE slot
       /\ unseen' = IF PushedUnseen(s) THEN unseen \cup Asks(e) ELSE unseen
    /\ task' = [task EXCEPT ![s].entry = Junk, ![s].size = 0,
                            ![s].pc = IF task[s].at = 0 THEN "exited" ELSE "scan"]
    /\ UNCHANGED <<plan, stationVars, sysVars, peer, sent, unread, home, got, backlog, web>>

TaskStep(s) ==
    Bind(s) \/ Select(s) \/ Accept(s) \/ Read(s) \/ ScanEnds(s) \/ PushBegins(s) \/ PushEnds(s)

-----------------------------------------------------------------------------
(* The main task: Application::runOneIteration. *)

(* SystemInterface::nextEvent takes the last event; pop_back lowers the    *)
(* size and then clears the element.                                       *)
NextEvent ==
    /\ main.pc = "idle" /\ list.size > 0
    /\ main' = [main EXCEPT !.pc = "size", !.at = list.size - 1, !.event = list.data[list.size]]
    /\ wifi' = [wifi EXCEPT !.alone = FALSE]
    /\ UNCHANGED <<plan, link, wifiQ, sysVars, clientVars, serverVars, web>>

PopSize ==
    /\ main.pc = "size"
    /\ list' = [list EXCEPT !.size = main.at]
    /\ main' = [main EXCEPT !.pc = "data"]
    /\ UNCHANGED <<plan, stationVars, due, clientVars, serverVars, web>>

(* The element is left as it is. *)
PopDataKeepsElement ==
    /\ main.pc = "data"
    /\ main' = [Idle EXCEPT !.pc = IF main.event = "None" THEN "through" ELSE "start"]
    /\ UNCHANGED <<plan, stationVars, sysVars, clientVars, serverVars, web>>

PopData ==
    /\ main.pc = "data"
    /\ list' = [list EXCEPT !.data[main.at + 1] = "None"]
    /\ main' = [Idle EXCEPT !.pc = IF main.event = "None" THEN "through" ELSE "start"]
    /\ UNCHANGED <<plan, stationVars, due, clientVars, serverVars, web>>

(* The list is cleared after the servers have been started. *)
StartAndClear ==
    /\ main.pc = "start"
    /\ web' = web + 1
    /\ task' = [task EXCEPT ![web + 1] = IF plan.locked THEN Bound(web + 1) ELSE Resting("bind")]
    /\ due' = (list.size > 0)
    /\ list' = [list EXCEPT !.size = 0]
    /\ main' = Idle
    /\ UNCHANGED <<plan, stationVars, clientVars, backlog, slot, events>>

(* startNetworkServers: another server, whose socket is opened by its task *)
(* on the ESP and at once on the Mac.                                      *)
StartNetworkServers ==
    /\ main.pc = "start"
    /\ web' = web + 1
    /\ task' = [task EXCEPT ![web + 1] = IF plan.locked THEN Bound(web + 1) ELSE Resting("bind")]
    /\ due' = FALSE
    /\ main' = Idle
    /\ UNCHANGED <<plan, stationVars, list, clientVars, backlog, slot, events>>

(* nextEvent() has said None: the list is empty, or an element that had    *)
(* been cleared was taken from it.                                         *)
NoEvent == main.pc = "through" \/ (main.pc = "idle" /\ list.size = 0)

(* TCP::handleEvents: the end of the list is read once.                    *)
HandleEvents ==
    /\ NoEvent /\ web # 0
    /\ events[web] # <<>> /\ (plan.locked => ~At(web, "push"))
    /\ main' = [Idle EXCEPT !.pc = "handling", !.at = 1, !.end = Len(events[web])]
    /\ UNCHANGED <<plan, stationVars, sysVars, clientVars, serverVars, web>>

HandleNothing ==
    /\ main.pc = "through" /\ (web # 0 => events[web] = <<>>)
    /\ main' = Idle
    /\ UNCHANGED <<plan, stationVars, sysVars, clientVars, serverVars, web>>

InHandler == main.pc = "handling" /\ main.at <= main.end
Current == events[web][main.at]

(* Every other event is passed over. *)
NextButOne == [main EXCEPT !.pc = "handling", !.at = @ + 2, !.back = "idle"]

NextEntry == [main EXCEPT !.pc = "handling", !.at = @ + 1, !.back = "idle"]

(* HTTPServer's handler: a valid request that names something that is      *)
(* there is answered, an error drops the connection.                       *)
IsAnswered(e) == e.kind = "Data" /\ e.valid /\ e.of \notin Missing

PassEvent ==
    /\ InHandler /\ ~IsAnswered(Current)
    /\ ~(Current.kind = "Error" /\ Current.id # 0)
    /\ main' = NextEntry
    /\ UNCHANGED <<plan, stationVars, sysVars, clientVars, serverVars, web>>

ErrorEvent ==
    /\ InHandler /\ Current.kind = "Error" /\ Current.id # 0
    /\ main' = [main EXCEPT !.pc = "drop", !.back = "handling"]
    /\ UNCHANGED <<plan, stationVars, sysVars, clientVars, serverVars, web>>

(* The list has moved: what is read is still there, junk, or the end of it *)
(* all.                                                                    *)
Astray ==
    /\ InHandler /\ main.moved
    /\ \/ main' = NextEntry
       \/ main' = [Idle EXCEPT !.pc = "crashed"]
    /\ unseen' = unseen \cup Asks(Current)
    /\ UNCHANGED <<plan, stationVars, sysVars, peer, sent, unread, home, got, serverVars, web>>

(* The answer goes to the first slot, whatever the connection is. *)
SendToFirst(part, then) ==
    LET c == slot[web][1] IN
    /\ \/ /\ c # NoClient
          /\ got' = [got EXCEPT ![c] = @ \cup {[of |-> Current.of, part |-> part]}]
          /\ main' = then
       \/ /\ c \notin {d \in Clients : peer[d] # "down"}
          /\ main' = [then EXCEPT !.pc = "drop", !.back = then.pc]
          /\ UNCHANGED got
    /\ UNCHANGED <<plan, stationVars, sysVars, peer, sent, unread, home, unseen, serverVars, web>>

(* The answer goes to whoever has the slot now; a send to nobody fails,    *)
(* one to a client that has hung up may.                                   *)
Send(part, then) ==
    LET c == slot[web][Current.id] IN
    /\ \/ /\ c # NoClient
          /\ got' = [got EXCEPT ![c] = @ \cup {[of |-> Current.of, part |-> part]}]
          /\ main' = then
       \/ /\ c \notin {d \in Clients : peer[d] # "down"}
          /\ main' = [then EXCEPT !.pc = "drop", !.back = then.pc]
          /\ UNCHANGED got
    /\ UNCHANGED <<plan, stationVars, sysVars, peer, sent, unread, home, unseen, serverVars, web>>

SendHeader == InHandler /\ IsAnswered(Current) /\ Send("header", [main EXCEPT !.pc = "body"])
SendBody   == main.pc = "body" /\ Send("body", [main EXCEPT !.pc = "done"])

(* The connection is dropped when the answer has been sent. *)
DoneAndDrop ==
    /\ main.pc = "done"
    /\ main' = [main EXCEPT !.pc = "drop", !.back = "handling"]
    /\ UNCHANGED <<plan, stationVars, sysVars, clientVars, serverVars, web>>

Done ==
    /\ main.pc = "done"
    /\ main' = NextEntry
    /\ UNCHANGED <<plan, stationVars, sysVars, clientVars, serverVars, web>>

(* disconnect() of the event's slot.  On the Mac it then waits for the     *)
(* mutex that handleEvents holds.                                          *)
Drop ==
    /\ main.pc = "drop"
    /\ LET i == Current.id
           c == slot[web][i]
       IN  /\ slot' = [slot EXCEPT ![web][i] = NoClient]
           /\ peer' = IF c # NoClient /\ peer[c] = "up" THEN [peer EXCEPT ![c] = "dropped"] ELSE peer
           /\ IF plan.locked
              THEN main' = [main EXCEPT !.pc = "blocked"] /\ UNCHANGED events
              ELSE /\ events' = [events EXCEPT ![web] = Append(@, Entry("Disconnected", i, NoClient, FALSE))]
                   /\ \E grows \in BOOLEAN :
                        main' = [main EXCEPT !.moved = @ \/ grows, !.back = "idle",
                                             !.at = IF main.back = "handling" THEN @ + 1 ELSE @,
                                             !.pc = main.back]
    /\ UNCHANGED <<plan, stationVars, sysVars, sent, unread, home, got, unseen, backlog, task, web>>

(* The list is cleared, with what has come since the loop began.           *)
HandledAll ==
    /\ main.pc = "handling" /\ main.at > main.end
    /\ unseen' = unseen \cup UNION {Asks(events[web][k]) : k \in (main.end + 1)..Len(events[web])}
    /\ events' = [events EXCEPT ![web] = <<>>]
    /\ main' = Idle
    /\ UNCHANGED <<plan, stationVars, sysVars, peer, sent, unread, home, got, backlog, task, slot, web>>

MainStep ==
    \/ NextEvent \/ PopSize \/ PopData \/ StartNetworkServers
    \/ HandleEvents \/ HandleNothing \/ PassEvent \/ ErrorEvent \/ Astray
    \/ SendHeader \/ SendBody \/ Done \/ Drop \/ HandledAll

Next ==
    \/ Answers \/ Lose \/ Provision
    \/ WifiStep
    \/ \E c \in Clients : Dial(c) \/ Ask(c) \/ HangUp(c)
    \/ \E s \in Servers : TaskStep(s)
    \/ MainStep

(* Every task runs and the radio answers; neither the clients nor the      *)
(* phone need do anything.                                                 *)
Spec ==
    /\ Init /\ [][Next]_vars
    /\ WF_vars(Answers) /\ WF_vars(WifiStep) /\ WF_vars(MainStep)
    /\ \A s \in Servers : WF_vars(TaskStep(s))

-----------------------------------------------------------------------------
(* A response goes to the slot its request came from: it reaches the       *)
(* client that asked, unless that client had hung up and another has got   *)
(* its slot since (HTTPServer's handler, TCP::send).                       *)
AnswersGoHome ==
    \A c \in Clients : \A a \in got[c] :
        a.of = c \/ (home[a.of] = home[c] /\ peer[a.of] # "up")

(* The main task waits for its own mutex only after a client has hung up   *)
(* with a request or an error of its slot under way (disconnect() inside   *)
(* HTTPServer's handler, MacTCP::handleEvents).                            *)
BlocksOnHangUp ==
    main.pc = "blocked" =>
        plan.locked /\ \E c \in Clients : peer[c] = "down" /\ home[c] = <<web, Current.id>>

(* The servers are started at most once for each address the station is    *)
(* announced, once on the Mac: no event of the list is taken twice,        *)
(* although an element is cleared only after the size has been lowered and *)
(* another may come in between (addEvent, nextEvent).                      *)
OneStartPerAddress == web <= IF plan.locked THEN 1 ELSE wifi.addresses

(* A station that is not connected gets an address again or, when the      *)
(* tries of its life are used up, a configuration task is started          *)
(* (RtosWifi::eventHandler).                                               *)
StationReturns == link = "idle" /\ ~plan.locked ~> link = "up" \/ wifi.config > 0

Stuck == main.pc \in {"blocked", "crashed"}

(* Every address the station announces is followed by a start of the       *)
(* servers, although the list of events is not locked and the last event   *)
(* is taken first (addEvent, nextEvent): an event that is overwritten is   *)
(* one that comes while another is taken.                                  *)
AddressStartsServers == due ~> ~due \/ Stuck

(* A request is answered, unless one of the things happens that the code   *)
(* does not look after: a half without the line was read, or an event was  *)
(* cleared unseen; the client has hung up, or its connection was dropped   *)
(* (no slot was free for it, or a send or an error of the client that had  *)
(* its slot before it failed); the TCP task has left its loop; the network *)
(* was started again, and the application holds a server that could not    *)
(* bind; the main task waits for itself or went astray in a list that      *)
(* moved.                                                                  *)
Excused(c) ==
    \/ c \in unseen \/ peer[c] # "up"
    \/ \E s \in Servers : task[s].pc = "exited"
    \/ web > 1
    \/ Stuck

RequestIsAnswered ==
    \A c \in Clients \ Missing :
        peer[c] = "up" /\ sent[c] = 2 ~>
            {a.part : a \in got[c]} = {"header", "body"} \/ Excused(c)
=============================================================================
