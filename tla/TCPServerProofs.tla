--------------------------- MODULE TCPServerProofs ---------------------------
(***************************************************************************)
(* What TLAPS proves of TCPServer for every set of clients and every       *)
(* number of slots, as long as no connection ends from both sides.         *)
(***************************************************************************)
EXTENDS TCPServer, Integers, SequenceTheorems, FiniteSetTheorems, WellFoundedInduction, TLAPS

(* A set of numbers has a least element, which is how an induction over    *)
(* numbers is written here: the least counterexample has none before it.   *)
LEMMA LeastElement ==
    ASSUME NEW S \in SUBSET Nat, S # {}
    PROVE  \E x \in S : \A y \in S : x <= y
<1> DEFINE upTo == {1..x : x \in S}
<1>1. upTo \subseteq FiniteSubsetsOf(Nat) /\ upTo # {}
  <2>1. ASSUME NEW x \in S PROVE 1..x \in SUBSET Nat /\ IsFiniteSet(1..x)
    BY FS_Interval
  <2> QED BY <2>1 DEF FiniteSubsetsOf
<1>2. PICK T \in upTo : \A U \in upTo : ~(<<U, T>> \in StrictSubsetOrdering(Nat))
  BY <1>1, FS_StrictSubsetOrderingWellFounded, WFMin, Zenon
<1>3. PICK x \in S : T = 1..x
  OBVIOUS
<1>4. ASSUME NEW y \in S, y < x PROVE FALSE
  <2>1. 1..y \subseteq 1..x /\ x \in 1..x /\ x \notin 1..y /\ 1..y \in upTo
    BY <1>4
  <2>2. <<1..y, 1..x>> \in StrictSubsetOrdering(Nat)
    BY <2>1 DEF StrictSubsetOrdering
  <2> QED BY <1>2, <1>3, <2>1, <2>2
<1>5. \A y \in S : x <= y
  BY <1>4
<1> QED BY <1>5

(* The least element of a set is one of its elements.                      *)
LEMMA MinIsElement ==
    ASSUME NEW S \in SUBSET Nat, S # {}
    PROVE  Min(S) \in S
BY LeastElement DEF Min

-----------------------------------------------------------------------------
(* No client hangs up whose task may finish by itself: a slot is cleared   *)
(* and closed by one of the two threads only.                              *)
EndsFromOneSide == Finishing \cap HangingUp = {}

-----------------------------------------------------------------------------
(* The values of the variables, and where the threads' indices point.      *)
ServerPlaces == {"select", "accept", "scan", "post", "close", "zero", "exited"}
MainPlaces == {"idle", "handling", "clear", "close", "post", "reset"}
Disconnecting == main.pc \in {"clear", "close"}

ServerType == [pc : ServerPlaces, listen : BOOLEAN, ready : SUBSET FDs,
               at : 0..(MaxConnections + 1), event : Events]
MainType == [pc : MainPlaces, at : Nat, id : Slots \cup {0}, fd : FDs \cup {0}]

TypeOK ==
    /\ peer \in [Conns -> {"away", "up", "said", "down"}]
    /\ backlog \in Seq(Conns)
    /\ unread \subseteq Conns
    /\ file \in [FDs -> Conns \cup {NoConn}]
    /\ slot \in [Slots -> FDs \cup {0}]
    /\ events \in Seq(Events)
    /\ server \in ServerType
    /\ main \in MainType
    /\ task \in [Slots -> Conns \cup {NoConn}]
    /\ home \in [Conns -> Slots]
    /\ live \subseteq Conns

Indices ==
    /\ server.pc = "scan" => server.at # 0
    /\ server.pc \in {"post", "close", "zero"} => server.at \in Slots
    /\ server.pc = "accept" => server.at = 1
    /\ server.pc = "accept" /\ server.listen => backlog # <<>>
    /\ main.pc = "handling" => main.at \in 1..(Len(events) + 1)
    /\ main.pc \in {"clear", "close", "post", "reset"} => main.id \in Slots
    /\ Disconnecting => main.fd \in FDs

(* Each connection has one descriptor, each open descriptor one slot or    *)
(* the main thread that is about to close it.                              *)
Waits(c) == \E k \in DOMAIN backlog : backlog[k] = c

Sockets ==
    /\ \A c \in Conns : peer[c] = "down" => c \in HangingUp
    /\ \A j, k \in DOMAIN backlog : backlog[j] = backlog[k] => j = k
    /\ \A c \in Known : peer[c] # "away"
    /\ \A fd \in FDs : ~Waits(file[fd])
    /\ \A fd, other \in FDs : file[fd] = file[other] /\ file[fd] # NoConn => fd = other
    /\ \A i, j \in Slots : slot[i] = slot[j] /\ slot[i] # 0 => i = j
    /\ \A i \in Slots : slot[i] # 0 =>
          (file[slot[i]] = NoConn <=> server.pc = "zero" /\ server.at = i)
    /\ \A fd \in FDs : file[fd] # NoConn =>
          \/ \E i \in Slots : slot[i] = fd
          \/ main.pc = "close" /\ main.fd = fd
    /\ server.pc \in {"close", "zero"} => slot[server.at] # 0
    /\ server.pc = "close" => peer[file[slot[server.at]]] = "down"
    /\ main.pc = "clear" => slot[main.id] = main.fd
    /\ main.pc = "close" => \A i \in Slots : slot[i] # main.fd
    /\ Disconnecting => file[main.fd] \in Finishing

-----------------------------------------------------------------------------
(* The events that have not been handled, by their places in the queue,    *)
(* and the one the server thread is about to post.                         *)
Pending == (IF main.pc = "handling" THEN main.at ELSE 1)..Len(events)

Announces(e, c) == e.kind = "Connected" /\ e.conn = c
Announced(c) ==
    \/ server.pc = "post" /\ Announces(server.event, c)
    \/ \E k \in Pending : Announces(events[k], c)

(* The event is about a connection and belongs to its slot.                *)
Posted ==
    server.pc = "post" =>
        /\ server.event.id = server.at
        /\ server.event.conn \in Conns
        /\ server.event.kind \in {"Connected", "Disconnected"} =>
              /\ slot[server.at] # 0
              /\ file[slot[server.at]] = server.event.conn
        /\ server.event.kind = "Disconnected" => peer[server.event.conn] = "down"

(* d has finished, disconnect() has closed its socket of slot i.           *)
Gone(d, i) ==
    /\ d \in Finishing /\ peer[d] # "away" /\ d \notin Known
    /\ home[d] = i /\ d \notin live /\ ~Announced(d)

(* A connection is announced once, and before it has a task.               *)
Announcements ==
    /\ \A j, k \in Pending : events[j].kind = "Connected" /\ events[k].kind = "Connected"
                             /\ events[j].conn = events[k].conn => j = k
    /\ server.pc = "post" /\ server.event.kind = "Connected" =>
          \A k \in Pending : ~Announces(events[k], server.event.conn)
    /\ \A c \in Conns : Announced(c) => c \notin live /\ \A i \in Slots : task[i] # c
    /\ \A c \in Conns : Announced(c) \/ c \in live \/ (\E i \in Slots : task[i] = c)
                        => peer[c] # "away" /\ ~Waits(c)

(* A task finds its connection in the slot it was announced for, until it  *)
(* finishes.                                                               *)
Homes ==
    /\ \A i \in Slots : task[i] # NoConn => home[task[i]] = i
    /\ \A c \in live \cap Finishing : slot[home[c]] # 0 /\ file[slot[home[c]]] = c
    /\ \A k \in Pending : events[k].kind = "Connected" /\ events[k].conn \in Finishing =>
          slot[events[k].id] # 0 /\ file[slot[events[k].id]] = events[k].conn
    /\ Disconnecting =>
          LET d == file[main.fd] IN home[d] = main.id /\ d \notin live /\ ~Announced(d)

(* Who is behind an event that ends the task of a slot.                    *)
Endings ==
    /\ main.pc = "post" => \E d \in Conns : Gone(d, main.id)
    /\ \A k \in Pending : events[k].kind = "Disconnected" =>
          IF events[k].conn = NoConn THEN \E d \in Conns : Gone(d, events[k].id)
                                     ELSE peer[events[k].conn] = "down"

-----------------------------------------------------------------------------
(* At place n of the queue slot i has the task of c or none: it has it     *)
(* already, or the last connection announced for i before n is c.          *)
Leads(i, c, n) ==
    /\ \/ task[i] \in {NoConn, c}
       \/ \E m \in Pending : m < n /\ events[m].id = i /\ Announces(events[m], c)
    /\ \A j \in Pending : j < n /\ events[j].id = i /\ events[j].kind = "Connected" =>
          \/ events[j].conn = c
          \/ \E m \in Pending : j < m /\ m < n /\ events[m].id = i /\ Announces(events[m], c)

Order ==
    /\ \A k \in Pending : events[k].kind # "Connected" /\ events[k].conn # NoConn =>
          Leads(events[k].id, events[k].conn, k)
    /\ \A k \in Pending : events[k].kind # "Disconnected" => events[k].conn \in Conns
    /\ server.pc = "post" /\ server.event.kind # "Connected" =>
          Leads(server.event.id, server.event.conn, Len(events) + 1)
    /\ \A i \in Slots :
          slot[i] # 0 /\ file[slot[i]] # NoConn
          /\ ~(server.pc = "post" /\ server.event.kind = "Connected" /\ server.at = i) =>
              Leads(i, file[slot[i]], Len(events) + 1)

IInv == TypeOK /\ Indices /\ Sockets /\ Posted /\ Announcements /\ Homes /\ Endings /\ Order

-----------------------------------------------------------------------------
(* The free slot and the free descriptor that accept() finds.              *)
LEMMA FirstFreeIsFree ==
    ASSUME IInv, server.pc = "accept", FreeSlots # {}
    PROVE  /\ Min(FreeSlots) \in FreeSlots
           /\ Min(FreeFDs) \in FreeFDs
<1>1. MaxConnections \in Nat \ {0}
  BY ServerAssumption
<1>2. Min(FreeSlots) \in FreeSlots
  <2>1. FreeSlots \in SUBSET Nat
    BY <1>1 DEF FreeSlots, Slots
  <2> QED BY <2>1, MinIsElement
<1>3. FreeFDs # {}
  <2> SUFFICES ASSUME FreeFDs = {} PROVE FALSE
    OBVIOUS
  <2> PICK free \in FreeSlots : TRUE
    OBVIOUS
  <2> DEFINE of == [i \in Slots |-> IF i = free /\ main.fd \in FDs THEN main.fd
                                    ELSE IF slot[i] \in FDs THEN slot[i] ELSE 1]
  <2>1. of \in [Slots -> FDs]
    BY <1>1 DEF FDs
  <2>2. \A fd \in FDs : \E i \in Slots : of[i] = fd
    <3> SUFFICES ASSUME NEW fd \in FDs PROVE \E i \in Slots : of[i] = fd
      OBVIOUS
    <3>1. \/ \E i \in Slots : slot[i] = fd
          \/ main.fd = fd
      BY DEF IInv, Sockets, FreeFDs
    <3>2. CASE main.fd = fd
      BY <3>2 DEF FreeSlots
    <3>3. ASSUME NEW i \in Slots, slot[i] = fd PROVE of[i] = fd
      <4>1. i # free
        BY <1>1, <3>3 DEF FreeSlots, FDs
      <4> QED BY <3>3, <4>1
    <3> QED BY <3>1, <3>2, <3>3
  <2>3. of \in Surjection(Slots, FDs)
    BY <2>1, <2>2 DEF Surjection
  <2>4. /\ IsFiniteSet(Slots) /\ Cardinality(Slots) = MaxConnections
        /\ Cardinality(FDs) = MaxConnections + 1
    BY <1>1, FS_Interval DEF Slots, FDs
  <2>5. Cardinality(FDs) <= Cardinality(Slots)
    BY <2>3, <2>4, FS_Surjection
  <2> QED BY <1>1, <2>4, <2>5
<1>4. Min(FreeFDs) \in FreeFDs
  <2>1. FreeFDs \in SUBSET Nat
    BY <1>1 DEF FreeFDs, FDs
  <2> QED BY <1>3, <2>1, MinIsElement
<1> QED BY <1>2, <1>4

-----------------------------------------------------------------------------
(* The initial states, and the types.                                      *)
LEMMA EventFacts ==
    /\ \A kind \in {"Connected", "Disconnected", "ReceivedData"}, i \in Slots,
          c \in Conns \cup {NoConn} : [kind |-> kind, id |-> i, conn |-> c] \in Events
    /\ \A e \in Events : e.id \in Slots /\ e.conn \in Conns \cup {NoConn}
                         /\ e.kind \in {"Connected", "Disconnected", "ReceivedData"}
    /\ NoEvent \in Events
BY ServerAssumption DEF Events, NoEvent, Slots

LEMMA InitIInv == Init => IInv
<1> SUFFICES ASSUME Init PROVE IInv
  OBVIOUS
<1> USE DEF Init
<1>1. 1 \in Slots /\ MaxConnections \in Nat \ {0}
  BY ServerAssumption DEF Slots
<1>2. TypeOK /\ Indices
  BY <1>1, EventFacts, EmptySeq DEF TypeOK, Indices, ServerType, MainType, ServerPlaces, MainPlaces,
           Disconnecting
<1>3. Pending = {} /\ \A c \in Conns : ~Announced(c) /\ ~Waits(c)
  BY EmptySeq DEF Pending, Announced, Waits
<1>4. Sockets
  BY EmptySeq, ServerAssumption DEF Sockets, Known, Waits, Disconnecting
<1>5. Posted /\ Announcements /\ Homes /\ Endings /\ Order
  BY <1>3, ServerAssumption DEF Posted, Announcements, Homes, Endings, Order, Disconnecting
<1> QED BY <1>2, <1>4, <1>5 DEF IInv

(* Where each step leaves its thread.                                      *)
ServerGoes(pc, at) == server' \in ServerType /\ server'.pc = pc /\ server'.at = at
MainGoes(pc) == main' \in MainType /\ main'.pc = pc

LEMMA ServerMoves ==
    ASSUME IInv
    PROVE  /\ Select => ServerGoes("accept", 1) /\ (server'.listen => backlog # <<>>)
           /\ NoClient => ServerGoes("scan", 1)
           /\ Accept => /\ ServerGoes("post", Min(FreeSlots))
                        /\ server'.event = [kind |-> "Connected", id |-> Min(FreeSlots),
                                            conn |-> Head(backlog)]
           /\ Refuse => ServerGoes("exited", 1)
           /\ ScanEnds => ServerGoes("select", 0)
           /\ Pass => ServerGoes("scan", server.at + 1)
           /\ Read => /\ server.at \in Slots /\ slot[server.at] \in FDs
                      /\ \/ ServerGoes("scan", server.at + 1) /\ unread' = unread
                         \/ \E kind \in {"Disconnected", "ReceivedData"} :
                              LET c == file[slot[server.at]] IN
                              /\ c \in Conns /\ unread' \subseteq unread
                              /\ kind = "Disconnected" => peer[c] = "down"
                              /\ ServerGoes("post", server.at)
                              /\ server'.event = [kind |-> kind, id |-> server.at, conn |-> c]
           /\ Post => CASE server.event.kind = "Connected" -> ServerGoes("scan", 1)
                        [] server.event.kind = "ReceivedData" -> ServerGoes("scan", server.at + 1)
                        [] server.event.kind = "Disconnected" -> ServerGoes("close", server.at)
           /\ Close => ServerGoes("zero", server.at)
           /\ Zero => ServerGoes("scan", server.at + 1)
<1> USE DEF ServerGoes, At
<1>0. /\ MaxConnections \in Nat \ {0} /\ 1 \in Slots
      /\ server \in [pc : ServerPlaces, listen : BOOLEAN, ready : SUBSET FDs,
                     at : 0..(MaxConnections + 1), event : Events]
      /\ server.event.kind \in {"Connected", "Disconnected", "ReceivedData"}
      /\ server.pc = "scan" => server.at # 0
      /\ server.pc \in {"post", "close", "zero"} => server.at \in 1..MaxConnections
      /\ server.pc = "accept" => server.at = 1
      /\ server.pc = "accept" /\ server.listen => backlog # <<>>
      /\ \A at \in 1..MaxConnections : at + 1 \in 0..(MaxConnections + 1)
      /\ 0 \in 0..(MaxConnections + 1) /\ 1 \in 0..(MaxConnections + 1)
      /\ backlog \in Seq(Conns) /\ file \in [FDs -> Conns \cup {NoConn}]
      /\ slot \in [Slots -> FDs \cup {0}] /\ unread \subseteq Conns
  BY ServerAssumption, EventFacts DEF Slots, IInv, TypeOK, Indices, ServerType
<1> USE DEF ServerType
<1>1. ASSUME Select PROVE ServerGoes("accept", 1) /\ (server'.listen => backlog # <<>>)
  <2>1. PICK listen \in BOOLEAN, ready \in SUBSET FDs :
            /\ listen <=> backlog # <<>>
            /\ server' = [server EXCEPT !.pc = "accept", !.listen = listen,
                                        !.ready = ready, !.at = 1]
    <3> DEFINE nowListen == backlog # <<>>
               nowReady == {fd \in FDs : Readable(fd) /\ \E i \in Slots : slot[i] = fd}
    <3>1. nowListen \in BOOLEAN /\ nowReady \in SUBSET FDs
      OBVIOUS
    <3>2. server' = [server EXCEPT !.pc = "accept", !.listen = nowListen,
                                   !.ready = nowReady, !.at = 1]
      BY <1>1 DEF Select
    <3> QED BY <3>1, <3>2, Zenon
  <2> QED BY <1>0, <2>1 DEF ServerPlaces
<1>2. NoClient => ServerGoes("scan", 1)
  BY <1>0 DEF NoClient, ServerPlaces
<1>3. ASSUME Accept
      PROVE  /\ ServerGoes("post", Min(FreeSlots))
             /\ server'.event = [kind |-> "Connected", id |-> Min(FreeSlots),
                                 conn |-> Head(backlog)]
  <2>1. Min(FreeSlots) \in Slots /\ Head(backlog) \in Conns
    BY <1>0, <1>3, FirstFreeIsFree, HeadTailProperties DEF Accept, FreeSlots
  <2>2. [kind |-> "Connected", id |-> Min(FreeSlots), conn |-> Head(backlog)] \in Events
    BY <2>1, EventFacts
  <2>3. /\ server' = [server EXCEPT !.pc = "post", !.at = Min(FreeSlots),
                           !.event = [kind |-> "Connected", id |-> Min(FreeSlots),
                                      conn |-> Head(backlog)]]
        /\ Min(FreeSlots) \in 0..(MaxConnections + 1)
    BY <1>0, <1>3, <2>1 DEF Accept, Posting, Slots
  <2> QED BY <1>0, <2>2, <2>3 DEF ServerPlaces
<1>4. Refuse => ServerGoes("exited", 1)
  BY <1>0 DEF Refuse, ServerPlaces
<1>5. ScanEnds => ServerGoes("select", 0)
  BY <1>0 DEF ScanEnds, ServerPlaces
<1>6. Pass => ServerGoes("scan", server.at + 1)
  BY <1>0 DEF Pass, ServerPlaces
<1>7. ASSUME Read
      PROVE  /\ server.at \in Slots /\ slot[server.at] \in FDs
             /\ \/ ServerGoes("scan", server.at + 1) /\ unread' = unread
                \/ \E kind \in {"Disconnected", "ReceivedData"} :
                     LET c == file[slot[server.at]] IN
                     /\ c \in Conns /\ unread' \subseteq unread
                     /\ kind = "Disconnected" => peer[c] = "down"
                     /\ ServerGoes("post", server.at)
                     /\ server'.event = [kind |-> kind, id |-> server.at, conn |-> c]
  <2> DEFINE c == file[slot[server.at]]
  <2>1. server.at \in Slots /\ slot[server.at] \in FDs
    BY <1>0, <1>7 DEF Read, Reported, Slots, FDs
  <2>2. CASE c = NoConn /\ server' = [server EXCEPT !.at = @ + 1] /\ unread' = unread
    <3>1. ServerGoes("scan", server.at + 1)
      BY <1>0, <1>7, <2>1, <2>2 DEF Read, Slots, ServerPlaces
    <3> QED BY <2>1, <2>2, <3>1
  <2>3. ASSUME NEW kind \in {"Disconnected", "ReceivedData"}, c \in Conns,
               server' = Posting(kind, server.at, c)
        PROVE  /\ ServerGoes("post", server.at)
               /\ server'.event = [kind |-> kind, id |-> server.at, conn |-> c]
    <3>1. [kind |-> kind, id |-> server.at, conn |-> c] \in Events
      BY <1>0, <2>1, <2>3, EventFacts
    <3> HIDE DEF c
    <3> QED BY <1>0, <2>1, <2>3, <3>1 DEF Posting, Slots, ServerPlaces
  <2>4. \/ c = NoConn /\ server' = [server EXCEPT !.at = @ + 1] /\ unread' = unread
        \/ \E kind \in {"Disconnected", "ReceivedData"} :
             /\ c \in Conns /\ server' = Posting(kind, server.at, c)
             /\ unread' \subseteq unread
             /\ kind = "Disconnected" => peer[c] = "down"
    BY <1>0, <1>7 DEF Read
  <2> HIDE DEF c, ServerGoes
  <2>6. ASSUME NEW kind \in {"Disconnected", "ReceivedData"},
               c \in Conns, server' = Posting(kind, server.at, c), unread' \subseteq unread,
               kind = "Disconnected" => peer[c] = "down"
        PROVE  /\ c \in Conns /\ unread' \subseteq unread
               /\ kind = "Disconnected" => peer[c] = "down"
               /\ ServerGoes("post", server.at)
               /\ server'.event = [kind |-> kind, id |-> server.at, conn |-> c]
    BY <2>3, <2>6
  <2> QED BY <2>1, <2>2, <2>4, <2>6, Zenon DEF c
<1>8. ASSUME Post
      PROVE  CASE server.event.kind = "Connected" -> ServerGoes("scan", 1)
               [] server.event.kind = "ReceivedData" -> ServerGoes("scan", server.at + 1)
               [] server.event.kind = "Disconnected" -> ServerGoes("close", server.at)
  <2>1. CASE server.event.kind = "Connected"
    BY <1>0, <1>8, <2>1, EventFacts DEF Post, ServerPlaces
  <2>2. CASE server.event.kind = "ReceivedData"
    BY <1>0, <1>8, <2>2, EventFacts DEF Post, ServerPlaces, Slots
  <2>3. CASE server.event.kind = "Disconnected"
    BY <1>0, <1>8, <2>3, EventFacts DEF Post, ServerPlaces
  <2> QED BY <1>0, <2>1, <2>2, <2>3
<1>9. Close => ServerGoes("zero", server.at)
  BY <1>0 DEF Close, ServerPlaces
<1>10. Zero => ServerGoes("scan", server.at + 1)
  BY <1>0 DEF Zero, ServerPlaces, Slots
<1> QED BY <1>1, <1>2, <1>3, <1>4, <1>5, <1>6, <1>7, <1>8, <1>9, <1>10

LEMMA MainMoves ==
    ASSUME IInv
    PROVE  /\ HandleEvents => MainGoes("handling") /\ main'.at = 1
           /\ Connected \/ Disconnected \/ ReceivedData =>
                /\ main.pc = "handling" /\ main.at \in 1..Len(events) /\ Current \in Events
                /\ MainGoes("handling") /\ main'.at = main.at + 1
           /\ HandledAll \/ ResetTask => MainGoes("idle")
           /\ \A c \in Finishing : Finish(c) =>
                MainGoes("clear") /\ main'.id = home[c] /\ main'.fd = slot[home[c]]
           /\ ClearSlot => MainGoes("close") /\ main'.id = main.id /\ main'.fd = main.fd
           /\ CloseSocket => MainGoes("post") /\ main'.id = main.id
           /\ PostDisconnected => MainGoes("reset") /\ main'.id = main.id
<1> USE DEF MainGoes
<1>0. /\ Len(events) \in Nat
      /\ \A k \in 1..Len(events) : events[k] \in Events
      /\ main \in [pc : MainPlaces, at : Nat, id : Slots \cup {0}, fd : FDs \cup {0}]
      /\ main.pc = "handling" => main.at \in 1..(Len(events) + 1)
      /\ main.pc \in {"clear", "close", "post", "reset"} => main.id \in Slots
      /\ 0 \in Nat /\ 1 \in Nat /\ 0 \in Slots \cup {0} /\ 0 \in FDs \cup {0}
  BY LenProperties DEF IInv, TypeOK, Indices, MainType
<1> USE <1>0 DEF MainType, MainPlaces
<1>1. HandleEvents => MainGoes("handling") /\ main'.at = 1
  BY DEF HandleEvents
<1>2. ASSUME Connected \/ Disconnected \/ ReceivedData
      PROVE  /\ main.pc = "handling" /\ main.at \in 1..Len(events) /\ Current \in Events
             /\ MainGoes("handling") /\ main'.at = main.at + 1
  <2>1. main.pc = "handling" /\ main.at \in 1..Len(events) /\ Current \in Events
    BY <1>0, <1>2 DEF Connected, Disconnected, ReceivedData, Handling, Current
  <2>2. main' = [main EXCEPT !.at = @ + 1]
    BY <1>2 DEF Connected, Disconnected, ReceivedData
  <2> QED BY <2>1, <2>2
<1>3. HandledAll \/ ResetTask => MainGoes("idle")
  BY DEF HandledAll, ResetTask
<1>4. ASSUME NEW c \in Finishing, Finish(c)
      PROVE  MainGoes("clear") /\ main'.id = home[c] /\ main'.fd = slot[home[c]]
  <2>1. home[c] \in Slots /\ slot[home[c]] \in FDs \cup {0}
    BY ServerAssumption DEF IInv, TypeOK
  <2> QED BY <1>4, <2>1 DEF Finish
<1>5. ClearSlot => MainGoes("close") /\ main'.id = main.id /\ main'.fd = main.fd
  BY DEF ClearSlot
<1>6. CloseSocket => MainGoes("post") /\ main'.id = main.id
  BY DEF CloseSocket
<1>7. PostDisconnected => MainGoes("reset") /\ main'.id = main.id
  BY DEF PostDisconnected
<1> QED BY <1>1, <1>2, <1>3, <1>4, <1>5, <1>6, <1>7

LEMMA NextTypes == IInv /\ [Next]_vars => TypeOK' /\ Indices'
<1> SUFFICES ASSUME IInv, [Next]_vars PROVE TypeOK' /\ Indices'
  OBVIOUS
<1> USE DEF IInv, TypeOK, Indices, Disconnecting, netVars, ServerGoes, MainGoes
<1>0. /\ MaxConnections \in Nat \ {0} /\ 1 \in Slots
      /\ Len(events) \in Nat /\ DOMAIN events = 1..Len(events)
      /\ \A k \in 1..Len(events) : events[k] \in Events
      /\ \A at \in Slots : at + 1 # 0
  BY ServerAssumption, LenProperties DEF Slots
<1>1. ASSUME NEW c \in Conns, Connect(c) \/ Say(c) \/ HangUp(c) PROVE TypeOK' /\ Indices'
  <2>1. CASE Connect(c)
    <3>1. Append(backlog, c) \in Seq(Conns) /\ Append(backlog, c) # <<>>
      BY AppendProperties, EmptySeq
    <3> QED BY <2>1, <3>1 DEF Connect
  <2>2. CASE Say(c) \/ HangUp(c)
    BY <2>2 DEF Say, HangUp
  <2> QED BY <1>1, <2>1, <2>2
<1>2. ASSUME NEW c \in Finishing, Finish(c) PROVE TypeOK' /\ Indices'
  <2>1. c \in Conns /\ home[c] \in Slots /\ slot[home[c]] # 0
    BY <1>2, ServerAssumption DEF Finish, Homes
  <2> QED BY <1>2, <2>1, MainMoves DEF Finish
<1>3. CASE Select \/ NoClient \/ ScanEnds
  <2>1. /\ server' \in ServerType
        /\ \/ server'.pc = "accept" /\ server'.at = 1 /\ (server'.listen => backlog # <<>>)
           \/ server'.pc = "scan" /\ server'.at = 1
           \/ server'.pc = "select"
    BY <1>3, ServerMoves
  <2>2. UNCHANGED <<netVars, slot, events, main, task, home, live>>
    BY <1>3 DEF Select, NoClient, ScanEnds
  <2> QED BY <2>1, <2>2
<1>4. CASE Pass \/ Zero
  <2>1. server' \in ServerType /\ server'.pc = "scan" /\ server'.at # 0
    <3>1. server.at \in Slots
      BY <1>0, <1>4 DEF Pass, Zero, At, ServerType, Slots
    <3> QED BY <1>0, <1>4, <3>1, ServerMoves
  <2>2. UNCHANGED <<netVars, events, main, task, home, live>> /\ slot' \in [Slots -> FDs \cup {0}]
    BY <1>4 DEF Pass, Zero
  <2> QED BY <2>1, <2>2
<1>5. CASE Accept
  <2>1. Min(FreeSlots) \in Slots /\ Min(FreeFDs) \in FDs
    BY <1>5, FirstFreeIsFree DEF Accept, At, FreeSlots, FreeFDs
  <2>2. Head(backlog) \in Conns /\ Tail(backlog) \in Seq(Conns)
    BY <1>5, HeadTailProperties DEF Accept, At
  <2>3. server' \in ServerType /\ server'.pc = "post" /\ server'.at = Min(FreeSlots)
    BY <1>5, ServerMoves
  <2> QED BY <1>5, <2>1, <2>2, <2>3 DEF Accept
<1>6. CASE Refuse
  <2>2. Tail(backlog) \in Seq(Conns)
    BY <1>6, HeadTailProperties DEF Refuse, At
  <2> QED BY <1>6, <2>2, ServerMoves DEF Refuse
<1>7. CASE Read
  BY <1>0, <1>7, ServerMoves DEF Read
<1>8. CASE Post
  <2>1. /\ server.event \in Events
        /\ server.event.kind \in {"Connected", "Disconnected", "ReceivedData"}
        /\ server.at \in Slots
        /\ main.pc # "handling"
    BY <1>8, EventFacts DEF ServerType, Post, At, Unlocked
  <2>2. events' \in Seq(Events)
    BY <1>8, <2>1, AppendProperties DEF Post
  <2>3. /\ server' \in ServerType
        /\ \/ server'.pc = "scan" /\ server'.at # 0
           \/ server'.pc = "close" /\ server'.at = server.at
    <3>1. CASE server.event.kind = "Connected"
      BY <1>8, <3>1, ServerMoves
    <3>2. CASE server.event.kind = "ReceivedData"
      BY <1>0, <1>8, <2>1, <3>2, ServerMoves
    <3>3. CASE server.event.kind = "Disconnected"
      BY <1>8, <3>3, ServerMoves
    <3> QED BY <2>1, <3>1, <3>2, <3>3
  <2> QED BY <1>8, <2>1, <2>2, <2>3 DEF Post
<1>9. CASE Close
  BY <1>9, ServerMoves DEF Close, Closed, At
<1>10. CASE HandleEvents
  BY <1>0, <1>10, MainMoves DEF HandleEvents
<1>11. CASE Connected \/ Disconnected \/ ReceivedData
  <2>1. Current \in Events /\ main.at \in 1..Len(events) /\ main.pc = "handling"
    BY <1>11, MainMoves
  <2>2. Current.id \in Slots /\ Current.conn \in Conns \cup {NoConn}
    BY <2>1, EventFacts
  <2>3. Current.kind = "Connected" => Current.conn \in Conns
    BY <1>0, <2>1 DEF Order, Pending, Current
  <2>4. main' \in MainType /\ main'.pc = "handling" /\ main'.at \in 1..(Len(events) + 1)
    BY <1>0, <1>11, <2>1, MainMoves
  <2>5. CASE Connected
    BY <2>1, <2>2, <2>3, <2>4, <2>5 DEF Connected
  <2>6. CASE Disconnected
    BY <2>1, <2>2, <2>4, <2>6 DEF Disconnected
  <2>7. CASE ReceivedData
    BY <2>1, <2>4, <2>7 DEF ReceivedData
  <2> QED BY <1>11, <2>5, <2>6, <2>7
<1>12. CASE HandledAll
  BY <1>12, EmptySeq, MainMoves DEF HandledAll
<1>13. CASE ClearSlot
  BY <1>13, MainMoves DEF ClearSlot
<1>14. CASE CloseSocket
  BY <1>14, MainMoves DEF CloseSocket, Closed
<1>15. CASE PostDisconnected
  <2>1. [kind |-> "Disconnected", id |-> main.id, conn |-> NoConn] \in Events
    BY <1>15, EventFacts DEF PostDisconnected
  <2>2. events' \in Seq(Events)
    BY <1>15, <2>1, AppendProperties DEF PostDisconnected
  <2> QED BY <1>15, <2>2, MainMoves DEF PostDisconnected
<1>16. CASE ResetTask
  BY <1>16, MainMoves DEF ResetTask
<1>17. CASE UNCHANGED vars
  BY <1>17 DEF vars
<1> QED
  BY <1>1, <1>2, <1>3, <1>4, <1>5, <1>6, <1>7, <1>8, <1>9, <1>10, <1>11, <1>12, <1>13,
     <1>14, <1>15, <1>16, <1>17 DEF Next, ServerStep, MainStep

-----------------------------------------------------------------------------
(* The clients that wait for accept(), and those the host knows.           *)
LEMMA BacklogGrows ==
    ASSUME backlog \in Seq(Conns), NEW c \in Conns, backlog' = Append(backlog, c), ~Waits(c),
           \A j, k \in DOMAIN backlog : backlog[j] = backlog[k] => j = k
    PROVE  /\ \A j, k \in DOMAIN backlog' : backlog'[j] = backlog'[k] => j = k
           /\ \A d : Waits(d)' <=> Waits(d) \/ d = c
<1>1. /\ Len(backlog) \in Nat /\ DOMAIN backlog = 1..Len(backlog)
      /\ DOMAIN backlog' = 1..(Len(backlog) + 1)
      /\ \A k \in 1..Len(backlog) : backlog'[k] = backlog[k]
      /\ backlog'[Len(backlog) + 1] = c
  BY LenProperties, AppendProperties
<1> QED BY <1>1 DEF Waits

LEMMA BacklogShrinks ==
    ASSUME backlog \in Seq(Conns), backlog # <<>>, backlog' = Tail(backlog),
           \A j, k \in DOMAIN backlog : backlog[j] = backlog[k] => j = k
    PROVE  /\ \A j, k \in DOMAIN backlog' : backlog'[j] = backlog'[k] => j = k
           /\ \A d : Waits(d)' <=> Waits(d) /\ d # Head(backlog)
           /\ Waits(Head(backlog))
<1>1. /\ Len(backlog) \in Nat \ {0} /\ DOMAIN backlog = 1..Len(backlog)
      /\ DOMAIN backlog' = 1..(Len(backlog) - 1)
      /\ \A k \in 1..(Len(backlog) - 1) : backlog'[k] = backlog[k + 1]
      /\ backlog[1] = Head(backlog)
  BY LenProperties, HeadTailProperties, EmptySeq
<1>2. \A k \in 2..Len(backlog) : k - 1 \in 1..(Len(backlog) - 1) /\ backlog'[k - 1] = backlog[k]
  BY <1>1
<1>3. \A d : Waits(d) <=> d = Head(backlog) \/ \E k \in 2..Len(backlog) : backlog[k] = d
  BY <1>1 DEF Waits
<1>4. \A k \in 2..Len(backlog) : backlog[k] # Head(backlog)
  BY <1>1
<1>5. \A d : Waits(d)' <=> \E k \in 2..Len(backlog) : backlog[k] = d
  <2>1. \A k \in 1..(Len(backlog) - 1) : k + 1 \in 2..Len(backlog)
    BY <1>1
  <2>2. ASSUME NEW d, NEW k \in DOMAIN backlog', backlog'[k] = d
        PROVE  \E j \in 2..Len(backlog) : backlog[j] = d
    BY <1>1, <2>1, <2>2
  <2>3. ASSUME NEW d, NEW k \in 2..Len(backlog), backlog[k] = d
        PROVE  \E j \in DOMAIN backlog' : backlog'[j] = d
    BY <1>1, <1>2, <2>3
  <2> QED BY <2>2, <2>3 DEF Waits
<1> QED BY <1>1, <1>3, <1>4, <1>5

LEMMA KnownMeans ==
    /\ \A c : c \in Known <=> c \in Conns /\ (Waits(c) \/ \E fd \in FDs : file[fd] = c)
    /\ \A c : c \in Known' <=> c \in Conns /\ (Waits(c)' \/ \E fd \in FDs : file'[fd] = c)
BY DEF Known, Waits

LEMMA NextSockets == ASSUME EndsFromOneSide, IInv, [Next]_vars PROVE Sockets'
<1> USE DEF ServerGoes, MainGoes, Disconnecting, netVars
<1>0. /\ TypeOK /\ TypeOK' /\ Indices /\ Indices' /\ Sockets /\ Posted /\ Announcements /\ Homes
      /\ MaxConnections \in Nat \ {0} /\ NoConn \notin Conns /\ 0 \notin FDs
      /\ Finishing \subseteq Conns
  BY NextTypes, ServerAssumption DEF IInv, FDs
<1>1. ASSUME NEW c \in Conns, Connect(c) PROVE Sockets'
  <2>1. ~Waits(c) /\ \A fd \in FDs : file[fd] # c
    BY <1>0, <1>1, KnownMeans DEF Connect, Sockets
  <2>2. /\ \A j, k \in DOMAIN backlog' : backlog'[j] = backlog'[k] => j = k
        /\ \A d : Waits(d)' <=> Waits(d) \/ d = c
    BY <1>0, <1>1, <2>1, BacklogGrows DEF Connect, Sockets, TypeOK
  <2>3. UNCHANGED <<file, slot, server, main>> /\ peer' = [peer EXCEPT ![c] = "up"]
    BY <1>1 DEF Connect
  <2>4. \A d \in Known' : d = c \/ d \in Known
    BY <2>2, <2>3, KnownMeans
  <2>5. server.pc = "close" => file[slot[server.at]] # c
    BY <1>0, <2>1 DEF Sockets, TypeOK, Indices
  <2> QED BY <1>0, <2>1, <2>2, <2>3, <2>4, <2>5 DEF Sockets, TypeOK
<1>2. ASSUME NEW c \in Conns, Say(c) \/ HangUp(c) PROVE Sockets'
  <2>1. UNCHANGED <<backlog, file, slot, server, main>>
    BY <1>2 DEF Say, HangUp
  <2>2. /\ \A d \in Conns : peer'[d] = "down" => d \in HangingUp
        /\ \A d \in Conns : peer[d] # "away" => peer'[d] # "away"
        /\ \A d \in Conns : peer[d] = "down" => peer'[d] = "down"
    BY <1>0, <1>2 DEF Say, HangUp, Sockets, TypeOK
  <2>3. \A d : (Waits(d)' <=> Waits(d)) /\ (d \in Known' <=> d \in Known)
    BY <2>1 DEF Waits, Known
  <2>4. server.pc = "close" => file[slot[server.at]] \in Conns
    BY <1>0 DEF Sockets, TypeOK, Indices
  <2>5. Known \subseteq Conns
    BY DEF Known
  <2> QED BY <1>0, <2>1, <2>2, <2>3, <2>4, <2>5 DEF Sockets
<1>3. ASSUME NEW c \in Finishing, Finish(c) PROVE Sockets'
  <2>1. UNCHANGED <<peer, backlog, file, slot, server>>
        /\ main'.pc = "clear" /\ main'.id = home[c] /\ main'.fd = slot[home[c]] /\ main.pc = "idle"
    BY <1>3, MainMoves DEF Finish, IInv
  <2>2. file[slot[home[c]]] = c
    BY <1>0, <1>3 DEF Finish, Homes
  <2>3. \A d : (Waits(d)' <=> Waits(d)) /\ (d \in Known' <=> d \in Known)
    BY <2>1 DEF Waits, Known
  <2> QED BY <1>0, <2>1, <2>2, <2>3 DEF Sockets
<1>4. CASE Select \/ NoClient \/ ScanEnds \/ Pass \/ Read
  <2>1. /\ UNCHANGED <<peer, backlog, file, slot, main>>
        /\ server.pc \notin {"zero", "close"} /\ server'.pc \notin {"zero", "close"}
    BY <1>4, ServerMoves DEF Select, NoClient, ScanEnds, Pass, Read, At
  <2>3. \A d : (Waits(d)' <=> Waits(d)) /\ (d \in Known' <=> d \in Known)
    BY <2>1 DEF Waits, Known
  <2> QED BY <1>0, <2>1, <2>3 DEF Sockets
<1>5. CASE Accept
  <2> DEFINE c == Head(backlog)
             fd == Min(FreeFDs)
             i == Min(FreeSlots)
  <2>1. /\ backlog # <<>> /\ server.pc = "accept" /\ server'.pc = "post"
        /\ backlog' = Tail(backlog) /\ UNCHANGED <<peer, main>>
        /\ file' = [file EXCEPT ![fd] = c] /\ slot' = [slot EXCEPT ![i] = fd]
    BY <1>0, <1>5, ServerMoves DEF Accept, At, Indices, IInv
  <2>2. c \in Conns
    BY <1>0, <2>1, HeadTailProperties DEF TypeOK
  <2>3. /\ i \in Slots /\ slot[i] = 0 /\ fd \in FDs /\ file[fd] = NoConn
    BY <1>5, <2>1, FirstFreeIsFree DEF Accept, FreeSlots, FreeFDs
  <2> HIDE DEF c, fd, i
  <2>4. /\ \A j, k \in DOMAIN backlog' : backlog'[j] = backlog'[k] => j = k
        /\ \A d : Waits(d)' <=> Waits(d) /\ d # c
        /\ Waits(c)
    BY <1>0, <2>1, BacklogShrinks DEF Sockets, TypeOK, c
  <2>5. \A d \in Known' : d \in Known
    BY <1>0, <2>1, <2>2, <2>4, KnownMeans DEF TypeOK
  <2>6. /\ \A j \in Slots : slot[j] # fd
        /\ \A f \in FDs : file[f] # c
        /\ main.pc = "close" => main.fd # fd
        /\ main.pc = "clear" => main.fd # fd /\ main.id # i
    BY <1>0, <2>1, <2>2, <2>3, <2>4 DEF Sockets, Indices
  <2>7. /\ \A f \in FDs : file'[f] = IF f = fd THEN c ELSE file[f]
        /\ \A j \in Slots : slot'[j] = IF j = i THEN fd ELSE slot[j]
    BY <1>0, <2>1 DEF TypeOK
  <2>8. /\ (\A f \in FDs : ~Waits(file[f]))'
        /\ \A f, other \in FDs : file'[f] = file'[other] /\ file'[f] # NoConn => f = other
        /\ \A j, k \in Slots : slot'[j] = slot'[k] /\ slot'[j] # 0 => j = k
        /\ \A j \in Slots : slot'[j] # 0 => file'[slot'[j]] # NoConn
        /\ \A f \in FDs : file'[f] # NoConn =>
              \/ \E j \in Slots : slot'[j] = f
              \/ main.pc = "close" /\ main.fd = f
    BY <1>0, <2>1, <2>2, <2>3, <2>4, <2>6, <2>7 DEF Sockets, TypeOK
  <2> QED BY <1>0, <2>1, <2>2, <2>3, <2>4, <2>5, <2>6, <2>7, <2>8 DEF Sockets, Indices
<1>6. CASE Refuse
  <2>1. /\ backlog # <<>> /\ server.pc = "accept" /\ server'.pc = "exited"
        /\ backlog' = Tail(backlog) /\ UNCHANGED <<peer, main, file, slot>>
    BY <1>0, <1>6, ServerMoves DEF Refuse, At, Indices, IInv
  <2>2. /\ \A j, k \in DOMAIN backlog' : backlog'[j] = backlog'[k] => j = k
        /\ \A d : Waits(d)' => Waits(d)
    BY <1>0, <2>1, BacklogShrinks DEF Sockets, TypeOK
  <2>3. \A d \in Known' : d \in Known
    BY <2>1, <2>2, KnownMeans
  <2> QED BY <1>0, <2>1, <2>2, <2>3 DEF Sockets
<1>7. CASE Post
  <2>1. /\ UNCHANGED <<peer, backlog, file, slot, main>> /\ server.pc = "post"
        /\ \/ server'.pc = "scan"
           \/ server'.pc = "close" /\ server'.at = server.at /\ server.event.kind = "Disconnected"
    BY <1>0, <1>7, ServerMoves, EventFacts DEF Post, At, IInv, TypeOK, ServerType
  <2>2. \A d : (Waits(d)' <=> Waits(d)) /\ (d \in Known' <=> d \in Known)
    BY <2>1 DEF Waits, Known
  <2> QED BY <1>0, <2>1, <2>2 DEF Sockets, Posted
<1>8. CASE Close
  <2>1. /\ UNCHANGED <<peer, backlog, slot, main>> /\ server.pc = "close"
        /\ server'.pc = "zero" /\ server'.at = server.at /\ server.at \in Slots
        /\ \A f \in FDs : file'[f] = IF f = slot[server.at] THEN NoConn ELSE file[f]
    BY <1>0, <1>8, ServerMoves DEF Close, Closed, At, IInv, Indices
  <2>2. \A d : Waits(d)' <=> Waits(d)
    BY <2>1 DEF Waits
  <2>3. \A d \in Known' : d \in Known
    BY <1>0, <2>1, <2>2, KnownMeans
  <2>4. /\ slot[server.at] \in FDs
        /\ file[slot[server.at]] \in Conns
        /\ file[slot[server.at]] \in HangingUp
    BY <1>0, <2>1 DEF Sockets, TypeOK
  <2>5. Disconnecting => main.fd # slot[server.at]
    BY <1>0, <2>4 DEF Sockets, EndsFromOneSide
  <2>6. ~Waits(NoConn)
    BY <1>0, LenProperties DEF Waits, TypeOK
  <2>7. \A j \in Slots : slot[j] # 0 => slot[j] \in FDs
    BY <1>0 DEF TypeOK
  <2> QED BY <1>0, <2>1, <2>2, <2>3, <2>4, <2>5, <2>6, <2>7 DEF Sockets, Indices
<1>9. CASE Zero
  <2>1. /\ UNCHANGED <<peer, backlog, file, main>> /\ server.pc = "zero"
        /\ server'.pc = "scan" /\ server.at \in Slots
        /\ \A j \in Slots : slot'[j] = IF j = server.at THEN 0 ELSE slot[j]
    BY <1>0, <1>9, ServerMoves DEF Zero, At, IInv, Indices, TypeOK
  <2>2. \A d : (Waits(d)' <=> Waits(d)) /\ (d \in Known' <=> d \in Known)
    BY <2>1 DEF Waits, Known
  <2>3. main.pc = "clear" => main.id # server.at
    BY <1>0, <2>1 DEF Sockets, Indices
  <2>4. \A fd \in FDs : file[fd] # NoConn => slot[server.at] # fd
    BY <1>0, <2>1 DEF Sockets
  <2> QED BY <1>0, <2>1, <2>2, <2>3, <2>4 DEF Sockets, Indices
<1>10. CASE HandleEvents \/ Connected \/ Disconnected \/ ReceivedData
            \/ HandledAll \/ PostDisconnected \/ ResetTask
  <2>1. /\ UNCHANGED <<peer, backlog, file, slot, server>>
        /\ ~Disconnecting /\ main'.pc \notin {"clear", "close"}
    BY <1>10, MainMoves
       DEF HandleEvents, Connected, Disconnected, ReceivedData, Handling, HandledAll,
           PostDisconnected, ResetTask, IInv
  <2>2. \A d : (Waits(d)' <=> Waits(d)) /\ (d \in Known' <=> d \in Known)
    BY <2>1 DEF Waits, Known
  <2> QED BY <1>0, <2>1, <2>2 DEF Sockets
<1>11. CASE ClearSlot
  <2>1. /\ UNCHANGED <<peer, backlog, file, server>> /\ main.pc = "clear"
        /\ main'.pc = "close" /\ main'.fd = main.fd /\ main.id \in Slots /\ main.fd \in FDs
        /\ \A j \in Slots : slot'[j] = IF j = main.id THEN 0 ELSE slot[j]
    BY <1>0, <1>11, MainMoves DEF ClearSlot, IInv, Indices, TypeOK
  <2>2. \A d : (Waits(d)' <=> Waits(d)) /\ (d \in Known' <=> d \in Known)
    BY <2>1 DEF Waits, Known
  <2>3. slot[main.id] = main.fd /\ file[main.fd] \in Finishing /\ file[main.fd] # NoConn
    BY <1>0, <2>1 DEF Sockets
  <2>4. server.pc \in {"close", "zero"} => server.at # main.id
    <3>1. CASE server.pc = "zero"
      BY <1>0, <2>1, <2>3, <3>1 DEF Sockets
    <3>2. CASE server.pc = "close"
      BY <1>0, <2>1, <2>3, <3>2 DEF Sockets, EndsFromOneSide
    <3> QED BY <3>1, <3>2
  <2> QED BY <1>0, <2>1, <2>2, <2>3, <2>4 DEF Sockets, Indices
<1>12. CASE CloseSocket
  <2>1. /\ UNCHANGED <<peer, backlog, slot, server>> /\ main.pc = "close"
        /\ main'.pc = "post" /\ main.fd \in FDs
        /\ \A f \in FDs : file'[f] = IF f = main.fd THEN NoConn ELSE file[f]
    BY <1>0, <1>12, MainMoves DEF CloseSocket, Closed, IInv, Indices
  <2>2. \A d : Waits(d)' <=> Waits(d)
    BY <2>1 DEF Waits
  <2>3. \A d \in Known' : d \in Known
    BY <1>0, <2>1, <2>2, KnownMeans
  <2>4. ~Waits(NoConn)
    BY <1>0, LenProperties DEF Waits, TypeOK
  <2>5. \A j \in Slots : slot[j] # 0 => slot[j] \in FDs /\ slot[j] # main.fd
    BY <1>0, <2>1 DEF TypeOK, Sockets
  <2> QED BY <1>0, <2>1, <2>2, <2>3, <2>4, <2>5 DEF Sockets, Indices
<1>13. CASE UNCHANGED vars
  BY <1>0, <1>13 DEF vars, Sockets, Waits, Known
<1> QED
  BY <1>1, <1>2, <1>3, <1>4, <1>5, <1>6, <1>7, <1>8, <1>9, <1>10, <1>11, <1>12, <1>13
     DEF Next, ServerStep, MainStep

-----------------------------------------------------------------------------
(* The events that wait: what each kind of step does to them.              *)
LEMMA PendingEvents ==
    ASSUME IInv
    PROVE  /\ Len(events) \in Nat /\ Pending \subseteq 1..Len(events)
           /\ \A k \in Pending : /\ events[k].id \in Slots
                                 /\ events[k].conn \in Conns \cup {NoConn}
                                 /\ events[k].kind \in {"Connected", "Disconnected", "ReceivedData"}
           /\ \A c : (\E k \in Pending : Announces(events[k], c)) => Announced(c)
<1>1. /\ Len(events) \in Nat /\ \A k \in 1..Len(events) : events[k] \in Events
      /\ main.pc = "handling" => main.at \in 1..(Len(events) + 1)
  BY LenProperties DEF IInv, TypeOK, Indices
<1>2. Pending \subseteq 1..Len(events)
  BY <1>1 DEF Pending
<1> QED BY <1>1, <1>2, EventFacts DEF Announced

LEMMA QueueStays ==
    ASSUME IInv,
           \/ UNCHANGED <<events, main>>
           \/ \E c \in Finishing : Finish(c)
           \/ HandleEvents \/ HandledAll \/ ClearSlot \/ CloseSocket \/ ResetTask
    PROVE  /\ Pending' = Pending
           /\ events' # events => Pending = {}
<1>1. Len(events) \in Nat /\ Len(<<>>) = 0
  BY PendingEvents, EmptySeq
<1>2. CASE UNCHANGED <<events, main>>
  BY <1>2 DEF Pending
<1>3. CASE HandledAll
  BY <1>1, <1>3, MainMoves DEF HandledAll, Pending, MainGoes, IInv, TypeOK, MainType
<1>4. CASE HandleEvents
  BY <1>4, MainMoves DEF HandleEvents, Pending, MainGoes
<1>5. CASE (\E c \in Finishing : Finish(c)) \/ ClearSlot \/ CloseSocket \/ ResetTask
  <2>1. /\ events' = events /\ main.pc # "handling"
        /\ main'.pc # "handling"
    BY <1>5, MainMoves DEF Finish, ClearSlot, CloseSocket, ResetTask, MainGoes
  <2> QED BY <2>1 DEF Pending
<1> QED BY <1>2, <1>3, <1>4, <1>5

LEMMA QueueGrows ==
    ASSUME IInv, Post \/ PostDisconnected
    PROVE  /\ Len(events') = Len(events) + 1
           /\ Pending = 1..Len(events) /\ Pending' = Pending \cup {Len(events) + 1}
           /\ \A k \in Pending : events'[k] = events[k]
           /\ Post => events'[Len(events) + 1] = server.event
           /\ PostDisconnected => events'[Len(events) + 1] =
                [kind |-> "Disconnected", id |-> main.id, conn |-> NoConn]
<1>1. PICK e \in Events : /\ events' = Append(events, e)
                          /\ Post => e = server.event
                          /\ PostDisconnected =>
                                e = [kind |-> "Disconnected", id |-> main.id, conn |-> NoConn]
  <2>1. CASE Post
    <3>1. server.event \in Events /\ ~PostDisconnected
      BY <2>1, MainMoves DEF Post, PostDisconnected, IInv, TypeOK, ServerType, ServerGoes, MainGoes
    <3> QED BY <2>1, <3>1 DEF Post
  <2>2. CASE PostDisconnected
    <3>1. ~Post /\ main.id \in Slots
      BY <2>2, MainMoves DEF Post, PostDisconnected, MainGoes, IInv, Indices
    <3> QED BY <2>2, <3>1, EventFacts DEF PostDisconnected
  <2> QED BY <2>1, <2>2
<1>2. main.pc # "handling" /\ main'.pc # "handling"
  BY MainMoves DEF Post, PostDisconnected, Unlocked, MainGoes
<1>3. /\ Len(events) \in Nat /\ Len(events') = Len(events) + 1
      /\ \A k \in 1..Len(events) : events'[k] = events[k]
      /\ events'[Len(events) + 1] = e
  BY <1>1, LenProperties, AppendProperties DEF IInv, TypeOK
<1> QED BY <1>1, <1>2, <1>3 DEF Pending

LEMMA QueueHandled ==
    ASSUME IInv, Connected \/ Disconnected \/ ReceivedData
    PROVE  /\ main.at \in Pending /\ Current = events[main.at] /\ events' = events
           /\ main.pc = "handling" /\ main.at \in Nat /\ \A k \in Pending : main.at <= k
           /\ Pending' = Pending \ {main.at}
<1>1. /\ main.pc = "handling" /\ main.at \in 1..Len(events) /\ Len(events) \in Nat
      /\ events' = events
  BY MainMoves, PendingEvents DEF Connected, Disconnected, ReceivedData
<1>2. main'.pc = "handling" /\ main'.at = main.at + 1
  BY MainMoves DEF MainGoes
<1> QED BY <1>1, <1>2 DEF Pending, Current

-----------------------------------------------------------------------------
LEMMA NextPosted == ASSUME EndsFromOneSide, IInv, [Next]_vars PROVE Posted'
<1> USE DEF ServerGoes, MainGoes, netVars
<1>0. /\ TypeOK /\ TypeOK' /\ Indices /\ Sockets /\ Posted /\ Announcements /\ Homes
      /\ MaxConnections \in Nat \ {0} /\ NoConn \notin Conns /\ 0 \notin FDs
  BY NextTypes, ServerAssumption DEF IInv, FDs
<1>1. ASSUME NEW c \in Conns, Connect(c) \/ Say(c) \/ HangUp(c) PROVE Posted'
  <2>1. UNCHANGED <<slot, file, server>>
    BY <1>1 DEF Connect, Say, HangUp
  <2>2. \A d \in Conns : peer[d] = "down" => peer'[d] = "down"
    BY <1>0, <1>1 DEF Connect, Say, HangUp, TypeOK
  <2> QED BY <1>0, <2>1, <2>2 DEF Posted
<1>2. ASSUME NEW c \in Finishing, Finish(c) PROVE Posted'
  BY <1>0, <1>2 DEF Finish, Posted
<1>3. CASE Select \/ NoClient \/ Refuse \/ ScanEnds \/ Pass \/ Post \/ Close \/ Zero
  <2>1. server'.pc # "post"
    BY <1>0, <1>3, ServerMoves, EventFacts DEF IInv, TypeOK, ServerType
  <2> QED BY <2>1 DEF Posted
<1>4. CASE Accept
  <2> DEFINE c == Head(backlog)
             fd == Min(FreeFDs)
             i == Min(FreeSlots)
  <2>1. /\ server'.pc = "post" /\ server'.at = i
        /\ server'.event = [kind |-> "Connected", id |-> i, conn |-> c]
        /\ file' = [file EXCEPT ![fd] = c] /\ slot' = [slot EXCEPT ![i] = fd]
    BY <1>0, <1>4, ServerMoves DEF Accept, IInv
  <2>2. /\ c \in Conns /\ i \in Slots /\ fd \in FDs
    BY <1>0, <1>4, FirstFreeIsFree, HeadTailProperties
       DEF Accept, FreeSlots, FreeFDs, IInv, Indices, TypeOK, At
  <2> HIDE DEF c, fd, i
  <2> QED BY <1>0, <2>1, <2>2 DEF Posted, TypeOK
<1>5. CASE Read
  <2>1. UNCHANGED <<peer, slot, file>>
    BY <1>5 DEF Read
  <2>2. CASE server'.pc # "post"
    BY <2>2 DEF Posted
  <2>3. ASSUME NEW kind \in {"Disconnected", "ReceivedData"},
               LET c == file[slot[server.at]] IN
               /\ c \in Conns /\ (kind = "Disconnected" => peer[c] = "down")
               /\ server'.pc = "post" /\ server'.at = server.at
               /\ server'.event = [kind |-> kind, id |-> server.at, conn |-> c]
        PROVE  Posted'
    <3>1. slot[server.at] # 0
      BY <1>0, <1>5, ServerMoves DEF IInv
    <3> QED BY <2>1, <2>3, <3>1 DEF Posted
  <2> QED BY <1>5, <2>2, <2>3, ServerMoves DEF IInv
<1>6. CASE HandleEvents \/ Connected \/ Disconnected \/ ReceivedData
            \/ HandledAll \/ PostDisconnected \/ ResetTask
  <2>1. UNCHANGED <<peer, file, slot, server>>
    BY <1>6
       DEF HandleEvents, Connected, Disconnected, ReceivedData, HandledAll,
           PostDisconnected, ResetTask
  <2> QED BY <1>0, <2>1 DEF Posted
<1>7. CASE ClearSlot
  <2>1. /\ UNCHANGED <<peer, file, server>> /\ main.pc = "clear"
        /\ main.id \in Slots /\ main.fd \in FDs
        /\ \A j \in Slots : slot'[j] = IF j = main.id THEN 0 ELSE slot[j]
    BY <1>0, <1>7 DEF ClearSlot, Indices, TypeOK, Disconnecting
  <2>2. slot[main.id] = main.fd /\ file[main.fd] \in Finishing /\ ~Announced(file[main.fd])
    BY <1>0, <2>1 DEF Sockets, Homes, Disconnecting
  <2>3. server.pc = "post" /\ server.event.kind \in {"Connected", "Disconnected"}
            => server.at # main.id
    BY <1>0, <2>2 DEF Posted, Announced, Announces, EndsFromOneSide, Sockets
  <2> QED BY <1>0, <2>1, <2>2, <2>3 DEF Posted, Indices
<1>8. CASE CloseSocket
  <2>1. /\ UNCHANGED <<peer, slot, server>> /\ main.pc = "close" /\ main.fd \in FDs
        /\ \A f \in FDs : file'[f] = IF f = main.fd THEN NoConn ELSE file[f]
    BY <1>0, <1>8 DEF CloseSocket, Closed, Indices, Disconnecting
  <2>2. \A j \in Slots : slot[j] # 0 => slot[j] \in FDs /\ slot[j] # main.fd
    BY <1>0, <2>1 DEF TypeOK, Sockets
  <2> QED BY <1>0, <2>1, <2>2 DEF Posted, Indices
<1>9. CASE UNCHANGED vars
  BY <1>0, <1>9 DEF vars, Posted
<1> QED
  BY <1>1, <1>2, <1>3, <1>4, <1>5, <1>6, <1>7, <1>8, <1>9 DEF Next, ServerStep, MainStep

-----------------------------------------------------------------------------
(* Only accept() makes a connection known to the host that was not, and    *)
(* announces one.                                                          *)
LEMMA WhoIsKnown ==
    ASSUME IInv, [Next]_vars
    PROVE  /\ \A c : Waits(c)' => Waits(c) \/ Connect(c)
           /\ \A c \in Known' : c \in Known \/ Connect(c)
           /\ Accept => Waits(Head(backlog)) /\ Head(backlog) \in Conns
           /\ Accept => \A c : c = Head(backlog) => ~Waits(c)'
           /\ \A c \in Conns : peer[c] # "away" => peer'[c] # "away"
           /\ \A c \in Conns : peer[c] = "down" => peer'[c] = "down"
           /\ \A c \in Conns : Connect(c) => peer[c] = "away" /\ c \notin Known
<1> USE DEF netVars
<1>0. /\ TypeOK /\ Indices /\ Sockets /\ NoConn \notin Conns
  BY ServerAssumption DEF IInv
<1>1. \A c \in Conns : Connect(c) => peer[c] = "away" /\ c \notin Known
  BY <1>0 DEF Connect, Sockets
<1>2. ASSUME NEW c \in Conns, Connect(c)
      PROVE  /\ \A d : Waits(d)' => Waits(d) \/ d = c
             /\ \A d \in Known' : d \in Known \/ d = c
  <2>1. ~Waits(c)
    BY <1>1, <1>2, KnownMeans
  <2>2. \A d : Waits(d)' <=> Waits(d) \/ d = c
    BY <1>0, <1>2, <2>1, BacklogGrows DEF Connect, Sockets, TypeOK
  <2> QED BY <1>2, <2>2, KnownMeans DEF Connect
<1>3. ASSUME Accept \/ Refuse
      PROVE  /\ \A d : Waits(d)' <=> Waits(d) /\ d # Head(backlog)
             /\ Waits(Head(backlog)) /\ Head(backlog) \in Conns
  <2>1. backlog # <<>> /\ backlog' = Tail(backlog)
    BY <1>0, <1>3 DEF Accept, Refuse, At, Indices
  <2>2. Head(backlog) \in Conns
    BY <1>0, <2>1, HeadTailProperties DEF TypeOK
  <2> QED BY <1>0, <2>1, <2>2, BacklogShrinks DEF Sockets, TypeOK
<1>4. Accept => ~\E c \in Conns : Connect(c)
  BY ServerMoves DEF Accept, Connect, ServerGoes, At
<1>5. ASSUME ~\E c \in Conns : Connect(c)
      PROVE  \A c : (Waits(c)' => Waits(c)) /\ (c \in Known' => c \in Known)
  <2>1. CASE Accept
    <3>1. /\ file' = [file EXCEPT ![Min(FreeFDs)] = Head(backlog)]
      BY <2>1 DEF Accept
    <3>2. \A fd \in FDs : file'[fd] = file[fd] \/ file'[fd] = Head(backlog)
      BY <1>0, <3>1 DEF TypeOK
    <3> QED BY <1>3, <2>1, <3>2, KnownMeans
  <2>2. CASE Refuse
    BY <1>3, <2>2, KnownMeans DEF Refuse
  <2>3. CASE Close \/ CloseSocket
    <3>1. /\ backlog' = backlog
          /\ \A fd \in FDs : file'[fd] = file[fd] \/ file'[fd] = NoConn
      BY <2>3 DEF Close, CloseSocket, Closed
    <3> QED BY <1>0, <3>1, KnownMeans DEF Waits
  <2>4. CASE UNCHANGED <<backlog, file>>
    BY <2>4 DEF Waits, Known
  <2>5. Accept \/ Refuse \/ Close \/ CloseSocket \/ UNCHANGED <<backlog, file>>
    <3>1. CASE UNCHANGED vars
      BY <3>1 DEF vars
    <3>2. CASE \E c \in Conns : Connect(c) \/ Say(c) \/ HangUp(c)
      BY <1>5, <3>2 DEF Say, HangUp
    <3>3. CASE \E c \in Finishing : Finish(c)
      BY <3>3 DEF Finish
    <3>4. CASE ServerStep
      BY <3>4 DEF ServerStep, Select, NoClient, ScanEnds, Pass, Read, Post, Zero
    <3>5. CASE MainStep
      BY <3>5 DEF MainStep, HandleEvents, Connected, Disconnected, ReceivedData, HandledAll,
                  ClearSlot, PostDisconnected, ResetTask
    <3> QED BY <3>1, <3>2, <3>3, <3>4, <3>5 DEF Next
  <2> QED BY <2>1, <2>2, <2>3, <2>4, <2>5
<1>6. ASSUME NEW c \in Conns, Connect(c) \/ Say(c) \/ HangUp(c)
      PROVE  /\ \A d \in Conns : peer[d] # "away" => peer'[d] # "away"
             /\ \A d \in Conns : peer[d] = "down" => peer'[d] = "down"
  BY <1>0, <1>6 DEF Connect, Say, HangUp, TypeOK
<1>7. (\E c \in Conns : Connect(c) \/ Say(c) \/ HangUp(c)) \/ UNCHANGED peer
  BY DEF vars, Next, ServerStep, MainStep, Finish, Select, NoClient, ScanEnds, Pass, Read, Post,
         Zero, Accept, Refuse, Close, HandleEvents, Connected, Disconnected, ReceivedData,
         HandledAll, ClearSlot, CloseSocket, PostDisconnected, ResetTask
<1> QED BY <1>1, <1>2, <1>3, <1>4, <1>5, <1>6, <1>7

LEMMA WhoIsAnnounced ==
    ASSUME IInv, [Next]_vars
    PROVE  \A c : Announced(c)' => Announced(c) \/ (Accept /\ c = Head(backlog))
<1> USE DEF ServerGoes
<1>1. ASSUME server' = server \/ (server'.pc # "post" /\ ~Post),
             Pending' = Pending, events' # events => Pending = {}
      PROVE  \A c : Announced(c)' => Announced(c)
  BY <1>1 DEF Announced
<1>2. CASE Accept
  <2>1. server'.event = [kind |-> "Connected", id |-> Min(FreeSlots), conn |-> Head(backlog)]
    BY <1>2, ServerMoves
  <2>2. Pending' = Pending /\ events' = events
    BY <1>2 DEF Accept, Pending
  <2> QED BY <1>2, <2>1, <2>2 DEF Announced, Announces
<1>3. CASE Read
  <2>1. server'.pc = "post" => server'.event.kind # "Connected"
    BY <1>3, ServerMoves
  <2>2. Pending' = Pending /\ events' = events
    BY <1>3 DEF Read, Pending
  <2> QED BY <2>1, <2>2 DEF Announced, Announces
<1>4. CASE Post
  <2>1. server'.pc # "post" /\ server.pc = "post"
    BY <1>4, ServerMoves, EventFacts DEF IInv, TypeOK, ServerType, Post, At
  <2> QED BY <1>4, <2>1, QueueGrows DEF Announced
<1>5. CASE PostDisconnected
  <2>1. server' = server
    BY <1>5 DEF PostDisconnected
  <2>2. ~Announces(events'[Len(events) + 1], NoConn)
        /\ \A c : ~Announces([kind |-> "Disconnected", id |-> main.id, conn |-> NoConn], c)
    BY <1>5, QueueGrows DEF Announces
  <2> QED BY <1>5, <2>1, <2>2, QueueGrows DEF Announced
<1>6. CASE Connected \/ Disconnected \/ ReceivedData
  <2>1. server' = server /\ events' = events /\ Pending' \subseteq Pending
    BY <1>6, QueueHandled DEF Connected, Disconnected, ReceivedData
  <2> QED BY <2>1 DEF Announced
<1>7. CASE Select \/ NoClient \/ Refuse \/ ScanEnds \/ Pass \/ Close \/ Zero
  <2>1. server'.pc # "post"
    BY <1>7, ServerMoves
  <2>2. UNCHANGED <<events, main>>
    BY <1>7 DEF Select, NoClient, Refuse, ScanEnds, Pass, Close, Zero
  <2> QED BY <2>1, <2>2 DEF Announced, Pending
<1>8. CASE \/ \E c \in Finishing : Finish(c)
           \/ HandleEvents \/ HandledAll \/ ClearSlot \/ CloseSocket \/ ResetTask
  <2>1. server' = server
    BY <1>8 DEF Finish, HandleEvents, HandledAll, ClearSlot, CloseSocket, ResetTask
  <2> QED BY <1>1, <1>8, <2>1, QueueStays
<1>9. CASE (\E c \in Conns : Connect(c) \/ Say(c) \/ HangUp(c)) \/ UNCHANGED vars
  <2>1. UNCHANGED <<events, main, server>>
    BY <1>9 DEF vars, Connect, Say, HangUp
  <2> QED BY <2>1 DEF Announced, Pending
<1> QED
  BY <1>2, <1>3, <1>4, <1>5, <1>6, <1>7, <1>8, <1>9 DEF Next, ServerStep, MainStep

(* Nothing brings back a connection that has finished.                     *)
LEMMA GoneStays ==
    ASSUME IInv, [Next]_vars, NEW d \in Conns, NEW i \in Slots, Gone(d, i)
    PROVE  Gone(d, i)'
<1>1. peer'[d] # "away" /\ d \notin Known'
  BY WhoIsKnown DEF Gone
<1>2. ~Announced(d)'
  <2>1. Accept => Head(backlog) \in Known
    BY WhoIsKnown, KnownMeans
  <2> QED BY <2>1, WhoIsAnnounced DEF Gone
<1>3. home'[d] = i /\ d \notin live'
  <2>1. CASE Connected
    <3>1. d # Current.conn
      BY <2>1, QueueHandled DEF Gone, Announced, Announces, Connected
    <3>2. IInv /\ TypeOK
      BY DEF IInv
    <3> QED BY <2>1, <3>1, <3>2 DEF Connected, Gone, TypeOK
  <2>2. CASE live' \subseteq live /\ home' = home
    BY <2>2 DEF Gone
  <2>3. Connected \/ (live' \subseteq live /\ home' = home)
    BY DEF vars, netVars, Next, ServerStep, MainStep, Connect, Say, HangUp, Finish, Select,
           NoClient, ScanEnds, Pass, Read, Post, Zero, Accept, Refuse, Close, HandleEvents,
           Disconnected, ReceivedData, HandledAll, ClearSlot, CloseSocket, PostDisconnected,
           ResetTask
  <2> QED BY <2>1, <2>2, <2>3
<1> QED BY <1>1, <1>2, <1>3 DEF Gone

-----------------------------------------------------------------------------
(* Only Connected gives a slot another task.                               *)
LEMMA WhoHasTasks ==
    ASSUME IInv, [Next]_vars
    PROVE  \/ /\ live' \subseteq live /\ home' = home
              /\ \A i \in Slots : task'[i] \in {task[i], NoConn}
           \/ /\ Connected /\ Current.id \in Slots /\ Current.conn \in Conns
              /\ main.at \in Pending /\ Current = events[main.at] /\ Current.kind = "Connected"
              /\ Pending' = Pending \ {main.at} /\ events' = events /\ server' = server
              /\ live' = live \cup {Current.conn}
              /\ home' = [home EXCEPT ![Current.conn] = Current.id]
              /\ task' = [task EXCEPT ![Current.id] = Current.conn]
<1> USE DEF netVars
<1>1. CASE Connected
  <2>1. /\ main.at \in Pending /\ Current = events[main.at] /\ events' = events /\ server' = server
        /\ Current.kind = "Connected"
    BY <1>1, QueueHandled DEF Connected
  <2>2. Current.id \in Slots /\ Current.conn \in Conns
    BY <2>1, PendingEvents DEF IInv, Order
  <2>3. Pending' = Pending \ {main.at}
    BY <1>1, QueueHandled
  <2> QED BY <1>1, <2>1, <2>2, <2>3 DEF Connected
<1>2. CASE Disconnected
  <2>1. \E left \in {NoConn, task[Current.id]} : task' = [task EXCEPT ![Current.id] = left]
    BY <1>2 DEF Disconnected
  <2>2. \A i \in Slots : task'[i] \in {task[i], NoConn}
    BY <2>1 DEF IInv, TypeOK
  <2> QED BY <1>2, <2>2 DEF Disconnected
<1>3. CASE ResetTask
  <2>1. \E left \in {NoConn, task[main.id]} : task' = [task EXCEPT ![main.id] = left]
    BY <1>3 DEF ResetTask
  <2>2. \A i \in Slots : task'[i] \in {task[i], NoConn}
    BY <2>1 DEF IInv, TypeOK
  <2> QED BY <1>3, <2>2 DEF ResetTask
<1>4. Connected \/ Disconnected \/ ResetTask \/ (live' \subseteq live /\ UNCHANGED <<home, task>>)
  BY DEF vars, Next, ServerStep, MainStep, Connect, Say, HangUp, Finish, Select, NoClient,
         ScanEnds, Pass, Read, Post, Zero, Accept, Refuse, Close, HandleEvents, ReceivedData,
         HandledAll, ClearSlot, CloseSocket, PostDisconnected
<1> QED BY <1>1, <1>2, <1>3, <1>4

(* Which events wait after a step.                                         *)
LEMMA WhichEventsWait ==
    ASSUME IInv, [Next]_vars
    PROVE  \A k \in Pending' :
              \/ k \in Pending /\ events'[k] = events[k]
              \/ /\ Pending = 1..Len(events) /\ k = Len(events) + 1 /\ Len(events') = Len(events) + 1
                 /\ \/ Post /\ events'[k] = server.event /\ server.pc = "post" /\ server'.pc # "post"
                    \/ PostDisconnected
                       /\ events'[k] = [kind |-> "Disconnected", id |-> main.id, conn |-> NoConn]
<1>1. CASE Post
  <2>1. server'.pc # "post" /\ server.pc = "post"
    BY <1>1, ServerMoves, EventFacts DEF IInv, TypeOK, ServerType, Post, At, ServerGoes
  <2> QED BY <1>1, <2>1, QueueGrows
<1>2. CASE PostDisconnected
  BY <1>2, QueueGrows
<1>3. CASE Connected \/ Disconnected \/ ReceivedData
  BY <1>3, QueueHandled
<1>4. CASE \/ UNCHANGED <<events, main>>
           \/ \E c \in Finishing : Finish(c)
           \/ HandleEvents \/ HandledAll \/ ClearSlot \/ CloseSocket \/ ResetTask
  BY <1>4, QueueStays
<1>5. \/ UNCHANGED <<events, main>> \/ (\E c \in Finishing : Finish(c)) \/ MainStep \/ Post
  BY DEF vars, Next, ServerStep, Connect, Say, HangUp, Select, NoClient,
         ScanEnds, Pass, Read, Zero, Accept, Refuse, Close
<1> QED BY <1>1, <1>2, <1>3, <1>4, <1>5 DEF MainStep

(* The event the server thread holds.                                      *)
LEMMA WhichEventIsHeld ==
    ASSUME IInv, [Next]_vars, server'.pc = "post"
    PROVE  \/ server' = server
           \/ Accept /\ server'.event = [kind |-> "Connected", id |-> Min(FreeSlots),
                                         conn |-> Head(backlog)]
           \/ Read /\ server'.event.kind # "Connected"
<1>1. CASE ServerStep
  BY <1>1, ServerMoves, EventFacts
     DEF ServerStep, ServerGoes, IInv, TypeOK, ServerType
<1>2. CASE ~ServerStep
  BY <1>2 DEF vars, Next, MainStep, Connect, Say, HangUp, Finish, HandleEvents,
         Connected, Disconnected, ReceivedData, HandledAll, ClearSlot, CloseSocket,
         PostDisconnected, ResetTask
<1> QED BY <1>1, <1>2

LEMMA NextAnnouncements == ASSUME IInv, [Next]_vars PROVE Announcements'
<1>0. Announcements /\ Sockets /\ TypeOK
  BY DEF IInv
<1>1. ASSUME NEW j \in Pending', NEW k \in Pending',
             events'[j].kind = "Connected", events'[k].kind = "Connected",
             events'[j].conn = events'[k].conn
      PROVE  j = k
  BY <1>0, <1>1, WhichEventsWait DEF Announcements, Announces
<1>2. ASSUME server'.pc = "post", server'.event.kind = "Connected", NEW k \in Pending',
             Announces(events'[k], server'.event.conn)
      PROVE  FALSE
  <2>1. CASE server' = server
    BY <1>0, <1>2, <2>1, WhichEventsWait DEF Announcements, Announces
  <2>2. CASE Accept
    <3>1. server'.event.conn = Head(backlog) /\ Waits(Head(backlog)) /\ Head(backlog) \in Conns
      BY <1>2, <2>2, WhichEventIsHeld, WhoIsKnown, ServerMoves
    <3>2. k \in Pending /\ events'[k] = events[k]
      BY <2>2 DEF Accept, Pending
    <3> QED BY <1>0, <1>2, <3>1, <3>2 DEF Announcements, Announced
  <2> QED BY <1>2, <2>1, <2>2, WhichEventIsHeld
<1>3. ASSUME NEW c \in Conns, Announced(c)'
      PROVE  /\ Announced(c) \/ (Waits(c) /\ ~Waits(c)')
             /\ c \notin live' /\ \A i \in Slots : task'[i] # c
  <2>1. Announced(c) \/ (Waits(c) /\ ~Waits(c)')
    BY <1>3, WhoIsAnnounced, WhoIsKnown
  <2>2. c \notin live /\ \A i \in Slots : task[i] # c
    BY <1>0, <2>1 DEF Announcements
  <2>3. Connected /\ Pending' = Pending \ {main.at} /\ main.at \in Pending
          /\ Current = events[main.at] /\ Current.kind = "Connected" /\ events' = events
          /\ server' = server => c # Current.conn
    BY <1>0, <1>3 DEF Announced, Announces, Announcements
  <2>4. \/ live' \subseteq live /\ \A i \in Slots : task'[i] \in {task[i], NoConn}
        \/ /\ c # Current.conn /\ Current.id \in Slots /\ live' = live \cup {Current.conn}
           /\ task' = [task EXCEPT ![Current.id] = Current.conn]
    BY <2>3, WhoHasTasks
  <2> QED BY <1>0, <2>1, <2>2, <2>4, ServerAssumption DEF TypeOK
<1>4. ASSUME NEW c \in Conns, Announced(c)' \/ c \in live' \/ (\E i \in Slots : task'[i] = c)
      PROVE  peer'[c] # "away" /\ ~Waits(c)'
  <2>1. \/ Announced(c) \/ c \in live \/ (\E i \in Slots : task[i] = c)
        \/ Waits(c) /\ ~Waits(c)'
    <3>1. CASE Announced(c)'
      BY <1>3, <3>1
    <3>2. CASE c \in live' \/ (\E i \in Slots : task'[i] = c)
      <4>1. \/ c \in live \/ (\E i \in Slots : task[i] = c)
            \/ c = Current.conn /\ main.at \in Pending /\ Current = events[main.at]
               /\ Current.kind = "Connected"
        BY <1>0, <3>2, WhoHasTasks, ServerAssumption DEF TypeOK
      <4> QED BY <4>1 DEF Announced, Announces
    <3> QED BY <1>4, <3>1, <3>2
  <2>2. CASE peer[c] # "away" /\ ~Waits(c)
    BY <2>2, WhoIsKnown
  <2>3. CASE Waits(c) /\ ~Waits(c)'
    <3>1. peer[c] # "away"
      BY <1>0, <2>3, KnownMeans DEF Sockets
    <3> QED BY <2>3, <3>1, WhoIsKnown
  <2> QED BY <1>0, <2>1, <2>2, <2>3 DEF Announcements
<1> QED BY <1>1, <1>2, <1>3, <1>4 DEF Announcements

-----------------------------------------------------------------------------
(* The slot of a connection whose task may finish is left alone until the  *)
(* main thread disconnects it.                                             *)
LEMMA OpenSlotStays ==
    ASSUME EndsFromOneSide, IInv, [Next]_vars,
           NEW c \in Finishing, NEW i \in Slots, slot[i] # 0, file[slot[i]] = c,
           Disconnecting => file[main.fd] # c
    PROVE  slot'[i] # 0 /\ file'[slot'[i]] = c
<1>0. /\ TypeOK /\ Indices /\ Sockets /\ c \in Conns /\ c # NoConn /\ slot[i] \in FDs /\ 0 \notin FDs
  BY ServerAssumption DEF IInv, TypeOK, FDs
<1>1. CASE Accept
  <2>1. /\ Min(FreeSlots) \in Slots /\ slot[Min(FreeSlots)] = 0
        /\ Min(FreeFDs) \in FDs /\ file[Min(FreeFDs)] = NoConn
    BY <1>1, FirstFreeIsFree DEF Accept, At, FreeSlots, FreeFDs
  <2> QED BY <1>0, <1>1, <2>1 DEF Accept, TypeOK
<1>2. CASE Close
  <2>1. server.pc = "close" /\ server.at \in Slots /\ peer[file[slot[server.at]]] = "down"
    BY <1>0, <1>2 DEF Close, At, Indices, Sockets
  <2>2. slot[server.at] # slot[i]
    BY <1>0, <2>1 DEF Sockets, EndsFromOneSide
  <2> QED BY <1>0, <1>2, <2>2 DEF Close, Closed
<1>3. CASE Zero
  <2>1. server.at # i
    BY <1>0, <1>3 DEF Zero, At, Sockets
  <2> QED BY <1>0, <1>3, <2>1 DEF Zero, netVars, TypeOK
<1>4. CASE ClearSlot
  <2>1. main.id # i
    BY <1>0, <1>4 DEF ClearSlot, Sockets, Disconnecting
  <2> QED BY <1>0, <1>4, <2>1 DEF ClearSlot, netVars, TypeOK
<1>5. CASE CloseSocket
  <2>1. main.fd # slot[i]
    BY <1>0, <1>5 DEF CloseSocket, Sockets
  <2> QED BY <1>0, <1>5, <2>1 DEF CloseSocket, Closed
<1>6. CASE UNCHANGED <<file, slot>>
  BY <1>6
<1>7. Accept \/ Close \/ Zero \/ ClearSlot \/ CloseSocket \/ UNCHANGED <<file, slot>>
  BY DEF vars, netVars, Next, ServerStep, MainStep, Connect, Say, HangUp, Finish, Select,
         NoClient, ScanEnds, Pass, Read, Post, Refuse, HandleEvents, Connected, Disconnected,
         ReceivedData, HandledAll, PostDisconnected, ResetTask
<1> QED BY <1>1, <1>2, <1>3, <1>4, <1>5, <1>6, <1>7

LEMMA NextHomes == ASSUME EndsFromOneSide, IInv, [Next]_vars PROVE Homes'
<1>0. /\ TypeOK /\ Indices /\ Sockets /\ Posted /\ Announcements /\ Homes /\ Indices'
      /\ Finishing \subseteq Conns /\ NoConn \notin Conns
  BY ServerAssumption, NextTypes DEF IInv
<1>1. ASSUME NEW i \in Slots, task'[i] # NoConn PROVE home'[task'[i]] = i
  <2>1. CASE home' = home /\ task'[i] \in {task[i], NoConn}
    BY <1>0, <1>1, <2>1 DEF Homes
  <2>2. CASE /\ Current.id \in Slots /\ Current.conn \in Conns
             /\ main.at \in Pending /\ Current = events[main.at] /\ Current.kind = "Connected"
             /\ home' = [home EXCEPT ![Current.conn] = Current.id]
             /\ task' = [task EXCEPT ![Current.id] = Current.conn]
    <3>1. \A j \in Slots : task[j] # Current.conn
      BY <1>0, <2>2 DEF Announcements, Announced, Announces
    <3> QED BY <1>0, <1>1, <2>2, <3>1 DEF Homes, TypeOK
  <2> QED BY <2>1, <2>2, WhoHasTasks
<1>2. ASSUME NEW c \in live' \cap Finishing
      PROVE  slot'[home'[c]] # 0 /\ file'[slot'[home'[c]]] = c
  <2>1. CASE c \in live /\ home'[c] = home[c]
    <3>1. slot[home[c]] # 0 /\ file[slot[home[c]]] = c /\ home[c] \in Slots
      BY <1>0, <1>2, <2>1 DEF Homes, TypeOK
    <3>2. Disconnecting => file[main.fd] # c
      BY <1>0, <2>1 DEF Homes
    <3> QED BY <2>1, <3>1, <3>2, OpenSlotStays
  <2>2. CASE Connected /\ c = Current.conn /\ home'[c] = Current.id
             /\ main.at \in Pending /\ Current = events[main.at] /\ Current.kind = "Connected"
    <3>1. UNCHANGED <<file, slot>>
      BY <2>2 DEF Connected, netVars
    <3> QED BY <1>0, <1>2, <2>2, <3>1 DEF Homes
  <2> QED BY <1>0, <1>2, <2>1, <2>2, WhoHasTasks DEF TypeOK
<1>3. ASSUME NEW k \in Pending', events'[k].kind = "Connected", events'[k].conn \in Finishing
      PROVE  slot'[events'[k].id] # 0 /\ file'[slot'[events'[k].id]] = events'[k].conn
  <2> DEFINE c == events'[k].conn
             i == events'[k].id
  <2>1. Announced(c) /\ slot[i] # 0 /\ file[slot[i]] = c /\ i \in Slots
    <3>1. CASE k \in Pending /\ events'[k] = events[k]
      BY <1>0, <1>3, <3>1, PendingEvents DEF Homes, Announced, Announces
    <3>2. CASE events'[k] = server.event /\ server.pc = "post"
      BY <1>0, <1>3, <3>2 DEF Posted, Announced, Announces, Indices
    <3> QED BY <1>3, <3>1, <3>2, WhichEventsWait
  <2>2. Disconnecting => file[main.fd] # c
    BY <1>0, <2>1 DEF Homes
  <2> QED BY <1>3, <2>1, <2>2, OpenSlotStays
<1>4. ASSUME Disconnecting', NEW d, d = file'[main'.fd]
      PROVE  home'[d] = main'.id /\ d \notin live' /\ ~Announced(d)'
  <2>1. CASE \E c \in Finishing : Finish(c)
    <3>1. PICK c \in Finishing : Finish(c)
      BY <2>1
    <3>2. /\ main'.id = home[c] /\ main'.fd = slot[home[c]] /\ UNCHANGED <<file, home>>
          /\ live' = live \ {c} /\ c \in live /\ ~Accept
      BY <3>1, MainMoves, ServerMoves DEF Finish, netVars, Accept, ServerGoes, At
    <3>3. d = c
      BY <1>0, <1>4, <3>1, <3>2 DEF Homes
    <3>4. ~Announced(c)
      BY <1>0, <3>1, <3>2 DEF Announcements
    <3> QED BY <3>1, <3>2, <3>3, <3>4, WhoIsAnnounced
  <2>2. CASE /\ Disconnecting /\ main'.fd = main.fd /\ main'.id = main.id
             /\ file'[main.fd] = file[main.fd] /\ live' \subseteq live /\ home' = home
    <3>1. d \in Conns /\ home[d] = main.id /\ d \notin live /\ ~Announced(d)
      BY <1>0, <1>4, <2>2 DEF Homes, Sockets
    <3>2. Accept => d # Head(backlog)
      BY <1>0, <1>4, <2>2, WhoIsKnown DEF Sockets, Indices
    <3> QED BY <2>2, <3>1, <3>2, WhoIsAnnounced
  <2>3. CASE MainStep
    BY <1>4, <2>2, <2>3, MainMoves
       DEF MainStep, MainGoes, Disconnecting, HandleEvents, HandledAll, ClearSlot, CloseSocket,
           PostDisconnected, ResetTask, netVars
  <2>4. CASE main' = main /\ ~MainStep /\ ~\E c \in Finishing : Finish(c)
    <3>1. main.fd \in FDs /\ file[main.fd] \in Finishing /\ Disconnecting
      BY <1>0, <1>4, <2>4 DEF Indices, Sockets, Disconnecting
    <3>2. file'[main.fd] = file[main.fd]
      <4>1. CASE Accept
        <5>1. Min(FreeFDs) \in FDs /\ file[Min(FreeFDs)] = NoConn
          BY <4>1, FirstFreeIsFree DEF Accept, At, FreeFDs
        <5> QED BY <1>0, <3>1, <4>1, <5>1 DEF Accept, TypeOK
      <4>2. CASE Close
        <5>1. server.pc = "close" /\ server.at \in Slots /\ peer[file[slot[server.at]]] = "down"
              /\ slot[server.at] # 0
          BY <1>0, <4>2 DEF Close, At, Indices, Sockets
        <5>2. slot[server.at] # main.fd
          BY <1>0, <3>1, <5>1 DEF Sockets, EndsFromOneSide
        <5> QED BY <1>0, <3>1, <4>2, <5>2 DEF Close, Closed
      <4>3. Accept \/ Close \/ file' = file
        BY <2>4 DEF vars, netVars, Next, ServerStep, Connect, Say, HangUp, Select,
               NoClient, ScanEnds, Pass, Read, Post, Refuse, Zero
      <4> QED BY <4>1, <4>2, <4>3
    <3>3. live' \subseteq live /\ home' = home
      BY <2>4, WhoHasTasks DEF MainStep
    <3> QED BY <2>2, <2>4, <3>1, <3>2, <3>3
  <2>5. MainStep \/ (\E c \in Finishing : Finish(c)) \/ main' = main
    BY DEF vars, Next, ServerStep, Connect, Say, HangUp, Select, NoClient, ScanEnds, Pass,
           Read, Post, Zero, Accept, Refuse, Close
  <2> QED BY <2>1, <2>3, <2>4, <2>5
<1> QED BY <1>1, <1>2, <1>3, <1>4 DEF Homes

LEMMA NextEndings == ASSUME EndsFromOneSide, IInv, [Next]_vars PROVE Endings'
<1>0. /\ TypeOK /\ Indices /\ Sockets /\ Posted /\ Announcements /\ Homes /\ Endings
      /\ Finishing \subseteq Conns /\ NoConn \notin Conns
  BY ServerAssumption DEF IInv
<1>1. ASSUME main'.pc = "post" PROVE (\E d \in Conns : Gone(d, main.id))'
  <2>1. CASE CloseSocket
    <3>0. PICK d : d = file[main.fd]
      OBVIOUS
    <3>1. /\ main.pc = "close" /\ main.fd \in FDs /\ main'.id = main.id
          /\ UNCHANGED <<peer, backlog, home, live>>
          /\ \A f \in FDs : file'[f] = IF f = main.fd THEN NoConn ELSE file[f]
      BY <1>0, <2>1, MainMoves DEF CloseSocket, Closed, Indices, Disconnecting
    <3>2. d \in Finishing /\ d \in Conns /\ ~Waits(d) /\ peer[d] # "away"
      BY <1>0, <3>0, <3>1, KnownMeans DEF Sockets, Disconnecting
    <3>3. d \notin Known'
      <4>1. ~Waits(d)'
        BY <3>1, <3>2 DEF Waits
      <4>2. \A f \in FDs : file'[f] # d
        BY <1>0, <3>0, <3>1, <3>2 DEF Sockets
      <4> QED BY <4>1, <4>2, KnownMeans
    <3>4. home[d] = main.id /\ d \notin live /\ ~Announced(d)
      BY <1>0, <3>0, <3>1 DEF Homes, Disconnecting
    <3>5. ~Announced(d)'
      <4>1. ~Accept
        BY <2>1, ServerMoves, MainMoves DEF CloseSocket, Accept, ServerGoes, At
      <4> QED BY <3>4, <4>1, WhoIsAnnounced
    <3> QED BY <3>1, <3>2, <3>3, <3>4, <3>5 DEF Gone
  <2>2. CASE main' = main
    <3>1. PICK d \in Conns : Gone(d, main.id)
      BY <1>0, <1>1, <2>2 DEF Endings
    <3> QED BY <1>0, <1>1, <2>2, <3>1, GoneStays DEF Indices
  <2>3. CloseSocket \/ main' = main
    BY <1>1, MainMoves
       DEF vars, Next, ServerStep, MainStep, MainGoes, Connect, Say, HangUp, Select, NoClient,
           ScanEnds, Pass, Read, Post, Zero, Accept, Refuse, Close
  <2> QED BY <2>1, <2>2, <2>3
<1>2. ASSUME NEW k \in Pending', events'[k].kind = "Disconnected"
      PROVE  (IF events[k].conn = NoConn THEN \E d \in Conns : Gone(d, events[k].id)
                                         ELSE peer[events[k].conn] = "down")'
  <2>1. CASE k \in Pending /\ events'[k] = events[k]
    <3>1. events[k].id \in Slots /\ events[k].conn \in Conns \cup {NoConn}
      BY <2>1, PendingEvents
    <3>2. CASE events[k].conn = NoConn
      <4>1. PICK d \in Conns : Gone(d, events[k].id)
        BY <1>0, <1>2, <2>1, <3>2 DEF Endings
      <4>2. Gone(d, events[k].id)'
        <5>1. PICK i \in Slots : i = events[k].id /\ i = events'[k].id
          BY <2>1, <3>1
        <5>2. Gone(d, i)'
          BY <4>1, <5>1, GoneStays
        <5> QED BY <5>1, <5>2
      <4> QED BY <2>1, <3>2, <4>2
    <3>3. CASE events[k].conn # NoConn
      BY <1>0, <1>2, <2>1, <3>1, <3>3, WhoIsKnown DEF Endings
    <3> QED BY <3>2, <3>3
  <2>2. CASE Post /\ events'[k] = server.event /\ server.pc = "post"
    BY <1>0, <1>2, <2>2, WhoIsKnown DEF Posted
  <2>3. CASE PostDisconnected
             /\ events'[k] = [kind |-> "Disconnected", id |-> main.id, conn |-> NoConn]
    <3>1. PICK d \in Conns : Gone(d, main.id)
      BY <1>0, <2>3 DEF PostDisconnected, Endings
    <3>2. Gone(d, events[k].id)'
      <4>1. PICK i \in Slots : i = main.id /\ i = events'[k].id
        <5>1. main.id \in Slots
          BY <1>0, <2>3 DEF PostDisconnected, Indices
        <5> QED BY <2>3, <5>1
      <4>2. Gone(d, i)'
        BY <3>1, <4>1, GoneStays
      <4> QED BY <4>1, <4>2
    <3> QED BY <2>3, <3>2
  <2> QED BY <2>1, <2>2, <2>3, WhichEventsWait
<1> QED BY <1>1, <1>2 DEF Endings

-----------------------------------------------------------------------------
(* What waits no more has been handled.                                    *)
LEMMA WhichEventWasHandled ==
    ASSUME IInv, [Next]_vars, NEW k \in Pending, k \notin Pending'
    PROVE  /\ k = main.at /\ Current = events[k] /\ \A j \in Pending : k <= j
           /\ Connected \/ events[k].kind # "Connected"
<1>1. CASE Connected \/ Disconnected \/ ReceivedData
  BY <1>1, QueueHandled DEF Disconnected, ReceivedData
<1>2. CASE Post \/ PostDisconnected
  BY <1>2, QueueGrows
<1>3. CASE \/ UNCHANGED <<events, main>>
           \/ \E c \in Finishing : Finish(c)
           \/ HandleEvents \/ HandledAll \/ ClearSlot \/ CloseSocket \/ ResetTask
  BY <1>3, QueueStays
<1>4. \/ UNCHANGED <<events, main>> \/ (\E c \in Finishing : Finish(c)) \/ MainStep \/ Post
  BY DEF vars, Next, ServerStep, Connect, Say, HangUp, Select, NoClient,
         ScanEnds, Pass, Read, Zero, Accept, Refuse, Close
<1> QED BY <1>1, <1>2, <1>3, <1>4 DEF MainStep

(* What a slot has at place n it still has at place m after a step that    *)
(* announces nothing for the slot before m and keeps what waits before n.  *)
LEMMA LeadsStays ==
    ASSUME IInv, [Next]_vars, NEW i \in Slots, NEW c \in Conns, NEW n \in Nat, NEW m \in Nat,
           Leads(i, c, n),
           \A k \in Pending' : k < m /\ events'[k].kind = "Connected" /\ events'[k].id = i =>
               k \in Pending /\ k < n /\ events'[k] = events[k],
           \A k \in Pending \cap Pending' : k < n => k < m /\ events'[k] = events[k],
           \A k \in Pending \ Pending' : k < n
    PROVE  Leads(i, c, m)'
<1>0. TypeOK /\ Pending \subseteq Nat /\ NoConn \notin Conns
  BY PendingEvents, ServerAssumption DEF IInv
<1>1. ASSUME NEW j \in Pending', j < m, events'[j].id = i, events'[j].kind = "Connected"
      PROVE  \/ events'[j].conn = c
             \/ \E k \in Pending' : j < k /\ k < m /\ events'[k].id = i /\ Announces(events'[k], c)
  <2>1. j \in Pending /\ j < n /\ events'[j] = events[j]
    BY <1>1
  <2>2. CASE events[j].conn = c
    BY <2>1, <2>2
  <2>3. ASSUME NEW k \in Pending, j < k, k < n, events[k].id = i, Announces(events[k], c)
        PROVE  k \in Pending' /\ k < m /\ events'[k] = events[k]
    <3>1. k \in Pending'
      <4> SUFFICES ASSUME k \notin Pending' PROVE FALSE
        OBVIOUS
      <4>1. k <= j
        BY <2>1, WhichEventWasHandled
      <4> QED BY <1>0, <2>1, <2>3, <4>1
    <3> QED BY <2>3, <3>1
  <2> QED BY <1>1, <2>1, <2>2, <2>3 DEF Leads
<1>2. \/ task'[i] \in {NoConn, c}
      \/ \E k \in Pending' : k < m /\ events'[k].id = i /\ Announces(events'[k], c)
  <2>1. ASSUME NEW k \in Pending, k < n, events[k].id = i, Announces(events[k], c)
        PROVE  \/ task'[i] \in {NoConn, c}
               \/ \E j \in Pending' : j < m /\ events'[j].id = i /\ Announces(events'[j], c)
    <3>1. CASE k \in Pending'
      BY <2>1, <3>1
    <3>2. CASE k \notin Pending'
      <4>1. /\ k = main.at /\ Current = events[k] /\ Connected /\ Current.kind = "Connected"
        BY <2>1, <3>2, WhichEventWasHandled DEF Announces
      <4>2. task' = [task EXCEPT ![Current.id] = Current.conn]
        BY <4>1 DEF Connected
      <4> QED BY <1>0, <2>1, <4>1, <4>2 DEF TypeOK, Announces
    <3> QED BY <3>1, <3>2
  <2>2. CASE task[i] \in {NoConn, c}
    <3>1. CASE task'[i] \in {task[i], NoConn}
      BY <2>2, <3>1
    <3>2. CASE /\ Connected /\ main.at \in Pending /\ Current = events[main.at]
               /\ Current.kind = "Connected" /\ Pending' = Pending \ {main.at}
               /\ task' = [task EXCEPT ![Current.id] = Current.conn]
      <4>1. CASE Current.id # i
        BY <1>0, <2>2, <3>2, <4>1 DEF TypeOK
      <4>2. CASE Current.id = i
        <5>1. main.at < n /\ task'[i] = Current.conn
          BY <1>0, <3>2, <4>2 DEF TypeOK
        <5>2. CASE Current.conn = c
          BY <5>1, <5>2
        <5>3. ASSUME NEW k \in Pending, main.at < k, k < n, events[k].id = i, Announces(events[k], c)
              PROVE  k \in Pending' /\ k < m /\ events'[k] = events[k]
          BY <1>0, <3>2, <5>3
        <5> QED BY <3>2, <4>2, <5>1, <5>2, <5>3 DEF Leads
      <4> QED BY <4>1, <4>2
    <3> QED BY <3>1, <3>2, WhoHasTasks
  <2> QED BY <2>1, <2>2 DEF Leads
<1> QED BY <1>1, <1>2 DEF Leads


(* The connection of a slot is the one it had, unless it has been accepted *)
(* in this step.                                                           *)
LEMMA WhoseSlot ==
    ASSUME IInv, [Next]_vars, NEW i \in Slots, slot'[i] # 0, file'[slot'[i]] # NoConn
    PROVE  \/ Accept /\ server'.pc = "post" /\ server'.event.kind = "Connected" /\ server'.at = i
           \/ slot'[i] = slot[i] /\ file'[slot[i]] = file[slot[i]]
<1>0. TypeOK /\ TypeOK' /\ Indices /\ Sockets /\ 0 \notin FDs
  BY ServerAssumption, NextTypes DEF IInv, FDs
<1>1. CASE Accept
  <2>1. /\ Min(FreeFDs) \in FDs /\ file[Min(FreeFDs)] = NoConn /\ Min(FreeSlots) \in Slots
        /\ server.pc = "accept"
    BY <1>1, FirstFreeIsFree DEF Accept, At, FreeFDs, FreeSlots
  <2>2. /\ server'.pc = "post" /\ server'.at = Min(FreeSlots) /\ server'.event.kind = "Connected"
    BY <1>1, ServerMoves DEF ServerGoes
  <2>3. CASE i # Min(FreeSlots)
    <3>1. slot'[i] = slot[i] /\ file[slot[i]] # NoConn /\ slot[i] \in FDs
      BY <1>0, <1>1, <2>1, <2>3 DEF Accept, TypeOK, Sockets
    <3> QED BY <1>0, <1>1, <2>1, <3>1 DEF Accept, TypeOK
  <2> QED BY <1>1, <2>2, <2>3
<1>2. CASE Close \/ CloseSocket
  <2>1. slot' = slot /\ slot[i] \in FDs
    BY <1>0, <1>2 DEF Close, CloseSocket, TypeOK
  <2> QED BY <1>0, <1>2, <2>1 DEF Close, CloseSocket, Closed
<1>3. CASE Zero \/ ClearSlot
  BY <1>0, <1>3 DEF Zero, ClearSlot, netVars, TypeOK
<1>4. CASE UNCHANGED <<file, slot>>
  BY <1>4
<1>5. Accept \/ Close \/ Zero \/ ClearSlot \/ CloseSocket \/ UNCHANGED <<file, slot>>
  BY DEF vars, netVars, Next, ServerStep, MainStep, Connect, Say, HangUp, Finish, Select,
         NoClient, ScanEnds, Pass, Read, Post, Refuse, HandleEvents, Connected, Disconnected,
         ReceivedData, HandledAll, PostDisconnected, ResetTask
<1> QED BY <1>1, <1>2, <1>3, <1>4, <1>5

LEMMA NextOrder == ASSUME IInv, [Next]_vars PROVE Order'
<1>0. /\ TypeOK /\ TypeOK' /\ Indices /\ Sockets /\ Posted /\ Order /\ NoConn \notin Conns
      /\ Len(events) \in Nat /\ Len(events') \in Nat /\ Pending \subseteq 1..Len(events)
  BY ServerAssumption, NextTypes, PendingEvents, LenProperties DEF IInv, TypeOK
<1>1. Pending' \subseteq 1..Len(events')
  <2>1. main'.pc = "handling" => main'.at \in 1..(Len(events') + 1)
    BY NextTypes DEF Indices
  <2> QED BY <1>0, <2>1 DEF Pending
<1>2. /\ \A k \in Pending \cap Pending' : events'[k] = events[k]
      /\ \A k \in Pending' : k \in Pending \/ k > Len(events)
      /\ \A k \in Pending \ Pending', j \in Pending : k <= j
  BY <1>0, WhichEventsWait, WhichEventWasHandled
<1>3. ASSUME NEW i \in Slots, NEW c \in Conns, NEW k \in Pending',
             k \in Pending \/ k = Len(events) + 1, Leads(i, c, k)
      PROVE  Leads(i, c, k)'
  <2>1. ASSUME NEW j \in Pending \ Pending' PROVE j < k
    <3>1. j \in Nat /\ k \in Nat /\ j # k
      BY <1>0, <1>1
    <3>2. CASE k \in Pending
      <4>1. j <= k
        BY <1>2, <3>2
      <4> QED BY <3>1, <4>1
    <3>3. CASE k = Len(events) + 1
      BY <1>0, <3>3
    <3> QED BY <1>3, <3>2, <3>3
  <2>2. ASSUME NEW j \in Pending', j < k PROVE j \in Pending /\ events'[j] = events[j]
    <3>1. j \in Pending
      <4>1. j \in Nat /\ k \in Nat /\ k <= Len(events) + 1
        BY <1>0, <1>1, <1>3
      <4> QED BY <1>0, <1>2, <2>2, <4>1
    <3> QED BY <1>2, <3>1
  <2>3. \A j \in Pending \cap Pending' : events'[j] = events[j]
    BY <1>2
  <2>4. k \in Nat
    BY <1>1
  <2> QED BY <1>3, <2>1, <2>2, <2>3, <2>4, LeadsStays
<1>4. ASSUME NEW i \in Slots, NEW c \in Conns, Leads(i, c, Len(events) + 1),
             ~(Post /\ server.event.kind = "Connected" /\ server.event.id = i),
             NEW m \in Nat, m = Len(events') + 1
      PROVE  Leads(i, c, m)'
  <2>1. \A k \in Pending' : k < m /\ events'[k].kind = "Connected" /\ events'[k].id = i =>
               k \in Pending /\ k < Len(events) + 1 /\ events'[k] = events[k]
    <3>1. ASSUME NEW k \in Pending', events'[k].kind = "Connected", events'[k].id = i
          PROVE  k \in Pending
      BY <1>4, <3>1, WhichEventsWait
    <3>2. \A k \in Pending : k < Len(events) + 1
      BY <1>0
    <3>3. \A k \in Pending \cap Pending' : events'[k] = events[k]
      BY <1>2
    <3> QED BY <3>1, <3>2, <3>3
  <2>2. \A k \in Pending \cap Pending' : k < m /\ events'[k] = events[k]
    BY <1>0, <1>1, <1>2, <1>4
  <2>3. \A k \in Pending \ Pending' : k < Len(events) + 1
    BY <1>0
  <2>4. Len(events) + 1 \in Nat
    BY <1>0
  <2> QED BY <1>4, <2>1, <2>2, <2>3, <2>4, LeadsStays
<1>5. ASSUME NEW k \in Pending', events'[k].kind # "Connected", events'[k].conn # NoConn
      PROVE  Leads(events[k].id, events[k].conn, k)'
  <2>1. PICK i, c : i = events'[k].id /\ c = events'[k].conn
    OBVIOUS
  <2>2. CASE k \in Pending /\ events'[k] = events[k]
    <3>1. i \in Slots /\ c \in Conns /\ Leads(i, c, k)
      BY <1>0, <1>5, <2>1, <2>2, PendingEvents DEF Order
    <3> QED BY <1>3, <2>1, <2>2, <3>1
  <2>3. CASE k = Len(events) + 1 /\ events'[k] = server.event /\ server.pc = "post"
    <3>1. i \in Slots /\ c \in Conns /\ Leads(i, c, k)
      BY <1>0, <1>5, <2>1, <2>3 DEF Order, Posted, Indices
    <3> QED BY <1>3, <2>1, <2>3, <3>1
  <2> QED BY <1>5, <2>2, <2>3, WhichEventsWait
<1>6. ASSUME NEW k \in Pending', events'[k].kind # "Disconnected"
      PROVE  events'[k].conn \in Conns
  <2>1. CASE k \in Pending /\ events'[k] = events[k]
    BY <1>0, <1>6, <2>1 DEF Order
  <2>2. CASE events'[k] = server.event /\ server.pc = "post"
    BY <1>0, <2>2 DEF Posted
  <2>3. CASE events'[k] = [kind |-> "Disconnected", id |-> main.id, conn |-> NoConn]
    BY <1>6, <2>3
  <2> QED BY <2>1, <2>2, <2>3, WhichEventsWait
<1>7. ASSUME server'.pc = "post", server'.event.kind # "Connected"
      PROVE  Leads(server.event.id, server.event.conn, Len(events) + 1)'
  <2>1. PICK i, c, m : i = server'.event.id /\ c = server'.event.conn /\ m = Len(events') + 1
    OBVIOUS
  <2>2. CASE server' = server
    <3>1. i \in Slots /\ c \in Conns /\ Leads(i, c, Len(events) + 1) /\ ~Post
      BY <1>0, <1>7, <2>1, <2>2, ServerMoves, EventFacts
         DEF Order, Posted, Indices, Post, At, TypeOK, ServerType, ServerGoes
    <3>2. Leads(i, c, m)'
      BY <1>0, <1>4, <2>1, <3>1
    <3> QED BY <2>1, <3>2
  <2>3. CASE Read
    <3>1. /\ server.at \in Slots /\ slot[server.at] \in FDs
          /\ file[slot[server.at]] \in Conns
          /\ i = server.at /\ c = file[slot[server.at]] /\ server.pc = "scan"
      BY <1>7, <2>1, <2>3, ServerMoves DEF Read, At, ServerGoes
    <3>2. Leads(i, c, Len(events) + 1)
      BY <1>0, <3>1, ServerAssumption DEF Order, FDs
    <3>3. ~Post
      BY <3>1 DEF Post, At
    <3>4. Leads(i, c, m)'
      BY <1>0, <1>4, <2>1, <3>1, <3>2, <3>3
    <3> QED BY <2>1, <3>4
  <2> QED BY <1>7, <2>2, <2>3, WhichEventIsHeld
<1>8. ASSUME NEW i \in Slots, slot'[i] # 0, file'[slot'[i]] # NoConn,
             ~(server'.pc = "post" /\ server'.event.kind = "Connected" /\ server'.at = i)
      PROVE  Leads(i, file[slot[i]], Len(events) + 1)'
  <2>1. slot'[i] = slot[i] /\ file'[slot[i]] = file[slot[i]]
    BY <1>8, WhoseSlot
  <2>2. PICK c, m : c = file'[slot'[i]] /\ m = Len(events') + 1 /\ c = file[slot[i]]
    BY <2>1
  <2>3. c \in Conns
    BY <1>0, <1>8, <2>1, <2>2 DEF TypeOK
  <2>4. CASE Post /\ server.event.kind = "Connected" /\ server.event.id = i
    <3>1. server.event.conn = c /\ server.pc = "post"
      BY <1>0, <2>2, <2>4 DEF Post, At, Posted
    <3>2. /\ Len(events') = Len(events) + 1 /\ Len(events) + 1 \in Pending'
          /\ events'[Len(events) + 1] = server.event
      BY <2>4, QueueGrows
    <3>3. Leads(i, c, m)'
      <4>1. Announces(server.event, c)
        BY <2>4, <3>1 DEF Announces
      <4>2. \A j \in Pending' : j <= Len(events) + 1
        BY <1>0, <1>1, <3>2
      <4> QED BY <1>0, <1>1, <2>2, <2>4, <3>1, <3>2, <4>1, <4>2 DEF Leads
    <3> QED BY <2>2, <3>3
  <2>5. CASE ~(Post /\ server.event.kind = "Connected" /\ server.event.id = i)
    <3>1. ~(server.pc = "post" /\ server.event.kind = "Connected" /\ server.at = i)
      <4> SUFFICES ASSUME server.pc = "post" /\ server.event.kind = "Connected" /\ server.at = i
                   PROVE  FALSE
        OBVIOUS
      <4>1. server' # server /\ ~Post
        BY <1>0, <1>8, <2>5 DEF Posted
      <4>2. ServerStep \/ server' = server
        BY DEF vars, Next, MainStep, Connect, Say, HangUp, Finish, HandleEvents, Connected,
               Disconnected, ReceivedData, HandledAll, ClearSlot, CloseSocket,
               PostDisconnected, ResetTask
      <4> QED BY <4>1, <4>2
              DEF ServerStep, Select, NoClient, Accept, Refuse, ScanEnds, Pass, Read,
                  Close, Zero, At
    <3>2. Leads(i, c, Len(events) + 1)
      BY <1>0, <1>8, <2>1, <2>2, <3>1 DEF Order
    <3>3. Leads(i, c, m)'
      BY <1>0, <1>4, <2>2, <2>3, <2>5, <3>2
    <3> QED BY <2>2, <3>3
  <2> QED BY <2>4, <2>5
<1> QED BY <1>5, <1>6, <1>7, <1>8 DEF Order

-----------------------------------------------------------------------------
(* What follows holds as long as every connection ends from one side.      *)
LEMMA Invariance == ASSUME EndsFromOneSide PROVE Spec => []IInv
<1>1. ASSUME IInv, [Next]_vars PROVE IInv'
  BY <1>1, NextTypes, NextSockets, NextPosted, NextAnnouncements, NextHomes, NextEndings,
     NextOrder DEF IInv
<1> QED BY <1>1, InitIInv, PTL DEF Spec

(* Every variable keeps its type (TCPServer, MacTCP).                      *)
THEOREM TypeCorrect == ASSUME EndsFromOneSide PROVE Spec => []TypeOK
<1>1. IInv => TypeOK
  BY DEF IInv
<1> QED BY <1>1, Invariance, PTL

(* A slot in use stands for one open connection and no other slot does     *)
(* (serverTask's accept and close, disconnect).                            *)
THEOREM OneSlotOneConnection ==
    ASSUME EndsFromOneSide PROVE Spec => []SlotsAreDistinctConnections
<1>1. IInv => SlotsAreDistinctConnections
  BY DEF IInv, Sockets, SlotsAreDistinctConnections, At
<1> QED BY <1>1, Invariance, PTL

(* What is received goes to the task of the connection it came from or to  *)
(* none, whatever has become of its slot (handleEvents).                   *)
THEOREM ReceivedByItsTask ==
    ASSUME EndsFromOneSide PROVE Spec => []DataReachesItsTask
<1>1. ASSUME IInv PROVE DataReachesItsTask
  <2> SUFFICES ASSUME Handling, Current.kind = "ReceivedData"
               PROVE  task[Current.id] \in {NoConn, Current.conn}
    BY DEF DataReachesItsTask
  <2>1. main.at \in Pending /\ Current = events[main.at] /\ \A k \in Pending : main.at <= k
    BY <1>1, LenProperties DEF Handling, Pending, Current, IInv, TypeOK, Indices
  <2>2. Current.conn \in Conns /\ Leads(Current.id, Current.conn, main.at)
    BY <1>1, <2>1, ServerAssumption DEF IInv, Order
  <2>3. \A k \in Pending : ~(k < main.at)
    BY <1>1, <2>1, PendingEvents
  <2> QED BY <2>2, <2>3 DEF Leads
<1> QED BY <1>1, Invariance, PTL

(* A task ends because it has finished, because its client has hung up, or *)
(* because the connection that had its slot before has finished            *)
(* (disconnect, handleEvents).                                             *)
THEOREM TasksEndForTheirSlot ==
    ASSUME EndsFromOneSide PROVE Spec => TaskEndsForItsSlot
<1> DEFINE Rightly == \A c \in Conns : c \in live /\ c \notin live' =>
          \/ Finish(c) \/ peer[c] = "down"
          \/ \E d \in Conns \ {c} : HadFinished(d) /\ home[d] = home[c]
<1>1. ASSUME IInv, [Next]_vars PROVE [Rightly]_vars
  <2> SUFFICES ASSUME NEW c \in Conns, c \in live, c \notin live', ~Finish(c)
               PROVE  \/ peer[c] = "down"
                      \/ \E d \in Conns \ {c} : HadFinished(d) /\ home[d] = home[c]
    OBVIOUS
  <2>1. Disconnected
    BY <1>1
       DEF vars, netVars, Next, ServerStep, MainStep, Connect, Say, HangUp, Finish, Select,
           NoClient, ScanEnds, Pass, Read, Post, Zero, Accept, Refuse, Close, HandleEvents,
           Connected, ReceivedData, HandledAll, ClearSlot, CloseSocket, PostDisconnected,
           ResetTask
  <2>2. /\ task[Current.id] = c /\ Current.kind = "Disconnected"
        /\ main.at \in Pending /\ Current = events[main.at] /\ \A k \in Pending : main.at <= k
    BY <1>1, <2>1, QueueHandled DEF Disconnected
  <2>3. Current.id \in Slots /\ Current.conn \in Conns \cup {NoConn} /\ NoConn \notin Conns
    BY <1>1, <2>2, PendingEvents, ServerAssumption
  <2>4. home[c] = Current.id
    BY <1>1, <2>2, <2>3 DEF IInv, Homes
  <2>5. CASE Current.conn = NoConn
    <3>1. PICK d \in Conns : Gone(d, Current.id)
      BY <1>1, <2>2, <2>5 DEF IInv, Endings
    <3> QED BY <2>4, <3>1 DEF Gone, HadFinished
  <2>6. CASE Current.conn # NoConn
    <3>1. Leads(Current.id, Current.conn, main.at) /\ peer[Current.conn] = "down"
      BY <1>1, <2>2, <2>6 DEF IInv, Order, Endings
    <3>2. \A k \in Pending : ~(k < main.at)
      BY <1>1, <2>2, PendingEvents
    <3> QED BY <2>2, <2>3, <3>1, <3>2 DEF Leads
  <2> QED BY <2>5, <2>6
<1>2. IInv /\ [Next]_vars => [Rightly]_vars
  BY <1>1
<1> QED BY <1>2, Invariance, PTL DEF Spec, TaskEndsForItsSlot
=============================================================================
