--------------------------- MODULE NetworkProofs ---------------------------
(***************************************************************************)
(* What TLAPS proves of Network for every number of clients, slots and     *)
(* addresses, on both systems, and of WebRequest for every request.        *)
(***************************************************************************)
EXTENDS Network, WebRequest, SequenceTheorems, FiniteSetTheorems, WellFoundedInduction, TLAPS

(* A set of numbers has a least element, which is how an induction over    *)
(* numbers is written here: the least counterexample has none before it.   *)
LEMMA LeastElement ==
    ASSUME NEW S \in SUBSET Nat, S # {}
    PROVE  \E x \in S : \A y \in S : x <= y
<1> DEFINE upTo == {1..x : x \in S}
<1>1. upTo \subseteq FiniteSubsetsOf(Nat) /\ upTo # {}
  <2>1. ASSUME NEW x \in S PROVE 1..x \in SUBSET Nat /\ IsFiniteSet(1..x)
    BY FS_Interval
  <2> QED BY <2>1 DEF FiniteSubsetsOf
<1>2. PICK T \in upTo : \A U \in upTo : ~(<<U, T>> \in StrictSubsetOrdering(Nat))
  BY <1>1, FS_StrictSubsetOrderingWellFounded, WFMin, Zenon
<1>3. PICK x \in S : T = 1..x
  OBVIOUS
<1>4. ASSUME NEW y \in S, y < x PROVE FALSE
  <2>1. 1..y \subseteq 1..x /\ x \in 1..x /\ x \notin 1..y /\ 1..y \in upTo
    BY <1>4
  <2>2. <<1..y, 1..x>> \in StrictSubsetOrdering(Nat)
    BY <2>1 DEF StrictSubsetOrdering
  <2> QED BY <1>2, <1>3, <2>1, <2>2
<1>5. \A y \in S : x <= y
  BY <1>4
<1> QED BY <1>5

(* The least element of a set is one of its elements.                      *)
LEMMA MinIsElement ==
    ASSUME NEW S \in SUBSET Nat, S # {}
    PROVE  Min(S) \in S
BY LeastElement DEF Min

(* Counting with one element more or less.                                 *)
LEMMA OneMoreOneLess ==
    ASSUME NEW S, IsFiniteSet(S), NEW x
    PROVE  /\ Cardinality(S) \in Nat
           /\ IsFiniteSet(S \ {x}) /\ Cardinality(S \ {x}) \in Nat
           /\ Cardinality(S \ {x}) \in {Cardinality(S), Cardinality(S) - 1}
           /\ x \in S => Cardinality(S \ {x}) = Cardinality(S) - 1
           /\ IsFiniteSet(S \cup {x}) /\ Cardinality(S \cup {x}) \in Nat
           /\ Cardinality(S \cup {x}) \in {Cardinality(S), Cardinality(S) + 1}
           /\ x \notin S => Cardinality(S \cup {x}) = Cardinality(S) + 1
BY FS_AddElement, FS_RemoveElement, FS_CardinalityType

-----------------------------------------------------------------------------
TaskPlaces == {"none", "bind", "select", "accept", "scan", "post", "push", "element", "exited"}
MainPlaces == {"idle", "size", "data", "start", "through", "handling", "body", "done", "drop",
               "blocked", "crashed"}
EventKinds == {"Connected", "Data", "Disconnected", "Error"}

EventEntries == [kind : EventKinds, id : 0..MaxConnections, of : Clients \cup {NoClient},
                 valid : BOOLEAN]

PlanType == [locked : BOOLEAN, slots : Slots, clients : SUBSET Clients,
             addresses : 0..MaxAddresses, losses : Nat, phones : Nat]
WifiType == [pc : {"idle", "push", "size", "element"}, tries : Nat, config : Nat, phones : Nat,
             addresses : Nat, losses : Nat, size : Nat, alone : BOOLEAN]
ListType == [data : [1..MaxAddresses -> {"None", "NetworkStarted"}], size : Nat]
TaskType == [pc : TaskPlaces, port : BOOLEAN, ready : SUBSET Clients, at : Nat,
             entry : EventEntries, size : Nat]
MainType == [pc : MainPlaces, at : Nat, end : Nat, moved : BOOLEAN,
             event : {"None", "NetworkStarted"}, back : MainPlaces]

StationTypes ==
    /\ plan \in PlanType
    /\ link \in {"idle", "asked", "up"}
    /\ wifiQ \in Seq({"start", "gotIp", "disconnected"})
    /\ wifi \in WifiType
    /\ list \in ListType
    /\ due \in BOOLEAN

ClientTypes ==
    /\ peer \in [Clients -> {"away", "up", "down", "dropped"}]
    /\ sent \in [Clients -> Nat]
    /\ unread \in [Clients -> Nat]
    /\ home \in [Clients -> Nat \X Nat]
    /\ got \in [Clients -> SUBSET [of : Clients, part : {"header", "body"}]]
    /\ unseen \in SUBSET Clients

ServerTypes ==
    /\ backlog \in Seq(Clients)
    /\ task \in [Servers -> TaskType]
    /\ slot \in [Servers -> [Slots -> Clients \cup {NoClient}]]
    /\ events \in [Servers -> Seq(EventEntries)]

MainTypes == web \in 0..MaxAddresses /\ main \in MainType

TypeOK == StationTypes /\ ClientTypes /\ ServerTypes /\ MainTypes
-----------------------------------------------------------------------------
(* The addresses the driver has announced and the handler has not begun.   *)
Left == {k \in 1..Len(wifiQ) : wifiQ[k] = "gotIp" /\ (k = 1 => wifi.pc = "idle")}

Fresh == {k \in 1..MaxAddresses :
            list.data[k] = "NetworkStarted" /\ ~(Taking /\ k = main.at + 1)}

InFlight == IF wifi.pc \in {"push", "element"} THEN 1 ELSE 0

Held == IF main.pc = "start" \/ (Taking /\ main.event = "NetworkStarted") THEN 1 ELSE 0

Announced ==
    /\ wifi.pc # "idle" => wifiQ # <<>> /\ Head(wifiQ) = "gotIp"
    /\ wifi.addresses <= plan.addresses
    /\ list.size + Cardinality(Left) <= wifi.addresses
    /\ wifi.pc # "idle" => wifi.size + 1 + Cardinality(Left) <= wifi.addresses
    /\ Taking => main.at + 1 + Cardinality(Left) <= wifi.addresses
    /\ web + Held + Cardinality(Fresh) + InFlight + Cardinality(Left) <= wifi.addresses

AnnouncedOnce ==
    /\ wifiQ = <<>> /\ wifi.pc = "idle" /\ link = "idle" /\ wifi.config = 0
    /\ \/ list.size = 1 /\ web = 0 /\ main.pc = "idle"
       \/ list.size = 1 /\ web = 0 /\ main.pc = "size" /\ main.at = 0
       \/ list.size = 0 /\ web = 0 /\ main.pc = "data" /\ main.at = 0
       \/ list.size = 0 /\ web = 0 /\ main.pc = "start"
       \/ list.size = 0 /\ web \in {0, 1} /\ ~Taking /\ main.pc # "start"

Announcements == IF plan.locked THEN AnnouncedOnce ELSE Announced

Nowhere == <<0, 0>>

(* The state of a task: one of them has the port, and an event in its hand *)
(* is about to be added.                                                   *)
PortAt(s) ==
    /\ task[s].pc \in {"select", "accept", "scan"} => task[s].port
    /\ task[s].pc \in {"post", "push", "element"} /\ ~task[s].port => task[s].at = 0
    /\ At(s, "accept") => backlog # <<>> /\ task[s].at = 1
    /\ task[s].pc \notin {"post", "push", "element"} => task[s].entry = Junk
    /\ plan.locked => ~At(s, "element")

Ports ==
    /\ \A s, t \in Servers : task[s].port /\ task[t].port => s = t
    /\ \A s \in Servers : PortAt(s)

(* A client is accepted in one slot of one server, for good.               *)
Homes ==
    /\ \A j, k \in 1..Len(backlog) : backlog[j] = backlog[k] => j = k
    /\ \A k \in 1..Len(backlog) : peer[backlog[k]] \in {"up", "down"} /\ home[backlog[k]] = Nowhere
    /\ \A c \in Clients : peer[c] = "away" => home[c] = Nowhere
    /\ \A s \in Servers, i \in Slots :
          slot[s][i] # NoClient => home[slot[s][i]] = <<s, i>> /\ peer[slot[s][i]] \in {"up", "down"}

(* What select() has reported is there until its slot is read.             *)
ReadyAt(s) ==
    \A c \in task[s].ready :
        /\ home[c] # Nowhere
        /\ \A i \in Slots : i >= task[s].at /\ slot[s][i] = c => unread[c] > 0 \/ peer[c] = "down"

Ready == \A s \in Servers : ReadyAt(s)

(* An event names the client of its slot as long as that client is up, an  *)
(* error one that has hung up.                                             *)
IsSound(s, e) ==
    /\ e.kind = "Data" =>
         /\ e.of \in Clients /\ e.id \in Slots /\ home[e.of] = <<s, e.id>>
         /\ peer[e.of] = "up" => slot[s][e.id] = e.of
    /\ e.kind = "Error" /\ e.id # 0 =>
         e.of \in Clients /\ home[e.of] = <<s, e.id>> /\ peer[e.of] = "down"

IsEnding(s, e) ==
    e.kind = "Disconnected" =>
        /\ e.id \in Slots /\ e.of \in Clients /\ home[e.of] = <<s, e.id>>
        /\ slot[s][e.id] \in {NoClient, e.of}
        /\ peer[e.of] = "down"

EntriesAt(s) ==
    /\ \A k \in 1..Len(events[s]) : IsSound(s, events[s][k])
    /\ IsSound(s, task[s].entry)
    /\ IsEnding(s, task[s].entry)

Entries == \A s \in Servers : EntriesAt(s)

(* The size that was read is behind what is being handled; an element that *)
(* is missing is still junk.                                               *)
PushAt(s) ==
    /\ At(s, "push") /\ main.pc # "crashed" =>
         IF Handling(s) THEN main.end <= task[s].size /\ ~plan.locked
         ELSE events[s] = <<>> \/ Len(events[s]) = task[s].size
    /\ At(s, "element") /\ main.pc # "crashed" =>
         \/ events[s] = <<>>
         \/ task[s].size + 1 <= Len(events[s]) /\ events[s][task[s].size + 1] = Junk

Pushes == \A s \in Servers : PushAt(s)

(* The loop of handleEvents stays within the list, at a request while it   *)
(* answers.                                                                *)
Handles ==
    /\ main.pc \in {"handling", "body", "done", "drop", "blocked"} <=> main.end > 0
    /\ main.end > 0 =>
         /\ web \in Servers /\ main.end <= Len(events[web])
         /\ main.at \in 1..(main.end + 1)
         /\ main.pc # "handling" => main.at <= main.end
    /\ main.pc \in {"body", "done"} => Current.kind = "Data"
    /\ main.pc \in {"drop", "blocked"} =>
         \/ Current.kind = "Data" /\ main.back \in {"handling", "body", "done"}
         \/ Current.kind = "Error" /\ Current.id # 0 /\ main.back = "handling"

Answered ==
    \A c \in Clients : \A a \in got[c] :
        /\ home[a.of] # Nowhere
        /\ a.of = c \/ (home[a.of] = home[c] /\ peer[a.of] # "up")

Blocks ==
    /\ main.pc = "blocked" => plan.locked
    /\ plan.locked => \A c \in Clients : peer[c] = "dropped" =>
          home[c] = Nowhere \/ main.pc = "blocked"
    /\ plan.locked /\ main.pc \in {"drop", "blocked"} =>
          \E c \in Clients : peer[c] = "down" /\ home[c] = <<web, Current.id>>

Service ==
    /\ Ports /\ Homes /\ Ready /\ Entries /\ Pushes /\ Handles /\ Answered /\ Blocks

IInv == TypeOK /\ Announcements /\ Service

-----------------------------------------------------------------------------
LEMMA CountsAreNat ==
    ASSUME TypeOK
    PROVE  /\ IsFiniteSet(Left) /\ Cardinality(Left) \in Nat
           /\ IsFiniteSet(Fresh) /\ Cardinality(Fresh) \in Nat
<1>1. Len(wifiQ) \in Nat /\ MaxAddresses \in Nat
  BY NetworkAssumption, LenProperties DEF TypeOK, StationTypes
<1>2. \A n \in Nat : IsFiniteSet(1..n)
  BY FS_Interval
<1>3. Left \subseteq 1..Len(wifiQ) /\ Fresh \subseteq 1..MaxAddresses
  BY DEF Left, Fresh
<1>4. IsFiniteSet(Left) /\ IsFiniteSet(Fresh)
  BY <1>1, <1>2, <1>3, FS_Subset
<1> QED BY <1>4, FS_CardinalityType

(* The driver adds an event behind the others.                             *)
LEMMA LeftAppends ==
    ASSUME TypeOK, NEW e \in {"gotIp", "disconnected"}, wifiQ' = Append(wifiQ, e),
           wifi'.pc = wifi.pc, wifi.pc # "idle" => wifiQ # <<>>
    PROVE  /\ e = "gotIp" => Cardinality(Left') = Cardinality(Left) + 1
           /\ e # "gotIp" => Left' = Left
<1>1. /\ wifiQ \in Seq({"start", "gotIp", "disconnected"})
      /\ Len(wifiQ) \in Nat /\ Len(wifiQ') = Len(wifiQ) + 1
      /\ \A k \in 1..Len(wifiQ) : wifiQ'[k] = wifiQ[k]
      /\ wifiQ'[Len(wifiQ) + 1] = e
      /\ Len(wifiQ) = 0 => wifi.pc = "idle"
  BY AppendProperties, LenProperties, EmptySeq DEF TypeOK, StationTypes
<1>2. CASE e = "gotIp"
  <2>1. Left' = Left \cup {Len(wifiQ) + 1} /\ Len(wifiQ) + 1 \notin Left
    BY <1>1, <1>2 DEF Left
  <2> QED BY <1>2, <2>1, CountsAreNat, OneMoreOneLess
<1>3. CASE e # "gotIp"
  BY <1>1, <1>3 DEF Left
<1> QED BY <1>2, <1>3

(* The handler is done with an event.                                      *)
LEMMA LeftShifts ==
    ASSUME TypeOK, wifiQ # <<>>, wifiQ' = Tail(wifiQ)
    PROVE  IsFiniteSet(Left') /\ Cardinality(Left') <= Cardinality(Left)
<1>1. /\ Len(wifiQ) \in Nat \ {0} /\ Len(wifiQ') = Len(wifiQ) - 1
      /\ \A k \in 1..Len(wifiQ') : wifiQ'[k] = wifiQ[k + 1]
  BY HeadTailProperties, LenProperties, EmptySeq DEF TypeOK, StationTypes
<1>2. \A k \in Left' : k \in Nat /\ k + 1 \in Left
  BY <1>1 DEF Left
<1> DEFINE after == [k \in Left' |-> k + 1]
<1>3. after \in Injection(Left', Left)
  <2>1. after \in [Left' -> Left]
    BY <1>2
  <2>2. \A j, k \in Left' : after[j] = after[k] => j = k
    BY <1>2
  <2> QED BY <2>1, <2>2 DEF Injection, IsInjective
<1> QED BY <1>3, CountsAreNat, FS_Injection

(* The handler begins to add the address at the head.                      *)
LEMMA LeftBegins ==
    ASSUME TypeOK, WifiEvent("gotIp"), wifiQ' = wifiQ, wifi'.pc = "push"
    PROVE  Cardinality(Left) = Cardinality(Left') + 1
<1>1. /\ Len(wifiQ) \in Nat \ {0} /\ wifiQ[1] = "gotIp" /\ wifi.pc = "idle"
  BY HeadTailProperties, LenProperties, EmptySeq DEF TypeOK, StationTypes, WifiEvent
<1>2. Left' = Left \ {1} /\ 1 \in Left
  BY <1>1 DEF Left
<1>3. Cardinality(Left \ {1}) = Cardinality(Left) - 1 /\ Cardinality(Left) \in Nat
  BY <1>2, CountsAreNat, OneMoreOneLess
<1> QED BY <1>2, <1>3

(* The steps of the station's record. *)
Alike(v, w) == v.pc = w.pc /\ v.size = w.size /\ v.addresses = w.addresses

LEMMA WifiNumbers ==
    ASSUME NEW w \in WifiType, NEW m \in Nat, NEW n \in Nat
    PROVE  /\ [w EXCEPT !.tries = m, !.config = n] \in WifiType
           /\ [w EXCEPT !.config = m, !.phones = n] \in WifiType
           /\ [w EXCEPT !.pc = "push", !.size = m, !.alone = TRUE] \in WifiType
           /\ [w EXCEPT !.pc = "push", !.size = m, !.alone = FALSE] \in WifiType
<1>1. [w EXCEPT !.tries = m, !.config = n] \in WifiType
  BY DEF WifiType
<1>2. [w EXCEPT !.config = m, !.phones = n] \in WifiType
  BY DEF WifiType
<1>3. [w EXCEPT !.pc = "push", !.size = m, !.alone = TRUE] \in WifiType
  BY DEF WifiType
<1>4. [w EXCEPT !.pc = "push", !.size = m, !.alone = FALSE] \in WifiType
  BY DEF WifiType
<1> QED BY <1>1, <1>2, <1>3, <1>4

LEMMA WifiLosses ==
    ASSUME NEW w \in WifiType
    PROVE  [w EXCEPT !.losses = @ + 1] \in WifiType /\ Alike([w EXCEPT !.losses = @ + 1], w)
<1>1. [w EXCEPT !.losses = @ + 1] \in WifiType
  BY DEF WifiType
<1>2. Alike([w EXCEPT !.losses = @ + 1], w)
  BY DEF WifiType, Alike
<1> QED BY <1>1, <1>2

LEMMA WifiTries ==
    ASSUME NEW w \in WifiType
    PROVE  [w EXCEPT !.tries = @ + 1] \in WifiType /\ Alike([w EXCEPT !.tries = @ + 1], w)
<1>1. [w EXCEPT !.tries = @ + 1] \in WifiType
  BY DEF WifiType
<1>2. Alike([w EXCEPT !.tries = @ + 1], w)
  BY DEF WifiType, Alike
<1> QED BY <1>1, <1>2

LEMMA WifiAlone ==
    ASSUME NEW w \in WifiType
    PROVE  [w EXCEPT !.alone = FALSE] \in WifiType /\ Alike([w EXCEPT !.alone = FALSE], w)
<1>1. [w EXCEPT !.alone = FALSE] \in WifiType
  BY DEF WifiType
<1>2. Alike([w EXCEPT !.alone = FALSE], w)
  BY DEF WifiType, Alike
<1> QED BY <1>1, <1>2

LEMMA WifiGivesUp ==
    ASSUME NEW w \in WifiType
    PROVE  /\ [w EXCEPT !.tries = @ + 1, !.config = @ + 1] \in WifiType
           /\ Alike([w EXCEPT !.tries = @ + 1, !.config = @ + 1], w)
<1>1. w.tries + 1 \in Nat /\ w.config + 1 \in Nat
  BY DEF WifiType
<1>2. [w EXCEPT !.tries = @ + 1, !.config = @ + 1] \in WifiType
  BY <1>1, WifiNumbers, Zenon
<1>3. Alike([w EXCEPT !.tries = @ + 1, !.config = @ + 1], w)
  BY DEF WifiType, Alike
<1> QED BY <1>2, <1>3

LEMMA WifiPhones ==
    ASSUME NEW w \in WifiType, w.config > 0
    PROVE  /\ [w EXCEPT !.config = @ - 1, !.phones = @ + 1] \in WifiType
           /\ Alike([w EXCEPT !.config = @ - 1, !.phones = @ + 1], w)
<1>1. w.config - 1 \in Nat /\ w.phones + 1 \in Nat
  BY DEF WifiType
<1>2. [w EXCEPT !.config = @ - 1, !.phones = @ + 1] \in WifiType
  BY <1>1, WifiNumbers, Zenon
<1>3. Alike([w EXCEPT !.config = @ - 1, !.phones = @ + 1], w)
  BY DEF WifiType, Alike
<1> QED BY <1>2, <1>3

LEMMA WifiAnnounces ==
    ASSUME NEW w \in WifiType
    PROVE  /\ [w EXCEPT !.addresses = @ + 1] \in WifiType
           /\ [w EXCEPT !.addresses = @ + 1].pc = w.pc
           /\ [w EXCEPT !.addresses = @ + 1].size = w.size
           /\ [w EXCEPT !.addresses = @ + 1].addresses = w.addresses + 1
BY DEF WifiType

LEMMA WifiBegins ==
    ASSUME NEW w \in WifiType, NEW n \in Nat, NEW b \in BOOLEAN
    PROVE  /\ [w EXCEPT !.pc = "push", !.size = n, !.alone = b] \in WifiType
           /\ [w EXCEPT !.pc = "push", !.size = n, !.alone = b].pc = "push"
           /\ [w EXCEPT !.pc = "push", !.size = n, !.alone = b].size = n
           /\ [w EXCEPT !.pc = "push", !.size = n, !.alone = b].addresses = w.addresses
<1>1. [w EXCEPT !.pc = "push", !.size = n, !.alone = b] \in WifiType
  BY WifiNumbers, b \in {TRUE, FALSE}
<1> QED BY <1>1 DEF WifiType

LEMMA WifiPushes ==
    ASSUME NEW w \in WifiType, NEW p \in {"size", "element"}
    PROVE  /\ [w EXCEPT !.pc = p] \in WifiType
           /\ [w EXCEPT !.pc = p].pc = p
           /\ [w EXCEPT !.pc = p].size = w.size
           /\ [w EXCEPT !.pc = p].addresses = w.addresses
BY DEF WifiType

LEMMA WifiEnds ==
    ASSUME NEW w \in WifiType
    PROVE  /\ [w EXCEPT !.pc = "idle", !.size = 0, !.alone = FALSE] \in WifiType
           /\ [w EXCEPT !.pc = "idle", !.size = 0, !.alone = FALSE].pc = "idle"
           /\ [w EXCEPT !.pc = "idle", !.size = 0, !.alone = FALSE].addresses = w.addresses
BY DEF WifiType

(* The radio, the phone and the handler of the events of the station.      *)
LEMMA StationStep ==
    ASSUME TypeOK, Announcements, Answers \/ Lose \/ Provision \/ WifiStep
    PROVE  /\ StationTypes' /\ Announcements'
           /\ UNCHANGED <<clientVars, serverVars, web, main, plan>>
<1> USE DEF StationTypes, MainTypes
<1>1. /\ plan \in PlanType /\ wifi \in WifiType /\ list \in ListType /\ main \in MainType
      /\ wifiQ \in Seq({"start", "gotIp", "disconnected"}) /\ web \in Nat
      /\ MaxAddresses \in Nat \ {0}
  BY NetworkAssumption DEF TypeOK
<1>2. UNCHANGED <<clientVars, serverVars, web, main, plan>>
  BY DEF Answers, Lose, Provision, WifiStep, StaStart, StaDisconnected, StaGotIp,
         AddEventBegins, AddEventEnds
<1>same. web' = web /\ main' = main /\ plan' = plan
  BY <1>2
<1>3. ~plan.locked /\ Announced
  <2>1. ~AnnouncedOnce
    BY <1>1 DEF AnnouncedOnce, Answers, Lose, Provision, WifiStep, StaStart, StaDisconnected,
                StaGotIp, AddEventBegins, AddEventEnds, WifiEvent, WifiType
  <2> QED BY <2>1 DEF Announcements
<1>4. /\ Cardinality(Left) \in Nat /\ IsFiniteSet(Left)
      /\ Cardinality(Fresh) \in Nat /\ IsFiniteSet(Fresh)
  BY CountsAreNat
<1>5. (Taking' <=> Taking) /\ Held' = Held
  BY <1>2 DEF Taking, Held
<1>nats. /\ wifi.addresses \in Nat /\ wifi.size \in Nat /\ list.size \in Nat /\ main.at \in Nat
       /\ plan.addresses \in Nat /\ 0 \in Nat /\ InFlight \in Nat /\ Held \in Nat
  BY <1>1 DEF WifiType, ListType, MainType, PlanType, InFlight, Held
<1>6. ASSUME link' \in {"idle", "asked", "up"}, list' = list, due' = due,
             wifiQ' = Append(wifiQ, "disconnected"), wifi' \in WifiType, Alike(wifi', wifi)
      PROVE  StationTypes' /\ Announcements'
  <2> USE <1>6 DEF Alike
  <2>1. wifiQ' \in Seq({"start", "gotIp", "disconnected"})
    BY <1>1, <1>6, AppendProperties
  <2>2. Left' = Left
    BY <1>3, <1>6, LeftAppends DEF Announced
  <2>3. Fresh' = Fresh /\ InFlight' = InFlight
    BY <1>2, <1>6 DEF Fresh, InFlight, Taking
  <2>4. wifi.pc # "idle" => wifiQ' # <<>> /\ Head(wifiQ') = "gotIp"
    BY <1>1, <1>3, <1>6, AppendProperties, HeadTailProperties, LenProperties, EmptySeq DEF Announced
  <2>5. Announced'
    BY <1>2, <1>3, <1>5, <1>6, <2>2, <2>3, <2>4 DEF Announced
  <2> QED BY <1>2, <1>3, <1>6, <2>1, <2>5, TypeOK DEF Announcements, TypeOK
<1>7. ASSUME Answers PROVE StationTypes' /\ Announcements'
  <2>1. CASE link' = "idle"
    <3>1. /\ wifi' = [wifi EXCEPT !.losses = @ + 1] /\ list' = list /\ due' = due
          /\ wifiQ' = Append(wifiQ, "disconnected")
      BY <1>7, <2>1 DEF Answers, sysVars
    <3>2. wifi' \in WifiType /\ Alike(wifi', wifi)
      BY <1>1, <3>1, WifiLosses, Zenon
    <3> QED BY <1>6, <2>1, <3>1, <3>2
  <2>2. CASE link' = "up"
    <3>1. /\ wifi' = [wifi EXCEPT !.addresses = @ + 1] /\ list' = list /\ due' = due
          /\ wifiQ' = Append(wifiQ, "gotIp") /\ wifi.addresses < plan.addresses
      BY <1>7, <2>2 DEF Answers, sysVars
    <3>2. /\ wifi' \in WifiType /\ wifi'.pc = wifi.pc /\ wifi'.size = wifi.size
          /\ wifi'.addresses = wifi.addresses + 1
      BY <1>1, <3>1, WifiAnnounces
    <3>3. wifiQ' \in Seq({"start", "gotIp", "disconnected"})
      BY <1>1, <3>1, AppendProperties
    <3>4. Cardinality(Left') = Cardinality(Left) + 1
      BY <1>3, <3>1, <3>2, LeftAppends DEF Announced
    <3>5. Fresh' = Fresh /\ InFlight' = InFlight /\ InFlight \in Nat /\ Held \in Nat
      BY <1>2, <3>1, <3>2 DEF Fresh, InFlight, Taking, Held
    <3>6. wifi.pc # "idle" => wifiQ' # <<>> /\ Head(wifiQ') = "gotIp"
      BY <1>1, <1>3, <3>1, AppendProperties, HeadTailProperties, LenProperties, EmptySeq
         DEF Announced
    <3>7. Announced'
      <4>1. wifi'.addresses <= plan'.addresses
        BY <1>same, <1>nats, <1>3, <3>1, <3>2, <3>4, <3>5, <3>6 DEF Announced
      <4>2. list'.size + Cardinality(Left') <= wifi'.addresses
        BY <1>nats, <1>3, <1>4, <3>1, <3>2, <3>4, <3>5, <3>6 DEF Announced
      <4>3. wifi'.pc # "idle" => wifi'.size + 1 + Cardinality(Left') <= wifi'.addresses
        BY <1>nats, <1>3, <1>4, <3>1, <3>2, <3>4, <3>5, <3>6 DEF Announced
      <4>4. Taking => main.at + 1 + Cardinality(Left') <= wifi'.addresses
        BY <1>nats, <1>3, <1>4, <3>1, <3>2, <3>4, <3>5, <3>6 DEF Announced
      <4>5. web + Held + Cardinality(Fresh') + InFlight' + Cardinality(Left') <= wifi'.addresses
        BY <1>1, <1>nats, <1>3, <1>4, <3>1, <3>2, <3>4, <3>5, <3>6 DEF Announced
      <4>6. wifi'.pc # "idle" => wifiQ' # <<>> /\ Head(wifiQ') = "gotIp"
        BY <1>3, <3>1, <3>2, <3>4, <3>5, <3>6 DEF Announced
      <4> QED BY <1>5, <1>same, <4>1, <4>2, <4>3, <4>4, <4>5, <4>6 DEF Announced
    <3> QED BY <1>1, <1>2, <1>3, <2>2, <3>1, <3>2, <3>3, <3>7 DEF Announcements, TypeOK
  <2> QED BY <1>7, <2>1, <2>2 DEF Answers
<1>8. ASSUME Lose PROVE StationTypes' /\ Announcements'
  <2>1. /\ wifi' = [wifi EXCEPT !.losses = @ + 1] /\ list' = list /\ due' = due
        /\ wifiQ' = Append(wifiQ, "disconnected") /\ link' = "idle"
    BY <1>8 DEF Lose, sysVars
  <2>2. wifi' \in WifiType /\ Alike(wifi', wifi)
    BY <1>1, <2>1, WifiLosses, Zenon
  <2> QED BY <1>6, <2>1, <2>2
<1>9. ASSUME list' = list, due' = due, wifiQ' = wifiQ, wifi' \in WifiType, Alike(wifi', wifi),
             link' \in {"idle", "asked", "up"}
      PROVE  StationTypes' /\ Announcements'
  <2> USE <1>9 DEF Alike
  <2>1. Left' = Left /\ Fresh' = Fresh /\ InFlight' = InFlight
    BY <1>2, <1>9 DEF Left, Fresh, InFlight, Taking
  <2>2. Announced'
    BY <1>2, <1>3, <1>5, <1>9, <2>1 DEF Announced
  <2> QED BY <1>1, <1>2, <1>3, <1>9, <2>2 DEF Announcements, TypeOK
<1>10. ASSUME Provision PROVE StationTypes' /\ Announcements'
  <2>1. /\ wifi' = [wifi EXCEPT !.config = @ - 1, !.phones = @ + 1] /\ wifi.config > 0
        /\ list' = list /\ due' = due /\ link' = "asked"
        /\ wifiQ' = Append(wifiQ, "disconnected") \/ wifiQ' = wifiQ
    BY <1>10 DEF Provision, sysVars
  <2>2. wifi' \in WifiType /\ Alike(wifi', wifi)
    BY <1>1, <2>1, WifiPhones, Zenon
  <2> QED BY <1>6, <1>9, <2>1, <2>2
<1>11. ASSUME wifiQ # <<>>, wifiQ' = Tail(wifiQ), wifi' \in WifiType, wifi'.pc = "idle",
              wifi'.addresses = wifi.addresses, list' \in ListType, due' \in BOOLEAN,
              link' \in {"idle", "asked", "up"},
              list'.size = list.size \/ (wifi.pc # "idle" /\ list'.size = wifi.size + 1),
              Cardinality(Fresh') \in Nat,
              Cardinality(Fresh') <= Cardinality(Fresh) + InFlight
       PROVE  StationTypes' /\ Announcements'
  <2>1. wifiQ' \in Seq({"start", "gotIp", "disconnected"})
    BY <1>1, <1>11, HeadTailProperties
  <2>2. Cardinality(Left') <= Cardinality(Left) /\ Cardinality(Left') \in Nat
    BY <1>11, LeftShifts, FS_CardinalityType
  <2>3. InFlight' = 0 /\ InFlight \in Nat /\ Held \in Nat
    BY <1>11 DEF InFlight, Held
  <2>4. /\ wifi.addresses \in Nat /\ list.size \in Nat /\ list'.size \in Nat /\ main.at \in Nat
        /\ wifi.size \in Nat
    BY <1>1, <1>11 DEF WifiType, ListType, MainType
  <2>5. list'.size + Cardinality(Left) <= wifi.addresses
    BY <1>3, <1>4, <1>11, <2>4 DEF Announced
  <2>6. web + Held + Cardinality(Fresh') + 0 + Cardinality(Left') <= wifi.addresses
    <3>1. web + Held + Cardinality(Fresh) + InFlight + Cardinality(Left) <= wifi.addresses
      BY <1>3 DEF Announced
    <3>2. /\ web \in Nat /\ Cardinality(Fresh) \in Nat /\ Cardinality(Left) \in Nat
          /\ Cardinality(Fresh') \in Nat /\ Cardinality(Fresh') <= Cardinality(Fresh) + InFlight
      BY <1>1, <1>4, <1>11, NetworkAssumption
    <3>3. \A w, h, f, g, i, l, m, a \in Nat :
            w + h + f + i + l <= a /\ g <= f + i /\ m <= l => w + h + g + 0 + m <= a
      OBVIOUS
    <3> QED BY <2>2, <2>3, <2>4, <3>1, <3>2, <3>3
  <2>7. Announced'
    <3>1. wifi'.addresses <= plan'.addresses
      BY <1>same, <1>nats, <1>3, <1>11, <2>2, <2>3, <2>4, <2>5, <2>6 DEF Announced
    <3>2. list'.size + Cardinality(Left') <= wifi'.addresses
      BY <1>nats, <1>3, <1>4, <1>11, <2>2, <2>3, <2>4, <2>5, <2>6 DEF Announced
    <3>3. wifi'.pc # "idle" => wifi'.size + 1 + Cardinality(Left') <= wifi'.addresses
      BY <1>nats, <1>3, <1>4, <1>11, <2>2, <2>3, <2>4, <2>5, <2>6 DEF Announced
    <3>4. Taking => main.at + 1 + Cardinality(Left') <= wifi'.addresses
      <4>1. Taking => main.at + 1 + Cardinality(Left) <= wifi.addresses
        BY <1>3 DEF Announced
      <4> QED BY <1>nats, <1>4, <1>11, <2>2, <4>1
    <3>5. web + Held + Cardinality(Fresh') + InFlight' + Cardinality(Left') <= wifi'.addresses
      BY <1>1, <1>nats, <1>3, <1>4, <1>11, <2>2, <2>3, <2>4, <2>5, <2>6 DEF Announced
    <3>6. wifi'.pc # "idle" => wifiQ' # <<>> /\ Head(wifiQ') = "gotIp"
      BY <1>3, <1>11, <2>2, <2>3, <2>4, <2>5, <2>6 DEF Announced
    <3> QED BY <1>5, <1>same, <3>1, <3>2, <3>3, <3>4, <3>5, <3>6 DEF Announced
  <2> QED BY <1>1, <1>2, <1>3, <1>11, <2>1, <2>7 DEF Announcements, TypeOK
<1>12. ASSUME StaStart \/ StaDisconnected PROVE StationTypes' /\ Announcements'
  <2>1. /\ wifiQ # <<>> /\ wifiQ' = Tail(wifiQ) /\ wifi.pc = "idle"
        /\ list' = list /\ due' = due /\ link' \in {"idle", "asked", "up"}
    BY <1>12 DEF StaStart, StaDisconnected, WifiEvent, Connect, sysVars, TypeOK
  <2>2. wifi' \in WifiType /\ Alike(wifi', wifi)
    <3>1. \/ wifi' = wifi
          \/ wifi' = [wifi EXCEPT !.tries = @ + 1, !.config = @ + 1]
          \/ wifi' = [wifi EXCEPT !.tries = @ + 1]
      BY <1>12 DEF StaStart, StaDisconnected
    <3>2. wifi \in WifiType /\ Alike(wifi, wifi)
      BY <1>1 DEF Alike
    <3> QED BY <3>1, <3>2, WifiTries, WifiGivesUp, Zenon
  <2>3. Fresh' = Fresh
    BY <1>2, <2>1 DEF Fresh, Taking
  <2>4. Cardinality(Fresh) <= Cardinality(Fresh) + InFlight
    BY <1>4 DEF InFlight
  <2> QED BY <1>1, <1>4, <1>11, <2>1, <2>2, <2>3, <2>4, TypeOK DEF TypeOK, Alike
<1>13. ASSUME StaGotIp PROVE StationTypes' /\ Announcements'
  <2>1. /\ WifiEvent("gotIp") /\ wifiQ' = wifiQ /\ wifi.pc = "idle" /\ list' = list
        /\ link' = link /\ due' = due
        /\ wifi' = [wifi EXCEPT !.pc = "push", !.size = list.size, !.alone = ~Taking]
    BY <1>13 DEF StaGotIp, WifiEvent, sysVars
  <2>2. /\ wifi' \in WifiType /\ wifi'.pc = "push" /\ wifi'.size = list.size
        /\ wifi'.addresses = wifi.addresses
    <3>1. PICK others \in BOOLEAN : others = ~Taking
      BY DEF Taking
    <3>2. wifi' = [wifi EXCEPT !.pc = "push", !.size = list.size, !.alone = others]
      BY <2>1, <3>1
    <3>3. wifi \in WifiType /\ list.size \in Nat /\ others \in BOOLEAN
      BY <1>1, <1>nats
    <3>4. /\ [wifi EXCEPT !.pc = "push", !.size = list.size, !.alone = others] \in WifiType
          /\ [wifi EXCEPT !.pc = "push", !.size = list.size, !.alone = others].pc = "push"
          /\ [wifi EXCEPT !.pc = "push", !.size = list.size, !.alone = others].size = list.size
          /\ [wifi EXCEPT !.pc = "push", !.size = list.size, !.alone = others].addresses
                = wifi.addresses
      BY <3>3, WifiBegins, Zenon
    <3> QED BY <3>2, <3>4, Zenon
  <2>3. Cardinality(Left) = Cardinality(Left') + 1 /\ Cardinality(Left') \in Nat
    <3>1. Left' \subseteq Left
      BY <2>1, <2>2 DEF Left
    <3> QED BY <1>4, <2>1, <2>2, <3>1, LeftBegins, FS_Subset, FS_CardinalityType
  <2>4. Fresh' = Fresh /\ InFlight' = 1 /\ InFlight = 0 /\ Held \in Nat
    BY <1>2, <2>1, <2>2 DEF Fresh, InFlight, Taking, Held
  <2>5. wifiQ' # <<>> /\ Head(wifiQ') = "gotIp"
    BY <2>1 DEF WifiEvent
  <2>6. Announced'
    <3>1. wifi'.addresses <= plan'.addresses
      BY <1>same, <1>nats, <1>3, <2>1, <2>2, <2>3, <2>4, <2>5 DEF Announced
    <3>2. list'.size + Cardinality(Left') <= wifi'.addresses
      BY <1>nats, <1>3, <1>4, <2>1, <2>2, <2>3, <2>4, <2>5 DEF Announced
    <3>3. wifi'.pc # "idle" => wifi'.size + 1 + Cardinality(Left') <= wifi'.addresses
      BY <1>nats, <1>3, <1>4, <2>1, <2>2, <2>3, <2>4, <2>5 DEF Announced
    <3>4. Taking => main.at + 1 + Cardinality(Left') <= wifi'.addresses
      BY <1>nats, <1>3, <1>4, <2>1, <2>2, <2>3, <2>4, <2>5 DEF Announced
    <3>5. web + Held + Cardinality(Fresh') + InFlight' + Cardinality(Left') <= wifi'.addresses
      BY <1>1, <1>nats, <1>3, <1>4, <2>1, <2>2, <2>3, <2>4, <2>5 DEF Announced
    <3>6. wifi'.pc # "idle" => wifiQ' # <<>> /\ Head(wifiQ') = "gotIp"
      BY <1>3, <2>1, <2>2, <2>3, <2>4, <2>5 DEF Announced
    <3> QED BY <1>5, <1>same, <3>1, <3>2, <3>3, <3>4, <3>5, <3>6 DEF Announced
  <2> QED BY <1>1, <1>2, <1>3, <2>1, <2>2, <2>6 DEF Announcements, TypeOK
<1>14. ASSUME list' = WithElement
       PROVE  /\ list' \in ListType /\ list'.size = list.size
              /\ Cardinality(Fresh') \in Nat /\ Cardinality(Fresh') <= Cardinality(Fresh) + 1
  <2>1. list' \in ListType /\ list'.size = list.size
        /\ \A k \in 1..MaxAddresses : k # wifi.size + 1 => list'.data[k] = list.data[k]
    BY <1>1, <1>14 DEF WithElement, ListType
  <2>2. Fresh' \subseteq Fresh \cup {wifi.size + 1}
    BY <1>2, <2>1 DEF Fresh, Taking
  <2>3. /\ IsFiniteSet(Fresh \cup {wifi.size + 1})
        /\ Cardinality(Fresh \cup {wifi.size + 1}) \in {Cardinality(Fresh), Cardinality(Fresh) + 1}
    BY <1>4, OneMoreOneLess
  <2>4. /\ IsFiniteSet(Fresh')
        /\ Cardinality(Fresh') <= Cardinality(Fresh \cup {wifi.size + 1})
        /\ Cardinality(Fresh') \in Nat
    BY <2>2, <2>3, FS_Subset, FS_CardinalityType
  <2> QED BY <1>4, <2>1, <2>3, <2>4
<1>15. ASSUME list' = WithSize
       PROVE  /\ list' \in ListType /\ list'.size = wifi.size + 1 /\ Fresh' = Fresh
  <2>1. list' \in ListType /\ list'.size = wifi.size + 1 /\ list'.data = list.data
    BY <1>1, <1>15 DEF WithSize, ListType, WifiType
  <2> QED BY <1>2, <2>1 DEF Fresh, Taking
<1>16. ASSUME AddEventBegins PROVE StationTypes' /\ Announcements'
  <2>1. /\ wifi.pc = "push" /\ wifiQ' = wifiQ /\ link' = link /\ due' = due
        /\ \/ list' = WithElement /\ wifi' = [wifi EXCEPT !.pc = "size"]
           \/ list' = WithSize    /\ wifi' = [wifi EXCEPT !.pc = "element"]
    BY <1>16 DEF AddEventBegins
  <2>2. /\ wifi' \in WifiType /\ wifi'.pc # "idle" /\ wifi'.size = wifi.size
        /\ wifi'.addresses = wifi.addresses
    BY <1>1, <2>1, WifiPushes
  <2>3. Left' = Left
    BY <2>1, <2>2 DEF Left
  <2>4. InFlight = 1 /\ Held \in Nat
    BY <2>1 DEF InFlight, Held
  <2>5. /\ list' \in ListType
        /\ list'.size = list.size \/ list'.size = wifi.size + 1
        /\ Cardinality(Fresh') \in Nat /\ InFlight' \in Nat
        /\ Cardinality(Fresh') + InFlight' <= Cardinality(Fresh) + 1
    <3>1. CASE list' = WithElement /\ wifi' = [wifi EXCEPT !.pc = "size"]
      <4>1. InFlight' = 0
        BY <1>1, <3>1, WifiPushes DEF InFlight
      <4> QED BY <1>4, <1>14, <3>1, <4>1
    <3>2. CASE list' = WithSize /\ wifi' = [wifi EXCEPT !.pc = "element"]
      <4>1. InFlight' = 1
        BY <1>1, <3>2, WifiPushes DEF InFlight
      <4> QED BY <1>4, <1>15, <3>2, <4>1
    <3> QED BY <2>1, <3>1, <3>2
  <2>6. list'.size + Cardinality(Left) <= wifi.addresses
    BY <1>3, <1>4, <2>1, <2>2, <2>5 DEF Announced
  <2>7. Announced'
    <3>1. wifi'.addresses <= plan'.addresses
      BY <1>same, <1>nats, <1>3, <2>1, <2>2, <2>3, <2>4, <2>5, <2>6 DEF Announced
    <3>2. list'.size + Cardinality(Left') <= wifi'.addresses
      BY <1>nats, <1>3, <1>4, <2>1, <2>2, <2>3, <2>4, <2>5, <2>6 DEF Announced
    <3>3. wifi'.pc # "idle" => wifi'.size + 1 + Cardinality(Left') <= wifi'.addresses
      BY <1>nats, <1>3, <1>4, <2>1, <2>2, <2>3, <2>4, <2>5, <2>6 DEF Announced
    <3>4. Taking => main.at + 1 + Cardinality(Left') <= wifi'.addresses
      BY <1>nats, <1>3, <1>4, <2>1, <2>2, <2>3, <2>4, <2>5, <2>6 DEF Announced
    <3>5. web + Held + Cardinality(Fresh') + InFlight' + Cardinality(Left') <= wifi'.addresses
      <4>1. web + Held + Cardinality(Fresh) + 1 + Cardinality(Left) <= wifi.addresses
        BY <1>3, <2>4 DEF Announced
      <4>2. web \in Nat /\ Cardinality(Left') = Cardinality(Left)
        BY <1>1, <2>3, NetworkAssumption
      <4>3. \A w, h, f, g, i, l, a \in Nat :
              w + h + f + 1 + l <= a /\ g + i <= f + 1 => w + h + g + i + l <= a
        OBVIOUS
      <4>4. web + Held + Cardinality(Fresh') + InFlight' + Cardinality(Left) <= wifi.addresses
        BY <1>nats, <1>4, <2>5, <4>1, <4>2, <4>3
      <4> QED BY <2>2, <4>2, <4>4
    <3>6. wifi'.pc # "idle" => wifiQ' # <<>> /\ Head(wifiQ') = "gotIp"
      BY <1>3, <2>1, <2>2, <2>3, <2>4, <2>5, <2>6 DEF Announced
    <3> QED BY <1>5, <1>same, <3>1, <3>2, <3>3, <3>4, <3>5, <3>6 DEF Announced
  <2> QED BY <1>1, <1>2, <1>3, <2>1, <2>2, <2>5, <2>7 DEF Announcements, TypeOK
<1>17. ASSUME AddEventEnds PROVE StationTypes' /\ Announcements'
  <2>1. /\ wifi.pc \in {"size", "element"} /\ wifiQ' = Tail(wifiQ) /\ link' = link
        /\ list' = (IF wifi.pc = "size" THEN WithSize ELSE WithElement)
        /\ wifi' = [wifi EXCEPT !.pc = "idle", !.size = 0, !.alone = FALSE]
    BY <1>17 DEF AddEventEnds
  <2>2. due' \in BOOLEAN
    BY <1>17 DEF AddEventEnds
  <2>3. /\ wifi' \in WifiType /\ wifi'.pc = "idle" /\ wifi'.addresses = wifi.addresses
        /\ wifiQ # <<>> /\ wifi.pc # "idle"
    BY <1>1, <1>3, <2>1, WifiEnds DEF Announced
  <2>4. CASE wifi.pc = "size"
    <3>1. list' \in ListType /\ list'.size = wifi.size + 1 /\ Fresh' = Fresh /\ InFlight = 0
      BY <1>15, <2>1, <2>4 DEF InFlight
    <3> QED BY <1>1, <1>4, <1>11, <2>1, <2>2, <2>3, <3>1 DEF TypeOK
  <2>5. CASE wifi.pc = "element"
    <3>1. /\ list' \in ListType /\ list'.size = list.size
          /\ Cardinality(Fresh') \in Nat /\ Cardinality(Fresh') <= Cardinality(Fresh) + 1
          /\ InFlight = 1
      BY <1>14, <2>1, <2>5 DEF InFlight
    <3> QED BY <1>1, <1>4, <1>11, <2>1, <2>2, <2>3, <3>1 DEF TypeOK
  <2> QED BY <2>1, <2>4, <2>5
<1> QED BY <1>2, <1>7, <1>8, <1>10, <1>12, <1>13, <1>16, <1>17 DEF WifiStep

(* The main task does something else.                                      *)
LEMMA AnnouncementsKept ==
    ASSUME TypeOK, Announcements, UNCHANGED <<plan, stationVars, list, web>>,
           \/ main'.pc = main.pc /\ main'.at = main.at /\ main'.event = main.event
           \/ /\ main.pc \notin {"size", "data", "start"}
              /\ main'.pc \notin {"size", "data", "start"}
              /\ main.pc = "idle" => list.size = 0
    PROVE  Announcements'
<1>1. /\ plan' = plan /\ link' = link /\ wifiQ' = wifiQ /\ wifi' = wifi /\ list' = list
      /\ web' = web
  BY DEF stationVars
<1>2. CASE main'.pc = main.pc /\ main'.at = main.at /\ main'.event = main.event
  BY <1>1, <1>2 DEF Announcements, AnnouncedOnce, Announced, Left, Fresh, InFlight, Held, Taking
<1>3. CASE /\ main.pc \notin {"size", "data", "start"}
           /\ main'.pc \notin {"size", "data", "start"}
           /\ main.pc = "idle" => list.size = 0
  <2>1. Left' = Left /\ Fresh' = Fresh /\ InFlight' = InFlight /\ Held' = Held
    BY <1>1, <1>3 DEF Left, Fresh, InFlight, Held, Taking
  <2>2. CASE plan.locked
    <3>1. AnnouncedOnce
      BY <2>2 DEF Announcements
    <3>2. list.size = 0 /\ web \in {0, 1}
      BY <1>3, <3>1 DEF AnnouncedOnce
    <3>3. AnnouncedOnce'
      BY <1>1, <1>3, <3>1, <3>2 DEF AnnouncedOnce, Taking
    <3> QED BY <1>1, <2>2, <3>3 DEF Announcements
  <2>3. CASE ~plan.locked
    <3>1. Announced'
      BY <1>1, <1>3, <2>1, <2>3 DEF Announcements, Announced, Taking
    <3> QED BY <1>1, <2>3, <3>1 DEF Announcements
  <2> QED BY <2>2, <2>3
<1> QED BY <1>2, <1>3

(* The list and the servers have room for what has been announced.         *)
LEMMA RoomForAddresses ==
    ASSUME TypeOK, Announcements
    PROVE  /\ list.size <= MaxAddresses
           /\ main.pc = "start" => web + 1 \in Servers
<1>1. /\ Cardinality(Left) \in Nat /\ Cardinality(Fresh) \in Nat
      /\ web \in Nat /\ list.size \in Nat /\ InFlight \in Nat /\ wifi.addresses \in Nat
      /\ plan.addresses \in 0..MaxAddresses /\ MaxAddresses \in Nat \ {0}
  BY CountsAreNat, NetworkAssumption
     DEF TypeOK, StationTypes, MainTypes, PlanType, ListType, WifiType, InFlight
<1>2. CASE plan.locked
  BY <1>1, <1>2 DEF Announcements, AnnouncedOnce, Servers, Taking
<1>3. CASE ~plan.locked
  <2>1. /\ list.size + Cardinality(Left) <= wifi.addresses /\ wifi.addresses <= plan.addresses
        /\ main.pc = "start" =>
             web + 1 + Cardinality(Fresh) + InFlight + Cardinality(Left) <= wifi.addresses
    BY <1>3 DEF Announcements, Announced, Held
  <2> QED BY <1>1, <2>1 DEF Servers
<1> QED BY <1>2, <1>3

(* The main task takes the last event of the list.                         *)
LEMMA NextEventStep ==
    ASSUME TypeOK, Announcements, NextEvent
    PROVE  StationTypes' /\ MainTypes' /\ Announcements'
<1>1. /\ plan \in PlanType /\ wifi \in WifiType /\ list \in ListType /\ main \in MainType
      /\ web \in Nat /\ MaxAddresses \in Nat \ {0}
  BY NetworkAssumption DEF TypeOK, StationTypes, MainTypes
<1>2. /\ main.pc = "idle" /\ list.size > 0 /\ plan' = plan /\ link' = link /\ wifiQ' = wifiQ
      /\ list' = list /\ due' = due /\ web' = web
      /\ wifi' = [wifi EXCEPT !.alone = FALSE]
      /\ main' = [main EXCEPT !.pc = "size", !.at = list.size - 1, !.event = list.data[list.size]]
  BY DEF NextEvent, sysVars
<1>3. /\ list.size \in 1..MaxAddresses /\ wifi.addresses \in Nat /\ wifi.size \in Nat
      /\ list.data[list.size] \in {"None", "NetworkStarted"} /\ list.size - 1 \in Nat
  <2>1. list.size \in Nat /\ list.size <= MaxAddresses
    BY <1>1, RoomForAddresses DEF ListType
  <2>2. list.size \in 1..MaxAddresses
    BY <1>1, <1>2, <2>1
  <2> QED BY <1>1, <2>2 DEF ListType, WifiType
<1>4. /\ wifi' \in WifiType /\ Alike(wifi', wifi)
  BY <1>1, <1>2, WifiAlone, Zenon
<1>5. /\ main' \in MainType /\ main'.pc = "size" /\ main'.at = list.size - 1
      /\ main'.event = list.data[list.size]
  BY <1>1, <1>2, <1>3 DEF MainType, MainPlaces
<1>6. StationTypes' /\ MainTypes'
  BY <1>1, <1>2, <1>4, <1>5 DEF TypeOK, StationTypes, MainTypes
<1>7. ASSUME plan.locked PROVE Announcements'
  <2>1. AnnouncedOnce
    BY <1>7 DEF Announcements
  <2>2. wifi'.config = wifi.config
    BY <1>1, <1>2 DEF WifiType
  <2>3. list.size = 1 /\ web = 0
    BY <1>2, <2>1 DEF AnnouncedOnce
  <2>4. AnnouncedOnce'
    BY <1>2, <1>4, <1>5, <2>1, <2>2, <2>3 DEF AnnouncedOnce, Alike
  <2> QED BY <1>2, <1>7, <2>4 DEF Announcements
<1>8. ASSUME ~plan.locked PROVE Announcements'
  <2>1. Announced /\ ~Taking /\ Taking' /\ Held = 0
    BY <1>2, <1>5, <1>8 DEF Announcements, Taking, Held
  <2>2. /\ IsFiniteSet(Fresh) /\ Cardinality(Fresh) \in Nat /\ Cardinality(Left) \in Nat
        /\ InFlight \in Nat
    BY CountsAreNat DEF InFlight
  <2>3. Left' = Left /\ InFlight' = InFlight
    BY <1>2, <1>4 DEF Left, InFlight, Alike
  <2>4. Held' + Cardinality(Fresh') = Cardinality(Fresh) /\ Held' \in Nat
        /\ Cardinality(Fresh') \in Nat
    <3>1. Fresh' = Fresh \ {list.size}
      BY <1>1, <1>2, <1>3, <1>5, <2>1 DEF Fresh
    <3>2. CASE list.data[list.size] = "NetworkStarted"
      <4>1. list.size \in Fresh /\ Held' = 1
        BY <1>3, <1>5, <2>1, <3>2 DEF Fresh, Held
      <4>2. Cardinality(Fresh \ {list.size}) = Cardinality(Fresh) - 1
        BY <2>2, <4>1, OneMoreOneLess
      <4>3. Cardinality(Fresh) - 1 \in Nat
        BY <2>2, <4>1, <4>2, FS_RemoveElement, FS_CardinalityType
      <4> QED BY <2>2, <3>1, <4>1, <4>2, <4>3
    <3>3. CASE list.data[list.size] # "NetworkStarted"
      <4>1. list.size \notin Fresh /\ Held' = 0
        BY <1>3, <1>5, <2>1, <3>3 DEF Fresh, Held
      <4>2. Fresh' = Fresh
        BY <3>1, <4>1
      <4> QED BY <2>2, <4>1, <4>2
    <3> QED BY <3>2, <3>3
  <2>5. /\ wifi.addresses <= plan.addresses
        /\ list.size + Cardinality(Left) <= wifi.addresses
        /\ wifi.pc # "idle" => wifi.size + 1 + Cardinality(Left) <= wifi.addresses
        /\ web + 0 + Cardinality(Fresh) + InFlight + Cardinality(Left) <= wifi.addresses
    BY <2>1 DEF Announced
  <2>6. web + Held' + Cardinality(Fresh') + InFlight + Cardinality(Left) <= wifi.addresses
    BY <1>1, <1>3, <2>2, <2>4, <2>5
  <2>7. main'.at + 1 + Cardinality(Left) <= wifi.addresses
    BY <1>3, <1>5, <2>2, <2>5
  <2>8. wifi.pc # "idle" => wifiQ # <<>> /\ Head(wifiQ) = "gotIp"
    BY <2>1 DEF Announced
  <2>9. Announced'
    BY <1>2, <1>4, <2>3, <2>5, <2>6, <2>7, <2>8 DEF Announced, Alike
  <2> QED BY <1>2, <1>8, <2>9 DEF Announcements
<1> QED BY <1>6, <1>7, <1>8

LEMMA PopSizeStep ==
    ASSUME TypeOK, Announcements, PopSize
    PROVE  StationTypes' /\ MainTypes' /\ Announcements'
<1>1. /\ plan \in PlanType /\ wifi \in WifiType /\ list \in ListType /\ main \in MainType
      /\ web \in 0..MaxAddresses
  BY DEF TypeOK, StationTypes, MainTypes
<1>2. /\ main.pc = "size" /\ plan' = plan /\ link' = link /\ wifiQ' = wifiQ /\ wifi' = wifi
      /\ due' = due /\ web' = web
      /\ list' = [list EXCEPT !.size = main.at]
      /\ main' = [main EXCEPT !.pc = "data"]
  BY DEF PopSize, stationVars
<1>3. wifi.addresses \in Nat /\ wifi.size \in Nat /\ main.at \in Nat
  BY <1>1 DEF WifiType, MainType
<1>4. /\ list' \in ListType /\ list'.size = main.at /\ list'.data = list.data
  BY <1>1, <1>2, <1>3 DEF ListType
<1>5. /\ main' \in MainType /\ main'.pc = "data" /\ main'.at = main.at /\ main'.event = main.event
  BY <1>1, <1>2 DEF MainType, MainPlaces
<1>6. StationTypes' /\ MainTypes'
  BY <1>1, <1>2, <1>4, <1>5 DEF TypeOK, StationTypes, MainTypes
<1>7. ASSUME plan.locked PROVE Announcements'
  <2>1. AnnouncedOnce
    BY <1>7 DEF Announcements
  <2>2. main.at = 0 /\ web = 0
    BY <1>2, <2>1 DEF AnnouncedOnce, Taking
  <2>3. AnnouncedOnce'
    BY <1>2, <1>4, <1>5, <2>1, <2>2 DEF AnnouncedOnce
  <2> QED BY <1>2, <1>7, <2>3 DEF Announcements
<1>8. ASSUME ~plan.locked PROVE Announcements'
  <2>1. Announced /\ Taking /\ Taking'
    BY <1>2, <1>5, <1>8 DEF Announcements, Taking
  <2>2. Left' = Left /\ InFlight' = InFlight /\ Fresh' = Fresh /\ Held' = Held
    BY <1>2, <1>4, <1>5, <2>1 DEF Left, InFlight, Fresh, Held, Taking
  <2>3. Cardinality(Left) \in Nat
    BY CountsAreNat
  <2>4. main.at + 1 + Cardinality(Left) <= wifi.addresses
    BY <2>1 DEF Announced
  <2>5. list'.size + Cardinality(Left) <= wifi.addresses
    BY <1>3, <1>4, <2>3, <2>4
  <2>6. Announced'
    BY <1>2, <1>5, <2>1, <2>2, <2>4, <2>5 DEF Announced
  <2> QED BY <1>2, <1>8, <2>6 DEF Announcements
<1> QED BY <1>6, <1>7, <1>8

LEMMA PopDataStep ==
    ASSUME TypeOK, Announcements, PopData
    PROVE  StationTypes' /\ MainTypes' /\ Announcements'
<1>1. /\ plan \in PlanType /\ wifi \in WifiType /\ list \in ListType /\ main \in MainType
      /\ web \in 0..MaxAddresses
  BY DEF TypeOK, StationTypes, MainTypes
<1>2. /\ main.pc = "data" /\ plan' = plan /\ link' = link /\ wifiQ' = wifiQ /\ wifi' = wifi
      /\ due' = due /\ web' = web
      /\ list' = [list EXCEPT !.data[main.at + 1] = "None"]
      /\ main' = [Idle EXCEPT !.pc = IF main.event = "None" THEN "through" ELSE "start"]
  BY DEF PopData, stationVars
<1>3. /\ list' \in ListType /\ list'.size = list.size /\ main.event \in {"None", "NetworkStarted"}
      /\ \A k \in 1..MaxAddresses : k # main.at + 1 => list'.data[k] = list.data[k]
      /\ main.at + 1 \in 1..MaxAddresses => list'.data[main.at + 1] = "None"
  BY <1>1, <1>2 DEF ListType, MainType
<1>4. /\ main' \in MainType
      /\ main.event = "None" => main'.pc = "through"
      /\ main.event # "None" => main'.pc = "start"
  BY <1>1, <1>2 DEF MainType, MainPlaces, Idle
<1>5. StationTypes' /\ MainTypes'
  BY <1>1, <1>2, <1>3, <1>4 DEF TypeOK, StationTypes, MainTypes
<1>6. ASSUME plan.locked PROVE Announcements'
  <2>1. AnnouncedOnce
    BY <1>6 DEF Announcements
  <2>2. list.size = 0 /\ web = 0
    BY <1>2, <2>1 DEF AnnouncedOnce, Taking
  <2>3. AnnouncedOnce'
    BY <1>2, <1>3, <1>4, <2>1, <2>2 DEF AnnouncedOnce, Taking
  <2> QED BY <1>2, <1>6, <2>3 DEF Announcements
<1>7. ASSUME ~plan.locked PROVE Announcements'
  <2>1. Announced /\ Taking /\ ~Taking'
    BY <1>2, <1>4, <1>7 DEF Announcements, Taking
  <2>2. Left' = Left /\ InFlight' = InFlight /\ Held' = Held
    BY <1>2, <1>3, <1>4, <2>1 DEF Left, InFlight, Held
  <2>3. Fresh' = Fresh
    BY <1>3, <2>1 DEF Fresh
  <2>4. Announced'
    BY <1>2, <1>3, <2>1, <2>2, <2>3 DEF Announced
  <2> QED BY <1>2, <1>7, <2>4 DEF Announcements
<1> QED BY <1>5, <1>6, <1>7

LEMMA StartStep ==
    ASSUME TypeOK, Announcements, StartNetworkServers
    PROVE  StationTypes' /\ MainTypes' /\ Announcements'
<1>1. /\ plan \in PlanType /\ wifi \in WifiType /\ list \in ListType /\ main \in MainType
      /\ web \in 0..MaxAddresses /\ web \in Nat
  BY NetworkAssumption DEF TypeOK, StationTypes, MainTypes
<1>2. /\ main.pc = "start" /\ plan' = plan /\ link' = link /\ wifiQ' = wifiQ /\ wifi' = wifi
      /\ due' = FALSE /\ web' = web + 1 /\ list' = list /\ main' = Idle
  BY DEF StartNetworkServers, stationVars
<1>3. web + 1 \in 0..MaxAddresses
  BY <1>2, RoomForAddresses, NetworkAssumption DEF Servers
<1>4. /\ main' \in MainType /\ main'.pc = "idle"
  BY <1>1, <1>2 DEF MainType, MainPlaces, Idle
<1>5. StationTypes' /\ MainTypes'
  BY <1>1, <1>2, <1>3, <1>4 DEF TypeOK, StationTypes, MainTypes
<1>6. ASSUME plan.locked PROVE Announcements'
  <2>1. AnnouncedOnce
    BY <1>6 DEF Announcements
  <2>2. list.size = 0 /\ web = 0
    BY <1>2, <2>1 DEF AnnouncedOnce, Taking
  <2>3. AnnouncedOnce'
    BY <1>2, <1>4, <2>1, <2>2 DEF AnnouncedOnce, Taking
  <2> QED BY <1>2, <1>6, <2>3 DEF Announcements
<1>7. ASSUME ~plan.locked PROVE Announcements'
  <2>1. Announced /\ ~Taking /\ ~Taking' /\ Held = 1 /\ Held' = 0
    BY <1>2, <1>4, <1>7 DEF Announcements, Taking, Held
  <2>2. Left' = Left /\ InFlight' = InFlight /\ Fresh' = Fresh
    BY <1>2, <2>1 DEF Left, InFlight, Fresh
  <2>3. /\ Cardinality(Left) \in Nat /\ Cardinality(Fresh) \in Nat /\ InFlight \in Nat
        /\ wifi.addresses \in Nat
    BY <1>1, CountsAreNat DEF InFlight, WifiType
  <2>4. web + 1 + Cardinality(Fresh) + InFlight + Cardinality(Left) <= wifi.addresses
    BY <2>1 DEF Announced
  <2>5. web' + Held' + Cardinality(Fresh') + InFlight' + Cardinality(Left') <= wifi'.addresses
    BY <1>1, <1>2, <2>1, <2>2, <2>3, <2>4
  <2>6. Announced'
    BY <1>2, <2>1, <2>2, <2>5 DEF Announced
  <2> QED BY <1>2, <1>7, <2>6 DEF Announcements
<1> QED BY <1>5, <1>6, <1>7
-----------------------------------------------------------------------------
(* What no step takes back: where a client was accepted, that it has hung  *)
(* up, and its slot while it is up.                                        *)
Kept ==
    /\ \A c \in Clients : home[c] # Nowhere => home'[c] = home[c]
    /\ \A c \in Clients : home[c] # Nowhere /\ peer[c] = "down" => peer'[c] = "down"
    /\ \A c \in Clients : home[c] # Nowhere /\ peer'[c] = "up" => peer[c] = "up"
    /\ \A t \in Servers, i \in Slots, c \in Clients :
          home[c] = <<t, i>> /\ slot[t][i] = c /\ peer'[c] = "up" => slot'[t][i] = c

LEMMA KeptWhenSame ==
    ASSUME peer' = peer, home' = home, slot' = slot
    PROVE  Kept
BY DEF Kept

LEMMA Places ==
    /\ \A t \in Servers : t \in Nat \ {0}
    /\ \A i \in Slots : i \in Nat \ {0}
    /\ \A t \in Servers : \A i : <<t, i>> # Nowhere
    /\ NoClient \notin Clients
BY NetworkAssumption DEF Servers, Slots, Nowhere

LEMMA SoundKept ==
    ASSUME NEW t \in Servers, NEW e, Kept, IsSound(t, e)
    PROVE  IsSound(t, e)'
<1>1. <<t, e.id>> # Nowhere
  BY Places
<1>2. ASSUME e.kind = "Data"
      PROVE  /\ e.of \in Clients /\ e.id \in Slots /\ home'[e.of] = <<t, e.id>>
             /\ peer'[e.of] = "up" => slot'[t][e.id] = e.of
  <2>1. /\ e.of \in Clients /\ e.id \in Slots /\ home[e.of] = <<t, e.id>>
        /\ peer[e.of] = "up" => slot[t][e.id] = e.of
    BY <1>2 DEF IsSound
  <2> QED BY <1>1, <2>1 DEF Kept
<1>3. ASSUME e.kind = "Error", e.id # 0
      PROVE  e.of \in Clients /\ home'[e.of] = <<t, e.id>> /\ peer'[e.of] = "down"
  <2>1. e.of \in Clients /\ home[e.of] = <<t, e.id>> /\ peer[e.of] = "down"
    BY <1>3 DEF IsSound
  <2> QED BY <1>1, <2>1 DEF Kept
<1> QED BY <1>2, <1>3 DEF IsSound

LEMMA EndingKept ==
    ASSUME NEW t \in Servers, NEW e, Kept, IsEnding(t, e),
           \A i \in Slots : slot'[t][i] \in {slot[t][i], NoClient}
    PROVE  IsEnding(t, e)'
<1>1. ASSUME e.kind = "Disconnected"
      PROVE  /\ e.id \in Slots /\ e.of \in Clients /\ home'[e.of] = <<t, e.id>>
             /\ slot'[t][e.id] \in {NoClient, e.of} /\ peer'[e.of] = "down"
  <2>1. /\ e.id \in Slots /\ e.of \in Clients /\ home[e.of] = <<t, e.id>>
        /\ slot[t][e.id] \in {NoClient, e.of} /\ peer[e.of] = "down"
    BY <1>1 DEF IsEnding
  <2>2. home[e.of] # Nowhere
    BY <2>1, Places
  <2> QED BY <2>1, <2>2 DEF Kept
<1> QED BY <1>1 DEF IsEnding

LEMMA EntriesKept ==
    ASSUME NEW t \in Servers, Kept, EntriesAt(t), events'[t] = events[t],
           task'[t].entry = task[t].entry,
           \A i \in Slots : slot'[t][i] \in {slot[t][i], NoClient}
    PROVE  EntriesAt(t)'
<1>1. \A k \in 1..Len(events[t]) : IsSound(t, events[t][k])'
  BY SoundKept DEF EntriesAt
<1>2. IsSound(t, task[t].entry) /\ IsEnding(t, task[t].entry)
  BY DEF EntriesAt
<1>3. PICK e : e = task[t].entry
  OBVIOUS
<1>4. IsSound(t, e)' /\ IsEnding(t, e)'
  BY <1>2, <1>3, SoundKept, EndingKept
<1>5. \A k \in 1..Len(events'[t]) : IsSound(t, events[t][k])'
  BY <1>1
<1> QED BY <1>3, <1>4, <1>5 DEF EntriesAt, IsSound, IsEnding

LEMMA ReadyKept ==
    ASSUME NEW t \in Servers, Kept, ReadyAt(t), task[t].ready \subseteq Clients,
           task'[t].ready = task[t].ready, task'[t].at = task[t].at,
           \A i \in Slots : slot'[t][i] \in {slot[t][i], NoClient},
           \A i \in Slots : slot[t][i] \in Clients /\ unread[slot[t][i]] > 0
                              => unread'[slot[t][i]] > 0
    PROVE  ReadyAt(t)'
<1>1. ASSUME NEW c \in task[t].ready
      PROVE  /\ home'[c] # Nowhere
             /\ \A i \in Slots : i >= task[t].at /\ slot'[t][i] = c
                                   => unread'[c] > 0 \/ peer'[c] = "down"
  <2>1. /\ c \in Clients /\ c # NoClient /\ home[c] # Nowhere
        /\ \A i \in Slots : i >= task[t].at /\ slot[t][i] = c => unread[c] > 0 \/ peer[c] = "down"
    BY Places DEF ReadyAt
  <2>2. \A i \in Slots : slot'[t][i] = c => slot[t][i] = c
    BY <2>1
  <2> QED BY <2>1, <2>2 DEF Kept
<1> QED BY <1>1 DEF ReadyAt

LEMMA PushKept ==
    ASSUME NEW t \in Servers, PushAt(t), events'[t] = events[t], plan' = plan, web' = web,
           task'[t].pc = task[t].pc, task'[t].size = task[t].size,
           main'.pc = main.pc, main'.end = main.end
    PROVE  PushAt(t)'
BY DEF PushAt, At, Handling

LEMMA PortKept ==
    ASSUME NEW t \in Servers, PortAt(t), plan' = plan, task'[t] = task[t],
           At(t, "accept") => backlog' # <<>>
    PROVE  PortAt(t)'
BY DEF PortAt, At

LEMMA SameTasks ==
    ASSUME Ports, Homes, Ready, UNCHANGED <<plan, peer, unread, home, backlog, task, slot>>
    PROVE  Ports' /\ Homes' /\ Ready'
<1>1. Ports'
  BY DEF Ports, PortAt, At
<1>2. Homes'
  BY DEF Homes
<1>3. Ready'
  BY DEF Ready, ReadyAt
<1> QED BY <1>1, <1>2, <1>3

LEMMA SameEntries ==
    ASSUME Entries, UNCHANGED <<peer, home, task, slot, events>>
    PROVE  Entries'
<1>1. Kept
  BY KeptWhenSame
<1>2. ASSUME NEW t \in Servers PROVE EntriesAt(t)'
  BY <1>1, EntriesKept DEF Entries
<1> QED BY <1>2 DEF Entries

(* What the main task handles is still there. *)
LEMMA HandlesKept ==
    ASSUME Handles, web' = web, main'.pc = main.pc, main'.at = main.at, main'.end = main.end,
           main'.back = main.back,
           main.end > 0 => main.end <= Len(events'[web]),
           main.end > 0 /\ main.pc # "handling" => events'[web][main.at] = events[web][main.at]
    PROVE  Handles'
<1>1. main.pc \in {"body", "done", "drop", "blocked"} => Current' = Current
  BY DEF Handles, Current
<1> QED BY <1>1 DEF Handles

LEMMA AnsweredKept ==
    ASSUME Answered, Kept, ClientTypes, got' = got
    PROVE  Answered'
<1>1. ASSUME NEW c \in Clients, NEW a \in got[c]
      PROVE  /\ home'[a.of] # Nowhere
             /\ a.of = c \/ (home'[a.of] = home'[c] /\ peer'[a.of] # "up")
  <2>1. a.of \in Clients
    BY DEF ClientTypes
  <2> QED BY <2>1 DEF Answered, Kept
<1> QED BY <1>1 DEF Answered

LEMMA BlocksKept ==
    ASSUME Blocks, Kept, Handles, ClientTypes, plan' = plan, web' = web, main'.pc = main.pc,
           main'.at = main.at,
           \A c \in Clients : peer'[c] = "dropped" /\ peer[c] # "dropped" => home'[c] = Nowhere,
           \A c \in Clients : home[c] = Nowhere /\ peer[c] = "dropped" => home'[c] = Nowhere,
           main.end > 0 /\ main.pc # "handling" => events'[web][main.at] = events[web][main.at]
    PROVE  Blocks'
<1>1. main.pc \in {"drop", "blocked"} => Current' = Current /\ web \in Servers
  BY DEF Handles, Current
<1>2. ASSUME plan.locked, main.pc \in {"drop", "blocked"}
      PROVE  \E c \in Clients : peer'[c] = "down" /\ home'[c] = <<web, Current'.id>>
  <2>1. PICK c \in Clients : peer[c] = "down" /\ home[c] = <<web, Current.id>>
    BY <1>2 DEF Blocks
  <2>2. home[c] # Nowhere
    BY <1>1, <1>2, <2>1, Places
  <2> QED BY <1>1, <1>2, <2>1, <2>2 DEF Kept
<1> QED BY <1>2 DEF Blocks

(* No task and not the main task has moved.                                *)
LEMMA ServiceKept ==
    ASSUME IInv, Kept, Homes', UNCHANGED <<plan, task, slot, events, web, main, got>>,
           backlog # <<>> => backlog' # <<>>,
           \A c \in Clients : unread[c] > 0 => unread'[c] > 0,
           \A c \in Clients : peer'[c] = "dropped" /\ peer[c] # "dropped" => home'[c] = Nowhere,
           \A c \in Clients : home[c] = Nowhere /\ peer[c] = "dropped" => home'[c] = Nowhere
    PROVE  Service'
<1>1. ClientTypes /\ ServerTypes /\ Ports /\ Ready /\ Entries /\ Pushes /\ Handles /\ Answered /\ Blocks
  BY DEF IInv, TypeOK, Service
<1>2. Ports'
  <2>1. \A t \in Servers : PortAt(t)'
    BY <1>1, PortKept DEF Ports, PortAt
  <2> QED BY <1>1, <2>1 DEF Ports
<1>3. Ready'
  <2>1. \A t \in Servers : task[t].ready \subseteq Clients
    BY <1>1 DEF ServerTypes, TaskType
  <2>2. \A t \in Servers : ReadyAt(t)'
    BY <1>1, <2>1, ReadyKept DEF Ready
  <2> QED BY <2>2 DEF Ready
<1>4. Entries'
  <2>1. \A t \in Servers : EntriesAt(t)'
    BY <1>1, EntriesKept DEF Entries
  <2> QED BY <2>1 DEF Entries
<1>5. Pushes'
  <2>1. \A t \in Servers : PushAt(t)'
    BY <1>1, PushKept DEF Pushes
  <2> QED BY <2>1 DEF Pushes
<1>6. Handles'
  BY <1>1, HandlesKept DEF Handles
<1>7. Answered'
  BY <1>1, AnsweredKept
<1>8. Blocks'
  BY <1>1, BlocksKept
<1> QED BY <1>2, <1>3, <1>4, <1>5, <1>6, <1>7, <1>8 DEF Service

(* The clients.                                                            *)
LEMMA DialStep ==
    ASSUME IInv, NEW c \in Clients, Dial(c)
    PROVE  ClientTypes' /\ ServerTypes' /\ Service'
<1>1. ClientTypes /\ ServerTypes /\ Homes
  BY DEF IInv, TypeOK, Service
<1>2. /\ peer[c] = "away" /\ peer' = [peer EXCEPT ![c] = "up"] /\ backlog' = Append(backlog, c)
      /\ UNCHANGED <<plan, sent, unread, home, got, unseen, task, slot, events, web, main>>
  BY DEF Dial
<1>3. peer'[c] = "up" /\ \A d \in Clients : d # c => peer'[d] = peer[d]
  BY <1>1, <1>2 DEF ClientTypes
<1>4. ClientTypes' /\ ServerTypes'
  <2>1. peer' \in [Clients -> {"away", "up", "down", "dropped"}]
    BY <1>1, <1>2 DEF ClientTypes
  <2>2. backlog' \in Seq(Clients)
    BY <1>1, <1>2, AppendProperties DEF ServerTypes
  <2> QED BY <1>1, <1>2, <2>1, <2>2 DEF ClientTypes, ServerTypes
<1>5. home[c] = Nowhere
  BY <1>1, <1>2 DEF Homes
<1>6. Kept
  <2>1. \A d \in Clients : home[d] # Nowhere => d # c
    BY <1>5
  <2>2. \A t \in Servers, i \in Slots, d \in Clients : home[d] = <<t, i>> => d # c
    BY <1>5, Places
  <2> QED BY <1>2, <1>3, <2>1, <2>2 DEF Kept
<1>7. /\ Len(backlog) \in Nat /\ Len(backlog') = Len(backlog) + 1
      /\ \A k \in 1..Len(backlog) : backlog'[k] = backlog[k] /\ backlog[k] \in Clients
      /\ backlog'[Len(backlog) + 1] = c
  BY <1>1, <1>2, AppendProperties, LenProperties, ElementOfSeq DEF ServerTypes
<1>8. Homes'
  <2>1. \A k \in 1..Len(backlog) : backlog[k] # c
    BY <1>1, <1>2 DEF Homes
  <2>2. \A j, k \in 1..Len(backlog') : backlog'[j] = backlog'[k] => j = k
    BY <1>1, <1>7, <2>1 DEF Homes
  <2>3. \A k \in 1..Len(backlog') : peer'[backlog'[k]] \in {"up", "down"} /\ home'[backlog'[k]] = Nowhere
    BY <1>1, <1>2, <1>3, <1>5, <1>7, <2>1 DEF Homes
  <2>4. \A d \in Clients : peer'[d] = "away" => home'[d] = Nowhere
    BY <1>1, <1>2, <1>3 DEF Homes
  <2>5. \A s \in Servers, i \in Slots :
          slot'[s][i] # NoClient =>
            home'[slot'[s][i]] = <<s, i>> /\ peer'[slot'[s][i]] \in {"up", "down"}
    <3> SUFFICES ASSUME NEW s \in Servers, NEW i \in Slots, slot[s][i] # NoClient
                 PROVE  home[slot[s][i]] = <<s, i>> /\ peer'[slot[s][i]] \in {"up", "down"}
      BY <1>2
    <3>1. /\ home[slot[s][i]] = <<s, i>> /\ peer[slot[s][i]] \in {"up", "down"}
          /\ slot[s][i] \in Clients
      BY <1>1 DEF Homes, ServerTypes
    <3>2. slot[s][i] # c
      BY <1>5, <3>1, Places
    <3> QED BY <1>3, <3>1, <3>2
  <2> QED BY <2>2, <2>3, <2>4, <2>5 DEF Homes
<1>9. backlog' # <<>>
  BY <1>7, EmptySeq, LenProperties
<1>10. Service'
  BY <1>2, <1>3, <1>6, <1>8, <1>9, ServiceKept
<1> QED BY <1>4, <1>10

LEMMA AskStep ==
    ASSUME IInv, NEW c \in Clients, Ask(c)
    PROVE  ClientTypes' /\ ServerTypes' /\ Service'
<1>1. ClientTypes /\ ServerTypes /\ Homes
  BY DEF IInv, TypeOK, Service
<1>2. PICK n \in {1, 2} : n = IF c \in Splitting THEN 1 ELSE 2
  OBVIOUS
<1>3. /\ sent' = [sent EXCEPT ![c] = @ + n] /\ unread' = [unread EXCEPT ![c] = @ + n]
      /\ UNCHANGED <<plan, peer, home, got, unseen, backlog, task, slot, events, web, main>>
  BY <1>2 DEF Ask, serverVars
<1>4. \A d \in Clients : unread[d] > 0 => unread'[d] > 0
  BY <1>1, <1>3 DEF ClientTypes
<1>5. sent' \in [Clients -> Nat] /\ unread' \in [Clients -> Nat]
  BY <1>1, <1>3 DEF ClientTypes
<1>6. ClientTypes' /\ ServerTypes'
  BY <1>1, <1>3, <1>5 DEF ClientTypes, ServerTypes
<1>7. Kept /\ Homes'
  BY <1>1, <1>3, KeptWhenSame DEF Homes
<1>8. Service'
  BY <1>3, <1>4, <1>7, ServiceKept
<1> QED BY <1>6, <1>8

LEMMA HangUpStep ==
    ASSUME IInv, NEW c \in Clients, HangUp(c)
    PROVE  ClientTypes' /\ ServerTypes' /\ Service'
<1>1. ClientTypes /\ ServerTypes /\ Homes
  BY DEF IInv, TypeOK, Service
<1>2. /\ peer[c] = "up" /\ peer' = [peer EXCEPT ![c] = "down"]
      /\ UNCHANGED <<plan, sent, unread, home, got, unseen, backlog, task, slot, events, web, main>>
  BY DEF HangUp, serverVars
<1>3. /\ peer'[c] = "down" /\ \A d \in Clients : d # c => peer'[d] = peer[d]
      /\ peer' \in [Clients -> {"away", "up", "down", "dropped"}]
  BY <1>1, <1>2 DEF ClientTypes
<1>4. ClientTypes' /\ ServerTypes'
  BY <1>1, <1>2, <1>3 DEF ClientTypes, ServerTypes
<1>5. Kept
  BY <1>2, <1>3 DEF Kept
<1>6. Homes'
  <2>1. /\ \A s \in Servers, i \in Slots : slot[s][i] \in Clients \cup {NoClient}
        /\ \A k \in 1..Len(backlog) : backlog[k] \in Clients
    BY <1>1, ElementOfSeq DEF ServerTypes
  <2>2. \A k \in 1..Len(backlog') : peer'[backlog'[k]] \in {"up", "down"} /\ home'[backlog'[k]] = Nowhere
    BY <1>1, <1>2, <1>3, <2>1 DEF Homes
  <2>3. \A d \in Clients : peer'[d] = "away" => home'[d] = Nowhere
    BY <1>1, <1>2, <1>3 DEF Homes
  <2>4. \A s \in Servers, i \in Slots :
          slot'[s][i] # NoClient =>
            home'[slot'[s][i]] = <<s, i>> /\ peer'[slot'[s][i]] \in {"up", "down"}
    BY <1>1, <1>2, <1>3, <2>1 DEF Homes
  <2> QED BY <1>1, <1>2, <2>2, <2>3, <2>4 DEF Homes
<1>7. Service'
  BY <1>2, <1>3, <1>5, <1>6, ServiceKept
<1> QED BY <1>4, <1>7

(* Only the task of s has moved.                                           *)
LEMMA TaskKeeps ==
    ASSUME IInv, NEW s \in Servers, Kept, Homes',
           plan' = plan, web' = web, got' = got,
           main'.pc = main.pc, main'.at = main.at, main'.end = main.end, main'.back = main.back,
           \A t \in Servers : t # s =>
             task'[t] = task[t] /\ slot'[t] = slot[t] /\ events'[t] = events[t],
           \A t \in Servers : t # s => (At(t, "accept") => backlog' # <<>>),
           \A t \in Servers, i \in Slots : t # s /\ slot[t][i] \in Clients =>
             unread'[slot[t][i]] = unread[slot[t][i]],
           task'[s].port => task[s].port \/ Listening = {},
           PortAt(s)', ReadyAt(s)', EntriesAt(s)', PushAt(s)',
           main.end > 0 /\ web = s => main.end <= Len(events'[s]),
           main.end > 0 /\ web = s /\ main.pc # "handling" =>
             events'[s][main.at] = events[s][main.at],
           \A c \in Clients : peer'[c] = "dropped" /\ peer[c] # "dropped" => home'[c] = Nowhere,
           \A c \in Clients : home[c] = Nowhere /\ peer[c] = "dropped" => home'[c] = Nowhere
    PROVE  Service'
<1>1. ClientTypes /\ ServerTypes /\ Ports /\ Ready /\ Entries /\ Pushes /\ Handles /\ Answered /\ Blocks
  BY DEF IInv, TypeOK, Service
<1>2. Ports'
  <2>1. \A t \in Servers : t # s => PortAt(t)'
    BY <1>1, PortKept DEF Ports
  <2>2. \A t, u \in Servers : task'[t].port /\ task'[u].port => t = u
    <3>1. \A t \in Servers : t # s /\ task'[t].port => task[t].port
      OBVIOUS
    <3>2. \A t \in Servers : task[t].port => t \in Listening
      BY DEF Listening
    <3> QED BY <1>1, <3>1, <3>2 DEF Ports
  <2> QED BY <2>1, <2>2 DEF Ports
<1>3. Ready'
  <2>1. \A t \in Servers : task[t].ready \subseteq Clients
    BY <1>1 DEF ServerTypes, TaskType
  <2>2. \A t \in Servers : t # s => ReadyAt(t)'
    BY <1>1, <2>1, ReadyKept DEF Ready
  <2> QED BY <2>2 DEF Ready
<1>4. Entries'
  <2>1. \A t \in Servers : t # s => EntriesAt(t)'
    BY <1>1, EntriesKept DEF Entries
  <2> QED BY <2>1 DEF Entries
<1>5. Pushes'
  <2>1. \A t \in Servers : t # s => PushAt(t)'
    BY <1>1, PushKept DEF Pushes
  <2> QED BY <2>1 DEF Pushes
<1>6. main.end > 0 => web \in Servers /\ main.end <= Len(events[web])
  BY <1>1 DEF Handles
<1>7. /\ main.end > 0 => main.end <= Len(events'[web])
      /\ main.end > 0 /\ main.pc # "handling" => events'[web][main.at] = events[web][main.at]
  BY <1>6
<1>8. Handles'
  BY <1>1, <1>7, HandlesKept
<1>9. Answered'
  BY <1>1, AnsweredKept
<1>10. Blocks'
  BY <1>1, <1>7, BlocksKept
<1> QED BY <1>2, <1>3, <1>4, <1>5, <1>8, <1>9, <1>10 DEF Service

(* The task of s has written to no list and no slot.                       *)
LEMMA TaskTurns ==
    ASSUME IInv, NEW s \in Servers, NEW r \in TaskType, task' = [task EXCEPT ![s] = r],
           UNCHANGED <<plan, peer, sent, unread, home, got, unseen, backlog, slot, events, web, main>>,
           r.port => task[s].port \/ Listening = {},
           PortAt(s)', ReadyAt(s)', PushAt(s)',
           IsSound(s, r.entry), IsEnding(s, r.entry)
    PROVE  ClientTypes' /\ ServerTypes' /\ Service'
<1>1. ClientTypes /\ ServerTypes /\ Ports /\ Homes /\ Ready /\ Entries /\ Handles
  BY DEF IInv, TypeOK, Service
<1>2. task' \in [Servers -> TaskType] /\ task'[s] = r /\ \A t \in Servers : t # s => task'[t] = task[t]
  BY <1>1 DEF ServerTypes
<1>3. ClientTypes' /\ ServerTypes'
  BY <1>1, <1>2 DEF ClientTypes, ServerTypes
<1>4. Kept /\ Homes'
  BY <1>1, KeptWhenSame DEF Homes
<1>5. EntriesAt(s)'
  BY <1>1, <1>2 DEF Entries, EntriesAt, IsSound, IsEnding
<1>6. /\ \A t \in Servers : t # s => (At(t, "accept") => backlog' # <<>>)
      /\ main.end > 0 /\ web = s => main.end <= Len(events'[s])
  BY <1>1 DEF Ports, PortAt, Handles
<1>7. Service'
  BY <1>2, <1>4, <1>5, <1>6, TaskKeeps
<1> QED BY <1>3, <1>7

LEMMA JunkIsSound ==
    ASSUME NEW s
    PROVE  /\ Junk \in EventEntries /\ IsSound(s, Junk) /\ IsEnding(s, Junk)
           /\ Junk.kind = "Error" /\ Junk.id = 0
<1>1. 0 \in 0..MaxConnections
  BY NetworkAssumption
<1> QED BY <1>1 DEF Junk, Entry, EventEntries, EventKinds, IsSound, IsEnding

LEMMA BindStep ==
    ASSUME IInv, NEW s \in Servers, Bind(s)
    PROVE  ClientTypes' /\ ServerTypes' /\ Service'
<1>1. ServerTypes
  BY DEF IInv, TypeOK
<1>2. PICK r : r = Bound(s)
  OBVIOUS
<1>3. /\ task' = [task EXCEPT ![s] = r]
      /\ UNCHANGED <<plan, peer, sent, unread, home, got, unseen, backlog, slot, events, web, main>>
  BY <1>2 DEF Bind, clientVars
<1>4. /\ r \in TaskType /\ r.ready = {} /\ r.entry = Junk /\ r.pc \in {"select", "post"}
      /\ r.port => Listening = {}
      /\ r.pc = "select" => r.port
      /\ r.pc = "post" => r.at = 0
  BY <1>2, JunkIsSound DEF Bound, Resting, TaskType, TaskPlaces
<1>5. task'[s] = r
  BY <1>1, <1>3 DEF ServerTypes
<1>6. PortAt(s)' /\ ReadyAt(s)' /\ PushAt(s)'
  BY <1>4, <1>5 DEF PortAt, ReadyAt, PushAt, At
<1> QED BY <1>3, <1>4, <1>6, JunkIsSound, TaskTurns

Selected(r, t, ready, p) ==
    /\ r \in TaskType /\ r.ready = ready /\ r.at = 1 /\ r.pc = p
    /\ r.port = t.port /\ r.entry = t.entry

LEMMA TaskSelects ==
    ASSUME NEW t \in TaskType, NEW ready, ready \subseteq Clients, NEW p, p \in TaskPlaces
    PROVE  Selected([t EXCEPT !.ready = ready, !.at = 1, !.pc = p], t, ready, p)
BY DEF TaskType, Selected

LEMMA SelectStep ==
    ASSUME IInv, NEW s \in Servers, Select(s)
    PROVE  ClientTypes' /\ ServerTypes' /\ Service'
<1>1. ServerTypes /\ ClientTypes /\ Ports /\ Homes /\ Entries
  BY DEF IInv, TypeOK, Service
<1>2. PICK ready : ready \subseteq Clients /\
        ready = {c \in Clients : (unread[c] > 0 \/ peer[c] = "down")
                                 /\ \E i \in Slots : slot[s][i] = c}
  OBVIOUS
<1>3. PICK p \in {"accept", "scan"} : p = IF backlog # <<>> THEN "accept" ELSE "scan"
  OBVIOUS
<1>4. PICK r : r = [task[s] EXCEPT !.ready = ready, !.at = 1, !.pc = p]
  OBVIOUS
<1>5. /\ task[s].pc = "select" /\ task' = [task EXCEPT ![s] = r]
      /\ UNCHANGED <<plan, peer, sent, unread, home, got, unseen, backlog, slot, events, web, main>>
  BY <1>1, <1>2, <1>3, <1>4 DEF Select, clientVars, At, ServerTypes, TaskType
<1>6. task[s] \in TaskType
  BY <1>1 DEF ServerTypes
<1>7. /\ r \in TaskType /\ r.ready = ready /\ r.at = 1 /\ r.pc = p
      /\ r.port = task[s].port /\ r.entry = task[s].entry
  <2>1. ready \subseteq Clients /\ p \in TaskPlaces
    BY <1>2, <1>3 DEF TaskPlaces
  <2>2. Selected(r, task[s], ready, p)
    BY <1>4, <1>6, <2>1, TaskSelects, Zenon
  <2> QED BY <2>2 DEF Selected
<1>8. task'[s] = r
  BY <1>1, <1>5 DEF ServerTypes
<1>9. task[s].port /\ task[s].entry = Junk
  BY <1>1, <1>5 DEF Ports, PortAt
<1>10. ASSUME NEW c \in ready
       PROVE  home[c] # Nowhere /\ (unread[c] > 0 \/ peer[c] = "down")
  <2>1. PICK i \in Slots : slot[s][i] = c
    BY <1>2
  <2>2. c \in Clients /\ c # NoClient /\ (unread[c] > 0 \/ peer[c] = "down")
    BY <1>2, Places
  <2>3. home[c] = <<s, i>>
    BY <1>1, <2>1, <2>2 DEF Homes
  <2> QED BY <2>2, <2>3, Places
<1>11. PortAt(s)'
  BY <1>3, <1>5, <1>7, <1>8, <1>9 DEF PortAt, At
<1>12. ReadyAt(s)' /\ PushAt(s)'
  BY <1>5, <1>7, <1>8, <1>10 DEF ReadyAt, PushAt, At
<1> QED BY <1>5, <1>7, <1>9, <1>11, <1>12, JunkIsSound, TaskTurns

LEMMA ScanEndsStep ==
    ASSUME IInv, NEW s \in Servers, ScanEnds(s)
    PROVE  ClientTypes' /\ ServerTypes' /\ Service'
<1>1. ServerTypes /\ ClientTypes /\ Ports /\ Entries
  BY DEF IInv, TypeOK, Service
<1> DEFINE r == [task[s] EXCEPT !.pc = "select", !.ready = {}, !.at = 1]
<1>2. /\ task[s].pc = "scan" /\ task' = [task EXCEPT ![s] = r]
      /\ UNCHANGED <<plan, peer, sent, unread, home, got, unseen, backlog, slot, events, web, main>>
  BY <1>1 DEF ScanEnds, clientVars, At, ServerTypes, TaskType
<1>3. /\ r \in TaskType /\ r.ready = {} /\ r.pc = "select"
      /\ r.port = task[s].port /\ r.entry = task[s].entry
  <2>1. task[s] \in TaskType
    BY <1>1 DEF ServerTypes
  <2> QED BY <2>1 DEF TaskType, TaskPlaces
<1> HIDE DEF r
<1>4. task'[s] = r
  BY <1>1, <1>2 DEF ServerTypes
<1>5. task[s].port /\ task[s].entry = Junk
  BY <1>1, <1>2 DEF Ports, PortAt
<1>6. PortAt(s)' /\ ReadyAt(s)' /\ PushAt(s)'
  BY <1>2, <1>3, <1>4, <1>5 DEF PortAt, ReadyAt, PushAt, At
<1> QED BY <1>2, <1>3, <1>5, <1>6, JunkIsSound, TaskTurns

(* A task with an event in its hand.                                       *)
Posted(r, t, e, next) ==
    /\ r \in TaskType /\ r.pc = "post" /\ r.entry = e /\ r.at = next
    /\ r.port = t.port /\ r.ready = t.ready

LEMMA TaskPosts ==
    ASSUME NEW t \in TaskType, NEW e \in EventEntries, NEW n \in Nat
    PROVE  Posted([t EXCEPT !.pc = "post", !.entry = e, !.at = n], t, e, n)
BY DEF TaskType, TaskPlaces, Posted

LEMMA PostingIs ==
    ASSUME ServerTypes, NEW s \in Servers, NEW e \in EventEntries, NEW n \in Nat,
           task' = Posting(s, e, n)
    PROVE  /\ task' \in [Servers -> TaskType]
           /\ Posted(task'[s], task[s], e, n)
           /\ \A t \in Servers : t # s => task'[t] = task[t]
<1>1. PICK r : r = [task[s] EXCEPT !.pc = "post", !.entry = e, !.at = n]
  OBVIOUS
<1>2. task[s] \in TaskType
  BY DEF ServerTypes
<1>3. Posted(r, task[s], e, n)
  BY <1>1, <1>2, TaskPosts, Zenon
<1>4. task' = [task EXCEPT ![s] = r]
  BY <1>1, <1>2 DEF Posting, ServerTypes, TaskType
<1>5. r \in TaskType
  BY <1>3 DEF Posted
<1>6. /\ task' \in [Servers -> TaskType] /\ task'[s] = r
      /\ \A t \in Servers : t # s => task'[t] = task[t]
  BY <1>4, <1>5 DEF ServerTypes
<1> QED BY <1>3, <1>6

LEMMA EntryIsTyped ==
    ASSUME NEW kind \in EventKinds, NEW i \in Slots, NEW c \in Clients, NEW valid \in BOOLEAN
    PROVE  /\ Entry(kind, i, c, valid) \in EventEntries
           /\ Entry(kind, i, c, valid).kind = kind /\ Entry(kind, i, c, valid).id = i
           /\ Entry(kind, i, c, valid).of = c /\ Entry(kind, i, c, valid).valid = valid
<1>1. i \in 0..MaxConnections
  BY NetworkAssumption DEF Slots
<1> QED BY <1>1 DEF Entry, EventEntries

(* The client at the head of the backlog.                                  *)
LEMMA Accepting ==
    ASSUME IInv, NEW s \in Servers, Accept(s)
    PROVE  /\ task[s].port /\ task[s].pc = "accept" /\ task[s].at = 1
           /\ Head(backlog) \in Clients /\ home[Head(backlog)] = Nowhere
           /\ peer[Head(backlog)] \in {"up", "down"}
           /\ backlog' = Tail(backlog) /\ backlog' \in Seq(Clients)
           /\ \A k \in 1..Len(backlog') :
                backlog'[k] # Head(backlog) /\ \E l \in 1..Len(backlog) : backlog'[k] = backlog[l]
           /\ \A j, k \in 1..Len(backlog') : backlog'[j] = backlog'[k] => j = k
           /\ \A t \in Servers : t # s => ~At(t, "accept")
<1>1. ServerTypes /\ Ports /\ Homes
  BY DEF IInv, TypeOK, Service
<1>2. /\ task[s].port /\ task[s].pc = "accept" /\ task[s].at = 1 /\ backlog # <<>>
      /\ backlog' = Tail(backlog)
  BY <1>1 DEF Accept, Ports, PortAt, At
<1>3. backlog \in Seq(Clients)
  BY <1>1 DEF ServerTypes
<1>4. /\ Len(backlog) \in Nat \ {0} /\ Len(backlog') = Len(backlog) - 1
      /\ backlog' \in Seq(Clients) /\ Head(backlog) = backlog[1]
      /\ \A k \in 1..Len(backlog') : backlog'[k] = backlog[k + 1]
  BY <1>2, <1>3, HeadTailProperties, LenProperties, EmptySeq
<1>5. Head(backlog) \in Clients /\ home[Head(backlog)] = Nowhere /\ peer[Head(backlog)] \in {"up", "down"}
  BY <1>1, <1>3, <1>4, ElementOfSeq DEF Homes
<1>6. \A k \in 1..Len(backlog') : k + 1 \in 1..Len(backlog)
  BY <1>4
<1>7. \A k \in 1..Len(backlog') :
        backlog'[k] # Head(backlog) /\ \E l \in 1..Len(backlog) : backlog'[k] = backlog[l]
  BY <1>1, <1>4, <1>6 DEF Homes
<1>8. \A j, k \in 1..Len(backlog') : backlog'[j] = backlog'[k] => j = k
  BY <1>1, <1>4, <1>6 DEF Homes
<1>9. \A t \in Servers : t # s => ~At(t, "accept")
  BY <1>1, <1>2 DEF Ports, PortAt, At
<1> QED BY <1>2, <1>4, <1>5, <1>7, <1>8, <1>9

LEMMA AcceptStep ==
    ASSUME IInv, NEW s \in Servers, Accept(s)
    PROVE  ClientTypes' /\ ServerTypes' /\ Service'
<1>1. ServerTypes /\ ClientTypes /\ Ports /\ Homes /\ Ready /\ Entries /\ Handles
  BY DEF IInv, TypeOK, Service
<1>2. PICK c : c = Head(backlog)
  OBVIOUS
<1>3. /\ task[s].port /\ task[s].pc = "accept" /\ task[s].at = 1
      /\ c \in Clients /\ home[c] = Nowhere /\ peer[c] \in {"up", "down"}
      /\ backlog' \in Seq(Clients)
      /\ \A k \in 1..Len(backlog') :
           backlog'[k] # c /\ \E l \in 1..Len(backlog) : backlog'[k] = backlog[l]
      /\ \A j, k \in 1..Len(backlog') : backlog'[j] = backlog'[k] => j = k
      /\ \A t \in Servers : t # s => ~At(t, "accept")
  BY <1>2, Accepting
<1>4. UNCHANGED <<plan, sent, unread, got, unseen, events, web, main>>
  BY DEF Accept
<1>5. \A t \in Servers, i \in Slots : slot[t][i] \in Clients \cup {NoClient}
  BY <1>1 DEF ServerTypes
<1>6. \A t \in Servers, i \in Slots : slot[t][i] # c
  <2> SUFFICES ASSUME NEW t \in Servers, NEW i \in Slots, slot[t][i] = c
               PROVE  FALSE
    OBVIOUS
  <2>1. c # NoClient
    BY <1>3, Places
  <2>2. home[c] = <<t, i>>
    BY <1>1, <2>1 DEF Homes
  <2> QED BY <1>3, <2>2, Places
<1>7. main.end > 0 /\ web = s => main.end <= Len(events'[s])
  BY <1>1, <1>4 DEF Handles
<1>8. CASE Free(s) = {}
  <2>1. /\ task' = Posting(s, Junk, 0) /\ peer' = [peer EXCEPT ![c] = "dropped"]
        /\ slot' = slot /\ home' = home
    BY <1>2, <1>8 DEF Accept
  <2>2. /\ task' \in [Servers -> TaskType] /\ Posted(task'[s], task[s], Junk, 0)
        /\ \A t \in Servers : t # s => task'[t] = task[t]
    BY <1>1, <2>1, JunkIsSound, PostingIs, 0 \in Nat
  <2>3. /\ peer'[c] = "dropped" /\ \A d \in Clients : d # c => peer'[d] = peer[d]
        /\ peer' \in [Clients -> {"away", "up", "down", "dropped"}]
    BY <1>1, <1>3, <2>1 DEF ClientTypes
  <2>4. ClientTypes' /\ ServerTypes'
    BY <1>1, <1>3, <1>4, <2>1, <2>2, <2>3 DEF ClientTypes, ServerTypes
  <2>5. \A k \in 1..Len(backlog') : peer'[backlog'[k]] \in {"up", "down"} /\ home'[backlog'[k]] = Nowhere
    <3> SUFFICES ASSUME NEW k \in 1..Len(backlog')
                 PROVE  peer'[backlog'[k]] \in {"up", "down"} /\ home[backlog'[k]] = Nowhere
      BY <2>1
    <3>0. backlog'[k] # c /\ \E l \in 1..Len(backlog) : backlog'[k] = backlog[l]
      BY <1>3
    <3>1. PICK l \in 1..Len(backlog) : backlog'[k] = backlog[l]
      BY <3>0
    <3>2. backlog[l] \in Clients
      BY <1>1, ElementOfSeq DEF ServerTypes
    <3> QED BY <1>1, <2>3, <3>0, <3>1, <3>2 DEF Homes
  <2>6. \A d \in Clients : peer'[d] = "away" => home'[d] = Nowhere
    BY <1>1, <1>3, <2>1, <2>3 DEF Homes
  <2>7. \A t \in Servers, i \in Slots :
          slot'[t][i] # NoClient =>
            home'[slot'[t][i]] = <<t, i>> /\ peer'[slot'[t][i]] \in {"up", "down"}
    BY <1>1, <1>5, <1>6, <2>1, <2>3 DEF Homes
  <2>8. Homes'
    BY <1>3, <2>5, <2>6, <2>7 DEF Homes
  <2>9. Kept
    <3>1. \A d \in Clients : home[d] # Nowhere => peer'[d] = peer[d]
      BY <1>3, <2>3
    <3> QED BY <2>1, <2>3, <3>1, Places DEF Kept
  <2>10. PortAt(s)' /\ PushAt(s)'
    BY <1>3, <2>2, JunkIsSound DEF PortAt, PushAt, At, Posted
  <2>11. ReadyAt(s)'
    <3> SUFFICES ASSUME NEW d \in task[s].ready
                 PROVE  /\ home[d] # Nowhere
                        /\ \A i \in Slots : i >= 0 /\ slot[s][i] = d =>
                              unread[d] > 0 \/ peer'[d] = "down"
      BY <1>4, <2>1, <2>2 DEF ReadyAt, Posted
    <3>1. /\ home[d] # Nowhere
          /\ \A i \in Slots : i >= 1 /\ slot[s][i] = d => unread[d] > 0 \/ peer[d] = "down"
      BY <1>1, <1>3 DEF Ready, ReadyAt
    <3>2. d # c /\ d \in Clients
      BY <1>1, <1>3, <3>1 DEF ServerTypes, TaskType
    <3>3. \A i \in Slots : i >= 1
      BY Places
    <3> QED BY <2>3, <3>1, <3>2, <3>3
  <2>12. EntriesAt(s)'
    <3>1. \A k \in 1..Len(events[s]) : IsSound(s, events[s][k])'
      BY <1>1, <1>4, <2>9, SoundKept DEF Entries, EntriesAt
    <3>2. IsSound(s, Junk)' /\ IsEnding(s, Junk)'
      BY JunkIsSound DEF IsSound, IsEnding
    <3>3. task'[s].entry = Junk
      BY <2>2 DEF Posted
    <3> QED BY <1>4, <3>1, <3>2, <3>3 DEF EntriesAt, IsSound, IsEnding
  <2>13. task'[s].port => task[s].port
    BY <1>3
  <2>14. /\ \A d \in Clients : peer'[d] = "dropped" /\ peer[d] # "dropped" => home'[d] = Nowhere
         /\ \A d \in Clients : home[d] = Nowhere /\ peer[d] = "dropped" => home'[d] = Nowhere
    BY <1>3, <2>1, <2>3
  <2>15. Service'
    BY <1>3, <1>4, <1>7, <2>1, <2>2, <2>8, <2>9, <2>10, <2>11, <2>12, <2>13, <2>14, TaskKeeps
  <2> QED BY <2>4, <2>15
<1>9. CASE Free(s) # {}
  <2>1. PICK i : i = Min(Free(s))
    OBVIOUS
  <2>2. i \in Slots /\ slot[s][i] = NoClient
    <3>1. plan.slots \in Nat /\ plan.slots <= MaxConnections
      BY NetworkAssumption DEF IInv, TypeOK, StationTypes, PlanType, Slots
    <3>2. Free(s) \subseteq Nat /\ Free(s) \subseteq Slots
      BY <3>1, NetworkAssumption DEF Free, Slots
    <3>3. Min(Free(s)) \in Free(s)
      BY <1>9, <3>2, MinIsElement
    <3> QED BY <2>1, <3>2, <3>3 DEF Free
  <2>3. PICK e : e = Entry("Connected", i, c, FALSE)
    OBVIOUS
  <2>4. /\ task' = Posting(s, e, 1) /\ peer' = peer
        /\ slot' = [slot EXCEPT ![s][i] = c] /\ home' = [home EXCEPT ![c] = <<s, i>>]
    BY <1>2, <1>9, <2>1, <2>3 DEF Accept
  <2>5. e \in EventEntries /\ e.kind = "Connected"
    <3>1. "Connected" \in EventKinds /\ FALSE \in BOOLEAN
      BY DEF EventKinds
    <3>2. i \in Slots /\ c \in Clients
      BY <1>3, <2>2
    <3>3. /\ Entry("Connected", i, c, FALSE) \in EventEntries
          /\ Entry("Connected", i, c, FALSE).kind = "Connected"
      BY <3>1, <3>2, EntryIsTyped
    <3> QED BY <2>3, <3>3
  <2>6. /\ task' \in [Servers -> TaskType] /\ Posted(task'[s], task[s], e, 1)
        /\ \A t \in Servers : t # s => task'[t] = task[t]
    BY <1>1, <2>4, <2>5, PostingIs, 1 \in Nat
  <2>7. /\ slot' \in [Servers -> [Slots -> Clients \cup {NoClient}]]
        /\ slot'[s][i] = c
        /\ \A j \in Slots : j # i => slot'[s][j] = slot[s][j]
        /\ \A t \in Servers : t # s => slot'[t] = slot[t]
    BY <1>1, <1>3, <2>2, <2>4 DEF ServerTypes
  <2>8. /\ home' \in [Clients -> Nat \X Nat] /\ home'[c] = <<s, i>>
        /\ \A d \in Clients : d # c => home'[d] = home[d]
    BY <1>1, <1>3, <2>2, <2>4, Places DEF ClientTypes
  <2>9. ClientTypes' /\ ServerTypes'
    BY <1>1, <1>3, <1>4, <2>4, <2>6, <2>7, <2>8 DEF ClientTypes, ServerTypes
  <2>10. \A k \in 1..Len(backlog') : peer'[backlog'[k]] \in {"up", "down"} /\ home'[backlog'[k]] = Nowhere
    <3> SUFFICES ASSUME NEW k \in 1..Len(backlog')
                 PROVE  peer[backlog'[k]] \in {"up", "down"} /\ home'[backlog'[k]] = Nowhere
      BY <2>4
    <3>1. backlog'[k] # c /\ \E l \in 1..Len(backlog) : backlog'[k] = backlog[l]
      BY <1>3
    <3>2. PICK l \in 1..Len(backlog) : backlog'[k] = backlog[l]
      BY <3>1
    <3>3. backlog[l] \in Clients
      BY <1>1, ElementOfSeq DEF ServerTypes
    <3> QED BY <1>1, <2>8, <3>1, <3>2, <3>3 DEF Homes
  <2>11. \A d \in Clients : peer'[d] = "away" => home'[d] = Nowhere
    BY <1>1, <1>3, <2>4, <2>8 DEF Homes
  <2>12. \A t \in Servers, j \in Slots :
          slot'[t][j] # NoClient =>
            home'[slot'[t][j]] = <<t, j>> /\ peer'[slot'[t][j]] \in {"up", "down"}
    <3> SUFFICES ASSUME NEW t \in Servers, NEW j \in Slots, slot'[t][j] # NoClient
                 PROVE  home'[slot'[t][j]] = <<t, j>> /\ peer[slot'[t][j]] \in {"up", "down"}
      BY <2>4
    <3>1. CASE t = s /\ j = i
      BY <1>3, <2>7, <2>8, <3>1
    <3>2. CASE ~(t = s /\ j = i)
      <4>1. slot'[t][j] = slot[t][j]
        BY <2>7, <3>2
      <4>2. slot[t][j] \in Clients /\ slot[t][j] # c
        BY <1>5, <1>6, <4>1
      <4> QED BY <1>1, <2>8, <4>1, <4>2 DEF Homes
    <3> QED BY <3>1, <3>2
  <2>13. Homes'
    BY <1>3, <2>10, <2>11, <2>12 DEF Homes
  <2>14. Kept
    <3>1. \A d \in Clients : home[d] # Nowhere => home'[d] = home[d]
      BY <1>3, <2>8
    <3>2. \A t \in Servers, j \in Slots, d \in Clients : slot[t][j] = d => slot'[t][j] = d
      BY <2>2, <2>7, Places
    <3> QED BY <2>4, <3>1, <3>2 DEF Kept
  <2>15. PortAt(s)' /\ PushAt(s)'
    BY <1>3, <2>6 DEF PortAt, PushAt, At, Posted
  <2>16. ReadyAt(s)'
    <3> SUFFICES ASSUME NEW d \in task[s].ready
                 PROVE  /\ home'[d] # Nowhere
                        /\ \A j \in Slots : j >= 1 /\ slot'[s][j] = d =>
                              unread[d] > 0 \/ peer[d] = "down"
      BY <1>4, <2>4, <2>6 DEF ReadyAt, Posted
    <3>1. /\ home[d] # Nowhere
          /\ \A j \in Slots : j >= 1 /\ slot[s][j] = d => unread[d] > 0 \/ peer[d] = "down"
      BY <1>1, <1>3 DEF Ready, ReadyAt
    <3>2. d # c /\ d \in Clients
      BY <1>1, <1>3, <3>1 DEF ServerTypes, TaskType
    <3>3. \A j \in Slots : slot'[s][j] = d => slot[s][j] = d
      BY <2>7, <3>2
    <3> QED BY <2>8, <3>1, <3>2, <3>3
  <2>17. EntriesAt(s)'
    <3>1. \A k \in 1..Len(events[s]) : IsSound(s, events[s][k])'
      BY <1>1, <1>4, <2>14, SoundKept DEF Entries, EntriesAt
    <3>2. task'[s].entry.kind = "Connected"
      BY <2>5, <2>6 DEF Posted
    <3> QED BY <1>4, <3>1, <3>2 DEF EntriesAt, IsSound, IsEnding
  <2>18. /\ \A d \in Clients : peer'[d] = "dropped" /\ peer[d] # "dropped" => home'[d] = Nowhere
         /\ \A d \in Clients : home[d] = Nowhere /\ peer[d] = "dropped" => home'[d] = Nowhere
    BY <1>3, <2>4, <2>8
  <2>19. Service'
    BY <1>3, <1>4, <1>7, <2>4, <2>6, <2>7, <2>13, <2>14, <2>15, <2>16, <2>17, <2>18, TaskKeeps
  <2> QED BY <2>9, <2>19
<1> QED BY <1>8, <1>9

(* The task has read the slot i, or has found that its client hung up.     *)
LEMMA ReadKeeps ==
    ASSUME IInv, NEW s \in Servers, NEW i \in Slots, NEW c \in Clients, NEW e \in EventEntries,
           NEW n \in {i, i + 1},
           task[s].pc = "scan", i >= task[s].at, slot[s][i] = c,
           task' = Posting(s, e, n), IsSound(s, e), IsEnding(s, e),
           \/ unread' = unread
           \/ unread' = [unread EXCEPT ![c] = 0] /\ n = i + 1,
           unseen' \subseteq Clients,
           UNCHANGED <<plan, peer, sent, home, got, backlog, slot, events, web, main>>
    PROVE  ClientTypes' /\ ServerTypes' /\ Service'
<1>1. ServerTypes /\ ClientTypes /\ Ports /\ Homes /\ Ready /\ Entries /\ Handles
  BY DEF IInv, TypeOK, Service
<1>2. n \in Nat /\ n # 0 /\ n >= i /\ i \in Nat
  BY Places
<1>3. /\ task' \in [Servers -> TaskType] /\ Posted(task'[s], task[s], e, n)
      /\ \A t \in Servers : t # s => task'[t] = task[t]
  BY <1>1, <1>2, PostingIs
<1>4. task[s] \in TaskType /\ task[s].port
  BY <1>1 DEF ServerTypes, Ports, PortAt
<1>5. unread' \in [Clients -> Nat] /\ \A d \in Clients : d # c => unread'[d] = unread[d]
  BY <1>1, 0 \in Nat DEF ClientTypes
<1>6. ClientTypes' /\ ServerTypes'
  BY <1>1, <1>3, <1>5 DEF ClientTypes, ServerTypes
<1>7. Kept /\ Homes'
  BY <1>1, KeptWhenSame DEF Homes
<1>8. \A t \in Servers, j \in Slots : slot[t][j] = c => t = s /\ j = i
  <2>1. c # NoClient
    BY Places
  <2> QED BY <1>1, <2>1 DEF Homes
<1>9. PortAt(s)' /\ PushAt(s)'
  BY <1>2, <1>3, <1>4 DEF PortAt, PushAt, At, Posted
<1>10. ReadyAt(s)'
  <2> SUFFICES ASSUME NEW d \in task[s].ready
               PROVE  /\ home[d] # Nowhere
                      /\ \A j \in Slots : j >= n /\ slot[s][j] = d =>
                            unread'[d] > 0 \/ peer[d] = "down"
    BY <1>3 DEF ReadyAt, Posted
  <2>1. /\ home[d] # Nowhere
        /\ \A j \in Slots : j >= task[s].at /\ slot[s][j] = d => unread[d] > 0 \/ peer[d] = "down"
    BY <1>1 DEF Ready, ReadyAt
  <2>2. d \in Clients /\ task[s].at \in Nat
    BY <1>4 DEF TaskType
  <2>3. ASSUME NEW j \in Slots, j >= n, slot[s][j] = d
        PROVE  unread'[d] > 0 \/ peer[d] = "down"
    <3>1. j >= task[s].at
      BY <1>2, <2>2, <2>3, Places
    <3>2. unread[d] > 0 \/ peer[d] = "down"
      BY <2>1, <2>3, <3>1
    <3>3. CASE d # c
      BY <1>5, <2>2, <3>2, <3>3
    <3>4. CASE d = c
      <4>1. j = i
        BY <1>8, <2>3, <3>4
      <4>2. n # i + 1
        BY <1>2, <2>3, <4>1
      <4> QED BY <3>2, <4>2
    <3> QED BY <3>3, <3>4
  <2> QED BY <2>1, <2>3
<1>11. EntriesAt(s)'
  <2>1. \A k \in 1..Len(events[s]) : IsSound(s, events[s][k])
    BY <1>1 DEF Entries, EntriesAt
  <2>2. task'[s].entry = e
    BY <1>3 DEF Posted
  <2> QED BY <2>1, <2>2 DEF EntriesAt, IsSound, IsEnding
<1>12. \A t \in Servers, j \in Slots : t # s /\ slot[t][j] \in Clients =>
         unread'[slot[t][j]] = unread[slot[t][j]]
  BY <1>5, <1>8
<1>13. /\ \A t \in Servers : t # s => (At(t, "accept") => backlog' # <<>>)
       /\ main.end > 0 /\ web = s => main.end <= Len(events'[s])
  BY <1>1 DEF Ports, PortAt, Handles
<1>14. task'[s].port => task[s].port
  BY <1>4
<1>15. Service'
  BY <1>3, <1>7, <1>9, <1>10, <1>11, <1>12, <1>13, <1>14, TaskKeeps
<1> QED BY <1>6, <1>15

LEMMA ReadStep ==
    ASSUME IInv, NEW s \in Servers, Read(s)
    PROVE  ClientTypes' /\ ServerTypes' /\ Service'
<1>1. ServerTypes /\ ClientTypes /\ Homes /\ Ready
  BY DEF IInv, TypeOK, Service
<1>2. PICK i, c : i = Min(Reported(s)) /\ c = slot[s][i]
  OBVIOUS
<1>3. i \in Slots /\ i >= task[s].at /\ c \in task[s].ready
  <2>1. Reported(s) \subseteq Nat /\ Reported(s) # {}
    BY Places DEF Read, Reported
  <2>2. i \in Reported(s)
    BY <1>2, <2>1, MinIsElement
  <2> QED BY <1>2, <2>2 DEF Reported
<1>4. c \in Clients /\ task[s] \in TaskType
  BY <1>1, <1>3 DEF ServerTypes, TaskType
<1>5. home[c] = <<s, i>> /\ (unread[c] > 0 \/ peer[c] = "down")
  <2>1. c # NoClient
    BY <1>4, Places
  <2> QED BY <1>1, <1>2, <1>3, <2>1 DEF Homes, Ready, ReadyAt
<1>7. /\ task[s].pc = "scan"
      /\ UNCHANGED <<plan, peer, sent, home, got, backlog, slot, events, web, main>>
  BY DEF Read, At
<1>8. \/ /\ \E w \in BOOLEAN :
              /\ task' = Posting(s, Entry("Data", i, c, w), i + 1)
              /\ unseen' = (IF w THEN unseen ELSE unseen \cup {c})
         /\ unread' = [unread EXCEPT ![c] = 0]
      \/ /\ ~(unread[c] > 0) /\ unread' = unread /\ unseen' = unseen
         /\ task' = Posting(s, Entry("Disconnected", i, c, FALSE), i)
      \/ /\ ~(unread[c] > 0) /\ unread' = unread /\ unseen' = unseen
         /\ task' = Posting(s, Entry("Error", i, c, FALSE), i + 1)
  BY <1>2 DEF Read
<1>9. unseen' \subseteq Clients
  BY <1>1, <1>4, <1>8 DEF ClientTypes
<1>10. /\ "Data" \in EventKinds /\ "Disconnected" \in EventKinds /\ "Error" \in EventKinds
       /\ FALSE \in BOOLEAN /\ i # 0
  BY <1>3, Places DEF EventKinds
<1>11. ASSUME NEW e, NEW kind \in EventKinds, NEW b \in BOOLEAN, e = Entry(kind, i, c, b),
              kind = "Error" \/ kind = "Disconnected" => peer[c] = "down"
       PROVE  e \in EventEntries /\ IsSound(s, e) /\ IsEnding(s, e)
  <2>1. e \in EventEntries /\ e.kind = kind /\ e.id = i /\ e.of = c
    BY <1>3, <1>4, <1>11, EntryIsTyped
  <2> QED BY <1>2, <1>3, <1>4, <1>5, <1>11, <2>1 DEF IsSound, IsEnding
<1>12. CASE /\ \E w \in BOOLEAN : task' = Posting(s, Entry("Data", i, c, w), i + 1)
            /\ unread' = [unread EXCEPT ![c] = 0]
  <2>4. PICK w \in BOOLEAN : task' = Posting(s, Entry("Data", i, c, w), i + 1)
    BY <1>12
  <2>1. PICK e : e = Entry("Data", i, c, w)
    OBVIOUS
  <2>2. e \in EventEntries /\ IsSound(s, e) /\ IsEnding(s, e)
    BY <1>10, <1>11, <2>1
  <2>3. task' = Posting(s, e, i + 1)
    BY <2>1, <2>4
  <2> QED BY <1>2, <1>3, <1>4, <1>7, <1>9, <1>12, <2>2, <2>3, ReadKeeps
<1>13. CASE /\ ~(unread[c] > 0) /\ unread' = unread
            /\ task' = Posting(s, Entry("Disconnected", i, c, FALSE), i)
  <2>1. PICK e : e = Entry("Disconnected", i, c, FALSE)
    OBVIOUS
  <2>2. e \in EventEntries /\ IsSound(s, e) /\ IsEnding(s, e)
    BY <1>5, <1>10, <1>11, <1>13, <2>1
  <2>3. task' = Posting(s, e, i)
    BY <1>13, <2>1
  <2> QED BY <1>2, <1>3, <1>4, <1>7, <1>9, <1>13, <2>2, <2>3, ReadKeeps
<1>14. CASE /\ ~(unread[c] > 0) /\ unread' = unread
            /\ task' = Posting(s, Entry("Error", i, c, FALSE), i + 1)
  <2>1. PICK e : e = Entry("Error", i, c, FALSE)
    OBVIOUS
  <2>2. e \in EventEntries /\ IsSound(s, e) /\ IsEnding(s, e)
    BY <1>5, <1>10, <1>11, <1>14, <2>1
  <2>3. task' = Posting(s, e, i + 1)
    BY <1>14, <2>1
  <2> QED BY <1>2, <1>3, <1>4, <1>7, <1>9, <1>14, <2>2, <2>3, ReadKeeps
<1> QED BY <1>8, <1>12, <1>13, <1>14

(* push_back reads the size.                                               *)
Sized(r, t, p, n) ==
    /\ r \in TaskType /\ r.pc = p /\ r.size = n
    /\ r.port = t.port /\ r.ready = t.ready /\ r.at = t.at /\ r.entry = t.entry

LEMMA TaskSizes ==
    ASSUME NEW t \in TaskType, NEW p, p \in TaskPlaces, NEW n \in Nat
    PROVE  Sized([t EXCEPT !.pc = p, !.size = n], t, p, n)
BY DEF TaskType, Sized

LEMMA PushBeginsStep ==
    ASSUME IInv, NEW s \in Servers, PushBegins(s)
    PROVE  ClientTypes' /\ ServerTypes' /\ Service'
<1>1. ServerTypes /\ ClientTypes /\ Ports /\ Homes /\ Ready /\ Entries /\ Handles
  BY DEF IInv, TypeOK, Service
<1>2. /\ task[s].pc = "post" /\ (plan.locked => ~Handling(s))
      /\ UNCHANGED <<plan, peer, sent, unread, home, got, unseen, backlog, slot, web, main>>
  BY DEF PushBegins, At, clientVars
<1>3. PICK n : n = Len(events[s])
  OBVIOUS
<1>4. events[s] \in Seq(EventEntries) /\ n \in Nat /\ task[s] \in TaskType
  BY <1>1, <1>3, LenProperties DEF ServerTypes
<1>5. PICK p \in TaskPlaces :
        /\ task' = [task EXCEPT ![s].pc = p, ![s].size = n]
        /\ \/ p = "push" /\ events' = events
           \/ p = "element" /\ ~plan.locked /\ events' = [events EXCEPT ![s] = Append(@, Junk)]
  BY <1>3 DEF PushBegins, TaskPlaces
<1>6. PICK r : r = [task[s] EXCEPT !.pc = p, !.size = n]
  OBVIOUS
<1>7. Sized(r, task[s], p, n)
  BY <1>4, <1>6, TaskSizes, Zenon
<1>8. r \in TaskType
  BY <1>7 DEF Sized
<1>9. task' = [task EXCEPT ![s] = r]
  BY <1>1, <1>5, <1>6 DEF ServerTypes, TaskType
<1>10. /\ task' \in [Servers -> TaskType] /\ Sized(task'[s], task[s], p, n)
       /\ \A t \in Servers : t # s => task'[t] = task[t]
  BY <1>1, <1>7, <1>8, <1>9 DEF ServerTypes
<1>11. /\ events' \in [Servers -> Seq(EventEntries)]
       /\ \A t \in Servers : t # s => events'[t] = events[t]
       /\ \A k \in 1..n : events'[s][k] = events[s][k]
       /\ p = "push" => events'[s] = events[s]
       /\ p = "element" => Len(events'[s]) = n + 1 /\ events'[s][n + 1] = Junk
  <2>1. /\ Append(events[s], Junk) \in Seq(EventEntries)
        /\ Len(Append(events[s], Junk)) = n + 1 /\ Append(events[s], Junk)[n + 1] = Junk
        /\ \A k \in 1..n : Append(events[s], Junk)[k] = events[s][k]
    BY <1>3, <1>4, JunkIsSound, AppendProperties
  <2>2. CASE p = "push"
    BY <1>1, <1>5, <2>2 DEF ServerTypes
  <2>3. CASE p = "element"
    <3>1. events' = [events EXCEPT ![s] = Append(events[s], Junk)]
      BY <1>5, <2>3
    <3> QED BY <1>1, <2>1, <2>3, <3>1 DEF ServerTypes
  <2> QED BY <1>5, <2>2, <2>3
<1>12. ClientTypes' /\ ServerTypes'
  BY <1>1, <1>2, <1>10, <1>11 DEF ClientTypes, ServerTypes
<1>13. Kept /\ Homes'
  BY <1>1, <1>2, KeptWhenSame DEF Homes
<1>14. PortAt(s)'
  <2>1. ~task[s].port => task[s].at = 0
    BY <1>1, <1>2 DEF Ports, PortAt
  <2> QED BY <1>2, <1>5, <1>10, <2>1 DEF PortAt, At, Sized
<1>15. ReadyAt(s)'
  BY <1>1, <1>2, <1>4, <1>10, <1>13, ReadyKept DEF Ready, TaskType, Sized
<1>16. EntriesAt(s)'
  <2>1. ASSUME NEW k \in 1..Len(events'[s])
        PROVE  IsSound(s, events'[s][k])
    <3>1. CASE k \in 1..n
      BY <1>1, <1>3, <1>11, <3>1 DEF Entries, EntriesAt
    <3>2. CASE k \notin 1..n
      <4>1. events'[s][k] = Junk
        BY <1>3, <1>4, <1>5, <1>11, <3>2
      <4> QED BY <4>1, JunkIsSound
    <3> QED BY <3>1, <3>2
  <2>2. IsSound(s, task[s].entry) /\ IsEnding(s, task[s].entry)
    BY <1>1 DEF Entries, EntriesAt
  <2>3. task'[s].entry = task[s].entry
    BY <1>10 DEF Sized
  <2> QED BY <1>2, <2>1, <2>2, <2>3 DEF EntriesAt, IsSound, IsEnding
<1>17. Handling(s) => main.end <= n /\ main.end \in Nat
  <2>1. main.end \in Nat
    BY DEF IInv, TypeOK, MainTypes, MainType
  <2> QED BY <1>1, <1>3, <2>1 DEF Handling, Handles
<1>18. PushAt(s)'
  BY <1>2, <1>3, <1>4, <1>5, <1>10, <1>11, <1>17 DEF PushAt, At, Handling, Sized
<1>19. /\ main.end > 0 /\ web = s => main.end <= Len(events'[s])
       /\ main.end > 0 /\ web = s /\ main.pc # "handling" =>
            events'[s][main.at] = events[s][main.at]
  <2>1. ASSUME main.end > 0, web = s
        PROVE  /\ main.end \in Nat /\ main.end <= n
               /\ main.pc # "handling" => main.at \in 1..n
    <3>1. main.end \in Nat /\ main.end <= n
      BY <1>17, <2>1 DEF Handling
    <3>2. main.at \in 1..(main.end + 1) /\ (main.pc # "handling" => main.at <= main.end)
      BY <1>1, <2>1 DEF Handles
    <3> QED BY <1>4, <3>1, <3>2
  <2> QED BY <1>3, <1>4, <1>5, <1>11, <2>1
<1>20. /\ \A t \in Servers : t # s => (At(t, "accept") => backlog' # <<>>)
       /\ task'[s].port => task[s].port
  BY <1>1, <1>2, <1>10 DEF Ports, PortAt, Sized
<1>21. Service'
  BY <1>2, <1>10, <1>11, <1>13, <1>14, <1>15, <1>16, <1>18, <1>19, <1>20, TaskKeeps
<1> QED BY <1>12, <1>21

(* The list may have moved under the loop.                                 *)
Moved(n, m) ==
    /\ n \in MainType /\ n.pc = m.pc /\ n.at = m.at /\ n.end = m.end
    /\ n.event = m.event /\ n.back = m.back

LEMMA MainMoves ==
    ASSUME NEW m \in MainType, NEW b \in BOOLEAN
    PROVE  Moved([m EXCEPT !.moved = b], m)
BY DEF MainType, Moved

(* push_back is done, the task goes on.                                    *)
Unburdened(r, t, p) ==
    /\ r \in TaskType /\ r.pc = p /\ r.entry = Junk
    /\ r.port = t.port /\ r.ready = t.ready /\ r.at = t.at

LEMMA TaskUnburdens ==
    ASSUME NEW t \in TaskType, NEW p, p \in TaskPlaces
    PROVE  Unburdened([t EXCEPT !.entry = Junk, !.size = 0, !.pc = p], t, p)
BY JunkIsSound DEF TaskType, Unburdened

(* The list of events after push_back.                                     *)
LEMMA PushedIs ==
    ASSUME IInv, NEW s \in Servers, task[s].pc \in {"push", "element"}
    PROVE  /\ Pushed(s) \in Seq(EventEntries)
           /\ \A k \in 1..Len(Pushed(s)) :
                \/ k \in 1..Len(events[s]) /\ Pushed(s)[k] = events[s][k]
                \/ Pushed(s)[k] \in {Junk, task[s].entry}
           /\ main.end > 0 /\ web = s => main.end <= Len(Pushed(s))
           /\ main.end > 0 /\ web = s /\ main.pc # "handling" =>
                Pushed(s)[main.at] = events[s][main.at]
<1>1. ServerTypes /\ Pushes /\ Handles /\ main.end \in Nat
  BY DEF IInv, TypeOK, Service, MainTypes, MainType
<1>2. PICK q, n, e : q = events[s] /\ n = task[s].size /\ e = task[s].entry
  OBVIOUS
<1>3. q \in Seq(EventEntries) /\ Len(q) \in Nat /\ n \in Nat /\ e \in EventEntries
      /\ q \in [1..Len(q) -> EventEntries] /\ DOMAIN q = 1..Len(q)
  BY <1>1, <1>2, LenProperties DEF ServerTypes, TaskType
<1>4. ASSUME main.end > 0, web = s
      PROVE  /\ main.pc # "crashed" /\ main.end <= Len(q)
             /\ main.at \in 1..(main.end + 1)
             /\ main.pc # "handling" => main.at <= main.end
  BY <1>1, <1>2, <1>4 DEF Handles
<1>5. CASE task[s].pc = "push"
  <2>1. PICK p : p = [k \in 1..n |-> IF k <= Len(q) THEN q[k] ELSE Junk]
    OBVIOUS
  <2>2. Pushed(s) = p \o <<e>>
    BY <1>2, <1>5, <2>1 DEF Pushed, At
  <2>3. /\ p \in Seq(EventEntries) /\ Len(p) = n
        /\ \A k \in 1..n : p[k] = IF k <= Len(q) THEN q[k] ELSE Junk
    <3>1. p \in [1..n -> EventEntries]
      BY <1>3, <2>1, JunkIsSound
    <3>2. p \in Seq(EventEntries)
      BY <1>3, <3>1
    <3> QED BY <1>3, <2>1, <3>1, <3>2, LenProperties
  <2>4. /\ <<e>> \in Seq(EventEntries) /\ Len(<<e>>) = 1 /\ <<e>>[1] = e
    BY <1>3
  <2>5. /\ p \o <<e>> \in Seq(EventEntries) /\ Len(p \o <<e>>) = n + 1
        /\ \A k \in 1..n : (p \o <<e>>)[k] = p[k]
        /\ (p \o <<e>>)[n + 1] = e
    <3>1. PICK w : w = <<e>>
      OBVIOUS
    <3>2. w \in Seq(EventEntries) /\ Len(w) = 1 /\ w[1] = e
      BY <2>4, <3>1
    <3>3. /\ p \o w \in Seq(EventEntries) /\ Len(p \o w) = Len(p) + Len(w)
          /\ \A k \in 1..(Len(p) + Len(w)) :
               (p \o w)[k] = IF k <= Len(p) THEN p[k] ELSE w[k - Len(p)]
      BY <2>3, <3>2, ConcatProperties
    <3>4. /\ Len(p \o w) = n + 1
          /\ \A k \in 1..n : (p \o w)[k] = p[k]
          /\ (p \o w)[n + 1] = e
      BY <1>3, <2>3, <3>2, <3>3
    <3> QED BY <3>1, <3>3, <3>4
  <2>6. \A k \in 1..(n + 1) :
          \/ k \in 1..Len(q) /\ (p \o <<e>>)[k] = q[k]
          \/ (p \o <<e>>)[k] \in {Junk, e}
    BY <1>3, <2>3, <2>5
  <2>7. ASSUME main.end > 0, web = s
        PROVE  /\ main.end <= n + 1
               /\ main.pc # "handling" => (p \o <<e>>)[main.at] = q[main.at]
    <3>1. main.end <= n
      BY <1>1, <1>2, <1>4, <1>5, <2>7 DEF Pushes, PushAt, At, Handling
    <3>2. main.pc # "handling" => main.at \in 1..n /\ main.at <= Len(q)
      BY <1>1, <1>3, <1>4, <2>7, <3>1
    <3> QED BY <1>1, <1>3, <2>3, <2>5, <3>1, <3>2
  <2> QED BY <1>2, <2>2, <2>5, <2>6, <2>7
<1>6. CASE task[s].pc = "element"
  <2>1. PICK p : p = [k \in DOMAIN q |-> IF k = n + 1 THEN e ELSE q[k]]
    OBVIOUS
  <2>2. Pushed(s) = p
    BY <1>2, <1>6, <2>1 DEF Pushed, At
  <2>3. /\ p \in Seq(EventEntries) /\ Len(p) = Len(q)
        /\ \A k \in 1..Len(q) : p[k] = IF k = n + 1 THEN e ELSE q[k]
    <3>1. p \in [1..Len(q) -> EventEntries]
      BY <1>3, <2>1
    <3>2. p \in Seq(EventEntries)
      BY <1>3, <3>1
    <3> QED BY <1>3, <2>1, <3>1, <3>2, LenProperties
  <2>4. ASSUME main.end > 0, web = s, main.pc # "handling"
        PROVE  p[main.at] = q[main.at]
    <3>1. main.at \in 1..Len(q)
      BY <1>1, <1>3, <1>4, <2>4
    <3>2. q[main.at].kind # "Error" \/ q[main.at].id # 0
      BY <1>1, <1>2, <2>4 DEF Handles, Current
    <3>3. q[n + 1] = Junk
      <4>1. q # <<>>
        BY <1>3, <3>1, LenProperties, EmptySeq
      <4> QED BY <1>1, <1>2, <1>4, <1>6, <2>4, <4>1 DEF Pushes, PushAt, At
    <3>4. main.at # n + 1
      BY <3>2, <3>3, JunkIsSound
    <3> QED BY <2>3, <3>1, <3>4
  <2> QED BY <1>2, <1>4, <2>2, <2>3, <2>4
<1> QED BY <1>5, <1>6

LEMMA PushEndsStep ==
    ASSUME IInv, NEW s \in Servers, PushEnds(s)
    PROVE  ClientTypes' /\ ServerTypes' /\ Service' /\ Moved(main', main)
<1>1. ServerTypes /\ ClientTypes /\ Ports /\ Homes /\ Ready /\ Entries /\ Handles /\ main \in MainType
  BY DEF IInv, TypeOK, Service, MainTypes
<1>2. PICK e : e = task[s].entry
  OBVIOUS
<1>3. task[s] \in TaskType /\ e \in EventEntries
  BY <1>1, <1>2 DEF ServerTypes, TaskType
<1>4. PICK p \in TaskPlaces : p = IF task[s].at = 0 THEN "exited" ELSE "scan"
  BY DEF TaskPlaces
<1>5. PICK moved \in BOOLEAN : main' = [main EXCEPT !.moved = moved]
  <2>1. PICK grows \in BOOLEAN : main' = [main EXCEPT !.moved = @ \/ (grows /\ Handling(s))]
    BY DEF PushEnds
  <2>2. PICK moved \in BOOLEAN : moved = (main.moved \/ (grows /\ Handling(s)))
    OBVIOUS
  <2> QED BY <2>1, <2>2
<1>6. Moved(main', main)
  BY <1>1, <1>5, MainMoves, Zenon
<1>7. PICK q : q = Pushed(s)
  OBVIOUS
<1>8. /\ task[s].pc \in {"push", "element"}
      /\ events' = [events EXCEPT ![s] = q]
      /\ slot' = (IF e.kind = "Disconnected" THEN [slot EXCEPT ![s][e.id] = NoClient] ELSE slot)
      /\ task' = [task EXCEPT ![s].entry = Junk, ![s].size = 0, ![s].pc = p]
      /\ UNCHANGED <<plan, peer, sent, unread, home, got, backlog, web>>
  BY <1>2, <1>4, <1>7 DEF PushEnds, At
<1>9. unseen' \subseteq Clients
  <2>1. Asks(e) \subseteq Clients
    BY <1>1, <1>2 DEF Entries, EntriesAt, IsSound, Asks
  <2>2. unseen' = unseen \/ unseen' = unseen \cup Asks(e)
    BY <1>2 DEF PushEnds
  <2> QED BY <1>1, <2>1, <2>2 DEF ClientTypes
<1>10. PICK r : r = [task[s] EXCEPT !.entry = Junk, !.size = 0, !.pc = p]
  OBVIOUS
<1>11. Unburdened(r, task[s], p)
  BY <1>3, <1>10, TaskUnburdens, Zenon
<1>12. r \in TaskType
  BY <1>11 DEF Unburdened
<1>13. task' = [task EXCEPT ![s] = r]
  BY <1>1, <1>8, <1>10 DEF ServerTypes, TaskType
<1>14. /\ task' \in [Servers -> TaskType] /\ Unburdened(task'[s], task[s], p)
       /\ \A t \in Servers : t # s => task'[t] = task[t]
  BY <1>1, <1>11, <1>12, <1>13 DEF ServerTypes
<1>15. /\ q \in Seq(EventEntries)
       /\ \A k \in 1..Len(q) :
            \/ k \in 1..Len(events[s]) /\ q[k] = events[s][k]
            \/ q[k] \in {Junk, e}
       /\ main.end > 0 /\ web = s => main.end <= Len(q)
       /\ main.end > 0 /\ web = s /\ main.pc # "handling" => q[main.at] = events[s][main.at]
  BY <1>2, <1>7, <1>8, PushedIs
<1>16. /\ events' \in [Servers -> Seq(EventEntries)] /\ events'[s] = q
       /\ \A t \in Servers : t # s => events'[t] = events[t]
  BY <1>1, <1>8, <1>15 DEF ServerTypes
<1>17. /\ slot' \in [Servers -> [Slots -> Clients \cup {NoClient}]]
       /\ \A t \in Servers : t # s => slot'[t] = slot[t]
       /\ \A i \in Slots : slot'[s][i] \in {slot[s][i], NoClient}
       /\ \A i \in Slots : slot'[s][i] # slot[s][i] => e.kind = "Disconnected" /\ i = e.id
  BY <1>1, <1>8 DEF ServerTypes
<1>18. ClientTypes' /\ ServerTypes'
  BY <1>1, <1>8, <1>9, <1>14, <1>16, <1>17 DEF ClientTypes, ServerTypes
<1>19. IsSound(s, e) /\ IsEnding(s, e)
  BY <1>1, <1>2 DEF Entries, EntriesAt
<1>20. Kept
  <2>1. ASSUME NEW t \in Servers, NEW i \in Slots, NEW c \in Clients,
               slot[t][i] = c, peer[c] = "up"
        PROVE  slot'[t][i] = c
    <3>1. CASE slot'[t][i] = slot[t][i]
      BY <2>1, <3>1
    <3>2. CASE slot'[t][i] # slot[t][i]
      <4>1. t = s /\ e.kind = "Disconnected" /\ i = e.id
        BY <1>17, <3>2
      <4>2. slot[s][i] \in {NoClient, e.of} /\ peer[e.of] = "down"
        BY <1>19, <4>1 DEF IsEnding
      <4> QED BY <2>1, <4>1, <4>2, Places
    <3> QED BY <3>1, <3>2
  <2> QED BY <1>8, <2>1 DEF Kept
<1>21. Homes'
  <2>1. \A t \in Servers, i \in Slots : slot'[t][i] # NoClient => slot'[t][i] = slot[t][i]
    BY <1>17
  <2>2. ASSUME NEW t \in Servers, NEW i \in Slots, slot'[t][i] # NoClient
        PROVE  home[slot'[t][i]] = <<t, i>> /\ peer[slot'[t][i]] \in {"up", "down"}
    <3>1. slot'[t][i] = slot[t][i]
      BY <2>1, <2>2
    <3>2. slot[t][i] # NoClient
      BY <2>2, <3>1
    <3>3. home[slot[t][i]] = <<t, i>> /\ peer[slot[t][i]] \in {"up", "down"}
      BY <1>1, <3>2 DEF Homes
    <3> QED BY <3>1, <3>3
  <2>3. peer' = peer /\ home' = home /\ backlog' = backlog
    BY <1>8
  <2> QED BY <1>1, <2>2, <2>3 DEF Homes
<1>22. PortAt(s)'
  <2>1. ~task[s].port => task[s].at = 0
    BY <1>1, <1>8 DEF Ports, PortAt
  <2> QED BY <1>4, <1>14, <2>1 DEF PortAt, At, Unburdened
<1>23. ReadyAt(s)'
  BY <1>1, <1>3, <1>8, <1>14, <1>17, <1>20, ReadyKept DEF Ready, TaskType, Unburdened
<1>24. EntriesAt(s)'
  <2>1. ASSUME NEW k \in 1..Len(q)
        PROVE  IsSound(s, q[k])
    BY <1>1, <1>15, <1>19, JunkIsSound DEF Entries, EntriesAt
  <2>2. ASSUME NEW k \in 1..Len(q), NEW d, d = q[k]
        PROVE  IsSound(s, d)'
    BY <1>20, <2>1, <2>2, SoundKept
  <2>3. \A k \in 1..Len(events'[s]) : IsSound(s, events[s][k])'
    BY <1>16, <2>2 DEF IsSound
  <2>4. task'[s].entry = Junk
    BY <1>14 DEF Unburdened
  <2>5. Junk.kind = "Error" /\ Junk.id = 0
    BY JunkIsSound
  <2> QED BY <2>3, <2>4, <2>5 DEF EntriesAt, IsSound, IsEnding
<1>25. PushAt(s)'
  BY <1>4, <1>14 DEF PushAt, At, Unburdened
<1>26. /\ \A t \in Servers : t # s => (At(t, "accept") => backlog' # <<>>)
       /\ task'[s].port => task[s].port
       /\ main.end > 0 /\ web = s => main.end <= Len(events'[s])
       /\ main.end > 0 /\ web = s /\ main.pc # "handling" =>
            events'[s][main.at] = events[s][main.at]
  BY <1>1, <1>8, <1>14, <1>15, <1>16 DEF Ports, PortAt, Unburdened
<1>27. main'.pc = main.pc /\ main'.at = main.at /\ main'.end = main.end /\ main'.back = main.back
  BY <1>6 DEF Moved
<1>28. Service'
  BY <1>8, <1>14, <1>16, <1>17, <1>20, <1>21, <1>22, <1>23, <1>24, <1>25, <1>26, <1>27, TaskKeeps
<1> QED BY <1>6, <1>18, <1>28
-----------------------------------------------------------------------------
(* The steps of the main task.                                             *)
Stands(n, m, pc, at) ==
    /\ n \in MainType /\ n.pc = pc /\ n.at = at /\ n.end = m.end

LEMMA MainGoesOn ==
    ASSUME NEW m \in MainType, NEW k \in Nat
    PROVE  Stands([m EXCEPT !.pc = "handling", !.at = k, !.back = "idle"], m, "handling", k)
BY DEF MainType, MainPlaces, Stands

LEMMA NextEntryIs ==
    ASSUME main \in MainType, main' = NextEntry
    PROVE  Stands(main', main, "handling", main.at + 1)
<1>1. PICK k \in Nat : k = main.at + 1
  BY DEF MainType
<1>2. main' = [main EXCEPT !.pc = "handling", !.at = k, !.back = "idle"]
  BY <1>1 DEF NextEntry
<1>3. Stands([main EXCEPT !.pc = "handling", !.at = k, !.back = "idle"], main, "handling", k)
  BY MainGoesOn, Zenon
<1>4. Stands(main', main, "handling", k)
  BY <1>2, <1>3, Zenon
<1> QED BY <1>1, <1>4

(* Nothing but the main task has moved.                                    *)
LEMMA MainKeeps ==
    ASSUME IInv, UNCHANGED <<plan, peer, sent, unread, home, backlog, task, slot, events, web>>,
           main.pc # "blocked", main'.pc # "blocked",
           main'.pc # "crashed" => main.pc # "crashed" /\ main'.end = main.end,
           plan.locked /\ main'.pc = "drop" =>
             \E c \in Clients : peer[c] = "down" /\ home[c] = <<web, Current'.id>>,
           Handles', Answered'
    PROVE  Service'
<1>1. Ports /\ Homes /\ Ready /\ Entries /\ Pushes /\ Blocks
  BY DEF IInv, Service
<1>2. Ports' /\ Homes' /\ Ready'
  BY <1>1, SameTasks
<1>3. Entries'
  BY <1>1, SameEntries
<1>4. Pushes'
  <2> SUFFICES ASSUME NEW s \in Servers PROVE PushAt(s)'
    BY DEF Pushes
  <2>1. PushAt(s)
    BY <1>1 DEF Pushes
  <2> QED BY <2>1 DEF PushAt, At, Handling
<1>5. Blocks'
  BY <1>1 DEF Blocks
<1> QED BY <1>2, <1>3, <1>4, <1>5 DEF Service

(* What is being handled is sound.                                         *)
LEMMA HandledIsSound ==
    ASSUME IInv, main.end > 0, main.at <= main.end
    PROVE  /\ web \in Servers /\ main.at \in 1..Len(events[web])
           /\ main.at \in 1..main.end /\ main.end \in Nat
           /\ Current \in EventEntries /\ IsSound(web, Current)
<1>1. ServerTypes /\ Entries /\ Handles /\ main \in MainType
  BY DEF IInv, TypeOK, MainTypes, Service
<1>2. /\ web \in Servers /\ main.end <= Len(events[web]) /\ main.at \in 1..(main.end + 1)
      /\ main.end \in Nat
  BY <1>1 DEF Handles, MainType
<1>3. events[web] \in Seq(EventEntries) /\ Len(events[web]) \in Nat
  BY <1>1, <1>2, LenProperties DEF ServerTypes
<1>4. main.at \in 1..Len(events[web]) /\ main.at \in 1..main.end
  BY <1>2, <1>3
<1>5. events[web][main.at] \in EventEntries /\ IsSound(web, events[web][main.at])
  BY <1>1, <1>2, <1>3, <1>4, ElementOfSeq DEF Entries, EntriesAt
<1> QED BY <1>2, <1>4, <1>5 DEF Current

(* Whose connection is dropped by the server of the Mac has hung up.       *)
LEMMA DropsTheHungUp ==
    ASSUME IInv, plan.locked, main.end > 0, main.at <= main.end, main.pc # "blocked",
           \/ /\ Current.kind = "Data"
              /\ slot[web][Current.id] \notin {d \in Clients : peer[d] # "down"}
           \/ Current.kind = "Error" /\ Current.id # 0
    PROVE  \E c \in Clients : peer[c] = "down" /\ home[c] = <<web, Current.id>>
<1>1. ClientTypes /\ Homes /\ Blocks
  BY DEF IInv, TypeOK, Service
<1>2. web \in Servers /\ IsSound(web, Current)
  BY HandledIsSound
<1>3. CASE Current.kind = "Error" /\ Current.id # 0
  BY <1>2, <1>3 DEF IsSound
<1>4. CASE /\ Current.kind = "Data"
           /\ slot[web][Current.id] \notin {d \in Clients : peer[d] # "down"}
  <2>1. PICK c \in Clients : c = Current.of
    BY <1>2, <1>4 DEF IsSound
  <2>2. home[c] = <<web, Current.id>> /\ (peer[c] = "up" => slot[web][Current.id] = c)
    BY <1>2, <1>4, <2>1 DEF IsSound
  <2>3. home[c] # Nowhere
    BY <1>2, <2>2, Places
  <2>4. peer[c] # "up"
    BY <1>4, <2>2
  <2>5. peer[c] # "away" /\ peer[c] # "dropped"
    BY <1>1, <2>3 DEF Homes, Blocks
  <2>6. peer[c] = "down"
    BY <1>1, <2>4, <2>5 DEF ClientTypes
  <2> QED BY <2>2, <2>6
<1> QED BY <1>3, <1>4

LEMMA IdleIsTyped ==
    /\ Idle \in MainType /\ Idle.pc = "idle" /\ Idle.end = 0
    /\ [Idle EXCEPT !.pc = "crashed"] \in MainType
    /\ [Idle EXCEPT !.pc = "crashed"].pc = "crashed" /\ [Idle EXCEPT !.pc = "crashed"].end = 0
    /\ [Idle EXCEPT !.pc = "start"] \in MainType
    /\ [Idle EXCEPT !.pc = "start"].pc = "start" /\ [Idle EXCEPT !.pc = "start"].end = 0
BY DEF Idle, MainType, MainPlaces

(* Taking a system event.                                                  *)
LEMMA TakeStep ==
    ASSUME IInv, NextEvent \/ PopSize \/ PopData \/ HandleNothing
    PROVE  ClientTypes' /\ ServerTypes' /\ Service'
<1>1. ClientTypes /\ ServerTypes /\ Handles /\ Answered /\ main \in MainType
  BY DEF IInv, TypeOK, Service, MainTypes
<1>2. /\ main.pc \in {"idle", "size", "data", "through"}
      /\ UNCHANGED <<plan, clientVars, serverVars, web>>
  BY DEF NextEvent, PopSize, PopData, HandleNothing
<1>3. main'.pc \in {"idle", "size", "data", "start", "through"} /\ main'.end = main.end
  <2>1. main.end = 0
    <3>1. ~(main.end > 0) /\ main.end \in Nat
      BY <1>1, <1>2 DEF Handles, MainType
    <3> QED BY <3>1
  <2>2. CASE NextEvent
    BY <1>1, <2>2 DEF NextEvent, MainType
  <2>3. CASE PopSize
    BY <1>1, <2>3 DEF PopSize, MainType
  <2>4. CASE PopData
    BY <2>1, <2>4 DEF PopData, Idle
  <2>5. CASE HandleNothing
    BY <2>1, <2>5, IdleIsTyped DEF HandleNothing
  <2> QED BY <2>2, <2>3, <2>4, <2>5
<1>4. ClientTypes' /\ ServerTypes'
  BY <1>1, <1>2 DEF ClientTypes, ServerTypes, clientVars, serverVars
<1>5. Handles' /\ Answered'
  <2>1. ~(main'.end > 0)
    BY <1>1, <1>2, <1>3 DEF Handles
  <2> QED BY <1>1, <1>2, <1>3, <2>1 DEF Handles, Answered, clientVars
<1>6. Service'
  BY <1>2, <1>3, <1>5, MainKeeps DEF clientVars, serverVars
<1> QED BY <1>4, <1>6

LEMMA StartServers ==
    ASSUME IInv, StartNetworkServers
    PROVE  ClientTypes' /\ ServerTypes' /\ Service'
<1>1. /\ ClientTypes /\ ServerTypes /\ Ports /\ Homes /\ Ready /\ Entries /\ Pushes
      /\ Handles /\ Answered /\ Blocks /\ main \in MainType /\ web \in Nat
  BY NetworkAssumption DEF IInv, TypeOK, Service, MainTypes
<1>2. PICK s : s = web + 1
  OBVIOUS
<1>3. s \in Servers
  BY <1>2, RoomForAddresses DEF IInv, StartNetworkServers
<1>4. PICK r : r = IF plan.locked THEN Bound(s) ELSE Resting("bind")
  OBVIOUS
<1>5. /\ main.pc = "start" /\ web' = s /\ task' = [task EXCEPT ![s] = r] /\ main' = Idle
      /\ UNCHANGED <<plan, peer, sent, unread, home, got, unseen, backlog, slot, events>>
  BY <1>2, <1>4 DEF StartNetworkServers, clientVars
<1>6. /\ r \in TaskType /\ r.ready = {} /\ r.entry = Junk /\ r.pc \in {"select", "post", "bind"}
      /\ r.port => Listening = {}
      /\ r.pc = "select" => r.port
      /\ r.pc = "post" => r.at = 0
  BY <1>4, JunkIsSound DEF Bound, Resting, TaskType, TaskPlaces
<1>7. /\ task' \in [Servers -> TaskType] /\ task'[s] = r
      /\ \A t \in Servers : t # s => task'[t] = task[t]
  BY <1>1, <1>3, <1>5, <1>6 DEF ServerTypes
<1>8. ClientTypes' /\ ServerTypes'
  BY <1>1, <1>5, <1>7 DEF ClientTypes, ServerTypes
<1>9. Ports'
  <2>1. PortAt(s)'
    BY <1>6, <1>7 DEF PortAt, At
  <2>2. \A t \in Servers : t # s => PortAt(t)'
    BY <1>1, <1>5, <1>7 DEF Ports, PortAt, At
  <2>3. \A t, u \in Servers : task'[t].port /\ task'[u].port => t = u
    BY <1>1, <1>6, <1>7 DEF Ports, Listening
  <2> QED BY <2>1, <2>2, <2>3 DEF Ports
<1>10. Homes'
  BY <1>1, <1>5 DEF Homes
<1>11. Ready'
  <2>1. \A t \in Servers : ReadyAt(t)'
    BY <1>1, <1>5, <1>6, <1>7 DEF Ready, ReadyAt
  <2> QED BY <2>1 DEF Ready
<1>12. Entries'
  <2>1. ASSUME NEW t \in Servers PROVE EntriesAt(t)'
    <3>1. task'[t].entry = task[t].entry \/ task'[t].entry = Junk
      BY <1>6, <1>7
    <3>2. \A k \in 1..Len(events[t]) : IsSound(t, events[t][k])
      BY <1>1 DEF Entries, EntriesAt
    <3>3. IsSound(t, task'[t].entry) /\ IsEnding(t, task'[t].entry)
      BY <1>1, <3>1, JunkIsSound DEF Entries, EntriesAt
    <3> QED BY <1>5, <3>2, <3>3 DEF EntriesAt, IsSound, IsEnding
  <2> QED BY <2>1 DEF Entries
<1>13. ~(main.end > 0) /\ ~(main'.end > 0) /\ main'.pc = "idle"
  BY <1>1, <1>5, IdleIsTyped DEF Handles
<1>14. Pushes'
  <2>1. ASSUME NEW t \in Servers PROVE PushAt(t)'
    <3>1. CASE t = s
      BY <1>6, <1>7, <3>1 DEF PushAt, At
    <3>2. CASE t # s
      BY <1>1, <1>5, <1>7, <1>13, <3>2 DEF Pushes, PushAt, At, Handling
    <3> QED BY <3>1, <3>2
  <2> QED BY <2>1 DEF Pushes
<1>15. Handles'
  BY <1>13 DEF Handles
<1>16. Answered'
  BY <1>1, <1>5 DEF Answered
<1>17. Blocks'
  BY <1>1, <1>5, <1>13 DEF Blocks
<1> QED BY <1>8, <1>9, <1>10, <1>11, <1>12, <1>14, <1>15, <1>16, <1>17 DEF Service

(* The loop of handleEvents.                                               *)
LEMMA HandleEventsStep ==
    ASSUME IInv, HandleEvents
    PROVE  MainTypes' /\ ClientTypes' /\ ServerTypes' /\ Service'
<1>1. /\ ClientTypes /\ ServerTypes /\ Ports /\ Homes /\ Ready /\ Entries /\ Pushes /\ Handles
      /\ Answered /\ Blocks /\ main \in MainType /\ web \in 0..MaxAddresses
  BY DEF IInv, TypeOK, Service, MainTypes
<1>2. PICK n : n = Len(events[web])
  OBVIOUS
<1>3. /\ main.pc \in {"idle", "through"} /\ web # 0 /\ events[web] # <<>>
      /\ (plan.locked => ~At(web, "push"))
      /\ main' = [Idle EXCEPT !.pc = "handling", !.at = 1, !.end = n]
      /\ UNCHANGED <<plan, peer, sent, unread, home, got, unseen, backlog, task, slot, events, web>>
  BY <1>2 DEF HandleEvents, NoEvent, clientVars, serverVars
<1>4. web \in Servers
  BY <1>1, <1>3, NetworkAssumption DEF Servers
<1>5. n \in Nat /\ n > 0 /\ events[web] \in Seq(EventEntries)
  BY <1>1, <1>2, <1>3, <1>4, LenProperties, EmptySeq DEF ServerTypes
<1>6. /\ main' \in MainType /\ main'.pc = "handling" /\ main'.at = 1 /\ main'.end = n
  BY <1>3, <1>5 DEF Idle, MainType, MainPlaces
<1>7. MainTypes' /\ ClientTypes' /\ ServerTypes'
  BY <1>1, <1>3, <1>6 DEF MainTypes, ClientTypes, ServerTypes
<1>8. Ports' /\ Homes' /\ Ready' /\ Answered'
  <2>1. Answered'
    BY <1>1, <1>3 DEF Answered
  <2> QED BY <1>1, <1>3, <2>1, SameTasks
<1>9. Entries'
  BY <1>1, <1>3, SameEntries
<1>10. ~(main.end > 0)
  BY <1>1, <1>3 DEF Handles
<1>11. Pushes'
  <2> SUFFICES ASSUME NEW s \in Servers PROVE PushAt(s)'
    BY DEF Pushes
  <2>1. /\ At(s, "push") => events[s] = <<>> \/ Len(events[s]) = task[s].size
        /\ At(s, "element") =>
             \/ events[s] = <<>>
             \/ task[s].size + 1 <= Len(events[s]) /\ events[s][task[s].size + 1] = Junk
    BY <1>1, <1>3, <1>10 DEF Pushes, PushAt, Handling
  <2>2. CASE s = web
    BY <1>2, <1>3, <1>5, <1>6, <2>1, <2>2 DEF PushAt, At, Handling
  <2>3. CASE s # web
    BY <1>3, <1>6, <2>1, <2>3 DEF PushAt, At, Handling
  <2> QED BY <2>2, <2>3
<1>12. Handles'
  BY <1>2, <1>3, <1>4, <1>5, <1>6 DEF Handles
<1>13. Blocks'
  BY <1>1, <1>3, <1>6 DEF Blocks
<1> QED BY <1>7, <1>8, <1>9, <1>11, <1>12, <1>13 DEF Service

(* The loop goes on with the next event.                                   *)
LEMMA GoesOn ==
    ASSUME IInv, main' = NextEntry, main.end > 0, main.at <= main.end, main.pc # "blocked",
           UNCHANGED <<plan, peer, sent, unread, home, got, backlog, task, slot, events, web>>,
           unseen' \subseteq Clients
    PROVE  MainTypes' /\ ClientTypes' /\ ServerTypes' /\ Service'
<1>1. /\ ClientTypes /\ ServerTypes /\ Handles /\ Answered /\ MainTypes
  BY DEF IInv, TypeOK, Service
<1>2. Stands(main', main, "handling", main.at + 1)
  BY <1>1, NextEntryIs DEF MainTypes
<1>3. /\ web \in Servers /\ main.at \in 1..main.end /\ main.end \in Nat
      /\ main.end <= Len(events[web])
  BY <1>1, HandledIsSound DEF Handles
<1>4. MainTypes' /\ ClientTypes' /\ ServerTypes'
  BY <1>1, <1>2 DEF MainTypes, ClientTypes, ServerTypes, Stands
<1>5. Handles'
  BY <1>2, <1>3 DEF Handles, Stands
<1>6. Answered'
  BY <1>1 DEF Answered
<1>7. main.pc # "crashed"
  BY <1>1 DEF Handles
<1>8. Service'
  BY <1>2, <1>5, <1>6, <1>7, MainKeeps DEF Stands
<1> QED BY <1>4, <1>8

LEMMA PassOrDone ==
    ASSUME IInv, PassEvent \/ Done
    PROVE  MainTypes' /\ ClientTypes' /\ ServerTypes' /\ Service'
<1>1. ClientTypes /\ Handles /\ main \in MainType
  BY DEF IInv, TypeOK, Service, MainTypes
<1>2. /\ main' = NextEntry /\ main.pc \in {"handling", "done"}
      /\ main.pc = "handling" => main.at <= main.end
      /\ UNCHANGED <<plan, peer, sent, unread, home, got, unseen, backlog, task, slot, events, web>>
  BY DEF PassEvent, Done, InHandler, clientVars, serverVars
<1>3. main.end > 0 /\ main.at <= main.end
  BY <1>1, <1>2 DEF Handles
<1>4. unseen' \subseteq Clients
  BY <1>1, <1>2 DEF ClientTypes
<1> QED BY <1>2, <1>3, <1>4, GoesOn

LEMMA AstrayStep ==
    ASSUME IInv, Astray
    PROVE  MainTypes' /\ ClientTypes' /\ ServerTypes' /\ Service'
<1>1. ClientTypes /\ ServerTypes /\ Handles /\ Answered /\ MainTypes
  BY DEF IInv, TypeOK, Service
<1>2. /\ main.pc = "handling" /\ main.at <= main.end
      /\ main' = NextEntry \/ main' = [Idle EXCEPT !.pc = "crashed"]
      /\ unseen' = unseen \cup Asks(Current)
      /\ UNCHANGED <<plan, peer, sent, unread, home, got, backlog, task, slot, events, web>>
  BY DEF Astray, InHandler, serverVars
<1>3. main.end > 0
  BY <1>1, <1>2 DEF Handles
<1>4. unseen' \subseteq Clients
  <2>1. IsSound(web, Current)
    BY <1>2, <1>3, HandledIsSound
  <2> QED BY <1>1, <1>2, <2>1 DEF IsSound, Asks, ClientTypes
<1>5. CASE main' = NextEntry
  BY <1>2, <1>3, <1>4, <1>5, GoesOn
<1>6. CASE main' = [Idle EXCEPT !.pc = "crashed"]
  <2>1. main' \in MainType /\ main'.pc = "crashed" /\ ~(main'.end > 0)
    BY <1>6, IdleIsTyped
  <2>2. MainTypes' /\ ClientTypes' /\ ServerTypes'
    BY <1>1, <1>2, <1>4, <2>1 DEF MainTypes, ClientTypes, ServerTypes
  <2>3. Handles' /\ Answered'
    BY <1>1, <1>2, <2>1 DEF Handles, Answered
  <2>4. Service'
    BY <1>2, <2>1, <2>3, MainKeeps
  <2> QED BY <2>2, <2>4
<1> QED BY <1>2, <1>5, <1>6

LEMMA ErrorStep ==
    ASSUME IInv, ErrorEvent
    PROVE  MainTypes' /\ ClientTypes' /\ ServerTypes' /\ Service'
<1>1. ClientTypes /\ ServerTypes /\ Handles /\ Answered /\ MainTypes
  BY DEF IInv, TypeOK, Service
<1>2. /\ main.pc = "handling" /\ main.at <= main.end /\ Current.kind = "Error" /\ Current.id # 0
      /\ main' = [main EXCEPT !.pc = "drop", !.back = "handling"]
      /\ UNCHANGED <<plan, peer, sent, unread, home, got, unseen, backlog, task, slot, events, web>>
  BY DEF ErrorEvent, InHandler, clientVars, serverVars
<1>3. main.end > 0
  BY <1>1, <1>2 DEF Handles
<1>4. /\ main' \in MainType /\ main'.pc = "drop" /\ main'.back = "handling"
      /\ main'.at = main.at /\ main'.end = main.end
  BY <1>1, <1>2 DEF MainTypes, MainType, MainPlaces
<1>5. MainTypes' /\ ClientTypes' /\ ServerTypes'
  BY <1>1, <1>2, <1>4 DEF MainTypes, ClientTypes, ServerTypes
<1>6. Current' = Current
  BY <1>2, <1>4 DEF Current
<1>7. Handles' /\ Answered'
  BY <1>1, <1>2, <1>3, <1>4, <1>6 DEF Handles, Answered
<1>8. plan.locked => \E c \in Clients : peer[c] = "down" /\ home[c] = <<web, Current.id>>
  BY <1>2, <1>3, DropsTheHungUp
<1>9. Service'
  BY <1>2, <1>4, <1>6, <1>7, <1>8, MainKeeps
<1> QED BY <1>5, <1>9

(* A part of the answer is sent, or the client is not there any more.      *)
LEMMA SendKeeps ==
    ASSUME IInv, NEW part \in {"header", "body"}, NEW p \in {"body", "done"},
           main.pc \in {"handling", "body"}, main.end > 0, main.at <= main.end,
           Current.kind = "Data", Send(part, [main EXCEPT !.pc = p])
    PROVE  MainTypes' /\ ClientTypes' /\ ServerTypes' /\ Service'
<1>1. ClientTypes /\ ServerTypes /\ Homes /\ Handles /\ Answered /\ MainTypes
  BY DEF IInv, TypeOK, Service
<1>2. PICK then : then = [main EXCEPT !.pc = p]
  OBVIOUS
<1>3. then \in MainType /\ then.pc = p /\ then.at = main.at /\ then.end = main.end
  BY <1>1, <1>2 DEF MainTypes, MainType, MainPlaces
<1>4. PICK c, o : c = slot[web][Current.id] /\ o = Current.of
  OBVIOUS
<1>5. /\ web \in Servers /\ Current.id \in Slots /\ o \in Clients /\ home[o] = <<web, Current.id>>
      /\ peer[o] = "up" => c = o
      /\ main.at \in 1..main.end
  BY <1>4, HandledIsSound DEF IsSound
<1>6. c \in Clients \cup {NoClient} /\ (c # NoClient => home[c] = <<web, Current.id>>)
  BY <1>1, <1>4, <1>5 DEF ServerTypes, Homes
<1>7. UNCHANGED <<plan, peer, sent, unread, home, unseen, backlog, task, slot, events, web>>
  BY DEF Send, serverVars
<1>8. \/ /\ c # NoClient
         /\ got' = [got EXCEPT ![c] = @ \cup {[of |-> o, part |-> part]}]
         /\ main' = then
      \/ /\ c \notin {d \in Clients : peer[d] # "down"}
         /\ main' = [then EXCEPT !.pc = "drop", !.back = then.pc]
         /\ got' = got
  BY <1>2, <1>4 DEF Send
<1>9. CASE /\ c # NoClient
           /\ got' = [got EXCEPT ![c] = @ \cup {[of |-> o, part |-> part]}]
           /\ main' = then
  <2>1. PICK b : b = [of |-> o, part |-> part]
    OBVIOUS
  <2>2. b \in [of : Clients, part : {"header", "body"}] /\ b.of = o
    BY <1>5, <2>1
  <2>3. got' = [got EXCEPT ![c] = @ \cup {b}]
    BY <1>9, <2>1
  <2>4. /\ got' \in [Clients -> SUBSET [of : Clients, part : {"header", "body"}]]
        /\ got'[c] = got[c] \cup {b}
        /\ \A d \in Clients : d # c => got'[d] = got[d]
    BY <1>1, <1>6, <1>9, <2>2, <2>3 DEF ClientTypes
  <2>5. MainTypes' /\ ClientTypes' /\ ServerTypes'
    BY <1>1, <1>3, <1>7, <1>9, <2>4 DEF MainTypes, ClientTypes, ServerTypes
  <2>6. Answered'
    <3>1. home[o] # Nowhere
      BY <1>5, Places
    <3>2. b.of = c \/ (home[b.of] = home[c] /\ peer[b.of] # "up")
      BY <1>5, <1>6, <1>9, <2>2
    <3>3. \A d \in Clients : \A a \in got'[d] : a \in got[d] \/ (a = b /\ d = c)
      BY <2>4
    <3> QED BY <1>1, <1>7, <2>2, <3>1, <3>2, <3>3 DEF Answered
  <2>7. Current' = Current
    BY <1>3, <1>7, <1>9 DEF Current
  <2>8. Handles'
    BY <1>1, <1>3, <1>5, <1>7, <1>9, <2>7 DEF Handles
  <2>9. Service'
    BY <1>3, <1>7, <1>9, <2>6, <2>8, MainKeeps
  <2> QED BY <2>5, <2>9
<1>10. CASE /\ c \notin {d \in Clients : peer[d] # "down"}
            /\ main' = [then EXCEPT !.pc = "drop", !.back = then.pc]
            /\ got' = got
  <2>1. /\ main' \in MainType /\ main'.pc = "drop" /\ main'.back = p
        /\ main'.at = main.at /\ main'.end = main.end
    <3>1. then.pc \in MainPlaces
      BY <1>3 DEF MainPlaces
    <3> QED BY <1>3, <1>10, <3>1 DEF MainType, MainPlaces
  <2>2. MainTypes' /\ ClientTypes' /\ ServerTypes'
    BY <1>1, <1>7, <1>10, <2>1 DEF MainTypes, ClientTypes, ServerTypes
  <2>3. Current' = Current
    BY <1>7, <2>1 DEF Current
  <2>4. Handles'
    BY <1>1, <1>5, <1>7, <2>1, <2>3 DEF Handles
  <2>5. Answered'
    BY <1>1, <1>7, <1>10 DEF Answered
  <2>6. plan.locked => \E d \in Clients : peer[d] = "down" /\ home[d] = <<web, Current.id>>
    BY <1>4, <1>10, DropsTheHungUp
  <2>7. Service'
    BY <1>7, <2>1, <2>3, <2>4, <2>5, <2>6, MainKeeps
  <2> QED BY <2>2, <2>7
<1> QED BY <1>8, <1>9, <1>10

LEMMA SendStep ==
    ASSUME IInv, SendHeader \/ SendBody
    PROVE  MainTypes' /\ ClientTypes' /\ ServerTypes' /\ Service'
<1>1. Handles
  BY DEF IInv, Service
<1>2. CASE SendHeader
  <2>1. main.pc = "handling" /\ main.at <= main.end /\ Current.kind = "Data"
    BY <1>2 DEF SendHeader, InHandler, IsAnswered
  <2>2. main.end > 0
    BY <1>1, <2>1 DEF Handles
  <2> QED BY <1>2, <2>1, <2>2, SendKeeps DEF SendHeader
<1>3. CASE SendBody
  <2>1. main.pc = "body" /\ Current.kind = "Data" /\ main.end > 0 /\ main.at <= main.end
    BY <1>1, <1>3 DEF SendBody, Handles
  <2> QED BY <1>3, <2>1, SendKeeps DEF SendBody
<1> QED BY <1>2, <1>3

(* The list of the server is cleared.                                      *)
LEMMA HandledAllStep ==
    ASSUME IInv, HandledAll
    PROVE  MainTypes' /\ ClientTypes' /\ ServerTypes' /\ Service'
<1>1. /\ ClientTypes /\ ServerTypes /\ Ports /\ Homes /\ Ready /\ Entries /\ Pushes /\ Handles
      /\ Answered /\ Blocks /\ MainTypes
  BY DEF IInv, TypeOK, Service
<1>2. /\ main.pc = "handling" /\ events' = [events EXCEPT ![web] = <<>>] /\ main' = Idle
      /\ UNCHANGED <<plan, peer, sent, unread, home, got, backlog, task, slot, web>>
  BY DEF HandledAll
<1>3. /\ web \in Servers /\ main.end \in Nat /\ main.end > 0
  BY <1>1, <1>2 DEF Handles, MainTypes, MainType
<1>4. /\ events' \in [Servers -> Seq(EventEntries)] /\ events'[web] = <<>>
      /\ \A t \in Servers : t # web => events'[t] = events[t]
  BY <1>1, <1>2, <1>3 DEF ServerTypes
<1>5. unseen' \subseteq Clients
  <2>1. ASSUME NEW k \in (main.end + 1)..Len(events[web])
        PROVE  Asks(events[web][k]) \subseteq Clients
    <3>1. Len(events[web]) \in Nat
      BY <1>1, <1>3, LenProperties DEF ServerTypes
    <3>2. k \in 1..Len(events[web])
      BY <1>3, <3>1
    <3> QED BY <1>1, <1>3, <3>2 DEF Entries, EntriesAt, IsSound, Asks
  <2>2. unseen' = unseen \cup UNION {Asks(events[web][k]) : k \in (main.end + 1)..Len(events[web])}
    BY DEF HandledAll
  <2> QED BY <1>1, <2>1, <2>2 DEF ClientTypes
<1>6. MainTypes' /\ ClientTypes' /\ ServerTypes'
  BY <1>1, <1>2, <1>4, <1>5, IdleIsTyped DEF MainTypes, ClientTypes, ServerTypes
<1>7. Ports' /\ Homes' /\ Ready' /\ Answered'
  <2>1. Answered'
    BY <1>1, <1>2 DEF Answered
  <2> QED BY <1>1, <1>2, <2>1, SameTasks
<1>8. Entries'
  <2>1. ASSUME NEW t \in Servers PROVE EntriesAt(t)'
    <3>1. /\ \A k \in 1..Len(events[t]) : IsSound(t, events[t][k])
          /\ IsSound(t, task[t].entry) /\ IsEnding(t, task[t].entry)
      BY <1>1 DEF Entries, EntriesAt
    <3>2. \A k \in 1..Len(events'[t]) : IsSound(t, events'[t][k])
      <4>1. Len(<<>>) = 0
        OBVIOUS
      <4> QED BY <1>4, <3>1, <4>1
    <3> QED BY <1>2, <3>1, <3>2 DEF EntriesAt, IsSound, IsEnding
  <2> QED BY <2>1 DEF Entries
<1>9. ~(main'.end > 0) /\ main'.pc = "idle"
  BY <1>2, IdleIsTyped
<1>10. Pushes'
  <2>1. ASSUME NEW t \in Servers PROVE PushAt(t)'
    <3>1. CASE t = web
      BY <1>2, <1>4, <1>9, <3>1 DEF PushAt, At, Handling
    <3>2. CASE t # web
      BY <1>1, <1>2, <1>4, <1>9, <3>2 DEF Pushes, PushAt, At, Handling
    <3> QED BY <3>1, <3>2
  <2> QED BY <2>1 DEF Pushes
<1>11. Handles'
  BY <1>9 DEF Handles
<1>12. Blocks'
  BY <1>1, <1>2, <1>9 DEF Blocks
<1> QED BY <1>6, <1>7, <1>8, <1>10, <1>11, <1>12 DEF Service

(* disconnect(): the slot is freed and its client dropped.                 *)
LEMMA DropFrees ==
    ASSUME IInv, Drop
    PROVE  /\ web \in Servers /\ Current.id \in Slots /\ main.end > 0 /\ main.at \in 1..main.end
           /\ main.pc = "drop"
           /\ UNCHANGED <<plan, sent, unread, home, got, unseen, backlog, task, web>>
           /\ peer' \in [Clients -> {"away", "up", "down", "dropped"}]
           /\ slot' \in [Servers -> [Slots -> Clients \cup {NoClient}]]
           /\ \A t \in Servers : t # web => slot'[t] = slot[t]
           /\ \A t \in Servers, i \in Slots : slot'[t][i] \in {slot[t][i], NoClient}
           /\ Kept /\ Homes'
           /\ \A d \in Clients : peer[d] = "down" => peer'[d] = "down"
<1>1. ClientTypes /\ ServerTypes /\ Homes /\ Handles
  BY DEF IInv, TypeOK, Service
<1>2. PICK i, c : i = Current.id /\ c = slot[web][i]
  OBVIOUS
<1>3. /\ main.pc = "drop" /\ slot' = [slot EXCEPT ![web][i] = NoClient]
      /\ peer' = (IF c # NoClient /\ peer[c] = "up" THEN [peer EXCEPT ![c] = "dropped"] ELSE peer)
      /\ UNCHANGED <<plan, sent, unread, home, got, unseen, backlog, task, web>>
  BY <1>2 DEF Drop
<1>4. main.end > 0 /\ main.at <= main.end
  BY <1>1, <1>3 DEF Handles
<1>5. web \in Servers /\ i \in Slots /\ main.at \in 1..main.end
  <2>1. /\ web \in Servers /\ Current \in EventEntries /\ IsSound(web, Current)
        /\ main.at \in 1..main.end
    BY <1>4, HandledIsSound
  <2>2. Current.kind = "Data" \/ (Current.kind = "Error" /\ Current.id # 0)
    BY <1>1, <1>3 DEF Handles
  <2>3. Current.id \in 0..MaxConnections
    BY <2>1 DEF EventEntries
  <2>4. Current.id \in Slots
    BY <2>1, <2>2, <2>3, NetworkAssumption DEF IsSound, Slots
  <2> QED BY <1>2, <2>1, <2>4
<1>6. /\ slot' \in [Servers -> [Slots -> Clients \cup {NoClient}]]
      /\ slot'[web][i] = NoClient
      /\ \A t \in Servers : t # web => slot'[t] = slot[t]
      /\ \A j \in Slots : j # i => slot'[web][j] = slot[web][j]
  BY <1>1, <1>3, <1>5 DEF ServerTypes
<1>7. c \in Clients \cup {NoClient}
  BY <1>1, <1>2, <1>5 DEF ServerTypes
<1>8. /\ peer' \in [Clients -> {"away", "up", "down", "dropped"}]
      /\ \A d \in Clients : d # c => peer'[d] = peer[d]
      /\ \A d \in Clients : d = c /\ peer[d] = "up" => peer'[d] = "dropped"
      /\ \A d \in Clients : d = c /\ peer[d] # "up" => peer'[d] = peer[d]
  <2>1. CASE c # NoClient /\ peer[c] = "up"
    <3>1. c \in Clients /\ peer' = [peer EXCEPT ![c] = "dropped"]
      BY <1>3, <1>7, <2>1
    <3> QED BY <1>1, <2>1, <3>1 DEF ClientTypes
  <2>2. CASE ~(c # NoClient /\ peer[c] = "up")
    <3>1. peer' = peer
      BY <1>3, <2>2
    <3>2. \A d \in Clients : d = c => peer[d] # "up"
      BY <2>2, Places
    <3> QED BY <1>1, <3>1, <3>2 DEF ClientTypes
  <2> QED BY <2>1, <2>2
<1>9. \A t \in Servers, j \in Slots : slot'[t][j] \in {slot[t][j], NoClient}
  BY <1>6
<1>10. Kept
  <2>1. ASSUME NEW t \in Servers, NEW j \in Slots, NEW d \in Clients,
               slot[t][j] = d, peer'[d] = "up"
        PROVE  slot'[t][j] = d
    <3>1. d # c
      BY <1>8, <2>1
    <3>2. ~(t = web /\ j = i)
      BY <1>2, <2>1, <3>1
    <3> QED BY <1>6, <2>1, <3>2
  <2>2. \A d \in Clients : /\ peer[d] = "down" => peer'[d] = "down"
                           /\ peer'[d] = "up" => peer[d] = "up"
    BY <1>8
  <2> QED BY <1>3, <2>1, <2>2 DEF Kept
<1>11. \A d \in Clients : d = c => home[d] = <<web, i>>
  <2> SUFFICES ASSUME NEW d \in Clients, d = c PROVE home[d] = <<web, i>>
    OBVIOUS
  <2>1. PICK s \in Servers : s = web
    BY <1>5
  <2>2. slot[s][i] = d /\ d # NoClient
    BY <1>2, <2>1, Places
  <2>3. home[slot[s][i]] = <<s, i>>
    BY <1>1, <1>5, <2>2 DEF Homes
  <2> QED BY <2>1, <2>2, <2>3
<1>12. Homes'
  <2>1. \A k \in 1..Len(backlog') : peer'[backlog'[k]] \in {"up", "down"} /\ home'[backlog'[k]] = Nowhere
    <3> SUFFICES ASSUME NEW k \in 1..Len(backlog)
                 PROVE  peer'[backlog[k]] \in {"up", "down"} /\ home[backlog[k]] = Nowhere
      BY <1>3
    <3>1. /\ peer[backlog[k]] \in {"up", "down"} /\ home[backlog[k]] = Nowhere
          /\ backlog[k] \in Clients
      BY <1>1, ElementOfSeq DEF Homes, ServerTypes
    <3>2. backlog[k] # c
      BY <1>5, <1>11, <3>1, Places
    <3> QED BY <1>8, <3>1, <3>2
  <2>2. \A d \in Clients : peer'[d] = "away" => home'[d] = Nowhere
    BY <1>1, <1>3, <1>8 DEF Homes
  <2>3. ASSUME NEW t \in Servers, NEW j \in Slots, slot'[t][j] # NoClient
        PROVE  home'[slot'[t][j]] = <<t, j>> /\ peer'[slot'[t][j]] \in {"up", "down"}
    <3>1. slot'[t][j] = slot[t][j] /\ ~(t = web /\ j = i)
      BY <1>6, <1>9, <2>3
    <3>2. /\ home[slot[t][j]] = <<t, j>> /\ peer[slot[t][j]] \in {"up", "down"}
          /\ slot[t][j] \in Clients
      BY <1>1, <2>3, <3>1 DEF Homes, ServerTypes
    <3>3. slot[t][j] # c
      BY <1>11, <3>1, <3>2
    <3> QED BY <1>3, <1>8, <3>1, <3>2, <3>3
  <2> QED BY <1>1, <1>3, <2>1, <2>2, <2>3 DEF Homes
<1> QED BY <1>2, <1>3, <1>4, <1>5, <1>6, <1>8, <1>9, <1>10, <1>12

LEMMA DropStep ==
    ASSUME IInv, Drop
    PROVE  MainTypes' /\ ClientTypes' /\ ServerTypes' /\ Service'
<1>1. /\ ClientTypes /\ ServerTypes /\ Ports /\ Ready /\ Entries /\ Pushes /\ Handles
      /\ Answered /\ Blocks /\ MainTypes
  BY DEF IInv, TypeOK, Service
<1>2. /\ web \in Servers /\ Current.id \in Slots /\ main.end > 0 /\ main.at \in 1..main.end
      /\ main.pc = "drop"
      /\ UNCHANGED <<plan, sent, unread, home, got, unseen, backlog, task, web>>
      /\ peer' \in [Clients -> {"away", "up", "down", "dropped"}]
      /\ slot' \in [Servers -> [Slots -> Clients \cup {NoClient}]]
      /\ \A t \in Servers, i \in Slots : slot'[t][i] \in {slot[t][i], NoClient}
      /\ Kept /\ Homes'
      /\ \A d \in Clients : peer[d] = "down" => peer'[d] = "down"
  BY DropFrees
<1>3. Ports'
  BY <1>1, <1>2 DEF Ports, PortAt, At
<1>4. Ready'
  <2>1. \A t \in Servers : task[t].ready \subseteq Clients
    BY <1>1 DEF ServerTypes, TaskType
  <2>2. \A t \in Servers : ReadyAt(t)'
    BY <1>1, <1>2, <2>1, ReadyKept DEF Ready
  <2> QED BY <2>2 DEF Ready
<1>5. Answered'
  BY <1>1, <1>2, AnsweredKept
<1>6. CASE plan.locked
  <2>1. events' = events /\ main' = [main EXCEPT !.pc = "blocked"]
    BY <1>6 DEF Drop
  <2>2. /\ main' \in MainType /\ main'.pc = "blocked" /\ main'.at = main.at
        /\ main'.end = main.end /\ main'.back = main.back
    BY <1>1, <2>1 DEF MainTypes, MainType, MainPlaces
  <2>3. MainTypes' /\ ClientTypes' /\ ServerTypes'
    BY <1>1, <1>2, <2>1, <2>2 DEF MainTypes, ClientTypes, ServerTypes
  <2>4. Entries'
    <3>1. \A t \in Servers : EntriesAt(t)'
      BY <1>1, <1>2, <2>1, EntriesKept DEF Entries
    <3> QED BY <3>1 DEF Entries
  <2>5. Pushes'
    <3> SUFFICES ASSUME NEW t \in Servers PROVE PushAt(t)'
      BY DEF Pushes
    <3>1. PushAt(t)
      BY <1>1 DEF Pushes
    <3> QED BY <1>2, <2>1, <2>2, <3>1 DEF PushAt, At, Handling
  <2>6. Current' = Current
    BY <1>2, <2>1, <2>2 DEF Current
  <2>7. Handles'
    BY <1>1, <1>2, <2>1, <2>2, <2>6 DEF Handles
  <2>8. \E c \in Clients : peer'[c] = "down" /\ home'[c] = <<web, Current.id>>
    BY <1>1, <1>2, <1>6 DEF Blocks
  <2>9. Blocks'
    BY <1>2, <1>6, <2>2, <2>6, <2>8 DEF Blocks
  <2> QED BY <1>2, <1>3, <1>4, <1>5, <2>3, <2>4, <2>5, <2>7, <2>9 DEF Service
<1>7. CASE ~plan.locked
  <2>1. PICK i, e : i = Current.id /\ e = Entry("Disconnected", i, NoClient, FALSE)
    OBVIOUS
  <2>2. events' = [events EXCEPT ![web] = Append(@, e)]
    BY <1>7, <2>1 DEF Drop
  <2>3. PICK moved \in BOOLEAN, k \in Nat :
          /\ main' = [main EXCEPT !.moved = moved, !.back = "idle", !.at = k, !.pc = main.back]
          /\ k = IF main.back = "handling" THEN main.at + 1 ELSE main.at
    <3>1. PICK grows \in BOOLEAN :
            main' = [main EXCEPT !.moved = @ \/ grows, !.back = "idle",
                                 !.at = IF main.back = "handling" THEN @ + 1 ELSE @,
                                 !.pc = main.back]
      BY <1>7 DEF Drop
    <3>2. PICK moved \in BOOLEAN : moved = (main.moved \/ grows)
      OBVIOUS
    <3>3. PICK k : k = IF main.back = "handling" THEN main.at + 1 ELSE main.at
      OBVIOUS
    <3>4. k \in Nat
      BY <1>1, <3>3 DEF MainTypes, MainType
    <3>5. main' = [main EXCEPT !.moved = moved, !.back = "idle", !.at = k, !.pc = main.back]
      BY <3>1, <3>2, <3>3
    <3> QED BY <3>3, <3>4, <3>5
  <2>4. /\ main' \in MainType /\ main'.pc = main.back /\ main'.at = k /\ main'.end = main.end
    <3>1. main.back \in MainPlaces /\ "idle" \in MainPlaces
      BY <1>1 DEF MainTypes, MainType, MainPlaces
    <3> QED BY <1>1, <2>3, <3>1 DEF MainTypes, MainType
  <2>5. /\ main.back \in {"handling", "body", "done"}
        /\ main.back \in {"body", "done"} => Current.kind = "Data"
    BY <1>1, <1>2 DEF Handles
  <2>6. e \in EventEntries /\ e.kind = "Disconnected"
    <3>1. i \in 0..MaxConnections
      BY <1>2, <2>1, NetworkAssumption DEF Slots
    <3> QED BY <2>1, <3>1 DEF Entry, EventEntries, EventKinds
  <2>7. PICK q, n : q = events[web] /\ n = Len(q)
    OBVIOUS
  <2>8. q \in Seq(EventEntries) /\ n \in Nat
    BY <1>1, <1>2, <2>7, LenProperties DEF ServerTypes
  <2>9. /\ Append(q, e) \in Seq(EventEntries) /\ Len(Append(q, e)) = n + 1
        /\ Append(q, e)[n + 1] = e /\ \A j \in 1..n : Append(q, e)[j] = q[j]
    BY <2>6, <2>7, <2>8, AppendProperties
  <2>10. /\ events' \in [Servers -> Seq(EventEntries)]
         /\ events'[web] = Append(q, e)
         /\ \A t \in Servers : t # web => events'[t] = events[t]
    BY <1>1, <1>2, <2>2, <2>7, <2>9 DEF ServerTypes
  <2>11. MainTypes' /\ ClientTypes' /\ ServerTypes'
    BY <1>1, <1>2, <2>4, <2>10 DEF MainTypes, ClientTypes, ServerTypes
  <2>12. Entries'
    <3>1. ASSUME NEW t \in Servers, t # web PROVE EntriesAt(t)'
      BY <1>1, <1>2, <2>10, <3>1, EntriesKept DEF Entries
    <3>2. ASSUME NEW s \in Servers, s = web PROVE EntriesAt(s)'
      <4>1. /\ \A j \in 1..n : IsSound(s, q[j])
            /\ IsSound(s, task[s].entry) /\ IsEnding(s, task[s].entry)
        BY <1>1, <2>7, <3>2 DEF Entries, EntriesAt
      <4>2. PICK d : d = task[s].entry
        OBVIOUS
      <4>3. IsSound(s, d)' /\ IsEnding(s, d)'
        BY <1>2, <4>1, <4>2, SoundKept, EndingKept
      <4>4. task'[s].entry = d
        BY <1>2, <4>2
      <4>5. events'[s] = Append(q, e) /\ Len(events'[s]) = n + 1
        BY <2>9, <2>10, <3>2
      <4>6. ASSUME NEW j \in 1..Len(events'[s]) PROVE IsSound(s, events[s][j])'
        <5>1. j \in 1..n \/ j = n + 1
          BY <2>8, <4>5
        <5>2. ASSUME j \in 1..n PROVE IsSound(s, events[s][j])'
          <6>1. PICK f : f = q[j]
            OBVIOUS
          <6>2. IsSound(s, f)'
            BY <1>2, <4>1, <5>2, <6>1, SoundKept
          <6>3. events'[s][j] = f
            BY <2>9, <4>5, <5>2, <6>1
          <6> QED BY <6>2, <6>3 DEF IsSound
        <5>3. ASSUME j = n + 1 PROVE IsSound(s, events[s][j])'
          <6>1. events'[s][j] = e
            BY <2>9, <4>5, <5>3
          <6> QED BY <2>6, <6>1 DEF IsSound
        <5> QED BY <5>1, <5>2, <5>3
      <4> QED BY <4>3, <4>4, <4>6 DEF EntriesAt, IsSound, IsEnding
    <3> QED BY <3>1, <3>2 DEF Entries
  <2>13. main.end \in Nat /\ main.end <= n /\ main.end > 0
    BY <1>1, <1>2, <2>7 DEF Handles, MainTypes, MainType
  <2>14. Pushes'
    <3> SUFFICES ASSUME NEW t \in Servers PROVE PushAt(t)'
      BY DEF Pushes
    <3>1. PushAt(t)
      BY <1>1 DEF Pushes
    <3>2. main.pc # "crashed"
      BY <1>2
    <3>3. CASE t # web
      BY <1>2, <2>4, <2>10, <3>1, <3>2, <3>3 DEF PushAt, At, Handling
    <3>4. CASE t = web
      <4>1. At(t, "push") => main.end <= task[t].size
        BY <1>2, <3>1, <3>2, <3>4 DEF PushAt, Handling
      <4>2. q # <<>>
        BY <2>7, <2>13, LenProperties, EmptySeq
      <4>3. At(t, "element") => task[t].size + 1 <= n /\ q[task[t].size + 1] = Junk
        BY <2>7, <3>1, <3>2, <3>4, <4>2 DEF PushAt
      <4>4. task[t].size \in Nat
        BY <1>1 DEF ServerTypes, TaskType
      <4>5. At(t, "element") =>
              /\ task[t].size + 1 <= Len(events'[t])
              /\ events'[t][task[t].size + 1] = Junk
        BY <2>8, <2>9, <2>10, <3>4, <4>3, <4>4
      <4> QED BY <1>2, <1>7, <2>4, <3>4, <4>1, <4>5 DEF PushAt, At, Handling
    <3> QED BY <3>3, <3>4
  <2>15. Handles'
    <3>1. k \in 1..(main.end + 1) /\ (main.back # "handling" => k = main.at)
      BY <1>2, <2>3, <2>13
    <3>2. main.end <= Len(events'[web])
      BY <2>8, <2>9, <2>10, <2>13
    <3>3. main.back # "handling" => Current' = Current
      <4>1. main.at \in 1..n
        BY <1>2, <2>8, <2>13
      <4> QED BY <1>2, <2>4, <2>7, <2>9, <2>10, <3>1, <4>1 DEF Current
    <3>4. main.back # "handling" => k <= main.end
      BY <1>2, <2>13, <3>1
    <3> QED BY <1>2, <2>4, <2>5, <2>13, <3>1, <3>2, <3>3, <3>4 DEF Handles
  <2>16. Blocks'
    BY <1>2, <1>7, <2>4, <2>5 DEF Blocks
  <2> QED BY <1>2, <1>3, <1>4, <1>5, <2>11, <2>12, <2>14, <2>15, <2>16 DEF Service
<1> QED BY <1>6, <1>7

(* The initial state.                                                      *)
LEMMA InitTypes == Init => TypeOK
<1> SUFFICES ASSUME Init PROVE TypeOK
  OBVIOUS
<1>1. plan \in PlanType
  BY NetworkAssumption DEF Init, PlanType
<1>2. wifiQ \in Seq({"start", "gotIp", "disconnected"})
  <2>1. CASE plan.locked
    <3>1. wifiQ = <<>>
      BY <2>1 DEF Init
    <3> QED BY <3>1
  <2>2. CASE ~plan.locked
    <3>1. wifiQ = <<"start">>
      BY <2>2 DEF Init
    <3> QED BY <3>1
  <2> QED BY <2>1, <2>2
<1>3. wifi \in WifiType
  BY DEF Init, WifiType
<1>4. list \in ListType
  BY DEF Init, ListType
<1>5. StationTypes
  <2>1. due \in BOOLEAN
    <3>1. plan.locked \in BOOLEAN
      BY <1>1 DEF PlanType
    <3>2. due = plan.locked
      BY DEF Init
    <3> QED BY <3>1, <3>2, Zenon
  <2>2. link \in {"idle", "asked", "up"}
    BY DEF Init
  <2> QED BY <1>1, <1>2, <1>3, <1>4, <2>1, <2>2 DEF StationTypes
<1>6. ClientTypes
  BY DEF Init, ClientTypes
<1>7. \A n \in TaskPlaces : Resting(n) \in TaskType
  BY JunkIsSound DEF Resting, TaskType
<1>8. ServerTypes
  <2>1. task \in [Servers -> TaskType]
    BY <1>7 DEF Init, TaskPlaces
  <2>2. backlog \in Seq(Clients) /\ events \in [Servers -> Seq(EventEntries)]
    BY DEF Init
  <2> QED BY <2>1, <2>2 DEF Init, ServerTypes
<1>9. MainTypes
  BY IdleIsTyped, NetworkAssumption DEF Init, MainTypes
<1> QED BY <1>5, <1>6, <1>8, <1>9 DEF TypeOK

LEMMA InitAnnouncements == Init => Announcements
<1> SUFFICES ASSUME Init PROVE Announcements
  OBVIOUS
<1>1. plan \in PlanType
  BY InitTypes DEF TypeOK, StationTypes
<1>2. CASE plan.locked
  BY <1>2 DEF Init, Idle, Announcements, AnnouncedOnce
<1>3. CASE ~plan.locked
  <2>1. Left = {}
    <3>1. wifiQ = <<"start">>
      BY <1>3 DEF Init
    <3> QED BY <3>1 DEF Left
  <2>2. Fresh = {}
    BY <1>3 DEF Init, Fresh
  <2>3. Cardinality(Left) = 0 /\ Cardinality(Fresh) = 0
    BY <2>1, <2>2, FS_EmptySet
  <2>4. ~Taking /\ Held = 0
    BY DEF Init, Idle, Taking, Held
  <2>5. wifi.pc = "idle" /\ wifi.addresses = 0 /\ InFlight = 0
    BY DEF Init, InFlight
  <2>6. list.size = 0 /\ web = 0
    BY <1>3 DEF Init
  <2>7. plan.addresses \in Nat
    BY <1>1, NetworkAssumption DEF PlanType
  <2>8. Announced
    BY <2>3, <2>4, <2>5, <2>6, <2>7 DEF Announced
  <2> QED BY <1>3, <2>8 DEF Announcements
<1> QED BY <1>2, <1>3

LEMMA InitService == Init => Service
<1> SUFFICES ASSUME Init PROVE Service
  OBVIOUS
<1>1. /\ backlog = <<>> /\ Len(backlog) = 0
      /\ \A s \in Servers : events[s] = <<>> /\ Len(events[s]) = 0
      /\ \A s \in Servers, i \in Slots : slot[s][i] = NoClient
      /\ main = Idle /\ main.pc = "idle" /\ main.end = 0 /\ web = 0
      /\ \A c \in Clients : peer[c] = "away" /\ home[c] = Nowhere /\ got[c] = {}
  BY IdleIsTyped DEF Init, Nowhere
<1>2. \A s \in Servers : /\ task[s].pc = "none" /\ ~task[s].port /\ task[s].entry = Junk
                         /\ task[s].ready = {}
  BY DEF Init, Resting
<1>3. Ports
  BY <1>2 DEF Ports, PortAt, At
<1>4. Homes
  BY <1>1 DEF Homes
<1>5. Ready
  BY <1>2 DEF Ready, ReadyAt
<1>6. Entries
  BY <1>1, <1>2, JunkIsSound DEF Entries, EntriesAt
<1>7. Pushes
  BY <1>2 DEF Pushes, PushAt, At
<1>8. Handles
  BY <1>1 DEF Handles
<1>9. Answered
  BY <1>1 DEF Answered
<1>10. Blocks
  BY <1>1 DEF Blocks
<1> QED BY <1>3, <1>4, <1>5, <1>6, <1>7, <1>8, <1>9, <1>10 DEF Service

(* The server's part of the main task leaves the list of system events and *)
(* the count of the addresses alone.                                       *)
Serving ==
    \/ HandleEvents \/ HandleNothing \/ PassEvent \/ ErrorEvent \/ Astray \/ SendHeader \/ SendBody \/ Done
    \/ Drop \/ HandledAll

LEMMA ServingKeepsList ==
    ASSUME IInv, Serving
    PROVE  StationTypes' /\ Announcements'
<1>1. TypeOK /\ Announcements /\ StationTypes /\ Handles /\ main \in MainType
  BY DEF IInv, TypeOK, Service, MainTypes
<1>2. UNCHANGED <<plan, stationVars, list, due, web>>
  BY DEF Serving, HandleEvents, HandleNothing, PassEvent, ErrorEvent, Astray, SendHeader,
         SendBody, Send, Done, Drop, HandledAll, sysVars
<1>3. /\ main.pc \notin {"size", "data", "start"}
      /\ main.pc = "idle" => list.size = 0
  BY DEF Serving, HandleEvents, NoEvent, HandleNothing, PassEvent, ErrorEvent, Astray,
         SendHeader, SendBody, Done, Drop, HandledAll, InHandler
<1>5. main' = NextEntry => main'.pc = "handling"
  BY <1>1, NextEntryIs DEF Stands
<1>6. main'.pc \notin {"size", "data", "start"}
  <2>1. CASE HandleEvents
    <3>1. main'.pc = "handling"
      BY <2>1 DEF HandleEvents, Idle
    <3> QED BY <3>1
  <2>2. CASE PassEvent \/ Done
    BY <2>2, <1>5 DEF PassEvent, Done
  <2>3. CASE ErrorEvent
    BY <2>3, <1>1 DEF ErrorEvent, MainType
  <2>4. CASE Astray
    BY <2>4, <1>5, IdleIsTyped DEF Astray
  <2>5. CASE SendHeader \/ SendBody
    <3>1. PICK p \in {"body", "done"} :
            \/ main' = [main EXCEPT !.pc = p]
            \/ main' = [[main EXCEPT !.pc = p] EXCEPT !.pc = "drop", !.back = [main EXCEPT !.pc = p].pc]
      BY <2>5 DEF SendHeader, SendBody, Send
    <3> QED BY <1>1, <3>1 DEF MainType
  <2>6. CASE Drop
    <3>1. CASE plan.locked
      BY <2>6, <3>1, <1>1 DEF Drop, MainType
    <3>2. CASE ~plan.locked
      <4>1. main.back \in {"handling", "body", "done"}
        BY <1>1, <2>6 DEF Handles, Drop
      <4>2. main'.pc = main.back
        BY <1>1, <2>6, <3>2 DEF Drop, MainType
      <4> QED BY <4>1, <4>2
    <3> QED BY <3>1, <3>2
  <2>7. CASE HandledAll
    BY <2>7, IdleIsTyped DEF HandledAll
  <2>8. CASE HandleNothing
    BY <2>8, IdleIsTyped DEF HandleNothing
  <2> QED BY <2>1, <2>2, <2>3, <2>4, <2>5, <2>6, <2>7, <2>8 DEF Serving
<1>7. Announcements'
  BY <1>1, <1>2, <1>3, <1>6, AnnouncementsKept
<1> QED BY <1>1, <1>2, <1>7 DEF StationTypes, stationVars

LEMMA ServingStep ==
    ASSUME IInv, Serving
    PROVE  IInv'
<1>1. MainTypes' /\ ClientTypes' /\ ServerTypes' /\ Service'
  <2>1. CASE HandleNothing
    <3>1. main' \in MainType /\ web' = web
      BY <2>1, IdleIsTyped DEF HandleNothing
    <3> QED BY <2>1, <3>1, TakeStep DEF IInv, TypeOK, MainTypes
  <2> QED
    BY <2>1, HandleEventsStep, PassOrDone, ErrorStep, AstrayStep, SendStep, DropStep,
       HandledAllStep
    DEF Serving
<1> QED BY <1>1, ServingKeepsList DEF IInv, TypeOK

(* The clients and the tasks of the servers leave them alone, too.         *)
LEMMA OthersStep ==
    ASSUME IInv,
           \/ \E c \in Clients : Dial(c) \/ Ask(c) \/ HangUp(c)
           \/ \E s \in Servers : TaskStep(s)
    PROVE  IInv'
<1>1. TypeOK /\ Announcements /\ StationTypes /\ MainTypes
  BY DEF IInv, TypeOK
<1>2. ClientTypes' /\ ServerTypes' /\ Service'
  BY DialStep, AskStep, HangUpStep, BindStep, SelectStep, AcceptStep, ReadStep, ScanEndsStep,
     PushBeginsStep, PushEndsStep
  DEF TaskStep
<1>3. UNCHANGED <<plan, stationVars, list, due, web>>
  BY DEF Dial, Ask, HangUp, TaskStep, Bind, Select, Accept, Read, ScanEnds, PushBegins, PushEnds,
         sysVars
<1>4. /\ main'.pc = main.pc /\ main'.at = main.at /\ main'.event = main.event
      /\ main' \in MainType
  <2>1. main' = main \/ Moved(main', main)
    <3>1. ASSUME NEW s \in Servers, PushEnds(s) PROVE Moved(main', main)
      BY <3>1, PushEndsStep
    <3> QED BY <3>1
        DEF Dial, Ask, HangUp, TaskStep, Bind, Select, Accept, Read, ScanEnds, PushBegins
  <2> QED BY <1>1, <2>1 DEF MainTypes, Moved
<1>5. Announcements'
  BY <1>1, <1>3, <1>4, AnnouncementsKept
<1>6. StationTypes'
  BY <1>1, <1>3 DEF StationTypes, stationVars
<1>7. MainTypes'
  BY <1>1, <1>3, <1>4 DEF MainTypes
<1> QED BY <1>2, <1>5, <1>6, <1>7 DEF IInv, TypeOK

(* A step of the radio or of its handler does not touch the servers.       *)
LEMMA StationsStep ==
    ASSUME IInv, Answers \/ Lose \/ Provision \/ WifiStep
    PROVE  IInv'
<1>1. TypeOK /\ Announcements /\ ClientTypes /\ ServerTypes /\ MainTypes /\ Homes
  BY DEF IInv, TypeOK, Service
<1>2. /\ StationTypes' /\ Announcements'
      /\ UNCHANGED <<clientVars, serverVars, web, main, plan>>
  BY <1>1, StationStep
<1>3. ClientTypes' /\ ServerTypes' /\ MainTypes' /\ Homes'
  BY <1>1, <1>2 DEF ClientTypes, ServerTypes, MainTypes, Homes, clientVars, serverVars
<1>4. Kept
  BY <1>2, KeptWhenSame DEF clientVars, serverVars
<1>5. Service'
  BY <1>2, <1>3, <1>4, ServiceKept DEF clientVars, serverVars
<1> QED BY <1>2, <1>3, <1>5 DEF IInv, TypeOK

LEMMA StutterStep ==
    ASSUME IInv, UNCHANGED vars
    PROVE  IInv'
<1>1. TypeOK /\ Announcements /\ Homes
  BY DEF IInv, Service
<1>2. UNCHANGED <<plan, link, wifiQ, wifi, list, due, peer, sent, unread, home, got, unseen,
                  backlog, task, slot, events, web, main>>
  BY DEF vars, stationVars, sysVars, clientVars, serverVars
<1>3. TypeOK'
  BY <1>1, <1>2 DEF TypeOK, StationTypes, ClientTypes, ServerTypes, MainTypes
<1>4. Announcements'
  BY <1>1, <1>2, AnnouncementsKept DEF stationVars
<1>5. Homes' /\ Kept
  BY <1>1, <1>2, KeptWhenSame DEF Homes
<1>6. Service'
  BY <1>2, <1>5, ServiceKept
<1> QED BY <1>3, <1>4, <1>6 DEF IInv

LEMMA NextStep ==
    ASSUME IInv, [Next]_vars
    PROVE  IInv'
<1>1. CASE Answers \/ Lose \/ Provision \/ WifiStep
  BY <1>1, StationsStep
<1>2. CASE \/ \E c \in Clients : Dial(c) \/ Ask(c) \/ HangUp(c)
           \/ \E s \in Servers : TaskStep(s)
  BY <1>2, OthersStep
<1>3. CASE NextEvent \/ PopSize \/ PopData \/ StartNetworkServers
  <2>1. TypeOK /\ Announcements
    BY DEF IInv
  <2>2. StationTypes' /\ MainTypes' /\ Announcements'
    BY <1>3, <2>1, NextEventStep, PopSizeStep, PopDataStep, StartStep
  <2>3. ClientTypes' /\ ServerTypes' /\ Service'
    BY <1>3, TakeStep, StartServers
  <2> QED BY <2>2, <2>3 DEF IInv, TypeOK
<1>4. CASE Serving
  BY <1>4, ServingStep
<1>5. CASE UNCHANGED vars
  BY <1>5, StutterStep
<1> QED BY <1>1, <1>2, <1>3, <1>4, <1>5 DEF Next, MainStep, Serving

(* The invariant holds in every state the network can be in.               *)
THEOREM Invariance == Spec => []IInv
<1>1. Init => IInv
  BY InitTypes, InitAnnouncements, InitService DEF IInv
<1>2. IInv /\ [Next]_vars => IInv'
  BY NextStep
<1> QED BY <1>1, <1>2, PTL DEF Spec

(* Every variable has its type, for any number of clients, slots and       *)
(* addresses: no place of a list and no event is outside of what the code  *)
(* can hold there.                                                         *)
THEOREM TypeCorrect == Spec => []TypeOK
<1>1. IInv => TypeOK
  BY DEF IInv
<1> QED BY <1>1, Invariance, PTL

(* The servers are started at most once for each address, however the task *)
(* that announces it and the one that takes it meet in the unlocked list   *)
(* (addEvent, nextEvent).                                                  *)
THEOREM StartsFollowAddresses == Spec => []OneStartPerAddress
<1>1. IInv => OneStartPerAddress
  <2> SUFFICES ASSUME IInv PROVE OneStartPerAddress
    OBVIOUS
  <2>1. TypeOK /\ Announcements
    BY DEF IInv
  <2>2. web \in Nat /\ wifi.addresses \in Nat
    BY <2>1, NetworkAssumption DEF TypeOK, MainTypes, StationTypes, WifiType
  <2>3. CASE plan.locked
    BY <2>1, <2>3 DEF Announcements, AnnouncedOnce, OneStartPerAddress
  <2>4. CASE ~plan.locked
    <3>1. Cardinality(Left) \in Nat /\ Cardinality(Fresh) \in Nat
      BY <2>1, CountsAreNat
    <3>2. Held \in Nat /\ InFlight \in Nat
      BY DEF Held, InFlight
    <3>3. web + Held + Cardinality(Fresh) + InFlight + Cardinality(Left) <= wifi.addresses
      BY <2>1, <2>4 DEF Announcements, Announced
    <3>4. web <= wifi.addresses
      BY <2>2, <3>1, <3>2, <3>3
    <3> QED BY <2>4, <3>4 DEF OneStartPerAddress
  <2> QED BY <2>3, <2>4
<1> QED BY <1>1, Invariance, PTL

(* An answer reaches the client that asked, unless that client had gone    *)
(* and another had its slot, although slots are freed and given out by the *)
(* TCP task while the main task handles the events (HTTPServer's handler,  *)
(* TCP::send, RtosTCP::serverTask).                                        *)
THEOREM AnswersReachTheirClients == Spec => []AnswersGoHome
<1>1. IInv => AnswersGoHome
  BY DEF IInv, Service, Answered, AnswersGoHome
<1> QED BY <1>1, Invariance, PTL

(* Only a client that has hung up, with an event of its slot under way,    *)
(* makes the main task wait for its own mutex (MacTCP::handleEvents).      *)
THEOREM BlockingNeedsAHangUp == Spec => []BlocksOnHangUp
<1>1. IInv => BlocksOnHangUp
  BY DEF IInv, Service, Blocks, BlocksOnHangUp
<1> QED BY <1>1, Invariance, PTL

-----------------------------------------------------------------------------
(***************************************************************************)
(* Requests.  What was joined is split into the texts it was joined of,    *)
(* when none of them has the separator in it.  The order of the keys is    *)
(* total, so that the search in a sorted map finds a key or the place      *)
(* where it belongs, and the value a key is given first stays.  The folds  *)
(* that do this are recursive functions: FoldIs says that such a function  *)
(* exists, by induction over its arguments.                                *)
(***************************************************************************)
(* Induction over the numbers up to n, of which P holds.                   *)
LEMMA UpTo ==
    ASSUME NEW n \in Nat, NEW P, 0 \in P, \A i \in 1..n : i - 1 \in P => i \in P
    PROVE  \A i \in 0..n : i \in P
<1> DEFINE S == {i \in 0..n : i \notin P}
<1> SUFFICES ASSUME S # {} PROVE FALSE
  OBVIOUS
<1>0. S \in SUBSET Nat
  OBVIOUS
<1>1. PICK k \in S : \A j \in S : k <= j
  <2> HIDE DEF S
  <2> QED BY <1>0, LeastElement
<1>2. k # 0 /\ k \in 1..n
  OBVIOUS
<1>3. k - 1 \in 0..n /\ k - 1 \notin S
  BY <1>1, <1>2
<1> QED BY <1>2, <1>3

-----------------------------------------------------------------------------
(* Values of V, each computed from the one before.                         *)
IsFold(acc, V, base, n, step) ==
    acc \in [0..n -> V] /\ acc[0] = base /\ \A i \in 1..n : acc[i] = step[i][acc[i - 1]]

(* They exist, whatever the steps are.                                     *)
LEMMA FoldIs ==
    ASSUME NEW V, NEW base \in V, NEW n \in Nat, NEW step \in [1..n -> [V -> V]]
    PROVE  \E acc : IsFold(acc, V, base, n, step)
<1> USE DEF IsFold
<1> DEFINE Follows(acc, m) == acc[0] = base /\ \A i \in 1..m : acc[i] = step[i][acc[i - 1]]
           P == {m \in 0..n : \E acc \in [0..m -> V] : Follows(acc, m)}
<1>1. 0 \in P
  <2>1. PICK acc : acc = [i \in 0..0 |-> base]
    OBVIOUS
  <2>2. acc \in [0..0 -> V] /\ acc[0] = base /\ 0 \in 0..n
    BY <2>1
  <2>3. Follows(acc, 0)
    BY <2>2
  <2> HIDE DEF Follows
  <2> QED BY <2>2, <2>3
<1>2. ASSUME NEW m \in 1..n, m - 1 \in P PROVE m \in P
  <2>1. PICK acc \in [0..m - 1 -> V] : Follows(acc, m - 1)
    BY <1>2
  <2>2. PICK v \in V : v = step[m][acc[m - 1]]
    OBVIOUS
  <2>3. PICK f : f = [i \in 0..m |-> IF i = m THEN v ELSE acc[i]]
    OBVIOUS
  <2>4. f \in [0..m -> V]
    BY <2>3
  <2>5. ASSUME NEW i \in 1..m PROVE f[i] = step[i][f[i - 1]]
    <3>1. CASE i = m
      BY <2>2, <2>3, <3>1
    <3>2. CASE i # m
      <4>1. i \in 1..m - 1 /\ i - 1 \in 0..m /\ i - 1 # m
        BY <3>2
      <4>2. f[i] = acc[i] /\ f[i - 1] = acc[i - 1]
        BY <2>3, <3>2, <4>1
      <4> QED BY <2>1, <4>1, <4>2
    <3> QED BY <3>1, <3>2
  <2>6. f[0] = base
    BY <2>1, <2>3
  <2>7. Follows(f, m)
    BY <2>5, <2>6
  <2>8. m \in 0..n
    OBVIOUS
  <2> HIDE DEF Follows
  <2> QED BY <2>4, <2>7, <2>8
<1>3. n \in P
  <2> HIDE DEF P
  <2>1. \A i \in 0..n : i \in P
    BY <1>1, <1>2, UpTo
  <2> QED BY <2>1
<1> QED BY <1>3

(* There is one only, as far as the steps are the same.                    *)
StepsAgree(f, g, n) == f[0] = g[0] /\ \A i \in 1..n : f[i - 1] = g[i - 1] => f[i] = g[i]

(* Two folds with the same steps have the same results.                    *)
LEMMA FoldsAgree ==
    ASSUME NEW n \in Nat, NEW f, NEW g, StepsAgree(f, g, n)
    PROVE  \A i \in 0..n : f[i] = g[i]
<1> DEFINE P == {i \in 0..n : f[i] = g[i]}
<1>1. 0 \in P
  BY DEF StepsAgree
<1>2. \A i \in 1..n : i - 1 \in P => i \in P
  BY DEF StepsAgree
<1>3. \A i \in 0..n : i \in P
  <2> HIDE DEF P
  <2> QED BY <1>1, <1>2, UpTo
<1> QED BY <1>3

-----------------------------------------------------------------------------
(* A sequence of one, and of one more.                                     *)
LEMMA OneElement ==
    ASSUME NEW S, NEW e \in S
    PROVE  <<e>> \in Seq(S) /\ Len(<<e>>) = 1 /\ <<e>>[1] = e
OBVIOUS

ButLast(front, s, n) ==
    /\ Len(front) = n - 1 /\ s = Append(front, s[n])
    /\ \A i \in 1..n - 1 : front[i] = s[i]

(* A sequence that is not empty is its front and its last element.         *)
LEMMA FrontIs ==
    ASSUME NEW S, NEW s \in Seq(S), NEW n \in Nat \ {0}, Len(s) = n
    PROVE  \E front \in Seq(S) : ButLast(front, s, n)
<1> DEFINE front == [i \in 1..n - 1 |-> s[i]]
<1>1. front \in Seq(S) /\ Len(front) = n - 1
  <2>1. n - 1 \in Nat /\ \A i \in 1..n - 1 : s[i] \in S
    BY ElementOfSeq
  <2> QED BY <2>1, SeqDef, LenProperties
<1>2. s[n] \in S
  BY ElementOfSeq
<1>3. /\ Append(front, s[n]) \in Seq(S) /\ Len(Append(front, s[n])) = n
      /\ \A i \in 1..n : Append(front, s[n])[i] = s[i]
  <2> HIDE DEF front
  <2>1. \A i \in 1..n - 1 : front[i] = s[i]
    BY DEF front
  <2> QED BY <1>1, <1>2, <2>1, AppendProperties
<1>4. s = Append(front, s[n])
  <2> HIDE DEF front
  <2> QED BY <1>3, SeqEqual
<1> QED BY <1>1, <1>4 DEF ButLast

(* Texts.  That a string which is written out is a member of STRING is     *)
(* nothing the provers know: Char says it of those that are needed.        *)
Char == STRING \cup Blank \cup {"?", "&", "=", ":", "/", "HTTP", "ssid", "password"}

Text == Seq(Char)

(* What Parts makes of one character more.                                 *)
Further(parts, char, separator) ==
    IF char = separator THEN Append(parts, None)
    ELSE [parts EXCEPT ![Len(parts)] = Append(@, char)]

Some == {parts \in Seq(Text) : parts # <<>>}

(* With one character more there is still one part at least.               *)
LEMMA FurtherIs ==
    ASSUME NEW parts \in Some, NEW char \in Char, NEW separator
    PROVE  Further(parts, char, separator) \in Some
<1>1. parts \in Seq(Text) /\ Len(parts) \in Nat \ {0} /\ None \in Text
  <2>1. parts \in Seq(Text) /\ parts # <<>>
    BY DEF Some
  <2> QED BY <2>1, EmptySeq DEF Text, None
<1>2. Append(parts, None) \in Some
  BY <1>1 DEF Some
<1>3. Len(parts) \in DOMAIN parts /\ parts[Len(parts)] \in Text
  BY <1>1
<1>4. PICK t \in Text : t = Append(parts[Len(parts)], char)
  <2>1. Append(parts[Len(parts)], char) \in Seq(Char)
    BY <1>3, AppendProperties DEF Text
  <2> QED BY <2>1 DEF Text
<1>5. [parts EXCEPT ![Len(parts)] = t] \in Seq(Text) /\ Len([parts EXCEPT ![Len(parts)] = t]) = Len(parts)
  BY <1>1, <1>3, ExceptSeq
<1>6. [parts EXCEPT ![Len(parts)] = t] \in Some
  BY <1>1, <1>5 DEF Some
<1> QED BY <1>2, <1>4, <1>6 DEF Further

(* The iteration behind Parts.                                             *)
PartsGo(f, text, separator) ==
    /\ f \in [0..Len(text) -> Some]
    /\ f[0] = <<None>>
    /\ \A i \in 1..Len(text) : f[i] = Further(f[i - 1], text[i], separator)

(* Parts is a fold over the characters.                                    *)
LEMMA PartsAre ==
    ASSUME NEW text \in Text, NEW separator
    PROVE  \E f : PartsGo(f, text, separator) /\ Parts(text, separator) = f[Len(text)]
<1> DEFINE Body(f) == [n \in 0..Len(text) |->
             LET before == f[n - 1]
             IN  IF n = 0 THEN <<None>>
                 ELSE IF text[n] = separator THEN Append(before, None)
                 ELSE [before EXCEPT ![Len(before)] = Append(@, text[n])]]
           step == [i \in 1..Len(text) |-> [p \in Some |-> Further(p, text[i], separator)]]
<1>0. PICK n \in Nat : n = Len(text)
  BY DEF Text
<1>1. <<None>> \in Some
  BY EmptySeq DEF Some, Text, None
<1>2. step \in [1..n -> [Some -> Some]]
  <2>1. ASSUME NEW i \in 1..n, NEW p \in Some PROVE Further(p, text[i], separator) \in Some
    <3>1. text[i] \in Char
      BY <1>0, ElementOfSeq DEF Text
    <3> QED BY <3>1, FurtherIs
  <2> QED BY <1>0, <2>1
<1>3. PICK f : IsFold(f, Some, <<None>>, n, step)
  <2> HIDE DEF step
  <2> QED BY <1>1, <1>2, FoldIs
<1>4. \A i \in 1..n : f[i] = Further(f[i - 1], text[i], separator)
  <2>1. ASSUME NEW i \in 1..n PROVE f[i] = Further(f[i - 1], text[i], separator)
    <3>1. i - 1 \in 0..n
      OBVIOUS
    <3>2. f[i - 1] \in Some
      BY <1>3, <3>1 DEF IsFold
    <3>3. step[i][f[i - 1]] = Further(f[i - 1], text[i], separator)
      BY <1>0, <3>2
    <3>4. f[i] = step[i][f[i - 1]]
      <4> HIDE DEF step
      <4> QED BY <1>3 DEF IsFold
    <3> QED BY <3>3, <3>4
  <2> QED BY <2>1
<1>41. f \in [0..n -> Some] /\ f[0] = <<None>>
  <2> HIDE DEF step
  <2> QED BY <1>3 DEF IsFold
<1>5. f = Body(f)
  <2>1. ASSUME NEW i \in 0..n PROVE f[i] = Body(f)[i]
    <3>1. CASE i = 0
      BY <1>0, <1>41, <3>1
    <3>2. CASE i # 0
      <4>1. i \in 1..n
        BY <3>2
      <4> QED BY <1>0, <1>4, <3>2, <4>1 DEF Further
    <3> QED BY <3>1, <3>2
  <2>2. DOMAIN Body(f) = 0..n /\ Body(f) = [i \in 0..n |-> Body(f)[i]]
    BY <1>0
  <2>3. f = [i \in 0..n |-> f[i]]
    BY <1>41
  <2> HIDE DEF Body
  <2> QED BY <2>1, <2>2, <2>3
<1>6. PICK parts : parts = (CHOOSE g : g = Body(g))
  OBVIOUS
<1>7. parts = Body(parts)
  <2> HIDE DEF Body
  <2> QED BY <1>5, <1>6
<1>8. Parts(text, separator) = parts[Len(text)]
  BY <1>6 DEF Parts
<1>9. \A i \in 1..n : parts[i] = Further(parts[i - 1], text[i], separator)
  <2>1. ASSUME NEW i \in 1..n PROVE parts[i] = Further(parts[i - 1], text[i], separator)
    <3>1. i \in 0..Len(text) /\ i # 0
      BY <1>0
    <3> QED BY <1>7, <3>1 DEF Further
  <2> QED BY <2>1
<1>10. parts[0] = <<None>>
  <2>1. 0 \in 0..Len(text)
    BY <1>0
  <2> QED BY <1>7, <2>1
<1>11. \A i \in 0..n : parts[i] = f[i]
  <2>1. StepsAgree(parts, f, n)
    BY <1>4, <1>41, <1>9, <1>10 DEF StepsAgree
  <2> QED BY <2>1, FoldsAgree
<1>12. n \in 0..n /\ n = Len(text)
  BY <1>0
<1>13. PartsGo(f, text, separator)
  BY <1>0, <1>4, <1>41 DEF PartsGo
<1> QED BY <1>8, <1>11, <1>12, <1>13

(* There is one part at least, of an empty text too.                       *)
LEMMA PartsAreSome ==
    ASSUME NEW text \in Text, NEW separator
    PROVE  Parts(text, separator) \in Some
<1>1. PICK f : PartsGo(f, text, separator) /\ Parts(text, separator) = f[Len(text)]
  BY PartsAre
<1>2. Len(text) \in 0..Len(text)
  BY DEF Text
<1> QED BY <1>1, <1>2 DEF PartsGo

(* Texts without a separator in them.                                      *)
Without(text, separator) == \A i \in 1..Len(text) : text[i] # separator

(* The only part of an empty text is empty.                                *)
LEMMA PartsOfNone ==
    ASSUME NEW separator
    PROVE  Parts(None, separator) = <<None>>
<1>1. None \in Text /\ Len(None) = 0
  BY EmptySeq DEF Text, None
<1>2. PICK f : PartsGo(f, None, separator) /\ Parts(None, separator) = f[Len(None)]
  BY <1>1, PartsAre
<1> QED BY <1>1, <1>2 DEF PartsGo

(* The parts of a text with one character more.                            *)
LEMMA PartsAppended ==
    ASSUME NEW text \in Text, NEW char \in Char, NEW separator
    PROVE  /\ Append(text, char) \in Text
           /\ Parts(text, separator) \in Some
           /\ Parts(Append(text, char), separator) = Further(Parts(text, separator), char, separator)
<1>1. PICK n \in Nat : n = Len(text)
  BY DEF Text
<1>2. PICK longer \in Text : longer = Append(text, char)
  BY AppendProperties DEF Text
<1>3. Len(longer) = n + 1 /\ longer[n + 1] = char /\ \A i \in 1..n : longer[i] = text[i]
  <2>1. text \in Seq(Char) /\ n \in Nat
    BY DEF Text
  <2>2. /\ Len(longer) = Len(text) + 1
        /\ longer[Len(text) + 1] = char
        /\ \A i \in 1..Len(text) : longer[i] = text[i]
    BY <1>2, <2>1, AppendProperties
  <2> QED BY <1>1, <2>2
<1>4. PICK f : PartsGo(f, text, separator) /\ Parts(text, separator) = f[n]
  BY <1>1, PartsAre
<1>5. PICK g : PartsGo(g, longer, separator) /\ Parts(longer, separator) = g[n + 1]
  BY <1>3, PartsAre
<1>6. StepsAgree(f, g, n)
  <2>1. f[0] = g[0]
    BY <1>4, <1>5 DEF PartsGo
  <2>2. ASSUME NEW i \in 1..n, f[i - 1] = g[i - 1] PROVE f[i] = g[i]
    <3>1. i \in 1..n + 1 /\ longer[i] = text[i]
      BY <1>3
    <3>2. f[i] = Further(f[i - 1], text[i], separator)
      BY <1>1, <1>4 DEF PartsGo
    <3>3. g[i] = Further(g[i - 1], longer[i], separator)
      BY <1>3, <1>5, <3>1 DEF PartsGo
    <3> QED BY <2>2, <3>1, <3>2, <3>3
  <2> QED BY <2>1, <2>2 DEF StepsAgree
<1>7. f[n] = g[n]
  <2>1. n \in 0..n
    OBVIOUS
  <2> QED BY <1>6, <2>1, FoldsAgree
<1>8. g[n + 1] = Further(g[n], char, separator)
  <2>1. PICK m \in 1..n + 1 : m = n + 1 /\ m - 1 = n
    OBVIOUS
  <2>2. g[m] = Further(g[m - 1], longer[m], separator)
    BY <1>3, <1>5, <2>1 DEF PartsGo
  <2> QED BY <1>3, <2>1, <2>2
<1>9. f[n] \in Some
  <2>1. n \in 0..n
    OBVIOUS
  <2> QED BY <1>1, <1>4, <2>1 DEF PartsGo
<1> QED BY <1>2, <1>4, <1>5, <1>7, <1>8, <1>9

(* A character behind two texts is one behind the second.                  *)
LEMMA AppendToConcat ==
    ASSUME NEW s \in Text, NEW t \in Text, NEW char \in Char
    PROVE  Append(s \o t, char) = s \o Append(t, char)
<1>1. s \in Seq(Char) /\ t \in Seq(Char) /\ <<char>> \in Seq(Char)
  BY OneElement DEF Text
<1>2. (s \o t) \o <<char>> = s \o (t \o <<char>>)
  BY <1>1, ConcatAssociative
<1>3. PICK u \in Seq(Char) : u = s \o t
  BY <1>1, ConcatProperties
<1>4. Append(u, char) = u \o <<char>> /\ Append(t, char) = t \o <<char>>
  BY <1>1, AppendIsConcat
<1> QED BY <1>2, <1>3, <1>4

(* The last of the parts goes on with what has no separator in it.         *)
Lengthened(parts, text) == [parts EXCEPT ![Len(parts)] = @ \o text]

(* Nothing behind the last part.                                           *)
LEMMA LengthenedByNone ==
    ASSUME NEW parts \in Some
    PROVE  Lengthened(parts, None) = parts
<1>1. parts \in Seq(Text) /\ Len(parts) \in Nat \ {0}
  <2>1. parts \in Seq(Text) /\ parts # <<>>
    BY DEF Some
  <2> QED BY <2>1, EmptySeq
<1>2. PICK n \in Nat \ {0} : n = Len(parts)
  BY <1>1
<1>3. PICK t \in Text : t = parts[n]
  BY <1>1, <1>2, ElementOfSeq
<1>4. t \o <<>> = t
  BY ConcatEmptySeq DEF Text
<1>5. [parts EXCEPT ![n] = t] = parts
  BY <1>1, <1>2, <1>3
<1> QED BY <1>2, <1>3, <1>4, <1>5 DEF Lengthened, None

(* One character more behind the last part.                                *)
LEMMA LengthenedBy ==
    ASSUME NEW parts \in Some, NEW text \in Text, NEW char \in Char
    PROVE  /\ [Lengthened(parts, text) EXCEPT ![Len(Lengthened(parts, text))] = Append(@, char)]
                  = Lengthened(parts, Append(text, char))
           /\ Lengthened(parts, text) \in Some
<1>1. parts \in Seq(Text) /\ Len(parts) \in Nat \ {0}
  <2>1. parts \in Seq(Text) /\ parts # <<>>
    BY DEF Some
  <2> QED BY <2>1, EmptySeq
<1>2. PICK n \in Nat \ {0} : n = Len(parts)
  BY <1>1
<1>3. PICK t \in Text : t = parts[n]
  BY <1>1, <1>2, ElementOfSeq
<1>4. t \in Seq(Char) /\ text \in Seq(Char)
  BY DEF Text
<1>5. n \in 1..Len(parts)
  BY <1>2
<1>7. PICK u \in Text : u = t \o text
  BY <1>4, ConcatProperties DEF Text
<1>8. PICK longer : longer = [parts EXCEPT ![n] = u]
  OBVIOUS
<1>9. Lengthened(parts, text) = longer
  BY <1>2, <1>3, <1>7, <1>8 DEF Lengthened
<1>10. longer \in Seq(Text) /\ Len(longer) = n /\ longer[n] = u
  <2>1. /\ [parts EXCEPT ![n] = u] \in Seq(Text)
        /\ Len([parts EXCEPT ![n] = u]) = Len(parts)
    BY <1>1, <1>5, ExceptSeq
  <2>2. [parts EXCEPT ![n] = u][n] = u
    BY <1>1, <1>5
  <2> QED BY <1>2, <1>8, <2>1, <2>2
<1>11. Append(u, char) = t \o Append(text, char)
  <2>1. <<char>> \in Seq(Char)
    BY OneElement
  <2>2. (t \o text) \o <<char>> = t \o (text \o <<char>>)
    BY <1>4, <2>1, ConcatAssociative
  <2>3. Append(u, char) = u \o <<char>> /\ Append(text, char) = text \o <<char>>
    BY <1>4, AppendIsConcat DEF Text
  <2> QED BY <1>7, <2>2, <2>3
<1>12. [longer EXCEPT ![n] = Append(u, char)] = [parts EXCEPT ![n] = Append(u, char)]
  BY <1>8, <1>1, <1>5
<1>13. Lengthened(parts, Append(text, char)) = [parts EXCEPT ![n] = t \o Append(text, char)]
  BY <1>2, <1>3 DEF Lengthened
<1>14. [longer EXCEPT ![Len(longer)] = Append(@, char)] = [longer EXCEPT ![n] = Append(u, char)]
  BY <1>10
<1>15. longer \in Some
  <2>1. Len(<<>>) = 0
    OBVIOUS
  <2> QED BY <1>10, <2>1 DEF Some
<1> QED BY <1>9, <1>11, <1>12, <1>13, <1>14, <1>15

(* What the parts are of a text that is continued.                         *)
LEMMA PartsContinued ==
    ASSUME NEW text \in Text, NEW more \in Text, NEW separator, Without(more, separator)
    PROVE  /\ text \o more \in Text
           /\ Parts(text \o more, separator) = Lengthened(Parts(text, separator), more)
<1> DEFINE Goes(part) == Parts(text \o part, separator) = Lengthened(Parts(text, separator), part)
           P == {n \in Nat : \A part \in Text : Len(part) = n /\ Without(part, separator) => Goes(part)}
<1>0. text \in Seq(Char) /\ more \in Seq(Char)
  BY DEF Text
<1>1. PICK m \in Nat : m = Len(more)
  BY <1>0
<1>2. 0 \in P
  <2>1. ASSUME NEW part \in Text, Len(part) = 0 PROVE Goes(part)
    <3>1. part = None
      BY <2>1, EmptySeq DEF Text, None
    <3>2. text \o None = text
      BY <1>0, ConcatEmptySeq DEF None
    <3>3. Parts(text, separator) \in Some
      BY PartsAreSome
    <3>4. Lengthened(Parts(text, separator), None) = Parts(text, separator)
      BY <3>3, LengthenedByNone
    <3> QED BY <3>1, <3>2, <3>4
  <2> QED BY <2>1
<1>3. ASSUME NEW n \in 1..m, n - 1 \in P PROVE n \in P
  <2>1. ASSUME NEW part \in Text, Len(part) = n, Without(part, separator) PROVE Goes(part)
    <3>1. part \in Seq(Char) /\ n \in Nat \ {0}
      BY DEF Text
    <3>2. PICK front \in Text, char \in Char :
            /\ part = Append(front, char) /\ Len(front) = n - 1
            /\ Without(front, separator) /\ char # separator
      <4>1. PICK front \in Seq(Char) : ButLast(front, part, n)
        <5>1. Len(part) = n
          BY <2>1
        <5> QED BY <3>1, <5>1, FrontIs, Zenon
      <4>2. /\ Len(front) = n - 1 /\ part = Append(front, part[n])
            /\ \A i \in 1..n - 1 : front[i] = part[i]
        BY <4>1 DEF ButLast
      <4>3. part[n] \in Char
        BY <2>1, <3>1, ElementOfSeq
      <4>4. part[n] # separator
        BY <2>1 DEF Without
      <4>5. Without(front, separator)
        <5>1. \A i \in 1..n - 1 : front[i] = part[i] /\ i \in 1..n
          BY <4>2
        <5> QED BY <2>1, <4>2, <5>1 DEF Without
      <4> QED BY <4>2, <4>3, <4>4, <4>5 DEF Text
    <3>3. PICK whole \in Text : whole = text \o front
      BY <1>0, ConcatProperties DEF Text
    <3>4. Parts(whole, separator) = Lengthened(Parts(text, separator), front)
      BY <1>3, <3>2, <3>3
    <3>5. text \o part = Append(whole, char)
      <4>1. <<char>> \in Seq(Char) /\ front \in Seq(Char) /\ whole \in Seq(Char)
        BY OneElement DEF Text
      <4>2. (text \o front) \o <<char>> = text \o (front \o <<char>>)
        BY <1>0, <4>1, ConcatAssociative
      <4>3. Append(whole, char) = whole \o <<char>> /\ Append(front, char) = front \o <<char>>
        BY <4>1, AppendIsConcat
      <4> QED BY <3>2, <3>3, <4>2, <4>3
    <3>6. Parts(text \o part, separator) = Further(Parts(whole, separator), char, separator)
      <4>1. Parts(Append(whole, char), separator) = Further(Parts(whole, separator), char, separator)
        BY PartsAppended
      <4> QED BY <3>5, <4>1
    <3>7. PICK before \in Some : before = Parts(text, separator)
      BY PartsAreSome
    <3>8. PICK after : after = Lengthened(before, front)
      OBVIOUS
    <3>9. Further(after, char, separator) = [after EXCEPT ![Len(after)] = Append(@, char)]
      BY <3>2 DEF Further
    <3>10. [after EXCEPT ![Len(after)] = Append(@, char)] = Lengthened(before, part)
      <4>1. [Lengthened(before, front) EXCEPT ![Len(Lengthened(before, front))] = Append(@, char)]
              = Lengthened(before, Append(front, char))
        BY LengthenedBy
      <4> QED BY <3>2, <3>8, <4>1
    <3> QED BY <3>4, <3>6, <3>7, <3>8, <3>9, <3>10
  <2>2. n \in Nat
    OBVIOUS
  <2> QED BY <2>1, <2>2
<1>4. m \in P
  <2>1. \A n \in 1..m : n - 1 \in P => n \in P
    BY <1>3
  <2>2. m \in 0..m
    OBVIOUS
  <2> HIDE DEF P
  <2> QED BY <1>2, <2>1, <2>2, UpTo
<1>5. text \o more \in Text
  BY <1>0, ConcatProperties DEF Text
<1> QED BY <1>1, <1>4, <1>5

-----------------------------------------------------------------------------
(* What Join makes of one text more.                                       *)
Onto(joined, i, text, separator) ==
    IF i = 1 THEN text ELSE joined \o <<separator>> \o text

(* What stands behind a separator, put onto what was joined.               *)
LEMMA OntoIs ==
    ASSUME NEW joined \in Text, NEW i, NEW text \in Text, NEW separator \in Char
    PROVE  /\ Onto(joined, i, text, separator) \in Text
           /\ Append(joined, separator) \in Text
           /\ joined \o <<separator>> \o text = Append(joined, separator) \o text
<1>1. joined \in Seq(Char) /\ text \in Seq(Char) /\ <<separator>> \in Seq(Char)
  BY OneElement DEF Text
<1>2. PICK s \in Seq(Char) : s = joined \o <<separator>>
  BY <1>1, ConcatProperties
<1>3. s \o text \in Seq(Char)
  BY <1>1, <1>2, ConcatProperties
<1>4. Append(joined, separator) = s
  BY <1>1, <1>2, AppendIsConcat
<1> QED BY <1>1, <1>2, <1>3, <1>4 DEF Onto, Text

(* The iteration behind Join.                                              *)
JoinGoes(f, texts, separator) ==
    /\ f \in [0..Len(texts) -> Text]
    /\ f[0] = None
    /\ \A i \in 1..Len(texts) : f[i] = Onto(f[i - 1], i, texts[i], separator)

(* Join is a fold over the texts.                                          *)
LEMMA JoinIs ==
    ASSUME NEW texts \in Seq(Text), NEW separator \in Char
    PROVE  \E f : JoinGoes(f, texts, separator) /\ Join(texts, separator) = f[Len(texts)]
<1> DEFINE Body(f) == [n \in 0..Len(texts) |->
             IF n = 0 THEN None
             ELSE IF n = 1 THEN texts[1]
             ELSE f[n - 1] \o <<separator>> \o texts[n]]
           step == [i \in 1..Len(texts) |-> [s \in Text |-> Onto(s, i, texts[i], separator)]]
<1>0. PICK n \in Nat : n = Len(texts)
  OBVIOUS
<1>1. None \in Text
  BY EmptySeq DEF Text, None
<1>2. step \in [1..n -> [Text -> Text]]
  <2>1. ASSUME NEW i \in 1..n, NEW s \in Text PROVE Onto(s, i, texts[i], separator) \in Text
    <3>1. texts[i] \in Text
      BY <1>0, ElementOfSeq
    <3> QED BY <3>1, OntoIs
  <2> QED BY <1>0, <2>1
<1>3. PICK f : IsFold(f, Text, None, n, step)
  <2> HIDE DEF step
  <2> QED BY <1>1, <1>2, FoldIs
<1>4. \A i \in 1..n : f[i] = Onto(f[i - 1], i, texts[i], separator)
  <2>1. ASSUME NEW i \in 1..n PROVE f[i] = Onto(f[i - 1], i, texts[i], separator)
    <3>1. i - 1 \in 0..n
      OBVIOUS
    <3>2. f[i - 1] \in Text
      BY <1>3, <3>1 DEF IsFold
    <3>3. step[i][f[i - 1]] = Onto(f[i - 1], i, texts[i], separator)
      BY <1>0, <3>2
    <3>4. f[i] = step[i][f[i - 1]]
      <4> HIDE DEF step
      <4> QED BY <1>3 DEF IsFold
    <3> QED BY <3>3, <3>4
  <2> QED BY <2>1
<1>41. f \in [0..n -> Text] /\ f[0] = None
  <2> HIDE DEF step
  <2> QED BY <1>3 DEF IsFold
<1>5. f = Body(f)
  <2>1. ASSUME NEW i \in 0..n PROVE f[i] = Body(f)[i]
    <3>1. CASE i = 0
      BY <1>0, <1>41, <3>1
    <3>2. CASE i # 0
      <4>1. i \in 1..n
        BY <3>2
      <4> QED BY <1>0, <1>4, <3>2, <4>1 DEF Onto
    <3> QED BY <3>1, <3>2
  <2>2. DOMAIN Body(f) = 0..n /\ Body(f) = [i \in 0..n |-> Body(f)[i]]
    BY <1>0
  <2>3. f = [i \in 0..n |-> f[i]]
    BY <1>41
  <2> HIDE DEF Body
  <2> QED BY <2>1, <2>2, <2>3
<1>6. PICK joined : joined = (CHOOSE g : g = Body(g))
  OBVIOUS
<1>7. joined = Body(joined)
  <2> HIDE DEF Body
  <2> QED BY <1>5, <1>6
<1>8. Join(texts, separator) = joined[Len(texts)]
  BY <1>6 DEF Join
<1>9. \A i \in 1..n : joined[i] = Onto(joined[i - 1], i, texts[i], separator)
  <2>1. ASSUME NEW i \in 1..n PROVE joined[i] = Onto(joined[i - 1], i, texts[i], separator)
    <3>1. i \in 0..Len(texts) /\ i # 0
      BY <1>0
    <3> QED BY <1>7, <3>1 DEF Onto
  <2> QED BY <2>1
<1>10. joined[0] = None
  <2>1. 0 \in 0..Len(texts)
    BY <1>0
  <2> QED BY <1>7, <2>1
<1>11. \A i \in 0..n : joined[i] = f[i]
  <2>1. StepsAgree(joined, f, n)
    BY <1>4, <1>41, <1>9, <1>10 DEF StepsAgree
  <2> QED BY <2>1, FoldsAgree
<1>12. n \in 0..n /\ n = Len(texts)
  BY <1>0
<1>13. JoinGoes(f, texts, separator)
  BY <1>0, <1>4, <1>41 DEF JoinGoes
<1> QED BY <1>8, <1>11, <1>12, <1>13

(* What is joined is a text.                                               *)
LEMMA JoinIsText ==
    ASSUME NEW texts \in Seq(Text), NEW separator \in Char
    PROVE  Join(texts, separator) \in Text
<1>1. PICK f : JoinGoes(f, texts, separator) /\ Join(texts, separator) = f[Len(texts)]
  BY JoinIs
<1>2. Len(texts) \in 0..Len(texts)
  OBVIOUS
<1> QED BY <1>1, <1>2 DEF JoinGoes

(* No texts are joined to an empty one.                                    *)
LEMMA JoinOfNone ==
    ASSUME NEW separator \in Char
    PROVE  Join(<<>>, separator) = None
<1>1. <<>> \in Seq(Text) /\ Len(<<>>) = 0
  BY EmptySeq
<1>2. PICK f : JoinGoes(f, <<>>, separator) /\ Join(<<>>, separator) = f[Len(<<>>)]
  BY <1>1, JoinIs
<1> QED BY <1>1, <1>2 DEF JoinGoes

(* The join of one text more.                                              *)
LEMMA JoinAppended ==
    ASSUME NEW texts \in Seq(Text), NEW text \in Text, NEW separator \in Char
    PROVE  /\ Join(texts, separator) \in Text
           /\ Append(texts, text) \in Seq(Text)
           /\ Join(Append(texts, text), separator)
                  = Onto(Join(texts, separator), Len(texts) + 1, text, separator)
<1>1. PICK n \in Nat : n = Len(texts)
  OBVIOUS
<1>2. PICK longer \in Seq(Text) : longer = Append(texts, text)
  BY AppendProperties
<1>3. Len(longer) = n + 1 /\ longer[n + 1] = text /\ \A i \in 1..n : longer[i] = texts[i]
  <2>1. /\ Len(longer) = Len(texts) + 1
        /\ longer[Len(texts) + 1] = text
        /\ \A i \in 1..Len(texts) : longer[i] = texts[i]
    BY <1>2, AppendProperties
  <2> QED BY <1>1, <2>1
<1>4. PICK f : JoinGoes(f, texts, separator) /\ Join(texts, separator) = f[n]
  BY <1>1, JoinIs
<1>5. PICK g : JoinGoes(g, longer, separator) /\ Join(longer, separator) = g[n + 1]
  BY <1>3, JoinIs
<1>6. StepsAgree(f, g, n)
  <2>1. f[0] = g[0]
    BY <1>4, <1>5 DEF JoinGoes
  <2>2. ASSUME NEW i \in 1..n, f[i - 1] = g[i - 1] PROVE f[i] = g[i]
    <3>1. i \in 1..n + 1 /\ longer[i] = texts[i]
      BY <1>3
    <3>2. f[i] = Onto(f[i - 1], i, texts[i], separator)
      BY <1>1, <1>4 DEF JoinGoes
    <3>3. g[i] = Onto(g[i - 1], i, longer[i], separator)
      BY <1>3, <1>5, <3>1 DEF JoinGoes
    <3> QED BY <2>2, <3>1, <3>2, <3>3
  <2> QED BY <2>1, <2>2 DEF StepsAgree
<1>7. f[n] = g[n] /\ f[n] \in Text
  <2>1. n \in 0..n
    OBVIOUS
  <2>2. f[n] \in Text
    BY <1>1, <1>4, <2>1 DEF JoinGoes
  <2> QED BY <1>6, <2>1, <2>2, FoldsAgree
<1>8. g[n + 1] = Onto(g[n], n + 1, text, separator)
  <2>1. PICK m \in 1..n + 1 : m = n + 1 /\ m - 1 = n
    OBVIOUS
  <2>2. g[m] = Onto(g[m - 1], m, longer[m], separator)
    BY <1>3, <1>5, <2>1 DEF JoinGoes
  <2> QED BY <1>3, <2>1, <2>2
<1> QED BY <1>1, <1>2, <1>4, <1>5, <1>7, <1>8

-----------------------------------------------------------------------------
(* Texts that a separator is in none of.                                   *)
AllWithout(texts, separator) == \A i \in 1..Len(texts) : Without(texts[i], separator)

(* The last of a sequence of texts.                                        *)
LEMMA AppendedFree ==
    ASSUME NEW texts \in Seq(Text), NEW text \in Text, NEW separator
    PROVE  AllWithout(Append(texts, text), separator) <=> AllWithout(texts, separator) /\ Without(text, separator)
<1>1. PICK n \in Nat : n = Len(texts)
  OBVIOUS
<1>2. PICK longer \in Seq(Text) : longer = Append(texts, text)
  BY AppendProperties
<1>3. Len(longer) = n + 1 /\ longer[n + 1] = text /\ \A i \in 1..n : longer[i] = texts[i]
  <2>1. /\ Len(longer) = Len(texts) + 1
        /\ longer[Len(texts) + 1] = text
        /\ \A i \in 1..Len(texts) : longer[i] = texts[i]
    BY <1>2, AppendProperties
  <2> QED BY <1>1, <2>1
<1>4. ASSUME AllWithout(longer, separator) PROVE AllWithout(texts, separator) /\ Without(text, separator)
  <2>1. ASSUME NEW i \in 1..n PROVE Without(texts[i], separator)
    <3>1. i \in 1..n + 1
      OBVIOUS
    <3> QED BY <1>3, <1>4, <3>1 DEF AllWithout
  <2>2. n + 1 \in 1..n + 1
    OBVIOUS
  <2>3. Without(longer[n + 1], separator)
    BY <1>3, <1>4, <2>2 DEF AllWithout
  <2> QED BY <1>1, <1>3, <2>1, <2>3 DEF AllWithout
<1>5. ASSUME AllWithout(texts, separator), Without(text, separator) PROVE AllWithout(longer, separator)
  <2>1. ASSUME NEW i \in 1..n + 1 PROVE Without(longer[i], separator)
    <3>1. CASE i = n + 1
      BY <1>3, <1>5, <3>1
    <3>2. CASE i # n + 1
      <4>1. i \in 1..n
        BY <3>2
      <4> QED BY <1>1, <1>3, <1>5, <4>1 DEF AllWithout
    <3> QED BY <3>1, <3>2
  <2> QED BY <1>3, <2>1 DEF AllWithout
<1> QED BY <1>2, <1>4, <1>5

(* Texts that are not none are some and one more.                          *)
LEMMA LastOfTexts ==
    ASSUME NEW n \in Nat \ {0}, NEW texts \in Seq(Text), Len(texts) = n
    PROVE  \E front \in Seq(Text), text \in Text : texts = Append(front, text) /\ Len(front) = n - 1
<1>1. PICK front \in Seq(Text) : ButLast(front, texts, n)
  BY FrontIs, Zenon
<1>2. texts[n] \in Text
  BY ElementOfSeq
<1> QED BY <1>1, <1>2 DEF ButLast

(* Two texts without a character, one behind the other.                    *)
LEMMA FreeOfConcat ==
    ASSUME NEW s \in Text, NEW t \in Text, NEW separator, Without(s, separator), Without(t, separator)
    PROVE  s \o t \in Text /\ Without(s \o t, separator)
<1>1. PICK n \in Nat, m \in Nat : n = Len(s) /\ m = Len(t)
  BY DEF Text
<1>2. s \in Seq(Char) /\ t \in Seq(Char)
  BY DEF Text
<1>3. /\ s \o t \in Seq(Char) /\ Len(s \o t) = n + m
      /\ \A i \in 1..n + m : (s \o t)[i] = IF i <= n THEN s[i] ELSE t[i - n]
  BY <1>1, <1>2, ConcatProperties
<1>4. ASSUME NEW i \in 1..n + m PROVE (s \o t)[i] # separator
  <2>1. CASE i <= n
    BY <1>1, <1>3, <2>1 DEF Without
  <2>2. CASE ~(i <= n)
    <3>1. i - n \in 1..m
      BY <2>2
    <3> QED BY <1>1, <1>3, <2>2, <3>1 DEF Without
  <2> QED BY <2>1, <2>2
<1> QED BY <1>3, <1>4 DEF Without, Text

(* A text without a character, and another character behind it.            *)
LEMMA FreeOfAppend ==
    ASSUME NEW s \in Text, NEW char \in Char, NEW separator, Without(s, separator), char # separator
    PROVE  Append(s, char) \in Text /\ Without(Append(s, char), separator)
<1>1. s \in Seq(Char)
  BY DEF Text
<1>2. PICK n \in Nat : n = Len(s)
  BY <1>1
<1>3. /\ Append(s, char) \in Seq(Char) /\ Len(Append(s, char)) = n + 1
      /\ \A i \in 1..n : Append(s, char)[i] = s[i]
      /\ Append(s, char)[n + 1] = char
  BY <1>1, <1>2, AppendProperties
<1>4. ASSUME NEW i \in 1..n + 1 PROVE Append(s, char)[i] # separator
  <2>1. CASE i = n + 1
    BY <1>3, <2>1
  <2>2. CASE i # n + 1
    <3>1. i \in 1..n
      BY <2>2
    <3> QED BY <1>2, <1>3, <3>1 DEF Without
  <2> QED BY <2>1, <2>2
<1> QED BY <1>3, <1>4 DEF Without, Text

(* A text behind an empty last part is the last part.                      *)
LEMMA LengthenedNone ==
    ASSUME NEW n \in Nat, NEW front \in Seq(Text), Len(front) = n, NEW text \in Text
    PROVE  Lengthened(Append(front, None), text) = Append(front, text)
<1>1. None \in Text /\ None \o text = text
  BY EmptySeq, ConcatEmptySeq DEF None, Text
<1>2. PICK s \in Seq(Text) : s = Append(front, None)
  BY <1>1, AppendProperties
<1>3. Len(s) = n + 1 /\ s[n + 1] = None /\ \A i \in 1..n : s[i] = front[i]
  BY <1>1, <1>2, AppendProperties
<1>4. PICK t \in Seq(Text) : t = Append(front, text)
  BY AppendProperties
<1>5. Len(t) = n + 1 /\ t[n + 1] = text /\ \A i \in 1..n : t[i] = front[i]
  BY <1>4, AppendProperties
<1>6. n + 1 \in 1..Len(s)
  BY <1>3
<1>7. Lengthened(s, text) = [s EXCEPT ![n + 1] = text]
  BY <1>1, <1>3 DEF Lengthened
<1>8. PICK u : u = [s EXCEPT ![n + 1] = text]
  OBVIOUS
<1>9. /\ u \in Seq(Text) /\ Len(u) = n + 1
      /\ \A i \in 1..n + 1 : u[i] = IF i = n + 1 THEN text ELSE s[i]
  BY <1>3, <1>6, <1>8, ExceptSeq
<1>10. \A i \in 1..n + 1 : u[i] = t[i]
  BY <1>3, <1>5, <1>9
<1>11. u = t
  BY <1>5, <1>9, <1>10, SeqEqual
<1> QED BY <1>2, <1>4, <1>7, <1>8, <1>11

(* Splitting gives back what was joined, if the separator is in none of it *)
LEMMA PartsOfJoin ==
    ASSUME NEW texts \in Some, NEW separator \in Char, AllWithout(texts, separator)
    PROVE  Parts(Join(texts, separator), separator) = texts
<1> DEFINE Back(all) == Parts(Join(all, separator), separator) = all
           P == {n \in Nat : \A all \in Seq(Text) : Len(all) = n + 1 /\ AllWithout(all, separator) => Back(all)}
<1>0. PICK m \in Nat : m + 1 = Len(texts) /\ texts \in Seq(Text)
  <2>1. texts \in Seq(Text) /\ texts # <<>>
    BY DEF Some
  <2>2. Len(texts) \in Nat \ {0}
    BY <2>1, EmptySeq
  <2>3. Len(texts) - 1 \in Nat /\ Len(texts) - 1 + 1 = Len(texts)
    BY <2>2
  <2> QED BY <2>1, <2>3
<1>1. 0 \in P
  <2>1. ASSUME NEW all \in Seq(Text), Len(all) = 1, AllWithout(all, separator) PROVE Back(all)
    <3>1. PICK front \in Seq(Text), text \in Text : all = Append(front, text) /\ Len(front) = 0
      <4>1. 1 \in Nat \ {0} /\ 1 - 1 = 0
        OBVIOUS
      <4> QED BY <2>1, <4>1, LastOfTexts
    <3>2. front = <<>>
      BY <3>1, EmptySeq
    <3>3. Without(text, separator)
      BY <2>1, <3>1, AppendedFree
    <3>4. Join(all, separator) = text
      <4>1. Join(Append(front, text), separator) = Onto(Join(front, separator), Len(front) + 1, text, separator)
        BY JoinAppended
      <4>2. Len(front) + 1 = 1
        BY <3>1
      <4> QED BY <3>1, <4>1, <4>2 DEF Onto
    <3>5. Parts(None \o text, separator) = Lengthened(<<None>>, text)
      <4>1. None \in Text
        BY EmptySeq DEF Text, None
      <4> QED BY <3>3, <4>1, PartsOfNone, PartsContinued
    <3>6. None \o text = text
      BY ConcatEmptySeq DEF None, Text
    <3>7. Lengthened(<<None>>, text) = <<text>>
      <4>1. Len(<<None>>) = 1 /\ <<None>>[1] = None
        OBVIOUS
      <4>2. Lengthened(<<None>>, text) = [<<None>> EXCEPT ![1] = text]
        BY <3>6, <4>1 DEF Lengthened
      <4>3. [<<None>> EXCEPT ![1] = text] = <<text>>
        OBVIOUS
      <4> QED BY <4>2, <4>3
    <3>8. all = <<text>>
      BY <3>1, <3>2
    <3> QED BY <3>4, <3>5, <3>6, <3>7, <3>8
  <2>2. 0 + 1 = 1
    OBVIOUS
  <2> QED BY <2>1, <2>2
<1>2. ASSUME NEW n \in 1..m, n - 1 \in P PROVE n \in P
  <2>1. ASSUME NEW all \in Seq(Text), Len(all) = n + 1, AllWithout(all, separator) PROVE Back(all)
    <3>1. PICK front \in Seq(Text), text \in Text : all = Append(front, text) /\ Len(front) = n
      <4>1. PICK size \in Nat \ {0} : size = n + 1 /\ size - 1 = n
        OBVIOUS
      <4>2. \E front \in Seq(Text), text \in Text : all = Append(front, text) /\ Len(front) = size - 1
        BY <2>1, <4>1, LastOfTexts
      <4> QED BY <4>1, <4>2
    <3>2. Without(text, separator) /\ AllWithout(front, separator)
      BY <2>1, <3>1, AppendedFree
    <3>3. Back(front)
      <4>1. n - 1 + 1 = n
        OBVIOUS
      <4> QED BY <1>2, <3>1, <3>2, <4>1
    <3>4. PICK s \in Text : s = Join(front, separator)
      BY JoinAppended
    <3>5. PICK t \in Text : t = Append(s, separator)
      BY PartsAppended
    <3>6. Join(all, separator) = t \o text
      <4>1. Join(Append(front, text), separator) = Onto(s, n + 1, text, separator)
        BY <3>1, <3>4, JoinAppended
      <4>2. n + 1 # 1
        OBVIOUS
      <4>3. Onto(s, n + 1, text, separator) = s \o <<separator>> \o text
        BY <4>2 DEF Onto
      <4>4. s \o <<separator>> \o text = Append(s, separator) \o text
        BY OntoIs
      <4> QED BY <3>1, <3>5, <4>1, <4>3, <4>4
    <3>7. Parts(t, separator) = Append(front, None)
      <4>1. Parts(Append(s, separator), separator) = Further(Parts(s, separator), separator, separator)
        BY PartsAppended
      <4> QED BY <3>3, <3>4, <3>5, <4>1 DEF Further
    <3>8. Parts(t \o text, separator) = Lengthened(Append(front, None), text)
      <4>1. Parts(t \o text, separator) = Lengthened(Parts(t, separator), text)
        BY <3>2, PartsContinued
      <4> QED BY <3>7, <4>1
    <3>9. Lengthened(Append(front, None), text) = Append(front, text)
      BY <3>1, LengthenedNone
    <3> QED BY <3>1, <3>6, <3>8, <3>9
  <2>2. n \in Nat
    OBVIOUS
  <2> QED BY <2>1, <2>2
<1>3. m \in P
  <2>1. \A n \in 1..m : n - 1 \in P => n \in P
    BY <1>2
  <2>2. m \in 0..m
    OBVIOUS
  <2> HIDE DEF P
  <2> QED BY <1>1, <2>1, <2>2, UpTo
<1> QED BY <1>0, <1>3

(* What is joined has none of a character that is in none of it.           *)
LEMMA JoinIsFree ==
    ASSUME NEW texts \in Seq(Text), NEW separator \in Char, NEW char, char # separator,
           AllWithout(texts, char)
    PROVE  Join(texts, separator) \in Text /\ Without(Join(texts, separator), char)
<1> DEFINE Good(all) == Join(all, separator) \in Text /\ Without(Join(all, separator), char)
           P == {n \in Nat : \A all \in Seq(Text) : Len(all) = n /\ AllWithout(all, char) => Good(all)}
<1>0. PICK m \in Nat : m = Len(texts)
  OBVIOUS
<1>1. 0 \in P
  <2>1. ASSUME NEW all \in Seq(Text), Len(all) = 0 PROVE Good(all)
    <3>1. all = <<>>
      BY <2>1, EmptySeq
    <3>2. None \in Text /\ Without(None, char)
      BY EmptySeq DEF Text, None, Without
    <3>3. Join(<<>>, separator) = None
      BY JoinOfNone
    <3> QED BY <3>1, <3>2, <3>3
  <2> QED BY <2>1
<1>2. ASSUME NEW n \in 1..m, n - 1 \in P PROVE n \in P
  <2>1. ASSUME NEW all \in Seq(Text), Len(all) = n, AllWithout(all, char) PROVE Good(all)
    <3>1. PICK front \in Seq(Text), text \in Text : all = Append(front, text) /\ Len(front) = n - 1
      <4>1. n \in Nat \ {0}
        OBVIOUS
      <4> QED BY <2>1, <4>1, LastOfTexts
    <3>2. Without(text, char) /\ AllWithout(front, char)
      BY <2>1, <3>1, AppendedFree
    <3>3. PICK s \in Text : s = Join(front, separator) /\ Without(s, char)
      BY <1>2, <3>1, <3>2
    <3>4. PICK k : k = Len(front) + 1
      OBVIOUS
    <3>5. Join(all, separator) = Onto(s, k, text, separator)
      BY <3>1, <3>3, <3>4, JoinAppended
    <3>6. CASE k = 1
      BY <3>2, <3>5, <3>6 DEF Onto
    <3>7. CASE k # 1
      <4>1. PICK t \in Text : t = Append(s, separator) /\ Without(t, char)
        BY <3>3, FreeOfAppend
      <4>2. t \o text \in Text /\ Without(t \o text, char)
        BY <3>2, <4>1, FreeOfConcat
      <4>3. Onto(s, k, text, separator) = t \o text
        <5>1. s \o <<separator>> \o text = Append(s, separator) \o text
          BY OntoIs
        <5> QED BY <3>7, <4>1, <5>1 DEF Onto
      <4> QED BY <3>5, <4>2, <4>3
    <3> QED BY <3>6, <3>7
  <2>2. n \in Nat
    OBVIOUS
  <2> QED BY <2>1, <2>2
<1>3. m \in P
  <2>1. \A n \in 1..m : n - 1 \in P => n \in P
    BY <1>2
  <2>2. m \in 0..m
    OBVIOUS
  <2> HIDE DEF P
  <2> QED BY <1>1, <2>1, <2>2, UpTo
<1> QED BY <1>0, <1>3

(* Splitting what was joined: an empty text has no parts at all.           *)
LEMMA SplitOfJoin ==
    ASSUME NEW texts \in Seq(Text), NEW separator \in Char, AllWithout(texts, separator)
    PROVE  \/ Split(Join(texts, separator), separator) = texts
           \/ /\ Split(Join(texts, separator), separator) = <<>>
              /\ texts = <<None>>
<1>0. PICK n \in Nat : n = Len(texts)
  OBVIOUS
<1>1. CASE n = 0
  <2>1. texts = <<>>
    BY <1>0, <1>1, EmptySeq
  <2>2. Join(<<>>, separator) = None
    BY JoinOfNone
  <2> QED BY <2>1, <2>2 DEF Split
<1>2. CASE n # 0
  <2>1. texts \in Some
    <3>1. Len(<<>>) = 0
      OBVIOUS
    <3> QED BY <1>0, <1>2, <3>1 DEF Some
  <2>2. PICK s \in Text : s = Join(texts, separator)
    BY JoinIsText
  <2>3. Parts(s, separator) = texts
    BY <2>1, <2>2, PartsOfJoin
  <2>4. CASE s # None
    BY <2>2, <2>3, <2>4 DEF Split
  <2>5. CASE s = None
    BY <2>2, <2>3, <2>5, PartsOfNone DEF Split
  <2> QED BY <2>4, <2>5
<1> QED BY <1>1, <1>2

(* A character behind the last of the texts is one behind their join.      *)
LEMMA JoinLengthened ==
    ASSUME NEW front \in Seq(Text), NEW text \in Text, NEW separator \in Char, NEW char \in Char
    PROVE  Append(Join(Append(front, text), separator), char)
               = Join(Append(front, Append(text, char)), separator)
<1>1. PICK more \in Text : more = Append(text, char)
  BY PartsAppended
<1>2. PICK s \in Text : s = Join(front, separator)
  BY JoinAppended
<1>3. PICK k : k = Len(front) + 1
  OBVIOUS
<1>4. Join(Append(front, text), separator) = Onto(s, k, text, separator)
  BY <1>2, <1>3, JoinAppended
<1>5. Join(Append(front, more), separator) = Onto(s, k, more, separator)
  BY <1>2, <1>3, JoinAppended
<1>6. CASE k = 1
  BY <1>1, <1>4, <1>5, <1>6 DEF Onto
<1>7. CASE k # 1
  <2>1. PICK t \in Text : t = Append(s, separator)
    BY PartsAppended
  <2>2. Onto(s, k, text, separator) = t \o text
    <3>1. s \o <<separator>> \o text = Append(s, separator) \o text
      BY OntoIs
    <3> QED BY <1>7, <2>1, <3>1 DEF Onto
  <2>3. Onto(s, k, more, separator) = t \o more
    <3>1. s \o <<separator>> \o more = Append(s, separator) \o more
      BY OntoIs
    <3> QED BY <1>7, <2>1, <3>1 DEF Onto
  <2>4. Append(t \o text, char) = t \o Append(text, char)
    BY AppendToConcat
  <2> QED BY <1>1, <1>4, <1>5, <2>2, <2>3, <2>4
<1> QED BY <1>1, <1>6, <1>7

-----------------------------------------------------------------------------
(* The order of the keys: by the words, and a text before those it begins. *)
Keys == Seq(Range(Words))

(* The rank of a word is its place.                                        *)
LEMMA RankIs ==
    ASSUME NEW w \in Range(Words)
    PROVE  Rank(w) \in Nat /\ Words[Rank(w)] = w
<1>1. PICK n \in Nat : DOMAIN Words = 1..n
  BY WordsAssumption
<1>2. PICK i \in 1..n : Words[i] = w
  BY <1>1 DEF Range
<1>3. Rank(w) \in 1..n /\ Words[Rank(w)] = w
  BY <1>1, <1>2 DEF Rank
<1> QED BY <1>3

(* s precedes t as they differ behind n words.                             *)
DifferAt(s, t, n) ==
    /\ n < Len(t) /\ n <= Len(s)
    /\ \A i \in 1..n : s[i] = t[i]
    /\ n = Len(s) \/ Rank(s[n + 1]) < Rank(t[n + 1])

(* Two sequences begin alike when their first elements are the same.       *)
LEMMA SameBegin ==
    ASSUME NEW S, NEW s \in Seq(S), NEW t \in Seq(S), NEW n \in Nat, n <= Len(s), n <= Len(t)
    PROVE  SubSeq(s, 1, n) = SubSeq(t, 1, n) <=> \A i \in 1..n : s[i] = t[i]
<1>1. PICK u \in Seq(S) : u = SubSeq(s, 1, n) /\ Len(u) = n /\ \A i \in 1..n : u[i] = s[i]
  <2>1. SubSeq(s, 1, n) \in Seq(S) /\ Len(SubSeq(s, 1, n)) = n
    BY SubSeqProperties
  <2>2. \A i \in 1..n : SubSeq(s, 1, n)[i] = s[i]
    BY SubSeqProperties
  <2> QED BY <2>1, <2>2
<1>2. PICK v \in Seq(S) : v = SubSeq(t, 1, n) /\ Len(v) = n /\ \A i \in 1..n : v[i] = t[i]
  <2>1. SubSeq(t, 1, n) \in Seq(S) /\ Len(SubSeq(t, 1, n)) = n
    BY SubSeqProperties
  <2>2. \A i \in 1..n : SubSeq(t, 1, n)[i] = t[i]
    BY SubSeqProperties
  <2> QED BY <2>1, <2>2
<1>3. ASSUME \A i \in 1..n : s[i] = t[i] PROVE u = v
  <2>1. \A i \in 1..Len(u) : u[i] = v[i]
    BY <1>1, <1>2, <1>3
  <2> QED BY <1>1, <1>2, <2>1, SeqEqual
<1> QED BY <1>1, <1>2, <1>3

(* Precedes, in terms of the place where two keys differ.                  *)
LEMMA PrecedesIs ==
    ASSUME NEW s \in Keys, NEW t \in Keys
    PROVE  Precedes(s, t) <=> \E n \in Nat : DifferAt(s, t, n)
<1>1. s \in Seq(Range(Words)) /\ t \in Seq(Range(Words)) /\ Len(s) \in Nat /\ Len(t) \in Nat
  BY DEF Keys
<1>2. ASSUME NEW n \in Nat, n <= Len(s), n <= Len(t)
      PROVE  SubSeq(s, 1, n) = SubSeq(t, 1, n) <=> \A i \in 1..n : s[i] = t[i]
  BY <1>1, <1>2, SameBegin
<1>3. ASSUME Precedes(s, t) PROVE \E n \in Nat : DifferAt(s, t, n)
  <2>1. PICK n \in 0..Len(t) - 1 :
          /\ n <= Len(s)
          /\ SubSeq(s, 1, n) = SubSeq(t, 1, n)
          /\ n = Len(s) \/ Rank(s[n + 1]) < Rank(t[n + 1])
    BY <1>3 DEF Precedes
  <2>2. n \in Nat /\ n < Len(t) /\ n <= Len(t)
    BY <1>1
  <2>3. \A i \in 1..n : s[i] = t[i]
    BY <1>2, <2>1, <2>2
  <2> QED BY <2>1, <2>2, <2>3 DEF DifferAt
<1>4. ASSUME NEW n \in Nat, DifferAt(s, t, n) PROVE Precedes(s, t)
  <2>1. n \in 0..Len(t) - 1 /\ n <= Len(s) /\ n <= Len(t)
    BY <1>1, <1>4 DEF DifferAt
  <2>2. SubSeq(s, 1, n) = SubSeq(t, 1, n)
    BY <1>2, <1>4, <2>1 DEF DifferAt
  <2> QED BY <1>4, <2>1, <2>2 DEF DifferAt, Precedes
<1> QED BY <1>3, <1>4

(* It is a total order.                                                    *)
LEMMA NotItself ==
    ASSUME NEW s \in Keys
    PROVE  ~Precedes(s, s)
<1>1. ASSUME NEW n \in Nat, DifferAt(s, s, n) PROVE FALSE
  <2>1. n < Len(s) /\ Len(s) \in Nat
    BY <1>1 DEF DifferAt, Keys
  <2>2. s[n + 1] \in Range(Words)
    BY <2>1, ElementOfSeq DEF Keys
  <2>3. Rank(s[n + 1]) \in Nat
    BY <2>2, RankIs
  <2> QED BY <1>1, <2>1, <2>3 DEF DifferAt
<1> QED BY <1>1, PrecedesIs

(* The order of the keys is transitive,                                    *)
LEMMA Transitive ==
    ASSUME NEW s \in Keys, NEW t \in Keys, NEW u \in Keys, Precedes(s, t), Precedes(t, u)
    PROVE  Precedes(s, u)
<1>0. s \in Seq(Range(Words)) /\ t \in Seq(Range(Words)) /\ u \in Seq(Range(Words))
      /\ Len(s) \in Nat /\ Len(t) \in Nat /\ Len(u) \in Nat
  BY DEF Keys
<1>1. PICK n \in Nat : DifferAt(s, t, n)
  BY PrecedesIs
<1>2. PICK m \in Nat : DifferAt(t, u, m)
  BY PrecedesIs
<1>3. /\ n < Len(t) /\ n <= Len(s)
      /\ \A i \in 1..n : s[i] = t[i]
      /\ n = Len(s) \/ Rank(s[n + 1]) < Rank(t[n + 1])
  BY <1>1 DEF DifferAt
<1>4. /\ m < Len(u) /\ m <= Len(t)
      /\ \A i \in 1..m : t[i] = u[i]
      /\ m = Len(t) \/ Rank(t[m + 1]) < Rank(u[m + 1])
  BY <1>2 DEF DifferAt
<1>5. CASE n < m
  <2>1. \A i \in 1..n : s[i] = u[i]
    BY <1>3, <1>4, <1>5
  <2>2. n + 1 \in 1..m
    BY <1>5
  <2>3. t[n + 1] = u[n + 1]
    BY <1>4, <2>2
  <2>4. DifferAt(s, u, n)
    <3>1. n < Len(u)
      BY <1>0, <1>4, <1>5
    <3>2. n = Len(s) \/ Rank(s[n + 1]) < Rank(u[n + 1])
      BY <1>3, <2>3
    <3> QED BY <1>3, <2>1, <3>1, <3>2 DEF DifferAt
  <2> QED BY <2>4, PrecedesIs
<1>6. CASE n = m
  <2>1. \A i \in 1..n : s[i] = u[i]
    BY <1>3, <1>4, <1>6
  <2>2. Rank(t[n + 1]) < Rank(u[n + 1])
    BY <1>3, <1>4, <1>6
  <2>3. CASE n = Len(s)
    <3>1. DifferAt(s, u, n)
      BY <1>3, <1>4, <1>6, <2>1, <2>3 DEF DifferAt
    <3> QED BY <3>1, PrecedesIs
  <2>4. CASE n # Len(s)
    <3>1. n + 1 \in 1..Len(s) /\ n + 1 \in 1..Len(t) /\ n + 1 \in 1..Len(u)
      BY <1>0, <1>3, <1>4, <1>6, <2>4
    <3>2. s[n + 1] \in Range(Words) /\ t[n + 1] \in Range(Words) /\ u[n + 1] \in Range(Words)
      BY <1>0, <3>1, ElementOfSeq
    <3>3. Rank(s[n + 1]) \in Nat /\ Rank(t[n + 1]) \in Nat /\ Rank(u[n + 1]) \in Nat
      BY <3>2, RankIs
    <3>4. Rank(s[n + 1]) < Rank(u[n + 1])
      BY <1>3, <2>2, <2>4, <3>3
    <3>5. DifferAt(s, u, n)
      BY <1>3, <1>4, <1>6, <2>1, <3>4 DEF DifferAt
    <3> QED BY <3>5, PrecedesIs
  <2> QED BY <2>3, <2>4
<1>7. CASE n > m
  <2>1. \A i \in 1..m : s[i] = u[i]
    BY <1>3, <1>4, <1>7
  <2>2. m + 1 \in 1..n
    BY <1>7
  <2>3. s[m + 1] = t[m + 1]
    BY <1>3, <2>2
  <2>4. m # Len(t) /\ m <= Len(s)
    BY <1>0, <1>3, <1>7
  <2>5. DifferAt(s, u, m)
    BY <1>4, <2>1, <2>3, <2>4 DEF DifferAt
  <2> QED BY <2>5, PrecedesIs
<1> QED BY <1>5, <1>6, <1>7

(* and of two keys one precedes the other.                                 *)
LEMMA Total ==
    ASSUME NEW s \in Keys, NEW t \in Keys, s # t
    PROVE  Precedes(s, t) \/ Precedes(t, s)
<1>0. s \in Seq(Range(Words)) /\ t \in Seq(Range(Words))
  BY DEF Keys
<1>1. PICK n \in Nat, m \in Nat : n = Len(s) /\ m = Len(t)
  BY <1>0
<1> DEFINE Ends == {k \in Nat : k = n \/ k = m \/ s[k + 1] # t[k + 1]}
<1>2. PICK k \in Ends : \A j \in Ends : k <= j
  <2>1. Ends \in SUBSET Nat /\ n \in Ends
    OBVIOUS
  <2> HIDE DEF Ends
  <2> QED BY <2>1, LeastElement
<1>3. k \in Nat /\ k <= n /\ k <= m
  BY <1>2
<1>4. \A i \in 1..k : s[i] = t[i]
  <2>1. ASSUME NEW i \in 1..k, s[i] # t[i] PROVE FALSE
    <3>1. PICK j \in Nat : j = i - 1 /\ j + 1 = i /\ j < k
      BY <1>3
    <3>2. j \in Ends
      BY <2>1, <3>1
    <3> QED BY <1>2, <1>3, <3>1, <3>2
  <2> QED BY <2>1
<1>5. CASE k = n /\ k = m
  BY <1>0, <1>1, <1>4, <1>5, SeqEqual
<1>6. CASE k = n /\ k # m
  <2>1. DifferAt(s, t, k)
    BY <1>1, <1>3, <1>4, <1>6 DEF DifferAt
  <2> QED BY <1>3, <2>1, PrecedesIs
<1>7. CASE k # n /\ k = m
  <2>1. \A i \in 1..k : t[i] = s[i]
    BY <1>4
  <2>2. DifferAt(t, s, k)
    BY <1>1, <1>3, <1>7, <2>1 DEF DifferAt
  <2> QED BY <1>3, <2>2, PrecedesIs
<1>8. CASE k # n /\ k # m
  <2>1. s[k + 1] # t[k + 1]
    BY <1>2, <1>8
  <2>2. k + 1 \in 1..Len(s) /\ k + 1 \in 1..Len(t)
    BY <1>1, <1>3, <1>8
  <2>3. s[k + 1] \in Range(Words) /\ t[k + 1] \in Range(Words)
    BY <1>0, <2>2, ElementOfSeq
  <2>4. /\ Rank(s[k + 1]) \in Nat /\ Rank(t[k + 1]) \in Nat
        /\ Words[Rank(s[k + 1])] = s[k + 1] /\ Words[Rank(t[k + 1])] = t[k + 1]
    BY <2>3, RankIs
  <2>5. Rank(s[k + 1]) # Rank(t[k + 1])
    BY <2>1, <2>4
  <2>6. CASE Rank(s[k + 1]) < Rank(t[k + 1])
    <3>1. DifferAt(s, t, k)
      BY <1>1, <1>3, <1>4, <1>8, <2>6 DEF DifferAt
    <3> QED BY <1>3, <3>1, PrecedesIs
  <2>7. CASE Rank(t[k + 1]) < Rank(s[k + 1])
    <3>1. \A i \in 1..k : t[i] = s[i]
      BY <1>4
    <3>2. DifferAt(t, s, k)
      BY <1>1, <1>3, <1>8, <2>7, <3>1 DEF DifferAt
    <3> QED BY <1>3, <3>2, PrecedesIs
  <2> QED BY <2>4, <2>5, <2>6, <2>7
<1> QED BY <1>5, <1>6, <1>7, <1>8

-----------------------------------------------------------------------------
(* The binary search.                                                      *)
Probe(map, key, f, first, last) ==
    LET mid == (first + last) \div 2
    IN  IF first > last THEN -(first + 1)
        ELSE IF key = map[mid + 1].key THEN mid
        ELSE IF Precedes(key, map[mid + 1].key) THEN f[<<first, mid - 1>>]
        ELSE f[<<mid + 1, last>>]

(* The middle of a range is within it.                                     *)
LEMMA MidIs ==
    ASSUME NEW first \in Nat, NEW last \in Int, first <= last
    PROVE  \E mid \in Nat : mid = (first + last) \div 2 /\ first <= mid /\ mid <= last
<1>1. PICK sum \in Nat : sum = first + last /\ sum >= 2 * first /\ sum <= 2 * last
  OBVIOUS
<1>2. sum \div 2 \in Nat /\ sum \div 2 >= first /\ sum \div 2 <= last
  BY <1>1
<1> QED BY <1>1, <1>2

(* The answer for a range depends on the answers for smaller ones.         *)
ProbesTo(map, key, f, n, k) ==
    \A first \in 0..n, last \in -1..n - 1 :
        last - first + 1 <= k => f[<<first, last>>] = Probe(map, key, f, first, last)

SameSmaller(f, g, n, k) ==
    \A i \in 0..n, j \in -1..n - 1 : j - i + 1 <= k => f[<<i, j>>] = g[<<i, j>>]

(* A step of the search looks at smaller ranges only,                      *)
LEMMA AskSmaller ==
    ASSUME NEW map, NEW key, NEW f, NEW g, NEW n \in Nat, NEW k \in Nat,
           NEW first \in 0..n, NEW last \in -1..n - 1, last - first + 1 <= k + 1,
           SameSmaller(f, g, n, k)
    PROVE  Probe(map, key, f, first, last) = Probe(map, key, g, first, last)
<1>1. CASE first > last
  BY <1>1 DEF Probe
<1>2. CASE first <= last
  <2>1. PICK mid \in Nat : mid = (first + last) \div 2 /\ first <= mid /\ mid <= last
    BY <1>2, MidIs
  <2>2. PICK before \in -1..n - 1 : before = mid - 1
    BY <2>1
  <2>3. PICK behind \in 0..n : behind = mid + 1
    BY <2>1
  <2>4. before - first + 1 <= k /\ last - behind + 1 <= k
    BY <2>1, <2>2, <2>3
  <2>5. f[<<first, before>>] = g[<<first, before>>] /\ f[<<behind, last>>] = g[<<behind, last>>]
    BY <2>4 DEF SameSmaller
  <2> QED BY <2>1, <2>2, <2>3, <2>5 DEF Probe
<1> QED BY <1>1, <1>2

Solves(f, map, key, n) ==
    f = [range \in (0..n) \X (-1..n - 1) |-> Probe(map, key, f, range[1], range[2])]

(* so there is a function that answers for all of them,                    *)
LEMMA AnswersExist ==
    ASSUME NEW map, NEW key, NEW n \in Nat
    PROVE  \E f : Solves(f, map, key, n)
<1> DEFINE R == (0..n) \X (-1..n - 1)
           P == {k \in 0..n : \E f : ProbesTo(map, key, f, n, k)}
<1>1. 0 \in P
  <2>1. PICK f : f = [range \in R |-> -(range[1] + 1)]
    OBVIOUS
  <2>2. ASSUME NEW first \in 0..n, NEW last \in -1..n - 1, last - first + 1 <= 0
        PROVE  f[<<first, last>>] = Probe(map, key, f, first, last)
    <3>1. first > last
      BY <2>2
    <3>2. f[<<first, last>>] = -(first + 1)
      BY <2>1
    <3> QED BY <3>1, <3>2 DEF Probe
  <2> QED BY <2>2 DEF ProbesTo
<1>2. ASSUME NEW k \in 1..n, k - 1 \in P PROVE k \in P
  <2>1. PICK f : ProbesTo(map, key, f, n, k - 1)
    BY <1>2
  <2>2. PICK g : g = [range \in R |-> Probe(map, key, f, range[1], range[2])]
    OBVIOUS
  <2>3. ASSUME NEW i \in 0..n, NEW j \in -1..n - 1
        PROVE  g[<<i, j>>] = Probe(map, key, f, i, j)
    BY <2>2
  <2>4. \A i \in 0..n, j \in -1..n - 1 : j - i + 1 <= k - 1 => f[<<i, j>>] = g[<<i, j>>]
    BY <2>1, <2>3 DEF ProbesTo
  <2>5. ASSUME NEW first \in 0..n, NEW last \in -1..n - 1, last - first + 1 <= k
        PROVE  g[<<first, last>>] = Probe(map, key, g, first, last)
    <3>1. PICK m \in Nat : m = k - 1 /\ m + 1 = k
      OBVIOUS
    <3>2. SameSmaller(f, g, n, m)
      BY <2>4, <3>1 DEF SameSmaller
    <3>3. last - first + 1 <= m + 1
      BY <2>5, <3>1
    <3>4. Probe(map, key, f, first, last) = Probe(map, key, g, first, last)
      BY <3>2, <3>3, AskSmaller
    <3> QED BY <2>3, <3>4
  <2>6. ProbesTo(map, key, g, n, k)
    BY <2>5 DEF ProbesTo
  <2> QED BY <2>6
<1>3. n \in P
  <2>1. \A k \in 1..n : k - 1 \in P => k \in P
    BY <1>2
  <2>2. n \in 0..n
    OBVIOUS
  <2> HIDE DEF P
  <2> QED BY <1>1, <2>1, <2>2, UpTo
<1>4. PICK f : ProbesTo(map, key, f, n, n)
  BY <1>3
<1>5. PICK g : g = [range \in R |-> f[range]]
  OBVIOUS
<1>6. \A i \in 0..n, j \in -1..n - 1 : f[<<i, j>>] = g[<<i, j>>]
  BY <1>5
<1>7. ASSUME NEW range \in R PROVE g[range] = Probe(map, key, g, range[1], range[2])
  <2>1. PICK first \in 0..n, last \in -1..n - 1 : range = <<first, last>>
    OBVIOUS
  <2>2. last - first + 1 <= n
    OBVIOUS
  <2>3. f[<<first, last>>] = Probe(map, key, f, first, last)
    BY <1>4, <2>2 DEF ProbesTo
  <2>4. last - first + 1 <= n + 1
    BY <2>2
  <2>5. Probe(map, key, f, first, last) = Probe(map, key, g, first, last)
    <3>1. SameSmaller(f, g, n, n)
      BY <1>6 DEF SameSmaller
    <3> QED BY <2>4, <3>1, AskSmaller
  <2> QED BY <1>6, <2>1, <2>3, <2>5
<1>8. g = [range \in R |-> Probe(map, key, g, range[1], range[2])]
  BY <1>5, <1>7
<1> QED BY <1>8 DEF Solves

(* and Search is one.                                                      *)
LEMMA SearchIs ==
    ASSUME NEW map, NEW key, NEW n \in Nat, n = Len(map)
    PROVE  \E f : f = Search(map, key) /\ ProbesTo(map, key, f, n, n)
<1> DEFINE Body(f) == [range \in (0..Len(map)) \X (-1..(Len(map) - 1)) |->
             LET first == range[1]
                 last  == range[2]
                 mid   == (first + last) \div 2
                 of    == map[mid + 1].key
             IN  IF first > last THEN -(first + 1)
                 ELSE IF key = of THEN mid
                 ELSE IF Precedes(key, of) THEN f[<<first, mid - 1>>]
                 ELSE f[<<mid + 1, last>>]]
<1>1. PICK f : Solves(f, map, key, n)
  BY AnswersExist
<1>2. f = Body(f)
  BY <1>1 DEF Solves, Probe
<1>3. PICK g : g = (CHOOSE h : h = Body(h))
  OBVIOUS
<1>4. g = Body(g)
  <2> HIDE DEF Body
  <2> QED BY <1>2, <1>3
<1>5. g = Search(map, key)
  BY <1>3 DEF Search
<1>6. ASSUME NEW first \in 0..n, NEW last \in -1..n - 1
      PROVE  g[<<first, last>>] = Probe(map, key, g, first, last)
  <2>1. <<first, last>> \in (0..Len(map)) \X (-1..(Len(map) - 1))
    OBVIOUS
  <2>2. g[<<first, last>>] = Body(g)[<<first, last>>]
    <3> HIDE DEF Body
    <3> QED BY <1>4
  <2> QED BY <2>1, <2>2 DEF Probe
<1> QED BY <1>5, <1>6 DEF ProbesTo

-----------------------------------------------------------------------------
(* The pairs of a map, in the order of their keys.                         *)
Pairs(V) == [key : Keys, value : V]

Sorted(map, V) ==
    /\ map \in Seq(Pairs(V))
    /\ \A i \in 1..Len(map), j \in 1..Len(map) : i < j => Precedes(map[i].key, map[j].key)

Below(map, key, p) == \A i \in 1..p : Precedes(map[i].key, key)
Above(map, key, p) == \A i \in p + 1..Len(map) : Precedes(key, map[i].key)

(* The place of a key, or where it belongs.                                *)
IsPlaceOf(v, map, key) ==
    \/ \E i \in 1..Len(map) : v = i - 1 /\ map[i].key = key
    \/ \E p \in 0..Len(map) : v = -(p + 1) /\ Below(map, key, p) /\ Above(map, key, p)

(* In a sorted map a key is found, or its place is.                        *)
LEMMA FoundIs ==
    ASSUME NEW V, NEW map, Sorted(map, V), NEW key \in Keys
    PROVE  IsPlaceOf(Found(map, key), map, key)
<1>0. PICK n \in Nat : n = Len(map) /\ map \in Seq(Pairs(V))
  BY DEF Sorted
<1>1. PICK f : f = Search(map, key) /\ ProbesTo(map, key, f, n, n)
  BY <1>0, SearchIs
<1> DEFINE P == {k \in 0..n : \A first \in 0..n, last \in -1..n - 1 :
                   first <= last + 1 /\ last - first + 1 <= k
                   /\ Below(map, key, first) /\ Above(map, key, last + 1)
                       => IsPlaceOf(f[<<first, last>>], map, key)}
<1>2. \A i \in 1..n : map[i].key \in Keys
  <2>1. \A i \in 1..n : map[i] \in Pairs(V)
    BY <1>0, ElementOfSeq
  <2> QED BY <2>1 DEF Pairs
<1>3. ASSUME NEW first \in 0..n, NEW last \in -1..n - 1
      PROVE  f[<<first, last>>] = Probe(map, key, f, first, last)
  <2>1. last - first + 1 <= n
    OBVIOUS
  <2> QED BY <1>1, <2>1 DEF ProbesTo
<1>4. 0 \in P
  <2>1. ASSUME NEW first \in 0..n, NEW last \in -1..n - 1, first <= last + 1, last - first + 1 <= 0,
               Below(map, key, first), Above(map, key, last + 1)
        PROVE  IsPlaceOf(f[<<first, last>>], map, key)
    <3>1. last + 1 = first /\ first > last /\ first \in 0..Len(map)
      BY <1>0, <2>1
    <3>2. f[<<first, last>>] = -(first + 1)
      BY <1>3, <3>1 DEF Probe
    <3> QED BY <2>1, <3>1, <3>2 DEF IsPlaceOf
  <2> QED BY <2>1
<1>5. ASSUME NEW k \in 1..n, k - 1 \in P PROVE k \in P
  <2>1. ASSUME NEW first \in 0..n, NEW last \in -1..n - 1, first <= last + 1, last - first + 1 <= k,
               Below(map, key, first), Above(map, key, last + 1)
        PROVE  IsPlaceOf(f[<<first, last>>], map, key)
    <3>0. PICK v : v = f[<<first, last>>] /\ v = Probe(map, key, f, first, last)
      BY <1>3
    <3>1. CASE first > last
      <4>1. last - first + 1 <= k - 1
        BY <3>1
      <4> QED BY <1>5, <2>1, <4>1
    <3>2. CASE first <= last
      <4>1. PICK mid \in Nat : mid = (first + last) \div 2 /\ first <= mid /\ mid <= last
        BY <3>2, MidIs
      <4>2. PICK at \in 1..n : at = mid + 1 /\ map[at].key \in Keys
        BY <1>2, <4>1
      <4>3. CASE key = map[at].key
        <5>1. v = mid
          BY <3>0, <3>2, <4>1, <4>2, <4>3 DEF Probe
        <5>2. mid = at - 1
          BY <4>2
        <5> QED BY <1>0, <3>0, <4>2, <4>3, <5>1, <5>2 DEF IsPlaceOf
      <4>4. CASE key # map[at].key /\ Precedes(key, map[at].key)
        <5>1. PICK before \in -1..n - 1 : before = mid - 1 /\ before + 1 = mid
          BY <4>1
        <5>2. v = f[<<first, before>>]
          BY <3>0, <3>2, <4>1, <4>2, <4>4, <5>1 DEF Probe
        <5>3. Above(map, key, before + 1)
          <6>1. ASSUME NEW i \in mid + 1..n PROVE Precedes(key, map[i].key)
            <7>1. CASE i = at
              BY <4>4, <7>1
            <7>2. CASE i # at
              <8>1. at < i /\ i \in 1..n
                BY <4>2, <7>2
              <8>2. Precedes(map[at].key, map[i].key)
                BY <1>0, <8>1 DEF Sorted
              <8> QED BY <1>2, <4>2, <4>4, <8>1, <8>2, Transitive
            <7> QED BY <7>1, <7>2
          <6> QED BY <1>0, <5>1, <6>1 DEF Above
        <5>4. first <= before + 1 /\ before - first + 1 <= k - 1
          BY <2>1, <4>1, <5>1
        <5> QED BY <1>5, <2>1, <3>0, <5>2, <5>3, <5>4
      <4>5. CASE key # map[at].key /\ ~Precedes(key, map[at].key)
        <5>1. PICK behind \in 0..n : behind = mid + 1
          BY <4>1
        <5>2. v = f[<<behind, last>>]
          BY <3>0, <3>2, <4>1, <4>2, <4>5, <5>1 DEF Probe
        <5>3. Below(map, key, behind)
          <6>0. Precedes(map[at].key, key)
            BY <4>2, <4>5, Total
          <6>1. ASSUME NEW i \in 1..behind PROVE Precedes(map[i].key, key)
            <7>1. CASE i = at
              BY <6>0, <7>1
            <7>2. CASE i # at
              <8>1. i < at /\ i \in 1..n
                BY <4>2, <5>1, <7>2
              <8>2. Precedes(map[i].key, map[at].key)
                BY <1>0, <8>1 DEF Sorted
              <8> QED BY <1>2, <4>2, <6>0, <8>1, <8>2, Transitive
            <7> QED BY <7>1, <7>2
          <6> QED BY <6>1 DEF Below
        <5>4. behind <= last + 1 /\ last - behind + 1 <= k - 1
          BY <2>1, <4>1, <5>1
        <5> QED BY <1>5, <2>1, <3>0, <5>2, <5>3, <5>4
      <4> QED BY <4>3, <4>4, <4>5
    <3> QED BY <3>1, <3>2
  <2> QED BY <2>1
<1>6. n \in P
  <2>1. \A k \in 1..n : k - 1 \in P => k \in P
    BY <1>5
  <2>2. n \in 0..n
    OBVIOUS
  <2> HIDE DEF P
  <2> QED BY <1>4, <2>1, <2>2, UpTo
<1>7. PICK last \in -1..n - 1 : last = n - 1 /\ last + 1 = n /\ last - 0 + 1 <= n /\ 0 <= last + 1
  OBVIOUS
<1>8. Below(map, key, 0) /\ Above(map, key, last + 1)
  BY <1>0, <1>7 DEF Below, Above
<1>9. IsPlaceOf(f[<<0, last>>], map, key)
  BY <1>6, <1>7, <1>8
<1>10. Found(map, key) = f[<<0, last>>]
  BY <1>0, <1>1, <1>7 DEF Found
<1> QED BY <1>9, <1>10

(* What an insertion makes of a sequence.                                  *)
LEMMA InsertAtElements ==
    ASSUME NEW S, NEW s \in Seq(S), NEW i \in 1..(Len(s) + 1), NEW e \in S
    PROVE  /\ InsertAt(s, i, e) \in Seq(S)
           /\ Len(InsertAt(s, i, e)) = Len(s) + 1
           /\ \A j \in 1..(Len(s) + 1) :
                  InsertAt(s, i, e)[j] = IF j < i THEN s[j]
                                         ELSE IF j = i THEN e ELSE s[j - 1]
<1> DEFINE front == SubSeq(s, 1, i - 1)
           back == SubSeq(s, i, Len(s))
           start == front \o <<e>>
<1>1. Len(s) \in Nat
  BY LenProperties
<1>2. /\ front \in Seq(S)
      /\ Len(front) = i - 1
      /\ \A j \in 1..(i - 1) : front[j] = s[j]
  BY <1>1
<1>3. /\ back \in Seq(S)
      /\ Len(back) = Len(s) - i + 1
      /\ \A j \in 1..(Len(s) - i + 1) : back[j] = s[i + j - 1]
  BY <1>1
<1>4. InsertAt(s, i, e) = start \o back
  BY DEF InsertAt
<1> HIDE DEF front, back
<1>5. /\ start \in Seq(S)
      /\ Len(start) = i
      /\ \A j \in 1..i : start[j] = IF j < i THEN s[j] ELSE e
  BY <1>2
<1> HIDE DEF start
<1>6. /\ start \o back \in Seq(S)
      /\ Len(start \o back) = Len(start) + Len(back)
      /\ \A j \in 1..(Len(start) + Len(back)) :
            (start \o back)[j] = IF j <= Len(start) THEN start[j] ELSE back[j - Len(start)]
  BY <1>3, <1>5, ConcatProperties, Zenon
<1>7. ASSUME NEW j \in 1..(Len(s) + 1)
      PROVE  (start \o back)[j] = IF j < i THEN s[j] ELSE IF j = i THEN e ELSE s[j - 1]
  <2>1. CASE j <= i
    BY <1>1, <1>3, <1>5, <1>6, <2>1
  <2>2. CASE ~(j <= i)
    <3>0. j - i \in 1..(Len(s) - i + 1) /\ i + (j - i) - 1 = j - 1
      BY <1>1, <2>2
    <3>1. PICK x \in 1..(Len(s) - i + 1) : x = j - i /\ i + x - 1 = j - 1
      BY <3>0
    <3>2. (start \o back)[j] = back[x]
      BY <1>1, <1>3, <1>5, <1>6, <2>2, <3>1
    <3> QED BY <1>3, <2>2, <3>1, <3>2
  <2> QED BY <2>1, <2>2
<1>8. Len(start) + Len(back) = Len(s) + 1
  BY <1>1, <1>3, <1>5
<1>9. PICK t : t = start \o back
  OBVIOUS
<1>10. /\ t \in Seq(S) /\ Len(t) = Len(s) + 1
       /\ \A j \in 1..(Len(s) + 1) : t[j] = IF j < i THEN s[j] ELSE IF j = i THEN e ELSE s[j - 1]
  BY <1>6, <1>7, <1>8, <1>9
<1> QED BY <1>4, <1>9, <1>10

(* What a map says of a key.                                               *)
Holds(map, key, value) == \E i \in 1..Len(map) : map[i].key = key /\ map[i].value = value
KeyIn(map, key)        == \E i \in 1..Len(map) : map[i].key = key

(* The pairs of a map.                                                     *)
LEMMA PairsAre ==
    ASSUME NEW V, NEW map, Sorted(map, V), NEW i \in 1..Len(map)
    PROVE  map[i] \in Pairs(V) /\ map[i].key \in Keys /\ map[i].value \in V
<1>1. map \in Seq(Pairs(V))
  BY DEF Sorted
<1>2. map[i] \in Pairs(V)
  BY <1>1, ElementOfSeq
<1> QED BY <1>2 DEF Pairs

(* A key has one place.                                                    *)
LEMMA PlaceIsOne ==
    ASSUME NEW V, NEW map, Sorted(map, V), NEW i \in 1..Len(map), NEW j \in 1..Len(map),
           map[i].key = map[j].key
    PROVE  i = j
<1>1. map[i].key \in Keys
  BY PairsAre
<1>2. ~Precedes(map[i].key, map[i].key)
  BY <1>1, NotItself
<1>3. i \in Int /\ j \in Int
  BY DEF Sorted
<1> QED BY <1>2, <1>3 DEF Sorted

(* Found tells the keys that are there from those that are not.            *)
LEMMA FoundOrNot ==
    ASSUME NEW V, NEW map, Sorted(map, V), NEW key \in Keys
    PROVE  \/ /\ Has(map, key) /\ KeyIn(map, key)
              /\ \E i \in 1..Len(map) : Found(map, key) = i - 1 /\ map[i].key = key
           \/ /\ ~Has(map, key) /\ ~KeyIn(map, key)
              /\ \E p \in 0..Len(map) : -Found(map, key) = p + 1 /\ Below(map, key, p) /\ Above(map, key, p)
<1>0. PICK n \in Nat : n = Len(map)
  BY DEF Sorted
<1>1. PICK v : v = Found(map, key) /\ IsPlaceOf(v, map, key)
  BY FoundIs
<1>2. CASE \E i \in 1..Len(map) : v = i - 1 /\ map[i].key = key
  <2>1. PICK i \in 1..n : v = i - 1 /\ map[i].key = key
    BY <1>0, <1>2
  <2>2. v >= 0
    BY <2>1
  <2> QED BY <1>0, <1>1, <2>1, <2>2 DEF Has, KeyIn
<1>3. CASE \E p \in 0..Len(map) : v = -(p + 1) /\ Below(map, key, p) /\ Above(map, key, p)
  <2>1. PICK p \in 0..n : v = -(p + 1) /\ Below(map, key, p) /\ Above(map, key, p)
    BY <1>0, <1>3
  <2>2. ~(v >= 0) /\ -v = p + 1
    BY <2>1
  <2>3. ~KeyIn(map, key)
    <3>1. ASSUME NEW i \in 1..n, map[i].key = key PROVE FALSE
      <4>1. Precedes(key, key)
        <5>1. CASE i <= p
          BY <2>1, <3>1, <5>1 DEF Below
        <5>2. CASE ~(i <= p)
          <6>1. i \in p + 1..Len(map)
            BY <1>0, <5>2
          <6> QED BY <2>1, <3>1, <6>1 DEF Above
        <5> QED BY <5>1, <5>2
      <4> QED BY <4>1, NotItself
    <3> QED BY <1>0, <3>1 DEF KeyIn
  <2> QED BY <1>0, <1>1, <2>1, <2>2, <2>3 DEF Has
<1> QED BY <1>1, <1>2, <1>3 DEF IsPlaceOf

(* What a map holds of a key is what a lookup returns.                     *)
LEMMA LookupIs ==
    ASSUME NEW V, NEW map, Sorted(map, V), NEW key \in Keys, NEW value, Holds(map, key, value)
    PROVE  Has(map, key) /\ ValueOf(map, key) = value
<1>1. PICK i \in 1..Len(map) : map[i].key = key /\ map[i].value = value
  BY DEF Holds
<1>2. KeyIn(map, key)
  BY <1>1 DEF KeyIn
<1>3. Has(map, key) /\ \E j \in 1..Len(map) : Found(map, key) = j - 1 /\ map[j].key = key
  BY <1>2, FoundOrNot
<1>4. PICK j \in 1..Len(map) : Found(map, key) = j - 1 /\ map[j].key = key
  BY <1>3
<1>5. i = j
  BY <1>1, <1>4, PlaceIsOne
<1>6. j - 1 + 1 = j
  BY DEF Sorted
<1> QED BY <1>1, <1>3, <1>4, <1>5, <1>6 DEF ValueOf

(* Emplace keeps what is there.                                            *)
LEMMA EmplaceIs ==
    ASSUME NEW V, NEW map, Sorted(map, V), NEW key \in Keys, NEW value \in V
    PROVE  /\ Sorted(Emplace(map, key, value), V)
           /\ KeyIn(map, key) => Emplace(map, key, value) = map
           /\ ~KeyIn(map, key) =>
                  \A k, v : Holds(Emplace(map, key, value), k, v) <=>
                                Holds(map, k, v) \/ (k = key /\ v = value)
           /\ \A k : KeyIn(Emplace(map, key, value), k) => KeyIn(map, k) \/ k = key
<1>0. PICK n \in Nat : n = Len(map) /\ map \in Seq(Pairs(V))
  BY DEF Sorted
<1>1. CASE KeyIn(map, key)
  <2>1. Has(map, key)
    BY <1>1, FoundOrNot
  <2>2. Emplace(map, key, value) = map
    BY <2>1 DEF Emplace
  <2> QED BY <1>1, <2>2
<1>2. CASE ~KeyIn(map, key)
  <2>1. /\ ~Has(map, key)
        /\ \E p \in 0..Len(map) : -Found(map, key) = p + 1 /\ Below(map, key, p) /\ Above(map, key, p)
    BY <1>2, FoundOrNot
  <2>2. PICK p \in 0..n : -Found(map, key) = p + 1 /\ Below(map, key, p) /\ Above(map, key, p)
    BY <1>0, <2>1
  <2>3. PICK at \in 1..n + 1 : at = p + 1
    OBVIOUS
  <2>4. PICK e \in Pairs(V) : e = [key |-> key, value |-> value] /\ e.key = key /\ e.value = value
    <3>1. [key |-> key, value |-> value] \in Pairs(V)
      BY DEF Pairs
    <3> QED BY <3>1
  <2>5. PICK new : new = Emplace(map, key, value)
    OBVIOUS
  <2>6. new = InsertAt(map, at, e)
    <3>1. -Found(map, key) = at
      BY <2>2, <2>3
    <3>2. new = InsertAt(map, -Found(map, key), [key |-> key, value |-> value])
      BY <2>1, <2>5 DEF Emplace
    <3> QED BY <2>4, <3>1, <3>2
  <2>7. /\ new \in Seq(Pairs(V)) /\ Len(new) = n + 1
        /\ \A j \in 1..n + 1 : new[j] = IF j < at THEN map[j] ELSE IF j = at THEN e ELSE map[j - 1]
    <3>1. at \in 1..(Len(map) + 1) /\ map \in Seq(Pairs(V)) /\ e \in Pairs(V)
      BY <1>0
    <3>2. /\ InsertAt(map, at, e) \in Seq(Pairs(V))
          /\ Len(InsertAt(map, at, e)) = Len(map) + 1
          /\ \A j \in 1..(Len(map) + 1) :
                InsertAt(map, at, e)[j] = IF j < at THEN map[j] ELSE IF j = at THEN e ELSE map[j - 1]
      BY <3>1, InsertAtElements
    <3> QED BY <1>0, <2>6, <3>2
  <2>8. ASSUME NEW i \in 1..n + 1, NEW j \in 1..n + 1, i < j PROVE Precedes(new[i].key, new[j].key)
    <3>1. CASE j < at
      <4>1. new[i] = map[i] /\ new[j] = map[j] /\ i \in 1..n /\ j \in 1..n
        BY <2>7, <2>8, <3>1
      <4> QED BY <1>0, <2>8, <4>1 DEF Sorted
    <3>2. CASE j = at
      <4>1. new[i] = map[i] /\ new[j] = e /\ i \in 1..p
        BY <2>3, <2>7, <2>8, <3>2
      <4> QED BY <2>2, <2>4, <4>1 DEF Below
    <3>3. CASE j > at
      <4>1. PICK k \in 1..n : k = j - 1 /\ new[j] = map[k]
        BY <2>7, <3>3
      <4>2. CASE i < at
        <5>1. new[i] = map[i] /\ i \in 1..n /\ i < k
          BY <2>3, <2>7, <3>3, <4>1, <4>2
        <5> QED BY <1>0, <4>1, <5>1 DEF Sorted
      <4>3. CASE i = at
        <5>1. new[i] = e
          BY <2>7, <4>3
        <5>2. k \in p + 1..Len(map)
          BY <1>0, <2>3, <3>3, <4>1
        <5> QED BY <2>2, <2>4, <4>1, <5>1, <5>2 DEF Above
      <4>4. CASE i > at
        <5>1. PICK h \in 1..n : h = i - 1 /\ new[i] = map[h]
          BY <2>7, <4>4
        <5>2. h < k
          BY <2>8, <4>1, <5>1
        <5> QED BY <1>0, <4>1, <5>1, <5>2 DEF Sorted
      <4> QED BY <4>2, <4>3, <4>4
    <3> QED BY <3>1, <3>2, <3>3
  <2>9. Sorted(new, V)
    BY <2>7, <2>8 DEF Sorted
  <2>10. ASSUME NEW j \in 1..n + 1
         PROVE  new[j] = e \/ \E i \in 1..n : new[j] = map[i]
    <3>1. CASE j < at
      <4>1. j \in 1..n
        BY <3>1
      <4> QED BY <2>7, <3>1, <4>1
    <3>2. CASE j = at
      BY <2>7, <3>2
    <3>3. CASE j > at
      <4>1. j - 1 \in 1..n
        BY <3>3
      <4> QED BY <2>7, <3>3, <4>1
    <3> QED BY <3>1, <3>2, <3>3
  <2>11. ASSUME NEW i \in 1..n PROVE \E j \in 1..n + 1 : new[j] = map[i]
    <3>1. CASE i < at
      <4>1. i \in 1..n + 1
        OBVIOUS
      <4> QED BY <2>7, <3>1, <4>1
    <3>2. CASE i >= at
      <4>1. PICK j \in 1..n + 1 : j = i + 1 /\ j - 1 = i /\ ~(j < at) /\ j # at
        BY <3>2
      <4> QED BY <2>7, <4>1
    <3> QED BY <3>1, <3>2
  <2>12. new[at] = e
    BY <2>7
  <2>13. ASSUME NEW k, NEW v PROVE Holds(new, k, v) <=> Holds(map, k, v) \/ (k = key /\ v = value)
    <3>1. ASSUME Holds(new, k, v) PROVE Holds(map, k, v) \/ (k = key /\ v = value)
      <4>1. PICK j \in 1..n + 1 : new[j].key = k /\ new[j].value = v
        BY <2>7, <3>1 DEF Holds
      <4> QED BY <1>0, <2>4, <2>10, <4>1 DEF Holds
    <3>2. ASSUME Holds(map, k, v) PROVE Holds(new, k, v)
      <4>1. PICK i \in 1..n : map[i].key = k /\ map[i].value = v
        BY <1>0, <3>2 DEF Holds
      <4> QED BY <2>7, <2>11, <4>1 DEF Holds
    <3>3. ASSUME k = key, v = value PROVE Holds(new, k, v)
      BY <2>4, <2>7, <2>12, <3>3 DEF Holds
    <3> QED BY <3>1, <3>2, <3>3
  <2>14. ASSUME NEW k, KeyIn(new, k) PROVE KeyIn(map, k) \/ k = key
    <3>1. PICK j \in 1..n + 1 : new[j].key = k
      BY <2>7, <2>14 DEF KeyIn
    <3> QED BY <1>0, <2>4, <2>10, <3>1 DEF KeyIn
  <2> QED BY <1>2, <2>5, <2>9, <2>13, <2>14
<1> QED BY <1>1, <1>2

-----------------------------------------------------------------------------
(* Pairs put into a map: of a key, the first that is said counts.          *)
Says(pairs, i, key) == Len(pairs[i]) = 2 /\ pairs[i][1] = key

SaysFirst(pairs, i, key) == Says(pairs, i, key) /\ \A j \in 1..i - 1 : ~Says(pairs, j, key)

PairsOver(pairs, V) ==
    \A i \in 1..Len(pairs) : Len(pairs[i]) = 2 => pairs[i][1] \in Keys /\ pairs[i][2] \in V

(* What a map says after n of the pairs.                                   *)
Told(map, pairs, n) ==
    /\ \A i \in 1..n, key \in Keys : SaysFirst(pairs, i, key) => Holds(map, key, pairs[i][2])
    /\ \A key : KeyIn(map, key) => \E i \in 1..n : Says(pairs, i, key)

Maps(V) == {map \in Seq(Pairs(V)) : Sorted(map, V)}

(* An empty map is sorted and has been told nothing.                       *)
LEMMA NoPairs ==
    ASSUME NEW V
    PROVE  <<>> \in Maps(V) /\ \A pairs : Told(<<>>, pairs, 0)
<1>1. <<>> \in Seq(Pairs(V)) /\ Len(<<>>) = 0
  BY EmptySeq
<1>2. Sorted(<<>>, V)
  BY <1>1 DEF Sorted
<1>3. \A key : ~KeyIn(<<>>, key)
  BY <1>1 DEF KeyIn
<1> QED BY <1>1, <1>2, <1>3 DEF Maps, Told

(* What EmplaceAll makes of one pair.                                      *)
Put(map, pair) == IF Len(pair) = 2 THEN Emplace(map, pair[1], pair[2]) ELSE map

(* A pair more, and the map has been told one pair more.                   *)
LEMMA PutIs ==
    ASSUME NEW V, NEW pairs, PairsOver(pairs, V), NEW n \in 1..Len(pairs), NEW map \in Maps(V),
           NEW m \in Nat, m = n - 1
    PROVE  /\ Put(map, pairs[n]) \in Maps(V)
           /\ Told(map, pairs, m) => Told(Put(map, pairs[n]), pairs, n)
<1>0. Sorted(map, V)
  BY DEF Maps
<1>1. CASE Len(pairs[n]) # 2
  <2>1. Put(map, pairs[n]) = map
    BY <1>1 DEF Put
  <2>2. ASSUME Told(map, pairs, m) PROVE Told(map, pairs, n)
    <3>1. ASSUME NEW i \in 1..n, NEW key \in Keys, SaysFirst(pairs, i, key)
          PROVE  Holds(map, key, pairs[i][2])
      <4>1. i # n
        BY <1>1, <3>1 DEF SaysFirst, Says
      <4>2. i \in 1..m
        BY <4>1
      <4> QED BY <2>2, <3>1, <4>2 DEF Told
    <3>2. \A i \in 1..m : i \in 1..n
      OBVIOUS
    <3> QED BY <2>2, <3>1, <3>2 DEF Told
  <2> QED BY <2>1, <2>2
<1>2. CASE Len(pairs[n]) = 2
  <2>1. PICK key \in Keys, value \in V : key = pairs[n][1] /\ value = pairs[n][2]
    BY <1>2 DEF PairsOver
  <2>2. PICK new : new = Emplace(map, key, value)
    OBVIOUS
  <2>3. Put(map, pairs[n]) = new
    BY <1>2, <2>1, <2>2 DEF Put
  <2>4. Sorted(new, V)
    BY <1>0, <2>2, EmplaceIs
  <2>5. new \in Maps(V)
    BY <2>4 DEF Sorted, Maps
  <2>6. /\ KeyIn(map, key) => new = map
        /\ ~KeyIn(map, key) =>
               \A k, v : Holds(new, k, v) <=> Holds(map, k, v) \/ (k = key /\ v = value)
        /\ \A k : KeyIn(new, k) => KeyIn(map, k) \/ k = key
    BY <1>0, <2>2, EmplaceIs
  <2>7. ASSUME Told(map, pairs, m) PROVE Told(new, pairs, n)
    <3>1. ASSUME NEW i \in 1..n, NEW k \in Keys, SaysFirst(pairs, i, k)
          PROVE  Holds(new, k, pairs[i][2])
      <4>1. CASE i = n
        <5>1. k = key
          BY <2>1, <3>1, <4>1 DEF SaysFirst, Says
        <5>2. ~KeyIn(map, key)
          <6>1. ASSUME NEW j \in 1..m, Says(pairs, j, k) PROVE FALSE
            <7>1. j \in 1..i - 1
              BY <4>1
            <7> QED BY <3>1, <6>1, <7>1 DEF SaysFirst
          <6> QED BY <2>7, <5>1, <6>1 DEF Told
        <5> QED BY <2>1, <2>6, <4>1, <5>1, <5>2
      <4>2. CASE i # n
        <5>1. i \in 1..m
          BY <4>2
        <5>2. Holds(map, k, pairs[i][2])
          BY <2>7, <3>1, <5>1 DEF Told
        <5> QED BY <2>6, <5>2
      <4> QED BY <4>1, <4>2
    <3>2. ASSUME NEW k, KeyIn(new, k) PROVE \E i \in 1..n : Says(pairs, i, k)
      <4>1. CASE KeyIn(map, k)
        <5>1. PICK i \in 1..m : Says(pairs, i, k)
          BY <2>7, <4>1 DEF Told
        <5>2. i \in 1..n
          OBVIOUS
        <5> QED BY <5>1, <5>2
      <4>2. CASE k = key
        <5>1. Says(pairs, n, k)
          BY <1>2, <2>1, <4>2 DEF Says
        <5>2. n \in 1..n
          OBVIOUS
        <5> QED BY <5>1, <5>2
      <4> QED BY <2>6, <3>2, <4>1, <4>2
    <3> QED BY <3>1, <3>2 DEF Told
  <2> QED BY <2>3, <2>5, <2>7
<1> QED BY <1>1, <1>2

(* So it is with all of the pairs.                                         *)
LEMMA EmplaceAllIs ==
    ASSUME NEW V, NEW pairs, PairsOver(pairs, V), NEW n \in Nat, n = Len(pairs)
    PROVE  Sorted(EmplaceAll(<<>>, pairs), V) /\ Told(EmplaceAll(<<>>, pairs), pairs, n)
<1> DEFINE Body(f) == [i \in 0..Len(pairs) |->
             IF i = 0 THEN <<>>
             ELSE IF Len(pairs[i]) = 2 THEN Emplace(f[i - 1], pairs[i][1], pairs[i][2])
             ELSE f[i - 1]]
           step == [i \in 1..n |-> [map \in Maps(V) |-> Put(map, pairs[i])]]
<1>1. <<>> \in Maps(V)
  BY NoPairs
<1>2. step \in [1..n -> [Maps(V) -> Maps(V)]]
  <2>1. ASSUME NEW i \in 1..n, NEW map \in Maps(V) PROVE Put(map, pairs[i]) \in Maps(V)
    <3>1. PICK m \in Nat : m = i - 1
      OBVIOUS
    <3>2. i \in 1..Len(pairs)
      OBVIOUS
    <3> QED BY <3>1, <3>2, PutIs
  <2> QED BY <2>1
<1>3. PICK f : IsFold(f, Maps(V), <<>>, n, step)
  <2> HIDE DEF step
  <2> QED BY <1>1, <1>2, FoldIs
<1>4. \A i \in 1..n : f[i] = Put(f[i - 1], pairs[i])
  <2>1. ASSUME NEW i \in 1..n PROVE f[i] = Put(f[i - 1], pairs[i])
    <3>1. i - 1 \in 0..n
      OBVIOUS
    <3>2. f[i - 1] \in Maps(V)
      BY <1>3, <3>1 DEF IsFold
    <3>3. step[i][f[i - 1]] = Put(f[i - 1], pairs[i])
      BY <3>2
    <3>4. f[i] = step[i][f[i - 1]]
      <4> HIDE DEF step
      <4> QED BY <1>3 DEF IsFold
    <3> QED BY <3>3, <3>4
  <2> QED BY <2>1
<1>41. f \in [0..n -> Maps(V)] /\ f[0] = <<>>
  <2> HIDE DEF step
  <2> QED BY <1>3 DEF IsFold
<1>5. f = Body(f)
  <2>1. ASSUME NEW i \in 0..n PROVE f[i] = Body(f)[i]
    <3>1. CASE i = 0
      BY <1>41, <3>1
    <3>2. CASE i # 0
      <4>1. i \in 1..n
        BY <3>2
      <4> QED BY <1>4, <3>2, <4>1 DEF Put
    <3> QED BY <3>1, <3>2
  <2>2. DOMAIN Body(f) = 0..n /\ Body(f) = [i \in 0..n |-> Body(f)[i]]
    OBVIOUS
  <2>3. f = [i \in 0..n |-> f[i]]
    BY <1>41
  <2> HIDE DEF Body
  <2> QED BY <2>1, <2>2, <2>3
<1>6. PICK after : after = (CHOOSE g : g = Body(g))
  OBVIOUS
<1>7. after = Body(after)
  <2> HIDE DEF Body
  <2> QED BY <1>5, <1>6
<1>8. EmplaceAll(<<>>, pairs) = after[n]
  BY <1>6 DEF EmplaceAll
<1>9. \A i \in 1..n : after[i] = Put(after[i - 1], pairs[i])
  <2>1. ASSUME NEW i \in 1..n PROVE after[i] = Put(after[i - 1], pairs[i])
    <3>1. i \in 0..Len(pairs) /\ i # 0
      OBVIOUS
    <3> QED BY <1>7, <3>1 DEF Put
  <2> QED BY <2>1
<1>10. after[0] = <<>>
  <2>1. 0 \in 0..Len(pairs)
    OBVIOUS
  <2> QED BY <1>7, <2>1
<1> DEFINE P == {i \in 0..n : after[i] \in Maps(V) /\ Told(after[i], pairs, i)}
<1>11. 0 \in P
  BY <1>10, NoPairs
<1>12. ASSUME NEW i \in 1..n, i - 1 \in P PROVE i \in P
  <2>1. PICK m \in Nat : m = i - 1 /\ after[m] \in Maps(V) /\ Told(after[m], pairs, m)
    BY <1>12
  <2>2. after[i] = Put(after[m], pairs[i])
    BY <1>9, <2>1
  <2>3. i \in 1..Len(pairs) /\ i \in 0..n
    OBVIOUS
  <2>4. after[i] \in Maps(V) /\ Told(after[i], pairs, i)
    BY <2>1, <2>2, <2>3, PutIs
  <2> QED BY <2>3, <2>4
<1>13. n \in P
  <2>1. \A i \in 1..n : i - 1 \in P => i \in P
    BY <1>12
  <2>2. n \in 0..n
    OBVIOUS
  <2> HIDE DEF P
  <2> QED BY <1>11, <2>1, <2>2, UpTo
<1> QED BY <1>8, <1>13 DEF Maps

(* What is said first of a key is found.                                   *)
LEMMA FirstIsFound ==
    ASSUME NEW V, NEW pairs, NEW n \in Nat, n = Len(pairs), PairsOver(pairs, V),
           NEW i \in 1..n, NEW key \in Keys, SaysFirst(pairs, i, key)
    PROVE  /\ Has(EmplaceAll(<<>>, pairs), key)
           /\ ValueOf(EmplaceAll(<<>>, pairs), key) = pairs[i][2]
<1>1. PICK map : map = EmplaceAll(<<>>, pairs)
  OBVIOUS
<1>2. Sorted(map, V) /\ Told(map, pairs, n)
  BY <1>1, EmplaceAllIs
<1>3. Holds(map, key, pairs[i][2])
  BY <1>2 DEF Told
<1> QED BY <1>1, <1>2, <1>3, LookupIs

(* The least and the greatest element of a set of numbers.                 *)
LEMMA LeastIs ==
    ASSUME NEW S \in SUBSET Nat, S # {}
    PROVE  Min(S) \in S /\ \A y \in S : Min(S) <= y
<1>1. PICK x \in S : \A y \in S : x <= y
  BY LeastElement
<1> QED BY <1>1 DEF Min

LEMMA MostIs ==
    ASSUME NEW n \in Nat, NEW S \in SUBSET (1..n), S # {}
    PROVE  Max(S) \in S /\ \A y \in S : y <= Max(S)
<1> DEFINE behind == {n - y : y \in S}
<1>1. behind \in SUBSET Nat /\ behind # {}
  <2>1. ASSUME NEW y \in S PROVE n - y \in Nat
    <3>1. y \in 1..n
      OBVIOUS
    <3> QED BY <3>1
  <2> QED BY <2>1
<1>2. PICK z \in behind : \A y \in behind : z <= y
  <2> HIDE DEF behind
  <2> QED BY <1>1, LeastElement
<1>3. PICK x \in S : z = n - x
  BY <1>2
<1>4. ASSUME NEW y \in S PROVE x >= y
  <2>1. n - y \in behind /\ y \in Int /\ x \in Int
    BY <1>3
  <2> QED BY <1>2, <1>3, <2>1
<1>5. Max(S) \in S /\ \A y \in S : Max(S) >= y
  BY <1>3, <1>4 DEF Max
<1> QED BY <1>5

(* What the client says first of a key is what counts.                     *)
LEMMA SaidFirstIs ==
    ASSUME NEW n \in Nat, NEW pairs, DOMAIN pairs = 1..n, NEW key, Said(pairs, key) # {}
    PROVE  \E i \in 1..n : SaysFirst(pairs, i, key) /\ SaidFirst(pairs, key) = pairs[i][2]
<1>1. PICK S : S = Said(pairs, key)
  OBVIOUS
<1>2. S \in SUBSET (1..n) /\ \A i \in 1..n : i \in S <=> Says(pairs, i, key)
  BY <1>1 DEF Said, Says
<1>3. PICK i : i = Min(S)
  OBVIOUS
<1>4. S \in SUBSET Nat /\ S # {}
  BY <1>1, <1>2
<1>5. i \in S /\ \A y \in S : i <= y
  BY <1>3, <1>4, LeastIs
<1>6. ASSUME NEW j \in 1..i - 1 PROVE ~Says(pairs, j, key)
  <2>1. j \in 1..n /\ ~(i <= j)
    BY <1>2, <1>5
  <2> QED BY <1>2, <1>5, <2>1
<1>7. SaysFirst(pairs, i, key)
  BY <1>2, <1>5, <1>6 DEF SaysFirst
<1>8. SaidFirst(pairs, key) = pairs[i][2]
  BY <1>1, <1>3 DEF SaidFirst
<1> QED BY <1>2, <1>5, <1>7, <1>8

-----------------------------------------------------------------------------
(* What trim leaves of the value of a header.                              *)
LEMMA SubSeqOfText ==
    ASSUME NEW n \in Nat, NEW a \in 1..n, NEW b \in a..n, NEW s \in Text, n <= Len(s)
    PROVE  /\ SubSeq(s, a, b) \in Text /\ Len(SubSeq(s, a, b)) = b - a + 1
           /\ \A i \in 1..b - a + 1 : SubSeq(s, a, b)[i] = s[a + i - 1]
<1>1. \A i \in a..b : s[i] \in Char
  <2>1. s \in Seq(Char) /\ Len(s) \in Nat
    BY DEF Text
  <2>2. ASSUME NEW i \in a..b PROVE i \in 1..Len(s)
    BY <2>1
  <2> QED BY <2>1, <2>2, ElementOfSeq
<1>2. a \in Int /\ b \in Int /\ a <= b
  OBVIOUS
<1>3. /\ SubSeq(s, a, b) \in Seq(Char)
      /\ Len(SubSeq(s, a, b)) = IF a <= b THEN b - a + 1 ELSE 0
      /\ \A i \in 1..b - a + 1 : SubSeq(s, a, b)[i] = s[a + i - 1]
  BY <1>1, <1>2, SubSeqProperties
<1> QED BY <1>2, <1>3 DEF Text

(* The value with its carriage return, trimmed, is within the value.       *)
LEMMA TrimWithin ==
    ASSUME NEW v \in Text, ~(Range(v) \subseteq Blank)
    PROVE  Within(Trim(Append(v, "CR")), v)
<1>1. PICK n \in Nat : n = Len(v) /\ DOMAIN v = 1..n
  BY LenProperties DEF Text
<1>2. PICK w \in Text : w = Append(v, "CR")
  <2>1. "CR" \in Char
    BY DEF Char, Blank
  <2> QED BY <2>1, PartsAppended
<1>3. w # None /\ DOMAIN w = 1..n + 1 /\ Len(w) = n + 1 /\ w[n + 1] = "CR" /\ \A i \in 1..n : w[i] = v[i]
  <2>1. /\ Append(v, "CR") # << >> /\ Len(Append(v, "CR")) = Len(v) + 1
        /\ \A i \in 1..Len(v) : Append(v, "CR")[i] = v[i]
        /\ Append(v, "CR")[Len(v) + 1] = "CR"
    <3>1. v \in Seq(Char) /\ "CR" \in Char
      BY DEF Text, Char, Blank
    <3> QED BY <3>1, AppendProperties
  <2>2. DOMAIN w = 1..Len(w)
    BY LenProperties DEF Text
  <2>3. w # None /\ Len(w) = n + 1 /\ w[n + 1] = "CR" /\ \A i \in 1..n : w[i] = v[i]
    BY <1>1, <1>2, <2>1 DEF None
  <2> QED BY <2>2, <2>3
<1>4. PICK kept : kept = {i \in DOMAIN w : w[i] \notin Blank}
  OBVIOUS
<1>5. kept \in SUBSET (1..n) /\ \A i \in 1..n : i \in kept <=> v[i] \notin Blank
  <2>1. "CR" \in Blank
    BY DEF Blank
  <2> QED BY <1>3, <1>4, <2>1
<1>6. kept # {}
  <2>1. PICK c \in Range(v) : c \notin Blank
    OBVIOUS
  <2>2. \E i \in DOMAIN v : c = v[i]
    BY <2>1 DEF Range
  <2>2a. PICK i \in DOMAIN v : c = v[i]
    BY <2>2
  <2>3. i \in 1..n /\ v[i] \notin Blank
    BY <1>1, <2>1, <2>2a
  <2> QED BY <1>5, <2>3
<1>7. PICK a, b : a = Min(kept) /\ b = Max(kept)
  OBVIOUS
<1>8. a \in kept /\ \A y \in kept : a <= y
  <2>1. kept \in SUBSET Nat
    BY <1>5
  <2> QED BY <1>6, <1>7, <2>1, LeastIs
<1>9. b \in kept /\ \A y \in kept : y <= b
  BY <1>5, <1>6, <1>7, MostIs
<1>10. a \in 1..n /\ b \in a..n
  BY <1>5, <1>8, <1>9
<1>11. PICK s \in Text : s = SubSeq(w, a, b) /\ Len(s) = b - a + 1 /\ \A i \in 1..b - a + 1 : s[i] = w[a + i - 1]
  <2>1. n <= Len(w)
    BY <1>3
  <2> QED BY <1>10, <2>1, SubSeqOfText
<1>12. PICK t \in Text : t = SubSeq(v, a, b) /\ Len(t) = b - a + 1 /\ \A i \in 1..b - a + 1 : t[i] = v[a + i - 1]
  <2>1. n <= Len(v)
    BY <1>1
  <2> QED BY <1>10, <2>1, SubSeqOfText
<1>13. s = t
  <2>1. ASSUME NEW i \in 1..b - a + 1 PROVE s[i] = t[i]
    <3>1. a + i - 1 \in 1..n
      BY <1>10
    <3> QED BY <1>3, <1>11, <1>12, <3>1
  <2>2. \A i \in 1..Len(s) : s[i] = t[i]
    BY <1>11, <2>1
  <2> QED BY <1>11, <1>12, <2>2, SeqEqual DEF Text
<1>14. Trim(w) = s
  BY <1>3, <1>4, <1>6, <1>7, <1>11 DEF Trim
<1>15. t[1] = v[a] /\ t[Len(t)] = v[b] /\ Len(t) # 0
  <2>1. PICK m \in Nat \ {0} : m = b - a + 1
    BY <1>10
  <2>2. Len(t) = m /\ 1 \in 1..m /\ m \in 1..m /\ a + 1 - 1 = a /\ a + m - 1 = b
    BY <1>10, <1>12, <2>1
  <2>3. \A i \in 1..m : t[i] = v[a + i - 1]
    BY <1>12, <2>1
  <2>4. t[1] = v[a + 1 - 1] /\ t[m] = v[a + m - 1]
    BY <2>2, <2>3
  <2> QED BY <2>2, <2>4
<1>16. t # None /\ Head(t) = t[1] /\ Last(t) = t[Len(t)]
  <2>1. Len(<<>>) = 0
    OBVIOUS
  <2> QED BY <1>15, <2>1 DEF None, Last, Head
<1>17. v[a] \notin Blank /\ v[b] \notin Blank
  BY <1>5, <1>8, <1>9, <1>10
<1>18. ASSUME NEW k \in 1..n, k < a \/ k > b PROVE v[k] \in Blank
  <2>1. k \notin kept
    BY <1>8, <1>9, <1>10, <1>18
  <2> QED BY <1>5, <2>1
<1>19. \E i, j \in DOMAIN v : t = SubSeq(v, i, j) /\ \A k \in DOMAIN v : k < i \/ k > j => v[k] \in Blank
  <2>1. a \in DOMAIN v /\ b \in DOMAIN v
    BY <1>1, <1>10
  <2> QED BY <1>1, <1>12, <1>18, <2>1
<1> QED BY <1>2, <1>13, <1>14, <1>15, <1>16, <1>17, <1>19 DEF Within

(* A key that has no blanks is left alone.                                 *)
LEMMA TrimOfKey ==
    ASSUME NEW name \in Keys, name # None
    PROVE  name \in Text /\ Trim(name) = name
<1>1. Range(Words) \subseteq Char /\ Range(Words) \cap Blank = {}
  <2>1. Range(Words) \subseteq Char
    <3>1. DOMAIN Words = 1..Len(Words) /\ Words \in [1..Len(Words) -> STRING]
      BY WordsAssumption, LenProperties
    <3> QED BY <3>1 DEF Range, Char
  <2> QED BY <2>1, TextsAssumption
<1>2. name \in Text
  <2>1. PICK n \in Nat : n = Len(name) /\ DOMAIN name = 1..n
    BY LenProperties DEF Keys
  <2>2. \A i \in 1..n : name[i] \in Char
    BY <1>1, <2>1, ElementOfSeq DEF Keys
  <2> QED BY <2>1, <2>2, SeqDef DEF Text, Keys
<1>3. PICK n \in Nat \ {0} : n = Len(name) /\ DOMAIN name = 1..n
  <2>1. Len(name) \in Nat \ {0}
    BY EmptySeq DEF Keys, None
  <2> QED BY <2>1, LenProperties DEF Keys
<1>4. \A i \in 1..n : name[i] \notin Blank
  BY <1>1, <1>3, ElementOfSeq DEF Keys
<1>5. {i \in DOMAIN name : name[i] \notin Blank} = 1..n
  BY <1>3, <1>4
<1>6. Min(1..n) = 1 /\ Max(1..n) = n
  <2>1. Min(1..n) \in 1..n /\ \A y \in 1..n : Min(1..n) <= y
    <3>1. 1..n \in SUBSET Nat /\ 1..n # {}
      BY <1>3
    <3> QED BY <3>1, LeastIs
  <2>2. Max(1..n) \in 1..n /\ \A y \in 1..n : y <= Max(1..n)
    <3>1. 1..n \in SUBSET (1..n) /\ 1..n # {}
      BY <1>3
    <3> QED BY <3>1, MostIs
  <2>3. PICK a \in 1..n, b \in 1..n : a = Min(1..n) /\ b = Max(1..n)
    BY <2>1, <2>2
  <2>4. 1 \in 1..n /\ n \in 1..n
    BY <1>3
  <2>5. a <= 1 /\ n <= b
    BY <2>1, <2>2, <2>3, <2>4
  <2> QED BY <2>3, <2>5
<1>7. Trim(name) = SubSeq(name, 1, n)
  <2>1. PICK kept : kept = {i \in DOMAIN name : name[i] \notin Blank}
    OBVIOUS
  <2>2. kept # {} /\ Min(kept) = 1 /\ Max(kept) = n
    BY <1>3, <1>5, <1>6, <2>1
  <2> QED BY <2>1, <2>2 DEF Trim
<1>8. SubSeq(name, 1, n) = name
  <2>1. 1 \in 1..n /\ n \in 1..n /\ n <= Len(name)
    BY <1>3
  <2>2. /\ SubSeq(name, 1, n) \in Text /\ Len(SubSeq(name, 1, n)) = n - 1 + 1
        /\ \A i \in 1..n - 1 + 1 : SubSeq(name, 1, n)[i] = name[1 + i - 1]
    BY <1>2, <2>1, SubSeqOfText
  <2>3. PICK s \in Text : s = SubSeq(name, 1, n)
    BY <2>2
  <2>4. Len(s) = n /\ \A i \in 1..n : s[i] = name[i]
    BY <2>2, <2>3
  <2> QED BY <1>2, <1>3, <2>3, <2>4, SeqEqual DEF Text
<1> QED BY <1>2, <1>7, <1>8

Separators == {" ", "LF", "CR", "?", "&", "=", ":"}

(* Keys are texts and none of the separators is in them.                   *)
LEMMA KeysAreFree ==
    ASSUME NEW key \in Keys, NEW c \in Separators
    PROVE  key \in Text /\ Without(key, c)
<1>1. Range(Words) \subseteq Char /\ c \notin Range(Words)
  <2>1. DOMAIN Words = 1..Len(Words) /\ Words \in [1..Len(Words) -> STRING]
    BY WordsAssumption, LenProperties
  <2>2. Range(Words) \subseteq Char
    BY <2>1 DEF Range, Char
  <2> QED BY <2>2, TextsAssumption DEF Separators, Blank
<1>2. PICK n \in Nat : n = Len(key) /\ DOMAIN key = 1..n
  BY LenProperties DEF Keys
<1>3. \A i \in 1..n : key[i] \in Char /\ key[i] # c
  BY <1>1, <1>2, ElementOfSeq DEF Keys
<1>4. key \in Text
  <2>1. \A i \in 1..n : key[i] \in Char
    BY <1>3
  <2> QED BY <1>2, <2>1, SeqDef DEF Text, Keys
<1> QED BY <1>2, <1>3, <1>4 DEF Without

LEMMA SeparatorsAre ==
    Separators \subseteq Char
BY DEF Separators, Char, Blank

(* Sequences of texts, each of them joined.                                *)
AllJoined(pairs, separator) == [i \in DOMAIN pairs |-> Join(pairs[i], separator)]

(* Each of them is a text,                                                 *)
LEMMA AllJoinedAre ==
    ASSUME NEW n \in Nat, NEW pairs \in Seq(Seq(Text)), n = Len(pairs), NEW separator \in Char
    PROVE  /\ AllJoined(pairs, separator) \in Seq(Text)
           /\ Len(AllJoined(pairs, separator)) = n
           /\ \A i \in 1..n : AllJoined(pairs, separator)[i] = Join(pairs[i], separator)
<1>1. DOMAIN pairs = 1..n
  BY LenProperties
<1>2. PICK texts : texts = AllJoined(pairs, separator)
  OBVIOUS
<1>3. /\ DOMAIN texts = 1..n /\ texts = [i \in 1..n |-> Join(pairs[i], separator)]
      /\ \A i \in 1..n : texts[i] = Join(pairs[i], separator)
  BY <1>1, <1>2 DEF AllJoined
<1>4. \A i \in 1..n : texts[i] \in Text
  <2>1. ASSUME NEW i \in 1..n PROVE Join(pairs[i], separator) \in Text
    <3>1. PICK all \in Seq(Text) : all = pairs[i]
      BY ElementOfSeq
    <3> QED BY <3>1, JoinIsText
  <2> QED BY <1>3, <2>1
<1>5. texts \in [1..n -> Text]
  BY <1>3, <1>4
<1>6. texts \in Seq(Text)
  <2>1. texts \in UNION {[1..k -> Text] : k \in Nat}
    BY <1>5
  <2> QED BY <2>1, SeqDef
<1>7. Len(texts) = n
  BY <1>3, <1>6, LenProperties
<1> QED BY <1>2, <1>3, <1>6, <1>7

(* and has no character that none of its parts has.                        *)
LEMMA AllJoinedAreFree ==
    ASSUME NEW n \in Nat, NEW pairs \in Seq(Seq(Text)), n = Len(pairs), NEW separator \in Char,
           NEW c, c # separator, \A i \in 1..n : AllWithout(pairs[i], c)
    PROVE  AllWithout(AllJoined(pairs, separator), c)
<1>1. PICK texts \in Seq(Text) : texts = AllJoined(pairs, separator) /\ Len(texts) = n
                                 /\ \A i \in 1..n : texts[i] = Join(pairs[i], separator)
  BY AllJoinedAre
<1>2. ASSUME NEW i \in 1..n PROVE Without(texts[i], c)
  <2>1. PICK all \in Seq(Text) : all = pairs[i]
    BY ElementOfSeq
  <2>2. AllWithout(all, c)
    BY <2>1
  <2>3. Without(Join(all, separator), c)
    BY <2>2, JoinIsFree
  <2> QED BY <1>1, <2>1, <2>3
<1> QED BY <1>1, <1>2 DEF AllWithout

-----------------------------------------------------------------------------
(* The parameters.                                                         *)
LEMMA ParamsAre ==
    ASSUME NEW params \in Seq(Params), NEW n \in Nat, n = Len(params)
    PROVE  /\ params \in Seq(Seq(Text))
           /\ \A i \in 1..n, c \in Separators : AllWithout(params[i], c)
           /\ \A i \in 1..n : params[i] \in Seq(Keys)
<1>1. DOMAIN params = 1..n /\ params \in [1..n -> Params]
  BY LenProperties
<1>2. ASSUME NEW i \in 1..n PROVE params[i] \in Seq(Keys) /\ params[i] \in Seq(Text)
                                  /\ \A c \in Separators : AllWithout(params[i], c)
  <2>1. PICK parts \in Seq(Keys) : parts = params[i]
    <3>1. params[i] \in Params
      BY <1>1
    <3> QED BY <3>1, ClientAssumption DEF Keys
  <2>2. PICK m \in Nat : m = Len(parts) /\ DOMAIN parts = 1..m
    BY LenProperties
  <2>3. ASSUME NEW j \in 1..m PROVE parts[j] \in Text /\ \A c \in Separators : Without(parts[j], c)
    <3>1. PICK key \in Keys : key = parts[j]
      BY <2>2, ElementOfSeq
    <3>2. key \in Text
      <4>1. " " \in Separators
        BY DEF Separators
      <4> QED BY <4>1, KeysAreFree
    <3>3. \A c \in Separators : Without(key, c)
      BY KeysAreFree
    <3> QED BY <3>1, <3>2, <3>3
  <2>4. parts \in Seq(Text)
    <3>1. \A j \in 1..m : parts[j] \in Text
      BY <2>3
    <3>2. parts \in [1..m -> Text]
      <4>1. parts \in [1..m -> Keys]
        BY <2>2, LenProperties
      <4> QED BY <3>1, <4>1
    <3> QED BY <3>2, SeqDef
  <2>5. \A c \in Separators : AllWithout(parts, c)
    BY <2>2, <2>3 DEF AllWithout
  <2> QED BY <2>1, <2>4, <2>5
<1>3. params \in Seq(Seq(Text))
  <2>1. params \in [1..n -> Seq(Text)]
    BY <1>1, <1>2
  <2> QED BY <2>1, SeqDef
<1> QED BY <1>2, <1>3

(* The text behind the question mark.                                      *)
ParamsText(params) == Join(AllJoined(params, "="), "&")

(* It has nothing in it that would end it before its end.                  *)
LEMMA ParamsTextIs ==
    ASSUME NEW params \in Seq(Params)
    PROVE  ParamsText(params) \in Text /\ \A c \in {" ", "LF", "?"} : Without(ParamsText(params), c)
<1>1. PICK n \in Nat : n = Len(params)
  BY LenProperties
<1>2. params \in Seq(Seq(Text)) /\ \A i \in 1..n, c \in Separators : AllWithout(params[i], c)
  BY <1>1, ParamsAre
<1>3. PICK equals \in Char, amp \in Char : equals = "=" /\ amp = "&"
  BY DEF Char
<1>4. PICK pairs \in Seq(Seq(Text)) : pairs = params /\ Len(pairs) = n
  BY <1>1, <1>2
<1>5. PICK texts \in Seq(Text) : texts = AllJoined(pairs, equals)
  BY <1>4, AllJoinedAre
<1>6. Join(texts, amp) \in Text
  BY JoinIsText
<1>7. ASSUME NEW c \in {" ", "LF", "?"} PROVE Without(Join(texts, amp), c)
  <2>1. c # equals /\ c # amp /\ c \in Separators
    BY <1>3 DEF Separators
  <2>2. \A i \in 1..n : AllWithout(pairs[i], c)
    BY <1>2, <1>4, <2>1
  <2>3. AllWithout(texts, c)
    BY <1>4, <1>5, <2>1, <2>2, AllJoinedAreFree
  <2> QED BY <2>1, <2>3, JoinIsFree
<1> QED BY <1>3, <1>4, <1>5, <1>6, <1>7 DEF ParamsText

(* What is said first of a key in the parameters is what a handler finds.  *)
LEMMA ParamsAreRead ==
    ASSUME NEW params \in Seq(Params), NEW key \in Keys, Said(params, key) # {},
           NEW map, map = EmplaceAll(<<>>, PairsOf(Split(ParamsText(params), "&"), "="))
    PROVE  Has(map, key) /\ ValueOf(map, key) = SaidFirst(params, key)
<1>1. PICK n \in Nat : n = Len(params) /\ DOMAIN params = 1..n
  BY LenProperties
<1>2. /\ params \in Seq(Seq(Text)) /\ \A i \in 1..n, c \in Separators : AllWithout(params[i], c)
      /\ \A i \in 1..n : params[i] \in Seq(Keys)
  BY <1>1, ParamsAre
<1>3. PICK equals \in Char, amp \in Char : equals = "=" /\ amp = "&" /\ equals # amp
                                           /\ equals \in Separators /\ amp \in Separators
  BY DEF Char, Separators
<1>4. PICK pairs \in Seq(Seq(Text)) : pairs = params /\ Len(pairs) = n
  BY <1>1, <1>2
<1>5. PICK texts \in Seq(Text) : texts = AllJoined(pairs, equals) /\ Len(texts) = n
                                 /\ \A j \in 1..n : texts[j] = Join(pairs[j], equals)
  BY <1>4, AllJoinedAre
<1>6. PICK i \in 1..n : SaysFirst(params, i, key) /\ SaidFirst(params, key) = params[i][2]
  BY <1>1, SaidFirstIs
<1>7. ASSUME NEW j \in 1..n
      PROVE  Split(texts[j], equals) = pairs[j] \/ (Split(texts[j], equals) = <<>> /\ pairs[j] = <<None>>)
  <2>1. PICK all \in Seq(Text) : all = pairs[j]
    BY <1>4, ElementOfSeq
  <2>2. AllWithout(all, equals)
    BY <1>2, <1>3, <1>4, <2>1
  <2>3. Split(Join(all, equals), equals) = all \/ (Split(Join(all, equals), equals) = <<>> /\ all = <<None>>)
    BY <2>2, SplitOfJoin
  <2> QED BY <1>5, <2>1, <2>3
<1>8. texts # <<None>>
  <2>1. Len(pairs[i]) = 2
    BY <1>4, <1>6 DEF SaysFirst, Says
  <2>2. Len(<<None>>) = 1 /\ Len(<<>>) = 0
    OBVIOUS
  <2>3. Split(texts[i], equals) # <<>>
    <3>1. pairs[i] # <<None>> /\ pairs[i] # <<>>
      <4>1. ASSUME pairs[i] = <<None>> PROVE FALSE
        BY <2>1, <4>1
      <4>2. ASSUME pairs[i] = <<>> PROVE FALSE
        BY <2>1, <4>2
      <4> QED BY <4>1, <4>2
    <3>2. Split(texts[i], equals) = pairs[i]
      BY <1>7, <3>1
    <3> QED BY <3>1, <3>2
  <2>4. texts[i] # None
    BY <2>3 DEF Split
  <2>5. ASSUME texts = <<None>> PROVE FALSE
    <3>1. n = 1 /\ texts[1] = None
      BY <1>5, <2>5, <2>2
    <3> QED BY <2>4, <3>1
  <2> QED BY <2>5
<1>9. Split(Join(texts, amp), amp) = texts
  <2>1. \A j \in 1..n : AllWithout(pairs[j], amp)
    BY <1>2, <1>3, <1>4
  <2>2. AllWithout(texts, amp)
    BY <1>3, <1>4, <1>5, <2>1, AllJoinedAreFree
  <2> QED BY <1>8, <2>2, SplitOfJoin
<1>10. PICK back : back = PairsOf(texts, equals)
  OBVIOUS
<1>11. map = EmplaceAll(<<>>, back)
  BY <1>3, <1>4, <1>5, <1>9, <1>10 DEF ParamsText
<1>12. DOMAIN back = 1..n /\ \A j \in 1..n : back[j] = Split(texts[j], equals)
  <2>1. DOMAIN texts = 1..n
    BY <1>5, LenProperties
  <2> QED BY <1>10, <2>1 DEF PairsOf
<1>13. Len(back) = n
  BY <1>12
<1>14. ASSUME NEW j \in 1..n
       PROVE  (Len(back[j]) = 2 <=> Len(params[j]) = 2) /\ (Len(back[j]) = 2 => back[j] = params[j])
  <2>1. Len(<<None>>) = 1 /\ Len(<<>>) = 0
    OBVIOUS
  <2>2. CASE back[j] = params[j]
    BY <2>2
  <2>3. CASE back[j] = <<>> /\ params[j] = <<None>>
    <3>1. Len(back[j]) = 0 /\ Len(params[j]) = 1
      BY <2>1, <2>3
    <3> QED BY <3>1
  <2> QED BY <1>4, <1>7, <1>12, <2>2, <2>3
<1>15. PairsOver(back, Keys)
  <2>1. ASSUME NEW j \in 1..n, Len(back[j]) = 2 PROVE back[j][1] \in Keys /\ back[j][2] \in Keys
    <3>1. PICK all \in Seq(Keys) : all = params[j] /\ all = back[j] /\ Len(all) = 2
      BY <1>2, <1>14, <2>1
    <3>2. 1 \in 1..Len(all) /\ 2 \in 1..Len(all)
      BY <3>1
    <3> QED BY <3>1, <3>2, ElementOfSeq
  <2> QED BY <1>13, <2>1 DEF PairsOver
<1>16. SaysFirst(back, i, key) /\ back[i][2] = params[i][2]
  <2>1. \A j \in 1..n : Says(back, j, key) <=> Says(params, j, key)
    BY <1>14 DEF Says
  <2>2. \A j \in 1..i - 1 : j \in 1..n
    OBVIOUS
  <2>3. Says(params, i, key) /\ \A j \in 1..i - 1 : ~Says(params, j, key)
    BY <1>6 DEF SaysFirst
  <2>4. SaysFirst(back, i, key)
    BY <2>1, <2>2, <2>3 DEF SaysFirst
  <2>5. Len(params[i]) = 2
    BY <2>3 DEF Says
  <2> QED BY <1>14, <2>4, <2>5
<1> QED BY <1>6, <1>11, <1>13, <1>15, <1>16, FirstIsFound

(* The line of a header, and what split and trim make of all of them and   *)
(* of the two lines behind them.                                           *)
HeaderLines(headers) == [i \in DOMAIN headers |-> Append(Join(headers[i], ":"), "CR")]

Behind == <<<<"CR">>, None>>

(* The headers a client may compose.                                       *)
LEMMA HeadersAre ==
    ASSUME NEW headers \in Seq(Headers), NEW n \in Nat, n = Len(headers), NEW i \in 1..n
    PROVE  /\ headers[i] \in Seq(Text) /\ AllWithout(headers[i], "LF") /\ AllWithout(headers[i], ":")
           /\ Len(headers[i]) = 2 => headers[i][1] \in Keys /\ headers[i][1] # None
<1>1. PICK parts \in Seq(Seq(STRING \ {"LF", ":"})) : parts = headers[i] /\ parts \in Headers
  <2>1. headers[i] \in Headers
    BY ElementOfSeq
  <2> QED BY <2>1, ClientAssumption
<1>2. PICK m \in Nat : m = Len(parts) /\ DOMAIN parts = 1..m
  BY LenProperties
<1>3. ASSUME NEW j \in 1..m PROVE parts[j] \in Text /\ Without(parts[j], "LF") /\ Without(parts[j], ":")
  <2>1. PICK t \in Seq(STRING \ {"LF", ":"}) : t = parts[j]
    BY <1>2, ElementOfSeq
  <2>2. PICK k \in Nat : k = Len(t) /\ DOMAIN t = 1..k
    BY LenProperties
  <2>3. \A l \in 1..k : t[l] \in STRING \ {"LF", ":"}
    BY <2>2, ElementOfSeq
  <2>4. \A l \in 1..k : t[l] \in Char /\ t[l] # "LF" /\ t[l] # ":"
    BY <2>3 DEF Char
  <2>5. t \in Text
    <3>1. \A l \in 1..k : t[l] \in Char
      BY <2>4
    <3>2. t \in [1..k -> Char]
      <4>1. t \in [1..k -> STRING \ {"LF", ":"}]
        BY <2>2, LenProperties
      <4> QED BY <3>1, <4>1
    <3> QED BY <3>2, SeqDef DEF Text
  <2> QED BY <2>1, <2>2, <2>4, <2>5 DEF Without
<1>4. parts \in Seq(Text)
  <2>1. \A j \in 1..m : parts[j] \in Text
    BY <1>3
  <2>2. parts \in [1..m -> Text]
    <3>1. parts \in [1..m -> Seq(STRING \ {"LF", ":"})]
      BY <1>2, LenProperties
    <3> QED BY <2>1, <3>1
  <2> QED BY <2>2, SeqDef
<1>5. AllWithout(parts, "LF") /\ AllWithout(parts, ":")
  BY <1>2, <1>3 DEF AllWithout
<1>6. Len(parts) = 2 => parts[1] \in Keys /\ parts[1] # None
  BY <1>1, ClientAssumption DEF Keys
<1> QED BY <1>1, <1>4, <1>5, <1>6

(* The line of a carriage return alone.                                    *)
LEMMA CRIsOne ==
    <<"CR">> \in Text /\ Without(<<"CR">>, "LF") /\ Without(<<"CR">>, ":") /\ <<"CR">> # None
<1>1. PICK cr \in Char : cr = "CR"
  BY DEF Char, Blank
<1>2. PICK t \in Text : t = <<cr>> /\ Len(t) = 1 /\ t[1] = cr
  BY OneElement DEF Text
<1>3. t # None
  BY <1>2 DEF None
<1>4. Without(t, "LF") /\ Without(t, ":")
  BY <1>1, <1>2 DEF Without
<1> QED BY <1>1, <1>2, <1>3, <1>4

(* A line is split into as many parts as it is composed of, the last of    *)
(* them longer by the carriage return.                                     *)
LEMMA HeaderLineIs ==
    ASSUME NEW parts \in Seq(Text), AllWithout(parts, "LF"), AllWithout(parts, ":"),
           NEW line, line = Append(Join(parts, ":"), "CR")
    PROVE  /\ line \in Text /\ Without(line, "LF") /\ Split(line, ":") \in Seq(Text)
           /\ Len(parts) = 2 => /\ Len(Split(line, ":")) = 2
                                /\ Split(line, ":")[1] = parts[1]
                                /\ Split(line, ":")[2] = Append(parts[2], "CR")
           /\ Len(parts) # 2 => Len(Split(line, ":")) # 2
<1>1. PICK colon \in Char, cr \in Char : colon = ":" /\ cr = "CR" /\ colon # "LF" /\ cr # "LF" /\ cr # colon
  <2>1. ":" \in Char /\ "CR" \in Char
    BY DEF Char, Blank
  <2> QED BY <2>1
<1>2. PICK n \in Nat : n = Len(parts)
  BY LenProperties
<1>3. line \in Text /\ Without(line, "LF")
  <2>1. PICK s \in Text : s = Join(parts, colon) /\ Without(s, "LF")
    BY <1>1, JoinIsFree
  <2>2. Append(s, cr) \in Text /\ Without(Append(s, cr), "LF")
    BY <1>1, <2>1, FreeOfAppend
  <2> QED BY <1>1, <2>1, <2>2
<1>4. ASSUME n = 0 PROVE Split(line, colon) = <<<<"CR">>>>
  <2>1. parts = <<>>
    BY <1>2, <1>4, EmptySeq
  <2>2. Join(<<>>, colon) = None
    BY JoinOfNone
  <2>3. line = <<"CR">>
    <3>1. Append(<<>>, "CR") = <<"CR">>
      OBVIOUS
    <3>2. line = Append(<<>>, "CR")
      BY <1>1, <2>1, <2>2 DEF None
    <3> QED BY <3>1, <3>2
  <2>4. PICK t \in Text : t = <<"CR">> /\ Without(t, colon) /\ t # None
    BY <1>1, CRIsOne
  <2>5. Join(<<>>, colon) = None /\ Append(<<>>, t) \in Seq(Text)
        /\ Join(Append(<<>>, t), colon) = Onto(Join(<<>>, colon), Len(<<>>) + 1, t, colon)
    <3>1. <<>> \in Seq(Text)
      BY EmptySeq
    <3> QED BY <2>2, <3>1, JoinAppended
  <2>6. PICK texts \in Seq(Text) : texts = <<t>> /\ Append(<<>>, t) = texts
    <3>1. Append(<<>>, t) = <<t>>
      OBVIOUS
    <3> QED BY <2>5, <3>1
  <2>7. Join(texts, colon) = t
    BY <2>5, <2>6 DEF Onto
  <2>8. AllWithout(texts, colon)
    BY <2>4, <2>6 DEF AllWithout
  <2>9. texts # <<None>>
    BY <2>4, <2>6
  <2>10. Split(t, colon) = texts
    BY <2>7, <2>8, <2>9, SplitOfJoin
  <2> QED BY <2>3, <2>4, <2>6, <2>10
<1>5. ASSUME n # 0
      PROVE  \E front \in Seq(Text), text \in Text :
                 /\ parts = Append(front, text) /\ Len(front) = n - 1
                 /\ Split(line, colon) = Append(front, Append(text, cr))
  <2>1. PICK front \in Seq(Text), text \in Text : parts = Append(front, text) /\ Len(front) = n - 1
    BY <1>2, <1>5, LastOfTexts
  <2>2. Append(Join(Append(front, text), colon), cr) = Join(Append(front, Append(text, cr)), colon)
    BY JoinLengthened
  <2>3. PICK more \in Text : more = Append(text, cr)
    BY PartsAppended
  <2>4. PICK texts \in Seq(Text) : texts = Append(front, more)
    BY AppendProperties
  <2>5. line = Join(texts, colon)
    BY <1>1, <2>1, <2>2, <2>3, <2>4
  <2>6. AllWithout(front, colon) /\ Without(text, colon)
    BY <1>1, <2>1, AppendedFree
  <2>7. Without(more, colon)
    BY <1>1, <2>3, <2>6, FreeOfAppend
  <2>8. AllWithout(texts, colon)
    BY <2>4, <2>6, <2>7, AppendedFree
  <2>9. texts # <<None>>
    <3>1. texts[Len(front) + 1] = more /\ Len(texts) = Len(front) + 1
      BY <2>4, AppendProperties
    <3>2. more # None
      BY <2>3, AppendProperties DEF None, Text
    <3>3. ASSUME texts = <<None>> PROVE FALSE
      <4>1. Len(texts) = 1 /\ texts[1] = None
        BY <3>3
      <4> QED BY <3>1, <3>2, <4>1
    <3> QED BY <3>3
  <2>10. Split(line, colon) = texts
    BY <2>5, <2>8, <2>9, SplitOfJoin
  <2> QED BY <2>1, <2>3, <2>4, <2>10
<1>6. CASE n = 0
  <2>1. PICK t \in Text : t = <<"CR">>
    BY CRIsOne
  <2>2. <<t>> \in Seq(Text) /\ Len(<<t>>) = 1
    BY OneElement
  <2>3. Split(line, ":") \in Seq(Text) /\ Len(Split(line, ":")) = 1
    <3>1. PICK one : one = <<t>>
      OBVIOUS
    <3>2. one \in Seq(Text) /\ Len(one) = 1
      BY <2>2, <3>1
    <3>3. Split(line, ":") = one
      BY <1>1, <1>4, <1>6, <2>1, <3>1
    <3> QED BY <3>2, <3>3
  <2>4. Len(parts) # 2
    BY <1>2, <1>6
  <2>5. Len(Split(line, ":")) # 2
    <3>1. PICK s : s = Split(line, ":")
      OBVIOUS
    <3>2. Len(s) = 1
      BY <2>3, <3>1
    <3>3. Len(s) # 2
      BY <3>2
    <3> QED BY <3>1, <3>3
  <2> QED BY <1>3, <2>3, <2>4, <2>5
<1>7. CASE n # 0
  <2>1. PICK front \in Seq(Text), text \in Text :
                 /\ parts = Append(front, text) /\ Len(front) = n - 1
                 /\ Split(line, colon) = Append(front, Append(text, cr))
    BY <1>5, <1>7
  <2>2. PICK more \in Text : more = Append(text, cr)
    BY PartsAppended
  <2>3. PICK m \in Nat : m = n - 1
    BY <1>7
  <2>4. /\ Append(front, text)[m + 1] = text /\ \A i \in 1..m : Append(front, text)[i] = front[i]
    BY <2>1, <2>3, AppendProperties
  <2>5. PICK texts \in Seq(Text) : texts = Append(front, more)
    BY AppendProperties
  <2>6. Len(texts) = m + 1 /\ texts[m + 1] = more /\ \A i \in 1..m : texts[i] = front[i]
    BY <2>1, <2>3, <2>5, AppendProperties
  <2>7. Split(line, ":") = texts
    BY <1>1, <2>1, <2>2, <2>5
  <2>8. CASE n = 2
    <3>1. m = 1 /\ 1 \in 1..m
      BY <2>3, <2>8
    <3>2. Len(texts) = 2 /\ texts[2] = more /\ texts[1] = front[1]
      BY <2>6, <3>1
    <3>3. parts[1] = front[1] /\ parts[2] = text
      <4>1. PICK all : all = Append(front, text)
        OBVIOUS
      <4>2. all[2] = text /\ all[1] = front[1]
        <5>1. m + 1 = 2
          BY <3>1
        <5> QED BY <2>4, <3>1, <4>1, <5>1
      <4> QED BY <2>1, <4>1, <4>2
    <3>4. texts[1] = parts[1] /\ texts[2] = Append(parts[2], "CR")
      BY <1>1, <2>2, <3>2, <3>3
    <3> QED BY <1>2, <1>3, <2>7, <2>8, <3>2, <3>4
  <2>9. CASE n # 2
    <3>1. Len(texts) # 2
      BY <2>3, <2>6, <2>9
    <3> QED BY <1>2, <1>3, <2>7, <2>9, <3>1
  <2> QED BY <2>8, <2>9
<1> QED BY <1>6, <1>7

(* Sequences of two and of three elements.                                 *)
LEMMA TwoElements ==
    ASSUME NEW S, NEW e \in S, NEW f \in S
    PROVE  <<e, f>> \in Seq(S) /\ Len(<<e, f>>) = 2 /\ <<e, f>>[1] = e /\ <<e, f>>[2] = f
OBVIOUS

LEMMA ThreeElements ==
    ASSUME NEW S, NEW e \in S, NEW f \in S, NEW g \in S
    PROVE  /\ <<e, f, g>> \in Seq(S) /\ Len(<<e, f, g>>) = 3
           /\ <<e, f, g>>[1] = e /\ <<e, f, g>>[2] = f /\ <<e, f, g>>[3] = g
OBVIOUS

AllLines(headers) == HeaderLines(headers) \o Behind

(* The lines of the headers, and the two behind them, are whole lines.     *)
LEMMA LinesAre ==
    ASSUME NEW headers \in Seq(Headers), NEW n \in Nat, n = Len(headers)
    PROVE  /\ AllLines(headers) \in Seq(Text) /\ Len(AllLines(headers)) = n + 2
           /\ AllWithout(AllLines(headers), "LF")
           /\ \A i \in 1..n : AllLines(headers)[i] = Append(Join(headers[i], ":"), "CR")
           /\ AllLines(headers)[n + 1] = <<"CR">> /\ AllLines(headers)[n + 2] = None
<1>1. PICK lines : lines = HeaderLines(headers)
  OBVIOUS
<1>2. DOMAIN lines = 1..n /\ \A i \in 1..n : lines[i] = Append(Join(headers[i], ":"), "CR")
  <2>1. DOMAIN headers = 1..n
    BY LenProperties
  <2> QED BY <1>1, <2>1 DEF HeaderLines
<1>3. \A i \in 1..n : lines[i] \in Text /\ Without(lines[i], "LF")
  <2>1. ASSUME NEW i \in 1..n PROVE lines[i] \in Text /\ Without(lines[i], "LF")
    <3>1. PICK parts \in Seq(Text) : parts = headers[i] /\ AllWithout(parts, "LF") /\ AllWithout(parts, ":")
      BY HeadersAre
    <3>2. PICK line : line = Append(Join(parts, ":"), "CR")
      OBVIOUS
    <3>3. line \in Text /\ Without(line, "LF")
      BY <3>1, <3>2, HeaderLineIs
    <3> QED BY <1>2, <3>1, <3>2, <3>3
  <2> QED BY <2>1
<1>4. lines \in Seq(Text) /\ Len(lines) = n
  <2>1. lines \in [1..n -> Text]
    <3>1. lines = [i \in 1..n |-> lines[i]]
      BY <1>1, <1>2 DEF HeaderLines
    <3> QED BY <1>3, <3>1
  <2>2. lines \in UNION {[1..k -> Text] : k \in Nat}
    BY <2>1
  <2>3. lines \in Seq(Text)
    BY <2>2, SeqDef
  <2> QED BY <1>2, <2>3, LenProperties
<1>5. PICK cr \in Text, none \in Text : cr = <<"CR">> /\ none = None /\ Without(cr, "LF") /\ Without(none, "LF")
  <2>1. None \in Text
    BY EmptySeq DEF None, Text
  <2>2. Without(None, "LF")
    BY DEF Without, None
  <2> QED BY <2>1, <2>2, CRIsOne
<1>6. PICK more \in Seq(Text) : more = <<cr, none>> /\ Len(more) = 2 /\ more[1] = cr /\ more[2] = none
  <2>1. /\ <<cr, none>> \in Seq(Text) /\ Len(<<cr, none>>) = 2
        /\ <<cr, none>>[1] = cr /\ <<cr, none>>[2] = none
    BY TwoElements
  <2> QED BY <2>1
<1>7. Behind = more
  BY <1>5, <1>6 DEF Behind
<1>8. PICK all \in Seq(Text) : all = lines \o more
  BY <1>4, ConcatProperties
<1>9. Len(all) = n + 2 /\ \A i \in 1..n + 2 : all[i] = IF i <= n THEN lines[i] ELSE more[i - n]
  BY <1>4, <1>6, <1>8, ConcatProperties
<1>10. \A i \in 1..n : all[i] = lines[i]
  BY <1>9
<1>11. all[n + 1] = cr /\ all[n + 2] = none
  <2>1. n + 1 \in 1..n + 2 /\ n + 2 \in 1..n + 2 /\ ~(n + 1 <= n) /\ ~(n + 2 <= n)
        /\ n + 1 - n = 1 /\ n + 2 - n = 2
    OBVIOUS
  <2>2. all[n + 1] = more[n + 1 - n] /\ all[n + 2] = more[n + 2 - n]
    BY <1>9, <2>1
  <2> QED BY <1>6, <2>1, <2>2
<1>12. AllWithout(all, "LF")
  <2>1. ASSUME NEW i \in 1..n + 2 PROVE Without(all[i], "LF")
    <3>1. i \in 1..n \/ i = n + 1 \/ i = n + 2
      OBVIOUS
    <3> QED BY <1>3, <1>5, <1>10, <1>11, <3>1
  <2> QED BY <1>9, <2>1 DEF AllWithout
<1>13. all = AllLines(headers)
  BY <1>1, <1>7, <1>8 DEF AllLines
<1> QED BY <1>2, <1>5, <1>8, <1>9, <1>10, <1>11, <1>12, <1>13

(* Trimming the parts of a line does not change how many they are.         *)
LEMMA OneTrimmed ==
    ASSUME NEW s \in Seq(Text), NEW t, t = [j \in DOMAIN s |-> Trim(s[j])]
    PROVE  Len(t) = Len(s) /\ \A j \in 1..Len(s) : t[j] = Trim(s[j])
<1>1. PICK n \in Nat : n = Len(s) /\ DOMAIN s = 1..n
  BY LenProperties
<1>2. t = [j \in 1..n |-> Trim(s[j])]
  BY <1>1
<1>3. Len(t) = n
  BY <1>2
<1> QED BY <1>1, <1>2, <1>3

(* Of the lines those have two parts that were composed of two.            *)
LEMMA HeaderPairsAre ==
    ASSUME NEW headers \in Seq(Headers), NEW n \in Nat, n = Len(headers),
           NEW back, back = Trimmed(PairsOf(AllLines(headers), ":"))
    PROVE  /\ Len(back) = n + 2
           /\ \A i \in 1..n : Len(headers[i]) = 2 =>
                  /\ Len(back[i]) = 2 /\ back[i][1] = headers[i][1]
                  /\ back[i][2] = Trim(Append(headers[i][2], "CR"))
           /\ \A i \in 1..n : Len(headers[i]) # 2 => Len(back[i]) # 2
           /\ Len(back[n + 1]) # 2 /\ Len(back[n + 2]) # 2
<1>1. PICK lines \in Seq(Text) :
        /\ lines = AllLines(headers) /\ Len(lines) = n + 2
        /\ \A i \in 1..n : lines[i] = Append(Join(headers[i], ":"), "CR")
        /\ lines[n + 1] = <<"CR">> /\ lines[n + 2] = None
  BY LinesAre
<1>2. DOMAIN lines = 1..n + 2
  BY <1>1, LenProperties
<1>3. PICK pairs : pairs = PairsOf(lines, ":")
  OBVIOUS
<1>4. DOMAIN pairs = 1..n + 2 /\ \A i \in 1..n + 2 : pairs[i] = Split(lines[i], ":")
  BY <1>2, <1>3 DEF PairsOf
<1>5. back = [i \in 1..n + 2 |-> [j \in DOMAIN pairs[i] |-> Trim(pairs[i][j])]]
  BY <1>1, <1>3, <1>4 DEF Trimmed
<1>6. Len(back) = n + 2
  <2>1. n + 2 \in Nat
    OBVIOUS
  <2> QED BY <1>5, <2>1
<1>7. ASSUME NEW i \in 1..n + 2, pairs[i] \in Seq(Text)
      PROVE  Len(back[i]) = Len(pairs[i]) /\ \A j \in 1..Len(pairs[i]) : back[i][j] = Trim(pairs[i][j])
  <2>1. PICK s \in Seq(Text) : s = pairs[i]
    BY <1>7
  <2>2. PICK t : t = [j \in DOMAIN s |-> Trim(s[j])]
    OBVIOUS
  <2>3. back[i] = t
    BY <1>5, <2>1, <2>2
  <2>4. Len(t) = Len(s) /\ \A j \in 1..Len(s) : t[j] = Trim(s[j])
    BY <2>2, OneTrimmed
  <2> QED BY <2>1, <2>3, <2>4
<1>8. ASSUME NEW i \in 1..n
      PROVE  /\ Len(headers[i]) = 2 => /\ Len(back[i]) = 2 /\ back[i][1] = headers[i][1]
                                       /\ back[i][2] = Trim(Append(headers[i][2], "CR"))
             /\ Len(headers[i]) # 2 => Len(back[i]) # 2
  <2>1. PICK parts \in Seq(Text) : parts = headers[i] /\ AllWithout(parts, "LF") /\ AllWithout(parts, ":")
    BY HeadersAre
  <2>2. PICK line : line = lines[i] /\ line = Append(Join(parts, ":"), "CR")
    BY <1>1, <2>1
  <2>3. PICK s \in Seq(Text) :
           /\ s = Split(line, ":")
           /\ Len(parts) = 2 => Len(s) = 2 /\ s[1] = parts[1] /\ s[2] = Append(parts[2], "CR")
           /\ Len(parts) # 2 => Len(s) # 2
    BY <2>1, <2>2, HeaderLineIs
  <2>4. i \in 1..n + 2
    OBVIOUS
  <2>5. pairs[i] = s
    BY <1>4, <2>2, <2>3, <2>4
  <2>6. PICK b : b = back[i] /\ Len(b) = Len(s) /\ \A j \in 1..Len(s) : b[j] = Trim(s[j])
    BY <1>7, <2>4, <2>5
  <2>7. CASE Len(parts) = 2
    <3>1. 1 \in 1..Len(s) /\ 2 \in 1..Len(s)
      BY <2>3, <2>7
    <3>2. b[1] = Trim(parts[1]) /\ b[2] = Trim(Append(parts[2], "CR"))
      BY <2>3, <2>6, <2>7, <3>1
    <3>3. PICK name \in Keys : name = parts[1] /\ name # None
      BY <2>1, <2>7, HeadersAre
    <3>4. Trim(name) = name
      BY <3>3, TrimOfKey
    <3> QED BY <2>1, <2>3, <2>6, <2>7, <3>2, <3>3, <3>4
  <2>8. CASE Len(parts) # 2
    BY <2>1, <2>3, <2>6, <2>8
  <2> QED BY <2>7, <2>8
<1>9. Len(back[n + 1]) # 2
  <2>1. <<>> \in Seq(Text) /\ Len(<<>>) = 0 /\ AllWithout(<<>>, "LF") /\ AllWithout(<<>>, ":")
    BY EmptySeq DEF AllWithout
  <2>2. PICK parts \in Seq(Text) : parts = <<>> /\ Len(parts) = 0
                                   /\ AllWithout(parts, "LF") /\ AllWithout(parts, ":")
    BY <2>1
  <2>3. PICK line : line = Append(Join(parts, ":"), "CR")
    OBVIOUS
  <2>4. line = <<"CR">>
    <3>1. Append(<<>>, "CR") = <<"CR">>
      OBVIOUS
    <3>2. Join(<<>>, ":") = None
      <4>1. ":" \in Char
        BY DEF Char
      <4> QED BY <4>1, JoinOfNone
    <3> QED BY <2>2, <2>3, <3>1, <3>2 DEF None
  <2>5. PICK s \in Seq(Text) : s = Split(line, ":") /\ Len(s) # 2
    <3>1. Len(parts) # 2
      BY <2>2
    <3> QED BY <2>2, <2>3, <3>1, HeaderLineIs
  <2>6. n + 1 \in 1..n + 2
    OBVIOUS
  <2>7. pairs[n + 1] = s
    BY <1>1, <1>4, <2>4, <2>5, <2>6
  <2>8. Len(back[n + 1]) = Len(s)
    BY <1>7, <2>6, <2>7
  <2> QED BY <2>5, <2>8
<1>10. Len(back[n + 2]) # 2
  <2>1. PICK s \in Seq(Text) : s = <<>> /\ Len(s) = 0
    BY EmptySeq
  <2>2. n + 2 \in 1..n + 2
    OBVIOUS
  <2>3. pairs[n + 2] = s
    BY <1>1, <1>4, <2>1, <2>2 DEF Split
  <2>4. Len(back[n + 2]) = Len(s)
    BY <1>7, <2>2, <2>3
  <2>5. PICK k : k = Len(s) /\ k = 0
    BY <2>1
  <2>6. k # 2
    BY <2>5
  <2> QED BY <2>4, <2>5, <2>6
<1> QED BY <1>6, <1>8, <1>9, <1>10

(* A header is found under its name, trimmed.                              *)
LEMMA HeadersAreRead ==
    ASSUME NEW headers \in Seq(Headers), NEW n \in Nat, n = Len(headers),
           NEW k \in 1..n, Len(headers[k]) = 2,
           NEW map, map = EmplaceAll(<<>>, Trimmed(PairsOf(AllLines(headers), ":")))
    PROVE  /\ SaidFirst(headers, headers[k][1]) \in Text
           /\ Has(map, headers[k][1])
           /\ ValueOf(map, headers[k][1]) = Trim(Append(SaidFirst(headers, headers[k][1]), "CR"))
<1>1. PICK back : back = Trimmed(PairsOf(AllLines(headers), ":"))
  OBVIOUS
<1>2. /\ Len(back) = n + 2
      /\ \A i \in 1..n : Len(headers[i]) = 2 =>
             /\ Len(back[i]) = 2 /\ back[i][1] = headers[i][1]
             /\ back[i][2] = Trim(Append(headers[i][2], "CR"))
      /\ \A i \in 1..n : Len(headers[i]) # 2 => Len(back[i]) # 2
      /\ Len(back[n + 1]) # 2 /\ Len(back[n + 2]) # 2
  BY <1>1, HeaderPairsAre
<1>3. PICK name \in Keys : name = headers[k][1]
  BY HeadersAre
<1>4. DOMAIN headers = 1..n
  BY LenProperties
<1>5. Said(headers, name) # {}
  BY <1>3, <1>4 DEF Said
<1>6. PICK i \in 1..n : SaysFirst(headers, i, name) /\ SaidFirst(headers, name) = headers[i][2]
  BY <1>4, <1>5, SaidFirstIs
<1>7. \A j \in 1..n : Says(back, j, name) <=> Says(headers, j, name)
  BY <1>2 DEF Says
<1>8. Len(headers[i]) = 2
  BY <1>6 DEF SaysFirst, Says
<1>9. SaysFirst(back, i, name)
  <2>1. \A j \in 1..i - 1 : j \in 1..n
    OBVIOUS
  <2> QED BY <1>6, <1>7, <2>1 DEF SaysFirst
<1>10. PICK m \in Nat : m = n + 2 /\ i \in 1..m
  OBVIOUS
<1>11. PICK V : V = {back[j][2] : j \in 1..m}
  OBVIOUS
<1>12. PairsOver(back, V)
  <2>1. ASSUME NEW j \in 1..m, Len(back[j]) = 2 PROVE back[j][1] \in Keys /\ back[j][2] \in V
    <3>1. j \in 1..n
      <4>1. j \in 1..n \/ j = n + 1 \/ j = n + 2
        BY <1>10
      <4> QED BY <1>2, <2>1, <4>1
    <3>2. Len(headers[j]) = 2 /\ back[j][1] = headers[j][1]
      BY <1>2, <2>1, <3>1
    <3>3. headers[j][1] \in Keys
      BY <3>1, <3>2, HeadersAre
    <3> QED BY <1>11, <3>2, <3>3
  <2> QED BY <1>2, <1>10, <2>1 DEF PairsOver
<1>13. Has(EmplaceAll(<<>>, back), name) /\ ValueOf(EmplaceAll(<<>>, back), name) = back[i][2]
  BY <1>2, <1>9, <1>10, <1>12, FirstIsFound
<1>14. back[i][2] = Trim(Append(headers[i][2], "CR"))
  BY <1>2, <1>8
<1>15. headers[i][2] \in Text
  <2>1. PICK parts \in Seq(Text) : parts = headers[i] /\ Len(parts) = 2
    BY <1>8, HeadersAre
  <2>2. 2 \in 1..Len(parts)
    BY <2>1
  <2> QED BY <2>1, <2>2, ElementOfSeq
<1> QED BY <1>1, <1>3, <1>6, <1>13, <1>14, <1>15

(* The first line of a request.                                            *)
Uri(path, params) == IF params = <<>> THEN path ELSE Join(<<path, ParamsText(params)>>, "?")

FirstLine(verb, uri) == Join(<<<<verb>>, uri, <<"HTTP", "CR">>>>, " ")

(* A path ends nowhere before its end.                                     *)
LEMMA PathIs ==
    ASSUME NEW path \in Paths
    PROVE  path \in Text /\ path # None /\ path[1] = "/" /\ \A c \in {" ", "LF", "?"} : Without(path, c)
<1>1. path \in Seq(STRING \ {" ", "LF", "?"}) /\ path # None /\ path[1] = "/"
  BY ClientAssumption
<1>2. PICK n \in Nat : n = Len(path) /\ DOMAIN path = 1..n /\ path \in [1..n -> STRING \ {" ", "LF", "?"}]
  BY <1>1, LenProperties
<1>3. ASSUME NEW i \in 1..n PROVE path[i] \in Char /\ \A c \in {" ", "LF", "?"} : path[i] # c
  <2>1. path[i] \in STRING \ {" ", "LF", "?"}
    BY <1>2
  <2> QED BY <2>1 DEF Char
<1>4. path \in Text
  <2>1. \A i \in 1..n : path[i] \in Char
    BY <1>3
  <2>2. path \in [1..n -> Char]
    BY <1>2, <2>1
  <2>3. path \in UNION {[1..k -> Char] : k \in Nat}
    BY <2>2
  <2> QED BY <2>3, SeqDef DEF Text
<1>5. ASSUME NEW c \in {" ", "LF", "?"} PROVE Without(path, c)
  BY <1>2, <1>3 DEF Without
<1> QED BY <1>1, <1>4, <1>5

(* Sequences of texts, all of them without a character.                    *)
LEMMA OneOrTwo ==
    (\A i \in 1..1 : i = 1) /\ (\A i \in 1..2 : i = 1 \/ i = 2)
OBVIOUS

LEMMA OneIsFree ==
    ASSUME NEW s \in Text, NEW c, Without(s, c), s # None
    PROVE  <<s>> \in Seq(Text) /\ AllWithout(<<s>>, c) /\ <<s>> # <<None>>
<1>1. PICK all \in Seq(Text) : all = <<s>> /\ Len(all) = 1 /\ all[1] = s
  <2>1. <<s>> \in Seq(Text) /\ Len(<<s>>) = 1 /\ <<s>>[1] = s
    BY OneElement
  <2> QED BY <2>1
<1>2. ASSUME NEW i \in 1..1 PROVE Without(all[i], c)
  <2>1. i = 1
    OBVIOUS
  <2> QED BY <1>1, <2>1
<1>3. all # <<None>>
  <2>1. ASSUME all = <<None>> PROVE FALSE
    <3>1. all[1] = None
      BY <2>1
    <3> QED BY <1>1, <3>1
  <2> QED BY <2>1
<1> QED BY <1>1, <1>2, <1>3 DEF AllWithout

LEMMA TwoAreFree ==
    ASSUME NEW s \in Text, NEW t \in Text, NEW c, Without(s, c), Without(t, c)
    PROVE  <<s, t>> \in Seq(Text) /\ AllWithout(<<s, t>>, c) /\ <<s, t>> # <<None>>
<1>1. PICK all \in Seq(Text) : all = <<s, t>> /\ Len(all) = 2 /\ all[1] = s /\ all[2] = t
  <2>1. <<s, t>> \in Seq(Text) /\ Len(<<s, t>>) = 2 /\ <<s, t>>[1] = s /\ <<s, t>>[2] = t
    BY TwoElements
  <2> QED BY <2>1
<1>2. ASSUME NEW i \in 1..2 PROVE Without(all[i], c)
  <2>1. i = 1 \/ i = 2
    OBVIOUS
  <2> QED BY <1>1, <2>1
<1>3. all # <<None>>
  <2>1. ASSUME all = <<None>> PROVE FALSE
    <3>1. Len(all) = 1
      BY <2>1
    <3> QED BY <1>1, <3>1
  <2> QED BY <2>1
<1> QED BY <1>1, <1>2, <1>3 DEF AllWithout

LEMMA ThreeAreFree ==
    ASSUME NEW s \in Text, NEW t \in Text, NEW u \in Text, NEW c, Without(s, c), Without(t, c), Without(u, c)
    PROVE  <<s, t, u>> \in Seq(Text) /\ AllWithout(<<s, t, u>>, c) /\ <<s, t, u>> # <<None>>
<1>1. PICK all \in Seq(Text) : all = <<s, t, u>> /\ Len(all) = 3 /\ all[1] = s /\ all[2] = t /\ all[3] = u
  <2>1. /\ <<s, t, u>> \in Seq(Text) /\ Len(<<s, t, u>>) = 3
        /\ <<s, t, u>>[1] = s /\ <<s, t, u>>[2] = t /\ <<s, t, u>>[3] = u
    BY ThreeElements
  <2> QED BY <2>1
<1>2. ASSUME NEW i \in 1..3 PROVE Without(all[i], c)
  <2>1. i = 1 \/ i = 2 \/ i = 3
    OBVIOUS
  <2> QED BY <1>1, <2>1
<1>3. all # <<None>>
  <2>1. ASSUME all = <<None>> PROVE FALSE
    <3>1. Len(all) = 1
      BY <2>1
    <3> QED BY <1>1, <3>1
  <2> QED BY <2>1
<1> QED BY <1>1, <1>2, <1>3 DEF AllWithout

(* The uri is split into the path and the parameters.                      *)
LEMMA UriIs ==
    ASSUME NEW path \in Paths, NEW params \in Seq(Params)
    PROVE  /\ Uri(path, params) \in Text
           /\ Without(Uri(path, params), " ") /\ Without(Uri(path, params), "LF")
           /\ params = <<>> => Split(Uri(path, params), "?") = <<path>>
           /\ params # <<>> => Split(Uri(path, params), "?") = <<path, ParamsText(params)>>
<1>1. path \in Text /\ path # None /\ Without(path, " ") /\ Without(path, "LF") /\ Without(path, "?")
  BY PathIs
<1>2. PICK mark \in Char : mark = "?" /\ mark # " " /\ mark # "LF"
  <2>1. "?" \in Char
    BY DEF Char
  <2> QED BY <2>1
<1>3. CASE params = <<>>
  <2>1. Uri(path, params) = path
    BY <1>3 DEF Uri
  <2>2. PICK texts \in Seq(Text) : texts = <<path>> /\ Append(<<>>, path) = texts
    <3>1. <<path>> \in Seq(Text)
      BY <1>1, OneElement
    <3>2. Append(<<>>, path) = <<path>>
      OBVIOUS
    <3> QED BY <3>1, <3>2
  <2>3. Join(texts, mark) = path
    <3>1. <<>> \in Seq(Text) /\ Len(<<>>) = 0
      BY EmptySeq
    <3>2. Join(Append(<<>>, path), mark) = Onto(Join(<<>>, mark), Len(<<>>) + 1, path, mark)
      BY <1>1, <3>1, JoinAppended
    <3> QED BY <2>2, <3>2 DEF Onto
  <2>4. AllWithout(texts, mark) /\ texts # <<None>>
    <3>1. Without(path, mark)
      BY <1>1, <1>2
    <3> QED BY <1>1, <2>2, <3>1, OneIsFree
  <2>6. Split(path, mark) = texts
    BY <2>3, <2>4, SplitOfJoin
  <2> QED BY <1>1, <1>2, <1>3, <2>1, <2>2, <2>6
<1>4. CASE params # <<>>
  <2>1. PICK t \in Text : t = ParamsText(params) /\ Without(t, " ") /\ Without(t, "LF") /\ Without(t, "?")
    BY ParamsTextIs
  <2>2. PICK texts \in Seq(Text) :
           texts = <<path, t>> /\ AllWithout(texts, mark) /\ AllWithout(texts, " ") /\ AllWithout(texts, "LF")
           /\ texts # <<None>>
    BY <1>1, <1>2, <2>1, TwoAreFree
  <2>3. Uri(path, params) = Join(texts, mark)
    BY <1>2, <1>4, <2>1, <2>2 DEF Uri
  <2>4. Join(texts, mark) \in Text /\ Without(Join(texts, mark), " ")
    BY <1>2, <2>2, JoinIsFree
  <2>5. Without(Join(texts, mark), "LF")
    BY <1>2, <2>2, JoinIsFree
  <2>6. Split(Join(texts, mark), mark) = texts
    BY <2>2, SplitOfJoin
  <2> QED BY <1>2, <1>4, <2>1, <2>2, <2>3, <2>4, <2>5, <2>6
<1> QED BY <1>3, <1>4

(* The first line is split into its three parts.                           *)
LEMMA FirstLineIs ==
    ASSUME NEW verb \in Verbs, NEW uri \in Text, Without(uri, " "), Without(uri, "LF")
    PROVE  /\ FirstLine(verb, uri) \in Text /\ Without(FirstLine(verb, uri), "LF")
           /\ Split(FirstLine(verb, uri), " ") = <<<<verb>>, uri, <<"HTTP", "CR">>>>
<1>1. PICK space \in Char, cr \in Char, http \in Char :
        space = " " /\ cr = "CR" /\ http = "HTTP" /\ space # "LF"
  <2>1. " " \in Char /\ "CR" \in Char /\ "HTTP" \in Char
    BY DEF Char, Blank
  <2> QED BY <2>1
<1>2. PICK v \in Text : v = <<verb>> /\ Without(v, space) /\ Without(v, "LF")
  <2>1. PICK w \in Char : w = verb /\ w # space /\ w # "LF"
    <3>1. verb \in STRING \ {" ", "LF"}
      BY ClientAssumption
    <3> QED BY <1>1, <3>1 DEF Char
  <2>2. <<w>> \in Seq(Char) /\ Len(<<w>>) = 1 /\ <<w>>[1] = w
    BY OneElement
  <2>3. PICK s : s = <<w>> /\ s \in Seq(Char) /\ Len(s) = 1 /\ s[1] = w
    BY <2>2
  <2>4. Without(s, space) /\ Without(s, "LF")
    <3>1. \A i \in 1..1 : i = 1
      BY OneOrTwo
    <3>2. \A i \in 1..Len(s) : s[i] = w
      BY <2>3, <3>1
    <3> QED BY <2>1, <3>2 DEF Without
  <2> QED BY <2>1, <2>3, <2>4 DEF Text
<1>3. PICK h \in Text : h = <<"HTTP", "CR">> /\ Without(h, space) /\ Without(h, "LF")
  <2>1. /\ <<http, cr>> \in Seq(Char) /\ Len(<<http, cr>>) = 2
        /\ <<http, cr>>[1] = http /\ <<http, cr>>[2] = cr
    BY TwoElements
  <2>2. PICK s : s = <<http, cr>> /\ s \in Seq(Char) /\ Len(s) = 2 /\ s[1] = http /\ s[2] = cr
    BY <2>1
  <2>3. ASSUME NEW c \in {space, "LF"} PROVE Without(s, c)
    <3>1. http # c /\ cr # c
      BY <1>1
    <3>2. ASSUME NEW i \in 1..2 PROVE s[i] # c
      <4>1. i = 1 \/ i = 2
        BY OneOrTwo
      <4> QED BY <2>2, <3>1, <4>1
    <3> QED BY <2>2, <3>2 DEF Without
  <2> QED BY <1>1, <2>2, <2>3 DEF Text
<1>4. PICK texts \in Seq(Text) :
         texts = <<v, uri, h>> /\ AllWithout(texts, space) /\ AllWithout(texts, "LF") /\ texts # <<None>>
  <2>1. Without(uri, space)
    BY <1>1
  <2> QED BY <1>2, <1>3, <2>1, ThreeAreFree
<1>5. FirstLine(verb, uri) = Join(texts, space)
  BY <1>1, <1>2, <1>3, <1>4 DEF FirstLine
<1>6. Join(texts, space) \in Text /\ Without(Join(texts, space), "LF")
  BY <1>1, <1>4, JoinIsFree
<1>7. Split(Join(texts, space), space) = texts
  BY <1>4, SplitOfJoin
<1> QED BY <1>1, <1>2, <1>3, <1>4, <1>5, <1>6, <1>7

-----------------------------------------------------------------------------
(* What a client may have composed.                                        *)
Composed == [verb : Verbs, path : Paths, params : Seq(Params), headers : Seq(Headers)]

(* The text of a request is split into its lines.                          *)
LEMMA LinesOfText ==
    ASSUME NEW r \in Composed, NEW first, first = FirstLine(r.verb, Uri(r.path, r.params)),
           NEW lines, lines = AllLines(r.headers)
    PROVE  /\ Split(TextOf(r), "LF") # <<>>
           /\ Split(TextOf(r), "LF")[1] = first
           /\ Tail(Split(TextOf(r), "LF")) = lines
<1>1. r.verb \in Verbs /\ r.path \in Paths /\ r.params \in Seq(Params) /\ r.headers \in Seq(Headers)
  BY DEF Composed
<1>2. PICK uri \in Text : uri = Uri(r.path, r.params) /\ Without(uri, " ") /\ Without(uri, "LF")
  BY <1>1, UriIs
<1>3. first \in Text /\ Without(first, "LF")
  BY <1>1, <1>2, FirstLineIs
<1>4. PICK n \in Nat : n = Len(r.headers)
  BY <1>1, LenProperties
<1>5. lines \in Seq(Text) /\ Len(lines) = n + 2 /\ AllWithout(lines, "LF")
  BY <1>1, <1>4, LinesAre
<1>6. <<first>> \in Seq(Text) /\ Len(<<first>>) = 1 /\ <<first>>[1] = first
  BY <1>3, OneElement
<1>7. PICK one \in Seq(Text) : one = <<first>> /\ Len(one) = 1 /\ one[1] = first
  BY <1>6
<1>8. PICK all \in Seq(Text) :
         /\ all = one \o lines /\ Len(all) = n + 3
         /\ \A i \in 1..n + 3 : all[i] = IF i <= 1 THEN one[i] ELSE lines[i - 1]
  <2>1. PICK k \in Nat : k = n + 2
    OBVIOUS
  <2>2. /\ one \o lines \in Seq(Text) /\ Len(one \o lines) = 1 + k
        /\ \A i \in 1..1 + k : (one \o lines)[i] = IF i <= 1 THEN one[i] ELSE lines[i - 1]
    BY <1>5, <1>7, <2>1, ConcatProperties
  <2>3. 1 + k = n + 3
    BY <2>1
  <2> QED BY <2>2, <2>3
<1>9. AllWithout(all, "LF")
  <2>1. ASSUME NEW i \in 1..n + 3 PROVE Without(all[i], "LF")
    <3>1. CASE i = 1
      BY <1>3, <1>7, <1>8, <3>1
    <3>2. CASE i # 1
      <4>1. i - 1 \in 1..n + 2 /\ ~(i <= 1)
        BY <3>2
      <4> QED BY <1>5, <1>8, <4>1 DEF AllWithout
    <3> QED BY <3>1, <3>2
  <2> QED BY <1>8, <2>1 DEF AllWithout
<1>10. PICK lf \in Char : lf = "LF"
  <2>1. "LF" \in Char
    BY DEF Char, Blank
  <2> QED BY <2>1
<1>11. TextOf(r) = Join(all, lf)
  <2>1. PICK heads : heads = HeaderLines(r.headers)
    OBVIOUS
  <2>2. TextOf(r) = Join(one \o heads \o Behind, "LF")
    BY <1>2, <1>7, <2>1 DEF TextOf, Uri, FirstLine, HeaderLines, Behind, ParamsText, AllJoined
  <2>3. one \o heads \o Behind = one \o lines
    <3>1. lines = heads \o Behind
      BY <2>1 DEF AllLines
    <3> QED BY <3>1
  <2> QED BY <1>8, <1>10, <2>2, <2>3
<1>12. all # <<None>>
  <2>1. ASSUME all = <<None>> PROVE FALSE
    <3>1. Len(all) = 1
      BY <2>1
    <3> QED BY <1>8, <3>1
  <2> QED BY <2>1
<1>13. Split(TextOf(r), lf) = all
  BY <1>9, <1>10, <1>11, <1>12, SplitOfJoin
<1>14. all # <<>> /\ all[1] = first
  <2>1. 1 \in 1..n + 3
    OBVIOUS
  <2>2. Len(<<>>) = 0
    OBVIOUS
  <2> QED BY <1>7, <1>8, <2>1, <2>2
<1>15. Tail(all) = lines
  <2>1. PICK t \in Seq(Text) : t = Tail(all) /\ Len(t) = Len(all) - 1 /\ \A i \in 1..Len(t) : t[i] = all[i + 1]
    <3>1. /\ Tail(all) \in Seq(Text) /\ Len(Tail(all)) = Len(all) - 1
          /\ \A i \in 1..Len(Tail(all)) : Tail(all)[i] = all[i + 1]
      BY <1>14, HeadTailProperties
    <3> QED BY <3>1
  <2>2. Len(t) = n + 2
    BY <1>8, <2>1
  <2>3. ASSUME NEW i \in 1..n + 2 PROVE t[i] = lines[i]
    <3>1. i + 1 \in 1..n + 3 /\ ~(i + 1 <= 1) /\ i + 1 - 1 = i
      OBVIOUS
    <3> QED BY <1>8, <2>1, <2>2, <3>1
  <2> QED BY <1>5, <2>1, <2>2, <2>3, SeqEqual
<1> QED BY <1>10, <1>13, <1>14, <1>15

(* The parameters and the headers a request is parsed to.                  *)
ReadParams(params) ==
    IF params = <<>> THEN <<>>
    ELSE EmplaceAll(<<>>, PairsOf(Split(ParamsText(params), "&"), "="))

ReadHeaders(headers) == EmplaceAll(<<>>, Trimmed(PairsOf(AllLines(headers), ":")))

(* A request that is valid is parsed to what it was composed of.           *)
LEMMA ParseIs ==
    ASSUME NEW r \in Composed, NEW p, p = ParseRequest(TextOf(r)), p.valid
    PROVE  p.path = r.path /\ p.params = ReadParams(r.params) /\ p.headers = ReadHeaders(r.headers)
<1>1. r.verb \in Verbs /\ r.path \in Paths /\ r.params \in Seq(Params) /\ r.headers \in Seq(Headers)
  BY DEF Composed
<1>2. PICK url \in Text : /\ url = Uri(r.path, r.params) /\ Without(url, " ") /\ Without(url, "LF")
                          /\ r.params = <<>> => Split(url, "?") = <<r.path>>
                          /\ r.params # <<>> => Split(url, "?") = <<r.path, ParamsText(r.params)>>
  BY <1>1, UriIs
<1>3. PICK first : first = FirstLine(r.verb, url) /\ Split(first, " ") = <<<<r.verb>>, url, <<"HTTP", "CR">>>>
  BY <1>1, <1>2, FirstLineIs
<1>4. PICK heads : heads = AllLines(r.headers)
  OBVIOUS
<1>5. PICK lines : lines = Split(TextOf(r), "LF") /\ lines # <<>> /\ lines[1] = first /\ Tail(lines) = heads
  BY <1>2, <1>3, <1>4, LinesOfText
<1>6. PICK line : line = Split(lines[1], " ") /\ line[2] = url
  <2>1. PICK line : line = <<<<r.verb>>, url, <<"HTTP", "CR">>>>
    OBVIOUS
  <2>2. line[2] = url
    BY <2>1
  <2> QED BY <1>3, <1>5, <2>1, <2>2
<1>7. PICK uri : uri = Split(line[2], "?")
  OBVIOUS
<1>8. PICK headers : headers = ReadHeaders(r.headers)
  OBVIOUS
<1>9. p = IF lines = <<>> THEN Invalid
          ELSE IF Len(line) # 3 THEN Invalid
          ELSE IF line[1] \notin {<<w>> : w \in Methods} THEN Invalid
          ELSE [valid   |-> TRUE,
                path    |-> IF Len(uri) > 1 THEN uri[1] ELSE line[2],
                params  |-> IF Len(uri) > 1 THEN EmplaceAll(<<>>, PairsOf(Split(uri[2], "&"), "=")) ELSE <<>>,
                headers |-> headers]
  BY <1>4, <1>5, <1>6, <1>7, <1>8 DEF ParseRequest, ReadHeaders
<1>10. p = [valid   |-> TRUE,
            path    |-> IF Len(uri) > 1 THEN uri[1] ELSE url,
            params  |-> IF Len(uri) > 1 THEN EmplaceAll(<<>>, PairsOf(Split(uri[2], "&"), "=")) ELSE <<>>,
            headers |-> headers]
  <2>1. p # Invalid
    BY DEF Invalid
  <2> QED BY <1>6, <1>9, <2>1
<1>11. CASE r.params = <<>>
  <2>1. uri = <<r.path>>
    BY <1>2, <1>6, <1>7, <1>11
  <2>2. ~(Len(uri) > 1)
    BY <2>1
  <2>3. url = r.path
    BY <1>2, <1>11 DEF Uri
  <2> QED BY <1>8, <1>10, <1>11, <2>2, <2>3 DEF ReadParams
<1>12. CASE r.params # <<>>
  <2>1. uri = <<r.path, ParamsText(r.params)>>
    BY <1>2, <1>6, <1>7, <1>12
  <2>2. Len(uri) > 1 /\ uri[1] = r.path /\ uri[2] = ParamsText(r.params)
    BY <2>1
  <2> QED BY <1>8, <1>10, <1>12, <2>2 DEF ReadParams
<1> QED BY <1>11, <1>12

-----------------------------------------------------------------------------
(* The handlers.                                                           *)
LEMMA HandlersAre ==
    /\ Handlers[1] = <<"/">> /\ Len(Handlers[1]) = 1
    /\ Handlers[2] = <<"/", "favicon.ico">> /\ Len(Handlers[2]) = 2
    /\ Handlers[3] = <<"/", "rest", "/", "v1", "/">> /\ Len(Handlers[3]) = 5
    /\ DOMAIN Handlers = 1..3
    /\ Range(Handlers) = {Handlers[i] : i \in 1..3}
<1>1. DOMAIN Handlers = 1..3
  BY DEF Handlers
<1>2. /\ Handlers[1] = <<"/">> /\ Len(Handlers[1]) = 1
      /\ Handlers[2] = <<"/", "favicon.ico">> /\ Len(Handlers[2]) = 2
      /\ Handlers[3] = <<"/", "rest", "/", "v1", "/">> /\ Len(Handlers[3]) = 5
  BY DEF Handlers
<1> QED BY <1>1, <1>2 DEF Range

(* One of the handlers has the longest uri.                                *)
LEMMA LongestOf ==
    ASSUME NEW prefix \in SUBSET (1..3), NEW size, size[1] = 1, size[2] = 2, size[3] = 5, 1 \in prefix
    PROVE  \E i \in prefix : \A j \in prefix : size[j] <= size[i]
<1>1. \A j \in prefix : j = 1 \/ j = 2 \/ j = 3
  OBVIOUS
<1>2. CASE 3 \in prefix
  <2>1. \A j \in prefix : size[j] <= size[3]
    BY <1>1
  <2> QED BY <1>2, <2>1
<1>3. CASE 3 \notin prefix /\ 2 \in prefix
  <2>1. \A j \in prefix : size[j] <= size[2]
    BY <1>1, <1>3
  <2> QED BY <1>3, <2>1
<1>4. CASE 3 \notin prefix /\ 2 \notin prefix
  <2>1. \A j \in prefix : size[j] <= size[1]
    BY <1>1, <1>4
  <2> QED BY <2>1
<1> QED BY <1>2, <1>3, <1>4

(* A path has the handler with the longest of the uris it begins with.     *)
LEMMA HandlerIsLongest ==
    ASSUME NEW path \in Text, path # None, path[1] = "/"
    PROVE  /\ Handler(path) \in Range(Handlers)
           /\ \A uri \in Range(Handlers) : uri = path \/ Begins(uri, path) => Len(uri) <= Len(Handler(path))
<1>1. PICK exact : exact = {i \in 1..3 : Handlers[i] = path}
  OBVIOUS
<1>2. PICK prefix : prefix = {i \in 1..3 : Begins(Handlers[i], path)}
  OBVIOUS
<1>3. PICK longest : longest = CHOOSE i \in prefix : \A j \in prefix : Len(Handlers[j]) <= Len(Handlers[i])
  OBVIOUS
<1>4. Handler(path) = IF exact # {} THEN Handlers[Min(exact)]
                      ELSE IF prefix = {} THEN None ELSE Handlers[longest]
  BY <1>1, <1>2, <1>3, HandlersAre DEF Handler
<1>5. PICK n \in Nat \ {0} : n = Len(path)
  <2>1. Len(path) \in Nat \ {0}
    BY EmptySeq DEF Text, None
  <2> QED BY <2>1
<1>6. CASE exact # {}
  <2>1. exact \in SUBSET Nat
    BY <1>1
  <2>2. Min(exact) \in exact
    BY <1>6, <2>1, LeastIs
  <2>3. Handler(path) = path /\ path \in Range(Handlers)
    BY <1>1, <1>4, <1>6, <2>2, HandlersAre
  <2>4. ASSUME NEW uri \in Range(Handlers), uri = path \/ Begins(uri, path) PROVE Len(uri) <= n
    <3>1. Begins(uri, path) => Len(uri) < n /\ Len(uri) \in Nat
      BY <1>5, HandlersAre DEF Begins
    <3>2. uri = path => Len(uri) = n
      BY <1>5
    <3> QED BY <2>4, <3>1, <3>2
  <2> QED BY <1>5, <2>3, <2>4
<1>7. CASE exact = {}
  <2>1. 1 \in prefix
    <3>1. Handlers[1] # path
      BY <1>1, <1>7
    <3>2. n # 1
      <4>1. ASSUME n = 1 PROVE path = <<"/">>
        <5>1. PICK s : s = <<"/">> /\ s \in Seq(Char) /\ Len(s) = 1 /\ s[1] = "/"
          <6>1. "/" \in Char
            BY DEF Char
          <6> QED BY <6>1, OneElement
        <5>2. ASSUME NEW i \in 1..1 PROVE path[i] = s[i]
          BY <5>1, <5>2, OneOrTwo
        <5> QED BY <1>5, <4>1, <5>1, <5>2, SeqEqual DEF Text
      <4> QED BY <3>1, <4>1, HandlersAre
    <3>3. SubSeq(path, 1, 1) = <<path[1]>>
      <4>1. PICK c \in Char : c = path[1]
        <5>1. 1 \in 1..Len(path)
          BY <1>5
        <5> QED BY <5>1, ElementOfSeq DEF Text
      <4>2. PICK s : s = SubSeq(path, 1, 1) /\ s \in Text /\ Len(s) = 1 /\ s[1] = c
        <5>1. 1 \in 1..1 /\ 1 <= Len(path) /\ 1 - 1 + 1 = 1 /\ 1 + 1 - 1 = 1
          BY <1>5
        <5>2. /\ SubSeq(path, 1, 1) \in Text /\ Len(SubSeq(path, 1, 1)) = 1 - 1 + 1
              /\ \A i \in 1..1 - 1 + 1 : SubSeq(path, 1, 1)[i] = path[1 + i - 1]
          BY <5>1, SubSeqOfText
        <5>3. SubSeq(path, 1, 1)[1] = path[1]
          BY <5>1, <5>2
        <5> QED BY <4>1, <5>1, <5>2, <5>3
      <4>3. PICK t : t = <<c>> /\ t \in Text /\ Len(t) = 1 /\ t[1] = c
        BY OneElement DEF Text
      <4>4. ASSUME NEW i \in 1..1 PROVE s[i] = t[i]
        BY <4>2, <4>3, OneOrTwo
      <4> QED BY <4>1, <4>2, <4>3, <4>4, SeqEqual DEF Text
    <3>4. SubSeq(path, 1, Len(Handlers[1])) = Handlers[1]
      BY <3>3, HandlersAre
    <3>5. Len(Handlers[1]) < Len(path)
      BY <1>5, <3>2, HandlersAre
    <3> QED BY <1>2, <3>4, <3>5 DEF Begins
  <2>2. \E i \in prefix : \A j \in prefix : Len(Handlers[j]) <= Len(Handlers[i])
    <3>1. prefix \in SUBSET (1..3)
      BY <1>2
    <3>2. PICK size : size = [i \in 1..3 |-> Len(Handlers[i])]
      OBVIOUS
    <3>3. \A i \in 1..3 : size[i] = Len(Handlers[i])
      BY <3>2
    <3>4. size[1] = 1 /\ size[2] = 2 /\ size[3] = 5
      <4>1. 1 \in 1..3 /\ 2 \in 1..3 /\ 3 \in 1..3
        OBVIOUS
      <4> QED BY <3>3, <4>1, HandlersAre
    <3>5. PICK i \in prefix : \A j \in prefix : size[j] <= size[i]
      BY <2>1, <3>1, <3>4, LongestOf
    <3> QED BY <3>1, <3>3, <3>5
  <2>3. longest \in prefix /\ \A j \in prefix : Len(Handlers[j]) <= Len(Handlers[longest])
    BY <1>3, <2>2
  <2>4. Handler(path) = Handlers[longest]
    BY <1>4, <1>7, <2>1
  <2>5. longest \in 1..3
    BY <1>2, <2>3
  <2>6. ASSUME NEW uri \in Range(Handlers), uri = path \/ Begins(uri, path)
        PROVE  Len(uri) <= Len(Handlers[longest])
    <3>1. PICK i \in 1..3 : uri = Handlers[i]
      BY HandlersAre
    <3>2. i \in prefix
      BY <1>1, <1>2, <1>7, <2>6, <3>1
    <3> QED BY <2>3, <3>1, <3>2
  <2> QED BY <2>4, <2>5, <2>6, HandlersAre
<1> QED BY <1>6, <1>7

SetSSID == <<"/", "rest", "/", "v1", "/", "setSSID">>

(* The path of the setting of the station.                                 *)
LEMMA SetSSIDHas ==
    /\ SetSSID[1] = "/" /\ SetSSID[2] = "rest" /\ SetSSID[3] = "/" /\ SetSSID[4] = "v1"
    /\ SetSSID[5] = "/" /\ SetSSID[6] = "setSSID" /\ Len(SetSSID) = 6
BY DEF SetSSID

LEMMA FiveOf ==
    ASSUME NEW S, NEW s \in Seq(S), Len(s) = 5
    PROVE  s = <<s[1], s[2], s[3], s[4], s[5]>>
OBVIOUS

LEMMA OneOf ==
    ASSUME NEW S, NEW s \in Seq(S), Len(s) = 1
    PROVE  s = <<s[1]>>
OBVIOUS

(* It goes to the handler of the application interface.                    *)
LEMMA SetSSIDIsRest ==
    ASSUME SetSSID \in Text
    PROVE  /\ Handler(SetSSID) = Handlers[3]
           /\ SubSeq(SetSSID, Len(Handler(SetSSID)) + 1, Len(SetSSID)) = <<"setSSID">>
<1>1. PICK path : path = SetSSID /\ path \in Text
  OBVIOUS
<1>2. path # None /\ path[1] = "/" /\ Len(path) = 6
  BY <1>1 DEF SetSSID, None
<1>3. SubSeq(path, 1, 5) = <<"/", "rest", "/", "v1", "/">>
  <2>0. PICK n \in Nat : n = 6 /\ n <= Len(path)
    BY <1>2
  <2>0a. PICK a \in 1..n : a = 1
    BY <2>0
  <2>0b. PICK b \in a..n : b = 5
    BY <2>0, <2>0a
  <2>1. a = 1 /\ b = 5
    BY <2>0a, <2>0b
  <2>2. PICK s \in Text : /\ s = SubSeq(path, a, b) /\ Len(s) = b - a + 1
                          /\ \A j \in 1..b - a + 1 : s[j] = path[a + j - 1]
    BY <1>1, <2>0, SubSeqOfText
  <2>2a. Len(s) = 5
    BY <2>1, <2>2
  <2>2b. \A i \in 1..5 : s[i] = path[i]
    <3>1. ASSUME NEW i \in 1..5 PROVE i \in 1..b - a + 1 /\ a + i - 1 = i
      BY <2>1
    <3> QED BY <2>1, <2>2, <3>1
  <2>3. /\ path[1] = "/" /\ path[2] = "rest" /\ path[3] = "/"
        /\ path[4] = "v1" /\ path[5] = "/"
    BY <1>1, SetSSIDHas
  <2>4. s[1] = "/" /\ s[2] = "rest" /\ s[3] = "/" /\ s[4] = "v1" /\ s[5] = "/"
    BY <2>2b, <2>3
  <2>5. s = <<s[1], s[2], s[3], s[4], s[5]>>
    BY <2>2a, FiveOf DEF Text
  <2> QED BY <2>1, <2>2, <2>4, <2>5
<1>4. Begins(Handlers[3], path)
  BY <1>2, <1>3, HandlersAre DEF Begins
<1>5. Handlers[3] \in Range(Handlers)
  BY HandlersAre
<1>6. Handler(path) \in Range(Handlers) /\ Len(Handlers[3]) <= Len(Handler(path))
  BY <1>1, <1>2, <1>4, <1>5, HandlerIsLongest
<1>7. PICK i \in 1..3 : Handler(path) = Handlers[i]
  BY <1>6, HandlersAre
<1>8. i = 3
  BY <1>6, <1>7, HandlersAre
<1>9. SubSeq(path, 6, 6) = <<"setSSID">>
  <2>0. PICK n \in Nat : n = 6 /\ n <= Len(path)
    BY <1>2
  <2>0a. PICK a \in 1..n : a = 6
    BY <2>0
  <2>0b. PICK b \in a..n : b = 6
    BY <2>0, <2>0a
  <2>1. a = 6 /\ b = 6
    BY <2>0a, <2>0b
  <2>2. PICK s \in Text : /\ s = SubSeq(path, a, b) /\ Len(s) = b - a + 1
                          /\ \A j \in 1..b - a + 1 : s[j] = path[a + j - 1]
    BY <1>1, <2>0, SubSeqOfText
  <2>2a. Len(s) = 1
    BY <2>1, <2>2
  <2>2b. s[1] = path[6]
    <3>1. 1 \in 1..b - a + 1 /\ a + 1 - 1 = 6
      BY <2>1
    <3> QED BY <2>1, <2>2, <3>1
  <2>3. path[6] = "setSSID"
    BY <1>1, SetSSIDHas
  <2>4. s = <<s[1]>>
    BY <2>2a, OneOf DEF Text
  <2> QED BY <2>1, <2>2, <2>2b, <2>3, <2>4
<1> QED BY <1>1, <1>2, <1>7, <1>8, <1>9, HandlersAre

(* What the server has done is about the request the client composed.      *)
WebInv ==
    \/ request = NoRequest /\ served = Unserved
    \/ request \in Composed /\ (served = Unserved \/ RequestIsServed)

(* A request that is composed has a path.                                  *)
LEMMA PathsAreNot ==
    \A r \in Composed : r # NoRequest
<1>1. ASSUME NEW r \in Composed, r = NoRequest PROVE FALSE
  <2>1. r.path \in Paths /\ r.path = None
    BY <1>1 DEF Composed, NoRequest
  <2> QED BY <2>1, ClientAssumption
<1> QED BY <1>1

(* The names of the parameters of the station are keys.                    *)
LEMMA NamesAreKeys ==
    <<"ssid">> \in Keys /\ <<"password">> \in Keys
<1>1. "ssid" \in Range(Words) /\ "password" \in Range(Words)
  BY TextsAssumption
<1> QED BY <1>1, OneElement DEF Keys

(* A parameter the client gave is what the handler is given.               *)
LEMMA ParamIs ==
    ASSUME NEW params \in Seq(Params), NEW key \in Keys, Said(params, key) # {}
    PROVE  Param(ReadParams(params), key) = SaidFirst(params, key)
<1>1. params # <<>>
  <2>1. DOMAIN <<>> = {}
    OBVIOUS
  <2> QED BY <2>1 DEF Said
<1>2. PICK map : map = EmplaceAll(<<>>, PairsOf(Split(ParamsText(params), "&"), "="))
  OBVIOUS
<1>3. ReadParams(params) = map
  BY <1>1, <1>2 DEF ReadParams
<1>4. Has(map, key) /\ ValueOf(map, key) = SaidFirst(params, key)
  BY <1>2, ParamsAreRead
<1> QED BY <1>3, <1>4 DEF Param

(* Each step keeps what holds.                                             *)
LEMMA WebInitInv ==
    ASSUME WebInit PROVE WebInv
BY DEF WebInit, WebInv

LEMMA BeginInv ==
    ASSUME WebInv, NEW verb \in Verbs, NEW path \in Paths, Begin(verb, path)
    PROVE  WebInv'
<1>1. served' = Unserved
  BY PathsAreNot DEF WebInv, Begin
<1>2. request' = [verb |-> verb, path |-> path, params |-> <<>>, headers |-> <<>>]
  BY DEF Begin, NoRequest
<1>3. <<>> \in Seq(Params) /\ <<>> \in Seq(Headers)
  BY EmptySeq
<1>4. request' \in Composed
  BY <1>2, <1>3 DEF Composed
<1> QED BY <1>1, <1>4 DEF WebInv

LEMMA AddParamInv ==
    ASSUME WebInv, NEW parts \in Params, AddParam(parts)
    PROVE  WebInv'
<1>1. request \in Composed /\ served' = Unserved /\ request' = [request EXCEPT !.params = Append(@, parts)]
  BY DEF WebInv, AddParam
<1>2. request.params \in Seq(Params)
  BY <1>1 DEF Composed
<1>3. Append(request.params, parts) \in Seq(Params)
  BY <1>2, AppendProperties
<1>4. request' \in Composed
  BY <1>1, <1>3 DEF Composed
<1> QED BY <1>1, <1>4 DEF WebInv

LEMMA AddHeaderInv ==
    ASSUME WebInv, NEW parts \in Headers, AddHeader(parts)
    PROVE  WebInv'
<1>1. request \in Composed /\ served' = Unserved /\ request' = [request EXCEPT !.headers = Append(@, parts)]
  BY DEF WebInv, AddHeader
<1>2. request.headers \in Seq(Headers)
  BY <1>1 DEF Composed
<1>3. Append(request.headers, parts) \in Seq(Headers)
  BY <1>2, AppendProperties
<1>4. request' \in Composed
  BY <1>1, <1>3 DEF Composed
<1> QED BY <1>1, <1>4 DEF WebInv

LEMMA ReceiveInv ==
    ASSUME WebInv, Receive
    PROVE  WebInv'
<1>1. request \in Composed /\ request' = request
  BY DEF WebInv, Receive
<1>2. PICK r : r = ParseRequest(TextOf(request))
  OBVIOUS
<1>3. request.path \in Paths /\ request.params \in Seq(Params) /\ request.headers \in Seq(Headers)
  BY <1>1 DEF Composed
<1>4. CASE ~r.valid
  <2>1. served' = [Unserved EXCEPT !.reply = "invalid"]
    BY <1>2, <1>4 DEF Receive
  <2>2. served'.reply = "invalid"
    BY <2>1 DEF Unserved
  <2>3. RequestIsServed'
    BY <2>2 DEF RequestIsServed
  <2> QED BY <1>1, <2>3 DEF WebInv
<1>5. CASE r.valid
  <2>1. r.path = request.path /\ r.params = ReadParams(request.params) /\ r.headers = ReadHeaders(request.headers)
    BY <1>1, <1>2, <1>5, ParseIs
  <2>2. PICK uri : uri = Handler(request.path)
    OBVIOUS
  <2>3. /\ served'.uri = uri /\ served'.headers = r.headers
        /\ station' = IF uri = Handlers[3] /\ SubSeq(r.path, Len(uri) + 1, Len(r.path)) = <<"setSSID">>
                      THEN <<Param(r.params, <<"ssid">>), Param(r.params, <<"password">>)>>
                      ELSE station
    <3>1. uri = Handler(r.path)
      BY <2>1, <2>2
    <3>2. \E file, reply : served' = [uri |-> uri, file |-> file, reply |-> reply, headers |-> r.headers]
      BY <1>2, <1>5, <3>1, Zenon DEF Receive
    <3>3. station' = IF uri = Handlers[3] /\ SubSeq(r.path, Len(uri) + 1, Len(r.path)) = <<"setSSID">>
                     THEN <<Param(r.params, <<"ssid">>), Param(r.params, <<"password">>)>>
                     ELSE station
      BY <1>2, <1>5, <3>1 DEF Receive
    <3> QED BY <3>2, <3>3
  <2>4. /\ uri \in Range(Handlers)
        /\ \A other \in Range(Handlers) :
               other = request.path \/ Begins(other, request.path) => Len(other) <= Len(uri)
    <3>1. request.path \in Text /\ request.path # None /\ request.path[1] = "/"
      BY <1>3, PathIs
    <3> QED BY <2>2, <3>1, HandlerIsLongest
  <2>5. ASSUME request.path = SetSSID,
               Said(request.params, <<"ssid">>) # {}, Said(request.params, <<"password">>) # {}
        PROVE  station' = <<SaidFirst(request.params, <<"ssid">>), SaidFirst(request.params, <<"password">>)>>
    <3>1. SetSSID \in Text
      BY <1>3, <2>5, PathIs
    <3>2. uri = Handlers[3] /\ SubSeq(r.path, Len(uri) + 1, Len(r.path)) = <<"setSSID">>
      BY <2>1, <2>2, <2>5, <3>1, SetSSIDIsRest
    <3>3. station' = <<Param(r.params, <<"ssid">>), Param(r.params, <<"password">>)>>
      BY <2>3, <3>2
    <3>4. Param(r.params, <<"ssid">>) = SaidFirst(request.params, <<"ssid">>)
      BY <1>3, <2>1, <2>5, NamesAreKeys, ParamIs
    <3>5. Param(r.params, <<"password">>) = SaidFirst(request.params, <<"password">>)
      BY <1>3, <2>1, <2>5, NamesAreKeys, ParamIs
    <3> QED BY <3>3, <3>4, <3>5
  <2>6. ASSUME NEW i \in DOMAIN request.headers, NEW name, NEW value,
               name = request.headers[i][1], value = SaidFirst(request.headers, name),
               Len(request.headers[i]) = 2, ~(Range(value) \subseteq Blank)
        PROVE  Has(served'.headers, name) /\ Within(ValueOf(served'.headers, name), value)
    <3>1. PICK headers \in Seq(Headers) : headers = request.headers
      BY <1>3
    <3>2. PICK n \in Nat : n = Len(headers) /\ DOMAIN headers = 1..n
      BY LenProperties
    <3>3. PICK map : map = ReadHeaders(headers) /\ map = EmplaceAll(<<>>, Trimmed(PairsOf(AllLines(headers), ":")))
      BY DEF ReadHeaders
    <3>4. i \in 1..n
      BY <2>6, <3>1, <3>2
    <3>5. /\ SaidFirst(headers, headers[i][1]) \in Text
          /\ Has(map, headers[i][1])
          /\ ValueOf(map, headers[i][1]) = Trim(Append(SaidFirst(headers, headers[i][1]), "CR"))
      BY <2>6, <3>1, <3>2, <3>3, <3>4, HeadersAreRead
    <3>6. value \in Text /\ Has(map, name) /\ ValueOf(map, name) = Trim(Append(value, "CR"))
      BY <2>6, <3>1, <3>5
    <3>7. Within(Trim(Append(value, "CR")), value)
      BY <2>6, <3>6, TrimWithin
    <3>8. served'.headers = map
      BY <2>1, <2>3, <3>1, <3>3
    <3> QED BY <3>6, <3>7, <3>8
  <2>7. RequestIsServed'
    BY <1>1, <2>3, <2>4, <2>5, <2>6 DEF RequestIsServed, SetSSID
  <2> QED BY <1>1, <2>7 DEF WebInv
<1> QED BY <1>4, <1>5

LEMMA WebStepInv ==
    ASSUME WebInv, [WebNext]_webVars
    PROVE  WebInv'
<1>1. CASE \E verb \in Verbs, path \in Paths : Begin(verb, path)
  BY <1>1, BeginInv
<1>2. CASE \E parts \in Params : AddParam(parts)
  BY <1>2, AddParamInv
<1>3. CASE \E parts \in Headers : AddHeader(parts)
  BY <1>3, AddHeaderInv
<1>4. CASE Receive
  BY <1>4, ReceiveInv
<1>5. CASE UNCHANGED webVars
  <2>1. request' = request /\ served' = served /\ station' = station
    BY <1>5 DEF webVars
  <2> QED BY <2>1 DEF WebInv, RequestIsServed
<1> QED BY <1>1, <1>2, <1>3, <1>4, <1>5 DEF WebNext

(* However many parameters and headers a request has, and whatever texts   *)
(* they are: it is parsed to what the client composed, the handler with    *)
(* the longest uri gets it, and the station is given the first ssid and    *)
(* the first password.                                                     *)
THEOREM RequestsAreServed == WebSpec => []RequestIsServed
<1>1. WebSpec => []WebInv
  <2>1. WebInit => WebInv
    BY WebInitInv
  <2>2. WebInv /\ [WebNext]_webVars => WebInv'
    BY WebStepInv
  <2> QED BY <2>1, <2>2, PTL DEF WebSpec
<1>2. WebInv => RequestIsServed
  BY DEF WebInv, RequestIsServed
<1> QED BY <1>1, <1>2, PTL
=============================================================================
