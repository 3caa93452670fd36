----------------------------- MODULE MCNetwork ------------------------------
(* Small instances of Network for TLC, each a plan.  On the Mac: two        *)
(* clients after one another in one slot, of which one hangs up and one     *)
(* sends its request in two packets.  On the ESP: two clients at a time;    *)
(* two for one slot, of which one asks for what is not there; one that      *)
(* hangs up; one while the station is lost and comes back; and a station    *)
(* that is lost until a phone configures it.                                *)
EXTENDS Network

CONSTANTS c1, c2, c3, c4

MCClients   == {c1, c2, c3, c4}
MCSplitting == {c2}
MCMissing   == {c3}
MCHangingUp == {c1}

Mac(slots, clients) ==
    [locked |-> TRUE, slots |-> slots, clients |-> clients,
     addresses |-> 0, losses |-> 0, phones |-> 0]

ESP(slots, clients, addresses, losses, phones) ==
    [locked |-> FALSE, slots |-> slots, clients |-> clients,
     addresses |-> addresses, losses |-> losses, phones |-> phones]

MCPlans == {Mac(1, {c1, c2}), ESP(2, {c2, c4}, 1, 0, 0), ESP(1, {c3, c4}, 1, 0, 0),
            ESP(1, {c1}, 1, 0, 0), ESP(1, {c4}, 2, 1, 0), ESP(1, {}, 3, 2, 1)}
=============================================================================
