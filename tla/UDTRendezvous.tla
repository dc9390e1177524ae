------------------------------ MODULE UDTRendezvous ------------------------------
(***************************************************************************)
(* A rendezvous of two UDT sockets (connect and processCtrl of core.cpp):  *)
(* both connect to each other at the same time, and neither listens.  A    *)
(* side sends its request every second: type 0 until it has heard of the   *)
(* other, then -1; a side that is connected answers with type -2.  This is *)
(* how the data channels of Sector are opened.                             *)
(***************************************************************************)
EXTENDS Naturals

CONSTANT MaxRest   \* waits of a second in which nothing comes, before a side gives up

Sides == {"a", "b"}
Other(s) == IF s = "a" THEN "b" ELSE "a"

VARIABLES
  side,   \* the request, the peer it is for, the recorded handshake and the outcome
  wire    \* the packets on their way: to one side, of a type

vars == <<side, wire>>

Types == {"0", "-1", "-2", "data"}

\* A request of type 0 is for any socket at the address; the other types
\* are for the socket that was heard of.
TypeOK ==
  /\ side \in [Sides -> [st : {"connecting", "up", "failed", "closed"}, req : {"0", "-1"},
                         heard : BOOLEAN, box : Types \cup {"none"}, rest : 0 .. MaxRest]]
  /\ wire \subseteq [to : Sides, type : Types]

Init ==
  /\ side = [s \in Sides |-> [st |-> "connecting", req |-> "0", heard |-> FALSE, box |-> "none", rest |-> 0]]
  /\ wire = {}

SendRequest(s) ==
  /\ side[s].st = "connecting"
  /\ wire' = wire \cup {[to |-> Other(s), type |-> side[s].req]}
  /\ UNCHANGED side

\* A packet for a side that connects is kept until it looks, over the one before.
Store(p) ==
  /\ p \in wire /\ side[p.to].st = "connecting"
  /\ side' = [side EXCEPT ![p.to].box = p.type]
  /\ wire' = wire \ {p}

\* A connected side that ignores the requests.
AnswersNothing(type) == FALSE

\* A connected side answers the requests for its socket, and no answer.  One of
\* type 0 is for no socket, and finds nobody when this side is connected.
Answers(type) == type = "-1"

Answer(p) ==
  /\ p \in wire /\ side[p.to].st = "up"
  /\ wire' = (wire \ {p}) \cup (IF Answers(p.type) THEN {[to |-> Other(p.to), type |-> "-2"]} ELSE {})
  /\ UNCHANGED side

\* A handshake of type 0, and whatever comes first, is recorded, and the request changes.
First(s) == side[s].box = "0" \/ side[s].req = "0"

\* Any other handshake means that the peer knows of this side; data, that it is connected.
Complete(s) ==
  IF side[s].box = "data" THEN side[s].heard ELSE ~First(s)

Look(s) ==
  /\ side[s].st = "connecting" /\ side[s].box # "none"
  /\ side' = [side EXCEPT ![s].box = "none",
                          ![s].heard = @ \/ First(s),
                          ![s].req = IF First(s) THEN "-1" ELSE @,
                          ![s].st = IF Complete(s) THEN "up" ELSE @]
  /\ UNCHANGED wire

Rest(s) ==
  /\ side[s].st = "connecting" /\ side[s].box = "none"
  /\ side' = [side EXCEPT ![s].rest = IF @ < MaxRest THEN @ + 1 ELSE @,
                          ![s].st = IF side[s].rest = MaxRest THEN "failed" ELSE @]
  /\ UNCHANGED wire

SendData(s) ==
  /\ side[s].st = "up"
  /\ wire' = wire \cup {[to |-> Other(s), type |-> "data"]}
  /\ UNCHANGED side

Close(s) ==
  /\ side[s].st = "up"
  /\ side' = [side EXCEPT ![s].st = "closed"]
  /\ UNCHANGED wire

Lose(p) ==
  /\ p \in wire
  /\ wire' = wire \ {p}
  /\ UNCHANGED side

Drop(p) ==
  /\ p \in wire /\ side[p.to].st \in {"failed", "closed"}
  /\ wire' = wire \ {p}
  /\ UNCHANGED side

Next ==
  \/ \E s \in Sides : SendRequest(s) \/ Look(s) \/ Rest(s) \/ SendData(s) \/ Close(s)
  \/ \E p \in wire : Store(p) \/ Answer(p) \/ Lose(p) \/ Drop(p)

Spec == Init /\ [][Next]_vars

\* A side goes on asking and looking, and handshakes that are sent again and again come.
Fairness ==
  \A s \in Sides :
    /\ WF_vars(SendRequest(s)) /\ WF_vars(Look(s))
    /\ SF_vars(\E p \in wire : p.to = s /\ p.type # "data" /\ (Store(p) \/ Answer(p)))

FairSpec == Spec /\ Fairness

-----------------------------------------------------------------------------
(* Properties. *)

\* A side is connected only when the other has heard of it: it has its socket
\* and its initial sequence number.
UpWhenHeard == \A s \in Sides : side[s].st = "up" => side[Other(s)].heard

\* What makes it inductive: who has heard of the other asks for its socket, is connected, or
\* sends what is not a request of type 0.
RendezvousInv ==
  /\ TypeOK /\ UpWhenHeard
  /\ \A s \in Sides : side[s].req = "-1" \/ side[s].st = "up" => side[s].heard
  /\ \A p \in wire : p.type # "0" => side[Other(p.to)].heard
  /\ \A s \in Sides : side[s].box \notin {"none", "0"} => side[Other(s)].heard

\* The sides meet, unless one gives up or closes, whichever is connected first.
Meet ==
  <>((\A s \in Sides : side[s].st = "up") \/ (\E s \in Sides : side[s].st \in {"failed", "closed"}))
=============================================================================
