----------------------------- MODULE UDTSndLossList -----------------------------
(***************************************************************************)
(* The loss list of a UDT sender (CSndLossList in list.cpp): what is to be *)
(* sent again, as ranges in a linked list that lives in arrays.  The place *)
(* of a range is the distance of its start from that of the head, so that  *)
(* it is found without a search.  A free node has -1 everywhere (its link  *)
(* keeps its value in the code, and is not read).                          *)
(***************************************************************************)
EXTENDS UDTSeqNo, FiniteSets

CONSTANTS Window,   \* packets that are sent and not acknowledged, at most
          ISN,      \* the initial sequence number
          MaxSend   \* packets that are sent at all

Size == 2 * Window \* of the arrays

VARIABLES
  list,   \* the list
  losses, \* what it is to hold: a set
  ack,    \* the first number that is not acknowledged
  curr    \* the last number sent

vars == <<list, losses, ack, curr>>

Places == 0 .. Size - 1
None == -1

Init ==
  /\ list = [d1 |-> [i \in Places |-> None], d2 |-> [i \in Places |-> None],
             nx |-> [i \in Places |-> None], head |-> None, len |-> 0, last |-> None]
  /\ losses = {} /\ ack = ISN /\ curr = decseq(ack)

\* The place of a number.
Loc(l, s) == (l.head + seqoff(l.d1[l.head], s) + Size) % Size

\* The last node that starts before a number, from a node on.
RECURSIVE Before(_, _, _)
Before(l, i, s) ==
  IF l.nx[i] # None /\ seqcmp(l.d1[l.nx[i]], s) < 0 THEN Before(l, l.nx[i], s) ELSE i

-----------------------------------------------------------------------------
(* insert *)

\* The end of a node: -1 if it is its start.
End(l, i) == IF l.d2[i] = None THEN l.d1[i] ELSE l.d2[i]

Node(l, i, a, b) == [l EXCEPT !.d1[i] = a, !.d2[i] = IF b # a THEN b ELSE @]

\* The node reaches further, unless it does already.
Stretch(l, i, b) ==
  IF seqcmp(b, End(l, i)) > 0
  THEN [l EXCEPT !.len = @ + seqlen(End(l, i), b) - 1, !.d2[i] = b]
  ELSE l

\* What the node and the next one have in common is counted once.
Common(l, i, j) ==
  IF seqcmp(End(l, j), l.d2[i]) > 0
  THEN IF seqcmp(l.d2[i], l.d1[j]) >= 0 THEN seqlen(l.d1[j], l.d2[i]) ELSE 0
  ELSE seqlen(l.d1[j], End(l, j))

\* The next node is taken in while it touches this one.
RECURSIVE Coalesce(_, _)
Coalesce(l, i) ==
  LET j == l.nx[i] IN
    IF j = None \/ l.d2[i] = None THEN l
    ELSE IF seqcmp(l.d1[j], incseq(l.d2[i])) > 0 THEN l
    ELSE Coalesce([l EXCEPT !.len = @ - Common(l, i, j),
                            !.d2[i] = IF seqcmp(End(l, j), @) > 0 THEN End(l, j) ELSE @,
                            !.d1[j] = None, !.d2[j] = None, !.nx[j] = None, !.nx[i] = l.nx[j]], i)

Insert(l, a, b) ==
  IF l.len = 0
  THEN [Node(l, 0, a, b) EXCEPT !.head = 0, !.nx[0] = None, !.last = 0, !.len = seqlen(a, b)]
  ELSE LET loc == Loc(l, a)
           from == IF l.last # None /\ seqcmp(l.d1[l.last], a) < 0 THEN l.last ELSE l.head
           i == Before(l, from, a)
           grown(m, k) == IF m.len = l.len THEN m ELSE Coalesce(m, k)
       IN IF seqoff(l.d1[l.head], a) < 0
          THEN Coalesce([Node(l, loc, a, b) EXCEPT !.nx[loc] = l.head, !.head = loc, !.last = loc,
                                                   !.len = @ + seqlen(a, b)], loc)
          ELSE IF a = l.d1[loc]
          THEN grown(Stretch([l EXCEPT !.last = loc], loc, b), loc)
          ELSE IF seqcmp(End(l, i), a) < 0
          THEN Coalesce([Node(l, loc, a, b) EXCEPT !.nx[loc] = l.nx[i], !.nx[i] = loc, !.last = loc,
                                                   !.len = @ + seqlen(a, b)], loc)
          ELSE grown(Stretch([l EXCEPT !.last = i], i, b), i)

-----------------------------------------------------------------------------
(* remove and getLostSeq *)

\* The rest of a node, after one of its numbers, is a node at the next place.
Rest(l, i, loc, s) ==
  [l EXCEPT !.d1[loc] = incseq(s),
            !.d2[loc] = IF seqcmp(l.d2[i], incseq(s)) > 0 THEN l.d2[i] ELSE @,
            !.nx[loc] = l.nx[i]]

\* A node before a place is the last one that was inserted, for all it says.
Forget(l, i) == IF l.last = i THEN None ELSE l.last

\* The nodes from one on, up to the head, are dropped.
RECURSIVE Drop(_, _)
Drop(l, h) ==
  IF h = l.head THEN l
  ELSE Drop([l EXCEPT !.len = @ - seqlen(l.d1[h], End(l, h)), !.d1[h] = None, !.d2[h] = None, !.nx[h] = None,
                      !.last = Forget(l, h)], l.nx[h])

\* The first number leaves the list.
Behead(l) ==
  LET h == l.head
      next == (h + 1) % Size
      m == IF l.d2[h] = None THEN [l EXCEPT !.head = l.nx[h]]
           ELSE [Rest(l, h, next, l.d1[h]) EXCEPT !.head = next, !.d2[h] = None]
  IN [m EXCEPT !.d1[h] = None, !.nx[h] = None, !.last = Forget(l, h), !.len = @ - 1]

\* All numbers up to one leave it.
Remove(l, s) ==
  IF l.len = 0 \/ seqoff(l.d1[l.head], s) < 0 THEN l
  ELSE IF seqoff(l.d1[l.head], s) = 0 THEN Behead(l)
  ELSE LET loc == Loc(l, s)
           next == (loc + 1) % Size
           i == IF s = l.d1[loc] THEN loc ELSE Before(l, l.head, s)
           m == IF seqcmp(End(l, i), s) > 0
                THEN [Rest(l, i, next, s) EXCEPT !.head = next, !.nx[i] = next,
                                                 !.d2[i] = IF i = loc THEN None ELSE s]
                ELSE [l EXCEPT !.head = l.nx[i]]
       IN Drop(m, l.head)

-----------------------------------------------------------------------------
(* The sender: processCtrl and packData of core.cpp. *)

Send ==
  /\ seqoff(ack, incseq(curr)) < Window
  /\ curr # incseqBy(ISN, MaxSend - 1)
  /\ curr' = incseq(curr)
  /\ UNCHANGED <<list, losses, ack>>

Outstanding == IF ack = incseq(curr) THEN {} ELSE Between(ack, curr)

Report(a, b) ==
  /\ seqcmp(a, b) <= 0
  /\ list' = Insert(list, a, b)
  /\ losses' = losses \cup Between(a, b)
  /\ UNCHANGED <<ack, curr>>

Acknowledge(a) ==
  /\ ack' = incseq(a)
  /\ list' = Remove(list, a)
  /\ losses' = {s \in losses : seqcmp(s, a) > 0}
  /\ UNCHANGED <<curr>>

getLostSeq ==
  /\ list.len > 0
  /\ list' = Behead(list)
  /\ losses' = losses \ {list.d1[list.head]}
  /\ UNCHANGED <<ack, curr>>

Next ==
  \/ Send \/ getLostSeq
  \/ \E a, b \in Outstanding : Report(a, b)
  \/ \E a \in Outstanding : Acknowledge(a)

Spec == Init /\ [][Next]_vars

-----------------------------------------------------------------------------
(* Properties. *)

\* The numbers of the list, from a node on.
RECURSIVE Members(_, _)
Members(l, i) == IF i = None THEN {} ELSE Between(l.d1[i], End(l, i)) \cup Members(l, l.nx[i])

First(set) == CHOOSE s \in set : \A t \in set : seqcmp(s, t) <= 0

\* The list holds the losses, however they were reported and acknowledged, and its
\* length is their number: no node is lost or counted twice when ranges overlap.
\* What was sent first is sent again first.
HoldsTheLosses ==
  /\ list.len = Cardinality(losses)
  /\ list.len > 0 => Members(list, list.head) = losses /\ list.d1[list.head] = First(losses)
=============================================================================
