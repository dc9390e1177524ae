----------------------------- MODULE UDTRcvLossList -----------------------------
(***************************************************************************)
(* The loss list of a UDT receiver (CRcvLossList in list.cpp): the ranges  *)
(* of what has not come, in a doubly linked list that lives in arrays.     *)
(* New losses are later than all others; a packet that comes may be any of *)
(* them, and cuts its range; the sender may ask to drop a range.  The      *)
(* links of free nodes are left out (-1).                                  *)
(***************************************************************************)
EXTENDS UDTSeqNo, FiniteSets

CONSTANTS Size,      \* of the arrays: the flow window
          ISN,       \* the initial sequence number
          MaxRecv    \* the packets that the receiver hears of at all

VARIABLES
  list,    \* the list
  losses,  \* what it is to hold: a set
  curr,    \* the largest number that has come
  dropped, \* a range was dropped that crosses the end of the circle
  hung     \* the receiver is in a loop that does not end

vars == <<list, losses, curr, dropped, hung>>

Places == 0 .. Size - 1
None == -1

Init ==
  /\ list = [d1 |-> [i \in Places |-> None], d2 |-> [i \in Places |-> None],
             nx |-> [i \in Places |-> None], pr |-> [i \in Places |-> None],
             head |-> None, tail |-> None, len |-> 0]
  /\ losses = {} /\ curr = decseq(ISN) /\ dropped = FALSE /\ hung = FALSE

Loc(l, s) == (l.head + seqoff(l.d1[l.head], s)) % Size

End(l, i) == IF l.d2[i] = None THEN l.d1[i] ELSE l.d2[i]

Node(l, i, a, b) == [l EXCEPT !.d1[i] = a, !.d2[i] = IF b # a THEN b ELSE @]

Insert(l, a, b) ==
  IF l.len = 0
  THEN [Node(l, 0, a, b) EXCEPT !.head = 0, !.tail = 0, !.nx[0] = None, !.pr[0] = None, !.len = seqlen(a, b)]
  ELSE LET loc == Loc(l, a) IN
       IF l.d2[l.tail] # None /\ incseq(l.d2[l.tail]) = a
       THEN [l EXCEPT !.d2[l.tail] = b, !.len = @ + seqlen(a, b)]
       ELSE [Node(l, loc, a, b) EXCEPT !.nx[l.tail] = loc, !.pr[loc] = l.tail, !.nx[loc] = None,
                                       !.tail = loc, !.len = @ + seqlen(a, b)]

-----------------------------------------------------------------------------
(* remove, for one number *)

\* Links that are none are not set.
Link(f, i, j) == IF i = None THEN f ELSE [f EXCEPT ![i] = j]

\* The node of a single loss leaves the list.
Unlink(l, i) ==
  [l EXCEPT !.head = IF @ = i THEN l.nx[i] ELSE @,
            !.tail = IF l.head # i /\ l.nx[i] = None THEN l.pr[i] ELSE @,
            !.nx = [Link(@, l.pr[i], l.nx[i]) EXCEPT ![i] = None],
            !.pr = [Link(@, l.nx[i], l.pr[i]) EXCEPT ![i] = None],
            !.d1[i] = None]

\* The end of a range that has lost its start, if it is one number.
Remaining(l, i, s) == IF seqcmp(l.d2[i], incseq(s)) > 0 THEN l.d2[i] ELSE None

\* The node moves to the next place, with the rest of its range.
Shift(l, i) ==
  LET j == (i + 1) % Size IN
  [l EXCEPT !.d1 = [@ EXCEPT ![j] = incseq(l.d1[i]), ![i] = None],
            !.d2 = [@ EXCEPT ![j] = Remaining(l, i, l.d1[i]), ![i] = None],
            !.nx = [Link(@, l.pr[i], j) EXCEPT ![j] = l.nx[i], ![i] = None],
            !.pr = [Link(@, l.nx[i], j) EXCEPT ![j] = l.pr[i], ![i] = None],
            !.head = IF @ = i THEN j ELSE @,
            !.tail = IF @ = i THEN j ELSE @]

\* A range that ends where it ended, when its end has come.
EndKept(l, i, s) == l.d2[i]

\* The end of a range whose last number, or what follows it, is gone.
EndBefore(l, i, s) == IF s = incseq(l.d1[i]) THEN None ELSE decseq(s)

\* The range is cut in two, and what follows the number is a node of its own.
Split(l, i, s, loc) ==
  [l EXCEPT !.d1[loc] = incseq(s),
            !.d2 = [@ EXCEPT ![loc] = Remaining(l, i, s), ![i] = EndBefore(l, i, s)],
            !.nx = [@ EXCEPT ![loc] = l.nx[i], ![i] = loc],
            !.pr = [Link(@, l.nx[i], loc) EXCEPT ![loc] = i],
            !.tail = IF @ = i THEN loc ELSE @]

\* The first node at or before a place.
RECURSIVE Back(_, _)
Back(l, i) == IF l.d1[i] # None THEN i ELSE Back(l, (i - 1 + Size) % Size)

Remove(l, s) ==
  IF l.len = 0 \/ seqoff(l.d1[l.head], s) < 0 THEN l
  ELSE LET loc == Loc(l, s) IN
       IF s = l.d1[loc]
       THEN IF l.d2[loc] = None THEN [Unlink(l, loc) EXCEPT !.len = @ - 1]
                                ELSE [Shift(l, loc) EXCEPT !.len = @ - 1]
       ELSE LET i == Back(l, (loc - 1 + Size) % Size) IN
            IF seqcmp(s, End(l, i)) > 0 THEN l
            ELSE IF s = l.d2[i] THEN [l EXCEPT !.d2[i] = EndBefore(l, i, s), !.len = @ - 1]
            ELSE [Split(l, i, s, (loc + 1) % Size) EXCEPT !.len = @ - 1]

\* remove, for a range: each number of it, but that a range over the end of the
\* circle misses the last number.  The loop's counter is as wide as the numbers: no
\* value of it is beyond the last one, and the loop up to that one does not end.
RECURSIVE RemoveFrom(_, _, _)
RemoveFrom(l, a, b) == IF a > b THEN l ELSE RemoveFrom(Remove(l, a), a + 1, b)

Endless(a, b) == a <= b /\ b = MaxSeqNo

RemoveRange(l, a, b) ==
  IF a <= b THEN RemoveFrom(l, a, b)
  ELSE RemoveFrom(RemoveFrom(l, a, MaxSeqNo - 1), 0, b)

\* find
Lacks(l, i, a, b) ==
  \/ seqcmp(l.d1[i], a) >= 0 /\ (l.d1[i] = a \/ seqcmp(l.d1[i], b) <= 0)
  \/ seqcmp(l.d1[i], a) < 0 /\ l.d2[i] # None /\ seqcmp(l.d2[i], a) >= 0

RECURSIVE Find(_, _, _, _)
Find(l, i, a, b) == i # None /\ (Lacks(l, i, a, b) \/ Find(l, l.nx[i], a, b))

\* getLossArray: the ranges from a node on, as long as there is room for two words.
RECURSIVE Report(_, _, _, _)
Report(l, i, words, limit) ==
  IF i = None \/ words >= limit - 1 THEN {}
  ELSE {<<l.d1[i], End(l, i)>>} \cup
       Report(l, l.nx[i], words + (IF l.d2[i] = None THEN 1 ELSE 2), limit)

-----------------------------------------------------------------------------
(* The receiver: processData and processCtrl of core.cpp. *)

Heard(s) == seqoff(ISN, s) \in 0 .. MaxRecv - 1

\* A packet that is ahead shows the losses before it.
Ahead(s) ==
  /\ Heard(s) /\ seqoff(incseq(curr), s) > 0
  /\ losses # {} => seqoff(list.d1[list.head], s) < Size
  /\ seqoff(curr, s) < Size
  /\ list' = Insert(list, incseq(curr), decseq(s))
  /\ losses' = losses \cup Between(incseq(curr), decseq(s))
  /\ curr' = s
  /\ UNCHANGED <<dropped, hung>>

InOrder ==
  /\ Heard(incseq(curr))
  /\ curr' = incseq(curr)
  /\ UNCHANGED <<list, losses, dropped, hung>>

\* A packet that comes again, or late.
Late(s) ==
  /\ curr # decseq(ISN) /\ s \in Between(ISN, curr)
  /\ list' = Remove(list, s)
  /\ losses' = losses \ {s}
  /\ UNCHANGED <<curr, dropped, hung>>

\* Two that have come already are the ends of a message that the sender drops.  In a
\* loop that does not end, the list is as it is when the counter overflows.
DropMessage(a, b) ==
  /\ curr # decseq(ISN) /\ a \in Between(ISN, curr) /\ b \in Between(a, curr)
  /\ list' = RemoveRange(list, a, b)
  /\ losses' = losses \ Between(a, b)
  /\ dropped' = (dropped \/ a > b)
  /\ hung' = Endless(a, b)
  /\ UNCHANGED curr

\* The thread that would take the next packet is the one in the loop.
Next ==
  /\ ~hung
  /\ \/ InOrder
     \/ \E s \in SeqNos : Ahead(s) \/ Late(s)
     \/ \E a, b \in SeqNos : DropMessage(a, b)

Spec == Init /\ [][Next]_vars

-----------------------------------------------------------------------------
(* Properties. *)

\* The numbers of the list, from a node on.
RECURSIVE Members(_, _)
Members(l, i) == IF i = None THEN {} ELSE Between(l.d1[i], End(l, i)) \cup Members(l, l.nx[i])

\* The same, from the tail back.
RECURSIVE MembersBack(_, _)
MembersBack(l, i) == IF i = None THEN {} ELSE Between(l.d1[i], End(l, i)) \cup MembersBack(l, l.pr[i])

HoldsTheLosses ==
  /\ list.len = Cardinality(losses)
  /\ list.len > 0 => Members(list, list.head) = losses /\ MembersBack(list, list.tail) = losses

\* The receiver gets through every range that it is to drop.  It does not hold, for
\* a range whose end is the last number of the circle (list.cpp:642).
RemovalsEnd == ~hung

\* The list holds the losses, whatever packets come late or twice and whatever
\* ranges are dropped, as long as no range that is dropped crosses the end of the
\* circle and the receiver is not caught in one that ends there; forwards and backwards.
HoldsUnlessDropped == dropped \/ hung \/ HoldsTheLosses

\* A report names losses only, and all of them if the packet has room; find is
\* right about a range.
ReportsTheLosses ==
  ~dropped /\ ~hung /\ list.len > 0 =>
    /\ UNION {Between(r[1], r[2]) : r \in Report(list, list.head, 0, 2 * Size)} = losses
    /\ \A s \in SeqNos : seqoff(list.d1[list.head], s) >= 0 /\ seqoff(s, curr) >= 0 =>
         Find(list, list.head, s, curr) = (losses \cap Between(s, curr) # {})
=============================================================================
