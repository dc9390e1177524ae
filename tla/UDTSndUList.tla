------------------------------- MODULE UDTSndUList -------------------------------
(***************************************************************************)
(* The sockets that have something to send, in a heap by the time of their *)
(* next packet (CSndUList in queue.cpp).  Each socket knows its place in   *)
(* the heap, which the array does not outgrow: the one call that enlarges  *)
(* it, insert, is called by nobody.                                        *)
(***************************************************************************)
EXTENDS Naturals, Sequences, FiniteSets

CONSTANTS Socks,      \* the sockets
          MaxTime     \* the times of packets

VARIABLES
  heap,   \* m_pHeap up to m_iLastEntry
  loc,    \* m_iHeapLoc: the place of a socket, 0 if it is not on the heap
  ts      \* m_llTimeStamp

vars == <<heap, loc, ts>>

Times == 1 .. MaxTime

Init == heap = <<>> /\ loc = [u \in Socks |-> 0] /\ ts = [u \in Socks |-> 1]

\* Two places of the heap change, and their sockets learn of it.
Swap(h, p, q) ==
  [h EXCEPT !.heap = [@ EXCEPT ![p] = h.heap[q], ![q] = h.heap[p]],
            !.loc = [@ EXCEPT ![h.heap[q]] = p, ![h.heap[p]] = q]]

Time(h, q) == h.ts[h.heap[q]]

\* A socket rises while the one above it is later.
RECURSIVE Rise(_, _)
Rise(h, q) ==
  IF q > 1 /\ Time(h, q \div 2) > Time(h, q) THEN Rise(Swap(h, q \div 2, q), q \div 2) ELSE h

\* The earlier one of the two below a place.
Below(h, q) ==
  IF 2 * q + 1 <= Len(h.heap) /\ Time(h, 2 * q) > Time(h, 2 * q + 1) THEN 2 * q + 1 ELSE 2 * q

RECURSIVE Sink(_, _)
Sink(h, q) ==
  IF 2 * q <= Len(h.heap) /\ Time(h, q) > Time(h, Below(h, q))
  THEN Sink(Swap(h, Below(h, q), q), Below(h, q)) ELSE h

\* insert_
Insert(h, t, u) ==
  IF h.loc[u] # 0 THEN h
  ELSE LET last == Len(h.heap) + 1 IN
       Rise([heap |-> Append(h.heap, u), loc |-> [h.loc EXCEPT ![u] = last], ts |-> [h.ts EXCEPT ![u] = t]], last)

\* remove_: the last one takes the place, and sinks.
Remove(h, u) ==
  IF h.loc[u] = 0 THEN h
  ELSE LET q == h.loc[u]
           last == h.heap[Len(h.heap)]
           moved == [h EXCEPT !.heap = SubSeq([@ EXCEPT ![q] = last], 1, Len(@) - 1),
                              !.loc[last] = q]
       IN [(IF q <= Len(moved.heap) THEN Sink(moved, q) ELSE moved) EXCEPT !.loc[u] = 0]

Heap == [heap |-> heap, loc |-> loc, ts |-> ts]

Set(h) == heap' = h.heap /\ loc' = h.loc /\ ts' = h.ts

\* A socket gets something to send: it is put first, or stays where it is.
update(u, reschedule) ==
  Set(IF loc[u] = 0 THEN Insert(Heap, 1, u)
      ELSE IF ~reschedule THEN Heap
      ELSE IF loc[u] = 1 THEN [Heap EXCEPT !.ts[u] = 1]
      ELSE Insert(Remove(Heap, u), 1, u))

\* The first socket sends, and comes again later if it has more.
pop(t, again) ==
  /\ heap # <<>>
  /\ Set(IF again THEN Insert(Remove(Heap, heap[1]), t, heap[1]) ELSE Remove(Heap, heap[1]))

remove(u) == Set(Remove(Heap, u))

Next ==
  \/ \E u \in Socks : remove(u) \/ \E reschedule \in BOOLEAN : update(u, reschedule)
  \/ \E t \in Times, again \in BOOLEAN : pop(t, again)

Spec == Init /\ [][Next]_vars

-----------------------------------------------------------------------------
(* Properties. *)

\* Each socket is on the heap once, at the place it knows of, or not at all.
PlacesKnown ==
  /\ \A q \in DOMAIN heap : loc[heap[q]] = q
  /\ \A u \in Socks : loc[u] # 0 => loc[u] \in DOMAIN heap /\ heap[loc[u]] = u

\* The first one is the one whose time comes first.  It does not hold: what takes the
\* place of a socket that is removed may have to rise, and only sinks (remove_).
FirstIsEarliest == \A q \in DOMAIN heap : ts[heap[1]] <= ts[heap[q]]
=============================================================================
