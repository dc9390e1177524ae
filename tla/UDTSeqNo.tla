-------------------------------- MODULE UDTSeqNo --------------------------------
(***************************************************************************)
(* Sequence numbers of UDT (CSeqNo in common.h): they wrap around, and two *)
(* of them are compared by the shorter way between them.                   *)
(***************************************************************************)
EXTENDS Integers

CONSTANTS MaxSeqNo,   \* 2^31 - 1 in the code
          SeqNoTH     \* 2^30 - 1 in the code

ASSUME SeqNoAssumption ==
  /\ MaxSeqNo \in Nat /\ SeqNoTH \in Nat
  /\ SeqNoTH > 0 /\ 2 * SeqNoTH <= MaxSeqNo + 1

SeqNos == 0 .. MaxSeqNo

Abs(n) == IF n < 0 THEN -n ELSE n

seqcmp(a, b) == IF Abs(a - b) < SeqNoTH THEN a - b ELSE b - a

seqlen(a, b) == IF a <= b THEN b - a + 1 ELSE b - a + MaxSeqNo + 2

seqoff(a, b) ==
  IF Abs(a - b) < SeqNoTH THEN b - a
  ELSE IF a < b THEN b - a - MaxSeqNo - 1 ELSE b - a + MaxSeqNo + 1

incseq(a) == IF a = MaxSeqNo THEN 0 ELSE a + 1

decseq(a) == IF a = 0 THEN MaxSeqNo ELSE a - 1

incseqBy(a, n) == IF MaxSeqNo - a >= n THEN a + n ELSE a - MaxSeqNo + n - 1

\* The numbers from one to another, in the order of the circle.
Between(a, b) == {incseqBy(a, n) : n \in 0 .. seqoff(a, b)}
=============================================================================
