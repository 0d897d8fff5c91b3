--------------------------- MODULE MCOutboundQueue ---------------------------
(***************************************************************************)
(* Instances of OutboundQueue for TLC.                                     *)
(***************************************************************************)
EXTENDS OutboundQueue, TLC

CONSTANTS m1, m2, r1, r2, i1, i2

\* Both messages to one recipient, or one each to two.
TwoMsgs   == {m1, m2}
RcptPair  == [m \in TwoMsgs |-> r1]
RcptSplit == [m \in TwoMsgs |-> IF m = m1 THEN r1 ELSE r2]

\* Distinct IDs, and an ID shared by all messages.
IdDistinct == [m \in TwoMsgs |-> IF m = m1 THEN i1 ELSE i2]
IdClash    == [m \in TwoMsgs |-> i1]

\* Workers run the same code, so their names do not matter.
WorkerSymmetry == Permutations(Workers)
=============================================================================
