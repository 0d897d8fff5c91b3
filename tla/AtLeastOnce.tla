----------------------------- MODULE AtLeastOnce -----------------------------
(***************************************************************************)
(* What the outbound queue promises its callers: an accepted message stays *)
(* queued, is tried a bounded number of times, and is settled exactly once *)
(* -- after a try succeeded, or after enough tries failed.  Crashes of the *)
(* process are invisible here except as Slack in the counts.               *)
(***************************************************************************)
EXTENDS Naturals

CONSTANTS
  Msgs,      \* the messages
  MaxTries,  \* tries a message is entitled to
  Slack      \* tries that may be repeated or missing because of crashes

VARIABLES
  queued,    \* accepted and not settled
  done,      \* settled
  tries,     \* tries[m]: tries of m
  acks       \* acks[m]: tries of m that succeeded

vars == <<queued, done, tries, acks>>

Init ==
  /\ queued = {}
  /\ done = {}
  /\ tries = [m \in Msgs |-> 0]
  /\ acks = [m \in Msgs |-> 0]

Accept(m) ==
  /\ m \notin queued \cup done
  /\ queued' = queued \cup {m}
  /\ UNCHANGED <<done, tries, acks>>

Try(m) ==
  /\ m \in queued
  /\ tries[m] < MaxTries + Slack
  /\ tries' = [tries EXCEPT ![m] = @ + 1]
  /\ \/ UNCHANGED acks
     \/ acks[m] <= Slack /\ acks' = [acks EXCEPT ![m] = @ + 1]
  /\ UNCHANGED <<queued, done>>

Settle(m) ==
  /\ m \in queued
  /\ acks[m] > 0 \/ tries[m] + Slack >= MaxTries
  /\ queued' = queued \ {m}
  /\ done' = done \cup {m}
  /\ UNCHANGED <<tries, acks>>

Next == \E m \in Msgs : Accept(m) \/ Try(m) \/ Settle(m)

Spec == Init /\ [][Next]_vars
=============================================================================
