------------------------------ MODULE LogStream ------------------------------
(***************************************************************************)
(* What a live reader of the logs is promised (pkg/logstore/hub.go): every *)
(* message that was offered to it is told once, in the order of the        *)
(* offers, either as itself or as one of a number that were dropped. The   *)
(* queue, its limit and the goroutine that empties it are the business of  *)
(* LogHub.                                                                 *)
(***************************************************************************)
EXTENDS Naturals

CONSTANT Readers

VARIABLES offered,      \* reader -> how many messages it should have heard of
          told,         \* reader -> of how many it has heard
          last          \* reader -> what it got last

StreamInit ==
  /\ offered = [r \in Readers |-> 0]
  /\ told = [r \in Readers |-> 0]
  /\ last = [r \in Readers |-> [lag |-> TRUE, n |-> 0]]

\* Any number of readers are offered one message more.
Offer(R) ==
  /\ offered' = [r \in Readers |-> IF r \in R THEN offered[r] + 1 ELSE offered[r]]
  /\ UNCHANGED <<told, last>>

\* The next message, by its number.
TellMessage(r) ==
  /\ told[r] < offered[r]
  /\ told' = [told EXCEPT ![r] = @ + 1]
  /\ last' = [last EXCEPT ![r] = [lag |-> FALSE, n |-> told[r] + 1]]
  /\ UNCHANGED offered

\* The next n messages are said to be lost.
TellLag(r, n) ==
  /\ n > 0 /\ told[r] + n <= offered[r]
  /\ told' = [told EXCEPT ![r] = @ + n]
  /\ last' = [last EXCEPT ![r] = [lag |-> TRUE, n |-> n]]
  /\ UNCHANGED offered

StreamNext ==
  \/ \E R \in SUBSET Readers : Offer(R)
  \/ \E r \in Readers : TellMessage(r) \/ \E n \in 1..offered[r] : TellLag(r, n)

StreamSpec == StreamInit /\ [][StreamNext]_<<offered, told, last>>
=============================================================================
