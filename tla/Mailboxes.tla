----------------------------- MODULE Mailboxes -----------------------------
(***************************************************************************)
(* What the command queues of a serialqueue promise to those who send:     *)
(* whatever is put into a queue leaves it once, in the order it was put    *)
(* there; nothing is promised between queues.                              *)
(***************************************************************************)
EXTENDS Naturals, Sequences, SequencesExt

CONSTANT Queues

VARIABLES
  put,    \* put[q]: all that was ever put into a queue
  gone    \* gone[q]: how much of it has left

boxes == <<put, gone>>

BoxInit == /\ put = [q \in Queues |-> <<>>]
           /\ gone = [q \in Queues |-> 0]

\* New messages are put into a queue.
Put(q) ==
  /\ IsStrictPrefix(put[q], put'[q])
  /\ IsInjective(put'[q])
  /\ \A p \in Queues \ {q} : /\ put'[p] = put[p]
                             /\ ToSet(put[p]) \intersect ToSet(put'[q]) = {}
  /\ gone' = gone

\* The oldest message of a queue leaves it.
Take(q) ==
  /\ gone[q] < Len(put[q])
  /\ gone' = [gone EXCEPT ![q] = @ + 1]
  /\ put' = put

BoxNext == \E q \in Queues : Put(q) \/ Take(q)
BoxSpec == BoxInit /\ [][BoxNext]_boxes
=============================================================================
