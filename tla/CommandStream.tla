--------------------------- MODULE CommandStream ---------------------------
(***************************************************************************)
(* What the host may rely on when it hands blocks of commands to the       *)
(* serial protocol: once a session is established the micro-controller     *)
(* executes every block exactly once and in the order they were built, and *)
(* a block is reported as acknowledged only after it was executed.         *)
(***************************************************************************)
EXTENDS Integers, Sequences

CONSTANT First    \* the numbers a session may start with

VARIABLES
  start,     \* the number of the session's first block
  built,     \* the number the next block gets
  acked,     \* every block below this number is acknowledged
  executed   \* the numbers of the blocks executed

streamVars == <<start, built, acked, executed>>

StreamInit ==
  /\ start \in First
  /\ built = start
  /\ acked = start
  /\ executed = <<>>

BuildBlock ==
  /\ built' = built + 1
  /\ UNCHANGED <<start, acked, executed>>

ExecuteBlock ==
  /\ start + Len(executed) < built
  /\ executed' = Append(executed, start + Len(executed))
  /\ UNCHANGED <<start, built, acked>>

AcknowledgeBlocks ==
  /\ acked' \in (acked + 1)..(start + Len(executed))
  /\ UNCHANGED <<start, built, executed>>

StreamNext == BuildBlock \/ ExecuteBlock \/ AcknowledgeBlocks

StreamSpec == StreamInit /\ [][StreamNext]_streamVars
=============================================================================
