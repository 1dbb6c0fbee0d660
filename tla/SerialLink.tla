----------------------------- MODULE SerialLink -----------------------------
(***************************************************************************)
(* The host's serialqueue and the micro-controller's console connected by  *)
(* a wire that keeps the order of what it carries but may lose or corrupt  *)
(* it.  MaxFaults bounds the faults, MaxSeq the blocks that are built.     *)
(***************************************************************************)
EXTENDS SerialQueue, McuConsole

CONSTANTS
  Notify,     \* whether a block may, or must, have a sender that waits
  MaxFaults   \* bound on the faults of the wire
ASSUME NotifyAssumption    == TRUE \in Notify /\ Notify \subseteq BOOLEAN
ASSUME MaxFaultsAssumption == MaxFaults \in Nat

VARIABLE faults   \* the number of wire faults so far

vars == <<hostVars, mcuVars, wireVars, faults>>

TypeOK ==
  /\ HostTypeOK
  /\ McuTypeOK
  /\ h2m \in Seq(Block)
  /\ m2h \in Seq(Frame)
  /\ faults \in 0..MaxFaults

Init ==
  /\ HostInit
  /\ McuInit
  /\ h2m = <<>> /\ m2h = <<>>
  /\ faults = 0

(***************************************************************************)
(* Faults hit the oldest block or frame only: the wire is first-in first-  *)
(* out, so a fault on a younger one can as well happen when its turn comes.*)
(***************************************************************************)
Fault ==
  /\ faults < MaxFaults
  /\ faults' = faults + 1
  /\ UNCHANGED <<hostVars, mcuVars>>

LoseBlock == h2m # <<>> /\ h2m' = Tail(h2m) /\ m2h' = m2h /\ Fault

CorruptBlock ==
  /\ h2m # <<>> /\ Head(h2m).ok
  /\ h2m' = <<Bad(Head(h2m).len)>> \o Tail(h2m)
  /\ m2h' = m2h
  /\ Fault

LoseFrame == m2h # <<>> /\ m2h' = Tail(m2h) /\ h2m' = h2m /\ Fault

CommandEvent ==
  /\ \E len \in Lens, notify \in Notify : command_event(len, notify)
  /\ UNCHANGED <<mcuVars, faults>>
RetransmitEvent == retransmit_event /\ UNCHANGED <<mcuVars, faults>>
HandleMessage   == handle_message   /\ UNCHANGED <<mcuVars, faults>>
StartSession    == start_session    /\ UNCHANGED <<mcuVars, faults>>

ReceiveData      == canserial_process_data /\ UNCHANGED <<hostVars, faults>>
FindGarbage      == find_garbage           /\ UNCHANGED <<hostVars, faults>>
FindUnexpected   == find_unexpected        /\ UNCHANGED <<hostVars, faults>>
Dispatch         == command_dispatch       /\ UNCHANGED <<hostVars, faults>>
Respond          == sendf                  /\ UNCHANGED <<hostVars, faults>>
SendAck          == command_send_ack       /\ UNCHANGED <<hostVars, faults>>
DispatchShutdown == dispatch_shutdown      /\ UNCHANGED <<hostVars, faults>>

McuNext  == \/ ReceiveData \/ FindGarbage \/ FindUnexpected \/ Dispatch
            \/ Respond \/ SendAck \/ DispatchShutdown
HostNext == CommandEvent \/ RetransmitEvent \/ HandleMessage \/ StartSession
WireNext == LoseBlock \/ CorruptBlock \/ LoseFrame

Next == HostNext \/ McuNext \/ WireNext

Spec == Init /\ [][Next]_vars

(***************************************************************************)
(* The background thread keeps polling, the receive interrupt and the      *)
(* console task keep running.  Nothing forces new commands or responses.   *)
(* Strong fairness says that of the retransmissions some find an idle link *)
(* when it is idle again and again: the timeout doubles with each one up   *)
(* to MAX_RTO (five seconds), far longer than the link needs to drain.     *)
(***************************************************************************)
LinkIdle == h2m = <<>> /\ receive_buf = <<>>
IdleRetransmit == LinkIdle /\ RetransmitEvent

Fairness ==
  /\ WF_vars(RetransmitEvent) /\ SF_vars(IdleRetransmit)
  /\ WF_vars(HandleMessage) /\ WF_vars(StartSession)
  /\ WF_vars(ReceiveData) /\ WF_vars(FindGarbage) /\ WF_vars(FindUnexpected)
  /\ WF_vars(Dispatch) /\ WF_vars(SendAck)

FairSpec == Spec /\ Fairness

-----------------------------------------------------------------------------
Established == receive_seq # 1

\* The micro-controller dispatches the blocks exactly once and in order,
\* although retransmissions duplicate them and next_sequence
\* has only SeqMod values (command_find_block against retransmit_event).
ExactlyOnceInOrder ==
  \A i \in 1..Len(delivered) : delivered[i] = base + i - 1

\* The host forgets a block (update_receive_seq) only after the
\* micro-controller dispatched it: an acknowledgement modulo SeqMod is never
\* taken for a later one.
AckSound == Established => receive_seq <= NextId

\* Whatever the micro-controller has not dispatched is still queued for
\* retransmission, the queue is the contiguous range receive_seq..send_seq-1,
\* and it fits the MAX_PENDING_BLOCKS of the retransmit buffer.
SentQueueComplete ==
  /\ Len(sent_queue) <= MaxPending
  /\ Len(sent_queue) = send_seq - receive_seq
  /\ \A i \in 1..Len(sent_queue) :
       /\ sent_queue[i].id = receive_seq + i - 1
       /\ sent_queue[i].seq = (receive_seq + i - 1) % SeqMod

\* The retransmit timer runs exactly while something is unacknowledged, so
\* no loss can go unnoticed and no retransmission is empty.
TimerArmed == retransmit_timer = "never" <=> sent_queue = <<>>

\* Until a first retransmission the receive window keeps the blocks under
\* way from ever overflowing the micro-controller's receive_buf, even when a
\* response acknowledges a block that still occupies the buffer.
NoReceiveOverflow ==
  retransmit_seq = 0 => Bytes(h2m) + Bytes(receive_buf) <= RcvWindow

\* Once a session is up, a sender that waits for its block is woken only
\* after the block was dispatched and after every response that the block's
\* commands sent was handed to the host: SerialRetryCommand concludes from a
\* wakeup without a response that the response is lost.
WokenAfterResponses ==
  \A i \in 1..(Len(notify_queue) - Len(notify_queue')) :
    identify = "done" =>
      /\ notify_queue[i] < NextId
      /\ dispatching # notify_queue[i]
      /\ \A j \in 1..Len(m2h') : m2h'[j].src # notify_queue[i]
NotifiedAfterResponses == [][WokenAfterResponses]_vars

\* The link implements the command stream.
Stream == INSTANCE CommandStream WITH
            First    <- 1..SeqMod,
            start    <- base,
            built    <- IF send_seq < base THEN base ELSE send_seq,
            acked    <- IF receive_seq < base THEN base ELSE receive_seq,
            executed <- delivered
ImplementsCommandStream == Stream!StreamSpec

\* The timing assumption: retransmissions never keep the bus and the console
\* task busy forever.
LinkDrains == []<>LinkIdle

\* Once the faults are over, every block that was built in the established
\* session is dispatched and acknowledged, unless the background thread gave
\* up on a transmit queue that stayed full for ten seconds.
EventuallyAcknowledged ==
  LinkDrains => \A n \in 1..MaxSeq :
                  (Established /\ send_seq > n) ~> (receive_seq > n \/ must_exit)
=============================================================================
