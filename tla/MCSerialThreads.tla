-------------------------- MODULE MCSerialThreads --------------------------
(* Instances of SerialThreads for TLC. *)
EXTENDS SerialThreads

AtOnce       == <<0, 0>>
InBackground == <<0, BACKGROUND_PRIORITY_CLOCK>>
Later        == <<0, 5>>

\* Two messages on a link that goes on, with a clock estimate that is
\* corrected; and responses, without and with a message, on a link that may
\* end.
SmallScenarios ==
  {[msgs |-> 2, clocks |-> {AtOnce, Later}, resps |-> 0,
    adj |-> 1, ends |-> FALSE, send |-> 2, time |-> 4],
   [msgs |-> 0, clocks |-> {}, resps |-> 2,
    adj |-> 0, ends |-> TRUE, send |-> 0, time |-> 1],
   [msgs |-> 1, clocks |-> {AtOnce, InBackground}, resps |-> 1,
    adj |-> 0, ends |-> TRUE, send |-> 1, time |-> 2]}
=============================================================================
