---------------------------- MODULE MCSerialLink ----------------------------
(* Instances of SerialLink for TLC. *)
EXTENDS SerialLinkInvariant

\* The behaviours up to the first retransmission.
FirstTransmission == Init /\ [][Next /\ retransmit_seq' = 0]_vars
=============================================================================
