----------------------------- MODULE MCStepSync -----------------------------
(* Small instances of StepSync: what each is for is said in the README. *)
EXTENDS StepSync

Moves(gaps, dirs) == [k \in DOMAIN gaps |-> [gap |-> gaps[k], dir |-> dirs[k]]]

Scenario(single, invert, homing, punctual, plan) ==
    [single |-> single, invert |-> invert, homing |-> homing,
     punctual |-> punctual, plan |-> plan]

SmallScenarios ==
    { \* a homing move: pulses in two halves, inverted, turning once
      Scenario(FALSE, 1, TRUE, TRUE, <<Moves(<<2, 2, 2>>, <<1, 1, 0>>)>>),
      \* the same with a step on every edge, accelerating, the last step taken back
      Scenario(TRUE, 0, TRUE, TRUE, <<Moves(<<3, 2, 1>>, <<1, 1, 0>>)>>),
      Scenario(TRUE, 0, TRUE, TRUE, <<Moves(<<3, 2, 1>>, <<1, 1, 1>>)>>),
      \* a step far in the future
      Scenario(FALSE, 1, TRUE, TRUE, <<Moves(<<1, 6>>, <<1, 0>>)>>),
      \* two motors share the pool
      Scenario(FALSE, 0, FALSE, TRUE,
               <<Moves(<<2, 2, 2>>, <<1, 1, 1>>), Moves(<<2, 2, 2>>, <<1, 1, 1>>)>>),
      \* commands that come too late
      Scenario(FALSE, 0, TRUE, FALSE, <<Moves(<<2, 1>>, <<1, 1>>)>>) }
=============================================================================
