------------------------- MODULE MCNatsPullConsumer -------------------------
(* Bounded instances of NatsPullConsumer for TLC. *)
EXTENDS NatsPullConsumer

\* A plain and an adaptive configuration with a short channel, and two that
\* Validate refuses: a tier of size zero, thresholds that do not rise.
Base == [batch |-> 2, queue |-> 1, maxDeliver |-> 2, adaptive |-> FALSE,
         medium |-> 0, high |-> 0,
         lowBatch |-> 0, mediumBatch |-> 0, highBatch |-> 0]
Tiers == [Base EXCEPT !.adaptive = TRUE, !.medium = 1, !.high = 2,
                      !.lowBatch = 1, !.mediumBatch = 1, !.highBatch = 2]
SomeConfigs == {Base, Tiers, [Tiers EXCEPT !.lowBatch = 0],
                [Tiers EXCEPT !.high = 1]}

=============================================================================
