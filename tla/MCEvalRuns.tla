------------------------------ MODULE MCEvalRuns ------------------------------
(* Two scenarios, one a refusal that reaches the network, over one or two invocations. *)
EXTENDS EvalRuns

MCScenarios == <<"build", "refusal">>

Twice         == <<2>>
TwiceThenOnce == <<2, 1>>
OnceAndOnce   == <<1, 1>>
=============================================================================
