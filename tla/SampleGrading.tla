--------------------------- MODULE SampleGrading ----------------------------
(***************************************************************************)
(* What the sample grader promises its caller, without a process, a pipe   *)
(* or a clock: the contract stated by the docstrings of BudgetedGrader.    *)
(* Every sample asked about is answered once, by a verdict on exactly that *)
(* sample or by a kind that decides nothing; a host that refuses a worker  *)
(* and a spent budget are each final, and nothing else is.                 *)
(***************************************************************************)
EXTENDS Naturals

CONSTANTS Requests, Nothing

Undecided == {"budget", "unserializable", "lost", "raised"}

VARIABLES
    mode,     \* "grading", then for good "unhostable", "exhausted" or "ended"
    open,     \* the sample being graded
    answer,   \* the answer to the last one
    calls     \* how many were answered

gradingVars == <<mode, open, answer, calls>>

NoAnswer == [req |-> Nothing, v |-> "none", about |-> Nothing]

Init ==
    /\ mode \in {"grading", "exhausted"}
    /\ open = Nothing /\ answer = NoAnswer /\ calls = 0

Reply(r, v, about) ==
    /\ answer' = [req |-> r, v |-> v, about |-> about]
    /\ calls' = calls + 1
    /\ open' = Nothing

Begin(r) ==
    /\ mode = "grading" /\ open = Nothing
    /\ open' = r /\ answer' = NoAnswer
    /\ UNCHANGED <<mode, calls>>

\* Any answer to a sample may be the one that spends the budget.
Decide ==
    /\ mode = "grading" /\ open # Nothing
    /\ Reply(open, "verdict", open)
    /\ mode' \in {"grading", "exhausted"}

Abandon ==
    /\ mode = "grading" /\ open # Nothing
    /\ \E v \in Undecided : Reply(open, v, Nothing)
    /\ mode' \in {"grading", "exhausted"}

\* A restart the sample paid for left less than a sample costs.
RunOut ==
    /\ mode = "grading" /\ open # Nothing
    /\ Reply(open, "exhausted", Nothing)
    /\ mode' = "exhausted"

LoseHost(r) ==
    /\ mode = "grading" /\ open \in {r, Nothing}
    /\ Reply(r, "unhostable", Nothing)
    /\ mode' \in {"unhostable", "exhausted"}

\* What is final is said of every sample after it.
Refuse(r) ==
    /\ mode \in {"unhostable", "exhausted"} /\ open = Nothing
    /\ Reply(r, mode, Nothing)
    /\ UNCHANGED mode

End ==
    /\ mode # "ended"
    /\ mode' = "ended" /\ open' = Nothing /\ answer' = NoAnswer
    /\ UNCHANGED calls

Next ==
    \/ \E r \in Requests : Begin(r) \/ LoseHost(r) \/ Refuse(r)
    \/ Decide \/ Abandon \/ RunOut \/ End

Spec == Init /\ [][Next]_gradingVars
=============================================================================
