--------------------------- MODULE MCTokenGovernor ---------------------------
(***************************************************************************)
(* Small budgets of every kind of meter, alone and in pairs.               *)
(***************************************************************************)
EXTENDS TokenGovernor, TLC

Fixed   == [kind |-> "fixed",   limit |-> 4, period |-> 3]
Rolling == [kind |-> "rolling", limit |-> 4, period |-> 2]
Session == [kind |-> "session", limit |-> 3, period |-> 2]
Credit  == [kind |-> "credit",  limit |-> 4, period |-> 2, refill |-> 3, initial |-> 3]

MCBudgets == {<<Fixed, Rolling>>, <<Session>>, <<Credit, Session>>}

MCEstimates == {[input |-> 1, output_reserve |-> 1], [input |-> 2, output_reserve |-> 1]}

MCUsages == {[input |-> None, output |-> None], [input |-> 2, output |-> 2]}

Row(at, tokens, covered) == [at |-> at, tokens |-> tokens, covered |-> covered]

\* Rows before, inside and after the window, two of the same time, one of them
\* for another model.
MCHistories == {{}, {Row(3, 1, TRUE), Row(3, 2, TRUE), Row(2, 3, FALSE)},
                {Row(-5, 4, TRUE), Row(1, 1, TRUE), Row(2, 2, TRUE), Row(9, 3, TRUE)}}

CallSymmetry == Permutations(Calls)
==============================================================================
