--------------------------- MODULE ExternalSortMC ---------------------------
(* Instance of ExternalSort for TLC.  Rows with equal keys (a1 and a2 in   *)
(* both columns, b1 and b2 in the first), a row that exceeds the compact   *)
(* budget and one that exceeds the run budget; requests with one and two   *)
(* sort columns, ascending and descending.                                 *)
EXTENDS ExternalSort

CONSTANTS a1, a2, b1, b2, c1

MCKey == [row \in Rows |-> CASE row \in {a1, a2} -> <<1, 5>> [] row = b1 -> <<2, 7>>
                             [] row = b2 -> <<2, 6>> [] row = c1 -> <<3, 4>>]
MCRowBytes == [row \in Rows |-> IF row = c1 THEN 5 ELSE 2]
MCCompactBytes == [row \in Rows |-> IF row = b2 THEN 4 ELSE 1]

By(column, ascending) == [column |-> column, ascending |-> ascending]
SpecChoices == {<<By(1, TRUE)>>, <<By(1, TRUE), By(2, TRUE)>>, <<By(2, FALSE), By(1, TRUE)>>}

Inputs == {<<a1, b1, b2, a2, c1>>, <<c1, b2, b1, a1, a2>>,
           <<a1, a2, b1, b2, c1>>, <<a2, b1, b2>>, <<>>}

AllRequests == [specs : SpecChoices, rows : Inputs, ordered : BOOLEAN, pipeline : BOOLEAN]

\* Requests whose statistics are right, and the others.
MCRequests == {request \in AllRequests : StatisticsHold(request)}
MCMisledRequests == AllRequests \ MCRequests

=============================================================================
