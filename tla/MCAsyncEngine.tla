--------------------------- MODULE MCAsyncEngine ---------------------------
(* Values for the runs of AsyncEngine.                                     *)
EXTENDS AsyncEngine

CONSTANTS w1, w2, r1, r2, r3, r4, a, b

SecondIsB      == [r \in Requests |-> IF r = r2 THEN b ELSE a]
OneProfileEach == [s \in Sessions |-> IF s = a THEN 1 ELSE 2]

\* The third request spills over to the other worker, or is the only one there.
Spilling == [r \in Requests |-> IF r = r1 THEN {w1} ELSE IF r = r2 THEN {w2} ELSE {w1, w2}]
\* For the run that looks for one behaviour: two requests are served first.
TwoFirst == life[r3] # "new" => life[r1] = "released" /\ life[r2] = "released"

ThirdApart == [r \in Requests |-> IF r = r3 THEN {w2} ELSE {w1}]
=============================================================================
