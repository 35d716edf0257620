-------------------------------- MODULE Search --------------------------------
(***************************************************************************)
(* ad9361_find_opt (sw/ad9361.c): of a row of settings, some of which fail, *)
(* the longest run that works.  The calibration of the transmitter and the  *)
(* tuning of the data interface set its middle.                            *)
(***************************************************************************)
EXTENDS Integers

\* Mutant: a run that reaches the end of the row is forgotten.
FindOptOpen(bad, size) ==
  LET walk[i \in 0..size] ==
        IF i = 0 THEN [start |-> -1, cnt |-> 0, maxStart |-> 0, maxCnt |-> 0]
        ELSE LET w == walk[i - 1]
             IN IF ~bad[i - 1]
                  THEN [w EXCEPT !.start = IF @ = -1 THEN i - 1 ELSE @, !.cnt = @ + 1]
                ELSE IF w.cnt > w.maxCnt
                  THEN [start |-> -1, cnt |-> 0, maxStart |-> w.start, maxCnt |-> w.cnt]
                ELSE [w EXCEPT !.start = -1, !.cnt = 0]
      end == walk[size]
  IN [start |-> end.maxStart, cnt |-> end.maxCnt]

\* The walk of the loop over bad[0..size - 1], and the run that is open at its
\* end.
FindOpt(bad, size) ==
  LET walk[i \in 0..size] ==
        IF i = 0 THEN [start |-> -1, cnt |-> 0, maxStart |-> 0, maxCnt |-> 0]
        ELSE LET w == walk[i - 1]
             IN IF ~bad[i - 1]
                  THEN [w EXCEPT !.start = IF @ = -1 THEN i - 1 ELSE @, !.cnt = @ + 1]
                ELSE IF w.cnt > w.maxCnt
                  THEN [start |-> -1, cnt |-> 0, maxStart |-> w.start, maxCnt |-> w.cnt]
                ELSE [w EXCEPT !.start = -1, !.cnt = 0]
      end == walk[size]
  IN IF end.cnt > end.maxCnt THEN [start |-> end.start, cnt |-> end.cnt]
                             ELSE [start |-> end.maxStart, cnt |-> end.maxCnt]

\* Mutant: the end of the run.
MiddleEnd(run) == run.start + run.cnt
Middle(run) == run.start + run.cnt \div 2
=============================================================================
