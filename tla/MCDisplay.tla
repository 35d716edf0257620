------------------------------ MODULE MCDisplay ------------------------------
(* Instances of MipmapView and SampleLayout for TLC: the one that is in focus  *)
(* moves, the other stays where it starts.                                     *)
EXTENDS MipmapView, SampleLayout

VARIABLE focus

\* Three levels in place of four; with a base step of 2 and chunks of 2 points
\* the levels have 2, 4 and 8 samples a point and the waveform 64 samples.
SmallSteps == <<2, 2, 4>>

\* Below the start and past the end, around every chunk boundary and around the
\* spans where the level changes.
Positions == {-5, 7, 17, 32, 47, 61, 70}

\* The start, both sides of the end of the FFT, and the last bins.
SmallStarts == {0, 100, 127, 128, 129, 254}

DisplayInit == focus \in {"view", "layout"} /\ Init /\ LayoutInit
DisplayNext ==
  \/ focus = "view" /\ Next /\ UNCHANGED <<focus, layoutVars>>
  \/ focus = "layout" /\ LayoutNext /\ UNCHANGED <<focus, vars>>
DisplaySpec == DisplayInit /\ [][DisplayNext]_<<focus, vars, layoutVars>>

\* What the reader and its sample order keep of their types.
DisplayTypeOK == TypeOK /\ LayoutTypeOK
=============================================================================
