------------------------------- MODULE MCMove -------------------------------
(***************************************************************************)
(* Names are only compared: permuting them maps behaviours to behaviours.  *)
(* A history variable tells whether the power has ever been lost.          *)
(***************************************************************************)
EXTENDS Move, TLC

VARIABLE cut

NameSymmetry == Permutations(Names)

CutInit == MoveInit /\ cut = FALSE
CutNext == MoveNext /\ cut' = (cut \/ (pc # "off" /\ pc' = "off"))
CutSpec == CutInit /\ [][CutNext]_<<moveVars, cut>>

\* Until the power fails for the first time every allocated cluster belongs to an
\* entry: a call cut off leaks what it had in hand, no other call and no move does
\* (fat32.c:285-294, 398, 410-420; interrupt.c:128-137).
NoLeakWhilePowered == cut \/ NoLeak
=============================================================================
