------------------------------ MODULE MCEnrich ------------------------------
(***************************************************************************)
(* Instances of Enrich for TLC: which embedding services a run meets and   *)
(* how they may change into one another.                                   *)
(***************************************************************************)
EXTENDS Enrich

CONSTANTS A, B   \* two embedding spaces

Service(health, names, textMode, imageMode, sp) ==
  [health |-> health,
   topics |-> names,
   mode   |-> [s \in Stores |-> IF s = "text" THEN textMode ELSE imageMode],
   space  |-> [s \in Stores |-> sp]]

UpA == Service(TRUE, TRUE, "up", "up", A)
UpB == Service(TRUE, TRUE, "up", "up", B)

\* Embeds, but neither /health nor /topics answers.
MuteB == Service(FALSE, FALSE, "up", "up", B)

Down      == Service(FALSE, FALSE, "down", "down", A)
TextDown  == Service(TRUE, TRUE, "down", "up", A)
TextGone  == Service(TRUE, TRUE, "absent", "up", A)
ImageGone == Service(TRUE, TRUE, "up", "absent", A)
Broken    == Service(TRUE, TRUE, "malformed", "malformed", A)

\* Another model behind a mute /health, with vectors of the wrong width.
BrokenB == Service(FALSE, TRUE, "malformed", "malformed", B)

AnyServices == {UpA, UpB, MuteB, Down, TextDown, TextGone, ImageGone, Broken}
AnyMoves    == AnyServices \X AnyServices

\* Outages and bad answers, and a model change that is never taken back: a
\* rollback between the clearing of a store and its re-queue makes the label
\* match again, and the store stays empty (enrich.rs:541-546).
ForwardServices == {UpA, MuteB, UpB, Down, BrokenB}
ForwardMoves    == {<<Down, UpA>>, <<BrokenB, UpA>>, <<UpA, Down>>, <<UpA, BrokenB>>,
                    <<UpA, MuteB>>, <<UpA, UpB>>, <<MuteB, UpB>>}

\* A route that is missing for a while.
RolloutServices == {UpA, TextGone}
RolloutMoves    == {<<UpA, TextGone>>, <<TextGone, UpA>>}

\* A service that never fails and never changes.
SteadyServices == {UpA}
SteadyMoves    == {}
=============================================================================
