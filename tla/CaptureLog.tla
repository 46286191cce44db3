----------------------------- MODULE CaptureLog -----------------------------
(***************************************************************************)
(* What the broker promises about one client's captures: they appear one   *)
(* by one, each complete, with the picture that was taken with it, and     *)
(* neither the order nor a stored picture ever changes.                    *)
(***************************************************************************)
EXTENDS Sequences, Naturals

CONSTANT Captures

VARIABLE log   \* the captures in the order of their rows

\* A picture is the sequence of the regions that make it up.
Complete(c) == [capture |-> c, picture |-> <<c>>]

Init == log = <<>>

Add(c) ==
  /\ \A n \in 1 .. Len(log) : log[n].capture # c
  /\ log' = Append(log, Complete(c))

Next == \E c \in Captures : Add(c)

Spec == Init /\ [][Next]_log

=============================================================================
