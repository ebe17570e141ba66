------------------------- MODULE ObservationWindow -------------------------
(***************************************************************************)
(* What a monitor promises its readers: the last Size observations since   *)
(* the monitor was cleared, oldest first.                                  *)
(***************************************************************************)
EXTENDS Integers, Sequences

CONSTANT Size
VARIABLE window

Init == window = <<>>

Record(v) ==
  window' = LET all == Append(window, v)
            IN  IF Len(all) <= Size THEN all ELSE Tail(all)

Forget == window' = <<>>

\* Whatever is recorded is the element the window ends with.
Next == Forget \/ (window' # <<>> /\ Record(window'[Len(window')]))

Spec == Init /\ [][Next]_window

=============================================================================
