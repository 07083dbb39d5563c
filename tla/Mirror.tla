------------------------------- MODULE Mirror -------------------------------
(***************************************************************************)
(* What connmand's mirror of vpnd promises: a copy that lags behind.  The  *)
(* owner may change its value only by announcing every value it takes, in  *)
(* order; the copy may change only to the next value announced, and misses *)
(* none.                                                                   *)
(***************************************************************************)
EXTENDS Naturals, Sequences, SequencesExt

CONSTANT Values
VARIABLES value, chan, copy

Init == value \in Values /\ chan = <<>> /\ copy = value

\* The owner announces one or more values (again its own, possibly).
Announce == /\ IsStrictPrefix(chan, chan')
            /\ \A i \in DOMAIN chan' : chan'[i] \in Values
            /\ value' = Last(chan')
            /\ copy' = copy

Deliver == /\ chan # <<>>
           /\ copy' = Head(chan)
           /\ chan' = Tail(chan)
           /\ value' = value

Next == Announce \/ Deliver

Spec == Init /\ [][Next]_<<value, chan, copy>> /\ WF_<<value, chan, copy>>(Deliver)
=============================================================================
