------------------------------ MODULE AppendLog ------------------------------
(***************************************************************************)
(* What one device's log promises to whoever reads it: a sequence of       *)
(* events that only ever grows at its end, and an answer given only for    *)
(* events that are in it.                                                  *)
(***************************************************************************)
EXTENDS Naturals, Sequences

VARIABLES log,   \* the ids of the events a reader finds, in the order of the files
          told   \* the ids an append answered Ok for

InLog(l) == {l[i] : i \in DOMAIN l}

Init == log = <<>> /\ told = {}

\* Events not seen before are added behind the others.
Grow ==
    /\ Len(log') > Len(log)
    /\ SubSeq(log', 1, Len(log)) = log
    /\ \A i, j \in DOMAIN log' : i # j => log'[i] # log'[j]
    /\ UNCHANGED told

\* The caller hears of events that are there.
Tell ==
    /\ told \subseteq told' /\ told' \subseteq InLog(log)
    /\ UNCHANGED log

Next == Grow \/ Tell

Spec == Init /\ [][Next]_<<log, told>>
=============================================================================
