--------------------------- MODULE MCChainAttempt ---------------------------
(***************************************************************************)
(* Instances of ChainAttempt for one run of TLC, over the same variables;  *)
(* `part' says which one a behaviour is of:                                *)
(*   runs      two runs of a request that are past its lock, and a sweep   *)
(*             (the constants of the cfg);                                 *)
(*   sweeps    a run and the overlapping sweeps of two processes;          *)
(*   settles   a run and a sweep that comes again and again, in fairness;  *)
(*   matched   two runs over a database whose NOT holds of NULL: only      *)
(*             there does a later run find the attempts of the first.      *)
(***************************************************************************)
EXTENDS ChainAttempt, TLC

CONSTANTS e1, e2, s1, s2

VARIABLE part

Sweeps == INSTANCE ChainAttempt WITH Run <- {e1}, Sweep <- {s1, s2}, MaxFaults <- 1
Settles == INSTANCE ChainAttempt WITH Run <- {e1}, MaxSends <- 5, MaxSweeps <- 0
Matched == INSTANCE ChainAttempt WITH NotMatchesNull <- TRUE, MaxSends <- 2, MaxSweeps <- 1,
                                      MaxFaults <- 1

MCInit ==
    \/ part = "runs" /\ Init
    \/ part = "sweeps" /\ Sweeps!Init
    \/ part = "settles" /\ Settles!Init
    \/ part = "matched" /\ Matched!Init

MCNext ==
    /\ \/ part = "runs" /\ Next
       \/ part = "sweeps" /\ Sweeps!Next
       \/ part = "settles" /\ Settles!Next
       \/ part = "matched" /\ Matched!Next
    /\ UNCHANGED part

InSettles(A) == part = "settles" /\ A /\ UNCHANGED part

MCSpec ==
    /\ MCInit /\ [][MCNext]_<<part, vars>>
    /\ \A p \in {e1, s1} : WF_<<part, vars>>(InSettles(Settles!Work(p)))
    /\ \A n \in 1..5 : WF_<<part, vars>>(InSettles(n \in DOMAIN txs /\ Settles!Confirm(n)))
    /\ WF_<<part, vars>>(InSettles(Settles!Finalize))
    /\ \A a \in {"reg", e1} :
        WF_<<part, vars>>(InSettles(Settles!LeaseExpires(a) /\ ~ Settles!InUse(a)))

\* Every variable has its type in every part.
Typed ==
    CASE part = "runs"    -> TypeOK
      [] part = "sweeps"  -> Sweeps!TypeOK
      [] part = "settles" -> Settles!TypeOK
      [] part = "matched" -> Matched!TypeOK

\* An attempt that was broadcast is settled, by its run or by the sweeps that come after a
\* crash, whatever was lost, stalled or stopped.
BroadcastsSettle == []Typed /\ (part = "settles" => Settles!AttemptsConverge)
=============================================================================
