------------------------------- MODULE MCOutbox -------------------------------
(* Small instances of Outbox for TLC.                                      *)
EXTENDS Outbox, TLC

CONSTANT MaxFaults  \* failures and crashes in a behaviour

VARIABLES
    faults,
    calm    \* whether so far nothing failed but to publish, and one processor ran at a time

mcvars == <<vars, faults, calm>>

MCInit == Init /\ faults = 0 /\ calm = TRUE

\* The steps of Outbox; failures other than of the publisher have a budget,
\* so that from some time on there are none.
MCNext ==
    /\ \/ CalmNext /\ UNCHANGED faults
       \/ Fault /\ faults < MaxFaults /\ faults' = faults + 1
    /\ calm' = (calm /\ faults' = 0 /\ Cardinality({p \in Processors : proc'[p] # Idle}) <= 1)

MCSpec == MCInit /\ [][MCNext]_mcvars /\ Fairness

\* "processes outbox messages and publishes them"
\* (outbox_pattern.go:50): each once, when one processor runs at a time and
\* nothing fails but to publish.
CalmPublishedOnce == calm => PublishedOnce
=============================================================================
