---------------------------- MODULE PhaseLifecycle ----------------------------
(***************************************************************************)
(* What the status of a MariaDBHA object promises to whoever watches it:   *)
(* the order of its phases, one failover at a time, at least               *)
(* MinimumInterval ticks from one recorded failover to the start of the    *)
(* next, and a record for each failover that ends in a recovery.           *)
(***************************************************************************)
EXTENDS Naturals

CONSTANT MinimumInterval

VARIABLES
    phase,      \* status.phase
    failovers,  \* length of status.failoverHistory
    last,       \* status.lastFailoverTime, as [never, at]
    clock

lifecycle == <<phase, failovers, last, clock>>

LifecycleInit ==
    /\ phase = "" /\ failovers = 0
    /\ last = [never |-> TRUE, at |-> 0]
    /\ clock = 0

Move(from, to) ==
    /\ phase \in from
    /\ phase' = to
    /\ UNCHANGED <<failovers, last, clock>>

Initialize == Move({""}, "Initializing")
BecomeReady == Move({"Initializing"}, "Running")
Degrade == Move({"Running"}, "Degraded")
Heal == Move({"Degraded"}, "Running")

StartFailover ==
    /\ last.never \/ clock >= last.at + MinimumInterval
    /\ Move({"", "Initializing", "Running", "Degraded", "Failing"}, "Failover")

AbortFailover == Move({"Failover"}, "Failing")

CompleteFailover ==
    /\ phase = "Failover" /\ phase' = "Recovering"
    /\ failovers' = failovers + 1
    /\ last' = [never |-> FALSE, at |-> clock]
    /\ UNCHANGED clock

Recover == Move({"Recovering"}, "Running")

Pass == clock' = clock + 1 /\ UNCHANGED <<phase, failovers, last>>

LifecycleNext ==
    \/ Initialize \/ BecomeReady \/ Degrade \/ Heal
    \/ StartFailover \/ AbortFailover \/ CompleteFailover \/ Recover \/ Pass

LifecycleSpec == LifecycleInit /\ [][LifecycleNext]_lifecycle
=============================================================================
