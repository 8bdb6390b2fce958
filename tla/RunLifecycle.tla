---------------------------- MODULE RunLifecycle ----------------------------
(***************************************************************************)
(* What duro promises about one run, whatever fleet executes it: at most   *)
(* one process holds it, a process that lets go of it unfinished leaves it *)
(* to another, and a run leaves a final state only by Resume, which needs  *)
(* it to be out of every process's hands.                                  *)
(***************************************************************************)
CONSTANTS Procs, Nobody

VARIABLES
    state,      \* the run's status
    started,    \* has a start of the run been counted since it was resumed
    holder      \* the process that holds the run

vars == <<state, started, holder>>

Init == state = "absent" /\ ~started /\ holder = Nobody

Submit ==
    /\ state = "absent" /\ state' = "ENQUEUED"
    /\ UNCHANGED <<started, holder>>

StartDirectly(p) ==
    /\ state = "absent"
    /\ state' = "PENDING" /\ started' /\ holder' = p

Take(p) ==
    /\ holder = Nobody
    /\ state = "ENQUEUED" \/ state = "PENDING"
    /\ state' = "PENDING" /\ holder' = p
    /\ UNCHANGED started

Start ==
    /\ holder # Nobody /\ started'
    /\ UNCHANGED <<state, holder>>

Readmit ==
    /\ state = "PENDING" /\ holder = Nobody
    /\ state' = "ENQUEUED"
    /\ UNCHANGED <<started, holder>>

LetGo ==
    /\ holder # Nobody /\ holder' = Nobody
    /\ UNCHANGED <<state, started>>

Finish ==
    /\ state = "PENDING" /\ holder # Nobody
    /\ state' = "SUCCESS" /\ holder' = Nobody
    /\ UNCHANGED started

Park ==
    /\ state = "PENDING" /\ holder # Nobody
    /\ state' = "DEAD" /\ started' /\ holder' = Nobody

Cancel ==
    /\ state = "ENQUEUED" \/ state = "PENDING"
    /\ state' = "CANCELLED"
    /\ UNCHANGED <<started, holder>>

Resume ==
    /\ holder = Nobody
    /\ state = "DEAD" \/ (state = "CANCELLED" /\ ~started)
    /\ state' = "ENQUEUED" /\ ~started'
    /\ UNCHANGED holder

Next ==
    \/ Submit \/ Start \/ Readmit \/ LetGo \/ Finish \/ Park \/ Cancel \/ Resume
    \/ \E p \in Procs : StartDirectly(p) \/ Take(p)

Spec == Init /\ [][Next]_vars
===============================================================================
