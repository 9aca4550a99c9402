----------------------------- MODULE DriveArray -----------------------------
(***************************************************************************)
(* What DOS takes the units of the driver for: arrays of sectors that have *)
(* nothing to do with one another.  A write changes a run of sectors of    *)
(* one unit; a read fills the caller's buffer with such a run.             *)
(***************************************************************************)
EXTENDS Integers, Sequences

CONSTANTS Unit,       \* the units of the driver
          Capacity,   \* Unit -> number of sectors
          MaxCount,   \* bound: sectors of one transfer
          Value       \* contents of a sector

VARIABLES drive,      \* drive[u][s]: sector s of unit u
          buffer      \* what the last read brought

vars == <<drive, buffer>>

Init ==
    /\ DOMAIN drive = Unit
    /\ \A u \in Unit : drive[u] \in [0 .. Capacity[u] - 1 -> Value]
    /\ buffer = <<>>

Write(u, s, data) ==
    /\ drive' = [drive EXCEPT ![u] =
                    [t \in DOMAIN drive[u] |->
                        IF t >= s /\ t < s + Len(data)
                        THEN data[t - s + 1] ELSE drive[u][t]]]
    /\ UNCHANGED buffer

Read(u, s, n) ==
    /\ buffer' = [j \in 1..n |-> drive[u][s + j - 1]]
    /\ UNCHANGED drive

Next ==
    \E u \in Unit, n \in 0..MaxCount : \E s \in 0..Capacity[u] :
        /\ s + n <= Capacity[u]
        /\ Read(u, s, n) \/ \E data \in [1..n -> Value] : Write(u, s, data)

Spec == Init /\ [][Next]_vars
=============================================================================
