----------------------------- MODULE BlockDevice -----------------------------
(***************************************************************************)
(* What DOS is promised by the user-port SD driver, with no word of how    *)
(* the Victor and the Pico go about it.  DOS makes one call at a time and  *)
(* waits for it.  Somewhere between the call and its return the request    *)
(* takes effect on the image, at most once; the driver may answer S_DONE   *)
(* only after the effect, and S_ERROR at any time.  A failed request may   *)
(* therefore have been applied, and a request the SD card refused half way *)
(* may leave its own sector in ruins, never another one.  Nothing promises *)
(* that a call returns: that is a liveness property of the detailed        *)
(* specification, and it needs a Pico that does not halt.                  *)
(***************************************************************************)
EXTENDS Naturals

CONSTANTS Sector,     \* logical addresses of a unit: a run of sectors
          Value,      \* contents of such a run
          NoValue,    \* no contents at all
          Garbage     \* contents a request that fails may leave behind

VARIABLES disk,       \* Sector -> contents of the image file
          op,         \* the DOS request in progress or last served
          phase,      \* where that request is
          answer,     \* the contents captured for a read
          buffer      \* the caller's transfer area

vars == <<disk, op, phase, answer, buffer>>

ReadOp(s)     == [kind |-> "read",  sector |-> s, val |-> NoValue]
WriteOp(s, v) == [kind |-> "write", sector |-> s, val |-> v]
Op == { ReadOp(s) : s \in Sector } \cup { WriteOp(s, v) : s \in Sector, v \in Value }

Init ==
    /\ disk \in [Sector -> Value]
    /\ op \in Op
    /\ phase = "returned"
    /\ answer = NoValue
    /\ buffer = NoValue

Call(o) ==
    /\ phase \in {"returned", "failed"}
    /\ op' = o
    /\ phase' = "called"
    /\ answer' = NoValue
    /\ UNCHANGED <<disk, buffer>>

\* The request takes effect, whole.
Apply ==
    /\ phase = "called"
    /\ phase' = "applied"
    /\ IF op.kind = "write"
       THEN disk' = [disk EXCEPT ![op.sector] = op.val] /\ UNCHANGED answer
       ELSE answer' = disk[op.sector] /\ UNCHANGED disk
    /\ UNCHANGED <<op, buffer>>

\* The SD card gives up part way: the request can only fail from here.
Spoil ==
    /\ phase = "called"
    /\ phase' = "spoiled"
    /\ \/ UNCHANGED disk
       \/ /\ op.kind = "write"
          /\ \E c \in {op.val} \cup Garbage : disk' = [disk EXCEPT ![op.sector] = c]
    /\ UNCHANGED <<op, answer, buffer>>

\* A read that succeeds has filled the caller's buffer with what was captured.
Succeed ==
    /\ phase = "applied"
    /\ phase' = "returned"
    /\ buffer' = IF op.kind = "read" THEN answer ELSE buffer
    /\ UNCHANGED <<disk, op, answer>>

\* A read that fails may have overwritten the caller's buffer.
Fail ==
    /\ phase \in {"called", "applied", "spoiled"}
    /\ phase' = "failed"
    /\ buffer' \in {buffer} \cup (IF op.kind = "read" THEN Garbage ELSE {})
    /\ UNCHANGED <<disk, op, answer>>

Next == (\E o \in Op : Call(o)) \/ Apply \/ Spoil \/ Succeed \/ Fail

Spec == Init /\ [][Next]_vars
=============================================================================
