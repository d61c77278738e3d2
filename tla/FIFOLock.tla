------------------------------ MODULE FIFOLock ------------------------------
(***************************************************************************)
(* What MutexQueue promises ("implements mutex queue with FIFO support",   *)
(* handler.go:237): goroutines hold the lock one at a time and in the      *)
(* order in which their calls of Lock took effect.                         *)
(***************************************************************************)
EXTENDS Naturals, Sequences

CONSTANT Threads

VARIABLES
    queue,  \* the holder, if any, followed by those who wait
    state   \* of each goroutine: "idle", "waiting" or "holding"

fvars == <<queue, state>>

FIFOInit == queue = <<>> /\ state = [t \in Threads |-> "idle"]

(* A call of Lock takes its place in the queue.                            *)
Join(t) ==
    /\ state[t] = "idle"
    /\ queue' = Append(queue, t)
    /\ state' = [state EXCEPT ![t] = IF queue = <<>> THEN "holding" ELSE "waiting"]

(* The first in the queue gets the lock: its call of Lock returns.         *)
Acquire(t) ==
    /\ state[t] = "waiting" /\ queue # <<>> /\ Head(queue) = t
    /\ state' = [state EXCEPT ![t] = "holding"]
    /\ UNCHANGED queue

(* Unlock, called by the holder.                                           *)
Release(t) ==
    /\ state[t] = "holding" /\ queue # <<>> /\ Head(queue) = t
    /\ queue' = Tail(queue)
    /\ state' = [state EXCEPT ![t] = "idle"]

FIFONext == \E t \in Threads : Join(t) \/ Acquire(t) \/ Release(t)

FIFOSpec == FIFOInit /\ [][FIFONext]_fvars

(* The lock is handed over whenever the one in front is waiting for it.    *)
FIFOFairSpec == FIFOSpec /\ \A t \in Threads : WF_fvars(Acquire(t))
=============================================================================
