-------------------------- MODULE DistributedLock --------------------------
(***************************************************************************)
(* withLock (apps/worker/src/lock/distributedLock.ts): a key in Redis that *)
(* holds the token of who set it and expires by itself, around some work.  *)
(* No job of the repository uses it yet; it is modelled for the jobs it is *)
(* meant for.  A holder is known by its token; the processes' clocks are   *)
(* not used, and only Redis measures the time to live.                     *)
(***************************************************************************)
EXTENDS Integers

CONSTANTS Holders,      \* the calls of withLock, each with a token of its own
          Nobody,       \* the key is not there
          MaxLockStops  \* how often a process stops (bound)

ASSUME DistributedLockAssumption == Nobody \notin Holders /\ MaxLockStops \in Nat

VARIABLES key,          \* the token under the key
          work,         \* work[h]: where the call is
          lockStops     \* how often a process stopped

lockVars == <<key, work, lockStops>>

LockInit ==
    /\ key = Nobody
    /\ work = [h \in Holders |-> "idle"]
    /\ lockStops = 0

(* SET NX PX: a call that does not get the key returns without working. *)
AcquireLock(h) ==
    /\ work[h] = "idle" /\ key = Nobody
    /\ key' = h
    /\ work' = [work EXCEPT ![h] = "working"]
    /\ UNCHANGED lockStops

(* The work returns or throws: the lock is released in either case. *)
FinishWork(h) ==
    /\ work[h] = "working"
    /\ work' = [work EXCEPT ![h] = "release"]
    /\ UNCHANGED <<key, lockStops>>

(* Faulty release: the key is deleted whoever set it. *)
ReleaseWhatever(h) ==
    /\ work[h] = "release"
    /\ key' = Nobody
    /\ work' = [work EXCEPT ![h] = "idle"]
    /\ UNCHANGED lockStops

(* The script compares and deletes. *)
Release(h) ==
    /\ work[h] = "release"
    /\ key' = IF key = h THEN Nobody ELSE key
    /\ work' = [work EXCEPT ![h] = "idle"]
    /\ UNCHANGED lockStops

StopHolder(h) ==
    /\ work[h] # "idle" /\ lockStops < MaxLockStops
    /\ work' = [work EXCEPT ![h] = "idle"]
    /\ lockStops' = lockStops + 1
    /\ UNCHANGED key

(* The time to live is over, whether or not the work is. *)
Expire ==
    /\ key # Nobody
    /\ key' = Nobody
    /\ UNCHANGED <<work, lockStops>>

LockNext ==
    \/ \E h \in Holders : AcquireLock(h) \/ FinishWork(h) \/ Release(h) \/ StopHolder(h)
    \/ Expire

LockSpec == LockInit /\ [][LockNext]_lockVars

-----------------------------------------------------------------------------
LockTypeOK ==
    /\ key \in Holders \cup {Nobody}
    /\ work \in [Holders -> {"idle", "working", "release"}]

(* Nobody but its holder, and the time, takes a lock away: a call that     *)
(* comes to its end after its key expired leaves the next holder's alone.  *)
OnlyOwnReleased ==
    [][\A h \in Holders : key = h /\ key' # h => (work[h] = "release" /\ work'[h] = "idle") \/ Expire]_lockVars

(* One holder at a time. *)
Exclusive == \A g, h \in Holders : work[g] = "working" /\ work[h] = "working" => g = h
=============================================================================
