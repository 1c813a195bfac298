------------------------------ MODULE Platform ------------------------------
(***************************************************************************)
(* The processes around the API: the worker with its queue, the lock for   *)
(* scheduled jobs, and the runs of the migrations.  They share no state,   *)
(* so that a behaviour follows one of them while the others stay as they   *)
(* are.                                                                    *)
(***************************************************************************)
EXTENDS Notifications, DistributedLock, Migrations

VARIABLE followed       \* the part that is followed, never changed

platformVars == <<followed, mailVars, lockVars, migrationVars>>

PlatformInit ==
    /\ followed \in {"mail", "lock", "migrations"}
    /\ MailInit /\ LockInit /\ MigrationInit

PlatformStep ==
    \/ followed = "mail" /\ MailNext /\ UNCHANGED <<lockVars, migrationVars>>
    \/ followed = "lock" /\ LockNext /\ UNCHANGED <<mailVars, migrationVars>>
    \/ followed = "migrations" /\ MigrationNext /\ UNCHANGED <<mailVars, lockVars>>

PlatformSpec ==
    /\ PlatformInit /\ [][PlatformStep /\ UNCHANGED followed]_platformVars
    /\ (followed = "mail" => MailFairness)

PlatformTypeOK == MailTypeOK /\ LockTypeOK /\ MigrationTypeOK

PlatformInv == MailInv /\ LockTypeOK /\ MigrationInv
=============================================================================
