----------------------------- MODULE Migrations -----------------------------
(***************************************************************************)
(* The migrations and the processes that run them, `db:migrate' on one or  *)
(* more machines (apps/api/src/shared/infrastructure/migrations).  A run   *)
(* goes through the list: what is recorded is skipped, the rest is done    *)
(* and then recorded, outside any transaction, so that a run can stop      *)
(* between any two writes.  A migration is a list of idempotent writes     *)
(* (createIndexes, upserts); what they write is left out.  The unique      *)
(* index of schemaMigrations is taken to be there.                         *)
(***************************************************************************)
EXTENDS Integers, Sequences

CONSTANTS Runners,    \* processes that run `up'
          Writes,     \* Writes[i]: how many writes migration i consists of, in their order
          MaxRuns     \* how often `up' is started (bound)

ASSUME MigrationsAssumption ==
    /\ Writes \in Seq(Nat)
    /\ MaxRuns \in Nat

VARIABLES applied,    \* the migrations that are recorded
          written,    \* written[i]: the writes of migration i that were made
          runner,     \* runner[r]: where the run of r is
          runs        \* how often `up' was started

migrationVars == <<applied, written, runner, runs>>

AllMigrations == DOMAIN Writes

Stopped == [at |-> 0, step |-> "stopped", done |-> 0]

MigrationInit ==
    /\ applied = {}
    /\ written = [i \in AllMigrations |-> {}]
    /\ runner = [r \in Runners |-> Stopped]
    /\ runs = 0

RunMigrations(r) ==
    /\ runner[r].step \in {"stopped", "failed", "finished"} /\ runs < MaxRuns
    /\ runner' = [runner EXCEPT ![r] = [at |-> 1, step |-> "find", done |-> 0]]
    /\ runs' = runs + 1
    /\ UNCHANGED <<applied, written>>

At(r, step) == runner[r].step = step
Following(r) == [at |-> runner[r].at + 1, step |-> "find", done |-> 0]

Finish(r) ==
    /\ At(r, "find") /\ runner[r].at \notin AllMigrations
    /\ runner' = [runner EXCEPT ![r].step = "finished"]
    /\ UNCHANGED <<applied, written, runs>>

FindMigration(r) ==
    /\ At(r, "find") /\ runner[r].at \in AllMigrations
    /\ runner' = [runner EXCEPT ![r] = IF @.at \in applied THEN Following(r)
                                       ELSE [@ EXCEPT !.step = "up"]]
    /\ UNCHANGED <<applied, written, runs>>

Up(r) ==
    /\ At(r, "up") /\ runner[r].done < Writes[runner[r].at]
    /\ written' = [written EXCEPT ![runner[r].at] = @ \cup {runner[r].done + 1}]
    /\ runner' = [runner EXCEPT ![r].done = @ + 1]
    /\ UNCHANGED <<applied, runs>>

(* A write that throws ends the run. *)
UpFails(r) ==
    /\ At(r, "up") /\ runner[r].done < Writes[runner[r].at]
    /\ runner' = [runner EXCEPT ![r].step = "failed"]
    /\ UNCHANGED <<applied, written, runs>>

(* Faulty bookkeeping: recorded as soon as the first write is made. *)
RecordEarly(r) ==
    /\ At(r, "up") /\ runner[r].done >= 1
    /\ applied' = applied \cup {runner[r].at}
    /\ runner' = [runner EXCEPT ![r] = IF @.done = Writes[@.at] THEN Following(r) ELSE @]
    /\ UNCHANGED <<written, runs>>

(* A migration another run recorded meanwhile is a duplicate, which ends   *)
(* this run.                                                               *)
Record(r) ==
    /\ At(r, "up") /\ runner[r].done = Writes[runner[r].at]
    /\ IF runner[r].at \in applied
       THEN /\ runner' = [runner EXCEPT ![r].step = "failed"]
            /\ UNCHANGED applied
       ELSE /\ runner' = [runner EXCEPT ![r] = Following(r)]
            /\ applied' = applied \cup {runner[r].at}
    /\ UNCHANGED <<written, runs>>

StopRunner(r) ==
    /\ runner[r].step \in {"find", "up"}
    /\ runner' = [runner EXCEPT ![r] = Stopped]
    /\ UNCHANGED <<applied, written, runs>>

RunnerStep(r) == Finish(r) \/ FindMigration(r) \/ Up(r) \/ UpFails(r) \/ Record(r)

MigrationNext == \E r \in Runners : RunMigrations(r) \/ RunnerStep(r) \/ StopRunner(r)

MigrationSpec == MigrationInit /\ [][MigrationNext]_migrationVars

-----------------------------------------------------------------------------
MigrationTypeOK ==
    /\ applied \subseteq AllMigrations
    /\ \A i \in AllMigrations : written[i] \subseteq 1..Writes[i]
    /\ \A r \in Runners : runner[r].step \in {"stopped", "find", "up", "failed", "finished"}

(* What is recorded was done, completely and after everything before it    *)
(* in the list, wherever runs failed or stopped and however many there     *)
(* were at the same time; after a run that ended well nothing is missing,  *)
(* and verify-indexes finds no drift.                                      *)
RecordedIsDone ==
    /\ \A i \in applied : /\ written[i] = 1..Writes[i]
                          /\ \A j \in 1..(i - 1) : j \in applied
    /\ (\E r \in Runners : runner[r].step = "finished") => applied = AllMigrations
-----------------------------------------------------------------------------
(* The inductive invariant *)

(* Wherever a run is in the list, all before it is recorded; and what it   *)
(* has done of the migration it is at is written.                          *)
RunnerInv(run) ==
    /\ run.step \in {"find", "up"} => /\ run.at \in 1..(Len(Writes) + 1)
                                      /\ 1..(run.at - 1) \subseteq applied
    /\ run.step = "find" => run.done = 0
    /\ run.step = "up" => /\ run.at \in AllMigrations
                          /\ run.done <= Writes[run.at]
                          /\ 1..run.done \subseteq written[run.at]

MigrationInv ==
    /\ MigrationTypeOK
    /\ written \in [AllMigrations -> SUBSET Nat]
    /\ runner \in [Runners -> [at : Nat, done : Nat,
                               step : {"stopped", "find", "up", "failed", "finished"}]]
    /\ \A r \in Runners : RunnerInv(runner[r])
    /\ RecordedIsDone
=============================================================================
