----------------------------- MODULE Migrations -----------------------------
(***************************************************************************)
(* The start of the program: Migrate (internal/db/migrate.go) brings the   *)
(* schema of the database up to date before anything else runs.  It reads  *)
(* which versions were applied and applies the others in a transaction     *)
(* each.  Nothing keeps two processes from starting on one database, they  *)
(* may be of different releases, and each may end at any time; systemd     *)
(* starts one that failed again (packaging/systemd/zora.service).          *)
(*                                                                         *)
(* Version v is the v-th element of the list "migrations"; a release has   *)
(* the first few of them.  SQLite has one writer at a time: a transaction  *)
(* holds the lock from its first statement until it is committed or rolled *)
(* back.                                                                   *)
(***************************************************************************)
EXTENDS Integers, Sequences

CONSTANTS
  Process,     \* processes on one database
  NoProcess,   \* nobody writes
  Release,     \* how many migrations a release of the program has (7 now)
  Repeatable,  \* versions whose SQL succeeds also when it ran before (6)
  MaxFaults    \* bound: crashes and database errors

ASSUME ProcessAssumption == NoProcess \notin Process
ASSUME ReleaseAssumption == Release \subseteq Nat
ASSUME FaultAssumption == MaxFaults \in Nat

VARIABLES
  table,     \* does schema_migrations exist?
  schema,    \* the versions that took effect, in their order
  recorded,  \* rows of schema_migrations
  writer,    \* who holds the write lock
  at,        \* where each process is
  release,   \* its release
  known,     \* the versions it read as applied
  next,      \* the version its loop is at
  faults     \* faults so far

database == <<table, schema, recorded>>
process == <<at, release, known, next>>
vars == <<database, writer, process, faults>>

Init ==
  /\ table = FALSE
  /\ schema = <<>>
  /\ recorded = {}
  /\ writer = NoProcess
  /\ at = [p \in Process |-> "down"]
  /\ release = [p \in Process |-> 0]
  /\ known = [p \in Process |-> {}]
  /\ next = [p \in Process |-> 1]
  /\ faults = 0

Go(p, place) == at' = [at EXCEPT ![p] = place]

(* The deferred Rollback, or the end of the process: the lock is free.     *)
Unlock(p) == writer' = IF writer = p THEN NoProcess ELSE writer

(* The process starts, or is started again after it failed. *)
Start(p) ==
  /\ at[p] \in {"down", "failed"}
  /\ Go(p, "create")
  /\ \E r \in Release : release' = [release EXCEPT ![p] = r]
  /\ UNCHANGED <<database, writer, known, next, faults>>

(* Mutant of CreateTable: IF NOT EXISTS is missing. *)
CreateTableStrict(p) ==
  /\ at[p] = "create"
  /\ writer = NoProcess
  /\ table' = TRUE
  /\ Go(p, IF table THEN "failed" ELSE "read")
  /\ UNCHANGED <<schema, recorded, writer, release, known, next, faults>>

(* CREATE TABLE IF NOT EXISTS schema_migrations *)
CreateTable(p) ==
  /\ at[p] = "create"
  /\ table \/ writer = NoProcess
  /\ table' = TRUE
  /\ Go(p, "read")
  /\ UNCHANGED <<schema, recorded, writer, release, known, next, faults>>

(* The versions in schema_migrations, read outside any transaction. *)
appliedVersions(p) ==
  /\ at[p] = "read"
  /\ known' = [known EXCEPT ![p] = recorded]
  /\ next' = [next EXCEPT ![p] = 1]
  /\ Go(p, "loop")
  /\ UNCHANGED <<database, writer, release, faults>>

Skip(p) ==
  /\ at[p] = "loop"
  /\ next[p] <= release[p]
  /\ next[p] \in known[p]
  /\ next' = [next EXCEPT ![p] = @ + 1]
  /\ UNCHANGED <<database, writer, at, release, known, faults>>

(* All versions of the release are there: the service starts. *)
Serve(p) ==
  /\ at[p] = "loop"
  /\ next[p] > release[p]
  /\ Go(p, "serving")
  /\ UNCHANGED <<database, writer, release, known, next, faults>>

-----------------------------------------------------------------------------
(* applyMigration *)

(* CREATE TABLE and ALTER TABLE fail when another process was faster. *)
Executes(v) == (\A i \in DOMAIN schema : schema[i] # v) \/ v \in Repeatable

(* The SQL of the version, in its transaction. *)
Execute(p) ==
  /\ at[p] = "loop"
  /\ next[p] <= release[p]
  /\ next[p] \notin known[p]
  /\ writer = NoProcess
  /\ \/ Executes(next[p]) /\ writer' = p /\ Go(p, "record")
     \/ ~Executes(next[p]) /\ Go(p, "failed") /\ UNCHANGED writer
  /\ UNCHANGED <<database, release, known, next, faults>>

(* Mutant of Record: INSERT OR REPLACE. *)
RecordReplace(p) ==
  /\ at[p] = "record"
  /\ Go(p, "commit")
  /\ UNCHANGED <<database, writer, release, known, next, faults>>

(* INSERT INTO schema_migrations: the version is the primary key. *)
Record(p) ==
  /\ at[p] = "record"
  /\ \/ next[p] \notin recorded /\ Go(p, "commit") /\ UNCHANGED writer
     \/ next[p] \in recorded /\ Go(p, "failed") /\ Unlock(p)
  /\ UNCHANGED <<database, release, known, next, faults>>

Commit(p) ==
  /\ at[p] = "commit"
  /\ schema' = Append(schema, next[p])
  /\ recorded' = recorded \cup {next[p]}
  /\ writer' = NoProcess
  /\ next' = [next EXCEPT ![p] = @ + 1]
  /\ Go(p, "loop")
  /\ UNCHANGED <<table, release, known, faults>>

-----------------------------------------------------------------------------
Fault == faults < MaxFaults /\ faults' = faults + 1

(* Mutant of Err: a version that failed is logged and passed over. *)
ErrPassedOver(p) ==
  /\ Fault
  /\ at[p] \in {"record", "commit"}
  /\ Go(p, "loop")
  /\ next' = [next EXCEPT ![p] = @ + 1]
  /\ Unlock(p)
  /\ UNCHANGED <<database, release, known>>

(* A statement fails, such as one that waited busy_timeout for the lock:   *)
(* Migrate returns the error and the program ends.                         *)
Err(p) ==
  /\ Fault
  /\ at[p] \in {"create", "read", "loop", "record", "commit"}
  /\ Go(p, "failed")
  /\ Unlock(p)
  /\ UNCHANGED <<database, release, known, next>>

(* The process ends, before or after it serves. *)
Stop(p) ==
  /\ Fault
  /\ at[p] \notin {"down", "failed"}
  /\ Go(p, "down")
  /\ Unlock(p)
  /\ UNCHANGED <<database, release, known, next>>

Migrate(p) ==
  \/ CreateTable(p) \/ appliedVersions(p) \/ Skip(p) \/ Serve(p)
  \/ Execute(p) \/ Record(p) \/ Commit(p)

Next == \E p \in Process : Start(p) \/ Migrate(p) \/ Err(p) \/ Stop(p)

Spec == Init /\ [][Next]_vars

(***************************************************************************)
(* A process goes on while it can and is started again when it ended.  A   *)
(* process that waits for the lock is not passed over for ever: it ends    *)
(* with an error after busy_timeout.                                       *)
(***************************************************************************)
Fairness == \A p \in Process : WF_vars(Start(p)) /\ SF_vars(Migrate(p))

FairSpec == Spec /\ Fairness

-----------------------------------------------------------------------------
(* Properties *)

TypeOK ==
  /\ table \in BOOLEAN
  /\ schema \in Seq(Nat \ {0})
  /\ recorded \subseteq Nat \ {0}
  /\ writer \in Process \cup {NoProcess}
  /\ at \in [Process -> {"down", "failed", "create", "read", "loop", "record",
                         "commit", "serving"}]
  /\ release \in [Process -> Nat]
  /\ known \in [Process -> SUBSET (Nat \ {0})]
  /\ next \in [Process -> Nat \ {0}]
  /\ faults \in 0..MaxFaults

(***************************************************************************)
(* Every migration takes effect once and after those before it, although   *)
(* two processes that start together read the same versions as missing and *)
(* although running some of them a second time is no error by itself.      *)
(***************************************************************************)
InOrderAndOnce == \A i \in DOMAIN schema : schema[i] = i

(* A process serves only with all migrations of its release applied.       *)
ServesWhatItNeeds ==
  \A p \in Process : at[p] = "serving" => 1..release[p] \subseteq recorded

(***************************************************************************)
(* Every process serves in the end and keeps serving, once faults have     *)
(* stopped: one that lost the race for a version fails, is started again   *)
(* and finds the version applied.                                          *)
(***************************************************************************)
AllServe == <>[](\A p \in Process : at[p] = "serving")

=============================================================================
