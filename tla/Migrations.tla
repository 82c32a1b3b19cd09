----------------------------- MODULE Migrations -----------------------------
(***************************************************************************)
(* Startup of identity-api instances on one database: runMigrations, with  *)
(* its repair of missing tables and of dirty versions, and the command     *)
(* cmd/migrate, which writes the same schema_migrations row.               *)
(*                                                                         *)
(* Migrations are numbered from 1 in the order of their files.  The first  *)
(* creates the table tenants, CompaniesAt the table companies.  Up, Force  *)
(* and Drop of golang-migrate hold an advisory lock of the session; Version *)
(* and the check whether a table exists do not, and cmd/migrate has no     *)
(* lock at all.  The SQL of one migration is one implicit transaction.     *)
(*                                                                         *)
(* Drop removes the tables only.  Types and functions stay, and some SQL   *)
(* fails when they are there: CREATE TYPE invitation_status, and the first *)
(* CREATE OR REPLACE of get_user_by_email_secure, whose return type a      *)
(* later migration changes.                                                *)
(***************************************************************************)
EXTENDS Integers

CONSTANTS
    Instances,      \* instances of identity-api
    LastVersion,    \* migrations embedded in the binary
    Low,            \* dirty versions up to this one are forced to 0 (2)
    CompaniesAt,    \* the migration that creates companies (20)
    Blocks,         \* pairs: what the first left behind makes the second fail
    MaxFaults       \* bound: failing statements, crashes and runs of cmd/migrate

Nobody == "nobody"

ASSUME MigrationsAssumption ==
    /\ LastVersion \in Nat /\ Low \in 1 .. LastVersion
    /\ CompaniesAt \in 2 .. LastVersion /\ MaxFaults \in Nat
    /\ Blocks \subseteq (1 .. LastVersion) \X (1 .. LastVersion)
    /\ Nobody \notin Instances

VARIABLES
    version,        \* schema_migrations.version, or NoVersion
    dirty,          \* schema_migrations.dirty
    applied,        \* migrations whose tables are there
    left,           \* migrations in Leavers whose types and functions are there
    data,           \* whether anything was written by a serving instance
    lock,           \* the instance that holds the advisory lock
    inst,           \* the instances
    tool,           \* cmd/migrate: the version it read, or NoTool
    forced,         \* history: versions that were dirty when Force cleared them
    dropped,        \* history: the tables were dropped, or some of them
    faults

migrationVars ==
    <<version, dirty, applied, left, data, lock, inst, tool, forced, dropped,
      faults>>

dbVars == <<version, dirty, applied, left, data>>

Versions == 1 .. LastVersion
Leavers == {b[1] : b \in Blocks}
NoVersion == -1
NoTool == -2

\* early: this instance came up without running what was pending.
\* excused: something explains that it found a table missing.
Down == [at |-> "down", read |-> NoVersion, table |-> 0, early |-> FALSE,
         excused |-> FALSE]

MigrationInit ==
    /\ version = NoVersion /\ dirty = FALSE /\ data = FALSE
    /\ applied = {} /\ left = {}
    /\ lock = Nobody
    /\ inst = [p \in Instances |-> Down]
    /\ tool = NoTool
    /\ forced = {} /\ dropped = FALSE /\ faults = 0

MFault == faults < MaxFaults /\ faults' = faults + 1
NoMFault == UNCHANGED faults

At(p, s) == inst[p].at = s
GoTo(p, s) == inst' = [inst EXCEPT ![p] = [Down EXCEPT !.at = s]]
Dies(p) == GoTo(p, "down")
ServeEarly(p) ==
    inst' = [inst EXCEPT ![p] = [Down EXCEPT !.at = "serving", !.early = TRUE]]

-----------------------------------------------------------------------------
(* repairMigrationDrift.                                                   *)

\* What follows the check of a table.
AfterCheck(p) ==
    IF inst[p].table = 1 /\ inst[p].read >= CompaniesAt
    THEN inst' = [inst EXCEPT ![p].at = "check", ![p].table = CompaniesAt,
                              ![p].excused = FALSE]
    ELSE GoTo(p, "up")

StartInstance(p) ==
    /\ At(p, "down")
    /\ GoTo(p, "version")
    /\ UNCHANGED <<dbVars, lock, tool, forced, dropped>> /\ NoMFault

\* Mutant of ReadVersion: the tables are checked at any version.
ReadVersion_Any(p) ==
    /\ At(p, "version")
    /\ inst' = [inst EXCEPT ![p].read = version, ![p].at = "check", ![p].table = 1]
    /\ UNCHANGED <<dbVars, lock, tool, forced, dropped>> /\ NoMFault

ReadVersion(p) ==
    /\ At(p, "version")
    /\ IF version > 0
       THEN inst' = [inst EXCEPT ![p].read = version, ![p].at = "check", ![p].table = 1]
       ELSE GoTo(p, "up")
    /\ UNCHANGED <<dbVars, lock, tool, forced, dropped>> /\ NoMFault

Excused(p) == dirty \/ version # inst[p].read \/ forced # {} \/ dropped

\* tableExists, with a connection of its own.
CheckTable(p) ==
    /\ At(p, "check")
    /\ IF inst[p].table \in applied THEN AfterCheck(p)
       ELSE inst' = [inst EXCEPT ![p].at = "drop", ![p].excused = Excused(p)]
    /\ UNCHANGED <<dbVars, lock, tool, forced, dropped>> /\ NoMFault

\* An error of Version ends the repair, one of tableExists this check.
ReadFails(p) ==
    /\ At(p, "version") \/ At(p, "check")
    /\ IF At(p, "version") THEN GoTo(p, "up") ELSE AfterCheck(p)
    /\ MFault /\ UNCHANGED <<dbVars, lock, tool, forced, dropped>>

DropTables ==
    /\ version' = NoVersion /\ dirty' = FALSE /\ applied' = {} /\ data' = FALSE
    /\ dropped' = TRUE

\* Drop when the lock is free; runMigrations begins again.  Types and functions
\* are left.
DropDatabase(p) ==
    /\ At(p, "drop") \/ At(p, "corrupt")
    /\ lock = Nobody
    /\ DropTables
    /\ GoTo(p, "version")
    /\ UNCHANGED <<left, lock, tool, forced>> /\ NoMFault

\* The lock is not to be had, or a statement fails: logged, and startup goes on,
\* after version 0 as if the migrations had been applied.
DropFails(p) ==
    /\ At(p, "drop") \/ At(p, "corrupt")
    /\ \/ lock # Nobody /\ NoMFault
       \/ MFault
    /\ IF At(p, "drop") THEN AfterCheck(p) ELSE ServeEarly(p)
    /\ UNCHANGED <<dbVars, lock, tool, forced, dropped>>

\* Drop removes one table after the other; the process dies in between.
DropInterrupted(p) ==
    /\ At(p, "drop") \/ At(p, "corrupt")
    /\ lock = Nobody
    /\ \E kept \in SUBSET applied :
          applied' = kept /\ data' = (data /\ 1 \in kept)
    /\ \/ UNCHANGED <<version, dirty>>
       \/ version' = NoVersion /\ dirty' = FALSE
    /\ dropped' = TRUE
    /\ Dies(p)
    /\ MFault /\ UNCHANGED <<left, lock, tool, forced>>

-----------------------------------------------------------------------------
(* Up, first under migrateUpWithRecovery and, after Force, once more.      *)

MarkDirty(p, v) ==
    /\ version' = v /\ dirty' = TRUE
    /\ lock' = p
    /\ inst' = [inst EXCEPT ![p].at = "exec", ![p].read = v]

\* A dirty version, a version 0 without a file, nothing to do, or the next one.
Up(p) ==
    /\ At(p, "up") \/ At(p, "retry")
    /\ lock = Nobody
    /\ \/ /\ dirty \/ version = 0
          /\ IF At(p, "retry") THEN Dies(p)
             ELSE GoTo(p, IF dirty THEN "recover" ELSE "corrupt")
          /\ UNCHANGED <<version, dirty, lock>>
       \/ /\ ~dirty /\ version = LastVersion
          /\ GoTo(p, "serving")
          /\ UNCHANGED <<version, dirty, lock>>
       \/ /\ ~dirty /\ version \notin {0, LastVersion}
          /\ MarkDirty(p, IF version = NoVersion THEN 1 ELSE version + 1)
    /\ UNCHANGED <<applied, left, data, tool, forced, dropped>> /\ NoMFault

\* Without the lock Up and Force give up, and main exits.
LockTimeout(p) ==
    /\ At(p, "up") \/ At(p, "retry") \/ At(p, "force")
    /\ lock # Nobody
    /\ Dies(p)
    /\ UNCHANGED <<dbVars, lock, tool, forced, dropped>> /\ NoMFault

\* The SQL of v meets a type or a function that is there already.
Blocked(v) == \E u \in left : <<u, v>> \in Blocks

ExecuteMigration(p) ==
    /\ At(p, "exec")
    /\ ~Blocked(inst[p].read)
    /\ applied' = applied \cup {inst[p].read}
    /\ left' = left \cup ({inst[p].read} \cap Leavers)
    /\ inst' = [inst EXCEPT ![p].at = "clean"]
    /\ UNCHANGED <<version, dirty, data, lock, tool, forced, dropped>> /\ NoMFault

\* Mutant of ExecuteFails: the error is logged only.
ExecuteFails_Ignored(p) ==
    /\ At(p, "exec")
    /\ \/ inst[p].read \in applied /\ NoMFault
       \/ MFault
    /\ inst' = [inst EXCEPT ![p].at = "clean"]
    /\ UNCHANGED <<dbVars, lock, tool, forced, dropped>>

\* The SQL fails, as most does when its tables are there already, and as it
\* must when it is blocked: main exits and leaves the version dirty.
ExecuteFails(p) ==
    /\ At(p, "exec")
    /\ \/ (inst[p].read \in applied \/ Blocked(inst[p].read)) /\ NoMFault
       \/ MFault
    /\ lock' = Nobody
    /\ Dies(p)
    /\ UNCHANGED <<dbVars, tool, forced, dropped>>

MarkClean(p) ==
    /\ At(p, "clean")
    /\ version' = inst[p].read /\ dirty' = FALSE
    /\ IF inst[p].read = LastVersion
       THEN GoTo(p, "serving") /\ lock' = Nobody
       ELSE inst' = [inst EXCEPT ![p].at = "next"] /\ UNCHANGED lock
    /\ UNCHANGED <<applied, left, data, tool, forced, dropped>> /\ NoMFault

NextMigration(p) ==
    /\ At(p, "next")
    /\ MarkDirty(p, inst[p].read + 1)
    /\ UNCHANGED <<applied, left, data, tool, forced, dropped>> /\ NoMFault

-----------------------------------------------------------------------------
(* recoverDirtyMigration.                                                  *)

\* Version once more, without the lock.  Without a version (somebody dropped the
\* tables) main exits; one that is clean by now is left to whoever cleaned it.
RecoverDirty(p) ==
    /\ At(p, "recover")
    /\ CASE dirty -> inst' = [inst EXCEPT ![p].at = "force", ![p].read = version]
         [] ~dirty /\ version = NoVersion -> Dies(p)
         [] OTHER -> ServeEarly(p)
    /\ UNCHANGED <<dbVars, lock, tool, forced, dropped>> /\ NoMFault

migrationForceVersion(v) == IF v <= Low THEN 0 ELSE v

\* Mutant of ForceDirty: the flag stays.
ForceDirty_StaysDirty(p) ==
    /\ At(p, "force")
    /\ lock = Nobody
    /\ version' = inst[p].read
    /\ forced' = forced \cup {inst[p].read}
    /\ GoTo(p, "retry")
    /\ UNCHANGED <<dirty, applied, left, data, lock, tool, dropped>> /\ NoMFault

ForceDirty(p) ==
    /\ At(p, "force")
    /\ lock = Nobody
    /\ version' = migrationForceVersion(inst[p].read) /\ dirty' = FALSE
    /\ forced' = forced \cup {inst[p].read}
    /\ GoTo(p, "retry")
    /\ UNCHANGED <<applied, left, data, lock, tool, dropped>> /\ NoMFault

Serve(p) ==
    /\ At(p, "serving") /\ 1 \in applied
    /\ data' = TRUE
    /\ UNCHANGED <<version, dirty, applied, left, lock, inst, tool, forced, dropped>>
    /\ NoMFault

\* A deployment stops the instance.
StopInstance(p) ==
    /\ At(p, "serving")
    /\ Dies(p)
    /\ UNCHANGED <<dbVars, lock, tool, forced, dropped>> /\ NoMFault

CrashInstance(p) ==
    /\ ~At(p, "down") /\ ~At(p, "serving")
    /\ Dies(p)
    /\ lock' = IF lock = p THEN Nobody ELSE lock
    /\ MFault /\ UNCHANGED <<dbVars, tool, forced, dropped>>

-----------------------------------------------------------------------------
(* cmd/migrate.                                                            *)

\* getCurrentVersion; a dirty version ends the command, and so does the last one,
\* after which nothing is pending.
StartTool ==
    /\ tool = NoTool /\ ~dirty /\ version # LastVersion
    /\ tool' = IF version = NoVersion THEN 0 ELSE version
    /\ MFault /\ UNCHANGED <<dbVars, lock, inst, forced, dropped>>

\* The version, the SQL and the dirty flag in one transaction; the command ends
\* with the last file.
ApplyMigration ==
    /\ tool \in 0 .. LastVersion - 1
    /\ ~Blocked(tool + 1)
    /\ tool' = IF tool + 1 = LastVersion THEN NoTool ELSE tool + 1
    /\ version' = tool + 1 /\ dirty' = FALSE
    /\ applied' = applied \cup {tool + 1}
    /\ left' = left \cup ({tool + 1} \cap Leavers)
    /\ UNCHANGED <<data, lock, inst, forced, dropped>> /\ NoMFault

\* The SQL fails because of what is there: rolled back, and the command exits.
ToolFails ==
    /\ tool \in 0 .. LastVersion - 1
    /\ tool + 1 \in applied \/ Blocked(tool + 1)
    /\ tool' = NoTool
    /\ UNCHANGED <<dbVars, lock, inst, forced, dropped>> /\ NoMFault

\* The flag -reset drops the schema, with types and functions.
ResetDatabase ==
    /\ tool = NoTool
    /\ DropTables /\ left' = {}
    /\ tool' = 0
    /\ MFault /\ UNCHANGED <<lock, inst, forced>>

InstanceStep(p) ==
    \/ StartInstance(p) \/ ReadVersion(p) \/ CheckTable(p) \/ DropDatabase(p)
    \/ DropFails(p) \/ Up(p) \/ LockTimeout(p) \/ ExecuteMigration(p)
    \/ ExecuteFails(p) \/ MarkClean(p) \/ NextMigration(p) \/ RecoverDirty(p)
    \/ ForceDirty(p)

MigrationNext ==
    \/ \E p \in Instances :
          \/ InstanceStep(p) \/ ReadFails(p) \/ DropInterrupted(p)
          \/ Serve(p) \/ StopInstance(p) \/ CrashInstance(p)
    \/ StartTool \/ ApplyMigration \/ ToolFails \/ ResetDatabase

MigrationSpec == MigrationInit /\ [][MigrationNext]_migrationVars

-----------------------------------------------------------------------------
(* Types; the instance that holds the lock is the one that migrates.       *)
MigrationTypeOK ==
    /\ version \in NoVersion .. LastVersion
    /\ applied \subseteq Versions /\ left \subseteq Versions
    /\ dirty => version \in Versions
    /\ data => 1 \in applied
    /\ tool \in {NoTool} \cup 0 .. LastVersion - 1
    /\ forced \subseteq Versions
    /\ \A p \in Instances :
          (inst[p].at \in {"exec", "clean", "next"}) <=> (lock = p)

(* A migration that counts as applied and is not was dirty when Force      *)
(* cleared it: nothing else loses a migration, as long as nobody drops     *)
(* tables under a running migration.                                       *)
SkippedWereForced ==
    ~dropped => \A v \in 1 .. version :
        v \in applied \/ v \in forced \/ (dirty /\ v = version)

(* An instance that serves has every table ("Migrations applied            *)
(* successfully"), except those of forced versions, unless it found the    *)
(* version clean after all, or could not drop a database of version 0.     *)
ServingComplete ==
    ~dropped => \A p \in Instances :
        At(p, "serving") /\ ~inst[p].early => Versions \ applied \subseteq forced

(* Data is dropped by the repair only if it looked while a migration was   *)
(* unfinished or the version moved, or a version had been forced or tables *)
(* dropped before: never because of the state a healthy start leaves.      *)
DataLossExplained ==
    [][data /\ ~data' =>
          \/ tool = NoTool /\ tool' # NoTool
          \/ \E p \in Instances : At(p, "drop") /\ inst[p].excused
          \/ \E p \in Instances : At(p, "corrupt") /\ forced # {}]_migrationVars

(* An instance is about to drop the tables of a database in which a type   *)
(* or a function that Drop leaves makes a migration fail.                  *)
RepairsAgain ==
    /\ \E p \in Instances : At(p, "drop") \/ At(p, "corrupt")
    /\ \E v \in Versions : Blocked(v)

(* However startups fail and repair each other's half-done work, one of    *)
(* the instances comes up: a dirty version is forced, a version 0 dropped, *)
(* a blocked migration skipped at the second attempt.  The one exception:  *)
(* instances that for ever look in the middle of each other's migrations   *)
(* and drop or reset what the others migrated, once something that Drop    *)
(* leaves makes every first pass fail.                                     *)
StartupSucceeds ==
    \/ (\E p \in Instances : ~At(p, "down")) ~> (\E p \in Instances : At(p, "serving"))
    \/ []<>RepairsAgain

\* The schema is what the version says it is: a migration that is missing was
\* forced, and an instance that serves has all the others.
ServingSound == MigrationTypeOK /\ SkippedWereForced /\ ServingComplete

=============================================================================
