----------------------------- MODULE Migrations -----------------------------
(***************************************************************************)
(* The migration command: the files are applied in order, each marked      *)
(* dirty before and clean after it, by runs of the command that hold no    *)
(* lock and may crash between any two statements.  A statement that the    *)
(* database still works on when its run has died counts as part of the run. *)
(***************************************************************************)
EXTENDS Naturals

CONSTANTS
    Count,         \* migration files, in the order of their names
    Refusers,      \* for each file, those whose presence makes it fail
    Undoes,        \* for each file, later ones that it undoes when applied again
    Emptying,      \* files that delete the entries of the trust ledger
    Runs           \* runs of the command that may overlap

Files == 1 .. Count

ASSUME MigrationsAssumption ==
    /\ Count \in Nat
    /\ Refusers \in [Files -> SUBSET Files]
    /\ Undoes \in [Files -> SUBSET Files]
    /\ \A f \in Files : \A g \in Undoes[f] : f < g
    /\ \A f \in Emptying : f \in Files /\ f < Count

VARIABLES
    schema,        \* the files whose changes are in the database, but for what
                   \* later files were written to replace
    version,       \* schema_migrations
    ledger,        \* trust_ledger: "empty", with "entries", or "erased" since
    migrator,      \* the runs of the command
    overlapped     \* ghost: one run has started while another went on

tables == <<schema, version, ledger>>

migrationVars == <<tables, migrator, overlapped>>

MigrationsInit ==
    /\ schema = {}
    /\ version = [f \in Files |-> "none"]
    /\ ledger = "empty"
    /\ overlapped = FALSE
    /\ migrator = [r \in Runs |-> [pc |-> "idle", file |-> 1]]

RunAt(r, pc) == migrator[r].pc = pc
Proceed(r, pc) == migrator' = [migrator EXCEPT ![r].pc = pc]
NextFile(r) == migrator' = [migrator EXCEPT ![r] = [pc |-> "check", file |-> @.file + 1]]

StartRun(r) ==
    /\ RunAt(r, "idle")
    /\ migrator' = [migrator EXCEPT ![r] = [pc |-> "check", file |-> 1]]
    /\ overlapped' = (overlapped \/ \E p \in Runs : ~RunAt(p, "idle"))
    /\ UNCHANGED tables

\* A file that is recorded as clean is skipped.
CheckFile(r) ==
    LET f == migrator[r].file IN
    /\ RunAt(r, "check")
    /\ IF f \notin Files THEN Proceed(r, "idle")
       ELSE IF version[f] = "clean" THEN NextFile(r)
       ELSE Proceed(r, "mark")
    /\ UNCHANGED <<tables, overlapped>>

\* Slip: the file is recorded as done before it is applied.
MarkDone(r, f) == version' = [version EXCEPT ![f] = "clean"]

\* The mark is set also on a file that another run has marked clean since.
SetDirty(r, f) == version' = [version EXCEPT ![f] = "dirty"]

MarkDirty(r) ==
    /\ RunAt(r, "mark")
    /\ SetDirty(r, migrator[r].file)
    /\ Proceed(r, "apply")
    /\ UNCHANGED <<schema, ledger, overlapped>>

\* The statements of a file are applied together or not at all.  Where they do not
\* fail a second time, they are carried out as they stand: 009 sets the constraint
\* on the status that 010 has replaced, 002 deletes the ledger.
ApplyFile(r) ==
    LET f == migrator[r].file IN
    /\ RunAt(r, "apply")
    /\ Refusers[f] \cap schema = {}
    /\ schema' = (schema \ Undoes[f]) \cup {f}
    /\ ledger' = IF f \in Emptying /\ ledger = "entries" THEN "erased" ELSE ledger
    /\ Proceed(r, "clean")
    /\ UNCHANGED <<version, overlapped>>

MarkClean(r) ==
    LET f == migrator[r].file IN
    /\ RunAt(r, "clean")
    /\ version' = [version EXCEPT ![f] = "clean"]
    /\ NextFile(r)
    /\ UNCHANGED <<schema, ledger, overlapped>>

\* A statement fails, or the process stops, at any step.
AbortRun(r) ==
    /\ ~RunAt(r, "idle")
    /\ Proceed(r, "idle")
    /\ UNCHANGED <<tables, overlapped>>

\* A registry appends to the ledger.  The rows of agents that it writes first have
\* columns of the last file.
UseLedger ==
    /\ Count \in schema
    /\ ledger = "empty"
    /\ ledger' = "entries"
    /\ UNCHANGED <<schema, version, migrator, overlapped>>

MigrationsNext ==
    \/ \E r \in Runs :
          \/ StartRun(r) \/ CheckFile(r) \/ MarkDirty(r) \/ ApplyFile(r)
          \/ MarkClean(r) \/ AbortRun(r)
    \/ UseLedger

MigrationsSpec == MigrationsInit /\ [][MigrationsNext]_migrationVars

-----------------------------------------------------------------------------
(* Properties *)

\* What overlapping runs of the command can take back.
MayBeUndone(f) == overlapped /\ \E g \in Files : f \in Undoes[g]

\* Crashes are visible and files are not skipped, though runs overlap and fail
\* anywhere: a file recorded as clean is applied, an applied file is recorded
\* one way or the other, and it has every earlier file below it.  The exceptions
\* need runs that overlap: an older file, applied again by a run that was behind,
\* undoes a later one, which stays recorded as clean; and only such a run deletes
\* a ledger that was in use.
SchemaTracked ==
    /\ \A f \in Files :
         /\ version[f] = "clean" => f \in schema \/ MayBeUndone(f)
         /\ f \in schema =>
              /\ version[f] # "none"
              /\ \A g \in 1 .. f : g \in schema \/ MayBeUndone(g)
    /\ ledger = "erased" => overlapped
=============================================================================
