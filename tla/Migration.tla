----------------------------- MODULE Migration ------------------------------
(***************************************************************************)
(* The script engine run when the server starts: Pdd.ir.Server/Services/   *)
(* ScriptExecutor.cs, over the scripts in Pdd.ir.Server/wwwroot/resource.  *)
(*                                                                         *)
(* A script is a sequence of batches (the text between two GO lines), each *)
(* sent on a connection of its own and outside any transaction.  Of a      *)
(* table the model keeps whether it exists, is still empty, holds the seed *)
(* rows or rows the users have changed, or was emptied by them; of a       *)
(* batch, which table it writes and under which guard.  Any database call  *)
(* may fail, and the server may crash between any two steps.               *)
(***************************************************************************)
EXTENDS Integers, Sequences

CONSTANTS
    NumFiles,     \* the number of scripts
    Tables,       \* the tables they write
    Script,       \* the batches of each script
    MaxBoots      \* bound on the starts of the server

\* The scripts in the order of their names.
Files == 1..NumFiles

\* "table":  IF table is missing CREATE it
\* "filled": IF table is missing BEGIN CREATE it; INSERT its first rows END
\* "rows":   IF table is empty INSERT its first rows
\* "update": UPDATE its rows, unconditionally
Batches == [kind : {"table", "filled", "rows", "update"}, table : Tables]

\* "empty": not filled yet; "cleared": its users deleted the rows.  A batch cannot
\* tell the two apart.
Values == {"absent", "empty", "seed", "edited", "cleared"}

ASSUME MigrationAssumption ==
    /\ NumFiles \in Nat
    /\ Script \in [Files -> Seq(Batches)]
    /\ MaxBoots \in Nat

VARIABLES
    phase,       \* where ExecutePendingScriptsAsync is; "down", "serving" outside
    executed,    \* executedFiles
    file,        \* the script being looked at
    batch,       \* the next batch of it
    hasError,    \* hasError
    ledger,      \* the table ResurceExecute exists
    recorded,    \* the Status values ResurceExecute holds for each script
    value,       \* the contents of each table
    runs,        \* history: how often each script was begun
    boots        \* history: the starts of the server

memory == <<executed, file, batch, hasError>>
vars == <<phase, memory, ledger, recorded, value, runs, boots>>

TypeOK ==
    /\ phase \in {"down", "ensure", "read", "file", "batch", "record", "serving"}
    /\ executed \subseteq Files
    /\ file \in 1..(NumFiles + 1)
    /\ batch \in Nat \ {0}
    /\ hasError \in BOOLEAN
    /\ ledger \in BOOLEAN
    /\ recorded \in [Files -> SUBSET {"OK", "ERROR"}]
    /\ value \in [Tables -> Values]
    /\ runs \in [Files -> Nat]
    /\ boots \in 0..MaxBoots

Init ==
    /\ phase = "down"
    /\ executed = {}
    /\ file = 1
    /\ batch = 1
    /\ hasError = FALSE
    /\ ledger = FALSE
    /\ recorded = [f \in Files |-> {}]
    /\ value = [t \in Tables |-> "absent"]
    /\ runs = [f \in Files |-> 0]
    /\ boots = 0

Ok(f) == "OK" \in recorded[f]

----------------------------------------------------------------------------
Start ==
    /\ phase = "down"
    /\ boots < MaxBoots
    /\ boots' = boots + 1
    /\ phase' = "ensure"
    /\ UNCHANGED <<memory, ledger, recorded, value, runs>>

\* EnsureResourceExecuteTable: create the table if it is missing; an error is
\* logged and otherwise ignored.
Ensure ==
    /\ phase = "ensure"
    /\ phase' = "read"
    /\ ledger' \in {ledger, TRUE}
    /\ UNCHANGED <<memory, recorded, value, runs, boots>>

\* A mutant of ReadExecuted: the condition on Status is dropped.
ReadAnyStatus ==
    /\ phase = "read"
    /\ ledger
    /\ executed' = {f \in Files : recorded[f] # {}}
    /\ file' = 1
    /\ phase' = "file"
    /\ UNCHANGED <<batch, hasError, ledger, recorded, value, runs, boots>>
\* A mutant of ReadExecuted: it asks for the scripts that had errors.
ReadErrors ==
    /\ phase = "read"
    /\ ledger
    /\ executed' = {f \in Files : "ERROR" \in recorded[f]}
    /\ file' = 1
    /\ phase' = "file"
    /\ UNCHANGED <<batch, hasError, ledger, recorded, value, runs, boots>>

\* The names of the scripts recorded OK, and the first script.
ReadExecuted ==
    /\ phase = "read"
    /\ ledger
    /\ executed' = {f \in Files : Ok(f)}
    /\ file' = 1
    /\ phase' = "file"
    /\ UNCHANGED <<batch, hasError, ledger, recorded, value, runs, boots>>

Pending == {f \in Files : f >= file /\ f \notin executed}

\* The next script not yet executed is split into its batches.
Begin ==
    /\ phase = "file"
    /\ \E f \in Pending :
          /\ \A g \in Pending : f <= g
          /\ file' = f
          /\ runs' = [runs EXCEPT ![f] = @ + 1]
          /\ phase' = IF Script[f] = <<>> THEN "record" ELSE "batch"
    /\ batch' = 1
    /\ hasError' = FALSE
    /\ UNCHANGED <<executed, ledger, recorded, value, boots>>

\* A mutant of After: the guard on the table is dropped.
AfterUnguarded(b, v) ==
    CASE b.kind = "table" -> "empty"
      [] OTHER -> "seed"

\* The contents of its table after a batch has run to its end.
After(b, v) ==
    CASE b.kind = "table"  -> IF v = "absent" THEN "empty" ELSE v
      [] b.kind = "filled" -> IF v = "absent" THEN "seed" ELSE v
      [] b.kind = "rows"   -> IF v \in {"empty", "cleared"} THEN "seed" ELSE v
      [] b.kind = "update" -> IF v = "edited" THEN "seed" ELSE v

\* After a batch that stopped halfway: created, but not filled.
Halfway(b, v) == IF b.kind = "filled" /\ v = "absent" THEN "empty" ELSE v

\* A batch that names a missing table without creating it is refused.
Runnable(b, v) == b.kind \in {"rows", "update"} => v # "absent"

\* A mutant of RunBatch: hasError reports on the last batch alone.
RunBatchLastError ==
    /\ phase = "batch"
    /\ LET b == Script[file][batch]
           v == value[b.table]
       IN  \/ /\ Runnable(b, v)
              /\ value' = [value EXCEPT ![b.table] = After(b, v)]
              /\ hasError' = FALSE
           \/ /\ value' = value
              /\ hasError' = TRUE
    /\ IF batch < Len(Script[file])
       THEN phase' = phase /\ batch' = batch + 1
       ELSE phase' = "record" /\ batch' = batch
    /\ UNCHANGED <<executed, file, ledger, recorded, runs, boots>>

\* One batch, on a connection of its own.  An error (no connection, a refused
\* statement, a timeout, a connection lost in the middle or before the reply) is
\* noted, whatever the batch had done by then, and the next one runs all the same.
RunBatch ==
    /\ phase = "batch"
    /\ LET b == Script[file][batch]
           v == value[b.table]
       IN  \/ /\ Runnable(b, v)
              /\ value' = [value EXCEPT ![b.table] = After(b, v)]
              /\ UNCHANGED hasError
           \/ /\ \/ value' = value
                 \/ value' = [value EXCEPT ![b.table] = Halfway(b, v)]
                 \/ Runnable(b, v) /\ value' = [value EXCEPT ![b.table] = After(b, v)]
              /\ hasError' = TRUE
    /\ IF batch < Len(Script[file])
       THEN phase' = phase /\ batch' = batch + 1
       ELSE phase' = "record" /\ batch' = batch
    /\ UNCHANGED <<executed, file, ledger, recorded, runs, boots>>

\* INSERT INTO ResurceExecute, then the next script.
Record ==
    /\ phase = "record"
    /\ ledger
    /\ recorded' = [recorded EXCEPT ![file] =
                       @ \cup {IF hasError THEN "ERROR" ELSE "OK"}]
    /\ file' = file + 1
    /\ phase' = "file"
    /\ UNCHANGED <<executed, batch, hasError, ledger, value, runs, boots>>

\* A mutant of Throws: a result that cannot be written is passed over.
ThrowsNothing ==
    /\ phase = "record"
    /\ file' = file + 1
    /\ phase' = "file"
    /\ UNCHANGED <<executed, batch, hasError, ledger, recorded, value, runs, boots>>
\* A mutant of Throws: the call is tried again.
ThrowsRetry ==
    /\ phase \in {"read", "file", "record"}
    /\ phase' = "read"
    /\ UNCHANGED <<memory, ledger, recorded, value, runs, boots>>

\* The query, the file system or the INSERT throws: the outer catch gives up the
\* remaining scripts, and the server starts all the same.
Throws ==
    /\ phase \in {"read", "file", "record"}
    /\ phase' = "serving"
    /\ UNCHANGED <<memory, ledger, recorded, value, runs, boots>>

\* No script is left.
Serve ==
    /\ phase = "file"
    /\ Pending = {}
    /\ phase' = "serving"
    /\ UNCHANGED <<memory, ledger, recorded, value, runs, boots>>

----------------------------------------------------------------------------
\* The users of the running server change the rows of a table, or delete them.
Edit(t) ==
    /\ phase = "serving"
    /\ value[t] # "absent"
    /\ \E v \in {"edited", "cleared"} : value' = [value EXCEPT ![t] = v]
    /\ UNCHANGED <<phase, memory, ledger, recorded, runs, boots>>

\* The server stops, at any point: its memory is lost, the database stays.
Crash ==
    /\ phase # "down"
    /\ phase' = "down"
    /\ executed' = {}
    /\ file' = 1
    /\ batch' = 1
    /\ hasError' = FALSE
    /\ UNCHANGED <<ledger, recorded, value, runs, boots>>

BootStep == Ensure \/ ReadExecuted \/ Begin \/ RunBatch \/ Record \/ Throws \/ Serve

Next ==
    \/ Start
    \/ BootStep
    \/ \E t \in Tables : Edit(t)
    \/ Crash

Spec == Init /\ [][Next]_vars

\* The server's start runs on: database calls return or time out.
FairSpec == Spec /\ WF_vars(BootStep)

----------------------------------------------------------------------------
(* Properties                                                              *)

\* A script recorded OK has run through without an error, in one go: every table
\* it writes exists.  An error in one batch is not hidden by a later batch that
\* succeeds.
OkMeansBuilt ==
    \A f \in Files : Ok(f) =>
        \A i \in 1..Len(Script[f]) : value[Script[f][i].table] # "absent"

\* Scripts are recorded in the order of their names: one that has a result has one
\* for every script before it, however often starts failed or crashed.  A later
\* script may count on the earlier ones having been tried.
RecordedInOrder ==
    \A f, g \in Files : g < f /\ recorded[f] # {} => recorded[g] # {}

\* A script recorded OK is never begun again, at no later start of the server.
OkNeverRunsAgain ==
    [][\A f \in Files : Ok(f) => runs'[f] = runs[f]]_vars

\* A script with an error is tried again: at the end of a start that gave up on no
\* script, each has been recorded OK or was begun in this start.
ErrorsRetried ==
    phase = "file" /\ Pending = {} =>
        \A f \in Files : ~Ok(f) => "ERROR" \in recorded[f] /\ f \notin executed

\* What a start of the server may undo of its users' changes, and how: an update
\* overwrites rows they changed, and a batch guarded by a test for rows
\* (202607241000_Create_Clients_Clean.sql:31) fills again a table they emptied; both
\* only in a script not recorded OK.  No other batch, failure, crash or restart does,
\* and what users did to any other table stays.
EditsSurvive ==
    [][phase # "serving" =>
          \A t \in Tables : value[t] \in {"edited", "cleared"} /\ value'[t] # value[t] =>
              /\ phase = "batch" /\ ~Ok(file)
              /\ Script[file][batch] =
                    [kind |-> IF value[t] = "edited" THEN "update" ELSE "rows", table |-> t]
      ]_vars

\* Whatever fails on the way, the start comes to an end.
BootEnds == phase \notin {"down", "serving"} ~> phase \in {"down", "serving"}

\* "The scripts run only once and are safe with IF OBJECT_ID ... IS NULL" (README.md,
\* the note under the list of scripts): if a script that was begun before is run
\* again, it leaves alone what users changed since.
RerunsAreSafe ==
    [][phase = "batch" /\ runs[file] > 1 =>
          \A t \in Tables : value[t] = "edited" => value'[t] = "edited"]_vars
=============================================================================
