-------------------------- MODULE MigrationProofs ---------------------------
(***************************************************************************)
(* The script engine is right for every list of scripts, any number of     *)
(* starts and any failure: what is recorded OK is built, scripts are       *)
(* recorded in order, and a script recorded OK is not begun again.         *)
(***************************************************************************)
EXTENDS Migration, TLAPS

\* Where the phase says a script is being run, there is one, with a next batch.
AtScript ==
    /\ phase \in {"batch", "record"} => file \in Files
    /\ phase = "batch" => batch <= Len(Script[file])

Exists(f, i) == value[Script[f][i].table] # "absent"

\* The first batches of the current script, while none has failed.
BuiltSoFar ==
    /\ phase = "batch" /\ ~hasError =>
          \A i \in 1..Len(Script[file]) : i < batch => Exists(file, i)
    /\ phase = "record" /\ ~hasError =>
          \A i \in 1..Len(Script[file]) : Exists(file, i)

\* The scripts before the current one have a result.
EarlierRecorded ==
    /\ phase \in {"file", "batch", "record"} =>
          \A g \in Files : g < file => recorded[g] # {}
    /\ \A g \in executed : recorded[g] # {}

\* A script is only skipped for a result OK, which no later step takes back.
ExecutedOk == \A f \in executed : Ok(f)

\* The scripts still ahead that are recorded OK will be skipped.
OkSkipped ==
    /\ phase = "file" => \A f \in Files : f >= file /\ Ok(f) => f \in executed
    /\ phase \in {"batch", "record"} =>
          \A f \in Files : f > file /\ Ok(f) => f \in executed

\* A script recorded OK is not being run.
NotYetOk == phase \in {"batch", "record"} => ~Ok(file)

EngineInv ==
    /\ TypeOK
    /\ AtScript
    /\ BuiltSoFar
    /\ OkMeansBuilt
    /\ EarlierRecorded
    /\ RecordedInOrder
    /\ ExecutedOk
    /\ OkSkipped
    /\ NotYetOk

\* A batch of a script names a table and one of the kinds.
LEMMA BatchType ==
    ASSUME NEW f \in Files, NEW i \in 1..Len(Script[f])
    PROVE  /\ Script[f][i].table \in Tables
           /\ Script[f][i].kind \in {"table", "filled", "rows", "update"}
<1>1. Script[f] \in Seq(Batches)
  BY MigrationAssumption
<1>2. Script[f][i] \in Batches
  BY <1>1
<1> QED
  BY <1>2 DEF Batches

\* No batch makes a table disappear, and one that ran to its end has its table.
LEMMA BatchEffects ==
    ASSUME NEW b, b.kind \in {"table", "filled", "rows", "update"}, NEW v \in Values
    PROVE  /\ After(b, v) \in Values
           /\ Halfway(b, v) \in Values
           /\ v # "absent" => After(b, v) # "absent" /\ Halfway(b, v) # "absent"
           /\ Runnable(b, v) => After(b, v) # "absent"
BY DEF After, Halfway, Runnable, Values

\* A batch succeeded, or an error was noted; either way no table is lost.
LEMMA BatchStep ==
    ASSUME TypeOK, AtScript, RunBatch
    PROVE  /\ value' \in [Tables -> Values]
           /\ \A t \in Tables : value[t] # "absent" => value'[t] # "absent"
           /\ ~hasError' => ~hasError /\ value'[Script[file][batch].table] # "absent"
           /\ hasError' \in BOOLEAN
<1> DEFINE b == Script[file][batch]
           v == value[b.table]
<1>1. file \in Files /\ batch \in 1..Len(Script[file])
  BY MigrationAssumption DEF TypeOK, AtScript, RunBatch, Files
<1>2. b.table \in Tables /\ b.kind \in {"table", "filled", "rows", "update"}
  BY <1>1, BatchType
<1>3. v \in Values
  BY <1>2 DEF TypeOK
<1>4. /\ After(b, v) \in Values
      /\ Halfway(b, v) \in Values
      /\ v # "absent" => After(b, v) # "absent" /\ Halfway(b, v) # "absent"
      /\ Runnable(b, v) => After(b, v) # "absent"
  BY <1>2, <1>3, BatchEffects
<1>5. \/ /\ Runnable(b, v)
         /\ value' = [value EXCEPT ![b.table] = After(b, v)]
         /\ UNCHANGED hasError
      \/ /\ \/ value' = value
            \/ value' = [value EXCEPT ![b.table] = Halfway(b, v)]
            \/ Runnable(b, v) /\ value' = [value EXCEPT ![b.table] = After(b, v)]
         /\ hasError' = TRUE
  BY DEF RunBatch
<1>6. value \in [Tables -> Values] /\ hasError \in BOOLEAN
  BY DEF TypeOK
<1>7. file' = file /\ (~hasError' => value'[b.table] # "absent")
  BY <1>2, <1>4, <1>5, <1>6 DEF RunBatch
<1>8. ~hasError' => ~hasError
  BY <1>5
<1> QED
  BY <1>2, <1>3, <1>4, <1>5, <1>6, <1>7, <1>8

LEMMA Bounds == NumFiles \in Nat /\ MaxBoots \in Nat
BY MigrationAssumption

LEMMA EngineInit == Init => EngineInv
<1> SUFFICES ASSUME Init PROVE EngineInv
  OBVIOUS
<1>1. TypeOK
  <2>1. file \in 1..(NumFiles + 1) /\ boots \in 0..MaxBoots
    BY Bounds DEF Init
  <2>2. /\ recorded \in [Files -> SUBSET {"OK", "ERROR"}]
        /\ runs \in [Files -> Nat]
        /\ value \in [Tables -> Values]
    BY DEF Values, Init
  <2>3. phase = "down" /\ executed = {} /\ batch = 1
    BY DEF Init
  <2>4. hasError \in BOOLEAN /\ ledger \in BOOLEAN
    BY DEF Init
  <2> QED
    BY <2>1, <2>2, <2>3, <2>4 DEF TypeOK
<1>2. AtScript /\ BuiltSoFar
  BY DEF AtScript, BuiltSoFar, Init
<1>3. OkMeansBuilt /\ RecordedInOrder
  BY DEF OkMeansBuilt, RecordedInOrder, Ok, Init
<1>4. EarlierRecorded /\ OkSkipped
  BY DEF EarlierRecorded, OkSkipped, Init, Ok
<1>5. ExecutedOk /\ NotYetOk
  BY DEF ExecutedOk, NotYetOk, Init
<1> QED
  BY <1>1, <1>2, <1>3, <1>4, <1>5 DEF EngineInv

LEMMA EngineType == EngineInv /\ [Next]_vars => TypeOK'
<1> SUFFICES ASSUME EngineInv, [Next]_vars PROVE TypeOK'
  OBVIOUS
<1> USE Bounds DEF TypeOK, EngineInv, Files, Ok
<1>1. CASE Start
  BY <1>1 DEF Start, memory
<1>2. CASE Ensure
  BY <1>2 DEF Ensure, memory
<1>3. CASE ReadExecuted
  BY <1>3 DEF ReadExecuted
<1>4. CASE Begin
  <2>1. PICK f \in Pending : /\ file' = f
                             /\ runs' = [runs EXCEPT ![f] = @ + 1]
                             /\ phase' = IF Script[f] = <<>> THEN "record" ELSE "batch"
    BY <1>4 DEF Begin
  <2>2. f \in Files
    BY DEF Pending
  <2>3. runs' \in [Files -> Nat]
    BY <2>1, <2>2
  <2>4. phase' \in {"record", "batch"} /\ file' \in 1..(NumFiles + 1)
    BY <2>1, <2>2
  <2>5. batch' = 1 /\ UNCHANGED <<executed, ledger, recorded, value, boots>>
    BY <1>4 DEF Begin
  <2>6. hasError' \in BOOLEAN
    BY <1>4 DEF Begin
  <2> QED
    BY <2>3, <2>4, <2>5, <2>6
<1>5. CASE RunBatch
  <2>1. value' \in [Tables -> Values] /\ hasError' \in BOOLEAN
    BY <1>5, BatchStep
  <2>2. phase' \in {"batch", "record"} /\ batch' \in Nat \ {0}
    BY <1>5 DEF RunBatch
  <2> QED
    BY <1>5, <2>1, <2>2 DEF RunBatch
<1>6. CASE Record
  <2>1. file \in Files
    BY <1>6 DEF Record, AtScript
  <2>2. recorded' \in [Files -> SUBSET {"OK", "ERROR"}]
    BY <1>6, <2>1 DEF Record
  <2> QED
    BY <1>6, <2>1, <2>2 DEF Record
<1>7. CASE Throws
  BY <1>7 DEF Throws, memory
<1>8. CASE Serve
  BY <1>8 DEF Serve, memory
<1>9. CASE \E t \in Tables : Edit(t)
  BY <1>9 DEF Edit, memory, Values
<1>10. CASE Crash
  <2>1. /\ phase' = "down" /\ executed' = {} /\ file' = 1 /\ batch' = 1
        /\ UNCHANGED <<ledger, recorded, value, runs, boots>>
    BY <1>10 DEF Crash
  <2>2. hasError' \in BOOLEAN
    BY <1>10 DEF Crash
  <2> QED
    BY <2>1, <2>2
<1>11. CASE UNCHANGED vars
  BY <1>11 DEF vars, memory
<1> QED
  BY <1>1, <1>2, <1>3, <1>4, <1>5, <1>6, <1>7, <1>8, <1>9, <1>10, <1>11
     DEF Next, BootStep

LEMMA EngineBuilt == EngineInv /\ [Next]_vars => (AtScript /\ BuiltSoFar /\ OkMeansBuilt)'
<1> SUFFICES ASSUME EngineInv, [Next]_vars PROVE (AtScript /\ BuiltSoFar /\ OkMeansBuilt)'
  OBVIOUS
<1> USE DEF AtScript, BuiltSoFar, OkMeansBuilt, Exists, Ok
<1>0. TypeOK /\ AtScript /\ BuiltSoFar /\ OkMeansBuilt
  BY DEF EngineInv
<1>1. CASE Start \/ Ensure \/ ReadExecuted \/ Throws \/ Serve \/ Crash \/ UNCHANGED vars
  <2>1. /\ UNCHANGED <<value, recorded>>
        /\ \/ phase' \notin {"batch", "record"}
           \/ UNCHANGED <<phase, file, batch, hasError>>
    BY <1>1 DEF Start, Ensure, ReadExecuted, Throws, Serve, Crash, vars, memory
  <2> QED
    BY <1>0, <2>1
<1>2. CASE Begin
  <2>1. PICK f \in Pending : /\ file' = f
                             /\ phase' = IF Script[f] = <<>> THEN "record" ELSE "batch"
    BY <1>2 DEF Begin
  <2>2. batch' = 1 /\ UNCHANGED <<value, recorded>>
    BY <1>2 DEF Begin
  <2>3. f \in Files /\ Script[f] \in Seq(Batches)
    BY MigrationAssumption DEF Pending
  <2>4. CASE Script[f] = <<>>
    <3>1. phase' = "record" /\ Len(Script[f]) = 0
      BY <2>1, <2>4
    <3> QED
      BY <1>0, <2>1, <2>2, <2>3, <3>1
  <2>5. CASE Script[f] # <<>>
    <3>1. phase' = "batch" /\ Len(Script[f]) \in Nat /\ 1 <= Len(Script[f])
      BY <2>1, <2>3, <2>5
    <3> QED
      BY <1>0, <2>1, <2>2, <2>3, <3>1
  <2> QED
    BY <2>4, <2>5
<1>3. CASE RunBatch
  <2>1. /\ value' \in [Tables -> Values]
        /\ \A t \in Tables : value[t] # "absent" => value'[t] # "absent"
        /\ ~hasError' => ~hasError /\ value'[Script[file][batch].table] # "absent"
    BY <1>0, <1>3, BatchStep
  <2>2. /\ phase = "batch" /\ UNCHANGED <<file, recorded>>
        /\ IF batch < Len(Script[file])
           THEN phase' = phase /\ batch' = batch + 1
           ELSE phase' = "record" /\ batch' = batch
    BY <1>3 DEF RunBatch
  <2>3. file \in Files /\ Len(Script[file]) \in Nat /\ batch \in 1..Len(Script[file])
    BY <1>0, <2>2, MigrationAssumption DEF TypeOK
  <2>4. \A f \in Files : \A i \in 1..Len(Script[f]) :
           Exists(f, i) => value'[Script[f][i].table] # "absent"
    BY <2>1, BatchType
  <2>5. OkMeansBuilt'
    BY <1>0, <2>2, <2>4
  <2>6. ~hasError' => \A i \in 1..Len(Script[file]) :
                         i <= batch => value'[Script[file][i].table] # "absent"
    <3> SUFFICES ASSUME ~hasError', NEW i \in 1..Len(Script[file]), i <= batch
                 PROVE  value'[Script[file][i].table] # "absent"
      OBVIOUS
    <3>1. CASE i = batch
      BY <2>1, <3>1
    <3>2. CASE i # batch
      <4>1. i < batch
        BY <2>3, <3>2
      <4> QED
        BY <1>0, <2>1, <2>2, <2>3, <2>4, <4>1
    <3> QED
      BY <3>1, <3>2
  <2>7. CASE batch < Len(Script[file])
    <3>1. phase' = "batch" /\ batch' = batch + 1
      BY <2>2, <2>7
    <3> QED
      BY <2>2, <2>3, <2>5, <2>6, <2>7, <3>1
  <2>8. CASE ~(batch < Len(Script[file]))
    <3>1. phase' = "record" /\ batch = Len(Script[file])
      BY <2>2, <2>3, <2>8
    <3> QED
      BY <2>2, <2>3, <2>5, <2>6, <3>1
  <2> QED
    BY <2>7, <2>8
<1>4. CASE Record
  <2>1. /\ phase = "record" /\ phase' = "file" /\ UNCHANGED value
        /\ recorded' = [recorded EXCEPT ![file] =
                            @ \cup {IF hasError THEN "ERROR" ELSE "OK"}]
    BY <1>4 DEF Record
  <2>2. file \in Files
    BY <1>0, <2>1
  <2>3. \A f \in Files : "OK" \in recorded'[f] => "OK" \in recorded[f] \/ (f = file /\ ~hasError)
    BY <1>0, <2>1, <2>2 DEF TypeOK
  <2> QED
    BY <1>0, <2>1, <2>3
<1>5. CASE \E t \in Tables : Edit(t)
  <2>1. PICK t \in Tables : Edit(t)
    BY <1>5
  <2>2. /\ phase' = "serving" /\ UNCHANGED recorded
        /\ \E v \in {"edited", "cleared"} : value' = [value EXCEPT ![t] = v]
    BY <2>1 DEF Edit
  <2>3. \A u \in Tables : value[u] # "absent" => value'[u] # "absent"
    BY <1>0, <2>2 DEF TypeOK
  <2>4. \A f \in Files : \A i \in 1..Len(Script[f]) : Script[f][i].table \in Tables
    BY BatchType
  <2> QED
    BY <1>0, <2>2, <2>3, <2>4
<1> QED
  BY <1>1, <1>2, <1>3, <1>4, <1>5 DEF Next, BootStep

LEMMA EngineOrder == EngineInv /\ [Next]_vars => (EarlierRecorded /\ RecordedInOrder /\ OkSkipped)'
<1> SUFFICES ASSUME EngineInv, [Next]_vars
             PROVE  (EarlierRecorded /\ RecordedInOrder /\ OkSkipped)'
  OBVIOUS
<1> USE DEF EarlierRecorded, RecordedInOrder, OkSkipped, Ok
<1>0. TypeOK /\ AtScript /\ EarlierRecorded /\ RecordedInOrder /\ OkSkipped
  BY DEF EngineInv
<1>n. Files \subseteq Int /\ file \in Int /\ \A f \in Files : f \in Int /\ 1 <= f
  BY <1>0, Bounds DEF TypeOK, Files
<1>1. CASE Start \/ Ensure \/ Throws \/ Serve \/ UNCHANGED vars \/ (\E t \in Tables : Edit(t))
  <2>1. /\ UNCHANGED <<recorded, executed>>
        /\ \/ phase' \notin {"file", "batch", "record"}
           \/ UNCHANGED <<phase, file>>
    BY <1>1 DEF Start, Ensure, Throws, Serve, Edit, vars, memory
  <2> QED
    BY <1>0, <2>1
<1>2. CASE ReadExecuted
  <2>1. /\ phase' = "file" /\ file' = 1 /\ UNCHANGED recorded
        /\ executed' = {f \in Files : "OK" \in recorded[f]}
    BY <1>2 DEF ReadExecuted
  <2>2. \A g \in Files : ~(g < file')
    BY <1>n, <2>1
  <2> QED
    BY <1>0, <2>1, <2>2
<1>3. CASE Begin
  <2>1. PICK f \in Pending : /\ \A g \in Pending : f <= g
                             /\ file' = f
    BY <1>3 DEF Begin
  <2>2. /\ phase = "file" /\ phase' \in {"batch", "record"}
        /\ UNCHANGED <<recorded, executed>>
    BY <1>3 DEF Begin
  <2>3. f \in Files /\ f >= file
    BY DEF Pending
  <2>4. \A g \in Files : g < f => recorded[g] # {}
    <3> SUFFICES ASSUME NEW g \in Files, g < f PROVE recorded[g] # {}
      OBVIOUS
    <3>1. g \notin Pending
      BY <1>n, <2>1, <2>3
    <3>2. g < file \/ g \in executed
      BY <1>n, <3>1 DEF Pending
    <3> QED
      BY <1>0, <2>2, <3>2
  <2>5. \A g \in Files : g > f => g >= file
    BY <1>n, <2>3
  <2> QED
    BY <1>0, <2>1, <2>2, <2>4, <2>5
<1>4. CASE RunBatch
  <2>1. /\ phase = "batch" /\ phase' \in {"batch", "record"}
        /\ UNCHANGED <<recorded, executed, file>>
    BY <1>4 DEF RunBatch
  <2> QED
    BY <1>0, <2>1
<1>5. CASE Record
  <2>1. /\ phase = "record" /\ phase' = "file" /\ file' = file + 1
        /\ UNCHANGED executed
        /\ recorded' = [recorded EXCEPT ![file] =
                            @ \cup {IF hasError THEN "ERROR" ELSE "OK"}]
    BY <1>5 DEF Record
  <2>2. file \in Files
    BY <1>0, <2>1 DEF AtScript
  <2>3. /\ recorded'[file] # {}
        /\ \A f \in Files : recorded[f] # {} => recorded'[f] # {}
        /\ \A f \in Files : f # file => recorded'[f] = recorded[f]
    BY <1>0, <2>1, <2>2 DEF TypeOK
  <2>4. \A g \in Files : g < file => recorded'[g] # {}
    BY <1>0, <2>1, <2>3
  <2>5. EarlierRecorded'
    <3>1. \A g \in Files : g < file' => recorded'[g] # {}
      BY <1>n, <2>1, <2>3, <2>4
    <3>2. \A g \in executed : recorded'[g] # {}
      BY <1>0, <2>3 DEF TypeOK
    <3> QED
      BY <2>1, <3>1, <3>2
  <2>6. RecordedInOrder'
    <3> SUFFICES ASSUME NEW f \in Files, NEW g \in Files, g < f, recorded'[f] # {}
                 PROVE  recorded'[g] # {}
      OBVIOUS
    <3>1. CASE f = file
      BY <2>4, <3>1
    <3>2. CASE f # file
      BY <1>0, <2>3, <3>2
    <3> QED
      BY <3>1, <3>2
  <2>7. OkSkipped'
    <3>1. \A f \in Files : f >= file' => f > file /\ f # file
      BY <1>n, <2>1
    <3> QED
      BY <1>0, <2>1, <2>3, <3>1
  <2> QED
    BY <2>5, <2>6, <2>7
<1>6. CASE Crash
  <2>1. phase' = "down" /\ executed' = {} /\ UNCHANGED recorded
    BY <1>6 DEF Crash
  <2> QED
    BY <1>0, <2>1
<1> QED
  BY <1>1, <1>2, <1>3, <1>4, <1>5, <1>6 DEF Next, BootStep

LEMMA EngineStartsPending == EngineInv /\ [Next]_vars => NotYetOk'
<1> SUFFICES ASSUME EngineInv, [Next]_vars PROVE NotYetOk'
  OBVIOUS
<1> USE DEF NotYetOk, Ok
<1>1. CASE Begin
  <2>1. PICK f \in Pending : file' = f
    BY <1>1 DEF Begin
  <2>2. f \in Files /\ f >= file /\ f \notin executed
    BY DEF Pending
  <2>3. phase = "file" /\ UNCHANGED recorded
    BY <1>1 DEF Begin
  <2>4. "OK" \notin recorded[f]
    BY <2>2, <2>3 DEF EngineInv, OkSkipped
  <2> QED
    BY <2>1, <2>3, <2>4
<1>2. CASE RunBatch
  <2>1. phase = "batch" /\ UNCHANGED <<file, recorded>>
    BY <1>2 DEF RunBatch
  <2> QED
    BY <2>1 DEF EngineInv
<1>3. CASE \/ Start \/ Ensure \/ ReadExecuted \/ Record \/ Throws \/ Serve \/ Crash
           \/ \E t \in Tables : Edit(t)
  <2>1. phase' \notin {"batch", "record"}
    BY <1>3 DEF Start, Ensure, ReadExecuted, Record, Throws, Serve, Crash, Edit
  <2> QED
    BY <2>1
<1>4. CASE UNCHANGED vars
  BY <1>4 DEF vars, memory, EngineInv
<1> QED
  BY <1>1, <1>2, <1>3, <1>4 DEF Next, BootStep

LEMMA EngineSkips == EngineInv /\ [Next]_vars => ExecutedOk'
<1> SUFFICES ASSUME EngineInv, [Next]_vars PROVE ExecutedOk'
  OBVIOUS
<1> USE DEF ExecutedOk, Ok
<1>0. TypeOK /\ ExecutedOk
  BY DEF EngineInv
<1>1. CASE Record
  <2>1. \A f \in Files : "OK" \in recorded[f] => "OK" \in recorded'[f]
    BY <1>0, <1>1 DEF Record, TypeOK
  <2> QED
    BY <1>0, <1>1, <2>1 DEF Record, TypeOK
<1>2. CASE ReadExecuted
  BY <1>2 DEF ReadExecuted
<1>3. CASE Crash
  BY <1>3 DEF Crash
<1>4. CASE \/ Start \/ Ensure \/ Begin \/ RunBatch \/ Throws \/ Serve \/ UNCHANGED vars
           \/ \E t \in Tables : Edit(t)
  <2>1. UNCHANGED <<executed, recorded>>
    BY <1>4 DEF Start, Ensure, Begin, RunBatch, Throws, Serve, Edit, vars, memory
  <2> QED
    BY <1>0, <2>1
<1> QED
  BY <1>1, <1>2, <1>3, <1>4 DEF Next, BootStep

\* The inductive invariant: what the current start has done so far, added to what
\* the table ResurceExecute says.
THEOREM EngineInvariant == Spec => []EngineInv
<1>1. EngineInv /\ [Next]_vars => EngineInv'
  BY EngineType, EngineBuilt, EngineOrder, EngineSkips, EngineStartsPending DEF EngineInv
<1> QED
  BY EngineInit, <1>1, PTL DEF Spec

\* Type correctness.
THEOREM EngineTypeCorrect == Spec => []TypeOK
<1>1. EngineInv => TypeOK
  BY DEF EngineInv
<1> QED
  BY EngineInvariant, <1>1, PTL

\* A script recorded OK has every table it writes, whichever of its batches, of the
\* database calls or of the starts failed before.
THEOREM OkIsBuilt == Spec => []OkMeansBuilt
<1>1. EngineInv => OkMeansBuilt
  BY DEF EngineInv
<1> QED
  BY EngineInvariant, <1>1, PTL

\* Scripts are recorded in the order of their names.
THEOREM InOrder == Spec => []RecordedInOrder
<1>1. EngineInv => RecordedInOrder
  BY DEF EngineInv
<1> QED
  BY EngineInvariant, <1>1, PTL

\* A script recorded OK is not begun again at any later start.
THEOREM OkIsFinal == Spec => OkNeverRunsAgain
<1>1. EngineInv /\ [Next]_vars => [\A f \in Files : Ok(f) => runs'[f] = runs[f]]_vars
  <2> SUFFICES ASSUME EngineInv, Next PROVE \A f \in Files : Ok(f) => runs'[f] = runs[f]
    BY DEF vars
  <2>1. CASE Begin
    <3>1. PICK f \in Pending : runs' = [runs EXCEPT ![f] = @ + 1]
      BY <2>1 DEF Begin
    <3>2. f \in Files /\ ~Ok(f)
      BY <2>1 DEF Begin, Pending, EngineInv, OkSkipped
    <3>3. runs \in [Files -> Nat]
      BY DEF EngineInv, TypeOK
    <3> QED
      BY <3>1, <3>2, <3>3
  <2>2. CASE ~Begin
    <3>1. UNCHANGED runs
      BY <2>2 DEF Next, BootStep, Start, Ensure, ReadExecuted, RunBatch, Record, Throws,
                  Serve, Edit, Crash
    <3> QED
      BY <3>1
  <2> QED
    BY <2>1, <2>2
<1> QED
  BY EngineInvariant, <1>1, PTL DEF Spec, OkNeverRunsAgain

\* A start that gives up on no script leaves none behind: each was recorded OK, or
\* was begun in this start and has its error on record.
THEOREM ErrorsAlwaysRetried == Spec => []ErrorsRetried
<1>1. EngineInv => ErrorsRetried
  <2> SUFFICES ASSUME EngineInv, phase = "file", Pending = {}, NEW f \in Files, ~Ok(f)
               PROVE  "ERROR" \in recorded[f] /\ f \notin executed
    BY DEF ErrorsRetried
  <2>1. f \notin executed
    BY DEF EngineInv, ExecutedOk
  <2>2. f < file
    BY <2>1, Bounds DEF Pending, EngineInv, TypeOK, Files
  <2>3. recorded[f] # {}
    BY <2>2 DEF EngineInv, EarlierRecorded
  <2>4. recorded[f] \subseteq {"OK", "ERROR"}
    BY DEF EngineInv, TypeOK
  <2> QED
    BY <2>1, <2>3, <2>4 DEF Ok
<1> QED
  BY EngineInvariant, <1>1, PTL

\* Whatever fails and however often scripts are run again, a start undoes what users
\* did to a table in two ways only, both in a script not recorded OK: an update of
\* rows they changed, and a batch that fills a table they emptied.
THEOREM EditsAlwaysSurvive == Spec => EditsSurvive
<1> DEFINE Undo(t) == [kind |-> IF value[t] = "edited" THEN "update" ELSE "rows", table |-> t]
           Kept == phase # "serving" =>
                      \A t \in Tables : value[t] \in {"edited", "cleared"} /\ value'[t] # value[t] =>
                          /\ phase = "batch" /\ ~Ok(file)
                          /\ Script[file][batch] = Undo(t)
<1>1. EngineInv /\ [Next]_vars => [Kept]_vars
  <2> SUFFICES ASSUME EngineInv, Next, phase # "serving", NEW t \in Tables,
                      value[t] \in {"edited", "cleared"}, value'[t] # value[t]
               PROVE  phase = "batch" /\ ~Ok(file) /\ Script[file][batch] = Undo(t)
    BY DEF vars
  <2>1. CASE RunBatch
    <3> DEFINE b == Script[file][batch]
               v == value[b.table]
    <3>1. phase = "batch" /\ ~Ok(file)
      BY <2>1 DEF RunBatch, EngineInv, NotYetOk
    <3>2. file \in Files /\ batch \in 1..Len(Script[file])
      BY <3>1, MigrationAssumption DEF EngineInv, TypeOK, AtScript, Files
    <3>3. b \in Batches
      <4>1. Script[file] \in Seq(Batches)
        BY <3>2, MigrationAssumption
      <4> QED
        BY <3>2, <4>1
    <3>4. \/ value' = [value EXCEPT ![b.table] = After(b, v)]
          \/ value' = value
          \/ value' = [value EXCEPT ![b.table] = Halfway(b, v)]
      BY <2>1 DEF RunBatch
    <3>5. value \in [Tables -> Values]
      BY DEF EngineInv, TypeOK
    <3>6. b.table = t /\ (After(b, v) # v \/ Halfway(b, v) # v)
      <4> HIDE DEF b
      <4> QED
        BY <3>4, <3>5
    <3>7. b.kind = IF value[t] = "edited" THEN "update" ELSE "rows"
      <4>1. b.kind \in {"table", "filled", "rows", "update"} /\ v \in {"edited", "cleared"}
        BY <3>3, <3>6 DEF Batches
      <4> HIDE DEF b
      <4> QED
        BY <3>6, <4>1 DEF After, Halfway
    <3>8. b = Undo(t)
      <4> HIDE DEF b
      <4> QED
        BY <3>3, <3>6, <3>7 DEF Batches
    <3> QED
      BY <3>1, <3>8
  <2>2. CASE ~RunBatch
    <3>1. UNCHANGED value
      BY <2>2 DEF Next, BootStep, Start, Ensure, ReadExecuted, Begin, Record, Throws, Serve,
                  Edit, Crash
    <3> QED
      BY <3>1
  <2> QED
    BY <2>1, <2>2
<1> QED
  BY EngineInvariant, <1>1, PTL DEF Spec, EditsSurvive
=============================================================================
