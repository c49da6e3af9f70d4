------------------------------- MODULE Exports -------------------------------
(***************************************************************************)
(* Report exports: ReportsService.createExport and the routes that look an *)
(* export up.  An export is a row of report_exports, written when it begins*)
(* and again when it ends; an object whose save fails goes into a Map of   *)
(* the process instead, by reference, and stays there.  The lookup prefers *)
(* the row.                                                                *)
(*                                                                         *)
(* Only its own handler writes an export, so a save is one step here.  The *)
(* figures are those of CostReports; their format is left out, and every   *)
(* export is of one user (the lookup refuses the others).                  *)
(***************************************************************************)
EXTENDS Server

CONSTANT ExportIds   \* exports, each with the handler that creates it

VARIABLES
  exportRow, \* report_exports: the status of each row, or "none"
  kept,   \* inMemoryExports: the exports whose object is in the Map
  object, \* the status of each object of the process
  epc,    \* where the handler of each export is
  told    \* history: the status answered, since the process started

exportVars == <<exportRow, kept, object, epc, told>>

ExportStatus == {"none", "processing", "completed", "failed"}

ExportsTypeOK ==
  /\ exportRow \in [ExportIds -> ExportStatus]
  /\ kept \in SUBSET ExportIds
  /\ object \in [ExportIds -> ExportStatus]
  /\ epc \in [ExportIds -> {"idle", "first", "generate", "second", "gone"}]
  /\ told \in [ExportIds -> ExportStatus]

ExportsInit ==
  /\ exportRow = [i \in ExportIds |-> "none"]
  /\ kept = {}
  /\ object = [i \in ExportIds |-> "none"]
  /\ epc = [i \in ExportIds |-> "idle"]
  /\ told = [i \in ExportIds |-> "none"]

-----------------------------------------------------------------------------
ExportGoto(i, pc) == epc' = [epc EXCEPT ![i] = pc]

BeginExport(i) ==
  /\ epc[i] = "idle"
  /\ object' = [object EXCEPT ![i] = "processing"]
  /\ ExportGoto(i, "first")
  /\ UNCHANGED <<exportRow, kept, told>>

\* The row takes the status of the object; a save that fails may have done so.
Store(i) == exportRow' = [exportRow EXCEPT ![i] = object[i]]

\* Wrong on purpose: the error of a save is swallowed, and the object with it.
SaveForgetting(i) ==
  \/ Store(i) /\ UNCHANGED kept
  \/ Faults /\ UNCHANGED <<exportRow, kept>>

Save(i) ==
  \/ Store(i) /\ UNCHANGED kept
  \/ Faults /\ kept' = kept \cup {i} /\ (Store(i) \/ UNCHANGED exportRow)

FirstSave(i) ==
  /\ epc[i] = "first"
  /\ Save(i)
  /\ ExportGoto(i, "generate")
  /\ UNCHANGED <<object, told>>

\* generateReportData: the report asks for access to its project or site, which
\* the user may not have, and an unknown type is an error.
Generate(i) ==
  /\ epc[i] = "generate"
  /\ \E status \in {"completed", "failed"} : object' = [object EXCEPT ![i] = status]
  /\ ExportGoto(i, "second")
  /\ UNCHANGED <<exportRow, kept, told>>

SecondSave(i) ==
  /\ epc[i] = "second"
  /\ Save(i)
  /\ told' = [told EXCEPT ![i] = object[i]]
  /\ ExportGoto(i, "gone")
  /\ UNCHANGED object

\* The process dies: handlers, objects and the Map with it.
Restart ==
  /\ Faults
  /\ kept' = {}
  /\ object' = [i \in ExportIds |-> "none"]
  /\ epc' = [i \in ExportIds |-> IF epc[i] = "idle" THEN "idle" ELSE "gone"]
  /\ told' = [i \in ExportIds |-> "none"]
  /\ UNCHANGED exportRow

ExportsNext ==
  \/ \E i \in ExportIds : BeginExport(i) \/ FirstSave(i) \/ Generate(i) \/ SecondSave(i)
  \/ Restart

ExportsSpec == ExportsInit /\ [][ExportsNext]_exportVars

-----------------------------------------------------------------------------
InMemory(i) == IF i \in kept THEN object[i] ELSE "none"

\* getExportStatus, with the database answering or not; "none" is Not Found.
Lookup(i, answers) == IF answers /\ exportRow[i] # "none" THEN exportRow[i] ELSE InMemory(i)

\* listExports: rows only, unless the database does not answer.
Listed(answers) ==
  IF answers THEN {i \in ExportIds : exportRow[i] # "none"} ELSE kept

\* downloadExport computes the report again, for a completed export.
Downloadable(i) == Lookup(i, TRUE) = "completed"

-----------------------------------------------------------------------------
\* As long as the process lives, an answered export is found with the status
\* that was answered.  The one exception: the first save was stored and the
\* second was not, so the row says "processing" for good; the right status is
\* in the Map and found only while the database does not answer.
AnsweredIsFound ==
  \A i \in ExportIds : told[i] # "none" =>
    \/ Lookup(i, TRUE) = told[i]
    \/ exportRow[i] = "processing" /\ Lookup(i, FALSE) = told[i] /\ ~Downloadable(i)
=============================================================================
