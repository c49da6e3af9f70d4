------------------------------ MODULE Services -------------------------------
(***************************************************************************)
(* The services that keep to themselves, side by side: posts, payments,    *)
(* attendance, exports and files.  They have tables of their own and call  *)
(* one another nowhere, so a step of the server is a step of one of them.  *)
(***************************************************************************)
EXTENDS Posts, Payments, Attendance, Exports, Files

servicesVars == <<postVars, paymentVars, attendanceVars, exportVars, fileVars>>

ServicesInit == PostsInit /\ PaymentsInit /\ AttendanceInit /\ ExportsInit /\ FilesInit

PostsRun == PostsNext /\ UNCHANGED <<paymentVars, attendanceVars, exportVars, fileVars>>
PaymentsRun == PaymentsNext /\ UNCHANGED <<postVars, attendanceVars, exportVars, fileVars>>
AttendanceRun == AttendanceNext /\ UNCHANGED <<postVars, paymentVars, exportVars, fileVars>>
ExportsRun == ExportsNext /\ UNCHANGED <<postVars, paymentVars, attendanceVars, fileVars>>
FilesRun == FilesNext /\ UNCHANGED <<postVars, paymentVars, attendanceVars, exportVars>>

ServicesNext == PostsRun \/ PaymentsRun \/ AttendanceRun \/ ExportsRun \/ FilesRun

ServicesSpec == ServicesInit /\ [][ServicesNext]_servicesVars

\* Rows, clocks, objects and the locals of every handler are of their types in
\* all five services.
ServicesTypeOK ==
  PostsTypeOK /\ PaymentsTypeOK /\ AttendanceTypeOK /\ ExportsTypeOK /\ FilesTypeOK
=============================================================================
