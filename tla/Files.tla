-------------------------------- MODULE Files --------------------------------
(***************************************************************************)
(* The files and the profile of one user: DocumentsService and the uploads,*)
(* profile and resumes of WorkerAppService.                                *)
(*                                                                         *)
(* Bytes go to a store and a row of documents names them.  Each service    *)
(* reads from the environment whether it has a store: Bunny or S3 for      *)
(* DocumentsService, which writes to the local disk without one, Bunny for *)
(* WorkerAppService, which then keeps the row only.                        *)
(*                                                                         *)
(* The resumes are entries of one JSON column of the user (metadata), so every *)
(* change of one is a read and a save of them all, and the PDF of each is  *)
(* cached in a file named by its id.  Every handler saves the user entity  *)
(* it loaded before it awaited the storage or a look-up.                   *)
(*                                                                         *)
(* A resume is its version, a number given on arrival; name, city, skills  *)
(* and the rest of the profile are one column.                             *)
(***************************************************************************)
EXTENDS Server, Naturals, FiniteSets

CONSTANTS
  Uploads,     \* files to be stored, each under a key of its own
  Resumes,     \* ids of resumes
  FileReq,     \* handlers of these services that can be in flight together
  MaxEdits     \* bound: edits of the profile and the resumes

ASSUME FilesAssumption == MaxEdits \in Nat

VARIABLES
  configured,  \* services that find a store configured; fixed at the start
  stored,      \* keys whose bytes are in the store, or on the local disk
  documents,   \* rows: the keys they name
  account,     \* the columns of the user
  pdf,         \* the version in each cached file, 0 without one
  edits,       \* edits begun
  warned,      \* history: uploads that went on without bytes, with a warning in the log
  wanted,      \* history: the columns, by the edits that were saved, in order
  overwritten, \* history: a save put an old value over somebody else's
  freqs        \* what each handler holds

fileVars ==
  <<configured, stored, documents, account, pdf, edits, warned, wanted, overwritten, freqs>>

Uploaders == {"DocumentsService", "WorkerAppService"}
Versions == 0 .. MaxEdits
NoFile == "no file"

Account == [resumes : [Resumes -> Versions], avatar : Uploads \cup {NoFile}, profile : Versions]
UserColumns == {"resumes", "avatar", "profile"}

\* What an edit asks for: columns and, of the resumes, the entries it names.
Edit == [resumes : UNION {[S -> Versions] : S \in SUBSET Resumes},
         avatar : Uploads \cup {NoFile}, profile : Versions]

FileIdle == [pc |-> "idle"]

FileFrame ==
  [pc : {"idle"}]
    \cup [pc : {"put", "insert"}, via : Uploaders, key : Uploads]
    \cup [pc : {"remove"}, key : Uploads]
    \cup [pc : {"putPhoto", "insertPhoto"}, via : {"WorkerAppService"}, key : Uploads, base : Account]
    \cup [pc : {"user", "userWrite"}, base : Account, edit : Edit, diff : SUBSET UserColumns]

FilesTypeOK ==
  /\ configured \in SUBSET Uploaders
  /\ stored \in SUBSET Uploads
  /\ documents \in SUBSET Uploads
  /\ account \in Account
  /\ pdf \in [Resumes -> Versions]
  /\ edits \in Versions
  /\ warned \in SUBSET (Uploaders \X Uploads)
  /\ wanted \in Account
  /\ overwritten \in BOOLEAN
  /\ freqs \in [FileReq -> FileFrame]

FilesInit ==
  /\ configured \in SUBSET Uploaders
  /\ stored = {} /\ documents = {} /\ warned = {}
  /\ account = [resumes |-> [i \in Resumes |-> 0], avatar |-> NoFile, profile |-> 0]
  /\ pdf = [i \in Resumes |-> 0]
  /\ edits = 0
  /\ wanted = account
  /\ overwritten = FALSE
  /\ freqs = [r \in FileReq |-> FileIdle]

-----------------------------------------------------------------------------
FileGoto(r, frame) == freqs' = [freqs EXCEPT ![r] = frame]

Fresh(k) ==
  /\ k \notin stored /\ \A s \in Uploaders : <<s, k>> \notin warned
  /\ \A r \in FileReq :
       freqs[r].pc \in {"put", "insert", "putPhoto", "insertPhoto"} => freqs[r].key # k

\* DocumentsService.upload and WorkerAppService.uploadDocument.
BeginUpload(r, s, k) ==
  /\ freqs[r].pc = "idle" /\ Fresh(k)
  /\ FileGoto(r, [pc |-> "put", via |-> s, key |-> k])
  /\ UNCHANGED <<configured, stored, documents, account, pdf, edits, warned, wanted, overwritten>>

AfterPut(q) == [q EXCEPT !.pc = IF q.pc = "put" THEN "insert" ELSE "insertPhoto"]

\* The bytes are stored.
PutBytes(r) ==
  /\ stored' = stored \cup {freqs[r].key}
  /\ UNCHANGED warned

\* They are not: a warning is logged and the handler goes on.
PutNothing(r) ==
  /\ warned' = warned \cup {<<freqs[r].via, freqs[r].key>>}
  /\ UNCHANGED stored

\* Wrong on purpose: a PUT that the store refuses is logged, like a write to the
\* disk that fails, and the handler goes on.
PutSwallowed(r) ==
  /\ freqs[r].pc \in {"put", "putPhoto"}
  /\ PutBytes(r) \/ PutNothing(r)
  /\ FileGoto(r, AfterPut(freqs[r]))
  /\ UNCHANGED <<configured, documents, account, pdf, edits, wanted, overwritten>>

\* The bytes first: with a store "if storage fails we throw" (see Abort).  Without
\* one DocumentsService writes to the disk and swallows the error of that, and
\* WorkerAppService puts the bytes nowhere.
Put(r) ==
  /\ freqs[r].pc \in {"put", "putPhoto"}
  /\ LET via == freqs[r].via IN
       \/ /\ via \in configured \cup {"DocumentsService"}
          /\ PutBytes(r)
       \/ /\ via \notin configured
          /\ via = "DocumentsService" => Faults
          /\ PutNothing(r)
  /\ FileGoto(r, AfterPut(freqs[r]))
  /\ UNCHANGED <<configured, documents, account, pdf, edits, wanted, overwritten>>

InsertDocument(r) ==
  /\ freqs[r].pc = "insert"
  /\ documents' = documents \cup {freqs[r].key}
  /\ FileGoto(r, FileIdle)
  /\ UNCHANGED <<configured, stored, account, pdf, edits, warned, wanted, overwritten>>

\* remove: the row, and not the bytes.
BeginRemoveDocument(r, k) ==
  /\ freqs[r].pc = "idle" /\ k \in documents
  /\ FileGoto(r, [pc |-> "remove", key |-> k])
  /\ UNCHANGED <<configured, stored, documents, account, pdf, edits, warned, wanted, overwritten>>

RemoveDocument(r) ==
  /\ freqs[r].pc = "remove"
  /\ documents' = documents \ {freqs[r].key}
  /\ FileGoto(r, FileIdle)
  /\ UNCHANGED <<configured, stored, account, pdf, edits, warned, wanted, overwritten>>

-----------------------------------------------------------------------------
\* An edit of some resumes, perhaps none, and of the profile unless it is 0.
EditOf(resumes, profile) == [resumes |-> resumes, avatar |-> NoFile, profile |-> profile]
NoEdit == EditOf([i \in {} |-> 0], 0)

Apply(columns, edit) ==
  [resumes |-> [i \in Resumes |-> IF i \in DOMAIN edit.resumes THEN edit.resumes[i]
                                                              ELSE columns.resumes[i]],
   avatar |-> IF edit.avatar = NoFile THEN columns.avatar ELSE edit.avatar,
   profile |-> IF edit.profile = 0 THEN columns.profile ELSE edit.profile]

Sets(edit) == {c \in UserColumns : edit[c] # NoEdit[c]}

SaveUser(base, edit) == [pc |-> "user", base |-> base, edit |-> edit, diff |-> {}]

\* uploadProfilePhoto: the user, the bytes, a row whose errors are swallowed,
\* and the user as he was loaded before the upload.
BeginPhoto(r, k) ==
  /\ freqs[r].pc = "idle" /\ Fresh(k)
  /\ FileGoto(r, [pc |-> "putPhoto", via |-> "WorkerAppService", key |-> k, base |-> account])
  /\ UNCHANGED <<configured, stored, documents, account, pdf, edits, warned, wanted, overwritten>>

InsertPhoto(r) ==
  /\ freqs[r].pc = "insertPhoto"
  /\ \/ documents' = documents \cup {freqs[r].key}
     \/ Faults /\ UNCHANGED documents
  /\ FileGoto(r, SaveUser(freqs[r].base, [NoEdit EXCEPT !.avatar = freqs[r].key]))
  /\ UNCHANGED <<configured, stored, account, pdf, edits, warned, wanted, overwritten>>

\* An edit of the user, saved as he is loaded now.
BeginEditUser(r, edit) ==
  /\ freqs[r].pc = "idle"
  /\ edits < MaxEdits /\ edits' = edits + 1
  /\ FileGoto(r, SaveUser(account, edit))
  /\ UNCHANGED <<configured, stored, documents, account, warned, wanted, overwritten>>

\* saveResume: the PDF is cached first, if that works, whatever becomes of the
\* save; fields of the resume may go to the profile too.
BeginSaveResume(r, i) ==
  /\ \E profile \in {0, edits + 1} :
       BeginEditUser(r, EditOf([j \in {i} |-> edits + 1], profile))
  /\ \/ pdf' = [pdf EXCEPT ![i] = edits + 1]
     \/ Faults /\ UNCHANGED pdf

\* deleteResume: the cached PDF stays.
BeginDeleteResume(r, i) ==
  /\ BeginEditUser(r, EditOf([j \in {i} |-> 0], 0))
  /\ UNCHANGED pdf

\* updateWorkerProfile, with or without a list of resumes in the body, which
\* replaces the list: here some of the listed ones.
BeginUpdateProfile(r) ==
  /\ \/ BeginEditUser(r, EditOf([i \in {} |-> 0], edits + 1))
     \/ \E S \in SUBSET Resumes :
          BeginEditUser(r, EditOf([i \in Resumes |-> IF i \in S THEN account.resumes[i] ELSE 0],
                                  edits + 1))
  /\ UNCHANGED pdf

\* getResumePdf compiles the listed resume when no file is there.
ServePdf(i) ==
  /\ account.resumes[i] # 0 /\ pdf[i] = 0
  /\ pdf' = [pdf EXCEPT ![i] = account.resumes[i]]
  /\ UNCHANGED <<configured, stored, documents, account, edits, warned, wanted, overwritten, freqs>>

SaveReadUser(r) ==
  /\ freqs[r].pc = "user"
  /\ LET q == freqs[r]
         diff == {c \in UserColumns : Apply(q.base, q.edit)[c] # account[c]}
     IN IF diff = {}
          THEN wanted' = Apply(wanted, q.edit) /\ FileGoto(r, FileIdle)
          ELSE FileGoto(r, [q EXCEPT !.pc = "userWrite", !.diff = diff]) /\ UNCHANGED wanted
  /\ UNCHANGED <<configured, stored, documents, account, pdf, edits, warned, overwritten>>

\* Wrong on purpose: all columns are written, as an update by id would.
SaveWriteUserWhole(r) ==
  /\ freqs[r].pc = "userWrite"
  /\ LET q == freqs[r]
         new == Apply(q.base, q.edit)
     IN /\ account' = new
        /\ wanted' = Apply(wanted, q.edit)
        /\ overwritten' = (overwritten
                             \/ \E c \in q.diff \cup Sets(q.edit) : q.base[c] # account[c])
  /\ FileGoto(r, FileIdle)
  /\ UNCHANGED <<configured, stored, documents, pdf, edits, warned>>

SaveWriteUser(r) ==
  /\ freqs[r].pc = "userWrite"
  /\ LET q == freqs[r]
         new == Apply(q.base, q.edit)
     IN /\ account' = [c \in UserColumns |-> IF c \in q.diff THEN new[c] ELSE account[c]]
        /\ wanted' = Apply(wanted, q.edit)
        /\ overwritten' = (overwritten
                             \/ \E c \in q.diff \cup Sets(q.edit) : q.base[c] # account[c])
  /\ FileGoto(r, FileIdle)
  /\ UNCHANGED <<configured, stored, documents, pdf, edits, warned>>

\* The storage or the database rejects, or the process dies.
AbortFile(r) ==
  /\ Faults
  /\ freqs[r].pc # "idle"
  /\ FileGoto(r, FileIdle)
  /\ UNCHANGED <<configured, stored, documents, account, pdf, edits, warned, wanted, overwritten>>

FilesNext ==
  \/ \E i \in Resumes : ServePdf(i)
  \/ \E r \in FileReq :
       \/ \E k \in Uploads : BeginPhoto(r, k) \/ BeginRemoveDocument(r, k)
       \/ \E s \in Uploaders, k \in Uploads : BeginUpload(r, s, k)
       \/ Put(r) \/ InsertDocument(r) \/ RemoveDocument(r) \/ InsertPhoto(r)
       \/ \E i \in Resumes : BeginSaveResume(r, i) \/ BeginDeleteResume(r, i)
       \/ BeginUpdateProfile(r)
       \/ SaveReadUser(r) \/ SaveWriteUser(r) \/ AbortFile(r)

FilesSpec == FilesInit /\ [][FilesNext]_fileVars

-----------------------------------------------------------------------------
Named == documents \cup ({account.avatar} \ {NoFile})

\* "no phantom rows": what a document row or the profile names is stored, though
\* uploads fail half-way and documents are removed while others are uploaded.
\* The one exception: it came through a service without a store, and the log says
\* so.  A service with one leaves no row without its bytes, whatever the other does.
NamedIsStored ==
  \A k \in Named \ stored : \E s \in Uploaders \ configured : <<s, k>> \in warned

\* An edit of a resume, the photo or the profile is lost only to another that
\* was loaded before it was saved and saved after: as long as no save meets a
\* column that changed since it was loaded, the user is what the edits made of
\* him, in the order of their saves, whichever of them failed.
EditsAreKept == ~overwritten => account = wanted
=============================================================================
