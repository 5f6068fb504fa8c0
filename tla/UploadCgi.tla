------------------------------ MODULE UploadCgi ------------------------------
(***************************************************************************)
(* bin_cgi/upload, built from src_cgi/upload_cgi.c: one process, one       *)
(* request at a time.  It stores the body as a blob, then writes the three *)
(* tables.  It checks neither a token nor whether the md5 is known already.*)
(***************************************************************************)
EXTENDS CloudStore

VARIABLE upload   \* the process: its next statement and its locals

UploadIdle ==
  [pc |-> "idle", user |-> None, file |-> None, id |-> 0, count |-> None,
   code |-> ""]

UploadSteps == {"store blob", "insert file_info", "insert user file",
                "select count", "write count"}

UploadTypeOK ==
  upload \in [pc: UploadSteps \cup {"idle", "reply"},
              user: Users \cup {None}, file: Files \cup {None},
              id: Nat, count: Int \cup {None}, code: {"", "008", "009"}]

UploadReplies(code) ==
  upload' = [upload EXCEPT !.pc = "reply", !.code = code]

(* recv_save_file: the request names a user, a file name and an md5 *)
UploadAccept(u, f) ==
  /\ upload.pc = "idle"
  /\ upload' = [UploadIdle EXCEPT !.pc = "store blob", !.user = u, !.file = f]
  /\ UNCHANGED storeVars

(* Slip: the id in use is that of the upload before. *)
UploadStoreBlobStale ==
  /\ upload.pc = "store blob"
  /\ StoreBlob
  /\ upload' = [upload EXCEPT !.pc = "insert file_info", !.id = uploaded]

UploadStoreBlob ==
  /\ upload.pc = "store blob"
  /\ StoreBlob
  /\ upload' = [upload EXCEPT !.pc = "insert file_info", !.id = uploaded + 1]

UploadInsertFileInfo ==
  /\ upload.pc = "insert file_info"
  /\ InsertFileInfo(upload.file.md5, upload.id)
  /\ upload' = [upload EXCEPT !.pc = "insert user file"]

UploadInsertUserFile ==
  /\ upload.pc = "insert user file"
  /\ InsertUserFile(upload.user, upload.file)
  /\ upload' = [upload EXCEPT !.pc = "select count"]

UploadSelectCount ==
  /\ upload.pc = "select count"
  /\ upload' = [upload EXCEPT !.pc = "write count",
                              !.count = user_file_count[upload.user]]
  /\ UNCHANGED storeVars

UploadWriteCount ==
  /\ upload.pc = "write count"
  /\ IncrementCount(upload.user, upload.count)
  /\ UploadReplies(IF IncrementFails(upload.user, upload.count)
                   THEN "009" ELSE "008")

UploadReply ==
  /\ upload.pc = "reply"
  /\ upload' = UploadIdle
  /\ UNCHANGED storeVars

UploadStep ==
  \/ UploadStoreBlob   \/ UploadInsertFileInfo \/ UploadInsertUserFile
  \/ UploadSelectCount \/ UploadWriteCount     \/ UploadReply

(* The SELECT alone fails: 0 is read, or (no result set) the text of the   *)
(* SELECT is sent once more in the place of the UPDATE.                    *)
UploadMisreads ==
  /\ upload.pc = "select count"
  /\ \/ /\ upload' = [upload EXCEPT !.pc = "write count", !.count = 0]
        /\ Missed(upload.user)
     \/ UploadReplies("008") /\ UNCHANGED misread
  /\ UNCHANGED storeVars

(* A connection cannot be made or is lost, a statement that writes fails,  *)
(* the storage answers with no id: the rest is skipped, 009.               *)
UploadFails ==
  /\ upload.pc \in UploadSteps
  /\ UploadReplies("009")
  /\ UNCHANGED storeVars
=============================================================================
