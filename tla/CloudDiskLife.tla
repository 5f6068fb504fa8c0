---------------------------- MODULE CloudDiskLife ----------------------------
(***************************************************************************)
(* CloudDisk implements BlobLife, for all values of its constants: the     *)
(* initial states map to the initial state of a storage without blobs, and *)
(* every step of the programs to a step in the life of the blobs or to     *)
(* none.  The invariant behind it is BlobsInv, without which a deletion    *)
(* could remove a blob that is still listed.                               *)
(***************************************************************************)
EXTENDS CloudDiskProofs

-----------------------------------------------------------------------------
(* The blobs *)

(* Among these rows of file_info one names this blob. *)
HasId(rows, id) == \E i \in DOMAIN rows : rows[i].file_id = id

(* No blob has the id 0, which stands for an id misread; no two md5s name  *)
(* the same blob; the blob that upload is about to list is named nowhere;  *)
(* the one that del is about to remove is named by no other md5 before it  *)
(* deletes the rows, and by none after it.                                 *)
BlobsInv ==
  /\ StoredWhenListed
  /\ \A id \in storage : id # 0 /\ id <= uploaded
  /\ \A m, n \in Md5s, id \in storage : HasId(file_info[m], id) /\ HasId(file_info[n], id) => m = n
  /\ upload.pc = "insert file_info" =>
       /\ upload.id \in storage
       /\ \A m \in Md5s : ~HasId(file_info[m], upload.id)
  /\ dealfile.pc \in {"del: delete file_info", "del: remove blob"} =>
       /\ dealfile.id <= uploaded
       /\ upload.pc = "insert file_info" => upload.id # dealfile.id
       /\ \A m \in Md5s : HasId(file_info[m], dealfile.id) =>
            dealfile.pc = "del: delete file_info" /\ m = dealfile.file.md5

(* What the statements on file_info do to the ids named there. *)

LEMMA InsertFileInfoNames ==
  ASSUME StoreTypeOK, NEW m \in Md5s, NEW id \in Nat, InsertFileInfo(m, id),
         NEW n \in Md5s, NEW x, HasId(file_info'[n], x)
  PROVE  HasId(file_info[n], x) \/ (n = m /\ x = id)
<1> DEFINE row == [file_id |-> id, count |-> 1]
<1>1. CASE n # m
  BY <1>1 DEF InsertFileInfo, StoreTypeOK, HasId
<1>2. CASE n = m
  <2>1. file_info[m] \in Seq(FileInfoRows) /\ row \in FileInfoRows
    BY DEF StoreTypeOK, FileInfoRows
  <2>2. file_info'[m] = Append(file_info[m], row)
    BY DEF InsertFileInfo, StoreTypeOK
  <2>3. row.file_id = id
    OBVIOUS
  <2> HIDE DEF row
  <2>4. PICK i \in DOMAIN file_info'[m] : file_info'[m][i].file_id = x
    BY <1>2 DEF HasId
  <2>5. /\ Len(file_info[m]) \in Nat
        /\ DOMAIN file_info[m] = 1..Len(file_info[m])
        /\ DOMAIN file_info'[m] = 1..(Len(file_info[m]) + 1)
        /\ \A k \in 1..Len(file_info[m]) : file_info'[m][k] = file_info[m][k]
        /\ file_info'[m][Len(file_info[m]) + 1] = row
    BY <2>1, <2>2, AppendProperties, LenProperties
  <2>6. CASE i \in 1..Len(file_info[m])
    BY <1>2, <2>4, <2>5, <2>6 DEF HasId
  <2>7. CASE i \notin 1..Len(file_info[m])
    <3>1. i = Len(file_info[m]) + 1
      BY <2>5, <2>7
    <3>2. QED
      BY <1>2, <2>3, <2>4, <2>5, <3>1
  <2>8. QED
    BY <2>6, <2>7
<1>3. QED
  BY <1>1, <1>2

LEMMA UpdateFileInfoNames ==
  ASSUME StoreTypeOK, NEW m \in Md5s, NEW c \in Int, UpdateFileInfo(m, c),
         NEW n \in Md5s, NEW x, HasId(file_info'[n], x)
  PROVE  HasId(file_info[n], x)
<1>1. CASE n # m
  BY <1>1 DEF UpdateFileInfo, StoreTypeOK, HasId
<1>2. CASE n = m
  <2>1. file_info'[m] = [i \in DOMAIN file_info[m] |->
                           [file_info[m][i] EXCEPT !.count = c]]
    BY DEF UpdateFileInfo, StoreTypeOK
  <2>2. PICK i \in DOMAIN file_info'[m] : file_info'[m][i].file_id = x
    BY <1>2 DEF HasId
  <2>3. i \in DOMAIN file_info[m]
          /\ file_info'[m][i] = [file_info[m][i] EXCEPT !.count = c]
    BY <2>1, <2>2
  <2>4. file_info[m][i] \in FileInfoRows
    <3>1. file_info[m] \in Seq(FileInfoRows)
      BY DEF StoreTypeOK
    <3>2. QED
      BY <2>3, <3>1, LenProperties, ElementOfSeq
  <2>5. file_info'[m][i].file_id = file_info[m][i].file_id
    BY <2>3, <2>4 DEF FileInfoRows
  <2>6. QED
    BY <1>2, <2>2, <2>3, <2>5 DEF HasId
<1>3. QED
  BY <1>1, <1>2

LEMMA DeleteFileInfoNames ==
  ASSUME StoreTypeOK, NEW m \in Md5s, DeleteFileInfo(m),
         NEW n \in Md5s, NEW x, HasId(file_info'[n], x)
  PROVE  HasId(file_info[n], x) /\ n # m
<1>1. CASE n # m
  BY <1>1 DEF DeleteFileInfo, StoreTypeOK, HasId
<1>2. CASE n = m
  <2>1. file_info'[m] = <<>>
    BY DEF DeleteFileInfo, StoreTypeOK
  <2>2. DOMAIN <<>> = {}
    OBVIOUS
  <2>3. QED
    BY <1>2, <2>1, <2>2 DEF HasId
<1>3. QED
  BY <1>1, <1>2

LEMMA NamedIsStored ==
  ASSUME StoredWhenListed, NEW m \in Md5s, NEW id, HasId(file_info[m], id)
  PROVE  id \in storage
BY DEF StoredWhenListed, HasId

(* A step that names no new blob, leaves the storage alone and puts upload *)
(* and dealfile at no statement on a blob keeps the invariant.             *)
LEMMA NothingNamed ==
  ASSUME BlobsInv, UNCHANGED <<storage, uploaded>>,
         \A m \in Md5s : \A id :
           HasId(file_info'[m], id) => HasId(file_info[m], id),
         UNCHANGED upload \/ upload'.pc # "insert file_info",
         \/ UNCHANGED dealfile
         \/ dealfile'.pc \notin {"del: delete file_info", "del: remove blob"}
  PROVE  BlobsInv'
<1>1. StoredWhenListed'
  <2> SUFFICES ASSUME NEW m \in Md5s, NEW i \in DOMAIN file_info'[m]
               PROVE  file_info'[m][i].file_id \in storage'
    BY DEF StoredWhenListed
  <2>1. HasId(file_info'[m], file_info'[m][i].file_id)
    BY DEF HasId
  <2>2. HasId(file_info[m], file_info'[m][i].file_id)
    BY <2>1
  <2>3. QED
    BY <2>2, NamedIsStored DEF BlobsInv
<1>2. QED
  BY <1>1 DEF BlobsInv

LEMMA OlderIds == \A n, id \in Nat : id <= n => id <= n + 1 /\ id # n + 1
OBVIOUS

LEMMA MisreadsAtUpload ==
  ASSUME UploadTypeOK, Misreads
  PROVE  UNCHANGED upload \/ upload'.pc # "insert file_info"
BY DEF Misreads, UploadMisreads, UploadReplies, UploadTypeOK

LEMMA UploadKeepsBlobs ==
  ASSUME Typed, BlobsInv, UploadStep, UNCHANGED dealfile
  PROVE  BlobsInv'
<1> USE DEF Typed, TypeOK
<1>1. CASE UploadStoreBlob
  <2>1. /\ file_info' = file_info
        /\ storage' = storage \cup {uploaded + 1}
        /\ uploaded' = uploaded + 1
        /\ upload'.pc = "insert file_info" /\ upload'.id = uploaded + 1
    BY <1>1 DEF UploadStoreBlob, StoreBlob, UploadTypeOK, mysqlVars
  <2>2. uploaded \in Nat /\ storage \in SUBSET Nat
    BY DEF StoreTypeOK
  <2>3. \A id \in storage : id <= uploaded + 1 /\ id # uploaded + 1
    <3>1. \A id \in storage : id \in Nat /\ id <= uploaded
      BY <2>2 DEF BlobsInv
    <3>2. QED
      BY <2>2, <3>1, OlderIds, Zenon
  <2>4. \A m \in Md5s : ~HasId(file_info[m], uploaded + 1)
    BY <2>3, NamedIsStored DEF BlobsInv
  <2>5. \A id \in storage' : id # 0 /\ id <= uploaded'
    <3>1. uploaded + 1 <= uploaded + 1 /\ uploaded + 1 # 0
      BY <2>2
    <3>2. \A id \in storage : id # 0
      BY DEF BlobsInv
    <3>3. QED
      BY <2>1, <2>3, <3>1, <3>2
  <2>6. \A m, n \in Md5s, id \in storage' :
          HasId(file_info[m], id) /\ HasId(file_info[n], id) => m = n
    BY <2>1, <2>4 DEF BlobsInv
  <2>7. dealfile.pc \in {"del: delete file_info", "del: remove blob"} =>
          dealfile.id <= uploaded /\ dealfile.id \in Nat
    BY DEF BlobsInv, DealTypeOK
  <2>8. dealfile.pc \in {"del: delete file_info", "del: remove blob"} =>
          dealfile.id <= uploaded' /\ upload'.id # dealfile.id
    <3>1. dealfile.id \in Nat /\ dealfile.id <= uploaded =>
            dealfile.id <= uploaded + 1 /\ dealfile.id # uploaded + 1
      BY <2>2, OlderIds, Zenon
    <3>2. QED
      BY <2>1, <2>7, <3>1
  <2>9. StoredWhenListed'
    BY <2>1 DEF BlobsInv, StoredWhenListed
  <2>10. QED
    BY <2>1, <2>4, <2>5, <2>6, <2>8, <2>9 DEF BlobsInv
<1>2. CASE UploadInsertFileInfo
  <2> DEFINE m == upload.file.md5
  <2>1. m \in Md5s /\ upload.id \in Nat
    BY <1>2 DEF UploadInsertFileInfo, UploadLocals, UploadTypeOK, Files
  <2>2. \A n \in Md5s : \A id : HasId(file_info'[n], id) =>
          HasId(file_info[n], id) \/ (n = m /\ id = upload.id)
    BY <1>2, <2>1, InsertFileInfoNames DEF UploadInsertFileInfo
  <2>3. /\ UNCHANGED <<storage, uploaded>>
        /\ upload'.pc = "insert user file"
    BY <1>2 DEF UploadInsertFileInfo, InsertFileInfo, UploadTypeOK, blobVars
  <2>4. /\ upload.id \in storage
        /\ \A n \in Md5s : ~HasId(file_info[n], upload.id)
        /\ dealfile.pc \in {"del: delete file_info", "del: remove blob"} =>
             upload.id # dealfile.id
    BY <1>2 DEF UploadInsertFileInfo, BlobsInv
  <2> HIDE DEF m
  <2>5. StoredWhenListed'
    <3> SUFFICES ASSUME NEW n \in Md5s, NEW i \in DOMAIN file_info'[n]
                 PROVE  file_info'[n][i].file_id \in storage'
      BY DEF StoredWhenListed
    <3>1. HasId(file_info'[n], file_info'[n][i].file_id)
      BY DEF HasId
    <3>2. \/ HasId(file_info[n], file_info'[n][i].file_id)
          \/ file_info'[n][i].file_id = upload.id
      BY <2>2, <3>1
    <3>3. QED
      BY <2>3, <2>4, <3>2, NamedIsStored DEF BlobsInv
  <2>6. \A n, k \in Md5s, id \in storage' :
          HasId(file_info'[n], id) /\ HasId(file_info'[k], id) => n = k
    <3> SUFFICES ASSUME NEW n \in Md5s, NEW k \in Md5s, NEW id \in storage',
                        HasId(file_info'[n], id), HasId(file_info'[k], id)
                 PROVE  n = k
      OBVIOUS
    <3>1. HasId(file_info[n], id) \/ (n = m /\ id = upload.id)
      BY <2>2
    <3>2. HasId(file_info[k], id) \/ (k = m /\ id = upload.id)
      BY <2>2
    <3>3. id \in storage
      BY <2>3
    <3>4. HasId(file_info[n], id) /\ HasId(file_info[k], id) => n = k
      BY <3>3 DEF BlobsInv
    <3>5. QED
      BY <2>4, <3>1, <3>2, <3>4
  <2>7. QED
    BY <2>2, <2>3, <2>4, <2>5, <2>6 DEF BlobsInv
<1>3. CASE UploadInsertUserFile \/ UploadSelectCount \/ UploadWriteCount
  <2>1. UNCHANGED <<file_info, storage, uploaded>>
    BY <1>3 DEF UploadInsertUserFile, UploadSelectCount, UploadWriteCount,
      InsertUserFile, SetUserRows, IncrementCount, UpdateCount, SetCount,
      storeVars, mysqlVars, blobVars
  <2>2. upload'.pc # "insert file_info"
    BY <1>3 DEF UploadInsertUserFile, UploadSelectCount, UploadWriteCount,
      UploadReplies, UploadTypeOK
  <2>3. QED
    BY <2>1, <2>2, NothingNamed
<1>4. CASE UploadReply
  BY <1>4, IdlePcs, NothingNamed
     DEF UploadReply, storeVars, mysqlVars, blobVars
<1>5. QED
  BY <1>1, <1>2, <1>3, <1>4 DEF UploadStep

LEMMA InstantKeepsBlobs ==
  ASSUME Typed, BlobsInv, InstantStep, UNCHANGED <<upload, dealfile>>
  PROVE  BlobsInv'
<1> USE DEF Typed, TypeOK
<1>1. CASE InstantWriteRefs
  <2>1. instant.file.md5 \in Md5s /\ instant.count \in Int
    BY <1>1 DEF InstantWriteRefs, InstantLocals, Files
  <2>2. instant.count + 1 \in Int
    BY <2>1, IntSteps, Zenon
  <2>3. \A n \in Md5s : \A id :
          HasId(file_info'[n], id) => HasId(file_info[n], id)
    BY <1>1, <2>1, <2>2, UpdateFileInfoNames DEF InstantWriteRefs
  <2>4. UNCHANGED <<storage, uploaded>>
    BY <1>1 DEF InstantWriteRefs, UpdateFileInfo, blobVars
  <2>5. QED
    BY <2>3, <2>4, NothingNamed
<1>2. CASE ~InstantWriteRefs
  <2>1. UNCHANGED <<file_info, storage, uploaded>>
    BY <1>2 DEF InstantStep, InstantUnknown, InstantSelectRefs,
      InstantSelectOwn, InstantInsertUserFile, InstantSelectCount,
      InstantWriteCount, InstantReply, InsertUserFile, SetUserRows,
      IncrementCount, UpdateCount, SetCount, storeVars, mysqlVars, blobVars
  <2>2. QED
    BY <2>1, NothingNamed
<1>3. QED
  BY <1>1, <1>2

LEMMA DealBlobFrame ==
  ASSUME DealTypeOK, DealStep
  PROVE  \/ DelWriteRefs \/ DelSelectFileId
         \/ DelDeleteFileInfo \/ DelRemoveBlob
         \/ /\ UNCHANGED <<file_info, storage, uploaded>>
            /\ dealfile'.pc \notin {"del: delete file_info",
                                    "del: remove blob"}
<1> USE DEF DealTypeOK, DealGoes, DealReplies, storeVars, mysqlVars, blobVars
<1>1. CASE ShareStep
  BY <1>1 DEF ShareStep, ShareZsetExit, ShareSelect, ShareZaddAgain,
    ShareMark, ShareInsert, ShareSelectTotal, ShareWriteTotal, ShareZadd,
    ShareHset, UpdateShared, SetUserRows, InsertShare, SetShares, Zadd,
    SetZset, IncrementCount, UpdateCount, SetCount, Hset, SetHash
<1>2. CASE DelZsetExit \/ DelNoStatus \/ DelSelectStatus \/ DelDeleteShare
             \/ DelSelectTotal \/ DelWriteTotal \/ DelZrem \/ DelHdel
  BY <1>2 DEF DelZsetExit, DelNoStatus, DelSelectStatus, DelDeleteShare,
    DelSelectTotal, DelWriteTotal, DelZrem, DelHdel, DeleteShare, SetShares,
    UpdateCount, SetCount, Zrem, SetZset, Hdel, SetHash
<1>3. CASE DelSelectCount \/ DelWriteCount \/ DelDeleteUserFile \/ DelNoRefs
             \/ DelSelectRefs \/ DelNoFileId
  BY <1>3 DEF DelNoFileId, DelSelectCount, DelWriteCount, DelDeleteUserFile, DelNoRefs,
    DelSelectRefs, UpdateCount, DeleteCount, SetCount, DeleteUserFile,
    SetUserRows
<1>4. CASE PvStep
  BY <1>4 DEF PvStep, PvMissing, PvSelect, PvWrite, UpdateUserPv, SetUserRows
<1>5. CASE DealReply
  BY <1>5 DEF DealReply, DealIdle
<1>6. CASE DelHdelDies
  BY <1>6, IdlePcs DEF DelHdelDies
<1>7. CASE DelRemoveNothing
  BY <1>7 DEF DelRemoveNothing
<1>8. QED
  BY <1>1, <1>2, <1>3, <1>4, <1>5, <1>6, <1>7 DEF DealStep, DelStep

LEMMA DealKeepsBlobs ==
  ASSUME Typed, BlobsInv, DealStep, UNCHANGED upload
  PROVE  BlobsInv'
<1> USE DEF Typed, TypeOK
<1> DEFINE m == dealfile.file.md5
<1>0. dealfile.pc # "idle" => m \in Md5s
  BY DEF DealLocals, Files
<1>1. CASE DelWriteRefs
  <2>1. m \in Md5s /\ dealfile.count \in Int
    BY <1>0, <1>1 DEF DelWriteRefs, DealLocals
  <2>2. dealfile.count - 1 \in Int
    BY <2>1, IntSteps, Zenon
  <2>3. \A n \in Md5s : \A id :
          HasId(file_info'[n], id) => HasId(file_info[n], id)
    BY <1>1, <2>1, <2>2, UpdateFileInfoNames DEF DelWriteRefs
  <2>4. UNCHANGED <<storage, uploaded>>
    BY <1>1 DEF DelWriteRefs, UpdateFileInfo, blobVars
  <2>5. dealfile'.pc \notin {"del: delete file_info", "del: remove blob"}
    BY <1>1 DEF DelWriteRefs, DealGoes, DealReplies, DealTypeOK
  <2>6. QED
    BY <2>3, <2>4, <2>5, NothingNamed
<1>2. CASE DelSelectFileId
  <2>1. UNCHANGED <<file_info, storage, uploaded>>
    BY <1>2 DEF DelSelectFileId, storeVars, mysqlVars, blobVars
  <2>2. PICK i \in DOMAIN file_info[m] :
          dealfile' = [dealfile EXCEPT !.pc = "del: delete file_info",
                                       !.id = file_info[m][i].file_id]
    BY <1>2 DEF DelSelectFileId
  <2> DEFINE id == file_info[m][i].file_id
  <2>3. /\ dealfile'.pc = "del: delete file_info"
        /\ dealfile'.id = id /\ dealfile'.file.md5 = m
    BY <2>2 DEF DealTypeOK
  <2>4. m \in Md5s /\ HasId(file_info[m], id)
    BY <1>0, <1>2, <2>2 DEF DelSelectFileId, HasId
  <2> HIDE DEF id, m
  <2>5. id \in storage
    BY <2>4, NamedIsStored DEF BlobsInv
  <2>6. upload.pc = "insert file_info" => upload.id # id
    BY <2>4 DEF BlobsInv
  <2>7. \A n \in Md5s : HasId(file_info[n], id) => n = m
    BY <2>4, <2>5 DEF BlobsInv
  <2>8. QED
    BY <2>1, <2>3, <2>5, <2>6, <2>7 DEF BlobsInv, StoredWhenListed
<1>3. CASE DelDeleteFileInfo
  <2>1. m \in Md5s
    BY <1>0, <1>3 DEF DelDeleteFileInfo
  <2>2. \A n \in Md5s : \A id :
          HasId(file_info'[n], id) => HasId(file_info[n], id) /\ n # m
    BY <1>3, <2>1, DeleteFileInfoNames DEF DelDeleteFileInfo
  <2>3. /\ UNCHANGED <<storage, uploaded>>
        /\ dealfile.pc = "del: delete file_info"
        /\ dealfile'.pc = "del: remove blob" /\ dealfile'.id = dealfile.id
    BY <1>3 DEF DelDeleteFileInfo, DeleteFileInfo, DealGoes, DealTypeOK,
      blobVars
  <2>4. StoredWhenListed'
    <3> SUFFICES ASSUME NEW n \in Md5s, NEW i \in DOMAIN file_info'[n]
                 PROVE  file_info'[n][i].file_id \in storage'
      BY DEF StoredWhenListed
    <3>1. HasId(file_info'[n], file_info'[n][i].file_id)
      BY DEF HasId
    <3>2. QED
      BY <2>2, <2>3, <3>1, NamedIsStored DEF BlobsInv
  <2>5. \A n \in Md5s : ~HasId(file_info'[n], dealfile.id)
    BY <2>2, <2>3 DEF BlobsInv
  <2>6. QED
    BY <2>2, <2>3, <2>4, <2>5 DEF BlobsInv
<1>4. CASE DelRemoveBlob
  <2>1. /\ UNCHANGED <<file_info, uploaded>>
        /\ storage' = storage \ {dealfile.id}
        /\ dealfile.pc = "del: remove blob" /\ dealfile'.pc = "reply"
    BY <1>4 DEF DelRemoveBlob, RemoveBlob, DealReplies, DealTypeOK, mysqlVars
  <2>2. \A n \in Md5s : ~HasId(file_info[n], dealfile.id)
    BY <2>1 DEF BlobsInv
  <2>3. StoredWhenListed'
    <3> SUFFICES ASSUME NEW n \in Md5s, NEW i \in DOMAIN file_info[n]
                 PROVE  file_info[n][i].file_id \in storage \ {dealfile.id}
      BY <2>1 DEF StoredWhenListed
    <3>1. HasId(file_info[n], file_info[n][i].file_id)
      BY DEF HasId
    <3>2. QED
      BY <2>2, <3>1, NamedIsStored DEF BlobsInv
  <2>4. QED
    BY <2>1, <2>3 DEF BlobsInv
<1>5. CASE /\ UNCHANGED <<file_info, storage, uploaded>>
           /\ dealfile'.pc \notin {"del: delete file_info",
                                   "del: remove blob"}
  BY <1>5, NothingNamed
<1>6. QED
  BY <1>1, <1>2, <1>3, <1>4, <1>5, DealBlobFrame

LEMMA DealShareKeepsBlobs ==
  ASSUME BlobsInv, DealShareStep, UNCHANGED <<upload, dealfile>>
  PROVE  BlobsInv'
<1>1. UNCHANGED <<file_info, storage, uploaded>>
  BY DEF DealShareStep, SharePvStep, CancelStep, SaveStep,
    SharePvMissing, SharePvSelect, SharePvWrite, SharePvZsetExit,
    SharePvZincrby, SharePvZadd, SharePvHset, CancelMark, CancelSelectTotal,
    CancelDeleteTotal, CancelCrashes, CancelDeleteShare, CancelZrem,
    CancelHdel, CancelHdelDies, SaveSelectOwn, SaveUnknown, SaveSelectRefs, SaveWriteRefs,
    DealShareReply, UpdateSharePv, DeleteShare, SetShares, UpdateShared,
    SetUserRows, DeleteCount, SetCount, Zincrby, Zadd, Zrem, SetZset, Hset,
    Hdel, SetHash, storeVars, mysqlVars, blobVars
<1>2. QED
  BY <1>1, NothingNamed

(* A SELECT that fails alone makes del go for the blob 0, which is none. *)
LEMMA MisreadsKeepBlobs ==
  ASSUME Typed, BlobsInv, Misreads
  PROVE  BlobsInv'
<1> USE DEF Typed, TypeOK
<1>1. UNCHANGED <<file_info, storage, uploaded>>
  BY MisreadsRecorded DEF storeVars, mysqlVars, blobVars
<1>2. UNCHANGED upload \/ upload'.pc # "insert file_info"
  BY MisreadsAtUpload
<1>3. CASE UNCHANGED dealfile
  BY <1>1, <1>2, <1>3, NothingNamed
<1>4. CASE DealMisreads /\ UNCHANGED upload
  <2>1. CASE ShareMisreads \/ PvMisreads
    <3>1. dealfile'.pc \notin {"del: delete file_info", "del: remove blob"}
      BY <2>1 DEF ShareMisreads, PvMisreads, DealGoes, DealTypeOK
    <3>2. QED
      BY <1>1, <1>2, <3>1, NothingNamed
  <2>2. CASE DelMisreads /\ dealfile.pc # "del: select file_id"
    <3>1. dealfile'.pc \notin {"del: delete file_info", "del: remove blob"}
      BY <2>2 DEF DelMisreads, DealGoes, DealTypeOK
    <3>2. QED
      BY <1>1, <1>2, <3>1, NothingNamed
  <2>3. CASE DelMisreads /\ dealfile.pc = "del: select file_id"
    <3>1. dealfile'.pc = "del: delete file_info" /\ dealfile'.id = 0
      BY <2>3 DEF DelMisreads, DealTypeOK
    <3>2. \A n \in Md5s : ~HasId(file_info[n], 0)
      BY NamedIsStored DEF BlobsInv
    <3>3. upload.pc = "insert file_info" => upload.id # 0
      BY DEF BlobsInv
    <3>4. 0 <= uploaded
      BY DEF StoreTypeOK
    <3>5. QED
      BY <1>1, <1>4, <3>1, <3>2, <3>3, <3>4 DEF BlobsInv, StoredWhenListed
  <2>4. QED
    BY <1>4, <2>1, <2>2, <2>3 DEF DealMisreads
<1>5. QED
  BY <1>3, <1>4 DEF Misreads

LEMMA BlobsInductive ==
  ASSUME Typed, BlobsInv, [Next]_vars
  PROVE  BlobsInv'
<1>1. CASE ListingStep /\ UNCHANGED <<upload, dealfile>>
  BY <1>1, ListingKeepsTables, NothingNamed DEF mysqlVars, blobVars
<1>2. CASE UNCHANGED storeVars /\ AtEdge
  BY <1>2, NothingNamed DEF AtEdge, storeVars, mysqlVars, blobVars
<1>3. QED
  BY <1>1, <1>2, SystemMoves, UploadKeepsBlobs, InstantKeepsBlobs,
     DealKeepsBlobs, DealShareKeepsBlobs, MisreadsKeepBlobs

LEMMA BlobsAtFirst == Init => BlobsInv
<1> SUFFICES ASSUME Init PROVE BlobsInv
  OBVIOUS
<1>1. storage = {} /\ \A m \in Md5s : file_info[m] = <<>>
  BY DEF Init, StoreInit
<1>2. DOMAIN <<>> = {}
  OBVIOUS
<1>3. upload.pc = "idle" /\ dealfile.pc = "idle"
  BY IdlePcs DEF Init
<1>4. QED
  BY <1>1, <1>2, <1>3 DEF BlobsInv, StoredWhenListed

LEMMA BlobsAlways == Spec => []BlobsInv
<1>1. Init => BlobsInv
  BY BlobsAtFirst
<1>2. Typed /\ BlobsInv /\ [Next]_vars => BlobsInv'
  BY BlobsInductive
<1>3. QED
  BY <1>1, <1>2, AlwaysTyped, PTL DEF Spec

(* However uploads, instant uploads and deletions of the same contents      *)
(* interleave, and wherever a program fails or is killed, no row of         *)
(* file_info ever names a blob that FastDFS does not hold.                  *)
THEOREM ListedStaysStored == Spec => []StoredWhenListed
<1>1. BlobsInv => StoredWhenListed
  BY DEF BlobsInv
<1>2. QED
  BY <1>1, BlobsAlways, PTL

-----------------------------------------------------------------------------
(* The life of a blob *)

LifeNow == [id \in 1..uploaded |-> LifeOf(id)]

Named(id) == \E m \in Md5s : HasId(file_info[m], id)

LEMMA ListedAreNamed == \A id : id \in Listed <=> Named(id)
BY DEF Listed, Named, HasId

LEMMA FateOf ==
  ASSUME NEW id
  PROVE  /\ id \notin storage => LifeOf(id) = "removed"
         /\ id \in storage /\ Named(id) => LifeOf(id) = "listed"
         /\ id \in storage /\ ~Named(id) =>
              LifeOf(id) = IF upload.pc = "insert file_info" /\ upload.id = id
                           THEN "stored" ELSE "dropped"
BY ListedAreNamed DEF LifeOf

LEMMA FateNext ==
  ASSUME NEW id
  PROVE  /\ id \notin storage' => LifeOf(id)' = "removed"
         /\ id \in storage' /\ Named(id)' => LifeOf(id)' = "listed"
         /\ id \in storage' /\ ~Named(id)' =>
              LifeOf(id)' = IF upload'.pc = "insert file_info"
                                 /\ upload'.id = id
                            THEN "stored" ELSE "dropped"
<1>1. \A x : (x \in Listed)' <=> Named(x)'
  BY ListedAreNamed DEF Listed, Named, HasId
<1>2. QED
  BY <1>1 DEF LifeOf

(* What does not concern a blob is none in its life. *)
LEMMA FateSame ==
  ASSUME NEW id, (id \in storage)' <=> id \in storage, Named(id)' <=> Named(id),
         (upload.pc = "insert file_info" /\ upload.id = id)'
           <=> upload.pc = "insert file_info" /\ upload.id = id
  PROVE  LifeOf(id)' = LifeOf(id)
<1>1. CASE id \notin storage
  BY <1>1, FateOf, FateNext
<1>2. CASE id \in storage /\ Named(id)
  <2>1. LifeOf(id) = "listed"
    BY <1>2, FateOf
  <2>2. LifeOf(id)' = "listed"
    BY <1>2, FateNext
  <2>3. QED
    BY <2>1, <2>2
<1>3. CASE id \in storage /\ ~Named(id)
  BY <1>3, FateOf, FateNext
<1>4. QED
  BY <1>1, <1>2, <1>3

LEMMA FatesBecome ==
  ASSUME NEW ids, NEW fate, uploaded' = uploaded,
         \A id \in 1..uploaded :
           LifeOf(id)' = IF id \in ids THEN fate ELSE LifeOf(id)
  PROVE  Life!Become(ids, fate)
BY DEF Life!Become

(* A step that names the same blobs, and moves upload neither to nor from  *)
(* the statement that lists one, is none in their lives.                   *)
LEMMA NothingLived ==
  ASSUME UNCHANGED <<storage, uploaded>>,
         \A id : Named(id)' <=> Named(id),
         \/ UNCHANGED upload
         \/ upload.pc # "insert file_info" /\ upload'.pc # "insert file_info"
  PROVE  LifeNow' = LifeNow
<1>1. \A id \in 1..uploaded : LifeOf(id)' = LifeOf(id)
  BY FateSame
<1>2. QED
  BY <1>1 DEF LifeNow

LEMMA LifeIsSeq ==
  ASSUME uploaded \in Nat
  PROVE  LifeNow \in Seq(Life!Fates) /\ Len(LifeNow) = uploaded
<1>1. LifeNow \in [1..uploaded -> Life!Fates]
  BY DEF LifeNow, LifeOf, Life!Fates
<1>2. QED
  BY <1>1

LEMMA LifeIsSeqNext ==
  ASSUME uploaded' \in Nat
  PROVE  LifeNow' \in Seq(Life!Fates) /\ Len(LifeNow') = uploaded'
<1>1. LifeNow' \in [1..uploaded' -> Life!Fates]
  BY DEF LifeNow, LifeOf, Life!Fates
<1>2. QED
  BY <1>1

LEMMA InitLives == Init => Life!LifeInit
<1> SUFFICES ASSUME Init PROVE LifeNow = <<>>
  BY DEF Life!LifeInit, LifeNow
<1>1. uploaded = 0
  BY DEF Init, StoreInit
<1>2. 1..0 = {}
  OBVIOUS
<1>3. QED
  BY <1>1, <1>2 DEF LifeNow

-----------------------------------------------------------------------------
(* The statements that count *)

LEMMA UpdateKeepsNames ==
  ASSUME StoreTypeOK, NEW m \in Md5s, NEW c \in Int, UpdateFileInfo(m, c)
  PROVE  \A id : Named(id)' <=> Named(id)
<1>1. \A n \in Md5s : \A id :
        HasId(file_info'[n], id) => HasId(file_info[n], id)
  BY UpdateFileInfoNames
<1>2. ASSUME NEW n \in Md5s, NEW id, HasId(file_info[n], id)
      PROVE  HasId(file_info'[n], id)
  <2>1. CASE n # m
    BY <1>2, <2>1 DEF UpdateFileInfo, StoreTypeOK, HasId
  <2>2. CASE n = m
    <3>1. file_info'[m] = [i \in DOMAIN file_info[m] |->
                             [file_info[m][i] EXCEPT !.count = c]]
      BY DEF UpdateFileInfo, StoreTypeOK
    <3>2. PICK i \in DOMAIN file_info[m] : file_info[m][i].file_id = id
      BY <1>2, <2>2 DEF HasId
    <3>3. file_info[m][i] \in FileInfoRows
      <4>1. file_info[m] \in Seq(FileInfoRows)
        BY DEF StoreTypeOK
      <4>2. QED
        BY <3>2, <4>1, LenProperties, ElementOfSeq
    <3>4. file_info'[m][i].file_id = id
      BY <3>1, <3>2, <3>3 DEF FileInfoRows
    <3>5. QED
      BY <2>2, <3>1, <3>4 DEF HasId
  <2>3. QED
    BY <2>1, <2>2
<1>3. QED
  BY <1>1, <1>2 DEF Named

LEMMA InsertNames ==
  ASSUME StoreTypeOK, NEW m \in Md5s, NEW id \in Nat, InsertFileInfo(m, id)
  PROVE  \A x : Named(x)' <=> Named(x) \/ x = id
<1> DEFINE row == [file_id |-> id, count |-> 1]
<1>1. \A n \in Md5s : \A x :
        HasId(file_info'[n], x) => HasId(file_info[n], x) \/ x = id
  BY InsertFileInfoNames
<1>2. /\ DOMAIN file_info[m] = 1..Len(file_info[m])
      /\ DOMAIN file_info'[m] = 1..(Len(file_info[m]) + 1)
      /\ \A k \in 1..Len(file_info[m]) : file_info'[m][k] = file_info[m][k]
      /\ file_info'[m][Len(file_info[m]) + 1].file_id = id
      /\ Len(file_info[m]) \in Nat
  <2>1. file_info[m] \in Seq(FileInfoRows) /\ row \in FileInfoRows
    BY DEF StoreTypeOK, FileInfoRows
  <2>2. file_info'[m] = Append(file_info[m], row)
    BY DEF InsertFileInfo, StoreTypeOK
  <2>3. row.file_id = id
    OBVIOUS
  <2> HIDE DEF row
  <2>4. QED
    BY <2>1, <2>2, <2>3, AppendProperties, LenProperties
<1>3. ASSUME NEW n \in Md5s, NEW x, HasId(file_info[n], x)
      PROVE  HasId(file_info'[n], x)
  <2>1. CASE n # m
    BY <1>3, <2>1 DEF InsertFileInfo, StoreTypeOK, HasId
  <2>2. CASE n = m
    <3>1. PICK k \in 1..Len(file_info[m]) : file_info[m][k].file_id = x
      BY <1>2, <1>3, <2>2 DEF HasId
    <3>2. k \in DOMAIN file_info'[m] /\ file_info'[m][k].file_id = x
      BY <1>2, <3>1
    <3>3. QED
      BY <2>2, <3>2 DEF HasId
  <2>3. QED
    BY <2>1, <2>2
<1>4. HasId(file_info'[m], id)
  <2>1. Len(file_info[m]) + 1 \in DOMAIN file_info'[m]
    BY <1>2
  <2>2. QED
    BY <1>2, <2>1 DEF HasId
<1>5. QED
  BY <1>1, <1>3, <1>4 DEF Named

LEMMA DeleteNames ==
  ASSUME StoreTypeOK, BlobsInv, NEW m \in Md5s, DeleteFileInfo(m),
         NEW id \in storage
  PROVE  Named(id)' <=> Named(id) /\ ~HasId(file_info[m], id)
<1>1. \A n \in Md5s :
        HasId(file_info'[n], id) => HasId(file_info[n], id) /\ n # m
  BY DeleteFileInfoNames
<1>2. \A n \in Md5s : n # m => file_info'[n] = file_info[n]
  BY DEF DeleteFileInfo, StoreTypeOK
<1>3. ASSUME Named(id)' PROVE ~HasId(file_info[m], id)
  BY <1>1, <1>3 DEF Named, BlobsInv
<1>4. QED
  BY <1>1, <1>2, <1>3 DEF Named

-----------------------------------------------------------------------------
(* The programs *)

(* What a program does that is at work on no blob: its step, or the end of *)
(* an upload between the storage and the table.                            *)
LEMMA GivenUp ==
  ASSUME Typed, BlobsInv, UNCHANGED <<file_info, storage, uploaded>>,
         UNCHANGED upload \/ upload'.pc # "insert file_info"
  PROVE  [Life!LifeNext]_LifeNow
<1>1. \A id : Named(id)' <=> Named(id)
  BY DEF Named
<1>2. CASE upload.pc = "insert file_info" /\ upload'.pc # "insert file_info"
  <2>1. upload.id \in storage /\ ~Named(upload.id)
    BY <1>2 DEF BlobsInv, Named
  <2>2. LifeOf(upload.id) = "stored"
    BY <1>2, <2>1, FateOf
  <2>3. \A id \in 1..uploaded :
          LifeOf(id)' = IF id \in {upload.id} \cap (1..uploaded)
                        THEN "dropped" ELSE LifeOf(id)
    <3> SUFFICES ASSUME NEW id \in 1..uploaded
                 PROVE  LifeOf(id)' = IF id = upload.id
                                      THEN "dropped" ELSE LifeOf(id)
      OBVIOUS
    <3>1. Named(id)' <=> Named(id)
      BY <1>1
    <3>2. CASE id = upload.id
      <4>1. id \in storage' /\ ~Named(id)'
        BY <2>1, <3>1, <3>2
      <4>2. QED
        BY <1>2, <3>2, <4>1, FateNext
    <3>3. CASE id # upload.id
      <4>1. LifeOf(id)' = LifeOf(id)
        BY <1>2, <3>1, <3>3, FateSame
      <4>2. QED
        BY <3>3, <4>1
    <3>4. QED
      BY <3>2, <3>3
  <2> DEFINE ids == {upload.id} \cap (1..uploaded)
  <2>4. Life!Become(ids, "dropped")
    BY <2>3, FatesBecome
  <2>5. \A id \in ids : LifeNow[id] = "stored"
    BY <2>2 DEF LifeNow
  <2>6. Life!GiveUp(ids) /\ ids \in SUBSET DOMAIN LifeNow
    BY <2>4, <2>5 DEF Life!GiveUp, LifeNow
  <2>7. QED
    BY <2>6 DEF Life!LifeNext, LifeNow
<1>3. CASE ~(upload.pc = "insert file_info" /\ upload'.pc # "insert file_info")
  BY <1>1, <1>3, NothingLived
<1>4. QED
  BY <1>2, <1>3

LEMMA UploadLives ==
  ASSUME Typed, BlobsInv, UploadStep
  PROVE  [Life!LifeNext]_LifeNow
<1> USE DEF Typed, TypeOK
<1>1. CASE UploadStoreBlob
  <2> PICK new : new = uploaded + 1
    OBVIOUS
  <2>1. /\ file_info' = file_info
        /\ storage' = storage \cup {new}
        /\ uploaded' = new
        /\ upload.pc = "store blob"
        /\ upload'.pc = "insert file_info" /\ upload'.id = new
    BY <1>1 DEF UploadStoreBlob, StoreBlob, UploadTypeOK, mysqlVars
  <2>2. uploaded \in Nat /\ storage \in SUBSET Nat
    BY DEF StoreTypeOK
  <2>3. \A id : Named(id)' <=> Named(id)
    BY <2>1 DEF Named
  <2>4. ~Named(new)
    <3>1. new \notin storage
      BY <2>2, OlderIds DEF BlobsInv
    <3>2. QED
      BY <3>1, NamedIsStored DEF Named, BlobsInv
  <2>5. LifeOf(new)' = "stored"
    <3>1. new \in storage' /\ ~Named(new)'
      BY <2>1, <2>3, <2>4
    <3>2. QED
      BY <2>1, <3>1, FateNext
  <2>6. \A id \in 1..uploaded : LifeOf(id)' = LifeOf(id)
    <3> SUFFICES ASSUME NEW id \in 1..uploaded
                 PROVE  LifeOf(id)' = LifeOf(id)
      OBVIOUS
    <3>1. id # new
      BY <2>2
    <3>2. QED
      BY <2>1, <2>3, <3>1, FateSame
  <2>7. LifeNow' = Append(LifeNow, "stored")
    <3> DEFINE now == Append(LifeNow, "stored")
    <3>1. LifeNow \in Seq(Life!Fates) /\ Len(LifeNow) = uploaded
      BY <2>2, LifeIsSeq
    <3>2. LifeNow' \in Seq(Life!Fates) /\ Len(LifeNow') = uploaded + 1
      <4>1. uploaded' \in Nat
        <5>1. uploaded' = uploaded + 1
          BY <2>1
        <5>2. QED
          BY <2>2, <5>1
      <4>2. LifeNow' \in Seq(Life!Fates) /\ Len(LifeNow') = uploaded'
        BY <4>1, LifeIsSeqNext
      <4>3. QED
        BY <2>1, <4>2
    <3>3. /\ now \in Seq(Life!Fates) /\ Len(now) = uploaded + 1
          /\ \A id \in 1..uploaded : now[id] = LifeNow[id]
          /\ now[uploaded + 1] = "stored"
      <4>1. "stored" \in Life!Fates
        BY DEF Life!Fates
      <4>2. QED
        BY <3>1, <4>1, AppendProperties
    <3> HIDE DEF now
    <3>4. ASSUME NEW id \in 1..(uploaded + 1)
          PROVE  LifeNow'[id] = now[id]
      <4>1. LifeNow'[id] = LifeOf(id)'
        BY <2>1 DEF LifeNow
      <4>2. CASE id = new
        BY <2>5, <3>3, <4>1, <4>2
      <4>3. CASE id # new
        <5>1. id \in 1..uploaded
          BY <2>2, <4>3
        <5>2. QED
          BY <2>6, <3>3, <4>1, <5>1 DEF LifeNow
      <4>4. QED
        BY <4>2, <4>3
    <3>5. LifeNow' = now
      BY <3>2, <3>3, <3>4, SeqEqual
    <3>6. QED
      BY <3>5 DEF now
  <2>8. QED
    BY <2>7 DEF Life!LifeNext, Life!StoreNew, LifeNow
<1>2. CASE UploadInsertFileInfo
  <2>1. upload.file.md5 \in Md5s /\ upload.id \in Nat
    BY <1>2 DEF UploadInsertFileInfo, UploadLocals, UploadTypeOK, Files
  <2>2. \A id : Named(id)' <=> Named(id) \/ id = upload.id
    BY <1>2, <2>1, InsertNames DEF UploadInsertFileInfo
  <2>3. /\ UNCHANGED <<storage, uploaded>>
        /\ upload.pc = "insert file_info" /\ upload'.pc = "insert user file"
    BY <1>2 DEF UploadInsertFileInfo, InsertFileInfo, UploadTypeOK, blobVars
  <2>4. upload.id \in storage /\ ~Named(upload.id)
    BY <2>3 DEF BlobsInv, Named
  <2>5. LifeOf(upload.id) = "stored"
    BY <2>3, <2>4, FateOf
  <2>6. \A id \in 1..uploaded :
          LifeOf(id)' = IF id \in {upload.id} THEN "listed" ELSE LifeOf(id)
    <3> SUFFICES ASSUME NEW id \in 1..uploaded
                 PROVE  LifeOf(id)' = IF id = upload.id
                                      THEN "listed" ELSE LifeOf(id)
      OBVIOUS
    <3>1. CASE id = upload.id
      <4>1. id \in storage' /\ Named(id)'
        BY <2>2, <2>3, <2>4, <3>1
      <4>2. QED
        BY <3>1, <4>1, FateNext
    <3>2. CASE id # upload.id
      <4>1. LifeOf(id)' = LifeOf(id)
        BY <2>2, <2>3, <3>2, FateSame
      <4>2. QED
        BY <3>2, <4>1
    <3>3. QED
      BY <3>1, <3>2
  <2>7. Life!Become({upload.id}, "listed")
    BY <2>3, <2>6, FatesBecome
  <2>8. upload.id \in 1..uploaded => Life!List(upload.id)
    BY <2>5, <2>7 DEF Life!List
  <2>9. upload.id \notin 1..uploaded => LifeNow' = LifeNow
    BY <2>3, <2>6 DEF LifeNow
  <2>10. QED
    BY <2>8, <2>9 DEF Life!LifeNext, LifeNow
<1>3. CASE UploadInsertUserFile \/ UploadSelectCount \/ UploadWriteCount
             \/ UploadReply
  <2>1. UNCHANGED <<file_info, storage, uploaded>>
    BY <1>3 DEF UploadInsertUserFile, UploadSelectCount, UploadWriteCount,
      UploadReply, InsertUserFile, SetUserRows, IncrementCount, UpdateCount,
      SetCount, storeVars, mysqlVars, blobVars
  <2>2. CASE UploadReply
    BY <2>1, <2>2, IdlePcs, GivenUp DEF UploadReply
  <2>3. CASE ~UploadReply
    <3>1. upload'.pc # "insert file_info"
      BY <1>3, <2>3 DEF UploadInsertUserFile, UploadSelectCount,
        UploadWriteCount, UploadReplies, UploadTypeOK
    <3>2. QED
      BY <2>1, <3>1, GivenUp
  <2>4. QED
    BY <2>2, <2>3
<1>4. QED
  BY <1>1, <1>2, <1>3 DEF UploadStep

LEMMA InstantLives ==
  ASSUME Typed, BlobsInv, InstantStep, UNCHANGED upload
  PROVE  [Life!LifeNext]_LifeNow
<1> USE DEF Typed, TypeOK
<1>1. CASE InstantWriteRefs
  <2>1. instant.file.md5 \in Md5s /\ instant.count \in Int
    BY <1>1 DEF InstantWriteRefs, InstantLocals, Files
  <2>2. instant.count + 1 \in Int
    BY <2>1, IntSteps, Zenon
  <2>3. \A id : Named(id)' <=> Named(id)
    BY <1>1, <2>1, <2>2, UpdateKeepsNames DEF InstantWriteRefs
  <2>4. UNCHANGED <<storage, uploaded>>
    BY <1>1 DEF InstantWriteRefs, UpdateFileInfo, blobVars
  <2>5. QED
    BY <2>3, <2>4, NothingLived
<1>2. CASE ~InstantWriteRefs
  <2>1. UNCHANGED <<file_info, storage, uploaded>>
    BY <1>2 DEF InstantStep, InstantUnknown, InstantSelectRefs,
      InstantSelectOwn, InstantInsertUserFile, InstantSelectCount,
      InstantWriteCount, InstantReply, InsertUserFile, SetUserRows,
      IncrementCount, UpdateCount, SetCount, storeVars, mysqlVars, blobVars
  <2>2. QED
    BY <2>1, GivenUp
<1>3. QED
  BY <1>1, <1>2

LEMMA DealLives ==
  ASSUME Typed, BlobsInv, DealStep, UNCHANGED upload
  PROVE  [Life!LifeNext]_LifeNow
<1> USE DEF Typed, TypeOK
<1> DEFINE m == dealfile.file.md5
<1>0. dealfile.pc # "idle" => m \in Md5s
  BY DEF DealLocals, Files
<1>1. CASE DelWriteRefs
  <2>1. m \in Md5s /\ dealfile.count \in Int
    BY <1>0, <1>1 DEF DelWriteRefs, DealLocals
  <2>2. dealfile.count - 1 \in Int
    BY <2>1, IntSteps, Zenon
  <2>3. \A id : Named(id)' <=> Named(id)
    BY <1>1, <2>1, <2>2, UpdateKeepsNames DEF DelWriteRefs
  <2>4. UNCHANGED <<storage, uploaded>>
    BY <1>1 DEF DelWriteRefs, UpdateFileInfo, blobVars
  <2>5. QED
    BY <2>3, <2>4, NothingLived
<1>2. CASE DelSelectFileId
  <2>1. UNCHANGED <<file_info, storage, uploaded>>
    BY <1>2 DEF DelSelectFileId, storeVars, mysqlVars, blobVars
  <2>2. QED
    BY <2>1, GivenUp
<1>3. CASE DelDeleteFileInfo
  <2>1. m \in Md5s
    BY <1>0, <1>3 DEF DelDeleteFileInfo
  <2>2. \A id \in storage :
          Named(id)' <=> Named(id) /\ ~HasId(file_info[m], id)
    BY <1>3, <2>1, DeleteNames DEF DelDeleteFileInfo
  <2>3. UNCHANGED <<storage, uploaded>>
    BY <1>3 DEF DelDeleteFileInfo, DeleteFileInfo, blobVars
  <2> PICK ids : ids = {id \in 1..uploaded : HasId(file_info[m], id)}
    OBVIOUS
  <2>4. \A id \in ids : id \in storage /\ Named(id)
    BY <2>1, NamedIsStored DEF Named, BlobsInv
  <2>5. \A id \in ids : LifeNow[id] = "listed"
    BY <2>4, FateOf DEF LifeNow
  <2>6. \A id \in 1..uploaded :
          LifeOf(id)' = IF id \in ids THEN "dropped" ELSE LifeOf(id)
    <3> SUFFICES ASSUME NEW id \in 1..uploaded
                 PROVE  LifeOf(id)' = IF id \in ids
                                      THEN "dropped" ELSE LifeOf(id)
      OBVIOUS
    <3>1. CASE id \in ids
      <4>1. id \in storage' /\ ~Named(id)'
        BY <2>2, <2>3, <2>4, <3>1
      <4>2. ~(upload'.pc = "insert file_info" /\ upload'.id = id)
        BY <2>4, <3>1 DEF BlobsInv, Named
      <4>3. QED
        BY <3>1, <4>1, <4>2, FateNext
    <3>2. CASE id \notin ids
      <4>1. ~HasId(file_info[m], id)
        BY <3>2
      <4>2. CASE id \in storage
        <5>1. LifeOf(id)' = LifeOf(id)
          BY <2>2, <2>3, <4>1, <4>2, FateSame
        <5>2. QED
          BY <3>2, <5>1
      <4>3. CASE id \notin storage
        <5>1. LifeOf(id) = "removed" /\ LifeOf(id)' = "removed"
          BY <2>3, <4>3, FateOf, FateNext
        <5>2. QED
          BY <3>2, <5>1
      <4>4. QED
        BY <4>2, <4>3
    <3>3. QED
      BY <3>1, <3>2
  <2>7. Life!Become(ids, "dropped")
    BY <2>3, <2>6, FatesBecome
  <2>8. Life!Drop(ids) /\ ids \in SUBSET DOMAIN LifeNow
    BY <2>5, <2>7 DEF Life!Drop, LifeNow
  <2>9. QED
    BY <2>8 DEF Life!LifeNext, LifeNow
<1>4. CASE DelRemoveBlob
  <2>1. /\ UNCHANGED <<file_info, uploaded>>
        /\ storage' = storage \ {dealfile.id}
        /\ dealfile.pc = "del: remove blob"
    BY <1>4 DEF DelRemoveBlob, RemoveBlob, mysqlVars
  <2>2. ~Named(dealfile.id)
    BY <2>1 DEF BlobsInv, Named
  <2>3. \A id : Named(id)' <=> Named(id)
    BY <2>1 DEF Named
  <2>4. \A id \in 1..uploaded :
          id # dealfile.id => LifeOf(id)' = LifeOf(id)
    BY <2>1, <2>3, FateSame
  <2>5. LifeOf(dealfile.id) \in {"dropped", "removed"}
    BY <2>1, <2>2, FateOf DEF BlobsInv
  <2>6. \A id \in 1..uploaded : id = dealfile.id => LifeOf(id)' = "removed"
    BY <2>1, FateNext
  <2>7. \A id \in 1..uploaded :
          LifeOf(id)' = IF id \in {dealfile.id} THEN "removed" ELSE LifeOf(id)
    BY <2>4, <2>6
  <2>8. CASE dealfile.id \in 1..uploaded /\ LifeOf(dealfile.id) = "dropped"
    <3>1. Life!Become({dealfile.id}, "removed")
      BY <2>1, <2>7, FatesBecome
    <3>2. Life!Remove(dealfile.id)
      BY <2>8, <3>1 DEF Life!Remove
    <3>3. QED
      BY <2>8, <3>2 DEF Life!LifeNext, LifeNow
  <2>9. CASE dealfile.id \notin 1..uploaded \/ LifeOf(dealfile.id) = "removed"
    <3>1. \A id \in 1..uploaded : LifeOf(id)' = LifeOf(id)
      BY <2>7, <2>9
    <3>2. QED
      BY <2>1, <3>1 DEF LifeNow
  <2>10. QED
    BY <2>5, <2>8, <2>9
<1>5. CASE UNCHANGED <<file_info, storage, uploaded>>
  BY <1>5, GivenUp
<1>6. QED
  BY <1>1, <1>2, <1>3, <1>4, <1>5, DealBlobFrame

LEMMA DealShareLives ==
  ASSUME Typed, BlobsInv, DealShareStep, UNCHANGED upload
  PROVE  [Life!LifeNext]_LifeNow
<1>1. UNCHANGED <<file_info, storage, uploaded>>
  BY DEF DealShareStep, SharePvStep, CancelStep, SaveStep,
    SharePvMissing, SharePvSelect, SharePvWrite, SharePvZsetExit,
    SharePvZincrby, SharePvZadd, SharePvHset, CancelMark, CancelSelectTotal,
    CancelDeleteTotal, CancelCrashes, CancelDeleteShare, CancelZrem,
    CancelHdel, CancelHdelDies, SaveSelectOwn, SaveUnknown, SaveSelectRefs, SaveWriteRefs,
    DealShareReply, UpdateSharePv, DeleteShare, SetShares, UpdateShared,
    SetUserRows, DeleteCount, SetCount, Zincrby, Zadd, Zrem, SetZset, Hset,
    Hdel, SetHash, storeVars, mysqlVars, blobVars
<1>2. QED
  BY <1>1, GivenUp

LEMMA StepLives ==
  ASSUME Typed, BlobsInv, [Next]_vars
  PROVE  [Life!LifeNext]_LifeNow
<1>1. CASE ListingStep /\ UNCHANGED upload
  BY <1>1, ListingKeepsTables, GivenUp DEF mysqlVars, blobVars
<1>2. CASE UNCHANGED storeVars /\ AtEdge
  BY <1>2, GivenUp DEF AtEdge, storeVars, mysqlVars, blobVars
<1>3. CASE Misreads
  <2>1. UNCHANGED upload \/ upload'.pc # "insert file_info"
    BY <1>3, MisreadsAtUpload DEF Typed, TypeOK
  <2>2. QED
    BY <1>3, <2>1, MisreadsRecorded, GivenUp
       DEF storeVars, mysqlVars, blobVars
<1>4. QED
  BY <1>1, <1>2, <1>3, SystemMoves, UploadLives, InstantLives, DealLives,
     DealShareLives

(* Whatever uploads, instant uploads, deletions and failures interleave,   *)
(* each blob is stored, listed at most once, and removed only when it is   *)
(* listed no more and will not be again (upload_cgi.c:391-431, dealfile    *)
(* _cgi.c:410-432): the programs implement BlobLife.                       *)
THEOREM BlobsLive == Spec => BlobsLiveOnce
<1>1. Init => Life!LifeInit
  BY InitLives
<1>2. Typed /\ BlobsInv /\ [Next]_vars => [Life!LifeNext]_LifeNow
  BY StepLives
<1>3. Spec => []BlobsInv
  BY BlobsAlways
<1>4. QED
  BY <1>1, <1>2, <1>3, AlwaysTyped, PTL
     DEF Spec, BlobsLiveOnce, Life!LifeSpec, LifeNow
=============================================================================
