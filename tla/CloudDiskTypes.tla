-------------------------- MODULE CloudDiskTypes --------------------------
(***************************************************************************)
(* Type correctness of CloudDisk for all values of its constants.  TypeOK  *)
(* alone is not inductive: what a handler computes with the locals it read *)
(* has a type only because they were set by the statements before, and     *)
(* that is what the Locals predicates say, by position in the handler.     *)
(* First what each statement of CloudStore does to the types of the        *)
(* stores: the proofs about the programs cite these lemmas instead of      *)
(* expanding the statements.                                               *)
(***************************************************************************)
EXTENDS CloudDisk, SequenceTheorems, TLAPS

(* A function on the positions of a sequence is a sequence again: what an  *)
(* UPDATE makes of the rows it matches.                                    *)
LEMMA UpdatedRows ==
  ASSUME NEW S, NEW T, NEW s \in Seq(S),
         NEW g, g \in [DOMAIN s -> T]
  PROVE  g \in Seq(T)
<1>1. DOMAIN s = 1..Len(s) /\ Len(s) \in Nat
  BY LenProperties
<1>2. QED
  BY <1>1, SeqDef

(* An update in place leaves the number of rows alone. *)
LEMMA UpdatedLen ==
  ASSUME NEW S, NEW T, NEW s \in Seq(S),
         NEW g, g \in [DOMAIN s -> T]
  PROVE  Len(g) = Len(s)
<1>1. DOMAIN s = 1..Len(s) /\ Len(s) \in Nat
  BY LenProperties
<1>2. g \in Seq(T)
  BY UpdatedRows
<1>3. DOMAIN g = 1..Len(g) /\ Len(g) \in Nat
  BY <1>2, LenProperties
<1>4. 1..Len(g) = 1..Len(s)
  BY <1>1, <1>3
<1>5. QED
  BY <1>1, <1>3, <1>4

-----------------------------------------------------------------------------
(* file_info *)

LEMMA InsertFileInfoType ==
  ASSUME StoreTypeOK, NEW m, NEW id \in Nat, InsertFileInfo(m, id)
  PROVE  StoreTypeOK'
<1> DEFINE row == [file_id |-> id, count |-> 1]
<1>1. row \in FileInfoRows
  BY DEF FileInfoRows
<1>2. m \in Md5s => Append(file_info[m], row) \in Seq(FileInfoRows)
  BY <1>1 DEF StoreTypeOK
<1>3. file_info' \in [Md5s -> Seq(FileInfoRows)]
  BY <1>2 DEF StoreTypeOK, InsertFileInfo
<1>4. QED
  BY <1>3 DEF StoreTypeOK, InsertFileInfo, redisVars, blobVars

LEMMA UpdateFileInfoType ==
  ASSUME StoreTypeOK, NEW m, NEW n \in Int, UpdateFileInfo(m, n)
  PROVE  StoreTypeOK'
<1> DEFINE rows == [i \in DOMAIN file_info[m] |->
                      [file_info[m][i] EXCEPT !.count = n]]
<1>1. ASSUME m \in Md5s PROVE rows \in Seq(FileInfoRows)
  <2>1. file_info[m] \in Seq(FileInfoRows)
    BY <1>1 DEF StoreTypeOK
  <2>2. \A i \in DOMAIN file_info[m] : file_info[m][i] \in FileInfoRows
    BY <2>1, LenProperties, ElementOfSeq
  <2>3. rows \in [DOMAIN file_info[m] -> FileInfoRows]
    BY <2>2 DEF FileInfoRows
  <2>4. QED
    BY <2>1, <2>3, UpdatedRows
<1>2. file_info' = [file_info EXCEPT ![m] = rows]
  BY DEF UpdateFileInfo
<1>3. file_info' \in [Md5s -> Seq(FileInfoRows)]
  BY <1>1, <1>2 DEF StoreTypeOK
<1>4. QED
  BY <1>3 DEF StoreTypeOK, UpdateFileInfo, redisVars, blobVars

LEMMA DeleteFileInfoType ==
  ASSUME StoreTypeOK, NEW m, DeleteFileInfo(m)
  PROVE  StoreTypeOK'
<1>1. <<>> \in Seq(FileInfoRows)
  BY EmptySeq
<1>2. file_info' \in [Md5s -> Seq(FileInfoRows)]
  BY <1>1 DEF StoreTypeOK, DeleteFileInfo
<1>3. QED
  BY <1>2 DEF StoreTypeOK, DeleteFileInfo, redisVars, blobVars

-----------------------------------------------------------------------------
(* user_file_list *)

LEMMA SetUserRowsType ==
  ASSUME StoreTypeOK, NEW u, NEW f, NEW rows \in Seq(UserFileRows),
         SetUserRows(u, f, rows)
  PROVE  StoreTypeOK'
<1>1. user_file_list' \in [Users -> [Files -> Seq(UserFileRows)]]
  BY DEF StoreTypeOK, SetUserRows
<1>2. QED
  BY <1>1 DEF StoreTypeOK, SetUserRows, redisVars, blobVars

LEMMA InsertUserFileType ==
  ASSUME StoreTypeOK, NEW u \in Users, NEW f \in Files, InsertUserFile(u, f)
  PROVE  StoreTypeOK'
<1>1. [shared |-> 0, pv |-> 0] \in UserFileRows
  BY DEF UserFileRows
<1>2. Append(user_file_list[u][f], [shared |-> 0, pv |-> 0])
        \in Seq(UserFileRows)
  BY <1>1 DEF StoreTypeOK
<1>3. QED
  BY <1>2, SetUserRowsType DEF InsertUserFile

LEMMA UpdateSharedType ==
  ASSUME StoreTypeOK, NEW u \in Users, NEW f \in Files, NEW n \in {0, 1},
         UpdateShared(u, f, n)
  PROVE  StoreTypeOK'
<1> DEFINE rows == [i \in DOMAIN user_file_list[u][f] |->
                      [user_file_list[u][f][i] EXCEPT !.shared = n]]
<1>1. user_file_list[u][f] \in Seq(UserFileRows)
  BY DEF StoreTypeOK
<1>2. \A i \in DOMAIN user_file_list[u][f] :
        user_file_list[u][f][i] \in UserFileRows
  BY <1>1, LenProperties, ElementOfSeq
<1>3. rows \in [DOMAIN user_file_list[u][f] -> UserFileRows]
  BY <1>2 DEF UserFileRows
<1>4. rows \in Seq(UserFileRows)
  BY <1>1, <1>3, UpdatedRows
<1>5. QED
  BY <1>4, SetUserRowsType DEF UpdateShared

LEMMA UpdateUserPvType ==
  ASSUME StoreTypeOK, NEW u \in Users, NEW f \in Files, NEW n \in Nat,
         UpdateUserPv(u, f, n)
  PROVE  StoreTypeOK'
<1> DEFINE rows == [i \in DOMAIN user_file_list[u][f] |->
                      [user_file_list[u][f][i] EXCEPT !.pv = n]]
<1>1. user_file_list[u][f] \in Seq(UserFileRows)
  BY DEF StoreTypeOK
<1>2. \A i \in DOMAIN user_file_list[u][f] :
        user_file_list[u][f][i] \in UserFileRows
  BY <1>1, LenProperties, ElementOfSeq
<1>3. rows \in [DOMAIN user_file_list[u][f] -> UserFileRows]
  BY <1>2 DEF UserFileRows
<1>4. rows \in Seq(UserFileRows)
  BY <1>1, <1>3, UpdatedRows
<1>5. QED
  BY <1>4, SetUserRowsType DEF UpdateUserPv

LEMMA DeleteUserFileType ==
  ASSUME StoreTypeOK, NEW u, NEW f, DeleteUserFile(u, f)
  PROVE  StoreTypeOK'
BY EmptySeq, SetUserRowsType DEF DeleteUserFile

-----------------------------------------------------------------------------
(* share_file_list *)

LEMMA InsertShareType ==
  ASSUME StoreTypeOK, NEW u \in Users, NEW f \in Files, InsertShare(u, f)
  PROVE  StoreTypeOK'
<1>1. Append(share_file_list[u][f], 0) \in Seq(Nat)
  BY DEF StoreTypeOK
<1>2. share_file_list' \in [Users -> [Files -> Seq(Nat)]]
  BY <1>1 DEF StoreTypeOK, InsertShare, SetShares
<1>3. QED
  BY <1>2 DEF StoreTypeOK, InsertShare, SetShares, redisVars, blobVars

LEMMA DeleteShareType ==
  ASSUME StoreTypeOK, NEW u, NEW f, DeleteShare(u, f)
  PROVE  StoreTypeOK'
<1>1. <<>> \in Seq(Nat)
  BY EmptySeq
<1>2. share_file_list' \in [Users -> [Files -> Seq(Nat)]]
  BY <1>1 DEF StoreTypeOK, DeleteShare, SetShares
<1>3. QED
  BY <1>2 DEF StoreTypeOK, DeleteShare, SetShares, redisVars, blobVars

LEMMA UpdateSharePvType ==
  ASSUME StoreTypeOK, NEW f \in Files, NEW n \in Nat, UpdateSharePv(f, n)
  PROVE  StoreTypeOK'
<1>1. ASSUME NEW u \in Users
      PROVE  [i \in DOMAIN share_file_list[u][f] |-> n] \in Seq(Nat)
  <2>1. share_file_list[u][f] \in Seq(Nat)
    BY DEF StoreTypeOK
  <2>2. [i \in DOMAIN share_file_list[u][f] |-> n]
          \in [DOMAIN share_file_list[u][f] -> Nat]
    OBVIOUS
  <2>3. QED
    BY <2>1, <2>2, UpdatedRows
<1>2. share_file_list' \in [Users -> [Files -> Seq(Nat)]]
  BY <1>1 DEF StoreTypeOK, UpdateSharePv, SetShares
<1>3. QED
  BY <1>2 DEF StoreTypeOK, UpdateSharePv, SetShares, redisVars, blobVars

-----------------------------------------------------------------------------
(* user_file_count *)

LEMMA SetCountType ==
  ASSUME StoreTypeOK, NEW c, NEW n \in Int \cup {None}, SetCount(c, n)
  PROVE  StoreTypeOK'
<1>1. user_file_count' \in [Counters -> Int \cup {None}]
  BY DEF StoreTypeOK, SetCount
<1>2. QED
  BY <1>1 DEF StoreTypeOK, SetCount, redisVars, blobVars

LEMMA UpdateCountType ==
  ASSUME StoreTypeOK, NEW c, NEW n \in Int, UpdateCount(c, n)
  PROVE  StoreTypeOK'
BY SetCountType DEF UpdateCount

LEMMA DeleteCountType ==
  ASSUME StoreTypeOK, NEW c, DeleteCount(c)
  PROVE  StoreTypeOK'
BY SetCountType DEF DeleteCount

LEMMA UnchangedStoreType ==
  ASSUME StoreTypeOK, UNCHANGED storeVars
  PROVE  StoreTypeOK'
BY DEF StoreTypeOK, storeVars, mysqlVars, redisVars, blobVars

LEMMA IncrementCountType ==
  ASSUME StoreTypeOK, NEW c, NEW read \in Int \cup {None},
         IncrementCount(c, read)
  PROVE  StoreTypeOK'
<1>1. CASE read # None
  <2>1. read + 1 \in Int /\ UpdateCount(c, read + 1)
    BY <1>1 DEF IncrementCount
  <2>2. QED
    BY <2>1, UpdateCountType
<1>2. CASE read = None /\ IncrementFails(c, read)
  BY <1>2, UnchangedStoreType DEF IncrementCount
<1>3. CASE read = None /\ ~IncrementFails(c, read)
  BY <1>3, SetCountType DEF IncrementCount
<1>4. QED
  BY <1>1, <1>2, <1>3

-----------------------------------------------------------------------------
(* Redis and FastDFS *)

LEMMA SetZsetType ==
  ASSUME StoreTypeOK, NEW scores \in [Files -> Nat \cup {None}],
         SetZset(scores)
  PROVE  StoreTypeOK'
BY DEF StoreTypeOK, SetZset, mysqlVars, blobVars

LEMMA ZaddType ==
  ASSUME StoreTypeOK, NEW f, NEW n \in Nat, Zadd(f, n)
  PROVE  StoreTypeOK'
<1>1. [zset EXCEPT ![f] = n] \in [Files -> Nat \cup {None}]
  BY DEF StoreTypeOK
<1>2. QED
  BY <1>1, SetZsetType DEF Zadd

LEMMA ZincrbyType ==
  ASSUME StoreTypeOK, NEW f \in Files, Zincrby(f)
  PROVE  StoreTypeOK'
<1>1. [zset EXCEPT ![f] = IF @ = None THEN 1 ELSE @ + 1]
        \in [Files -> Nat \cup {None}]
  BY DEF StoreTypeOK
<1>2. QED
  BY <1>1, SetZsetType DEF Zincrby

LEMMA ZremType ==
  ASSUME StoreTypeOK, NEW f, Zrem(f)
  PROVE  StoreTypeOK'
<1>1. [zset EXCEPT ![f] = None] \in [Files -> Nat \cup {None}]
  BY DEF StoreTypeOK
<1>2. QED
  BY <1>1, SetZsetType DEF Zrem

LEMMA DelZsetType ==
  ASSUME StoreTypeOK, DelZset
  PROVE  StoreTypeOK'
<1>1. [f \in Files |-> None] \in [Files -> Nat \cup {None}]
  OBVIOUS
<1>2. QED
  BY <1>1, SetZsetType DEF DelZset

LEMMA SetHashType ==
  ASSUME StoreTypeOK, NEW names \in SUBSET Files, SetHash(names)
  PROVE  StoreTypeOK'
BY DEF StoreTypeOK, SetHash, mysqlVars, blobVars

LEMMA HsetType ==
  ASSUME StoreTypeOK, NEW f \in Files, Hset(f)
  PROVE  StoreTypeOK'
<1>1. hash \cup {f} \in SUBSET Files
  BY DEF StoreTypeOK
<1>2. QED
  BY <1>1, SetHashType DEF Hset

LEMMA HdelType ==
  ASSUME StoreTypeOK, NEW f, Hdel(f)
  PROVE  StoreTypeOK'
<1>1. hash \ {f} \in SUBSET Files
  BY DEF StoreTypeOK
<1>2. QED
  BY <1>1, SetHashType DEF Hdel

LEMMA DelHashType ==
  ASSUME StoreTypeOK, DelHash
  PROVE  StoreTypeOK'
BY SetHashType DEF DelHash

LEMMA StoreBlobType ==
  ASSUME StoreTypeOK, StoreBlob
  PROVE  StoreTypeOK'
BY DEF StoreTypeOK, StoreBlob, mysqlVars, redisVars

LEMMA RemoveBlobType ==
  ASSUME StoreTypeOK, NEW id, RemoveBlob(id)
  PROVE  StoreTypeOK'
BY DEF StoreTypeOK, RemoveBlob, mysqlVars, redisVars

-----------------------------------------------------------------------------
(* What a SELECT returns *)

LEMMA FileInfoRowType ==
  ASSUME StoreTypeOK, NEW m \in Md5s, NEW i \in DOMAIN file_info[m]
  PROVE  file_info[m][i].file_id \in Nat /\ file_info[m][i].count \in Int
<1>1. file_info[m] \in Seq(FileInfoRows)
  BY DEF StoreTypeOK
<1>2. file_info[m][i] \in FileInfoRows
  BY <1>1, LenProperties, ElementOfSeq
<1>3. QED
  BY <1>2 DEF FileInfoRows

LEMMA UserFileRowType ==
  ASSUME StoreTypeOK, NEW u \in Users, NEW f \in Files,
         NEW i \in DOMAIN user_file_list[u][f]
  PROVE  user_file_list[u][f][i].pv \in Nat
<1>1. user_file_list[u][f] \in Seq(UserFileRows)
  BY DEF StoreTypeOK
<1>2. user_file_list[u][f][i] \in UserFileRows
  BY <1>1, LenProperties, ElementOfSeq
<1>3. QED
  BY <1>2 DEF UserFileRows

LEMMA SharedType ==
  ASSUME StoreTypeOK, NEW u \in Users, NEW f \in Files,
         NEW i \in DOMAIN user_file_list[u][f]
  PROVE  user_file_list[u][f][i].shared \in Int
<1>1. user_file_list[u][f] \in Seq(UserFileRows)
  BY DEF StoreTypeOK
<1>2. user_file_list[u][f][i] \in UserFileRows
  BY <1>1, LenProperties, ElementOfSeq
<1>3. QED
  BY <1>2 DEF UserFileRows

LEMMA ShareRowType ==
  ASSUME StoreTypeOK, NEW u \in Users, NEW f \in Files,
         NEW i \in DOMAIN share_file_list[u][f]
  PROVE  share_file_list[u][f][i] \in Nat
<1>1. share_file_list[u][f] \in Seq(Nat)
  BY DEF StoreTypeOK
<1>2. QED
  BY <1>1, LenProperties, ElementOfSeq

LEMMA CountType ==
  ASSUME StoreTypeOK, NEW c \in Counters
  PROVE  user_file_count[c] \in Int \cup {None}
BY DEF StoreTypeOK

-----------------------------------------------------------------------------
UploadLocals ==
  upload.pc # "idle" => upload.user \in Users /\ upload.file \in Files

InstantLocals ==
  /\ instant.pc # "idle" => instant.user \in Users /\ instant.file \in Files
  /\ instant.pc \in {"select own", "write refs"} => instant.count \in Int

DealLocals ==
  /\ dealfile.pc # "idle" =>
       dealfile.user \in Users /\ dealfile.file \in Files
  /\ dealfile.pc \in {"del: write total", "del: write count",
                      "del: write refs"} => dealfile.count \in Int
  /\ dealfile.pc = "pv: write" => dealfile.count \in Nat

DealShareLocals ==
  /\ dealshare.pc # "idle" =>
       dealshare.user \in Users /\ dealshare.file \in Files
  /\ dealshare.pc \in {"pv: write", "pv: zset_exit", "pv: zincrby",
                       "pv: zadd"} => dealshare.count \in Nat

ListingLocals ==
  listing.pc \in {"rank: hset", "rank: zscore"} => listing.row \in Files

Typed ==
  /\ TypeOK
  /\ UploadLocals
  /\ InstantLocals
  /\ DealLocals
  /\ DealShareLocals
  /\ ListingLocals

(* What the provers need not work out again in every handler. *)

LEMMA IntSteps == \A n \in Int : n + 1 \in Int /\ n - 1 \in Int
OBVIOUS

LEMMA ZeroNumber == 0 \in Int /\ 0 \in Nat
OBVIOUS

LEMMA NatSteps == \A n \in Nat : n + 1 \in Nat /\ n \in Nat \cap Int
OBVIOUS

LEMMA CountOrZero ==
  ASSUME StoreTypeOK
  PROVE  (IF user_file_count[ShareTotal] = None
          THEN 0 ELSE user_file_count[ShareTotal]) \in Int
<1>1. user_file_count[ShareTotal] \in Int \cup {None}
  BY CountType DEF Counters
<1>2. QED
  BY <1>1

LEMMA AtoiType ==
  ASSUME NEW n \in Int \cup {None}
  PROVE  Atoi(n) \in Int /\ Atoi(n) - 1 \in Int
BY DEF Atoi

LEMMA SharedRowsType ==
  ASSUME StoreTypeOK
  PROVE  SharedRows \in SUBSET ShareRows
<1>1. \A u \in Users, f \in Files : \A i \in DOMAIN share_file_list[u][f] :
        [file |-> f, pv |-> share_file_list[u][f][i]] \in ShareRows
  BY ShareRowType DEF ShareRows
<1>2. QED
  BY <1>1 DEF SharedRows

(* The programs start idle, and become idle again: after a reply, when     *)
(* they are killed, and when they are started anew.                        *)

LEMMA UploadIdleTyped ==
  ASSUME upload' = UploadIdle
  PROVE  UploadTypeOK' /\ UploadLocals'
BY DEF UploadIdle, UploadTypeOK, UploadLocals

LEMMA InstantIdleTyped ==
  ASSUME instant' = InstantIdle
  PROVE  InstantTypeOK' /\ InstantLocals'
BY DEF InstantIdle, InstantTypeOK, InstantLocals

LEMMA DealIdleTyped ==
  ASSUME dealfile' = DealIdle
  PROVE  DealTypeOK' /\ DealLocals'
BY DEF DealIdle, DealTypeOK, DealLocals

LEMMA DealShareIdleTyped ==
  ASSUME dealshare' = DealShareIdle
  PROVE  DealShareTypeOK' /\ DealShareLocals'
BY DEF DealShareIdle, DealShareTypeOK, DealShareLocals

LEMMA ListingIdleState == ListingIdle \in ListingStates
BY DEF ListingIdle, ListingStates

LEMMA ListingIdleTyped ==
  ASSUME listing' = ListingIdle
  PROVE  ListingTypeOK' /\ ListingLocals'
<1>1. ListingIdle \in ListingStates
  BY ListingIdleState
<1>2. ListingIdle.pc = "idle"
  BY DEF ListingIdle
<1>3. QED
  BY <1>1, <1>2 DEF ListingTypeOK, ListingLocals

-----------------------------------------------------------------------------
(* upload *)

LEMMA UploadStepTyped ==
  ASSUME StoreTypeOK, UploadTypeOK, UploadLocals, UploadStep
  PROVE  StoreTypeOK' /\ UploadTypeOK' /\ UploadLocals'
<1> USE DEF UploadTypeOK, UploadLocals, UploadSteps
<1>1. CASE UploadStoreBlob
  <2>1. StoreTypeOK'
    BY <1>1, StoreBlobType DEF UploadStoreBlob
  <2>2. UploadTypeOK' /\ UploadLocals'
    <3>1. uploaded \in Nat
      BY DEF StoreTypeOK
    <3>2. uploaded + 1 \in Nat
      BY <3>1, NatSteps, Zenon
    <3>3. QED
      BY <1>1, <3>2 DEF UploadStoreBlob
  <2>3. QED
    BY <2>1, <2>2
<1>2. CASE UploadInsertFileInfo
  <2>1. StoreTypeOK'
    BY <1>2, InsertFileInfoType DEF UploadInsertFileInfo
  <2>2. UploadTypeOK' /\ UploadLocals'
    BY <1>2 DEF UploadInsertFileInfo
  <2>3. QED
    BY <2>1, <2>2
<1>3. CASE UploadInsertUserFile
  <2>1. StoreTypeOK'
    BY <1>3, InsertUserFileType DEF UploadInsertUserFile
  <2>2. UploadTypeOK' /\ UploadLocals'
    BY <1>3 DEF UploadInsertUserFile
  <2>3. QED
    BY <2>1, <2>2
<1>4. CASE UploadSelectCount
  <2>1. StoreTypeOK'
    BY <1>4, UnchangedStoreType DEF UploadSelectCount
  <2>2. UploadTypeOK' /\ UploadLocals'
    BY <1>4 DEF UploadSelectCount, StoreTypeOK, Counters
  <2>3. QED
    BY <2>1, <2>2
<1>5. CASE UploadWriteCount
  <2>1. StoreTypeOK'
    BY <1>5, IncrementCountType DEF UploadWriteCount
  <2>2. UploadTypeOK' /\ UploadLocals'
    BY <1>5 DEF UploadWriteCount, UploadReplies
  <2>3. QED
    BY <2>1, <2>2
<1>6. CASE UploadReply
  <2>1. StoreTypeOK'
    BY <1>6, UnchangedStoreType DEF UploadReply
  <2>2. UploadTypeOK' /\ UploadLocals'
    BY <1>6, UploadIdleTyped DEF UploadReply
  <2>3. QED
    BY <2>1, <2>2
<1>7. QED
  BY <1>1, <1>2, <1>3, <1>4, <1>5, <1>6 DEF UploadStep

-----------------------------------------------------------------------------
(* md5 *)

LEMMA InstantStepTyped ==
  ASSUME StoreTypeOK, InstantTypeOK, InstantLocals, InstantStep
  PROVE  StoreTypeOK' /\ InstantTypeOK' /\ InstantLocals'
<1> USE DEF InstantTypeOK, InstantLocals, InstantSteps
<1>1. CASE InstantUnknown
  <2>1. StoreTypeOK'
    BY <1>1, UnchangedStoreType DEF InstantUnknown
  <2>2. InstantTypeOK' /\ InstantLocals'
    BY <1>1 DEF InstantUnknown, InstantReplies
  <2>3. QED
    BY <2>1, <2>2
<1>2. CASE InstantSelectRefs
  <2>1. StoreTypeOK'
    BY <1>2, UnchangedStoreType DEF InstantSelectRefs
  <2>2. InstantTypeOK' /\ InstantLocals'
    <3>1. instant.file.md5 \in Md5s
      BY <1>2 DEF InstantSelectRefs, Files
    <3>2. PICK i \in DOMAIN file_info[instant.file.md5] :
           instant' = [instant EXCEPT !.pc = "select own",
             !.count = file_info[instant.file.md5][i].count]
      BY <1>2 DEF InstantSelectRefs
    <3>3. file_info[instant.file.md5][i].count \in Int
      BY <3>1, FileInfoRowType
    <3>4. QED
      BY <1>2, <3>2, <3>3 DEF InstantSelectRefs
  <2>3. QED
    BY <2>1, <2>2
<1>3. CASE InstantSelectOwn
  <2>1. StoreTypeOK'
    BY <1>3, UnchangedStoreType DEF InstantSelectOwn
  <2>2. InstantTypeOK' /\ InstantLocals'
    BY <1>3 DEF InstantSelectOwn, InstantReplies
  <2>3. QED
    BY <2>1, <2>2
<1>4. CASE InstantWriteRefs
  <2>1. StoreTypeOK'
    <3>1. instant.count \in Int
      BY <1>4 DEF InstantWriteRefs
    <3>2. instant.count + 1 \in Int
      BY <3>1, IntSteps, Zenon
    <3>3. UpdateFileInfo(instant.file.md5, instant.count + 1)
      BY <1>4 DEF InstantWriteRefs
    <3>4. QED
      BY <3>2, <3>3, UpdateFileInfoType
  <2>2. InstantTypeOK' /\ InstantLocals'
    BY <1>4 DEF InstantWriteRefs
  <2>3. QED
    BY <2>1, <2>2
<1>5. CASE InstantInsertUserFile
  <2>1. StoreTypeOK'
    BY <1>5, InsertUserFileType DEF InstantInsertUserFile
  <2>2. InstantTypeOK' /\ InstantLocals'
    BY <1>5 DEF InstantInsertUserFile
  <2>3. QED
    BY <2>1, <2>2
<1>6. CASE InstantSelectCount
  <2>1. StoreTypeOK'
    BY <1>6, UnchangedStoreType DEF InstantSelectCount
  <2>2. InstantTypeOK' /\ InstantLocals'
    BY <1>6 DEF InstantSelectCount, StoreTypeOK, Counters
  <2>3. QED
    BY <2>1, <2>2
<1>7. CASE InstantWriteCount
  <2>1. StoreTypeOK'
    BY <1>7, IncrementCountType DEF InstantWriteCount
  <2>2. InstantTypeOK' /\ InstantLocals'
    BY <1>7 DEF InstantWriteCount, InstantReplies
  <2>3. QED
    BY <2>1, <2>2
<1>8. CASE InstantReply
  <2>1. StoreTypeOK'
    BY <1>8, UnchangedStoreType DEF InstantReply
  <2>2. InstantTypeOK' /\ InstantLocals'
    BY <1>8, InstantIdleTyped DEF InstantReply
  <2>3. QED
    BY <2>1, <2>2
<1>9. QED
  BY <1>1, <1>2, <1>3, <1>4, <1>5, <1>6, <1>7, <1>8 DEF InstantStep

-----------------------------------------------------------------------------
(* dealfile *)

LEMMA DealStepTyped ==
  ASSUME StoreTypeOK, DealTypeOK, DealLocals, DealStep
  PROVE  StoreTypeOK' /\ DealTypeOK' /\ DealLocals'
<1> USE DEF DealTypeOK, DealLocals, DealSteps, ShareSteps, DelSteps, PvSteps,
  DealCodes
<1>1. CASE ShareZsetExit
  <2>1. StoreTypeOK'
    BY <1>1, UnchangedStoreType DEF ShareZsetExit
  <2>2. DealTypeOK' /\ DealLocals'
    <3>1. \/ dealfile' = [dealfile EXCEPT !.pc = "share: select"]
           \/ dealfile' = [dealfile EXCEPT !.pc = "reply", !.code = "011"]
      BY <1>1 DEF ShareZsetExit, DealGoes, DealReplies
    <3>2. QED
      BY <1>1, <3>1 DEF ShareZsetExit
  <2>3. QED
    BY <2>1, <2>2
<1>2. CASE ShareSelect
  <2>1. StoreTypeOK'
    BY <1>2, UnchangedStoreType DEF ShareSelect
  <2>2. DealTypeOK' /\ DealLocals'
    BY <1>2 DEF ShareSelect, DealGoes, DealReplies
  <2>3. QED
    BY <2>1, <2>2
<1>3. CASE ShareZaddAgain
  <2>1. StoreTypeOK'
    BY <1>3, ZaddType DEF ShareZaddAgain
  <2>2. DealTypeOK' /\ DealLocals'
    BY <1>3 DEF ShareZaddAgain, DealGoes, DealReplies
  <2>3. QED
    BY <2>1, <2>2
<1>4. CASE ShareMark
  <2>1. StoreTypeOK'
    BY <1>4, UpdateSharedType DEF ShareMark
  <2>2. DealTypeOK' /\ DealLocals'
    BY <1>4 DEF ShareMark, DealGoes, DealReplies
  <2>3. QED
    BY <2>1, <2>2
<1>5. CASE ShareInsert
  <2>1. StoreTypeOK'
    BY <1>5, InsertShareType DEF ShareInsert
  <2>2. DealTypeOK' /\ DealLocals'
    BY <1>5 DEF ShareInsert, DealGoes, DealReplies
  <2>3. QED
    BY <2>1, <2>2
<1>6. CASE ShareSelectTotal
  <2>1. StoreTypeOK'
    BY <1>6, UnchangedStoreType DEF ShareSelectTotal
  <2>2. DealTypeOK' /\ DealLocals'
    BY <1>6 DEF ShareSelectTotal, StoreTypeOK, Counters
  <2>3. QED
    BY <2>1, <2>2
<1>7. CASE ShareWriteTotal
  <2>1. StoreTypeOK'
    BY <1>7, IncrementCountType DEF ShareWriteTotal
  <2>2. DealTypeOK' /\ DealLocals'
    <3>1. \/ dealfile' = [dealfile EXCEPT !.pc = "share: zadd"]
           \/ dealfile' = [dealfile EXCEPT !.pc = "reply", !.code = "011"]
      BY <1>7 DEF ShareWriteTotal, DealGoes, DealReplies
    <3>2. QED
      BY <1>7, <3>1 DEF ShareWriteTotal
  <2>3. QED
    BY <2>1, <2>2
<1>8. CASE ShareZadd
  <2>1. StoreTypeOK'
    BY <1>8, ZaddType DEF ShareZadd
  <2>2. DealTypeOK' /\ DealLocals'
    BY <1>8 DEF ShareZadd, DealGoes, DealReplies
  <2>3. QED
    BY <2>1, <2>2
<1>9. CASE ShareHset
  <2>1. StoreTypeOK'
    BY <1>9, HsetType DEF ShareHset
  <2>2. DealTypeOK' /\ DealLocals'
    BY <1>9 DEF ShareHset, DealGoes, DealReplies
  <2>3. QED
    BY <2>1, <2>2
<1>10. CASE DelZsetExit
  <2>1. StoreTypeOK'
    BY <1>10, UnchangedStoreType DEF DelZsetExit
  <2>2. DealTypeOK' /\ DealLocals'
    <3>1. \/ dealfile' = [dealfile EXCEPT !.pc = "del: select status"]
           \/ dealfile' = [dealfile EXCEPT !.pc = "del: delete share", !.flag = TRUE]
           \/ dealfile' = [dealfile EXCEPT !.pc = "reply", !.code = "014"]
      BY <1>10 DEF DelZsetExit, DealGoes, DealReplies
    <3>2. QED
      BY ZenonT(60), <1>10, <3>1 DEF DelZsetExit
  <2>3. QED
    BY <2>1, <2>2
<1>11. CASE DelNoStatus
  <2>1. StoreTypeOK'
    BY <1>11, UnchangedStoreType DEF DelNoStatus
  <2>2. DealTypeOK' /\ DealLocals'
    BY <1>11 DEF DelNoStatus, DealGoes, DealReplies
  <2>3. QED
    BY <2>1, <2>2
<1>12. CASE DelSelectStatus
  <2>1. StoreTypeOK'
    BY <1>12, UnchangedStoreType DEF DelSelectStatus
  <2>2. DealTypeOK' /\ DealLocals'
    <3>1. dealfile.user \in Users /\ dealfile.file \in Files
      BY <1>12 DEF DelSelectStatus
    <3>2. PICK i \in DOMAIN user_file_list[dealfile.user][dealfile.file] :
           dealfile' = [dealfile EXCEPT
             !.count = user_file_list[dealfile.user][dealfile.file][i].shared,
             !.pc = IF user_file_list[dealfile.user][dealfile.file][i].shared = 1
                    THEN "del: delete share" ELSE "del: select count"]
      BY <1>12 DEF DelSelectStatus
    <3>3. user_file_list[dealfile.user][dealfile.file][i].shared \in Int
      BY <3>1, SharedType
    <3>4. QED
      BY <1>12, <3>2, <3>3 DEF DelSelectStatus
  <2>3. QED
    BY <2>1, <2>2
<1>13. CASE DelDeleteShare
  <2>1. StoreTypeOK'
    BY <1>13, DeleteShareType DEF DelDeleteShare
  <2>2. DealTypeOK' /\ DealLocals'
    BY <1>13 DEF DelDeleteShare, DealGoes, DealReplies
  <2>3. QED
    BY <2>1, <2>2
<1>14. CASE DelSelectTotal
  <2>1. StoreTypeOK'
    BY <1>14, UnchangedStoreType DEF DelSelectTotal
  <2>2. DealTypeOK' /\ DealLocals'
    <3>1. user_file_count[ShareTotal] \in Int \cup {None}
      BY <1>14, CountType DEF DelSelectTotal, Counters
    <3>2. \/ dealfile' = [dealfile EXCEPT !.pc = "reply", !.code = "014"]
           \/ /\ user_file_count[ShareTotal] # None
              /\ dealfile' = [dealfile EXCEPT !.pc = "del: write total",
                             !.count = user_file_count[ShareTotal]]
      BY <1>14 DEF DelSelectTotal, DealReplies
    <3>3. QED
      BY <1>14, <3>1, <3>2 DEF DelSelectTotal
  <2>3. QED
    BY <2>1, <2>2
<1>15. CASE DelWriteTotal
  <2>1. StoreTypeOK'
    <3>1. dealfile.count \in Int
      BY <1>15 DEF DelWriteTotal
    <3>2. dealfile.count - 1 \in Int
      BY <3>1, IntSteps, Zenon
    <3>3. UpdateCount(ShareTotal, dealfile.count - 1)
      BY <1>15 DEF DelWriteTotal
    <3>4. QED
      BY <3>2, <3>3, UpdateCountType
  <2>2. DealTypeOK' /\ DealLocals'
    BY <1>15 DEF DelWriteTotal, DealGoes, DealReplies
  <2>3. QED
    BY <2>1, <2>2
<1>16. CASE DelZrem
  <2>1. StoreTypeOK'
    BY <1>16, ZremType DEF DelZrem
  <2>2. DealTypeOK' /\ DealLocals'
    BY <1>16 DEF DelZrem, DealGoes, DealReplies
  <2>3. QED
    BY <2>1, <2>2
<1>17. CASE DelHdel
  <2>1. StoreTypeOK'
    BY <1>17, HdelType DEF DelHdel
  <2>2. DealTypeOK' /\ DealLocals'
    BY <1>17 DEF DelHdel, DealGoes, DealReplies
  <2>3. QED
    BY <2>1, <2>2
<1>18. CASE DelSelectCount
  <2>1. StoreTypeOK'
    BY <1>18, UnchangedStoreType DEF DelSelectCount
  <2>2. DealTypeOK' /\ DealLocals'
    <3>1. user_file_count[dealfile.user] \in Int \cup {None}
      BY <1>18, CountType DEF DelSelectCount, Counters
    <3>2. \/ dealfile' = [dealfile EXCEPT !.pc = "reply", !.code = "014"]
           \/ /\ user_file_count[dealfile.user] # None
              /\ dealfile' = [dealfile EXCEPT !.pc = "del: write count",
                             !.count = user_file_count[dealfile.user]]
      BY <1>18 DEF DelSelectCount, DealReplies
    <3>3. QED
      BY <1>18, <3>1, <3>2 DEF DelSelectCount
  <2>3. QED
    BY <2>1, <2>2
<1>19. CASE DelWriteCount
  <2>1. StoreTypeOK'
    <3>1. dealfile.count \in Int
      BY <1>19 DEF DelWriteCount
    <3>2. dealfile.count - 1 \in Int
      BY <3>1, IntSteps, Zenon
    <3>3. \/ DeleteCount(dealfile.user)
          \/ UpdateCount(dealfile.user, dealfile.count - 1)
      BY <1>19 DEF DelWriteCount
    <3>4. QED
      BY <3>2, <3>3, DeleteCountType, UpdateCountType
  <2>2. DealTypeOK' /\ DealLocals'
    BY <1>19 DEF DelWriteCount, DealGoes, DealReplies
  <2>3. QED
    BY <2>1, <2>2
<1>20. CASE DelDeleteUserFile
  <2>1. StoreTypeOK'
    BY <1>20, DeleteUserFileType DEF DelDeleteUserFile
  <2>2. DealTypeOK' /\ DealLocals'
    BY <1>20 DEF DelDeleteUserFile, DealGoes, DealReplies
  <2>3. QED
    BY <2>1, <2>2
<1>21. CASE DelNoRefs
  <2>1. StoreTypeOK'
    BY <1>21, UnchangedStoreType DEF DelNoRefs
  <2>2. DealTypeOK' /\ DealLocals'
    BY <1>21 DEF DelNoRefs, DealGoes, DealReplies
  <2>3. QED
    BY <2>1, <2>2
<1>22. CASE DelSelectRefs
  <2>1. StoreTypeOK'
    BY <1>22, UnchangedStoreType DEF DelSelectRefs
  <2>2. DealTypeOK' /\ DealLocals'
    <3>1. dealfile.file.md5 \in Md5s
      BY <1>22 DEF DelSelectRefs, Files
    <3>2. PICK i \in DOMAIN file_info[dealfile.file.md5] :
           dealfile' = [dealfile EXCEPT !.pc = "del: write refs",
             !.count = file_info[dealfile.file.md5][i].count - 1]
      BY <1>22 DEF DelSelectRefs
    <3>3. file_info[dealfile.file.md5][i].count \in Int
      BY <3>1, FileInfoRowType
    <3>4. file_info[dealfile.file.md5][i].count - 1 \in Int
      BY <3>3, IntSteps, Zenon
    <3>5. QED
      BY <1>22, <3>2, <3>4 DEF DelSelectRefs
  <2>3. QED
    BY <2>1, <2>2
<1>23. CASE DelWriteRefs
  <2>1. StoreTypeOK'
    <3>1. dealfile.count \in Int
      BY <1>23 DEF DelWriteRefs
    <3>2. dealfile.count - 1 \in Int
      BY <3>1, IntSteps, Zenon
    <3>3. UpdateFileInfo(dealfile.file.md5, dealfile.count - 1)
      BY <1>23 DEF DelWriteRefs
    <3>4. QED
      BY <3>2, <3>3, UpdateFileInfoType
  <2>2. DealTypeOK' /\ DealLocals'
    <3>1. \/ dealfile' = [dealfile EXCEPT !.pc = "del: select file_id"]
           \/ dealfile' = [dealfile EXCEPT !.pc = "reply", !.code = "013"]
      BY <1>23 DEF DelWriteRefs, DealGoes, DealReplies
    <3>2. QED
      BY <1>23, <3>1 DEF DelWriteRefs
  <2>3. QED
    BY <2>1, <2>2
<1>24. CASE DelSelectFileId
  <2>1. StoreTypeOK'
    BY <1>24, UnchangedStoreType DEF DelSelectFileId
  <2>2. DealTypeOK' /\ DealLocals'
    <3>1. dealfile.file.md5 \in Md5s
      BY <1>24 DEF DelSelectFileId, Files
    <3>2. PICK i \in DOMAIN file_info[dealfile.file.md5] :
           dealfile' = [dealfile EXCEPT !.pc = "del: delete file_info",
             !.id = file_info[dealfile.file.md5][i].file_id]
      BY <1>24 DEF DelSelectFileId
    <3>3. file_info[dealfile.file.md5][i].file_id \in Nat
      BY <3>1, FileInfoRowType
    <3>4. QED
      BY <1>24, <3>2, <3>3 DEF DelSelectFileId
  <2>3. QED
    BY <2>1, <2>2
<1>25. CASE DelDeleteFileInfo
  <2>1. StoreTypeOK'
    BY <1>25, DeleteFileInfoType DEF DelDeleteFileInfo
  <2>2. DealTypeOK' /\ DealLocals'
    BY <1>25 DEF DelDeleteFileInfo, DealGoes, DealReplies
  <2>3. QED
    BY <2>1, <2>2
<1>26. CASE DelRemoveBlob
  <2>1. StoreTypeOK'
    BY <1>26, RemoveBlobType DEF DelRemoveBlob
  <2>2. DealTypeOK' /\ DealLocals'
    BY <1>26 DEF DelRemoveBlob, DealGoes, DealReplies
  <2>3. QED
    BY <2>1, <2>2
<1>27. CASE PvMissing
  <2>1. StoreTypeOK'
    BY <1>27, UnchangedStoreType DEF PvMissing
  <2>2. DealTypeOK' /\ DealLocals'
    BY <1>27 DEF PvMissing, DealGoes, DealReplies
  <2>3. QED
    BY <2>1, <2>2
<1>28. CASE PvSelect
  <2>1. StoreTypeOK'
    BY <1>28, UnchangedStoreType DEF PvSelect
  <2>2. DealTypeOK' /\ DealLocals'
    <3>1. dealfile.user \in Users /\ dealfile.file \in Files
      BY <1>28 DEF PvSelect
    <3>2. PICK i \in DOMAIN user_file_list[dealfile.user][dealfile.file] :
           dealfile' = [dealfile EXCEPT !.pc = "pv: write",
             !.count = user_file_list[dealfile.user][dealfile.file][i].pv]
      BY <1>28 DEF PvSelect
    <3>3. user_file_list[dealfile.user][dealfile.file][i].pv \in Nat \cap Int
      BY <3>1, UserFileRowType, NatSteps, Zenon
    <3>4. QED
      BY <1>28, <3>2, <3>3 DEF PvSelect
  <2>3. QED
    BY <2>1, <2>2
<1>29. CASE PvWrite
  <2>1. StoreTypeOK'
    <3>1. dealfile.count \in Nat
      BY <1>29 DEF PvWrite
    <3>2. dealfile.count + 1 \in Nat
      BY <3>1, NatSteps, Zenon
    <3>3. dealfile.user \in Users /\ dealfile.file \in Files
      BY <1>29 DEF PvWrite
    <3>4. UpdateUserPv(dealfile.user, dealfile.file, dealfile.count + 1)
      BY <1>29 DEF PvWrite
    <3>5. QED
      BY <3>2, <3>3, <3>4, UpdateUserPvType
  <2>2. DealTypeOK' /\ DealLocals'
    BY <1>29 DEF PvWrite, DealGoes, DealReplies
  <2>3. QED
    BY <2>1, <2>2
<1>30. CASE DealReply
  <2>1. StoreTypeOK'
    BY <1>30, UnchangedStoreType DEF DealReply
  <2>2. DealTypeOK' /\ DealLocals'
    BY <1>30, DealIdleTyped DEF DealReply
  <2>3. QED
    BY <2>1, <2>2
<1>31. CASE DelHdelDies
  BY <1>31, UnchangedStoreType, DealIdleTyped DEF DelHdelDies
<1>32. CASE DelNoFileId \/ DelRemoveNothing
  <2>1. StoreTypeOK'
    BY <1>32, UnchangedStoreType DEF DelNoFileId, DelRemoveNothing
  <2>2. CASE DelNoFileId
    BY <2>1, <2>2 DEF DelNoFileId, DealReplies
  <2>3. CASE DelRemoveNothing
    BY <2>1, <2>3 DEF DelRemoveNothing, DealReplies
  <2>4. QED
    BY <1>32, <2>2, <2>3
<1>33. QED
  BY <1>1, <1>2, <1>3, <1>4, <1>5, <1>6, <1>7, <1>8, <1>9, <1>10, <1>11,
    <1>12, <1>13, <1>14, <1>15, <1>16, <1>17, <1>18, <1>19, <1>20, <1>21,
    <1>22, <1>23, <1>24, <1>25, <1>26, <1>27, <1>28, <1>29, <1>30, <1>31,
    <1>32 DEF DealStep, ShareStep, DelStep, PvStep

-----------------------------------------------------------------------------
(* dealsharefile *)

LEMMA DealShareStepTyped ==
  ASSUME StoreTypeOK, DealShareTypeOK, DealShareLocals, DealShareStep
  PROVE  StoreTypeOK' /\ DealShareTypeOK' /\ DealShareLocals'
<1> USE DEF DealShareTypeOK, DealShareLocals, DealShareSteps, SharePvSteps,
  CancelSteps, SaveSteps, DealShareCodes
<1>1. CASE SharePvMissing
  <2>1. StoreTypeOK'
    BY <1>1, UnchangedStoreType DEF SharePvMissing
  <2>2. DealShareTypeOK' /\ DealShareLocals'
    BY <1>1 DEF SharePvMissing, DealShareGoes, DealShareReplies
  <2>3. QED
    BY <2>1, <2>2
<1>2. CASE SharePvSelect
  <2>1. StoreTypeOK'
    BY <1>2, UnchangedStoreType DEF SharePvSelect
  <2>2. DealShareTypeOK' /\ DealShareLocals'
    <3>1. dealshare.file \in Files
      BY <1>2 DEF SharePvSelect
    <3>2. PICK u \in Users : \E i \in DOMAIN share_file_list[u][dealshare.file] :
           dealshare' = [dealshare EXCEPT !.pc = "pv: write",
             !.count = share_file_list[u][dealshare.file][i]]
      BY <1>2 DEF SharePvSelect
    <3>3. PICK i \in DOMAIN share_file_list[u][dealshare.file] :
           dealshare' = [dealshare EXCEPT !.pc = "pv: write",
             !.count = share_file_list[u][dealshare.file][i]]
      BY <3>2
    <3>4. share_file_list[u][dealshare.file][i] \in Nat \cap Int
      BY <3>1, ShareRowType, NatSteps, Zenon
    <3>5. QED
      BY <1>2, <3>3, <3>4 DEF SharePvSelect
  <2>3. QED
    BY <2>1, <2>2
<1>3. CASE SharePvWrite
  <2>1. StoreTypeOK'
    <3>1. dealshare.count \in Nat
      BY <1>3 DEF SharePvWrite
    <3>2. dealshare.count + 1 \in Nat
      BY <3>1, NatSteps, Zenon
    <3>3. dealshare.file \in Files
      BY <1>3 DEF SharePvWrite
    <3>4. UpdateSharePv(dealshare.file, dealshare.count + 1)
      BY <1>3 DEF SharePvWrite
    <3>5. QED
      BY <3>2, <3>3, <3>4, UpdateSharePvType
  <2>2. DealShareTypeOK' /\ DealShareLocals'
    BY <1>3 DEF SharePvWrite, DealShareGoes, DealShareReplies
  <2>3. QED
    BY <2>1, <2>2
<1>4. CASE SharePvZsetExit
  <2>1. StoreTypeOK'
    BY <1>4, UnchangedStoreType DEF SharePvZsetExit
  <2>2. DealShareTypeOK' /\ DealShareLocals'
    BY ZenonT(60), <1>4 DEF SharePvZsetExit, DealShareGoes, DealShareReplies
  <2>3. QED
    BY <2>1, <2>2
<1>5. CASE SharePvZincrby
  <2>1. StoreTypeOK'
    BY <1>5, ZincrbyType DEF SharePvZincrby
  <2>2. DealShareTypeOK' /\ DealShareLocals'
    BY <1>5 DEF SharePvZincrby, DealShareGoes, DealShareReplies
  <2>3. QED
    BY <2>1, <2>2
<1>6. CASE SharePvZadd
  <2>1. StoreTypeOK'
    <3>1. dealshare.count \in Nat
      BY <1>6 DEF SharePvZadd
    <3>2. dealshare.count + 1 \in Nat
      BY <3>1, NatSteps, Zenon
    <3>3. Zadd(dealshare.file, dealshare.count + 1)
      BY <1>6 DEF SharePvZadd
    <3>4. QED
      BY <3>2, <3>3, ZaddType
  <2>2. DealShareTypeOK' /\ DealShareLocals'
    BY <1>6 DEF SharePvZadd, DealShareGoes, DealShareReplies
  <2>3. QED
    BY <2>1, <2>2
<1>7. CASE SharePvHset
  <2>1. StoreTypeOK'
    BY <1>7, HsetType DEF SharePvHset
  <2>2. DealShareTypeOK' /\ DealShareLocals'
    BY <1>7 DEF SharePvHset, DealShareGoes, DealShareReplies
  <2>3. QED
    BY <2>1, <2>2
<1>8. CASE CancelMark
  <2>1. StoreTypeOK'
    BY <1>8, UpdateSharedType DEF CancelMark
  <2>2. DealShareTypeOK' /\ DealShareLocals'
    BY <1>8 DEF CancelMark, DealShareGoes, DealShareReplies
  <2>3. QED
    BY <2>1, <2>2
<1>9. CASE CancelSelectTotal
  <2>1. StoreTypeOK'
    BY <1>9, UnchangedStoreType DEF CancelSelectTotal
  <2>2. DealShareTypeOK' /\ DealShareLocals'
    <3>1. user_file_count[ShareTotal] \in Int \cup {None}
      BY <1>9, CountType DEF CancelSelectTotal, Counters
    <3>2. \/ dealshare' = [dealshare EXCEPT !.pc = "reply", !.code = "019"]
           \/ /\ user_file_count[ShareTotal] # None
              /\ dealshare' = [dealshare EXCEPT !.pc = "cancel: write total",
                             !.count = user_file_count[ShareTotal]]
      BY <1>9 DEF CancelSelectTotal, DealShareReplies
    <3>3. QED
      BY <1>9, <3>1, <3>2 DEF CancelSelectTotal
  <2>3. QED
    BY <2>1, <2>2
<1>10. CASE CancelDeleteTotal
  <2>1. StoreTypeOK'
    BY <1>10, DeleteCountType DEF CancelDeleteTotal
  <2>2. DealShareTypeOK' /\ DealShareLocals'
    BY <1>10 DEF CancelDeleteTotal, DealShareGoes, DealShareReplies
  <2>3. QED
    BY <2>1, <2>2
<1>11. CASE CancelCrashes
  <2>1. StoreTypeOK'
    BY <1>11, UnchangedStoreType DEF CancelCrashes
  <2>2. DealShareTypeOK' /\ DealShareLocals'
    BY <1>11 DEF CancelCrashes, DealShareGoes, DealShareReplies
  <2>3. QED
    BY <2>1, <2>2
<1>12. CASE CancelDeleteShare
  <2>1. StoreTypeOK'
    BY <1>12, DeleteShareType DEF CancelDeleteShare
  <2>2. DealShareTypeOK' /\ DealShareLocals'
    BY <1>12 DEF CancelDeleteShare, DealShareGoes, DealShareReplies
  <2>3. QED
    BY <2>1, <2>2
<1>13. CASE CancelZrem
  <2>1. StoreTypeOK'
    BY <1>13, ZremType DEF CancelZrem
  <2>2. DealShareTypeOK' /\ DealShareLocals'
    BY ZenonT(60), <1>13 DEF CancelZrem, DealShareGoes, DealShareReplies
  <2>3. QED
    BY <2>1, <2>2
<1>21. CASE CancelHdelDies
  <2>1. StoreTypeOK'
    BY <1>21, UnchangedStoreType DEF CancelHdelDies
  <2>2. DealShareTypeOK' /\ DealShareLocals'
    BY <1>21 DEF CancelHdelDies, DealShareGoes
  <2>3. QED
    BY <2>1, <2>2
<1>14. CASE CancelHdel
  <2>1. StoreTypeOK'
    BY <1>14, HdelType DEF CancelHdel
  <2>2. DealShareTypeOK' /\ DealShareLocals'
    BY <1>14 DEF CancelHdel, DealShareGoes, DealShareReplies
  <2>3. QED
    BY <2>1, <2>2
<1>15. CASE SaveSelectOwn
  <2>1. StoreTypeOK'
    BY <1>15, UnchangedStoreType DEF SaveSelectOwn
  <2>2. DealShareTypeOK' /\ DealShareLocals'
    BY ZenonT(60), <1>15 DEF SaveSelectOwn, DealShareGoes, DealShareReplies
  <2>3. QED
    BY <2>1, <2>2
<1>16. CASE SaveUnknown
  <2>1. StoreTypeOK'
    BY <1>16, UnchangedStoreType DEF SaveUnknown
  <2>2. DealShareTypeOK' /\ DealShareLocals'
    BY <1>16 DEF SaveUnknown, DealShareGoes, DealShareReplies
  <2>3. QED
    BY <2>1, <2>2
<1>17. CASE SaveSelectRefs
  <2>1. StoreTypeOK'
    BY <1>17, UnchangedStoreType DEF SaveSelectRefs
  <2>2. DealShareTypeOK' /\ DealShareLocals'
    <3>1. dealshare.file.md5 \in Md5s
      BY <1>17 DEF SaveSelectRefs, Files
    <3>2. PICK i \in DOMAIN file_info[dealshare.file.md5] :
           dealshare' = [dealshare EXCEPT !.pc = "save: write refs",
             !.count = file_info[dealshare.file.md5][i].count]
      BY <1>17 DEF SaveSelectRefs
    <3>3. file_info[dealshare.file.md5][i].count \in Int
      BY <3>1, FileInfoRowType
    <3>4. QED
      BY <1>17, <3>2, <3>3 DEF SaveSelectRefs
  <2>3. QED
    BY <2>1, <2>2
<1>18. CASE SaveWriteRefs
  <2>1. StoreTypeOK'
    BY <1>18, UnchangedStoreType DEF SaveWriteRefs
  <2>2. DealShareTypeOK' /\ DealShareLocals'
    BY ZenonT(60), <1>18 DEF SaveWriteRefs, DealShareGoes, DealShareReplies
  <2>3. QED
    BY <2>1, <2>2
<1>19. CASE DealShareReply
  <2>1. StoreTypeOK'
    BY <1>19, UnchangedStoreType DEF DealShareReply
  <2>2. DealShareTypeOK' /\ DealShareLocals'
    BY <1>19, DealShareIdleTyped DEF DealShareReply
  <2>3. QED
    BY <2>1, <2>2
<1>20. QED
  BY <1>1, <1>2, <1>3, <1>4, <1>5, <1>6, <1>7, <1>8, <1>9, <1>10, <1>11,
    <1>12, <1>13, <1>14, <1>15, <1>16, <1>17, <1>18, <1>19, <1>21 DEF
    DealShareStep, SharePvStep, CancelStep, SaveStep

-----------------------------------------------------------------------------
(* sharefiles *)

LEMMA ListingStepTyped ==
  ASSUME StoreTypeOK, ListingTypeOK, ListingLocals, ListingStep
  PROVE  StoreTypeOK' /\ ListingTypeOK' /\ ListingLocals'
<1> USE DEF ListingTypeOK, ListingLocals, ListingStates, ListingSteps
<1>1. CASE CountSelect
  <2>1. StoreTypeOK'
    BY <1>1, UnchangedStoreType DEF CountSelect
  <2>2. ListingTypeOK' /\ ListingLocals'
    <3> DEFINE n == IF user_file_count[ShareTotal] = None
                    THEN 0 ELSE user_file_count[ShareTotal]
    <3>1. n \in Int
      BY CountOrZero
    <3>2. listing' = [listing EXCEPT !.pc = "reply", !.code = "ok", !.total = n]
      BY <1>1 DEF CountSelect
    <3> HIDE DEF n
    <3>3. QED
      BY <1>1, <3>1, <3>2 DEF CountSelect
  <2>3. QED
    BY <2>1, <2>2
<1>2. CASE NormalSelect
  <2>1. StoreTypeOK'
    BY <1>2, UnchangedStoreType DEF NormalSelect
  <2>2. ListingTypeOK' /\ ListingLocals'
    BY <1>2 DEF NormalSelect
  <2>3. QED
    BY <2>1, <2>2
<1>3. CASE RankSelectTotal
  <2>1. StoreTypeOK'
    BY <1>3, UnchangedStoreType DEF RankSelectTotal
  <2>2. ListingTypeOK' /\ ListingLocals'
    <3>1. user_file_count[ShareTotal] \in Int \cup {None}
      BY <1>3, CountType DEF RankSelectTotal, Counters
    <3>2. \/ listing' = [listing EXCEPT !.pc = "reply", !.code = "015"]
           \/ /\ user_file_count[ShareTotal] # None
              /\ listing' = [listing EXCEPT !.pc = "rank: zcard",
                             !.total = user_file_count[ShareTotal]]
      BY <1>3 DEF RankSelectTotal, ListingReplies
    <3>3. QED
      BY <1>3, <3>1, <3>2 DEF RankSelectTotal
  <2>3. QED
    BY <2>1, <2>2
<1>4. CASE RankZcard
  <2>1. StoreTypeOK'
    BY <1>4, UnchangedStoreType DEF RankZcard
  <2>2. ListingTypeOK' /\ ListingLocals'
    BY <1>4 DEF RankZcard, ListingGoes, ListingReplies
  <2>3. QED
    BY <2>1, <2>2
<1>5. CASE RankDelZset
  <2>1. StoreTypeOK'
    BY <1>5, DelZsetType DEF RankDelZset
  <2>2. ListingTypeOK' /\ ListingLocals'
    BY <1>5 DEF RankDelZset, ListingGoes, ListingReplies
  <2>3. QED
    BY <2>1, <2>2
<1>6. CASE RankDelHash
  <2>1. StoreTypeOK'
    BY <1>6, DelHashType DEF RankDelHash
  <2>2. ListingTypeOK' /\ ListingLocals'
    BY <1>6 DEF RankDelHash, ListingGoes, ListingReplies
  <2>3. QED
    BY <2>1, <2>2
<1>7. CASE RankSelectShares
  <2>1. StoreTypeOK'
    BY <1>7, UnchangedStoreType DEF RankSelectShares
  <2>2. ListingTypeOK' /\ ListingLocals'
    <3>1. \/ listing' = [listing EXCEPT !.pc = "rank: zadd", !.rows = SharedRows]
           \/ listing' = [listing EXCEPT !.pc = "reply", !.code = "015"]
      BY <1>7 DEF RankSelectShares, ListingReplies
    <3>2. QED
      BY <1>7, <3>1, SharedRowsType DEF RankSelectShares
  <2>3. QED
    BY <2>1, <2>2
<1>8. CASE RankZadd
  <2>1. StoreTypeOK'
    <3>1. PICK row \in listing.rows : Zadd(row.file, row.pv)
      BY <1>8 DEF RankZadd
    <3>2. row.pv \in Nat
      BY <3>1 DEF ShareRows
    <3>3. QED
      BY <3>1, <3>2, ZaddType
  <2>2. ListingTypeOK' /\ ListingLocals'
    <3>1. PICK row \in listing.rows :
           listing' = [listing EXCEPT !.pc = "rank: hset", !.row = row.file,
                                      !.rows = @ \ {row}]
      BY <1>8 DEF RankZadd
    <3> DEFINE rest == listing.rows \ {row}
    <3>2. row.file \in Files
      BY <3>1 DEF ShareRows
    <3>3. rest \in SUBSET ShareRows
      OBVIOUS
    <3>4. listing' = [listing EXCEPT !.pc = "rank: hset", !.row = row.file,
                                     !.rows = rest]
      BY <3>1
    <3> HIDE DEF rest
    <3>5. QED
      BY <3>2, <3>3, <3>4
  <2>3. QED
    BY <2>1, <2>2
<1>9. CASE RankHset
  <2>1. StoreTypeOK'
    BY <1>9, HsetType DEF RankHset
  <2>2. ListingTypeOK' /\ ListingLocals'
    BY <1>9 DEF RankHset, ListingGoes, ListingReplies
  <2>3. QED
    BY <2>1, <2>2
<1>10. CASE RankZrevrange
  <2>1. StoreTypeOK'
    BY <1>10, UnchangedStoreType DEF RankZrevrange
  <2>2. ListingTypeOK' /\ ListingLocals'
    BY <1>10 DEF RankZrevrange, Ranked
  <2>3. QED
    BY <2>1, <2>2
<1>11. CASE RankHget
  <2>1. StoreTypeOK'
    BY <1>11, UnchangedStoreType DEF RankHget
  <2>2. ListingTypeOK' /\ ListingLocals'
    <3>1. \/ \E f \in Files :
                listing' = [listing EXCEPT !.pc = "rank: zscore", !.row = f]
           \/ listing' = [listing EXCEPT !.pc = "reply", !.code = "015"]
      BY <1>11 DEF RankHget, ListingReplies
    <3>2. QED
      BY ZenonT(60), <1>11, <3>1 DEF RankHget
  <2>3. QED
    BY <2>1, <2>2
<1>12. CASE RankZscore
  <2>1. StoreTypeOK'
    BY <1>12, UnchangedStoreType DEF RankZscore
  <2>2. ListingTypeOK' /\ ListingLocals'
    <3> DEFINE rest == listing.left \ {listing.row}
    <3> DEFINE more == listing.shown \cup {listing.row}
    <3>1. rest \in SUBSET Files /\ more \in SUBSET Files
      BY <1>12 DEF RankZscore
    <3>2. \/ listing' = [listing EXCEPT !.pc = "reply", !.code = "015"]
           \/ listing' = [listing EXCEPT !.left = rest, !.shown = more,
                             !.pc = "reply", !.code = "ok"]
           \/ listing' = [listing EXCEPT !.left = rest, !.shown = more,
                             !.pc = "rank: hget", !.code = ""]
      BY <1>12 DEF RankZscore, ListingReplies
    <3> HIDE DEF rest, more
    <3>3. QED
      BY ZenonT(60), <1>12, <3>1, <3>2 DEF RankZscore
  <2>3. QED
    BY <2>1, <2>2
<1>13. CASE ListingReply
  <2>1. StoreTypeOK'
    BY <1>13, UnchangedStoreType DEF ListingReply
  <2>2. ListingTypeOK' /\ ListingLocals'
    BY <1>13, ListingIdleTyped DEF ListingReply
  <2>3. QED
    BY <2>1, <2>2
<1>14. QED
  BY <1>1, <1>2, <1>3, <1>4, <1>5, <1>6, <1>7, <1>8, <1>9, <1>10, <1>11,
    <1>12, <1>13 DEF ListingStep, RankStep

-----------------------------------------------------------------------------
(* Requests and failed calls *)

LEMMA UploadAcceptTyped ==
  ASSUME NEW u \in Users, NEW f \in Files, UploadAccept(u, f)
  PROVE  UploadTypeOK' /\ UploadLocals'
BY DEF UploadAccept, UploadIdle, UploadTypeOK, UploadLocals, UploadSteps

LEMMA InstantAcceptTyped ==
  ASSUME NEW u \in Users, NEW f \in Files, InstantAccept(u, f)
  PROVE  InstantTypeOK' /\ InstantLocals'
BY DEF InstantAccept, InstantIdle, InstantTypeOK, InstantLocals, InstantSteps

LEMMA DealAcceptTyped ==
  ASSUME NEW u \in Users, NEW f \in Files,
         NEW cmd \in {"share", "del", "pv"}, DealAccept(cmd, u, f)
  PROVE  DealTypeOK' /\ DealLocals'
<1>1. PICK pc \in {"share: zset_exit", "del: zset_exit", "pv: select"} :
        dealfile' = [DealIdle EXCEPT !.pc = pc, !.cmd = cmd,
                                     !.user = u, !.file = f]
  BY DEF DealAccept
<1>2. QED
  BY <1>1 DEF DealIdle, DealTypeOK, DealLocals, DealSteps, ShareSteps,
              DelSteps, PvSteps

LEMMA DealShareAcceptTyped ==
  ASSUME NEW u \in Users, NEW f \in Files,
         NEW cmd \in {"pv", "cancel", "save"}, DealShareAccept(cmd, u, f)
  PROVE  DealShareTypeOK' /\ DealShareLocals'
<1>1. PICK pc \in {"pv: select", "cancel: mark", "save: select own"} :
        dealshare' = [DealShareIdle EXCEPT !.pc = pc, !.cmd = cmd,
                                           !.user = u, !.file = f]
  BY DEF DealShareAccept
<1>2. QED
  BY <1>1 DEF DealShareIdle, DealShareTypeOK, DealShareLocals,
              DealShareSteps, SharePvSteps, CancelSteps, SaveSteps

LEMMA ListingAcceptTyped ==
  ASSUME NEW cmd \in {"count", "normal", "pvdesc"}, ListingAccept(cmd)
  PROVE  ListingTypeOK' /\ ListingLocals'
<1>1. PICK pc \in {"count: select", "normal: select", "rank: select total"} :
        listing' = [ListingIdle EXCEPT !.pc = pc, !.cmd = cmd]
  BY DEF ListingAccept
<1>2. ASSUME NEW r \in ListingStates
      PROVE  [r EXCEPT !.pc = pc, !.cmd = cmd] \in ListingStates
  <2>1. pc \in ListingSteps
    BY DEF ListingSteps
  <2>2. [r EXCEPT !.pc = pc] \in ListingStates
    BY <2>1 DEF ListingStates
  <2>3. QED
    BY <2>2 DEF ListingStates
<1>3. listing' \in ListingStates
  BY <1>1, <1>2, ListingIdleState
<1>4. listing'.pc = pc
  BY <1>1 DEF ListingIdle
<1>5. QED
  BY <1>3, <1>4 DEF ListingTypeOK, ListingLocals

LEMMA UploadFailsTyped ==
  ASSUME UploadTypeOK, UploadLocals, UploadFails
  PROVE  UploadTypeOK' /\ UploadLocals'
BY DEF UploadFails, UploadReplies, UploadTypeOK, UploadLocals, UploadSteps

LEMMA InstantFailsTyped ==
  ASSUME InstantTypeOK, InstantLocals, InstantFails
  PROVE  InstantTypeOK' /\ InstantLocals'
BY DEF InstantFails, InstantReplies, InstantTypeOK, InstantLocals,
       InstantSteps

LEMMA DealFailsTyped ==
  ASSUME DealTypeOK, DealLocals, DealFails
  PROVE  DealTypeOK' /\ DealLocals'
<1>1. DealErrorCode \in DealCodes
  BY DEF DealErrorCode, DealCodes
<1>2. dealfile.pc # "idle"
  BY DEF DealFails, DealSteps, ShareSteps, DelSteps, PvSteps
<1>3. dealfile' = [dealfile EXCEPT !.pc = "reply", !.code = DealErrorCode]
  BY DEF DealFails, DealReplies
<1>4. QED
  BY <1>1, <1>2, <1>3 DEF DealTypeOK, DealLocals

LEMMA DealShareFailsTyped ==
  ASSUME DealShareTypeOK, DealShareLocals, DealShareFails
  PROVE  DealShareTypeOK' /\ DealShareLocals'
<1>1. DealShareErrorCode \in DealShareCodes
  BY DEF DealShareErrorCode, DealShareCodes
<1>2. dealshare.pc # "idle"
  BY DEF DealShareFails, DealShareSteps, SharePvSteps, CancelSteps, SaveSteps
<1>3. dealshare' = [dealshare EXCEPT !.pc = "reply",
                                     !.code = DealShareErrorCode]
  BY DEF DealShareFails, DealShareReplies
<1>4. QED
  BY <1>1, <1>2, <1>3 DEF DealShareTypeOK, DealShareLocals

LEMMA ListingFailsTyped ==
  ASSUME ListingTypeOK, ListingLocals, ListingFails
  PROVE  ListingTypeOK' /\ ListingLocals'
<1>1. \/ listing' = [listing EXCEPT !.pc = "reply", !.code = "015"]
      \/ listing' = [listing EXCEPT !.pc = "reply", !.code = "ok"]
      \/ \E alive \in BOOLEAN :
           listing' = [listing EXCEPT !.pc = "rank: zcard", !.mysql = alive]
  BY DEF ListingFails, ListingReplies, RankTotalMisread
<1>2. QED
  BY ZenonT(60), <1>1 DEF ListingTypeOK, ListingLocals, ListingStates, ListingSteps

(* A SELECT that is misread leaves a number where the statement after it   *)
(* needs one.                                                              *)

LEMMA UploadMisreadsTyped ==
  ASSUME UploadTypeOK, UploadLocals, UploadMisreads
  PROVE  UploadTypeOK' /\ UploadLocals'
<1>1. upload.pc = "select count"
  BY DEF UploadMisreads
<1>2. ASSUME NEW n \in Int,
             upload' = [upload EXCEPT !.pc = "write count", !.count = n]
      PROVE  UploadTypeOK' /\ UploadLocals'
  BY <1>1, <1>2 DEF UploadTypeOK, UploadLocals, UploadSteps
<1>3. CASE upload' = [upload EXCEPT !.pc = "reply", !.code = "008"]
  BY <1>1, <1>3 DEF UploadTypeOK, UploadLocals, UploadSteps
<1>4. QED
  BY Zenon, <1>2, <1>3, ZeroNumber DEF UploadMisreads, UploadReplies

LEMMA InstantMisreadsTyped ==
  ASSUME InstantTypeOK, InstantLocals, InstantMisreads
  PROVE  InstantTypeOK' /\ InstantLocals'
<1>1. \/ /\ instant.pc = "select refs"
         /\ instant' = [instant EXCEPT !.pc = "select own", !.count = 0]
      \/ /\ instant.pc = "select refs"
         /\ instant' = [instant EXCEPT !.pc = "reply", !.code = "006"]
      \/ /\ instant.pc = "select own"
         /\ instant' = [instant EXCEPT !.pc = "write refs"]
      \/ /\ instant.pc = "select count"
         /\ instant' = [instant EXCEPT !.pc = "write count"]
  BY DEF InstantMisreads, InstantReplies
<1>2. ASSUME NEW pc \in {"select own", "write refs", "write count"},
             instant.pc # "idle", instant' = [instant EXCEPT !.pc = pc],
             instant.count \in Int \/ pc = "write count"
      PROVE  InstantTypeOK' /\ InstantLocals'
  BY <1>2 DEF InstantTypeOK, InstantLocals, InstantSteps
<1>3. ASSUME NEW n \in Int, instant.pc = "select refs",
             instant' = [instant EXCEPT !.pc = "select own", !.count = n]
      PROVE  InstantTypeOK' /\ InstantLocals'
  BY <1>3 DEF InstantTypeOK, InstantLocals, InstantSteps
<1>4. CASE /\ instant.pc = "select refs"
           /\ instant' = [instant EXCEPT !.pc = "reply", !.code = "006"]
  BY <1>4 DEF InstantTypeOK, InstantLocals, InstantSteps
<1>5. CASE /\ instant.pc = "select own"
           /\ instant' = [instant EXCEPT !.pc = "write refs"]
  BY <1>2, <1>5 DEF InstantLocals
<1>6. CASE /\ instant.pc = "select count"
           /\ instant' = [instant EXCEPT !.pc = "write count"]
  BY <1>2, <1>6
<1>7. QED
  BY Zenon, <1>1, <1>3, <1>4, <1>5, <1>6, ZeroNumber

LEMMA DealMisreadsTyped ==
  ASSUME DealTypeOK, DealLocals, DealMisreads
  PROVE  DealTypeOK' /\ DealLocals'
<1> USE DEF DealTypeOK, DealLocals, DealSteps, ShareSteps, DelSteps, PvSteps
<1>1. Atoi(dealfile.count) \in Int /\ Atoi(dealfile.count) - 1 \in Int
  BY AtoiType
<1>2. CASE ShareMisreads
  <2>1. \/ /\ dealfile.pc = "share: select"
           /\ dealfile' = [dealfile EXCEPT !.pc = "share: mark"]
        \/ /\ dealfile.pc = "share: select total"
           /\ dealfile' = [dealfile EXCEPT !.pc = "share: write total",
                                           !.count = 0]
        \/ /\ dealfile.pc = "share: select total"
           /\ dealfile' = [dealfile EXCEPT !.pc = "share: zadd"]
    BY <1>2 DEF ShareMisreads, DealGoes
  <2>2. ASSUME NEW n \in Int, dealfile.pc = "share: select total",
               dealfile' = [dealfile EXCEPT !.pc = "share: write total",
                                            !.count = n]
        PROVE  DealTypeOK' /\ DealLocals'
    BY <2>2
  <2>3. ASSUME NEW pc \in {"share: mark", "share: zadd"},
               dealfile.pc # "idle", dealfile' = [dealfile EXCEPT !.pc = pc]
        PROVE  DealTypeOK' /\ DealLocals'
    BY <2>3
  <2>4. CASE dealfile.pc = "share: select total"
    BY Zenon, <2>1, <2>2, <2>3, <2>4, ZeroNumber
  <2>5. QED
    BY <2>1, <2>3, <2>4
<1>3. CASE DelMisreads
  <2>1. \/ /\ dealfile.pc = "del: select status"
           /\ dealfile' = [dealfile EXCEPT !.pc = "del: select count"]
        \/ /\ dealfile.pc = "del: select file_id"
           /\ dealfile' = [dealfile EXCEPT !.pc = "del: delete file_info",
                                           !.id = 0]
        \/ /\ dealfile.pc \in {"del: select total", "del: select count",
                                "del: select refs"}
           /\ \E pc \in {"del: write total", "del: write count",
                         "del: write refs"}, n \in Int :
                dealfile' = [dealfile EXCEPT !.pc = pc, !.count = n]
    BY <1>1, <1>3 DEF DelMisreads, DealGoes
  <2>2. CASE /\ dealfile.pc = "del: select status"
             /\ dealfile' = [dealfile EXCEPT !.pc = "del: select count"]
    BY <2>2
  <2>3. CASE /\ dealfile.pc = "del: select file_id"
             /\ dealfile' = [dealfile EXCEPT !.pc = "del: delete file_info",
                                             !.id = 0]
    BY <2>3
  <2>4. ASSUME NEW pc \in {"del: write total", "del: write count",
                           "del: write refs"},
               NEW n \in Int,
               dealfile.pc # "idle",
               dealfile' = [dealfile EXCEPT !.pc = pc, !.count = n]
        PROVE  DealTypeOK' /\ DealLocals'
    BY <2>4
  <2>5. CASE /\ dealfile.pc \in {"del: select total", "del: select count",
                                 "del: select refs"}
             /\ \E pc \in {"del: write total", "del: write count",
                           "del: write refs"}, n \in Int :
                  dealfile' = [dealfile EXCEPT !.pc = pc, !.count = n]
    BY <2>4, <2>5
  <2>6. QED
    BY <2>1, <2>2, <2>3, <2>5
<1>4. CASE PvMisreads
  <2>1. ASSUME NEW n \in Nat, n \in Int, dealfile.pc = "pv: select",
               dealfile' = [dealfile EXCEPT !.pc = "pv: write", !.count = n]
        PROVE  DealTypeOK' /\ DealLocals'
    BY <2>1
  <2>2. QED
    BY Zenon, <1>4, <2>1, ZeroNumber DEF PvMisreads
<1>5. QED
  BY <1>2, <1>3, <1>4 DEF DealMisreads

LEMMA DealShareMisreadsTyped ==
  ASSUME DealShareTypeOK, DealShareLocals, DealShareMisreads
  PROVE  DealShareTypeOK' /\ DealShareLocals'
<1>1. /\ dealshare.pc \in {"pv: select", "cancel: select total",
                           "save: select own", "save: select refs"}
      /\ \/ \E pc \in {"pv: write", "cancel: write total",
                        "save: write refs"} :
              dealshare' = [dealshare EXCEPT !.pc = pc, !.count = 0]
         \/ dealshare' = [dealshare EXCEPT !.pc = "save: select refs"]
  BY DEF DealShareMisreads, DealShareGoes
<1>2. ASSUME NEW pc \in {"pv: write", "cancel: write total",
                        "save: write refs"},
             NEW n \in Nat, n \in Int, dealshare.pc # "idle",
             dealshare' = [dealshare EXCEPT !.pc = pc, !.count = n]
      PROVE  DealShareTypeOK' /\ DealShareLocals'
  BY <1>2 DEF DealShareTypeOK, DealShareLocals, DealShareSteps, SharePvSteps,
    CancelSteps, SaveSteps
<1>3. CASE /\ dealshare.pc # "idle"
           /\ dealshare' = [dealshare EXCEPT !.pc = "save: select refs"]
  BY <1>3 DEF DealShareTypeOK, DealShareLocals, DealShareSteps, SharePvSteps,
    CancelSteps, SaveSteps
<1>4. QED
  BY Zenon, <1>1, <1>2, <1>3, ZeroNumber

-----------------------------------------------------------------------------
(* The composition *)

LEMMA InitTyped == Init => Typed
<1> SUFFICES ASSUME Init PROVE Typed
  OBVIOUS
<1>1. StoreTypeOK
  <2>1. <<>> \in Seq(FileInfoRows) /\ <<>> \in Seq(UserFileRows)
          /\ <<>> \in Seq(Nat)
    BY EmptySeq
  <2>2. QED
    BY <2>1 DEF Init, StoreInit, StoreTypeOK
<1>2. UploadTypeOK /\ UploadLocals
  BY DEF Init, UploadIdle, UploadTypeOK, UploadLocals
<1>3. InstantTypeOK /\ InstantLocals
  BY DEF Init, InstantIdle, InstantTypeOK, InstantLocals
<1>4. DealTypeOK /\ DealLocals
  BY DEF Init, DealIdle, DealTypeOK, DealLocals
<1>5. DealShareTypeOK /\ DealShareLocals
  BY DEF Init, DealShareIdle, DealShareTypeOK, DealShareLocals
<1>6. ListingTypeOK /\ ListingLocals
  <2>1. listing \in ListingStates
    BY ListingIdleState DEF Init
  <2>2. listing.pc = "idle"
    BY DEF Init, ListingIdle
  <2>3. QED
    BY <2>1, <2>2 DEF ListingTypeOK, ListingLocals
<1>7. accepted \in Nat /\ faults \in Nat /\ misread \subseteq Users \cup Files
  BY DEF Init
<1>8. QED
  BY <1>1, <1>2, <1>3, <1>4, <1>5, <1>6, <1>7 DEF Typed, TypeOK

LEMMA UploadSame ==
  ASSUME UploadTypeOK, UploadLocals, UNCHANGED upload
  PROVE  UploadTypeOK' /\ UploadLocals'
BY DEF UploadTypeOK, UploadLocals

LEMMA InstantSame ==
  ASSUME InstantTypeOK, InstantLocals, UNCHANGED instant
  PROVE  InstantTypeOK' /\ InstantLocals'
BY DEF InstantTypeOK, InstantLocals

LEMMA DealSame ==
  ASSUME DealTypeOK, DealLocals, UNCHANGED dealfile
  PROVE  DealTypeOK' /\ DealLocals'
BY DEF DealTypeOK, DealLocals

LEMMA DealShareSame ==
  ASSUME DealShareTypeOK, DealShareLocals, UNCHANGED dealshare
  PROVE  DealShareTypeOK' /\ DealShareLocals'
BY DEF DealShareTypeOK, DealShareLocals

LEMMA ListingSame ==
  ASSUME ListingTypeOK, ListingLocals, UNCHANGED listing
  PROVE  ListingTypeOK' /\ ListingLocals'
BY DEF ListingTypeOK, ListingLocals

LEMMA BoundsTyped ==
  ASSUME accepted \in Nat, faults \in Nat, Next
  PROVE  accepted' \in Nat /\ faults' \in Nat
<1>1. CASE Ask
  <2>1. PICK cmd : Admits(cmd)
    BY <1>1 DEF Ask, AskUpload, AskInstant, AskDeal, AskSharePv, AskCancel,
                AskSave, AskListing
  <2>2. accepted' = accepted + 1 /\ faults' = faults
    BY <2>1 DEF Admits
  <2>3. QED
    BY <2>2
<1>2. CASE CallFails \/ Misreads \/ Killed
  BY <1>2 DEF CallFails, Misreads, Killed, Faulty
<1>3. CASE UNCHANGED boundVars
  BY <1>3 DEF boundVars
<1>4. QED
  BY <1>1, <1>2, <1>3 DEF Next, UploadRuns, InstantRuns, DealRuns,
    DealShareRuns, ListingRuns, Revived, Done, vars

(* A SELECT that is misread is about a user or about a file, and goes into *)
(* the history, from which nothing disappears.                             *)
LEMMA MisreadsRecorded ==
  ASSUME Misreads
  PROVE  UNCHANGED storeVars /\ UNCHANGED listing /\ misread \subseteq misread'
BY DEF Misreads, UploadMisreads, InstantMisreads, DealMisreads,
  ShareMisreads, DelMisreads, PvMisreads, DealShareMisreads, Missed

LEMMA MisreadTyped ==
  ASSUME Typed, Next
  PROVE  misread' \subseteq Users \cup Files
<1> USE DEF Typed, TypeOK
<1>1. CASE Misreads
  <2>1. \/ UNCHANGED misread
        \/ UploadMisreads  /\ misread' = misread \cup {upload.user}
        \/ InstantMisreads /\ misread' = misread \cup {instant.user}
        \/ DealMisreads    /\ misread' = misread \cup {dealfile.user}
        \/ DealMisreads    /\ misread' = misread \cup {dealfile.file}
    BY <1>1 DEF Misreads, UploadMisreads, InstantMisreads, DealMisreads,
      ShareMisreads, DelMisreads, PvMisreads, DealShareMisreads, Missed
  <2>2. UploadMisreads => upload.user \in Users
    BY DEF UploadMisreads, UploadLocals
  <2>3. InstantMisreads => instant.user \in Users
    BY DEF InstantMisreads, InstantLocals
  <2>4. DealMisreads => dealfile.user \in Users /\ dealfile.file \in Files
    BY DEF DealMisreads, ShareMisreads, DelMisreads, PvMisreads, DealLocals
  <2>5. QED
    BY <2>1, <2>2, <2>3, <2>4
<1>2. CASE UNCHANGED misread
  BY <1>2
<1>3. QED
  BY <1>1, <1>2 DEF Next, Ask, AskUpload, AskInstant, AskDeal, AskSharePv,
    AskCancel, AskSave, AskListing, Admits, UploadRuns, InstantRuns,
    DealRuns, DealShareRuns, ListingRuns, CallFails, Killed, Revived, Done,
    vars, boundVars

(* What a step of the whole system is to one program. *)

LEMMA UploadMoves ==
  ASSUME Next
  PROVE  \/ UNCHANGED upload
         \/ UploadStep
         \/ UploadFails
         \/ UploadMisreads
         \/ \E u \in Users, f \in Files : UploadAccept(u, f)
         \/ upload' = UploadIdle
BY DEF Next, Ask, AskUpload, AskInstant, AskDeal, AskSharePv, AskCancel, AskSave,
       AskListing, UploadRuns, InstantRuns, DealRuns, DealShareRuns,
       ListingRuns, CallFails, Misreads, Killed, Revived, Done, vars, programVars

LEMMA InstantMoves ==
  ASSUME Next
  PROVE  \/ UNCHANGED instant
         \/ InstantStep
         \/ InstantFails
         \/ InstantMisreads
         \/ \E u \in Users, f \in Files : InstantAccept(u, f)
         \/ instant' = InstantIdle
BY DEF Next, Ask, AskUpload, AskInstant, AskDeal, AskSharePv, AskCancel, AskSave,
       AskListing, UploadRuns, InstantRuns, DealRuns, DealShareRuns,
       ListingRuns, CallFails, Misreads, Killed, Revived, Done, vars, programVars

LEMMA DealMoves ==
  ASSUME Next
  PROVE  \/ UNCHANGED dealfile
         \/ DealStep
         \/ DealFails
         \/ DealMisreads
         \/ \E u \in Users, f \in Files, cmd \in {"share", "del", "pv"} :
              DealAccept(cmd, u, f)
         \/ dealfile' = DealIdle
BY DEF Next, Ask, AskUpload, AskInstant, AskDeal, AskSharePv, AskCancel, AskSave,
       AskListing, UploadRuns, InstantRuns, DealRuns, DealShareRuns,
       ListingRuns, CallFails, Misreads, Killed, Revived, Done, vars, programVars

LEMMA DealShareMoves ==
  ASSUME Next
  PROVE  \/ UNCHANGED dealshare
         \/ DealShareStep
         \/ DealShareFails
         \/ DealShareMisreads
         \/ \E u \in Users, f \in Files, cmd \in {"pv", "cancel", "save"} :
              DealShareAccept(cmd, u, f)
         \/ dealshare' = DealShareIdle
BY DEF Next, Ask, AskUpload, AskInstant, AskDeal, AskSharePv, AskCancel, AskSave,
       AskListing, UploadRuns, InstantRuns, DealRuns, DealShareRuns,
       ListingRuns, CallFails, Misreads, Killed, Revived, Done, vars, programVars

LEMMA ListingMoves ==
  ASSUME Next
  PROVE  \/ UNCHANGED listing
         \/ ListingStep
         \/ ListingFails
         \/ \E cmd \in {"count", "normal", "pvdesc"} : ListingAccept(cmd)
         \/ listing' = ListingIdle
BY DEF Next, Ask, AskUpload, AskInstant, AskDeal, AskSharePv, AskCancel, AskSave,
       AskListing, UploadRuns, InstantRuns, DealRuns, DealShareRuns,
       ListingRuns, CallFails, Misreads, Killed, Revived, Done, vars, programVars

(* What it is to the stores: a statement of one of the programs, or        *)
(* nothing; then a program whose record changes is at the beginning or at  *)
(* the end of a request.                                                   *)

AtEdge ==
  /\ \/ UNCHANGED upload
     \/ upload'.pc \in {"idle", "store blob", "reply"}
  /\ \/ UNCHANGED instant
     \/ instant'.pc \in {"idle", "select refs", "reply"}
  /\ \/ UNCHANGED dealfile
     \/ dealfile'.pc \in {"idle", "share: zset_exit", "del: zset_exit",
                          "pv: select", "reply"}

LEMMA IdlePcs ==
  UploadIdle.pc = "idle" /\ InstantIdle.pc = "idle" /\ DealIdle.pc = "idle"
<1>1. UploadIdle.pc = "idle"
  BY DEF UploadIdle
<1>2. InstantIdle.pc = "idle"
  BY DEF InstantIdle
<1>3. DealIdle.pc = "idle"
  BY DEF DealIdle
<1>4. QED
  BY <1>1, <1>2, <1>3

LEMMA SystemMoves ==
  ASSUME Typed, [Next]_vars
  PROVE  \/ /\ UploadStep
            /\ UNCHANGED <<instant, dealfile, dealshare, listing, misread>>
         \/ /\ InstantStep
            /\ UNCHANGED <<upload, dealfile, dealshare, listing, misread>>
         \/ /\ DealStep
            /\ UNCHANGED <<upload, instant, dealshare, listing, misread>>
         \/ /\ DealShareStep
            /\ UNCHANGED <<upload, instant, dealfile, listing, misread>>
         \/ /\ ListingStep
            /\ UNCHANGED <<upload, instant, dealfile, dealshare, misread>>
         \/ UNCHANGED <<storeVars, misread>> /\ AtEdge
         \/ Misreads
<1>1. CASE Ask
  <2>1. CASE \E u \in Users, f \in Files : AskUpload(u, f)
    BY <2>1 DEF AskUpload, Admits, UploadAccept, UploadIdle, AtEdge
  <2>2. CASE \E u \in Users, f \in Files : AskInstant(u, f)
    BY <2>2 DEF AskInstant, Admits, InstantAccept, InstantIdle, AtEdge
  <2>3. CASE \E u \in Users, f \in Files, cmd \in {"share", "del", "pv"} :
               AskDeal(cmd, u, f)
    BY ZenonT(60), <2>3 DEF AskDeal, Admits, DealAccept, DealIdle, AtEdge
  <2>4. CASE \E u \in Users, f \in Files :
               AskSharePv(u, f) \/ AskCancel(u, f) \/ AskSave(u, f)
    BY <2>4 DEF AskSharePv, AskCancel, AskSave, Admits, DealShareAccept, AtEdge
  <2>5. CASE \E cmd : AskListing(cmd)
    BY <2>5 DEF AskListing, Admits, ListingAccept, AtEdge
  <2>6. QED
    BY <1>1, <2>1, <2>2, <2>3, <2>4, <2>5 DEF Ask
<1>2. CASE CallFails
  <2>1. UNCHANGED <<storeVars, misread>>
    BY <1>2 DEF CallFails, UploadFails, InstantFails, DealFails,
      DealShareFails, ListingFails, RankTotalMisread
  <2>2. UNCHANGED upload \/ upload'.pc = "reply"
    BY <1>2 DEF CallFails, UploadFails, UploadReplies, UploadTypeOK, Typed,
      TypeOK
  <2>3. UNCHANGED instant \/ instant'.pc = "reply"
    BY <1>2 DEF CallFails, InstantFails, InstantReplies, InstantTypeOK,
      Typed, TypeOK
  <2>4. UNCHANGED dealfile \/ dealfile'.pc = "reply"
    BY <1>2 DEF CallFails, DealFails, DealReplies, DealTypeOK, Typed, TypeOK
  <2>5. QED
    BY <2>1, <2>2, <2>3, <2>4 DEF AtEdge
<1>3. CASE Killed
  <2>1. UNCHANGED <<storeVars, misread>>
    BY <1>3 DEF Killed
  <2>2. UNCHANGED upload \/ upload' = UploadIdle
    BY <1>3 DEF Killed
  <2>3. UNCHANGED instant \/ instant' = InstantIdle
    BY <1>3 DEF Killed
  <2>4. UNCHANGED dealfile \/ dealfile' = DealIdle
    BY <1>3 DEF Killed
  <2>5. QED
    BY <2>1, <2>2, <2>3, <2>4, IdlePcs DEF AtEdge
<1>4. CASE UNCHANGED <<storeVars, upload, instant, dealfile, misread>>
  BY <1>4 DEF AtEdge
<1>5. QED
  BY <1>1, <1>2, <1>3, <1>4 DEF Next, UploadRuns, InstantRuns, DealRuns,
    DealShareRuns, ListingRuns, Revived, Done, vars, programVars, boundVars

LEMMA NextTyped == Typed /\ [Next]_vars => Typed'
<1> SUFFICES ASSUME Typed, [Next]_vars PROVE Typed'
  OBVIOUS
<1>1. CASE UNCHANGED vars
  <2>1. StoreTypeOK'
    BY <1>1, UnchangedStoreType DEF Typed, TypeOK, vars
  <2>2. /\ accepted' \in Nat /\ faults' \in Nat
        /\ misread' \subseteq Users \cup Files
    BY <1>1 DEF Typed, TypeOK, vars, boundVars
  <2>3. QED
    BY <1>1, <2>1, <2>2, UploadSame, InstantSame, DealSame, DealShareSame,
       ListingSame DEF Typed, TypeOK, vars, programVars
<1>2. CASE Next
  <2>1. StoreTypeOK'
    BY <1>2, SystemMoves, MisreadsRecorded, UnchangedStoreType,
       UploadStepTyped, InstantStepTyped, DealStepTyped, DealShareStepTyped,
       ListingStepTyped DEF Typed, TypeOK
  <2>2. UploadTypeOK' /\ UploadLocals'
    BY <1>2, UploadMoves, UploadSame, UploadStepTyped, UploadFailsTyped,
       UploadMisreadsTyped, UploadAcceptTyped, UploadIdleTyped DEF Typed, TypeOK
  <2>3. InstantTypeOK' /\ InstantLocals'
    BY <1>2, InstantMoves, InstantSame, InstantStepTyped, InstantFailsTyped,
       InstantMisreadsTyped, InstantAcceptTyped, InstantIdleTyped DEF Typed, TypeOK
  <2>4. DealTypeOK' /\ DealLocals'
    BY <1>2, DealMoves, DealSame, DealStepTyped, DealFailsTyped,
       DealMisreadsTyped, DealAcceptTyped, DealIdleTyped DEF Typed, TypeOK
  <2>5. DealShareTypeOK' /\ DealShareLocals'
    BY <1>2, DealShareMoves, DealShareSame, DealShareStepTyped,
       DealShareFailsTyped, DealShareMisreadsTyped, DealShareAcceptTyped,
       DealShareIdleTyped
       DEF Typed, TypeOK
  <2>6. ListingTypeOK' /\ ListingLocals'
    BY <1>2, ListingMoves, ListingSame, ListingStepTyped,
       ListingFailsTyped, ListingAcceptTyped, ListingIdleTyped
       DEF Typed, TypeOK
  <2>7. /\ accepted' \in Nat /\ faults' \in Nat
        /\ misread' \subseteq Users \cup Files
    BY <1>2, BoundsTyped, MisreadTyped DEF Typed, TypeOK
  <2>8. QED
    BY <2>1, <2>2, <2>3, <2>4, <2>5, <2>6, <2>7 DEF Typed, TypeOK
<1>3. QED
  BY <1>1, <1>2

LEMMA AlwaysTyped == Spec => []Typed
<1>1. QED
  BY InitTyped, NextTyped, PTL DEF Spec

(* Whatever users, files and requests there are, and whichever calls fail, *)
(* the tables keep their columns' types and no handler computes with a     *)
(* local that no statement has set: the counters it writes back are        *)
(* numbers and the rows it writes belong to a registered user and a file.  *)
THEOREM TypeCorrect == Spec => []TypeOK
<1>1. Typed => TypeOK
  BY DEF Typed
<1>2. QED
  BY <1>1, AlwaysTyped, PTL
=============================================================================
