-------------------------- MODULE CloudDiskProofs --------------------------
(***************************************************************************)
(* Safety of CloudDisk for all values of its constants: the inductive      *)
(* invariants behind CountsPositive, OneShareRowPerFile, DriftWithinFaults *)
(* and SharedIsRanked.  Each of them says what a program in the middle of  *)
(* a request has read, decided or still to do, so that its next statement  *)
(* is safe whatever the other programs wrote in between.                   *)
(***************************************************************************)
EXTENDS CloudDiskTypes, FiniteSetTheorems

-----------------------------------------------------------------------------
(* The counters *)

(* A count that a program read and is about to write back was positive,    *)
(* unless the SELECT failed, which puts the user into the history.         *)
CountsInv ==
  /\ CountsPositive
  /\ upload.pc = "write count" /\ upload.user \notin misread =>
       upload.count = None \/ upload.count >= 1
  /\ instant.pc = "write count" /\ instant.user \notin misread =>
       instant.count = None \/ instant.count >= 1
  /\ dealfile.pc = "del: write count" /\ dealfile.user \notin misread =>
       dealfile.count >= 1

LEMMA SetCountPositive ==
  ASSUME StoreTypeOK, CountsPositive, NEW c, NEW n,
         c \in Users \ misread => n = None \/ (n \in Int /\ n >= 1),
         SetCount(c, n), UNCHANGED misread
  PROVE  CountsPositive'
<1> SUFFICES ASSUME NEW u \in Users \ misread, user_file_count'[u] # None
             PROVE  user_file_count'[u] >= 1
  BY DEF CountsPositive
<1>1. u \in DOMAIN user_file_count
  BY DEF StoreTypeOK, Counters
<1>2. CASE u = c
  BY <1>1, <1>2 DEF SetCount
<1>3. CASE u # c
  <2>1. user_file_count'[u] = user_file_count[u]
    BY <1>1, <1>3 DEF SetCount
  <2>2. QED
    BY <2>1 DEF CountsPositive
<1>4. QED
  BY <1>2, <1>3

LEMMA IncrementPositive ==
  ASSUME StoreTypeOK, CountsPositive, NEW c, NEW read,
         c \in Users \ misread => read = None \/ (read \in Int /\ read >= 1),
         IncrementCount(c, read), UNCHANGED misread
  PROVE  CountsPositive'
<1>1. CASE read # None
  <2>1. c \in Users \ misread => read + 1 \in Int /\ read + 1 >= 1
    BY <1>1
  <2>2. UpdateCount(c, read + 1)
    BY <1>1 DEF IncrementCount
  <2>3. QED
    BY <2>1, <2>2, SetCountPositive DEF UpdateCount
<1>2. CASE read = None /\ IncrementFails(c, read)
  BY <1>2 DEF IncrementCount, CountsPositive, storeVars, mysqlVars
<1>3. CASE read = None /\ ~IncrementFails(c, read)
  BY <1>3, SetCountPositive DEF IncrementCount
<1>4. QED
  BY <1>1, <1>2, <1>3

LEMMA CountRead ==
  ASSUME StoreTypeOK, CountsPositive, NEW u \in Users \ misread
  PROVE  \/ user_file_count[u] = None
         \/ user_file_count[u] \in Int /\ user_file_count[u] >= 1
BY CountType DEF CountsPositive, Counters

LEMMA UploadKeepsCounts ==
  ASSUME Typed, CountsInv, UploadStep,
         UNCHANGED <<instant, dealfile, misread>>
  PROVE  CountsInv'
<1> USE DEF Typed, TypeOK
<1>1. CASE UploadSelectCount
  <2>1. /\ user_file_count' = user_file_count
        /\ upload'.pc = "write count"
        /\ upload'.count = user_file_count[upload.user]
        /\ upload'.user = upload.user
    BY <1>1 DEF UploadSelectCount, UploadTypeOK, storeVars, mysqlVars
  <2>2. upload.user \in Users
    BY <1>1 DEF UploadSelectCount, UploadLocals
  <2>3. upload.user \notin misread =>
          upload'.count = None \/ upload'.count >= 1
    BY <2>1, <2>2, CountRead DEF CountsInv
  <2>4. QED
    BY <2>1, <2>3 DEF CountsInv, CountsPositive
<1>2. CASE UploadWriteCount
  <2>1. upload.user \notin misread =>
          upload.count = None \/ (upload.count \in Int /\ upload.count >= 1)
    BY <1>2 DEF UploadWriteCount, UploadTypeOK, CountsInv
  <2>2. CountsPositive'
    BY <1>2, <2>1, IncrementPositive DEF UploadWriteCount, CountsInv
  <2>3. upload'.pc = "reply"
    BY <1>2 DEF UploadWriteCount, UploadReplies, UploadTypeOK
  <2>4. QED
    BY <2>2, <2>3 DEF CountsInv
<1>3. CASE UploadStoreBlob \/ UploadInsertFileInfo \/ UploadInsertUserFile
             \/ UploadReply
  <2>1. user_file_count' = user_file_count
    BY <1>3 DEF UploadStoreBlob, UploadInsertFileInfo, UploadInsertUserFile,
      UploadReply, StoreBlob, InsertFileInfo, InsertUserFile, SetUserRows,
      storeVars, mysqlVars
  <2>2. upload'.pc # "write count"
    <3>1. CASE UploadReply
      BY <3>1 DEF UploadReply, UploadIdle
    <3>2. CASE ~UploadReply
      BY <1>3, <3>2 DEF UploadStoreBlob, UploadInsertFileInfo,
        UploadInsertUserFile, UploadTypeOK
    <3>3. QED
      BY <3>1, <3>2
  <2>3. QED
    BY <2>1, <2>2 DEF CountsInv, CountsPositive
<1>4. QED
  BY <1>1, <1>2, <1>3 DEF UploadStep

LEMMA InstantKeepsCounts ==
  ASSUME Typed, CountsInv, InstantStep,
         UNCHANGED <<upload, dealfile, misread>>
  PROVE  CountsInv'
<1> USE DEF Typed, TypeOK
<1>1. CASE InstantSelectCount
  <2>1. /\ user_file_count' = user_file_count
        /\ instant'.pc = "write count"
        /\ instant'.count = user_file_count[instant.user]
        /\ instant'.user = instant.user
    BY <1>1 DEF InstantSelectCount, InstantTypeOK, storeVars, mysqlVars
  <2>2. instant.user \in Users
    BY <1>1 DEF InstantSelectCount, InstantLocals
  <2>3. instant.user \notin misread =>
          instant'.count = None \/ instant'.count >= 1
    BY <2>1, <2>2, CountRead DEF CountsInv
  <2>4. QED
    BY <2>1, <2>3 DEF CountsInv, CountsPositive
<1>2. CASE InstantWriteCount
  <2>1. instant.user \notin misread =>
          instant.count = None
            \/ (instant.count \in Int /\ instant.count >= 1)
    BY <1>2 DEF InstantWriteCount, InstantTypeOK, CountsInv
  <2>2. CountsPositive'
    BY <1>2, <2>1, IncrementPositive DEF InstantWriteCount, CountsInv
  <2>3. instant'.pc = "reply"
    BY <1>2 DEF InstantWriteCount, InstantReplies, InstantTypeOK
  <2>4. QED
    BY <2>2, <2>3 DEF CountsInv
<1>3. CASE InstantUnknown \/ InstantSelectRefs \/ InstantSelectOwn
             \/ InstantWriteRefs \/ InstantInsertUserFile \/ InstantReply
  <2>1. user_file_count' = user_file_count
    BY <1>3 DEF InstantUnknown, InstantSelectRefs, InstantSelectOwn,
      InstantWriteRefs, InstantInsertUserFile, InstantReply, UpdateFileInfo,
      InsertUserFile, SetUserRows, storeVars, mysqlVars
  <2>2. instant'.pc # "write count"
    <3>1. CASE InstantReply
      BY <3>1 DEF InstantReply, InstantIdle
    <3>2. CASE ~InstantReply
      BY <1>3, <3>2 DEF InstantUnknown, InstantSelectRefs, InstantSelectOwn,
        InstantWriteRefs, InstantInsertUserFile, InstantReplies,
        InstantTypeOK
    <3>3. QED
      BY <3>1, <3>2
  <2>3. QED
    BY <2>1, <2>2 DEF CountsInv, CountsPositive
<1>4. QED
  BY <1>1, <1>2, <1>3 DEF InstantStep

(* The reply, and a del that dies of HDEL, end the request: nothing is      *)
(* written and the program is idle.                                        *)
LEMMA DealEndsIdle ==
  ASSUME DealReply \/ DelHdelDies
  PROVE  /\ dealfile.pc # "idle"
         /\ dealfile.pc # "del: delete user file"
         /\ dealfile'.pc = "idle"
         /\ dealfile'.user = None
         /\ UNCHANGED storeVars
<1>1. /\ dealfile.pc \in {"reply", "del: hdel"}
      /\ dealfile' = DealIdle
      /\ UNCHANGED storeVars
  BY DEF DealReply, DelHdelDies
<1>2. DealIdle.pc = "idle" /\ DealIdle.user = None
  BY DEF DealIdle
<1>3. QED
  BY <1>1, <1>2

(* The statements of dealfile that reach the counters, and all the others. *)
LEMMA DealCountFrame ==
  ASSUME DealTypeOK, DealStep
  PROVE  \/ DelSelectCount \/ DelWriteCount \/ ShareWriteTotal \/ DelWriteTotal
         \/ /\ user_file_count' = user_file_count
            /\ dealfile'.pc # "del: write count"
<1> USE DEF DealTypeOK, DealGoes, DealReplies, storeVars, mysqlVars
<1>1. CASE ShareStep
  BY <1>1 DEF ShareStep, ShareZsetExit, ShareSelect, ShareZaddAgain,
    ShareMark, ShareInsert, ShareSelectTotal, ShareZadd, ShareHset, Zadd,
    SetZset, UpdateShared, SetUserRows, InsertShare, SetShares, Hset, SetHash
<1>2. CASE DelZsetExit \/ DelNoStatus \/ DelSelectStatus \/ DelDeleteShare
             \/ DelSelectTotal \/ DelZrem \/ DelHdel
  <2>1. CASE DelZsetExit \/ DelNoStatus \/ DelSelectStatus \/ DelDeleteShare
    BY <2>1 DEF DelZsetExit, DelNoStatus, DelSelectStatus, DelDeleteShare,
      DeleteShare, SetShares
  <2>2. CASE DelSelectTotal \/ DelZrem \/ DelHdel
    BY <2>2 DEF DelSelectTotal, DelZrem, DelHdel, Zrem, SetZset, Hdel, SetHash
  <2>3. QED
    BY <1>2, <2>1, <2>2
<1>3. CASE DelDeleteUserFile \/ DelNoRefs \/ DelSelectRefs \/ DelWriteRefs
             \/ DelNoFileId \/ DelSelectFileId \/ DelDeleteFileInfo
             \/ DelRemoveBlob \/ DelRemoveNothing
  BY <1>3 DEF DelDeleteUserFile, DelNoRefs, DelSelectRefs, DelWriteRefs,
    DelNoFileId, DelSelectFileId, DelDeleteFileInfo, DelRemoveBlob,
    DelRemoveNothing, DeleteUserFile, SetUserRows, UpdateFileInfo, DeleteFileInfo, RemoveBlob
<1>4. CASE PvStep
  BY <1>4 DEF PvStep, PvMissing, PvSelect, PvWrite, UpdateUserPv, SetUserRows
<1>5. CASE DealReply \/ DelHdelDies
  BY <1>5, DealEndsIdle
<1>6. QED
  BY <1>1, <1>2, <1>3, <1>4, <1>5 DEF DealStep, DelStep

LEMMA DealKeepsCounts ==
  ASSUME Typed, CountsInv, DealStep, UNCHANGED <<upload, instant, misread>>
  PROVE  CountsInv'
<1> USE DEF Typed, TypeOK
<1>1. CASE DelSelectCount
  <2>1. user_file_count' = user_file_count
    BY <1>1 DEF DelSelectCount, storeVars, mysqlVars
  <2>2. dealfile.user \in Users
    BY <1>1 DEF DelSelectCount, DealLocals
  <2>3. dealfile'.pc = "del: write count" /\ dealfile'.user \notin misread =>
          dealfile'.count >= 1
    BY <1>1, <2>2, CountRead
       DEF DelSelectCount, DealReplies, DealTypeOK, CountsInv
  <2>4. QED
    BY <2>1, <2>3 DEF CountsInv, CountsPositive
<1>2. CASE DelWriteCount
  <2>1. /\ dealfile.count \in Int
        /\ dealfile.user \notin misread => dealfile.count >= 1
    BY <1>2 DEF DelWriteCount, DealLocals, CountsInv
  <2>2. CASE dealfile.count = 1
    BY <1>2, <2>2, SetCountPositive DEF DelWriteCount, DeleteCount,
       DealGoes, DealTypeOK, CountsInv
  <2>3. CASE dealfile.count # 1
    <3>1. /\ dealfile.count - 1 \in Int
          /\ dealfile.user \notin misread => dealfile.count - 1 >= 1
      BY <2>1, <2>3
    <3>2. CountsPositive'
      BY <1>2, <2>3, <3>1, SetCountPositive
         DEF DelWriteCount, UpdateCount, CountsInv
    <3>3. dealfile'.pc # "del: write count"
      BY <1>2 DEF DelWriteCount, DealGoes, DealTypeOK
    <3>4. QED
      BY <3>2, <3>3 DEF CountsInv
  <2>4. QED
    BY <2>2, <2>3
<1>3. CASE ShareWriteTotal \/ DelWriteTotal
  <2>1. ShareTotal \notin Users
    BY ShareTotalIsNoUser
  <2>2. CountsPositive'
    <3>1. CASE ShareWriteTotal
      BY <2>1, <3>1, IncrementPositive DEF ShareWriteTotal, CountsInv
    <3>2. CASE DelWriteTotal
      BY <2>1, <3>2, SetCountPositive DEF DelWriteTotal, UpdateCount, CountsInv
    <3>3. QED
      BY <1>3, <3>1, <3>2
  <2>3. dealfile'.pc # "del: write count"
    BY <1>3 DEF ShareWriteTotal, DelWriteTotal, DealGoes, DealReplies,
      DealTypeOK
  <2>4. QED
    BY <2>2, <2>3 DEF CountsInv
<1>4. CASE /\ user_file_count' = user_file_count
           /\ dealfile'.pc # "del: write count"
  BY <1>4 DEF CountsInv, CountsPositive
<1>5. QED
  BY <1>1, <1>2, <1>3, <1>4, DealCountFrame DEF Typed, TypeOK

LEMMA DealShareKeepsCounts ==
  ASSUME Typed, CountsInv, DealShareStep,
         UNCHANGED <<upload, instant, dealfile, misread>>
  PROVE  CountsInv'
<1>1. CASE CancelDeleteTotal
  BY <1>1, ShareTotalIsNoUser, SetCountPositive
     DEF CancelDeleteTotal, DeleteCount, CountsInv, Typed, TypeOK
<1>2. CASE ~CancelDeleteTotal
  <2>1. user_file_count' = user_file_count
    BY <1>2 DEF DealShareStep, SharePvStep, CancelStep, SaveStep,
      SharePvMissing, SharePvSelect, SharePvWrite, SharePvZsetExit,
      SharePvZincrby, SharePvZadd, SharePvHset, CancelMark,
      CancelSelectTotal, CancelCrashes, CancelDeleteShare, CancelZrem,
      CancelHdel, CancelHdelDies, SaveSelectOwn, SaveUnknown,
      SaveSelectRefs, SaveWriteRefs, DealShareReply, UpdateSharePv, DeleteShare, SetShares, UpdateShared,
      SetUserRows, Zincrby, Zadd, Zrem, SetZset, Hset, Hdel, SetHash,
      storeVars, mysqlVars
  <2>2. QED
    BY <2>1 DEF CountsInv, CountsPositive
<1>3. QED
  BY <1>1, <1>2

LEMMA ListingKeepsTables ==
  ASSUME ListingStep
  PROVE  UNCHANGED <<mysqlVars, blobVars>>
BY DEF ListingStep, RankStep, CountSelect, NormalSelect, RankSelectTotal,
  RankZcard, RankDelZset, RankDelHash, RankSelectShares, RankZadd, RankHset,
  RankZrevrange, RankHget, RankZscore, ListingReply, DelZset, Zadd, SetZset,
  DelHash, Hset, SetHash, storeVars

(* A SELECT that is misread: whose counter it was, the history says. *)
LEMMA MisreadsKeepCounts ==
  ASSUME Typed, CountsInv, Misreads
  PROVE  CountsInv'
<1> USE DEF Typed, TypeOK
<1>1. UNCHANGED user_file_count /\ misread \subseteq misread'
  BY MisreadsRecorded DEF storeVars, mysqlVars
<1>2. CountsPositive'
  BY <1>1 DEF CountsInv, CountsPositive
<1>3. CASE UploadMisreads /\ UNCHANGED <<instant, dealfile>>
  <2>1. upload'.pc # "write count" \/ upload'.user \in misread'
    BY <1>3 DEF UploadMisreads, UploadReplies, Missed, UploadTypeOK
  <2>2. QED
    BY <1>1, <1>2, <1>3, <2>1 DEF CountsInv
<1>4. CASE InstantMisreads /\ UNCHANGED <<upload, dealfile>>
  <2>1. instant'.pc # "write count" \/ instant'.user \in misread'
    BY <1>4 DEF InstantMisreads, InstantReplies, Missed, InstantTypeOK
  <2>2. QED
    BY <1>1, <1>2, <1>4, <2>1 DEF CountsInv
<1>5. CASE DealMisreads /\ UNCHANGED <<upload, instant>>
  <2>1. dealfile'.pc # "del: write count" \/ dealfile'.user \in misread'
    BY <1>5 DEF DealMisreads, ShareMisreads, DelMisreads, PvMisreads,
      DealGoes, Missed, DealTypeOK
  <2>2. QED
    BY <1>1, <1>2, <1>5, <2>1 DEF CountsInv
<1>6. CASE UNCHANGED <<upload, instant, dealfile>>
  BY <1>1, <1>2, <1>6 DEF CountsInv
<1>7. QED
  BY <1>3, <1>4, <1>5, <1>6 DEF Misreads

LEMMA CountsInductive ==
  ASSUME Typed, CountsInv, [Next]_vars
  PROVE  CountsInv'
<1>1. CASE ListingStep /\ UNCHANGED <<upload, instant, dealfile, misread>>
  BY <1>1, ListingKeepsTables DEF CountsInv, CountsPositive, mysqlVars
<1>2. CASE UNCHANGED <<storeVars, misread>> /\ AtEdge
  BY <1>2 DEF AtEdge, CountsInv, CountsPositive, storeVars, mysqlVars
<1>3. CASE Misreads
  BY <1>3, MisreadsKeepCounts
<1>4. QED
  BY <1>1, <1>2, <1>3, SystemMoves, UploadKeepsCounts, InstantKeepsCounts,
     DealKeepsCounts, DealShareKeepsCounts

LEMMA CountsAtFirst == Init => CountsInv
<1> SUFFICES ASSUME Init PROVE CountsInv
  OBVIOUS
<1>1. CountsPositive
  BY DEF Init, StoreInit, Counters, CountsPositive
<1>2. upload.pc = "idle" /\ instant.pc = "idle" /\ dealfile.pc = "idle"
  BY IdlePcs DEF Init
<1>3. QED
  BY <1>1, <1>2 DEF CountsInv

(* Whoever uploads, deletes or takes over files at the same time, also the *)
(* same user in several sessions, whatever fails or is killed half way, a  *)
(* user's counter never falls to zero or below unless a SELECT on it failed *)
(* unnoticed: it disappears first (dealfile_cgi.c deletes the row at 1).   *)
THEOREM CountsStayPositive == Spec => []CountsPositive
<1>1. Init => CountsInv
  BY CountsAtFirst
<1>2. Typed /\ CountsInv /\ [Next]_vars => CountsInv'
  BY CountsInductive
<1>3. CountsInv => CountsPositive
  BY DEF CountsInv
<1>4. QED
  BY <1>1, <1>2, <1>3, AlwaysTyped, PTL DEF Spec

-----------------------------------------------------------------------------
(* The shares *)

(* What dealfile found in MySQL, that nobody shares the file, is still so  *)
(* when it inserts its row.                                                *)
SharesInv ==
  /\ OneShareRowPerFile
  /\ dealfile.pc \in {"share: mark", "share: insert"}
        /\ dealfile.file \notin misread => ~IsShared(dealfile.file)

LEMMA DealShareFrame ==
  ASSUME DealTypeOK, DealStep
  PROVE  \/ ShareSelect \/ ShareMark \/ ShareInsert \/ DelDeleteShare
         \/ /\ share_file_list' = share_file_list
            /\ dealfile'.pc \notin {"share: mark", "share: insert"}
<1> USE DEF DealTypeOK, DealGoes, DealReplies, storeVars, mysqlVars
<1>1. CASE ShareStep
  BY <1>1 DEF ShareStep, ShareZsetExit, ShareZaddAgain, ShareSelectTotal,
    ShareWriteTotal, ShareZadd, ShareHset, Zadd, SetZset, IncrementCount,
    UpdateCount, SetCount, Hset, SetHash
<1>2. CASE DelZsetExit \/ DelNoStatus \/ DelSelectStatus \/ DelSelectTotal
             \/ DelWriteTotal \/ DelZrem \/ DelHdel
  <2>1. CASE DelZsetExit \/ DelNoStatus \/ DelSelectStatus
    BY <2>1 DEF DelZsetExit, DelNoStatus, DelSelectStatus
  <2>2. CASE DelSelectTotal \/ DelWriteTotal
    BY <2>2 DEF DelSelectTotal, DelWriteTotal, UpdateCount, SetCount
  <2>3. CASE DelZrem \/ DelHdel
    BY <2>3 DEF DelZrem, DelHdel, Zrem, SetZset, Hdel, SetHash
  <2>4. QED
    BY <1>2, <2>1, <2>2, <2>3
<1>3. CASE DelSelectCount \/ DelWriteCount \/ DelDeleteUserFile \/ DelNoRefs
  BY <1>3 DEF DelSelectCount, DelWriteCount, DelDeleteUserFile, DelNoRefs,
    UpdateCount, DeleteCount, SetCount, DeleteUserFile, SetUserRows
<1>4. CASE DelSelectRefs \/ DelWriteRefs \/ DelNoFileId \/ DelSelectFileId
             \/ DelDeleteFileInfo \/ DelRemoveBlob \/ DelRemoveNothing
  BY <1>4 DEF DelSelectRefs, DelWriteRefs, DelNoFileId, DelSelectFileId,
    DelDeleteFileInfo, DelRemoveBlob, DelRemoveNothing, UpdateFileInfo,
    DeleteFileInfo, RemoveBlob
<1>5. CASE PvStep
  BY <1>5 DEF PvStep, PvMissing, PvSelect, PvWrite, UpdateUserPv, SetUserRows
<1>6. CASE DealReply \/ DelHdelDies
  BY <1>6, DealEndsIdle
<1>7. QED
  BY <1>1, <1>2, <1>3, <1>4, <1>5, <1>6 DEF DealStep, DelStep

(* A statement that adds no share keeps what holds of the shares of every  *)
(* file.                                                                   *)
LEMMA NoNewShares ==
  ASSUME StoreTypeOK, StoreTypeOK', OneShareRowPerFile, UNCHANGED misread,
         \A u \in Users, f \in Files :
           Len(share_file_list'[u][f]) <= Len(share_file_list[u][f])
  PROVE  /\ OneShareRowPerFile'
         /\ \A f \in Files : ~IsShared(f) => ~IsShared(f)'
<1>1. ASSUME NEW u \in Users, NEW f \in Files
      PROVE  /\ f \notin misread => Len(share_file_list'[u][f]) <= 1
             /\ share_file_list'[u][f] # <<>> => share_file_list[u][f] # <<>>
  <2>1. /\ share_file_list[u][f] \in Seq(Nat)
        /\ share_file_list'[u][f] \in Seq(Nat)
    BY DEF StoreTypeOK
  <2>2. /\ Len(share_file_list[u][f]) \in Nat
        /\ Len(share_file_list'[u][f]) \in Nat
    BY <2>1, LenProperties
  <2>3. f \notin misread => Len(share_file_list[u][f]) <= 1
    BY DEF OneShareRowPerFile
  <2>4. Len(share_file_list'[u][f]) <= Len(share_file_list[u][f])
    OBVIOUS
  <2>5. f \notin misread => Len(share_file_list'[u][f]) <= 1
    BY <2>2, <2>3, <2>4
  <2>6. Len(share_file_list[u][f]) = 0 => Len(share_file_list'[u][f]) = 0
    BY <2>2, <2>4
  <2>7. QED
    BY <2>1, <2>5, <2>6, EmptySeq
<1>2. QED
  BY <1>1 DEF OneShareRowPerFile, IsShared

LEMMA DeleteShareKeeps ==
  ASSUME StoreTypeOK, OneShareRowPerFile, NEW c, NEW g, DeleteShare(c, g),
         UNCHANGED misread
  PROVE  /\ OneShareRowPerFile'
         /\ \A f \in Files : ~IsShared(f) => ~IsShared(f)'
<1>1. StoreTypeOK'
  BY DeleteShareType
<1>2. ASSUME NEW u \in Users, NEW f \in Files
      PROVE  Len(share_file_list'[u][f]) <= Len(share_file_list[u][f])
  <2>1. share_file_list'[u][f] \in {share_file_list[u][f], <<>>}
    BY DEF DeleteShare, SetShares, StoreTypeOK
  <2>2. share_file_list[u][f] \in Seq(Nat)
    BY DEF StoreTypeOK
  <2>3. Len(share_file_list[u][f]) \in Nat /\ Len(<<>>) = 0
    BY <2>2, LenProperties, EmptySeq
  <2>4. QED
    BY <2>1, <2>3
<1>3. QED
  BY <1>1, <1>2, NoNewShares

LEMMA UpdateSharePvKeeps ==
  ASSUME StoreTypeOK, OneShareRowPerFile, NEW g \in Files, NEW n \in Nat,
         UpdateSharePv(g, n), UNCHANGED misread
  PROVE  /\ OneShareRowPerFile'
         /\ \A f \in Files : ~IsShared(f) => ~IsShared(f)'
<1>1. StoreTypeOK'
  BY UpdateSharePvType
<1>2. ASSUME NEW u \in Users, NEW f \in Files
      PROVE  Len(share_file_list'[u][f]) <= Len(share_file_list[u][f])
  <2>1. share_file_list[u][f] \in Seq(Nat)
    BY DEF StoreTypeOK
  <2>2. Len(share_file_list[u][f]) \in Nat
    BY <2>1, LenProperties
  <2>3. CASE f # g
    <3>1. share_file_list'[u][f] = share_file_list[u][f]
      BY <2>3 DEF UpdateSharePv, SetShares, StoreTypeOK
    <3>2. QED
      BY <2>2, <3>1
  <2>4. CASE f = g
    <3> DEFINE rows == [i \in DOMAIN share_file_list[u][f] |-> n]
    <3>1. share_file_list'[u][f] = rows
      BY <2>4 DEF UpdateSharePv, SetShares, StoreTypeOK
    <3>2. rows \in [DOMAIN share_file_list[u][f] -> Nat]
      OBVIOUS
    <3> HIDE DEF rows
    <3>3. Len(rows) = Len(share_file_list[u][f])
      BY <2>1, <3>2, UpdatedLen
    <3>4. QED
      BY <2>2, <3>1, <3>3
  <2>5. QED
    BY <2>3, <2>4
<1>3. QED
  BY <1>1, <1>2, NoNewShares

LEMMA InsertShareKeeps ==
  ASSUME StoreTypeOK, OneShareRowPerFile, NEW c \in Users, NEW g \in Files,
         g \notin misread => ~IsShared(g), InsertShare(c, g),
         UNCHANGED misread
  PROVE  OneShareRowPerFile'
<1>1. \A u \in Users, f \in Files :
        share_file_list'[u][f] = IF u = c /\ f = g
                                 THEN Append(share_file_list[u][f], 0)
                                 ELSE share_file_list[u][f]
  BY DEF InsertShare, SetShares, StoreTypeOK
<1>2. g \notin misread => \A u \in Users : share_file_list[u][g] = <<>>
  BY DEF IsShared
<1>3. <<>> \in Seq(Nat) /\ Len(<<>>) = 0
  BY EmptySeq
<1>4. g \notin misread => Len(Append(share_file_list[c][g], 0)) = 1
  BY <1>2, <1>3, AppendProperties
<1>5. ASSUME NEW u \in Users, NEW f \in Files \ misread
      PROVE  Len(share_file_list'[u][f]) <= 1
  <2>1. CASE u = c /\ f = g
    <3>1. share_file_list'[u][f] = Append(share_file_list[c][g], 0)
      BY <1>1, <2>1
    <3>2. Len(Append(share_file_list[c][g], 0)) = 1
      BY <1>4, <1>5, <2>1
    <3>3. QED
      BY <3>1, <3>2
  <2>2. CASE ~(u = c /\ f = g)
    <3>1. share_file_list'[u][f] = share_file_list[u][f]
      BY <1>1, <2>2
    <3>2. QED
      BY <3>1 DEF OneShareRowPerFile
  <2>3. QED
    BY <2>1, <2>2
<1>6. ASSUME NEW u \in Users, NEW v \in Users, NEW f \in Files \ misread,
             share_file_list'[u][f] # <<>>, share_file_list'[v][f] # <<>>
      PROVE  u = v
  BY <1>1, <1>2, <1>6 DEF OneShareRowPerFile
<1>7. QED
  BY <1>5, <1>6 DEF OneShareRowPerFile

LEMMA DealKeepsShares ==
  ASSUME Typed, SharesInv, DealStep, UNCHANGED misread
  PROVE  SharesInv'
<1> USE DEF Typed, TypeOK
<1>1. CASE ShareSelect
  <2>1. share_file_list' = share_file_list /\ dealfile'.file = dealfile.file
    BY <1>1 DEF ShareSelect, DealGoes, DealTypeOK, storeVars, mysqlVars
  <2>2. dealfile'.pc \in {"share: mark", "share: insert"} =>
          ~IsShared(dealfile.file)
    BY <1>1 DEF ShareSelect, DealGoes, DealTypeOK
  <2>3. QED
    BY <2>1, <2>2 DEF SharesInv, OneShareRowPerFile, IsShared
<1>2. CASE ShareMark
  <2>1. share_file_list' = share_file_list /\ dealfile'.file = dealfile.file
    BY <1>2 DEF ShareMark, DealGoes, DealTypeOK, UpdateShared, SetUserRows
  <2>2. dealfile.file \notin misread => ~IsShared(dealfile.file)
    BY <1>2 DEF ShareMark, SharesInv
  <2>3. QED
    BY <2>1, <2>2 DEF SharesInv, OneShareRowPerFile, IsShared
<1>3. CASE ShareInsert
  <2>1. /\ dealfile.file \notin misread => ~IsShared(dealfile.file)
        /\ dealfile.user \in Users
        /\ dealfile.file \in Files
    BY <1>3 DEF ShareInsert, SharesInv, DealLocals
  <2>2. OneShareRowPerFile'
    BY <1>3, <2>1, InsertShareKeeps DEF ShareInsert, SharesInv
  <2>3. dealfile'.pc \notin {"share: mark", "share: insert"}
    BY <1>3 DEF ShareInsert, DealGoes, DealTypeOK
  <2>4. QED
    BY <2>2, <2>3 DEF SharesInv
<1>4. CASE DelDeleteShare
  <2>1. OneShareRowPerFile'
    BY <1>4, DeleteShareKeeps DEF DelDeleteShare, SharesInv
  <2>2. dealfile'.pc \notin {"share: mark", "share: insert"}
    BY <1>4 DEF DelDeleteShare, DealGoes, DealTypeOK
  <2>3. QED
    BY <2>1, <2>2 DEF SharesInv
<1>5. CASE /\ share_file_list' = share_file_list
           /\ dealfile'.pc \notin {"share: mark", "share: insert"}
  BY <1>5 DEF SharesInv, OneShareRowPerFile
<1>6. QED
  BY <1>1, <1>2, <1>3, <1>4, <1>5, DealShareFrame

LEMMA DealShareKeepsShares ==
  ASSUME Typed, SharesInv, DealShareStep, UNCHANGED <<dealfile, misread>>
  PROVE  SharesInv'
<1>1. CASE /\ OneShareRowPerFile'
           /\ \A f \in Files : ~IsShared(f) => ~IsShared(f)'
  <2>1. dealfile.pc # "idle" => dealfile.file \in Files
    BY DEF Typed, DealLocals
  <2>2. QED
    BY <1>1, <2>1 DEF SharesInv
<1>2. CASE SharePvWrite
  <2>1. dealshare.file \in Files /\ dealshare.count \in Nat
    BY <1>2 DEF SharePvWrite, Typed, DealShareLocals
  <2>2. dealshare.count + 1 \in Nat
    BY <2>1
  <2>3. QED
    BY <1>1, <1>2, <2>1, <2>2, UpdateSharePvKeeps
       DEF SharePvWrite, SharesInv, Typed, TypeOK
<1>3. CASE CancelDeleteShare
  BY <1>1, <1>3, DeleteShareKeeps
     DEF CancelDeleteShare, SharesInv, Typed, TypeOK
<1>4. CASE ~SharePvWrite /\ ~CancelDeleteShare
  <2>1. share_file_list' = share_file_list
    BY <1>4 DEF DealShareStep, SharePvStep, CancelStep, SaveStep,
      SharePvMissing, SharePvSelect, SharePvZsetExit, SharePvZincrby,
      SharePvZadd, SharePvHset, CancelMark, CancelSelectTotal,
      CancelDeleteTotal, CancelCrashes, CancelZrem, CancelHdel,
      CancelHdelDies, SaveSelectOwn, SaveUnknown, SaveSelectRefs, SaveWriteRefs,
      DealShareReply, UpdateShared, SetUserRows, DeleteCount, SetCount,
      Zincrby, Zadd, Zrem, SetZset, Hset, Hdel, SetHash, storeVars, mysqlVars
  <2>2. QED
    BY <2>1 DEF SharesInv, OneShareRowPerFile, IsShared
<1>5. QED
  BY <1>2, <1>3, <1>4

LEMMA OthersKeepShares ==
  ASSUME UploadStep \/ InstantStep \/ ListingStep
  PROVE  UNCHANGED share_file_list
<1>1. CASE UploadStep
  BY <1>1 DEF UploadStep, UploadStoreBlob, UploadInsertFileInfo,
    UploadInsertUserFile, UploadSelectCount, UploadWriteCount, UploadReply,
    StoreBlob, InsertFileInfo, InsertUserFile, SetUserRows, IncrementCount,
    UpdateCount, SetCount, storeVars, mysqlVars
<1>2. CASE InstantStep
  BY <1>2 DEF InstantStep, InstantUnknown, InstantSelectRefs,
    InstantSelectOwn, InstantWriteRefs, InstantInsertUserFile,
    InstantSelectCount, InstantWriteCount, InstantReply, UpdateFileInfo,
    InsertUserFile, SetUserRows, IncrementCount, UpdateCount, SetCount,
    storeVars, mysqlVars
<1>3. CASE ListingStep
  BY <1>3, ListingKeepsTables DEF mysqlVars
<1>4. QED
  BY <1>1, <1>2, <1>3

LEMMA SharesInductive ==
  ASSUME Typed, SharesInv, [Next]_vars
  PROVE  SharesInv'
<1>1. CASE UNCHANGED <<share_file_list, dealfile, misread>>
  BY <1>1 DEF SharesInv, OneShareRowPerFile, IsShared
<1>2. CASE UNCHANGED <<storeVars, misread>> /\ AtEdge
  BY <1>2 DEF AtEdge, SharesInv, OneShareRowPerFile, IsShared, storeVars,
    mysqlVars
<1>3. CASE Misreads
  <2>1. UNCHANGED share_file_list /\ misread \subseteq misread'
    BY <1>3, MisreadsRecorded DEF storeVars, mysqlVars
  <2>2. OneShareRowPerFile'
    BY <2>1 DEF SharesInv, OneShareRowPerFile
  <2>3. CASE UNCHANGED dealfile
    BY <2>1, <2>2, <2>3 DEF SharesInv, IsShared
  <2>4. CASE DealMisreads
    <3>1. \/ dealfile'.pc \notin {"share: mark", "share: insert"}
          \/ dealfile'.file \in misread'
      BY <2>4 DEF DealMisreads, ShareMisreads, DelMisreads, PvMisreads,
        DealGoes, Missed, DealTypeOK, Typed, TypeOK
    <3>2. QED
      BY <2>2, <3>1 DEF SharesInv
  <2>5. QED
    BY <1>3, <2>3, <2>4 DEF Misreads
<1>4. QED
  BY <1>1, <1>2, <1>3, SystemMoves, OthersKeepShares, DealKeepsShares,
     DealShareKeepsShares

LEMMA SharesAtFirst == Init => SharesInv
<1> SUFFICES ASSUME Init PROVE SharesInv
  OBVIOUS
<1>1. \A u \in Users, f \in Files : share_file_list[u][f] = <<>>
  BY DEF Init, StoreInit
<1>2. Len(<<>>) <= 1
  BY EmptySeq
<1>3. dealfile.pc = "idle"
  BY IdlePcs DEF Init
<1>4. QED
  BY <1>1, <1>2, <1>3 DEF SharesInv, OneShareRowPerFile

(* However shares, cancels, deletions and downloads interleave, whatever    *)
(* Redis remembers and whatever fails, MySQL never holds two shares of one  *)
(* file, unless share's look at its shares was the SELECT that failed.      *)
THEOREM SharesStaySingle == Spec => []OneShareRowPerFile
<1>1. Init => SharesInv
  BY SharesAtFirst
<1>2. Typed /\ SharesInv /\ [Next]_vars => SharesInv'
  BY SharesInductive
<1>3. SharesInv => OneShareRowPerFile
  BY DEF SharesInv
<1>4. QED
  BY <1>1, <1>2, <1>3, AlwaysTyped, PTL DEF Spec

-----------------------------------------------------------------------------
(* The counters beside the rows *)

RowSet(u) == UNION {{f} \X DOMAIN user_file_list[u][f] : f \in Files}

(* A program that has moved the rows of u and not yet the counter, or the  *)
(* other way about, leaves the counter one short.                          *)
UploadOwes(u) ==
  upload.user = u /\ upload.pc \in {"select count", "write count"}
InstantOwes(u) ==
  instant.user = u /\ instant.pc \in {"select count", "write count"}
DealOwes(u) ==
  dealfile.user = u /\ dealfile.pc = "del: delete user file"
Owed(u) == IF UploadOwes(u) \/ InstantOwes(u) \/ DealOwes(u) THEN 1 ELSE 0

Drift(u) == CountOf(u) - Cardinality(RowSet(u)) + Owed(u)

(* A user who awaits the answers is served by one program that moves rows. *)
ServedOnce ==
  /\ upload.user # None =>
       upload.user # instant.user /\ upload.user # dealfile.user
  /\ instant.user # None => instant.user # dealfile.user

(* So what the program knows of the user's rows and counter stays true.    *)
UploadKnows ==
  /\ upload.pc \in {"store blob", "insert file_info", "insert user file"} =>
       ~Lists(upload.user, upload.file)
  /\ upload.pc = "write count" /\ upload.user \notin misread =>
       upload.count = user_file_count[upload.user]

InstantKnows ==
  /\ instant.pc \in {"select refs", "select own", "write refs",
                     "insert user file"} =>
       ~Lists(instant.user, instant.file)
  /\ instant.pc = "write count" /\ instant.user \notin misread =>
       instant.count = user_file_count[instant.user]

DelBegins == {"del: zset_exit", "del: select status", "del: delete share",
              "del: select total", "del: write total", "del: zrem",
              "del: hdel", "del: select count", "del: write count",
              "del: delete user file"}

DealKnows ==
  /\ dealfile.pc \in DelBegins => Lists(dealfile.user, dealfile.file)
  /\ dealfile.pc = "del: write count" /\ dealfile.user \notin misread =>
       dealfile.count = user_file_count[dealfile.user]

KnowsInv == ServedOnce /\ UploadKnows /\ InstantKnows /\ DealKnows

OneRowPerFile ==
  \A u \in Users, f \in Files : Len(user_file_list[u][f]) <= 1

DriftInv ==
  /\ OneRowPerFile
  /\ KnowsInv
  /\ \A u \in Users : /\ IsFiniteSet(RowSet(u))
                      /\ u \notin misread => Drift(u) \in (0 - faults)..faults

(* What a statement leaves of a user: the rows, though not what is in      *)
(* them, and the counter.                                                  *)
Calm(u) ==
  /\ user_file_count'[u] = user_file_count[u]
  /\ \A f \in Files :
       DOMAIN user_file_list'[u][f] = DOMAIN user_file_list[u][f]

LEMMA RowsNotEmpty ==
  ASSUME StoreTypeOK, NEW u \in Users, NEW f \in Files
  PROVE  /\ user_file_list[u][f] \in Seq(UserFileRows)
         /\ Len(user_file_list[u][f]) \in Nat
         /\ DOMAIN user_file_list[u][f] = 1..Len(user_file_list[u][f])
         /\ Lists(u, f) <=> Len(user_file_list[u][f]) >= 1
<1>1. user_file_list[u][f] \in Seq(UserFileRows)
  BY DEF StoreTypeOK
<1>2. /\ Len(user_file_list[u][f]) \in Nat
      /\ DOMAIN user_file_list[u][f] = 1..Len(user_file_list[u][f])
  BY <1>1, LenProperties
<1>3. user_file_list[u][f] = <<>> <=> Len(user_file_list[u][f]) = 0
  BY <1>1, EmptySeq
<1>4. QED
  BY <1>1, <1>2, <1>3 DEF Lists

LEMMA CalmKeeps ==
  ASSUME StoreTypeOK, StoreTypeOK', NEW u \in Users, Calm(u)
  PROVE  /\ RowSet(u)' = RowSet(u)
         /\ CountOf(u)' = CountOf(u)
         /\ \A f \in Files :
              /\ Lists(u, f)' <=> Lists(u, f)
              /\ Len(user_file_list'[u][f]) = Len(user_file_list[u][f])
<1>1. CountOf(u)' = CountOf(u)
  BY DEF Calm, CountOf
<1>2. RowSet(u)' = RowSet(u)
  BY DEF Calm, RowSet, Files
<1>3. ASSUME NEW f \in Files
      PROVE  /\ Lists(u, f)' <=> Lists(u, f)
             /\ Len(user_file_list'[u][f]) = Len(user_file_list[u][f])
  <2>1. /\ Len(user_file_list[u][f]) \in Nat
        /\ DOMAIN user_file_list[u][f] = 1..Len(user_file_list[u][f])
        /\ Lists(u, f) <=> Len(user_file_list[u][f]) >= 1
    BY RowsNotEmpty
  <2>2. user_file_list'[u][f] \in Seq(UserFileRows)
    BY DEF StoreTypeOK
  <2>3. /\ Len(user_file_list'[u][f]) \in Nat
        /\ DOMAIN user_file_list'[u][f] = 1..Len(user_file_list'[u][f])
    BY <2>2, LenProperties
  <2>4. 1..Len(user_file_list'[u][f]) = 1..Len(user_file_list[u][f])
    BY <2>1, <2>3 DEF Calm
  <2>5. Len(user_file_list'[u][f]) = Len(user_file_list[u][f])
    BY <2>1, <2>3, <2>4
  <2>6. user_file_list'[u][f] = <<>> <=> Len(user_file_list'[u][f]) = 0
    BY <2>2, EmptySeq
  <2>7. QED
    BY <2>1, <2>3, <2>5, <2>6 DEF Lists
<1>4. QED
  BY <1>1, <1>2, <1>3

-----------------------------------------------------------------------------
(* What the statements do to a user's rows and counter *)

LEMMA RowsMatter ==
  ASSUME NEW u \in Users, UNCHANGED <<user_file_list, user_file_count>>
  PROVE  Calm(u)
BY DEF Calm

LEMMA SetUserRowsElsewhere ==
  ASSUME StoreTypeOK, NEW v \in Users, NEW g \in Files, NEW rows,
         SetUserRows(v, g, rows)
  PROVE  /\ \A u \in Users : u # v => Calm(u)
         /\ user_file_count' = user_file_count
         /\ user_file_list'[v][g] = rows
         /\ \A f \in Files : f # g =>
              user_file_list'[v][f] = user_file_list[v][f]
BY DEF SetUserRows, Calm, StoreTypeOK

LEMMA UpdatedRowsCalm ==
  ASSUME StoreTypeOK, NEW v \in Users, NEW g \in Files, NEW rows,
         DOMAIN rows = DOMAIN user_file_list[v][g],
         SetUserRows(v, g, rows)
  PROVE  \A u \in Users : Calm(u)
BY SetUserRowsElsewhere DEF Calm

LEMMA InsertedRow ==
  ASSUME StoreTypeOK, OneRowPerFile, NEW v \in Users, NEW g \in Files,
         ~Lists(v, g), IsFiniteSet(RowSet(v)), InsertUserFile(v, g)
  PROVE  /\ \A u \in Users : u # v => Calm(u)
         /\ CountOf(v)' = CountOf(v)
         /\ user_file_count' = user_file_count
         /\ \A f \in Files : Len(user_file_list'[v][f]) <= 1
         /\ IsFiniteSet(RowSet(v)')
         /\ Cardinality(RowSet(v)') = Cardinality(RowSet(v)) + 1
<1> DEFINE row == [shared |-> 0, pv |-> 0]
<1>1. user_file_list[v][g] = <<>>
  BY DEF Lists
<1>2. row \in UserFileRows
  BY DEF UserFileRows
<1> HIDE DEF row
<1>3. SetUserRows(v, g, Append(user_file_list[v][g], row))
  BY DEF InsertUserFile, row
<1>4. /\ \A u \in Users : u # v => Calm(u)
      /\ user_file_count' = user_file_count
      /\ user_file_list'[v][g] = Append(user_file_list[v][g], row)
      /\ \A f \in Files : f # g =>
           user_file_list'[v][f] = user_file_list[v][f]
  BY <1>3, SetUserRowsElsewhere
<1>5. user_file_list[v][g] \in Seq(UserFileRows) /\ Len(user_file_list[v][g]) = 0
  BY <1>1, EmptySeq
<1>6. /\ Append(user_file_list[v][g], row) \in Seq(UserFileRows)
      /\ Len(Append(user_file_list[v][g], row)) = 1
  BY <1>2, <1>5, AppendProperties
<1>7. DOMAIN user_file_list'[v][g] = {1}
  BY <1>4, <1>6, LenProperties
<1>8. DOMAIN user_file_list[v][g] = {}
  BY <1>1, EmptySeq
<1>9. RowSet(v)' = RowSet(v) \cup {<<g, 1>>}
  BY <1>4, <1>7, <1>8 DEF RowSet, Files
<1>10. <<g, 1>> \notin RowSet(v)
  BY <1>8 DEF RowSet
<1>11. \A f \in Files : Len(user_file_list'[v][f]) <= 1
  BY <1>4, <1>6 DEF OneRowPerFile
<1>12. QED
  BY <1>4, <1>9, <1>10, <1>11, FS_AddElement DEF CountOf

LEMMA DeletedRow ==
  ASSUME StoreTypeOK, OneRowPerFile, NEW v \in Users, NEW g \in Files,
         Lists(v, g), IsFiniteSet(RowSet(v)), DeleteUserFile(v, g)
  PROVE  /\ \A u \in Users : u # v => Calm(u)
         /\ CountOf(v)' = CountOf(v)
         /\ user_file_count' = user_file_count
         /\ \A f \in Files : Len(user_file_list'[v][f]) <= 1
         /\ IsFiniteSet(RowSet(v)')
         /\ Cardinality(RowSet(v)') = Cardinality(RowSet(v)) - 1
<1>1. /\ \A u \in Users : u # v => Calm(u)
      /\ user_file_count' = user_file_count
      /\ user_file_list'[v][g] = <<>>
      /\ \A f \in Files : f # g =>
           user_file_list'[v][f] = user_file_list[v][f]
  BY SetUserRowsElsewhere DEF DeleteUserFile
<1>2. DOMAIN user_file_list[v][g] = {1}
  <2>1. Len(user_file_list[v][g]) = 1
    <3>1. Len(user_file_list[v][g]) <= 1
      BY DEF OneRowPerFile
    <3>2. Len(user_file_list[v][g]) \in Nat /\ Len(user_file_list[v][g]) >= 1
      BY RowsNotEmpty
    <3>3. \A n \in Nat : n <= 1 /\ n >= 1 => n = 1
      OBVIOUS
    <3>4. QED
      BY <3>1, <3>2, <3>3
  <2>2. QED
    BY <2>1, RowsNotEmpty
<1>3. DOMAIN user_file_list'[v][g] = {} /\ Len(user_file_list'[v][g]) = 0
  BY <1>1, EmptySeq
<1>4. RowSet(v)' = RowSet(v) \ {<<g, 1>>}
  BY <1>1, <1>2, <1>3 DEF RowSet, Files
<1>5. <<g, 1>> \in RowSet(v)
  BY <1>2 DEF RowSet
<1>6. \A f \in Files : Len(user_file_list'[v][f]) <= 1
  BY <1>1, <1>3 DEF OneRowPerFile
<1>7. QED
  BY <1>1, <1>4, <1>5, <1>6, FS_RemoveElement DEF CountOf

LEMMA SetCountElsewhere ==
  ASSUME StoreTypeOK, NEW c \in Counters, NEW n, SetCount(c, n)
  PROVE  /\ \A u \in Users : u # c => Calm(u)
         /\ user_file_list' = user_file_list
         /\ user_file_count'[c] = n
BY DEF SetCount, Calm, StoreTypeOK, Counters

LEMMA CountedUp ==
  ASSUME StoreTypeOK, NEW v \in Users,
         IncrementCount(v, user_file_count[v])
  PROVE  /\ \A u \in Users : u # v => Calm(u)
         /\ user_file_list' = user_file_list
         /\ CountOf(v)' = CountOf(v) + 1
<1>1. user_file_count[v] \in Int \cup {None} /\ v \in Counters
  BY CountType DEF Counters
<1>2. None \notin Int
  BY NoneIsNoValue
<1>3. CASE user_file_count[v] = None
  <2>1. SetCount(v, 1)
    BY <1>3 DEF IncrementCount, IncrementFails
  <2>2. QED
    BY <1>1, <1>2, <1>3, <2>1, SetCountElsewhere DEF CountOf
<1>4. CASE user_file_count[v] # None
  <2>1. SetCount(v, user_file_count[v] + 1)
    BY <1>4 DEF IncrementCount, UpdateCount
  <2>2. user_file_count[v] + 1 \in Int
    BY <1>1, <1>4
  <2>3. QED
    BY <1>1, <1>2, <1>4, <2>1, <2>2, SetCountElsewhere DEF CountOf
<1>5. QED
  BY <1>3, <1>4

LEMMA CountedDown ==
  ASSUME StoreTypeOK, NEW v \in Users, user_file_count[v] # None,
         IF user_file_count[v] = 1 THEN DeleteCount(v)
                                   ELSE UpdateCount(v, user_file_count[v] - 1)
  PROVE  /\ \A u \in Users : u # v => Calm(u)
         /\ user_file_list' = user_file_list
         /\ CountOf(v)' = CountOf(v) - 1
<1>1. user_file_count[v] \in Int /\ v \in Counters
  BY CountType DEF Counters
<1>2. None \notin Int
  BY NoneIsNoValue
<1>3. CASE user_file_count[v] = 1
  <2>1. SetCount(v, None)
    BY <1>3 DEF DeleteCount
  <2>2. QED
    BY <1>1, <1>2, <1>3, <2>1, SetCountElsewhere DEF CountOf
<1>4. CASE user_file_count[v] # 1
  <2>1. SetCount(v, user_file_count[v] - 1)
    BY <1>4 DEF UpdateCount
  <2>2. user_file_count[v] - 1 \in Int
    BY <1>1
  <2>3. QED
    BY <1>1, <1>2, <2>1, <2>2, SetCountElsewhere DEF CountOf
<1>5. QED
  BY <1>3, <1>4

-----------------------------------------------------------------------------
(* What a user's drift is after a step *)

RowsInOrder(u) ==
  /\ \A f \in Files : Len(user_file_list[u][f]) <= 1
  /\ IsFiniteSet(RowSet(u))

LEMMA DriftOfUsers ==
  ASSUME DriftInv, KnowsInv', UNCHANGED <<faults, misread>>,
         \A u \in Users :
           RowsInOrder(u)' /\ (u \notin misread => Drift(u)' = Drift(u))
  PROVE  DriftInv'
<1>1. \A u \in Users : u \notin misread => Drift(u)' \in (0 - faults')..faults'
  BY DEF DriftInv
<1>2. QED
  BY <1>1 DEF DriftInv, OneRowPerFile, RowsInOrder, Files

LEMMA CalmUser ==
  ASSUME StoreTypeOK, StoreTypeOK', DriftInv, NEW u \in Users, Calm(u),
         Owed(u)' = Owed(u)
  PROVE  RowsInOrder(u)' /\ Drift(u)' = Drift(u)
<1>1. /\ RowSet(u)' = RowSet(u)
      /\ CountOf(u)' = CountOf(u)
      /\ \A f \in Files :
           Len(user_file_list'[u][f]) = Len(user_file_list[u][f])
  BY CalmKeeps
<1>2. \A f \in Files : Len(user_file_list'[u][f]) <= 1
  BY <1>1 DEF DriftInv, OneRowPerFile
<1>3. IsFiniteSet(RowSet(u)')
  BY <1>1 DEF DriftInv
<1>4. QED
  BY <1>1, <1>2, <1>3 DEF RowsInOrder, Drift, Files

LEMMA MovedUser ==
  ASSUME StoreTypeOK, StoreTypeOK', DriftInv, KnowsInv',
         UNCHANGED <<faults, misread>>, NEW v \in Users, RowsInOrder(v)',
         v \notin misread => Drift(v)' = Drift(v),
         \A u \in Users : u # v => Calm(u) /\ Owed(u)' = Owed(u)
  PROVE  DriftInv'
<1>1. ASSUME NEW u \in Users
      PROVE  RowsInOrder(u)' /\ (u \notin misread => Drift(u)' = Drift(u))
  <2>1. CASE u = v
    BY <2>1
  <2>2. CASE u # v
    <3>1. Calm(u) /\ Owed(u)' = Owed(u)
      BY <2>2
    <3>2. QED
      BY <3>1, CalmUser
  <2>3. QED
    BY <2>1, <2>2
<1>2. QED
  BY <1>1, DriftOfUsers

LEMMA NumbersOfUser ==
  ASSUME StoreTypeOK, DriftInv, NEW u \in Users
  PROVE  CountOf(u) \in Int /\ Cardinality(RowSet(u)) \in Nat
<1>1. user_file_count[u] \in Int \cup {None}
  BY CountType DEF Counters
<1>2. QED
  BY <1>1, FS_CardinalityType DEF CountOf, DriftInv

(* The statement inserts the row: the counter owes it. *)
LEMMA InsertingUser ==
  ASSUME StoreTypeOK, DriftInv, NEW v \in Users, NEW g \in Files,
         ~Lists(v, g), InsertUserFile(v, g), Owed(v) = 0, Owed(v)' = 1
  PROVE  /\ \A u \in Users : u # v => Calm(u)
         /\ RowsInOrder(v)' /\ Drift(v)' = Drift(v)
<1>1. /\ \A u \in Users : u # v => Calm(u)
      /\ CountOf(v)' = CountOf(v)
      /\ \A f \in Files : Len(user_file_list'[v][f]) <= 1
      /\ IsFiniteSet(RowSet(v)')
      /\ Cardinality(RowSet(v)') = Cardinality(RowSet(v)) + 1
  BY InsertedRow DEF DriftInv
<1>2. CountOf(v) \in Int /\ Cardinality(RowSet(v)) \in Nat
  BY NumbersOfUser
<1>3. Drift(v)' = Drift(v)
  BY <1>1, <1>2 DEF Drift
<1>4. QED
  BY <1>1, <1>3 DEF RowsInOrder, Files

LEMMA DeletingUser ==
  ASSUME StoreTypeOK, DriftInv, NEW v \in Users, NEW g \in Files,
         Lists(v, g), DeleteUserFile(v, g), Owed(v) = 1, Owed(v)' = 0
  PROVE  /\ \A u \in Users : u # v => Calm(u)
         /\ RowsInOrder(v)' /\ Drift(v)' = Drift(v)
<1>1. /\ \A u \in Users : u # v => Calm(u)
      /\ CountOf(v)' = CountOf(v)
      /\ \A f \in Files : Len(user_file_list'[v][f]) <= 1
      /\ IsFiniteSet(RowSet(v)')
      /\ Cardinality(RowSet(v)') = Cardinality(RowSet(v)) - 1
  BY DeletedRow DEF DriftInv
<1>2. CountOf(v) \in Int /\ Cardinality(RowSet(v)) \in Nat
  BY NumbersOfUser
<1>3. Drift(v)' = Drift(v)
  BY <1>1, <1>2 DEF Drift
<1>4. QED
  BY <1>1, <1>3 DEF RowsInOrder, Files

LEMMA CountingUser ==
  ASSUME StoreTypeOK, DriftInv, NEW v \in Users,
         IncrementCount(v, user_file_count[v]), Owed(v) = 1, Owed(v)' = 0
  PROVE  /\ \A u \in Users : u # v => Calm(u)
         /\ RowsInOrder(v)' /\ Drift(v)' = Drift(v)
<1>1. /\ \A u \in Users : u # v => Calm(u)
      /\ user_file_list' = user_file_list
      /\ CountOf(v)' = CountOf(v) + 1
  BY CountedUp
<1>2. CountOf(v) \in Int /\ Cardinality(RowSet(v)) \in Nat
  BY NumbersOfUser
<1>3. RowSet(v)' = RowSet(v)
  BY <1>1 DEF RowSet, Files
<1>4. Drift(v)' = Drift(v)
  BY <1>1, <1>2, <1>3 DEF Drift
<1>5. RowsInOrder(v)'
  BY <1>1, <1>3 DEF DriftInv, OneRowPerFile, RowsInOrder, Files
<1>6. QED
  BY <1>1, <1>4, <1>5

LEMMA DiscountingUser ==
  ASSUME StoreTypeOK, DriftInv, NEW v \in Users, user_file_count[v] # None,
         IF user_file_count[v] = 1 THEN DeleteCount(v)
                                   ELSE UpdateCount(v, user_file_count[v] - 1),
         Owed(v) = 0, Owed(v)' = 1
  PROVE  /\ \A u \in Users : u # v => Calm(u)
         /\ RowsInOrder(v)' /\ Drift(v)' = Drift(v)
<1>1. /\ \A u \in Users : u # v => Calm(u)
      /\ user_file_list' = user_file_list
      /\ CountOf(v)' = CountOf(v) - 1
  BY CountedDown
<1>2. CountOf(v) \in Int /\ Cardinality(RowSet(v)) \in Nat
  BY NumbersOfUser
<1>3. RowSet(v)' = RowSet(v)
  BY <1>1 DEF RowSet, Files
<1>4. Drift(v)' = Drift(v)
  BY <1>1, <1>2, <1>3 DEF Drift
<1>5. RowsInOrder(v)'
  BY <1>1, <1>3 DEF DriftInv, OneRowPerFile, RowsInOrder, Files
<1>6. QED
  BY <1>1, <1>4, <1>5

(* The statement writes a number that was misread: the rows stay. *)
LEMMA MiscountedUser ==
  ASSUME StoreTypeOK, DriftInv, NEW v \in Users,
         (\E n : SetCount(v, n)) \/ UNCHANGED storeVars
  PROVE  /\ \A u \in Users : u # v => Calm(u)
         /\ RowsInOrder(v)'
<1>1. v \in Counters
  BY DEF Counters
<1>2. /\ \A u \in Users : u # v => Calm(u)
      /\ user_file_list' = user_file_list
  BY <1>1, SetCountElsewhere, RowsMatter DEF storeVars, mysqlVars
<1>3. RowSet(v)' = RowSet(v)
  BY <1>2 DEF RowSet, Files
<1>4. QED
  BY <1>2, <1>3 DEF DriftInv, OneRowPerFile, RowsInOrder, Files

-----------------------------------------------------------------------------
(* What a program knows, other programs do not spoil. *)

LEMMA UploadStillKnows ==
  ASSUME Typed, StoreTypeOK', UploadKnows, UNCHANGED <<upload, misread>>,
         upload.user # None => Calm(upload.user)
  PROVE  UploadKnows'
<1>1. CASE upload.pc = "idle"
  BY <1>1 DEF UploadKnows
<1>2. CASE upload.pc # "idle"
  <2>1. upload.user \in Users /\ upload.file \in Files /\ upload.user # None
    BY <1>2, NoneIsNoValue DEF Typed, UploadLocals
  <2>2. /\ user_file_count'[upload.user] = user_file_count[upload.user]
        /\ Lists(upload.user, upload.file)' <=> Lists(upload.user, upload.file)
    BY <2>1, CalmKeeps DEF Calm, Typed, TypeOK, Lists
  <2>3. QED
    BY <2>2 DEF UploadKnows, Lists
<1>3. QED
  BY <1>1, <1>2

LEMMA InstantStillKnows ==
  ASSUME Typed, StoreTypeOK', InstantKnows, UNCHANGED <<instant, misread>>,
         instant.user # None => Calm(instant.user)
  PROVE  InstantKnows'
<1>1. CASE instant.pc = "idle"
  BY <1>1 DEF InstantKnows
<1>2. CASE instant.pc # "idle"
  <2>1. instant.user \in Users /\ instant.file \in Files /\ instant.user # None
    BY <1>2, NoneIsNoValue DEF Typed, InstantLocals
  <2>2. /\ user_file_count'[instant.user] = user_file_count[instant.user]
        /\ Lists(instant.user, instant.file)'
             <=> Lists(instant.user, instant.file)
    BY <2>1, CalmKeeps DEF Calm, Typed, TypeOK, Lists
  <2>3. QED
    BY <2>2 DEF InstantKnows, Lists
<1>3. QED
  BY <1>1, <1>2

LEMMA DealStillKnows ==
  ASSUME Typed, StoreTypeOK', DealKnows, UNCHANGED <<dealfile, misread>>,
         dealfile.user # None => Calm(dealfile.user)
  PROVE  DealKnows'
<1>1. CASE dealfile.pc = "idle"
  BY <1>1 DEF DealKnows, DelBegins
<1>2. CASE dealfile.pc # "idle"
  <2>1. /\ dealfile.user \in Users /\ dealfile.file \in Files
        /\ dealfile.user # None
    BY <1>2, NoneIsNoValue DEF Typed, DealLocals
  <2>2. /\ user_file_count'[dealfile.user] = user_file_count[dealfile.user]
        /\ Lists(dealfile.user, dealfile.file)'
             <=> Lists(dealfile.user, dealfile.file)
    BY <2>1, CalmKeeps DEF Calm, Typed, TypeOK, Lists
  <2>3. QED
    BY <2>2 DEF DealKnows, Lists
<1>3. QED
  BY <1>1, <1>2

-----------------------------------------------------------------------------
(* The steps of the programs *)

LEMMA UploadCalmSteps ==
  ASSUME Typed, UploadStep, UNCHANGED misread
  PROVE  \/ UploadInsertUserFile \/ UploadWriteCount
         \/ /\ UNCHANGED <<user_file_list, user_file_count>>
            /\ \A u \in Users : UploadOwes(u)' <=> UploadOwes(u)
            /\ UploadKnows => UploadKnows'
<1> USE DEF Typed, TypeOK, UploadTypeOK, UploadLocals, UploadOwes, UploadKnows, Lists
<1>1. CASE UploadStoreBlob
  BY <1>1 DEF UploadStoreBlob, StoreBlob, mysqlVars
<1>2. CASE UploadInsertFileInfo
  BY <1>2 DEF UploadInsertFileInfo, InsertFileInfo
<1>3. CASE UploadSelectCount
  BY <1>3 DEF UploadSelectCount, storeVars, mysqlVars
<1>4. CASE UploadReply
  BY <1>4 DEF UploadReply, UploadIdle, storeVars, mysqlVars
<1>5. QED
  BY <1>1, <1>2, <1>3, <1>4 DEF UploadStep

LEMMA UploadKeepsUser ==
  ASSUME UploadTypeOK, UploadStep
  PROVE  upload'.user \in {upload.user, None} /\ upload.pc # "idle"
<1>1. CASE UploadReply
  BY <1>1 DEF UploadReply, UploadIdle
<1>2. CASE UploadWriteCount
  BY <1>2 DEF UploadWriteCount, UploadReplies, UploadTypeOK
<1>3. CASE ~UploadReply /\ ~UploadWriteCount
  BY <1>3 DEF UploadStep, UploadStoreBlob, UploadInsertFileInfo,
    UploadInsertUserFile, UploadSelectCount, UploadTypeOK
<1>4. QED
  BY <1>1, <1>2, <1>3

LEMMA UploadKeepsDrift ==
  ASSUME Typed, Typed', DriftInv, UploadStep,
         UNCHANGED <<instant, dealfile, faults, misread>>
  PROVE  DriftInv'
<1>0. PICK v : v = upload.user
  OBVIOUS
<1>1. v \in Users /\ upload.file \in Files /\ v # None
  BY <1>0, UploadKeepsUser, NoneIsNoValue DEF Typed, TypeOK, UploadLocals
<1>2. v # instant.user /\ v # dealfile.user
  BY <1>0, <1>1 DEF DriftInv, KnowsInv, ServedOnce
<1>3. ServedOnce'
  BY UploadKeepsUser DEF DriftInv, KnowsInv, ServedOnce, Typed, TypeOK
<1>4. StoreTypeOK /\ StoreTypeOK'
  BY DEF Typed, TypeOK
<1>5. ASSUME \A u \in Users : u # v => Calm(u), UploadKnows'
      PROVE  KnowsInv'
  <2>1. /\ instant.user # None => Calm(instant.user)
        /\ dealfile.user # None => Calm(dealfile.user)
    BY <1>2, <1>5 DEF Typed, TypeOK, InstantTypeOK, DealTypeOK
  <2>2. QED
    BY <1>3, <1>4, <1>5, <2>1, InstantStillKnows, DealStillKnows
       DEF DriftInv, KnowsInv
<1>6. CASE UploadInsertUserFile
  <2>1. /\ upload'.pc = "select count" /\ upload'.user = v
        /\ upload.pc = "insert user file"
        /\ InsertUserFile(v, upload.file)
    BY <1>0, <1>6 DEF UploadInsertUserFile, Typed, TypeOK, UploadTypeOK
  <2>2. ~Lists(v, upload.file)
    BY <1>0, <2>1 DEF DriftInv, KnowsInv, UploadKnows
  <2>3. Owed(v) = 0 /\ Owed(v)' = 1
    BY <1>0, <1>2, <2>1 DEF Owed, UploadOwes, InstantOwes, DealOwes
  <2>4. \A u \in Users : u # v => Owed(u)' = Owed(u)
    BY <1>0, <2>1 DEF Owed, UploadOwes, InstantOwes, DealOwes
  <2>5. /\ \A u \in Users : u # v => Calm(u)
        /\ RowsInOrder(v)' /\ Drift(v)' = Drift(v)
    BY <1>1, <1>4, <2>1, <2>2, <2>3, InsertingUser
  <2>6. KnowsInv'
    BY <1>5, <2>1, <2>5 DEF UploadKnows
  <2>7. QED
    BY <1>1, <1>4, <2>4, <2>5, <2>6, MovedUser
<1>7. CASE UploadWriteCount
  <2>1. /\ upload'.pc = "reply" /\ upload'.user = v
        /\ upload.pc = "write count"
        /\ v \notin misread => upload.count = user_file_count[v]
        /\ IncrementCount(v, upload.count)
    BY <1>0, <1>7 DEF UploadWriteCount, UploadReplies, Typed, TypeOK, UploadTypeOK,
      DriftInv, KnowsInv, UploadKnows
  <2>2. Owed(v) = 1 /\ Owed(v)' = 0
    BY <1>0, <1>2, <2>1 DEF Owed, UploadOwes, InstantOwes, DealOwes
  <2>3. \A u \in Users : u # v => Owed(u)' = Owed(u)
    BY <1>0, <2>1 DEF Owed, UploadOwes, InstantOwes, DealOwes
  <2>4. /\ \A u \in Users : u # v => Calm(u)
        /\ RowsInOrder(v)' /\ (v \notin misread => Drift(v)' = Drift(v))
    BY <1>1, <1>4, <2>1, <2>2, CountingUser, MiscountedUser
       DEF IncrementCount, IncrementFails, UpdateCount
  <2>5. KnowsInv'
    BY <1>5, <2>1, <2>4 DEF UploadKnows
  <2>6. QED
    BY <1>1, <1>4, <2>3, <2>4, <2>5, MovedUser
<1>8. CASE ~UploadInsertUserFile /\ ~UploadWriteCount
  <2>1. /\ UNCHANGED <<user_file_list, user_file_count>>
        /\ \A u \in Users : UploadOwes(u)' <=> UploadOwes(u)
        /\ UploadKnows'
    BY <1>8, UploadCalmSteps DEF DriftInv, KnowsInv
  <2>2. \A u \in Users : Calm(u) /\ Owed(u)' = Owed(u)
    BY <2>1, RowsMatter DEF Owed, InstantOwes, DealOwes
  <2>3. QED
    BY <1>4, <1>5, <2>1, <2>2, CalmUser, DriftOfUsers
<1>9. QED
  BY <1>6, <1>7, <1>8

LEMMA InstantCalmSteps ==
  ASSUME Typed, InstantStep, UNCHANGED misread
  PROVE  \/ InstantInsertUserFile \/ InstantWriteCount
         \/ /\ UNCHANGED <<user_file_list, user_file_count>>
            /\ \A u \in Users : InstantOwes(u)' <=> InstantOwes(u)
            /\ InstantKnows => InstantKnows'
<1> USE DEF Typed, TypeOK, InstantTypeOK, InstantLocals, InstantOwes, InstantKnows, Lists,
        InstantReplies
<1>1. CASE InstantUnknown
  BY <1>1 DEF InstantUnknown, storeVars, mysqlVars
<1>2. CASE InstantSelectRefs
  BY <1>2 DEF InstantSelectRefs, storeVars, mysqlVars
<1>3. CASE InstantSelectOwn
  BY <1>3 DEF InstantSelectOwn, storeVars, mysqlVars
<1>4. CASE InstantWriteRefs
  BY <1>4 DEF InstantWriteRefs, UpdateFileInfo
<1>5. CASE InstantSelectCount
  BY <1>5 DEF InstantSelectCount, storeVars, mysqlVars
<1>6. CASE InstantReply
  BY <1>6 DEF InstantReply, InstantIdle, storeVars, mysqlVars
<1>7. QED
  BY <1>1, <1>2, <1>3, <1>4, <1>5, <1>6 DEF InstantStep

LEMMA InstantKeepsUser ==
  ASSUME InstantTypeOK, InstantStep
  PROVE  instant'.user \in {instant.user, None} /\ instant.pc # "idle"
<1>1. CASE InstantReply
  BY <1>1 DEF InstantReply, InstantIdle
<1>2. CASE InstantUnknown \/ InstantSelectOwn \/ InstantWriteCount
  BY <1>2 DEF InstantUnknown, InstantSelectOwn, InstantWriteCount,
    InstantReplies, InstantTypeOK
<1>3. CASE InstantSelectRefs \/ InstantWriteRefs \/ InstantInsertUserFile
             \/ InstantSelectCount
  BY <1>3 DEF InstantSelectRefs, InstantWriteRefs, InstantInsertUserFile,
    InstantSelectCount, InstantTypeOK
<1>4. QED
  BY <1>1, <1>2, <1>3 DEF InstantStep

LEMMA InstantKeepsDrift ==
  ASSUME Typed, Typed', DriftInv, InstantStep,
         UNCHANGED <<upload, dealfile, faults, misread>>
  PROVE  DriftInv'
<1>0. PICK v : v = instant.user
  OBVIOUS
<1>1. v \in Users /\ instant.file \in Files /\ v # None
  BY <1>0, InstantKeepsUser, NoneIsNoValue DEF Typed, TypeOK, InstantLocals
<1>2. v # upload.user /\ v # dealfile.user
  BY <1>0, <1>1 DEF DriftInv, KnowsInv, ServedOnce
<1>3. ServedOnce'
  BY InstantKeepsUser DEF DriftInv, KnowsInv, ServedOnce, Typed, TypeOK
<1>4. StoreTypeOK /\ StoreTypeOK'
  BY DEF Typed, TypeOK
<1>5. ASSUME \A u \in Users : u # v => Calm(u), InstantKnows'
      PROVE  KnowsInv'
  <2>1. /\ upload.user # None => Calm(upload.user)
        /\ dealfile.user # None => Calm(dealfile.user)
    BY <1>2, <1>5 DEF Typed, TypeOK, UploadTypeOK, DealTypeOK
  <2>2. QED
    BY <1>3, <1>4, <1>5, <2>1, UploadStillKnows, DealStillKnows
       DEF DriftInv, KnowsInv
<1>6. CASE InstantInsertUserFile
  <2>1. /\ instant'.pc = "select count" /\ instant'.user = v
        /\ instant.pc = "insert user file"
        /\ InsertUserFile(v, instant.file)
    BY <1>0, <1>6 DEF InstantInsertUserFile, Typed, TypeOK, InstantTypeOK
  <2>2. ~Lists(v, instant.file)
    BY <1>0, <2>1 DEF DriftInv, KnowsInv, InstantKnows
  <2>3. Owed(v) = 0 /\ Owed(v)' = 1
    BY <1>0, <1>2, <2>1 DEF Owed, UploadOwes, InstantOwes, DealOwes
  <2>4. \A u \in Users : u # v => Owed(u)' = Owed(u)
    BY <1>0, <2>1 DEF Owed, UploadOwes, InstantOwes, DealOwes
  <2>5. /\ \A u \in Users : u # v => Calm(u)
        /\ RowsInOrder(v)' /\ Drift(v)' = Drift(v)
    BY <1>1, <1>4, <2>1, <2>2, <2>3, InsertingUser
  <2>6. KnowsInv'
    BY <1>5, <2>1, <2>5 DEF InstantKnows
  <2>7. QED
    BY <1>1, <1>4, <2>4, <2>5, <2>6, MovedUser
<1>7. CASE InstantWriteCount
  <2>1. /\ instant'.pc = "reply" /\ instant'.user = v
        /\ instant.pc = "write count"
        /\ v \notin misread => instant.count = user_file_count[v]
        /\ IncrementCount(v, instant.count)
    BY <1>0, <1>7 DEF InstantWriteCount, InstantReplies, Typed, TypeOK,
      InstantTypeOK, DriftInv, KnowsInv, InstantKnows
  <2>2. Owed(v) = 1 /\ Owed(v)' = 0
    BY <1>0, <1>2, <2>1 DEF Owed, UploadOwes, InstantOwes, DealOwes
  <2>3. \A u \in Users : u # v => Owed(u)' = Owed(u)
    BY <1>0, <2>1 DEF Owed, UploadOwes, InstantOwes, DealOwes
  <2>4. /\ \A u \in Users : u # v => Calm(u)
        /\ RowsInOrder(v)' /\ (v \notin misread => Drift(v)' = Drift(v))
    BY <1>1, <1>4, <2>1, <2>2, CountingUser, MiscountedUser
       DEF IncrementCount, IncrementFails, UpdateCount
  <2>5. KnowsInv'
    BY <1>5, <2>1, <2>4 DEF InstantKnows
  <2>6. QED
    BY <1>1, <1>4, <2>3, <2>4, <2>5, MovedUser
<1>8. CASE ~InstantInsertUserFile /\ ~InstantWriteCount
  <2>1. /\ UNCHANGED <<user_file_list, user_file_count>>
        /\ \A u \in Users : InstantOwes(u)' <=> InstantOwes(u)
        /\ InstantKnows'
    BY <1>8, InstantCalmSteps DEF DriftInv, KnowsInv
  <2>2. \A u \in Users : Calm(u) /\ Owed(u)' = Owed(u)
    BY <2>1, RowsMatter DEF Owed, UploadOwes, DealOwes
  <2>3. QED
    BY <1>4, <1>5, <2>1, <2>2, CalmUser, DriftOfUsers
<1>9. QED
  BY <1>6, <1>7, <1>8

(* What a statement of dealfile but the two on the user's own rows and     *)
(* counter does to what dealfile has in hand.                              *)
DealGoesOn ==
  /\ dealfile.pc # "idle"
  /\ dealfile'.pc # "del: delete user file"
  /\ dealfile.pc # "del: delete user file"
  /\ dealfile'.user \in {dealfile.user, None}
  /\ dealfile'.pc \in DelBegins =>
       /\ dealfile.pc \in DelBegins
       /\ dealfile'.user = dealfile.user /\ dealfile'.file = dealfile.file
  /\ dealfile'.pc = "del: write count" =>
       dealfile'.count = user_file_count[dealfile.user]

LEMMA DealGoesOnSteps ==
  ASSUME DealTypeOK, DealStep
  PROVE  DelWriteCount \/ DelDeleteUserFile \/ DealGoesOn
<1> USE DEF DealTypeOK, DealGoes, DealReplies, DealGoesOn, DelBegins
<1>1. CASE ShareStep
  <2>1. CASE ShareZsetExit \/ ShareSelect \/ ShareZaddAgain \/ ShareMark
               \/ ShareInsert
    BY ZenonT(60), <2>1 DEF ShareZsetExit, ShareSelect, ShareZaddAgain, ShareMark,
      ShareInsert
  <2>2. CASE ShareSelectTotal \/ ShareWriteTotal \/ ShareZadd \/ ShareHset
    BY ZenonT(60), <2>2 DEF ShareSelectTotal, ShareWriteTotal, ShareZadd, ShareHset
  <2>3. QED
    BY <1>1, <2>1, <2>2 DEF ShareStep
<1>2. CASE DelZsetExit \/ DelNoStatus \/ DelSelectStatus \/ DelDeleteShare
  BY <1>2 DEF DelZsetExit, DelNoStatus, DelSelectStatus, DelDeleteShare
<1>3. CASE DelSelectTotal \/ DelWriteTotal \/ DelZrem \/ DelHdel
             \/ DelSelectCount
  <2>1. CASE DelSelectTotal \/ DelWriteTotal \/ DelZrem \/ DelHdel
    BY <2>1 DEF DelSelectTotal, DelWriteTotal, DelZrem, DelHdel
  <2>2. CASE DelSelectCount
    BY <2>2 DEF DelSelectCount
  <2>3. QED
    BY <1>3, <2>1, <2>2
<1>4. CASE DelNoRefs \/ DelSelectRefs \/ DelWriteRefs
  BY ZenonT(60), <1>4 DEF DelNoRefs, DelSelectRefs, DelWriteRefs
<1>5. CASE DelNoFileId \/ DelSelectFileId \/ DelDeleteFileInfo
             \/ DelRemoveBlob \/ DelRemoveNothing
  BY ZenonT(60), <1>5 DEF DelNoFileId, DelSelectFileId, DelDeleteFileInfo,
    DelRemoveBlob, DelRemoveNothing
<1>6. CASE PvStep
  BY ZenonT(60), <1>6 DEF PvStep, PvMissing, PvSelect, PvWrite
<1>7. CASE DealReply \/ DelHdelDies
  BY <1>7, DealEndsIdle
<1>8. QED
  BY <1>1, <1>2, <1>3, <1>4, <1>5, <1>6, <1>7 DEF DealStep, DelStep

LEMMA UpdateSharedCalm ==
  ASSUME StoreTypeOK, NEW v \in Users, NEW g \in Files, NEW n,
         UpdateShared(v, g, n)
  PROVE  \A u \in Users : Calm(u)
BY UpdatedRowsCalm DEF UpdateShared

LEMMA UpdateUserPvCalm ==
  ASSUME StoreTypeOK, NEW v \in Users, NEW g \in Files, NEW n,
         UpdateUserPv(v, g, n)
  PROVE  \A u \in Users : Calm(u)
BY UpdatedRowsCalm DEF UpdateUserPv

LEMMA ShareTotalCalm ==
  ASSUME StoreTypeOK, NEW n, SetCount(ShareTotal, n)
  PROVE  \A u \in Users : Calm(u)
<1>1. ShareTotal \in Counters /\ \A u \in Users : u # ShareTotal
  BY ShareTotalIsNoUser DEF Counters
<1>2. QED
  BY <1>1, SetCountElsewhere

LEMMA DealCalmSteps ==
  ASSUME Typed, DealStep, ~DelWriteCount, ~DelDeleteUserFile
  PROVE  \A u \in Users : Calm(u)
<1>1. CASE UNCHANGED <<user_file_list, user_file_count>>
  BY <1>1, RowsMatter
<1>2. StoreTypeOK
  BY DEF Typed, TypeOK
<1>3. dealfile.pc # "idle" =>
        dealfile.user \in Users /\ dealfile.file \in Files
  BY DEF Typed, DealLocals
<1>4. CASE ShareMark
  BY <1>2, <1>3, <1>4, UpdateSharedCalm DEF ShareMark
<1>5. CASE PvWrite
  BY <1>2, <1>3, <1>5, UpdateUserPvCalm DEF PvWrite
<1>6. CASE DelWriteTotal
  BY <1>2, <1>6, ShareTotalCalm DEF DelWriteTotal, UpdateCount
<1>7. CASE ShareWriteTotal
  <2>1. CASE UNCHANGED storeVars
    BY <1>1, <2>1 DEF storeVars, mysqlVars
  <2>2. CASE ~UNCHANGED storeVars
    BY <1>2, <1>7, <2>2, ShareTotalCalm
       DEF ShareWriteTotal, IncrementCount, UpdateCount
  <2>3. QED
    BY <2>1, <2>2
<1>8. CASE ShareStep /\ ~ShareMark /\ ~ShareWriteTotal
  <2>1. UNCHANGED <<user_file_list, user_file_count>>
    BY <1>8 DEF ShareStep, ShareZsetExit, ShareSelect, ShareZaddAgain,
      ShareInsert, ShareSelectTotal, ShareZadd, ShareHset, Zadd, SetZset,
      InsertShare, SetShares, Hset, SetHash, storeVars, mysqlVars
  <2>2. QED
    BY <1>1, <2>1
<1>9. CASE DelStep /\ ~DelWriteTotal
  <2>1. UNCHANGED <<user_file_list, user_file_count>>
    BY <1>9 DEF DelStep, DelZsetExit, DelNoStatus, DelSelectStatus,
      DelDeleteShare, DelSelectTotal, DelZrem, DelHdel, DelSelectCount,
      DelHdelDies, DelNoRefs, DelSelectRefs, DelWriteRefs, DelNoFileId,
      DelSelectFileId, DelDeleteFileInfo, DelRemoveBlob, DelRemoveNothing,
      DeleteShare, SetShares, Zrem,
      SetZset, Hdel, SetHash, UpdateFileInfo, DeleteFileInfo, RemoveBlob,
      storeVars, mysqlVars
  <2>2. QED
    BY <1>1, <2>1
<1>10. CASE PvMissing \/ PvSelect \/ DealReply
  BY <1>1, <1>10 DEF PvMissing, PvSelect, DealReply, storeVars, mysqlVars
<1>11. QED
  BY <1>4, <1>5, <1>6, <1>7, <1>8, <1>9, <1>10 DEF DealStep, PvStep

LEMMA DealKeepsDrift ==
  ASSUME Typed, Typed', DriftInv, DealStep,
         UNCHANGED <<upload, instant, faults, misread>>
  PROVE  DriftInv'
<1>0. PICK v : v = dealfile.user
  OBVIOUS
<1>1. /\ dealfile.pc # "idle"
      /\ dealfile'.user \in {v, None}
      /\ DelWriteCount \/ DelDeleteUserFile => dealfile'.user = v
  BY <1>0, DealGoesOnSteps DEF DealGoesOn, DelWriteCount, DelDeleteUserFile,
    DealGoes, Typed, TypeOK, DealTypeOK
<1>2. v \in Users /\ dealfile.file \in Files /\ v # None
  BY <1>0, <1>1, NoneIsNoValue DEF Typed, DealLocals
<1>3. v # upload.user /\ v # instant.user
  BY <1>0, <1>2 DEF DriftInv, KnowsInv, ServedOnce
<1>4. ServedOnce'
  BY <1>0, <1>1 DEF DriftInv, KnowsInv, ServedOnce
<1>5. StoreTypeOK /\ StoreTypeOK'
  BY DEF Typed, TypeOK
<1>6. ASSUME \A u \in Users : u # v => Calm(u), DealKnows'
      PROVE  KnowsInv'
  <2>1. /\ upload.user # None => Calm(upload.user)
        /\ instant.user # None => Calm(instant.user)
    BY <1>3, <1>6 DEF Typed, TypeOK, UploadTypeOK, InstantTypeOK
  <2>2. QED
    BY <1>4, <1>5, <1>6, <2>1, UploadStillKnows, InstantStillKnows
       DEF DriftInv, KnowsInv
<1>7. CASE DelWriteCount
  <2>1. /\ dealfile'.pc = "del: delete user file" /\ dealfile'.user = v
        /\ dealfile'.file = dealfile.file
        /\ dealfile.pc = "del: write count"
        /\ v \notin misread => dealfile.count = user_file_count[v]
        /\ dealfile.count # None
        /\ Lists(v, dealfile.file)
        /\ IF dealfile.count = 1 THEN DeleteCount(v)
                                 ELSE UpdateCount(v, dealfile.count - 1)
    BY <1>0, <1>7, NoneIsNoValue DEF DelWriteCount, DealGoes, Typed, TypeOK,
      DealTypeOK, DealLocals, DriftInv, KnowsInv, DealKnows, DelBegins
  <2>2. Owed(v) = 0 /\ Owed(v)' = 1
    BY <1>0, <1>3, <2>1 DEF Owed, UploadOwes, InstantOwes, DealOwes
  <2>3. \A u \in Users : u # v => Owed(u)' = Owed(u)
    BY <1>0, <2>1 DEF Owed, UploadOwes, InstantOwes, DealOwes
  <2>4. /\ \A u \in Users : u # v => Calm(u)
        /\ RowsInOrder(v)' /\ (v \notin misread => Drift(v)' = Drift(v))
    BY <1>2, <1>5, <2>1, <2>2, DiscountingUser, MiscountedUser
       DEF DeleteCount, UpdateCount
  <2>5. user_file_list' = user_file_list
    BY <2>1 DEF DeleteCount, UpdateCount, SetCount
  <2>6. KnowsInv'
    BY <1>6, <2>1, <2>4, <2>5 DEF DealKnows, Lists
  <2>7. QED
    BY <1>2, <1>5, <2>3, <2>4, <2>6, MovedUser
<1>8. CASE DelDeleteUserFile
  <2>1. /\ dealfile'.pc = "del: select refs" /\ dealfile'.user = v
        /\ dealfile.pc = "del: delete user file"
        /\ Lists(v, dealfile.file)
        /\ DeleteUserFile(v, dealfile.file)
    BY <1>0, <1>8 DEF DelDeleteUserFile, DealGoes, Typed, TypeOK, DealTypeOK,
      DriftInv, KnowsInv, DealKnows, DelBegins
  <2>2. Owed(v) = 1 /\ Owed(v)' = 0
    BY <1>0, <1>3, <2>1 DEF Owed, UploadOwes, InstantOwes, DealOwes
  <2>3. \A u \in Users : u # v => Owed(u)' = Owed(u)
    BY <1>0, <2>1 DEF Owed, UploadOwes, InstantOwes, DealOwes
  <2>4. /\ \A u \in Users : u # v => Calm(u)
        /\ RowsInOrder(v)' /\ Drift(v)' = Drift(v)
    BY <1>2, <1>5, <2>1, <2>2, DeletingUser
  <2>5. KnowsInv'
    BY <1>6, <2>1, <2>4 DEF DealKnows, DelBegins
  <2>6. QED
    BY <1>2, <1>5, <2>3, <2>4, <2>5, MovedUser
<1>9. CASE ~DelWriteCount /\ ~DelDeleteUserFile
  <2>1. DealGoesOn
    BY <1>9, DealGoesOnSteps DEF Typed, TypeOK
  <2>2. \A u \in Users : Calm(u)
    BY <1>9, DealCalmSteps
  <2>3. \A u \in Users : Owed(u)' = Owed(u)
    BY <2>1 DEF DealGoesOn, Owed, UploadOwes, InstantOwes, DealOwes
  <2>4. PICK g : g = dealfile.file
    OBVIOUS
  <2>5. /\ Lists(v, g)' <=> Lists(v, g)
        /\ user_file_count'[v] = user_file_count[v]
    BY <1>2, <1>5, <2>2, <2>4, CalmKeeps DEF Calm
  <2>6. DealKnows'
    <3>1. dealfile'.pc \in DelBegins =>
            user_file_list'[dealfile'.user][dealfile'.file] # <<>>
      BY <1>0, <2>1, <2>4, <2>5 DEF DealGoesOn, DealKnows, DriftInv, KnowsInv,
        Lists
    <3>2. dealfile'.pc = "del: write count" =>
            /\ dealfile'.user = v
            /\ dealfile'.count = user_file_count'[v]
      BY <1>0, <2>1, <2>5 DEF DealGoesOn, DelBegins
    <3>3. QED
      BY <3>1, <3>2 DEF DealKnows, Lists, DelBegins
  <2>7. KnowsInv'
    BY <1>6, <2>2, <2>6
  <2>8. QED
    BY <1>5, <2>2, <2>3, <2>7, CalmUser, DriftOfUsers
<1>10. QED
  BY <1>7, <1>8, <1>9

LEMMA DealShareCalm ==
  ASSUME Typed, DealShareStep
  PROVE  \A u \in Users : Calm(u)
<1>1. StoreTypeOK
  BY DEF Typed, TypeOK
<1>2. CASE UNCHANGED <<user_file_list, user_file_count>>
  BY <1>2, RowsMatter
<1>3. CASE CancelMark
  BY <1>1, <1>3, UpdateSharedCalm DEF CancelMark, Typed, DealShareLocals
<1>4. CASE CancelDeleteTotal
  BY <1>1, <1>4, ShareTotalCalm DEF CancelDeleteTotal, DeleteCount
<1>5. CASE ~CancelMark /\ ~CancelDeleteTotal
  <2>1. UNCHANGED <<user_file_list, user_file_count>>
    BY <1>5 DEF DealShareStep, SharePvStep, CancelStep, SaveStep,
      SharePvMissing, SharePvSelect, SharePvWrite, SharePvZsetExit,
      SharePvZincrby, SharePvZadd, SharePvHset, CancelSelectTotal,
      CancelCrashes, CancelDeleteShare, CancelZrem, CancelHdel,
      CancelHdelDies, SaveSelectOwn, SaveUnknown, SaveSelectRefs, SaveWriteRefs,
      DealShareReply, UpdateSharePv, DeleteShare, SetShares, Zincrby, Zadd,
      Zrem, SetZset, Hset, Hdel, SetHash, storeVars, mysqlVars
  <2>2. QED
    BY <1>2, <2>1
<1>6. QED
  BY <1>3, <1>4, <1>5

(* A step of any other program *)
LEMMA OthersKeepDrift ==
  ASSUME Typed, Typed', DriftInv, \A u \in Users : Calm(u),
         UNCHANGED <<upload, instant, dealfile, faults, misread>>
  PROVE  DriftInv'
<1>1. StoreTypeOK /\ StoreTypeOK'
  BY DEF Typed, TypeOK
<1>2. KnowsInv'
  <2>1. /\ upload.user # None => Calm(upload.user)
        /\ instant.user # None => Calm(instant.user)
        /\ dealfile.user # None => Calm(dealfile.user)
    BY DEF Typed, TypeOK, UploadTypeOK, InstantTypeOK, DealTypeOK
  <2>2. QED
    BY <1>1, <2>1, UploadStillKnows, InstantStillKnows, DealStillKnows
       DEF DriftInv, KnowsInv, ServedOnce
<1>3. \A u \in Users : Owed(u)' = Owed(u)
  BY DEF Owed, UploadOwes, InstantOwes, DealOwes
<1>4. QED
  BY <1>1, <1>2, <1>3, CalmUser, DriftOfUsers

-----------------------------------------------------------------------------
(* Requests: the user awaits the answers, or whoever asks finds all        *)
(* programs at rest, and asks what the lists offer.                        *)

LEMMA RequestKeepsDrift ==
  ASSUME Typed, Typed', DriftInv, KnowsInv',
         UNCHANGED <<storeVars, faults, misread>>,
         \A u \in Users : Owed(u)' = Owed(u)
  PROVE  DriftInv'
<1>1. \A u \in Users : Calm(u)
  BY RowsMatter DEF storeVars, mysqlVars
<1>2. QED
  BY <1>1, CalmUser, DriftOfUsers DEF Typed, TypeOK

LEMMA AskKeepsDrift ==
  ASSUME Serialized \/ \A u \in Users : Unserved(u),
         Careful, Typed, Typed', DriftInv, Ask
  PROVE  DriftInv'
<1>1. UNCHANGED <<faults, misread>>
  BY DEF Ask, AskUpload, AskInstant, AskDeal, AskSharePv, AskCancel, AskSave,
    AskListing, Admits
<1>2. UNCHANGED storeVars
  BY ZenonT(60) DEF Ask, AskUpload, AskInstant, AskDeal, AskSharePv, AskCancel, AskSave,
    AskListing, UploadAccept, InstantAccept, DealAccept, DealShareAccept,
    ListingAccept
<1>3. KnowsInv
  BY DEF DriftInv
<1>4. ASSUME NEW u \in Users, NEW f \in Files, AskUpload(u, f)
      PROVE  DriftInv'
  <2>1. /\ upload.pc = "idle" /\ upload'.pc = "store blob"
        /\ upload'.user = u /\ upload'.file = f
        /\ UNCHANGED <<instant, dealfile>>
        /\ u # instant.user /\ u # dealfile.user
        /\ ~Lists(u, f)
    BY <1>4 DEF AskUpload, UploadAccept, UploadIdle, Awaited, Unserved
  <2>2. KnowsInv'
    BY <1>1, <1>2, <1>3, <2>1 DEF KnowsInv, ServedOnce, UploadKnows, InstantKnows,
      DealKnows, Lists, storeVars, mysqlVars
  <2>3. \A w \in Users : Owed(w)' = Owed(w)
    BY <2>1 DEF Owed, UploadOwes, InstantOwes, DealOwes
  <2>4. QED
    BY <1>1, <1>2, <2>2, <2>3, RequestKeepsDrift
<1>5. ASSUME NEW u \in Users, NEW f \in Files, AskInstant(u, f)
      PROVE  DriftInv'
  <2>1. /\ instant.pc = "idle" /\ instant'.pc = "select refs"
        /\ instant'.user = u /\ instant'.file = f
        /\ UNCHANGED <<upload, dealfile>>
        /\ u # upload.user /\ u # dealfile.user
        /\ ~Lists(u, f)
    BY <1>5 DEF AskInstant, InstantAccept, InstantIdle, Awaited, Unserved
  <2>2. KnowsInv'
    BY <1>1, <1>2, <1>3, <2>1 DEF KnowsInv, ServedOnce, UploadKnows, InstantKnows,
      DealKnows, Lists, storeVars, mysqlVars
  <2>3. \A w \in Users : Owed(w)' = Owed(w)
    BY <2>1 DEF Owed, UploadOwes, InstantOwes, DealOwes
  <2>4. QED
    BY <1>1, <1>2, <2>2, <2>3, RequestKeepsDrift
<1>6. ASSUME NEW u \in Users, NEW f \in Files,
             NEW cmd \in {"share", "del", "pv"}, AskDeal(cmd, u, f)
      PROVE  DriftInv'
  <2>1. /\ dealfile.pc = "idle"
        /\ dealfile'.pc \in {"share: zset_exit", "del: zset_exit",
                             "pv: select"}
        /\ dealfile'.user = u /\ dealfile'.file = f
        /\ UNCHANGED <<upload, instant>>
        /\ u # upload.user /\ u # instant.user
        /\ Lists(u, f)
    BY <1>6 DEF AskDeal, DealAccept, DealIdle, Awaited, Unserved
  <2>2. KnowsInv'
    BY <1>1, <1>2, <1>3, <2>1 DEF KnowsInv, ServedOnce, UploadKnows, InstantKnows,
      DealKnows, Lists, storeVars, mysqlVars
  <2>3. \A w \in Users : Owed(w)' = Owed(w)
    BY <2>1 DEF Owed, UploadOwes, InstantOwes, DealOwes
  <2>4. QED
    BY <1>1, <1>2, <2>2, <2>3, RequestKeepsDrift
<1>7. CASE UNCHANGED <<upload, instant, dealfile>>
  <2>1. \A u \in Users : Calm(u)
    BY <1>2, RowsMatter DEF storeVars, mysqlVars
  <2>2. QED
    BY <1>1, <1>7, <2>1, OthersKeepDrift
<1>8. QED
  BY <1>4, <1>5, <1>6, <1>7 DEF Ask, AskSharePv, AskCancel, AskSave,
    AskListing

-----------------------------------------------------------------------------
(* A fault: the program forgets what it owed. *)

LEMMA FaultKeepsDrift ==
  ASSUME Typed, Typed', DriftInv, KnowsInv', UNCHANGED storeVars,
         faults' = faults + 1, misread \subseteq misread'
  PROVE  DriftInv'
<1>1. ASSUME NEW u \in Users
      PROVE  /\ RowsInOrder(u)'
             /\ u \notin misread' => Drift(u)' \in (0 - faults')..faults'
  <2>1. Calm(u)
    BY RowsMatter DEF storeVars, mysqlVars
  <2>2. /\ RowSet(u)' = RowSet(u)
        /\ CountOf(u)' = CountOf(u)
        /\ \A f \in Files :
             Len(user_file_list'[u][f]) = Len(user_file_list[u][f])
    BY <2>1, CalmKeeps DEF Typed, TypeOK
  <2>3. RowsInOrder(u)'
    BY <2>2 DEF DriftInv, OneRowPerFile, RowsInOrder, Files
  <2>4. CountOf(u) \in Int /\ Cardinality(RowSet(u)) \in Nat /\ faults \in Nat
    BY NumbersOfUser DEF Typed, TypeOK
  <2>5. Owed(u) \in {0, 1} /\ Owed(u)' \in {0, 1}
    BY DEF Owed
  <2>6. u \notin misread' => Drift(u) \in (0 - faults)..faults
    BY DEF DriftInv
  <2>7. u \notin misread' => Drift(u)' \in (0 - faults')..faults'
    BY <2>2, <2>4, <2>5, <2>6 DEF Drift
  <2>8. QED
    BY <2>3, <2>7
<1>2. QED
  BY <1>1 DEF DriftInv, OneRowPerFile, RowsInOrder, Files

LEMMA FaultKeepsKnows ==
  ASSUME Typed, KnowsInv, CallFails \/ Killed
  PROVE  /\ KnowsInv'
         /\ UNCHANGED <<storeVars, misread>> /\ faults' = faults + 1
<1>1. faults' = faults + 1 /\ UNCHANGED misread
  BY DEF CallFails, Killed, Faulty
<1>2. UNCHANGED storeVars
  BY DEF CallFails, Killed, UploadFails, InstantFails, DealFails,
    DealShareFails, ListingFails, RankTotalMisread
<1>3. \/ UNCHANGED upload
      \/ upload'.pc = "reply" /\ upload'.user = upload.user
      \/ upload'.pc = "idle" /\ upload'.user = None
  <2>1. UNCHANGED upload \/ UploadFails \/ upload' = UploadIdle
    BY DEF CallFails, Killed
  <2>2. CASE UploadFails
    BY <2>2 DEF UploadFails, UploadReplies, UploadTypeOK, Typed, TypeOK
  <2>3. CASE upload' = UploadIdle
    BY <2>3 DEF UploadIdle
  <2>4. QED
    BY <2>1, <2>2, <2>3
<1>4. \/ UNCHANGED instant
      \/ instant'.pc = "reply" /\ instant'.user = instant.user
      \/ instant'.pc = "idle" /\ instant'.user = None
  <2>1. UNCHANGED instant \/ InstantFails \/ instant' = InstantIdle
    BY DEF CallFails, Killed
  <2>2. CASE InstantFails
    BY <2>2 DEF InstantFails, InstantReplies, InstantTypeOK, Typed, TypeOK
  <2>3. CASE instant' = InstantIdle
    BY <2>3 DEF InstantIdle
  <2>4. QED
    BY <2>1, <2>2, <2>3
<1>5. \/ UNCHANGED dealfile
      \/ dealfile'.pc = "reply" /\ dealfile'.user = dealfile.user
      \/ dealfile'.pc = "idle" /\ dealfile'.user = None
  <2>1. UNCHANGED dealfile \/ DealFails \/ dealfile' = DealIdle
    BY DEF CallFails, Killed
  <2>2. CASE DealFails
    BY <2>2 DEF DealFails, DealReplies, DealTypeOK, Typed, TypeOK
  <2>3. CASE dealfile' = DealIdle
    BY <2>3 DEF DealIdle
  <2>4. QED
    BY <2>1, <2>2, <2>3
<1>6. UploadKnows'
  BY <1>1, <1>2, <1>3 DEF KnowsInv, UploadKnows, Lists, storeVars, mysqlVars
<1>7. InstantKnows'
  BY <1>1, <1>2, <1>4 DEF KnowsInv, InstantKnows, Lists, storeVars, mysqlVars
<1>8. DealKnows'
  BY <1>1, <1>2, <1>5 DEF KnowsInv, DealKnows, DelBegins, Lists, storeVars, mysqlVars
<1>9. ServedOnce'
  BY <1>3, <1>4, <1>5 DEF KnowsInv, ServedOnce
<1>10. QED
  BY <1>1, <1>2, <1>6, <1>7, <1>8, <1>9 DEF KnowsInv

(* A SELECT that is misread: the program goes on with the same request. *)
LEMMA MisreadKeepsKnows ==
  ASSUME Typed, KnowsInv, Misreads
  PROVE  /\ KnowsInv'
         /\ UNCHANGED storeVars /\ faults' = faults + 1
         /\ misread \subseteq misread'
<1>1. UNCHANGED storeVars /\ misread \subseteq misread'
  BY MisreadsRecorded
<1>2. faults' = faults + 1
  BY DEF Misreads, Faulty
<1>3. /\ upload'.user = upload.user /\ upload'.file = upload.file
      /\ \/ UNCHANGED upload
         \/ upload'.pc = "reply"
         \/ upload'.pc = "write count" /\ upload'.user \in misread'
  BY DEF Misreads, UploadMisreads, UploadReplies, Missed, UploadTypeOK,
    Typed, TypeOK
<1>4. /\ instant'.user = instant.user /\ instant'.file = instant.file
      /\ \/ UNCHANGED instant
         \/ instant'.pc = "reply"
         \/ /\ instant.pc \in {"select refs", "select own"}
            /\ instant'.pc \in {"select own", "write refs"}
         \/ instant'.pc = "write count" /\ instant'.user \in misread'
  BY DEF Misreads, InstantMisreads, InstantReplies, Missed, InstantTypeOK,
    Typed, TypeOK
<1>5. /\ dealfile'.user = dealfile.user /\ dealfile'.file = dealfile.file
      /\ \/ UNCHANGED dealfile
         \/ dealfile'.pc \notin DelBegins
         \/ /\ dealfile.pc \in DelBegins
            /\ dealfile'.pc = "del: write count" =>
                 dealfile'.user \in misread'
  <2>1. CASE UNCHANGED dealfile
    BY <2>1
  <2>2. CASE DealMisreads
    BY <2>2 DEF DealMisreads, ShareMisreads, DelMisreads, PvMisreads,
      DealGoes, Missed, DelBegins, DealTypeOK, Typed, TypeOK
  <2>3. QED
    BY <2>1, <2>2 DEF Misreads
<1>6. UploadKnows'
  BY <1>1, <1>3 DEF KnowsInv, UploadKnows, Lists, storeVars, mysqlVars
<1>7. InstantKnows'
  BY <1>1, <1>4 DEF KnowsInv, InstantKnows, Lists, storeVars, mysqlVars
<1>8. DealKnows'
  BY <1>1, <1>5 DEF KnowsInv, DealKnows, DelBegins, Lists, storeVars,
    mysqlVars
<1>9. ServedOnce'
  BY <1>3, <1>4, <1>5 DEF KnowsInv, ServedOnce
<1>10. QED
  BY <1>1, <1>2, <1>6, <1>7, <1>8, <1>9 DEF KnowsInv

LEMMA DriftInductive ==
  ASSUME Serialized \/ (Ask => \A u \in Users : Unserved(u)),
         Careful, Typed, DriftInv, [Next]_vars
  PROVE  DriftInv'
<1>1. Typed'
  BY NextTyped
<1>2. ASSUME \A u \in Users : Calm(u),
             UNCHANGED <<upload, instant, dealfile, faults, misread>>
      PROVE  DriftInv'
  BY <1>1, <1>2, OthersKeepDrift
<1>3. CASE CallFails \/ Misreads \/ Killed
  BY <1>1, <1>3, FaultKeepsKnows, MisreadKeepsKnows, FaultKeepsDrift
     DEF DriftInv
<1>4. CASE UNCHANGED <<storeVars, upload, instant, dealfile, faults, misread>>
  BY <1>2, <1>4, RowsMatter DEF storeVars, mysqlVars
<1>5. CASE UploadRuns \/ InstantRuns \/ DealRuns
  BY <1>1, <1>5, UploadKeepsDrift, InstantKeepsDrift, DealKeepsDrift
     DEF UploadRuns, InstantRuns, DealRuns, boundVars
<1>6. CASE DealShareRuns
  BY <1>2, <1>6, DealShareCalm DEF DealShareRuns, boundVars
<1>7. CASE ListingRuns
  BY <1>2, <1>7, ListingKeepsTables, RowsMatter
     DEF ListingRuns, boundVars, mysqlVars
<1>8. CASE Ask
  BY <1>1, <1>8, AskKeepsDrift
<1>9. QED
  BY <1>3, <1>4, <1>5, <1>6, <1>7, <1>8 DEF Next, Revived, Done, vars,
    programVars, boundVars

LEMMA DriftAtFirst == Init => DriftInv
<1> SUFFICES ASSUME Init PROVE DriftInv
  OBVIOUS
<1>1. /\ upload.pc = "idle" /\ upload.user = None
      /\ instant.pc = "idle" /\ instant.user = None
      /\ dealfile.pc = "idle" /\ dealfile.user = None
  BY DEF Init, UploadIdle, InstantIdle, DealIdle
<1>2. KnowsInv
  BY <1>1 DEF KnowsInv, ServedOnce, UploadKnows, InstantKnows, DealKnows,
    DelBegins
<1>3. ASSUME NEW u \in Users
      PROVE  /\ \A f \in Files : Len(user_file_list[u][f]) <= 1
             /\ IsFiniteSet(RowSet(u))
             /\ u \notin misread => Drift(u) \in (0 - faults)..faults
  <2>1. \A f \in Files : user_file_list[u][f] = <<>>
    BY DEF Init, StoreInit
  <2>2. RowSet(u) = {}
    BY <2>1, EmptySeq DEF RowSet
  <2>3. CountOf(u) = 0
    BY DEF Init, StoreInit, CountOf, Counters
  <2>4. Owed(u) = 0
    BY <1>1 DEF Owed, UploadOwes, InstantOwes, DealOwes
  <2>5. Cardinality({}) = 0 /\ IsFiniteSet({})
    BY FS_EmptySet
  <2>6. Drift(u) = 0 /\ faults = 0
    BY <2>2, <2>3, <2>4, <2>5 DEF Drift, Init
  <2>7. QED
    BY <2>1, <2>2, <2>5, <2>6, EmptySeq
<1>4. QED
  BY <1>2, <1>3 DEF DriftInv, OneRowPerFile

(* Every failure and every kill leaves a user's counter at most one off    *)
(* the user's rows, and nothing else does, also while other users upload,  *)
(* take over and delete the same contents: so it is for users who await    *)
(* their answers and ask what their lists offer, unless the SELECT that    *)
(* failed was the one on this counter and the program did not notice.      *)
THEOREM DriftStaysWithinFaults ==
  ASSUME Serialized, Careful
  PROVE  Spec => []DriftWithinFaults
<1>1. Typed /\ DriftInv /\ [Next]_vars => DriftInv'
  BY DriftInductive
<1>2. Typed /\ DriftInv => DriftWithinFaults
  <2> SUFFICES ASSUME Typed, DriftInv, NEW u \in Users \ misread, Unserved(u)
               PROVE  CountOf(u) - RowsOf(u) \in (0 - faults)..faults
    BY DEF DriftWithinFaults
  <2>1. Owed(u) = 0
    BY DEF Unserved, Owed, UploadOwes, InstantOwes, DealOwes
  <2>2. RowsOf(u) = Cardinality(RowSet(u))
    BY DEF RowsOf, RowSet
  <2>3. CountOf(u) \in Int /\ Cardinality(RowSet(u)) \in Nat
    BY NumbersOfUser DEF Typed, TypeOK
  <2>4. Drift(u) \in (0 - faults)..faults
    BY DEF DriftInv
  <2>5. QED
    BY <2>1, <2>2, <2>3, <2>4 DEF Drift
<1>3. QED
  BY <1>1, <1>2, DriftAtFirst, AlwaysTyped, PTL DEF Spec
-----------------------------------------------------------------------------
(* The ranking beside the shares *)

(* Between the SELECT of the reload and its last HSET, and between the     *)
(* INSERT of dealfile and its HSET, a shared file may be missing in Redis: *)
(* then one of the two is still going to put it there.                     *)
Reloads(f) ==
  /\ listing.pc \in {"rank: zadd", "rank: hset"}
  /\ \E row \in listing.rows : row.file = f

MemberComes(f) ==
  \/ f \in Ranked
  \/ /\ dealfile.pc \in {"share: select total", "share: write total",
                         "share: zadd"}
     /\ dealfile.file = f
  \/ listing.pc \in {"rank: del hash", "rank: select shares"}
  \/ Reloads(f)

NameComes(f) ==
  \/ f \in hash
  \/ /\ dealfile.pc \in {"share: select total", "share: write total",
                         "share: zadd", "share: hset"}
     /\ dealfile.file = f
  \/ listing.pc = "rank: select shares"
  \/ Reloads(f)
  \/ listing.pc = "rank: hset" /\ listing.row = f

(* What a deletion is about to take from Redis, nobody shares any more,    *)
(* for there is nobody else; a share finds the total as it read it, and so *)
(* goes on to write Redis.                                                 *)
OneUser == \A u, v \in Users : u = v

RankedInv ==
  /\ dealshare.pc \notin CancelSteps
  /\ dealfile.pc \in DelSteps => OneUser
  /\ dealfile.pc = "share: write total" =>
       dealfile.count = user_file_count[ShareTotal]
  /\ dealfile.pc \in {"del: select total", "del: write total", "del: zrem",
                      "del: hdel"} => ~IsShared(dealfile.file)
  /\ listing.pc # "idle" => listing.mysql
  /\ \A f \in Files : IsShared(f) => MemberComes(f) /\ NameComes(f)

(* A statement after which no file is shared that was not, Redis has what  *)
(* it had, and the total is as it was.                                     *)
RankKept ==
  /\ \A f \in Files : IsShared(f)' => IsShared(f)
  /\ Ranked \subseteq Ranked' /\ hash \subseteq hash'
  /\ user_file_count'[ShareTotal] = user_file_count[ShareTotal]

LEMMA RankKeptKeeps ==
  ASSUME RankedInv, Typed, RankKept, UNCHANGED <<dealfile, listing>>,
         dealshare'.pc \notin CancelSteps
  PROVE  RankedInv'
<1>1. ASSUME NEW f \in Files, IsShared(f)'
      PROVE  MemberComes(f)' /\ NameComes(f)'
  <2>1. MemberComes(f) /\ NameComes(f)
    BY <1>1 DEF RankedInv, RankKept
  <2>2. QED
    BY <2>1 DEF RankKept, MemberComes, NameComes, Reloads
<1>2. dealfile.pc \in {"del: select total", "del: write total", "del: zrem",
                       "del: hdel"} => ~IsShared(dealfile.file)'
  <2>1. dealfile.pc # "idle" => dealfile.file \in Files
    BY DEF Typed, DealLocals
  <2>2. PICK g : g = dealfile.file
    OBVIOUS
  <2>3. g \in Files /\ ~IsShared(g) => ~IsShared(g)'
    BY DEF RankKept
  <2>4. QED
    BY <2>1, <2>2, <2>3 DEF RankedInv, IsShared
<1>3. dealfile'.pc = "share: write total" =>
        dealfile'.count = user_file_count'[ShareTotal]
  BY DEF RankedInv, RankKept
<1>4. QED
  BY <1>1, <1>2, <1>3 DEF RankedInv, CancelSteps, Files

LEMMA StoresSameRank ==
  ASSUME UNCHANGED <<share_file_list, zset, hash>>,
         user_file_count'[ShareTotal] = user_file_count[ShareTotal]
  PROVE  RankKept
BY DEF RankKept, IsShared, Ranked, Files

(* What Redis holds after its commands *)

LEMMA ZaddRanks ==
  ASSUME StoreTypeOK, NEW g \in Files, NEW n \in Int, Zadd(g, n)
  PROVE  /\ Ranked' = Ranked \cup {g}
         /\ UNCHANGED <<share_file_list, user_file_count, hash>>
BY NoneIsNoValue DEF Zadd, SetZset, Ranked, StoreTypeOK, mysqlVars

LEMMA ZincrbyRanks ==
  ASSUME StoreTypeOK, NEW g \in Files, Zincrby(g)
  PROVE  /\ Ranked' = Ranked \cup {g}
         /\ UNCHANGED <<share_file_list, user_file_count, hash>>
<1> DEFINE n == IF zset[g] = None THEN 1 ELSE zset[g] + 1
<1>1. n \in Int
  BY DEF StoreTypeOK
<1>2. Zadd(g, n)
  BY DEF Zincrby, Zadd
<1> HIDE DEF n
<1>3. QED
  BY <1>1, <1>2, ZaddRanks

LEMMA ZremRanks ==
  ASSUME StoreTypeOK, NEW g \in Files, Zrem(g)
  PROVE  /\ Ranked' = Ranked \ {g}
         /\ UNCHANGED <<share_file_list, user_file_count, hash>>
BY DEF Zrem, SetZset, Ranked, StoreTypeOK, mysqlVars

(* upload and md5 *)

LEMMA CountOfUserSame ==
  ASSUME StoreTypeOK, NEW v \in Users, NEW read, IncrementCount(v, read)
  PROVE  /\ UNCHANGED <<share_file_list, zset, hash>>
         /\ user_file_count'[ShareTotal] = user_file_count[ShareTotal]
<1>1. v # ShareTotal
  BY ShareTotalIsNoUser
<1>2. QED
  BY <1>1 DEF IncrementCount, UpdateCount, SetCount, StoreTypeOK, Counters,
    storeVars, mysqlVars, redisVars

LEMMA UploadSameRank ==
  ASSUME Typed, UploadStep
  PROVE  RankKept
<1>1. CASE UploadWriteCount
  BY <1>1, CountOfUserSame, StoresSameRank
     DEF UploadWriteCount, Typed, TypeOK, UploadLocals
<1>2. CASE ~UploadWriteCount
  <2>1. UNCHANGED <<share_file_list, zset, hash, user_file_count>>
    BY <1>2 DEF UploadStep, UploadStoreBlob, UploadInsertFileInfo,
      UploadInsertUserFile, UploadSelectCount, UploadReply, StoreBlob,
      InsertFileInfo, InsertUserFile, SetUserRows, storeVars, mysqlVars,
      redisVars
  <2>2. QED
    BY <2>1, StoresSameRank
<1>3. QED
  BY <1>1, <1>2

LEMMA InstantSameRank ==
  ASSUME Typed, InstantStep
  PROVE  RankKept
<1>1. CASE InstantWriteCount
  BY <1>1, CountOfUserSame, StoresSameRank
     DEF InstantWriteCount, Typed, TypeOK, InstantLocals
<1>2. CASE ~InstantWriteCount
  <2>1. UNCHANGED <<share_file_list, zset, hash, user_file_count>>
    BY <1>2 DEF InstantStep, InstantUnknown, InstantSelectRefs,
      InstantSelectOwn, InstantWriteRefs, InstantInsertUserFile,
      InstantSelectCount, InstantReply, UpdateFileInfo, InsertUserFile,
      SetUserRows, storeVars, mysqlVars, redisVars
  <2>2. QED
    BY <2>1, StoresSameRank
<1>3. QED
  BY <1>1, <1>2

(* dealsharefile, without a cancel *)

LEMMA DealShareSameRank ==
  ASSUME Typed, OneShareRowPerFile, dealshare.pc \notin CancelSteps,
         DealShareStep, UNCHANGED misread
  PROVE  RankKept /\ dealshare'.pc \notin CancelSteps
<1> USE DEF Typed, TypeOK
<1>1. ~CancelStep
  BY DEF CancelStep, CancelMark, CancelSelectTotal, CancelDeleteTotal,
    CancelCrashes, CancelDeleteShare, CancelZrem, CancelHdel, CancelHdelDies,
    CancelSteps
<1>2. dealshare.pc # "idle" => dealshare.file \in Files
  BY DEF DealShareLocals
<1>3. CASE SharePvMissing \/ SharePvSelect \/ SharePvZsetExit \/ SaveStep
             \/ DealShareReply
  <2>1. UNCHANGED <<share_file_list, zset, hash, user_file_count>>
    BY <1>3 DEF SharePvMissing, SharePvSelect, SharePvZsetExit, SaveStep,
      SaveSelectOwn, SaveUnknown, SaveSelectRefs, SaveWriteRefs,
      DealShareReply, storeVars, mysqlVars, redisVars
  <2>2. dealshare'.pc \notin CancelSteps
    <3> USE DEF DealShareGoes, DealShareReplies, DealShareTypeOK, CancelSteps
    <3>1. CASE SharePvMissing \/ SharePvSelect \/ SharePvZsetExit
      BY <3>1 DEF SharePvMissing, SharePvSelect, SharePvZsetExit
    <3>2. CASE SaveStep
      BY <3>2 DEF SaveStep, SaveSelectOwn, SaveUnknown, SaveSelectRefs,
        SaveWriteRefs
    <3>3. CASE DealShareReply
      BY <3>3 DEF DealShareReply, DealShareIdle
    <3>4. QED
      BY <1>3, <3>1, <3>2, <3>3
  <2>3. QED
    BY <2>1, <2>2, StoresSameRank
<1>4. CASE SharePvWrite
  <2>0. dealshare.count \in Nat
    BY <1>4 DEF SharePvWrite, DealShareLocals
  <2>1. /\ dealshare.file \in Files /\ dealshare.count + 1 \in Nat
        /\ UpdateSharePv(dealshare.file, dealshare.count + 1)
        /\ dealshare'.pc = "pv: zset_exit"
    <3>1. dealshare.count + 1 \in Nat
      BY <2>0, NatSteps, Zenon
    <3>2. QED
      BY <1>2, <1>4, <3>1 DEF SharePvWrite, DealShareGoes, DealShareTypeOK
  <2>2. \A f \in Files : ~IsShared(f) => ~IsShared(f)'
    BY <2>1, UpdateSharePvKeeps
  <2>3. UNCHANGED <<zset, hash, user_file_count>>
    BY <2>1 DEF UpdateSharePv, SetShares, redisVars
  <2>4. QED
    BY <2>1, <2>2, <2>3 DEF RankKept, Ranked, Files, CancelSteps
<1>5. CASE SharePvZincrby
  <2>1. Ranked' = Ranked \cup {dealshare.file}
          /\ UNCHANGED <<share_file_list, user_file_count, hash>>
    BY <1>2, <1>5, ZincrbyRanks DEF SharePvZincrby
  <2>2. dealshare'.pc = "reply"
    BY <1>5 DEF SharePvZincrby, DealShareReplies, DealShareTypeOK
  <2>3. QED
    BY <2>1, <2>2 DEF RankKept, IsShared, CancelSteps
<1>6. CASE SharePvZadd
  <2>1. dealshare.file \in Files /\ dealshare.count + 1 \in Int
    <3>1. dealshare.count \in Nat
      BY <1>6 DEF SharePvZadd, DealShareLocals
    <3>2. dealshare.count + 1 \in Int
      BY <3>1, NatSteps, Zenon
    <3>3. QED
      BY <1>2, <1>6, <3>2 DEF SharePvZadd
  <2>2. Ranked' = Ranked \cup {dealshare.file}
          /\ UNCHANGED <<share_file_list, user_file_count, hash>>
    BY <1>6, <2>1, ZaddRanks DEF SharePvZadd
  <2>3. dealshare'.pc = "pv: hset"
    BY <1>6 DEF SharePvZadd, DealShareGoes, DealShareTypeOK
  <2>4. QED
    BY <2>2, <2>3 DEF RankKept, IsShared, CancelSteps
<1>7. CASE SharePvHset
  <2>1. UNCHANGED <<share_file_list, user_file_count, zset>>
          /\ hash \subseteq hash'
    BY <1>7 DEF SharePvHset, Hset, SetHash, mysqlVars
  <2>2. dealshare'.pc = "reply"
    BY <1>7 DEF SharePvHset, DealShareReplies, DealShareTypeOK
  <2>3. QED
    BY <2>1, <2>2 DEF RankKept, IsShared, Ranked, Files, CancelSteps
<1>8. QED
  BY <1>1, <1>3, <1>4, <1>5, <1>6, <1>7 DEF DealShareStep, SharePvStep

(* dealfile *)

Promises == {"share: select total", "share: write total", "share: zadd",
             "share: hset"}
Clears   == {"del: select total", "del: write total", "del: zrem",
             "del: hdel"}

(* What the statements do that neither insert a share, nor bring it to     *)
(* Redis, nor take one away.                                               *)
DealMovesOn ==
  /\ dealfile'.pc # "share: write total"
  /\ dealfile'.pc \in Clears =>
       dealfile.pc \in Clears /\ dealfile'.file = dealfile.file
  /\ share_file_list' = share_file_list
  /\ Ranked \subseteq Ranked' /\ hash' = hash

LEMMA DealMovesOnSteps ==
  ASSUME Typed, DealStep, dealfile.pc \notin Promises,
         ~ShareInsert, ~DelDeleteShare, ~DelZrem, ~DelHdel
  PROVE  DealMovesOn
<1>0. 0 \in Int
  OBVIOUS
<1> USE DEF DealGoes, DealReplies, Promises, Clears
<1>1. DealTypeOK /\ StoreTypeOK
  BY DEF Typed, TypeOK
<1>2. dealfile.pc # "idle" => dealfile.file \in Files
  BY DEF Typed, DealLocals
<1>3. UNCHANGED <<share_file_list, zset, hash>> =>
        share_file_list' = share_file_list /\ Ranked \subseteq Ranked'
          /\ hash' = hash
  BY DEF Ranked
<1>4. CASE ShareZaddAgain
  <2>1. Ranked' = Ranked \cup {dealfile.file}
          /\ UNCHANGED <<share_file_list, user_file_count, hash>>
    <3>1. PICK g \in Files : g = dealfile.file
      BY <1>2, <1>4 DEF ShareZaddAgain
    <3>2. Zadd(g, 0)
      BY <1>4, <3>1 DEF ShareZaddAgain
    <3>3. QED
      BY <1>0, <1>1, <3>1, <3>2, ZaddRanks
  <2>2. dealfile'.pc = "reply"
    BY <1>1, <1>4 DEF ShareZaddAgain, DealTypeOK
  <2>3. QED
    BY <2>1, <2>2 DEF DealMovesOn
<1>5. CASE ShareZsetExit \/ ShareSelect \/ ShareMark
  <2>1. UNCHANGED <<share_file_list, zset, hash>>
    BY <1>5 DEF ShareZsetExit, ShareSelect, ShareMark, UpdateShared,
      SetUserRows, storeVars, mysqlVars, redisVars
  <2>2. dealfile'.pc \notin Clears \cup {"share: write total"}
    BY <1>1, <1>5 DEF ShareZsetExit, ShareSelect, ShareMark, DealTypeOK
  <2>3. QED
    BY <1>3, <2>1, <2>2 DEF DealMovesOn
<1>6. CASE DelZsetExit \/ DelNoStatus \/ DelSelectStatus
  <2>1. UNCHANGED <<share_file_list, zset, hash>>
    BY <1>6 DEF DelZsetExit, DelNoStatus, DelSelectStatus, storeVars,
      mysqlVars, redisVars
  <2>2. dealfile'.pc \notin Clears \cup {"share: write total"}
    BY <1>1, <1>6 DEF DelZsetExit, DelNoStatus, DelSelectStatus, DealTypeOK
  <2>3. QED
    BY <1>3, <2>1, <2>2 DEF DealMovesOn
<1>7. CASE DelSelectTotal \/ DelWriteTotal
  <2>1. UNCHANGED <<share_file_list, zset, hash>>
    BY <1>7 DEF DelSelectTotal, DelWriteTotal, UpdateCount, SetCount,
      storeVars, mysqlVars, redisVars
  <2>2. /\ dealfile'.pc # "share: write total"
        /\ dealfile'.file = dealfile.file /\ dealfile.pc \in Clears
    BY <1>1, <1>7 DEF DelSelectTotal, DelWriteTotal, DealTypeOK
  <2>3. QED
    BY <1>3, <2>1, <2>2 DEF DealMovesOn
<1>8. CASE DelSelectCount \/ DelWriteCount \/ DelDeleteUserFile
             \/ DelNoRefs \/ DelSelectRefs
  <2>1. UNCHANGED <<share_file_list, zset, hash>>
    BY <1>8 DEF DelSelectCount, DelWriteCount, DelDeleteUserFile, DelNoRefs,
      DelSelectRefs, DeleteCount, UpdateCount, SetCount, DeleteUserFile,
      SetUserRows, storeVars, mysqlVars, redisVars
  <2>2. dealfile'.pc \notin Clears \cup {"share: write total"}
    BY <1>1, <1>8 DEF DelSelectCount, DelWriteCount, DelDeleteUserFile,
      DelNoRefs, DelSelectRefs, DealTypeOK
  <2>3. QED
    BY <1>3, <2>1, <2>2 DEF DealMovesOn
<1>9. CASE DelWriteRefs \/ DelNoFileId \/ DelSelectFileId
             \/ DelDeleteFileInfo \/ DelRemoveBlob \/ DelRemoveNothing
  <2>1. UNCHANGED <<share_file_list, zset, hash>>
    BY <1>9 DEF DelWriteRefs, DelNoFileId, DelSelectFileId, DelDeleteFileInfo,
      DelRemoveBlob, DelRemoveNothing, UpdateFileInfo, DeleteFileInfo, RemoveBlob, storeVars,
      mysqlVars, redisVars
  <2>2. dealfile'.pc \notin Clears \cup {"share: write total"}
    BY <1>1, <1>9 DEF DelWriteRefs, DelNoFileId, DelSelectFileId,
      DelDeleteFileInfo, DelRemoveBlob, DelRemoveNothing, DealTypeOK
  <2>3. QED
    BY <1>3, <2>1, <2>2 DEF DealMovesOn
<1>10. CASE PvStep \/ DealReply
  <2>1. UNCHANGED <<share_file_list, zset, hash>>
    BY <1>10 DEF PvStep, PvMissing, PvSelect, PvWrite, DealReply,
      UpdateUserPv, SetUserRows, storeVars, mysqlVars, redisVars
  <2>2. dealfile'.pc \notin Clears \cup {"share: write total"}
    <3>1. CASE PvStep
      BY <1>1, <3>1 DEF PvStep, PvMissing, PvSelect, PvWrite, DealTypeOK
    <3>2. CASE DealReply
      BY <3>2 DEF DealReply, DealIdle
    <3>3. QED
      BY <1>10, <3>1, <3>2
  <2>3. QED
    BY <1>3, <2>1, <2>2 DEF DealMovesOn
<1>11. ~ShareSelectTotal /\ ~ShareWriteTotal /\ ~ShareZadd /\ ~ShareHset
  BY DEF ShareSelectTotal, ShareWriteTotal, ShareZadd, ShareHset
<1>12. CASE DelHdelDies
  <2>1. UNCHANGED <<share_file_list, zset, hash>> /\ dealfile'.pc = "idle"
    BY <1>12 DEF DelHdelDies, DealIdle, storeVars, mysqlVars, redisVars
  <2>2. QED
    BY <1>3, <2>1 DEF DealMovesOn
<1>13. QED
  BY <1>4, <1>5, <1>6, <1>7, <1>8, <1>9, <1>10, <1>11, <1>12
     DEF DealStep, ShareStep, DelStep

LEMMA DealMovesOnRanked ==
  ASSUME RankedInv, DealMovesOn, dealfile.pc \notin Promises,
         dealfile'.pc \in DelSteps => OneUser,
         UNCHANGED <<dealshare, listing>>
  PROVE  RankedInv'
<1>1. ASSUME NEW f \in Files, IsShared(f)'
      PROVE  MemberComes(f)' /\ NameComes(f)'
  <2>1. MemberComes(f) /\ NameComes(f)
    BY <1>1 DEF RankedInv, DealMovesOn, IsShared
  <2>2. QED
    BY <2>1 DEF DealMovesOn, MemberComes, NameComes, Reloads, Promises
<1>2. dealfile'.pc \in Clears => ~IsShared(dealfile.file)'
  BY DEF RankedInv, DealMovesOn, IsShared, Clears
<1>3. QED
  BY <1>1, <1>2 DEF RankedInv, DealMovesOn, IsShared, Clears

(* A share on its way: the total, the member, the name. *)
LEMMA ShareKeepsRanked ==
  ASSUME Typed, SharesInv, RankedInv, UNCHANGED <<dealshare, listing>>,
         ShareInsert \/ ShareSelectTotal \/ ShareWriteTotal \/ ShareZadd
           \/ ShareHset
  PROVE  RankedInv'
<1> USE DEF DealGoes, DealReplies
<1>1. DealTypeOK /\ StoreTypeOK
  BY DEF Typed, TypeOK
<1>2. PICK g \in Files : g = dealfile.file
  BY DEF Typed, DealLocals, ShareInsert, ShareSelectTotal, ShareWriteTotal,
    ShareZadd, ShareHset
<1>3. CASE ShareInsert
  <2>1. PICK v \in Users : v = dealfile.user
    BY <1>3 DEF Typed, DealLocals, ShareInsert
  <2>2. dealfile'.pc = "share: select total" /\ dealfile'.file = g
    BY <1>1, <1>2, <1>3 DEF ShareInsert, DealTypeOK
  <2>3. /\ UNCHANGED <<zset, hash>>
        /\ \A f \in Files : f # g /\ IsShared(f)' => IsShared(f)
    BY <1>1, <1>2, <1>3, <2>1 DEF ShareInsert, InsertShare, SetShares,
      redisVars, IsShared, StoreTypeOK
  <2>4. \A f \in Files : IsShared(f)' => MemberComes(f)' /\ NameComes(f)'
    <3> TAKE f \in Files
    <3>1. CASE f = g
      BY <2>2, <3>1 DEF MemberComes, NameComes
    <3>2. ASSUME f # g, IsShared(f)'
          PROVE  MemberComes(f)' /\ NameComes(f)'
      <4>1. MemberComes(f) /\ NameComes(f)
        BY <2>3, <3>2 DEF RankedInv
      <4>2. dealfile.pc = "share: insert"
        BY <1>3 DEF ShareInsert
      <4>3. QED
        BY <2>3, <4>1, <4>2 DEF MemberComes, NameComes, Reloads, Ranked
    <3>3. QED
      BY <3>1, <3>2
  <2>5. QED
    BY <2>2, <2>4 DEF RankedInv, DelSteps
<1>4. CASE ShareSelectTotal
  <2>1. /\ dealfile'.pc = "share: write total" /\ dealfile'.file = g
        /\ dealfile'.count = user_file_count[ShareTotal]
        /\ UNCHANGED <<share_file_list, user_file_count, zset, hash>>
        /\ dealfile.pc = "share: select total"
    BY <1>1, <1>2, <1>4 DEF ShareSelectTotal, DealTypeOK, storeVars,
      mysqlVars, redisVars
  <2>2. \A f \in Files : IsShared(f)' => MemberComes(f)' /\ NameComes(f)'
    <3> TAKE f \in Files
    <3>1. IsShared(f)' => MemberComes(f) /\ NameComes(f)
      BY <2>1 DEF RankedInv, IsShared
    <3>2. QED
      BY <1>2, <2>1, <3>1 DEF MemberComes, NameComes, Reloads, Ranked
  <2>3. QED
    BY <2>1, <2>2 DEF RankedInv, DelSteps
<1>5. CASE ShareWriteTotal
  <2>1. dealfile.pc = "share: write total"
          /\ dealfile.count = user_file_count[ShareTotal]
    BY <1>5 DEF ShareWriteTotal, RankedInv
  <2>2. ~IncrementFails(ShareTotal, dealfile.count)
    BY <2>1 DEF IncrementFails
  <2>3. dealfile'.pc = "share: zadd" /\ dealfile'.file = g
    BY <1>1, <1>2, <1>5, <2>2 DEF ShareWriteTotal, DealTypeOK
  <2>4. UNCHANGED <<share_file_list, zset, hash>>
    BY <1>5 DEF ShareWriteTotal, IncrementCount, UpdateCount, SetCount,
      storeVars, mysqlVars, redisVars
  <2>5. \A f \in Files : IsShared(f)' => MemberComes(f)' /\ NameComes(f)'
    <3> TAKE f \in Files
    <3>1. IsShared(f)' => MemberComes(f) /\ NameComes(f)
      BY <2>4 DEF RankedInv, IsShared
    <3>2. QED
      BY <1>2, <2>1, <2>3, <2>4, <3>1
         DEF MemberComes, NameComes, Reloads, Ranked
  <2>6. QED
    BY <2>3, <2>5 DEF RankedInv, DelSteps
<1>6. CASE ShareZadd
  <2>1. dealfile.pc = "share: zadd"
    BY <1>6 DEF ShareZadd
  <2>2. dealfile'.pc = "share: hset" /\ dealfile'.file = g
    BY <1>1, <1>2, <1>6 DEF ShareZadd, DealTypeOK
  <2>3. Ranked' = Ranked \cup {g}
          /\ UNCHANGED <<share_file_list, user_file_count, hash>>
    <3>1. Zadd(g, 0)
      BY <1>2, <1>6 DEF ShareZadd
    <3>2. 0 \in Int
      OBVIOUS
    <3>3. QED
      BY <1>1, <3>1, <3>2, ZaddRanks
  <2>4. \A f \in Files : IsShared(f)' => MemberComes(f)' /\ NameComes(f)'
    <3> TAKE f \in Files
    <3>1. IsShared(f)' => MemberComes(f) /\ NameComes(f)
      BY <2>3 DEF RankedInv, IsShared
    <3>2. QED
      BY <1>2, <2>1, <2>2, <2>3, <3>1 DEF MemberComes, NameComes, Reloads
  <2>5. QED
    BY <2>2, <2>4 DEF RankedInv, DelSteps
<1>7. CASE ShareHset
  <2>1. dealfile.pc = "share: hset"
    BY <1>7 DEF ShareHset
  <2>2. dealfile'.pc = "reply"
    BY <1>1, <1>7 DEF ShareHset, DealTypeOK
  <2>3. hash' = hash \cup {g} /\ UNCHANGED <<share_file_list, zset>>
    BY <1>2, <1>7 DEF ShareHset, Hset, SetHash, mysqlVars
  <2>4. \A f \in Files : IsShared(f)' => MemberComes(f)' /\ NameComes(f)'
    <3> TAKE f \in Files
    <3>1. IsShared(f)' => MemberComes(f) /\ NameComes(f)
      BY <2>3 DEF RankedInv, IsShared
    <3>2. QED
      BY <1>2, <2>1, <2>3, <3>1 DEF MemberComes, NameComes, Reloads, Ranked
  <2>5. QED
    BY <2>2, <2>4 DEF RankedInv, DelSteps
<1>8. QED
  BY <1>3, <1>4, <1>5, <1>6, <1>7

(* A deletion: nobody else shares the file when its row is gone. *)
LEMMA DelStepsStay ==
  ASSUME DealTypeOK, DealStep
  PROVE  dealfile'.pc \in DelSteps => dealfile.pc \in DelSteps
<1> USE DEF DealTypeOK, DealGoes, DealReplies, DelSteps
<1>1. CASE ShareStep
  <2>1. CASE ShareZsetExit \/ ShareSelect \/ ShareZaddAgain \/ ShareMark
               \/ ShareInsert
    BY ZenonT(60), <2>1 DEF ShareZsetExit, ShareSelect, ShareZaddAgain, ShareMark,
      ShareInsert
  <2>2. CASE ShareSelectTotal \/ ShareWriteTotal \/ ShareZadd \/ ShareHset
    BY ZenonT(60), <2>2 DEF ShareSelectTotal, ShareWriteTotal, ShareZadd, ShareHset
  <2>3. QED
    BY <1>1, <2>1, <2>2 DEF ShareStep
<1>2. CASE DelStep
  BY <1>2 DEF DelStep, DelZsetExit, DelNoStatus, DelSelectStatus,
    DelDeleteShare, DelSelectTotal, DelWriteTotal, DelZrem, DelHdel,
    DelSelectCount, DelWriteCount, DelDeleteUserFile, DelNoRefs,
    DelHdelDies, DealIdle, DelSelectRefs, DelWriteRefs, DelNoFileId,
    DelSelectFileId, DelDeleteFileInfo, DelRemoveBlob, DelRemoveNothing
<1>3. CASE PvStep
  BY ZenonT(60), <1>3 DEF PvStep, PvMissing, PvSelect, PvWrite
<1>4. CASE DealReply
  BY <1>4 DEF DealReply, DealIdle
<1>5. QED
  BY <1>1, <1>2, <1>3, <1>4 DEF DealStep

LEMMA DelKeepsRanked ==
  ASSUME Typed, SharesInv, RankedInv, UNCHANGED <<dealshare, listing>>,
         UNCHANGED misread, DelDeleteShare \/ DelZrem \/ DelHdel
  PROVE  RankedInv'
<1> USE DEF DealGoes, DealReplies
<1>1. DealTypeOK /\ StoreTypeOK
  BY DEF Typed, TypeOK
<1>2. PICK g \in Files : g = dealfile.file
  BY DEF Typed, DealLocals, DelDeleteShare, DelZrem, DelHdel
<1>8. OneUser
  BY DEF RankedInv, DelSteps, DelDeleteShare, DelZrem, DelHdel
<1>3. CASE DelDeleteShare
  <2>1. PICK v \in Users : v = dealfile.user
    BY <1>3 DEF Typed, DealLocals, DelDeleteShare
  <2>2. /\ dealfile'.pc = "del: select total" /\ dealfile'.file = g
        /\ dealfile.pc = "del: delete share"
    BY <1>1, <1>2, <1>3 DEF DelDeleteShare, DealTypeOK
  <2>3. DeleteShare(v, g)
    BY <1>2, <1>3, <2>1 DEF DelDeleteShare
  <2>4. share_file_list'[v][g] = <<>>
    BY <1>1, <2>3 DEF DeleteShare, SetShares, StoreTypeOK
  <2>5. ~IsShared(g)'
    BY <1>8, <2>1, <2>4 DEF IsShared, OneUser
  <2>6. \A f \in Files : ~IsShared(f) => ~IsShared(f)'
    BY <1>1, <2>3, DeleteShareKeeps DEF SharesInv
  <2>7. UNCHANGED <<zset, hash>>
    BY <2>3 DEF DeleteShare, SetShares, redisVars
  <2>8. \A f \in Files : IsShared(f)' => MemberComes(f)' /\ NameComes(f)'
    <3> TAKE f \in Files
    <3>1. IsShared(f)' => MemberComes(f) /\ NameComes(f)
      BY <2>6 DEF RankedInv
    <3>2. QED
      BY <2>2, <2>7, <3>1 DEF MemberComes, NameComes, Reloads, Ranked
  <2>9. QED
    BY <1>8, <2>2, <2>5, <2>8 DEF RankedInv, IsShared
<1>4. CASE DelZrem
  <2>1. dealfile.pc = "del: zrem" /\ dealfile'.pc = "del: hdel"
          /\ dealfile'.file = g
    BY <1>1, <1>2, <1>4 DEF DelZrem, DealTypeOK
  <2>2. Ranked' = Ranked \ {g}
          /\ UNCHANGED <<share_file_list, user_file_count, hash>>
    BY <1>1, <1>2, <1>4, ZremRanks DEF DelZrem
  <2>3. ~IsShared(g)
    BY <1>2, <2>1 DEF RankedInv
  <2>4. \A f \in Files : IsShared(f)' => MemberComes(f)' /\ NameComes(f)'
    <3> TAKE f \in Files
    <3>1. IsShared(f)' => f # g /\ MemberComes(f) /\ NameComes(f)
      BY <2>2, <2>3 DEF RankedInv, IsShared
    <3>2. QED
      BY <2>1, <2>2, <3>1 DEF MemberComes, NameComes, Reloads
  <2>5. QED
    BY <1>8, <2>1, <2>2, <2>3, <2>4 DEF RankedInv, IsShared
<1>5. CASE DelHdel
  <2>1. dealfile.pc = "del: hdel" /\ dealfile'.pc = "del: select count"
    BY <1>1, <1>5 DEF DelHdel, DealTypeOK
  <2>2. hash' = hash \ {g} /\ UNCHANGED <<share_file_list, zset>>
    BY <1>2, <1>5 DEF DelHdel, Hdel, SetHash, mysqlVars
  <2>3. ~IsShared(g)
    BY <1>2, <2>1 DEF RankedInv
  <2>4. \A f \in Files : IsShared(f)' => MemberComes(f)' /\ NameComes(f)'
    <3> TAKE f \in Files
    <3>1. IsShared(f)' => f # g /\ MemberComes(f) /\ NameComes(f)
      BY <2>2, <2>3 DEF RankedInv, IsShared
    <3>2. QED
      BY <2>1, <2>2, <3>1 DEF MemberComes, NameComes, Reloads, Ranked
  <2>5. QED
    BY <1>8, <2>1, <2>4 DEF RankedInv
<1>6. QED
  BY <1>3, <1>4, <1>5

LEMMA DealKeepsRanked ==
  ASSUME Typed, SharesInv, RankedInv, DealStep,
         UNCHANGED <<dealshare, listing, misread>>
  PROVE  RankedInv'
<1>1. CASE ShareInsert \/ DelDeleteShare \/ DelZrem \/ DelHdel
  BY <1>1, ShareKeepsRanked, DelKeepsRanked
<1>2. CASE dealfile.pc \in Promises
  <2>1. ShareSelectTotal \/ ShareWriteTotal \/ ShareZadd \/ ShareHset
    BY <1>2 DEF Promises, DealStep, ShareStep, ShareZsetExit, ShareSelect,
      ShareZaddAgain, ShareMark, ShareInsert, DelStep, DelZsetExit,
      DelNoStatus, DelSelectStatus, DelDeleteShare, DelSelectTotal,
      DelWriteTotal, DelZrem, DelHdel, DelSelectCount, DelWriteCount,
      DelHdelDies, DelDeleteUserFile, DelNoRefs, DelSelectRefs, DelWriteRefs,
      DelNoFileId, DelSelectFileId, DelDeleteFileInfo, DelRemoveBlob,
      DelRemoveNothing, PvStep, PvMissing,
      PvSelect, PvWrite, DealReply
  <2>2. QED
    BY <2>1, ShareKeepsRanked
<1>3. dealfile'.pc \in DelSteps => OneUser
  BY DelStepsStay DEF RankedInv, Typed, TypeOK
<1>4. QED
  BY <1>1, <1>2, <1>3, DealMovesOnSteps, DealMovesOnRanked

(* sharefiles *)

LEMMA SharedHasRow ==
  ASSUME StoreTypeOK, NEW f \in Files, IsShared(f)
  PROVE  \E row \in SharedRows : row.file = f
<1>1. PICK u \in Users : share_file_list[u][f] # <<>>
  BY DEF IsShared
<1>2. share_file_list[u][f] \in Seq(Nat)
  BY DEF StoreTypeOK
<1>3. Len(share_file_list[u][f]) # 0
  BY <1>1, <1>2, EmptySeq
<1>4. 1 \in DOMAIN share_file_list[u][f]
  BY <1>2, <1>3, LenProperties
<1> DEFINE row == [file |-> f, pv |-> share_file_list[u][f][1]]
           rows == {[file |-> f, pv |-> share_file_list[u][f][i]] :
                      i \in DOMAIN share_file_list[u][f]}
<1>5. row \in rows
  BY <1>4
<1>6. rows \in {{[file |-> g, pv |-> share_file_list[v][g][i]] :
                   i \in DOMAIN share_file_list[v][g]} :
                 v \in Users, g \in Files}
  OBVIOUS
<1> HIDE DEF rows
<1>7. row \in SharedRows
  BY <1>5, <1>6 DEF SharedRows
<1>8. row.file = f
  OBVIOUS
<1>9. QED
  BY <1>7, <1>8

LEMMA ListingKeepsMysql ==
  ASSUME ListingTypeOK, ListingStep, listing.pc # "idle" => listing.mysql
  PROVE  listing'.pc # "idle" => listing'.mysql
<1> USE DEF ListingTypeOK, ListingStates, ListingGoes, ListingReplies
<1>1. CASE CountSelect \/ NormalSelect
  BY <1>1 DEF CountSelect, NormalSelect
<1>2. CASE RankSelectTotal \/ RankZcard \/ RankDelZset \/ RankDelHash
             \/ RankSelectShares
  BY <1>2 DEF RankSelectTotal, RankZcard, RankDelZset, RankDelHash,
    RankSelectShares
<1>3. CASE RankZadd \/ RankHset \/ RankZrevrange \/ RankHget \/ RankZscore
  BY <1>3 DEF RankZadd, RankHset, RankZrevrange, RankHget, RankZscore
<1>4. CASE ListingReply
  BY <1>4 DEF ListingReply, ListingIdle
<1>5. QED
  BY <1>1, <1>2, <1>3, <1>4 DEF ListingStep, RankStep

LEMMA ListingKeepsRanked ==
  ASSUME Typed, RankedInv, UNCHANGED <<dealfile, dealshare>>, ListingStep
  PROVE  RankedInv'
<1> USE DEF ListingGoes, ListingReplies
<1>1. ListingTypeOK /\ StoreTypeOK
  BY DEF Typed, TypeOK
<1>2. UNCHANGED <<share_file_list, user_file_count>>
  BY ListingKeepsTables DEF mysqlVars
<1>3. listing'.pc # "idle" => listing'.mysql
  BY <1>1, ListingKeepsMysql DEF RankedInv
<1>4. ASSUME \A f \in Files : IsShared(f) /\ MemberComes(f) /\ NameComes(f)
               => MemberComes(f)' /\ NameComes(f)'
      PROVE  RankedInv'
  BY <1>2, <1>3, <1>4 DEF RankedInv, IsShared
<1>5. CASE CountSelect \/ NormalSelect \/ RankSelectTotal \/ RankZcard
             \/ RankZrevrange \/ RankHget \/ RankZscore \/ ListingReply
  <2>1. UNCHANGED <<zset, hash>>
    BY <1>5 DEF CountSelect, NormalSelect, RankSelectTotal, RankZcard,
      RankZrevrange, RankHget, RankZscore, ListingReply, storeVars, redisVars
  <2>2. listing.pc \notin {"rank: del hash", "rank: select shares",
                           "rank: zadd", "rank: hset"}
    BY <1>5 DEF CountSelect, NormalSelect, RankSelectTotal, RankZcard,
      RankZrevrange, RankHget, RankZscore, ListingReply
  <2>3. QED
    BY <1>4, <2>1, <2>2 DEF MemberComes, NameComes, Reloads, Ranked
<1>6. CASE RankDelZset
  <2>1. /\ listing.pc = "rank: del zset" /\ listing'.pc = "rank: del hash"
        /\ hash' = hash
    BY <1>1, <1>6 DEF RankDelZset, DelZset, SetZset, ListingTypeOK,
      ListingStates
  <2>2. QED
    BY <1>4, <2>1 DEF MemberComes, NameComes, Reloads
<1>7. CASE RankDelHash
  <2>1. listing'.pc = "rank: select shares"
    BY <1>1, <1>7 DEF RankDelHash, ListingTypeOK, ListingStates
  <2>2. QED
    BY <1>4, <2>1 DEF MemberComes, NameComes
<1>8. CASE RankSelectShares
  <2>1. listing.mysql
    BY <1>8 DEF RankSelectShares, RankedInv
  <2>2. ASSUME NEW f \in Files, IsShared(f)
        PROVE  Reloads(f)'
    <3>1. PICK row \in SharedRows : row.file = f
      BY <1>1, <2>2, SharedHasRow
    <3>2. listing'.pc = "rank: zadd" /\ listing'.rows = SharedRows
      BY <1>1, <1>8, <2>1, <3>1 DEF RankSelectShares, ListingTypeOK,
        ListingStates
    <3>3. QED
      BY <3>1, <3>2 DEF Reloads
  <2>3. QED
    BY <1>4, <2>2 DEF MemberComes, NameComes
<1>9. CASE RankZadd
  <2>1. PICK row \in listing.rows :
          /\ Zadd(row.file, row.pv)
          /\ listing' = [listing EXCEPT !.pc = "rank: hset",
                            !.row = row.file, !.rows = @ \ {row}]
    BY <1>9 DEF RankZadd
  <2>2. PICK g \in Files, n \in Int : g = row.file /\ n = row.pv
    <3>1. row \in ShareRows
      BY <1>1, <2>1 DEF ListingTypeOK, ListingStates
    <3>2. QED
      BY <3>1 DEF ShareRows
  <2>3. Ranked' = Ranked \cup {g} /\ hash' = hash
    BY <1>1, <2>1, <2>2, ZaddRanks
  <2>4. /\ listing.pc = "rank: zadd" /\ listing'.pc = "rank: hset"
        /\ listing'.row = g /\ listing'.rows = listing.rows \ {row}
    BY <1>1, <1>9, <2>1, <2>2 DEF RankZadd, ListingTypeOK, ListingStates
  <2>5. ASSUME NEW f \in Files, Reloads(f)
        PROVE  f = g \/ Reloads(f)'
    BY <2>2, <2>4, <2>5 DEF Reloads
  <2>6. ASSUME NEW f \in Files, MemberComes(f), NameComes(f)
        PROVE  MemberComes(f)' /\ NameComes(f)'
    <3>1. CASE f = g
      BY <2>3, <2>4, <3>1 DEF MemberComes, NameComes
    <3>2. CASE f # g
      BY <2>3, <2>4, <2>5, <2>6, <3>2 DEF MemberComes, NameComes
    <3>3. QED
      BY <3>1, <3>2
  <2>7. QED
    BY <1>4, <2>6
<1>10. CASE RankHset
  <2>1. /\ listing.pc = "rank: hset" /\ listing'.rows = listing.rows
        /\ listing.rows # {} => listing'.pc = "rank: zadd"
        /\ hash' = hash \cup {listing.row} /\ UNCHANGED zset
    BY <1>1, <1>10 DEF RankHset, Hset, SetHash, ListingTypeOK, ListingStates
  <2>2. \A f \in Files : Reloads(f) => Reloads(f)'
    BY <2>1 DEF Reloads
  <2>3. QED
    BY <1>4, <2>1, <2>2 DEF MemberComes, NameComes, Ranked
<1>11. QED
  BY <1>5, <1>6, <1>7, <1>8, <1>9, <1>10 DEF ListingStep, RankStep

(* Requests, and dealsharefile started anew *)

LEMMA AskKeepsRanked ==
  ASSUME "cancel" \notin Served, "del" \in Served => OneUser,
         Typed, RankedInv, Ask
  PROVE  RankedInv'
<1>1. UNCHANGED storeVars
  BY ZenonT(60) DEF Ask, AskUpload, AskInstant, AskDeal, AskSharePv, AskCancel, AskSave,
    AskListing, UploadAccept, InstantAccept, DealAccept, DealShareAccept,
    ListingAccept
<1>2. RankKept
  BY <1>1, StoresSameRank DEF storeVars, mysqlVars, redisVars
<1>3. ASSUME NEW u \in Users, NEW f \in Files,
             AskUpload(u, f) \/ AskInstant(u, f)
      PROVE  RankedInv'
  <2>1. UNCHANGED <<dealfile, dealshare, listing>>
    BY <1>3 DEF AskUpload, AskInstant
  <2>2. QED
    BY <1>2, <2>1, RankKeptKeeps DEF RankedInv
<1>4. ASSUME NEW u \in Users, NEW f \in Files,
             AskSharePv(u, f) \/ AskSave(u, f)
      PROVE  RankedInv'
  <2>1. /\ UNCHANGED <<dealfile, listing>>
        /\ dealshare'.pc \notin CancelSteps
    BY <1>4 DEF AskSharePv, AskSave, DealShareAccept, DealShareIdle,
      CancelSteps
  <2>2. QED
    BY <1>2, <2>1, RankKeptKeeps
<1>5. ASSUME NEW u \in Users, NEW f \in Files,
             NEW cmd \in {"share", "del", "pv"}, AskDeal(cmd, u, f)
      PROVE  RankedInv'
  <2>1. /\ dealfile.pc = "idle" /\ UNCHANGED <<dealshare, listing>>
        /\ dealfile'.pc \in {"share: zset_exit", "del: zset_exit",
                             "pv: select"}
        /\ dealfile'.pc = "del: zset_exit" => "del" \in Served
    BY <1>5 DEF AskDeal, Admits, DealAccept, DealIdle
  <2>2. DealMovesOn
    BY <1>1, <2>1 DEF DealMovesOn, Clears, Ranked, storeVars, mysqlVars,
      redisVars
  <2>3. QED
    BY <2>1, <2>2, DealMovesOnRanked DEF Promises, DelSteps
<1>6. ASSUME NEW cmd \in {"count", "normal", "pvdesc"}, AskListing(cmd)
      PROVE  RankedInv'
  <2>1. /\ listing.pc = "idle" /\ UNCHANGED <<dealfile, dealshare>>
        /\ listing'.mysql
    BY <1>6 DEF AskListing, ListingAccept, ListingIdle
  <2>2. UNCHANGED <<share_file_list, user_file_count, zset, hash>>
    BY <1>1 DEF storeVars, mysqlVars, redisVars
  <2>3. QED
    BY <2>1, <2>2 DEF RankedInv, MemberComes, NameComes, Reloads, IsShared,
      Ranked
<1>7. ~\E u \in Users, f \in Files : AskCancel(u, f)
  BY DEF AskCancel, Admits
<1>8. QED
  BY <1>3, <1>4, <1>5, <1>6, <1>7 DEF Ask

LEMMA RankedInductive ==
  ASSUME "cancel" \notin Served, "del" \in Served => OneUser, MaxFaults = 0,
         Typed, SharesInv, RankedInv, [Next]_vars
  PROVE  RankedInv'
<1>1. ~Faulty
  BY DEF Faulty, Typed, TypeOK
<1>2. CASE UploadRuns \/ InstantRuns
  <2>1. RankKept
    BY <1>2, UploadSameRank, InstantSameRank DEF UploadRuns, InstantRuns
  <2>2. UNCHANGED <<dealfile, dealshare, listing>>
    BY <1>2 DEF UploadRuns, InstantRuns
  <2>3. QED
    BY <2>1, <2>2, RankKeptKeeps DEF RankedInv
<1>3. CASE DealShareRuns
  <2>1. RankKept /\ dealshare'.pc \notin CancelSteps
    BY <1>3, DealShareSameRank DEF DealShareRuns, SharesInv, RankedInv,
       boundVars
  <2>2. QED
    BY <1>3, <2>1, RankKeptKeeps DEF DealShareRuns
<1>4. CASE DealRuns
  BY <1>4, DealKeepsRanked DEF DealRuns, boundVars
<1>5. CASE ListingRuns
  BY <1>5, ListingKeepsRanked DEF ListingRuns
<1>6. CASE Ask
  BY <1>6, AskKeepsRanked
<1>7. CASE Revived \/ Done \/ UNCHANGED vars
  <2>1. UNCHANGED <<share_file_list, user_file_count, zset, hash>>
    BY <1>7 DEF Revived, Done, vars, storeVars, mysqlVars, redisVars
  <2>2. UNCHANGED <<dealfile, listing>>
    BY <1>7 DEF Revived, Done, vars, programVars
  <2>3. dealshare'.pc \notin CancelSteps
    <3>1. CASE Revived
      BY <3>1 DEF Revived, DealShareIdle, CancelSteps
    <3>2. CASE UNCHANGED dealshare
      BY <3>2 DEF RankedInv
    <3>3. QED
      BY <1>7, <3>1, <3>2 DEF Done, vars, programVars
  <2>4. RankKept
    BY <2>1, StoresSameRank
  <2>5. QED
    BY <2>2, <2>3, <2>4, RankKeptKeeps
<1>8. QED
  BY <1>1, <1>2, <1>3, <1>4, <1>5, <1>6, <1>7 DEF Next, CallFails, Misreads,
     Killed

LEMMA RankedAtFirst == Init => RankedInv
<1> SUFFICES ASSUME Init PROVE RankedInv
  OBVIOUS
<1>1. /\ dealfile.pc = "idle" /\ dealshare.pc = "idle"
      /\ listing.pc = "idle"
  BY DEF Init, DealIdle, DealShareIdle, ListingIdle
<1>2. \A f \in Files : ~IsShared(f)
  BY DEF Init, StoreInit, IsShared
<1>3. QED
  BY <1>1, <1>2 DEF RankedInv, CancelSteps, DelSteps

(* However a ranking reloads Redis beside shares, downloads and deletions, *)
(* no shared file is left out of it, for any number of users, files and    *)
(* requests: so it is without a fault, without a cancel (which breaks off) *)
(* and, when somebody deletes, with one user (del_file takes a file from   *)
(* Redis that another user may share).                                     *)
THEOREM SharedStaysRanked ==
  ASSUME "cancel" \notin Served, "del" \in Served => OneUser, MaxFaults = 0
  PROVE  Spec => []SharedIsRanked
<1>1. Init => SharesInv /\ RankedInv
  BY SharesAtFirst, RankedAtFirst
<1>2. Typed /\ SharesInv /\ RankedInv /\ [Next]_vars
        => SharesInv' /\ RankedInv'
  BY SharesInductive, RankedInductive
<1>3. RankedInv => SharedIsRanked
  <2> SUFFICES ASSUME RankedInv, AllQuiet, NEW f \in Files, IsShared(f)
               PROVE  f \in Ranked \cap hash
    BY DEF SharedIsRanked
  <2>1. dealfile.pc \in {"idle", "dead"} /\ listing.pc \in {"idle", "dead"}
    <3>1. \A p \in {<<"upload", upload.pc>>, <<"md5", instant.pc>>,
                    <<"dealfile", dealfile.pc>>,
                    <<"dealsharefile", dealshare.pc>>,
                    <<"sharefiles", listing.pc>>} : p[2] \in {"idle", "dead"}
      BY DEF AllQuiet, AtWork
    <3>2. /\ <<"dealfile", dealfile.pc>>[2] \in {"idle", "dead"}
          /\ <<"sharefiles", listing.pc>>[2] \in {"idle", "dead"}
      BY <3>1
    <3>3. QED
      BY <3>2
  <2>2. MemberComes(f) /\ NameComes(f)
    BY DEF RankedInv
  <2>3. QED
    BY <2>1, <2>2 DEF MemberComes, NameComes, Reloads
<1>4. QED
  BY <1>1, <1>2, <1>3, AlwaysTyped, PTL DEF Spec
=============================================================================
